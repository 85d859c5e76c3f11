------------------------------ MODULE McpEdge ------------------------------
(***************************************************************************)
(* The stdio session of one MCP client: how requests are framed, read and  *)
(* answered one at a time, and how the projected tool catalog follows what *)
(* the service reports.  The session's thread is alone on standard input   *)
(* and output; the operator's page and resumed connects run on other       *)
(* threads of the process and change the same grants and stewardship facts *)
(* at any moment.  The service deduplicates writes by their request key.   *)
(***************************************************************************)
EXTENDS Naturals, FiniteSets, SequencesExt

CONSTANTS
  Context,       \* labeled sessions a call may name
  Key,           \* stewardship keys and rungs the catalog knows
  Unknown,       \* an action string of the wire the catalog does not know
  Intent,        \* writes the client wants done
  OwnKey,        \* those whose tool takes the caller's requestId
  MaxMessages,   \* bound: messages the client sends
  MaxChanges,    \* bound: changes by the other threads of the process
  Paced,         \* TRUE: a message arrives only once the previous was read
  None           \* no write, no catalog yet

ASSUME WireAssumption ==
  /\ Unknown \notin Key
  /\ OwnKey \subseteq Intent
  /\ None \notin Intent

ASSUME BoundAssumption ==
  MaxMessages \in Nat /\ MaxChanges \in Nat /\ Paced \in BOOLEAN

VARIABLES
  pipe,         \* standard input: what is written and not yet read
  bytes,        \* the bytes read_line has collected of a frame
  sent,         \* messages sent so far: the source of JSON-RPC ids
  waiting,      \* ids of the requests without an answer
  closed,       \* the client closed standard input
  hub,          \* the hub is built
  initialized,  \* notifications/initialized was seen
  server,       \* what the session's thread is doing
  granted,      \* some companion's credential is granted the forum service
  reported,     \* optional_tools: what each context's last envelope offered
  listed,       \* the catalog the client last received
  told,         \* list_changed was sent since then
  outside,      \* history: the catalog changed outside any call since then
  changes,      \* changes by other threads so far
  seen,         \* at the service: the request keys it has seen
  applied       \* at the service: how often each write was applied

clientVars == <<sent, closed>>
inputVars == <<pipe, bytes>>
factVars == <<granted, reported, changes>>
viewVars == <<listed, told, outside>>
serviceVars == <<seen, applied>>
vars == <<clientVars, inputVars, waiting, hub, initialized, server, factVars,
          viewVars, serviceVars>>

-----------------------------------------------------------------------------
Id == 1..MaxMessages

(* initialized is the only notification; other stands for ping, discovery,  *)
(* the empty resource lists and unknown methods, which are always answered; *)
(* a malformed call is one whose tool or arguments do not decode; a blank   *)
(* is a newline with nothing before it, not even a carriage return.         *)
Kind ==
  {"initialize", "initialized", "list", "call", "malformed", "other", "oversized", "blank"}

Message == [id: Id, kind: Kind, context: Context, write: Intent \cup {None}]

Request(m) == m.kind \notin {"initialized", "oversized", "blank"}

(* A message is text up to its newline; a read may end inside it.           *)
Fragment == [message: Message, part: {"head", "tail"}]

Framed(m) ==
  LET tail == <<[message |-> m, part |-> "tail"]>>
  IN  IF m.kind = "blank" THEN tail ELSE <<[message |-> m, part |-> "head"]>> \o tail

Reading == [pc |-> "reading", message |-> None, before |-> {}, granted |-> FALSE]

Handling(m) == [pc |-> "handling", message |-> m, before |-> {}, granted |-> FALSE]

Ended == [pc |-> "ended", message |-> None, before |-> {}, granted |-> FALSE]

At(pc) == server.pc = pc

Job(kind) == At("handling") /\ server.message.kind = kind

Calling(kind) == At("calling") /\ server.message.kind = kind

(* optional_tool_names: the union over every context that ever reported.    *)
Names == UNION {reported[c] : c \in Context}

(* Stewardship keys join the forum ring; without the grant neither shows.   *)
Catalog(ring, names) == [ring |-> ring, names |-> IF ring THEN names ELSE {}]

Ready == hub /\ initialized

-----------------------------------------------------------------------------
(* The client.                                                              *)

Send(kind, c, write) ==
  LET m == [id |-> sent + 1, kind |-> kind, context |-> c, write |-> write] IN
  /\ ~closed /\ sent < MaxMessages
  /\ Paced => pipe = <<>> /\ bytes = <<>>
  /\ kind # "call" => write = None
  /\ sent' = sent + 1
  /\ pipe' = pipe \o Framed(m)
  /\ waiting' = IF Request(m) THEN waiting \cup {m.id} ELSE waiting
  /\ UNCHANGED <<closed, bytes, hub, initialized, server, factVars, viewVars,
                 serviceVars>>

CloseInput ==
  /\ ~closed
  /\ closed' = TRUE
  /\ UNCHANGED <<sent, inputVars, waiting, hub, initialized, server, factVars,
                 viewVars, serviceVars>>

-----------------------------------------------------------------------------
(* Reading: read_line.                                                      *)

(* Mutant: the end of a read is taken for the end of a frame.               *)
ReadIsFrame(fragments) == TRUE

HasNewline(fragments) == \E i \in DOMAIN fragments : fragments[i].part = "tail"

(* The frame up to the first newline of what was collected.                 *)
Line(fragments) ==
  SubSeq(fragments, 1, SelectInSeq(fragments, LAMBDA f : f.part = "tail"))

(* One read returns some of what is there.  The frame ends at its first     *)
(* newline; what the read returned beyond it is dropped with the buffer.    *)
(* A frame that is not one whole message draws a parse error for no id; an  *)
(* empty frame has the length that stands for the end of standard input.    *)
Read(k) ==
  LET collected == bytes \o SubSeq(pipe, 1, k)
      line == Line(collected)
      message == Head(collected).message
  IN
  /\ At("reading")
  /\ k \in DOMAIN pipe
  /\ pipe' = SubSeq(pipe, k + 1, Len(pipe))
  /\ IF \E i \in DOMAIN collected : collected[i].message.kind = "oversized"
       THEN server' = Ended /\ bytes' = <<>>
       ELSE IF ~HasNewline(collected)
       THEN bytes' = collected /\ UNCHANGED server
       ELSE /\ bytes' = <<>>
            /\ server' = IF line # Framed(message) THEN server
                         ELSE IF message.kind = "blank" THEN Ended
                         ELSE Handling(message)
  /\ UNCHANGED <<clientVars, waiting, hub, initialized, factVars, viewVars,
                 serviceVars>>

(* Standard input ended: a partial frame is tried, then the session ends.   *)
ReadEnd ==
  /\ At("reading")
  /\ closed /\ pipe = <<>>
  /\ IF bytes = <<>>
       THEN server' = Ended /\ UNCHANGED bytes
       ELSE bytes' = <<>> /\ UNCHANGED server
  /\ UNCHANGED <<clientVars, pipe, waiting, hub, initialized, factVars, viewVars,
                 serviceVars>>

-----------------------------------------------------------------------------
(* Handling.                                                                *)

(* Mutant: a call before the session is ready is passed over in silence.    *)
Silence(id) == waiting

Refused(id) == waiting \ {id}

Answered == waiting' = waiting \ {server.message.id}

(* The first initialize builds the hub; a state that cannot be opened is    *)
(* answered and ends the session.                                           *)
Initialize ==
  /\ Job("initialize")
  /\ Answered
  /\ \/ hub' = TRUE /\ server' = Reading
     \/ ~hub /\ server' = Ended /\ UNCHANGED hub
  /\ UNCHANGED <<clientVars, inputVars, initialized, factVars, viewVars, serviceVars>>

Initialized ==
  /\ Job("initialized")
  /\ initialized' = TRUE
  /\ server' = Reading
  /\ UNCHANGED <<clientVars, inputVars, waiting, hub, factVars, viewVars, serviceVars>>

Other ==
  /\ Job("other")
  /\ Answered
  /\ server' = Reading
  /\ UNCHANGED <<clientVars, inputVars, hub, initialized, factVars, viewVars,
                 serviceVars>>

NotReady ==
  /\ \E kind \in {"list", "call", "malformed"} : Job(kind)
  /\ ~Ready
  /\ waiting' = Refused(server.message.id)
  /\ server' = Reading
  /\ UNCHANGED <<clientVars, inputVars, hub, initialized, factVars, viewVars,
                 serviceVars>>

(* tools/list is two live reads, each under a lock of its own.              *)
ReadGrants ==
  /\ Job("list")
  /\ Ready
  /\ server' = [pc |-> "listing", message |-> server.message, before |-> {},
                granted |-> granted]
  /\ outside' = FALSE
  /\ UNCHANGED <<clientVars, inputVars, waiting, hub, initialized, factVars,
                 listed, told, serviceVars>>

ListTools ==
  /\ At("listing")
  /\ listed' = Catalog(server.granted, Names)
  /\ told' = FALSE
  /\ Answered
  /\ server' = Reading
  /\ UNCHANGED <<clientVars, inputVars, hub, initialized, factVars, outside,
                 serviceVars>>

BeginCall ==
  /\ Job("call") \/ Job("malformed")
  /\ Ready
  /\ server' = [pc |-> "calling", message |-> server.message, before |-> Names,
                granted |-> FALSE]
  /\ UNCHANGED <<clientVars, inputVars, waiting, hub, initialized, factVars,
                 viewVars, serviceVars>>

(* Mutant: whatever the envelope offers is a key.                           *)
AnyKey(offers) == offers

(* observe_optional_tools: the offers the catalog knows.                    *)
KnownKeys(offers) == offers \cap Key

Observe(c, offers) == reported' = [reported EXCEPT ![c] = KnownKeys(offers)]

(* Mutant: every attempt carries a key the connector mints for it.          *)
MintedKey(m) == <<"minted", m.id>>

(* The key a write carries: the caller's, or one minted for this attempt.   *)
RequestKey(m) == IF m.write \in OwnKey THEN <<"own", m.write>> ELSE <<"minted", m.id>>

(* The service applies a write whose key it has not seen.                   *)
Applies(m) ==
  /\ RequestKey(m) \notin seen
  /\ seen' = seen \cup {RequestKey(m)}
  /\ applied' = [applied EXCEPT ![m.write] = @ + 1]

(* The call's answer, ahead of the comparison.                              *)
AnswerCall ==
  /\ Answered
  /\ server' = [server EXCEPT !.pc = "comparing"]

(* No tool of that name, or arguments it does not take.                     *)
Undecoded ==
  /\ Calling("malformed")
  /\ AnswerCall
  /\ UNCHANGED <<clientVars, inputVars, hub, initialized, factVars, viewVars,
                 serviceVars>>

(* An answer with an envelope: of a read, or a write's receipt.             *)
CallAnswered(offers) ==
  LET m == server.message IN
  /\ Calling("call")
  /\ IF m.write = None THEN UNCHANGED serviceVars ELSE Applies(m)
  /\ Observe(m.context, offers)
  /\ AnswerCall
  /\ UNCHANGED <<clientVars, inputVars, hub, initialized, granted, changes,
                 viewVars>>

(* permission_denied withdraws what the context had reported.               *)
CallDenied ==
  /\ Calling("call")
  /\ Observe(server.message.context, {})
  /\ AnswerCall
  /\ UNCHANGED <<clientVars, inputVars, hub, initialized, granted, changes,
                 viewVars, serviceVars>>

(* Any other refusal, a conflict ("already done"), an expired context, or   *)
(* transport trouble, after which the write may have been applied.          *)
CallFails ==
  LET m == server.message IN
  /\ Calling("call")
  /\ \/ UNCHANGED serviceVars
     \/ m.write # None /\ Applies(m)
  /\ AnswerCall
  /\ UNCHANGED <<clientVars, inputVars, hub, initialized, factVars, viewVars>>

(* Mutant: only a catalog that grew is announced.                           *)
Grew(before, after) == ~(after \subseteq before)

Differs(before, after) == before # after

(* The names before and after the call are compared, and a difference is    *)
(* announced after the answer.                                              *)
Compare ==
  /\ At("comparing")
  /\ told' = (told \/ Differs(server.before, Names))
  /\ server' = Reading
  /\ UNCHANGED <<clientVars, inputVars, waiting, hub, initialized, factVars,
                 listed, outside, serviceVars>>

-----------------------------------------------------------------------------
(* The process's other threads.                                             *)

(* A change the session's thread is not about to compare.                   *)
Unwatched == outside' = (outside \/ server.pc \notin {"calling", "comparing"})

(* A resumed connect arrives: its envelope is observed like any other.      *)
ResumeArrives(c, offers) ==
  /\ hub
  /\ changes < MaxChanges
  /\ Observe(c, offers)
  /\ reported' # reported
  /\ changes' = changes + 1
  /\ Unwatched
  /\ UNCHANGED <<clientVars, inputVars, waiting, hub, initialized, server, granted,
                 listed, told, serviceVars>>

(* A sign-in, a disconnect, a deletion or a grant on the operator's page.   *)
GrantToggles ==
  /\ hub
  /\ changes < MaxChanges
  /\ granted' = ~granted
  /\ changes' = changes + 1
  /\ outside' = TRUE
  /\ UNCHANGED <<clientVars, inputVars, waiting, hub, initialized, server, reported,
                 listed, told, serviceVars>>

-----------------------------------------------------------------------------
Init ==
  /\ pipe = <<>>
  /\ bytes = <<>>
  /\ sent = 0
  /\ waiting = {}
  /\ closed = FALSE
  /\ hub = FALSE
  /\ initialized = FALSE
  /\ server = Reading
  /\ granted \in BOOLEAN
  /\ reported = [c \in Context |-> {}]
  /\ listed = None
  /\ told = FALSE
  /\ outside = FALSE
  /\ changes = 0
  /\ seen = {}
  /\ applied = [i \in Intent |-> 0]

Offers == SUBSET (Key \cup {Unknown})

ClientStep ==
  \/ \E kind \in Kind, c \in Context, write \in Intent \cup {None} : Send(kind, c, write)
  \/ CloseInput

ServerStep ==
  \/ \E k \in DOMAIN pipe : Read(k)
  \/ ReadEnd
  \/ Initialize
  \/ Initialized
  \/ Other
  \/ NotReady
  \/ ReadGrants
  \/ ListTools
  \/ BeginCall
  \/ Undecoded
  \/ \E offers \in Offers : CallAnswered(offers)
  \/ CallDenied
  \/ CallFails
  \/ Compare

OtherThreads ==
  \/ \E c \in Context, offers \in Offers : ResumeArrives(c, offers)
  \/ GrantToggles

Next == ClientStep \/ ServerStep \/ OtherThreads

Spec == Init /\ [][Next]_vars

(* The session's thread runs on; but a call may last for ever (a connect    *)
(* mints its proof without a read timeout), and the client need not send    *)
(* anything, nor ever close standard input.                                 *)
Fairness == WF_vars(~At("calling") /\ ServerStep)

FairSpec == Spec /\ Fairness

-----------------------------------------------------------------------------
(* Properties.                                                              *)

ServerState ==
  [pc: {"reading", "handling", "listing", "calling", "comparing", "ended"},
   message: Message \cup {None}, before: SUBSET Key, granted: BOOLEAN]

(* Every variable has the shape the code's structures give it.              *)
TypeOK ==
  /\ pipe \in Seq(Fragment) /\ bytes \in Seq(Fragment)
  /\ sent \in 0..MaxMessages
  /\ waiting \subseteq Id
  /\ {closed, hub, initialized, granted, told, outside} \subseteq BOOLEAN
  /\ server \in ServerState
  /\ reported \in [Context -> SUBSET Key]
  /\ listed \in [ring: BOOLEAN, names: SUBSET Key] \cup {None}
  /\ changes \in 0..MaxChanges
  /\ applied \in [Intent -> Nat]

(* "ToolListChanged fires whenever a response changes either input"         *)
(* (docs/capabilities.md): while the session waits for input the client     *)
(* either holds the current catalog or was told to ask again, whatever      *)
(* calls, refusals and concurrent arrivals came since.  Changes that other  *)
(* threads make between calls are not announced: outside marks them.        *)
ListCurrent ==
  At("reading") /\ listed # None /\ ~outside
    => told \/ listed = Catalog(granted, Names)

(* "requestId is your idempotency key ...: reuse it to reconcile an         *)
(* uncertain outcome" (docs/tool-surface.md): however often a write is      *)
(* retried after refusals and lost answers, the service applies it once.    *)
AppliedOnce == \A i \in OwnKey : applied[i] <= 1

(* "Every call is web-shaped - it terminates, always" (README.md): as long  *)
(* as no call hangs, each request is answered, unless the session ends.     *)
EveryRequestEnds ==
  []<>(~At("calling")) =>
    \A id \in Id : id \in waiting ~> (id \notin waiting \/ At("ended"))

(* The message the session's thread works on.                               *)
Turn == IF server.pc \in {"reading", "ended"} THEN 0 ELSE server.message.id

(* The messages of which some text is on its way or collected.              *)
IdsOf(fragments) == {fragments[i].message.id : i \in DOMAIN fragments}

D == INSTANCE Dialogue WITH
       asked <- sent, unread <- IdsOf(bytes) \cup IdsOf(pipe), turn <- Turn,
       open <- waiting, ended <- At("ended"), Lossless <- Paced

(* "Notifications (no id) never get a response", and every request gets     *)
(* one: however reads cut standard input, whatever the calls come to and    *)
(* other threads do meanwhile, messages are handled whole, in their order,  *)
(* no request is answered twice or passed over for the next, and one that   *)
(* was sent after the last was read is never lost.                          *)
InTurn == D!Spec

=============================================================================
