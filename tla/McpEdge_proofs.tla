--------------------------- MODULE McpEdge_proofs ---------------------------
(***************************************************************************)
(* Theorems about McpEdge, for any contexts, keys, writes and messages:    *)
(* the client's catalog, and the writes that carry the caller's key.       *)
(***************************************************************************)
EXTENDS McpEdge, SequenceTheorems, WellFoundedInduction, TLAPS

(* The session's thread is a record of these four fields.                   *)
Shaped ==
  server = [pc |-> server.pc, message |-> server.message, before |-> server.before,
            granted |-> server.granted]

(* Unless another thread interfered, the client's catalog is the current    *)
(* one, or it was told; while a call is under way, the one of the moment    *)
(* the call began, which the comparison to come starts from; and while the  *)
(* catalog is being listed, the grants read for it are still the current.   *)
Listing == At("listing") => server.granted = granted

Held ==
  At("calling") \/ At("comparing") => listed = Catalog(granted, server.before)

Current ==
  server.pc \in {"reading", "handling", "ended"} => listed = Catalog(granted, Names)

ListInv ==
  Shaped /\ (~outside => Listing /\ (listed # None => told \/ (Held /\ Current)))

LEMMA ListInit == Init => ListInv
  BY DEF Init, Reading, Shaped, ListInv, Listing, At

LEMMA ListHolds == ListInv => ListCurrent
  BY DEF ListInv, ListCurrent, Current, At

(* Steps between two calls that leave the view and the facts alone.         *)
LEMMA ListStays ==
  ASSUME ListInv, UNCHANGED viewVars, UNCHANGED <<granted, reported>>,
         server.pc \in {"reading", "handling"},
         Shaped', server'.pc \in {"reading", "handling", "ended"}
  PROVE  ListInv'
  BY DEF ListInv, Listing, Held, Current, At, Names, viewVars

LEMMA ListClient ==
  ASSUME ListInv, ClientStep PROVE ListInv'
  <1>1. UNCHANGED <<server, viewVars, granted, reported>>
    BY DEF ClientStep, Send, CloseInput, factVars
  <1>2. QED
    BY <1>1 DEF ListInv, Shaped, Listing, Held, Current, At, Names, viewVars

LEMMA ListReads ==
  ASSUME ListInv, ReadEnd \/ \E k \in DOMAIN pipe : Read(k)
  PROVE  ListInv'
  <1> DEFINE handling == \E m : server' = Handling(m)
  <1>1. /\ server.pc = "reading" /\ UNCHANGED viewVars
        /\ UNCHANGED <<granted, reported>>
    BY DEF ReadEnd, Read, At, factVars
  <1>2. server' = server \/ server' = Ended \/ handling
    BY DEF ReadEnd, Read
  <1>3. Shaped' /\ server'.pc \in {"reading", "handling", "ended"}
    BY <1>1, <1>2 DEF ListInv, Shaped, Ended, Handling
  <1>4. QED
    BY <1>1, <1>3, ListStays

LEMMA ListAnswers ==
  ASSUME ListInv, Initialize \/ Initialized \/ Other \/ NotReady
  PROVE  ListInv'
  <1>1. /\ server.pc = "handling" /\ UNCHANGED viewVars
        /\ UNCHANGED <<granted, reported>>
        /\ server' = Reading \/ server' = Ended
    BY DEF Initialize, Initialized, Other, NotReady, Job, At, factVars
  <1>2. Shaped' /\ server'.pc \in {"reading", "handling", "ended"}
    BY <1>1 DEF Shaped, Reading, Ended
  <1>3. QED
    BY <1>1, <1>2, ListStays

LEMMA ListLists ==
  ASSUME ListInv, ReadGrants \/ ListTools PROVE ListInv'
  <1>1. CASE ReadGrants
    <2>1. /\ server'.pc = "listing" /\ server'.granted = granted' /\ Shaped'
      BY <1>1 DEF ReadGrants, Shaped, factVars
    <2>2. QED
      BY <2>1 DEF ListInv, Listing, Held, Current, At
  <1>2. CASE ListTools
    <2>1. /\ server.pc = "listing" /\ server' = Reading
          /\ listed' = Catalog(server.granted, Names)
          /\ UNCHANGED <<granted, reported, outside>>
      BY <1>2 DEF ListTools, At, factVars
    <2>2. Shaped' /\ server'.pc = "reading"
      BY <2>1 DEF Shaped, Reading
    <2>3. QED
      BY <2>1, <2>2 DEF ListInv, Listing, Held, Current, At, Names
  <1>3. QED
    BY <1>1, <1>2

LEMMA ListCalls ==
  ASSUME ListInv,
         \/ BeginCall \/ Undecoded \/ CallDenied \/ CallFails
         \/ \E offers \in Offers : CallAnswered(offers)
  PROVE  ListInv'
  <1>1. CASE BeginCall
    <2>1. /\ server.pc = "handling" /\ UNCHANGED <<viewVars, granted, reported>>
          /\ server'.pc = "calling" /\ server'.before = Names /\ Shaped'
      BY <1>1 DEF BeginCall, Job, At, Shaped, factVars
    <2>2. QED
      BY <2>1 DEF ListInv, Listing, Held, Current, At, viewVars
  <1>2. CASE \/ Undecoded \/ CallDenied \/ CallFails
             \/ \E offers \in Offers : CallAnswered(offers)
    <2>1. /\ server.pc = "calling" /\ UNCHANGED viewVars
          /\ granted' = granted
          /\ server' = [server EXCEPT !.pc = "comparing"]
      BY <1>2 DEF Undecoded, CallDenied, CallFails, CallAnswered, Calling, At,
                  AnswerCall, factVars
    <2>2. /\ server'.pc = "comparing" /\ server'.before = server.before /\ Shaped'
      BY <2>1 DEF ListInv, Shaped
    <2>3. QED
      BY <2>1, <2>2 DEF ListInv, Listing, Held, Current, At, viewVars
  <1>3. QED
    BY <1>1, <1>2

LEMMA ListCompares ==
  ASSUME ListInv, Compare PROVE ListInv'
  <1>1. /\ server.pc = "comparing" /\ server' = Reading
        /\ told' = (told \/ server.before # Names)
        /\ UNCHANGED <<granted, reported, listed, outside>>
    BY DEF Compare, Differs, At, factVars
  <1>2. Shaped' /\ server'.pc = "reading"
    BY <1>1 DEF Shaped, Reading
  <1>3. Names' = Names
    BY <1>1 DEF Names
  <1>4. QED
    BY <1>1, <1>2, <1>3 DEF ListInv, Listing, Held, Current, At

LEMMA ListOthers ==
  ASSUME ListInv, OtherThreads PROVE ListInv'
  <1>1. CASE GrantToggles
    BY <1>1 DEF GrantToggles, ListInv, Shaped
  <1>2. CASE \E c \in Context, offers \in Offers : ResumeArrives(c, offers)
    <2>1. /\ UNCHANGED <<server, granted, listed, told>>
          /\ outside' = (outside \/ server.pc \notin {"calling", "comparing"})
      BY <1>2 DEF ResumeArrives, Unwatched
    <2>2. QED
      BY <2>1 DEF ListInv, Shaped, Listing, Held, Current, At
  <1>3. QED
    BY <1>1, <1>2 DEF OtherThreads

LEMMA ListStep ==
  ASSUME ListInv, [Next]_vars PROVE ListInv'
  <1>1. CASE UNCHANGED vars
    BY <1>1 DEF vars, factVars, viewVars, ListInv, Shaped, Listing, Held, Current,
                At, Names
  <1>2. QED
    BY <1>1, ListClient, ListReads, ListAnswers, ListLists, ListCalls, ListCompares,
       ListOthers DEF Next, ServerStep

(* Whatever calls, refusals and arrivals come, a client that waits holds    *)
(* the current catalog or was told to ask again, unless another thread      *)
(* changed it between calls.                                                *)
THEOREM CatalogCurrent == Spec => []ListCurrent
  BY ListInit, ListHolds, ListStep, PTL DEF Spec

-----------------------------------------------------------------------------
(* A write was applied only under a key the service remembers.              *)
Remembered ==
  /\ applied \in [Intent -> Nat]
  /\ \A i \in OwnKey : \/ applied[i] = 0
                       \/ applied[i] = 1 /\ <<"own", i>> \in seen

LEMMA RememberedHolds == Remembered => AppliedOnce
  <1> SUFFICES ASSUME Remembered, NEW i \in OwnKey PROVE applied[i] <= 1
    BY DEF AppliedOnce
  <1>1. applied[i] = 0 \/ applied[i] = 1
    BY DEF Remembered
  <1>2. QED
    BY <1>1

LEMMA AppliesRemembered ==
  ASSUME Remembered, NEW m, Applies(m) PROVE Remembered'
  <1>1. /\ RequestKey(m) \notin seen
        /\ seen' = seen \cup {RequestKey(m)}
        /\ applied' = [applied EXCEPT ![m.write] = @ + 1]
    BY DEF Applies
  <1>2. applied' \in [Intent -> Nat]
    <2> DEFINE w == m.write
    <2>1. applied' = [applied EXCEPT ![w] = @ + 1] /\ applied \in [Intent -> Nat]
      BY <1>1 DEF Remembered
    <2> HIDE DEF w
    <2>2. CASE w \in Intent
      <3>1. applied[w] + 1 \in Nat
        BY <2>1, <2>2
      <3>2. QED
        BY <2>1, <3>1
    <2>3. CASE w \notin Intent
      BY <2>1, <2>3
    <2>4. QED
      BY <2>2, <2>3
  <1>3. ASSUME NEW i \in OwnKey
        PROVE  applied'[i] = 0 \/ (applied'[i] = 1 /\ <<"own", i>> \in seen')
    <2>1. CASE m.write = i
      <3>1. RequestKey(m) = <<"own", i>>
        BY <2>1 DEF RequestKey
      <3>2. applied[i] = 0
        BY <1>1, <3>1 DEF Remembered
      <3>3. applied'[i] = 1
        BY <1>1, <2>1, <3>2, WireAssumption DEF Remembered
      <3>4. QED
        BY <1>1, <3>1, <3>3
    <2>2. CASE m.write # i
      BY <1>1, <2>2, WireAssumption DEF Remembered
    <2>3. QED
      BY <2>1, <2>2
  <1>4. QED
    BY <1>2, <1>3 DEF Remembered

(* However often a write that carries the caller's key is retried, after    *)
(* refusals and lost answers, the service applies it once.                  *)
THEOREM WritesOnce == Spec => []AppliedOnce
  <1>1. Init => Remembered
    BY WireAssumption DEF Init, Remembered
  <1>2. ASSUME Remembered, [Next]_vars PROVE Remembered'
    <2>1. UNCHANGED serviceVars \/ \E m : Applies(m)
      BY <1>2 DEF Next, ClientStep, ServerStep, OtherThreads, Send, CloseInput, Read,
                  ReadEnd, Initialize, Initialized, Other, NotReady, ReadGrants,
                  ListTools, BeginCall, Undecoded, CallAnswered, CallDenied, CallFails,
                  Compare, ResumeArrives, GrantToggles, vars
    <2>2. CASE UNCHANGED serviceVars
      BY <1>2, <2>2 DEF serviceVars, Remembered
    <2>3. QED
      BY <1>2, <2>1, <2>2, AppliesRemembered
  <1>3. QED
    BY <1>1, <1>2, RememberedHolds, PTL DEF Spec

-----------------------------------------------------------------------------
(* Types.                                                                   *)

LEMMA Resting ==
  /\ Reading \in ServerState /\ Ended \in ServerState
  /\ Reading.pc = "reading" /\ Ended.pc = "ended"
  /\ \A m \in Message : Handling(m) \in ServerState /\ Handling(m).message = m
  BY DEF Reading, Ended, Handling, ServerState

LEMMA NamesTyped ==
  ASSUME TypeOK PROVE Names \subseteq Key
  BY DEF TypeOK, Names

(* The thread handles or calls for a message it was given.                  *)
Busy == server.pc \in {"handling", "listing", "calling"} => server.message \in Message

TypeInv == TypeOK /\ Busy

LEMMA TypeClient ==
  ASSUME TypeInv, ClientStep PROVE TypeInv'
  <1> TypeOK /\ Busy
    BY DEF TypeInv
  <1>1. CASE CloseInput
    BY <1>1 DEF CloseInput, TypeInv, TypeOK, Busy, inputVars, factVars, viewVars,
                serviceVars
  <1>2. ASSUME NEW kind \in Kind, NEW c \in Context, NEW write \in Intent \cup {None},
               Send(kind, c, write)
        PROVE  TypeInv'
    <2> DEFINE m == [id |-> sent + 1, kind |-> kind, context |-> c, write |-> write]
    <2>1. /\ sent' = sent + 1 /\ sent < MaxMessages /\ pipe' = pipe \o Framed(m)
          /\ waiting' = (IF Request(m) THEN waiting \cup {m.id} ELSE waiting)
          /\ UNCHANGED <<closed, bytes, hub, initialized, server, factVars, viewVars,
                         serviceVars>>
      BY <1>2 DEF Send
    <2>2. sent + 1 \in Id /\ sent + 1 \in 0..MaxMessages
      BY <2>1, BoundAssumption DEF TypeOK, Id
    <2>3. m \in Message /\ m.id \in Id
      BY <2>2 DEF Message
    <2> HIDE DEF m
    <2>4. Framed(m) \in Seq(Fragment)
      <3>1. \A part \in {"head", "tail"} : [message |-> m, part |-> part] \in Fragment
        BY <2>3 DEF Fragment
      <3>2. QED
        BY <3>1 DEF Framed
    <2>5. pipe' \in Seq(Fragment)
      BY <2>1, <2>4 DEF TypeOK
    <2>6. QED
      BY <2>1, <2>2, <2>3, <2>5 DEF TypeInv, TypeOK, Busy, factVars, viewVars, serviceVars
  <1>3. QED
    BY <1>1, <1>2 DEF ClientStep

LEMMA TypeReads ==
  ASSUME TypeInv, ReadEnd \/ \E k \in DOMAIN pipe : Read(k)
  PROVE  TypeInv'
  <1> TypeOK /\ Busy
    BY DEF TypeInv
  <1> <<>> \in Seq(Fragment)
    OBVIOUS
  <1>1. CASE ReadEnd
    <2>1. /\ server' \in ServerState /\ server'.pc \in {"reading", "ended"}
          /\ pipe' = pipe /\ bytes' \in Seq(Fragment)
      BY <1>1, Resting DEF ReadEnd, At, TypeOK
    <2>2. QED
      BY <1>1, <2>1 DEF ReadEnd, TypeInv, TypeOK, Busy, clientVars, factVars, viewVars,
                        serviceVars
  <1>2. ASSUME NEW k \in DOMAIN pipe, Read(k) PROVE TypeInv'
    <2> DEFINE read == SubSeq(pipe, 1, k)
               collected == bytes \o read
               message == Head(collected).message
    <2>1. /\ pipe \in Seq(Fragment) /\ bytes \in Seq(Fragment)
          /\ k \in 1..Len(pipe)
      BY DEF TypeOK
    <2>2. read \in Seq(Fragment) /\ Len(read) = k /\ SubSeq(pipe, k + 1, Len(pipe)) \in Seq(Fragment)
      BY <2>1
    <2> HIDE DEF read
    <2>3. collected \in Seq(Fragment) /\ collected # <<>>
      BY <2>1, <2>2
    <2>4. Head(collected) \in Fragment
      BY <2>3
    <2>5. message \in Message
      BY <2>4 DEF Fragment
    <2>6. /\ server.pc = "reading"
          /\ pipe' = SubSeq(pipe, k + 1, Len(pipe))
          /\ bytes' = <<>> \/ bytes' = collected
          /\ server' = Ended \/ server' = server \/ server' = Handling(message)
          /\ UNCHANGED <<clientVars, waiting, hub, initialized, factVars, viewVars,
                         serviceVars>>
      BY <1>2 DEF Read, At, read
    <2> HIDE DEF collected, message
    <2>7. /\ pipe' \in Seq(Fragment) /\ bytes' \in Seq(Fragment)
          /\ server' \in ServerState
          /\ server'.pc \in {"handling", "listing", "calling"} => server'.message \in Message
      BY <2>2, <2>3, <2>5, <2>6, Resting DEF TypeOK
    <2>8. QED
      BY <2>6, <2>7 DEF TypeInv, TypeOK, Busy, clientVars, factVars, viewVars,
                        serviceVars
  <1>3. QED
    BY <1>1, <1>2

LEMMA TypeAnswers ==
  ASSUME TypeInv, Initialize \/ Initialized \/ Other \/ NotReady
  PROVE  TypeInv'
  <1> TypeOK /\ Busy
    BY DEF TypeInv
  <1>1. /\ server' = Reading \/ server' = Ended
        /\ waiting' \subseteq waiting
        /\ hub' \in BOOLEAN /\ initialized' \in BOOLEAN
        /\ UNCHANGED <<clientVars, inputVars, factVars, viewVars, serviceVars>>
    BY DEF Initialize, Initialized, Other, NotReady, Answered, Refused, TypeOK
  <1>2. server' \in ServerState /\ server'.pc \in {"reading", "ended"}
    BY <1>1, Resting
  <1>3. QED
    BY <1>1, <1>2 DEF TypeInv, TypeOK, Busy, clientVars, inputVars, factVars, viewVars,
                      serviceVars

LEMMA TypeLists ==
  ASSUME TypeInv, ReadGrants \/ ListTools \/ BeginCall
  PROVE  TypeInv'
  <1> TypeOK /\ Busy
    BY DEF TypeInv
  <1>1. CASE ReadGrants
    <2>1. /\ server.message \in Message /\ granted \in BOOLEAN
          /\ server' = [pc |-> "listing", message |-> server.message, before |-> {},
                        granted |-> granted]
      BY <1>1 DEF ReadGrants, Job, At, Busy, TypeOK
    <2>2. server' \in ServerState /\ server'.message \in Message
      BY <2>1 DEF ServerState
    <2>3. QED
      BY <1>1, <2>2 DEF ReadGrants, TypeInv, TypeOK, Busy, clientVars, inputVars,
                        factVars, serviceVars
  <1>2. CASE ListTools
    <2>1. server.granted \in BOOLEAN
      BY DEF TypeOK, ServerState
    <2>2. listed' \in [ring: BOOLEAN, names: SUBSET Key]
      BY <1>2, <2>1, NamesTyped DEF ListTools, Catalog
    <2>3. server' \in ServerState /\ server'.pc = "reading"
      BY <1>2, Resting DEF ListTools
    <2>4. QED
      BY <1>2, <2>2, <2>3 DEF ListTools, Answered, TypeInv, TypeOK, Busy, clientVars,
                              inputVars, factVars, serviceVars
  <1>3. CASE BeginCall
    <2>1. /\ server.message \in Message
          /\ server' = [pc |-> "calling", message |-> server.message, before |-> Names,
                        granted |-> FALSE]
      BY <1>3 DEF BeginCall, Job, At, Busy
    <2>2. server' \in ServerState /\ server'.message \in Message
      BY <2>1, NamesTyped DEF ServerState
    <2>3. QED
      BY <1>3, <2>2 DEF BeginCall, TypeInv, TypeOK, Busy, clientVars, inputVars,
                        factVars, viewVars, serviceVars
  <1>4. QED
    BY <1>1, <1>2, <1>3

(* A call's answer, whatever it is, changes the thread and the request.     *)
LEMMA AnswerTyped ==
  ASSUME TypeOK, AnswerCall
  PROVE  /\ server' \in ServerState /\ server'.pc = "comparing"
         /\ waiting' \subseteq waiting
  BY DEF TypeOK, AnswerCall, Answered, ServerState

LEMMA ObserveTyped ==
  ASSUME TypeOK, NEW c, NEW offers, Observe(c, offers)
  PROVE  reported' \in [Context -> SUBSET Key]
  BY DEF TypeOK, Observe, KnownKeys

LEMMA AppliesTyped ==
  ASSUME TypeOK, NEW m, Applies(m) PROVE applied' \in [Intent -> Nat]
  <1> DEFINE w == m.write
  <1>1. applied' = [applied EXCEPT ![w] = @ + 1] /\ applied \in [Intent -> Nat]
    BY DEF Applies, TypeOK
  <1> HIDE DEF w
  <1>2. CASE w \in Intent
    <2>1. applied[w] + 1 \in Nat
      BY <1>1, <1>2
    <2>2. QED
      BY <1>1, <2>1
  <1>3. CASE w \notin Intent
    BY <1>1, <1>3
  <1>4. QED
    BY <1>2, <1>3

LEMMA TypeCalls ==
  ASSUME TypeInv,
         \/ Undecoded \/ CallDenied \/ CallFails
         \/ \E offers \in Offers : CallAnswered(offers)
  PROVE  TypeInv'
  <1> TypeOK
    BY DEF TypeInv
  <1>1. AnswerCall /\ UNCHANGED <<clientVars, inputVars, hub, initialized, granted,
                                  changes, viewVars>>
    BY DEF Undecoded, CallDenied, CallFails, CallAnswered, factVars
  <1>2. applied' \in [Intent -> Nat]
    <2>1. UNCHANGED serviceVars \/ \E m : Applies(m)
      BY DEF Undecoded, CallDenied, CallFails, CallAnswered
    <2>2. QED
      BY <2>1, AppliesTyped DEF serviceVars, TypeOK
  <1>3. reported' \in [Context -> SUBSET Key]
    <2>1. UNCHANGED factVars \/ \E c, offers : Observe(c, offers)
      BY DEF Undecoded, CallDenied, CallFails, CallAnswered
    <2>2. QED
      BY <2>1, ObserveTyped DEF factVars, TypeOK
  <1>4. QED
    BY <1>1, <1>2, <1>3, AnswerTyped
    DEF TypeInv, TypeOK, Busy, clientVars, inputVars, viewVars

LEMMA TypeOthers ==
  ASSUME TypeInv, Compare \/ OtherThreads PROVE TypeInv'
  <1> TypeOK /\ Busy
    BY DEF TypeInv
  <1>1. CASE Compare
    <2>1. server' \in ServerState /\ server'.pc = "reading" /\ told' \in BOOLEAN
      BY <1>1, Resting DEF Compare
    <2>2. QED
      BY <1>1, <2>1 DEF Compare, TypeInv, TypeOK, Busy, clientVars, inputVars, factVars,
                        serviceVars
  <1>2. CASE GrantToggles
    <2>1. changes' \in 0..MaxChanges
      BY <1>2, BoundAssumption DEF GrantToggles, TypeOK
    <2>2. QED
      BY <1>2, <2>1 DEF GrantToggles, TypeInv, TypeOK, Busy, clientVars, inputVars,
                        serviceVars
  <1>3. ASSUME NEW c \in Context, NEW offers \in Offers, ResumeArrives(c, offers)
        PROVE  TypeInv'
    <2>1. changes' \in 0..MaxChanges
      BY <1>3, BoundAssumption DEF ResumeArrives, TypeOK
    <2>2. reported' \in [Context -> SUBSET Key]
      BY <1>3, ObserveTyped DEF ResumeArrives
    <2>3. outside' \in BOOLEAN
      BY <1>3 DEF ResumeArrives, Unwatched, TypeOK
    <2>4. QED
      BY <1>3, <2>1, <2>2, <2>3 DEF ResumeArrives, TypeInv, TypeOK, Busy, clientVars,
                                    inputVars, serviceVars
  <1>4. QED
    BY <1>1, <1>2, <1>3 DEF OtherThreads

LEMMA TypeInit == Init => TypeInv
  <1> SUFFICES ASSUME Init PROVE TypeInv
    OBVIOUS
  <1>1. <<>> \in Seq(Fragment)
    OBVIOUS
  <1>2. pipe \in Seq(Fragment) /\ bytes \in Seq(Fragment)
    BY <1>1 DEF Init
  <1>3. server \in ServerState /\ Busy
    BY Resting DEF Init, Busy
  <1>4. reported \in [Context -> SUBSET Key] /\ applied \in [Intent -> Nat]
    BY DEF Init
  <1>5. sent \in 0..MaxMessages /\ changes \in 0..MaxChanges
    BY BoundAssumption DEF Init
  <1>6. /\ {closed, hub, initialized, granted, told, outside} \subseteq BOOLEAN
        /\ waiting \subseteq Id
        /\ listed \in [ring: BOOLEAN, names: SUBSET Key] \cup {None}
    BY DEF Init
  <1>7. QED
    BY <1>2, <1>3, <1>4, <1>5, <1>6 DEF TypeInv, TypeOK

LEMMA TypeStep ==
  ASSUME TypeInv, [Next]_vars PROVE TypeInv'
  <1>1. CASE UNCHANGED vars
    BY <1>1 DEF vars, clientVars, inputVars, factVars, viewVars, serviceVars, TypeInv,
                TypeOK, Busy
  <1>2. QED
    BY <1>1, TypeClient, TypeReads, TypeAnswers, TypeLists, TypeCalls, TypeOthers
    DEF Next, ServerStep

(* Every variable of the session keeps its shape, whatever is sent, read in *)
(* pieces, answered or refused.                                             *)
THEOREM TypeCorrect == Spec => []TypeOK
  <1>1. TypeInv => TypeOK
    BY DEF TypeInv
  <1>2. QED
    BY <1>1, TypeInit, TypeStep, PTL DEF Spec

-----------------------------------------------------------------------------
(* The dialogue: facts about fragments.                                     *)

LEMMA Least ==
  ASSUME NEW S \in SUBSET Nat, S # {}
  PROVE  Min(S) \in S /\ \A y \in S : Min(S) <= y
  <1> DEFINE R == {p \in Nat \X Nat : p[1] < p[2]}
  <1>1. OpToRel(<, Nat) = R
    BY Zenon DEF OpToRel
  <1>2. \A x, y \in Nat : <<y, x>> \in R <=> y < x
    OBVIOUS
  <1> HIDE DEF R
  <1>3. IsWellFoundedOn(R, Nat)
    BY <1>1, NatLessThanWellFounded, Zenon
  <1>4. PICK x \in S : \A y \in S : ~(<<y, x>> \in R)
    BY <1>3, WFMin
  <1>5. ASSUME NEW y \in S PROVE x <= y
    <2>1. x \in Nat /\ y \in Nat
      OBVIOUS
    <2>2. ~(y < x)
      BY <1>2, <1>4, <2>1
    <2>3. QED
      BY <2>1, <2>2
  <1>6. QED
    BY <1>5 DEF Min

(* The frame ends at the first newline.                                     *)
LEMMA LineIs ==
  ASSUME NEW s \in Seq(Fragment), HasNewline(s)
  PROVE  \E n \in 1..Len(s) :
           /\ Line(s) = SubSeq(s, 1, n)
           /\ s[n].part = "tail"
           /\ \A i \in 1..Len(s) : s[i].part = "tail" => n <= i
  <1> DEFINE ends == {i \in 1..Len(s) : s[i].part = "tail"}
  <1>1. ends \in SUBSET Nat /\ ends # {}
    BY DEF HasNewline
  <1>2. Min(ends) \in ends /\ \A y \in ends : Min(ends) <= y
    BY <1>1, Least
  <1>3. Line(s) = SubSeq(s, 1, Min(ends))
    BY <1>1 DEF Line, SelectInSeq
  <1>4. QED
    BY <1>2, <1>3

Rank(f) == 2 * f.message.id + (IF f.part = "tail" THEN 1 ELSE 0)

LEMMA RankBounds ==
  ASSUME NEW f \in Fragment
  PROVE  /\ f.message \in Message /\ f.message.id \in Nat /\ f.message.id >= 1
         /\ Rank(f) \in Nat
         /\ 2 * f.message.id <= Rank(f) /\ Rank(f) <= 2 * f.message.id + 1
         /\ f.part = "tail" => Rank(f) = 2 * f.message.id + 1
  BY BoundAssumption DEF Fragment, Message, Id, Rank

Rising(s) == \A i, j \in 1..Len(s) : i < j => Rank(s[i]) < Rank(s[j])

LEMMA Joined ==
  ASSUME NEW s \in Seq(Fragment), NEW t \in Seq(Fragment)
  PROVE  /\ s \o t \in Seq(Fragment) /\ Len(s \o t) = Len(s) + Len(t)
         /\ \A i \in 1..Len(s) : i \in 1..Len(s \o t) /\ (s \o t)[i] = s[i]
         /\ \A j \in 1..Len(t) :
              Len(s) + j \in 1..Len(s \o t) /\ (s \o t)[Len(s) + j] = t[j]
         /\ \A i \in 1..Len(s \o t) :
              \/ i \in 1..Len(s)
              \/ i - Len(s) \in 1..Len(t)
         /\ IdsOf(s \o t) = IdsOf(s) \cup IdsOf(t)
  <1>1. /\ s \o t \in Seq(Fragment) /\ Len(s \o t) = Len(s) + Len(t)
        /\ \A i \in 1..Len(s) : i \in 1..Len(s \o t) /\ (s \o t)[i] = s[i]
        /\ \A j \in 1..Len(t) :
             Len(s) + j \in 1..Len(s \o t) /\ (s \o t)[Len(s) + j] = t[j]
        /\ \A i \in 1..Len(s \o t) : i \in 1..Len(s) \/ i - Len(s) \in 1..Len(t)
    OBVIOUS
  <1>2. ASSUME NEW x \in IdsOf(s \o t) PROVE x \in IdsOf(s) \cup IdsOf(t)
    <2>1. PICK i \in 1..Len(s \o t) : x = (s \o t)[i].message.id
      BY <1>1 DEF IdsOf
    <2>2. CASE i \in 1..Len(s)
      BY <1>1, <2>1, <2>2 DEF IdsOf
    <2>3. CASE i - Len(s) \in 1..Len(t)
      <3> DEFINE j == i - Len(s)
      <3>1. j \in 1..Len(t) /\ i = Len(s) + j
        BY <2>3
      <3>2. (s \o t)[i] = t[j]
        BY <1>1, <3>1
      <3> HIDE DEF j
      <3>3. QED
        BY <2>1, <3>1, <3>2 DEF IdsOf
    <2>4. QED
      BY <1>1, <2>2, <2>3
  <1>3. ASSUME NEW x \in IdsOf(s) PROVE x \in IdsOf(s \o t)
    <2>1. PICK i \in 1..Len(s) : x = s[i].message.id
      BY DEF IdsOf
    <2>2. QED
      BY <1>1, <2>1 DEF IdsOf
  <1>4. ASSUME NEW x \in IdsOf(t) PROVE x \in IdsOf(s \o t)
    <2>1. PICK j \in 1..Len(t) : x = t[j].message.id
      BY DEF IdsOf
    <2>2. Len(s) + j \in DOMAIN (s \o t) /\ (s \o t)[Len(s) + j].message.id = x
      BY <1>1, <2>1
    <2>3. QED
      BY <2>2 DEF IdsOf
  <1>5. QED
    BY <1>1, <1>2, <1>3, <1>4

LEMMA FramedIs ==
  ASSUME NEW m \in Message
  PROVE  /\ Framed(m) \in Seq(Fragment) /\ Framed(m) # <<>>
         /\ Len(Framed(m)) \in {1, 2}
         /\ \A i \in 1..Len(Framed(m)) :
              /\ Framed(m)[i].message = m
              /\ Framed(m)[i].part = "tail" <=> i = Len(Framed(m))
         /\ Len(Framed(m)) = 2 => Framed(m)[1].part = "head"
         /\ Rising(Framed(m)) /\ IdsOf(Framed(m)) = {m.id}
  <1> DEFINE h == [message |-> m, part |-> "head"]
             t == [message |-> m, part |-> "tail"]
  <1>1. h \in Fragment /\ t \in Fragment
    BY DEF Fragment
  <1>2. /\ <<h>> \in Seq(Fragment) /\ <<t>> \in Seq(Fragment)
        /\ Framed(m) = <<t>> \/ Framed(m) = <<h>> \o <<t>>
    BY <1>1 DEF Framed
  <1>3. Rank(h) < Rank(t)
    BY <1>1, BoundAssumption DEF Rank, Message, Id
  <1> HIDE DEF Rank
  <1>4. CASE Framed(m) = <<t>>
    BY <1>1, <1>4 DEF Rising, IdsOf
  <1>5. CASE Framed(m) = <<h>> \o <<t>>
    <2>1. /\ Framed(m) \in Seq(Fragment) /\ Len(Framed(m)) = 2
          /\ Framed(m)[1] = h /\ Framed(m)[2] = t
      BY <1>2, <1>5, Joined
    <2>2. \A i, j \in 1..2 : i < j => i = 1 /\ j = 2
      OBVIOUS
    <2>3. \A i \in 1..2 : Framed(m)[i].message = m
      BY <2>1
    <2>4. DOMAIN Framed(m) = 1..2
      BY <2>1
    <2>5. IdsOf(Framed(m)) = {m.id}
      BY <2>3, <2>4 DEF IdsOf
    <2>6. Rising(Framed(m))
      BY <1>3, <2>1, <2>2 DEF Rising
    <2>7. \A i \in 1..2 : Framed(m)[i].part = "tail" <=> i = 2
      BY <2>1
    <2>8. Framed(m)[1].part = "head"
      BY <2>1
    <2>9. Framed(m) # <<>>
      <3>1. Len(Framed(m)) # Len(<<>>)
        BY <2>1, EmptySeq
      <3>2. QED
        BY <3>1, Zenon
    <2>10. QED
      BY <2>1, <2>3, <2>5, <2>6, <2>7, <2>8, <2>9
  <1>6. QED
    BY <1>2, <1>4, <1>5

(* The two parts of a rising text, and the text of two such parts.          *)
LEMMA RisingParts ==
  ASSUME NEW s \in Seq(Fragment), NEW t \in Seq(Fragment)
  PROVE  Rising(s \o t) <=>
           /\ Rising(s) /\ Rising(t)
           /\ \A i \in 1..Len(s), j \in 1..Len(t) : Rank(s[i]) < Rank(t[j])
  <1>1. ASSUME Rising(s \o t), NEW i \in 1..Len(s), NEW j \in 1..Len(t)
        PROVE  Rank(s[i]) < Rank(t[j])
    <2>1. i < Len(s) + j
      OBVIOUS
    <2>2. /\ i \in 1..Len(s \o t) /\ (s \o t)[i] = s[i]
          /\ Len(s) + j \in 1..Len(s \o t) /\ (s \o t)[Len(s) + j] = t[j]
      BY Joined
    <2>3. QED
      BY <1>1, <2>1, <2>2 DEF Rising
  <1>2. ASSUME Rising(s \o t), NEW i \in 1..Len(s), NEW j \in 1..Len(s), i < j
        PROVE  Rank(s[i]) < Rank(s[j])
    <2>1. /\ i \in 1..Len(s \o t) /\ (s \o t)[i] = s[i]
          /\ j \in 1..Len(s \o t) /\ (s \o t)[j] = s[j]
      BY Joined
    <2>2. QED
      BY <1>2, <2>1 DEF Rising
  <1>3. ASSUME Rising(s \o t), NEW i \in 1..Len(t), NEW j \in 1..Len(t), i < j
        PROVE  Rank(t[i]) < Rank(t[j])
    <2>1. /\ Len(s) + i < Len(s) + j
          /\ Len(s) + i \in 1..Len(s \o t) /\ (s \o t)[Len(s) + i] = t[i]
          /\ Len(s) + j \in 1..Len(s \o t) /\ (s \o t)[Len(s) + j] = t[j]
      BY <1>3, Joined
    <2>2. QED
      BY <1>3, <2>1 DEF Rising
  <1>4. ASSUME Rising(s), Rising(t), NEW i \in 1..Len(s \o t), NEW j \in 1..Len(s \o t), i < j,
               \A a \in 1..Len(s), b \in 1..Len(t) : Rank(s[a]) < Rank(t[b])
        PROVE  Rank((s \o t)[i]) < Rank((s \o t)[j])
    <2>1. CASE i \in 1..Len(s) /\ j \in 1..Len(s)
      BY <1>4, <2>1, Joined DEF Rising
    <2>2. CASE i \in 1..Len(s) /\ j - Len(s) \in 1..Len(t)
      <3>1. (s \o t)[i] = s[i] /\ (s \o t)[j] = t[j - Len(s)]
        BY <2>2
      <3>2. QED
        BY <1>4, <2>2, <3>1
    <2>3. CASE i - Len(s) \in 1..Len(t) /\ j - Len(s) \in 1..Len(t)
      <3>1. (s \o t)[i] = t[i - Len(s)] /\ (s \o t)[j] = t[j - Len(s)]
        BY <2>3
      <3>2. i - Len(s) < j - Len(s)
        BY <1>4
      <3>3. QED
        BY <1>4, <2>3, <3>1, <3>2 DEF Rising
    <2>4. QED
      BY <1>4, <2>1, <2>2, <2>3, Joined
  <1>5. QED
    BY <1>1, <1>2, <1>3, <1>4 DEF Rising

-----------------------------------------------------------------------------
(* The dialogue: what is on its way, and what the thread works on.          *)

Stream == bytes \o pipe

OnlyHeads == \A i \in 1..Len(bytes) : bytes[i].part # "tail"

(* What is on its way was sent, comes after what is worked on, and waits    *)
(* for an answer if it is a request.                                        *)
Follows(s) ==
  \A i \in 1..Len(s) :
    /\ Turn < s[i].message.id /\ s[i].message.id <= sent
    /\ s[i].message.id \in waiting <=> Request(s[i].message)

AtWork ==
  /\ server.pc \notin {"reading", "ended"} => server.message \in Message /\ Turn <= sent
  /\ At("handling") => (Turn \in waiting <=> Request(server.message))
  /\ At("listing") \/ At("calling") => Turn \in waiting
  /\ At("comparing") => Turn \notin waiting

(* A client that waits has no more than one message on its way.             *)
OneAtATime ==
  Paced /\ ~At("ended") => Stream = <<>> \/ \E m \in Message : Stream = Framed(m)

OrderInv ==
  /\ waiting \subseteq 1..sent
  /\ Rising(Stream)
  /\ OnlyHeads
  /\ Follows(Stream)
  /\ AtWork
  /\ OneAtATime

Unread == IdsOf(bytes) \cup IdsOf(pipe)

DialogueInv == TypeInv /\ OrderInv

LEMMA StreamTyped ==
  ASSUME TypeOK
  PROVE  /\ pipe \in Seq(Fragment) /\ bytes \in Seq(Fragment)
         /\ Stream \in Seq(Fragment) /\ Unread = IdsOf(Stream)
         /\ sent \in Nat /\ sent <= MaxMessages
  BY Joined, BoundAssumption DEF TypeOK, Stream, Unread

LEMMA TurnTyped ==
  ASSUME TypeOK, AtWork
  PROVE  /\ Turn \in Nat
         /\ Turn = 0 <=> server.pc \in {"reading", "ended"}
         /\ server.pc \in {"handling", "listing", "calling", "comparing", "reading", "ended"}
         /\ server.pc \notin {"reading", "ended"} =>
              Turn = server.message.id /\ Turn \in 1..MaxMessages
  BY BoundAssumption DEF TypeOK, ServerState, AtWork, Turn, Message, Id

(* A request is answered, and the thread goes on.                           *)
LEMMA OrderAnswer ==
  ASSUME TypeOK, OrderInv, UNCHANGED <<sent, bytes, pipe>>,
         server.pc \notin {"reading", "ended"}, Turn \in waiting,
         waiting' = waiting \ {Turn},
         \/ server' = Reading \/ server' = Ended
         \/ server' = [server EXCEPT !.pc = "comparing"]
  PROVE  OrderInv' /\ D!Answer
  <1>1. Stream' = Stream /\ Unread' = Unread
    BY DEF Stream, Unread
  <1>2. /\ server'.pc \in {"reading", "ended", "comparing"}
        /\ server'.pc = "comparing" => server'.message = server.message
    BY DEF Reading, Ended, TypeOK, ServerState
  <1>3. /\ Turn' = IF server'.pc = "comparing" THEN Turn ELSE 0
        /\ Turn' \in {Turn, 0} /\ Turn' <= Turn
        /\ At("ended")' => Turn' = 0
    BY <1>2, TurnTyped DEF Turn, At, OrderInv
  <1>4. Turn \in Nat /\ Turn # 0
    BY TurnTyped DEF OrderInv
  <1>5. OrderInv'
    <2>1. Rising(Stream)' /\ OnlyHeads' /\ waiting' \subseteq 1..sent'
      BY <1>1 DEF OrderInv, OnlyHeads, Rising
    <2>2. Follows(Stream)'
      <3>1. ASSUME NEW i \in 1..Len(Stream)
            PROVE  /\ Turn' < Stream[i].message.id /\ Stream[i].message.id <= sent'
                   /\ Stream[i].message.id \in waiting' <=> Request(Stream[i].message)
        <4>1. Stream[i] \in Fragment
          BY StreamTyped
        <4>2. /\ Turn < Stream[i].message.id /\ Stream[i].message.id <= sent
              /\ Stream[i].message.id \in waiting <=> Request(Stream[i].message)
          BY DEF OrderInv, Follows
        <4>3. QED
          BY <1>3, <1>4, <4>1, <4>2, RankBounds
      <3>2. QED
        BY <1>1, <3>1 DEF Follows
    <2>3. AtWork'
      BY <1>2, <1>3 DEF OrderInv, AtWork, At
    <2>4. OneAtATime'
      BY <1>1, <1>2 DEF OrderInv, OneAtATime, At
    <2>5. QED
      BY <2>1, <2>2, <2>3, <2>4 DEF OrderInv
  <1>6. D!Answer
    <2>1. At("ended")' \in BOOLEAN
      BY DEF At
    <2>2. QED
      BY <1>1, <1>3, <2>1 DEF D!Answer, Unread
  <1>7. QED
    BY <1>5, <1>6

(* What asked for no answer is done, or the comparison after one is.        *)
LEMMA OrderGoOn ==
  ASSUME TypeOK, OrderInv, UNCHANGED <<sent, bytes, pipe, waiting>>,
         server.pc \notin {"reading", "ended"}, Turn \notin waiting, server' = Reading
  PROVE  OrderInv' /\ D!GoOn
  <1>1. Stream' = Stream /\ Unread' = Unread
    BY DEF Stream, Unread
  <1>2. server'.pc = "reading" /\ Turn' = 0
    BY DEF Reading, Turn
  <1>3. Turn \in Nat /\ Turn # 0 /\ Turn' < Turn
    BY <1>2, TurnTyped DEF OrderInv
  <1>4. OrderInv'
    <2>1. Rising(Stream)' /\ OnlyHeads' /\ waiting' \subseteq 1..sent'
      BY <1>1 DEF OrderInv, OnlyHeads, Rising
    <2>2. Follows(Stream)'
      <3>1. ASSUME NEW i \in 1..Len(Stream) PROVE Turn' < Stream[i].message.id
        <4>1. Stream[i] \in Fragment
          BY StreamTyped
        <4>2. QED
          BY <1>2, <4>1, RankBounds
      <3>2. QED
        BY <1>1, <3>1 DEF OrderInv, Follows
    <2>3. AtWork' /\ OneAtATime'
      BY <1>1, <1>2 DEF OrderInv, AtWork, OneAtATime, At
    <2>4. QED
      BY <2>1, <2>2, <2>3 DEF OrderInv
  <1>5. D!GoOn
    BY <1>1, <1>2, <1>3 DEF D!GoOn, Unread, At
  <1>6. QED
    BY <1>4, <1>5

(* The thread works on at the same message.                                 *)
LEMMA OrderWorks ==
  ASSUME TypeOK, OrderInv, UNCHANGED <<sent, bytes, pipe, waiting>>,
         \/ server' = server
         \/ /\ At("handling") /\ Turn \in waiting
            /\ server'.pc \in {"listing", "calling"}
            /\ server'.message = server.message
  PROVE  OrderInv' /\ UNCHANGED D!vars
  <1>1. Stream' = Stream /\ Unread' = Unread
    BY DEF Stream, Unread
  <1>2. Turn' = Turn /\ At("ended")' = At("ended")
    BY DEF Turn, At
  <1>3. OrderInv'
    <2>1. /\ Rising(Stream)' /\ OnlyHeads' /\ waiting' \subseteq 1..sent'
          /\ Follows(Stream)'
      BY <1>1, <1>2 DEF OrderInv, OnlyHeads, Rising, Follows
    <2>2. AtWork' /\ OneAtATime'
      BY <1>1, <1>2 DEF OrderInv, AtWork, OneAtATime, At
    <2>3. QED
      BY <2>1, <2>2 DEF OrderInv
  <1>4. QED
    BY <1>1, <1>2, <1>3 DEF D!vars, Unread

LEMMA OrderServer ==
  ASSUME DialogueInv,
         \/ Initialize \/ Initialized \/ Other \/ NotReady \/ ReadGrants \/ ListTools
         \/ BeginCall \/ Undecoded \/ CallDenied \/ CallFails \/ Compare
         \/ \E offers \in Offers : CallAnswered(offers)
  PROVE  OrderInv' /\ [D!Next]_(D!vars)
  <1>1. /\ TypeOK /\ OrderInv /\ server.pc \notin {"reading", "ended"}
        /\ UNCHANGED <<sent, bytes, pipe>>
    BY DEF DialogueInv, TypeInv, Initialize, Initialized, Other, NotReady, ReadGrants,
           ListTools, BeginCall, Undecoded, CallDenied, CallFails, Compare, CallAnswered,
           Job, Calling, At, clientVars, inputVars
  <1>2. Turn = server.message.id
    BY <1>1, TurnTyped DEF OrderInv
  <1>3. CASE Initialize \/ Other \/ NotReady \/ ListTools
    <2>1. /\ Turn \in waiting /\ waiting' = waiting \ {Turn}
          /\ server' = Reading \/ server' = Ended
      BY <1>1, <1>2, <1>3
      DEF Initialize, Other, NotReady, ListTools, Job, At, Answered, Refused, OrderInv, AtWork, Request
    <2>2. QED
      BY <1>1, <2>1, OrderAnswer DEF D!Next
  <1>4. CASE \/ Undecoded \/ CallDenied \/ CallFails
             \/ \E offers \in Offers : CallAnswered(offers)
    <2>1. /\ Turn \in waiting /\ waiting' = waiting \ {Turn}
          /\ server' = [server EXCEPT !.pc = "comparing"]
      BY <1>1, <1>2, <1>4
      DEF Undecoded, CallDenied, CallFails, CallAnswered, Calling, At, AnswerCall, Answered, OrderInv, AtWork
    <2>2. QED
      BY <1>1, <2>1, OrderAnswer DEF D!Next
  <1>5. CASE Initialized \/ Compare
    <2>1. Turn \notin waiting /\ waiting' = waiting /\ server' = Reading
      BY <1>1, <1>2, <1>5 DEF Initialized, Compare, Job, At, OrderInv, AtWork, Request
    <2>2. QED
      BY <1>1, <2>1, OrderGoOn DEF D!Next
  <1>6. CASE ReadGrants \/ BeginCall
    <2>1. /\ At("handling") /\ Turn \in waiting /\ waiting' = waiting
          /\ server'.pc \in {"listing", "calling"} /\ server'.message = server.message
      BY <1>1, <1>2, <1>6 DEF ReadGrants, BeginCall, Job, At, OrderInv, AtWork, Request
    <2>2. QED
      BY <1>1, <2>1, OrderWorks
  <1>7. QED
    BY <1>3, <1>4, <1>5, <1>6

LEMMA OrderOthers ==
  ASSUME DialogueInv, CloseInput \/ OtherThreads
  PROVE  OrderInv' /\ [D!Next]_(D!vars)
  <1>1. TypeOK /\ OrderInv /\ UNCHANGED <<sent, bytes, pipe, waiting, server>>
    BY DEF DialogueInv, TypeInv, CloseInput, OtherThreads, ResumeArrives, GrantToggles,
           clientVars, inputVars
  <1>2. QED
    BY <1>1, OrderWorks

LEMMA OrderSend ==
  ASSUME DialogueInv,
         NEW kind \in Kind, NEW c \in Context, NEW write \in Intent \cup {None},
         Send(kind, c, write)
  PROVE  OrderInv' /\ D!Next
  <1> DEFINE m == [id |-> sent + 1, kind |-> kind, context |-> c, write |-> write]
             text == Framed(m)
             requests == IF Request(m) THEN {sent + 1} ELSE {}
  <1>1. /\ TypeOK /\ OrderInv /\ sent' = sent + 1 /\ sent < MaxMessages
        /\ Paced => pipe = <<>> /\ bytes = <<>>
        /\ pipe' = pipe \o text /\ bytes' = bytes /\ server' = server
        /\ waiting' = waiting \cup requests
    BY DEF DialogueInv, TypeInv, Send
  <1>2. /\ pipe \in Seq(Fragment) /\ bytes \in Seq(Fragment)
        /\ Stream \in Seq(Fragment) /\ Unread = IdsOf(Stream)
        /\ sent \in Nat /\ sent <= MaxMessages /\ sent + 1 \in Id
    BY <1>1, StreamTyped, BoundAssumption DEF Id
  <1>3. m \in Message /\ m.id = sent + 1
    BY <1>2 DEF Message
  <1> HIDE DEF m
  <1>4. /\ text \in Seq(Fragment)
        /\ \A i \in 1..Len(text) : text[i].message = m /\ text[i] \in Fragment
        /\ Rising(text) /\ IdsOf(text) = {sent + 1}
    BY <1>3, FramedIs
  <1>5. /\ Turn' = Turn /\ Turn \in Nat /\ Turn <= sent
        /\ At("ended")' = At("ended")
        /\ sent + 1 \notin waiting
    BY <1>1, <1>2, TurnTyped DEF Turn, At, OrderInv, AtWork
  <1> HIDE DEF text, requests
  <1>6. Stream' = Stream \o text
    BY <1>1, <1>2, <1>4, ConcatAssociative DEF Stream
  <1>7. \A i \in 1..Len(Stream) :
          /\ Stream[i] \in Fragment
          /\ Stream[i].message.id \in Nat /\ Stream[i].message.id <= sent
    BY <1>1, <1>2, RankBounds DEF OrderInv, Follows
  <1>8. Rising(Stream')
    <2>1. ASSUME NEW i \in 1..Len(Stream), NEW j \in 1..Len(text)
          PROVE  Rank(Stream[i]) < Rank(text[j])
      <3>1. Stream[i] \in Fragment /\ text[j] \in Fragment /\ text[j].message.id = sent + 1
        BY <1>3, <1>4, <1>7
      <3>2. /\ Rank(Stream[i]) \in Nat /\ Rank(Stream[i]) <= 2 * Stream[i].message.id + 1
            /\ Rank(text[j]) \in Nat /\ 2 * (sent + 1) <= Rank(text[j])
        BY <3>1, RankBounds
      <3>3. QED
        BY <1>2, <1>7, <3>2
    <2>2. QED
      BY <1>1, <1>2, <1>4, <1>6, <2>1, RisingParts DEF OrderInv
  <1>9. Follows(Stream)'
    <2> DEFINE fits(f) == /\ Turn' < f.message.id /\ f.message.id <= sent'
                          /\ f.message.id \in waiting' <=> Request(f.message)
    <2>1. ASSUME NEW i \in 1..Len(Stream) PROVE fits(Stream[i])
      <3>1. /\ Turn < Stream[i].message.id /\ Stream[i].message.id <= sent
            /\ Stream[i].message.id \in waiting <=> Request(Stream[i].message)
        BY <1>1 DEF OrderInv, Follows
      <3>2. Stream[i].message.id # sent + 1 /\ Stream[i].message.id <= sent + 1
        BY <1>2, <1>7
      <3>3. Stream[i].message.id \notin requests
        BY <3>2 DEF requests
      <3>4. QED
        BY <1>1, <1>5, <3>1, <3>2, <3>3
    <2>2. ASSUME NEW i \in 1..Len(text) PROVE fits(text[i])
      <3>1. text[i].message = m /\ m.id = sent + 1
        BY <1>3, <1>4
      <3>2. Turn < sent + 1
        BY <1>2, <1>5
      <3>3. sent + 1 \in waiting' <=> Request(m)
        BY <1>1, <1>5 DEF requests
      <3>4. QED
        BY <1>1, <1>5, <3>1, <3>2, <3>3
    <2> HIDE DEF fits
    <2>3. \A i \in 1..Len(Stream \o text) : fits((Stream \o text)[i])
      <3>1. ASSUME NEW i \in 1..Len(Stream \o text), i \notin 1..Len(Stream)
            PROVE  fits((Stream \o text)[i])
        <4> DEFINE j == i - Len(Stream)
        <4>1. j \in 1..Len(text) /\ i = Len(Stream) + j
          BY <1>2, <1>4, <3>1, Joined
        <4>2. (Stream \o text)[i] = text[j]
          BY <1>2, <1>4, <4>1, Joined
        <4> HIDE DEF j
        <4>3. QED
          BY <2>2, <4>1, <4>2
      <3>2. ASSUME NEW i \in 1..Len(Stream) PROVE fits((Stream \o text)[i])
        BY <1>2, <1>4, <2>1, Joined
      <3>3. QED
        BY <3>1, <3>2
    <2>4. QED
      BY <1>6, <2>3 DEF Follows, fits
  <1>10. OrderInv'
    <2>1. waiting' \subseteq 1..sent' /\ OnlyHeads'
      BY <1>1, <1>2 DEF OrderInv, OnlyHeads, requests
    <2>2. AtWork'
      <3>1. Turn # sent + 1 /\ Turn <= sent'
        BY <1>1, <1>2, <1>5
      <3>2. Turn \in waiting' <=> Turn \in waiting
        BY <1>1, <3>1 DEF requests
      <3>3. QED
        BY <1>1, <1>5, <3>1, <3>2 DEF OrderInv, AtWork, At
    <2>3. OneAtATime'
      <3>1. Paced => Stream' = text
        BY <1>1, <1>4 DEF Stream
      <3>2. QED
        BY <1>3, <3>1 DEF OneAtATime, text
    <2>4. QED
      BY <1>8, <1>9, <2>1, <2>2, <2>3 DEF OrderInv, Rising
  <1>11. Unread' = Unread \cup {sent'}
    BY <1>1, <1>2, <1>4, Joined DEF Unread
  <1>12. D!Ask(requests)
    BY <1>1, <1>5, <1>11 DEF D!Ask, Unread, requests
  <1>13. requests \in SUBSET (1..MaxMessages)
    BY <1>2 DEF requests, Id
  <1>14. QED
    BY <1>10, <1>12, <1>13 DEF D!Next

(* A read takes part of the pipe: nothing is lost by that yet.              *)
LEMMA ReadSplit ==
  ASSUME TypeOK, NEW k \in DOMAIN pipe
  PROVE  LET collected == bytes \o SubSeq(pipe, 1, k)
             rest == SubSeq(pipe, k + 1, Len(pipe))
         IN  /\ collected \in Seq(Fragment) /\ collected # <<>> /\ rest \in Seq(Fragment)
             /\ collected \o rest = Stream
  <1> DEFINE read == SubSeq(pipe, 1, k)
             rest == SubSeq(pipe, k + 1, Len(pipe))
             collected == bytes \o read
  <1>1. pipe \in Seq(Fragment) /\ bytes \in Seq(Fragment) /\ k \in 1..Len(pipe)
    BY DEF TypeOK
  <1>2. read \in Seq(Fragment) /\ Len(read) = k /\ rest \in Seq(Fragment)
    BY <1>1
  <1>3. read \o rest = pipe
    <2>1. Len(pipe) \in Nat /\ k \in Nat /\ 1 <= k /\ k <= Len(pipe)
      BY <1>1
    <2>2. /\ Len(rest) = Len(pipe) - k
          /\ \A i \in 1..k : read[i] = pipe[i]
          /\ \A i \in 1..Len(rest) : rest[i] = pipe[k + i]
      BY <1>1, <2>1
    <2> HIDE DEF read, rest
    <2>3. read \o rest \in Seq(Fragment) /\ Len(read \o rest) = Len(pipe)
      BY <1>1, <1>2, <2>1, <2>2
    <2>4. ASSUME NEW i \in 1..Len(read \o rest) PROVE (read \o rest)[i] = pipe[i]
      <3>1. CASE i \in 1..k
        BY <1>2, <2>2, <3>1
      <3>2. CASE i \notin 1..k
        <4>1. i - k \in 1..Len(rest) /\ k + (i - k) = i
          BY <2>1, <2>2, <2>3, <3>2
        <4>2. (read \o rest)[i] = rest[i - k]
          BY <1>2, <2>1, <2>3, <4>1
        <4>3. QED
          BY <2>2, <4>1, <4>2
      <3>3. QED
        BY <3>1, <3>2
    <2>5. QED
      BY <1>1, <2>3, <2>4, SeqEqual
  <1> HIDE DEF read, rest
  <1>4. collected \in Seq(Fragment) /\ collected # <<>>
    BY <1>1, <1>2, Joined
  <1>5. collected \o rest = Stream
    <2>1. (bytes \o read) \o rest = bytes \o (read \o rest)
      <3> HIDE DEF collected
      <3>1. /\ bytes \in Seq(Fragment) /\ read \in Seq(Fragment)
            /\ rest \in Seq(Fragment)
        BY <1>1, <1>2
      <3>2. QED
        BY <3>1, ConcatAssociative
    <2>2. QED
      BY <1>3, <2>1 DEF Stream
  <1>6. QED
    BY <1>2, <1>4, <1>5 DEF read, rest

(* What is left of the stream when its head is taken off or lost.           *)
LEMMA RestFollows ==
  ASSUME TypeOK, OrderInv, NEW s \in Seq(Fragment), NEW t \in Seq(Fragment), s \o t = Stream
  PROVE  /\ Rising(t) /\ Follows(t)
         /\ IdsOf(t) \subseteq Unread /\ IdsOf(s) \subseteq Unread
         /\ \A i \in 1..Len(s), j \in 1..Len(t) : Rank(s[i]) < Rank(t[j])
  <1>1. /\ Rising(t)
        /\ \A i \in 1..Len(s), j \in 1..Len(t) : Rank(s[i]) < Rank(t[j])
    BY RisingParts DEF OrderInv
  <1>2. IdsOf(t) \subseteq Unread /\ IdsOf(s) \subseteq Unread
    BY Joined, StreamTyped
  <1>3. \A j \in 1..Len(t) : Len(s) + j \in 1..Len(Stream) /\ Stream[Len(s) + j] = t[j]
    BY Joined
  <1>4. Follows(t)
    BY <1>3 DEF OrderInv, Follows
  <1>5. QED
    BY <1>1, <1>2, <1>4

(* A paced client's text, collected up to a newline, is one whole frame.    *)
LEMMA PacedFrame ==
  ASSUME TypeOK, OrderInv, Paced, ~At("ended"),
         NEW s \in Seq(Fragment), NEW t \in Seq(Fragment), s \o t = Stream,
         s # <<>>, HasNewline(s)
  PROVE  /\ t = <<>>
         /\ Line(s) = Framed(Head(s).message)
         /\ Unread = {Head(s).message.id}
  <1>1. Len(s) \in Nat /\ Len(s) > 0 /\ Len(t) \in Nat /\ Len(Stream) = Len(s) + Len(t)
    BY Joined
  <1>2. PICK m \in Message : Stream = Framed(m)
    <2>1. Stream # <<>>
      BY <1>1
    <2>2. QED
      BY <2>1 DEF OrderInv, OneAtATime
  <1>3. \A i \in 1..Len(s) : i \in 1..Len(Stream) /\ s[i] = Stream[i]
    BY Joined
  <1>4. PICK n \in 1..Len(s) : Line(s) = SubSeq(s, 1, n) /\ s[n].part = "tail"
    BY LineIs
  <1>5. n = Len(Stream)
    BY <1>2, <1>3, <1>4, FramedIs
  <1>6. Len(t) = 0 /\ n = Len(s)
    BY <1>1, <1>5
  <1>7. t = <<>> /\ Line(s) = s
    BY <1>4, <1>6, SubSeqFull
  <1>8. s = Stream
    BY <1>7, ConcatEmptySeq
  <1>9. Head(s).message = m
    <2>1. Head(s) = s[1]
      BY <1>1
    <2>2. QED
      BY <1>1, <1>2, <1>3, <2>1, FramedIs
  <1>10. QED
    BY <1>2, <1>7, <1>8, <1>9, StreamTyped, FramedIs

(* The thread goes on reading, or ends, with less on its way.               *)
LEMMA OrderDrops ==
  ASSUME TypeOK, OrderInv, NEW s \in Seq(Fragment), NEW t \in Seq(Fragment), s \o t = Stream,
         UNCHANGED <<sent, waiting>>, bytes' = <<>>, pipe' = t,
         server.pc = "reading",
         \/ server' = Ended
         \/ server' = server /\ ~Paced
  PROVE  OrderInv' /\ D!Next
  <1>1. /\ Stream' = t /\ Unread' = IdsOf(t)
        /\ Rising(t) /\ Follows(t) /\ IdsOf(t) \subseteq Unread
    <2>1. IdsOf(<<>>) = {}
      BY DEF IdsOf
    <2>2. QED
      BY <2>1, RestFollows, ConcatEmptySeq DEF Stream, Unread
  <1>2. /\ Turn' = 0 /\ Turn = 0 /\ server'.pc \in {"reading", "ended"}
        /\ ~At("ended")
        /\ At("ended")' <=> server' = Ended
    BY DEF Turn, Ended, At
  <1>3. OrderInv'
    <2>1. Follows(t)'
      BY <1>1, <1>2 DEF Follows
    <2>2. AtWork' /\ OneAtATime' /\ OnlyHeads'
      BY <1>2 DEF AtWork, OneAtATime, OnlyHeads, At
    <2>3. QED
      BY <1>1, <2>1, <2>2 DEF OrderInv, Follows, Rising
  <1>4. CASE server' = Ended
    <2>1. D!End
      BY <1>1, <1>2, <1>4 DEF D!End, Unread
    <2>2. QED
      BY <1>3, <2>1 DEF D!Next
  <1>5. CASE server' = server /\ ~Paced
    <2>1. D!Lose
      BY <1>1, <1>2, <1>5 DEF D!Lose, Unread, At
    <2>2. QED
      BY <1>3, <2>1 DEF D!Next
  <1>6. QED
    BY <1>4, <1>5


(* A whole frame was collected: its message is the next to be worked on.    *)
LEMMA OrderTakes ==
  ASSUME TypeOK, OrderInv, NEW s \in Seq(Fragment), NEW t \in Seq(Fragment), s \o t = Stream,
         s # <<>>, HasNewline(s), Line(s) = Framed(Head(s).message),
         UNCHANGED <<sent, waiting>>, bytes' = <<>>, pipe' = t,
         server.pc = "reading", server' = Handling(Head(s).message)
  PROVE  OrderInv' /\ D!Next
  <1> DEFINE m == Head(s).message
             id == m.id
  <1>1. Len(s) \in Nat /\ Len(s) > 0 /\ Head(s) = s[1] /\ s[1] \in Fragment
    OBVIOUS
  <1>2. m \in Message /\ id \in Nat /\ id >= 1 /\ id \in 1..MaxMessages
    BY <1>1, RankBounds DEF Message, Id
  <1>3. PICK n \in 1..Len(s) : Line(s) = SubSeq(s, 1, n) /\ s[n].part = "tail"
    BY LineIs
  <1>4. s[n] \in Fragment /\ s[n].message = m
    <2>1. Len(SubSeq(s, 1, n)) = n /\ SubSeq(s, 1, n)[n] = s[n]
      BY <1>1, <1>3
    <2>2. \A i \in 1..Len(Framed(m)) : Framed(m)[i].message = m
      BY <1>2, FramedIs
    <2>3. n \in 1..Len(Framed(m)) /\ Framed(m)[n] = s[n]
      BY <1>3, <2>1
    <2>4. QED
      BY <2>2, <2>3
  <1> HIDE DEF m, id
  <1>5. \A j \in 1..Len(t) : t[j] \in Fragment /\ id < t[j].message.id
    <2>1. ASSUME NEW j \in 1..Len(t) PROVE t[j] \in Fragment /\ id < t[j].message.id
      <3>1. t[j] \in Fragment
        OBVIOUS
      <3>2. Rank(s[n]) < Rank(t[j])
        BY RestFollows
      <3>3. Rank(s[n]) = 2 * id + 1
        BY <1>3, <1>4, RankBounds DEF id
      <3>4. /\ t[j].message.id \in Nat /\ Rank(t[j]) \in Nat
            /\ Rank(t[j]) <= 2 * t[j].message.id + 1
        BY <3>1, RankBounds
      <3>5. QED
        BY <1>2, <3>1, <3>2, <3>3, <3>4
    <2>2. QED
      BY <2>1
  <1>6. \A x \in IdsOf(t) : id < x
    BY <1>5 DEF IdsOf
  <1>7. /\ Stream' = t /\ Unread' = IdsOf(t)
        /\ Rising(t) /\ Follows(t) /\ IdsOf(t) \subseteq Unread
    <2>1. IdsOf(<<>>) = {}
      BY DEF IdsOf
    <2>2. QED
      BY <2>1, RestFollows, ConcatEmptySeq DEF Stream, Unread
  <1>8. id \in Unread
    <2>1. id \in IdsOf(s)
      BY <1>1 DEF IdsOf, m, id
    <2>2. QED
      BY <2>1, RestFollows
  <1>9. id <= sent /\ (id \in waiting <=> Request(m))
    <2>1. 1 \in 1..Len(Stream) /\ Stream[1].message = m
      BY <1>1, Joined DEF m
    <2>2. QED
      BY <2>1 DEF OrderInv, Follows, id
  <1>10. /\ server'.pc = "handling" /\ server'.message = m
         /\ Turn' = id /\ Turn = 0
         /\ ~At("ended") /\ At("ended")' = At("ended")
    BY DEF Handling, Turn, At, m, id
  <1>11. Paced => t = <<>> /\ Unread' = Unread \ {id}
    <2> SUFFICES ASSUME Paced PROVE t = <<>> /\ Unread' = Unread \ {id}
      OBVIOUS
    <2>1. t = <<>> /\ Unread = {id}
      BY <1>10, PacedFrame DEF m, id
    <2>2. IdsOf(t) = {}
      BY <2>1 DEF IdsOf
    <2>3. QED
      BY <1>7, <2>1, <2>2
  <1>12. OrderInv'
    <2>1. Follows(t)'
      BY <1>5, <1>7, <1>10 DEF Follows
    <2>2. AtWork'
      BY <1>2, <1>9, <1>10 DEF AtWork, At
    <2>3. OneAtATime' /\ OnlyHeads'
      BY <1>7, <1>11 DEF OneAtATime, OnlyHeads
    <2>4. QED
      BY <1>7, <2>1, <2>2, <2>3 DEF OrderInv, Follows, Rising
  <1>13. D!Take(id)
    <2>1. \A j \in Unread' : j \in Unread /\ id < j
      BY <1>6, <1>7
    <2>2. QED
      BY <1>8, <1>10, <1>11, <2>1 DEF D!Take, Unread
  <1>14. QED
    BY <1>2, <1>12, <1>13 DEF D!Next

(* No newline yet: the thread goes on collecting.                           *)
LEMMA OrderCollects ==
  ASSUME TypeOK, OrderInv, NEW s \in Seq(Fragment), NEW t \in Seq(Fragment), s \o t = Stream,
         ~HasNewline(s), UNCHANGED <<sent, waiting, server>>, bytes' = s, pipe' = t
  PROVE  OrderInv' /\ UNCHANGED D!vars
  <1>1. Stream' = Stream /\ Turn' = Turn /\ At("ended")' = At("ended")
    BY DEF Stream, Turn, At
  <1>2. Unread' = Unread
    <2>1. Unread' = IdsOf(s) \cup IdsOf(t)
      BY DEF Unread
    <2>2. QED
      BY <2>1, Joined, StreamTyped
  <1>3. OnlyHeads'
    BY DEF OnlyHeads, HasNewline
  <1>4. OrderInv'
    <2>1. Rising(Stream)' /\ waiting' \subseteq 1..sent' /\ Follows(Stream)'
      BY <1>1 DEF OrderInv, Rising, Follows
    <2>2. AtWork' /\ OneAtATime'
      BY <1>1 DEF OrderInv, AtWork, OneAtATime, At
    <2>3. QED
      BY <1>3, <2>1, <2>2 DEF OrderInv
  <1>5. QED
    BY <1>1, <1>2, <1>4 DEF D!vars, Unread

LEMMA OrderRead ==
  ASSUME DialogueInv, NEW k \in DOMAIN pipe, Read(k)
  PROVE  OrderInv' /\ [D!Next]_(D!vars)
  <1> DEFINE collected == bytes \o SubSeq(pipe, 1, k)
             rest == SubSeq(pipe, k + 1, Len(pipe))
             message == Head(collected).message
  <1>1. /\ TypeOK /\ OrderInv /\ server.pc = "reading" /\ ~At("ended")
        /\ UNCHANGED <<sent, waiting>> /\ pipe' = rest
    BY DEF DialogueInv, TypeInv, Read, At, clientVars
  <1>2. \/ bytes' = <<>> /\ server' = Ended
        \/ bytes' = collected /\ server' = server /\ ~HasNewline(collected)
        \/ /\ bytes' = <<>> /\ server' = server
           /\ HasNewline(collected) /\ Line(collected) # Framed(message)
        \/ /\ bytes' = <<>> /\ server' = Handling(message)
           /\ HasNewline(collected) /\ Line(collected) = Framed(message)
    BY DEF Read
  <1>3. /\ collected \in Seq(Fragment) /\ collected # <<>> /\ rest \in Seq(Fragment)
        /\ collected \o rest = Stream
    BY <1>1, ReadSplit
  <1> HIDE DEF collected, rest
  <1>4. CASE bytes' = <<>> /\ server' = Ended
    BY <1>1, <1>3, <1>4, OrderDrops
  <1>5. CASE bytes' = collected /\ server' = server /\ ~HasNewline(collected)
    BY <1>1, <1>3, <1>5, OrderCollects
  <1>6. CASE /\ bytes' = <<>> /\ server' = server
             /\ HasNewline(collected) /\ Line(collected) # Framed(message)
    <2>1. ~Paced
      BY <1>1, <1>3, <1>6, PacedFrame
    <2>2. QED
      BY <1>1, <1>3, <1>6, <2>1, OrderDrops
  <1>7. CASE /\ bytes' = <<>> /\ server' = Handling(message)
             /\ HasNewline(collected) /\ Line(collected) = Framed(message)
    BY <1>1, <1>3, <1>7, OrderTakes
  <1>8. QED
    BY <1>2, <1>4, <1>5, <1>6, <1>7

LEMMA OrderReadEnd ==
  ASSUME DialogueInv, ReadEnd
  PROVE  OrderInv' /\ [D!Next]_(D!vars)
  <1>1. /\ TypeOK /\ OrderInv /\ server.pc = "reading" /\ ~At("ended")
        /\ UNCHANGED <<sent, waiting>> /\ pipe = <<>> /\ pipe' = <<>> /\ bytes' = <<>>
        /\ \/ bytes = <<>> /\ server' = Ended
           \/ bytes # <<>> /\ server' = server
    BY DEF DialogueInv, TypeInv, ReadEnd, At, clientVars
  <1>2. /\ bytes \in Seq(Fragment) /\ <<>> \in Seq(Fragment)
        /\ bytes \o <<>> = Stream /\ Stream = bytes
    BY <1>1, ConcatEmptySeq DEF TypeOK, Stream
  <1>3. ASSUME bytes # <<>> PROVE ~Paced
    <2> SUFFICES ASSUME Paced PROVE FALSE
      OBVIOUS
    <2>1. PICK m \in Message : bytes = Framed(m)
      BY <1>1, <1>2, <1>3 DEF OrderInv, OneAtATime
    <2>2. /\ Len(Framed(m)) \in 1..Len(Framed(m))
          /\ Framed(m)[Len(Framed(m))].part = "tail"
      BY FramedIs
    <2>3. QED
      BY <1>1, <2>1, <2>2 DEF OrderInv, OnlyHeads
  <1>4. QED
    BY <1>1, <1>2, <1>3, OrderDrops

LEMMA OrderInit == Init => OrderInv /\ D!Init
  <1> SUFFICES ASSUME Init PROVE OrderInv /\ D!Init
    OBVIOUS
  <1>1. /\ bytes = <<>> /\ pipe = <<>> /\ sent = 0 /\ waiting = {}
        /\ server.pc = "reading"
    BY DEF Init, Reading
  <1>2. Stream = <<>> /\ IdsOf(bytes) = {} /\ IdsOf(pipe) = {}
    BY <1>1 DEF Stream, IdsOf
  <1>3. OrderInv
    BY <1>1, <1>2 DEF OrderInv, Rising, OnlyHeads, Follows, AtWork, OneAtATime, At
  <1>4. D!Init
    BY <1>1, <1>2 DEF D!Init, Turn, At
  <1>5. QED
    BY <1>3, <1>4

LEMMA OrderStep ==
  ASSUME DialogueInv, [Next]_vars PROVE OrderInv' /\ [D!Next]_(D!vars)
  <1>1. CASE UNCHANGED vars
    <2>1. TypeOK /\ OrderInv /\ UNCHANGED <<sent, bytes, pipe, waiting, server>>
      BY <1>1 DEF DialogueInv, TypeInv, vars, clientVars, inputVars
    <2>2. QED
      BY <2>1, OrderWorks
  <1>2. CASE ClientStep
    BY <1>2, OrderSend, OrderOthers DEF ClientStep
  <1>3. CASE ServerStep
    BY <1>3, OrderRead, OrderReadEnd, OrderServer DEF ServerStep
  <1>4. CASE OtherThreads
    BY <1>4, OrderOthers
  <1>5. QED
    BY <1>1, <1>2, <1>3, <1>4 DEF Next

(* The session keeps what the dialogue promises: however reads cut standard *)
(* input, messages are worked on whole, one at a time and in their order,   *)
(* every request is answered once before the next message is taken, and of  *)
(* a client that waits for each message to be read none is lost.            *)
THEOREM AnsweredInTurn == Spec => InTurn
  <1>1. Init => DialogueInv /\ D!Init
    BY TypeInit, OrderInit DEF DialogueInv
  <1>2. DialogueInv /\ [Next]_vars => DialogueInv' /\ [D!Next]_(D!vars)
    <2>1. ASSUME DialogueInv, [Next]_vars PROVE DialogueInv' /\ [D!Next]_(D!vars)
      BY <2>1, TypeStep, OrderStep DEF DialogueInv
    <2>2. QED
      BY <2>1
  <1>3. QED
    BY <1>1, <1>2, PTL DEF Spec, InTurn, D!Spec
=============================================================================
