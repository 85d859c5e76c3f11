----------------------------- MODULE Handshake -----------------------------
(***************************************************************************)
(* The connect handshake: a caller asks for a place (a companion at a      *)
(* service origin).  Without a usable account it leaves a pending connect  *)
(* behind and tells the operator; a sign-in resumes the companion's        *)
(* pendings on the connection thread that completed it; one sweeper thread *)
(* ages the others out.  The pending list has a mutex of its own, so the   *)
(* steps here are the code between releases of it or of the store's.       *)
(* Custody holds the detail of accounts and enrollments; here a companion  *)
(* is usable or not, and a place has a session or not.                     *)
(***************************************************************************)
EXTENDS Naturals, FiniteSets

CONSTANTS
  Companion,    \* local ids of the companions there are to begin with
  Deletable,    \* those of them the operator may delete
  Origin,       \* canonical server origins
  Caller,       \* threads that call Connect: the MCP thread
  Resumer,      \* manager connection threads that complete sign-ins
  MaxTickets    \* bound: pending connects recorded in a behaviour

ASSUME LimitAssumption == MaxTickets \in Nat

ASSUME ThreadAssumption ==
  /\ Caller \cap Resumer = {}
  /\ IsFiniteSet(Caller \cup Resumer)

ASSUME DeletableAssumption == Deletable \subseteq Companion

VARIABLES
  companions,   \* companions in the store
  usable,       \* companions with a usable binding (bound, matching session)
  granted,      \* companions whose credential is granted the service
  seats,        \* places whose enrollment holds a session
  pendings,     \* pending_connects
  tickets,      \* pending connects recorded so far
  expired,      \* taken out by the sweeper, its feed events still to come
  pc,           \* each caller and resumer: its step
  at,           \* the place it works on, a set of one at most
  bound,        \* the companion whose sign-in it completed, likewise
  missing,      \* whether it found the account missing, or its session expired
  queue,        \* the waits it took and has not finished
  open          \* places whose recorded wait nothing on the feed has closed

storeVars == <<companions, usable, granted, seats>>
pendingVars == <<pendings, tickets, expired>>
threadVars == <<pc, at, bound, missing, queue>>
vars == <<storeVars, pendingVars, threadVars, open>>

-----------------------------------------------------------------------------
Place == Companion \X Origin
Of(place) == place[1]
Thread == Caller \cup Resumer

(* by: who recorded it; missing: whether the account was missing (else its  *)
(* session had expired); old: past PENDING_CONNECT_TIMEOUT_MS.              *)
Pending ==
  [place: Place, ticket: 1..MaxTickets, by: Thread, missing: BOOLEAN, old: BOOLEAN]

Steps == {"idle", "resolved", "popping", "narrating", "allowed", "touching",
          "discovering", "enrolling", "exchanging", "arriving", "draining",
          "resuming"}

PendingsAt(place) == {p \in pendings : p.place = place}

(* Bound: a ticket is left for every thread that may still record one.      *)
Recording == {t \in Thread : pc[t] \in {"resolved", "popping"}}

TicketsLeft == tickets + Cardinality(Recording) < MaxTickets

(* A thread works on one place at a time.                                   *)
Working(t, place, step) == pc[t] = step /\ at[t] = {place}

Goes(t, step) ==
  /\ pc' = [pc EXCEPT ![t] = step]
  /\ UNCHANGED <<at, bound, missing, queue>>

(* It starts on a place.                                                    *)
Takes(t, place, step) ==
  /\ pc' = [pc EXCEPT ![t] = step]
  /\ at' = [at EXCEPT ![t] = {place}]

(* It will record a wait, for a missing account or an expired session.      *)
Pops(t, isMissing) ==
  /\ pc' = [pc EXCEPT ![t] = "popping"]
  /\ missing' = [missing EXCEPT ![t] = isMissing]
  /\ UNCHANGED <<at, bound, queue>>

(* The end of one handshake: a caller answers its call, a resumer goes on   *)
(* with the next wait it took.                                              *)
Done(t) ==
  /\ pc' = [pc EXCEPT ![t] = IF queue[t] = {} THEN "idle" ELSE "resuming"]
  /\ at' = [at EXCEPT ![t] = {}]
  /\ missing' = [missing EXCEPT ![t] = FALSE]
  /\ UNCHANGED <<bound, queue>>

Granting(c, allowed) == IF allowed THEN granted \cup {c} ELSE granted \ {c}

(* The feed closes a wait: resumed, arrived, failed or timed out.           *)
Close(place) == open' = open \ {place}

-----------------------------------------------------------------------------
(* Connect, on the caller's thread.                                         *)

(* resolve_persona: an unknown persona ends the call.                       *)
Connect(m, place) ==
  /\ pc[m] = "idle"
  /\ TicketsLeft
  /\ Of(place) \in companions
  /\ Takes(m, place, "resolved")
  /\ UNCHANGED <<storeVars, pendingVars, bound, missing, queue, open>>

(* usable_binding, in a store guard of its own.                             *)
CheckBinding(m, place) ==
  /\ Working(m, place, "resolved")
  /\ IF Of(place) \in usable THEN Goes(m, "allowed") ELSE Pops(m, TRUE)
  /\ UNCHANGED <<storeVars, pendingVars, open>>

(* One pending per (companion, origin): a repeated one replaces it.         *)
Recorded(pending) == (pendings \ PendingsAt(pending.place)) \cup {pending}

(* pop_sign_in first records the pending connect...                         *)
RecordPending(t, place) ==
  /\ Working(t, place, "popping")
  /\ tickets' = tickets + 1
  /\ pendings' = Recorded([place |-> place, ticket |-> tickets + 1, by |-> t,
                           missing |-> missing[t], old |-> FALSE])
  /\ open' = open \cup {place}
  /\ Goes(t, "narrating")
  /\ UNCHANGED <<storeVars, expired>>

(* ...then narrates it, opens the page and answers.                         *)
NarrateWaiting(t, place) ==
  /\ Working(t, place, "narrating")
  /\ Done(t)
  /\ UNCHANGED <<storeVars, pendingVars, open>>

(* Without the service's grant the call ends, with nothing on the feed.     *)
CheckGrant(m, place) ==
  /\ Working(m, place, "allowed")
  /\ IF Of(place) \in granted THEN Goes(m, "touching") ELSE Done(m)
  /\ UNCHANGED <<storeVars, pendingVars, open>>

(* touch_pending_connect, and discovery, which may fail.                    *)
Touch(m, place) ==
  /\ Working(m, place, "touching")
  /\ pendings' = {IF p.place = place THEN [p EXCEPT !.old = FALSE] ELSE p :
                    p \in pendings}
  /\ Goes(m, "discovering")
  /\ UNCHANGED <<storeVars, tickets, expired, open>>

DiscoveryFails(m, place) ==
  /\ Working(m, place, "discovering")
  /\ Close(place)
  /\ Done(m)
  /\ UNCHANGED <<storeVars, pendingVars>>

(* Mutant: the wait outlives the connect that ends it.                      *)
WaitKept(place) == pendings

WaitDropped(place) == pendings \ PendingsAt(place)

(* drop_pending_connect: this connect finishes on the caller's side.        *)
DropPending(m, place) ==
  /\ Working(m, place, "discovering")
  /\ pendings' = WaitDropped(place)
  /\ Goes(m, "enrolling")
  /\ UNCHANGED <<storeVars, tickets, expired, open>>

-----------------------------------------------------------------------------
(* connect_finish, shared by Connect and the resume.                        *)

(* connect_enroll and enroll_bound's checks: a session there is used as it  *)
(* is; without an account or the grant the handshake fails.                 *)
EnrollSeat(t, place) ==
  /\ Working(t, place, "enrolling")
  /\ \/ /\ place \in seats
        /\ Goes(t, "arriving")
        /\ UNCHANGED open
     \/ /\ place \notin seats
        /\ Of(place) \in usable \cap granted
        /\ Goes(t, "exchanging")
        /\ UNCHANGED open
     \/ /\ place \notin seats
        /\ Of(place) \notin usable \cap granted
        /\ Close(place)
        /\ Done(t)
  /\ UNCHANGED <<storeVars, pendingVars>>

(* The account session turns out expired: the sign-in page pops again.      *)
SessionExpired(t, place) ==
  /\ Working(t, place, "exchanging")
  /\ TicketsLeft
  /\ Pops(t, FALSE)
  /\ UNCHANGED <<storeVars, pendingVars, open>>

(* Before the exchange a stale account session is renewed silently and      *)
(* stored again, with the grants it was read with, though the companion may *)
(* have been disconnected or its grants changed since; one deleted since is *)
(* refused.                                                                 *)
StoreRenewed(t, place, allowed) ==
  /\ Working(t, place, "exchanging")
  /\ Of(place) \in companions
  /\ usable' = usable \cup {Of(place)}
  /\ granted' = Granting(Of(place), allowed)
  /\ UNCHANGED <<companions, seats, pendingVars, threadVars, open>>

(* The exchange answered: a place that gained a session meanwhile keeps it, *)
(* and this handshake fails.                                                *)
StoreSeat(t, place) ==
  /\ Working(t, place, "exchanging")
  /\ IF place \in seats
       THEN Close(place) /\ Done(t) /\ UNCHANGED seats
       ELSE Goes(t, "arriving") /\ seats' = seats \cup {place} /\ UNCHANGED open
  /\ UNCHANGED <<companions, usable, granted, pendingVars>>

(* arrive, or a failure of it or of the exchange.                           *)
Arrive(t, place) ==
  /\ Working(t, place, "arriving")
  /\ place \in seats
  /\ Close(place)
  /\ Done(t)
  /\ UNCHANGED <<storeVars, pendingVars>>

FinishFails(t, place) ==
  /\ Working(t, place, "exchanging") \/ Working(t, place, "arriving")
  /\ Close(place)
  /\ Done(t)
  /\ UNCHANGED <<storeVars, pendingVars>>

-----------------------------------------------------------------------------
(* A sign-in completes on a resumer, which then resumes what waited for it. *)

(* The grants it carries forward were read under an earlier store guard.    *)
Bind(r, c, allowed) ==
  /\ pc[r] = "idle"
  /\ c \in companions
  /\ usable' = usable \cup {c}
  /\ granted' = Granting(c, allowed)
  /\ pc' = [pc EXCEPT ![r] = "draining"]
  /\ bound' = [bound EXCEPT ![r] = {c}]
  /\ UNCHANGED <<companions, seats, pendingVars, at, missing, queue, open>>

WaitsWithout(due) == pendings \ due

(* Mutant: the resume also takes the waits that aged out.                   *)
DueAnyAge(r) == {p \in pendings : Of(p.place) \in bound[r]}

Due(r) == {p \in pendings : Of(p.place) \in bound[r] /\ ~p.old}

(* resume_pending_connects takes the companion's waits that are not aged    *)
(* out: the sweeper closes those.                                           *)
Drain(r) ==
  LET due == Due(r) IN
  /\ pc[r] = "draining"
  /\ pendings' = WaitsWithout(due)
  /\ pc' = [pc EXCEPT ![r] = IF due = {} THEN "idle" ELSE "resuming"]
  /\ bound' = [bound EXCEPT ![r] = {}]
  /\ queue' = [queue EXCEPT ![r] = due]
  /\ UNCHANGED <<storeVars, tickets, expired, at, missing, open>>

(* The waits are finished one after the other, in any order.  One whose     *)
(* companion is gone is skipped, with nothing on the feed.                  *)
ResumeNext(r, p) ==
  /\ pc[r] = "resuming"
  /\ p \in queue[r]
  /\ queue' = [queue EXCEPT ![r] = @ \ {p}]
  /\ IF Of(p.place) \in companions
       THEN Close(p.place) /\ Takes(r, p.place, "enrolling")
       ELSE /\ pc' = [pc EXCEPT ![r] = IF queue[r] = {p} THEN "idle" ELSE "resuming"]
            /\ UNCHANGED <<open, at>>
  /\ UNCHANGED <<storeVars, pendingVars, bound, missing>>

-----------------------------------------------------------------------------
(* The age-out sweeper, the clock and the operator.                         *)

(* Mutant: the waits that aged out are dropped without a word.              *)
Unannounced(aged) == {}

Announced(aged) == aged

(* Mutant: the waits of a companion that signed in are left to the resume.  *)
AgedUnbound == {p \in pendings : p.old /\ Of(p.place) \notin usable}

Aged == {p \in pendings : p.old}

Sweep ==
  /\ expired = {}
  /\ Aged # {}
  /\ pendings' = pendings \ Aged
  /\ expired' = Announced(Aged)
  /\ UNCHANGED <<storeVars, tickets, threadVars, open>>

TellTimeout(p) ==
  /\ p \in expired
  /\ expired' = expired \ {p}
  /\ Close(p.place)
  /\ UNCHANGED <<storeVars, pendings, tickets, threadVars>>

AgesOut(p) ==
  /\ p \in pendings
  /\ ~p.old
  /\ pendings' = (pendings \ {p}) \cup {[p EXCEPT !.old = TRUE]}
  /\ UNCHANGED <<storeVars, tickets, expired, threadVars, open>>

(* Mutant: the service's grant outlives the credential it came with.        *)
GrantSurvives(c) == granted

GrantRevoked(c) == granted \ {c}

(* Disconnect flushes the companion's sessions with its credential.         *)
Unbind(c) ==
  /\ c \in companions
  /\ usable' = usable \ {c}
  /\ granted' = GrantRevoked(c)
  /\ seats' = {place \in seats : Of(place) # c}
  /\ UNCHANGED <<companions, pendingVars, threadVars, open>>

SetGrant(c, allowed) ==
  /\ c \in usable
  /\ granted' = Granting(c, allowed)
  /\ UNCHANGED <<companions, usable, seats, pendingVars, threadVars, open>>

Forget(place) ==
  /\ place \in seats
  /\ seats' = seats \ {place}
  /\ UNCHANGED <<companions, usable, granted, pendingVars, threadVars, open>>

Delete(c) ==
  /\ c \in companions \cap Deletable
  /\ companions' = companions \ {c}
  /\ usable' = usable \ {c}
  /\ granted' = GrantRevoked(c)
  /\ seats' = {place \in seats : Of(place) # c}
  /\ UNCHANGED <<pendingVars, threadVars, open>>

-----------------------------------------------------------------------------
Init ==
  /\ companions = Companion
  /\ usable = {}
  /\ granted = {}
  /\ seats = {}
  /\ pendings = {}
  /\ tickets = 0
  /\ expired = {}
  /\ pc = [t \in Thread |-> "idle"]
  /\ at = [t \in Thread |-> {}]
  /\ bound = [t \in Thread |-> {}]
  /\ missing = [t \in Thread |-> FALSE]
  /\ queue = [t \in Thread |-> {}]
  /\ open = {}

(* The steps a thread takes once it has started.                            *)
Finish(t, place) ==
  \/ RecordPending(t, place)
  \/ NarrateWaiting(t, place)
  \/ EnrollSeat(t, place)
  \/ SessionExpired(t, place)
  \/ \E allowed \in BOOLEAN : StoreRenewed(t, place, allowed)
  \/ StoreSeat(t, place)
  \/ Arrive(t, place)
  \/ FinishFails(t, place)

CallerStep(m, place) ==
  \/ CheckBinding(m, place)
  \/ CheckGrant(m, place)
  \/ Touch(m, place)
  \/ DiscoveryFails(m, place)
  \/ DropPending(m, place)

Proceed(t) ==
  \/ \E place \in Place : Finish(t, place)
  \/ t \in Caller /\ \E place \in Place : CallerStep(t, place)
  \/ t \in Resumer /\ (Drain(t) \/ \E p \in queue[t] : ResumeNext(t, p))

SweeperStep == Sweep \/ \E p \in expired : TellTimeout(p)

OperatorStep ==
  \/ \E r \in Resumer, c \in Companion, allowed \in BOOLEAN : Bind(r, c, allowed)
  \/ \E c \in Companion : Unbind(c)
  \/ \E c \in Companion, allowed \in BOOLEAN : SetGrant(c, allowed)
  \/ \E place \in Place : Forget(place)
  \/ \E c \in Companion : Delete(c)

Next ==
  \/ \E m \in Caller, place \in Place : Connect(m, place)
  \/ \E t \in Thread : Proceed(t)
  \/ SweeperStep
  \/ OperatorStep
  \/ \E p \in pendings : AgesOut(p)

Spec == Init /\ [][Next]_vars

(* Started threads and the sweeper run on, and the clock ticks; but an      *)
(* exchange may last for ever (the mint of its proof has no read timeout),  *)
(* and nothing obliges a caller or the operator to do anything.             *)
Exchanging(t) == pc[t] = "exchanging"

Fairness ==
  /\ \A t \in Thread : WF_vars(~Exchanging(t) /\ Proceed(t))
  /\ WF_vars(SweeperStep)
  /\ WF_vars(\E p \in pendings : AgesOut(p))

FairSpec == Spec /\ Fairness

-----------------------------------------------------------------------------
(* Properties.                                                              *)

(* Every variable has the shape the code's structures give it.              *)
TypeOK ==
  /\ companions \subseteq Companion
  /\ usable \subseteq companions
  /\ granted \subseteq usable
  /\ seats \subseteq Place
  /\ pendings \subseteq Pending
  /\ tickets \in 0..MaxTickets
  /\ expired \subseteq Pending
  /\ pc \in [Thread -> Steps]
  /\ at \in [Thread -> SUBSET Place]
  /\ bound \in [Thread -> SUBSET Companion]
  /\ missing \in [Thread -> BOOLEAN]
  /\ queue \in [Thread -> SUBSET Pending]
  /\ open \subseteq Place

(* "One pending per (companion, origin)": however callers and expired       *)
(* sessions interleave, one sign-in resumes a place at most once.           *)
OnePendingPerPlace ==
  \A p, q \in pendings : p.place = q.place => p = q

(* A recorded wait is taken by one thread only: the sweeper never announces *)
(* as aged out what a sign-in is resuming, and two sign-ins of a companion  *)
(* never resume the same wait twice.                                        *)
Taken(p) ==
  {t \in Thread : p.ticket \in {q.ticket : q \in queue[t]}}

TakenOnce ==
  /\ \A p \in pendings \cup expired : Taken(p) = {}
  /\ \A p \in pendings : p.ticket \notin {q.ticket : q \in expired}
  /\ \A r \in Resumer : \A p \in queue[r] : Taken(p) = {r}

(* "the connect finished model-side, so a later binding must not resume it  *)
(* a second time" (drop_pending_connect): while a caller finishes a place   *)
(* none of its earlier waits for that place can still be resumed.           *)
FinishedNotResumed ==
  \A m \in Caller : pc[m] \in {"enrolling", "exchanging", "arriving"} =>
    \A p \in pendings : at[m] = {p.place} => p.by # m

(* No wait is lost between the list, the sweeper and the resuming threads:  *)
(* a wait nobody closed on the feed is still in somebody's hands, unless    *)
(* its companion was deleted.                                               *)
InHand(place) ==
  \/ \E p \in pendings \cup expired : p.place = place
  \/ \E t \in Thread :
       \/ \E p \in queue[t] : p.place = place
       \/ at[t] = {place} /\ pc[t] \in {"popping", "enrolling", "exchanging",
                                           "arriving"}

NoWaitLost ==
  \A place \in open : Of(place) \in companions => InHand(place)

(* "dropped ... with a feed event - never silently": every recorded wait is *)
(* closed on the feed by a resume, an arrival, a failure or its age-out,    *)
(* whatever the operator does, short of deleting the companion.  A resumer  *)
(* takes several waits and finishes them one after the other, so this needs *)
(* every exchange to end.                                                   *)
WaitsAnswered ==
  (\A t \in Thread : []<>(~Exchanging(t))) =>
    \A place \in Place :
      place \in open ~> (place \notin open \/ Of(place) \notin companions)

(* "The popped connect also finishes by itself: when the operator completes *)
(* the sign-in on the page, the connector resumes the pending handshake"    *)
(* (README.md): a fresh wait for a missing account whose companion has one  *)
(* by now is about to be drained by the thread that signed it in.           *)
SignInReachesWait ==
  \A p \in pendings : p.missing /\ ~p.old /\ Of(p.place) \in usable =>
    \E r \in Resumer : pc[r] = "draining" /\ Of(p.place) \in bound[r]

(* The store these threads share is the one Custody keeps: all they and the *)
(* operator do to it are steps of Accounts, and all they see of it is what  *)
(* Accounts promises.                                                       *)
A == INSTANCE Accounts WITH born <- Companion

SharesStore == A!Spec

(* The waits as the board sees them (WaitBoard).                            *)
WaitOf(p) == [ticket |-> p.ticket, place |-> p.place]

WaitsOf(ps) == {WaitOf(p) : p \in ps}

B == INSTANCE WaitBoard WITH
       recorded <- tickets,
       fresh <- WaitsOf(pendings \ Aged),
       aged <- WaitsOf(Aged),
       expiring <- WaitsOf(expired),
       resuming <- WaitsOf(UNION {queue[t] : t \in Thread})

(* Whatever callers, sign-ins and the sweeper do at the same time, a wait   *)
(* goes one way once: a sign-in takes every fresh wait of its companion and *)
(* none that aged out, the sweeper all of those and no other, and what one  *)
(* took neither the other nor a later sign-in finds again.                  *)
WaitsGoOnce == B!Spec

=============================================================================
