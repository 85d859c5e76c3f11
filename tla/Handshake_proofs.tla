-------------------------- MODULE Handshake_proofs --------------------------
(* Theorems about Handshake, for any companions, origins, callers, resuming *)
(* threads and number of waits.                                             *)
EXTENDS Handshake, FiniteSetTheorems, TLAPS

(* The tickets handed out, and those promised to threads, are within bound. *)
TicketsFit == tickets + Cardinality(Recording) <= MaxTickets

(* Callers resume nothing; a resumer starts its sign-in with nothing left   *)
(* to resume.                                                               *)
QueuesOwned ==
  /\ \A t \in Thread : pc[t] \in {"idle", "draining"} => queue[t] = {}
  /\ \A m \in Caller : queue[m] = {} /\ pc[m] # "draining"

TypeInv == TypeOK /\ TicketsFit /\ QueuesOwned

-----------------------------------------------------------------------------
(* Counting the threads that may still record a wait.                       *)

LEMMA RecordingCounted ==
  ASSUME NEW S, S \subseteq Thread
  PROVE  IsFiniteSet(S) /\ Cardinality(S) \in Nat
  BY ThreadAssumption, FS_Subset, FS_CardinalityType DEF Thread

LEMMA RecordingCountedNext ==
  Recording \subseteq Thread /\ Recording' \subseteq Thread
  BY DEF Recording

LEMMA TicketsKept ==
  ASSUME TypeInv, UNCHANGED tickets, Recording' \subseteq Recording
  PROVE  TicketsFit'
  <1>1. Cardinality(Recording') <= Cardinality(Recording)
    BY RecordingCounted, RecordingCountedNext, FS_Subset
  <1>2. Cardinality(Recording') \in Nat /\ Cardinality(Recording) \in Nat
    BY RecordingCounted, RecordingCountedNext
  <1>3. QED
    BY <1>1, <1>2, LimitAssumption DEF TypeInv, TypeOK, TicketsFit

LEMMA TicketPromised ==
  ASSUME TypeInv, UNCHANGED tickets, TicketsLeft, NEW t \in Thread,
         Recording' \subseteq Recording \cup {t}
  PROVE  TicketsFit'
  <1>1. Cardinality(Recording \cup {t}) <= Cardinality(Recording) + 1
    BY RecordingCounted, RecordingCountedNext, FS_AddElement
  <1>2. IsFiniteSet(Recording \cup {t})
    BY RecordingCounted, RecordingCountedNext
  <1>3. Cardinality(Recording') <= Cardinality(Recording \cup {t})
    BY <1>2, FS_Subset
  <1>4. /\ Cardinality(Recording') \in Nat /\ Cardinality(Recording) \in Nat
        /\ Cardinality(Recording \cup {t}) \in Nat
    BY RecordingCounted, RecordingCountedNext
  <1>5. QED
    BY <1>1, <1>3, <1>4, LimitAssumption
    DEF TypeInv, TypeOK, TicketsFit, TicketsLeft

LEMMA TicketTaken ==
  ASSUME TypeInv, tickets' = tickets + 1, NEW t \in Recording,
         Recording' \subseteq Recording \ {t}
  PROVE  TicketsFit' /\ tickets + 1 \in 1..MaxTickets
  <1>1. Cardinality(Recording \ {t}) = Cardinality(Recording) - 1
    BY RecordingCounted, RecordingCountedNext, FS_RemoveElement
  <1>2. Cardinality(Recording') <= Cardinality(Recording \ {t})
    BY RecordingCounted, RecordingCountedNext, FS_Subset
  <1>3. /\ Cardinality(Recording') \in Nat /\ Cardinality(Recording) \in Nat
        /\ Cardinality(Recording \ {t}) \in Nat
    BY RecordingCounted, RecordingCountedNext
  <1>4. QED
    BY <1>1, <1>2, <1>3, LimitAssumption DEF TypeInv, TypeOK, TicketsFit

-----------------------------------------------------------------------------
(* The four ways a thread moves.                                            *)

LEMMA GoesType ==
  ASSUME TypeInv, NEW t \in Thread, NEW step \in Steps \ {"idle", "draining"},
         Goes(t, step)
  PROVE  /\ pc' \in [Thread -> Steps] /\ QueuesOwned'
         /\ \A u \in Thread : pc'[u] = IF u = t THEN step ELSE pc[u]
         /\ UNCHANGED <<at, bound, missing, queue>>
  BY DEF TypeInv, TypeOK, QueuesOwned, Goes, Thread

LEMMA TakesType ==
  ASSUME TypeInv, NEW t \in Thread, NEW place \in Place,
         NEW step \in Steps \ {"idle", "draining"}, Takes(t, place, step)
  PROVE  /\ pc' \in [Thread -> Steps] /\ at' \in [Thread -> SUBSET Place]
         /\ \A u \in Thread : pc'[u] = IF u = t THEN step ELSE pc[u]
  BY DEF TypeInv, TypeOK, Takes

LEMMA PopsType ==
  ASSUME TypeInv, NEW t \in Thread, NEW flag \in BOOLEAN, Pops(t, flag)
  PROVE  /\ pc' \in [Thread -> Steps] /\ QueuesOwned'
         /\ missing' \in [Thread -> BOOLEAN]
         /\ \A u \in Thread : pc'[u] = IF u = t THEN "popping" ELSE pc[u]
         /\ UNCHANGED <<at, bound, queue>>
  BY DEF TypeInv, TypeOK, QueuesOwned, Pops, Thread, Steps

LEMMA DoneType ==
  ASSUME TypeInv, NEW t \in Thread, Done(t)
  PROVE  /\ pc' \in [Thread -> Steps] /\ QueuesOwned'
         /\ at' \in [Thread -> SUBSET Place]
         /\ missing' \in [Thread -> BOOLEAN]
         /\ \A u \in Thread : pc'[u] = IF u # t THEN pc[u]
                                ELSE IF queue[t] = {} THEN "idle" ELSE "resuming"
         /\ \A u \in Thread : at'[u] = IF u = t THEN {} ELSE at[u]
         /\ UNCHANGED <<bound, queue>>
  BY DEF TypeInv, TypeOK, QueuesOwned, Done, Thread, Steps

(* A step that keeps the waits, or drops or ages some, and lets no thread   *)
(* newly record one.                                                        *)
LEMMA TypeFrame ==
  ASSUME TypeInv, QueuesOwned', Recording' \subseteq Recording,
         companions' \subseteq Companion, usable' \subseteq companions',
         granted' \subseteq usable', seats' \subseteq Place,
         pendings' \subseteq Pending, tickets' = tickets, expired' \subseteq Pending,
         pc' \in [Thread -> Steps], at' \in [Thread -> SUBSET Place],
         bound' \in [Thread -> SUBSET Companion], missing' \in [Thread -> BOOLEAN],
         queue' \in [Thread -> SUBSET Pending], open' \subseteq Place
  PROVE  TypeInv'
  BY TicketsKept DEF TypeInv, TypeOK

LEMMA TypeSettled ==
  ASSUME TypeInv, UNCHANGED <<pc, at, bound, missing, queue, tickets>>,
         companions' \subseteq Companion, usable' \subseteq companions',
         granted' \subseteq usable', seats' \subseteq Place,
         pendings' \subseteq Pending, expired' \subseteq Pending, open' \subseteq Place
  PROVE  TypeInv'
  <1>1. QueuesOwned' /\ Recording' \subseteq Recording
    BY DEF TypeInv, QueuesOwned, Recording
  <1>2. QED
    BY <1>1, TypeFrame DEF TypeInv, TypeOK

(* A thread moves on, or ends a handshake, and the waits stay.              *)
LEMMA TypeMoved ==
  ASSUME TypeInv, NEW t \in Thread,
         \/ \E step \in Steps \ {"idle", "draining", "resolved", "popping"} :
              Goes(t, step)
         \/ Done(t)
         \/ pc[t] = "resolved" /\ Pops(t, TRUE),
         UNCHANGED <<companions, usable, granted, tickets, expired>>,
         seats' \subseteq Place, open' \subseteq Place, pendings' \subseteq Pending
  PROVE  TypeInv'
  <1>1. CASE \E step \in Steps \ {"idle", "draining", "resolved", "popping"} :
               Goes(t, step)
    <2>1. PICK step \in Steps \ {"idle", "draining", "resolved", "popping"} :
            Goes(t, step)
      BY <1>1
    <2>2. QueuesOwned' /\ Recording' \subseteq Recording
      BY <2>1, GoesType DEF Recording
    <2>3. QED
      BY <2>1, <2>2, GoesType, TypeFrame DEF TypeInv, TypeOK
  <1>2. CASE Done(t)
    <2>1. Recording' \subseteq Recording
      BY <1>2, DoneType DEF Recording
    <2>2. QED
      BY <1>2, <2>1, DoneType, TypeFrame DEF TypeInv, TypeOK
  <1>3. CASE pc[t] = "resolved" /\ Pops(t, TRUE)
    <2>1. Recording' \subseteq Recording
      BY <1>3, PopsType DEF Recording
    <2>2. QED
      BY <1>3, <2>1, PopsType, TypeFrame DEF TypeInv, TypeOK
  <1>4. QED
    BY <1>1, <1>2, <1>3

-----------------------------------------------------------------------------
LEMMA TypeInit == Init => TypeInv
  <1> SUFFICES ASSUME Init PROVE TypeInv
    OBVIOUS
  <1>1. TypeOK /\ QueuesOwned
    BY LimitAssumption DEF Init, TypeOK, QueuesOwned, Steps, Thread
  <1>2. Recording = {}
    BY DEF Init, Recording
  <1>3. TicketsFit
    BY <1>2, FS_EmptySet, LimitAssumption DEF TicketsFit, Init
  <1>4. QED
    BY <1>1, <1>3 DEF TypeInv

(* What happens to a wait that stays in the list: its age, nothing else.    *)
LEMMA AgedPending ==
  ASSUME NEW p \in Pending, NEW flag \in BOOLEAN
  PROVE  /\ [p EXCEPT !.old = flag] \in Pending
         /\ [p EXCEPT !.old = flag].place = p.place
         /\ [p EXCEPT !.old = flag].ticket = p.ticket
         /\ [p EXCEPT !.old = flag].by = p.by
  BY DEF Pending

LEMMA TypeConnect ==
  ASSUME TypeInv, NEW m \in Caller, NEW place \in Place, Connect(m, place)
  PROVE  TypeInv'
  <1>1. m \in Thread /\ "resolved" \in Steps \ {"idle", "draining"}
    BY DEF Thread, Steps
  <1>2. /\ pc' \in [Thread -> Steps] /\ at' \in [Thread -> SUBSET Place]
        /\ \A u \in Thread : pc'[u] = IF u = m THEN "resolved" ELSE pc[u]
        /\ UNCHANGED <<storeVars, pendingVars, bound, missing, queue, open>>
    BY <1>1, TakesType DEF Connect
  <1>3. Recording' \subseteq Recording \cup {m}
    BY <1>2 DEF Recording
  <1>4. TicketsFit'
    BY <1>1, <1>2, <1>3, TicketPromised DEF Connect, pendingVars
  <1>5. QueuesOwned'
    BY <1>2 DEF TypeInv, QueuesOwned, Thread
  <1>6. QED
    BY <1>2, <1>4, <1>5 DEF TypeInv, TypeOK, storeVars, pendingVars

LEMMA TypeRecord ==
  ASSUME TypeInv, NEW t \in Thread, NEW place \in Place, RecordPending(t, place)
  PROVE  TypeInv'
  <1> DEFINE pending == [place |-> place, ticket |-> tickets + 1, by |-> t,
                         missing |-> missing[t], old |-> FALSE]
  <1>1. "narrating" \in Steps \ {"idle", "draining"}
    BY DEF Steps
  <1>2. /\ pc' \in [Thread -> Steps] /\ QueuesOwned'
        /\ \A u \in Thread : pc'[u] = IF u = t THEN "narrating" ELSE pc[u]
        /\ UNCHANGED <<at, bound, missing, queue>>
    BY <1>1, GoesType DEF RecordPending
  <1>3. t \in Recording /\ Recording' \subseteq Recording \ {t}
    BY <1>2 DEF Recording, RecordPending, Working
  <1>4. TicketsFit' /\ tickets + 1 \in 1..MaxTickets
    BY <1>3, TicketTaken DEF RecordPending
  <1>5. pending \in Pending
    BY <1>4 DEF Pending, TypeInv, TypeOK
  <1>6. pendings' \subseteq pendings \cup {pending} /\ tickets' = tickets + 1
    BY DEF RecordPending, Recorded
  <1> HIDE DEF pending
  <1>7. pendings' \subseteq Pending /\ tickets' \in 0..MaxTickets
    BY <1>4, <1>5, <1>6, LimitAssumption DEF TypeInv, TypeOK
  <1>8. QED
    BY <1>2, <1>4, <1>7 DEF TypeInv, TypeOK, RecordPending, storeVars

LEMMA TypeExpired ==
  ASSUME TypeInv, NEW t \in Thread, NEW place \in Place, SessionExpired(t, place)
  PROVE  TypeInv'
  <1>1. /\ pc' \in [Thread -> Steps] /\ QueuesOwned'
        /\ missing' \in [Thread -> BOOLEAN]
        /\ \A u \in Thread : pc'[u] = IF u = t THEN "popping" ELSE pc[u]
        /\ UNCHANGED <<at, bound, queue>>
    BY PopsType DEF SessionExpired
  <1>2. Recording' \subseteq Recording \cup {t}
    BY <1>1 DEF Recording
  <1>3. TicketsFit'
    BY <1>2, TicketPromised DEF SessionExpired, pendingVars
  <1>4. QED
    BY <1>1, <1>3 DEF TypeInv, TypeOK, SessionExpired, storeVars, pendingVars

LEMMA TypeFinish ==
  ASSUME TypeInv, NEW t \in Thread, NEW place \in Place, Finish(t, place)
  PROVE  TypeInv'
  <1> USE DEF storeVars, pendingVars, Steps
  <1>a. /\ seats \cup {place} \subseteq Place /\ open \ {place} \subseteq Place
        /\ seats \subseteq Place /\ open \subseteq Place /\ pendings \subseteq Pending
    BY DEF TypeInv, TypeOK
  <1>1. CASE NarrateWaiting(t, place)
    BY <1>1, <1>a, TypeMoved DEF NarrateWaiting
  <1>2. CASE EnrollSeat(t, place)
    BY <1>2, <1>a, TypeMoved DEF EnrollSeat, Close
  <1>3. CASE StoreSeat(t, place)
    BY <1>3, <1>a, TypeMoved DEF StoreSeat, Close
  <1>4. CASE Arrive(t, place)
    BY <1>4, <1>a, TypeMoved DEF Arrive, Close
  <1>5. CASE FinishFails(t, place)
    BY <1>5, <1>a, TypeMoved DEF FinishFails, Close
  <1>6. ASSUME NEW allowed \in BOOLEAN, StoreRenewed(t, place, allowed)
        PROVE  TypeInv'
    <2>1. /\ UNCHANGED <<pc, at, bound, missing, queue, tickets>>
          /\ UNCHANGED <<companions, seats, pendings, expired, open>>
      BY <1>6 DEF StoreRenewed, threadVars
    <2>2. usable' \subseteq companions' /\ granted' \subseteq usable'
      BY <1>6, <2>1 DEF StoreRenewed, Granting, TypeInv, TypeOK
    <2>3. QED
      BY <2>1, <2>2, TypeSettled DEF TypeInv, TypeOK
  <1>7. QED
    BY <1>1, <1>2, <1>3, <1>4, <1>5, <1>6, TypeRecord, TypeExpired DEF Finish

LEMMA TypeCaller ==
  ASSUME TypeInv, NEW m \in Caller, NEW place \in Place, CallerStep(m, place)
  PROVE  TypeInv'
  <1> USE DEF storeVars, pendingVars, Steps
  <1>a. /\ m \in Thread /\ open \ {place} \subseteq Place
        /\ seats \subseteq Place /\ open \subseteq Place /\ pendings \subseteq Pending
    BY DEF TypeInv, TypeOK, Thread
  <1>1. CASE CheckBinding(m, place)
    BY <1>1, <1>a, TypeMoved DEF CheckBinding, Working
  <1>2. CASE CheckGrant(m, place)
    BY <1>2, <1>a, TypeMoved DEF CheckGrant
  <1>3. CASE Touch(m, place)
    <2>1. pendings' \subseteq Pending
      BY <1>3, <1>a, AgedPending DEF Touch
    <2>2. QED
      BY <1>3, <1>a, <2>1, TypeMoved DEF Touch
  <1>4. CASE DiscoveryFails(m, place)
    BY <1>4, <1>a, TypeMoved DEF DiscoveryFails, Close
  <1>5. CASE DropPending(m, place)
    BY <1>5, <1>a, TypeMoved DEF DropPending, WaitDropped
  <1>6. QED
    BY <1>1, <1>2, <1>3, <1>4, <1>5 DEF CallerStep

LEMMA TypeResumer ==
  ASSUME TypeInv, NEW r \in Resumer,
         Drain(r) \/ \E p \in queue[r] : ResumeNext(r, p)
  PROVE  TypeInv'
  <1>a. r \in Thread /\ r \notin Caller
    BY ThreadAssumption DEF Thread
  <1>1. CASE Drain(r)
    <2> DEFINE due == {p \in pendings : Of(p.place) \in bound[r] /\ ~p.old}
    <2>1. due \subseteq pendings
      OBVIOUS
    <2>2. /\ pc' = [pc EXCEPT ![r] = IF due = {} THEN "idle" ELSE "resuming"]
          /\ queue' = [queue EXCEPT ![r] = due]
          /\ pendings' = pendings \ due
      BY <1>1 DEF Drain, Due, WaitsWithout
    <2> HIDE DEF due
    <2>3. /\ pc' \in [Thread -> Steps] /\ queue' \in [Thread -> SUBSET Pending]
          /\ bound' \in [Thread -> SUBSET Companion]
      BY <1>1, <2>1, <2>2 DEF Drain, TypeInv, TypeOK, Steps
    <2>4. QueuesOwned' /\ Recording' \subseteq Recording
      BY <1>a, <1>1, <2>2 DEF Drain, TypeInv, TypeOK, QueuesOwned, Recording, Thread
    <2>5. QED
      BY <1>1, <2>2, <2>3, <2>4, TypeFrame DEF Drain, TypeInv, TypeOK, storeVars
  <1>2. ASSUME NEW p \in queue[r], ResumeNext(r, p)
        PROVE  TypeInv'
    <2>1. p \in Pending /\ p.place \in Place
      BY <1>a DEF TypeInv, TypeOK, Pending
    <2>2. /\ pc' \in [Thread -> Steps] /\ at' \in [Thread -> SUBSET Place]
          /\ queue' \in [Thread -> SUBSET Pending] /\ open' \subseteq Place
      BY <1>a, <1>2, <2>1 DEF ResumeNext, Takes, Close, TypeInv, TypeOK, Steps
    <2>3. QueuesOwned' /\ Recording' \subseteq Recording
      BY <1>a, <1>2
      DEF ResumeNext, Takes, TypeInv, TypeOK, QueuesOwned, Recording, Thread
    <2>4. QED
      BY <1>2, <2>2, <2>3, TypeFrame
      DEF ResumeNext, TypeInv, TypeOK, storeVars, pendingVars
  <1>3. QED
    BY <1>1, <1>2

LEMMA TypeSweeper ==
  ASSUME TypeInv, SweeperStep \/ \E p \in pendings : AgesOut(p)
  PROVE  TypeInv'
  <1> USE DEF TypeInv, TypeOK, storeVars, threadVars
  <1>1. CASE Sweep
    BY <1>1, TypeSettled DEF Sweep, Announced, Aged
  <1>2. ASSUME NEW p \in expired, TellTimeout(p) PROVE TypeInv'
    BY <1>2, TypeSettled DEF TellTimeout, Close
  <1>3. ASSUME NEW p \in pendings, AgesOut(p) PROVE TypeInv'
    <2>1. pendings' \subseteq Pending
      BY <1>3, AgedPending DEF AgesOut
    <2>2. QED
      BY <1>3, <2>1, TypeSettled DEF AgesOut
  <1>4. QED
    BY <1>1, <1>2, <1>3 DEF SweeperStep

LEMMA TypeOperator ==
  ASSUME TypeInv, OperatorStep PROVE TypeInv'
  <1> USE DEF TypeInv, TypeOK, pendingVars, threadVars, GrantRevoked, Granting
  <1>1. ASSUME NEW r \in Resumer, NEW c \in Companion, NEW allowed \in BOOLEAN,
               Bind(r, c, allowed)
        PROVE  TypeInv'
    <2>1. r \in Thread /\ r \notin Caller
      BY ThreadAssumption DEF Thread
    <2>2. QueuesOwned' /\ Recording' \subseteq Recording
      BY <1>1, <2>1 DEF Bind, QueuesOwned, Recording, Thread
    <2>3. QED
      BY <1>1, <2>1, <2>2, TypeFrame DEF Bind, Steps
  <1>2. ASSUME NEW c \in Companion, Unbind(c) PROVE TypeInv'
    BY <1>2, TypeSettled DEF Unbind
  <1>3. ASSUME NEW c \in Companion, NEW allowed \in BOOLEAN, SetGrant(c, allowed)
        PROVE  TypeInv'
    BY <1>3, TypeSettled DEF SetGrant
  <1>4. ASSUME NEW place \in Place, Forget(place) PROVE TypeInv'
    BY <1>4, TypeSettled DEF Forget
  <1>5. ASSUME NEW c \in Companion, Delete(c) PROVE TypeInv'
    BY <1>5, TypeSettled DEF Delete
  <1>6. QED
    BY <1>1, <1>2, <1>3, <1>4, <1>5 DEF OperatorStep

LEMMA TypeStep ==
  ASSUME TypeInv, [Next]_vars PROVE TypeInv'
  <1>1. CASE UNCHANGED vars
    BY <1>1, TypeSettled DEF vars, storeVars, pendingVars, threadVars, TypeInv, TypeOK
  <1>2. QED
    BY <1>1, TypeConnect, TypeFinish, TypeCaller, TypeResumer, TypeSweeper, TypeOperator
    DEF Next, Proceed

(* Every reachable state has the type TypeOK states, and no more waits are  *)
(* recorded than there are tickets.                                         *)
THEOREM TypeCorrect == Spec => []TypeOK
  <1>1. TypeInv => TypeOK
    BY DEF TypeInv
  <1>2. QED
    BY <1>1, TypeInit, TypeStep, PTL DEF Spec

-----------------------------------------------------------------------------
(* The waits: every ticket is in one place, under one wait.                 *)

TicketsIssued ==
  /\ \A p \in pendings \cup expired : p.ticket <= tickets
  /\ \A t \in Thread : \A p \in queue[t] : p.ticket <= tickets

TicketsUnique ==
  /\ \A p, q \in pendings : p.ticket = q.ticket => p = q
  /\ \A p \in pendings, q \in expired : p.ticket # q.ticket
  /\ \A t \in Thread : \A q \in queue[t] :
       \A p \in pendings \cup expired : p.ticket # q.ticket
  /\ \A t, u \in Thread : \A p \in queue[t], q \in queue[u] :
       p.ticket = q.ticket => t = u

Waits == TicketsIssued /\ TicketsUnique /\ OnePendingPerPlace

LEMMA WaitsInit == Init => Waits
  BY LimitAssumption
  DEF Init, Waits, TicketsIssued, TicketsUnique, OnePendingPerPlace

(* Waits may disappear...                                                   *)
LEMMA WaitsShrink ==
  ASSUME Waits, pendings' \subseteq pendings, expired' \subseteq expired,
         tickets' = tickets, \A t \in Thread : queue'[t] \subseteq queue[t]
  PROVE  Waits'
  BY DEF Waits, TicketsIssued, TicketsUnique, OnePendingPerPlace

(* ...or age, where the list keeps their places, tickets and owners.        *)
Ages(p, S, flag) == IF p \in S THEN [p EXCEPT !.old = flag] ELSE p

LEMMA AgesKeeps ==
  ASSUME NEW p \in Pending, NEW S, NEW flag \in BOOLEAN
  PROVE  /\ Ages(p, S, flag).place = p.place
         /\ Ages(p, S, flag).ticket = p.ticket
         /\ Ages(p, S, flag).by = p.by
  BY AgedPending DEF Ages

LEMMA AgedWaits ==
  ASSUME TypeInv, NEW S, NEW flag \in BOOLEAN,
         pendings' = {Ages(p, S, flag) : p \in pendings}
  PROVE  /\ \A q \in pendings' : \E p \in pendings :
              /\ q = Ages(p, S, flag)
              /\ q.place = p.place /\ q.ticket = p.ticket /\ q.by = p.by
         /\ \A p \in pendings : \E q \in pendings' : q.place = p.place
  BY AgesKeeps DEF TypeInv, TypeOK

LEMMA WaitsAge ==
  ASSUME TypeInv, Waits, NEW S, NEW flag \in BOOLEAN,
         pendings' = {Ages(p, S, flag) : p \in pendings},
         UNCHANGED <<tickets, expired, queue>>
  PROVE  Waits'
  <1>1. \A q \in pendings' : \E p \in pendings :
          q = Ages(p, S, flag) /\ q.place = p.place /\ q.ticket = p.ticket
    BY AgedWaits
  <1>2. TicketsIssued'
    BY <1>1 DEF Waits, TicketsIssued
  <1>3. TicketsUnique'
    BY <1>1 DEF Waits, TicketsUnique
  <1>4. OnePendingPerPlace'
    BY <1>1 DEF Waits, OnePendingPerPlace
  <1>5. QED
    BY <1>2, <1>3, <1>4 DEF Waits

LEMMA TouchAges ==
  ASSUME NEW m, NEW place, Touch(m, place)
  PROVE  pendings' = {Ages(p, {q \in pendings : q.place = place}, FALSE) :
                        p \in pendings}
  BY DEF Touch, Ages

LEMMA AgesOutAges ==
  ASSUME NEW p \in pendings, AgesOut(p)
  PROVE  pendings' = {Ages(q, {p}, TRUE) : q \in pendings}
  BY DEF AgesOut, Ages

LEMMA WaitsRecord ==
  ASSUME TypeInv, Waits, NEW t \in Thread, NEW place \in Place,
         RecordPending(t, place)
  PROVE  Waits'
  <1> DEFINE pending == [place |-> place, ticket |-> tickets + 1, by |-> t,
                         missing |-> missing[t], old |-> FALSE]
  <1>1. pendings' = (pendings \ PendingsAt(place)) \cup {pending}
    BY DEF RecordPending, Recorded
  <1>2. pending.place = place /\ pending.ticket = tickets + 1
    OBVIOUS
  <1>3. tickets' = tickets + 1 /\ UNCHANGED <<expired, queue>>
    BY DEF RecordPending, Goes
  <1> HIDE DEF pending
  <1>4. /\ \A p \in pendings \cup expired : p.ticket <= tickets /\ p.ticket \in Nat
        /\ \A u \in Thread : \A p \in queue[u] : p.ticket <= tickets /\ p.ticket \in Nat
        /\ tickets \in Nat
    BY LimitAssumption DEF TypeInv, TypeOK, Waits, TicketsIssued, Pending
  <1>5. TicketsIssued'
    BY <1>1, <1>2, <1>3, <1>4 DEF TicketsIssued
  <1>6. TicketsUnique'
    BY <1>1, <1>2, <1>3, <1>4 DEF Waits, TicketsUnique
  <1>7. OnePendingPerPlace'
    BY <1>1, <1>2 DEF Waits, OnePendingPerPlace, PendingsAt
  <1>8. QED
    BY <1>5, <1>6, <1>7 DEF Waits

LEMMA WaitsDrain ==
  ASSUME TypeInv, Waits, NEW r \in Resumer, Drain(r)
  PROVE  Waits'
  <1> DEFINE due == {p \in pendings : Of(p.place) \in bound[r] /\ ~p.old}
  <1>1. /\ due \subseteq pendings /\ pendings' = pendings \ due
        /\ queue' = [queue EXCEPT ![r] = due]
        /\ UNCHANGED <<tickets, expired>>
    BY DEF Drain, Due, WaitsWithout
  <1> HIDE DEF due
  <1>2. \A u \in Thread : queue'[u] = IF u = r THEN due ELSE queue[u]
    BY <1>1 DEF TypeInv, TypeOK
  <1>3. QED
    BY <1>1, <1>2 DEF Waits, TicketsIssued, TicketsUnique, OnePendingPerPlace

LEMMA WaitsSweep ==
  ASSUME Waits, Sweep PROVE Waits'
  <1>1. /\ Aged \subseteq pendings /\ pendings' = pendings \ Aged
        /\ expired' = Aged /\ UNCHANGED <<tickets, queue>>
    BY DEF Sweep, Announced, Aged, threadVars
  <1>2. QED
    BY <1>1 DEF Waits, TicketsIssued, TicketsUnique, OnePendingPerPlace

LEMMA WaitsStep ==
  ASSUME TypeInv, Waits, [Next]_vars PROVE Waits'
  <1> DEFINE kept == UNCHANGED <<pendings, tickets, expired, queue>>
  <1>1. kept => Waits'
    BY WaitsShrink
  <1>2. ASSUME NEW t \in Thread, NEW place \in Place, Finish(t, place) PROVE Waits'
    <2>1. RecordPending(t, place) \/ kept
      BY <1>2 DEF Finish, NarrateWaiting, EnrollSeat, SessionExpired, StoreRenewed,
                  StoreSeat, Arrive, FinishFails, Done, Goes, Pops, pendingVars,
                  threadVars
    <2>2. QED
      BY <1>1, <2>1, WaitsRecord
  <1>3. ASSUME NEW m \in Caller, NEW place \in Place, CallerStep(m, place)
        PROVE  Waits'
    <2>1. CASE Touch(m, place)
      BY <2>1, TouchAges, WaitsAge DEF Touch, Goes
    <2>2. CASE DropPending(m, place)
      BY <2>2, WaitsShrink DEF DropPending, WaitDropped, Goes
    <2>3. CASE CheckBinding(m, place) \/ CheckGrant(m, place) \/ DiscoveryFails(m, place)
      <3>1. kept
        BY <2>3 DEF CheckBinding, CheckGrant, DiscoveryFails, Done, Goes, Pops,
                    pendingVars
      <3>2. QED
        BY <1>1, <3>1
    <2>4. QED
      BY <1>3, <2>1, <2>2, <2>3 DEF CallerStep
  <1>4. ASSUME NEW r \in Resumer, NEW p \in queue[r], ResumeNext(r, p) PROVE Waits'
    <2>1. \A t \in Thread : queue'[t] \subseteq queue[t]
      BY <1>4 DEF ResumeNext, TypeInv, TypeOK
    <2>2. QED
      BY <1>4, <2>1, WaitsShrink DEF ResumeNext, pendingVars
  <1>5. CASE SweeperStep
    BY <1>5, WaitsSweep, WaitsShrink DEF SweeperStep, TellTimeout, threadVars
  <1>6. ASSUME NEW p \in pendings, AgesOut(p) PROVE Waits'
    BY <1>6, AgesOutAges, WaitsAge DEF AgesOut, threadVars
  <1>7. CASE OperatorStep
    <2>1. kept
      BY <1>7 DEF OperatorStep, Bind, Unbind, SetGrant, Forget, Delete, pendingVars,
                  threadVars
    <2>2. QED
      BY <1>1, <2>1
  <1>8. ASSUME NEW m \in Caller, NEW place \in Place, Connect(m, place) PROVE Waits'
    BY <1>1, <1>8 DEF Connect, pendingVars
  <1>9. CASE UNCHANGED vars
    BY <1>1, <1>9 DEF vars, pendingVars, threadVars
  <1>10. QED
    BY <1>2, <1>3, <1>4, <1>5, <1>6, <1>7, <1>8, <1>9, WaitsDrain DEF Next, Proceed

(* However callers, expired sessions, sign-ins and the sweeper interleave,  *)
(* the list holds one wait per place: a sign-in resumes a place once.       *)
THEOREM OnePending == Spec => []OnePendingPerPlace
  <1>1. Waits => OnePendingPerPlace
    BY DEF Waits
  <1>2. QED
    BY <1>1, TypeInit, TypeStep, WaitsInit, WaitsStep, PTL DEF Spec

(* A recorded wait is taken by one thread only: by one sign-in, or by the   *)
(* sweeper, never by two of them.                                           *)
THEOREM WaitsTakenOnce == Spec => []TakenOnce
  <1>1. Waits => TakenOnce
    BY DEF Waits, TicketsUnique, TakenOnce, Taken, Thread
  <1>2. QED
    BY <1>1, TypeInit, TypeStep, WaitsInit, WaitsStep, PTL DEF Spec

-----------------------------------------------------------------------------
(* A wait its own caller finishes is out of the list.                       *)

Finishing == {"enrolling", "exchanging", "arriving"}

LEMMA FinishedInit == Init => FinishedNotResumed
  BY DEF Init, FinishedNotResumed

LEMMA FinishedFrame ==
  ASSUME FinishedNotResumed,
         \A q \in pendings' : \E p \in pendings : p.place = q.place /\ p.by = q.by,
         \A m \in Caller : pc'[m] \in Finishing =>
           pc[m] \in Finishing /\ at'[m] = at[m]
  PROVE  FinishedNotResumed'
  BY DEF FinishedNotResumed, Finishing

(* What each way of moving does to a caller that is finishing a place.      *)
LEMMA FinishingMoves ==
  ASSUME TypeInv, NEW t \in Thread, NEW m \in Caller, pc'[m] \in Finishing
  PROVE  /\ Done(t) => pc[m] \in Finishing /\ at'[m] = at[m]
         /\ \A flag \in BOOLEAN : Pops(t, flag) =>
              pc[m] \in Finishing /\ at'[m] = at[m]
         /\ \A step \in Steps \ Finishing : Goes(t, step) =>
              pc[m] \in Finishing /\ at'[m] = at[m]
         /\ \A step \in Steps : pc[t] \in Finishing /\ Goes(t, step) =>
              pc[m] \in Finishing /\ at'[m] = at[m]
  BY DEF TypeInv, TypeOK, Done, Pops, Goes, Finishing, Thread

LEMMA FinishedRecord ==
  ASSUME TypeInv, FinishedNotResumed, NEW t \in Thread, NEW place \in Place,
         RecordPending(t, place)
  PROVE  FinishedNotResumed'
  <1> DEFINE pending == [place |-> place, ticket |-> tickets + 1, by |-> t,
                         missing |-> missing[t], old |-> FALSE]
  <1>1. pendings' \subseteq pendings \cup {pending}
    BY DEF RecordPending, Recorded
  <1>2. pending.by = t
    OBVIOUS
  <1>3. Goes(t, "narrating")
    BY DEF RecordPending
  <1> HIDE DEF pending
  <1>4. \A m \in Caller : pc'[m] \in Finishing =>
          m # t /\ pc[m] \in Finishing /\ at'[m] = at[m]
    BY <1>3 DEF TypeInv, TypeOK, Goes, Finishing, Thread
  <1>5. QED
    BY <1>1, <1>2, <1>4 DEF FinishedNotResumed, Finishing

LEMMA FinishedDrop ==
  ASSUME TypeInv, FinishedNotResumed, NEW m \in Caller, NEW place \in Place,
         DropPending(m, place)
  PROVE  FinishedNotResumed'
  <1>1. /\ pendings' = pendings \ PendingsAt(place) /\ at' = at /\ at[m] = {place}
        /\ \A u \in Caller : u # m => pc'[u] = pc[u]
    BY DEF DropPending, WaitDropped, Goes, Working, TypeInv, TypeOK, Thread
  <1>2. QED
    BY <1>1 DEF FinishedNotResumed, PendingsAt

LEMMA FinishedStep ==
  ASSUME TypeInv, FinishedNotResumed, [Next]_vars PROVE FinishedNotResumed'
  <1> DEFINE same == \A m \in Caller : pc'[m] \in Finishing =>
                       pc[m] \in Finishing /\ at'[m] = at[m]
  <1> DEFINE fewer == pendings' \subseteq pendings
  <1>1. same /\ fewer => FinishedNotResumed'
    BY FinishedFrame
  <1>2. ASSUME NEW t \in Thread, NEW place \in Place, Finish(t, place)
        PROVE  FinishedNotResumed'
    <2> USE DEF Working, Finishing, Steps, pendingVars
    <2>1. CASE RecordPending(t, place)
      BY <2>1, FinishedRecord
    <2>2. CASE NarrateWaiting(t, place)
      BY <1>1, <2>2, FinishingMoves DEF NarrateWaiting
    <2>3. CASE EnrollSeat(t, place)
      <3>1. Done(t) \/ (pc[t] \in Finishing /\ \E step \in Steps : Goes(t, step))
        BY <2>3 DEF EnrollSeat
      <3>2. QED
        BY <1>1, <2>3, <3>1, FinishingMoves DEF EnrollSeat
    <2>4. CASE SessionExpired(t, place)
      BY <1>1, <2>4, FinishingMoves DEF SessionExpired
    <2>5. CASE StoreSeat(t, place)
      BY <1>1, <2>5, FinishingMoves DEF StoreSeat
    <2>6. CASE Arrive(t, place)
      BY <1>1, <2>6, FinishingMoves DEF Arrive
    <2>7. CASE FinishFails(t, place)
      BY <1>1, <2>7, FinishingMoves DEF FinishFails
    <2>8. ASSUME NEW allowed \in BOOLEAN, StoreRenewed(t, place, allowed)
          PROVE  FinishedNotResumed'
      BY <1>1, <2>8 DEF StoreRenewed, threadVars
    <2>9. QED
      BY <1>2, <2>1, <2>2, <2>3, <2>4, <2>5, <2>6, <2>7, <2>8 DEF Finish
  <1>3. ASSUME NEW m \in Caller, NEW place \in Place, CallerStep(m, place)
        PROVE  FinishedNotResumed'
    <2> USE DEF Finishing, Steps, pendingVars
    <2>a. m \in Thread
      BY DEF Thread
    <2>1. CASE CheckBinding(m, place)
      BY <1>1, <2>a, <2>1, FinishingMoves DEF CheckBinding
    <2>2. CASE CheckGrant(m, place)
      BY <1>1, <2>a, <2>2, FinishingMoves DEF CheckGrant
    <2>3. CASE Touch(m, place)
      <3> DEFINE S == {q \in pendings : q.place = place}
      <3>0. pendings' = {Ages(p, S, FALSE) : p \in pendings}
        BY <2>3, TouchAges
      <3> HIDE DEF S
      <3>1. \A q \in pendings' : \E p \in pendings : p.place = q.place /\ p.by = q.by
        BY <3>0, AgedWaits
      <3>2. same
        BY <2>a, <2>3, FinishingMoves DEF Touch
      <3>3. QED
        BY <3>1, <3>2, FinishedFrame
    <2>4. CASE DiscoveryFails(m, place)
      BY <1>1, <2>a, <2>4, FinishingMoves DEF DiscoveryFails
    <2>5. CASE DropPending(m, place)
      BY <2>5, FinishedDrop
    <2>6. QED
      BY <1>3, <2>1, <2>2, <2>3, <2>4, <2>5 DEF CallerStep
  <1>4. ASSUME NEW r \in Resumer, Drain(r) \/ \E p \in queue[r] : ResumeNext(r, p)
        PROVE  FinishedNotResumed'
    <2>1. same
      BY <1>4, ThreadAssumption
      DEF Drain, ResumeNext, Takes, TypeInv, TypeOK, Thread
    <2>2. fewer
      BY <1>4 DEF Drain, WaitsWithout, ResumeNext, pendingVars
    <2>3. QED
      BY <1>1, <2>1, <2>2
  <1>5. CASE SweeperStep
    <2>1. same
      BY <1>5 DEF SweeperStep, Sweep, TellTimeout, threadVars
    <2>2. fewer
      BY <1>5 DEF SweeperStep, Sweep, TellTimeout
    <2>3. QED
      BY <1>1, <2>1, <2>2
  <1>6. ASSUME NEW p \in pendings, AgesOut(p) PROVE FinishedNotResumed'
    <2>1. \A q \in pendings' : \E o \in pendings : o.place = q.place /\ o.by = q.by
      BY <1>6, AgesOutAges, AgedWaits
    <2>2. same
      BY <1>6 DEF AgesOut, threadVars
    <2>3. QED
      BY <2>1, <2>2, FinishedFrame
  <1>7. CASE OperatorStep
    <2>1. same
      BY <1>7, ThreadAssumption
      DEF OperatorStep, Bind, Unbind, SetGrant, Forget, Delete, threadVars, TypeInv,
          TypeOK, Thread
    <2>2. fewer
      BY <1>7 DEF OperatorStep, Bind, Unbind, SetGrant, Forget, Delete, pendingVars
    <2>3. QED
      BY <1>1, <2>1, <2>2
  <1>8. ASSUME NEW m \in Caller, NEW place \in Place, Connect(m, place)
        PROVE  FinishedNotResumed'
    <2>1. same
      BY <1>8 DEF Connect, Takes, TypeInv, TypeOK, Thread, Finishing
    <2>2. QED
      BY <1>1, <1>8, <2>1 DEF Connect, pendingVars
  <1>9. CASE UNCHANGED vars
    BY <1>1, <1>9 DEF vars, pendingVars, threadVars
  <1>10. QED
    BY <1>2, <1>3, <1>4, <1>5, <1>6, <1>7, <1>8, <1>9 DEF Next, Proceed

(* While a caller finishes a place, none of its own waits for it is left in *)
(* the list: a later sign-in cannot resume it a second time.                *)
THEOREM FinishedOnce == Spec => []FinishedNotResumed
  BY TypeInit, TypeStep, FinishedInit, FinishedStep, PTL DEF Spec

-----------------------------------------------------------------------------
(* An unclosed wait is in the list, with the sweeper or with a thread.      *)

Holding == {"popping", "enrolling", "exchanging", "arriving"}

InList(place) == \E p \in pendings \cup expired : p.place = place

InThread(t, place) ==
  \/ \E p \in queue[t] : p.place = place
  \/ at[t] = {place} /\ pc[t] \in Holding

LEMMA InHandSplit ==
  ASSUME NEW place
  PROVE  /\ InHand(place) <=> InList(place) \/ \E t \in Thread : InThread(t, place)
         /\ InHand(place)' <=> InList(place)' \/ \E t \in Thread : InThread(t, place)'
  BY DEF InHand, InList, InThread, Holding

LEMMA HandInit == Init => NoWaitLost
  BY DEF Init, NoWaitLost

LEMMA HandFrame ==
  ASSUME NoWaitLost, companions' \subseteq companions, open' \subseteq open,
         \A place \in open' : InList(place) => InList(place)',
         \A place \in open', t \in Thread : InThread(t, place) => InThread(t, place)'
  PROVE  NoWaitLost'
  BY InHandSplit DEF NoWaitLost

LEMMA HandKept ==
  ASSUME NoWaitLost, companions' \subseteq companions, open' \subseteq open,
         \A place \in open' : Of(place) \in companions' /\ InHand(place) => InHand(place)'
  PROVE  NoWaitLost'
  BY DEF NoWaitLost

(* A thread that moves lets go of the place it worked on, or of none.       *)
LEMMA ThreadMoves ==
  ASSUME TypeInv, NEW t \in Thread, NEW u \in Thread, NEW place,
         InThread(u, place)
  PROVE  /\ Done(t) /\ at[t] # {place} => InThread(u, place)'
         /\ Done(t) /\ pc[t] \notin Holding => InThread(u, place)'
         /\ \A flag \in BOOLEAN : Pops(t, flag) => InThread(u, place)'
         /\ \A step \in Holding : Goes(t, step) => InThread(u, place)'
         /\ \A step \in Steps : Goes(t, step) /\ pc[t] \notin Holding =>
              InThread(u, place)'
  BY DEF TypeInv, TypeOK, InThread, Done, Pops, Goes, Holding

LEMMA ListSame ==
  ASSUME UNCHANGED <<pendings, expired>>, NEW place, InList(place)
  PROVE  InList(place)'
  BY DEF InList

LEMMA HandRecord ==
  ASSUME TypeInv, NoWaitLost, NEW t \in Thread, NEW place \in Place,
         RecordPending(t, place)
  PROVE  NoWaitLost'
  <1> DEFINE pending == [place |-> place, ticket |-> tickets + 1, by |-> t,
                         missing |-> missing[t], old |-> FALSE]
  <1>1. /\ pendings' = (pendings \ PendingsAt(place)) \cup {pending}
        /\ open' = open \cup {place}
    BY DEF RecordPending, Recorded
  <1>2. pending.place = place
    OBVIOUS
  <1>3. /\ UNCHANGED <<companions, expired>> /\ Goes(t, "narrating")
        /\ at[t] = {place}
    BY DEF RecordPending, storeVars, Working
  <1> HIDE DEF pending
  <1>4. InList(place)'
    BY <1>1, <1>2 DEF InList
  <1>5. ASSUME NEW other, other # place
        PROVE  /\ InList(other) => InList(other)'
               /\ \A u \in Thread : InThread(u, other) => InThread(u, other)'
    <2>1. InList(other) => InList(other)'
      BY <1>1, <1>3, <1>5 DEF InList, PendingsAt
    <2>2. \A u \in Thread : InThread(u, other) => InThread(u, other)'
      BY <1>3, <1>5 DEF InThread, Goes, TypeInv, TypeOK
    <2>3. QED
      BY <2>1, <2>2
  <1>6. QED
    BY <1>1, <1>3, <1>4, <1>5, InHandSplit DEF NoWaitLost

LEMMA HandFinish ==
  ASSUME TypeInv, NoWaitLost, NEW t \in Thread, NEW place \in Place,
         Finish(t, place)
  PROVE  NoWaitLost'
  <1> USE DEF Working, Close, pendingVars, storeVars, Holding
  <1> DEFINE frame == /\ UNCHANGED <<companions, pendings, expired>>
                      /\ open' \subseteq open
  <1>1. ASSUME frame, \A other \in open', u \in Thread :
                        InThread(u, other) => InThread(u, other)'
        PROVE  NoWaitLost'
    BY <1>1, ListSame, HandFrame
  <1>2. CASE RecordPending(t, place)
    BY <1>2, HandRecord
  <1>3. CASE NarrateWaiting(t, place)
    BY <1>1, <1>3, ThreadMoves DEF NarrateWaiting
  <1>4. CASE EnrollSeat(t, place)
    <2>1. frame /\ at[t] = {place}
      BY <1>4 DEF EnrollSeat
    <2>2. \/ \E step \in Holding : Goes(t, step)
          \/ Done(t) /\ place \notin open'
      BY <1>4 DEF EnrollSeat
    <2>3. QED
      BY <1>1, <2>1, <2>2, ThreadMoves
  <1>5. CASE SessionExpired(t, place)
    BY <1>1, <1>5, ThreadMoves DEF SessionExpired
  <1>6. CASE StoreSeat(t, place)
    <2>1. frame /\ at[t] = {place}
      BY <1>6 DEF StoreSeat
    <2>2. \/ \E step \in Holding : Goes(t, step)
          \/ Done(t) /\ place \notin open'
      BY <1>6 DEF StoreSeat
    <2>3. QED
      BY <1>1, <2>1, <2>2, ThreadMoves
  <1>7. CASE Arrive(t, place) \/ FinishFails(t, place)
    <2>1. frame /\ at[t] = {place} /\ Done(t) /\ place \notin open'
      BY <1>7 DEF Arrive, FinishFails
    <2>2. QED
      BY <1>1, <2>1, ThreadMoves
  <1>8. ASSUME NEW allowed \in BOOLEAN, StoreRenewed(t, place, allowed)
        PROVE  NoWaitLost'
    <2>1. frame /\ UNCHANGED <<pc, at, queue>>
      BY <1>8 DEF StoreRenewed, threadVars
    <2>2. QED
      BY <1>1, <2>1 DEF InThread
  <1>9. QED
    BY <1>2, <1>3, <1>4, <1>5, <1>6, <1>7, <1>8 DEF Finish

LEMMA HandCaller ==
  ASSUME TypeInv, NoWaitLost, NEW m \in Caller, NEW place \in Place,
         CallerStep(m, place)
  PROVE  NoWaitLost'
  <1> USE DEF Working, Close, pendingVars, storeVars, Holding, Steps
  <1>a. m \in Thread
    BY DEF Thread
  <1>1. CASE CheckBinding(m, place) \/ CheckGrant(m, place)
    <2>1. UNCHANGED <<companions, pendings, expired, open>> /\ pc[m] \notin Holding
      BY <1>1 DEF CheckBinding, CheckGrant
    <2>2. \/ Goes(m, "allowed") \/ Pops(m, TRUE) \/ Goes(m, "touching") \/ Done(m)
      BY <1>1 DEF CheckBinding, CheckGrant
    <2>3. QED
      BY <1>a, <2>1, <2>2, ThreadMoves, ListSame, HandFrame
  <1>2. CASE Touch(m, place)
    <2> DEFINE S == {q \in pendings : q.place = place}
    <2>1. pendings' = {Ages(p, S, FALSE) : p \in pendings}
      BY <1>2, TouchAges
    <2> HIDE DEF S
    <2>0. UNCHANGED expired
      BY <1>2 DEF Touch
    <2>2. \A other : InList(other) => InList(other)'
      BY <2>0, <2>1, AgedWaits DEF InList
    <2>3. /\ UNCHANGED <<companions, open>> /\ Goes(m, "discovering")
          /\ pc[m] \notin Holding
      BY <1>2 DEF Touch
    <2>4. QED
      BY <1>a, <2>2, <2>3, ThreadMoves, HandFrame
  <1>3. CASE DiscoveryFails(m, place)
    <2>1. /\ UNCHANGED <<companions, pendings, expired>> /\ open' \subseteq open
          /\ pc[m] \notin Holding /\ Done(m)
      BY <1>3 DEF DiscoveryFails
    <2>2. QED
      BY <1>a, <2>1, ThreadMoves, ListSame, HandFrame
  <1>4. CASE DropPending(m, place)
    <2>1. /\ pendings' = pendings \ PendingsAt(place) /\ at' = at /\ at[m] = {place}
          /\ pc'[m] = "enrolling" /\ UNCHANGED <<companions, open, expired>>
          /\ Goes(m, "enrolling")
      BY <1>4, <1>a DEF DropPending, WaitDropped, Goes, TypeInv, TypeOK
    <2>2. InThread(m, place)'
      BY <2>1 DEF InThread
    <2>3. \A other : other # place => (InList(other) => InList(other)')
      BY <2>1 DEF InList, PendingsAt
    <2>4. \A other : \A u \in Thread : InThread(u, other) => InThread(u, other)'
      BY <1>a, <2>1, ThreadMoves
    <2>5. ASSUME NEW other \in open', InHand(other) PROVE InHand(other)'
      BY <1>a, <2>2, <2>3, <2>4, <2>5, InHandSplit
    <2>6. QED
      BY <2>1, <2>5, HandKept
  <1>5. QED
    BY <1>1, <1>2, <1>3, <1>4 DEF CallerStep

LEMMA HandDrain ==
  ASSUME TypeInv, NoWaitLost, NEW r \in Resumer, Drain(r)
  PROVE  NoWaitLost'
  <1> DEFINE due == {p \in pendings : Of(p.place) \in bound[r] /\ ~p.old}
  <1>0. r \in Thread /\ pc[r] = "draining"
    BY DEF Drain, Thread
  <1>1. /\ due \subseteq pendings /\ pendings' = pendings \ due
        /\ queue' = [queue EXCEPT ![r] = due]
        /\ pc' = [pc EXCEPT ![r] = IF due = {} THEN "idle" ELSE "resuming"]
        /\ UNCHANGED <<companions, expired, at, open>>
    BY DEF Drain, Due, WaitsWithout, storeVars
  <1> HIDE DEF due
  <1>2. /\ \A u \in Thread : queue'[u] = IF u = r THEN due ELSE queue[u]
        /\ \A u \in Thread : u # r => pc'[u] = pc[u]
        /\ queue[r] = {}
    BY <1>0, <1>1 DEF TypeInv, TypeOK, QueuesOwned
  <1>3. \A place : \A u \in Thread : InThread(u, place) => InThread(u, place)'
    BY <1>0, <1>1, <1>2 DEF InThread, Holding
  <1>4. \A place : InList(place) => InList(place)' \/ InThread(r, place)'
    BY <1>0, <1>1, <1>2 DEF InList, InThread
  <1>5. ASSUME NEW place \in open', InHand(place) PROVE InHand(place)'
    BY <1>0, <1>3, <1>4, <1>5, InHandSplit
  <1>6. QED
    BY <1>1, <1>5, HandKept

LEMMA HandResume ==
  ASSUME TypeInv, NoWaitLost, NEW r \in Resumer, NEW p \in queue[r],
         ResumeNext(r, p)
  PROVE  NoWaitLost'
  <1>1. /\ r \in Thread /\ pc[r] = "resuming"
        /\ UNCHANGED <<companions, pendings, expired>>
        /\ queue' = [queue EXCEPT ![r] = @ \ {p}]
    BY DEF ResumeNext, Thread, storeVars, pendingVars
  <1>2. /\ \A u \in Thread : queue'[u] = IF u = r THEN queue[r] \ {p} ELSE queue[u]
        /\ \A u \in Thread : u # r => pc'[u] = pc[u] /\ at'[u] = at[u]
    BY <1>1 DEF ResumeNext, Takes, TypeInv, TypeOK
  <1>3. \A place : \A u \in Thread :
          place # p.place /\ InThread(u, place) => InThread(u, place)'
    BY <1>1, <1>2 DEF InThread, Holding
  <1>4. CASE Of(p.place) \in companions
    <2>1. open' = open \ {p.place}
      BY <1>4 DEF ResumeNext, Close
    <2>2. \A place \in open' : place # p.place
      BY <2>1
    <2>3. QED
      BY <1>1, <1>3, <2>1, <2>2, ListSame, HandFrame
  <1>5. CASE Of(p.place) \notin companions
    <2>1. open' = open
      BY <1>5 DEF ResumeNext
    <2>2. ASSUME NEW place \in open', Of(place) \in companions', InHand(place)
          PROVE  InHand(place)'
      <3>1. place # p.place
        BY <1>1, <1>5, <2>2
      <3>2. QED
        BY <1>1, <1>3, <2>2, <3>1, ListSame, InHandSplit
    <2>3. QED
      BY <1>1, <2>1, <2>2, HandKept
  <1>6. QED
    BY <1>4, <1>5

LEMMA HandSweeper ==
  ASSUME TypeInv, NoWaitLost, SweeperStep \/ \E p \in pendings : AgesOut(p)
  PROVE  NoWaitLost'
  <1> USE DEF storeVars, threadVars
  <1>1. CASE Sweep
    <2>1. /\ UNCHANGED <<companions, pc, at, queue, open>>
          /\ pendings' \cup expired' = pendings \cup expired
      BY <1>1 DEF Sweep, Announced, Aged
    <2>2. QED
      BY <2>1, HandFrame DEF InList, InThread
  <1>2. ASSUME NEW p \in expired, TellTimeout(p) PROVE NoWaitLost'
    <2>1. /\ UNCHANGED <<companions, pendings, pc, at, queue>>
          /\ expired' = expired \ {p} /\ open' = open \ {p.place}
      BY <1>2 DEF TellTimeout, Close
    <2>2. QED
      BY <2>1, HandFrame DEF InList, InThread
  <1>3. ASSUME NEW p \in pendings, AgesOut(p) PROVE NoWaitLost'
    <2> DEFINE S == {p}
    <2>1. pendings' = {Ages(q, S, TRUE) : q \in pendings}
      BY <1>3, AgesOutAges
    <2> HIDE DEF S
    <2>2. UNCHANGED <<companions, expired, pc, at, queue, open>>
      BY <1>3 DEF AgesOut
    <2>3. \A o \in pendings : \E q \in pendings' : q.place = o.place
      BY <2>1, AgedWaits
    <2>4. \A place : InList(place) => InList(place)'
      BY <2>2, <2>3 DEF InList
    <2>5. QED
      BY <2>2, <2>4, HandFrame DEF InThread
  <1>4. QED
    BY <1>1, <1>2, <1>3 DEF SweeperStep

LEMMA HandOthers ==
  ASSUME TypeInv, NoWaitLost,
         \/ OperatorStep
         \/ \E m \in Caller, place \in Place : Connect(m, place)
         \/ UNCHANGED vars
  PROVE  NoWaitLost'
  <1> USE DEF storeVars, pendingVars, threadVars
  <1>1. UNCHANGED <<pendings, expired, queue, open>> /\ companions' \subseteq companions
    BY DEF OperatorStep, Bind, Unbind, SetGrant, Forget, Delete, Connect, vars
  <1>2. \A u \in Thread : pc[u] \in Holding => pc'[u] = pc[u] /\ at'[u] = at[u]
    BY DEF OperatorStep, Bind, Unbind, SetGrant, Forget, Delete, Connect, Takes,
           vars, Holding, TypeInv, TypeOK, Thread
  <1>3. \A place : \A u \in Thread : InThread(u, place) => InThread(u, place)'
    BY <1>1, <1>2 DEF InThread
  <1>4. \A place : InList(place) => InList(place)'
    BY <1>1, ListSame
  <1>5. QED
    BY <1>1, <1>3, <1>4, HandFrame

(* No wait is lost between the list, the sweeper and the threads: one that  *)
(* nothing closed on the feed is still in somebody's hands, as long as its  *)
(* companion exists.                                                        *)
THEOREM NothingLost == Spec => []NoWaitLost
  <1>1. TypeInv /\ NoWaitLost /\ [Next]_vars => NoWaitLost'
    BY HandFinish, HandCaller, HandDrain, HandResume, HandSweeper, HandOthers
    DEF Next, Proceed
  <1>2. QED
    BY <1>1, TypeInit, TypeStep, HandInit, PTL DEF Spec

-----------------------------------------------------------------------------
(* What these threads and the operator do to the store, as Accounts has it. *)

LEMMA SharedInit == Init => A!Init
  BY DEF Init, A!Init

LEMMA SharedFinish ==
  ASSUME NEW t \in Thread, NEW place \in Place, Finish(t, place)
  PROVE  [A!Next]_A!vars
  <1>a. place \in A!Place /\ place[1] \in Companion
    BY DEF Place, A!Place
  <1>1. CASE StoreSeat(t, place)
    <2>1. CASE place \in seats
      BY <1>1, <2>1 DEF StoreSeat, A!vars
    <2>2. CASE place \notin seats
      <3>1. A!Seat(place)
        BY <1>1, <1>a, <2>2 DEF StoreSeat, A!Seat
      <3>2. QED
        BY <1>a, <3>1 DEF A!Next
    <2>3. QED
      BY <2>1, <2>2
  <1>2. ASSUME NEW allowed \in BOOLEAN, StoreRenewed(t, place, allowed)
        PROVE  A!Next
    <2>1. A!StoreCredential(Of(place), allowed)
      BY <1>2 DEF StoreRenewed, Granting, A!StoreCredential
    <2>2. QED
      BY <1>a, <2>1 DEF Of, A!Next
  <1>3. CASE UNCHANGED storeVars
    BY <1>3 DEF storeVars, A!vars
  <1>4. QED
    BY <1>1, <1>2, <1>3 DEF Finish, RecordPending, NarrateWaiting, EnrollSeat,
                            SessionExpired, Arrive, FinishFails

LEMMA SharedOperator ==
  ASSUME OperatorStep PROVE A!Next
  <1>1. ASSUME NEW r \in Resumer, NEW c \in Companion, NEW allowed \in BOOLEAN,
               Bind(r, c, allowed)
        PROVE  A!Next
    <2>1. A!StoreCredential(c, allowed)
      BY <1>1 DEF Bind, Granting, A!StoreCredential
    <2>2. QED
      BY <2>1 DEF A!Next
  <1>2. ASSUME NEW c \in Companion, Unbind(c) PROVE A!Next
    <2>1. A!Disconnect(c)
      BY <1>2 DEF Unbind, GrantRevoked, Of, A!Disconnect, A!CredentialGoes, A!SeatsOf
    <2>2. QED
      BY <2>1 DEF A!Next
  <1>3. ASSUME NEW c \in Companion, NEW allowed \in BOOLEAN, SetGrant(c, allowed)
        PROVE  A!Next
    <2>1. A!SetGrant(c, allowed)
      BY <1>3 DEF SetGrant, Granting, A!SetGrant
    <2>2. QED
      BY <2>1 DEF A!Next
  <1>4. ASSUME NEW place \in Place, Forget(place) PROVE A!Next
    <2>1. A!Forget(place) /\ place \in A!Place
      BY <1>4 DEF Forget, Place, A!Forget, A!Place
    <2>2. QED
      BY <2>1 DEF A!Next
  <1>5. ASSUME NEW c \in Companion, Delete(c) PROVE A!Next
    <2>1. A!Delete(c)
      BY <1>5 DEF Delete, GrantRevoked, Of, A!Delete, A!CredentialGoes, A!SeatsOf
    <2>2. QED
      BY <2>1 DEF A!Next
  <1>6. QED
    BY <1>1, <1>2, <1>3, <1>4, <1>5 DEF OperatorStep

LEMMA SharedStep ==
  ASSUME [Next]_vars PROVE [A!Next]_A!vars
  <1>1. CASE UNCHANGED storeVars
    BY <1>1 DEF storeVars, A!vars
  <1>2. ASSUME NEW m \in Caller, NEW place \in Place,
               Connect(m, place) \/ CallerStep(m, place)
        PROVE  UNCHANGED storeVars
    BY <1>2 DEF Connect, CallerStep, CheckBinding, CheckGrant, Touch, DiscoveryFails,
                DropPending
  <1>3. ASSUME NEW r \in Resumer, Drain(r) \/ \E p \in queue[r] : ResumeNext(r, p)
        PROVE  UNCHANGED storeVars
    BY <1>3 DEF Drain, ResumeNext
  <1>4. ASSUME SweeperStep \/ \E p \in pendings : AgesOut(p)
        PROVE  UNCHANGED storeVars
    BY <1>4 DEF SweeperStep, Sweep, TellTimeout, AgesOut
  <1>5. UNCHANGED vars => UNCHANGED storeVars
    BY DEF vars
  <1>6. QED
    BY <1>1, <1>2, <1>3, <1>4, <1>5, SharedFinish, SharedOperator DEF Next, Proceed

(* The store that callers, resumers and the operator share here is the one  *)
(* Custody keeps: whatever they do to it is a step both modules have in     *)
(* Accounts.                                                                *)
THEOREM StoreShared == Spec => SharesStore
  BY SharedInit, SharedStep, PTL DEF Spec, SharesStore, A!Spec

-----------------------------------------------------------------------------
(* The waits as WaitBoard has them.  A wait is told from others by its      *)
(* ticket also among those one thread or the sweeper took, and a resumer    *)
(* that drains knows the companion that signed in.                          *)

TicketsTold ==
  /\ \A p, q \in expired : p.ticket = q.ticket => p = q
  /\ \A t \in Thread : \A p, q \in queue[t] : p.ticket = q.ticket => p = q

DrainsForOne ==
  \A r \in Thread : pc[r] = "draining" => \E c \in Companion : bound[r] = {c}

BoardInv == TicketsTold /\ DrainsForOne

LEMMA BoardInvInit == Init => BoardInv
  BY DEF Init, BoardInv, TicketsTold, DrainsForOne

LEMMA ToldFrame ==
  ASSUME TicketsTold, expired' \subseteq expired,
         \A t \in Thread : queue'[t] \subseteq queue[t]
  PROVE  TicketsTold'
  BY DEF TicketsTold

LEMMA ToldStep ==
  ASSUME TypeInv, Waits, TicketsTold, [Next]_vars PROVE TicketsTold'
  <1>1. UNCHANGED <<expired, queue>> => TicketsTold'
    BY ToldFrame
  <1>2. ASSUME NEW t \in Thread, NEW place \in Place, Finish(t, place)
        PROVE  UNCHANGED <<expired, queue>>
    BY <1>2 DEF Finish, RecordPending, NarrateWaiting, EnrollSeat, SessionExpired,
                StoreRenewed, StoreSeat, Arrive, FinishFails, Done, Goes, Pops,
                pendingVars, threadVars
  <1>3. ASSUME NEW m \in Caller, NEW place \in Place,
               Connect(m, place) \/ CallerStep(m, place)
        PROVE  UNCHANGED <<expired, queue>>
    BY <1>3 DEF Connect, CallerStep, CheckBinding, CheckGrant, Touch, DiscoveryFails,
                DropPending, Done, Goes, Pops, pendingVars
  <1>4. ASSUME NEW r \in Resumer, Drain(r) PROVE TicketsTold'
    <2>1. /\ Due(r) \subseteq pendings /\ UNCHANGED expired
          /\ \A u \in Thread : queue'[u] = IF u = r THEN Due(r) ELSE queue[u]
      BY <1>4 DEF Drain, Due, TypeInv, TypeOK
    <2>2. QED
      BY <2>1 DEF TicketsTold, Waits, TicketsUnique
  <1>5. ASSUME NEW r \in Resumer, NEW p \in queue[r], ResumeNext(r, p)
        PROVE  TicketsTold'
    <2>1. \A t \in Thread : queue'[t] \subseteq queue[t]
      BY <1>5 DEF ResumeNext, TypeInv, TypeOK
    <2>2. QED
      BY <1>5, <2>1, ToldFrame DEF ResumeNext, pendingVars
  <1>6. CASE Sweep
    <2>1. expired' \subseteq pendings /\ UNCHANGED queue
      BY <1>6 DEF Sweep, Announced, Aged, threadVars
    <2>2. QED
      BY <2>1 DEF TicketsTold, Waits, TicketsUnique
  <1>7. ASSUME NEW p \in expired, TellTimeout(p) PROVE TicketsTold'
    BY <1>7, ToldFrame DEF TellTimeout, threadVars
  <1>8. ASSUME OperatorStep \/ (\E p \in pendings : AgesOut(p)) \/ UNCHANGED vars
        PROVE  UNCHANGED <<expired, queue>>
    BY <1>8 DEF OperatorStep, Bind, Unbind, SetGrant, Forget, Delete, AgesOut, vars,
                pendingVars, threadVars
  <1>9. QED
    BY <1>1, <1>2, <1>3, <1>4, <1>5, <1>6, <1>7, <1>8 DEF Next, Proceed, SweeperStep

LEMMA DrainsFrame ==
  ASSUME DrainsForOne,
         \A r \in Thread : pc'[r] = "draining" =>
           pc[r] = "draining" /\ bound'[r] = bound[r]
  PROVE  DrainsForOne'
  BY DEF DrainsForOne

LEMMA DrainsStep ==
  ASSUME TypeInv, DrainsForOne, [Next]_vars PROVE DrainsForOne'
  <1> DEFINE same == \A r \in Thread : pc'[r] = "draining" =>
                       pc[r] = "draining" /\ bound'[r] = bound[r]
  <1>0. same => DrainsForOne'
    BY DrainsFrame
  <1>a. ASSUME NEW t \in Thread,
               \/ Done(t)
               \/ \E flag \in BOOLEAN : Pops(t, flag)
               \/ \E step \in Steps \ {"draining"} : Goes(t, step)
        PROVE  same
    BY <1>a DEF TypeInv, TypeOK, Done, Pops, Goes, Steps
  <1>1. ASSUME NEW t \in Thread, NEW place \in Place, Finish(t, place) PROVE same
    <2>1. CASE \E allowed \in BOOLEAN : StoreRenewed(t, place, allowed)
      BY <2>1 DEF StoreRenewed, threadVars
    <2>2. CASE RecordPending(t, place) \/ NarrateWaiting(t, place)
      BY <1>a, <2>2 DEF RecordPending, NarrateWaiting, Steps
    <2>3. CASE EnrollSeat(t, place) \/ StoreSeat(t, place)
      BY <1>a, <2>3 DEF EnrollSeat, StoreSeat, Steps
    <2>4. CASE SessionExpired(t, place) \/ Arrive(t, place) \/ FinishFails(t, place)
      BY <1>a, <2>4 DEF SessionExpired, Arrive, FinishFails
    <2>5. QED
      BY <1>1, <2>1, <2>2, <2>3, <2>4 DEF Finish
  <1>2. ASSUME NEW m \in Caller, NEW place \in Place, CallerStep(m, place) PROVE same
    <2>1. m \in Thread
      BY DEF Thread
    <2>2. \/ Done(m)
          \/ \E flag \in BOOLEAN : Pops(m, flag)
          \/ \E step \in Steps \ {"draining"} : Goes(m, step)
      BY <1>2 DEF CallerStep, CheckBinding, CheckGrant, Touch, DiscoveryFails,
                  DropPending, Steps
    <2>3. QED
      BY <1>a, <2>1, <2>2
  <1>3. ASSUME NEW m \in Caller, NEW place \in Place, Connect(m, place) PROVE same
    BY <1>3 DEF Connect, Takes, TypeInv, TypeOK
  <1>4. ASSUME NEW r \in Resumer, Drain(r) \/ \E p \in queue[r] : ResumeNext(r, p)
        PROVE  same
    BY <1>4 DEF Drain, ResumeNext, Takes, TypeInv, TypeOK
  <1>5. ASSUME NEW r \in Resumer, NEW c \in Companion, NEW allowed \in BOOLEAN,
               Bind(r, c, allowed)
        PROVE  DrainsForOne'
    BY <1>5 DEF Bind, DrainsForOne, TypeInv, TypeOK
  <1>6. ASSUME \/ SweeperStep \/ UNCHANGED vars
               \/ \E p \in pendings : AgesOut(p)
               \/ \E c \in Companion : Unbind(c) \/ Delete(c)
               \/ \E c \in Companion, allowed \in BOOLEAN : SetGrant(c, allowed)
               \/ \E place \in Place : Forget(place)
        PROVE  same
    BY <1>6 DEF SweeperStep, Sweep, TellTimeout, AgesOut, Unbind, Delete, SetGrant,
                Forget, vars, threadVars
  <1> HIDE DEF same
  <1>7. QED
    BY <1>0, <1>1, <1>2, <1>3, <1>4, <1>5, <1>6 DEF Next, Proceed, OperatorStep

LEMMA BoardInvStep ==
  ASSUME TypeInv, Waits, BoardInv, [Next]_vars PROVE BoardInv'
  BY ToldStep, DrainsStep DEF BoardInv

-----------------------------------------------------------------------------
(* What WaitsOf makes of sets of waits.                                     *)

LEMMA WaitSeen ==
  ASSUME NEW p, NEW q, WaitOf(p) = WaitOf(q)
  PROVE  p.ticket = q.ticket /\ p.place = q.place
  <1>1. /\ WaitOf(p).ticket = p.ticket /\ WaitOf(p).place = p.place
        /\ WaitOf(q).ticket = q.ticket /\ WaitOf(q).place = q.place
    BY DEF WaitOf
  <1>2. QED
    BY <1>1

LEMMA WaitTyped ==
  ASSUME NEW p \in Pending
  PROVE  WaitOf(p) \in B!Wait /\ p.place \in B!Place
  BY DEF Pending, WaitOf, Place, B!Wait, B!Place

LEMMA WaitsPlus ==
  ASSUME NEW S, NEW T PROVE WaitsOf(S \cup T) = WaitsOf(S) \cup WaitsOf(T)
  BY DEF WaitsOf

LEMMA WaitsOne ==
  ASSUME NEW p PROVE WaitsOf({p}) = {WaitOf(p)}
  BY DEF WaitsOf

LEMMA WaitsMinus ==
  ASSUME NEW S, NEW T, \A p \in S, q \in T : p.ticket = q.ticket => p = q
  PROVE  WaitsOf(S \ T) = WaitsOf(S) \ WaitsOf(T)
  <1>1. \A p \in S, q \in T : WaitOf(p) = WaitOf(q) => p = q
    BY WaitSeen
  <1>2. QED
    BY <1>1 DEF WaitsOf

LEMMA WaitGone ==
  ASSUME NEW S, NEW p, \A q \in S : q.ticket = p.ticket => q = p
  PROVE  WaitsOf(S \ {p}) = WaitsOf(S) \ {WaitOf(p)}
  <1>1. WaitsOf(S \ {p}) = WaitsOf(S) \ WaitsOf({p})
    BY WaitsMinus
  <1>2. QED
    BY <1>1, WaitsOne

LEMMA WaitJoins ==
  ASSUME NEW S, NEW p
  PROVE  WaitsOf(S \cup {p}) = WaitsOf(S) \cup {WaitOf(p)}
  <1>1. WaitsOf(S \cup {p}) = WaitsOf(S) \cup WaitsOf({p})
    BY WaitsPlus
  <1>2. QED
    BY <1>1, WaitsOne

LEMMA WaitsAt ==
  ASSUME NEW S, NEW place
  PROVE  WaitsOf({p \in S : p.place = place}) = B!At(WaitsOf(S), place)
  <1>1. \A p : WaitOf(p).place = p.place
    BY DEF WaitOf
  <1>2. QED
    BY <1>1 DEF WaitsOf, B!At

LEMMA WaitsOfOne ==
  ASSUME NEW S, NEW c
  PROVE  WaitsOf({p \in S : Of(p.place) = c}) = B!Of(WaitsOf(S), c)
  <1>1. \A p : WaitOf(p).place = p.place
    BY DEF WaitOf
  <1>2. QED
    BY <1>1 DEF WaitsOf, Of, B!Of

(* The waits in the list that are told by their places.                     *)
LEMMA PlaceLeaves ==
  ASSUME Waits, NEW S, S \subseteq pendings, NEW place
  PROVE  WaitsOf(S \ PendingsAt(place)) = WaitsOf(S) \ B!At(WaitsOf(S), place)
  <1> DEFINE T == {p \in S : p.place = place}
  <1>1. S \ PendingsAt(place) = S \ T
    BY DEF PendingsAt
  <1>2. \A p \in S, q \in T : p.ticket = q.ticket => p = q
    BY DEF Waits, TicketsUnique
  <1>3. WaitsOf(T) = B!At(WaitsOf(S), place)
    BY WaitsAt
  <1> HIDE DEF T
  <1>4. QED
    BY <1>1, <1>2, <1>3, WaitsMinus

-----------------------------------------------------------------------------
(* Each step, as one of the board's.                                        *)

Fresh == pendings \ Aged
Resuming == UNION {queue[t] : t \in Thread}

BoardVars == <<tickets, WaitsOf(Fresh), WaitsOf(Aged), WaitsOf(expired),
               WaitsOf(Resuming)>>

LEMMA BoardSame ==
  ASSUME UNCHANGED <<pendings, tickets, expired, queue>>
  PROVE  UNCHANGED BoardVars
  BY DEF BoardVars, Fresh, Aged, Resuming, WaitsOf

LEMMA ResumingSame ==
  ASSUME UNCHANGED queue PROVE Resuming' = Resuming
  BY DEF Resuming

LEMMA BoardSeen ==
  /\ [B!Next]_BoardVars <=> [B!Next]_B!vars
  /\ UNCHANGED BoardVars <=> UNCHANGED B!vars
  BY DEF BoardVars, Fresh, Resuming, B!vars

LEMMA BoardInit == Init => B!Init
  BY DEF Init, B!Init, WaitsOf, Aged

LEMMA BoardRecord ==
  ASSUME TypeInv, Waits, NEW t \in Thread, NEW place \in Place,
         RecordPending(t, place)
  PROVE  B!Record(place)
  <1> DEFINE pending == [place |-> place, ticket |-> tickets + 1, by |-> t,
                         missing |-> missing[t], old |-> FALSE]
  <1>1. /\ pendings' = (pendings \ PendingsAt(place)) \cup {pending}
        /\ tickets' = tickets + 1 /\ UNCHANGED <<expired, queue>>
    BY DEF RecordPending, Recorded, Goes
  <1>2. ~pending.old /\ pending.place = place /\ pending.ticket = tickets + 1
    OBVIOUS
  <1> HIDE DEF pending
  <1>3. WaitOf(pending) = [ticket |-> tickets + 1, place |-> place]
    BY <1>2 DEF WaitOf
  <1>4. /\ Fresh' = (Fresh \ PendingsAt(place)) \cup {pending}
        /\ Aged' = Aged \ PendingsAt(place)
    BY <1>1, <1>2 DEF Fresh, Aged
  <1>5. /\ WaitsOf(Fresh \ PendingsAt(place)) =
             WaitsOf(Fresh) \ B!At(WaitsOf(Fresh), place)
        /\ WaitsOf(Aged \ PendingsAt(place)) =
             WaitsOf(Aged) \ B!At(WaitsOf(Aged), place)
    BY PlaceLeaves DEF Fresh, Aged
  <1>6. WaitsOf(Fresh') = (WaitsOf(Fresh) \ B!At(WaitsOf(Fresh), place))
                            \cup {[ticket |-> tickets + 1, place |-> place]}
    <2>1. WaitsOf(Fresh') = WaitsOf(Fresh \ PendingsAt(place)) \cup {WaitOf(pending)}
      BY <1>4, WaitJoins
    <2>2. QED
      BY <1>3, <1>5, <2>1
  <1>7. UNCHANGED <<WaitsOf(expired), WaitsOf(Resuming)>>
    BY <1>1, ResumingSame DEF WaitsOf
  <1>8. QED
    BY <1>1, <1>4, <1>5, <1>6, <1>7 DEF B!Record, Fresh, Resuming, WaitsOf

LEMMA BoardTouch ==
  ASSUME TypeInv, Waits, NEW m \in Caller, NEW place \in Place, Touch(m, place)
  PROVE  B!Touch(place)
  <1> DEFINE there == {p \in Aged : p.place = place}
             young(p) == [p EXCEPT !.old = FALSE]
  <1>1. /\ pendings' = {IF p.place = place THEN young(p) ELSE p : p \in pendings}
        /\ UNCHANGED <<tickets, expired, queue>>
    BY DEF Touch, Goes
  <1>2. \A p \in pendings : /\ ~young(p).old /\ young(p).place = p.place
                            /\ WaitOf(young(p)) = WaitOf(p)
                            /\ (~p.old => young(p) = p)
    BY DEF TypeInv, TypeOK, Pending, WaitOf
  <1> HIDE DEF young
  <1>3. Aged' = Aged \ PendingsAt(place)
    BY <1>1, <1>2 DEF Aged, PendingsAt
  <1>4. Fresh' = Fresh \cup {young(p) : p \in there}
    BY <1>1, <1>2 DEF Fresh, Aged
  <1>5. WaitsOf({young(p) : p \in there}) = WaitsOf(there)
    BY <1>2 DEF WaitsOf, Aged
  <1>6. WaitsOf(there) = B!At(WaitsOf(Aged), place)
    BY WaitsAt
  <1> HIDE DEF there
  <1>7. /\ WaitsOf(Fresh') = WaitsOf(Fresh) \cup B!At(WaitsOf(Aged), place)
        /\ WaitsOf(Aged') = WaitsOf(Aged) \ B!At(WaitsOf(Aged), place)
    <2>1. WaitsOf(Fresh') = WaitsOf(Fresh) \cup WaitsOf({young(p) : p \in there})
      BY <1>4, WaitsPlus
    <2>2. WaitsOf(Aged \ PendingsAt(place)) =
            WaitsOf(Aged) \ B!At(WaitsOf(Aged), place)
      BY PlaceLeaves DEF Aged
    <2>3. QED
      BY <1>3, <1>5, <1>6, <2>1, <2>2
  <1>8. UNCHANGED <<WaitsOf(expired), WaitsOf(Resuming)>>
    BY <1>1, ResumingSame DEF WaitsOf
  <1>9. QED
    BY <1>1, <1>7, <1>8 DEF B!Touch, Fresh, Resuming, WaitsOf

LEMMA BoardWithdraw ==
  ASSUME TypeInv, Waits, NEW m \in Caller, NEW place \in Place,
         DropPending(m, place)
  PROVE  B!Withdraw(place)
  <1>1. /\ pendings' = pendings \ PendingsAt(place)
        /\ UNCHANGED <<tickets, expired, queue>>
    BY DEF DropPending, WaitDropped, Goes
  <1>2. Fresh' = Fresh \ PendingsAt(place) /\ Aged' = Aged \ PendingsAt(place)
    BY <1>1 DEF Fresh, Aged
  <1>3. /\ WaitsOf(Fresh') = WaitsOf(Fresh) \ B!At(WaitsOf(Fresh), place)
        /\ WaitsOf(Aged') = WaitsOf(Aged) \ B!At(WaitsOf(Aged), place)
    BY <1>2, PlaceLeaves DEF Fresh, Aged
  <1>4. UNCHANGED <<WaitsOf(expired), WaitsOf(Resuming)>>
    BY <1>1, ResumingSame DEF WaitsOf
  <1>5. QED
    BY <1>1, <1>3, <1>4 DEF B!Withdraw, Fresh, Resuming, WaitsOf

LEMMA BoardAge ==
  ASSUME TypeInv, Waits, NEW p \in pendings, AgesOut(p)
  PROVE  B!Age(WaitOf(p))
  <1> DEFINE late == [p EXCEPT !.old = TRUE]
  <1>1. /\ pendings' = (pendings \ {p}) \cup {late} /\ ~p.old
        /\ UNCHANGED <<tickets, expired, queue>>
    BY DEF AgesOut, threadVars
  <1>2. late.old /\ WaitOf(late) = WaitOf(p)
    BY DEF TypeInv, TypeOK, Pending, WaitOf
  <1> HIDE DEF late
  <1>3. Fresh' = Fresh \ {p} /\ Aged' = Aged \cup {late} /\ p \in Fresh
    BY <1>1, <1>2 DEF Fresh, Aged
  <1>4. \A q \in Fresh : q.ticket = p.ticket => q = p
    BY DEF Waits, TicketsUnique, Fresh
  <1>5. WaitsOf(Fresh') = WaitsOf(Fresh) \ {WaitOf(p)}
    BY <1>3, <1>4, WaitGone
  <1>6. WaitsOf(Aged') = WaitsOf(Aged) \cup {WaitOf(p)}
    BY <1>2, <1>3, WaitJoins
  <1>7. WaitOf(p) \in WaitsOf(Fresh)
    BY <1>3 DEF WaitsOf
  <1>8. UNCHANGED <<WaitsOf(expired), WaitsOf(Resuming)>>
    BY <1>1, ResumingSame DEF WaitsOf
  <1>9. QED
    BY <1>1, <1>5, <1>6, <1>7, <1>8 DEF B!Age, Fresh, Resuming, WaitsOf

LEMMA BoardSweep ==
  ASSUME Sweep PROVE B!Sweep
  <1>1. /\ expired = {} /\ pendings' = pendings \ Aged /\ expired' = Aged
        /\ UNCHANGED <<tickets, queue>>
    BY DEF Sweep, Announced, threadVars
  <1>2. Aged' = {} /\ Fresh' = Fresh
    BY <1>1 DEF Aged, Fresh
  <1>3. Resuming' = Resuming
    BY <1>1, ResumingSame
  <1>4. WaitsOf({}) = {}
    BY DEF WaitsOf
  <1>5. QED
    BY <1>1, <1>2, <1>3, <1>4 DEF B!Sweep, Fresh, Resuming, WaitsOf

LEMMA BoardAnnounce ==
  ASSUME BoardInv, NEW p \in expired, TellTimeout(p)
  PROVE  B!Announce(WaitOf(p))
  <1>1. expired' = expired \ {p} /\ UNCHANGED <<tickets, pendings, queue>>
    BY DEF TellTimeout, threadVars
  <1>2. WaitsOf(expired \ {p}) = WaitsOf(expired) \ {WaitOf(p)}
    BY WaitGone DEF BoardInv, TicketsTold
  <1>3. WaitOf(p) \in WaitsOf(expired)
    BY DEF WaitsOf
  <1>4. UNCHANGED <<Fresh, Aged, Resuming>>
    BY <1>1, ResumingSame DEF Fresh, Aged
  <1>5. QED
    BY <1>1, <1>2, <1>3, <1>4 DEF B!Announce, Fresh, Resuming, WaitsOf

LEMMA BoardResume ==
  ASSUME TypeInv, Waits, NEW r \in Resumer, NEW c \in Companion,
         bound[r] = {c}, Drain(r)
  PROVE  B!Resume(c)
  <1> DEFINE due == {p \in Fresh : Of(p.place) = c}
  <1>0. r \in Thread
    BY DEF Thread
  <1>1. Due(r) = due
    BY DEF Due, Fresh, Aged
  <1>2. /\ pendings' = pendings \ due /\ queue' = [queue EXCEPT ![r] = due]
        /\ UNCHANGED <<tickets, expired>> /\ pc[r] = "draining"
    BY <1>1 DEF Drain, WaitsWithout
  <1>3. WaitsOf(due) = B!Of(WaitsOf(Fresh), c)
    BY WaitsOfOne
  <1>4. due \subseteq Fresh
    OBVIOUS
  <1> HIDE DEF due
  <1>5. Fresh' = Fresh \ due /\ Aged' = Aged
    BY <1>2, <1>4 DEF Fresh, Aged
  <1>6. queue[r] = {} /\ \A u \in Thread : queue'[u] = IF u = r THEN due ELSE queue[u]
    BY <1>0, <1>2 DEF TypeInv, TypeOK, QueuesOwned
  <1>7. Resuming' = Resuming \cup due
    BY <1>0, <1>6 DEF Resuming
  <1>8. \A p \in Fresh, q \in due : p.ticket = q.ticket => p = q
    BY <1>4 DEF Waits, TicketsUnique, Fresh
  <1>9. /\ WaitsOf(Fresh') = WaitsOf(Fresh) \ B!Of(WaitsOf(Fresh), c)
        /\ WaitsOf(Resuming') = WaitsOf(Resuming) \cup B!Of(WaitsOf(Fresh), c)
    BY <1>3, <1>5, <1>7, <1>8, WaitsMinus, WaitsPlus
  <1>10. QED
    BY <1>2, <1>5, <1>9 DEF B!Resume, Fresh, Resuming, WaitsOf

LEMMA BoardFinish ==
  ASSUME TypeInv, Waits, BoardInv, NEW r \in Resumer, NEW p \in queue[r],
         ResumeNext(r, p)
  PROVE  B!Finish(WaitOf(p))
  <1>0. r \in Thread /\ p \in Resuming
    BY DEF Thread, Resuming
  <1>1. /\ queue' = [queue EXCEPT ![r] = @ \ {p}]
        /\ UNCHANGED <<pendings, tickets, expired>>
    BY DEF ResumeNext, pendingVars
  <1>2. \A u \in Thread : queue'[u] = IF u = r THEN queue[r] \ {p} ELSE queue[u]
    BY <1>0, <1>1 DEF TypeInv, TypeOK
  <1>3. \A q \in Resuming : q.ticket = p.ticket => q = p
    BY <1>0 DEF Resuming, Waits, TicketsUnique, BoardInv, TicketsTold
  <1>4. \A u \in Thread : u # r => p \notin queue[u]
    BY <1>0 DEF Waits, TicketsUnique
  <1>5. Resuming' = Resuming \ {p}
    BY <1>0, <1>2, <1>4 DEF Resuming
  <1>6. WaitsOf(Resuming') = WaitsOf(Resuming) \ {WaitOf(p)}
    BY <1>3, <1>5, WaitGone
  <1>7. WaitOf(p) \in WaitsOf(Resuming)
    BY <1>0 DEF WaitsOf
  <1>8. UNCHANGED <<Fresh, Aged>>
    BY <1>1 DEF Fresh, Aged
  <1>9. QED
    BY <1>1, <1>6, <1>7, <1>8 DEF B!Finish, Fresh, Resuming, WaitsOf

LEMMA BoardStep ==
  ASSUME TypeInv, Waits, BoardInv, [Next]_vars
  PROVE  [B!Next]_B!vars
  <1> DEFINE kept == UNCHANGED <<pendings, tickets, expired, queue>>
  <1>0. kept => UNCHANGED B!vars
    BY BoardSame, BoardSeen
  <1>a. \A place \in Place : place \in B!Place
    BY DEF Place, B!Place
  <1>b. \A p \in pendings \cup expired : WaitOf(p) \in B!Wait
    BY WaitTyped DEF TypeInv, TypeOK
  <1>1. ASSUME NEW t \in Thread, NEW place \in Place, Finish(t, place)
        PROVE  B!Next \/ kept
    <2>1. RecordPending(t, place) \/ kept
      BY <1>1 DEF Finish, NarrateWaiting, EnrollSeat, SessionExpired, StoreRenewed,
                  StoreSeat, Arrive, FinishFails, Done, Goes, Pops, pendingVars,
                  threadVars
    <2>2. QED
      BY <1>a, <2>1, BoardRecord DEF B!Next
  <1>2. ASSUME NEW m \in Caller, NEW place \in Place, CallerStep(m, place)
        PROVE  B!Next \/ kept
    <2>1. CASE Touch(m, place)
      BY <1>a, <2>1, BoardTouch DEF B!Next
    <2>2. CASE DropPending(m, place)
      BY <1>a, <2>2, BoardWithdraw DEF B!Next
    <2>3. CASE CheckBinding(m, place) \/ CheckGrant(m, place) \/ DiscoveryFails(m, place)
      BY <2>3 DEF CheckBinding, CheckGrant, DiscoveryFails, Done, Goes, Pops,
                  pendingVars
    <2>4. QED
      BY <1>2, <2>1, <2>2, <2>3 DEF CallerStep
  <1>3. ASSUME NEW r \in Resumer, Drain(r) PROVE B!Next
    <2>1. PICK c \in Companion : bound[r] = {c}
      BY <1>3 DEF Drain, BoardInv, DrainsForOne, Thread
    <2>2. QED
      BY <1>3, <2>1, BoardResume DEF B!Next
  <1>4. ASSUME NEW r \in Resumer, NEW p \in queue[r], ResumeNext(r, p) PROVE B!Next
    <2>1. p \in Pending
      BY DEF TypeInv, TypeOK, Thread
    <2>2. QED
      BY <1>4, <2>1, WaitTyped, BoardFinish DEF B!Next
  <1>5. CASE Sweep
    BY <1>5, BoardSweep DEF B!Next
  <1>6. ASSUME NEW p \in expired, TellTimeout(p) PROVE B!Next
    BY <1>b, <1>6, BoardAnnounce DEF B!Next
  <1>7. ASSUME NEW p \in pendings, AgesOut(p) PROVE B!Next
    BY <1>b, <1>7, BoardAge DEF B!Next
  <1>8. ASSUME \/ OperatorStep \/ UNCHANGED vars
               \/ \E m \in Caller, place \in Place : Connect(m, place)
        PROVE  kept
    BY <1>8 DEF OperatorStep, Bind, Unbind, SetGrant, Forget, Delete, Connect, vars,
                pendingVars, threadVars
  <1> HIDE DEF kept
  <1>9. QED
    BY <1>0, <1>1, <1>2, <1>3, <1>4, <1>5, <1>6, <1>7, <1>8
    DEF Next, Proceed, SweeperStep

(* However callers, sign-ins and the sweeper interleave, every recorded     *)
(* wait goes the way WaitBoard gives it, once: withdrawn or replaced by a   *)
(* later connect, announced as timed out, or resumed.                       *)
THEOREM WaitsGoOneWay == Spec => WaitsGoOnce
  <1>1. TypeInv /\ Waits /\ BoardInv /\ [Next]_vars => [B!Next]_B!vars
    BY BoardStep
  <1>2. QED
    BY <1>1, TypeInit, TypeStep, WaitsInit, WaitsStep, BoardInvInit, BoardInvStep,
       BoardInit, PTL DEF Spec, WaitsGoOnce, B!Spec

=============================================================================
