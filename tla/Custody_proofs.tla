--------------------------- MODULE Custody_proofs ---------------------------
(* Theorems about Custody, for every value of its constants.               *)
EXTENDS Custody, TLAPS

(* What a thread has learned by the time it reaches a step.                 *)
Learned ==
  /\ \A b \in Binder :
       /\ binder[b].pc \in {"exchanging", "storing"} => binder[b].state \in Grant
       /\ binder[b].pc = "storing" => binder[b].did \in Did
  /\ \A w \in Worker :
       /\ worker[w].pc # "idle" =>
            worker[w].companion \in Companion /\ worker[w].origin \in Origin
       /\ worker[w].pc \in {"refresh", "rotating", "renewed", "exchange"} =>
            worker[w].did \in Did
       /\ worker[w].pc \in {"rotating", "renewed", "exchange"} =>
            worker[w].account \in AccountSession

TypeInv == TypeOK /\ Learned

-----------------------------------------------------------------------------
LEMMA TypeInit == Init => TypeInv
  BY LimitsAssumption
  DEF Init, TypeInv, TypeOK, Learned, BinderState, WorkerState, IdleBinder,
      IdleWorker, Target

LEMMA CappedSubset ==
  ASSUME NEW S PROVE Capped(S) \subseteq S
  BY DEF Capped

LEMMA SignedInType ==
  ASSUME TypeInv, NEW b \in Binder, binder[b].pc = "storing"
  PROVE  SignedIn(b) \in AccountSession
  BY DEF TypeInv, TypeOK, Learned, BinderState, SignedIn, AccountSession

LEMMA StoreType ==
  ASSUME TypeInv, NEW c \in Companion, NEW session \in AccountSession,
         StoreAccount(c, session) \/ UNCHANGED <<bound, account>>
  PROVE  /\ bound' \in [Companion -> Did \cup {None}]
         /\ account' \in [Companion -> AccountSession \cup {None}]
  <1>1. session.did \in Did
    BY DEF AccountSession
  <1>2. QED
    BY <1>1 DEF TypeInv, TypeOK, StoreAccount

LEMMA TypeBinder ==
  ASSUME TypeInv, NEW b \in Binder, BinderStep(b)
  PROVE  TypeInv'
  <1> USE LimitsAssumption, ServiceAssumption, SentinelAssumption
      DEF TypeInv, TypeOK, Learned, Grant, Target, Flight, BinderState,
          IdleBinder, AccountSession, storeVars, serverVars
  <1>1. ASSUME NEW target \in Target, NEW declared \in Did \cup {None},
               BeginBind(b, target, declared)
        PROVE  TypeInv'
    BY <1>1 DEF BeginBind
  <1>2. CASE ParkFlight(b)
    <2> DEFINE flight == [state |-> started + 1, target |-> binder[b].target,
                          declared |-> binder[b].declared, old |-> FALSE]
    <2>1. flight \in Flight /\ started' \in 0..MaxSignIns
      BY <1>2 DEF ParkFlight
    <2>2. flights' \subseteq KeptFlights(binder[b].target) \cup {flight}
      BY <1>2, CappedSubset DEF ParkFlight
    <2>3. flights' \subseteq Flight
      BY <2>1, <2>2 DEF KeptFlights
    <2> HIDE DEF flight
    <2>4. QED
      BY <1>2, <2>1, <2>3 DEF ParkFlight
  <1>3. ASSUME NEW f \in flights, TakeFlight(b, f)
        PROVE  TypeInv'
    BY <1>3 DEF TakeFlight, FlightsWithout
  <1>4. CASE StartFails(b)
    BY <1>4 DEF StartFails
  <1>5. CASE CallbackFails(b)
    BY <1>5 DEF CallbackFails
  <1>6. ASSUME NEW d \in Did, CheckOwner(b, d)
        PROVE  TypeInv'
    <2> DEFINE carried == IF binder[b].target \in companions
                               /\ account[binder[b].target] # None
                            THEN account[binder[b].target].services
                            ELSE DefaultServices
               checked == [pc |-> "storing", target |-> binder[b].target,
                           declared |-> binder[b].declared,
                           state |-> binder[b].state, did |-> d,
                           services |-> carried]
    <2>1. carried \in SUBSET Catalog
      BY DEF DefaultServices
    <2>2. binder' = [binder EXCEPT ![b] = checked]
            \/ binder' = [binder EXCEPT ![b] = IdleBinder]
      BY <1>6 DEF CheckOwner
    <2>3. binder[b].state \in Grant
      BY <1>6 DEF CheckOwner
    <2> HIDE DEF carried
    <2>4. checked \in BinderState /\ checked.state = binder[b].state
            /\ checked.did = d
      BY <2>1, <2>3
    <2> HIDE DEF checked
    <2>5. QED
      BY <1>6, <2>2, <2>3, <2>4 DEF CheckOwner
  <1>7. CASE BindExisting(b)
    <2>1. SignedIn(b) \in AccountSession /\ SignedIn(b).did \in Did
      BY <1>7, SignedInType DEF BindExisting
    <2>2. binder[b].target \in Companion
      BY <1>7 DEF BindExisting
    <2>3. /\ bound' \in [Companion -> Did \cup {None}]
          /\ account' \in [Companion -> AccountSession \cup {None}]
      BY <1>7, <2>1, <2>2, StoreType DEF BindExisting, StoreAtprotoSession
    <2>4. QED
      BY <1>7, <2>3 DEF BindExisting
  <1>8. ASSUME NEW c \in Companion, BindNew(b, c)
        PROVE  TypeInv'
    <2>1. SignedIn(b) \in AccountSession /\ SignedIn(b).did \in Did
      BY <1>8, SignedInType DEF BindNew
    <2>2. /\ bound' \in [Companion -> Did \cup {None}]
          /\ account' \in [Companion -> AccountSession \cup {None}]
      BY <1>8, <2>1, StoreType DEF BindNew
    <2>3. QED
      BY <1>8, <2>2 DEF BindNew
  <1>9. QED
    BY <1>1, <1>2, <1>3, <1>4, <1>5, <1>6, <1>7, <1>8 DEF BinderStep

LEMMA WithoutType ==
  ASSUME TypeInv, NEW gone
  PROVE  Without(gone) \in [EnrollmentId -> Did \cup {None}]
  BY DEF TypeInv, TypeOK, Without

LEMMA TypeOperator ==
  ASSUME TypeInv, OperatorStep \/ ClockStep
  PROVE  TypeInv'
  <1> USE LimitsAssumption, WithoutType
      DEF TypeInv, TypeOK, Learned, RemoveEnrollments, signInVars, serverVars,
          storeVars
  <1>1. ASSUME NEW c \in Companion, Unbind(c)
        PROVE  TypeInv'
    BY <1>1 DEF Unbind, AccountCleared
  <1>2. ASSUME NEW c \in Companion, NEW services \in SUBSET Catalog,
               SetServices(c, services)
        PROVE  TypeInv'
    <2>1. [account[c] EXCEPT !.services = services] \in AccountSession
      BY <1>2 DEF SetServices, AccountSession
    <2>2. QED
      BY <1>2, <2>1 DEF SetServices
  <1>3. ASSUME NEW e \in enrollments, Forget(e)
        PROVE  TypeInv'
    BY <1>3 DEF Forget
  <1>4. ASSUME NEW c \in Companion, NEW cascade \in BOOLEAN, Delete(c, cascade)
        PROVE  TypeInv'
    BY <1>4 DEF Delete, AccountCleared
  <1>5. ASSUME NEW f \in flights, FlightAges(f)
        PROVE  TypeInv'
    <2>1. [f EXCEPT !.old = TRUE] \in Flight
      BY DEF Flight
    <2>2. QED
      BY <1>5, <2>1 DEF FlightAges
  <1>6. ASSUME NEW c \in Companion, AccessTokenAges(c)
        PROVE  TypeInv'
    <2>1. [account[c] EXCEPT !.stale = TRUE] \in AccountSession
      BY <1>6 DEF AccessTokenAges, AccountSession
    <2>2. QED
      BY <1>6, <2>1 DEF AccessTokenAges
  <1>7. QED
    BY <1>1, <1>2, <1>3, <1>4, <1>5, <1>6 DEF OperatorStep, ClockStep

(* A worker's job may become any job that has learned what it needs.        *)
JobOK(j) ==
  /\ j \in WorkerState
  /\ j.pc # "idle" => j.companion \in Companion /\ j.origin \in Origin
  /\ j.pc \in {"refresh", "rotating", "renewed", "exchange"} => j.did \in Did
  /\ j.pc \in {"rotating", "renewed", "exchange"} => j.account \in AccountSession

LEMMA IdleJob == JobOK(IdleWorker)
  BY DEF JobOK, IdleWorker, WorkerState

LEMMA JobHeld ==
  ASSUME TypeInv, NEW w \in Worker PROVE JobOK(worker[w])
  BY DEF TypeInv, TypeOK, Learned, JobOK

LEMMA JobChange ==
  ASSUME TypeInv, NEW w \in Worker, NEW j, JobOK(j),
         worker' = [worker EXCEPT ![w] = j], UNCHANGED binder
  PROVE  worker' \in [Worker -> WorkerState] /\ Learned'
  BY DEF TypeInv, TypeOK, Learned, JobOK

LEMMA RenewedType ==
  ASSUME NEW session \in AccountSession, NEW token \in Nat
  PROVE  Renewed(session, token) \in AccountSession
  BY DEF AccountSession, Renewed

LEMMA TypeWorker ==
  ASSUME TypeInv, NEW w \in Worker, WorkerStep(w)
  PROVE  TypeInv'
  <1> DEFINE job == worker[w]
             Rest == /\ companions \subseteq born
                     /\ born \subseteq Companion
                     /\ bound \in [Companion -> Did \cup {None}]
                     /\ account \in [Companion -> AccountSession \cup {None}]
                     /\ flights \subseteq Flight
                     /\ started \in 0..MaxSignIns
                     /\ rotation \in [Grant -> Nat]
                     /\ lost \subseteq Grant
                     /\ enrollments \subseteq Enrollment
                     /\ sessions \in [EnrollmentId -> Did \cup {None}]
                     /\ issued \in 0..MaxEnrollments
                     /\ binder \in [Binder -> BinderState]
  <1>a. Rest /\ JobOK(job)
    BY JobHeld DEF TypeInv, TypeOK
  <1>b. ASSUME NEW j, JobOK(j), worker' = [worker EXCEPT ![w] = j],
               UNCHANGED binder, Rest'
        PROVE  TypeInv'
    BY <1>b, JobChange DEF TypeInv, TypeOK
  <1> USE DEF storeVars, signInVars, serverVars
  <1>1. ASSUME NEW c \in Companion, NEW o \in Origin, ConnectEnroll(w, c, o)
        PROVE  TypeInv'
    <2> DEFINE fresh == [IdleWorker EXCEPT
                 !.pc = "enroll", !.companion = c, !.origin = o]
               Broken(e) == [IdleWorker EXCEPT
                 !.pc = "forgetting", !.companion = c, !.origin = o,
                 !.broken = e.id]
    <2>1. Rest' /\ UNCHANGED binder
      BY <1>a, <1>1 DEF ConnectEnroll
    <2>2. JobOK(fresh)
      BY DEF JobOK, IdleWorker, WorkerState
    <2>3. ASSUME NEW e \in EnrollmentsAt(c, o) PROVE JobOK(Broken(e))
      <3>1. e.id \in EnrollmentId
        BY <1>a DEF EnrollmentsAt, Enrollment
      <3>2. QED
        BY <3>1 DEF JobOK, IdleWorker, WorkerState
    <2>4. \/ worker' = [worker EXCEPT ![w] = fresh]
          \/ \E e \in EnrollmentsAt(c, o) :
               worker' = [worker EXCEPT ![w] = Broken(e)]
      BY <1>1 DEF ConnectEnroll
    <2> HIDE DEF fresh, Broken, Rest
    <2>5. QED
      BY <1>b, <2>1, <2>2, <2>3, <2>4
  <1>2. CASE ForgetBroken(w)
    <2>1. Rest' /\ UNCHANGED binder
      BY <1>a, <1>2, WithoutType DEF ForgetBroken, RemoveEnrollments
    <2>2. worker' = [worker EXCEPT ![w] = [job EXCEPT !.pc = "enroll",
                                                      !.broken = 0]]
      BY <1>2 DEF ForgetBroken, TypeInv, TypeOK
    <2>3. JobOK([job EXCEPT !.pc = "enroll", !.broken = 0])
      BY <1>a, <1>2 DEF JobOK, WorkerState, ForgetBroken
    <2>4. QED
      BY <1>b, <2>1, <2>2, <2>3
  <1>3. CASE CheckEnroll(w)
    <2> DEFINE checked == [job EXCEPT !.pc = "refresh",
                                      !.did = bound[job.companion]]
    <2>1. Rest' /\ UNCHANGED binder
      BY <1>a, <1>3 DEF CheckEnroll
    <2>2. CASE Enrollable(job.companion, job.origin)
      <3>1. bound[job.companion] \in Did
        BY <1>a, <1>3, <2>2
        DEF CheckEnroll, Enrollable, JobOK, AccountSession
      <3>2. JobOK(checked)
        BY <1>a, <1>3, <3>1 DEF JobOK, WorkerState, CheckEnroll
      <3>3. QED
        BY <1>b, <1>3, <2>1, <2>2, <3>2 DEF CheckEnroll
    <2>3. CASE ~Enrollable(job.companion, job.origin)
      BY <1>b, <1>3, <2>1, <2>3, IdleJob DEF CheckEnroll
    <2>4. QED
      BY <2>2, <2>3
  <1>4. CASE ReadSession(w)
    <2> DEFINE session == account[job.companion]
               next == IF session.stale THEN "rotating" ELSE "exchange"
    <2>1. Rest' /\ UNCHANGED binder
      BY <1>a, <1>4 DEF ReadSession
    <2>2. CASE session = None
      BY <1>b, <1>4, <2>1, <2>2, IdleJob DEF ReadSession
    <2>3. CASE session # None
      <3>1. session \in AccountSession
        BY <1>a, <1>4, <2>3 DEF ReadSession, JobOK
      <3>2. next \in {"rotating", "exchange"}
        OBVIOUS
      <3>3. worker' = [worker EXCEPT ![w] = [job EXCEPT !.account = session,
                                                        !.pc = next]]
        BY <1>4, <2>3 DEF ReadSession
      <3> HIDE DEF next
      <3>4. JobOK([job EXCEPT !.account = session, !.pc = next])
        BY <1>a, <1>4, <3>1, <3>2 DEF JobOK, WorkerState, ReadSession
      <3>5. QED
        BY <1>b, <2>1, <3>3, <3>4
    <2>4. QED
      BY <2>2, <2>3
  <1>5. CASE RefreshAnswered(w)
    <2>a. job.account \in AccountSession /\ job.account.token \in Nat
      BY <1>a, <1>5 DEF RefreshAnswered, JobOK, AccountSession
    <2>1. PICK token \in {job.account.token, job.account.token + 1} :
            /\ Rotates(job.account, token)
            /\ worker' = [worker EXCEPT ![w] = [job EXCEPT !.pc = "renewed",
                                 !.account = Renewed(job.account, token)]]
      BY <1>5 DEF RefreshAnswered
    <2>2. token \in Nat
      BY <2>a
    <2>b. rotation' \in [Grant -> Nat]
      BY <1>a, <2>a, <2>1, <2>2 DEF Rotates, AccountSession
    <2>3. Rest' /\ UNCHANGED binder
      BY <1>a, <1>5, <2>b DEF RefreshAnswered
    <2> DEFINE session == Renewed(job.account, token)
    <2>4. session \in AccountSession
      BY <2>a, <2>2, RenewedType
    <2> HIDE DEF session
    <2>5. JobOK([job EXCEPT !.pc = "renewed", !.account = session])
      BY <1>a, <1>5, <2>4 DEF JobOK, WorkerState, RefreshAnswered
    <2> USE DEF session
    <2>6. QED
      BY <1>b, <2>1, <2>3, <2>5
  <1>6. CASE RefreshFails(w)
    <2>1. job.account.grant \in Grant
      BY <1>a, <1>6 DEF RefreshFails, AccountSession, JobOK
    <2>2. Rest' /\ UNCHANGED binder
      BY <1>a, <1>6, <2>1 DEF RefreshFails, Rotates
    <2>3. QED
      BY <1>b, <1>6, <2>2, IdleJob DEF RefreshFails
  <1>7. CASE StoreRenewed(w)
    <2>1. /\ bound' \in [Companion -> Did \cup {None}]
          /\ account' \in [Companion -> AccountSession \cup {None}]
      BY <1>a, <1>7, StoreType DEF StoreRenewed, StoreAtprotoSession, JobOK
    <2>2. Rest' /\ UNCHANGED binder
      BY <1>a, <1>7, <2>1 DEF StoreRenewed
    <2>3. worker' = [worker EXCEPT ![w] = [job EXCEPT !.pc = "exchange"]]
      BY <1>7 DEF StoreRenewed
    <2>4. JobOK([job EXCEPT !.pc = "exchange"])
      BY <1>a, <1>7 DEF JobOK, WorkerState, StoreRenewed
    <2>5. QED
      BY <1>b, <2>2, <2>3, <2>4
  <1>8. CASE ExchangeFails(w)
    <2>1. Rest' /\ UNCHANGED binder
      BY <1>a, <1>8 DEF ExchangeFails
    <2>2. QED
      BY <1>b, <1>8, <2>1, IdleJob DEF ExchangeFails
  <1>9. CASE StoreEnrollment(w)
    <2> DEFINE there == EnrollmentsAt(job.companion, job.origin)
               entry == [id |-> issued + 1, companion |-> job.companion,
                         origin |-> job.origin, did |-> job.did]
    <2>1. Rest' /\ UNCHANGED binder
      <3>1. CASE Occupied(there)
        BY <1>a, <1>9, <3>1 DEF StoreEnrollment
      <3>2. CASE ~Occupied(there)
        <4>1. issued' \in 0..MaxEnrollments
          BY <1>a, <1>9, <3>2, LimitsAssumption DEF StoreEnrollment
        <4>2. entry \in Enrollment /\ entry.id \in EnrollmentId
          BY <1>a, <1>9, <3>2, LimitsAssumption
          DEF StoreEnrollment, Enrollment, EnrollmentId, JobOK
        <4>3. enrollments' \subseteq Enrollment
          BY <1>a, <1>9, <3>2, <4>2 DEF StoreEnrollment, RecordsWithout
        <4>4. job.account.did \in Did
          BY <1>a, <1>9 DEF StoreEnrollment, AccountSession, JobOK
        <4>5. sessions' = [Without(there) EXCEPT ![entry.id] = job.account.did]
          BY <1>9, <3>2 DEF StoreEnrollment
        <4> HIDE DEF entry, there
        <4>6. sessions' \in [EnrollmentId -> Did \cup {None}]
          BY <4>2, <4>4, <4>5, WithoutType
        <4>7. QED
          BY <1>a, <1>9, <4>1, <4>3, <4>6 DEF StoreEnrollment
      <3>3. QED
        BY <3>1, <3>2
    <2>2. QED
      BY <1>b, <1>9, <2>1, IdleJob DEF StoreEnrollment
  <1>10. QED
    BY <1>1, <1>2, <1>3, <1>4, <1>5, <1>6, <1>7, <1>8, <1>9
    DEF WorkerStep, Prepare

-----------------------------------------------------------------------------
LEMMA TypeStep ==
  ASSUME TypeInv, [Next]_vars PROVE TypeInv'
  <1>1. CASE UNCHANGED vars
    BY <1>1 DEF vars, storeVars, signInVars, serverVars, TypeInv, TypeOK,
                Learned
  <1>2. CASE Restart
    <2>1. {worker[w].account.grant : w \in Unstored} \subseteq Grant
      BY DEF Unstored, TypeInv, Learned, AccountSession
    <2>2. QED
      BY <1>2, <2>1, LimitsAssumption
      DEF Restart, storeVars, TypeInv, TypeOK, Learned, BinderState, WorkerState,
          IdleBinder, IdleWorker, Target
  <1>3. QED
    BY <1>1, <1>2, TypeBinder, TypeOperator, TypeWorker DEF Next

(* Every reachable state has the shape TypeOK gives it, and a thread that   *)
(* reaches a step has learned what the step uses.                           *)
THEOREM TypeCorrect == Spec => []TypeInv
  BY TypeInit, TypeStep, PTL DEF Spec

(* The shape of the state, as the run's invariant states it.                *)
THEOREM TypeSafe == Spec => []TypeOK
  <1>1. TypeInv => TypeOK
    BY DEF TypeInv
  <1>2. QED
    BY <1>1, TypeCorrect, PTL

(* Parking replaces the companion's earlier sign-in, taking only removes    *)
(* one, and ageing keeps its target: an existing companion never has two.   *)
THEOREM OneFlight == Spec => []OneFlightPerCompanion
  <1>1. Init => OneFlightPerCompanion
    BY DEF Init, OneFlightPerCompanion
  <1>2. ASSUME TypeInv, OneFlightPerCompanion, [Next]_vars
        PROVE  OneFlightPerCompanion'
    <2>1. ASSUME UNCHANGED flights PROVE OneFlightPerCompanion'
      BY <1>2, <2>1 DEF OneFlightPerCompanion
    <2>2. ASSUME NEW b \in Binder, BinderStep(b)
          PROVE  OneFlightPerCompanion'
      <3>1. CASE ParkFlight(b)
        <4> DEFINE target == binder[b].target
                   flight == [state |-> started + 1, target |-> target,
                              declared |-> binder[b].declared, old |-> FALSE]
        <4>1. flights' \subseteq KeptFlights(target) \cup {flight}
          BY <3>1, CappedSubset DEF ParkFlight
        <4>2. flight.target = target
          OBVIOUS
        <4>3. \A f \in KeptFlights(target) :
                f \in flights /\ (target = New \/ f.target # target)
          BY DEF KeptFlights
        <4> HIDE DEF flight, target
        <4>4. QED
          BY <1>2, <4>1, <4>2, <4>3 DEF OneFlightPerCompanion
      <3>2. ASSUME NEW f \in flights, TakeFlight(b, f)
            PROVE  OneFlightPerCompanion'
        BY <1>2, <3>2 DEF TakeFlight, FlightsWithout, OneFlightPerCompanion
      <3>3. QED
        BY <2>1, <2>2, <3>1, <3>2
        DEF BinderStep, BeginBind, StartFails, CallbackFails, CheckOwner,
            BindExisting, BindNew
    <2>3. ASSUME NEW f \in flights, FlightAges(f)
          PROVE  OneFlightPerCompanion'
      <3>1. [f EXCEPT !.old = TRUE].target = f.target
        BY <1>2 DEF TypeInv, TypeOK, Flight
      <3>2. QED
        BY <1>2, <2>3, <3>1 DEF FlightAges, OneFlightPerCompanion
    <2>4. CASE Restart
      BY <2>4 DEF Restart, OneFlightPerCompanion
    <2>5. QED
      BY <1>2, <2>1, <2>2, <2>3, <2>4
      DEF Next, OperatorStep, ClockStep, WorkerStep, Prepare, vars, storeVars,
          signInVars, serverVars, Unbind, SetServices, Forget, Delete,
          AccessTokenAges, ConnectEnroll, ForgetBroken, CheckEnroll,
          ReadSession, RefreshAnswered, RefreshFails, StoreRenewed,
          ExchangeFails, StoreEnrollment
  <1>3. QED
    BY <1>1, <1>2, TypeCorrect, PTL DEF Spec

-----------------------------------------------------------------------------
(* The account session of a companion, its mirror, and deletion.            *)
Mirrored == BoundMirrorsAccount /\ DeletedHoldsNothing

LEMMA MirroredStore ==
  ASSUME TypeInv, Mirrored, NEW c \in Companion, NEW session \in AccountSession,
         c \in companions', StoreAccount(c, session), companions \subseteq companions'
  PROVE  Mirrored'
  BY SessionAssumption
  DEF Mirrored, BoundMirrorsAccount, DeletedHoldsNothing, StoreAccount,
      TypeInv, TypeOK

LEMMA MirroredBinder ==
  ASSUME TypeInv, Mirrored, NEW b \in Binder, BinderStep(b)
  PROVE  Mirrored'
  <1> USE DEF storeVars
  <1>1. ASSUME UNCHANGED <<companions, bound, account>> PROVE Mirrored'
    BY <1>1 DEF Mirrored, BoundMirrorsAccount, DeletedHoldsNothing
  <1>2. CASE BindExisting(b)
    <2>1. SignedIn(b) \in AccountSession
      BY <1>2, SignedInType DEF BindExisting
    <2>2. binder[b].target \in Companion
      BY <1>2 DEF BindExisting, TypeInv, TypeOK, BinderState, Target
    <2>3. QED
      BY <1>1, <1>2, <2>1, <2>2, MirroredStore
      DEF BindExisting, StoreAtprotoSession
  <1>3. ASSUME NEW c \in Companion, BindNew(b, c)
        PROVE  Mirrored'
    BY <1>3, SignedInType, MirroredStore DEF BindNew
  <1>4. QED
    BY <1>1, <1>2, <1>3
    DEF BinderStep, BeginBind, ParkFlight, TakeFlight, StartFails, CallbackFails,
      CheckOwner

LEMMA MirroredOperator ==
  ASSUME TypeInv, Mirrored, OperatorStep \/ ClockStep
  PROVE  Mirrored'
  <1> USE SessionAssumption
      DEF TypeInv, TypeOK, Mirrored, BoundMirrorsAccount, DeletedHoldsNothing,
          storeVars
  <1>1. ASSUME NEW c \in Companion, Unbind(c)
        PROVE  Mirrored'
    BY <1>1 DEF Unbind, AccountCleared
  <1>2. ASSUME NEW c \in Companion, NEW changed,
               account[c] \in AccountSession, changed \in AccountSession,
               changed.did = account[c].did,
               account' = [account EXCEPT ![c] = changed],
               UNCHANGED <<companions, bound>>
        PROVE  Mirrored'
    BY <1>2
  <1>3. ASSUME NEW c \in Companion, NEW services \in SUBSET Catalog,
               SetServices(c, services)
        PROVE  Mirrored'
    <2> DEFINE changed == [account[c] EXCEPT !.services = services]
    <2>1. /\ account[c] \in AccountSession
          /\ changed \in AccountSession /\ changed.did = account[c].did
      BY <1>3 DEF SetServices, AccountSession
    <2>2. account' = [account EXCEPT ![c] = changed]
      BY <1>3 DEF SetServices
    <2> HIDE DEF changed
    <2>3. QED
      BY <1>2, <1>3, <2>1, <2>2 DEF SetServices
  <1>4. ASSUME NEW e \in enrollments, Forget(e)
        PROVE  Mirrored'
    BY <1>4 DEF Forget
  <1>5. ASSUME NEW c \in Companion, NEW cascade \in BOOLEAN, Delete(c, cascade)
        PROVE  Mirrored'
    BY <1>5 DEF Delete, AccountCleared
  <1>6. ASSUME NEW f \in flights, FlightAges(f)
        PROVE  Mirrored'
    BY <1>6 DEF FlightAges
  <1>7. ASSUME NEW c \in Companion, AccessTokenAges(c)
        PROVE  Mirrored'
    <2> DEFINE changed == [account[c] EXCEPT !.stale = TRUE]
    <2>1. /\ account[c] \in AccountSession
          /\ changed \in AccountSession /\ changed.did = account[c].did
      BY <1>7 DEF AccessTokenAges, AccountSession
    <2>2. account' = [account EXCEPT ![c] = changed]
      BY <1>7 DEF AccessTokenAges
    <2> HIDE DEF changed
    <2>3. QED
      BY <1>2, <1>7, <2>1, <2>2 DEF AccessTokenAges
  <1>8. QED
    BY <1>1, <1>3, <1>4, <1>5, <1>6, <1>7 DEF OperatorStep, ClockStep

LEMMA MirroredWorker ==
  ASSUME TypeInv, Mirrored, NEW w \in Worker, WorkerStep(w)
  PROVE  Mirrored'
  <1>1. ASSUME UNCHANGED <<companions, bound, account>> PROVE Mirrored'
    BY <1>1 DEF Mirrored, BoundMirrorsAccount, DeletedHoldsNothing
  <1>2. CASE StoreRenewed(w)
    <2>1. /\ worker[w].account \in AccountSession
          /\ worker[w].companion \in Companion
      BY <1>2 DEF StoreRenewed, TypeInv, Learned
    <2>2. QED
      BY <1>1, <1>2, <2>1, MirroredStore DEF StoreRenewed, StoreAtprotoSession
  <1>3. QED
    BY <1>1, <1>2
    DEF WorkerStep, Prepare, ConnectEnroll, ForgetBroken, CheckEnroll,
        ReadSession, RefreshAnswered, RefreshFails, ExchangeFails,
        StoreEnrollment, storeVars

(* A companion's account session and its bound_did say the same, and a      *)
(* deleted companion has neither, through every chain of binds, refreshes,  *)
(* disconnects and deletions.                                               *)
THEOREM CredentialMirror == Spec => [](BoundMirrorsAccount /\ DeletedHoldsNothing)
  <1>1. Init => Mirrored
    BY DEF Init, Mirrored, BoundMirrorsAccount, DeletedHoldsNothing
  <1>2. TypeInv /\ Mirrored /\ [Next]_vars => Mirrored'
    <2> SUFFICES ASSUME TypeInv, Mirrored, [Next]_vars PROVE Mirrored'
      OBVIOUS
    <2>1. CASE UNCHANGED vars
      BY <2>1 DEF vars, storeVars, Mirrored, BoundMirrorsAccount,
                  DeletedHoldsNothing
    <2>2. CASE Restart
      BY <2>2 DEF Restart, storeVars, Mirrored, BoundMirrorsAccount,
                  DeletedHoldsNothing
    <2>3. QED
      BY <2>1, <2>2, MirroredBinder, MirroredOperator, MirroredWorker DEF Next
  <1>3. Mirrored <=> BoundMirrorsAccount /\ DeletedHoldsNothing
    BY DEF Mirrored
  <1>4. QED
    BY <1>1, <1>2, <1>3, TypeCorrect, PTL DEF Spec

(* A deleted companion holds no credential, whatever was in flight when it  *)
(* was deleted.                                                             *)
THEOREM DeletedEmpty == Spec => []DeletedHoldsNothing
  BY CredentialMirror, PTL

-----------------------------------------------------------------------------
(* Enrollments and the sessions they hold.  Ids are minted in order, so the *)
(* record a handshake is about to forget never gains a session.             *)
IdsMinted ==
  /\ \A e \in enrollments : e.id <= issued
  /\ \A i \in EnrollmentId : sessions[i] # None => i <= issued
  /\ \A w \in Worker : worker[w].pc = "forgetting" =>
       /\ worker[w].broken \in EnrollmentId
       /\ worker[w].broken <= issued
       /\ sessions[worker[w].broken] = None

Enrolled == OneEnrollmentPerPlace /\ IdsMinted

(* Dropping records, with or without their sessions, and changing a job     *)
(* that forgets nothing.                                                    *)
LEMMA EnrolledDrop ==
  ASSUME TypeInv, Enrolled, enrollments' \subseteq enrollments,
         sessions' \in [EnrollmentId -> Did \cup {None}],
         \A i \in EnrollmentId : sessions'[i] \in {sessions[i], None},
         issued' = issued,
         \A w \in Worker : worker'[w].pc = "forgetting" => worker'[w] = worker[w]
  PROVE  Enrolled'
  BY DEF Enrolled, IdsMinted, OneEnrollmentPerPlace

LEMMA WithoutDrops ==
  ASSUME NEW gone, NEW i \in EnrollmentId
  PROVE  Without(gone)[i] \in {sessions[i], None}
  BY DEF Without

LEMMA EnrolledSame ==
  ASSUME TypeInv, Enrolled, UNCHANGED <<enrollments, sessions, issued>>,
         \A w \in Worker : worker'[w].pc = "forgetting" => worker'[w] = worker[w]
  PROVE  Enrolled'
  BY EnrolledDrop DEF TypeInv, TypeOK

LEMMA EnrolledOperator ==
  ASSUME TypeInv, Enrolled, OperatorStep \/ ClockStep
  PROVE  Enrolled'
  <1> USE DEF RemoveEnrollments
  <1>1. ASSUME NEW gone, sessions' = Without(gone),
               enrollments' \subseteq enrollments, issued' = issued,
               worker' = worker
        PROVE  Enrolled'
    BY <1>1, EnrolledDrop, WithoutType, WithoutDrops
  <1>2. ASSUME UNCHANGED <<enrollments, sessions, issued, worker>>
        PROVE  Enrolled'
    BY <1>2, EnrolledSame
  <1>3. QED
    BY <1>1, <1>2
    DEF OperatorStep, ClockStep, Unbind, SetServices, Forget, Delete, FlightAges,
        AccessTokenAges, storeVars

LEMMA EnrolledBinder ==
  ASSUME TypeInv, Enrolled, NEW b \in Binder, BinderStep(b)
  PROVE  Enrolled'
  BY EnrolledSame
  DEF BinderStep, BeginBind, ParkFlight, TakeFlight, StartFails, CallbackFails,
      CheckOwner, BindExisting, BindNew, storeVars

LEMMA EnrolledWorker ==
  ASSUME TypeInv, Enrolled, NEW w \in Worker, WorkerStep(w)
  PROVE  Enrolled'
  <1> DEFINE job == worker[w]
  <1>a. ASSUME NEW j, worker' = [worker EXCEPT ![w] = j], j.pc # "forgetting"
        PROVE  \A v \in Worker : worker'[v].pc = "forgetting" =>
                 worker'[v] = worker[v]
    BY <1>a DEF TypeInv, TypeOK
  <1>b. /\ job \in WorkerState
        /\ IdleWorker.pc = "idle"
    BY DEF TypeInv, TypeOK, IdleWorker
  <1> USE DEF storeVars
  <1>1. ASSUME NEW c \in Companion, NEW o \in Origin, ConnectEnroll(w, c, o)
        PROVE  Enrolled'
    <2> DEFINE fresh == [IdleWorker EXCEPT
                 !.pc = "enroll", !.companion = c, !.origin = o]
               Broken(e) == [IdleWorker EXCEPT
                 !.pc = "forgetting", !.companion = c, !.origin = o,
                 !.broken = e.id]
    <2>1. CASE worker' = [worker EXCEPT ![w] = fresh]
      <3>1. fresh.pc = "enroll"
        BY DEF IdleWorker
      <3> HIDE DEF fresh
      <3>2. QED
        BY <1>1, <1>a, <2>1, <3>1, EnrolledSame DEF ConnectEnroll
    <2>2. ASSUME NEW e \in EnrollmentsAt(c, o), ~HasSession(e),
                 worker' = [worker EXCEPT ![w] = Broken(e)]
          PROVE  Enrolled'
      <3>1. Broken(e).broken = e.id
        BY DEF IdleWorker
      <3>2. e.id \in EnrollmentId /\ e.id <= issued /\ sessions[e.id] = None
        BY <2>2 DEF EnrollmentsAt, Enrolled, IdsMinted, TypeInv, TypeOK,
                    Enrollment, HasSession
      <3> HIDE DEF Broken
      <3>3. QED
        BY <1>1, <2>2, <3>1, <3>2
        DEF ConnectEnroll, Enrolled, IdsMinted, OneEnrollmentPerPlace, TypeInv,
            TypeOK
    <2>3. QED
      BY <1>1, <2>1, <2>2 DEF ConnectEnroll
  <1>2. CASE ForgetBroken(w)
    <2> DEFINE next == [job EXCEPT !.pc = "enroll", !.broken = 0]
    <2>1. worker' = [worker EXCEPT ![w] = next]
      BY <1>2 DEF ForgetBroken, TypeInv, TypeOK
    <2>2. next.pc = "enroll"
      BY <1>b DEF WorkerState
    <2> HIDE DEF next
    <2>3. QED
      BY <1>2, <1>a, <2>1, <2>2, EnrolledDrop, WithoutType, WithoutDrops
      DEF ForgetBroken, RemoveEnrollments
  <1>3. CASE CheckEnroll(w)
    <2>1. PICK j : worker' = [worker EXCEPT ![w] = j] /\ j.pc # "forgetting"
      <3>1. [job EXCEPT !.pc = "refresh", !.did = bound[job.companion]].pc
              = "refresh"
        BY <1>b DEF WorkerState
      <3>2. QED
        BY <1>3, <1>b, <3>1 DEF CheckEnroll
    <2>2. QED
      BY <1>3, <1>a, <2>1, EnrolledSame DEF CheckEnroll
  <1>4. CASE ReadSession(w)
    <2> DEFINE session == account[job.companion]
               next == IF session.stale THEN "rotating" ELSE "exchange"
               read == [job EXCEPT !.account = session, !.pc = next]
    <2>1. worker' = [worker EXCEPT ![w] = IdleWorker]
            \/ worker' = [worker EXCEPT ![w] = read]
      BY <1>4 DEF ReadSession
    <2>2. read.pc = next /\ next # "forgetting"
      BY <1>b DEF WorkerState
    <2> HIDE DEF read, next
    <2>3. QED
      BY <1>4, <1>a, <1>b, <2>1, <2>2, EnrolledSame DEF ReadSession
  <1>5. CASE RefreshAnswered(w)
    <2>1. PICK token :
            worker' = [worker EXCEPT ![w] = [job EXCEPT !.pc = "renewed",
                                 !.account = Renewed(job.account, token)]]
      BY <1>5 DEF RefreshAnswered
    <2> DEFINE next == [job EXCEPT !.pc = "renewed",
                                   !.account = Renewed(job.account, token)]
    <2>2. worker' = [worker EXCEPT ![w] = next] /\ next.pc = "renewed"
      BY <2>1, <1>b DEF WorkerState
    <2> HIDE DEF next
    <2>3. QED
      BY <1>5, <1>a, <2>2, EnrolledSame DEF RefreshAnswered
  <1>6. CASE RefreshFails(w)
    BY <1>6, <1>a, <1>b, EnrolledSame DEF RefreshFails
  <1>7. CASE StoreRenewed(w)
    <2> DEFINE next == [job EXCEPT !.pc = "exchange"]
    <2>1. worker' = [worker EXCEPT ![w] = next]
      BY <1>7 DEF StoreRenewed
    <2>2. next.pc = "exchange"
      BY <1>b DEF WorkerState
    <2> HIDE DEF next
    <2>3. QED
      BY <1>7, <1>a, <2>1, <2>2, EnrolledSame DEF StoreRenewed
  <1>8. CASE ExchangeFails(w)
    BY <1>8, <1>a, <1>b, EnrolledSame DEF ExchangeFails
  <1>9. CASE StoreEnrollment(w)
    <2> DEFINE there == EnrollmentsAt(job.companion, job.origin)
               entry == [id |-> issued + 1, companion |-> job.companion,
                         origin |-> job.origin, did |-> job.did]
    <2>a. worker' = [worker EXCEPT ![w] = IdleWorker]
      BY <1>9 DEF StoreEnrollment
    <2>1. CASE Occupied(there)
      BY <1>9, <1>a, <1>b, <2>a, <2>1, EnrolledSame DEF StoreEnrollment
    <2>2. CASE ~Occupied(there)
      <3>1. /\ issued \in Nat /\ issued' = issued + 1
            /\ issued + 1 \in EnrollmentId
            /\ enrollments' = (enrollments \ there) \cup {entry}
            /\ sessions' = [Without(there) EXCEPT ![entry.id] = job.account.did]
        BY <1>9, <2>2, LimitsAssumption
        DEF StoreEnrollment, RecordsWithout, TypeInv, TypeOK, EnrollmentId
      <3>2. /\ entry.id = issued + 1 /\ entry.companion = job.companion
            /\ entry.origin = job.origin
        OBVIOUS
      <3>3. \A e \in enrollments \ there :
              ~(e.companion = job.companion /\ e.origin = job.origin)
        BY DEF EnrollmentsAt
      <3> HIDE DEF entry, there
      <3>4. OneEnrollmentPerPlace'
        BY <3>1, <3>2, <3>3 DEF Enrolled, OneEnrollmentPerPlace
      <3>5. \A i \in EnrollmentId :
              sessions'[i] = IF i = issued + 1 THEN job.account.did
                                               ELSE Without(there)[i]
        BY <3>1, <3>2, WithoutType
      <3>6. \A i \in EnrollmentId : sessions'[i] # None => i <= issued'
        BY <3>1, <3>5, WithoutDrops DEF Enrolled, IdsMinted, EnrollmentId
      <3>7. \A e \in enrollments' : e.id <= issued'
        <4>1. \A e \in enrollments : e.id \in Nat /\ e.id <= issued
          BY DEF Enrolled, IdsMinted, TypeInv, TypeOK, Enrollment, EnrollmentId
        <4>2. QED
          BY <3>1, <3>2, <4>1
      <3>8. ASSUME NEW v \in Worker, worker'[v].pc = "forgetting"
            PROVE  /\ worker'[v].broken \in EnrollmentId
                   /\ worker'[v].broken <= issued'
                   /\ sessions'[worker'[v].broken] = None
        <4>1. worker'[v] = worker[v]
          BY <1>a, <1>b, <2>a, <3>8
        <4>2. /\ worker[v].broken \in EnrollmentId
              /\ worker[v].broken <= issued
              /\ sessions[worker[v].broken] = None
          BY <3>8, <4>1 DEF Enrolled, IdsMinted
        <4>3. worker[v].broken <= issued + 1 /\ worker[v].broken # issued + 1
          BY <3>1, <4>2 DEF EnrollmentId
        <4>4. Without(there)[worker[v].broken] = None
          BY <4>2, WithoutDrops
        <4>5. QED
          BY <3>1, <3>5, <4>1, <4>2, <4>3, <4>4
      <3>9. QED
        BY <3>4, <3>6, <3>7, <3>8 DEF Enrolled, IdsMinted
    <2>3. QED
      BY <2>1, <2>2
  <1>10. QED
    BY <1>1, <1>2, <1>3, <1>4, <1>5, <1>6, <1>7, <1>8, <1>9
    DEF WorkerStep, Prepare

LEMMA EnrolledInit == Init => Enrolled
  BY DEF Init, Enrolled, IdsMinted, OneEnrollmentPerPlace, IdleWorker

LEMMA EnrolledStep ==
  ASSUME TypeInv, Enrolled, [Next]_vars PROVE Enrolled'
  <1>1. CASE UNCHANGED vars
    BY <1>1, EnrolledSame DEF vars, storeVars
  <1>2. CASE Restart
    BY <1>2, EnrolledSame DEF Restart, storeVars, IdleWorker
  <1>3. QED
    BY <1>1, <1>2, EnrolledBinder, EnrolledOperator, EnrolledWorker DEF Next

(* However handshakes, forgets and flushes interleave, a companion has at   *)
(* most one enrollment at an origin.                                        *)
THEOREM OnePerPlace == Spec => []OneEnrollmentPerPlace
  <1>1. Enrolled => OneEnrollmentPerPlace
    BY DEF Enrolled
  <1>2. QED
    BY <1>1, EnrolledInit, EnrolledStep, TypeCorrect, PTL DEF Spec

(* No handshake's step ends or replaces a session that is stored.           *)
THEOREM SessionsKept == Spec => HandshakesKeepSessions
  <1> DEFINE Kept == (\E w \in Worker : WorkerStep(w)) =>
               \A i \in EnrollmentId :
                 sessions[i] # None => sessions'[i] = sessions[i]
  <1>1. ASSUME TypeInv, Enrolled, [Next]_vars PROVE [Kept]_vars
    <2> SUFFICES ASSUME NEW w \in Worker, WorkerStep(w),
                        NEW i \in EnrollmentId, sessions[i] # None
                 PROVE  sessions'[i] = sessions[i]
      OBVIOUS
    <2>1. CASE UNCHANGED sessions
      BY <2>1
    <2>2. CASE ForgetBroken(w)
      <3>1. /\ sessions[worker[w].broken] = None
            /\ sessions' = Without({e \in enrollments : e.id = worker[w].broken})
        BY <1>1, <2>2
        DEF ForgetBroken, RemoveEnrollments, Enrolled, IdsMinted
      <3>2. QED
        BY <3>1 DEF Without
    <2>3. CASE StoreEnrollment(w)
      <3> DEFINE there == EnrollmentsAt(worker[w].companion, worker[w].origin)
      <3>1. CASE Occupied(there)
        BY <2>3, <3>1 DEF StoreEnrollment
      <3>2. CASE ~Occupied(there)
        <4>1. ~\E e \in there : e.id = i
          BY <3>2 DEF Occupied, HasSession
        <4>2. Without(there)[i] = sessions[i]
          BY <4>1 DEF Without
        <4>3. i # issued + 1
          BY <1>1 DEF Enrolled, IdsMinted, TypeInv, TypeOK, EnrollmentId
        <4>4. sessions' = [Without(there) EXCEPT
                             ![issued + 1] = worker[w].account.did]
          BY <2>3, <3>2 DEF StoreEnrollment
        <4> HIDE DEF there
        <4>5. QED
          BY <1>1, <4>2, <4>3, <4>4, WithoutType
      <3>3. QED
        BY <3>1, <3>2
    <2>4. QED
      BY <2>1, <2>2, <2>3
      DEF WorkerStep, Prepare, ConnectEnroll, CheckEnroll, ReadSession,
          RefreshAnswered, RefreshFails, StoreRenewed, ExchangeFails, storeVars
  <1>2. QED
    BY <1>1, EnrolledInit, EnrolledStep, TypeCorrect, PTL
    DEF Spec, HandshakesKeepSessions

-----------------------------------------------------------------------------
(* The store as a handshake sees it: Custody implements Accounts.  Beyond   *)
(* the invariants above this takes that an enrollment's id is its own, that *)
(* a handshake runs for a companion that was born, and that a companion is  *)
(* born with the service granted.                                           *)
IdsApart == \A d, e \in enrollments : d.id = e.id => d = e

HandshakesOfBorn ==
  \A w \in Worker : worker[w].pc # "idle" => worker[w].companion \in born

BornGranted ==
  \A b \in Binder : binder[b].pc = "storing" /\ binder[b].target = New =>
    Forum \in binder[b].services

StoreInv == IdsApart /\ HandshakesOfBorn /\ BornGranted

LEMMA StoreInvInit == Init => StoreInv
  BY DEF Init, StoreInv, IdsApart, HandshakesOfBorn, BornGranted, IdleBinder,
         IdleWorker

LEMMA BinderJobs ==
  ASSUME TypeInv, BornGranted, NEW b \in Binder, NEW j,
         binder' = [binder EXCEPT ![b] = j],
         j.pc = "storing" /\ j.target = New => Forum \in j.services
  PROVE  BornGranted'
  BY DEF TypeInv, TypeOK, BornGranted

LEMMA StoreInvBinder ==
  ASSUME TypeInv, StoreInv, NEW b \in Binder, BinderStep(b)
  PROVE  StoreInv'
  <1> USE DEF storeVars, serverVars, StoreInv
  <1>1. IdsApart' /\ HandshakesOfBorn'
    BY DEF BinderStep, BeginBind, ParkFlight, TakeFlight, StartFails,
           CallbackFails, CheckOwner, BindExisting, BindNew, IdsApart,
           HandshakesOfBorn
  <1>2. BornGranted'
    <2>1. IdleBinder.pc # "storing"
      BY DEF IdleBinder
    <2>2. ASSUME NEW target, NEW declared, BeginBind(b, target, declared)
          PROVE  BornGranted'
      <3> DEFINE j == [IdleBinder EXCEPT
                         !.pc = "parking", !.target = target, !.declared = declared]
      <3>1. binder' = [binder EXCEPT ![b] = j] /\ j.pc = "parking"
        BY <2>2 DEF BeginBind, IdleBinder
      <3> HIDE DEF j
      <3>2. QED
        BY <3>1, BinderJobs
    <2>3. ASSUME NEW f \in flights, TakeFlight(b, f)
          PROVE  BornGranted'
      <3> DEFINE j == [IdleBinder EXCEPT
                         !.pc = "exchanging", !.target = f.target,
                         !.declared = f.declared, !.state = f.state]
      <3>1. /\ binder' = binder \/ binder' = [binder EXCEPT ![b] = j]
            /\ j.pc = "exchanging"
        BY <2>3 DEF TakeFlight, IdleBinder
      <3> HIDE DEF j
      <3>2. QED
        BY <3>1, BinderJobs DEF BornGranted
    <2>4. ASSUME NEW d \in Did, CheckOwner(b, d)
          PROVE  BornGranted'
      <3> DEFINE carried == IF binder[b].target \in companions
                                 /\ account[binder[b].target] # None
                              THEN account[binder[b].target].services
                              ELSE DefaultServices
                 checked == [pc |-> "storing", target |-> binder[b].target,
                             declared |-> binder[b].declared,
                             state |-> binder[b].state, did |-> d,
                             services |-> carried]
      <3>1. binder' = [binder EXCEPT ![b] = checked]
              \/ binder' = [binder EXCEPT ![b] = IdleBinder]
        BY <2>4 DEF CheckOwner
      <3>2. binder[b].target = New => carried = {Forum}
        BY SentinelAssumption DEF DefaultServices, TypeInv, TypeOK
      <3> HIDE DEF carried
      <3>3. /\ checked.target = binder[b].target
            /\ checked.services = carried
        OBVIOUS
      <3> HIDE DEF checked
      <3>4. QED
        BY <2>1, <3>1, <3>2, <3>3, BinderJobs
    <2>5. QED
      BY <2>1, <2>2, <2>3, <2>4, BinderJobs
      DEF BinderStep, ParkFlight, StartFails, CallbackFails, BindExisting, BindNew
  <1>3. QED
    BY <1>1, <1>2

LEMMA StoreInvOthers ==
  ASSUME TypeInv, StoreInv, OperatorStep \/ ClockStep \/ Restart \/ UNCHANGED vars
  PROVE  StoreInv'
  <1> USE DEF storeVars, signInVars
  <1>1. IdsApart'
    <2>1. enrollments' \subseteq enrollments
      BY DEF OperatorStep, ClockStep, Unbind, SetServices, Forget, Delete,
             FlightAges, AccessTokenAges, RemoveEnrollments, Restart, vars
    <2>2. QED
      BY <2>1 DEF StoreInv, IdsApart
  <1>2. HandshakesOfBorn' /\ BornGranted'
    <2>1. CASE UNCHANGED <<born, worker, binder>>
      BY <2>1 DEF StoreInv, HandshakesOfBorn, BornGranted
    <2>2. CASE Restart
      BY <2>2 DEF Restart, IdleBinder, IdleWorker, HandshakesOfBorn, BornGranted
    <2>3. QED
      BY <2>1, <2>2
      DEF OperatorStep, ClockStep, Unbind, SetServices, Forget, Delete, FlightAges,
          AccessTokenAges, vars
  <1>3. QED
    BY <1>1, <1>2 DEF StoreInv

LEMMA StoreInvWorker ==
  ASSUME TypeInv, Enrolled, StoreInv, NEW w \in Worker, WorkerStep(w)
  PROVE  StoreInv'
  <1> DEFINE job == worker[w]
  <1> USE DEF storeVars, signInVars
  <1>0. job \in WorkerState /\ IdleWorker.pc = "idle"
    BY DEF TypeInv, TypeOK, IdleWorker
  <1>1. /\ UNCHANGED <<companions, born, binder>>
        /\ BornGranted'
    BY DEF WorkerStep, Prepare, ConnectEnroll, ForgetBroken, CheckEnroll,
           ReadSession, RefreshAnswered, RefreshFails, StoreRenewed,
           ExchangeFails, StoreEnrollment, StoreInv, BornGranted
  <1>2. IdsApart'
    <2>1. CASE UNCHANGED enrollments
      BY <2>1 DEF StoreInv, IdsApart
    <2>2. CASE ForgetBroken(w)
      BY <2>2 DEF ForgetBroken, RemoveEnrollments, StoreInv, IdsApart
    <2>3. CASE StoreEnrollment(w) /\ ~UNCHANGED enrollments
      <3> DEFINE there == EnrollmentsAt(job.companion, job.origin)
                 entry == [id |-> issued + 1, companion |-> job.companion,
                           origin |-> job.origin, did |-> job.did]
      <3>1. /\ enrollments' = (enrollments \ there) \cup {entry}
            /\ issued \in Nat
        BY <2>3, LimitsAssumption
        DEF StoreEnrollment, RecordsWithout, TypeInv, TypeOK
      <3>2. entry.id = issued + 1
        OBVIOUS
      <3>3. \A e \in enrollments : e.id \in Nat /\ e.id <= issued
        BY DEF Enrolled, IdsMinted, TypeInv, TypeOK, Enrollment, EnrollmentId
      <3> HIDE DEF entry, there
      <3>4. QED
        BY <3>1, <3>2, <3>3 DEF StoreInv, IdsApart
    <2>4. QED
      BY <2>1, <2>2, <2>3
      DEF WorkerStep, Prepare, ConnectEnroll, CheckEnroll, ReadSession,
          RefreshAnswered, RefreshFails, StoreRenewed, ExchangeFails
  <1>3. HandshakesOfBorn'
    <2>1. ASSUME NEW j, worker' = [worker EXCEPT ![w] = j],
                 j.pc # "idle" => j.companion \in born
          PROVE  HandshakesOfBorn'
      BY <1>1, <2>1 DEF StoreInv, HandshakesOfBorn, TypeInv, TypeOK
    <2>2. job.pc # "idle" => job.companion \in born
      BY DEF StoreInv, HandshakesOfBorn
    <2>3. ASSUME NEW c \in Companion, NEW o \in Origin, ConnectEnroll(w, c, o)
          PROVE  HandshakesOfBorn'
      <3> DEFINE fresh == [IdleWorker EXCEPT
                   !.pc = "enroll", !.companion = c, !.origin = o]
                 Broken(e) == [IdleWorker EXCEPT
                   !.pc = "forgetting", !.companion = c, !.origin = o,
                   !.broken = e.id]
      <3>1. fresh.companion = c /\ \A e : Broken(e).companion = c
        BY DEF IdleWorker
      <3>2. c \in born
        BY <2>3 DEF ConnectEnroll, TypeInv, TypeOK
      <3>3. \/ worker' = [worker EXCEPT ![w] = fresh]
            \/ \E e \in EnrollmentsAt(c, o) : worker' = [worker EXCEPT ![w] = Broken(e)]
        BY <2>3 DEF ConnectEnroll
      <3> HIDE DEF fresh, Broken
      <3>4. QED
        BY <2>1, <3>1, <3>2, <3>3
    <2>4. CASE worker' = [worker EXCEPT ![w] = IdleWorker]
      BY <1>0, <2>1, <2>4
    <2>5. ASSUME NEW j, worker' = [worker EXCEPT ![w] = j], job.pc # "idle",
                 j.companion = job.companion
          PROVE  HandshakesOfBorn'
      BY <2>1, <2>2, <2>5
    <2>6. CASE ForgetBroken(w)
      <3> DEFINE j == [job EXCEPT !.pc = "enroll", !.broken = 0]
      <3>1. worker' = [worker EXCEPT ![w] = j]
        BY <2>6 DEF ForgetBroken, TypeInv, TypeOK
      <3>2. j.companion = job.companion /\ job.pc # "idle"
        BY <1>0, <2>6 DEF ForgetBroken, WorkerState
      <3> HIDE DEF j
      <3>3. QED
        BY <2>5, <3>1, <3>2
    <2>7. CASE CheckEnroll(w)
      <3> DEFINE j == [job EXCEPT !.pc = "refresh", !.did = bound[job.companion]]
      <3>1. \/ worker' = [worker EXCEPT ![w] = j]
            \/ worker' = [worker EXCEPT ![w] = IdleWorker]
        BY <2>7 DEF CheckEnroll
      <3>2. j.companion = job.companion /\ job.pc # "idle"
        BY <1>0, <2>7 DEF CheckEnroll, WorkerState
      <3> HIDE DEF j
      <3>3. QED
        BY <2>4, <2>5, <3>1, <3>2
    <2>8. CASE ReadSession(w)
      <3> DEFINE session == account[job.companion]
                 next == IF session.stale THEN "rotating" ELSE "exchange"
                 j == [job EXCEPT !.account = session, !.pc = next]
      <3>1. \/ worker' = [worker EXCEPT ![w] = j]
            \/ worker' = [worker EXCEPT ![w] = IdleWorker]
        BY <2>8 DEF ReadSession
      <3>2. j.companion = job.companion /\ job.pc # "idle"
        BY <1>0, <2>8 DEF ReadSession, WorkerState
      <3> HIDE DEF j
      <3>3. QED
        BY <2>4, <2>5, <3>1, <3>2
    <2>9. CASE RefreshAnswered(w)
      <3>1. PICK token :
              worker' = [worker EXCEPT ![w] = [job EXCEPT !.pc = "renewed",
                                   !.account = Renewed(job.account, token)]]
        BY <2>9 DEF RefreshAnswered
      <3> DEFINE j == [job EXCEPT !.pc = "renewed",
                                  !.account = Renewed(job.account, token)]
      <3>2. /\ worker' = [worker EXCEPT ![w] = j]
            /\ j.companion = job.companion /\ job.pc # "idle"
        BY <1>0, <2>9, <3>1 DEF RefreshAnswered, WorkerState
      <3> HIDE DEF j
      <3>3. QED
        BY <2>5, <3>2
    <2>10. CASE StoreRenewed(w)
      <3> DEFINE j == [job EXCEPT !.pc = "exchange"]
      <3>1. worker' = [worker EXCEPT ![w] = j]
        BY <2>10 DEF StoreRenewed, TypeInv, TypeOK
      <3>2. j.companion = job.companion /\ job.pc # "idle"
        BY <1>0, <2>10 DEF StoreRenewed, WorkerState
      <3> HIDE DEF j
      <3>3. QED
        BY <2>5, <3>1, <3>2
    <2>11. QED
      BY <2>3, <2>4, <2>6, <2>7, <2>8, <2>9, <2>10
      DEF WorkerStep, Prepare, RefreshFails, ExchangeFails, StoreEnrollment
  <1>4. QED
    BY <1>1, <1>2, <1>3 DEF StoreInv

LEMMA StoreInvStep ==
  ASSUME TypeInv, Enrolled, StoreInv, [Next]_vars PROVE StoreInv'
  BY StoreInvBinder, StoreInvOthers, StoreInvWorker DEF Next

-----------------------------------------------------------------------------
(* What a step does to what a handshake sees.                               *)

LEMMA SeatThere ==
  ASSUME NEW c, NEW o
  PROVE  /\ <<c, o>> \in Seats <=>
              \E e \in enrollments :
                e.companion = c /\ e.origin = o /\ sessions[e.id] # None
         /\ \A place \in Seats : place = <<place[1], place[2]>>
  BY DEF Seats, HasSession

LEMMA SeatPlaces ==
  ASSUME TypeInv, NEW place \in Seats
  PROVE  place \in Companion \X Origin
  BY DEF TypeInv, TypeOK, Enrollment, Seats, HasSession

LEMMA SeatsSame ==
  ASSUME UNCHANGED <<enrollments, sessions>>
  PROVE  Seats' = Seats
  BY DEF Seats, HasSession

LEMMA CredentialsSame ==
  ASSUME UNCHANGED <<companions, bound>>,
         \A c \in companions :
           /\ account'[c] = None <=> account[c] = None
           /\ account'[c].did = account[c].did
           /\ account'[c].services = account[c].services
  PROVE  Usable' = Usable /\ Granted' = Granted
  BY DEF Usable, Granted

LEMMA CredentialStored ==
  ASSUME TypeInv, NEW c \in Companion, NEW session \in AccountSession,
         StoreAccount(c, session), c \in companions',
         companions' = companions \cup {c}
  PROVE  /\ Usable' = Usable \cup {c}
         /\ Granted' = IF Forum \in session.services
                         THEN Granted \cup {c} ELSE Granted \ {c}
  <1>1. session # None
    BY SessionAssumption
  <1>2. \A d \in Companion :
          /\ bound'[d] = IF d = c THEN session.did ELSE bound[d]
          /\ account'[d] = IF d = c THEN session ELSE account[d]
    BY DEF StoreAccount, TypeInv, TypeOK
  <1>3. companions' \subseteq Companion
    BY DEF TypeInv, TypeOK
  <1>4. Usable' = Usable \cup {c}
    BY <1>1, <1>2, <1>3 DEF Usable
  <1>5. \A d \in Granted' : d = c => Forum \in session.services
    BY <1>2, <1>3 DEF Granted
  <1>6. \A d \in Companion : d # c => (d \in Granted' <=> d \in Granted)
    BY <1>2, <1>4 DEF Granted
  <1>7. Forum \in session.services => c \in Granted'
    BY <1>2, <1>4 DEF Granted
  <1>8. Granted' \subseteq Companion /\ Granted \subseteq Companion
    BY <1>3 DEF Granted, Usable, TypeInv, TypeOK
  <1>9. QED
    BY <1>4, <1>5, <1>6, <1>7, <1>8

LEMMA CredentialDropped ==
  ASSUME TypeInv, NEW c \in Companion,
         bound' = [bound EXCEPT ![c] = None], account' = AccountCleared(c),
         \/ companions' = companions
         \/ companions' = companions \ {c}
  PROVE  Usable' = Usable \ {c} /\ Granted' = Granted \ {c}
  <1>1. \A d \in Companion :
          /\ bound'[d] = IF d = c THEN None ELSE bound[d]
          /\ account'[d] = IF d = c THEN None ELSE account[d]
    BY DEF AccountCleared, TypeInv, TypeOK
  <1>2. companions \subseteq Companion /\ companions' \subseteq Companion
    BY DEF TypeInv, TypeOK
  <1>3. Usable' = Usable \ {c}
    BY <1>1, <1>2 DEF Usable
  <1>4. QED
    BY <1>1, <1>2, <1>3 DEF Granted, Usable

(* Records dropped with their sessions, or their sessions alone: their      *)
(* places, and no other, lose their session.                                *)
LEMMA SeatsDropped ==
  ASSUME TypeInv, Enrolled, StoreInv, NEW gone, gone \subseteq enrollments,
         sessions' = Without(gone),
         enrollments' = enrollments \/ enrollments' = enrollments \ gone
  PROVE  Seats' = Seats \ {<<e.companion, e.origin>> : e \in gone}
  <1> DEFINE dropped == {<<e.companion, e.origin>> : e \in gone}
  <1>1. \A e \in enrollments : e.id \in EnrollmentId
    BY DEF TypeInv, TypeOK, Enrollment
  <1>2. \A e \in enrollments :
          sessions'[e.id] = IF e \in gone THEN None ELSE sessions[e.id]
    BY <1>1 DEF Without, StoreInv, IdsApart
  <1>3. ASSUME NEW c, NEW o
        PROVE  <<c, o>> \in Seats' <=> <<c, o>> \in Seats \ dropped
    <2>1. <<c, o>> \in Seats' <=>
            \E e \in enrollments' :
              e.companion = c /\ e.origin = o /\ sessions'[e.id] # None
      BY DEF Seats, HasSession
    <2>2. <<c, o>> \in Seats' <=>
            \E e \in enrollments \ gone :
              e.companion = c /\ e.origin = o /\ sessions[e.id] # None
      BY <1>2, <2>1
    <2>3. <<c, o>> \in dropped <=>
            \E e \in gone : e.companion = c /\ e.origin = o
      OBVIOUS
    <2>4. \A d, e \in enrollments :
            d.companion = e.companion /\ d.origin = e.origin => d = e
      BY DEF Enrolled, OneEnrollmentPerPlace
    <2> HIDE DEF dropped
    <2>5. QED
      BY <2>2, <2>3, <2>4, SeatThere
  <1>4. \A place \in Seats' : place = <<place[1], place[2]>>
    BY DEF Seats
  <1>5. \A place \in Seats : place = <<place[1], place[2]>>
    BY SeatThere
  <1> HIDE DEF dropped
  <1>6. Seats' = Seats \ dropped
    BY <1>3, <1>4, <1>5
  <1>7. QED
    BY <1>6 DEF dropped

LEMMA SeatsFlushed ==
  ASSUME TypeInv, Enrolled, StoreInv, NEW c,
         sessions' = Without(EnrollmentsOf(c)),
         \/ enrollments' = enrollments
         \/ enrollments' = enrollments \ EnrollmentsOf(c)
  PROVE  Seats' = Seats \ A!SeatsOf(c)
  <1> DEFINE gone == EnrollmentsOf(c)
             dropped == {<<e.companion, e.origin>> : e \in gone}
  <1>1. gone \subseteq enrollments
    BY DEF EnrollmentsOf
  <1>2. sessions' = Without(gone)
          /\ (enrollments' = enrollments \/ enrollments' = enrollments \ gone)
    OBVIOUS
  <1> HIDE DEF gone
  <1>3. Seats' = Seats \ dropped
    BY <1>1, <1>2, SeatsDropped
  <1>4. ASSUME NEW place \in Seats
        PROVE  place \in dropped <=> place[1] = c
    <2>1. PICK e \in enrollments : place = <<e.companion, e.origin>>
      BY DEF Seats
    <2>2. \A d \in gone : d.companion = c
      BY DEF gone, EnrollmentsOf
    <2>3. e.companion = c => e \in gone
      BY DEF gone, EnrollmentsOf
    <2>4. QED
      BY <2>1, <2>2, <2>3
  <1> HIDE DEF dropped
  <1>5. QED
    BY <1>3, <1>4 DEF A!SeatsOf

LEMMA StoreSeenBinder ==
  ASSUME TypeInv, StoreInv, NEW b \in Binder, BinderStep(b)
  PROVE  A!Next \/ UNCHANGED A!vars
  <1> USE DEF storeVars
  <1>1. ASSUME UNCHANGED <<companions, born, bound, account, enrollments, sessions>>
        PROVE  UNCHANGED A!vars
    BY <1>1, SeatsSame, CredentialsSame DEF A!vars
  <1>2. CASE BindExisting(b)
    <2> DEFINE c == binder[b].target
    <2>1. c \in Companion /\ SignedIn(b) \in AccountSession
      BY <1>2, SignedInType DEF BindExisting, TypeInv, TypeOK, BinderState, Target
    <2>2. CASE c \in companions
      <3>1. StoreAccount(c, SignedIn(b)) /\ companions' = companions \cup {c}
        BY <1>2, <2>2 DEF BindExisting, StoreAtprotoSession
      <3>2. UNCHANGED <<companions, born>> /\ Seats' = Seats
        BY <1>2, SeatsSame DEF BindExisting
      <3>3. PICK allowed \in BOOLEAN :
              allowed <=> Forum \in SignedIn(b).services
        OBVIOUS
      <3>4. A!StoreCredential(c, allowed)
        BY <2>1, <2>2, <3>1, <3>2, <3>3, CredentialStored DEF A!StoreCredential
      <3>5. QED
        BY <2>1, <3>4 DEF A!Next
    <2>3. CASE c \notin companions
      BY <1>1, <1>2, <2>3 DEF BindExisting, StoreAtprotoSession
    <2>4. QED
      BY <2>2, <2>3
  <1>3. ASSUME NEW c \in Companion, BindNew(b, c)
        PROVE  A!Next
    <2>1. SignedIn(b) \in AccountSession
      BY <1>3, SignedInType DEF BindNew
    <2>2. Forum \in SignedIn(b).services
      BY <1>3 DEF BindNew, SignedIn, StoreInv, BornGranted
    <2>3. /\ StoreAccount(c, SignedIn(b)) /\ companions' = companions \cup {c}
          /\ born' = born \cup {c} /\ c \notin born /\ Seats' = Seats
      BY <1>3, SeatsSame DEF BindNew
    <2>4. A!Create(c)
      BY <2>1, <2>2, <2>3, CredentialStored DEF A!Create
    <2>5. QED
      BY <2>4 DEF A!Next
  <1>4. QED
    BY <1>1, <1>2, <1>3
    DEF BinderStep, BeginBind, ParkFlight, TakeFlight, StartFails, CallbackFails,
        CheckOwner

LEMMA StoreSeenOthers ==
  ASSUME TypeInv, Mirrored, Enrolled, StoreInv,
         OperatorStep \/ ClockStep \/ Restart \/ UNCHANGED vars
  PROVE  A!Next \/ UNCHANGED A!vars
  <1> USE DEF storeVars
  <1>1. ASSUME UNCHANGED <<companions, born, bound, account, enrollments, sessions>>
        PROVE  UNCHANGED A!vars
    BY <1>1, SeatsSame, CredentialsSame DEF A!vars
  <1>2. ASSUME NEW c \in Companion, Unbind(c) PROVE A!Next
    <2>1. Seats' = Seats \ A!SeatsOf(c)
      BY <1>2, SeatsFlushed DEF Unbind
    <2>2. Usable' = Usable \ {c} /\ Granted' = Granted \ {c}
      BY <1>2, CredentialDropped DEF Unbind
    <2>3. A!Disconnect(c)
      BY <1>2, <2>1, <2>2 DEF Unbind, A!Disconnect, A!CredentialGoes
    <2>4. QED
      BY <2>3 DEF A!Next
  <1>3. ASSUME NEW c \in Companion, NEW services \in SUBSET Catalog,
               SetServices(c, services)
        PROVE  A!Next
    <2> DEFINE changed == [account[c] EXCEPT !.services = services]
    <2>1. /\ account[c] \in AccountSession
          /\ changed \in AccountSession /\ changed.did = account[c].did
          /\ changed.services = services
      BY <1>3 DEF SetServices, AccountSession, TypeInv, TypeOK
    <2>2. account' = [account EXCEPT ![c] = changed]
      BY <1>3 DEF SetServices
    <2> HIDE DEF changed
    <2>3. bound[c] = account[c].did /\ c \in companions /\ account[c] # None
      BY <1>3 DEF SetServices, Mirrored, BoundMirrorsAccount
    <2>4. StoreAccount(c, changed) /\ companions' = companions \cup {c}
      <3>1. bound' = [bound EXCEPT ![c] = changed.did]
        BY <1>3, <2>1, <2>3 DEF SetServices, TypeInv, TypeOK
      <3>2. QED
        BY <1>3, <2>2, <3>1 DEF StoreAccount, SetServices
    <2>5. PICK allowed \in BOOLEAN : allowed <=> Forum \in changed.services
      OBVIOUS
    <2>6. c \in Usable
      BY <2>3 DEF Usable
    <2>7. /\ Usable' = Usable
          /\ Granted' = IF allowed THEN Granted \cup {c} ELSE Granted \ {c}
      BY <2>1, <2>3, <2>4, <2>5, <2>6, CredentialStored
    <2>8. Seats' = Seats /\ UNCHANGED <<companions, born>>
      BY <1>3, SeatsSame DEF SetServices
    <2>9. A!SetGrant(c, allowed)
      BY <2>6, <2>7, <2>8 DEF A!SetGrant
    <2>10. QED
      BY <2>9 DEF A!Next
  <1>4. ASSUME NEW e \in enrollments, Forget(e)
        PROVE  A!Next \/ UNCHANGED A!vars
    <2> DEFINE gone == {e}
               place == <<e.companion, e.origin>>
    <2>1. /\ sessions' = Without(gone) /\ enrollments' = enrollments \ gone
          /\ gone \subseteq enrollments
          /\ UNCHANGED <<companions, born, bound, account>>
      BY <1>4 DEF Forget, RemoveEnrollments
    <2>2. {<<d.companion, d.origin>> : d \in gone} = {place}
      OBVIOUS
    <2> HIDE DEF gone, place
    <2>3. Seats' = Seats \ {place}
      BY <2>1, <2>2, SeatsDropped
    <2>4. Usable' = Usable /\ Granted' = Granted
      BY <2>1, CredentialsSame
    <2>5. CASE place \in Seats
      <3>1. A!Forget(place)
        BY <2>1, <2>3, <2>4, <2>5 DEF A!Forget
      <3>2. QED
        BY <2>5, <3>1, SeatPlaces DEF A!Next, A!Place
    <2>6. CASE place \notin Seats
      BY <2>1, <2>3, <2>4, <2>6 DEF A!vars
    <2>7. QED
      BY <2>5, <2>6
  <1>5. ASSUME NEW c \in Companion, NEW cascade \in BOOLEAN, Delete(c, cascade)
        PROVE  A!Next
    <2>1. Seats' = Seats \ A!SeatsOf(c)
      BY <1>5, SeatsFlushed DEF Delete, RemoveEnrollments
    <2>2. Usable' = Usable \ {c} /\ Granted' = Granted \ {c}
      BY <1>5, CredentialDropped DEF Delete
    <2>3. A!Delete(c)
      BY <1>5, <2>1, <2>2 DEF Delete, A!Delete, A!CredentialGoes
    <2>4. QED
      BY <2>3 DEF A!Next
  <1>6. ASSUME NEW f \in flights, FlightAges(f) PROVE UNCHANGED A!vars
    BY <1>1, <1>6 DEF FlightAges
  <1>7. ASSUME NEW c \in Companion, AccessTokenAges(c) PROVE UNCHANGED A!vars
    <2> DEFINE changed == [account[c] EXCEPT !.stale = TRUE]
    <2>1. /\ account[c] \in AccountSession
          /\ changed \in AccountSession /\ changed.did = account[c].did
          /\ changed.services = account[c].services
      BY <1>7 DEF AccessTokenAges, AccountSession, TypeInv, TypeOK
    <2>2. /\ account' = [account EXCEPT ![c] = changed]
          /\ UNCHANGED <<companions, born, bound, enrollments, sessions>>
      BY <1>7 DEF AccessTokenAges
    <2> HIDE DEF changed
    <2>3. \A d \in Companion :
            account'[d] = IF d = c THEN changed ELSE account[d]
      BY <2>2 DEF TypeInv, TypeOK
    <2>4. companions \subseteq Companion /\ changed # None /\ account[c] # None
      BY <1>7, <2>1, SessionAssumption DEF TypeInv, TypeOK, AccessTokenAges
    <2>5. Usable' = Usable /\ Granted' = Granted
      BY <2>1, <2>2, <2>3, <2>4, CredentialsSame
    <2>6. QED
      BY <2>2, <2>5, SeatsSame DEF A!vars
  <1>8. QED
    BY <1>1, <1>2, <1>3, <1>4, <1>5, <1>6, <1>7
    DEF OperatorStep, ClockStep, Restart, vars

LEMMA StoreSeenWorker ==
  ASSUME TypeInv, Enrolled, StoreInv, NEW w \in Worker, WorkerStep(w)
  PROVE  A!Next \/ UNCHANGED A!vars
  <1> DEFINE job == worker[w]
  <1> USE DEF storeVars
  <1>1. ASSUME UNCHANGED <<companions, born, bound, account, enrollments, sessions>>
        PROVE  UNCHANGED A!vars
    BY <1>1, SeatsSame, CredentialsSame DEF A!vars
  <1>2. CASE ForgetBroken(w)
    <2> DEFINE gone == {e \in enrollments : e.id = job.broken}
    <2>1. /\ sessions' = Without(gone) /\ enrollments' = enrollments \ gone
          /\ gone \subseteq enrollments
          /\ UNCHANGED <<companions, born, bound, account>>
      BY <1>2 DEF ForgetBroken, RemoveEnrollments
    <2>2. \A e \in gone : sessions[e.id] = None
      BY <1>2 DEF ForgetBroken, Enrolled, IdsMinted
    <2> HIDE DEF gone
    <2>3. \A e \in gone : <<e.companion, e.origin>> \notin Seats
      BY <2>1, <2>2, SeatThere DEF Enrolled, OneEnrollmentPerPlace
    <2>4. Seats' = Seats
      BY <2>1, <2>3, SeatsDropped
    <2>5. QED
      BY <2>1, <2>4, CredentialsSame DEF A!vars
  <1>3. CASE StoreRenewed(w)
    <2>1. job.companion \in Companion /\ job.account \in AccountSession
      BY <1>3 DEF StoreRenewed, TypeInv, Learned
    <2>2. CASE job.companion \in companions
      <3>1. /\ StoreAccount(job.companion, job.account)
            /\ companions' = companions \cup {job.companion}
        BY <1>3, <2>2 DEF StoreRenewed, StoreAtprotoSession
      <3>2. UNCHANGED <<companions, born>> /\ Seats' = Seats
        BY <1>3, SeatsSame DEF StoreRenewed
      <3>3. PICK allowed \in BOOLEAN :
              allowed <=> Forum \in job.account.services
        OBVIOUS
      <3>4. A!StoreCredential(job.companion, allowed)
        BY <2>1, <2>2, <3>1, <3>2, <3>3, CredentialStored DEF A!StoreCredential
      <3>5. QED
        BY <2>1, <3>4 DEF A!Next
    <2>3. CASE job.companion \notin companions
      BY <1>1, <1>3, <2>3 DEF StoreRenewed, StoreAtprotoSession
    <2>4. QED
      BY <2>2, <2>3
  <1>4. CASE StoreEnrollment(w)
    <2> DEFINE there == EnrollmentsAt(job.companion, job.origin)
               entry == [id |-> issued + 1, companion |-> job.companion,
                         origin |-> job.origin, did |-> job.did]
               place == <<job.companion, job.origin>>
    <2>1. CASE Occupied(there)
      BY <1>1, <1>4, <2>1 DEF StoreEnrollment
    <2>2. CASE ~Occupied(there)
      <3>1. /\ issued \in Nat /\ issued + 1 \in EnrollmentId
            /\ enrollments' = (enrollments \ there) \cup {entry}
            /\ sessions' = [Without(there) EXCEPT ![entry.id] = job.account.did]
            /\ UNCHANGED <<companions, born, bound, account>>
        BY <1>4, <2>2, LimitsAssumption
        DEF StoreEnrollment, RecordsWithout, TypeInv, TypeOK, EnrollmentId
      <3>2. /\ entry.id = issued + 1 /\ entry.companion = job.companion
            /\ entry.origin = job.origin
        OBVIOUS
      <3>3. /\ job.companion \in Companion /\ job.companion \in born
            /\ job.origin \in Origin
        BY <1>4 DEF StoreEnrollment, TypeInv, Learned, StoreInv, HandshakesOfBorn
      <3>4. job.account.did # None
        BY <1>4, SentinelAssumption
        DEF StoreEnrollment, TypeInv, Learned, AccountSession
      <3>5. place \notin Seats
        BY <2>2, SeatThere DEF Occupied, HasSession, EnrollmentsAt
      <3>0. there \subseteq enrollments
        BY DEF EnrollmentsAt
      <3>6. \A e \in enrollments :
              e \in there <=> e.companion = job.companion /\ e.origin = job.origin
        BY DEF EnrollmentsAt
      <3> HIDE DEF entry, there
      <3>7. \A e \in enrollments : e.id \in EnrollmentId /\ e.id # issued + 1
        BY <3>1
        DEF Enrolled, IdsMinted, TypeInv, TypeOK, Enrollment, EnrollmentId
      <3>8. \A i \in EnrollmentId :
              sessions'[i] = IF i = issued + 1 THEN job.account.did
                                               ELSE Without(there)[i]
        BY <3>1, <3>2, WithoutType
      <3>9. \A e \in enrollments \ there : sessions'[e.id] = sessions[e.id]
        <4>1. ASSUME NEW e \in enrollments \ there
              PROVE  Without(there)[e.id] = sessions[e.id]
          <5>1. ~\E d \in there : d.id = e.id
            BY <3>0 DEF StoreInv, IdsApart
          <5>2. QED
            BY <3>7, <5>1 DEF Without
        <4>2. QED
          BY <3>7, <3>8, <4>1
      <3>10. sessions'[entry.id] # None
        BY <3>1, <3>2, <3>4, <3>8
      <3>11. ASSUME NEW c, NEW o
             PROVE  <<c, o>> \in Seats' <=> <<c, o>> \in Seats \cup {place}
        <4>1. <<c, o>> \in Seats' <=>
                \E e \in enrollments' :
                  e.companion = c /\ e.origin = o /\ sessions'[e.id] # None
          BY DEF Seats, HasSession
        <4>2. <<c, o>> \in Seats' <=>
                \/ c = job.companion /\ o = job.origin
                \/ \E e \in enrollments \ there :
                     e.companion = c /\ e.origin = o /\ sessions[e.id] # None
          BY <3>1, <3>2, <3>9, <3>10, <4>1
        <4>3. QED
          BY <3>5, <3>6, <4>2, SeatThere
      <3>12. Seats' = Seats \cup {place}
        <4>1. \A p \in Seats' : p = <<p[1], p[2]>>
          BY DEF Seats
        <4>2. place = <<place[1], place[2]>>
          OBVIOUS
        <4> HIDE DEF place
        <4>3. \A p \in Seats \cup {place} : p = <<p[1], p[2]>>
          BY <4>2, SeatThere
        <4>4. QED
          BY <3>11, <4>1, <4>3
      <3>13. Usable' = Usable /\ Granted' = Granted
        BY <3>1, CredentialsSame
      <3>14. A!Seat(place)
        BY <3>1, <3>3, <3>5, <3>12, <3>13 DEF A!Seat
      <3>15. QED
        BY <3>3, <3>14 DEF A!Next, A!Place
    <2>3. QED
      BY <2>1, <2>2
  <1>5. QED
    BY <1>1, <1>2, <1>3, <1>4
    DEF WorkerStep, Prepare, ConnectEnroll, CheckEnroll, ReadSession,
        RefreshAnswered, RefreshFails, ExchangeFails

(* The custody implements Accounts: whatever sign-ins, refreshes, exchanges *)
(* and restarts are under way, a handshake sees credentials come and go     *)
(* whole, a disconnect or a deletion takes the companion's sessions with    *)
(* it, and no stored session is replaced.                                   *)
THEOREM StoreSeen == Spec => StoreAsPromised
  <1>1. Init => A!Init
    BY DEF Init, A!Init, Usable, Granted, Seats
  <1>2. ASSUME TypeInv, Mirrored, Enrolled, StoreInv, [Next]_vars
        PROVE  [A!Next]_(A!vars)
    BY <1>2, StoreSeenBinder, StoreSeenOthers, StoreSeenWorker DEF Next
  <1>3. Mirrored <=> BoundMirrorsAccount /\ DeletedHoldsNothing
    BY DEF Mirrored
  <1>4. QED
    BY <1>1, <1>2, <1>3, TypeCorrect, CredentialMirror, EnrolledInit, EnrolledStep,
       StoreInvInit, StoreInvStep, PTL
    DEF Spec, StoreAsPromised, A!Spec

=============================================================================
