------------------------------ MODULE Custody ------------------------------
(***************************************************************************)
(* Who holds which credential: the companions of one connector, the        *)
(* account each is bound to, the sign-ins in flight, the silent refresh of *)
(* an account session, and the enrollments and sessions it established.    *)
(*                                                                         *)
(* The hub keeps all of it in one StateStore behind one mutex and releases *)
(* that mutex around every network call, so a handler is a chain of atomic *)
(* steps between which any other thread may run.  A step here is the code  *)
(* between two such releases.  Binders are the manager's connection        *)
(* threads (one request each); workers are the threads that run a          *)
(* handshake: the MCP thread, or a connection thread resuming a pending    *)
(* connect.  Operator actions that never leave the mutex are single steps. *)
(***************************************************************************)
EXTENDS Integers, FiniteSets

CONSTANTS
  Companion,       \* local ids a companion can be born with
  Did,             \* atproto accounts
  Origin,          \* canonical server origins
  Binder,          \* manager connection threads that serve the bind routes
  Worker,          \* threads that run a connect handshake
  Catalog,         \* ids of the available service classes
  Forum,           \* the service class a handshake enrolls at ("tangent")
  None,            \* the absent value (Rust's Option::None)
  New,             \* BindTarget::New
  FlightLimit,     \* BIND_FLIGHT_LIMIT
  MaxSignIns,      \* bound: sign-ins parked in a behaviour
  MaxRotations,    \* bound: refresh-token rotations of one grant
  MaxEnrollments   \* bound: enrollments ever made

ASSUME LimitsAssumption ==
  /\ FlightLimit \in Nat \ {0}
  /\ MaxSignIns \in Nat
  /\ MaxRotations \in Nat
  /\ MaxEnrollments \in Nat

ASSUME ServiceAssumption == Forum \in Catalog

ASSUME SentinelAssumption ==
  /\ None \notin Companion /\ None \notin Did /\ None \notin Origin
  /\ New \notin Companion
  /\ None # New

VARIABLES
  companions,   \* local ids in the store
  born,         \* local ids ever minted (ids are never reused)
  bound,        \* Companion.bound_did
  account,      \* atproto_sessions: the AccountSession of a companion, or None
  flights,      \* bind_flights: parked sign-ins, keyed and ordered by state
  started,      \* sign-ins parked so far: the source of fresh state values
  rotation,     \* at the authorization server: the live refresh token of a grant
  lost,         \* grants whose live refresh token never reached the store
  enrollments,  \* the enrollment records in the store
  sessions,     \* the account that established an enrollment's session, or None
  issued,       \* enrollment ids minted so far
  binder,       \* what each binder is doing
  worker        \* what each worker is doing

storeVars == <<companions, born, bound, account, enrollments, sessions, issued>>
signInVars == <<flights, started, binder>>
serverVars == <<rotation, lost>>
vars == <<storeVars, signInVars, serverVars, worker>>

-----------------------------------------------------------------------------
(* Data.  A grant (one OAuth authorization) is numbered by the state value  *)
(* of the sign-in that obtained it; a refresh token by how often its grant  *)
(* has rotated.                                                             *)

Grant == 1..MaxSignIns
EnrollmentId == 1..MaxEnrollments
Target == Companion \cup {New}

AccountSession ==
  [did: Did, grant: Grant, token: Nat, stale: BOOLEAN, services: SUBSET Catalog]

ASSUME SessionAssumption == None \notin AccountSession

Flight ==
  [state: Grant, target: Target, declared: Did \cup {None}, old: BOOLEAN]

Enrollment ==
  [id: EnrollmentId, companion: Companion, origin: Origin, did: Did]

IdleBinder ==
  [pc |-> "idle", target |-> New, declared |-> None, state |-> 0,
   did |-> None, services |-> {}]

IdleWorker ==
  [pc |-> "idle", companion |-> None, origin |-> None, broken |-> 0,
   did |-> None, account |-> None]

(* A fresh sign-in is granted the forum service (services: vec!["tangent"]).*)
DefaultServices == {Forum}

EnrollmentsAt(c, o) == {e \in enrollments : e.companion = c /\ e.origin = o}
EnrollmentsOf(c) == {e \in enrollments : e.companion = c}

HasSession(e) == sessions[e.id] # None

(* Mutant: a disconnect or a removal leaves the sessions in the map.        *)
SessionsLeft(gone) == sessions

(* The sessions map once the entries of a set of enrollments are dropped.   *)
Without(gone) ==
  [i \in EnrollmentId |->
     IF \E e \in gone : e.id = i THEN None ELSE sessions[i]]

(* The session and its mirror on the companion are written together.        *)
StoreAccount(c, session) ==
  /\ bound' = [bound EXCEPT ![c] = session.did]
  /\ account' = [account EXCEPT ![c] = session]

(* Mutant: the companion is not looked up again under the store lock.       *)
StoreUnchecked(c, session) == StoreAccount(c, session)

(* A companion deleted meanwhile is refused, and nothing is stored.         *)
StoreAtprotoSession(c, session) ==
  IF c \in companions
    THEN StoreAccount(c, session)
    ELSE UNCHANGED <<bound, account>>

(* Mutant: the binding is cleared and the account session forgotten about.  *)
AccountKept(c) == account

AccountCleared(c) == [account EXCEPT ![c] = None]

(* companion_by_bound_did: whom account d is bound to.                      *)
OwnersOf(d) == {c \in companions : bound[c] = d}

-----------------------------------------------------------------------------
(* The bind route: a sign-in starts, is parked, and is completed by the     *)
(* authorization server's callback.                                         *)

(* begin_atproto_bind up to its network calls: the target must exist.       *)
BeginBind(b, target, declared) ==
  /\ binder[b].pc = "idle"
  /\ target = New \/ target \in companions
  /\ binder' = [binder EXCEPT ![b] = [IdleBinder EXCEPT
                  !.pc = "parking", !.target = target, !.declared = declared]]
  /\ UNCHANGED <<storeVars, serverVars, flights, started, worker>>

Oldest(fs) == CHOOSE f \in fs : \A g \in fs : f.state <= g.state

(* The list never holds more than FlightLimit, so one push overflows by one.*)
Capped(fs) ==
  IF Cardinality(fs) > FlightLimit THEN fs \ {Oldest(fs)} ELSE fs

(* Mutant: an earlier sign-in of the same companion stays parked.           *)
KeptAlongside(target) == {f \in flights : ~f.old}

(* What a new sign-in leaves parked: nothing aged out, and no other sign-in *)
(* of the same existing companion.                                          *)
KeptFlights(target) ==
  {f \in flights : ~f.old /\ (target = New \/ f.target # target)}

(* The tail of begin_atproto_bind, under the flights lock.                  *)
ParkFlight(b) ==
  LET job == binder[b]
      flight == [state |-> started + 1, target |-> job.target,
                 declared |-> job.declared, old |-> FALSE]
  IN
  /\ job.pc = "parking"
  /\ started < MaxSignIns
  /\ started' = started + 1
  /\ flights' = Capped(KeptFlights(job.target) \cup {flight})
  /\ binder' = [binder EXCEPT ![b] = IdleBinder]
  /\ UNCHANGED <<storeVars, serverVars, worker>>

(* Time passes the flight TTL of the longest-parked sign-in.                *)
FlightAges(f) ==
  /\ f \in flights
  /\ ~f.old
  /\ \A g \in flights : g.state < f.state => g.old
  /\ flights' = (flights \ {f}) \cup {[f EXCEPT !.old = TRUE]}
  /\ UNCHANGED <<storeVars, serverVars, started, binder, worker>>

(* Mutant: the callback reads its flight and leaves it parked.              *)
FlightsRead(f) == flights

FlightsWithout(f) == flights \ {f}

(* The callback takes its flight out before it judges the flight's age.     *)
TakeFlight(b, f) ==
  /\ binder[b].pc = "idle"
  /\ f \in flights
  /\ flights' = FlightsWithout(f)
  /\ binder' = IF f.old
                 THEN binder
                 ELSE [binder EXCEPT ![b] = [IdleBinder EXCEPT
                         !.pc = "exchanging", !.target = f.target,
                         !.declared = f.declared, !.state = f.state]]
  /\ UNCHANGED <<storeVars, serverVars, started, worker>>

(* A start fails: discovery, the server's metadata or the pushed request.   *)
StartFails(b) ==
  /\ binder[b].pc = "parking"
  /\ binder' = [binder EXCEPT ![b] = IdleBinder]
  /\ UNCHANGED <<storeVars, serverVars, flights, started, worker>>

(* A callback fails after its flight was taken: the issuer, the code        *)
(* exchange, the declared account or the account's resolution.              *)
CallbackFails(b) ==
  /\ binder[b].pc = "exchanging"
  /\ binder' = [binder EXCEPT ![b] = IdleBinder]
  /\ UNCHANGED <<storeVars, serverVars, flights, started, worker>>

(* Bound: a sign-in that creates a companion needs a local id left for it.  *)
IdsLeft ==
  Cardinality({b \in Binder : binder[b].pc = "storing" /\ binder[b].target = New})
    < Cardinality(Companion \ born)

(* The exchange named account d; the owner of d and the grants to carry     *)
(* forward are read under the store lock, which is then released.           *)
CheckOwner(b, d) ==
  LET job == binder[b]
      carried == IF job.target \in companions /\ account[job.target] # None
                   THEN account[job.target].services
                   ELSE DefaultServices
  IN
  /\ job.pc = "exchanging"
  /\ job.declared \in {None, d}
  /\ job.target = New => IdsLeft
  /\ \E owner \in IF OwnersOf(d) = {} THEN {None} ELSE OwnersOf(d) :
       binder' = [binder EXCEPT ![b] =
                    IF owner \in {None, job.target}
                      THEN [pc |-> "storing", target |-> job.target,
                            declared |-> job.declared, state |-> job.state,
                            did |-> d, services |-> carried]
                      ELSE IdleBinder]
  /\ UNCHANGED <<storeVars, serverVars, flights, started, worker>>

SignedIn(b) ==
  [did |-> binder[b].did, grant |-> binder[b].state, token |-> 0,
   stale |-> FALSE, services |-> binder[b].services]

(* A re-bind stores into its companion; one deleted meanwhile is refused.   *)
BindExisting(b) ==
  /\ binder[b].pc = "storing"
  /\ binder[b].target # New
  /\ StoreAtprotoSession(binder[b].target, SignedIn(b))
  /\ binder' = [binder EXCEPT ![b] = IdleBinder]
  /\ UNCHANGED <<companions, born, enrollments, sessions, issued,
                 serverVars, flights, started, worker>>

(* Sign-in as creation: the companion is born already bound.                *)
BindNew(b, c) ==
  /\ binder[b].pc = "storing"
  /\ binder[b].target = New
  /\ c \in Companion \ born
  /\ companions' = companions \cup {c}
  /\ born' = born \cup {c}
  /\ StoreAccount(c, SignedIn(b))
  /\ binder' = [binder EXCEPT ![b] = IdleBinder]
  /\ UNCHANGED <<enrollments, sessions, issued, serverVars, flights, started,
                 worker>>

-----------------------------------------------------------------------------
(* The operator's single-step actions.                                      *)

(* Disconnect: the credential and every session it established go at once.  *)
Unbind(c) ==
  /\ c \in companions
  /\ bound' = [bound EXCEPT ![c] = None]
  /\ account' = AccountCleared(c)
  /\ sessions' = Without(EnrollmentsOf(c))
  /\ UNCHANGED <<companions, born, enrollments, issued, signInVars,
                 serverVars, worker>>

SetServices(c, services) ==
  /\ c \in companions
  /\ account[c] # None
  /\ account' = [account EXCEPT ![c] = [@ EXCEPT !.services = services]]
  /\ UNCHANGED <<companions, born, bound, enrollments, sessions, issued,
                 signInVars, serverVars, worker>>

RemoveEnrollments(gone) ==
  /\ enrollments' = enrollments \ gone
  /\ sessions' = Without(gone)

Forget(e) ==
  /\ e \in enrollments
  /\ RemoveEnrollments({e})
  /\ UNCHANGED <<companions, born, bound, account, issued, signInVars,
                 serverVars, worker>>

(* Deletion refuses while enrollments exist, unless it cascades.            *)
Delete(c, cascade) ==
  /\ c \in companions
  /\ cascade \/ EnrollmentsOf(c) = {}
  /\ RemoveEnrollments(EnrollmentsOf(c))
  /\ companions' = companions \ {c}
  /\ bound' = [bound EXCEPT ![c] = None]
  /\ account' = AccountCleared(c)
  /\ UNCHANGED <<born, issued, signInVars, serverVars, worker>>

(* Time carries an access token into its refresh margin.                    *)
AccessTokenAges(c) ==
  /\ account[c] # None
  /\ ~account[c].stale
  /\ account' = [account EXCEPT ![c] = [@ EXCEPT !.stale = TRUE]]
  /\ UNCHANGED <<companions, born, bound, enrollments, sessions, issued,
                 signInVars, serverVars, worker>>

-----------------------------------------------------------------------------
(* A handshake's enrollment: connect_enroll, then enroll_bound with its     *)
(* silent refresh.                                                          *)

(* connect_enroll reads the place's enrollment.  One with a session is used *)
(* as it is, and nothing changes.                                           *)
ConnectEnroll(w, c, o) ==
  /\ worker[w].pc = "idle"
  /\ c \in companions
  /\ \/ /\ EnrollmentsAt(c, o) = {}
        /\ worker' = [worker EXCEPT ![w] = [IdleWorker EXCEPT
                        !.pc = "enroll", !.companion = c, !.origin = o]]
     \/ \E e \in EnrollmentsAt(c, o) :
          /\ ~HasSession(e)
          /\ worker' = [worker EXCEPT ![w] = [IdleWorker EXCEPT
                          !.pc = "forgetting", !.companion = c, !.origin = o,
                          !.broken = e.id]]
  /\ UNCHANGED <<storeVars, signInVars, serverVars>>

(* The session-less record is forgotten first; already gone is not an error.*)
ForgetBroken(w) ==
  /\ worker[w].pc = "forgetting"
  /\ RemoveEnrollments({e \in enrollments : e.id = worker[w].broken})
  /\ worker' = [worker EXCEPT ![w].pc = "enroll", ![w].broken = 0]
  /\ UNCHANGED <<companions, born, bound, account, issued, signInVars,
                 serverVars>>

(* enroll_bound's checks, in one store guard.                               *)
Enrollable(c, o) ==
  /\ c \in companions
  /\ account[c] # None
  /\ Forum \in account[c].services
  /\ ~\E e \in EnrollmentsAt(c, o) : HasSession(e)
  /\ bound[c] = account[c].did

CheckEnroll(w) ==
  LET job == worker[w] IN
  /\ job.pc = "enroll"
  /\ worker' = [worker EXCEPT ![w] =
                  IF Enrollable(job.companion, job.origin)
                    THEN [job EXCEPT !.pc = "refresh",
                                     !.did = bound[job.companion]]
                    ELSE IdleWorker]
  /\ UNCHANGED <<storeVars, signInVars, serverVars>>

(* The companion's refresh mutex is held from the read to the store.        *)
HoldsRefresh(w, c) ==
  worker[w].companion = c /\ worker[w].pc \in {"rotating", "renewed"}

(* Mutant: refreshes of one companion are not serialized.                   *)
RefreshUnserialized(c) == TRUE

RefreshFree(c) == \A v \in Worker : ~HoldsRefresh(v, c)

(* Under the mutex the session is read anew: a fresh access token is used   *)
(* as it is, a stale one is refreshed.                                      *)
ReadSession(w) ==
  LET job == worker[w]
      session == account[job.companion]
  IN
  /\ job.pc = "refresh"
  /\ RefreshFree(job.companion)
  /\ worker' = [worker EXCEPT ![w] =
                  IF session = None
                    THEN IdleWorker
                    ELSE [job EXCEPT !.account = session,
                            !.pc = IF session.stale THEN "rotating"
                                                    ELSE "exchange"]]
  /\ UNCHANGED <<storeVars, signInVars, serverVars>>

(* The authorization server accepts only a grant's live refresh token, and  *)
(* may answer with another one that replaces it.                            *)
Rotates(session, token) ==
  /\ session.token = rotation[session.grant]
  /\ token <= MaxRotations
  /\ rotation' = [rotation EXCEPT ![session.grant] = token]

(* Mutant: the renewed session forgets whose account it is.                 *)
RenewedNameless(session, token) ==
  [did |-> None, grant |-> session.grant, token |-> token, stale |-> FALSE,
   services |-> session.services]

Renewed(session, token) ==
  [did |-> session.did, grant |-> session.grant, token |-> token,
   stale |-> FALSE, services |-> session.services]

RefreshAnswered(w) ==
  LET job == worker[w] IN
  /\ job.pc = "rotating"
  /\ \E token \in {job.account.token, job.account.token + 1} :
       /\ Rotates(job.account, token)
       /\ worker' = [worker EXCEPT ![w] = [job EXCEPT !.pc = "renewed",
                                      !.account = Renewed(job.account, token)]]
  /\ UNCHANGED <<storeVars, signInVars, lost>>

(* Mutant: a refresh the server will not answer is waited for.              *)
RefreshWaits(w) ==
  /\ worker[w].pc = "rotating"
  /\ Rotates(worker[w].account, worker[w].account.token + 1)
  /\ lost' = lost \cup {worker[w].account.grant}
  /\ worker' = [worker EXCEPT ![w] = IdleWorker]
  /\ UNCHANGED <<storeVars, signInVars>>

(* The refresh fails: refused or never sent, or rotated by the server but   *)
(* the answer was lost or named another account.                            *)
RefreshFails(w) ==
  /\ worker[w].pc = "rotating"
  /\ \/ UNCHANGED serverVars
     \/ /\ Rotates(worker[w].account, worker[w].account.token + 1)
        /\ lost' = lost \cup {worker[w].account.grant}
  /\ worker' = [worker EXCEPT ![w] = IdleWorker]
  /\ UNCHANGED <<storeVars, signInVars>>

(* store_atproto_session of the renewed clone; a failure is ignored.        *)
StoreRenewed(w) ==
  LET job == worker[w] IN
  /\ job.pc = "renewed"
  /\ StoreAtprotoSession(job.companion, job.account)
  /\ worker' = [worker EXCEPT ![w].pc = "exchange"]
  /\ UNCHANGED <<companions, born, enrollments, sessions, issued, signInVars,
                 serverVars>>

(* Discovery, the service-auth proof or the exchange fails.                 *)
ExchangeFails(w) ==
  /\ worker[w].pc = "exchange"
  /\ worker' = [worker EXCEPT ![w] = IdleWorker]
  /\ UNCHANGED <<storeVars, signInVars, serverVars>>

(* Mutant: the place is not looked at again after the exchange.             *)
NeverOccupied(there) == FALSE

(* The place gained a session while the exchange was in flight.             *)
Occupied(there) == \E e \in there : HasSession(e)

(* Mutant: the flushed record of the place is left beside the new one.      *)
RecordsBeside(there) == enrollments

RecordsWithout(there) == enrollments \ there

(* The exchange answered: under the store lock a place that gained a        *)
(* session meanwhile keeps it (the new one is discarded); otherwise the     *)
(* record is replaced.                                                      *)
StoreEnrollment(w) ==
  LET job == worker[w]
      there == EnrollmentsAt(job.companion, job.origin)
      entry == [id |-> issued + 1, companion |-> job.companion,
                origin |-> job.origin, did |-> job.did]
  IN
  /\ job.pc = "exchange"
  /\ IF Occupied(there)
       THEN UNCHANGED <<enrollments, sessions, issued>>
       ELSE /\ issued < MaxEnrollments
            /\ issued' = issued + 1
            /\ enrollments' = RecordsWithout(there) \cup {entry}
            /\ sessions' = [Without(there) EXCEPT ![entry.id] = job.account.did]
  /\ worker' = [worker EXCEPT ![w] = IdleWorker]
  /\ UNCHANGED <<companions, born, bound, account, signInVars, serverVars>>

-----------------------------------------------------------------------------
(* The process ends and is started again on what it saved: parked sign-ins  *)
(* and the threads' work are gone, and with them the answer of a refresh    *)
(* that was not yet stored.                                                 *)
Unstored ==
  {w \in Worker : worker[w].pc = "renewed"
                     /\ account[worker[w].companion] # None
                     /\ worker[w].account.token # account[worker[w].companion].token}

Restart ==
  /\ flights' = {}
  /\ binder' = [b \in Binder |-> IdleBinder]
  /\ worker' = [w \in Worker |-> IdleWorker]
  /\ lost' = lost \cup {worker[w].account.grant : w \in Unstored}
  /\ UNCHANGED <<storeVars, started, rotation>>

-----------------------------------------------------------------------------
Init ==
  /\ companions = {}
  /\ born = {}
  /\ bound = [c \in Companion |-> None]
  /\ account = [c \in Companion |-> None]
  /\ flights = {}
  /\ started = 0
  /\ rotation = [g \in Grant |-> 0]
  /\ lost = {}
  /\ enrollments = {}
  /\ sessions = [i \in EnrollmentId |-> None]
  /\ issued = 0
  /\ binder = [b \in Binder |-> IdleBinder]
  /\ worker = [w \in Worker |-> IdleWorker]

BinderStep(b) ==
  \/ \E target \in Target, declared \in Did \cup {None} :
       BeginBind(b, target, declared)
  \/ ParkFlight(b)
  \/ \E f \in flights : TakeFlight(b, f)
  \/ StartFails(b)
  \/ CallbackFails(b)
  \/ \E d \in Did : CheckOwner(b, d)
  \/ BindExisting(b)
  \/ \E c \in Companion : BindNew(b, c)

OperatorStep ==
  \/ \E c \in Companion : Unbind(c)
  \/ \E c \in Companion, services \in SUBSET Catalog : SetServices(c, services)
  \/ \E e \in enrollments : Forget(e)
  \/ \E c \in Companion, cascade \in BOOLEAN : Delete(c, cascade)

ClockStep ==
  \/ \E f \in flights : FlightAges(f)
  \/ \E c \in Companion : AccessTokenAges(c)

(* The steps of a started handshake that lead up to its exchange.           *)
Prepare(w) ==
  \/ ForgetBroken(w)
  \/ CheckEnroll(w)
  \/ ReadSession(w)
  \/ RefreshAnswered(w)
  \/ RefreshFails(w)
  \/ StoreRenewed(w)

WorkerStep(w) ==
  \/ \E c \in Companion, o \in Origin : ConnectEnroll(w, c, o)
  \/ Prepare(w)
  \/ ExchangeFails(w)
  \/ StoreEnrollment(w)

Next ==
  \/ \E b \in Binder : BinderStep(b)
  \/ \E w \in Worker : WorkerStep(w)
  \/ OperatorStep
  \/ ClockStep
  \/ Restart

Spec == Init /\ [][Next]_vars

(* A started handshake runs up to its exchange: the refresh's calls time    *)
(* out, and a thread blocked on the refresh mutex gets it when it is        *)
(* released again and again.  An exchange may last for ever (the mint of    *)
(* its proof has no read timeout), and nothing obliges the operator, or a   *)
(* sign-in, to do anything.                                                 *)
Fairness ==
  \A w \in Worker : WF_vars(Prepare(w)) /\ SF_vars(ReadSession(w))

FairSpec == Spec /\ Fairness

-----------------------------------------------------------------------------
(* Properties.                                                              *)

BinderState ==
  [pc: {"idle", "parking", "exchanging", "storing"}, target: Target,
   declared: Did \cup {None}, state: Grant \cup {0}, did: Did \cup {None},
   services: SUBSET Catalog]

WorkerState ==
  [pc: {"idle", "forgetting", "enroll", "refresh", "rotating", "renewed",
        "exchange"},
   companion: Companion \cup {None}, origin: Origin \cup {None},
   broken: EnrollmentId \cup {0}, did: Did \cup {None},
   account: AccountSession \cup {None}]

(* Every variable has the shape the code's structures give it.              *)
TypeOK ==
  /\ companions \subseteq born
  /\ born \subseteq Companion
  /\ bound \in [Companion -> Did \cup {None}]
  /\ account \in [Companion -> AccountSession \cup {None}]
  /\ flights \subseteq Flight
  /\ started \in 0..MaxSignIns
  /\ rotation \in [Grant -> Nat]
  /\ lost \subseteq Grant
  /\ enrollments \subseteq Enrollment
  /\ sessions \in [EnrollmentId -> Did \cup {None}]
  /\ issued \in 0..MaxEnrollments
  /\ binder \in [Binder -> BinderState]
  /\ worker \in [Worker -> WorkerState]

(* "Starting a new bind for the same companion replaces its in-flight one"  *)
(* (begin_atproto_bind): an existing companion never has two sign-ins       *)
(* parked, however many connection threads start them.                      *)
OneFlightPerCompanion ==
  \A f, g \in flights : f.target = g.target /\ f # g => f.target = New

(* A sign-in is single use: while one callback completes it no other can    *)
(* take it, and the grant it will obtain is not yet anybody's account.      *)
FlightSingleUse ==
  \A b \in Binder : binder[b].pc \in {"exchanging", "storing"} =>
    /\ \A f \in flights : f.state # binder[b].state
    /\ \A a \in Binder \ {b} : binder[a].pc \in {"exchanging", "storing"} =>
         binder[a].state # binder[b].state
    /\ \A c \in Companion : account[c] # None =>
         account[c].grant # binder[b].state

(* "mirrors the companion's bound_did" (AccountSession.did): no chain of    *)
(* binds, refreshes, disconnects and deletions leaves a companion bound to  *)
(* one account and holding the session of another, so enroll_bound's        *)
(* atproto_binding_stale refusal is never the answer.                       *)
BoundMirrorsAccount ==
  \A c \in Companion :
    bound[c] = IF account[c] = None THEN None ELSE account[c].did

(* A deleted companion holds no credential, even when a sign-in or a        *)
(* refresh that began before the deletion stores its result afterwards.     *)
DeletedHoldsNothing ==
  \A c \in Companion \ companions : account[c] = None

(* Unless an answer was lost, on the way or to a restart before it was      *)
(* stored, the refresh token a companion holds is the one the authorization *)
(* server accepts, whenever no refresh of that companion is running; and a  *)
(* running refresh presented it.  Two refreshes from one token would have   *)
(* the second refused and the companion's working sign-in reported expired. *)
TokenCurrent ==
  /\ \A c \in Companion :
       account[c] # None /\ RefreshFree(c) /\ account[c].grant \notin lost
         => account[c].token = rotation[account[c].grant]
  /\ \A w \in Worker :
       worker[w].pc = "rotating" /\ worker[w].account.grant \notin lost
         => worker[w].account.token = rotation[worker[w].account.grant]

(* One companion has at most one enrollment at one origin: enrollment_at's  *)
(* first match is the only one, across concurrent handshakes, forgets and   *)
(* flushes.                                                                 *)
OneEnrollmentPerPlace ==
  \A d, e \in enrollments :
    d.companion = e.companion /\ d.origin = e.origin => d = e

(* Only the operator ends a session: no handshake's step, not even          *)
(* forgetting the session-less record it read some steps ago, removes or    *)
(* replaces a stored session (already_enrolled, "intact").                  *)
HandshakesKeepSessions ==
  [][(\E w \in Worker : WorkerStep(w)) =>
       \A i \in EnrollmentId : sessions[i] # None => sessions'[i] = sessions[i]]_vars

(* The refresh mutex strands nobody: every handshake that has not come to   *)
(* its exchange gets there or ends, though other handshakes of the          *)
(* companion refresh, fail, or hang in an exchange for good, and their      *)
(* companion is signed in, disconnected or deleted under them.              *)
BeforeExchange(w) == worker[w].pc \notin {"idle", "exchange"}

RefreshesEnd ==
  \A w \in Worker : BeforeExchange(w) ~> ~BeforeExchange(w)

(* "One account, one companion" (README.md): the account's DID is the       *)
(* uniqueness key.  Two callbacks that overlap break it: each looks the     *)
(* owner up before the other has stored.                                    *)
OneAccountOneCompanion ==
  \A c, d \in companions : bound[c] # None /\ bound[c] = bound[d] => c = d

(* Companions hold an account only from a completed sign-in: once           *)
(* disconnected, only a sign-in gives a companion an account again.         *)
OnlySignInBinds ==
  [][\A c \in Companion : account[c] = None /\ account'[c] # None =>
       \E b \in Binder : binder[b].pc = "storing" /\ binder'[b].pc = "idle"]_vars

-----------------------------------------------------------------------------
(* The store as a handshake sees it (Accounts): who is usable, who is       *)
(* granted the service, and which places have a session.                    *)

(* usable_binding: a bound_did with a matching stored session.              *)
Usable ==
  {c \in companions : account[c] # None /\ bound[c] = account[c].did}

Granted == {c \in Usable : Forum \in account[c].services}

Seats == {<<e.companion, e.origin>> : e \in {d \in enrollments : HasSession(d)}}

A == INSTANCE Accounts WITH usable <- Usable, granted <- Granted, seats <- Seats

(* Between any two looks a handshake takes at the store, credentials come   *)
(* and go whole: a disconnect or a deletion takes the grant and every       *)
(* session of the companion in its one step ("immediately, every session    *)
(* that credential established", unbind_atproto), nothing else ends a       *)
(* usable binding, a deleted companion never gets one again, and a session  *)
(* appears only at a place that has none.                                   *)
StoreAsPromised == A!Spec

(* Grants and the keys to them (Keyring): what a companion holds, and what  *)
(* a refresh of its session is about to store again.                        *)
KeyOf(session) == [grant |-> session.grant, did |-> session.did]

KeysOf(c) ==
  {KeyOf(s) : s \in {account[c]} \ {None}}
    \cup {KeyOf(worker[w].account) : w \in {v \in Worker : HoldsRefresh(v, c)}}

(* No sign-in, parked or being completed, can still obtain these.           *)
SpentGrants ==
  {g \in 1..started :
     /\ \A f \in flights : f.state # g
     /\ \A b \in Binder : binder[b].pc \in {"exchanging", "storing"} =>
          binder[b].state # g}

K == INSTANCE Keyring WITH
       spent <- SpentGrants, keys <- [c \in Companion |-> KeysOf(c)]

(* A companion comes to hold an account only by a sign-in of its own that   *)
(* was not completed before, and an account it lost (by a disconnect, a     *)
(* re-bind or a deletion) while no refresh had it in flight never comes     *)
(* back to it, nor to another companion.                                    *)
KeysComeOnce == K!Spec

=============================================================================
