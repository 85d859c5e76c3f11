----------------------- MODULE Custody_grants_proofs -----------------------
(* Theorems about the grants that sign-ins obtain and handshakes refresh,  *)
(* for every value of Custody's constants.                                 *)
EXTENDS Custody_proofs

(* A callback is completing a sign-in.                                      *)
Completing(b) == binder[b].pc \in {"exchanging", "storing"}

(* A refresh has read its companion's session and not yet stored it.        *)
Refreshing(w) == worker[w].pc \in {"rotating", "renewed"}

(* No sign-in, parked or being completed, can still obtain this grant.      *)
Spent(g) ==
  /\ g <= started
  /\ \A f \in flights : f.state # g
  /\ \A b \in Binder : Completing(b) => binder[b].state # g

(* State values are minted in order, and each is in one place.              *)
StatesUnique ==
  /\ \A f \in flights : f.state <= started
  /\ \A f, g \in flights : f.state = g.state => f = g
  /\ \A b \in Binder : Completing(b) =>
       /\ binder[b].state <= started
       /\ \A f \in flights : f.state # binder[b].state
  /\ \A a, b \in Binder :
       Completing(a) /\ Completing(b) /\ a # b =>
         binder[a].state # binder[b].state

(* Whatever is or will be stored as an account, or was ever rotated, came   *)
(* from a sign-in that is over.                                             *)
GrantsSpent ==
  /\ \A c \in Companion : account[c] # None => Spent(account[c].grant)
  /\ \A w \in Worker : Refreshing(w) => Spent(worker[w].account.grant)
  /\ \A g \in Grant : rotation[g] # 0 => Spent(g)

SingleUse == StatesUnique /\ GrantsSpent

(* One companion holds a grant, and one refresh at a time uses it.          *)
GrantsApart ==
  /\ \A c, d \in Companion :
       account[c] # None /\ account[d] # None /\ c # d =>
         account[c].grant # account[d].grant
  /\ \A w \in Worker, d \in Companion :
       Refreshing(w) /\ account[d] # None /\ d # worker[w].companion =>
         account[d].grant # worker[w].account.grant
  /\ \A v, w \in Worker :
       Refreshing(v) /\ Refreshing(w) /\ v # w =>
         /\ worker[v].companion # worker[w].companion
         /\ worker[v].account.grant # worker[w].account.grant

(* What a companion holds is current unless a refresh is about to replace   *)
(* it; what a refresh holds is current.                                     *)
TokensLive ==
  /\ \A c \in Companion :
       account[c] # None /\ account[c].grant \notin lost
       /\ (\A w \in Worker : worker[w].pc = "renewed" =>
             worker[w].account.grant # account[c].grant)
         => account[c].token = rotation[account[c].grant]
  /\ \A w \in Worker :
       Refreshing(w) /\ worker[w].account.grant \notin lost
         => worker[w].account.token = rotation[worker[w].account.grant]

TokenInv == SingleUse /\ GrantsApart /\ TokensLive

-----------------------------------------------------------------------------
LEMMA AccountHeld ==
  ASSUME TypeInv, NEW c \in Companion, account[c] # None
  PROVE  account[c].grant \in Grant /\ account[c].token \in Nat
  BY DEF TypeInv, TypeOK, AccountSession

LEMMA RefreshHeld ==
  ASSUME TypeInv, NEW w \in Worker, Refreshing(w)
  PROVE  /\ worker[w].companion \in Companion
         /\ worker[w].account \in AccountSession
         /\ worker[w].account # None
         /\ worker[w].account.grant \in Grant
         /\ worker[w].account.token \in Nat
  BY SessionAssumption DEF TypeInv, Learned, Refreshing, AccountSession

LEMMA JobUpdated ==
  ASSUME TypeInv, NEW w \in Worker, NEW j, worker' = [worker EXCEPT ![w] = j]
  PROVE  \A v \in Worker : worker'[v] = IF v = w THEN j ELSE worker[v]
  BY DEF TypeInv, TypeOK

LEMMA BinderUpdated ==
  ASSUME TypeInv, NEW b \in Binder, NEW j, binder' = [binder EXCEPT ![b] = j]
  PROVE  \A a \in Binder : binder'[a] = IF a = b THEN j ELSE binder[a]
  BY DEF TypeInv, TypeOK

LEMMA TokenInit == Init => TokenInv
  BY LimitsAssumption
  DEF Init, TokenInv, SingleUse, StatesUnique, GrantsSpent, GrantsApart,
      TokensLive, Completing, Refreshing, IdleBinder, IdleWorker

-----------------------------------------------------------------------------
(* Sign-ins.                                                                *)

(* Binders let sign-ins go or keep the ones they are completing.            *)
LEMMA SignInsReleased ==
  ASSUME StatesUnique, flights' \subseteq flights, started' = started,
         \A a \in Binder : Completing(a)' =>
           Completing(a) /\ binder'[a].state = binder[a].state
  PROVE  StatesUnique' /\ \A g \in Grant : Spent(g) => Spent(g)'
  BY DEF StatesUnique, Spent

LEMMA ParkUnique ==
  ASSUME TypeInv, StatesUnique, NEW b \in Binder, ParkFlight(b)
  PROVE  StatesUnique' /\ \A g \in Grant : Spent(g) => Spent(g)'
  <1> DEFINE flight == [state |-> started + 1, target |-> binder[b].target,
                        declared |-> binder[b].declared, old |-> FALSE]
  <1>1. /\ flights' \subseteq flights \cup {flight}
        /\ started' = started + 1 /\ started \in Nat
    BY CappedSubset, LimitsAssumption
    DEF ParkFlight, KeptFlights, TypeInv, TypeOK
  <1>2. flight.state = started + 1
    OBVIOUS
  <1>3. \A a \in Binder : Completing(a)' => Completing(a) /\ binder'[a] = binder[a]
    <2>1. binder' = [binder EXCEPT ![b] = IdleBinder]
      BY DEF ParkFlight
    <2>2. QED
      BY <2>1, BinderUpdated DEF Completing, IdleBinder
  <1>4. /\ \A f \in flights : f.state \in Nat
        /\ \A a \in Binder : Completing(a) => binder[a].state \in Nat
        /\ \A g \in Grant : g \in Nat
    BY LimitsAssumption
    DEF TypeInv, TypeOK, Learned, Flight, Grant, Completing
  <1> HIDE DEF flight
  <1>5. StatesUnique'
    BY <1>1, <1>2, <1>3, <1>4 DEF StatesUnique
  <1>6. ASSUME NEW g \in Grant, Spent(g) PROVE Spent(g)'
    BY <1>1, <1>2, <1>3, <1>4, <1>6 DEF Spent
  <1>7. QED
    BY <1>5, <1>6

LEMMA TakeUnique ==
  ASSUME TypeInv, StatesUnique, NEW b \in Binder, NEW f \in flights,
         TakeFlight(b, f)
  PROVE  StatesUnique' /\ \A g \in Grant : Spent(g) => Spent(g)'
  <1> DEFINE job == [IdleBinder EXCEPT
                       !.pc = "exchanging", !.target = f.target,
                       !.declared = f.declared, !.state = f.state]
  <1>1. flights' = flights \ {f} /\ started' = started
    BY DEF TakeFlight, FlightsWithout
  <1>2. CASE binder' = binder
    BY <1>1, <1>2, SignInsReleased DEF Completing
  <1>3. CASE binder' = [binder EXCEPT ![b] = job]
    <2>1. job.state = f.state
      BY DEF IdleBinder
    <2> HIDE DEF job
    <2>2. \A a \in Binder : binder'[a] = IF a = b THEN job ELSE binder[a]
      BY <1>3, BinderUpdated
    <2>3. QED
      BY <1>1, <2>1, <2>2 DEF StatesUnique, Spent, Completing
  <1>4. QED
    BY <1>2, <1>3 DEF TakeFlight

LEMMA AgeUnique ==
  ASSUME TypeInv, StatesUnique, NEW f \in flights, FlightAges(f)
  PROVE  StatesUnique' /\ \A g \in Grant : Spent(g) => Spent(g)'
  <1> DEFINE aged == [f EXCEPT !.old = TRUE]
  <1>1. aged.state = f.state
    BY DEF TypeInv, TypeOK, Flight
  <1>2. /\ flights' = (flights \ {f}) \cup {aged}
        /\ UNCHANGED <<started, binder>>
    BY DEF FlightAges
  <1> HIDE DEF aged
  <1>3. QED
    BY <1>1, <1>2 DEF StatesUnique, Spent, Completing

-----------------------------------------------------------------------------
(* Steps that leave accounts, refreshes and the authorization server alone. *)
LEMMA TokenSame ==
  ASSUME TypeInv, TokenInv, StatesUnique',
         \A g \in Grant : Spent(g) => Spent(g)',
         UNCHANGED <<account, worker, rotation, lost>>
  PROVE  TokenInv'
  <1>1. GrantsSpent'
    BY AccountHeld, RefreshHeld
    DEF TokenInv, SingleUse, GrantsSpent, Refreshing
  <1>2. GrantsApart' /\ TokensLive'
    BY DEF TokenInv, GrantsApart, TokensLive, Refreshing
  <1>3. QED
    BY <1>1, <1>2 DEF TokenInv, SingleUse

(* A completed sign-in becomes a companion's account.                       *)
LEMMA TokenSignedIn ==
  ASSUME TypeInv, TokenInv, NEW b \in Binder, binder[b].pc = "storing",
         NEW c \in Companion, StoreAccount(c, SignedIn(b)),
         binder' = [binder EXCEPT ![b] = IdleBinder],
         UNCHANGED <<flights, started, worker, rotation, lost>>
  PROVE  TokenInv'
  <1>0. PICK s \in Grant : s = binder[b].state
    BY DEF TypeInv, Learned
  <1>1. /\ SignedIn(b).grant = s /\ SignedIn(b).token = 0
        /\ SignedIn(b) \in AccountSession
    BY <1>0, SignedInType DEF SignedIn
  <1>2. \A d \in Companion :
          account'[d] = IF d = c THEN SignedIn(b) ELSE account[d]
    BY DEF StoreAccount, TypeInv, TypeOK
  <1>3. \A a \in Binder : Completing(a)' => Completing(a) /\ a # b
                                              /\ binder'[a] = binder[a]
    <2>1. \A a \in Binder : binder'[a] = IF a = b THEN IdleBinder ELSE binder[a]
      BY BinderUpdated
    <2>2. IdleBinder.pc = "idle"
      BY DEF IdleBinder
    <2>3. QED
      BY <2>1, <2>2 DEF Completing
  <1>4. StatesUnique' /\ \A g \in Grant : Spent(g) => Spent(g)'
    BY <1>3, SignInsReleased DEF TokenInv, SingleUse
  <1>5. Completing(b) /\ ~Spent(s)
    BY <1>0 DEF Completing, Spent
  <1>6. Spent(s)'
    BY <1>0, <1>3, <1>5 DEF Spent, TokenInv, SingleUse, StatesUnique
  <1>7. GrantsSpent'
    BY <1>1, <1>2, <1>4, <1>6, AccountHeld, RefreshHeld
    DEF TokenInv, SingleUse, GrantsSpent, Refreshing
  <1>8. /\ \A d \in Companion : account[d] # None => account[d].grant # s
        /\ \A w \in Worker : Refreshing(w) => worker[w].account.grant # s
        /\ rotation[s] = 0
    BY <1>1, <1>5 DEF TokenInv, SingleUse, GrantsSpent
  <1>9. GrantsApart'
    BY <1>1, <1>2, <1>8 DEF TokenInv, GrantsApart, Refreshing
  <1>10. TokensLive'
    BY <1>1, <1>2, <1>8 DEF TokenInv, TokensLive, Refreshing
  <1>11. QED
    BY <1>4, <1>7, <1>9, <1>10 DEF TokenInv, SingleUse

LEMMA TokenBinder ==
  ASSUME TypeInv, TokenInv, NEW b \in Binder, BinderStep(b)
  PROVE  TokenInv'
  <1> USE DEF storeVars, serverVars
  <1>1. ASSUME NEW j, binder' = [binder EXCEPT ![b] = j],
               j.pc \in {"exchanging", "storing"} =>
                 Completing(b) /\ j.state = binder[b].state,
               UNCHANGED <<flights, started, account, worker, rotation, lost>>
        PROVE  TokenInv'
    <2>1. \A a \in Binder : Completing(a)' =>
            Completing(a) /\ binder'[a].state = binder[a].state
      BY <1>1, BinderUpdated DEF Completing
    <2>2. QED
      BY <1>1, <2>1, SignInsReleased, TokenSame DEF TokenInv, SingleUse
  <1>2. IdleBinder.pc = "idle"
    BY DEF IdleBinder
  <1>3. ASSUME NEW target \in Target, NEW declared \in Did \cup {None},
               BeginBind(b, target, declared)
        PROVE  TokenInv'
    <2> DEFINE j == [IdleBinder EXCEPT
                       !.pc = "parking", !.target = target, !.declared = declared]
    <2>1. j.pc = "parking"
      BY DEF IdleBinder
    <2>2. binder' = [binder EXCEPT ![b] = j]
      BY <1>3 DEF BeginBind
    <2> HIDE DEF j
    <2>3. QED
      BY <1>1, <1>3, <2>1, <2>2 DEF BeginBind
  <1>4. CASE ParkFlight(b)
    BY <1>4, ParkUnique, TokenSame DEF ParkFlight, TokenInv, SingleUse
  <1>5. ASSUME NEW f \in flights, TakeFlight(b, f)
        PROVE  TokenInv'
    BY <1>5, TakeUnique, TokenSame DEF TakeFlight, TokenInv, SingleUse
  <1>6. CASE StartFails(b)
    BY <1>1, <1>2, <1>6 DEF StartFails
  <1>7. CASE CallbackFails(b)
    BY <1>1, <1>2, <1>7 DEF CallbackFails
  <1>8. ASSUME NEW d \in Did, CheckOwner(b, d)
        PROVE  TokenInv'
    <2> DEFINE carried == IF binder[b].target \in companions
                               /\ account[binder[b].target] # None
                            THEN account[binder[b].target].services
                            ELSE DefaultServices
               checked == [pc |-> "storing", target |-> binder[b].target,
                           declared |-> binder[b].declared,
                           state |-> binder[b].state, did |-> d,
                           services |-> carried]
    <2>1. binder' = [binder EXCEPT ![b] = checked]
            \/ binder' = [binder EXCEPT ![b] = IdleBinder]
      BY <1>8 DEF CheckOwner
    <2> HIDE DEF carried
    <2>2. checked.state = binder[b].state
      OBVIOUS
    <2> HIDE DEF checked
    <2>3. Completing(b)
      BY <1>8 DEF CheckOwner, Completing
    <2>4. QED
      BY <1>1, <1>2, <1>8, <2>1, <2>2, <2>3 DEF CheckOwner
  <1>9. CASE BindExisting(b)
    <2>1. binder[b].target \in Companion
      BY <1>9 DEF BindExisting, TypeInv, TypeOK, BinderState, Target
    <2>2. CASE binder[b].target \in companions
      BY <1>9, <2>1, <2>2, TokenSignedIn DEF BindExisting, StoreAtprotoSession
    <2>3. CASE binder[b].target \notin companions
      BY <1>1, <1>2, <1>9, <2>3 DEF BindExisting, StoreAtprotoSession
    <2>4. QED
      BY <2>2, <2>3
  <1>10. ASSUME NEW c \in Companion, BindNew(b, c)
         PROVE  TokenInv'
    BY <1>10, TokenSignedIn DEF BindNew
  <1>11. QED
    BY <1>3, <1>4, <1>5, <1>6, <1>7, <1>8, <1>9, <1>10 DEF BinderStep

-----------------------------------------------------------------------------
(* The operator and the clock drop account sessions or keep their tokens.   *)
LEMMA TokenAccountsKept ==
  ASSUME TypeInv, TokenInv,
         \A c \in Companion : account'[c] # None =>
           /\ account[c] # None
           /\ account'[c].grant = account[c].grant
           /\ account'[c].token = account[c].token,
         UNCHANGED <<flights, started, binder, worker, rotation, lost>>
  PROVE  TokenInv'
  <1>1. StatesUnique' /\ \A g \in Grant : Spent(g) => Spent(g)'
    BY SignInsReleased DEF TokenInv, SingleUse, Completing
  <1>2. GrantsSpent'
    BY <1>1, AccountHeld, RefreshHeld
    DEF TokenInv, SingleUse, GrantsSpent, Refreshing
  <1>3. GrantsApart'
    BY DEF TokenInv, GrantsApart, Refreshing
  <1>4. TokensLive'
    BY DEF TokenInv, TokensLive, Refreshing
  <1>5. QED
    BY <1>1, <1>2, <1>3, <1>4 DEF TokenInv, SingleUse

LEMMA TokenOperator ==
  ASSUME TypeInv, TokenInv, OperatorStep \/ ClockStep
  PROVE  TokenInv'
  <1> USE DEF storeVars, signInVars, serverVars
  <1>1. ASSUME NEW c \in Companion, account' = AccountCleared(c),
               UNCHANGED <<flights, started, binder, worker, rotation, lost>>
        PROVE  TokenInv'
    <2>1. \A d \in Companion :
            account'[d] = IF d = c THEN None ELSE account[d]
      BY <1>1 DEF AccountCleared, TypeInv, TypeOK
    <2>2. QED
      BY <1>1, <2>1, TokenAccountsKept
  <1>2. ASSUME NEW c \in Companion, NEW changed,
               account[c] # None,
               changed.grant = account[c].grant, changed.token = account[c].token,
               account' = [account EXCEPT ![c] = changed],
               UNCHANGED <<flights, started, binder, worker, rotation, lost>>
        PROVE  TokenInv'
    <2>1. \A d \in Companion :
            account'[d] = IF d = c THEN changed ELSE account[d]
      BY <1>2 DEF TypeInv, TypeOK
    <2>2. QED
      BY <1>2, <2>1, TokenAccountsKept
  <1>3. ASSUME NEW c \in Companion, Unbind(c)
        PROVE  TokenInv'
    BY <1>1, <1>3 DEF Unbind
  <1>4. ASSUME NEW c \in Companion, NEW services \in SUBSET Catalog,
               SetServices(c, services)
        PROVE  TokenInv'
    <2> DEFINE changed == [account[c] EXCEPT !.services = services]
    <2>1. account[c] # None /\ account[c] \in AccountSession
      BY <1>4 DEF SetServices, TypeInv, TypeOK
    <2>2. changed.grant = account[c].grant /\ changed.token = account[c].token
      BY <2>1 DEF AccountSession
    <2>3. account' = [account EXCEPT ![c] = changed]
      BY <1>4 DEF SetServices
    <2> HIDE DEF changed
    <2>4. QED
      BY <1>2, <1>4, <2>1, <2>2, <2>3 DEF SetServices
  <1>5. ASSUME NEW e \in enrollments, Forget(e)
        PROVE  TokenInv'
    BY <1>5, TokenAccountsKept DEF Forget
  <1>6. ASSUME NEW c \in Companion, NEW cascade \in BOOLEAN, Delete(c, cascade)
        PROVE  TokenInv'
    BY <1>1, <1>6 DEF Delete
  <1>7. ASSUME NEW f \in flights, FlightAges(f)
        PROVE  TokenInv'
    BY <1>7, AgeUnique, TokenSame DEF FlightAges, TokenInv, SingleUse
  <1>8. ASSUME NEW c \in Companion, AccessTokenAges(c)
        PROVE  TokenInv'
    <2> DEFINE changed == [account[c] EXCEPT !.stale = TRUE]
    <2>1. account[c] # None /\ account[c] \in AccountSession
      BY <1>8 DEF AccessTokenAges, TypeInv, TypeOK
    <2>2. changed.grant = account[c].grant /\ changed.token = account[c].token
      BY <2>1 DEF AccountSession
    <2>3. account' = [account EXCEPT ![c] = changed]
      BY <1>8 DEF AccessTokenAges
    <2> HIDE DEF changed
    <2>4. QED
      BY <1>2, <1>8, <2>1, <2>2, <2>3 DEF AccessTokenAges
  <1>9. QED
    BY <1>3, <1>4, <1>5, <1>6, <1>7, <1>8 DEF OperatorStep, ClockStep

-----------------------------------------------------------------------------
(* The refresh itself.                                                      *)

(* No step of a handshake touches a sign-in.                                *)
LEMMA SpentSame ==
  ASSUME StatesUnique, UNCHANGED signInVars
  PROVE  StatesUnique' /\ \A g \in Grant : Spent(g) => Spent(g)'
  BY SignInsReleased DEF signInVars, Completing

(* A handshake away from its refresh, or giving one up unanswered.          *)
LEMMA TokenAway ==
  ASSUME TypeInv, TokenInv, NEW w \in Worker, NEW j,
         worker' = [worker EXCEPT ![w] = j], worker[w].pc # "renewed",
         j.pc \notin {"rotating", "renewed"},
         UNCHANGED <<account, rotation, lost>>, UNCHANGED signInVars
  PROVE  TokenInv'
  <1>1. \A v \in Worker : worker'[v] = IF v = w THEN j ELSE worker[v]
    BY JobUpdated
  <1>2. StatesUnique' /\ \A g \in Grant : Spent(g) => Spent(g)'
    BY SpentSame DEF TokenInv, SingleUse
  <1>3. GrantsSpent'
    BY <1>1, <1>2, AccountHeld, RefreshHeld
    DEF TokenInv, SingleUse, GrantsSpent, Refreshing
  <1>4. GrantsApart'
    BY <1>1 DEF TokenInv, GrantsApart, Refreshing
  <1>5. TokensLive'
    BY <1>1 DEF TokenInv, TokensLive, Refreshing
  <1>6. QED
    BY <1>2, <1>3, <1>4, <1>5 DEF TokenInv, SingleUse

(* Under the companion's refresh mutex, a stale session is read.            *)
LEMMA TokenRead ==
  ASSUME TypeInv, TokenInv, NEW w \in Worker, NEW j,
         worker[w].pc = "refresh", RefreshFree(worker[w].companion),
         worker' = [worker EXCEPT ![w] = j],
         j.pc = "rotating", j.companion = worker[w].companion,
         j.account = account[worker[w].companion], j.account # None,
         UNCHANGED <<account, rotation, lost>>, UNCHANGED signInVars
  PROVE  TokenInv'
  <1> DEFINE c == worker[w].companion
  <1>0. PICK d \in Companion : d = c
    BY DEF TypeInv, Learned
  <1>1. \A v \in Worker : worker'[v] = IF v = w THEN j ELSE worker[v]
    BY JobUpdated
  <1>2. StatesUnique' /\ \A g \in Grant : Spent(g) => Spent(g)'
    BY SpentSame DEF TokenInv, SingleUse
  <1>3. /\ j.account.grant \in Grant /\ Spent(j.account.grant)
        /\ account[d] = j.account
    BY <1>0, AccountHeld DEF TokenInv, SingleUse, GrantsSpent
  <1>4. \A v \in Worker : Refreshing(v) =>
          /\ v # w /\ worker[v].companion # d
          /\ worker[v].account.grant # j.account.grant
    BY <1>0, <1>3
    DEF RefreshFree, HoldsRefresh, Refreshing, TokenInv, GrantsApart
  <1>5. GrantsSpent'
    BY <1>1, <1>2, <1>3, AccountHeld, RefreshHeld
    DEF TokenInv, SingleUse, GrantsSpent, Refreshing
  <1>6. GrantsApart'
    BY <1>0, <1>1, <1>3, <1>4 DEF TokenInv, GrantsApart, Refreshing
  <1>7. TokensLive'
    BY <1>0, <1>1, <1>3, <1>4 DEF TokenInv, TokensLive, Refreshing
  <1>8. QED
    BY <1>2, <1>5, <1>6, <1>7 DEF TokenInv, SingleUse

LEMMA RotationUpdated ==
  ASSUME TypeInv, NEW session \in AccountSession, NEW token, Rotates(session, token)
  PROVE  \A g \in Grant :
           rotation'[g] = IF g = session.grant THEN token ELSE rotation[g]
  BY DEF TypeInv, TypeOK, AccountSession, Rotates

(* The authorization server answered, and perhaps rotated the grant.        *)
LEMMA TokenAnswered ==
  ASSUME TypeInv, TokenInv, NEW w \in Worker, NEW j, NEW token,
         worker[w].pc = "rotating", Rotates(worker[w].account, token),
         worker' = [worker EXCEPT ![w] = j],
         j.pc = "renewed", j.companion = worker[w].companion,
         j.account = Renewed(worker[w].account, token),
         UNCHANGED <<account, lost>>, UNCHANGED signInVars
  PROVE  TokenInv'
  <1>0. Refreshing(w)
    BY DEF Refreshing
  <1>1. \A v \in Worker : worker'[v] = IF v = w THEN j ELSE worker[v]
    BY JobUpdated
  <1>2. StatesUnique' /\ \A g \in Grant : Spent(g) => Spent(g)'
    BY SpentSame DEF TokenInv, SingleUse
  <1>3. PICK g \in Grant : g = worker[w].account.grant
    BY <1>0, RefreshHeld
  <1>4. j.account.grant = g /\ j.account.token = token
    BY <1>3 DEF Renewed
  <1>5. \A h \in Grant : rotation'[h] = IF h = g THEN token ELSE rotation[h]
    BY <1>0, <1>3, RefreshHeld, RotationUpdated
  <1>6. GrantsSpent'
    BY <1>0, <1>1, <1>2, <1>3, <1>4, <1>5, AccountHeld, RefreshHeld
    DEF TokenInv, SingleUse, GrantsSpent, Refreshing
  <1>7. GrantsApart'
    BY <1>0, <1>1, <1>3, <1>4 DEF TokenInv, GrantsApart, Refreshing
  <1>8. \A v \in Worker : Refreshing(v) /\ v # w =>
          /\ worker[v].account.grant # g
          /\ worker[v].account.grant \in Grant
    BY <1>0, <1>3, RefreshHeld DEF TokenInv, GrantsApart
  <1>9. \A d \in Companion :
          account[d] # None => account[d].grant \in Grant
    BY AccountHeld
  <1>10. TokensLive'
    BY <1>0, <1>1, <1>4, <1>5, <1>8, <1>9 DEF TokenInv, TokensLive, Refreshing
  <1>11. QED
    BY <1>2, <1>6, <1>7, <1>10 DEF TokenInv, SingleUse

(* The grant was rotated and the answer never arrived.                      *)
LEMMA TokenLost ==
  ASSUME TypeInv, TokenInv, NEW w \in Worker, NEW token,
         worker[w].pc = "rotating", Rotates(worker[w].account, token),
         lost' = lost \cup {worker[w].account.grant},
         worker' = [worker EXCEPT ![w] = IdleWorker],
         UNCHANGED account, UNCHANGED signInVars
  PROVE  TokenInv'
  <1>0. Refreshing(w) /\ IdleWorker.pc = "idle"
    BY DEF Refreshing, IdleWorker
  <1>1. \A v \in Worker : worker'[v] = IF v = w THEN IdleWorker ELSE worker[v]
    BY JobUpdated
  <1>2. StatesUnique' /\ \A g \in Grant : Spent(g) => Spent(g)'
    BY SpentSame DEF TokenInv, SingleUse
  <1>3. PICK g \in Grant : g = worker[w].account.grant
    BY <1>0, RefreshHeld
  <1>4. /\ lost' = lost \cup {g}
        /\ \A h \in Grant : rotation'[h] = IF h = g THEN token ELSE rotation[h]
    BY <1>0, <1>3, RefreshHeld, RotationUpdated
  <1>5. GrantsSpent'
    BY <1>0, <1>1, <1>2, <1>3, <1>4, AccountHeld, RefreshHeld
    DEF TokenInv, SingleUse, GrantsSpent, Refreshing
  <1>6. GrantsApart'
    BY <1>0, <1>1 DEF TokenInv, GrantsApart, Refreshing
  <1>7. /\ \A v \in Worker : Refreshing(v) => worker[v].account.grant \in Grant
        /\ \A d \in Companion : account[d] # None => account[d].grant \in Grant
    BY AccountHeld, RefreshHeld
  <1>8. TokensLive'
    BY <1>0, <1>1, <1>4, <1>7 DEF TokenInv, TokensLive, Refreshing
  <1>9. QED
    BY <1>2, <1>5, <1>6, <1>8 DEF TokenInv, SingleUse

(* The renewed session is stored, unless its companion was deleted.         *)
LEMMA TokenStored ==
  ASSUME TypeInv, Mirrored, TokenInv, NEW w \in Worker, StoreRenewed(w)
  PROVE  TokenInv'
  <1> DEFINE next == [worker[w] EXCEPT !.pc = "exchange"]
  <1>0. Refreshing(w)
    BY DEF StoreRenewed, Refreshing
  <1>1. /\ worker' = [worker EXCEPT ![w] = next]
        /\ next.pc = "exchange"
    BY DEF StoreRenewed, TypeInv, TypeOK, WorkerState
  <1> HIDE DEF next
  <1>2. \A v \in Worker : worker'[v] = IF v = w THEN next ELSE worker[v]
    BY <1>1, JobUpdated
  <1>3. StatesUnique' /\ \A g \in Grant : Spent(g) => Spent(g)'
    BY SpentSame DEF TokenInv, SingleUse, StoreRenewed
  <1>4. PICK c \in Companion, s \in AccountSession :
          c = worker[w].companion /\ s = worker[w].account
    BY <1>0, RefreshHeld
  <1>5. s # None /\ s.grant \in Grant /\ Spent(s.grant)
    BY <1>0, <1>4, RefreshHeld DEF TokenInv, SingleUse, GrantsSpent
  <1>6. UNCHANGED <<rotation, lost>>
    BY DEF StoreRenewed, serverVars
  <1>7. CASE c \in companions
    <2>1. \A d \in Companion : account'[d] = IF d = c THEN s ELSE account[d]
      BY <1>4, <1>7
      DEF StoreRenewed, StoreAtprotoSession, StoreAccount, TypeInv, TypeOK
    <2>2. \A d \in Companion :
            account[d] # None /\ d # c => account[d].grant # s.grant
      BY <1>0, <1>4 DEF TokenInv, GrantsApart
    <2>3. \A v \in Worker : Refreshing(v) /\ v # w =>
            worker[v].companion # c /\ worker[v].account.grant # s.grant
      BY <1>0, <1>4 DEF TokenInv, GrantsApart
    <2>4. s.grant \notin lost => s.token = rotation[s.grant]
      BY <1>0, <1>4 DEF TokenInv, TokensLive
    <2>5. GrantsSpent'
      BY <1>1, <1>2, <1>3, <1>5, <1>6, <2>1, AccountHeld, RefreshHeld
      DEF TokenInv, SingleUse, GrantsSpent, Refreshing
    <2>6. GrantsApart'
      BY <1>1, <1>2, <2>1, <2>2, <2>3 DEF TokenInv, GrantsApart, Refreshing
    <2>7. TokensLive'
      BY <1>1, <1>2, <1>4, <1>6, <2>1, <2>2, <2>4
      DEF TokenInv, TokensLive, Refreshing
    <2>8. QED
      BY <1>3, <2>5, <2>6, <2>7 DEF TokenInv, SingleUse
  <1>8. CASE c \notin companions
    <2>1. account' = account /\ account[c] = None
      BY <1>4, <1>8
      DEF StoreRenewed, StoreAtprotoSession, Mirrored, DeletedHoldsNothing
    <2>2. \A d \in Companion :
            account[d] # None => account[d].grant # s.grant
      BY <1>0, <1>4, <2>1 DEF TokenInv, GrantsApart
    <2>3. GrantsSpent'
      BY <1>1, <1>2, <1>3, <1>6, <2>1, AccountHeld, RefreshHeld
      DEF TokenInv, SingleUse, GrantsSpent, Refreshing
    <2>4. GrantsApart'
      BY <1>1, <1>2, <2>1 DEF TokenInv, GrantsApart, Refreshing
    <2>5. TokensLive'
      BY <1>1, <1>2, <1>4, <1>6, <2>1, <2>2
      DEF TokenInv, TokensLive, Refreshing
    <2>6. QED
      BY <1>3, <2>3, <2>4, <2>5 DEF TokenInv, SingleUse
  <1>9. QED
    BY <1>7, <1>8

LEMMA TokenWorker ==
  ASSUME TypeInv, Mirrored, TokenInv, NEW w \in Worker, WorkerStep(w)
  PROVE  TokenInv'
  <1> DEFINE job == worker[w]
  <1>a. job \in WorkerState /\ IdleWorker.pc = "idle"
    BY DEF TypeInv, TypeOK, IdleWorker
  <1> USE DEF storeVars, serverVars
  <1>1. ASSUME NEW c \in Companion, NEW o \in Origin, ConnectEnroll(w, c, o)
        PROVE  TokenInv'
    <2>1. PICK j : /\ worker' = [worker EXCEPT ![w] = j]
                   /\ j.pc \in {"enroll", "forgetting"}
      <3> DEFINE fresh == [IdleWorker EXCEPT
                   !.pc = "enroll", !.companion = c, !.origin = o]
                 Broken(e) == [IdleWorker EXCEPT
                   !.pc = "forgetting", !.companion = c, !.origin = o,
                   !.broken = e.id]
      <3>1. fresh.pc = "enroll" /\ \A e : Broken(e).pc = "forgetting"
        BY DEF IdleWorker
      <3>2. \/ worker' = [worker EXCEPT ![w] = fresh]
            \/ \E e \in EnrollmentsAt(c, o) :
                 worker' = [worker EXCEPT ![w] = Broken(e)]
        BY <1>1 DEF ConnectEnroll
      <3> HIDE DEF fresh, Broken
      <3>3. QED
        BY <3>1, <3>2
    <2>2. QED
      BY <1>1, <2>1, TokenAway DEF ConnectEnroll
  <1>2. CASE ForgetBroken(w)
    <2> DEFINE j == [job EXCEPT !.pc = "enroll", !.broken = 0]
    <2>1. worker' = [worker EXCEPT ![w] = j] /\ j.pc = "enroll"
      BY <1>2, <1>a DEF ForgetBroken, TypeInv, TypeOK, WorkerState
    <2> HIDE DEF j
    <2>2. QED
      BY <1>2, <2>1, TokenAway DEF ForgetBroken
  <1>3. CASE CheckEnroll(w)
    <2> DEFINE j == [job EXCEPT !.pc = "refresh", !.did = bound[job.companion]]
    <2>1. j.pc = "refresh"
      BY <1>a DEF WorkerState
    <2>2. \/ worker' = [worker EXCEPT ![w] = j]
          \/ worker' = [worker EXCEPT ![w] = IdleWorker]
      BY <1>3 DEF CheckEnroll
    <2> HIDE DEF j
    <2>3. QED
      BY <1>3, <1>a, <2>1, <2>2, TokenAway DEF CheckEnroll
  <1>4. CASE ReadSession(w)
    <2> DEFINE session == account[job.companion]
               next == IF session.stale THEN "rotating" ELSE "exchange"
               j == [job EXCEPT !.account = session, !.pc = next]
    <2>1. CASE session = None
      BY <1>4, <1>a, <2>1, TokenAway DEF ReadSession
    <2>2. CASE session # None
      <3>1. /\ j.pc = next /\ j.account = session
            /\ j.companion = job.companion
        BY <1>a DEF WorkerState
      <3>2. worker' = [worker EXCEPT ![w] = j]
        BY <1>4, <2>2 DEF ReadSession
      <3>3. next \in {"rotating", "exchange"}
        OBVIOUS
      <3> HIDE DEF j, next
      <3>4. CASE next = "rotating"
        BY <1>4, <2>2, <3>1, <3>2, <3>4, TokenRead DEF ReadSession
      <3>5. CASE next = "exchange"
        BY <1>4, <3>1, <3>2, <3>5, TokenAway DEF ReadSession
      <3>6. QED
        BY <3>3, <3>4, <3>5
    <2>3. QED
      BY <2>1, <2>2
  <1>5. CASE RefreshAnswered(w)
    <2>1. PICK token : /\ Rotates(job.account, token)
                       /\ worker' = [worker EXCEPT ![w] =
                            [job EXCEPT !.pc = "renewed",
                               !.account = Renewed(job.account, token)]]
      BY <1>5 DEF RefreshAnswered
    <2> DEFINE j == [job EXCEPT !.pc = "renewed",
                                !.account = Renewed(job.account, token)]
    <2>2. /\ j.pc = "renewed" /\ j.companion = job.companion
          /\ j.account = Renewed(job.account, token)
      BY <1>a DEF WorkerState
    <2>3. worker' = [worker EXCEPT ![w] = j]
      BY <2>1
    <2> HIDE DEF j
    <2>4. QED
      BY <1>5, <2>1, <2>2, <2>3, TokenAnswered DEF RefreshAnswered
  <1>6. CASE RefreshFails(w)
    <2>1. CASE UNCHANGED serverVars
      BY <1>6, <1>a, <2>1, TokenAway DEF RefreshFails
    <2>2. CASE ~UNCHANGED serverVars
      BY <1>6, <2>2, TokenLost DEF RefreshFails
    <2>3. QED
      BY <2>1, <2>2
  <1>7. CASE StoreRenewed(w)
    BY <1>7, TokenStored
  <1>8. CASE ExchangeFails(w)
    BY <1>8, <1>a, TokenAway DEF ExchangeFails
  <1>9. CASE StoreEnrollment(w)
    BY <1>9, <1>a, TokenAway DEF StoreEnrollment
  <1>10. QED
    BY <1>1, <1>2, <1>3, <1>4, <1>5, <1>6, <1>7, <1>8, <1>9
    DEF WorkerStep, Prepare

-----------------------------------------------------------------------------
(* A restart loses an answer only if it brought a token nobody stored.      *)
LEMMA TokenRestart ==
  ASSUME TypeInv, TokenInv, Restart PROVE TokenInv'
  <1>1. /\ flights' = {}
        /\ \A b \in Binder : ~Completing(b)'
        /\ \A w \in Worker : ~Refreshing(w)' /\ worker'[w].pc = "idle"
        /\ UNCHANGED <<account, started, rotation>>
    BY DEF Restart, storeVars, Completing, Refreshing, IdleBinder, IdleWorker
  <1>2. SingleUse'
    BY <1>1, AccountHeld
    DEF TokenInv, SingleUse, StatesUnique, GrantsSpent, Spent
  <1>3. GrantsApart'
    BY <1>1 DEF TokenInv, GrantsApart
  <1>4. ASSUME NEW c \in Companion, account[c] # None,
               account[c].grant \notin lost'
        PROVE  account[c].token = rotation[account[c].grant]
    <2>1. account[c].grant \notin lost
      BY <1>4 DEF Restart
    <2>2. ASSUME NEW w \in Worker, worker[w].pc = "renewed",
                 worker[w].account.grant = account[c].grant
          PROVE  account[c].token = rotation[account[c].grant]
      <3>1. Refreshing(w) /\ worker[w].companion \in Companion
        BY <2>2, RefreshHeld DEF Refreshing
      <3>2. worker[w].companion = c
        BY <1>4, <2>2, <3>1 DEF TokenInv, GrantsApart
      <3>3. w \notin Unstored
        BY <1>4, <2>2 DEF Restart
      <3>4. worker[w].account.token = account[c].token
        BY <1>4, <2>2, <3>2, <3>3 DEF Unstored
      <3>5. QED
        BY <2>1, <2>2, <3>1, <3>4 DEF TokenInv, TokensLive
    <2>3. QED
      BY <1>4, <2>1, <2>2 DEF TokenInv, TokensLive
  <1>5. TokensLive'
    BY <1>1, <1>4 DEF TokensLive
  <1>6. QED
    BY <1>2, <1>3, <1>5 DEF TokenInv

-----------------------------------------------------------------------------
LEMMA TokenStep ==
  ASSUME TypeInv, Mirrored, TokenInv, [Next]_vars PROVE TokenInv'
  <1>1. CASE UNCHANGED vars
    BY <1>1, TokenAccountsKept DEF vars, storeVars, signInVars, serverVars
  <1>2. QED
    BY <1>1, TokenBinder, TokenOperator, TokenWorker, TokenRestart DEF Next

(* The strengthening the two theorems below share.                          *)
THEOREM TokenCorrect == Spec => []TokenInv
  <1>1. Mirrored <=> BoundMirrorsAccount /\ DeletedHoldsNothing
    BY DEF Mirrored
  <1>2. QED
    BY <1>1, TokenInit, TokenStep, TypeCorrect, CredentialMirror, PTL DEF Spec

(* However many callbacks race, one sign-in is completed by one of them,    *)
(* and the grant it obtains is nobody's account before it is.               *)
THEOREM SignInOnce == Spec => []FlightSingleUse
  <1>1. TokenInv => FlightSingleUse
    <2> SUFFICES ASSUME TokenInv, NEW b \in Binder, Completing(b)
                 PROVE  /\ \A f \in flights : f.state # binder[b].state
                        /\ \A a \in Binder \ {b} : Completing(a) =>
                             binder[a].state # binder[b].state
                        /\ \A c \in Companion : account[c] # None =>
                             account[c].grant # binder[b].state
      BY DEF FlightSingleUse, Completing
    <2>1. \A c \in Companion : account[c] # None =>
            account[c].grant # binder[b].state
      BY DEF TokenInv, SingleUse, GrantsSpent, Spent
    <2>2. QED
      BY <2>1 DEF TokenInv, SingleUse, StatesUnique
  <1>2. QED
    BY <1>1, TokenCorrect, PTL

(* No two refreshes ever present the same refresh token: what a companion   *)
(* holds between refreshes, and what a refresh presents, is what the        *)
(* authorization server accepts, for any number of companions and threads.  *)
THEOREM TokensCurrent == Spec => []TokenCurrent
  <1>1. ASSUME TypeInv, TokenInv PROVE TokenCurrent
    <2>1. ASSUME NEW c \in Companion, account[c] # None, RefreshFree(c),
                 account[c].grant \notin lost
          PROVE  account[c].token = rotation[account[c].grant]
      <3>1. \A w \in Worker : worker[w].pc = "renewed" =>
              worker[w].account.grant # account[c].grant
        BY <1>1, <2>1
        DEF RefreshFree, HoldsRefresh, Refreshing, TokenInv, GrantsApart
      <3>2. QED
        BY <1>1, <2>1, <3>1 DEF TokenInv, TokensLive
    <2>2. QED
      BY <1>1, <2>1 DEF TokenCurrent, TokenInv, TokensLive, Refreshing
  <1>2. QED
    BY <1>1, TypeCorrect, TokenCorrect, PTL

-----------------------------------------------------------------------------
(* Custody implements Keyring.                                              *)

LEMMA KeyThere ==
  ASSUME NEW c, NEW key
  PROVE  key \in KeysOf(c) <=>
           \/ account[c] # None /\ key = KeyOf(account[c])
           \/ \E w \in Worker : HoldsRefresh(w, c) /\ key = KeyOf(worker[w].account)
  BY DEF KeysOf

LEMMA SpentThere ==
  ASSUME TypeInv
  PROVE  /\ SpentGrants \subseteq Grant
         /\ \A g \in Grant : g \in SpentGrants <=> Spent(g)
  BY LimitsAssumption
  DEF SpentGrants, Spent, Completing, Grant, TypeInv, TypeOK

LEMMA SpentThereNext ==
  ASSUME TypeInv'
  PROVE  /\ SpentGrants' \subseteq Grant
         /\ \A g \in Grant : g \in SpentGrants' <=> Spent(g)'
  BY LimitsAssumption
  DEF SpentGrants, Spent, Completing, Grant, TypeInv, TypeOK

(* No companion comes to hold, or to refresh, a key it did not have.        *)
LEMMA KeysLetGo ==
  ASSUME TypeInv, TypeInv',
         \A g \in Grant : Spent(g) => Spent(g)',
         \A c \in Companion :
           account'[c] # None => KeyOf(account'[c]) \in KeysOf(c),
         \A c \in Companion, w \in Worker :
           HoldsRefresh(w, c)' => KeyOf(worker'[w].account) \in KeysOf(c)
  PROVE  K!Next
  <1>1. SpentGrants \subseteq SpentGrants' /\ SpentGrants' \subseteq Grant
    BY SpentThere, SpentThereNext
  <1>2. ASSUME NEW c \in Companion PROVE KeysOf(c)' \subseteq KeysOf(c)
    <2>1. ASSUME NEW key \in KeysOf(c)' PROVE key \in KeysOf(c)
      <3>1. \/ account'[c] # None /\ key = KeyOf(account[c])'
            \/ \E w \in Worker :
                 HoldsRefresh(w, c)' /\ key = KeyOf(worker[w].account)'
        BY <2>1 DEF KeysOf
      <3>2. /\ KeyOf(account[c])' = KeyOf(account'[c])
            /\ \A w \in Worker :
                 KeyOf(worker[w].account)' = KeyOf(worker'[w].account)
        BY DEF KeyOf
      <3>3. QED
        BY <3>1, <3>2
    <2>2. QED
      BY <2>1
  <1>3. \A c \in Companion :
          [d \in Companion |-> KeysOf(d)]'[c] \subseteq [d \in Companion |-> KeysOf(d)][c]
    BY <1>2
  <1>4. K!LetGo
    BY <1>1, <1>3 DEF K!LetGo
  <1>5. QED
    BY <1>4 DEF K!Next

LEMMA KeysSame ==
  ASSUME TypeInv, TypeInv', \A g \in Grant : Spent(g) => Spent(g)',
         UNCHANGED worker,
         \A c \in Companion : account'[c] # None =>
           account[c] # None /\ KeyOf(account'[c]) = KeyOf(account[c])
  PROVE  K!Next
  <1>1. \A c \in Companion :
          account'[c] # None => KeyOf(account'[c]) \in KeysOf(c)
    BY KeyThere
  <1>2. \A c \in Companion, w \in Worker :
          HoldsRefresh(w, c)' => KeyOf(worker'[w].account) \in KeysOf(c)
    BY KeyThere DEF HoldsRefresh
  <1>3. QED
    BY <1>1, <1>2, KeysLetGo

(* A completed sign-in brings its key, which nobody ever had.               *)
LEMMA KeyComes ==
  ASSUME TypeInv, TypeInv', TokenInv, NEW b \in Binder, binder[b].pc = "storing",
         NEW c \in Companion, StoreAccount(c, SignedIn(b)),
         binder' = [binder EXCEPT ![b] = IdleBinder],
         UNCHANGED <<flights, started, worker>>
  PROVE  K!Next
  <1> DEFINE key == KeyOf(SignedIn(b))
  <1>0. PICK s \in Grant : s = binder[b].state
    BY DEF TypeInv, Learned
  <1>1. /\ SignedIn(b).grant = s /\ SignedIn(b) \in AccountSession
        /\ SignedIn(b) # None /\ SignedIn(b).did \in Did
    BY <1>0, SignedInType, SessionAssumption DEF SignedIn, AccountSession
  <1>2. key \in K!Key /\ key.grant = s
    BY <1>0, <1>1 DEF K!Key, KeyOf
  <1>3. \A d \in Companion :
          account'[d] = IF d = c THEN SignedIn(b) ELSE account[d]
    BY DEF StoreAccount, TypeInv, TypeOK
  <1>4. \A a \in Binder : binder'[a] = IF a = b THEN IdleBinder ELSE binder[a]
    BY BinderUpdated
  <1>5. Completing(b) /\ ~Spent(s)
    BY <1>0 DEF Completing, Spent
  <1>6. \A a \in Binder : Completing(a)' <=> Completing(a) /\ a # b
    BY <1>4 DEF Completing, IdleBinder
  <1>7. \A g \in Grant : Spent(g)' <=> Spent(g) \/ g = s
    BY <1>0, <1>4, <1>5, <1>6
    DEF Spent, TokenInv, SingleUse, StatesUnique
  <1>8. SpentGrants' = SpentGrants \cup {s} /\ s \notin SpentGrants
    BY <1>0, <1>5, <1>7, SpentThere, SpentThereNext
  <1>9. ASSUME NEW d \in Companion
        PROVE  \A k : k \in KeysOf(d)' <=>
                 \/ d = c /\ k = key
                 \/ d # c /\ account[d] # None /\ k = KeyOf(account[d])
                 \/ \E w \in Worker :
                      HoldsRefresh(w, d) /\ k = KeyOf(worker[w].account)
    BY <1>1, <1>3 DEF KeysOf, KeyOf, HoldsRefresh
  <1> HIDE DEF key
  <1>10. /\ key \in KeysOf(c)' /\ KeysOf(c)' \subseteq KeysOf(c) \cup {key}
         /\ \A d \in Companion : d # c => KeysOf(d)' = KeysOf(d)
    <2>1. key \in KeysOf(c)'
      BY <1>9
    <2>2. KeysOf(c)' \subseteq KeysOf(c) \cup {key}
      BY <1>9, KeyThere
    <2>3. ASSUME NEW d \in Companion, d # c PROVE KeysOf(d)' = KeysOf(d)
      <3>1. \A k : k \in KeysOf(d)' <=> k \in KeysOf(d)
        BY <1>9, <2>3, KeyThere
      <3>2. QED
        BY <3>1
    <2>4. QED
      BY <2>1, <2>2, <2>3
  <1> DEFINE now == [d \in Companion |-> KeysOf(d)]
  <1>11. now' = [now EXCEPT ![c] = now'[c]] /\ now'[c] = KeysOf(c)' /\ now[c] = KeysOf(c)
    BY <1>10
  <1>12. K!SignIn(c, key)
    BY <1>2, <1>8, <1>10, <1>11 DEF K!SignIn
  <1>13. QED
    BY <1>2, <1>12 DEF K!Next

LEMMA KeysBinder ==
  ASSUME TypeInv, TypeInv', TokenInv, NEW b \in Binder, BinderStep(b)
  PROVE  K!Next
  <1> USE DEF storeVars, serverVars
  <1>1. ASSUME \A g \in Grant : Spent(g) => Spent(g)',
               UNCHANGED <<account, worker>>
        PROVE  K!Next
    BY <1>1, KeysSame
  <1>2. ASSUME NEW j, binder' = [binder EXCEPT ![b] = j],
               j.pc \in {"exchanging", "storing"} =>
                 Completing(b) /\ j.state = binder[b].state,
               UNCHANGED <<flights, started, account, worker>>
        PROVE  K!Next
    <2>1. \A a \in Binder : Completing(a)' =>
            Completing(a) /\ binder'[a].state = binder[a].state
      BY <1>2, BinderUpdated DEF Completing
    <2>2. \A g \in Grant : Spent(g) => Spent(g)'
      BY <1>2, <2>1, SignInsReleased DEF TokenInv, SingleUse
    <2>3. QED
      BY <1>1, <1>2, <2>2
  <1>3. IdleBinder.pc = "idle"
    BY DEF IdleBinder
  <1>4. ASSUME NEW target, NEW declared, BeginBind(b, target, declared)
        PROVE  K!Next
    <2> DEFINE j == [IdleBinder EXCEPT
                       !.pc = "parking", !.target = target, !.declared = declared]
    <2>1. j.pc = "parking"
      BY DEF IdleBinder
    <2>2. binder' = [binder EXCEPT ![b] = j]
      BY <1>4 DEF BeginBind
    <2> HIDE DEF j
    <2>3. QED
      BY <1>2, <1>4, <2>1, <2>2 DEF BeginBind
  <1>5. CASE ParkFlight(b)
    BY <1>1, <1>5, ParkUnique DEF ParkFlight, TokenInv, SingleUse
  <1>6. ASSUME NEW f \in flights, TakeFlight(b, f) PROVE K!Next
    BY <1>1, <1>6, TakeUnique DEF TakeFlight, TokenInv, SingleUse
  <1>7. CASE StartFails(b) \/ CallbackFails(b)
    BY <1>2, <1>3, <1>7 DEF StartFails, CallbackFails
  <1>8. ASSUME NEW d \in Did, CheckOwner(b, d) PROVE K!Next
    <2> DEFINE carried == IF binder[b].target \in companions
                               /\ account[binder[b].target] # None
                            THEN account[binder[b].target].services
                            ELSE DefaultServices
               checked == [pc |-> "storing", target |-> binder[b].target,
                           declared |-> binder[b].declared,
                           state |-> binder[b].state, did |-> d,
                           services |-> carried]
    <2>1. binder' = [binder EXCEPT ![b] = checked]
            \/ binder' = [binder EXCEPT ![b] = IdleBinder]
      BY <1>8 DEF CheckOwner
    <2> HIDE DEF carried
    <2>2. checked.state = binder[b].state
      OBVIOUS
    <2> HIDE DEF checked
    <2>3. Completing(b)
      BY <1>8 DEF CheckOwner, Completing
    <2>4. QED
      BY <1>2, <1>3, <1>8, <2>1, <2>2, <2>3 DEF CheckOwner
  <1>9. CASE BindExisting(b)
    <2>1. binder[b].target \in Companion
      BY <1>9 DEF BindExisting, TypeInv, TypeOK, BinderState, Target
    <2>2. CASE binder[b].target \in companions
      BY <1>9, <2>1, <2>2, KeyComes DEF BindExisting, StoreAtprotoSession
    <2>3. CASE binder[b].target \notin companions
      BY <1>2, <1>3, <1>9, <2>3 DEF BindExisting, StoreAtprotoSession
    <2>4. QED
      BY <2>2, <2>3
  <1>10. ASSUME NEW c \in Companion, BindNew(b, c) PROVE K!Next
    BY <1>10, KeyComes DEF BindNew
  <1>11. QED
    BY <1>4, <1>5, <1>6, <1>7, <1>8, <1>9, <1>10 DEF BinderStep

LEMMA KeysOperator ==
  ASSUME TypeInv, TypeInv', TokenInv, OperatorStep \/ ClockStep
  PROVE  K!Next
  <1> USE DEF storeVars, signInVars, serverVars
  <1>1. ASSUME UNCHANGED <<flights, started, binder>>
        PROVE  \A g \in Grant : Spent(g) => Spent(g)'
    BY <1>1 DEF Spent, Completing
  <1>2. ASSUME NEW c \in Companion, account' = AccountCleared(c),
               UNCHANGED <<flights, started, binder, worker>>
        PROVE  K!Next
    <2>1. \A d \in Companion :
            account'[d] = IF d = c THEN None ELSE account[d]
      BY <1>2 DEF AccountCleared, TypeInv, TypeOK
    <2>2. QED
      BY <1>1, <1>2, <2>1, KeysSame
  <1>3. ASSUME NEW c \in Companion, NEW changed,
               account[c] # None,
               changed.grant = account[c].grant, changed.did = account[c].did,
               account' = [account EXCEPT ![c] = changed],
               UNCHANGED <<flights, started, binder, worker>>
        PROVE  K!Next
    <2>1. \A d \in Companion :
            account'[d] = IF d = c THEN changed ELSE account[d]
      BY <1>3 DEF TypeInv, TypeOK
    <2>2. KeyOf(changed) = KeyOf(account[c])
      BY <1>3 DEF KeyOf
    <2>3. QED
      BY <1>1, <1>3, <2>1, <2>2, KeysSame
  <1>4. ASSUME NEW c \in Companion, NEW services \in SUBSET Catalog,
               SetServices(c, services)
        PROVE  K!Next
    <2> DEFINE changed == [account[c] EXCEPT !.services = services]
    <2>1. /\ changed.grant = account[c].grant /\ changed.did = account[c].did
      BY <1>4 DEF SetServices, AccountSession, TypeInv, TypeOK
    <2>2. account' = [account EXCEPT ![c] = changed] /\ account[c] # None
      BY <1>4 DEF SetServices
    <2> HIDE DEF changed
    <2>3. QED
      BY <1>3, <1>4, <2>1, <2>2 DEF SetServices
  <1>5. ASSUME NEW c \in Companion, AccessTokenAges(c)
        PROVE  K!Next
    <2> DEFINE changed == [account[c] EXCEPT !.stale = TRUE]
    <2>1. /\ changed.grant = account[c].grant /\ changed.did = account[c].did
      BY <1>5 DEF AccessTokenAges, AccountSession, TypeInv, TypeOK
    <2>2. account' = [account EXCEPT ![c] = changed] /\ account[c] # None
      BY <1>5 DEF AccessTokenAges
    <2> HIDE DEF changed
    <2>3. QED
      BY <1>3, <1>5, <2>1, <2>2 DEF AccessTokenAges
  <1>6. ASSUME NEW e \in enrollments, Forget(e) PROVE K!Next
    BY <1>1, <1>6, KeysSame DEF Forget
  <1>7. ASSUME NEW f \in flights, FlightAges(f) PROVE K!Next
    BY <1>7, AgeUnique, KeysSame DEF FlightAges, TokenInv, SingleUse
  <1>8. QED
    BY <1>2, <1>4, <1>5, <1>6, <1>7
    DEF OperatorStep, ClockStep, Unbind, Delete

(* A handshake holds a key its companion had, or lets it go.                *)
LEMMA KeysWorker ==
  ASSUME TypeInv, TypeInv', TokenInv, NEW w \in Worker, WorkerStep(w)
  PROVE  K!Next
  <1> DEFINE job == worker[w]
  <1>a. job \in WorkerState /\ IdleWorker.pc = "idle"
    BY DEF TypeInv, TypeOK, IdleWorker
  <1> USE DEF storeVars, signInVars, serverVars
  <1>b. \A g \in Grant : Spent(g) => Spent(g)'
    BY DEF Spent, Completing, WorkerStep, Prepare, ConnectEnroll, ForgetBroken,
           CheckEnroll, ReadSession, RefreshAnswered, RefreshFails, StoreRenewed,
           ExchangeFails, StoreEnrollment
  <1>c. \A c \in Companion :
          account[c] # None => KeyOf(account[c]) \in KeysOf(c)
    BY KeyThere
  <1>d. \A c \in Companion, v \in Worker :
          HoldsRefresh(v, c) => KeyOf(worker[v].account) \in KeysOf(c)
    BY KeyThere
  <1>e. ASSUME NEW j, worker' = [worker EXCEPT ![w] = j],
               j.pc \in {"rotating", "renewed"} =>
                 KeyOf(j.account) \in KeysOf(j.companion),
               \A c \in Companion :
                 account'[c] # None => KeyOf(account'[c]) \in KeysOf(c)
        PROVE  K!Next
    <2>1. \A v \in Worker : worker'[v] = IF v = w THEN j ELSE worker[v]
      BY <1>e, JobUpdated
    <2>2. \A c \in Companion, v \in Worker :
            HoldsRefresh(v, c)' => KeyOf(worker'[v].account) \in KeysOf(c)
      BY <1>d, <1>e, <2>1 DEF HoldsRefresh
    <2>3. QED
      BY <1>b, <1>e, <2>2, KeysLetGo
  <1>f. ASSUME NEW j, worker' = [worker EXCEPT ![w] = j],
               j.pc \notin {"rotating", "renewed"}, UNCHANGED account
        PROVE  K!Next
    BY <1>c, <1>e, <1>f
  <1>1. ASSUME NEW c \in Companion, NEW o \in Origin, ConnectEnroll(w, c, o)
        PROVE  K!Next
    <2> DEFINE fresh == [IdleWorker EXCEPT
                 !.pc = "enroll", !.companion = c, !.origin = o]
               Broken(e) == [IdleWorker EXCEPT
                 !.pc = "forgetting", !.companion = c, !.origin = o,
                 !.broken = e.id]
    <2>1. fresh.pc = "enroll" /\ \A e : Broken(e).pc = "forgetting"
      BY DEF IdleWorker
    <2>2. \/ worker' = [worker EXCEPT ![w] = fresh]
          \/ \E e \in EnrollmentsAt(c, o) : worker' = [worker EXCEPT ![w] = Broken(e)]
      BY <1>1 DEF ConnectEnroll
    <2>3. UNCHANGED account
      BY <1>1 DEF ConnectEnroll
    <2> HIDE DEF fresh, Broken
    <2>4. QED
      BY <1>f, <2>1, <2>2, <2>3
  <1>2. CASE ForgetBroken(w)
    <2> DEFINE j == [job EXCEPT !.pc = "enroll", !.broken = 0]
    <2>1. worker' = [worker EXCEPT ![w] = j] /\ j.pc = "enroll"
      BY <1>2, <1>a DEF ForgetBroken, TypeInv, TypeOK, WorkerState
    <2> HIDE DEF j
    <2>2. QED
      BY <1>2, <1>f, <2>1 DEF ForgetBroken
  <1>3. CASE CheckEnroll(w)
    <2> DEFINE j == [job EXCEPT !.pc = "refresh", !.did = bound[job.companion]]
    <2>1. j.pc = "refresh"
      BY <1>a DEF WorkerState
    <2>2. \/ worker' = [worker EXCEPT ![w] = j]
          \/ worker' = [worker EXCEPT ![w] = IdleWorker]
      BY <1>3 DEF CheckEnroll
    <2> HIDE DEF j
    <2>3. QED
      BY <1>3, <1>a, <1>f, <2>1, <2>2 DEF CheckEnroll
  <1>4. CASE ReadSession(w)
    <2> DEFINE session == account[job.companion]
               next == IF session.stale THEN "rotating" ELSE "exchange"
               j == [job EXCEPT !.account = session, !.pc = next]
    <2>1. CASE session = None
      BY <1>4, <1>a, <1>f, <2>1 DEF ReadSession
    <2>2. CASE session # None
      <3>1. j.account = session /\ j.companion = job.companion
        BY <1>a DEF WorkerState
      <3>2. worker' = [worker EXCEPT ![w] = j] /\ UNCHANGED account
        BY <1>4, <2>2 DEF ReadSession
      <3>3. job.companion \in Companion
        BY <1>4 DEF ReadSession, TypeInv, Learned
      <3>4. KeyOf(session) \in KeysOf(job.companion)
        BY <1>c, <2>2, <3>3
      <3> HIDE DEF j
      <3>5. KeyOf(j.account) \in KeysOf(j.companion)
        BY <3>1, <3>4
      <3>6. QED
        BY <1>c, <1>e, <3>2, <3>5
    <2>3. QED
      BY <2>1, <2>2
  <1>5. CASE RefreshAnswered(w)
    <2>1. PICK token :
            worker' = [worker EXCEPT ![w] = [job EXCEPT !.pc = "renewed",
                         !.account = Renewed(job.account, token)]]
      BY <1>5 DEF RefreshAnswered
    <2> DEFINE j == [job EXCEPT !.pc = "renewed",
                                !.account = Renewed(job.account, token)]
    <2>2. /\ j.companion = job.companion
          /\ j.account = Renewed(job.account, token)
      BY <1>a DEF WorkerState
    <2>3. worker' = [worker EXCEPT ![w] = j] /\ UNCHANGED account
      BY <1>5, <2>1 DEF RefreshAnswered
    <2> HIDE DEF j
    <2>4. KeyOf(j.account) = KeyOf(job.account)
      BY <2>2 DEF KeyOf, Renewed
    <2>5. Refreshing(w) /\ HoldsRefresh(w, job.companion)
      BY <1>5 DEF RefreshAnswered, Refreshing, HoldsRefresh
    <2>6. KeyOf(j.account) \in KeysOf(j.companion)
      BY <1>d, <2>2, <2>4, <2>5, RefreshHeld
    <2>7. QED
      BY <1>c, <1>e, <2>3, <2>6
  <1>6. CASE StoreRenewed(w)
    <2> DEFINE j == [job EXCEPT !.pc = "exchange"]
    <2>1. worker' = [worker EXCEPT ![w] = j] /\ j.pc = "exchange"
      BY <1>6, <1>a DEF StoreRenewed, TypeInv, TypeOK, WorkerState
    <2> HIDE DEF j
    <2>2. Refreshing(w) /\ HoldsRefresh(w, job.companion)
      BY <1>6 DEF StoreRenewed, Refreshing, HoldsRefresh
    <2>3. \A c \in Companion :
            account'[c] # None => KeyOf(account'[c]) \in KeysOf(c)
      <3>1. \A c \in Companion :
              \/ account'[c] = account[c]
              \/ account'[c] = job.account /\ c = job.companion
        BY <1>6
        DEF StoreRenewed, StoreAtprotoSession, StoreAccount, TypeInv, TypeOK
      <3>2. QED
        BY <1>c, <1>d, <2>2, <3>1
    <2>4. QED
      BY <1>e, <2>1, <2>3
  <1>7. CASE RefreshFails(w) \/ ExchangeFails(w) \/ StoreEnrollment(w)
    BY <1>7, <1>a, <1>f DEF RefreshFails, ExchangeFails, StoreEnrollment
  <1>8. QED
    BY <1>1, <1>2, <1>3, <1>4, <1>5, <1>6, <1>7 DEF WorkerStep, Prepare

LEMMA KeysRestart ==
  ASSUME TypeInv, TypeInv', Restart PROVE K!Next
  <1>1. \A g \in Grant : Spent(g) => Spent(g)'
    BY DEF Restart, Spent, Completing, IdleBinder
  <1>2. \A c \in Companion, w \in Worker : ~HoldsRefresh(w, c)'
    BY DEF Restart, HoldsRefresh, IdleWorker
  <1>3. \A c \in Companion :
          account'[c] # None => KeyOf(account'[c]) \in KeysOf(c)
    BY KeyThere DEF Restart, storeVars
  <1>4. QED
    BY <1>1, <1>2, <1>3, KeysLetGo

(* Custody implements Keyring: a companion comes to hold an account only by *)
(* a sign-in of its own, which is completed once, and an account that left  *)
(* it with no refresh in flight never comes back, whatever sign-ins,        *)
(* refreshes, disconnects, deletions and restarts interleave.               *)
THEOREM KeysOnce == Spec => KeysComeOnce
  <1>1. Init => K!Init
    BY LimitsAssumption
    DEF Init, K!Init, KeysOf, SpentGrants, HoldsRefresh, IdleWorker
  <1>2. ASSUME TypeInv, TypeInv', TokenInv, [Next]_vars
        PROVE  [K!Next]_(K!vars)
    <2>1. CASE UNCHANGED vars
      BY <2>1
      DEF vars, storeVars, signInVars, K!vars, SpentGrants, KeysOf, KeyOf,
          HoldsRefresh
    <2>2. QED
      BY <1>2, <2>1, KeysBinder, KeysOperator, KeysWorker, KeysRestart DEF Next
  <1>3. QED
    BY <1>1, <1>2, TypeCorrect, TokenCorrect, PTL DEF Spec, KeysComeOnce, K!Spec

=============================================================================
