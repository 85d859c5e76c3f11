--------------------------- MODULE DataDir_proofs ---------------------------
(***************************************************************************)
(* Theorems about DataDir, for any processes, ports, updates, crashes and  *)
(* failed writes.  The types are correct whatever happens.  The lock's     *)
(* promise holds as long as a process started with --force starts while    *)
(* nothing else runs or starts (Forced \subseteq Solo), and with it the     *)
(* promises of the file, up to the step in which a request's save overruns *)
(* the end of its process (overran).                                       *)
(***************************************************************************)
EXTENDS DataDir, FiniteSetTheorems, TLAPS

(* A process is a record of these three fields.                             *)
Shaped ==
  proc = [p \in Process |->
            [pc |-> proc[p].pc, listening |-> proc[p].listening, state |-> proc[p].state]]

(* Only a process started with --force removes a lock file, a solo process  *)
(* that does not hold the lock is the only live one, and whoever holds the  *)
(* lock is the one the file names.                                          *)
ForcingForced == \A p \in Process : proc[p].pc = "forcing" => p \in Forced
AloneIsOnly == \A p, q \in Process : Alone(p) /\ q # p => ~Live(q)
LockNames == \A p \in Process : Holds(p) => lock = p

LockInv == Shaped /\ ForcingForced /\ AloneIsOnly /\ LockNames

LEMMA LockExcludes == LockInv => LockExclusive
BY DEF LockInv, LockNames, LockExclusive

LEMMA LockInit == Init => LockInv
BY DEF Init, NotStarted, LockInv, Shaped, ForcingForced, AloneIsOnly, LockNames,
       Alone, Live, Holds

(* What one process's step can do to its place.                             *)
Moved(p, pc) ==
  /\ Shaped'
  /\ \A q \in Process : proc'[q].pc = IF q = p THEN pc ELSE proc[q].pc

LEMMA MovesMoved ==
  ASSUME Shaped, NEW p \in Process, NEW pc, MovesTo(p, pc)
  PROVE  Moved(p, pc)
BY DEF Shaped, MovesTo, Moved

LEMMA GoneMoved ==
  ASSUME Shaped, NEW p \in Process, proc' = [proc EXCEPT ![p] = Gone]
  PROVE  Moved(p, "gone")
BY DEF Shaped, Gone, Moved

LEMMA SavesMoved ==
  ASSUME Shaped, NEW p \in Process, NEW state, NEW update, NEW pc,
         Saves(p, state, update, pc)
  PROVE  Moved(p, pc)
BY DEF Shaped, Saves, Moved

(* The step leaves the lock file alone, and p keeps what it held or is.     *)
LEMMA LockKept ==
  ASSUME LockInv, NEW p \in Process, NEW pc, Moved(p, pc), UNCHANGED lock,
         Holds(p)' => Holds(p), Alone(p)' => Alone(p), Live(p)' => Live(p),
         pc # "forcing"
  PROVE  LockInv'
<1>1. ForcingForced'
  BY DEF Moved, LockInv, ForcingForced
<1>2. \A q \in Process : (Alone(q)' => Alone(q)) /\ (Live(q)' => Live(q)) /\ (Holds(q)' => Holds(q))
  BY DEF Moved, Alone, Live, Holds
<1>3. AloneIsOnly'
  BY <1>2 DEF LockInv, AloneIsOnly
<1>4. LockNames'
  BY <1>2 DEF LockInv, LockNames
<1> QED
  BY <1>1, <1>3, <1>4 DEF LockInv, Moved

(* The holder gives the lock back.                                          *)
LEMMA LockReturned ==
  ASSUME LockInv, NEW p \in Process, NEW pc, Moved(p, pc), Holds(p),
         pc \in {"leaving", "gone"}
  PROVE  LockInv'
<1>1. ForcingForced'
  BY DEF Moved, LockInv, ForcingForced
<1>2. \A q \in Process : q # p => ~Holds(q)
  BY DEF LockInv, LockNames
<1>3. LockNames'
  BY <1>2 DEF Moved, LockNames, Holds
<1>4. AloneIsOnly'
  BY DEF LockInv, AloneIsOnly, Alone, Live, Holds, Moved
<1> QED
  BY <1>1, <1>3, <1>4 DEF LockInv, Moved

LEMMA LockStart ==
  ASSUME ProcessAssumption, LockInv, NEW p \in Process, Start(p)
  PROVE  LockInv'
<1> DEFINE pc == IF p \in OneShot THEN "opening"
                 ELSE IF p \in Forced THEN "forcing" ELSE "locking"
<1>1. Moved(p, pc)
  BY MovesMoved DEF Start, LockInv
<1>2. proc[p].pc = "off" /\ UNCHANGED lock
  BY DEF Start
<1>3. ForcingForced'
  BY <1>1 DEF Moved, LockInv, ForcingForced
<1>4. AloneIsOnly'
  BY <1>1 DEF Start, Moved, LockInv, AloneIsOnly, Alone, Live
<1>5. LockNames'
  BY <1>1, <1>2 DEF Moved, LockInv, LockNames, Holds
<1> QED
  BY <1>1, <1>3, <1>4, <1>5 DEF LockInv, Moved

LEMMA LockForced ==
  ASSUME ProcessAssumption, Forced \subseteq Solo, LockInv,
         NEW p \in Process, RemoveLock(p)
  PROVE  LockInv'
<1>1. Moved(p, "locking")
  BY MovesMoved DEF RemoveLock, LockInv
<1>2. proc[p].pc = "forcing"
  BY DEF RemoveLock
<1>3. Alone(p)
  BY <1>2 DEF LockInv, ForcingForced, Alone, ProcessAssumption
<1>4. \A q \in Process : q # p => ~Live(q)
  BY <1>3 DEF LockInv, AloneIsOnly
<1>5. ForcingForced'
  BY <1>1 DEF Moved, LockInv, ForcingForced
<1>6. AloneIsOnly'
  BY <1>1, <1>4 DEF Moved, AloneIsOnly, Alone, Live
<1>7. LockNames'
  BY <1>1, <1>4 DEF Moved, LockNames, Holds, Live
<1> QED
  BY <1>1, <1>5, <1>6, <1>7 DEF LockInv, Moved

LEMMA LockAcquired ==
  ASSUME ProcessAssumption, LockInv, NEW p \in Process, AcquireLock(p)
  PROVE  LockInv'
<1>1. proc[p].pc = "locking"
  BY DEF AcquireLock
<1>2. CASE Creates(p)
  <2> DEFINE pc == IF p \in Serve THEN "binding" ELSE "opening"
  <2>1. Moved(p, pc) /\ lock = None /\ lock' = p
    BY <1>2, MovesMoved DEF AcquireLock, Creates, LockInv
  <2>2. \A q \in Process : ~Holds(q)
    BY <2>1 DEF LockInv, LockNames, ProcessAssumption
  <2>3. LockNames'
    BY <2>1, <2>2 DEF Moved, LockNames, Holds
  <2>4. AloneIsOnly'
    BY <1>1, <2>1 DEF Moved, LockInv, AloneIsOnly, Alone, Live
  <2>5. ForcingForced'
    BY <2>1 DEF Moved, LockInv, ForcingForced
  <2> QED
    BY <2>1, <2>3, <2>4, <2>5 DEF LockInv, Moved
<1>3. CASE ~Creates(p)
  <2>1. Moved(p, "gone") /\ UNCHANGED lock
    BY <1>3, MovesMoved DEF AcquireLock, LockInv
  <2> QED
    BY <2>1, LockKept DEF Moved, Holds, Alone, Live
<1> QED
  BY <1>2, <1>3

LEMMA LockBound ==
  ASSUME ProcessAssumption, LockInv, NEW p \in Process, BindPort(p)
  PROVE  LockInv'
<1>1. CASE PortFree(p)
  <2> DEFINE pc == IF p \in Serve THEN "opening" ELSE "announcing"
  <2>1. proc' = [proc EXCEPT ![p] =
                   [pc |-> pc, listening |-> TRUE, state |-> proc[p].state]]
    BY <1>1 DEF BindPort
  <2>2. Moved(p, pc) /\ UNCHANGED lock /\ proc[p].pc = "binding"
    BY <1>1, <2>1 DEF Moved, LockInv, Shaped, BindPort
  <2> QED
    BY <2>2, LockKept DEF Moved, Holds, Alone, Live
<1>2. CASE ~PortFree(p)
  <2>1. proc[p].pc = "binding" /\ GivesUp(p)
    BY <1>2 DEF BindPort
  <2>2. Moved(p, "gone")
    BY <2>1, GoneMoved DEF GivesUp, LockInv
  <2>3. CASE p \in OneShot
    BY <2>1, <2>2, <2>3, LockKept DEF GivesUp, Moved, Holds, Alone, Live
  <2>4. CASE p \notin OneShot
    BY <2>1, <2>2, <2>4, LockReturned DEF Holds
  <2> QED
    BY <2>3, <2>4
<1> QED
  BY <1>1, <1>2

LEMMA LockOpened ==
  ASSUME ProcessAssumption, LockInv, NEW p \in Process, OpenHub(p)
  PROVE  LockInv'
<1>1. proc[p].pc = "opening"
  BY DEF OpenHub
<1>2. PICK state \in Opened :
        IF state # None
          THEN /\ proc' = [proc EXCEPT ![p] =
                    [pc |-> AfterOpening(p), listening |-> proc[p].listening, state |-> state]]
               /\ UNCHANGED lock
          ELSE IF p \in Serve THEN MovesTo(p, "clearing") /\ UNCHANGED lock
          ELSE GivesUp(p)
  BY DEF OpenHub
<1>3. CASE state # None
  <2> DEFINE pc == AfterOpening(p)
  <2>1. Moved(p, pc) /\ UNCHANGED lock
    BY <1>2, <1>3 DEF Moved, LockInv, Shaped
  <2>2. pc \in {"binding", "announcing", "running"}
    BY DEF AfterOpening, Process
  <2> QED
    BY <1>1, <2>1, <2>2, LockKept DEF Moved, Holds, Alone, Live
<1>4. CASE state = None /\ p \in Serve
  <2>1. Moved(p, "clearing") /\ UNCHANGED lock
    BY <1>2, <1>4, MovesMoved DEF LockInv
  <2> QED
    BY <1>1, <1>4, <2>1, LockKept DEF Moved, Holds, Alone, Live
<1>5. CASE state = None /\ p \notin Serve
  <2>1. GivesUp(p)
    BY <1>2, <1>5
  <2>2. Moved(p, "gone")
    BY <2>1, GoneMoved DEF GivesUp, LockInv
  <2>3. CASE p \in OneShot
    BY <1>1, <2>1, <2>2, <2>3, LockKept DEF GivesUp, Moved, Holds, Alone, Live
  <2>4. CASE p \notin OneShot
    BY <1>1, <2>1, <2>2, <2>4, LockReturned DEF Holds
  <2> QED
    BY <2>3, <2>4
<1> QED
  BY <1>3, <1>4, <1>5

(* The steps of a process that has its hub.                                 *)
LEMMA LockServing ==
  ASSUME ProcessAssumption, LockInv, NEW p \in Process,
         \/ Announce(p)
         \/ \E u \in Update : Change(p, u)
         \/ Quit(p)
         \/ ClearPage(p)
         \/ ReopenAndClear(p)
         \/ Leave(p)
         \/ Crash(p)
  PROVE  LockInv'
<1> USE DEF Holds, Alone, Live
<1>1. CASE Announce(p)
  <2>1. Moved(p, "running") /\ proc[p].pc = "announcing" /\ UNCHANGED lock
    BY <1>1, SavesMoved DEF Announce, LockInv
  <2> QED
    BY <2>1, LockKept DEF Moved
<1>2. CASE \E u \in Update : Change(p, u)
  <2>1. PICK u \in Update : Change(p, u)
    BY <1>2
  <2>2. Moved(p, proc[p].pc) /\ UNCHANGED lock
    BY <2>1, SavesMoved DEF Change, LockInv
  <2>3. proc[p].pc \in {"running", "clearing", "releasing", "leaving"}
    BY <2>1 DEF Change
  <2> QED
    BY <2>2, <2>3, LockKept DEF Moved
<1>3. CASE Quit(p)
  <2>1. Moved(p, "clearing") /\ proc[p].pc \in {"running", "opening"} /\ UNCHANGED lock
        /\ p \notin OneShot
    BY <1>3, MovesMoved DEF Quit, LockInv
  <2> QED
    BY <2>1, LockKept DEF Moved
<1>4. CASE ClearPage(p)
  <2>1. Moved(p, "releasing") /\ proc[p].pc = "clearing" /\ UNCHANGED lock
    BY <1>4, SavesMoved DEF ClearPage, LockInv
  <2> QED
    BY <2>1, LockKept DEF Moved
<1>5. CASE ReopenAndClear(p)
  <2>1. Moved(p, "releasing") /\ proc[p].pc = "clearing" /\ UNCHANGED lock
    BY <1>5, MovesMoved DEF ReopenAndClear, LockInv
  <2> QED
    BY <2>1, LockKept DEF Moved
<1>6. CASE Leave(p) \/ Crash(p)
  <2>1. Moved(p, "gone") /\ UNCHANGED lock
    BY <1>6, GoneMoved DEF Leave, Crash, LockInv
  <2> QED
    BY <2>1, LockKept DEF Moved
<1> QED
  BY <1>1, <1>2, <1>3, <1>4, <1>5, <1>6

LEMMA LockReleased ==
  ASSUME ProcessAssumption, LockInv, NEW p \in Process, Release(p)
  PROVE  LockInv'
<1>1. Moved(p, "leaving") /\ proc[p].pc = "releasing" /\ p \notin OneShot
  BY MovesMoved DEF Release, LockInv
<1> QED
  BY <1>1, LockReturned DEF Holds

(* A save moves files, neither the lock nor a process.                      *)
LEMMA LockFrame ==
  ASSUME LockInv, UNCHANGED <<lock, proc>>
  PROVE  LockInv'
BY DEF LockInv, Shaped, ForcingForced, AloneIsOnly, LockNames, Alone, Live, Holds

LEMMA LockStep ==
  ASSUME Forced \subseteq Solo, LockInv, [Next]_vars
  PROVE  LockInv'
<1>1. CASE \E p \in Process : ProcessStep(p)
  <2>1. PICK p \in Process : ProcessStep(p)
    BY <1>1
  <2> QED
    BY <2>1, ProcessAssumption, LockStart, LockForced, LockAcquired, LockBound,
       LockOpened, LockServing, LockReleased DEF ProcessStep
<1>2. CASE \E w \in Writer : WriterStep(w)
  <2>1. UNCHANGED <<lock, proc>>
    BY <1>2 DEF WriterStep, Create, Write, WriteFails, Rename, RenameRefused, SaveFails
  <2> QED
    BY <2>1, LockFrame
<1>3. CASE UNCHANGED vars
  BY <1>3, LockFrame DEF vars
<1> QED
  BY <1>1, <1>2, <1>3 DEF Next

(* "Long-running verbs are mutually exclusive per data directory": however  *)
(* many processes start, end, crash and take a stale lock over, no two hold *)
(* the lock, and the lock file names the one that does.                     *)
THEOREM LockSafe ==
  ASSUME Forced \subseteq Solo
  PROVE  Spec => []LockExclusive
<1>1. Init => LockInv
  BY LockInit
<1>2. LockInv /\ [Next]_vars => LockInv'
  BY LockStep
<1>3. LockInv => LockExclusive
  BY LockExcludes
<1> QED
  BY <1>1, <1>2, <1>3, PTL DEF Spec

-----------------------------------------------------------------------------
(* The types.                                                               *)

(* A process has its hub's state from opening it to giving the lock back,   *)
(* serve until its shutdown reads the file again, and has none before.      *)
HubOpen(p) ==
  \/ proc[p].pc \in {"announcing", "running"}
  \/ p \notin Serve /\ proc[p].pc \in {"binding", "clearing", "releasing"}
  \/ p \in Serve /\ proc[p].pc = "clearing" /\ proc[p].state # None

Unread(p) ==
  \/ proc[p].pc \in {"off", "forcing", "locking", "opening"}
  \/ p \in Serve /\ proc[p].pc = "binding"

HubsRead ==
  \A p \in Process : /\ HubOpen(p) => proc[p].state # None
                     /\ Unread(p) => proc[p].state = None

Tried == \A w \in Writer : writer[w].update # None => writer[w].update \in tried

TypeInv == TypeOK /\ HubsRead /\ Tried

LEMMA IdleSave ==
  /\ IdleWriter \in WriterState /\ IdleWriter.pc = "idle"
  /\ IdleWriter.inode = None /\ IdleWriter.update = None
BY DEF IdleWriter, WriterState, Default, Snapshot

LEMMA GonePlace == Gone \in ProcessState /\ Gone.pc = "gone" /\ Gone.state = None
BY DEF Gone, ProcessState

LEMMA TypeInit == ASSUME BoundAssumption, Init PROVE TypeInv
<1>1. TypeOK
  <2>1. Default \in Snapshot
    BY DEF Default, Snapshot
  <2>2. NotStarted \in ProcessState
    BY DEF NotStarted, ProcessState
  <2>3. 0 \in 0..MaxFaults
    BY BoundAssumption
  <2>4. /\ lock \in Process \cup {None} /\ names \in [Name -> Inode \cup {None}]
        /\ data \in [Inode -> Snapshot \cup {Torn}]
        /\ proc \in [Process -> ProcessState] /\ writer \in [Writer -> WriterState]
    BY <2>2, IdleSave DEF Init
  <2> QED
    BY <2>3, <2>4 DEF Init, TypeOK
<1>2. HubsRead
  BY DEF Init, HubsRead, HubOpen, Unread, NotStarted
<1>3. Tried
  BY IdleSave DEF Init, Tried
<1> QED
  BY <1>1, <1>2, <1>3 DEF TypeInv

(* What the file system gives is the type of what a process reads.          *)
LEMMA OpenedType ==
  ASSUME TypeOK, NEW state \in Opened
  PROVE  state \in Snapshot \cup {None}
<1>1. Default \in Snapshot
  BY DEF Default, Snapshot
<1>2. names["state"] # None => data[names["state"]] \in Snapshot \cup {Torn}
  BY DEF TypeOK, Name
<1> QED
  BY <1>1, <1>2 DEF Opened

LEMMA ClearedType ==
  ASSUME NEW state \in Snapshot
  PROVE  PageCleared(state) \in Snapshot /\ PageCleared(state).updates = state.updates
         /\ PageCleared(state).page = None
BY DEF PageCleared, Snapshot

(* A step that changes one process's record, and none of the saves.         *)
LEMMA PlaceType ==
  ASSUME TypeInv, NEW p \in Process, NEW place \in ProcessState,
         proc' = [proc EXCEPT ![p] = place], lock' \in {lock, p, None},
         UNCHANGED <<fileVars, writer, tried, saved>>,
         faults' \in 0..MaxFaults, {bare', uncleared', overran'} \subseteq BOOLEAN,
         HubOpen(p)' => place.state # None, Unread(p)' => place.state = None
  PROVE  TypeInv'
<1>1. proc' \in [Process -> ProcessState] /\ proc'[p] = place
      /\ \A q \in Process : q # p => proc'[q] = proc[q]
  BY DEF TypeInv, TypeOK
<1>2. TypeOK'
  BY <1>1 DEF TypeInv, TypeOK, fileVars
<1>3. HubsRead'
  BY <1>1 DEF TypeInv, HubsRead, HubOpen, Unread
<1>4. Tried'
  BY DEF TypeInv, Tried
<1> QED
  BY <1>2, <1>3, <1>4 DEF TypeInv

LEMMA MovesPlace ==
  ASSUME TypeOK, NEW p \in Process,
         NEW pc \in {"off", "forcing", "locking", "binding", "opening", "announcing",
                     "running", "clearing", "releasing", "leaving", "gone"},
         MovesTo(p, pc)
  PROVE  \E place \in ProcessState :
           place.pc = pc /\ place.state = proc[p].state /\ proc' = [proc EXCEPT ![p] = place]
<1> DEFINE place == [proc[p] EXCEPT !.pc = pc]
<1>1. place \in ProcessState /\ place.pc = pc /\ place.state = proc[p].state
  BY DEF TypeOK, ProcessState
<1>2. proc' = [proc EXCEPT ![p] = place]
  BY DEF TypeOK, MovesTo
<1> QED
  BY <1>1, <1>2

(* The same, when the process only moves.                                   *)
LEMMA MovesType ==
  ASSUME TypeInv, NEW p \in Process,
         NEW pc \in {"off", "forcing", "locking", "binding", "opening", "announcing",
                     "running", "clearing", "releasing", "leaving", "gone"},
         MovesTo(p, pc), lock' \in {lock, p, None},
         UNCHANGED <<fileVars, writer, tried, saved>>,
         faults' \in 0..MaxFaults, {bare', uncleared', overran'} \subseteq BOOLEAN,
         HubOpen(p)' => proc[p].state # None, Unread(p)' => proc[p].state = None
  PROVE  TypeInv'
<1>1. PICK place \in ProcessState :
        place.pc = pc /\ place.state = proc[p].state /\ proc' = [proc EXCEPT ![p] = place]
  BY MovesPlace DEF TypeInv
<1> QED
  BY <1>1, PlaceType

LEMMA StartType ==
  ASSUME ProcessAssumption, TypeInv, NEW p \in Process,
         Start(p) \/ RemoveLock(p) \/ AcquireLock(p)
  PROVE  TypeInv'
<1>1. PICK pc \in {"opening", "forcing", "locking", "binding", "gone"} :
        /\ MovesTo(p, pc) /\ proc[p].pc \in {"off", "forcing", "locking"}
        /\ pc = "binding" => p \in Serve
  BY DEF Start, RemoveLock, AcquireLock
<1>2. proc[p].state = None
  BY <1>1 DEF TypeInv, HubsRead, Unread
<1>3. ~HubOpen(p)'
  BY <1>1 DEF TypeInv, TypeOK, ProcessState, MovesTo, HubOpen
<1>4. /\ lock' \in {lock, p, None} /\ UNCHANGED <<fileVars, writer, countVars>>
      /\ faults' \in 0..MaxFaults /\ {bare', uncleared', overran'} \subseteq BOOLEAN
  BY DEF Start, RemoveLock, AcquireLock, countVars, historyVars, TypeInv, TypeOK
<1> QED
  BY <1>1, <1>2, <1>3, <1>4, MovesType DEF countVars

LEMMA BindType ==
  ASSUME ProcessAssumption, TypeInv, NEW p \in Process, BindPort(p)
  PROVE  TypeInv'
<1>1. /\ proc[p].pc = "binding" /\ proc[p] \in ProcessState
      /\ proc \in [Process -> ProcessState]
  BY DEF BindPort, TypeInv, TypeOK
<1>2. /\ lock' \in {lock, p, None} /\ UNCHANGED <<fileVars, writer, tried, saved>>
      /\ faults' \in 0..MaxFaults /\ {bare', uncleared', overran'} \subseteq BOOLEAN
  BY DEF BindPort, GivesUp, countVars, historyVars, TypeInv, TypeOK
<1>3. CASE PortFree(p)
  <2> DEFINE place == [pc |-> IF p \in Serve THEN "opening" ELSE "announcing",
                       listening |-> TRUE, state |-> proc[p].state]
  <2>1. /\ place \in ProcessState /\ place.state = proc[p].state
        /\ place.pc = IF p \in Serve THEN "opening" ELSE "announcing"
    BY <1>1 DEF ProcessState
  <2>2. proc' = [proc EXCEPT ![p] = place]
    BY <1>3 DEF BindPort
  <2> HIDE DEF place
  <2>3. proc'[p] = place
    BY <1>1, <2>2
  <2>4. /\ HubOpen(p)' => place.state # None
        /\ Unread(p)' => place.state = None
    BY <1>1, <2>1, <2>3 DEF TypeInv, HubsRead, HubOpen, Unread
  <2> QED
    BY <1>2, <2>1, <2>2, <2>4, PlaceType
<1>4. CASE ~PortFree(p)
  <2>1. proc' = [proc EXCEPT ![p] = Gone]
    BY <1>4 DEF BindPort, GivesUp
  <2>2. ~HubOpen(p)' /\ ~Unread(p)'
    BY <1>1, <2>1, GonePlace DEF HubOpen, Unread
  <2> QED
    BY <1>2, <2>1, <2>2, GonePlace, PlaceType
<1> QED
  BY <1>3, <1>4

LEMMA OpenType ==
  ASSUME ProcessAssumption, TypeInv, NEW p \in Process, OpenHub(p)
  PROVE  TypeInv'
<1>1. /\ proc[p].pc = "opening" /\ proc[p] \in ProcessState
      /\ proc \in [Process -> ProcessState] /\ proc[p].state = None
  BY DEF OpenHub, TypeInv, TypeOK, HubsRead, Unread
<1>2. /\ lock' \in {lock, p, None} /\ UNCHANGED <<fileVars, writer, tried, saved>>
      /\ faults' \in 0..MaxFaults /\ {bare', uncleared', overran'} \subseteq BOOLEAN
  BY DEF OpenHub, GivesUp, countVars, historyVars, TypeInv, TypeOK
<1>3. PICK state \in Opened :
        IF state # None
          THEN proc' = [proc EXCEPT ![p] =
                 [pc |-> AfterOpening(p), listening |-> proc[p].listening, state |-> state]]
          ELSE IF p \in Serve THEN MovesTo(p, "clearing") ELSE GivesUp(p)
  BY DEF OpenHub
<1>4. CASE state # None
  <2> DEFINE place == [pc |-> AfterOpening(p), listening |-> proc[p].listening, state |-> state]
  <2>1. /\ AfterOpening(p) \in {"binding", "announcing", "running"}
        /\ AfterOpening(p) = "binding" => p \notin Serve
    BY DEF AfterOpening, Process, ProcessAssumption
  <2>2. place \in ProcessState /\ place.pc = AfterOpening(p) /\ place.state = state
    BY <1>1, <1>4, <2>1, OpenedType DEF ProcessState, TypeInv
  <2>3. proc' = [proc EXCEPT ![p] = place]
    BY <1>3, <1>4
  <2> HIDE DEF place
  <2>4. ~Unread(p)'
    BY <1>1, <2>1, <2>2, <2>3 DEF Unread
  <2> QED
    BY <1>2, <1>4, <2>2, <2>3, <2>4, PlaceType
<1>5. CASE state = None /\ p \in Serve
  <2>1. MovesTo(p, "clearing")
    BY <1>3, <1>5
  <2>2. ~HubOpen(p)' /\ ~Unread(p)'
    BY <1>1, <1>5, <2>1 DEF MovesTo, ProcessState, HubOpen, Unread
  <2> QED
    BY <1>2, <2>1, <2>2, MovesType
<1>6. CASE state = None /\ p \notin Serve
  <2>1. proc' = [proc EXCEPT ![p] = Gone]
    BY <1>3, <1>6 DEF GivesUp
  <2>2. ~HubOpen(p)' /\ ~Unread(p)'
    BY <1>1, <2>1, GonePlace DEF HubOpen, Unread
  <2> QED
    BY <1>2, <2>1, <2>2, GonePlace, PlaceType
<1> QED
  BY <1>4, <1>5, <1>6

(* A hub's save begins.                                                     *)
LEMMA SavesType ==
  ASSUME SnapshotAssumption, TypeInv, NEW p \in Process, NEW state \in Snapshot,
         NEW update \in Update \cup {None},
         NEW pc \in {"running", "clearing", "releasing", "leaving"},
         Saves(p, state, update, pc), UNCHANGED <<lock, fileVars, saved, faults>>,
         {bare', uncleared', overran'} \subseteq BOOLEAN,
         tried \subseteq tried', tried' \subseteq Update, update # None => update \in tried'
  PROVE  TypeInv'
<1> DEFINE w == <<p, "hub">>
           place == [pc |-> pc, listening |-> proc[p].listening, state |-> state]
           save == [IdleWriter EXCEPT !.pc = "ready", !.snapshot = state, !.update = update]
<1>1. proc' = [proc EXCEPT ![p] = place] /\ writer' = [writer EXCEPT ![w] = save]
      /\ w \in Writer
  BY DEF Saves, Writer
<1>2. place \in ProcessState /\ place.pc = pc /\ place.state = state /\ state # None
  BY DEF TypeInv, TypeOK, ProcessState, SnapshotAssumption
<1>3. save \in WriterState /\ save.update = update
  BY DEF IdleWriter, WriterState
<1> HIDE DEF place, save
<1>4. /\ proc' \in [Process -> ProcessState] /\ proc'[p] = place
      /\ \A q \in Process : q # p => proc'[q] = proc[q]
  BY <1>1, <1>2 DEF TypeInv, TypeOK
<1>5. /\ writer' \in [Writer -> WriterState] /\ writer'[w] = save
      /\ \A v \in Writer : v # w => writer'[v] = writer[v]
  BY <1>1, <1>3 DEF TypeInv, TypeOK
<1>6. TypeOK'
  BY <1>4, <1>5 DEF TypeInv, TypeOK, fileVars
<1>7. HubsRead'
  BY <1>2, <1>4 DEF TypeInv, HubsRead, HubOpen, Unread
<1>8. Tried'
  BY <1>3, <1>5 DEF TypeInv, Tried
<1> QED
  BY <1>6, <1>7, <1>8 DEF TypeInv

LEMMA RecordType ==
  ASSUME ProcessAssumption, SnapshotAssumption, TypeInv, NEW p \in Process,
         Announce(p) \/ (\E u \in Update : Change(p, u)) \/ ClearPage(p)
  PROVE  TypeInv'
<1>1. proc[p].state # None => proc[p].state \in Snapshot
  BY DEF TypeInv, TypeOK, ProcessState
<1>2. tried \subseteq Update /\ {bare, uncleared, overran} \subseteq BOOLEAN
  BY DEF TypeInv, TypeOK
<1>3. CASE Announce(p)
  <2> DEFINE state == [proc[p].state EXCEPT !.page = PortOf[p]]
  <2>1. Saves(p, state, None, "running") /\ UNCHANGED <<lock, fileVars, countVars>>
        /\ proc[p].state # None
    BY <1>3 DEF Announce, TypeInv, HubsRead, HubOpen
  <2>2. state \in Snapshot
    BY <1>1, <2>1 DEF Snapshot, Port, ProcessAssumption
  <2> HIDE DEF state
  <2> QED
    BY <1>2, <2>1, <2>2, SavesType DEF countVars, historyVars
<1>4. CASE \E u \in Update : Change(p, u)
  <2>1. PICK u \in Update : Change(p, u)
    BY <1>4
  <2> DEFINE state == [proc[p].state EXCEPT !.updates = @ \cup {u}]
  <2>2. /\ Saves(p, state, u, proc[p].pc) /\ proc[p].state # None
        /\ proc[p].pc \in {"running", "clearing", "releasing", "leaving"}
        /\ UNCHANGED <<lock, fileVars, saved, faults, bare, uncleared>>
        /\ tried' = tried \cup {u} /\ overran' = (overran \/ TooLate(p))
    BY <2>1 DEF Change
  <2>3. state \in Snapshot
    BY <1>1, <2>2 DEF Snapshot
  <2>4. overran' \in BOOLEAN
    BY <1>2, <2>2 DEF TooLate
  <2> HIDE DEF state
  <2> QED
    BY <1>2, <2>2, <2>3, <2>4, SavesType
<1>5. CASE ClearPage(p)
  <2> DEFINE state == PageCleared(proc[p].state)
  <2>1. Saves(p, state, None, "releasing") /\ UNCHANGED <<lock, fileVars, countVars>>
        /\ proc[p].state # None
    BY <1>5 DEF ClearPage, ProcessAssumption, TypeInv, HubsRead, HubOpen
  <2>2. state \in Snapshot
    BY <1>1, <2>1, ClearedType
  <2> HIDE DEF state
  <2> QED
    BY <1>2, <2>1, <2>2, SavesType DEF countVars, historyVars
<1> QED
  BY <1>3, <1>4, <1>5

LEMMA QuitType ==
  ASSUME ProcessAssumption, TypeInv, NEW p \in Process, Quit(p) \/ Release(p)
  PROVE  TypeInv'
<1>1. PICK pc \in {"clearing", "leaving"} :
        /\ MovesTo(p, pc)
        /\ pc = "clearing" => proc[p].pc = "running" \/ p \in Serve
  BY DEF Quit, Release
<1>2. ~Unread(p)'
  BY <1>1 DEF MovesTo, TypeInv, TypeOK, ProcessState, Unread
<1>3. HubOpen(p)' => proc[p].state # None
  BY <1>1 DEF MovesTo, TypeInv, TypeOK, ProcessState, HubsRead, HubOpen
<1>4. /\ lock' \in {lock, p, None} /\ UNCHANGED <<fileVars, writer, tried, saved, faults>>
      /\ {bare', uncleared', overran'} \subseteq BOOLEAN /\ faults \in 0..MaxFaults
  BY DEF Quit, Release, Saving, countVars, historyVars, TypeInv, TypeOK
<1> QED
  BY <1>1, <1>2, <1>3, <1>4, MovesType

LEMMA ReopenType ==
  ASSUME ProcessAssumption, TypeInv, NEW p \in Process, ReopenAndClear(p)
  PROVE  TypeInv'
<1> DEFINE w == <<p, "shutdown">>
<1>1. /\ p \in Serve /\ MovesTo(p, "releasing") /\ w \in Writer
      /\ UNCHANGED <<lock, fileVars, tried, saved, faults, bare, uncleared>>
      /\ overran' = (overran \/ Saving(p))
  BY DEF ReopenAndClear, Writer
<1>2. PICK state \in Opened :
        writer' = IF state = None THEN writer
                  ELSE [writer EXCEPT ![w] =
                    [IdleWriter EXCEPT !.pc = "ready", !.snapshot = PageCleared(state)]]
  BY DEF ReopenAndClear
<1>3. writer' \in [Writer -> WriterState] /\ Tried'
  <2>1. CASE state = None
    BY <1>1, <1>2, <2>1 DEF TypeInv, TypeOK, Tried
  <2>2. CASE state # None
    <3> DEFINE save == [IdleWriter EXCEPT !.pc = "ready", !.snapshot = PageCleared(state)]
    <3>1. PageCleared(state) \in Snapshot
      BY <2>2, OpenedType, ClearedType DEF TypeInv
    <3>2. save \in WriterState /\ save.update = None
      BY <3>1 DEF IdleWriter, WriterState
    <3>3. writer' = [writer EXCEPT ![w] = save]
      BY <1>2, <2>2
    <3> HIDE DEF save
    <3> QED
      BY <1>1, <3>2, <3>3 DEF TypeInv, TypeOK, Tried
  <2> QED
    BY <2>1, <2>2
<1>4. PICK place \in ProcessState :
        place.pc = "releasing" /\ proc' = [proc EXCEPT ![p] = place]
  BY <1>1, MovesPlace DEF TypeInv
<1>5. /\ proc' \in [Process -> ProcessState] /\ proc'[p] = place
      /\ \A q \in Process : q # p => proc'[q] = proc[q]
  BY <1>4 DEF TypeInv, TypeOK
<1>6. TypeOK'
  BY <1>1, <1>3, <1>5 DEF TypeInv, TypeOK, fileVars, Saving
<1>7. HubsRead'
  BY <1>1, <1>4, <1>5 DEF TypeInv, HubsRead, HubOpen, Unread
<1> QED
  BY <1>3, <1>6, <1>7 DEF TypeInv

LEMMA EndType ==
  ASSUME BoundAssumption, TypeInv, NEW p \in Process, Leave(p) \/ Crash(p)
  PROVE  TypeInv'
<1>1. /\ proc' = [proc EXCEPT ![p] = Gone] /\ WritersStop(p)
      /\ UNCHANGED <<lock, fileVars, tried, saved, overran>>
  BY DEF Leave, Crash
<1>2. faults' \in 0..MaxFaults /\ {bare', uncleared', overran'} \subseteq BOOLEAN
  <2>1. {bare', overran'} \subseteq BOOLEAN
    BY <1>1 DEF WritersStop, TypeInv, TypeOK
  <2>2. CASE Leave(p)
    BY <2>1, <2>2 DEF Leave, TypeInv, TypeOK
  <2>3. CASE Crash(p)
    BY <2>1, <2>3, BoundAssumption DEF Crash, TypeInv, TypeOK
  <2> QED
    BY <2>2, <2>3
<1>3. /\ proc' \in [Process -> ProcessState] /\ proc'[p] = Gone
      /\ \A q \in Process : q # p => proc'[q] = proc[q]
  BY <1>1, GonePlace DEF TypeInv, TypeOK
<1>4. /\ writer' \in [Writer -> WriterState]
      /\ \A w \in Writer : writer'[w] = IF w[1] = p THEN IdleWriter ELSE writer[w]
  BY <1>1, IdleSave DEF TypeInv, TypeOK, WritersStop
<1>5. TypeOK'
  BY <1>1, <1>2, <1>3, <1>4 DEF TypeInv, TypeOK, fileVars
<1>6. HubsRead'
  BY <1>3, GonePlace DEF TypeInv, HubsRead, HubOpen, Unread
<1>7. Tried'
  BY <1>1, <1>4, IdleSave DEF TypeInv, Tried
<1> QED
  BY <1>5, <1>6, <1>7 DEF TypeInv

(* There is an identity nothing refers to, whatever became of the files.    *)
LEMMA FreshApart ==
  ASSUME ProcessAssumption, BoundAssumption, TypeOK, NEW w \in Writer, names[w[1]] = None
  PROVE  Fresh \in Inode /\ \A n \in Name : names[n] # Fresh
<1> DEFINE p == w[1]
           Named == {names[n] : n \in Name \ {p}}
           Written == {writer[v].inode : v \in Writer}
           P == Cardinality(Process)
<1>1. p \in Process /\ Name = Process \cup {"state"} /\ "state" \notin Process
  BY DEF Writer, Name, ProcessAssumption
<1>2. IsFiniteSet(Process) /\ P \in Nat /\ MaxFiles \in Nat /\ 3 * P < MaxFiles
  BY BoundAssumption, FS_CardinalityType
<1>3. IsFiniteSet(Named) /\ Cardinality(Named) <= P
  <2>1. IsFiniteSet(Name) /\ Cardinality(Name) = P + 1
    BY <1>1, <1>2, FS_AddElement
  <2>2. IsFiniteSet(Name \ {p}) /\ Cardinality(Name \ {p}) = P
    <3>1. p \in Name
      BY <1>1
    <3>2. IsFiniteSet(Name \ {p}) /\ Cardinality(Name \ {p}) = Cardinality(Name) - 1
      BY <2>1, <3>1, FS_RemoveElement
    <3> HIDE DEF P, p
    <3> QED
      BY <1>2, <2>1, <3>2
  <2> DEFINE holder == [n \in Name \ {p} |-> names[n]]
  <2>3. holder \in Surjection(Name \ {p}, Named)
    BY DEF Surjection
  <2> QED
    BY <2>2, <2>3, FS_Surjection
<1>4. IsFiniteSet(Written) /\ Cardinality(Written) <= 2 * P
  <2>1. IsFiniteSet({"hub", "shutdown"}) /\ Cardinality({"hub", "shutdown"}) = 2
    <3>1. IsFiniteSet({"hub"}) /\ Cardinality({"hub"}) = 1
      BY FS_Singleton
    <3>2. {"hub", "shutdown"} = {"hub"} \cup {"shutdown"} /\ "shutdown" \notin {"hub"}
      OBVIOUS
    <3>3. /\ IsFiniteSet({"hub"} \cup {"shutdown"})
          /\ Cardinality({"hub"} \cup {"shutdown"}) = Cardinality({"hub"}) + 1
      BY <3>1, <3>2, FS_AddElement
    <3> QED
      BY <3>1, <3>2, <3>3
  <2>2. IsFiniteSet(Writer) /\ Cardinality(Writer) = P * 2
    BY <1>2, <2>1, FS_Product DEF Writer
  <2> DEFINE holder == [v \in Writer |-> writer[v].inode]
  <2>3. holder \in Surjection(Writer, Written)
    BY DEF Surjection
  <2>4. IsFiniteSet(Written) /\ Cardinality(Written) <= Cardinality(Writer)
    BY <2>2, <2>3, FS_Surjection
  <2> QED
    BY <1>2, <2>2, <2>4
<1>5. IsFiniteSet(Named \cup Written) /\ Cardinality(Named \cup Written) < MaxFiles
  <2>1. /\ IsFiniteSet(Named \cup Written) /\ IsFiniteSet(Named \cap Written)
        /\ Cardinality(Named \cup Written)
             = Cardinality(Named) + Cardinality(Written) - Cardinality(Named \cap Written)
    BY <1>3, <1>4, FS_Union, FS_Intersection
  <2>2. Cardinality(Named) \in Nat /\ Cardinality(Written) \in Nat
        /\ Cardinality(Named \cap Written) \in Nat
    BY <1>3, <1>4, <2>1, FS_CardinalityType
  <2> HIDE DEF Named, Written
  <2> QED
    BY <1>2, <1>3, <1>4, <2>1, <2>2
<1>6. PICK i \in Inode : i \notin Named \cup Written
  <2>1. SUFFICES ASSUME Inode \subseteq Named \cup Written PROVE FALSE
    OBVIOUS
  <2>2. Cardinality(Inode) <= Cardinality(Named \cup Written)
    BY <1>5, <2>1, FS_Subset
  <2>3. Cardinality(Inode) = MaxFiles
    BY <1>2, FS_Interval DEF Inode
  <2>4. Cardinality(Named \cup Written) \in Nat
    BY <1>5, FS_CardinalityType
  <2> QED
    BY <1>2, <1>5, <2>2, <2>3, <2>4
<1>7. (\A n \in Name : names[n] # i) /\ (\A v \in Writer : writer[v].inode # i)
  BY <1>1, <1>6 DEF ProcessAssumption
<1> QED
  BY <1>7 DEF Fresh

(* A step of a save: the writer has another record, an idle one or with the *)
(* snapshot and the update it had.                                          *)
LEMMA WriterType ==
  ASSUME TypeInv, NEW w \in Writer, NEW save \in WriterState,
         writer' = [writer EXCEPT ![w] = save], save.update \in {None, writer[w].update},
         UNCHANGED <<lock, proc, tried>>, names' \in [Name -> Inode \cup {None}],
         data' \in [Inode -> Snapshot \cup {Torn}], saved' \subseteq tried,
         faults' \in 0..MaxFaults, {bare', uncleared', overran'} \subseteq BOOLEAN
  PROVE  TypeInv'
<1>1. /\ writer' \in [Writer -> WriterState] /\ writer'[w] = save
      /\ \A v \in Writer : v # w => writer'[v] = writer[v]
  BY DEF TypeInv, TypeOK
<1>2. TypeOK'
  BY <1>1 DEF TypeInv, TypeOK
<1>3. HubsRead' /\ Tried'
  BY <1>1 DEF TypeInv, HubsRead, HubOpen, Unread, Tried
<1> QED
  BY <1>2, <1>3 DEF TypeInv

LEMMA SavingType ==
  ASSUME ProcessAssumption, BoundAssumption, TypeInv, NEW w \in Writer, WriterStep(w)
  PROVE  TypeInv'
<1>1. /\ writer \in [Writer -> WriterState] /\ writer[w] \in WriterState
      /\ w[1] \in Process /\ w[1] \in Name /\ "state" \in Name
      /\ names \in [Name -> Inode \cup {None}] /\ data \in [Inode -> Snapshot \cup {Torn}]
      /\ saved \subseteq tried /\ faults \in 0..MaxFaults /\ MaxFaults \in Nat
      /\ {bare, uncleared, overran} \subseteq BOOLEAN
  BY BoundAssumption DEF TypeInv, TypeOK, Writer, Name
<1>2. CASE Create(w)
  <2> DEFINE i == IF names[w[1]] = None THEN Fresh ELSE names[w[1]]
             save == [writer[w] EXCEPT !.pc = "created", !.inode = i]
  <2>1. i \in Inode
    BY <1>1, FreshApart, ProcessAssumption DEF TypeInv
  <2>2. save \in WriterState /\ save.update = writer[w].update
    BY <1>1, <2>1 DEF WriterState
  <2>3. /\ names' = [names EXCEPT ![w[1]] = i] /\ data' = [data EXCEPT ![i] = Torn]
        /\ writer' = [writer EXCEPT ![w] = save] /\ UNCHANGED <<lock, proc, countVars>>
    BY <1>1, <1>2 DEF Create
  <2> HIDE DEF i, save
  <2>4. names' \in [Name -> Inode \cup {None}] /\ data' \in [Inode -> Snapshot \cup {Torn}]
    BY <1>1, <2>1, <2>3
  <2> QED
    BY <1>1, <2>2, <2>3, <2>4, WriterType DEF countVars, historyVars
<1>3. CASE Write(w) \/ RenameRefused(w)
  <2>1. PICK pc \in {"written", "removed"} : writer' = [writer EXCEPT ![w].pc = pc]
    BY <1>3 DEF Write, RenameRefused
  <2> DEFINE save == [writer[w] EXCEPT !.pc = pc]
  <2>2. /\ save \in WriterState /\ save.update = writer[w].update
        /\ writer' = [writer EXCEPT ![w] = save]
    BY <1>1, <2>1 DEF WriterState
  <2>3. /\ UNCHANGED <<lock, proc, countVars>> /\ names' \in [Name -> Inode \cup {None}]
        /\ data' \in [Inode -> Snapshot \cup {Torn}]
    <3>1. writer[w].snapshot \in Snapshot
      BY <1>1 DEF WriterState
    <3> QED
      BY <1>1, <1>3, <3>1 DEF Write, RenameRefused
  <2> HIDE DEF save
  <2> QED
    BY <1>1, <2>2, <2>3, WriterType DEF countVars, historyVars
<1>4. CASE Rename(w)
  <2>1. names' \in [Name -> Inode \cup {None}]
    BY <1>1, <1>4 DEF Rename, Renamed
  <2>2. saved' \subseteq tried
    BY <1>1, <1>4 DEF Rename, Acknowledged, TypeInv, Tried
  <2> QED
    BY <1>1, <1>4, <2>1, <2>2, IdleSave, WriterType DEF Rename, historyVars
<1>5. CASE WriteFails(w) \/ SaveFails(w)
  <2>1. /\ writer' = [writer EXCEPT ![w] = IdleWriter]
        /\ UNCHANGED <<lock, names, data, proc, tried, saved, overran>>
        /\ uncleared' = (uncleared \/ Clearing(w))
    BY <1>5 DEF WriteFails, SaveFails, fileVars
  <2>2. faults' \in 0..MaxFaults
    BY <1>1, <1>5 DEF WriteFails, SaveFails
  <2>3. bare' \in BOOLEAN
    BY <1>1, <1>5 DEF WriteFails, SaveFails
  <2>4. uncleared' \in BOOLEAN
    BY <1>1, <2>1 DEF Clearing
  <2> QED
    BY <1>1, <2>1, <2>2, <2>3, <2>4, IdleSave, WriterType
<1> QED
  BY <1>2, <1>3, <1>4, <1>5 DEF WriterStep

LEMMA TypeStep == ASSUME TypeInv, [Next]_vars PROVE TypeInv'
<1>1. CASE \E p \in Process : ProcessStep(p)
  <2>1. PICK p \in Process : ProcessStep(p)
    BY <1>1
  <2> QED
    BY <2>1, ProcessAssumption, BoundAssumption, SnapshotAssumption, StartType, BindType,
       OpenType, RecordType, QuitType, ReopenType, EndType DEF ProcessStep
<1>2. CASE \E w \in Writer : WriterStep(w)
  BY <1>2, ProcessAssumption, BoundAssumption, SavingType
<1>3. CASE UNCHANGED vars
  BY <1>3 DEF vars, TypeInv, TypeOK, HubsRead, HubOpen, Unread, Tried
<1> QED
  BY <1>1, <1>2, <1>3 DEF Next

(* Every reachable state has the type TypeOK states, also when a forced     *)
(* start takes the lock from a live process and when requests save beside   *)
(* the end of theirs.                                                       *)
THEOREM TypeCorrect == Spec => []TypeOK
<1>1. Init => TypeInv
  BY TypeInit, BoundAssumption
<1>2. TypeInv /\ [Next]_vars => TypeInv'
  BY TypeStep
<1>3. TypeInv => TypeOK
  BY DEF TypeInv
<1> QED
  BY <1>1, <1>2, <1>3, PTL DEF Spec

-----------------------------------------------------------------------------
(* The files.                                                               *)

(* From reading the state file to its last save, a process is one no other  *)
(* process works beside: the lock's holder, or a one-shot running alone.    *)
Working(p) == Holds(p) \/ (p \in OneShot /\ Live(p))

Idle(w) == writer[w].pc = "idle"

(* Until one overruns its process's end, a save is at work only while its   *)
(* process holds the lock or runs alone, the hub's and the shutdown's never *)
(* both; the hub's saves what the process has in memory.                    *)
HubBusy(p) ==
  /\ \/ proc[p].pc \in {"running", "clearing"}
     \/ p \notin Serve /\ proc[p].pc = "releasing"
  /\ writer[<<p, "hub">>].snapshot = proc[p].state
ShutdownBusy(p) ==
  /\ p \in Serve /\ proc[p].pc = "releasing"
  /\ writer[<<p, "shutdown">>].update = None
BusyWhere == \A p \in Process : /\ ~Idle(<<p, "hub">>) => HubBusy(p)
                                /\ ~Idle(<<p, "shutdown">>) => ShutdownBusy(p)

(* A save's inode is its process's temporary file, and holds the snapshot   *)
(* once written.                                                            *)
SaveAt(w) ==
  LET save == writer[w]
  IN  /\ save.pc \in {"idle", "ready"} => save.inode = None
      /\ save.pc \in {"created", "written", "removed"} =>
           save.inode \in Inode /\ names[w[1]] = save.inode
      /\ save.pc \in {"written", "removed"} => data[save.inode] = save.snapshot
      /\ save.update # None => save.update \in save.snapshot.updates \cap tried

SavesAt == \A w \in Writer : SaveAt(w)

NamesApart == \A m, n \in Name : names[m] = names[n] /\ names[m] # None => m = n

(* Until a fallback leaves no file, every copy at work holds every          *)
(* acknowledged update: the file, the working process's memory, its saves.  *)
Kept ==
  ~bare =>
    /\ StateFile # None => saved \subseteq data[StateFile].updates
    /\ \A p \in Process : HubOpen(p) => saved \subseteq proc[p].state.updates
    /\ \A w \in Writer : ~Idle(w) => saved \subseteq writer[w].snapshot.updates

FileInv ==
  /\ LockInv /\ TypeOK
  /\ HubsRead /\ BusyWhere /\ SavesAt /\ NamesApart
  /\ Intact /\ Kept

(* What the invariant speaks of, the processes and the lock aside.          *)
copyVars == <<names, data, writer, tried, saved, bare>>

LEMMA FileInit == ASSUME BoundAssumption, Init PROVE FileInv
<1>1. TypeOK /\ HubsRead
  BY TypeInit DEF TypeInv
<1>2. BusyWhere
  BY DEF Init, BusyWhere, Idle, IdleWriter, Writer
<1>3. SavesAt /\ NamesApart
  BY DEF Init, SavesAt, SaveAt, NamesApart, IdleWriter
<1>4. Intact /\ Kept
  BY DEF Init, Intact, Kept, StateFile, Name
<1> QED
  BY <1>1, <1>2, <1>3, <1>4, LockInit DEF FileInv

(* Only one process works, and one save at a time.                          *)
LEMMA WorkingAlone ==
  ASSUME ProcessAssumption, LockInv, NEW p \in Process, NEW q \in Process,
         Working(p), Working(q)
  PROVE  p = q
BY DEF LockInv, LockNames, AloneIsOnly, ProcessAssumption, Working, Alone, Holds, Live

LEMMA HubWorks ==
  ASSUME ProcessAssumption, NEW p \in Process, HubOpen(p)
  PROVE  Working(p)
BY DEF ProcessAssumption, HubOpen, Working, Holds, Live

LEMMA SaveWorks ==
  ASSUME ProcessAssumption, BusyWhere, NEW w \in Writer, ~Idle(w)
  PROVE  w[1] \in Process /\ w[2] \in {"hub", "shutdown"} /\ w = <<w[1], w[2]>> /\ Working(w[1])
<1>1. w[1] \in Process /\ w[2] \in {"hub", "shutdown"} /\ w = <<w[1], w[2]>>
  BY DEF Writer
<1>2. CASE w[2] = "hub"
  <2>1. HubBusy(w[1])
    BY <1>1, <1>2 DEF BusyWhere
  <2> QED
    BY <1>1, <2>1 DEF HubBusy, ProcessAssumption, Working, Holds, Live
<1>3. CASE w[2] = "shutdown"
  <2>1. ShutdownBusy(w[1])
    BY <1>1, <1>3 DEF BusyWhere
  <2> QED
    BY <1>1, <2>1 DEF ShutdownBusy, ProcessAssumption, Working, Holds, Live
<1> QED
  BY <1>1, <1>2, <1>3

LEMMA OneSave ==
  ASSUME ProcessAssumption, LockInv, BusyWhere, NEW v \in Writer, NEW w \in Writer,
         ~Idle(v), ~Idle(w)
  PROVE  v = w
<1>1. /\ v[1] \in Process /\ v[2] \in {"hub", "shutdown"} /\ v = <<v[1], v[2]>>
      /\ w[1] \in Process /\ w[2] \in {"hub", "shutdown"} /\ w = <<w[1], w[2]>>
      /\ v[1] = w[1]
  BY SaveWorks, WorkingAlone
<1>2. v[2] = w[2]
  <2>1. ASSUME NEW p \in Process, ~Idle(<<p, "hub">>), ~Idle(<<p, "shutdown">>) PROVE FALSE
    BY <2>1 DEF BusyWhere, HubBusy, ShutdownBusy, ProcessAssumption
  <2> QED
    BY <1>1, <2>1
<1> QED
  BY <1>1, <1>2

(* A process whose place is not one that saves has none at work.            *)
LEMMA NoSave ==
  ASSUME BusyWhere, NEW p \in Process,
         proc[p].pc \notin {"running", "clearing", "releasing"}
  PROVE  Idle(<<p, "hub">>) /\ Idle(<<p, "shutdown">>)
BY DEF BusyWhere, HubBusy, ShutdownBusy

(* While a process without a save at work works, there is no save at all:   *)
(* a missing state file is one that never held anything, or a bare one.     *)
LEMMA NobodySaves ==
  ASSUME ProcessAssumption, LockInv, BusyWhere, NEW p \in Process, Working(p),
         Idle(<<p, "hub">>), Idle(<<p, "shutdown">>)
  PROVE  \A w \in Writer : Idle(w)
BY SaveWorks, WorkingAlone

(* A step that only moves a process, with no save of its at work.           *)
LEMMA PlaceStep ==
  ASSUME ProcessAssumption, FileInv, LockInv', TypeInv',
         NEW p \in Process, NEW r \in ProcessState,
         proc' = [proc EXCEPT ![p] = r], UNCHANGED copyVars,
         Idle(<<p, "hub">>) \/ HubBusy(p)', Idle(<<p, "shutdown">>),
         HubOpen(p)' /\ ~bare => saved \subseteq r.state.updates
  PROVE  FileInv'
<1>1. proc'[p] = r /\ \A q \in Process : q # p => proc'[q] = proc[q]
  BY DEF FileInv, TypeOK
<1>2. UNCHANGED <<names, data, writer, tried, saved, bare>>
  BY DEF copyVars
<1>3. BusyWhere'
  <2>1. ASSUME NEW q \in Process, q # p
        PROVE  /\ (~Idle(<<q, "hub">>) => HubBusy(q))'
               /\ (~Idle(<<q, "shutdown">>) => ShutdownBusy(q))'
    BY <1>1, <1>2, <2>1 DEF FileInv, BusyWhere, Idle, HubBusy, ShutdownBusy
  <2>2. (Idle(<<p, "hub">>) \/ HubBusy(p))' /\ Idle(<<p, "shutdown">>)'
    BY <1>2 DEF Idle
  <2> QED
    BY <2>1, <2>2 DEF BusyWhere
<1>4. SavesAt' /\ NamesApart' /\ Intact'
  BY <1>2 DEF FileInv, SavesAt, SaveAt, NamesApart, Intact, StateFile
<1>5. Kept'
  BY <1>1, <1>2 DEF FileInv, Kept, StateFile, HubOpen, Idle
<1> QED
  BY <1>3, <1>4, <1>5 DEF FileInv, TypeInv

(* What opening the state file finds.                                       *)
LEMMA OpenedWhole ==
  ASSUME ProcessAssumption, FileInv, NEW p \in Process, Working(p),
         Idle(<<p, "hub">>), Idle(<<p, "shutdown">>), NEW state \in Opened
  PROVE  state \in Snapshot /\ (~bare => saved \subseteq state.updates)
<1>1. \A w \in Writer : writer[w].pc # "removed"
  BY NobodySaves DEF FileInv, Idle
<1>2. CASE StateFile = None
  <2>1. state = Default
    BY <1>2 DEF Opened, StateFile
  <2>2. saved = {} \/ bare
    BY <1>1, <1>2 DEF FileInv, Intact
  <2>3. Default \in Snapshot
    BY DEF Default, Snapshot
  <2> QED
    BY <2>1, <2>2, <2>3
<1>3. CASE StateFile # None
  <2>1. StateFile \in Inode
    BY <1>3 DEF FileInv, TypeOK, StateFile, Name
  <2>2. data[StateFile] # Torn
    BY <1>3 DEF FileInv, Intact
  <2>3. state = data[StateFile]
    BY <1>3, <2>2 DEF Opened, StateFile
  <2>4. state \in Snapshot
    BY <2>1, <2>2, <2>3 DEF FileInv, TypeOK
  <2> QED
    BY <1>3, <2>3, <2>4 DEF FileInv, Kept
<1> QED
  BY <1>2, <1>3

-----------------------------------------------------------------------------
(* The steps of a process.                                                  *)

LEMMA StartFiles ==
  ASSUME ProcessAssumption, FileInv, LockInv', TypeInv', NEW p \in Process,
         Start(p) \/ RemoveLock(p)
  PROVE  FileInv'
<1>1. PICK pc \in {"opening", "forcing", "locking"} :
        MovesTo(p, pc) /\ proc[p].pc \in {"off", "forcing"}
  BY DEF Start, RemoveLock
<1>2. PICK r \in ProcessState :
        r.pc = pc /\ r.state = proc[p].state /\ proc' = [proc EXCEPT ![p] = r]
  BY <1>1, MovesPlace DEF FileInv
<1>3. ~HubOpen(p)'
  BY <1>1, <1>2 DEF FileInv, TypeOK, HubOpen
<1>4. UNCHANGED copyVars
  BY DEF Start, RemoveLock, copyVars, fileVars, countVars, historyVars
<1>5. Idle(<<p, "hub">>) /\ Idle(<<p, "shutdown">>)
  BY <1>1, NoSave DEF FileInv
<1> QED
  BY <1>2, <1>3, <1>4, <1>5, PlaceStep

LEMMA LockFiles ==
  ASSUME ProcessAssumption, FileInv, LockInv', TypeInv', NEW p \in Process, AcquireLock(p)
  PROVE  FileInv'
<1>1. PICK pc \in {"opening", "binding", "gone"} :
        MovesTo(p, pc) /\ (pc = "binding" => p \in Serve)
  BY DEF AcquireLock
<1>2. PICK r \in ProcessState :
        r.pc = pc /\ r.state = proc[p].state /\ proc' = [proc EXCEPT ![p] = r]
  BY <1>1, MovesPlace DEF FileInv
<1>3. ~HubOpen(p)'
  BY <1>1, <1>2 DEF FileInv, TypeOK, HubOpen, ProcessAssumption
<1>4. UNCHANGED copyVars
  BY DEF AcquireLock, copyVars, fileVars, countVars, historyVars
<1>5. Idle(<<p, "hub">>) /\ Idle(<<p, "shutdown">>)
  BY NoSave DEF FileInv, AcquireLock
<1> QED
  BY <1>2, <1>3, <1>4, <1>5, PlaceStep

LEMMA BindFiles ==
  ASSUME ProcessAssumption, FileInv, LockInv', TypeInv', NEW p \in Process, BindPort(p)
  PROVE  FileInv'
<1>1. proc[p].pc = "binding" /\ proc[p] \in ProcessState
  BY DEF BindPort, FileInv, TypeOK
<1>2. UNCHANGED copyVars
  BY DEF BindPort, GivesUp, copyVars, fileVars, countVars, historyVars
<1>3. Idle(<<p, "hub">>) /\ Idle(<<p, "shutdown">>)
  BY <1>1, NoSave DEF FileInv
<1>4. CASE PortFree(p)
  <2> DEFINE r == [pc |-> IF p \in Serve THEN "opening" ELSE "announcing",
                   listening |-> TRUE, state |-> proc[p].state]
  <2>1. /\ r \in ProcessState /\ r.state = proc[p].state
        /\ r.pc = IF p \in Serve THEN "opening" ELSE "announcing"
    BY <1>1 DEF ProcessState
  <2>2. proc' = [proc EXCEPT ![p] = r]
    BY <1>4 DEF BindPort
  <2> HIDE DEF r
  <2>3. proc'[p] = r
    BY <2>2 DEF FileInv, TypeOK
  <2>4. CASE p \notin Serve
    <3>1. HubOpen(p)
      BY <1>1, <2>4 DEF HubOpen
    <3> QED
      BY <1>2, <1>3, <2>1, <2>2, <3>1, PlaceStep DEF FileInv, HubsRead, Kept
  <2>5. CASE p \in Serve
    <3>1. ~HubOpen(p)'
      BY <2>1, <2>3, <2>5 DEF HubOpen, ProcessAssumption
    <3> QED
      BY <1>2, <1>3, <2>1, <2>2, <3>1, PlaceStep
  <2> QED
    BY <2>4, <2>5
<1>5. CASE ~PortFree(p)
  <2>1. proc' = [proc EXCEPT ![p] = Gone]
    BY <1>5 DEF BindPort, GivesUp
  <2>2. ~HubOpen(p)'
    BY <2>1, GonePlace DEF FileInv, TypeOK, HubOpen
  <2> QED
    BY <1>2, <1>3, <2>1, <2>2, GonePlace, PlaceStep
<1> QED
  BY <1>4, <1>5

LEMMA OpenFiles ==
  ASSUME ProcessAssumption, SnapshotAssumption, FileInv, LockInv', TypeInv', NEW p \in Process,
         OpenHub(p)
  PROVE  FileInv'
<1>1. proc[p].pc = "opening" /\ proc[p] \in ProcessState
  BY DEF OpenHub, FileInv, TypeOK
<1>2. UNCHANGED copyVars
  BY DEF OpenHub, GivesUp, copyVars, fileVars, countVars, historyVars
<1>3. Idle(<<p, "hub">>) /\ Idle(<<p, "shutdown">>)
  BY <1>1, NoSave DEF FileInv
<1>4. Working(p)
  BY <1>1 DEF Working, Holds, Live
<1>5. PICK state \in Opened :
        IF state # None
          THEN /\ proc' = [proc EXCEPT ![p] =
                    [pc |-> AfterOpening(p), listening |-> proc[p].listening, state |-> state]]
               /\ UNCHANGED lock
          ELSE IF p \in Serve THEN MovesTo(p, "clearing") /\ UNCHANGED lock
          ELSE GivesUp(p)
  BY DEF OpenHub
<1>6. state \in Snapshot /\ state # None /\ (~bare => saved \subseteq state.updates)
  BY <1>3, <1>4, OpenedWhole DEF SnapshotAssumption
<1> DEFINE r == [pc |-> AfterOpening(p), listening |-> proc[p].listening, state |-> state]
<1>7. AfterOpening(p) \in {"binding", "announcing", "running"}
  BY DEF AfterOpening, Process
<1>8. r \in ProcessState /\ r.state = state
  BY <1>1, <1>6, <1>7 DEF ProcessState
<1>9. proc' = [proc EXCEPT ![p] = r]
  BY <1>5, <1>6
<1> HIDE DEF r
<1> QED
  BY <1>2, <1>3, <1>6, <1>8, <1>9, PlaceStep

LEMMA QuitFiles ==
  ASSUME ProcessAssumption, FileInv, LockInv', TypeInv', NEW p \in Process, Quit(p)
  PROVE  FileInv'
<1>1. MovesTo(p, "clearing") /\ UNCHANGED copyVars
  BY DEF Quit, copyVars, fileVars, countVars, historyVars
<1>2. PICK r \in ProcessState :
        r.pc = "clearing" /\ r.state = proc[p].state /\ proc' = [proc EXCEPT ![p] = r]
  BY <1>1, MovesPlace DEF FileInv
<1>3. proc'[p] = r /\ writer' = writer
  BY <1>1, <1>2 DEF FileInv, TypeOK, copyVars
<1>4. Idle(<<p, "hub">>) \/ HubBusy(p)'
  BY <1>2, <1>3 DEF FileInv, BusyWhere, HubBusy
<1>5. Idle(<<p, "shutdown">>)
  BY DEF Quit, FileInv, BusyWhere, ShutdownBusy
<1>6. HubOpen(p)' => HubOpen(p)
  BY <1>2, <1>3 DEF FileInv, HubsRead, HubOpen, Unread, Quit
<1>7. HubOpen(p)' /\ ~bare => saved \subseteq r.state.updates
  BY <1>2, <1>6 DEF FileInv, Kept
<1> QED
  BY <1>1, <1>2, <1>4, <1>5, <1>7, PlaceStep

LEMMA ReleaseFiles ==
  ASSUME ProcessAssumption, FileInv, LockInv', TypeInv', NEW p \in Process,
         Release(p), ~overran'
  PROVE  FileInv'
<1>1. /\ MovesTo(p, "leaving") /\ UNCHANGED copyVars
      /\ Idle(<<p, "hub">>) /\ Idle(<<p, "shutdown">>)
  BY DEF Release, Saving, Idle, copyVars, fileVars
<1>2. PICK r \in ProcessState :
        r.pc = "leaving" /\ r.state = proc[p].state /\ proc' = [proc EXCEPT ![p] = r]
  BY <1>1, MovesPlace DEF FileInv
<1>3. ~HubOpen(p)'
  BY <1>2 DEF FileInv, TypeOK, HubOpen
<1> QED
  BY <1>1, <1>2, <1>3, PlaceStep

(* A hub's save begins with what is in memory by then, which holds what was *)
(* in memory before.                                                        *)
LEMMA SavesFiles ==
  ASSUME ProcessAssumption, FileInv, LockInv', TypeInv', NEW p \in Process,
         NEW state \in Snapshot, NEW update \in Update \cup {None},
         NEW pc \in {"running", "clearing", "releasing"},
         Saves(p, state, update, pc), UNCHANGED <<fileVars, saved, bare>>,
         HubOpen(p), proc[p].state.updates \subseteq state.updates, state # None,
         pc = "releasing" => p \notin Serve,
         tried \subseteq tried',
         update # None => update \in state.updates \cap tried'
  PROVE  FileInv'
<1> DEFINE w == <<p, "hub">>
           r == [pc |-> pc, listening |-> proc[p].listening, state |-> state]
           save == [IdleWriter EXCEPT !.pc = "ready", !.snapshot = state, !.update = update]
<1>1. /\ w \in Writer /\ Idle(w)
      /\ proc' = [proc EXCEPT ![p] = r]
      /\ writer' = [writer EXCEPT ![w] = save]
  BY DEF Saves, Idle, Writer
<1>2. r \in ProcessState /\ r.pc = pc /\ r.state = state
  BY DEF FileInv, TypeOK, ProcessState
<1>3. /\ save \in WriterState /\ save.pc = "ready" /\ save.snapshot = state
      /\ save.update = update /\ save.inode = None
  BY DEF IdleWriter, WriterState
<1> HIDE DEF r, save
<1>4. /\ proc' \in [Process -> ProcessState] /\ proc'[p] = r
      /\ \A q \in Process : q # p => proc'[q] = proc[q]
  BY <1>1, <1>2 DEF FileInv, TypeOK
<1>5. /\ writer' \in [Writer -> WriterState] /\ writer'[w] = save
      /\ \A v \in Writer : v # w => writer'[v] = writer[v]
  BY <1>1, <1>3 DEF FileInv, TypeOK
<1>6. Idle(<<p, "shutdown">>)
  BY DEF FileInv, BusyWhere, ShutdownBusy, HubOpen, ProcessAssumption
<1>7. BusyWhere'
  <2>1. ASSUME NEW q \in Process, q # p
        PROVE  /\ (~Idle(<<q, "hub">>) => HubBusy(q))'
               /\ (~Idle(<<q, "shutdown">>) => ShutdownBusy(q))'
    <3>1. /\ writer'[<<q, "hub">>] = writer[<<q, "hub">>]
          /\ writer'[<<q, "shutdown">>] = writer[<<q, "shutdown">>]
          /\ proc'[q] = proc[q]
      BY <1>4, <1>5, <2>1 DEF Writer
    <3> QED
      BY <3>1 DEF FileInv, BusyWhere, Idle, HubBusy, ShutdownBusy
  <2>2. Idle(<<p, "shutdown">>)'
    BY <1>5, <1>6 DEF Idle, Writer
  <2>3. HubBusy(p)'
    BY <1>2, <1>3, <1>4, <1>5 DEF HubBusy
  <2> QED
    BY <2>1, <2>2, <2>3 DEF BusyWhere
<1>8. SavesAt'
  <2>1. SaveAt(w)'
    BY <1>3, <1>5 DEF SaveAt
  <2>2. ASSUME NEW v \in Writer, v # w PROVE SaveAt(v)'
    BY <1>5, <2>2 DEF FileInv, SavesAt, SaveAt, fileVars
  <2> QED
    BY <2>1, <2>2 DEF SavesAt
<1>9. NamesApart'
  BY DEF FileInv, NamesApart, fileVars
<1>10. Intact'
  <2>1. \A v \in Writer : writer[v].pc = "removed" => writer'[v].pc = "removed"
    BY <1>1, <1>5 DEF Idle
  <2> QED
    BY <2>1 DEF FileInv, Intact, StateFile, fileVars
<1>11. Kept'
  <2>1. ~bare => saved \subseteq state.updates
    BY DEF FileInv, Kept
  <2> QED
    BY <1>2, <1>3, <1>4, <1>5, <2>1
    DEF FileInv, Kept, StateFile, HubOpen, Idle, fileVars
<1> QED
  BY <1>7, <1>8, <1>9, <1>10, <1>11 DEF FileInv, TypeInv

LEMMA RecordFiles ==
  ASSUME ProcessAssumption, SnapshotAssumption, FileInv, LockInv', TypeInv',
         NEW p \in Process,
         Announce(p) \/ (\E u \in Update : Change(p, u)) \/ ClearPage(p), ~overran'
  PROVE  FileInv'
<1>1. ASSUME HubOpen(p)
      PROVE  /\ proc[p].state \in Snapshot
             /\ \A page \in Port \cup {None} :
                  LET state == [proc[p].state EXCEPT !.page = page]
                  IN  state \in Snapshot /\ state.updates = proc[p].state.updates
             /\ \A u \in Update :
                  LET state == [proc[p].state EXCEPT !.updates = @ \cup {u}]
                  IN  /\ state \in Snapshot /\ u \in state.updates
                      /\ proc[p].state.updates \subseteq state.updates
  <2>1. proc[p].state \in Snapshot
    BY <1>1 DEF FileInv, TypeOK, HubsRead, ProcessState
  <2> QED
    BY <2>1 DEF Snapshot
<1>2. \A state \in Snapshot : state # None
  BY DEF SnapshotAssumption
<1>3. CASE Announce(p)
  <2> DEFINE state == [proc[p].state EXCEPT !.page = PortOf[p]]
  <2>1. HubOpen(p) /\ Saves(p, state, None, "running")
        /\ UNCHANGED <<fileVars, tried, saved, bare>>
    BY <1>3 DEF Announce, HubOpen, countVars, historyVars
  <2>2. PortOf[p] \in Port
    BY DEF Port, ProcessAssumption
  <2>3. state \in Snapshot /\ state # None /\ state.updates = proc[p].state.updates
    BY <1>1, <1>2, <2>1, <2>2
  <2> HIDE DEF state
  <2> QED
    BY <2>1, <2>3, SavesFiles
<1>4. CASE \E u \in Update : Change(p, u)
  <2>1. PICK u \in Update : Change(p, u)
    BY <1>4
  <2> DEFINE state == [proc[p].state EXCEPT !.updates = @ \cup {u}]
  <2>2. /\ proc[p].pc \in {"running", "clearing", "releasing"} /\ HubOpen(p)
        /\ proc[p].pc = "releasing" => p \notin Serve
        /\ Saves(p, state, u, proc[p].pc) /\ tried' = tried \cup {u}
        /\ UNCHANGED <<fileVars, saved, bare>>
    BY <2>1 DEF Change, TooLate, HubOpen
  <2>3. /\ state \in Snapshot /\ state # None /\ u \in state.updates
        /\ proc[p].state.updates \subseteq state.updates
    BY <1>1, <1>2, <2>2
  <2> HIDE DEF state
  <2> QED
    BY <2>2, <2>3, SavesFiles
<1>5. CASE ClearPage(p)
  <2> DEFINE state == PageCleared(proc[p].state)
  <2>1. HubOpen(p) /\ Saves(p, state, None, "releasing") /\ p \notin Serve
        /\ UNCHANGED <<fileVars, tried, saved, bare>>
    BY <1>5 DEF ClearPage, HubOpen, ProcessAssumption, countVars, historyVars
  <2>2. state \in Snapshot /\ state # None /\ state.updates = proc[p].state.updates
    BY <1>1, <1>2, <2>1 DEF PageCleared
  <2> HIDE DEF state
  <2> QED
    BY <2>1, <2>2, SavesFiles
<1> QED
  BY <1>3, <1>4, <1>5

(* The shutdown's copy is a second reading of the file.                     *)
LEMMA ReopenFiles ==
  ASSUME ProcessAssumption, SnapshotAssumption, FileInv, LockInv', TypeInv', NEW p \in Process,
         ReopenAndClear(p), ~overran'
  PROVE  FileInv'
<1> DEFINE w == <<p, "shutdown">>
<1>1. /\ p \in Serve /\ proc[p].pc = "clearing" /\ MovesTo(p, "releasing")
      /\ UNCHANGED <<fileVars, tried, saved, bare>> /\ w \in Writer /\ Idle(<<p, "hub">>)
  BY DEF ReopenAndClear, Saving, Idle, Writer
<1>2. Idle(<<p, "hub">>) /\ Idle(w) /\ Working(p)
  BY <1>1 DEF FileInv, BusyWhere, ShutdownBusy, Working, Holds, ProcessAssumption
<1>3. PICK state \in Opened :
        writer' = IF state = None THEN writer
                  ELSE [writer EXCEPT ![w] =
                    [IdleWriter EXCEPT !.pc = "ready", !.snapshot = PageCleared(state)]]
  BY DEF ReopenAndClear
<1>4. state \in Snapshot /\ state # None /\ (~bare => saved \subseteq state.updates)
  BY <1>2, OpenedWhole DEF SnapshotAssumption
<1> DEFINE save == [IdleWriter EXCEPT !.pc = "ready", !.snapshot = PageCleared(state)]
<1>5. /\ save \in WriterState /\ save.pc = "ready" /\ save.update = None
      /\ save.inode = None /\ save.snapshot.updates = state.updates
  <2>1. PageCleared(state) \in Snapshot /\ PageCleared(state).updates = state.updates
    BY <1>4, ClearedType
  <2> QED
    BY <2>1 DEF IdleWriter, WriterState
<1>6. writer' = [writer EXCEPT ![w] = save]
  BY <1>3, <1>4
<1> HIDE DEF save
<1>7. PICK r \in ProcessState : r.pc = "releasing" /\ proc' = [proc EXCEPT ![p] = r]
  BY <1>1, MovesPlace DEF FileInv
<1>8. /\ proc' \in [Process -> ProcessState] /\ proc'[p] = r
      /\ \A q \in Process : q # p => proc'[q] = proc[q]
  BY <1>7 DEF FileInv, TypeOK
<1>9. /\ writer' \in [Writer -> WriterState] /\ writer'[w] = save
      /\ \A v \in Writer : v # w => writer'[v] = writer[v]
  BY <1>1, <1>5, <1>6 DEF FileInv, TypeOK
<1>10. ~HubOpen(p)'
  BY <1>1, <1>7, <1>8 DEF HubOpen
<1>11. BusyWhere'
  <2>1. ASSUME NEW q \in Process, q # p
        PROVE  /\ (~Idle(<<q, "hub">>) => HubBusy(q))'
               /\ (~Idle(<<q, "shutdown">>) => ShutdownBusy(q))'
    <3>1. /\ writer'[<<q, "hub">>] = writer[<<q, "hub">>]
          /\ writer'[<<q, "shutdown">>] = writer[<<q, "shutdown">>]
          /\ proc'[q] = proc[q]
      BY <1>8, <1>9, <2>1 DEF Writer
    <3> QED
      BY <3>1 DEF FileInv, BusyWhere, Idle, HubBusy, ShutdownBusy
  <2>2. Idle(<<p, "hub">>)'
    BY <1>2, <1>9 DEF Idle, Writer
  <2>3. ShutdownBusy(p)'
    BY <1>1, <1>5, <1>7, <1>8, <1>9 DEF ShutdownBusy
  <2> QED
    BY <2>1, <2>2, <2>3 DEF BusyWhere
<1>12. SavesAt'
  <2>1. SaveAt(w)'
    BY <1>5, <1>9 DEF SaveAt
  <2>2. ASSUME NEW v \in Writer, v # w PROVE SaveAt(v)'
    BY <1>1, <1>9, <2>2 DEF FileInv, SavesAt, SaveAt, fileVars
  <2> QED
    BY <2>1, <2>2 DEF SavesAt
<1>13. NamesApart'
  BY <1>1 DEF FileInv, NamesApart, fileVars
<1>14. Intact'
  <2>1. \A v \in Writer : writer[v].pc = "removed" => writer'[v].pc = "removed"
    BY <1>2, <1>9 DEF Idle
  <2> QED
    BY <1>1, <2>1 DEF FileInv, Intact, StateFile, fileVars
<1>15. Kept'
  BY <1>1, <1>4, <1>5, <1>8, <1>9, <1>10
  DEF FileInv, Kept, StateFile, HubOpen, Idle, fileVars
<1> QED
  BY <1>11, <1>12, <1>13, <1>14, <1>15 DEF FileInv, TypeInv

(* A process ends, and its saves with it; a fallback it was in the middle of*)
(* leaves no file.                                                          *)
LEMMA EndFiles ==
  ASSUME ProcessAssumption, FileInv, LockInv', TypeInv', NEW p \in Process,
         Leave(p) \/ Crash(p)
  PROVE  FileInv'
<1>1. /\ proc' = [proc EXCEPT ![p] = Gone] /\ WritersStop(p)
      /\ UNCHANGED <<fileVars, tried, saved>>
  BY DEF Leave, Crash
<1>2. bare' = (bare \/ \E w \in Writer : w[1] = p /\ writer[w].pc = "removed")
  BY <1>1 DEF WritersStop
<1>3. /\ proc'[p] = Gone
      /\ \A q \in Process : q # p => proc'[q] = proc[q]
  BY <1>1 DEF FileInv, TypeOK
<1>4. \A w \in Writer : writer'[w] = IF w[1] = p THEN IdleWriter ELSE writer[w]
  BY <1>1 DEF WritersStop
<1>5. ~HubOpen(p)'
  BY <1>3, GonePlace DEF HubOpen
<1>6. BusyWhere'
  <2>1. ASSUME NEW q \in Process, q # p
        PROVE  /\ (~Idle(<<q, "hub">>) => HubBusy(q))'
               /\ (~Idle(<<q, "shutdown">>) => ShutdownBusy(q))'
    <3>1. /\ writer'[<<q, "hub">>] = writer[<<q, "hub">>]
          /\ writer'[<<q, "shutdown">>] = writer[<<q, "shutdown">>]
          /\ proc'[q] = proc[q]
      BY <1>3, <1>4, <2>1 DEF Writer
    <3> QED
      BY <3>1 DEF FileInv, BusyWhere, Idle, HubBusy, ShutdownBusy
  <2>2. Idle(<<p, "hub">>)' /\ Idle(<<p, "shutdown">>)'
    BY <1>4, IdleSave DEF Idle, Writer
  <2> QED
    BY <2>1, <2>2 DEF BusyWhere
<1>7. SavesAt'
  <2>1. ASSUME NEW w \in Writer, w[1] = p PROVE SaveAt(w)'
    BY <1>4, <2>1, IdleSave DEF SaveAt
  <2>2. ASSUME NEW w \in Writer, w[1] # p PROVE SaveAt(w)'
    BY <1>1, <1>4, <2>2 DEF FileInv, SavesAt, SaveAt, fileVars
  <2> QED
    BY <2>1, <2>2 DEF SavesAt
<1>8. NamesApart'
  BY <1>1 DEF FileInv, NamesApart, fileVars
<1>9. Intact'
  <2>1. \A w \in Writer : writer[w].pc = "removed" => bare' \/ writer'[w].pc = "removed"
    BY <1>2, <1>4
  <2> QED
    BY <1>1, <1>2, <2>1 DEF FileInv, Intact, StateFile, fileVars
<1>10. Kept'
  BY <1>1, <1>2, <1>3, <1>4, <1>5, IdleSave
  DEF FileInv, Kept, StateFile, HubOpen, Idle, fileVars
<1> QED
  BY <1>6, <1>7, <1>8, <1>9, <1>10 DEF FileInv, TypeInv

-----------------------------------------------------------------------------
(* The steps of a save.                                                     *)

(* What every one of them leaves: the other saves are idle, the processes   *)
(* are where they were, and no update but the save's own is acknowledged.   *)
LEMMA SaveStep ==
  ASSUME ProcessAssumption, FileInv, TypeInv', NEW w \in Writer, ~Idle(w), NEW save \in WriterState,
         UNCHANGED <<lock, proc, tried>>, writer' = [writer EXCEPT ![w] = save],
         \/ save.pc = "idle"
         \/ save.snapshot = writer[w].snapshot /\ save.update = writer[w].update,
         bare => bare',
         saved' = saved \/ (writer[w].update # None /\ saved' = saved \cup {writer[w].update}),
         SaveAt(w)', NamesApart', Intact',
         ~bare' /\ StateFile' # None => saved' \subseteq data'[StateFile'].updates
  PROVE  FileInv'
<1>1. /\ writer'[w] = save
      /\ \A v \in Writer : v # w => writer'[v] = writer[v]
  BY DEF FileInv, TypeOK
<1>2. \A v \in Writer : v # w => Idle(v)
  BY OneSave DEF FileInv
<1>3. writer[w].update # None => writer[w].update \in writer[w].snapshot.updates \cap tried
  BY DEF FileInv, SavesAt, SaveAt
<1>4. BusyWhere'
  <2>1. ASSUME NEW v \in Writer, ~Idle(v)'
        PROVE  /\ ~Idle(v) /\ writer'[v].update = writer[v].update
               /\ writer'[v].snapshot = writer[v].snapshot
    BY <1>1, <2>1 DEF Idle
  <2>2. \A q \in Process : <<q, "hub">> \in Writer /\ <<q, "shutdown">> \in Writer
    BY DEF Writer
  <2> QED
    BY <2>1, <2>2 DEF FileInv, BusyWhere, HubBusy, ShutdownBusy
<1>5. SavesAt'
  <2>1. ASSUME NEW v \in Writer, v # w PROVE SaveAt(v)'
    BY <1>1, <1>2, <2>1 DEF FileInv, SavesAt, SaveAt, Idle
  <2> QED
    BY <2>1 DEF SavesAt
<1>6. Kept'
  <2> SUFFICES ASSUME ~bare' PROVE
        /\ \A q \in Process : HubOpen(q)' => saved' \subseteq proc'[q].state.updates
        /\ \A v \in Writer : ~Idle(v)' => saved' \subseteq writer'[v].snapshot.updates
    BY DEF Kept
  <2>1. saved' \subseteq writer[w].snapshot.updates
    BY <1>3 DEF FileInv, Kept
  <2>2. ASSUME NEW q \in Process, HubOpen(q) PROVE saved' \subseteq proc[q].state.updates
    <3>1. saved \subseteq proc[q].state.updates
      BY <2>2 DEF FileInv, Kept
    <3>2. CASE saved' = saved
      BY <3>1, <3>2
    <3>3. CASE writer[w].update # None
      <4>1. w = <<w[1], w[2]>> /\ w[1] = q /\ w[2] \in {"hub", "shutdown"}
        BY <2>2, SaveWorks, HubWorks, WorkingAlone DEF FileInv
      <4>2. w = <<q, "hub">>
        <5>1. ASSUME w = <<q, "shutdown">> PROVE FALSE
          BY <3>3, <5>1 DEF FileInv, BusyWhere, ShutdownBusy
        <5> QED
          BY <4>1, <5>1
      <4>3. writer[w].snapshot = proc[q].state
        BY <4>2 DEF FileInv, BusyWhere, HubBusy
      <4> QED
        BY <2>1, <4>3
    <3> QED
      BY <3>2, <3>3
  <2>3. ASSUME NEW v \in Writer, ~Idle(v)' PROVE saved' \subseteq writer'[v].snapshot.updates
    BY <1>1, <1>2, <2>1, <2>3 DEF Idle
  <2> QED
    BY <2>2, <2>3 DEF HubOpen
<1>7. LockInv'
  BY LockFrame DEF FileInv
<1> QED
  BY <1>4, <1>5, <1>6, <1>7 DEF FileInv, TypeInv

(* Types and shapes of a save, and of the file it works on.                 *)
LEMMA SaveType ==
  ASSUME ProcessAssumption, FileInv, NEW w \in Writer
  PROVE  /\ writer[w] \in WriterState
         /\ w[1] \in Process /\ w[1] \in Name /\ w[1] # "state" /\ "state" \in Name
         /\ StateFile \in Inode \cup {None} /\ names[w[1]] \in Inode \cup {None}
         /\ None \notin Inode
         /\ names \in [Name -> Inode \cup {None}]
         /\ data \in [Inode -> Snapshot \cup {Torn}]
         /\ faults \in 0..MaxFaults /\ bare \in BOOLEAN /\ uncleared \in BOOLEAN
BY DEF FileInv, TypeOK, Writer, Name, StateFile, ProcessAssumption

(* Unless a fallback is under way, a missing file was never there or is     *)
(* bare.                                                                    *)
LEMMA FileThere ==
  ASSUME ProcessAssumption, FileInv, NEW w \in Writer, ~Idle(w), writer[w].pc # "removed",
         StateFile = None
  PROVE  saved = {} \/ bare
BY OneSave DEF FileInv, Intact, Idle

(* The state file is not the one a save creates or writes.                  *)
FileSame == StateFile' = StateFile /\ (StateFile # None => data'[StateFile] = data[StateFile])

LEMMA CreateFiles ==
  ASSUME ProcessAssumption, BoundAssumption, FileInv, TypeInv', NEW w \in Writer, Create(w)
  PROVE  FileInv' /\ FileSame
<1> DEFINE p == w[1]
           i == IF names[p] = None THEN Fresh ELSE names[p]
           save == [writer[w] EXCEPT !.pc = "created", !.inode = i]
<1>1. /\ writer[w].pc = "ready" /\ ~Idle(w)
      /\ names' = [names EXCEPT ![p] = i] /\ data' = [data EXCEPT ![i] = Torn]
      /\ UNCHANGED <<lock, proc, countVars>>
  BY DEF Create, Idle
<1>2. i \in Inode /\ \A n \in Name : n # p => names[n] # i
  BY SaveType, FreshApart DEF FileInv, NamesApart
<1>3. /\ save \in WriterState /\ save.pc = "created" /\ save.inode = i
      /\ save.snapshot = writer[w].snapshot /\ save.update = writer[w].update
  BY <1>2, SaveType DEF WriterState
<1>4. writer' = [writer EXCEPT ![w] = save]
  BY DEF Create, FileInv, TypeOK
<1> HIDE DEF i, save
<1>5. /\ names' \in [Name -> Inode \cup {None}] /\ names'[p] = i /\ StateFile' = StateFile
      /\ \A n \in Name : n # p => names'[n] = names[n]
  BY <1>1, <1>2, SaveType DEF StateFile
<1>6. /\ data' \in [Inode -> Snapshot \cup {Torn}]
      /\ StateFile # None => data'[StateFile] = data[StateFile]
  BY <1>1, <1>2, SaveType DEF StateFile
<1>7. SaveAt(w)'
  <2>1. writer'[w] = save
    BY <1>4 DEF FileInv, TypeOK
  <2> QED
    BY <1>1, <1>2, <1>3, <1>5, <2>1 DEF SaveAt, FileInv, SavesAt, countVars
<1>8. NamesApart'
  BY <1>2, <1>5 DEF FileInv, NamesApart
<1>9. Intact'
  BY <1>1, <1>5, <1>6, FileThere
  DEF FileInv, Intact, StateFile, countVars, historyVars
<1>10. ~bare' /\ StateFile' # None => saved' \subseteq data'[StateFile'].updates
  BY <1>1, <1>5, <1>6 DEF FileInv, Kept, countVars, historyVars
<1>11. FileInv'
  BY <1>1, <1>3, <1>4, <1>5, <1>6, <1>7, <1>8, <1>9, <1>10, SaveType, SaveStep
  DEF countVars, historyVars
<1> QED
  BY <1>5, <1>6, <1>11 DEF FileSame

LEMMA WriteFiles ==
  ASSUME ProcessAssumption, SnapshotAssumption, FileInv, TypeInv', NEW w \in Writer, Write(w)
  PROVE  FileInv' /\ FileSame
<1> DEFINE i == writer[w].inode
           save == [writer[w] EXCEPT !.pc = "written"]
<1>1. /\ writer[w].pc = "created" /\ ~Idle(w)
      /\ data' = [data EXCEPT ![i] = writer[w].snapshot]
      /\ UNCHANGED <<lock, names, proc, countVars>>
  BY DEF Write, Idle
<1>2. i \in Inode /\ names[w[1]] = i /\ (StateFile # None => StateFile # i)
  BY <1>1, SaveType DEF FileInv, SavesAt, SaveAt, NamesApart, StateFile
<1>3. /\ save \in WriterState /\ save.pc = "written" /\ save.inode = i
      /\ save.snapshot = writer[w].snapshot /\ save.update = writer[w].update
      /\ writer[w].snapshot \in Snapshot
  BY SaveType DEF WriterState
<1>4. writer' = [writer EXCEPT ![w] = save]
  BY DEF Write, FileInv, TypeOK
<1> HIDE DEF save
<1>5. /\ data' \in [Inode -> Snapshot \cup {Torn}] /\ data'[i] = writer[w].snapshot
      /\ StateFile # None => data'[StateFile] = data[StateFile]
  BY <1>1, <1>2, <1>3, SaveType
<1>6. SaveAt(w)'
  <2>1. writer'[w] = save
    BY <1>4 DEF FileInv, TypeOK
  <2> QED
    BY <1>1, <1>2, <1>3, <1>5, <2>1 DEF SaveAt, FileInv, SavesAt, countVars
<1>7. NamesApart' /\ StateFile' = StateFile
  BY <1>1 DEF FileInv, NamesApart, StateFile
<1>8. Intact'
  BY <1>1, <1>5, <1>7, FileThere DEF FileInv, Intact, StateFile, countVars, historyVars
<1>9. ~bare' /\ StateFile' # None => saved' \subseteq data'[StateFile'].updates
  BY <1>1, <1>5, <1>7 DEF FileInv, Kept, countVars, historyVars
<1>10. FileInv'
  BY <1>1, <1>3, <1>4, <1>5, <1>6, <1>7, <1>8, <1>9, SaveType, SaveStep
  DEF countVars, historyVars
<1> QED
  BY <1>5, <1>7, <1>10 DEF FileSame

(* The fallback removes the file; its writer has the second rename to come. *)
LEMMA RefusedFiles ==
  ASSUME ProcessAssumption, FileInv, TypeInv', NEW w \in Writer, RenameRefused(w)
  PROVE  FileInv'
<1> DEFINE save == [writer[w] EXCEPT !.pc = "removed"]
<1>1. /\ writer[w].pc = "written" /\ ~Idle(w)
      /\ names' = [names EXCEPT !["state"] = None]
      /\ UNCHANGED <<lock, data, proc, countVars>>
  BY DEF RenameRefused, Idle
<1>2. /\ save \in WriterState /\ save.pc = "removed" /\ save.inode = writer[w].inode
      /\ save.snapshot = writer[w].snapshot /\ save.update = writer[w].update
  BY SaveType DEF WriterState
<1>3. writer' = [writer EXCEPT ![w] = save]
  BY DEF RenameRefused, FileInv, TypeOK
<1>4. writer'[w] = save
  BY <1>3 DEF FileInv, TypeOK
<1> HIDE DEF save
<1>5. /\ names' \in [Name -> Inode \cup {None}] /\ StateFile' = None
      /\ \A n \in Name : n # "state" => names'[n] = names[n]
  BY <1>1, SaveType DEF StateFile
<1>6. SaveAt(w)'
  BY <1>1, <1>2, <1>4, <1>5, SaveType DEF SaveAt, FileInv, SavesAt, countVars
<1>7. NamesApart'
  BY <1>5, SaveType DEF FileInv, NamesApart, StateFile
<1>8. Intact'
  BY <1>2, <1>4, <1>5 DEF Intact
<1> QED
  BY <1>1, <1>2, <1>3, <1>5, <1>6, <1>7, <1>8, SaveType, SaveStep DEF countVars, historyVars

(* A save that ends without renaming.                                       *)
LEMMA FailFiles ==
  ASSUME ProcessAssumption, FileInv, TypeInv', NEW w \in Writer,
         WriteFails(w) \/ SaveFails(w)
  PROVE  FileInv'
<1>1. /\ ~Idle(w) /\ writer' = [writer EXCEPT ![w] = IdleWriter]
      /\ UNCHANGED <<lock, names, data, proc, tried, saved>>
  BY DEF WriteFails, SaveFails, Idle, fileVars
<1>2. bare => bare'
  BY DEF WriteFails, SaveFails
<1>3. writer'[w] = IdleWriter
  BY <1>1 DEF FileInv, TypeOK
<1>4. SaveAt(w)'
  BY <1>3, IdleSave DEF SaveAt
<1>5. NamesApart' /\ StateFile' = StateFile
  BY <1>1 DEF FileInv, NamesApart, StateFile
<1>6. Intact'
  <2>1. CASE WriteFails(w)
    <3>1. writer[w].pc # "removed"
      BY <2>1 DEF WriteFails
    <3> QED
      BY <1>1, <1>2, <1>5, <3>1, FileThere DEF FileInv, Intact
  <2>2. CASE SaveFails(w)
    BY <1>1, <1>5, <2>2 DEF FileInv, Intact, SaveFails
  <2> QED
    BY <2>1, <2>2
<1>7. ~bare' /\ StateFile' # None => saved' \subseteq data'[StateFile'].updates
  BY <1>1, <1>2, <1>5 DEF FileInv, Kept
<1> QED
  BY <1>1, <1>2, <1>3, <1>4, <1>5, <1>6, <1>7, IdleSave, SaveType, SaveStep

(* The rename puts the whole snapshot, the acknowledged update in it, in    *)
(* place.                                                                   *)
LEMMA RenameFiles ==
  ASSUME ProcessAssumption, SnapshotAssumption, FileInv, TypeInv', NEW w \in Writer, Rename(w)
  PROVE  /\ FileInv'
         /\ StateFile' # None /\ data'[StateFile'] # Torn
         /\ data'[StateFile'] = writer[w].snapshot
         /\ saved' \ saved \subseteq data'[StateFile'].updates
<1> DEFINE p == w[1]
<1>1. /\ writer[w].pc \in {"written", "removed"} /\ ~Idle(w) /\ names[p] # None
      /\ names' = [names EXCEPT !["state"] = names[p], ![p] = None]
      /\ writer' = [writer EXCEPT ![w] = IdleWriter]
      /\ saved' = IF writer[w].update = None THEN saved ELSE saved \cup {writer[w].update}
      /\ UNCHANGED <<lock, data, proc, tried, faults, historyVars>>
  BY DEF Rename, Renamed, Acknowledged, Idle
<1>2. /\ names[p] \in Inode /\ data[names[p]] = writer[w].snapshot
      /\ writer[w].snapshot \in Snapshot
  BY <1>1, SaveType DEF FileInv, SavesAt, SaveAt, WriterState
<1>3. /\ names' \in [Name -> Inode \cup {None}] /\ StateFile' = names[p] /\ names'[p] = None
      /\ \A n \in Name : n # p /\ n # "state" => names'[n] = names[n]
  BY <1>1, SaveType DEF StateFile
<1>4. StateFile' # None /\ data'[StateFile'] = writer[w].snapshot /\ data'[StateFile'] # Torn
  BY <1>1, <1>2, <1>3 DEF SnapshotAssumption
<1>5. writer[w].update # None => writer[w].update \in writer[w].snapshot.updates
  BY DEF FileInv, SavesAt, SaveAt
<1>6. writer'[w] = IdleWriter
  BY <1>1 DEF FileInv, TypeOK
<1>7. SaveAt(w)'
  BY <1>6, IdleSave DEF SaveAt
<1>8. NamesApart'
  BY <1>1, <1>3, SaveType DEF FileInv, NamesApart, StateFile
<1>9. Intact'
  BY <1>4 DEF Intact
<1>10. ~bare => saved \subseteq writer[w].snapshot.updates
  BY <1>1 DEF FileInv, Kept
<1>11. ~bare' /\ StateFile' # None => saved' \subseteq data'[StateFile'].updates
  BY <1>1, <1>4, <1>5, <1>10 DEF historyVars
<1>12. FileInv'
  BY <1>1, <1>3, <1>6, <1>7, <1>8, <1>9, <1>11, IdleSave, SaveType, SaveStep DEF historyVars
<1> QED
  BY <1>1, <1>4, <1>5, <1>12

LEMMA FileStep ==
  ASSUME Forced \subseteq Solo, TypeInv, FileInv, [Next]_vars, ~overran'
  PROVE  FileInv'
<1>1. LockInv' /\ TypeInv'
  BY LockStep, TypeStep DEF FileInv
<1>2. CASE \E p \in Process : ProcessStep(p)
  <2>1. PICK p \in Process : ProcessStep(p)
    BY <1>2
  <2> QED
    BY <1>1, <2>1, ProcessAssumption, SnapshotAssumption, StartFiles, LockFiles, BindFiles,
       OpenFiles, RecordFiles, QuitFiles, ReopenFiles, ReleaseFiles, EndFiles
    DEF ProcessStep
<1>3. CASE \E w \in Writer : WriterStep(w)
  <2>1. PICK w \in Writer : WriterStep(w)
    BY <1>3
  <2> QED
    BY <1>1, <2>1, ProcessAssumption, BoundAssumption, SnapshotAssumption, CreateFiles,
       WriteFiles, FailFiles, RenameFiles, RefusedFiles DEF WriterStep
<1>4. CASE UNCHANGED vars
  BY <1>1, <1>4 DEF vars, FileInv, TypeInv, BusyWhere, HubBusy, ShutdownBusy, Idle, SavesAt,
     SaveAt, NamesApart, Intact, StateFile, Kept, HubOpen
<1> QED
  BY <1>2, <1>3, <1>4 DEF Next

(* What has overrun stays so.                                               *)
LEMMA OverranStays ==
  ASSUME [Next]_vars, overran
  PROVE  overran'
<1>1. ASSUME NEW p \in Process, ProcessStep(p) PROVE overran'
  BY <1>1 DEF ProcessStep, Start, RemoveLock, AcquireLock, BindPort, OpenHub, Announce,
     Change, Quit, ClearPage, ReopenAndClear, Release, Leave, Crash, countVars, historyVars
<1>2. ASSUME NEW w \in Writer, WriterStep(w) PROVE overran'
  BY <1>2 DEF WriterStep, Create, Write, WriteFails, Rename, RenameRefused, SaveFails,
     countVars, historyVars
<1> QED
  BY <1>1, <1>2 DEF Next, vars

(* The invariant of the whole directory.                                    *)
DirInv == TypeInv /\ LockInv /\ (~overran => FileInv)

LEMMA DirInit == Init => DirInv
BY TypeInit, LockInit, FileInit, BoundAssumption DEF DirInv

LEMMA DirStep == ASSUME Forced \subseteq Solo, DirInv, [Next]_vars PROVE DirInv'
BY TypeStep, LockStep, FileStep, OverranStays DEF DirInv

(* Only a rename acknowledges.                                              *)
LEMMA OnlyRename ==
  ASSUME [Next]_vars, saved' # saved
  PROVE  \E w \in Writer : Rename(w)
<1>1. ASSUME NEW p \in Process, ProcessStep(p) PROVE FALSE
  BY <1>1 DEF ProcessStep, Start, RemoveLock, AcquireLock, BindPort, OpenHub, Announce,
     Change, Quit, ClearPage, ReopenAndClear, Release, Leave, Crash, countVars
<1>2. ASSUME NEW w \in Writer, WriterStep(w) PROVE Rename(w)
  BY <1>2 DEF WriterStep, Create, Write, WriteFails, RenameRefused, SaveFails, countVars
<1> QED
  BY <1>1, <1>2 DEF Next, vars

(* "Atomic snapshot write": however many processes start, save, are refused *)
(* a rename and are killed, state.json is whole at every moment, and there  *)
(* once something was acknowledged, but for the fallback's gap, as long as  *)
(* no request's save overran the end of its process.                        *)
THEOREM FileWhole ==
  ASSUME Forced \subseteq Solo
  PROVE  Spec => []SnapshotWhole
<1>1. DirInv /\ [Next]_vars => DirInv'
  BY DirStep
<1>2. DirInv => SnapshotWhole
  BY DEF DirInv, FileInv, SnapshotWhole
<1> QED
  BY DirInit, <1>1, <1>2, PTL DEF Spec

(* As long as no request's save overran the end of its process, an          *)
(* acknowledged update is in every later state.json, whichever processes    *)
(* come after: nobody overwrites the file with a copy that lacks it.  The   *)
(* condition is the one main.rs:154-165 can break.                          *)
THEOREM UpdatesStay ==
  ASSUME Forced \subseteq Solo
  PROVE  Spec => [](~overran => SavedStays)
<1>1. DirInv /\ [Next]_vars => DirInv'
  BY DirStep
<1>2. DirInv => (~overran => SavedStays)
  BY DEF DirInv, FileInv, Kept, SavedStays
<1> QED
  BY DirInit, <1>1, <1>2, PTL DEF Spec

(* What is acknowledged is on disk when it is, unless the save overran the  *)
(* end of its process.                                                      *)
THEOREM DiskBeforeAnswer ==
  ASSUME Forced \subseteq Solo
  PROVE  Spec => AcknowledgedOnDisk
<1>1. DirInv /\ [Next]_vars => DirInv'
  BY DirStep
<1>2. DirInv /\ [Next]_vars =>
        [saved' # saved /\ ~overran' =>
           /\ StateFile' # None
           /\ data'[StateFile'] # Torn
           /\ saved' \ saved \subseteq data'[StateFile'].updates]_vars
  BY <1>1, OnlyRename, OverranStays, RenameFiles, ProcessAssumption, SnapshotAssumption
  DEF DirInv
<1> QED
  BY DirInit, <1>1, <1>2, PTL DEF Spec, AcknowledgedOnDisk

-----------------------------------------------------------------------------
(* The ledger.                                                              *)

Removed(w) == writer[w].pc = "removed"

(* Every copy at work holds what is recorded, lost before or not: the       *)
(* memory of the process that works, and what it is saving.                 *)
LedgerInv ==
  /\ \A w \in Writer : Removed(w) => StateFile = None
  /\ \A p \in Process : HubOpen(p) => Recorded \subseteq proc[p].state.updates
  /\ \A w \in Writer : ~Idle(w) => Recorded \subseteq writer[w].snapshot.updates

LEMMA LedgerInit ==
  ASSUME ProcessAssumption, Init
  PROVE  LedgerInv /\ Recorded = {}
<1>1. StateFile = None /\ \A w \in Writer : Idle(w) /\ ~Removed(w)
  BY DEF Init, StateFile, Name, Idle, Removed, IdleWriter
<1>2. {v \in Writer : writer[v].pc = "removed"} = {}
  BY <1>1 DEF Removed
<1>3. Recorded = {}
  BY <1>1, <1>2 DEF Recorded
<1>4. \A p \in Process : ~HubOpen(p)
  BY DEF Init, NotStarted, HubOpen
<1> QED
  BY <1>1, <1>3, <1>4 DEF LedgerInv

(* The file and the fallbacks under way are the same.                       *)
SameRemoved ==
  \A w \in Writer :
    Removed(w)' = Removed(w) /\ (Removed(w) => writer'[w].snapshot = writer[w].snapshot)

LEMMA RecordedSame ==
  ASSUME FileSame, SameRemoved
  PROVE  Recorded' = Recorded
<1>1. {v \in Writer : writer'[v].pc = "removed"} = {v \in Writer : writer[v].pc = "removed"}
  BY DEF SameRemoved, Removed
<1>2. {writer'[w].snapshot.updates : w \in {v \in Writer : writer'[v].pc = "removed"}}
        = {writer[w].snapshot.updates : w \in {v \in Writer : writer[v].pc = "removed"}}
  BY <1>1 DEF SameRemoved, Removed
<1> QED
  BY <1>2 DEF FileSame, Recorded

(* The file stays, and every copy is an old one or holds what is recorded.  *)
LEMMA LedgerStays ==
  ASSUME LedgerInv, FileSame, SameRemoved,
         \A p \in Process : HubOpen(p)' =>
            \/ Recorded \subseteq proc'[p].state.updates
            \/ HubOpen(p) /\ proc'[p].state = proc[p].state,
         \A w \in Writer : ~Idle(w)' =>
            \/ Recorded \subseteq writer'[w].snapshot.updates
            \/ ~Idle(w) /\ writer'[w].snapshot = writer[w].snapshot
  PROVE  LedgerInv' /\ Recorded' = Recorded
<1>1. Recorded' = Recorded
  BY RecordedSame
<1> QED
  BY <1>1 DEF LedgerInv, SameRemoved, FileSame

(* What opening the state file finds is what is recorded.                   *)
LEMMA OpenedAll ==
  ASSUME ProcessAssumption, FileInv, NEW p \in Process, Working(p),
         Idle(<<p, "hub">>), Idle(<<p, "shutdown">>), NEW state \in Opened
  PROVE  Recorded \subseteq state.updates
<1>1. {v \in Writer : writer[v].pc = "removed"} = {}
  BY NobodySaves DEF FileInv, Idle
<1>2. CASE StateFile = None
  BY <1>1, <1>2 DEF Recorded
<1>3. CASE StateFile # None
  BY <1>3 DEF FileInv, Intact, Opened, StateFile, Recorded
<1> QED
  BY <1>2, <1>3

(* A step that only moves a process.                                        *)
LEMMA PlaceLedger ==
  ASSUME LedgerInv, FileInv, NEW p \in Process, NEW r \in ProcessState,
         proc' = [proc EXCEPT ![p] = r], UNCHANGED <<fileVars, writer>>,
         HubOpen(p)' => \/ Recorded \subseteq r.state.updates
                        \/ HubOpen(p) /\ r.state = proc[p].state
  PROVE  LedgerInv' /\ Recorded' = Recorded
<1>1. proc'[p] = r /\ \A q \in Process : q # p => proc'[q] = proc[q]
  BY DEF FileInv, TypeOK
<1>2. \A q \in Process : HubOpen(q)' =>
        \/ Recorded \subseteq proc'[q].state.updates
        \/ HubOpen(q) /\ proc'[q].state = proc[q].state
  BY <1>1 DEF HubOpen
<1>3. FileSame /\ SameRemoved
  BY DEF fileVars, FileSame, StateFile, SameRemoved, Removed
<1>4. \A w \in Writer : ~Idle(w)' => ~Idle(w) /\ writer'[w].snapshot = writer[w].snapshot
  BY DEF Idle
<1> QED
  BY <1>2, <1>3, <1>4, LedgerStays

(* Starting, taking the lock and binding the port.                          *)
LEMMA StartLedger ==
  ASSUME ProcessAssumption, FileInv, LedgerInv, NEW p \in Process,
         Start(p) \/ RemoveLock(p) \/ AcquireLock(p) \/ Quit(p) \/ Release(p)
  PROVE  LedgerInv' /\ Recorded' = Recorded
<1>1. PICK pc \in {"opening", "forcing", "locking", "binding", "gone", "clearing", "leaving"} :
        /\ MovesTo(p, pc) /\ UNCHANGED <<fileVars, writer>>
        /\ pc \in {"binding", "clearing"} => p \in Serve \/ HubOpen(p)
        /\ pc = "clearing" => HubOpen(p) \/ proc[p].state = None
  BY DEF Start, RemoveLock, AcquireLock, Quit, Release, HubOpen, FileInv, HubsRead, Unread
<1>2. PICK r \in ProcessState :
        r.pc = pc /\ r.state = proc[p].state /\ proc' = [proc EXCEPT ![p] = r]
  BY <1>1, MovesPlace DEF FileInv
<1>3. HubOpen(p)' => HubOpen(p)
  BY <1>1, <1>2 DEF FileInv, TypeOK, HubOpen
<1> QED
  BY <1>1, <1>2, <1>3, PlaceLedger

LEMMA BindLedger ==
  ASSUME ProcessAssumption, FileInv, LedgerInv, NEW p \in Process, BindPort(p)
  PROVE  LedgerInv' /\ Recorded' = Recorded
<1>1. proc[p].pc = "binding" /\ proc[p] \in ProcessState /\ UNCHANGED <<fileVars, writer>>
  BY DEF BindPort, FileInv, TypeOK
<1>2. CASE PortFree(p)
  <2> DEFINE r == [pc |-> IF p \in Serve THEN "opening" ELSE "announcing",
                   listening |-> TRUE, state |-> proc[p].state]
  <2>1. /\ r \in ProcessState /\ r.state = proc[p].state
        /\ r.pc = IF p \in Serve THEN "opening" ELSE "announcing"
    BY <1>1 DEF ProcessState
  <2>2. proc' = [proc EXCEPT ![p] = r]
    BY <1>2 DEF BindPort
  <2> HIDE DEF r
  <2>3. proc'[p] = r
    BY <2>2 DEF FileInv, TypeOK
  <2>4. HubOpen(p)' => HubOpen(p)
    BY <1>1, <2>1, <2>3 DEF HubOpen, ProcessAssumption
  <2> QED
    BY <1>1, <2>1, <2>2, <2>4, PlaceLedger
<1>3. CASE ~PortFree(p)
  <2>1. proc' = [proc EXCEPT ![p] = Gone]
    BY <1>3 DEF BindPort, GivesUp
  <2>2. ~HubOpen(p)'
    BY <2>1, GonePlace DEF FileInv, TypeOK, HubOpen
  <2> QED
    BY <1>1, <2>1, <2>2, GonePlace, PlaceLedger
<1> QED
  BY <1>2, <1>3

LEMMA OpenLedger ==
  ASSUME ProcessAssumption, SnapshotAssumption, FileInv, LedgerInv, NEW p \in Process,
         OpenHub(p)
  PROVE  LedgerInv' /\ Recorded' = Recorded
<1>1. proc[p].pc = "opening" /\ proc[p] \in ProcessState /\ UNCHANGED <<fileVars, writer>>
  BY DEF OpenHub, FileInv, TypeOK
<1>2. Working(p) /\ Idle(<<p, "hub">>) /\ Idle(<<p, "shutdown">>)
  BY <1>1, NoSave DEF FileInv, Working, Holds, Live
<1>3. PICK state \in Opened :
        IF state # None
          THEN /\ proc' = [proc EXCEPT ![p] =
                    [pc |-> AfterOpening(p), listening |-> proc[p].listening, state |-> state]]
               /\ UNCHANGED lock
          ELSE IF p \in Serve THEN MovesTo(p, "clearing") /\ UNCHANGED lock
          ELSE GivesUp(p)
  BY DEF OpenHub
<1>4. state \in Snapshot /\ state # None /\ Recorded \subseteq state.updates
  BY <1>2, OpenedWhole, OpenedAll DEF SnapshotAssumption
<1> DEFINE r == [pc |-> AfterOpening(p), listening |-> proc[p].listening, state |-> state]
<1>5. r \in ProcessState /\ r.state = state
  BY <1>1, <1>4 DEF ProcessState, AfterOpening, Process
<1>6. proc' = [proc EXCEPT ![p] = r]
  BY <1>3, <1>4
<1> QED
  BY <1>1, <1>4, <1>5, <1>6, PlaceLedger

(* A hub's save begins with all that its memory held.                       *)
LEMMA SavesLedger ==
  ASSUME ProcessAssumption, FileInv, LedgerInv, NEW p \in Process, NEW state, NEW update,
         NEW pc, Saves(p, state, update, pc), UNCHANGED fileVars,
         HubOpen(p), proc[p].state.updates \subseteq state.updates
  PROVE  LedgerInv' /\ Recorded' = Recorded
<1> DEFINE w == <<p, "hub">>
           save == [IdleWriter EXCEPT !.pc = "ready", !.snapshot = state, !.update = update]
<1>1. /\ w \in Writer /\ Idle(w) /\ writer' = [writer EXCEPT ![w] = save]
      /\ proc' = [proc EXCEPT ![p] =
                    [pc |-> pc, listening |-> proc[p].listening, state |-> state]]
  BY DEF Saves, Idle, Writer
<1>2. save.pc = "ready" /\ save.snapshot = state
  BY DEF IdleWriter
<1> HIDE DEF save
<1>3. /\ writer'[w] = save /\ \A v \in Writer : v # w => writer'[v] = writer[v]
      /\ proc'[p].state = state /\ \A q \in Process : q # p => proc'[q] = proc[q]
  BY <1>1 DEF FileInv, TypeOK
<1>4. Recorded \subseteq state.updates
  BY DEF LedgerInv
<1>5. FileSame
  BY DEF fileVars, FileSame, StateFile
<1>6. SameRemoved
  BY <1>1, <1>2, <1>3 DEF SameRemoved, Removed, Idle
<1>7. \A q \in Process : HubOpen(q)' =>
        \/ Recorded \subseteq proc'[q].state.updates
        \/ HubOpen(q) /\ proc'[q].state = proc[q].state
  BY <1>3, <1>4 DEF HubOpen
<1>8. \A v \in Writer : ~Idle(v)' =>
        \/ Recorded \subseteq writer'[v].snapshot.updates
        \/ ~Idle(v) /\ writer'[v].snapshot = writer[v].snapshot
  BY <1>2, <1>3, <1>4 DEF Idle
<1> QED
  BY <1>5, <1>6, <1>7, <1>8, LedgerStays

LEMMA RecordLedger ==
  ASSUME ProcessAssumption, FileInv, LedgerInv, NEW p \in Process,
         Announce(p) \/ (\E u \in Update : Change(p, u)) \/ ClearPage(p), ~overran'
  PROVE  LedgerInv' /\ Recorded' = Recorded
<1>1. ASSUME HubOpen(p) PROVE proc[p].state \in Snapshot
  BY <1>1 DEF FileInv, TypeOK, HubsRead, ProcessState
<1>2. CASE Announce(p)
  <2> DEFINE state == [proc[p].state EXCEPT !.page = PortOf[p]]
  <2>1. HubOpen(p) /\ Saves(p, state, None, "running") /\ UNCHANGED fileVars
    BY <1>2 DEF Announce, HubOpen
  <2>2. state.updates = proc[p].state.updates
    BY <1>1, <2>1 DEF Snapshot
  <2> HIDE DEF state
  <2> QED
    BY <2>1, <2>2, SavesLedger
<1>3. CASE \E u \in Update : Change(p, u)
  <2>1. PICK u \in Update : Change(p, u)
    BY <1>3
  <2> DEFINE state == [proc[p].state EXCEPT !.updates = @ \cup {u}]
  <2>2. HubOpen(p) /\ Saves(p, state, u, proc[p].pc) /\ UNCHANGED fileVars
    BY <2>1 DEF Change, TooLate, HubOpen
  <2>3. proc[p].state.updates \subseteq state.updates
    BY <1>1, <2>2 DEF Snapshot
  <2> HIDE DEF state
  <2> QED
    BY <2>2, <2>3, SavesLedger
<1>4. CASE ClearPage(p)
  <2> DEFINE state == PageCleared(proc[p].state)
  <2>1. HubOpen(p) /\ Saves(p, state, None, "releasing") /\ UNCHANGED fileVars
    BY <1>4 DEF ClearPage, HubOpen, ProcessAssumption
  <2>2. state.updates = proc[p].state.updates
    BY <1>1, <2>1 DEF Snapshot, PageCleared
  <2> HIDE DEF state
  <2> QED
    BY <2>1, <2>2, SavesLedger
<1> QED
  BY <1>2, <1>3, <1>4

(* The shutdown's copy holds what it found in the file.                     *)
LEMMA ReopenLedger ==
  ASSUME ProcessAssumption, SnapshotAssumption, FileInv, LedgerInv, NEW p \in Process,
         ReopenAndClear(p), ~overran'
  PROVE  LedgerInv' /\ Recorded' = Recorded
<1> DEFINE w == <<p, "shutdown">>
<1>1. /\ p \in Serve /\ proc[p].pc = "clearing" /\ MovesTo(p, "releasing")
      /\ UNCHANGED fileVars /\ w \in Writer /\ Idle(<<p, "hub">>)
  BY DEF ReopenAndClear, Saving, Idle, Writer
<1>2. Working(p) /\ Idle(<<p, "hub">>) /\ Idle(w)
  BY <1>1 DEF FileInv, BusyWhere, ShutdownBusy, Holds, Working, ProcessAssumption
<1>3. PICK state \in Opened :
        writer' = IF state = None THEN writer
                  ELSE [writer EXCEPT ![w] =
                    [IdleWriter EXCEPT !.pc = "ready", !.snapshot = PageCleared(state)]]
  BY DEF ReopenAndClear
<1>4. state \in Snapshot /\ state # None /\ Recorded \subseteq state.updates
  BY <1>2, OpenedWhole, OpenedAll DEF SnapshotAssumption
<1> DEFINE save == [IdleWriter EXCEPT !.pc = "ready", !.snapshot = PageCleared(state)]
<1>5. save.pc = "ready" /\ save.snapshot.updates = state.updates
      /\ writer' = [writer EXCEPT ![w] = save]
  BY <1>3, <1>4 DEF IdleWriter, PageCleared, Snapshot
<1> HIDE DEF save
<1>6. /\ writer'[w] = save /\ \A v \in Writer : v # w => writer'[v] = writer[v]
      /\ proc'[p].pc = "releasing" /\ \A q \in Process : q # p => proc'[q] = proc[q]
  BY <1>1, <1>5 DEF MovesTo, FileInv, TypeOK, ProcessState
<1>7. FileSame /\ SameRemoved
  BY <1>1, <1>2, <1>5, <1>6 DEF fileVars, FileSame, StateFile, SameRemoved, Removed, Idle
<1>8. \A q \in Process : HubOpen(q)' => HubOpen(q) /\ proc'[q].state = proc[q].state
  BY <1>1, <1>6 DEF HubOpen
<1>9. \A v \in Writer : ~Idle(v)' =>
        \/ Recorded \subseteq writer'[v].snapshot.updates
        \/ ~Idle(v) /\ writer'[v].snapshot = writer[v].snapshot
  BY <1>4, <1>5, <1>6 DEF Idle
<1> QED
  BY <1>7, <1>8, <1>9, LedgerStays

(* What a stopped process was saving is not recorded, unless its fallback   *)
(* had removed the file: then nothing is.                                   *)
LEMMA EndLedger ==
  ASSUME ProcessAssumption, FileInv, LedgerInv, NEW p \in Process, Leave(p) \/ Crash(p)
  PROVE  /\ LedgerInv' /\ UNCHANGED saved
         /\ \/ UNCHANGED <<Recorded, bare>>
            \/ Recorded' = {} /\ bare' = TRUE
<1>1. proc' = [proc EXCEPT ![p] = Gone] /\ WritersStop(p) /\ UNCHANGED <<fileVars, saved>>
  BY DEF Leave, Crash
<1>2. \A q \in Process : HubOpen(q)' => HubOpen(q) /\ proc'[q].state = proc[q].state
  BY <1>1, GonePlace DEF FileInv, TypeOK, HubOpen
<1>3. \A w \in Writer : writer'[w] = IF w[1] = p THEN IdleWriter ELSE writer[w]
  BY <1>1 DEF WritersStop
<1>4. \A w \in Writer : ~Idle(w)' => ~Idle(w) /\ w[1] # p /\ writer'[w] = writer[w]
  BY <1>3, IdleSave DEF Idle
<1>5. FileSame
  BY <1>1 DEF fileVars, FileSame, StateFile
<1>6. CASE \E w \in Writer : w[1] = p /\ Removed(w)
  <2>1. PICK w \in Writer : w[1] = p /\ Removed(w)
    BY <1>6
  <2>2. bare' = TRUE
    BY <1>1, <2>1 DEF WritersStop, Removed
  <2>3. \A v \in Writer : ~Removed(v)'
    <3>1. ASSUME NEW v \in Writer, Removed(v)' PROVE FALSE
      <4>1. ~Idle(v) /\ v[1] # p /\ ~Idle(w)
        BY <1>4, <2>1, <3>1 DEF Removed, Idle
      <4> QED
        BY <2>1, <4>1, OneSave DEF FileInv
    <3> QED
      BY <3>1
  <2>4. StateFile' = None
    BY <1>5, <2>1 DEF LedgerInv, FileSame
  <2>5. {v \in Writer : writer'[v].pc = "removed"} = {}
    BY <2>3 DEF Removed
  <2>6. Recorded' = {}
    BY <2>4, <2>5 DEF Recorded
  <2> QED
    BY <1>1, <2>2, <2>3, <2>6 DEF LedgerInv
<1>7. CASE ~\E w \in Writer : w[1] = p /\ Removed(w)
  <2>1. bare' = bare
    <3>1. bare \in BOOLEAN
      BY DEF FileInv, TypeOK
    <3>2. bare' = (bare \/ \E w \in Writer : w[1] = p /\ Removed(w))
      BY <1>1 DEF WritersStop, Removed
    <3> QED
      BY <1>7, <3>1, <3>2
  <2>2. SameRemoved
    BY <1>3, <1>7, IdleSave DEF SameRemoved, Removed
  <2> QED
    BY <1>1, <1>2, <1>4, <1>5, <2>1, <2>2, LedgerStays
<1> QED
  BY <1>6, <1>7

(* The steps of a save.                                                     *)
LEMMA WriteLedger ==
  ASSUME ProcessAssumption, BoundAssumption, SnapshotAssumption, FileInv, TypeInv', LedgerInv,
         NEW w \in Writer, Create(w) \/ Write(w) \/ WriteFails(w)
  PROVE  LedgerInv' /\ Recorded' = Recorded
<1>1. /\ UNCHANGED proc /\ writer[w].pc \in {"ready", "created"}
      /\ \A v \in Writer : v # w => writer'[v] = writer[v]
      /\ writer'[w].pc \in {"idle", "created", "written"}
      /\ writer'[w].pc # "idle" => writer'[w].snapshot = writer[w].snapshot
  BY SaveType, IdleSave DEF Create, Write, WriteFails, FileInv, TypeOK, WriterState
<1>2. FileSame
  BY CreateFiles, WriteFiles DEF WriteFails, FileSame, StateFile, fileVars
<1>3. SameRemoved
  BY <1>1 DEF SameRemoved, Removed
<1>4. \A v \in Writer : ~Idle(v)' => ~Idle(v) /\ writer'[v].snapshot = writer[v].snapshot
  BY <1>1 DEF Idle
<1>5. \A q \in Process : HubOpen(q)' => HubOpen(q) /\ proc'[q].state = proc[q].state
  BY <1>1 DEF HubOpen
<1> QED
  BY <1>2, <1>3, <1>4, <1>5, LedgerStays

(* The one save at work puts its snapshot in place, or is about to.         *)
LEMMA SnapshotInPlace ==
  ASSUME ProcessAssumption, FileInv, LedgerInv, NEW w \in Writer, ~Idle(w), UNCHANGED proc,
         \A v \in Writer : v # w => writer'[v] = writer[v],
         ~Idle(w)' => writer'[w].snapshot = writer[w].snapshot,
         Removed(w)' => StateFile' = None,
         Recorded' = writer[w].snapshot.updates
  PROVE  LedgerInv' /\ Recorded \subseteq Recorded'
<1>1. \A v \in Writer : v # w => Idle(v)
  BY OneSave DEF FileInv
<1>2. \A v \in Writer : ~Idle(v)' => v = w
  BY <1>1 DEF Idle
<1>3. \A v \in Writer : Removed(v)' => StateFile' = None
  BY <1>2 DEF Removed, Idle
<1>4. ASSUME NEW p \in Process, HubOpen(p)' PROVE Recorded' \subseteq proc'[p].state.updates
  <2>1. HubOpen(p) /\ proc'[p] = proc[p]
    BY <1>4 DEF HubOpen
  <2>2. w[1] = p /\ (w = <<p, "hub">> \/ w = <<p, "shutdown">>)
    BY <2>1, SaveWorks, HubWorks, WorkingAlone DEF FileInv
  <2>3. CASE w = <<p, "hub">>
    BY <2>1, <2>3 DEF FileInv, BusyWhere, HubBusy
  <2>4. CASE w = <<p, "shutdown">>
    BY <2>1, <2>4 DEF FileInv, BusyWhere, ShutdownBusy, HubOpen
  <2> QED
    BY <2>2, <2>3, <2>4
<1>5. \A v \in Writer : ~Idle(v)' => Recorded' \subseteq writer'[v].snapshot.updates
  BY <1>2
<1> QED
  BY <1>3, <1>4, <1>5 DEF LedgerInv

LEMMA RefusedLedger ==
  ASSUME ProcessAssumption, FileInv, LedgerInv, NEW w \in Writer, RenameRefused(w)
  PROVE  LedgerInv' /\ Recorded \subseteq Recorded' /\ Recorded' = writer[w].snapshot.updates
<1>1. /\ writer[w].pc = "written" /\ ~Idle(w) /\ UNCHANGED proc
      /\ \A v \in Writer : v # w => writer'[v] = writer[v]
      /\ writer'[w].pc = "removed" /\ writer'[w].snapshot = writer[w].snapshot
      /\ StateFile' = None
  BY SaveType DEF RenameRefused, Idle, FileInv, TypeOK, WriterState, StateFile
<1>2. \A v \in Writer : v # w => writer'[v].pc # "removed"
  BY <1>1, OneSave DEF FileInv, Idle
<1>3. {v \in Writer : writer'[v].pc = "removed"} = {w}
  BY <1>1, <1>2
<1>4. {writer'[v].snapshot.updates : v \in {w}} = {writer[w].snapshot.updates}
  BY <1>1
<1>5. Recorded' = writer[w].snapshot.updates
  BY <1>1, <1>3, <1>4 DEF Recorded
<1> QED
  BY <1>1, <1>5, SnapshotInPlace

LEMMA RenameLedger ==
  ASSUME ProcessAssumption, SnapshotAssumption, FileInv, TypeInv', LedgerInv, NEW w \in Writer, Rename(w)
  PROVE  LedgerInv' /\ Recorded \subseteq Recorded' /\ Recorded' = writer[w].snapshot.updates
<1>1. /\ ~Idle(w) /\ UNCHANGED proc /\ writer'[w] = IdleWriter
      /\ \A v \in Writer : v # w => writer'[v] = writer[v]
  BY DEF Rename, Idle, FileInv, TypeOK
<1>2. Recorded' = writer[w].snapshot.updates
  BY RenameFiles DEF Recorded
<1>3. Idle(w)' /\ ~Removed(w)'
  BY <1>1, IdleSave DEF Idle, Removed
<1> QED
  BY <1>1, <1>2, <1>3, SnapshotInPlace

LEMMA FailLedger ==
  ASSUME ProcessAssumption, FileInv, LedgerInv, NEW w \in Writer, SaveFails(w)
  PROVE  LedgerInv' /\ Recorded' = {}
<1>1. /\ Removed(w) /\ ~Idle(w) /\ UNCHANGED <<proc, fileVars>> /\ writer'[w] = IdleWriter
      /\ \A v \in Writer : v # w => writer'[v] = writer[v]
  BY DEF SaveFails, Removed, Idle, FileInv, TypeOK
<1>2. \A v \in Writer : ~Removed(v)'
  BY <1>1, IdleSave, OneSave DEF FileInv, Removed, Idle
<1>3. StateFile' = None
  BY <1>1 DEF LedgerInv, StateFile, fileVars
<1>4. {v \in Writer : writer'[v].pc = "removed"} = {}
  BY <1>2 DEF Removed
<1>5. Recorded' = {}
  BY <1>3, <1>4 DEF Recorded
<1> QED
  BY <1>2, <1>5 DEF LedgerInv

(* What is recorded are updates, torn file or not.                          *)
LEMMA RecordedType ==
  ASSUME TypeInv
  PROVE  Recorded \in SUBSET Update
<1>1. data \in [Inode -> Snapshot \cup {Torn}] /\ StateFile \in Inode \cup {None}
  BY DEF TypeInv, TypeOK, StateFile, Name
<1>2. \A w \in Writer : writer[w].snapshot.updates \subseteq Update
  BY DEF TypeInv, TypeOK, WriterState, Snapshot
<1>3. CASE StateFile # None
  BY <1>1, <1>3 DEF Recorded, Snapshot
<1>4. CASE StateFile = None
  BY <1>2, <1>4 DEF Recorded
<1> QED
  BY <1>3, <1>4

(* Where a save overran its process's end the ledger's promise ends.        *)
LEMMA LedgerEnds ==
  ASSUME TypeInv, [Next]_vars, overran'
  PROVE  L!End
<1>1. TypeInv'
  BY TypeStep
<1>2. Recorded' \in SUBSET Update
  <2>1. ASSUME TypeInv' PROVE (Recorded \in SUBSET Update)'
    BY <2>1, RecordedType, PTL
  <2> QED
    BY <1>1, <2>1
<1>3. saved' \in SUBSET Update /\ bare' \in BOOLEAN /\ overran' = TRUE
  BY <1>1 DEF TypeInv, TypeOK
<1> QED
  BY <1>2, <1>3 DEF L!End

(* Every step is a step of the ledger or none.                              *)
LEMMA LedgerStep ==
  ASSUME Forced \subseteq Solo, TypeInv, FileInv, LedgerInv, [Next]_vars, ~overran'
  PROVE  LedgerInv' /\ [L!Next]_(L!vars)
<1>0. TypeInv' /\ overran' = overran
  <2>1. TypeInv' /\ ~overran
    BY TypeStep, OverranStays
  <2> QED
    BY <2>1 DEF TypeInv, TypeOK
<1>1. CASE \E p \in Process : ProcessStep(p)
  <2>1. PICK p \in Process : ProcessStep(p)
    BY <1>1
  <2>2. CASE Leave(p) \/ Crash(p)
    BY <1>0, <2>2, EndLedger, ProcessAssumption DEF L!Next, L!Lose, L!vars
  <2>3. CASE ~(Leave(p) \/ Crash(p))
    <3>1. LedgerInv' /\ Recorded' = Recorded
      BY <1>0, <2>1, <2>3, ProcessAssumption, SnapshotAssumption, StartLedger, BindLedger,
         OpenLedger, RecordLedger, ReopenLedger DEF ProcessStep
    <3>2. UNCHANGED <<saved, bare>>
      BY <2>1, <2>3 DEF ProcessStep, Start, RemoveLock, AcquireLock, BindPort, OpenHub,
         Announce, Change, Quit, ClearPage, ReopenAndClear, Release, countVars, historyVars
    <3> QED
      BY <1>0, <3>1, <3>2 DEF L!vars
  <2> QED
    BY <2>2, <2>3
<1>2. CASE \E w \in Writer : WriterStep(w)
  <2>1. PICK w \in Writer : WriterStep(w)
    BY <1>2
  <2>2. writer[w] \in WriterState
    BY ProcessAssumption, SaveType
  <2>3. writer[w].snapshot.updates \in SUBSET Update
    BY <2>2 DEF WriterState, Snapshot
  <2>4. CASE Create(w) \/ Write(w) \/ WriteFails(w)
    <3>1. UNCHANGED <<saved, bare>>
      BY <2>4 DEF Create, Write, WriteFails, countVars, historyVars
    <3> QED
      BY <1>0, <2>4, <3>1, WriteLedger, ProcessAssumption, BoundAssumption, SnapshotAssumption
      DEF L!vars
  <2>5. CASE RenameRefused(w)
    <3>1. LedgerInv' /\ Recorded' = Recorded \cup writer[w].snapshot.updates
      BY <2>5, RefusedLedger, ProcessAssumption
    <3>2. UNCHANGED <<saved, bare>>
      BY <2>5 DEF RenameRefused, countVars, historyVars
    <3>3. L!Record(writer[w].snapshot.updates)
      BY <1>0, <3>1, <3>2 DEF L!Record
    <3> QED
      BY <2>3, <3>1, <3>3 DEF L!Next
  <2>6. CASE Rename(w)
    <3>1. /\ LedgerInv' /\ Recorded' = Recorded \cup writer[w].snapshot.updates
          /\ Recorded' = writer[w].snapshot.updates
      BY <1>0, <2>6, RenameLedger, ProcessAssumption, SnapshotAssumption
    <3>2. /\ bare' = bare
          /\ saved' = IF writer[w].update = None THEN saved ELSE saved \cup {writer[w].update}
      BY <2>6 DEF Rename, Acknowledged, historyVars
    <3>3. CASE writer[w].update = None
      <4>1. L!Record(writer[w].snapshot.updates)
        BY <1>0, <3>1, <3>2, <3>3 DEF L!Record
      <4> QED
        BY <2>3, <3>1, <4>1 DEF L!Next
    <3>4. CASE writer[w].update # None
      <4>1. writer[w].update \in Recorded' /\ writer[w].update \in Update
        BY <2>2, <3>1, <3>4 DEF FileInv, SavesAt, SaveAt, WriterState
      <4>2. L!Acknowledge(writer[w].update, writer[w].snapshot.updates)
        BY <1>0, <3>1, <3>2, <3>4, <4>1 DEF L!Acknowledge
      <4> QED
        BY <2>3, <3>1, <4>1, <4>2 DEF L!Next
    <3> QED
      BY <3>3, <3>4
  <2>7. CASE SaveFails(w)
    <3>1. LedgerInv' /\ Recorded' = {} /\ bare' = TRUE /\ saved' = saved
      BY <2>7, FailLedger, ProcessAssumption DEF SaveFails
    <3> QED
      BY <1>0, <3>1 DEF L!Next, L!Lose
  <2> QED
    BY <2>1, <2>4, <2>5, <2>6, <2>7 DEF WriterStep
<1>3. CASE UNCHANGED vars
  <2>1. FileSame /\ SameRemoved /\ UNCHANGED <<proc, writer, saved, bare>>
    BY <1>3 DEF vars, FileSame, StateFile, SameRemoved, Removed
  <2>2. LedgerInv' /\ Recorded' = Recorded
    BY <2>1, LedgerStays DEF HubOpen, Idle
  <2> QED
    BY <1>0, <2>1, <2>2 DEF L!vars
<1> QED
  BY <1>1, <1>2, <1>3 DEF Next

(* The processes of a data directory, their lock and their whole-file saves *)
(* implement one ledger, in which nothing that was recorded is ever taken   *)
(* back: whoever starts, saves, fails to save, ends or is killed, and       *)
(* whatever a save that failed left in a memory.  It ends with the first    *)
(* save of a request that overruns the end of its process, as main.rs does  *)
(* not prevent.                                                             *)
THEOREM LedgerKept ==
  ASSUME Forced \subseteq Solo
  PROVE  Spec => UpdatesKept
<1> DEFINE Inv == DirInv /\ (~overran => LedgerInv)
<1>1. Init => Inv
  BY DirInit, LedgerInit, ProcessAssumption
<1>2. Init => L!Init
  BY LedgerInit, ProcessAssumption DEF Init, L!Init
<1>3. Inv /\ [Next]_vars => Inv' /\ [L!Next]_(L!vars)
  <2> SUFFICES ASSUME Inv, [Next]_vars PROVE Inv' /\ [L!Next]_(L!vars)
    OBVIOUS
  <2>1. DirInv'
    BY DirStep
  <2>2. CASE overran'
    BY <2>1, <2>2, LedgerEnds DEF DirInv, L!Next
  <2>3. CASE ~overran'
    BY <2>1, <2>3, OverranStays, LedgerStep DEF DirInv
  <2> QED
    BY <2>2, <2>3
<1> HIDE DEF Inv
<1> QED
  BY <1>1, <1>2, <1>3, PTL DEF Spec, UpdatesKept, L!Spec

-----------------------------------------------------------------------------
(* The recorded address of the page.                                        *)

FileClean == StateFile # None => data[StateFile].page = None

OneShotPhases == \A p \in OneShot : proc[p].pc \in {"off", "opening", "running", "gone"}

ListeningWhere ==
  \A p \in Process : proc[p].listening =>
    /\ p \notin OneShot
    /\ proc[p].pc \in {"opening", "announcing", "running", "clearing", "releasing", "leaving"}
    /\ proc[p].pc = "opening" => p \in Serve

(* With no lock file there is no address anywhere, a forced start between   *)
(* the two steps of its takeover aside.                                     *)
TakingOver == \E p \in Forced : proc[p].pc = "locking"
Unlocked ==
  lock = None /\ ~TakingOver =>
    /\ FileClean
    /\ \A p \in Process : HubOpen(p) => proc[p].state.page = None
    /\ \A w \in Writer : ~Idle(w) => writer[w].snapshot.page = None

(* Before the lock is given back the file is clean or about to be: a save   *)
(* that clears it is at work, and no save of a request brings it back.      *)
Clears(p) ==
  \E w \in {<<p, "hub">>, <<p, "shutdown">>} : ~Idle(w) /\ writer[w].update = None
Releasing ==
  \A p \in Process : proc[p].pc = "releasing" =>
    /\ FileClean \/ Clears(p)
    /\ \A w \in Writer : ~Idle(w) => writer[w].snapshot.page = None
    /\ p \notin Serve => proc[p].state.page = None

(* A starting process that finds an address, left by a crash, will not find *)
(* its port taken and give the lock back with the address in the file.      *)
Starting ==
  \A p \in Process \ OneShot : proc[p].pc \in {"opening", "binding"} /\ ~FileClean =>
    \A q \in Process : proc[q].pc # "leaving"

PageInv ==
  OneShotPhases /\ ListeningWhere /\ (~uncleared => Unlocked /\ Releasing /\ Starting)

LEMMA PageInit == ASSUME ProcessAssumption, Init PROVE PageInv
<1>1. \A p \in Process : proc[p] = NotStarted
  BY DEF Init
<1>2. OneShotPhases /\ ListeningWhere
  BY <1>1 DEF OneShotPhases, ListeningWhere, NotStarted, Process
<1>3. FileClean
  BY DEF Init, FileClean, StateFile, Name
<1>4. Releasing /\ Starting
  BY <1>1, <1>3 DEF Releasing, Starting, NotStarted
<1>5. Unlocked
  <2>1. \A w \in Writer : Idle(w)
    BY DEF Init, Idle, IdleWriter
  <2> QED
    BY <1>1, <1>3, <2>1 DEF Unlocked, HubOpen, NotStarted
<1> QED
  BY <1>2, <1>4, <1>5 DEF PageInv

(* Where a process can be after its step, and whether it listens.           *)
LEMMA Phases ==
  ASSUME ProcessAssumption, TypeInv, TypeInv', OneShotPhases, ListeningWhere,
         NEW p \in Process, ProcessStep(p)
  PROVE  OneShotPhases' /\ ListeningWhere'
<1>1. /\ proc \in [Process -> ProcessState] /\ proc' \in [Process -> ProcessState]
      /\ OneShot \subseteq Process
  BY DEF TypeInv, TypeOK, Process
<1>2. ASSUME NEW r, proc' = [proc EXCEPT ![p] = r],
             p \in OneShot => r.pc \in {"off", "opening", "running", "gone"},
             r.listening =>
               /\ p \notin OneShot
               /\ r.pc \in {"opening", "announcing", "running", "clearing", "releasing", "leaving"}
               /\ r.pc = "opening" => p \in Serve
      PROVE  OneShotPhases' /\ ListeningWhere'
  BY <1>1, <1>2 DEF OneShotPhases, ListeningWhere
<1>3. ASSUME NEW pc, MovesTo(p, pc),
             p \in OneShot => pc \in {"off", "opening", "running", "gone"},
             proc[p].listening =>
               /\ pc \in {"opening", "announcing", "running", "clearing", "releasing", "leaving"}
               /\ pc = "opening" => p \in Serve
      PROVE  OneShotPhases' /\ ListeningWhere'
  <2> DEFINE r == [proc[p] EXCEPT !.pc = pc]
  <2>1. proc' = [proc EXCEPT ![p] = r] /\ r.pc = pc /\ r.listening = proc[p].listening
    BY <1>1, <1>3 DEF MovesTo, ProcessState
  <2>2. proc[p].listening => p \notin OneShot
    BY DEF ListeningWhere
  <2> HIDE DEF r
  <2> QED
    BY <1>2, <1>3, <2>1, <2>2
<1>4. ASSUME proc' = [proc EXCEPT ![p] = Gone] PROVE OneShotPhases' /\ ListeningWhere'
  BY <1>2, <1>4 DEF Gone
<1>5. /\ p \in OneShot => proc[p].pc \in {"off", "opening", "running", "gone"}
      /\ proc[p].listening =>
           /\ p \notin OneShot
           /\ proc[p].pc \in {"opening", "announcing", "running", "clearing", "releasing", "leaving"}
           /\ proc[p].pc = "opening" => p \in Serve
  BY DEF OneShotPhases, ListeningWhere
<1>6. CASE Start(p) \/ RemoveLock(p) \/ AcquireLock(p)
  <2>1. /\ ~proc[p].listening
        /\ \E pc : MovesTo(p, pc) /\ (p \in OneShot => pc \in {"opening", "gone"})
    BY <1>5, <1>6 DEF Start, RemoveLock, AcquireLock
  <2> QED
    BY <1>3, <2>1
<1>7. CASE BindPort(p)
  <2>1. p \notin OneShot
    BY <1>5, <1>7 DEF BindPort
  <2>2. CASE PortFree(p)
    <3> DEFINE r == [pc |-> IF p \in Serve THEN "opening" ELSE "announcing",
                     listening |-> TRUE, state |-> proc[p].state]
    <3>1. proc' = [proc EXCEPT ![p] = r]
      BY <1>7, <2>2 DEF BindPort
    <3>2. r.pc \in {"opening", "announcing"} /\ (r.pc = "opening" => p \in Serve)
      OBVIOUS
    <3> HIDE DEF r
    <3> QED
      BY <1>2, <2>1, <3>1, <3>2
  <2>3. CASE ~PortFree(p)
    BY <1>4, <1>7, <2>3 DEF BindPort, GivesUp
  <2> QED
    BY <2>2, <2>3
<1>8. CASE OpenHub(p)
  <2>1. /\ AfterOpening(p) \in {"binding", "announcing", "running"}
        /\ p \in OneShot => AfterOpening(p) = "running"
        /\ p \in Serve => AfterOpening(p) = "announcing"
    BY DEF AfterOpening, Process, ProcessAssumption
  <2>2. PICK state \in Opened :
          IF state # None
            THEN proc' = [proc EXCEPT ![p] =
                   [pc |-> AfterOpening(p), listening |-> proc[p].listening, state |-> state]]
            ELSE IF p \in Serve THEN MovesTo(p, "clearing") ELSE GivesUp(p)
    BY <1>8 DEF OpenHub
  <2>3. CASE state # None
    <3> DEFINE r == [pc |-> AfterOpening(p), listening |-> proc[p].listening, state |-> state]
    <3>1. proc' = [proc EXCEPT ![p] = r]
      BY <2>2, <2>3
    <3>2. proc[p].listening => p \in Serve
      BY <1>5, <1>8 DEF OpenHub
    <3> QED
      BY <1>2, <2>1, <3>1, <3>2
  <2>4. CASE state = None /\ p \in Serve
    BY <1>3, <2>2, <2>4 DEF ProcessAssumption
  <2>5. CASE state = None /\ p \notin Serve
    BY <1>4, <2>2, <2>5 DEF GivesUp
  <2> QED
    BY <2>3, <2>4, <2>5
<1>9. CASE Announce(p) \/ (\E u \in Update : Change(p, u)) \/ ClearPage(p)
  <2>1. PICK state, update, pc :
          /\ Saves(p, state, update, pc)
          /\ pc \in {"running", "releasing"} \/ pc = proc[p].pc
          /\ p \in OneShot => pc = proc[p].pc
    <3>1. CASE Announce(p)
      BY <1>5, <3>1 DEF Announce
    <3>2. CASE \E u \in Update : Change(p, u)
      BY <3>2 DEF Change
    <3>3. CASE ClearPage(p)
      BY <3>3 DEF ClearPage, ProcessAssumption
    <3> QED
      BY <1>9, <3>1, <3>2, <3>3
  <2> DEFINE r == [pc |-> pc, listening |-> proc[p].listening, state |-> state]
  <2>2. proc' = [proc EXCEPT ![p] = r]
    BY <2>1 DEF Saves
  <2> QED
    BY <1>2, <1>5, <2>1, <2>2
<1>10. CASE Quit(p) \/ ReopenAndClear(p) \/ Release(p)
  <2>1. p \notin OneShot /\ \E pc \in {"clearing", "releasing", "leaving"} : MovesTo(p, pc)
    BY <1>10 DEF Quit, ReopenAndClear, Release, ProcessAssumption
  <2> QED
    BY <1>3, <2>1
<1>11. CASE Leave(p) \/ Crash(p)
  BY <1>4, <1>11 DEF Leave, Crash
<1> QED
  BY <1>6, <1>7, <1>8, <1>9, <1>10, <1>11 DEF ProcessStep

(* What a step keeps unless a clearing save fails with it.                  *)
PageParts == Unlocked /\ Releasing /\ Starting

(* A forced start between its two steps is alone.                           *)
LEMMA TakingOverAlone ==
  ASSUME ProcessAssumption, Forced \subseteq Solo, FileInv,
         NEW p \in Forced, proc[p].pc = "locking"
  PROVE  p \in Process /\ \A q \in Process : q # p => ~Live(q)
<1>1. p \in Process /\ p \notin OneShot
  BY DEF ProcessAssumption, Process
<1>2. Alone(p)
  BY <1>1 DEF Alone
<1> QED
  BY <1>1, <1>2 DEF FileInv, LockInv, AloneIsOnly

(* The working process is the only one in these phases, and the only one    *)
(* that saves.                                                              *)
LEMMA WorkingOnly ==
  ASSUME ProcessAssumption, FileInv, NEW p \in Process, Working(p)
  PROVE  /\ \A q \in Process : q # p => ~Working(q) /\ ~HubOpen(q)
         /\ \A q \in Process \ OneShot : q # p =>
              proc[q].pc \notin {"binding", "opening", "announcing", "running", "clearing",
                                 "releasing"}
         /\ \A w \in Writer : ~Idle(w) => w = <<p, "hub">> \/ w = <<p, "shutdown">>
<1>1. \A q \in Process : q # p => ~Working(q)
  BY WorkingAlone DEF FileInv
<1>2. \A q \in Process : q # p => ~HubOpen(q)
  BY <1>1, HubWorks
<1>3. \A w \in Writer : ~Idle(w) => w = <<p, "hub">> \/ w = <<p, "shutdown">>
  BY SaveWorks, WorkingAlone DEF FileInv
<1> QED
  BY <1>1, <1>2, <1>3 DEF Working, Holds

LEMMA StartPage ==
  ASSUME ProcessAssumption, Forced \subseteq Solo, FileInv, FileInv', OneShotPhases, PageParts,
         NEW p \in Process, Start(p) \/ RemoveLock(p)
  PROVE  PageParts'
<1>1. PICK pc \in {"opening", "forcing", "locking"} :
        /\ MovesTo(p, pc) /\ proc[p].pc \in {"off", "forcing"}
        /\ pc = "opening" => p \in OneShot
        /\ UNCHANGED lock \/ (p \in Forced /\ pc = "locking")
  BY DEF Start, RemoveLock, FileInv, LockInv, ForcingForced
<1>2. UNCHANGED <<names, data, writer, uncleared>>
  BY DEF Start, RemoveLock, fileVars, countVars, historyVars
<1>3. Moved(p, pc) /\ \A q \in Process : q # p => proc'[q] = proc[q]
  BY <1>1, MovesMoved DEF FileInv, LockInv, MovesTo, TypeOK
<1>4. FileClean' = FileClean /\ \A w \in Writer : Idle(w)' = Idle(w)
  BY <1>2 DEF FileClean, StateFile, Idle
<1>5. ~HubOpen(p)' /\ \A q \in Process : q # p => HubOpen(q)' = HubOpen(q)
  BY <1>1, <1>3 DEF HubOpen, Moved
<1>6. lock' = None /\ ~TakingOver' => lock = None /\ ~TakingOver
  BY <1>1, <1>3 DEF TakingOver, Moved, ProcessAssumption, Process
<1>7. Unlocked'
  BY <1>2, <1>3, <1>4, <1>5, <1>6 DEF PageParts, Unlocked
<1>8. Releasing'
  <2>1. \A q \in Process : proc'[q].pc = "releasing" =>
          proc[q].pc = "releasing" /\ proc'[q] = proc[q]
    BY <1>1, <1>3 DEF Moved
  <2>2. \A q \in Process : <<q, "hub">> \in Writer /\ <<q, "shutdown">> \in Writer
    BY DEF Writer
  <2> QED
    BY <1>2, <1>4, <2>1, <2>2 DEF PageParts, Releasing, Clears
<1>9. Starting'
  BY <1>1, <1>3, <1>4 DEF PageParts, Starting, Moved
<1> QED
  BY <1>7, <1>8, <1>9 DEF PageParts

(* Taking the lock, the address a crash left may be in the file: then this  *)
(* was a forced start, beside which nothing is leaving.                     *)
LEMMA LockPage ==
  ASSUME ProcessAssumption, Forced \subseteq Solo, FileInv, FileInv', OneShotPhases, PageParts,
         NEW p \in Process, AcquireLock(p)
  PROVE  PageParts'
<1>1. PICK pc \in {"opening", "binding", "gone"} : MovesTo(p, pc)
  BY DEF AcquireLock
<1>2. /\ UNCHANGED <<names, data, writer, uncleared>> /\ proc[p].pc = "locking"
      /\ lock = None => pc # "gone" /\ lock' = p
      /\ lock # None => pc = "gone" /\ lock' = lock
  <2>1. Moved(p, pc)
    BY <1>1, MovesMoved DEF FileInv, LockInv
  <2> QED
    BY <2>1, MovesMoved
    DEF AcquireLock, Creates, fileVars, countVars, historyVars, FileInv, LockInv, Moved
<1>3. Moved(p, pc) /\ \A q \in Process : q # p => proc'[q] = proc[q]
  BY <1>1, MovesMoved DEF FileInv, LockInv, MovesTo, TypeOK
<1>4. FileClean' = FileClean /\ \A w \in Writer : Idle(w)' = Idle(w)
  BY <1>2 DEF FileClean, StateFile, Idle
<1>5. lock' # None
  BY <1>2 DEF ProcessAssumption
<1>6. Unlocked'
  BY <1>5 DEF Unlocked
<1>7. Releasing'
  <2>1. \A q \in Process : proc'[q].pc = "releasing" =>
          proc[q].pc = "releasing" /\ proc'[q] = proc[q]
    BY <1>3 DEF Moved
  <2>2. \A q \in Process : <<q, "hub">> \in Writer /\ <<q, "shutdown">> \in Writer
    BY DEF Writer
  <2> QED
    BY <1>2, <1>4, <2>1, <2>2 DEF PageParts, Releasing, Clears
<1>8. pc # "gone" /\ ~FileClean => \A q \in Process : proc[q].pc # "leaving"
  <2> SUFFICES ASSUME pc # "gone", ~FileClean, NEW q \in Process, proc[q].pc = "leaving"
               PROVE FALSE
    OBVIOUS
  <2>1. PICK f \in Forced : proc[f].pc = "locking"
    BY <1>2 DEF PageParts, Unlocked, TakingOver
  <2>2. Live(p) /\ Live(q)
    BY <1>2 DEF Live
  <2> QED
    BY <1>2, <2>1, <2>2, TakingOverAlone
<1>9. Starting'
  BY <1>3, <1>4, <1>8 DEF PageParts, Starting, Moved
<1> QED
  BY <1>6, <1>7, <1>9 DEF PageParts

(* While the lock's holder goes on, the file and the saves as they are.     *)
LEMMA HolderPage ==
  ASSUME ProcessAssumption, FileInv, PageParts, NEW p \in Process \ OneShot, Holds(p), Holds(p)',
         UNCHANGED <<lock, names, data, writer>>,
         \A q \in Process : q # p => proc'[q] = proc[q],
         proc'[p].pc # "releasing",
         proc'[p].pc \in {"opening", "binding"} => proc[p].pc \in {"opening", "binding"}
  PROVE  PageParts'
<1>1. lock' # None
  BY DEF FileInv, LockInv, LockNames, ProcessAssumption
<1>2. FileClean' = FileClean /\ \A w \in Writer : Idle(w)' = Idle(w)
  BY DEF FileClean, StateFile, Idle
<1>3. Unlocked'
  BY <1>1 DEF Unlocked
<1>4. Releasing'
  <2>1. \A q \in Process : <<q, "hub">> \in Writer /\ <<q, "shutdown">> \in Writer
    BY DEF Writer
  <2> QED
    BY <1>2, <2>1 DEF PageParts, Releasing, Clears
<1>5. Starting'
  BY <1>2 DEF PageParts, Starting, Holds
<1> QED
  BY <1>3, <1>4, <1>5 DEF PageParts

(* With the file clean and nobody left who works, the lock goes.            *)
LEMMA UnlockPage ==
  ASSUME ProcessAssumption, FileInv, FileInv', OneShotPhases, PageParts, NEW p \in Process, Working(p),
         Idle(<<p, "hub">>), Idle(<<p, "shutdown">>), FileClean,
         UNCHANGED <<names, data, writer>>,
         \A q \in Process : q # p => proc'[q] = proc[q],
         proc'[p].pc \in {"leaving", "gone"}
  PROVE  PageParts'
<1>1. FileClean'
  BY DEF FileClean, StateFile
<1>2. \A w \in Writer : Idle(w)'
  BY NobodySaves DEF FileInv, Idle
<1>3. \A q \in Process : ~HubOpen(q)'
  <2>1. ASSUME NEW q \in Process, q # p PROVE ~HubOpen(q)'
    BY <2>1, WorkingOnly DEF HubOpen
  <2> QED
    BY <2>1 DEF HubOpen
<1>4. \A q \in Process : <<q, "hub">> \in Writer /\ <<q, "shutdown">> \in Writer
  BY DEF Writer
<1>5. \A q \in Process : proc'[q].pc # "releasing"
  BY WorkingOnly DEF OneShotPhases
<1> QED
  BY <1>1, <1>2, <1>3, <1>4, <1>5 DEF PageParts, Unlocked, Releasing, Starting

LEMMA BindPage ==
  ASSUME ProcessAssumption, FileInv, FileInv', OneShotPhases, ListeningWhere, PageParts,
         NEW p \in Process, BindPort(p)
  PROVE  PageParts'
<1>1. /\ p \in Process \ OneShot /\ proc[p].pc = "binding" /\ Holds(p) /\ Working(p)
      /\ UNCHANGED <<names, data, writer>>
  BY DEF BindPort, OneShotPhases, Holds, Working, fileVars
<1>2. proc \in [Process -> ProcessState]
  BY DEF FileInv, TypeOK
<1>3. CASE PortFree(p)
  <2> DEFINE r == [pc |-> IF p \in Serve THEN "opening" ELSE "announcing",
                   listening |-> TRUE, state |-> proc[p].state]
  <2>1. UNCHANGED lock /\ proc' = [proc EXCEPT ![p] = r]
    BY <1>3 DEF BindPort
  <2>2. /\ \A q \in Process : q # p => proc'[q] = proc[q]
        /\ proc'[p].pc \in {"opening", "announcing"}
    BY <1>2, <2>1
  <2>3. Holds(p)'
    BY <1>1, <2>2 DEF Holds
  <2> QED
    BY <1>1, <2>1, <2>2, <2>3, HolderPage
<1>4. CASE ~PortFree(p)
  <2>1. PICK q \in Process : proc[q].listening
    BY <1>4 DEF PortFree
  <2>2. q # p /\ q \notin OneShot
    BY <1>1, <2>1 DEF ListeningWhere
  <2>3. proc[q].pc = "leaving"
    <3>1. proc[q].pc \in {"opening", "announcing", "running", "clearing", "releasing", "leaving"}
      BY <2>1 DEF ListeningWhere
    <3> QED
      BY <1>1, <2>2, <3>1, WorkingOnly
  <2>4. FileClean
    BY <1>1, <2>3 DEF PageParts, Starting
  <2>5. /\ \A o \in Process : o # p => proc'[o] = proc[o]
        /\ proc'[p].pc = "gone"
    BY <1>2, <1>4, GonePlace DEF BindPort, GivesUp
  <2>6. Idle(<<p, "hub">>) /\ Idle(<<p, "shutdown">>)
    BY <1>1, NoSave DEF FileInv
  <2> QED
    BY <1>1, <2>4, <2>5, <2>6, UnlockPage
<1> QED
  BY <1>3, <1>4

LEMMA OpenPage ==
  ASSUME ProcessAssumption, SnapshotAssumption, FileInv, FileInv', OneShotPhases, PageParts,
         NEW p \in Process, OpenHub(p)
  PROVE  PageParts'
<1>1. /\ proc[p].pc = "opening" /\ Working(p) /\ UNCHANGED <<names, data, writer>>
      /\ proc \in [Process -> ProcessState]
  BY DEF OpenHub, Working, Holds, Live, fileVars, FileInv, TypeOK
<1>2. Idle(<<p, "hub">>) /\ Idle(<<p, "shutdown">>)
  BY <1>1, NoSave DEF FileInv
<1>3. PICK state \in Opened :
        IF state # None
          THEN /\ proc' = [proc EXCEPT ![p] =
                    [pc |-> AfterOpening(p), listening |-> proc[p].listening, state |-> state]]
               /\ UNCHANGED lock
          ELSE IF p \in Serve THEN MovesTo(p, "clearing") /\ UNCHANGED lock
          ELSE GivesUp(p)
  BY DEF OpenHub
<1>4. state # None
  BY <1>1, <1>2, OpenedWhole DEF SnapshotAssumption
<1> DEFINE r == [pc |-> AfterOpening(p), listening |-> proc[p].listening, state |-> state]
<1>5. /\ proc' = [proc EXCEPT ![p] = r] /\ UNCHANGED lock
      /\ r.pc = AfterOpening(p) /\ r.state = state
  BY <1>3, <1>4
<1> HIDE DEF r
<1>6. proc'[p] = r /\ \A q \in Process : q # p => proc'[q] = proc[q]
  BY <1>1, <1>5
<1>7. /\ AfterOpening(p) \in {"binding", "announcing", "running"}
      /\ p \in OneShot => AfterOpening(p) = "running"
  BY DEF AfterOpening, Process, ProcessAssumption
<1>8. CASE p \notin OneShot
  <2>1. Holds(p) /\ Holds(p)'
    BY <1>1, <1>5, <1>6, <1>7, <1>8 DEF Holds
  <2> QED
    BY <1>1, <1>5, <1>6, <1>7, <1>8, <2>1, HolderPage
<1>9. CASE p \in OneShot
  <2>1. FileClean' = FileClean /\ \A w \in Writer : Idle(w)
    BY <1>1, <1>2, NobodySaves DEF FileInv, FileClean, StateFile
  <2>2. \A w \in Writer : Idle(w)'
    BY <1>1, <2>1 DEF Idle
  <2>3. FileClean => state.page = None
    BY DEF Opened, FileClean, StateFile, Default, FileInv, Intact
  <2>4. \A q \in Process : q # p => ~HubOpen(q)'
    BY <1>1, <1>6, WorkingOnly DEF HubOpen
  <2>5. TakingOver' <=> TakingOver
    BY <1>1, <1>5, <1>6, <1>7 DEF TakingOver, ProcessAssumption, Process
  <2>6. Unlocked'
    BY <1>5, <1>6, <2>1, <2>2, <2>3, <2>4, <2>5 DEF PageParts, Unlocked
  <2>7. \A q \in Process : q # p => proc'[q].pc \notin {"releasing", "opening", "binding"} \/ q \in OneShot
    BY <1>1, <1>6, WorkingOnly
  <2>8. \A q \in Process : proc'[q].pc \in {"releasing", "opening", "binding"} => q \in OneShot
    BY <1>9, <2>7
  <2>9. \A q \in Process : proc'[q].pc # "releasing"
    <3>1. \A q \in OneShot : proc[q].pc # "releasing"
      BY DEF OneShotPhases
    <3> QED
      BY <1>5, <1>6, <1>7, <1>9, <2>8, <3>1
  <2> QED
    BY <2>6, <2>8, <2>9 DEF PageParts, Releasing, Starting
<1> QED
  BY <1>8, <1>9

(* A hub's save begins: its snapshot names a page only while its process    *)
(* goes on holding the lock.                                                *)
LEMMA SavesPage ==
  ASSUME ProcessAssumption, FileInv, OneShotPhases, PageParts,
         NEW p \in Process, NEW state \in Snapshot, NEW update,
         NEW pc \in {"running", "clearing", "releasing"},
         Saves(p, state, update, pc), UNCHANGED <<lock, fileVars>>,
         HubOpen(p), p \in OneShot => pc = "running",
         p \in OneShot => state.page = None \/ state.page = proc[p].state.page,
         pc = "releasing" => p \notin Serve /\ state.page = None /\ (FileClean \/ update = None)
  PROVE  PageParts'
<1> DEFINE w == <<p, "hub">>
           r == [pc |-> pc, listening |-> proc[p].listening, state |-> state]
           save == [IdleWriter EXCEPT !.pc = "ready", !.snapshot = state, !.update = update]
<1>1. Working(p) /\ w \in Writer
  BY HubWorks DEF Writer
<1>2. /\ proc' = [proc EXCEPT ![p] = r] /\ r.pc = pc /\ r.state = state
      /\ writer' = [writer EXCEPT ![w] = save] /\ save.snapshot = state /\ save.pc = "ready"
      /\ save.update = update
      /\ Idle(w)
  BY DEF Saves, Idle, IdleWriter
<1> HIDE DEF r, save
<1>3. /\ proc'[p] = r /\ writer'[w] = save
      /\ \A q \in Process : q # p => proc'[q] = proc[q]
      /\ \A v \in Writer : v # w => writer'[v] = writer[v]
  BY <1>1, <1>2 DEF FileInv, TypeOK
<1>4. Idle(<<p, "shutdown">>)
  BY DEF FileInv, BusyWhere, ShutdownBusy, HubOpen
<1>5. \A v \in Writer : v # w => Idle(v) /\ Idle(v)'
  <2>1. \A v \in Writer : Idle(v)
    BY <1>1, <1>2, <1>4, NobodySaves DEF FileInv
  <2> QED
    BY <1>3, <2>1 DEF Idle
<1>6. FileClean' = FileClean
  BY DEF FileClean, StateFile, fileVars
<1>7. \A q \in Process : q # p => ~HubOpen(q)'
  BY <1>1, <1>3, WorkingOnly DEF HubOpen
<1>8. lock' = None => p \in OneShot
  <2>1. Holds(p) => lock # None
    BY DEF FileInv, LockInv, LockNames, ProcessAssumption
  <2> QED
    BY <1>1, <2>1 DEF Working
<1>9. Unlocked'
  <2>1. TakingOver' <=> TakingOver
    BY <1>2, <1>3 DEF TakingOver, HubOpen, ProcessAssumption, Process
  <2> SUFFICES ASSUME lock' = None, ~TakingOver'
               PROVE  FileClean' /\ state.page = None
    BY <1>2, <1>3, <1>5, <1>7 DEF Unlocked
  <2> QED
    BY <1>6, <1>8, <2>1 DEF PageParts, Unlocked
<1>10. Releasing'
  <2>1. ASSUME NEW q \in Process, proc'[q].pc = "releasing"
        PROVE  /\ q = p /\ state.page = None /\ p \notin Serve
               /\ FileClean \/ update = None
    <3>1. q = p
      BY <1>1, <1>3, <2>1, WorkingOnly DEF OneShotPhases
    <3> QED
      BY <1>2, <1>3, <2>1, <3>1
  <2>2. ~Idle(<<p, "hub">>)' /\ \A v \in Writer : ~Idle(v)' => writer'[v].snapshot = state
    BY <1>2, <1>3, <1>5 DEF Idle
  <2>3. update = None => Clears(p)'
    BY <1>2, <1>3, <2>2 DEF Clears
  <2> QED
    BY <1>2, <1>3, <1>6, <2>1, <2>2, <2>3 DEF Releasing
<1>11. Starting'
  BY <1>1, <1>2, <1>3, WorkingOnly DEF Starting
<1> QED
  BY <1>9, <1>10, <1>11 DEF PageParts

LEMMA RecordPage ==
  ASSUME ProcessAssumption, SnapshotAssumption, FileInv, OneShotPhases, PageParts,
         NEW p \in Process,
         Announce(p) \/ (\E u \in Update : Change(p, u)) \/ ClearPage(p),
         ~overran'
  PROVE  PageParts'
<1>1. HubOpen(p) => proc[p].state \in Snapshot
  BY DEF FileInv, TypeOK, HubsRead, ProcessState
<1>2. CASE Announce(p)
  <2> DEFINE state == [proc[p].state EXCEPT !.page = PortOf[p]]
  <2>1. /\ HubOpen(p) /\ Saves(p, state, None, "running") /\ UNCHANGED <<lock, fileVars>>
        /\ p \notin OneShot
    BY <1>2 DEF Announce, HubOpen, OneShotPhases
  <2>2. state \in Snapshot
    BY <1>1, <2>1 DEF Snapshot, Port, ProcessAssumption
  <2> HIDE DEF state
  <2> QED
    BY <2>1, <2>2, SavesPage
<1>3. CASE \E u \in Update : Change(p, u)
  <2>1. PICK u \in Update : Change(p, u)
    BY <1>3
  <2> DEFINE state == [proc[p].state EXCEPT !.updates = @ \cup {u}]
  <2>2. /\ HubOpen(p) /\ Saves(p, state, u, proc[p].pc) /\ UNCHANGED <<lock, fileVars>>
        /\ proc[p].pc \in {"running", "clearing", "releasing"}
        /\ p \in OneShot => proc[p].pc = "running"
        /\ proc[p].pc = "releasing" => p \notin Serve
        /\ Idle(<<p, "hub">>)
    BY <2>1 DEF Change, TooLate, HubOpen, OneShotPhases, Saves, Idle
  <2>3. state \in Snapshot /\ state.page = proc[p].state.page
    BY <1>1, <2>2 DEF Snapshot
  <2>4. proc[p].pc = "releasing" => state.page = None /\ FileClean
    <3>1. ASSUME proc[p].pc = "releasing"
          PROVE  proc[p].state.page = None /\ (FileClean \/ Clears(p))
      BY <2>2, <3>1 DEF PageParts, Releasing
    <3>2. ASSUME proc[p].pc = "releasing" PROVE ~Clears(p)
      BY <2>2, <3>2 DEF Clears, FileInv, BusyWhere, ShutdownBusy
    <3> QED
      BY <2>3, <3>1, <3>2
  <2> HIDE DEF state
  <2> QED
    BY <2>2, <2>3, <2>4, SavesPage
<1>4. CASE ClearPage(p)
  <2> DEFINE state == PageCleared(proc[p].state)
  <2>1. /\ HubOpen(p) /\ Saves(p, state, None, "releasing") /\ UNCHANGED <<lock, fileVars>>
        /\ p \notin OneShot /\ p \notin Serve
    BY <1>4 DEF ClearPage, HubOpen, ProcessAssumption
  <2>2. state \in Snapshot /\ state.page = None
    BY <1>1, <2>1 DEF Snapshot, PageCleared
  <2> HIDE DEF state
  <2> QED
    BY <2>1, <2>2, SavesPage
<1> QED
  BY <1>2, <1>3, <1>4

LEMMA QuitPage ==
  ASSUME ProcessAssumption, FileInv, PageParts, NEW p \in Process, Quit(p)
  PROVE  PageParts'
<1>1. /\ p \notin OneShot /\ Holds(p) /\ MovesTo(p, "clearing")
      /\ UNCHANGED <<lock, names, data, writer>>
  BY DEF Quit, Holds, fileVars
<1>2. proc'[p].pc = "clearing" /\ \A q \in Process : q # p => proc'[q] = proc[q]
  BY <1>1 DEF MovesTo, FileInv, TypeOK, ProcessState
<1>3. Holds(p)'
  BY <1>1, <1>2 DEF Holds
<1> QED
  BY <1>1, <1>2, <1>3, HolderPage

(* The second reading of the file is saved with the address cleared.        *)
LEMMA ReopenPage ==
  ASSUME ProcessAssumption, SnapshotAssumption, FileInv, OneShotPhases, PageParts,
         NEW p \in Process, ReopenAndClear(p), ~overran'
  PROVE  PageParts'
<1> DEFINE w == <<p, "shutdown">>
<1>1. /\ p \in Process \ OneShot /\ proc[p].pc = "clearing" /\ MovesTo(p, "releasing")
      /\ UNCHANGED <<lock, names, data>> /\ w \in Writer
      /\ p \in Serve /\ Idle(<<p, "hub">>)
  BY DEF ReopenAndClear, Saving, Idle, Writer, ProcessAssumption, fileVars
<1>2. Holds(p) /\ Working(p) /\ Idle(w)
  BY <1>1 DEF FileInv, BusyWhere, ShutdownBusy, Holds, Working
<1>3. PICK state \in Opened :
        writer' = IF state = None THEN writer
                  ELSE [writer EXCEPT ![w] =
                    [IdleWriter EXCEPT !.pc = "ready", !.snapshot = PageCleared(state)]]
  BY DEF ReopenAndClear
<1>4. state \in Snapshot /\ state # None
  BY <1>1, <1>2, OpenedWhole DEF SnapshotAssumption
<1> DEFINE save == [IdleWriter EXCEPT !.pc = "ready", !.snapshot = PageCleared(state)]
<1>5. save.pc = "ready" /\ save.snapshot.page = None /\ save.update = None
      /\ writer' = [writer EXCEPT ![w] = save]
  BY <1>3, <1>4 DEF IdleWriter, PageCleared, Snapshot
<1> HIDE DEF save
<1>6. /\ proc'[p].pc = "releasing" /\ writer'[w] = save
      /\ \A q \in Process : q # p => proc'[q] = proc[q]
      /\ \A v \in Writer : v # w => writer'[v] = writer[v]
  BY <1>1, <1>5 DEF MovesTo, FileInv, TypeOK, ProcessState
<1>7. \A v \in Writer : v # w => Idle(v)'
  <2>1. \A v \in Writer : Idle(v)
    BY <1>1, <1>2, NobodySaves DEF FileInv
  <2> QED
    BY <1>6, <2>1 DEF Idle
<1>8. Unlocked'
  BY <1>1, <1>2 DEF FileInv, LockInv, LockNames, ProcessAssumption, Unlocked
<1>9. Releasing'
  <2>1. \A q \in Process : proc'[q].pc = "releasing" => q = p
    BY <1>1, <1>2, <1>6, WorkingOnly DEF OneShotPhases
  <2>2. ~Idle(w)' /\ \A v \in Writer : ~Idle(v)' => writer'[v].snapshot.page = None
    BY <1>5, <1>6, <1>7 DEF Idle
  <2>3. Clears(p)'
    BY <1>5, <1>6, <2>2 DEF Clears
  <2> QED
    BY <1>1, <2>1, <2>2, <2>3 DEF Releasing
<1>10. Starting'
  BY <1>1, <1>2, <1>6, WorkingOnly DEF Starting
<1> QED
  BY <1>8, <1>9, <1>10 DEF PageParts

LEMMA ReleasePage ==
  ASSUME ProcessAssumption, FileInv, FileInv', OneShotPhases, PageParts,
         NEW p \in Process, Release(p), ~overran'
  PROVE  PageParts'
<1>1. /\ proc[p].pc = "releasing" /\ MovesTo(p, "leaving") /\ Working(p)
      /\ UNCHANGED <<names, data, writer>> /\ Idle(<<p, "shutdown">>)
  BY DEF Release, Working, Holds, fileVars, Idle
<1>2. Idle(<<p, "hub">>)
  BY DEF Release, Saving, Idle
<1>3. FileClean
  BY <1>1, <1>2 DEF PageParts, Releasing, Clears
<1>4. proc'[p].pc = "leaving" /\ \A q \in Process : q # p => proc'[q] = proc[q]
  BY <1>1 DEF MovesTo, FileInv, TypeOK, ProcessState
<1> QED
  BY <1>1, <1>2, <1>3, <1>4, UnlockPage

(* A process ends.  A forced start killed between its two steps is what     *)
(* uncleared records.                                                       *)
LEMMA EndPage ==
  ASSUME ProcessAssumption, FileInv, PageParts, NEW p \in Process, Leave(p) \/ Crash(p),
         ~uncleared'
  PROVE  PageParts'
<1>1. /\ proc' = [proc EXCEPT ![p] = Gone] /\ WritersStop(p) /\ UNCHANGED <<lock, names, data>>
      /\ ~(p \in Forced /\ proc[p].pc = "locking")
  BY DEF Leave, Crash, fileVars, ProcessAssumption
<1>2. /\ proc'[p].pc = "gone"
      /\ \A q \in Process : q # p => proc'[q] = proc[q]
  BY <1>1, GonePlace DEF FileInv, TypeOK
<1>3. \A w \in Writer : writer'[w] = IF w[1] = p THEN IdleWriter ELSE writer[w]
  BY <1>1 DEF WritersStop
<1>4. \A w \in Writer : ~Idle(w)' => ~Idle(w) /\ writer'[w] = writer[w]
  BY <1>3, IdleSave DEF Idle
<1>5. FileClean' = FileClean
  BY <1>1 DEF FileClean, StateFile
<1>6. \A q \in Process : HubOpen(q)' => q # p /\ HubOpen(q)
  BY <1>2 DEF HubOpen
<1>7. TakingOver => TakingOver'
  BY <1>1, <1>2 DEF TakingOver, ProcessAssumption, Process
<1>8. Unlocked'
  BY <1>1, <1>2, <1>4, <1>5, <1>6, <1>7 DEF PageParts, Unlocked
<1>9. Releasing'
  <2>1. ASSUME NEW q \in Process, proc'[q].pc = "releasing"
        PROVE  /\ proc[q].pc = "releasing" /\ proc'[q] = proc[q]
               /\ writer'[<<q, "hub">>] = writer[<<q, "hub">>]
               /\ writer'[<<q, "shutdown">>] = writer[<<q, "shutdown">>]
    BY <1>2, <1>3, <2>1 DEF Writer
  <2>2. ASSUME NEW q \in Process, proc'[q].pc = "releasing"
        PROVE  /\ FileClean' \/ Clears(q)'
               /\ \A w \in Writer : ~Idle(w)' => writer'[w].snapshot.page = None
               /\ q \notin Serve => proc'[q].state.page = None
    BY <1>4, <1>5, <2>1, <2>2 DEF PageParts, Releasing, Clears, Idle
  <2> QED
    BY <2>2 DEF Releasing
<1>10. Starting'
  BY <1>2, <1>5 DEF PageParts, Starting
<1> QED
  BY <1>8, <1>9, <1>10 DEF PageParts

LEMMA SaveGoesOn ==
  ASSUME ProcessAssumption, PageParts, NEW w \in Writer, ~Idle(w), ~Idle(w)',
         writer'[w].snapshot = writer[w].snapshot, writer'[w].update = writer[w].update,
         \A v \in Writer : v # w => writer'[v] = writer[v],
         UNCHANGED <<lock, proc>>, FileClean => FileClean'
  PROVE  PageParts'
<1>1. \A v \in Writer : (Idle(v)' <=> Idle(v)) /\ writer'[v].snapshot = writer[v].snapshot
      /\ writer'[v].update = writer[v].update
  BY DEF Idle
<1>2. Unlocked'
  BY <1>1 DEF PageParts, Unlocked, TakingOver, HubOpen
<1>3. Releasing'
  <2>1. \A q \in Process : <<q, "hub">> \in Writer /\ <<q, "shutdown">> \in Writer
    BY DEF Writer
  <2> QED
    BY <1>1, <2>1 DEF PageParts, Releasing, Clears
<1>4. Starting'
  BY DEF PageParts, Starting
<1> QED
  BY <1>2, <1>3, <1>4 DEF PageParts

(* A save that ends leaves an address cleared in the file, if it was to     *)
(* clear it.                                                                *)
LEMMA SaveEnds ==
  ASSUME ProcessAssumption, FileInv, OneShotPhases, PageParts, NEW w \in Writer, ~Idle(w),
         Idle(w)', \A v \in Writer : v # w => writer'[v] = writer[v],
         UNCHANGED <<lock, proc>>,
         writer[w].snapshot.page = None /\ (FileClean \/ writer[w].update = None) => FileClean'
  PROVE  PageParts'
<1>1. /\ w[1] \in Process /\ Working(w[1]) /\ w = <<w[1], w[2]>> /\ w[2] \in {"hub", "shutdown"}
      /\ \A v \in Writer : v # w => Idle(v)
  BY SaveWorks, OneSave DEF FileInv
<1>2. \A v \in Writer : Idle(v)'
  BY <1>1 DEF Idle
<1>3. Unlocked'
  BY <1>2 DEF PageParts, Unlocked, TakingOver, HubOpen
<1>4. Releasing'
  <2>1. ASSUME NEW q \in Process, proc[q].pc = "releasing" PROVE FileClean'
    <3>1. w[1] = q
      BY <1>1, <2>1, WorkingOnly DEF OneShotPhases
    <3>2. FileClean \/ writer[w].update = None
      <4>1. CASE Clears(q)
        BY <1>1, <2>1, <4>1 DEF Clears, Writer
      <4>2. CASE FileClean
        BY <4>2
      <4> QED
        BY <2>1, <4>1, <4>2 DEF PageParts, Releasing
    <3>3. writer[w].snapshot.page = None
      BY <2>1 DEF PageParts, Releasing
    <3> QED
      BY <3>2, <3>3
  <2> QED
    BY <1>2, <2>1 DEF PageParts, Releasing
<1>5. Starting'
  <2>1. ASSUME NEW q \in Process \ OneShot, proc[q].pc \in {"opening", "binding"} PROVE FALSE
    <3>1. w[1] = q
      BY <1>1, <2>1, WorkingOnly
    <3>2. w = <<q, "hub">> \/ w = <<q, "shutdown">>
      BY <1>1, <3>1
    <3> QED
      BY <2>1, <3>2, NoSave DEF FileInv
  <2> QED
    BY <2>1 DEF Starting
<1> QED
  BY <1>3, <1>4, <1>5 DEF PageParts

LEMMA SavePage ==
  ASSUME ProcessAssumption, SnapshotAssumption, BoundAssumption, FileInv, TypeInv',
         OneShotPhases, PageParts, NEW w \in Writer, WriterStep(w), ~uncleared'
  PROVE  PageParts'
<1>1. writer \in [Writer -> WriterState]
  BY SaveType DEF FileInv, TypeOK
<1>2. CASE Create(w) \/ Write(w)
  <2>1. FileSame
    BY <1>2, CreateFiles, WriteFiles
  <2>2. FileClean => FileClean'
    BY <2>1 DEF FileSame, FileClean
  <2>3. /\ ~Idle(w) /\ ~Idle(w)' /\ UNCHANGED <<lock, proc>>
        /\ writer'[w].snapshot = writer[w].snapshot /\ writer'[w].update = writer[w].update
        /\ \A v \in Writer : v # w => writer'[v] = writer[v]
    BY <1>1, <1>2 DEF Create, Write, Idle, WriterState
  <2> QED
    BY <2>2, <2>3, SaveGoesOn
<1>3. CASE RenameRefused(w)
  <2>1. FileClean'
    BY <1>3, SaveType DEF RenameRefused, FileClean, StateFile
  <2>2. /\ ~Idle(w) /\ ~Idle(w)' /\ UNCHANGED <<lock, proc>>
        /\ writer'[w].snapshot = writer[w].snapshot /\ writer'[w].update = writer[w].update
        /\ \A v \in Writer : v # w => writer'[v] = writer[v]
    BY <1>1, <1>3 DEF RenameRefused, Idle, WriterState
  <2> QED
    BY <2>1, <2>2, SaveGoesOn
<1>4. CASE Rename(w)
  <2>1. writer[w].snapshot.page = None => FileClean'
    BY <1>4, RenameFiles DEF FileClean
  <2>2. /\ ~Idle(w) /\ Idle(w)' /\ UNCHANGED <<lock, proc>>
        /\ \A v \in Writer : v # w => writer'[v] = writer[v]
    BY <1>1, <1>4, IdleSave DEF Rename, Idle
  <2> QED
    BY <2>1, <2>2, SaveEnds
<1>5. CASE WriteFails(w) \/ SaveFails(w)
  <2>1. ~Clearing(w) /\ UNCHANGED <<names, data>>
    BY <1>5 DEF WriteFails, SaveFails, fileVars
  <2>2. FileClean => FileClean'
    BY <2>1 DEF FileClean, StateFile
  <2>3. /\ ~Idle(w) /\ Idle(w)' /\ UNCHANGED <<lock, proc>>
        /\ \A v \in Writer : v # w => writer'[v] = writer[v]
    BY <1>1, <1>5, IdleSave DEF WriteFails, SaveFails, Idle
  <2> QED
    BY <2>1, <2>2, <2>3, SaveEnds DEF Clearing
<1> QED
  BY <1>2, <1>3, <1>4, <1>5 DEF WriterStep

LEMMA PageStep ==
  ASSUME Forced \subseteq Solo, TypeInv, FileInv, PageInv, [Next]_vars, ~overran'
  PROVE  PageInv'
<1>1. FileInv' /\ TypeInv'
  BY FileStep, TypeStep
<1>2. OneShotPhases /\ ListeningWhere /\ (~uncleared => PageParts)
  BY DEF PageInv, PageParts
<1>3. SUFFICES OneShotPhases' /\ ListeningWhere' /\ (~uncleared' => PageParts')
  BY DEF PageInv, PageParts
<1>4. CASE \E p \in Process : ProcessStep(p)
  <2>1. PICK p \in Process : ProcessStep(p)
    BY <1>4
  <2>2. OneShotPhases' /\ ListeningWhere'
    BY <1>1, <1>2, <2>1, ProcessAssumption, Phases
  <2>3. ASSUME ~uncleared' PROVE PageParts'
    <3>1. PageParts
      BY <1>2, <2>1, <2>3 DEF ProcessStep, Start, RemoveLock, AcquireLock, BindPort, OpenHub,
         Announce, Change, Quit, ClearPage, ReopenAndClear, Release, Leave, Crash, countVars,
         historyVars
    <3> QED
      BY <1>1, <1>2, <2>1, <2>3, <3>1, ProcessAssumption, SnapshotAssumption, StartPage,
         LockPage, BindPage, OpenPage, RecordPage, QuitPage, ReopenPage, ReleasePage,
         EndPage DEF ProcessStep
  <2> QED
    BY <2>2, <2>3
<1>5. CASE \E w \in Writer : WriterStep(w)
  <2>1. PICK w \in Writer : WriterStep(w)
    BY <1>5
  <2>2. UNCHANGED proc
    BY <2>1 DEF WriterStep, Create, Write, WriteFails, Rename, RenameRefused, SaveFails
  <2>3. uncleared => uncleared'
    <3>1. CASE WriteFails(w) \/ SaveFails(w)
      BY <3>1 DEF WriteFails, SaveFails
    <3>2. CASE Create(w) \/ Write(w) \/ Rename(w) \/ RenameRefused(w)
      <4>1. uncleared' = uncleared
        BY <3>2 DEF Create, Write, Rename, RenameRefused, countVars, historyVars
      <4> QED
        BY <4>1
    <3> QED
      BY <2>1, <3>1, <3>2 DEF WriterStep
  <2>4. OneShotPhases' /\ ListeningWhere'
    BY <1>2, <2>2 DEF OneShotPhases, ListeningWhere
  <2> QED
    BY <1>1, <1>2, <2>1, <2>3, <2>4, ProcessAssumption, SnapshotAssumption, BoundAssumption, SavePage
<1>6. CASE UNCHANGED vars
  BY <1>2, <1>6 DEF vars, OneShotPhases, ListeningWhere, PageParts, Unlocked, TakingOver,
     HubOpen, Releasing, Clears, Starting, FileClean, StateFile, Idle
<1> QED
  BY <1>4, <1>5, <1>6 DEF Next

(* "The recorded URL is cleared on clean shutdown": when nothing runs and   *)
(* nobody has left a lock file, no page's address is in the file, unless    *)
(* the save that was to clear it failed, a takeover died half-way, or a     *)
(* request's save overran the end of its process and wrote it back.         *)
THEOREM AddressCleared ==
  ASSUME Forced \subseteq Solo
  PROVE  Spec => []PageUrlCleared
<1> DEFINE Inv == DirInv /\ (~overran => PageInv)
<1>1. Init => Inv
  BY DirInit, PageInit, ProcessAssumption
<1>2. Inv /\ [Next]_vars => Inv'
  BY DirStep, PageStep, OverranStays DEF DirInv
<1>3. Inv => PageUrlCleared
  <2> SUFFICES ASSUME PageInv, lock = None, \A p \in Process : ~Live(p), StateFile # None,
                      ~uncleared
               PROVE  data[StateFile].page = None
    BY DEF PageUrlCleared
  <2>1. ~TakingOver
    BY ProcessAssumption DEF TakingOver, Live, ProcessAssumption, Process
  <2>2. Unlocked
    BY DEF PageInv
  <2> QED
    BY <2>1, <2>2 DEF Unlocked, FileClean
<1> HIDE DEF Inv
<1> QED
  BY <1>1, <1>2, <1>3, PTL DEF Spec
=============================================================================
