------------------------------ MODULE DataDir ------------------------------
(***************************************************************************)
(* The data directory several processes share: the lock file of the        *)
(* long-running verbs, the port of the companion manager, and state.json,  *)
(* which every process reads once and then saves as a whole file: create a *)
(* temporary file named after the process, write, rename over state.json.  *)
(* Within a process the hub saves under its store's mutex, so one at a     *)
(* time; the shutdown of "serve" opens the file a second time and saves    *)
(* that copy, outside the hub's mutex and through the same temporary file. *)
(* Files are inodes behind names: a writer keeps the inode it opened, a    *)
(* rename moves what the name holds.                                       *)
(***************************************************************************)
EXTENDS Naturals, FiniteSets

CONSTANTS
  Manager, Serve, \* processes that run the long-running verbs
  OneShot,        \* processes that run call, check or forget
  Forced,         \* long-running processes started with --force
  Solo,           \* processes the operator starts while nothing else runs
  PortOf,         \* the port each process hosts its page on, as a function
  Update,         \* changes of durable state, each made at most once
  MaxFiles,       \* bound: file identities
  MaxFaults,      \* bound: processes killed and writes failed in a behaviour
  MayRefuse,      \* TRUE: the platform may refuse a rename over a file
  None,           \* no process, no file, no page, nothing in memory
  Torn            \* a file that was truncated and not written yet

Process == Manager \cup Serve \cup OneShot
Inode == 1..MaxFiles

ASSUME ProcessAssumption ==
  /\ Manager \cap Serve = {} /\ OneShot \cap (Manager \cup Serve) = {}
  /\ Forced \subseteq Manager \cup Serve
  /\ OneShot \subseteq Solo /\ Solo \subseteq OneShot \cup Forced
  /\ DOMAIN PortOf = Process
  /\ None \notin Process \cup Inode /\ "state" \notin Process

ASSUME BoundAssumption ==
  /\ MaxFaults \in Nat
  /\ MayRefuse \in BOOLEAN
  /\ MaxFiles \in Nat /\ IsFiniteSet(Process)
  /\ MaxFiles > 3 * Cardinality(Process)

VARIABLES
  lock,       \* the process the lock file names, None when there is no file
  names,      \* the inode behind state.json and behind each tmp-<pid>
  data,       \* what each inode holds
  proc,       \* each process: where it is, its listener, its hub's state
  writer,     \* each process's saves: the hub's, and the shutdown's own
  tried,      \* updates some process made
  saved,      \* updates whose save was acknowledged
  faults,     \* processes killed and writes failed so far
  bare,       \* history: a fallback removed state.json and never replaced it
  uncleared,  \* history: a save that would have cleared the page failed, or a
              \* forced start died between removing the lock file and its own
  overran     \* history: a request's save met the saves of serve's shutdown, or
              \* went on when its process had given the lock back

vars == <<lock, names, data, proc, writer, tried, saved, faults, bare, uncleared, overran>>
fileVars == <<names, data>>
historyVars == <<bare, uncleared, overran>>
countVars == <<tried, saved, faults, historyVars>>

Name == {"state"} \cup Process
Port == {PortOf[p] : p \in DOMAIN PortOf}
Writer == Process \X {"hub", "shutdown"}

Snapshot == [updates: SUBSET Update, page: Port \cup {None}]

ASSUME SnapshotAssumption == {None, Torn} \cap Snapshot = {}

Default == [updates |-> {}, page |-> None]

NotStarted == [pc |-> "off", listening |-> FALSE, state |-> None]
Gone == [pc |-> "gone", listening |-> FALSE, state |-> None]
IdleWriter == [pc |-> "idle", snapshot |-> Default, update |-> None, inode |-> None]

Live(p) == proc[p].pc \notin {"off", "gone"}

(* From the lock file's creation to its removal.                            *)
Holds(p) ==
  /\ p \notin OneShot
  /\ proc[p].pc \in {"binding", "opening", "announcing", "running", "clearing", "releasing"}

(* A solo process runs alone: a one-shot to its end, a long-running one     *)
(* until it has tried the lock.                                             *)
Alone(p) ==
  /\ p \in Solo
  /\ IF p \in OneShot THEN Live(p) ELSE proc[p].pc \in {"forcing", "locking"}

Saving(p) == writer[<<p, "hub">>].pc # "idle"

(* The hub is saving the page's address, which the starting or ending       *)
(* thread waits for, rather than a request's update.                        *)
Recording(p) == Saving(p) /\ writer[<<p, "hub">>].update = None

(* "Nothing runs, so any leftover lock is stale by definition."              *)
JudgedStale == \A q \in Process : lock = q => ~Live(q)

MovesTo(p, pc) == proc' = [proc EXCEPT ![p].pc = pc]

(* StateStore::open: no file and an empty file are a fresh state, a torn one*)
(* may be empty or malformed.                                               *)
Opened ==
  LET i == names["state"]
  IN  IF i = None THEN {Default}
      ELSE IF data[i] = Torn THEN {Default, None} ELSE {data[i]}

-----------------------------------------------------------------------------
(* Starting.                                                                *)

Start(p) ==
  /\ proc[p].pc = "off"
  /\ \A q \in Process : ~Alone(q) /\ (p \in Solo => ~Live(q))
  /\ p \in Forced => JudgedStale
  /\ MovesTo(p, IF p \in OneShot THEN "opening"
                ELSE IF p \in Forced THEN "forcing" ELSE "locking")
  /\ UNCHANGED <<lock, fileVars, writer, countVars>>

(* --force removes whatever lock file there is.                             *)
RemoveLock(p) ==
  /\ proc[p].pc = "forcing"
  /\ lock' = None
  /\ MovesTo(p, "locking")
  /\ UNCHANGED <<fileVars, writer, countVars>>

(* Mutant: the lock file is opened, not created anew.                       *)
Overwrites(p) == TRUE

(* create_new.                                                              *)
Creates(p) == lock = None

AcquireLock(p) ==
  /\ proc[p].pc = "locking"
  /\ IF Creates(p)
       THEN /\ lock' = p
            /\ MovesTo(p, IF p \in Serve THEN "binding" ELSE "opening")
       ELSE /\ MovesTo(p, "gone")
            /\ UNCHANGED lock
  /\ UNCHANGED <<fileVars, writer, countVars>>

(* The lock file goes with its guard, whoever it names by then.             *)
GivesUp(p) ==
  /\ proc' = [proc EXCEPT ![p] = Gone]
  /\ lock' = IF p \in OneShot THEN lock ELSE None

PortFree(p) == \A q \in Process : proc[q].listening => PortOf[q] # PortOf[p]

BindPort(p) ==
  /\ proc[p].pc = "binding"
  /\ IF PortFree(p)
       THEN /\ proc' = [proc EXCEPT ![p] =
                 [pc |-> IF p \in Serve THEN "opening" ELSE "announcing",
                  listening |-> TRUE, state |-> @.state]]
            /\ UNCHANGED lock
       ELSE GivesUp(p)
  /\ UNCHANGED <<fileVars, writer, countVars>>

AfterOpening(p) ==
  CASE p \in Manager -> "binding"
    [] p \in Serve -> "announcing"
    [] p \in OneShot -> "running"

(* build_hub; serve does it when its client initializes.  A state that      *)
(* cannot be read ends the process, serve by way of its shutdown.           *)
OpenHub(p) ==
  /\ proc[p].pc = "opening"
  /\ \E state \in Opened :
       IF state # None
         THEN /\ proc' = [proc EXCEPT ![p] =
                   [pc |-> AfterOpening(p), listening |-> @.listening, state |-> state]]
              /\ UNCHANGED lock
         ELSE IF p \in Serve THEN MovesTo(p, "clearing") /\ UNCHANGED lock
         ELSE GivesUp(p)
  /\ UNCHANGED <<fileVars, writer, countVars>>

-----------------------------------------------------------------------------
(* Saving.                                                                  *)

(* The mutation under the mutex; the mutex is held until the save returns.  *)
Saves(p, state, update, pc) ==
  /\ writer[<<p, "hub">>].pc = "idle"
  /\ proc' = [proc EXCEPT ![p] = [pc |-> pc, listening |-> @.listening, state |-> state]]
  /\ writer' = [writer EXCEPT ![<<p, "hub">>] =
       [IdleWriter EXCEPT !.pc = "ready", !.snapshot = state, !.update = update]]

(* announce_manager_page.                                                   *)
Announce(p) ==
  /\ proc[p].pc = "announcing"
  /\ Saves(p, [proc[p].state EXCEPT !.page = PortOf[p]], None, "running")
  /\ UNCHANGED <<lock, fileVars, countVars>>

(* Serve's shutdown has read the file, or the lock is given back.           *)
TooLate(p) ==
  \/ proc[p].pc = "leaving"
  \/ p \in Serve /\ proc[p].pc = "releasing"

(* Any operation that changes durable state.  Request threads and checkers  *)
(* go on until the process is gone.                                         *)
Change(p, u) ==
  /\ proc[p].pc \in {"running", "clearing", "releasing", "leaving"}
  /\ proc[p].state # None
  /\ u \notin tried
  /\ Saves(p, [proc[p].state EXCEPT !.updates = @ \cup {u}], u, proc[p].pc)
  /\ tried' = tried \cup {u}
  /\ overran' = (overran \/ TooLate(p))
  /\ UNCHANGED <<lock, fileVars, saved, faults, bare, uncleared>>

(* An identity no name and no writer refers to.                             *)
Fresh ==
  CHOOSE i \in Inode :
    /\ \A n \in Name : names[n] # i
    /\ \A w \in Writer : writer[w].inode # i

(* File::create truncates a temporary file that is already there.           *)
Create(w) ==
  LET temp == names[w[1]]
      i == IF temp = None THEN Fresh ELSE temp
  IN
  /\ writer[w].pc = "ready"
  /\ names' = [names EXCEPT ![w[1]] = i]
  /\ data' = [data EXCEPT ![i] = Torn]
  /\ writer' = [writer EXCEPT ![w].pc = "created", ![w].inode = i]
  /\ UNCHANGED <<lock, proc, countVars>>

(* Mutant: the rename does not wait for the bytes.                          *)
WriteDeferred(w) ==
  /\ writer[w].pc = "created"
  /\ writer' = [writer EXCEPT ![w].pc = "written"]
  /\ UNCHANGED <<lock, fileVars, proc, countVars>>

Write(w) ==
  /\ writer[w].pc = "created"
  /\ data' = [data EXCEPT ![writer[w].inode] = writer[w].snapshot]
  /\ writer' = [writer EXCEPT ![w].pc = "written"]
  /\ UNCHANGED <<lock, names, proc, countVars>>

(* Mutant: a save of the page's address is taken for an update's.           *)
AcknowledgedAlways(w) == saved' = saved \cup {writer[w].update}

(* The save returned without an error: its caller acknowledges the update.  *)
Acknowledged(w) ==
  saved' = IF writer[w].update = None THEN saved ELSE saved \cup {writer[w].update}

Renamed(p) == [names EXCEPT !["state"] = names[p], ![p] = None]

Rename(w) ==
  /\ writer[w].pc \in {"written", "removed"}
  /\ names[w[1]] # None
  /\ names' = Renamed(w[1])
  /\ writer' = [writer EXCEPT ![w] = IdleWriter]
  /\ Acknowledged(w)
  /\ UNCHANGED <<lock, data, proc, tried, faults, historyVars>>

Refused(w) == names[w[1]] = None \/ MayRefuse

(* The fallback: remove the target, then try again.                         *)
RenameRefused(w) ==
  /\ writer[w].pc = "written"
  /\ Refused(w)
  /\ names' = [names EXCEPT !["state"] = None]
  /\ writer' = [writer EXCEPT ![w].pc = "removed"]
  /\ UNCHANGED <<lock, data, proc, countVars>>

(* A save of a state whose page is cleared.                                 *)
Clearing(w) == writer[w].update = None /\ writer[w].snapshot.page = None

(* The temporary file cannot be created, or not written in full.  What the  *)
(* save was to persist stays in the process's memory.                       *)
WriteFails(w) ==
  /\ writer[w].pc \in {"ready", "created"}
  /\ faults < MaxFaults
  /\ faults' = faults + 1
  /\ writer' = [writer EXCEPT ![w] = IdleWriter]
  /\ uncleared' = (uncleared \/ Clearing(w))
  /\ UNCHANGED <<lock, fileVars, proc, tried, saved, bare, overran>>

(* Mutant: a save that failed is reported as done.                          *)
SaveFailsQuietly(w) ==
  /\ writer[w].pc = "removed"
  /\ Refused(w)
  /\ writer' = [writer EXCEPT ![w] = IdleWriter]
  /\ Acknowledged(w)
  /\ UNCHANGED <<lock, fileVars, proc, tried, faults, historyVars>>

SaveFails(w) ==
  /\ writer[w].pc = "removed"
  /\ Refused(w)
  /\ writer' = [writer EXCEPT ![w] = IdleWriter]
  /\ bare' = TRUE
  /\ uncleared' = (uncleared \/ Clearing(w))
  /\ UNCHANGED <<lock, fileVars, proc, tried, saved, faults, overran>>

-----------------------------------------------------------------------------
(* Ending.                                                                  *)

(* The tray's Quit, or the end of standard input, which may come before the *)
(* client initialized.                                                      *)
Quit(p) ==
  /\ p \notin OneShot
  /\ \/ proc[p].pc = "running"
     \/ p \in Serve /\ proc[p].pc = "opening"
  /\ ~Recording(p)
  /\ MovesTo(p, "clearing")
  /\ UNCHANGED <<lock, fileVars, writer, countVars>>

(* Mutant: the recorded address is left.                                    *)
PageKept(state) == state

PageCleared(state) == [state EXCEPT !.page = None]

(* clear_persisted_manager_page, through the hub.                           *)
ClearPage(p) ==
  /\ p \in Manager
  /\ proc[p].pc = "clearing"
  /\ Saves(p, PageCleared(proc[p].state), None, "releasing")
  /\ UNCHANGED <<lock, fileVars, countVars>>

(* serve reads the file again, and saves what it read: beside a save of a   *)
(* request, there are two saves with one temporary file.                    *)
ReopenAndClear(p) ==
  /\ p \in Serve
  /\ proc[p].pc = "clearing"
  /\ MovesTo(p, "releasing")
  /\ \E state \in Opened :
       writer' = IF state = None THEN writer
                 ELSE [writer EXCEPT ![<<p, "shutdown">>] =
                   [IdleWriter EXCEPT !.pc = "ready", !.snapshot = PageCleared(state)]]
  /\ overran' = (overran \/ Saving(p))
  /\ UNCHANGED <<lock, fileVars, tried, saved, faults, bare, uncleared>>

Release(p) ==
  /\ p \notin OneShot
  /\ proc[p].pc = "releasing"
  /\ ~Recording(p)
  /\ writer[<<p, "shutdown">>].pc = "idle"
  /\ lock' = None
  /\ MovesTo(p, "leaving")
  /\ overran' = (overran \/ Saving(p))
  /\ UNCHANGED <<fileVars, writer, tried, saved, faults, bare, uncleared>>

(* What the process's threads were doing ends with it, a fallback too.      *)
WritersStop(p) ==
  /\ writer' = [w \in Writer |-> IF w[1] = p THEN IdleWriter ELSE writer[w]]
  /\ bare' = (bare \/ \E w \in Writer : w[1] = p /\ writer[w].pc = "removed")

Leave(p) ==
  /\ \/ proc[p].pc = "leaving"
     \/ p \in OneShot /\ proc[p].pc = "running" /\ ~Saving(p)
  /\ proc' = [proc EXCEPT ![p] = Gone]
  /\ WritersStop(p)
  /\ UNCHANGED <<lock, fileVars, tried, saved, faults, uncleared, overran>>

Crash(p) ==
  /\ Live(p)
  /\ faults < MaxFaults
  /\ faults' = faults + 1
  /\ proc' = [proc EXCEPT ![p] = Gone]
  /\ WritersStop(p)
  /\ uncleared' = (uncleared \/ (p \in Forced /\ proc[p].pc = "locking"))
  /\ UNCHANGED <<lock, fileVars, tried, saved, overran>>

-----------------------------------------------------------------------------
Init ==
  /\ lock = None
  /\ names = [n \in Name |-> None]
  /\ data = [i \in Inode |-> Torn]
  /\ proc = [p \in Process |-> NotStarted]
  /\ writer = [w \in Writer |-> IdleWriter]
  /\ tried = {}
  /\ saved = {}
  /\ faults = 0
  /\ bare = FALSE
  /\ uncleared = FALSE
  /\ overran = FALSE

ProcessStep(p) ==
  \/ Start(p)
  \/ RemoveLock(p)
  \/ AcquireLock(p)
  \/ BindPort(p)
  \/ OpenHub(p)
  \/ Announce(p)
  \/ \E u \in Update : Change(p, u)
  \/ Quit(p)
  \/ ClearPage(p)
  \/ ReopenAndClear(p)
  \/ Release(p)
  \/ Leave(p)
  \/ Crash(p)

WriterStep(w) ==
  \/ Create(w)
  \/ Write(w)
  \/ WriteFails(w)
  \/ Rename(w)
  \/ RenameRefused(w)
  \/ SaveFails(w)

Next ==
  \/ \E p \in Process : ProcessStep(p)
  \/ \E w \in Writer : WriterStep(w)

Spec == Init /\ [][Next]_vars

-----------------------------------------------------------------------------
(* Properties.                                                              *)

ProcessState ==
  [pc: {"off", "forcing", "locking", "binding", "opening", "announcing", "running",
        "clearing", "releasing", "leaving", "gone"},
   listening: BOOLEAN, state: Snapshot \cup {None}]

WriterState ==
  [pc: {"idle", "ready", "created", "written", "removed"}, snapshot: Snapshot,
   update: Update \cup {None}, inode: Inode \cup {None}]

(* Every variable has the shape the code's structures give it.              *)
TypeOK ==
  /\ lock \in Process \cup {None}
  /\ names \in [Name -> Inode \cup {None}]
  /\ data \in [Inode -> Snapshot \cup {Torn}]
  /\ proc \in [Process -> ProcessState]
  /\ writer \in [Writer -> WriterState]
  /\ saved \subseteq tried /\ tried \subseteq Update
  /\ faults \in 0..MaxFaults
  /\ {bare, uncleared, overran} \subseteq BOOLEAN

(* "Long-running verbs are mutually exclusive per data directory": at most  *)
(* one process is between taking the lock and giving it back, and while one *)
(* is, the lock file names it.                                              *)
LockExclusive ==
  \A p \in Process : Holds(p) => lock = p /\ \A q \in Process \ {p} : ~Holds(q)

StateFile == names["state"]

(* Once something was acknowledged there is a state.json, and it is a whole *)
(* snapshot; the fallback's writer, which removed the file, has its second  *)
(* rename to come.                                                          *)
Intact ==
  /\ saved # {} /\ StateFile = None => bare \/ \E w \in Writer : writer[w].pc = "removed"
  /\ StateFile # None => data[StateFile] # Torn

(* "Atomic snapshot write: unique temp file, write, sync, rename": the file *)
(* is intact at every moment.  The temporary file is unique to a process,   *)
(* not to a save.  So the condition: once a request's save meets the one of *)
(* serve's shutdown, either can truncate the file the other renames, and    *)
(* the rename that then finds no temporary file removes state.json.         *)
SnapshotWhole == ~overran => Intact

(* "guarding against cross-process whole-file state clobbering": an update  *)
(* whose save was acknowledged is in every later state.json, whichever      *)
(* processes start, save, fail to save, end or are killed afterwards.  One  *)
(* thing voids it: a fallback that removed state.json and, killed or        *)
(* refused again, never replaced it.                                        *)
SavedStays ==
  ~bare /\ StateFile # None /\ data[StateFile] # Torn
    => saved \subseteq data[StateFile].updates

(* What whoever opens the directory next will find: state.json, or between  *)
(* the two steps of a fallback the copy that is about to replace it.        *)
Recorded ==
  IF StateFile # None
    THEN IF data[StateFile] = Torn THEN {} ELSE data[StateFile].updates
    ELSE UNION {writer[w].snapshot.updates : w \in {v \in Writer : writer[v].pc = "removed"}}

L == INSTANCE Ledger
       WITH recorded <- Recorded, acknowledged <- saved, lost <- bare, void <- overran

(* Files, locks and processes add up to one ledger: an update is told done  *)
(* in the step that finds it recorded, no start, save, failure, end or      *)
(* crash of any process takes a recorded update back, acknowledged or not,  *)
(* and only a fallback that never replaced the file loses all of them.  It  *)
(* is promised until a request's save overruns its process's end.           *)
UpdatesKept == L!Spec

(* "write, sync, rename" precede the answer: when an update is acknowledged *)
(* it is in state.json, also when renames over a file are refused; but for  *)
(* a save that overran its process's end, which can rename a file that the  *)
(* shutdown's save has just truncated.                                      *)
AcknowledgedOnDisk ==
  [][saved' # saved /\ ~overran' =>
       /\ StateFile' # None
       /\ data'[StateFile'] # Torn
       /\ saved' \ saved \subseteq data'[StateFile'].updates]_vars

(* "The recorded URL is cleared on clean shutdown": with no process left and *)
(* no lock file, state.json does not name a page, unless the save that would *)
(* have cleared it failed, a forced start took away the lock file a crash    *)
(* had left and died before it created its own, or a save of a request       *)
(* overran serve's end and wrote back the address its hub still held.        *)
PageUrlCleared ==
  /\ lock = None
  /\ \A p \in Process : ~Live(p)
  /\ StateFile # None
  /\ data[StateFile] # Torn
  /\ ~uncleared /\ ~overran
  => data[StateFile].page = None

=============================================================================
