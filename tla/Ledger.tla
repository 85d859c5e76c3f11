------------------------------- MODULE Ledger -------------------------------
(***************************************************************************)
(* What the data directory promises the callers of all its processes, as   *)
(* if there were one ledger and no process: an update is told done in the  *)
(* step that finds it recorded, what is recorded stays recorded, and the   *)
(* one way to lose it is to lose everything at once.  The promise ends when*)
(* a process lets a request save beside its own end or after it.           *)
(***************************************************************************)

CONSTANT Update

VARIABLES
  recorded,      \* updates whoever opens the directory next will find
  acknowledged,  \* updates whose callers were told that they are done
  lost,          \* the file was removed and never replaced
  void           \* the promise has ended

vars == <<recorded, acknowledged, lost, void>>

Init ==
  /\ recorded = {}
  /\ acknowledged = {}
  /\ lost = FALSE
  /\ void = FALSE

(* A save records the updates nobody was told of along with its own: those  *)
(* of saves that failed before it.                                          *)
Record(updates) ==
  /\ recorded' = recorded \cup updates
  /\ UNCHANGED <<acknowledged, lost, void>>

Acknowledge(u, updates) ==
  /\ recorded' = recorded \cup updates
  /\ u \in recorded'
  /\ acknowledged' = acknowledged \cup {u}
  /\ UNCHANGED <<lost, void>>

Lose ==
  /\ recorded' = {}
  /\ lost' = TRUE
  /\ UNCHANGED <<acknowledged, void>>

(* From here on anything may be recorded or missing.                        *)
End ==
  /\ void' = TRUE
  /\ recorded' \in SUBSET Update
  /\ acknowledged' \in SUBSET Update
  /\ lost' \in BOOLEAN

Next ==
  \/ \E updates \in SUBSET Update :
       Record(updates) \/ \E u \in Update : Acknowledge(u, updates)
  \/ Lose
  \/ End

Spec == Init /\ [][Next]_vars

=============================================================================
