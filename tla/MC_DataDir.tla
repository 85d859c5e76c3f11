---------------------------- MODULE MC_DataDir ----------------------------
(* Model values for DataDir.  Both long-running verbs default to one port;  *)
(* s2 was given another.                                                    *)
EXTENDS DataDir, TLC

CONSTANTS m1, m2, s1, s2, c1, u1, u2, default, other

(* No definition tells one update from another.                             *)
Updates == Permutations({u1, u2})

(* A state in which nothing is promised any more is checked, not continued. *)
Promised == ~overran

PortsOf == [p \in Process |-> IF p = s2 THEN other ELSE default]

===========================================================================
