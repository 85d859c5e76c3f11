----------------------------- MODULE MC_Inbox -----------------------------
(* Model values for Inbox.                                                 *)
EXTENDS Inbox, TLC

CONSTANTS e1, i1, i2, i3, mcp, k1

(* Two directed items are alike; no liveness is checked under it.           *)
Interchangeable == Permutations({i1, i2})

===========================================================================
