------------------------------- MODULE MC_Feed -------------------------------
(* Model values for Feed.                                                   *)
EXTENDS Feed

CONSTANTS t1, t2, p1, s1, s2

==============================================================================
