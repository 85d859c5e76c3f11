--------------------------- MODULE MC_Handshake ---------------------------
(* Model values for Handshake.                                             *)
EXTENDS Handshake

CONSTANTS c1, c2, o1, o2, mcp, r1, r2

===========================================================================
