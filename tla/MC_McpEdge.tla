---------------------------- MODULE MC_McpEdge ----------------------------
(* Model values for McpEdge.                                               *)
EXTENDS McpEdge

CONSTANTS x1, x2, warn, post, watch

===========================================================================
