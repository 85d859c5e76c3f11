----------------------------- MODULE MC_OAuthWire -----------------------------
(* Model values for OAuthWire.                                               *)
EXTENDS OAuthWire

CONSTANTS c1, c2

===============================================================================
