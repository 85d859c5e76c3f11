------------------------------ MODULE TokenCall ------------------------------
(***************************************************************************)
(* What a call of the sign-in adapter promises its caller: it ends once,   *)
(* the server applies it at most once, and it succeeds only when the       *)
(* server applied it.  A failed call may have been applied, even after it  *)
(* failed: the caller must treat its grant as possibly spent.              *)
(***************************************************************************)
EXTENDS Naturals

CONSTANT Call           \* the calls made, each of them once

VARIABLES
  state,                \* how far each call is, as its caller sees it
  applied               \* how often the server applied each call

vars == <<state, applied>>

Init ==
  /\ state = [c \in Call |-> "idle"]
  /\ applied = [c \in Call |-> 0]

Begin(c) ==
  /\ state[c] = "idle"
  /\ state' = [state EXCEPT ![c] = "open"]
  /\ UNCHANGED applied

Apply(c) ==
  /\ state[c] # "idle"
  /\ applied[c] = 0
  /\ applied' = [applied EXCEPT ![c] = 1]
  /\ UNCHANGED state

Succeed(c) ==
  /\ state[c] = "open"
  /\ applied[c] = 1
  /\ state' = [state EXCEPT ![c] = "done"]
  /\ UNCHANGED applied

Fail(c) ==
  /\ state[c] = "open"
  /\ state' = [state EXCEPT ![c] = "failed"]
  /\ UNCHANGED applied

Next == \E c \in Call : Begin(c) \/ Apply(c) \/ Succeed(c) \/ Fail(c)

Spec == Init /\ [][Next]_vars

=============================================================================
