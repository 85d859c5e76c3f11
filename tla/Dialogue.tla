------------------------------ MODULE Dialogue ------------------------------
(***************************************************************************)
(* What a client of the stdio session may rely on, as if there were no     *)
(* bytes and no reads: its messages are taken whole, one at a time and in  *)
(* their order; a request is answered once, while it is the one taken, and *)
(* the session goes on to the next only when it was.  Messages may be lost *)
(* on the way, unless the client waits for each to be read.                *)
(***************************************************************************)
EXTENDS Naturals

CONSTANTS
  MaxMessages,  \* bound: messages the client sends
  Lossless      \* nothing is lost

VARIABLES
  asked,        \* messages sent so far, which numbers them
  unread,       \* those that were neither taken nor lost
  turn,         \* the one the session works on, 0 when none
  open,         \* requests without an answer
  ended         \* the session is over

vars == <<asked, unread, turn, open, ended>>

Init ==
  /\ asked = 0
  /\ unread = {}
  /\ turn = 0
  /\ open = {}
  /\ ended = FALSE

(* The client does not notice that the session is over.                     *)
Ask(requests) ==
  /\ asked' = asked + 1
  /\ unread' = unread \cup {asked'}
  /\ requests \subseteq {asked'}
  /\ open' = open \cup requests
  /\ UNCHANGED <<turn, ended>>

Take(i) ==
  /\ ~ended /\ turn = 0
  /\ i \in unread
  /\ \A j \in unread' : j \in unread /\ i < j
  /\ Lossless => unread' = unread \ {i}
  /\ turn' = i
  /\ UNCHANGED <<asked, open, ended>>

Lose ==
  /\ ~Lossless
  /\ turn = 0
  /\ unread' \subseteq unread
  /\ UNCHANGED <<asked, turn, open, ended>>

(* An answer may have something to follow it, or be the last.               *)
Answer ==
  /\ turn \in open
  /\ open' = open \ {turn}
  /\ turn' \in {turn, 0}
  /\ ended' \in BOOLEAN
  /\ ended' => turn' = 0
  /\ UNCHANGED <<asked, unread>>

(* What asked for no answer is done, or what followed an answer is.         *)
GoOn ==
  /\ turn # 0 /\ turn \notin open
  /\ turn' = 0
  /\ UNCHANGED <<asked, unread, open, ended>>

(* Standard input ends, or holds what the session cannot go on from.        *)
End ==
  /\ ~ended /\ turn = 0
  /\ ended' = TRUE
  /\ unread' \subseteq unread
  /\ UNCHANGED <<asked, turn, open>>

Next ==
  \/ \E requests \in SUBSET (1..MaxMessages) : Ask(requests)
  \/ \E i \in 1..MaxMessages : Take(i)
  \/ Lose \/ Answer \/ GoOn \/ End

Spec == Init /\ [][Next]_vars

=============================================================================
