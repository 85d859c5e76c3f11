----------------------------- MODULE WaitBoard -----------------------------
(***************************************************************************)
(* What becomes of a connect that had to wait for a sign-in, whichever     *)
(* threads it passes through: it is recorded once; it is withdrawn by a    *)
(* later connect to its place, or leaves the board once, either with       *)
(* everything that aged out, to be announced, or with every fresh wait of  *)
(* a companion that signed in, to be resumed; and it never comes back.     *)
(***************************************************************************)
EXTENDS Naturals

CONSTANTS Companion, Origin, MaxTickets

VARIABLES
  recorded,     \* waits recorded so far
  fresh,        \* on the board, a sign-in may still resume them
  aged,         \* on the board, past their time
  expiring,     \* taken by the sweeper, to be announced as timed out
  resuming      \* taken by sign-ins, to be finished

vars == <<recorded, fresh, aged, expiring, resuming>>

Place == Companion \X Origin
Wait == [ticket: 1..MaxTickets, place: Place]

At(waits, place) == {w \in waits : w.place = place}
Of(waits, c) == {w \in waits : w.place[1] = c}

Init ==
  /\ recorded = 0
  /\ fresh = {}
  /\ aged = {}
  /\ expiring = {}
  /\ resuming = {}

(* One wait per place: a repeated one replaces what waited there.           *)
Record(place) ==
  /\ recorded' = recorded + 1
  /\ fresh' = (fresh \ At(fresh, place))
                \cup {[ticket |-> recorded + 1, place |-> place]}
  /\ aged' = aged \ At(aged, place)
  /\ UNCHANGED <<expiring, resuming>>

Age(w) ==
  /\ w \in fresh
  /\ fresh' = fresh \ {w}
  /\ aged' = aged \cup {w}
  /\ UNCHANGED <<recorded, expiring, resuming>>

(* A connect that reaches for its place gives its wait more time...         *)
Touch(place) ==
  /\ fresh' = fresh \cup At(aged, place)
  /\ aged' = aged \ At(aged, place)
  /\ UNCHANGED <<recorded, expiring, resuming>>

(* ...and withdraws it when it gets through.                                *)
Withdraw(place) ==
  /\ fresh' = fresh \ At(fresh, place)
  /\ aged' = aged \ At(aged, place)
  /\ UNCHANGED <<recorded, expiring, resuming>>

(* The sweeper takes all that aged out, once it announced the last lot.     *)
Sweep ==
  /\ expiring = {}
  /\ expiring' = aged
  /\ aged' = {}
  /\ UNCHANGED <<recorded, fresh, resuming>>

Announce(w) ==
  /\ w \in expiring
  /\ expiring' = expiring \ {w}
  /\ UNCHANGED <<recorded, fresh, aged, resuming>>

(* A sign-in takes all its companion's fresh waits.                         *)
Resume(c) ==
  /\ fresh' = fresh \ Of(fresh, c)
  /\ resuming' = resuming \cup Of(fresh, c)
  /\ UNCHANGED <<recorded, aged, expiring>>

Finish(w) ==
  /\ w \in resuming
  /\ resuming' = resuming \ {w}
  /\ UNCHANGED <<recorded, fresh, aged, expiring>>

Next ==
  \/ \E place \in Place : Record(place) \/ Touch(place) \/ Withdraw(place)
  \/ \E w \in Wait : Age(w) \/ Announce(w) \/ Finish(w)
  \/ Sweep
  \/ \E c \in Companion : Resume(c)

Spec == Init /\ [][Next]_vars

=============================================================================
