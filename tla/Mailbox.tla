------------------------------- MODULE Mailbox -------------------------------
(***************************************************************************)
(* What the connector promises about the items a server reports to an      *)
(* enrollment, whoever reads the digests: an item waits, is delivered, is  *)
(* counted once with that, and never waits again unless it went between;   *)
(* and what goes went with its enrollment, was missing from a listing, or  *)
(* made room.                                                              *)
(***************************************************************************)
EXTENDS FiniteSets, Sequences, Naturals

CONSTANTS Enrollment, Item, Directed, RecordLimit, PreviewLimit

VARIABLES
  listings,     \* at each server: the items it listed, revision by revision
  enrolled,     \* enrollments the operator has not forgotten
  waiting,      \* items recorded and not delivered
  delivered,    \* items recorded and delivered
  handed,       \* how often an item was delivered
  disordered    \* enrollments that stored an older digest after a newer one,
                \* or more items than the limit

vars == <<listings, enrolled, waiting, delivered, handed, disordered>>

Recorded(e) == waiting[e] \cup delivered[e]

(* What a server listed at some time, and what it missed after that.        *)
Known(e) == UNION {listings[e][r] : r \in DOMAIN listings[e]}
Missed(e) ==
  {i \in Known(e) : \E r, s \in DOMAIN listings[e] :
     r < s /\ i \in listings[e][r] \ listings[e][s]}

Init ==
  /\ listings = [e \in Enrollment |-> <<{}>>]
  /\ enrolled = Enrollment
  /\ waiting = [e \in Enrollment |-> {}]
  /\ delivered = [e \in Enrollment |-> {}]
  /\ handed = [e \in Enrollment |-> [i \in Item |-> 0]]
  /\ disordered = {}

List(e, items) ==
  /\ listings' = [listings EXCEPT ![e] = Append(@, items)]
  /\ UNCHANGED <<enrolled, waiting, delivered, handed, disordered>>

(* What goes in good order was directed to the participant and missing from *)
(* a listing.  Nothing is promised of which items make room for others.     *)
Take(e, new, gone) ==
  /\ UNCHANGED <<listings, enrolled, handed>>
  /\ waiting' = [waiting EXCEPT ![e] = (@ \cup new) \ gone]
  /\ delivered' = [delivered EXCEPT ![e] = @ \ gone]
  /\ disordered' \in {disordered, disordered \cup {e}}
  /\ new \subseteq Known(e)
  /\ Cardinality(Recorded(e)') <= RecordLimit
  /\ e \notin disordered' => gone \subseteq Directed \cap Missed(e)

(* As many as an answer has room for.                                       *)
Deliver(e, items) ==
  /\ UNCHANGED <<listings, enrolled, disordered>>
  /\ Cardinality(items) <= PreviewLimit
  /\ items = waiting[e] \/ Cardinality(items) = PreviewLimit
  /\ waiting' = [waiting EXCEPT ![e] = @ \ items]
  /\ delivered' = [delivered EXCEPT ![e] = @ \cup items]
  /\ handed' = [handed EXCEPT ![e] =
                  [i \in Item |-> IF i \in items THEN @[i] + 1 ELSE @[i]]]

Forget(e) ==
  /\ e \in enrolled
  /\ enrolled' = enrolled \ {e}
  /\ waiting' = [waiting EXCEPT ![e] = {}]
  /\ delivered' = [delivered EXCEPT ![e] = {}]
  /\ UNCHANGED <<listings, handed, disordered>>

Next ==
  \E e \in Enrollment :
    \/ \E new \in SUBSET (Item \ Recorded(e)), gone \in SUBSET Recorded(e) :
         Take(e, new, gone)
    \/ \E items \in SUBSET waiting[e] : Deliver(e, items)
    \/ \E items \in SUBSET Item : List(e, items)
    \/ Forget(e)

Spec == Init /\ [][Next]_vars

=============================================================================
