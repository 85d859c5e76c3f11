---------------------------- MODULE MC_Custody ----------------------------
(* Model values for Custody, and what Custody_handshake leaves out.         *)
EXTENDS Custody, TLC

CONSTANTS c1, c2, c3, d1, d2, o1, b1, b2, w1, w2, tangent

MCCatalog == {tangent}

Busy(b) == binder[b].pc # "idle"

InUse(d) ==
  \/ \E f \in flights : f.declared = d
  \/ \E b \in Binder : d \in {binder[b].did, binder[b].declared}
  \/ \E c \in Companion : account[c] # None /\ account[c].did = d

(* A second companion, a second account and a third sign-in are explored    *)
(* for sign-ins alone, and so are sign-ins that overlap: no handshake is at *)
(* work beside them, and they meet only grants that no handshake has used.  *)
(* The third sign-in is of the first account.  No step this cuts off has    *)
(* fairness.                                                                *)
Wide == c2 \in born \/ InUse(d2) \/ started > 2

HandshakesBegan ==
  \/ issued > 0
  \/ lost # {}
  \/ \E c \in Companion : account[c] # None /\
       (account[c].stale \/ account[c].token > 0 \/ account[c].services = {})

SignInsApart ==
  /\ (\A w \in Worker : worker[w].pc = "idle") \/ ~(Busy(b2) \/ Wide)
  /\ ~HandshakesBegan \/ ~Wide
  /\ ~InUse(d2) \/ started < 3

(* The two threads, companions and accounts have the same part to play: the *)
(* second of them comes into play only beside, or after, the first.         *)
SecondAfterFirst ==
  /\ ~Busy(b2) /\ Busy(b2)' => Busy(b1)
  /\ c2 \in born' \ born => c1 \in born
  /\ ~InUse(d2) /\ InUse(d2)' => InUse(d1)

===========================================================================
