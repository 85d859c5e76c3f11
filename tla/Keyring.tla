------------------------------ MODULE Keyring ------------------------------
(***************************************************************************)
(* What a companion's account promises about where it came from: a key (a  *)
(* grant of the authorization server, with the account it is for) reaches  *)
(* one companion, by the one sign-in that obtained it, and once it is gone *)
(* from the companion, from its account and from any refresh in flight, it *)
(* never comes back.                                                       *)
(***************************************************************************)

CONSTANTS Companion, Did, Grant

VARIABLES
  spent,        \* grants no sign-in can obtain any more
  keys          \* the keys each companion holds, or is about to hold again

vars == <<spent, keys>>

Key == [grant: Grant, did: Did]

Init ==
  /\ spent = {}
  /\ keys = [c \in Companion |-> {}]

(* A completed sign-in brings its key, and may drive older ones out.        *)
SignIn(c, key) ==
  /\ key.grant \notin spent
  /\ spent' = spent \cup {key.grant}
  /\ key \in keys'[c]
  /\ keys'[c] \subseteq keys[c] \cup {key}
  /\ keys' = [keys EXCEPT ![c] = keys'[c]]

(* Sign-ins are given up or lapse, and companions lose keys.                *)
LetGo ==
  /\ spent \subseteq spent'
  /\ spent' \subseteq Grant
  /\ DOMAIN keys' = Companion
  /\ \A c \in Companion : keys'[c] \subseteq keys[c]

Next == LetGo \/ \E c \in Companion, key \in Key : SignIn(c, key)

Spec == Init /\ [][Next]_vars

=============================================================================
