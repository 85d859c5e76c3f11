------------------------------ MODULE Accounts ------------------------------
(***************************************************************************)
(* What the store promises a handshake about companions, whatever runs     *)
(* between two of its looks at it: a credential appears whole, on a        *)
(* companion that exists or is born with it; it goes whole, with its       *)
(* grant and with every session at a service, in one step; and no session  *)
(* at a place is ever replaced, only taken away by the operator.           *)
(***************************************************************************)

CONSTANTS Companion, Origin

VARIABLES
  companions,   \* companions in the store
  born,         \* companions there ever were
  usable,       \* companions with a usable binding
  granted,      \* those whose credential is granted the service
  seats         \* places with a session

vars == <<companions, born, usable, granted, seats>>

Place == Companion \X Origin
SeatsOf(c) == {place \in seats : place[1] = c}

(* Nobody is signed in yet, and every companion there is was born.          *)
Init ==
  /\ companions \subseteq Companion
  /\ born = companions
  /\ usable = {}
  /\ granted = {}
  /\ seats = {}

(* Sign-in as creation grants the service.                                  *)
Create(c) ==
  /\ c \notin born
  /\ companions' = companions \cup {c}
  /\ born' = born \cup {c}
  /\ usable' = usable \cup {c}
  /\ granted' = granted \cup {c}
  /\ UNCHANGED seats

(* A sign-in or a silent refresh stores a credential with the grants that   *)
(* were read before, which the operator may have changed since.             *)
StoreCredential(c, allowed) ==
  /\ c \in companions
  /\ usable' = usable \cup {c}
  /\ granted' = IF allowed THEN granted \cup {c} ELSE granted \ {c}
  /\ UNCHANGED <<companions, born, seats>>

SetGrant(c, allowed) ==
  /\ c \in usable
  /\ granted' = IF allowed THEN granted \cup {c} ELSE granted \ {c}
  /\ UNCHANGED <<companions, born, usable, seats>>

(* Everything the credential established goes with it.                      *)
CredentialGoes(c) ==
  /\ usable' = usable \ {c}
  /\ granted' = granted \ {c}
  /\ seats' = seats \ SeatsOf(c)

Disconnect(c) ==
  /\ c \in companions
  /\ CredentialGoes(c)
  /\ UNCHANGED <<companions, born>>

Delete(c) ==
  /\ c \in companions
  /\ companions' = companions \ {c}
  /\ CredentialGoes(c)
  /\ UNCHANGED born

(* An exchange is not called back by what happens to its companion: its     *)
(* answer is stored all the same, for one that was there when it began.     *)
Seat(place) ==
  /\ place[1] \in born
  /\ place \notin seats
  /\ seats' = seats \cup {place}
  /\ UNCHANGED <<companions, born, usable, granted>>

Forget(place) ==
  /\ place \in seats
  /\ seats' = seats \ {place}
  /\ UNCHANGED <<companions, born, usable, granted>>

Next ==
  \/ \E c \in Companion :
       \/ Create(c)
       \/ Disconnect(c)
       \/ Delete(c)
       \/ \E allowed \in BOOLEAN : StoreCredential(c, allowed) \/ SetGrant(c, allowed)
  \/ \E place \in Place : Seat(place) \/ Forget(place)

Spec == Init /\ [][Next]_vars

=============================================================================
