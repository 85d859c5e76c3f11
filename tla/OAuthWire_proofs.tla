--------------------------- MODULE OAuthWire_proofs ---------------------------
(***************************************************************************)
(* Proofs about the sign-in adapter's calls, for any number of calls and   *)
(* nonces: a stale nonce costs one round trip, and the wire implements     *)
(* TokenCall.  Both rest on WireInv, which says where each call stands.    *)
(***************************************************************************)
EXTENDS OAuthWire, TLAPS

(* Nothing of the call has been on the wire.                                *)
Unasked(c) ==
  /\ request[c] = "none" /\ answer[c] = NoAnswer /\ applied[c] = 0
  /\ nonce[c] = NoNonce /\ ~retried[c]

(* A retry that carries n would be accepted, or the server spoilt it.       *)
Curable(c, n) == excused[c] \/ n = NonceNow(c)

(* The answer that waits for the call to take it.                           *)
AnswerInv(c) ==
  /\ answer[c].what # "none"
  /\ applied[c] = IF answer[c].what = "ok" THEN 1 ELSE 0
  /\ answer[c].what # "challenge" => excused[c]
  /\ answer[c].what = "challenge" =>
       IF retried[c] THEN excused[c] ELSE Curable(c, answer[c].nonce)

CallInv(c) ==
  /\ request[c] = "sent" => applied[c] = 0 /\ pc[c] \in {"waiting", "failed"}
  /\ pc[c] \in {"idle", "reading"} => Unasked(c)
  /\ pc[c] = "retry" =>
       /\ request[c] = "none" /\ answer[c] = NoAnswer /\ applied[c] = 0
       /\ ~retried[c] /\ Curable(c, nonce[c])
  /\ pc[c] = "waiting" =>
       IF request[c] = "sent"
         THEN answer[c] = NoAnswer /\ (retried[c] => Curable(c, nonce[c]))
         ELSE AnswerInv(c)
  /\ pc[c] = "challenged" => excused[c]

WireInv == \A c \in Call : CallInv(c)

-----------------------------------------------------------------------------
(* A server's current nonce is a nonce, of that server, and not none.       *)
LEMMA NonceNowTyped ==
  ASSUME TypeOK, NEW c \in Call
  PROVE  /\ NonceNow(c) \in Nonce
         /\ NonceNow(c).by = ServerOf(kind[c])
         /\ NonceNow(c) # NoNonce
  BY OAuthWireAssumption
  DEF TypeOK, NonceNow, Nonce, NoNonce, ServerOf, Server

(* The absent nonce and the absent answer have their types.                 *)
LEMMA NoneTyped == NoNonce \in Nonce /\ NoAnswer \in Answer
  BY OAuthWireAssumption DEF Nonce, NoNonce, NoAnswer, Answer

(* Plans are sequences of documents.                                        *)
LEMMA PlanTyped ==
  ASSUME NEW k \in Kind
  PROVE  Plan(k) \in Seq(Document)
<1>1. CASE k = "bind_by_handle"
  <2>1. <<"resolver", "document", "resource", "metadata">> \in Seq(Document)
    BY DEF Document
  <2> QED BY <1>1, <2>1 DEF Plan
<1>2. CASE k = "form"
  <2>1. <<"metadata">> \in Seq(Document)
    BY DEF Document
  <2> QED BY <1>2, <2>1 DEF Plan
<1>3. CASE k = "mint"
  <2>1. <<>> \in Seq(Document)
    OBVIOUS
  <2> QED BY <1>3, <2>1 DEF Plan
<1> QED BY <1>1, <1>2, <1>3 DEF Kind

(* What a call would carry first has its type, and its server's context.    *)
LEMMA CachedTyped ==
  ASSUME TypeOK, NEW k \in Kind
  PROVE  Cached(k) \in Nonce /\ Cached(k).by \in {ServerOf(k), Nobody}
  BY NoneTyped, OAuthWireAssumption
  DEF TypeOK, Cached, Nonce, NoNonce, ServerOf, Server

-----------------------------------------------------------------------------
(* The initial state is typed, and no call has asked.                       *)
LEMMA InitCorrect == Init => TypeOK /\ WireInv
<1> SUFFICES ASSUME Init PROVE TypeOK /\ WireInv
  OBVIOUS
<1>1. <<>> \in Seq(Document)
  OBVIOUS
<1>2. TypeOK
  BY <1>1, NoneTyped, OAuthWireAssumption
  DEF Init, TypeOK, Server, Kind, ServerOf, NoAnswer, NoNonce
<1>3. WireInv
  BY DEF Init, WireInv, CallInv, Unasked
<1> QED BY <1>2, <1>3

(* Every step keeps the types.                                              *)
LEMMA TypeStep == TypeOK /\ WireInv /\ [Next]_vars => TypeOK'
<1> SUFFICES ASSUME TypeOK, WireInv, [Next]_vars PROVE TypeOK'
  OBVIOUS
<1> USE NoneTyped
<1>1. ASSUME NEW c \in Call, NEW k \in Kind, Begin(c, k) PROVE TypeOK'
  <2>1. Unasked(c)
    BY <1>1 DEF WireInv, CallInv, Begin
  <2>2. nonce[c].by = Nobody /\ answer[c].nonce.by = Nobody
    BY <2>1 DEF Unasked, NoAnswer, NoNonce
  <2> QED BY <1>1, <2>2, PlanTyped DEF Begin, TypeOK, caches, wire, history
<1>2. ASSUME NEW c \in Call, GetAnswered(c) PROVE TypeOK'
  <2>1. Tail(todo[c]) \in Seq(Document)
    BY <1>2 DEF GetAnswered, TypeOK
  <2> QED BY <1>2, <2>1 DEF GetAnswered, TypeOK, caches, wire, history
<1>3. ASSUME NEW c \in Call, FallBack(c) PROVE TypeOK'
  <2>1. Tail(todo[c]) \in Seq(Document)
    BY <1>3 DEF FallBack, TypeOK
  <2>2. <<"well-known">> \o Tail(todo[c]) \in Seq(Document)
    <3>1. <<"well-known">> \in Seq(Document)
      BY DEF Document
    <3> QED BY <2>1, <3>1
  <2> QED BY <1>3, <2>2 DEF FallBack, TypeOK, caches, wire, history
<1>4. ASSUME NEW c \in Call, GetFails(c) PROVE TypeOK'
  BY <1>4 DEF GetFails, TypeOK, caches, wire, history, Ended
<1>5. ASSUME NEW c \in Call, Ask(c) PROVE TypeOK'
  <2>1. kind[c] \in Kind
    BY DEF TypeOK
  <2> QED BY <1>5, <2>1, CachedTyped DEF Ask, TypeOK, caches, history
<1>6. ASSUME NEW c \in Call, AskAgain(c) PROVE TypeOK'
  BY <1>6 DEF AskAgain, NonceOfRetry, TypeOK, caches, history
<1>7. ASSUME NEW c \in Call, FormAnswered(c) PROVE TypeOK'
  <2> DEFINE held == IF answer[c].nonce # NoNonce THEN answer[c].nonce ELSE nonce[c]
  <2>1. /\ answer[c].nonce \in Nonce
        /\ held \in Nonce /\ held.by \in {ServerOf(kind[c]), Nobody}
        /\ held.by # Pds
    BY <1>7, OAuthWireAssumption DEF TypeOK, FormAnswered, ServerOf, Answer
  <2>2. pc' \in [Call -> {"idle", "reading", "waiting", "retry"} \cup Ended]
    BY <1>7 DEF FormAnswered, Settled, TypeOK, Ended
  <2>3. dpop_nonces' \in Nonce /\ dpop_nonces'.by # Pds
    BY <1>7, <2>1 DEF FormAnswered, TypeOK
  <2>4. nonce' = [nonce EXCEPT ![c] = held]
    BY <1>7 DEF FormAnswered
  <2> HIDE DEF held
  <2> QED BY <1>7, <2>1, <2>2, <2>3, <2>4
        DEF FormAnswered, TypeOK, history, NoAnswer, NoNonce
<1>8. ASSUME NEW c \in Call, MintChallenged(c) PROVE TypeOK'
  <2>1. /\ answer[c].nonce \in Nonce
        /\ answer[c].nonce.by \in {ServerOf(kind[c]), Nobody}
        /\ answer[c].nonce.by # AuthServer
    BY <1>8, OAuthWireAssumption DEF TypeOK, MintChallenged, ServerOf, Answer
  <2>2. pc' \in [Call -> {"idle", "reading", "waiting", "retry"} \cup Ended]
    BY <1>8 DEF MintChallenged, TypeOK, Ended
  <2>3. /\ resource_nonces' \in [nonce: Nonce, old: BOOLEAN]
        /\ resource_nonces'.nonce.by # AuthServer
    <3>1. CASE UNCHANGED resource_nonces
      BY <3>1 DEF TypeOK
    <3>2. CASE resource_nonces' = [nonce |-> answer[c].nonce, old |-> FALSE]
      <4>1. resource_nonces'.nonce = answer[c].nonce
        BY <3>2
      <4> QED BY <2>1, <3>2, <4>1
    <3> QED BY <1>8, <3>1, <3>2 DEF MintChallenged
  <2>4. /\ nonce' \in [Call -> Nonce]
        /\ \A d \in Call : nonce'[d].by \in {ServerOf(kind[d]), Nobody}
    BY <1>8, <2>1 DEF MintChallenged, TypeOK
  <2>5. /\ answer' \in [Call -> Answer]
        /\ \A d \in Call : answer'[d].nonce.by \in {ServerOf(kind[d]), Nobody}
    BY <1>8 DEF MintChallenged, TypeOK, NoAnswer, NoNonce
  <2> QED BY <1>8, <2>2, <2>3, <2>4, <2>5 DEF MintChallenged, TypeOK, history
<1>9. ASSUME NEW c \in Call, MintAnswered(c) PROVE TypeOK'
  <2>1. pc' \in [Call -> {"idle", "reading", "waiting", "retry"} \cup Ended]
    BY <1>9 DEF MintAnswered, Settled, TypeOK, Ended
  <2> QED BY <1>9, <2>1
        DEF MintAnswered, TypeOK, caches, history, NoAnswer, NoNonce
<1>10. ASSUME NEW c \in Call, ConnectionFails(c) PROVE TypeOK'
  BY <1>10 DEF ConnectionFails, Unanswered, TypeOK, caches, history, Ended,
               NoAnswer, NoNonce
<1>11. ASSUME NEW c \in Call, Serve(c) PROVE TypeOK'
  <2>1. PICK what \in {"ok", "refused", "unauthorized", "challenge"},
             named \in {NoNonce, NonceNow(c)} :
          answer' = [answer EXCEPT ![c] = [what |-> what, nonce |-> named]]
    BY <1>11 DEF Serve
  <2>2. /\ named \in Nonce
        /\ named.by \in {ServerOf(kind[c]), Nobody}
    BY NonceNowTyped DEF NoNonce
  <2>3. [what |-> what, nonce |-> named] \in Answer
    BY <2>2 DEF Answer
  <2>4. applied' \in [Call -> Nat] /\ excused' \in [Call -> BOOLEAN]
    BY <1>11 DEF Serve, TypeOK
  <2> QED BY <1>11, <2>1, <2>2, <2>3, <2>4 DEF Serve, TypeOK, caches
<1>12. ASSUME NEW s \in Server, ChangeNonce(s) PROVE TypeOK'
  <2>1. current' \in [Server -> 1..MaxNonces]
    BY <1>12, OAuthWireAssumption DEF ChangeNonce, TypeOK
  <2> QED BY <1>12, <2>1 DEF ChangeNonce, TypeOK, caches, wire
<1>13. ASSUME NonceOutlived PROVE TypeOK'
  <2>1. /\ resource_nonces' \in [nonce: Nonce, old: BOOLEAN]
        /\ resource_nonces'.nonce.by # AuthServer
    BY <1>13 DEF NonceOutlived, TypeOK
  <2> QED BY <1>13, <2>1 DEF NonceOutlived, TypeOK, wire, history
<1>14. ASSUME UNCHANGED vars PROVE TypeOK'
  BY <1>14 DEF vars, TypeOK, caches, wire, history
<1> QED BY <1>1, <1>2, <1>3, <1>4, <1>5, <1>6, <1>7, <1>8, <1>9, <1>10,
           <1>11, <1>12, <1>13, <1>14
        DEF Next, ClientStep, TimesOut

(* The call of another thread stays where it is.                            *)
LEMMA OtherCalls ==
  ASSUME NEW d \in Call, CallInv(d), current' = current,
         pc'[d] = pc[d], kind'[d] = kind[d], nonce'[d] = nonce[d],
         retried'[d] = retried[d], request'[d] = request[d],
         answer'[d] = answer[d], applied'[d] = applied[d],
         excused'[d] = excused[d]
  PROVE  CallInv(d)'
  BY DEF CallInv, Unasked, AnswerInv, Curable, NonceNow

(* Every step keeps each call's invariant.                                  *)
LEMMA WireStep == TypeOK /\ WireInv /\ [Next]_vars => WireInv'
<1> SUFFICES ASSUME TypeOK, WireInv, [Next]_vars, NEW d \in Call
             PROVE  CallInv(d)'
  BY DEF WireInv
<1> CallInv(d)
  BY DEF WireInv
<1>1. ASSUME NEW c \in Call, NEW k \in Kind, Begin(c, k) PROVE CallInv(d)'
  <2>1. CASE d = c
    BY <1>1, <2>1 DEF Begin, TypeOK, CallInv, Unasked, caches, wire, history
  <2>2. CASE d # c
    BY <1>1, <2>2, OtherCalls DEF Begin, TypeOK, caches, wire, history
  <2> QED BY <2>1, <2>2
<1>2. ASSUME NEW c \in Call, GetAnswered(c) \/ FallBack(c) PROVE CallInv(d)'
  BY <1>2, OtherCalls DEF GetAnswered, FallBack, caches, wire, history
<1>3. ASSUME NEW c \in Call, GetFails(c) PROVE CallInv(d)'
  <2>1. CASE d = c
    BY <1>3, <2>1 DEF GetFails, TypeOK, CallInv, Unasked, caches, wire, history
  <2>2. CASE d # c
    BY <1>3, <2>2, OtherCalls DEF GetFails, TypeOK, caches, wire, history
  <2> QED BY <2>1, <2>2
<1>4. ASSUME NEW c \in Call, Ask(c) PROVE CallInv(d)'
  <2>1. CASE d = c
    BY <1>4, <2>1 DEF Ask, TypeOK, CallInv, Unasked, caches, history
  <2>2. CASE d # c
    BY <1>4, <2>2, OtherCalls DEF Ask, TypeOK, caches, history
  <2> QED BY <2>1, <2>2
<1>5. ASSUME NEW c \in Call, AskAgain(c) PROVE CallInv(d)'
  <2>1. CASE d = c
    BY <1>5, <2>1
    DEF AskAgain, NonceOfRetry, TypeOK, CallInv, Curable, NonceNow, caches, history
  <2>2. CASE d # c
    BY <1>5, <2>2, OtherCalls DEF AskAgain, TypeOK, caches, history
  <2> QED BY <2>1, <2>2
<1>6. ASSUME NEW c \in Call, FormAnswered(c) PROVE CallInv(d)'
  <2>1. CASE d = c
    <3>1. /\ pc[c] = "waiting" /\ request[c] = "none" /\ AnswerInv(c)
          /\ request'[c] = "none" /\ answer'[c] = NoAnswer
          /\ applied'[c] = applied[c] /\ excused'[c] = excused[c]
          /\ retried'[c] = retried[c] /\ NonceNow(c)' = NonceNow(c)
      BY <1>6, <2>1 DEF FormAnswered, TypeOK, CallInv, NonceNow, history
    <3>2. CASE answer[c].what # "challenge"
      <4>1. pc'[c] \in {"done", "failed"}
        BY <1>6, <3>2 DEF FormAnswered, Settled, TypeOK
      <4> QED BY <2>1, <3>1, <4>1 DEF CallInv
    <3>3. CASE answer[c].what = "challenge" /\ pc'[c] = "retry"
      <4>1. ~retried[c] /\ Curable(c, answer[c].nonce)
        BY <1>6, <3>1, <3>3 DEF FormAnswered, MayRetry, TypeOK, AnswerInv
      <4>2. nonce'[c] = answer[c].nonce \/ excused[c]
        BY <1>6, <4>1, NonceNowTyped DEF FormAnswered, TypeOK, Curable
      <4> QED BY <2>1, <3>1, <3>3, <4>1, <4>2 DEF CallInv, AnswerInv, Curable
    <3>4. CASE answer[c].what = "challenge" /\ pc'[c] # "retry"
      <4>1. /\ pc'[c] = "challenged"
            /\ retried[c] \/ answer[c].nonce = NoNonce
        BY <1>6, <3>4 DEF FormAnswered, MayRetry, TypeOK
      <4>2. excused[c]
        BY <3>1, <3>4, <4>1, NonceNowTyped DEF AnswerInv, Curable
      <4> QED BY <2>1, <3>1, <4>1, <4>2 DEF CallInv
    <3> QED BY <3>2, <3>3, <3>4
  <2>2. CASE d # c
    BY <1>6, <2>2, OtherCalls DEF FormAnswered, TypeOK, history
  <2> QED BY <2>1, <2>2
<1>7. ASSUME NEW c \in Call, MintChallenged(c) PROVE CallInv(d)'
  <2>1. CASE d = c
    <3>1. /\ pc[c] = "waiting" /\ request[c] = "none" /\ AnswerInv(c)
          /\ request'[c] = "none" /\ answer'[c] = NoAnswer
          /\ applied'[c] = applied[c] /\ excused'[c] = excused[c]
          /\ retried'[c] = retried[c] /\ NonceNow(c)' = NonceNow(c)
          /\ answer[c].what \in {"challenge", "unauthorized"}
      BY <1>7, <2>1
      DEF MintChallenged, TakenForChallenge, TypeOK, CallInv, NonceNow,
          NoAnswer, history
    <3>2. CASE MayRetry(c)
      <4>1. pc'[c] = "retry" /\ nonce'[c] = answer[c].nonce
        BY <1>7, <3>2 DEF MintChallenged, TypeOK
      <4> QED BY <2>1, <3>1, <3>2, <4>1 DEF MayRetry, CallInv, AnswerInv, Curable
    <3>3. CASE ~MayRetry(c)
      <4>1. pc'[c] = "challenged"
        BY <1>7, <3>3 DEF MintChallenged, TypeOK
      <4> QED BY <2>1, <3>1, <3>3, <4>1 DEF MayRetry, CallInv, AnswerInv
    <3> QED BY <3>2, <3>3
  <2>2. CASE d # c
    BY <1>7, <2>2, OtherCalls DEF MintChallenged, TypeOK, history
  <2> QED BY <2>1, <2>2
<1>8. ASSUME NEW c \in Call, MintAnswered(c) PROVE CallInv(d)'
  <2>1. CASE d = c
    <3>1. /\ request[c] = "none" /\ request'[c] = "none"
          /\ pc'[c] \in {"done", "failed"}
      BY <1>8, <2>1 DEF MintAnswered, Settled, TypeOK, CallInv
    <3> QED BY <2>1, <3>1 DEF CallInv
  <2>2. CASE d # c
    BY <1>8, <2>2, OtherCalls DEF MintAnswered, TypeOK, caches, history
  <2> QED BY <2>1, <2>2
<1>9. ASSUME NEW c \in Call, ConnectionFails(c) PROVE CallInv(d)'
  <2>1. CASE d = c
    BY <1>9, <2>1
    DEF ConnectionFails, Unanswered, TypeOK, CallInv, caches, history
  <2>2. CASE d # c
    BY <1>9, <2>2, OtherCalls DEF ConnectionFails, TypeOK, caches, history
  <2> QED BY <2>1, <2>2
<1>10. ASSUME NEW c \in Call, Serve(c) PROVE CallInv(d)'
  <2>1. CASE d = c
    <3>1. PICK what \in {"ok", "refused", "unauthorized", "challenge"},
               named \in {NoNonce, NonceNow(c)} :
            /\ request[c] = "sent"
            /\ what = "challenge" => nonce[c] # NonceNow(c)
            /\ request' = [request EXCEPT ![c] = "none"]
            /\ answer' = [answer EXCEPT ![c] = [what |-> what, nonce |-> named]]
            /\ applied' = [applied EXCEPT ![c] = IF what = "ok" THEN @ + 1 ELSE @]
            /\ excused' = [excused EXCEPT ![c] =
                             \/ what # "challenge"
                             \/ IF retried[c] THEN @ ELSE named = NoNonce]
            /\ UNCHANGED <<current, caches, kind, pc, todo, nonce, retried>>
      BY <1>10 DEF Serve
    <3>2. /\ request'[c] = "none" /\ pc'[c] = pc[c]
          /\ retried'[c] = retried[c] /\ NonceNow(c)' = NonceNow(c)
          /\ answer'[c].what = what /\ answer'[c].nonce = named
          /\ pc[c] \in {"waiting", "failed"} /\ applied[c] = 0
      BY <3>1, <2>1 DEF TypeOK, CallInv, NonceNow
    <3>3. applied'[c] = IF what = "ok" THEN 1 ELSE 0
      BY <3>1, <3>2 DEF TypeOK
    <3>4. excused'[c] = (what # "challenge"
                          \/ IF retried[c] THEN excused[c] ELSE named = NoNonce)
      BY <3>1 DEF TypeOK
    <3>5. ASSUME what = "challenge", retried[c], pc[c] = "waiting" PROVE excused[c]
      BY <3>1, <3>5, <2>1 DEF CallInv, Curable
    <3>6. pc[c] = "waiting" => AnswerInv(c)'
      BY <3>1, <3>2, <3>3, <3>4, <3>5 DEF AnswerInv, Curable
    <3> QED BY <2>1, <3>2, <3>6 DEF CallInv
  <2>2. CASE d # c
    BY <1>10, <2>2, OtherCalls DEF Serve, TypeOK, caches
  <2> QED BY <2>1, <2>2
<1>11. ASSUME NEW s \in Server, ChangeNonce(s) PROVE CallInv(d)'
  <2>1. excused'[d] = (excused[d] \/ ServerOf(kind[d]) = s)
    BY <1>11 DEF ChangeNonce
  <2>2. ServerOf(kind[d]) # s => NonceNow(d)' = NonceNow(d)
    BY <1>11 DEF ChangeNonce, NonceNow, ServerOf, Server, TypeOK
  <2> QED BY <1>11, <2>1, <2>2
        DEF ChangeNonce, CallInv, Unasked, AnswerInv, Curable, caches, wire
<1>12. ASSUME NonceOutlived PROVE CallInv(d)'
  BY <1>12, OtherCalls DEF NonceOutlived, wire, history
<1>13. ASSUME UNCHANGED vars PROVE CallInv(d)'
  BY <1>13, OtherCalls DEF vars, caches, wire, history
<1> QED BY <1>1, <1>2, <1>3, <1>4, <1>5, <1>6, <1>7, <1>8, <1>9, <1>10,
           <1>11, <1>12, <1>13
        DEF Next, ClientStep, TimesOut

-----------------------------------------------------------------------------
(* Both invariants hold in every state.                                     *)
LEMMA Inductive == Spec => [](TypeOK /\ WireInv)
<1>1. Init => TypeOK /\ WireInv
  BY InitCorrect
<1>2. (TypeOK /\ WireInv) /\ [Next]_vars => (TypeOK /\ WireInv)'
  BY TypeStep, WireStep
<1> QED BY <1>1, <1>2, PTL DEF Spec

(* Every variable keeps its shape, and every nonce its server's context.    *)
THEOREM TypeCorrect == Spec => []TypeOK
  BY Inductive, PTL

(* A stale nonce costs one round trip: a call ends on a nonce challenge     *)
(* only if the server itself spoilt its retry.                              *)
THEOREM RetryCorrect == Spec => []RetryRecovers
<1>1. TypeOK /\ WireInv => RetryRecovers
  BY DEF WireInv, CallInv, RetryRecovers
<1> QED BY <1>1, Inductive, PTL

-----------------------------------------------------------------------------
(* A step that leaves a call's pc alone, or moves it within the same        *)
(* outcome, does not show.                                                  *)
LEMMA Unseen ==
  ASSUME TypeOK, NEW c \in Call, NEW p, pc' = [pc EXCEPT ![c] = p],
         Seen(p) = Seen(pc[c]), applied' = applied
  PROVE  UNCHANGED T!vars
<1>1. \A d \in Call : pc'[d] = IF d = c THEN p ELSE pc[d]
  BY DEF TypeOK
<1>2. Outcome' = Outcome
  BY <1>1 DEF Outcome
<1> QED BY <1>2 DEF T!vars

(* A step that ends or begins a call moves the caller's view with it.       *)
LEMMA Moves ==
  ASSUME TypeOK, NEW c \in Call, NEW p, pc' = [pc EXCEPT ![c] = p]
  PROVE  Outcome' = [Outcome EXCEPT ![c] = Seen(p)]
<1>1. \A d \in Call : Seen(pc'[d]) = IF d = c THEN Seen(p) ELSE Seen(pc[d])
  BY DEF TypeOK
<1>2. Outcome' = [d \in Call |-> IF d = c THEN Seen(p) ELSE Seen(pc[d])]
  BY <1>1 DEF Outcome
<1>3. [Outcome EXCEPT ![c] = Seen(p)]
        = [d \in Call |-> IF d = c THEN Seen(p) ELSE Seen(pc[d])]
  BY DEF Outcome
<1> QED BY <1>2, <1>3

(* What a call shows now.                                                   *)
LEMMA Shows == \A c \in Call : Outcome[c] = Seen(pc[c])
  BY DEF Outcome

(* The outcomes of the pcs.                                                 *)
LEMMA SeenValues ==
  /\ Seen("idle") = "idle" /\ Seen("done") = "done"
  /\ Seen("failed") = "failed" /\ Seen("challenged") = "failed"
  /\ Seen("reading") = "open" /\ Seen("waiting") = "open" /\ Seen("retry") = "open"
  BY DEF Seen

(* Every step of the wire is a step of the promise, or does not show.       *)
LEMMA PromiseStep ==
  TypeOK /\ WireInv /\ [Next]_vars => [T!Next]_(T!vars)
<1> SUFFICES ASSUME TypeOK, WireInv, [Next]_vars PROVE [T!Next]_(T!vars)
  OBVIOUS
<1> USE SeenValues
<1>0. ASSUME NEW c \in Call, pc' = [pc EXCEPT ![c] = "failed"],
             pc[c] \in {"reading", "waiting"}, applied' = applied
      PROVE  T!Fail(c)
  <2>1. Seen(pc[c]) = "open"
    BY <1>0
  <2>2. Outcome' = [Outcome EXCEPT ![c] = "failed"]
    <3>1. pc' = [pc EXCEPT ![c] = "failed"]
      BY <1>0
    <3> QED BY <3>1, Moves
  <2> QED BY <1>0, <2>1, <2>2, Shows DEF T!Fail
<1>1. ASSUME NEW c \in Call, NEW k \in Kind, Begin(c, k) PROVE T!Begin(c)
  <2>1. pc[c] = "idle" /\ pc' = [pc EXCEPT ![c] = "reading"] /\ applied' = applied
    BY <1>1 DEF Begin, history
  <2> QED BY <2>1, Shows, Moves DEF T!Begin
<1>2. ASSUME NEW c \in Call,
             GetAnswered(c) \/ FallBack(c)
      PROVE  UNCHANGED T!vars
  BY <1>2 DEF GetAnswered, FallBack, caches, wire, history, T!vars, Outcome
<1>3. ASSUME NEW c \in Call, GetFails(c) PROVE T!Fail(c)
  BY <1>0, <1>3 DEF GetFails, history
<1>4. ASSUME NEW c \in Call, Ask(c) \/ AskAgain(c) PROVE UNCHANGED T!vars
  BY <1>4, Unseen DEF Ask, AskAgain, history
<1>5. ASSUME NEW c \in Call, Serve(c) PROVE T!Apply(c) \/ UNCHANGED T!vars
  <2>1. request[c] = "sent" /\ UNCHANGED pc
    BY <1>5 DEF Serve
  <2>2. applied[c] = 0 /\ pc[c] \in {"waiting", "failed"}
    BY <2>1 DEF WireInv, CallInv
  <2>3. Outcome' = Outcome /\ Outcome[c] # "idle"
    BY <2>1, <2>2 DEF Outcome
  <2>4. applied' = [applied EXCEPT ![c] = 1] \/ applied' = applied
    <3>1. PICK what : applied' = [applied EXCEPT
                                    ![c] = IF what = "ok" THEN @ + 1 ELSE @]
      BY <1>5 DEF Serve
    <3>2. CASE what = "ok"
      BY <2>2, <3>1, <3>2
    <3>3. CASE what # "ok"
      BY <3>1, <3>3 DEF TypeOK
    <3> QED BY <3>2, <3>3
  <2> QED BY <2>2, <2>3, <2>4 DEF T!Apply, T!vars
<1>6. ASSUME NEW c \in Call, pc[c] = "waiting", answer[c] # NoAnswer,
             NEW p \in Settled(c), pc' = [pc EXCEPT ![c] = p], applied' = applied
      PROVE  T!Succeed(c) \/ T!Fail(c)
  <2>1. CASE p = "failed"
    BY <1>0, <1>6, <2>1
  <2>2. CASE p = "done"
    <3>1. answer[c].what = "ok"
      BY <2>2 DEF Settled
    <3>2. applied[c] = 1
      BY <1>6, <3>1 DEF WireInv, CallInv, AnswerInv
    <3>3. pc' = [pc EXCEPT ![c] = "done"]
      BY <1>6, <2>2
    <3>4. Outcome' = [Outcome EXCEPT ![c] = "done"]
      BY <3>3, Moves
    <3> QED BY <1>6, <3>2, <3>4, Shows DEF T!Succeed
  <2>3. Settled(c) \subseteq {"done", "failed"}
    BY DEF Settled
  <2> QED BY <1>6, <2>1, <2>2, <2>3
<1>7. ASSUME NEW c \in Call, FormAnswered(c)
      PROVE  T!Succeed(c) \/ T!Fail(c) \/ UNCHANGED T!vars
  <2>1. PICK p : /\ pc' = [pc EXCEPT ![c] = p]
                 /\ p \in Settled(c) \cup {"retry", "challenged"}
    BY <1>7 DEF FormAnswered
  <2>2. pc[c] = "waiting" /\ answer[c] # NoAnswer /\ applied' = applied
    BY <1>7 DEF FormAnswered, history
  <2>3. CASE p = "retry"
    BY <2>1, <2>2, <2>3, Unseen
  <2>4. CASE p = "challenged"
    BY <2>1, <2>2, <2>4, Shows, Moves DEF T!Fail
  <2> QED BY <1>6, <2>1, <2>2, <2>3, <2>4
<1>8. ASSUME NEW c \in Call, MintChallenged(c)
      PROVE  T!Fail(c) \/ UNCHANGED T!vars
  <2>1. pc[c] = "waiting" /\ applied' = applied
    BY <1>8 DEF MintChallenged, history
  <2>2. CASE pc' = [pc EXCEPT ![c] = "retry"]
    BY <2>1, <2>2, Unseen
  <2>3. CASE pc' = [pc EXCEPT ![c] = "challenged"]
    BY <2>1, <2>3, Shows, Moves DEF T!Fail
  <2> QED BY <1>8, <2>2, <2>3 DEF MintChallenged
<1>9. ASSUME NEW c \in Call, MintAnswered(c) PROVE T!Succeed(c) \/ T!Fail(c)
  BY <1>6, <1>9 DEF MintAnswered, history
<1>10. ASSUME NEW c \in Call, ConnectionFails(c) PROVE T!Fail(c)
  BY <1>0, <1>10 DEF ConnectionFails, Unanswered, history
<1>11. ASSUME NEW s \in Server, ChangeNonce(s) PROVE UNCHANGED T!vars
  BY <1>11 DEF ChangeNonce, T!vars, Outcome
<1>12. ASSUME NonceOutlived \/ UNCHANGED vars PROVE UNCHANGED T!vars
  BY <1>12 DEF NonceOutlived, vars, caches, wire, history, T!vars, Outcome
<1> QED BY <1>1, <1>2, <1>3, <1>4, <1>5, <1>7, <1>8, <1>9, <1>10, <1>11, <1>12
        DEF Next, ClientStep, TimesOut, T!Next

(* The wire implements TokenCall: however the answers, the nonces and the   *)
(* other calls fall, a call is applied at most once, ends once, and         *)
(* succeeds only when the server applied it.                                *)
THEOREM KeepsPromise == Spec => Promise
<1>1. Init => T!Init
  BY SeenValues DEF Init, T!Init, Outcome
<1> QED BY <1>1, Inductive, PromiseStep, PTL DEF Spec, Promise, T!Spec

=============================================================================
