------------------------------ MODULE OAuthWire ------------------------------
(***************************************************************************)
(* The calls of the sign-in adapter on the wire: the pushed authorization  *)
(* request of a bind, the exchange of a code, the refresh of a session and *)
(* the mint of a service proof.  Calls of several threads run at once and  *)
(* share one client: its caches of the nonces that the authorization       *)
(* server and the PDS ask every proof to carry.  The server side is what   *)
(* RFC 9449 lets it do: it changes its nonce when it likes, asks for it or *)
(* accepts an older one, and its answers may be lost.                      *)
(***************************************************************************)
EXTENDS Naturals, Sequences

CONSTANTS
  Call,          \* the calls made, each of them once
  AuthServer,    \* the authorization server
  Pds,           \* the PDS of the bound account
  Nobody,        \* the issuer of no nonce
  MaxNonces      \* bound: nonces a server uses

ASSUME OAuthWireAssumption ==
  /\ MaxNonces \in Nat \ {0}
  /\ AuthServer # Pds /\ Nobody \notin {AuthServer, Pds}

VARIABLES
  current,          \* the nonce each server asks for now
  dpop_nonces,      \* the authorization server's cached nonce
  resource_nonces,  \* the PDS's cached nonce, and whether its TTL ran out
  kind, pc,         \* what each call is, and where it stands
  todo,             \* the documents it has yet to read
  nonce, retried,   \* the nonce it holds; whether it asked a second time
  request, answer,  \* what it has on the wire
  applied,          \* history: how often the server applied each call
  excused           \* history: the server has itself spoilt a call's retry

caches == <<dpop_nonces, resource_nonces>>
wire == <<request, answer>>
history == <<applied, excused>>
vars == <<current, caches, kind, pc, todo, nonce, retried, wire, history>>

-----------------------------------------------------------------------------
Server == {AuthServer, Pds}

Nonce == [by: Server \cup {Nobody}, n: 0..MaxNonces]
NoNonce == [by |-> Nobody, n |-> 0]

(* A bind that starts from a handle discovers its server first; any other   *)
(* form (the default bind, the exchange, the refresh) reads the server's    *)
(* metadata; a mint asks at once.                                           *)
Kind == {"bind_by_handle", "form", "mint"}

Plan(k) ==
  CASE k = "bind_by_handle" -> <<"resolver", "document", "resource", "metadata">>
    [] k = "form" -> <<"metadata">>
    [] k = "mint" -> <<>>

ServerOf(k) == IF k = "mint" THEN Pds ELSE AuthServer

NoAnswer == [what |-> "none", nonce |-> NoNonce]

Ended == {"done", "failed", "challenged"}

-----------------------------------------------------------------------------
(* The reads before the form: each is one bounded GET.                      *)

Begin(c, k) ==
  /\ pc[c] = "idle"
  /\ pc' = [pc EXCEPT ![c] = "reading"]
  /\ kind' = [kind EXCEPT ![c] = k]
  /\ todo' = [todo EXCEPT ![c] = Plan(k)]
  /\ UNCHANGED <<current, caches, nonce, retried, wire, history>>

(* The document is there and names what the next read needs.                *)
GetAnswered(c) ==
  /\ pc[c] = "reading"
  /\ todo[c] # <<>>
  /\ todo' = [todo EXCEPT ![c] = Tail(@)]
  /\ UNCHANGED <<current, caches, kind, pc, nonce, retried, wire, history>>

(* A resolver that does not know the handle, or cannot be reached, leaves   *)
(* the handle's own well-known document to be asked.                        *)
FallBack(c) ==
  /\ pc[c] = "reading"
  /\ todo[c] # <<>> /\ Head(todo[c]) = "resolver"
  /\ todo' = [todo EXCEPT ![c] = <<"well-known">> \o Tail(@)]
  /\ UNCHANGED <<current, caches, kind, pc, nonce, retried, wire, history>>

(* A refusal, an unusable document or a timeout ends the call; so does an   *)
(* unusable code, refresh token, key or redirect.                           *)
GetFails(c) ==
  /\ pc[c] = "reading"
  /\ pc' = [pc EXCEPT ![c] = "failed"]
  /\ UNCHANGED <<current, caches, kind, todo, nonce, retried, wire, history>>

-----------------------------------------------------------------------------
(* Asking.                                                                  *)

(* Mutant: the mint takes the nonce of the authorization server.            *)
CachedAnywhere(k) == dpop_nonces

(* The nonce the first request carries: an outlived one is not trusted.     *)
Cached(k) ==
  IF k # "mint" THEN dpop_nonces
  ELSE IF resource_nonces.old THEN NoNonce ELSE resource_nonces.nonce

Ask(c) ==
  /\ pc[c] = "reading"
  /\ todo[c] = <<>>
  /\ pc' = [pc EXCEPT ![c] = "waiting"]
  /\ request' = [request EXCEPT ![c] = "sent"]
  /\ nonce' = [nonce EXCEPT ![c] = Cached(kind[c])]
  /\ UNCHANGED <<current, caches, kind, todo, retried, answer, history>>

(* Mutant: the retry takes its nonce from the shared cache.                 *)
NonceFromCache(c) == Cached(kind[c])

(* The retry carries the nonce of the call's own challenge; without one it  *)
(* would carry the nonce that was refused.                                  *)
NonceOfRetry(c) == nonce[c]

(* The same form once more, under a new proof.                              *)
AskAgain(c) ==
  /\ pc[c] = "retry"
  /\ pc' = [pc EXCEPT ![c] = "waiting"]
  /\ request' = [request EXCEPT ![c] = "sent"]
  /\ nonce' = [nonce EXCEPT ![c] = NonceOfRetry(c)]
  /\ retried' = [retried EXCEPT ![c] = TRUE]
  /\ UNCHANGED <<current, caches, kind, todo, answer, history>>

-----------------------------------------------------------------------------
(* The servers (external).                                                  *)

ChangeNonce(s) ==
  /\ current[s] < MaxNonces
  /\ current' = [current EXCEPT ![s] = @ + 1]
  /\ excused' = [c \in Call |-> excused[c] \/ ServerOf(kind[c]) = s]
  /\ UNCHANGED <<caches, kind, pc, todo, nonce, retried, wire, applied>>

NonceNow(c) ==
  [by |-> ServerOf(kind[c]), n |-> current[ServerOf(kind[c])]]

(* A request is served, even when its caller gave up.  A nonce that is not  *)
(* the current one may be refused; any answer may name the current one.     *)
(* Only a refusal for the nonce that names the current one can be cured.    *)
Serve(c) ==
  \E what \in {"ok", "refused", "unauthorized", "challenge"},
     named \in {NoNonce, NonceNow(c)} :
    /\ request[c] = "sent"
    /\ what = "challenge" => nonce[c] # NonceNow(c)
    /\ request' = [request EXCEPT ![c] = "none"]
    /\ answer' = [answer EXCEPT ![c] = [what |-> what, nonce |-> named]]
    /\ applied' = [applied EXCEPT ![c] = IF what = "ok" THEN @ + 1 ELSE @]
    /\ excused' = [excused EXCEPT ![c] =
                     \/ what # "challenge"
                     \/ IF retried[c] THEN @ ELSE named = NoNonce]
    /\ UNCHANGED <<current, caches, kind, pc, todo, nonce, retried>>

-----------------------------------------------------------------------------
(* What the client makes of an answer.                                      *)

(* Mutant: no bound on the retries.                                         *)
MayRetryAlways(c) == TRUE

MayRetry(c) == ~retried[c]

(* An answer that ends the call: an accepted one may be unusable.           *)
Settled(c) == IF answer[c].what = "ok" THEN {"done", "failed"} ELSE {"failed"}

(* form_post: every answer's nonce is remembered, and a refusal for the     *)
(* nonce is retried once, when there is a nonce to retry with.              *)
FormAnswered(c) ==
  LET held == IF answer[c].nonce # NoNonce THEN answer[c].nonce ELSE nonce[c]
  IN
  /\ pc[c] = "waiting" /\ answer[c] # NoAnswer
  /\ kind[c] # "mint"
  /\ dpop_nonces' = IF answer[c].nonce # NoNonce THEN held ELSE dpop_nonces
  /\ nonce' = [nonce EXCEPT ![c] = held]
  /\ \E next \in (IF answer[c].what # "challenge" THEN Settled(c)
                   ELSE IF MayRetry(c) /\ held # NoNonce THEN {"retry"}
                   ELSE {"challenged"}) :
       pc' = [pc EXCEPT ![c] = next]
  /\ answer' = [answer EXCEPT ![c] = NoAnswer]
  /\ UNCHANGED <<current, resource_nonces, kind, todo, retried, request, history>>

(* mint takes any 401 that names a nonce for a challenge.                   *)
TakenForChallenge(c) ==
  /\ answer[c].what \in {"challenge", "unauthorized"}
  /\ answer[c].nonce # NoNonce

(* get_service_auth: the first challenge is remembered and retried, the     *)
(* second is the outcome.                                                   *)
MintChallenged(c) ==
  /\ pc[c] = "waiting" /\ kind[c] = "mint"
  /\ TakenForChallenge(c)
  /\ IF MayRetry(c)
       THEN /\ resource_nonces' = [nonce |-> answer[c].nonce, old |-> FALSE]
            /\ nonce' = [nonce EXCEPT ![c] = answer[c].nonce]
            /\ pc' = [pc EXCEPT ![c] = "retry"]
       ELSE /\ pc' = [pc EXCEPT ![c] = "challenged"]
            /\ UNCHANGED <<resource_nonces, nonce>>
  /\ answer' = [answer EXCEPT ![c] = NoAnswer]
  /\ UNCHANGED <<current, dpop_nonces, kind, todo, retried, request, history>>

MintAnswered(c) ==
  /\ pc[c] = "waiting" /\ kind[c] = "mint"
  /\ answer[c] # NoAnswer /\ ~TakenForChallenge(c)
  /\ \E next \in Settled(c) : pc' = [pc EXCEPT ![c] = next]
  /\ answer' = [answer EXCEPT ![c] = NoAnswer]
  /\ UNCHANGED <<current, caches, kind, todo, nonce, retried, request, history>>

(* Mutant: a request that got no answer is sent once more.                  *)
AfterNoAnswer(c) == IF MayRetry(c) THEN "retry" ELSE "failed"

Unanswered(c) == "failed"

(* The connection breaks, before or within the answer: an error, and no     *)
(* retry.  The request may be on its way still.                             *)
ConnectionFails(c) ==
  /\ pc[c] = "waiting"
  /\ pc' = [pc EXCEPT ![c] = Unanswered(c)]
  /\ answer' = [answer EXCEPT ![c] = NoAnswer]
  /\ UNCHANGED <<current, caches, kind, todo, nonce, retried, request, history>>

(* READ_TIMEOUT, which the mint does not set.                               *)
TimesOut(c) == kind[c] # "mint" /\ ConnectionFails(c)

(* RESOURCE_NONCE_TTL_SECS pass.                                            *)
NonceOutlived ==
  /\ resource_nonces.nonce # NoNonce /\ ~resource_nonces.old
  /\ resource_nonces' = [resource_nonces EXCEPT !.old = TRUE]
  /\ UNCHANGED <<current, dpop_nonces, kind, pc, todo, nonce, retried, wire,
                 history>>

-----------------------------------------------------------------------------
Init ==
  /\ current = [s \in Server |-> 1]
  /\ dpop_nonces = NoNonce
  /\ resource_nonces = [nonce |-> NoNonce, old |-> FALSE]
  /\ kind = [c \in Call |-> "form"]
  /\ pc = [c \in Call |-> "idle"]
  /\ todo = [c \in Call |-> <<>>]
  /\ nonce = [c \in Call |-> NoNonce]
  /\ retried = [c \in Call |-> FALSE]
  /\ request = [c \in Call |-> "none"]
  /\ answer = [c \in Call |-> NoAnswer]
  /\ applied = [c \in Call |-> 0]
  /\ excused = [c \in Call |-> FALSE]

ClientStep(c) ==
  \/ GetAnswered(c) \/ FallBack(c) \/ GetFails(c)
  \/ Ask(c) \/ AskAgain(c)
  \/ FormAnswered(c) \/ MintChallenged(c) \/ MintAnswered(c) \/ TimesOut(c)

Next ==
  \/ \E c \in Call, k \in Kind : Begin(c, k)
  \/ \E c \in Call : ClientStep(c) \/ ConnectionFails(c) \/ Serve(c)
  \/ \E s \in Server : ChangeNonce(s)
  \/ NonceOutlived

Spec == Init /\ [][Next]_vars

(* The calling threads run, and every read and form has a timeout.  Nothing *)
(* is assumed of the servers, nor of a mint that waits.                     *)
Fairness == \A c \in Call : WF_vars(ClientStep(c))

FairSpec == Spec /\ Fairness

-----------------------------------------------------------------------------
(* Properties.                                                              *)

Document == {"resolver", "well-known", "document", "resource", "metadata"}

Answer ==
  [what: {"none", "ok", "refused", "unauthorized", "challenge"}, nonce: Nonce]

(* Every variable has the shape of the code's structures; a cache holds,    *)
(* and a request or an answer carries, no nonce but of the server it is     *)
(* about ("the PDS's never mixes with the authorization server's").         *)
TypeOK ==
  /\ current \in [Server -> 1..MaxNonces]
  /\ dpop_nonces \in Nonce /\ dpop_nonces.by # Pds
  /\ resource_nonces \in [nonce: Nonce, old: BOOLEAN]
  /\ resource_nonces.nonce.by # AuthServer
  /\ kind \in [Call -> Kind]
  /\ pc \in [Call -> {"idle", "reading", "waiting", "retry"} \cup Ended]
  /\ todo \in [Call -> Seq(Document)]
  /\ nonce \in [Call -> Nonce]
  /\ retried \in [Call -> BOOLEAN]
  /\ request \in [Call -> {"none", "sent"}]
  /\ answer \in [Call -> Answer]
  /\ \A c \in Call : {nonce[c].by, answer[c].nonce.by}
                      \subseteq {ServerOf(kind[c]), Nobody}
  /\ applied \in [Call -> Nat]
  /\ excused \in [Call -> BOOLEAN]

(* "A stale nonce costs exactly that — the retry recovers; never a failure" *)
(* (RESOURCE_NONCE_TTL_SECS): whatever the other calls leave in the caches  *)
(* meanwhile, a call ends on a nonce challenge only if, after the call's    *)
(* first request was served, the server changed its nonce again, if that    *)
(* first refusal named none, or if a refusal was not about the nonce.       *)
RetryRecovers ==
  \A c \in Call : pc[c] = "challenged" => excused[c]

(* How far a call is, as its caller sees it.                                *)
Seen(p) ==
  CASE p = "idle" -> "idle"
    [] p = "done" -> "done"
    [] p \in {"failed", "challenged"} -> "failed"
    [] OTHER -> "open"

Outcome == [c \in Call |-> Seen(pc[c])]

T == INSTANCE TokenCall WITH state <- Outcome

(* A form that may have been applied is never sent again, and a call        *)
(* succeeds only when it was: the wire keeps the promise that the grants of *)
(* the custody rest on.                                                     *)
Promise == T!Spec

(* Every call but a mint ends, whatever the server does.                    *)
CallsEnd ==
  \A c \in Call :
    pc[c] # "idle" /\ kind[c] # "mint" ~> pc[c] \in Ended

=============================================================================
