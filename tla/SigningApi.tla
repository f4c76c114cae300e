----------------------------- MODULE SigningApi ------------------------------
(***************************************************************************)
(* POST /v1/sign/{key_id}: from the bearer credential to the signature     *)
(* (src/api.rs, create_signature; src/auth.rs, authenticate).              *)
(*                                                                         *)
(* It composes the parts of the server.  Keys are unlocked as KeyStoreSpec *)
(* says, which KeyUnlock implements.  Sessions come from the exchange of   *)
(* DeviceOAuth, tokens are spent as in OidcReplay and checked with a key   *)
(* that JwksCache found; here these are single steps.  Identities and      *)
(* policies are those of SigningPolicy.  A request suspends only while it  *)
(* authenticates, and only there can its client make it disappear; what    *)
(* follows runs to its end on one thread, next to all the others.  A       *)
(* restart loads a configuration anew and forgets everything else.         *)
(***************************************************************************)
EXTENDS SigningPolicy, Naturals, Sequences, FiniteSets

CONSTANTS
  Keys, Rings, Passphrases, KeyState, RingKeys, Opens,  \* of the key store
  OtherKeys,     \* well-formed key ids that are not configured; Blank is a malformed one
  Configs,       \* configuration files the service may be started with
  Claims,        \* the claims of the OIDC tokens in use; each has its own jti
  SessionTokens, \* signer session tokens
  Requests,      \* concurrent requests
  Bodies,        \* what requests contain, a subset of BodyKinds
  SessionTtl,    \* oauth_session_ttl_seconds
  MaxStall,      \* the longest time from the read of the clock to the answer
  MaxTime,       \* bound on the clock
  MaxLives       \* bound on the number of starts

\* A body sent without the JSON content type; one that is not a SigningRequest; one
\* whose digest is not 32 bytes in base64; a good one.
BodyKinds == {"not_json", "malformed", "bad_digest", "digest"}

SignRequest ==
  [cred : Claims \cup SessionTokens \cup {None}, key : Keys \cup OtherKeys \cup {Blank},
   body : Bodies]

ASSUME SigningApiAssumption ==
  /\ KeyState \in [Keys -> {"active", "disabled", "retired"}]
  /\ \A g \in Rings : RingKeys[g] \in Seq(Keys)
  /\ Keys \cap OtherKeys = {} /\ Blank \notin Keys \cup OtherKeys
  /\ Bodies \subseteq BodyKinds
  /\ SessionTtl \in Nat \ {0} /\ MaxStall \in Nat /\ MaxTime \in Nat /\ MaxLives \in Nat \ {0}
  /\ None \notin Claims \cup SessionTokens /\ Claims \cap SessionTokens = {}
  /\ \A c \in Configs :
       /\ None \notin DOMAIN c.identity
       /\ None \notin [identity : DOMAIN c.identity, at : Nat, life : Nat]
  /\ \E c \in Configs : ValidConfig(c, Keys)

VARIABLES
  life,       \* how many times the service was started
  config,     \* the configuration it runs with
  single, whole, broken,  \* the key store
  sessions,   \* oauth_sessions: sessions[s] has an identity and an expiry, or is None
  minted,     \* history: for whom, when and in which life s was minted, or None
  spent,      \* seen_jtis: tokens accepted in this life; OidcReplay has when they are pruned
  judged,     \* history: tokens whose request was answered after it was authenticated
  pc, req,    \* per request
  readNow,    \* per request: the instant read before the session lock
  principal,  \* per request: the identity that was authenticated
  reply,      \* per request: the error slug it was answered with last, or "ok"
  now

storeVars == <<single, whole, broken>>
authVars == <<sessions, minted, spent, judged>>
slotVars == <<pc, req, readNow, principal, reply>>
vars == <<life, config, storeVars, authVars, slotVars, now>>

Store == INSTANCE KeyStoreSpec

IsSession(r) == req[r].cred \in SessionTokens
IsToken(r) == req[r].cred \in Claims

Slug == {"none", "ok", "unsupported", "unauthorized", "unavailable", "not_authorized",
         "replayed", "malformed", "policy_denied", "unknown_key", "key_state", "key_locked",
         "bad_digest", "context", "failed"}

\* Types, and the link between the tables: what a session or a request names is an
\* identity of the configuration that is loaded now.
TypeOK ==
  /\ life \in 1 .. MaxLives
  /\ config \in Configs
  /\ single \subseteq Keys /\ whole \subseteq Keys /\ broken \subseteq Keys
  /\ sessions \in [SessionTokens -> [identity : DOMAIN config.identity, exp : Nat] \cup {None}]
  /\ \A s \in SessionTokens : minted[s] # None => minted[s].life \in 1 .. life
  /\ spent \subseteq Claims /\ judged \subseteq Claims
  /\ pc \in [Requests -> {"idle", "session", "token", "parse", "sign"}]
  /\ req \in [Requests -> SignRequest \cup {None}]
  /\ \A r \in Requests : pc[r] # "idle" => req[r] \in SignRequest
  /\ readNow \in [Requests -> 0 .. now]
  /\ principal \in [Requests -> DOMAIN config.identity \cup {None}]
  /\ \A r \in Requests : pc[r] \in {"parse", "sign"} => principal[r] # None
  /\ reply \in [Requests -> Slug]
  /\ now \in 0 .. MaxTime

\* Config::load accepts only a valid configuration; all keys are locked.
Init ==
  /\ life = 1
  /\ config \in {c \in Configs : ValidConfig(c, Keys)}
  /\ Store!Init
  /\ sessions = [s \in SessionTokens |-> None]
  /\ minted = [s \in SessionTokens |-> None]
  /\ spent = {} /\ judged = {}
  /\ pc = [r \in Requests |-> "idle"]
  /\ req = [r \in Requests |-> None]
  /\ readNow = [r \in Requests |-> 0]
  /\ principal = [r \in Requests |-> None]
  /\ reply = [r \in Requests |-> "none"]
  /\ now = 0

-----------------------------------------------------------------------------
(* A request is answered, or goes on.                                      *)

\* The response is sent and the slot is free.
Answer(r, slug) ==
  /\ pc' = [pc EXCEPT ![r] = "idle"]
  /\ req' = [req EXCEPT ![r] = None]
  /\ readNow' = [readNow EXCEPT ![r] = 0]
  /\ principal' = [principal EXCEPT ![r] = None]
  /\ reply' = [reply EXCEPT ![r] = slug]

\* create_signature up to its only await: the content type is looked at before the
\* credential, and authenticate tells an OIDC token from a session by its shape.
Arrive(r) ==
  /\ pc[r] = "idle"
  /\ \E q \in SignRequest :
       \/ q.body = "not_json" /\ Answer(r, "unsupported")
       \/ q.body # "not_json" /\ q.cred = None /\ Answer(r, "unauthorized")
       \/ /\ q.body # "not_json" /\ q.cred # None
          /\ pc' = [pc EXCEPT ![r] = IF q.cred \in Claims THEN "token" ELSE "session"]
          /\ req' = [req EXCEPT ![r] = q]
          /\ readNow' = [readNow EXCEPT ![r] = now]
          /\ reply' = [reply EXCEPT ![r] = "none"]
          /\ UNCHANGED principal
  /\ UNCHANGED <<life, config, storeVars, authVars, now>>

Authenticated(r, a) ==
  /\ pc' = [pc EXCEPT ![r] = "parse"]
  /\ principal' = [principal EXCEPT ![r] = a]
  /\ UNCHANGED <<req, readNow, reply>>

\* Mutant: the session is taken as it is found, expired or not.
MutantLive(s, t) == sessions[s] # None

\* The filter of authenticate_github_account_session.
Live(s, t) == sessions[s] # None /\ sessions[s].exp > t

\* authenticate_github_account_session, once the read lock is granted.
SessionLookup(r) ==
  LET s == req[r].cred IN
  /\ pc[r] = "session"
  /\ \/ Live(s, readNow[r]) /\ Authenticated(r, sessions[s].identity)
     \/ ~Live(s, readNow[r]) /\ Answer(r, "unauthorized")
  /\ UNCHANGED <<life, config, storeVars, authVars, now>>

\* authenticate_github_actions before its resolution: no verification key, a token
\* that does not decode or has expired; or the replay cache is full.
TokenRejected(r) ==
  /\ pc[r] = "token"
  /\ \E slug \in {"unauthorized", "unavailable"} : Answer(r, slug)
  /\ UNCHANGED <<life, config, storeVars, authVars, now>>

\* Mutant: the jti is recorded before the token is resolved.
MutantTokenResolved(r) ==
  LET c == req[r].cred IN
  /\ pc[r] = "token"
  /\ \/ c \in spent /\ Answer(r, "replayed") /\ UNCHANGED spent
     \/ c \notin spent /\ ~(\E a \in DOMAIN config.identity : Resolves(config, c, a))
        /\ Answer(r, "not_authorized") /\ spent' = spent \cup {c}
     \/ \E a \in DOMAIN config.identity :
          /\ Resolves(config, c, a) /\ c \notin spent
          /\ spent' = spent \cup {c}
          /\ Authenticated(r, a)
  /\ UNCHANGED <<life, config, storeVars, sessions, minted, judged, now>>

\* The rest of authenticate_github_actions, after its last await: the token resolves to
\* an identity and its jti is recorded, or it is refused and nothing is recorded.
TokenResolved(r) ==
  LET c == req[r].cred IN
  /\ pc[r] = "token"
  /\ \/ /\ ~ \E a \in DOMAIN config.identity : Resolves(config, c, a)
        /\ Answer(r, "not_authorized") /\ UNCHANGED spent
     \/ \E a \in DOMAIN config.identity :
          /\ Resolves(config, c, a)
          /\ \/ c \in spent /\ Answer(r, "replayed") /\ UNCHANGED spent
             \/ c \notin spent /\ spent' = spent \cup {c} /\ Authenticated(r, a)
  /\ UNCHANGED <<life, config, storeVars, sessions, minted, judged, now>>

-----------------------------------------------------------------------------
(* Validation and signature.                                               *)

\* is_unlocked: a poisoned lock counts as locked.
Unlocked(k) == k \in Store!usable \ broken

\* The body is parsed, then validate_signing_request; the first check that fails
\* gives the answer.
Verdict(r) ==
  LET k == req[r].key IN
  IF req[r].body = "malformed" THEN "malformed"
  ELSE IF k = Blank THEN "unknown_key"
  ELSE IF ~Authorize(config, principal[r], k) THEN "policy_denied"
  ELSE IF k \notin Keys THEN "unknown_key"
  ELSE IF KeyState[k] # "active" THEN "key_state"
  ELSE IF ~Unlocked(k) THEN "key_locked"
  ELSE IF req[r].body = "bad_digest" THEN "bad_digest"
  ELSE IF IsToken(r) /\ ~SigningContextOk(req[r].cred) THEN "context"
  ELSE "ok"

\* The answer to an authenticated request.
Judge(r, slug) ==
  /\ Answer(r, slug)
  /\ judged' = judged \cup ({req[r].cred} \cap Claims)

\* Mutant: a refused request gives its token back.
MutantValidate(r) ==
  /\ pc[r] = "parse"
  /\ IF Verdict(r) = "ok"
     THEN pc' = [pc EXCEPT ![r] = "sign"] /\ UNCHANGED <<req, readNow, principal, reply, spent, judged>>
     ELSE Judge(r, Verdict(r)) /\ spent' = spent \ {req[r].cred}
  /\ UNCHANGED <<life, config, storeVars, sessions, minted, now>>

Validate(r) ==
  /\ pc[r] = "parse"
  /\ IF Verdict(r) = "ok"
     THEN pc' = [pc EXCEPT ![r] = "sign"] /\ UNCHANGED <<req, readNow, principal, reply, judged>>
     ELSE Judge(r, Verdict(r))
  /\ UNCHANGED <<life, config, storeVars, sessions, minted, spent, now>>

\* sign_digest looks at the key again, through its lock.
Sign(r) ==
  /\ pc[r] = "sign"
  /\ Unlocked(req[r].key)
  /\ Judge(r, "ok")
  /\ UNCHANGED <<life, config, storeVars, sessions, minted, spent, now>>

\* SignError: the lock is poisoned or the primitive fails; or the key is locked.
SignFails(r) ==
  /\ pc[r] = "sign"
  /\ Judge(r, IF req[r].key \in Store!usable \cup broken THEN "failed" ELSE "key_locked")
  /\ UNCHANGED <<life, config, storeVars, sessions, minted, spent, now>>

\* The client goes away while its request is suspended and the handler is dropped.
Cancel(r) ==
  /\ pc[r] \in {"session", "token"}
  /\ Answer(r, "none")
  /\ UNCHANGED <<life, config, storeVars, authVars, now>>

-----------------------------------------------------------------------------
(* The rest of the service, and time.                                      *)

\* An exchange ends with a new session, mint_github_account_session.
Mint(s) ==
  /\ minted[s] = None
  /\ \E a \in DOMAIN config.identity :
       /\ config.identity[a].kind = "account"
       /\ sessions' = [t \in SessionTokens |->
            IF t = s THEN [identity |-> a, exp |-> now + SessionTtl]
            ELSE IF Live(t, now) THEN sessions[t] ELSE None]
       /\ minted' = [minted EXCEPT ![s] = [identity |-> a, at |-> now, life |-> life]]
  /\ UNCHANGED <<life, config, storeVars, spent, judged, slotVars, now>>

KeyStore ==
  /\ Store!Next
  /\ UNCHANGED <<life, config, authVars, slotVars, now>>

DropRequests ==
  /\ pc' = [r \in Requests |-> "idle"]
  /\ req' = [r \in Requests |-> None]
  /\ readNow' = [r \in Requests |-> 0]
  /\ principal' = [r \in Requests |-> None]
  /\ reply' = [r \in Requests |-> "none"]

\* The process ends, at any point, and is started again.
Restart ==
  /\ life < MaxLives
  /\ life' = life + 1
  /\ config' \in {c \in Configs : ValidConfig(c, Keys)}
  /\ single' = {} /\ whole' = {} /\ broken' = {}
  /\ sessions' = [s \in SessionTokens |-> None]
  /\ spent' = {} /\ judged' = {}
  /\ DropRequests
  /\ UNCHANGED <<minted, now>>

Busy(r) == pc[r] \in {"session", "parse", "sign"} /\ IsSession(r)

Tick ==
  /\ now < MaxTime
  /\ \A r \in Requests : Busy(r) => now < readNow[r] + MaxStall
  /\ now' = now + 1
  /\ UNCHANGED <<life, config, storeVars, authVars, slotVars>>

Next ==
  \/ \E r \in Requests :
       \/ Arrive(r) \/ SessionLookup(r) \/ TokenRejected(r) \/ TokenResolved(r)
       \/ Validate(r) \/ Sign(r) \/ SignFails(r) \/ Cancel(r)
  \/ \E s \in SessionTokens : Mint(s)
  \/ KeyStore \/ Restart \/ Tick

Spec == Init /\ [][Next]_vars

-----------------------------------------------------------------------------
(* Properties.                                                             *)

Replies(r, slugs) == pc[r] # "idle" /\ pc'[r] = "idle" /\ reply'[r] \in slugs

Issues(r) == Replies(r, {"ok"})

Ready(k) == k \in Keys /\ KeyState[k] = "active" /\ k \in Store!usable

\* A signature for an OIDC token is only made through the release gate of the
\* configuration (SigningPolicy), and only with an active key that was unlocked since
\* the process was started.  The parts of the gate are checked in three files, when
\* the configuration is loaded, when the token is resolved and when the request is
\* validated.
TokenSignatureGated ==
  [][\A r \in Requests : Issues(r) /\ IsToken(r) =>
       Ready(req[r].key) /\ ReleaseGate(config, req[r].cred, req[r].key)]_vars

\* A signature for a session is made in the process that minted the session, no later
\* than its time to live allows (but for the time the one request took), and with a
\* key that today's policies give to the account the session was minted for.
\* README.md: a restart "invalidates local human sessions".
SessionSignatureGated ==
  [][\A r \in Requests : Issues(r) /\ IsSession(r) =>
       LET m == minted[req[r].cred] IN
       /\ m.life = life /\ now < m.at + SessionTtl + MaxStall
       /\ m.identity \in DOMAIN config.identity
       /\ config.identity[m.identity].kind = "account"
       /\ Authorize(config, m.identity, req[r].key)
       /\ Ready(req[r].key)]_vars

\* The jti is recorded before the body, the policy, the key and the tag are looked at, and
\* stays recorded when one of them is refused.  So, for as long as the cache keeps the
\* record (OidcReplay has how long, and the second it misses), a token gets past
\* authentication with one request in the life of a process, and gets one answer there, a
\* signature or a refusal: a request that came too early (the key is still locked) cannot
\* be repeated with it, nor can two requests that carry it both be judged.
TokenJudgedOnce ==
  [][\A r \in Requests : Replies(r, Slug) /\ pc[r] \in {"parse", "sign"} /\ IsToken(r) /\ life' = life
       => req[r].cred \notin judged]_vars

\* Comment in authenticate_github_actions: "record only after the token resolved to a
\* configured identity, so foreign tokens cannot fill the replay cache".
ForeignTokensNotRecorded ==
  \A c \in spent : \E a \in DOMAIN config.identity : Resolves(config, c, a)
-----------------------------------------------------------------------------
(* The invariant behind the two gates: what each stage of a request has    *)
(* established, and still holds when the next one runs.                    *)

\* A session in the table is of this life, of an account of this configuration, and
\* expires one time to live after it was minted.
SessionsInv ==
  \A s \in SessionTokens : sessions[s] # None =>
    /\ minted[s] # None /\ minted[s].life = life
    /\ minted[s].at \in Nat
    /\ minted[s].identity = sessions[s].identity
    /\ sessions[s].identity \in DOMAIN config.identity
    /\ config.identity[sessions[s].identity].kind = "account"
    /\ sessions[s].exp = minted[s].at + SessionTtl

\* The session that r was authenticated with.
SessionInv(r) ==
  LET m == minted[req[r].cred] IN
  /\ m # None /\ m.life = life
  /\ m.at \in Nat /\ readNow[r] < m.at + SessionTtl
  /\ m.identity = principal[r]
  /\ principal[r] \in DOMAIN config.identity
  /\ config.identity[principal[r]].kind = "account"

RequestInv(r) ==
  /\ pc[r] = "token" => IsToken(r)
  /\ pc[r] = "session" => IsSession(r)
  /\ pc[r] \in {"parse", "sign"} =>
       \/ IsToken(r) /\ Resolves(config, req[r].cred, principal[r])
       \/ IsSession(r) /\ SessionInv(r)
  /\ pc[r] = "sign" =>
       /\ Ready(req[r].key)
       /\ Authorize(config, principal[r], req[r].key)
       /\ IsToken(r) => SigningContextOk(req[r].cred)
  /\ Busy(r) => now <= readNow[r] + MaxStall

\* A token past authentication is spent, has had no answer yet and is with one request.
JudgedInv ==
  /\ judged \subseteq spent
  /\ \A r \in Requests : pc[r] \in {"parse", "sign"} /\ IsToken(r) =>
       /\ req[r].cred \in spent \ judged
       /\ \A q \in Requests \ {r} : pc[q] \in {"parse", "sign"} => req[q].cred # req[r].cred

IndInv ==
  /\ TypeOK
  /\ minted = [s \in SessionTokens |-> minted[s]]
  /\ ValidConfig(config, Keys)
  /\ SessionsInv
  /\ \A r \in Requests : RequestInv(r)
=============================================================================
