-------------------------- MODULE SigningApiProofs --------------------------
(***************************************************************************)
(* The gates of SigningApi, for any number of requests, any set of         *)
(* configuration files and any tokens.                                     *)
(***************************************************************************)
EXTENDS SigningApi, TLAPS

-----------------------------------------------------------------------------
(* IndInv holds initially and is kept by every step.                       *)

LEMMA InitInd == Init => IndInv
<1> SUFFICES ASSUME Init PROVE IndInv
  OBVIOUS
<1> USE SigningApiAssumption
<1>1. TypeOK
  BY DEF Init, TypeOK, Store!Init, Slug
<1>2. minted = [s \in SessionTokens |-> minted[s]]
  BY DEF Init
<1>3. ValidConfig(config, Keys)
  BY DEF Init
<1>4. SessionsInv
  BY DEF Init, SessionsInv
<1>5. ASSUME NEW r \in Requests PROVE RequestInv(r)
  BY DEF Init, RequestInv, Busy
<1> QED
  BY <1>1, <1>2, <1>3, <1>4, <1>5 DEF IndInv

\* What holds of a request is not disturbed by a step that leaves its slot alone.
LEMMA SlotKept ==
  ASSUME IndInv, NEW q \in Requests,
         pc'[q] = pc[q], req'[q] = req[q], readNow'[q] = readNow[q],
         principal'[q] = principal[q],
         UNCHANGED <<life, config, minted, now>>,
         Store!usable \subseteq Store!usable'
  PROVE  RequestInv(q)'
<1>1. RequestInv(q)
  BY DEF IndInv
<1>2. IsToken(q)' = IsToken(q) /\ IsSession(q)' = IsSession(q) /\ Busy(q)' = Busy(q)
  BY DEF IsToken, IsSession, Busy
<1>3. SessionInv(q) => SessionInv(q)'
  BY DEF SessionInv
<1>4. Ready(req[q].key) => Ready(req[q].key)'
  BY DEF Ready
<1> QED
  BY <1>1, <1>2, <1>3, <1>4 DEF RequestInv

\* The tables are not disturbed by a step of a request.
LEMMA SessionsKept ==
  ASSUME SessionsInv, UNCHANGED <<life, config, sessions, minted>>
  PROVE  SessionsInv'
BY DEF SessionsInv

\* An answered request leaves nothing behind.
LEMMA AnswerKeeps ==
  ASSUME IndInv, NEW r \in Requests, NEW slug \in Slug, Answer(r, slug),
         spent' \subseteq Claims, judged' \subseteq Claims,
         UNCHANGED <<life, config, storeVars, sessions, minted, now>>
  PROVE  IndInv'
<1> USE SigningApiAssumption
<1>1. TypeOK /\ TypeOK'
  BY DEF IndInv, TypeOK, Answer, storeVars
<1>2. ASSUME NEW q \in Requests PROVE RequestInv(q)'
  <2>1. CASE q = r
    BY <2>1, <1>1 DEF RequestInv, Answer, TypeOK, Busy
  <2>2. CASE q # r
    <3>1. pc'[q] = pc[q] /\ req'[q] = req[q] /\ readNow'[q] = readNow[q]
          /\ principal'[q] = principal[q]
      BY <2>2, <1>1 DEF Answer, TypeOK
    <3>2. Store!usable' = Store!usable
      BY DEF Store!usable, storeVars
    <3> QED
      BY <3>1, <3>2, SlotKept
  <2> QED
    BY <2>1, <2>2
<1> QED
  BY <1>1, <1>2, SessionsKept DEF IndInv

LEMMA ArriveKeeps ==
  ASSUME IndInv, NEW r \in Requests, Arrive(r)
  PROVE  IndInv'
<1> USE SigningApiAssumption
<1>1. PICK q \in SignRequest :
        \/ q.body = "not_json" /\ Answer(r, "unsupported")
        \/ q.body # "not_json" /\ q.cred = None /\ Answer(r, "unauthorized")
        \/ /\ q.body # "not_json" /\ q.cred # None
           /\ pc' = [pc EXCEPT ![r] = IF q.cred \in Claims THEN "token" ELSE "session"]
           /\ req' = [req EXCEPT ![r] = q]
           /\ readNow' = [readNow EXCEPT ![r] = now]
           /\ reply' = [reply EXCEPT ![r] = "none"]
           /\ UNCHANGED principal
  BY DEF Arrive
<1>2. UNCHANGED <<life, config, storeVars, authVars, now>>
      /\ spent \subseteq Claims /\ judged \subseteq Claims
  BY DEF Arrive, IndInv, TypeOK
<1>3. CASE Answer(r, "unsupported") \/ Answer(r, "unauthorized")
  BY <1>2, <1>3, AnswerKeeps DEF Slug, authVars
<1>4. CASE /\ q.cred # None
           /\ pc' = [pc EXCEPT ![r] = IF q.cred \in Claims THEN "token" ELSE "session"]
           /\ req' = [req EXCEPT ![r] = q]
           /\ readNow' = [readNow EXCEPT ![r] = now]
           /\ reply' = [reply EXCEPT ![r] = "none"]
           /\ UNCHANGED principal
  <2>1. TypeOK
    BY DEF IndInv
  <2>2. TypeOK'
    BY <2>1, <1>2, <1>4 DEF TypeOK, storeVars, authVars, Slug
  <2>3. ASSUME NEW s \in Requests PROVE RequestInv(s)'
    <3>1. CASE s = r
      <4>1. req'[r] = q /\ readNow'[r] = now /\ now' = now /\ now \in Nat
        BY <1>2, <1>4, <2>1 DEF TypeOK
      <4>2. pc'[r] = IF q.cred \in Claims THEN "token" ELSE "session"
        BY <1>4, <2>1 DEF TypeOK
      <4>3. q.cred \in Claims \cup SessionTokens
        BY <1>4 DEF SignRequest
      <4> QED
        BY <3>1, <4>1, <4>2, <4>3 DEF RequestInv, IsToken, IsSession, Busy
    <3>2. CASE s # r
      <4>1. pc'[s] = pc[s] /\ req'[s] = req[s] /\ readNow'[s] = readNow[s]
            /\ principal'[s] = principal[s]
        BY <3>2, <1>4, <2>1 DEF TypeOK
      <4>2. Store!usable' = Store!usable
        BY <1>2 DEF Store!usable, storeVars
      <4> QED
        BY <4>1, <4>2, <1>2, SlotKept DEF authVars
    <3> QED
      BY <3>1, <3>2
  <2> QED
    BY <1>2, <2>2, <2>3, SessionsKept DEF IndInv, authVars
<1> QED
  BY <1>1, <1>3, <1>4

\* Authentication keeps the invariant if it has established what it says it has.
LEMMA AuthenticatedKeeps ==
  ASSUME IndInv, NEW r \in Requests, NEW a \in DOMAIN config.identity,
         pc[r] \in {"session", "token"}, Authenticated(r, a),
         spent' \subseteq Claims, judged' \subseteq Claims,
         UNCHANGED <<life, config, storeVars, sessions, minted, now>>,
         \/ IsToken(r) /\ Resolves(config, req[r].cred, a)
         \/ /\ IsSession(r)
            /\ Live(req[r].cred, readNow[r]) /\ a = sessions[req[r].cred].identity
  PROVE  IndInv'
<1> USE SigningApiAssumption
<1>1. TypeOK /\ SessionsInv /\ RequestInv(r)
  BY DEF IndInv
<1>2. pc'[r] = "parse" /\ principal'[r] = a /\ req' = req /\ readNow' = readNow /\ reply' = reply
  BY <1>1 DEF Authenticated, TypeOK
<1>3. TypeOK'
  BY <1>1, <1>2 DEF TypeOK, Authenticated, storeVars
<1>4. ASSUME NEW q \in Requests PROVE RequestInv(q)'
  <2>1. CASE q = r
    <3>1. IsSession(r) => SessionInv(r)'
      <4> SUFFICES ASSUME IsSession(r) PROVE SessionInv(r)'
        OBVIOUS
      <4>1. req[r].cred \in SessionTokens /\ ~IsToken(r)
        BY DEF IsSession, IsToken
      <4>2. Live(req[r].cred, readNow[r]) /\ a = sessions[req[r].cred].identity
        BY <4>1
      <4> QED
        BY <1>1, <1>2, <4>1, <4>2 DEF SessionInv, SessionsInv, Live
    <3>2. (IsToken(r) <=> IsToken(r)') /\ (IsSession(r) <=> IsSession(r)')
      BY <1>2 DEF IsToken, IsSession
    <3>3. Busy(r)' => now' <= readNow'[r] + MaxStall
      <4> SUFFICES ASSUME Busy(r)' PROVE now' <= readNow'[r] + MaxStall
        OBVIOUS
      <4>1. IsSession(r) /\ ~IsToken(r)
        BY <3>2 DEF Busy, IsSession, IsToken
      <4>2. pc[r] = "session"
        BY <1>1, <4>1 DEF RequestInv
      <4> QED
        BY <1>1, <1>2, <4>1, <4>2 DEF RequestInv, Busy
    <3> QED
      BY <2>1, <1>2, <3>1, <3>2, <3>3 DEF RequestInv
  <2>2. CASE q # r
    <3>1. pc'[q] = pc[q] /\ req'[q] = req[q] /\ readNow'[q] = readNow[q]
          /\ principal'[q] = principal[q]
      BY <2>2, <1>1 DEF Authenticated, TypeOK
    <3>2. Store!usable' = Store!usable
      BY DEF Store!usable, storeVars
    <3> QED
      BY <3>1, <3>2, SlotKept
  <2> QED
    BY <2>1, <2>2
<1> QED
  BY <1>1, <1>3, <1>4, SessionsKept DEF IndInv

LEMMA SessionLookupKeeps ==
  ASSUME IndInv, NEW r \in Requests, SessionLookup(r)
  PROVE  IndInv'
<1>1. UNCHANGED <<life, config, storeVars, sessions, minted, now>>
      /\ spent' \subseteq Claims /\ judged' \subseteq Claims
  BY DEF SessionLookup, authVars, IndInv, TypeOK
<1>2. pc[r] = "session" /\ IsSession(r)
  BY DEF SessionLookup, IndInv, RequestInv
<1>3. CASE Live(req[r].cred, readNow[r]) /\ Authenticated(r, sessions[req[r].cred].identity)
  <2>1. sessions[req[r].cred].identity \in DOMAIN config.identity
    BY <1>2, <1>3 DEF IndInv, SessionsInv, IsSession, Live
  <2> QED
    BY <1>1, <1>2, <1>3, <2>1, AuthenticatedKeeps
<1>4. CASE Answer(r, "unauthorized")
  BY <1>1, <1>4, AnswerKeeps DEF Slug
<1> QED
  BY <1>3, <1>4 DEF SessionLookup

LEMMA TokenResolvedKeeps ==
  ASSUME IndInv, NEW r \in Requests, TokenResolved(r)
  PROVE  IndInv'
<1>1. UNCHANGED <<life, config, storeVars, sessions, minted, judged, now>>
  BY DEF TokenResolved
<1>2. pc[r] = "token" /\ IsToken(r) /\ spent \subseteq Claims /\ judged \subseteq Claims
  BY DEF TokenResolved, IndInv, RequestInv, TypeOK
<1>3. CASE \E slug \in {"not_authorized", "replayed"} : Answer(r, slug) /\ UNCHANGED spent
  BY <1>1, <1>2, <1>3, AnswerKeeps DEF Slug
<1>4. CASE \E a \in DOMAIN config.identity :
             /\ Resolves(config, req[r].cred, a)
             /\ spent' = spent \cup {req[r].cred} /\ Authenticated(r, a)
  <2>1. spent' \subseteq Claims
    BY <1>2, <1>4 DEF IsToken
  <2> QED
    BY <1>1, <1>2, <1>4, <2>1, AuthenticatedKeeps
<1> QED
  BY <1>3, <1>4 DEF TokenResolved

LEMMA ValidateKeeps ==
  ASSUME IndInv, NEW r \in Requests, Validate(r)
  PROVE  IndInv'
<1> USE SigningApiAssumption
<1>1. UNCHANGED <<life, config, storeVars, sessions, minted, now>>
      /\ spent' \subseteq Claims /\ judged' \subseteq Claims
  BY DEF Validate, Judge, IndInv, TypeOK
<1>2. TypeOK /\ SessionsInv /\ RequestInv(r) /\ pc[r] = "parse"
  BY DEF IndInv, Validate
<1>3. Verdict(r) \in Slug
  BY DEF Verdict, Slug
<1>4. CASE Judge(r, Verdict(r))
  BY <1>1, <1>3, <1>4, AnswerKeeps DEF Judge
<1>5. CASE Verdict(r) = "ok" /\ pc' = [pc EXCEPT ![r] = "sign"]
           /\ UNCHANGED <<req, readNow, principal, reply>>
  <2>1. pc'[r] = "sign"
    BY <1>2, <1>5 DEF TypeOK
  <2>2. TypeOK'
    BY <1>1, <1>2, <1>5 DEF TypeOK, storeVars
  <2>3. /\ Authorize(config, principal[r], req[r].key)
        /\ req[r].key \in Keys /\ KeyState[req[r].key] = "active" /\ Unlocked(req[r].key)
        /\ IsToken(r) => SigningContextOk(req[r].cred)
    BY <1>5 DEF Verdict
  <2>4. Ready(req[r].key)
    BY <2>3 DEF Ready, Unlocked
  <2>5. ASSUME NEW q \in Requests PROVE RequestInv(q)'
    <3>1. Store!usable' = Store!usable
      BY <1>1 DEF Store!usable, storeVars
    <3>2. CASE q = r
      <4>1. (IsToken(r) <=> IsToken(r)') /\ (IsSession(r) <=> IsSession(r)')
        BY <1>5 DEF IsToken, IsSession
      <4>2. SessionInv(r) => SessionInv(r)'
        BY <1>1, <1>5 DEF SessionInv
      <4>3. Ready(req[r].key)'
        BY <2>4, <1>1, <1>5, <3>1 DEF Ready
      <4>4. Busy(r)' => Busy(r)
        BY <1>2, <4>1 DEF Busy
      <4> QED
        BY <3>2, <1>1, <1>2, <1>5, <2>1, <2>3, <4>1, <4>2, <4>3, <4>4 DEF RequestInv
    <3>3. CASE q # r
      <4>1. pc'[q] = pc[q]
        BY <3>3, <1>2, <1>5 DEF TypeOK
      <4> QED
        BY <4>1, <3>1, <1>1, <1>5, SlotKept
    <3> QED
      BY <3>2, <3>3
  <2> QED
    BY <1>1, <1>2, <2>2, <2>5, SessionsKept DEF IndInv
<1> QED
  BY <1>4, <1>5 DEF Validate

\* The steps that only answer.
LEMMA AnsweringKeeps ==
  ASSUME IndInv, NEW r \in Requests, TokenRejected(r) \/ Sign(r) \/ SignFails(r) \/ Cancel(r)
  PROVE  IndInv'
<1>1. UNCHANGED <<life, config, storeVars, sessions, minted, now>>
      /\ spent' \subseteq Claims /\ judged' \subseteq Claims
  BY DEF TokenRejected, Sign, SignFails, Cancel, Judge, authVars, IndInv, TypeOK
<1>2. \E slug \in Slug : Answer(r, slug)
  BY DEF TokenRejected, Sign, SignFails, Cancel, Judge, Slug
<1> QED
  BY <1>1, <1>2, AnswerKeeps

LEMMA MintKeeps ==
  ASSUME IndInv, NEW s \in SessionTokens, Mint(s)
  PROVE  IndInv'
<1> USE SigningApiAssumption
<1>1. TypeOK /\ SessionsInv /\ minted = [t \in SessionTokens |-> minted[t]]
  BY DEF IndInv
<1>2. UNCHANGED <<life, config, storeVars, spent, judged, slotVars, now>>
  BY DEF Mint
<1>3. PICK a \in DOMAIN config.identity :
        /\ config.identity[a].kind = "account"
        /\ sessions' = [t \in SessionTokens |->
             IF t = s THEN [identity |-> a, exp |-> now + SessionTtl]
             ELSE IF Live(t, now) THEN sessions[t] ELSE None]
        /\ minted' = [minted EXCEPT ![s] = [identity |-> a, at |-> now, life |-> life]]
  BY DEF Mint
<1>4. minted'[s] = [identity |-> a, at |-> now, life |-> life]
      /\ \A t \in SessionTokens \ {s} : minted'[t] = minted[t]
  BY <1>1, <1>3
<1>5. now \in Nat /\ life \in 1 .. life /\ minted'[s] # None
  BY <1>1, <1>4 DEF TypeOK
<1>6. sessions' \in [SessionTokens -> [identity : DOMAIN config.identity, exp : Nat] \cup {None}]
  BY <1>1, <1>3, <1>5 DEF TypeOK
<1>7. TypeOK'
  BY <1>1, <1>2, <1>4, <1>5, <1>6, SMTT(60) DEF TypeOK, storeVars, slotVars
<1>8. minted' = [t \in SessionTokens |-> minted'[t]]
  BY <1>1, <1>3
<1>9. SessionsInv'
  <2> SUFFICES ASSUME NEW t \in SessionTokens, sessions'[t] # None
               PROVE  /\ minted'[t] # None /\ minted'[t].life = life
                      /\ minted'[t].at \in Nat
                      /\ minted'[t].identity = sessions'[t].identity
                      /\ sessions'[t].identity \in DOMAIN config.identity
                      /\ config.identity[sessions'[t].identity].kind = "account"
                      /\ sessions'[t].exp = minted'[t].at + SessionTtl
    BY <1>2 DEF SessionsInv
  <2>1. CASE t = s
    BY <2>1, <1>3, <1>4, <1>5
  <2>2. CASE t # s
    <3>1. sessions'[t] = sessions[t] /\ minted'[t] = minted[t]
      BY <2>2, <1>3, <1>4
    <3> QED
      BY <3>1, <1>1 DEF SessionsInv
  <2> QED
    BY <2>1, <2>2
<1>10. ASSUME NEW r \in Requests PROVE RequestInv(r)'
  <2>1. RequestInv(r)
    BY DEF IndInv
  <2>2. UNCHANGED <<pc, req, readNow, principal>>
    BY <1>2 DEF slotVars
  <2>3. (IsToken(r) <=> IsToken(r)') /\ (IsSession(r) <=> IsSession(r)') /\ (Busy(r) <=> Busy(r)')
    BY <2>2 DEF IsToken, IsSession, Busy
  <2>4. Ready(req[r].key) => Ready(req[r].key)'
    BY <1>2, <2>2 DEF Ready, Store!usable, storeVars
  <2>5. ASSUME pc[r] \in {"parse", "sign"}, IsSession(r), SessionInv(r) PROVE SessionInv(r)'
    <3>1. CASE req[r].cred = s
      BY <3>1, <2>5 DEF SessionInv, Mint
    <3>2. CASE req[r].cred # s
      <4>1. minted'[req[r].cred] = minted[req[r].cred]
        BY <3>2, <2>5, <1>4 DEF IsSession
      <4> QED
        BY <4>1, <2>5, <1>2, <2>2 DEF SessionInv
    <3> QED
      BY <3>1, <3>2
  <2> QED
    BY <2>1, <2>2, <2>3, <2>4, <2>5, <1>2 DEF RequestInv
<1> QED
  BY <1>2, <1>7, <1>8, <1>9, <1>10 DEF IndInv

\* The key store only grows while the process lives.
LEMMA StoreGrows ==
  ASSUME Store!Next, single \subseteq Keys, whole \subseteq Keys, broken \subseteq Keys,
         \A g \in Rings : RingKeys[g] \in Seq(Keys)
  PROVE  /\ Store!usable \subseteq Store!usable'
         /\ single' \subseteq Keys /\ whole' \subseteq Keys /\ broken' \subseteq Keys
<1>1. CASE \E k \in Keys, p \in Passphrases : Store!UnlockKey(k, p)
  BY <1>1 DEF Store!UnlockKey, Store!usable
<1>2. CASE \E g \in Rings, p \in Passphrases : Store!UnlockRing(g, p)
  <2>1. PICK g \in Rings, p \in Passphrases : Store!UnlockRing(g, p)
    BY <1>2
  <2>2. Store!RingActive(g) \subseteq Keys
    BY DEF Store!RingActive
  <2> QED
    BY <2>1, <2>2 DEF Store!UnlockRing, Store!usable
<1>3. CASE Store!Break
  BY <1>3 DEF Store!Break, Store!usable
<1> QED
  BY <1>1, <1>2, <1>3 DEF Store!Next

LEMMA KeyStoreKeeps ==
  ASSUME IndInv, KeyStore
  PROVE  IndInv'
<1> USE SigningApiAssumption
<1>1. TypeOK /\ SessionsInv
  BY DEF IndInv
<1>2. UNCHANGED <<life, config, authVars, slotVars, now>> /\ Store!Next
  BY DEF KeyStore
<1>3. /\ Store!usable \subseteq Store!usable'
      /\ single' \subseteq Keys /\ whole' \subseteq Keys /\ broken' \subseteq Keys
  BY <1>1, <1>2, StoreGrows DEF TypeOK
<1>4. TypeOK'
  BY <1>1, <1>2, <1>3 DEF TypeOK, authVars, slotVars
<1>5. ASSUME NEW r \in Requests PROVE RequestInv(r)'
  BY <1>2, <1>3, SlotKept DEF authVars, slotVars
<1> QED
  BY <1>1, <1>2, <1>4, <1>5, SessionsKept DEF IndInv, authVars

LEMMA RestartKeeps ==
  ASSUME IndInv, Restart
  PROVE  IndInv'
<1> USE SigningApiAssumption
<1>1. TypeOK
  BY DEF IndInv
<1>2. ValidConfig(config, Keys)' /\ minted' = minted
  BY DEF Restart
<1>3. TypeOK'
  BY <1>1 DEF TypeOK, Restart, DropRequests, Slug
<1>4. SessionsInv'
  BY DEF Restart, SessionsInv
<1>5. ASSUME NEW r \in Requests PROVE RequestInv(r)'
  BY DEF Restart, DropRequests, RequestInv, Busy
<1> QED
  BY <1>2, <1>3, <1>4, <1>5 DEF IndInv

LEMMA TickKeeps ==
  ASSUME IndInv, Tick
  PROVE  IndInv'
<1> USE SigningApiAssumption
<1>1. TypeOK /\ SessionsInv
  BY DEF IndInv
<1>2. UNCHANGED <<life, config, storeVars, authVars, slotVars>> /\ now' = now + 1 /\ now < MaxTime
  BY DEF Tick
<1>3. TypeOK'
  BY <1>1, <1>2 DEF TypeOK, storeVars, authVars, slotVars
<1>4. ASSUME NEW r \in Requests PROVE RequestInv(r)'
  <2>1. RequestInv(r)
    BY DEF IndInv
  <2>2. UNCHANGED <<pc, req, readNow, principal, life, config, single, whole, minted>>
    BY <1>2 DEF slotVars, storeVars, authVars
  <2>3. (IsToken(r) <=> IsToken(r)') /\ (IsSession(r) <=> IsSession(r)') /\ (Busy(r) <=> Busy(r)')
    BY <2>2 DEF IsToken, IsSession, Busy
  <2>4. SessionInv(r) => SessionInv(r)'
    BY <2>2 DEF SessionInv
  <2>5. Ready(req[r].key) => Ready(req[r].key)'
    BY <2>2 DEF Ready, Store!usable
  <2>6. Busy(r)' => now' <= readNow'[r] + MaxStall
    BY <2>2, <2>3, <1>1 DEF Tick, TypeOK
  <2> QED
    BY <2>1, <2>2, <2>3, <2>4, <2>5, <2>6 DEF RequestInv
<1> QED
  BY <1>1, <1>2, <1>3, <1>4, SessionsKept DEF IndInv, authVars

LEMMA NextInd == IndInv /\ [Next]_vars => IndInv'
<1> SUFFICES ASSUME IndInv, [Next]_vars PROVE IndInv'
  OBVIOUS
<1>1. ASSUME NEW r \in Requests,
             \/ Arrive(r) \/ SessionLookup(r) \/ TokenRejected(r) \/ TokenResolved(r)
             \/ Validate(r) \/ Sign(r) \/ SignFails(r) \/ Cancel(r)
      PROVE  IndInv'
  BY <1>1, ArriveKeeps, SessionLookupKeeps, TokenResolvedKeeps, ValidateKeeps, AnsweringKeeps
<1>2. ASSUME NEW s \in SessionTokens, Mint(s) PROVE IndInv'
  BY <1>2, MintKeeps
<1>3. CASE KeyStore
  BY <1>3, KeyStoreKeeps
<1>4. CASE Restart
  BY <1>4, RestartKeeps
<1>5. CASE Tick
  BY <1>5, TickKeeps
<1>6. CASE UNCHANGED vars
  <2>1. UNCHANGED <<life, config, single, whole, broken, sessions, minted, spent, judged,
                    pc, req, readNow, principal, reply, now>>
    BY <1>6 DEF vars, storeVars, authVars, slotVars
  <2> QED
    BY <2>1, SlotKept, SessionsKept DEF IndInv, TypeOK, Store!usable
<1> QED
  BY <1>1, <1>2, <1>3, <1>4, <1>5, <1>6 DEF Next

-----------------------------------------------------------------------------
(* Theorems.                                                               *)

LEMMA Inductive == Spec => []IndInv
BY InitInd, NextInd, PTL DEF Spec

\* Types, and that sessions and requests only name identities of the configuration
\* that is loaded, whatever was configured before a restart.
THEOREM TypeCorrect == Spec => []TypeOK
<1>1. IndInv => TypeOK
  BY DEF IndInv
<1> QED
  BY <1>1, Inductive, PTL

\* The slugs that only the end of create_signature uses.
LateSlugs == {"key_state", "key_locked", "bad_digest", "context", "failed", "ok", "unknown_key"}

\* Only the validation of a request and its signature answer with them.
LEMMA LateReplies ==
  ASSUME IndInv, [Next]_vars, NEW r \in Requests, Replies(r, LateSlugs)
  PROVE  Sign(r) \/ SignFails(r) \/ (Validate(r) /\ Verdict(r) # "ok" /\ reply'[r] = Verdict(r))
<1>0. TypeOK /\ pc[r] # "idle" /\ pc'[r] = "idle" /\ reply'[r] \in LateSlugs
  BY DEF IndInv, Replies
<1>1. ASSUME NEW q \in Requests, NEW slug, Answer(q, slug) PROVE q = r /\ slug = reply'[r]
  BY <1>0, <1>1 DEF Answer, TypeOK
<1>2. ASSUME NEW q \in Requests, NEW a, Authenticated(q, a) PROVE FALSE
  BY <1>0, <1>2 DEF Authenticated, TypeOK
<1>3. ASSUME NEW q \in Requests, NEW slug, Answer(q, slug), slug \notin LateSlugs PROVE FALSE
  BY <1>0, <1>1, <1>3
<1>4. {"none", "unsupported", "unauthorized", "unavailable", "not_authorized", "replayed"}
        \cap LateSlugs = {}
  BY DEF LateSlugs
<1>5. ASSUME NEW q \in Requests, Arrive(q) PROVE FALSE
  <2>1. CASE Answer(q, "unsupported") \/ Answer(q, "unauthorized")
    BY <2>1, <1>3, <1>4
  <2>2. CASE /\ pc' \in {[pc EXCEPT ![q] = "token"], [pc EXCEPT ![q] = "session"]}
    BY <2>2, <1>0 DEF TypeOK
  <2> QED
    BY <1>5, <2>1, <2>2 DEF Arrive
<1>6. ASSUME NEW q \in Requests,
             SessionLookup(q) \/ TokenRejected(q) \/ TokenResolved(q) \/ Cancel(q)
      PROVE  FALSE
  BY <1>6, <1>2, <1>3, <1>4 DEF SessionLookup, TokenRejected, TokenResolved, Cancel
<1>7. ASSUME NEW q \in Requests, Validate(q)
      PROVE  Validate(r) /\ Verdict(r) # "ok" /\ reply'[r] = Verdict(r)
  <2>1. CASE Verdict(q) # "ok" /\ Judge(q, Verdict(q))
    BY <1>7, <2>1, <1>1 DEF Judge
  <2>2. CASE pc' = [pc EXCEPT ![q] = "sign"]
    BY <2>2, <1>0 DEF TypeOK
  <2> QED
    BY <1>7, <2>1, <2>2 DEF Validate
<1>8. ASSUME NEW q \in Requests, Sign(q) \/ SignFails(q) PROVE q = r
  BY <1>1, <1>8 DEF Sign, SignFails, Judge
<1>9. ASSUME UNCHANGED pc PROVE FALSE
  BY <1>0, <1>9
<1>10. ASSUME NEW s \in SessionTokens, Mint(s) PROVE FALSE
  BY <1>9, <1>10 DEF Mint, slotVars
<1>11. ASSUME KeyStore \/ Tick \/ UNCHANGED vars PROVE FALSE
  BY <1>9, <1>11 DEF KeyStore, Tick, vars, slotVars
<1>12. ASSUME Restart PROVE FALSE
  BY <1>0, <1>4, <1>12 DEF Restart, DropRequests
<1> QED
  BY <1>5, <1>6, <1>7, <1>8, <1>10, <1>11, <1>12 DEF Next

\* Only a step of Sign answers with a signature.
LEMMA OnlySignIssues ==
  ASSUME IndInv, [Next]_vars, NEW r \in Requests, Issues(r)
  PROVE  Sign(r)
<1>1. TypeOK /\ reply'[r] = "ok" /\ Replies(r, LateSlugs)
  BY DEF IndInv, Issues, Replies, LateSlugs
<1>2. ~SignFails(r)
  BY <1>1 DEF SignFails, Judge, Answer, TypeOK
<1> QED
  BY <1>1, <1>2, LateReplies

\* The checks that config.rs, auth.rs, authorization.rs and api.rs make, each on its
\* own, add up to the release gate.
LEMMA ChecksMakeGate ==
  ASSUME NEW conf, NEW c, NEW a, NEW k, NEW keys,
         ValidConfig(conf, keys), Resolves(conf, c, a), Authorize(conf, a, k), SigningContextOk(c)
  PROVE  ReleaseGate(conf, c, k)
<1> DEFINE i == conf.identity[a]
<1>1. a \in DOMAIN conf.identity /\ MatchesActions(i, c)
  BY DEF Resolves, Matching
<1>2. PICK p \in conf.policies : p.identity = a /\ ("*" \in p.keys \/ k \in p.keys)
  BY DEF Authorize
<1>3. i.kind = "actions" /\ i.repoId = c.repoId /\ (i.repo # None => Lower[i.repo] = Lower[c.repo])
  BY <1>1 DEF MatchesActions
<1>4. i.workflow # None /\ i.env # None
  BY <1>2, <1>3 DEF ValidConfig, ValidPolicy
<1>5. ValidIdentity(i)
  BY <1>1 DEF ValidConfig
<1>6. ValidateActionsIdentity(i)
  BY <1>3, <1>5 DEF ValidIdentity
<1>7. Constrained(i)
  BY <1>4 DEF Constrained
<1>8. i.workflow \in WorkflowPaths /\ i.env # Blank /\ (i.shas # None => i.shas # {})
  BY <1>6, <1>7 DEF ValidateActionsIdentity
<1>9. /\ c.event \in i.events
      /\ c.workflowRef = <<c.repo, i.workflow, c.ref>>
      /\ c.env = i.env
      /\ i.runner # None => c.runner = i.runner
      /\ i.shas \notin {None, {}} => c.sha # None /\ \E s \in i.shas : Lower[s] = Lower[c.sha]
  BY <1>1, <1>4 DEF MatchesActions
<1>10. c.refType = "tag" /\ c.ref \in TagRefs /\ c.protected \in {"true", "text_true"}
  BY DEF SigningContextOk, ClaimIsTrue
<1>11. \A b \in DOMAIN conf.identity : MatchesActions(conf.identity[b], c) => b = a
  BY DEF Resolves, Matching
<1>12. p.keys \cap {"*", k} # {}
  BY <1>2
<1> QED
  BY <1>1, <1>2, <1>3, <1>4, <1>8, <1>9, <1>10, <1>11, <1>12 DEF ReleaseGate

\* A signature for an OIDC token is only made through the release gate, with an
\* active key that has been unlocked: for any configuration file that Config::load
\* accepts, any tokens, any number of concurrent requests and restarts.
THEOREM TokensGated == Spec => TokenSignatureGated
<1>1. ASSUME IndInv, [Next]_vars, NEW r \in Requests, Issues(r), IsToken(r)
      PROVE  Ready(req[r].key) /\ ReleaseGate(config, req[r].cred, req[r].key)
  <2>1. pc[r] = "sign" /\ RequestInv(r) /\ ValidConfig(config, Keys)
    BY <1>1, OnlySignIssues DEF Sign, IndInv
  <2>2. ~IsSession(r)
    BY <1>1, SigningApiAssumption DEF IsToken, IsSession
  <2>3. /\ Resolves(config, req[r].cred, principal[r])
        /\ Authorize(config, principal[r], req[r].key)
        /\ SigningContextOk(req[r].cred) /\ Ready(req[r].key)
    BY <1>1, <2>1, <2>2 DEF RequestInv
  <2> QED
    BY <2>1, <2>3, ChecksMakeGate
<1>2. IndInv /\ [Next]_vars =>
        [\A r \in Requests : Issues(r) /\ IsToken(r) =>
           Ready(req[r].key) /\ ReleaseGate(config, req[r].cred, req[r].key)]_vars
  BY <1>1
<1> QED
  BY <1>2, Inductive, PTL DEF Spec, TokenSignatureGated

\* A signature for a session is made in the life that minted the session, within its
\* time to live and for an account that the policies of that life allow the key.
THEOREM SessionsGated == Spec => SessionSignatureGated
<1> USE SigningApiAssumption
<1>1. ASSUME IndInv, [Next]_vars, NEW r \in Requests, Issues(r), IsSession(r)
      PROVE  LET m == minted[req[r].cred] IN
             /\ m.life = life /\ now < m.at + SessionTtl + MaxStall
             /\ m.identity \in DOMAIN config.identity
             /\ config.identity[m.identity].kind = "account"
             /\ Authorize(config, m.identity, req[r].key)
             /\ Ready(req[r].key)
  <2>1. pc[r] = "sign" /\ RequestInv(r) /\ TypeOK
    BY <1>1, OnlySignIssues DEF Sign, IndInv
  <2>2. ~IsToken(r) /\ Busy(r)
    BY <1>1, <2>1 DEF IsToken, IsSession, Busy
  <2>3. SessionInv(r) /\ now <= readNow[r] + MaxStall
        /\ Authorize(config, principal[r], req[r].key) /\ Ready(req[r].key)
    BY <2>1, <2>2 DEF RequestInv
  <2>4. now \in Nat /\ readNow[r] \in Nat
    BY <2>1 DEF TypeOK
  <2> QED
    BY <2>3, <2>4 DEF SessionInv
<1>2. IndInv /\ [Next]_vars =>
        [\A r \in Requests : Issues(r) /\ IsSession(r) =>
           LET m == minted[req[r].cred] IN
           /\ m.life = life /\ now < m.at + SessionTtl + MaxStall
           /\ m.identity \in DOMAIN config.identity
           /\ config.identity[m.identity].kind = "account"
           /\ Authorize(config, m.identity, req[r].key)
           /\ Ready(req[r].key)]_vars
  BY <1>1
<1> QED
  BY <1>2, Inductive, PTL DEF Spec, SessionSignatureGated

\* JudgedInv is kept by a step that takes no request past authentication, but may end
\* some, and neither spends nor judges a token.
LEMMA JudgedKept ==
  ASSUME JudgedInv, UNCHANGED <<spent, judged>>,
         \A q \in Requests : pc'[q] \in {"parse", "sign"} =>
           pc[q] \in {"parse", "sign"} /\ req'[q] = req[q]
  PROVE  JudgedInv'
BY DEF JudgedInv, IsToken

\* The answer to a request past authentication.
LEMMA JudgeKeeps ==
  ASSUME TypeOK, JudgedInv, NEW r \in Requests, NEW slug, Judge(r, slug),
         pc[r] \in {"parse", "sign"}, UNCHANGED spent
  PROVE  JudgedInv'
<1>1. judged' = judged \cup ({req[r].cred} \cap Claims)
  BY DEF Judge
<1>2. pc'[r] = "idle" /\ \A q \in Requests \ {r} : pc'[q] = pc[q] /\ req'[q] = req[q]
  BY DEF Judge, Answer, TypeOK
<1>3. judged' \subseteq spent'
  BY <1>1 DEF JudgedInv, IsToken
<1>4. ASSUME NEW q \in Requests, pc'[q] \in {"parse", "sign"}, IsToken(q)'
      PROVE  /\ req'[q].cred \in spent' \ judged'
             /\ \A t \in Requests \ {q} : pc'[t] \in {"parse", "sign"} => req'[t].cred # req'[q].cred
  <2>1. q # r /\ pc[q] \in {"parse", "sign"} /\ req'[q] = req[q] /\ IsToken(q)
    BY <1>2, <1>4 DEF IsToken
  <2>2. req[q].cred \in spent \ judged /\ req[r].cred # req[q].cred
    BY <2>1 DEF JudgedInv
  <2>3. req'[q].cred \in spent' \ judged'
    BY <1>1, <2>1, <2>2
  <2>4. ASSUME NEW t \in Requests \ {q}, pc'[t] \in {"parse", "sign"}
        PROVE  req'[t].cred # req'[q].cred
    BY <1>2, <2>1, <2>4 DEF JudgedInv
  <2> QED
    BY <2>3, <2>4
<1> QED
  BY <1>3, <1>4 DEF JudgedInv

\* A request gets past authentication with a token that nobody has used, or with a session.
LEMMA AdmitKeeps ==
  ASSUME IndInv, JudgedInv, NEW r \in Requests, NEW a, Authenticated(r, a), UNCHANGED judged,
         \/ IsToken(r) /\ req[r].cred \notin spent /\ spent' = spent \cup {req[r].cred}
         \/ IsSession(r) /\ UNCHANGED spent
  PROVE  JudgedInv'
<1> USE SigningApiAssumption
<1>1. pc'[r] = "parse" /\ req' = req /\ \A q \in Requests \ {r} : pc'[q] = pc[q]
  BY DEF Authenticated, IndInv, TypeOK
<1>2. judged' \subseteq spent'
  BY DEF JudgedInv
<1>3. ASSUME NEW q \in Requests \ {r}, pc'[q] \in {"parse", "sign"}, IsToken(q)
      PROVE  req[q].cred \in spent \ judged /\ req[q].cred # req[r].cred
  <2>1. req[q].cred \in spent \ judged
    BY <1>1, <1>3 DEF JudgedInv
  <2> QED
    BY <2>1, <1>3 DEF IsToken, IsSession
<1>4. ASSUME NEW q \in Requests, pc'[q] \in {"parse", "sign"}, IsToken(q)'
      PROVE  /\ req'[q].cred \in spent' \ judged'
             /\ \A t \in Requests \ {q} : pc'[t] \in {"parse", "sign"} => req'[t].cred # req'[q].cred
  <2>0. IsToken(q)
    BY <1>1, <1>4 DEF IsToken
  <2>1. CASE q = r
    <3>1. req[r].cred \notin spent /\ spent' = spent \cup {req[r].cred}
      BY <2>0, <2>1 DEF IsToken, IsSession
    <3>2. ASSUME NEW t \in Requests \ {q}, pc'[t] \in {"parse", "sign"}
          PROVE  req[t].cred # req[q].cred
      BY <2>0, <2>1, <1>3, <3>2 DEF IsToken
    <3> QED
      BY <2>1, <1>1, <3>1, <3>2 DEF JudgedInv
  <2>2. CASE q # r
    <3>1. req[q].cred \in spent \ judged /\ req[q].cred # req[r].cred
      BY <2>0, <2>2, <1>3, <1>4
    <3>2. ASSUME NEW t \in Requests \ {q}, pc'[t] \in {"parse", "sign"}
          PROVE  req[t].cred # req[q].cred
      BY <2>0, <2>2, <1>1, <1>4, <3>1, <3>2 DEF JudgedInv
    <3> QED
      BY <1>1, <3>1, <3>2
  <2> QED
    BY <2>1, <2>2
<1> QED
  BY <1>2, <1>4 DEF JudgedInv

LEMMA NextJudged == IndInv /\ JudgedInv /\ [Next]_vars => JudgedInv'
<1> SUFFICES ASSUME IndInv, JudgedInv, [Next]_vars PROVE JudgedInv'
  OBVIOUS
<1>1. TypeOK
  BY DEF IndInv
<1>2. ASSUME NEW r \in Requests, NEW slug, Answer(r, slug), UNCHANGED <<spent, judged>>
      PROVE  JudgedInv'
  <2>1. \A q \in Requests : pc'[q] \in {"parse", "sign"} => pc'[q] = pc[q] /\ req'[q] = req[q]
    BY <1>1, <1>2 DEF Answer, TypeOK
  <2> QED
    BY <1>2, <2>1, JudgedKept
<1>3. ASSUME NEW r \in Requests, Arrive(r) PROVE JudgedInv'
  <2>1. UNCHANGED <<spent, judged>>
    BY <1>3 DEF Arrive, authVars
  <2>2. CASE \E slug : Answer(r, slug)
    BY <1>2, <2>1, <2>2
  <2>3. ASSUME NEW p \in {"token", "session"}, NEW q,
               pc' = [pc EXCEPT ![r] = p], req' = [req EXCEPT ![r] = q]
        PROVE  JudgedInv'
    <3>1. \A t \in Requests : pc'[t] \in {"parse", "sign"} => pc'[t] = pc[t] /\ req'[t] = req[t]
      BY <1>1, <2>3 DEF TypeOK
    <3> QED
      BY <2>1, <3>1, JudgedKept
  <2> QED
    BY <1>3, <2>2, <2>3 DEF Arrive
<1>4. ASSUME NEW r \in Requests, TokenRejected(r) \/ Cancel(r) PROVE JudgedInv'
  BY <1>2, <1>4 DEF TokenRejected, Cancel, authVars
<1>5. ASSUME NEW r \in Requests, SessionLookup(r) PROVE JudgedInv'
  <2>1. IsSession(r) /\ UNCHANGED <<spent, judged>>
    BY <1>5 DEF SessionLookup, IndInv, RequestInv, authVars
  <2> QED
    BY <1>2, <1>5, <2>1, AdmitKeeps DEF SessionLookup
<1>6. ASSUME NEW r \in Requests, TokenResolved(r) PROVE JudgedInv'
  <2>1. IsToken(r) /\ UNCHANGED judged
    BY <1>6 DEF TokenResolved, IndInv, RequestInv
  <2> QED
    BY <1>2, <1>6, <2>1, AdmitKeeps DEF TokenResolved
<1>7. ASSUME NEW r \in Requests, Validate(r) PROVE JudgedInv'
  <2>1. CASE Judge(r, Verdict(r))
    BY <1>1, <1>7, <2>1, JudgeKeeps DEF Validate
  <2>2. CASE pc' = [pc EXCEPT ![r] = "sign"] /\ UNCHANGED <<req, judged>>
    <3>1. \A t \in Requests : pc'[t] \in {"parse", "sign"} => pc[t] \in {"parse", "sign"}
      BY <1>1, <1>7, <2>2 DEF Validate, TypeOK
    <3> QED
      BY <1>7, <2>2, <3>1, JudgedKept DEF Validate
  <2> QED
    BY <1>7, <2>1, <2>2 DEF Validate
<1>8. ASSUME NEW r \in Requests, Sign(r) \/ SignFails(r) PROVE JudgedInv'
  BY <1>1, <1>8, JudgeKeeps DEF Sign, SignFails
<1>9. ASSUME NEW s \in SessionTokens, Mint(s) PROVE JudgedInv'
  BY <1>9, JudgedKept DEF Mint, slotVars
<1>10. CASE KeyStore \/ Tick \/ UNCHANGED vars
  BY <1>10, JudgedKept DEF KeyStore, Tick, vars, authVars, slotVars
<1>11. CASE Restart
  BY <1>11 DEF Restart, DropRequests, JudgedInv
<1> QED
  BY <1>3, <1>4, <1>5, <1>6, <1>7, <1>8, <1>9, <1>10, <1>11 DEF Next

\* A token whose record is kept gets one answer past authentication in the life of a
\* process, whatever the answer is and however many requests carry the token: record_jti
\* comes before every other check, and no refusal takes the record back.
THEOREM JudgedOnce == Spec => TokenJudgedOnce
<1>1. Init => JudgedInv
  BY DEF Init, JudgedInv
<1>2. JudgedInv =>
        [\A r \in Requests :
           Replies(r, Slug) /\ pc[r] \in {"parse", "sign"} /\ IsToken(r) /\ life' = life
           => req[r].cred \notin judged]_vars
  BY DEF JudgedInv
<1> QED
  BY <1>1, <1>2, NextJudged, Inductive, PTL DEF Spec, TokenJudgedOnce

\* Only tokens of configured identities take room in the replay cache, also after a
\* restart with another configuration.
THEOREM ForeignKeptOut == Spec => []ForeignTokensNotRecorded
<1>1. Init => ForeignTokensNotRecorded
  BY DEF Init, ForeignTokensNotRecorded
<1>2. ForeignTokensNotRecorded /\ [Next]_vars => ForeignTokensNotRecorded'
  <2> SUFFICES ASSUME ForeignTokensNotRecorded, [Next]_vars PROVE ForeignTokensNotRecorded'
    OBVIOUS
  <2>1. CASE UNCHANGED <<spent, config>>
    BY <2>1 DEF ForeignTokensNotRecorded
  <2>2. ASSUME NEW r \in Requests, TokenResolved(r) PROVE ForeignTokensNotRecorded'
    BY <2>2 DEF TokenResolved, ForeignTokensNotRecorded
  <2>3. CASE Restart
    BY <2>3 DEF Restart, ForeignTokensNotRecorded
  <2>4. UNCHANGED <<spent, config>> \/ Restart \/ \E r \in Requests : TokenResolved(r)
    BY DEF Next, vars, authVars, Arrive, SessionLookup, TokenRejected, Validate, Sign, SignFails,
           Cancel, Mint, KeyStore, Tick
  <2> QED
    BY <2>1, <2>2, <2>3, <2>4
<1> QED
  BY <1>1, <1>2, PTL DEF Spec
=============================================================================
