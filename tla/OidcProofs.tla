----------------------------- MODULE OidcProofs ------------------------------
(***************************************************************************)
(* Proofs about the authentication of GitHub Actions tokens: OidcReplay,   *)
(* for any tokens, leeway, clock grain and cache limit, and JwksCache, for *)
(* any keys, requests and durations.                                       *)
(*                                                                         *)
(* One-time use: an entry of seen_jtis never ends before its token's       *)
(* deadline (UntilCoversDeadline), so as long as a token can be accepted   *)
(* before the deadline its entry is there (RecordedUntilDeadline).         *)
(*                                                                         *)
(* Withdrawn keys: what a fetch brings was published after it was sent     *)
(* (FetchInv), so what is cached was published a fetch before it was       *)
(* stored or later (CachedInv).                                            *)
(***************************************************************************)
EXTENDS OidcReplay, JwksCache, FiniteSetTheorems, TLAPS

\* The initial state satisfies the type invariant.
LEMMA InitType == Init => TypeOK
  BY OidcReplayAssumption DEF Init, TypeOK

\* The wall clock is a number of whole seconds that have passed.
LEMMA UnixNowType == ASSUME TypeOK PROVE UnixNow \in Nat /\ UnixNow * Tps <= now
  BY OidcReplayAssumption DEF TypeOK, UnixNow

\* The saturating arithmetic of record_jti stays in the naturals.
LEMMA RemainingType == ASSUME TypeOK, NEW e \in Nat PROVE Remaining(e) \in Nat
  BY OidcReplayAssumption, UnixNowType DEF Remaining

\* Products of the quantities involved are natural numbers.
LEMMA UntilType == ASSUME TypeOK, NEW a \in Attempts PROVE Until(a) \in Nat
<1>1. readNow[a] \in Nat /\ remaining[a] \in Nat /\ Tps \in Nat
  BY OidcReplayAssumption DEF TypeOK
<1> QED
  BY <1>1 DEF Until

\* Every step keeps the type invariant.
LEMMA NextType == TypeOK /\ [Next]_vars => TypeOK'
<1> SUFFICES ASSUME TypeOK, [Next]_vars PROVE TypeOK'
  OBVIOUS
<1> USE OidcReplayAssumption
<1>1. ASSUME NEW a \in Attempts, NEW t \in Tokens, Validate(a, t) PROVE TypeOK'
  BY <1>1 DEF TypeOK, Validate
<1>2. ASSUME NEW a \in Attempts, ReadClocks(a) PROVE TypeOK'
  <2>1. Remaining(Exp[tok[a]]) \in Nat
    BY <1>2, RemainingType DEF TypeOK, ReadClocks
  <2> QED
    BY <1>2, <2>1 DEF TypeOK, ReadClocks
<1>3. ASSUME NEW a \in Attempts, Record(a) PROVE TypeOK'
  <2>1. Retained(a) \in [Tokens -> Nat]
    BY DEF TypeOK, Retained
  <2>2. seen' \in [Tokens -> Nat] /\ accepts' \in [Tokens -> SUBSET Nat]
    BY <1>3, <2>1, UntilType DEF TypeOK, Record
  <2> QED
    BY <1>3, <2>2 DEF TypeOK, Record, Return
<1>4. CASE Tick
  BY <1>4 DEF TypeOK, Tick, slotVars
<1>5. CASE Restart
  BY <1>5 DEF TypeOK, Restart
<1>6. CASE UNCHANGED vars
  BY <1>6 DEF TypeOK, vars, slotVars
<1> QED
  BY <1>1, <1>2, <1>3, <1>4, <1>5, <1>6 DEF Next

\* The type invariant holds in every reachable state: in particular the
\* time an entry is kept for never wraps below zero.
THEOREM TypeCorrect == Spec => []TypeOK
  BY InitType, NextType, PTL DEF Spec

-----------------------------------------------------------------------------
\* Multiplication by a natural number preserves the order.
LEMMA MulMonotone ==
  ASSUME NEW m \in Nat, NEW n \in Nat, NEW d \in Nat, m <= n
  PROVE  m * d <= n * d
  OBVIOUS

\* The deadline is an instant of the clock.
LEMMA DeadlineType == ASSUME NEW t \in Tokens PROVE Deadline(t) \in Nat
<1>1. Exp[t] + Leeway \in Nat /\ Tps \in Nat
  BY OidcReplayAssumption
<1> QED
  BY <1>1 DEF Deadline

\* The instant record_jti computes is not before the deadline.
LEMMA UntilLongEnough ==
  ASSUME TypeOK, NEW t \in Tokens
  PROVE  now + Remaining(Exp[t]) * Tps >= Deadline(t)
<1> DEFINE w == UnixNow
<1>1. /\ w \in Nat /\ w * Tps \in Nat /\ w * Tps <= now
      /\ Exp[t] + Leeway \in Nat /\ Tps \in Nat /\ now \in Nat
      /\ Remaining(Exp[t]) \in Nat
  BY UnixNowType, RemainingType, OidcReplayAssumption DEF TypeOK
<1>2. w + Remaining(Exp[t]) >= Exp[t] + Leeway
  BY <1>1, OidcReplayAssumption DEF Remaining
<1> HIDE DEF w
<1>3. (w + Remaining(Exp[t])) * Tps >= (Exp[t] + Leeway) * Tps
  BY <1>1, <1>2, MulMonotone
<1>4. (w + Remaining(Exp[t])) * Tps = w * Tps + Remaining(Exp[t]) * Tps
  BY <1>1
<1>5. Remaining(Exp[t]) * Tps \in Nat /\ (Exp[t] + Leeway) * Tps \in Nat
  BY <1>1
<1> QED
  BY <1>1, <1>3, <1>4, <1>5 DEF Deadline

\* Every step keeps the inductive invariant.
LEMMA NextInv == IndInv /\ [Next]_vars => IndInv'
<1> SUFFICES ASSUME IndInv, [Next]_vars PROVE IndInv'
  OBVIOUS
<1>t. TypeOK /\ TypeOK'
  BY NextType DEF IndInv
<1>d. \A t \in Tokens : Deadline(t) \in Nat
  BY DeadlineType
<1>e. ASSUME NEW t \in Tokens PROVE Deadline(t)' = Deadline(t)
  BY DEF Deadline
<1> USE <1>t, <1>d
<1> DEFINE Parts == /\ RecordedUntilDeadline /\ UntilCoversDeadline /\ AcceptedInPast
                    /\ NoReplayBeforeDeadline
<1> USE DEF IndInv, TypeOK, RecordedUntilDeadline, UntilCoversDeadline, AcceptedInPast,
            NoReplayBeforeDeadline
<1>1. ASSUME NEW a \in Attempts, NEW t \in Tokens, Validate(a, t) PROVE Parts'
  BY <1>1, <1>e DEF Validate, Until
<1>2. ASSUME NEW a \in Attempts, ReadClocks(a) PROVE Parts'
  <2>1. Until(a)' = now + Remaining(Exp[tok[a]]) * Tps
    BY <1>2 DEF ReadClocks, Until
  <2>2. Until(a)' >= Deadline(tok[a])
    BY <1>2, <2>1, UntilLongEnough DEF ReadClocks
  <2>3. \A b \in Attempts \ {a} : Until(b)' = Until(b)
    BY <1>2 DEF ReadClocks, Until
  <2> QED
    BY <1>2, <1>e, <2>2, <2>3 DEF ReadClocks
<1>3. ASSUME NEW a \in Attempts, Record(a) PROVE Parts'
  <2>1. /\ tok[a] \in Tokens /\ readNow[a] <= now /\ now' = now
        /\ Until(a) >= Deadline(tok[a]) /\ Until(a) \in Nat
    BY <1>3, UntilType DEF Record
  <2>2. \A t \in Tokens : accepts[t] # {} /\ now < Deadline(t) => Retained(a)[t] >= Deadline(t)
    BY <2>1 DEF Retained
  <2>3. UntilCoversDeadline'
    <3>1. \A b \in Attempts \ {a} : Until(b)' = Until(b)
      BY <1>3 DEF Record, Return, Until
    <3> QED
      BY <1>3, <1>e, <2>1, <3>1 DEF Record, Return
  <2>4. CASE seen' = Retained(a) /\ UNCHANGED accepts
    BY <1>e, <2>1, <2>2, <2>3, <2>4
  <2>5. CASE /\ Retained(a)[tok[a]] = 0
             /\ seen' = [Retained(a) EXCEPT ![tok[a]] = Until(a)]
             /\ accepts' = [accepts EXCEPT ![tok[a]] = @ \cup {now}]
    <3>1. accepts[tok[a]] # {} => now >= Deadline(tok[a])
      BY <2>1, <2>2, <2>5
    <3>2. RecordedUntilDeadline'
      BY <1>e, <2>1, <2>2, <2>5 DEF Retained
    <3>3. AcceptedInPast'
      BY <2>1, <2>5
    <3>4. NoReplayBeforeDeadline'
      BY <1>e, <2>1, <2>5, <3>1
    <3> QED
      BY <2>3, <3>2, <3>3, <3>4
  <2> QED
    BY <1>3, <2>4, <2>5 DEF Record
<1>4. CASE Tick
  BY <1>4, <1>e DEF Tick, slotVars, Until
<1>5. CASE Restart
  BY <1>5, <1>e DEF Restart
<1>6. CASE UNCHANGED vars
  BY <1>6, <1>e DEF vars, slotVars, Until
<1> QED
  BY <1>1, <1>2, <1>3, <1>4, <1>5, <1>6 DEF Next

\* authenticate_github_actions accepts no token twice in one life of the server
\* before the token's expiry plus leeway, for every interleaving of authentications
\* and clock grain.
THEOREM NoReplay == Spec => []NoReplayBeforeDeadline
<1>1. Init => IndInv
  BY InitType DEF Init, IndInv, RecordedUntilDeadline, UntilCoversDeadline, AcceptedInPast,
                  NoReplayBeforeDeadline
<1>2. IndInv => NoReplayBeforeDeadline
  BY DEF IndInv
<1> QED
  BY <1>1, <1>2, NextInv, PTL DEF Spec

-----------------------------------------------------------------------------
(* The limit of the replay cache.                                          *)

\* The cache is finite, however many tokens there are, and within its limit.
CacheInv == IsFiniteSet(Entries(seen)) /\ SeenBounded

\* A cache with some entries less is within the limit.
LEMMA FewerEntries ==
  ASSUME CacheInv, NEW m, Entries(m) \subseteq Entries(seen)
  PROVE  /\ IsFiniteSet(Entries(m)) /\ Cardinality(Entries(m)) \in Nat
         /\ Cardinality(Entries(m)) <= MaxSeen
<1>1. /\ IsFiniteSet(Entries(m)) /\ Cardinality(Entries(m)) <= Cardinality(Entries(seen))
  BY FS_Subset DEF CacheInv
<1>2. Cardinality(Entries(m)) \in Nat /\ Cardinality(Entries(seen)) \in Nat
  BY <1>1, FS_CardinalityType DEF CacheInv
<1> QED
  BY <1>1, <1>2, OidcReplayAssumption DEF CacheInv, SeenBounded

\* Every step keeps the cache within its limit: an entry is made only where, after
\* the expired ones are dropped, there is room for it.
LEMMA NextCache == TypeOK /\ CacheInv /\ [Next]_vars => CacheInv'
<1> SUFFICES ASSUME TypeOK, CacheInv, [Next]_vars PROVE CacheInv'
  OBVIOUS
<1>1. ASSUME NEW a \in Attempts, Record(a) PROVE CacheInv'
  <2> DEFINE kept == Retained(a)
  <2>1. kept \in [Tokens -> Nat] /\ tok[a] \in Tokens /\ Until(a) \in Nat
    BY <1>1, UntilType DEF TypeOK, Retained, Record
  <2>2. Entries(kept) \subseteq Entries(seen)
    BY <1>1 DEF TypeOK, Retained, Entries
  <2> HIDE DEF kept
  <2>3. /\ IsFiniteSet(Entries(kept)) /\ Cardinality(Entries(kept)) \in Nat
        /\ Cardinality(Entries(kept)) <= MaxSeen
    BY <2>2, FewerEntries
  <2>4. CASE seen' = kept
    BY <2>3, <2>4 DEF CacheInv, SeenBounded, Entries
  <2>5. CASE /\ kept[tok[a]] = 0 /\ Cardinality(Entries(kept)) < MaxSeen
             /\ seen' = [kept EXCEPT ![tok[a]] = Until(a)]
    <3>1. Entries(seen') \subseteq Entries(kept) \cup {tok[a]}
      BY <2>1, <2>5 DEF Entries
    <3>2. /\ IsFiniteSet(Entries(kept) \cup {tok[a]})
          /\ Cardinality(Entries(kept) \cup {tok[a]}) = Cardinality(Entries(kept)) + 1
      <4>1. tok[a] \notin Entries(kept)
        BY <2>5 DEF Entries
      <4> QED
        BY <2>3, <4>1, FS_AddElement
    <3>3. /\ IsFiniteSet(Entries(seen'))
          /\ Cardinality(Entries(seen')) <= Cardinality(Entries(kept) \cup {tok[a]})
      BY <3>1, <3>2, FS_Subset
    <3>4. Cardinality(Entries(seen')) \in Nat
      BY <3>3, FS_CardinalityType
    <3>5. Cardinality(Entries(seen')) <= MaxSeen
      BY <2>3, <2>5, <3>2, <3>3, <3>4, OidcReplayAssumption
    <3> QED
      BY <3>3, <3>5 DEF CacheInv, SeenBounded, Entries
  <2> QED
    BY <1>1, <2>4, <2>5 DEF Record, kept
<1>2. CASE Restart
  <2>1. Entries(seen') = {}
    BY <1>2 DEF Restart, Entries
  <2>2. IsFiniteSet(Entries(seen')) /\ Cardinality(Entries(seen')) = 0
    BY <2>1, FS_EmptySet
  <2> QED
    BY <2>2, OidcReplayAssumption DEF CacheInv, SeenBounded, Entries
<1>3. CASE UNCHANGED seen
  BY <1>3 DEF CacheInv, SeenBounded, Entries
<1>4. \/ \E a \in Attempts : Record(a)
      \/ Restart
      \/ UNCHANGED seen
  BY DEF Next, Validate, ReadClocks, Tick, vars
<1> QED
  BY <1>1, <1>2, <1>3, <1>4

\* record_jti keeps at most MAX_SEEN_JTIS entries, whatever tokens are presented
\* and however the threads that record them interleave.
THEOREM CacheBounded == Spec => []SeenBounded
<1>1. Init => CacheInv
  <2> SUFFICES ASSUME Init PROVE CacheInv
    OBVIOUS
  <2>1. Entries(seen) = {}
    BY DEF Init, Entries
  <2> QED
    BY <2>1, FS_EmptySet, OidcReplayAssumption DEF CacheInv, SeenBounded
<1>2. CacheInv => SeenBounded
  BY DEF CacheInv
<1> QED
  BY <1>1, <1>2, InitType, NextType, NextCache, PTL DEF Spec

-----------------------------------------------------------------------------
(* The cache of verification keys.                                         *)

\* The types of the constants.
LEMMA JwksConstants ==
  /\ Ttl \in Nat /\ MaxStaleness \in Nat /\ MinRefresh \in Nat /\ FetchTimeout \in Nat
  /\ Nil \notin Requests /\ Nil \notin Kids
<1>1. \A x \in {Ttl, MaxStaleness, MinRefresh, FetchTimeout, MaxClock} : x \in Nat
  BY JwksCacheAssumption
<1> QED
  BY <1>1, JwksCacheAssumption

LEMMA JwksInitInv == JwksInit => JwksInv
<1> SUFFICES ASSUME JwksInit PROVE JwksInv
  OBVIOUS
<1>1. JwksTypeOK
  BY JwksConstants DEF JwksInit, JwksTypeOK, Instant, Never, Refreshing
<1>2. PublishedInv
  BY DEF JwksInit, PublishedInv, Never
<1> QED
  BY <1>1, <1>2 DEF JwksInit, JwksInv, FetchInv, CachedInv

\* The type invariant, and with it that the mutex is held by the one request that
\* refreshes.
LEMMA JwksStepType == JwksTypeOK /\ [JwksNext]_jwksVars => JwksTypeOK'
<1> SUFFICES ASSUME JwksTypeOK, [JwksNext]_jwksVars PROVE JwksTypeOK'
  OBVIOUS
<1> USE JwksConstants DEF JwksTypeOK, githubVars, cacheVars, Goto, Refreshing, Answered, Instant
<1>1. ASSUME NEW r \in Requests, NEW k \in Kids, Lookup(r, k) PROVE JwksTypeOK'
  BY <1>1 DEF Lookup
<1>2. ASSUME NEW r \in Requests, Refresh(r) PROVE JwksTypeOK'
  BY <1>2 DEF Refresh
<1>3. ASSUME NEW r \in Requests, GithubServes(r) PROVE JwksTypeOK'
  BY <1>3 DEF GithubServes
<1>4. ASSUME NEW r \in Requests, StoreKeys(r) PROVE JwksTypeOK'
  BY <1>4 DEF StoreKeys
<1>5. ASSUME NEW r \in Requests, FetchFails(r) PROVE JwksTypeOK'
  BY <1>5 DEF FetchFails
<1>6. ASSUME NEW r \in Requests, Answer(r) PROVE JwksTypeOK'
  BY <1>6 DEF Answer
<1>7. ASSUME NEW r \in Requests, ReturnJwk(r) PROVE JwksTypeOK'
  BY <1>7 DEF ReturnJwk
<1>8. ASSUME NEW r \in Requests, Cancel(r) PROVE JwksTypeOK'
  BY <1>8 DEF Cancel
<1>9. CASE Rotate
  BY <1>9 DEF Rotate
<1>10. CASE ClockTick
  BY <1>10 DEF ClockTick
<1>11. CASE UNCHANGED jwksVars
  BY <1>11 DEF jwksVars
<1> QED
  BY <1>1, <1>2, <1>3, <1>4, <1>5, <1>6, <1>7, <1>8, <1>9, <1>10, <1>11 DEF JwksNext

\* The instants of a typed state are integers.
LEMMA JwksInstants ==
  ASSUME JwksTypeOK
  PROVE  /\ \A k \in Kids : lastPublished[k] \in Int /\ lastPublished[k] >= Never
         /\ \A r \in Requests : sentAt[r] \in Nat /\ snapshot[r] \subseteq Kids
         /\ fetchedAt \in Int /\ clock \in Nat /\ keys \subseteq Kids /\ Never = -1
         /\ FetchTimeout \in Nat
  BY JwksConstants DEF JwksTypeOK, Instant, Never

\* Steps that neither touch the cached keys nor what is published, and start no fetch.
LEMMA JwksQuiet ==
  ASSUME JwksInv, JwksTypeOK', NEW r \in Requests, NEW l, l \notin {"fetch", "fetched"},
         stage' = [stage EXCEPT ![r] = l], \A x \in Requests \ {r} : snapshot'[x] = snapshot[x],
         UNCHANGED <<githubVars, cacheVars, sentAt, lastFetch, clock>>
  PROVE  JwksInv'
<1>1. PublishedInv' /\ CachedInv' /\ lastFetch' = lastAttempt'
  BY DEF JwksInv, githubVars, cacheVars, PublishedInv, CachedInv
<1>2. FetchInv'
  <2> SUFFICES ASSUME NEW x \in Requests, stage'[x] \in {"fetch", "fetched"}
               PROVE  /\ sentAt[x] <= clock /\ clock <= sentAt[x] + FetchTimeout
                      /\ stage'[x] = "fetched" => \A k \in snapshot'[x] : sentAt[x] <= lastPublished[k]
    BY DEF FetchInv, githubVars
  <2>1. x # r /\ stage'[x] = stage[x] /\ snapshot'[x] = snapshot[x]
    BY DEF JwksInv, JwksTypeOK
  <2> QED
    BY <2>1 DEF JwksInv, FetchInv
<1> QED
  BY <1>1, <1>2 DEF JwksInv

\* The mutex is taken: a fetch may be sent.
LEMMA JwksRefreshInv ==
  ASSUME JwksInv, JwksTypeOK', NEW r \in Requests, Refresh(r)
  PROVE  JwksInv'
<1>1. CASE stage' = [stage EXCEPT ![r] = "ok"] /\ UNCHANGED <<lastAttempt, sentAt, lastFetch>>
  BY <1>1, JwksQuiet DEF Refresh, cacheVars
<1>2. CASE stage' = [stage EXCEPT ![r] = "final"] /\ UNCHANGED <<lastAttempt, sentAt, lastFetch>>
  BY <1>2, JwksQuiet DEF Refresh, cacheVars
<1>3. CASE /\ lastAttempt' = clock /\ stage' = [stage EXCEPT ![r] = "fetch"]
           /\ sentAt' = [sentAt EXCEPT ![r] = clock] /\ lastFetch' = clock
  <2>1. UNCHANGED <<published, lastPublished, keys, fetchedAt, snapshot, clock>>
    BY DEF Refresh, githubVars
  <2>2. PublishedInv' /\ CachedInv' /\ lastFetch' = lastAttempt'
    BY <1>3, <2>1 DEF JwksInv, PublishedInv, CachedInv
  <2>3. ASSUME NEW x \in Requests
        PROVE  /\ stage'[x] \in {"fetch", "fetched"} => sentAt'[x] <= clock /\ clock <= sentAt'[x] + FetchTimeout
               /\ stage'[x] = "fetched" => \A k \in snapshot[x] : sentAt'[x] <= lastPublished[k]
    <3>1. CASE x = r
      <4>1. stage'[x] = "fetch" /\ sentAt'[x] = clock
        BY <1>3, <3>1 DEF JwksInv, JwksTypeOK
      <4> QED
        BY <4>1, JwksInstants DEF JwksInv
    <3>2. CASE x # r
      <4>1. stage'[x] = stage[x] /\ sentAt'[x] = sentAt[x]
        BY <1>3, <3>2 DEF JwksInv, JwksTypeOK
      <4> QED
        BY <4>1 DEF JwksInv, FetchInv
    <3> QED
      BY <3>1, <3>2
  <2>4. FetchInv'
    BY <2>1, <2>3 DEF FetchInv
  <2> QED
    BY <2>2, <2>4 DEF JwksInv
<1> QED
  BY <1>1, <1>2, <1>3 DEF Refresh, Goto

\* GitHub answers: its keys are published at that moment, after the fetch was sent.
LEMMA JwksServeInv ==
  ASSUME JwksInv, JwksTypeOK', NEW r \in Requests, GithubServes(r)
  PROVE  JwksInv'
<1>1. UNCHANGED <<published, lastPublished, keys, fetchedAt, lastAttempt, sentAt, lastFetch, clock>>
  BY DEF GithubServes, githubVars, cacheVars
<1>2. PublishedInv' /\ CachedInv' /\ lastFetch' = lastAttempt'
  BY <1>1 DEF JwksInv, PublishedInv, CachedInv
<1>3. ASSUME NEW x \in Requests
      PROVE  /\ stage'[x] \in {"fetch", "fetched"} => sentAt[x] <= clock /\ clock <= sentAt[x] + FetchTimeout
             /\ stage'[x] = "fetched" => \A k \in snapshot'[x] : sentAt[x] <= lastPublished[k]
  <2>1. CASE x = r
    <3>1. stage[x] = "fetch" /\ snapshot'[x] = published /\ published \subseteq Kids
      BY <2>1 DEF JwksInv, JwksTypeOK, GithubServes
    <3>2. sentAt[x] <= clock /\ clock <= sentAt[x] + FetchTimeout
      BY <3>1 DEF JwksInv, FetchInv
    <3>3. \A k \in snapshot'[x] : lastPublished[k] = clock
      BY <3>1 DEF JwksInv, PublishedInv
    <3> QED
      BY <3>2, <3>3
  <2>2. CASE x # r
    <3>1. stage'[x] = stage[x] /\ snapshot'[x] = snapshot[x]
      BY <2>2 DEF JwksInv, JwksTypeOK, GithubServes, Goto
    <3> QED
      BY <3>1 DEF JwksInv, FetchInv
  <2> QED
    BY <2>1, <2>2
<1>4. FetchInv'
  BY <1>1, <1>3 DEF FetchInv
<1> QED
  BY <1>2, <1>4 DEF JwksInv

\* What is stored was published at most the duration of the fetch ago.
LEMMA JwksStoreInv ==
  ASSUME JwksInv, JwksTypeOK', NEW r \in Requests, StoreKeys(r)
  PROVE  JwksInv'
<1>1. /\ UNCHANGED <<published, lastPublished, lastAttempt, sentAt, lastFetch, snapshot, clock>>
      /\ stage[r] = "fetched" /\ stage' = [stage EXCEPT ![r] = "final"]
      /\ keys' = snapshot[r] /\ fetchedAt' = clock
  BY DEF StoreKeys, githubVars, Goto
<1>2. PublishedInv' /\ lastFetch' = lastAttempt'
  BY <1>1 DEF JwksInv, PublishedInv
<1>3. FetchInv'
  BY <1>1 DEF JwksInv, JwksTypeOK, FetchInv
<1>4. ASSUME NEW k \in snapshot[r]
      PROVE  clock # Never /\ lastPublished[k] # Never /\ clock <= lastPublished[k] + FetchTimeout
  <2>1. /\ k \in Kids /\ lastPublished[k] \in Int /\ sentAt[r] \in Nat /\ clock \in Nat
        /\ Never = -1 /\ FetchTimeout \in Nat
    BY JwksInstants DEF JwksInv
  <2>2. sentAt[r] <= lastPublished[k] /\ clock <= sentAt[r] + FetchTimeout
    BY <1>1 DEF JwksInv, FetchInv
  <2> QED
    BY <2>1, <2>2
<1>5. CachedInv'
  BY <1>1, <1>4 DEF CachedInv
<1> QED
  BY <1>2, <1>3, <1>5 DEF JwksInv

\* Keys come and go and time passes: what was published is only ever published later.
LEMMA JwksPublishInv ==
  ASSUME JwksInv, JwksTypeOK', clock <= clock', Rotate \/ ClockTick
  PROVE  JwksInv'
<1>1. UNCHANGED <<keys, fetchedAt, lastAttempt, stage, snapshot, sentAt, lastFetch>>
  BY DEF Rotate, ClockTick, cacheVars
<1>2. /\ \A k \in Kids : lastPublished[k] \in Int /\ lastPublished[k] <= clock
      /\ clock \in Nat /\ clock' \in Nat /\ keys \subseteq Kids /\ Never = -1 /\ FetchTimeout \in Nat
      /\ \A x \in Requests : sentAt[x] \in Nat /\ snapshot[x] \subseteq Kids
  BY JwksInstants DEF JwksInv, JwksTypeOK, PublishedInv
<1>3. lastPublished' = [k \in Kids |-> IF k \in published' THEN clock' ELSE lastPublished[k]]
  BY DEF Rotate, ClockTick
<1>4. \A k \in Kids : /\ lastPublished'[k] \in Int /\ lastPublished[k] <= lastPublished'[k]
                      /\ lastPublished'[k] <= clock'
                      /\ k \in published' => lastPublished'[k] = clock'
  BY <1>2, <1>3
<1>5. PublishedInv'
  BY <1>4 DEF PublishedInv
<1>6. CachedInv'
  <2> SUFFICES ASSUME NEW k \in keys
               PROVE  /\ fetchedAt # Never /\ lastPublished'[k] # Never
                      /\ fetchedAt <= lastPublished'[k] + FetchTimeout
    BY <1>1 DEF CachedInv
  <2>1. fetchedAt # Never /\ lastPublished[k] # Never /\ fetchedAt <= lastPublished[k] + FetchTimeout
    BY DEF JwksInv, CachedInv
  <2>2. fetchedAt \in Int /\ lastPublished[k] >= Never
    BY <1>2, JwksInstants DEF JwksInv
  <2> QED
    BY <1>2, <1>4, <2>1, <2>2
<1>7. ASSUME NEW x \in Requests
      PROVE  /\ stage[x] \in {"fetch", "fetched"} => sentAt[x] <= clock' /\ clock' <= sentAt[x] + FetchTimeout
             /\ stage[x] = "fetched" => \A k \in snapshot[x] : sentAt[x] <= lastPublished'[k]
  <2>1. /\ stage[x] \in {"fetch", "fetched"} => sentAt[x] <= clock /\ clock <= sentAt[x] + FetchTimeout
        /\ stage[x] = "fetched" => \A k \in snapshot[x] : sentAt[x] <= lastPublished[k]
    BY DEF JwksInv, FetchInv
  <2>2. stage[x] \in {"fetch", "fetched"} => clock' <= sentAt[x] + FetchTimeout
    <3>1. CASE Rotate
      BY <2>1, <3>1 DEF Rotate
    <3>2. CASE ClockTick
      BY <1>2, <3>2 DEF ClockTick
    <3> QED
      BY <3>1, <3>2
  <2>3. stage[x] \in {"fetch", "fetched"} => sentAt[x] <= clock'
    BY <1>2, <2>1
  <2>4. stage[x] = "fetched" => \A k \in snapshot[x] : sentAt[x] <= lastPublished'[k]
    BY <1>2, <1>4, <2>1
  <2> QED
    BY <2>2, <2>3, <2>4
<1>8. FetchInv'
  BY <1>1, <1>7 DEF FetchInv
<1> QED
  BY <1>1, <1>5, <1>6, <1>8 DEF JwksInv

LEMMA JwksStepInv == JwksInv /\ [JwksNext]_jwksVars => JwksInv'
<1> SUFFICES ASSUME JwksInv, [JwksNext]_jwksVars PROVE JwksInv'
  OBVIOUS
<1>0. JwksTypeOK'
  BY JwksStepType DEF JwksInv
<1>1. ASSUME NEW r \in Requests, NEW k \in Kids, Lookup(r, k) PROVE JwksInv'
  <2>1. CASE stage' = [stage EXCEPT ![r] = "ok"]
    BY <1>0, <1>1, <2>1, JwksQuiet DEF Lookup
  <2>2. CASE stage' = [stage EXCEPT ![r] = "waiting"]
    BY <1>0, <1>1, <2>2, JwksQuiet DEF Lookup
  <2> QED
    BY <1>1, <2>1, <2>2 DEF Lookup, Goto
<1>2. ASSUME NEW r \in Requests, Refresh(r) PROVE JwksInv'
  BY <1>0, <1>2, JwksRefreshInv
<1>3. ASSUME NEW r \in Requests, GithubServes(r) PROVE JwksInv'
  BY <1>0, <1>3, JwksServeInv
<1>4. ASSUME NEW r \in Requests, StoreKeys(r) PROVE JwksInv'
  BY <1>0, <1>4, JwksStoreInv
<1>5. ASSUME NEW r \in Requests, FetchFails(r) PROVE JwksInv'
  BY <1>0, <1>5, JwksQuiet DEF FetchFails, Goto
<1>6. ASSUME NEW r \in Requests, Answer(r) PROVE JwksInv'
  <2>1. PICK l \in {"discovery", "ok", "invalid"} : stage' = [stage EXCEPT ![r] = l]
    BY <1>6 DEF Answer, Goto
  <2> QED
    BY <1>0, <1>6, <2>1, JwksQuiet DEF Answer
<1>7. ASSUME NEW r \in Requests, ReturnJwk(r) PROVE JwksInv'
  <2>1. \A x \in Requests \ {r} : snapshot'[x] = snapshot[x]
    BY <1>7 DEF ReturnJwk, JwksInv, JwksTypeOK
  <2> QED
    BY <1>0, <1>7, <2>1, JwksQuiet DEF ReturnJwk, Goto
<1>8. ASSUME NEW r \in Requests, Cancel(r) PROVE JwksInv'
  <2>1. \A x \in Requests \ {r} : snapshot'[x] = snapshot[x]
    BY <1>8 DEF Cancel, JwksInv, JwksTypeOK
  <2> QED
    BY <1>0, <1>8, <2>1, JwksQuiet DEF Cancel, Goto
<1>9. CASE Rotate \/ ClockTick
  <2>1. clock <= clock'
    BY <1>9 DEF Rotate, ClockTick, JwksInv, JwksTypeOK
  <2> QED
    BY <1>0, <1>9, <2>1, JwksPublishInv
<1>10. CASE UNCHANGED jwksVars
  BY <1>0, <1>10
    DEF jwksVars, githubVars, cacheVars, JwksInv, PublishedInv, FetchInv, CachedInv
<1> QED
  BY <1>1, <1>2, <1>3, <1>4, <1>5, <1>6, <1>7, <1>8, <1>9, <1>10 DEF JwksNext

LEMMA JwksInvariant == JwksSpec => []JwksInv
  BY JwksInitInv, JwksStepInv, PTL DEF JwksSpec

\* The state of jwk_for has its types, and jwks_refresh is held by exactly the request
\* that refreshes, however refreshes fail or are abandoned.
THEOREM JwksTypeCorrect == JwksSpec => []JwksTypeOK
<1>1. JwksInv => JwksTypeOK
  BY DEF JwksInv
<1> QED
  BY <1>1, JwksInvariant, PTL

\* A key of the cache, served before its age exceeds a limit, was published lately.
LEMMA CachedKeyRecent ==
  ASSUME JwksInv, NEW k \in keys, NEW n \in Nat, clock - fetchedAt < n, n <= Ttl + MaxStaleness
  PROVE  lastPublished[k] # Never /\ clock - lastPublished[k] < Ttl + MaxStaleness + FetchTimeout
<1>1. lastPublished[k] # Never /\ fetchedAt <= lastPublished[k] + FetchTimeout
  BY DEF JwksInv, CachedInv
<1>2. /\ k \in Kids /\ lastPublished[k] \in Int /\ fetchedAt \in Int /\ clock \in Nat
      /\ FetchTimeout \in Nat
  BY JwksInstants DEF JwksInv
<1> QED
  BY <1>1, <1>2, JwksConstants

\* A key that GitHub has withdrawn is accepted for less than the TTL, the allowed
\* staleness and the duration of a fetch together (the sum that jwk_for computes, and not
\* the staleness alone): failing fetches, abandoned refreshes and rotations while an
\* answer is on its way included.
THEOREM ServedKeysRecent == JwksSpec => ServedKeyRecent
<1> DEFINE Claim == \A r \in Requests : stage[r] # "ok" /\ stage'[r] = "ok" =>
                      /\ lastPublished[kid'[r]] # Never
                      /\ clock - lastPublished[kid'[r]] < Ttl + MaxStaleness + FetchTimeout
<1>1. ASSUME JwksInv, [JwksNext]_jwksVars PROVE Claim
  <2> SUFFICES ASSUME NEW r \in Requests, stage[r] # "ok", stage'[r] = "ok"
               PROVE  /\ lastPublished[kid'[r]] # Never
                      /\ clock - lastPublished[kid'[r]] < Ttl + MaxStaleness + FetchTimeout
    OBVIOUS
  <2>1. /\ stage \in [Requests -> {"idle", "waiting"} \cup Refreshing \cup Answered]
        /\ kid \in [Requests -> Kids \cup {Nil}]
    BY <1>1 DEF JwksInv, JwksTypeOK
  <2>2. kid'[r] \in keys /\ \E n \in {Ttl, Ttl + MaxStaleness} : clock - fetchedAt < n
    <3> USE <2>1 DEF Goto
    <3>1. ASSUME NEW x \in Requests, NEW k \in Kids, Lookup(x, k)
          PROVE  kid'[r] \in keys /\ clock - fetchedAt < Ttl
      <4>1. x = r /\ CachedJwk(k) /\ kid'[r] = k
        BY <3>1 DEF Lookup
      <4> QED
        BY <4>1 DEF CachedJwk
    <3>2. ASSUME NEW x \in Requests, Refresh(x)
          PROVE  kid'[r] \in keys /\ clock - fetchedAt < Ttl
      <4>1. x = r /\ CachedJwk(kid[r]) /\ kid' = kid
        BY <3>2 DEF Refresh
      <4> QED
        BY <4>1 DEF CachedJwk
    <3>3. ASSUME NEW x \in Requests, Answer(x)
          PROVE  kid'[r] \in keys /\ clock - fetchedAt < Ttl + MaxStaleness
      BY <3>3 DEF Answer
    <3>4. ASSUME NEW x \in Requests, GithubServes(x) \/ StoreKeys(x) \/ FetchFails(x) PROVE FALSE
      BY <3>4 DEF GithubServes, StoreKeys, FetchFails
    <3>5. ASSUME NEW x \in Requests, ReturnJwk(x) \/ Cancel(x) PROVE FALSE
      BY <3>5 DEF ReturnJwk, Cancel
    <3>6. ~Rotate /\ ~ClockTick /\ ~UNCHANGED jwksVars
      BY DEF Rotate, ClockTick, jwksVars
    <3> QED
      BY <1>1, <3>1, <3>2, <3>3, <3>4, <3>5, <3>6 DEF JwksNext
  <2>3. \A n \in {Ttl, Ttl + MaxStaleness} : n \in Nat /\ n <= Ttl + MaxStaleness
    BY JwksConstants
  <2> QED
    BY <1>1, <2>2, <2>3, CachedKeyRecent
<1> QED
  BY <1>1, JwksInvariant, PTL DEF JwksSpec, ServedKeyRecent, Serves

\* GitHub is asked for its keys at most once per interval: last_attempt is set before
\* the fetch is sent, so failing and abandoned fetches count.
THEOREM FetchesAreSpaced == JwksSpec => FetchesSpaced
<1> DEFINE Claim == \A r \in Requests :
                      stage[r] # "fetch" /\ stage'[r] = "fetch" /\ lastFetch # Never =>
                        clock - lastFetch >= MinRefresh
<1>1. ASSUME JwksInv, [JwksNext]_jwksVars PROVE Claim
  <2> SUFFICES ASSUME NEW r \in Requests, stage[r] # "fetch", stage'[r] = "fetch", lastFetch # Never
               PROVE  clock - lastFetch >= MinRefresh
    OBVIOUS
  <2>1. stage \in [Requests -> {"idle", "waiting"} \cup Refreshing \cup Answered]
    BY <1>1 DEF JwksInv, JwksTypeOK
  <2>2. MayFetch
    <3> USE <2>1 DEF Goto
    <3>1. ASSUME NEW x \in Requests, NEW k \in Kids, Lookup(x, k) PROVE FALSE
      BY <3>1 DEF Lookup
    <3>2. ASSUME NEW x \in Requests, Refresh(x) PROVE MayFetch
      BY <3>2 DEF Refresh
    <3>3. ASSUME NEW x \in Requests, GithubServes(x) \/ StoreKeys(x) \/ FetchFails(x) PROVE FALSE
      BY <3>3 DEF GithubServes, StoreKeys, FetchFails
    <3>4. ASSUME NEW x \in Requests, Answer(x) \/ ReturnJwk(x) \/ Cancel(x) PROVE FALSE
      BY <3>4 DEF Answer, ReturnJwk, Cancel
    <3>5. ~Rotate /\ ~ClockTick /\ ~UNCHANGED jwksVars
      BY DEF Rotate, ClockTick, jwksVars
    <3> QED
      BY <1>1, <3>1, <3>2, <3>3, <3>4, <3>5 DEF JwksNext
  <2>3. lastAttempt = lastFetch
    BY <1>1 DEF JwksInv
  <2> QED
    BY <2>2, <2>3 DEF MayFetch
<1> QED
  BY <1>1, JwksInvariant, PTL DEF JwksSpec, FetchesSpaced
=============================================================================
