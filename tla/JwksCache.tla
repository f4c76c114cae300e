------------------------------ MODULE JwksCache ------------------------------
(***************************************************************************)
(* The cache of GitHub's OIDC signing keys (src/auth.rs, cached_jwk,       *)
(* jwk_for and fetch_jwks).                                                *)
(*                                                                         *)
(* A request that misses the cache queues for the jwks_refresh mutex,      *)
(* looks again, and fetches the key set unless the last attempt was too    *)
(* recent.  A fetch may fail or be abandoned with its request at any       *)
(* point; GitHub may rotate its keys at any time.  Under the mutex the     *)
(* cache has one writer, so each stretch between the fetch and the other   *)
(* awaits is one step.                                                     *)
(***************************************************************************)
EXTENDS Integers, FiniteSets

CONSTANTS
  Kids,          \* key ids that GitHub may publish or a token may name
  Requests,      \* concurrent authentications
  Ttl,           \* jwks_ttl_seconds
  MaxStaleness,  \* JWKS_MAX_STALENESS
  MinRefresh,    \* JWKS_MIN_REFRESH_INTERVAL
  FetchTimeout,  \* timeout of the HTTP client
  MaxClock,       \* bound on the clock
  Nil

ASSUME JwksCacheAssumption ==
  /\ {Ttl, MaxStaleness, MinRefresh, FetchTimeout, MaxClock} \subseteq Nat
  /\ Nil \notin Kids \cup Requests

Never == -1

VARIABLES
  published,      \* GitHub: the key ids of the current key set
  lastPublished,  \* history: the last instant at which GitHub published each key
  keys, fetchedAt, lastAttempt,  \* JwksCache
  holder,         \* the request that holds jwks_refresh
  stage, kid,     \* per request
  snapshot,       \* per request: the key set on its way from GitHub
  sentAt,         \* per request: when its fetch was sent
  lastFetch,      \* history: when a fetch was last sent
  clock

githubVars == <<published, lastPublished>>
cacheVars == <<keys, fetchedAt, lastAttempt>>
jwksVars == <<githubVars, cacheVars, holder, stage, kid, snapshot, sentAt, lastFetch, clock>>

Refreshing == {"fetch", "fetched", "final"}
Answered == {"ok", "invalid", "discovery"}
Instant == Nat \cup {Never}

\* Well-typed, and the mutex is held by the one request that is refreshing.
JwksTypeOK ==
  /\ published \subseteq Kids /\ keys \subseteq Kids
  /\ lastPublished \in [Kids -> Instant]
  /\ fetchedAt \in Instant /\ lastAttempt \in Instant /\ lastFetch \in Instant
  /\ stage \in [Requests -> {"idle", "waiting"} \cup Refreshing \cup Answered]
  /\ kid \in [Requests -> Kids \cup {Nil}]
  /\ snapshot \in [Requests -> SUBSET Kids]
  /\ sentAt \in [Requests -> Nat]
  /\ holder \in Requests \cup {Nil}
  /\ \A r \in Requests : stage[r] \in Refreshing <=> holder = r
  /\ clock \in Nat

JwksInit ==
  /\ published \in SUBSET Kids \ {{}}
  /\ lastPublished = [k \in Kids |-> IF k \in published THEN 0 ELSE Never]
  /\ keys = {} /\ fetchedAt = Never /\ lastAttempt = Never /\ lastFetch = Never
  /\ holder = Nil
  /\ stage = [r \in Requests |-> "idle"]
  /\ kid = [r \in Requests |-> Nil]
  /\ snapshot = [r \in Requests |-> {}]
  /\ sentAt = [r \in Requests |-> 0]
  /\ clock = 0

-----------------------------------------------------------------------------
Goto(r, l) == stage' = [stage EXCEPT ![r] = l]

\* cached_jwk: a hit needs a key set younger than the TTL.
CachedJwk(k) == fetchedAt # Never /\ clock - fetchedAt < Ttl /\ k \in keys

\* The first look at the cache.
Lookup(r, k) ==
  /\ stage[r] = "idle"
  /\ kid' = [kid EXCEPT ![r] = k]
  /\ Goto(r, IF CachedJwk(k) THEN "ok" ELSE "waiting")
  /\ UNCHANGED <<githubVars, cacheVars, holder, snapshot, sentAt, lastFetch, clock>>

MayFetch == lastAttempt = Never \/ clock - lastAttempt >= MinRefresh

\* Mutant: the attempt is noted when it has succeeded.
MutantRefresh(r) ==
  /\ stage[r] = "waiting" /\ holder = Nil
  /\ ~CachedJwk(kid[r]) /\ MayFetch
  /\ holder' = r
  /\ Goto(r, "fetch")
  /\ sentAt' = [sentAt EXCEPT ![r] = clock]
  /\ lastFetch' = clock
  /\ UNCHANGED <<cacheVars, githubVars, kid, snapshot, clock>>

\* The mutex is taken and the cache looked at again; last_attempt is set before
\* the fetch is sent.
Refresh(r) ==
  /\ stage[r] = "waiting" /\ holder = Nil
  /\ \/ /\ CachedJwk(kid[r])
        /\ Goto(r, "ok")
        /\ UNCHANGED <<holder, lastAttempt, sentAt, lastFetch>>
     \/ /\ ~CachedJwk(kid[r]) /\ MayFetch
        /\ holder' = r
        /\ lastAttempt' = clock
        /\ Goto(r, "fetch")
        /\ sentAt' = [sentAt EXCEPT ![r] = clock]
        /\ lastFetch' = clock
     \/ /\ ~CachedJwk(kid[r]) /\ ~MayFetch
        /\ holder' = r
        /\ Goto(r, "final")
        /\ UNCHANGED <<lastAttempt, sentAt, lastFetch>>
  /\ UNCHANGED <<githubVars, keys, fetchedAt, kid, snapshot, clock>>

\* GitHub answers with its key set as it is at that moment.
GithubServes(r) ==
  /\ stage[r] = "fetch"
  /\ snapshot' = [snapshot EXCEPT ![r] = published]
  /\ Goto(r, "fetched")
  /\ UNCHANGED <<githubVars, cacheVars, holder, kid, sentAt, lastFetch, clock>>

\* The answer is parsed and replaces the cached key set.
StoreKeys(r) ==
  /\ stage[r] = "fetched"
  /\ keys' = snapshot[r]
  /\ fetchedAt' = clock
  /\ Goto(r, "final")
  /\ UNCHANGED <<githubVars, lastAttempt, holder, kid, snapshot, sentAt, lastFetch, clock>>

\* Mutant: a failed fetch renews the cached key set.
MutantFetchFails(r) ==
  /\ stage[r] \in {"fetch", "fetched"}
  /\ fetchedAt' = clock
  /\ Goto(r, "final")
  /\ UNCHANGED <<githubVars, keys, lastAttempt, holder, kid, snapshot, sentAt, lastFetch, clock>>

\* Network error, bad status, oversized or unusable document: the cache is kept.
FetchFails(r) ==
  /\ stage[r] \in {"fetch", "fetched"}
  /\ Goto(r, "final")
  /\ UNCHANGED <<githubVars, cacheVars, holder, kid, snapshot, sentAt, lastFetch, clock>>

\* Mutant: the mutex is kept when key discovery fails.
MutantAnswer(r) ==
  /\ stage[r] = "final"
  /\ Goto(r, IF fetchedAt = Never THEN "discovery" ELSE "invalid")
  /\ holder' = IF fetchedAt = Never THEN holder ELSE Nil
  /\ UNCHANGED <<githubVars, cacheVars, kid, snapshot, sentAt, lastFetch, clock>>

\* The end of jwk_for: a key set past its TTL is still used for a while.
Answer(r) ==
  LET usable == fetchedAt # Never /\ clock - fetchedAt < Ttl + MaxStaleness IN
  /\ stage[r] = "final"
  /\ Goto(r, IF ~usable THEN "discovery" ELSE IF kid[r] \in keys THEN "ok" ELSE "invalid")
  /\ holder' = Nil
  /\ UNCHANGED <<githubVars, cacheVars, kid, snapshot, sentAt, lastFetch, clock>>

\* The caller has the answer.
ReturnJwk(r) ==
  /\ stage[r] \in Answered
  /\ Goto(r, "idle")
  /\ kid' = [kid EXCEPT ![r] = Nil]
  /\ snapshot' = [snapshot EXCEPT ![r] = {}]
  /\ UNCHANGED <<githubVars, cacheVars, holder, sentAt, lastFetch, clock>>

\* Mutant: a cancelled refresh does not release the mutex.
MutantCancel(r) ==
  /\ stage[r] \in {"waiting"} \cup Refreshing
  /\ Goto(r, "idle")
  /\ kid' = [kid EXCEPT ![r] = Nil]
  /\ snapshot' = [snapshot EXCEPT ![r] = {}]
  /\ UNCHANGED <<githubVars, cacheVars, holder, sentAt, lastFetch, clock>>

\* The client goes away; its future, and the mutex guard with it, is dropped.
Cancel(r) ==
  /\ stage[r] \in {"waiting"} \cup Refreshing
  /\ Goto(r, "idle")
  /\ holder' = IF holder = r THEN Nil ELSE holder
  /\ kid' = [kid EXCEPT ![r] = Nil]
  /\ snapshot' = [snapshot EXCEPT ![r] = {}]
  /\ UNCHANGED <<githubVars, cacheVars, sentAt, lastFetch, clock>>

-----------------------------------------------------------------------------
\* GitHub rotates its keys.
Rotate ==
  /\ published' \in SUBSET Kids \ {{}}
  /\ lastPublished' = [k \in Kids |-> IF k \in published' THEN clock ELSE lastPublished[k]]
  /\ UNCHANGED <<cacheVars, holder, stage, kid, snapshot, sentAt, lastFetch, clock>>

\* Time passes; no fetch outlives the timeout of the HTTP client.
ClockTick ==
  /\ clock < MaxClock
  /\ \A r \in Requests : stage[r] \in {"fetch", "fetched"} => clock < sentAt[r] + FetchTimeout
  /\ clock' = clock + 1
  /\ lastPublished' = [k \in Kids |-> IF k \in published THEN clock + 1 ELSE lastPublished[k]]
  /\ UNCHANGED <<published, cacheVars, holder, stage, kid, snapshot, sentAt, lastFetch>>

JwksNext ==
  \/ \E r \in Requests :
       \/ \E k \in Kids : Lookup(r, k)
       \/ Refresh(r) \/ GithubServes(r) \/ StoreKeys(r) \/ FetchFails(r) \/ Answer(r)
       \/ ReturnJwk(r) \/ Cancel(r)
  \/ Rotate
  \/ ClockTick

JwksSpec == JwksInit /\ [][JwksNext]_jwksVars

\* The mutex serves its waiters in order, and every fetch ends, at the latest
\* by its timeout.
JwksFairSpec ==
  /\ JwksSpec
  /\ \A r \in Requests :
       /\ SF_jwksVars(Refresh(r))
       /\ WF_jwksVars(StoreKeys(r) \/ FetchFails(r) \/ Answer(r))

-----------------------------------------------------------------------------
(* Properties.                                                             *)

Serves(r) == stage[r] # "ok" /\ stage'[r] = "ok"

\* The comment on JWKS_MAX_STALENESS, src/auth.rs:38: without GitHub "previously
\* fetched keys remain usable for this long after their last successful fetch".  The
\* end of jwk_for adds the lifetime of a fresh key set to it, so this does not hold: not
\* even of a request that asked GitHub in vain at this very instant and was not held up.
StaleKeysAsDocumented ==
  [][\A r \in Requests : Serves(r) /\ stage[r] = "final" /\ lastFetch = clock /\ sentAt[r] = clock
       => clock - fetchedAt <= MaxStaleness]_jwksVars

\* What does hold, with the sum that jwk_for computes: a key that GitHub has withdrawn
\* is accepted for less than the TTL, the allowed staleness and the duration of a fetch
\* together, whatever happens to the refreshes.
ServedKeyRecent ==
  [][\A r \in Requests : Serves(r) =>
       /\ lastPublished[kid'[r]] # Never
       /\ clock - lastPublished[kid'[r]] < Ttl + MaxStaleness + FetchTimeout]_jwksVars

\* GitHub is asked at most once per interval, also when fetches fail, are
\* abandoned, or are provoked with unknown key ids.
FetchesSpaced ==
  [][\A r \in Requests : stage[r] # "fetch" /\ stage'[r] = "fetch" /\ lastFetch # Never =>
       clock - lastFetch >= MinRefresh]_jwksVars

\* A request that waits for the refresh of another one gets its turn at the mutex, or is
\* gone: neither a failing nor an abandoned refresh keeps the others out.
WaitersAnswered == \A r \in Requests : stage[r] = "waiting" ~> stage[r] # "waiting"

-----------------------------------------------------------------------------
(* The inductive invariant behind the properties.                          *)

\* GitHub's keys are published now, and none was published in the future.
PublishedInv ==
  \A k \in Kids : lastPublished[k] <= clock /\ (k \in published => lastPublished[k] = clock)

\* A fetch under way is within its timeout; what it brings was published after it was
\* sent.
FetchInv ==
  \A r \in Requests :
    /\ stage[r] \in {"fetch", "fetched"} => sentAt[r] <= clock /\ clock <= sentAt[r] + FetchTimeout
    /\ stage[r] = "fetched" => \A k \in snapshot[r] : sentAt[r] <= lastPublished[k]

\* What is cached was published when the fetch that brought it was sent, or later.
CachedInv ==
  \A k \in keys :
    fetchedAt # Never /\ lastPublished[k] # Never /\ fetchedAt <= lastPublished[k] + FetchTimeout

JwksInv == JwksTypeOK /\ lastFetch = lastAttempt /\ PublishedInv /\ FetchInv /\ CachedInv
=============================================================================
