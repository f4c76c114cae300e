----------------------------- MODULE OidcReplay ------------------------------
(***************************************************************************)
(* One-time use of GitHub Actions OIDC tokens (src/auth.rs,                *)
(* authenticate_github_actions and record_jti).                            *)
(*                                                                         *)
(* A token is accepted in three steps of a worker thread: its expiry is    *)
(* checked against the wall clock, in whole seconds; the clocks are read;  *)
(* the jti is recorded under the mutex, until an instant of the monotonic  *)
(* clock.  No await separates them, but the thread may be preempted.       *)
(* Time is counted in ticks, several to the second: the monotonic clock    *)
(* shows the tick, the wall clock the second.                              *)
(***************************************************************************)
EXTENDS Integers, FiniteSets

CONSTANTS
  Tokens,    \* valid tokens of configured identities, with distinct jtis
  Exp,       \* Exp[t]: the exp claim, in seconds
  Attempts,  \* concurrent authentications
  Leeway,    \* JWT_LEEWAY_SECONDS
  Tps,       \* ticks per second
  MaxSeen,   \* MAX_SEEN_JTIS
  MayStall,  \* may time pass while an authentication is between two steps
  MaxTime,   \* bound on the clock, in ticks
  None

ASSUME OidcReplayAssumption ==
  /\ Exp \in [Tokens -> Nat]
  /\ Leeway \in Nat \ {0} /\ Tps \in Nat \ {0} /\ MaxSeen \in Nat \ {0} /\ MaxTime \in Nat
  /\ MayStall \in BOOLEAN
  /\ None \notin Tokens

VARIABLES
  pc, tok,    \* per attempt
  readNow,    \* per attempt: `now' of record_jti
  remaining,  \* per attempt: `remaining' of record_jti, in seconds
  seen,       \* seen_jtis, 0 where a token has no entry
  accepts,    \* history: the instants at which each token was accepted, in
              \* this life of the server
  now         \* the monotonic clock

slotVars == <<pc, tok, readNow, remaining>>
vars == <<slotVars, seen, accepts, now>>

\* unix_now, which truncates to seconds.
UnixNow == now \div Tps

Until(a) == readNow[a] + remaining[a] * Tps

TypeOK ==
  /\ pc \in [Attempts -> {"idle", "validated", "recording"}]
  /\ tok \in [Attempts -> Tokens \cup {None}]
  /\ \A a \in Attempts : pc[a] # "idle" => tok[a] \in Tokens
  /\ readNow \in [Attempts -> Nat]
  /\ remaining \in [Attempts -> Nat]
  /\ seen \in [Tokens -> Nat]
  /\ accepts \in [Tokens -> SUBSET Nat]
  /\ now \in Nat

Init ==
  /\ pc = [a \in Attempts |-> "idle"]
  /\ tok = [a \in Attempts |-> None]
  /\ readNow = [a \in Attempts |-> 0]
  /\ remaining = [a \in Attempts |-> 0]
  /\ seen = [t \in Tokens |-> 0]
  /\ accepts = [t \in Tokens |-> {}]
  /\ now = 0

-----------------------------------------------------------------------------
\* jsonwebtoken's expiry test: a token is expired when exp < now - leeway.
NotExpired(t) == UnixNow <= Exp[t] + Leeway

\* decode::<GithubActionsClaims>, and the identity is resolved.
Validate(a, t) ==
  /\ pc[a] = "idle"
  /\ NotExpired(t)
  /\ pc' = [pc EXCEPT ![a] = "validated"]
  /\ tok' = [tok EXCEPT ![a] = t]
  /\ UNCHANGED <<readNow, remaining, seen, accepts, now>>

\* Mutant: the leeway is left out.
MutantRemaining(exp) == IF exp > UnixNow THEN exp - UnixNow ELSE 0

\* exp.saturating_sub(unix_now()).saturating_add(JWT_LEEWAY_SECONDS)
Remaining(exp) == (IF exp > UnixNow THEN exp - UnixNow ELSE 0) + Leeway

\* record_jti reads both clocks before it takes the mutex.
ReadClocks(a) ==
  /\ pc[a] = "validated"
  /\ pc' = [pc EXCEPT ![a] = "recording"]
  /\ readNow' = [readNow EXCEPT ![a] = now]
  /\ remaining' = [remaining EXCEPT ![a] = Remaining(Exp[tok[a]])]
  /\ UNCHANGED <<tok, seen, accepts, now>>

Retained(a) == [t \in Tokens |-> IF seen[t] > readNow[a] THEN seen[t] ELSE 0]
Entries(m) == {t \in Tokens : m[t] > 0}

Return(a) ==
  /\ pc' = [pc EXCEPT ![a] = "idle"]
  /\ tok' = [tok EXCEPT ![a] = None]
  /\ readNow' = [readNow EXCEPT ![a] = 0]
  /\ remaining' = [remaining EXCEPT ![a] = 0]

\* Mutant: the limit is off by one.
MutantRecordLimit(a) ==
  LET kept == Retained(a) IN
  /\ pc[a] = "recording"
  /\ kept[tok[a]] = 0 /\ Cardinality(Entries(kept)) <= MaxSeen
  /\ seen' = [kept EXCEPT ![tok[a]] = Until(a)]
  /\ accepts' = [accepts EXCEPT ![tok[a]] = @ \cup {now}]
  /\ Return(a)
  /\ UNCHANGED now

\* The part of record_jti under the mutex: TokenReplayed and
\* ReplayCacheUnavailable refuse the token, otherwise it is accepted.
Record(a) ==
  LET kept == Retained(a) IN
  /\ pc[a] = "recording"
  /\ \/ /\ kept[tok[a]] > 0 \/ Cardinality(Entries(kept)) >= MaxSeen
        /\ seen' = kept
        /\ UNCHANGED accepts
     \/ /\ kept[tok[a]] = 0 /\ Cardinality(Entries(kept)) < MaxSeen
        /\ seen' = [kept EXCEPT ![tok[a]] = Until(a)]
        /\ accepts' = [accepts EXCEPT ![tok[a]] = @ \cup {now}]
  /\ Return(a)
  /\ UNCHANGED now

\* The server is restarted: seen_jtis is kept in memory only.
Restart ==
  /\ pc' = [a \in Attempts |-> "idle"]
  /\ tok' = [a \in Attempts |-> None]
  /\ readNow' = [a \in Attempts |-> 0]
  /\ remaining' = [a \in Attempts |-> 0]
  /\ seen' = [t \in Tokens |-> 0]
  /\ accepts' = [t \in Tokens |-> {}]
  /\ UNCHANGED now

Tick ==
  /\ now < MaxTime
  /\ MayStall \/ \A a \in Attempts : pc[a] = "idle"
  /\ now' = now + 1
  /\ UNCHANGED <<slotVars, seen, accepts>>

Next ==
  \/ \E a \in Attempts :
       (\E t \in Tokens : Validate(a, t)) \/ ReadClocks(a) \/ Record(a)
  \/ Restart
  \/ Tick

Spec == Init /\ [][Next]_vars

-----------------------------------------------------------------------------
(* Properties.                                                             *)

\* The instant at which token t and its leeway are over.
Deadline(t) == (Exp[t] + Leeway) * Tps

\* No token is accepted a second time before its expiry plus leeway, however
\* authentications are preempted and whatever fills the replay cache, unless the
\* server was restarted in between.
NoReplayBeforeDeadline ==
  \A t \in Tokens : \A u, v \in accepts[t] : u < v => v >= Deadline(t)

\* The cache respects its limit; when it is full it refuses, it does not evict.
SeenBounded == Cardinality(Entries(seen)) <= MaxSeen

\* One-time use, as the comment at record_jti's call and the test
\* github_actions_jti_is_single_use state it: a token is accepted at most once.
JtiSingleUse == \A t \in Tokens : Cardinality(accepts[t]) <= 1

-----------------------------------------------------------------------------
(* The inductive invariant behind NoReplayBeforeDeadline.                  *)

\* While a token can be accepted its jti stays recorded, for anyone who takes
\* the mutex before the deadline.
RecordedUntilDeadline ==
  \A t \in Tokens : accepts[t] # {} /\ now < Deadline(t) => seen[t] >= Deadline(t)

\* An entry about to be made outlives the deadline, though it is computed from
\* two clocks of different grain, and `retain' uses an instant of the past.
UntilCoversDeadline ==
  \A a \in Attempts : pc[a] = "recording" =>
    readNow[a] <= now /\ Until(a) >= Deadline(tok[a])

AcceptedInPast == \A t \in Tokens : \A u \in accepts[t] : u <= now

IndInv ==
  /\ TypeOK /\ RecordedUntilDeadline /\ UntilCoversDeadline /\ AcceptedInPast
  /\ NoReplayBeforeDeadline
=============================================================================
