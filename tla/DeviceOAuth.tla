----------------------------- MODULE DeviceOAuth -----------------------------
(***************************************************************************)
(* The exchange of a GitHub device-flow token for a session of the signer  *)
(* (src/auth.rs, complete_github_device_oauth and what it calls).          *)
(*                                                                         *)
(* An exchange slot is a handler future.  Between two awaits it is one     *)
(* atomic step; at an await it may be dropped, because the client went     *)
(* away, which runs the Drop of DeviceTokenUseGuard.  Each call to GitHub  *)
(* is two steps, GitHub acting on it and the signer seeing the answer, and *)
(* may fail after either: a revocation that timed out may have happened,   *)
(* or may still happen later.  The process may be restarted at any time;   *)
(* everything but GitHub's own state is in memory.                         *)
(***************************************************************************)
EXTENDS Integers, FiniteSets

CONSTANTS
  Tokens,      \* GitHub user tokens presented to the signer
  Class,       \* Class[t]: what GitHub and the configuration say of t's owner
  Exchanges,   \* concurrent exchanges (DEVICE_EXCHANGE_MAX_CONCURRENT of them)
  ReplayTtl,   \* DEVICE_TOKEN_REPLAY_TTL
  SessionTtl,  \* oauth_session_ttl_seconds
  MaxUsed,     \* MAX_USED_DEVICE_TOKENS
  MaxSessions, \* MAX_OAUTH_SESSIONS
  MaxTime,     \* bound on the clock
  None

Classes == {"good", "other_app", "no_scope", "denied", "no_2fa"}

ASSUME DeviceOAuthAssumption ==
  /\ Class \in [Tokens -> Classes]
  /\ ReplayTtl \in Nat \ {0} /\ SessionTtl \in Nat \ {0}
  /\ MaxUsed \in Nat \ {0} /\ MaxSessions \in Nat \ {0} /\ MaxTime \in Nat
  /\ None \notin Tokens

VARIABLES
  live,       \* GitHub: tokens not revoked
  orphans,    \* GitHub: revocations given up by the signer but still on their way
  pc, tok,    \* per exchange: program counter and token
  reply,      \* per exchange: GitHub's answer on its way back
  outcome,    \* per exchange: result of github_account_from_token
  mintNow,    \* per exchange: the instant read before the session lock
  inFlight,   \* DeviceTokenReplay::in_flight
  used,       \* DeviceTokenReplay::used, 0 where a token has no entry
  sessions,   \* oauth_sessions
  minted,     \* history: sessions ever minted from each token
  now         \* the monotonic clock

githubVars == <<live, orphans>>
slotVars == <<pc, tok, reply, outcome, mintNow>>
vars == <<githubVars, slotVars, inFlight, used, sessions, minted, now>>

Pc == {"idle", "check_sent", "check_back", "user_sent", "user_back",
       "revoke_sent", "revoke_back", "mint"}

TypeOK ==
  /\ live \subseteq Tokens /\ orphans \subseteq Tokens
  /\ pc \in [Exchanges -> Pc]
  /\ tok \in [Exchanges -> Tokens \cup {None}]
  /\ \A x \in Exchanges : pc[x] # "idle" => tok[x] \in Tokens
  /\ reply \in [Exchanges -> {"none", "ok", "refused"}]
  /\ outcome \in [Exchanges -> {"none", "granted", "denied"}]
  /\ mintNow \in [Exchanges -> Nat]
  /\ inFlight \subseteq Tokens
  /\ used \in [Tokens -> Nat]
  /\ sessions \subseteq [tok : Tokens, exp : Nat]
  /\ minted \in [Tokens -> Nat]
  /\ now \in Nat

Init ==
  /\ live = Tokens /\ orphans = {}
  /\ pc = [x \in Exchanges |-> "idle"]
  /\ tok = [x \in Exchanges |-> None]
  /\ reply = [x \in Exchanges |-> "none"]
  /\ outcome = [x \in Exchanges |-> "none"]
  /\ mintNow = [x \in Exchanges |-> 0]
  /\ inFlight = {}
  /\ used = [t \in Tokens |-> 0]
  /\ sessions = {}
  /\ minted = [t \in Tokens |-> 0]
  /\ now = 0

-----------------------------------------------------------------------------
Goto(x, l) == pc' = [pc EXCEPT ![x] = l]
Answer(x, a) == reply' = [reply EXCEPT ![x] = a]

\* `used' after its retain at the current instant, and the entries it has.
Retained == [t \in Tokens |-> IF used[t] > now THEN used[t] ELSE 0]
Entries(u) == {t \in Tokens : u[t] > 0}

\* Mutant: dropping the guard forgets to clear the in-flight entry.
MutantDropGuard(x) ==
  /\ pc' = [pc EXCEPT ![x] = "idle"]
  /\ tok' = [tok EXCEPT ![x] = None]
  /\ reply' = [reply EXCEPT ![x] = "none"]
  /\ outcome' = [outcome EXCEPT ![x] = "none"]
  /\ mintNow' = [mintNow EXCEPT ![x] = 0]
  /\ UNCHANGED inFlight

\* The exchange ends, with a result or with its future dropped: the guard
\* leaves scope and takes the token out of in_flight.
DropGuard(x) ==
  /\ pc' = [pc EXCEPT ![x] = "idle"]
  /\ tok' = [tok EXCEPT ![x] = None]
  /\ reply' = [reply EXCEPT ![x] = "none"]
  /\ outcome' = [outcome EXCEPT ![x] = "none"]
  /\ mintNow' = [mintNow EXCEPT ![x] = 0]
  /\ inFlight' = inFlight \ {tok[x]}

-----------------------------------------------------------------------------
\* Mutant: only the retained cache is consulted.
MutantBegin(x, t) ==
  /\ pc[x] = "idle"
  /\ used' = Retained
  /\ Retained[t] = 0
  /\ inFlight' = inFlight \cup {t}
  /\ tok' = [tok EXCEPT ![x] = t]
  /\ Goto(x, "check_sent")
  /\ UNCHANGED <<githubVars, reply, outcome, mintNow, sessions, minted, now>>

\* begin_device_token_use, and the check request is sent.
Begin(x, t) ==
  /\ pc[x] = "idle"
  /\ used' = Retained
  /\ Retained[t] = 0 /\ t \notin inFlight
  /\ inFlight' = inFlight \cup {t}
  /\ tok' = [tok EXCEPT ![x] = t]
  /\ Goto(x, "check_sent")
  /\ UNCHANGED <<githubVars, reply, outcome, mintNow, sessions, minted, now>>

\* TokenReplayed: the only effect is the retain.
BeginReplayed(x, t) ==
  /\ pc[x] = "idle"
  /\ Retained[t] > 0 \/ t \in inFlight
  /\ used' = Retained
  /\ UNCHANGED <<githubVars, slotVars, inFlight, sessions, minted, now>>

\* GitHub answers POST /applications/{id}/token: 404 for a token that is
\* revoked or of another application.
GithubCheck(x) ==
  /\ pc[x] = "check_sent"
  /\ Goto(x, "check_back")
  /\ Answer(x, IF tok[x] \in live /\ Class[tok[x]] # "other_app" THEN "ok" ELSE "refused")
  /\ UNCHANGED <<githubVars, tok, outcome, mintNow, inFlight, used, sessions, minted, now>>

\* check_github_oauth_token returns the scopes.  Without read:user the account
\* is not looked up, but the token is revoked all the same.
CheckOk(x) ==
  /\ pc[x] = "check_back" /\ reply[x] = "ok"
  /\ Answer(x, "none")
  /\ \/ /\ Class[tok[x]] = "no_scope"
        /\ outcome' = [outcome EXCEPT ![x] = "denied"]
        /\ Goto(x, "revoke_sent")
     \/ /\ Class[tok[x]] # "no_scope"
        /\ UNCHANGED outcome
        /\ Goto(x, "user_sent")
  /\ UNCHANGED <<githubVars, tok, mintNow, inFlight, used, sessions, minted, now>>

\* 404, or no usable answer (network, timeout, status, body): an early return.
CheckFails(x) ==
  /\ pc[x] \in {"check_sent", "check_back"}
  /\ DropGuard(x)
  /\ UNCHANGED <<githubVars, used, sessions, minted, now>>

\* GET /user
GithubUser(x) ==
  /\ pc[x] = "user_sent"
  /\ Goto(x, "user_back")
  /\ Answer(x, IF tok[x] \in live THEN "ok" ELSE "refused")
  /\ UNCHANGED <<githubVars, tok, outcome, mintNow, inFlight, used, sessions, minted, now>>

\* Mutant: a token whose owner is not eligible is accepted.
MutantUserBack(x) ==
  /\ pc[x] = "user_back"
  /\ Answer(x, "none")
  /\ outcome' = [outcome EXCEPT ![x] = IF reply[x] = "ok" /\ Class[tok[x]] # "denied"
                                       THEN "granted" ELSE "denied"]
  /\ Goto(x, "revoke_sent")
  /\ UNCHANGED <<githubVars, tok, mintNow, inFlight, used, sessions, minted, now>>

\* github_account_from_token: a configured identity with 2FA enabled, or an
\* error that is kept until the token has been revoked.
UserBack(x) ==
  /\ pc[x] = "user_back"
  /\ Answer(x, "none")
  /\ outcome' = [outcome EXCEPT ![x] = IF reply[x] = "ok" /\ Class[tok[x]] = "good"
                                       THEN "granted" ELSE "denied"]
  /\ Goto(x, "revoke_sent")
  /\ UNCHANGED <<githubVars, tok, mintNow, inFlight, used, sessions, minted, now>>

UserFails(x) ==
  /\ pc[x] \in {"user_sent", "user_back"}
  /\ Answer(x, "none")
  /\ outcome' = [outcome EXCEPT ![x] = "denied"]
  /\ Goto(x, "revoke_sent")
  /\ UNCHANGED <<githubVars, tok, mintNow, inFlight, used, sessions, minted, now>>

\* DELETE /applications/{id}/token: 204 and 404 are both success.
GithubRevoke(x) ==
  /\ pc[x] = "revoke_sent"
  /\ live' = live \ {tok[x]}
  /\ Goto(x, "revoke_back")
  /\ UNCHANGED <<orphans, tok, reply, outcome, mintNow, inFlight, used, sessions, minted, now>>

\* A call that is given up before GitHub acted on it may still be acted on.
Abandon(x) ==
  orphans' = IF pc[x] = "revoke_sent" THEN orphans \cup {tok[x]} ELSE orphans

\* Mutant: a failed revocation is only logged, and the exchange goes on.
MutantRevokeFails(x) ==
  /\ pc[x] \in {"revoke_sent", "revoke_back"}
  /\ Goto(x, "revoke_back")
  /\ Abandon(x)
  /\ UNCHANGED <<live, tok, reply, outcome, mintNow, inFlight, used, sessions, minted, now>>

\* TokenRevocationFailed: no session, and the token stays retryable.
RevokeFails(x) ==
  /\ pc[x] \in {"revoke_sent", "revoke_back"}
  /\ DropGuard(x)
  /\ Abandon(x)
  /\ UNCHANGED <<live, used, sessions, minted, now>>

\* The revocation succeeded: mark_consumed, then `outcome?', then the start of
\* mint_github_account_session up to its await on the session lock.
Consume(x) ==
  /\ pc[x] = "revoke_back"
  /\ \/ /\ Cardinality(Entries(Retained)) >= MaxUsed /\ Retained[tok[x]] = 0
        /\ used' = Retained
        /\ DropGuard(x)
     \/ /\ Cardinality(Entries(Retained)) < MaxUsed \/ Retained[tok[x]] > 0
        /\ used' = [Retained EXCEPT ![tok[x]] = now + ReplayTtl]
        /\ \/ outcome[x] = "denied" /\ DropGuard(x)
           \/ /\ outcome[x] = "granted"
              /\ mintNow' = [mintNow EXCEPT ![x] = now]
              /\ Goto(x, "mint")
              /\ UNCHANGED <<tok, reply, outcome, inFlight>>
  /\ UNCHANGED <<githubVars, sessions, minted, now>>

\* The sessions left by the retain, which uses the instant read before the lock.
LiveSessions(x) == {s \in sessions : s.exp > mintNow[x]}

\* Mutant: off by one at the limit.
MutantMint(x) ==
  /\ pc[x] = "mint"
  /\ Cardinality(LiveSessions(x)) <= MaxSessions
  /\ sessions' = LiveSessions(x) \cup {[tok |-> tok[x], exp |-> mintNow[x] + SessionTtl]}
  /\ minted' = [minted EXCEPT ![tok[x]] = @ + 1]
  /\ DropGuard(x)
  /\ UNCHANGED <<githubVars, used, now>>

\* The rest of mint_github_account_session, under the session lock.
Mint(x) ==
  /\ pc[x] = "mint"
  /\ \/ /\ Cardinality(LiveSessions(x)) >= MaxSessions
        /\ sessions' = LiveSessions(x)
        /\ UNCHANGED minted
     \/ /\ Cardinality(LiveSessions(x)) < MaxSessions
        /\ sessions' = LiveSessions(x) \cup {[tok |-> tok[x], exp |-> mintNow[x] + SessionTtl]}
        /\ minted' = [minted EXCEPT ![tok[x]] = @ + 1]
  /\ DropGuard(x)
  /\ UNCHANGED <<githubVars, used, now>>

-----------------------------------------------------------------------------
\* The client disconnects: the handler's future is dropped at its await.
Cancel(x) ==
  /\ pc[x] # "idle"
  /\ DropGuard(x)
  /\ Abandon(x)
  /\ UNCHANGED <<live, used, sessions, minted, now>>

\* The process is restarted.
Restart ==
  /\ orphans' = orphans \cup {tok[x] : x \in {y \in Exchanges : pc[y] = "revoke_sent"}}
  /\ pc' = [x \in Exchanges |-> "idle"]
  /\ tok' = [x \in Exchanges |-> None]
  /\ reply' = [x \in Exchanges |-> "none"]
  /\ outcome' = [x \in Exchanges |-> "none"]
  /\ mintNow' = [x \in Exchanges |-> 0]
  /\ inFlight' = {}
  /\ used' = [t \in Tokens |-> 0]
  /\ sessions' = {}
  /\ UNCHANGED <<live, minted, now>>

\* GitHub acts on a revocation nobody waits for, or forgets a token by itself.
GithubLateRevoke(t) ==
  /\ t \in orphans
  /\ live' = live \ {t}
  /\ orphans' = orphans \ {t}
  /\ UNCHANGED <<slotVars, inFlight, used, sessions, minted, now>>

GithubForgets(t) ==
  /\ t \in live
  /\ live' = live \ {t}
  /\ UNCHANGED <<orphans, slotVars, inFlight, used, sessions, minted, now>>

Tick ==
  /\ now < MaxTime
  /\ now' = now + 1
  /\ UNCHANGED <<githubVars, slotVars, inFlight, used, sessions, minted>>

-----------------------------------------------------------------------------
\* What happens to an exchange without its client: every await is bounded by
\* the 8 second timeout of the HTTP client.
Advance(x) ==
  \/ GithubCheck(x) \/ CheckOk(x) \/ CheckFails(x)
  \/ GithubUser(x) \/ UserBack(x) \/ UserFails(x)
  \/ GithubRevoke(x) \/ RevokeFails(x) \/ Consume(x) \/ Mint(x)

Next ==
  \/ \E x \in Exchanges :
       \/ \E t \in Tokens : Begin(x, t) \/ BeginReplayed(x, t)
       \/ Advance(x)
       \/ Cancel(x)
  \/ Restart
  \/ \E t \in Tokens : GithubLateRevoke(t) \/ GithubForgets(t)
  \/ Tick

Spec == Init /\ [][Next]_vars

FairSpec == Spec /\ \A x \in Exchanges : WF_vars(Advance(x))

-----------------------------------------------------------------------------
(* Properties.                                                             *)

\* A token buys at most one session, ever: not with two exchanges side by side,
\* not by retrying after a cancelled exchange or a failed revocation, not after
\* its replay entry expired, not after a restart has emptied the cache.
OneSessionPerToken == \A t \in Tokens : minted[t] <= 1

\* Fail closed: once a session was minted from a token, or the token entered the
\* replay cache, GitHub no longer accepts that token.
SpentTokensRevoked == \A t \in Tokens : minted[t] > 0 \/ used[t] > 0 => t \notin live

\* Sessions only go to owners that passed every check of the exchange, and every
\* session in memory comes from a token that was exchanged.
SessionsEligible == \A s \in sessions : Class[s.tok] = "good" /\ minted[s.tok] > 0

\* in_flight is exactly the set of tokens being exchanged, one exchange each: an
\* early return or a dropped future neither leaves an entry behind, which would
\* lock the user out, nor removes the entry of another exchange.
InFlightExact ==
  /\ inFlight = {tok[x] : x \in {y \in Exchanges : pc[y] # "idle"}}
  /\ \A x, y \in Exchanges : pc[x] # "idle" /\ pc[y] # "idle" /\ tok[x] = tok[y] => x = y

\* Both tables respect their limits.
TablesBounded ==
  /\ Cardinality(sessions) <= MaxSessions
  /\ Cardinality(Entries(used)) <= MaxUsed

\* Every token that entered in_flight leaves it.
TokenReleased == \A t \in Tokens : t \in inFlight ~> t \notin inFlight

-----------------------------------------------------------------------------
(* The inductive invariant behind the safety properties.                   *)

\* An exchange that runs has its token in in_flight, and no other has it.
Exclusive ==
  /\ \A x \in Exchanges : pc[x] # "idle" => tok[x] \in inFlight
  /\ \A x, y \in Exchanges : pc[x] # "idle" /\ pc[y] # "idle" /\ tok[x] = tok[y] => x = y
  /\ \A t \in inFlight : \E x \in Exchanges : pc[x] # "idle" /\ tok[x] = t

\* GitHub has told the exchange that its token is good.
Passed(x) ==
  \/ pc[x] \in {"user_sent", "user_back", "revoke_sent", "revoke_back", "mint"}
  \/ pc[x] = "check_back" /\ reply[x] = "ok"

\* A stale answer of GitHub is never about a token that was spent meanwhile.
PassedUnspent == \A x \in Exchanges : Passed(x) => minted[tok[x]] = 0

RevokedBeforeMint ==
  \A x \in Exchanges : pc[x] \in {"revoke_back", "mint"} => tok[x] \notin live

GrantedEligible ==
  \A x \in Exchanges :
    /\ outcome[x] = "granted" => pc[x] # "idle" /\ Class[tok[x]] = "good"
    /\ pc[x] = "mint" => outcome[x] = "granted"

IndInv ==
  /\ TypeOK /\ Exclusive /\ PassedUnspent /\ RevokedBeforeMint /\ GrantedEligible
  /\ OneSessionPerToken /\ SpentTokensRevoked /\ SessionsEligible
=============================================================================
