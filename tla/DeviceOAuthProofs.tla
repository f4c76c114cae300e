-------------------------- MODULE DeviceOAuthProofs --------------------------
(***************************************************************************)
(* Proofs about DeviceOAuth, for any set of tokens and exchanges and any   *)
(* limits.  The argument: a session is minted only by an exchange that     *)
(* GitHub once told its token is live (Passed); while it runs no other     *)
(* exchange has the token (Exclusive), and when it mints the token has     *)
(* been revoked (RevokedBeforeMint), so that no exchange passes after it.  *)
(***************************************************************************)
EXTENDS DeviceOAuth, FiniteSetTheorems, TLAPS

\* The initial state satisfies the type invariant.
LEMMA InitType == Init => TypeOK
  BY DeviceOAuthAssumption DEF Init, TypeOK, Pc

\* Dropping a guard keeps the slots well typed.
LEMMA DropGuardType ==
  ASSUME TypeOK, NEW x \in Exchanges, DropGuard(x)
  PROVE  /\ pc' \in [Exchanges -> Pc]
         /\ tok' \in [Exchanges -> Tokens \cup {None}]
         /\ \A y \in Exchanges : pc'[y] # "idle" => tok'[y] \in Tokens
         /\ reply' \in [Exchanges -> {"none", "ok", "refused"}]
         /\ outcome' \in [Exchanges -> {"none", "granted", "denied"}]
         /\ mintNow' \in [Exchanges -> Nat]
         /\ inFlight' \subseteq Tokens
  BY DEF TypeOK, DropGuard, Pc

\* What the replay cache keeps is well typed.
LEMMA RetainedType == TypeOK => Retained \in [Tokens -> Nat]
  BY DEF TypeOK, Retained

\* Every step keeps the type invariant.
LEMMA NextType == TypeOK /\ [Next]_vars => TypeOK'
<1> SUFFICES ASSUME TypeOK, [Next]_vars PROVE TypeOK'
  OBVIOUS
<1> USE DeviceOAuthAssumption
<1>1. ASSUME NEW x \in Exchanges, NEW t \in Tokens, Begin(x, t) PROVE TypeOK'
  BY <1>1, RetainedType DEF TypeOK, Begin, Goto, Pc, githubVars
<1>2. ASSUME NEW x \in Exchanges, NEW t \in Tokens, BeginReplayed(x, t) PROVE TypeOK'
  BY <1>2, RetainedType DEF TypeOK, BeginReplayed, githubVars, slotVars
<1>3. ASSUME NEW x \in Exchanges, GithubCheck(x) PROVE TypeOK'
  BY <1>3 DEF TypeOK, GithubCheck, Goto, Answer, Pc, githubVars
<1>4. ASSUME NEW x \in Exchanges, CheckOk(x) PROVE TypeOK'
  BY <1>4 DEF TypeOK, CheckOk, Goto, Answer, Pc, githubVars
<1>5. ASSUME NEW x \in Exchanges, CheckFails(x) PROVE TypeOK'
  BY <1>5, DropGuardType DEF TypeOK, CheckFails, githubVars
<1>6. ASSUME NEW x \in Exchanges, GithubUser(x) PROVE TypeOK'
  BY <1>6 DEF TypeOK, GithubUser, Goto, Answer, Pc, githubVars
<1>7. ASSUME NEW x \in Exchanges, UserBack(x) PROVE TypeOK'
  BY <1>7 DEF TypeOK, UserBack, Goto, Answer, Pc, githubVars
<1>8. ASSUME NEW x \in Exchanges, UserFails(x) PROVE TypeOK'
  BY <1>8 DEF TypeOK, UserFails, Goto, Answer, Pc, githubVars
<1>9. ASSUME NEW x \in Exchanges, GithubRevoke(x) PROVE TypeOK'
  BY <1>9 DEF TypeOK, GithubRevoke, Goto, Pc
<1>10. ASSUME NEW x \in Exchanges, RevokeFails(x) PROVE TypeOK'
  BY <1>10, DropGuardType DEF TypeOK, RevokeFails, Abandon
<1>11. ASSUME NEW x \in Exchanges, Consume(x) PROVE TypeOK'
  <2>1. used' \in [Tokens -> Nat]
    BY <1>11, RetainedType DEF TypeOK, Consume
  <2>2. CASE DropGuard(x)
    BY <1>11, <2>1, <2>2, DropGuardType DEF TypeOK, Consume, githubVars
  <2>3. CASE /\ mintNow' = [mintNow EXCEPT ![x] = now]
             /\ Goto(x, "mint")
             /\ UNCHANGED <<tok, reply, outcome, inFlight>>
    BY <1>11, <2>1, <2>3 DEF TypeOK, Consume, Goto, Pc, githubVars
  <2> QED
    BY <1>11, <2>2, <2>3 DEF Consume
<1>12. ASSUME NEW x \in Exchanges, Mint(x) PROVE TypeOK'
  <2>1. sessions' \subseteq [tok : Tokens, exp : Nat] /\ minted' \in [Tokens -> Nat]
    BY <1>12 DEF TypeOK, Mint, LiveSessions
  <2> QED
    BY <1>12, <2>1, DropGuardType DEF TypeOK, Mint, githubVars
<1>13. ASSUME NEW x \in Exchanges, Cancel(x) PROVE TypeOK'
  BY <1>13, DropGuardType DEF TypeOK, Cancel, Abandon
<1>14. CASE Restart
  BY <1>14 DEF TypeOK, Restart, Pc
<1>15. ASSUME NEW t \in Tokens, GithubLateRevoke(t) \/ GithubForgets(t) PROVE TypeOK'
  BY <1>15 DEF TypeOK, GithubLateRevoke, GithubForgets, slotVars
<1>16. CASE Tick
  BY <1>16 DEF TypeOK, Tick, githubVars, slotVars
<1>17. CASE UNCHANGED vars
  BY <1>17 DEF TypeOK, vars, githubVars, slotVars
<1> QED
  BY <1>1, <1>2, <1>3, <1>4, <1>5, <1>6, <1>7, <1>8, <1>9, <1>10, <1>11, <1>12, <1>13,
     <1>14, <1>15, <1>16, <1>17 DEF Next, Advance

\* The type invariant holds in every reachable state of the exchange.
THEOREM TypeCorrect == Spec => []TypeOK
  BY InitType, NextType, PTL DEF Spec

-----------------------------------------------------------------------------
\* The initial state satisfies the inductive invariant.
LEMMA InitInv == Init => IndInv
  BY InitType, DeviceOAuthAssumption
  DEF Init, IndInv, Exclusive, PassedUnspent, Passed, RevokedBeforeMint, GrantedEligible,
      OneSessionPerToken, SpentTokensRevoked, SessionsEligible

\* Every step keeps the inductive invariant.
LEMMA NextInv == IndInv /\ [Next]_vars => IndInv'
<1> SUFFICES ASSUME IndInv, [Next]_vars PROVE IndInv'
  OBVIOUS
<1>t. TypeOK /\ TypeOK'
  BY NextType DEF IndInv
<1> USE <1>t
<1> DEFINE Parts == /\ Exclusive /\ PassedUnspent /\ RevokedBeforeMint /\ GrantedEligible
                    /\ OneSessionPerToken /\ SpentTokensRevoked /\ SessionsEligible
<1> USE DEF IndInv, TypeOK, Exclusive, PassedUnspent, Passed, RevokedBeforeMint, GrantedEligible,
            OneSessionPerToken, SpentTokensRevoked, SessionsEligible
<1>1. ASSUME NEW x \in Exchanges, NEW t \in Tokens, Begin(x, t) PROVE Parts'
  BY <1>1 DEF Begin, Retained, Goto, githubVars
<1>2. ASSUME NEW x \in Exchanges, NEW t \in Tokens, BeginReplayed(x, t) PROVE Parts'
  BY <1>2 DEF BeginReplayed, Retained, githubVars, slotVars
<1>3. ASSUME NEW x \in Exchanges, GithubCheck(x) PROVE Parts'
  BY <1>3 DEF GithubCheck, Goto, Answer, githubVars
<1>4. ASSUME NEW x \in Exchanges, CheckOk(x) PROVE Parts'
  BY <1>4 DEF CheckOk, Goto, Answer, githubVars
<1>5. ASSUME NEW x \in Exchanges, CheckFails(x) PROVE Parts'
  BY <1>5 DEF CheckFails, DropGuard, githubVars
<1>6. ASSUME NEW x \in Exchanges, GithubUser(x) PROVE Parts'
  BY <1>6 DEF GithubUser, Goto, Answer, githubVars
<1>7. ASSUME NEW x \in Exchanges, UserBack(x) PROVE Parts'
  BY <1>7 DEF UserBack, Goto, Answer, githubVars
<1>8. ASSUME NEW x \in Exchanges, UserFails(x) PROVE Parts'
  BY <1>8 DEF UserFails, Goto, Answer, githubVars
<1>9. ASSUME NEW x \in Exchanges, GithubRevoke(x) PROVE Parts'
  BY <1>9 DEF GithubRevoke, Goto
<1>10. ASSUME NEW x \in Exchanges, RevokeFails(x) PROVE Parts'
  BY <1>10 DEF RevokeFails, DropGuard, Abandon
<1>11. ASSUME NEW x \in Exchanges, Consume(x) PROVE Parts'
  <2>1. \A t \in Tokens : used'[t] > 0 => t \notin live
    BY <1>11 DEF Consume, Retained
  <2>2. pc[x] = "revoke_back" /\ UNCHANGED <<live, sessions, minted>>
    BY <1>11 DEF Consume, githubVars
  <2>3. CASE DropGuard(x)
    BY <2>1, <2>2, <2>3 DEF DropGuard
  <2>4. CASE /\ outcome[x] = "granted"
             /\ Goto(x, "mint")
             /\ UNCHANGED <<tok, reply, outcome, inFlight>>
    BY <1>11, <2>1, <2>2, <2>4 DEF Consume, Goto
  <2> QED
    BY <1>11, <2>3, <2>4 DEF Consume
<1>12. ASSUME NEW x \in Exchanges, Mint(x) PROVE Parts'
  BY <1>12, SMTT(60) DEF Mint, LiveSessions, DropGuard, githubVars
<1>13. ASSUME NEW x \in Exchanges, Cancel(x) PROVE Parts'
  BY <1>13 DEF Cancel, DropGuard, Abandon
<1>14. CASE Restart
  BY <1>14 DEF Restart
<1>15. ASSUME NEW t \in Tokens, GithubLateRevoke(t) \/ GithubForgets(t) PROVE Parts'
  BY <1>15 DEF GithubLateRevoke, GithubForgets, slotVars
<1>16. CASE Tick
  BY <1>16 DEF Tick, githubVars, slotVars
<1>17. CASE UNCHANGED vars
  BY <1>17 DEF vars, githubVars, slotVars
<1> QED
  BY <1>1, <1>2, <1>3, <1>4, <1>5, <1>6, <1>7, <1>8, <1>9, <1>10, <1>11, <1>12, <1>13, <1>14, <1>15, <1>16, <1>17 DEF Next, Advance

\* The inductive invariant holds in every reachable state.
LEMMA Invariance == Spec => []IndInv
  BY InitInv, NextInv, PTL DEF Spec

\* complete_github_device_oauth mints at most one session from a token, however
\* exchanges overlap, are cancelled, fail and are retried, across restarts.
THEOREM OneSession == Spec => []OneSessionPerToken
  BY Invariance, PTL DEF IndInv

\* A token that bought a session or entered the replay cache is revoked.
THEOREM FailClosed == Spec => []SpentTokensRevoked
  BY Invariance, PTL DEF IndInv

\* Every session in memory belongs to an eligible account.
THEOREM Eligible == Spec => []SessionsEligible
  BY Invariance, PTL DEF IndInv

\* in_flight is the set of tokens being exchanged, one exchange each.
THEOREM InFlight == Spec => []InFlightExact
<1>1. IndInv => InFlightExact
  BY DEF IndInv, TypeOK, Exclusive, InFlightExact
<1> QED
  BY <1>1, Invariance, PTL

-----------------------------------------------------------------------------
\* The tables as the code keeps them: finite, and never above their limit.
TablesInv ==
  /\ IsFiniteSet(sessions) /\ Cardinality(sessions) <= MaxSessions
  /\ IsFiniteSet(Entries(used)) /\ Cardinality(Entries(used)) <= MaxUsed

\* retain never makes the replay cache grow.
LEMMA RetainedSmaller ==
  ASSUME TypeOK, TablesInv
  PROVE  /\ IsFiniteSet(Entries(Retained))
         /\ Cardinality(Entries(Retained)) \in Nat
         /\ Cardinality(Entries(Retained)) <= MaxUsed
<1>1. Entries(Retained) \subseteq Entries(used)
  BY DEF TypeOK, Entries, Retained
<1> QED
  BY <1>1, FS_Subset, FS_CardinalityType, DeviceOAuthAssumption DEF TablesInv

\* Restart and every step of an exchange keep both tables within their limits.
LEMMA NextTables == TypeOK /\ TablesInv /\ [Next]_vars => TablesInv'
<1> SUFFICES ASSUME TypeOK, TablesInv, [Next]_vars PROVE TablesInv'
  OBVIOUS
<1> USE DeviceOAuthAssumption
<1>1. ASSUME used' = Retained, UNCHANGED sessions PROVE TablesInv'
  BY <1>1, RetainedSmaller DEF TablesInv, Entries
<1>2. ASSUME UNCHANGED <<used, sessions>> PROVE TablesInv'
  BY <1>2 DEF TablesInv, Entries
<1>3. ASSUME NEW x \in Exchanges, Consume(x) PROVE TablesInv'
  <2>1. CASE used' = Retained
    BY <1>1, <1>3, <2>1 DEF Consume
  <2>2. CASE /\ Cardinality(Entries(Retained)) < MaxUsed \/ Retained[tok[x]] > 0
             /\ used' = [Retained EXCEPT ![tok[x]] = now + ReplayTtl]
    <3>1. tok[x] \in Tokens /\ Retained \in [Tokens -> Nat] /\ now + ReplayTtl > 0
      BY <1>3, RetainedType DEF Consume, TypeOK
    <3>2. Entries(used') = Entries(Retained) \cup {tok[x]}
      BY <2>2, <3>1 DEF Entries
    <3>3. IsFiniteSet(Entries(used')) /\ Cardinality(Entries(used')) <= MaxUsed
      <4>1. CASE tok[x] \in Entries(Retained)
        <5>1. Entries(used') = Entries(Retained)
          BY <3>2, <4>1
        <5> QED
          BY <5>1, RetainedSmaller
      <4>2. CASE tok[x] \notin Entries(Retained)
        <5>1. Cardinality(Entries(Retained)) < MaxUsed
          BY <2>2, <3>1, <4>2 DEF Entries
        <5>2. /\ IsFiniteSet(Entries(Retained) \cup {tok[x]})
              /\ Cardinality(Entries(Retained) \cup {tok[x]})
                   = Cardinality(Entries(Retained)) + 1
          BY <4>2, RetainedSmaller, FS_AddElement
        <5> QED
          BY <3>2, <5>1, <5>2, RetainedSmaller
      <4> QED
        BY <4>1, <4>2
    <3> QED
      BY <1>3, <3>3 DEF TablesInv, Consume, Entries
  <2> QED
    BY <1>3, <2>1, <2>2 DEF Consume
<1>4. ASSUME NEW x \in Exchanges, Mint(x) PROVE TablesInv'
  <2> DEFINE new == [tok |-> tok[x], exp |-> mintNow[x] + SessionTtl]
  <2>1. LiveSessions(x) \subseteq sessions
    BY DEF LiveSessions
  <2>2. /\ IsFiniteSet(LiveSessions(x))
        /\ Cardinality(LiveSessions(x)) \in Nat
        /\ Cardinality(LiveSessions(x)) <= MaxSessions
    BY <2>1, FS_Subset, FS_CardinalityType DEF TablesInv
  <2>3. CASE sessions' = LiveSessions(x)
    BY <1>4, <2>2, <2>3 DEF TablesInv, Mint, Entries
  <2>4. CASE /\ Cardinality(LiveSessions(x)) < MaxSessions
             /\ sessions' = LiveSessions(x) \cup {new}
    <3>1. /\ IsFiniteSet(LiveSessions(x) \cup {new})
          /\ \/ Cardinality(LiveSessions(x) \cup {new}) = Cardinality(LiveSessions(x))
             \/ Cardinality(LiveSessions(x) \cup {new}) = Cardinality(LiveSessions(x)) + 1
      BY <2>2, FS_AddElement
    <3> HIDE DEF new
    <3>2. IsFiniteSet(sessions') /\ Cardinality(sessions') <= MaxSessions
      BY <2>2, <2>4, <3>1
    <3> QED
      BY <1>4, <3>2 DEF TablesInv, Mint, Entries
  <2> QED
    BY <1>4, <2>3, <2>4 DEF Mint
<1>5. CASE Restart
  <2>1. sessions' = {} /\ Entries(used') = {}
    BY <1>5 DEF Restart, Entries
  <2> QED
    BY <2>1, FS_EmptySet DEF TablesInv, Entries
<1> QED
  BY <1>1, <1>2, <1>3, <1>4, <1>5
  DEF Next, Advance, Begin, BeginReplayed, GithubCheck, CheckOk, CheckFails, GithubUser, UserBack,
      UserFails, GithubRevoke, RevokeFails, Cancel, GithubLateRevoke, GithubForgets, Tick, vars

\* oauth_sessions and the replay cache never exceed their limits.
THEOREM Bounded == Spec => []TablesBounded
<1>1. Init => TablesInv
  <2> SUFFICES ASSUME Init PROVE TablesInv
    OBVIOUS
  <2>1. sessions = {} /\ Entries(used) = {}
    BY DEF Init, Entries
  <2> QED
    BY <2>1, FS_EmptySet, DeviceOAuthAssumption DEF TablesInv
<1>2. TablesInv => TablesBounded
  BY DEF TablesInv, TablesBounded
<1> QED
  BY <1>1, <1>2, InitType, NextType, NextTables, PTL DEF Spec
=============================================================================
