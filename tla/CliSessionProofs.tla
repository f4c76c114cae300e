-------------------------- MODULE CliSessionProofs --------------------------
(***************************************************************************)
(* Proofs about CliSession, for any number of invocations and restarts and *)
(* any durations with a margin not below the timeout.  The argument for    *)
(* LoadedNotExpired: an exchange takes at most the timeout, so a file is   *)
(* counted at most that much longer than its session (AnswerInTime,        *)
(* FilesLate).  The argument for the other two: the flags of an invocation *)
(* say whose session it holds (OwnSession), and a refused session is never *)
(* accepted again (RefusedForGood).                                        *)
(***************************************************************************)
EXTENDS CliSession, TLAPS

USE DEF Pc, LoginPc, EndPc, localVars, serverVars, worldVars, vars, Goto

\* The initial states satisfy the type invariant.
LEMMA InitType == Init => TypeOK
  BY CliAssumption DEF Init, TypeOK, File, Session

\* Every way for a process to end keeps the type invariant.
LEMMA EndType ==
  ASSUME TypeOK, NEW p \in Procs, NEW l \in EndPc, End(p, l), UNCHANGED worldVars
  PROVE  TypeOK'
  BY DEF TypeOK, End, File

\* Every step keeps the type invariant.
LEMMA NextType == TypeOK /\ [Next]_vars => TypeOK'
<1> SUFFICES ASSUME TypeOK, [Next]_vars PROVE TypeOK'
  OBVIOUS
<1> USE CliAssumption
<1>1. ASSUME NEW p \in Procs, Start(p) PROVE TypeOK'
  BY <1>1 DEF TypeOK, Start
<1>2. ASSUME NEW p \in Procs, Open(p) PROVE TypeOK'
  <2>1. CASE Goto(p, "login") /\ UNCHANGED view
    BY <1>2, <2>1 DEF TypeOK, Open
  <2>2. CASE /\ file # NoFile /\ Goto(p, "opened")
             /\ view' = [view EXCEPT ![p] = file]
    BY <1>2, <2>2 DEF TypeOK, Open
  <2> QED
    BY <1>2, <2>1, <2>2 DEF Open
<1>3. ASSUME NEW p \in Procs, Load(p) PROVE TypeOK'
  <2>1. view[p] # BadFile => view[p].tok \in Tokens
    BY <1>3 DEF TypeOK, Load, File, Session
  <2>2. NoFile \in File
    BY DEF File
  <2>3. CASE pc' = [pc EXCEPT ![p] = "send"] /\ Usable(view[p])
    <3>1. view[p].tok \in Tokens
      BY <2>1, <2>3 DEF Usable
    <3>2. /\ tok' = [tok EXCEPT ![p] = view[p].tok]
          /\ reused' = [reused EXCEPT ![p] = TRUE]
          /\ view' = [view EXCEPT ![p] = NoFile]
          /\ UNCHANGED <<file, login, attempt, sentAt, status, serverVars, now, restarts>>
      BY <1>3, <2>3 DEF TypeOK, Load
    <3> QED
      BY <2>2, <2>3, <3>1, <3>2 DEF TypeOK
  <2>4. CASE pc' = [pc EXCEPT ![p] = "login"]
    <3>1. /\ file' \in File /\ login[p]
          /\ view' = [view EXCEPT ![p] = NoFile]
          /\ UNCHANGED <<tok, reused, login, attempt, sentAt, status, serverVars, now, restarts>>
      BY <1>3, <2>2, <2>4 DEF TypeOK, Load
    <3> QED
      BY <2>2, <2>4, <3>1 DEF TypeOK
  <2> QED
    BY <1>3, <2>3, <2>4 DEF Load
<1>4. ASSUME NEW p \in Procs, LoginApproved(p) PROVE TypeOK'
  BY <1>4 DEF TypeOK, LoginApproved
<1>5. ASSUME NEW p \in Procs, Mint(p) PROVE TypeOK'
  BY <1>5 DEF TypeOK, Mint
<1>6. ASSUME NEW p \in Procs, Store(p) PROVE TypeOK'
  <2>1. [tok |-> tok[p], exp |-> now + Lifetime] \in Session
    BY <1>6 DEF TypeOK, Store, Session
  <2> QED
    BY <1>6, <2>1 DEF TypeOK, Store, File
<1>7. ASSUME NEW p \in Procs, Commit(p) PROVE TypeOK'
  BY <1>7 DEF TypeOK, Commit, File
<1>8. ASSUME NEW p \in Procs, Serve(p) PROVE TypeOK'
  BY <1>8 DEF TypeOK, Serve
<1>9. ASSUME NEW p \in Procs, Reply(p) PROVE TypeOK'
  <2>1. CASE Retry(p)
    BY <1>9, <2>1 DEF TypeOK, Reply, Retry
  <2>2. CASE ~Retry(p)
    BY <1>9, <2>2, EndType DEF Reply
  <2> QED
    BY <2>1, <2>2
<1>10. ASSUME NEW p \in Procs, Remove(p) PROVE TypeOK'
  BY <1>10 DEF TypeOK, Remove, File
<1>11. ASSUME NEW p \in Procs, Abort(p) PROVE TypeOK'
  BY <1>11, EndType DEF Abort
<1>12. CASE Restart
  BY <1>12 DEF TypeOK, Restart
<1>13. CASE Tick
  BY <1>13 DEF TypeOK, Tick
<1>14. CASE UNCHANGED vars
  BY <1>14 DEF TypeOK
<1> QED
  BY <1>1, <1>2, <1>3, <1>4, <1>5, <1>6, <1>7, <1>8, <1>9, <1>10, <1>11, <1>12, <1>13, <1>14
     DEF Next, Step, Quiet

\* The type invariant holds in every reachable state: among others, load never
\* looks into a file that is not there, and nothing is sent without a token.
THEOREM TypeCorrect == Spec => []TypeOK
  BY InitType, NextType, PTL DEF Spec

-----------------------------------------------------------------------------
\* The initial states satisfy the inductive invariant.
LEMMA InitInv == Init => IndInv
<1> SUFFICES ASSUME Init PROVE IndInv
  OBVIOUS
<1> USE CliAssumption
<1>1. TypeOK
  BY InitType
<1>2. Late(file)
  BY DEF Init, Late, Session
<1>3. \A p \in Procs : view[p] = NoFile
  BY DEF Init
<1>4. FilesLate
  BY <1>1, <1>2, <1>3 DEF FilesLate, Late, Init
<1>5. OneLogin /\ \A p \in Procs : ProcInv(p)
  BY DEF Init, ProcInv, AnswerInTime, OwnSession, HasOwn, NotAsked, RefusedForGood, OneLogin
<1> QED
  BY <1>1, <1>4, <1>5 DEF IndInv

\* A step that leaves the server alone keeps what is known of sessions; FilesLate
\* then depends on the files that the step writes, and the invariants of an
\* invocation on its own variables.
LEMMA FilesKept ==
  ASSUME IndInv, UNCHANGED <<expires, minter>>, NEW p \in Procs,
         Late(file)', Late(view[p])', \A q \in Procs \ {p} : view'[q] = view[q]
  PROVE  FilesLate'
  BY DEF IndInv, FilesLate, Late

\* A file that is there no longer is never late.
LEMMA NoFileLate == Late(NoFile) /\ Late(NoFile)' /\ Late(BadFile) /\ Late(BadFile)'
  BY CliAssumption DEF Late

\* A step of one invocation that leaves the server alone.
Local(p) ==
  /\ UNCHANGED <<serverVars, now>>
  /\ \A q \in Procs \ {p} :
       /\ pc'[q] = pc[q] /\ login'[q] = login[q] /\ tok'[q] = tok[q]
       /\ reused'[q] = reused[q] /\ attempt'[q] = attempt[q]
       /\ view'[q] = view[q] /\ sentAt'[q] = sentAt[q] /\ status'[q] = status[q]

\* A local step keeps the invariant if it keeps its own invocation's part and
\* writes no late file.
LEMMA LocalStep ==
  ASSUME IndInv, TypeOK', NEW p \in Procs, Local(p), ProcInv(p)', Late(file)', Late(view[p])'
  PROVE  IndInv'
<1>1. \A q \in Procs \ {p} : ProcInv(q)'
  BY DEF IndInv, Local, ProcInv, AnswerInTime, OwnSession, RefusedForGood, HasOwn, NotAsked, Accepted
<1>2. FilesLate'
  BY FilesKept DEF Local
<1>3. OneLogin'
  BY DEF IndInv, OneLogin, Local
<1> QED
  BY <1>1, <1>2, <1>3 DEF IndInv

\* A process that has ended is bound by nothing.
LEMMA EndStep ==
  ASSUME IndInv, TypeOK', NEW p \in Procs, NEW l \in EndPc, End(p, l), UNCHANGED worldVars
  PROVE  IndInv'
<1>1. Local(p)
  BY DEF IndInv, TypeOK, End, Local
<1>2. pc'[p] = l /\ view'[p] = NoFile
  BY DEF IndInv, TypeOK, End
<1>3. ProcInv(p)'
  BY <1>2 DEF ProcInv, AnswerInTime, OwnSession, RefusedForGood, HasOwn, NotAsked
<1>4. Late(file)'
  BY DEF IndInv, FilesLate, Late
<1> QED
  BY <1>1, <1>2, <1>3, <1>4, NoFileLate, LocalStep DEF Late

\* The steps that only concern the invocation and the file.
LEMMA LocalSteps ==
  ASSUME IndInv, TypeOK', NEW p \in Procs,
         \/ Start(p) \/ Open(p) \/ Load(p) \/ LoginApproved(p) \/ Store(p) \/ Commit(p)
         \/ Serve(p) \/ Reply(p) \/ Remove(p) \/ Abort(p)
  PROVE  IndInv'
<1> USE CliAssumption DEF ProcInv, AnswerInTime, OwnSession, RefusedForGood, HasOwn, NotAsked,
                          Accepted
<1>t. TypeOK /\ ProcInv(p) /\ Late(file) /\ Late(view[p])
  BY DEF IndInv, FilesLate
<1>f. UNCHANGED <<expires, minter>> /\ file' \in {file, NoFile} => Late(file)'
  BY <1>t, NoFileLate DEF Late
<1>v. UNCHANGED <<expires, minter>> /\ view'[p] \in {view[p], file, NoFile} => Late(view[p])'
  BY <1>t, NoFileLate DEF Late
<1>1. CASE Start(p)
  <2>1. Local(p) /\ ProcInv(p)'
    BY <1>1, <1>t DEF TypeOK, Start, Local
  <2> QED
    BY <1>1, <2>1, <1>f, <1>v, LocalStep DEF Start
<1>2. CASE Open(p)
  <2>1. Local(p) /\ ProcInv(p)'
    BY <1>2, <1>t DEF TypeOK, Open, Local
  <2>2. view'[p] \in {view[p], file}
    BY <1>2, <1>t DEF TypeOK, Open
  <2> QED
    BY <1>2, <2>1, <2>2, <1>f, <1>v, LocalStep DEF Open
<1>3. CASE Load(p)
  <2>1. Local(p) /\ view'[p] = NoFile
    BY <1>3, <1>t DEF TypeOK, Load, Local
  <2>2. Usable(view[p]) => view[p] \in Session
    BY <1>3, <1>t DEF TypeOK, Load, Usable, File
  <2>3. ProcInv(p)'
    BY <1>3, <1>t, <2>2 DEF TypeOK, Load, Late
  <2> QED
    BY <1>3, <2>1, <2>3, <1>f, <1>v, LocalStep DEF Load
<1>4. CASE LoginApproved(p)
  <2>1. Local(p) /\ ProcInv(p)'
    BY <1>4, <1>t DEF TypeOK, LoginApproved, Local
  <2> QED
    BY <1>4, <2>1, <1>f, <1>v, LocalStep DEF LoginApproved
<1>5. CASE Store(p)
  <2>1. Local(p) /\ ProcInv(p)'
    BY <1>5, <1>t DEF TypeOK, Store, Local
  <2>2. CASE view' = [view EXCEPT ![p] = [tok |-> tok[p], exp |-> now + Lifetime]]
    <3>1. view'[p] = [tok |-> tok[p], exp |-> now + Lifetime]
      BY <1>t, <2>2 DEF TypeOK
    <3>2. now + Lifetime <= expires[tok[p]] + Margin
      BY <1>5, <1>t DEF TypeOK, Store
    <3>3. minter[tok[p]] # None
      BY <1>5, <1>t DEF Store
    <3>4. Late(view[p])'
      BY <1>5, <3>1, <3>2, <3>3 DEF Store, Late
    <3> QED
      BY <1>5, <2>1, <3>4, <1>f, LocalStep DEF Store
  <2>3. CASE UNCHANGED view
    BY <1>5, <2>1, <2>3, <1>f, <1>v, LocalStep DEF Store
  <2> QED
    BY <1>5, <2>2, <2>3 DEF Store
<1>6. CASE Commit(p)
  <2>1. Local(p) /\ ProcInv(p)' /\ view'[p] = NoFile
    BY <1>6, <1>t DEF TypeOK, Commit, Local
  <2>2. Late(file)'
    BY <1>6, <1>t DEF Commit, Late
  <2> QED
    BY <1>6, <2>1, <2>2, <1>v, LocalStep DEF Commit
<1>7. CASE Serve(p)
  <2>1. Local(p) /\ ProcInv(p)'
    BY <1>7, <1>t DEF TypeOK, Serve, Local
  <2> QED
    BY <1>7, <2>1, <1>f, <1>v, LocalStep DEF Serve
<1>8. CASE Reply(p)
  <2>1. CASE Retry(p)
    <3>1. Local(p) /\ ProcInv(p)'
      BY <1>8, <2>1, <1>t DEF TypeOK, Reply, Retry, Local
    <3> QED
      BY <1>8, <2>1, <3>1, <1>f, <1>v, LocalStep DEF Reply
  <2>2. CASE ~Retry(p)
    BY <1>8, <2>2, EndStep DEF Reply
  <2> QED
    BY <2>1, <2>2
<1>9. CASE Remove(p)
  <2>1. Local(p) /\ ProcInv(p)'
    BY <1>9, <1>t DEF TypeOK, Remove, Local
  <2> QED
    BY <1>9, <2>1, <1>f, <1>v, LocalStep DEF Remove
<1>10. CASE Abort(p)
  BY <1>10, EndStep DEF Abort
<1> QED
  BY <1>1, <1>2, <1>3, <1>4, <1>5, <1>6, <1>7, <1>8, <1>9, <1>10

\* A new session is nobody else's, and in no file.
LEMMA MintStep ==
  ASSUME IndInv, TypeOK', NEW p \in Procs, Mint(p)
  PROVE  IndInv'
<1> USE CliAssumption
<1>1. PICK t \in Tokens \ {Old} :
        /\ minter[t] = None
        /\ tok' = [tok EXCEPT ![p] = t]
        /\ live' = live \cup {t}
        /\ expires' = [expires EXCEPT ![t] = now + Lifetime]
        /\ minter' = [minter EXCEPT ![t] = p]
  BY DEF Mint
<1>2. /\ TypeOK /\ pc[p] = "exchange" /\ pc' = [pc EXCEPT ![p] = "answered"]
      /\ UNCHANGED <<login, reused, attempt, view, sentAt, status, file, now>>
  BY DEF IndInv, Mint
<1>3. \A u \in Tokens \ {t} : expires'[u] = expires[u] /\ minter'[u] = minter[u]
  BY <1>1, <1>2 DEF TypeOK
<1>4. minter'[t] = p /\ expires'[t] = now + Lifetime /\ tok'[p] = t
  BY <1>1, <1>2 DEF TypeOK
<1>5. \A u \in Tokens : minter[u] # p
  BY <1>2 DEF IndInv, ProcInv, OwnSession, NotAsked
<1>6. ASSUME NEW f, Late(f) PROVE Late(f)'
  <2>1. f \in Session => f.tok \in Tokens \ {t}
    BY <1>1, <1>6 DEF Late, Session
  <2> QED
    BY <1>3, <1>6, <2>1 DEF Late
<1>7. FilesLate'
  BY <1>2, <1>6 DEF IndInv, FilesLate, Late
<1>8. OneLogin'
  BY <1>3, <1>4, <1>5 DEF IndInv, OneLogin
<1>9. ASSUME NEW q \in Procs \ {p} PROVE ProcInv(q)'
  <2>1. ProcInv(q) /\ pc'[q] = pc[q] /\ tok'[q] = tok[q]
    BY <1>1, <1>2 DEF IndInv, TypeOK
  <2>2. HasOwn(q) => tok[q] \in Tokens \ {t}
    BY <1>1, <1>2, <2>1 DEF TypeOK, HasOwn, ProcInv, OwnSession
  <2>3. login[q] /\ pc[q] \in {"send", "reply"} => tok[q] \in Tokens \ {t}
    BY <1>1, <1>2, <2>1 DEF TypeOK, ProcInv, RefusedForGood
  <2>4. AnswerInTime(q)'
    BY <1>2, <1>3, <2>1, <2>2 DEF ProcInv, AnswerInTime, HasOwn
  <2>5. OwnSession(q)'
    BY <1>2, <1>3, <1>4, <2>1, <2>2 DEF ProcInv, OwnSession, HasOwn, NotAsked
  <2>6. RefusedForGood(q)'
    BY <1>1, <1>2, <1>3, <2>1, <2>3 DEF ProcInv, RefusedForGood, Accepted
  <2> QED
    BY <2>4, <2>5, <2>6 DEF ProcInv
<1>10. ProcInv(p)'
  <2>1. ProcInv(p) /\ pc'[p] = "answered"
    BY <1>2 DEF IndInv, TypeOK
  <2> QED
    BY <1>2, <1>4, <2>1
       DEF ProcInv, AnswerInTime, OwnSession, RefusedForGood, HasOwn, NotAsked, TypeOK
<1> QED
  BY <1>7, <1>8, <1>9, <1>10 DEF IndInv

\* Time and restarts only end sessions.
LEMMA WorldStep ==
  ASSUME IndInv, TypeOK', Restart \/ Tick \/ UNCHANGED vars
  PROVE  IndInv'
<1>1. UNCHANGED <<pc, localVars, file, expires, minter>>
  BY DEF Restart, Tick
<1>2. FilesLate' /\ OneLogin'
  BY <1>1 DEF IndInv, FilesLate, Late, OneLogin
<1>3. /\ TypeOK /\ now <= now' /\ now' \in Nat /\ live' \subseteq live
      /\ \A p \in Procs : pc[p] \in {"exchange", "answered"} /\ now' # now =>
           now' <= sentAt[p] + Timeout
  BY CliAssumption DEF IndInv, TypeOK, Restart, Tick
<1>4. ASSUME NEW p \in Procs PROVE ProcInv(p)'
  <2>1. ProcInv(p)
    BY DEF IndInv
  <2>2. AnswerInTime(p)'
    BY <1>1, <1>3, <2>1 DEF TypeOK, ProcInv, AnswerInTime
  <2>3. OwnSession(p)'
    BY <1>1, <2>1 DEF ProcInv, OwnSession, HasOwn, NotAsked
  <2>4. login[p] /\ pc[p] = "reply" /\ ~Accepted(tok[p]) => ~Accepted(tok[p])'
    BY <1>1, <1>3 DEF TypeOK, Accepted
  <2>5. RefusedForGood(p)'
    BY <1>1, <2>1, <2>4 DEF ProcInv, RefusedForGood
  <2> QED
    BY <2>2, <2>3, <2>5 DEF ProcInv
<1> QED
  BY <1>2, <1>4 DEF IndInv

\* Every step keeps the inductive invariant.
LEMMA NextInv == IndInv /\ [Next]_vars => IndInv'
<1> SUFFICES ASSUME IndInv, [Next]_vars PROVE IndInv'
  OBVIOUS
<1>1. TypeOK'
  BY NextType DEF IndInv
<1> QED
  BY <1>1, LocalSteps, MintStep, WorldStep DEF Next, Step, Quiet

\* The inductive invariant holds in every reachable state.
LEMMA Invariance == Spec => []IndInv
  BY InitInv, NextInv, PTL DEF Spec

\* An invocation logs in at most once.
THEOREM LoginOnce == Spec => []OneLogin
<1>1. IndInv => OneLogin
  BY DEF IndInv
<1> QED
  BY <1>1, Invariance, PTL

-----------------------------------------------------------------------------
\* What one step of load may do.
LoadOk ==
  \A p \in Procs : pc[p] = "opened" /\ pc'[p] = "send" => expires[tok'[p]] > now

\* Only Load leaves "opened" for "send", and it has looked at the expiry.
LEMMA LoadStep == IndInv /\ [Next]_vars => LoadOk
<1> SUFFICES ASSUME IndInv, [Next]_vars, NEW p \in Procs, pc[p] = "opened", pc'[p] = "send"
             PROVE  expires[tok'[p]] > now
  BY DEF LoadOk
<1>1. TypeOK /\ Late(view[p])
  BY DEF IndInv, FilesLate
<1>2. Load(p)
  BY <1>1 DEF TypeOK, Next, Step, Quiet, Start, Open, Load, LoginApproved, Mint, Store, Commit,
              Serve, Reply, Remove, Abort, End, Restart, Tick
<1>3. Usable(view[p]) /\ tok'[p] = view[p].tok
  BY <1>1, <1>2 DEF TypeOK, Load
<1>4. view[p] \in Session
  BY <1>1, <1>2, <1>3 DEF TypeOK, Usable, File, Load
<1>5. view[p].exp > now + Margin /\ view[p].exp <= expires[view[p].tok] + Margin
  BY <1>1, <1>3, <1>4 DEF Usable, Late
<1>6. view[p].exp \in Nat /\ expires[view[p].tok] \in Nat /\ now \in Nat /\ Margin \in Nat
  BY <1>1, <1>4, CliAssumption DEF TypeOK, Session
<1> QED
  BY <1>3, <1>5, <1>6

\* A session taken from the file has not expired at the server, for every
\* lifetime and every delay of the answers.
THEOREM MarginSuffices == Spec => LoadedNotExpired
<1>1. IndInv /\ [Next]_vars => [LoadOk]_vars
  BY LoadStep
<1> QED
  BY <1>1, Invariance, PTL DEF Spec, LoadedNotExpired, LoadOk

\* What the end of an invocation with a 401 may mean.
RefusalOk ==
  \A p \in Procs : login[p] /\ pc[p] = "reply" /\ pc'[p] = "unauthorized" =>
    minter[tok[p]] = p /\ ~Accepted(tok[p])

\* Only Reply ends a command that way, and not after a first refusal.
LEMMA RefusalStep == IndInv /\ [Next]_vars => RefusalOk
<1> SUFFICES ASSUME IndInv, [Next]_vars, NEW p \in Procs,
                    login[p], pc[p] = "reply", pc'[p] = "unauthorized"
             PROVE  minter[tok[p]] = p /\ ~Accepted(tok[p])
  BY DEF RefusalOk
<1>1. TypeOK /\ ProcInv(p)
  BY DEF IndInv
<1>2. Reply(p)
  BY <1>1 DEF TypeOK, Next, Step, Quiet, Start, Open, Load, LoginApproved, Mint, Store, Commit,
              Serve, Reply, Remove, Abort, End, Restart, Tick
<1>3. ~Retry(p) /\ status[p] = "unauthorized"
  BY <1>1, <1>2 DEF TypeOK, Reply, End
<1>4. HasOwn(p)
  BY <1>1, <1>3 DEF TypeOK, Retry, HasOwn
<1> QED
  BY <1>1, <1>3, <1>4 DEF ProcInv, OwnSession, RefusedForGood

\* A stale session file never costs the user the signature.
THEOREM StaleRetried == Spec => StaleFileRetried
<1>1. IndInv /\ [Next]_vars => [RefusalOk]_vars
  BY RefusalStep
<1> QED
  BY <1>1, Invariance, PTL DEF Spec, StaleFileRetried, RefusalOk
=============================================================================
