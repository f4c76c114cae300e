----------------------------- MODULE CliSession -----------------------------
(***************************************************************************)
(* The sign command of the CLI (src/client.rs) and the session file that   *)
(* its invocations share (src/session_cache.rs), against a server that     *)
(* keeps sessions in memory.                                               *)
(*                                                                         *)
(* An invocation is a process that may be killed at any point.  Nothing    *)
(* locks the file: load reads what it has opened and then removes whatever *)
(* the path names by then; store replaces the file by a rename; remove     *)
(* unlinks it.  Client and server measure a session's lifetime each on     *)
(* its own clock; the clocks run at the same rate.                         *)
(***************************************************************************)
EXTENDS Naturals

CONSTANTS
  Procs,        \* invocations of the CLI with the same server URL
  Tokens,       \* session tokens the server may hand out
  Old,          \* the session of an earlier invocation
  Lifetime,     \* oauth_session_ttl_seconds
  Timeout,      \* of a request of the API client (30 s)
  Margin,       \* EXPIRY_SAFETY_MARGIN_SECONDS (30 s)
  MaxTime,      \* bound on the clock
  MaxRestarts,  \* bound on the server's restarts
  NoFile,       \* there is no session file
  BadFile,      \* not private, not JSON, another version or an invalid token
  None          \* no token, no process

Session == [tok : Tokens, exp : Nat]

\* An exchange takes no longer than the margin: the two limits are equal in the
\* code, and nothing but this relation ties them together.
ASSUME CliAssumption ==
  /\ Old \in Tokens
  /\ Lifetime \in Nat \ {0} /\ Timeout \in Nat /\ Margin \in Nat
  /\ Timeout <= Margin
  /\ MaxTime \in Nat /\ MaxRestarts \in Nat
  /\ None \notin Tokens \cup Procs
  /\ NoFile \notin Session /\ BadFile \notin Session /\ NoFile # BadFile

VARIABLES
  pc,        \* pc[p]: where invocation p is in sign, or how it ended
  login,     \* login[p]: --github-login was given
  tok,       \* tok[p]: the session it sends
  reused,    \* reused[p]: reused_cached_session
  attempt,   \* attempt[p]: 2 once the login after a 401 has begun
  view,      \* view[p]: the file p has opened, or the one it is about to commit
  sentAt,    \* sentAt[p]: when p sent the exchange
  status,    \* status[p]: the server's answer to the signing request
  file,      \* the session file
  live,      \* sessions the server knows
  expires,   \* expires[t]: when session t ends
  minter,    \* minter[t]: the invocation whose login made session t
  now, restarts

localVars == <<login, tok, reused, attempt, view, sentAt, status>>
serverVars == <<live, expires, minter>>
worldVars == <<file, serverVars, now, restarts>>
vars == <<pc, localVars, worldVars>>

File == Session \cup {NoFile, BadFile}
LoginPc == {"login", "exchange", "answered", "commit"}
EndPc == {"signed", "unauthorized", "failed"}
Pc == {"new", "load", "opened", "send", "reply", "remove"} \cup LoginPc \cup EndPc

TypeOK ==
  /\ pc \in [Procs -> Pc]
  /\ login \in [Procs -> BOOLEAN]
  /\ tok \in [Procs -> Tokens \cup {None}]
  /\ \A p \in Procs : login[p] /\ pc[p] \in {"answered", "commit", "send", "reply"} =>
       tok[p] \in Tokens
  /\ \A p \in Procs : pc[p] \in {"load", "opened", "remove"} \cup LoginPc => login[p]
  /\ reused \in [Procs -> BOOLEAN]
  /\ attempt \in [Procs -> {1, 2}]
  /\ view \in [Procs -> File]
  /\ \A p \in Procs : /\ pc[p] = "opened" => view[p] # NoFile
                      /\ pc[p] = "commit" => view[p] \in Session
  /\ sentAt \in [Procs -> Nat]
  /\ status \in [Procs -> {"none", "ok", "unauthorized", "refused"}]
  /\ file \in File
  /\ live \subseteq Tokens
  /\ expires \in [Tokens -> Nat]
  /\ minter \in [Tokens -> Procs \cup {None}]
  /\ now \in Nat /\ restarts \in Nat

\* There is no file, an unusable one, or the one an earlier invocation has left,
\* whose session the server may have forgotten since.
Init ==
  /\ pc = [p \in Procs |-> "new"]
  /\ login = [p \in Procs |-> FALSE]
  /\ tok = [p \in Procs |-> None]
  /\ reused = [p \in Procs |-> FALSE]
  /\ attempt = [p \in Procs |-> 1]
  /\ view = [p \in Procs |-> NoFile]
  /\ sentAt = [p \in Procs |-> 0]
  /\ status = [p \in Procs |-> "none"]
  /\ file \in {NoFile, BadFile} \cup [tok : {Old}, exp : Lifetime .. Lifetime + Timeout]
  /\ live \in SUBSET {Old}
  /\ expires = [t \in Tokens |-> IF t = Old THEN Lifetime ELSE 0]
  /\ minter = [t \in Tokens |-> None]
  /\ now = 0 /\ restarts = 0

-----------------------------------------------------------------------------
Goto(p, l) == pc' = [pc EXCEPT ![p] = l]

\* The process is gone, and all it knew.
End(p, l) ==
  /\ Goto(p, l)
  /\ login' = [login EXCEPT ![p] = FALSE]
  /\ tok' = [tok EXCEPT ![p] = None]
  /\ reused' = [reused EXCEPT ![p] = FALSE]
  /\ attempt' = [attempt EXCEPT ![p] = 1]
  /\ view' = [view EXCEPT ![p] = NoFile]
  /\ sentAt' = [sentAt EXCEPT ![p] = 0]
  /\ status' = [status EXCEPT ![p] = "none"]

\* The checks of the arguments have passed and the credential is chosen.  A token
\* given on the command line or obtained from the runner is sent as it is.
Start(p) ==
  /\ pc[p] = "new"
  /\ \E l \in BOOLEAN : /\ login' = [login EXCEPT ![p] = l]
                       /\ Goto(p, IF l THEN "load" ELSE "send")
  /\ UNCHANGED <<tok, reused, attempt, view, sentAt, status, worldVars>>

\* session_cache::load up to File::open.  A file that cannot be opened, or has
\* no path, leads to a login.
Open(p) ==
  /\ pc[p] = "load"
  /\ \/ Goto(p, "login") /\ UNCHANGED view
     \/ /\ file # NoFile
        /\ Goto(p, "opened")
        /\ view' = [view EXCEPT ![p] = file]
  /\ UNCHANGED <<login, tok, reused, attempt, sentAt, status, worldVars>>

\* Mutant: no safety margin.
MutantUsable(f) == f # BadFile /\ f.exp > now

\* load: permissions, format and version, token and expiry.
Usable(f) == f # BadFile /\ f.exp > now + Margin

\* The rest of load: a file that is of no use is removed, by its path, and the
\* result of the removal ignored.  Errors also lead to a login.
Load(p) ==
  /\ pc[p] = "opened"
  /\ view' = [view EXCEPT ![p] = NoFile]
  /\ \/ /\ Usable(view[p])
        /\ tok' = [tok EXCEPT ![p] = view[p].tok]
        /\ reused' = [reused EXCEPT ![p] = TRUE]
        /\ Goto(p, "send")
        /\ UNCHANGED file
     \/ /\ file' \in {file} \cup (IF Usable(view[p]) THEN {} ELSE {NoFile})
        /\ Goto(p, "login")
        /\ UNCHANGED <<tok, reused>>
  /\ UNCHANGED <<login, attempt, sentAt, status, serverVars, now, restarts>>

-----------------------------------------------------------------------------
(* github_device_login                                                     *)

\* The configuration, the device code and the user's approval; then the GitHub
\* token is sent to the signer.
LoginApproved(p) ==
  /\ pc[p] = "login"
  /\ Goto(p, "exchange")
  /\ sentAt' = [sentAt EXCEPT ![p] = now]
  /\ UNCHANGED <<login, tok, reused, attempt, view, status, worldVars>>

\* The signer exchanges the token for a session; its answer is on its way.
Mint(p) ==
  /\ pc[p] = "exchange"
  /\ \E t \in {u \in Tokens \ {Old} : minter[u] = None} :
       /\ tok' = [tok EXCEPT ![p] = t]
       /\ live' = live \cup {t}
       /\ expires' = [expires EXCEPT ![t] = now + Lifetime]
       /\ minter' = [minter EXCEPT ![t] = p]
  /\ Goto(p, "answered")
  /\ UNCHANGED <<login, reused, attempt, view, sentAt, status, file, now, restarts>>

\* The answer arrives and session_cache::store reads the clock; when it cannot
\* write, the session is used without being cached.
Store(p) ==
  /\ pc[p] = "answered"
  /\ sentAt' = [sentAt EXCEPT ![p] = 0]
  /\ \/ /\ view' = [view EXCEPT ![p] = [tok |-> tok[p], exp |-> now + Lifetime]]
        /\ Goto(p, "commit")
     \/ Goto(p, "send") /\ UNCHANGED view
  /\ UNCHANGED <<login, tok, reused, attempt, status, worldVars>>

\* AtomicWriteFile::commit: the rename, or its failure.
Commit(p) ==
  /\ pc[p] = "commit"
  /\ file' \in {file, view[p]}
  /\ view' = [view EXCEPT ![p] = NoFile]
  /\ Goto(p, "send")
  /\ UNCHANGED <<login, tok, reused, attempt, sentAt, status, serverVars, now, restarts>>

-----------------------------------------------------------------------------
(* The signing request.                                                    *)

Accepted(t) == t \in live /\ expires[t] > now

\* The signer answers.  What it says to a credential that is not a session of
\* this model is left open.
Serve(p) ==
  /\ pc[p] = "send"
  /\ \E s \in {"ok", "unauthorized", "refused"} :
       /\ login[p] => (s = "unauthorized" <=> ~Accepted(tok[p]))
       /\ status' = [status EXCEPT ![p] = s]
  /\ Goto(p, "reply")
  /\ UNCHANGED <<login, tok, reused, attempt, view, sentAt, worldVars>>

\* Mutant: every 401 leads to another login, also the one after a login.
MutantRetry(p) == status[p] = "unauthorized" /\ login[p] /\ reused[p]

\* Mutant: the flag is read the wrong way round.
MutantRetryInverted(p) == status[p] = "unauthorized" /\ login[p] /\ ~reused[p] /\ attempt[p] = 1

\* The cached session was refused, and this is the first attempt.
Retry(p) == status[p] = "unauthorized" /\ login[p] /\ reused[p] /\ attempt[p] = 1

\* The answer arrives: one retry after a refused cached session, or the end.
Reply(p) ==
  /\ pc[p] = "reply"
  /\ \/ Retry(p) /\ Goto(p, "remove") /\ UNCHANGED localVars
     \/ ~Retry(p) /\ status[p] = "ok" /\ End(p, "signed")
     \/ ~Retry(p) /\ status[p] = "unauthorized" /\ End(p, "unauthorized")
     \/ ~Retry(p) /\ status[p] = "refused" /\ End(p, "failed")
  /\ UNCHANGED worldVars

\* Mutant: the refused session stays where it is, and load decides what follows.
MutantRemove(p) ==
  /\ pc[p] = "remove"
  /\ Goto(p, "load")
  /\ UNCHANGED <<localVars, worldVars>>

\* session_cache::remove, which may fail, and on to the login.
Remove(p) ==
  /\ pc[p] = "remove"
  /\ file' \in {file, NoFile}
  /\ attempt' = [attempt EXCEPT ![p] = 2]
  /\ Goto(p, "login")
  /\ UNCHANGED <<login, tok, reused, view, sentAt, status, serverVars, now, restarts>>

\* The command ends early: invalid arguments, no credential, a refusal, timeout
\* or invalid answer of GitHub, of the runner or of the signer, or the user
\* interrupts it.
Abort(p) ==
  /\ pc[p] \notin EndPc
  /\ End(p, "failed")
  /\ UNCHANGED worldVars

-----------------------------------------------------------------------------
(* The environment.                                                        *)

\* The server forgets its sessions.
Restart ==
  /\ restarts < MaxRestarts
  /\ restarts' = restarts + 1
  /\ live' = {}
  /\ UNCHANGED <<pc, localVars, file, expires, minter, now>>

\* Time passes; no exchange outlasts the timeout of its request.
Tick ==
  /\ now < MaxTime
  /\ \A p \in Procs : pc[p] \in {"exchange", "answered"} => now < sentAt[p] + Timeout
  /\ now' = now + 1
  /\ UNCHANGED <<pc, localVars, file, serverVars, restarts>>

Step(p) ==
  \/ Start(p) \/ Open(p) \/ Load(p)
  \/ LoginApproved(p) \/ Mint(p) \/ Store(p) \/ Commit(p)
  \/ Serve(p) \/ Reply(p) \/ Remove(p) \/ Abort(p)

\* Every invocation has ended.
Quiet == (\A p \in Procs : pc[p] \in EndPc) /\ UNCHANGED vars

Next == (\E p \in Procs : Step(p)) \/ Restart \/ Tick \/ Quiet

\* Every request has a timeout, the polling of GitHub ends when the device code
\* expires, and operations on files return: an invocation goes on or fails.
Spec == Init /\ [][Next]_vars /\ \A p \in Procs : WF_vars(Step(p))

-----------------------------------------------------------------------------
(* Properties.                                                             *)

\* A session that load takes from the file has not expired at the server,
\* although the client started to count later than the server did: the margin
\* covers the longest exchange.
LoadedNotExpired ==
  [][\A p \in Procs : pc[p] = "opened" /\ pc'[p] = "send" => expires[tok'[p]] > now]_vars

\* Whatever other invocations store or remove, a stale session file never costs
\* the user the signature: a login invocation that ends with a 401 sent a
\* session that its own login had made and that the server has lost since.
StaleFileRetried ==
  [][\A p \in Procs : login[p] /\ pc[p] = "reply" /\ pc'[p] = "unauthorized" =>
       minter[tok[p]] = p /\ ~Accepted(tok[p])]_vars

\* The user is asked to log in at most once by an invocation, also when the
\* session so obtained is refused as well.
OneLogin == \A s, t \in Tokens : minter[s] = minter[t] /\ minter[s] # None => s = t

\* Every invocation ends, however often others change the file under it.
InvocationEnds == \A p \in Procs : pc[p] = "load" ~> pc[p] \in EndPc

-----------------------------------------------------------------------------
(* The inductive invariants behind the safety properties.                  *)

\* A session in a file, or about to be, is counted at most a margin longer than
\* by the server, and has been handed out, so that it is not made again.
Late(f) ==
  f \in Session => /\ f.exp <= expires[f.tok] + Margin
                   /\ f.tok = Old \/ minter[f.tok] # None

FilesLate == Late(file) /\ \A p \in Procs : Late(view[p])

\* The server made the session p has been given no earlier than p asked for it,
\* and p has not waited longer than the timeout.
AnswerInTime(p) ==
  /\ pc[p] \in {"exchange", "answered"} => sentAt[p] <= now /\ now <= sentAt[p] + Timeout
  /\ pc[p] = "answered" => expires[tok[p]] >= sentAt[p] + Lifetime

\* p sends, or has been given, a session of its own login.
HasOwn(p) ==
  \/ pc[p] \in {"answered", "commit"}
  \/ login[p] /\ pc[p] \in {"send", "reply"} /\ (reused[p] => attempt[p] = 2)

\* p has not asked for a session so far.
NotAsked(p) ==
  \/ pc[p] \in {"new", "load", "opened", "login", "exchange", "remove"}
  \/ pc[p] \in {"send", "reply"} /\ reused[p] /\ attempt[p] = 1

\* A session that is not from the file is the invocation's own, and the only one
\* it has asked for.
OwnSession(p) ==
  /\ HasOwn(p) => minter[tok[p]] = p
  /\ NotAsked(p) => \A t \in Tokens : minter[t] # p
  /\ pc[p] \in {"new", "load", "opened"} => ~reused[p]
  /\ pc[p] \in {"new", "load", "opened", "remove"} => attempt[p] = 1
  /\ pc[p] = "remove" => reused[p]
  /\ pc[p] \in LoginPc => (reused[p] <=> attempt[p] = 2)

\* A session that is sent has been handed out, and a 401 stays true.
RefusedForGood(p) ==
  login[p] /\ pc[p] \in {"send", "reply"} =>
    /\ tok[p] = Old \/ minter[tok[p]] # None
    /\ pc[p] = "reply" /\ status[p] = "unauthorized" => ~Accepted(tok[p])

ProcInv(p) == AnswerInTime(p) /\ OwnSession(p) /\ RefusedForGood(p)

IndInv == TypeOK /\ FilesLate /\ OneLogin /\ \A p \in Procs : ProcInv(p)
=============================================================================
