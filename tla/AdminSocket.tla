----------------------------- MODULE AdminSocket -----------------------------
(***************************************************************************)
(* The second half of run_server (src/main.rs): from the bound TCP port    *)
(* and the admin socket to the end of the process, and the CLI's `unlock', *)
(* which finds the server by the path of that socket.                      *)
(*                                                                         *)
(* Servers are processes with one configuration, so that they share the    *)
(* port and the path.  The port has one owner at a time.  The path has     *)
(* none: bind_admin_socket and AdminSocketGuard stat, remove, bind, chown  *)
(* and chmod it one call after the other, whoever's socket is there.  A    *)
(* process may be killed at any point and leaves its socket behind.        *)
(***************************************************************************)
EXTENDS Naturals, FiniteSets

CONSTANTS
  Servers,    \* processes running `serve'
  Clients,    \* invocations of `unlock' by operators
  Group,      \* AdminSocketGroup, or None
  MaxStarts,  \* bound on the starts of servers
  MaxKills,   \* bound on the processes killed
  None

ASSUME AdminSocketAssumption ==
  /\ MaxStarts \in Nat /\ MaxKills \in Nat
  /\ None \notin Servers \cup Clients
  /\ Group # "service" /\ None # "path"

VARIABLES
  pc,          \* per server: where run_server is
  failed,      \* per server: the error its last life ended with, or None
  port,        \* the server that listens on Server.Listen, or None
  admin,       \* servers whose admin listener is open
  file,        \* what is at the path of the admin socket
  held,        \* servers with a request in progress on the public API
  overlapped,  \* history: servers that prepared the path while another one had
               \* its guard still to come
  cpc, peer,   \* per client: where it is, and the server it is connected to
  task,        \* per client: the server whose blocking pool runs its unlock
  abandoned,   \* history: clients whose unlock ended with a process not killed
  starts, kills

pathVars == <<port, admin, file>>
clientVars == <<cpc, peer, task, abandoned>>
bounds == <<starts, kills>>
vars == <<pc, failed, pathVars, held, overlapped, clientVars, bounds>>

NoFile == [kind |-> "none"]
Foreign == [kind |-> "foreign"]
\* A socket file: its listener, or None once that is closed.
Socket(s, g, m) == [kind |-> "socket", owner |-> s, group |-> g, mode |-> m]
Files == {NoFile, Foreign}
         \cup {Socket(s, g, m) : s \in Servers \cup {None}, g \in {"service", Group},
                                 m \in {"private", "configured"}}

Errors == {"port", "group", "parent", "foreign", "path"}

\* The guard of a server in one of these states is still to come.
Stopping == {"stopping", "drained", "guard"}
Connected == {"pending", "accepted", "running"}

TypeOK ==
  /\ pc \in [Servers -> {"off", "starting", "bound", "stale", "clear", "listening", "grouped",
                         "serving", "leaving"} \cup Stopping]
  /\ failed \in [Servers -> {None} \cup Errors]
  /\ port \in Servers \cup {None}
  /\ admin \subseteq Servers /\ held \subseteq Servers /\ overlapped \subseteq Servers
  /\ file \in Files
  /\ cpc \in [Clients -> {"idle", "prompt"} \cup Connected]
  /\ peer \in [Clients -> Servers \cup {None}]
  /\ task \in [Clients -> Servers \cup {None}]
  /\ abandoned \subseteq Clients
  /\ starts \in 0 .. MaxStarts /\ kills \in 0 .. MaxKills

\* The path is free, holds the socket of a server that was killed, or a file
\* that somebody put there.
Init ==
  /\ pc = [s \in Servers |-> "off"]
  /\ failed = [s \in Servers |-> None]
  /\ port = None /\ admin = {} /\ held = {} /\ overlapped = {}
  /\ file \in {NoFile, Foreign, Socket(None, "service", "private")}
  /\ cpc = [c \in Clients |-> "idle"]
  /\ peer = [c \in Clients |-> None] /\ task = [c \in Clients |-> None]
  /\ abandoned = {}
  /\ starts = 0 /\ kills = 0

-----------------------------------------------------------------------------
Goto(s, l) == pc' = [pc EXCEPT ![s] = l]

Users(s) == {c \in Clients : peer[c] = s /\ cpc[c] \in {"accepted", "running"}}
Tasks(s) == {c \in Clients : task[c] = s}

\* A listener is closed: its socket file stays, without one who accepts.
Orphan(s) == IF file.kind = "socket" /\ file.owner = s THEN [file EXCEPT !.owner = None] ELSE file

\* The commands of clients C end, well or with an error.
End(C) ==
  /\ cpc' = [c \in Clients |-> IF c \in C THEN "idle" ELSE cpc[c]]
  /\ peer' = [c \in Clients |-> IF c \in C THEN None ELSE peer[c]]

\* The process is gone: the kernel closes what it had open.
ProcessEnds(s, error) ==
  /\ Goto(s, "off")
  /\ failed' = [failed EXCEPT ![s] = error]
  /\ port' = IF port = s THEN None ELSE port
  /\ admin' = admin \ {s}
  /\ file' = Orphan(s)
  /\ held' = held \ {s}
  /\ End({c \in Clients : peer[c] = s})
  /\ task' = [c \in Clients |-> IF task[c] = s THEN None ELSE task[c]]
  /\ UNCHANGED overlapped

\* An error of run_server ends the process; there is no guard yet, so that the
\* path is left as it is.
Fail(s, error) == ProcessEnds(s, error) /\ UNCHANGED <<abandoned, bounds>>

\* The process is killed, be it by a signal whose handler is not yet installed.
Kill(s) ==
  /\ pc[s] # "off"
  /\ kills < MaxKills /\ kills' = kills + 1
  /\ ProcessEnds(s, None)
  /\ UNCHANGED <<abandoned, starts>>

-----------------------------------------------------------------------------
(* run_server: start-up.                                                   *)

\* A process is started and has loaded its configuration and its keys.
Start(s) ==
  /\ pc[s] = "off"
  /\ starts < MaxStarts /\ starts' = starts + 1
  /\ Goto(s, "starting")
  /\ failed' = [failed EXCEPT ![s] = None]
  /\ UNCHANGED <<pathVars, held, overlapped, clientVars, kills>>

\* Whether another server's guard may still run.
Overlaps(s) == \E t \in Servers \ {s} : pc[t] \in Stopping
Overlapping(s) == IF Overlaps(s) THEN overlapped \cup {s} ELSE overlapped \ {s}

\* Mutant: the port is bound with SO_REUSEPORT.
MutantBindTcp(s) ==
  /\ pc[s] = "starting"
  /\ port' = s
  /\ Goto(s, "bound")
  /\ overlapped' = Overlapping(s)
  /\ UNCHANGED <<failed, admin, file, held, clientVars, bounds>>

\* TcpListener::bind, before the path is touched.
BindTcp(s) ==
  /\ pc[s] = "starting"
  /\ \/ port # None /\ Fail(s, "port")
     \/ /\ port = None /\ port' = s
        /\ Goto(s, "bound")
        /\ overlapped' = Overlapping(s)
        /\ UNCHANGED <<failed, admin, file, held, clientVars, bounds>>

\* The group does not exist, or the service may not give the socket to it.
GroupFails(s) ==
  /\ pc[s] \in {"bound", "listening"} /\ Group # None
  /\ Fail(s, "group")

\* The stats of bind_admin_socket: of the parent directory, which may be missing or
\* writable by others, and of the path.
StatPath(s) ==
  /\ pc[s] = "bound"
  /\ \/ Fail(s, "parent")
     \/ file.kind = "foreign" /\ Fail(s, "foreign")
     \/ /\ file.kind # "foreign"
        /\ Goto(s, IF file.kind = "socket" THEN "stale" ELSE "clear")
        /\ UNCHANGED <<failed, pathVars, held, overlapped, clientVars, bounds>>

\* Mutant: a stale socket is left to bind.
MutantRemoveStale(s) ==
  /\ pc[s] = "stale"
  /\ Goto(s, "clear")
  /\ UNCHANGED <<failed, pathVars, held, overlapped, clientVars, bounds>>

\* remove_file of the socket found.
RemoveStale(s) ==
  /\ pc[s] = "stale"
  /\ \/ file.kind = "none" /\ Fail(s, "path")
     \/ /\ file.kind # "none"
        /\ file' = NoFile
        /\ Goto(s, "clear")
        /\ UNCHANGED <<failed, port, admin, held, overlapped, clientVars, bounds>>

\* UnixListener::bind: the UMask of the unit makes the socket private.
BindSocket(s) ==
  /\ pc[s] = "clear"
  /\ \/ file.kind # "none" /\ Fail(s, "path")
     \/ /\ file.kind = "none"
        /\ file' = Socket(s, "service", "private")
        /\ admin' = admin \cup {s}
        /\ overlapped' = Overlapping(s)
        /\ Goto(s, "listening")
        /\ UNCHANGED <<failed, port, held, clientVars, bounds>>

\* Mutant: the mode is widened before the group is set.
MutantChown(s) ==
  /\ pc[s] = "listening" /\ file.kind # "none"
  /\ file' = [file EXCEPT !.mode = "configured"]
  /\ Goto(s, "grouped")
  /\ UNCHANGED <<failed, port, admin, held, overlapped, clientVars, bounds>>

\* chown of the path, if a group is configured.
Chown(s) ==
  /\ pc[s] = "listening"
  /\ \/ Group # None /\ file.kind = "none" /\ Fail(s, "path")
     \/ /\ Group = None \/ file.kind # "none"
        /\ file' = IF Group = None THEN file ELSE [file EXCEPT !.group = Group]
        /\ Goto(s, "grouped")
        /\ UNCHANGED <<failed, port, admin, held, overlapped, clientVars, bounds>>

\* set_permissions on the path; the guard is created and the servers run.
Chmod(s) ==
  /\ pc[s] = "grouped"
  /\ \/ file.kind = "none" /\ Fail(s, "path")
     \/ /\ file.kind # "none"
        /\ file' = [file EXCEPT !.mode = "configured"]
        /\ Goto(s, "serving")
        /\ UNCHANGED <<failed, port, admin, held, overlapped, clientVars, bounds>>

-----------------------------------------------------------------------------
(* run_server: the way down.                                               *)

\* shutdown_signal sends on the channel that wait_for_shutdown watches.
Signal(s) ==
  /\ pc[s] = "serving"
  /\ Goto(s, "stopping")
  /\ UNCHANGED <<failed, pathVars, held, overlapped, clientVars, bounds>>

\* axum::serve of the public router leaves its loop and drops its listener.
StopPublic(s) ==
  /\ pc[s] = "stopping" /\ port = s
  /\ port' = None
  /\ UNCHANGED <<pc, failed, admin, file, held, overlapped, clientVars, bounds>>

\* Mutant: the admin router is served without a graceful shutdown.
MutantStopAdmin(s) == FALSE

\* The same for the admin router; connections that are still in its backlog, or
\* have sent nothing yet, are closed.
StopAdmin(s) ==
  /\ pc[s] = "stopping" /\ s \in admin
  /\ admin' = admin \ {s}
  /\ file' = Orphan(s)
  /\ End({c \in Clients : peer[c] = s /\ cpc[c] = "pending"})
  /\ UNCHANGED <<pc, failed, port, held, overlapped, task, abandoned, bounds>>

\* Mutant: run_server waits for one of its two servers only.
MutantDrained(s) ==
  /\ pc[s] = "stopping" /\ port # s /\ s \notin held
  /\ Goto(s, "drained")
  /\ UNCHANGED <<failed, pathVars, held, overlapped, clientVars, bounds>>

\* try_join!: both servers have closed their listeners and the last connection.
Drained(s) ==
  /\ pc[s] = "stopping" /\ port # s /\ s \notin admin
  /\ s \notin held /\ Users(s) = {}
  /\ Goto(s, "drained")
  /\ UNCHANGED <<failed, pathVars, held, overlapped, clientVars, bounds>>

\* The stat of AdminSocketGuard::drop.
GuardStat(s) ==
  /\ pc[s] = "drained"
  /\ Goto(s, IF file.kind = "socket" THEN "guard" ELSE "leaving")
  /\ UNCHANGED <<failed, pathVars, held, overlapped, clientVars, bounds>>

\* Its remove_file, of whatever is at the path by now.
GuardRemove(s) ==
  /\ pc[s] = "guard"
  /\ file' = NoFile
  /\ Goto(s, "leaving")
  /\ UNCHANGED <<failed, port, admin, held, overlapped, clientVars, bounds>>

\* main returns: the runtime is dropped, which waits for the blocking tasks.
Exit(s) ==
  /\ pc[s] = "leaving" /\ Tasks(s) = {}
  /\ ProcessEnds(s, None)
  /\ abandoned' = abandoned \cup Users(s)
  /\ UNCHANGED bounds

\* A client of the public API begins a request, or has had its answer.
PublicRequest(s) ==
  /\ pc[s] \in {"serving", "stopping"} /\ port = s /\ s \notin held
  /\ held' = held \cup {s}
  /\ UNCHANGED <<pc, failed, pathVars, overlapped, clientVars, bounds>>

PublicDone(s) ==
  /\ s \in held
  /\ held' = held \ {s}
  /\ UNCHANGED <<pc, failed, pathVars, overlapped, clientVars, bounds>>

-----------------------------------------------------------------------------
(* The CLI's unlock, and what the admin API does for it.                   *)

serverVars == <<pc, failed, pathVars, held, overlapped, abandoned, bounds>>

To(c, l) == cpc' = [cpc EXCEPT ![c] = l]

\* resolve_admin_socket, before the passphrase is asked for.  (A client is
\* used for a new command once the task of its last one is over.)
Resolve(c) ==
  /\ cpc[c] = "idle" /\ task[c] = None
  /\ To(c, IF file.kind = "socket" THEN "prompt" ELSE "idle")
  /\ UNCHANGED <<serverVars, peer, task>>

\* The passphrase is typed, and whoever listens at the path by then is called;
\* an operator needs the configured mode.
Connect(c) ==
  /\ cpc[c] = "prompt"
  /\ file.kind = "socket" /\ file.mode = "configured" /\ file.owner # None
  /\ To(c, "pending")
  /\ peer' = [peer EXCEPT ![c] = file.owner]
  /\ UNCHANGED <<serverVars, task>>

\* No passphrase, an empty one, or nobody who listens.
GiveUp(c) ==
  /\ cpc[c] = "prompt"
  /\ End({c})
  /\ UNCHANGED <<serverVars, task>>

\* The admin router takes the connection and reads the request.
Accept(c) ==
  /\ cpc[c] = "pending" /\ peer[c] \in admin /\ pc[peer[c]] \in {"serving", "stopping"}
  /\ To(c, "accepted")
  /\ UNCHANGED <<serverVars, peer, task>>

\* unlock_key or unlock_keyring gets the permit and spawns its blocking task.
RunUnlock(c) ==
  /\ cpc[c] = "accepted" /\ Tasks(peer[c]) = {}
  /\ To(c, "running")
  /\ task' = [task EXCEPT ![c] = peer[c]]
  /\ UNCHANGED <<serverVars, peer>>

\* The request is refused before that: no such key or keyring.
RefuseUnlock(c) ==
  /\ cpc[c] = "accepted"
  /\ End({c})
  /\ UNCHANGED <<serverVars, task>>

\* The task ends, and its result is the answer if the client still waits.
FinishUnlock(c) ==
  /\ task[c] # None
  /\ task' = [task EXCEPT ![c] = None]
  /\ End({c} \cap {d \in Clients : cpc[d] = "running"})
  /\ UNCHANGED serverVars

\* KEY_UNLOCK_TIMEOUT or KEYRING_UNLOCK_TIMEOUT: the client hangs up, and a task
\* that was started goes on.
Timeout(c) ==
  /\ cpc[c] \in Connected
  /\ End({c})
  /\ UNCHANGED <<serverVars, task>>

-----------------------------------------------------------------------------
StartUp(s) ==
  BindTcp(s) \/ StatPath(s) \/ RemoveStale(s) \/ BindSocket(s) \/ Chown(s) \/ Chmod(s)
WayDown(s) ==
  StopPublic(s) \/ StopAdmin(s) \/ Drained(s) \/ GuardStat(s) \/ GuardRemove(s) \/ Exit(s)
Serve(c) == RunUnlock(c) \/ RefuseUnlock(c) \/ FinishUnlock(c)

Next ==
  \/ \E s \in Servers :
       \/ Start(s) \/ StartUp(s) \/ GroupFails(s) \/ Signal(s) \/ WayDown(s) \/ Kill(s)
       \/ PublicRequest(s) \/ PublicDone(s)
  \/ \E c \in Clients :
       Resolve(c) \/ GiveUp(c) \/ Connect(c) \/ Accept(c) \/ Serve(c) \/ Timeout(c)

Spec == Init /\ [][Next]_vars

\* A process that is not killed goes on, a decryption ends, and an answer ends
\* its connection.  Nothing is assumed of the clients of the public API.
FairSpec ==
  /\ Spec
  /\ \A s \in Servers : WF_vars(WayDown(s))
  /\ \A c \in Clients : WF_vars(Serve(c))

-----------------------------------------------------------------------------
(* Properties.                                                             *)

\* What a server that serves has made of the path.
OwnSocket(s) == Socket(s, IF Group = None THEN "service" ELSE Group, "configured")

\* As long as a server serves, its socket is at the path with the configured group
\* and mode: whatever was there before, and whoever starts, fails, stops or is
\* killed meanwhile.  The path is not locked; what protects it is the port, which
\* is bound first.  The one exception is a server that bound its socket before the
\* guard of its predecessor had run.
SocketKept ==
  \A s \in Servers : pc[s] = "serving" /\ s \notin overlapped => file = OwnSocket(s)

\* "the socket is never group-accessible to the wrong group" (bind_admin_socket):
\* not even when the path that is made accessible is by then another's socket.
NeverWrongGroup ==
  Group # None /\ file.kind = "socket" /\ file.mode = "configured" => file.group = Group

\* A server that is asked to stop answers the unlocks it has accepted before its
\* process ends: the operator never has to guess whether the key is unlocked.
NothingAbandoned == abandoned = {}

\* What a killed server leaves at the path never keeps another one from starting:
\* a start fails for the port, the group, a file that is no socket, or because a
\* server that is just stopping takes the path away.
LeftoversHarmless ==
  \A s \in Servers : failed[s] = "path" => s \in overlapped

\* A server that has closed its port and has no public request left gets to its
\* end, although it waits for unlocks whose clients wait for it.
StopEnds ==
  \A s \in Servers :
    pc[s] = "stopping" /\ port # s /\ s \notin held ~> pc[s] = "off"

-----------------------------------------------------------------------------
(* What makes the first four inductive.                                    *)

\* From the port on, a server is alone on the way up.
Holding == {"bound", "stale", "clear", "listening", "grouped", "serving"}
PortInv == \A s \in Servers : pc[s] \in Holding => port = s

\* Nobody puts a foreign file at the path once bind_admin_socket has looked at it.
ForeignInv ==
  \A s \in Servers : pc[s] \in Holding \ {"bound"} => file.kind # "foreign"

\* What a server on its way up has at the path, unless a guard is still to come.
AtPath(s) ==
  /\ pc[s] = "stale" => file.kind = "socket"
  /\ pc[s] = "clear" => file.kind = "none"
  /\ pc[s] = "listening" => file = Socket(s, "service", "private")
  /\ pc[s] = "grouped" => file = Socket(s, IF Group = None THEN "service" ELSE Group, "private")
  /\ pc[s] = "serving" => file = OwnSocket(s)
PathInv ==
  \A s \in Servers : pc[s] \in Holding /\ s \notin overlapped => ~Overlaps(s) /\ AtPath(s)

\* The group is set before the mode, on a path that only the guard of another
\* server can touch.
GroupInv ==
  \A s \in Servers :
    pc[s] = "grouped" /\ Group # None /\ file.kind = "socket" => file.group = Group

FailedInv == \A s \in Servers : pc[s] # "off" => failed[s] = None

\* Once drained a server has no client, and gets no new one.
DrainedInv ==
  \A s \in Servers :
    pc[s] \in {"drained", "guard", "leaving"} => s \notin admin /\ Users(s) = {}

IndInv ==
  /\ TypeOK
  /\ PortInv /\ ForeignInv /\ PathInv /\ GroupInv /\ FailedInv /\ DrainedInv
  /\ NeverWrongGroup /\ NothingAbandoned /\ LeftoversHarmless
=============================================================================
