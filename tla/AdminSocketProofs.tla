-------------------------- MODULE AdminSocketProofs --------------------------
(***************************************************************************)
(* The path of the admin socket, for any number of servers and clients,    *)
(* any number of starts and of processes killed, with a group and without. *)
(***************************************************************************)
EXTENDS AdminSocket, TLAPS

-----------------------------------------------------------------------------
(* The file at the path.                                                   *)

LEMMA SocketFields ==
  ASSUME NEW f \in Files, f.kind = "socket"
  PROVE  \E s \in Servers \cup {None}, g \in {"service", Group}, m \in {"private", "configured"} :
           f = Socket(s, g, m)
  BY DEF Files, NoFile, Foreign

\* To change a field of a socket is to have another socket.
LEMMA SocketChanged ==
  ASSUME NEW f \in Files, f.kind = "socket"
  PROVE  /\ [f EXCEPT !.owner = None] \in Files
         /\ [f EXCEPT !.group = Group] \in Files
         /\ [f EXCEPT !.mode = "configured"] \in Files
<1>1. PICK s \in Servers \cup {None}, g \in {"service", Group}, m \in {"private", "configured"} :
        f = Socket(s, g, m)
  BY SocketFields
<1>2. /\ [f EXCEPT !.owner = None] = Socket(None, g, m)
      /\ [f EXCEPT !.group = Group] = Socket(s, Group, m)
      /\ [f EXCEPT !.mode = "configured"] = Socket(s, g, "configured")
  BY <1>1 DEF Socket
<1> QED
  BY <1>2 DEF Files

\* A listener that is closed changes nothing but the owner of its own socket.
LEMMA OrphanOk ==
  ASSUME NEW s \in Servers, file \in Files
  PROVE  /\ Orphan(s) \in Files /\ Orphan(s).kind = file.kind
         /\ file.kind = "socket" => Orphan(s).group = file.group /\ Orphan(s).mode = file.mode
         /\ \A t \in Servers \ {s} : \A g, m : file = Socket(t, g, m) => Orphan(s) = file
<1>1. CASE file.kind = "socket" /\ file.owner = s
  <2>1. PICK o \in Servers \cup {None}, g \in {"service", Group}, m \in {"private", "configured"} :
          file = Socket(o, g, m)
    BY <1>1, SocketFields
  <2>2. Orphan(s) = Socket(None, g, m)
    BY <1>1, <2>1 DEF Orphan, Socket
  <2>3. Orphan(s) \in Files
    BY <2>2 DEF Files
  <2> QED
    BY <1>1, <2>1, <2>2, <2>3 DEF Socket
<1>2. CASE ~(file.kind = "socket" /\ file.owner = s)
  BY <1>2 DEF Orphan
<1> QED
  BY <1>1, <1>2

-----------------------------------------------------------------------------
(* IndInv holds initially and is kept by every step.                       *)

LEMMA InitInd == Init => IndInv
<1> SUFFICES ASSUME Init PROVE IndInv
  OBVIOUS
<1>1. file \in Files
  BY DEF Init, Files
<1>2. TypeOK
  BY <1>1, AdminSocketAssumption DEF Init, TypeOK
<1>3. \A s \in Servers : pc[s] = "off" /\ failed[s] = None
  BY DEF Init
<1>4. file.kind = "socket" => file.mode = "private"
  BY DEF Init, NoFile, Foreign, Socket
<1>5. PortInv /\ ForeignInv /\ PathInv /\ GroupInv /\ FailedInv /\ DrainedInv
  BY <1>3 DEF PortInv, ForeignInv, PathInv, GroupInv, FailedInv, DrainedInv, Holding
<1>6. NeverWrongGroup /\ NothingAbandoned /\ LeftoversHarmless
  BY <1>3, <1>4, AdminSocketAssumption
     DEF Init, NeverWrongGroup, NothingAbandoned, LeftoversHarmless
<1> QED
  BY <1>2, <1>5, <1>6 DEF IndInv

\* The end of a process, be it killed or not, hurts none of the others.
LEMMA ProcessEndsInd ==
  ASSUME IndInv, NEW s \in Servers, NEW error \in {None} \cup Errors,
         ProcessEnds(s, error), abandoned' = {}, error = "path" => s \in overlapped,
         starts' \in 0 .. MaxStarts, kills' \in 0 .. MaxKills
  PROVE  IndInv'
<1> USE DEF IndInv
<1>0. TypeOK
  OBVIOUS
<1>1. file' = Orphan(s) /\ file \in Files
  BY DEF ProcessEnds, TypeOK
<1>2. /\ file' \in Files /\ file'.kind = file.kind
      /\ file.kind = "socket" => file'.group = file.group /\ file'.mode = file.mode
      /\ \A t \in Servers \ {s} : \A g, m : file = Socket(t, g, m) => file' = file
  BY <1>1, OrphanOk
<1>3. /\ pc' = [pc EXCEPT ![s] = "off"] /\ failed' = [failed EXCEPT ![s] = error]
      /\ port' = (IF port = s THEN None ELSE port) /\ admin' = admin \ {s} /\ held' = held \ {s}
      /\ overlapped' = overlapped
  BY DEF ProcessEnds, Goto
<1>4. /\ cpc' = [c \in Clients |-> IF peer[c] = s THEN "idle" ELSE cpc[c]]
      /\ peer' = [c \in Clients |-> IF peer[c] = s THEN None ELSE peer[c]]
      /\ task' = [c \in Clients |-> IF task[c] = s THEN None ELSE task[c]]
  BY DEF ProcessEnds, End
<1>5. TypeOK'
  BY <1>0, <1>2, <1>3, <1>4, AdminSocketAssumption DEF TypeOK, Connected
<1>6. PortInv' /\ ForeignInv' /\ GroupInv' /\ FailedInv' /\ NeverWrongGroup' /\ NothingAbandoned'
  BY <1>0, <1>2, <1>3 DEF TypeOK, PortInv, ForeignInv, GroupInv, FailedInv, NeverWrongGroup,
                          NothingAbandoned, Holding
<1>7. PathInv'
  <2> SUFFICES ASSUME NEW t \in Servers, pc'[t] \in Holding, t \notin overlapped
               PROVE  ~Overlaps(t)' /\ AtPath(t)'
    BY <1>3 DEF PathInv
  <2>1. t # s /\ pc'[t] = pc[t]
    BY <1>0, <1>3 DEF TypeOK, Holding
  <2>2. ~Overlaps(t) /\ AtPath(t)
    BY <2>1 DEF PathInv
  <2>3. ~Overlaps(t)'
    BY <1>0, <1>3, <2>2 DEF TypeOK, Overlaps, Stopping
  <2>4. AtPath(t)'
    BY <1>2, <2>1, <2>2 DEF AtPath, OwnSocket
  <2> QED
    BY <2>3, <2>4
<1>8. DrainedInv'
  <2> SUFFICES ASSUME NEW t \in Servers, pc'[t] \in {"drained", "guard", "leaving"}
               PROVE  t \notin admin' /\ Users(t)' = {}
    BY DEF DrainedInv
  <2>1. t # s /\ pc'[t] = pc[t]
    BY <1>0, <1>3 DEF TypeOK
  <2>2. t \notin admin /\ Users(t) = {}
    BY <2>1 DEF DrainedInv
  <2>3. Users(t)' \subseteq Users(t)
    BY <1>4, AdminSocketAssumption DEF Users
  <2> QED
    BY <1>3, <2>2, <2>3
<1>9. LeftoversHarmless'
  BY <1>0, <1>3 DEF TypeOK, LeftoversHarmless
<1> QED
  BY <1>5, <1>6, <1>7, <1>8, <1>9

LEMMA FailInd ==
  ASSUME IndInv, NEW s \in Servers, NEW error \in Errors,
         Fail(s, error), error = "path" => s \in overlapped
  PROVE  IndInv'
<1>1. abandoned' = {} /\ starts' \in 0 .. MaxStarts /\ kills' \in 0 .. MaxKills
  BY DEF Fail, IndInv, NothingAbandoned, TypeOK, bounds
<1> QED
  BY <1>1, ProcessEndsInd DEF Fail

LEMMA KillInd == ASSUME IndInv, NEW s \in Servers, Kill(s) PROVE IndInv'
<1>1. abandoned' = {} /\ starts' \in 0 .. MaxStarts /\ kills' \in 0 .. MaxKills
  BY AdminSocketAssumption DEF Kill, IndInv, NothingAbandoned, TypeOK
<1> QED
  BY <1>1, ProcessEndsInd, AdminSocketAssumption DEF Kill

\* Steps of one server that leave the path, the listeners and the clients alone.
LEMMA StepInd ==
  ASSUME IndInv, NEW s \in Servers, NEW l, Goto(s, l),
         l \in {"starting", "stopping", "drained", "guard", "leaving"},
         l = "starting" => pc[s] = "off",
         l = "stopping" => pc[s] = "serving",
         l = "drained" => pc[s] = "stopping" /\ s \notin admin /\ Users(s) = {},
         l \in {"guard", "leaving"} => pc[s] \in {"drained", "guard"},
         IF l = "starting" THEN failed' = [failed EXCEPT ![s] = None] ELSE failed' = failed,
         starts' \in 0 .. MaxStarts, kills' = kills,
         UNCHANGED <<pathVars, held, overlapped, clientVars>>
  PROVE  IndInv'
<1> USE DEF IndInv
<1>0. TypeOK /\ pc' = [pc EXCEPT ![s] = l]
  BY DEF Goto
<1>1. UNCHANGED <<port, admin, file, held, overlapped, cpc, peer, task, abandoned, kills>>
  BY DEF pathVars, clientVars
<1>2. TypeOK'
  BY <1>0, <1>1 DEF TypeOK, Stopping
<1>3. PortInv' /\ ForeignInv' /\ GroupInv' /\ NeverWrongGroup' /\ NothingAbandoned'
  BY <1>0, <1>1 DEF TypeOK, PortInv, ForeignInv, GroupInv, NeverWrongGroup, NothingAbandoned,
                    Holding
<1>4. FailedInv' /\ LeftoversHarmless'
  BY <1>0, <1>1, AdminSocketAssumption DEF TypeOK, FailedInv, LeftoversHarmless
<1>5. PathInv'
  <2> SUFFICES ASSUME NEW t \in Servers, pc'[t] \in Holding, t \notin overlapped
               PROVE  ~Overlaps(t)' /\ AtPath(t)'
    BY <1>1 DEF PathInv
  <2>1. t # s /\ pc'[t] = pc[t]
    BY <1>0 DEF TypeOK, Holding
  <2>2. ~Overlaps(t) /\ AtPath(t) /\ port = t
    BY <2>1 DEF PathInv, PortInv
  <2>3. l = "stopping" => FALSE
    BY <2>1, <2>2 DEF PortInv, Holding
  <2>4. pc'[s] \in Stopping => pc[s] \in Stopping
    BY <1>0, <2>3 DEF TypeOK, Stopping
  <2>5. ~Overlaps(t)'
    BY <1>0, <2>2, <2>4 DEF TypeOK, Overlaps
  <2> QED
    BY <1>1, <2>1, <2>2, <2>5 DEF AtPath, OwnSocket
<1>6. DrainedInv'
  BY <1>0, <1>1 DEF TypeOK, DrainedInv, Users
<1> QED
  BY <1>2, <1>3, <1>4, <1>5, <1>6

LEMMA StartInd == ASSUME IndInv, NEW s \in Servers, Start(s) PROVE IndInv'
<1>1. starts' \in 0 .. MaxStarts
  BY AdminSocketAssumption DEF Start, IndInv, TypeOK
<1> QED
  BY <1>1, StepInd DEF Start

LEMMA SignalInd == ASSUME IndInv, NEW s \in Servers, Signal(s) PROVE IndInv'
<1>1. starts' \in 0 .. MaxStarts /\ kills' = kills
  BY DEF Signal, IndInv, TypeOK, bounds
<1> QED
  BY <1>1, StepInd DEF Signal

LEMMA DrainedInd == ASSUME IndInv, NEW s \in Servers, Drained(s) PROVE IndInv'
<1>1. starts' \in 0 .. MaxStarts /\ kills' = kills
  BY DEF Drained, IndInv, TypeOK, bounds
<1> QED
  BY <1>1, StepInd DEF Drained

LEMMA GuardStatInd == ASSUME IndInv, NEW s \in Servers, GuardStat(s) PROVE IndInv'
<1>1. starts' \in 0 .. MaxStarts /\ kills' = kills
  BY DEF GuardStat, IndInv, TypeOK, bounds
<1>2. CASE file.kind = "socket"
  BY <1>1, <1>2, StepInd DEF GuardStat
<1>3. CASE file.kind # "socket"
  BY <1>1, <1>3, StepInd DEF GuardStat
<1> QED
  BY <1>2, <1>3

\* A step of the server that holds the port, on its way up.  Nobody else is there.
LEMMA UpInd ==
  ASSUME IndInv, NEW s \in Servers, NEW l \in Holding, Goto(s, l), port' = s,
         \A t \in Servers \ {s} : pc[t] \notin Holding,
         pc[s] # "off",
         file' \in Files, l # "bound" => file'.kind # "foreign",
         overlapped' \in {overlapped, Overlapping(s)}, l = "bound" => overlapped' = Overlapping(s),
         pc[s] = "starting" => l = "bound", pc[s] \in Holding \cup {"starting"},
         s \notin overlapped' /\ (l # "bound" => ~Overlaps(s)) => AtPath(s)',
         l = "grouped" /\ Group # None /\ file'.kind = "socket" => file'.group = Group,
         NeverWrongGroup',
         admin' \subseteq admin \cup {s},
         UNCHANGED <<failed, held, clientVars, bounds>>
  PROVE  IndInv'
<1> USE DEF IndInv
<1>0. TypeOK /\ pc' = [pc EXCEPT ![s] = l]
  BY DEF Goto
<1>1. UNCHANGED <<failed, held, cpc, peer, task, abandoned, starts, kills>>
  BY DEF clientVars, bounds
<1>2. overlapped' \subseteq overlapped \cup {s} /\ overlapped \subseteq overlapped' \cup {s}
  BY DEF Overlapping
<1>3. TypeOK'
  BY <1>0, <1>1, <1>2 DEF TypeOK, Holding
<1>4. \A t \in Servers \ {s} : pc'[t] = pc[t] /\ pc'[t] \notin Holding
  BY <1>0 DEF TypeOK
<1>5. PortInv' /\ ForeignInv' /\ GroupInv' /\ NothingAbandoned'
  BY <1>0, <1>1, <1>4 DEF TypeOK, PortInv, ForeignInv, GroupInv, NothingAbandoned, Holding
<1>6. FailedInv' /\ LeftoversHarmless'
  BY <1>0, <1>1, <1>2, AdminSocketAssumption DEF TypeOK, FailedInv, LeftoversHarmless
<1>7. PathInv'
  <2> SUFFICES ASSUME s \notin overlapped' PROVE ~Overlaps(s)' /\ AtPath(s)'
    BY <1>4 DEF PathInv
  <2>1. ~Overlaps(s)
    BY DEF Overlapping, PathInv
  <2>2. ~Overlaps(s)'
    BY <1>4, <2>1 DEF Overlaps
  <2> QED
    BY <2>1, <2>2
<1>8. DrainedInv'
  <2> SUFFICES ASSUME NEW t \in Servers, pc'[t] \in {"drained", "guard", "leaving"}
               PROVE  t \notin admin' /\ Users(t)' = {}
    BY DEF DrainedInv
  <2>1. t # s
    BY <1>0 DEF TypeOK, Holding
  <2>2. pc[t] \in {"drained", "guard", "leaving"}
    BY <1>4, <2>1
  <2> QED
    BY <1>1, <2>1, <2>2 DEF DrainedInv, Users
<1> QED
  BY <1>3, <1>5, <1>6, <1>7, <1>8

\* Whoever holds the port is alone on the way up.
LEMMA Alone ==
  ASSUME IndInv, NEW s \in Servers, pc[s] \in Holding
  PROVE  port = s /\ \A t \in Servers \ {s} : pc[t] \notin Holding
  BY DEF IndInv, PortInv

LEMMA BindTcpInd == ASSUME IndInv, NEW s \in Servers, BindTcp(s) PROVE IndInv'
<1>1. CASE Fail(s, "port")
  BY <1>1, FailInd DEF Errors
<1>2. CASE /\ port = None /\ port' = s
           /\ Goto(s, "bound")
           /\ overlapped' = Overlapping(s)
           /\ UNCHANGED <<failed, admin, file, held, clientVars, bounds>>
  <2>1. \A t \in Servers : pc[t] \notin Holding
    BY <1>2, AdminSocketAssumption DEF IndInv, PortInv
  <2>2. file' \in Files /\ NeverWrongGroup'
    BY <1>2 DEF IndInv, TypeOK, NeverWrongGroup
  <2>3. pc[s] = "starting" /\ pc'[s] = "bound"
    BY <1>2 DEF BindTcp, IndInv, TypeOK, Goto
  <2>4. AtPath(s)'
    BY <2>3 DEF AtPath
  <2> QED
    BY <1>2, <2>1, <2>2, <2>3, <2>4, UpInd DEF Holding
<1> QED
  BY <1>1, <1>2 DEF BindTcp

LEMMA GroupFailsInd == ASSUME IndInv, NEW s \in Servers, GroupFails(s) PROVE IndInv'
  BY FailInd DEF GroupFails, Errors

LEMMA StatPathInd == ASSUME IndInv, NEW s \in Servers, StatPath(s) PROVE IndInv'
<1>1. CASE Fail(s, "foreign") \/ Fail(s, "parent")
  BY <1>1, FailInd DEF Errors
<1>2. ASSUME NEW l \in {"stale", "clear"}, Goto(s, l), file.kind # "foreign",
             l = IF file.kind = "socket" THEN "stale" ELSE "clear",
             UNCHANGED <<failed, pathVars, held, overlapped, clientVars, bounds>>
      PROVE  IndInv'
  <2>1. pc[s] = "bound" /\ pc[s] \in Holding /\ l \in Holding
    BY DEF StatPath, Holding
  <2>2. UNCHANGED <<port, admin, file>>
    BY <1>2 DEF pathVars
  <2>3. file \in Files /\ file.kind \in {"none", "socket", "foreign"}
    BY DEF IndInv, TypeOK, Files, NoFile, Foreign, Socket
  <2>4. NeverWrongGroup'
    BY <2>2 DEF IndInv, NeverWrongGroup
  <2>5. pc'[s] = l
    BY <1>2 DEF IndInv, TypeOK, Goto
  <2>6. AtPath(s)'
    BY <1>2, <2>2, <2>3, <2>5 DEF AtPath
  <2>7. port' = s /\ \A t \in Servers \ {s} : pc[t] \notin Holding
    BY <2>1, <2>2, Alone
  <2> QED
    BY <1>2, <2>1, <2>2, <2>3, <2>4, <2>6, <2>7, UpInd
<1>3. CASE file.kind = "socket" /\ ~Fail(s, "foreign") /\ ~Fail(s, "parent")
  BY <1>2, <1>3 DEF StatPath
<1>4. CASE file.kind # "socket" /\ ~Fail(s, "foreign") /\ ~Fail(s, "parent")
  BY <1>2, <1>4 DEF StatPath
<1> QED
  BY <1>1, <1>3, <1>4

\* A failure for the path means that somebody's guard was still to come.
LEMMA PathFails ==
  ASSUME IndInv, NEW s \in Servers, pc[s] \in {"stale", "clear", "listening", "grouped"},
         pc[s] = "clear" <=> file.kind # "none"
  PROVE  s \in overlapped
<1> SUFFICES ASSUME s \notin overlapped PROVE FALSE
  OBVIOUS
<1>1. AtPath(s)
  BY DEF IndInv, PathInv, Holding
<1> QED
  BY <1>1 DEF AtPath, Socket

LEMMA RemoveStaleInd == ASSUME IndInv, NEW s \in Servers, RemoveStale(s) PROVE IndInv'
<1>0. pc[s] = "stale" /\ pc[s] \in Holding
  BY DEF RemoveStale, Holding
<1>1. CASE file.kind = "none" /\ Fail(s, "path")
  BY <1>0, <1>1, FailInd, PathFails DEF Errors
<1>2. CASE /\ file.kind # "none"
           /\ file' = NoFile
           /\ Goto(s, "clear")
           /\ UNCHANGED <<failed, port, admin, held, overlapped, clientVars, bounds>>
  <2>1. port' = s /\ \A t \in Servers \ {s} : pc[t] \notin Holding
    BY <1>0, <1>2, Alone
  <2>2. file' \in Files /\ file'.kind = "none"
    BY <1>2 DEF Files, NoFile
  <2>3. NeverWrongGroup'
    BY <2>2 DEF NeverWrongGroup
  <2>4. pc'[s] = "clear"
    BY <1>2 DEF IndInv, TypeOK, Goto
  <2>5. AtPath(s)'
    BY <2>2, <2>4 DEF AtPath
  <2> QED
    BY <1>0, <1>2, <2>1, <2>2, <2>3, <2>5, UpInd DEF Holding
<1> QED
  BY <1>1, <1>2 DEF RemoveStale

LEMMA BindSocketInd == ASSUME IndInv, NEW s \in Servers, BindSocket(s) PROVE IndInv'
<1>0. pc[s] = "clear" /\ pc[s] \in Holding
  BY DEF BindSocket, Holding
<1>1. CASE file.kind # "none" /\ Fail(s, "path")
  BY <1>0, <1>1, FailInd, PathFails DEF Errors
<1>2. CASE /\ file.kind = "none"
           /\ file' = Socket(s, "service", "private")
           /\ admin' = admin \cup {s}
           /\ overlapped' = Overlapping(s)
           /\ Goto(s, "listening")
           /\ UNCHANGED <<failed, port, held, clientVars, bounds>>
  <2>1. port' = s /\ \A t \in Servers \ {s} : pc[t] \notin Holding
    BY <1>0, <1>2, Alone
  <2>2. file' \in Files /\ file'.kind = "socket" /\ file'.mode = "private"
    BY <1>2 DEF Files, Socket
  <2>3. NeverWrongGroup'
    BY <2>2 DEF NeverWrongGroup
  <2>4. pc'[s] = "listening"
    BY <1>2 DEF IndInv, TypeOK, Goto
  <2>5. AtPath(s)'
    BY <1>2, <2>4 DEF AtPath
  <2> QED
    BY <1>0, <1>2, <2>1, <2>2, <2>3, <2>5, UpInd DEF Holding
<1> QED
  BY <1>1, <1>2 DEF BindSocket

LEMMA ChownInd == ASSUME IndInv, NEW s \in Servers, Chown(s) PROVE IndInv'
<1>0. pc[s] = "listening" /\ pc[s] \in Holding
  BY DEF Chown, Holding
<1>1. CASE file.kind = "none" /\ Fail(s, "path")
  BY <1>0, <1>1, FailInd, PathFails DEF Errors
<1>2. CASE /\ Group = None \/ file.kind # "none"
           /\ file' = IF Group = None THEN file ELSE [file EXCEPT !.group = Group]
           /\ Goto(s, "grouped")
           /\ UNCHANGED <<failed, port, admin, held, overlapped, clientVars, bounds>>
  <2>1. port' = s /\ \A t \in Servers \ {s} : pc[t] \notin Holding
    BY <1>0, <1>2, Alone
  <2>2. file \in Files /\ file.kind # "foreign"
    BY <1>0 DEF IndInv, TypeOK, ForeignInv
  <2>3. pc'[s] = "grouped"
    BY <1>2 DEF IndInv, TypeOK, Goto
  <2>4. s \notin overlapped => file = Socket(s, "service", "private")
    BY <1>0 DEF IndInv, PathInv, AtPath
  <2>5. CASE Group = None
    <3>1. file' = file /\ NeverWrongGroup'
      BY <1>2, <2>5 DEF NeverWrongGroup
    <3>2. s \notin overlapped' => AtPath(s)'
      BY <1>2, <2>3, <2>4, <2>5, <3>1 DEF AtPath
    <3> QED
      BY <1>0, <1>2, <2>1, <2>2, <2>5, <3>1, <3>2, UpInd DEF Holding
  <2>6. CASE Group # None
    <3>1. file.kind = "socket"
      BY <1>2, <2>2, <2>6 DEF Files, NoFile, Foreign, Socket
    <3>2. PICK o \in Servers \cup {None}, g \in {"service", Group}, m \in {"private", "configured"} :
            file = Socket(o, g, m)
      BY <2>2, <3>1, SocketFields
    <3>3. file' = Socket(o, Group, m)
      BY <1>2, <2>6, <3>2 DEF Socket
    <3>4. file' \in Files /\ file'.kind = "socket" /\ file'.group = Group
      BY <3>3 DEF Files, Socket
    <3>5. NeverWrongGroup'
      BY <3>4 DEF NeverWrongGroup
    <3>6. s \notin overlapped => file' = Socket(s, Group, "private")
      BY <1>2, <2>4, <2>6 DEF Socket
    <3>7. s \notin overlapped' => AtPath(s)'
      BY <1>2, <2>3, <2>6, <3>6 DEF AtPath
    <3> QED
      BY <1>0, <1>2, <2>1, <3>4, <3>5, <3>7, UpInd DEF Holding
  <2> QED
    BY <2>5, <2>6
<1> QED
  BY <1>1, <1>2 DEF Chown

LEMMA ChmodInd == ASSUME IndInv, NEW s \in Servers, Chmod(s) PROVE IndInv'
<1>0. pc[s] = "grouped" /\ pc[s] \in Holding
  BY DEF Chmod, Holding
<1>1. CASE file.kind = "none" /\ Fail(s, "path")
  BY <1>0, <1>1, FailInd, PathFails DEF Errors
<1>2. CASE /\ file.kind # "none"
           /\ file' = [file EXCEPT !.mode = "configured"]
           /\ Goto(s, "serving")
           /\ UNCHANGED <<failed, port, admin, held, overlapped, clientVars, bounds>>
  <2>1. port' = s /\ \A t \in Servers \ {s} : pc[t] \notin Holding
    BY <1>0, <1>2, Alone
  <2>2. file \in Files /\ file.kind # "foreign"
    BY <1>0 DEF IndInv, TypeOK, ForeignInv
  <2>3. pc'[s] = "serving"
    BY <1>2 DEF IndInv, TypeOK, Goto
  <2>4. file.kind = "socket"
    BY <1>2, <2>2 DEF Files, NoFile, Foreign, Socket
  <2>5. PICK o \in Servers \cup {None}, g \in {"service", Group}, m \in {"private", "configured"} :
          file = Socket(o, g, m)
    BY <2>2, <2>4, SocketFields
  <2>6. file' = Socket(o, g, "configured")
    BY <1>2, <2>5 DEF Socket
  <2>7. file' \in Files /\ file'.kind = "socket" /\ file'.group = g
    BY <2>6 DEF Files, Socket
  <2>8. Group # None => g = Group
    BY <1>0, <2>4, <2>5 DEF IndInv, GroupInv, Socket
  <2>9. NeverWrongGroup'
    BY <2>7, <2>8 DEF NeverWrongGroup
  <2>10. s \notin overlapped => file' = OwnSocket(s)
    <3> SUFFICES ASSUME s \notin overlapped PROVE file' = OwnSocket(s)
      OBVIOUS
    <3>1. file = Socket(s, IF Group = None THEN "service" ELSE Group, "private")
      BY <1>0 DEF IndInv, PathInv, AtPath
    <3> QED
      BY <1>2, <3>1 DEF Socket, OwnSocket
  <2>11. s \notin overlapped' => AtPath(s)'
    BY <1>2, <2>3, <2>10 DEF AtPath, OwnSocket
  <2> QED
    BY <1>0, <1>2, <2>1, <2>7, <2>9, <2>11, UpInd DEF Holding
<1> QED
  BY <1>1, <1>2 DEF Chmod

LEMMA StopPublicInd == ASSUME IndInv, NEW s \in Servers, StopPublic(s) PROVE IndInv'
<1> USE DEF IndInv
<1>1. /\ pc[s] = "stopping" /\ port = s /\ port' = None
      /\ UNCHANGED <<pc, failed, admin, file, held, overlapped, cpc, peer, task, abandoned, starts, kills>>
  BY DEF StopPublic, clientVars, bounds
<1>2. \A t \in Servers : pc[t] \notin Holding
  BY <1>1 DEF PortInv, Holding
<1>3. TypeOK'
  BY <1>1 DEF TypeOK
<1>4. PortInv' /\ ForeignInv' /\ PathInv' /\ GroupInv'
  BY <1>1, <1>2 DEF PortInv, ForeignInv, PathInv, GroupInv, Holding
<1>5. FailedInv' /\ DrainedInv' /\ NeverWrongGroup' /\ NothingAbandoned' /\ LeftoversHarmless'
  BY <1>1 DEF FailedInv, DrainedInv, Users, NeverWrongGroup, NothingAbandoned, LeftoversHarmless
<1> QED
  BY <1>3, <1>4, <1>5

LEMMA StopAdminInd == ASSUME IndInv, NEW s \in Servers, StopAdmin(s) PROVE IndInv'
<1> USE DEF IndInv
<1>0. TypeOK
  OBVIOUS
<1>1. /\ pc[s] = "stopping" /\ admin' = admin \ {s} /\ file' = Orphan(s)
      /\ UNCHANGED <<pc, failed, port, held, overlapped, task, abandoned, starts, kills>>
  BY DEF StopAdmin, bounds
<1>2. \E C \in SUBSET Clients :
        /\ cpc' = [c \in Clients |-> IF c \in C THEN "idle" ELSE cpc[c]]
        /\ peer' = [c \in Clients |-> IF c \in C THEN None ELSE peer[c]]
  BY DEF StopAdmin, End
<1>3. /\ file' \in Files /\ file'.kind = file.kind
      /\ file.kind = "socket" => file'.group = file.group /\ file'.mode = file.mode
      /\ \A t \in Servers \ {s} : \A g, m : file = Socket(t, g, m) => file' = file
  BY <1>0, <1>1, OrphanOk DEF TypeOK
<1>4. TypeOK'
  BY <1>0, <1>1, <1>2, <1>3 DEF TypeOK
<1>5. PortInv' /\ ForeignInv' /\ GroupInv' /\ FailedInv' /\ NeverWrongGroup' /\ NothingAbandoned'
      /\ LeftoversHarmless'
  BY <1>1, <1>3 DEF PortInv, ForeignInv, GroupInv, FailedInv, NeverWrongGroup, NothingAbandoned,
                    LeftoversHarmless
<1>6. PathInv'
  <2> SUFFICES ASSUME NEW t \in Servers, pc[t] \in Holding, t \notin overlapped
               PROVE  ~Overlaps(t)' /\ AtPath(t)'
    BY <1>1 DEF PathInv
  <2>1. ~Overlaps(t) /\ AtPath(t) /\ t # s
    BY <1>1 DEF PathInv, Holding
  <2> QED
    BY <1>1, <1>3, <2>1 DEF Overlaps, AtPath, OwnSocket
<1>7. DrainedInv'
  <2>1. \A t \in Servers : Users(t)' \subseteq Users(t)
    BY <1>2, AdminSocketAssumption DEF Users
  <2> QED
    BY <1>1, <2>1 DEF DrainedInv
<1> QED
  BY <1>4, <1>5, <1>6, <1>7

\* The guard of a server that nobody overlaps finds nobody on the way up.
LEMMA GuardRemoveInd == ASSUME IndInv, NEW s \in Servers, GuardRemove(s) PROVE IndInv'
<1> USE DEF IndInv
<1>0. TypeOK
  OBVIOUS
<1>1. /\ pc[s] = "guard" /\ pc' = [pc EXCEPT ![s] = "leaving"] /\ file' = NoFile
      /\ UNCHANGED <<failed, port, admin, held, overlapped, cpc, peer, task, abandoned, starts, kills>>
  BY DEF GuardRemove, Goto, clientVars, bounds
<1>2. file' \in Files /\ file'.kind = "none"
  BY <1>1 DEF Files, NoFile
<1>3. TypeOK'
  BY <1>0, <1>1, <1>2 DEF TypeOK
<1>4. PortInv' /\ ForeignInv' /\ GroupInv' /\ FailedInv' /\ NeverWrongGroup' /\ NothingAbandoned'
      /\ LeftoversHarmless'
  BY <1>0, <1>1, <1>2 DEF TypeOK, PortInv, ForeignInv, GroupInv, FailedInv, NeverWrongGroup,
                          NothingAbandoned, LeftoversHarmless, Holding
<1>5. PathInv'
  <2> SUFFICES ASSUME NEW t \in Servers, pc'[t] \in Holding, t \notin overlapped
               PROVE  FALSE
    BY <1>1 DEF PathInv
  <2>1. t # s /\ pc[t] \in Holding
    BY <1>0, <1>1 DEF TypeOK, Holding
  <2>2. ~Overlaps(t)
    BY <2>1 DEF PathInv
  <2> QED
    BY <1>1, <2>1, <2>2 DEF Overlaps, Stopping
<1>6. DrainedInv'
  BY <1>0, <1>1 DEF TypeOK, DrainedInv, Users
<1> QED
  BY <1>3, <1>4, <1>5, <1>6

LEMMA ExitInd == ASSUME IndInv, NEW s \in Servers, Exit(s) PROVE IndInv'
<1>1. Users(s) = {}
  BY DEF Exit, IndInv, DrainedInv
<1>2. abandoned' = {} /\ starts' \in 0 .. MaxStarts /\ kills' \in 0 .. MaxKills
  BY <1>1 DEF Exit, IndInv, NothingAbandoned, TypeOK, bounds
<1> QED
  BY <1>2, ProcessEndsInd, AdminSocketAssumption DEF Exit

LEMMA PublicInd ==
  ASSUME IndInv, NEW s \in Servers, PublicRequest(s) \/ PublicDone(s)
  PROVE  IndInv'
<1> USE DEF IndInv
<1>1. /\ held' \subseteq Servers
      /\ UNCHANGED <<pc, failed, port, admin, file, overlapped, cpc, peer, task, abandoned, starts, kills>>
  BY DEF PublicRequest, PublicDone, TypeOK, pathVars, clientVars, bounds
<1> QED
  BY <1>1 DEF TypeOK, PortInv, ForeignInv, PathInv, Overlaps, AtPath, OwnSocket, GroupInv, FailedInv,
              DrainedInv, Users, NeverWrongGroup, NothingAbandoned, LeftoversHarmless

\* The steps of a client, and those the server takes for it.
LEMMA ClientInd ==
  ASSUME IndInv, UNCHANGED serverVars,
         cpc' \in [Clients -> {"idle", "prompt"} \cup Connected],
         peer' \in [Clients -> Servers \cup {None}],
         task' \in [Clients -> Servers \cup {None}],
         \A t \in Servers : t \notin admin => Users(t)' \subseteq Users(t)
  PROVE  IndInv'
<1> USE DEF IndInv
<1>1. UNCHANGED <<pc, failed, port, admin, file, held, overlapped, abandoned, starts, kills>>
  BY DEF serverVars, pathVars, bounds
<1>2. TypeOK'
  BY <1>1 DEF TypeOK
<1>3. DrainedInv'
  BY <1>1 DEF DrainedInv
<1>4. PathInv'
  BY <1>1 DEF PathInv, Overlaps, AtPath, OwnSocket
<1>5. PortInv' /\ ForeignInv' /\ GroupInv' /\ FailedInv' /\ NeverWrongGroup' /\ NothingAbandoned'
      /\ LeftoversHarmless'
  BY <1>1 DEF PortInv, ForeignInv, GroupInv, FailedInv, NeverWrongGroup, NothingAbandoned,
              LeftoversHarmless
<1> QED
  BY <1>2, <1>3, <1>4, <1>5

LEMMA EndInd ==
  ASSUME IndInv, UNCHANGED serverVars, NEW C, End(C),
         task' \in [Clients -> Servers \cup {None}]
  PROVE  IndInv'
<1>1. /\ cpc' = [c \in Clients |-> IF c \in C THEN "idle" ELSE cpc[c]]
      /\ peer' = [c \in Clients |-> IF c \in C THEN None ELSE peer[c]]
  BY DEF End
<1>2. /\ cpc' \in [Clients -> {"idle", "prompt"} \cup Connected]
      /\ peer' \in [Clients -> Servers \cup {None}]
  BY <1>1 DEF IndInv, TypeOK
<1>3. \A t \in Servers : Users(t)' \subseteq Users(t)
  BY <1>1, AdminSocketAssumption DEF Users
<1> QED
  BY <1>2, <1>3, ClientInd

LEMMA ClientsInd ==
  ASSUME IndInv, NEW c \in Clients,
         Resolve(c) \/ GiveUp(c) \/ Connect(c) \/ Accept(c) \/ Serve(c) \/ Timeout(c)
  PROVE  IndInv'
<1>0. TypeOK
  BY DEF IndInv
<1>1. CASE GiveUp(c) \/ RefuseUnlock(c) \/ Timeout(c) \/ FinishUnlock(c)
  <2>1. task' \in [Clients -> Servers \cup {None}] /\ UNCHANGED serverVars /\ \E C : End(C)
    BY <1>0, <1>1 DEF TypeOK, GiveUp, RefuseUnlock, Timeout, FinishUnlock
  <2> QED
    BY <2>1, EndInd
<1>2. CASE Resolve(c)
  <2>1. /\ cpc' \in [Clients -> {"idle", "prompt"} \cup Connected]
        /\ UNCHANGED <<serverVars, peer, task>>
        /\ cpc' = [cpc EXCEPT ![c] = IF file.kind = "socket" THEN "prompt" ELSE "idle"]
    BY <1>0, <1>2 DEF TypeOK, Resolve, To
  <2>2. \A t \in Servers : Users(t)' \subseteq Users(t)
    BY <1>0, <2>1 DEF TypeOK, Users
  <2> QED
    BY <1>0, <2>1, <2>2, ClientInd DEF TypeOK
<1>3. CASE Connect(c)
  <2>1. file.owner \in Servers
    <3>1. file \in Files /\ file.kind = "socket"
      BY <1>0, <1>3 DEF TypeOK, Connect
    <3> QED
      BY <1>3, <3>1, SocketFields DEF Connect, Socket
  <2>2. /\ UNCHANGED <<serverVars, task>> /\ cpc' = [cpc EXCEPT ![c] = "pending"]
        /\ peer' = [peer EXCEPT ![c] = file.owner]
    BY <1>3 DEF Connect, To
  <2>3. /\ cpc' \in [Clients -> {"idle", "prompt"} \cup Connected]
        /\ peer' \in [Clients -> Servers \cup {None}]
    BY <1>0, <2>1, <2>2 DEF TypeOK, Connected
  <2>4. \A t \in Servers : Users(t)' \subseteq Users(t)
    BY <1>0, <2>2 DEF TypeOK, Users
  <2> QED
    BY <1>0, <2>2, <2>3, <2>4, ClientInd DEF TypeOK
<1>4. CASE Accept(c)
  <2>1. /\ peer[c] \in admin /\ cpc' = [cpc EXCEPT ![c] = "accepted"]
        /\ UNCHANGED <<serverVars, peer, task>>
    BY <1>4 DEF Accept, To
  <2>2. cpc' \in [Clients -> {"idle", "prompt"} \cup Connected]
    BY <1>0, <2>1 DEF TypeOK, Connected
  <2>3. \A t \in Servers : t \notin admin => Users(t)' \subseteq Users(t)
    BY <1>0, <2>1 DEF TypeOK, Users
  <2> QED
    BY <1>0, <2>1, <2>2, <2>3, ClientInd DEF TypeOK
<1>5. CASE RunUnlock(c)
  <2>1. /\ cpc[c] = "accepted" /\ cpc' = [cpc EXCEPT ![c] = "running"]
        /\ task' = [task EXCEPT ![c] = peer[c]] /\ UNCHANGED <<serverVars, peer>>
    BY <1>5 DEF RunUnlock, To
  <2>2. /\ cpc' \in [Clients -> {"idle", "prompt"} \cup Connected]
        /\ task' \in [Clients -> Servers \cup {None}]
    BY <1>0, <2>1 DEF TypeOK, Connected
  <2>3. \A t \in Servers : Users(t)' \subseteq Users(t)
    BY <1>0, <2>1 DEF TypeOK, Users
  <2> QED
    BY <1>0, <2>1, <2>2, <2>3, ClientInd DEF TypeOK
<1> QED
  BY <1>1, <1>2, <1>3, <1>4, <1>5 DEF Serve

LEMMA StutterInd == ASSUME IndInv, UNCHANGED vars PROVE IndInv'
<1> USE DEF IndInv
<1>1. UNCHANGED <<pc, failed, port, admin, file, held, overlapped, cpc, peer, task, abandoned, starts, kills>>
  BY DEF vars, pathVars, clientVars, bounds
<1> QED
  BY <1>1 DEF TypeOK, PortInv, ForeignInv, PathInv, Overlaps, AtPath, OwnSocket, GroupInv, FailedInv,
              DrainedInv, Users, NeverWrongGroup, NothingAbandoned, LeftoversHarmless

\* Every step of a server, of a client and of the kernel when a process ends keeps
\* what the properties need.
THEOREM Inductive == Spec => []IndInv
<1>1. ASSUME IndInv, NEW s \in Servers,
             Start(s) \/ StartUp(s) \/ GroupFails(s) \/ Signal(s) \/ WayDown(s) \/ Kill(s)
             \/ PublicRequest(s) \/ PublicDone(s)
      PROVE  IndInv'
  <2>1. CASE StartUp(s)
    BY <1>1, <2>1, BindTcpInd, StatPathInd, RemoveStaleInd, BindSocketInd, ChownInd, ChmodInd DEF StartUp
  <2>2. CASE WayDown(s)
    BY <1>1, <2>2, StopPublicInd, StopAdminInd, DrainedInd, GuardStatInd, GuardRemoveInd, ExitInd
       DEF WayDown
  <2> QED
    BY <1>1, <2>1, <2>2, StartInd, GroupFailsInd, SignalInd, KillInd, PublicInd
<1>2. IndInv /\ [Next]_vars => IndInv'
  BY <1>1, ClientsInd, StutterInd DEF Next
<1> QED
  BY <1>2, InitInd, PTL DEF Spec

-----------------------------------------------------------------------------
(* What follows.                                                           *)

\* The types hold: whatever is done to the path, a socket or nothing is there once
\* bind_admin_socket has looked at it.
THEOREM TypeCorrect == Spec => []TypeOK
<1>1. IndInv => TypeOK
  BY DEF IndInv
<1> QED
  BY <1>1, Inductive, PTL

\* A server that serves has its own socket at the path.
THEOREM Kept == Spec => []SocketKept
<1>1. IndInv => SocketKept
  BY DEF IndInv, PathInv, AtPath, SocketKept, Holding
<1> QED
  BY <1>1, Inductive, PTL

\* The socket is never open to another group than the configured one.
THEOREM GroupSafe == Spec => []NeverWrongGroup
<1>1. IndInv => NeverWrongGroup
  BY DEF IndInv
<1> QED
  BY <1>1, Inductive, PTL

\* No accepted unlock ends with the server that was asked to stop.
THEOREM AllAnswered == Spec => []NothingAbandoned
<1>1. IndInv => NothingAbandoned
  BY DEF IndInv
<1> QED
  BY <1>1, Inductive, PTL

\* No leftover keeps a server from starting.
THEOREM StartsOver == Spec => []LeftoversHarmless
<1>1. IndInv => LeftoversHarmless
  BY DEF IndInv
<1> QED
  BY <1>1, Inductive, PTL
=============================================================================
