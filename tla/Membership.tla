------------------------------ MODULE Membership ------------------------------
(***************************************************************************)
(* How the processes of eau2 find each other                               *)
(* (distributed_app_network_layer.cpp and the connection slots of          *)
(* socket_network.cpp), and how their applications wait for it.            *)
(*                                                                         *)
(* A process is known by its address; an id is a slot in connections.  The *)
(* Registrar has id 0 and gives a node the id of the slot in which it      *)
(* accepted its connection.  After each change it broadcasts the directory.*)
(* Each process has a network thread (run) and an application thread.      *)
(*                                                                         *)
(* Data messages are left out.  What a process that ended still had to     *)
(* read is lost; a broken connection is noticed by reading it, in any      *)
(* order with what else arrives, and a write to it has no effect.          *)
(***************************************************************************)
EXTENDS Integers, Sequences, FiniteSets, FiniteSetsExt, Functions

CONSTANTS
    MaxConnections,   \* SocketNetwork::max_connections
    Registrar,
    Nodes,            \* the other processes that may be started
    Apps,             \* bound: the processes whose applications are started
    MaxFailures,      \* bound: processes that may fail
    None

Procs == Nodes \cup {Registrar}
Ids == 0 .. MaxConnections - 1
NoId == -1

ASSUME ConnectionsAssumption == MaxConnections \in Nat \ {0, 1}
ASSUME ProcsAssumption == Registrar \notin Nodes /\ None \notin Procs
ASSUME AppsAssumption == Apps \subseteq Procs
ASSUME FailuresAssumption == MaxFailures \in Nat

VARIABLES
    connections,   \* [process -> [slot -> process at the other end, or None]]
    pending,       \* [process -> connections not yet accepted]
    unread,        \* [process -> connections accepted for which no slot was free]
    registers,     \* nodes whose Register message is under way
    inbox,         \* [node -> Directory messages under way to it]
    directory,     \* [process -> [id -> process at that address, or None]]
    id,
    at_full_connection,
    net,           \* [process -> what its network thread is doing]
    app,           \* [process -> where its application thread is]
    stopped,       \* [process -> why its network thread ended, or "no"]
    failures

vars == <<connections, pending, unread, registers, inbox, directory, id,
          at_full_connection, net, app, stopped, failures>>

Running(p) == stopped[p] = "no"
\* self_shutdown ends the network thread only, anything else the process.
AppRunning(p) == stopped[p] \in {"no", "shutdown"}
Doing(pc, i) == [pc |-> pc, i |-> i]
NoConnections == [i \in Ids |-> None]

Init ==
    /\ connections = [p \in Procs |-> NoConnections]
    /\ pending = [p \in Procs |-> <<>>]
    /\ unread = [p \in Procs |-> {}]
    /\ registers = {}
    /\ inbox = [n \in Nodes |-> <<>>]
    /\ directory = [p \in Procs |-> IF p = Registrar
                                    THEN [NoConnections EXCEPT ![0] = Registrar]
                                    ELSE NoConnections]
    /\ id = [p \in Procs |-> IF p = Registrar THEN 0 ELSE NoId]
    /\ at_full_connection = [p \in Procs |-> FALSE]
    /\ net = [p \in Procs |-> Doing(IF p = Registrar THEN "poll" ELSE "off", 0)]
    /\ app = [p \in Procs |-> "start"]
    /\ stopped = [p \in Procs |-> "no"]
    /\ failures = 0

-----------------------------------------------------------------------------
Full(dir) == \A i \in Ids : dir[i] # None

\* The other end of a connection is open while a slot, the queue of accept or
\* a forgotten socket holds it.
Holds(p, q) ==
    Running(p) /\ (q \in Range(connections[p]) \/ q \in Range(pending[p]) \/ q \in unread[p])
Broken(p, i) == connections[p][i] # None /\ ~ Holds(connections[p][i], p)

\* Faulty: every copy names the slot of the node that registered last.
BroadcastSameTarget(slots, dir) ==
    inbox' = [n \in Nodes |->
        IF n \in Range(slots) /\ Running(n)
        THEN Append(inbox[n], [dir |-> dir, target |-> Max({i \in Ids : dir[i] # None})])
        ELSE inbox[n]]

\* broadcast_message: to every slot that is connected, registered or not;
\* target is the slot the message is sent on.
Broadcast(slots, dir) ==
    inbox' = [n \in Nodes |->
        IF n \in Range(slots) /\ Running(n)
        THEN Append(inbox[n], [dir |-> dir, target |-> CHOOSE i \in Ids : slots[i] = n])
        ELSE inbox[n]]

\* Faulty: notify_all is forgotten.
NotifyFullNobody(p) == UNCHANGED app

\* full_connection_signal.notify_all
NotifyFull(p) == app' = IF app[p] = "gateAsleep" THEN [app EXCEPT ![p] = "id"] ELSE app

\* The process, or its network thread, ends: its sockets are closed.  (Those
\* that found no slot are closed with the process only: no matter for nodes
\* that all end with the registrar.)
Ends(p, why) ==
    /\ stopped' = [stopped EXCEPT ![p] = why]
    /\ connections' = [connections EXCEPT ![p] = NoConnections]
    /\ pending' = [pending EXCEPT ![p] = <<>>]
    /\ unread' = [unread EXCEPT ![p] = {}]
    /\ inbox' = IF p \in Nodes THEN [inbox EXCEPT ![p] = <<>>] ELSE inbox

\* connect: an assert fails when nobody listens at the address.
ConnectTo(p, i, q) ==
    IF Running(q)
    THEN /\ connections' = [connections EXCEPT ![p][i] = q]
         /\ pending' = [pending EXCEPT ![q] = Append(@, p)]
         /\ UNCHANGED <<unread, inbox, stopped>>
    ELSE Ends(p, "assert")

-----------------------------------------------------------------------------
\* The network thread.

\* run of a Node: listen, then handle_initialization connects to the registrar ...
Start(n) ==
    /\ Running(n) /\ net[n].pc = "off"
    /\ ConnectTo(n, 0, Registrar)
    /\ net' = [net EXCEPT ![n] = Doing("register", 0)]
    /\ UNCHANGED <<registers, directory, id, at_full_connection, app, failures>>

\* ... and sends its address.
SendRegister(n) ==
    /\ Running(n) /\ net[n].pc = "register"
    /\ registers' = registers \cup {n}
    /\ net' = [net EXCEPT ![n] = Doing("poll", 0)]
    /\ UNCHANGED <<connections, pending, unread, inbox, directory, id,
                   at_full_connection, app, stopped, failures>>

Polling(p) == Running(p) /\ net[p].pc = "poll"

FreeSlots(p) == {i \in Ids : i # id[p] /\ connections[p][i] = None}

\* Faulty: the slots are searched from the end.
FirstFreeFromEnd(p) == Max(FreeSlots(p))

FirstFree(p) == Min(FreeSlots(p))

\* add_new_connection
AddNewConnection(p) ==
    /\ Polling(p) /\ pending[p] # <<>>
    /\ pending' = [pending EXCEPT ![p] = Tail(@)]
    /\ LET q == Head(pending[p])
       IN  IF FreeSlots(p) # {}
           THEN connections' = [connections EXCEPT ![p][FirstFree(p)] = q] /\ UNCHANGED unread
           ELSE unread' = [unread EXCEPT ![p] = @ \cup {q}] /\ UNCHANGED connections
    /\ UNCHANGED <<registers, inbox, directory, id, at_full_connection, net, app,
                   stopped, failures>>

\* Registrar::handle_incoming_message, Register: the node in slot i gets id i.
HandleRegister(i) ==
    LET n == connections[Registrar][i]
        dir == IF directory[Registrar][i] = None
               THEN [directory[Registrar] EXCEPT ![i] = n] ELSE directory[Registrar]
    IN  /\ Polling(Registrar) /\ n \in registers
        /\ registers' = registers \ {n}
        /\ directory' = [directory EXCEPT ![Registrar] = dir]
        /\ Broadcast(connections[Registrar], dir)
        /\ IF Full(dir)
           THEN /\ NotifyFull(Registrar)
                /\ net' = [net EXCEPT ![Registrar] = Doing("setFull", NoId)]
           ELSE UNCHANGED <<app, net>>
        /\ UNCHANGED <<connections, pending, unread, id, at_full_connection,
                       stopped, failures>>

\* Node::handle_incoming_message, Directory: the connections of ids that are
\* not in it are closed, it replaces the one before, and the threads that wait
\* for all nodes are notified ...
HandleDirectory(n) ==
    /\ Polling(n) /\ inbox[n] # <<>>
    /\ LET msg == Head(inbox[n])
       IN  /\ inbox' = [inbox EXCEPT ![n] = Tail(@)]
           /\ connections' = [connections EXCEPT ![n] =
                 [i \in Ids |-> IF msg.dir[i] = None THEN None ELSE @[i]]]
           /\ directory' = [directory EXCEPT ![n] = msg.dir]
           /\ IF Full(msg.dir)
              THEN NotifyFull(n) /\ net' = [net EXCEPT ![n] = Doing("setFull", msg.target)]
              ELSE UNCHANGED app /\ net' = [net EXCEPT ![n] = Doing("identify", msg.target)]
    /\ UNCHANGED <<pending, unread, registers, id, at_full_connection, stopped, failures>>

\* ... before the flag is set.
SetFull(p) ==
    /\ Running(p) /\ net[p].pc = "setFull"
    /\ at_full_connection' = [at_full_connection EXCEPT ![p] = TRUE]
    /\ net' = [net EXCEPT ![p] = IF p = Registrar THEN Doing("poll", 0)
                                 ELSE Doing("identify", @.i)]
    /\ UNCHANGED <<connections, pending, unread, registers, inbox, directory, id, app,
                   stopped, failures>>

\* Faulty: the loop begins one id too late.
IdentifySkipsOne(n) ==
    /\ Running(n) /\ net[n].pc = "identify"
    /\ IF id[n] = NoId
       THEN /\ id' = [id EXCEPT ![n] = net[n].i]
            /\ app' = IF app[n] = "idAsleep" THEN [app EXCEPT ![n] = "up"] ELSE app
            /\ net' = [net EXCEPT ![n] = Doing("poll", 0)]
       ELSE /\ net' = [net EXCEPT ![n] = Doing("mesh", id[n] + 2)]
            /\ UNCHANGED <<id, app>>
    /\ UNCHANGED <<connections, pending, unread, registers, inbox, directory,
                   at_full_connection, stopped, failures>>

\* Faulty: later directories are not acted on.
IdentifyOnly(n) ==
    /\ Running(n) /\ net[n].pc = "identify"
    /\ id' = [id EXCEPT ![n] = net[n].i]
    /\ app' = IF app[n] = "idAsleep" THEN [app EXCEPT ![n] = "up"] ELSE app
    /\ net' = [net EXCEPT ![n] = Doing("poll", 0)]
    /\ UNCHANGED <<connections, pending, unread, registers, inbox, directory,
                   at_full_connection, stopped, failures>>

\* The first directory gives the node its id, any later one makes it connect to
\* the nodes with higher ids.
Identify(n) ==
    /\ Running(n) /\ net[n].pc = "identify"
    /\ IF id[n] = NoId
       THEN /\ id' = [id EXCEPT ![n] = net[n].i]
            /\ app' = IF app[n] = "idAsleep" THEN [app EXCEPT ![n] = "up"] ELSE app
            /\ net' = [net EXCEPT ![n] = Doing("poll", 0)]
       ELSE /\ net' = [net EXCEPT ![n] = Doing("mesh", id[n] + 1)]
            /\ UNCHANGED <<id, app>>
    /\ UNCHANGED <<connections, pending, unread, registers, inbox, directory,
                   at_full_connection, stopped, failures>>

\* Faulty: a connection is initiated twice.
AlreadyConnectedNever(n, i) == FALSE

AlreadyConnected(n, i) == connections[n][i] # None

\* The loop over the directory, which ends at the first id that is missing.
ConnectNext(n) ==
    LET i == net[n].i
    IN  /\ Running(n) /\ net[n].pc = "mesh"
        /\ i \in Ids /\ directory[n][i] # None
        /\ IF AlreadyConnected(n, i)
           THEN UNCHANGED <<connections, pending, unread, inbox, stopped>>
           ELSE ConnectTo(n, i, directory[n][i])
        /\ net' = [net EXCEPT ![n] = Doing("mesh", i + 1)]
        /\ UNCHANGED <<registers, directory, id, at_full_connection, app, failures>>

ConnectDone(n) ==
    LET i == net[n].i
    IN  /\ Running(n) /\ net[n].pc = "mesh"
        /\ i \in Ids => directory[n][i] = None
        /\ net' = [net EXCEPT ![n] = Doing("poll", 0)]
        /\ UNCHANGED <<connections, pending, unread, registers, inbox, directory, id,
                       at_full_connection, app, stopped, failures>>

\* read_socket of a connection whose other end is closed: the registrar takes
\* the node out of the directory ...
RegistrarReadsClosed(i) ==
    LET slots == [connections[Registrar] EXCEPT ![i] = None]
        dir == [directory[Registrar] EXCEPT ![i] = None]
    IN  /\ Polling(Registrar) /\ Broken(Registrar, i)
        /\ connections[Registrar][i] \notin registers
        /\ connections' = [connections EXCEPT ![Registrar] = slots]
        /\ directory' = [directory EXCEPT ![Registrar] = dir]
        /\ Broadcast(slots, dir)
        /\ UNCHANGED <<pending, unread, registers, id, at_full_connection, net, app,
                       stopped, failures>>

\* Faulty: the node goes on without its registrar.
NodeReadsClosedGoesOn(n, i) ==
    /\ Polling(n) /\ Broken(n, i)
    /\ connections' = [connections EXCEPT ![n][i] = None]
    /\ UNCHANGED <<pending, unread, inbox, stopped>>
    /\ UNCHANGED <<registers, directory, id, at_full_connection, net, app, failures>>

\* ... a node ends its network thread if it was the registrar.
NodeReadsClosed(n, i) ==
    /\ Polling(n) /\ Broken(n, i)
    /\ IF i = 0
       THEN Ends(n, "shutdown")
       ELSE /\ connections' = [connections EXCEPT ![n][i] = None]
            /\ UNCHANGED <<pending, unread, inbox, stopped>>
    /\ UNCHANGED <<registers, directory, id, at_full_connection, net, app, failures>>

-----------------------------------------------------------------------------
\* The application thread: get_home_id waits for all nodes, then for the id.

CheckFull(p) ==
    /\ AppRunning(p) /\ net[p].pc # "off" /\ app[p] = "start"
    /\ app' = [app EXCEPT ![p] = IF at_full_connection[p] THEN "id" ELSE "gate"]
    /\ UNCHANGED <<connections, pending, unread, registers, inbox, directory, id,
                   at_full_connection, net, stopped, failures>>

CheckId(p) ==
    /\ AppRunning(p) /\ app[p] = "id"
    /\ app' = [app EXCEPT ![p] = IF id[p] # NoId THEN "up" ELSE "idWait"]
    /\ UNCHANGED <<connections, pending, unread, registers, inbox, directory, id,
                   at_full_connection, net, stopped, failures>>

\* Lock::wait, without the lock and without looking again.
Sleep(p) ==
    /\ AppRunning(p) /\ app[p] \in {"gate", "idWait"}
    /\ app' = [app EXCEPT ![p] = IF @ = "gate" THEN "gateAsleep" ELSE "idAsleep"]
    /\ UNCHANGED <<connections, pending, unread, registers, inbox, directory, id,
                   at_full_connection, net, stopped, failures>>

\* A process fails.
Fail(p) ==
    /\ Running(p) /\ net[p].pc # "off" /\ failures < MaxFailures
    /\ failures' = failures + 1
    /\ Ends(p, "failure")
    /\ UNCHANGED <<registers, directory, id, at_full_connection, net, app>>

-----------------------------------------------------------------------------
NodeStep(n) ==
    \/ SendRegister(n) \/ HandleDirectory(n) \/ SetFull(n)
    \/ Identify(n) \/ ConnectNext(n) \/ ConnectDone(n)
RegistrarStep == SetFull(Registrar) \/ \E i \in Ids : HandleRegister(i)
ReadClosed(p) == \E i \in Ids :
    \/ p \in Nodes /\ NodeReadsClosed(p, i)
    \/ p = Registrar /\ RegistrarReadsClosed(i)
AppStep(p) == CheckFull(p) \/ CheckId(p) \/ Sleep(p)

Next ==
    \/ RegistrarStep
    \/ \E n \in Nodes : Start(n) \/ NodeStep(n)
    \/ \E p \in Procs : AddNewConnection(p) \/ ReadClosed(p) \/ Fail(p)
    \/ \E p \in Apps : AppStep(p)

Spec == Init /\ [][Next]_vars

\* Threads keep running; run accepts and reads whatever select reports.  Nobody
\* has to start a node.
FairSpec ==
    /\ Spec
    /\ WF_vars(RegistrarStep)
    /\ \A n \in Nodes : WF_vars(NodeStep(n))
    /\ \A p \in Procs : WF_vars(AddNewConnection(p)) /\ WF_vars(ReadClosed(p))
    /\ \A p \in Apps : WF_vars(AppStep(p))

-----------------------------------------------------------------------------
TypeOK ==
    /\ connections \in [Procs -> [Ids -> Procs \cup {None}]]
    /\ pending \in [Procs -> Seq(Nodes)]
    /\ unread \in [Procs -> SUBSET Nodes]
    /\ registers \subseteq Nodes
    /\ inbox \in [Nodes -> Seq([dir : [Ids -> Procs \cup {None}], target : Ids])]
    /\ directory \in [Procs -> [Ids -> Procs \cup {None}]]
    /\ id \in [Procs -> Ids \cup {NoId}]
    /\ at_full_connection \in [Procs -> BOOLEAN]
    /\ net \in [Procs -> [pc : {"off", "register", "poll", "setFull", "identify", "mesh"},
                          i : Ids \cup {NoId, MaxConnections}]]
    /\ app \in [Procs -> {"start", "gate", "gateAsleep", "id", "idWait", "idAsleep", "up"}]
    /\ stopped \in [Procs -> {"no", "assert", "shutdown", "failure"}]
    /\ failures \in 0 .. MaxFailures

\* A node's id is the slot in which the registrar holds its connection, from
\* the first directory on and while both run, although directories also go to
\* nodes that have not registered, in the slot of a node that failed before,
\* and in any order of registration (distributed_app_network_layer.cpp:249-255).
IdIsRegistrarsSlot ==
    \A n \in Nodes : Running(n) /\ Running(Registrar) /\ id[n] # NoId =>
        connections[Registrar][id[n]] = n

\* Two processes never have two connections: neither end opens a second one
\* while it holds the first, and only the lower id opens one
\* (distributed_app_network_layer.cpp:257-267, socket_network.cpp:235-238).
OneConnection ==
    \A p \in Procs, n \in Nodes :
        Cardinality({i \in Ids : connections[p][i] = n})
            + Cardinality({k \in DOMAIN pending[p] : pending[p][k] = n})
            + (IF n \in unread[p] THEN 1 ELSE 0) <= 1

\* A message sent to a target id reaches the node with that id: "target: the
\* index of the receiver node" (serial.h:92).
TargetIsReceiver ==
    \A p \in Procs, i \in Ids :
        LET q == connections[p][i]
        IN  q # None /\ Running(p) /\ Running(q) /\ id[p] # NoId /\ id[q] # NoId => id[q] = i

SomeStopped == \E p \in Procs : ~ Running(p)

Registered == Range(directory[Registrar]) \ {None}

\* The last registration, when all have read the directories before it.
LastRegistered ==
    /\ Full(directory[Registrar])
    /\ \A n \in Registered \ {Registrar} :
          /\ Len(inbox[n]) = 1 /\ Head(inbox[n]).dir = directory[Registrar]
          /\ \A i \in Ids : ~ Broken(n, i)

Mesh == \A p, q \in Registered : p # q => q \in Range(connections[p])

\* Nodes that start one after the other end up with a connection between any
\* two of them, unless one stops.
MeshCompletes == LastRegistered ~> (Mesh \/ SomeStopped)

\* An application that sleeps before its directory is full goes on once every
\* node is registered, unless a process stops
\* (distributed_app_network_layer.cpp:104-107, 243-246 and 299-303).
SleepingAppGoesOn ==
    \A p \in Apps :
        (/\ app[p] = "gateAsleep" /\ ~ at_full_connection[p] /\ net[p].pc # "setFull"
         /\ Full(directory[Registrar])) ~> (app[p] # "gateAsleep" \/ SomeStopped)

\* When the registrar is gone the network thread of every node that was
\* started ends
\* (distributed_app_network_layer.cpp:304-309).
NodesFollowRegistrar ==
    \A n \in Nodes : (~ Running(Registrar) /\ net[n].pc # "off") ~> ~ Running(n)
=============================================================================
