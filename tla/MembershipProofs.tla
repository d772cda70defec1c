--------------------------- MODULE MembershipProofs ---------------------------
(***************************************************************************)
(* Ids and connections of eau2, for any number of slots and processes, any *)
(* order of starting and any failures: a node's id is the slot in which    *)
(* the registrar holds its connection, and two processes never have two    *)
(* connections.                                                            *)
(*                                                                         *)
(* A node's slot is nowhere in the state when the registrar has ended,     *)
(* though directories under way still go by it: the invariant says that    *)
(* there are slots all that is known goes by.                              *)
(***************************************************************************)
EXTENDS Membership, NumberTheorems, SequenceTheorems

\* The slots the registrar gives to nodes.
Slots == Ids \ {0}

\* What the network threads count with.
NetInv ==
    /\ id[Registrar] = 0
    /\ net[Registrar].pc \in {"poll", "setFull"}
    /\ \A n \in Nodes : /\ net[n].pc \in {"setFull", "identify"} => net[n].i \in Ids
                        /\ net[n].pc = "mesh" => net[n].i \in Ids \cup {MaxConnections}

-----------------------------------------------------------------------------
\* Where the connections of n are that p holds: at most one in all.
At(p, n)     == {i \in Ids : connections[p][i] = n}
Queued(p, n) == {k \in DOMAIN pending[p] : pending[p][k] = n}

AtMostOne(p, n) ==
    /\ \A i, j \in At(p, n) : i = j
    /\ \A k, l \in Queued(p, n) : k = l
    /\ At(p, n) # {} => Queued(p, n) = {} /\ n \notin unread[p]
    /\ Queued(p, n) # {} => n \notin unread[p]

AllOnce == \A p \in Procs : \A n \in Nodes : AtMostOne(p, n)

-----------------------------------------------------------------------------
\* s says which slot each node has at the registrar.  All about it is about
\* nodes that run: what a directory says of a node that has ended is stale.

\* The registrar, as long as it runs, has the connection of n in its slot.
Placed(s, n) == Running(Registrar) => connections[Registrar][s[n]] = n

\* A directory names no node but in its slot.
DirectoryOK(s, dir) ==
    /\ \A i \in Slots : dir[i] # Registrar
    /\ \A n \in Nodes : \A i \in Ids : Running(n) /\ dir[i] = n => i = s[n] /\ Placed(s, n)

\* The node has been told its id.
Told(n) ==
    inbox[n] # <<>> \/ id[n] # NoId \/ net[n].pc \in {"setFull", "identify", "mesh"}

RegistrarOK(s) ==
    /\ connections[Registrar][0] = None
    /\ directory[Registrar][0] = Registrar
    /\ DirectoryOK(s, directory[Registrar])

NodeOK(s, n) ==
    /\ net[n].pc # "off" => connections[n][0] = Registrar
    /\ net[n].pc = "off" => /\ At(Registrar, n) = {}
                            /\ Queued(Registrar, n) = {}
                            /\ n \notin unread[Registrar]
    /\ \A i \in Ids : connections[Registrar][i] = n => i = s[n]
    /\ Told(n) => Placed(s, n)
    /\ id[n] \in {NoId, s[n]}
    /\ net[n].pc \in {"setFull", "identify"} => net[n].i = s[n]
    /\ net[n].pc = "mesh" => id[n] = s[n] /\ net[n].i > s[n]
    /\ DirectoryOK(s, directory[n])
    /\ \A k \in DOMAIN inbox[n] : /\ inbox[n][k].target = s[n]
                                  /\ inbox[n][k].dir[0] = Registrar
                                  /\ DirectoryOK(s, inbox[n][k].dir)

\* A node that is in one directory that p reads is in all that p reads later.
StaysListed(s, p, n) ==
    /\ directory[p][s[n]] = n =>
          /\ \A k \in DOMAIN inbox[p] : inbox[p][k].dir[s[n]] = n
          /\ Running(Registrar) => directory[Registrar][s[n]] = n
    /\ \A k \in DOMAIN inbox[p] : inbox[p][k].dir[s[n]] = n =>
          /\ \A l \in DOMAIN inbox[p] : k <= l => inbox[p][l].dir[s[n]] = n
          /\ Running(Registrar) => directory[Registrar][s[n]] = n

\* Between two nodes the one in the lower slot connects, with the slot of the
\* other one, and holds that slot as long as the other one holds the connection.
Connects(s, p, q) ==
    s[p] < s[q] /\ connections[p][s[q]] = q /\ directory[p][s[q]] = q

LinkOK(s, p, q) ==
    /\ \A i \in At(p, q) :
          /\ Placed(s, p) /\ Placed(s, q)
          /\ (i = s[q] /\ Connects(s, p, q)) \/ Connects(s, q, p)
    /\ Queued(p, q) # {} \/ q \in unread[p] =>
          Placed(s, p) /\ Placed(s, q) /\ Connects(s, q, p)

SlotsOK(s) ==
    /\ RegistrarOK(s)
    /\ \A n \in Nodes : Running(n) => NodeOK(s, n)
    /\ \A p, q \in Nodes : Running(p) /\ Running(q) => StaysListed(s, p, q) /\ LinkOK(s, p, q)

MembershipInv ==
    /\ TypeOK /\ NetInv
    /\ AllOnce
    /\ \E s \in [Nodes -> Slots] : SlotsOK(s)

-----------------------------------------------------------------------------
\* Types.

LEMMA ProcFacts ==
    /\ Registrar \in Procs /\ Nodes \subseteq Procs /\ Registrar \notin Nodes
    /\ None \notin Procs /\ None # Registrar /\ None \notin Nodes
    /\ \A p \in Procs : p = Registrar \/ p \in Nodes
BY ProcsAssumption DEF Procs

LEMMA IdFacts ==
    /\ 0 \in Ids /\ NoId \notin Ids /\ Ids \subseteq Nat /\ Slots \subseteq Ids
    /\ MaxConnections \in Nat
    /\ \A i \in Ids : i + 1 \in Ids \cup {MaxConnections}
BY ConnectionsAssumption DEF Ids, NoId, Slots

\* The first free slot is a free slot.
LEMMA FirstFreeFacts ==
    ASSUME NEW p \in Procs, FreeSlots(p) # {}
    PROVE  FirstFree(p) \in Ids /\ FirstFree(p) # id[p] /\ connections[p][FirstFree(p)] = None
<1>1. FreeSlots(p) \in SUBSET Nat
    BY IdFacts DEF FreeSlots
<1>2. \E i \in FreeSlots(p) : \A j \in FreeSlots(p) : i <= j
    BY <1>1, LeastNatural
<1>3. Min(FreeSlots(p)) \in FreeSlots(p)
    BY <1>2, Zenon DEF Min
<1> QED
    BY <1>3 DEF FirstFree, FreeSlots

Directories == [Ids -> Procs \cup {None}]
Letters     == [dir : Directories, target : Ids]

LEMMA BroadcastFacts ==
    ASSUME TypeOK, NEW slots \in Directories, NEW dir \in Directories, Broadcast(slots, dir)
    PROVE  /\ inbox' \in [Nodes -> Seq(Letters)]
           /\ \A n \in Nodes :
                 \/ inbox'[n] = inbox[n]
                 \/ Running(n) /\ \E i \in Ids :
                       /\ slots[i] = n
                       /\ inbox'[n] = Append(inbox[n], [dir |-> dir, target |-> i])
<1>1. \A n \in Nodes : inbox'[n] =
          IF n \in Range(slots) /\ Running(n)
          THEN Append(inbox[n], [dir |-> dir, target |-> CHOOSE i \in Ids : slots[i] = n])
          ELSE inbox[n]
    BY DEF Broadcast
<1>2. DOMAIN inbox' = Nodes /\ inbox' = [n \in Nodes |-> inbox'[n]]
    BY DEF Broadcast
<1>3. inbox \in [Nodes -> Seq(Letters)]
    BY DEF TypeOK, Letters, Directories
<1>4. ASSUME NEW n \in Nodes
      PROVE  /\ inbox'[n] \in Seq(Letters)
             /\ \/ inbox'[n] = inbox[n]
                \/ Running(n) /\ \E i \in Ids :
                      /\ slots[i] = n
                      /\ inbox'[n] = Append(inbox[n], [dir |-> dir, target |-> i])
    <2>1. CASE n \in Range(slots) /\ Running(n)
        <3>1. \E i \in Ids : slots[i] = n
            BY <2>1 DEF Range, Directories
        <3>2. PICK i \in Ids : slots[i] = n /\ i = CHOOSE j \in Ids : slots[j] = n
            BY <3>1, Zenon
        <3>3. inbox'[n] = Append(inbox[n], [dir |-> dir, target |-> i])
            BY <1>1, <2>1, <3>2
        <3>4. [dir |-> dir, target |-> i] \in Letters
            BY DEF Letters
        <3>5. Append(inbox[n], [dir |-> dir, target |-> i]) \in Seq(Letters)
            BY <1>3, <3>4, AppendProperties
        <3> QED
            BY <2>1, <3>2, <3>3, <3>5
    <2>2. CASE ~ (n \in Range(slots) /\ Running(n))
        BY <1>1, <1>3, <2>2
    <2> QED
        BY <2>1, <2>2
<1>5. inbox' \in [Nodes -> Seq(Letters)]
    BY <1>2, <1>4
<1> QED
    BY <1>4, <1>5

\* The part of the state connections are in.
ConnTypes ==
    /\ connections \in [Procs -> Directories]
    /\ pending \in [Procs -> Seq(Nodes)]
    /\ unread \in [Procs -> SUBSET Nodes]
    /\ inbox \in [Nodes -> Seq(Letters)]
    /\ stopped \in [Procs -> {"no", "assert", "shutdown", "failure"}]

LEMMA TypeParts ==
    TypeOK <=> /\ ConnTypes
               /\ registers \subseteq Nodes
               /\ directory \in [Procs -> Directories]
               /\ id \in [Procs -> Ids \cup {NoId}]
               /\ at_full_connection \in [Procs -> BOOLEAN]
               /\ net \in [Procs -> [pc : {"off", "register", "poll", "setFull", "identify", "mesh"},
                                     i : Ids \cup {NoId, MaxConnections}]]
               /\ app \in [Procs -> {"start", "gate", "gateAsleep", "id", "idWait", "idAsleep", "up"}]
               /\ failures \in 0 .. MaxFailures
BY DEF TypeOK, ConnTypes, Letters, Directories

LEMMA EndsTypes ==
    ASSUME ConnTypes, NEW p \in Procs, NEW why \in {"assert", "shutdown", "failure"}, Ends(p, why)
    PROVE  ConnTypes'
<1>1. NoConnections \in Directories
    BY DEF NoConnections, Directories
<1>2. <<>> \in Seq(Nodes) /\ <<>> \in Seq(Letters)
    OBVIOUS
<1>3. inbox' \in [Nodes -> Seq(Letters)]
    BY <1>2 DEF Ends, ConnTypes
<1> QED
    BY <1>1, <1>2, <1>3 DEF Ends, ConnTypes

LEMMA ConnectTypes ==
    ASSUME ConnTypes, NEW p \in Nodes, NEW i \in Ids, NEW q \in Procs, ConnectTo(p, i, q)
    PROVE  ConnTypes'
<1>1. CASE Running(q)
    <2>1. /\ connections' = [connections EXCEPT ![p][i] = q]
          /\ pending' = [pending EXCEPT ![q] = Append(@, p)]
          /\ UNCHANGED <<unread, inbox, stopped>>
        BY <1>1 DEF ConnectTo
    <2>2. Append(pending[q], p) \in Seq(Nodes)
        BY AppendProperties DEF ConnTypes
    <2>3. pending' \in [Procs -> Seq(Nodes)]
        BY <2>1, <2>2 DEF ConnTypes
    <2>4. connections' \in [Procs -> Directories]
        BY <2>1, ProcFacts DEF ConnTypes, Directories
    <2> QED
        BY <2>1, <2>3, <2>4 DEF ConnTypes
<1>2. CASE ~ Running(q)
    BY <1>2, EndsTypes, ProcFacts DEF ConnectTo
<1> QED
    BY <1>1, <1>2

NetTypes == net \in [Procs -> [pc : {"off", "register", "poll", "setFull", "identify", "mesh"},
                               i : Ids \cup {NoId, MaxConnections}]]
AppTypes == app \in [Procs -> {"start", "gate", "gateAsleep", "id", "idWait", "idAsleep", "up"}]

\* The thread of p does something else next.
LEMMA NetStep ==
    ASSUME NetTypes, NetInv, NEW p \in Procs,
           NEW pc \in {"register", "poll", "setFull", "identify", "mesh"},
           NEW i \in Ids \cup {NoId, MaxConnections}, net' = [net EXCEPT ![p] = Doing(pc, i)],
           p = Registrar => pc \in {"poll", "setFull"},
           p \in Nodes /\ pc \in {"setFull", "identify"} => i \in Ids,
           p \in Nodes /\ pc = "mesh" => i \in Ids \cup {MaxConnections},
           id'[Registrar] = id[Registrar]
    PROVE  NetTypes' /\ NetInv'
<1>1. \A q \in Procs : net'[q] = IF q = p THEN [pc |-> pc, i |-> i] ELSE net[q]
    BY DEF NetTypes, Doing
<1>2. NetTypes'
    BY DEF NetTypes, Doing
<1>3. id'[Registrar] = 0 /\ net'[Registrar].pc \in {"poll", "setFull"}
    BY <1>1, ProcFacts DEF NetInv
<1>4. ASSUME NEW n \in Nodes
      PROVE  /\ net'[n].pc \in {"setFull", "identify"} => net'[n].i \in Ids
             /\ net'[n].pc = "mesh" => net'[n].i \in Ids \cup {MaxConnections}
    <2>1. n \in Procs
        BY ProcFacts
    <2> QED
        BY <1>1, <2>1 DEF NetInv
<1> QED
    BY <1>2, <1>3, <1>4 DEF NetInv

LEMMA NotifyTypes ==
    ASSUME AppTypes, NEW p \in Procs, NotifyFull(p)
    PROVE  AppTypes'
BY DEF AppTypes, NotifyFull

LEMMA TypeStep ==
    ASSUME TypeOK, NetInv, [Next]_vars
    PROVE  TypeOK' /\ NetInv'
<1> USE ProcFacts, IdFacts
<1>1. /\ ConnTypes /\ registers \subseteq Nodes /\ directory \in [Procs -> Directories]
      /\ id \in [Procs -> Ids \cup {NoId}] /\ at_full_connection \in [Procs -> BOOLEAN]
      /\ NetTypes /\ AppTypes /\ failures \in 0 .. MaxFailures
    BY TypeParts DEF NetTypes, AppTypes
<1> DEFINE Rest == /\ registers' \subseteq Nodes
                   /\ directory' \in [Procs -> Directories]
                   /\ id' \in [Procs -> Ids \cup {NoId}]
                   /\ at_full_connection' \in [Procs -> BOOLEAN]
                   /\ failures' \in 0 .. MaxFailures
<1>2. ConnTypes' /\ NetTypes' /\ AppTypes' /\ Rest => TypeOK'
    BY DEF TypeOK, ConnTypes, NetTypes, AppTypes, Letters, Directories
<1>3. net' = net /\ id' = id => NetTypes' /\ NetInv'
    BY <1>1 DEF NetTypes, NetInv
<1>4. UNCHANGED <<connections, pending, unread, inbox, stopped>> => ConnTypes'
    BY <1>1 DEF ConnTypes
<1>5. ASSUME NEW n \in Nodes, Start(n) PROVE TypeOK' /\ NetInv'
    <2>1. ConnTypes'
        BY <1>1, <1>5, ConnectTypes DEF Start
    <2>2. NetTypes' /\ NetInv'
        BY <1>1, <1>5, NetStep DEF Start
    <2>3. Rest /\ AppTypes'
        BY <1>1, <1>5 DEF Start, AppTypes
    <2> QED
        BY <1>2, <2>1, <2>2, <2>3
<1>6. ASSUME NEW n \in Nodes, SendRegister(n) PROVE TypeOK' /\ NetInv'
    <2>1. NetTypes' /\ NetInv'
        BY <1>1, <1>6, NetStep DEF SendRegister
    <2>2. Rest /\ AppTypes' /\ ConnTypes'
        BY <1>1, <1>4, <1>6 DEF SendRegister, AppTypes
    <2> QED
        BY <1>2, <2>1, <2>2
<1>7. ASSUME NEW p \in Procs, AddNewConnection(p) PROVE TypeOK' /\ NetInv'
    <2> DEFINE q == Head(pending[p])
    <2>1. q \in Nodes /\ Tail(pending[p]) \in Seq(Nodes)
        BY <1>1, <1>7, HeadTailProperties DEF AddNewConnection, ConnTypes
    <2>2. pending' \in [Procs -> Seq(Nodes)]
        BY <1>1, <1>7, <2>1 DEF AddNewConnection, ConnTypes
    <2>3. connections' \in [Procs -> Directories] /\ unread' \in [Procs -> SUBSET Nodes]
        <3>1. CASE FreeSlots(p) # {}
            <4>1. /\ connections' = [connections EXCEPT ![p][FirstFree(p)] = q]
                  /\ unread' = unread
                BY <1>7, <3>1 DEF AddNewConnection
            <4>2. FirstFree(p) \in Ids
                BY <3>1, FirstFreeFacts
            <4> HIDE DEF q
            <4> QED
                BY <1>1, <2>1, <4>1, <4>2 DEF ConnTypes, Directories
        <3>2. CASE FreeSlots(p) = {}
            <4>1. connections' = connections /\ unread' = [unread EXCEPT ![p] = @ \cup {q}]
                BY <1>7, <3>2 DEF AddNewConnection
            <4> HIDE DEF q
            <4> QED
                BY <1>1, <2>1, <4>1 DEF ConnTypes
        <3> QED
            BY <3>1, <3>2
    <2>4. ConnTypes' /\ Rest /\ AppTypes' /\ net' = net /\ id' = id
        BY <1>1, <1>7, <2>2, <2>3 DEF AddNewConnection, ConnTypes, AppTypes
    <2> QED
        BY <1>2, <1>3, <2>4
<1>8. ASSUME NEW i \in Ids, HandleRegister(i) PROVE TypeOK' /\ NetInv'
    <2> DEFINE n   == connections[Registrar][i]
               dir == IF directory[Registrar][i] = None
                      THEN [directory[Registrar] EXCEPT ![i] = n] ELSE directory[Registrar]
    <2>1. dir \in Directories /\ connections[Registrar] \in Directories
        BY <1>1 DEF ConnTypes, Directories
    <2>2. /\ Broadcast(connections[Registrar], dir)
          /\ registers' \subseteq registers
          /\ directory' = [directory EXCEPT ![Registrar] = dir]
          /\ UNCHANGED <<connections, pending, unread, id, at_full_connection, stopped, failures>>
          /\ \/ NotifyFull(Registrar) /\ net' = [net EXCEPT ![Registrar] = Doing("setFull", NoId)]
             \/ UNCHANGED <<app, net>>
        BY <1>8 DEF HandleRegister
    <2>3. \A d : d \in Directories /\ Broadcast(connections[Registrar], d)
              => inbox' \in [Nodes -> Seq(Letters)]
        BY <2>1, BroadcastFacts
    <2> HIDE DEF dir
    <2>4. ConnTypes'
        BY <1>1, <2>1, <2>2, <2>3 DEF ConnTypes
    <2>5. Rest
        BY <1>1, <2>1, <2>2
    <2>6. NetTypes' /\ NetInv' /\ AppTypes'
        <3>1. CASE UNCHANGED <<app, net>>
            BY <1>1, <1>3, <2>2, <3>1 DEF AppTypes
        <3>2. CASE NotifyFull(Registrar) /\ net' = [net EXCEPT ![Registrar] = Doing("setFull", NoId)]
            BY <1>1, <2>2, <3>2, NotifyTypes, NetStep
        <3> QED
            BY <2>2, <3>1, <3>2
    <2> QED
        BY <1>2, <2>4, <2>5, <2>6
<1>9. ASSUME NEW n \in Nodes, HandleDirectory(n) PROVE TypeOK' /\ NetInv'
    <2> DEFINE msg == Head(inbox[n])
    <2>1. msg \in Letters /\ Tail(inbox[n]) \in Seq(Letters)
        BY <1>1, <1>9, HeadTailProperties DEF HandleDirectory, ConnTypes
    <2>2. /\ inbox' = [inbox EXCEPT ![n] = Tail(@)]
          /\ connections' = [connections EXCEPT ![n] =
                [i \in Ids |-> IF msg.dir[i] = None THEN None ELSE @[i]]]
          /\ directory' = [directory EXCEPT ![n] = msg.dir]
          /\ \/ NotifyFull(n) /\ net' = [net EXCEPT ![n] = Doing("setFull", msg.target)]
             \/ UNCHANGED app /\ net' = [net EXCEPT ![n] = Doing("identify", msg.target)]
          /\ UNCHANGED <<pending, unread, registers, id, at_full_connection, stopped, failures>>
        BY <1>9 DEF HandleDirectory
    <2> HIDE DEF msg
    <2>3. msg.dir \in Directories /\ msg.target \in Ids
        BY <2>1 DEF Letters
    <2>4. [i \in Ids |-> IF msg.dir[i] = None THEN None ELSE connections[n][i]] \in Directories
        BY <1>1 DEF ConnTypes, Directories
    <2>5. ConnTypes'
        BY <1>1, <2>1, <2>2, <2>4 DEF ConnTypes
    <2>6. Rest
        BY <1>1, <2>2, <2>3
    <2>7. AppTypes'
        BY <1>1, <2>2, NotifyTypes DEF AppTypes
    <2>8. NetTypes' /\ NetInv'
        BY <1>1, <2>2, <2>3, NetStep, ZenonT(30)
    <2> QED
        BY <1>2, <2>5, <2>6, <2>7, <2>8
<1>10. ASSUME NEW p \in Procs, SetFull(p) PROVE TypeOK' /\ NetInv'
    <2>1. NetTypes' /\ NetInv'
        <3>1. CASE p = Registrar
            BY <1>1, <1>10, <3>1, NetStep DEF SetFull
        <3>2. CASE p # Registrar
            <4>1. net' = [net EXCEPT ![p] = Doing("identify", net[p].i)] /\ id' = id /\ p \in Nodes
                BY <1>10, <3>2 DEF SetFull
            <4>2. net[p].i \in Ids
                BY <1>10, <4>1 DEF SetFull, NetInv
            <4> QED
                BY <1>1, <4>1, <4>2, NetStep
        <3> QED
            BY <3>1, <3>2
    <2>2. ConnTypes' /\ Rest /\ AppTypes'
        BY <1>1, <1>4, <1>10 DEF SetFull, AppTypes
    <2> QED
        BY <1>2, <2>1, <2>2
<1>11. ASSUME NEW n \in Nodes, Identify(n) PROVE TypeOK' /\ NetInv'
    <2>1. net[n].i \in Ids
        BY <1>11 DEF Identify, NetInv
    <2>2. NetTypes' /\ NetInv' /\ Rest /\ AppTypes'
        <3>1. CASE id[n] = NoId
            <4>1. /\ id' = [id EXCEPT ![n] = net[n].i]
                  /\ app' = IF app[n] = "idAsleep" THEN [app EXCEPT ![n] = "up"] ELSE app
                  /\ net' = [net EXCEPT ![n] = Doing("poll", 0)]
                BY <1>11, <3>1 DEF Identify
            <4>2. id'[Registrar] = id[Registrar]
                BY <1>1, <4>1
            <4>3. NetTypes' /\ NetInv'
                BY <1>1, <4>1, <4>2, NetStep
            <4> QED
                BY <1>1, <1>11, <2>1, <4>1, <4>3 DEF Identify, AppTypes
        <3>2. CASE id[n] # NoId
            <4>1. net' = [net EXCEPT ![n] = Doing("mesh", id[n] + 1)] /\ UNCHANGED <<id, app>>
                BY <1>11, <3>2 DEF Identify
            <4>2. id[n] + 1 \in Ids \cup {MaxConnections}
                <5>1. id[n] \in Ids
                    BY <1>1, <3>2
                <5> QED
                    BY <5>1
            <4>3. NetTypes' /\ NetInv'
                BY <1>1, <4>1, <4>2, NetStep
            <4> QED
                BY <1>1, <1>11, <4>1, <4>3 DEF Identify, AppTypes
        <3> QED
            BY <3>1, <3>2
    <2>3. ConnTypes'
        BY <1>4, <1>11 DEF Identify
    <2> QED
        BY <1>2, <2>2, <2>3
<1>12. ASSUME NEW n \in Nodes, ConnectNext(n) PROVE TypeOK' /\ NetInv'
    <2> DEFINE i == net[n].i
    <2>1. i \in Ids /\ directory[n][i] \in Procs
        <3>1. i \in Ids /\ directory[n][i] # None
            BY <1>12 DEF ConnectNext
        <3>2. directory[n] \in Directories
            BY <1>1
        <3> HIDE DEF i
        <3> QED
            BY <3>1, <3>2 DEF Directories
    <2>2. net' = [net EXCEPT ![n] = Doing("mesh", i + 1)]
          /\ UNCHANGED <<registers, directory, id, at_full_connection, app, failures>>
        BY <1>12 DEF ConnectNext
    <2>3. i + 1 \in Ids \cup {MaxConnections}
        BY <2>1
    <2>4. ConnTypes'
        <3>1. \A j \in Ids : \A q \in Procs : ConnectTo(n, j, q) => ConnTypes'
            BY <1>1, ConnectTypes
        <3>2. \/ UNCHANGED <<connections, pending, unread, inbox, stopped>>
              \/ ConnectTo(n, i, directory[n][i])
            BY <1>12 DEF ConnectNext
        <3>3. ConnectTo(n, i, directory[n][i]) => ConnTypes'
            BY <2>1, <3>1
        <3> QED
            BY <1>4, <3>2, <3>3
    <2> HIDE DEF i
    <2>5. NetTypes' /\ NetInv'
        BY <1>1, <2>2, <2>3, NetStep
    <2> QED
        BY <1>1, <1>2, <2>2, <2>4, <2>5 DEF AppTypes
<1>13. ASSUME NEW n \in Nodes, ConnectDone(n) PROVE TypeOK' /\ NetInv'
    <2>1. NetTypes' /\ NetInv'
        BY <1>1, <1>13, NetStep DEF ConnectDone
    <2>2. ConnTypes' /\ Rest /\ AppTypes'
        BY <1>1, <1>4, <1>13 DEF ConnectDone, AppTypes
    <2> QED
        BY <1>2, <2>1, <2>2
<1>14. ASSUME NEW i \in Ids, RegistrarReadsClosed(i) PROVE TypeOK' /\ NetInv'
    <2> DEFINE slots == [connections[Registrar] EXCEPT ![i] = None]
               dir   == [directory[Registrar] EXCEPT ![i] = None]
    <2>1. slots \in Directories /\ dir \in Directories
        BY <1>1 DEF ConnTypes, Directories
    <2>2. /\ Broadcast(slots, dir)
          /\ connections' = [connections EXCEPT ![Registrar] = slots]
          /\ directory' = [directory EXCEPT ![Registrar] = dir]
          /\ UNCHANGED <<pending, unread, registers, id, at_full_connection, net, app,
                         stopped, failures>>
        BY <1>14 DEF RegistrarReadsClosed
    <2>3. \A c, d : c \in Directories /\ d \in Directories /\ Broadcast(c, d)
              => inbox' \in [Nodes -> Seq(Letters)]
        BY BroadcastFacts
    <2> HIDE DEF slots, dir
    <2>4. ConnTypes'
        BY <1>1, <2>1, <2>2, <2>3 DEF ConnTypes
    <2>5. Rest /\ AppTypes'
        BY <1>1, <2>1, <2>2 DEF AppTypes
    <2> QED
        BY <1>2, <1>3, <2>2, <2>4, <2>5
<1>15. ASSUME NEW n \in Nodes, NEW i \in Ids, NodeReadsClosed(n, i) PROVE TypeOK' /\ NetInv'
    <2>1. ConnTypes'
        <3>1. CASE i = 0
            BY <1>1, <1>15, <3>1, EndsTypes DEF NodeReadsClosed
        <3>2. CASE i # 0
            <4>1. connections' = [connections EXCEPT ![n][i] = None]
                  /\ UNCHANGED <<pending, unread, inbox, stopped>>
                BY <1>15, <3>2 DEF NodeReadsClosed
            <4> QED
                BY <1>1, <4>1 DEF ConnTypes, Directories
        <3> QED
            BY <3>1, <3>2
    <2>2. Rest /\ AppTypes' /\ net' = net /\ id' = id
        BY <1>1, <1>15 DEF NodeReadsClosed, AppTypes
    <2> QED
        BY <1>2, <1>3, <2>1, <2>2
<1>16. ASSUME NEW p \in Procs, AppStep(p) PROVE TypeOK' /\ NetInv'
    <2>1. AppTypes'
        BY <1>1, <1>16 DEF AppStep, CheckFull, CheckId, Sleep, AppTypes
    <2>2. UNCHANGED <<connections, pending, unread, registers, inbox, directory, id,
                      at_full_connection, net, stopped, failures>>
        BY <1>16 DEF AppStep, CheckFull, CheckId, Sleep
    <2> QED
        BY <1>1, <1>2, <1>3, <1>4, <2>1, <2>2
<1>17. ASSUME NEW p \in Procs, Fail(p) PROVE TypeOK' /\ NetInv'
    <2>1. ConnTypes'
        BY <1>1, <1>17, EndsTypes DEF Fail
    <2>2. failures' \in 0 .. MaxFailures
        BY <1>1, <1>17, FailuresAssumption DEF Fail
    <2>3. Rest /\ AppTypes' /\ net' = net /\ id' = id
        BY <1>1, <1>17, <2>2 DEF Fail, AppTypes
    <2> QED
        BY <1>2, <1>3, <2>1, <2>3
<1>18. CASE UNCHANGED vars
    BY <1>1, <1>2, <1>3, <1>4, <1>18 DEF vars, AppTypes
<1>19. Apps \subseteq Procs
    BY AppsAssumption
<1> QED
    BY <1>5, <1>6, <1>7, <1>8, <1>9, <1>10, <1>11, <1>12, <1>13, <1>14, <1>15, <1>16, <1>17,
       <1>18, <1>19 DEF Next, RegistrarStep, NodeStep, ReadClosed

-----------------------------------------------------------------------------
\* The connections: what a step keeps.

\* A thread does something else next, or an id becomes known.
LEMMA ThreadStep ==
    ASSUME NEW s \in [Nodes -> Slots], SlotsOK(s), AllOnce,
           UNCHANGED <<connections, pending, unread, inbox, directory, stopped>>,
           \A n \in Nodes : Running(n) =>
               /\ net'[n].pc = "off" <=> net[n].pc = "off"
               /\ Told(n)' => Told(n)
               /\ id'[n] \in {NoId, s[n]}
               /\ net'[n].pc \in {"setFull", "identify"} => net'[n].i = s[n]
               /\ net'[n].pc = "mesh" => id'[n] = s[n] /\ net'[n].i > s[n]
    PROVE  SlotsOK(s)' /\ AllOnce'
<1>1. AllOnce'
    BY DEF AllOnce, AtMostOne, At, Queued
<1>2. RegistrarOK(s)'
    BY DEF SlotsOK, RegistrarOK, DirectoryOK, Placed, Running
<1>3. ASSUME NEW n \in Nodes, Running(n)'
      PROVE  NodeOK(s, n)'
    <2>1. Running(n) /\ NodeOK(s, n)
        BY <1>3 DEF SlotsOK, Running
    <2>2. /\ net'[n].pc # "off" => connections'[n][0] = Registrar
          /\ net'[n].pc = "off" => /\ At(Registrar, n)' = {}
                                   /\ Queued(Registrar, n)' = {}
                                   /\ n \notin unread'[Registrar]
          /\ \A i \in Ids : connections'[Registrar][i] = n => i = s[n]
        BY <2>1 DEF NodeOK, At, Queued
    <2>3. Told(n)' => Placed(s, n)'
        BY <2>1 DEF NodeOK, Placed, Running
    <2>4. DirectoryOK(s, directory[n])'
        BY <2>1 DEF NodeOK, DirectoryOK, Placed, Running
    <2>5. \A k \in DOMAIN inbox'[n] : /\ inbox'[n][k].target = s[n]
                                      /\ inbox'[n][k].dir[0] = Registrar
                                      /\ DirectoryOK(s, inbox[n][k].dir)'
        BY <2>1 DEF NodeOK, DirectoryOK, Placed, Running
    <2> QED
        BY <2>1, <2>2, <2>3, <2>4, <2>5 DEF NodeOK
<1>4. ASSUME NEW p \in Nodes, NEW q \in Nodes, Running(p)', Running(q)'
      PROVE  StaysListed(s, p, q)' /\ LinkOK(s, p, q)'
    <2>1. StaysListed(s, p, q) /\ LinkOK(s, p, q)
        BY <1>4 DEF SlotsOK, Running
    <2>2. StaysListed(s, p, q)'
        BY <2>1 DEF StaysListed, Running
    <2>3. LinkOK(s, p, q)'
        BY <2>1 DEF LinkOK, Placed, Connects, At, Queued, Running
    <2> QED
        BY <2>2, <2>3
<1> QED
    BY <1>1, <1>2, <1>3, <1>4 DEF SlotsOK

\* A process ends.
LEMMA EndsStep ==
    ASSUME ConnTypes, NEW s \in [Nodes -> Slots], SlotsOK(s), AllOnce,
           NEW p \in Procs, NEW why \in {"assert", "shutdown", "failure"}, Ends(p, why),
           UNCHANGED <<directory, id>>, \A n \in Nodes \ {p} : net'[n] = net[n]
    PROVE  SlotsOK(s)' /\ AllOnce'
<1> USE ProcFacts, IdFacts
<1>1. /\ \A q \in Procs : q # p => /\ connections'[q] = connections[q]
                                   /\ pending'[q] = pending[q]
                                   /\ unread'[q] = unread[q]
                                   /\ stopped'[q] = stopped[q]
      /\ connections'[p] = NoConnections /\ pending'[p] = <<>> /\ unread'[p] = {}
      /\ stopped'[p] # "no"
      /\ \A n \in Nodes \ {p} : inbox'[n] = inbox[n]
    BY DEF Ends, ConnTypes
<1>2. \A i \in Ids : NoConnections[i] = None
    BY DEF NoConnections
<1>3. AllOnce'
    <2> SUFFICES ASSUME NEW q \in Procs, NEW n \in Nodes
                 PROVE  AtMostOne(q, n)'
        BY DEF AllOnce
    <2>1. CASE q = p
        BY <1>1, <1>2, <2>1 DEF AtMostOne, At, Queued
    <2>2. CASE q # p
        BY <1>1, <2>2 DEF AllOnce, AtMostOne, At, Queued
    <2> QED
        BY <2>1, <2>2
<1>4. \A n \in Nodes : Running(n)' => Running(n) /\ n # p /\ (Placed(s, n) => Placed(s, n)')
    BY <1>1 DEF Placed, Running
<1>5. /\ connections'[Registrar][0] = None
      /\ \A n \in Nodes : \A i \in Ids : connections'[Registrar][i] = n
                              => connections[Registrar][i] = n
    BY <1>1, <1>2 DEF SlotsOK, RegistrarOK
<1>6. RegistrarOK(s)'
    BY <1>4, <1>5 DEF SlotsOK, RegistrarOK, DirectoryOK
<1>7. ASSUME NEW n \in Nodes, Running(n)'
      PROVE  NodeOK(s, n)'
    <2>1. Running(n) /\ NodeOK(s, n) /\ n # p
        BY <1>4, <1>7 DEF SlotsOK
    <2>2. /\ net'[n].pc # "off" => connections'[n][0] = Registrar
          /\ \A i \in Ids : connections'[Registrar][i] = n => i = s[n]
        BY <1>1, <1>5, <2>1 DEF NodeOK
    <2>3. net'[n].pc = "off" => /\ At(Registrar, n)' = {}
                                /\ Queued(Registrar, n)' = {}
                                /\ n \notin unread'[Registrar]
        <3>1. CASE p = Registrar
            BY <1>1, <1>2, <3>1 DEF At, Queued
        <3>2. CASE p # Registrar
            BY <1>1, <2>1, <3>2 DEF NodeOK, At, Queued
        <3> QED
            BY <3>1, <3>2
    <2>4. Told(n)' => Placed(s, n)'
        BY <1>1, <1>4, <1>7, <2>1 DEF NodeOK, Told
    <2>5. /\ id'[n] \in {NoId, s[n]}
          /\ net'[n].pc \in {"setFull", "identify"} => net'[n].i = s[n]
          /\ net'[n].pc = "mesh" => id'[n] = s[n] /\ net'[n].i > s[n]
        BY <2>1 DEF NodeOK
    <2>6. DirectoryOK(s, directory[n])'
        BY <1>4, <2>1 DEF NodeOK, DirectoryOK
    <2>7. \A k \in DOMAIN inbox'[n] : /\ inbox'[n][k].target = s[n]
                                      /\ inbox'[n][k].dir[0] = Registrar
                                      /\ DirectoryOK(s, inbox[n][k].dir)'
        BY <1>1, <1>4, <2>1 DEF NodeOK, DirectoryOK
    <2> QED
        BY <2>2, <2>3, <2>4, <2>5, <2>6, <2>7 DEF NodeOK
<1>8. ASSUME NEW x \in Nodes, NEW y \in Nodes, Running(x)', Running(y)'
      PROVE  StaysListed(s, x, y)' /\ LinkOK(s, x, y)'
    <2>1. x # p /\ y # p /\ StaysListed(s, x, y) /\ LinkOK(s, x, y)
        BY <1>4, <1>8 DEF SlotsOK
    <2>2. Running(Registrar)' => Running(Registrar)
        BY <1>1 DEF Running
    <2>3. StaysListed(s, x, y)'
        BY <1>1, <2>1, <2>2 DEF StaysListed
    <2>4. LinkOK(s, x, y)'
        BY <1>1, <1>4, <1>8, <2>1 DEF LinkOK, Connects, At, Queued
    <2> QED
        BY <2>3, <2>4
<1> QED
    BY <1>3, <1>6, <1>7, <1>8 DEF SlotsOK

-----------------------------------------------------------------------------
\* One more at the end of the queue, or one less at its head.

LEMMA QueueAppend ==
    ASSUME NEW S, NEW Q \in Seq(S), NEW n \in S
    PROVE  /\ DOMAIN Append(Q, n) = DOMAIN Q \cup {Len(Q) + 1}
           /\ Len(Q) + 1 \notin DOMAIN Q
           /\ Append(Q, n)[Len(Q) + 1] = n
           /\ \A k \in DOMAIN Q : Append(Q, n)[k] = Q[k]
<1>1. /\ DOMAIN Q = 1 .. Len(Q) /\ Len(Q) \in Nat
      /\ Append(Q, n) \in Seq(S) /\ Len(Append(Q, n)) = Len(Q) + 1
      /\ \A k \in 1 .. Len(Q) : Append(Q, n)[k] = Q[k]
      /\ Append(Q, n)[Len(Q) + 1] = n
    BY AppendProperties, LenProperties
<1>2. DOMAIN Append(Q, n) = 1 .. Len(Q) + 1
    BY <1>1, LenProperties
<1> QED
    BY <1>1, <1>2

LEMMA QueueTail ==
    ASSUME NEW S, NEW Q \in Seq(S), Q # <<>>
    PROVE  /\ 1 \in DOMAIN Q /\ Head(Q) = Q[1]
           /\ \A k \in DOMAIN Tail(Q) : /\ k \in Nat \ {0} /\ k + 1 \in DOMAIN Q
                                        /\ Tail(Q)[k] = Q[k + 1]
<1>1. /\ Len(Q) \in Nat /\ DOMAIN Q = 1 .. Len(Q) /\ Len(Q) # 0
    BY LenProperties, EmptySeq
<1>2. /\ Tail(Q) \in Seq(S) /\ Len(Tail(Q)) = Len(Q) - 1
      /\ \A k \in 1 .. Len(Tail(Q)) : Tail(Q)[k] = Q[k + 1]
    BY HeadTailProperties
<1>3. DOMAIN Tail(Q) = 1 .. Len(Q) - 1
    BY <1>2, LenProperties
<1> QED
    BY <1>1, <1>2, <1>3

LEMMA SlotFacts ==
    ASSUME NEW s \in [Nodes -> Slots], NEW m \in Nodes
    PROVE  /\ s[m] \in Slots /\ s[m] \in Ids /\ s[m] \in Nat /\ s[m] # 0
           /\ \A i \in Ids : i > s[m] => i \in Slots /\ i + 1 > s[m]
<1>1. s[m] \in Slots
    OBVIOUS
<1>2. s[m] \in Ids /\ s[m] \in Nat /\ s[m] # 0
    BY <1>1, IdFacts DEF Slots
<1>3. \A i \in Ids : i > s[m] => i \in Slots /\ i + 1 > s[m]
    BY <1>2, IdFacts DEF Slots
<1> QED
    BY <1>1, <1>2, <1>3

\* A node is started while the registrar runs.
LEMMA StartStep ==
    ASSUME ConnTypes, NetTypes, NEW s \in [Nodes -> Slots], SlotsOK(s), AllOnce,
           NEW n \in Nodes, Start(n)
    PROVE  SlotsOK(s)' /\ AllOnce'
<1> USE ProcFacts, IdFacts
<1>1. Running(n) /\ NodeOK(s, n) /\ net[n].pc = "off"
    BY DEF Start, SlotsOK
<1>2. /\ At(Registrar, n) = {} /\ Queued(Registrar, n) = {} /\ n \notin unread[Registrar]
    BY <1>1 DEF NodeOK
<1>3. CASE ~ Running(Registrar)
    <2>1. Ends(n, "assert") /\ UNCHANGED <<directory, id>>
          /\ \A m \in Nodes \ {n} : net'[m] = net[m]
        BY <1>3 DEF Start, ConnectTo, NetTypes
    <2> QED
        BY <2>1, EndsStep
<1>4. CASE Running(Registrar)
    <2>1. /\ connections' = [connections EXCEPT ![n][0] = Registrar]
          /\ pending' = [pending EXCEPT ![Registrar] = Append(@, n)]
          /\ net' = [net EXCEPT ![n] = Doing("register", 0)]
          /\ UNCHANGED <<unread, inbox, stopped, directory, id>>
        BY <1>4 DEF Start, ConnectTo
    <2>2. /\ \A p \in Procs : \A i \in Ids :
                connections'[p][i] = IF p = n /\ i = 0 THEN Registrar ELSE connections[p][i]
          /\ \A p \in Procs : p # Registrar => pending'[p] = pending[p]
          /\ pending'[Registrar] = Append(pending[Registrar], n)
          /\ net'[n] = [pc |-> "register", i |-> 0]
          /\ \A m \in Nodes : m # n => net'[m] = net[m]
        BY <2>1 DEF ConnTypes, Directories, NetTypes, Doing
    <2>3. pending[Registrar] \in Seq(Nodes)
        BY DEF ConnTypes
    <2>4. LET Q == pending[Registrar]
           IN  /\ DOMAIN Append(Q, n) = DOMAIN Q \cup {Len(Q) + 1}
               /\ Len(Q) + 1 \notin DOMAIN Q
               /\ Append(Q, n)[Len(Q) + 1] = n
               /\ \A k \in DOMAIN Q : Append(Q, n)[k] = Q[k]
        BY <2>3, QueueAppend
    <2>5. \A p \in Procs : \A m \in Nodes : \A i \in Ids :
              connections'[p][i] = m => connections[p][i] = m
        <3>1. Registrar \notin Nodes
            BY ProcsAssumption
        <3> SUFFICES ASSUME NEW p \in Procs, NEW m \in Nodes, NEW i \in Ids,
                            connections'[p][i] = m
                     PROVE  connections[p][i] = m
            OBVIOUS
        <3>2. m # Registrar
            BY <3>1
        <3>3. connections'[p][i] =
                  IF p = n /\ i = 0 THEN Registrar ELSE connections[p][i]
            BY <2>2, Zenon
        <3> QED
            BY <3>2, <3>3
    <2>6. AllOnce'
        <3> SUFFICES ASSUME NEW p \in Procs, NEW m \in Nodes
                     PROVE  AtMostOne(p, m)'
            BY DEF AllOnce
        <3>1. AtMostOne(p, m) /\ unread' = unread
            BY <2>1 DEF AllOnce
        <3>2. CASE p # Registrar
            BY <2>2, <2>5, <3>1, <3>2 DEF AtMostOne, At, Queued
        <3>3. CASE p = Registrar /\ m # n
            <4>1. Queued(Registrar, m)' = Queued(Registrar, m)
                BY <2>2, <2>4, <3>3 DEF Queued
            <4>2. At(Registrar, m)' = At(Registrar, m)
                BY <2>2, <3>3 DEF At
            <4> QED
                BY <3>1, <3>3, <4>1, <4>2 DEF AtMostOne
        <3>4. CASE p = Registrar /\ m = n
            <4>1. Queued(Registrar, n)' = {Len(pending[Registrar]) + 1}
                BY <1>2, <2>2, <2>4 DEF Queued
            <4>2. At(Registrar, n)' = {}
                BY <1>2, <2>5 DEF At
            <4> QED
                BY <1>2, <2>1, <3>4, <4>1, <4>2 DEF AtMostOne
        <3> QED
            BY <3>2, <3>3, <3>4
    <2>7. /\ \A i \in Ids : connections'[Registrar][i] = connections[Registrar][i]
          /\ \A m \in Nodes : Placed(s, m)' <=> Placed(s, m)
          /\ \A m \in Nodes : Running(m)' <=> Running(m)
        BY <2>1, <2>2 DEF Placed, Running
    <2>8. RegistrarOK(s)'
        BY <2>1, <2>7 DEF SlotsOK, RegistrarOK, DirectoryOK
    <2>9. ASSUME NEW m \in Nodes, Running(m)'
          PROVE  NodeOK(s, m)'
        <3>1. Running(m) /\ NodeOK(s, m)
            BY <2>7, <2>9 DEF SlotsOK
        <3>2. /\ net'[m].pc # "off" => connections'[m][0] = Registrar
              /\ \A i \in Ids : connections'[Registrar][i] = m => i = s[m]
            BY <2>2, <2>7, <3>1 DEF NodeOK
        <3>3. net'[m].pc = "off" => /\ At(Registrar, m)' = {}
                                    /\ Queued(Registrar, m)' = {}
                                    /\ m \notin unread'[Registrar]
            <4>1. SUFFICES ASSUME net'[m].pc = "off"
                           PROVE  /\ At(Registrar, m)' = {}
                                  /\ Queued(Registrar, m)' = {}
                                  /\ m \notin unread'[Registrar]
                OBVIOUS
            <4>2. m # n /\ net[m].pc = "off"
                BY <2>2, <4>1
            <4>3. At(Registrar, m)' = {} /\ m \notin unread'[Registrar]
                BY <2>1, <2>7, <3>1, <4>2 DEF NodeOK, At
            <4>4. Queued(Registrar, m)' = {}
                BY <2>2, <2>4, <3>1, <4>2 DEF NodeOK, Queued
            <4> QED
                BY <4>3, <4>4
        <3>4. Told(m)' => Placed(s, m)'
            BY <2>1, <2>2, <2>7, <3>1 DEF NodeOK, Told
        <3>5. /\ id'[m] \in {NoId, s[m]}
              /\ net'[m].pc \in {"setFull", "identify"} => net'[m].i = s[m]
              /\ net'[m].pc = "mesh" => id'[m] = s[m] /\ net'[m].i > s[m]
            BY <2>1, <2>2, <3>1 DEF NodeOK
        <3>6. DirectoryOK(s, directory[m])'
            BY <2>1, <2>7, <3>1 DEF NodeOK, DirectoryOK
        <3>7. \A k \in DOMAIN inbox'[m] : /\ inbox'[m][k].target = s[m]
                                          /\ inbox'[m][k].dir[0] = Registrar
                                          /\ DirectoryOK(s, inbox[m][k].dir)'
            BY <2>1, <2>7, <3>1 DEF NodeOK, DirectoryOK
        <3> QED
            BY <3>2, <3>3, <3>4, <3>5, <3>6, <3>7 DEF NodeOK
    <2>10. ASSUME NEW p \in Nodes, NEW q \in Nodes, Running(p)', Running(q)'
          PROVE  StaysListed(s, p, q)' /\ LinkOK(s, p, q)'
        <3>1. StaysListed(s, p, q) /\ LinkOK(s, p, q)
            BY <2>7, <2>10 DEF SlotsOK
        <3>2. StaysListed(s, p, q)'
            BY <2>1, <3>1 DEF StaysListed, Running
        <3>3. \A x, y \in Nodes : Connects(s, x, y) => Connects(s, x, y)'
            BY <2>1, <2>2 DEF Connects, Slots
        <3>4. At(p, q)' \subseteq At(p, q) /\ Queued(p, q)' = Queued(p, q) /\ unread' = unread
            BY <2>1, <2>2, <2>5 DEF At, Queued
        <3>5. LinkOK(s, p, q)'
            BY <2>7, <3>1, <3>3, <3>4 DEF LinkOK
        <3> QED
            BY <3>2, <3>5
    <2> QED
        BY <2>6, <2>8, <2>9, <2>10 DEF SlotsOK
<1> QED
    BY <1>3, <1>4

\* A node connects to the next one of its directory.
LEMMA ConnectStep ==
    ASSUME TypeOK, NetInv, NEW s \in [Nodes -> Slots], SlotsOK(s), AllOnce,
           NEW n \in Nodes, ConnectNext(n)
    PROVE  SlotsOK(s)' /\ AllOnce'
<1> USE ProcFacts, IdFacts
<1>1. ConnTypes /\ NetTypes /\ directory \in [Procs -> Directories]
    BY TypeParts DEF NetTypes
<1>2. PICK i \in Ids : i = net[n].i
    BY DEF ConnectNext
<1>3. PICK q \in Procs : q = directory[n][i]
    <2>1. directory[n][i] # None
        BY <1>2 DEF ConnectNext
    <2>2. directory[n] \in Directories
        BY <1>1
    <2> QED
        BY <2>1, <2>2 DEF Directories
<1>4. /\ Running(n) /\ net[n].pc = "mesh"
      /\ net' = [net EXCEPT ![n] = Doing("mesh", i + 1)]
      /\ \/ UNCHANGED <<connections, pending, unread, inbox, stopped>>
         \/ connections[n][i] = None /\ ConnectTo(n, i, q)
      /\ UNCHANGED <<directory, id>>
    BY <1>2, <1>3 DEF ConnectNext, AlreadyConnected
<1>5. NodeOK(s, n)
    BY <1>4 DEF SlotsOK
<1>6. /\ id[n] = s[n] /\ i > s[n] /\ Placed(s, n) /\ DirectoryOK(s, directory[n])
      /\ connections[n][0] = Registrar
    BY <1>2, <1>4, <1>5 DEF NodeOK, Told
<1>7. s[n] \in Slots /\ i \in Slots /\ \A m \in Nodes : s[m] \in Slots /\ s[m] \in Nat
    BY <1>6, SlotFacts
<1>8. q \in Nodes
    BY <1>3, <1>6, <1>7 DEF DirectoryOK
<1>9. /\ net'[n] = [pc |-> "mesh", i |-> i + 1]
      /\ \A m \in Nodes : m # n => net'[m] = net[m]
    BY <1>1, <1>4 DEF NetTypes, Doing
<1>10. CASE UNCHANGED <<connections, pending, unread, inbox, stopped>>
    <2>1. \A m \in Nodes : Running(m) =>
              /\ net'[m].pc = "off" <=> net[m].pc = "off"
              /\ Told(m)' => Told(m)
              /\ id'[m] \in {NoId, s[m]}
              /\ net'[m].pc \in {"setFull", "identify"} => net'[m].i = s[m]
              /\ net'[m].pc = "mesh" => id'[m] = s[m] /\ net'[m].i > s[m]
        <3> SUFFICES ASSUME NEW m \in Nodes, Running(m)
                     PROVE  /\ net'[m].pc = "off" <=> net[m].pc = "off"
                            /\ Told(m)' => Told(m)
                            /\ id'[m] \in {NoId, s[m]}
                            /\ net'[m].pc \in {"setFull", "identify"} => net'[m].i = s[m]
                            /\ net'[m].pc = "mesh" => id'[m] = s[m] /\ net'[m].i > s[m]
            OBVIOUS
        <3>1. CASE m = n
            <4>1. net'[n].pc = "mesh" /\ net'[n].i = i + 1 /\ id'[n] = s[n]
                BY <1>4, <1>6, <1>9
            <4>2. i + 1 > s[n]
                BY <1>6, SlotFacts
            <4>3. Told(n)
                BY <1>4 DEF Told
            <4> QED
                BY <1>4, <3>1, <4>1, <4>2, <4>3
        <3>2. CASE m # n
            BY <1>4, <1>9, <1>10, <3>2 DEF Told, SlotsOK, NodeOK
        <3> QED
            BY <3>1, <3>2
    <2> QED
        BY <1>4, <1>10, <2>1, ThreadStep
<1>11. CASE ~ Running(q) /\ ConnectTo(n, i, q)
    <2>1. Ends(n, "assert") /\ UNCHANGED <<directory, id>>
          /\ \A m \in Nodes \ {n} : net'[m] = net[m]
        BY <1>4, <1>9, <1>11 DEF ConnectTo
    <2> QED
        BY <1>1, <2>1, EndsStep
<1>12. CASE connections[n][i] = None /\ Running(q) /\ ConnectTo(n, i, q)
    <2>1. /\ connections' = [connections EXCEPT ![n][i] = q]
          /\ pending' = [pending EXCEPT ![q] = Append(@, n)]
          /\ UNCHANGED <<unread, inbox, stopped>>
        BY <1>12 DEF ConnectTo
    <2>2. i = s[q] /\ Placed(s, q) /\ s[n] < s[q] /\ n # q
        BY <1>3, <1>6, <1>8, <1>12 DEF DirectoryOK
    <2>3. ~ Connects(s, n, q) /\ ~ Connects(s, q, n)
        <3>1. connections[n][s[q]] # q
            BY <1>12, <2>2
        <3>2. ~ s[q] < s[n]
            BY <1>7, <1>8, <2>2
        <3> QED
            BY <3>1, <3>2 DEF Connects
    <2>4. LinkOK(s, n, q) /\ LinkOK(s, q, n)
        BY <1>4, <1>8, <1>12 DEF SlotsOK
    <2>5. /\ At(n, q) = {} /\ Queued(n, q) = {} /\ q \notin unread[n]
          /\ At(q, n) = {} /\ Queued(q, n) = {} /\ n \notin unread[q]
        BY <2>3, <2>4 DEF LinkOK
    <2>6. /\ connections'[n][i] = q
          /\ \A p \in Procs : \A j \in Ids :
                p # n \/ j # i => connections'[p][j] = connections[p][j]
          /\ \A p \in Procs : p # q => pending'[p] = pending[p]
          /\ pending'[q] = Append(pending[q], n)
        BY <1>1, <1>8, <2>1 DEF ConnTypes, Directories
    <2>7. pending[q] \in Seq(Nodes)
        BY <1>1 DEF ConnTypes
    <2>8. LET Q == pending[q]
          IN  /\ DOMAIN Append(Q, n) = DOMAIN Q \cup {Len(Q) + 1}
              /\ Len(Q) + 1 \notin DOMAIN Q
              /\ Append(Q, n)[Len(Q) + 1] = n
              /\ \A k \in DOMAIN Q : Append(Q, n)[k] = Q[k]
        BY <2>7, QueueAppend
    <2>9. \A p \in Procs : \A m \in Nodes : At(p, m)' \subseteq At(p, m) \/ (p = n /\ m = q)
        BY <1>12, <2>6 DEF At
    <2>10. \A p \in Procs : \A m \in Nodes : Queued(p, m)' = Queued(p, m) \/ (p = q /\ m = n)
        <3> SUFFICES ASSUME NEW p \in Procs, NEW m \in Nodes, ~ (p = q /\ m = n)
                     PROVE  Queued(p, m)' = Queued(p, m)
            OBVIOUS
        <3>1. CASE p # q
            BY <2>6, <3>1 DEF Queued
        <3>2. CASE p = q
            <4>1. m # n
                BY <3>2
            <4>2. Queued(q, m)' = Queued(q, m)
                BY <2>6, <2>8, <4>1 DEF Queued
            <4> QED
                BY <3>2, <4>2
        <3> QED
            BY <3>1, <3>2
    <2>11. At(n, q)' = {i} /\ Queued(n, q)' = {}
        BY <2>2, <2>5, <2>6 DEF At, Queued
    <2>12. At(q, n)' = {} /\ Queued(q, n)' = {Len(pending[q]) + 1}
        <3>1. At(q, n)' = {}
            BY <1>8, <2>2, <2>5, <2>9
        <3>2. Queued(q, n)' = {Len(pending[q]) + 1}
            BY <2>5, <2>6, <2>8 DEF Queued
        <3> QED
            BY <3>1, <3>2
    <2>13. AllOnce'
        <3> SUFFICES ASSUME NEW p \in Procs, NEW m \in Nodes
                     PROVE  AtMostOne(p, m)'
            BY DEF AllOnce
        <3>1. AtMostOne(p, m) /\ unread' = unread
            BY <2>1 DEF AllOnce
        <3>2. CASE p = n /\ m = q
            BY <2>5, <2>11, <3>1, <3>2 DEF AtMostOne
        <3>3. CASE p = q /\ m = n
            BY <2>5, <2>12, <3>1, <3>3 DEF AtMostOne
        <3>4. CASE ~ (p = n /\ m = q) /\ ~ (p = q /\ m = n)
            BY <2>9, <2>10, <3>1, <3>4 DEF AtMostOne
        <3> QED
            BY <3>2, <3>3, <3>4
    <2>14. /\ \A j \in Ids : connections'[Registrar][j] = connections[Registrar][j]
           /\ pending'[Registrar] = pending[Registrar]
           /\ \A m \in Nodes : Placed(s, m)' <=> Placed(s, m)
           /\ \A m \in Nodes : Running(m)' <=> Running(m)
        BY <1>8, <2>1, <2>6 DEF Placed, Running
    <2>15. RegistrarOK(s)'
        BY <1>4, <2>14 DEF SlotsOK, RegistrarOK, DirectoryOK
    <2>16. ASSUME NEW m \in Nodes, Running(m)'
           PROVE  NodeOK(s, m)'
        <3>1. Running(m) /\ NodeOK(s, m)
            BY <2>14, <2>16 DEF SlotsOK
        <3>2. 0 # i
            BY <1>7 DEF Slots
        <3>3. net'[m].pc = "off" <=> net[m].pc = "off"
            BY <1>4, <1>9
        <3>4. /\ net'[m].pc # "off" => connections'[m][0] = Registrar
              /\ \A j \in Ids : connections'[Registrar][j] = m => j = s[m]
            BY <2>6, <2>14, <3>1, <3>2, <3>3 DEF NodeOK
        <3>5. net'[m].pc = "off" => /\ At(Registrar, m)' = {}
                                    /\ Queued(Registrar, m)' = {}
                                    /\ m \notin unread'[Registrar]
            <4>1. At(Registrar, m)' = At(Registrar, m)
                BY <2>14, Zenon DEF At
            <4>2. Queued(Registrar, m)' = Queued(Registrar, m)
                BY <2>14, Zenon DEF Queued
            <4>3. unread' = unread
                BY <2>1, Zenon
            <4> QED
                BY <3>1, <3>3, <4>1, <4>2, <4>3, Zenon DEF NodeOK
        <3>6. Told(m)' => Placed(s, m)'
            BY <1>4, <1>9, <2>1, <2>14, <3>1 DEF NodeOK, Told
        <3>7. /\ id'[m] \in {NoId, s[m]}
              /\ net'[m].pc \in {"setFull", "identify"} => net'[m].i = s[m]
              /\ net'[m].pc = "mesh" => id'[m] = s[m] /\ net'[m].i > s[m]
            <4>1. CASE m = n
                <5>1. net'[n].pc = "mesh" /\ net'[n].i = i + 1 /\ id'[n] = s[n]
                    BY <1>4, <1>6, <1>9
                <5>2. i + 1 > s[n]
                    BY <1>6, SlotFacts
                <5> QED
                    BY <4>1, <5>1, <5>2
            <4>2. CASE m # n
                BY <1>4, <1>9, <3>1, <4>2 DEF NodeOK
            <4> QED
                BY <4>1, <4>2
        <3>8. DirectoryOK(s, directory[m])'
            <4>1. directory' = directory
                BY <1>4, Zenon
            <4>2. DirectoryOK(s, directory[m])
                BY <3>1, Zenon DEF NodeOK
            <4> QED
                BY <2>14, <4>1, <4>2, Zenon DEF DirectoryOK
        <3>9. \A k \in DOMAIN inbox'[m] : /\ inbox'[m][k].target = s[m]
                                          /\ inbox'[m][k].dir[0] = Registrar
                                          /\ DirectoryOK(s, inbox[m][k].dir)'
            BY <2>1, <2>14, <3>1 DEF NodeOK, DirectoryOK
        <3> QED
            BY <3>4, <3>5, <3>6, <3>7, <3>8, <3>9 DEF NodeOK
    <2>17. \A x, y \in Nodes : Connects(s, x, y) => Connects(s, x, y)'
        BY <1>4, <1>12, <2>6 DEF Connects, Slots
    <2>18. Connects(s, n, q)'
        BY <1>3, <1>4, <2>2, <2>6 DEF Connects
    <2>19. ASSUME NEW x \in Nodes, NEW y \in Nodes, Running(x)', Running(y)'
           PROVE  StaysListed(s, x, y)' /\ LinkOK(s, x, y)'
        <3>1. StaysListed(s, x, y) /\ LinkOK(s, x, y)
            BY <2>14, <2>19 DEF SlotsOK
        <3>2. StaysListed(s, x, y)'
            BY <1>4, <2>1, <3>1 DEF StaysListed, Running
        <3>3. LinkOK(s, x, y)'
            <4>1. CASE x = n /\ y = q
                BY <1>6, <2>1, <2>2, <2>5, <2>11, <2>14, <2>18, <4>1 DEF LinkOK
            <4>2. CASE x = q /\ y = n
                BY <1>6, <2>2, <2>12, <2>14, <2>18, <4>2 DEF LinkOK
            <4>3. CASE ~ (x = n /\ y = q) /\ ~ (x = q /\ y = n)
                <5>1. At(x, y)' \subseteq At(x, y) /\ Queued(x, y)' = Queued(x, y)
                      /\ unread' = unread
                    BY <2>1, <2>9, <2>10, <4>3
                <5> QED
                    BY <2>14, <2>17, <3>1, <5>1 DEF LinkOK
            <4> QED
                BY <4>1, <4>2, <4>3
        <3> QED
            BY <3>2, <3>3
    <2> QED
        BY <2>13, <2>15, <2>16, <2>19 DEF SlotsOK
<1> QED
    BY <1>4, <1>10, <1>11, <1>12

\* One connection leaves the queue of accept, for a slot or not.
LEMMA AcceptFacts ==
    ASSUME ConnTypes, AllOnce, NEW p \in Procs, AddNewConnection(p)
    PROVE  \E q \in Nodes :
              /\ At(p, q) = {} /\ q \notin unread[p] /\ Queued(p, q) # {}
              /\ \A x \in Procs \ {p} : \A m \in Nodes :
                    At(x, m)' = At(x, m) /\ Queued(x, m)' = Queued(x, m)
              /\ \A x \in Procs \ {p} : connections'[x] = connections[x] /\ unread'[x] = unread[x]
              /\ \A m \in Nodes \ {q} :
                    At(p, m)' = At(p, m) /\ (m \in unread'[p] <=> m \in unread[p])
              /\ \A m \in Nodes : Queued(p, m)' # {} => m # q /\ Queued(p, m) # {}
              /\ \/ /\ FreeSlots(p) # {} /\ unread' = unread
                    /\ At(p, q)' = {FirstFree(p)}
                    /\ connections' = [connections EXCEPT ![p][FirstFree(p)] = q]
                 \/ At(p, q)' = {} /\ q \in unread'[p] /\ connections' = connections
              /\ AllOnce'
<1> USE ProcFacts, IdFacts
<1>1. pending[p] # <<>> /\ pending' = [pending EXCEPT ![p] = Tail(@)]
    BY DEF AddNewConnection
<1>2. pending[p] \in Seq(Nodes)
    BY DEF ConnTypes
<1>3. /\ 1 \in DOMAIN pending[p] /\ Head(pending[p]) = pending[p][1]
      /\ \A k \in DOMAIN Tail(pending[p]) : /\ k \in Nat \ {0} /\ k + 1 \in DOMAIN pending[p]
                                            /\ Tail(pending[p])[k] = pending[p][k + 1]
    BY <1>1, <1>2, QueueTail
<1>4. PICK q \in Nodes : q = Head(pending[p])
    BY <1>1, <1>2, HeadTailProperties
<1>5. 1 \in Queued(p, q)
    BY <1>3, <1>4 DEF Queued
<1>6. At(p, q) = {} /\ q \notin unread[p] /\ AtMostOne(p, q)
    BY <1>5 DEF AllOnce, AtMostOne
<1>7. pending'[p] = Tail(pending[p]) /\ \A x \in Procs \ {p} : pending'[x] = pending[x]
    BY <1>1 DEF ConnTypes
<1>8. \A m \in Nodes : \A k \in Queued(p, m)' : k \in Nat \ {0} /\ k + 1 \in Queued(p, m)
    BY <1>3, <1>7 DEF Queued
<1>9. Queued(p, q)' = {}
    <2> SUFFICES ASSUME NEW k \in Queued(p, q)' PROVE FALSE
        OBVIOUS
    <2>1. k \in Nat \ {0} /\ k + 1 \in Queued(p, q)
        BY <1>8
    <2>2. k + 1 = 1
        BY <1>5, <1>6, <2>1 DEF AtMostOne
    <2> QED
        BY <2>1, <2>2
<1>10. \A m \in Nodes : Queued(p, m)' # {} => m # q /\ Queued(p, m) # {}
    <2> SUFFICES ASSUME NEW m \in Nodes, NEW k \in Queued(p, m)'
                 PROVE  m # q /\ Queued(p, m) # {}
        OBVIOUS
    <2> QED
        BY <1>8, <1>9
<1>11. \A m \in Nodes : \A k, l \in Queued(p, m)' : k = l
    <2> SUFFICES ASSUME NEW m \in Nodes, NEW k \in Queued(p, m)', NEW l \in Queued(p, m)'
                 PROVE  k = l
        OBVIOUS
    <2>1. k \in Nat /\ l \in Nat /\ k + 1 \in Queued(p, m) /\ l + 1 \in Queued(p, m)
        BY <1>8
    <2>2. k + 1 = l + 1
        BY <2>1 DEF AllOnce, AtMostOne
    <2> QED
        BY <2>1, <2>2
<1>12. \/ /\ FreeSlots(p) # {} /\ unread' = unread
          /\ connections' = [connections EXCEPT ![p][FirstFree(p)] = q]
       \/ unread' = [unread EXCEPT ![p] = @ \cup {q}] /\ connections' = connections
    BY <1>4 DEF AddNewConnection
<1>13. \A x \in Procs \ {p} : connections'[x] = connections[x] /\ unread'[x] = unread[x]
    BY <1>12 DEF ConnTypes
<1>14. \A x \in Procs \ {p} : \A m \in Nodes :
           At(x, m)' = At(x, m) /\ Queued(x, m)' = Queued(x, m)
    BY <1>7, <1>13 DEF At, Queued
<1>15. /\ \A m \in Nodes \ {q} :
             At(p, m)' = At(p, m) /\ (m \in unread'[p] <=> m \in unread[p])
       /\ \/ /\ FreeSlots(p) # {} /\ unread' = unread
             /\ At(p, q)' = {FirstFree(p)}
             /\ connections' = [connections EXCEPT ![p][FirstFree(p)] = q]
          \/ At(p, q)' = {} /\ q \in unread'[p] /\ connections' = connections
    <2>1. CASE /\ FreeSlots(p) # {} /\ unread' = unread
               /\ connections' = [connections EXCEPT ![p][FirstFree(p)] = q]
        <3>1. PICK f \in Ids : f = FirstFree(p) /\ connections[p][f] = None
            BY <2>1, FirstFreeFacts
        <3>2. \A i \in Ids : connections'[p][i] = IF i = f THEN q ELSE connections[p][i]
            BY <2>1, <3>1 DEF ConnTypes, Directories
        <3>3. \A m \in Nodes \ {q} : At(p, m)' = At(p, m)
            BY <3>1, <3>2 DEF At
        <3>4. At(p, q)' = {f}
            BY <1>6, <3>1, <3>2 DEF At
        <3> QED
            BY <2>1, <3>1, <3>3, <3>4
    <2>2. CASE unread' = [unread EXCEPT ![p] = @ \cup {q}] /\ connections' = connections
        <3>1. unread'[p] = unread[p] \cup {q}
            BY <2>2 DEF ConnTypes
        <3>2. \A m \in Nodes : At(p, m)' = At(p, m)
            BY <2>2 DEF At
        <3> QED
            BY <1>6, <2>2, <3>1, <3>2
    <2> QED
        BY <1>12, <2>1, <2>2
<1>16. AllOnce'
    <2> SUFFICES ASSUME NEW x \in Procs, NEW m \in Nodes
                 PROVE  AtMostOne(x, m)'
        BY DEF AllOnce
    <2>1. AtMostOne(x, m)
        BY DEF AllOnce
    <2>2. CASE x # p
        BY <1>13, <1>14, <2>1, <2>2 DEF AtMostOne
    <2>3. CASE x = p /\ m = q
        <3>1. (At(p, q)' = {FirstFree(p)} /\ unread' = unread) \/ At(p, q)' = {}
            BY <1>15
        <3>2. AtMostOne(p, q)'
            BY <1>6, <1>9, <3>1 DEF AtMostOne
        <3> QED
            BY <2>3, <3>2
    <2>4. CASE x = p /\ m # q
        <3>1. At(p, m)' = At(p, m) /\ (m \in unread'[p] <=> m \in unread[p])
            BY <1>15, <2>4
        <3>2. AtMostOne(p, m)'
            BY <1>10, <1>11, <2>1, <2>4, <3>1 DEF AtMostOne
        <3> QED
            BY <2>4, <3>2
    <2> QED
        BY <2>2, <2>3, <2>4
<1>17. Queued(p, q) # {}
    BY <1>5
<1> QED
    BY <1>6, <1>10, <1>13, <1>14, <1>15, <1>16, <1>17

\* A node accepts a connection.
LEMMA AcceptNodeStep ==
    ASSUME TypeOK, NEW s \in [Nodes -> Slots], SlotsOK(s), AllOnce,
           NEW p \in Nodes, AddNewConnection(p)
    PROVE  SlotsOK(s)' /\ AllOnce'
<1> USE ProcFacts, IdFacts
<1>1. ConnTypes
    BY TypeParts
<1>2. /\ Running(p) /\ net[p].pc # "off"
      /\ UNCHANGED <<inbox, directory, id, net, stopped>>
    BY DEF AddNewConnection, Polling
<1>3. PICK q \in Nodes :
              /\ At(p, q) = {} /\ q \notin unread[p] /\ Queued(p, q) # {}
              /\ \A x \in Procs \ {p} : \A m \in Nodes :
                    At(x, m)' = At(x, m) /\ Queued(x, m)' = Queued(x, m)
              /\ \A x \in Procs \ {p} : connections'[x] = connections[x] /\ unread'[x] = unread[x]
              /\ \A m \in Nodes \ {q} :
                    At(p, m)' = At(p, m) /\ (m \in unread'[p] <=> m \in unread[p])
              /\ \A m \in Nodes : Queued(p, m)' # {} => m # q /\ Queued(p, m) # {}
              /\ \/ /\ FreeSlots(p) # {} /\ unread' = unread
                    /\ At(p, q)' = {FirstFree(p)}
                    /\ connections' = [connections EXCEPT ![p][FirstFree(p)] = q]
                 \/ At(p, q)' = {} /\ q \in unread'[p] /\ connections' = connections
              /\ AllOnce'
    BY <1>1, AcceptFacts
<1>4. \A i \in Ids : connections[p][i] # None => connections'[p][i] = connections[p][i]
    <2>1. CASE /\ FreeSlots(p) # {}
               /\ connections' = [connections EXCEPT ![p][FirstFree(p)] = q]
        <3>1. FirstFree(p) \in Ids /\ connections[p][FirstFree(p)] = None
            BY <2>1, FirstFreeFacts
        <3> QED
            BY <1>1, <2>1, <3>1 DEF ConnTypes, Directories
    <2>2. CASE connections' = connections
        BY <2>2
    <2> QED
        BY <1>3, <2>1, <2>2
<1>5. \A x, y \in Nodes : Connects(s, x, y) => Connects(s, x, y)'
    <2> SUFFICES ASSUME NEW x \in Nodes, NEW y \in Nodes, Connects(s, x, y)
                 PROVE  Connects(s, x, y)'
        OBVIOUS
    <2>1. connections[x][s[y]] = y /\ s[y] \in Ids
        BY SlotFacts DEF Connects
    <2>2. connections'[x][s[y]] = y
        BY <1>3, <1>4, <2>1
    <2> QED
        BY <1>2, <2>2 DEF Connects
<1>6. /\ connections'[Registrar] = connections[Registrar]
      /\ \A m \in Nodes : Placed(s, m)' <=> Placed(s, m)
      /\ \A m \in Nodes : Running(m)' <=> Running(m)
      /\ Running(Registrar)' <=> Running(Registrar)
    BY <1>2, <1>3 DEF Placed, Running
<1>7. RegistrarOK(s)'
    BY <1>2, <1>6 DEF SlotsOK, RegistrarOK, DirectoryOK
<1>8. ASSUME NEW m \in Nodes, Running(m)'
      PROVE  NodeOK(s, m)'
    <2>1. Running(m) /\ NodeOK(s, m)
        BY <1>6, <1>8 DEF SlotsOK
    <2>2. net'[m].pc # "off" => connections'[m][0] = Registrar
        <3>1. net'[m].pc # "off" => connections[m][0] = Registrar
            BY <1>2, <2>1 DEF NodeOK
        <3> QED
            BY <1>3, <1>4, <3>1
    <2>3. net'[m].pc = "off" => /\ At(Registrar, m)' = {}
                                /\ Queued(Registrar, m)' = {}
                                /\ m \notin unread'[Registrar]
        BY <1>2, <1>3, <2>1 DEF NodeOK
    <2>4. \A i \in Ids : connections'[Registrar][i] = m => i = s[m]
        BY <1>6, <2>1 DEF NodeOK
    <2>5. Told(m)' => Placed(s, m)'
        BY <1>2, <1>6, <2>1 DEF NodeOK, Told
    <2>6. /\ id'[m] \in {NoId, s[m]}
          /\ net'[m].pc \in {"setFull", "identify"} => net'[m].i = s[m]
          /\ net'[m].pc = "mesh" => id'[m] = s[m] /\ net'[m].i > s[m]
        BY <1>2, <2>1 DEF NodeOK
    <2>7. DirectoryOK(s, directory[m])'
        BY <1>2, <1>6, <2>1 DEF NodeOK, DirectoryOK
    <2>8. \A k \in DOMAIN inbox'[m] : /\ inbox'[m][k].target = s[m]
                                      /\ inbox'[m][k].dir[0] = Registrar
                                      /\ DirectoryOK(s, inbox[m][k].dir)'
        BY <1>2, <1>6, <2>1 DEF NodeOK, DirectoryOK
    <2> QED
        BY <2>2, <2>3, <2>4, <2>5, <2>6, <2>7, <2>8 DEF NodeOK
<1>9. ASSUME NEW x \in Nodes, NEW y \in Nodes, Running(x)', Running(y)'
      PROVE  StaysListed(s, x, y)' /\ LinkOK(s, x, y)'
    <2>1. StaysListed(s, x, y) /\ LinkOK(s, x, y)
        BY <1>6, <1>9 DEF SlotsOK
    <2>2. StaysListed(s, x, y)'
        BY <1>2, <1>6, <2>1 DEF StaysListed
    <2>3. LinkOK(s, x, y)'
        <3>1. CASE x = p /\ y = q
            <4>1. Placed(s, p) /\ Placed(s, q) /\ Connects(s, q, p)
                BY <1>3, <2>1, <3>1 DEF LinkOK
            <4> QED
                BY <1>5, <1>6, <3>1, <4>1 DEF LinkOK
        <3>2. CASE ~ (x = p /\ y = q)
            <4>1. /\ At(x, y)' = At(x, y) /\ (y \in unread'[x] <=> y \in unread[x])
                  /\ Queued(x, y)' # {} => Queued(x, y) # {}
                BY <1>3, <3>2
            <4> QED
                BY <1>5, <1>6, <2>1, <4>1 DEF LinkOK
        <3> QED
            BY <3>1, <3>2
    <2> QED
        BY <2>2, <2>3
<1> QED
    BY <1>3, <1>7, <1>8, <1>9 DEF SlotsOK

\* The registrar accepts a connection: the node gets its slot, which nobody
\* has heard of.
LEMMA AcceptRegistrarStep ==
    ASSUME TypeOK, NetInv, NEW s \in [Nodes -> Slots], SlotsOK(s), AllOnce,
           AddNewConnection(Registrar)
    PROVE  (\E t \in [Nodes -> Slots] : SlotsOK(t)') /\ AllOnce'
<1> USE ProcFacts, IdFacts
<1>1. ConnTypes
    BY TypeParts
<1>2. /\ Running(Registrar)
      /\ UNCHANGED <<inbox, directory, id, net, stopped>>
    BY DEF AddNewConnection, Polling
<1>3. PICK q \in Nodes :
              /\ At(Registrar, q) = {} /\ q \notin unread[Registrar] /\ Queued(Registrar, q) # {}
              /\ \A x \in Procs \ {Registrar} : \A m \in Nodes :
                    At(x, m)' = At(x, m) /\ Queued(x, m)' = Queued(x, m)
              /\ \A x \in Procs \ {Registrar} :
                    connections'[x] = connections[x] /\ unread'[x] = unread[x]
              /\ \A m \in Nodes \ {q} : /\ At(Registrar, m)' = At(Registrar, m)
                                        /\ m \in unread'[Registrar] <=> m \in unread[Registrar]
              /\ \A m \in Nodes : Queued(Registrar, m)' # {} => m # q /\ Queued(Registrar, m) # {}
              /\ \/ /\ FreeSlots(Registrar) # {} /\ unread' = unread
                    /\ At(Registrar, q)' = {FirstFree(Registrar)}
                    /\ connections' = [connections EXCEPT ![Registrar][FirstFree(Registrar)] = q]
                 \/ /\ At(Registrar, q)' = {} /\ q \in unread'[Registrar]
                    /\ connections' = connections
              /\ AllOnce'
    BY <1>1, AcceptFacts
<1>4. \E f \in Slots :
         /\ \A i \in Ids : connections'[Registrar][i]
                = IF At(Registrar, q)' # {} /\ i = f THEN q ELSE connections[Registrar][i]
         /\ At(Registrar, q)' # {} => connections[Registrar][f] = None
    <2>1. CASE /\ FreeSlots(Registrar) # {}
               /\ At(Registrar, q)' = {FirstFree(Registrar)}
               /\ connections' = [connections EXCEPT ![Registrar][FirstFree(Registrar)] = q]
        <3>1. PICK f \in Ids : f = FirstFree(Registrar)
            BY <2>1, FirstFreeFacts
        <3>2. connections[Registrar][f] = None /\ f # id[Registrar]
            BY <2>1, <3>1, FirstFreeFacts
        <3>3. f \in Slots
            BY <3>2 DEF Slots, NetInv
        <3>4. \A i \in Ids : connections'[Registrar][i]
                  = IF i = f THEN q ELSE connections[Registrar][i]
            BY <1>1, <2>1, <3>1 DEF ConnTypes, Directories
        <3> QED
            BY <2>1, <3>2, <3>3, <3>4
    <2>2. CASE At(Registrar, q)' = {} /\ connections' = connections
        <3>1. s[q] \in Slots
            OBVIOUS
        <3> QED
            BY <2>2, <3>1
    <2> QED
        BY <1>3, <2>1, <2>2
<1>5. PICK f \in Slots :
         /\ \A i \in Ids : connections'[Registrar][i]
                = IF At(Registrar, q)' # {} /\ i = f THEN q ELSE connections[Registrar][i]
         /\ At(Registrar, q)' # {} => connections[Registrar][f] = None
    BY <1>4
<1>6. \A i \in Ids : connections[Registrar][i] # q
    BY <1>3 DEF At
<1>7. PICK t \in [Nodes -> Slots] : t = [s EXCEPT ![q] = f]
    OBVIOUS
<1>8. t[q] = f /\ \A m \in Nodes : m # q => t[m] = s[m]
    BY <1>7
<1>9. ~ Placed(s, q)
    BY <1>2, <1>6, SlotFacts DEF Placed
<1>10. \A m \in Nodes : /\ Running(m)' <=> Running(m)
                        /\ Placed(s, m) => m # q /\ Placed(t, m)'
    <2> SUFFICES ASSUME NEW m \in Nodes, Placed(s, m)
                 PROVE  m # q /\ Placed(t, m)'
        BY <1>2 DEF Running
    <2>1. m # q /\ t[m] = s[m] /\ s[m] \in Ids
        BY <1>8, <1>9, SlotFacts
    <2>2. connections[Registrar][s[m]] = m
        BY <1>2 DEF Placed
    <2>3. connections'[Registrar][s[m]] = m
        BY <1>5, <2>1, <2>2
    <2> QED
        BY <2>1, <2>3 DEF Placed
<1>11. Running(Registrar)' <=> Running(Registrar)
    BY <1>2 DEF Running
<1>12. \A dir : DirectoryOK(s, dir) =>
          /\ \A i \in Slots : dir[i] # Registrar
          /\ \A m \in Nodes : \A i \in Ids : Running(m)' /\ dir[i] = m => i = t[m] /\ Placed(t, m)'
    BY <1>8, <1>10 DEF DirectoryOK
<1>13. RegistrarOK(t)'
    <2>1. RegistrarOK(s)
        BY DEF SlotsOK
    <2>2. DirectoryOK(t, directory[Registrar])'
        BY <1>2, <1>12, <2>1 DEF RegistrarOK, DirectoryOK
    <2>3. connections'[Registrar][0] = None
        BY <1>5, <2>1 DEF RegistrarOK, Slots
    <2> QED
        BY <1>2, <2>1, <2>2, <2>3 DEF RegistrarOK
<1>14. ASSUME NEW m \in Nodes, Running(m)'
       PROVE  NodeOK(t, m)'
    <2>1. Running(m) /\ NodeOK(s, m)
        BY <1>10, <1>14 DEF SlotsOK
    <2>2. net'[m].pc # "off" => connections'[m][0] = Registrar
        BY <1>2, <1>3, <2>1 DEF NodeOK
    <2>3. net'[m].pc = "off" => /\ At(Registrar, m)' = {}
                                /\ Queued(Registrar, m)' = {}
                                /\ m \notin unread'[Registrar]
        <3> SUFFICES ASSUME net'[m].pc = "off"
                     PROVE  /\ At(Registrar, m)' = {}
                            /\ Queued(Registrar, m)' = {}
                            /\ m \notin unread'[Registrar]
            OBVIOUS
        <3>1. /\ At(Registrar, m) = {} /\ Queued(Registrar, m) = {}
              /\ m \notin unread[Registrar]
            BY <1>2, <2>1 DEF NodeOK
        <3>2. m # q
            BY <1>3, <3>1
        <3> QED
            BY <1>3, <3>1, <3>2
    <2>4. \A i \in Ids : connections'[Registrar][i] = m => i = t[m]
        BY <1>5, <1>6, <1>8, <2>1 DEF NodeOK
    <2>5. Told(m) => m # q
        BY <1>9, <2>1 DEF NodeOK
    <2>6. Told(m)' => Told(m)
        BY <1>2 DEF Told
    <2>7. Told(m)' => Placed(t, m)'
        BY <1>10, <2>1, <2>6 DEF NodeOK
    <2>8. /\ id'[m] \in {NoId, t[m]}
          /\ net'[m].pc \in {"setFull", "identify"} => net'[m].i = t[m]
          /\ net'[m].pc = "mesh" => id'[m] = t[m] /\ net'[m].i > t[m]
        <3>1. CASE m = q
            <4>1. ~ Told(m)
                BY <2>5, <3>1
            <4> QED
                BY <1>2, <4>1 DEF Told
        <3>2. CASE m # q
            BY <1>2, <1>8, <2>1, <3>2 DEF NodeOK
        <3> QED
            BY <3>1, <3>2
    <2>9. DirectoryOK(t, directory[m])'
        BY <1>2, <1>12, <2>1 DEF NodeOK, DirectoryOK
    <2>10. \A k \in DOMAIN inbox'[m] : /\ inbox'[m][k].target = t[m]
                                       /\ inbox'[m][k].dir[0] = Registrar
                                       /\ DirectoryOK(t, inbox[m][k].dir)'
        <3> SUFFICES ASSUME NEW k \in DOMAIN inbox'[m]
                     PROVE  /\ inbox'[m][k].target = t[m]
                            /\ inbox'[m][k].dir[0] = Registrar
                            /\ DirectoryOK(t, inbox[m][k].dir)'
            OBVIOUS
        <3>1. k \in DOMAIN inbox[m] /\ inbox' = inbox
            BY <1>2
        <3>2. /\ inbox[m][k].target = s[m] /\ inbox[m][k].dir[0] = Registrar
              /\ DirectoryOK(s, inbox[m][k].dir)
            BY <2>1, <3>1 DEF NodeOK
        <3>3. inbox[m] # <<>>
            BY <3>1
        <3>4. m # q
            BY <2>5, <3>3 DEF Told
        <3>5. DirectoryOK(t, inbox[m][k].dir)'
            BY <1>12, <3>1, <3>2 DEF DirectoryOK
        <3> QED
            BY <1>8, <3>1, <3>2, <3>4, <3>5
    <2> QED
        BY <2>2, <2>3, <2>4, <2>7, <2>8, <2>9, <2>10 DEF NodeOK
<1>15. ASSUME NEW x \in Nodes, NEW y \in Nodes, Running(x)', Running(y)'
       PROVE  StaysListed(t, x, y)' /\ LinkOK(t, x, y)'
    <2>1. StaysListed(s, x, y) /\ LinkOK(s, x, y) /\ NodeOK(s, x) /\ RegistrarOK(s)
        BY <1>10, <1>15 DEF SlotsOK
    <2>2. StaysListed(t, x, y)'
        <3>1. CASE y # q
            BY <1>2, <1>8, <1>11, <2>1, <3>1 DEF StaysListed
        <3>2. CASE y = q
            <4>1. t[q] \in Ids /\ Running(q) /\ ~ Placed(s, q)
                BY <1>9, <1>10, <1>15, <3>2, SlotFacts
            <4>2. directory[x][t[q]] # q
                BY <2>1, <4>1 DEF NodeOK, DirectoryOK
            <4>3. \A k \in DOMAIN inbox[x] : inbox[x][k].dir[t[q]] # q
                BY <2>1, <4>1 DEF NodeOK, DirectoryOK
            <4> QED
                BY <1>2, <3>2, <4>2, <4>3 DEF StaysListed
        <3> QED
            BY <3>1, <3>2
    <2>3. LinkOK(t, x, y)'
        <3>1. /\ At(x, y)' = At(x, y) /\ Queued(x, y)' = Queued(x, y)
              /\ unread'[x] = unread[x] /\ connections'[x] = connections[x]
              /\ connections'[y] = connections[y]
            BY <1>3
        <3>2. CASE At(x, y) = {} /\ Queued(x, y) = {} /\ y \notin unread[x]
            BY <3>1, <3>2 DEF LinkOK
        <3>3. CASE ~ (At(x, y) = {} /\ Queued(x, y) = {} /\ y \notin unread[x])
            <4>1. Placed(s, x) /\ Placed(s, y)
                BY <2>1, <3>3 DEF LinkOK
            <4>2. x # q /\ y # q /\ Placed(t, x)' /\ Placed(t, y)'
                BY <1>10, <4>1
            <4>3. /\ Connects(s, x, y) => Connects(t, x, y)'
                  /\ Connects(s, y, x) => Connects(t, y, x)'
                BY <1>2, <1>8, <3>1, <4>2 DEF Connects
            <4> QED
                BY <1>8, <2>1, <3>1, <4>2, <4>3 DEF LinkOK
        <3> QED
            BY <3>2, <3>3
    <2> QED
        BY <2>2, <2>3
<1>16. SlotsOK(t)'
    BY <1>13, <1>14, <1>15 DEF SlotsOK
<1> QED
    BY <1>3, <1>16

-----------------------------------------------------------------------------
\* Directories.

\* The registrar changes its slots and its directory and broadcasts it.
Republishes(slots, dir) ==
    /\ Running(Registrar)
    /\ connections' = [connections EXCEPT ![Registrar] = slots]
    /\ directory' = [directory EXCEPT ![Registrar] = dir]
    /\ Broadcast(slots, dir)
    /\ UNCHANGED <<pending, unread, id, stopped>>
    /\ \A n \in Nodes : net'[n] = net[n]

\* They name no node but in its slot, and keep every node that runs.
KeepsSlots(s, slots, dir) ==
    /\ slots[0] = None /\ dir[0] = Registrar /\ DirectoryOK(s, dir)
    /\ \A n \in Nodes : \A i \in Ids : slots[i] = n => connections[Registrar][i] = n
    /\ \A n \in Nodes : Running(n) /\ Placed(s, n) => slots[s[n]] = n
    /\ \A n \in Nodes : Running(n) /\ directory[Registrar][s[n]] = n => dir[s[n]] = n

LEMMA BroadcastStep ==
    ASSUME TypeOK, NEW s \in [Nodes -> Slots], SlotsOK(s), AllOnce,
           NEW slots \in Directories, NEW dir \in Directories,
           Republishes(slots, dir), KeepsSlots(s, slots, dir)
    PROVE  SlotsOK(s)' /\ AllOnce'
<1> USE ProcFacts, IdFacts
<1>1. /\ Running(Registrar)
      /\ connections' = [connections EXCEPT ![Registrar] = slots]
      /\ directory' = [directory EXCEPT ![Registrar] = dir]
      /\ Broadcast(slots, dir)
      /\ UNCHANGED <<pending, unread, id, stopped>>
      /\ \A n \in Nodes : net'[n] = net[n]
      /\ slots[0] = None /\ dir[0] = Registrar /\ DirectoryOK(s, dir)
      /\ \A n \in Nodes : \A i \in Ids : slots[i] = n => connections[Registrar][i] = n
      /\ \A n \in Nodes : Running(n) /\ Placed(s, n) => slots[s[n]] = n
      /\ \A n \in Nodes : Running(n) /\ directory[Registrar][s[n]] = n => dir[s[n]] = n
    BY DEF Republishes, KeepsSlots
<1> USE <1>1
<1>2. ConnTypes /\ directory \in [Procs -> Directories]
    BY TypeParts
<1>3. /\ connections'[Registrar] = slots /\ directory'[Registrar] = dir
      /\ \A n \in Nodes : connections'[n] = connections[n] /\ directory'[n] = directory[n]
    BY <1>2 DEF ConnTypes
<1>4. /\ Running(Registrar)'
      /\ \A n \in Nodes : /\ Running(n)' <=> Running(n)
                          /\ Running(n) /\ Placed(s, n) => Placed(s, n)'
    BY <1>3 DEF Placed, Running
<1>5. \A n \in Nodes :
          /\ inbox[n] \in Seq(Letters)
          /\ \/ inbox'[n] = inbox[n]
             \/ Running(n) /\ \E i \in Ids :
                   /\ slots[i] = n
                   /\ inbox'[n] = Append(inbox[n], [dir |-> dir, target |-> i])
    <2>1. \A n \in Nodes :
              \/ inbox'[n] = inbox[n]
              \/ Running(n) /\ \E i \in Ids :
                    /\ slots[i] = n
                    /\ inbox'[n] = Append(inbox[n], [dir |-> dir, target |-> i])
        BY BroadcastFacts
    <2>2. \A n \in Nodes : inbox[n] \in Seq(Letters)
        BY <1>2 DEF ConnTypes
    <2> QED
        BY <2>1, <2>2
<1>6. \A d : DirectoryOK(s, d) =>
          /\ \A i \in Slots : d[i] # Registrar
          /\ \A n \in Nodes : \A i \in Ids : Running(n)' /\ d[i] = n => i = s[n] /\ Placed(s, n)'
    BY <1>4 DEF DirectoryOK
<1>7. \A p \in Procs : \A n \in Nodes :
           At(p, n)' \subseteq At(p, n) /\ Queued(p, n)' = Queued(p, n)
    <2> SUFFICES ASSUME NEW p \in Procs, NEW n \in Nodes
                 PROVE  At(p, n)' \subseteq At(p, n) /\ Queued(p, n)' = Queued(p, n)
        OBVIOUS
    <2>1. Queued(p, n)' = Queued(p, n)
        BY DEF Queued
    <2>2. At(p, n)' \subseteq At(p, n)
        <3>1. CASE p = Registrar
            BY <1>3, <3>1 DEF At
        <3>2. CASE p # Registrar
            BY <1>3, <3>2 DEF At
        <3> QED
            BY <3>1, <3>2
    <2> QED
        BY <2>1, <2>2
<1>8. AllOnce'
    <2> SUFFICES ASSUME NEW p \in Procs, NEW n \in Nodes
                 PROVE  AtMostOne(p, n)'
        BY DEF AllOnce
    <2>1. AtMostOne(p, n) /\ unread' = unread
        BY DEF AllOnce
    <2> QED
        BY <1>7, <2>1 DEF AtMostOne
<1>9. RegistrarOK(s)'
    <2>1. DirectoryOK(s, directory[Registrar])'
        BY <1>3, <1>6 DEF DirectoryOK
    <2> QED
        BY <1>3, <2>1 DEF RegistrarOK
\* What n receives: what was under way, and perhaps dir.
<1>10. ASSUME NEW n \in Nodes
      PROVE  \/ inbox'[n] = inbox[n]
             \/ \E e \in Nat \ {0} :
                   /\ Running(n) /\ \E i \in Ids : slots[i] = n /\ inbox'[n][e].target = i
                   /\ inbox'[n][e].dir = dir
                   /\ DOMAIN inbox'[n] = DOMAIN inbox[n] \cup {e}
                   /\ \A k \in DOMAIN inbox[n] : k < e /\ inbox'[n][k] = inbox[n][k]
    <2>1. CASE inbox'[n] = inbox[n]
        BY <2>1
    <2>2. CASE inbox'[n] # inbox[n]
        <3>1. PICK i \in Ids : /\ Running(n) /\ slots[i] = n
                               /\ inbox'[n] = Append(inbox[n], [dir |-> dir, target |-> i])
            BY <1>5, <2>2
        <3>2. [dir |-> dir, target |-> i] \in Letters
            BY DEF Letters
        <3>3. inbox[n] \in Seq(Letters)
            BY <1>5
        <3>4. /\ DOMAIN inbox'[n] = DOMAIN inbox[n] \cup {Len(inbox[n]) + 1}
              /\ inbox'[n][Len(inbox[n]) + 1] = [dir |-> dir, target |-> i]
              /\ \A k \in DOMAIN inbox[n] : inbox'[n][k] = inbox[n][k]
            BY <3>1, <3>2, <3>3, QueueAppend
        <3>5. Len(inbox[n]) \in Nat /\ DOMAIN inbox[n] = 1 .. Len(inbox[n])
            BY <3>3, LenProperties
        <3>6. PICK e \in Nat \ {0} : e = Len(inbox[n]) + 1
            BY <3>5
        <3>7. \A k \in DOMAIN inbox[n] : k < e
            BY <3>5, <3>6
        <3>8. inbox'[n][e].dir = dir /\ inbox'[n][e].target = i
            BY <3>4, <3>6
        <3>9. DOMAIN inbox'[n] = DOMAIN inbox[n] \cup {e}
            BY <3>4, <3>6
        <3>10. \A k \in DOMAIN inbox[n] : k < e /\ inbox'[n][k] = inbox[n][k]
            BY <3>4, <3>7
        <3>11. Running(n) /\ \E j \in Ids : slots[j] = n /\ inbox'[n][e].target = j
            BY <3>1, <3>8
        <3> QED
            BY <3>8, <3>9, <3>10, <3>11, Zenon
    <2> QED
        BY <2>1, <2>2
<1>11. ASSUME NEW n \in Nodes, Running(n)'
      PROVE  NodeOK(s, n)'
    <2>1. Running(n) /\ NodeOK(s, n)
        BY <1>4, <1>11 DEF SlotsOK
    <2>2. /\ net'[n].pc # "off" => connections'[n][0] = Registrar
          /\ \A i \in Ids : connections'[Registrar][i] = n => i = s[n]
          /\ id'[n] \in {NoId, s[n]}
          /\ net'[n].pc \in {"setFull", "identify"} => net'[n].i = s[n]
          /\ net'[n].pc = "mesh" => id'[n] = s[n] /\ net'[n].i > s[n]
        BY <1>3, <2>1 DEF NodeOK
    <2>3. net'[n].pc = "off" => /\ At(Registrar, n)' = {}
                                /\ Queued(Registrar, n)' = {}
                                /\ n \notin unread'[Registrar]
        BY <1>7, <2>1 DEF NodeOK
    <2>4. DirectoryOK(s, directory[n])'
        BY <1>3, <1>6, <2>1 DEF NodeOK, DirectoryOK
    <2>5. Told(n)' => Placed(s, n)'
        <3>1. CASE inbox'[n] = inbox[n]
            BY <1>4, <2>1, <3>1 DEF NodeOK, Told
        <3>2. CASE inbox'[n] # inbox[n]
            <4>1. PICK i \in Ids : slots[i] = n
                BY <1>10, <3>2
            <4>2. i = s[n]
                BY <2>1, <4>1 DEF NodeOK
            <4> QED
                BY <1>3, <4>1, <4>2 DEF Placed
        <3> QED
            BY <3>1, <3>2
    <2>6. \A k \in DOMAIN inbox'[n] : /\ inbox'[n][k].target = s[n]
                                      /\ inbox'[n][k].dir[0] = Registrar
                                      /\ DirectoryOK(s, inbox[n][k].dir)'
        <3> SUFFICES ASSUME NEW k \in DOMAIN inbox'[n]
                     PROVE  /\ inbox'[n][k].target = s[n]
                            /\ inbox'[n][k].dir[0] = Registrar
                            /\ DirectoryOK(s, inbox[n][k].dir)'
            OBVIOUS
        <3>1. CASE k \in DOMAIN inbox[n] /\ inbox'[n][k] = inbox[n][k]
            <4>1. /\ inbox[n][k].target = s[n] /\ inbox[n][k].dir[0] = Registrar
                  /\ DirectoryOK(s, inbox[n][k].dir)
                BY <2>1, <3>1 DEF NodeOK
            <4>2. DirectoryOK(s, inbox[n][k].dir)'
                BY <1>6, <3>1, <4>1 DEF DirectoryOK
            <4> QED
                BY <3>1, <4>1, <4>2
        <3>2. CASE inbox'[n][k].dir = dir /\ \E i \in Ids : slots[i] = n /\ inbox'[n][k].target = i
            <4>1. inbox'[n][k].target = s[n]
                BY <2>1, <3>2 DEF NodeOK
            <4>2. DirectoryOK(s, inbox[n][k].dir)'
                BY <1>6, <3>2 DEF DirectoryOK
            <4> QED
                BY <3>2, <4>1, <4>2
        <3> QED
            BY <1>10, <3>1, <3>2
    <2> QED
        BY <2>2, <2>3, <2>4, <2>5, <2>6 DEF NodeOK
<1>12. ASSUME NEW x \in Nodes, NEW y \in Nodes, Running(x)', Running(y)'
       PROVE  StaysListed(s, x, y)' /\ LinkOK(s, x, y)'
    <2>1. Running(y) /\ StaysListed(s, x, y) /\ LinkOK(s, x, y)
        BY <1>4, <1>12 DEF SlotsOK
    <2>2. directory[Registrar][s[y]] = y => dir[s[y]] = y
        BY <2>1
    <2>3. StaysListed(s, x, y)'
        <3>1. CASE inbox'[x] = inbox[x]
            BY <1>3, <2>1, <2>2, <3>1 DEF StaysListed
        <3>2. CASE inbox'[x] # inbox[x]
            <4>1. PICK e \in Nat \ {0} :
                      /\ inbox'[x][e].dir = dir
                      /\ DOMAIN inbox'[x] = DOMAIN inbox[x] \cup {e}
                      /\ \A k \in DOMAIN inbox[x] : k < e /\ inbox'[x][k] = inbox[x][k]
                BY <1>10, <3>2
            <4>2. directory'[x][s[y]] = y =>
                      /\ \A k \in DOMAIN inbox'[x] : inbox'[x][k].dir[s[y]] = y
                      /\ Running(Registrar)' => directory'[Registrar][s[y]] = y
                BY <1>3, <2>1, <2>2, <4>1 DEF StaysListed
            <4>3. ASSUME NEW k \in DOMAIN inbox'[x], inbox'[x][k].dir[s[y]] = y
                  PROVE  /\ \A l \in DOMAIN inbox'[x] : k <= l => inbox'[x][l].dir[s[y]] = y
                         /\ directory'[Registrar][s[y]] = y
                <5>1. CASE k \in DOMAIN inbox[x]
                    <6>1. dir[s[y]] = y
                        BY <2>1, <2>2, <4>1, <4>3, <5>1 DEF StaysListed
                    <6> QED
                        BY <1>3, <2>1, <4>1, <4>3, <5>1, <6>1 DEF StaysListed
                <5>2. CASE k = e
                    <6>1. \A l \in DOMAIN inbox[x] : l \in Nat /\ ~ e <= l
                        <7>1. inbox[x] \in Seq(Letters)
                            BY <1>5
                        <7>2. DOMAIN inbox[x] = 1 .. Len(inbox[x]) /\ Len(inbox[x]) \in Nat
                            BY <7>1, LenProperties
                        <7> QED
                            BY <4>1, <7>2
                    <6> QED
                        BY <1>3, <4>1, <4>3, <5>2, <6>1
                <5> QED
                    BY <4>1, <5>1, <5>2
            <4> QED
                BY <4>2, <4>3 DEF StaysListed
        <3> QED
            BY <3>1, <3>2
    <2>4. LinkOK(s, x, y)'
        <3>1. /\ At(x, y)' = At(x, y) /\ Queued(x, y)' = Queued(x, y) /\ unread' = unread
              /\ Connects(s, x, y) => Connects(s, x, y)'
              /\ Connects(s, y, x) => Connects(s, y, x)'
            BY <1>3 DEF At, Queued, Connects
        <3> QED
            BY <1>4, <1>12, <2>1, <3>1 DEF LinkOK
    <2> QED
        BY <2>3, <2>4
<1> QED
    BY <1>8, <1>9, <1>11, <1>12 DEF SlotsOK

LEMMA RegisterStep ==
    ASSUME TypeOK, NetInv, NEW s \in [Nodes -> Slots], SlotsOK(s), AllOnce,
           NEW i \in Ids, HandleRegister(i)
    PROVE  SlotsOK(s)' /\ AllOnce'
<1> USE ProcFacts, IdFacts
<1>1. ConnTypes /\ NetTypes /\ directory \in [Procs -> Directories] /\ registers \subseteq Nodes
    BY TypeParts DEF NetTypes
<1>2. PICK n \in Nodes : n = connections[Registrar][i]
    BY <1>1 DEF HandleRegister
<1>3. PICK dir \in Directories :
          dir = IF directory[Registrar][i] = None
                THEN [directory[Registrar] EXCEPT ![i] = n] ELSE directory[Registrar]
    BY <1>1 DEF Directories
<1>4. /\ Running(Registrar)
      /\ directory' = [directory EXCEPT ![Registrar] = dir]
      /\ Broadcast(connections[Registrar], dir)
      /\ UNCHANGED <<connections, pending, unread, id, stopped>>
      /\ \A m \in Nodes : net'[m] = net[m]
    <2>1. /\ Polling(Registrar)
          /\ directory' = [directory EXCEPT ![Registrar] = dir]
          /\ Broadcast(connections[Registrar], dir)
          /\ UNCHANGED <<connections, pending, unread, id, stopped>>
          /\ net' = [net EXCEPT ![Registrar] = Doing("setFull", NoId)] \/ net' = net
        BY <1>2, <1>3 DEF HandleRegister
    <2> QED
        BY <1>1, <2>1 DEF Polling, NetTypes
<1>5. /\ connections[Registrar] \in Directories
      /\ connections' = [connections EXCEPT ![Registrar] = connections[Registrar]]
    BY <1>1, <1>4 DEF ConnTypes
<1>6. RegistrarOK(s) /\ connections[Registrar][0] = None /\ directory[Registrar][0] = Registrar
    BY DEF SlotsOK, RegistrarOK
<1>7. i \in Slots
    BY <1>2, <1>6 DEF Slots
<1>8. \A j \in Ids : dir[j] = IF j = i /\ directory[Registrar][i] = None THEN n
                              ELSE directory[Registrar][j]
    BY <1>1, <1>3 DEF Directories
<1>9. dir[0] = Registrar
    BY <1>6, <1>7, <1>8 DEF Slots
<1>10. DirectoryOK(s, dir)
    <2>1. ASSUME NEW m \in Nodes, NEW j \in Ids, Running(m), dir[j] = m
          PROVE  j = s[m] /\ Placed(s, m)
        <3>1. CASE j = i /\ m = n
            <4>1. i = s[n]
                BY <1>2, <2>1, <3>1 DEF SlotsOK, NodeOK
            <4> QED
                BY <1>2, <3>1, <4>1 DEF Placed
        <3>2. CASE directory[Registrar][j] = m
            BY <1>6, <2>1, <3>2 DEF RegistrarOK, DirectoryOK
        <3> QED
            BY <1>8, <2>1, <3>1, <3>2
    <2>2. \A j \in Slots : dir[j] # Registrar
        BY <1>6, <1>8 DEF RegistrarOK, DirectoryOK
    <2> QED
        BY <2>1, <2>2 DEF DirectoryOK
<1>11. \A m \in Nodes : Running(m) /\ Placed(s, m) => connections[Registrar][s[m]] = m
    BY <1>4 DEF Placed
<1>12. \A m \in Nodes : Running(m) /\ directory[Registrar][s[m]] = m => dir[s[m]] = m
    BY <1>8, SlotFacts
<1>13. PICK slots \in Directories : slots = connections[Registrar]
    BY <1>5
<1>14. Republishes(slots, dir)
    BY <1>4, <1>5, <1>13 DEF Republishes
<1>15. KeepsSlots(s, slots, dir)
    BY <1>6, <1>9, <1>10, <1>11, <1>12, <1>13 DEF KeepsSlots
<1> QED
    BY <1>14, <1>15, BroadcastStep

LEMMA RegistrarClosedStep ==
    ASSUME TypeOK, NetInv, NEW s \in [Nodes -> Slots], SlotsOK(s), AllOnce,
           NEW i \in Ids, RegistrarReadsClosed(i)
    PROVE  SlotsOK(s)' /\ AllOnce'
<1> USE ProcFacts, IdFacts
<1>1. ConnTypes /\ directory \in [Procs -> Directories]
    BY TypeParts
<1>2. PICK slots \in Directories : slots = [connections[Registrar] EXCEPT ![i] = None]
    BY <1>1 DEF ConnTypes, Directories
<1>3. PICK dir \in Directories : dir = [directory[Registrar] EXCEPT ![i] = None]
    BY <1>1 DEF Directories
<1>4. /\ Running(Registrar)
      /\ connections' = [connections EXCEPT ![Registrar] = slots]
      /\ directory' = [directory EXCEPT ![Registrar] = dir]
      /\ Broadcast(slots, dir)
      /\ UNCHANGED <<pending, unread, id, stopped, net>>
      /\ Broken(Registrar, i)
    BY <1>2, <1>3 DEF RegistrarReadsClosed, Polling
<1>5. RegistrarOK(s) /\ connections[Registrar][0] = None /\ directory[Registrar][0] = Registrar
    BY DEF SlotsOK, RegistrarOK
<1>6. i # 0
    BY <1>4, <1>5 DEF Broken
<1>7. /\ \A j \in Ids : slots[j] = IF j = i THEN None ELSE connections[Registrar][j]
      /\ \A j \in Ids : dir[j] = IF j = i THEN None ELSE directory[Registrar][j]
    BY <1>1, <1>2, <1>3 DEF ConnTypes, Directories
\* The other end of a node's connection is there as long as the node runs.
<1>8. \A m \in Nodes : Running(m) /\ Placed(s, m) => s[m] # i
    <2> SUFFICES ASSUME NEW m \in Nodes, Running(m), Placed(s, m), s[m] = i
                 PROVE  FALSE
        OBVIOUS
    <2>1. connections[Registrar][i] = m
        BY <1>4 DEF Placed
    <2>2. NodeOK(s, m) /\ At(Registrar, m) # {}
        BY <2>1 DEF SlotsOK, At
    <2>3. connections[m][0] = Registrar
        BY <2>2 DEF NodeOK
    <2>4. Registrar \in Range(connections[m])
        BY <1>1, <2>3 DEF Range, ConnTypes, Directories
    <2>5. Holds(m, Registrar)
        BY <2>4 DEF Holds
    <2> QED
        BY <1>4, <2>1, <2>5 DEF Broken
<1>9. \A m \in Nodes : Running(m) /\ directory[Registrar][s[m]] = m => Placed(s, m)
    BY <1>5, SlotFacts DEF RegistrarOK, DirectoryOK
<1>10. \A m \in Nodes : Running(m) /\ Placed(s, m) => slots[s[m]] = m
    BY <1>4, <1>7, <1>8, SlotFacts DEF Placed
<1>11. \A m \in Nodes : Running(m) /\ directory[Registrar][s[m]] = m => dir[s[m]] = m
    BY <1>7, <1>8, <1>9, SlotFacts
<1>12. DirectoryOK(s, dir)
    BY <1>5, <1>7 DEF RegistrarOK, DirectoryOK, Slots
<1>13. /\ slots[0] = None /\ dir[0] = Registrar
       /\ \A m \in Nodes : \A j \in Ids : slots[j] = m => connections[Registrar][j] = m
       /\ \A m \in Nodes : net'[m] = net[m]
    BY <1>4, <1>5, <1>6, <1>7
<1> QED
    <2>1. Republishes(slots, dir)
        BY <1>4, <1>13 DEF Republishes
    <2>2. KeepsSlots(s, slots, dir)
        BY <1>10, <1>11, <1>12, <1>13 DEF KeepsSlots
    <2> QED
        BY <2>1, <2>2, BroadcastStep

\* A directory arrives.
LEMMA DirectoryStep ==
    ASSUME TypeOK, NetInv, NEW s \in [Nodes -> Slots], SlotsOK(s), AllOnce,
           NEW n \in Nodes, HandleDirectory(n)
    PROVE  SlotsOK(s)' /\ AllOnce'
<1> USE ProcFacts, IdFacts
<1>1. ConnTypes /\ NetTypes /\ directory \in [Procs -> Directories]
    BY TypeParts DEF NetTypes
<1>2. Running(n) /\ net[n].pc = "poll" /\ inbox[n] # <<>> /\ inbox[n] \in Seq(Letters)
    BY <1>1 DEF HandleDirectory, Polling, ConnTypes
<1>3. PICK msg \in Letters : msg = Head(inbox[n])
    BY <1>2, HeadTailProperties
<1>4. /\ 1 \in DOMAIN inbox[n] /\ msg = inbox[n][1]
      /\ \A k \in DOMAIN Tail(inbox[n]) : /\ k \in Nat \ {0} /\ k + 1 \in DOMAIN inbox[n]
                                          /\ Tail(inbox[n])[k] = inbox[n][k + 1]
    BY <1>2, <1>3, QueueTail
<1>5. /\ inbox' = [inbox EXCEPT ![n] = Tail(@)]
      /\ connections' = [connections EXCEPT ![n] =
            [i \in Ids |-> IF msg.dir[i] = None THEN None ELSE @[i]]]
      /\ directory' = [directory EXCEPT ![n] = msg.dir]
      /\ \/ net' = [net EXCEPT ![n] = Doing("setFull", msg.target)]
         \/ net' = [net EXCEPT ![n] = Doing("identify", msg.target)]
      /\ UNCHANGED <<pending, unread, id, stopped>>
    BY <1>3 DEF HandleDirectory
<1>6. /\ \A i \in Ids : connections'[n][i] = IF msg.dir[i] = None THEN None ELSE connections[n][i]
      /\ \A p \in Procs : p # n => connections'[p] = connections[p] /\ directory'[p] = directory[p]
      /\ directory'[n] = msg.dir
      /\ inbox'[n] = Tail(inbox[n])
      /\ \A m \in Nodes : m # n => inbox'[m] = inbox[m] /\ net'[m] = net[m]
      /\ net'[n].pc \in {"setFull", "identify"} /\ net'[n].i = msg.target
    BY <1>1, <1>5 DEF ConnTypes, NetTypes, Doing
<1>7. NodeOK(s, n)
    BY <1>2 DEF SlotsOK
<1>8. /\ msg.target = s[n] /\ msg.dir[0] = Registrar /\ DirectoryOK(s, msg.dir)
      /\ Placed(s, n) /\ connections[n][0] = Registrar
    BY <1>2, <1>4, <1>7 DEF NodeOK, Told
<1>9. /\ connections'[Registrar] = connections[Registrar]
      /\ \A m \in Nodes : Placed(s, m)' <=> Placed(s, m)
      /\ \A m \in Nodes : Running(m)' <=> Running(m)
      /\ Running(Registrar)' <=> Running(Registrar)
    BY <1>5, <1>6 DEF Placed, Running
<1>10. AllOnce'
    <2> SUFFICES ASSUME NEW p \in Procs, NEW m \in Nodes
                 PROVE  AtMostOne(p, m)'
        BY DEF AllOnce
    <2>1. AtMostOne(p, m) /\ unread' = unread /\ Queued(p, m)' = Queued(p, m)
        BY <1>5 DEF AllOnce, Queued
    <2>2. At(p, m)' \subseteq At(p, m)
        <3>1. CASE p = n
            BY <1>6, <3>1 DEF At
        <3>2. CASE p # n
            BY <1>6, <3>2 DEF At
        <3> QED
            BY <3>1, <3>2
    <2> QED
        BY <2>1, <2>2 DEF AtMostOne
<1>11. \A d : DirectoryOK(s, d) =>
          /\ \A i \in Slots : d[i] # Registrar
          /\ \A m \in Nodes : \A i \in Ids : Running(m)' /\ d[i] = m => i = s[m] /\ Placed(s, m)'
    BY <1>9 DEF DirectoryOK
<1>12. RegistrarOK(s)'
    <2>1. RegistrarOK(s) /\ directory'[Registrar] = directory[Registrar]
        BY <1>6 DEF SlotsOK
    <2>2. DirectoryOK(s, directory[Registrar])'
        BY <1>11, <2>1 DEF RegistrarOK, DirectoryOK
    <2> QED
        BY <1>9, <2>1, <2>2 DEF RegistrarOK
<1>13. ASSUME NEW m \in Nodes, Running(m)'
       PROVE  NodeOK(s, m)'
    <2>1. Running(m) /\ NodeOK(s, m)
        BY <1>9, <1>13 DEF SlotsOK
    <2>2. /\ net'[m].pc # "off" => connections'[m][0] = Registrar
          /\ \A i \in Ids : connections'[Registrar][i] = m => i = s[m]
        <3>1. CASE m = n
            BY <1>6, <1>8, <1>9, <2>1, <3>1 DEF NodeOK
        <3>2. CASE m # n
            BY <1>6, <1>9, <2>1, <3>2 DEF NodeOK
        <3> QED
            BY <3>1, <3>2
    <2>3. net'[m].pc = "off" => /\ At(Registrar, m)' = {}
                                /\ Queued(Registrar, m)' = {}
                                /\ m \notin unread'[Registrar]
        <3>1. net'[m].pc = "off" => m # n /\ net[m].pc = "off"
            BY <1>6
        <3> QED
            BY <1>5, <1>9, <2>1, <3>1 DEF NodeOK, At, Queued
    <2>4. Told(m)' => Placed(s, m)'
        <3>1. CASE m = n
            BY <1>8, <1>9, <3>1
        <3>2. CASE m # n
            BY <1>5, <1>6, <1>9, <2>1, <3>2 DEF NodeOK, Told
        <3> QED
            BY <3>1, <3>2
    <2>5. /\ id'[m] \in {NoId, s[m]}
          /\ net'[m].pc \in {"setFull", "identify"} => net'[m].i = s[m]
          /\ net'[m].pc = "mesh" => id'[m] = s[m] /\ net'[m].i > s[m]
        <3>1. CASE m = n
            <4>1. id'[n] \in {NoId, s[n]}
                BY <1>5, <1>7 DEF NodeOK
            <4> QED
                BY <1>6, <1>8, <3>1, <4>1
        <3>2. CASE m # n
            BY <1>5, <1>6, <2>1, <3>2 DEF NodeOK
        <3> QED
            BY <3>1, <3>2
    <2>6. DirectoryOK(s, directory[m])'
        <3>1. CASE m = n
            BY <1>6, <1>8, <1>11, <3>1 DEF DirectoryOK
        <3>2. CASE m # n
            <4>1. directory'[m] = directory[m] /\ DirectoryOK(s, directory[m])
                BY <1>6, <2>1, <3>2 DEF NodeOK
            <4> QED
                BY <1>11, <4>1 DEF DirectoryOK
        <3> QED
            BY <3>1, <3>2
    <2>7. \A k \in DOMAIN inbox'[m] : /\ inbox'[m][k].target = s[m]
                                      /\ inbox'[m][k].dir[0] = Registrar
                                      /\ DirectoryOK(s, inbox[m][k].dir)'
        <3> SUFFICES ASSUME NEW k \in DOMAIN inbox'[m]
                     PROVE  /\ inbox'[m][k].target = s[m]
                            /\ inbox'[m][k].dir[0] = Registrar
                            /\ DirectoryOK(s, inbox[m][k].dir)'
            OBVIOUS
        <3>1. PICK e \in DOMAIN inbox[m] : inbox'[m][k] = inbox[m][e]
            <4>1. CASE m = n
                <5>1. k \in DOMAIN Tail(inbox[n]) /\ inbox'[m][k] = Tail(inbox[n])[k]
                    BY <1>6, <4>1
                <5>2. k + 1 \in DOMAIN inbox[n] /\ Tail(inbox[n])[k] = inbox[n][k + 1]
                    BY <1>4, <5>1
                <5> QED
                    BY <4>1, <5>1, <5>2
            <4>2. CASE m # n
                BY <1>6, <4>2
            <4> QED
                BY <4>1, <4>2
        <3>2. /\ inbox[m][e].target = s[m] /\ inbox[m][e].dir[0] = Registrar
              /\ DirectoryOK(s, inbox[m][e].dir)
            BY <2>1 DEF NodeOK
        <3>3. DirectoryOK(s, inbox[m][k].dir)'
            BY <1>11, <3>1, <3>2 DEF DirectoryOK
        <3> QED
            BY <3>1, <3>2, <3>3
    <2> QED
        BY <2>2, <2>3, <2>4, <2>5, <2>6, <2>7 DEF NodeOK
\* The slots of the nodes that the next directory names are kept.
<1>14. \A y \in Nodes : Running(y) /\ directory[n][s[y]] = y => msg.dir[s[y]] = y
    BY <1>2, <1>4 DEF SlotsOK, StaysListed
<1>15. ASSUME NEW x \in Nodes, NEW y \in Nodes, Running(x)', Running(y)'
       PROVE  StaysListed(s, x, y)' /\ LinkOK(s, x, y)'
    <2>1. Running(x) /\ Running(y) /\ StaysListed(s, x, y) /\ LinkOK(s, x, y)
        BY <1>9, <1>15 DEF SlotsOK
    <2>2. StaysListed(s, x, y)'
        <3>1. CASE x # n
            BY <1>6, <1>9, <2>1, <3>1 DEF StaysListed
        <3>2. CASE x = n
            <4>1. ASSUME NEW e \in DOMAIN inbox[n], inbox[n][e].dir[s[y]] = y
                  PROVE  /\ \A l \in DOMAIN inbox[n] : e <= l => inbox[n][l].dir[s[y]] = y
                         /\ Running(Registrar)' => directory'[Registrar][s[y]] = y
                BY <1>6, <1>9, <2>1, <3>2, <4>1 DEF StaysListed
            <4>2. directory'[n][s[y]] = y =>
                      /\ \A k \in DOMAIN inbox'[n] : inbox'[n][k].dir[s[y]] = y
                      /\ Running(Registrar)' => directory'[Registrar][s[y]] = y
                <5> SUFFICES ASSUME msg.dir[s[y]] = y
                             PROVE  /\ \A k \in DOMAIN inbox'[n] : inbox'[n][k].dir[s[y]] = y
                                    /\ Running(Registrar)' => directory'[Registrar][s[y]] = y
                    BY <1>6
                <5>1. /\ \A l \in DOMAIN inbox[n] : 1 <= l => inbox[n][l].dir[s[y]] = y
                      /\ Running(Registrar)' => directory'[Registrar][s[y]] = y
                    BY <1>4, <4>1
                <5>2. \A k \in DOMAIN inbox'[n] : /\ k + 1 \in DOMAIN inbox[n] /\ 1 <= k + 1
                                                  /\ inbox'[n][k] = inbox[n][k + 1]
                    BY <1>4, <1>6
                <5> QED
                    BY <5>1, <5>2
            <4>3. ASSUME NEW k \in DOMAIN inbox'[n], inbox'[n][k].dir[s[y]] = y
                  PROVE  /\ \A l \in DOMAIN inbox'[n] : k <= l => inbox'[n][l].dir[s[y]] = y
                         /\ Running(Registrar)' => directory'[Registrar][s[y]] = y
                <5>1. \A j \in DOMAIN inbox'[n] : /\ j \in Nat /\ j + 1 \in DOMAIN inbox[n]
                                                  /\ inbox'[n][j] = inbox[n][j + 1]
                    BY <1>4, <1>6
                <5>2. inbox[n][k + 1].dir[s[y]] = y /\ k + 1 \in DOMAIN inbox[n]
                    BY <4>3, <5>1
                <5>3. /\ \A l \in DOMAIN inbox[n] : k + 1 <= l => inbox[n][l].dir[s[y]] = y
                      /\ Running(Registrar)' => directory'[Registrar][s[y]] = y
                    BY <4>1, <5>2
                <5>4. ASSUME NEW l \in DOMAIN inbox'[n], k <= l
                      PROVE  inbox'[n][l].dir[s[y]] = y
                    <6>1. k + 1 <= l + 1
                        BY <5>1, <5>4
                    <6> QED
                        BY <5>1, <5>3, <6>1
                <5> QED
                    BY <5>3, <5>4
            <4> QED
                BY <3>2, <4>2, <4>3 DEF StaysListed
        <3> QED
            BY <3>1, <3>2
    <2>3. \A a, b \in Nodes : Running(b) /\ Connects(s, a, b) => Connects(s, a, b)'
        <3> SUFFICES ASSUME NEW a \in Nodes, NEW b \in Nodes, Running(b), Connects(s, a, b)
                     PROVE  Connects(s, a, b)'
            OBVIOUS
        <3>1. CASE a = n
            <4>1. msg.dir[s[b]] = b /\ s[b] \in Ids
                BY <1>14, <3>1, SlotFacts DEF Connects
            <4>2. connections'[n][s[b]] = connections[n][s[b]] /\ directory'[n][s[b]] = b
                BY <1>6, <4>1
            <4> QED
                BY <3>1, <4>2 DEF Connects
        <3>2. CASE a # n
            BY <1>6, <3>2 DEF Connects
        <3> QED
            BY <3>1, <3>2
    <2>4. At(x, y)' \subseteq At(x, y) /\ Queued(x, y)' = Queued(x, y) /\ unread' = unread
        <3>1. CASE x = n
            BY <1>5, <1>6, <3>1 DEF At, Queued
        <3>2. CASE x # n
            BY <1>5, <1>6, <3>2 DEF At, Queued
        <3> QED
            BY <3>1, <3>2
    <2>5. LinkOK(s, x, y)'
        BY <1>9, <2>1, <2>3, <2>4 DEF LinkOK
    <2> QED
        BY <2>2, <2>5
<1> QED
    BY <1>10, <1>12, <1>13, <1>15 DEF SlotsOK

\* A node finds a connection closed; it ends if it is the registrar's.
LEMMA NodeClosedStep ==
    ASSUME TypeOK, NetInv, NEW s \in [Nodes -> Slots], SlotsOK(s), AllOnce,
           NEW n \in Nodes, NEW i \in Ids, NodeReadsClosed(n, i)
    PROVE  SlotsOK(s)' /\ AllOnce'
<1> USE ProcFacts, IdFacts
<1>1. ConnTypes
    BY TypeParts
<1>2. Running(n) /\ Broken(n, i) /\ UNCHANGED <<directory, id, net>>
    BY DEF NodeReadsClosed, Polling
<1>3. CASE i = 0
    <2>1. Ends(n, "shutdown")
        BY <1>3 DEF NodeReadsClosed
    <2> QED
        BY <1>1, <1>2, <2>1, EndsStep
<1>4. CASE i # 0
    <2>1. /\ connections' = [connections EXCEPT ![n][i] = None]
          /\ UNCHANGED <<pending, unread, inbox, stopped>>
        BY <1>4 DEF NodeReadsClosed
    <2>2. /\ \A j \in Ids : connections'[n][j] = IF j = i THEN None ELSE connections[n][j]
          /\ \A p \in Procs : p # n => connections'[p] = connections[p]
        BY <1>1, <2>1 DEF ConnTypes, Directories
    <2>3. \A p \in Procs : \A m \in Nodes :
              At(p, m)' \subseteq At(p, m) /\ Queued(p, m)' = Queued(p, m)
        <3> SUFFICES ASSUME NEW p \in Procs, NEW m \in Nodes
                     PROVE  At(p, m)' \subseteq At(p, m) /\ Queued(p, m)' = Queued(p, m)
            OBVIOUS
        <3>1. Queued(p, m)' = Queued(p, m)
            BY <2>1 DEF Queued
        <3>2. CASE p = n
            BY <2>2, <3>1, <3>2 DEF At
        <3>3. CASE p # n
            BY <2>2, <3>1, <3>3 DEF At
        <3> QED
            BY <3>2, <3>3
    <2>4. AllOnce'
        <3> SUFFICES ASSUME NEW p \in Procs, NEW m \in Nodes
                     PROVE  AtMostOne(p, m)'
            BY DEF AllOnce
        <3>1. AtMostOne(p, m) /\ unread' = unread
            BY <2>1 DEF AllOnce
        <3> QED
            BY <2>3, <3>1 DEF AtMostOne
    <2>5. /\ connections'[Registrar] = connections[Registrar]
          /\ \A m \in Nodes : Placed(s, m)' <=> Placed(s, m)
          /\ \A m \in Nodes : Running(m)' <=> Running(m)
          /\ Running(Registrar)' <=> Running(Registrar)
        BY <2>1, <2>2 DEF Placed, Running
    <2>6. RegistrarOK(s)'
        BY <1>2, <2>5 DEF SlotsOK, RegistrarOK, DirectoryOK
    <2>7. ASSUME NEW m \in Nodes, Running(m)'
          PROVE  NodeOK(s, m)'
        <3>1. Running(m) /\ NodeOK(s, m)
            BY <2>5, <2>7 DEF SlotsOK
        <3>2. connections[m][0] = Registrar => connections'[m][0] = Registrar
            BY <1>4, <2>2
        <3>3. /\ net'[m].pc # "off" => connections'[m][0] = Registrar
              /\ \A j \in Ids : connections'[Registrar][j] = m => j = s[m]
              /\ id'[m] \in {NoId, s[m]}
              /\ net'[m].pc \in {"setFull", "identify"} => net'[m].i = s[m]
              /\ net'[m].pc = "mesh" => id'[m] = s[m] /\ net'[m].i > s[m]
            BY <1>2, <2>5, <3>1, <3>2 DEF NodeOK
        <3>4. net'[m].pc = "off" => /\ At(Registrar, m)' = {}
                                    /\ Queued(Registrar, m)' = {}
                                    /\ m \notin unread'[Registrar]
            BY <1>2, <2>1, <2>3, <3>1 DEF NodeOK
        <3>5. Told(m)' => Placed(s, m)'
            BY <1>2, <2>1, <2>5, <3>1 DEF NodeOK, Told
        <3>6. DirectoryOK(s, directory[m])'
            BY <1>2, <2>5, <3>1 DEF NodeOK, DirectoryOK
        <3>7. \A k \in DOMAIN inbox'[m] : /\ inbox'[m][k].target = s[m]
                                          /\ inbox'[m][k].dir[0] = Registrar
                                          /\ DirectoryOK(s, inbox[m][k].dir)'
            BY <2>1, <2>5, <3>1 DEF NodeOK, DirectoryOK
        <3> QED
            BY <3>3, <3>4, <3>5, <3>6, <3>7 DEF NodeOK
    <2>8. \A x, y \in Nodes : Connects(s, x, y) =>
              Connects(s, x, y)' \/ (x = n /\ s[y] = i /\ connections[n][i] = y)
        <3> SUFFICES ASSUME NEW x \in Nodes, NEW y \in Nodes, Connects(s, x, y),
                            ~ (x = n /\ s[y] = i /\ connections[n][i] = y)
                     PROVE  Connects(s, x, y)'
            OBVIOUS
        <3>1. connections[x][s[y]] = y /\ s[y] \in Ids
            BY SlotFacts DEF Connects
        <3>2. connections'[x][s[y]] = y
            <4>1. CASE x = n
                BY <2>2, <3>1, <4>1
            <4>2. CASE x # n
                BY <2>2, <3>1, <4>2
            <4> QED
                BY <4>1, <4>2
        <3> QED
            BY <1>2, <3>2 DEF Connects
    <2>9. ASSUME NEW x \in Nodes, NEW y \in Nodes, Running(x)', Running(y)'
          PROVE  StaysListed(s, x, y)' /\ LinkOK(s, x, y)'
        <3>1. Running(x) /\ Running(y) /\ StaysListed(s, x, y) /\ LinkOK(s, x, y)
            BY <2>5, <2>9 DEF SlotsOK
        <3>2. StaysListed(s, x, y)'
            BY <1>2, <2>1, <2>5, <3>1 DEF StaysListed
        <3>3. CASE x = n /\ connections[n][i] = y
            <4>1. At(n, y) = {i} /\ Queued(n, y) = {} /\ y \notin unread[n]
                <5>1. i \in At(n, y)
                    BY <3>3 DEF At
                <5>2. AtMostOne(n, y)
                    BY DEF AllOnce
                <5> QED
                    BY <5>1, <5>2 DEF AtMostOne
            <4>2. At(n, y)' = {}
                BY <2>2, <2>3, <3>3, <4>1 DEF At
            <4>3. LinkOK(s, n, y)'
                BY <2>1, <2>3, <4>1, <4>2 DEF LinkOK
            <4> QED
                BY <3>2, <3>3, <4>3
        <3>4. CASE y = n /\ connections[n][i] = x
            <4>1. ~ Holds(x, n)
                BY <1>2, <3>4 DEF Broken
            <4>2. /\ n \notin Range(connections[x])
                  /\ n \notin Range(pending[x]) /\ n \notin unread[x]
                BY <3>1, <4>1 DEF Holds
            <4>3. At(x, n) = {}
                BY <1>1, <4>2 DEF Range, At, ConnTypes, Directories
            <4>4. Queued(x, n) = {}
                BY <4>2 DEF Range, Queued
            <4>5. At(x, n)' = {} /\ Queued(x, n)' = {} /\ n \notin unread'[x]
                BY <2>1, <2>3, <4>2, <4>3, <4>4
            <4>6. LinkOK(s, x, n)'
                BY <4>5 DEF LinkOK
            <4> QED
                BY <3>2, <3>4, <4>6
        <3>5. CASE ~ (x = n /\ connections[n][i] = y) /\ ~ (y = n /\ connections[n][i] = x)
            <4>1. /\ Connects(s, x, y) => Connects(s, x, y)'
                  /\ Connects(s, y, x) => Connects(s, y, x)'
                BY <2>8, <3>5
            <4>2. At(x, y)' \subseteq At(x, y) /\ Queued(x, y)' = Queued(x, y) /\ unread' = unread
                BY <2>1, <2>3
            <4>3. LinkOK(s, x, y)'
                BY <2>5, <3>1, <4>1, <4>2 DEF LinkOK
            <4> QED
                BY <3>2, <4>3
        <3> QED
            BY <3>3, <3>4, <3>5
    <2> QED
        BY <2>4, <2>6, <2>7, <2>9 DEF SlotsOK
<1> QED
    BY <1>3, <1>4

\* The steps of a thread that change no connection, directory or message.
LEMMA QuietStep ==
    ASSUME TypeOK, NetInv, NEW s \in [Nodes -> Slots], SlotsOK(s), AllOnce,
           \/ \E n \in Nodes : SendRegister(n) \/ Identify(n) \/ ConnectDone(n)
           \/ \E p \in Procs : SetFull(p) \/ AppStep(p)
           \/ UNCHANGED vars
    PROVE  SlotsOK(s)' /\ AllOnce'
<1> USE ProcFacts, IdFacts
<1>1. NetTypes /\ id \in [Procs -> Ids \cup {NoId}]
    BY TypeParts DEF NetTypes
<1>2. UNCHANGED <<connections, pending, unread, inbox, directory, stopped>>
    BY DEF SendRegister, Identify, ConnectDone, SetFull, AppStep, CheckFull, CheckId, Sleep, vars
<1>3. \A m \in Nodes : Running(m) =>
          /\ Told(m) => Placed(s, m)
          /\ id[m] \in {NoId, s[m]}
          /\ net[m].pc \in {"setFull", "identify"} => net[m].i = s[m]
          /\ net[m].pc = "mesh" => id[m] = s[m] /\ net[m].i > s[m]
    BY DEF SlotsOK, NodeOK
<1> DEFINE Thread(m) == /\ net'[m].pc = "off" <=> net[m].pc = "off"
                        /\ Told(m)' => Told(m)
                        /\ id'[m] \in {NoId, s[m]}
                        /\ net'[m].pc \in {"setFull", "identify"} => net'[m].i = s[m]
                        /\ net'[m].pc = "mesh" => id'[m] = s[m] /\ net'[m].i > s[m]
<1>4. \A m \in Nodes : Running(m) /\ net'[m] = net[m] /\ id'[m] = id[m] => Thread(m)
    BY <1>2, <1>3 DEF Told
<1>5. ASSUME NEW n \in Nodes, SendRegister(n) PROVE \A m \in Nodes : Running(m) => Thread(m)
    <2>1. id' = id /\ net[n].pc = "register" /\ net'[n].pc = "poll"
          /\ \A m \in Nodes : m # n => net'[m] = net[m]
        BY <1>1, <1>5 DEF SendRegister, NetTypes, Doing
    <2>2. Running(n) => Thread(n)
        BY <1>2, <1>3, <2>1 DEF Told
    <2> QED
        BY <1>4, <2>1, <2>2
<1>6. ASSUME NEW n \in Nodes, Identify(n) PROVE \A m \in Nodes : Running(m) => Thread(m)
    <2>1. /\ net[n].pc = "identify" /\ Running(n)
          /\ \/ net'[n].pc = "poll" /\ id'[n] = net[n].i
             \/ /\ id[n] # NoId /\ net'[n].pc = "mesh" /\ id'[n] = id[n]
                /\ net'[n].i = id[n] + 1
          /\ \A m \in Nodes : m # n => net'[m] = net[m] /\ id'[m] = id[m]
        <3>1. CASE id[n] = NoId
            BY <1>1, <1>6, <3>1 DEF Identify, NetTypes, Doing
        <3>2. CASE id[n] # NoId
            BY <1>1, <1>6, <3>2 DEF Identify, NetTypes, Doing
        <3> QED
            BY <3>1, <3>2
    <2>2. s[n] \in Ids /\ s[n] \in Nat
        BY SlotFacts
    <2>3. Thread(n)
        <3>1. net[n].i = s[n] /\ id[n] \in {NoId, s[n]} /\ Told(n)
            BY <1>3, <2>1 DEF Told
        <3>2. s[n] + 1 > s[n]
            BY <2>2
        <3>3. CASE net'[n].pc = "poll" /\ id'[n] = net[n].i
            BY <2>1, <3>1, <3>3
        <3>4. CASE /\ id[n] # NoId /\ net'[n].pc = "mesh" /\ id'[n] = id[n]
                   /\ net'[n].i = id[n] + 1
            <4>1. id'[n] = s[n] /\ net'[n].i > s[n]
                BY <3>1, <3>2, <3>4
            <4> QED
                BY <2>1, <3>1, <3>4, <4>1
        <3> QED
            BY <2>1, <3>3, <3>4
    <2> QED
        BY <1>4, <2>1, <2>3
<1>7. ASSUME NEW n \in Nodes, ConnectDone(n) PROVE \A m \in Nodes : Running(m) => Thread(m)
    <2>1. id' = id /\ net[n].pc = "mesh" /\ net'[n].pc = "poll"
          /\ \A m \in Nodes : m # n => net'[m] = net[m]
        BY <1>1, <1>7 DEF ConnectDone, NetTypes, Doing
    <2>2. Running(n) => Thread(n)
        BY <1>2, <1>3, <2>1 DEF Told
    <2> QED
        BY <1>4, <2>1, <2>2
<1>8. ASSUME NEW p \in Procs, SetFull(p) PROVE \A m \in Nodes : Running(m) => Thread(m)
    <2>1. id' = id /\ net[p].pc = "setFull" /\ \A m \in Nodes : m # p => net'[m] = net[m]
        BY <1>1, <1>8 DEF SetFull, NetTypes
    <2>2. p \in Nodes => net'[p].pc = "identify" /\ net'[p].i = net[p].i
        BY <1>1, <1>8 DEF SetFull, NetTypes, Doing
    <2>3. p \in Nodes /\ Running(p) => Thread(p)
        BY <1>2, <1>3, <2>1, <2>2 DEF Told
    <2> QED
        BY <1>4, <2>1, <2>3
<1>9. ASSUME (\E p \in Procs : AppStep(p)) \/ UNCHANGED vars
      PROVE  \A m \in Nodes : Running(m) => Thread(m)
    <2>1. id' = id /\ net' = net
        BY <1>9 DEF AppStep, CheckFull, CheckId, Sleep, vars
    <2> QED
        BY <1>4, <2>1
<1>10. \A m \in Nodes : Running(m) => Thread(m)
    BY <1>5, <1>6, <1>7, <1>8, <1>9
<1> QED
    BY <1>2, <1>10, ThreadStep

-----------------------------------------------------------------------------
\* The theorems.

LEMMA InitInv == Init => MembershipInv
<1> USE ProcFacts, IdFacts
<1> SUFFICES ASSUME Init PROVE MembershipInv
    OBVIOUS
<1>1. NoConnections \in Directories /\ \A i \in Ids : NoConnections[i] = None
    BY DEF NoConnections, Directories
<1>2. <<>> \in Seq(Nodes) /\ <<>> \in Seq(Letters)
    OBVIOUS
<1>3. /\ \A p \in Procs : connections[p] = NoConnections /\ pending[p] = <<>> /\ unread[p] = {}
      /\ \A n \in Nodes : /\ inbox[n] = <<>> /\ directory[n] = NoConnections
                          /\ id[n] = NoId /\ net[n].pc = "off"
      /\ \A i \in Ids : directory[Registrar][i] = IF i = 0 THEN Registrar ELSE None
      /\ id[Registrar] = 0 /\ net[Registrar].pc = "poll"
    BY <1>1 DEF Init, Doing, Directories
<1>4. TypeOK
    <2>1. ConnTypes
        BY <1>1, <1>2 DEF Init, ConnTypes
    <2>2. directory \in [Procs -> Directories]
        BY <1>1 DEF Init, Directories
    <2>3. failures \in 0 .. MaxFailures
        BY FailuresAssumption DEF Init
    <2>4. id \in [Procs -> Ids \cup {NoId}]
        BY DEF Init
    <2> QED
        BY <2>1, <2>2, <2>3, <2>4, TypeParts DEF Init, Doing
<1>5. NetInv
    BY <1>3 DEF NetInv
<1>6. \A p \in Procs : \A n \in Nodes : At(p, n) = {} /\ Queued(p, n) = {} /\ n \notin unread[p]
    <2>1. ASSUME NEW p \in Procs, NEW n \in Nodes
          PROVE  At(p, n) = {} /\ n \notin unread[p]
        <3>1. \A i \in Ids : connections[p][i] # n
            BY <1>1, <1>3
        <3>2. unread[p] = {}
            BY <1>3
        <3> QED
            BY <3>1, <3>2 DEF At
    <2>2. DOMAIN <<>> = {}
        OBVIOUS
    <2>3. \A p \in Procs : \A n \in Nodes : Queued(p, n) = {}
        BY <1>3, <2>2 DEF Queued
    <2> QED
        BY <2>1, <2>3
<1>7. AllOnce
    BY <1>6 DEF AllOnce, AtMostOne
<1>8. 1 \in Slots
    BY ConnectionsAssumption DEF Slots, Ids
<1>9. PICK s \in [Nodes -> Slots] : s = [n \in Nodes |-> 1]
    BY <1>8
<1>10. RegistrarOK(s)
    BY <1>1, <1>3 DEF RegistrarOK, DirectoryOK, Slots
<1>11. ASSUME NEW n \in Nodes
       PROVE  NodeOK(s, n)
    <2>1. DirectoryOK(s, directory[n])
        BY <1>1, <1>3 DEF DirectoryOK
    <2>2. ~ Told(n)
        BY <1>3 DEF Told
    <2>3. \A i \in Ids : connections[Registrar][i] = n => i = s[n]
        BY <1>1, <1>3
    <2> QED
        BY <1>3, <1>6, <2>1, <2>2, <2>3 DEF NodeOK
<1>12. ASSUME NEW p \in Nodes, NEW q \in Nodes
       PROVE  StaysListed(s, p, q) /\ LinkOK(s, p, q)
    <2>1. s[q] \in Ids
        BY SlotFacts
    <2>2. directory[p][s[q]] # q /\ DOMAIN inbox[p] = {}
        <3>1. directory[p] = NoConnections /\ NoConnections[s[q]] = None
            BY <1>1, <1>3, <2>1
        <3>2. inbox[p] = <<>>
            BY <1>3
        <3> QED
            BY <3>1, <3>2
    <2>3. StaysListed(s, p, q)
        BY <2>2 DEF StaysListed
    <2> QED
        BY <1>6, <2>3 DEF LinkOK
<1>13. SlotsOK(s)
    BY <1>10, <1>11, <1>12 DEF SlotsOK
<1> QED
    BY <1>4, <1>5, <1>7, <1>13 DEF MembershipInv

LEMMA InductiveStep == MembershipInv /\ [Next]_vars => MembershipInv'
<1> USE ProcFacts
<1> SUFFICES ASSUME MembershipInv, [Next]_vars PROVE MembershipInv'
    OBVIOUS
<1>1. TypeOK /\ NetInv /\ AllOnce
    BY DEF MembershipInv
<1>2. TypeOK' /\ NetInv'
    BY <1>1, TypeStep
<1>3. PICK s \in [Nodes -> Slots] : SlotsOK(s)
    BY DEF MembershipInv
<1>4. ConnTypes /\ NetTypes
    BY <1>1, TypeParts DEF NetTypes
<1>5. SlotsOK(s)' /\ AllOnce' => MembershipInv'
    BY <1>2 DEF MembershipInv
<1>6. ASSUME NEW n \in Nodes, Start(n) PROVE MembershipInv'
    BY <1>1, <1>3, <1>4, <1>5, <1>6, StartStep
<1>7. ASSUME NEW i \in Ids, HandleRegister(i) PROVE MembershipInv'
    BY <1>1, <1>3, <1>5, <1>7, RegisterStep
<1>8. ASSUME NEW n \in Nodes, HandleDirectory(n) PROVE MembershipInv'
    BY <1>1, <1>3, <1>5, <1>8, DirectoryStep
<1>9. ASSUME NEW n \in Nodes, ConnectNext(n) PROVE MembershipInv'
    BY <1>1, <1>3, <1>5, <1>9, ConnectStep
<1>10. ASSUME NEW p \in Procs, AddNewConnection(p) PROVE MembershipInv'
    <2>1. CASE p \in Nodes
        BY <1>1, <1>3, <1>5, <1>10, <2>1, AcceptNodeStep
    <2>2. CASE p = Registrar
        <3>1. (\E t \in [Nodes -> Slots] : SlotsOK(t)') /\ AllOnce'
            BY <1>1, <1>3, <1>10, <2>2, AcceptRegistrarStep
        <3> QED
            BY <1>2, <3>1 DEF MembershipInv
    <2> QED
        BY <2>1, <2>2
<1>11. ASSUME NEW i \in Ids, RegistrarReadsClosed(i) PROVE MembershipInv'
    BY <1>1, <1>3, <1>5, <1>11, RegistrarClosedStep
<1>12. ASSUME NEW n \in Nodes, NEW i \in Ids, NodeReadsClosed(n, i) PROVE MembershipInv'
    BY <1>1, <1>3, <1>5, <1>12, NodeClosedStep
<1>13. ASSUME NEW p \in Procs, Fail(p) PROVE MembershipInv'
    <2>1. Ends(p, "failure") /\ UNCHANGED <<directory, id>>
          /\ \A n \in Nodes \ {p} : net'[n] = net[n]
        BY <1>13 DEF Fail
    <2> QED
        BY <1>1, <1>3, <1>4, <1>5, <2>1, EndsStep
<1>14. ASSUME \/ \E n \in Nodes : SendRegister(n) \/ Identify(n) \/ ConnectDone(n)
              \/ \E p \in Procs : SetFull(p) \/ AppStep(p)
              \/ UNCHANGED vars
       PROVE  MembershipInv'
    BY <1>1, <1>3, <1>5, <1>14, QuietStep
<1>15. Apps \subseteq Procs
    BY AppsAssumption
<1> QED
    BY <1>6, <1>7, <1>8, <1>9, <1>10, <1>11, <1>12, <1>13, <1>14, <1>15
    DEF Next, RegistrarStep, NodeStep, ReadClosed

LEMMA Invariant == Spec => []MembershipInv
BY InitInv, InductiveStep, PTL DEF Spec

\* Every variable keeps its type; in particular the slots, the ids and the
\* targets of messages stay below max_connections.
THEOREM TypeCorrect == Spec => []TypeOK
<1>1. MembershipInv => TypeOK
    BY DEF MembershipInv
<1> QED
    BY <1>1, Invariant, PTL

\* A node's id is the slot in which the registrar holds its connection, for
\* any number of nodes that start and fail in any order
\* (distributed_app_network_layer.cpp:249-255).
THEOREM IdFromRegistrar == Spec => []IdIsRegistrarsSlot
<1>1. MembershipInv => IdIsRegistrarsSlot
    <2> SUFFICES ASSUME MembershipInv, NEW n \in Nodes,
                        Running(n), Running(Registrar), id[n] # NoId
                 PROVE  connections[Registrar][id[n]] = n
        BY DEF IdIsRegistrarsSlot
    <2>1. PICK s \in [Nodes -> Slots] : SlotsOK(s)
        BY DEF MembershipInv
    <2>2. NodeOK(s, n)
        BY <2>1 DEF SlotsOK
    <2>3. id[n] = s[n] /\ Placed(s, n)
        BY <2>2 DEF NodeOK, Told
    <2> QED
        BY <2>3 DEF Placed
<1> QED
    BY <1>1, Invariant, PTL

\* Two processes never have two connections, whatever the order in which they
\* hear of each other (distributed_app_network_layer.cpp:257-267,
\* socket_network.cpp:235-238).
THEOREM OnePerPair == Spec => []OneConnection
<1>1. MembershipInv => OneConnection
    <2> SUFFICES ASSUME MembershipInv, NEW p \in Procs, NEW n \in Nodes
                 PROVE  Cardinality(At(p, n)) + Cardinality(Queued(p, n))
                            + (IF n \in unread[p] THEN 1 ELSE 0) <= 1
        BY DEF OneConnection, At, Queued
    <2>1. AtMostOne(p, n)
        BY DEF MembershipInv, AllOnce
    <2>2. /\ At(p, n) = {} \/ \E i : At(p, n) = {i}
          /\ Queued(p, n) = {} \/ \E k : Queued(p, n) = {k}
        BY <2>1 DEF AtMostOne
    <2>3. \A S : (S = {} => Cardinality(S) = 0) /\ (\A x : S = {x} => Cardinality(S) = 1)
        BY FS_EmptySet, FS_Singleton
    <2>4. \/ At(p, n) = {} /\ Cardinality(At(p, n)) = 0
          \/ At(p, n) # {} /\ Cardinality(At(p, n)) = 1
        BY <2>2, <2>3
    <2>5. \/ Queued(p, n) = {} /\ Cardinality(Queued(p, n)) = 0
          \/ Queued(p, n) # {} /\ Cardinality(Queued(p, n)) = 1
        BY <2>2, <2>3
    <2> QED
        BY <2>1, <2>4, <2>5 DEF AtMostOne
<1> QED
    BY <1>1, Invariant, PTL
=============================================================================
