-------------------------- MODULE DistributedStore --------------------------
(***************************************************************************)
(* The key-value stores of all nodes and the messages between them         *)
(* (key_value_store.cpp, application_network_interface.cpp and the two     *)
(* message managers, local_ and socket_network_msg_manager.cpp).           *)
(*                                                                         *)
(* With the socket transport a message to a node travels on the connection *)
(* to it, which keeps the order of its own messages only, and the node's   *)
(* network thread handles it later.  With the local transport the sender's *)
(* thread runs the receiver's handler before the send returns.             *)
(*                                                                         *)
(* A segment is its key <<k, s>>: suffix s of value k (DistributedValue    *)
(* models the rows inside).  A node's application thread either produces a *)
(* value, or reads segments of values it knows, or waits for a reply.      *)
(***************************************************************************)
EXTENDS Integers, Sequences, FiniteSets

CONSTANTS
    NumNodes,      \* KeyValueStore::num_nodes
    Keys,          \* names of the distributed values
    Owner,         \* [key -> the node whose application produces the value]
    NumSegments,   \* [key -> number of segments of its value]
    Socket,        \* TRUE: socket transport, FALSE: local transport
    Readers,       \* bound: the nodes whose application reads
    MaxCrashes,    \* bound: nodes that may fail
    SpuriousWakeups,   \* may a condition variable wake without a notify?
    Nothing

Nodes == 0 .. NumNodes - 1

ASSUME NumNodesAssumption == NumNodes \in Nat \ {0}
ASSUME OwnerAssumption    == Owner \in [Keys -> Nodes]
ASSUME SegmentsAssumption == NumSegments \in [Keys -> Nat]
ASSUME SocketAssumption   == Socket \in BOOLEAN /\ MaxCrashes \in Nat
ASSUME ReadersAssumption  == Readers \subseteq Nodes
ASSUME WakeupAssumption   == SpuriousWakeups \in BOOLEAN

VARIABLES
    kv_map,          \* [node -> keys whose DistributedValue it has]
    distro_kv_map,   \* [node -> segments stored on it]
    reply_queue,     \* [node -> segments of the replies not yet taken]
    channel,         \* [sender -> [receiver -> messages on the connection]]
    app,             \* [node -> what its application thread is doing]
    produced,        \* keys whose production has begun
    got,             \* [node -> <<segment asked for, segment received>>]
    notifying,       \* nodes whose network thread has queued a reply and not
                     \* yet notified reply_signal
    stopped          \* [node -> why its process ended, "no" while it runs]

vars == <<kv_map, distro_kv_map, reply_queue, channel, app, produced, got,
          notifying, stopped>>

Running(n) == stopped[n] = "no"

AllSegments == UNION {{k} \X (0 .. NumSegments[k] - 1) : k \in Keys}
HomeId(seg) == seg[2] % NumNodes

Put(x)         == [kind |-> "Put", seg |-> x]
PutValue(k)    == [kind |-> "PutValue", seg |-> <<k, 0>>]
WaitAndGet(x)  == [kind |-> "WaitAndGet", seg |-> x]
Reply(x)       == [kind |-> "Reply", seg |-> x]

\* pc: idle; producing the segments of seg[1] from seg[2] on; broadcasting
\* its value to the nodes from seg[2] on; or reading seg: about to look for the
\* reply (await), about to sleep (wait), asleep, about to take it (take).
Thread(pc, k, i) == [pc |-> pc, seg |-> <<k, i>>]
Idle == [pc |-> "idle", seg |-> Nothing]

Init ==
    /\ kv_map = [n \in Nodes |-> {}]
    /\ distro_kv_map = [n \in Nodes |-> {}]
    /\ reply_queue = [n \in Nodes |-> <<>>]
    /\ channel = [i \in Nodes |-> [j \in Nodes |-> <<>>]]
    /\ app = [n \in Nodes |-> Idle]
    /\ produced = {}
    /\ got = [n \in Nodes |-> Nothing]
    /\ notifying = {}
    /\ stopped = [n \in Nodes |-> "no"]

-----------------------------------------------------------------------------
\* The state changes of a node's handlers, with whatever thread runs them.

StoreDf(n, seg) ==
    /\ distro_kv_map' = [distro_kv_map EXCEPT ![n] = @ \cup {seg}]
    /\ UNCHANGED <<kv_map, reply_queue>>

StoreValue(n, k) ==
    /\ kv_map' = [kv_map EXCEPT ![n] = @ \cup {k}]
    /\ UNCHANGED <<distro_kv_map, reply_queue>>

\* Faulty: the reply is dropped.
QueueReplyLost(n, seg) == UNCHANGED <<kv_map, distro_kv_map, reply_queue>>

QueueReply(n, seg) ==
    /\ reply_queue' = [reply_queue EXCEPT ![n] = Append(@, seg)]
    /\ UNCHANGED <<kv_map, distro_kv_map>>

\* Faulty: the connection does not keep the order.
SendReordered(i, j, msg) ==
    /\ channel' = IF ~ Running(j) THEN channel
                  ELSE [channel EXCEPT ![i][j] = <<msg>> \o @]
    /\ UNCHANGED <<kv_map, distro_kv_map, reply_queue>>

\* A message to a node that is gone is dropped: send_message sends nothing
\* on a connection that was closed.
Send(i, j, msg) ==
    /\ channel' = IF ~ Running(j) THEN channel
                  ELSE [channel EXCEPT ![i][j] = Append(@, msg)]
    /\ UNCHANGED <<kv_map, distro_kv_map, reply_queue>>

\* A failed assert ends the process: one node, or all of them when they are
\* threads of one program.
AssertFails(n) ==
    /\ stopped' = IF Socket THEN [stopped EXCEPT ![n] = "assert"]
                  ELSE [i \in Nodes |-> "assert"]
    /\ UNCHANGED <<kv_map, distro_kv_map, reply_queue, channel>>

-----------------------------------------------------------------------------
\* The application threads.

\* from_array, from_scalar and from_visitor: add the rows, package the value.
StartProducing(n, k) ==
    /\ Running(n) /\ app[n] = Idle
    /\ k \notin produced /\ Owner[k] = n
    /\ produced' = produced \cup {k}
    /\ app' = [app EXCEPT ![n] = Thread("produce", k, 0)]
    /\ UNCHANGED <<kv_map, distro_kv_map, reply_queue, channel, got, notifying, stopped>>

\* Faulty: one segment too many.
PutDfTooMany(n) ==
    /\ Running(n) /\ app[n].pc = "produce"
    /\ LET seg == app[n].seg
       IN  /\ seg[2] <= NumSegments[seg[1]]
           /\ StoreDf(HomeId(seg), seg)
           /\ app' = [app EXCEPT ![n] = Thread("produce", seg[1], seg[2] + 1)]
    /\ UNCHANGED <<channel, produced, got, notifying, stopped>>

\* put_df for the next segment of the value being built.
PutDf(n) ==
    /\ Running(n) /\ app[n].pc = "produce"
    /\ LET seg == app[n].seg
           home == HomeId(seg)
       IN  /\ seg[2] < NumSegments[seg[1]]
           /\ \/ home = n /\ StoreDf(n, seg) /\ UNCHANGED channel
              \/ home # n /\ ~ Socket /\ StoreDf(home, seg) /\ UNCHANGED channel
              \/ home # n /\ Socket /\ Send(n, home, Put(seg))
           /\ app' = [app EXCEPT ![n] = Thread("produce", seg[1], seg[2] + 1)]
    /\ UNCHANGED <<produced, got, notifying, stopped>>

\* Faulty: the value is put before its last segment.
PutOwnValueEarly(n) ==
    /\ Running(n) /\ app[n].pc = "produce"
    /\ LET k == app[n].seg[1]
       IN  /\ StoreValue(n, k)
           /\ app' = [app EXCEPT ![n] = Thread("broadcast", k, 0)]
    /\ UNCHANGED <<channel, produced, got, notifying, stopped>>

\* package_value: the value is put on the node itself ...
PutOwnValue(n) ==
    /\ Running(n) /\ app[n].pc = "produce"
    /\ LET k == app[n].seg[1]
       IN  /\ app[n].seg[2] = NumSegments[k]
           /\ StoreValue(n, k)
           /\ app' = [app EXCEPT ![n] = Thread("broadcast", k, 0)]
    /\ UNCHANGED <<channel, produced, got, notifying, stopped>>

\* Faulty: the broadcast leaves out the last node.
BroadcastValueShort(n) ==
    /\ Running(n) /\ app[n].pc = "broadcast"
    /\ LET k == app[n].seg[1]
           to == app[n].seg[2]
       IN  /\ \/ to = n /\ UNCHANGED <<kv_map, distro_kv_map, reply_queue, channel>>
              \/ to # n /\ ~ Socket /\ StoreValue(to, k) /\ UNCHANGED channel
              \/ to # n /\ Socket /\ Send(n, to, PutValue(k))
           /\ app' = [app EXCEPT ![n] = IF to + 2 >= NumNodes THEN Idle
                                        ELSE Thread("broadcast", k, to + 1)]
    /\ UNCHANGED <<produced, got, notifying, stopped>>

\* ... and broadcast to the others, one after the other.
BroadcastValue(n) ==
    /\ Running(n) /\ app[n].pc = "broadcast"
    /\ LET k == app[n].seg[1]
           to == app[n].seg[2]
       IN  /\ \/ to = n /\ UNCHANGED <<kv_map, distro_kv_map, reply_queue, channel>>
              \/ to # n /\ ~ Socket /\ StoreValue(to, k) /\ UNCHANGED channel
              \/ to # n /\ Socket /\ Send(n, to, PutValue(k))
           /\ app' = [app EXCEPT ![n] = IF to + 1 = NumNodes THEN Idle
                                        ELSE Thread("broadcast", k, to + 1)]
    /\ UNCHANGED <<produced, got, notifying, stopped>>

\* An application reads segments of a value it has: wait_and_get returned it.

\* wait_and_get_df of a segment whose home is this node.
GetOwnDf(n, seg) ==
    /\ Running(n) /\ app[n] = Idle
    /\ seg[1] \in kv_map[n] /\ HomeId(seg) = n
    /\ IF seg \in distro_kv_map[n]
       THEN /\ got' = [got EXCEPT ![n] = <<seg, seg>>]
            /\ UNCHANGED <<kv_map, distro_kv_map, reply_queue, channel, stopped>>
       ELSE AssertFails(n) /\ UNCHANGED got
    /\ UNCHANGED <<app, produced, notifying>>

\* wait_and_get_df of a segment of another node: send_waitandget, which with
\* the local transport also runs get_local_df there and handle_reply here.
RequestDf(n, seg) ==
    /\ Running(n) /\ app[n] = Idle
    /\ seg[1] \in kv_map[n] /\ HomeId(seg) # n
    /\ \/ Socket /\ Send(n, HomeId(seg), WaitAndGet(seg)) /\ UNCHANGED stopped
       \/ /\ ~ Socket
          /\ IF seg \in distro_kv_map[HomeId(seg)]
             THEN QueueReply(n, seg) /\ UNCHANGED <<channel, stopped>>
             ELSE AssertFails(n)
    /\ app' = [app EXCEPT ![n] = Thread("await", seg[1], seg[2])]
    /\ UNCHANGED <<produced, got, notifying>>

\* wait_for_reply: look into the queue ...
CheckReply(n) ==
    /\ Running(n) /\ app[n].pc = "await"
    /\ app' = [app EXCEPT ![n].pc = IF reply_queue[n] = <<>> THEN "wait" ELSE "take"]
    /\ UNCHANGED <<kv_map, distro_kv_map, reply_queue, channel, produced, got,
                   notifying, stopped>>

\* ... and, without the lock and without looking again, sleep.
SleepForReply(n) ==
    /\ Running(n) /\ app[n].pc = "wait"
    /\ app' = [app EXCEPT ![n].pc = "asleep"]
    /\ UNCHANGED <<kv_map, distro_kv_map, reply_queue, channel, produced, got,
                   notifying, stopped>>

WakeSpuriously(n) ==
    /\ SpuriousWakeups
    /\ Running(n) /\ app[n].pc = "asleep"
    /\ app' = [app EXCEPT ![n].pc = "take"]
    /\ UNCHANGED <<kv_map, distro_kv_map, reply_queue, channel, produced, got,
                   notifying, stopped>>

\* Faulty: the reply stays in the queue.
TakeReplyTwice(n) ==
    /\ Running(n) /\ app[n].pc = "take"
    /\ reply_queue[n] # <<>>
    /\ got' = [got EXCEPT ![n] = <<app[n].seg, Head(reply_queue[n])>>]
    /\ app' = [app EXCEPT ![n] = Idle]
    /\ UNCHANGED <<kv_map, distro_kv_map, reply_queue, channel, produced,
                   notifying, stopped>>

\* get_reply and get_requested_dataframe: take the first reply, whichever it is.
TakeReply(n) ==
    /\ Running(n) /\ app[n].pc = "take"
    /\ reply_queue[n] # <<>>
    /\ got' = [got EXCEPT ![n] = <<app[n].seg, Head(reply_queue[n])>>]
    /\ reply_queue' = [reply_queue EXCEPT ![n] = Tail(@)]
    /\ app' = [app EXCEPT ![n] = Idle]
    /\ UNCHANGED <<kv_map, distro_kv_map, channel, produced, notifying, stopped>>

\* front and pop of an empty queue are undefined: nothing that follows means
\* anything, and the process is taken to end here.
TakeNoReply(n) ==
    /\ Running(n) /\ app[n].pc = "take"
    /\ reply_queue[n] = <<>>
    /\ stopped' = [stopped EXCEPT ![n] = "empty queue"]
    /\ UNCHANGED <<kv_map, distro_kv_map, reply_queue, channel, app, produced, got,
                   notifying>>

-----------------------------------------------------------------------------
\* The network thread of node j handles the next message of the connection
\* from node i.

Received(i, j, kind) ==
    /\ Running(j) /\ j \notin notifying
    /\ channel[i][j] # <<>>
    /\ Head(channel[i][j]).kind = kind

Msg(i, j) == Head(channel[i][j]).seg
Consumed(i, j) == [channel EXCEPT ![i][j] = Tail(@)]

HandlePut(i, j) ==
    /\ \/ Received(i, j, "Put") /\ StoreDf(j, Msg(i, j))
       \/ Received(i, j, "PutValue") /\ StoreValue(j, Msg(i, j)[1])
    /\ channel' = Consumed(i, j)
    /\ UNCHANGED <<app, produced, got, notifying, stopped>>


\* get_local_df asserts that the segment is there; send_reply answers.
HandleWaitAndGet(i, j) ==
    /\ Received(i, j, "WaitAndGet")
    /\ IF Msg(i, j) \in distro_kv_map[j]
       THEN /\ channel' = IF ~ Running(i) THEN Consumed(i, j)
                          ELSE [Consumed(i, j) EXCEPT ![j][i] = Append(@, Reply(Msg(i, j)))]
            /\ UNCHANGED <<kv_map, distro_kv_map, reply_queue, stopped>>
       ELSE AssertFails(j)
    /\ UNCHANGED <<app, produced, got, notifying>>

\* handle_reply queues the reply under reply_queue_lock ...
HandleReply(i, j) ==
    /\ Received(i, j, "Reply")
    /\ QueueReply(j, Msg(i, j))
    /\ channel' = Consumed(i, j)
    /\ notifying' = notifying \cup {j}
    /\ UNCHANGED <<app, produced, got, stopped>>

\* ... and notifies reply_signal after it: whoever sleeps at this moment wakes.
NotifyReader(n) ==
    /\ Running(n) /\ n \in notifying
    /\ notifying' = notifying \ {n}
    /\ app' = IF app[n].pc = "asleep" THEN [app EXCEPT ![n].pc = "take"] ELSE app
    /\ UNCHANGED <<kv_map, distro_kv_map, reply_queue, channel, produced, got, stopped>>

\* A node fails; what was sent to it is lost.
Crash(n) ==
    /\ Running(n)
    /\ Cardinality({i \in Nodes : stopped[i] = "failure"}) < MaxCrashes
    /\ stopped' = [stopped EXCEPT ![n] = "failure"]
    /\ channel' = [i \in Nodes |-> [channel[i] EXCEPT ![n] = <<>>]]
    /\ UNCHANGED <<kv_map, distro_kv_map, reply_queue, app, produced, got, notifying>>

-----------------------------------------------------------------------------
Produce(n) == PutDf(n) \/ PutOwnValue(n) \/ BroadcastValue(n)
AwaitReply(n) == CheckReply(n) \/ SleepForReply(n) \/ TakeReply(n) \/ TakeNoReply(n)
Network(j) ==
    \/ NotifyReader(j)
    \/ \E i \in Nodes : HandlePut(i, j) \/ HandleWaitAndGet(i, j) \/ HandleReply(i, j)

Next == \E n \in Nodes :
    \/ Produce(n) \/ AwaitReply(n) \/ Network(n)
    \/ WakeSpuriously(n) \/ Crash(n)
    \/ \E k \in Keys : StartProducing(n, k)
    \/ n \in Readers /\ \E seg \in AllSegments : GetOwnDf(n, seg) \/ RequestDf(n, seg)

Spec == Init /\ [][Next]_vars

\* Threads keep running inside put, package_value and wait_and_get_df, and TCP
\* delivers what is sent on an open connection.  The network thread looks at
\* every connection between two rounds of poll, so other connections, and the
\* notifies between, cannot keep a message waiting: strong fairness.  No
\* application is obliged to produce or to read.
FairSpec ==
    /\ Spec
    /\ \A n \in Nodes : WF_vars(Produce(n)) /\ WF_vars(AwaitReply(n))
    /\ \A j \in Nodes :
          /\ WF_vars(NotifyReader(j))
          /\ \A i \in Nodes \ {j} :
                SF_vars(HandlePut(i, j) \/ HandleWaitAndGet(i, j) \/ HandleReply(i, j))

-----------------------------------------------------------------------------
Messages ==
    [kind : {"Put", "WaitAndGet", "Reply"}, seg : AllSegments]
        \cup {PutValue(k) : k \in Keys}

Threads ==
    [pc : {"produce", "broadcast"}, seg : Keys \X Nat]
        \cup [pc : {"await", "wait", "asleep", "take"}, seg : AllSegments]
        \cup {Idle}

TypeOK ==
    /\ kv_map \in [Nodes -> SUBSET Keys]
    /\ distro_kv_map \in [Nodes -> SUBSET AllSegments]
    /\ reply_queue \in [Nodes -> Seq(AllSegments)]
    /\ channel \in [Nodes -> [Nodes -> Seq(Messages)]]
    /\ app \in [Nodes -> Threads]
    /\ produced \subseteq Keys
    /\ got \in [Nodes -> (AllSegments \X AllSegments) \cup {Nothing}]
    /\ notifying \subseteq Nodes
    /\ stopped \in [Nodes -> {"no", "assert", "empty queue", "failure"}]

\* When a node has a value, it has every segment of it that local_map on this
\* node must visit: the broadcast never overtakes the segments sent before it
\* (distributed_value.cpp:189-219, key_value_store.cpp:177-190).
LocalSegmentsComplete ==
    \A n \in Nodes, k \in Keys : k \in kv_map[n] =>
        \A s \in 0 .. NumSegments[k] - 1 :
            HomeId(<<k, s>>) = n => <<k, s>> \in distro_kv_map[n]

\* A reader gets the segment it asked for, although the key of a reply is not
\* compared with it (application_network_interface.cpp:98-117): late notifies,
\* nodes that stop and other readers never leave a reply behind for it.
ReplyAnswersRequest == \A n \in Nodes : got[n] # Nothing => got[n][1] = got[n][2]

\* No request meets a node that has not yet stored the segment: "we should
\* always have the dataframe associated with the key available"
\* (key_value_store.cpp:125-129 and 165-169).
NoAssertFails == \A n \in Nodes : stopped[n] # "assert"

\* wait_for_reply waits for a reply and ends when it is there.
ReadsEnd == \A n \in Nodes : app[n].pc \in {"await", "wait", "asleep"} ~> app[n].pc \in {"take", "idle"}

AsleepWithoutReply(n) == app[n].pc = "asleep" /\ reply_queue[n] = <<>>


\* A value whose production has begun becomes known to every node, unless a
\* node stops (broadcast_message, socket_network.cpp:278-285).
ValueReachesAll ==
    \A k \in Keys : k \in produced ~>
        \A n \in Nodes : k \in kv_map[n] \/ \E i \in Nodes : ~ Running(i)

\* The stores implement the write-once store of values: a key counts as
\* published from the moment its owner has put the finished value.
Abstract == INSTANCE ValueStore
    WITH published <- {k \in Keys : k \in kv_map[Owner[k]]}

ImplementsValueStore == Abstract!Spec
=============================================================================
