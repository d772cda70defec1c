------------------------ MODULE DistributedStoreProofs ------------------------
(***************************************************************************)
(* The stores of all nodes, for any number of nodes, values and segments,  *)
(* with either transport, spurious wakeups and any failures.  First, a     *)
(* node that has a value has all segments of the value whose home it is:   *)
(* on the connection from a producer to a home every segment is ahead of   *)
(* the value it belongs to.  Then what the applications can see: a reader  *)
(* gets the segment it asked for, because there is never more than one     *)
(* request or reply of a node under way, and it is for the segment its     *)
(* application waits for; and the stores implement the write-once store    *)
(* of values (ValueStore): every step of a node publishes a value, learns  *)
(* one, reads a segment, or changes nothing the applications can see.      *)
(***************************************************************************)
EXTENDS DistributedStore, NumberTheorems, SequenceTheorems

USE NumNodesAssumption, OwnerAssumption, SegmentsAssumption, SocketAssumption,
    ReadersAssumption, WakeupAssumption

\* Is there a message m among the first n of sequence c?
Among(m, c, n) == \E q \in 1 .. n : c[q] = m

\* In c every value comes after those of its segments with home j that are
\* not in D yet.
Ordered(c, D, j) ==
    \A k \in Keys, p \in 1 .. Len(c) : c[p] = PutValue(k) =>
        \A s \in 0 .. NumSegments[k] - 1 : HomeId(<<k, s>>) = j =>
            <<k, s>> \in D \/ Among(Put(<<k, s>>), c, p - 1)

\* A segment that node i has put is at its home j, or under way to it, or
\* lost because j is gone.
Underway(i, j, seg) == Among(Put(seg), channel[i][j], Len(channel[i][j]))
Arrives(i, j, seg) ==
    \/ seg \in distro_kv_map[j]
    \/ Socket /\ i # j /\ (~ Running(j) \/ Underway(i, j, seg))

PutUpTo(i, k, m) == \A s \in 0 .. m - 1 : Arrives(i, HomeId(<<k, s>>), <<k, s>>)

ProducerOK(n) ==
    LET k == app[n].seg[1]
        m == app[n].seg[2]
    IN  /\ app[n].pc = "produce" => m <= NumSegments[k] /\ PutUpTo(n, k, m)
        /\ app[n].pc = "broadcast" => m \in Nodes /\ PutUpTo(n, k, NumSegments[k])

ProducerInv == \A n \in Nodes : ProducerOK(n)

ChannelInv == \A i, j \in Nodes : Ordered(channel[i][j], distro_kv_map[j], j)

Inv == TypeOK /\ ProducerInv /\ ChannelInv /\ LocalSegmentsComplete
-----------------------------------------------------------------------------
\* Segments and messages.

LEMMA SegmentsOfKeys ==
    /\ \A k \in Keys : \A s \in 0 .. NumSegments[k] - 1 : <<k, s>> \in AllSegments
    /\ \A x \in AllSegments :
          /\ x \in Keys \X Nat
          /\ x[2] < NumSegments[x[1]]
          /\ x = <<x[1], x[2]>>
<1>1. ASSUME NEW k \in Keys, NEW s \in 0 .. NumSegments[k] - 1
      PROVE  <<k, s>> \in AllSegments
    BY DEF AllSegments
<1>2. ASSUME NEW x \in AllSegments
      PROVE  x \in Keys \X Nat /\ x[2] < NumSegments[x[1]] /\ x = <<x[1], x[2]>>
    <2>1. PICK k \in Keys : x \in {k} \X (0 .. NumSegments[k] - 1)
        BY DEF AllSegments
    <2> QED
        BY <2>1
<1> QED
    BY <1>1, <1>2

LEMMA HomeIsNode ==
    ASSUME NEW seg \in Keys \X Nat
    PROVE  HomeId(seg) \in Nodes
<1>1. seg[2] \in Nat
    OBVIOUS
<1> QED
    BY <1>1, DivMod DEF HomeId, Nodes

LEMMA KindsOfMessages ==
    /\ \A x \in AllSegments : {Put(x), WaitAndGet(x), Reply(x)} \subseteq Messages
    /\ \A k \in Keys : PutValue(k) \in Messages
    /\ \A x, k : {Put(x), WaitAndGet(x), Reply(x)} \cap {PutValue(k)} = {}
    /\ \A k1, k2 : PutValue(k1) = PutValue(k2) => k1 = k2
    /\ \A x, y : Put(x) = Put(y) => x = y
<1>1. \A x, k : PutValue(k).kind \notin {Put(x).kind, WaitAndGet(x).kind, Reply(x).kind}
    BY DEF Put, WaitAndGet, Reply, PutValue
<1>2. \A x : Put(x).seg = x
    BY DEF Put
<1>3. \A k : PutValue(k).seg[1] = k
    BY DEF PutValue
<1>4. \A k \in Keys : PutValue(k) \in Messages
    BY DEF Messages
<1>5. \A x \in AllSegments : {Put(x), WaitAndGet(x), Reply(x)} \subseteq Messages
    BY DEF Messages, Put, WaitAndGet, Reply
<1> QED
    BY <1>1, <1>2, <1>3, <1>4, <1>5

\* What the head of a connection says of the message the handlers read.
LEMMA HeadOfChannel ==
    ASSUME NEW c \in Seq(Messages), c # <<>>
    PROVE  /\ Head(c) \in Messages
           /\ Tail(c) \in Seq(Messages)
           /\ Head(c).kind # "PutValue" => Head(c).seg \in AllSegments
           /\ Head(c).kind = "PutValue" =>
                Head(c).seg[1] \in Keys /\ Head(c) = PutValue(Head(c).seg[1])
           /\ Head(c).kind = "Put" => Head(c) = Put(Head(c).seg)
<1>1. Head(c) \in Messages /\ Tail(c) \in Seq(Messages)
    BY HeadTailProperties
<1>2. CASE Head(c) \in [kind : {"Put", "WaitAndGet", "Reply"}, seg : AllSegments]
    BY <1>1, <1>2 DEF Put
<1>3. CASE \E k \in Keys : Head(c) = PutValue(k)
    BY <1>1, <1>3 DEF PutValue
<1> QED
    BY <1>1, <1>2, <1>3 DEF Messages

-----------------------------------------------------------------------------
\* Connections: what appending to, or taking from, a sequence does.

LEMMA AmongAppend ==
    ASSUME NEW c \in Seq(Messages), NEW e \in Messages, NEW m
    PROVE  /\ \A n \in 0 .. Len(c) : Among(m, c, n) => Among(m, Append(c, e), n)
           /\ Among(m, c, Len(c)) => Among(m, Append(c, e), Len(Append(c, e)))
           /\ Among(e, Append(c, e), Len(Append(c, e)))
BY AppendProperties, LenProperties DEF Among

LEMMA AmongTail ==
    ASSUME NEW c \in Seq(Messages), c # <<>>, NEW m, NEW n \in 0 .. Len(c),
           Among(m, c, n)
    PROVE  m = Head(c) \/ Among(m, Tail(c), n - 1)
<1>1. PICK q \in 1 .. n : c[q] = m
    BY DEF Among
<1>2. CASE q = 1
    BY <1>1, <1>2, HeadTailProperties
<1>3. CASE q # 1
    <2>1. q - 1 \in 1 .. n - 1 /\ q - 1 \in 1 .. Len(c) - 1
        BY <1>1, <1>3, LenProperties
    <2>2. Tail(c)[q - 1] = c[q]
        BY <2>1, HeadTailProperties, LenProperties
    <2> QED
        BY <1>1, <2>1, <2>2 DEF Among
<1> QED
    BY <1>2, <1>3

LEMMA OrderedMonotone ==
    ASSUME NEW c, NEW D, NEW E, NEW j, D \subseteq E, Ordered(c, D, j)
    PROVE  Ordered(c, E, j)
BY DEF Ordered

LEMMA OrderedAppend ==
    ASSUME NEW c \in Seq(Messages), NEW e \in Messages, NEW D, NEW j,
           Ordered(c, D, j),
           \A k \in Keys : e = PutValue(k) =>
               \A s \in 0 .. NumSegments[k] - 1 : HomeId(<<k, s>>) = j =>
                   <<k, s>> \in D \/ Among(Put(<<k, s>>), c, Len(c))
    PROVE  Ordered(Append(c, e), D, j)
<1> DEFINE d == Append(c, e)
<1>1. /\ Len(c) \in Nat /\ Len(d) = Len(c) + 1
      /\ \A p \in 1 .. Len(c) : d[p] = c[p]
      /\ d[Len(c) + 1] = e
    BY AppendProperties, LenProperties
<1>2. \A m : \A n \in 0 .. Len(c) : Among(m, c, n) => Among(m, d, n)
    BY AmongAppend
<1> HIDE DEF d
<1>3. SUFFICES ASSUME NEW k \in Keys, NEW p \in 1 .. Len(d), d[p] = PutValue(k),
                      NEW s \in 0 .. NumSegments[k] - 1, HomeId(<<k, s>>) = j
               PROVE  <<k, s>> \in D \/ Among(Put(<<k, s>>), d, p - 1)
    BY DEF Ordered, d
<1>4. <<k, s>> \in D \/ Among(Put(<<k, s>>), c, p - 1)
    <2>1. CASE p = Len(c) + 1
        BY <1>1, <1>3, <2>1
    <2>2. CASE p \in 1 .. Len(c)
        BY <1>1, <1>3, <2>2 DEF Ordered
    <2> QED
        BY <1>1, <2>1, <2>2
<1>5. p - 1 \in 0 .. Len(c)
    BY <1>1
<1>6. Among(Put(<<k, s>>), c, p - 1) => Among(Put(<<k, s>>), d, p - 1)
    BY <1>5, AmongAppend DEF d
<1> QED
    BY <1>4, <1>6

LEMMA OrderedTail ==
    ASSUME NEW c \in Seq(Messages), c # <<>>, NEW D, NEW E, NEW j,
           Ordered(c, D, j), D \subseteq E,
           \A x : Head(c) = Put(x) => x \in E
    PROVE  Ordered(Tail(c), E, j)
<1> DEFINE d == Tail(c)
<1>1. /\ Len(c) \in Nat \ {0} /\ Len(d) = Len(c) - 1
      /\ \A p \in 1 .. Len(d) : d[p] = c[p + 1]
    BY HeadTailProperties, LenProperties, EmptySeq
<1> HIDE DEF d
<1>2. SUFFICES ASSUME NEW k \in Keys, NEW p \in 1 .. Len(d), d[p] = PutValue(k),
                      NEW s \in 0 .. NumSegments[k] - 1, HomeId(<<k, s>>) = j
               PROVE  <<k, s>> \in E \/ Among(Put(<<k, s>>), d, p - 1)
    BY DEF Ordered, d
<1>3. p + 1 \in 1 .. Len(c) /\ c[p + 1] = PutValue(k) /\ p \in 0 .. Len(c)
    BY <1>1, <1>2
<1>4. <<k, s>> \in D \/ Among(Put(<<k, s>>), c, (p + 1) - 1)
    BY <1>2, <1>3 DEF Ordered
<1>5. CASE Among(Put(<<k, s>>), c, p)
    <2>1. Put(<<k, s>>) = Head(c) \/ Among(Put(<<k, s>>), d, p - 1)
        BY <1>3, <1>5, AmongTail DEF d
    <2> QED
        BY <2>1
<1> QED
    BY <1>3, <1>4, <1>5

-----------------------------------------------------------------------------
\* Type correctness.

LEMMA InitType == Init => TypeOK
BY EmptySeq DEF Init, TypeOK, Threads, Idle

\* A function keeps its type when one value is replaced.
LEMMA ExceptType ==
    ASSUME NEW S, NEW T, NEW f \in [S -> T], NEW i, NEW v, i \in S => v \in T
    PROVE  [f EXCEPT ![i] = v] \in [S -> T]
OBVIOUS

\* Nothing changes when the place is outside the domain.
LEMMA ExceptOutside ==
    ASSUME NEW S, NEW T, NEW f \in [S -> T], NEW i, NEW v, i \notin S
    PROVE  [f EXCEPT ![i] = v] = f
OBVIOUS

LEMMA ChannelType ==
    ASSUME TypeOK, NEW i \in Nodes, NEW j \in Nodes
    PROVE  channel[i] \in [Nodes -> Seq(Messages)] /\ channel[i][j] \in Seq(Messages)
<1>1. channel \in [Nodes -> [Nodes -> Seq(Messages)]]
    BY DEF TypeOK
<1>2. channel[i] \in [Nodes -> Seq(Messages)]
    BY <1>1
<1> QED
    BY <1>2

\* The state changes of the handlers keep the types.
LEMMA HandlerTypes ==
    ASSUME TypeOK, NEW n \in Nodes
    PROVE  /\ \A seg \in AllSegments : StoreDf(n, seg) =>
                distro_kv_map' \in [Nodes -> SUBSET AllSegments]
           /\ \A k \in Keys : StoreValue(n, k) => kv_map' \in [Nodes -> SUBSET Keys]
           /\ \A seg \in AllSegments : QueueReply(n, seg) =>
                reply_queue' \in [Nodes -> Seq(AllSegments)]
           /\ \A i \in Nodes, msg \in Messages : Send(i, n, msg) =>
                channel' \in [Nodes -> [Nodes -> Seq(Messages)]]
           /\ AssertFails(n) =>
                stopped' \in [Nodes -> {"no", "assert", "empty queue", "failure"}]
<1>1. ASSUME NEW seg \in AllSegments, StoreDf(n, seg)
      PROVE  distro_kv_map' \in [Nodes -> SUBSET AllSegments]
    <2> DEFINE T == SUBSET AllSegments
    <2>1. distro_kv_map \in [Nodes -> T]
        BY DEF TypeOK
    <2>2. distro_kv_map[n] \cup {seg} \in T
        BY <2>1
    <2> HIDE DEF T
    <2>3. [distro_kv_map EXCEPT ![n] = @ \cup {seg}] \in [Nodes -> T]
        BY <2>1, <2>2
    <2> QED
        BY <1>1, <2>3 DEF StoreDf, T
<1>2. ASSUME NEW k \in Keys, StoreValue(n, k)
      PROVE  kv_map' \in [Nodes -> SUBSET Keys]
    <2> DEFINE T == SUBSET Keys
    <2>1. kv_map \in [Nodes -> T]
        BY DEF TypeOK
    <2>2. kv_map[n] \cup {k} \in T
        BY <2>1
    <2> HIDE DEF T
    <2>3. [kv_map EXCEPT ![n] = @ \cup {k}] \in [Nodes -> T]
        BY <2>1, <2>2
    <2> QED
        BY <1>2, <2>3 DEF StoreValue, T
<1>3. ASSUME NEW seg \in AllSegments, QueueReply(n, seg)
      PROVE  reply_queue' \in [Nodes -> Seq(AllSegments)]
    <2>1. Append(reply_queue[n], seg) \in Seq(AllSegments)
        BY AppendProperties DEF TypeOK
    <2> QED
        BY <1>3, <2>1 DEF TypeOK, QueueReply
<1>4. ASSUME NEW i \in Nodes, NEW msg \in Messages, Send(i, n, msg)
      PROVE  channel' \in [Nodes -> [Nodes -> Seq(Messages)]]
    <2>1. Append(channel[i][n], msg) \in Seq(Messages)
        BY AppendProperties, ChannelType
    <2> QED
        <3>1. [channel EXCEPT ![i][n] = Append(@, msg)] \in [Nodes -> [Nodes -> Seq(Messages)]]
            BY <2>1 DEF TypeOK
        <3> QED
            BY <1>4, <3>1 DEF TypeOK, Send
<1>5. AssertFails(n) =>
          stopped' \in [Nodes -> {"no", "assert", "empty queue", "failure"}]
    BY DEF TypeOK, AssertFails
<1> QED
    BY <1>1, <1>2, <1>3, <1>4, <1>5

ReadingPcs == {"await", "wait", "asleep", "take"}

LEMMA ThreadFacts ==
    ASSUME TypeOK, NEW n \in Nodes
    PROVE  /\ app[n] = Idle \/ app[n].pc # "idle"
           /\ app[n].pc \in {"produce", "broadcast"} => app[n].seg \in Keys \X Nat
           /\ app[n].pc \in {"await", "wait", "asleep", "take"} => app[n].seg \in AllSegments
           /\ \A k \in Keys, i \in Nat :
                Thread("produce", k, i) \in Threads /\ Thread("broadcast", k, i) \in Threads
           /\ \A seg \in AllSegments : Thread("await", seg[1], seg[2]) \in Threads
           /\ Idle \in Threads
           /\ \A pc \in ReadingPcs : app[n].pc \in ReadingPcs =>
                [app[n] EXCEPT !.pc = pc] \in Threads
<1>1. app[n] \in Threads
    BY DEF TypeOK
<1>2. \A seg \in AllSegments : Thread("await", seg[1], seg[2]) \in Threads
    BY SegmentsOfKeys DEF Threads, Thread
<1>3. \A k \in Keys, i \in Nat :
          Thread("produce", k, i) \in Threads /\ Thread("broadcast", k, i) \in Threads
    BY DEF Threads, Thread
<1>4. ASSUME app[n].pc \in ReadingPcs
      PROVE  app[n] \in [pc : ReadingPcs, seg : AllSegments]
    BY <1>1, <1>4 DEF Threads, Idle, ReadingPcs
<1>5. \A r \in [pc : ReadingPcs, seg : AllSegments], pc \in ReadingPcs :
          [r EXCEPT !.pc = pc] \in [pc : ReadingPcs, seg : AllSegments]
    OBVIOUS
<1>6. [pc : ReadingPcs, seg : AllSegments] \subseteq Threads
    BY DEF Threads, ReadingPcs
<1> QED
    <2>1. \A pc \in ReadingPcs : app[n].pc \in ReadingPcs =>
              [app[n] EXCEPT !.pc = pc] \in Threads
        BY <1>4, <1>5, <1>6
    <2>2. /\ app[n] = Idle \/ app[n].pc # "idle"
          /\ app[n].pc \in {"produce", "broadcast"} => app[n].seg \in Keys \X Nat
          /\ app[n].pc \in {"await", "wait", "asleep", "take"} => app[n].seg \in AllSegments
          /\ Idle \in Threads
        BY <1>1 DEF Threads, Idle
    <2> QED
        BY <1>2, <1>3, <2>1, <2>2

LEMMA TypeStep == TypeOK /\ [Next]_vars => TypeOK'
<1> SUFFICES ASSUME TypeOK, [Next]_vars PROVE TypeOK'
    OBVIOUS
<1>1. ASSUME NEW n \in Nodes, NEW k \in Keys, StartProducing(n, k) PROVE TypeOK'
    BY <1>1, ThreadFacts DEF TypeOK, StartProducing
<1>2. ASSUME NEW n \in Nodes, PutDf(n) PROVE TypeOK'
    <2> DEFINE seg == app[n].seg
    <2>1. /\ seg \in Keys \X Nat /\ seg = <<seg[1], seg[2]>>
          /\ seg[2] \in 0 .. NumSegments[seg[1]] - 1
        BY <1>2, ThreadFacts DEF PutDf
    <2>2. seg \in AllSegments /\ Put(seg) \in Messages /\ HomeId(seg) \in Nodes
        BY <2>1, SegmentsOfKeys, KindsOfMessages, HomeIsNode
    <2>3. app' = [app EXCEPT ![n] = Thread("produce", seg[1], seg[2] + 1)]
        BY <1>2 DEF PutDf
    <2>4. app' \in [Nodes -> Threads]
        <3>1. Thread("produce", seg[1], seg[2] + 1) \in Threads
            BY <2>1, ThreadFacts
        <3> QED
            BY <2>3, <3>1, ExceptType DEF TypeOK
    <2>5. \/ StoreDf(n, seg) /\ UNCHANGED channel
          \/ StoreDf(HomeId(seg), seg) /\ UNCHANGED channel
          \/ Send(n, HomeId(seg), Put(seg))
        BY <1>2 DEF PutDf
    <2> HIDE DEF seg
    <2>6. /\ distro_kv_map' \in [Nodes -> SUBSET AllSegments]
          /\ channel' \in [Nodes -> [Nodes -> Seq(Messages)]]
          /\ UNCHANGED <<kv_map, reply_queue>>
        BY <2>2, <2>5, HandlerTypes DEF TypeOK, StoreDf, Send
    <2> QED
        BY <1>2, <2>4, <2>6 DEF TypeOK, PutDf
<1>3. ASSUME NEW n \in Nodes, PutOwnValue(n) PROVE TypeOK'
    <2>1. app[n].seg[1] \in Keys
        BY <1>3, ThreadFacts DEF PutOwnValue
    <2>2. app' \in [Nodes -> Threads]
        BY <1>3, <2>1, ThreadFacts DEF TypeOK, PutOwnValue
    <2>3. kv_map' \in [Nodes -> SUBSET Keys]
        BY <1>3, <2>1, HandlerTypes DEF PutOwnValue
    <2> QED
        BY <1>3, <2>2, <2>3 DEF TypeOK, PutOwnValue, StoreValue
<1>4. ASSUME NEW n \in Nodes, BroadcastValue(n) PROVE TypeOK'
    <2> DEFINE k == app[n].seg[1]
               to == app[n].seg[2]
    <2>1. k \in Keys /\ to \in Nat
        BY <1>4, ThreadFacts DEF BroadcastValue
    <2>2. \/ UNCHANGED <<kv_map, distro_kv_map, reply_queue, channel>>
          \/ StoreValue(to, k) /\ UNCHANGED channel
          \/ Send(n, to, PutValue(k))
        BY <1>4 DEF BroadcastValue
    <2>3. app' = [app EXCEPT ![n] = IF to + 1 = NumNodes THEN Idle
                                    ELSE Thread("broadcast", k, to + 1)]
        BY <1>4 DEF BroadcastValue
    <2> HIDE DEF k, to
    <2>4. app' \in [Nodes -> Threads]
        <3>1. Thread("broadcast", k, to + 1) \in Threads /\ Idle \in Threads
            BY <2>1, ThreadFacts
        <3> QED
            BY <2>3, <3>1, ExceptType DEF TypeOK
    <2>5. kv_map' \in [Nodes -> SUBSET Keys]
        <3>1. CASE to \in Nodes
            BY <2>1, <2>2, <3>1, HandlerTypes DEF TypeOK, Send
        <3>2. CASE to \notin Nodes
            <4>1. [kv_map EXCEPT ![to] = @ \cup {k}] = kv_map
                BY <3>2, ExceptOutside DEF TypeOK
            <4>2. kv_map' = kv_map
                BY <2>2, <4>1 DEF StoreValue, Send
            <4> QED
                BY <4>2 DEF TypeOK
        <3> QED
            BY <3>1, <3>2
    <2>6. channel' \in [Nodes -> [Nodes -> Seq(Messages)]]
        <3>1. CASE to \in Nodes
            BY <2>1, <2>2, <3>1, HandlerTypes, KindsOfMessages DEF TypeOK
        <3>2. CASE to \notin Nodes
            <4>1. ASSUME NEW m
                  PROVE  [channel EXCEPT ![n][to] = Append(@, m)] = channel
                <5>1. [channel[n] EXCEPT ![to] = Append(@, m)] = channel[n]
                    BY <3>2, ChannelType, ExceptOutside
                <5> QED
                    BY <5>1 DEF TypeOK
            <4> QED
                BY <2>2, <3>2, <4>1 DEF TypeOK, Send
        <3> QED
            BY <3>1, <3>2
    <2> QED
        BY <1>4, <2>2, <2>4, <2>5, <2>6 DEF TypeOK, BroadcastValue, StoreValue, Send
<1>5. ASSUME NEW n \in Nodes, NEW seg \in AllSegments, GetOwnDf(n, seg) PROVE TypeOK'
    <2>1. CASE seg \in distro_kv_map[n]
        <3>1. <<seg, seg>> \in (AllSegments \X AllSegments) \cup {Nothing}
            OBVIOUS
        <3>2. got' \in [Nodes -> (AllSegments \X AllSegments) \cup {Nothing}]
            <4> DEFINE T == (AllSegments \X AllSegments) \cup {Nothing}
            <4>1. got \in [Nodes -> T]
                BY DEF TypeOK
            <4>2. got' = [got EXCEPT ![n] = <<seg, seg>>]
                BY <1>5, <2>1 DEF GetOwnDf
            <4> HIDE DEF T
            <4>3. got' \in [Nodes -> T]
                BY <3>1, <4>1, <4>2, ExceptType DEF T
            <4> QED
                BY <4>3 DEF T
        <3> QED
            BY <1>5, <2>1, <3>2 DEF TypeOK, GetOwnDf
    <2>2. CASE seg \notin distro_kv_map[n]
        <3>1. stopped' \in [Nodes -> {"no", "assert", "empty queue", "failure"}]
            BY <1>5, <2>2, HandlerTypes DEF GetOwnDf
        <3> QED
            BY <1>5, <2>2, <3>1 DEF TypeOK, GetOwnDf, AssertFails
    <2> QED
        BY <2>1, <2>2
<1>6. ASSUME NEW n \in Nodes, NEW seg \in AllSegments, RequestDf(n, seg) PROVE TypeOK'
    <2>1. HomeId(seg) \in Nodes /\ WaitAndGet(seg) \in Messages
        BY SegmentsOfKeys, KindsOfMessages, HomeIsNode
    <2>2. app' \in [Nodes -> Threads]
        BY <1>6, ThreadFacts DEF TypeOK, RequestDf
    <2>3. \/ Send(n, HomeId(seg), WaitAndGet(seg)) /\ UNCHANGED stopped
          \/ QueueReply(n, seg) /\ UNCHANGED <<channel, stopped>>
          \/ AssertFails(n)
        BY <1>6 DEF RequestDf
    <2>4. /\ channel' \in [Nodes -> [Nodes -> Seq(Messages)]]
          /\ reply_queue' \in [Nodes -> Seq(AllSegments)]
          /\ stopped' \in [Nodes -> {"no", "assert", "empty queue", "failure"}]
          /\ UNCHANGED <<kv_map, distro_kv_map>>
        BY <2>1, <2>3, HandlerTypes DEF TypeOK, Send, QueueReply, AssertFails
    <2> QED
        BY <1>6, <2>2, <2>4 DEF TypeOK, RequestDf
<1>7. ASSUME NEW n \in Nodes, CheckReply(n) \/ SleepForReply(n) \/ WakeSpuriously(n)
      PROVE  TypeOK'
    <2>1. PICK pc \in ReadingPcs : app' = [app EXCEPT ![n].pc = pc]
        BY <1>7 DEF CheckReply, SleepForReply, WakeSpuriously, ReadingPcs
    <2>2. [app[n] EXCEPT !.pc = pc] \in Threads
        BY <1>7, ThreadFacts DEF CheckReply, SleepForReply, WakeSpuriously, ReadingPcs
    <2>3. app' = [app EXCEPT ![n] = [app[n] EXCEPT !.pc = pc]]
        BY <2>1
    <2>4. app' \in [Nodes -> Threads]
        BY <2>2, <2>3, ExceptType DEF TypeOK
    <2> QED
        BY <1>7, <2>4 DEF TypeOK, CheckReply, SleepForReply, WakeSpuriously
<1>9. ASSUME NEW n \in Nodes, TakeReply(n) PROVE TypeOK'
    <2>1. Head(reply_queue[n]) \in AllSegments /\ Tail(reply_queue[n]) \in Seq(AllSegments)
        BY <1>9, HeadTailProperties DEF TypeOK, TakeReply
    <2>2. app[n].seg \in AllSegments
        BY <1>9, ThreadFacts DEF TakeReply
    <2> QED
        BY <1>9, <2>1, <2>2, ThreadFacts DEF TypeOK, TakeReply
<1>10. ASSUME NEW n \in Nodes, TakeNoReply(n) PROVE TypeOK'
    BY <1>10 DEF TypeOK, TakeNoReply
<1>11. ASSUME NEW n \in Nodes, NotifyReader(n) PROVE TypeOK'
    <2>1. app[n].pc = "asleep" => [app[n] EXCEPT !.pc = "take"] \in Threads
        BY ThreadFacts DEF ReadingPcs
    <2>2. app' = IF app[n].pc = "asleep"
                 THEN [app EXCEPT ![n] = [app[n] EXCEPT !.pc = "take"]] ELSE app
        BY <1>11 DEF NotifyReader
    <2>3. app' \in [Nodes -> Threads]
        BY <2>1, <2>2, ExceptType DEF TypeOK
    <2> QED
        BY <1>11, <2>3 DEF TypeOK, NotifyReader
<1>12. ASSUME NEW n \in Nodes, Crash(n) PROVE TypeOK'
    BY <1>12, EmptySeq DEF TypeOK, Crash
<1>13. ASSUME NEW i \in Nodes, NEW j \in Nodes,
              HandlePut(i, j) \/ HandleWaitAndGet(i, j) \/ HandleReply(i, j)
       PROVE  TypeOK'
    <2> DEFINE c == channel[i][j]
               seg == Head(c).seg
    <2>1. c \in Seq(Messages) /\ c # <<>>
        <3>1. c \in Seq(Messages)
            BY ChannelType
        <3> QED
            BY <1>13, <3>1 DEF HandlePut, HandleWaitAndGet, HandleReply, Received
    <2>2. /\ Head(c) \in Messages /\ Tail(c) \in Seq(Messages)
          /\ Head(c).kind # "PutValue" => seg \in AllSegments
          /\ Head(c).kind = "PutValue" => seg[1] \in Keys
        BY <2>1, HeadOfChannel
    <2>3. Consumed(i, j) \in [Nodes -> [Nodes -> Seq(Messages)]]
        BY <2>2 DEF TypeOK, Consumed
    <2>4. CASE HandlePut(i, j)
        <3>1. \/ seg \in AllSegments /\ StoreDf(j, seg)
              \/ seg[1] \in Keys /\ StoreValue(j, seg[1])
            BY <2>2, <2>4 DEF HandlePut, Received, Msg
        <3>2. /\ distro_kv_map' \in [Nodes -> SUBSET AllSegments]
              /\ kv_map' \in [Nodes -> SUBSET Keys]
              /\ UNCHANGED reply_queue
            BY <3>1, HandlerTypes DEF TypeOK, StoreDf, StoreValue
        <3> QED
            BY <2>3, <2>4, <3>2 DEF TypeOK, HandlePut
    <2>5. CASE HandleWaitAndGet(i, j)
        <3>1. seg \in AllSegments
            BY <2>2, <2>5 DEF HandleWaitAndGet, Received
        <3>2. CASE seg \in distro_kv_map[j]
            <4>1. Append(Consumed(i, j)[j][i], Reply(seg)) \in Seq(Messages)
                BY <2>3, <3>1, KindsOfMessages, AppendProperties
            <4>2. channel' \in [Nodes -> [Nodes -> Seq(Messages)]]
                <5>1. [Consumed(i, j) EXCEPT ![j][i] = Append(@, Reply(seg))]
                          \in [Nodes -> [Nodes -> Seq(Messages)]]
                    BY <2>3, <4>1
                <5> QED
                    BY <2>3, <2>5, <3>2, <5>1 DEF HandleWaitAndGet, Msg
            <4> QED
                BY <2>5, <3>2, <4>2 DEF TypeOK, HandleWaitAndGet, Msg
        <3>3. CASE seg \notin distro_kv_map[j]
            BY <2>5, <3>3, HandlerTypes DEF TypeOK, HandleWaitAndGet, Msg, AssertFails
        <3> QED
            BY <3>2, <3>3
    <2>6. CASE HandleReply(i, j)
        <3>1. seg \in AllSegments
            BY <2>2, <2>6 DEF HandleReply, Received
        <3>2. reply_queue' \in [Nodes -> Seq(AllSegments)]
            BY <2>6, <3>1, HandlerTypes DEF HandleReply, Msg
        <3> QED
            BY <2>3, <2>6, <3>2 DEF TypeOK, HandleReply, QueueReply
    <2> QED
        BY <1>13, <2>4, <2>5, <2>6
<1>14. CASE UNCHANGED vars
    BY <1>14 DEF TypeOK, vars
<1> QED
    BY <1>1, <1>2, <1>3, <1>4, <1>5, <1>6, <1>7, <1>9, <1>10, <1>11, <1>12,
       <1>13, <1>14 DEF Next, Produce, AwaitReply, Network

\* The stores, queues and connections of all nodes keep their types, for any
\* number of nodes, keys and segments.
THEOREM TypeCorrect == Spec => []TypeOK
<1> QED
    BY InitType, TypeStep, PTL DEF Spec

-----------------------------------------------------------------------------
\* Values follow their segments.

HasLocalSegments(n, k) ==
    \A s \in 0 .. NumSegments[k] - 1 : HomeId(<<k, s>>) = n => <<k, s>> \in distro_kv_map[n]

\* Nothing that was put is lost in a step, unless the home stops.
SegmentsKept ==
    /\ \A j \in Nodes : distro_kv_map[j] \subseteq distro_kv_map'[j]
    /\ \A j \in Nodes : Running(j)' => Running(j)
    /\ \A i, j \in Nodes, x \in AllSegments : Underway(i, j, x) =>
          x \in distro_kv_map'[j] \/ ~ Running(j)' \/ Underway(i, j, x)'

LEMMA PutUpToKept ==
    ASSUME SegmentsKept, NEW i \in Nodes, NEW k \in Keys,
           NEW m \in 0 .. NumSegments[k], PutUpTo(i, k, m)
    PROVE  PutUpTo(i, k, m)'
<1> SUFFICES ASSUME NEW s \in 0 .. m - 1
             PROVE  Arrives(i, HomeId(<<k, s>>), <<k, s>>)'
    BY DEF PutUpTo, HomeId
<1>1. NumSegments[k] \in Nat
    OBVIOUS
<1>2. <<k, s>> \in AllSegments
    BY <1>1, SegmentsOfKeys
<1>3. HomeId(<<k, s>>) \in Nodes
    BY <1>2, SegmentsOfKeys, HomeIsNode
<1>4. Arrives(i, HomeId(<<k, s>>), <<k, s>>)
    BY DEF PutUpTo
<1> QED
    BY <1>2, <1>3, <1>4 DEF Arrives, SegmentsKept

\* What a step has to show for the invariant.
LEMMA InvKept ==
    ASSUME Inv, TypeOK', SegmentsKept,
           \A i, j \in Nodes : Ordered(channel'[i][j], distro_kv_map'[j], j),
           \A n \in Nodes : \A k \in kv_map'[n] :
               k \in kv_map[n] \/ HasLocalSegments(n, k)',
           \A n \in Nodes : app'[n] = app[n] \/ ProducerOK(n)'
    PROVE  Inv'
<1>1. ProducerInv'
    <2> SUFFICES ASSUME NEW n \in Nodes PROVE ProducerOK(n)'
        BY DEF ProducerInv
    <2>1. CASE app'[n] = app[n]
        <3>1. ProducerOK(n)
            BY DEF Inv, ProducerInv
        <3>2. app[n].pc \in {"produce", "broadcast"} => app[n].seg \in Keys \X Nat
            BY ThreadFacts DEF Inv
        <3>3. \A k \in Keys : \A m \in 0 .. NumSegments[k] :
                  PutUpTo(n, k, m) => PutUpTo(n, k, m)'
            BY PutUpToKept
        <3>4. \A k \in Keys, m \in Nat : app[n].seg[1] = k /\ app[n].seg[2] = m =>
                  ProducerOK(n)'
            <4> SUFFICES ASSUME NEW k \in Keys, NEW m \in Nat,
                                app[n].seg[1] = k, app[n].seg[2] = m
                         PROVE  ProducerOK(n)'
                OBVIOUS
            <4>1. NumSegments[k] \in 0 .. NumSegments[k]
                OBVIOUS
            <4>2. app[n].pc = "produce" => m <= NumSegments[k] /\ PutUpTo(n, k, m)'
                BY <3>1, <3>3 DEF ProducerOK
            <4>3. app[n].pc = "broadcast" => m \in Nodes /\ PutUpTo(n, k, NumSegments[k])'
                BY <3>1, <3>3, <4>1 DEF ProducerOK
            <4> QED
                BY <2>1, <4>2, <4>3 DEF ProducerOK
        <3>5. CASE app[n].pc \in {"produce", "broadcast"}
            BY <3>2, <3>4, <3>5
        <3>6. CASE app[n].pc \notin {"produce", "broadcast"}
            BY <2>1, <3>6 DEF ProducerOK
        <3> QED
            BY <3>5, <3>6
    <2> QED
        BY <2>1
<1>2. ChannelInv'
    BY DEF ChannelInv
<1>3. LocalSegmentsComplete'
    <2> SUFFICES ASSUME NEW n \in Nodes, NEW k \in Keys, k \in kv_map'[n],
                        NEW s \in 0 .. NumSegments[k] - 1, HomeId(<<k, s>>) = n
                 PROVE  <<k, s>> \in distro_kv_map'[n]
        BY DEF LocalSegmentsComplete, HomeId
    <2>1. CASE k \in kv_map[n]
        BY <2>1 DEF Inv, LocalSegmentsComplete, SegmentsKept
    <2>2. CASE HasLocalSegments(n, k)'
        BY <2>2 DEF HasLocalSegments, HomeId
    <2> QED
        BY <2>1, <2>2
<1> QED
    BY <1>1, <1>2, <1>3 DEF Inv

\* A step that only moves application threads, or stops nodes.
LEMMA InvKeptQuietly ==
    ASSUME Inv, TypeOK', UNCHANGED <<kv_map, distro_kv_map, channel>>,
           \A j \in Nodes : Running(j)' => Running(j),
           \A n \in Nodes : app'[n] = app[n] \/ ProducerOK(n)'
    PROVE  Inv'
<1>1. SegmentsKept
    BY DEF SegmentsKept, Underway
<1>2. \A i, j \in Nodes : Ordered(channel'[i][j], distro_kv_map'[j], j)
    BY DEF Inv, ChannelInv
<1> QED
    BY <1>1, <1>2, InvKept

LEMMA InitInv == Init => Inv
<1> SUFFICES ASSUME Init PROVE Inv
    OBVIOUS
<1>1. ProducerInv
    BY DEF Init, ProducerInv, ProducerOK, Idle
<1>2. ChannelInv
    BY EmptySeq DEF Init, ChannelInv, Ordered
<1>3. LocalSegmentsComplete
    BY DEF Init, LocalSegmentsComplete
<1> QED
    BY <1>1, <1>2, <1>3, InitType DEF Inv

\* A message that is no value is appended to a connection.
LEMMA SendKeeps ==
    ASSUME Inv, NEW i \in Nodes, NEW j \in Nodes, NEW msg \in Messages,
           \A k \in Keys : msg = PutValue(k) =>
               \A s \in 0 .. NumSegments[k] - 1 : HomeId(<<k, s>>) = j =>
                   \/ <<k, s>> \in distro_kv_map[j]
                   \/ ~ Running(j) \/ Underway(i, j, <<k, s>>),
           Send(i, j, msg), UNCHANGED stopped
    PROVE  /\ SegmentsKept
           /\ \A a, b \in Nodes : Ordered(channel'[a][b], distro_kv_map'[b], b)
           /\ \A x : msg = Put(x) => ~ Running(j) \/ Underway(i, j, x)'
<1> DEFINE c == channel[i][j]
<1>1. c \in Seq(Messages)
    BY ChannelType DEF Inv
<1>2. CASE ~ Running(j)
    BY <1>2 DEF Send, SegmentsKept, Underway, Running, Inv, ChannelInv
<1>3. CASE Running(j)
    <2>1. \A a, b \in Nodes : channel'[a][b] =
              IF a = i /\ b = j THEN Append(c, msg) ELSE channel[a][b]
        BY <1>3 DEF Send, Inv, TypeOK
    <2>2. \A m : Among(m, c, Len(c)) => Among(m, Append(c, msg), Len(Append(c, msg)))
        BY <1>1, AmongAppend
    <2>3. Among(msg, Append(c, msg), Len(Append(c, msg)))
        BY <1>1, AmongAppend
    <2>4. Ordered(Append(c, msg), distro_kv_map[j], j)
        <3>1. Ordered(c, distro_kv_map[j], j)
            BY DEF Inv, ChannelInv
        <3> QED
            BY <1>1, <1>3, <3>1, OrderedAppend DEF Underway
    <2> HIDE DEF c
    <2>5. UNCHANGED <<kv_map, distro_kv_map, stopped>>
        BY DEF Send
    <2>6. SegmentsKept
        BY <2>1, <2>2, <2>5 DEF SegmentsKept, Underway, Running, c
    <2>7. \A a, b \in Nodes : Ordered(channel'[a][b], distro_kv_map'[b], b)
        BY <2>1, <2>4, <2>5 DEF Inv, ChannelInv
    <2>8. \A x : msg = Put(x) => Underway(i, j, x)'
        BY <2>1, <2>3 DEF Underway
    <2> QED
        BY <2>6, <2>7, <2>8
<1> QED
    BY <1>2, <1>3

\* A node takes the next message of a connection.
LEMMA ConsumedKeeps ==
    ASSUME Inv, NEW i \in Nodes, NEW j \in Nodes, channel[i][j] # <<>>,
           \A n \in Nodes : distro_kv_map[n] \subseteq distro_kv_map'[n],
           \A x : Head(channel[i][j]) = Put(x) => x \in distro_kv_map'[j]
    PROVE  /\ \A a, b \in Nodes : Ordered(Consumed(i, j)[a][b], distro_kv_map'[b], b)
           /\ \A a, b \in Nodes, x \in AllSegments : Underway(a, b, x) =>
                \/ x \in distro_kv_map'[b]
                \/ Among(Put(x), Consumed(i, j)[a][b], Len(Consumed(i, j)[a][b]))
<1> DEFINE c == channel[i][j]
           d == Consumed(i, j)
<1>1. c \in Seq(Messages) /\ c # <<>>
    BY ChannelType DEF Inv
<1>2. \A a, b \in Nodes : d[a][b] = IF a = i /\ b = j THEN Tail(c) ELSE channel[a][b]
    BY DEF Consumed, Inv, TypeOK
<1>3. \A m : Among(m, c, Len(c)) => m = Head(c) \/ Among(m, Tail(c), Len(Tail(c)))
    <2>1. Len(c) \in 0 .. Len(c) /\ Len(Tail(c)) = Len(c) - 1
        BY <1>1, HeadTailProperties, LenProperties
    <2> QED
        BY <1>1, <2>1, AmongTail
<1>4. Ordered(Tail(c), distro_kv_map'[j], j)
    <2>1. Ordered(c, distro_kv_map[j], j)
        BY DEF Inv, ChannelInv
    <2> QED
        BY <1>1, <2>1, OrderedTail
<1> HIDE DEF d
<1>5. ASSUME NEW a \in Nodes, NEW b \in Nodes, NEW x \in AllSegments, Underway(a, b, x)
      PROVE  x \in distro_kv_map'[b] \/ Among(Put(x), d[a][b], Len(d[a][b]))
    BY <1>2, <1>3, <1>5 DEF Underway
<1>6. \A a, b \in Nodes : Ordered(channel[a][b], distro_kv_map'[b], b)
    BY OrderedMonotone DEF Inv, ChannelInv
<1>7. \A a, b \in Nodes : Ordered(d[a][b], distro_kv_map'[b], b)
    BY <1>2, <1>4, <1>6
<1> QED
    BY <1>5, <1>7 DEF d

LEMMA ConsumeKeeps ==
    ASSUME Inv, NEW i \in Nodes, NEW j \in Nodes, channel[i][j] # <<>>,
           channel' = Consumed(i, j), UNCHANGED stopped,
           \A n \in Nodes : distro_kv_map[n] \subseteq distro_kv_map'[n],
           \A x : Head(channel[i][j]) = Put(x) => x \in distro_kv_map'[j]
    PROVE  /\ SegmentsKept
           /\ \A a, b \in Nodes : Ordered(channel'[a][b], distro_kv_map'[b], b)
BY ConsumedKeeps DEF SegmentsKept, Underway, Running

\* A segment or a value is stored while the connections do not change.
LEMMA StoreKeeps ==
    ASSUME Inv, UNCHANGED <<channel, stopped>>,
           \A n \in Nodes : distro_kv_map[n] \subseteq distro_kv_map'[n]
    PROVE  /\ SegmentsKept
           /\ \A a, b \in Nodes : Ordered(channel'[a][b], distro_kv_map'[b], b)
BY OrderedMonotone DEF SegmentsKept, Underway, Running, Inv, ChannelInv

\* Connections to, and segments on, a node that fails do not matter any more.
LEMMA CrashKeeps ==
    ASSUME Inv, NEW n \in Nodes, Crash(n)
    PROVE  /\ SegmentsKept
           /\ \A a, b \in Nodes : Ordered(channel'[a][b], distro_kv_map'[b], b)
<1>1. \A a, b \in Nodes : channel'[a][b] = IF b = n THEN <<>> ELSE channel[a][b]
    BY DEF Crash, Inv, TypeOK
<1>2. \A b \in Nodes : Running(b)' <=> Running(b) /\ b # n
    BY DEF Crash, Inv, TypeOK, Running
<1>3. UNCHANGED distro_kv_map
    BY DEF Crash
<1>4. \A D, j : Ordered(<<>>, D, j)
    BY EmptySeq DEF Ordered
<1> QED
    BY <1>1, <1>2, <1>3, <1>4 DEF SegmentsKept, Underway, Inv, ChannelInv

LEMMA PutDfKeeps ==
    ASSUME Inv, TypeOK', NEW n \in Nodes, PutDf(n)
    PROVE  Inv'
<1> SUFFICES ASSUME NEW k \in Keys, NEW m \in Nat, app[n].seg = <<k, m>> PROVE Inv'
    <2>1. app[n].seg \in Keys \X Nat
        BY ThreadFacts DEF PutDf, Inv
    <2>2. PICK k \in Keys, m \in Nat : app[n].seg = <<k, m>>
        BY <2>1
    <2> QED
        BY <2>2
<1> DEFINE seg == <<k, m>>
           home == HomeId(seg)
<1>1. /\ m < NumSegments[k] /\ app[n].pc = "produce"
      /\ app' = [app EXCEPT ![n] = Thread("produce", k, m + 1)]
      /\ \/ home = n /\ StoreDf(n, seg) /\ UNCHANGED channel
         \/ home # n /\ ~ Socket /\ StoreDf(home, seg) /\ UNCHANGED channel
         \/ home # n /\ Socket /\ Send(n, home, Put(seg))
      /\ UNCHANGED stopped
    BY DEF PutDf
<1>2. m \in 0 .. NumSegments[k] /\ m + 1 \in 0 .. NumSegments[k] /\ PutUpTo(n, k, m)
    BY <1>1 DEF Inv, ProducerInv, ProducerOK
<1>3. seg \in AllSegments /\ home \in Nodes /\ Put(seg) \in Messages
    BY <1>1, SegmentsOfKeys, HomeIsNode, KindsOfMessages
<1> HIDE DEF seg, home
<1>4. /\ SegmentsKept
      /\ \A a, b \in Nodes : Ordered(channel'[a][b], distro_kv_map'[b], b)
      /\ Arrives(n, home, seg)'
      /\ UNCHANGED kv_map
    <2>1. CASE StoreDf(home, seg) /\ UNCHANGED channel
        <3>1. \A j \in Nodes : distro_kv_map[j] \subseteq distro_kv_map'[j]
            BY <2>1 DEF StoreDf, Inv, TypeOK
        <3>2. seg \in distro_kv_map'[home]
            BY <1>3, <2>1 DEF StoreDf, Inv, TypeOK
        <3>3. Arrives(n, home, seg)'
            BY <3>2 DEF Arrives, home, seg, HomeId
        <3> QED
            BY <1>1, <2>1, <3>1, <3>3, StoreKeeps DEF StoreDf
    <2>2. CASE home # n /\ Socket /\ Send(n, home, Put(seg))
        <3>1. /\ SegmentsKept
              /\ \A a, b \in Nodes : Ordered(channel'[a][b], distro_kv_map'[b], b)
              /\ ~ Running(home) \/ Underway(n, home, seg)'
            <4>1. \A x : Put(seg) # PutValue(x)
                BY KindsOfMessages
            <4> QED
                BY <1>1, <1>3, <2>2, <4>1, SendKeeps
        <3>2. Running(home)' <=> Running(home)
            BY <1>1 DEF Running
        <3>3. Arrives(n, home, seg)'
            BY <2>2, <3>1, <3>2 DEF Arrives, home, seg, HomeId
        <3> QED
            BY <2>2, <3>1, <3>3 DEF Send
    <2> QED
        BY <1>1, <2>1, <2>2
<1>5. PutUpTo(n, k, m + 1)'
    <2>1. PutUpTo(n, k, m)'
        BY <1>2, <1>4, PutUpToKept
    <2>2. \A s \in 0 .. (m + 1) - 1 : s \in 0 .. m - 1 \/ s = m
        OBVIOUS
    <2> QED
        BY <1>4, <2>1, <2>2 DEF PutUpTo, home, seg, HomeId
<1>6. app'[n] = Thread("produce", k, m + 1) /\ \A i \in Nodes \ {n} : app'[i] = app[i]
    BY <1>1 DEF Inv, TypeOK
<1>7. ProducerOK(n)'
    BY <1>2, <1>5, <1>6 DEF ProducerOK, Thread
<1> QED
    BY <1>4, <1>6, <1>7, InvKept

LEMMA PutOwnValueKeeps ==
    ASSUME Inv, TypeOK', NEW n \in Nodes, PutOwnValue(n)
    PROVE  Inv'
<1> SUFFICES ASSUME NEW k \in Keys, app[n].seg[1] = k PROVE Inv'
    BY ThreadFacts DEF PutOwnValue, Inv
<1>1. /\ app[n].pc = "produce" /\ app[n].seg[2] = NumSegments[k]
      /\ StoreValue(n, k)
      /\ app' = [app EXCEPT ![n] = Thread("broadcast", k, 0)]
      /\ UNCHANGED <<channel, stopped>>
    BY DEF PutOwnValue
<1>2. PutUpTo(n, k, NumSegments[k])
    BY <1>1 DEF Inv, ProducerInv, ProducerOK
<1>3. /\ SegmentsKept
      /\ \A a, b \in Nodes : Ordered(channel'[a][b], distro_kv_map'[b], b)
    BY <1>1, StoreKeeps DEF StoreValue
<1>4. HasLocalSegments(n, k)'
    BY <1>1, <1>2 DEF HasLocalSegments, PutUpTo, Arrives, StoreValue, HomeId
<1>5. \A i \in Nodes : \A x \in kv_map'[i] : x \in kv_map[i] \/ HasLocalSegments(i, x)'
    BY <1>1, <1>4 DEF StoreValue, Inv, TypeOK
<1>6. app'[n] = Thread("broadcast", k, 0) /\ \A i \in Nodes \ {n} : app'[i] = app[i]
    BY <1>1 DEF Inv, TypeOK
<1>7. PutUpTo(n, k, NumSegments[k])'
    <2>1. NumSegments[k] \in 0 .. NumSegments[k]
        OBVIOUS
    <2> QED
        BY <1>2, <1>3, <2>1, PutUpToKept
<1>8. ProducerOK(n)'
    BY <1>6, <1>7 DEF ProducerOK, Thread, Nodes
<1> QED
    BY <1>3, <1>5, <1>6, <1>8, InvKept

LEMMA BroadcastValueKeeps ==
    ASSUME Inv, TypeOK', NEW n \in Nodes, BroadcastValue(n)
    PROVE  Inv'
<1> SUFFICES ASSUME NEW k \in Keys, NEW to \in Nat, app[n].seg = <<k, to>> PROVE Inv'
    <2>1. app[n].seg \in Keys \X Nat
        BY ThreadFacts DEF BroadcastValue, Inv
    <2>2. PICK k \in Keys, to \in Nat : app[n].seg = <<k, to>>
        BY <2>1
    <2> QED
        BY <2>2
<1>1. /\ app[n].pc = "broadcast"
      /\ \/ to = n /\ UNCHANGED <<kv_map, distro_kv_map, reply_queue, channel>>
         \/ to # n /\ ~ Socket /\ StoreValue(to, k) /\ UNCHANGED channel
         \/ to # n /\ Socket /\ Send(n, to, PutValue(k))
      /\ app' = [app EXCEPT ![n] = IF to + 1 = NumNodes THEN Idle
                                   ELSE Thread("broadcast", k, to + 1)]
      /\ UNCHANGED stopped
    BY DEF BroadcastValue
<1>2. to \in Nodes /\ PutUpTo(n, k, NumSegments[k])
    BY <1>1 DEF Inv, ProducerInv, ProducerOK
<1>3. \A s \in 0 .. NumSegments[k] - 1 : HomeId(<<k, s>>) = to => Arrives(n, to, <<k, s>>)
    BY <1>2 DEF PutUpTo
<1>4. /\ SegmentsKept
      /\ \A a, b \in Nodes : Ordered(channel'[a][b], distro_kv_map'[b], b)
      /\ \A i \in Nodes : \A x \in kv_map'[i] : x \in kv_map[i] \/ HasLocalSegments(i, x)'
    <2>1. CASE to = n /\ UNCHANGED <<kv_map, distro_kv_map, reply_queue, channel>>
        BY <1>1, <2>1, StoreKeeps
    <2>2. CASE ~ Socket /\ StoreValue(to, k) /\ UNCHANGED channel
        <3>1. HasLocalSegments(to, k)'
            BY <1>3, <2>2 DEF HasLocalSegments, Arrives, StoreValue, HomeId
        <3> QED
            BY <1>1, <2>2, <3>1, StoreKeeps DEF StoreValue, Inv, TypeOK
    <2>3. CASE to # n /\ Socket /\ Send(n, to, PutValue(k))
        <3>1. PutValue(k) \in Messages /\ \A x \in Keys : PutValue(k) = PutValue(x) => x = k
            BY KindsOfMessages
        <3>2. \A s \in 0 .. NumSegments[k] - 1 : HomeId(<<k, s>>) = to =>
                  \/ <<k, s>> \in distro_kv_map[to]
                  \/ ~ Running(to) \/ Underway(n, to, <<k, s>>)
            BY <1>3 DEF Arrives
        <3>3. \A x \in Keys : PutValue(k) = PutValue(x) =>
                  \A s \in 0 .. NumSegments[x] - 1 : HomeId(<<x, s>>) = to =>
                      \/ <<x, s>> \in distro_kv_map[to]
                      \/ ~ Running(to) \/ Underway(n, to, <<x, s>>)
            BY <3>1, <3>2
        <3>4. Send(n, to, PutValue(k)) /\ UNCHANGED stopped
            BY <1>1, <2>3
        <3>5. /\ SegmentsKept
              /\ \A a, b \in Nodes : Ordered(channel'[a][b], distro_kv_map'[b], b)
            BY <1>2, <3>1, <3>3, <3>4, SendKeeps
        <3>6. UNCHANGED kv_map
            BY <3>4 DEF Send
        <3> QED
            BY <3>5, <3>6
    <2> QED
        BY <1>1, <2>1, <2>2, <2>3
<1>5. /\ app'[n] = IF to + 1 = NumNodes THEN Idle ELSE Thread("broadcast", k, to + 1)
      /\ \A i \in Nodes \ {n} : app'[i] = app[i]
    BY <1>1 DEF Inv, TypeOK
<1>6. PutUpTo(n, k, NumSegments[k])'
    <2>1. NumSegments[k] \in 0 .. NumSegments[k]
        OBVIOUS
    <2> QED
        BY <1>2, <1>4, <2>1, PutUpToKept
<1>7. ProducerOK(n)'
    <2>1. CASE to + 1 = NumNodes
        BY <1>5, <2>1 DEF ProducerOK, Idle
    <2>2. CASE to + 1 # NumNodes
        <3>1. to + 1 \in Nodes
            BY <1>2, <2>2 DEF Nodes
        <3> QED
            BY <1>5, <1>6, <2>2, <3>1 DEF ProducerOK, Thread
    <2> QED
        BY <2>1, <2>2
<1> QED
    BY <1>4, <1>5, <1>7, InvKept

\* A node stores what the next message brings: a segment, or a value, whose
\* segments were ahead of it and are stored already.
LEMMA HandlePutKeeps ==
    ASSUME Inv, TypeOK', NEW i \in Nodes, NEW j \in Nodes, HandlePut(i, j)
    PROVE  Inv'
<1> DEFINE c == channel[i][j]
<1>1. c \in Seq(Messages) /\ c # <<>>
    BY ChannelType DEF Inv, HandlePut, Received
<1>2. /\ \/ Head(c).kind = "Put" /\ StoreDf(j, Head(c).seg)
         \/ Head(c).kind = "PutValue" /\ StoreValue(j, Head(c).seg[1])
      /\ channel' = Consumed(i, j)
      /\ UNCHANGED <<app, stopped>>
    BY DEF HandlePut, Received, Msg
<1>3. /\ Head(c).kind = "PutValue" =>
            Head(c).seg[1] \in Keys /\ Head(c) = PutValue(Head(c).seg[1])
      /\ Head(c).kind = "Put" => Head(c) = Put(Head(c).seg)
    BY <1>1, HeadOfChannel
<1> HIDE DEF c
<1>4. ASSUME NEW seg, Head(c) = Put(seg), StoreDf(j, seg)
      PROVE  Inv'
    <2>1. /\ \A n \in Nodes : distro_kv_map[n] \subseteq distro_kv_map'[n]
          /\ seg \in distro_kv_map'[j]
          /\ UNCHANGED kv_map
        BY <1>4 DEF StoreDf, Inv, TypeOK
    <2>2. \A x : Head(c) = Put(x) => x \in distro_kv_map'[j]
        BY <1>4, <2>1, KindsOfMessages
    <2>3. /\ SegmentsKept
          /\ \A a, b \in Nodes : Ordered(channel'[a][b], distro_kv_map'[b], b)
        BY <1>1, <1>2, <2>1, <2>2, ConsumeKeeps DEF c
    <2> QED
        BY <1>2, <2>1, <2>3, InvKept
<1>5. ASSUME NEW k \in Keys, Head(c) = PutValue(k), StoreValue(j, k)
      PROVE  Inv'
    <2>1. UNCHANGED distro_kv_map
        BY <1>5 DEF StoreValue
    <2>2. \A x : Head(c) # Put(x)
        BY <1>5, KindsOfMessages
    <2>3. /\ SegmentsKept
          /\ \A a, b \in Nodes : Ordered(channel'[a][b], distro_kv_map'[b], b)
        BY <1>1, <1>2, <2>1, <2>2, ConsumeKeeps DEF c
    <2>4. HasLocalSegments(j, k)'
        <3>1. 1 \in 1 .. Len(c) /\ c[1] = PutValue(k)
            BY <1>1, <1>5, HeadTailProperties, LenProperties, EmptySeq
        <3>2. Ordered(c, distro_kv_map[j], j)
            BY DEF Inv, ChannelInv, c
        <3>3. \A m : ~ Among(m, c, 1 - 1)
            BY DEF Among
        <3> QED
            BY <2>1, <3>1, <3>2, <3>3 DEF Ordered, HasLocalSegments, HomeId
    <2>5. \A n \in Nodes : \A x \in kv_map'[n] :
              x \in kv_map[n] \/ HasLocalSegments(n, x)'
        BY <1>5, <2>4 DEF StoreValue, Inv, TypeOK
    <2> QED
        BY <1>2, <2>3, <2>5, InvKept
<1> QED
    BY <1>2, <1>3, <1>4, <1>5

\* A request is taken and its answer appended to the connection back.
LEMMA HandleWaitAndGetKeeps ==
    ASSUME Inv, TypeOK', NEW i \in Nodes, NEW j \in Nodes, HandleWaitAndGet(i, j)
    PROVE  Inv'
<1> DEFINE c == channel[i][j]
           seg == Head(c).seg
           d == Consumed(i, j)
           r == Reply(seg)
<1>1. c \in Seq(Messages) /\ c # <<>> /\ Head(c).kind = "WaitAndGet"
    BY ChannelType DEF Inv, HandleWaitAndGet, Received
<1>2. /\ Head(c) \in Messages /\ Tail(c) \in Seq(Messages) /\ seg \in AllSegments
      /\ \A x : Head(c) # Put(x)
    <2>1. \A x : Put(x).kind = "Put"
        BY DEF Put
    <2> QED
        BY <1>1, <2>1, HeadOfChannel
<1>3. CASE seg \notin distro_kv_map[j]
    <2>1. AssertFails(j) /\ UNCHANGED app
        BY <1>3 DEF HandleWaitAndGet, Msg
    <2>2. \A n \in Nodes : Running(n)' => Running(n)
        BY <2>1 DEF AssertFails, Running, Inv, TypeOK
    <2> QED
        BY <2>1, <2>2, InvKeptQuietly DEF AssertFails
<1>4. CASE seg \in distro_kv_map[j]
    <2>1. /\ channel' = IF ~ Running(i) THEN d
                        ELSE [d EXCEPT ![j][i] = Append(@, r)]
          /\ UNCHANGED <<kv_map, distro_kv_map, stopped, app>>
        BY <1>4 DEF HandleWaitAndGet, Msg
    <2>2. d \in [Nodes -> [Nodes -> Seq(Messages)]]
        BY <1>2 DEF Inv, TypeOK, Consumed
    <2>3. /\ \A a, b \in Nodes : Ordered(d[a][b], distro_kv_map[b], b)
          /\ \A a, b \in Nodes, x \in AllSegments : Underway(a, b, x) =>
                x \in distro_kv_map[b] \/ Among(Put(x), d[a][b], Len(d[a][b]))
        BY <1>1, <1>2, <2>1, ConsumedKeeps
    <2>4. r \in Messages /\ \A k : r # PutValue(k)
        BY <1>2, KindsOfMessages
    <2> HIDE DEF d, r, seg
    <2>5. \A a, b \in Nodes : channel'[a][b] = d[a][b] \/ channel'[a][b] = Append(d[a][b], r)
        BY <2>1, <2>2
    <2>6. ASSUME NEW a \in Nodes, NEW b \in Nodes
          PROVE  /\ Ordered(Append(d[a][b], r), distro_kv_map[b], b)
                 /\ \A m : Among(m, d[a][b], Len(d[a][b])) =>
                        Among(m, Append(d[a][b], r), Len(Append(d[a][b], r)))
        <3>1. d[a][b] \in Seq(Messages)
            BY <2>2
        <3>2. Ordered(d[a][b], distro_kv_map[b], b)
            BY <2>3
        <3> HIDE DEF Ordered
        <3> QED
            BY <2>4, <3>1, <3>2, OrderedAppend, AmongAppend
    <2>7. \A a, b \in Nodes : Ordered(channel'[a][b], distro_kv_map'[b], b)
        BY <2>1, <2>3, <2>5, <2>6
    <2>8. SegmentsKept
        <3>1. ASSUME NEW a \in Nodes, NEW b \in Nodes, NEW x \in AllSegments,
                     Underway(a, b, x)
              PROVE  x \in distro_kv_map'[b] \/ Underway(a, b, x)'
            <4>1. distro_kv_map' = distro_kv_map
                BY <2>1, Zenon
            <4>2. x \in distro_kv_map[b] \/ Among(Put(x), d[a][b], Len(d[a][b]))
                BY <2>3, <3>1, Zenon
            <4>3. CASE Among(Put(x), d[a][b], Len(d[a][b]))
                <5>1. Among(Put(x), channel'[a][b], Len(channel'[a][b]))
                    BY <2>5, <2>6, <4>3, Zenon
                <5> QED
                    BY <5>1, Zenon DEF Underway
            <4> QED
                BY <4>1, <4>2, <4>3, Zenon
        <3> QED
            BY <2>1, <3>1 DEF SegmentsKept, Running
    <2> QED
        BY <2>1, <2>7, <2>8, InvKept
<1> QED
    BY <1>3, <1>4

LEMMA HandleReplyKeeps ==
    ASSUME Inv, TypeOK', NEW i \in Nodes, NEW j \in Nodes, HandleReply(i, j)
    PROVE  Inv'
<1>1. /\ channel[i][j] # <<>> /\ Head(channel[i][j]).kind = "Reply"
      /\ channel' = Consumed(i, j)
      /\ UNCHANGED <<kv_map, distro_kv_map, app, stopped>>
    BY DEF HandleReply, Received, QueueReply
<1>2. \A x : Head(channel[i][j]) # Put(x)
    BY <1>1 DEF Put
<1>3. /\ SegmentsKept
      /\ \A a, b \in Nodes : Ordered(channel'[a][b], distro_kv_map'[b], b)
    BY <1>1, <1>2, ConsumeKeeps
<1> QED
    BY <1>1, <1>3, InvKept

LEMMA RequestDfKeeps ==
    ASSUME Inv, TypeOK', NEW n \in Nodes, NEW seg \in AllSegments, RequestDf(n, seg)
    PROVE  Inv'
<1> DEFINE home == HomeId(seg)
<1>1. /\ app' = [app EXCEPT ![n] = Thread("await", seg[1], seg[2])]
      /\ \/ Send(n, home, WaitAndGet(seg)) /\ UNCHANGED stopped
         \/ QueueReply(n, seg) /\ UNCHANGED <<channel, stopped>>
         \/ AssertFails(n)
    BY DEF RequestDf
<1>2. \A i \in Nodes : app'[i] = app[i] \/ ProducerOK(i)'
    BY <1>1 DEF Inv, TypeOK, ProducerOK, Thread
<1>3. home \in Nodes /\ WaitAndGet(seg) \in Messages
    BY SegmentsOfKeys, HomeIsNode, KindsOfMessages
<1> HIDE DEF home
<1>4. CASE Send(n, home, WaitAndGet(seg)) /\ UNCHANGED stopped
    <2>1. \A k : WaitAndGet(seg) # PutValue(k)
        BY KindsOfMessages
    <2>2. /\ SegmentsKept
          /\ \A a, b \in Nodes : Ordered(channel'[a][b], distro_kv_map'[b], b)
        BY <1>3, <1>4, <2>1, SendKeeps
    <2> QED
        BY <1>2, <1>4, <2>2, InvKept DEF Send
<1>5. CASE QueueReply(n, seg) /\ UNCHANGED <<channel, stopped>>
    BY <1>2, <1>5, InvKeptQuietly DEF QueueReply, Running
<1>6. CASE AssertFails(n)
    <2>1. \A i \in Nodes : Running(i)' => Running(i)
        BY <1>6 DEF AssertFails, Running, Inv, TypeOK
    <2> QED
        BY <1>2, <1>6, <2>1, InvKeptQuietly DEF AssertFails
<1> QED
    BY <1>1, <1>4, <1>5, <1>6

LEMMA InvStep == Inv /\ [Next]_vars => Inv'
<1> SUFFICES ASSUME Inv, [Next]_vars PROVE Inv'
    OBVIOUS
<1>1. TypeOK'
    BY TypeStep DEF Inv
<1>2. ASSUME NEW n \in Nodes, NEW k \in Keys, StartProducing(n, k) PROVE Inv'
    <2>1. app'[n] = Thread("produce", k, 0) /\ \A i \in Nodes \ {n} : app'[i] = app[i]
        BY <1>2 DEF StartProducing, Inv, TypeOK
    <2>2. ProducerOK(n)'
        BY <2>1 DEF ProducerOK, PutUpTo, Thread
    <2> QED
        BY <1>1, <1>2, <2>1, <2>2, InvKeptQuietly DEF StartProducing, Running
<1>3. ASSUME NEW n \in Nodes, Produce(n) PROVE Inv'
    BY <1>1, <1>3, PutDfKeeps, PutOwnValueKeeps, BroadcastValueKeeps DEF Produce
<1>4. ASSUME NEW n \in Nodes, NEW seg \in AllSegments, GetOwnDf(n, seg) PROVE Inv'
    <2>1. /\ UNCHANGED <<kv_map, distro_kv_map, channel, app>>
          /\ UNCHANGED stopped \/ AssertFails(n)
        BY <1>4 DEF GetOwnDf, AssertFails
    <2>2. \A i \in Nodes : Running(i)' => Running(i)
        BY <2>1 DEF AssertFails, Running, Inv, TypeOK
    <2> QED
        BY <1>1, <2>1, <2>2, InvKeptQuietly
<1>5. ASSUME NEW n \in Nodes, NEW seg \in AllSegments, RequestDf(n, seg) PROVE Inv'
    BY <1>1, <1>5, RequestDfKeeps
<1>6. ASSUME NEW n \in Nodes, AwaitReply(n) \/ WakeSpuriously(n) \/ NotifyReader(n)
      PROVE  Inv'
    <2>1. /\ UNCHANGED <<kv_map, distro_kv_map, channel>>
          /\ \A i \in Nodes : Running(i)' => Running(i)
        BY <1>6 DEF AwaitReply, CheckReply, SleepForReply, TakeReply, TakeNoReply,
                    WakeSpuriously, NotifyReader, Running, Inv, TypeOK
    <2>2. \A i \in Nodes : app'[i] = app[i] \/ app'[i].pc \notin {"produce", "broadcast"}
        <3>1. CASE app' = app
            BY <3>1
        <3>2. CASE app' = [app EXCEPT ![n] = Idle]
            BY <3>2 DEF Inv, TypeOK, Idle
        <3>3. CASE /\ app[n].pc \in ReadingPcs
                   /\ \E pc \in ReadingPcs : app' = [app EXCEPT ![n].pc = pc]
            <4>1. app[n] \in Threads /\ app \in [Nodes -> Threads]
                BY DEF Inv, TypeOK
            <4>2. app[n] \in [pc : ReadingPcs, seg : AllSegments]
                BY <3>3, <4>1 DEF Threads, Idle, ReadingPcs
            <4>3. PICK pc \in ReadingPcs : app' = [app EXCEPT ![n] = [app[n] EXCEPT !.pc = pc]]
                BY <3>3
            <4>4. [app[n] EXCEPT !.pc = pc].pc = pc
                BY <4>2
            <4>5. app'[n] = [app[n] EXCEPT !.pc = pc] /\ \A i \in Nodes \ {n} : app'[i] = app[i]
                BY <4>1, <4>3
            <4> QED
                BY <4>4, <4>5 DEF ReadingPcs
        <3> QED
            BY <1>6, <3>1, <3>2, <3>3 DEF AwaitReply, CheckReply, SleepForReply,
               TakeReply, TakeNoReply, WakeSpuriously, NotifyReader, ReadingPcs
    <2> QED
        BY <1>1, <2>1, <2>2, InvKeptQuietly DEF ProducerOK
<1>7. ASSUME NEW j \in Nodes, NEW i \in Nodes,
             HandlePut(i, j) \/ HandleWaitAndGet(i, j) \/ HandleReply(i, j)
      PROVE  Inv'
    BY <1>1, <1>7, HandlePutKeeps, HandleWaitAndGetKeeps, HandleReplyKeeps
<1>8. ASSUME NEW n \in Nodes, Crash(n) PROVE Inv'
    BY <1>1, <1>8, CrashKeeps, InvKept DEF Crash
<1>9. CASE UNCHANGED vars
    BY <1>1, <1>9, InvKeptQuietly DEF vars, Running
<1> QED
    BY <1>2, <1>3, <1>4, <1>5, <1>6, <1>7, <1>8, <1>9 DEF Next, Network

\* A node that has a value has all segments of it whose home it is, for any
\* number of nodes, values and segments, with either transport and whatever
\* nodes fail: local_map never misses one.
THEOREM LocalSegments == Spec => []LocalSegmentsComplete
<1>1. Inv => LocalSegmentsComplete
    BY DEF Inv
<1> QED
    BY InitInv, InvStep, <1>1, PTL DEF Spec

-----------------------------------------------------------------------------
\* What the applications can see of the stores.


\* No message of a kind is in sequence c, or one only, for segment seg.
NoneOf(c, kind) == \A p \in 1 .. Len(c) : c[p].kind # kind
OneOf(c, kind, seg) ==
    \E p \in 1 .. Len(c) :
        /\ c[p].kind = kind /\ c[p].seg = seg
        /\ \A q \in 1 .. Len(c) : c[q].kind = kind => q = p

Keeps(c, d, kind) ==
    /\ NoneOf(c, kind) => NoneOf(d, kind)
    /\ \A seg : OneOf(c, kind, seg) => OneOf(d, kind, seg)

NoRequest(n) == \A j \in Nodes : NoneOf(channel[n][j], "WaitAndGet")
NoReply(n)   == \A j \in Nodes : NoneOf(channel[j][n], "Reply")

Requested(n, seg) ==
    /\ OneOf(channel[n][HomeId(seg)], "WaitAndGet", seg)
    /\ \A j \in Nodes \ {HomeId(seg)} : NoneOf(channel[n][j], "WaitAndGet")
Replied(n, seg) ==
    /\ OneOf(channel[HomeId(seg)][n], "Reply", seg)
    /\ \A j \in Nodes \ {HomeId(seg)} : NoneOf(channel[j][n], "Reply")

Awaiting(n) == app[n].pc \in ReadingPcs

\* Nothing of node n is under way, or one of a request, a reply on a
\* connection and a reply in the queue, for the segment it waits for.
NothingPending(n) == NoRequest(n) /\ NoReply(n) /\ reply_queue[n] = <<>>
OnePending(n, seg) ==
    \/ Requested(n, seg) /\ NoReply(n) /\ reply_queue[n] = <<>>
    \/ NoRequest(n) /\ Replied(n, seg) /\ reply_queue[n] = <<>>
    \/ NoRequest(n) /\ NoReply(n) /\ reply_queue[n] = <<seg>>

ReaderOK(n) ==
    \/ NothingPending(n)
    \/ Awaiting(n) /\ HomeId(app[n].seg) # n /\ OnePending(n, app[n].seg)

ReplyInv == (\A n \in Nodes : ReaderOK(n)) /\ ReplyAnswersRequest

-----------------------------------------------------------------------------
\* What appending to, or taking from, a sequence does to the messages of a kind.

LEMMA AppendKinds ==
    ASSUME NEW c \in Seq(Messages), NEW e \in Messages
    PROVE  /\ \A kind : e.kind # kind => Keeps(c, Append(c, e), kind)
           /\ NoneOf(c, e.kind) => OneOf(Append(c, e), e.kind, e.seg)
<1> DEFINE d == Append(c, e)
<1>1. /\ Len(c) \in Nat /\ Len(d) = Len(c) + 1 /\ d[Len(c) + 1] = e
      /\ \A p \in 1 .. Len(c) : d[p] = c[p]
    BY AppendProperties, LenProperties
<1> HIDE DEF d
<1>2. ASSUME NEW kind, e.kind # kind PROVE Keeps(c, d, kind)
    <2>1. \A q \in 1 .. Len(d) : d[q].kind = kind => q \in 1 .. Len(c) /\ c[q].kind = kind
        BY <1>1, <1>2
    <2>2. \A p \in 1 .. Len(c) : p \in 1 .. Len(d)
        BY <1>1
    <2> QED
        BY <1>1, <2>1, <2>2 DEF Keeps, NoneOf, OneOf
<1>3. NoneOf(c, e.kind) => OneOf(d, e.kind, e.seg)
    <2>1. Len(c) + 1 \in 1 .. Len(d)
        BY <1>1
    <2>2. \A q \in 1 .. Len(d) : q \in 1 .. Len(c) \/ q = Len(c) + 1
        BY <1>1
    <2> QED
        BY <1>1, <2>1, <2>2 DEF NoneOf, OneOf
<1> QED
    BY <1>2, <1>3 DEF d

LEMMA TailKinds ==
    ASSUME NEW c \in Seq(Messages), c # <<>>
    PROVE  /\ \A kind : Head(c).kind # kind => Keeps(c, Tail(c), kind)
           /\ ~ NoneOf(c, Head(c).kind)
           /\ \A seg : OneOf(c, Head(c).kind, seg) =>
                  Head(c).seg = seg /\ NoneOf(Tail(c), Head(c).kind)
<1> DEFINE d == Tail(c)
           e == Head(c)
<1>1. /\ Len(c) \in Nat \ {0} /\ Len(d) = Len(c) - 1 /\ e = c[1]
      /\ \A p \in 1 .. Len(d) : d[p] = c[p + 1]
    BY HeadTailProperties, LenProperties, EmptySeq
<1> HIDE DEF d, e
<1>2. 1 \in 1 .. Len(c) /\ \A p \in 1 .. Len(d) : p + 1 \in 1 .. Len(c) /\ p + 1 # 1
    BY <1>1
<1>3. \A q \in 1 .. Len(c) : q = 1 \/ (q - 1 \in 1 .. Len(d) /\ d[q - 1] = c[q])
    BY <1>1
<1>4. ASSUME NEW kind, e.kind # kind PROVE Keeps(c, d, kind)
    <2>1. NoneOf(c, kind) => NoneOf(d, kind)
        BY <1>1, <1>2 DEF NoneOf
    <2>2. ASSUME NEW seg, OneOf(c, kind, seg) PROVE OneOf(d, kind, seg)
        <3>1. PICK p \in 1 .. Len(c) :
                  /\ c[p].kind = kind /\ c[p].seg = seg
                  /\ \A q \in 1 .. Len(c) : c[q].kind = kind => q = p
            BY <2>2 DEF OneOf
        <3>2. p # 1
            BY <1>1, <1>4, <3>1
        <3>3. p - 1 \in 1 .. Len(d) /\ d[p - 1] = c[p]
            BY <1>3, <3>2
        <3>4. ASSUME NEW q \in 1 .. Len(d), d[q].kind = kind PROVE q = p - 1
            <4>1. q + 1 \in 1 .. Len(c) /\ c[q + 1].kind = kind
                BY <1>1, <1>2, <3>4
            <4>2. q + 1 = p
                BY <3>1, <4>1
            <4> QED
                BY <1>1, <4>2
        <3> QED
            BY <3>1, <3>3, <3>4 DEF OneOf
    <2> QED
        BY <2>1, <2>2 DEF Keeps
<1>5. ~ NoneOf(c, e.kind)
    BY <1>1, <1>2 DEF NoneOf
<1>6. ASSUME NEW seg, OneOf(c, e.kind, seg) PROVE e.seg = seg /\ NoneOf(d, e.kind)
    <2>1. PICK p \in 1 .. Len(c) :
              /\ c[p].kind = e.kind /\ c[p].seg = seg
              /\ \A q \in 1 .. Len(c) : c[q].kind = e.kind => q = p
        BY <1>6 DEF OneOf
    <2>2. p = 1
        BY <1>1, <1>2, <2>1
    <2> QED
        BY <1>1, <1>2, <2>1, <2>2 DEF NoneOf
<1> QED
    BY <1>4, <1>5, <1>6 DEF d, e

LEMMA EmptyKinds == \A kind : NoneOf(<<>>, kind)
BY EmptySeq DEF NoneOf

LEMMA KeepsItself == \A c, kind : Keeps(c, c, kind)
BY DEF Keeps

\* What a send or the handling of a message does to the connections.
LEMMA SendKinds ==
    ASSUME TypeOK, NEW i \in Nodes, NEW j \in Nodes, NEW msg \in Messages,
           Send(i, j, msg)
    PROVE  /\ \A a, b \in Nodes : \A kind :
                ~ (a = i /\ b = j /\ kind = msg.kind) =>
                    Keeps(channel[a][b], channel'[a][b], kind)
           /\ Running(j) /\ NoneOf(channel[i][j], msg.kind) =>
                OneOf(channel'[i][j], msg.kind, msg.seg)
           /\ ~ Running(j) => channel' = channel
<1>1. CASE ~ Running(j)
    BY <1>1, KeepsItself DEF Send
<1>2. CASE Running(j)
    <2>1. \A a, b \in Nodes : channel'[a][b] =
              IF a = i /\ b = j THEN Append(channel[a][b], msg) ELSE channel[a][b]
        BY <1>2 DEF Send, TypeOK
    <2>2. channel[i][j] \in Seq(Messages)
        BY ChannelType
    <2> QED
        BY <1>2, <2>1, <2>2, AppendKinds, KeepsItself
<1> QED
    BY <1>1, <1>2

LEMMA ConsumedKinds ==
    ASSUME TypeOK, NEW i \in Nodes, NEW j \in Nodes, channel[i][j] # <<>>
    PROVE  LET kind == Head(channel[i][j]).kind
           IN  /\ Consumed(i, j) \in [Nodes -> [Nodes -> Seq(Messages)]]
               /\ \A a, b \in Nodes : \A k :
                    ~ (a = i /\ b = j /\ k = kind) =>
                        Keeps(channel[a][b], Consumed(i, j)[a][b], k)
               /\ ~ NoneOf(channel[i][j], kind)
               /\ \A seg : OneOf(channel[i][j], kind, seg) =>
                    Msg(i, j) = seg /\ NoneOf(Consumed(i, j)[i][j], kind)
<1>1. channel[i][j] \in Seq(Messages) /\ Tail(channel[i][j]) \in Seq(Messages)
    BY ChannelType, HeadTailProperties
<1>2. Consumed(i, j) \in [Nodes -> [Nodes -> Seq(Messages)]]
    BY <1>1 DEF Consumed, TypeOK
<1>3. \A a, b \in Nodes : Consumed(i, j)[a][b] =
          IF a = i /\ b = j THEN Tail(channel[a][b]) ELSE channel[a][b]
    BY DEF Consumed, TypeOK
<1> DEFINE kind == Head(channel[i][j]).kind
<1>4. ASSUME NEW a \in Nodes, NEW b \in Nodes, NEW k, ~ (a = i /\ b = j /\ k = kind)
      PROVE  Keeps(channel[a][b], Consumed(i, j)[a][b], k)
    <2>1. CASE a = i /\ b = j
        BY <1>1, <1>3, <1>4, <2>1, TailKinds
    <2>2. CASE ~ (a = i /\ b = j)
        BY <1>3, <2>2, KeepsItself
    <2> QED
        BY <2>1, <2>2
<1>5. /\ ~ NoneOf(channel[i][j], kind)
      /\ \A seg : OneOf(channel[i][j], kind, seg) =>
            Msg(i, j) = seg /\ NoneOf(Consumed(i, j)[i][j], kind)
    <2>1. Consumed(i, j)[i][j] = Tail(channel[i][j])
        BY <1>3
    <2>2. /\ ~ NoneOf(channel[i][j], kind)
          /\ \A seg : OneOf(channel[i][j], kind, seg) =>
                Head(channel[i][j]).seg = seg /\ NoneOf(Tail(channel[i][j]), kind)
        BY <1>1, TailKinds
    <2> QED
        BY <2>1, <2>2 DEF Msg
<1> QED
    BY <1>2, <1>4, <1>5

-----------------------------------------------------------------------------
\* A node of which no request or reply is sent, handled or taken.
LEMMA QuietReader ==
    ASSUME NEW n \in Nodes, ReaderOK(n), reply_queue'[n] = reply_queue[n],
           Awaiting(n) => app'[n].pc \in ReadingPcs /\ app'[n].seg = app[n].seg,
           \A j \in Nodes : /\ Keeps(channel[n][j], channel'[n][j], "WaitAndGet")
                            /\ Keeps(channel[j][n], channel'[j][n], "Reply"),
           app[n].seg \in Keys \X Nat \/ ~ Awaiting(n)
    PROVE  ReaderOK(n)'
<1>1. NoRequest(n) => NoRequest(n)'
    BY DEF NoRequest, Keeps
<1>2. NoReply(n) => NoReply(n)'
    BY DEF NoReply, Keeps
<1>3. CASE NothingPending(n)
    BY <1>1, <1>2, <1>3 DEF NothingPending, ReaderOK
<1>4. CASE Awaiting(n) /\ HomeId(app[n].seg) # n /\ OnePending(n, app[n].seg)
    <2> DEFINE seg == app[n].seg
    <2>1. HomeId(seg) \in Nodes
        BY <1>4, HomeIsNode
    <2>2. Awaiting(n)' /\ HomeId(seg)' = HomeId(seg) /\ app'[n].seg = seg
        BY <1>4 DEF Awaiting, HomeId
    <2>3. Requested(n, seg) => OneOf(channel'[n][HomeId(seg)], "WaitAndGet", seg)
              /\ \A j \in Nodes \ {HomeId(seg)} : NoneOf(channel'[n][j], "WaitAndGet")
        BY <2>1 DEF Requested, Keeps
    <2>4. Replied(n, seg) => OneOf(channel'[HomeId(seg)][n], "Reply", seg)
              /\ \A j \in Nodes \ {HomeId(seg)} : NoneOf(channel'[j][n], "Reply")
        BY <2>1 DEF Replied, Keeps
    <2>5. OnePending(n, seg)'
        BY <1>1, <1>2, <1>4, <2>2, <2>3, <2>4 DEF OnePending, Requested, Replied
    <2> QED
        BY <1>4, <2>2, <2>5 DEF ReaderOK
<1> QED
    BY <1>3, <1>4 DEF ReaderOK

\* The steps that send and handle nothing but segments and values, and those of
\* a reader on its way to its reply.
LEMMA QuietSteps ==
    ASSUME Inv, ReplyInv,
           \A n \in Nodes : reply_queue'[n] = reply_queue[n],
           \A n \in Nodes : Awaiting(n) =>
               app'[n].pc \in ReadingPcs /\ app'[n].seg = app[n].seg,
           \A a, b \in Nodes : \A k \in {"WaitAndGet", "Reply"} :
               Keeps(channel[a][b], channel'[a][b], k)
    PROVE  \A n \in Nodes : ReaderOK(n)'
<1> SUFFICES ASSUME NEW n \in Nodes PROVE ReaderOK(n)'
    OBVIOUS
<1>1. app[n].seg \in Keys \X Nat \/ ~ Awaiting(n)
    BY ThreadFacts, SegmentsOfKeys DEF Inv, Awaiting, ReadingPcs
<1> QED
    BY <1>1, QuietReader DEF ReplyInv

LEMMA RequestStep ==
    ASSUME Inv, ReplyInv, NEW n \in Nodes, NEW seg \in AllSegments, RequestDf(n, seg)
    PROVE  \A m \in Nodes : ReaderOK(m)'
<1> DEFINE h == HomeId(seg)
<1>1. /\ TypeOK /\ h \in Nodes /\ h # n /\ WaitAndGet(seg) \in Messages
      /\ WaitAndGet(seg).kind = "WaitAndGet" /\ WaitAndGet(seg).seg = seg
    BY HomeIsNode, SegmentsOfKeys, KindsOfMessages DEF Inv, RequestDf, WaitAndGet
<1>2. NothingPending(n)
    BY DEF ReplyInv, ReaderOK, RequestDf, Idle, Awaiting, ReadingPcs
<1>3. app' = [app EXCEPT ![n] = [pc |-> "await", seg |-> seg]]
    BY SegmentsOfKeys DEF RequestDf, Thread
<1>4. /\ app'[n].pc = "await" /\ app'[n].seg = seg
      /\ \A m \in Nodes \ {n} : app'[m] = app[m]
    BY <1>1, <1>3 DEF TypeOK
<1>5. ASSUME NEW m \in Nodes \ {n},
             reply_queue'[m] = reply_queue[m],
             \A a, b \in Nodes : /\ a # n => Keeps(channel[a][b], channel'[a][b], "WaitAndGet")
                                 /\ Keeps(channel[a][b], channel'[a][b], "Reply")
      PROVE  ReaderOK(m)'
    <2>1. app[m].seg \in Keys \X Nat \/ ~ Awaiting(m)
        BY <1>1, ThreadFacts, SegmentsOfKeys DEF Awaiting, ReadingPcs
    <2> QED
        BY <1>4, <1>5, <2>1, QuietReader DEF ReplyInv, Awaiting
<1>6. CASE Socket /\ Send(n, h, WaitAndGet(seg)) /\ UNCHANGED stopped
    <2>1. /\ \A a, b \in Nodes : \A kind : ~ (a = n /\ b = h /\ kind = "WaitAndGet") =>
                Keeps(channel[a][b], channel'[a][b], kind)
          /\ Running(h) /\ NoneOf(channel[n][h], "WaitAndGet") =>
                OneOf(channel'[n][h], "WaitAndGet", seg)
          /\ ~ Running(h) => channel' = channel
        BY <1>1, <1>6, SendKinds
    <2>2. UNCHANGED reply_queue
        BY <1>6 DEF Send
    <2>3. ReaderOK(n)'
        <3>1. NoReply(n)' /\ (reply_queue[n] = <<>>)'
            BY <1>1, <1>2, <2>1, <2>2 DEF NothingPending, NoReply, Keeps
        <3>2. CASE Running(h)
            <4>1. Requested(n, seg)'
                BY <1>1, <1>2, <2>1, <3>2
                   DEF NothingPending, NoRequest, Requested, Keeps, HomeId
            <4> QED
                BY <1>1, <1>4, <3>1, <4>1 DEF ReaderOK, OnePending, Awaiting, ReadingPcs, HomeId
        <3>3. CASE ~ Running(h)
            BY <1>2, <2>1, <3>1, <3>3 DEF ReaderOK, NothingPending, NoRequest
        <3> QED
            BY <3>2, <3>3
    <2> QED
        BY <1>5, <2>1, <2>2, <2>3
<1>7. CASE QueueReply(n, seg) /\ UNCHANGED <<channel, stopped>>
    <2>1. /\ reply_queue'[n] = Append(reply_queue[n], seg)
          /\ \A m \in Nodes \ {n} : reply_queue'[m] = reply_queue[m]
        BY <1>1, <1>7 DEF QueueReply, TypeOK
    <2>2. reply_queue'[n] = <<seg>>
        BY <1>2, <2>1 DEF NothingPending
    <2>3. ReaderOK(n)'
        <3>1. NoRequest(n)' /\ NoReply(n)'
            BY <1>2, <1>7 DEF NothingPending, NoRequest, NoReply
        <3> QED
            BY <1>1, <1>4, <2>2, <3>1 DEF ReaderOK, OnePending, Awaiting, ReadingPcs, HomeId
    <2> QED
        BY <1>5, <1>7, <2>1, <2>3, KeepsItself
<1>8. CASE AssertFails(n)
    <2>1. UNCHANGED <<reply_queue, channel>>
        BY <1>8 DEF AssertFails
    <2>2. ReaderOK(n)'
        BY <1>2, <2>1 DEF ReaderOK, NothingPending, NoRequest, NoReply
    <2> QED
        BY <1>5, <2>1, <2>2, KeepsItself
<1> QED
    BY <1>6, <1>7, <1>8 DEF RequestDf

LEMMA AnswerStep ==
    ASSUME Inv, ReplyInv, NEW i \in Nodes, NEW j \in Nodes, HandleWaitAndGet(i, j)
    PROVE  \A m \in Nodes : ReaderOK(m)'
<1> DEFINE seg == app[i].seg
<1>1. /\ TypeOK /\ channel[i][j] # <<>> /\ Head(channel[i][j]).kind = "WaitAndGet"
      /\ UNCHANGED <<app, reply_queue>>
    BY DEF Inv, HandleWaitAndGet, Received, AssertFails
<1>2. /\ Consumed(i, j) \in [Nodes -> [Nodes -> Seq(Messages)]]
      /\ \A a, b \in Nodes : \A k : ~ (a = i /\ b = j /\ k = "WaitAndGet") =>
            Keeps(channel[a][b], Consumed(i, j)[a][b], k)
      /\ ~ NoneOf(channel[i][j], "WaitAndGet")
      /\ \A s : OneOf(channel[i][j], "WaitAndGet", s) =>
            Msg(i, j) = s /\ NoneOf(Consumed(i, j)[i][j], "WaitAndGet")
    BY <1>1, ConsumedKinds
<1>3. /\ Awaiting(i) /\ HomeId(seg) = j /\ i # j
      /\ Requested(i, seg) /\ NoReply(i) /\ reply_queue[i] = <<>>
    BY <1>2 DEF ReplyInv, ReaderOK, NothingPending, OnePending, NoRequest, Requested
<1>4. Msg(i, j) = seg /\ NoneOf(Consumed(i, j)[i][j], "WaitAndGet")
    BY <1>2, <1>3 DEF Requested
<1>5. Reply(seg) \in Messages /\ Reply(seg).kind = "Reply" /\ Reply(seg).seg = seg
    <2>1. seg \in AllSegments
        BY <1>1, <1>3, ThreadFacts DEF Awaiting, ReadingPcs
    <2> QED
        BY <2>1, KindsOfMessages DEF Reply
<1>6. ASSUME NEW m \in Nodes \ {i},
             \A a, b \in Nodes : /\ a # i => Keeps(channel[a][b], channel'[a][b], "WaitAndGet")
                                 /\ b # i => Keeps(channel[a][b], channel'[a][b], "Reply")
      PROVE  ReaderOK(m)'
    <2>1. app[m].seg \in Keys \X Nat \/ ~ Awaiting(m)
        BY <1>1, ThreadFacts, SegmentsOfKeys DEF Awaiting, ReadingPcs
    <2> QED
        BY <1>1, <1>6, <2>1, QuietReader DEF ReplyInv, Awaiting
<1>7. NoRequest(i)' /\ NoReply(i)' => ReaderOK(i)'
    BY <1>1, <1>3 DEF ReaderOK, NothingPending
<1>8. CASE channel' = Consumed(i, j)
    <2>1. NoRequest(i)' /\ NoReply(i)'
        BY <1>2, <1>3, <1>4, <1>8 DEF NoRequest, Requested, NoReply, Keeps
    <2> QED
        BY <1>2, <1>6, <1>7, <1>8, <2>1
<1>9. CASE channel' = [Consumed(i, j) EXCEPT ![j][i] = Append(@, Reply(seg))]
    <2>1. \A a, b \in Nodes : channel'[a][b] =
              IF a = j /\ b = i THEN Append(channel[a][b], Reply(seg))
              ELSE Consumed(i, j)[a][b]
        <3>1. Consumed(i, j)[j][i] = channel[j][i]
            BY <1>1, <1>3 DEF Consumed, TypeOK
        <3> QED
            BY <1>2, <1>9, <3>1
    <2>2. channel[j][i] \in Seq(Messages)
        BY <1>1, ChannelType
    <2>3. /\ \A kind : kind # "Reply" => Keeps(channel[j][i], channel'[j][i], kind)
          /\ NoneOf(channel[j][i], "Reply") => OneOf(channel'[j][i], "Reply", seg)
        BY <1>5, <2>1, <2>2, AppendKinds
    <2>4. ReaderOK(i)'
        <3>1. NoRequest(i)'
            <4>1. channel'[i][j] = Consumed(i, j)[i][j]
                BY <1>3, <2>1
            <4>2. ASSUME NEW x \in Nodes \ {j} PROVE NoneOf(channel'[i][x], "WaitAndGet")
                <5>1. NoneOf(channel[i][x], "WaitAndGet")
                    BY <1>3 DEF Requested
                <5>2. channel'[i][x] = Consumed(i, j)[i][x]
                    BY <1>3, <2>1
                <5> QED
                    BY <1>2, <5>1, <5>2 DEF Keeps
            <4> QED
                BY <1>4, <4>1, <4>2 DEF NoRequest
        <3>2. Replied(i, seg)'
            <4>1. seg' = seg /\ HomeId(seg)' = j
                BY <1>1, <1>3 DEF HomeId
            <4>2. OneOf(channel'[j][i], "Reply", seg)
                BY <1>3, <2>3 DEF NoReply
            <4>3. ASSUME NEW x \in Nodes \ {j} PROVE NoneOf(channel'[x][i], "Reply")
                <5>1. NoneOf(channel[x][i], "Reply")
                    BY <1>3 DEF NoReply
                <5>2. channel'[x][i] = Consumed(i, j)[x][i]
                    BY <2>1
                <5> QED
                    BY <1>2, <1>3, <5>1, <5>2 DEF Keeps
            <4> QED
                BY <4>1, <4>2, <4>3 DEF Replied
        <3> QED
            BY <1>1, <1>3, <3>1, <3>2 DEF ReaderOK, OnePending, Awaiting, HomeId
    <2>5. \A a, b \in Nodes :
              /\ a # i => Keeps(channel[a][b], channel'[a][b], "WaitAndGet")
              /\ b # i => Keeps(channel[a][b], channel'[a][b], "Reply")
        BY <1>2, <2>1, <2>3
    <2> QED
        BY <1>6, <2>4, <2>5
<1>10. CASE AssertFails(j)
    BY <1>1, <1>10, KeepsItself, QuietSteps DEF AssertFails, Awaiting
<1> QED
    BY <1>4, <1>8, <1>9, <1>10 DEF HandleWaitAndGet

LEMMA ReplyStep ==
    ASSUME Inv, ReplyInv, NEW i \in Nodes, NEW j \in Nodes, HandleReply(i, j)
    PROVE  \A m \in Nodes : ReaderOK(m)'
<1> DEFINE seg == app[j].seg
<1>1. /\ TypeOK /\ channel[i][j] # <<>> /\ Head(channel[i][j]).kind = "Reply"
      /\ UNCHANGED app /\ channel' = Consumed(i, j)
      /\ reply_queue' = [reply_queue EXCEPT ![j] = Append(@, Msg(i, j))]
    BY DEF Inv, HandleReply, Received, QueueReply
<1>2. /\ \A a, b \in Nodes : \A k : ~ (a = i /\ b = j /\ k = "Reply") =>
            Keeps(channel[a][b], channel'[a][b], k)
      /\ ~ NoneOf(channel[i][j], "Reply")
      /\ \A s : OneOf(channel[i][j], "Reply", s) =>
            Msg(i, j) = s /\ NoneOf(channel'[i][j], "Reply")
    <2> DEFINE e == Head(channel[i][j]).kind
    <2>1. /\ \A a, b \in Nodes : \A k : ~ (a = i /\ b = j /\ k = e) =>
                Keeps(channel[a][b], Consumed(i, j)[a][b], k)
          /\ ~ NoneOf(channel[i][j], e)
          /\ \A s : OneOf(channel[i][j], e, s) =>
                Msg(i, j) = s /\ NoneOf(Consumed(i, j)[i][j], e)
        BY <1>1, ConsumedKinds, Zenon
    <2>2. e = "Reply" /\ channel' = Consumed(i, j)
        BY <1>1, Zenon
    <2> HIDE DEF e
    <2> QED
        BY <2>1, <2>2, Zenon
<1>3. /\ Awaiting(j) /\ HomeId(seg) = i /\ i # j
      /\ NoRequest(j) /\ Replied(j, seg) /\ reply_queue[j] = <<>>
    BY <1>2 DEF ReplyInv, ReaderOK, NothingPending, OnePending, NoReply, Replied
<1>4. ReaderOK(j)'
    <2>1. NoRequest(j)' /\ NoReply(j)'
        BY <1>2, <1>3 DEF NoRequest, NoReply, Replied, Keeps
    <2>2. reply_queue'[j] = <<seg>>
        <3>1. Msg(i, j) = seg
            BY <1>2, <1>3 DEF Replied
        <3>2. reply_queue'[j] = Append(reply_queue[j], Msg(i, j))
            BY <1>1 DEF TypeOK
        <3> HIDE DEF seg
        <3> QED
            BY <1>3, <3>1, <3>2
    <2> QED
        BY <1>1, <1>3, <2>1, <2>2 DEF ReaderOK, OnePending, Awaiting, HomeId
<1>5. ASSUME NEW m \in Nodes \ {j} PROVE ReaderOK(m)'
    <2>1. app[m].seg \in Keys \X Nat \/ ~ Awaiting(m)
        BY <1>1, ThreadFacts, SegmentsOfKeys DEF Awaiting, ReadingPcs
    <2>2. reply_queue'[m] = reply_queue[m]
        BY <1>1 DEF TypeOK
    <2> QED
        BY <1>1, <1>2, <2>1, <2>2, QuietReader DEF ReplyInv, Awaiting
<1> QED
    BY <1>4, <1>5

LEMMA TakeStep ==
    ASSUME Inv, ReplyInv, NEW n \in Nodes, TakeReply(n)
    PROVE  ReplyInv'
<1> DEFINE seg == app[n].seg
<1>1. TypeOK /\ reply_queue[n] # <<>> /\ UNCHANGED channel
    BY DEF Inv, TakeReply
<1>2. NoRequest(n) /\ NoReply(n) /\ reply_queue[n] = <<seg>>
    BY <1>1 DEF ReplyInv, ReaderOK, NothingPending, OnePending
<1>3. /\ got' = [got EXCEPT ![n] = <<seg, seg>>]
      /\ reply_queue' = [reply_queue EXCEPT ![n] = <<>>]
    BY <1>2 DEF TakeReply
<1>4. ASSUME NEW m \in Nodes \ {n} PROVE ReaderOK(m)'
    <2>1. ReaderOK(m)
        BY Zenon DEF ReplyInv
    <2>2. reply_queue'[m] = reply_queue[m]
        BY <1>1, <1>3 DEF TypeOK
    <2>3. app'[m] = app[m]
        BY <1>1 DEF TakeReply, TypeOK
    <2>4. /\ NoRequest(m)' = NoRequest(m) /\ NoReply(m)' = NoReply(m)
          /\ \A x : HomeId(x)' = HomeId(x)
          /\ \A x : Requested(m, x)' = Requested(m, x) /\ Replied(m, x)' = Replied(m, x)
        BY <1>1 DEF NoRequest, NoReply, Requested, Replied, HomeId
    <2> QED
        BY <2>1, <2>2, <2>3, <2>4, Zenon DEF ReaderOK, NothingPending, OnePending, Awaiting
<1>5. ReaderOK(n)'
    BY <1>1, <1>2, <1>3 DEF ReaderOK, NothingPending, NoRequest, NoReply, TypeOK
<1>6. ReplyAnswersRequest'
    BY <1>1, <1>3 DEF ReplyInv, ReplyAnswersRequest, TypeOK
<1> QED
    BY <1>4, <1>5, <1>6 DEF ReplyInv

\* Everything that was under way to a node that fails is lost, the rest is not.
LEMMA CrashStep ==
    ASSUME Inv, ReplyInv, NEW n \in Nodes, Crash(n)
    PROVE  \A m \in Nodes : ReaderOK(m)'
<1>1. /\ TypeOK /\ UNCHANGED <<app, reply_queue>>
      /\ channel' = [i \in Nodes |-> [channel[i] EXCEPT ![n] = <<>>]]
    BY DEF Inv, Crash
<1>2. \A a, b \in Nodes : channel'[a][b] = IF b = n THEN <<>> ELSE channel[a][b]
    BY <1>1, ChannelType
<1>3. \A a, b \in Nodes : \A kind :
          NoneOf(channel[a][b], kind) => NoneOf(channel'[a][b], kind)
    BY <1>2, EmptyKinds
<1> SUFFICES ASSUME NEW m \in Nodes PROVE ReaderOK(m)'
    OBVIOUS
<1>4. /\ NoRequest(m) => NoRequest(m)'
      /\ NoReply(m) => NoReply(m)'
    BY <1>3 DEF NoRequest, NoReply
<1> DEFINE seg == app[m].seg
           h == HomeId(seg)
<1>5. (app[m].seg)' = seg /\ HomeId(seg)' = h
    BY <1>1 DEF HomeId
<1>6. CASE NothingPending(m)
    BY <1>1, <1>4, <1>6 DEF NothingPending, ReaderOK
<1>7. CASE Awaiting(m) /\ h # m /\ OnePending(m, seg)
    <2>1. Awaiting(m)'
        BY <1>1, <1>7 DEF Awaiting
    <2>2. h \in Nodes
        BY <1>1, <1>7, ThreadFacts, SegmentsOfKeys, HomeIsNode DEF Awaiting, ReadingPcs
    <2>3. ASSUME Requested(m, seg) PROVE NoRequest(m)' \/ Requested(m, seg)'
        <3>1. \A j \in Nodes \ {h} : NoneOf(channel'[m][j], "WaitAndGet")
            BY <1>3, <2>3 DEF Requested
        <3>2. channel'[m][h] = <<>> \/ channel'[m][h] = channel[m][h]
            BY <1>2, <2>2
        <3>3. NoneOf(channel'[m][h], "WaitAndGet") \/ OneOf(channel'[m][h], "WaitAndGet", seg)
            BY <2>3, <3>2, EmptyKinds DEF Requested
        <3> QED
            BY <1>5, <3>1, <3>3 DEF Requested, NoRequest
    <2>4. ASSUME Replied(m, seg) PROVE NoReply(m)' \/ Replied(m, seg)'
        <3>1. \A j \in Nodes \ {h} : NoneOf(channel'[j][m], "Reply")
            BY <1>3, <2>4 DEF Replied
        <3>2. channel'[h][m] = <<>> \/ channel'[h][m] = channel[h][m]
            BY <1>2, <2>2
        <3>3. NoneOf(channel'[h][m], "Reply") \/ OneOf(channel'[h][m], "Reply", seg)
            BY <2>4, <3>2, EmptyKinds DEF Replied
        <3> QED
            BY <1>5, <3>1, <3>3 DEF Replied, NoReply
    <2>5. NothingPending(m)' \/ OnePending(m, seg)'
        BY <1>1, <1>4, <1>5, <1>7, <2>3, <2>4 DEF OnePending, NothingPending
    <2> QED
        BY <1>5, <1>7, <2>1, <2>5 DEF ReaderOK
<1> QED
    BY <1>6, <1>7 DEF ReplyInv, ReaderOK

-----------------------------------------------------------------------------
LEMMA InitReply == Init => ReplyInv
BY EmptyKinds DEF Init, ReplyInv, ReaderOK, NothingPending, NoRequest, NoReply,
   ReplyAnswersRequest

\* A producer's message, or none: nothing a reader waits for.
LEMMA SendQuiet ==
    ASSUME TypeOK, NEW i \in Nodes, NEW j \in Nodes, NEW msg \in Messages,
           msg.kind \notin {"WaitAndGet", "Reply"}, Send(i, j, msg)
    PROVE  /\ UNCHANGED reply_queue
           /\ \A a, b \in Nodes : \A k \in {"WaitAndGet", "Reply"} :
                 Keeps(channel[a][b], channel'[a][b], k)
<1>1. UNCHANGED reply_queue
    BY DEF Send
<1>2. \A a, b \in Nodes : \A kind : ~ (a = i /\ b = j /\ kind = msg.kind) =>
          Keeps(channel[a][b], channel'[a][b], kind)
    BY SendKinds
<1> QED
    BY <1>1, <1>2

LEMMA ProduceStep ==
    ASSUME Inv, ReplyInv, NEW n \in Nodes,
           Produce(n) \/ \E k \in Keys : StartProducing(n, k)
    PROVE  \A m \in Nodes : ReaderOK(m)'
<1> DEFINE seg == app[n].seg
<1>1. TypeOK /\ app[n].pc \notin ReadingPcs /\ app \in [Nodes -> Threads]
    <2>1. TypeOK /\ app \in [Nodes -> Threads]
        BY DEF Inv, TypeOK
    <2>2. app[n].pc \in {"idle", "produce", "broadcast"}
        BY DEF Produce, PutDf, PutOwnValue, BroadcastValue, StartProducing, Idle
    <2> QED
        BY <2>1, <2>2 DEF ReadingPcs
<1>2. \A m \in Nodes \ {n} : app'[m] = app[m]
    <2>1. \E t : app' = [app EXCEPT ![n] = t]
        BY DEF Produce, PutDf, PutOwnValue, BroadcastValue, StartProducing
    <2> QED
        BY <1>1, <2>1
<1>3. \A m \in Nodes : Awaiting(m) => app'[m].pc \in ReadingPcs /\ app'[m].seg = app[m].seg
    BY <1>1, <1>2 DEF Awaiting
<1>4. \/ UNCHANGED <<reply_queue, channel>>
      \/ \E j \in Nodes, msg \in Messages :
            msg.kind \notin {"WaitAndGet", "Reply"} /\ Send(n, j, msg)
    <2>1. CASE PutDf(n)
        <3>1. /\ seg \in Keys \X Nat /\ seg = <<seg[1], seg[2]>>
              /\ seg[2] \in 0 .. NumSegments[seg[1]] - 1
            <4>1. seg \in Keys \X Nat /\ seg[2] < NumSegments[seg[1]]
                BY <1>1, <2>1, ThreadFacts DEF PutDf
            <4> QED
                BY <4>1, SegmentsAssumption
        <3>2. Put(seg) \in Messages /\ Put(seg).kind = "Put" /\ HomeId(seg) \in Nodes
            BY <3>1, SegmentsOfKeys, KindsOfMessages, HomeIsNode DEF Put
        <3>3. \/ UNCHANGED <<reply_queue, channel>>
              \/ Send(n, HomeId(seg), Put(seg))
            BY <2>1 DEF PutDf, StoreDf
        <3> HIDE DEF seg
        <3> QED
            BY <3>2, <3>3
    <2>2. CASE PutOwnValue(n)
        BY <2>2 DEF PutOwnValue, StoreValue
    <2>3. CASE BroadcastValue(n)
        <3>1. seg[1] \in Keys /\ seg[2] \in Nodes
            BY <1>1, <2>3, ThreadFacts DEF BroadcastValue, Inv, ProducerInv, ProducerOK
        <3>2. PutValue(seg[1]) \in Messages /\ PutValue(seg[1]).kind = "PutValue"
            BY <3>1, KindsOfMessages DEF PutValue
        <3>3. \/ UNCHANGED <<reply_queue, channel>>
              \/ Send(n, seg[2], PutValue(seg[1]))
            BY <2>3 DEF BroadcastValue, StoreValue
        <3> HIDE DEF seg
        <3> QED
            BY <3>1, <3>2, <3>3
    <2>4. CASE \E k \in Keys : StartProducing(n, k)
        BY <2>4 DEF StartProducing
    <2> QED
        BY <2>1, <2>2, <2>3, <2>4 DEF Produce
<1>5. /\ UNCHANGED reply_queue
      /\ \A a, b \in Nodes : \A k \in {"WaitAndGet", "Reply"} :
            Keeps(channel[a][b], channel'[a][b], k)
    <2>1. CASE UNCHANGED <<reply_queue, channel>>
        BY <2>1, KeepsItself
    <2>2. ASSUME NEW j \in Nodes, NEW msg \in Messages,
                 msg.kind \notin {"WaitAndGet", "Reply"}, Send(n, j, msg)
          PROVE  /\ UNCHANGED reply_queue
                 /\ \A a, b \in Nodes : \A k \in {"WaitAndGet", "Reply"} :
                       Keeps(channel[a][b], channel'[a][b], k)
        BY <1>1, <2>2, SendQuiet
    <2> QED
        BY <1>4, <2>1, <2>2
<1> QED
    BY <1>3, <1>5, QuietSteps

\* The steps of a reader on its way to its reply, and the notify.
LEMMA ReaderMoves ==
    ASSUME Inv, ReplyInv, NEW n \in Nodes,
           \/ CheckReply(n) \/ SleepForReply(n) \/ WakeSpuriously(n)
           \/ TakeNoReply(n) \/ NotifyReader(n)
    PROVE  \A m \in Nodes : ReaderOK(m)'
<1>1. TypeOK /\ app \in [Nodes -> Threads] /\ UNCHANGED <<reply_queue, channel>>
    BY DEF Inv, TypeOK, CheckReply, SleepForReply, WakeSpuriously, TakeNoReply, NotifyReader
<1>2. \/ app' = app
      \/ /\ app[n].pc \in ReadingPcs
         /\ \E pc \in ReadingPcs : app' = [app EXCEPT ![n].pc = pc]
    BY DEF CheckReply, SleepForReply, WakeSpuriously, TakeNoReply, NotifyReader, ReadingPcs
<1>3. \A m \in Nodes : Awaiting(m) => app'[m].pc \in ReadingPcs /\ app'[m].seg = app[m].seg
    <2>1. CASE app' = app
        BY <2>1 DEF Awaiting
    <2>2. ASSUME app[n].pc \in ReadingPcs, NEW pc \in ReadingPcs,
                 app' = [app EXCEPT ![n] = [app[n] EXCEPT !.pc = pc]]
          PROVE  \A m \in Nodes : Awaiting(m) =>
                     app'[m].pc \in ReadingPcs /\ app'[m].seg = app[m].seg
        <3>1. app[n] \in [pc : ReadingPcs, seg : AllSegments]
            BY <1>1, <2>2 DEF Threads, Idle, ReadingPcs
        <3>2. [app[n] EXCEPT !.pc = pc].pc = pc /\ [app[n] EXCEPT !.pc = pc].seg = app[n].seg
            BY <3>1
        <3>3. app'[n] = [app[n] EXCEPT !.pc = pc] /\ \A i \in Nodes \ {n} : app'[i] = app[i]
            BY <1>1, <2>2
        <3> QED
            BY <2>2, <3>2, <3>3 DEF Awaiting
    <2> QED
        BY <1>2, <2>1, <2>2
<1> QED
    BY <1>1, <1>3, KeepsItself, QuietSteps

LEMMA StorePutStep ==
    ASSUME Inv, ReplyInv, NEW i \in Nodes, NEW j \in Nodes, HandlePut(i, j)
    PROVE  \A m \in Nodes : ReaderOK(m)'
<1>1. /\ TypeOK /\ UNCHANGED <<app, reply_queue>> /\ channel[i][j] # <<>>
      /\ Head(channel[i][j]).kind \in {"Put", "PutValue"} /\ channel' = Consumed(i, j)
    BY DEF Inv, HandlePut, Received, StoreDf, StoreValue
<1>2. \A a, b \in Nodes : \A k : ~ (a = i /\ b = j /\ k = Head(channel[i][j]).kind) =>
          Keeps(channel[a][b], Consumed(i, j)[a][b], k)
    BY <1>1, ConsumedKinds
<1>3. \A a, b \in Nodes : \A k \in {"WaitAndGet", "Reply"} :
          Keeps(channel[a][b], channel'[a][b], k)
    BY <1>1, <1>2
<1> QED
    BY <1>1, <1>3, QuietSteps DEF Awaiting

LEMMA ReplyInvStep == Inv /\ ReplyInv /\ [Next]_vars => ReplyInv'
<1> SUFFICES ASSUME Inv, ReplyInv, [Next]_vars PROVE ReplyInv'
    OBVIOUS
<1>1. ASSUME NEW n \in Nodes, TakeReply(n) PROVE ReplyInv'
    BY <1>1, TakeStep
<1>2. ASSUME NEW n \in Nodes, NEW seg \in AllSegments, GetOwnDf(n, seg) PROVE ReplyInv'
    <2>1. /\ UNCHANGED <<app, channel, reply_queue>>
          /\ got' = got \/ got' = [got EXCEPT ![n] = <<seg, seg>>]
        BY <1>2 DEF GetOwnDf, AssertFails
    <2>2. \A m \in Nodes : ReaderOK(m)'
        BY <2>1, KeepsItself, QuietSteps DEF Awaiting
    <2>3. ReplyAnswersRequest'
        <3>1. CASE got' = got
            BY <3>1 DEF ReplyInv, ReplyAnswersRequest
        <3>2. CASE got' = [got EXCEPT ![n] = <<seg, seg>>]
            BY <3>2 DEF ReplyInv, ReplyAnswersRequest, Inv, TypeOK
        <3> QED
            BY <2>1, <3>1, <3>2
    <2> QED
        BY <2>2, <2>3 DEF ReplyInv
<1>3. ASSUME UNCHANGED got, \A m \in Nodes : ReaderOK(m)' PROVE ReplyInv'
    BY <1>3 DEF ReplyInv, ReplyAnswersRequest
<1>4. ASSUME NEW n \in Nodes, Produce(n) \/ \E k \in Keys : StartProducing(n, k)
      PROVE  ReplyInv'
    <2>1. UNCHANGED got
        BY <1>4 DEF Produce, PutDf, PutOwnValue, BroadcastValue, StartProducing
    <2> QED
        BY <1>3, <1>4, <2>1, ProduceStep
<1>5. ASSUME NEW n \in Nodes, NEW seg \in AllSegments, RequestDf(n, seg) PROVE ReplyInv'
    <2>1. UNCHANGED got
        BY <1>5 DEF RequestDf
    <2> QED
        BY <1>3, <1>5, <2>1, RequestStep
<1>6. ASSUME NEW n \in Nodes,
             \/ CheckReply(n) \/ SleepForReply(n) \/ WakeSpuriously(n)
             \/ TakeNoReply(n) \/ NotifyReader(n)
      PROVE  ReplyInv'
    <2>1. UNCHANGED got
        BY <1>6 DEF CheckReply, SleepForReply, WakeSpuriously, TakeNoReply, NotifyReader
    <2> QED
        BY <1>3, <1>6, <2>1, ReaderMoves
<1>7. ASSUME NEW j \in Nodes, NEW i \in Nodes,
             HandlePut(i, j) \/ HandleWaitAndGet(i, j) \/ HandleReply(i, j)
      PROVE  ReplyInv'
    <2>1. UNCHANGED got
        BY <1>7 DEF HandlePut, HandleWaitAndGet, HandleReply
    <2> QED
        BY <1>3, <1>7, <2>1, StorePutStep, AnswerStep, ReplyStep
<1>8. ASSUME NEW n \in Nodes, Crash(n) PROVE ReplyInv'
    <2>1. UNCHANGED got
        BY <1>8 DEF Crash
    <2> QED
        BY <1>3, <1>8, <2>1, CrashStep
<1>9. CASE UNCHANGED vars
    <2>1. UNCHANGED <<app, channel, reply_queue, got>>
        BY <1>9 DEF vars
    <2>2. \A m \in Nodes : ReaderOK(m)'
        BY <2>1, KeepsItself, QuietSteps DEF Awaiting
    <2> QED
        BY <1>3, <2>1, <2>2
<1> QED
    BY <1>1, <1>2, <1>4, <1>5, <1>6, <1>7, <1>8, <1>9 DEF Next, Network, AwaitReply

\* A reader gets the segment it asked for, for any number of nodes, values and
\* segments, with either transport, spurious wakeups and any failures of nodes:
\* no reply is left in the queue for a later request to take.
THEOREM RepliesRight == Spec => []ReplyAnswersRequest
<1>1. Init => Inv /\ ReplyInv
    BY InitInv, InitReply
<1>2. Inv /\ ReplyInv /\ [Next]_vars => (Inv /\ ReplyInv)'
    BY InvStep, ReplyInvStep
<1>3. ReplyInv => ReplyAnswersRequest
    BY DEF ReplyInv
<1> QED
    BY <1>1, <1>2, <1>3, PTL DEF Spec

-----------------------------------------------------------------------------
\* What is published, and who can know it.

Published == {k \in Keys : k \in kv_map[Owner[k]]}

\* The values in sequence c are among those of K.
ValuesAmong(c, K) == \A p \in 1 .. Len(c) : \A k \in Keys : c[p] = PutValue(k) => k \in K

\* An application produces only values of its own, broadcasts one that its
\* node has put, and reads segments of one that its node knows.
ThreadKnows(n) ==
    LET k == app[n].seg[1]
    IN  /\ app[n].pc \in {"produce", "broadcast"} => Owner[k] = n
        /\ app[n].pc = "broadcast" => k \in kv_map[n]
        /\ Awaiting(n) => k \in kv_map[n]

\* A value under way is one that its owner has put.
KnownInv ==
    /\ \A n \in Nodes : ThreadKnows(n)
    /\ \A i, j \in Nodes : ValuesAmong(channel[i][j], Published)

-----------------------------------------------------------------------------
\* What appending to, or taking from, a connection does to the values in it.

LEMMA ValuesAppend ==
    ASSUME NEW c \in Seq(Messages), NEW e \in Messages, NEW K, ValuesAmong(c, K),
           \A k \in Keys : e = PutValue(k) => k \in K
    PROVE  ValuesAmong(Append(c, e), K)
<1> DEFINE d == Append(c, e)
<1>1. /\ Len(c) \in Nat /\ Len(d) = Len(c) + 1 /\ d[Len(c) + 1] = e
      /\ \A p \in 1 .. Len(c) : d[p] = c[p]
    BY AppendProperties, LenProperties
<1> HIDE DEF d
<1>2. \A p \in 1 .. Len(d) : p \in 1 .. Len(c) \/ p = Len(c) + 1
    BY <1>1
<1>3. ValuesAmong(d, K)
    BY <1>1, <1>2 DEF ValuesAmong
<1> QED
    BY <1>3 DEF d

LEMMA ValuesTail ==
    ASSUME NEW c \in Seq(Messages), c # <<>>, NEW K, ValuesAmong(c, K)
    PROVE  /\ ValuesAmong(Tail(c), K)
           /\ \A k \in Keys : Head(c) = PutValue(k) => k \in K
<1> DEFINE d == Tail(c)
<1>1. /\ Len(c) \in Nat \ {0} /\ Len(d) = Len(c) - 1 /\ Head(c) = c[1]
      /\ \A p \in 1 .. Len(d) : d[p] = c[p + 1]
    BY HeadTailProperties, LenProperties, EmptySeq
<1> HIDE DEF d
<1>2. 1 \in 1 .. Len(c) /\ \A p \in 1 .. Len(d) : p + 1 \in 1 .. Len(c)
    BY <1>1
<1>3. ValuesAmong(d, K)
    BY <1>1, <1>2 DEF ValuesAmong
<1> QED
    BY <1>1, <1>2, <1>3 DEF d, ValuesAmong

\* The same for the sends and the handlers of the model.
LEMMA SendValues ==
    ASSUME TypeOK, KnownInv, NEW i \in Nodes, NEW j \in Nodes, NEW msg \in Messages,
           \A k \in Keys : msg = PutValue(k) => k \in Published,
           Send(i, j, msg)
    PROVE  \A a, b \in Nodes : ValuesAmong(channel'[a][b], Published)
<1>1. CASE ~ Running(j)
    BY <1>1 DEF Send, KnownInv
<1>2. CASE Running(j)
    <2>1. \A a, b \in Nodes : channel'[a][b] =
              IF a = i /\ b = j THEN Append(channel[a][b], msg) ELSE channel[a][b]
        BY <1>2 DEF Send, TypeOK
    <2>2. channel[i][j] \in Seq(Messages)
        BY ChannelType
    <2>3. ValuesAmong(Append(channel[i][j], msg), Published)
        BY <2>2, ValuesAppend DEF KnownInv
    <2> QED
        BY <2>1, <2>3 DEF KnownInv
<1> QED
    BY <1>1, <1>2

LEMMA ConsumedValues ==
    ASSUME TypeOK, KnownInv, NEW i \in Nodes, NEW j \in Nodes, channel[i][j] # <<>>
    PROVE  /\ \A a, b \in Nodes : ValuesAmong(Consumed(i, j)[a][b], Published)
           /\ Consumed(i, j) \in [Nodes -> [Nodes -> Seq(Messages)]]
           /\ \A k \in Keys : Head(channel[i][j]) = PutValue(k) => k \in Published
<1>1. channel[i][j] \in Seq(Messages) /\ Tail(channel[i][j]) \in Seq(Messages)
    BY ChannelType, HeadTailProperties
<1>2. \A a, b \in Nodes : Consumed(i, j)[a][b] =
          IF a = i /\ b = j THEN Tail(channel[a][b]) ELSE channel[a][b]
    BY DEF Consumed, TypeOK
<1>3. /\ ValuesAmong(Tail(channel[i][j]), Published)
      /\ \A k \in Keys : Head(channel[i][j]) = PutValue(k) => k \in Published
    BY <1>1, ValuesTail DEF KnownInv
<1>4. Consumed(i, j) \in [Nodes -> [Nodes -> Seq(Messages)]]
    BY <1>1 DEF Consumed, TypeOK
<1>5. ASSUME NEW a \in Nodes, NEW b \in Nodes
      PROVE  ValuesAmong(Consumed(i, j)[a][b], Published)
    <2>1. CASE a = i /\ b = j
        BY <1>2, <1>3, <2>1
    <2>2. CASE ~ (a = i /\ b = j)
        BY <1>2, <2>2 DEF KnownInv
    <2> QED
        BY <2>1, <2>2
<1> QED
    BY <1>3, <1>4, <1>5

-----------------------------------------------------------------------------
\* What a step has to show for the invariant: stores only grow, a thread stays
\* where it is or moves on with its reading, and what is sent is published.
LEMMA KnownKept ==
    ASSUME TypeOK, KnownInv,
           \A n \in Nodes : kv_map[n] \subseteq kv_map'[n],
           \A n \in Nodes :
              \/ ThreadKnows(n)' \/ app'[n] = app[n]
              \/ Awaiting(n) /\ app'[n].pc \in ReadingPcs /\ app'[n].seg = app[n].seg,
           \A i, j \in Nodes : ValuesAmong(channel'[i][j], Published)
    PROVE  KnownInv'
<1>1. \A n \in Nodes : ThreadKnows(n)'
    BY DEF KnownInv, ThreadKnows, Awaiting, ReadingPcs
<1>2. Published \subseteq Published'
    BY OwnerAssumption DEF Published
<1>3. \A i, j \in Nodes : ValuesAmong(channel'[i][j], Published')
    BY <1>2 DEF ValuesAmong
<1> QED
    BY <1>1, <1>3 DEF KnownInv, ValuesAmong, PutValue

\* A step that only moves application threads or queues, or stops nodes.
LEMMA KnownKeptQuietly ==
    ASSUME TypeOK, KnownInv, UNCHANGED <<kv_map, channel>>,
           \A n \in Nodes :
              \/ ThreadKnows(n)' \/ app'[n] = app[n]
              \/ Awaiting(n) /\ app'[n].pc \in ReadingPcs /\ app'[n].seg = app[n].seg
    PROVE  KnownInv'
<1>1. \A i, j \in Nodes : ValuesAmong(channel'[i][j], Published)
    BY DEF KnownInv
<1> QED
    BY <1>1, KnownKept

LEMMA StoreValueGrows ==
    ASSUME TypeOK, NEW n \in Nodes, NEW k \in Keys, StoreValue(n, k)
    PROVE  /\ \A m \in Nodes : kv_map'[m] = IF m = n THEN kv_map[m] \cup {k} ELSE kv_map[m]
           /\ \A m \in Nodes : kv_map[m] \subseteq kv_map'[m]
BY DEF StoreValue, TypeOK

\* The steps of an application that produces a value.
LEMMA ProducerKnows ==
    ASSUME Inv, KnownInv, NEW n \in Nodes,
           Produce(n) \/ \E k \in Keys : StartProducing(n, k)
    PROVE  KnownInv'
<1> DEFINE seg == app[n].seg
           k == seg[1]
<1>0. TypeOK /\ app \in [Nodes -> Threads] /\ ThreadKnows(n)
    BY DEF Inv, TypeOK, KnownInv
<1>1. CASE \E j \in Keys : StartProducing(n, j)
    <2>1. PICK j \in Keys : StartProducing(n, j)
        BY <1>1
    <2>2. ThreadKnows(n)' /\ \A m \in Nodes \ {n} : app'[m] = app[m]
        BY <1>0, <2>1 DEF StartProducing, Thread, ThreadKnows, Awaiting, ReadingPcs
    <2> QED
        BY <1>0, <2>1, <2>2, KnownKeptQuietly DEF StartProducing
<1>2. CASE PutDf(n)
    <2>1. /\ seg \in Keys \X Nat /\ seg = <<k, seg[2]>>
          /\ seg[2] \in 0 .. NumSegments[k] - 1
        <3>1. seg \in Keys \X Nat /\ seg[2] < NumSegments[k]
            BY <1>0, <1>2, ThreadFacts DEF PutDf
        <3> QED
            BY <3>1, SegmentsAssumption
    <2>2. app' = [app EXCEPT ![n] = Thread("produce", k, seg[2] + 1)] /\ app[n].pc = "produce"
        BY <1>2 DEF PutDf
    <2>3. ThreadKnows(n)' /\ \A m \in Nodes \ {n} : app'[m] = app[m]
        BY <1>0, <2>2 DEF Thread, ThreadKnows, Awaiting, ReadingPcs
    <2>4. UNCHANGED kv_map /\ (UNCHANGED channel \/ Send(n, HomeId(seg), Put(seg)))
        BY <1>2 DEF PutDf, StoreDf, Send
    <2>5. /\ HomeId(seg) \in Nodes /\ Put(seg) \in Messages
          /\ \A j \in Keys : Put(seg) # PutValue(j)
        <3>1. seg \in AllSegments
            BY <2>1, SegmentsOfKeys
        <3> HIDE DEF seg
        <3> QED
            BY <2>1, <3>1, KindsOfMessages, HomeIsNode
    <2> HIDE DEF seg
    <2>6. \A i, j \in Nodes : ValuesAmong(channel'[i][j], Published)
        BY <1>0, <2>4, <2>5, SendValues DEF KnownInv
    <2> QED
        BY <1>0, <2>3, <2>4, <2>6, KnownKept
<1>3. CASE PutOwnValue(n)
    <2>1. /\ k \in Keys /\ StoreValue(n, k) /\ UNCHANGED channel
          /\ app' = [app EXCEPT ![n] = Thread("broadcast", k, 0)]
          /\ app[n].pc = "produce"
        BY <1>0, <1>3, ThreadFacts DEF PutOwnValue
    <2> HIDE DEF k
    <2>2. /\ k \in kv_map'[n]
          /\ \A m \in Nodes : kv_map[m] \subseteq kv_map'[m]
        BY <1>0, <2>1 DEF StoreValue, TypeOK
    <2>3. ThreadKnows(n)' /\ \A m \in Nodes \ {n} : app'[m] = app[m]
        BY <1>0, <2>1, <2>2 DEF Thread, ThreadKnows, Awaiting, ReadingPcs, k
    <2>4. \A i, j \in Nodes : ValuesAmong(channel'[i][j], Published)
        BY <2>1 DEF KnownInv
    <2> QED
        BY <1>0, <2>2, <2>3, <2>4, KnownKept
<1>4. CASE BroadcastValue(n)
    <2> DEFINE to == seg[2]
    <2>1. /\ k \in Keys /\ to \in Nodes /\ app[n].pc = "broadcast"
          /\ app' = [app EXCEPT ![n] = IF to + 1 = NumNodes THEN Idle
                                       ELSE Thread("broadcast", k, to + 1)]
        BY <1>0, <1>4, ThreadFacts DEF BroadcastValue, Inv, ProducerInv, ProducerOK
    <2>2. \/ UNCHANGED <<kv_map, channel>>
          \/ StoreValue(to, k) /\ UNCHANGED channel
          \/ Send(n, to, PutValue(k)) /\ UNCHANGED kv_map
        BY <1>4 DEF BroadcastValue, Send
    <2>3. k \in kv_map[n] /\ Owner[k] = n
        BY <1>0, <2>1 DEF ThreadKnows
    <2> HIDE DEF k, to
    <2>4. \A m \in Nodes : kv_map[m] \subseteq kv_map'[m]
        BY <1>0, <2>1, <2>2, StoreValueGrows
    <2>5. ThreadKnows(n)' /\ \A m \in Nodes \ {n} : app'[m] = app[m]
        BY <1>0, <2>1, <2>3, <2>4 DEF Thread, Idle, ThreadKnows, Awaiting, ReadingPcs
    <2>6. \A j \in Keys : PutValue(k) = PutValue(j) => j \in Published
        BY <2>1, <2>3, KindsOfMessages DEF Published
    <2>7. \A i, j \in Nodes : ValuesAmong(channel'[i][j], Published)
        BY <1>0, <2>1, <2>2, <2>6, SendValues, KindsOfMessages DEF KnownInv
    <2> QED
        BY <1>0, <2>4, <2>5, <2>7, KnownKept
<1> QED
    BY <1>1, <1>2, <1>3, <1>4 DEF Produce

\* The steps of an application that reads, and the notify of its reply.
LEMMA ReaderKnows ==
    ASSUME TypeOK, KnownInv, NEW n \in Nodes,
           AwaitReply(n) \/ WakeSpuriously(n) \/ NotifyReader(n)
    PROVE  KnownInv'
<1>1. app \in [Nodes -> Threads] /\ UNCHANGED <<kv_map, channel>>
    BY DEF TypeOK, AwaitReply, CheckReply, SleepForReply, TakeReply, TakeNoReply,
        WakeSpuriously, NotifyReader
<1>2. \/ app' = app \/ app' = [app EXCEPT ![n] = Idle]
      \/ /\ app[n].pc \in ReadingPcs
         /\ \E pc \in ReadingPcs : app' = [app EXCEPT ![n].pc = pc]
    BY DEF AwaitReply, CheckReply, SleepForReply, TakeReply, TakeNoReply, WakeSpuriously,
        NotifyReader, ReadingPcs
<1>3. ASSUME app' = [app EXCEPT ![n] = Idle] PROVE KnownInv'
    <2>1. ThreadKnows(n)' /\ \A m \in Nodes \ {n} : app'[m] = app[m]
        BY <1>1, <1>3 DEF Idle, ThreadKnows, Awaiting, ReadingPcs
    <2> QED
        BY <1>1, <2>1, KnownKeptQuietly
<1>4. ASSUME app[n].pc \in ReadingPcs, NEW pc \in ReadingPcs,
             app' = [app EXCEPT ![n] = [app[n] EXCEPT !.pc = pc]]
      PROVE  KnownInv'
    <2>1. app[n] \in [pc : ReadingPcs, seg : AllSegments]
        BY <1>1, <1>4 DEF Threads, Idle, ReadingPcs
    <2>2. [app[n] EXCEPT !.pc = pc].pc = pc /\ [app[n] EXCEPT !.pc = pc].seg = app[n].seg
        BY <2>1
    <2>3. app'[n] = [app[n] EXCEPT !.pc = pc] /\ \A m \in Nodes \ {n} : app'[m] = app[m]
        BY <1>1, <1>4
    <2>4. Awaiting(n) /\ app'[n].pc \in ReadingPcs /\ app'[n].seg = app[n].seg
        BY <1>4, <2>2, <2>3 DEF Awaiting
    <2> QED
        BY <1>1, <2>3, <2>4, KnownKeptQuietly
<1>5. CASE app' = app
    BY <1>1, <1>5, KnownKeptQuietly
<1> QED
    BY <1>2, <1>3, <1>4, <1>5

LEMMA RequestKnows ==
    ASSUME TypeOK, KnownInv, NEW n \in Nodes, NEW seg \in AllSegments, RequestDf(n, seg)
    PROVE  KnownInv'
<1>1. /\ app \in [Nodes -> Threads] /\ seg[1] \in kv_map[n] /\ UNCHANGED kv_map
      /\ app' = [app EXCEPT ![n] = Thread("await", seg[1], seg[2])]
    BY DEF TypeOK, RequestDf, Send, QueueReply, AssertFails
<1>2. ThreadKnows(n)' /\ \A m \in Nodes \ {n} : app'[m] = app[m]
    BY <1>1 DEF Thread, ThreadKnows, Awaiting, ReadingPcs
<1>3. UNCHANGED channel \/ Send(n, HomeId(seg), WaitAndGet(seg))
    BY DEF RequestDf, AssertFails
<1>4. /\ HomeId(seg) \in Nodes /\ WaitAndGet(seg) \in Messages
      /\ \A j \in Keys : WaitAndGet(seg) # PutValue(j)
    BY SegmentsOfKeys, KindsOfMessages, HomeIsNode
<1>5. \A i, j \in Nodes : ValuesAmong(channel'[i][j], Published)
    BY <1>3, <1>4, SendValues DEF KnownInv
<1> QED
    BY <1>1, <1>2, <1>5, KnownKept

\* The handlers of the network thread: a value that arrives was published.
LEMMA HandlerKnows ==
    ASSUME TypeOK, KnownInv, NEW i \in Nodes, NEW j \in Nodes,
           HandlePut(i, j) \/ HandleWaitAndGet(i, j) \/ HandleReply(i, j)
    PROVE  KnownInv'
<1>1. UNCHANGED app /\ channel[i][j] # <<>>
    BY DEF HandlePut, HandleWaitAndGet, HandleReply, Received
<1>2. channel[i][j] \in Seq(Messages)
    BY ChannelType
<1>3. \A n \in Nodes : kv_map[n] \subseteq kv_map'[n]
    <2>1. CASE HandlePut(i, j)
        <3>1. UNCHANGED kv_map \/ (Received(i, j, "PutValue") /\ StoreValue(j, Msg(i, j)[1]))
            BY <2>1 DEF HandlePut, StoreDf
        <3>2. Received(i, j, "PutValue") => Msg(i, j)[1] \in Keys
            BY <1>2, HeadOfChannel DEF Received, Msg
        <3> QED
            BY <3>1, <3>2, StoreValueGrows
    <2>2. CASE ~ HandlePut(i, j)
        BY <2>2 DEF HandleWaitAndGet, HandleReply, QueueReply, AssertFails
    <2> QED
        BY <2>1, <2>2
<1>4. \A a, b \in Nodes : ValuesAmong(channel'[a][b], Published)
    <2>1. CASE channel' = channel
        BY <2>1 DEF KnownInv
    <2>2. CASE channel' = Consumed(i, j)
        BY <1>1, <2>2, ConsumedValues
    <2>3. CASE /\ Received(i, j, "WaitAndGet")
               /\ channel' = [Consumed(i, j) EXCEPT ![j][i] = Append(@, Reply(Msg(i, j)))]
        <3> DEFINE d == Consumed(i, j)
        <3>1. d \in [Nodes -> [Nodes -> Seq(Messages)]]
              /\ \A a, b \in Nodes : ValuesAmong(d[a][b], Published)
            BY <1>1, ConsumedValues
        <3>2. Reply(Msg(i, j)) \in Messages /\ \A k \in Keys : Reply(Msg(i, j)) # PutValue(k)
            BY <1>1, <1>2, <2>3, HeadOfChannel, KindsOfMessages DEF Received, Msg
        <3> HIDE DEF d
        <3>3. ValuesAmong(Append(d[j][i], Reply(Msg(i, j))), Published)
            BY <3>1, <3>2, ValuesAppend
        <3>4. \A a, b \in Nodes : channel'[a][b] =
                  IF a = j /\ b = i THEN Append(d[j][i], Reply(Msg(i, j))) ELSE d[a][b]
            BY <2>3, <3>1 DEF d
        <3> QED
            BY <3>1, <3>3, <3>4
    <2> QED
        BY <2>1, <2>2, <2>3 DEF HandlePut, HandleWaitAndGet, HandleReply, AssertFails
<1> QED
    BY <1>1, <1>3, <1>4, KnownKept

LEMMA KnownStep == Inv /\ KnownInv /\ [Next]_vars => KnownInv'
<1> SUFFICES ASSUME Inv, KnownInv, [Next]_vars PROVE KnownInv'
    OBVIOUS
<1>0. TypeOK
    BY DEF Inv
<1>1. ASSUME NEW n \in Nodes, NEW seg \in AllSegments, GetOwnDf(n, seg) PROVE KnownInv'
    <2>1. UNCHANGED <<app, kv_map, channel>>
        BY <1>1 DEF GetOwnDf, AssertFails
    <2> QED
        BY <1>0, <2>1, KnownKeptQuietly
<1>2. ASSUME NEW n \in Nodes, Crash(n) PROVE KnownInv'
    <2>1. /\ UNCHANGED <<app, kv_map>>
          /\ channel' = [i \in Nodes |-> [channel[i] EXCEPT ![n] = <<>>]]
        BY <1>2 DEF Crash
    <2>2. \A a, b \in Nodes : channel'[a][b] = IF b = n THEN <<>> ELSE channel[a][b]
        BY <1>0, <2>1, ChannelType
    <2>3. ValuesAmong(<<>>, Published)
        BY EmptySeq DEF ValuesAmong
    <2>4. \A a, b \in Nodes : ValuesAmong(channel'[a][b], Published)
        BY <2>2, <2>3 DEF KnownInv
    <2> QED
        BY <1>0, <2>1, <2>4, KnownKept
<1>3. CASE UNCHANGED vars
    <2>1. UNCHANGED <<app, kv_map, channel>>
        BY <1>3 DEF vars
    <2> QED
        BY <1>0, <2>1, KnownKeptQuietly
<1>4. ASSUME NEW n \in Nodes,
             \/ Produce(n) \/ \E k \in Keys : StartProducing(n, k)
             \/ AwaitReply(n) \/ WakeSpuriously(n) \/ NotifyReader(n)
             \/ \E seg \in AllSegments : RequestDf(n, seg)
             \/ \E i \in Nodes : HandlePut(i, n) \/ HandleWaitAndGet(i, n) \/ HandleReply(i, n)
      PROVE  KnownInv'
    BY <1>0, <1>4, ProducerKnows, ReaderKnows, RequestKnows, HandlerKnows
<1> QED
    BY <1>1, <1>2, <1>3, <1>4 DEF Next, Network

LEMMA InitKnown == Init => KnownInv
BY EmptySeq DEF Init, KnownInv, ThreadKnows, ValuesAmong, Awaiting, ReadingPcs, Idle

-----------------------------------------------------------------------------
\* What the abstract store sees of a step.

LEMMA NothingSeen ==
    ASSUME UNCHANGED <<kv_map, got>>
    PROVE  UNCHANGED Abstract!vars
BY DEF Abstract!vars

\* A value that its owner has put is put on any node: the node learns of it.
LEMMA ValueLearnt ==
    ASSUME TypeOK, NEW n \in Nodes, NEW k \in Published, StoreValue(n, k), UNCHANGED got
    PROVE  Abstract!Next
<1>1. k \in Keys /\ k \in kv_map[Owner[k]]
    BY DEF Published
<1>2. kv_map' = [kv_map EXCEPT ![n] = @ \cup {k}] /\ kv_map \in [Nodes -> SUBSET Keys]
    BY DEF StoreValue, TypeOK
<1>3. {j \in Keys : j \in kv_map'[Owner[j]]} = {j \in Keys : j \in kv_map[Owner[j]]}
    <2>1. ASSUME NEW j \in Keys PROVE j \in kv_map'[Owner[j]] <=> j \in kv_map[Owner[j]]
        BY <1>1, <1>2, OwnerAssumption
    <2> QED
        BY <2>1
<1>4. Abstract!Learn(n, k)
    BY <1>1, <1>2, <1>3 DEF Abstract!Learn
<1> QED
    BY <1>1, <1>4 DEF Abstract!Next

\* The owner puts the value: it is published now, unless it was before.
LEMMA ValuePublished ==
    ASSUME TypeOK, NEW k \in Keys, StoreValue(Owner[k], k), UNCHANGED got
    PROVE  [Abstract!Next]_(Abstract!vars)
<1> DEFINE n == Owner[k]
<1>1. /\ n \in Nodes /\ kv_map \in [Nodes -> SUBSET Keys]
      /\ kv_map' = [kv_map EXCEPT ![n] = @ \cup {k}]
    BY OwnerAssumption DEF StoreValue, TypeOK
<1>2. CASE k \in kv_map[n]
    <2>1. kv_map' = kv_map
        BY <1>1, <1>2
    <2> QED
        BY <2>1, NothingSeen
<1>3. CASE k \notin kv_map[n]
    <2>1. {j \in Keys : j \in kv_map'[Owner[j]]} = {j \in Keys : j \in kv_map[Owner[j]]} \cup {k}
        <3>1. ASSUME NEW j \in Keys
              PROVE  j \in kv_map'[Owner[j]] <=> j \in kv_map[Owner[j]] \/ j = k
            BY <1>1, OwnerAssumption
        <3> QED
            BY <3>1
    <2>2. Abstract!Publish(n, k)
        BY <1>1, <1>3, <2>1 DEF Abstract!Publish
    <2> QED
        BY <1>1, <2>2 DEF Abstract!Next
<1> QED
    BY <1>2, <1>3

\* A node reads the segment it asked for of a value it knows.
LEMMA SegmentRead ==
    ASSUME NEW n \in Nodes, NEW seg \in AllSegments, seg[1] \in kv_map[n],
           got' = [got EXCEPT ![n] = <<seg, seg>>], UNCHANGED kv_map
    PROVE  Abstract!Next
<1>1. seg[1] \in Keys /\ seg = <<seg[1], seg[2]>> /\ seg[2] \in 0 .. NumSegments[seg[1]] - 1
    <2>1. seg \in Keys \X Nat /\ seg[2] < NumSegments[seg[1]] /\ seg = <<seg[1], seg[2]>>
        BY SegmentsOfKeys
    <2> QED
        BY <2>1, SegmentsAssumption
<1>2. Abstract!Read(n, seg[1])
    BY <1>1 DEF Abstract!Read
<1> QED
    BY <1>1, <1>2 DEF Abstract!Next

-----------------------------------------------------------------------------
\* Every step of the stores is a step of the abstract store, or none.
LEMMA Simulation ==
    ASSUME Inv, ReplyInv, KnownInv, [Next]_vars
    PROVE  [Abstract!Next]_(Abstract!vars)
<1>0. TypeOK
    BY DEF Inv
<1>1. ASSUME UNCHANGED <<kv_map, got>> PROVE [Abstract!Next]_(Abstract!vars)
    BY <1>1, NothingSeen
<1>2. ASSUME NEW n \in Nodes, PutOwnValue(n) PROVE [Abstract!Next]_(Abstract!vars)
    <2> DEFINE k == app[n].seg[1]
    <2>1. k \in Keys /\ Owner[k] = n
        BY <1>0, <1>2, ThreadFacts DEF PutOwnValue, KnownInv, ThreadKnows
    <2>2. StoreValue(n, k) /\ UNCHANGED got
        BY <1>2 DEF PutOwnValue
    <2>3. \A j \in Keys : StoreValue(Owner[j], j) => [Abstract!Next]_(Abstract!vars)
        BY <1>0, <2>2, ValuePublished
    <2> HIDE DEF k
    <2> QED
        BY <2>1, <2>2, <2>3
<1>3. ASSUME NEW n \in Nodes, BroadcastValue(n) PROVE [Abstract!Next]_(Abstract!vars)
    <2> DEFINE k == app[n].seg[1]
               to == app[n].seg[2]
    <2>1. k \in Keys /\ to \in Nodes /\ Owner[k] = n /\ k \in kv_map[n]
        BY <1>0, <1>3, ThreadFacts DEF BroadcastValue, Inv, ProducerInv, ProducerOK, KnownInv,
           ThreadKnows
    <2>2. UNCHANGED kv_map \/ StoreValue(to, k)
        BY <1>3 DEF BroadcastValue, Send
    <2>3. UNCHANGED got
        BY <1>3 DEF BroadcastValue
    <2>4. \A m \in Nodes, j \in Published : StoreValue(m, j) => Abstract!Next
        BY <1>0, <2>3, ValueLearnt
    <2> HIDE DEF k, to
    <2>5. k \in Published
        BY <2>1 DEF Published
    <2> QED
        BY <1>1, <2>1, <2>2, <2>3, <2>4, <2>5
<1>4. ASSUME NEW i \in Nodes, NEW j \in Nodes, HandlePut(i, j)
      PROVE  [Abstract!Next]_(Abstract!vars)
    <2> DEFINE k == Msg(i, j)[1]
    <2>1. /\ UNCHANGED got /\ channel[i][j] # <<>>
          /\ UNCHANGED kv_map \/ (Received(i, j, "PutValue") /\ StoreValue(j, k))
        BY <1>4 DEF HandlePut, Received, StoreDf
    <2>2. ASSUME Received(i, j, "PutValue") PROVE k \in Published
        <3>1. channel[i][j] \in Seq(Messages) /\ Head(channel[i][j]).kind = "PutValue"
            BY <1>0, <2>2, ChannelType DEF Received
        <3>2. k \in Keys /\ Head(channel[i][j]) = PutValue(k)
            BY <2>1, <3>1, HeadOfChannel DEF Msg
        <3> QED
            BY <1>0, <2>1, <3>2, ConsumedValues
    <2>3. \A m \in Nodes, l \in Published : StoreValue(m, l) => Abstract!Next
        BY <1>0, <2>1, ValueLearnt
    <2> HIDE DEF k
    <2> QED
        BY <1>1, <2>1, <2>2, <2>3
<1>5. ASSUME NEW n \in Nodes, NEW seg \in AllSegments, GetOwnDf(n, seg)
      PROVE  [Abstract!Next]_(Abstract!vars)
    <2>1. UNCHANGED <<kv_map, got>> \/
            (seg[1] \in kv_map[n] /\ got' = [got EXCEPT ![n] = <<seg, seg>>] /\ UNCHANGED kv_map)
        BY <1>5 DEF GetOwnDf, AssertFails
    <2> QED
        BY <1>1, <2>1, SegmentRead
<1>6. ASSUME NEW n \in Nodes, TakeReply(n) PROVE [Abstract!Next]_(Abstract!vars)
    <2> DEFINE seg == app[n].seg
    <2>1. /\ app[n].pc = "take" /\ reply_queue[n] # <<>> /\ UNCHANGED kv_map
          /\ got' = [got EXCEPT ![n] = <<seg, Head(reply_queue[n])>>]
        BY <1>6 DEF TakeReply
    <2>2. seg \in AllSegments /\ seg[1] \in kv_map[n]
        BY <1>0, <2>1, ThreadFacts DEF KnownInv, ThreadKnows, Awaiting, ReadingPcs
    <2>3. reply_queue[n] = <<seg>>
        BY <2>1 DEF ReplyInv, ReaderOK, NothingPending, OnePending
    <2> HIDE DEF seg
    <2>4. got' = [got EXCEPT ![n] = <<seg, seg>>]
        BY <2>1, <2>3
    <2>5. \A x \in AllSegments :
              x[1] \in kv_map[n] /\ got' = [got EXCEPT ![n] = <<x, x>>] => Abstract!Next
        BY <2>1, SegmentRead
    <2> QED
        BY <2>2, <2>4, <2>5
<1>7. ASSUME NEW n \in Nodes,
             \/ \E k \in Keys : StartProducing(n, k)
             \/ PutDf(n) \/ CheckReply(n) \/ SleepForReply(n) \/ TakeNoReply(n)
             \/ WakeSpuriously(n) \/ NotifyReader(n) \/ Crash(n)
             \/ \E seg \in AllSegments : RequestDf(n, seg)
             \/ \E i \in Nodes : HandleWaitAndGet(i, n) \/ HandleReply(i, n)
      PROVE  UNCHANGED <<kv_map, got>>
    BY <1>7 DEF StartProducing, PutDf, CheckReply, SleepForReply, TakeNoReply, WakeSpuriously,
       NotifyReader, Crash, RequestDf, HandleWaitAndGet, HandleReply, StoreDf, Send,
       QueueReply, AssertFails
<1>8. CASE UNCHANGED vars
    BY <1>1, <1>8 DEF vars
<1> QED
    BY <1>1, <1>2, <1>3, <1>4, <1>5, <1>6, <1>7, <1>8
       DEF Next, Produce, AwaitReply, Network

LEMMA InitAbstract == Init => Abstract!Init
<1> SUFFICES ASSUME Init PROVE Abstract!Init
    OBVIOUS
<1>1. {k \in Keys : k \in kv_map[Owner[k]]} = {}
    BY OwnerAssumption DEF Init
<1> QED
    BY <1>1 DEF Init, Abstract!Init

\* What an application can see of the stores of all nodes, whatever is
\* interleaved, lost or fails, is a behaviour of one write-once store: a value
\* is published once, nodes learn only of published values, and read of them
\* the segments they ask for.
THEOREM StoresImplementValueStore == Spec => ImplementsValueStore
<1>1. Init => Inv /\ ReplyInv /\ KnownInv
    BY InitInv, InitReply, InitKnown
<1>2. Inv /\ ReplyInv /\ KnownInv /\ [Next]_vars => (Inv /\ ReplyInv /\ KnownInv)'
    BY InvStep, ReplyInvStep, KnownStep
<1>3. Inv /\ ReplyInv /\ KnownInv /\ [Next]_vars => [Abstract!Next]_(Abstract!vars)
    BY Simulation
<1> QED
    BY <1>1, <1>2, <1>3, InitAbstract, PTL DEF Spec, ImplementsValueStore, Abstract!Spec

-----------------------------------------------------------------------------
\* With the local transport nothing is ever under way, and a value that any
\* node knows has all its segments at their homes.

Complete(k) ==
    \A s \in 0 .. NumSegments[k] - 1 : <<k, s>> \in distro_kv_map[HomeId(<<k, s>>)]

LocalInv ==
    /\ \A i, j \in Nodes : channel[i][j] = <<>>
    /\ \A n \in Nodes : \A k \in kv_map[n] : Complete(k)
    /\ NoAssertFails

\* A producer that has reached the end of its value has stored all of it.
LEMMA ProducerCompletes ==
    ASSUME ~ Socket, NEW n \in Nodes, NEW k \in Keys, PutUpTo(n, k, NumSegments[k])
    PROVE  Complete(k)
BY DEF PutUpTo, Arrives, Complete

\* What a step has to show for the invariant.
LEMMA LocalKept ==
    ASSUME TypeOK, LocalInv, NoAssertFails', UNCHANGED channel,
           \A n \in Nodes : distro_kv_map[n] \subseteq distro_kv_map'[n],
           \A n \in Nodes : \A k \in kv_map'[n] : k \in kv_map[n] \/ (k \in Keys /\ Complete(k))
    PROVE  LocalInv'
<1>1. ASSUME NEW k \in Keys, Complete(k) PROVE Complete(k)'
    <2> SUFFICES ASSUME NEW s \in 0 .. NumSegments[k] - 1
                 PROVE  <<k, s>> \in distro_kv_map'[HomeId(<<k, s>>)]
        BY DEF Complete, HomeId
    <2>1. HomeId(<<k, s>>) \in Nodes
        BY HomeIsNode, SegmentsAssumption
    <2>2. <<k, s>> \in distro_kv_map[HomeId(<<k, s>>)]
        BY <1>1 DEF Complete
    <2> QED
        BY <2>1, <2>2
<1>2. \A n \in Nodes : \A k \in kv_map[n] : k \in Keys
    BY DEF TypeOK
<1> QED
    BY <1>1, <1>2 DEF LocalInv

\* A node that asks for a segment of a value it knows finds it at its home.
LEMMA SegmentThere ==
    ASSUME LocalInv, NEW n \in Nodes, NEW seg \in AllSegments, seg[1] \in kv_map[n]
    PROVE  seg \in distro_kv_map[HomeId(seg)]
<1>1. seg = <<seg[1], seg[2]>> /\ seg[2] \in 0 .. NumSegments[seg[1]] - 1
    BY SegmentsOfKeys, SegmentsAssumption
<1>2. Complete(seg[1])
    BY DEF LocalInv
<1> QED
    BY <1>1, <1>2 DEF Complete

LEMMA LocalStep ==
    ASSUME ~ Socket, Inv, LocalInv, [Next]_vars
    PROVE  LocalInv'
<1>0. TypeOK /\ distro_kv_map \in [Nodes -> SUBSET AllSegments] /\ kv_map \in [Nodes -> SUBSET Keys]
    BY DEF Inv, TypeOK
<1>1. ASSUME UNCHANGED <<kv_map, distro_kv_map, channel, stopped>> PROVE LocalInv'
    <2>1. NoAssertFails'
        BY <1>1 DEF LocalInv, NoAssertFails
    <2> QED
        BY <1>0, <1>1, <2>1, LocalKept
<1>2. ASSUME NEW n \in Nodes, PutDf(n) PROVE LocalInv'
    <2>1. /\ UNCHANGED <<channel, stopped, kv_map>>
          /\ \E home, seg : distro_kv_map' = [distro_kv_map EXCEPT ![home] = @ \cup {seg}]
        BY <1>2 DEF PutDf, StoreDf
    <2>2. \A m \in Nodes : distro_kv_map[m] \subseteq distro_kv_map'[m]
        BY <1>0, <2>1
    <2>3. NoAssertFails'
        BY <2>1 DEF LocalInv, NoAssertFails
    <2> QED
        BY <1>0, <2>1, <2>2, <2>3, LocalKept
<1>3. ASSUME NEW n \in Nodes, PutOwnValue(n) \/ BroadcastValue(n) PROVE LocalInv'
    <2> DEFINE k == app[n].seg[1]
    <2>1. k \in Keys
        BY <1>0, <1>3, ThreadFacts DEF PutOwnValue, BroadcastValue
    <2>2. PutUpTo(n, k, NumSegments[k])
        BY <1>3 DEF PutOwnValue, BroadcastValue, Inv, ProducerInv, ProducerOK
    <2>3. /\ UNCHANGED <<channel, stopped, distro_kv_map>>
          /\ kv_map' = kv_map \/ \E m : kv_map' = [kv_map EXCEPT ![m] = @ \cup {k}]
        BY <1>3 DEF PutOwnValue, BroadcastValue, StoreValue
    <2>4. Complete(k)
        <3>1. \A j \in Keys : PutUpTo(n, j, NumSegments[j]) => Complete(j)
            BY ProducerCompletes
        <3> HIDE DEF k
        <3> QED
            BY <2>1, <2>2, <3>1
    <2> HIDE DEF k
    <2>5. \A m \in Nodes : \A j \in kv_map'[m] : j \in kv_map[m] \/ (j \in Keys /\ Complete(j))
        BY <1>0, <2>1, <2>3, <2>4
    <2>6. NoAssertFails'
        BY <2>3 DEF LocalInv, NoAssertFails
    <2> QED
        BY <1>0, <2>3, <2>5, <2>6, LocalKept
<1>4. ASSUME NEW n \in Nodes, NEW seg \in AllSegments, GetOwnDf(n, seg) \/ RequestDf(n, seg)
      PROVE  LocalInv'
    <2>1. seg \in distro_kv_map[HomeId(seg)]
        BY <1>4, SegmentThere DEF GetOwnDf, RequestDf
    <2>2. UNCHANGED <<kv_map, distro_kv_map, channel, stopped>>
        BY <1>4, <2>1 DEF GetOwnDf, RequestDf, QueueReply
    <2> QED
        BY <1>1, <2>2
<1>5. ASSUME NEW n \in Nodes, TakeNoReply(n) \/ Crash(n) PROVE LocalInv'
    <2>1. /\ UNCHANGED <<kv_map, distro_kv_map>>
          /\ \E why \in {"empty queue", "failure"} : stopped' = [stopped EXCEPT ![n] = why]
        BY <1>5 DEF TakeNoReply, Crash
    <2>2. channel' = channel
        <3>1. ASSUME Crash(n) PROVE channel' = channel
            <4>1. channel' = [i \in Nodes |-> [channel[i] EXCEPT ![n] = <<>>]]
                BY <3>1 DEF Crash
            <4>2. ASSUME NEW i \in Nodes PROVE [channel[i] EXCEPT ![n] = <<>>] = channel[i]
                BY <1>0, ChannelType DEF LocalInv
            <4> QED
                BY <1>0, <4>1, <4>2 DEF TypeOK
        <3> QED
            BY <1>5, <3>1 DEF TakeNoReply
    <2>3. NoAssertFails'
        BY <1>0, <2>1 DEF LocalInv, NoAssertFails, TypeOK
    <2> QED
        BY <1>0, <2>1, <2>2, <2>3, LocalKept
<1>6. ASSUME NEW i \in Nodes, NEW j \in Nodes, NEW kind PROVE ~ Received(i, j, kind)
    BY DEF LocalInv, Received
<1>7. ASSUME NEW n \in Nodes,
             \/ \E k \in Keys : StartProducing(n, k)
             \/ CheckReply(n) \/ SleepForReply(n) \/ TakeReply(n)
             \/ WakeSpuriously(n) \/ NotifyReader(n)
      PROVE  UNCHANGED <<kv_map, distro_kv_map, channel, stopped>>
    BY <1>7 DEF StartProducing, CheckReply, SleepForReply, TakeReply, WakeSpuriously,
       NotifyReader
<1>8. CASE UNCHANGED vars
    BY <1>1, <1>8 DEF vars
<1> QED
    BY <1>1, <1>2, <1>3, <1>4, <1>5, <1>6, <1>7, <1>8
       DEF Next, Produce, AwaitReply, Network, HandlePut, HandleWaitAndGet, HandleReply

\* With the local transport no request ever meets a node that has not stored the
\* segment, for any number of nodes, values and segments; with the socket
\* transport it may (run store_overtake).
THEOREM LocalRequestsSucceed == ~ Socket => (Spec => []NoAssertFails)
<1> SUFFICES ASSUME ~ Socket PROVE Spec => []NoAssertFails
    OBVIOUS
<1>1. Init => Inv /\ LocalInv
    <2>1. Init => LocalInv
        BY DEF Init, LocalInv, NoAssertFails
    <2> QED
        BY <2>1, InitInv
<1>2. Inv /\ LocalInv /\ [Next]_vars => (Inv /\ LocalInv)'
    BY InvStep, LocalStep
<1>3. LocalInv => NoAssertFails
    BY DEF LocalInv
<1> QED
    BY <1>1, <1>2, <1>3, PTL DEF Spec

=============================================================================
