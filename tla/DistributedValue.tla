-------------------------- MODULE DistributedValue --------------------------
(***************************************************************************)
(* One DistributedValue of eau2 (src/src/application/distributed_value.cpp):*)
(* a writer on node Home cuts a table of rows into segments of MaxNumRows  *)
(* rows, stores segment s on a node chosen round-robin, and publishes the  *)
(* value; readers on every node compute from a row number alone the        *)
(* segment and the node that hold it.  Writer and readers never talk about *)
(* placement: they agree only if two independent calculations agree.       *)
(*                                                                         *)
(* The transport is the synchronous one of LocalNetworkMessageManager: a   *)
(* segment put to another node is in that node's map when the call         *)
(* returns.  A row is its number, so a segment is a sequence of numbers.   *)
(***************************************************************************)
EXTENDS Integers, Sequences

CONSTANTS
    NumNodes,       \* KeyValueStore::num_nodes
    MaxNumRows,     \* DistributedValue::MAX_NUM_ROWS (50 in the code)
    Home,           \* the node whose application builds the value
    RowLimit,       \* bound: rows the writer adds at most
    NoDf            \* nullptr, or a key a map does not hold

Nodes    == 0 .. NumNodes - 1
Suffixes == 0 .. RowLimit      \* at most one segment for each row

ASSUME NumNodesAssumption   == NumNodes \in Nat \ {0}
ASSUME MaxNumRowsAssumption == MaxNumRows \in Nat \ {0}
ASSUME HomeAssumption       == Home \in Nodes
ASSUME RowLimitAssumption   == RowLimit \in Nat
ASSUME NoDfAssumption       == NoDf \notin Seq(Nat) \cup Int

VARIABLES
    num_rows,                  \* rows added by the writer
    writer_node_id,            \* node the next segment goes to
    writer_curr_num_segments,  \* suffix of the next segment's key
    writer_curr_row_num,       \* rows in building_df
    building_df,               \* the segment being built; <<>> is nullptr
    distro_kv_map,             \* [node -> [suffix -> segment or NoDf]]
    broadcast_next,            \* next node of the broadcast loop, NoDf before
    value_rows,                \* [node -> num_rows of its value, or NoDf]
    cached_key,                \* [node -> suffix of the cached segment or NoDf]
    cached_df,                 \* [node -> the cached segment or NoDf]
    num_rows_read              \* [node -> progress of a running map, or NoDf]

writerVars == <<num_rows, writer_node_id, writer_curr_num_segments,
                writer_curr_row_num, building_df>>
readerVars == <<cached_key, cached_df, num_rows_read>>
vars == <<writerVars, distro_kv_map, broadcast_next, value_rows, readerVars>>

-----------------------------------------------------------------------------
Init ==
    /\ num_rows = 0
    /\ writer_node_id = 0
    /\ writer_curr_num_segments = 0
    /\ writer_curr_row_num = 0
    /\ building_df = <<>>
    /\ distro_kv_map = [n \in Nodes |-> [s \in Suffixes |-> NoDf]]
    /\ broadcast_next = NoDf
    /\ value_rows = [n \in Nodes |-> NoDf]
    /\ cached_key = [n \in Nodes |-> NoDf]
    /\ cached_df = [n \in Nodes |-> NoDf]
    /\ num_rows_read = [n \in Nodes |-> NoDf]

\* put_df of segment df under the key "<name>-<writer_curr_num_segments>".
PutSegment(df) ==
    distro_kv_map' =
        [distro_kv_map EXCEPT ![writer_node_id][writer_curr_num_segments] = df]

\* Faulty: the round-robin runs one node too far.
NextWriterNodeTooFar ==
    IF writer_node_id + 1 > NumNodes THEN 0 ELSE writer_node_id + 1

\* Faulty: the round-robin never comes back to node 0.
NextWriterNodeSkipsZero ==
    IF writer_node_id + 1 >= NumNodes THEN 1 % NumNodes ELSE writer_node_id + 1

NextWriterNode ==
    IF writer_node_id + 1 >= NumNodes THEN 0 ELSE writer_node_id + 1

\* The row stays in the segment being built ...
AddRowInside ==
    /\ broadcast_next = NoDf
    /\ num_rows < RowLimit
    /\ writer_curr_row_num + 1 < MaxNumRows
    /\ building_df' = Append(building_df, num_rows)
    /\ writer_curr_row_num' = writer_curr_row_num + 1
    /\ num_rows' = num_rows + 1
    /\ UNCHANGED <<writer_node_id, writer_curr_num_segments, distro_kv_map,
                   broadcast_next, value_rows, readerVars>>

\* Faulty: the segment being built is not started afresh after a flush.
AddRowFlushKeepsRows ==
    /\ broadcast_next = NoDf
    /\ num_rows < RowLimit
    /\ writer_curr_row_num + 1 >= MaxNumRows
    /\ PutSegment(Append(building_df, num_rows))
    /\ building_df' = Append(building_df, num_rows)
    /\ writer_curr_row_num' = 0
    /\ num_rows' = num_rows + 1
    /\ writer_curr_num_segments' = writer_curr_num_segments + 1
    /\ writer_node_id' = NextWriterNode
    /\ UNCHANGED <<broadcast_next, value_rows, readerVars>>

\* ... or completes it, and the segment is stored.
AddRowFlush ==
    /\ broadcast_next = NoDf
    /\ num_rows < RowLimit
    /\ writer_curr_row_num + 1 >= MaxNumRows
    /\ PutSegment(Append(building_df, num_rows))
    /\ building_df' = <<>>
    /\ writer_curr_row_num' = 0
    /\ num_rows' = num_rows + 1
    /\ writer_curr_num_segments' = writer_curr_num_segments + 1
    /\ writer_node_id' = NextWriterNode
    /\ UNCHANGED <<broadcast_next, value_rows, readerVars>>

\* package_value up to kv->put: store the last, partial segment if there is
\* one and make the value available on the writer's own node.
PackageValue ==
    /\ broadcast_next = NoDf
    /\ IF building_df # <<>>
       THEN /\ PutSegment(building_df)
            /\ writer_node_id' = NextWriterNode
            /\ writer_curr_row_num' = 0
            /\ building_df' = <<>>
       ELSE UNCHANGED <<distro_kv_map, writer_node_id, writer_curr_row_num,
                        building_df>>
    /\ value_rows' = [value_rows EXCEPT ![Home] = num_rows]
    /\ broadcast_next' = 0
    /\ UNCHANGED <<num_rows, writer_curr_num_segments, readerVars>>

\* One iteration of the broadcast loop: the node gets a DistributedValue of
\* its own, with the number of rows and an empty cache.
BroadcastValue ==
    /\ broadcast_next \in Nodes
    /\ broadcast_next' = broadcast_next + 1
    /\ value_rows' = IF broadcast_next = Home THEN value_rows
                     ELSE [value_rows EXCEPT ![broadcast_next] = num_rows]
    /\ UNCHANGED <<writerVars, distro_kv_map, readerVars>>

-----------------------------------------------------------------------------
\* Where a reader looks for a row.
KeySuffix(row) == row \div MaxNumRows
NodeId(row)    == KeySuffix(row) % NumNodes
RowInDf(row)   == row % MaxNumRows

\* Faulty: the key of the cache moves on, the cached segment does not.
CacheDfStale(n, row) ==
    /\ cached_key' = [cached_key EXCEPT ![n] = KeySuffix(row)]
    /\ IF cached_df[n] # NoDf THEN UNCHANGED cached_df
       ELSE cached_df' = [cached_df EXCEPT
                            ![n] = distro_kv_map[NodeId(row)][KeySuffix(row)]]

\* cache_df: fetch the segment of the row unless it is the cached one.
CacheDf(n, row) ==
    IF cached_key[n] = KeySuffix(row)
    THEN UNCHANGED <<cached_key, cached_df>>
    ELSE /\ cached_key' = [cached_key EXCEPT ![n] = KeySuffix(row)]
         /\ cached_df' = [cached_df EXCEPT
                            ![n] = distro_kv_map[NodeId(row)][KeySuffix(row)]]

\* get_int and its kin: cache the segment; what is returned is read from it.
Get(n, row) ==
    /\ value_rows[n] # NoDf
    /\ num_rows_read[n] = NoDf
    /\ row < value_rows[n]
    /\ CacheDf(n, row)
    /\ UNCHANGED <<writerVars, distro_kv_map, broadcast_next, value_rows,
                   num_rows_read>>

MapStart(n) ==
    /\ value_rows[n] # NoDf
    /\ num_rows_read[n] = NoDf
    /\ num_rows_read' = [num_rows_read EXCEPT ![n] = 0]
    /\ UNCHANGED <<writerVars, distro_kv_map, broadcast_next, value_rows,
                   cached_key, cached_df>>

\* Faulty: map takes every segment to be full.
MapStepFullSegments(n) ==
    /\ num_rows_read[n] # NoDf
    /\ num_rows_read[n] < value_rows[n]
    /\ CacheDf(n, num_rows_read[n])
    /\ num_rows_read' = [num_rows_read EXCEPT ![n] = @ + MaxNumRows]
    /\ UNCHANGED <<writerVars, distro_kv_map, broadcast_next, value_rows>>

\* Faulty: map does not count the rows it has visited.
MapStepForever(n) ==
    /\ num_rows_read[n] # NoDf
    /\ num_rows_read[n] < value_rows[n]
    /\ CacheDf(n, num_rows_read[n])
    /\ UNCHANGED <<writerVars, distro_kv_map, broadcast_next, value_rows, num_rows_read>>

\* One iteration of the loop of map: visit all rows of the next segment.
MapStep(n) ==
    /\ num_rows_read[n] # NoDf
    /\ num_rows_read[n] < value_rows[n]
    /\ CacheDf(n, num_rows_read[n])
    /\ num_rows_read' = [num_rows_read EXCEPT ![n] = @ + Len(cached_df'[n])]
    /\ UNCHANGED <<writerVars, distro_kv_map, broadcast_next, value_rows>>

MapEnd(n) ==
    /\ num_rows_read[n] # NoDf
    /\ num_rows_read[n] >= value_rows[n]
    /\ num_rows_read' = [num_rows_read EXCEPT ![n] = NoDf]
    /\ UNCHANGED <<writerVars, distro_kv_map, broadcast_next, value_rows,
                   cached_key, cached_df>>

Write == AddRowInside \/ AddRowFlush \/ PackageValue \/ BroadcastValue
Map(n) == MapStep(n) \/ MapEnd(n)
Read(n) == (\E row \in 0 .. RowLimit - 1 : Get(n, row)) \/ MapStart(n)

Next == Write \/ \E n \in Nodes : Read(n) \/ Map(n)

Spec == Init /\ [][Next]_vars

\* The operating system keeps running an application thread inside map.
FairSpec == Spec /\ \A n \in Nodes : WF_vars(Map(n))

-----------------------------------------------------------------------------
Segments == Seq(0 .. RowLimit - 1)

TypeOK ==
    /\ num_rows \in 0 .. RowLimit
    /\ writer_node_id \in Nodes
    /\ writer_curr_num_segments \in Suffixes
    /\ writer_curr_row_num \in 0 .. MaxNumRows - 1
    /\ building_df \in Segments
    /\ distro_kv_map \in [Nodes -> [Suffixes -> Segments \cup {NoDf}]]
    /\ broadcast_next \in 0 .. NumNodes \cup {NoDf}
    /\ value_rows \in [Nodes -> 0 .. RowLimit \cup {NoDf}]
    /\ cached_key \in [Nodes -> Suffixes \cup {NoDf}]
    /\ cached_df \in [Nodes -> Segments \cup {NoDf}]
    /\ num_rows_read \in [Nodes -> 0 .. RowLimit \cup {NoDf}]

\* The segment df holds the row at position i (counted from 0, as in the code).
HasRow(df, i, row) == df # NoDf /\ i < Len(df) /\ df[i + 1] = row

\* Every row of a value a node can see is stored exactly where cache_df looks
\* for it: the writer's round-robin counter and the reader's division and
\* remainder (distributed_value.cpp:45-46, 168-184) agree, at every segment
\* boundary, for the last partial segment, and when the last one is full.
ReadersFindEveryRow ==
    \A n \in Nodes : value_rows[n] # NoDf =>
        \A row \in 0 .. value_rows[n] - 1 :
            HasRow(distro_kv_map[NodeId(row)][KeySuffix(row)], RowInDf(row), row)

\* What a getter returns after cache_df is the row asked for, whatever was
\* read before: the cache is never taken for another segment.
CachedRowsRight ==
    \A n \in Nodes : cached_key[n] # NoDf =>
        \A row \in 0 .. value_rows[n] - 1 :
            cached_key[n] = KeySuffix(row) => HasRow(cached_df[n], RowInDf(row), row)

\* local_map on all nodes together visits a row at most once: no two stored
\* positions hold the same row.  The merge of the word counts relies on it.
EachRowStoredOnce ==
    \A n1, n2 \in Nodes, s1, s2 \in Suffixes :
        (distro_kv_map[n1][s1] # NoDf /\ distro_kv_map[n2][s2] # NoDf) =>
            \A i1 \in DOMAIN distro_kv_map[n1][s1], i2 \in DOMAIN distro_kv_map[n2][s2] :
                distro_kv_map[n1][s1][i1] = distro_kv_map[n2][s2][i2] =>
                    <<n1, s1, i1>> = <<n2, s2, i2>>

\* A step of map hands the Rower the rows that follow those already visited,
\* in order and without a gap (distributed_value.cpp:97-107).
MapVisitsInOrder ==
    [][\A n \in Nodes :
        (num_rows_read[n] # NoDf /\ num_rows_read'[n] # NoDf) =>
            /\ num_rows_read'[n] <= value_rows[n]
            /\ num_rows_read'[n] # num_rows_read[n] =>
                 \A i \in 1 .. Len(cached_df'[n]) :
                     cached_df'[n][i] = num_rows_read[n] + i - 1]_vars

\* map ends: every iteration finds at least one row, since the writer never
\* stores an empty segment and num_rows counts only stored rows.
MapTerminates == \A n \in Nodes : num_rows_read[n] # NoDf ~> num_rows_read[n] = NoDf
=============================================================================
