----------------------- MODULE DistributedValueProofs -----------------------
(***************************************************************************)
(* The writer's counters and the readers' division agree, for every number *)
(* of nodes, segment size and number of rows.                              *)
(***************************************************************************)
EXTENDS DistributedValue, NumberTheorems, SequenceTheorems

USE NumNodesAssumption, MaxNumRowsAssumption, HomeAssumption,
    RowLimitAssumption, NoDfAssumption DEF Nodes, Suffixes

\* Number of the first row of segment s.
First(s) == s * MaxNumRows

Consecutive(df, s) == \A i \in 1 .. Len(df) : df[i] = First(s) + i - 1

\* A stored segment is on its round-robin node and holds its own rows only.
PlacedIn(map, rows) ==
    \A n \in Nodes, s \in Suffixes : map[n][s] # NoDf =>
        /\ n = s % NumNodes
        /\ Len(map[n][s]) \in 1 .. MaxNumRows
        /\ First(s) + Len(map[n][s]) <= rows
        /\ Consecutive(map[n][s], s)

\* The first `rows` rows are where a reader looks for them.
CompleteIn(map, rows) ==
    \A row \in 0 .. rows - 1 :
        HasRow(map[NodeId(row)][KeySuffix(row)], RowInDf(row), row)

StoredRows ==
    IF broadcast_next = NoDf THEN First(writer_curr_num_segments) ELSE num_rows

WriterInv ==
    /\ Len(building_df) = writer_curr_row_num
    /\ Consecutive(building_df, writer_curr_num_segments)
    /\ broadcast_next = NoDf =>
         /\ writer_node_id = writer_curr_num_segments % NumNodes
         /\ num_rows = First(writer_curr_num_segments) + writer_curr_row_num

ValueInv ==
    \A n \in Nodes : value_rows[n] # NoDf =>
        /\ broadcast_next # NoDf
        /\ value_rows[n] = num_rows

CacheInv ==
    \A n \in Nodes : cached_key[n] # NoDf =>
        /\ value_rows[n] # NoDf
        /\ cached_df[n] = distro_kv_map[cached_key[n] % NumNodes][cached_key[n]]

MapInv ==
    \A n \in Nodes : num_rows_read[n] # NoDf =>
        /\ value_rows[n] # NoDf
        /\ num_rows_read[n] <= value_rows[n]
        /\ \/ num_rows_read[n] = value_rows[n]
           \/ num_rows_read[n] % MaxNumRows = 0

Inv ==
    /\ TypeOK
    /\ WriterInv
    /\ PlacedIn(distro_kv_map, StoredRows)
    /\ CompleteIn(distro_kv_map, StoredRows)
    /\ ValueInv
    /\ CacheInv
    /\ MapInv

-----------------------------------------------------------------------------
\* Where a reader looks for the j-th row of segment s.
LEMMA RowOfSegment ==
    ASSUME NEW s \in Nat, NEW j \in 0 .. MaxNumRows - 1
    PROVE  /\ KeySuffix(First(s) + j) = s
           /\ RowInDf(First(s) + j) = j
           /\ NodeId(First(s) + j) = s % NumNodes
<1>1. /\ ((s * MaxNumRows) + j) \div MaxNumRows = s
      /\ ((s * MaxNumRows) + j) % MaxNumRows = j
    BY DivUnique
<1> QED
    BY <1>1 DEF KeySuffix, RowInDf, NodeId, First

\* Every row is some row of some segment, on some node.
LEMMA SegmentOfRow ==
    ASSUME NEW row \in Nat
    PROVE  /\ KeySuffix(row) \in Nat /\ KeySuffix(row) <= row
           /\ RowInDf(row) \in 0 .. MaxNumRows - 1
           /\ NodeId(row) \in Nodes
           /\ row = First(KeySuffix(row)) + RowInDf(row)
<1>1. /\ row \div MaxNumRows \in 0 .. row
      /\ row % MaxNumRows \in 0 .. MaxNumRows - 1
      /\ row = ((row \div MaxNumRows) * MaxNumRows) + (row % MaxNumRows)
    BY DivMod, DivBound
<1>2. (row \div MaxNumRows) % NumNodes \in 0 .. NumNodes - 1
    BY <1>1, DivMod
<1> QED
    BY <1>1, <1>2 DEF KeySuffix, RowInDf, NodeId, First

LEMMA FirstType ==
    ASSUME NEW s \in Nat
    PROVE  First(s) \in Nat /\ s <= First(s) /\ First(s + 1) = First(s) + MaxNumRows
BY Multiples DEF First

\* Storing the segment that was built keeps what is stored in place and adds
\* its rows to those a reader finds.
LEMMA PutKeepsPlacement ==
    ASSUME Inv, broadcast_next = NoDf,
           NEW df \in Segments,
           Len(df) \in 1 .. MaxNumRows,
           Consecutive(df, writer_curr_num_segments),
           First(writer_curr_num_segments) + Len(df) <= RowLimit,
           PutSegment(df)
    PROVE  LET rows == First(writer_curr_num_segments) + Len(df)
           IN  /\ distro_kv_map' \in [Nodes -> [Suffixes -> Segments \cup {NoDf}]]
               /\ PlacedIn(distro_kv_map', rows)
               /\ CompleteIn(distro_kv_map', rows)
<1> DEFINE segs == writer_curr_num_segments
           node == writer_node_id
           rows == First(segs) + Len(df)
<1>1. /\ segs \in Suffixes /\ segs \in Nat /\ node \in Nodes
      /\ node = segs % NumNodes
      /\ First(segs) \in Nat /\ rows \in Nat
      /\ distro_kv_map \in [Nodes -> [Suffixes -> Segments \cup {NoDf}]]
      /\ PlacedIn(distro_kv_map, First(segs))
      /\ CompleteIn(distro_kv_map, First(segs))
    BY FirstType DEF Inv, TypeOK, WriterInv, StoredRows
<1>2. /\ distro_kv_map' \in [Nodes -> [Suffixes -> Segments \cup {NoDf}]]
      /\ \A n \in Nodes, s \in Suffixes :
            distro_kv_map'[n][s] = IF n = node /\ s = segs THEN df ELSE distro_kv_map[n][s]
    BY <1>1 DEF PutSegment
<1>3. df # NoDf
    BY NoDfAssumption DEF Segments
<1> HIDE DEF segs, node, rows
<1>4. PlacedIn(distro_kv_map', rows)
    <2> SUFFICES ASSUME NEW n \in Nodes, NEW s \in Suffixes, distro_kv_map'[n][s] # NoDf
                 PROVE  /\ n = s % NumNodes
                        /\ Len(distro_kv_map'[n][s]) \in 1 .. MaxNumRows
                        /\ First(s) + Len(distro_kv_map'[n][s]) <= rows
                        /\ Consecutive(distro_kv_map'[n][s], s)
        BY DEF PlacedIn
    <2>1. CASE n = node /\ s = segs
        BY <2>1, <1>1, <1>2 DEF segs, rows
    <2>2. CASE ~ (n = node /\ s = segs)
        <3>1. distro_kv_map'[n][s] = distro_kv_map[n][s]
            BY <2>2, <1>2
        <3> s \in Nat
            OBVIOUS
        <3>2. First(s) \in Nat
            BY FirstType
        <3>3. First(segs) <= rows
            BY <1>1 DEF rows
        <3> QED
            BY <3>1, <3>2, <3>3, <1>1 DEF PlacedIn
    <2> QED
        BY <2>1, <2>2
<1>5. CompleteIn(distro_kv_map', rows)
    <2> SUFFICES ASSUME NEW row \in 0 .. rows - 1
                 PROVE  HasRow(distro_kv_map'[NodeId(row)][KeySuffix(row)], RowInDf(row), row)
        BY DEF CompleteIn
    <2>1. row \in Nat /\ row <= RowLimit
        BY <1>1 DEF rows, segs
    <2> /\ KeySuffix(row) \in Nat /\ KeySuffix(row) <= row
        /\ RowInDf(row) \in 0 .. MaxNumRows - 1
        /\ NodeId(row) \in Nodes
        /\ row = First(KeySuffix(row)) + RowInDf(row)
        BY <2>1, SegmentOfRow
    <2>2. CASE row < First(segs)
        <3>1. HasRow(distro_kv_map[NodeId(row)][KeySuffix(row)], RowInDf(row), row)
            BY <2>1, <2>2, <1>1 DEF CompleteIn
        <3>2. KeySuffix(row) # segs
            BY <2>1, <2>2, <1>1
        <3>3. KeySuffix(row) \in Suffixes /\ NodeId(row) \in Nodes
            BY <2>1
        <3> QED
            BY <3>1, <3>2, <3>3, <1>2
    <2>3. CASE row >= First(segs)
        <3> DEFINE j == row - First(segs)
        <3>1. j \in 0 .. MaxNumRows - 1 /\ j < Len(df) /\ row = First(segs) + j
            BY <2>1, <2>3, <1>1, SMTT(20) DEF rows
        <3> HIDE DEF j
        <3>2. KeySuffix(row) = segs /\ RowInDf(row) = j /\ NodeId(row) = node
            BY <3>1, <1>1, RowOfSegment
        <3>3. distro_kv_map'[NodeId(row)][KeySuffix(row)] = df
            BY <3>2, <1>1, <1>2
        <3>4. df[j + 1] = First(segs) + (j + 1) - 1
            BY <3>1, <1>1 DEF Consecutive, segs
        <3> QED
            BY <3>1, <3>2, <3>3, <3>4, <1>1, <1>3, SMTT(20) DEF HasRow
    <2> QED
        BY <2>1, <2>2, <2>3, <1>1
<1> QED
    BY <1>2, <1>4, <1>5 DEF rows, segs

-----------------------------------------------------------------------------
\* While the value is being built nobody sees it or caches part of it.
LEMMA UnseenWhileBuilding ==
    ASSUME Inv, broadcast_next = NoDf
    PROVE  \A n \in Nodes : /\ value_rows[n] = NoDf
                            /\ cached_key[n] = NoDf
                            /\ num_rows_read[n] = NoDf
BY DEF Inv, ValueInv, CacheInv, MapInv

LEMMA InitInv == Init => Inv
<1> SUFFICES ASSUME Init PROVE Inv
    OBVIOUS
<1>1. 0 % NumNodes = 0
    BY DivUnique, 0 = (0 * NumNodes) + 0
<1>2. First(0) = 0
    BY DEF First
<1>3. TypeOK
    BY DEF Init, TypeOK, Segments
<1>4. WriterInv
    BY <1>1, <1>2 DEF Init, WriterInv, Consecutive
<1>5. PlacedIn(distro_kv_map, StoredRows) /\ CompleteIn(distro_kv_map, StoredRows)
    BY <1>2 DEF Init, PlacedIn, CompleteIn, StoredRows
<1>6. ValueInv /\ CacheInv /\ MapInv
    BY DEF Init, ValueInv, CacheInv, MapInv
<1> QED
    BY <1>3, <1>4, <1>5, <1>6 DEF Inv

LEMMA AddRowInsideInv == Inv /\ AddRowInside => Inv'
<1> SUFFICES ASSUME Inv, AddRowInside PROVE Inv'
    OBVIOUS
<1> USE DEF AddRowInside
<1>1. /\ building_df \in Segments /\ building_df \in Seq(Int)
      /\ Len(building_df) = writer_curr_row_num
      /\ num_rows \in 0 .. RowLimit - 1
      /\ writer_curr_num_segments \in Nat
      /\ First(writer_curr_num_segments) \in Nat
      /\ num_rows = First(writer_curr_num_segments) + writer_curr_row_num
    BY FirstType DEF Inv, TypeOK, WriterInv, Segments
<1>2. /\ building_df' \in Segments
      /\ Len(building_df') = Len(building_df) + 1
      /\ \A i \in 1 .. Len(building_df') :
            building_df'[i] = IF i = Len(building_df) + 1 THEN num_rows ELSE building_df[i]
    BY <1>1, SMTT(20) DEF Segments
<1>3. TypeOK'
    BY <1>1, <1>2 DEF Inv, TypeOK, readerVars
<1>4. WriterInv'
    <2>1. ASSUME NEW i \in 1 .. Len(building_df')
          PROVE  building_df'[i] = First(writer_curr_num_segments) + i - 1
        <3>0. Len(building_df) \in Nat
            BY <1>1
        <3>1. CASE i = Len(building_df) + 1
            <4>1. building_df'[i] = num_rows
                BY <1>2, <3>1, Zenon
            <4>2. /\ num_rows = First(writer_curr_num_segments) + Len(building_df)
                  /\ First(writer_curr_num_segments) \in Nat
                BY <1>1
            <4> QED
                BY <3>0, <3>1, <4>1, <4>2
        <3>2. CASE i \in 1 .. Len(building_df)
            <4>1. building_df[i] = First(writer_curr_num_segments) + i - 1
                BY <3>2, Zenon DEF Inv, WriterInv, Consecutive
            <4>2. i # Len(building_df) + 1
                BY <3>0, <3>2
            <4> QED
                BY <1>2, <4>1, <4>2, Zenon
        <3>3. i = Len(building_df) + 1 \/ i \in 1 .. Len(building_df)
            BY <1>2, <3>0
        <3> QED
            BY <3>1, <3>2, <3>3, Zenon
    <2> QED
        BY <1>1, <1>2, <2>1 DEF Inv, TypeOK, WriterInv, Consecutive
<1>5. PlacedIn(distro_kv_map, StoredRows)' /\ CompleteIn(distro_kv_map, StoredRows)'
    BY DEF Inv, StoredRows, PlacedIn, CompleteIn
<1>6. ValueInv' /\ CacheInv' /\ MapInv'
    BY UnseenWhileBuilding DEF ValueInv, CacheInv, MapInv, readerVars
<1> QED
    BY <1>3, <1>4, <1>5, <1>6 DEF Inv

LEMMA AddRowFlushInv == Inv /\ AddRowFlush => Inv'
<1> SUFFICES ASSUME Inv, AddRowFlush PROVE Inv'
    OBVIOUS
<1> USE DEF AddRowFlush
<1> DEFINE df == Append(building_df, num_rows)
<1>1. /\ building_df \in Segments /\ building_df \in Seq(Int)
      /\ Len(building_df) = writer_curr_row_num
      /\ writer_curr_row_num = MaxNumRows - 1
      /\ num_rows \in 0 .. RowLimit - 1
      /\ writer_curr_num_segments \in Nat
      /\ First(writer_curr_num_segments) \in Nat
      /\ writer_curr_num_segments <= First(writer_curr_num_segments)
      /\ num_rows = First(writer_curr_num_segments) + writer_curr_row_num
      /\ writer_node_id = writer_curr_num_segments % NumNodes
      /\ Consecutive(building_df, writer_curr_num_segments)
    BY FirstType DEF Inv, TypeOK, WriterInv, Segments
<1>2. /\ df \in Segments
      /\ Len(df) = MaxNumRows
      /\ \A i \in 1 .. Len(df) :
            df[i] = IF i = Len(building_df) + 1 THEN num_rows ELSE building_df[i]
    BY <1>1 DEF Segments
<1> HIDE DEF df
<1>3. Consecutive(df, writer_curr_num_segments)
    <2> SUFFICES ASSUME NEW i \in 1 .. Len(df)
                 PROVE  df[i] = First(writer_curr_num_segments) + i - 1
        BY DEF Consecutive
    <2>1. CASE i = Len(building_df) + 1
        BY <2>1, <1>1, <1>2
    <2>2. CASE i # Len(building_df) + 1
        <3>1. i \in 1 .. Len(building_df)
            BY <2>2, <1>1, <1>2
        <3> QED
            BY <2>2, <3>1, <1>1, <1>2 DEF Consecutive
    <2> QED
        BY <2>1, <2>2
<1>4. /\ distro_kv_map' \in [Nodes -> [Suffixes -> Segments \cup {NoDf}]]
      /\ PlacedIn(distro_kv_map', First(writer_curr_num_segments) + Len(df))
      /\ CompleteIn(distro_kv_map', First(writer_curr_num_segments) + Len(df))
    <2>1. First(writer_curr_num_segments) + Len(df) <= RowLimit
        BY <1>1, <1>2
    <2>2. Len(df) \in 1 .. MaxNumRows
        BY <1>2
    <2>3. PutSegment(df)
        BY DEF df
    <2> QED
        BY <1>2, <1>3, <2>1, <2>2, <2>3, PutKeepsPlacement
<1>5. First(writer_curr_num_segments') = First(writer_curr_num_segments) + Len(df)
    BY <1>1, <1>2, FirstType
<1>6. writer_node_id' = writer_curr_num_segments' % NumNodes
    BY <1>1, ModStep DEF NextWriterNode
<1>7. TypeOK'
    <2>1. writer_node_id' \in Nodes
        BY DEF Inv, TypeOK, NextWriterNode
    <2>2. <<>> \in Segments
        BY DEF Segments
    <2>3. writer_curr_num_segments' \in Suffixes /\ num_rows' \in 0 .. RowLimit
        BY <1>1
    <2> QED
        BY <1>4, <2>1, <2>2, <2>3 DEF Inv, TypeOK, readerVars
<1>8. WriterInv'
    BY <1>1, <1>2, <1>5, <1>6 DEF WriterInv, Consecutive
<1>9. PlacedIn(distro_kv_map, StoredRows)' /\ CompleteIn(distro_kv_map, StoredRows)'
    BY <1>4, <1>5 DEF StoredRows, PlacedIn, CompleteIn
<1>10. ValueInv' /\ CacheInv' /\ MapInv'
    BY UnseenWhileBuilding DEF ValueInv, CacheInv, MapInv, readerVars
<1> QED
    BY <1>7, <1>8, <1>9, <1>10 DEF Inv

LEMMA PackageValueInv == Inv /\ PackageValue => Inv'
<1> SUFFICES ASSUME Inv, PackageValue PROVE Inv'
    OBVIOUS
<1> USE DEF PackageValue
<1>1. /\ building_df \in Segments /\ building_df \in Seq(Int)
      /\ Len(building_df) = writer_curr_row_num
      /\ writer_curr_row_num \in 0 .. MaxNumRows - 1
      /\ num_rows \in 0 .. RowLimit
      /\ First(writer_curr_num_segments) \in Nat
      /\ num_rows = First(writer_curr_num_segments) + writer_curr_row_num
      /\ Consecutive(building_df, writer_curr_num_segments)
      /\ StoredRows = First(writer_curr_num_segments)
      /\ StoredRows' = num_rows
    BY FirstType, NoDfAssumption DEF Inv, TypeOK, WriterInv, Segments, StoredRows, Suffixes
<1>2. /\ building_df' = <<>>
      /\ writer_curr_row_num' = 0
      /\ writer_node_id' \in Nodes
      /\ distro_kv_map' \in [Nodes -> [Suffixes -> Segments \cup {NoDf}]]
      /\ PlacedIn(distro_kv_map', num_rows)
      /\ CompleteIn(distro_kv_map', num_rows)
    <2>1. CASE building_df # <<>>
        <3>1. Len(building_df) \in 1 .. MaxNumRows
            BY <2>1, <1>1, EmptySeq
        <3>2. PutSegment(building_df)
            BY <2>1
        <3>3. First(writer_curr_num_segments) + Len(building_df) <= RowLimit
            BY <1>1
        <3>4. /\ distro_kv_map' \in [Nodes -> [Suffixes -> Segments \cup {NoDf}]]
              /\ PlacedIn(distro_kv_map', num_rows)
              /\ CompleteIn(distro_kv_map', num_rows)
            BY <1>1, <3>1, <3>2, <3>3, PutKeepsPlacement
        <3>5. writer_node_id' \in Nodes
            BY <2>1 DEF Inv, TypeOK, NextWriterNode
        <3> QED
            BY <2>1, <3>4, <3>5
    <2>2. CASE building_df = <<>>
        <3>1. Len(building_df) = 0
            BY <2>2
        <3>2. num_rows = StoredRows
            BY <1>1, <3>1
        <3> QED
            BY <1>1, <2>2, <3>1, <3>2 DEF Inv, TypeOK
    <2> QED
        BY <2>1, <2>2
<1>3. TypeOK'
    <2>1. <<>> \in Segments /\ 0 \in 0 .. MaxNumRows - 1 /\ 0 \in 0 .. NumNodes
        BY DEF Segments
    <2> QED
        BY <1>1, <1>2, <2>1 DEF Inv, TypeOK, readerVars
<1>4. WriterInv'
    BY <1>2, NoDfAssumption DEF WriterInv, Consecutive
<1>5. PlacedIn(distro_kv_map, StoredRows)' /\ CompleteIn(distro_kv_map, StoredRows)'
    BY <1>1, <1>2 DEF PlacedIn, CompleteIn
<1>6. ValueInv'
    BY UnseenWhileBuilding, NoDfAssumption DEF ValueInv, Inv, TypeOK
<1>7. CacheInv' /\ MapInv'
    BY UnseenWhileBuilding DEF CacheInv, MapInv, readerVars
<1> QED
    BY <1>3, <1>4, <1>5, <1>6, <1>7 DEF Inv

LEMMA BroadcastValueInv == Inv /\ BroadcastValue => Inv'
<1> SUFFICES ASSUME Inv, BroadcastValue PROVE Inv'
    OBVIOUS
<1> USE DEF BroadcastValue, writerVars, readerVars
<1>1. broadcast_next # NoDf /\ broadcast_next' # NoDf
    BY NoDfAssumption
<1>2. /\ value_rows' \in [Nodes -> 0 .. RowLimit \cup {NoDf}]
      /\ \A n \in Nodes : \/ value_rows'[n] = value_rows[n]
                          \/ value_rows'[n] = num_rows
      /\ \A n \in Nodes : value_rows[n] # NoDf => value_rows'[n] = num_rows
    BY DEF Inv, TypeOK, ValueInv
<1>3. TypeOK'
    BY <1>2 DEF Inv, TypeOK
<1>4. WriterInv'
    BY <1>1 DEF Inv, WriterInv, Consecutive
<1>5. PlacedIn(distro_kv_map, StoredRows)' /\ CompleteIn(distro_kv_map, StoredRows)'
    BY <1>1 DEF Inv, StoredRows, PlacedIn, CompleteIn
<1>6. ValueInv'
    BY <1>1, <1>2 DEF Inv, ValueInv
<1>7. num_rows # NoDf
    BY NoDfAssumption DEF Inv, TypeOK
<1>8. CacheInv' /\ MapInv'
    BY <1>2, <1>7 DEF Inv, TypeOK, CacheInv, MapInv, ValueInv
<1> QED
    BY <1>3, <1>4, <1>5, <1>6, <1>8 DEF Inv

-----------------------------------------------------------------------------
\* cache_df leaves in the cache the segment that holds the row, whether or
\* not it was there before.
LEMMA CacheDfCorrect ==
    ASSUME Inv, NEW n \in Nodes, NEW row \in Nat,
           value_rows[n] # NoDf, row < num_rows,
           CacheDf(n, row), UNCHANGED <<distro_kv_map, value_rows>>
    PROVE  /\ cached_key' \in [Nodes -> Suffixes \cup {NoDf}]
           /\ cached_df' \in [Nodes -> Segments \cup {NoDf}]
           /\ CacheInv'
           /\ cached_df'[n] = distro_kv_map[NodeId(row)][KeySuffix(row)]
<1>1. /\ KeySuffix(row) \in Suffixes
      /\ NodeId(row) \in Nodes
      /\ NodeId(row) = KeySuffix(row) % NumNodes
    <2>1. KeySuffix(row) \in Nat /\ KeySuffix(row) <= row /\ NodeId(row) \in Nodes
        BY SegmentOfRow
    <2>2. row <= RowLimit
        BY DEF Inv, TypeOK
    <2> QED
        BY <2>1, <2>2 DEF NodeId
<1>2. KeySuffix(row) # NoDf
    BY <1>1, NoDfAssumption
<1>3. /\ cached_key \in [Nodes -> Suffixes \cup {NoDf}]
      /\ cached_df \in [Nodes -> Segments \cup {NoDf}]
      /\ distro_kv_map[NodeId(row)][KeySuffix(row)] \in Segments \cup {NoDf}
    BY <1>1 DEF Inv, TypeOK
<1>4. CASE cached_key[n] = KeySuffix(row)
    BY <1>1, <1>2, <1>3, <1>4 DEF CacheDf, Inv, CacheInv
<1>5. CASE cached_key[n] # KeySuffix(row)
    <2> DEFINE df == distro_kv_map[NodeId(row)][KeySuffix(row)]
    <2>1. /\ cached_key' = [cached_key EXCEPT ![n] = KeySuffix(row)]
          /\ cached_df' = [cached_df EXCEPT ![n] = df]
        BY <1>5 DEF CacheDf
    <2>2. /\ cached_key' \in [Nodes -> Suffixes \cup {NoDf}]
          /\ cached_df' \in [Nodes -> Segments \cup {NoDf}]
        BY <1>1, <1>3, <2>1
    <2>3. cached_key'[n] = KeySuffix(row) /\ cached_df'[n] = df
        BY <1>3, <2>1
    <2>4. ASSUME NEW m \in Nodes, m # n
          PROVE  cached_key'[m] = cached_key[m] /\ cached_df'[m] = cached_df[m]
        BY <1>3, <2>1, <2>4
    <2>5. CacheInv'
        <3> SUFFICES ASSUME NEW m \in Nodes, cached_key'[m] # NoDf
                     PROVE  /\ value_rows[m] # NoDf
                            /\ cached_df'[m] = distro_kv_map[cached_key'[m] % NumNodes][cached_key'[m]]
            BY DEF CacheInv
        <3>1. CASE m = n
            BY <3>1, <1>1, <2>3
        <3>2. CASE m # n
            BY <3>2, <2>4 DEF Inv, CacheInv
        <3> QED
            BY <3>1, <3>2
    <2> QED
        BY <2>2, <2>3, <2>5
<1> QED
    BY <1>4, <1>5

\* The segment a map fetches at a segment boundary holds the next rows, at
\* least one of them, and ends at a boundary or with the value.
LEMMA SegmentAtBoundary ==
    ASSUME Inv, NEW row \in Nat, row < num_rows, row % MaxNumRows = 0,
           broadcast_next # NoDf
    PROVE  LET df == distro_kv_map[NodeId(row)][KeySuffix(row)]
           IN  /\ Len(df) \in Nat \ {0}
               /\ row + Len(df) <= num_rows
               /\ \/ row + Len(df) = num_rows
                  \/ (row + Len(df)) % MaxNumRows = 0
               /\ \A i \in 1 .. Len(df) : df[i] = row + i - 1
<1> DEFINE s == KeySuffix(row)
           node == NodeId(row)
           df == distro_kv_map[NodeId(row)][KeySuffix(row)]
<1>1. /\ s \in Nat /\ s <= row /\ node \in Nodes
      /\ node = s % NumNodes
      /\ row = First(s) + RowInDf(row)
      /\ RowInDf(row) = 0
    BY SegmentOfRow DEF NodeId, RowInDf
<1>2. num_rows \in 0 .. RowLimit /\ StoredRows = num_rows
    BY DEF Inv, TypeOK, StoredRows
<1>3. s \in Suffixes /\ First(s) = row
    <2>1. First(s) \in Nat
        BY <1>1, FirstType
    <2> QED
        BY <1>1, <1>2, <2>1
<1> HIDE DEF s, node, df
<1>4. HasRow(df, 0, row)
    BY <1>1, <1>2 DEF Inv, CompleteIn, s, node, df
<1>5. df = distro_kv_map[node][s] /\ df # NoDf
    BY <1>4 DEF HasRow, s, node, df
<1>6. /\ Len(df) \in 1 .. MaxNumRows
      /\ row + Len(df) <= num_rows
      /\ Consecutive(df, s)
    BY <1>1, <1>2, <1>3, <1>5 DEF Inv, PlacedIn
<1>7. \/ row + Len(df) = num_rows
      \/ (row + Len(df)) % MaxNumRows = 0
    <2>1. CASE Len(df) = MaxNumRows
        <3>1. row + Len(df) = First(s + 1) /\ First(s + 1) = ((s + 1) * MaxNumRows) + 0
            BY <1>1, <1>3, <2>1, FirstType, Multiples DEF First
        <3> s + 1 \in Nat /\ 0 \in 0 .. MaxNumRows - 1
            BY <1>1
        <3>2. (((s + 1) * MaxNumRows) + 0) % MaxNumRows = 0
            BY DivUnique
        <3> QED
            BY <3>1, <3>2
    <2>2. CASE Len(df) < MaxNumRows /\ row + Len(df) < num_rows
        <3> DEFINE next == row + Len(df)
        <3>1. Len(df) \in 0 .. MaxNumRows - 1 /\ next \in 0 .. num_rows - 1
            BY <1>2, <1>6, <2>2
        <3>2. /\ KeySuffix(next) = s
              /\ RowInDf(next) = Len(df)
              /\ NodeId(next) = node
            BY <1>1, <1>3, <3>1, RowOfSegment
        <3>3. HasRow(distro_kv_map[NodeId(next)][KeySuffix(next)], RowInDf(next), next)
            BY <1>2, <3>1 DEF Inv, CompleteIn
        <3>4. Len(df) < Len(df)
            BY <3>2, <3>3, <1>5 DEF HasRow
        <3> QED
            BY <3>4, <1>6
    <2>3. \/ Len(df) = MaxNumRows
          \/ Len(df) < MaxNumRows /\ row + Len(df) < num_rows
          \/ row + Len(df) = num_rows
        BY <1>2, <1>6
    <2> QED
        BY <2>1, <2>2, <2>3
<1> QED
    <2>1. Len(df) \in Nat \ {0}
        BY <1>6
    <2>2. \A i \in 1 .. Len(df) : df[i] = row + i - 1
        BY <1>3, <1>6 DEF Consecutive
    <2> QED
        BY <1>6, <1>7, <2>1, <2>2 DEF df

LEMMA GetInv ==
    ASSUME Inv, NEW n \in Nodes, NEW row \in 0 .. RowLimit - 1, Get(n, row)
    PROVE  Inv'
<1> USE DEF Get, writerVars
<1>1. row < num_rows
    BY DEF Inv, ValueInv
<1>2. /\ cached_key' \in [Nodes -> Suffixes \cup {NoDf}]
      /\ cached_df' \in [Nodes -> Segments \cup {NoDf}]
      /\ CacheInv'
    BY <1>1, CacheDfCorrect
<1>3. TypeOK'
    BY <1>2 DEF Inv, TypeOK
<1>4. WriterInv' /\ ValueInv' /\ MapInv'
    BY DEF Inv, WriterInv, Consecutive, ValueInv, MapInv
<1>5. PlacedIn(distro_kv_map, StoredRows)' /\ CompleteIn(distro_kv_map, StoredRows)'
    BY DEF Inv, StoredRows, PlacedIn, CompleteIn
<1> QED
    BY <1>2, <1>3, <1>4, <1>5 DEF Inv

LEMMA MapStartInv ==
    ASSUME Inv, NEW n \in Nodes, MapStart(n)
    PROVE  Inv'
<1> USE DEF MapStart, writerVars
<1>1. 0 % MaxNumRows = 0
    BY DivUnique, 0 = (0 * MaxNumRows) + 0
<1>2. value_rows[n] \in 0 .. RowLimit /\ 0 \in 0 .. RowLimit
    BY DEF Inv, TypeOK
<1>3. TypeOK'
    BY <1>2 DEF Inv, TypeOK
<1>4. WriterInv' /\ ValueInv' /\ CacheInv'
    BY DEF Inv, WriterInv, Consecutive, ValueInv, CacheInv
<1>5. MapInv'
    BY <1>1, <1>2 DEF Inv, TypeOK, MapInv
<1>6. PlacedIn(distro_kv_map, StoredRows)' /\ CompleteIn(distro_kv_map, StoredRows)'
    BY DEF Inv, StoredRows, PlacedIn, CompleteIn
<1> QED
    BY <1>3, <1>4, <1>5, <1>6 DEF Inv

\* What a step of map does, for its invariant and for its order.
LEMMA MapStepFacts ==
    ASSUME Inv, NEW n \in Nodes, MapStep(n)
    PROVE  /\ CacheInv'
           /\ cached_key' \in [Nodes -> Suffixes \cup {NoDf}]
           /\ cached_df' \in [Nodes -> Segments \cup {NoDf}]
           /\ num_rows_read[n] \in Nat /\ value_rows[n] = num_rows
           /\ num_rows_read' = [num_rows_read EXCEPT ![n] = num_rows_read[n] + Len(cached_df'[n])]
           /\ Len(cached_df'[n]) \in Nat \ {0}
           /\ num_rows_read[n] + Len(cached_df'[n]) <= num_rows
           /\ \/ num_rows_read[n] + Len(cached_df'[n]) = num_rows
              \/ (num_rows_read[n] + Len(cached_df'[n])) % MaxNumRows = 0
           /\ \A i \in 1 .. Len(cached_df'[n]) : cached_df'[n][i] = num_rows_read[n] + i - 1
<1> DEFINE row == num_rows_read[n]
<1>1. /\ value_rows[n] # NoDf /\ value_rows[n] = num_rows
      /\ broadcast_next # NoDf
      /\ row \in Nat /\ row < num_rows
      /\ row % MaxNumRows = 0
    BY DEF MapStep, Inv, TypeOK, ValueInv, MapInv
<1>2. /\ CacheDf(n, row) /\ UNCHANGED <<distro_kv_map, value_rows>>
      /\ num_rows_read' = [num_rows_read EXCEPT ![n] = row + Len(cached_df'[n])]
    BY DEF MapStep, writerVars
<1> HIDE DEF row
<1>3. /\ cached_key' \in [Nodes -> Suffixes \cup {NoDf}]
      /\ cached_df' \in [Nodes -> Segments \cup {NoDf}]
      /\ CacheInv'
      /\ cached_df'[n] = distro_kv_map[NodeId(row)][KeySuffix(row)]
    BY <1>1, <1>2, CacheDfCorrect
<1> DEFINE df == cached_df'[n]
<1>4. df = distro_kv_map[NodeId(row)][KeySuffix(row)]
    BY <1>3
<1> HIDE DEF df
<1>5. /\ Len(df) \in Nat \ {0}
      /\ row + Len(df) <= num_rows
      /\ \/ row + Len(df) = num_rows
         \/ (row + Len(df)) % MaxNumRows = 0
      /\ \A i \in 1 .. Len(df) : df[i] = row + i - 1
    BY <1>1, <1>4, SegmentAtBoundary
<1> QED
    BY <1>1, <1>2, <1>3, <1>5 DEF df, row

LEMMA MapStepInv ==
    ASSUME Inv, NEW n \in Nodes, MapStep(n)
    PROVE  Inv'
<1> USE DEF writerVars
<1>1. UNCHANGED <<writerVars, distro_kv_map, broadcast_next, value_rows>>
    BY DEF MapStep
<1>2. /\ CacheInv'
      /\ cached_key' \in [Nodes -> Suffixes \cup {NoDf}]
      /\ cached_df' \in [Nodes -> Segments \cup {NoDf}]
      /\ num_rows_read[n] \in Nat /\ value_rows[n] = num_rows
      /\ num_rows_read' = [num_rows_read EXCEPT ![n] = num_rows_read[n] + Len(cached_df'[n])]
      /\ num_rows_read[n] + Len(cached_df'[n]) \in 0 .. num_rows
      /\ \/ num_rows_read[n] + Len(cached_df'[n]) = num_rows
         \/ (num_rows_read[n] + Len(cached_df'[n])) % MaxNumRows = 0
    BY MapStepFacts
<1> DEFINE next == num_rows_read[n] + Len(cached_df'[n])
<1> HIDE DEF next
<1>3. num_rows \in 0 .. RowLimit /\ num_rows # NoDf
    BY NoDfAssumption DEF Inv, TypeOK
<1>4. /\ num_rows_read' = [num_rows_read EXCEPT ![n] = next]
      /\ next \in 0 .. RowLimit /\ next <= num_rows
      /\ next = num_rows \/ next % MaxNumRows = 0
    BY <1>2, <1>3 DEF next
<1>5. TypeOK'
    BY <1>1, <1>2, <1>4 DEF Inv, TypeOK
<1>6. WriterInv' /\ ValueInv'
    BY <1>1 DEF Inv, WriterInv, Consecutive, ValueInv
<1>7. MapInv'
    BY <1>1, <1>2, <1>3, <1>4 DEF Inv, TypeOK, MapInv
<1>8. PlacedIn(distro_kv_map, StoredRows)' /\ CompleteIn(distro_kv_map, StoredRows)'
    BY <1>1 DEF Inv, StoredRows, PlacedIn, CompleteIn
<1> QED
    BY <1>2, <1>5, <1>6, <1>7, <1>8 DEF Inv

LEMMA MapEndInv ==
    ASSUME Inv, NEW n \in Nodes, MapEnd(n)
    PROVE  Inv'
<1> USE DEF MapEnd, writerVars
<1>1. TypeOK'
    BY DEF Inv, TypeOK
<1>2. WriterInv' /\ ValueInv' /\ CacheInv' /\ MapInv'
    BY DEF Inv, TypeOK, WriterInv, Consecutive, ValueInv, CacheInv, MapInv
<1>3. PlacedIn(distro_kv_map, StoredRows)' /\ CompleteIn(distro_kv_map, StoredRows)'
    BY DEF Inv, StoredRows, PlacedIn, CompleteIn
<1> QED
    BY <1>1, <1>2, <1>3 DEF Inv

LEMMA NextInv == Inv /\ [Next]_vars => Inv'
<1> SUFFICES ASSUME Inv, [Next]_vars PROVE Inv'
    OBVIOUS
<1>1. CASE Write
    BY <1>1, AddRowInsideInv, AddRowFlushInv, PackageValueInv, BroadcastValueInv DEF Write
<1>2. ASSUME NEW n \in Nodes, Read(n) PROVE Inv'
    BY <1>2, GetInv, MapStartInv DEF Read
<1>3. ASSUME NEW n \in Nodes, Map(n) PROVE Inv'
    BY <1>3, MapStepInv, MapEndInv DEF Map
<1>4. CASE UNCHANGED vars
    BY <1>4 DEF vars, writerVars, readerVars, Inv, TypeOK, WriterInv, Consecutive, ValueInv,
                CacheInv, MapInv, StoredRows, PlacedIn, CompleteIn
<1> QED
    BY <1>1, <1>2, <1>3, <1>4 DEF Next

-----------------------------------------------------------------------------
LEMMA SpecInv == Spec => []Inv
BY InitInv, NextInv, PTL DEF Spec

\* Every variable stays in its range: in particular the node a segment is sent
\* to exists and the counters do not run past the rows that were added.
THEOREM TypeCorrect == Spec => []TypeOK
<1>1. Inv => TypeOK
    BY DEF Inv
<1> QED
    BY <1>1, SpecInv, PTL

\* Whoever sees the value finds every one of its rows where cache_df looks for
\* it, for any number of nodes, any segment size and any number of rows.
THEOREM ReadersFind == Spec => []ReadersFindEveryRow
<1>1. Inv => ReadersFindEveryRow
    <2> SUFFICES ASSUME Inv, NEW n \in Nodes, value_rows[n] # NoDf,
                        NEW row \in 0 .. value_rows[n] - 1
                 PROVE  HasRow(distro_kv_map[NodeId(row)][KeySuffix(row)], RowInDf(row), row)
        BY DEF ReadersFindEveryRow
    <2>1. StoredRows = value_rows[n]
        BY DEF Inv, ValueInv, StoredRows
    <2> QED
        BY <2>1 DEF Inv, CompleteIn
<1> QED
    BY <1>1, SpecInv, PTL

\* The cache of a reader is never mistaken for another segment.
THEOREM CacheRight == Spec => []CachedRowsRight
<1>1. Inv => CachedRowsRight
    <2> SUFFICES ASSUME Inv, NEW n \in Nodes, cached_key[n] # NoDf,
                        NEW row \in 0 .. value_rows[n] - 1,
                        cached_key[n] = KeySuffix(row)
                 PROVE  HasRow(cached_df[n], RowInDf(row), row)
        BY DEF CachedRowsRight
    <2>1. StoredRows = value_rows[n]
        BY DEF Inv, CacheInv, ValueInv, StoredRows
    <2>2. cached_df[n] = distro_kv_map[NodeId(row)][KeySuffix(row)]
        BY DEF Inv, CacheInv, NodeId
    <2> QED
        BY <2>1, <2>2 DEF Inv, CompleteIn
<1> QED
    BY <1>1, SpecInv, PTL

\* No row is stored twice, so that local_map on all nodes counts it once.
THEOREM StoredOnce == Spec => []EachRowStoredOnce
<1>1. Inv => EachRowStoredOnce
    <2> SUFFICES ASSUME Inv,
                        NEW n1 \in Nodes, NEW n2 \in Nodes,
                        NEW s1 \in Suffixes, NEW s2 \in Suffixes,
                        distro_kv_map[n1][s1] # NoDf, distro_kv_map[n2][s2] # NoDf,
                        NEW i1 \in DOMAIN distro_kv_map[n1][s1],
                        NEW i2 \in DOMAIN distro_kv_map[n2][s2],
                        distro_kv_map[n1][s1][i1] = distro_kv_map[n2][s2][i2]
                 PROVE  <<n1, s1, i1>> = <<n2, s2, i2>>
        BY DEF EachRowStoredOnce
    <2>1. ASSUME NEW n \in Nodes, NEW s \in Suffixes, distro_kv_map[n][s] # NoDf,
                 NEW i \in DOMAIN distro_kv_map[n][s]
          PROVE  /\ n = s % NumNodes /\ i \in Int /\ i - 1 \in 0 .. MaxNumRows - 1
                 /\ distro_kv_map[n][s][i] = First(s) + (i - 1)
                 /\ KeySuffix(distro_kv_map[n][s][i]) = s
                 /\ RowInDf(distro_kv_map[n][s][i]) = i - 1
        <3>1. distro_kv_map[n][s] \in Seq(0 .. RowLimit - 1)
            BY <2>1 DEF Inv, TypeOK, Segments
        <3>2. i \in 1 .. Len(distro_kv_map[n][s])
            BY <2>1, <3>1, SMTT(20)
        <3>3. /\ n = s % NumNodes /\ i - 1 \in 0 .. MaxNumRows - 1
              /\ distro_kv_map[n][s][i] = First(s) + i - 1
            <4>1. /\ n = s % NumNodes /\ Len(distro_kv_map[n][s]) \in 1 .. MaxNumRows
                  /\ Consecutive(distro_kv_map[n][s], s)
                BY <2>1, Zenon DEF Inv, PlacedIn
            <4>2. distro_kv_map[n][s][i] = First(s) + i - 1
                BY <3>2, <4>1, Zenon DEF Consecutive
            <4>3. i - 1 \in 0 .. MaxNumRows - 1
                <5> DEFINE rows == Len(distro_kv_map[n][s])
                <5>1. i \in 1 .. rows /\ rows \in 1 .. MaxNumRows
                    BY <3>2, <4>1, Zenon
                <5> HIDE DEF rows
                <5> QED
                    BY <5>1, MaxNumRowsAssumption
            <4> QED
                BY <4>1, <4>2, <4>3, Zenon
        <3>4. s \in Nat /\ First(s) \in Nat
            <4>1. s \in Nat
                BY <2>1
            <4> QED
                BY <4>1, FirstType, Zenon
        <3>5. distro_kv_map[n][s][i] = First(s) + (i - 1)
            BY <3>3, <3>4
        <3> QED
            <4> DEFINE j == i - 1
                       row == distro_kv_map[n][s][i]
            <4>1. j \in 0 .. MaxNumRows - 1 /\ row = First(s) + j /\ i \in Int
                BY <3>2, <3>3, <3>5
            <4> HIDE DEF j, row
            <4>2. KeySuffix(row) = s /\ RowInDf(row) = j
                BY <3>4, <4>1, RowOfSegment
            <4> QED
                BY <3>3, <3>5, <4>1, <4>2, Zenon DEF j, row
    <2>2. s1 = s2 /\ i1 - 1 = i2 - 1
        BY <2>1
    <2>3. n1 = n2
        BY <2>1, <2>2
    <2>4. i1 \in Int /\ i2 \in Int
        BY <2>1
    <2> QED
        BY <2>2, <2>3, <2>4
<1> QED
    BY <1>1, SpecInv, PTL

\* map visits the rows in order and without a gap.
THEOREM MapInOrder == Spec => MapVisitsInOrder
<1> DEFINE Step ==
        \A n \in Nodes :
            (num_rows_read[n] # NoDf /\ num_rows_read'[n] # NoDf) =>
                /\ num_rows_read'[n] <= value_rows[n]
                /\ num_rows_read'[n] # num_rows_read[n] =>
                     \A i \in 1 .. Len(cached_df'[n]) :
                         cached_df'[n][i] = num_rows_read[n] + i - 1
<1>1. Inv /\ [Next]_vars => [Step]_vars
    <2> SUFFICES ASSUME Inv, Next PROVE Step
        BY DEF vars
    <2>1. \A n \in Nodes : num_rows_read[n] # NoDf => num_rows_read[n] <= value_rows[n]
        BY DEF Inv, MapInv
    <2>2. num_rows_read \in [Nodes -> 0 .. RowLimit \cup {NoDf}]
        BY DEF Inv, TypeOK
    <2>3. CASE UNCHANGED num_rows_read
        BY <2>1, <2>3
    <2>4. ASSUME NEW m \in Nodes, MapStep(m) PROVE Step
        <3>1. /\ num_rows_read[m] \in Nat /\ value_rows[m] = num_rows
              /\ num_rows_read' = [num_rows_read EXCEPT ![m] = num_rows_read[m] + Len(cached_df'[m])]
              /\ num_rows_read[m] + Len(cached_df'[m]) <= num_rows
              /\ \A i \in 1 .. Len(cached_df'[m]) : cached_df'[m][i] = num_rows_read[m] + i - 1
            BY <2>4, MapStepFacts
        <3>2. ASSUME NEW n \in Nodes, n # m PROVE num_rows_read'[n] = num_rows_read[n]
            BY <3>1, <3>2, <2>2
        <3>3. num_rows_read'[m] = num_rows_read[m] + Len(cached_df'[m])
            BY <3>1, <2>2
        <3> QED
            BY <2>1, <3>1, <3>2, <3>3
    <2>5. ASSUME NEW m \in Nodes, MapStart(m) \/ MapEnd(m) PROVE Step
        BY <2>1, <2>2, <2>5 DEF MapStart, MapEnd
    <2> QED
        BY <2>3, <2>4, <2>5 DEF Next, Write, Read, Map, AddRowInside, AddRowFlush, PackageValue,
                              BroadcastValue, Get, readerVars
<1> QED
    BY <1>1, SpecInv, PTL DEF Spec, MapVisitsInOrder
=============================================================================
