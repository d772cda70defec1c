------------------------------ MODULE WordCount ------------------------------
(***************************************************************************)
(* The WordCount application of eau2 (src/src/application/                 *)
(* word_count_app.cpp): node 0 stores the words of a file, every node      *)
(* counts those stored with it and publishes its count, and node 0 adds    *)
(* the counts up in the order of the nodes.  As in module Linus, a value   *)
(* is visible to every node at once and read at any later time.            *)
(***************************************************************************)
EXTENDS FileReader, FiniteSets, Bags

CONSTANTS
    NumNodes,       \* KeyValueStore::num_nodes
    SegmentRows     \* DistributedValue::MAX_NUM_ROWS

Nodes == 0 .. NumNodes - 1

ASSUME NumNodesAssumption == NumNodes \in Nat \ {0}
ASSUME SegmentAssumption  == SegmentRows \in Nat \ {0}

VARIABLES
    txt,         \* the value of key "txt", a sequence of words
    wc,          \* [node -> the value of key "wc-<node>", a bag of words]
    at,          \* [node -> where main is]
    total,       \* total_word_count on node 0
    merged       \* the next count to be merged

countVars == <<txt, wc, at, total, merged>>
vars == <<readerVars, countVars>>

None == <<Nul>>     \* not a word: in a value that is not published yet

Init ==
    /\ FRInit
    /\ txt = <<None>>
    /\ wc = [n \in Nodes |-> SetToBag({None})]
    /\ at = [n \in Nodes |-> IF n = 0 THEN "reading" ELSE "count"]
    /\ total = EmptyBag
    /\ merged = 0

\* FileReader on node 0, in the loop of from_visitor.
ReadText == at[0] = "reading" /\ Read /\ UNCHANGED countVars

\* from_visitor has come to the end: the words are published.
StoreText ==
    /\ at[0] = "reading" /\ reading = "packed"
    /\ txt' = words
    /\ at' = [at EXCEPT ![0] = "count"]
    /\ UNCHANGED <<readerVars, wc, total, merged>>

\* The rows of the segments of "txt" on node n.
LocalRows(n) == {i \in DOMAIN txt : ((i - 1) \div SegmentRows) % NumNodes = n}

\* Faulty: a word that is new to the map is not counted the first time.
CountFromZero(rows) ==
    [w \in {txt[i] : i \in rows} |-> Cardinality({i \in rows : txt[i] = w}) - 1]

\* DFWordCounter::accept over rows: the SIMap it leaves, which SIMapToDF writes
\* into the value.
Count(rows) ==
    [w \in {txt[i] : i \in rows} |-> Cardinality({i \in rows : txt[i] = w})]

\* local_count: wait for the words, count the local ones, publish the count.
LocalCount(n) ==
    /\ at[n] = "count" /\ txt # <<None>>
    /\ wc' = [wc EXCEPT ![n] = Count(LocalRows(n))]
    /\ at' = [at EXCEPT ![n] = IF n = 0 THEN "merge" ELSE "done"]
    /\ UNCHANGED <<readerVars, txt, total, merged>>

\* WordCountMerger::accept over the rows of a count: added word for word.
Merged(counts) == total (+) counts

\* Faulty: a word counted by two nodes gets the count of the second.
MergeCountsReplace ==
    /\ at[0] = "merge"
    /\ wc[merged] # SetToBag({None})
    /\ total' = wc[merged] @@ total
    /\ merged' = merged + 1
    /\ at' = IF merged + 1 = NumNodes THEN [at EXCEPT ![0] = "done"] ELSE at
    /\ UNCHANGED <<readerVars, txt, wc>>

\* One iteration of merge_counts: wait for the count of the next node and add it.
MergeCounts ==
    /\ at[0] = "merge"
    /\ wc[merged] # SetToBag({None})
    /\ total' = Merged(wc[merged])
    /\ merged' = merged + 1
    /\ at' = IF merged + 1 = NumNodes THEN [at EXCEPT ![0] = "done"] ELSE at
    /\ UNCHANGED <<readerVars, txt, wc>>

Main0 == ReadText \/ StoreText \/ LocalCount(0) \/ MergeCounts
Next  == Main0 \/ \E n \in Nodes \ {0} : LocalCount(n)

Spec == Init /\ [][Next]_vars

\* The operating system runs every node's application thread.
FairSpec == Spec /\ WF_vars(Main0) /\ \A n \in Nodes \ {0} : WF_vars(LocalCount(n))

-----------------------------------------------------------------------------
TypeOK ==
    /\ fr.i \in Nat /\ fr.end \in 0 .. BUFSIZE /\ fr.pos \in 0 .. Len(text)
    /\ DOMAIN fr.buf = Cells /\ fr.feof \in BOOLEAN
    /\ wStart \in Nat
    /\ reading \in {"skip", "check", "word", "packed", "overrun", "assertion"}
    /\ at \in [Nodes -> {"reading", "count", "merge", "done"}]
    /\ \A n \in Nodes : IsABag(wc[n])
    /\ IsABag(total)
    /\ merged \in 0 .. NumNodes

\* What node 0 prints is how often each word is in the file: no word is counted
\* by two nodes or by none, whichever segments and buffer fillings it met.
TotalCounts ==
    (at[0] = "done" /\ WellFormed(text)) =>
        total = [w \in Range(WordsOf(text)) |->
                    Cardinality({i \in DOMAIN WordsOf(text) : WordsOf(text)[i] = w})]

\* The program ends: visit finds a word where done promised one, the loops of
\* the reader, which test i_ == end_ and not i_ >= end_, never leave the buffer
\* (the array is not read past its end), and a file without a word or a node
\* without a segment keeps nobody waiting.
CountingEnds == <>(at[0] = "done" \/ ~ WellFormed(text))
=============================================================================
