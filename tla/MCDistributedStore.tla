------------------------- MODULE MCDistributedStore -------------------------
(* Three nodes and one or two values: a value with a segment on every node  *)
(* and one more on the first, one with segments on the first two nodes, or  *)
(* one with a segment on every node together with one of a single segment.  *)
EXTENDS DistributedStore

CONSTANTS k1, k2

OneOwner  == [k \in {k1} |-> 0]
TwoOwners == [k \in {k1, k2} |-> IF k = k1 THEN 0 ELSE 1]
OneValue  == [k \in {k1} |-> NumNodes + 1]
ShortValue == [k \in {k1} |-> NumNodes - 1]
TwoValues == [k \in {k1, k2} |-> IF k = k1 THEN NumNodes ELSE 1]
=============================================================================
