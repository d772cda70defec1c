------------------------- MODULE MCDistributedValue -------------------------
(* DistributedValue on three nodes with segments of two rows and up to      *)
(* seven rows: the round-robin wraps around, and the last segment may be    *)
(* full, half full or absent.                                               *)
EXTENDS DistributedValue
=============================================================================
