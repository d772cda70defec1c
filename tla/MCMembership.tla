----------------------------- MODULE MCMembership -----------------------------
(* A registrar and as many nodes as it has slots for, or one more to take   *)
(* the place of a node that failed.  Nodes are alike before they start, so  *)
(* one order of starting stands for all.                                    *)
EXTENDS Membership

CONSTANTS r, n1, n2, n3

Started(n) == net[n].pc # "off" \/ ~ Running(n)
StartedInOrder ==
    /\ Started(n2) => Started(n1)
    /\ n3 \in Nodes /\ Started(n3) => Started(n2)
=============================================================================
