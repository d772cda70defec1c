----------------------------- MODULE ValueStore -----------------------------
(***************************************************************************)
(* What the key-value stores of all nodes together promise the             *)
(* applications: a value is published once, by one node; from then on any  *)
(* node may learn of it, and a node that knows a value reads from it the   *)
(* segments it asks for and no others.                                     *)
(***************************************************************************)
EXTENDS Integers

CONSTANTS
    Nodes, Keys,
    NumSegments,   \* [key -> number of segments of its value]
    Nothing        \* no segment has been read yet

VARIABLES
    published,     \* the keys whose value is complete
    kv_map,        \* [node -> the keys whose value it knows]
    got            \* [node -> <<segment asked for, segment received>>]

vars == <<published, kv_map, got>>

Init ==
    /\ published = {}
    /\ kv_map = [n \in Nodes |-> {}]
    /\ got = [n \in Nodes |-> Nothing]

Publish(n, k) ==
    /\ k \in Keys \ published
    /\ published' = published \cup {k}
    /\ kv_map' = [kv_map EXCEPT ![n] = @ \cup {k}]
    /\ UNCHANGED got

Learn(n, k) ==
    /\ k \in published
    /\ kv_map' = [kv_map EXCEPT ![n] = @ \cup {k}]
    /\ UNCHANGED <<published, got>>

Read(n, k) ==
    /\ k \in kv_map[n]
    /\ \E s \in 0 .. NumSegments[k] - 1 :
          got' = [got EXCEPT ![n] = <<<<k, s>>, <<k, s>>>>]
    /\ UNCHANGED <<published, kv_map>>

Next == \E n \in Nodes, k \in Keys : Publish(n, k) \/ Learn(n, k) \/ Read(n, k)

Spec == Init /\ [][Next]_vars
=============================================================================
