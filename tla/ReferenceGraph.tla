--------------------------- MODULE ReferenceGraph ---------------------------
(***************************************************************************)
(* What the registry promises about references, as long as no collection   *)
(* is dropped: the collections are the nodes of a graph that only grows,   *)
(* and a collection comes with all the edges it will ever have, to nodes   *)
(* that are already there.  A collection's name is not part of its         *)
(* identity, so a rename is not a step of this specification.              *)
(***************************************************************************)
CONSTANTS Nodes, Fields

VARIABLES nodes, edges

(* The edges n may be created with: one target at most for every field.    *)
Declarations(n) ==
    {E \in SUBSET ({n} \X Fields \X nodes) :
        \A d, e \in E : d[2] = e[2] => d = e}

Init == nodes = {} /\ edges = {}

Add(n) ==
    /\ n \notin nodes
    /\ nodes' = nodes \cup {n}
    /\ \E E \in Declarations(n) : edges' = edges \cup E

Next == \E n \in Nodes : Add(n)

Spec == Init /\ [][Next]_<<nodes, edges>>

=============================================================================
