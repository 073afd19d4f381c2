------------------------------ MODULE MCCsrGraph ------------------------------
(***************************************************************************)
(* Every graph of three nodes, self-loops included, and every graph of four*)
(* nodes with at most five edges: two components of two nodes each, joined *)
(* by an edge, are among them.                                             *)
(***************************************************************************)
EXTENDS CsrGraph

\* The bound on the edges of a graph of four nodes.
EdgeBound == 5

SmallGraphs ==
    SUBSET ((0..2) \X (0..2))
    \cup {E \in SUBSET {<<v, w>> \in Node \X Node : v # w} : Cardinality(E) <= EdgeBound}

=============================================================================
