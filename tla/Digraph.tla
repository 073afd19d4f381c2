------------------------------- MODULE Digraph -------------------------------
(***************************************************************************)
(* Reference definitions on directed graphs, against which csr_graph.rs is *)
(* checked and from which the verdict models take their leveling.          *)
(***************************************************************************)
EXTENDS FiniteSetsExt

\* What is reached from some nodes along next, which maps a node to its successors:
\* the least set that has them and all successors of its own.
Reached(next, from) ==
    {n \in DOMAIN next : \A seen \in SUBSET DOMAIN next :
        from \subseteq seen /\ (\A m \in seen : next[m] \subseteq seen) => n \in seen}

\* The nodes on a cycle, self-loops included.
OnCycle(N, E) ==
    LET next == [m \in N |-> {n \in N : <<m, n>> \in E}]
    IN  {n \in N : n \in Reached(next, next[n])}

\* For an acyclic graph: the length of the longest path out of each node.
Height(N, E) ==
    LET h[n \in N] == LET next == {m \in N : <<n, m>> \in E}
                      IN  IF next = {} THEN 0 ELSE 1 + Max({h[m] : m \in next})
    IN  h

=============================================================================
