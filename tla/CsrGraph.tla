------------------------------- MODULE CsrGraph -------------------------------
(***************************************************************************)
(* The two passes over the call graph in csr_graph.rs: nodes_in_cycles (an *)
(* iterative Tarjan SCC) and dependency_levels with the nodes of the first *)
(* pass as settled, the way project/call_graph.rs combines them.           *)
(*                                                                         *)
(* Node ids and the order of a node's edges come from hash-map iteration   *)
(* and from the merge order of worker threads, so a pass may start at any  *)
(* unvisited node and may follow the edges of a node in any order.  An     *)
(* entry of the explicit work stack is a node with its edges still ahead.  *)
(***************************************************************************)
EXTENDS Integers, SequencesExt, Digraph

CONSTANTS
    Node,      \* the node ids
    EdgeSets   \* the edge relations to analyse

ASSUME EdgeSetsAssumption == IsFiniteSet(Node) /\ \A E \in EdgeSets : E \subseteq Node \X Node

VARIABLES
    edges,       \* the graph, never written
    pass,        \* "cycles", "levels" or "done"
    work,        \* the DFS stack of the running pass, last on top
    in_cycle,    \* the flagged nodes
    idx, low,    \* Tarjan's numbers, -1 for an unvisited node
    scc_stack,   \* nodes whose component is still open
    next_index,
    level,       \* the level of a node, -1 if it has none
    expanding    \* nodes on the DFS stack of the second pass

vars == <<edges, pass, work, in_cycle, idx, low, scc_stack, next_index, level, expanding>>

Unset == -1

Neighbors(v) == {w \in Node : <<v, w>> \in edges}

Top == Last(work)

OnStack(v) == v \in Range(scc_stack)

\* Take one edge off the top of the work stack.
Advance(w) == [work EXCEPT ![Len(work)].rest = @ \ {w}]

Entry(v) == [node |-> v, rest |-> Neighbors(v)]

-----------------------------------------------------------------------------
Init ==
    /\ edges \in EdgeSets
    /\ pass = "cycles"
    /\ work = <<>>
    /\ in_cycle = {v \in Node : <<v, v>> \in edges}
    /\ idx = [v \in Node |-> Unset] /\ low = [v \in Node |-> 0]
    /\ scc_stack = <<>> /\ next_index = 0
    /\ level = [v \in Node |-> Unset]
    /\ expanding = {}

(* nodes_in_cycles *)

\* Number a node and open its component; stk is the work stack below it.
Visit(v, stk) ==
    /\ idx' = [idx EXCEPT ![v] = next_index]
    /\ low' = [low EXCEPT ![v] = next_index]
    /\ next_index' = next_index + 1
    /\ scc_stack' = Append(scc_stack, v)
    /\ work' = Append(stk, Entry(v))

VisitStart(v) ==
    /\ pass = "cycles" /\ work = <<>> /\ idx[v] = Unset
    /\ Visit(v, work)
    /\ UNCHANGED <<edges, pass, in_cycle, level, expanding>>

\* Follow an edge: to an unvisited node, to an open component, or to a closed one.
FollowEdge(w) ==
    /\ pass = "cycles" /\ work # <<>> /\ w \in Top.rest
    /\ \/ /\ idx[w] = Unset
          /\ Visit(w, Advance(w))
       \/ /\ idx[w] # Unset
          /\ low' = IF OnStack(w) THEN [low EXCEPT ![Top.node] = Min({@, idx[w]})] ELSE low
          /\ work' = Advance(w)
          /\ UNCHANGED <<idx, next_index, scc_stack>>
    /\ UNCHANGED <<edges, pass, in_cycle, level, expanding>>

Position(v) == CHOOSE j \in 1..Len(scc_stack) : scc_stack[j] = v

\* The nodes of the component closed at root v: v and all above it on the stack.
Component(v) == {scc_stack[j] : j \in Position(v)..Len(scc_stack)}

\* Faulty variant: the low number is not handed to the parent.
CloseNodeKeepsLow ==
    /\ pass = "cycles" /\ work # <<>> /\ Top.rest = {}
    /\ LET v == Top.node
           root == low[v] = idx[v]
           comp == Component(v)
       IN  /\ scc_stack' = IF root THEN SubSeq(scc_stack, 1, Position(v) - 1) ELSE scc_stack
           /\ in_cycle' = IF root /\ Cardinality(comp) > 1 THEN in_cycle \cup comp ELSE in_cycle
           /\ work' = Front(work)
    /\ UNCHANGED <<edges, pass, idx, low, next_index, level, expanding>>

\* All edges of the top node are done: close its component if it is a root, and
\* hand its low number to its parent.
CloseNode ==
    /\ pass = "cycles" /\ work # <<>> /\ Top.rest = {}
    /\ LET v == Top.node
           below == Front(work)
           root == low[v] = idx[v]
           comp == Component(v)
       IN  /\ scc_stack' = IF root THEN SubSeq(scc_stack, 1, Position(v) - 1) ELSE scc_stack
           /\ in_cycle' = IF root /\ Cardinality(comp) > 1 THEN in_cycle \cup comp ELSE in_cycle
           /\ work' = below
           /\ low' = IF below = <<>> THEN low
                     ELSE [low EXCEPT ![Last(below).node] = Min({@, low[v]})]
    /\ UNCHANGED <<edges, pass, idx, next_index, level, expanding>>

StartLevels ==
    /\ pass = "cycles" /\ work = <<>> /\ \A v \in Node : idx[v] # Unset
    /\ pass' = "levels"
    /\ UNCHANGED <<edges, work, in_cycle, idx, low, scc_stack, next_index, level, expanding>>

(* dependency_levels, with in_cycle as the settled nodes *)

ExpandStart(v) ==
    /\ pass = "levels" /\ work = <<>> /\ v \notin in_cycle /\ level[v] = Unset
    /\ work' = <<Entry(v)>>
    /\ expanding' = {v}
    /\ UNCHANGED <<edges, pass, in_cycle, idx, low, scc_stack, next_index, level>>

\* Settled, leveled and expanding neighbors are skipped.
ExpandEdge(w) ==
    /\ pass = "levels" /\ work # <<>> /\ w \in Top.rest
    /\ \/ /\ w \in in_cycle \/ level[w] # Unset \/ w \in expanding
          /\ work' = Advance(w)
          /\ UNCHANGED expanding
       \/ /\ w \notin in_cycle /\ level[w] = Unset /\ w \notin expanding
          /\ work' = Append(Advance(w), Entry(w))
          /\ expanding' = expanding \cup {w}
    /\ UNCHANGED <<edges, pass, in_cycle, idx, low, scc_stack, next_index, level>>

\* Faulty variant: the level of the deepest neighbor itself.
LevelOfNeighbor(v) == Max({0} \cup {level[w] : w \in {u \in Neighbors(v) : u \notin in_cycle /\ level[u] # Unset}})

\* One past the deepest leveled neighbor.
LevelOf(v) == Max({0} \cup {level[w] + 1 : w \in {u \in Neighbors(v) : u \notin in_cycle /\ level[u] # Unset}})

SetLevel ==
    /\ pass = "levels" /\ work # <<>> /\ Top.rest = {}
    /\ level' = [level EXCEPT ![Top.node] = LevelOf(Top.node)]
    /\ expanding' = expanding \ {Top.node}
    /\ work' = Front(work)
    /\ UNCHANGED <<edges, pass, in_cycle, idx, low, scc_stack, next_index>>

Finish ==
    /\ pass = "levels" /\ work = <<>> /\ \A v \in Node \ in_cycle : level[v] # Unset
    /\ pass' = "done"
    /\ UNCHANGED <<edges, work, in_cycle, idx, low, scc_stack, next_index, level, expanding>>

Done == pass = "done" /\ UNCHANGED vars

Next ==
    \/ \E v \in Node : VisitStart(v) \/ FollowEdge(v) \/ ExpandStart(v) \/ ExpandEdge(v)
    \/ CloseNode \/ StartLevels \/ SetLevel \/ Finish \/ Done

Spec == Init /\ [][Next]_vars /\ WF_vars(Next)

-----------------------------------------------------------------------------
(* Properties.                                                              *)

\* "scc stack underflow" cannot happen: a node on the work stack is still open,
\* and the open nodes are stacked in the order of their numbers.
OpenNodesStacked ==
    pass = "cycles" =>
        /\ \A i \in 1..Len(work) : OnStack(work[i].node)
        /\ \A i, j \in 1..Len(scc_stack) : i < j => idx[scc_stack[i]] < idx[scc_stack[j]]

\* With the cycles settled the second pass meets no back edge.
NoBackEdge ==
    pass = "levels" /\ work # <<>> =>
        \A w \in Top.rest : w \in expanding => w \in in_cycle

\* The first pass, with its stack in order all along, flags exactly the nodes on a
\* cycle, self-loops included, and that is enough for the second one.
CyclesExact ==
    /\ OpenNodesStacked
    /\ NoBackEdge
    /\ pass # "cycles" => in_cycle = OnCycle(Node, edges)

\* Every node outside the cycles has the level that the longest path of unsettled
\* nodes below it gives, so a callee's level is smaller than its caller's.
LevelsAreHeights ==
    LET open == Node \ in_cycle
        h == Height(open, {e \in edges : e[1] \in open /\ e[2] \in open})
    IN  level = [v \in Node |-> IF v \in open THEN h[v] ELSE Unset]

\* What the precompute needs of the two passes: a level for every node outside the
\* flagged ones, lower for a callee than for its caller, and no chain of edges
\* from an unflagged node back to itself.
LevelsDescend ==
    /\ \A v \in Node \ in_cycle : level[v] \in Nat
    /\ \A a, b \in Node \ in_cycle : <<a, b>> \in edges => level[b] < level[a]
    /\ \E R \in SUBSET (Node \X Node) :
          /\ edges \subseteq R
          /\ \A a, b, c : <<a, b>> \in R /\ <<b, c>> \in R => <<a, c>> \in R
          /\ \A v \in Node : <<v, v>> \in R => v \in in_cycle

\* Both passes end, on any graph, and then the levels are exact.
LevelsExact == <>[](pass = "done" /\ LevelsAreHeights)

=============================================================================
