---------------------------- MODULE CsrGraphProofs ----------------------------
(***************************************************************************)
(* The two passes over the call graph are exact, for every graph: the first*)
(* flags the nodes on cycles and no others, and the second meets no back   *)
(* edge and gives every other node the height that the longest path below  *)
(* it determines.                                                          *)
(***************************************************************************)
EXTENDS CsrGraph, FiniteSetTheorems, WellFoundedInduction, TLAPS

-----------------------------------------------------------------------------
(* Paths.                                                                   *)

Succ == [v \in Node |-> Neighbors(v)]

Leads(v, w) == w \in Reached(Succ, {v})

Cyclic(v) == v \in Reached(Succ, Succ[v])

LEMMA SuccType == Succ \in [Node -> SUBSET Node]
  BY DEF Succ, Neighbors

LEMMA ReachedFacts ==
    ASSUME NEW from \in SUBSET Node
    PROVE  /\ Reached(Succ, from) \subseteq Node
           /\ from \subseteq Reached(Succ, from)
           /\ \A v \in Reached(Succ, from) : Neighbors(v) \subseteq Reached(Succ, from)
           /\ \A S \in SUBSET Node :
                 from \subseteq S /\ (\A v \in S : Neighbors(v) \subseteq S) => Reached(Succ, from) \subseteq S
<1>1. DOMAIN Succ = Node /\ \A v \in Node : Succ[v] = Neighbors(v) /\ Neighbors(v) \subseteq Node
  BY DEF Succ, Neighbors
<1> QED
  BY <1>1 DEF Reached

LEMMA LeadsFacts ==
    ASSUME NEW v \in Node
    PROVE  /\ Leads(v, v)
           /\ \A w : Leads(v, w) => w \in Node /\ \A x \in Neighbors(w) : Leads(v, x)
           /\ \A w, x : Leads(v, w) /\ Leads(w, x) => Leads(v, x)
<1>1. {v} \in SUBSET Node
  OBVIOUS
<1>2. /\ Reached(Succ, {v}) \subseteq Node /\ v \in Reached(Succ, {v})
      /\ \A w \in Reached(Succ, {v}) : Neighbors(w) \subseteq Reached(Succ, {v})
  BY <1>1, ReachedFacts
<1>3. ASSUME NEW w \in Reached(Succ, {v}), NEW x \in Reached(Succ, {w}) PROVE x \in Reached(Succ, {v})
  <2>1. {w} \in SUBSET Node /\ {w} \subseteq Reached(Succ, {v})
    BY <1>2
  <2>2. Reached(Succ, {w}) \subseteq Reached(Succ, {v})
    BY <1>2, <2>1, ReachedFacts
  <2> QED
    BY <2>2
<1> QED
  BY <1>2, <1>3 DEF Leads

\* What v leads to is within any set closed under edges that v is in.
LEMMA LeadsWithin ==
    ASSUME NEW S \in SUBSET Node, NEW v \in S, \A x \in S : Neighbors(x) \subseteq S,
           NEW w, Leads(v, w)
    PROVE  w \in S
<1>1. {v} \in SUBSET Node /\ {v} \subseteq S
  OBVIOUS
<1>2. Reached(Succ, {v}) \subseteq S
  BY <1>1, ReachedFacts
<1> QED
  BY <1>2 DEF Leads

LEMMA CyclicStep ==
    ASSUME NEW v \in Node, NEW w, Leads(v, w), v \in Neighbors(w)
    PROVE  Cyclic(v)
<1> DEFINE P == Reached(Succ, Succ[v])
<1>1. Succ[v] \in SUBSET Node /\ Succ[v] = Neighbors(v)
  BY DEF Succ, Neighbors
<1>2. P \subseteq Node /\ Neighbors(v) \subseteq P /\ \A x \in P : Neighbors(x) \subseteq P
  BY <1>1, ReachedFacts
<1> HIDE DEF P
<1>3. P \cup {v} \in SUBSET Node /\ \A x \in P \cup {v} : Neighbors(x) \subseteq P \cup {v}
  BY <1>2
<1>4. w \in P \cup {v}
  BY <1>3, LeadsWithin
<1>5. v \in P
  BY <1>2, <1>4
<1> QED
  BY <1>5 DEF P, Cyclic

\* Two nodes that lead to each other are on a cycle.
LEMMA MutualCyclic ==
    ASSUME NEW v \in Node, NEW w \in Node, v # w, Leads(v, w), Leads(w, v)
    PROVE  Cyclic(v)
<1> SUFFICES ASSUME ~Cyclic(v) PROVE FALSE
  OBVIOUS
<1> DEFINE S == {x \in Node : Leads(v, x) /\ x # v}
<1>1. w \in S
  OBVIOUS
<1>2. ASSUME NEW x \in S, NEW y \in Neighbors(x) PROVE y \in S
  <2>1. Leads(v, y) /\ y \in Node
    BY LeadsFacts
  <2>2. y # v
    BY CyclicStep
  <2> QED
    BY <2>1, <2>2
<1>3. S \in SUBSET Node /\ \A x \in S : Neighbors(x) \subseteq S
  BY <1>2
<1>4. v \in S
  <2> HIDE DEF S
  <2> QED
    BY <1>1, <1>3, LeadsWithin
<1> QED
  BY <1>4

\* A node on a cycle has an edge to itself or another node on the way.
LEMMA CyclicOther ==
    ASSUME NEW v \in Node, Cyclic(v), v \notin Neighbors(v)
    PROVE  \E w \in Node : w # v /\ Leads(v, w) /\ Leads(w, v)
<1> SUFFICES ASSUME \A w \in Node : w # v /\ Leads(v, w) => ~Leads(w, v) PROVE FALSE
  OBVIOUS
<1> DEFINE S == {x \in Node : Leads(v, x) /\ x # v /\ ~Leads(x, v)}
<1>1. Succ[v] \in SUBSET Node /\ Succ[v] = Neighbors(v)
  BY DEF Succ, Neighbors
<1>2. Neighbors(v) \subseteq S
  <2>1. \A x \in Neighbors(v) : Leads(v, x) /\ x \in Node /\ x # v
    BY <1>1, LeadsFacts
  <2> QED
    BY <2>1
<1>3. ASSUME NEW x \in S, NEW y \in Neighbors(x) PROVE y \in S
  <2>1. Leads(v, y) /\ Leads(x, y) /\ y \in Node
    BY LeadsFacts
  <2>2. y # v
    BY <2>1
  <2> QED
    BY <2>1, <2>2
<1>4. S \in SUBSET Node /\ \A x \in S : Neighbors(x) \subseteq S
  BY <1>3
<1>5. Reached(Succ, Succ[v]) \subseteq S
  <2> HIDE DEF S
  <2> QED
    BY <1>1, <1>2, <1>4, ReachedFacts
<1> QED
  BY <1>5 DEF Cyclic

LEMMA SelfCyclic ==
    ASSUME NEW v \in Node, v \in Neighbors(v)
    PROVE  Cyclic(v)
  BY LeadsFacts, CyclicStep

LEMMA OnCycleCyclic == OnCycle(Node, edges) = {v \in Node : Cyclic(v)}
  BY DEF OnCycle, Cyclic, Succ, Neighbors

\* The graph is never written.
LEMMA PathsKept ==
    ASSUME UNCHANGED edges
    PROVE  /\ \A v : Neighbors(v)' = Neighbors(v) /\ Cyclic(v)' = Cyclic(v)
           /\ \A v, w : Leads(v, w)' = Leads(v, w)
<1>1. Succ' = Succ /\ \A v : Neighbors(v)' = Neighbors(v)
  BY DEF Succ, Neighbors
<1> QED
  BY <1>1 DEF Cyclic, Leads, Reached

-----------------------------------------------------------------------------
(* Types, and how the stacks change.                                        *)

Visited == {v \in Node : idx[v] # Unset}

Open == Range(scc_stack)

\* The nodes whose component is decided.
Closed == Visited \ Open

Depth == 1..Len(work)

At(i) == work[i].node

Entries == [node : Node, rest : SUBSET Node]

TypeInv ==
    /\ edges \in EdgeSets
    /\ pass \in {"cycles", "levels", "done"}
    /\ work \in Seq(Entries)
    /\ \A i \in Depth : work[i].rest \subseteq Neighbors(At(i))
    /\ in_cycle \subseteq Node /\ expanding \subseteq Node
    /\ idx \in [Node -> Int] /\ low \in [Node -> Int] /\ level \in [Node -> Int]
    /\ scc_stack \in Seq(Node) /\ next_index \in Nat

LEMMA SeqFacts ==
    ASSUME NEW S, NEW s \in Seq(S)
    PROVE  /\ Len(s) \in Nat /\ DOMAIN s = 1..Len(s) /\ \A i \in 1..Len(s) : s[i] \in S
           /\ s = <<>> <=> Len(s) = 0
  OBVIOUS

LEMMA PrefixFacts ==
    ASSUME NEW S, NEW s \in Seq(S), NEW n \in 1..Len(s)
    PROVE  LET t == SubSeq(s, 1, n - 1)
           IN  t \in Seq(S) /\ Len(t) = n - 1 /\ \A i \in 1..(n - 1) : t[i] = s[i]
  OBVIOUS

LEMMA StackFacts ==
    ASSUME TypeInv
    PROVE  /\ Len(work) \in Nat /\ DOMAIN work = Depth
           /\ \A i \in Depth : work[i] \in Entries /\ At(i) \in Node /\ work[i].rest \in SUBSET Node
           /\ work # <<>> => Len(work) \in Depth /\ Top = work[Len(work)] /\ Top.node = At(Len(work))
           /\ work = <<>> => Len(work) = 0
<1>1. work \in Seq(Entries)
  BY DEF TypeInv
<1>2. /\ Len(work) \in Nat /\ DOMAIN work = Depth /\ \A i \in Depth : work[i] \in Entries
      /\ work = <<>> <=> Len(work) = 0
  BY <1>1, SeqFacts DEF Depth
<1>3. \A e \in Entries : e.node \in Node /\ e.rest \in SUBSET Node
  BY DEF Entries
<1>4. Top = work[Len(work)]
  BY DEF Top, Last
<1> QED
  BY <1>2, <1>3, <1>4 DEF At, Depth

\* The work stack after an edge is taken off its top.
LEMMA AdvanceFacts ==
    ASSUME TypeInv, work # <<>>, NEW w
    PROVE  /\ Advance(w) \in Seq(Entries) /\ Len(Advance(w)) = Len(work)
           /\ \A i \in Depth : /\ Advance(w)[i].node = At(i)
                               /\ Advance(w)[i].rest = IF i = Len(work) THEN work[i].rest \ {w} ELSE work[i].rest
<1> DEFINE n == Len(work)
<1>1. work \in Seq(Entries) /\ n \in Depth /\ n \in Nat
  BY StackFacts DEF TypeInv
<1>2. Advance(w) = [work EXCEPT ![n] = [work[n] EXCEPT !.rest = @ \ {w}]]
  BY DEF Advance
<1>3. ASSUME NEW e \in Entries
      PROVE  LET f == [e EXCEPT !.rest = @ \ {w}]
             IN  f \in Entries /\ f.node = e.node /\ f.rest = e.rest \ {w}
  BY DEF Entries
<1> DEFINE f == [work[n] EXCEPT !.rest = @ \ {w}]
<1>4. f \in Entries /\ f.node = At(n) /\ f.rest = work[n].rest \ {w}
  BY <1>1, <1>3, StackFacts DEF At
<1>5. Advance(w) = [work EXCEPT ![n] = f]
  BY <1>2
<1> HIDE DEF f
<1>6. Advance(w) \in Seq(Entries) /\ Len(Advance(w)) = n
  BY <1>1, <1>4, <1>5
<1>7. \A i \in Depth : Advance(w)[i] = IF i = n THEN f ELSE work[i]
  BY <1>1, <1>5, StackFacts
<1> QED
  BY <1>4, <1>6, <1>7 DEF At

\* The work stack is s with an entry for v on top.
LEMMA PushFacts ==
    ASSUME NEW s \in Seq(Entries), NEW v \in Node
    PROVE  LET t == Append(s, Entry(v))
           IN  /\ t \in Seq(Entries) /\ Len(t) = Len(s) + 1
               /\ \A i \in 1..Len(s) : t[i] = s[i]
               /\ t[Len(s) + 1].node = v /\ t[Len(s) + 1].rest = Neighbors(v)
<1>1. Entry(v) \in Entries /\ Entry(v).node = v /\ Entry(v).rest = Neighbors(v)
  BY DEF Entry, Entries, Neighbors
<1> QED
  BY <1>1

LEMMA FrontFacts ==
    ASSUME TypeInv, work # <<>>
    PROVE  /\ Front(work) \in Seq(Entries) /\ Len(Front(work)) = Len(work) - 1
           /\ \A i \in 1..(Len(work) - 1) : Front(work)[i] = work[i]
<1>1. work \in Seq(Entries) /\ Len(work) \in 1..Len(work)
  BY StackFacts DEF TypeInv, Depth
<1>2. Front(work) = SubSeq(work, 1, Len(work) - 1)
  BY DEF Front
<1> QED
  BY <1>1, <1>2, PrefixFacts

\* A node is entered from the top of the stack, or the stack was empty.
Entered(w) ==
    /\ w \in Node
    /\ work # <<>> => w \in work[Len(work)].rest
    /\ Len(work') = Len(work) + 1
    /\ \A i \in Depth : /\ work'[i].node = At(i)
                        /\ work'[i].rest = IF i = Len(work) THEN work[i].rest \ {w} ELSE work[i].rest
    /\ work'[Len(work) + 1].node = w /\ work'[Len(work) + 1].rest = Neighbors(w)

\* An edge to w is passed over.
Passed(w) ==
    /\ work # <<>> /\ w \in work[Len(work)].rest
    /\ Len(work') = Len(work)
    /\ \A i \in Depth : /\ work'[i].node = At(i)
                        /\ work'[i].rest = IF i = Len(work) THEN work[i].rest \ {w} ELSE work[i].rest

\* The top of the stack, which has no edges left, is taken off.
Left ==
    /\ work # <<>> /\ work[Len(work)].rest = {}
    /\ Len(work') = Len(work) - 1
    /\ \A i \in 1..(Len(work) - 1) : work'[i] = work[i]

LEMMA EnteredFromEmpty ==
    ASSUME TypeInv, work = <<>>, NEW w \in Node, work' = Append(work, Entry(w))
    PROVE  Entered(w) /\ work' \in Seq(Entries)
<1>1. work \in Seq(Entries) /\ Len(work) = 0
  BY DEF TypeInv
<1> HIDE DEF Depth
<1>2. Depth = {}
  BY <1>1 DEF Depth
<1> QED
  BY <1>1, <1>2, PushFacts DEF Entered

LEMMA EnteredFromTop ==
    ASSUME TypeInv, work # <<>>, NEW w \in Top.rest, work' = Append(Advance(w), Entry(w))
    PROVE  Entered(w) /\ work' \in Seq(Entries) /\ w \in Neighbors(At(Len(work)))
<1>1. w \in work[Len(work)].rest /\ w \in Node /\ w \in Neighbors(At(Len(work)))
  BY StackFacts DEF TypeInv, Neighbors
<1>2. Advance(w) \in Seq(Entries) /\ Len(Advance(w)) = Len(work)
  BY AdvanceFacts
<1>3. \A i \in Depth : work'[i] = Advance(w)[i]
  BY <1>1, <1>2, PushFacts DEF Depth
<1>4. /\ work' \in Seq(Entries) /\ Len(work') = Len(work) + 1
      /\ work'[Len(work) + 1].node = w /\ work'[Len(work) + 1].rest = Neighbors(w)
  BY <1>1, <1>2, PushFacts
<1>5. \A i \in Depth : /\ work'[i].node = At(i)
                      /\ work'[i].rest = IF i = Len(work) THEN work[i].rest \ {w} ELSE work[i].rest
  <2>1. \A i \in Depth : /\ Advance(w)[i].node = At(i)
                         /\ Advance(w)[i].rest = IF i = Len(work) THEN work[i].rest \ {w} ELSE work[i].rest
    BY AdvanceFacts
  <2> QED
    BY <1>3, <2>1
<1> QED
  BY <1>1, <1>4, <1>5 DEF Entered

LEMMA PassedAlong ==
    ASSUME TypeInv, work # <<>>, NEW w \in Top.rest, work' = Advance(w)
    PROVE  Passed(w) /\ work' \in Seq(Entries) /\ w \in Neighbors(At(Len(work)))
<1>1. w \in work[Len(work)].rest /\ w \in Neighbors(At(Len(work)))
  BY StackFacts DEF TypeInv
<1> QED
  BY <1>1, AdvanceFacts DEF Passed

LEMMA LeftBehind ==
    ASSUME TypeInv, work # <<>>, Top.rest = {}, work' = Front(work)
    PROVE  Left /\ work' \in Seq(Entries)
  BY StackFacts, FrontFacts DEF Left

LEMMA TypeInit == Init => TypeInv
  BY EdgeSetsAssumption DEF Init, TypeInv, Unset, Depth

\* The edges left of every entry are edges of its node.
LEMMA RestKept ==
    ASSUME TypeInv, UNCHANGED edges, (\E w : Entered(w) \/ Passed(w)) \/ Left
    PROVE  (\A i \in Depth : work[i].rest \subseteq Neighbors(At(i)))'
<1>1. /\ Len(work) \in Nat /\ \A i \in Depth : work[i].rest \subseteq Neighbors(At(i))
      /\ \A v : Neighbors(v)' = Neighbors(v)
  BY StackFacts, PathsKept DEF TypeInv
<1>2. ASSUME NEW w, Entered(w) PROVE (\A i \in Depth : work[i].rest \subseteq Neighbors(At(i)))'
  <2>1. \A i \in 1..(Len(work) + 1) : i \in Depth \/ i = Len(work) + 1
    BY <1>1 DEF Depth
  <2> QED
    BY <1>1, <1>2, <2>1 DEF Entered, Depth, At
<1>3. ASSUME NEW w, Passed(w) PROVE (\A i \in Depth : work[i].rest \subseteq Neighbors(At(i)))'
  BY <1>1, <1>3 DEF Passed, Depth, At
<1>4. CASE Left
  <2>1. \A i \in 1..(Len(work) - 1) : i \in Depth
    BY <1>1 DEF Depth
  <2> QED
    BY <1>1, <1>4, <2>1 DEF Left, Depth, At
<1> QED
  BY <1>2, <1>3, <1>4

\* The first pass enters a node.
Enters(w) ==
    /\ Entered(w) /\ work' \in Seq(Entries)
    /\ work # <<>> => w \in Neighbors(At(Len(work)))
    /\ pass = "cycles" /\ idx[w] = Unset
    /\ idx' = [idx EXCEPT ![w] = next_index] /\ low' = [low EXCEPT ![w] = next_index]
    /\ next_index' = next_index + 1 /\ scc_stack' = Append(scc_stack, w)
    /\ UNCHANGED <<edges, pass, in_cycle, level, expanding>>

\* It finds a neighbor visited.
Passes(w) ==
    /\ Passed(w) /\ work' \in Seq(Entries) /\ w \in Neighbors(At(Len(work)))
    /\ pass = "cycles" /\ idx[w] # Unset
    /\ low' = IF OnStack(w) THEN [low EXCEPT ![At(Len(work))] = Min({@, idx[w]})] ELSE low
    /\ UNCHANGED <<edges, pass, in_cycle, level, expanding, idx, next_index, scc_stack>>

\* The node on top is a root, if its low number is its own.
Root == low[At(Len(work))] = idx[At(Len(work))]

\* It leaves the node on top.
Leaves(v) ==
    /\ v = At(Len(work))
    /\ Left /\ work' \in Seq(Entries) /\ pass = "cycles"
    /\ scc_stack' = IF Root THEN SubSeq(scc_stack, 1, Position(v) - 1) ELSE scc_stack
    /\ in_cycle' = IF Root /\ Cardinality(Component(v)) > 1 THEN in_cycle \cup Component(v) ELSE in_cycle
    /\ low' = IF Len(work) = 1 THEN low
              ELSE [low EXCEPT ![At(Len(work) - 1)] = Min({@, low[v]})]
    /\ UNCHANGED <<edges, pass, idx, next_index, level, expanding>>

LEMMA EnterSteps ==
    ASSUME TypeInv, NEW w \in Node, VisitStart(w) \/ (FollowEdge(w) /\ idx[w] = Unset)
    PROVE  Enters(w)
<1>1. CASE VisitStart(w)
  BY <1>1, EnteredFromEmpty DEF VisitStart, Visit, Enters
<1>2. CASE FollowEdge(w) /\ idx[w] = Unset
  BY <1>2, EnteredFromTop DEF FollowEdge, Visit, Enters
<1> QED
  BY <1>1, <1>2

LEMMA PassSteps ==
    ASSUME TypeInv, NEW w \in Node, FollowEdge(w), idx[w] # Unset
    PROVE  Passes(w)
<1>1. work # <<>> /\ w \in Top.rest /\ work' = Advance(w)
  BY DEF FollowEdge
<1>2. Top.node = At(Len(work))
  BY <1>1, StackFacts
<1> QED
  BY <1>1, <1>2, PassedAlong DEF FollowEdge, Passes

LEMMA MinOfTwo ==
    ASSUME NEW a \in Int, NEW b \in Int
    PROVE  Min({a, b}) = IF a <= b THEN a ELSE b
  BY DEF Min

LEMMA CloseSteps ==
    ASSUME TypeInv, CloseNode
    PROVE  Leaves(At(Len(work)))
<1>1. work # <<>> /\ Top.rest = {} /\ work' = Front(work)
  BY DEF CloseNode
<1>2. Len(work) \in Nat /\ Len(work) # 0 /\ Top.node = At(Len(work))
  BY <1>1, StackFacts DEF Depth
<1>3. Left /\ work' \in Seq(Entries)
  BY <1>1, LeftBehind
<1>4. Front(work) = <<>> <=> Len(work) = 1
  BY <1>1, <1>2, FrontFacts, SeqFacts
<1>5. Len(work) # 1 => Last(Front(work)).node = At(Len(work) - 1)
  <2>1. SUFFICES ASSUME Len(work) # 1 PROVE Last(Front(work)).node = At(Len(work) - 1)
    OBVIOUS
  <2>2. \A n \in Nat : n # 0 /\ n # 1 => n - 1 \in 1..(n - 1)
    OBVIOUS
  <2>3. Len(work) - 1 \in 1..(Len(work) - 1)
    BY <1>2, <2>1, <2>2
  <2>4. Len(Front(work)) = Len(work) - 1 /\ Front(work)[Len(work) - 1] = work[Len(work) - 1]
    BY <1>1, <2>3, FrontFacts
  <2> QED
    BY <2>4 DEF Last, At
<1> DEFINE v == At(Len(work))
<1>6. Top.node = v /\ (Root <=> low[v] = idx[v])
  BY <1>2 DEF Root
<1>7. /\ scc_stack' = IF low[v] = idx[v] THEN SubSeq(scc_stack, 1, Position(v) - 1) ELSE scc_stack
      /\ in_cycle' = IF low[v] = idx[v] /\ Cardinality(Component(v)) > 1
                     THEN in_cycle \cup Component(v) ELSE in_cycle
      /\ low' = IF Front(work) = <<>> THEN low
                ELSE [low EXCEPT ![Last(Front(work)).node] = Min({@, low[v]})]
      /\ pass = "cycles" /\ UNCHANGED <<edges, pass, idx, next_index, level, expanding>>
  <2> HIDE DEF v
  <2> QED
    BY <1>6 DEF CloseNode
<1>8. low' = IF Len(work) = 1 THEN low ELSE [low EXCEPT ![At(Len(work) - 1)] = Min({@, low[v]})]
  <2> HIDE DEF v
  <2>1. CASE Len(work) = 1
    BY <1>4, <1>7, <2>1
  <2>2. CASE Len(work) # 1
    BY <1>4, <1>5, <1>7, <2>2
  <2> QED
    BY <2>1, <2>2
<1> HIDE DEF v
<1>9. /\ scc_stack' = IF Root THEN SubSeq(scc_stack, 1, Position(v) - 1) ELSE scc_stack
      /\ in_cycle' = IF Root /\ Cardinality(Component(v)) > 1 THEN in_cycle \cup Component(v) ELSE in_cycle
  BY <1>6, <1>7
<1> QED
  BY <1>3, <1>7, <1>8, <1>9 DEF v, Leaves

-----------------------------------------------------------------------------
(* The first pass.                                                          *)

\* Numbers are given in turn, and both stacks are in their order.
Numbered ==
    /\ \A v \in Visited : idx[v] \in 0..(next_index - 1)
    /\ \A v, w \in Visited : idx[v] = idx[w] => v = w
    /\ Open \subseteq Visited
    /\ \A i, j \in DOMAIN scc_stack : i < j => idx[scc_stack[i]] < idx[scc_stack[j]]
    /\ \A i \in Depth : At(i) \in Open
    /\ \A i, j \in Depth : i < j => idx[At(i)] < idx[At(j)]

\* An edge from a visited node leads to one, or is still ahead; a decided component
\* has no edges to an open one.
Explored ==
    /\ \A v \in Visited : \A w \in Neighbors(v) :
          w \in Visited \/ \E i \in Depth : v = At(i) /\ w \in work[i].rest
    /\ \A v \in Closed : Neighbors(v) \subseteq Closed

\* A node on the work stack leads to all open nodes that came after it, and every
\* open node leads to one on the work stack that came before it.
Linked ==
    /\ \A i \in Depth : \A v \in Open : idx[At(i)] <= idx[v] => Leads(At(i), v)
    /\ \A v \in Open : \E i \in Depth : idx[At(i)] <= idx[v] /\ Leads(v, At(i))

\* The open nodes that came after the i-th on the work stack and before the next.
Segment(i) == {v \in Open : idx[At(i)] <= idx[v] /\ (i < Len(work) => idx[v] < idx[At(i + 1)])}

\* A low number is that of an open node, and the edges of its segment that have been
\* followed lead no lower.
LowExact ==
    /\ \A i \in Depth :
          /\ low[At(i)] <= idx[At(i)]
          /\ \E v \in Open : idx[v] = low[At(i)] /\ Leads(At(i), v)
    /\ \A i \in Depth : \A v \in Segment(i) : \A w \in Neighbors(v) \cap Open :
          (v = At(i) /\ w \in work[i].rest) \/ low[At(i)] <= idx[w]

\* Flagged are self-loops and the decided cycles.
Flagged ==
    /\ \A v \in Node : v \in Neighbors(v) => v \in in_cycle
    /\ \A v \in in_cycle : Cyclic(v)
    /\ \A v \in Closed : Cyclic(v) => v \in in_cycle

CyclesInv == Numbered /\ Explored /\ Linked /\ LowExact /\ Flagged

LEMMA OpenFacts ==
    ASSUME TypeInv
    PROVE  /\ Open = {scc_stack[i] : i \in 1..Len(scc_stack)} /\ Open \subseteq Node
           /\ DOMAIN scc_stack = 1..Len(scc_stack) /\ Len(scc_stack) \in Nat
           /\ \A v : OnStack(v) <=> v \in Open
<1>1. scc_stack \in Seq(Node)
  BY DEF TypeInv
<1> QED
  BY <1>1, SeqFacts DEF Open, Range, OnStack

\* The component of v is what came on the stack with or after v.
LEMMA ComponentFacts ==
    ASSUME TypeInv, Numbered, NEW v \in Open
    PROVE  /\ Component(v) = {w \in Open : idx[v] <= idx[w]}
           /\ LET t == SubSeq(scc_stack, 1, Position(v) - 1)
              IN  /\ t \in Seq(Node) /\ Range(t) = {w \in Open : idx[w] < idx[v]}
                  /\ \A i, j \in DOMAIN t : i < j => idx[t[i]] < idx[t[j]]
<1> DEFINE p == Position(v)
           n == Len(scc_stack)
           t == SubSeq(scc_stack, 1, p - 1)
<1>1. /\ Open = {scc_stack[i] : i \in 1..n} /\ Open \subseteq Node /\ DOMAIN scc_stack = 1..n
      /\ n \in Nat /\ scc_stack \in Seq(Node)
  BY OpenFacts DEF TypeInv
<1>2. p \in 1..n /\ scc_stack[p] = v
  BY <1>1 DEF Position
<1>3. \A w \in Open : idx[w] \in Int
  BY <1>1 DEF TypeInv
<1>4. \A i \in 1..n : (idx[v] <= idx[scc_stack[i]] <=> p <= i)
  <2>1. \A i, j \in 1..n : i < j => idx[scc_stack[i]] < idx[scc_stack[j]]
    BY <1>1 DEF Numbered
  <2> SUFFICES ASSUME NEW i \in 1..n PROVE idx[v] <= idx[scc_stack[i]] <=> p <= i
    OBVIOUS
  <2>2. idx[v] \in Int /\ idx[scc_stack[i]] \in Int
    BY <1>1, <1>3
  <2>3. CASE i < p
    <3>1. idx[scc_stack[i]] < idx[v]
      BY <1>2, <2>1, <2>3
    <3> QED
      BY <1>2, <2>2, <2>3, <3>1
  <2>4. CASE p < i
    <3>1. idx[v] < idx[scc_stack[i]]
      BY <1>2, <2>1, <2>4
    <3> QED
      BY <1>2, <2>2, <2>4, <3>1
  <2>5. CASE i = p
    BY <1>2, <2>2, <2>5
  <2> QED
    BY <1>2, <2>3, <2>4, <2>5
<1>5. Component(v) = {scc_stack[j] : j \in p..n}
  BY DEF Component
<1>6. t \in Seq(Node) /\ Len(t) = p - 1 /\ \A i \in 1..(p - 1) : t[i] = scc_stack[i]
  BY <1>1, <1>2, PrefixFacts
<1>7. DOMAIN t = 1..(p - 1)
  BY <1>6, SeqFacts
<1> HIDE DEF p, n, t
<1>8. \A i \in 1..(p - 1) : i \in 1..n /\ ~(p <= i)
  BY <1>1, <1>2
<1>9. Component(v) = {w \in Open : idx[v] <= idx[w]}
  <2>1. ASSUME NEW j \in p..n PROVE scc_stack[j] \in Open /\ idx[v] <= idx[scc_stack[j]]
    BY <1>1, <1>2, <1>4
  <2>2. ASSUME NEW w \in Open, idx[v] <= idx[w] PROVE \E j \in p..n : w = scc_stack[j]
    <3>1. PICK j \in 1..n : w = scc_stack[j]
      BY <1>1
    <3>2. p <= j
      BY <1>4, <2>2, <3>1
    <3> QED
      BY <1>1, <1>2, <3>1, <3>2
  <2> QED
    BY <1>5, <2>1, <2>2
<1>10. Range(t) = {w \in Open : idx[w] < idx[v]}
  <2>1. ASSUME NEW i \in 1..(p - 1) PROVE scc_stack[i] \in Open /\ idx[scc_stack[i]] < idx[v]
    <3>1. scc_stack[i] \in Open /\ ~(idx[v] <= idx[scc_stack[i]])
      BY <1>1, <1>4, <1>8
    <3> QED
      BY <1>3, <3>1
  <2>2. ASSUME NEW w \in Open, idx[w] < idx[v] PROVE \E i \in 1..(p - 1) : w = scc_stack[i]
    <3>1. PICK i \in 1..n : w = scc_stack[i]
      BY <1>1
    <3>2. ~(idx[v] <= idx[w])
      BY <1>3, <2>2
    <3>3. ~(p <= i)
      BY <1>4, <3>1, <3>2
    <3> QED
      BY <1>1, <1>2, <3>1, <3>3
  <2>3. Range(t) = {t[i] : i \in 1..(p - 1)}
    BY <1>7 DEF Range
  <2> QED
    BY <1>6, <2>1, <2>2, <2>3
<1>11. \A i, j \in DOMAIN t : i < j => idx[t[i]] < idx[t[j]]
  BY <1>1, <1>6, <1>7, <1>8 DEF Numbered
<1> QED
  BY <1>6, <1>9, <1>10, <1>11 DEF t, p

\* Nothing of the second pass has happened yet.
Unleveled == expanding = {} /\ \A v \in Node : level[v] = Unset

\* What a step of the first pass leaves of the views on its state.
LEMMA EnterViews ==
    ASSUME TypeInv, Numbered, NEW w \in Node, Enters(w)
    PROVE  /\ Len(work) \in Nat /\ Depth = 1..Len(work) /\ Depth' = Depth \cup {Len(work) + 1}
           /\ \A i \in Depth : At(i)' = At(i) /\ i < Len(work) + 1 /\ (work # <<>> /\ Len(work) \in Depth)
           /\ \A i \in Nat : i = Len(work) + 1 => At(i)' = w
           /\ w \notin Visited /\ Visited' = Visited \cup {w} /\ Open' = Open \cup {w} /\ Closed' = Closed
           /\ \A v \in Visited : idx'[v] = idx[v] /\ low'[v] = low[v] /\ v # w
           /\ idx'[w] = next_index /\ low'[w] = next_index
           /\ \A v \in Visited : idx[v] \in 0..(next_index - 1)
           /\ Open \subseteq Visited /\ next_index \in Nat /\ \A i \in Depth : At(i) \in Open
<1>1. /\ Len(work) \in Nat /\ Depth = 1..Len(work)
      /\ \A i \in Depth : work # <<>> /\ Len(work) \in Depth
  BY StackFacts DEF Depth
<1>2. /\ Depth' = Depth \cup {Len(work) + 1}
      /\ \A i \in Nat : i = Len(work) + 1 => At(i)' = w
      /\ \A i \in Depth : At(i)' = At(i) /\ i < Len(work) + 1
  <2>1. Entered(w)
    BY DEF Enters
  <2>2. Depth' = Depth \cup {Len(work) + 1}
    BY <1>1, <2>1 DEF Entered, Depth
  <2>3. \A i \in Depth : At(i)' = At(i)
    BY <2>1 DEF Entered, At
  <2>4. \A i \in Nat : i = Len(work) + 1 => At(i)' = w
    BY <2>1 DEF Entered, At
  <2>5. \A i \in Depth : i < Len(work) + 1
    BY <1>1
  <2> QED
    BY <2>2, <2>3, <2>4, <2>5
<1>3. /\ idx \in [Node -> Int] /\ low \in [Node -> Int] /\ next_index \in Nat
      /\ idx[w] = Unset /\ scc_stack \in Seq(Node)
      /\ idx' = [idx EXCEPT ![w] = next_index] /\ low' = [low EXCEPT ![w] = next_index]
      /\ scc_stack' = Append(scc_stack, w)
  BY DEF TypeInv, Enters
<1>4. /\ w \notin Visited /\ Visited' = Visited \cup {w}
      /\ \A v \in Visited : idx'[v] = idx[v] /\ low'[v] = low[v] /\ v # w
      /\ idx'[w] = next_index /\ low'[w] = next_index
  BY <1>3 DEF Visited, Unset
<1>5. /\ \A v \in Visited : idx[v] \in 0..(next_index - 1)
      /\ Open \subseteq Visited /\ \A i \in Depth : At(i) \in Open
  BY DEF Numbered
<1>6. Open' = Open \cup {w}
  <2>1. Open = {scc_stack[i] : i \in 1..Len(scc_stack)} /\ Len(scc_stack) \in Nat
    BY OpenFacts
  <2>2. DOMAIN scc_stack' = 1..(Len(scc_stack) + 1)
    BY <1>3
  <2>3. /\ \A i \in 1..Len(scc_stack) : scc_stack'[i] = scc_stack[i]
        /\ scc_stack'[Len(scc_stack) + 1] = w
    BY <1>3
  <2>4. Open' = {scc_stack'[i] : i \in 1..(Len(scc_stack) + 1)}
    BY <2>2 DEF Open, Range
  <2>5. \A i \in 1..(Len(scc_stack) + 1) : i \in 1..Len(scc_stack) \/ i = Len(scc_stack) + 1
    BY <2>1
  <2>6. 1..Len(scc_stack) \subseteq 1..(Len(scc_stack) + 1) /\ Len(scc_stack) + 1 \in 1..(Len(scc_stack) + 1)
    BY <2>1
  <2> QED
    BY <2>1, <2>3, <2>4, <2>5, <2>6
<1>7. Closed' = Closed
  BY <1>4, <1>5, <1>6 DEF Closed
<1> QED
  BY <1>1, <1>2, <1>3, <1>4, <1>5, <1>6, <1>7

LEMMA EnterNumbered ==
    ASSUME TypeInv, Numbered, NEW w \in Node, Enters(w)
    PROVE  Numbered'
<1>1. next_index' = next_index + 1 /\ scc_stack' = Append(scc_stack, w) /\ scc_stack \in Seq(Node)
  BY DEF Enters, TypeInv
<1>2. (\A v \in Visited : idx[v] \in 0..(next_index - 1))'
  <2>1. next_index \in Nat /\ \A v \in Visited : idx'[v] \in 0..(next_index - 1)
    BY EnterViews
  <2>2. /\ \A k \in 0..(next_index - 1) : k \in 0..(next_index' - 1)
        /\ next_index \in 0..(next_index' - 1)
    BY <1>1, <2>1
  <2> QED
    BY <2>1, <2>2, EnterViews
<1>3. (\A v, x \in Visited : idx[v] = idx[x] => v = x)'
  <2>1. \A v, x \in Visited : idx[v] = idx[x] => v = x
    BY DEF Numbered
  <2>2. \A v \in Visited : idx'[v] # idx'[w]
    BY EnterViews
  <2> QED
    BY <2>1, <2>2, EnterViews
<1>4. (Open \subseteq Visited)'
  BY EnterViews
<1>5. (\A i, j \in DOMAIN scc_stack : i < j => idx[scc_stack[i]] < idx[scc_stack[j]])'
  <2> DEFINE n == Len(scc_stack)
  <2>1. n \in Nat /\ DOMAIN scc_stack = 1..n /\ \A i \in 1..n : scc_stack[i] \in Visited
    BY OpenFacts, EnterViews
  <2>2. /\ \A i, j \in 1..n : i < j => idx[scc_stack[i]] < idx[scc_stack[j]]
        /\ \A i \in 1..n : idx[scc_stack[i]] < next_index
    <3>1. \A i \in 1..n : idx[scc_stack[i]] \in 0..(next_index - 1)
      BY <2>1, EnterViews
    <3>2. next_index \in Nat
      BY EnterViews
    <3>3. \A k \in 0..(next_index - 1) : k < next_index
      BY <3>2
    <3> QED
      BY <2>1, <3>1, <3>3 DEF Numbered
  <2>3. /\ DOMAIN scc_stack' = 1..(n + 1)
        /\ \A i \in 1..n : scc_stack'[i] = scc_stack[i]
        /\ scc_stack'[n + 1] = w
    BY <1>1
  <2>4. /\ \A i \in 1..n : idx'[scc_stack'[i]] = idx[scc_stack[i]]
        /\ idx'[scc_stack'[n + 1]] = next_index
    BY <2>1, <2>3, EnterViews
  <2> HIDE DEF n
  <2> SUFFICES ASSUME NEW i \in 1..(n + 1), NEW j \in 1..(n + 1), i < j
               PROVE  idx'[scc_stack'[i]] < idx'[scc_stack'[j]]
    BY <2>3
  <2>5. i \in 1..n
    BY <2>1
  <2>6. CASE j = n + 1
    BY <2>2, <2>4, <2>5, <2>6
  <2>7. CASE j \in 1..n
    BY <2>2, <2>4, <2>5, <2>7
  <2> QED
    BY <2>1, <2>6, <2>7
<1>6. (\A i \in Depth : At(i) \in Open)'
  BY EnterViews
<1>7. (\A i, j \in Depth : i < j => idx[At(i)] < idx[At(j)])'
  <2>1. \A i, j \in Depth : i < j => idx[At(i)] < idx[At(j)]
    BY DEF Numbered
  <2>2. \A i \in Depth : idx'[At(i)'] = idx[At(i)] /\ idx[At(i)] < next_index
    BY EnterViews
  <2>3. \A i \in Depth' : i \in Depth \/ i = Len(work) + 1
    BY EnterViews
  <2>4. \A i \in Depth' : i = Len(work) + 1 => idx'[At(i)'] = next_index
    BY EnterViews
  <2>5. \A i \in Depth : ~(Len(work) + 1 < i) /\ ~(Len(work) + 1 < Len(work) + 1)
    BY EnterViews
  <2> SUFFICES ASSUME NEW i \in Depth', NEW j \in Depth', i < j PROVE idx'[At(i)'] < idx'[At(j)']
    OBVIOUS
  <2>6. i \in Depth
    BY <2>3, <2>5
  <2> QED
    BY <2>1, <2>2, <2>3, <2>4, <2>6
<1> QED
  BY <1>2, <1>3, <1>4, <1>5, <1>6, <1>7 DEF Numbered

LEMMA EnterExplored ==
    ASSUME TypeInv, Numbered, Explored, NEW w \in Node, Enters(w)
    PROVE  Explored'
<1>1. \A v : Neighbors(v)' = Neighbors(v)
  BY PathsKept DEF Enters
<1>2. ASSUME NEW v \in Visited', NEW x \in Neighbors(v)
      PROVE  x \in Visited' \/ \E i \in Depth' : v = At(i)' /\ x \in work'[i].rest
  <2>1. /\ Len(work) \in Nat /\ Depth' = Depth \cup {Len(work) + 1}
        /\ Visited' = Visited \cup {w} /\ \A i \in Depth : At(i)' = At(i)
    BY EnterViews
  <2>2. \A i \in Depth : work'[i].rest = IF i = Len(work) THEN work[i].rest \ {w} ELSE work[i].rest
    BY DEF Enters, Entered
  <2>3. CASE v = w
    <3>1. Len(work) + 1 \in Nat /\ work'[Len(work) + 1].node = w /\ work'[Len(work) + 1].rest = Neighbors(w)
      BY <2>1 DEF Enters, Entered
    <3>2. PICK i \in Depth' : i = Len(work) + 1
      BY <2>1
    <3>3. At(i)' = w
      BY <3>1, <3>2 DEF At
    <3> QED
      BY <2>3, <3>1, <3>2, <3>3
  <2>4. CASE v # w
    <3>1. v \in Visited
      BY <2>1, <2>4
    <3>2. x \in Visited \/ \E i \in Depth : v = At(i) /\ x \in work[i].rest
      BY <3>1 DEF Explored
    <3> SUFFICES ASSUME x \notin Visited' PROVE \E i \in Depth' : v = At(i)' /\ x \in work'[i].rest
      OBVIOUS
    <3>3. PICK i \in Depth : v = At(i) /\ x \in work[i].rest
      BY <2>1, <3>2
    <3>4. x # w
      BY <2>1
    <3>5. x \in work'[i].rest /\ v = At(i)' /\ i \in Depth'
      BY <2>1, <2>2, <3>3, <3>4
    <3> QED
      BY <3>5
  <2> QED
    BY <2>3, <2>4
<1>3. \A v \in Closed' : Neighbors(v) \subseteq Closed'
  BY EnterViews DEF Explored
<1> QED
  BY <1>1, <1>2, <1>3 DEF Explored

LEMMA EnterLinked ==
    ASSUME TypeInv, Numbered, Linked, NEW w \in Node, Enters(w)
    PROVE  Linked'
<1>1. \A v, x : Leads(v, x)' = Leads(v, x)
  BY PathsKept DEF Enters
<1>2. /\ Open \subseteq Node /\ Open \subseteq Visited /\ Open' = Open \cup {w} /\ next_index \in Nat
      /\ \A v \in Visited : idx'[v] = idx[v] /\ idx[v] \in Int /\ idx[v] < next_index /\ v # w
      /\ idx'[w] = next_index
  <2>1. \A v \in Visited : idx[v] \in 0..(next_index - 1) /\ next_index \in Nat
    BY EnterViews
  <2> QED
    BY <2>1, EnterViews, OpenFacts
<1>3. /\ Depth' = Depth \cup {Len(work) + 1} /\ Len(work) \in Nat /\ Depth = 1..Len(work)
      /\ \A i \in Depth : At(i)' = At(i) /\ At(i) \in Open
      /\ \A i \in Depth' : i = Len(work) + 1 => At(i)' = w
  BY EnterViews
<1>4. ASSUME NEW i \in Depth', NEW v \in Open', idx'[At(i)'] <= idx'[v] PROVE Leads(At(i)', v)
  <2>1. CASE i = Len(work) + 1
    <3>1. At(i)' = w /\ v = w
      BY <1>2, <1>3, <1>4, <2>1
    <3> QED
      BY <3>1, LeadsFacts
  <2>2. CASE i \in Depth /\ v = w
    <3> DEFINE p == At(Len(work))
    <3>1. work # <<>> /\ w \in Neighbors(p) /\ Len(work) \in Depth
      BY <2>2, EnterViews DEF Enters
    <3>2. idx[At(i)] <= idx[p]
      <4>1. i < Len(work) => idx[At(i)] < idx[p]
        BY <2>2, <3>1 DEF Numbered
      <4>2. idx[At(i)] \in Int /\ idx[p] \in Int
        BY <1>2, <1>3, <2>2, <3>1
      <4>3. i < Len(work) \/ i = Len(work)
        BY <1>3, <2>2
      <4> HIDE DEF p
      <4>4. CASE i = Len(work)
        BY <4>2, <4>4 DEF p
      <4>5. CASE i < Len(work)
        BY <4>1, <4>2, <4>5
      <4> QED
        BY <4>3, <4>4, <4>5
    <3>3. p \in Open
      BY <1>3, <3>1
    <3>4. Leads(At(i), p)
      BY <2>2, <3>2, <3>3 DEF Linked
    <3>5. At(i) \in Node
      BY <1>2, <1>3, <2>2
    <3> QED
      BY <1>3, <2>2, <3>1, <3>4, <3>5, LeadsFacts
  <2>3. CASE i \in Depth /\ v # w
    <3>1. v \in Open /\ idx[At(i)] <= idx[v]
      BY <1>2, <1>3, <1>4, <2>3
    <3> QED
      BY <1>3, <2>3, <3>1 DEF Linked
  <2> QED
    BY <1>3, <2>1, <2>2, <2>3
<1>5. ASSUME NEW v \in Open' PROVE \E i \in Depth' : idx'[At(i)'] <= idx'[v] /\ Leads(v, At(i)')
  <2>1. CASE v = w
    <3>1. PICK i \in Depth' : i = Len(work) + 1
      BY <1>3
    <3>2. At(i)' = w /\ Leads(w, w) /\ idx'[w] <= idx'[w]
      BY <1>2, <1>3, <3>1, LeadsFacts
    <3> QED
      BY <2>1, <3>2
  <2>2. CASE v # w
    <3>1. v \in Open
      BY <1>2, <2>2
    <3>2. PICK i \in Depth : idx[At(i)] <= idx[v] /\ Leads(v, At(i))
      BY <3>1 DEF Linked
    <3> QED
      BY <1>2, <1>3, <3>1, <3>2
  <2> QED
    BY <2>1, <2>2
<1> QED
  BY <1>1, <1>4, <1>5 DEF Linked

LEMMA EnterLow ==
    ASSUME TypeInv, Numbered, LowExact, NEW w \in Node, Enters(w)
    PROVE  LowExact'
<1>1. /\ \A v, x : Leads(v, x)' = Leads(v, x)
      /\ \A v : Neighbors(v)' = Neighbors(v)
  BY PathsKept DEF Enters
<1>2. /\ Open \subseteq Node /\ Open \subseteq Visited /\ Open' = Open \cup {w} /\ next_index \in Nat
      /\ w \notin Visited
      /\ \A v \in Visited : /\ idx'[v] = idx[v] /\ low'[v] = low[v] /\ idx[v] \in Int /\ low[v] \in Int
                            /\ idx[v] < next_index /\ v # w
      /\ idx'[w] = next_index /\ low'[w] = next_index
  <2>1. \A v \in Visited : idx[v] \in 0..(next_index - 1) /\ next_index \in Nat /\ low[v] \in Int
    BY EnterViews DEF TypeInv, Visited
  <2> QED
    BY <2>1, EnterViews, OpenFacts
<1>3. /\ Depth' = Depth \cup {Len(work) + 1} /\ Len(work) \in Nat /\ Depth = 1..Len(work)
      /\ \A i \in Depth : At(i)' = At(i) /\ At(i) \in Open
      /\ \A i \in Depth' : i = Len(work) + 1 => At(i)' = w
      /\ Len(work') = Len(work) + 1
  <2>1. Len(work') = Len(work) + 1
    BY DEF Enters, Entered
  <2> QED
    BY <2>1, EnterViews
<1>4. ASSUME NEW i \in Depth'
      PROVE  low'[At(i)'] <= idx'[At(i)'] /\ \E v \in Open' : idx'[v] = low'[At(i)'] /\ Leads(At(i)', v)
  <2>1. CASE i = Len(work) + 1
    <3>1. At(i)' = w /\ Leads(w, w) /\ next_index <= next_index
      BY <1>2, <1>3, <2>1, LeadsFacts
    <3> QED
      BY <1>2, <3>1
  <2>2. CASE i \in Depth
    <3>1. /\ low[At(i)] <= idx[At(i)]
          /\ \E v \in Open : idx[v] = low[At(i)] /\ Leads(At(i), v)
      BY <2>2 DEF LowExact
    <3> QED
      BY <1>2, <1>3, <2>2, <3>1
  <2> QED
    BY <1>3, <2>1, <2>2
<1>5. ASSUME NEW i \in Depth', NEW v \in Segment(i)', NEW x \in Neighbors(v) \cap Open'
      PROVE  (v = At(i)' /\ x \in work'[i].rest) \/ low'[At(i)'] <= idx'[x]
  <2>1. v \in Open' /\ idx'[At(i)'] <= idx'[v] /\ (i < Len(work') => idx'[v] < idx'[At(i + 1)'])
    BY <1>5 DEF Segment, At
  <2>2. CASE i = Len(work) + 1
    <3>1. At(i)' = w /\ work'[i].rest = Neighbors(w)
      BY <1>3, <2>2 DEF Enters, Entered
    <3>2. v = w
      BY <1>2, <2>1, <3>1
    <3> QED
      BY <3>1, <3>2
  <2>3. CASE i \in Depth
    <3>1. v # w
      <4>1. i < Len(work')
        BY <1>3, <2>3
      <4>2. i = Len(work) => At(i + 1)' = w
        BY <1>3
      <4>3. i # Len(work) => i + 1 \in Depth
        BY <1>3, <2>3
      <4>4. i + 1 \in Depth => At(i + 1)' = At(i + 1) /\ At(i + 1) \in Open
        BY <1>3
      <4>5. idx'[At(i + 1)'] \in Int /\ idx'[At(i + 1)'] <= next_index
        BY <1>2, <4>2, <4>3, <4>4
      <4>6. idx'[v] < idx'[At(i + 1)']
        BY <2>1, <4>1
      <4> QED
        BY <1>2, <4>5, <4>6
    <3>2. v \in Open /\ idx'[v] = idx[v] /\ At(i)' = At(i) /\ At(i) \in Open
      BY <1>2, <1>3, <2>1, <2>3, <3>1
    <3>3. v \in Segment(i)
      <4>1. i < Len(work) => i + 1 \in Depth /\ At(i + 1)' = At(i + 1) /\ i < Len(work')
        BY <1>3, <2>3
      <4>2. i < Len(work) => idx'[At(i + 1)'] = idx[At(i + 1)]
        BY <1>2, <1>3, <4>1
      <4> QED
        BY <1>2, <2>1, <3>2, <4>1, <4>2 DEF Segment
    <3>4. low'[At(i)'] = low[At(i)] /\ low[At(i)] <= idx[At(i)]
      BY <1>2, <2>3, <3>2 DEF LowExact
    <3>5. CASE x = w
      BY <1>2, <3>2, <3>4, <3>5
    <3>6. CASE x \in Open
      <4>1. (v = At(i) /\ x \in work[i].rest) \/ low[At(i)] <= idx[x]
        BY <2>3, <3>3, <3>6 DEF LowExact
      <4>2. x # w /\ idx'[x] = idx[x]
        BY <1>2, <3>6
      <4>3. x \in work[i].rest => x \in work'[i].rest
        BY <2>3, <4>2 DEF Enters, Entered
      <4> QED
        BY <3>2, <3>4, <4>1, <4>2, <4>3
    <3> QED
      BY <1>2, <3>5, <3>6
  <2> QED
    BY <1>3, <2>2, <2>3
<1> QED
  BY <1>1, <1>4, <1>5 DEF LowExact

LEMMA EnterFlagged ==
    ASSUME TypeInv, Numbered, Flagged, NEW w \in Node, Enters(w)
    PROVE  Flagged'
<1>1. /\ \A v : Neighbors(v)' = Neighbors(v) /\ Cyclic(v)' = Cyclic(v)
      /\ in_cycle' = in_cycle /\ Closed' = Closed
  BY PathsKept, EnterViews DEF Enters
<1> QED
  BY <1>1 DEF Flagged

LEMMA EnterKeeps ==
    ASSUME TypeInv, CyclesInv, NEW w \in Node, Enters(w)
    PROVE  TypeInv' /\ CyclesInv'
<1>1. TypeInv'
  <2>1. (\A i \in Depth : work[i].rest \subseteq Neighbors(At(i)))'
    BY RestKept DEF Enters
  <2>2. /\ UNCHANGED <<edges, pass, in_cycle, level, expanding>> /\ work' \in Seq(Entries)
        /\ next_index' = next_index + 1 /\ scc_stack' = Append(scc_stack, w)
        /\ idx' = [idx EXCEPT ![w] = next_index] /\ low' = [low EXCEPT ![w] = next_index]
    BY DEF Enters
  <2>3. Entries' = Entries
    BY DEF Entries
  <2> QED
    BY <2>1, <2>2, <2>3 DEF TypeInv
<1> QED
  BY <1>1, EnterNumbered, EnterExplored, EnterLinked, EnterLow, EnterFlagged DEF CyclesInv

LEMMA PassViews ==
    ASSUME TypeInv, Numbered, NEW w \in Node, Passes(w)
    PROVE  /\ Len(work) \in Depth /\ Depth' = Depth /\ Depth = 1..Len(work) /\ Len(work') = Len(work)
           /\ \A i : i \in Depth => At(i)' = At(i) /\ At(i) \in Open
           /\ w \in Visited /\ Visited' = Visited /\ Open' = Open /\ Closed' = Closed
           /\ UNCHANGED <<idx, scc_stack, next_index>>
           /\ Open \subseteq Visited /\ \A v \in Visited : idx[v] \in Int /\ low[v] \in Int
<1>1. /\ work # <<>> /\ Len(work') = Len(work) /\ \A i \in Depth : work'[i].node = At(i)
      /\ idx[w] # Unset /\ UNCHANGED <<idx, scc_stack, next_index>>
  BY DEF Passes, Passed
<1>2. Len(work) \in Depth /\ Depth = 1..Len(work) /\ Depth' = Depth
  BY <1>1, StackFacts DEF Depth
<1>3. w \in Visited /\ Visited' = Visited /\ Open' = Open
  BY <1>1 DEF Visited, Open, Range
<1>4. Closed' = Closed
  BY <1>3 DEF Closed
<1>5. /\ Open \subseteq Visited /\ \A i \in Depth : At(i) \in Open
      /\ \A v \in Visited : idx[v] \in Int /\ low[v] \in Int
  BY DEF Numbered, TypeInv, Visited
<1>6. \A i \in Depth : At(i)' = At(i)
  BY <1>1 DEF At
<1> QED
  BY <1>1, <1>2, <1>3, <1>4, <1>5, <1>6

LEMMA PassNumbered ==
    ASSUME TypeInv, Numbered, NEW w \in Node, Passes(w)
    PROVE  Numbered'
<1>1. /\ Depth' = Depth /\ \A i \in Depth : At(i)' = At(i)
      /\ Visited' = Visited /\ Open' = Open /\ UNCHANGED <<idx, scc_stack, next_index>>
  BY PassViews
<1> QED
  BY <1>1 DEF Numbered

LEMMA PassExplored ==
    ASSUME TypeInv, Numbered, Explored, NEW w \in Node, Passes(w)
    PROVE  Explored'
<1>1. \A v : Neighbors(v)' = Neighbors(v)
  BY PathsKept DEF Passes
<1>2. /\ Depth' = Depth /\ \A i \in Depth : At(i)' = At(i)
      /\ w \in Visited /\ Visited' = Visited /\ Closed' = Closed
  BY PassViews
<1>3. \A i \in Depth : work'[i].rest = IF i = Len(work) THEN work[i].rest \ {w} ELSE work[i].rest
  BY DEF Passes, Passed
<1>4. ASSUME NEW v \in Visited, NEW x \in Neighbors(v)
      PROVE  x \in Visited \/ \E i \in Depth : v = At(i) /\ x \in work'[i].rest
  BY <1>2, <1>3 DEF Explored
<1> QED
  BY <1>1, <1>2, <1>4 DEF Explored

LEMMA PassLinked ==
    ASSUME TypeInv, Numbered, Linked, NEW w \in Node, Passes(w)
    PROVE  Linked'
<1>1. \A v, x : Leads(v, x)' = Leads(v, x)
  BY PathsKept DEF Passes
<1>2. /\ Depth' = Depth /\ \A i \in Depth : At(i)' = At(i)
      /\ Open' = Open /\ UNCHANGED idx
  BY PassViews
<1> QED
  BY <1>1, <1>2 DEF Linked

LEMMA PassLow ==
    ASSUME TypeInv, Numbered, LowExact, NEW w \in Node, Passes(w)
    PROVE  LowExact'
<1> DEFINE p == At(Len(work))
<1>1. /\ \A v, x : Leads(v, x)' = Leads(v, x)
      /\ \A v : Neighbors(v)' = Neighbors(v)
  BY PathsKept DEF Passes
<1>2. /\ Depth' = Depth /\ \A i \in Depth : At(i)' = At(i) /\ At(i) \in Open
      /\ Len(work) \in Depth /\ Depth = 1..Len(work) /\ Len(work) \in Nat /\ Len(work') = Len(work)
      /\ Open' = Open /\ UNCHANGED idx /\ p \in Open
      /\ \A v \in Open : idx[v] \in Int /\ low[v] \in Int /\ v \in Node
  BY PassViews, OpenFacts, StackFacts
<1>3. \A i \in Depth : work'[i].rest = IF i = Len(work) THEN work[i].rest \ {w} ELSE work[i].rest
  BY DEF Passes, Passed
<1>4. /\ \A v \in Open : v # p => low'[v] = low[v]
      /\ low'[p] = IF w \in Open /\ idx[w] < low[p] THEN idx[w] ELSE low[p]
  <2>1. low \in [Node -> Int] /\ low' = IF w \in Open THEN [low EXCEPT ![p] = Min({low[p], idx[w]})] ELSE low
    BY OpenFacts DEF Passes, TypeInv
  <2>2. w \in Open => Min({low[p], idx[w]}) = IF low[p] <= idx[w] THEN low[p] ELSE idx[w]
    BY <1>2, MinOfTwo
  <2> HIDE DEF p
  <2>3. p \in Node /\ \A v \in Open : v \in Node
    BY <1>2
  <2>4. CASE w \in Open
    <3> DEFINE low_w == Min({low[p], idx[w]})
    <3>1. low' = [low EXCEPT ![p] = low_w]
      BY <2>1, <2>4
    <3>2. low_w = IF idx[w] < low[p] THEN idx[w] ELSE low[p]
      BY <1>2, <2>2, <2>4
    <3> HIDE DEF low_w
    <3> QED
      BY <2>1, <2>3, <2>4, <3>1, <3>2
  <2>5. CASE w \notin Open
    BY <2>1, <2>5
  <2> QED
    BY <2>4, <2>5
<1>5. w \in Neighbors(p) /\ Leads(p, w)
  BY <1>2, LeadsFacts DEF Passes
<1>6. \A i \in Depth : low'[At(i)] <= low[At(i)] /\ low'[At(i)] \in Int
  BY <1>2, <1>4
<1>7. ASSUME NEW i \in Depth
      PROVE  low'[At(i)] <= idx[At(i)] /\ \E v \in Open : idx[v] = low'[At(i)] /\ Leads(At(i), v)
  <2>1. low[At(i)] <= idx[At(i)] /\ \E v \in Open : idx[v] = low[At(i)] /\ Leads(At(i), v)
    BY DEF LowExact
  <2>2. low'[At(i)] = low[At(i)] \/ (At(i) = p /\ w \in Open /\ low'[At(i)] = idx[w])
    BY <1>2, <1>4
  <2>3. low'[At(i)] <= idx[At(i)]
    BY <1>2, <1>6, <2>1
  <2> HIDE DEF p
  <2> QED
    BY <1>5, <2>1, <2>2, <2>3
<1>8. ASSUME NEW i \in Depth PROVE Segment(i)' = Segment(i)
  <2>1. i < Len(work) => i + 1 \in Depth
    BY <1>2
  <2>2. i < Len(work) => At(i + 1)' = At(i + 1)
    BY <1>2, <2>1
  <2> QED
    BY <1>2, <2>2 DEF Segment
<1>9. ASSUME NEW i \in Depth, NEW v \in Segment(i), NEW x \in Neighbors(v) \cap Open
      PROVE  (v = At(i) /\ x \in work'[i].rest) \/ low'[At(i)] <= idx[x]
  <2>1. (v = At(i) /\ x \in work[i].rest) \/ low[At(i)] <= idx[x]
    BY DEF LowExact
  <2>2. CASE low[At(i)] <= idx[x]
    <3>1. low[At(i)] \in Int /\ low'[At(i)] \in Int /\ idx[x] \in Int /\ low'[At(i)] <= low[At(i)]
      BY <1>2, <1>6
    <3> QED
      BY <2>2, <3>1
  <2>3. CASE v = At(i) /\ x \in work[i].rest /\ x \notin work'[i].rest
    <3>1. i = Len(work) /\ x = w
      BY <1>3, <2>3
    <3>2. low'[p] <= idx[w]
      BY <1>2, <1>4, <3>1
    <3> QED
      BY <3>1, <3>2
  <2> QED
    BY <2>1, <2>2, <2>3
<1> HIDE DEF p
<1> QED
  BY <1>1, <1>2, <1>7, <1>8, <1>9 DEF LowExact

LEMMA PassKeeps ==
    ASSUME TypeInv, CyclesInv, NEW w \in Node, Passes(w)
    PROVE  TypeInv' /\ CyclesInv'
<1>1. Numbered /\ Explored /\ Linked /\ LowExact /\ Flagged
  BY DEF CyclesInv
<1>2. TypeInv'
  <2>1. (\A i \in Depth : work[i].rest \subseteq Neighbors(At(i)))'
    BY RestKept DEF Passes
  <2>2. low' \in [Node -> Int]
    <3>1. low \in [Node -> Int] /\ At(Len(work)) \in Node /\ idx[w] \in Int /\ low[At(Len(work))] \in Int
      BY <1>1, PassViews, OpenFacts DEF TypeInv
    <3>2. Min({low[At(Len(work))], idx[w]}) \in Int
      BY <3>1, MinOfTwo
    <3> QED
      BY <3>1, <3>2 DEF Passes
  <2>3. /\ UNCHANGED <<edges, pass, in_cycle, level, expanding, idx, next_index, scc_stack>>
        /\ work' \in Seq(Entries) /\ Entries' = Entries
    BY DEF Passes, Entries
  <2> QED
    BY <2>1, <2>2, <2>3 DEF TypeInv
<1>3. Flagged'
  <2>1. /\ \A v : Neighbors(v)' = Neighbors(v) /\ Cyclic(v)' = Cyclic(v)
        /\ in_cycle' = in_cycle /\ Closed' = Closed
    BY <1>1, PathsKept, PassViews DEF Passes
  <2> QED
    BY <1>1, <2>1 DEF Flagged
<1> QED
  BY <1>1, <1>2, <1>3, PassNumbered, PassExplored, PassLinked, PassLow DEF CyclesInv

LEMMA LeaveViews ==
    ASSUME TypeInv, Numbered, NEW v, Leaves(v)
    PROVE  /\ Len(work) \in Nat /\ Len(work) \in Depth /\ Depth = 1..Len(work)
           /\ Depth' = 1..(Len(work) - 1) /\ Len(work') = Len(work) - 1
           /\ \A i \in Depth : i \in Depth' \/ i = Len(work)
           /\ \A i \in Depth' : i \in Depth /\ i < Len(work) /\ At(i)' = At(i) /\ work'[i] = work[i]
           /\ \A i \in Depth : At(i) \in Open
           /\ \A i \in Depth' : idx[At(i)] < idx[v]
           /\ v = At(Len(work)) /\ v \in Open /\ v \in Node /\ work[Len(work)].rest = {}
           /\ Visited' = Visited /\ Open \subseteq Visited /\ Open \subseteq Node
           /\ UNCHANGED <<idx, next_index>>
           /\ \A u \in Visited : idx[u] \in Int /\ low[u] \in Int
<1>1. /\ work # <<>> /\ work[Len(work)].rest = {} /\ Len(work') = Len(work) - 1
      /\ \A i \in 1..(Len(work) - 1) : work'[i] = work[i]
      /\ v = At(Len(work)) /\ UNCHANGED <<idx, next_index>>
  BY DEF Leaves, Left
<1>2. Len(work) \in Nat /\ Len(work) \in Depth /\ Depth = 1..Len(work)
  BY <1>1, StackFacts DEF Depth
<1>3. Depth' = 1..(Len(work) - 1)
  BY <1>1 DEF Depth
<1>4. /\ \A i \in Depth : i \in Depth' \/ i = Len(work)
      /\ \A i \in Depth' : i \in Depth /\ i < Len(work)
  BY <1>2, <1>3
<1>5. \A i \in Depth' : At(i)' = At(i) /\ work'[i] = work[i]
  BY <1>1, <1>3 DEF At
<1>6. /\ \A i \in Depth : At(i) \in Open
      /\ \A i \in Depth' : idx[At(i)] < idx[v]
      /\ Open \subseteq Visited
  BY <1>1, <1>2, <1>4 DEF Numbered
<1>7. /\ Visited' = Visited /\ \A u \in Visited : idx[u] \in Int /\ low[u] \in Int
  BY <1>1 DEF Visited, TypeInv
<1>8. Open \subseteq Node
  BY OpenFacts
<1> QED
  BY <1>1, <1>2, <1>3, <1>4, <1>5, <1>6, <1>7, <1>8

\* The low number of the node below is lowered.
LEMMA LeaveLowers ==
    ASSUME TypeInv, Numbered, NEW v, Leaves(v)
    PROVE  \A i \in Depth' :
              low'[At(i)] = IF i = Len(work) - 1 /\ low[v] < low[At(i)] THEN low[v] ELSE low[At(i)]
<1> DEFINE p == At(Len(work) - 1)
           least == Min({low[p], low[v]})
<1> SUFFICES ASSUME NEW i \in Depth'
             PROVE  low'[At(i)] = IF i = Len(work) - 1 /\ low[v] < low[At(i)] THEN low[v] ELSE low[At(i)]
  OBVIOUS
<1>1. /\ Len(work) \in Nat /\ Depth' = 1..(Len(work) - 1) /\ v \in Visited
      /\ \A j \in Depth' : At(j) \in Node /\ At(j) \in Visited /\ j \in Depth
      /\ \A u \in Visited : low[u] \in Int /\ idx[u] \in Int
  BY LeaveViews
<1>2. low \in [Node -> Int]
  BY DEF TypeInv
<1>3. Len(work) # 1 /\ Len(work) - 1 \in Depth'
  <2>1. \A n \in Nat : \A k \in 1..(n - 1) : n # 1 /\ n - 1 \in 1..(n - 1)
    OBVIOUS
  <2> QED
    BY <1>1, <2>1
<1>4. low' = [low EXCEPT ![p] = least]
  BY <1>3 DEF Leaves
<1>5. p \in Visited /\ p \in Node
  BY <1>1, <1>3
<1> HIDE DEF p
<1>6. least = IF low[v] < low[p] THEN low[v] ELSE low[p]
  BY <1>1, <1>5, MinOfTwo
<1> HIDE DEF least
<1>7. CASE i = Len(work) - 1
  BY <1>2, <1>4, <1>5, <1>6, <1>7 DEF p
<1>8. CASE i # Len(work) - 1
  <2>1. i < Len(work) - 1
    BY <1>1, <1>8
  <2>2. idx[At(i)] < idx[p]
    BY <1>1, <1>3, <2>1 DEF Numbered, p
  <2>3. At(i) # p
    BY <1>1, <1>5, <2>2
  <2> QED
    BY <1>1, <1>2, <1>4, <1>8, <2>3
<1> QED
  BY <1>7, <1>8

\* What a step leaves that takes a node off without closing a component.
LEMMA StayKeeps ==
    ASSUME TypeInv, CyclesInv, NEW v, Leaves(v), ~Root
    PROVE  Numbered' /\ Explored' /\ Linked' /\ LowExact' /\ Flagged'
<1>0. Numbered /\ Explored /\ Linked /\ LowExact /\ Flagged
  BY DEF CyclesInv
<1>1. /\ Len(work) \in Nat /\ Len(work) \in Depth /\ Depth = 1..Len(work)
      /\ Depth' = 1..(Len(work) - 1) /\ Len(work') = Len(work) - 1
      /\ \A i \in Depth : i \in Depth' \/ i = Len(work)
      /\ \A i \in Depth' : i \in Depth /\ i < Len(work) /\ At(i)' = At(i) /\ work'[i] = work[i]
      /\ \A i \in Depth : At(i) \in Open
      /\ \A i \in Depth' : idx[At(i)] < idx[v]
      /\ v = At(Len(work)) /\ v \in Open /\ v \in Node /\ work[Len(work)].rest = {}
      /\ Visited' = Visited /\ Open \subseteq Visited /\ Open \subseteq Node
      /\ UNCHANGED <<idx, next_index>>
  BY <1>0, LeaveViews
<1>2. \A u \in Visited : idx[u] \in Int /\ low[u] \in Int
  BY <1>0, LeaveViews
<1>3. UNCHANGED <<scc_stack, in_cycle>> /\ low[v] # idx[v]
  BY <1>1 DEF Leaves, Root
<1>4. Open' = Open /\ Closed' = Closed
  BY <1>1, <1>3 DEF Open, Closed, Range
<1>5. /\ \A u, x : Leads(u, x)' = Leads(u, x)
      /\ \A u : Neighbors(u)' = Neighbors(u) /\ Cyclic(u)' = Cyclic(u)
  BY PathsKept DEF Leaves
<1>6. PICK y \in Open : idx[y] = low[v] /\ Leads(v, y) /\ idx[y] < idx[v]
  <2>1. low[v] <= idx[v] /\ \E y \in Open : idx[y] = low[v] /\ Leads(v, y)
    BY <1>0, <1>1 DEF LowExact
  <2>2. low[v] < idx[v]
    BY <1>1, <1>2, <1>3, <2>1
  <2> QED
    BY <2>1, <2>2
<1>7. PICK j \in Depth' : idx[At(j)] <= idx[y] /\ Leads(y, At(j))
  <2>1. PICK j \in Depth : idx[At(j)] <= idx[y] /\ Leads(y, At(j))
    BY <1>0 DEF Linked
  <2>2. j # Len(work)
    BY <1>1, <1>2, <1>6, <2>1
  <2> QED
    BY <1>1, <2>1, <2>2
<1>8. Numbered'
  BY <1>0, <1>1, <1>3, <1>4 DEF Numbered
<1>9. Explored'
  <2>1. ASSUME NEW u \in Visited, NEW x \in Neighbors(u), x \notin Visited
        PROVE  \E i \in Depth' : u = At(i)' /\ x \in work'[i].rest
    <3>1. PICK i \in Depth : u = At(i) /\ x \in work[i].rest
      BY <1>0, <2>1 DEF Explored
    <3> QED
      BY <1>1, <3>1
  <2>2. \A u \in Closed' : Neighbors(u)' \subseteq Closed'
    BY <1>0, <1>4, <1>5 DEF Explored
  <2>3. Visited' = Visited /\ \A u : Neighbors(u)' = Neighbors(u)
    BY <1>1, <1>5
  <2> QED
    BY <2>1, <2>2, <2>3 DEF Explored
<1>10. Linked'
  <2>1. \A i \in Depth' : \A u \in Open : idx[At(i)] <= idx[u] => Leads(At(i), u)
    BY <1>0, <1>1 DEF Linked
  <2>2. ASSUME NEW u \in Open PROVE \E i \in Depth' : idx[At(i)] <= idx[u] /\ Leads(u, At(i))
    <3>1. PICK i \in Depth : idx[At(i)] <= idx[u] /\ Leads(u, At(i))
      BY <1>0 DEF Linked
    <3>2. CASE i = Len(work)
      <4>1. Leads(u, y) /\ Leads(u, At(j))
        BY <1>1, <1>6, <1>7, <3>1, <3>2, LeadsFacts
      <4>2. idx[At(j)] \in Int /\ idx[y] \in Int /\ idx[v] \in Int /\ idx[u] \in Int
        BY <1>1, <1>2
      <4>3. idx[At(j)] <= idx[u]
        BY <1>1, <1>6, <1>7, <3>1, <3>2, <4>2
      <4> QED
        BY <4>1, <4>3
    <3> QED
      BY <1>1, <3>1, <3>2
  <2>3. Open' = Open /\ idx' = idx /\ \A i \in Depth' : At(i)' = At(i)
    BY <1>1, <1>4
  <2> QED
    BY <1>5, <2>1, <2>2, <2>3 DEF Linked
<1>11. \A i \in Depth' :
          low'[At(i)] = IF i = Len(work) - 1 /\ low[v] < low[At(i)] THEN low[v] ELSE low[At(i)]
  BY <1>0, LeaveLowers
<1>12. \A i \in Depth : low[At(i)] \in Int
  BY <1>1, <1>2
<1>13. \A i \in Depth' : low'[At(i)] \in Int /\ low'[At(i)] <= low[At(i)]
  <2>1. low[v] \in Int /\ \A i \in Depth' : low[At(i)] \in Int
    BY <1>1, <1>12
  <2> QED
    BY <1>11, <2>1
<1>14. LowExact'
  <2>1. ASSUME NEW i \in Depth'
        PROVE  low'[At(i)] <= idx[At(i)] /\ \E u \in Open : idx[u] = low'[At(i)] /\ Leads(At(i), u)
    <3>1. low[At(i)] <= idx[At(i)] /\ \E u \in Open : idx[u] = low[At(i)] /\ Leads(At(i), u)
      BY <1>0, <1>1 DEF LowExact
    <3>2. low'[At(i)] <= idx[At(i)]
      BY <1>1, <1>2, <1>12, <1>13, <3>1
    <3>3. idx[At(i)] <= idx[v]
      BY <1>1, <1>2
    <3>4. Leads(At(i), v)
      BY <1>0, <1>1, <3>3 DEF Linked
    <3>5. Leads(At(i), y)
      BY <1>1, <1>6, <3>4, LeadsFacts
    <3>6. low'[At(i)] = low[At(i)] \/ low'[At(i)] = low[v]
      BY <1>11
    <3> QED
      BY <1>6, <3>1, <3>2, <3>5, <3>6
  <2>2. ASSUME NEW i \in Depth', NEW u \in Segment(i)', NEW x \in Neighbors(u) \cap Open
        PROVE  (u = At(i) /\ x \in work[i].rest) \/ low'[At(i)] <= idx[x]
    <3>1. u \in Open /\ idx[At(i)] <= idx[u] /\ (i < Len(work) - 1 => idx[u] < idx[At(i + 1)])
      <4>1. i < Len(work) - 1 => i + 1 \in Depth'
        BY <1>1
      <4>2. i < Len(work) - 1 => At(i + 1)' = At(i + 1)
        BY <1>1, <4>1
      <4> QED
        BY <1>1, <1>4, <2>2, <4>2 DEF Segment
    <3>2. idx[x] \in Int /\ low[v] \in Int
      BY <1>1, <1>2
    <3>3. CASE u \in Segment(i)
      <4>1. (u = At(i) /\ x \in work[i].rest) \/ low[At(i)] <= idx[x]
        BY <1>0, <1>1, <3>3 DEF LowExact
      <4> QED
        BY <1>1, <1>12, <1>13, <3>2, <4>1
    <3>4. CASE u \notin Segment(i)
      <4>1. i = Len(work) - 1
        BY <1>1, <3>1, <3>4 DEF Segment
      <4>2. At(i + 1) = v
        BY <1>1, <4>1
      <4>3. ~(idx[u] < idx[v])
        BY <3>1, <3>4, <4>2 DEF Segment
      <4>4. idx[v] <= idx[u]
        BY <1>1, <1>2, <3>1, <4>3
      <4>5. u \in Segment(Len(work))
        BY <1>1, <3>1, <4>4 DEF Segment
      <4>6. low[v] <= idx[x]
        BY <1>0, <1>1, <4>5 DEF LowExact
      <4>7. low'[At(i)] <= low[v]
        BY <1>1, <1>11, <1>12, <3>2, <4>1
      <4> QED
        BY <1>13, <3>2, <4>6, <4>7
    <3> QED
      BY <3>3, <3>4
  <2>3. /\ Open' = Open /\ idx' = idx
        /\ \A i \in Depth' : At(i)' = At(i) /\ work'[i] = work[i]
    BY <1>1, <1>4
  <2> QED
    BY <1>5, <2>1, <2>2, <2>3 DEF LowExact
<1>15. Flagged'
  BY <1>0, <1>3, <1>4, <1>5 DEF Flagged
<1> QED
  BY <1>8, <1>9, <1>10, <1>14, <1>15

LEMMA LargerThanOne ==
    ASSUME NEW S, IsFiniteSet(S), NEW x \in S
    PROVE  Cardinality(S) > 1 <=> \E y \in S : y # x
<1>1. Cardinality(S) \in Nat
  BY FS_CardinalityType
<1>2. Cardinality(S) # 0
  BY FS_EmptySet
<1>3. Cardinality(S) = 1 <=> \E y : S = {y}
  BY FS_Singleton
<1>4. (\E y : S = {y}) <=> ~\E y \in S : y # x
  OBVIOUS
<1> QED
  BY <1>1, <1>2, <1>3, <1>4

\* The component that is closed leads nowhere open, and is decided as a whole.
LEMMA ComponentDecided ==
    ASSUME TypeInv, CyclesInv, NEW v, Leaves(v), Root
    PROVE  /\ Component(v) = {u \in Open : idx[v] <= idx[u]}
           /\ Open' = {u \in Open : idx[u] < idx[v]}
           /\ Closed' = Closed \cup Component(v)
           /\ \A u \in Closed' : Neighbors(u) \subseteq Closed'
<1> DEFINE n == Len(work)
           C == Component(v)
<1>1. Numbered /\ Explored /\ Linked /\ LowExact
  BY DEF CyclesInv
<1>2. /\ n \in Depth /\ v = At(n) /\ v \in Open /\ work[n].rest = {}
      /\ Depth = 1..n /\ n \in Nat
      /\ \A i \in Depth : i \in Depth' \/ i = n
      /\ \A i \in Depth' : i \in Depth /\ idx[At(i)] < idx[v]
      /\ Visited' = Visited /\ Open \subseteq Visited
      /\ \A u \in Visited : idx[u] \in Int /\ low[u] \in Int
  BY <1>1, LeaveViews
<1>3. low[v] = idx[v]
  BY <1>2 DEF Root
<1>4. /\ C = {u \in Open : idx[v] <= idx[u]}
      /\ Range(SubSeq(scc_stack, 1, Position(v) - 1)) = {u \in Open : idx[u] < idx[v]}
  BY <1>1, <1>2, ComponentFacts
<1> HIDE DEF n, C
<1>5. Open' = {u \in Open : idx[u] < idx[v]}
  <2>1. scc_stack' = SubSeq(scc_stack, 1, Position(v) - 1)
    BY DEF Leaves
  <2>2. Open' = Range(scc_stack')
    BY DEF Open, Range
  <2>3. Range(scc_stack') = Range(SubSeq(scc_stack, 1, Position(v) - 1))
    BY <2>1
  <2> QED
    BY <1>4, <2>2, <2>3
<1>6. \A u \in Open : idx[v] <= idx[u] <=> ~(idx[u] < idx[v])
  BY <1>2
<1>7. Closed' = Closed \cup C
  <2>1. Open' = Open \ C /\ C \subseteq Open
    BY <1>4, <1>5, <1>6
  <2> QED
    BY <1>2, <2>1 DEF Closed
<1>8. ASSUME NEW u \in C, NEW x \in Neighbors(u) PROVE x \in Closed \cup C
  <2>1. u \in Open /\ u \in Visited /\ idx[v] <= idx[u]
    BY <1>2, <1>4
  <2>2. u \in Segment(n)
    BY <1>2, <2>1 DEF Segment, n
  <2>3. x \in Visited
    <3> SUFFICES ASSUME x \notin Visited PROVE FALSE
      OBVIOUS
    <3>1. PICK i \in Depth : u = At(i) /\ x \in work[i].rest
      BY <1>1, <2>1 DEF Explored
    <3>2. i \in Depth'
      BY <1>2, <3>1
    <3>3. idx[u] < idx[v]
      BY <1>2, <3>1, <3>2
    <3> QED
      BY <1>2, <2>1, <3>3
  <2>4. CASE x \in Open
    <3>1. low[v] <= idx[x]
      BY <1>1, <1>2, <2>2, <2>4 DEF LowExact
    <3> QED
      BY <1>3, <1>4, <2>4, <3>1
  <2> QED
    BY <2>3, <2>4 DEF Closed
<1>9. \A u \in Closed : Neighbors(u) \subseteq Closed
  BY <1>1 DEF Explored
<1>10. \A u \in Closed' : Neighbors(u) \subseteq Closed'
  BY <1>7, <1>8, <1>9
<1> QED
  BY <1>4, <1>5, <1>7, <1>10 DEF C

\* All of its nodes lead to one another.
LEMMA ComponentLinked ==
    ASSUME TypeInv, CyclesInv, NEW v, Leaves(v), Root,
           NEW u \in Component(v), NEW x \in Component(v)
    PROVE  Leads(u, x)
<1>1. Numbered /\ Linked
  BY DEF CyclesInv
<1>2. /\ Len(work) \in Depth /\ v = At(Len(work)) /\ v \in Open /\ Open \subseteq Visited /\ Open \subseteq Node
      /\ \A i \in Depth : i \in Depth' \/ i = Len(work)
      /\ \A i \in Depth' : idx[At(i)] < idx[v]
      /\ \A i \in Depth : At(i) \in Open
      /\ \A w \in Visited : idx[w] \in Int
  BY <1>1, LeaveViews
<1>3. u \in Open /\ x \in Open /\ idx[v] <= idx[u] /\ idx[v] <= idx[x]
  BY ComponentDecided
<1>4. PICK i \in Depth : idx[At(i)] <= idx[u] /\ Leads(u, At(i))
  BY <1>1, <1>3 DEF Linked
<1>5. idx[At(i)] <= idx[v]
  BY <1>2
<1>6. Leads(At(i), v) /\ Leads(v, x)
  BY <1>1, <1>2, <1>3, <1>5 DEF Linked
<1> QED
  BY <1>2, <1>3, <1>4, <1>6, LeadsFacts

LEMMA CloseFlags ==
    ASSUME TypeInv, CyclesInv, NEW v, Leaves(v), Root
    PROVE  Flagged'
<1> DEFINE C == Component(v)
<1>1. /\ \A u : Neighbors(u)' = Neighbors(u) /\ Cyclic(u)' = Cyclic(u)
      /\ in_cycle' = IF Cardinality(C) > 1 THEN in_cycle \cup C ELSE in_cycle
  BY PathsKept DEF Leaves
<1>2. Flagged /\ Numbered /\ Explored
  BY DEF CyclesInv
<1>3. /\ C \subseteq Open /\ C \subseteq Node /\ IsFiniteSet(C) /\ Closed' = Closed \cup C
      /\ \A u \in Closed' : Neighbors(u) \subseteq Closed'
      /\ Closed \subseteq Closed' /\ Closed' \subseteq Node /\ Closed \cap Open = {}
  <2>1. C \subseteq Open /\ Closed' = Closed \cup C /\ \A u \in Closed' : Neighbors(u) \subseteq Closed'
    BY ComponentDecided
  <2>2. Open \subseteq Node /\ Closed \subseteq Node /\ Closed \cap Open = {}
    BY OpenFacts DEF Closed, Visited
  <2>3. IsFiniteSet(C)
    BY <2>1, <2>2, EdgeSetsAssumption, FS_Subset
  <2> QED
    BY <2>1, <2>2, <2>3
<1>4. \A u, x \in C : Leads(u, x)
  BY ComponentLinked
<1> HIDE DEF C
<1>5. ASSUME NEW u \in in_cycle' PROVE Cyclic(u)
  <2>1. CASE u \in in_cycle
    BY <1>2, <2>1 DEF Flagged
  <2>2. CASE u \in C /\ Cardinality(C) > 1
    <3>1. PICK x \in C : x # u
      BY <1>3, <2>2, LargerThanOne
    <3> QED
      BY <1>3, <1>4, <2>2, <3>1, MutualCyclic
  <2> QED
    BY <1>1, <1>5, <2>1, <2>2
<1>6. ASSUME NEW u \in Closed', Cyclic(u) PROVE u \in in_cycle'
  <2>1. CASE u \in Closed \/ u \in Neighbors(u)
    <3>1. u \in in_cycle
      BY <1>2, <1>3, <1>6, <2>1 DEF Flagged
    <3> QED
      BY <1>1, <3>1
  <2>2. CASE u \in C /\ u \notin Neighbors(u)
    <3>1. PICK x \in Node : x # u /\ Leads(u, x) /\ Leads(x, u)
      BY <1>3, <1>6, <2>2, CyclicOther
    <3>2. x \in Closed'
      BY <1>3, <3>1, LeadsWithin
    <3>3. x \notin Closed
      <4> SUFFICES ASSUME x \in Closed PROVE FALSE
        OBVIOUS
      <4>1. Closed \in SUBSET Node /\ \A z \in Closed : Neighbors(z) \subseteq Closed
        BY <1>2, <1>3 DEF Explored
      <4>2. u \in Closed
        BY <3>1, <4>1, LeadsWithin
      <4> QED
        BY <1>3, <2>2, <4>2
    <3>4. x \in C
      BY <1>3, <3>2, <3>3
    <3>5. Cardinality(C) > 1
      BY <1>3, <2>2, <3>1, <3>4, LargerThanOne
    <3> QED
      BY <1>1, <2>2, <3>5
  <2> QED
    BY <1>3, <2>1, <2>2
<1>7. \A u \in Node : u \in Neighbors(u) => u \in in_cycle'
  BY <1>1, <1>2 DEF Flagged
<1> QED
  BY <1>1, <1>5, <1>6, <1>7 DEF Flagged

LEMMA CloseKeeps ==
    ASSUME TypeInv, CyclesInv, NEW v, Leaves(v), Root
    PROVE  Numbered' /\ Explored' /\ Linked' /\ LowExact' /\ Flagged'
<1>0. Numbered /\ Explored /\ Linked /\ LowExact
  BY DEF CyclesInv
<1>1. /\ Len(work) \in Nat /\ Len(work) \in Depth /\ Depth = 1..Len(work)
      /\ Depth' = 1..(Len(work) - 1) /\ Len(work') = Len(work) - 1
      /\ \A i \in Depth : i \in Depth' \/ i = Len(work)
      /\ \A i \in Depth' : i \in Depth /\ i < Len(work) /\ At(i)' = At(i) /\ work'[i] = work[i]
      /\ \A i \in Depth : At(i) \in Open
      /\ \A i \in Depth' : idx[At(i)] < idx[v]
      /\ v = At(Len(work)) /\ v \in Open /\ v \in Node /\ work[Len(work)].rest = {}
      /\ Visited' = Visited /\ Open \subseteq Visited
      /\ UNCHANGED <<idx, next_index>>
      /\ \A u \in Visited : idx[u] \in Int /\ low[u] \in Int
  BY <1>0, LeaveViews
<1>2. low[v] = idx[v] /\ idx[v] \in Int
  BY <1>1 DEF Root
<1>3. /\ \A u, x : Leads(u, x)' = Leads(u, x)
      /\ \A u : Neighbors(u)' = Neighbors(u)
  BY PathsKept DEF Leaves
<1>4. Open' = {u \in Open : idx[u] < idx[v]} /\ \A u \in Closed' : Neighbors(u) \subseteq Closed'
  BY ComponentDecided
<1>5. \A i \in Depth' : At(i) \in Open'
  BY <1>1, <1>4
<1>6. Numbered'
  <2>1. (\A i, j \in DOMAIN scc_stack : i < j => idx[scc_stack[i]] < idx[scc_stack[j]])'
    <3> DEFINE t == SubSeq(scc_stack, 1, Position(v) - 1)
    <3>1. \A i, j \in DOMAIN t : i < j => idx[t[i]] < idx[t[j]]
      BY <1>0, <1>1, ComponentFacts
    <3>2. scc_stack' = t
      BY DEF Leaves
    <3> HIDE DEF t
    <3> QED
      BY <1>1, <3>1, <3>2
  <2>2. Open' \subseteq Visited
    BY <1>1, <1>4
  <2>3. /\ \A u \in Visited : idx[u] \in 0..(next_index - 1)
        /\ \A u, x \in Visited : idx[u] = idx[x] => u = x
        /\ \A i, j \in Depth' : i < j => idx[At(i)] < idx[At(j)]
    BY <1>0, <1>1 DEF Numbered
  <2>4. Visited' = Visited /\ idx' = idx /\ next_index' = next_index /\ \A i \in Depth' : At(i)' = At(i)
    BY <1>1
  <2> QED
    BY <1>5, <2>1, <2>2, <2>3, <2>4 DEF Numbered
<1>7. Explored'
  <2>1. ASSUME NEW u \in Visited, NEW x \in Neighbors(u), x \notin Visited
        PROVE  \E i \in Depth' : u = At(i)' /\ x \in work'[i].rest
    <3>1. PICK i \in Depth : u = At(i) /\ x \in work[i].rest
      BY <1>0, <2>1 DEF Explored
    <3> QED
      BY <1>1, <3>1
  <2>2. Visited' = Visited
    BY <1>1
  <2> QED
    BY <1>3, <1>4, <2>1, <2>2 DEF Explored
<1>8. Linked'
  <2>1. \A i \in Depth' : \A u \in Open' : idx[At(i)] <= idx[u] => Leads(At(i), u)
    BY <1>0, <1>1, <1>4 DEF Linked
  <2>2. ASSUME NEW u \in Open' PROVE \E i \in Depth' : idx[At(i)] <= idx[u] /\ Leads(u, At(i))
    <3>1. u \in Open /\ idx[u] < idx[v] /\ idx[u] \in Int
      BY <1>1, <1>4
    <3>2. PICK i \in Depth : idx[At(i)] <= idx[u] /\ Leads(u, At(i))
      BY <1>0, <3>1 DEF Linked
    <3>3. i # Len(work)
      BY <1>1, <1>2, <3>1, <3>2
    <3> QED
      BY <1>1, <3>2, <3>3
  <2>3. idx' = idx /\ \A i \in Depth' : At(i)' = At(i)
    BY <1>1
  <2> QED
    BY <1>3, <2>1, <2>2, <2>3 DEF Linked
<1>9. \A i \in Depth' : low[At(i)] <= idx[At(i)] /\ low[At(i)] \in Int /\ idx[At(i)] \in Int
  BY <1>0, <1>1 DEF LowExact
<1>10. \A i \in Depth' : low'[At(i)] = low[At(i)]
  <2>1. ASSUME NEW i \in Depth' PROVE ~(low[v] < low[At(i)])
    <3>1. idx[At(i)] < idx[v]
      BY <1>1
    <3> QED
      BY <1>2, <1>9, <3>1
  <2> QED
    BY <1>0, <2>1, LeaveLowers
<1>11. LowExact'
  <2>1. ASSUME NEW i \in Depth'
        PROVE  low'[At(i)] <= idx[At(i)] /\ \E u \in Open' : idx[u] = low'[At(i)] /\ Leads(At(i), u)
    <3>1. PICK u \in Open : idx[u] = low[At(i)] /\ Leads(At(i), u)
      BY <1>0, <1>1 DEF LowExact
    <3>2. idx[u] < idx[v]
      BY <1>1, <1>2, <1>9, <3>1
    <3> QED
      BY <1>4, <1>9, <1>10, <3>1, <3>2
  <2>2. ASSUME NEW i \in Depth', NEW u \in Segment(i)', NEW x \in Neighbors(u) \cap Open'
        PROVE  (u = At(i) /\ x \in work[i].rest) \/ low'[At(i)] <= idx[x]
    <3>1. /\ u \in Open /\ idx[u] < idx[v] /\ idx[At(i)] <= idx[u]
          /\ i < Len(work) - 1 => idx[u] < idx[At(i + 1)]
      <4>1. i < Len(work) - 1 => i + 1 \in Depth'
        BY <1>1
      <4>2. i < Len(work) - 1 => At(i + 1)' = At(i + 1)
        BY <1>1, <4>1
      <4> QED
        BY <1>1, <1>4, <2>2, <4>2 DEF Segment
    <3>2. i = Len(work) - 1 => At(i + 1) = v
      BY <1>1
    <3>3. i < Len(work) - 1 \/ i = Len(work) - 1
      BY <1>1
    <3>4. u \in Segment(i)
      BY <3>1, <3>2, <3>3 DEF Segment
    <3> QED
      BY <1>0, <1>1, <1>4, <1>10, <3>4 DEF LowExact
  <2>3. /\ idx' = idx
        /\ \A i \in Depth' : At(i)' = At(i) /\ work'[i] = work[i]
    BY <1>1
  <2> QED
    BY <1>3, <2>1, <2>2, <2>3 DEF LowExact
<1> QED
  BY <1>6, <1>7, <1>8, <1>11, CloseFlags

LEMMA LeaveKeeps ==
    ASSUME TypeInv, CyclesInv, NEW v, Leaves(v)
    PROVE  TypeInv' /\ CyclesInv'
<1>1. Numbered
  BY DEF CyclesInv
<1>2. TypeInv'
  <2>1. (\A i \in Depth : work[i].rest \subseteq Neighbors(At(i)))'
    BY RestKept DEF Leaves
  <2>2. v \in Open /\ v \in Visited /\ v \in Node /\ Open \subseteq Node /\ low[v] \in Int
    BY <1>1, LeaveViews
  <2>3. low' \in [Node -> Int]
    <3> DEFINE p == At(Len(work) - 1)
    <3>1. CASE Len(work) = 1
      BY <3>1 DEF TypeInv, Leaves
    <3>2. CASE Len(work) # 1
      <4>1. Len(work) - 1 \in Depth
        <5>1. \A n \in Nat : n \in 1..n /\ n # 1 => n - 1 \in 1..n
          OBVIOUS
        <5>2. Len(work) \in Nat /\ Len(work) \in Depth /\ Depth = 1..Len(work)
          BY <1>1, LeaveViews
        <5> QED
          BY <3>2, <5>1, <5>2
      <4>2. p \in Node /\ low \in [Node -> Int]
        BY <4>1, StackFacts DEF TypeInv
      <4>3. Min({low[p], low[v]}) \in Int
        BY <2>2, <4>2, MinOfTwo
      <4>4. low' = [low EXCEPT ![p] = Min({low[p], low[v]})]
        BY <3>2 DEF Leaves
      <4> HIDE DEF p
      <4> QED
        BY <4>2, <4>3, <4>4
    <3> QED
      BY <3>1, <3>2
  <2>4. scc_stack' \in Seq(Node)
    BY <1>1, <2>2, ComponentFacts DEF Leaves, TypeInv
  <2>5. Component(v) \subseteq Node
    BY <1>1, <2>2, ComponentFacts
  <2>6. in_cycle' \subseteq Node
    BY <2>5 DEF Leaves, TypeInv
  <2>7. /\ UNCHANGED <<edges, pass, idx, next_index, level, expanding>>
        /\ work' \in Seq(Entries) /\ Entries' = Entries
    BY DEF Leaves, Entries
  <2> QED
    BY <2>1, <2>3, <2>4, <2>6, <2>7 DEF TypeInv
<1> QED
  BY <1>2, StayKeeps, CloseKeeps DEF CyclesInv

\* The first pass, with the second yet to come.
FirstPass == TypeInv /\ CyclesInv /\ Unleveled

LEMMA FirstPassInit == Init => FirstPass
<1> SUFFICES ASSUME Init PROVE FirstPass
  OBVIOUS
<1>1. TypeInv
  BY TypeInit
<1>2. Visited = {} /\ Open = {} /\ Closed = {} /\ Depth = {} /\ DOMAIN scc_stack = {}
  BY DEF Init, Visited, Open, Closed, Depth, Range, Unset
<1>3. Numbered
  BY <1>2 DEF Numbered
<1>4. Explored /\ Linked /\ LowExact
  BY <1>2 DEF Explored, Linked, LowExact
<1>5. Flagged
  <2>1. in_cycle = {v \in Node : v \in Neighbors(v)}
    BY DEF Init, Neighbors
  <2> QED
    BY <1>2, <2>1, SelfCyclic DEF Flagged
<1> QED
  BY <1>1, <1>3, <1>4, <1>5 DEF FirstPass, CyclesInv, Unleveled, Init

\* A step of the first pass keeps its invariant.
LEMMA FirstPassStep ==
    ASSUME FirstPass, CloseNode \/ \E v \in Node : VisitStart(v) \/ FollowEdge(v)
    PROVE  FirstPass'
<1>1. TypeInv /\ CyclesInv
  BY DEF FirstPass
<1>2. Unleveled'
  BY DEF FirstPass, Unleveled, VisitStart, FollowEdge, CloseNode
<1>3. ASSUME NEW v \in Node, VisitStart(v) \/ FollowEdge(v) PROVE TypeInv' /\ CyclesInv'
  <2>1. CASE VisitStart(v) \/ (FollowEdge(v) /\ idx[v] = Unset)
    BY <1>1, <2>1, EnterSteps, EnterKeeps
  <2>2. CASE FollowEdge(v) /\ idx[v] # Unset
    BY <1>1, <2>2, PassSteps, PassKeeps
  <2> QED
    BY <1>3, <2>1, <2>2
<1>4. ASSUME CloseNode PROVE TypeInv' /\ CyclesInv'
  BY <1>1, <1>4, CloseSteps, LeaveKeeps
<1> QED
  BY <1>1, <1>2, <1>3, <1>4 DEF FirstPass

\* When the first pass is over, no component is open, so every node is decided.
LEMMA FirstPassEnd ==
    ASSUME FirstPass, StartLevels
    PROVE  in_cycle = {v \in Node : Cyclic(v)}
<1>1. Linked /\ Flagged /\ in_cycle \subseteq Node
  BY DEF FirstPass, CyclesInv, TypeInv
<1>2. Depth = {} /\ Visited = Node
  BY DEF StartLevels, Depth, Visited
<1>3. Open = {}
  BY <1>1, <1>2 DEF Linked
<1>4. Closed = Node
  BY <1>2, <1>3 DEF Closed
<1> QED
  BY <1>1, <1>4 DEF Flagged

-----------------------------------------------------------------------------
(* The second pass.                                                         *)

\* The expanding nodes are those on the work stack, each leads to those above it,
\* and what it has passed over is settled, leveled or next on the stack.
Expanding ==
    /\ expanding = {At(i) : i \in Depth}
    /\ \A i, j \in Depth : i < j => At(i) # At(j)
    /\ \A i \in Depth : At(i) \notin in_cycle /\ level[At(i)] = Unset
    /\ \A i, j \in Depth : i <= j => Leads(At(i), At(j))
    /\ \A i \in Depth : \A w \in Neighbors(At(i)) \ work[i].rest :
          w \in in_cycle \/ level[w] # Unset \/ (i < Len(work) /\ w = At(i + 1))

\* A level that is set is the one its neighbors determine, and theirs are set.
Leveled ==
    \A v \in Node : level[v] # Unset =>
        /\ v \notin in_cycle /\ level[v] \in Nat /\ level[v] = LevelOf(v)
        /\ \A w \in Neighbors(v) \ in_cycle : level[w] # Unset

SecondPass ==
    /\ TypeInv
    /\ in_cycle = {v \in Node : Cyclic(v)}
    /\ Expanding /\ Leveled
    /\ pass = "done" => \A v \in Node \ in_cycle : level[v] # Unset

LEMMA SecondPassStart ==
    ASSUME FirstPass, StartLevels
    PROVE  SecondPass'
<1>1. /\ work = <<>> /\ pass' = "levels"
      /\ UNCHANGED <<edges, work, in_cycle, idx, low, scc_stack, next_index, level, expanding>>
  BY DEF StartLevels
<1>2. TypeInv'
  BY <1>1 DEF FirstPass, TypeInv, Depth, At, Neighbors, Entries
<1>3. Depth = {} /\ Depth' = {}
  BY <1>1 DEF Depth
<1>4. (in_cycle = {v \in Node : Cyclic(v)})'
  BY <1>1, FirstPassEnd, PathsKept
<1>5. Expanding'
  BY <1>1, <1>3 DEF Expanding, FirstPass, Unleveled
<1>6. Leveled'
  BY <1>1 DEF Leveled, FirstPass, Unleveled
<1> QED
  BY <1>1, <1>2, <1>4, <1>5, <1>6 DEF SecondPass

LEMMA SmallestNumber ==
    ASSUME NEW T, T \subseteq Nat, T # {}
    PROVE  \E n \in T : \A m \in T : n <= m
<1> DEFINE R == OpToRel(<, Nat)
<1>1. IsWellFoundedOn(R, Nat)
  BY NatLessThanWellFounded
<1>2. \A a, b \in Nat : a < b => <<a, b>> \in R
  BY DEF OpToRel
<1> HIDE DEF R
<1>3. PICK n \in T : \A m \in T : <<m, n>> \notin R
  BY <1>1, WFMin
<1>4. ASSUME NEW m \in T PROVE n <= m
  <2>1. m \in Nat /\ n \in Nat /\ ~(m < n)
    BY <1>2, <1>3
  <2> QED
    BY <2>1
<1> QED
  BY <1>4

\* A finite set of numbers has a largest one.
LEMMA MaxExists ==
    ASSUME NEW S \in SUBSET Nat, S # {}, IsFiniteSet(S)
    PROVE  Max(S) \in S /\ \A x \in S : Max(S) >= x
<1> DEFINE HasMax(T) == \E x \in T : \A y \in T : x >= y
           Missed == {T \in SUBSET Nat : T # {} /\ IsFiniteSet(T) /\ ~HasMax(T)}
           sizes == {Cardinality(T) : T \in Missed}
<1>1. SUFFICES ASSUME Missed # {} PROVE FALSE
  <2>1. HasMax(S)
    BY <1>1
  <2> QED
    BY <2>1 DEF Max
<1>2. sizes \subseteq Nat /\ sizes # {}
  BY <1>1, FS_CardinalityType
<1>3. PICK n \in sizes : \A k \in sizes : n <= k
  <2> HIDE DEF sizes
  <2> QED
    BY <1>2, SmallestNumber
<1>4. PICK T \in Missed : n = Cardinality(T)
  BY <1>3
<1>5. T \in SUBSET Nat /\ T # {} /\ IsFiniteSet(T) /\ ~HasMax(T)
  BY <1>4
<1>6. PICK x \in T : TRUE
  BY <1>5
<1> DEFINE U == T \ {x}
<1>7. U \in SUBSET Nat /\ IsFiniteSet(U) /\ Cardinality(U) = Cardinality(T) - 1
  BY <1>5, FS_RemoveElement
<1>8. U \notin Missed
  <2>1. n \in Nat /\ Cardinality(U) = n - 1 /\ ~(n <= n - 1)
    BY <1>2, <1>4, <1>7
  <2> SUFFICES ASSUME U \in Missed PROVE FALSE
    OBVIOUS
  <2>2. Cardinality(U) \in sizes
    OBVIOUS
  <2> QED
    BY <1>3, <2>1, <2>2
<1>9. CASE U = {}
  <2>1. \A y \in T : x >= y
    BY <1>5, <1>9
  <2> QED
    BY <1>5, <2>1
<1>10. CASE U # {}
  <2>1. PICK m \in U : \A y \in U : m >= y
    BY <1>7, <1>8, <1>10
  <2>2. x \in Nat /\ m \in Nat /\ m \in T /\ \A y \in T : y \in Nat /\ (y = x \/ y \in U)
    BY <1>5, <2>1
  <2>3. CASE m >= x
    <3>1. \A y \in T : m >= y
      BY <2>1, <2>2, <2>3
    <3> QED
      BY <1>5, <2>2, <3>1
  <2>4. CASE x > m
    <3>1. \A y \in T : x >= y
      BY <2>1, <2>2, <2>4
    <3> QED
      BY <1>5, <3>1
  <2> QED
    BY <2>2, <2>3, <2>4
<1> QED
  BY <1>9, <1>10

\* The nodes that give a node its level.
Below(v) == {u \in Neighbors(v) : u \notin in_cycle /\ level[u] # Unset}

\* A level is zero or the largest of one more than those below.
LEMMA LevelOfFacts ==
    ASSUME TypeInv, Leveled, NEW v \in Node
    PROVE  /\ LevelOf(v) \in Nat
           /\ \A u \in Below(v) : level[u] < LevelOf(v)
           /\ LevelOf(v) = 0 \/ \E u \in Below(v) : LevelOf(v) = level[u] + 1
<1> DEFINE above == {level[u] + 1 : u \in Below(v)}
           S == {0} \cup above
<1>1. Below(v) \subseteq Node /\ \A u \in Below(v) : level[u] \in Nat
  BY DEF Below, Leveled, Neighbors
<1>2. IsFiniteSet(above)
  <2> DEFINE f == [u \in Below(v) |-> level[u] + 1]
  <2>1. IsFiniteSet(Below(v))
    BY <1>1, EdgeSetsAssumption, FS_Subset
  <2>2. f \in Surjection(Below(v), above)
    BY DEF Surjection
  <2> HIDE DEF f, above
  <2> QED
    BY <2>1, <2>2, FS_Surjection
<1>3. S \in SUBSET Nat /\ S # {}
  BY <1>1
<1>4. IsFiniteSet(S)
  <2>1. IsFiniteSet({0})
    BY FS_Singleton
  <2> HIDE DEF above
  <2> QED
    BY <1>2, <2>1, FS_Union
<1>5. LevelOf(v) = Max(S)
  BY DEF LevelOf, Below
<1>6. Max(S) \in S /\ \A x \in S : Max(S) >= x
  <2> HIDE DEF S
  <2> QED
    BY <1>3, <1>4, MaxExists
<1>7. LevelOf(v) \in S /\ \A x \in S : LevelOf(v) >= x
  BY <1>5, <1>6
<1>8. LevelOf(v) \in Nat
  BY <1>3, <1>7
<1>9. ASSUME NEW u \in Below(v) PROVE level[u] < LevelOf(v)
  <2>1. level[u] \in Nat /\ LevelOf(v) >= level[u] + 1
    BY <1>1, <1>7
  <2> QED
    BY <1>8, <2>1
<1> QED
  BY <1>7, <1>8, <1>9

\* A node is expanded.
Expands(w) ==
    /\ Entered(w) /\ work' \in Seq(Entries)
    /\ work # <<>> => w \in Neighbors(At(Len(work)))
    /\ pass = "levels" /\ w \notin in_cycle /\ level[w] = Unset /\ w \notin expanding
    /\ expanding' = expanding \cup {w}
    /\ UNCHANGED <<edges, pass, in_cycle, idx, low, scc_stack, next_index, level>>

\* A neighbor is skipped.
Skips(w) ==
    /\ Passed(w) /\ work' \in Seq(Entries)
    /\ pass = "levels" /\ (w \in in_cycle \/ level[w] # Unset)
    /\ UNCHANGED <<edges, pass, in_cycle, idx, low, scc_stack, next_index, level, expanding>>

\* The node on top gets its level.
Levels(v) ==
    /\ Left /\ work' \in Seq(Entries)
    /\ pass = "levels" /\ v = At(Len(work))
    /\ level' = [level EXCEPT ![v] = LevelOf(v)]
    /\ expanding' = expanding \ {v}
    /\ UNCHANGED <<edges, pass, in_cycle, idx, low, scc_stack, next_index>>

\* No edge left on top leads to an expanding node.
LEMMA NoneExpanding ==
    ASSUME SecondPass, work # <<>>, NEW w \in Top.rest
    PROVE  w \notin expanding
<1>1. TypeInv /\ Expanding /\ in_cycle = {v \in Node : Cyclic(v)}
  BY DEF SecondPass
<1>2. /\ Len(work) \in Depth /\ Top = work[Len(work)] /\ Depth = 1..Len(work)
      /\ \A i \in Depth : At(i) \in Node /\ i <= Len(work)
  BY <1>1, StackFacts DEF Depth
<1>3. w \in Neighbors(At(Len(work)))
  BY <1>1, <1>2 DEF TypeInv
<1> SUFFICES ASSUME NEW i \in Depth, w = At(i) PROVE FALSE
  BY <1>1 DEF Expanding
<1>4. Leads(w, At(Len(work))) /\ w \in Node /\ w \notin in_cycle
  BY <1>1, <1>2 DEF Expanding
<1>5. Cyclic(w)
  BY <1>2, <1>3, <1>4, CyclicStep
<1> QED
  BY <1>1, <1>4, <1>5

LEMMA ExpandSteps ==
    ASSUME SecondPass, NEW w \in Node, ExpandStart(w) \/ ExpandEdge(w)
    PROVE  Expands(w) \/ Skips(w)
<1>1. TypeInv /\ Expanding
  BY DEF SecondPass
<1>2. CASE ExpandStart(w)
  <2>1. work = <<>> /\ Depth = {}
    BY <1>2 DEF ExpandStart, Depth
  <2>2. expanding = {}
    BY <1>1, <2>1 DEF Expanding
  <2>3. work' = Append(work, Entry(w))
    BY <1>2, <2>1 DEF ExpandStart
  <2> QED
    BY <1>1, <1>2, <2>1, <2>2, <2>3, EnteredFromEmpty DEF ExpandStart, Expands
<1>3. CASE ExpandEdge(w)
  <2>1. work # <<>> /\ w \in Top.rest
    BY <1>3 DEF ExpandEdge
  <2>2. w \notin expanding
    BY <2>1, NoneExpanding
  <2>3. CASE w \in in_cycle \/ level[w] # Unset
    BY <1>1, <1>3, <2>1, <2>2, <2>3, PassedAlong DEF ExpandEdge, Skips
  <2>4. CASE w \notin in_cycle /\ level[w] = Unset
    BY <1>1, <1>3, <2>1, <2>2, <2>4, EnteredFromTop DEF ExpandEdge, Expands
  <2> QED
    BY <2>3, <2>4
<1> QED
  BY <1>2, <1>3

LEMMA LevelSteps ==
    ASSUME TypeInv, SetLevel
    PROVE  Levels(At(Len(work)))
<1>1. work # <<>> /\ Top.rest = {} /\ work' = Front(work)
  BY DEF SetLevel
<1>2. Top.node = At(Len(work))
  BY <1>1, StackFacts
<1>3. Left /\ work' \in Seq(Entries)
  BY <1>1, LeftBehind
<1> QED
  BY <1>2, <1>3 DEF SetLevel, Levels

LEMMA LevelOfKept ==
    ASSUME UNCHANGED <<edges, in_cycle>>, NEW v, \A u \in Neighbors(v) : level'[u] = level[u]
    PROVE  LevelOf(v)' = LevelOf(v)
<1>1. Neighbors(v)' = Neighbors(v)
  BY DEF Neighbors
<1>2. {u \in Neighbors(v) : u \notin in_cycle /\ level[u] # Unset}'
        = {u \in Neighbors(v) : u \notin in_cycle /\ level[u] # Unset}
  BY <1>1
<1> QED
  BY <1>1, <1>2 DEF LevelOf

LEMMA LeveledKept ==
    ASSUME Leveled, UNCHANGED <<edges, in_cycle, level>>
    PROVE  Leveled'
<1>1. \A v : LevelOf(v)' = LevelOf(v) /\ Neighbors(v)' = Neighbors(v)
  BY LevelOfKept, PathsKept
<1> QED
  BY <1>1 DEF Leveled

LEMMA ExpandKeeps ==
    ASSUME SecondPass, NEW w \in Node, Expands(w)
    PROVE  SecondPass'
<1>1. /\ TypeInv /\ Expanding /\ Leveled
      /\ UNCHANGED <<edges, pass, in_cycle, idx, low, scc_stack, next_index, level>>
      /\ w \notin in_cycle /\ level[w] = Unset /\ w \notin expanding /\ pass = "levels"
      /\ expanding' = expanding \cup {w} /\ work' \in Seq(Entries) /\ Entries' = Entries
      /\ Len(work') = Len(work) + 1
  BY DEF SecondPass, Expands, Entered, Entries
<1>2. /\ \A v, x : Leads(v, x)' = Leads(v, x)
      /\ \A v : Neighbors(v)' = Neighbors(v) /\ Cyclic(v)' = Cyclic(v)
  BY <1>1, PathsKept
<1>3. /\ Len(work) \in Nat /\ Depth = 1..Len(work)
      /\ \A i \in Depth : At(i) \in Node /\ i < Len(work) + 1 /\ Len(work) \in Depth /\ work # <<>>
  <2>1. Len(work) \in Nat /\ Depth = 1..Len(work) /\ \A i \in Depth : At(i) \in Node
    BY <1>1, StackFacts DEF Depth
  <2>2. \A i \in Depth : i < Len(work) + 1 /\ Len(work) \in Depth
    BY <2>1
  <2>3. work = <<>> => Len(work) = 0
    BY <1>1, StackFacts
  <2> QED
    BY <2>1, <2>2, <2>3
<1>4. Depth' = Depth \cup {Len(work) + 1}
  BY <1>1, <1>3 DEF Depth
<1>5. /\ \A i \in Depth : At(i)' = At(i)
      /\ \A i \in Nat : i = Len(work) + 1 => At(i)' = w /\ work'[i].rest = Neighbors(w)
  BY DEF Expands, Entered, At
<1>6. TypeInv'
  <2>1. (\A i \in Depth : work[i].rest \subseteq Neighbors(At(i)))'
    BY <1>1, RestKept DEF Expands
  <2> QED
    BY <1>1, <2>1 DEF TypeInv
<1>7. Expanding'
  <2>1. expanding' = {At(i)' : i \in Depth'}
    <3>1. expanding = {At(i) : i \in Depth}
      BY <1>1 DEF Expanding
    <3>2. {At(i)' : i \in Depth'} = {At(i)' : i \in Depth} \cup {At(i)' : i \in {Len(work) + 1}}
      BY <1>4
    <3>3. {At(i)' : i \in Depth} = expanding
      BY <1>5, <3>1
    <3>4. {At(i)' : i \in {Len(work) + 1}} = {w}
      BY <1>3, <1>5
    <3> QED
      BY <1>1, <3>2, <3>3, <3>4
  <2>2. ASSUME NEW i \in Depth', NEW j \in Depth', i < j PROVE At(i)' # At(j)'
    <3>1. i \in Depth
      BY <1>3, <1>4, <2>2
    <3>2. CASE j \in Depth
      BY <1>1, <1>5, <2>2, <3>1, <3>2 DEF Expanding
    <3>3. CASE j = Len(work) + 1
      BY <1>1, <1>3, <1>5, <3>1, <3>3 DEF Expanding
    <3> QED
      BY <1>4, <3>2, <3>3
  <2>3. ASSUME NEW i \in Depth' PROVE At(i)' \notin in_cycle /\ level[At(i)'] = Unset
    <3>1. CASE i \in Depth
      BY <1>1, <1>5, <3>1 DEF Expanding
    <3>2. CASE i = Len(work) + 1
      BY <1>1, <1>3, <1>5, <3>2
    <3> QED
      BY <1>4, <3>1, <3>2
  <2>4. ASSUME NEW i \in Depth', NEW j \in Depth', i <= j PROVE Leads(At(i)', At(j)')
    <3>1. CASE j \in Depth
      <4>1. i \in Depth
        BY <1>3, <1>4, <2>4, <3>1
      <4> QED
        BY <1>1, <1>5, <2>4, <3>1, <4>1 DEF Expanding
    <3>2. CASE j = Len(work) + 1 /\ i = Len(work) + 1
      <4>1. At(i)' = w /\ At(j)' = w
        BY <1>3, <1>5, <3>2
      <4> QED
        BY <4>1, LeadsFacts
    <3>3. CASE j = Len(work) + 1 /\ i \in Depth
      <4>1. At(j)' = w /\ At(i)' = At(i) /\ At(i) \in Node
        BY <1>3, <1>5, <3>3
      <4>2. w \in Neighbors(At(Len(work))) /\ Len(work) \in Depth /\ i <= Len(work)
        BY <1>3, <3>3 DEF Expands
      <4>3. Leads(At(i), At(Len(work)))
        BY <1>1, <3>3, <4>2 DEF Expanding
      <4> QED
        BY <4>1, <4>2, <4>3, LeadsFacts
    <3> QED
      BY <1>4, <3>1, <3>2, <3>3
  <2>5. ASSUME NEW i \in Depth', NEW x \in Neighbors(At(i)') \ work'[i].rest
        PROVE  x \in in_cycle \/ level[x] # Unset \/ (i < Len(work') /\ x = At(i + 1)')
    <3>1. CASE i = Len(work) + 1
      BY <1>3, <1>5, <3>1
    <3>2. CASE i \in Depth
      <4>1. work'[i].rest = IF i = Len(work) THEN work[i].rest \ {w} ELSE work[i].rest
        BY <3>2 DEF Expands, Entered
      <4>2. i < Len(work) => i + 1 \in Depth
        BY <1>3, <3>2
      <4>3. i < Len(work) => At(i + 1)' = At(i + 1)
        BY <1>5, <4>2
      <4>4. i < Len(work')
        BY <1>1, <1>3, <3>2
      <4>5. CASE x \in Neighbors(At(i)) \ work[i].rest
        <5>1. x \in in_cycle \/ level[x] # Unset \/ (i < Len(work) /\ x = At(i + 1))
          BY <1>1, <3>2, <4>5 DEF Expanding
        <5> QED
          BY <4>3, <4>4, <5>1
      <4>6. CASE x = w /\ i = Len(work)
        <5>1. i + 1 \in Nat /\ i + 1 = Len(work) + 1
          BY <1>3, <4>6
        <5> QED
          BY <1>5, <4>4, <4>6, <5>1
      <4> QED
        BY <1>5, <2>5, <3>2, <4>1, <4>5, <4>6
    <3> QED
      BY <1>4, <3>1, <3>2
  <2> QED
    BY <1>1, <1>2, <2>1, <2>2, <2>3, <2>4, <2>5 DEF Expanding
<1>8. Leveled' /\ (in_cycle = {v \in Node : Cyclic(v)})' /\ pass' # "done"
  BY <1>1, <1>2, LeveledKept DEF SecondPass
<1> QED
  BY <1>6, <1>7, <1>8 DEF SecondPass

LEMMA SkipKeeps ==
    ASSUME SecondPass, NEW w \in Node, Skips(w)
    PROVE  SecondPass'
<1>1. /\ TypeInv /\ Expanding /\ Leveled
      /\ UNCHANGED <<edges, pass, in_cycle, idx, low, scc_stack, next_index, level, expanding>>
      /\ w \in in_cycle \/ level[w] # Unset
      /\ pass = "levels" /\ work' \in Seq(Entries) /\ Entries' = Entries
      /\ Len(work') = Len(work)
  BY DEF SecondPass, Skips, Passed, Entries
<1>2. /\ \A v, x : Leads(v, x)' = Leads(v, x)
      /\ \A v : Neighbors(v)' = Neighbors(v) /\ Cyclic(v)' = Cyclic(v)
  BY <1>1, PathsKept
<1>3. Depth' = Depth /\ Depth = 1..Len(work) /\ Len(work) \in Nat
  BY <1>1, StackFacts DEF Depth
<1>4. \A i \in Depth : /\ At(i)' = At(i)
                       /\ work'[i].rest = IF i = Len(work) THEN work[i].rest \ {w} ELSE work[i].rest
  BY DEF Skips, Passed, At
<1>5. TypeInv'
  <2>1. (\A i \in Depth : work[i].rest \subseteq Neighbors(At(i)))'
    BY <1>1, RestKept DEF Skips
  <2> QED
    BY <1>1, <2>1 DEF TypeInv
<1>6. Expanding'
  <2>0. Depth' = Depth /\ \A i \in Depth : At(i)' = At(i)
    BY <1>3, <1>4
  <2>1. /\ \A i, j \in Depth' : i < j => At(i)' # At(j)'
        /\ \A i \in Depth' : At(i)' \notin in_cycle /\ level[At(i)'] = Unset
        /\ \A i, j \in Depth' : i <= j => Leads(At(i)', At(j)')
    BY <1>1, <2>0 DEF Expanding
  <2>3. expanding' = {At(i)' : i \in Depth'}
    <3>1. expanding = {At(i) : i \in Depth}
      BY <1>1 DEF Expanding
    <3>2. {At(i)' : i \in Depth'} = {At(i) : i \in Depth}
      BY <2>0
    <3> QED
      BY <1>1, <3>1, <3>2
  <2>2. ASSUME NEW i \in Depth', NEW x \in Neighbors(At(i)') \ work'[i].rest
        PROVE  x \in in_cycle \/ level[x] # Unset \/ (i < Len(work') /\ x = At(i + 1)')
    <3>1. i < Len(work) => i + 1 \in Depth
      BY <1>3, <2>2
    <3>2. i < Len(work) => At(i + 1)' = At(i + 1)
      BY <1>4, <3>1
    <3>3. x \in Neighbors(At(i)) \ work[i].rest \/ x = w
      BY <1>3, <1>4
    <3>4. CASE x \in Neighbors(At(i)) \ work[i].rest
      <4>1. x \in in_cycle \/ level[x] # Unset \/ (i < Len(work) /\ x = At(i + 1))
        BY <1>1, <1>3, <3>4 DEF Expanding
      <4> QED
        BY <1>1, <3>2, <4>1
    <3> QED
      BY <1>1, <3>3, <3>4
  <2> QED
    BY <1>1, <1>2, <2>1, <2>2, <2>3 DEF Expanding
<1>7. Leveled' /\ (in_cycle = {v \in Node : Cyclic(v)})' /\ pass' # "done"
  BY <1>1, <1>2, LeveledKept DEF SecondPass
<1> QED
  BY <1>5, <1>6, <1>7 DEF SecondPass

LEMMA LevelKeeps ==
    ASSUME SecondPass, NEW v, Levels(v)
    PROVE  SecondPass'
<1>1. /\ TypeInv /\ Expanding /\ Leveled /\ in_cycle = {u \in Node : Cyclic(u)}
      /\ UNCHANGED <<edges, pass, in_cycle, idx, low, scc_stack, next_index>>
      /\ level' = [level EXCEPT ![v] = LevelOf(v)] /\ level \in [Node -> Int]
      /\ pass = "levels" /\ work' \in Seq(Entries) /\ Entries' = Entries
      /\ expanding' = expanding \ {v} /\ v = At(Len(work)) /\ work # <<>>
      /\ Len(work') = Len(work) - 1 /\ work[Len(work)].rest = {}
  BY DEF SecondPass, TypeInv, Levels, Left, Entries
<1>2. /\ \A u, x : Leads(u, x)' = Leads(u, x)
      /\ \A u : Neighbors(u)' = Neighbors(u) /\ Cyclic(u)' = Cyclic(u)
  BY <1>1, PathsKept
<1>3. /\ Len(work) \in Nat /\ Len(work) \in Depth /\ Depth = 1..Len(work)
      /\ \A i \in Depth : At(i) \in Node
  BY <1>1, StackFacts DEF Depth
<1>4. /\ Depth' = 1..(Len(work) - 1)
      /\ \A i \in Depth : i \in Depth' \/ i = Len(work)
      /\ \A i \in Depth' : i \in Depth /\ i < Len(work)
  <2>1. Depth' = 1..(Len(work) - 1)
    BY <1>1 DEF Depth
  <2> QED
    BY <1>3, <2>1
<1>5. \A i \in Depth' : At(i)' = At(i) /\ work'[i] = work[i] /\ At(i) # v
  <2>1. \A i \in Depth' : work'[i] = work[i]
    BY <1>4 DEF Levels, Left
  <2>2. \A i \in Depth' : At(i) # v
    BY <1>1, <1>3, <1>4 DEF Expanding
  <2> QED
    BY <2>1, <2>2 DEF At
<1>6. v \in Node /\ v \notin in_cycle /\ level[v] = Unset
  BY <1>1, <1>3 DEF Expanding
<1>7. \A w \in Neighbors(v) \ in_cycle : level[w] # Unset
  BY <1>1, <1>3 DEF Expanding
<1>8. LevelOf(v) \in Nat /\ LevelOf(v) # Unset
  <2>1. LevelOf(v) \in Nat
    BY <1>1, <1>6, LevelOfFacts
  <2> QED
    BY <2>1 DEF Unset
<1>9. v \notin Neighbors(v)
  BY <1>1, <1>6, SelfCyclic
<1>10. \A u \in Node : level'[u] = IF u = v THEN LevelOf(v) ELSE level[u]
  BY <1>1
<1>11. TypeInv'
  <2>1. (\A i \in Depth : work[i].rest \subseteq Neighbors(At(i)))'
    BY <1>1, RestKept DEF Levels
  <2>2. level' \in [Node -> Int]
    BY <1>1, <1>6, <1>8
  <2> QED
    BY <1>1, <2>1, <2>2 DEF TypeInv
<1>12. Leveled'
  <2>1. ASSUME NEW u \in Node, level'[u] # Unset
        PROVE  /\ u \notin in_cycle /\ level'[u] \in Nat /\ level'[u] = LevelOf(u)'
               /\ \A w \in Neighbors(u) \ in_cycle : level'[w] # Unset
    <3>1. Neighbors(u) \subseteq Node
      BY DEF Neighbors
    <3>2. CASE u = v
      <4>1. \A w \in Neighbors(v) : level'[w] = level[w]
        BY <1>9, <1>10, <3>1, <3>2
      <4>2. LevelOf(v)' = LevelOf(v)
        BY <1>1, <4>1, LevelOfKept
      <4>3. LevelOf(u)' = LevelOf(v)'
        BY <3>2
      <4> QED
        BY <1>6, <1>7, <1>8, <1>10, <3>2, <4>1, <4>2, <4>3
    <3>3. CASE u # v
      <4>1. /\ level'[u] = level[u] /\ u \notin in_cycle /\ level[u] \in Nat /\ level[u] = LevelOf(u)
            /\ \A w \in Neighbors(u) \ in_cycle : level[w] # Unset
        BY <1>1, <1>10, <2>1, <3>3 DEF Leveled
      <4>2. v \notin Neighbors(u)
        BY <1>6, <4>1
      <4>3. \A w \in Neighbors(u) : level'[w] = level[w]
        BY <1>10, <3>1, <4>2
      <4>4. LevelOf(u)' = LevelOf(u)
        BY <1>1, <4>3, LevelOfKept
      <4> QED
        BY <4>1, <4>3, <4>4
    <3> QED
      BY <3>2, <3>3
  <2> QED
    BY <1>1, <1>2, <2>1 DEF Leveled
<1>13. Expanding'
  <2>1. expanding' = {At(i)' : i \in Depth'}
    <3>1. expanding = {At(i) : i \in Depth}
      BY <1>1 DEF Expanding
    <3>2. {At(i)' : i \in Depth'} = {At(i) : i \in Depth'}
      BY <1>5
    <3>3. {At(i) : i \in Depth'} = {At(i) : i \in Depth} \ {v}
      BY <1>1, <1>4, <1>5
    <3> QED
      BY <1>1, <3>1, <3>2, <3>3
  <2>2. \A i, j \in Depth' : i < j => At(i)' # At(j)'
    BY <1>1, <1>4, <1>5 DEF Expanding
  <2>3. \A i \in Depth' : At(i)' \notin in_cycle /\ level'[At(i)'] = Unset
    BY <1>1, <1>3, <1>4, <1>5, <1>10 DEF Expanding
  <2>4. \A i, j \in Depth' : i <= j => Leads(At(i)', At(j)')
    BY <1>1, <1>4, <1>5 DEF Expanding
  <2>5. ASSUME NEW i \in Depth', NEW x \in Neighbors(At(i)') \ work'[i].rest
        PROVE  x \in in_cycle \/ level'[x] # Unset \/ (i < Len(work') /\ x = At(i + 1)')
    <3>1. x \in Node /\ x \in Neighbors(At(i)) \ work[i].rest /\ i \in Depth
      BY <1>4, <1>5 DEF Neighbors
    <3>2. x \in in_cycle \/ level[x] # Unset \/ (i < Len(work) /\ x = At(i + 1))
      BY <1>1, <3>1 DEF Expanding
    <3>3. CASE level[x] # Unset
      BY <1>8, <1>10, <3>1, <3>3
    <3>4. CASE i < Len(work) /\ x = At(i + 1)
      <4>1. CASE i + 1 = Len(work)
        BY <1>1, <1>8, <1>10, <3>1, <3>4, <4>1
      <4>2. CASE i + 1 # Len(work)
        <5>1. i + 1 \in Depth' /\ i < Len(work) - 1
          BY <1>3, <1>4, <3>1, <3>4, <4>2
        <5>2. At(i + 1)' = At(i + 1)
          BY <1>5, <5>1
        <5> QED
          BY <1>1, <3>4, <5>1, <5>2
      <4> QED
        BY <4>1, <4>2
    <3> QED
      BY <3>2, <3>3, <3>4
  <2> QED
    BY <1>1, <1>2, <2>1, <2>2, <2>3, <2>4, <2>5 DEF Expanding
<1>14. (in_cycle = {u \in Node : Cyclic(u)})' /\ pass' # "done"
  BY <1>1, <1>2
<1> QED
  BY <1>11, <1>12, <1>13, <1>14 DEF SecondPass

-----------------------------------------------------------------------------
(* Both passes.                                                             *)

Inv == IF pass = "cycles" THEN FirstPass ELSE SecondPass

LEMMA InvStep == Inv /\ [Next]_vars => Inv'
<1> SUFFICES ASSUME Inv, [Next]_vars PROVE Inv'
  OBVIOUS
<1>1. ASSUME CloseNode \/ \E v \in Node : VisitStart(v) \/ FollowEdge(v) PROVE Inv'
  <2>1. pass = "cycles" /\ pass' = pass
    BY <1>1 DEF CloseNode, VisitStart, FollowEdge
  <2> QED
    BY <1>1, <2>1, FirstPassStep DEF Inv
<1>2. ASSUME StartLevels PROVE Inv'
  <2>1. pass = "cycles" /\ pass' = "levels"
    BY <1>2 DEF StartLevels
  <2> QED
    BY <1>2, <2>1, SecondPassStart DEF Inv
<1>3. ASSUME NEW v \in Node, ExpandStart(v) \/ ExpandEdge(v) PROVE Inv'
  <2>1. pass = "levels" /\ pass' = pass
    BY <1>3 DEF ExpandStart, ExpandEdge
  <2> QED
    BY <1>3, <2>1, ExpandSteps, ExpandKeeps, SkipKeeps DEF Inv
<1>4. ASSUME SetLevel PROVE Inv'
  <2>1. pass = "levels" /\ pass' = pass
    BY <1>4 DEF SetLevel
  <2> QED
    BY <1>4, <2>1, LevelSteps, LevelKeeps DEF Inv, SecondPass
<1>5. ASSUME Finish PROVE Inv'
  <2>1. /\ SecondPass /\ pass' = "done" /\ \A v \in Node \ in_cycle : level[v] # Unset
        /\ UNCHANGED <<edges, work, in_cycle, idx, low, scc_stack, next_index, level, expanding>>
    BY <1>5 DEF Finish, Inv
  <2>2. /\ \A u, x : Leads(u, x)' = Leads(u, x)
        /\ \A u : Neighbors(u)' = Neighbors(u) /\ Cyclic(u)' = Cyclic(u)
    BY <2>1, PathsKept
  <2>3. TypeInv'
    BY <2>1 DEF SecondPass, TypeInv, Depth, At, Neighbors, Entries
  <2>4. Expanding' /\ Leveled'
    BY <2>1, <2>2, LeveledKept DEF SecondPass, Expanding, Depth, At
  <2> QED
    BY <2>1, <2>2, <2>3, <2>4 DEF Inv, SecondPass
<1>6. ASSUME UNCHANGED vars PROVE Inv'
  <2>1. UNCHANGED <<edges, pass, work, in_cycle, idx, low, scc_stack, next_index, level, expanding>>
    BY <1>6 DEF vars
  <2>2. /\ \A u, x : Leads(u, x)' = Leads(u, x)
        /\ \A u : Neighbors(u)' = Neighbors(u) /\ Cyclic(u)' = Cyclic(u)
    BY <2>1, PathsKept
  <2>3. Visited' = Visited /\ Open' = Open /\ Depth' = Depth /\ \A i : At(i)' = At(i)
    BY <2>1 DEF Visited, Open, Range, Depth, At
  <2>4. Closed' = Closed /\ Entries' = Entries /\ \A i : Segment(i)' = Segment(i)
    BY <2>1, <2>3 DEF Closed, Entries, Segment
  <2>5. TypeInv => TypeInv'
    BY <2>1, <2>2, <2>3, <2>4 DEF TypeInv
  <2>6. CyclesInv => CyclesInv'
    BY <2>1, <2>2, <2>3, <2>4 DEF CyclesInv, Numbered, Explored, Linked, LowExact, Flagged
  <2>7. Expanding => Expanding'
    BY <2>1, <2>2, <2>3 DEF Expanding
  <2>8. Leveled => Leveled'
    BY <2>1, LeveledKept
  <2>9. FirstPass => FirstPass'
    BY <2>1, <2>5, <2>6 DEF FirstPass, Unleveled
  <2>10. SecondPass => SecondPass'
    BY <2>1, <2>2, <2>5, <2>7, <2>8 DEF SecondPass
  <2> QED
    BY <2>1, <2>9, <2>10 DEF Inv
<1> QED
  BY <1>1, <1>2, <1>3, <1>4, <1>5, <1>6 DEF Next, Done

LEMMA Invariance == Spec => []Inv
<1>1. Init => Inv
  BY FirstPassInit DEF Inv, Init
<1> QED
  BY <1>1, InvStep, PTL DEF Spec

\* For every graph, whatever order nodes and edges are taken in: the stacks of
\* nodes_in_cycles never run dry, it flags the nodes on cycles and no others, and
\* dependency_levels then meets no back edge.
THEOREM CyclesAreExact == Spec => []CyclesExact
<1>1. Inv => CyclesExact
  <2> SUFFICES ASSUME Inv PROVE CyclesExact
    OBVIOUS
  <2>1. OpenNodesStacked
    <3> SUFFICES ASSUME pass = "cycles" PROVE OpenNodesStacked
      BY DEF OpenNodesStacked
    <3>1. TypeInv /\ Numbered
      BY DEF Inv, FirstPass, CyclesInv
    <3>2. DOMAIN scc_stack = 1..Len(scc_stack) /\ \A v : OnStack(v) <=> v \in Open
      BY <3>1, OpenFacts
    <3>3. \A i \in 1..Len(work) : OnStack(work[i].node)
      BY <3>1, <3>2 DEF Numbered, Depth, At
    <3> QED
      BY <3>1, <3>2, <3>3 DEF OpenNodesStacked, Numbered
  <2>2. NoBackEdge
    BY NoneExpanding DEF Inv, NoBackEdge
  <2>3. pass # "cycles" => in_cycle = OnCycle(Node, edges)
    BY OnCycleCyclic DEF Inv, SecondPass
  <2> QED
    BY <2>1, <2>2, <2>3 DEF CyclesExact
<1> QED
  BY <1>1, Invariance, PTL

\* A function that gives every node one more than the largest value below it, and
\* smaller values below, is the height.
LEMMA HeightFacts ==
    ASSUME NEW N, NEW E, NEW l \in [N -> Nat],
           \A n \in N : l[n] = IF {m \in N : <<n, m>> \in E} = {} THEN 0
                               ELSE 1 + Max({l[m] : m \in {m \in N : <<n, m>> \in E}}),
           \A n, m \in N : <<n, m>> \in E => l[m] < l[n]
    PROVE  Height(N, E) = l
<1> DEFINE next(n) == {m \in N : <<n, m>> \in E}
           Value(h, n) == IF next(n) = {} THEN 0 ELSE 1 + Max({h[m] : m \in next(n)})
           h == Height(N, E)
<1>1. l = [n \in N |-> Value(l, n)]
  OBVIOUS
<1>2. h = [n \in N |-> Value(h, n)]
  <2>1. Height(N, E) = CHOOSE f : f = [n \in N |-> Value(f, n)]
    BY DEF Height
  <2> HIDE DEF Value
  <2> QED
    BY <1>1, <2>1
<1> SUFFICES ASSUME {n \in N : h[n] # l[n]} # {} PROVE FALSE
  <2>1. Height(N, E) = h
    OBVIOUS
  <2>2. h = [n \in N |-> h[n]]
    <3> HIDE DEF h, Value
    <3> QED
      BY <1>2
  <2> SUFFICES ASSUME \A n \in N : h[n] = l[n] PROVE h = l
    OBVIOUS
  <2> HIDE DEF h, Value
  <2> QED
    BY <2>2
<1> DEFINE values == {l[n] : n \in {n \in N : h[n] # l[n]}}
<1>3. values \subseteq Nat /\ values # {}
  OBVIOUS
<1>4. PICK least \in values : \A k \in values : least <= k
  <2> HIDE DEF values
  <2> QED
    BY <1>3, SmallestNumber
<1>5. PICK n \in N : h[n] # l[n] /\ least = l[n]
  BY <1>4
<1>6. ASSUME NEW m \in next(n) PROVE h[m] = l[m]
  <2>1. l[m] \in Nat /\ l[n] \in Nat /\ l[m] < l[n]
    BY <1>5
  <2>2. l[m] \notin values
    <3> SUFFICES ASSUME l[m] \in values PROVE FALSE
      OBVIOUS
    <3>1. l[n] <= l[m]
      BY <1>4, <1>5
    <3> QED
      BY <2>1, <3>1
  <2> QED
    BY <2>2
<1>7. {h[m] : m \in next(n)} = {l[m] : m \in next(n)}
  BY <1>6
<1>8. Value(h, n) = Value(l, n)
  BY <1>7
<1>9. h[n] = Value(h, n) /\ l[n] = Value(l, n)
  <2> HIDE DEF Value, h
  <2> QED
    BY <1>1, <1>2
<1> QED
  BY <1>5, <1>8, <1>9

LEMMA SecondPassHeights ==
    ASSUME SecondPass, pass = "done"
    PROVE  LevelsAreHeights
<1> DEFINE open == Node \ in_cycle
           E == {e \in edges : e[1] \in open /\ e[2] \in open}
           l == [v \in open |-> level[v]]
           next(v) == {m \in open : <<v, m>> \in E}
<1>1. TypeInv /\ Leveled /\ (\A v \in open : level[v] # Unset) /\ in_cycle \subseteq Node
  BY DEF SecondPass, TypeInv
<1>2. /\ level \in [Node -> Int] /\ open \subseteq Node
      /\ \A v \in Node : (level[v] # Unset) = (v \in open)
      /\ \A v \in open : level[v] \in Nat /\ level[v] = LevelOf(v)
  BY <1>1 DEF TypeInv, Leveled
<1>3. l \in [open -> Nat]
  BY <1>2
<1>4. \A v \in open : next(v) = Below(v)
  BY <1>2 DEF Below, Neighbors
<1>5. ASSUME NEW v \in open PROVE l[v] = IF next(v) = {} THEN 0 ELSE 1 + Max({l[m] : m \in next(v)})
  <2>1. /\ LevelOf(v) \in Nat /\ \A u \in Below(v) : level[u] < LevelOf(v)
        /\ LevelOf(v) = 0 \/ \E u \in Below(v) : LevelOf(v) = level[u] + 1
    BY <1>1, <1>2, LevelOfFacts
  <2>2. l[v] = LevelOf(v) /\ next(v) = Below(v) /\ \A m \in Below(v) : m \in open /\ l[m] = level[m] /\ level[m] \in Nat
    BY <1>2, <1>4
  <2> HIDE DEF l, next, open
  <2>3. CASE Below(v) = {}
    BY <2>1, <2>2, <2>3
  <2>4. CASE Below(v) # {}
    <3>1. LevelOf(v) # 0
      BY <2>1, <2>2, <2>4
    <3>2. PICK u \in Below(v) : LevelOf(v) = level[u] + 1
      BY <2>1, <3>1
    <3> DEFINE S == {l[m] : m \in next(v)}
    <3>3. level[u] \in S /\ S \subseteq Nat
      BY <2>2, <3>2
    <3>4. \A k \in S : level[u] >= k
      <4>1. \A m \in Below(v) : level[u] >= level[m]
        BY <2>1, <2>2, <3>2
      <4> QED
        BY <2>2, <4>1
    <3> HIDE DEF S
    <3>5. Max(S) \in S /\ \A k \in S : Max(S) >= k
      BY <3>3, <3>4 DEF Max
    <3>6. Max(S) = level[u]
      <4>1. Max(S) \in Nat /\ level[u] \in Nat /\ Max(S) >= level[u] /\ level[u] >= Max(S)
        BY <3>3, <3>4, <3>5
      <4> QED
        BY <4>1
    <3> QED
      BY <2>2, <2>4, <3>2, <3>6 DEF S
  <2> QED
    BY <2>3, <2>4
<1>6. ASSUME NEW v \in open, NEW m \in open, <<v, m>> \in E PROVE l[m] < l[v]
  <2>1. m \in Below(v)
    BY <1>4, <1>6
  <2>2. level[m] < LevelOf(v)
    BY <1>1, <1>2, <2>1, LevelOfFacts
  <2> QED
    BY <1>2, <2>2
<1>7. Height(open, E) = l
  <2> HIDE DEF l, E, open
  <2> QED
    BY <1>3, <1>5, <1>6, HeightFacts DEF next
<1>8. level = [v \in Node |-> IF v \in open THEN l[v] ELSE Unset]
  BY <1>2
<1> QED
  BY <1>7, <1>8 DEF LevelsAreHeights

\* The safety half of LevelsExact: when dependency_levels is over, a node outside the
\* cycles has the length of the longest path of such nodes below it as its level,
\* for every graph and whatever order its nodes and edges are taken in.
THEOREM LevelsAreExact == Spec => [](pass = "done" => LevelsAreHeights)
<1>1. Inv => (pass = "done" => LevelsAreHeights)
  BY SecondPassHeights DEF Inv
<1> QED
  BY <1>1, Invariance, PTL
\* An edge, then any number of edges.
ReachesFrom(v) == Reached(Succ, Succ[v])

\* The nodes reached from a node by at least one edge: a transitive relation, and
\* the nodes on cycles are those it joins to themselves.
LEMMA ReachesFacts ==
    ASSUME NEW v \in Node
    PROVE  /\ Neighbors(v) \subseteq ReachesFrom(v) /\ ReachesFrom(v) \subseteq Node
           /\ \A w \in ReachesFrom(v) : ReachesFrom(w) \subseteq ReachesFrom(v)
           /\ v \in ReachesFrom(v) <=> Cyclic(v)
<1>1. \A w \in Node : Succ[w] = Neighbors(w) /\ Succ[w] \in SUBSET Node
  BY DEF Succ, Neighbors
<1>2. /\ Neighbors(v) \subseteq ReachesFrom(v) /\ ReachesFrom(v) \subseteq Node
      /\ \A w \in ReachesFrom(v) : Neighbors(w) \subseteq ReachesFrom(v)
  BY <1>1, ReachedFacts DEF ReachesFrom
<1>3. ASSUME NEW w \in ReachesFrom(v) PROVE ReachesFrom(w) \subseteq ReachesFrom(v)
  <2>1. Succ[w] \in SUBSET Node /\ Succ[w] \subseteq ReachesFrom(v)
    BY <1>1, <1>2, <1>3
  <2> QED
    BY <1>2, <2>1, ReachedFacts DEF ReachesFrom
<1> QED
  BY <1>2, <1>3 DEF ReachesFrom, Cyclic

\* What the precompute of the verdicts rests on, for every graph: levels that fall
\* along every edge between unsettled nodes, and settled nodes that break every
\* chain of calls from a function back to itself.
THEOREM LevelsOrderCallees == Spec => [](pass = "done" => LevelsDescend)
<1>1. ASSUME SecondPass, pass = "done" PROVE LevelsDescend
  <2> DEFINE R == {e \in Node \X Node : e[2] \in ReachesFrom(e[1])}
  <2>1. /\ TypeInv /\ Leveled /\ in_cycle = {v \in Node : Cyclic(v)}
        /\ \A v \in Node \ in_cycle : level[v] # Unset
    BY <1>1 DEF SecondPass
  <2>2. edges \subseteq Node \X Node
    BY <2>1, EdgeSetsAssumption DEF TypeInv
  <2>3. \A v \in Node \ in_cycle : level[v] \in Nat /\ level[v] = LevelOf(v)
    BY <2>1 DEF Leveled
  <2>4. ASSUME NEW a \in Node \ in_cycle, NEW b \in Node \ in_cycle, <<a, b>> \in edges
        PROVE  level[b] < level[a]
    <3>1. b \in Below(a)
      BY <2>1, <2>4 DEF Below, Neighbors
    <3> QED
      BY <2>1, <2>3, <3>1, LevelOfFacts
  <2>5. edges \subseteq R
    <3> SUFFICES ASSUME NEW e \in edges PROVE e \in R
      OBVIOUS
    <3>1. e \in Node \X Node /\ e[1] \in Node /\ e[2] \in Node /\ e = <<e[1], e[2]>>
      BY <2>2
    <3>2. e[2] \in Neighbors(e[1])
      BY <3>1 DEF Neighbors
    <3> QED
      BY <3>1, <3>2, ReachesFacts
  <2>6. \A a, b, c : <<a, b>> \in R /\ <<b, c>> \in R => <<a, c>> \in R
    BY ReachesFacts
  <2>7. \A v \in Node : <<v, v>> \in R => v \in in_cycle
    BY <2>1, ReachesFacts
  <2>8. R \in SUBSET (Node \X Node)
    OBVIOUS
  <2> HIDE DEF R
  <2> QED
    BY <2>3, <2>4, <2>5, <2>6, <2>7, <2>8 DEF LevelsDescend
<1>2. Inv => (pass = "done" => LevelsDescend)
  BY <1>1 DEF Inv
<1> QED
  BY <1>2, Invariance, PTL

=============================================================================
