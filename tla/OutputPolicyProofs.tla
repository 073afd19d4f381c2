-------------------------- MODULE OutputPolicyProofs --------------------------
(***************************************************************************)
(* Proofs about the lazy-eligibility policy, for any program and any number*)
(* of tasks: where chains of re-exports lead, which modules have an entry, *)
(* and that import cycles, the ways into them and the ways to implicit     *)
(* imports are guarded.                                                    *)
(***************************************************************************)
EXTENDS OutputPolicy, FiniteSetTheorems, WellFoundedInduction, TLAPS

-----------------------------------------------------------------------------
(* Reachability.                                                            *)

LEMMA ReachedClosed ==
    ASSUME NEW N, NEW next \in [N -> SUBSET N], NEW from \in SUBSET N
    PROVE  /\ Reached(next, from) \subseteq N
           /\ from \subseteq Reached(next, from)
           /\ \A n \in Reached(next, from) : next[n] \subseteq Reached(next, from)
  BY DEF Reached

LEMMA ReachedLeast ==
    ASSUME NEW N, NEW next \in [N -> SUBSET N], NEW from \in SUBSET N,
           NEW seen \in SUBSET N, from \subseteq seen, \A m \in seen : next[m] \subseteq seen
    PROVE  Reached(next, from) \subseteq seen
  BY DEF Reached

-----------------------------------------------------------------------------
(* Where a chain of re-exports leads.                                       *)

Links == [b \in Attrs |-> IF b \in DOMAIN re_exports THEN {re_exports[b]} ELSE {}]

Ends(a) == Reached(Links, {a}) \ DOMAIN re_exports

ReExportsOK == DOMAIN re_exports \subseteq Attrs /\ re_exports \in [DOMAIN re_exports -> Attrs]

LEMMA LinksType == ASSUME ReExportsOK PROVE Links \in [Attrs -> SUBSET Attrs]
  BY DEF ReExportsOK, Links

LEMMA ResolveByEnds ==
    ASSUME NEW a
    PROVE  ResolveChain(a) = IF Ends(a) = {} THEN NoModule ELSE Home[CHOOSE e \in Ends(a) : TRUE]
  BY DEF ResolveChain, Ends, Links

LEMMA ResolveStep ==
    ASSUME ReExportsOK, NEW a \in DOMAIN re_exports
    PROVE  ResolveChain(a) = ResolveChain(re_exports[a])
<1> DEFINE b == re_exports[a]
<1>1. Links \in [Attrs -> SUBSET Attrs] /\ a \in Attrs /\ b \in Attrs /\ Links[a] = {b}
  BY LinksType DEF ReExportsOK, Links
<1>2. /\ Reached(Links, {a}) \subseteq Attrs
      /\ a \in Reached(Links, {a})
      /\ \A n \in Reached(Links, {a}) : Links[n] \subseteq Reached(Links, {a})
  BY <1>1, ReachedClosed
<1>3. /\ Reached(Links, {b}) \subseteq Attrs
      /\ b \in Reached(Links, {b})
      /\ \A n \in Reached(Links, {b}) : Links[n] \subseteq Reached(Links, {b})
  BY <1>1, ReachedClosed
<1>4. Reached(Links, {b}) \subseteq Reached(Links, {a})
  BY <1>1, <1>2, ReachedLeast
<1>5. Reached(Links, {a}) \subseteq {a} \cup Reached(Links, {b})
  <2> DEFINE seen == {a} \cup Reached(Links, {b})
  <2>1. seen \in SUBSET Attrs /\ {a} \subseteq seen /\ \A m \in seen : Links[m] \subseteq seen
    BY <1>1, <1>3
  <2>2. Reached(Links, {a}) \subseteq seen
    <3> HIDE DEF seen
    <3> QED
      BY <1>1, <2>1, ReachedLeast
  <2> QED
    BY <2>2
<1>6. Ends(a) = Ends(b)
  BY <1>4, <1>5 DEF Ends
<1> QED
  BY <1>6, ResolveByEnds

LEMMA ResolveEnd ==
    ASSUME ReExportsOK, NEW a \in Attrs \ DOMAIN re_exports
    PROVE  ResolveChain(a) = Home[a]
<1>1. Links \in [Attrs -> SUBSET Attrs] /\ Links[a] = {}
  BY LinksType DEF Links
<1>2. a \in Reached(Links, {a})
  BY <1>1, ReachedClosed
<1>3. Reached(Links, {a}) \subseteq {a}
  BY <1>1, ReachedLeast
<1>4. Ends(a) = {a}
  BY <1>2, <1>3 DEF Ends
<1> QED
  BY <1>4, ResolveByEnds

LEMMA ResolveCycle ==
    ASSUME ReExportsOK, NEW seen \in SUBSET DOMAIN re_exports, NEW a \in seen,
           \A b \in seen : re_exports[b] \in seen
    PROVE  ResolveChain(a) = NoModule
<1>1. Links \in [Attrs -> SUBSET Attrs] /\ seen \in SUBSET Attrs
  BY LinksType DEF ReExportsOK
<1>2. \A b \in seen : Links[b] \subseteq seen
  BY DEF Links, ReExportsOK
<1>3. Reached(Links, {a}) \subseteq seen
  BY <1>1, <1>2, ReachedLeast
<1>4. Ends(a) = {}
  BY <1>3 DEF Ends
<1> QED
  BY <1>4, ResolveByEnds

LEMMA ResolveType ==
    ASSUME ReExportsOK, NEW a \in Attrs
    PROVE  ResolveChain(a) \in Modules \cup {NoModule}
<1>1. Ends(a) \subseteq Attrs
  BY LinksType, ReachedClosed DEF Ends
<1> QED
  BY <1>1, ResolveByEnds, HomeAssumption

-----------------------------------------------------------------------------
(* The tasks that follow chains.                                            *)

\* Of the task t: what it walked leads where it is.
WalkExact(t) ==
    \A c \in cur[t] : \A a \in start[t] \cup visited[t] :
        a \in DOMAIN re_exports /\ re_exports[a] \in visited[t] \cup {c} /\ ResolveChain(a) = ResolveChain(c)

TaskInv(t) ==
    /\ start[t] = {} \/ \E a \in DOMAIN re_exports \ untaken : start[t] = {a}
    /\ cur[t] = {} \/ \E c \in Attrs : cur[t] = {c}
    /\ start[t] = {} <=> cur[t] = {}
    /\ path[t] = visited[t]
    /\ visited[t] \subseteq DOMAIN re_exports
    /\ DOMAIN memo[t] \subseteq DOMAIN re_exports
    /\ \A a \in DOMAIN memo[t] : memo[t][a] = ResolveChain(a)
    /\ WalkExact(t)

\* What the tasks have found, and that nobody's re-export is forgotten.
MapInv ==
    /\ \A t \in Tasks : \A f \in map[t] :
          \E a \in DOMAIN re_exports : f = <<Home[a], ResolveChain(a)>> /\ f[2] \in failing_modules
    /\ stage = "re_exports" =>
          \A a \in DOMAIN re_exports \ untaken :
              \/ \E t \in Tasks : start[t] = {a}
              \/ ResolveChain(a) \in failing_modules =>
                    \E t \in Tasks : <<Home[a], ResolveChain(a)>> \in map[t]

ScratchType ==
    /\ start \in [Tasks -> SUBSET Attrs] /\ cur \in [Tasks -> SUBSET Attrs]
    /\ path \in [Tasks -> SUBSET Attrs] /\ visited \in [Tasks -> SUBSET Attrs]
    /\ DOMAIN memo = Tasks /\ DOMAIN map = Tasks
    /\ memo = [t \in Tasks |-> memo[t]] /\ map = [t \in Tasks |-> map[t]]

ChainInv ==
    /\ prog \in Programs /\ re_exports = prog.re_exports /\ failing_modules = prog.failing
    /\ ReExportsOK
    /\ untaken \subseteq DOMAIN re_exports
    /\ ScratchType
    /\ \A t \in Tasks : TaskInv(t)
    /\ MapInv

LEMMA ResolveKept ==
    ASSUME re_exports' = re_exports
    PROVE  \A a : ResolveChain(a)' = ResolveChain(a)
  BY DEF ResolveChain

LEMMA RecordedFacts ==
    ASSUME NEW m, NEW a, NEW source
    PROVE  /\ m \subseteq Recorded(m, a, source)
           /\ source \in failing_modules => <<Home[a], source>> \in Recorded(m, a, source)
           /\ \A f \in Recorded(m, a, source) :
                 f \in m \/ (f = <<Home[a], source>> /\ source \in failing_modules)
<1>1. CASE source \in failing_modules
  <2>1. Recorded(m, a, source) = m \cup {<<Home[a], source>>}
    BY <1>1 DEF Recorded
  <2> QED
    BY <1>1, <2>1
<1>2. CASE source \notin failing_modules
  <2>1. Recorded(m, a, source) = m
    BY <1>2 DEF Recorded
  <2> QED
    BY <1>2, <2>1
<1> QED
  BY <1>1, <1>2

LEMMA StartStep ==
    ASSUME ChainInv, stage = "re_exports", UNCHANGED <<prog, stage>>,
           NEW t \in Tasks, NEW a \in Attrs, StartChain(t, a)
    PROVE  ChainInv'
<1> DEFINE known == a \in DOMAIN memo[t]
<1>1. /\ re_exports' = re_exports /\ failing_modules' = failing_modules /\ memo' = memo
      /\ a \in untaken /\ untaken' = untaken \ {a} /\ start[t] = {} /\ a \in DOMAIN re_exports
  BY DEF StartChain, ChainInv
<1>2. \A b : ResolveChain(b)' = ResolveChain(b)
  BY <1>1, ResolveKept
<1>3. re_exports[a] \in Attrs /\ ResolveChain(a) = ResolveChain(re_exports[a])
  BY <1>1, ResolveStep DEF ChainInv, ReExportsOK
<1>4. CASE known
  <2>1. /\ map' = [map EXCEPT ![t] = Recorded(@, a, memo[t][a])]
        /\ UNCHANGED <<start, cur, path, visited>>
    BY <1>4 DEF StartChain
  <2>2. memo[t][a] = ResolveChain(a)
    BY <1>4 DEF ChainInv, TaskInv
  <2>3. map' = [u \in Tasks |-> IF u = t THEN Recorded(map[t], a, ResolveChain(a)) ELSE map[u]]
    BY <2>1, <2>2 DEF ChainInv, ScratchType
  <2>4. ScratchType'
    BY <1>1, <2>1, <2>3 DEF ChainInv, ScratchType
  <2>5. \A u \in Tasks : TaskInv(u)'
    BY <1>1, <1>2, <2>1 DEF ChainInv, TaskInv, WalkExact
  <2>6. MapInv'
    <3>1. \A u \in Tasks : map[u] \subseteq map'[u]
      BY <2>3 DEF Recorded
    <3>2. ResolveChain(a) \in failing_modules => <<Home[a], ResolveChain(a)>> \in map'[t]
      BY <2>3 DEF Recorded
    <3>3. \A u \in Tasks : \A f \in map'[u] :
             f \in map[u] \/ (f = <<Home[a], ResolveChain(a)>> /\ ResolveChain(a) \in failing_modules)
      <4>1. map'[t] = Recorded(map[t], a, ResolveChain(a))
            /\ \A u \in Tasks \ {t} : map'[u] = map[u]
        BY <2>3
      <4>2. \A f \in Recorded(map[t], a, ResolveChain(a)) :
               f \in map[t] \/ (f = <<Home[a], ResolveChain(a)>> /\ ResolveChain(a) \in failing_modules)
        BY RecordedFacts
      <4> QED
        BY <4>1, <4>2
    <3>4. \A u \in Tasks : \A f \in map'[u] :
             \E b \in DOMAIN re_exports : f = <<Home[b], ResolveChain(b)>> /\ f[2] \in failing_modules
      BY <1>1, <3>3 DEF ChainInv, MapInv
    <3>5. \A b \in DOMAIN re_exports \ untaken' :
             \/ \E u \in Tasks : start[u] = {b}
             \/ ResolveChain(b) \in failing_modules =>
                   \E u \in Tasks : <<Home[b], ResolveChain(b)>> \in map'[u]
      BY <1>1, <3>1, <3>2 DEF ChainInv, MapInv
    <3> QED
      BY <1>1, <1>2, <2>1, <3>4, <3>5 DEF MapInv
  <2> QED
    BY <1>1, <2>4, <2>5, <2>6 DEF ChainInv, ReExportsOK
<1>5. CASE ~known
  <2>1. /\ start' = [start EXCEPT ![t] = {a}] /\ cur' = [cur EXCEPT ![t] = {re_exports[a]}]
        /\ path' = [path EXCEPT ![t] = {}] /\ visited' = [visited EXCEPT ![t] = {}]
        /\ map' = map
    BY <1>5 DEF StartChain
  <2>2. ScratchType'
    BY <1>1, <1>3, <2>1 DEF ChainInv, ScratchType
  <2>3. \A u \in Tasks \ {t} : TaskInv(u)'
    <3> SUFFICES ASSUME NEW u \in Tasks \ {t} PROVE TaskInv(u)'
      OBVIOUS
    <3>1. start'[u] = start[u] /\ cur'[u] = cur[u] /\ path'[u] = path[u] /\ visited'[u] = visited[u]
      BY <2>1 DEF ChainInv, ScratchType
    <3>2. start[u] # {a}
      BY <1>1 DEF ChainInv, TaskInv
    <3> QED
      BY <1>1, <1>2, <3>1, <3>2 DEF ChainInv, TaskInv, WalkExact
  <2>4. TaskInv(t)'
    <3>1. start'[t] = {a} /\ cur'[t] = {re_exports[a]} /\ path'[t] = {} /\ visited'[t] = {}
      BY <2>1 DEF ChainInv, ScratchType
    <3>2. WalkExact(t)'
      BY <1>1, <1>2, <1>3, <3>1 DEF WalkExact
    <3> QED
      BY <1>1, <1>2, <1>3, <3>1, <3>2 DEF ChainInv, TaskInv
  <2>5. MapInv'
    <3>1. \A u \in Tasks : u # t => start'[u] = start[u]
      BY <2>1 DEF ChainInv, ScratchType
    <3>2. start'[t] = {a}
      BY <2>1 DEF ChainInv, ScratchType
    <3> QED
      BY <1>1, <1>2, <2>1, <3>1, <3>2 DEF ChainInv, MapInv
  <2> QED
    BY <1>1, <2>2, <2>3, <2>4, <2>5 DEF ChainInv, ReExportsOK
<1> QED
  BY <1>4, <1>5

LEMMA HopStep ==
    ASSUME ChainInv, UNCHANGED <<prog, stage>>,
           NEW t \in Tasks, NEW c \in Attrs, Hop(t, c)
    PROVE  ChainInv'
<1>1. /\ UNCHANGED <<re_exports, failing_modules, untaken, start, memo, map>>
      /\ cur[t] = {c} /\ c \in DOMAIN re_exports
      /\ visited' = [visited EXCEPT ![t] = @ \cup {c}]
      /\ path' = [path EXCEPT ![t] = @ \cup {c}]
      /\ cur' = [cur EXCEPT ![t] = {re_exports[c]}]
  BY DEF Hop, Follow
<1>2. \A b : ResolveChain(b)' = ResolveChain(b)
  BY <1>1, ResolveKept
<1>3. re_exports[c] \in Attrs /\ ResolveChain(c) = ResolveChain(re_exports[c])
  BY <1>1, ResolveStep DEF ChainInv, ReExportsOK
<1>4. ScratchType'
  BY <1>1, <1>3 DEF ChainInv, ScratchType
<1>5. ASSUME NEW u \in Tasks \ {t} PROVE TaskInv(u)'
  <2>1. cur'[u] = cur[u] /\ path'[u] = path[u] /\ visited'[u] = visited[u]
    BY <1>1, <1>5 DEF ChainInv, ScratchType
  <2> QED
    BY <1>1, <1>2, <2>1 DEF ChainInv, TaskInv, WalkExact
<1>6. TaskInv(t)'
  <2>1. /\ cur'[t] = {re_exports[c]} /\ path'[t] = path[t] \cup {c} /\ visited'[t] = visited[t] \cup {c}
    BY <1>1 DEF ChainInv, ScratchType
  <2>2. WalkExact(t)'
    BY <1>1, <1>2, <1>3, <2>1 DEF ChainInv, TaskInv, WalkExact
  <2> QED
    BY <1>1, <1>2, <1>3, <2>1, <2>2 DEF ChainInv, TaskInv
<1>7. MapInv'
  BY <1>1, <1>2 DEF ChainInv, MapInv
<1> QED
  BY <1>1, <1>4, <1>5, <1>6, <1>7 DEF ChainInv, ReExportsOK

\* The result the loop breaks with is where the chain leads.
LEMMA ResultExact ==
    ASSUME ChainInv, NEW t \in Tasks, NEW c \in Attrs, cur[t] = {c}, ~Follow(t, c)
    PROVE  Result(t, c) = ResolveChain(c)
<1>1. CASE c \in DOMAIN memo[t]
  BY <1>1 DEF Result, ChainInv, TaskInv
<1>2. CASE c \notin DOMAIN memo[t] /\ c \in visited[t]
  <2>1. visited[t] \subseteq DOMAIN re_exports /\ \A b \in visited[t] : re_exports[b] \in visited[t]
    BY <1>2 DEF ChainInv, TaskInv, WalkExact
  <2>2. ResolveChain(c) = NoModule
    BY <1>2, <2>1, ResolveCycle DEF ChainInv
  <2> QED
    BY <1>2, <2>2 DEF Result
<1>3. CASE c \notin DOMAIN memo[t] /\ c \notin visited[t]
  <2>1. c \notin DOMAIN re_exports
    BY <1>3 DEF Follow
  <2>2. ResolveChain(c) = Home[c]
    BY <2>1, ResolveEnd DEF ChainInv
  <2> QED
    BY <1>3, <2>2 DEF Result
<1> QED
  BY <1>1, <1>2, <1>3

LEMMA EndStep ==
    ASSUME ChainInv, stage = "re_exports", UNCHANGED <<prog, stage>>,
           NEW t \in Tasks, NEW c \in Attrs, EndChain(t, c)
    PROVE  ChainInv'
<1> DEFINE result == ResolveChain(c)
           known == start[t] \cup path[t]
<1>1. /\ UNCHANGED <<re_exports, failing_modules, untaken, path, visited>>
      /\ cur[t] = {c} /\ ~Follow(t, c)
      /\ start' = [start EXCEPT ![t] = {}] /\ cur' = [cur EXCEPT ![t] = {}]
  BY DEF EndChain
<1>2. \A b : ResolveChain(b)' = ResolveChain(b)
  BY <1>1, ResolveKept
<1>3. Result(t, c) = result
  BY <1>1, ResultExact
<1>4. PICK a \in DOMAIN re_exports \ untaken : start[t] = {a}
  BY <1>1 DEF ChainInv, TaskInv
<1>5. memo' = [memo EXCEPT ![t] =
                 [b \in DOMAIN memo[t] \cup known |-> IF b \in known THEN result ELSE memo[t][b]]]
  BY <1>3 DEF EndChain
<1>6. map' = [map EXCEPT ![t] = Recorded(map[t], a, result)]
  BY <1>3, <1>4 DEF EndChain
<1>7. \A b \in known : b \in DOMAIN re_exports /\ ResolveChain(b) = result
  BY <1>1 DEF ChainInv, TaskInv, WalkExact
<1>8. /\ start'[t] = {} /\ cur'[t] = {}
      /\ memo'[t] = [b \in DOMAIN memo[t] \cup known |-> IF b \in known THEN result ELSE memo[t][b]]
      /\ map'[t] = Recorded(map[t], a, result)
  BY <1>1, <1>5, <1>6 DEF ChainInv, ScratchType
<1>9. \A u \in Tasks \ {t} :
         start'[u] = start[u] /\ cur'[u] = cur[u] /\ memo'[u] = memo[u] /\ map'[u] = map[u]
  BY <1>1, <1>5, <1>6 DEF ChainInv, ScratchType
<1>10. ScratchType'
  <2>1. DOMAIN memo' = Tasks /\ memo' = [u \in Tasks |-> memo'[u]]
    BY <1>5 DEF ChainInv, ScratchType
  <2>2. DOMAIN map' = Tasks /\ map' = [u \in Tasks |-> map'[u]]
    BY <1>6 DEF ChainInv, ScratchType
  <2> QED
    BY <1>1, <2>1, <2>2 DEF ChainInv, ScratchType
<1>11. \A u \in Tasks \ {t} : TaskInv(u)'
  BY <1>1, <1>2, <1>9 DEF ChainInv, TaskInv, WalkExact
<1>12. TaskInv(t)'
  <2>1. DOMAIN memo'[t] = DOMAIN memo[t] \cup known
    BY <1>8
  <2>2. \A b \in DOMAIN memo[t] : b \in DOMAIN re_exports /\ memo[t][b] = ResolveChain(b)
    BY DEF ChainInv, TaskInv
  <2>3. \A b \in DOMAIN memo'[t] : b \in DOMAIN re_exports /\ memo'[t][b] = ResolveChain(b)
    <3> HIDE DEF known, result
    <3> QED
      BY <1>7, <1>8, <2>1, <2>2
  <2> QED
    BY <1>1, <1>2, <1>8, <2>3 DEF ChainInv, TaskInv, WalkExact
<1>13. MapInv'
  <2>1. ResolveChain(a) = result
    BY <1>4, <1>7
  <2>2. /\ map[t] \subseteq map'[t]
        /\ result \in failing_modules => <<Home[a], result>> \in map'[t]
        /\ \A f \in map'[t] : f \in map[t] \/ (f = <<Home[a], result>> /\ result \in failing_modules)
    BY <1>8, RecordedFacts
  <2> HIDE DEF result, known
  <2>3. \A u \in Tasks : \A f \in map'[u] :
           \E b \in DOMAIN re_exports : f = <<Home[b], ResolveChain(b)>> /\ f[2] \in failing_modules
    BY <1>4, <1>9, <2>1, <2>2 DEF ChainInv, MapInv
  <2>4. ASSUME NEW b \in DOMAIN re_exports \ untaken
        PROVE  \/ \E u \in Tasks : start'[u] = {b}
               \/ ResolveChain(b) \in failing_modules =>
                     \E u \in Tasks : <<Home[b], ResolveChain(b)>> \in map'[u]
    <3>1. CASE b = a
      BY <2>1, <2>2, <3>1
    <3>2. CASE \E u \in Tasks \ {t} : start[u] = {b}
      BY <1>9, <3>2
    <3>3. CASE b # a /\ ~\E u \in Tasks \ {t} : start[u] = {b}
      <4>1. ~\E u \in Tasks : start[u] = {b}
        BY <1>4, <3>3
      <4>2. ResolveChain(b) \in failing_modules =>
               \E u \in Tasks : <<Home[b], ResolveChain(b)>> \in map[u]
        BY <2>4, <4>1 DEF ChainInv, MapInv
      <4> QED
        BY <1>9, <2>2, <4>2
    <3> QED
      BY <3>1, <3>2, <3>3
  <2> QED
    BY <1>1, <1>2, <2>3, <2>4 DEF MapInv
<1> QED
  BY <1>1, <1>10, <1>11, <1>12, <1>13 DEF ChainInv, ReExportsOK

-----------------------------------------------------------------------------
(* Types, and what a step adds to the guards.                               *)

Stages == {"re_exports", "scan", "cycles", "entries", "chains", "side_effects", "done"}

TypeInv ==
    /\ ChainInv
    /\ stage \in Stages
    /\ implicit_parents = ImplicitParents(prog)
    /\ cycles = CyclesOf(prog, implicit_parents)
    /\ re_export_map \in [Modules -> SUBSET prog.failing]
    /\ todo \subseteq IF stage = "entries" THEN cycles ELSE Modules
    /\ lazy_eligible \in [DOMAIN lazy_eligible -> SUBSET Modules]
    /\ DOMAIN lazy_eligible \subseteq prog.passing
    /\ has_failing_deps \subseteq prog.passing
    /\ stage = "chains" => todo \subseteq UNION {prog.implicit[m] : m \in prog.passing \cup prog.failing}
    /\ stage = "scan" => prog.passing \subseteq DOMAIN lazy_eligible \cup todo
    /\ stage \notin {"re_exports", "scan"} => prog.passing = DOMAIN lazy_eligible

\* A package and those it is in turn in.
LEMMA AncestorsFacts ==
    /\ Ancestors \in [Modules -> SUBSET Modules]
    /\ \A m \in Modules : m \notin Ancestors[m]
    /\ \A m \in Modules : Package[m] # NoModule =>
          Package[m] \in Ancestors[m] /\ Ancestors[Package[m]] \subseteq Ancestors[m]
<1> DEFINE up == [m \in Modules |-> {Package[m]} \ {NoModule}]
<1>1. up \in [Modules -> SUBSET Modules]
  BY NamesAssumption
<1>2. Ancestors = [m \in Modules |-> Reached(up, up[m])]
  BY DEF Ancestors
<1>3. ASSUME NEW m \in Modules
      PROVE  /\ Reached(up, up[m]) \subseteq Modules
             /\ up[m] \subseteq Reached(up, up[m])
             /\ \A a \in Reached(up, up[m]) : up[a] \subseteq Reached(up, up[m])
  <2> HIDE DEF up
  <2> QED
    BY <1>1, ReachedClosed
<1>4. ASSUME NEW m \in Modules, Package[m] # NoModule
      PROVE  Package[m] \in Ancestors[m] /\ Ancestors[Package[m]] \subseteq Ancestors[m]
  <2>1. up[m] = {Package[m]} /\ Package[m] \in Modules
    BY <1>4, NamesAssumption
  <2> HIDE DEF up
  <2>2. Package[m] \in Reached(up, up[m])
    BY <1>3, <2>1
  <2>3. Reached(up, up[Package[m]]) \subseteq Reached(up, up[m])
    <3>1. up[Package[m]] \subseteq Reached(up, up[m]) /\ Reached(up, up[m]) \subseteq Modules
          /\ \A a \in Reached(up, up[m]) : up[a] \subseteq Reached(up, up[m])
      BY <1>3, <2>2
    <3>2. up[Package[m]] \in SUBSET Modules
      BY <1>1, <2>1
    <3> QED
      BY <1>1, <3>1, <3>2, ReachedLeast
  <2> QED
    BY <1>2, <2>1, <2>2, <2>3
<1> QED
  <2> HIDE DEF up
  <2> QED
    BY <1>2, <1>3, <1>4, PackageAssumption

LEMMA ProgramFacts ==
    ASSUME NEW p \in Programs
    PROVE  /\ p.nodes \subseteq Modules
           /\ p.imports \in [Modules -> SUBSET p.nodes]
           /\ p.missing \in [Modules -> SUBSET (Modules \ p.nodes)]
           /\ p.passing \subseteq p.nodes /\ p.failing \subseteq p.nodes
           /\ p.passing \cap p.failing = {}
           /\ p.implicit \in [Modules -> SUBSET Modules]
           /\ p.side_effects \in [Modules -> SUBSET Modules]
           /\ ImplicitParents(p) \in [Modules -> SUBSET p.nodes]
           /\ \A parents : CyclesOf(p, parents) \subseteq SUBSET (p.passing \cup p.failing)
<1>1. IsProgram(p)
  BY ProgramsAssumption
<1>2. ImplicitParents(p) \in [Modules -> SUBSET p.nodes]
  BY DEF ImplicitParents
<1>3. \A parents : CyclesOf(p, parents) \subseteq SUBSET (p.passing \cup p.failing)
  BY DEF CyclesOf
<1> QED
  BY <1>1, <1>2, <1>3 DEF IsProgram

\* r has what l has, and the guards of the passing modules.
Joins(r, l, guards) ==
    /\ r = [n \in DOMAIN r |-> r[n]]
    /\ DOMAIN r = DOMAIN l \cup (DOMAIN guards \cap prog.passing)
    /\ \A n \in DOMAIN l : l[n] \subseteq r[n]
    /\ \A n \in DOMAIN guards \cap prog.passing : guards[n] \subseteq r[n]
    /\ \A n \in DOMAIN r : \A g \in r[n] :
          (n \in DOMAIN l /\ g \in l[n]) \/ (n \in DOMAIN guards /\ g \in guards[n])

LEMMA GuardedAllJoins ==
    ASSUME NEW l, NEW guards
    PROVE  Joins(GuardedAll(l, guards), l, guards)
  BY DEF GuardedAll, Joins

LEMMA GuardedJoins ==
    ASSUME NEW l, l = [n \in DOMAIN l |-> l[n]], NEW m, NEW guards
    PROVE  Joins(Guarded(l, m, guards), l, [n \in {m} |-> guards])
<1>1. CASE m \notin prog.passing
  BY <1>1 DEF Guarded, Joins
<1>2. CASE m \in prog.passing /\ m \in DOMAIN l
  <2>1. Guarded(l, m, guards) = [l EXCEPT ![m] = @ \cup guards]
    BY <1>2 DEF Guarded
  <2> QED
    BY <1>2, <2>1 DEF Joins
<1>3. CASE m \in prog.passing /\ m \notin DOMAIN l
  <2>1. Guarded(l, m, guards) = [n \in DOMAIN l \cup {m} |-> IF n = m THEN guards ELSE l[n]]
    BY <1>3 DEF Guarded
  <2> QED
    BY <1>3, <2>1 DEF Joins
<1> QED
  BY <1>1, <1>2, <1>3

LEMMA TypeInit == Init => TypeInv
<1> SUFFICES ASSUME Init PROVE TypeInv
  OBVIOUS
<1>1. prog \in Programs /\ re_exports = prog.re_exports /\ failing_modules = prog.failing
  BY DEF Init
<1>2. ReExportsOK
  <2>1. IsProgram(prog)
    BY <1>1, ProgramsAssumption
  <2>2. PICK exported \in SUBSET Attrs : re_exports \in [exported -> Attrs]
    BY <1>1, <2>1 DEF IsProgram
  <2> QED
    BY <2>2 DEF ReExportsOK
<1>3. /\ start = Idle /\ cur = Idle /\ path = Idle /\ visited = Idle /\ map = Idle
      /\ memo = NoMemo /\ untaken = DOMAIN re_exports
  BY DEF Init, EmptyScratch
<1>4. ScratchType
  BY <1>3 DEF ScratchType, Idle, NoMemo
<1>5. ASSUME NEW t \in Tasks PROVE TaskInv(t)
  <2>1. start[t] = {} /\ cur[t] = {} /\ path[t] = {} /\ visited[t] = {} /\ DOMAIN memo[t] = {}
    BY <1>3 DEF Idle, NoMemo
  <2> QED
    BY <2>1 DEF TaskInv, WalkExact
<1>6. MapInv
  BY <1>3 DEF MapInv, Idle
<1> QED
  BY <1>1, <1>2, <1>3, <1>4, <1>5, <1>6 DEF TypeInv, ChainInv, Init, Stages

LEMMA ChainsKept ==
    ASSUME ChainInv, UNCHANGED facts, stage # "re_exports", stage' # "re_exports"
    PROVE  ChainInv'
<1>1. UNCHANGED <<prog, re_exports, failing_modules, untaken, start, cur, path, visited, memo, map>>
  BY DEF facts, chainVars, scratch
<1>2. \A b : ResolveChain(b)' = ResolveChain(b)
  BY <1>1, ResolveKept
<1>3. MapInv'
  BY <1>1, <1>2 DEF ChainInv, MapInv
<1>4. \A t \in Tasks : TaskInv(t)'
  BY <1>1, <1>2 DEF ChainInv, TaskInv, WalkExact
<1> QED
  BY <1>1, <1>3, <1>4 DEF ChainInv, ScratchType, ReExportsOK

\* What every step but the two that follow chains leaves alone.
LaterStep ==
    \/ \E m \in Modules :
          Scan(m) \/ AddCycleDeps(m) \/ GuardChains(m) \/ PropagateSideEffects(m)
    \/ \E cycle \in cycles : AddEntryGuards(cycle)
    \/ BeginCycles \/ BeginEntries \/ AddImplicit \/ BeginSideEffects \/ Finish

LEMMA LaterStepFacts ==
    ASSUME LaterStep
    PROVE  /\ UNCHANGED <<facts, prog, implicit_parents, cycles, re_export_map>>
           /\ stage # "re_exports" /\ stage' # "re_exports"
  BY DEF LaterStep, Scan, AddCycleDeps, GuardChains, PropagateSideEffects, AddEntryGuards, BeginCycles,
         BeginEntries, AddImplicit, BeginSideEffects, Finish, facts

LEMMA ChainStepKeeps == ChainInv /\ [Next]_vars => ChainInv'
<1> SUFFICES ASSUME ChainInv, [Next]_vars PROVE ChainInv'
  OBVIOUS
<1>1. CASE FollowReExports
  BY <1>1, StartStep, HopStep, EndStep DEF FollowReExports, ChainStep
<1>2. CASE UniteMaps
  <2>1. /\ start' = Idle /\ cur' = Idle /\ path' = Idle /\ visited' = Idle /\ map' = Idle
        /\ memo' = NoMemo /\ UNCHANGED <<prog, re_exports, failing_modules, untaken>>
        /\ stage' # "re_exports"
    BY <1>2 DEF UniteMaps, ForgetScratch
  <2>2. ScratchType'
    BY <2>1 DEF ScratchType, Idle, NoMemo
  <2>3. ASSUME NEW t \in Tasks PROVE TaskInv(t)'
    <3>1. start'[t] = {} /\ cur'[t] = {} /\ path'[t] = {} /\ visited'[t] = {} /\ DOMAIN memo'[t] = {}
      BY <2>1 DEF Idle, NoMemo
    <3> QED
      BY <3>1 DEF TaskInv, WalkExact
  <2>4. MapInv'
    BY <2>1 DEF MapInv, Idle
  <2> QED
    BY <2>1, <2>2, <2>3, <2>4 DEF ChainInv, ReExportsOK
<1>3. CASE LaterStep
  BY <1>3, LaterStepFacts, ChainsKept
<1>4. CASE UNCHANGED vars
  <2>1. UNCHANGED <<prog, stage, re_exports, failing_modules, untaken, start, cur, path, visited, memo, map>>
    BY <1>4 DEF vars, facts, chainVars, scratch
  <2>2. \A b : ResolveChain(b)' = ResolveChain(b)
    BY <2>1, ResolveKept
  <2>3. MapInv' /\ \A t \in Tasks : TaskInv(t)'
    BY <2>1, <2>2 DEF ChainInv, MapInv, TaskInv, WalkExact
  <2> QED
    BY <2>1, <2>3 DEF ChainInv, ScratchType, ReExportsOK
<1> QED
  BY <1>1, <1>2, <1>3, <1>4 DEF Next, Step, Done, LaterStep

LEMMA SmallestNumber ==
    ASSUME NEW T, T \subseteq Nat, T # {}
    PROVE  \E n \in T : \A m \in T : n <= m
<1> DEFINE R == OpToRel(<, Nat)
<1>1. IsWellFoundedOn(R, Nat)
  BY NatLessThanWellFounded
<1>2. \A a, b \in Nat : a < b => <<a, b>> \in R
  BY DEF OpToRel
<1> HIDE DEF R
<1>3. PICK n \in T : \A m \in T : <<m, n>> \notin R
  BY <1>1, WFMin
<1>4. ASSUME NEW m \in T PROVE n <= m
  <2>1. m \in Nat /\ n \in Nat /\ ~(m < n)
    BY <1>2, <1>3
  <2> QED
    BY <2>1
<1> QED
  BY <1>4

LEMMA AncestorsTransitive ==
    ASSUME NEW m \in Modules, NEW a \in Ancestors[m]
    PROVE  a \in Modules /\ Ancestors[a] \subseteq Ancestors[m]
<1> DEFINE up == [n \in Modules |-> {Package[n]} \ {NoModule}]
<1>1. up \in [Modules -> SUBSET Modules]
  BY NamesAssumption
<1>2. Ancestors = [n \in Modules |-> Reached(up, up[n])]
  BY DEF Ancestors
<1> HIDE DEF up
<1>3. /\ Reached(up, up[m]) \subseteq Modules
      /\ \A b \in Reached(up, up[m]) : up[b] \subseteq Reached(up, up[m])
  BY <1>1, ReachedClosed
<1>4. a \in Modules /\ up[a] \subseteq Reached(up, up[m]) /\ up[a] \in SUBSET Modules
  BY <1>1, <1>2, <1>3
<1>5. Reached(up, up[a]) \subseteq Reached(up, up[m])
  BY <1>1, <1>3, <1>4, ReachedLeast
<1> QED
  BY <1>2, <1>4, <1>5

\* Of the packages of m that are in a cycle, one is in no other of them.
LEMMA OutermostExists ==
    ASSUME NEW m \in Modules, NEW cycle, Ancestors[m] \cap cycle # {}
    PROVE  \E a \in Ancestors[m] \cap cycle : Ancestors[a] \cap cycle = {}
<1> DEFINE above == Ancestors[m] \cap cycle
           sizes == {Cardinality(Ancestors[a]) : a \in above}
<1>1. \A a \in above : a \in Modules /\ Ancestors[a] \in SUBSET Modules
  BY AncestorsTransitive, AncestorsFacts
<1>2. \A a \in above : IsFiniteSet(Ancestors[a]) /\ Cardinality(Ancestors[a]) \in Nat
  BY <1>1, NamesAssumption, FS_Subset, FS_CardinalityType
<1>3. PICK n \in sizes : \A k \in sizes : n <= k
  <2>1. sizes \subseteq Nat /\ sizes # {}
    BY <1>2
  <2> HIDE DEF sizes
  <2> QED
    BY <2>1, SmallestNumber
<1>4. PICK a \in above : n = Cardinality(Ancestors[a])
  OBVIOUS
<1>5. ASSUME NEW b \in Ancestors[a] \cap cycle PROVE FALSE
  <2>1. b \in above /\ Ancestors[b] \subseteq Ancestors[a]
    BY <1>1, AncestorsTransitive
  <2>2. Ancestors[b] # Ancestors[a]
    BY <1>1, <2>1, AncestorsFacts
  <2>3. Cardinality(Ancestors[b]) <= n /\ Cardinality(Ancestors[b]) # n
    BY <1>2, <1>4, <2>1, <2>2, FS_Subset
  <2>4. n <= Cardinality(Ancestors[b])
    BY <1>3, <2>1
  <2> QED
    BY <1>2, <1>4, <2>1, <2>3, <2>4
<1> QED
  BY <1>4, <1>5

LEMMA EntryInCycle ==
    ASSUME NEW cycle, NEW m \in cycle, m \in Modules
    PROVE  Entry(cycle, m) \in cycle /\ Ancestors[Entry(cycle, m)] \cap cycle = {}
<1>1. CASE Ancestors[m] \cap cycle = {}
  BY <1>1 DEF Entry
<1>2. CASE Ancestors[m] \cap cycle # {}
  <2>1. \E a \in Ancestors[m] \cap cycle : Ancestors[a] \cap cycle = {}
    BY <1>2, OutermostExists
  <2>2. Entry(cycle, m) = CHOOSE a \in Ancestors[m] \cap cycle : Ancestors[a] \cap cycle = {}
    BY <1>2 DEF Entry
  <2> QED
    BY <2>1, <2>2
<1> QED
  BY <1>1, <1>2

SelfAllowed(m) == m \in prog.side_effects[m] \/ \E c \in prog.nodes : m \in prog.implicit[c]

\* A step adds guards to passing modules, nobody itself unless that is allowed,
\* and only the scan, which begins an entry, takes any away.
Adds ==
    /\ lazy_eligible' = [n \in DOMAIN lazy_eligible' |-> lazy_eligible'[n]]
    /\ DOMAIN lazy_eligible \subseteq DOMAIN lazy_eligible' /\ DOMAIN lazy_eligible' \subseteq prog.passing
    /\ stage # "scan" => \A n \in DOMAIN lazy_eligible : lazy_eligible[n] \subseteq lazy_eligible'[n]
    /\ \A n \in DOMAIN lazy_eligible' : \A g \in lazy_eligible'[n] :
          \/ n \in DOMAIN lazy_eligible /\ g \in lazy_eligible[n]
          \/ g \in Modules /\ (g = n => SelfAllowed(n))

LEMMA GuardedAllAdds ==
    ASSUME TypeInv, NEW guards, lazy_eligible' = GuardedAll(lazy_eligible, guards),
           \A n \in DOMAIN guards \cap prog.passing : \A g \in guards[n] :
               g \in Modules /\ (g = n => SelfAllowed(n))
    PROVE  Adds
<1>1. Joins(lazy_eligible', lazy_eligible, guards)
  BY GuardedAllJoins
<1>2. DOMAIN lazy_eligible \subseteq prog.passing
  BY DEF TypeInv
<1> QED
  BY <1>1, <1>2 DEF Adds, Joins

LEMMA NothingAdds ==
    ASSUME TypeInv, lazy_eligible' = lazy_eligible
    PROVE  Adds
  BY DEF TypeInv, Adds

LEMMA ScanAdds ==
    ASSUME TypeInv, NEW m \in Modules, Scan(m)
    PROVE  Adds /\ (m \in prog.passing => m \in DOMAIN lazy_eligible')
<1> DEFINE imports == prog.imports[m]
           guards == (imports \cap prog.failing) \cup (UNION {re_export_map[i] : i \in imports})
                     \cup prog.missing[m]
                     \cup ((Ancestors[m] \ {Package[m]}) \cap CycleModules)
<1>1. lazy_eligible' =
         IF m \in prog.passing
         THEN [n \in DOMAIN lazy_eligible \cup {m} |-> IF n = m THEN guards ELSE lazy_eligible[n]]
         ELSE lazy_eligible
  BY DEF Scan
<1>2. CASE m \in prog.passing
  <2>1. prog \in Programs
    BY DEF TypeInv, ChainInv
  <2>2. /\ imports \subseteq prog.nodes /\ prog.nodes \subseteq Modules
        /\ prog.failing \subseteq prog.nodes /\ m \in prog.nodes /\ m \notin prog.failing
        /\ prog.missing[m] \subseteq Modules \ prog.nodes
    BY <1>2, <2>1, ProgramFacts
  <2>3. Ancestors[m] \subseteq Modules /\ m \notin Ancestors[m]
    BY AncestorsFacts
  <2>4. \A i \in imports : re_export_map[i] \subseteq prog.failing
    BY <2>2 DEF TypeInv
  <2>5. guards \subseteq Modules \ {m}
    BY <2>2, <2>3, <2>4
  <2> HIDE DEF guards
  <2>6. lazy_eligible' = [n \in DOMAIN lazy_eligible \cup {m} |-> IF n = m THEN guards ELSE lazy_eligible[n]]
    BY <1>1, <1>2
  <2>7. stage = "scan" /\ DOMAIN lazy_eligible \subseteq prog.passing
    BY DEF Scan, TypeInv
  <2> QED
    BY <1>2, <2>5, <2>6, <2>7 DEF Adds
<1>3. CASE m \notin prog.passing
  BY <1>1, <1>3, NothingAdds
<1> QED
  BY <1>2, <1>3

LEMMA AddCycleDepsAdds ==
    ASSUME TypeInv, NEW m \in Modules, AddCycleDeps(m)
    PROVE  Adds
<1> DEFINE cycle == CHOOSE c \in cycles : m \in c
           imports == ((prog.imports[m] \cup implicit_parents[m]) \ {m}) \cap cycle
<1>1. lazy_eligible' =
         IF m \notin prog.passing THEN GuardedAll(lazy_eligible, ToChildren(m, {m}))
         ELSE GuardedAll(Guarded(lazy_eligible, m, imports), ToChildren(m, imports))
  BY DEF AddCycleDeps
<1>2. prog \in Programs
  BY DEF TypeInv, ChainInv
<1>3. imports \subseteq Modules \ {m}
  BY <1>2, ProgramFacts DEF TypeInv
<1>4. \A c \in Children(m) : c # m
  <2> SUFFICES ASSUME NEW c \in Children(m) PROVE c # m
    OBVIOUS
  <2>1. c \in Modules /\ Package[c] = m /\ m # NoModule
    BY <1>2, ProgramFacts, HomeAssumption DEF Children
  <2> QED
    BY <2>1, AncestorsFacts
<1>5. ASSUME NEW deps \in SUBSET Modules, NEW n \in DOMAIN ToChildren(m, deps),
             NEW g \in ToChildren(m, deps)[n]
      PROVE  g \in Modules /\ g # n
  BY <1>4 DEF ToChildren
<1> HIDE DEF imports
<1>6. CASE m \notin prog.passing
  <2>1. lazy_eligible' = GuardedAll(lazy_eligible, ToChildren(m, {m}))
    BY <1>1, <1>6
  <2> QED
    BY <1>5, <2>1, GuardedAllAdds
<1>7. CASE m \in prog.passing
  <2> DEFINE l == Guarded(lazy_eligible, m, imports)
  <2>1. Joins(l, lazy_eligible, [n \in {m} |-> imports])
    <3>1. lazy_eligible = [n \in DOMAIN lazy_eligible |-> lazy_eligible[n]]
      BY DEF TypeInv
    <3> QED
      BY <3>1, GuardedJoins
  <2> HIDE DEF l
  <2>2. lazy_eligible' = GuardedAll(l, ToChildren(m, imports))
    BY <1>1, <1>7 DEF l
  <2>3. Joins(lazy_eligible', l, ToChildren(m, imports))
    BY <2>2, GuardedAllJoins
  <2>4. DOMAIN lazy_eligible \subseteq prog.passing
    BY DEF TypeInv
  <2>5. /\ DOMAIN l = DOMAIN lazy_eligible \cup {m}
        /\ \A n \in DOMAIN lazy_eligible : lazy_eligible[n] \subseteq l[n]
        /\ \A n \in DOMAIN l : \A g \in l[n] :
              (n \in DOMAIN lazy_eligible /\ g \in lazy_eligible[n]) \/ (n = m /\ g \in imports)
    BY <1>7, <2>1 DEF Joins
  <2>6. \A n \in DOMAIN ToChildren(m, imports) : \A g \in ToChildren(m, imports)[n] : g \in Modules /\ g # n
    BY <1>3, <1>5
  <2> QED
    BY <1>3, <1>7, <2>3, <2>4, <2>5, <2>6 DEF Adds, Joins
<1> QED
  BY <1>6, <1>7

LEMMA AddEntryGuardsAdds ==
    ASSUME TypeInv, NEW cycle \in cycles, AddEntryGuards(cycle)
    PROVE  Adds
<1> DEFINE entries == Entries(cycle)
           used == UNION {entries[n] : n \in DOMAIN entries}
<1>1. lazy_eligible' = IF Cardinality(used) <= 1 THEN lazy_eligible
                       ELSE GuardedAll(lazy_eligible, entries)
  BY DEF AddEntryGuards
<1>2. cycle \subseteq Modules
  BY ProgramFacts DEF TypeInv, ChainInv
<1>3. ASSUME NEW n \in DOMAIN entries, NEW g \in entries[n]
      PROVE  g \in Modules /\ g # n
  <2>1. n \notin cycle
    BY DEF Entries, Outside
  <2>2. PICK m \in cycle : g = Entry(cycle, m)
    BY DEF Entries
  <2>3. g \in cycle
    BY <1>2, <2>2, EntryInCycle
  <2> QED
    BY <1>2, <2>1, <2>3
<1> HIDE DEF entries
<1> QED
  BY <1>1, <1>3, GuardedAllAdds, NothingAdds

LEMMA AddImplicitAdds ==
    ASSUME TypeInv, AddImplicit
    PROVE  Adds
<1> DEFINE guards == [m \in {n \in prog.passing : prog.implicit[n] # {}} |-> prog.implicit[m]]
<1>1. lazy_eligible' = GuardedAll(lazy_eligible, guards)
  BY DEF AddImplicit
<1>2. prog \in Programs
  BY DEF TypeInv, ChainInv
<1>3. ASSUME NEW n \in DOMAIN guards, NEW g \in guards[n]
      PROVE  g \in Modules /\ (g = n => SelfAllowed(n))
  BY <1>2, ProgramFacts DEF SelfAllowed
<1> HIDE DEF guards
<1> QED
  BY <1>1, <1>3, GuardedAllAdds

Consumers(target) ==
    {m \in prog.passing \cup prog.failing : target \in prog.implicit[m] /\ target \notin prog.imports[m]}

Route(target) ==
    UNION {Chain(Hops(target, Consumers(target)), c) : c \in Consumers(target)}

LEMMA GuardChainsAdds ==
    ASSUME TypeInv, NEW target \in Modules, GuardChains(target)
    PROVE  /\ Adds
           /\ Joins(lazy_eligible', lazy_eligible, [m \in Route(target) \cup {target} |-> {target}])
<1> DEFINE guards == [m \in Route(target) \cup {target} |-> {target}]
<1>1. lazy_eligible' = GuardedAll(lazy_eligible, guards)
  BY DEF GuardChains, Route, Consumers
<1>2. stage = "chains" /\ target \in todo
  BY DEF GuardChains
<1>3. PICK c \in prog.passing \cup prog.failing : target \in prog.implicit[c]
  BY <1>2 DEF TypeInv
<1>4. c \in prog.nodes
  BY ProgramFacts DEF TypeInv, ChainInv
<1>5. \A n \in DOMAIN guards : \A g \in guards[n] : g \in Modules /\ (g = n => SelfAllowed(n))
  BY <1>3, <1>4 DEF SelfAllowed
<1> HIDE DEF guards
<1>6. Adds
  BY <1>1, <1>5, GuardedAllAdds
<1>7. Joins(lazy_eligible', lazy_eligible, guards)
  BY <1>1, GuardedAllJoins
<1> QED
  BY <1>6, <1>7 DEF guards

LEMMA PropagateSideEffectsAdds ==
    ASSUME TypeInv, NEW m \in Modules, PropagateSideEffects(m)
    PROVE  Adds
<1> DEFINE guards == prog.side_effects[m] \cap has_failing_deps
<1>1. CASE prog.side_effects[m] = {}
  BY <1>1, NothingAdds DEF PropagateSideEffects
<1>2. CASE prog.side_effects[m] # {}
  <2>1. lazy_eligible' = Guarded(lazy_eligible, m, guards)
    BY <1>2 DEF PropagateSideEffects
  <2>2. lazy_eligible = [n \in DOMAIN lazy_eligible |-> lazy_eligible[n]]
    BY DEF TypeInv
  <2>3. Joins(lazy_eligible', lazy_eligible, [n \in {m} |-> guards])
    <3> HIDE DEF guards
    <3> QED
      BY <2>1, <2>2, GuardedJoins
  <2>4. \A g \in guards : g \in Modules /\ (g = m => SelfAllowed(m))
    BY ProgramFacts DEF TypeInv, ChainInv, SelfAllowed
  <2>5. DOMAIN lazy_eligible \subseteq prog.passing
    BY DEF TypeInv
  <2> HIDE DEF guards
  <2> QED
    BY <2>3, <2>4, <2>5 DEF Adds, Joins
<1> QED
  BY <1>1, <1>2

LEMMA StepAdds ==
    ASSUME TypeInv, LaterStep
    PROVE  Adds
<1>1. CASE BeginCycles \/ BeginEntries \/ BeginSideEffects \/ Finish
  BY <1>1, NothingAdds DEF BeginCycles, BeginEntries, BeginSideEffects, Finish
<1> QED
  BY <1>1, ScanAdds, AddCycleDepsAdds, AddEntryGuardsAdds, AddImplicitAdds, GuardChainsAdds,
     PropagateSideEffectsAdds DEF LaterStep

LEMMA TypeStep == TypeInv /\ [Next]_vars => TypeInv'
<1> SUFFICES ASSUME TypeInv, [Next]_vars PROVE TypeInv'
  OBVIOUS
<1>1. ChainInv' /\ ChainInv
  BY ChainStepKeeps DEF TypeInv
<1>2. CASE FollowReExports
  BY <1>1, <1>2 DEF FollowReExports, ChainStep, TypeInv
<1>3. CASE UniteMaps
  <2>1. /\ UNCHANGED <<prog, implicit_parents, cycles, lazy_eligible, has_failing_deps>>
        /\ stage = "re_exports" /\ stage' = "scan" /\ todo' = prog.nodes
    BY <1>3 DEF UniteMaps
  <2>2. re_export_map' \in [Modules -> SUBSET prog.failing]
    <3>1. re_export_map' =
            [m \in Modules |-> {e[2] : e \in {f \in UNION {map[t] : t \in Tasks} : f[1] = m}}]
      BY <1>3 DEF UniteMaps
    <3>2. \A t \in Tasks : \A f \in map[t] : f[2] \in prog.failing
      BY <1>1 DEF ChainInv, MapInv
    <3> QED
      BY <3>1, <3>2
  <2>3. prog.nodes \subseteq Modules /\ prog.passing \subseteq prog.nodes
    BY <1>1, ProgramFacts DEF ChainInv
  <2> QED
    BY <1>1, <2>1, <2>2, <2>3 DEF TypeInv, Stages
<1>4. CASE LaterStep
  <2>1. /\ UNCHANGED <<prog, implicit_parents, cycles, re_export_map>>
        /\ stage # "re_exports" /\ stage' # "re_exports"
    BY <1>4, LaterStepFacts
  <2>2. Adds
    BY <1>4, StepAdds
  <2>3. lazy_eligible' \in [DOMAIN lazy_eligible' -> SUBSET Modules] /\ DOMAIN lazy_eligible' \subseteq prog.passing
    <3>1. \A n \in DOMAIN lazy_eligible' : lazy_eligible'[n] \subseteq Modules
      BY <2>2 DEF Adds, TypeInv
    <3> QED
      BY <2>2, <3>1 DEF Adds
  <2>4. DOMAIN lazy_eligible \subseteq DOMAIN lazy_eligible'
    BY <2>2 DEF Adds
  <2>5. prog.passing \subseteq Modules /\ prog.failing \subseteq Modules
        /\ cycles \subseteq SUBSET Modules /\ prog.implicit \in [Modules -> SUBSET Modules]
    BY <1>1, ProgramFacts DEF ChainInv, TypeInv
  <2>6. /\ stage' \in Stages
        /\ todo' \subseteq IF stage' = "entries" THEN cycles ELSE Modules
        /\ has_failing_deps' \subseteq prog.passing
        /\ stage' = "chains" => todo' \subseteq UNION {prog.implicit[m] : m \in prog.passing \cup prog.failing}
        /\ stage' = "scan" => prog.passing \subseteq DOMAIN lazy_eligible' \cup todo'
        /\ stage' \notin {"re_exports", "scan"} => prog.passing = DOMAIN lazy_eligible'
    <3>1. CASE \E m \in Modules : Scan(m)
      <4>1. PICK m \in Modules : Scan(m)
        BY <3>1
      <4>2. stage = "scan" /\ stage' = "scan" /\ todo' = todo \ {m} /\ has_failing_deps' = has_failing_deps
        BY <4>1 DEF Scan
      <4>3. m \in prog.passing => m \in DOMAIN lazy_eligible'
        BY <4>1, ScanAdds
      <4> QED
        BY <2>4, <4>2, <4>3 DEF TypeInv, Stages
    <3>2. CASE \E m \in Modules : AddCycleDeps(m) \/ GuardChains(m) \/ PropagateSideEffects(m)
      BY <2>3, <2>4, <3>2 DEF AddCycleDeps, GuardChains, PropagateSideEffects, TypeInv, Stages
    <3>3. CASE \E cycle \in cycles : AddEntryGuards(cycle)
      BY <2>3, <2>4, <3>3 DEF AddEntryGuards, TypeInv, Stages
    <3>4. CASE BeginCycles \/ BeginEntries
      BY <2>3, <2>4, <2>5, <3>4 DEF BeginCycles, BeginEntries, CycleModules, TypeInv, Stages
    <3>5. CASE AddImplicit
      BY <2>3, <2>4, <2>5, <3>5 DEF AddImplicit, TypeInv, Stages
    <3>6. CASE BeginSideEffects \/ Finish
      BY <2>3, <2>4, <3>6 DEF BeginSideEffects, Finish, TypeInv, Stages
    <3> QED
      BY <1>4, <3>1, <3>2, <3>3, <3>4, <3>5, <3>6 DEF LaterStep
  <2> QED
    BY <1>1, <2>1, <2>3, <2>6 DEF TypeInv
<1>5. CASE UNCHANGED vars
  BY <1>1, <1>5 DEF TypeInv, vars, facts
<1> QED
  BY <1>2, <1>3, <1>4, <1>5 DEF Next, Step, Done, LaterStep

\* Type correctness (every operation of policy.rs): guards are modules, only passing
\* modules have any, and the tasks' memos and paths stay well formed.
THEOREM TypeCorrect == Spec => [](TypeOK /\ ChainsTypeOK)
<1>1. TypeInv => TypeOK /\ ChainsTypeOK
  <2> SUFFICES ASSUME TypeInv PROVE TypeOK /\ ChainsTypeOK
    OBVIOUS
  <2>1. TypeOK
    BY DEF TypeInv, TypeOK, Stages
  <2>2. ASSUME NEW t \in Tasks
        PROVE  Cardinality(start[t]) <= 1 /\ map[t] \subseteq Modules \X Modules
    <3>1. start[t] = {} \/ \E a : start[t] = {a}
      BY DEF TypeInv, ChainInv, TaskInv
    <3>2. Cardinality(start[t]) <= 1
      <4>1. Cardinality(start[t]) \in {0, 1}
        BY <3>1, FS_EmptySet, FS_Singleton
      <4> QED
        BY <4>1
    <3>3. \A f \in map[t] : \E a \in DOMAIN re_exports :
             f = <<Home[a], ResolveChain(a)>> /\ f[2] \in prog.failing
      BY DEF TypeInv, ChainInv, MapInv
    <3>4. prog.failing \subseteq Modules
      BY ProgramFacts DEF TypeInv, ChainInv
    <3>5. DOMAIN re_exports \subseteq Attrs
      BY DEF TypeInv, ChainInv, ReExportsOK
    <3>6. ASSUME NEW f \in map[t] PROVE f \in Modules \X Modules
      <4>1. PICK a \in DOMAIN re_exports : f = <<Home[a], ResolveChain(a)>> /\ f[2] \in prog.failing
        BY <3>3
      <4>2. Home[a] \in Modules /\ ResolveChain(a) \in Modules
        BY <3>4, <3>5, <4>1, HomeAssumption
      <4> QED
        BY <4>1, <4>2
    <3> QED
      BY <3>2, <3>6
  <2>3. ChainsTypeOK
    BY <2>2 DEF TypeInv, ChainInv, TaskInv, ChainsTypeOK
  <2> QED
    BY <2>1, <2>3
<1> QED
  BY <1>1, TypeInit, TypeStep, PTL DEF Spec

\* A memoised module is the one the chain ends in (resolve_reexport_chain): also for
\* the chains that met a cycle or another's memo halfway.
THEOREM MemosAreExact == Spec => []MemoExact
<1>1. TypeInv => \A t \in Tasks : \A a \in DOMAIN memo[t] : memo[t][a] = ResolveChain(a)
  BY DEF TypeInv, ChainInv, TaskInv
<1> QED
  BY <1>1, TypeCorrect, TypeInit, TypeStep, PTL DEF Spec, MemoExact

-----------------------------------------------------------------------------
(* Nobody waits for itself.                                                 *)

SelfInv == TypeInv /\ \A m \in DOMAIN lazy_eligible : m \in lazy_eligible[m] => SelfAllowed(m)

LEMMA SelfStep == SelfInv /\ [Next]_vars => SelfInv'
<1> SUFFICES ASSUME SelfInv, [Next]_vars PROVE SelfInv'
  OBVIOUS
<1>1. TypeInv /\ TypeInv'
  BY TypeStep DEF SelfInv
<1>2. CASE FollowReExports \/ UniteMaps \/ UNCHANGED vars
  BY <1>1, <1>2 DEF SelfInv, SelfAllowed, FollowReExports, UniteMaps, vars, facts
<1>3. CASE LaterStep
  <2>1. prog' = prog
    BY <1>3, LaterStepFacts
  <2>2. Adds
    BY <1>1, <1>3, StepAdds
  <2>3. \A m \in DOMAIN lazy_eligible' : m \in lazy_eligible'[m] => SelfAllowed(m)
    BY <2>2 DEF Adds, SelfInv
  <2> QED
    BY <1>1, <2>1, <2>3 DEF SelfInv, SelfAllowed
<1> QED
  BY <1>2, <1>3 DEF Next, Step, Done, LaterStep

\* No module waits for itself unless it is an implicit import (the guards that the
\* scan, propagate_to_children and add_cycle_entry_guards add): the way through
\* packages, cycles and submodules never leads back. And in the end exactly the
\* passing modules have an entry.
THEOREM NobodyGuardsItself == Spec => []NoSelfGuard
<1>1. Init => SelfInv
  BY TypeInit DEF SelfInv, Init
<1>2. SelfInv => /\ KeysArePassing
                 /\ \A m \in DOMAIN lazy_eligible :
                       m \in lazy_eligible[m] =>
                          m \in prog.side_effects[m] \/ \E c \in prog.nodes : m \in prog.implicit[c]
  BY DEF SelfInv, TypeInv, KeysArePassing, SelfAllowed
<1> QED
  BY <1>1, <1>2, SelfStep, TypeCorrect, PTL DEF Spec, NoSelfGuard

-----------------------------------------------------------------------------
(* The failing sources of re-exports.                                       *)

\* SourcesMatch without its promise that the tasks end.
SourcesExact ==
    stage # "re_exports" =>
        \A m \in Modules :
            re_export_map[m] =
                {ResolveChain(re_exports[a]) : a \in {b \in DOMAIN re_exports : Home[b] = m}} \cap prog.failing

SourcesInv == TypeInv /\ SourcesExact

LEMMA SourcesStep == SourcesInv /\ [Next]_vars => SourcesInv'
<1> SUFFICES ASSUME SourcesInv, [Next]_vars PROVE SourcesInv'
  OBVIOUS
<1>1. TypeInv /\ TypeInv' /\ ChainInv
  BY TypeStep DEF SourcesInv, TypeInv
<1>2. CASE FollowReExports
  BY <1>1, <1>2 DEF FollowReExports, SourcesInv, SourcesExact
<1>3. CASE UniteMaps
  <2>1. /\ UNCHANGED <<prog, re_exports>> /\ stage = "re_exports" /\ AllChained
        /\ re_export_map' =
             [m \in Modules |-> {e[2] : e \in {f \in UNION {map[t] : t \in Tasks} : f[1] = m}}]
    BY <1>3 DEF UniteMaps
  <2>2. \A b : ResolveChain(b)' = ResolveChain(b)
    BY <2>1, ResolveKept
  <2>3. ASSUME NEW m \in Modules
        PROVE  re_export_map'[m] =
                 {ResolveChain(re_exports[a]) : a \in {b \in DOMAIN re_exports : Home[b] = m}} \cap prog.failing
    <3>1. re_export_map'[m] = {e[2] : e \in {f \in UNION {map[t] : t \in Tasks} : f[1] = m}}
      BY <2>1
    <3>2. \A a \in DOMAIN re_exports : ResolveChain(re_exports[a]) = ResolveChain(a)
      BY <1>1, ResolveStep DEF ChainInv
    <3>3. ASSUME NEW s \in re_export_map'[m]
          PROVE  s \in {ResolveChain(re_exports[a]) : a \in {b \in DOMAIN re_exports : Home[b] = m}} \cap prog.failing
      <4>1. PICK t \in Tasks : \E f \in map[t] : f[1] = m /\ f[2] = s
        BY <3>1
      <4>2. PICK f \in map[t] : f[1] = m /\ f[2] = s
        BY <4>1
      <4>3. PICK a \in DOMAIN re_exports : f = <<Home[a], ResolveChain(a)>> /\ f[2] \in prog.failing
        BY <1>1, <4>2 DEF ChainInv, MapInv
      <4> QED
        BY <3>2, <4>2, <4>3
    <3>4. ASSUME NEW a \in DOMAIN re_exports, Home[a] = m, ResolveChain(a) \in prog.failing
          PROVE  ResolveChain(a) \in re_export_map'[m]
      <4>1. a \notin untaken /\ \A t \in Tasks : start[t] # {a}
        BY <2>1 DEF AllChained, Idle
      <4>2. PICK t \in Tasks : <<Home[a], ResolveChain(a)>> \in map[t]
        BY <1>1, <2>1, <3>4, <4>1 DEF ChainInv, MapInv
      <4> QED
        BY <3>1, <3>4, <4>2
    <3> QED
      BY <3>2, <3>3, <3>4
  <2> QED
    BY <1>1, <2>1, <2>2, <2>3 DEF SourcesInv, SourcesExact
<1>4. CASE LaterStep
  <2>1. UNCHANGED <<prog, re_exports, re_export_map>> /\ stage # "re_exports"
    BY <1>4, LaterStepFacts DEF facts, chainVars
  <2>2. \A b : ResolveChain(b)' = ResolveChain(b)
    BY <2>1, ResolveKept
  <2> QED
    BY <1>1, <2>1, <2>2 DEF SourcesInv, SourcesExact
<1>5. CASE UNCHANGED vars
  <2>1. UNCHANGED <<prog, re_exports, re_export_map, stage>>
    BY <1>5 DEF vars, facts, chainVars
  <2>2. \A b : ResolveChain(b)' = ResolveChain(b)
    BY <2>1, ResolveKept
  <2> QED
    BY <1>1, <2>1, <2>2 DEF SourcesInv, SourcesExact
<1> QED
  BY <1>2, <1>3, <1>4, <1>5 DEF Next, Step, Done, LaterStep

\* Whoever took which re-export, the tasks of build_re_export_map_from_cache have
\* found together the failing sources that build_re_export_map finds: the safety half
\* of SourcesMatch.
THEOREM SourcesAreExact == Spec => []SourcesExact
<1>1. Init => SourcesInv
  BY TypeInit DEF SourcesInv, SourcesExact, Init
<1> QED
  BY <1>1, SourcesStep, PTL DEF Spec, SourcesInv

-----------------------------------------------------------------------------
(* Import cycles are guarded.                                               *)

Edges == CycleEdges(prog, implicit_parents)

Beyond(m) == Reached(Edges, Edges[m])

Component(m) == {m} \cup {n \in Beyond(m) : m \in Beyond(n)}

Analysed == prog.passing \cup prog.failing

LEMMA EdgesFacts ==
    ASSUME TypeInv
    PROVE  /\ Edges \in [Modules -> SUBSET prog.nodes] /\ prog.nodes \subseteq Modules
           /\ Analysed \subseteq prog.nodes
           /\ \A m \in Modules : /\ Beyond(m) \subseteq prog.nodes
                                 /\ Edges[m] \subseteq Beyond(m)
                                 /\ \A n \in Beyond(m) : Edges[n] \subseteq Beyond(m)
<1>1. /\ Edges \in [Modules -> SUBSET prog.nodes] /\ prog.nodes \subseteq Modules
      /\ Analysed \subseteq prog.nodes
  BY ProgramFacts DEF TypeInv, ChainInv, Edges, CycleEdges, Analysed
<1>2. Edges \in [Modules -> SUBSET Modules]
  BY <1>1
<1>3. ASSUME NEW m \in Modules
      PROVE  /\ Beyond(m) \subseteq prog.nodes
             /\ Edges[m] \subseteq Beyond(m)
             /\ \A n \in Beyond(m) : Edges[n] \subseteq Beyond(m)
  <2>1. Edges[m] \in SUBSET Modules /\ Edges[m] \subseteq prog.nodes
    BY <1>1
  <2>2. /\ Edges[m] \subseteq Beyond(m)
        /\ \A n \in Beyond(m) : Edges[n] \subseteq Beyond(m)
    BY <1>2, <2>1, ReachedClosed DEF Beyond
  <2>3. Beyond(m) \subseteq prog.nodes
    <3>1. prog.nodes \in SUBSET Modules /\ \A n \in prog.nodes : Edges[n] \subseteq prog.nodes
      BY <1>1
    <3> QED
      BY <1>2, <2>1, <3>1, ReachedLeast DEF Beyond
  <2> QED
    BY <2>2, <2>3
<1> QED
  BY <1>1, <1>3

LEMMA BeyondTransitive ==
    ASSUME TypeInv, NEW m \in Modules, NEW n \in Beyond(m)
    PROVE  Beyond(n) \subseteq Beyond(m)
<1>1. /\ Edges \in [Modules -> SUBSET Modules] /\ n \in Modules
      /\ Beyond(m) \in SUBSET Modules /\ Edges[n] \subseteq Beyond(m)
      /\ \A k \in Beyond(m) : Edges[k] \subseteq Beyond(m)
  BY EdgesFacts
<1>2. Edges[n] \in SUBSET Modules
  BY <1>1
<1> QED
  BY <1>1, <1>2, ReachedLeast DEF Beyond

LEMMA SameComponent ==
    ASSUME TypeInv, NEW x \in Modules, NEW m \in Component(x)
    PROVE  Component(m) = Component(x)
<1>1. CASE m = x
  BY <1>1
<1>2. CASE m # x
  <2>1. m \in Beyond(x) /\ x \in Beyond(m) /\ m \in Modules
    BY <1>2, EdgesFacts DEF Component
  <2>2. Beyond(m) = Beyond(x)
    BY <2>1, BeyondTransitive
  <2>3. \A n \in Beyond(x) : n \in Modules /\ (m \in Beyond(n) <=> x \in Beyond(n))
    <3>1. \A n \in Beyond(x) : n \in Modules
      BY EdgesFacts
    <3>2. ASSUME NEW n \in Beyond(x), m \in Beyond(n) PROVE x \in Beyond(n)
      BY <2>1, <3>1, <3>2, BeyondTransitive
    <3>3. ASSUME NEW n \in Beyond(x), x \in Beyond(n) PROVE m \in Beyond(n)
      BY <2>1, <3>1, <3>3, BeyondTransitive
    <3> QED
      BY <3>1, <3>2, <3>3
  <2>4. x \in Beyond(x) /\ m \in Beyond(m)
    BY <2>1, <2>2
  <2> QED
    BY <2>1, <2>2, <2>3, <2>4 DEF Component
<1> QED
  BY <1>1, <1>2

LEMMA CyclesAreComponents ==
    ASSUME TypeInv
    PROVE  /\ \A c \in cycles : \A m \in c : m \in Modules /\ c = Component(m) \cap Analysed
           /\ \A m, n \in Analysed : m # n /\ n \in Beyond(m) /\ m \in Beyond(n) =>
                 Component(m) \cap Analysed \in cycles
<1>1. cycles = {Component(m) \cap Analysed : m \in {n \in prog.nodes : Cardinality(Component(n)) > 1}} \ {{}}
  <2>1. cycles = CyclesOf(prog, implicit_parents)
    BY DEF TypeInv
  <2> QED
    BY <2>1 DEF CyclesOf, Component, Beyond, Edges, Analysed
<1>2. ASSUME NEW c \in cycles, NEW m \in c
      PROVE  m \in Modules /\ c = Component(m) \cap Analysed
  <2>1. PICK x \in prog.nodes : c = Component(x) \cap Analysed
    BY <1>1
  <2>2. x \in Modules /\ m \in Component(x) /\ m \in Modules
    BY <2>1, EdgesFacts
  <2> QED
    BY <2>1, <2>2, SameComponent
<1>3. ASSUME NEW m \in Analysed, NEW n \in Analysed, m # n, n \in Beyond(m), m \in Beyond(n)
      PROVE  Component(m) \cap Analysed \in cycles
  <2>1. m \in prog.nodes /\ m \in Modules /\ Component(m) \subseteq Modules
    BY EdgesFacts DEF Component
  <2>2. {m, n} \subseteq Component(m)
    BY <1>3 DEF Component
  <2>3. IsFiniteSet(Component(m)) /\ Cardinality(Component(m)) \in Nat
    BY <2>1, NamesAssumption, FS_Subset, FS_CardinalityType
  <2>4. Cardinality({m, n}) = 2
    <3>1. IsFiniteSet({m}) /\ Cardinality({m}) = 1
      BY FS_Singleton
    <3>2. Cardinality({m} \cup {n}) = 1 + 1
      BY <1>3, <3>1, FS_AddElement
    <3>3. {m} \cup {n} = {m, n}
      OBVIOUS
    <3> QED
      BY <3>2, <3>3
  <2>5. Cardinality({m, n}) <= Cardinality(Component(m))
    BY <2>2, <2>3, FS_Subset
  <2>6. Cardinality(Component(m)) > 1
    BY <2>3, <2>4, <2>5
  <2> QED
    BY <1>1, <1>3, <2>1, <2>2, <2>6
<1> QED
  BY <1>2, <1>3

CycleImports(m) ==
    ((prog.imports[m] \cup implicit_parents[m]) \ {m}) \cap (CHOOSE c \in cycles : m \in c)

\* On a closed walk the first two modules are in one cycle.
LEMMA WalkInCycle ==
    ASSUME TypeInv, NEW k \in Nat \ {0}, NEW w \in ClosedWalks(k)
    PROVE  w[0] \in CycleModules /\ w[1] \in CycleImports(w[0])
<1> DEFINE m == w[0]
           n == w[1]
<1>1. /\ w \in [0..k -> Analysed] /\ w[k] = m
      /\ \A i \in 1..k : w[i] # w[i - 1] /\ w[i] \in Edges[w[i - 1]]
  BY DEF ClosedWalks, Analysed, Edges
<1>2. 0 \in 0..k /\ 1 \in 1..k /\ 1 \in 0..k /\ k \in 1..k /\ 1 - 1 = 0
  OBVIOUS
<1>3. m \in Analysed /\ n \in Analysed /\ n # m /\ n \in Edges[m]
  BY <1>1, <1>2
<1>4. m \in Modules /\ n \in Modules
  BY <1>3, EdgesFacts
<1>5. k # 1
  BY <1>1, <1>3
<1>6. \A i \in 2..k : w[i] \in Beyond(n)
  <2> DEFINE missed == {i \in 2..k : w[i] \notin Beyond(n)}
  <2>1. SUFFICES ASSUME missed # {} PROVE FALSE
    OBVIOUS
  <2>2. PICK i \in missed : \A j \in missed : i <= j
    <3>1. missed \subseteq Nat
      OBVIOUS
    <3> HIDE DEF missed
    <3> QED
      BY <2>1, <3>1, SmallestNumber
  <2>3. i \in 1..k /\ w[i] \in Edges[w[i - 1]]
    BY <1>1
  <2>4. CASE i = 2
    <3>1. w[i - 1] = n
      BY <2>4
    <3> QED
      BY <1>4, <2>2, <2>3, <3>1, EdgesFacts
  <2>5. CASE i # 2
    <3>1. i - 1 \in 2..k /\ i - 1 \notin missed
      BY <2>2, <2>5
    <3>2. w[i - 1] \in Beyond(n)
      BY <3>1
    <3> QED
      BY <1>4, <2>2, <2>3, <3>2, EdgesFacts
  <2> QED
    BY <2>4, <2>5
<1>7. m \in Beyond(n)
  BY <1>1, <1>5, <1>6
<1>8. n \in Beyond(m)
  BY <1>3, <1>4, EdgesFacts
<1>9. Component(m) \cap Analysed \in cycles /\ n \in Component(m) /\ m \in Component(m)
  BY <1>3, <1>7, <1>8, CyclesAreComponents DEF Component
<1>10. (CHOOSE c \in cycles : m \in c) = Component(m) \cap Analysed
  BY <1>3, <1>9, CyclesAreComponents
<1>11. n \in prog.imports[m] \cup implicit_parents[m]
  BY <1>3, <1>4 DEF Edges, CycleEdges
<1> QED
  BY <1>3, <1>9, <1>10, <1>11 DEF CycleModules, CycleImports

LEMMA Grows ==
    ASSUME TypeInv, LaterStep, stage # "scan"
    PROVE  /\ DOMAIN lazy_eligible = prog.passing
           /\ \A n \in prog.passing : lazy_eligible[n] \subseteq lazy_eligible'[n]
<1>1. stage # "re_exports"
  BY LaterStepFacts
<1> QED
  BY <1>1, StepAdds DEF TypeInv, Adds

\* What add_cycle_deps promises of a member of a cycle.
CycleDone(m) ==
    m \in prog.passing =>
        \A dep \in CycleImports(m) :
            /\ dep \in lazy_eligible[m]
            /\ \A c \in Children(m) \cap prog.passing :
                  (IF dep = c THEN m ELSE dep) \in lazy_eligible[c]

AfterCycles == {"entries", "chains", "side_effects", "done"}

CyclesInv ==
    /\ TypeInv
    /\ stage = "cycles" => \A m \in CycleModules \ todo : CycleDone(m)
    /\ stage \in AfterCycles => \A m \in CycleModules : CycleDone(m)

LEMMA AddCycleDepsDone ==
    ASSUME TypeInv, NEW m \in Modules, AddCycleDeps(m)
    PROVE  CycleDone(m)'
<1> DEFINE imports == CycleImports(m)
           l == Guarded(lazy_eligible, m, imports)
<1>1. UNCHANGED <<prog, implicit_parents, cycles>> /\ stage = "cycles"
  BY DEF AddCycleDeps, facts
<1>2. CycleImports(m)' = imports /\ Children(m)' = Children(m)
  BY <1>1 DEF CycleImports, Children
<1>3. CASE m \notin prog.passing
  BY <1>1, <1>3 DEF CycleDone
<1>4. CASE m \in prog.passing
  <2>1. lazy_eligible' = GuardedAll(l, ToChildren(m, imports))
    BY <1>4 DEF AddCycleDeps, CycleImports
  <2>2. Joins(l, lazy_eligible, [n \in {m} |-> imports])
    <3>1. lazy_eligible = [n \in DOMAIN lazy_eligible |-> lazy_eligible[n]]
      BY DEF TypeInv
    <3> HIDE DEF imports
    <3> QED
      BY <3>1, GuardedJoins
  <2> HIDE DEF l, imports
  <2>3. Joins(lazy_eligible', l, ToChildren(m, imports))
    BY <2>1, GuardedAllJoins
  <2>4. m \in DOMAIN l /\ imports \subseteq l[m]
    BY <1>4, <2>2 DEF Joins
  <2>5. imports \subseteq lazy_eligible'[m]
    BY <2>3, <2>4 DEF Joins
  <2>6. ASSUME NEW dep \in imports, NEW c \in Children(m) \cap prog.passing
        PROVE  (IF dep = c THEN m ELSE dep) \in lazy_eligible'[c]
    <3>1. c \in DOMAIN ToChildren(m, imports) /\ (IF dep = c THEN m ELSE dep) \in ToChildren(m, imports)[c]
      BY DEF ToChildren
    <3> QED
      BY <2>3, <3>1 DEF Joins
  <2> QED
    BY <1>1, <1>2, <2>5, <2>6 DEF CycleDone
<1> QED
  BY <1>3, <1>4

LEMMA CyclesStep == CyclesInv /\ [Next]_vars => CyclesInv'
<1> SUFFICES ASSUME CyclesInv, [Next]_vars PROVE CyclesInv'
  OBVIOUS
<1>1. TypeInv /\ TypeInv'
  BY TypeStep DEF CyclesInv
<1>2. CASE FollowReExports \/ UniteMaps
  BY <1>1, <1>2 DEF FollowReExports, UniteMaps, CyclesInv, AfterCycles
<1>3. CASE LaterStep
  <2>1. UNCHANGED <<prog, implicit_parents, cycles>>
    BY <1>3, LaterStepFacts
  <2>2. CycleModules' = CycleModules
        /\ \A m : CycleImports(m)' = CycleImports(m) /\ Children(m)' = Children(m)
    BY <2>1 DEF CycleModules, CycleImports, Children
  <2>3. CASE stage = "scan"
    <3>1. stage' = "scan" \/ (stage' = "cycles" /\ todo' = CycleModules)
      BY <1>3, <2>3 DEF LaterStep, Scan, AddCycleDeps, GuardChains, PropagateSideEffects, AddEntryGuards,
                        BeginCycles, BeginEntries, AddImplicit, BeginSideEffects, Finish
    <3> QED
      BY <1>1, <2>2, <3>1 DEF CyclesInv, AfterCycles
  <2>4. CASE stage # "scan"
    <3>1. \A m : CycleDone(m) => CycleDone(m)'
      BY <1>1, <1>3, <2>1, <2>2, <2>4, Grows DEF CycleDone
    <3>2. CASE stage = "cycles"
      <4>1. CASE \E m \in Modules : AddCycleDeps(m)
        <5>1. PICK m \in Modules : AddCycleDeps(m)
          BY <4>1
        <5>2. CycleDone(m)' /\ stage' = "cycles" /\ todo' = todo \ {m}
          BY <1>1, <5>1, AddCycleDepsDone DEF AddCycleDeps
        <5> QED
          BY <1>1, <2>2, <3>1, <3>2, <5>2 DEF CyclesInv, AfterCycles
      <4>2. CASE BeginEntries
        BY <1>1, <2>2, <3>1, <4>2 DEF BeginEntries, CyclesInv, AfterCycles
      <4> QED
        BY <1>3, <3>2, <4>1, <4>2 DEF LaterStep, Scan, GuardChains, PropagateSideEffects, AddEntryGuards,
                                     BeginCycles, AddImplicit, BeginSideEffects, Finish
    <3>3. CASE stage # "cycles"
      <4>1. stage \in AfterCycles /\ stage' \in AfterCycles
        BY <1>3, <2>4, <3>3 DEF LaterStep, Scan, AddCycleDeps, GuardChains, PropagateSideEffects, AddEntryGuards,
                                BeginCycles, BeginEntries, AddImplicit, BeginSideEffects, Finish, AfterCycles
      <4> QED
        BY <1>1, <2>2, <3>1, <4>1 DEF CyclesInv, AfterCycles
    <3> QED
      BY <3>2, <3>3
  <2> QED
    BY <2>3, <2>4
<1>4. CASE UNCHANGED vars
  BY <1>1, <1>4 DEF CyclesInv, CycleDone, CycleImports, CycleModules, Children, vars, facts
<1> QED
  BY <1>2, <1>3, <1>4 DEF Next, Step, Done, LaterStep

\* CyclesGuarded for cycles of any length.
EveryCycleGuarded ==
    stage = "done" =>
        \A k \in Nat \ {0} : \A w \in ClosedWalks(k) :
            LET m == w[0] dep == w[1]
            IN  m \in prog.passing =>
                    /\ dep \in lazy_eligible[m]
                    /\ \A c \in Children(m) \cap prog.passing :
                          (IF dep = c THEN m ELSE dep) \in lazy_eligible[c]

\* On every import cycle, packages that imports run included, each passing module is
\* guarded by the one it imports next, and its passing submodules are no lazier
\* (add_cycle_deps, propagate_to_children), whatever order the members are taken in.
THEOREM EveryCycleIsGuarded == Spec => []EveryCycleGuarded
<1>1. Init => CyclesInv
  BY TypeInit DEF CyclesInv, AfterCycles, Init
<1>2. CyclesInv => EveryCycleGuarded
  BY WalkInCycle DEF CyclesInv, AfterCycles, CycleDone, EveryCycleGuarded
<1> QED
  BY <1>1, <1>2, CyclesStep, PTL DEF Spec

\* The same of cycles over two or three modules, the property that is model-checked.
THEOREM CyclesAreGuarded == Spec => []CyclesGuarded
<1>1. EveryCycleGuarded => CyclesGuarded
  BY DEF EveryCycleGuarded, CyclesGuarded
<1> QED
  BY <1>1, EveryCycleIsGuarded, PTL

-----------------------------------------------------------------------------
(* The ways into a cycle are guarded.                                       *)

Used(cycle) == UNION {Entries(cycle)[n] : n \in DOMAIN Entries(cycle)}

\* What add_cycle_entry_guards promises of a cycle.
EntryDone(cycle) ==
    Cardinality(Used(cycle)) > 1 =>
        \A n \in DOMAIN Entries(cycle) \cap prog.passing : Entries(cycle)[n] \subseteq lazy_eligible[n]

AfterEntries == {"chains", "side_effects", "done"}

EntriesInv ==
    /\ TypeInv
    /\ stage = "entries" => \A cycle \in cycles \ todo : EntryDone(cycle)
    /\ stage \in AfterEntries => \A cycle \in cycles : EntryDone(cycle)

LEMMA UsedInCycle ==
    ASSUME TypeInv, NEW cycle \in cycles
    PROVE  Used(cycle) \subseteq cycle /\ Cardinality(Used(cycle)) \in Nat
<1>1. cycle \subseteq Modules
  BY ProgramFacts DEF TypeInv, ChainInv
<1>2. \A m \in cycle : Entry(cycle, m) \in cycle
  BY <1>1, EntryInCycle
<1>3. Used(cycle) \subseteq cycle
  <2> SUFFICES ASSUME NEW g \in Used(cycle)
               PROVE  g \in cycle
    OBVIOUS
  <2>1. PICK n \in DOMAIN Entries(cycle) : g \in Entries(cycle)[n]
    BY DEF Used
  <2>2. Entries(cycle)[n] = {Entry(cycle, m) : m \in {c \in cycle : n \in Importers(c)}}
    BY <2>1 DEF Entries
  <2>3. PICK m \in cycle : g = Entry(cycle, m)
    BY <2>1, <2>2
  <2> QED
    BY <2>3, <1>2
<1> QED
  BY <1>1, <1>3, NamesAssumption, FS_Subset, FS_CardinalityType

LEMMA AddEntryGuardsDone ==
    ASSUME TypeInv, NEW cycle \in cycles, AddEntryGuards(cycle)
    PROVE  EntryDone(cycle)'
<1> DEFINE entries == Entries(cycle)
<1>1. UNCHANGED <<prog, implicit_parents, cycles>>
  BY DEF AddEntryGuards, facts
<1>2. Entries(cycle)' = entries /\ Used(cycle)' = Used(cycle)
  BY <1>1 DEF Entries, Used, Importers, Outside, Entry
<1>3. lazy_eligible' = IF Cardinality(Used(cycle)) <= 1 THEN lazy_eligible
                       ELSE GuardedAll(lazy_eligible, entries)
  BY DEF AddEntryGuards, Used
<1> HIDE DEF entries
<1>4. CASE Cardinality(Used(cycle)) > 1
  <2>1. lazy_eligible' = GuardedAll(lazy_eligible, entries)
    BY <1>3, <1>4, UsedInCycle
  <2>2. Joins(lazy_eligible', lazy_eligible, entries)
    BY <2>1, GuardedAllJoins
  <2>3. \A n \in DOMAIN entries \cap prog.passing : entries[n] \subseteq lazy_eligible'[n]
    BY <2>2 DEF Joins
  <2> QED
    BY <1>1, <1>2, <2>3 DEF EntryDone
<1>5. CASE ~(Cardinality(Used(cycle)) > 1)
  BY <1>2, <1>5 DEF EntryDone
<1> QED
  BY <1>4, <1>5

LEMMA EntriesStep == EntriesInv /\ [Next]_vars => EntriesInv'
<1> SUFFICES ASSUME EntriesInv, [Next]_vars PROVE EntriesInv'
  OBVIOUS
<1>1. TypeInv /\ TypeInv'
  BY TypeStep DEF EntriesInv
<1>2. CASE FollowReExports \/ UniteMaps
  BY <1>1, <1>2 DEF FollowReExports, UniteMaps, EntriesInv, AfterEntries
<1>3. CASE LaterStep
  <2>1. UNCHANGED <<prog, implicit_parents, cycles>>
    BY <1>3, LaterStepFacts
  <2>2. \A c : Entries(c)' = Entries(c) /\ Used(c)' = Used(c)
    BY <2>1 DEF Entries, Used, Importers, Outside, Entry
  <2>3. CASE stage \in {"scan", "cycles"}
    <3>1. stage' \in {"scan", "cycles"} \/ (stage' = "entries" /\ todo' = cycles)
      BY <1>3, <2>3 DEF LaterStep, Scan, AddCycleDeps, GuardChains, PropagateSideEffects, AddEntryGuards,
                        BeginCycles, BeginEntries, AddImplicit, BeginSideEffects, Finish
    <3> QED
      BY <1>1, <2>1, <3>1 DEF EntriesInv, AfterEntries
  <2>4. CASE stage \notin {"scan", "cycles"}
    <3>1. \A c : EntryDone(c) => EntryDone(c)'
      <4>1. \A n \in prog.passing : lazy_eligible[n] \subseteq lazy_eligible'[n]
        BY <1>1, <1>3, <2>4, Grows
      <4> QED
        BY <2>1, <2>2, <4>1 DEF EntryDone
    <3>2. CASE stage = "entries"
      <4>1. CASE \E c \in cycles : AddEntryGuards(c)
        <5>1. PICK c \in cycles : AddEntryGuards(c)
          BY <4>1
        <5>2. EntryDone(c)' /\ stage' = "entries" /\ todo' = todo \ {c}
          BY <1>1, <5>1, AddEntryGuardsDone DEF AddEntryGuards
        <5> QED
          BY <1>1, <2>1, <3>1, <3>2, <5>2 DEF EntriesInv, AfterEntries
      <4>2. CASE AddImplicit
        BY <1>1, <2>1, <3>1, <4>2 DEF AddImplicit, EntriesInv, AfterEntries
      <4> QED
        BY <1>3, <3>2, <4>1, <4>2 DEF LaterStep, Scan, AddCycleDeps, GuardChains, PropagateSideEffects,
                                     BeginCycles, BeginEntries, BeginSideEffects, Finish
    <3>3. CASE stage # "entries"
      <4>1. stage \in AfterEntries /\ stage' \in AfterEntries
        BY <1>3, <2>4, <3>3 DEF LaterStep, Scan, AddCycleDeps, GuardChains, PropagateSideEffects, AddEntryGuards,
                                BeginCycles, BeginEntries, AddImplicit, BeginSideEffects, Finish, AfterEntries
      <4> QED
        BY <1>1, <2>1, <3>1, <4>1 DEF EntriesInv, AfterEntries
    <3> QED
      BY <3>2, <3>3
  <2> QED
    BY <2>3, <2>4
<1>4. CASE UNCHANGED vars
  <2>1. UNCHANGED <<prog, implicit_parents, cycles, stage, todo, lazy_eligible>>
    BY <1>4 DEF vars, facts
  <2>2. \A c : Entries(c)' = Entries(c) /\ Used(c)' = Used(c)
    BY <2>1 DEF Entries, Used, Importers, Outside, Entry
  <2> QED
    BY <1>1, <2>1, <2>2 DEF EntriesInv, EntryDone
<1> QED
  BY <1>2, <1>3, <1>4 DEF Next, Step, Done, LaterStep

LEMMA FirstIsEntry ==
    ASSUME NEW cycle, NEW m \in cycle
    PROVE  RunsFirst(cycle, m) = Entry(cycle, m)
<1> DEFINE above == Ancestors[m] \cap cycle
           Outermost(e) == Ancestors[e] \cap cycle = {}
<1>1. CASE above = {}
  BY <1>1 DEF RunsFirst, Entry
<1>2. CASE above # {}
  <2>1. \A e : (e \in {m} \cup above /\ Outermost(e)) <=> (e \in above /\ Outermost(e))
    BY <1>2
  <2>2. (CHOOSE e : e \in {m} \cup above /\ Outermost(e)) = (CHOOSE e : e \in above /\ Outermost(e))
    <3> HIDE DEF above, Outermost
    <3> QED
      BY <2>1, Zenon
  <2> QED
    BY <1>2, <2>2 DEF RunsFirst, Entry
<1> QED
  BY <1>1, <1>2

\* "When modules outside a cycle can enter it through more than one member, each of
\* them is also guarded by the member it enters through" (add_cycle_entry_guards).
THEOREM EntriesAreGuarded == Spec => []EntriesGuarded
<1>1. Init => EntriesInv
  BY TypeInit DEF EntriesInv, AfterEntries, Init
<1>2. EntriesInv => EntriesGuarded
  <2> SUFFICES ASSUME EntriesInv, stage = "done", NEW cycle \in cycles
               PROVE  LET enters == {e \in prog.nodes \X cycle :
                                       /\ Outside(cycle, e[1])
                                       /\ e[2] \in prog.imports[e[1]] \cup implicit_parents[e[1]]}
                          used == {RunsFirst(cycle, e[2]) : e \in enters}
                      IN  Cardinality(used) > 1 =>
                            \A e \in enters : e[1] \in prog.passing =>
                                RunsFirst(cycle, e[2]) \in lazy_eligible[e[1]]
    BY DEF EntriesGuarded
  <2> DEFINE enters == {e \in prog.nodes \X cycle :
                          /\ Outside(cycle, e[1])
                          /\ e[2] \in prog.imports[e[1]] \cup implicit_parents[e[1]]}
             used == {RunsFirst(cycle, e[2]) : e \in enters}
  <2>1. \A e \in enters : /\ e[2] \in cycle /\ e[1] \in DOMAIN Entries(cycle)
                          /\ RunsFirst(cycle, e[2]) \in Entries(cycle)[e[1]]
    <3> SUFFICES ASSUME NEW e \in enters
                 PROVE  /\ e[2] \in cycle /\ e[1] \in DOMAIN Entries(cycle)
                        /\ RunsFirst(cycle, e[2]) \in Entries(cycle)[e[1]]
      OBVIOUS
    <3>1. e[2] \in cycle /\ e[1] \in Importers(e[2]) /\ Outside(cycle, e[1])
      BY DEF Importers
    <3>2. e[1] \in DOMAIN Entries(cycle) /\ Entry(cycle, e[2]) \in Entries(cycle)[e[1]]
      BY <3>1 DEF Entries
    <3> QED
      BY <3>1, <3>2, FirstIsEntry
  <2>2. ASSUME NEW g \in Used(cycle) PROVE g \in used
    <3>1. PICK n \in DOMAIN Entries(cycle) : g \in Entries(cycle)[n]
      BY DEF Used
    <3>2. Outside(cycle, n) /\ \E m \in cycle : n \in Importers(m) /\ g = Entry(cycle, m)
      BY <3>1 DEF Entries
    <3>3. PICK m \in cycle : n \in Importers(m) /\ g = Entry(cycle, m)
      BY <3>2
    <3>4. <<n, m>> \in enters
      BY <3>2, <3>3 DEF Importers
    <3> QED
      BY <3>3, <3>4, FirstIsEntry
  <2>3. used = Used(cycle)
    BY <2>1, <2>2 DEF Used
  <2>4. EntryDone(cycle)
    BY DEF EntriesInv, AfterEntries
  <2> HIDE DEF enters
  <2> QED
    BY <2>1, <2>3, <2>4 DEF EntryDone, enters
<1> QED
  BY <1>1, <1>2, EntriesStep, PTL DEF Spec

-----------------------------------------------------------------------------
(* The ways to implicit imports are guarded.                                *)

\* The repeated application of a function, defined by recursion, exists.
LEMMA IteratesExist ==
    ASSUME NEW S, NEW a \in S, NEW g \in [S -> S]
    PROVE  \E f \in [Nat -> S] : f = [k \in Nat |-> IF k = 0 THEN a ELSE g[f[k - 1]]]
<1> DEFINE Starts(n, f) == f \in [0..n -> S] /\ f[0] = a /\ \A i \in 1..n : f[i] = g[f[i - 1]]
<1>1. \A n \in Nat : \E f : Starts(n, f)
  <2> DEFINE missed == {n \in Nat : ~ \E f : Starts(n, f)}
  <2>1. SUFFICES ASSUME missed # {} PROVE FALSE
    OBVIOUS
  <2>2. PICK n \in missed : \A k \in missed : n <= k
    <3>1. missed \subseteq Nat
      OBVIOUS
    <3> HIDE DEF missed
    <3> QED
      BY <2>1, <3>1, SmallestNumber
  <2>3. CASE n = 0
    <3>1. Starts(0, [i \in 0..0 |-> a])
      OBVIOUS
    <3> QED
      BY <2>2, <2>3, <3>1
  <2>4. CASE n # 0
    <3>1. n - 1 \in Nat /\ n - 1 \notin missed
      <4>1. n \in Nat /\ n - 1 \in Nat /\ ~(n <= n - 1)
        BY <2>2, <2>4
      <4> QED
        BY <2>2, <4>1
    <3>2. PICK f : Starts(n - 1, f)
      BY <3>1
    <3> DEFINE h == [i \in 0..n |-> IF i = n THEN g[f[n - 1]] ELSE f[i]]
    <3>3. n \in Nat /\ n > 0 /\ f[n - 1] \in S
      BY <2>2, <2>4, <3>1, <3>2
    <3>4. h \in [0..n -> S]
      BY <3>2, <3>3
    <3>5. h[0] = a /\ \A i \in 1..n : h[i] = g[h[i - 1]]
      <4>1. h[0] = a
        BY <3>2, <3>3
      <4>2. ASSUME NEW i \in 1..n PROVE h[i] = g[h[i - 1]]
        <5>1. i - 1 \in 0..n /\ i - 1 # n /\ h[i - 1] = f[i - 1]
          BY <3>3
        <5>2. i \in 0..n /\ (i # n => i \in 1..(n - 1))
          BY <3>3
        <5> QED
          BY <3>2, <5>1, <5>2
      <4> QED
        BY <4>1, <4>2
    <3>6. Starts(n, h)
      BY <3>4, <3>5
    <3> QED
      BY <2>2, <3>6
  <2> QED
    BY <2>3, <2>4
<1>2. ASSUME NEW n \in Nat, NEW m \in Nat, n <= m, NEW f, NEW h, Starts(n, f), Starts(m, h)
      PROVE  \A i \in 0..n : f[i] = h[i]
  <2> DEFINE differ == {i \in 0..n : f[i] # h[i]}
  <2>1. SUFFICES ASSUME differ # {} PROVE FALSE
    OBVIOUS
  <2>2. PICK i \in differ : \A k \in differ : i <= k
    <3>1. differ \subseteq Nat
      OBVIOUS
    <3> HIDE DEF differ
    <3> QED
      BY <2>1, <3>1, SmallestNumber
  <2>3. i # 0
    BY <1>2, <2>2
  <2>4. i \in 1..n /\ i \in 1..m /\ i - 1 \in 0..n /\ i - 1 \notin differ
    BY <1>2, <2>2, <2>3
  <2> QED
    BY <1>2, <2>2, <2>4
<1> DEFINE upTo(n) == CHOOSE f : Starts(n, f)
           all == [n \in Nat |-> upTo(n)[n]]
<1>3. \A n \in Nat : Starts(n, upTo(n))
  BY <1>1
<1> HIDE DEF upTo
<1>4. all \in [Nat -> S]
  <2>1. \A n \in Nat : upTo(n)[n] \in S
    BY <1>3
  <2> QED
    BY <2>1
<1>5. all[0] = a
  BY <1>3
<1>6. ASSUME NEW k \in Nat, k # 0 PROVE all[k] = g[all[k - 1]]
  <2>1. k - 1 \in Nat /\ k - 1 <= k /\ k \in 1..k /\ k - 1 \in 0..(k - 1)
    BY <1>6
  <2>2. Starts(k - 1, upTo(k - 1)) /\ Starts(k, upTo(k))
    BY <1>3, <2>1
  <2> HIDE DEF Starts
  <2>3. upTo(k - 1)[k - 1] = upTo(k)[k - 1]
    BY <1>2, <2>1, <2>2
  <2>4. upTo(k)[k] = g[upTo(k)[k - 1]]
    BY <2>1, <2>2 DEF Starts
  <2> QED
    BY <2>1, <2>3, <2>4
<1> HIDE DEF all
<1>7. all = [k \in Nat |-> IF k = 0 THEN a ELSE g[all[k - 1]]]
  <2>1. all = [k \in Nat |-> all[k]]
    BY <1>4
  <2> QED
    BY <2>1, <1>5, <1>6
<1> QED
  BY <1>4, <1>7

LEMMA WithinLayers ==
    ASSUME prog \in Programs, NEW t
    PROVE  /\ Within(t, 0) = NodeImporters(t)
           /\ \A k \in Nat :
                 /\ Within(t, k) \subseteq prog.nodes
                 /\ Within(t, k + 1) = Within(t, k) \cup (UNION {NodeImporters(n) : n \in Within(t, k)})
<1> DEFINE S == SUBSET prog.nodes
           a == NodeImporters(t)
           more(near) == near \cup (UNION {NodeImporters(n) : n \in near})
           g == [near \in S |-> more(near)]
           layer == CHOOSE f : f = [j \in Nat |-> IF j = 0 THEN a ELSE more(f[j - 1])]
<1>1. a \in S /\ \A near \in S : more(near) \in S
  BY DEF NodeImporters
<1>2. \A k : Within(t, k) = layer[k]
  BY DEF Within
<1> HIDE DEF S, a, more, layer
<1>3. g \in [S -> S]
  BY <1>1
<1>4. PICK f \in [Nat -> S] : f = [k \in Nat |-> IF k = 0 THEN a ELSE g[f[k - 1]]]
  <2> HIDE DEF g
  <2> QED
    BY <1>1, <1>3, IteratesExist
<1>5. f = [j \in Nat |-> IF j = 0 THEN a ELSE more(f[j - 1])]
  <2>1. \A j \in Nat : j # 0 => j - 1 \in Nat
    OBVIOUS
  <2>2. \A j \in Nat : j # 0 => g[f[j - 1]] = more(f[j - 1])
    BY <1>4, <2>1
  <2> HIDE DEF g
  <2> QED
    BY <1>4, <2>2
<1>6. layer = [j \in Nat |-> IF j = 0 THEN a ELSE more(layer[j - 1])]
  BY <1>5 DEF layer
<1>7. layer[0] = a /\ \A k \in Nat : layer[k + 1] = more(layer[k])
  <2>1. \A k \in Nat : k + 1 \in Nat /\ k + 1 # 0 /\ (k + 1) - 1 = k
    OBVIOUS
  <2> QED
    BY <1>6, <2>1
<1>8. \A k \in Nat : layer[k] \in S
  <2> DEFINE missed == {k \in Nat : layer[k] \notin S}
  <2>1. SUFFICES ASSUME missed # {} PROVE FALSE
    OBVIOUS
  <2>2. PICK n \in missed : \A k \in missed : n <= k
    <3>1. missed \subseteq Nat
      OBVIOUS
    <3> HIDE DEF missed
    <3> QED
      BY <2>1, <3>1, SmallestNumber
  <2>3. n \in Nat /\ n # 0
    BY <1>1, <1>7, <2>2
  <2>4. n - 1 \in Nat /\ ~(n <= n - 1) /\ (n - 1) + 1 = n
    BY <2>3
  <2>5. layer[n - 1] \in S
    BY <2>2, <2>4
  <2>6. layer[n] = more(layer[n - 1])
    BY <1>7, <2>4
  <2> QED
    BY <1>1, <2>2, <2>5, <2>6
<1> QED
  BY <1>2, <1>7, <1>8 DEF S, a, more

LEMMA WithinNext ==
    ASSUME prog \in Programs, NEW t, NEW k \in Nat, NEW m
    PROVE  m \in Within(t, k + 1) <=> m \in Within(t, k) \/ \E n \in Within(t, k) : m \in NodeImporters(n)
<1>1. Within(t, k + 1) = Within(t, k) \cup (UNION {NodeImporters(n) : n \in Within(t, k)})
  BY WithinLayers
<1> QED
  BY <1>1

LEMMA WithinGrows ==
    ASSUME prog \in Programs, NEW t, NEW j \in Nat, NEW k \in Nat, j <= k
    PROVE  Within(t, j) \subseteq Within(t, k)
<1> DEFINE missed == {i \in Nat : j <= i /\ ~(Within(t, j) \subseteq Within(t, i))}
<1>1. SUFFICES ASSUME missed # {} PROVE FALSE
  OBVIOUS
<1>2. PICK n \in missed : \A i \in missed : n <= i
  <2>1. missed \subseteq Nat
    OBVIOUS
  <2> HIDE DEF missed
  <2> QED
    BY <1>1, <2>1, SmallestNumber
<1>3. n \in Nat /\ j < n
  BY <1>2
<1>4. n - 1 \in Nat /\ j <= n - 1 /\ ~(n <= n - 1) /\ (n - 1) + 1 = n
  BY <1>3
<1>5. Within(t, j) \subseteq Within(t, n - 1)
  BY <1>2, <1>4
<1>6. Within(t, n - 1) \subseteq Within(t, n)
  BY <1>4, WithinLayers
<1> QED
  BY <1>2, <1>5, <1>6

LEMMA WayWithin ==
    ASSUME prog \in Programs, NEW t, NEW c \in prog.nodes, NEW k \in Nat, NEW w \in Ways(c, t, k)
    PROVE  c \in Within(t, k)
<1>1. /\ w \in [0..k -> Modules] /\ w[0] = c /\ t \in prog.imports[w[k]]
      /\ \A i \in 1..k : w[i] \in prog.imports[w[i - 1]]
  BY DEF Ways
<1>2. \A i \in 0..k : w[i] \in prog.nodes
  <2>1. \A i \in 1..k : i - 1 \in 0..k /\ w[i - 1] \in Modules
    BY <1>1
  <2>2. \A i \in 1..k : w[i] \in prog.nodes
    BY <1>1, <2>1, ProgramFacts
  <2> QED
    BY <1>1, <2>2
<1> DEFINE missed == {i \in 0..k : w[k - i] \notin Within(t, i)}
<1>3. SUFFICES ASSUME missed # {} PROVE FALSE
  BY <1>1
<1>4. PICK n \in missed : \A i \in missed : n <= i
  <2>1. missed \subseteq Nat
    OBVIOUS
  <2> HIDE DEF missed
  <2> QED
    BY <1>3, <2>1, SmallestNumber
<1>5. n # 0
  <2>1. w[k] \in NodeImporters(t) /\ k - 0 = k
    BY <1>1, <1>2 DEF NodeImporters
  <2>2. w[k - 0] \in Within(t, 0)
    BY <2>1, WithinLayers
  <2> QED
    BY <1>4, <2>2
<1>6. n \in 1..k /\ n - 1 \in Nat /\ n - 1 \in 0..k /\ ~(n <= n - 1) /\ (n - 1) + 1 = n
  BY <1>4, <1>5
<1>7. w[k - (n - 1)] \in Within(t, n - 1)
  BY <1>4, <1>6
<1>8. k - n \in 0..k /\ k - (n - 1) \in 1..k /\ (k - (n - 1)) - 1 = k - n
  BY <1>6
<1>9. w[k - n] \in NodeImporters(w[k - (n - 1)])
  BY <1>1, <1>2, <1>8 DEF NodeImporters
<1>10. w[k - n] \in Within(t, n)
  <2>1. w[k - n] \in Within(t, (n - 1) + 1)
    BY <1>6, <1>7, <1>9, WithinNext
  <2> QED
    BY <1>6, <2>1
<1> QED
  BY <1>4, <1>10

\* What hops_to_target knows after its last layer.
HopsExact(hops, t, depth) ==
    /\ depth \in Nat
    /\ DOMAIN hops = Within(t, depth)
    /\ \A m \in DOMAIN hops :
          /\ hops[m] \in 0..depth /\ m \in Within(t, hops[m])
          /\ \A j \in Nat : m \in Within(t, j) => hops[m] <= j

LEMMA MinFacts ==
    ASSUME NEW T, T \subseteq Nat, T # {}
    PROVE  Min(T) \in T /\ \A n \in T : Min(T) <= n
  BY SmallestNumber DEF Min

LEMMA HopsFacts ==
    ASSUME prog \in Programs, NEW t, NEW consumers, consumers # {}
    PROVE  \E depth \in Nat :
              /\ HopsExact(Hops(t, consumers), t, depth)
              /\ consumers \subseteq Within(t, depth) \/ depth = Cardinality(Modules)
<1> DEFINE all == Cardinality(Modules)
           enough == {k \in 0..all : consumers \subseteq Within(t, k)}
           depth == IF enough = {} THEN all ELSE Min(enough)
           near(m) == {k \in 0..depth : m \in Within(t, k)}
           hops == [m \in Within(t, depth) |-> Min(near(m))]
<1>1. Hops(t, consumers) = hops
  BY DEF Hops
<1>2. all \in Nat
  BY NamesAssumption, FS_CardinalityType
<1>3. depth \in Nat /\ (consumers \subseteq Within(t, depth) \/ depth = all)
  <2>1. CASE enough = {}
    BY <1>2, <2>1
  <2>2. CASE enough # {}
    <3>1. enough \subseteq Nat
      BY <1>2
    <3>2. Min(enough) \in enough
      <4> HIDE DEF enough
      <4> QED
        BY <2>2, <3>1, MinFacts
    <3>3. depth = Min(enough)
      BY <2>2
    <3> QED
      BY <3>1, <3>2, <3>3
  <2> QED
    BY <2>1, <2>2
<1> HIDE DEF depth
<1>4. ASSUME NEW m \in Within(t, depth)
      PROVE  /\ Min(near(m)) \in 0..depth /\ m \in Within(t, Min(near(m)))
             /\ \A j \in Nat : m \in Within(t, j) => Min(near(m)) <= j
  <2>1. near(m) \subseteq Nat /\ depth \in near(m)
    BY <1>3
  <2>2. Min(near(m)) \in near(m) /\ \A n \in near(m) : Min(near(m)) <= n
    <3> HIDE DEF near
    <3> QED
      BY <2>1, MinFacts
  <2>3. ASSUME NEW j \in Nat, m \in Within(t, j) PROVE Min(near(m)) <= j
    <3>1. CASE j <= depth
      BY <1>3, <2>2, <2>3, <3>1
    <3>2. CASE ~(j <= depth)
      <4>1. Min(near(m)) \in Nat /\ Min(near(m)) <= depth
        BY <1>3, <2>1, <2>2
      <4> HIDE DEF near
      <4> QED
        BY <1>3, <3>2, <4>1
    <3> QED
      BY <3>1, <3>2
  <2> QED
    BY <2>2, <2>3
<1> HIDE DEF near
<1>5. HopsExact(hops, t, depth)
  BY <1>3, <1>4 DEF HopsExact
<1> QED
  BY <1>1, <1>3, <1>5

\* guard_shortest_chain's choice of the next import.
Nearest(hops, m) ==
    CHOOSE n \in prog.imports[m] \cap DOMAIN hops :
        \A o \in (prog.imports[m] \cap DOMAIN hops) \ {n} :
            hops[n] < hops[o] \/ (hops[n] = hops[o] /\ Rank[n] < Rank[o])

LEMMA NearestExists ==
    ASSUME prog \in Programs, NEW hops, NEW m \in Modules, prog.imports[m] \cap DOMAIN hops # {},
           \A n \in DOMAIN hops : hops[n] \in Nat
    PROVE  /\ Nearest(hops, m) \in prog.imports[m] \cap DOMAIN hops
           /\ \A o \in prog.imports[m] \cap DOMAIN hops : hops[Nearest(hops, m)] <= hops[o]
<1> DEFINE next == prog.imports[m] \cap DOMAIN hops
           counts == {hops[n] : n \in next}
<1>1. next \subseteq Modules /\ next # {}
  BY ProgramFacts
<1>2. PICK h \in counts : \A k \in counts : h <= k
  <2>1. counts \subseteq Nat /\ counts # {}
    OBVIOUS
  <2> HIDE DEF counts
  <2> QED
    BY <2>1, SmallestNumber
<1> DEFINE ranks == {Rank[n] : n \in {o \in next : hops[o] = h}}
<1>3. PICK r \in ranks : \A k \in ranks : r <= k
  <2>1. ranks \subseteq Nat /\ ranks # {}
    BY <1>1, NamesAssumption
  <2> HIDE DEF ranks
  <2> QED
    BY <2>1, SmallestNumber
<1>4. PICK n \in next : hops[n] = h /\ Rank[n] = r
  OBVIOUS
<1>5. ASSUME NEW o \in next \ {n}
      PROVE  hops[n] < hops[o] \/ (hops[n] = hops[o] /\ Rank[n] < Rank[o])
  <2>1. hops[n] \in Nat /\ hops[o] \in Nat /\ hops[n] <= hops[o]
    BY <1>2, <1>4
  <2>2. CASE hops[o] = h
    <3>1. Rank[o] \in ranks /\ n \in Modules /\ o \in Modules /\ Rank[n] # Rank[o]
      BY <1>1, <2>2, NamesAssumption
    <3>2. Rank[n] \in Nat /\ Rank[o] \in Nat /\ Rank[n] <= Rank[o]
      BY <1>3, <1>4, <3>1, NamesAssumption
    <3> QED
      BY <1>4, <2>2, <3>1, <3>2
  <2>3. CASE hops[o] # h
    BY <1>4, <2>1, <2>3
  <2> QED
    BY <2>2, <2>3
<1>6. /\ Nearest(hops, m) \in next
      /\ \A o \in next \ {Nearest(hops, m)} :
            hops[Nearest(hops, m)] < hops[o] \/ hops[Nearest(hops, m)] = hops[o]
  BY <1>4, <1>5 DEF Nearest
<1> QED
  BY <1>6

\* guard_shortest_chain's loop: where it is, what it has guarded, and whether it is over.
Walks == [at : Modules, seen : SUBSET Modules, over : BOOLEAN]

Walked(hops, w) ==
    IF w.over \/ prog.imports[w.at] \cap DOMAIN hops = {}
    THEN [w EXCEPT !.over = TRUE]
    ELSE [at |-> Nearest(hops, w.at), seen |-> w.seen \cup {Nearest(hops, w.at)},
          over |-> hops[Nearest(hops, w.at)] = 0]

LEMMA WalkedType ==
    ASSUME prog \in Programs, NEW hops, \A n \in DOMAIN hops : hops[n] \in Nat, NEW w \in Walks
    PROVE  Walked(hops, w) \in Walks /\ w.seen \subseteq Walked(hops, w).seen
<1>1. w.at \in Modules /\ w.seen \in SUBSET Modules /\ w.over \in BOOLEAN
  BY DEF Walks
<1>2. CASE w.over \/ prog.imports[w.at] \cap DOMAIN hops = {}
  <2>1. Walked(hops, w) = [w EXCEPT !.over = TRUE]
    BY <1>2 DEF Walked
  <2> QED
    BY <2>1 DEF Walks
<1>3. CASE ~(w.over \/ prog.imports[w.at] \cap DOMAIN hops = {})
  <2> DEFINE n == Nearest(hops, w.at)
  <2>1. Walked(hops, w) = [at |-> n, seen |-> w.seen \cup {n}, over |-> hops[n] = 0]
    BY <1>3 DEF Walked
  <2>2. n \in prog.imports[w.at]
    BY <1>1, <1>3, NearestExists
  <2>3. n \in Modules
    BY <1>1, <2>2, ProgramFacts
  <2> HIDE DEF n
  <2>4. (hops[n] = 0) \in BOOLEAN
    OBVIOUS
  <2> QED
    BY <1>1, <2>1, <2>3, <2>4 DEF Walks
<1> QED
  BY <1>2, <1>3

LEMMA WalkExists ==
    ASSUME prog \in Programs, NEW hops, \A n \in DOMAIN hops : hops[n] \in Nat, NEW c \in Modules
    PROVE  \E walk \in [Nat -> Walks] :
              /\ walk[0] = [at |-> c, seen |-> {}, over |-> FALSE]
              /\ \A k \in Nat : walk[k + 1] = Walked(hops, walk[k])
              /\ Chain(hops, c) = walk[Cardinality(Modules) + 1].seen
<1> DEFINE a == [at |-> c, seen |-> {}, over |-> FALSE]
           g == [w \in Walks |-> Walked(hops, w)]
           after(w) == Walked(hops, w)
           walk == CHOOSE f : f = [k \in Nat |-> IF k = 0 THEN a ELSE after(f[k - 1])]
<1>1. a \in Walks /\ g \in [Walks -> Walks]
  BY WalkedType DEF Walks
<1>2. Chain(hops, c) = walk[Cardinality(Modules) + 1].seen
  BY DEF Chain, Walked, Nearest
<1> HIDE DEF a, after, walk
<1>3. PICK f \in [Nat -> Walks] : f = [k \in Nat |-> IF k = 0 THEN a ELSE g[f[k - 1]]]
  <2> HIDE DEF g
  <2> QED
    BY <1>1, IteratesExist
<1>4. f = [j \in Nat |-> IF j = 0 THEN a ELSE after(f[j - 1])]
  <2>1. \A j \in Nat : j # 0 => j - 1 \in Nat
    OBVIOUS
  <2>2. \A j \in Nat : j # 0 => g[f[j - 1]] = after(f[j - 1])
    BY <1>3, <2>1 DEF after
  <2> HIDE DEF g
  <2> QED
    BY <1>3, <2>2
<1>5. walk = [j \in Nat |-> IF j = 0 THEN a ELSE after(walk[j - 1])]
  BY <1>4 DEF walk
<1>6. walk[0] = a /\ \A k \in Nat : walk[k + 1] = after(walk[k])
  <2>1. \A k \in Nat : k + 1 \in Nat /\ k + 1 # 0 /\ (k + 1) - 1 = k
    OBVIOUS
  <2> QED
    BY <1>5, <2>1
<1>7. \A k \in Nat : walk[k] \in Walks
  <2> DEFINE missed == {k \in Nat : walk[k] \notin Walks}
  <2>1. SUFFICES ASSUME missed # {} PROVE FALSE
    OBVIOUS
  <2>2. PICK n \in missed : \A k \in missed : n <= k
    <3>1. missed \subseteq Nat
      OBVIOUS
    <3> HIDE DEF missed
    <3> QED
      BY <2>1, <3>1, SmallestNumber
  <2>3. n \in Nat /\ n # 0
    BY <1>1, <1>6, <2>2
  <2>4. n - 1 \in Nat /\ ~(n <= n - 1) /\ (n - 1) + 1 = n
    BY <2>3
  <2>5. walk[n - 1] \in Walks
    BY <2>2, <2>4
  <2>6. walk[n] = Walked(hops, walk[n - 1])
    BY <1>6, <2>4 DEF after
  <2> QED
    BY <2>2, <2>5, <2>6, WalkedType
<1>8. walk \in [Nat -> Walks]
  BY <1>5, <1>7
<1> QED
  BY <1>2, <1>6, <1>8 DEF a, after

\* Some import of a module that is h + 1 hops away is h hops away, and none is closer.
LEMMA HopsDecrease ==
    ASSUME prog \in Programs, NEW t, NEW hops, NEW depth, HopsExact(hops, t, depth),
           NEW m \in DOMAIN hops, hops[m] # 0
    PROVE  /\ \E n \in prog.imports[m] \cap DOMAIN hops : hops[n] = hops[m] - 1
           /\ \A n \in prog.imports[m] \cap DOMAIN hops : hops[n] >= hops[m] - 1
<1> DEFINE h == hops[m] - 1
<1>1. /\ depth \in Nat /\ hops[m] \in 0..depth /\ h \in Nat /\ h + 1 = hops[m] /\ h <= depth
      /\ m \in prog.nodes
  BY WithinLayers DEF HopsExact
<1> HIDE DEF h
<1>2. m \in Within(t, h + 1) /\ m \notin Within(t, h)
  <2>1. ~(hops[m] <= h)
    BY <1>1
  <2> QED
    BY <1>1, <2>1 DEF HopsExact
<1>3. PICK n \in Within(t, h) : m \in NodeImporters(n)
  BY <1>1, <1>2, WithinNext
<1>4. n \in prog.imports[m] /\ n \in DOMAIN hops
  <2>1. Within(t, h) \subseteq Within(t, depth)
    BY <1>1, WithinGrows
  <2> QED
    BY <1>3, <2>1 DEF HopsExact, NodeImporters
<1>5. hops[n] <= h
  BY <1>1, <1>3, <1>4 DEF HopsExact
<1>6. ASSUME NEW o \in prog.imports[m] \cap DOMAIN hops PROVE hops[o] >= h
  <2>1. hops[o] \in Nat /\ o \in Within(t, hops[o])
    BY <1>1 DEF HopsExact
  <2>2. m \in NodeImporters(o)
    BY <1>1 DEF NodeImporters
  <2>3. m \in Within(t, hops[o] + 1) /\ hops[o] + 1 \in Nat
    BY <2>1, <2>2, WithinNext
  <2>4. hops[m] <= hops[o] + 1
    BY <2>3 DEF HopsExact
  <2> QED
    BY <1>1, <2>1, <2>4
<1>7. hops[n] = h
  <2>1. hops[n] \in Nat
    BY <1>1, <1>4 DEF HopsExact
  <2> QED
    BY <1>1, <1>4, <1>5, <1>6, <2>1
<1> QED
  BY <1>4, <1>6, <1>7 DEF h

\* guard_shortest_chain guards all of a shortest way but its first module.
LEMMA ChainIsShortest ==
    ASSUME prog \in Programs, NEW t, NEW hops, NEW depth, HopsExact(hops, t, depth),
           NEW c \in DOMAIN hops, hops[c] # 0, hops[c] <= Cardinality(Modules)
    PROVE  \E w \in Ways(c, t, hops[c]) : \A i \in 1..hops[c] : w[i] \in Chain(hops, c)
<1> DEFINE k == hops[c]
           last == Cardinality(Modules) + 1
<1>1. Cardinality(Modules) \in Nat
  BY NamesAssumption, FS_CardinalityType
<1>2. /\ depth \in Nat /\ DOMAIN hops \subseteq prog.nodes /\ prog.nodes \subseteq Modules
      /\ \A n \in DOMAIN hops : hops[n] \in Nat
  BY WithinLayers, ProgramFacts DEF HopsExact
<1>3. PICK walk \in [Nat -> Walks] :
         /\ walk[0] = [at |-> c, seen |-> {}, over |-> FALSE]
         /\ \A i \in Nat : walk[i + 1] = Walked(hops, walk[i])
         /\ Chain(hops, c) = walk[last].seen
  BY <1>2, WalkExists
<1>4. k \in Nat /\ k # 0 /\ last \in Nat /\ k <= last
  BY <1>1, <1>2
<1> HIDE DEF k, last
<1> DEFINE Right(i) ==
        /\ walk[i].at \in DOMAIN hops /\ hops[walk[i].at] = k - i
        /\ walk[i].over = (i = k)
        /\ i # 0 => walk[i].at \in walk[i].seen /\ walk[i].at \in prog.imports[walk[i - 1].at]
<1>5. Right(0)
  <2>1. walk[0].at = c /\ walk[0].over = FALSE
    BY <1>3
  <2>2. hops[c] = k - 0
    BY <1>4 DEF k
  <2>3. (0 = k) = FALSE
    BY <1>4
  <2> QED
    BY <2>1, <2>2, <2>3
<1>6. ASSUME NEW i \in Nat, i < k, Right(i) PROVE Right(i + 1)
  <2> DEFINE m == walk[i].at
             n == Nearest(hops, m)
  <2>1. m \in DOMAIN hops /\ m \in Modules /\ hops[m] = k - i /\ hops[m] # 0 /\ walk[i].over = FALSE
    <3>1. m \in DOMAIN hops /\ hops[m] = k - i /\ walk[i].over = (i = k)
      BY <1>6
    <3>2. (i = k) = FALSE /\ k - i # 0
      BY <1>4, <1>6
    <3> QED
      BY <1>2, <3>1, <3>2
  <2>2. /\ \E o \in prog.imports[m] \cap DOMAIN hops : hops[o] = hops[m] - 1
        /\ \A o \in prog.imports[m] \cap DOMAIN hops : hops[o] >= hops[m] - 1
    <3> HIDE DEF m
    <3> QED
      BY <2>1, HopsDecrease
  <2>3. /\ n \in prog.imports[m] \cap DOMAIN hops
        /\ \A o \in prog.imports[m] \cap DOMAIN hops : hops[n] <= hops[o]
    <3> HIDE DEF m
    <3> QED
      BY <1>2, <2>1, <2>2, NearestExists
  <2>4. walk[i + 1] = [at |-> n, seen |-> walk[i].seen \cup {n}, over |-> hops[n] = 0]
    BY <1>3, <2>1, <2>2 DEF Walked
  <2> HIDE DEF n, m
  <2>5. hops[n] = k - (i + 1)
    BY <1>2, <1>4, <1>6, <2>1, <2>2, <2>3
  <2>6. (hops[n] = 0) = (i + 1 = k)
    BY <1>4, <2>5
  <2>7. (i + 1) - 1 = i
    OBVIOUS
  <2>8. walk[i + 1].at = n /\ n \in walk[i + 1].seen /\ walk[i + 1].over = (hops[n] = 0)
    BY <2>4
  <2> QED
    BY <2>3, <2>5, <2>6, <2>7, <2>8 DEF m
<1>7. \A i \in 0..k : Right(i)
  <2> DEFINE missed == {i \in 0..k : ~Right(i)}
  <2>1. SUFFICES ASSUME missed # {} PROVE FALSE
    OBVIOUS
  <2>2. PICK i \in missed : \A j \in missed : i <= j
    <3>1. missed \subseteq Nat
      OBVIOUS
    <3> HIDE DEF missed
    <3> QED
      BY <2>1, <3>1, SmallestNumber
  <2>3. i \in 0..k /\ ~Right(i)
    BY <2>2
  <2> HIDE DEF Right
  <2>4. i # 0
    BY <1>5, <2>3
  <2>5. i - 1 \in 0..k /\ i - 1 \in Nat /\ i - 1 < k /\ ~(i <= i - 1) /\ (i - 1) + 1 = i
    BY <1>4, <2>3, <2>4
  <2>6. Right(i - 1)
    BY <2>2, <2>5
  <2>7. Right((i - 1) + 1)
    BY <1>6, <2>5, <2>6
  <2> QED
    BY <2>3, <2>5, <2>7
<1>8. ASSUME NEW i \in 0..last PROVE walk[i].seen \subseteq walk[last].seen
  <2> DEFINE missed == {j \in 0..last : i <= j /\ ~(walk[i].seen \subseteq walk[j].seen)}
  <2>1. SUFFICES ASSUME missed # {} PROVE FALSE
    BY <1>4
  <2>2. PICK j \in missed : \A o \in missed : j <= o
    <3>1. missed \subseteq Nat
      OBVIOUS
    <3> HIDE DEF missed
    <3> QED
      BY <2>1, <3>1, SmallestNumber
  <2>3. j \in 0..last /\ i < j
    BY <2>2
  <2>4. j - 1 \in 0..last /\ j - 1 \in Nat /\ i <= j - 1 /\ ~(j <= j - 1) /\ (j - 1) + 1 = j
    BY <1>4, <2>3
  <2>5. walk[i].seen \subseteq walk[j - 1].seen
    BY <2>2, <2>4
  <2>6. walk[j] = Walked(hops, walk[j - 1]) /\ walk[j - 1] \in Walks
    BY <1>3, <2>4
  <2>7. walk[j - 1].seen \subseteq walk[j].seen
    BY <1>2, <2>6, WalkedType
  <2> QED
    BY <2>2, <2>5, <2>7
<1> DEFINE w == [i \in 0..k |-> walk[i].at]
<1>9. w \in Ways(c, t, k)
  <2>1. w \in [0..k -> Modules]
    BY <1>2, <1>7
  <2>2. w[0] = c
    BY <1>3, <1>4
  <2>3. t \in prog.imports[w[k]]
    <3>1. w[k] \in DOMAIN hops /\ hops[w[k]] = 0
      BY <1>4, <1>7
    <3>2. w[k] \in NodeImporters(t)
      <4> HIDE DEF w
      <4> QED
        BY <3>1, WithinLayers DEF HopsExact
    <3> QED
      BY <3>2 DEF NodeImporters
  <2>4. \A i \in 1..k : w[i] \in prog.imports[w[i - 1]]
    BY <1>4, <1>7
  <2> HIDE DEF w
  <2> QED
    BY <2>1, <2>2, <2>3, <2>4 DEF Ways
<1>10. \A i \in 1..k : w[i] \in Chain(hops, c)
  <2> SUFFICES ASSUME NEW i \in 1..k PROVE w[i] \in Chain(hops, c)
    OBVIOUS
  <2>1. i \in 0..k /\ i # 0 /\ i \in 0..last
    BY <1>4
  <2>2. w[i] \in walk[i].seen
    BY <1>7, <2>1
  <2> HIDE DEF w
  <2> QED
    BY <1>3, <1>8, <2>1, <2>2
<1> QED
  BY <1>9, <1>10 DEF k

\* What propagate_implicit_imports_along_chains promises of a target.
ChainDone(t) == \A m \in (Route(t) \cup {t}) \cap prog.passing : t \in lazy_eligible[m]

Targets == UNION {prog.implicit[m] : m \in prog.passing \cup prog.failing}

ImplicitDone == \A c \in prog.passing : prog.implicit[c] \subseteq lazy_eligible[c]

AfterChains == {"side_effects", "done"}

ChainsInv ==
    /\ TypeInv
    /\ stage \in AfterEntries => ImplicitDone
    /\ stage = "chains" => \A t \in Targets \ todo : ChainDone(t)
    /\ stage \in AfterChains => \A t \in Targets : ChainDone(t)

LEMMA GuardChainsDone ==
    ASSUME TypeInv, NEW t \in Modules, GuardChains(t)
    PROVE  ChainDone(t)'
<1>1. UNCHANGED prog
  BY DEF GuardChains, facts
<1>2. Route(t)' = Route(t)
  BY <1>1 DEF Route, Consumers, Chain, Hops, Within, NodeImporters
<1>3. Joins(lazy_eligible', lazy_eligible, [m \in Route(t) \cup {t} |-> {t}])
  BY GuardChainsAdds
<1>4. \A m \in (Route(t) \cup {t}) \cap prog.passing : t \in lazy_eligible'[m]
  BY <1>3 DEF Joins
<1> QED
  BY <1>1, <1>2, <1>4 DEF ChainDone

LEMMA AddImplicitDone ==
    ASSUME TypeInv, AddImplicit
    PROVE  ImplicitDone'
<1> DEFINE guards == [m \in {n \in prog.passing : prog.implicit[n] # {}} |-> prog.implicit[m]]
<1>1. lazy_eligible' = GuardedAll(lazy_eligible, guards) /\ UNCHANGED prog
  BY DEF AddImplicit, facts
<1> HIDE DEF guards
<1>2. Joins(lazy_eligible', lazy_eligible, guards)
  BY <1>1, GuardedAllJoins
<1>3. \A n \in DOMAIN guards \cap prog.passing : guards[n] \subseteq lazy_eligible'[n]
  BY <1>2 DEF Joins
<1>4. \A c \in prog.passing : prog.implicit[c] \subseteq lazy_eligible'[c]
  BY <1>3 DEF guards
<1> QED
  BY <1>1, <1>4 DEF ImplicitDone

LEMMA ChainsStep == ChainsInv /\ [Next]_vars => ChainsInv'
<1> SUFFICES ASSUME ChainsInv, [Next]_vars PROVE ChainsInv'
  OBVIOUS
<1>1. TypeInv /\ TypeInv'
  BY TypeStep DEF ChainsInv
<1>2. CASE FollowReExports \/ UniteMaps
  BY <1>1, <1>2 DEF FollowReExports, UniteMaps, ChainsInv, AfterEntries, AfterChains
<1>3. CASE LaterStep
  <2>1. UNCHANGED prog
    BY <1>3, LaterStepFacts
  <2>2. Targets' = Targets /\ \A t : Route(t)' = Route(t)
    BY <2>1 DEF Targets, Route, Consumers, Chain, Hops, Within, NodeImporters
  <2>3. CASE stage \in {"scan", "cycles"}
    <3>1. stage' \in {"scan", "cycles", "entries"}
      BY <1>3, <2>3 DEF LaterStep, Scan, AddCycleDeps, GuardChains, PropagateSideEffects, AddEntryGuards,
                        BeginCycles, BeginEntries, AddImplicit, BeginSideEffects, Finish
    <3> QED
      BY <1>1, <3>1 DEF ChainsInv, AfterEntries, AfterChains
  <2>4. CASE stage = "entries"
    <3>1. CASE AddImplicit
      <4>1. ImplicitDone' /\ stage' = "chains" /\ todo' = Targets
        BY <1>1, <3>1, AddImplicitDone DEF AddImplicit, Targets
      <4> QED
        BY <1>1, <2>2, <4>1 DEF ChainsInv, AfterChains
    <3>2. CASE ~AddImplicit
      <4>1. stage' = "entries"
        BY <1>3, <2>4, <3>2 DEF LaterStep, Scan, AddCycleDeps, GuardChains, PropagateSideEffects, AddEntryGuards,
                                BeginCycles, BeginEntries, BeginSideEffects, Finish
      <4> QED
        BY <1>1, <4>1 DEF ChainsInv, AfterEntries, AfterChains
    <3> QED
      BY <3>1, <3>2
  <2>5. CASE stage \notin {"scan", "cycles", "entries"}
    <3>1. stage \in AfterEntries
      BY <1>3, <2>5 DEF LaterStep, Scan, AddCycleDeps, GuardChains, PropagateSideEffects, AddEntryGuards,
                        BeginCycles, BeginEntries, AddImplicit, BeginSideEffects, Finish, AfterEntries
    <3>2. \A n \in prog.passing : lazy_eligible[n] \subseteq lazy_eligible'[n]
      BY <1>1, <1>3, <2>5, Grows
    <3>3. \A t : ChainDone(t) => ChainDone(t)'
      BY <2>1, <2>2, <3>2 DEF ChainDone
    <3>4. ImplicitDone'
      BY <2>1, <3>1, <3>2 DEF ImplicitDone, ChainsInv
    <3>5. CASE stage = "chains"
      <4>1. CASE \E t \in Modules : GuardChains(t)
        <5>1. PICK t \in Modules : GuardChains(t)
          BY <4>1
        <5>2. ChainDone(t)' /\ stage' = "chains" /\ todo' = todo \ {t}
          BY <1>1, <3>5, <5>1, GuardChainsDone DEF GuardChains
        <5> QED
          BY <1>1, <2>2, <3>3, <3>4, <3>5, <5>2 DEF ChainsInv, AfterChains
      <4>2. CASE BeginSideEffects
        BY <1>1, <2>2, <3>3, <3>4, <3>5, <4>2 DEF BeginSideEffects, ChainsInv, AfterChains
      <4> QED
        BY <1>3, <3>5, <4>1, <4>2 DEF LaterStep, Scan, AddCycleDeps, PropagateSideEffects, AddEntryGuards,
                                     BeginCycles, BeginEntries, AddImplicit, Finish
    <3>6. CASE stage # "chains"
      <4>1. stage \in AfterChains /\ stage' \in AfterChains
        BY <1>3, <3>1, <3>6 DEF LaterStep, Scan, AddCycleDeps, GuardChains, PropagateSideEffects, AddEntryGuards,
                                BeginCycles, BeginEntries, AddImplicit, BeginSideEffects, Finish,
                                AfterEntries, AfterChains
      <4> QED
        BY <1>1, <2>2, <3>3, <3>4, <4>1 DEF ChainsInv, AfterChains
    <3> QED
      BY <3>5, <3>6
  <2> QED
    BY <2>3, <2>4, <2>5
<1>4. CASE UNCHANGED vars
  <2>1. UNCHANGED <<prog, stage, todo, lazy_eligible>>
    BY <1>4 DEF vars, facts
  <2>2. Targets' = Targets /\ \A t : Route(t)' = Route(t)
    BY <2>1 DEF Targets, Route, Consumers, Chain, Hops, Within, NodeImporters
  <2>3. \A t : ChainDone(t) => ChainDone(t)'
    BY <2>1, <2>2 DEF ChainDone
  <2>4. ImplicitDone => ImplicitDone'
    BY <2>1 DEF ImplicitDone
  <2> QED
    BY <1>1, <2>1, <2>2, <2>3, <2>4 DEF ChainsInv
<1> QED
  BY <1>2, <1>3, <1>4 DEF Next, Step, Done, LaterStep

\* A consumer that reaches its implicit import through others has a shortest way to
\* it, of which all but the consumer are on the target's route.
LEMMA ShortestOnRoute ==
    ASSUME prog \in Programs, NEW c \in Analysed, NEW t \in prog.implicit[c], t \notin prog.imports[c],
           NEW j \in 0..MaxWay, Ways(c, t, j) # {}
    PROVE  \E k \in 1..MaxWay :
              /\ \A i \in 0..(k - 1) : Ways(c, t, i) = {}
              /\ \E w \in Ways(c, t, k) : \A i \in 1..k : w[i] \in Route(t)
<1> DEFINE consumers == Consumers(t)
           hops == Hops(t, consumers)
<1>1. c \in consumers /\ c \in prog.nodes
  BY ProgramFacts DEF Consumers, Analysed
<1>2. PICK depth \in Nat : /\ HopsExact(hops, t, depth)
                           /\ consumers \subseteq Within(t, depth) \/ depth = Cardinality(Modules)
  <2> HIDE DEF consumers
  <2> QED
    BY <1>1, HopsFacts
<1>3. Cardinality(Modules) \in Nat
  BY NamesAssumption, FS_CardinalityType
<1>4. j \in Nat /\ j <= MaxWay /\ j <= Cardinality(Modules) /\ MaxWay <= Cardinality(Modules) /\ MaxWay \in Int
  BY <1>3 DEF MaxWay
<1>5. \A i \in Nat : Ways(c, t, i) # {} => c \in Within(t, i)
  BY <1>1, WayWithin
<1>6. c \in Within(t, depth)
  <2>1. CASE consumers \subseteq Within(t, depth)
    BY <1>1, <2>1
  <2>2. CASE depth = Cardinality(Modules)
    <3>1. c \in Within(t, j) /\ j <= depth
      BY <1>4, <1>5, <2>2
    <3> QED
      BY <1>4, <3>1, WithinGrows
  <2> QED
    BY <1>2, <2>1, <2>2
<1> HIDE DEF consumers, hops
<1> DEFINE k == hops[c]
<1>7. /\ c \in DOMAIN hops /\ k \in Nat /\ c \in Within(t, k)
      /\ \A i \in Nat : c \in Within(t, i) => k <= i
  BY <1>2, <1>6 DEF HopsExact
<1>8. k # 0
  <2>1. c \notin Within(t, 0)
    BY WithinLayers DEF NodeImporters
  <2> QED
    BY <1>7, <2>1
<1>9. k <= j
  BY <1>4, <1>5, <1>7
<1>10. k \in 1..MaxWay /\ k <= Cardinality(Modules)
  BY <1>3, <1>4, <1>7, <1>8, <1>9
<1>11. \A i \in 0..(k - 1) : Ways(c, t, i) = {}
  <2> SUFFICES ASSUME NEW i \in 0..(k - 1), Ways(c, t, i) # {} PROVE FALSE
    OBVIOUS
  <2>1. i \in Nat /\ ~(k <= i)
    BY <1>7
  <2> QED
    BY <1>5, <1>7, <2>1
<1>12. \E w \in Ways(c, t, k) : \A i \in 1..k : w[i] \in Chain(hops, c)
  BY <1>2, <1>7, <1>8, <1>10, ChainIsShortest
<1>13. Chain(hops, c) \subseteq Route(t)
  BY <1>1 DEF Route, hops, consumers
<1> HIDE DEF k
<1>14. \E w \in Ways(c, t, k) : \A i \in 1..k : w[i] \in Route(t)
  BY <1>12, <1>13
<1> QED
  BY <1>10, <1>11, <1>14

\* An implicit import is a guard of its consumer and of itself, and when the consumer
\* reaches it only through others, one of the shortest ways to it is guarded throughout
\* (propagate_implicit_imports_along_chains, guard_shortest_chain).
THEOREM ChainsAreGuarded == Spec => []ChainsGuarded
<1>1. Init => ChainsInv
  BY TypeInit DEF ChainsInv, AfterEntries, AfterChains, Init
<1>2. ChainsInv => ChainsGuarded
  <2> SUFFICES ASSUME ChainsInv, stage = "done", NEW c \in prog.passing \cup prog.failing,
                      NEW t \in prog.implicit[c]
               PROVE  /\ \A m \in {c, t} \cap prog.passing : t \in lazy_eligible[m]
                      /\ \/ t \in prog.imports[c]
                         \/ \A k \in 0..MaxWay : Ways(c, t, k) = {}
                         \/ \E k \in 1..MaxWay :
                              /\ \A j \in 0..(k - 1) : Ways(c, t, j) = {}
                              /\ \E w \in Ways(c, t, k) :
                                   \A i \in 1..k : w[i] \in prog.passing => t \in lazy_eligible[w[i]]
    BY DEF ChainsGuarded
  <2>1. prog \in Programs /\ ImplicitDone /\ ChainDone(t)
    BY DEF ChainsInv, TypeInv, ChainInv, AfterEntries, AfterChains, Targets
  <2>2. \A m \in {c, t} \cap prog.passing : t \in lazy_eligible[m]
    BY <2>1 DEF ImplicitDone, ChainDone
  <2>3. ASSUME t \notin prog.imports[c], NEW j \in 0..MaxWay, Ways(c, t, j) # {}
        PROVE  \E k \in 1..MaxWay :
                 /\ \A i \in 0..(k - 1) : Ways(c, t, i) = {}
                 /\ \E w \in Ways(c, t, k) :
                      \A i \in 1..k : w[i] \in prog.passing => t \in lazy_eligible[w[i]]
    <3>1. PICK k \in 1..MaxWay :
             /\ \A i \in 0..(k - 1) : Ways(c, t, i) = {}
             /\ \E w \in Ways(c, t, k) : \A i \in 1..k : w[i] \in Route(t)
      BY <2>1, <2>3, ShortestOnRoute DEF Analysed
    <3> QED
      BY <2>1, <3>1 DEF ChainDone
  <2> QED
    BY <2>2, <2>3
<1> QED
  BY <1>1, <1>2, ChainsStep, PTL DEF Spec
=============================================================================
