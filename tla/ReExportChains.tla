---------------------------- MODULE ReExportChains ----------------------------
(***************************************************************************)
(* Which failing modules stand behind the names a module re-exports, from  *)
(* a cache (src/output/policy.rs): chains of re-exports are followed in    *)
(* parallel tasks, each with a memo of its own, and must lead where the    *)
(* whole-program path leads, exports.rs's resolve_chain.  OutputPolicy     *)
(* begins with these steps.                                                *)
(*                                                                         *)
(* A re-export is known by the attribute it exports; re_exports maps it to *)
(* the attribute it imports.  Home is the module an attribute is in.       *)
(***************************************************************************)
EXTENDS FiniteSets, Naturals, Digraph

CONSTANTS Attrs, Modules, Home, Tasks, NoModule

ASSUME HomeAssumption == Home \in [Attrs -> Modules] /\ NoModule \notin Modules

VARIABLES
    re_exports, failing_modules,
    untaken,          \* the re-exports no task has taken
    start, cur,       \* per task: the re-export it follows and where it is
    path, visited,
    memo,             \* per task: from re-exports to modules, or to NoModule
    map               \* per task: pairs of a module and a failing source

scratch == <<start, cur, path, visited, memo, map>>

chainVars == <<re_exports, failing_modules, untaken, scratch>>

Idle == [t \in Tasks |-> {}]

NoMemo == [t \in Tasks |-> [a \in {} |-> NoModule]]

EmptyScratch ==
    /\ start = Idle /\ cur = Idle /\ path = Idle /\ visited = Idle
    /\ memo = NoMemo /\ map = Idle

ForgetScratch ==
    /\ start' = Idle /\ cur' = Idle /\ path' = Idle /\ visited' = Idle
    /\ memo' = NoMemo /\ map' = Idle

\* The fold's step: a failing source goes to the module that re-exports it.
Recorded(m, a, source) ==
    m \cup IF source \in failing_modules THEN {<<Home[a], source>>} ELSE {}

\* Faulty variant: what the walk before has passed is kept.
StartChainUncleared(t, a) ==
    /\ start[t] = {} /\ a \in untaken
    /\ untaken' = untaken \ {a}
    /\ IF a \in DOMAIN memo[t]
       THEN /\ map' = [map EXCEPT ![t] = Recorded(@, a, memo[t][a])]
            /\ UNCHANGED <<start, cur, path, visited>>
       ELSE /\ start' = [start EXCEPT ![t] = {a}]
            /\ cur' = [cur EXCEPT ![t] = {re_exports[a]}]
            /\ visited' = [visited EXCEPT ![t] = {}]
            /\ UNCHANGED <<map, path>>
    /\ UNCHANGED <<re_exports, failing_modules, memo>>

\* resolve_reexport_chain: a task takes a re-export.
StartChain(t, a) ==
    /\ start[t] = {} /\ a \in untaken
    /\ untaken' = untaken \ {a}
    /\ IF a \in DOMAIN memo[t]
       THEN /\ map' = [map EXCEPT ![t] = Recorded(@, a, memo[t][a])]
            /\ UNCHANGED <<start, cur, path, visited>>
       ELSE /\ start' = [start EXCEPT ![t] = {a}]
            /\ cur' = [cur EXCEPT ![t] = {re_exports[a]}]
            /\ path' = [path EXCEPT ![t] = {}]
            /\ visited' = [visited EXCEPT ![t] = {}]
            /\ UNCHANGED map
    /\ UNCHANGED <<re_exports, failing_modules, memo>>

\* Neither memoised nor seen in this walk.
Follow(t, c) == cur[t] = {c} /\ c \in DOMAIN re_exports \ (DOMAIN memo[t] \cup visited[t])

Hop(t, c) ==
    /\ Follow(t, c)
    /\ visited' = [visited EXCEPT ![t] = @ \cup {c}]
    /\ path' = [path EXCEPT ![t] = @ \cup {c}]
    /\ cur' = [cur EXCEPT ![t] = {re_exports[c]}]
    /\ UNCHANGED <<re_exports, failing_modules, untaken, start, memo, map>>

\* Faulty variant: a cycle ends where it is noticed.
ResultAnyway(t, c) == IF c \in DOMAIN memo[t] THEN memo[t][c] ELSE Home[c]

\* What the loop breaks with.
Result(t, c) ==
    IF c \in DOMAIN memo[t] THEN memo[t][c] ELSE IF c \in visited[t] THEN NoModule ELSE Home[c]

\* The result is memoised for the re-export and for the whole path.
EndChain(t, c) ==
    /\ cur[t] = {c} /\ ~Follow(t, c)
    /\ LET result == Result(t, c)
           known == start[t] \cup path[t]
       IN  /\ memo' = [memo EXCEPT ![t] =
                         [a \in DOMAIN @ \cup known |-> IF a \in known THEN result ELSE @[a]]]
           /\ \E a \in start[t] : map' = [map EXCEPT ![t] = Recorded(@, a, result)]
    /\ start' = [start EXCEPT ![t] = {}] /\ cur' = [cur EXCEPT ![t] = {}]
    /\ UNCHANGED <<re_exports, failing_modules, untaken, path, visited>>

ChainStep == \E t \in Tasks, a \in Attrs : StartChain(t, a) \/ Hop(t, a) \/ EndChain(t, a)

AllChained == untaken = {} /\ start = Idle

-----------------------------------------------------------------------------
(* Properties.                                                              *)

\* resolve_chain: where the whole-program path ends, NoModule on a cycle.
ResolveChain(a) ==
    LET next == [b \in Attrs |-> IF b \in DOMAIN re_exports THEN {re_exports[b]} ELSE {}]
        ends == Reached(next, {a}) \ DOMAIN re_exports
    IN  IF ends = {} THEN NoModule ELSE Home[CHOOSE e \in ends : TRUE]

\* Type invariant.
ChainsTypeOK ==
    /\ untaken \subseteq DOMAIN re_exports
    /\ \A t \in Tasks :
         /\ start[t] \subseteq DOMAIN re_exports \ untaken /\ Cardinality(start[t]) <= 1
         /\ start[t] = {} <=> cur[t] = {}
         /\ path[t] = visited[t] /\ visited[t] \subseteq DOMAIN re_exports
         /\ DOMAIN memo[t] \subseteq DOMAIN re_exports
         /\ map[t] \subseteq Modules \X Modules

\* Type correct; and a memoised module is the one the chain ends in, also for the
\* chains that met a cycle or another's memo halfway ("matching the non-cached
\* path", policy.rs).
MemoExact ==
    /\ ChainsTypeOK
    /\ \A t \in Tasks : \A a \in DOMAIN memo[t] : memo[t][a] = ResolveChain(a)

=============================================================================
