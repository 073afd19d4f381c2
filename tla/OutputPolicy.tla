----------------------------- MODULE OutputPolicy -----------------------------
(***************************************************************************)
(* From module verdicts to lazy_eligible (src/output/policy.rs): which     *)
(* modules must be imported before a passing module may be lazy, its       *)
(* guards.  Phases follow one another; inside, modules, cycles and targets *)
(* of implicit imports are taken in parallel, in any order.  First the     *)
(* chains of re-exports are followed (ReExportChains).                     *)
(*                                                                         *)
(* A program holds the import graph (nodes, imports, missing), which       *)
(* modules pass and which fail, the re-exports, the implicit imports and   *)
(* the side-effect imports.  Package is the package a name is in, Rank the *)
(* order of names.                                                         *)
(***************************************************************************)
EXTENDS ReExportChains

CONSTANTS Package, Rank, Programs

ASSUME NamesAssumption ==
    /\ IsFiniteSet(Modules)
    /\ Package \in [Modules -> Modules \cup {NoModule}]
    /\ Rank \in [Modules -> Nat]
    /\ \A a, b \in Modules : Rank[a] = Rank[b] => a = b

\* iter_parents: the packages that a module is in.
Ancestors ==
    LET up == [m \in Modules |-> {Package[m]} \ {NoModule}]
    IN  [m \in Modules |-> Reached(up, up[m])]

\* A package's name is a proper prefix of the names in it.
ASSUME PackageAssumption == \A m \in Modules : m \notin Ancestors[m]

IsProgram(p) ==
    /\ p.nodes \subseteq Modules
    /\ p.imports \in [Modules -> SUBSET p.nodes]
    /\ p.missing \in [Modules -> SUBSET (Modules \ p.nodes)]
    /\ p.passing \cup p.failing \subseteq p.nodes /\ p.passing \cap p.failing = {}
    /\ \E exported \in SUBSET Attrs : p.re_exports \in [exported -> Attrs]
    /\ p.implicit \in [Modules -> SUBSET Modules]
    /\ p.side_effects \in [Modules -> SUBSET Modules]

ASSUME ProgramsAssumption == \A p \in Programs : IsProgram(p)

VARIABLES
    prog,
    implicit_parents,
    cycles,
    re_export_map,    \* the failing sources of a module's re-exports
    stage,
    todo,             \* what the stage has left
    lazy_eligible,    \* the guards of each passing module seen so far
    has_failing_deps  \* the modules with guards when side effects are begun

facts == <<prog, implicit_parents, cycles, re_export_map, chainVars>>

vars == <<facts, stage, todo, lazy_eligible, has_failing_deps>>

-----------------------------------------------------------------------------
(* Packages and cycles.                                                     *)

\* implicit_parent_imports: the packages that run before an import does.
ImplicitParents(p) ==
    [m \in Modules |->
        {a \in (UNION {Ancestors[t] : t \in p.imports[m]}) \cap p.nodes :
            a # m /\ a \notin Ancestors[m]}]

\* The edges find_cycles keeps: a module's own packages have run already.
CycleEdges(p, parents) == [m \in Modules |-> (p.imports[m] \cup parents[m]) \ Ancestors[m]]

\* collect_cycles: components of several nodes, their analysed members.
CyclesOf(p, parents) ==
    LET edges == CycleEdges(p, parents)
        component(m) ==
            {m} \cup {n \in Reached(edges, edges[m]) : m \in Reached(edges, edges[n])}
    IN  {component(m) \cap (p.passing \cup p.failing) :
            m \in {n \in p.nodes : Cardinality(component(n)) > 1}} \ {{}}

CycleModules == UNION cycles

Children(m) == {c \in prog.nodes : Package[c] = m}

-----------------------------------------------------------------------------
(* Guards.                                                                  *)

\* entry(m).or_default().extend(guards), for a passing module.
Guarded(l, m, guards) ==
    IF m \notin prog.passing THEN l
    ELSE IF m \in DOMAIN l THEN [l EXCEPT ![m] = @ \cup guards]
    ELSE [n \in DOMAIN l \cup {m} |-> IF n = m THEN guards ELSE l[n]]

\* guards[m] for every m of a set.
GuardedAll(l, guards) ==
    [m \in DOMAIN l \cup (DOMAIN guards \cap prog.passing) |->
        (IF m \in DOMAIN l THEN l[m] ELSE {}) \cup (IF m \in DOMAIN guards THEN guards[m] ELSE {})]

Init ==
    /\ prog \in Programs
    /\ implicit_parents = ImplicitParents(prog)
    /\ cycles = CyclesOf(prog, implicit_parents)
    /\ re_exports = prog.re_exports /\ untaken = DOMAIN re_exports
    /\ failing_modules = prog.failing
    /\ EmptyScratch
    /\ re_export_map = [m \in Modules |-> {}]
    /\ stage = "re_exports" /\ todo = {}
    /\ lazy_eligible = [m \in {} |-> {}]
    /\ has_failing_deps = {}

\* build_re_export_map_from_cache, one task's step.
FollowReExports ==
    /\ stage = "re_exports"
    /\ ChainStep
    /\ UNCHANGED <<prog, implicit_parents, cycles, re_export_map, stage, todo, lazy_eligible, has_failing_deps>>

\* The tasks' maps are united; their memos go.
UniteMaps ==
    /\ stage = "re_exports" /\ AllChained
    /\ re_export_map' = [m \in Modules |-> {e[2] : e \in {f \in UNION {map[t] : t \in Tasks} : f[1] = m}}]
    /\ stage' = "scan" /\ todo' = prog.nodes
    /\ ForgetScratch
    /\ UNCHANGED <<prog, implicit_parents, cycles, re_exports, failing_modules, untaken,
                   lazy_eligible, has_failing_deps>>

\* build_lazy_eligible, one module.  The entry is inserted, not extended.
Scan(m) ==
    /\ stage = "scan" /\ m \in todo
    /\ LET imports == prog.imports[m]
           guards == (imports \cap prog.failing) \cup (UNION {re_export_map[i] : i \in imports})
                     \cup prog.missing[m]
                     \cup ((Ancestors[m] \ {Package[m]}) \cap CycleModules)
       IN  lazy_eligible' =
             IF m \in prog.passing
             THEN [n \in DOMAIN lazy_eligible \cup {m} |-> IF n = m THEN guards ELSE lazy_eligible[n]]
             ELSE lazy_eligible
    /\ todo' = todo \ {m}
    /\ UNCHANGED <<facts, stage, has_failing_deps>>

BeginCycles ==
    /\ stage = "scan" /\ todo = {}
    /\ stage' = "cycles" /\ todo' = CycleModules
    /\ UNCHANGED <<facts, lazy_eligible, has_failing_deps>>

\* Faulty variant: a child gets its package's guards as they are.
ToChildrenAsIs(m, deps) == [c \in Children(m) |-> deps]

\* propagate_to_children: a child is never its own guard.
ToChildren(m, deps) == [c \in Children(m) |-> {IF d = c THEN m ELSE d : d \in deps}]

\* Faulty variant: packages that an import runs do not count.
AddCycleDepsDirect(m) ==
    /\ stage = "cycles" /\ m \in todo
    /\ LET cycle == CHOOSE c \in cycles : m \in c
           imports == (prog.imports[m] \ {m}) \cap cycle
       IN  lazy_eligible' =
             IF m \notin prog.passing THEN GuardedAll(lazy_eligible, ToChildren(m, {m}))
             ELSE GuardedAll(Guarded(lazy_eligible, m, imports), ToChildren(m, imports))
    /\ todo' = todo \ {m}
    /\ UNCHANGED <<facts, stage, has_failing_deps>>

\* add_cycle_deps, one member of a cycle.
AddCycleDeps(m) ==
    /\ stage = "cycles" /\ m \in todo
    /\ LET cycle == CHOOSE c \in cycles : m \in c
           imports == ((prog.imports[m] \cup implicit_parents[m]) \ {m}) \cap cycle
       IN  lazy_eligible' =
             IF m \notin prog.passing THEN GuardedAll(lazy_eligible, ToChildren(m, {m}))
             ELSE GuardedAll(Guarded(lazy_eligible, m, imports), ToChildren(m, imports))
    /\ todo' = todo \ {m}
    /\ UNCHANGED <<facts, stage, has_failing_deps>>

BeginEntries ==
    /\ stage = "cycles" /\ todo = {}
    /\ stage' = "entries" /\ todo' = cycles
    /\ UNCHANGED <<facts, lazy_eligible, has_failing_deps>>

\* outermost_member_ancestor, or the module itself.
Entry(cycle, m) ==
    LET above == Ancestors[m] \cap cycle
    IN  IF above = {} THEN m ELSE CHOOSE a \in above : Ancestors[a] \cap cycle = {}

\* Faulty variant: only whoever imports the member itself.
ImportersDirect(m) == {n \in prog.nodes : m \in prog.imports[n]}

\* Whoever runs a member by an import: its importers and those of what it contains.
Importers(m) == {n \in prog.nodes : m \in prog.imports[n] \cup implicit_parents[n]}

\* Who runs no member of the cycle by merely being imported.
Outside(cycle, m) == m \notin cycle /\ Ancestors[m] \cap cycle = {}

\* The members through which outsiders enter a cycle.
Entries(cycle) ==
    [n \in {i \in UNION {Importers(m) : m \in cycle} : Outside(cycle, i)} |->
        {Entry(cycle, m) : m \in {c \in cycle : n \in Importers(c)}}]

\* add_cycle_entry_guards, one cycle.
AddEntryGuards(cycle) ==
    /\ stage = "entries" /\ cycle \in todo
    /\ LET entries == Entries(cycle)
           used == UNION {entries[n] : n \in DOMAIN entries}
       IN  lazy_eligible' = IF Cardinality(used) <= 1 THEN lazy_eligible
                            ELSE GuardedAll(lazy_eligible, entries)
    /\ todo' = todo \ {cycle}
    /\ UNCHANGED <<facts, stage, has_failing_deps>>

\* The implicit imports of the passing modules are added at once.
AddImplicit ==
    /\ stage = "entries" /\ todo = {}
    /\ lazy_eligible' = GuardedAll(lazy_eligible,
           [m \in {n \in prog.passing : prog.implicit[n] # {}} |-> prog.implicit[m]])
    /\ stage' = "chains"
    /\ todo' = UNION {prog.implicit[m] : m \in prog.passing \cup prog.failing}
    /\ UNCHANGED <<facts, has_failing_deps>>

-----------------------------------------------------------------------------
(* Chains of imports that provide an implicit import.                       *)

NodeImporters(m) == {n \in prog.nodes : m \in prog.imports[n]}

\* The importers of a target that are at most k hops away.
Within(target, k) ==
    LET layer[j \in Nat] ==
            IF j = 0 THEN NodeImporters(target)
            ELSE LET near == layer[j - 1] IN near \cup (UNION {NodeImporters(n) : n \in near})
    IN  layer[k]

\* hops_to_target: the search stops with the layer that reaches the last consumer.
Hops(target, consumers) ==
    LET all == Cardinality(Modules)
        enough == {k \in 0..all : consumers \subseteq Within(target, k)}
        depth == IF enough = {} THEN all ELSE Min(enough)
        reached == IF consumers = {} THEN {} ELSE Within(target, depth)
    IN  [m \in reached |-> Min({k \in 0..depth : m \in Within(target, k)})]

\* Faulty variant: of the imports on a way to the target, the lower name.
ChainByName(hops, consumer) ==
    LET next(m) ==
            CHOOSE n \in prog.imports[m] \cap DOMAIN hops :
                \A o \in (prog.imports[m] \cap DOMAIN hops) \ {n} : Rank[n] < Rank[o]
        walk[k \in Nat] ==
            IF k = 0 THEN [at |-> consumer, seen |-> {}, over |-> FALSE]
            ELSE LET w == walk[k - 1]
                 IN  IF w.over \/ prog.imports[w.at] \cap DOMAIN hops = {}
                     THEN [w EXCEPT !.over = TRUE]
                     ELSE [at |-> next(w.at), seen |-> w.seen \cup {next(w.at)},
                           over |-> hops[next(w.at)] = 0]
    IN  walk[Cardinality(Modules) + 1].seen

\* guard_shortest_chain: the imports with fewest hops, then the lower name.
Chain(hops, consumer) ==
    LET next(m) ==
            CHOOSE n \in prog.imports[m] \cap DOMAIN hops :
                \A o \in (prog.imports[m] \cap DOMAIN hops) \ {n} :
                    hops[n] < hops[o] \/ (hops[n] = hops[o] /\ Rank[n] < Rank[o])
        walk[k \in Nat] ==
            IF k = 0 THEN [at |-> consumer, seen |-> {}, over |-> FALSE]
            ELSE LET w == walk[k - 1]
                 IN  IF w.over \/ prog.imports[w.at] \cap DOMAIN hops = {}
                     THEN [w EXCEPT !.over = TRUE]
                     ELSE [at |-> next(w.at), seen |-> w.seen \cup {next(w.at)},
                           over |-> hops[next(w.at)] = 0]
    IN  walk[Cardinality(Modules) + 1].seen

\* propagate_implicit_imports_along_chains, one target.
GuardChains(target) ==
    /\ stage = "chains" /\ target \in todo
    /\ LET consumers == {m \in prog.passing \cup prog.failing :
                            target \in prog.implicit[m] /\ target \notin prog.imports[m]}
           hops == Hops(target, consumers)
           route == UNION {Chain(hops, c) : c \in consumers}
       IN  lazy_eligible' = GuardedAll(lazy_eligible, [m \in route \cup {target} |-> {target}])
    /\ todo' = todo \ {target}
    /\ UNCHANGED <<facts, stage, has_failing_deps>>

\* modules_with_failing_deps is taken before any side effect is propagated.
BeginSideEffects ==
    /\ stage = "chains" /\ todo = {}
    /\ stage' = "side_effects" /\ todo' = Modules
    /\ has_failing_deps' = {m \in DOMAIN lazy_eligible : lazy_eligible[m] # {}}
    /\ UNCHANGED <<facts, lazy_eligible>>

\* propagate_side_effect_entry
PropagateSideEffects(m) ==
    /\ stage = "side_effects" /\ m \in todo
    /\ lazy_eligible' = IF prog.side_effects[m] = {} THEN lazy_eligible
                        ELSE Guarded(lazy_eligible, m, prog.side_effects[m] \cap has_failing_deps)
    /\ todo' = todo \ {m}
    /\ UNCHANGED <<facts, stage, has_failing_deps>>

Finish ==
    /\ stage = "side_effects" /\ todo = {}
    /\ stage' = "done"
    /\ UNCHANGED <<facts, todo, lazy_eligible, has_failing_deps>>

Done == stage = "done" /\ UNCHANGED vars

Step ==
    \/ \E m \in Modules :
          Scan(m) \/ AddCycleDeps(m) \/ GuardChains(m) \/ PropagateSideEffects(m)
    \/ \E cycle \in cycles : AddEntryGuards(cycle)
    \/ FollowReExports \/ UniteMaps
    \/ BeginCycles \/ BeginEntries \/ AddImplicit \/ BeginSideEffects \/ Finish

Next == Step \/ Done

\* Some task goes on while one has work, and then their maps are united.
Spec == Init /\ [][Next]_vars /\ WF_vars(FollowReExports \/ UniteMaps)

-----------------------------------------------------------------------------
(* Properties.                                                              *)

\* Type invariant.
TypeOK ==
    /\ stage \in {"re_exports", "scan", "cycles", "entries", "chains", "side_effects", "done"}
    /\ todo \subseteq IF stage = "entries" THEN cycles ELSE Modules
    /\ DOMAIN lazy_eligible \subseteq prog.passing
    /\ \A m \in DOMAIN lazy_eligible : lazy_eligible[m] \subseteq Modules
    /\ has_failing_deps \subseteq prog.passing

\* Following the re-exports ends, whatever cycles they form, and together the tasks
\* have found for every module the failing sources that build_re_export_map finds,
\* whoever took what.
SourcesMatch ==
    <>[](/\ stage # "re_exports"
         /\ \A m \in Modules :
              re_export_map[m] =
                {ResolveChain(re_exports[a]) : a \in {b \in DOMAIN re_exports : Home[b] = m}} \cap prog.failing)

\* In the end exactly the passing modules have an entry: "modules that do not
\* appear as keys have been analyzed as unsafe" (README.md), whichever of the six
\* phases wrote it.
KeysArePassing == stage = "done" => DOMAIN lazy_eligible = prog.passing

\* Ways from c to an importer of t, over k imports.
Ways(c, t, k) ==
    {w \in [0..k -> Modules] :
        w[0] = c /\ t \in prog.imports[w[k]] /\ \A i \in 1..k : w[i] \in prog.imports[w[i - 1]]}

MaxWay == Cardinality(Modules) - 1

\* An implicit import is a guard of its consumer and of itself, and if the
\* consumer reaches it only through others, a shortest way to it has no passing
\* module that would stay lazy.
ChainsGuarded ==
    stage = "done" =>
        \A c \in prog.passing \cup prog.failing : \A t \in prog.implicit[c] :
            /\ \A m \in {c, t} \cap prog.passing : t \in lazy_eligible[m]
            /\ \/ t \in prog.imports[c]
               \/ \A k \in 0..MaxWay : Ways(c, t, k) = {}
               \/ \E k \in 1..MaxWay :
                    /\ \A j \in 0..(k - 1) : Ways(c, t, j) = {}
                    /\ \E w \in Ways(c, t, k) :
                         \A i \in 1..k : w[i] \in prog.passing => t \in lazy_eligible[w[i]]

\* Import cycles, as closed walks over direct imports and the packages they run.
ClosedWalks(k) ==
    {w \in [0..k -> prog.passing \cup prog.failing] :
        w[0] = w[k] /\ \A i \in 1..k : w[i] # w[i - 1] /\ w[i] \in CycleEdges(prog, implicit_parents)[w[i - 1]]}

\* On every import cycle a passing module has the module it imports next as a
\* guard, and a passing submodule of it is not lazier: it has the same guard, or
\* the package itself where it would guard itself.
CyclesGuarded ==
    stage = "done" =>
        \A k \in 2..3 : \A w \in ClosedWalks(k) :
            LET m == w[0] dep == w[1]
            IN  m \in prog.passing =>
                    /\ dep \in lazy_eligible[m]
                    /\ \A c \in Children(m) \cap prog.passing :
                          (IF dep = c THEN m ELSE dep) \in lazy_eligible[c]

\* Which member of a cycle runs first when o imports m: the outermost package.
RunsFirst(cycle, m) ==
    CHOOSE e \in {m} \cup (Ancestors[m] \cap cycle) : Ancestors[e] \cap cycle = {}

\* "When modules outside a cycle can enter it through more than one member, each
\* of them is also guarded by the member it enters through" (architecture.md).
EntriesGuarded ==
    stage = "done" =>
        \A cycle \in cycles :
            LET enters == {e \in prog.nodes \X cycle :
                              /\ Outside(cycle, e[1])
                              /\ e[2] \in prog.imports[e[1]] \cup implicit_parents[e[1]]}
                used == {RunsFirst(cycle, e[2]) : e \in enters}
            IN  Cardinality(used) > 1 =>
                    \A e \in enters : e[1] \in prog.passing =>
                        RunsFirst(cycle, e[2]) \in lazy_eligible[e[1]]

\* Type correct; and no module waits for itself, unless it is an implicit import:
\* the way through packages, cycles and submodules never leads back.
NoSelfGuard ==
    /\ TypeOK /\ KeysArePassing
    /\ \A m \in DOMAIN lazy_eligible :
        m \in lazy_eligible[m] =>
            m \in prog.side_effects[m] \/ \E c \in prog.nodes : m \in prog.implicit[c]

=============================================================================
