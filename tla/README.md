# A TLA+ model of Lifeguard

Lifeguard is a static analyzer, written in Rust, that decides which modules of a Python
program can be imported lazily.  A module whose import runs code with side effects must stay
eager, and most of the program's core logic answers one question: *is it safe to call this
function while a module is being imported?*  This directory holds a model of that logic, its
model-checking runs, and machine-checked proofs.  Paths below are relative to `src/`, so the
crate is under `src/src` there; line numbers are those of the modelled commit.

## 1. The system

A whole-program run is a pipeline of phases.  Each phase is parallel inside (rayon) and ends
before the next one starts.

    sources      source_map.rs, find_sources.rs
      -> import graph, exports          imports.rs, graph.rs, exports.rs
      -> effects of every scope         source_analyzer.rs and its helpers, per module, parallel
      -> ProjectInfo                    project/builder.rs, info.rs, types.rs, mro.rs
      -> call graph and verdicts        project/call_graph.rs, calls.rs, dispatch.rs, csr_graph.rs
      -> resolution                     resolution.rs, called from project/safety.rs
      -> module-scope error pass        project/safety.rs, analysis.rs, parallel over modules
      -> eager and lazy sets            output/policy.rs

The incremental variant runs the first five phases per library, writes a cache
(`cache/artifact.rs`), and a later *reduce* merges the caches (`cache/merge.rs`), drops the
facts of inactive `__main__` guards (`cache/main_guard.rs`), and runs the same resolution
(`cache/reduce.rs`, `safety_resolver.rs`).

Two Python scripts maintain the bundled stubs the analysis starts from: one moves the effect
annotations of overloads into the first overload, the other runs it over a directory, in place.

### Inventory

| component | state | operations | what makes it hard | what should hold |
|---|---|---|---|---|
| call graph and verdict precompute (`project/call_graph.rs`, `state.rs`) | the edges; `function_safety`, a concurrent map from name to a verdict and the callees it waits for | build edges, mark members of cycles unsafe, mark safelisted names safe, visit the levels in parallel | worker threads share the map; the order of visits must make every read a read of a final entry | verdicts independent of the schedule; nothing unsafe behind a safe verdict; no re-entry; termination |
| call checking (`project/calls.rs`) | a stack of activations per thread | `check_call_body`, `check_call_safety`, `check_constructor_call`, recording a failed callee | reads an entry and later writes another; recursion on a body without a verdict | as above |
| dispatch (`project/dispatch.rs`) | none (lookups) | the callees of calls, `super()`, class statements, constructors, decorators | the edges and the reads are computed by two pieces of code that must agree | every body that is run has an edge |
| CSR graph (`csr_graph.rs`) | explicit stacks of an iterative Tarjan pass, and of a leveling pass | find cycles; assign levels | stack discipline, self-loops, back edges | cycles exact, levels exact, termination |
| resolution (`resolution.rs`) | the merged verdict map, promotion candidates, two indices of unqualified names | confirm, discharge, promote in rounds | order of a hash map; rounds decided in parallel; indices extended but never rebuilt | order independence; a sound and complete fixpoint without circular justification |
| mutated parameters (`project/mutations.rs`) | parameter sets per function, a worklist | propagate along call edges, collect candidates | worklist order, termination | least fixpoint |
| module-scope error pass (`project/safety.rs`, `analysis.rs`, `module_safety.rs`) | a concurrent map with an entry for each module | check eager scopes, publish errors, write back resolved verdicts, finalize | a scope that fails half-way replaces the entry of its module; the verdict of a function is moved to the entry of a nested module that owns it | no error is lost; only the verdict is written back, not the dependencies |
| safety resolver (`safety_resolver.rs`) | cached errors | clear those that merged verdicts refute | runs after the resolution, on stale errors | clears only what was found safe by then, and what stays is not safe |
| cache reduce and merge (`cache/*.rs`) | caches, merged facts, a re-export worklist | merge, re-queue, reduce | order of caches, conflicting records, re-queue conditions | independence of the order; re-export verdicts never too good |
| main guard (`cache/main_guard.rs`) | facts tagged with a guard | drop those of inactive guards | documented divergence from the whole-program run (`docs/architecture.md`) | active and inactive guards of one module are told apart |
| output policy (`output/policy.rs`) | module verdicts | eager and lazy sets, exclusions | propagation to the importers | a module that must be eager is |
| import graph, implicit imports (`graph.rs`, `imports.rs`, `project/implicit_imports.rs`) | edges, missing imports | add edges, cycles | sub-module imports that bring in parents | transitive closure |
| class hierarchy (`mro.rs`, `class.rs`) | bases | C3 linearisation | inconsistent or missing bases | monotone linearisation, no loop |
| exports (`exports.rs`) | re-export edges | transitive resolution | cycles of re-exports | termination, one definition per name |
| program facts (`project/builder.rs`, `info.rs`, `types.rs`, `effects.rs`, `errors.rs`) | the merged tables | build | parallel merge, hash order | order independence |
| source analysis (`source_analyzer.rs`, `bindings.rs`, `exceptions.rs`, ...) | scope and exception stacks | one visitor per module | sequential | its result is the input of the models |
| stub scripts (`resources/scripts/*.py`) | a stub file, its statement lists | merge overloads, rewrite a directory in place | index arithmetic, several body shapes, kills and failing files, reruns | no effect is lost; one fault costs one file; a third run changes nothing |
| wire format, discovery, commands, launcher, support code, stub resources | bytes, files | encode, search, drive | I/O | not a matter of these models |

`PROJECT.json` lists every component with its status and every hazard with the line where it
bites.

## 2. The modules

| module | what it models | composed with |
|---|---|---|
| `CallGraph` | the static view of a program that the verdict pass shares: effects, lookups, the edges of the call graph, the bodies a call runs | extended by `Verdicts` |
| `Verdicts` | the precompute: cycle marking, the safelist pass, levels, workers | |
| `CsrGraph` | the iterative Tarjan pass and the leveling pass, step by step | uses `Digraph`, the oracle for cycles, heights and reachability |
| `Resolution` | confirmation, discharge and promotion | run by `Reduce` |
| `ModulePass` | the write-back of resolved verdicts, the parallel check of modules, the final safety map | implements `ModuleVerdicts` |
| `MutatedParams` | the worklist of mutated parameters | implements `LeastClosure` |
| `ReExports` | the worklist that carries verdicts over to re-exported names | implements `LeastClosure` |
| `LeastClosure`, `ModuleVerdicts` | abstract specifications: what a worklist promises, what the module pass promises | |
| `CacheMerge` | the tables of several libraries, joined in place | hands the merged class table to `Mro` |
| `ImportMerge` | the import graph built in one pass and by library, merge and reduce, side by side | |
| `StarExports` | the sweeps that expand star imports, per library | |
| `ReExportChains` | memoised chains of re-exports in parallel tasks, beside the whole-program path's | first stage of `OutputPolicy` |
| `Reduce` | the two passes that clear cached errors, around the resolution | extends `Resolution` |
| `OutputPolicy` | from module verdicts to the sets of guards of lazy modules | extends `ReExportChains`; uses `Digraph` |
| `Mro` | C3 linearization | extended by `CacheMerge` |
| `StubMerge`, `NormalizeStubs` | the overload merge of one stub; the scripts over files | `NormalizeStubs` takes `StubMerge`'s result as a function |
| `MC...` | the small instances, one for each run | |
| `...Proofs` | the theorems, one module for each of `Verdicts`, `CsrGraph`, `MutatedParams` with `Resolution` and `Reduce` (`MutationProofs`), `ReExports` with `StarExports` (`ExportsProofs`), `ImportMerge` with `CacheMerge` and `Mro` (`MergeProofs`), `ModulePass`, `OutputPolicy` with `ReExportChains`, `StubMerge` with `NormalizeStubs` (`StubProofs`) | |

Most modules start by choosing a program (a library, a list of caches) among their small
instances; it never changes.  The facts in it are the outcome of earlier phases.  `Verdicts`
and `CsrGraph` are composed by assumption: `Verdicts` assumes of every program that `Leveled`
holds (and, for `NoReentry`, `CyclesMarked`), and `LevelsDescend` of `CsrGraph`, which is a theorem,
is the same statement of what its two passes leave behind.  `MCVerdicts` computes `in_cycle` and `level` with `Digraph`.

Some definitions have a neighbour commented *Faulty variant*.  It is what a plausible mistake
in the code would look like; no specification uses it.  Substituting it for the definition it
varies must break a property of some run, which shows that the property says something about
the code.  `PROJECT.json` lists the pairs.

### CallGraph

A program is a record with the outcome of every lookup the code performs.  `resolve` stands
for `resolve_callable`, `above` for `resolve_dispatch_above`, `meta` for
`metaclass_creation_callees`, and so on, so the MRO, the method map and re-exports are
functions of the program, while *which* lookup is made where, and with what name, is modelled.
`FunctionEdges` and `ConstructorEdges` are `build_call_graph`; `Callees` and `Bodies` are what
`check_call_safety` and `check_call` run.  They are two independent translations, as they are
two independent pieces of code.

Effects fall into the kinds the checks tell apart: unconditional errors, mutation of an
imported variable, writes to a global of the own module, and calls (plain, `super()`, class
statement, parameterized decorator).  A call effect carries the outcome of its argument
checks (`mutates`, `defers`).

### Verdicts

| model | code |
|---|---|
| `function_safety` | `GlobalAnalysisState.function_safety`, a `DashMap` |
| an entry's `verdict`, `missing` | `FunctionSafetyInfo`: the bit set, `missing_dep_callees` |
| `stack[w]` | the Rust call stack of a rayon thread: activations of `check_call_body` |
| `pending`, `level`, `NextLevel` | `precompute_safety_in_dependency_order`: one parallel loop per level |
| `MarkRecursive`, `MarkDeclaredSafe` | `mark_recursive_functions_unsafe`, `mark_declared_safe` |
| `Begin` | taking a node; skipping one that has a verdict |
| `LocalEffect`, `StartCall`, `ReadBody`, `FinishCall`, `FinishBody`, `MarkSafe` | the loop of `check_call_body`, its calls to `check_call_safety` and `check_call` |
| `FinishClass` | `precompute_constructor_verdict` |

A step of a worker is one access to a shared entry.  One place is coarser: when all bodies of
a call are checked, the code looks at the callee's entry and then updates the caller's, which
is one step here (`FinishCall`).  For the programs the theorems cover this loses nothing,
because the callee's entry is final by then (`CalleesFinal`).
`FinishBody` and `MarkSafe` are two accesses, as in the code: what a second evaluation of the
function wrote in between would be lost, and the entry would not be the one that `VerdictsExact`
asks for.

### Resolution

`Confirm`, `DecideDischarges`, `Discharge`, `Collect`, `Promote` and `Finish` are the phases
of `apply_mutation_candidates` and `promote_fixpoint`; `Step` is any of them.  A decision over all candidates
that the code takes in parallel against a frozen state is one step; applying the decisions, in
the order of a hash map, is one step for each, in any order.  Splitting a dotted name at its
longest known module, and matching arguments to the callee's parameters, are facts of the
merged library.

### CsrGraph

The stacks, indices and low links are the variables of `nodes_in_cycles`; `dependency_levels` has
its own stack.  One step is one turn of the inner loop.  Neighbours are visited in any order.
Popping the component off `scc_stack`, a loop in the code, is one step: the nodes from the root's
`Position` to the top.

### MutatedParams, ReExports and LeastClosure

Both are worklists.  `LeastClosure` says what a worklist promises: facts come from a base or
follow from known ones by rules, and the process says it is done only when nothing more follows.
`MutatedParams!ImplementsClosure` maps pairs of function and parameter to facts and call edges
to rules; `ReExports!ImplementsClosure` maps pairs of a name and a concern (a verdict bit, a
missing callee, a mutated parameter) to facts and re-exports to rules.  `MutatedParams` has
`InsertSeed` and `StartSpreading` for what is known at first, `Pop` and `Visit` for the list, whose order is free;
`Targets` is how a forwarded argument finds its parameter (bound, unbound, class and static
methods shift positions).  In `ReExports`, `Merge` is one turn of `propagate_re_export_safety`:
it joins the entries, and when the target grew, queues the re-exports that read it, unless a
flag says that they are queued; `Skip` is the turn that finds a module or an entry missing, and
`Return` the end of the loop.

### ModulePass and ModuleVerdicts

| model | code |
|---|---|
| `WriteBack`, `StartPass` | `collect_errors_from_project` writing resolved verdicts into `function_safety` |
| `EnterScope`, `CheckEffect`, `FailEffect`, `LeaveScope`, `EndCheck` | one module's task in `analysis.rs`: its eager scopes and their effects |
| `FinishPass`, `MoveVerdict`, `AttachCandidates` | moving verdicts and candidates to the modules that own them (incremental mode) |
| `Register`, `FinishRegister` | subclass registrations that become errors (whole program) |
| `Updated` | an update of a module's entry, which leaves a failed one as it is |

A module is a process, since the pool may run any number at once.  `Implements` maps the pass to
`ModuleVerdicts`, in which a module is decided in one step and from the program alone: that
modules are checked in parallel against a shared map cannot be observed.  Its `failing`, `local`
and `registered` are operators on the program (`FailingModules`, `LocalErrors`,
`RegistrationErrors`); `decided` are the modules whose check is over, and `failed` and `errors`
what their entries hold.  `Ancestors` is a class with all it reaches by bases, as a least set,
where the code walks them with a visited set.  A program's precomputed verdicts record missing callees
exactly where they have the bit that says so (`IsProgram`), which is how the precompute leaves
them (`MissingRecorded`).  `FailEffect` is the
error path of a scope: an attribute that is a property whose body cannot be resolved.  The
callers build such an effect only together with a resolvable body, so the path is
defensive in the code, and the model injects the failure.

### CacheMerge and Mro

`CacheMerge` keeps of a module's record what depends on the order of merging: its safety (errors,
or a failure), its candidates, the bases of a class and what was recorded about its constructor.  The
records lie in one sequence of slots, sorted stably and joined by swapping, as in `merge.rs`:
`FoldDep`, `Sort`, `NextRecord`, `Truncate`, `FoldOwn`.  When the merge is over, the class table
it produced is linearized (`LinearizeMerged`), as `mro_method_verdict` does.

`linearize`'s recursion is a stack of activations (`Enter`, `VisitBase`, `TakeResult`) with the
memo and the path guard; one step of `TakeHead` is one turn of `c3_merge`.  The code drops a
sequence that is used up (`retain`); here it keeps its place, empty, and `Left` are those that are
not, so that a sequence has one number for as long as the merge lasts.

### ImportMerge

Both paths run on one program.  The whole-program edges are an operator (`WholeEdges`).  The
incremental ones are computed by `MapLibrary` (a library resolves what it sees), `StartMerge` and
`FoldCache` (the records of a module are united, in any order of libraries), `ApplyMainModule`
(what only an inactive guard writes goes), `ResolveAmbiguous` and `ResolveMissing`.

### StarExports

The stars of a library are swept until a sweep changes nothing (`Expand`, `NextSweep`, `Finish`),
with the rank of a star (fallbacks last, later stars first) deciding who binds a name.

### Reduce

`Reduce` extends `Resolution`: `ClearEarly` for each module, then `Resolve`, which is any step of
the resolution, then `ClearFinally`.  The entry of a function and the error of a consumer meet
here: an error is cleared when `VerifiedSafe` holds of it, which follows the kinds of call and of
decorator, nested functions of a decorator and recorded constructors.

### OutputPolicy and ReExportChains

The first stage of `OutputPolicy` follows the chains of re-exports: tasks with a memo each, of which
`StartChain`, `Hop` and `EndChain` are the loop of `resolve_reexport_chain`; `UniteMaps`
is the reduction of their maps.  `ResolveChain` is the other path's `resolve_chain`.  Then there is
one action for each unit of work of a phase (a module, a cycle, an implicit import), in any
order, and a barrier between phases.  What a loop reaches by imports, packages or re-exports is
`Digraph!Reached`, the least set closed under a successor function.  A module is never inside itself
(`PackageAssumption`), since packages are prefixes of dotted names.

### StubMerge and NormalizeStubs

`StubMerge` rewrites one stub, statement by statement: which overloads form a group, where each
body's effects go, which comments and docstrings stay.  A body is a sequence of lines.  Beside it
stands what `stub_analyzer.rs` reads from a stub, so that "the same effects" is about the
consumer and not about text.  `NormalizeStubs` opens, empties, writes and fails, file by file,
may be killed between any two of these, and runs again.

## 3. The runs

| run | instance | what it shows |
|---|---|---|
| `verdicts` | every program of three functions in two modules with up to two effects in one and one in each other; programs around one caller with metaclass and own constructors, re-exports, `super()`, class statement, decorator with a nested function, a safelisted name; a class on a call cycle with a constructor method off it; 2 workers | every verdict is the one the body and the final verdicts of the callees determine, in every interleaving and every order of effects; a class's verdict is the fold of its constructors'; the pass ends, never re-enters a function, and an error stays fatal |
| `reduce` | three functions in two modules, one of them a class with a recorded constructor and one a decorator, an external and an unqualified callee, candidates at what waits for them and at safe and if-imported entries (`LooseCandidates`), every error the second module can have cached; and libraries around the resolution alone, with candidates at functions and at module scope | the candidate phases do not depend on their order; promotion is exact and not circular, and its indices stay fresh; the whole reduce ends, its passes clear only errors of functions against which nothing stands, and its early pass clears what its final one would not only where a candidate is confirmed at an entry that passed (`Overtaken`) |
| `csr_graph` | all graphs of three nodes with self-loops, all graphs of four nodes with at most five edges (`EdgeBound`) and no self-loop; every order of nodes and edges | cycles and levels are exact, stacks hold, both passes end |
| `module_pass` | two modules of two and one eager scopes, checked at once, in both modes: every kind of effect against every verdict of what it calls, verdicts changed by the resolution, a nested module, walked bases | each module is decided from the program and the final verdicts alone, a failing one included, and the failure stays; the pass ends, and verdicts and registrations end in the entries they belong to |
| `mutated_params` | two functions, a method of every kind, its class and an unknown name; two to four forwarding calls out of nine, four sets of seeds | the worklist implements the least closure, in every order, and is emptied |
| `re_exports` | two modules with two names each, one of which may be missing; every list of three re-exports and cycles of four | the requeueing worklist implements the least closure and is emptied |
| `cache_merge` | one to three caches of up to three modules that agree, fail or carry errors; three caches that disagree about a constructor; hierarchies of four classes in one cache or split over two, cyclic and inconsistent ones included | joining in place keeps one record for each module, drops no error, no candidate and no callee and makes none up; of several failures the first one stays; candidates stay in the promised order; a linearization keeps the orders of bases where they can be kept, ends and has every ancestor any library recorded |
| `import_merge` | four sets of modules of a package, its parent, a module and a stub; guarded, alternative and plain imports; every split into one or two overlapping libraries, or one for each module; three entry points; a module that does not parse | no imported name is lost; the reduce ends with the edges and missing imports of the whole-program pass |
| `star_exports` | three modules that star-import one another in every way with at most two stars each, fallbacks, self-imports, declared, private and submodule names | the highest-ranking star that offers a name binds it, however late; nothing is made up; the sweeps end |
| `output_policy` | packages in cycles with their submodules, namespace packages, stubs, implicit imports behind several ways, side effects, and every way four attributes can re-export; 2 tasks | chains lead to the sources the other path finds; guards cover cycles, the ways into them and the ways to implicit imports; nobody guards itself; every passing module and no other has an entry |
| `stub_merge` | every stub of three statements out of sixteen, beside a class with one group of overloads; three runs of the script | the stub analyzer reads the same effects, statements stay where they were, only the first overload of a group keeps annotations, the script ends and the third run changes nothing |
| `normalize_stubs` | two files, six texts (one does not parse, one takes two runs to settle), two invocations (`MaxInvocations`) and two kills or failing operations (`MaxFaults`) | status 0 means everything was merged; one fault costs one file, and what does not parse or is not interrupted is left as it is |

**Why the bounds are enough.**  *Verdicts*: a false verdict needs a reader, a callee that is
still being evaluated, and something the callee's verdict depends on: three functions and two
threads.  A third thread adds no new pair of conflicting accesses, because a step touches one
entry of another function only.  Two effects in one function are what the order of effects is
about (`mark_unsafe` replaces an entry, `mark_unsafe_missing_dep` extends it).  *Resolution*: a
chain of three gives two rounds, and a cycle of two beside a third function is the smallest
circular justification.  *Graphs*: four nodes hold two components of two nodes joined by an
edge, the smallest case where popping a component could take a node of another.  *Worklists*:
a cycle with a fork into it, and a target that grows after its dependents were visited, fit
into three rules.  *Merges*: of three caches, two meet before the third, which is all that
associativity can be about.  *Linearization*: four classes are the smallest inconsistent diamond
below a common descendant.  *Stubs*: the smallest group with overloads behind its first
has two statements, and the third is what ends it or follows it; `MaxRuns` is 2, the smallest
number of runs after which nothing is left to do.  *Policy*: a cycle through a package with an outsider that enters it
by a submodule needs four modules, an implicit import behind two ways four as well.

The types of every module are checked, or proved: where no theorem says that they are
correct, the type invariant is a conjunct of one of the run's invariants, and so are the facts that a property
rests on (`OpenNodesStacked` and `NoBackEdge` of `CyclesExact`, `OneRecordEach` of
`NothingDropped`, `OnlyFirstAnnotated` of `EffectsPreserved`, and so on).  What a component
promises for its end is stated as `<>[](...)`, so that a run that never ends does not pass.

**Fairness.**  `Completes`, `EarlyIsFinal`, `LevelsExact`, `ResultComplete`, both `Terminates`,
`NobodyForgotten`, `BestStarWins`, `SourcesMatch` and `RerunChangesNothing` need it.  Sequential
phases simply run, so most modules have `WF_vars(Next)`.  In `Verdicts` some worker with work goes on
(`FairSpec`): the rayon pool hands out work and a thread never waits for another inside a level.
In `ModulePass` every module's check goes on, since each is a task of its own.  In `OutputPolicy`
fairness is stated for the chains, whose end is what is in question; the phases after them are
loops over finite sets.  No strong fairness is assumed.  `ImportMerge`, `Resolution` by itself and
`NormalizeStubs`, whose scripts may be killed at any moment, state no liveness and have no fairness.

**Deadlock** is checked in every run; a finished state has a step of its own, enabled only there.
No run uses symmetry.

## 4. What is proved

All theorems hold for every program, library or cache that the assumptions on the constants
admit, for any number of names, modules, tasks and workers.  Most assumptions only say what shape
the constants have: which lookups a program has an answer for, that the dummy values are no names,
that sets of modules, classes or nodes are finite.  Some say what an earlier phase leaves behind.
`ReduceAssumption` is of this kind: a cached entry with missing dependencies has the verdict of one
that waits, which `NoStaleCallees` of `ModulePass` shows.  It says nothing of where candidates sit,
since the code collects them at every function and class body.

**`Verdicts`.**  `TypeCorrect` needs a stronger invariant, `TypeInv`: `TypeOK` and the shape
of every stack (`StacksOK`): an activation that waits below another one is in the middle of a
call, and the body it waits for is the function of the one above.

Five properties are about orderly programs, and say so: each is an implication from
`Orderly(prog)`, which has two parts, both about the program, which never changes
(`OrderlyForever`):

- `ClassCyclesClosed`: if a class is on a call cycle, so are its constructor methods (or they are
  safelisted);
- `ReadNamesOrdered`: the name a call's outcome is recorded under is a node the effect has an
  edge to, or no node at all.  (`super()` calls and class statements record a name that need
  not be what ran.)

All programs of the run are orderly, but for those with a class on a call cycle and a
constructor method off it.  For these the run shows that the pass still ends, that
nothing is re-entered and that errors stay fatal; section 5 says what does not hold of them.

- `CalleesAreFinal` and `UnsafeStays` follow from the order invariant `OrderInv`.  Its parts:
  a node below the current level is final or still on a stack (`LevelInv`); workers with work
  have one activation each, on different functions of the current level (`WorkInv`); an entry
  exists only for a settled or visited node or for one on a stack (`EntryInv`).  From `Leveled`, an
  edge leads to a lower level, so a body that is read has an entry that nobody will write.
- `VerdictsAreExact` and `NoVerdictIsFalseSafe` add `ExactInv`: the entry of the function a
  worker evaluates is the one the effects before its position determine, and a finished
  function has the entry all of its effects determine.  The entry is a function of a *set*
  of effects although effects are applied in order, and that is the heart of the proof:
  `mark_unsafe` absorbs, the other two updates commute.
- `ClassVerdictsAreExact`: the constructor methods of a class lie below it or are settled, so
  when the class is folded, and ever after, their entries are final.
- `NothingIsReentered` needs no orderly program, only that the cycles are marked.  Its
  invariant says that each activation of a stack reaches those above it by edges of the call
  graph, so a function that occurred twice would be on a cycle, and would have had a verdict.
  (That no call in progress is met again under its *name* is stated for orderly programs only: in
  others a factory's nested function may call the factory back under the decorator's name.)
- `MissingIsRecorded` holds of every program: each update, and the fold of a class, keeps the
  bit for a missing dependency and the callees that are missing together.  `IsProgram` of
  `ModulePass` is entitled to assume it.

**`Resolution` and `Reduce`.**  `IInv` is `TypeOK`, `StageOK` (what is empty in which stage) and
`WaitingOK`: a function that is promoted has a verdict without `MissingDep`, and one that is
waiting and not promoted still has the bit, so it blocks.  From it: `TypeCorrect`,
`PromotionIsSound` (verdicts only ever become less blocking, so a reason for a promotion
stays one), `NoCircularPromotion` (the first promoted member of a set whose members wait for each
other would need another one promoted before it), `PromotionIsComplete` (the last round found
nothing to promote), `PromotionIsExact` from both, `UnsafeStays`.  `CandidatesAreExact` relates
every entry to the candidates that are still ahead: an entry has what the confirmed ones taken so
far give it, and the decisions about discharges were taken against the entry that all confirmations
make.  `IndicesAreFresh`: the names indexed are those of the map, and each round's update is
a rescan.  Each step of a reduce is one of the resolution or leaves its variables alone
(`ReduceResolves`), so all of this holds within a reduce, and with it `EarlyPassAgrees`, the
safety half of `EarlyIsFinal`, and `ClearingIsJustified`.  Both rest on `QuietKept`: a passing
verdict of the libraries survives the resolution unless a candidate is confirmed there, since a
discharge removes no bit from an entry that waits for nothing and nothing promotes it.  So what
the early pass cleared the final one would clear too, unless one of the entries it read is
`Overtaken`.  Then the error is gone all the same, and `ClearedOnRecord` says how: the record of
the libraries was a good reason when it was read.  What the final pass clears is `Excused`
by the entries as the resolution left them.

**`ModulePass`.**  Under a type invariant that bounds what each check has in hand
(`TypeCorrect`), the write-back is finished before any check starts (`StageInv`).
`PassImplements` is the refinement of `ModuleVerdicts`, and its invariant `EntryExact` describes a module's
entry at any point of its check: the errors of the effects it has passed, in whichever scopes,
as read from the final verdicts.  A check steps by stuttering until `EndCheck` or `FailEffect`,
which is where the module is decided.  `ResultsAreExact` is the safety half of `ResultComplete`.
`NoLeftoverLeaves` is about moved verdicts (`OwnerInv`): the write-back replaces a verdict's
bits and leaves its missing callees, but it happens in one mode and the move in the other, so
what moves is what the precompute left.

**`OutputPolicy` and `ReExportChains`.**  `TypeCorrect` carries the facts of the program that the
phases compute first, and that in every phase exactly the passing modules seen so far have an
entry.  `MemosAreExact` says of each task that what it memoised is where the chain ends; the invariant
is about the path in hand, all of whose attributes lead to the current one.  `SourcesAreExact` is
the safety half of `SourcesMatch`.  `NobodyGuardsItself`: each way to add a guard excludes the
module itself or is one of the two allowed; packages matter, since a guard of a package is handed to
its submodules, which `PackageAssumption` keeps apart from it.  `EveryCycleIsGuarded` is about
cycles of any length, and `CyclesAreGuarded` the same of those the run enumerates.
`EntriesAreGuarded` and `ChainsAreGuarded` say of each unit of work taken that its guards are there, and
guards are never removed.  The last one is about shortest ways: the layers of a breadth-first
search are a recursive function.  That it exists is a lemma (`IteratesExist`), and facts about
all of its values come from the least-number principle (`SmallestNumber`): were one false, there
would be a smallest index at which it is.  This, with `NatLessThanWellFounded`, replaces the
library's induction theorems.

**`CsrGraph`.**  `CyclesAreExact` and `LevelsAreExact` hold for every finite graph and every order
of nodes and edges.  The invariant of the first pass (`CyclesInv`) has five parts.  The open
nodes are stacked in the order of their numbers (`Numbered`), and the nodes of the work stack are among
them in the same order.  An edge of a visited node leads to a visited node or is still ahead, and
a closed node leads only to closed ones (`Explored`).  A node of the work stack reaches every open
node that came after it, and every open node reaches one of the work stack that came before it
(`Linked`).  A low number is that of an open node its owner reaches, and no edge followed from
the open nodes between its owner and the next one on the work stack leads lower (`LowExact`).
Flagged are only nodes on cycles, and all self-loops and all closed nodes that are on one
(`Flagged`).  So when a node's low number is its own and its edges are done, the nodes popped
reach each other, and lead to no other open node: they are a component, and it is a cycle exactly
if it has a second node or a self-loop.  In the second pass the expanding nodes form a path
(`Expanding`), an edge back into it would close a cycle, and the nodes of cycles are settled:
hence no back edge, and a node gets its level when all unsettled nodes it leads to have theirs
(`Leveled`).  That levels are then heights needs that heights are unique: at a node of the
smallest level where two functions that satisfy the equation of `Height` differ, the equation
makes them agree.  `LevelsOrderCallees` puts both passes together in the words in which `Verdicts`
assumes them.

**Worklists.**  `LeastClosure` says what it means to have found the least closed set: what is known
is grounded, hence within every closed set (`GroundedIsLeast`), and is itself closed in the end.
Each worklist implements it, step by step under its mapping (`Implements`), and every step of
`LeastClosure` keeps what is known grounded, so the least fixpoint is found (`FindsTheLeast`).
The invariants that make a worklist closed when
it is empty are the work: in `MutatedParams`, that what follows from a known pair is known, or
its source is on the list, or it is about to be visited (`NothingIsForgotten`); in `ReExports`,
that the flags say what is queued, once each (`FlagsAreExact`), and that a re-export that is not
queued has nothing to carry over (`IdleStaysStable`), also when a name is re-exported to itself
and so requeues what is just being taken off.

**`ImportMerge`.**  `KeepsEveryName`: the names a module writes, recorded as edge, missing or
ambiguous, are preserved by mapping, joining and filtering, whatever the order of libraries.
`BothPathsAgree` and `NoEdgeAbsent` follow for programs in which every module parses: after
the merge a name's resolution depends only on the name and the modules there are, no longer on
which library had it or where it stood, so resolving late is resolving once.  Outside the
entry point the edges are equal; in it the reduce may have more, because guards there are kept.

**`StarExports`.**  `StarsMakeNothingUp` and `StoppedSweepsBindBest`, the safety half of
`BestStarWins`: when no library is sweeping any more, every name is bound by the best star that
offers it.  The invariant beside the first is that what a name is bound to offers it
(`BoundOffered`) and that a library whose last sweep changed nothing has nothing left to change
(`Settled`).  What a chain of stars leads to is stated as a least closed set, so no
induction along chains is needed.

**`CacheMerge`.**  `MergeDropsNothing`, `MergeKeepsOrder` and `NoCalleeMadeUp`.  The sequence of
records does not say which cache a record came from, and all three properties are about that.  The
invariant (`CacheInv`) therefore says that some numbering of the pending records by caches exists
(`origin`), under which each of them is what that cache knows, and each joined record is
what the caches whose records are gone (`Absorbed`) make together (`JoinedFrom`).  Folding puts
earlier caches first, sorting is stable (`InOrder`), so a cache's record is joined after those of
all earlier ones; between `write` and `read` only placeholders stand (`Joining`).
That a candidate list extended without duplicates keeps the order of both is a lemma about
a recursive function, whose existence is a lemma of its own (`ExtensionExists`).

**`Mro`.**  `MroKeepsOrder`: in a hierarchy without cycles, a linearization keeps the order of the
bases, and of every base's linearization, whenever some order of its classes keeps them all.  The run
also has cyclic hierarchies and shows that they end.  The invariant is about one activation
after the other: a base that was visited is settled, so its linearization is the
one that every later reader gets (`Settled`); what is left of a source is its end, and
what is gone stands in the result in the order of every source (`MergedSoFar`).  It is stated
for every assignment of heights along which bases ascend (`Ascends`, `MroInv`): heights
grow along the path, so no call meets its own path and the guard against cycles never cuts a
linearization short.  When the sources can be kept, some numbers ascend along all of them; the
remaining class with the lowest number is then the head of its sequences and in no tail, so the
fallback of `c3_merge`, which would break an order, is never taken.

**`StubMerge`.**  `RewritingKeepsEffects` and `RewritingKeepsSignatures`, for every tree of statements
and any number of runs of the script.  Scopes the script has not come to are as they were
in the file.  Within a scope, what is written so far keeps the statements up to the start of
the group at hand (`Keeping`): each in its place, of its kind and name, and of each definition
the effects that the analyzer reads.  The group is the whole run of adjacent overloads of one name
(`AtGroupStart`, `InOneGroup`), so nothing of the same name before it was merged with part of
it.  While its effects are collected, the lines gathered have just the effects of the candidates
passed (`Collected`).  The new body is the first overload's with those effects for its own, and
the analyzer, which reads the overloads of a name together, finds the same set.  What an
analyzer reads of a body is the union over its lines, so nothing recursive has to be unfolded.

`RewritingSettles` says that a run on the output of two runs writes what it reads (`Settles`), for
every stub.  The invariant (`RerunInv`) says what shape each run leaves: an overload behind the first
of its group has a body without effects, which stays (`Blank`); the first has such a body, or one
whose candidates are all different and are merged into the same body again (`Full`).  After the
first run, and only then, it may also be a line of several statements beside the signature
(`OnSignature`), from which the second run makes a `Full` body.  While a settled group is
gathered, what was gathered are just the first body's candidates up to the place reached
(`Gathering`).

**`NormalizeStubs`.**  `StatusZeroIsKept` and `FaultsCostOneFile`, whatever the merge of one file does to
it, idempotent or not, for every directory and every number of invocations and faults.  For the first, as long as a run over the directory has counted no error, the
files behind it hold the merged form of what they held when it started and those ahead are untouched
(`NoErrorYet`), which rests on the listing naming each file once.  For the second, a file is damaged
if its text is not one that merging, however often, makes of the original (`Forms`).  The damaged
files, but for the one being written, number at most the faults (`DamagePaid`); emptying a file
opens a debt that the end of the write settles, unless a fault pays for it.  That needs the text at
hand to be a form of the file's *original* text, or its file to be damaged already.

**Only model-checked.**  All liveness, since the prover handles neither fairness nor ENABLED:
`Completes`, `EarlyIsFinal`, `LevelsExact`, `ResultComplete`, both `Terminates`, `NobodyForgotten`,
`BestStarWins`, `SourcesMatch`, `RerunChangesNothing`.  Of `Mro`, that no
ancestor is lost, cyclic hierarchies included (a part of `NobodyForgotten`); of `Verdicts`,
`OwnErrorsUnsafe` (a conjunct of `Completes`).  The other way round, some theorems state what no
run lists: `UnsafeIsKept` of `Verdicts` and `Resolution`, `MissingRecorded`, `LevelsAreHeights`,
`LevelsDescend`, `IndicesFresh`, `EarlyAgrees`, `ResultExact`, `SourcesExact`, `EveryCycleGuarded`,
`MutatedLeast`, `NothingForgotten`, `SafetyLeast`, `FlagsExact`, `IdleIsStable`, `KeepsMore`,
`BestStars` and `Settles` (which `RerunChangesNothing` implies on the instance).

## 5. Divergences between the code and what is said of it

No run claims these; they were met while the modules were written, and the properties are stated
so that they hold of what the code does.

*Verdicts and resolution.*
`project/call_graph.rs:185` says that a node is visited only once every callee has a final
verdict.  A class on a cycle is settled, but calling it reads its other constructor methods, and
no edge orders them before the caller: `CalleesFinal` is about orderly programs for this reason.
`project/call_graph.rs:122` says that an inherited `__init__` is read from its ancestor: the edge
is there, but `check_call_body` looks under the class's own name, finds nothing and passes.
`project/calls.rs:406` says that a function that writes a global is safe only in its own module:
a class is not in the function table, so constructing it does not pass the restriction on.
`project/calls.rs:98` says that a resolvable callee that fails makes the caller hard unsafe: for
a class statement the outcome is recorded under a name that is not what failed, and the caller
only waits for a missing dependency.
`resolution.rs:664` says that if-imported is non-blocking only in the defining module: the lookup
of a qualified callee (line 524) does not ask for the module.
`cache/reduce.rs:560` says that false errors are cleared: an entry that passes can have a candidate
whose confirmation makes it unsafe after `retain_unverified_errors` (line 633) has cleared errors
against it, and `finalize_resolution` does not bring them back.  There are two ways to such an entry:
a safelisted function is marked safe (`project/call_graph.rs:173`), but its candidates are collected
like any other's; and candidates of a class body are filed under the name of the class
(`project/mutations.rs:294`), whose entry is the verdict of its constructors
(`project/call_graph.rs:231`).  `EarlyAgrees` and `ClearedJustified` name this case (`Overtaken`,
`ClearedTooEarly`) and exclude every other; the run has it with functions, recorded constructors,
decorators and unqualified names.

*Merging and reducing.*
`cache/merge.rs:89` says that a re-exported symbol inherits its source's concerns: the copies are
made before candidates are resolved, so a candidate confirmed later makes the source unsafe and
not the copy.
`cache/merge.rs:168` says that duplicates for a re-export are identical: star imports are expanded
in each library, and libraries that see different sources record different ones.
`cache/artifact.rs:134` says that conflicting metaclasses drop to the own-class bits: the conflict
is not remembered, so a third library brings a metaclass back.
`cache/merge.rs:391` says that the merged bases do not depend on the order of the caches: their
set does not, their order does.
`module_parser.rs:264` says that a module that does not parse is treated as missing: in the
incremental path it has a record, and imports resolve to it.
`docs/architecture.md:80` says that a guarded import survives the incremental path in a module that is
not the entry point: `drop_main_guarded` removes it.

*Exports and policy.*
`exports.rs:118` says that a later star wins as in Python: two modules that star-import each
other can end up importing a name from each other, which then resolves to nothing.
`docs/architecture.md:204` says that all members of a cycle guard one another: the code adds those that
a module imports directly, or whose package one of its imports runs.

*Stub scripts.*
`merge_overload_effects.py:12` says that inline comments stay with their signatures: the comment
of the first overload is lost when its effect comes from another one.  Line 13 says that
docstrings stay where they are: one on the line of its signature moves to the first overload.
Line 24 says that all effects are merged: one that shares a line of a block with an ellipsis is
dropped, and `EffectsPreserved` leaves out names with such a body (`TidyBody`).
The script is not idempotent (line 239): if all effects of a group are on one line with several statements,
`a(); b()`, the line is put beside the signature, and the next run takes it apart into a block.
From the third run on a file stays as it is (`Settles`).

*Smaller observations.*  The recursion check in `check_call_body` never fires in the precompute,
because cycles are marked first (`NoReentry`).  A call of an unresolved name with an imported
argument may be discharged and leave its caller safe, while the same call without arguments keeps
its caller waiting.

## 6. What is not modelled, and the plan

Not modelled, for good: the source analysis (its data is Python syntax; its result is the input
here), source discovery, the wire format, commands, the launcher, support code, embedded stubs.

Left out of modules that are otherwise modelled: in `Reduce`, methods found in an ancestor, property
candidates and the memo of decorator verdicts; in `MutatedParams`, the collection of candidates;
in `CacheMerge`, the display fields of a record and the choice among duplicate re-exports; in
`ImportMerge`, the facts of guarded scopes other than imports; in `OutputPolicy`, the
serialisation.

Planned, in this order:

1. `WholeProgram`: `Verdicts`, `Resolution` and `ModulePass` composed with the write-back of
   verdicts, against an abstract map from programs to module verdicts; then the incremental run
   compared with it.
2. `Reduce`: inherited methods, with `Mro`'s result, and property candidates; the copies of
   re-exported entries before the resolution.
3. The collection of mutation candidates, against the argument checks of `CallGraph`.
4. The interning of names in the wire format and the exception stack of the source analysis, as
   pure algorithms against reference definitions.
5. Proofs: that `Mro` loses no ancestor.
