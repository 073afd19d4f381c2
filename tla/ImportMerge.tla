----------------------------- MODULE ImportMerge -----------------------------
(***************************************************************************)
(* The import graph, built twice: by the whole-program path in one pass,   *)
(* and by the incremental path, which maps every library on its own,       *)
(* merges the caches and resolves in the reduce what a library could not   *)
(* see (src/imports.rs, src/cache/{artifact,merge,main_guard,reduce}.rs).  *)
(*                                                                         *)
(* A dotted name is a constant; Chain gives it and its parents, longest    *)
(* first.  A program is a record                                           *)
(*   modules     the modules with a source file                            *)
(*   bad         those that cannot be parsed                               *)
(*   stubs       the names every library knows from the bundled stubs;     *)
(*               what the stubs import is left out                         *)
(*   statements  the imports of each module                                *)
(*   libraries   sets of modules, which may overlap                        *)
(*   main        the module the binary starts from, or NoMain              *)
(***************************************************************************)
EXTENDS Naturals, Sequences

CONSTANTS Names, Chain, NoMain, Programs

\* "module" is `from name import *` or import_module: the name alone.  A
\* statement stands in the body of an `if __name__ == "__main__"`, in what
\* follows it (elif, else), or elsewhere.
Statements ==
    [kind : {"import", "from", "module"}, name : Names,
     branch : {"always", "guard", "otherwise"}]

IsProgram(p) ==
    /\ p.modules \subseteq Names /\ p.bad \subseteq p.modules
    /\ p.stubs \subseteq Names
    /\ p.statements \in [p.modules -> SUBSET Statements]
    /\ \A m \in p.modules : \A s \in p.statements[m] : s.kind = "from" => Len(Chain[s.name]) > 1
    /\ \A m \in p.bad : p.statements[m] = {}
    /\ p.libraries \subseteq SUBSET p.modules /\ UNION p.libraries = p.modules
    /\ p.main \in Names \cup {NoMain}

ASSUME ChainAssumption ==
    /\ Chain \in [Names -> Seq(Names)]
    /\ \A x \in Names : Len(Chain[x]) > 0 /\ Chain[x][1] = x

ASSUME MainAssumption == NoMain \notin Names

ASSUME ProgramsAssumption == \A p \in Programs : IsProgram(p)

VARIABLES
    prog,
    phase,      \* "map", "merge", "resolve_ambiguous", "resolve_missing", "done"
    caches,     \* the mapped libraries and their modules' records
    merged      \* the merged records

vars == <<prog, phase, caches, merged>>

-----------------------------------------------------------------------------
(* Collecting imports.                                                      *)

NamesOf(x) == {Chain[x][n] : n \in 1..Len(Chain[x])}

Parent(x) == Chain[x][2]

\* import, import_from, import_from_single: the edges of a statement.
Recorded(s, known) ==
    CASE s.kind = "import" -> NamesOf(s.name)
      [] s.kind = "module" -> {s.name}
      [] s.kind = "from"   ->
            {Parent(s.name)} \cup
            {x \in {s.name} : x \in known \/ Parent(x) \notin known}

\* A name of a known module: its attribute, or a module of another library.
Ambiguous(s, known) ==
    {x \in {s.name} : s.kind = "from" /\ x \notin known /\ Parent(x) \in known}

RecordedAll(S, known) == UNION {Recorded(s, known) : s \in S}

AmbiguousAll(S, known) == UNION {Ambiguous(s, known) : s \in S}

Written(S, known) == RecordedAll(S, known) \cup AmbiguousAll(S, known)

\* Outside every guard: main_guard_depth is 0.
Unguarded(S) == {s \in S : s.branch # "guard"}

\* resolve_to_known_module
Resolves(x, known) == \E n \in 1..Len(Chain[x]) : Chain[x][n] \in known

Nearest(x, known) ==
    Chain[x][CHOOSE n \in 1..Len(Chain[x]) :
        Chain[x][n] \in known /\ \A i \in 1..(n - 1) : Chain[x][i] \notin known]

\* resolve_and_add_import_edge, and resolve_missing_to_known with try_add_edge.
ResolvedEdges(from, xs, known) ==
    {Nearest(x, known) : x \in {y \in xs : Resolves(y, known)}} \ {from}

-----------------------------------------------------------------------------
(* The whole-program path.                                                  *)

\* lg_pruned_if_branches: with a main module given, the body of a guard is read
\* in that module only, and what follows the guard in the others only.
Pruned(p, m) ==
    {s \in p.statements[m] :
        p.main # NoMain => s.branch # IF m = p.main THEN "otherwise" ELSE "guard"}

WholeNames(p, m) == RecordedAll(Pruned(p, m), p.modules \cup p.stubs)

\* Modules that cannot be parsed leave the graph.
WholeNodes(p) == (p.modules \cup p.stubs) \ p.bad

WholeEdges(p, m) ==
    (WholeNames(p, m) \cap WholeNodes(p))
    \cup ResolvedEdges(m, WholeNames(p, m) \ WholeNodes(p), WholeNodes(p))

WholeMissing(p, m) ==
    {x \in WholeNames(p, m) \ WholeNodes(p) : ~Resolves(x, WholeNodes(p))}

-----------------------------------------------------------------------------
(* The incremental path.                                                    *)

Records ==
    [imports : SUBSET Names, missing : SUBSET Names,
     ambiguous : SUBSET Names, guard_only : SUBSET Names]

\* collect, add_edges_and_finish and graph_edge_sets: a module within a library.
MapRecord(p, lib, m) ==
    LET known == lib \cup p.stubs
        S     == p.statements[m]
    IN  [imports    |-> RecordedAll(S, known) \cap (known \ p.bad),
         missing    |-> RecordedAll(S, known) \ (known \ p.bad),
         ambiguous  |-> AmbiguousAll(S, known),
         guard_only |-> Written(S, known) \ Written(Unguarded(S), known)]

\* Faulty variant: an import is missing if some library could not resolve it, and
\* dropped from the edges.
JoinMissingWins(a, b) ==
    [imports    |-> (a.imports \cup b.imports) \ (a.missing \cup b.missing),
     missing    |-> a.missing \cap b.missing,
     ambiguous  |-> a.ambiguous \cup b.ambiguous,
     guard_only |-> a.guard_only \cap b.guard_only]

\* Faulty variant: the ambiguous imports of the first record are kept.
JoinFirstAmbiguous(a, b) ==
    [imports    |-> a.imports \cup b.imports,
     missing    |-> a.missing \cap b.missing,
     ambiguous  |-> a.ambiguous,
     guard_only |-> a.guard_only \cap b.guard_only]

\* CachedModule::merge
Join(a, b) ==
    [imports    |-> a.imports \cup b.imports,
     missing    |-> a.missing \cap b.missing,
     ambiguous  |-> a.ambiguous \cup b.ambiguous,
     guard_only |-> a.guard_only \cap b.guard_only]

Init ==
    /\ prog \in Programs
    /\ phase = "map"
    /\ caches = [l \in {} |-> {}] /\ merged = [m \in {} |-> {}]

\* analyze_library; the libraries are mapped independently.
MapLibrary(lib) ==
    /\ phase = "map" /\ lib \notin DOMAIN caches
    /\ caches' = [l \in DOMAIN caches \cup {lib} |->
                     IF l = lib THEN [m \in lib |-> MapRecord(prog, lib, m)] ELSE caches[l]]
    /\ UNCHANGED <<prog, phase, merged>>

StartMerge ==
    /\ phase = "map" /\ DOMAIN caches = prog.libraries
    /\ phase' = "merge"
    /\ UNCHANGED <<prog, caches, merged>>

\* merge_dep_caches, one cache at a time.
FoldCache(lib) ==
    /\ phase = "merge" /\ lib \in DOMAIN caches
    /\ merged' = [m \in DOMAIN merged \cup lib |->
                     IF m \notin DOMAIN merged THEN caches[lib][m]
                     ELSE IF m \notin lib THEN merged[m]
                     ELSE Join(merged[m], caches[lib][m])]
    /\ caches' = [l \in DOMAIN caches \ {lib} |-> caches[l]]
    /\ UNCHANGED <<prog, phase>>

\* drop_main_guarded: a name that only guards write is no import.
WithoutGuarded(r) ==
    [r EXCEPT !.imports = @ \ r.guard_only, !.missing = @ \ r.guard_only,
              !.ambiguous = @ \ r.guard_only]

\* apply_main_module
ApplyMainModule ==
    /\ phase = "merge" /\ DOMAIN caches = {}
    /\ phase' = "resolve_ambiguous"
    /\ merged' = [m \in DOMAIN merged |->
                     IF prog.main \in {NoMain, m} THEN merged[m] ELSE WithoutGuarded(merged[m])]
    /\ UNCHANGED <<prog, caches>>

\* Every record in the merge names a module, parsed or not.
ModuleNames == DOMAIN merged \cup prog.stubs

\* resolve_ambiguous_imports
ResolveAmbiguous ==
    /\ phase = "resolve_ambiguous"
    /\ phase' = "resolve_missing"
    /\ merged' = [m \in DOMAIN merged |->
          [merged[m] EXCEPT
              !.imports = @ \cup ResolvedEdges(m, merged[m].ambiguous, ModuleNames),
              !.ambiguous = {}]]
    /\ UNCHANGED <<prog, caches>>

\* resolve_cross_library_errors, what it does with the missing imports.
ResolveMissing ==
    /\ phase = "resolve_missing"
    /\ phase' = "done"
    /\ merged' = [m \in DOMAIN merged |->
          [merged[m] EXCEPT
              !.imports = @ \cup ResolvedEdges(m, merged[m].missing, ModuleNames),
              !.missing = {x \in @ : ~Resolves(x, ModuleNames)}]]
    /\ UNCHANGED <<prog, caches>>

Done == phase = "done" /\ UNCHANGED vars

Next ==
    \/ \E lib \in prog.libraries : MapLibrary(lib) \/ FoldCache(lib)
    \/ StartMerge \/ ApplyMainModule \/ ResolveAmbiguous \/ ResolveMissing
    \/ Done

Spec == Init /\ [][Next]_vars

-----------------------------------------------------------------------------
(* Properties.                                                              *)

\* Type invariant.  After the merge every module has a record, and once the
\* ambiguous imports are resolved none is left.
TypeOK ==
    /\ IsProgram(prog)
    /\ phase \in {"map", "merge", "resolve_ambiguous", "resolve_missing", "done"}
    /\ DOMAIN caches \subseteq prog.libraries
    /\ \A l \in DOMAIN caches : caches[l] \in [l -> Records]
    /\ DOMAIN merged \subseteq prog.modules
    /\ merged \in [DOMAIN merged -> Records]
    /\ phase \notin {"map", "merge"} => DOMAIN merged = prog.modules
    /\ phase \in {"resolve_missing", "done"} =>
          \A m \in DOMAIN merged : merged[m].ambiguous = {}

\* Every name a statement may refer to, whatever is known.
AllNames(S) ==
    UNION {IF s.kind = "import" THEN NamesOf(s.name)
           ELSE IF s.kind = "from" THEN {s.name, Parent(s.name)} ELSE {s.name} : s \in S}

\* However the libraries overlap and in whatever order their caches are merged,
\* no name that a module writes is lost: it is an edge, missing or ambiguous.
\* And "missing" means missing everywhere: what one library of the module could
\* resolve is not missing in the merge.
NothingLost ==
    phase = "merge" =>
        \A m \in DOMAIN merged :
            /\ merged[m].imports \cup merged[m].missing \cup merged[m].ambiguous
                  = AllNames(prog.statements[m])
            /\ merged[m].missing \cap merged[m].imports = {}

\* "The two paths should agree": for every module but the entry point the reduce
\* ends with the edges and the missing imports of the whole-program pass.
PathsAgree ==
    phase = "done" /\ prog.bad = {} =>
        \A m \in prog.modules \ {prog.main} :
            merged[m].imports = WholeEdges(prog, m) /\ merged[m].missing = WholeMissing(prog, m)

\* "The direction is fail-safe (the incremental path keeps more)": in the entry
\* point too no edge of the whole-program pass is absent.  There the incremental
\* path keeps what follows a guard, which the other one prunes.
KeepsMore ==
    phase = "done" /\ prog.bad = {} =>
        \A m \in prog.modules : WholeEdges(prog, m) \subseteq merged[m].imports

=============================================================================
