------------------------------- MODULE MCReduce -------------------------------
(***************************************************************************)
(* Small merged libraries with every error a consumer can have cached.     *)
(***************************************************************************)
EXTENDS Reduce, FiniteSets, TLC

Entry(verdict, missing) == [verdict |-> verdict, missing |-> missing]

\* a is a class of M with the constructor c of N; b is a decorator of N.
Home == "a" :> "M" @@ "b" :> "N" @@ "c" :> "N"

SomeEntries ==
    {Entry({}, {}), Entry({"IfImported"}, {}), Entry({"Unsafe"}, {})}
    \cup {Entry({"MissingDep"}, ms) : ms \in (SUBSET {"a", "b", "c", "ext"}) \ {{}}}

FewEntries ==
    {Entry({}, {}), Entry({"IfImported"}, {}), Entry({"Unsafe"}, {}), Entry({"MissingDep"}, {"a"}),
     Entry({"MissingDep"}, {"b", "ext"}), Entry({"MissingDep", "IfImported"}, {"ext"})}

CandidatesOf(infos, mutators) ==
    UNION {{[module |-> Home[f], site |-> f, callee |-> r, mutates |-> r \in mutators] :
               r \in infos[f].missing} : f \in Functions}

ErrorsOfN == {e \in CachedErrors : e.caller = "N"}

\* Candidates that no verdict waits for, of a safelisted function or a class body.
LooseCandidates(sites) ==
    {[module |-> Home[f], site |-> f, callee |-> r, mutates |-> r = "ext"] :
        f \in sites, r \in {"c", "ext"}}

Merged(infos, mutators, deferred, loose, scope) ==
    [home |-> Home, safety |-> infos,
     candidates |-> LooseCandidates(loose) \cup
                    {c \in CandidatesOf(infos, mutators) : c.site \in deferred},
     same_name |-> [u \in Unqualified |-> {"b"}],
     cached_errors |-> ErrorsOfN,
     resolved |-> [m \in Modules |-> IF m = "N" THEN scope ELSE {}],
     nested |-> [f \in Functions |-> IF f = "b" THEN {"c"} ELSE {}],
     recorded |-> [f \in Functions |-> IF f = "a" THEN {"c"} ELSE {}]]

\* Who mutates its argument, which functions have candidates, and loose ones.
Variants ==
    ({{}, {"a"}, {"c"}} \X {{}, {"a", "b"}, {"b", "c"}} \X {{}})
    \cup {<<{"a"}, {"b"}, loose>> : loose \in {{"a"}, {"c"}, {"a", "b"}}}

ReduceLibraries ==
    {Merged("a" :> x @@ "b" :> y @@ "c" :> z, v[1], v[2], v[3], scope) :
        x \in FewEntries, y \in SomeEntries, z \in FewEntries,
        v \in Variants, scope \in {{}, {"M"}, {"N"}, {"M", "N"}}}

-----------------------------------------------------------------------------
(* Libraries around the resolution alone, with an unqualified callee: every    *)
(* function waits for others, and calls at module scope may be confirmed.      *)

WaitingEntries ==
    {Entry({}, {}), Entry({"IfImported"}, {}), Entry({"Unsafe"}, {})}
    \cup {Entry({"MissingDep"}, ms) : ms \in {s \in SUBSET Refs : Cardinality(s) \in 1..2}}

FewWaitingEntries ==
    {Entry({}, {}), Entry({"Unsafe"}, {}), Entry({"MissingDep"}, {"a"}),
     Entry({"MissingDep", "IfImported"}, {"ext"}), Entry({"MissingDep"}, {"b", "u"}),
     Entry({"MissingDep", "Unsafe"}, {"a"})}

ScopeCandidates(mutators) ==
    {[module |-> "N", site |-> NoName, callee |-> r, mutates |-> TRUE] : r \in mutators}

ResolutionLibraries ==
    {[Merged("a" :> x @@ "b" :> y @@ "c" :> z, mutators, deferred, {}, {}) EXCEPT
        !.home["b"] = "M",
        !.candidates = {d \in @ : d.callee \notin Unqualified} \cup ScopeCandidates(mutators),
        !.same_name["u"] = same,
        !.cached_errors = {}] :
        x \in WaitingEntries, y \in FewWaitingEntries, z \in FewWaitingEntries,
        mutators \in {{}, {"c"}}, deferred \in {{"a", "b"}, {"b", "c"}},
        same \in {{"b"}, {"a", "c"}}}

AllLibraries == ResolutionLibraries \cup ReduceLibraries

=============================================================================
