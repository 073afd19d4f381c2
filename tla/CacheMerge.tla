----------------------------- MODULE CacheMerge -----------------------------
(***************************************************************************)
(* Merging the caches of a binary's libraries (src/cache/merge.rs and      *)
(* ReduceWorkspace::merge in src/cache/reduce.rs).  The first cache is the *)
(* base; the records of the others are appended to its own, sorted by      *)
(* module, and records of one module are joined in place.  The facts about *)
(* a class are folded into lookup maps on the way.                         *)
(*                                                                         *)
(* Modules are the numbers 1..NumModules, in the order of their names.  Of *)
(* a record its safety and its mutation candidates are kept, the facts     *)
(* whose merge depends on order; its import edges are in ImportMerge, its  *)
(* functions in ReExports.  One class stands for all, since the maps treat *)
(* each on its own; the callees a mask cannot name, which are only united, *)
(* are left out.  The bases, of every class, make the hierarchy in which   *)
(* the reduce then looks inherited methods up: once they are merged, one   *)
(* class is linearized (Mro).                                              *)
(***************************************************************************)
EXTENDS Mro

CONSTANTS
    NumModules, Errors, Candidates,
    Metaclasses, NoMetaclass,
    MetaBits, OwnBits,     \* constructor methods of the metaclass and of the class
    CacheLists             \* the lists of caches to check

Modules == 1..NumModules

Safeties == [failed : {FALSE}, errors : SUBSET Errors]
                \cup [failed : {TRUE}, message : Nat]

ModuleRecords == [name : Modules, safety : Safeties, candidates : Seq(Candidates)]

Callees == [metaclass : Metaclasses \cup {NoMetaclass}, mask : SUBSET (MetaBits \cup OwnBits)]

Caches ==
    [modules : Seq(ModuleRecords), class_bases : [Classes -> Seq(Classes)], callees : Callees]

\* A cache has one record for each of its modules.  A metaclass is recorded when
\* one of its bits is.
IsCache(c) ==
    /\ \A i, j \in DOMAIN c.modules : c.modules[i].name = c.modules[j].name => i = j
    /\ c.callees.metaclass = NoMetaclass <=> c.callees.mask \subseteq OwnBits

ASSUME CacheListsAssumption ==
    /\ NumModules \in Nat /\ NoMetaclass \notin Metaclasses /\ MetaBits \cap OwnBits = {}
    /\ CacheLists \subseteq Seq(Caches)
    /\ \A l \in CacheLists : Len(l) > 0 /\ \A n \in DOMAIN l : IsCache(l[n])

VARIABLES
    cache_list,
    merge_phase,      \* "fold", "join", "class", "merged"
    deps,       \* the caches still to fold
    modules,
    callees,    \* the class's merged constructor_callees; an empty mask is no entry
    write, read

mergeVars == <<cache_list, merge_phase, deps, modules, callees, write, read, class_bases, mroVars>>

-----------------------------------------------------------------------------
(* Joining records and facts.                                               *)

\* extend_deduped
ExtendDeduped(target, other) ==
    LET extended[n \in 0..Len(other)] ==
            IF n = 0 THEN target
            ELSE IF Contains(extended[n - 1], other[n]) THEN extended[n - 1]
            ELSE Append(extended[n - 1], other[n])
    IN  extended[Len(other)]

\* Faulty variant: the first library to know a class decides.
FoldBasesFirst(target, other) ==
    [c \in Classes |-> IF target[c] = <<>> THEN ExtendDeduped(<<>>, other[c]) ELSE target[c]]

\* fold_fqn_lists
FoldBases(target, other) == [c \in Classes |-> ExtendDeduped(target[c], other[c])]

NoBases == [c \in Classes |-> <<>>]

\* Faulty variant: the later failure wins.
JoinSafetyLast(a, b) ==
    IF b.failed THEN b
    ELSE IF a.failed THEN a
    ELSE [failed |-> FALSE, errors |-> a.errors \cup b.errors]

\* Faulty variant: a result with errors outranks a failure.
JoinSafetyErrorsWin(a, b) ==
    IF a.failed THEN b
    ELSE IF b.failed THEN a
    ELSE [failed |-> FALSE, errors |-> a.errors \cup b.errors]

\* CachedSafety::merge
JoinSafety(a, b) ==
    IF a.failed THEN a
    ELSE IF b.failed THEN b
    ELSE [failed |-> FALSE, errors |-> a.errors \cup b.errors]

\* CachedModule::merge
JoinModules(a, b) ==
    [name |-> a.name, safety |-> JoinSafety(a.safety, b.safety),
     candidates |-> ExtendDeduped(a.candidates, b.candidates)]

\* CachedModule::empty
Placeholder(m) ==
    [name |-> m, safety |-> [failed |-> FALSE, errors |-> {}], candidates |-> <<>>]

NoCallees == [metaclass |-> NoMetaclass, mask |-> {}]

JoinMetaclass(a, b) ==
    IF a = NoMetaclass THEN b
    ELSE IF b \in {NoMetaclass, a} THEN a
    ELSE NoMetaclass

\* Faulty variant: the bits of a metaclass outlive the conflict.
MergedWithKeepsBits(a, b) ==
    [metaclass |-> JoinMetaclass(a.metaclass, b.metaclass), mask |-> a.mask \cup b.mask]

\* ConstructorCallees::merged_with
MergedWith(a, b) ==
    LET metaclass == JoinMetaclass(a.metaclass, b.metaclass)
    IN  [metaclass |-> metaclass,
         mask |-> IF metaclass = NoMetaclass THEN (a.mask \cup b.mask) \cap OwnBits
                  ELSE a.mask \cup b.mask]

\* An empty record is no entry, so a metaclass without bits is forgotten.
FoldCallees(a, b) ==
    LET merged == MergedWith(a, b)
    IN  IF merged.mask = {} THEN NoCallees ELSE merged

\* swap_remove(0): the last cache takes the place of the first.
DepOrder(l) ==
    IF Len(l) = 1 THEN <<>> ELSE <<Last(l)>> \o SubSeq(l, 2, Len(l) - 1)

\* par_sort_by_key is stable: a record comes after those of smaller names and the
\* earlier ones of its own.
Rank(s, i) ==
    Cardinality({j \in DOMAIN s : s[j].name < s[i].name \/ (s[j].name = s[i].name /\ j <= i)})

SortedByName(s) == [n \in DOMAIN s |-> s[CHOOSE i \in DOMAIN s : Rank(s, i) = n]]

-----------------------------------------------------------------------------
(* The steps.                                                               *)

MergeInit ==
    /\ cache_list \in CacheLists
    /\ merge_phase = IF Len(cache_list) = 1 THEN "class" ELSE "fold"
    /\ deps = DepOrder(cache_list)
    /\ modules = cache_list[1].modules
    /\ class_bases = NoBases /\ callees = NoCallees
    /\ write = 1 /\ read = 2
    /\ MroInit

\* merge_dep_caches, the loop over dep_caches
FoldDep ==
    /\ merge_phase = "fold" /\ deps # <<>>
    /\ modules' = modules \o Head(deps).modules
    /\ class_bases' = FoldBases(class_bases, Head(deps).class_bases)
    /\ callees' = FoldCallees(callees, Head(deps).callees)
    /\ deps' = Tail(deps)
    /\ UNCHANGED <<cache_list, merge_phase, write, read, mroVars>>

Sort ==
    /\ merge_phase = "fold" /\ deps = <<>>
    /\ modules' = SortedByName(modules)
    /\ merge_phase' = IF Len(modules) < 2 THEN "class" ELSE "join"
    /\ UNCHANGED <<cache_list, deps, class_bases, callees, write, read, mroVars>>

\* merge_duplicate_modules, one iteration
NextRecord ==
    /\ merge_phase = "join" /\ read <= Len(modules)
    /\ IF modules[write].name = modules[read].name
       THEN /\ modules' = [modules EXCEPT ![write] = JoinModules(@, modules[read]),
                                          ![read] = Placeholder(modules[read].name)]
            /\ write' = write
       ELSE /\ modules' = [modules EXCEPT ![write + 1] = modules[read],
                                          ![read] = modules[write + 1]]
            /\ write' = write + 1
    /\ read' = read + 1
    /\ UNCHANGED <<cache_list, merge_phase, deps, class_bases, callees, mroVars>>

\* modules.truncate(write + 1), and back to the reduce.
Truncate ==
    /\ merge_phase = "join" /\ read > Len(modules)
    /\ modules' = SubSeq(modules, 1, write)
    /\ merge_phase' = "class"
    /\ UNCHANGED <<cache_list, deps, class_bases, callees, write, read, mroVars>>

\* resolve_cross_library_errors folds the base's own class facts last.
FoldOwn ==
    /\ merge_phase = "class"
    /\ class_bases' = FoldBases(class_bases, cache_list[1].class_bases)
    /\ callees' = FoldCallees(callees, cache_list[1].callees)
    /\ merge_phase' = "merged"
    /\ UNCHANGED <<cache_list, deps, modules, write, read, mroVars>>

\* SafetyResolver::mro_method_verdict asks for the ancestors of a class.
LinearizeMerged ==
    /\ merge_phase = "merged"
    /\ Linearize
    /\ UNCHANGED <<cache_list, merge_phase, deps, modules, callees, write, read>>

MergeDone == Linearized /\ UNCHANGED mergeVars

MergeNext == FoldDep \/ Sort \/ NextRecord \/ Truncate \/ FoldOwn \/ LinearizeMerged \/ MergeDone

MergeSpec == MergeInit /\ [][MergeNext]_mergeVars /\ WF_mergeVars(MergeNext)

-----------------------------------------------------------------------------
(* Properties.                                                              *)

\* Type invariant.  While records are joined only placeholders lie between the
\* two indices, so that truncating drops nothing else.
MergeTypeOK ==
    /\ merge_phase \in {"fold", "join", "class", "merged"}
    /\ modules \in Seq(ModuleRecords)
    /\ class_bases \in [Classes -> Seq(Classes)] /\ callees \in Callees
    /\ merge_phase = "join" =>
          /\ 1 <= write /\ write < read /\ read <= Len(modules) + 1
          /\ \A i \in (write + 1)..(read - 1) : modules[i] = Placeholder(modules[i].name)

RecordsOf(s, m) == {s[i] : i \in {j \in DOMAIN s : s[j].name = m}}

AllRecords(m) == UNION {RecordsOf(cache_list[n].modules, m) : n \in DOMAIN cache_list}

Failing(R) == {r \in R : r.safety.failed}

ErrorsOf(R) == UNION {r.safety.errors : r \in R \ Failing(R)}

\* The merge ends with exactly one record for every module of any cache, in the
\* order of their names.
OneRecordEach ==
    merge_phase = "merged" /\ Len(cache_list) > 1 =>
        /\ \A i, j \in DOMAIN modules : i < j => modules[i].name < modules[j].name
        /\ {modules[i].name : i \in DOMAIN modules} = {m \in Modules : AllRecords(m) # {}}

\* "Most conservative": while records are sorted, moved and joined, and after the
\* rest is cut off, a module that failed in some library fails, and if none did
\* no error of any library is lost and none is added. Type correct, and sorted at
\* the end.
NothingDropped ==
    /\ MergeTypeOK /\ OneRecordEach
    /\ merge_phase # "fold" =>
        \A m \in Modules :
            LET now == RecordsOf(modules, m)
                all == AllRecords(m)
            IN  IF Failing(all) # {} THEN Failing(now) # {}
                ELSE Failing(now) = {} /\ ErrorsOf(now) = ErrorsOf(all)

\* The cache that is merged n-th, the base first, and what it knows of m.
MergedAs(n) == IF n = 1 THEN cache_list[1] ELSE DepOrder(cache_list)[n - 1]

KnownAt(n, m) == RecordsOf(MergedAs(n).modules, m)

\* Of the caches that are merged as N, the first that fails a record's module.
FirstFailureKept(r, N) ==
    \A n \in N : \A first \in KnownAt(n, r.name) :
        first.safety.failed /\ (\A o \in N : o < n => Failing(KnownAt(o, r.name)) = {})
            => r.safety = first.safety

\* Some occurrence of x comes before all those of y.
Precedes(m, N, x, y) ==
    \E n \in N : \E r \in KnownAt(n, m) : \E k \in DOMAIN r.candidates :
        /\ r.candidates[k] = x
        /\ \A o \in N : \A q \in KnownAt(o, m) : \A j \in DOMAIN q.candidates :
              q.candidates[j] = y => n < o \/ (n = o /\ k < j)

\* A record has the candidates of the first cache that knows its module as they are
\* ("pre-existing duplicates survive"), and then those of the others, each once,
\* in the order in which they first occur.
CandidatesInOrder(r, N) ==
    /\ ToSet(r.candidates) = UNION {UNION {ToSet(q.candidates) : q \in KnownAt(n, r.name)} : n \in N}
    /\ \E n \in N : \E first \in KnownAt(n, r.name) :
          /\ \A o \in N : KnownAt(o, r.name) # {} => n <= o
          /\ Len(first.candidates) <= Len(r.candidates)
          /\ \A k \in DOMAIN first.candidates : r.candidates[k] = first.candidates[k]
          /\ \A k \in (Len(first.candidates) + 1)..Len(r.candidates) : \A j \in 1..(k - 1) :
                Precedes(r.name, N, r.candidates[j], r.candidates[k])

\* "Preserve the historical merge base and remainder order": what is reported of a
\* module, its candidates and its failure, is in the order of the merge.
MergeOrderKept ==
    merge_phase = "merged" =>
        \A i \in DOMAIN modules :
            /\ FirstFailureKept(modules[i], DOMAIN cache_list)
            /\ CandidatesInOrder(modules[i], DOMAIN cache_list)

\* The callees a record names on the metaclass.
MetaCallees(c) == {<<c.metaclass, bit>> : bit \in c.mask \cap MetaBits}

\* "Two libraries disagreeing about a class's metaclass cannot be merged into a
\* callee set neither of them recorded": every callee named is one some library
\* recorded, and without a metaclass none of its bits is set.
CalleesRecorded ==
    /\ MetaCallees(callees) \subseteq UNION {MetaCallees(cache_list[n].callees) : n \in DOMAIN cache_list}
    /\ callees.metaclass = NoMetaclass => callees.mask \subseteq OwnBits

\* The merge and the linearization end, and then the order of a class's ancestors
\* has every class once that some library, over any number of generations, records
\* as an ancestor, in however many pieces the libraries know the hierarchy.
NobodyForgotten ==
    <>[](/\ Linearized /\ NobodyLost
         /\ LET above(c) == UNION {ToSet(cache_list[n].class_bases[c]) : n \in DOMAIN cache_list}
            IN  \A c \in ToSet(result) : above(c) \subseteq ToSet(result))

=============================================================================
