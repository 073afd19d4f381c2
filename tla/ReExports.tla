------------------------------ MODULE ReExports ------------------------------
(***************************************************************************)
(* propagate_re_export_safety of src/cache/merge.rs: what is known of a    *)
(* function is carried over to the names it is re-exported under.          *)
(*                                                                         *)
(* A name is a pair <<module, attribute>>.  An entry is a set: Present and *)
(* its concerns, which are its verdict bits, the callees it waits for and  *)
(* the names of the parameters it mutates (of two positions of one         *)
(* parameter the first stays, and positions are left out).  The entry of a *)
(* safe function is {Present}, that of an absent one is empty.             *)
(***************************************************************************)
EXTENDS Naturals, Sequences, FiniteSets

CONSTANTS
    Modules,    \* module names
    Attrs,      \* names within a module
    Concerns,
    Caches      \* merged caches: the modules, entries and re-exports they hold

Present == "present"

Entries == {e \in SUBSET (Concerns \cup {Present}) : e # {} => Present \in e}

Symbols == Modules \X Attrs

IsCache(c) ==
    /\ c.modules \subseteq Modules
    /\ c.entries \in [Symbols -> Entries]
    /\ \A s \in Symbols : s[1] \notin c.modules => c.entries[s] = {}
    /\ c.re_exports \in Seq([exported : Symbols, imported : Symbols])

ASSUME CachesAssumption == \A c \in Caches : IsCache(c)

VARIABLES
    cache,              \* the cache as it was
    function_safety,    \* the entry of every name
    worklist,           \* indices of re-exports
    queued,             \* the re-exports on the worklist
    done

vars == <<cache, function_safety, worklist, queued, done>>

-----------------------------------------------------------------------------
Edges == DOMAIN cache.re_exports

Imported(n) == cache.re_exports[n].imported
Exported(n) == cache.re_exports[n].exported

\* merge_function_safety_entry_ref: an insertion, or the union of the concerns.
MergedEntry(entry, incoming) == entry \cup incoming

\* Both modules of a re-export are in the cache.
Linked(n) == Imported(n)[1] \in cache.modules /\ Exported(n)[1] \in cache.modules

\* A set as a sequence.  The code keeps the order of the re-exports; the model
\* allows every order.
Orders(S) == {o \in [1..Cardinality(S) -> S] : {o[n] : n \in 1..Cardinality(S)} = S}

Top == worklist[Len(worklist)]

Rest == SubSeq(worklist, 1, Len(worklist) - 1)

Init ==
    /\ cache \in Caches
    /\ function_safety = cache.entries
    /\ worklist = [n \in Edges |-> n]
    /\ queued = Edges
    /\ done = FALSE

\* A module is missing, or the source has no entry.
Skip ==
    /\ worklist # <<>>
    /\ ~Linked(Top) \/ function_safety[Imported(Top)] = {}
    /\ worklist' = Rest /\ queued' = queued \ {Top}
    /\ UNCHANGED <<cache, function_safety, done>>

\* The re-exports that read from the name just changed, unless they are queued.
Affected == {n \in Edges : Imported(n) = Exported(Top)} \ (queued \ {Top})

\* Faulty variant: only a name that had no entry sets off its dependents.
MergeFirstOnly ==
    /\ worklist # <<>>
    /\ Linked(Top) /\ function_safety[Imported(Top)] # {}
    /\ LET old == function_safety[Exported(Top)]
           new == MergedEntry(old, function_safety[Imported(Top)])
       IN  /\ function_safety' = [function_safety EXCEPT ![Exported(Top)] = new]
           /\ \/ /\ old # {}
                 /\ worklist' = Rest /\ queued' = queued \ {Top}
              \/ /\ old = {}
                 /\ \E o \in Orders(Affected) : worklist' = Rest \o o
                 /\ queued' = (queued \ {Top}) \cup Affected
    /\ UNCHANGED <<cache, done>>

\* Faulty variant: the dependents are queued whether the entry changed or not.
MergeAlways ==
    /\ worklist # <<>>
    /\ Linked(Top) /\ function_safety[Imported(Top)] # {}
    /\ function_safety' = [function_safety EXCEPT
          ![Exported(Top)] = MergedEntry(@, function_safety[Imported(Top)])]
    /\ \E o \in Orders(Affected) : worklist' = Rest \o o
    /\ queued' = (queued \ {Top}) \cup Affected
    /\ UNCHANGED <<cache, done>>

\* The exported name takes over the concerns of the imported one.
Merge ==
    /\ worklist # <<>>
    /\ Linked(Top) /\ function_safety[Imported(Top)] # {}
    /\ LET old == function_safety[Exported(Top)]
           new == MergedEntry(old, function_safety[Imported(Top)])
       IN  /\ function_safety' = [function_safety EXCEPT ![Exported(Top)] = new]
           /\ \/ /\ new = old
                 /\ worklist' = Rest /\ queued' = queued \ {Top}
              \/ /\ new # old
                 /\ \E o \in Orders(Affected) : worklist' = Rest \o o
                 /\ queued' = (queued \ {Top}) \cup Affected
    /\ UNCHANGED <<cache, done>>

Return ==
    /\ worklist = <<>> /\ ~done
    /\ done' = TRUE
    /\ UNCHANGED <<cache, function_safety, worklist, queued>>

Done == done /\ UNCHANGED vars

Next == Skip \/ Merge \/ Return \/ Done

Spec == Init /\ [][Next]_vars /\ WF_vars(Next)

-----------------------------------------------------------------------------
(* Properties.                                                              *)

\* What is known of a name: that it has an entry, and each of its concerns.
FactsOf(entries) == {f \in Symbols \X (Concerns \cup {Present}) : f[2] \in entries[f[1]]}

Rules ==
    {<<<<Imported(n), c>>, <<Exported(n), c>>>> :
        n \in {m \in Edges : Linked(m)}, c \in Concerns \cup {Present}}

Closure == INSTANCE LeastClosure WITH
    base <- FactsOf(cache.entries), rules <- Rules, known <- FactsOf(function_safety)

\* Type invariant.
TypeOK ==
    /\ IsCache(cache)
    /\ function_safety \in [Symbols -> Entries]
    /\ \A s \in Symbols : s[1] \notin cache.modules => function_safety[s] = {}
    /\ worklist \in Seq(Edges)
    /\ queued \subseteq Edges
    /\ done \in BOOLEAN

\* "This reaches the same fixpoint as rescanning every edge each round": every
\* name ends up with its own concerns and those of every name it re-exports,
\* along chains and round cycles, and with no others.
SafetyLeast == Closure!Least

\* A re-export is on the worklist once or not at all, as its flag says: nothing
\* is requeued twice and nothing is lost.
FlagsExact ==
    /\ queued = {worklist[n] : n \in 1..Len(worklist)}
    /\ Cardinality(queued) = Len(worklist)

\* A re-export that is not queued has nothing to carry over.
IdleIsStable ==
    \A n \in Edges \ queued :
        Linked(n) => function_safety[Imported(n)] \subseteq function_safety[Exported(n)]

\* The worklist implements the least closure, step by step.
ImplementsClosure == Closure!ClosureSpec

\* A cycle of re-exports does not keep the worklist busy for ever.
Terminates == <>done

=============================================================================
