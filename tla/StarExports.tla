----------------------------- MODULE StarExports -----------------------------
(***************************************************************************)
(* Expanding `from S import *` into re-exports (expand_star_re_exports of  *)
(* src/exports.rs).  A name that a star binds may come from a star of its  *)
(* source, so the stars are swept, in a fixed order, until a sweep changes *)
(* nothing.  Every library expands the stars of its own modules before     *)
(* caches are merged; the whole program is the library of all modules.     *)
(*                                                                         *)
(* Modules are the numbers 1..NumModules, in the order of their names.  A  *)
(* program is a record                                                     *)
(*   own         the names a module binds without a star                   *)
(*   all         the __all__ of the modules that declare one               *)
(*   stars       the stars of each module, in the order of the file        *)
(*   submodules  the attributes that are modules                           *)
(*   libraries   sets of modules                                           *)
(***************************************************************************)
EXTENDS Naturals, SequencesExt, Digraph

CONSTANTS NumModules, Names, Private, MaxStars, Programs

ModuleNumbers == 1..NumModules

\* A star in an except handler is a fallback.
Stars == [source : ModuleNumbers, fallback : BOOLEAN]

IsProgram(p) ==
    /\ p.own \in [ModuleNumbers -> SUBSET Names]
    /\ DOMAIN p.all \subseteq ModuleNumbers /\ \A m \in DOMAIN p.all : p.all[m] \subseteq Names
    /\ p.stars \in [ModuleNumbers -> Seq(Stars)]
    /\ \A m \in ModuleNumbers : Len(p.stars[m]) <= MaxStars
    /\ \A a \in DOMAIN p.submodules : a \in ModuleNumbers \X Names /\ p.submodules[a] \in ModuleNumbers
    /\ p.libraries \subseteq SUBSET ModuleNumbers

ASSUME ProgramsAssumption ==
    /\ NumModules \in Nat /\ MaxStars \in Nat /\ Private \subseteq Names
    /\ \A p \in Programs : IsProgram(p)

VARIABLES
    prog,
    bound,      \* what binds a name of a module, as each library knows it
    edge,       \* the star each library looks at next
    changed,    \* whether this sweep changed anything
    running     \* the libraries that have not reached their fixpoint

starVars == <<prog, bound, edge, changed, running>>

-----------------------------------------------------------------------------
(* Members.                                                                 *)

\* A name is unbound, bound by the k-th star of its module, or without a star.
Unbound == 0
Own == MaxStars + 1

\* seed_star_members
Seeds(p, lib) ==
    [m \in lib |-> [n \in Names |-> IF n \in p.own[m] THEN Own ELSE Unbound]]

\* The stars of a library, by module and then by position.
StarEdges(p, lib) ==
    FlattenSeq([m \in ModuleNumbers |->
        IF m \in lib THEN [k \in 1..Len(p.stars[m]) |-> <<m, k>>] ELSE <<>>])

\* Faulty variant: every public name is offered, bound or not.
StarNamesUnchecked(p, lib, members, s) ==
    IF s \notin lib THEN {}
    ELSE IF s \in DOMAIN p.all THEN p.all[s] ELSE Names \ Private

\* star_bound_names
StarNames(p, lib, members, s) ==
    IF s \notin lib THEN {}
    ELSE IF s \in DOMAIN p.all THEN p.all[s]
    ELSE {n \in Names \ Private : members[s][n] # Unbound}

\* StarRank: a primary star beats a fallback, a later one an earlier one.
Outranks(p, m, j, k) ==
    LET primary(i) == ~p.stars[m][i].fallback
    IN  IF primary(j) = primary(k) THEN j > k ELSE primary(j)

\* star_can_replace
CanReplace(p, m, current, k) ==
    current = Unbound \/ (current \in 1..MaxStars /\ Outranks(p, m, k, current))

\* import_graph.contains: an attribute that is a module of the library.
IsSubmodule(p, lib, s, n) ==
    <<s, n>> \in DOMAIN p.submodules /\ p.submodules[<<s, n>>] \in lib

-----------------------------------------------------------------------------
(* The steps of a library.                                                  *)

StarInit ==
    /\ prog \in Programs
    /\ bound = [lib \in prog.libraries |-> Seeds(prog, lib)]
    /\ edge = [lib \in prog.libraries |-> 1]
    /\ changed = [lib \in prog.libraries |-> FALSE]
    /\ running = prog.libraries

\* The names the k-th star of m binds anew.
Rebound(lib, m, k) ==
    LET s == prog.stars[m][k].source
    IN  {n \in StarNames(prog, lib, bound[lib], s) :
            CanReplace(prog, m, bound[lib][m][n], k) /\ ~IsSubmodule(prog, lib, s, n)}

\* One star of a sweep.
Expand(lib) ==
    /\ lib \in running /\ edge[lib] <= Len(StarEdges(prog, lib))
    /\ LET m == StarEdges(prog, lib)[edge[lib]][1]
           k == StarEdges(prog, lib)[edge[lib]][2]
           new == Rebound(lib, m, k)
       IN  /\ bound' = [bound EXCEPT ![lib][m] = [n \in Names |-> IF n \in new THEN k ELSE @[n]]]
           /\ changed' = [changed EXCEPT ![lib] = @ \/ new # {}]
    /\ edge' = [edge EXCEPT ![lib] = @ + 1]
    /\ UNCHANGED <<prog, running>>

NextSweep(lib) ==
    /\ lib \in running /\ edge[lib] > Len(StarEdges(prog, lib)) /\ changed[lib]
    /\ edge' = [edge EXCEPT ![lib] = 1]
    /\ changed' = [changed EXCEPT ![lib] = FALSE]
    /\ UNCHANGED <<prog, bound, running>>

\* Faulty variant: one sweep is enough.
FinishAfterSweep(lib) ==
    /\ lib \in running /\ edge[lib] > Len(StarEdges(prog, lib))
    /\ running' = running \ {lib}
    /\ UNCHANGED <<prog, bound, edge, changed>>

Finish(lib) ==
    /\ lib \in running /\ edge[lib] > Len(StarEdges(prog, lib)) /\ ~changed[lib]
    /\ running' = running \ {lib}
    /\ UNCHANGED <<prog, bound, edge, changed>>

StarDone == running = {} /\ UNCHANGED starVars

StarNext == (\E lib \in prog.libraries : Expand(lib) \/ NextSweep(lib) \/ Finish(lib)) \/ StarDone

\* A library's expansion is one loop, which the thread that runs it goes on with.
Fairness == WF_starVars(\E lib \in prog.libraries : Expand(lib) \/ NextSweep(lib) \/ Finish(lib))

StarSpec == StarInit /\ [][StarNext]_starVars /\ Fairness

-----------------------------------------------------------------------------
(* Properties.                                                              *)

\* Type invariant.
StarTypeOK ==
    /\ DOMAIN bound = prog.libraries /\ edge \in [prog.libraries -> Nat]
    /\ \A lib \in prog.libraries :
          /\ bound[lib] \in [lib -> [Names -> 0..(MaxStars + 1)]]
          /\ \A m \in lib : \A n \in Names :
                (bound[lib][m][n] = Own) = (n \in prog.own[m])
          /\ edge[lib] \in 1..(Len(StarEdges(prog, lib)) + 1)
    /\ changed \in [prog.libraries -> BOOLEAN]
    /\ running \subseteq prog.libraries

\* The stars of m that offer n, as far as the library knows.
Offering(lib, m, n) ==
    {k \in 1..Len(prog.stars[m]) :
        LET s == prog.stars[m][k].source
        IN  n \in StarNames(prog, lib, bound[lib], s) /\ ~IsSubmodule(prog, lib, s, n)}

\* A name that a module does not bind itself is bound by the highest ranking of all
\* the stars that offer it, and is bound if any star offers it.
BestStars ==
    \A lib \in prog.libraries : \A m \in lib : \A n \in Names \ prog.own[m] :
        LET offering == Offering(lib, m, n)
        IN  IF offering = {} THEN bound[lib][m][n] = Unbound
            ELSE bound[lib][m][n] \in
                   {j \in offering : \A k \in offering \ {j} :
                       IF prog.stars[m][j].fallback = prog.stars[m][k].fallback THEN k < j
                       ELSE prog.stars[m][k].fallback}

\* "So the fixpoint converges instead of looping": every library finishes, and then
\* the best star has won, however late its source got the name ("the later star
\* must still win once the name shows up").
BestStarWins == <>[](running = {} /\ BestStars)

\* The modules of the library that a module's stars import from.
StarSources(lib) ==
    [m \in lib |-> lib \cap {prog.stars[m][k].source : k \in 1..Len(prog.stars[m])}]

\* Type correct, and at every moment a name that a star binds is one that some
\* module along the stars binds itself or declares: stars that import one another
\* make up nothing.
NothingMadeUp ==
    /\ StarTypeOK
    /\ \A lib \in prog.libraries : \A m \in lib : \A n \in Names :
        bound[lib][m][n] \in 1..MaxStars =>
            \E d \in Reached(StarSources(lib), {m}) :
                n \in prog.own[d] \/ (d \in DOMAIN prog.all /\ n \in prog.all[d])

=============================================================================
