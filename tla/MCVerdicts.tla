------------------------------ MODULE MCVerdicts ------------------------------
(***************************************************************************)
(* Small programs for the model of the verdict precompute.                 *)
(***************************************************************************)
EXTENDS Verdicts, Digraph, TLC

E(kind, name) == [kind |-> kind, name |-> name, mutates |-> FALSE, defers |-> {}]
Call(name)    == E("call", name)
AnyName       == CHOOSE n \in Names : TRUE
Error         == E("error", AnyName)
Imported      == E("imported_mutation", AnyName)
Global        == E("global_mutation", AnyName)

\* Complete a program: in_cycle and level are what csr_graph.rs computes from
\* its call graph.
WithLevels(p) ==
    LET cyc == OnCycle(Nodes(p), CallEdges(p))
        acyclic == Nodes(p) \ cyc
    IN  p @@ [in_cycle |-> cyc,
              level |-> Height(acyclic, {x \in CallEdges(p) : x[1] \in acyclic /\ x[2] \in acyclic})]

\* A program without lookups: every definition resolves to itself.
Plain(module, effects) ==
    [module |-> module, classes |-> {}, ctors |-> <<>>, callable |-> DOMAIN module,
     resolve |-> [n \in Names |-> IF n \in DOMAIN module THEN n ELSE NoName],
     above |-> [n \in Names |-> NoName],
     meta |-> [n \in Names |-> <<>>],
     nested |-> [n \in Names |-> <<>>],
     effects |-> effects,
     declared_safe |-> {}]

Override(lookup, g) == [n \in Names |-> IF n \in DOMAIN g THEN g[n] ELSE lookup[n]]

\* Give a program classes, as a function from class to constructor methods.
AddClasses(p, ctors) ==
    [p EXCEPT !.classes = DOMAIN ctors, !.ctors = ctors, !.callable = @ \cup DOMAIN ctors,
              !.resolve = [n \in Names |-> IF n \in DOMAIN ctors THEN n ELSE @[n]]]

-----------------------------------------------------------------------------
(* Every program of three functions, two in one module, with at most two     *)
(* effects in the first and one in the others, of fewer kinds in the third.   *)

FunctionNames == {"a", "b", "c", "ext"}

SmallEffects ==
    {Error, Global, [Call("ext") EXCEPT !.defers = {"ext"}]} \cup {Call(n) : n \in FunctionNames}

UpTo1 == {<<>>} \cup {<<e>> : e \in SmallEffects}
UpTo2 == UpTo1 \cup {<<e, f>> : e, f \in SmallEffects}

ModuleOf == "a" :> "M" @@ "b" :> "M" @@ "c" :> "N"

FunctionPrograms ==
    {WithLevels(Plain(ModuleOf, "a" :> x @@ "b" :> y @@ "c" :> z)) :
        x \in UpTo2, y \in UpTo1,
        z \in {<<>>, <<Error>>, <<Global>>, <<Call("a")>>, <<Call("b")>>}}

-----------------------------------------------------------------------------
(* Dispatch: a function f whose calls go to a class K, to an inherited hook *)
(* B.hook, to the metaclass method T.new, to a parameterized decorator d    *)
(* with a nested function d.in, to a safelisted name and to re-exports.     *)

DispatchNames == {"f", "K", "K.init", "B.hook", "T.new", "d", "d.in", "s", "r", "r.ext", "L.hook", "K.new", "ext"}

DispatchModule ==
    [n \in {"f", "K.init", "B.hook", "d", "d.in", "s", "T.new"} |-> IF n = "T.new" THEN "N" ELSE "M"]

Bodies2 == {<<>>, <<Error>>, <<Global>>, <<Call("ext")>>}

\* f's calls; "r" is a re-export of K, "r.ext" one of a name outside the sources.
DispatchCalls ==
    {Call("K"), Call("r"), Call("r.ext"), Call("s"), E("super", "L.hook"), E("super", "f"),
     E("create", "L.hook"), E("decorate", "d"), [Call("d") EXCEPT !.mutates = TRUE]}

DispatchProgram(calls, init, hook, cyclic) ==
    LET module == DispatchModule
        base == Plain(module,
                  [n \in DOMAIN module |->
                     CASE n = "f" -> calls
                       [] n = "K.init" -> IF cyclic THEN <<Call("K")>> ELSE init
                       [] n = "T.new" -> init
                       [] n \in {"B.hook", "d.in"} -> hook
                       [] n = "s" -> <<Imported>>
                       [] OTHER -> <<>>])
    IN  [AddClasses(base, "K" :> IF cyclic THEN <<"K.init">> ELSE <<"T.new", "K.init", "K.new">>) EXCEPT
           !.callable = @ \cup {"r", "r.ext"},
           !.resolve = Override(@, "r" :> "K" @@ "r.ext" :> "r.ext"
                                   @@ "L.hook" :> "B.hook" @@ "K.new" :> "B.hook"),
           !.above = Override(@, "L.hook" :> "B.hook"),
           !.meta = Override(@, "L.hook" :> <<"T.new">>),
           !.nested = Override(@, "d" :> <<"d.in">>),
           !.declared_safe = {"s"}]

DispatchPrograms ==
    {WithLevels(DispatchProgram(<<c>>, init, hook, FALSE)) :
        c \in DispatchCalls, init \in Bodies2, hook \in {<<>>, <<Error>>}}
    \cup
    {WithLevels(DispatchProgram(<<c, E("create", "L.hook")>>, body, body, FALSE)) :
        c \in DispatchCalls \ {Call("K")}, body \in Bodies2 \ {<<>>}}
    \cup
    {WithLevels(DispatchProgram(<<c>>, <<>>, hook, TRUE)) :
        c \in DispatchCalls, hook \in {<<Error>>, <<Global>>}}

-----------------------------------------------------------------------------
(* A class on a call cycle with a constructor method outside it: K.init     *)
(* calls K, while K.new only calls h.  A caller of K is leveled without     *)
(* regard to K.new and evaluates it itself when it has no verdict yet.      *)

SettledNames == {"f", "g", "K", "K.init", "K.new", "h"}

SettledProgram(effects) ==
    AddClasses(Plain([n \in SettledNames \ {"K"} |-> "M"],
                     [n \in SettledNames \ {"K"} |-> effects[n]]),
               "K" :> <<"K.new", "K.init">>)

SettledClassPrograms ==
    {WithLevels(SettledProgram(
        [f |-> <<Call("K")>>, g |-> <<Call("K"), Call("f")>>,
         h |-> hs] @@ ("K.new" :> <<Call("h")>>) @@ ("K.init" :> <<Call("K")>>))) :
     hs \in {<<Error>>, <<Global, Error>>, <<Global>>, <<>>}}

AllNames == UNION {FunctionNames, DispatchNames, SettledNames}

AllPrograms == UNION {FunctionPrograms, DispatchPrograms, SettledClassPrograms}

=============================================================================
