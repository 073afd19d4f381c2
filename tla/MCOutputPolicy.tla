--------------------------- MODULE MCOutputPolicy ---------------------------
(***************************************************************************)
(* Small programs for the lazy-eligibility policy: a package p with        *)
(* modules p.a and p.a.b, and three modules c, d and t beside it; every    *)
(* way in which two attributes of c, one of d and one of t can re-export.  *)
(***************************************************************************)
EXTENDS OutputPolicy

SmallModules == {"c", "d", "t", "p", "p.a", "p.a.b"}

SmallPackage ==
    [m \in SmallModules |-> CASE m = "p.a" -> "p" [] m = "p.a.b" -> "p.a" [] OTHER -> NoModule]

SmallRank ==
    [m \in SmallModules |->
        CASE m = "c" -> 0 [] m = "d" -> 1 [] m = "p" -> 2 [] m = "p.a" -> 3 [] m = "p.a.b" -> 4 [] OTHER -> 5]

SmallAttrs == {"w", "x", "y", "z"}

SmallHome == [a \in SmallAttrs |-> CASE a = "x" -> "d" [] a = "y" -> "t" [] OTHER -> "c"]

NoReExports == [a \in {} |-> "w"]

Graph(nodes, edges) ==
    [m \in SmallModules |-> {n \in nodes : m \in nodes /\ <<m, n>> \in edges}]

None == [m \in SmallModules |-> {}]

Prog(nodes, edges, failing) ==
    [nodes |-> nodes, imports |-> Graph(nodes, edges), missing |-> None,
     passing |-> nodes \ failing, failing |-> failing, re_exports |-> NoReExports,
     implicit |-> None, side_effects |-> None]

\* A package in cycles with its own submodules and with d, entered by c and t.
PackageEdges ==
    {<<"p", "d">>, <<"d", "p">>, <<"d", "p.a">>, <<"p.a", "d">>, <<"c", "p.a">>, <<"c", "d">>,
     <<"p", "p.a">>, <<"p.a", "p.a.b">>}

CyclePrograms ==
    {Prog({"c", "d", "p", "p.a", "p.a.b"}, edges, failing) :
        edges \in SUBSET PackageEdges, failing \in {{}, {"p"}, {"d"}}}

\* A namespace package is no node.
NamespacePrograms ==
    {Prog({"c", "d", "p.a", "p.a.b"}, edges \cup {<<"p.a.b", "d">>}, {}) :
        edges \in SUBSET {<<"d", "p.a.b">>, <<"p.a", "d">>, <<"d", "p.a">>, <<"c", "p.a.b">>, <<"c", "d">>}}

\* Modules that are not analysed and so neither pass nor fail.
StubPrograms ==
    {[Prog({"c", "d", "t"}, edges, failing) EXCEPT !.passing = @ \ {"d"}, !.missing["c"] = missing] :
        edges \in SUBSET ({"c", "d", "t"} \X {"c", "d", "t"}), failing \in {{}, {"t"}},
        missing \in {{}, {"p"}}}

\* c and possibly d import t implicitly; ways lead through p and p.a.
ChainEdges ==
    {<<"c", "d">>, <<"c", "p">>, <<"d", "p">>, <<"p", "d">>, <<"d", "t">>, <<"p", "t">>,
     <<"c", "t">>, <<"d", "c">>}

ChainPrograms ==
    {[Prog({"c", "d", "p", "t"}, edges, failing) EXCEPT
        !.implicit = [m \in SmallModules |-> IF m \in consumers THEN {"t"} ELSE {}]] :
        edges \in SUBSET ChainEdges, failing \in {{}, {"c"}, {"d"}},
        consumers \in {{"c"}, {"c", "p"}}}

\* Side effects, re-exports and failing imports.
SideEffectPrograms ==
    {[Prog({"c", "d", "t"}, edges, failing) EXCEPT
        !.side_effects = [m \in SmallModules |->
            CASE m = "c" -> {"d"} [] m = "d" -> {"t"} [] m = "t" -> {"c"} [] OTHER -> {}],
        !.re_exports = [a \in {"w", "z"} |-> IF a = "w" THEN "x" ELSE "y"]] :
        edges \in SUBSET {<<"c", "d">>, <<"d", "t">>, <<"t", "d">>, <<"d", "c">>},
        failing \in SUBSET {"t", "d"}}

\* d imports c, which re-exports.
ReExportPrograms ==
    {[Prog({"c", "d", "t"}, {<<"d", "c">>}, {"t"}) EXCEPT !.re_exports = re] :
        re \in UNION {[exported -> SmallAttrs] : exported \in SUBSET SmallAttrs}}

PolicyPrograms ==
    UNION {CyclePrograms, NamespacePrograms, StubPrograms, ChainPrograms, SideEffectPrograms, ReExportPrograms}

=============================================================================
