---------------------------- MODULE MCImportMerge ----------------------------
(***************************************************************************)
(* Small programs for the model of the two import graphs: a package a with *)
(* a module a.b and a name a.b.c that may be a module or an attribute, a   *)
(* module x, and a stub s.                                                 *)
(***************************************************************************)
EXTENDS ImportMerge, FiniteSets, TLC

SomeChains ==
    "a" :> <<"a">> @@ "a.b" :> <<"a.b", "a">> @@ "a.b.c" :> <<"a.b.c", "a.b", "a">>
        @@ "x" :> <<"x">> @@ "s" :> <<"s">> @@ "s.t" :> <<"s.t", "s">>

Stmt(k, n, b) == [kind |-> k, name |-> n, branch |-> b]

SomeStatements ==
    {{Stmt("import", "a.b.c", "always")},
     {Stmt("from", "a.b.c", "always")},
     {Stmt("from", "a.b", "always"), Stmt("from", "s.t", "always")},
     {Stmt("module", "a.b", "always"), Stmt("module", "a", "guard")},
     {Stmt("from", "a.b.c", "guard"), Stmt("module", "a.b.c", "otherwise")},
     {Stmt("import", "a.b", "guard"), Stmt("from", "a.b.c", "always")},
     {Stmt("import", "s.t", "guard"), Stmt("import", "a.b.c", "otherwise")}}

ModuleSets == {{"a", "a.b", "x"}, {"a.b", "a.b.c", "x"}, {"a", "a.b.c", "x"}, {"a", "x"}}

\* One or two libraries in which every module may occur more than once, or one
\* library for each module.
Splits(ms) ==
    {l \in SUBSET (SUBSET ms \ {{}}) : UNION l = ms /\ Cardinality(l) \in {1, 2}}
    \cup {{{m} : m \in ms}}

\* a.b may be a module that cannot be parsed.
SmallPrograms ==
    UNION {
        {[modules |-> ms, bad |-> b, stubs |-> {"s"},
          statements |-> [m \in ms |-> IF m = "x" THEN sx ELSE IF m \in b THEN {} ELSE sm],
          libraries |-> l, main |-> main] :
            sx \in SomeStatements,
            sm \in {{Stmt("from", "a.b.c", "guard"), Stmt("import", "x", "otherwise")},
                    {Stmt("from", "a.b", "always")}},
            main \in {"none", "x", "a"}, l \in Splits(ms), b \in {{}, ms \cap {"a.b"}}} :
        ms \in ModuleSets}

=============================================================================
