--------------------------- MODULE MCMutatedParams ---------------------------
(***************************************************************************)
(* Small programs for the model of the mutated parameters: two functions,  *)
(* a method m of a class C, and an unknown name u.                         *)
(***************************************************************************)
EXTENDS MutatedParams, FiniteSets, TLC

Keyword(x) == [kind |-> "keyword", name |-> x]
Positional(i) == [kind |-> "positional", index |-> i]
Star(i) == [kind |-> "star", index |-> i]

Forward(scope, kind, name, forwarded) ==
    [scope |-> scope, kind |-> kind, name |-> name, forwarded |-> forwarded]

\* f and g call each other with their parameters swapped or dropped; both call
\* the method and the unknown name.
SomeCalls ==
    {Forward("f", "other", "g", {<<Positional(0), "y">>}),
     Forward("f", "other", "g", {<<Star(1), "x">>}),
     Forward("g", "other", "f", {<<Positional(0), "x">>, <<Positional(1), "y">>}),
     Forward("g", "other", "f", {<<Positional(2), "x">>}),
     Forward("f", "bound", "m", {<<Positional(0), "x">>}),
     Forward("g", "unbound", "m", {<<Positional(0), "y">>}),
     Forward("g", "other", "C", {<<Positional(0), "x">>}),
     Forward("m", "other", "u", {<<Keyword("x"), "x">>}),
     Forward("f", "other", "u", {<<Positional(0), "x">>, <<Keyword("y"), "y">>})}

SomeSeeds ==
    {{<<"g", "y">>}, {<<"f", "x">>, <<"m", "y">>}, {<<"m", "x">>}, {<<"u", "x">>, <<"f", "y">>}}

SomeMethods ==
    {"m" :> k : k \in {"static", "class", "instance"}} \cup {<<>>}

SmallPrograms ==
    {[params |-> [n \in {"f", "g", "m"} |-> <<"x", "y">>],
      classes |-> "C" :> {"m"}, methods |-> ms, seeds |-> ss, calls |-> cs] :
        ms \in SomeMethods, ss \in SomeSeeds, cs \in {c \in SUBSET SomeCalls : Cardinality(c) \in 2..4}}

=============================================================================
