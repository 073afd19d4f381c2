----------------------------- MODULE MCStubMerge -----------------------------
(***************************************************************************)
(* Small stub files for the model of the overload merge.                   *)
(***************************************************************************)
EXTENDS StubMerge

\* Bodies: an ellipsis, one effect, two effects on one line, the mix of an
\* effect and an ellipsis on one line, a docstring alone and with an effect, a
\* block with such a mix, one that repeats an effect, one of a single line with
\* two, a compound statement.
SomeBodies ==
    {InlineEllipsis("c1"), InlineBody(Line(<<"e1">>, NoComment)), InlineBody(Line(<<"e1", "e2">>, "c2")),
     InlineBody(Line(<<"e2", Ellipsis>>, NoComment)), InlineBody(Line(<<Doc>>, NoComment)),
     Block("c1", <<Line(<<Doc>>, NoComment)>>), Block(NoComment, <<Line(<<"e1", Ellipsis>>, NoComment)>>),
     Block(NoComment, <<Line(<<Doc>>, NoComment), Line(<<"e2">>, NoComment)>>),
     Block(NoComment, <<Line(<<"e1">>, NoComment), Line(<<Ellipsis>>, "c2"), Line(<<"e2", "e1">>, NoComment)>>),
     Block("c1", <<Line(<<"e1", "e2">>, "c2")>>),
     Block(NoComment, <<[simple |-> FALSE, stmts |-> <<"e2">>, comment |-> NoComment]>>)}

Overload(f, b) == [kind |-> "overload", name |-> f, body |-> b]
Def(f, b) == [kind |-> "def", name |-> f, body |-> b]

SomeStatements ==
    {Overload("f", b) : b \in SomeBodies}
    \cup {Overload("g", InlineEllipsis(NoComment)), Overload("g", InlineBody(Line(<<"e1">>, NoComment))),
          Def("f", InlineEllipsis(NoComment)), Def("f", InlineBody(Line(<<"e2">>, "c1"))),
          [kind |-> "other", name |-> "f", body |-> InlineBody(Line(<<"e1">>, NoComment))]}

\* Every module of three statements, beside a class with one group.
ClassStatements == <<Overload("f", InlineEllipsis("c1")), Overload("f", InlineBody(Line(<<"e2">>, NoComment)))>>

ThreeStatements ==
    {[s \in Scopes |-> IF s = "module" THEN <<a, b, c>> ELSE ClassStatements] :
        a, b, c \in SomeStatements}

=============================================================================
