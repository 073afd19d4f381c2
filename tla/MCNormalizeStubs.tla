-------------------------- MODULE MCNormalizeStubs --------------------------
(***************************************************************************)
(* A directory of two stubs for the model of the normalization scripts: a  *)
(* text to be merged, its merged form, what a second run makes of that,    *)
(* the empty text, a part of the merged form that still parses and one     *)
(* that does not.                                                          *)
(***************************************************************************)
EXTENDS NormalizeStubs

SomeMerged ==
    [t \in {"raw", "merged", "final", "part", "empty"} |->
        CASE t = "raw" -> "merged" [] t = "merged" -> "final" [] OTHER -> t]

SomePrefixes ==
    [t \in Texts |-> IF t \in {"merged", "final"} THEN {"empty", "part", "broken"} ELSE {"empty"}]

TwoFiles == <<"a", "b">>

\* The other order, one file twice, one file alone.
SomeArgLists == {<<"b", "a">>, <<"a", "a">>, <<"b">>}
=============================================================================
