---------------------------- MODULE MCStarExports ----------------------------
(***************************************************************************)
(* Small programs for the model of star expansion: three modules that      *)
(* star-import one another in every way, stars in except handlers,         *)
(* declared, private and submodule names.                                  *)
(***************************************************************************)
EXTENDS StarExports

Star(s, f) == [source |-> s, fallback |-> f]

Plain(m) == {Star(s, FALSE) : s \in ModuleNumbers \ {m}}

Lists(S, max) == UNION {[1..k -> S] : k \in 0..max}

NoFun == [a \in {} |-> {}]

Prog(own, all, stars, submodules, libraries) ==
    [own |-> own, all |-> all, stars |-> stars,
     submodules |-> submodules, libraries |-> libraries]

OwnX(S) == [m \in ModuleNumbers |-> IF m \in S THEN {"x"} ELSE {}]

\* Every way of three modules to import one another, two stars at most in each.
Webs ==
    {Prog(OwnX(S), NoFun, <<a, b, c>>, NoFun, {ModuleNumbers}) :
        S \in SUBSET ModuleNumbers, a \in Lists(Plain(1), 2), b \in Lists(Plain(2), 2),
        c \in Lists(Plain(3), 2)}

\* Fallbacks in one module, and a star of a module to itself.
Fallbacks ==
    {Prog(OwnX(S), NoFun, <<a, b, c>>, NoFun, {ModuleNumbers}) :
        S \in SUBSET {2, 3}, a \in [1..2 -> {Star(2, TRUE), Star(3, TRUE), Star(2, FALSE), Star(3, FALSE)}],
        b \in {<<>>, <<Star(3, FALSE)>>, <<Star(1, TRUE)>>, <<Star(2, FALSE), Star(1, FALSE)>>},
        c \in {<<>>, <<Star(1, FALSE)>>}}

\* Declared and private names and submodules.
Declared ==
    {Prog(<<{}, own, {"x", "_p"}>>,
          all, <<<<Star(2, FALSE), Star(3, f)>>, <<Star(3, FALSE)>>, <<>>>>,
          sub, {ModuleNumbers}) :
        own \in SUBSET {"x", "_p"}, f \in BOOLEAN,
        all \in {NoFun} \cup [{2} -> SUBSET {"x", "_p"}] \cup [{3} -> SUBSET {"x", "_p"}],
        sub \in {NoFun, [a \in {<<3, "x">>} |-> 2]}}

WholePrograms == Webs \cup Fallbacks \cup Declared

=============================================================================
