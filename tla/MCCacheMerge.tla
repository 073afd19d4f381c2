---------------------------- MODULE MCCacheMerge ----------------------------
(***************************************************************************)
(* Small lists of caches: up to three caches of three modules whose        *)
(* records differ in every way, three caches that disagree about a class,  *)
(* and two caches that share a hierarchy of four classes.                  *)
(***************************************************************************)
EXTENDS CacheMerge

Ok(errors) == [failed |-> FALSE, errors |-> errors]

Failed(n) == [failed |-> TRUE, message |-> n]

Rec(m, s, c) == [name |-> m, safety |-> s, candidates |-> c]

\* What the n-th cache may say of module m.
Variants(m, n) ==
    {Rec(m, Ok({"e"}), <<"q", "p">>), Rec(m, Failed(n), <<>>)}
        \cup IF n = 3 THEN {} ELSE {Rec(m, Ok({}), <<"p", "p">>)}

\* Module 3 precedes the others where it is present.
ModuleLists(n) ==
    {<<r>> : r \in Variants(1, n) \cup Variants(2, n)}
    \cup {<<r, s>> : r \in Variants(1, n), s \in Variants(2, n)}
    \cup {<<Rec(3, Ok({"f"}), <<"p">>), r>> : r \in Variants(2, n)}
    \cup {<<>>}

Cache(m, c) == [modules |-> m, class_bases |-> NoBases, callees |-> c]

None == [metaclass |-> "none", mask |-> {}]

Facts ==
    {[metaclass |-> t, mask |-> bits] : t \in {"T", "U"}, bits \in {{"new"}, {"call"}, {"new", "own"}}}
    \cup {None, [metaclass |-> "none", mask |-> {"own"}]}

SomeLists ==
    {<<Cache(a, None)>> : a \in ModuleLists(1)}
    \cup {<<Cache(a, None), Cache(b, None)>> : a \in ModuleLists(1), b \in ModuleLists(2)}
    \cup {<<Cache(a, None), Cache(b, None), Cache(c, None)>> :
             a \in ModuleLists(1), b \in ModuleLists(2), c \in ModuleLists(3)}
    \cup {<<Cache(<<>>, x), Cache(<<>>, y), Cache(<<>>, z)>> : x \in Facts, y \in Facts, z \in Facts}

-----------------------------------------------------------------------------
(* Every hierarchy of four classes with at most two bases each; the class    *)
(* that is linearized may have three (their names only number them).  The    *)
(* base cache lists all bases, or the other one lists the last base of each. *)

\* MaxBases bounds the bases of a class.
BasesOf(c, MaxBases) ==
    {s \in UNION {[1..n -> Classes \ {c}] : n \in 0..MaxBases} : IsInjective(s)}

StartBases == {<<"b">>, <<"b", "c">>, <<"b", "c", "d">>}

Hierarchies ==
    {[c \in Classes |-> CASE c = "a" -> a [] c = "b" -> b [] c = "c" -> p [] c = "d" -> d] :
        a \in StartBases, b \in BasesOf("b", 2), p \in BasesOf("c", 2), d \in BasesOf("d", 2)}

Describes(h) == [modules |-> <<>>, class_bases |-> h, callees |-> None]

ButLast(h) == [c \in Classes |-> IF h[c] = <<>> THEN <<>> ELSE Front(h[c])]

OnlyLast(h) == [c \in Classes |-> IF h[c] = <<>> THEN <<>> ELSE <<Last(h[c])>>]

SmallLists ==
    SomeLists
    \cup {<<Describes(h)>> : h \in Hierarchies}
    \cup {<<Describes(ButLast(h)), Describes(OnlyLast(h))>> : h \in Hierarchies}

=============================================================================
