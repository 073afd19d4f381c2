---------------------------- MODULE MCModulePass ----------------------------
(***************************************************************************)
(* Small programs for the module-scope pass: two modules, two functions, a *)
(* class whose name lies in no module, classes that derive from each other.*)
(***************************************************************************)
EXTENDS ModulePass

Call(names, mutates) ==
    [kind |-> "call", mutates |-> mutates, property |-> FALSE, class |-> "K",
     callees |-> {[known |-> n \in Functions, name |-> n, bodies |-> {n} \cap Functions] : n \in names}]

Simple(kind) == [Call({}, FALSE) EXCEPT !.kind = kind]

Creates(class, callees) == [Call(callees, FALSE) EXCEPT !.kind = "creation", !.class = class]

\* A property without a body to run, and an attribute that is none.
Attr(property) == [Call({"K"}, FALSE) EXCEPT !.kind = "attr", !.property = property]

\* A constructor runs two bodies.
New == [Call({}, FALSE) EXCEPT !.callees = {[known |-> TRUE, name |-> "K", bodies |-> {"f", "g"}]}]

Names == {"f", "g", "K"}

Info(verdict) ==
    [verdict |-> verdict, missing |-> IF "MissingDep" \in verdict THEN {"f"} ELSE {}]

Base ==
    [mode |-> "WholeProgram",
     scopes |-> [m \in Modules |-> IF m = "A" THEN {"A", "A.C"} ELSE {"B"}],
     effects |-> [s \in Scopes |-> <<>>],
     home |-> [f \in Functions |-> IF f = "f" THEN "A" ELSE "B"],
     enclosing |-> [n \in Names |-> IF n = "f" THEN "A" ELSE IF n = "g" THEN "B" ELSE NoModule],
     safety |-> [n \in Names |-> Info({})],
     resolved |-> [n \in {} |-> {}],
     declared_safe |-> {},
     walks |-> [m \in Modules |-> {}],
     bases |-> [c \in Classes |-> {}],
     imports |-> [m \in Modules |-> {}],
     implicit |-> [m \in Modules |-> Modules \ {m}],
     candidates |-> [m \in Modules |-> IF m = "A" THEN {"g"} ELSE {}]]

FirstEffects ==
    {Simple("error"), Call({"f"}, FALSE), Call({"g"}, TRUE), Call({"f", "K"}, FALSE),
     Creates("K", {"g"}), Attr(TRUE), Attr(FALSE)}

\* What a scope does, against every verdict of what it calls.
Checks ==
    {[Base EXCEPT
        !.mode = mode,
        !.effects = [s \in Scopes |->
            CASE s = "A" -> <<e, Call({"g"}, FALSE)>> [] s = "A.C" -> c [] OTHER -> b],
        !.safety["f"] = Info(f), !.safety["g"] = Info(g),
        !.declared_safe = safe] :
        mode \in Modes, e \in FirstEffects,
        c \in {<<Simple("mutation")>>, <<Attr(TRUE)>>},
        b \in {<<New>>, <<Simple("unconfirmed"), Call({"f"}, FALSE)>>},
        f \in {{}, {"IfImported"}, {"MissingDep"}}, g \in {{}, {"IfImported", "MissingDep"}, {"Unsafe"}},
        safe \in {{}, {"g"}}}

\* Verdicts that the resolution changed, read by both modules; a nested module
\* keeps the verdict of a function that another one defines.
WriteBacks ==
    {[Base EXCEPT
        !.effects = [s \in Scopes |->
            IF s = "A" THEN <<Call({"g"}, FALSE)>> ELSE IF s = "B" THEN <<Call({"f"}, FALSE)>> ELSE <<>>],
        !.safety = [n \in Names |-> Info(before[n])],
        !.resolved = [n \in {x \in {"f", "g"} : "MissingDep" \in before[x]} |->
            IF n \in clear THEN before[n] \ {"MissingDep"} ELSE before[n] \cup {"Unsafe"}]] :
        before \in [Names -> {{}, {"MissingDep"}, {"IfImported", "MissingDep"}}],
        clear \in SUBSET {"f", "g"}}

Nested ==
    {[Base EXCEPT !.mode = "Incremental", !.enclosing["f"] = "B", !.effects["A"] = e,
                  !.safety["f"] = Info(f)] :
        e \in {<<>>, <<Attr(TRUE)>>}, f \in SUBSET {"IfImported", "MissingDep"}}

\* Walked bases, with the walker failing or not and importing or not.
Registrations ==
    {[Base EXCEPT
        !.mode = mode,
        !.effects = [s \in Scopes |->
            CASE s = "A" -> <<Creates("L", {}), Simple("error")>> [] s = "B" -> b [] OTHER -> <<>>],
        !.walks = [m \in Modules |-> IF m = "A" THEN wa ELSE wb],
        !.bases = [c \in Classes |-> CASE c = "L" -> l [] c = "K" -> k [] OTHER -> {}],
        !.imports = [m \in Modules |-> IF i THEN Modules \ {m} ELSE {}]] :
        mode \in Modes, b \in {<<>>, <<Creates("K", {})>>, <<Attr(TRUE)>>},
        wa \in {{}, {"J"}, {"K", "L"}}, wb \in {{}, {"J"}, {"L"}, {"K", "J"}},
        l \in {{}, {"K"}, {"J"}}, k \in {{}, {"J"}, {"L"}}, i \in BOOLEAN}

PassPrograms == Checks \cup WriteBacks \cup Nested \cup Registrations

=============================================================================
