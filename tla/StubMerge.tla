------------------------------ MODULE StubMerge ------------------------------
(***************************************************************************)
(* The rewriting of a stub file by resources/scripts/                      *)
(* merge_overload_effects.py: the effects of a set of overloads are moved  *)
(* into the first one, statement list by statement list, and what the stub *)
(* analyzer (src/stub_analyzer.rs) reads from the file before and after.   *)
(*                                                                         *)
(* A statement list belongs to a scope: the module, or a class.  A body is *)
(* a sequence of lines; an inline body, `def f(): a(); b()  # c`, has one, *)
(* whose comment is the suite's trailing_whitespace.  A line that is not   *)
(* simple is a compound statement.  Footers, which travel with the header, *)
(* are left out, and so is the semicolon a statement keeps when it leaves  *)
(* its line.                                                               *)
(***************************************************************************)
EXTENDS Naturals, Sequences

CONSTANTS
    Scopes,     \* the module and its classes
    Defs,       \* function names
    Effects,    \* effect annotations
    Comments,   \* comments at the end of a line
    NoComment,
    Unknown,    \* what the analyzer records for a function without effects
    Stubs,      \* the stub files that may be rewritten
    MaxRuns     \* bound on the runs of the script, one after the other

Ellipsis == "..."
Doc      == "doc"   \* a string expression

ASSUME NamesAssumption ==
    /\ Ellipsis \notin Effects /\ Doc \notin Effects /\ Unknown \notin Effects
    /\ NoComment \in Comments
    /\ Scopes # {}
    /\ MaxRuns \in Nat

Lines == [simple : BOOLEAN, stmts : Seq(Effects \cup {Ellipsis, Doc}), comment : Comments]

BodyShapes == [inline : BOOLEAN, header : Comments, lines : Seq(Lines)]

\* An inline body is one line.
Bodies == {b \in BodyShapes : b.inline => Len(b.lines) = 1 /\ b.lines[1].simple}

Statements == [kind : {"overload", "def", "other"}, name : Defs, body : Bodies]

ASSUME StubsAssumption == Stubs \subseteq [Scopes -> Seq(Statements)]

VARIABLES
    runs,         \* the runs ended so far
    stub,         \* the file as it was read by this run
    tree,         \* the file as it will be written
    todo,         \* the scopes still to be left
    scope,        \* the scope whose statements are processed
    pc,
    i, j,         \* the statement, and the end of its overload group
    k, pos,       \* the overload and the place in its body being collected
    all_effects,  \* the group's effects so far, without duplicates
    out           \* the statements processed so far

vars == <<runs, stub, tree, todo, scope, pc, i, j, k, pos, all_effects, out>>

-----------------------------------------------------------------------------
SeqRange(s) == {s[n] : n \in 1..Len(s)}

Line(stmts, comment) == [simple |-> TRUE, stmts |-> stmts, comment |-> comment]

InlineBody(line) == [inline |-> TRUE, header |-> NoComment, lines |-> <<line>>]

Block(header, lines) == [inline |-> FALSE, header |-> header, lines |-> lines]

IsOverload(stmt) == stmt.kind = "overload"

\* _extract_docstring
HasDocstring(b) == ~b.inline /\ b.lines # <<>> /\ b.lines[1].simple /\ b.lines[1].stmts = <<Doc>>

Docstring(b) == IF HasDocstring(b) THEN <<b.lines[1]>> ELSE <<>>

\* _get_trailing_whitespace
TrailingComment(b) == IF b.inline THEN b.lines[1].comment ELSE NoComment

IsEllipsisLine(line) == line.simple /\ Ellipsis \in SeqRange(line.stmts)

\* The candidates of _extract_effects: each statement of an inline body becomes
\* a line of its own, with the comment of the suite.  (libcst also keeps the
\* semicolon that followed it, and takes `a();` and `a()` for two texts.)
Items(b) ==
    IF b.inline
    THEN [n \in 1..Len(b.lines[1].stmts) |-> Line(<<b.lines[1].stmts[n]>>, b.lines[1].comment)]
    ELSE b.lines

\* _extract_effects: what is neither the docstring nor an ellipsis.
IsEffect(b, n) == ~IsEllipsisLine(Items(b)[n]) /\ ~(n = 1 /\ HasDocstring(b))

\* _create_inline_ellipsis
InlineEllipsis(comment) == InlineBody(Line(<<Ellipsis>>, comment))

\* _create_merged_body
MergedBody(effects, b) ==
    CASE effects = <<>> /\ ~HasDocstring(b) -> InlineEllipsis(TrailingComment(b))
      [] effects = <<>> /\ HasDocstring(b) ->
            Block(b.header, Docstring(b) \o <<Line(<<Ellipsis>>, NoComment)>>)
      [] Len(effects) = 1 /\ ~HasDocstring(b) /\ effects[1].simple -> InlineBody(effects[1])
      [] OTHER -> Block(b.header, Docstring(b) \o effects)

\* _create_ellipsis_body
EllipsisBody(b) ==
    IF HasDocstring(b) THEN Block(b.header, Docstring(b) \o <<Line(<<Ellipsis>>, NoComment)>>)
    ELSE InlineEllipsis(TrailingComment(b))

-----------------------------------------------------------------------------
Statement == tree[scope][i]

Init ==
    /\ runs = 0
    /\ stub \in Stubs
    /\ tree = stub
    /\ todo = Scopes
    /\ scope = CHOOSE s \in Scopes : TRUE
    /\ pc = "enter"
    /\ i = 1 /\ j = 1 /\ k = 1 /\ pos = 1
    /\ all_effects = <<>> /\ out = <<>>

\* leave_ClassDef and leave_Module, each with the statements of its own scope.
EnterScope(s) ==
    /\ pc = "enter" /\ s \in todo
    /\ scope' = s /\ todo' = todo \ {s}
    /\ pc' = "scan" /\ i' = 1 /\ out' = <<>>
    /\ UNCHANGED <<runs, stub, tree, j, k, pos, all_effects>>

(* _process_statements *)

CopyStatement ==
    /\ pc = "scan" /\ i <= Len(tree[scope]) /\ ~IsOverload(Statement)
    /\ out' = Append(out, Statement)
    /\ i' = i + 1
    /\ UNCHANGED <<runs, stub, tree, todo, scope, pc, j, k, pos, all_effects>>

StartGroup ==
    /\ pc = "scan" /\ i <= Len(tree[scope]) /\ IsOverload(Statement)
    /\ pc' = "group" /\ j' = i + 1
    /\ UNCHANGED <<runs, stub, tree, todo, scope, i, k, pos, all_effects, out>>

\* The statement at n continues the group.
InGroup(n) ==
    /\ n <= Len(tree[scope]) /\ IsOverload(tree[scope][n])
    /\ tree[scope][n].name = Statement.name

ExtendGroup ==
    /\ pc = "group" /\ InGroup(j)
    /\ j' = j + 1
    /\ UNCHANGED <<runs, stub, tree, todo, scope, pc, i, k, pos, all_effects, out>>

(* _merge_overload_group *)

\* A lone overload stays as it is.
CloseGroup ==
    /\ pc = "group" /\ ~InGroup(j)
    /\ \/ /\ j = i + 1
          /\ out' = Append(out, Statement)
          /\ i' = j /\ pc' = "scan"
          /\ UNCHANGED <<k, pos, all_effects>>
       \/ /\ j > i + 1
          /\ pc' = "collect" /\ k' = i /\ pos' = 1 /\ all_effects' = <<>>
          /\ UNCHANGED <<i, out>>
    /\ UNCHANGED <<runs, stub, tree, todo, scope, j>>

\* Faulty variant: an effect is put in front of the others.
CollectItemInFront ==
    /\ pc = "collect" /\ k < j
    /\ LET b == tree[scope][k].body
           item == Items(b)[pos]
       IN  /\ pos <= Len(Items(b))
           /\ all_effects' = IF IsEffect(b, pos) /\ item \notin SeqRange(all_effects)
                             THEN <<item>> \o all_effects ELSE all_effects
    /\ pos' = pos + 1
    /\ UNCHANGED <<runs, stub, tree, todo, scope, pc, i, j, k, out>>

\* Two lines with the same text are one effect.
CollectItem ==
    /\ pc = "collect" /\ k < j
    /\ LET b == tree[scope][k].body
           item == Items(b)[pos]
       IN  /\ pos <= Len(Items(b))
           /\ all_effects' = IF IsEffect(b, pos) /\ item \notin SeqRange(all_effects)
                             THEN Append(all_effects, item) ELSE all_effects
    /\ pos' = pos + 1
    /\ UNCHANGED <<runs, stub, tree, todo, scope, pc, i, j, k, out>>

\* Faulty variant: the place in the body is not reset.
NextOverloadKeepsPlace ==
    /\ pc = "collect" /\ k < j
    /\ pos > Len(Items(tree[scope][k].body))
    /\ k' = k + 1
    /\ UNCHANGED <<runs, stub, tree, todo, scope, pc, i, j, pos, all_effects, out>>

NextOverload ==
    /\ pc = "collect" /\ k < j
    /\ pos > Len(Items(tree[scope][k].body))
    /\ k' = k + 1 /\ pos' = 1
    /\ UNCHANGED <<runs, stub, tree, todo, scope, pc, i, j, all_effects, out>>

WithBody(stmt, body) == [kind |-> stmt.kind, name |-> stmt.name, body |-> body]

\* Faulty variant: the statement that ended the group is skipped.
EmitGroupSkipsNext ==
    /\ pc = "collect" /\ k = j
    /\ out' = out \o [n \in 1..(j - i) |->
                 LET stmt == tree[scope][i + n - 1] IN
                 WithBody(stmt, IF n = 1 THEN MergedBody(all_effects, stmt.body)
                                ELSE EllipsisBody(stmt.body))]
    /\ i' = j + 1 /\ pc' = "scan"
    /\ UNCHANGED <<runs, stub, tree, todo, scope, j, k, pos, all_effects>>

EmitGroup ==
    /\ pc = "collect" /\ k = j
    /\ out' = out \o [n \in 1..(j - i) |->
                 LET stmt == tree[scope][i + n - 1] IN
                 WithBody(stmt, IF n = 1 THEN MergedBody(all_effects, stmt.body)
                                ELSE EllipsisBody(stmt.body))]
    /\ i' = j /\ pc' = "scan"
    /\ UNCHANGED <<runs, stub, tree, todo, scope, j, k, pos, all_effects>>

LeaveScope ==
    /\ pc = "scan" /\ i > Len(tree[scope])
    /\ tree' = [tree EXCEPT ![scope] = out]
    /\ pc' = "enter"
    /\ UNCHANGED <<runs, stub, todo, scope, i, j, k, pos, all_effects, out>>

Finished == pc = "enter" /\ todo = {}

\* The script is run again on what it wrote.
RunAgain ==
    /\ Finished /\ runs < MaxRuns
    /\ runs' = runs + 1
    /\ stub' = tree /\ todo' = Scopes
    /\ UNCHANGED <<tree, scope, pc, i, j, k, pos, all_effects, out>>

Done == Finished /\ runs = MaxRuns /\ UNCHANGED vars

Next ==
    \/ \E s \in todo : EnterScope(s)
    \/ CopyStatement \/ StartGroup \/ ExtendGroup \/ CloseGroup
    \/ CollectItem \/ NextOverload \/ EmitGroup \/ LeaveScope
    \/ RunAgain \/ Done

Spec == Init /\ [][Next]_vars /\ WF_vars(Next)

-----------------------------------------------------------------------------
(* What the stub analyzer reads.                                            *)

LineEffects(line) == SeqRange(line.stmts) \cap Effects

BodyEffects(b) == UNION {LineEffects(b.lines[n]) : n \in 1..Len(b.lines)}

\* run_body: a function without any effect has unknown effects.
DefEffects(stmt) == IF BodyEffects(stmt.body) = {} THEN {Unknown} ELSE BodyEffects(stmt.body)

DefsOf(ss, f) == {n \in 1..Len(ss) : ss[n].kind # "other" /\ ss[n].name = f}

\* All definitions of a name share one scope; remove_unknown_effects drops the
\* unknown marker as soon as one of them has a real effect.
ReadEffects(ss, f) ==
    LET read == UNION {DefEffects(ss[n]) : n \in DefsOf(ss, f)}
    IN  IF \E x \in read : x # Unknown THEN read \ {Unknown} ELSE read

-----------------------------------------------------------------------------
(* Properties.                                                              *)

\* No line of a block mixes an ellipsis with an effect, as in `a(); ...`.
TidyBody(b) ==
    b.inline \/ \A n \in 1..Len(b.lines) : IsEllipsisLine(b.lines[n]) => LineEffects(b.lines[n]) = {}

\* Type invariant.
TypeOK ==
    /\ runs \in 0..MaxRuns
    /\ stub \in [Scopes -> Seq(Statements)]
    /\ tree \in [Scopes -> Seq(Statements)]
    /\ todo \subseteq Scopes /\ scope \in Scopes
    /\ pc \in {"enter", "scan", "group", "collect"}
    /\ i \in Nat \ {0} /\ j \in Nat \ {0} /\ k \in Nat \ {0} /\ pos \in Nat \ {0}
    /\ all_effects \in Seq(Lines)
    /\ out \in Seq(Statements)

\* "All subsequent overload bodies are replaced with '...'": an overload after
\* another of its name carries no effect.
OnlyFirstAnnotated ==
    Finished => \A s \in Scopes : \A n \in 2..Len(tree[s]) :
        /\ IsOverload(tree[s][n]) /\ IsOverload(tree[s][n - 1])
        /\ tree[s][n].name = tree[s][n - 1].name
        => BodyEffects(tree[s][n].body) = {}

\* "Merges effects from all overloads of the same method into the first
\* overload": the rewriting changes nothing for the stub analyzer, which reads
\* from the new file what it read from the old one, for every function of every
\* scope, whether its overloads are adjacent, separated or alone.  (An effect on
\* a line of a block that also has an ellipsis is lost, the docstring
\* notwithstanding.)  Type correct.
EffectsPreserved ==
    /\ TypeOK /\ OnlyFirstAnnotated
    /\ Finished => \A s \in Scopes : \A f \in Defs :
        \/ ReadEffects(tree[s], f) = ReadEffects(stub[s], f)
        \/ \E n \in DefsOf(stub[s], f) : ~TidyBody(stub[s][n].body)

\* Statements keep their place, kind and name, whatever groups they form.
SignaturesKept ==
    Finished => \A s \in Scopes :
        /\ Len(tree[s]) = Len(stub[s])
        /\ \A n \in 1..Len(stub[s]) : /\ tree[s][n].kind = stub[s][n].kind
                                      /\ tree[s][n].name = stub[s][n].name

\* A run on the output of two runs has nothing left to do.  After one there may
\* be: the statements of a line that was put beside its signature are taken apart
\* the next time.
Settles == runs > 1 /\ Finished => tree = stub

\* The script ends on every file, however often it is run again, and from some run
\* on the file stays as it is.
RerunChangesNothing == <>[](Finished /\ runs = MaxRuns /\ tree = stub)

=============================================================================
