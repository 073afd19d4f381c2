------------------------------ MODULE CallGraph ------------------------------
(***************************************************************************)
(* The static view of an analysed Python program that the verdict passes   *)
(* share (ProjectInfo), and the call graph built over it                   *)
(* (project/call_graph.rs, project/dispatch.rs).                           *)
(*                                                                         *)
(* A program is a record.  Name lookup through the MRO, the re-export map  *)
(* and the method map is abstracted to its results, one function per       *)
(* lookup the code performs:                                               *)
(*   module        function name -> the module that defines it             *)
(*   classes       the class names                                         *)
(*   ctors         class -> the constructor methods named syntactically on *)
(*                 its metaclass and on itself, in checking order          *)
(*   callable      the names contains_callable accepts                     *)
(*   resolve       name -> resolve_callable(name)                          *)
(*   above         name -> resolve_dispatch_above(name)                    *)
(*   meta          name -> metaclass_creation_callees(name)                *)
(*   nested        name -> immediate nested functions                      *)
(*   effects       function -> its effects, in the order of the table      *)
(*   declared_safe the names on the manual safelist                        *)
(*   in_cycle      the nodes CsrGraph reports on a cycle                   *)
(*   level         node outside a cycle -> its dependency level            *)
(***************************************************************************)
EXTENDS Naturals, Sequences, FiniteSets

CONSTANTS
    Names,    \* fully qualified names of functions, classes and re-exports
    Modules,  \* module names
    NoName    \* the result of a lookup that finds nothing

\* A class is never called what a module is called.
ASSUME NamesAssumption == NoName \notin Names /\ Names \cap Modules = {}

-----------------------------------------------------------------------------
(* Effects.  "error" stands for every effect kind that is an error wherever *)
(* it occurs; "decorate" is the call of a parameterized decorator.          *)

CallKinds == {"call", "super", "create", "decorate"}

LocalKinds == {"error", "imported_mutation", "global_mutation"}

\* mutates: the call passes an imported variable to a parameter the callee is
\* known to mutate.  defers: the callees that receive an imported variable and
\* that neither the function table nor the mutated-parameter table knows.
Effects == [kind : CallKinds \cup LocalKinds, name : Names,
            mutates : BOOLEAN, defers : SUBSET Names]

-----------------------------------------------------------------------------
Functions(p) == DOMAIN p.module

Nodes(p) == Functions(p) \cup p.classes

Optional(name) == IF name = NoName THEN <<>> ELSE <<name>>

\* contains_callable: a definition, or a name that the method map or a re-export
\* leads to one; a re-export of something outside the analysed sources resolves
\* to itself.  An inherited method resolves, but is not callable under its name.
Callable(p) == p.callable

\* call_graph_target: the node an effect's edge names.
CallGraphTarget(p, e) ==
    IF e.kind \in {"super", "create"} THEN p.above[e.name] ELSE p.resolve[e.name]

SeqRange(s) == {s[i] : i \in 1..Len(s)}

\* The nodes that one effect of a function contributes an edge to.
EffectTargets(p, e) ==
    Nodes(p) \cap
       ( {CallGraphTarget(p, e)}
         \cup (IF e.kind = "decorate" /\ CallGraphTarget(p, e) # NoName
               THEN SeqRange(p.nested[CallGraphTarget(p, e)]) ELSE {})
         \cup (IF e.kind = "create" THEN SeqRange(p.meta[e.name]) ELSE {}) )

\* A class has an edge to each constructor method: the method itself, else
\* the one an ancestor defines.
ConstructorTarget(p, m) == IF m \in Nodes(p) THEN m ELSE p.resolve[m]

FunctionEdges(p) ==
    UNION {{f} \X UNION {EffectTargets(p, p.effects[f][i]) :
                i \in {j \in 1..Len(p.effects[f]) : p.effects[f][j].kind \in CallKinds}} :
           f \in Functions(p)}

\* Faulty variant: classes have no edges.
NoConstructorEdges(p) == {}

ConstructorEdges(p) ==
    UNION {{c} \X (Nodes(p) \cap {ConstructorTarget(p, m) : m \in SeqRange(p.ctors[c])}) :
           c \in p.classes}

\* build_call_graph
CallEdges(p) == FunctionEdges(p) \cup ConstructorEdges(p)

-----------------------------------------------------------------------------
(* What a call checks.                                                      *)

\* The name the checks use for the callee once it is resolved.  A class
\* statement keeps the name it was recorded under.
ResolvedName(p, e) ==
    CASE e.kind = "create" -> e.name
      [] e.kind = "super"  -> IF p.above[e.name] = NoName THEN e.name ELSE p.above[e.name]
      [] OTHER             -> IF p.resolve[e.name] = NoName THEN e.name ELSE p.resolve[e.name]

\* The callees check_call_safety passes on to check_resolved_call, in order.
Callees(p, e) ==
    CASE e.kind = "create" -> p.meta[e.name] \o Optional(p.above[e.name])
      [] e.kind = "super"  -> Optional(p.above[e.name])
      [] OTHER             -> <<ResolvedName(p, e)>>

\* The bodies check_call runs for one callee: nothing for a safelisted name,
\* the constructor methods of a class, the body of a function, and for a
\* parameterized decorator the factory's nested functions as well.
BodiesOf(p, e, c) ==
    IF c \in p.declared_safe THEN <<>>
    ELSE (IF c \in p.classes THEN p.ctors[c] ELSE <<c>>)
         \o (IF e.kind = "decorate" THEN p.nested[c] ELSE <<>>)

\* At most three callees: two metaclass methods and one inherited hook.
Bodies(p, e) ==
    LET cs == Callees(p, e)
        at(i) == IF i <= Len(cs) THEN BodiesOf(p, e, cs[i]) ELSE <<>>
    IN  at(1) \o at(2) \o at(3)

-----------------------------------------------------------------------------
(* The shape of a program, and what CsrGraph guarantees about it.           *)

ProgramShape(p) ==
    /\ Functions(p) \subseteq Names /\ p.classes \subseteq Names
    /\ p.module \in [Functions(p) -> Modules]
    /\ p.ctors \in [p.classes -> Seq(Names)]
    /\ p.resolve \in [Names -> Names \cup {NoName}]
    /\ p.above \in [Names -> Names \cup {NoName}]
    /\ p.meta \in [Names -> Seq(Names)]
    /\ p.nested \in [Names -> Seq(Names)]
    /\ p.effects \in [Functions(p) -> Seq(Effects)]
    /\ p.declared_safe \subseteq Names
    /\ Nodes(p) \subseteq p.callable /\ p.callable \subseteq Names
    /\ \A n \in p.callable : p.resolve[n] # NoName
    /\ \A n \in Nodes(p) : p.resolve[n] = n
    /\ \A n \in Names \ Functions(p) : p.nested[n] = <<>>
    /\ \A n \in Names : Len(p.meta[n]) <= 2

\* Every edge between two nodes outside the cycles goes to a lower level, and
\* an edge closing a loop joins nodes on a cycle (see CsrGraph).
Leveled(p) ==
    /\ p.in_cycle \subseteq Nodes(p)
    /\ p.level \in [Nodes(p) \ p.in_cycle -> Nat]
    /\ \A a, b \in Nodes(p) \ p.in_cycle :
          <<a, b>> \in CallEdges(p) => p.level[b] < p.level[a]

-----------------------------------------------------------------------------
(* Two conditions under which every verdict that is read belongs to a node   *)
(* that an edge orders before the reader.                                    *)

\* A class on a cycle counts as settled, but a call of it reads the verdicts of
\* its constructor methods; they are settled too.
ClassCyclesClosed(p) ==
    \A c \in (p.classes \cap p.in_cycle) \ p.declared_safe :
        SeqRange(p.ctors[c]) \cap Functions(p) \subseteq p.in_cycle \cup p.declared_safe

\* The name a call's outcome is recorded under is not a node the effect has no
\* edge to: a class statement or a super() call that dispatches to nothing is
\* recorded under the class's own method, which is not what runs.  A super()
\* call in that method itself reads the entry its own evaluation writes.
ReadNamesOrdered(p) ==
    \A f \in Functions(p) : \A i \in 1..Len(p.effects[f]) :
        LET e == p.effects[f][i] IN
        e.kind \in CallKinds =>
            \/ ResolvedName(p, e) \in EffectTargets(p, e) \cup (Names \ Nodes(p))
            \/ e.kind = "super" /\ ResolvedName(p, e) = f

Orderly(p) == ClassCyclesClosed(p) /\ ReadNamesOrdered(p)

=============================================================================
