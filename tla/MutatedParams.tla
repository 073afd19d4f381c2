---------------------------- MODULE MutatedParams ----------------------------
(***************************************************************************)
(* compute_mutated_params of src/project/mutations.rs: which parameters of *)
(* which functions are mutated, by a method call on them or by a callee    *)
(* they are forwarded to.                                                  *)
(*                                                                         *)
(* The scan of the effects is parallel and yields the seeds and the edges  *)
(* in any order; the spreading is a worklist over the edges, against the   *)
(* direction of the calls.  A program is a record                          *)
(*   params     the parameters of each function in the function table      *)
(*   classes    the constructor methods of each class                      *)
(*   methods    the kind of the methods whose class is known               *)
(*   seeds      the parameters mutated by a method call, <<scope, param>>  *)
(*   calls      the calls that forward parameters of their scope           *)
(***************************************************************************)
EXTENDS Naturals, Sequences

CONSTANTS
    Names,      \* functions, methods and classes
    Params,     \* parameter names
    Programs

Slots ==
    [kind : {"keyword"}, name : Params] \cup [kind : {"positional", "star"}, index : Nat]

\* "other" stands for the calls that are neither bound nor unbound method calls.
Calls ==
    [scope : Names, kind : {"bound", "unbound", "other"}, name : Names,
     forwarded : SUBSET (Slots \X Params)]

IsProgram(p) ==
    /\ DOMAIN p.params \subseteq Names /\ \A f \in DOMAIN p.params : p.params[f] \in Seq(Params)
    /\ \A c \in DOMAIN p.classes : p.classes[c] \subseteq Names
    /\ \A m \in DOMAIN p.methods : p.methods[m] \in {"static", "class", "instance"}
    /\ p.seeds \subseteq Names \X Params
    /\ \A call \in p.calls : call \in Calls

ASSUME ProgramsAssumption == \A p \in Programs : IsProgram(p)

VARIABLES
    prog,
    phase,      \* "seed", "spread", "done"
    edges,      \* from a parameter to those forwarded into it, as the scan found them
    seeds,      \* the seeds still to be inserted
    mutated,    \* the pairs <<function, parameter>> known to be mutated
    worklist,   \* the pairs whose dependents are still to be visited
    deps        \* the dependents of the popped pair still to be visited

paramsVars == <<prog, edges, phase, seeds, mutated, worklist, deps>>

-----------------------------------------------------------------------------
\* method_receiver_offset
ReceiverOffset(p, name, kind) ==
    CASE p.methods[name] = "static" -> 0
      [] p.methods[name] = "class"  -> 1
      [] OTHER -> IF kind = "bound" THEN 1 ELSE 0

\* iter_callees: the functions a call binds to, with the number of their
\* parameters that the receiver takes.
Callees(p, call) ==
    CASE call.kind = "other" /\ call.name \in DOMAIN p.classes ->
            {<<m, 1>> : m \in p.classes[call.name]}
      [] call.kind = "other" /\ call.name \notin DOMAIN p.classes -> {<<call.name, 0>>}
      [] call.kind # "other" /\ call.name \in DOMAIN p.methods ->
            {<<call.name, ReceiverOffset(p, call.name, call.kind)>>}
      [] call.kind = "bound" /\ call.name \notin DOMAIN p.methods -> {<<call.name, 1>>}
      [] call.kind = "unbound" /\ call.name \notin DOMAIN p.methods ->
            {<<call.name, 0>>, <<call.name, 1>>}

\* The parameters of a function from an index on, counted from 0.
ParamsFrom(p, owner, index) ==
    IF owner \in DOMAIN p.params
    THEN {p.params[owner][n] : n \in {m \in 1..Len(p.params[owner]) : m > index}} ELSE {}

\* The parameters of a callee that a slot fills.
Targets(p, owner, offset, slot) ==
    CASE slot.kind = "keyword"    -> {slot.name}
      [] slot.kind = "positional" ->
            IF owner \in DOMAIN p.params /\ slot.index + offset < Len(p.params[owner])
            THEN {p.params[owner][slot.index + offset + 1]} ELSE {}
      [] slot.kind = "star"       -> ParamsFrom(p, owner, slot.index + offset)

CallEdges(p, call) ==
    UNION {{<<<<c[1], t>>, <<call.scope, f[2]>>>> : t \in Targets(p, c[1], c[2], f[1])} :
              c \in Callees(p, call), f \in call.forwarded}

\* From a mutated parameter to the parameters forwarded into it.
Edges(p) == UNION {CallEdges(p, call) : call \in p.calls}

Dependents(x) == {e[2] : e \in {d \in edges : d[1] = x}}

-----------------------------------------------------------------------------
ParamsInit ==
    /\ prog \in Programs
    /\ edges = Edges(prog) /\ seeds = prog.seeds
    /\ phase = "seed"
    /\ mutated = {} /\ worklist = <<>> /\ deps = {}

\* Insert a pair, and put it on the worklist when it is new.
Insert(x) ==
    /\ mutated' = mutated \cup {x}
    /\ worklist' = IF x \in mutated THEN worklist ELSE Append(worklist, x)

InsertSeed(x) ==
    /\ phase = "seed" /\ x \in seeds
    /\ seeds' = seeds \ {x}
    /\ Insert(x)
    /\ UNCHANGED <<prog, edges, phase, deps>>

StartSpreading ==
    /\ phase = "seed" /\ seeds = {}
    /\ phase' = "spread"
    /\ UNCHANGED <<prog, edges, seeds, mutated, worklist, deps>>

Pop ==
    /\ phase = "spread" /\ deps = {} /\ worklist # <<>>
    /\ worklist' = SubSeq(worklist, 1, Len(worklist) - 1)
    /\ deps' = Dependents(worklist[Len(worklist)])
    /\ UNCHANGED <<prog, edges, phase, seeds, mutated>>

\* Faulty variant: a pair is put on the worklist even if it was known.
VisitAlwaysPushes(x) ==
    /\ phase = "spread" /\ x \in deps
    /\ deps' = deps \ {x}
    /\ mutated' = mutated \cup {x}
    /\ worklist' = IF Len(worklist) < 3 THEN Append(worklist, x) ELSE worklist
    /\ UNCHANGED <<prog, edges, phase, seeds>>

\* Faulty variant: every parameter of the dependent is taken for mutated.
VisitAllParams(x) ==
    /\ phase = "spread" /\ x \in deps
    /\ deps' = deps \ {x}
    /\ mutated' = mutated \cup ({x[1]} \X Params)
    /\ worklist' = IF x \in mutated THEN worklist ELSE Append(worklist, x)
    /\ UNCHANGED <<prog, edges, phase, seeds>>

Visit(x) ==
    /\ phase = "spread" /\ x \in deps
    /\ deps' = deps \ {x}
    /\ Insert(x)
    /\ UNCHANGED <<prog, edges, phase, seeds>>

FinishSpreading ==
    /\ phase = "spread" /\ deps = {} /\ worklist = <<>>
    /\ phase' = "done"
    /\ UNCHANGED <<prog, edges, seeds, mutated, worklist, deps>>

ParamsDone == phase = "done" /\ UNCHANGED paramsVars

ParamsNext ==
    \/ \E x \in seeds : InsertSeed(x)
    \/ StartSpreading \/ Pop
    \/ \E x \in deps : Visit(x)
    \/ FinishSpreading \/ ParamsDone

ParamsSpec == ParamsInit /\ [][ParamsNext]_paramsVars /\ WF_paramsVars(ParamsNext)

-----------------------------------------------------------------------------
(* Properties.                                                              *)

\* The seeds and edges of a program; a keyword can name a parameter of a
\* function the library does not know.
Closure == INSTANCE LeastClosure WITH
    base <- prog.seeds, rules <- edges,
    known <- mutated, done <- phase = "done"

SeqRange(s) == {s[n] : n \in 1..Len(s)}

\* Type invariant.
ParamsTypeOK ==
    /\ IsProgram(prog)
    /\ edges \subseteq (Names \X Params) \X (Names \X Params)
    /\ phase \in {"seed", "spread", "done"}
    /\ seeds \subseteq Names \X Params
    /\ mutated \subseteq Names \X Params
    /\ worklist \in Seq(Names \X Params)
    /\ deps \subseteq Names \X Params

\* The parameters found are the least set closed under forwarding, whatever the
\* order of the seeds and of the dependents: no mutation is missed at any
\* distance, and a cycle of functions that forward to one another does not make
\* their parameters mutated.
MutatedLeast == Closure!Least

\* What still follows from a known pair is on its way: the pair is on the
\* worklist, or its dependent is known or about to be visited.  A seed is known
\* or about to be inserted.
NothingForgotten ==
    /\ \A e \in edges :
          e[1] \in mutated /\ e[1] \notin SeqRange(worklist) => e[2] \in mutated \cup deps
    /\ prog.seeds \subseteq mutated \cup seeds

\* The worklist implements the least closure, step by step.
ImplementsClosure == Closure!ClosureSpec

\* A cycle of forwarding calls does not keep the worklist busy for ever.
Terminates == <>(phase = "done")

=============================================================================
