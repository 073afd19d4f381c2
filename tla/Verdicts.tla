------------------------------- MODULE Verdicts -------------------------------
(***************************************************************************)
(* The function-safety precompute (project/call_graph.rs, project/calls.rs,*)
(* project/state.rs).  Members of call cycles are marked unsafe, safelisted*)
(* names are marked safe, and then the nodes of the call graph are visited *)
(* level by level, the nodes of one level by a pool of worker threads that *)
(* share the concurrent map function_safety.                               *)
(*                                                                         *)
(* One step of a worker is one access to a shared entry: a read of the     *)
(* verdict of one body a call runs, or the update of the entry of the      *)
(* function it evaluates.  A body without a verdict is evaluated on the    *)
(* spot, so a worker has a stack of activations of check_call_body.        *)
(*                                                                         *)
(* Coarser than the code in one place: when a call has been checked, the   *)
(* last look at the callee's entry and the update of the caller's are one  *)
(* step (FinishCall).  CanResolve looks an entry up, and only callable     *)
(* names ever have one.  Errors that check_call_safety returns need a      *)
(* module-scope call, which the precompute never makes.                    *)
(***************************************************************************)
EXTENDS CallGraph

CONSTANTS
    Workers,   \* the threads of the pool
    Programs   \* the programs that may be analysed

ASSUME ProgramsAssumption ==
    \A p \in Programs : ProgramShape(p) /\ Leveled(p)

VARIABLES
    prog,             \* the program (ProjectInfo and CallGraph), never written
    phase,            \* which of the passes is running
    level,            \* how many levels have been started
    pending,          \* nodes of the last of them no worker has taken yet
    stack,            \* worker -> activations of check_call_body, last on top
    function_safety   \* name -> the entry of the concurrent map

vars == <<prog, phase, level, pending, stack, function_safety>>

-----------------------------------------------------------------------------
(* Entries.  A verdict is a set of bits, the empty one being Safe.          *)

Bits == {"IfImported", "MissingDep", "Unsafe"}

Infos == [known : BOOLEAN, verdict : SUBSET Bits, missing : SUBSET Names]

Absent     == [known |-> FALSE, verdict |-> {}, missing |-> {}]
SafeInfo   == [known |-> TRUE, verdict |-> {}, missing |-> {}]
UnsafeInfo == [known |-> TRUE, verdict |-> {"Unsafe"}, missing |-> {}]

\* mark_unsafe_missing_dep, for a set of callees.
WithMissingDep(info, callees) ==
    [known |-> TRUE, verdict |-> info.verdict \cup {"MissingDep"},
     missing |-> info.missing \cup callees]

\* mark_unsafe_if_imported
WithIfImported(info) ==
    [known |-> TRUE, verdict |-> info.verdict \cup {"IfImported"}, missing |-> info.missing]

IsUnsafe(info) == "Unsafe" \in info.verdict

Recoverable(info) == "MissingDep" \in info.verdict /\ ~IsUnsafe(info)

-----------------------------------------------------------------------------
(* Activations of check_call_body.  A class being precomputed has an        *)
(* activation too, that only reads its constructor methods.                 *)

Frames == [func : Names,                        \* the function or class
           caller : Names \cup Modules,         \* Call.caller_module
           pc : {"effect", "call", "mark", "class"},
           pos : Nat,                           \* the effect being handled
           at : Nat,                            \* the next body of that call
           ok : BOOLEAN,                        \* the call's result so far
           ret : BOOLEAN]                       \* the activation's result

Frame(f, caller, pc, pos, at, ok, ret) ==
    [func |-> f, caller |-> caller, pc |-> pc, pos |-> pos, at |-> at, ok |-> ok, ret |-> ret]

FunctionFrame(f, caller) == Frame(f, caller, "effect", 1, 1, TRUE, TRUE)

ClassFrame(c) == Frame(c, c, "class", 1, 1, TRUE, TRUE)

\* The steps of an activation: on to the next effect, into a call, on to the
\* next body of the call, and into the final write.
NextEffect(fr, ret) == Frame(fr.func, fr.caller, "effect", fr.pos + 1, 1, TRUE, ret)
Calling(fr, ok, ret) == Frame(fr.func, fr.caller, "call", fr.pos, 1, ok, ret)
NextBody(fr, ok) == Frame(fr.func, fr.caller, fr.pc, fr.pos, fr.at + 1, ok, fr.ret)
Marking(fr) == Frame(fr.func, fr.caller, "mark", fr.pos, fr.at, fr.ok, fr.ret)

Busy(w) == stack[w] # <<>>

Top(w) == stack[w][Len(stack[w])]

EffectsOf(f) == prog.effects[f]

CurrentEffect(fr) == prog.effects[fr.func][fr.pos]

IsClassFrame(fr) == fr.pc = "class"

\* The bodies the activation's current call runs.
FrameBodies(fr) ==
    IF IsClassFrame(fr) THEN prog.ctors[fr.func] ELSE Bodies(prog, CurrentEffect(fr))

\* caller_module of the calls an activation makes.  A class is its own
\* caller, which no function's module equals.
CallerModule(fr) == IF IsClassFrame(fr) THEN fr.func ELSE prog.module[fr.func]

\* CallStack: the written names of the calls in progress below an activation.
CallStackNames(w) ==
    {CurrentEffect(stack[w][i]).name :
        i \in {j \in 1..(Len(stack[w]) - 1) : ~IsClassFrame(stack[w][j])}}

\* Faulty variant: a body that waits for a missing dependency passes.
BodyPassesMissing(caller, b, info) ==
    /\ ~IsUnsafe(info)
    /\ "IfImported" \in info.verdict => caller = prog.module[b]

\* check_call_body on a body that has a verdict.
BodyPasses(caller, b, info) ==
    /\ ~IsUnsafe(info)
    /\ "MissingDep" \notin info.verdict
    /\ "IfImported" \in info.verdict => caller = prog.module[b]

CanResolve(n) == n \in Callable(prog) \/ function_safety[n].known

\* Faulty variant: a callee that may still be discharged is taken for unsafe.
FailedCalleeNeverWaits(info, callee) ==
    IF ~CanResolve(callee)
    THEN IF IsUnsafe(info) THEN info ELSE WithMissingDep(info, {callee})
    ELSE UnsafeInfo

\* mark_caller_unsafe_for_failed_callee: the caller's entry after callee failed.
FailedCallee(info, callee) ==
    IF Recoverable(function_safety[callee]) \/ ~CanResolve(callee)
    THEN IF IsUnsafe(info) THEN info ELSE WithMissingDep(info, {callee})
    ELSE UnsafeInfo

\* A callee of the same module that passed hands its IfImported on.
InheritsIfImported(f, callee) ==
    /\ "IfImported" \in function_safety[callee].verdict
    /\ callee \in Functions(prog)
    /\ prog.module[callee] = prog.module[f]

SetTop(w, fr) == stack' = [stack EXCEPT ![w] = [stack[w] EXCEPT ![Len(stack[w])] = fr]]

\* Leave the top activation and hand its result to the one below.
Return(w, result) ==
    LET n == Len(stack[w])
        below == stack[w][n - 1]
    IN  stack' = [stack EXCEPT ![w] =
                    IF n = 1 THEN <<>>
                    ELSE [SubSeq(stack[w], 1, n - 1) EXCEPT ![n - 1] = NextBody(below, below.ok /\ result)]]

Write(f, info) == function_safety' = [function_safety EXCEPT ![f] = info]

-----------------------------------------------------------------------------
Init ==
    /\ prog \in Programs
    /\ phase = "recursive"
    /\ level = 0
    /\ pending = {}
    /\ stack = [w \in Workers |-> <<>>]
    /\ function_safety = [n \in Names |-> Absent]

\* mark_recursive_functions_unsafe
MarkRecursive ==
    /\ phase = "recursive"
    /\ phase' = "declared"
    /\ function_safety' = [n \in Names |->
          IF n \in prog.in_cycle THEN UnsafeInfo ELSE function_safety[n]]
    /\ UNCHANGED <<prog, level, pending, stack>>

\* mark_declared_safe
MarkDeclaredSafe ==
    /\ phase = "declared"
    /\ phase' = "precompute"
    /\ function_safety' = [n \in Names |->
          IF n \in Nodes(prog) \cap prog.declared_safe THEN SafeInfo ELSE function_safety[n]]
    /\ UNCHANGED <<prog, level, pending, stack>>

LeveledNodes == Nodes(prog) \ prog.in_cycle

\* Faulty variant: a level starts while workers still evaluate the last one.
NextLevelNoBarrier ==
    /\ phase = "precompute"
    /\ pending = {}
    /\ IF \E n \in LeveledNodes : prog.level[n] >= level
       THEN /\ level' = level + 1
            /\ pending' = {n \in LeveledNodes : prog.level[n] = level}
            /\ UNCHANGED phase
       ELSE phase' = "done" /\ UNCHANGED <<level, pending>>
    /\ UNCHANGED <<prog, stack, function_safety>>

\* Faulty variant: the highest level is left out.
NextLevelStopsEarly ==
    /\ phase = "precompute"
    /\ pending = {} /\ \A w \in Workers : ~Busy(w)
    /\ IF \E n \in LeveledNodes : prog.level[n] > level
       THEN /\ level' = level + 1
            /\ pending' = {n \in LeveledNodes : prog.level[n] = level}
            /\ UNCHANGED phase
       ELSE phase' = "done" /\ UNCHANGED <<level, pending>>
    /\ UNCHANGED <<prog, stack, function_safety>>

\* The pool has finished a level: the next one starts, or the pass is over.
NextLevel ==
    /\ phase = "precompute"
    /\ pending = {} /\ \A w \in Workers : ~Busy(w)
    /\ IF \E n \in LeveledNodes : prog.level[n] >= level
       THEN /\ level' = level + 1
            /\ pending' = {n \in LeveledNodes : prog.level[n] = level}
            /\ UNCHANGED phase
       ELSE phase' = "done" /\ UNCHANGED <<level, pending>>
    /\ UNCHANGED <<prog, stack, function_safety>>

\* A worker takes a node; one that already has an entry is skipped.
Begin(w, n) ==
    /\ phase = "precompute" /\ ~Busy(w) /\ n \in pending
    /\ pending' = pending \ {n}
    /\ stack' = IF function_safety[n].known THEN stack
                ELSE [stack EXCEPT ![w] =
                        <<IF n \in prog.classes THEN ClassFrame(n)
                          ELSE FunctionFrame(n, prog.module[n])>>]
    /\ UNCHANGED <<prog, phase, level, function_safety>>

HasEffect(fr) == fr.pc = "effect" /\ fr.pos <= Len(EffectsOf(fr.func))

\* An effect that needs no callee: an unconditional error, the mutation of an
\* imported variable, or a write to a global of the function's own module.
LocalEffect(w) ==
    /\ Busy(w)
    /\ LET fr == Top(w)
           e == CurrentEffect(fr)
           info == function_safety[fr.func]
           cross == fr.caller # prog.module[fr.func]
       IN  /\ HasEffect(fr) /\ e.kind \in LocalKinds
           /\ \/ /\ e.kind # "global_mutation"
                 /\ Write(fr.func, UnsafeInfo)
                 /\ SetTop(w, NextEffect(fr, FALSE))
              \/ /\ e.kind = "global_mutation"
                 /\ Write(fr.func, WithIfImported(info))
                 /\ SetTop(w, NextEffect(fr,
                      fr.ret /\ ~(cross /\ info.verdict \cap {"MissingDep", "Unsafe"} = {})))
    /\ UNCHANGED <<prog, phase, level, pending>>

\* The entry after the checks on a call's arguments.
ArgumentCheck(info, e) ==
    CASE e.mutates      -> UnsafeInfo
      [] ~e.mutates /\ e.defers # {} -> WithMissingDep(info, e.defers)
      [] OTHER          -> info

\* A call effect: the argument checks, then the recursion check, then the
\* resolution of the callees.
StartCall(w) ==
    /\ Busy(w)
    /\ LET fr == Top(w)
           e == CurrentEffect(fr)
           info == ArgumentCheck(function_safety[fr.func], e)
           ret == fr.ret /\ ~e.mutates /\ e.defers = {}
           recursive == e.name \in CallStackNames(w)
       IN  /\ HasEffect(fr) /\ e.kind \in CallKinds
           /\ Write(fr.func, IF recursive THEN UnsafeInfo ELSE info)
           /\ SetTop(w, IF recursive
                THEN NextEffect(fr, FALSE)
                ELSE Calling(fr, \A c \in SeqRange(Callees(prog, e)) : CanResolve(c), ret))
    /\ UNCHANGED <<prog, phase, level, pending>>

HasBody(fr) == fr.pc \in {"call", "class"} /\ fr.at <= Len(FrameBodies(fr))

\* check_call_body on the next body of the call: there is nothing to run, or
\* its verdict is read, or it has none and is evaluated by this worker now.
ReadBody(w) ==
    /\ Busy(w)
    /\ LET fr == Top(w)
           b == FrameBodies(fr)[fr.at]
       IN  /\ HasBody(fr)
           /\ \/ /\ b \notin Functions(prog)
                 /\ SetTop(w, NextBody(fr, fr.ok))
              \/ /\ b \in Functions(prog) /\ function_safety[b].known
                 /\ SetTop(w, NextBody(fr,
                      fr.ok /\ BodyPasses(CallerModule(fr), b, function_safety[b])))
              \/ /\ b \in Functions(prog) /\ ~function_safety[b].known
                 /\ stack' = [stack EXCEPT ![w] =
                                Append(stack[w], FunctionFrame(b, CallerModule(fr)))]
    /\ UNCHANGED <<prog, phase, level, pending, function_safety>>

\* The call is checked: its outcome is recorded in the caller's entry.
FinishCall(w) ==
    /\ Busy(w)
    /\ LET fr == Top(w)
           callee == ResolvedName(prog, CurrentEffect(fr))
           info == function_safety[fr.func]
           inherits == fr.ok /\ InheritsIfImported(fr.func, callee)
           cross == fr.caller # prog.module[fr.func]
       IN  /\ fr.pc = "call" /\ ~HasBody(fr)
           /\ Write(fr.func, CASE ~fr.ok   -> FailedCallee(info, callee)
                               [] inherits -> WithIfImported(info)
                               [] OTHER    -> info)
           /\ SetTop(w, NextEffect(fr, fr.ret /\ fr.ok /\ ~(inherits /\ cross)))
    /\ UNCHANGED <<prog, phase, level, pending>>

\* Past the last effect: an entry that exists stands ...
FinishBody(w) ==
    /\ Busy(w)
    /\ LET fr == Top(w)
       IN  /\ fr.pc = "effect" /\ fr.pos > Len(EffectsOf(fr.func))
           /\ \/ function_safety[fr.func].known /\ Return(w, fr.ret)
              \/ ~function_safety[fr.func].known /\ SetTop(w, Marking(fr))
    /\ UNCHANGED <<prog, phase, level, pending, function_safety>>

\* ... and a function without one is marked safe, in a second access.
MarkSafe(w) ==
    /\ Busy(w)
    /\ Top(w).pc = "mark"
    /\ Write(Top(w).func, SafeInfo)
    /\ Return(w, Top(w).ret)
    /\ UNCHANGED <<prog, phase, level, pending>>

\* Faulty variant: the class waits for the callees its methods wait for.
ConstructorVerdictByCallees(c, ok) ==
    LET known == {m \in SeqRange(prog.ctors[c]) : function_safety[m].known}
        bits == UNION {function_safety[m].verdict : m \in known}
    IN  CASE ok -> SafeInfo
          [] ~ok /\ bits # {} /\ "Unsafe" \notin bits ->
                [known |-> TRUE, verdict |-> bits,
                 missing |-> UNION {function_safety[m].missing : m \in known}]
          [] OTHER -> UnsafeInfo

\* The class's entry, from the entries of its constructor methods.
ConstructorVerdict(c, ok) ==
    LET known == {m \in SeqRange(prog.ctors[c]) : function_safety[m].known}
        bits == UNION {function_safety[m].verdict : m \in known}
    IN  CASE ok -> SafeInfo
          [] ~ok /\ bits # {} /\ "Unsafe" \notin bits ->
                [known |-> TRUE, verdict |-> bits,
                 missing |-> {m \in known : "MissingDep" \in function_safety[m].verdict}]
          [] OTHER -> UnsafeInfo

\* precompute_constructor_verdict, after check_constructor_call.
FinishClass(w) ==
    /\ Busy(w)
    /\ IsClassFrame(Top(w)) /\ ~HasBody(Top(w))
    /\ Write(Top(w).func, ConstructorVerdict(Top(w).func, Top(w).ok))
    /\ stack' = [stack EXCEPT ![w] = <<>>]
    /\ UNCHANGED <<prog, phase, level, pending>>

Step(w) ==
    \/ \E n \in pending : Begin(w, n)
    \/ LocalEffect(w)
    \/ StartCall(w)
    \/ ReadBody(w)
    \/ FinishCall(w)
    \/ FinishBody(w)
    \/ MarkSafe(w)
    \/ FinishClass(w)

\* The pass returns once the last level is done.
Done == phase = "done" /\ UNCHANGED vars

Next == MarkRecursive \/ MarkDeclaredSafe \/ NextLevel \/ (\E w \in Workers : Step(w)) \/ Done

Spec == Init /\ [][Next]_vars

\* Some worker that has work takes a step.
FairSpec == Spec /\ WF_vars(Next)

-----------------------------------------------------------------------------
(* Properties.                                                              *)

\* Type invariant.
TypeOK ==
    /\ ProgramShape(prog)
    /\ phase \in {"recursive", "declared", "precompute", "done"}
    /\ level \in Nat
    /\ pending \subseteq Nodes(prog)
    /\ stack \in [Workers -> Seq(Frames)]
    /\ function_safety \in [Names -> Infos]

\* Nobody is still evaluating the node.
Idle(n) == \A w \in Workers : \A i \in 1..Len(stack[w]) : stack[w][i].func # n

Final(n) == function_safety[n].known /\ Idle(n)

\* "A node is visited only once every callee it reaches has a final verdict":
\* while a call is being checked, every function it runs has an entry that no
\* worker will write again.
VisitedInOrder ==
    \A w \in Workers : \A i \in 1..Len(stack[w]) :
        LET fr == stack[w][i] IN
        fr.pc \in {"call", "class"} =>
            \A b \in SeqRange(FrameBodies(fr)) \cap Functions(prog) : Final(b)

\* In an orderly program that is so.  (A class can be settled before all of its
\* constructor methods are, and a caller then reads one that is being evaluated.)
CalleesFinal == VisitedInOrder \/ ~Orderly(prog)

\* The functions whose verdict comes from evaluating their body.
Evaluated == Functions(prog) \ (prog.in_cycle \cup prog.declared_safe \cup prog.classes)

\* What the entries say of one call of a function f.
CallPasses(f, e) ==
    /\ \A c \in SeqRange(Callees(prog, e)) : CanResolve(c)
    /\ \A b \in SeqRange(Bodies(prog, e)) \cap Functions(prog) :
          BodyPasses(prog.module[f], b, function_safety[b])

\* An effect that makes f Unsafe, whatever the rest of the body does.
Fatal(f, e) ==
    \/ e.kind \in {"error", "imported_mutation"}
    \/ /\ e.kind \in CallKinds
       /\ \/ e.mutates
          \/ /\ ~CallPasses(f, e)
             /\ ~Recoverable(function_safety[ResolvedName(prog, e)])
             /\ CanResolve(ResolvedName(prog, e))

\* The callees an effect leaves f waiting for.
WaitsFor(f, e) ==
    IF e.kind \notin CallKinds THEN {}
    ELSE e.defers \cup (IF CallPasses(f, e) THEN {} ELSE {ResolvedName(prog, e)})

TiesToModule(f, e) ==
    \/ e.kind = "global_mutation"
    \/ /\ e.kind \in CallKinds
       /\ CallPasses(f, e) /\ InheritsIfImported(f, ResolvedName(prog, e))

\* The verdict of every evaluated function is the one its body determines from
\* the final verdicts of its callees: it does not depend on the number of
\* workers, on the order in which they take nodes, or on the order in which the
\* effects of a scope were merged.  (In an orderly program, here and below.)
VerdictsExact ==
    \/ \A f \in Evaluated : Final(f) =>
            LET es == SeqRange(prog.effects[f])
                info == function_safety[f]
                waits == UNION {WaitsFor(f, e) : e \in es}
            IN  IF \E e \in es : Fatal(f, e)
                THEN IsUnsafe(info)
                ELSE info = [known |-> TRUE,
                             verdict |-> (IF \E e \in es : TiesToModule(f, e) THEN {"IfImported"} ELSE {})
                                         \cup (IF waits # {} THEN {"MissingDep"} ELSE {}),
                             missing |-> waits]
    \/ ~Orderly(prog)

\* The entry of a class as its constructor methods determine it: safe if every
\* body among them is safe for every caller, lost if one is Unsafe, and otherwise
\* waiting for the methods that wait, not for what they wait for.
ClassEntryExact(c) ==
    LET info == function_safety[c]
        methods == SeqRange(prog.ctors[c]) \cap Nodes(prog)
    IN  IF \A m \in methods \cap Functions(prog) : function_safety[m].verdict = {}
        THEN info = SafeInfo
        ELSE IF \E m \in methods : IsUnsafe(function_safety[m])
        THEN IsUnsafe(info)
        ELSE info = [known |-> TRUE,
                     verdict |-> UNION {function_safety[m].verdict : m \in methods},
                     missing |-> {m \in methods : "MissingDep" \in function_safety[m].verdict}]

\* The verdict of every class is the fold of the final verdicts of its constructor
\* methods, whoever evaluated them and when.
ClassVerdictsExact ==
    \/ \A c \in prog.classes \ (prog.in_cycle \cup prog.declared_safe) : Final(c) => ClassEntryExact(c)
    \/ ~Orderly(prog)

\* The functions a caller in their own module may call.
Clean == {f \in Functions(prog) :
            function_safety[f].known /\ function_safety[f].verdict \subseteq {"IfImported"}}

\* No false safe: once the pass is over, the functions with a passing verdict
\* are closed under "runs the body of", every call they make resolves, and none
\* of them has an unsafe effect.  So nothing unsafe is reachable from them,
\* other than through a name the safelist vouches for.
NoFalseSafe ==
    Orderly(prog) /\ phase = "done" =>
        \A f \in Clean \ (prog.declared_safe \cup prog.classes) : \A e \in SeqRange(prog.effects[f]) :
            /\ e.kind \notin {"error", "imported_mutation"}
            /\ e.kind \in CallKinds =>
                  /\ ~e.mutates /\ e.defers = {}
                  /\ SeqRange(Callees(prog, e)) \subseteq Callable(prog)
                  /\ SeqRange(Bodies(prog, e)) \cap Functions(prog) \subseteq Clean

\* Hard unsafety is never withdrawn, except by the safelist pass.
UnsafeIsKept ==
    [][\A n \in Names :
         IsUnsafe(function_safety[n]) /\ phase # "declared"
            => IsUnsafe(function_safety'[n]) \/ ~Orderly(prog)]_vars

\* An entry waits for a missing dependency exactly when it names one, also while it
\* is being written.  (The module pass relies on it when it hands verdicts on.)
MissingRecorded ==
    \A n \in Names :
        "MissingDep" \in function_safety[n].verdict <=> function_safety[n].missing # {}

\* A function that errs itself is Unsafe in the end, even when two workers
\* evaluate it at the same time and read unfinished verdicts.
OwnErrorsUnsafe ==
    phase = "done" =>
        \A f \in Functions(prog) \ (prog.declared_safe \cup prog.classes) :
            (\E e \in SeqRange(prog.effects[f]) : e.kind = "error") => IsUnsafe(function_safety[f])

\* Settling the cycles first leaves the recursion check of check_call_body
\* nothing to find: no function is evaluated inside its own evaluation, so the
\* recursion on bodies without a verdict ends.  In an orderly program no call in
\* progress is met again either.  (In another one a factory's nested function
\* that is evaluated on the spot may call the factory back, under the name of
\* the decorator in progress: the check compares names.)
NoReentry ==
    \A w \in Workers :
        /\ \A i, j \in 1..Len(stack[w]) : i # j => stack[w][i].func # stack[w][j].func
        /\ Orderly(prog) /\ Busy(w) /\ HasEffect(Top(w)) /\ CurrentEffect(Top(w)).kind \in CallKinds
              => CurrentEffect(Top(w)).name \notin CallStackNames(w)

\* The pass ends, with a verdict for every node.
Completes ==
    <>[](phase = "done" /\ OwnErrorsUnsafe /\ \A n \in Nodes(prog) : function_safety[n].known)

=============================================================================
