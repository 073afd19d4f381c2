------------------------------ MODULE ModulePass ------------------------------
(***************************************************************************)
(* From verdicts to module safety (collect_errors_from_project after the   *)
(* precompute).  In whole-program mode the verdicts that the resolution    *)
(* changed are written back; then the modules are checked in parallel, each*)
(* against the map of verdicts; finally verdicts move into the modules that*)
(* own them (incremental) or subclass registrations become errors (whole   *)
(* program).                                                               *)
(*                                                                         *)
(* The thread pool may run any number of modules at once, so a module is a *)
(* process.  A program holds the outcome of every lookup:                  *)
(*   mode, scopes, effects    eager scopes of a module, effects of a scope *)
(*   home                     the function table: the module of a function *)
(*   enclosing                the module a dotted name belongs to, if any  *)
(*   safety, resolved         the precompute's map; the verdicts that the  *)
(*                            resolution changed                           *)
(*   declared_safe            the safelisted names                         *)
(*   walks, bases, imports    walked bases of a module, bases of a class,  *)
(*                            imports of a module                          *)
(*   implicit, candidates     implicit imports and mutation candidates of  *)
(*                            a module, which are passed on as they are    *)
(***************************************************************************)
EXTENDS Naturals, FiniteSets, Sequences

CONSTANTS Modules, Scopes, Functions, Classes, Programs, NoScope, NoModule, Failed

Bits == {"IfImported", "MissingDep", "Unsafe"}

Infos == [verdict : SUBSET Bits, missing : SUBSET Functions]

Modes == {"WholeProgram", "Incremental"}

\* A callee of a call: whether its name resolves, and the bodies it would run.
Callees == [known : BOOLEAN, name : Functions \cup Classes, bodies : SUBSET Functions]

\* error: an error in itself.  mutation: of an imported variable.  call: every
\* runnable effect but a class statement.  creation: a class statement.  attr: an
\* attribute of an imported type.  unconfirmed: one of an unknown type.
Kinds == {"error", "mutation", "call", "creation", "attr", "unconfirmed"}

SafetyEffects ==
    [kind : Kinds,
     callees : SUBSET Callees,
     mutates : BOOLEAN,         \* an imported argument reaches a mutated parameter
     property : BOOLEAN,        \* the attribute is a property of the type
     class : Classes]

\* The precompute leaves no function without a verdict, and records the callees
\* that a verdict waits for together with the bit that says that it waits.
IsProgram(p) ==
    /\ p.mode \in Modes
    /\ p.scopes \in [Modules -> SUBSET Scopes]
    /\ p.effects \in [Scopes -> Seq(SafetyEffects)]
    /\ p.home \in [Functions -> Modules]
    /\ Functions \subseteq DOMAIN p.safety
    /\ DOMAIN p.safety \subseteq Functions \cup Classes
    /\ p.safety \in [DOMAIN p.safety -> Infos]
    /\ \A n \in DOMAIN p.safety : ("MissingDep" \in p.safety[n].verdict) = (p.safety[n].missing # {})
    /\ p.enclosing \in [DOMAIN p.safety -> Modules \cup {NoModule}]
    /\ DOMAIN p.resolved \subseteq DOMAIN p.safety
    /\ p.resolved \in [DOMAIN p.resolved -> SUBSET Bits]
    /\ p.mode = "Incremental" => DOMAIN p.resolved = {}
    /\ p.declared_safe \subseteq Functions
    /\ p.walks \in [Modules -> SUBSET Classes]
    /\ p.bases \in [Classes -> SUBSET Classes]
    /\ p.imports \in [Modules -> SUBSET Modules]
    /\ p.implicit \in [Modules -> SUBSET Modules]
    /\ p.candidates \in [Modules -> SUBSET Functions]

ASSUME ProgramsAssumption == \A p \in Programs : IsProgram(p)

ASSUME ClassesAssumption == IsFiniteSet(Classes)

VARIABLES
    prog,
    stage,
    left,            \* what the parallel loop of this stage has left to do
    function_safety, \* the verdicts
    scope,           \* the scope a module's check is in, NoScope between two
    position,        \* the effect of it that comes next
    unchecked,       \* the eager scopes the check has not entered
    safety_map

vars == <<prog, stage, left, function_safety, scope, position, unchecked, safety_map>>

-----------------------------------------------------------------------------
(* A module's entry.                                                        *)

\* What an error is about: an effect of a scope, or a class that is registered.
Origins == (Scopes \X Nat) \cup {<<c>> : c \in Classes}

ErrorKinds == {"Effect", "ImportedModuleAssignment", "Unknown", "ImportedArgument",
               "UnsafeCall", "SubclassRegistration"}

Entries ==
    [errors : SUBSET (Origins \X ErrorKinds),
     overrides : SUBSET Classes,
     implicit_imports : SUBSET Modules,
     function_safety : SUBSET ((Functions \cup Classes) \X Infos),
     mutation_candidates : SUBSET Functions,
     property_candidates : SUBSET (Scopes \X Nat),
     subclass_candidates : SUBSET Classes]

ASSUME NamesAssumption ==
    /\ NoScope \notin Scopes
    /\ NoModule \notin Modules
    /\ Failed \notin Entries

EmptySafety ==
    [errors |-> {}, overrides |-> {}, implicit_imports |-> {}, function_safety |-> {},
     mutation_candidates |-> {}, property_candidates |-> {}, subclass_candidates |-> {}]

\* update_module_safety: an entry that holds a failure is left alone.
Updated(entry, delta) ==
    IF entry = Failed THEN Failed
    ELSE [f \in DOMAIN entry |-> IF f \in DOMAIN delta THEN entry[f] \cup delta[f] ELSE entry[f]]

-----------------------------------------------------------------------------
(* One effect of an eager scope.                                            *)

Runnable(e) == e.kind \in {"call", "creation"} \/ (e.kind = "attr" /\ e.property)

\* Faulty variant: the module that runs the body does not matter.
BodySafeAnywhere(m, f) ==
    function_safety[f].verdict \cap {"Unsafe", "MissingDep"} = {}

\* check_call_body, for a function with a verdict: m is the module under check.
BodySafe(m, f) ==
    LET verdict == function_safety[f].verdict
    IN  /\ verdict \cap {"Unsafe", "MissingDep"} = {}
        /\ "IfImported" \in verdict => m = prog.home[f]

\* check_resolved_call, check_call: the errors that one callee publishes.
CalleeErrors(m, e, c) ==
    IF ~c.known THEN {"Unknown"}
    ELSE IF c.name \in prog.declared_safe THEN {}
    ELSE (IF e.mutates /\ c.bodies # {} THEN {"ImportedArgument"} ELSE {})
         \cup (IF \A f \in c.bodies : BodySafe(m, f) THEN {} ELSE {"UnsafeCall"})

EffectErrors(m, e) ==
    CASE e.kind = "error"    -> {"Effect"}
      [] e.kind = "mutation" -> {"ImportedModuleAssignment"}
      [] Runnable(e)         -> UNION {CalleeErrors(m, e, c) : c \in e.callees}
      [] OTHER               -> {}

\* check_unknown_call expects a call of a name; it returns an error otherwise.
CheckFails(e) == Runnable(e) /\ e.kind # "call" /\ \E c \in e.callees : ~c.known

\* collect_errors_from_scope, one turn of its loop.  id names the effect.
EffectDelta(m, id, e) ==
    [errors |-> {<<id, kind>> : kind \in EffectErrors(m, e)},
     property_candidates |->
        IF e.kind = "unconfirmed" /\ prog.mode = "Incremental" THEN {id} ELSE {},
     subclass_candidates |-> IF e.kind = "creation" THEN {e.class} ELSE {}]

-----------------------------------------------------------------------------
(* Steps.                                                                   *)

Init ==
    /\ prog \in Programs
    /\ stage = "resolve"
    /\ left = DOMAIN prog.resolved
    /\ function_safety = prog.safety
    /\ scope = [m \in Modules |-> NoScope]
    /\ position = [m \in Modules |-> 1]
    /\ unchecked = prog.scopes
    /\ safety_map = [m \in Modules |-> EmptySafety]

checks == <<scope, position, unchecked>>

\* resolve_whole_program writes a verdict back, and nothing else of its entry.
WriteBack(n) ==
    /\ stage = "resolve" /\ n \in left
    /\ function_safety' = [function_safety EXCEPT ![n].verdict = prog.resolved[n]]
    /\ left' = left \ {n}
    /\ UNCHANGED <<prog, stage, checks, safety_map>>

StartPass ==
    /\ stage = "resolve" /\ left = {}
    /\ stage' = "pass" /\ left' = Modules
    /\ UNCHANGED <<prog, function_safety, checks, safety_map>>

Checking(m) == stage = "pass" /\ m \in left

EnterScope(m, s) ==
    /\ Checking(m) /\ scope[m] = NoScope /\ s \in unchecked[m]
    /\ scope' = [scope EXCEPT ![m] = s]
    /\ position' = [position EXCEPT ![m] = 1]
    /\ unchecked' = [unchecked EXCEPT ![m] = @ \ {s}]
    /\ UNCHANGED <<prog, stage, left, function_safety, safety_map>>

Effects(m) == prog.effects[scope[m]]

InEffect(m) == Checking(m) /\ scope[m] # NoScope /\ position[m] <= Len(Effects(m))

Current(m) == Effects(m)[position[m]]

CheckEffect(m) ==
    /\ InEffect(m) /\ ~CheckFails(Current(m))
    /\ safety_map' = [safety_map EXCEPT
           ![m] = Updated(@, EffectDelta(m, <<scope[m], position[m]>>, Current(m)))]
    /\ position' = [position EXCEPT ![m] = @ + 1]
    /\ UNCHANGED <<prog, stage, left, function_safety, scope, unchecked>>

\* set_analysis_error replaces the entry, and the module's check is over.
FailEffect(m) ==
    /\ InEffect(m) /\ CheckFails(Current(m))
    /\ safety_map' = [safety_map EXCEPT ![m] = Failed]
    /\ left' = left \ {m}
    /\ UNCHANGED <<prog, stage, function_safety, checks>>

LeaveScope(m) ==
    /\ Checking(m) /\ scope[m] # NoScope /\ position[m] > Len(Effects(m))
    /\ scope' = [scope EXCEPT ![m] = NoScope]
    /\ UNCHANGED <<prog, stage, left, function_safety, position, unchecked, safety_map>>

\* check_load_imports_eagerly and collect_implicit_imports, after all scopes.
EndCheck(m) ==
    /\ Checking(m) /\ scope[m] = NoScope /\ unchecked[m] = {}
    /\ safety_map' = [safety_map EXCEPT
           ![m] = Updated(@, [overrides |-> prog.walks[m], implicit_imports |-> prog.implicit[m]])]
    /\ left' = left \ {m}
    /\ UNCHANGED <<prog, stage, function_safety, checks>>

\* WalkedBases: who walks a base, of the modules that were analysed.
Walkers(base) ==
    {m \in Modules : safety_map[m] # Failed /\ base \in safety_map[m].overrides}

\* Faulty variant: verdicts move into the modules in every mode.
FinishPassMoving ==
    /\ stage = "pass" /\ left = {}
    /\ stage' = "move" /\ left' = DOMAIN function_safety
    /\ UNCHANGED <<prog, function_safety, checks, safety_map>>

\* What follows depends on the mode; without a walked base nothing registers.
FinishPass ==
    /\ stage = "pass" /\ left = {}
    /\ \/ /\ prog.mode = "Incremental"
          /\ stage' = "move" /\ left' = DOMAIN function_safety
       \/ /\ prog.mode = "WholeProgram"
          /\ stage' = "register"
          /\ left' = IF \A base \in Classes : Walkers(base) = {} THEN {} ELSE Modules
    /\ UNCHANGED <<prog, function_safety, checks, safety_map>>

\* finalize_safety_map moves a verdict into the module its name belongs to; the
\* function's mutated parameters go along (see MutatedParams).
MoveVerdict(n) ==
    /\ stage = "move" /\ n \in left
    /\ LET m == prog.enclosing[n]
       IN  safety_map' = IF m = NoModule THEN safety_map
                         ELSE [safety_map EXCEPT
                                 ![m] = Updated(@, [function_safety |-> {<<n, function_safety[n]>>}])]
    /\ left' = left \ {n}
    /\ UNCHANGED <<prog, stage, function_safety, checks>>

\* The incremental mode attaches the mutation candidates last.
AttachCandidates ==
    /\ stage = "move" /\ left = {}
    /\ safety_map' = [m \in Modules |->
           Updated(safety_map[m], [mutation_candidates |-> prog.candidates[m]])]
    /\ stage' = "done"
    /\ UNCHANGED <<prog, left, function_safety, checks>>

\* walked_elsewhere: somebody walks the base who neither is m nor imports it.
WalkedElsewhere(m, base) == \E w \in Walkers(base) \ {m} : m \notin prog.imports[w]

\* Faulty variant: only the bases a class lists itself.
DirectBases(class) == prog.bases[class]

\* inherits_from searches the bases of a class and the bases of all it has seen.
Ancestors(class) ==
    {base \in Classes : \A seen \in SUBSET Classes :
        prog.bases[class] \subseteq seen /\ (\A c \in seen : prog.bases[c] \subseteq seen)
            => base \in seen}

\* registration_errors; the candidates are used up.
Register(m) ==
    /\ stage = "register" /\ m \in left
    /\ LET entry == safety_map[m]
           new == {c \in entry.subclass_candidates :
                      \E base \in Ancestors(c) : WalkedElsewhere(m, base)}
       IN  safety_map' = IF entry = Failed THEN safety_map
                         ELSE [safety_map EXCEPT
                                 ![m].errors = @ \cup {<<<<c>>, "SubclassRegistration">> : c \in new},
                                 ![m].subclass_candidates = {}]
    /\ left' = left \ {m}
    /\ UNCHANGED <<prog, stage, function_safety, checks>>

FinishRegister ==
    /\ stage = "register" /\ left = {}
    /\ stage' = "done"
    /\ UNCHANGED <<prog, left, function_safety, checks, safety_map>>

Done == stage = "done" /\ UNCHANGED vars

CheckModule(m) ==
    \/ \E s \in Scopes : EnterScope(m, s)
    \/ CheckEffect(m) \/ FailEffect(m) \/ LeaveScope(m) \/ EndCheck(m)

Work ==
    \/ \E n \in DOMAIN prog.safety : WriteBack(n) \/ MoveVerdict(n)
    \/ StartPass \/ FinishPass \/ AttachCandidates
    \/ \E m \in Modules : Register(m)
    \/ FinishRegister

Next == Work \/ (\E m \in Modules : CheckModule(m)) \/ Done

\* Loops run to their end; the pool goes on with every module it has begun.
Fairness == WF_vars(Work) /\ \A m \in Modules : WF_vars(CheckModule(m))

Spec == Init /\ [][Next]_vars /\ Fairness

-----------------------------------------------------------------------------
(* Properties.                                                              *)

\* Type invariant.
TypeOK ==
    /\ stage \in {"resolve", "pass", "move", "register", "done"}
    /\ left \subseteq CASE stage = "resolve" -> DOMAIN prog.resolved
                      [] stage = "move" -> DOMAIN prog.safety
                      [] OTHER -> Modules
    /\ function_safety \in [DOMAIN prog.safety -> Infos]
    /\ scope \in [Modules -> Scopes \cup {NoScope}]
    /\ position \in [Modules -> Nat]
    /\ unchecked \in [Modules -> SUBSET Scopes]
    /\ safety_map \in [Modules -> Entries \cup {Failed}]
    /\ \A m \in Modules :
          /\ scope[m] \in prog.scopes[m] \cup {NoScope}
          /\ scope[m] # NoScope => position[m] \in 1..(Len(Effects(m)) + 1)
          /\ unchecked[m] \subseteq prog.scopes[m] \ {scope[m]}
          /\ stage = "resolve" \/ Checking(m) => safety_map[m] # Failed

\* The facts of the program that the abstract specification speaks of, from the
\* final verdicts and without any order of scopes or effects.
FinalVerdict(f) == IF f \in DOMAIN prog.resolved THEN prog.resolved[f] ELSE prog.safety[f].verdict

MayRun(m, f) == FinalVerdict(f) \subseteq (IF m = prog.home[f] THEN {"IfImported"} ELSE {})

EffectIds(m) == UNION {{s} \X DOMAIN prog.effects[s] : s \in prog.scopes[m]}

EffectOf(id) == prog.effects[id[1]][id[2]]

Checked(e) == {c \in e.callees : c.known /\ c.name \notin prog.declared_safe}

\* The reasons for which an effect makes the import of m unsafe.
Reasons(m, e) ==
    (IF e.kind = "error" THEN {"Effect"} ELSE {})
    \cup (IF e.kind = "mutation" THEN {"ImportedModuleAssignment"} ELSE {})
    \cup (IF Runnable(e) /\ \E c \in e.callees : ~c.known THEN {"Unknown"} ELSE {})
    \cup (IF Runnable(e) /\ e.mutates /\ \E c \in Checked(e) : c.bodies # {}
             THEN {"ImportedArgument"} ELSE {})
    \cup (IF Runnable(e) /\ \E c \in Checked(e) : \E f \in c.bodies : ~MayRun(m, f)
             THEN {"UnsafeCall"} ELSE {})

FailingModules == {m \in Modules : \E id \in EffectIds(m) : CheckFails(EffectOf(id))}

LocalErrors ==
    [m \in Modules |-> UNION {{<<id, r>> : r \in Reasons(m, EffectOf(id))} : id \in EffectIds(m)}]

\* The classes whose bases lead to one that is walked by a module which was
\* analysed, is not m, and does not import m.
DerivesFrom(class, base) ==
    \E k \in 1..Cardinality(Classes) : \E path \in [0..k -> Classes] :
        path[0] = class /\ path[k] = base /\ \A i \in 1..k : path[i] \in prog.bases[path[i - 1]]

RegistrationErrors ==
    [m \in Modules |->
        IF prog.mode = "Incremental" THEN {}
        ELSE {<<<<c>>, "SubclassRegistration">> :
                c \in {d \in Classes :
                    /\ \E id \in EffectIds(m) :
                          EffectOf(id).kind = "creation" /\ EffectOf(id).class = d
                    /\ \E w \in Modules \ (FailingModules \cup {m}) :
                          m \notin prog.imports[w] /\ \E base \in prog.walks[w] : DerivesFrom(d, base)}}]

Decided(m) == stage \in {"move", "register", "done"} \/ (stage = "pass" /\ m \notin left)

FailedModules == {m \in Modules : safety_map[m] = Failed}

DecidedErrors ==
    [m \in Modules |->
        IF Decided(m) /\ m \notin FailedModules THEN safety_map[m].errors ELSE {}]

Abstract == INSTANCE ModuleVerdicts WITH
    failing <- FailingModules, local <- LocalErrors, registered <- RegistrationErrors,
    decided <- {m \in Modules : Decided(m)}, failed <- FailedModules, errors <- DecidedErrors

\* The pass implements its promise: whatever modules run at the same time and in
\* whatever order scopes are taken, a module is decided once, from the program
\* and the final verdicts, and fails exactly when one of its scopes does.
Implements == Abstract!Spec

\* The pass ends, and then every module that was analysed has every error it must
\* have, those of registrations included, and a verdict is in the entry its name
\* belongs to, if that module was analysed.
ResultComplete ==
    <>[](/\ stage = "done"
         /\ \A m \in Modules \ FailingModules :
            /\ safety_map[m].errors = LocalErrors[m] \cup RegistrationErrors[m]
            /\ safety_map[m].function_safety =
                  IF prog.mode = "WholeProgram" THEN {}
                  ELSE {<<n, prog.safety[n]>> : n \in {x \in DOMAIN prog.safety : prog.enclosing[x] = m}})

\* Type correct; the write-back leaves dependencies behind that no verdict waits
\* for any more. No entry that leaves the pass carries such a leftover: the
\* reduce would read it as something to wait for.
NoStaleCallees ==
    /\ TypeOK
    /\ \A m \in Modules : safety_map[m] # Failed =>
        \A f \in safety_map[m].function_safety :
            ("MissingDep" \in f[2].verdict) = (f[2].missing # {})

=============================================================================
