--------------------------- MODULE ModulePassProofs ---------------------------
(***************************************************************************)
(* Proofs about the module-scope pass, for any programs: its types, that no*)
(* entry carries a leftover of the write-back, and that the parallel pass  *)
(* implements ModuleVerdicts.                                              *)
(***************************************************************************)
EXTENDS ModulePass, FiniteSetTheorems, WellFoundedInduction, TLAPS

-----------------------------------------------------------------------------
(* What an update leaves in an entry.                                       *)

LEMMA UpdatedByEffect ==
    ASSUME NEW entry \in Entries,
           NEW new \in SUBSET (Origins \X ErrorKinds),
           NEW ids \in SUBSET (Scopes \X Nat),
           NEW classes \in SUBSET Classes,
           NEW u, u = Updated(entry, [errors |-> new, property_candidates |-> ids,
                                      subclass_candidates |-> classes])
    PROVE  /\ u \in Entries
           /\ u.errors = entry.errors \cup new
           /\ u.subclass_candidates = entry.subclass_candidates \cup classes
           /\ u.overrides = entry.overrides
           /\ u.function_safety = entry.function_safety
<1>1. entry # Failed
  BY NamesAssumption
<1> QED
  BY <1>1 DEF Updated, Entries

LEMMA UpdatedByEnd ==
    ASSUME NEW entry \in Entries, NEW walked \in SUBSET Classes, NEW imports \in SUBSET Modules,
           NEW u, u = Updated(entry, [overrides |-> walked, implicit_imports |-> imports])
    PROVE  /\ u \in Entries
           /\ u.errors = entry.errors
           /\ u.subclass_candidates = entry.subclass_candidates
           /\ u.overrides = entry.overrides \cup walked
           /\ u.function_safety = entry.function_safety
<1>1. entry # Failed
  BY NamesAssumption
<1> QED
  BY <1>1 DEF Updated, Entries

LEMMA UpdatedByMove ==
    ASSUME NEW entry \in Entries,
           NEW moved \in SUBSET ((Functions \cup Classes) \X Infos),
           NEW u, u = Updated(entry, [function_safety |-> moved])
    PROVE  /\ u \in Entries
           /\ u.errors = entry.errors
           /\ u.subclass_candidates = entry.subclass_candidates
           /\ u.overrides = entry.overrides
           /\ u.function_safety = entry.function_safety \cup moved
<1>1. entry # Failed
  BY NamesAssumption
<1> QED
  BY <1>1 DEF Updated, Entries

LEMMA UpdatedByCandidates ==
    ASSUME NEW entry \in Entries, NEW candidates \in SUBSET Functions,
           NEW u, u = Updated(entry, [mutation_candidates |-> candidates])
    PROVE  /\ u \in Entries
           /\ u.errors = entry.errors
           /\ u.subclass_candidates = entry.subclass_candidates
           /\ u.overrides = entry.overrides
           /\ u.function_safety = entry.function_safety
<1>1. entry # Failed
  BY NamesAssumption
<1> QED
  BY <1>1 DEF Updated, Entries

-----------------------------------------------------------------------------
(* The types.                                                               *)

TypeInv == prog \in Programs /\ TypeOK

\* The effect that comes next, and where it is.
LEMMA CurrentFacts ==
    ASSUME TypeInv, NEW m \in Modules, InEffect(m)
    PROVE  /\ Current(m) \in SafetyEffects
           /\ scope[m] \in prog.scopes[m] /\ scope[m] \in Scopes
           /\ position[m] \in DOMAIN prog.effects[scope[m]]
           /\ <<scope[m], position[m]>> \in EffectIds(m)
           /\ EffectOf(<<scope[m], position[m]>>) = Current(m)
<1>1. IsProgram(prog)
  BY ProgramsAssumption DEF TypeInv
<1>2. scope[m] \in prog.scopes[m] /\ scope[m] \in Scopes
  BY <1>1 DEF TypeInv, TypeOK, InEffect, IsProgram
<1>3. prog.effects[scope[m]] \in Seq(SafetyEffects)
  BY <1>1, <1>2 DEF IsProgram
<1>4. position[m] \in 1..Len(prog.effects[scope[m]])
  BY <1>2, <1>3 DEF TypeInv, TypeOK, InEffect, Effects
<1>5. position[m] \in DOMAIN prog.effects[scope[m]]
  BY <1>3, <1>4
<1>6. Current(m) = prog.effects[scope[m]][position[m]]
  BY DEF Current, Effects
<1>7. Current(m) \in SafetyEffects
  BY <1>3, <1>4, <1>6
<1>8. <<scope[m], position[m]>> \in EffectIds(m)
  BY <1>2, <1>5 DEF EffectIds
<1> QED
  BY <1>2, <1>5, <1>6, <1>7, <1>8 DEF EffectOf

LEMMA EffectErrorsType ==
    ASSUME NEW m \in Modules, NEW e \in SafetyEffects
    PROVE  EffectErrors(m, e) \subseteq ErrorKinds
<1>1. ASSUME NEW c PROVE CalleeErrors(m, e, c) \subseteq ErrorKinds
  BY DEF CalleeErrors, ErrorKinds
<1> QED
  BY <1>1 DEF EffectErrors, ErrorKinds

\* What the check of one effect leaves in the module's entry.
LEMMA EffectUpdate ==
    ASSUME TypeInv, NEW m \in Modules, InEffect(m),
           NEW u, u = Updated(safety_map[m], EffectDelta(m, <<scope[m], position[m]>>, Current(m)))
    PROVE  /\ safety_map[m] \in Entries
           /\ u \in Entries
           /\ u.errors = safety_map[m].errors
                  \cup {<<<<scope[m], position[m]>>, kind>> : kind \in EffectErrors(m, Current(m))}
           /\ u.subclass_candidates = safety_map[m].subclass_candidates
                  \cup (IF Current(m).kind = "creation" THEN {Current(m).class} ELSE {})
           /\ u.overrides = safety_map[m].overrides
           /\ u.function_safety = safety_map[m].function_safety
<1> DEFINE id == <<scope[m], position[m]>>
           e == Current(m)
           new == {<<id, kind>> : kind \in EffectErrors(m, e)}
           ids == IF e.kind = "unconfirmed" /\ prog.mode = "Incremental" THEN {id} ELSE {}
           classes == IF e.kind = "creation" THEN {e.class} ELSE {}
<1>1. safety_map[m] \in Entries
  BY DEF TypeInv, TypeOK, InEffect
<1>2. e \in SafetyEffects /\ id \in Scopes \X Nat
  BY CurrentFacts DEF TypeInv, TypeOK
<1>3. new \in SUBSET (Origins \X ErrorKinds)
  BY <1>2, EffectErrorsType DEF Origins
<1>4. ids \in SUBSET (Scopes \X Nat)
  BY <1>2
<1>5. classes \in SUBSET Classes
  BY <1>2 DEF SafetyEffects
<1>6. u = Updated(safety_map[m], [errors |-> new, property_candidates |-> ids,
                                  subclass_candidates |-> classes])
  BY DEF EffectDelta
<1> HIDE DEF new, ids, classes
<1>7. /\ u \in Entries
      /\ u.errors = safety_map[m].errors \cup new
      /\ u.subclass_candidates = safety_map[m].subclass_candidates \cup classes
      /\ u.overrides = safety_map[m].overrides
      /\ u.function_safety = safety_map[m].function_safety
  BY <1>1, <1>3, <1>4, <1>5, <1>6, UpdatedByEffect
<1> QED
  BY <1>1, <1>7 DEF new, classes

\* The clauses of TypeOK about one module, which a step that keeps the checks
\* where they are keeps.
LEMMA ScopesKept ==
    ASSUME TypeInv, prog' = prog, UNCHANGED checks, NEW m \in Modules
    PROVE  /\ scope'[m] \in prog'.scopes[m] \cup {NoScope}
           /\ scope'[m] # NoScope => position'[m] \in 1..(Len(Effects(m)') + 1)
           /\ unchecked'[m] \subseteq prog'.scopes[m] \ {scope'[m]}
  BY DEF TypeInv, TypeOK, checks, Effects

\* A step that leaves the checks alone and ends, or stays in, its stage.
LEMMA TypeKept ==
    ASSUME TypeInv, prog' = prog, UNCHANGED checks,
           stage' \in {"resolve", "pass", "move", "register", "done"},
           left' \subseteq CASE stage' = "resolve" -> DOMAIN prog.resolved
                            [] stage' = "move" -> DOMAIN prog.safety
                            [] OTHER -> Modules,
           function_safety' \in [DOMAIN prog.safety -> Infos],
           safety_map' \in [Modules -> Entries \cup {Failed}],
           \A m \in Modules :
              stage' = "resolve" \/ (stage' = "pass" /\ m \in left') => safety_map'[m] # Failed
    PROVE  TypeInv'
<1>1. /\ scope' \in [Modules -> Scopes \cup {NoScope}]
      /\ position' \in [Modules -> Nat]
      /\ unchecked' \in [Modules -> SUBSET Scopes]
  BY DEF TypeInv, TypeOK, checks
<1> QED
  BY <1>1, ScopesKept DEF TypeInv, TypeOK, Checking

LEMMA EntryOrFailed ==
    ASSUME TypeInv, NEW m \in Modules, NEW u \in Entries \cup {Failed},
           NEW map, map = [safety_map EXCEPT ![m] = u]
    PROVE  /\ map \in [Modules -> Entries \cup {Failed}]
           /\ map[m] = u
           /\ \A n \in Modules \ {m} : map[n] = safety_map[n]
  BY DEF TypeInv, TypeOK

\* Steps before and after the pass.
LEMMA WorkTypes ==
    ASSUME TypeInv, Work PROVE TypeInv'
<1>1. IsProgram(prog)
  BY ProgramsAssumption DEF TypeInv
<1>2. ASSUME NEW n \in DOMAIN prog.safety, WriteBack(n) PROVE TypeInv'
  <2>1. n \in DOMAIN prog.resolved /\ prog.resolved[n] \in SUBSET Bits
    BY <1>1, <1>2 DEF WriteBack, TypeInv, TypeOK, IsProgram
  <2>2. function_safety' \in [DOMAIN prog.safety -> Infos]
    <3> DEFINE info == [function_safety[n] EXCEPT !.verdict = prog.resolved[n]]
    <3>1. function_safety \in [DOMAIN prog.safety -> Infos]
      BY DEF TypeInv, TypeOK
    <3>2. info \in Infos
      BY <2>1, <3>1 DEF Infos
    <3>3. function_safety' = [function_safety EXCEPT ![n] = info]
      BY <1>2 DEF WriteBack
    <3> QED
      BY <3>1, <3>2, <3>3
  <2>3. /\ stage' = "resolve" /\ left' \subseteq DOMAIN prog.resolved
        /\ prog' = prog /\ UNCHANGED <<checks, safety_map>>
        /\ \A m \in Modules : safety_map'[m] # Failed
    BY <1>2 DEF WriteBack, TypeInv, TypeOK
  <2>4. safety_map' \in [Modules -> Entries \cup {Failed}]
    BY <2>3 DEF TypeInv, TypeOK
  <2> QED
    BY <2>2, <2>3, <2>4, TypeKept
<1>3. ASSUME NEW n \in DOMAIN prog.safety, MoveVerdict(n) PROVE TypeInv'
  <2>1. safety_map' \in [Modules -> Entries \cup {Failed}]
    <3> DEFINE m == prog.enclosing[n]
               u == Updated(safety_map[m], [function_safety |-> {<<n, function_safety[n]>>}])
    <3>1. CASE m = NoModule
      BY <1>3, <3>1 DEF MoveVerdict, TypeInv, TypeOK
    <3>2. CASE m # NoModule
      <4>1. m \in Modules
        BY <1>1, <3>2 DEF IsProgram
      <4>2. {<<n, function_safety[n]>>} \in SUBSET ((Functions \cup Classes) \X Infos)
        BY <1>1 DEF IsProgram, TypeInv, TypeOK
      <4>3. u \in Entries \cup {Failed}
        <5>1. CASE safety_map[m] = Failed
          BY <5>1 DEF Updated
        <5>2. CASE safety_map[m] \in Entries
          BY <4>2, <5>2, UpdatedByMove
        <5> QED
          BY <4>1, <5>1, <5>2 DEF TypeInv, TypeOK
      <4>4. safety_map' = [safety_map EXCEPT ![m] = u]
        BY <1>3, <3>2 DEF MoveVerdict
      <4> QED
        BY <4>1, <4>3, <4>4, EntryOrFailed
    <3> QED
      BY <3>1, <3>2
  <2> QED
    BY <1>3, <2>1, TypeKept DEF MoveVerdict, TypeInv, TypeOK
<1>4. CASE StartPass
  BY <1>4, TypeKept DEF StartPass, TypeInv, TypeOK
<1>5. CASE FinishPass
  <2>1. CASE prog.mode = "Incremental"
    <3>1. stage' = "move" /\ left' \subseteq DOMAIN prog.safety
      BY <1>5, <2>1 DEF FinishPass, TypeInv, TypeOK
    <3> QED
      BY <1>5, <3>1, TypeKept DEF FinishPass, TypeInv, TypeOK
  <2>2. CASE prog.mode # "Incremental"
    <3>1. stage' = "register" /\ left' \subseteq Modules
      BY <1>5, <2>2 DEF FinishPass
    <3> QED
      BY <1>5, <3>1, TypeKept DEF FinishPass, TypeInv, TypeOK
  <2> QED
    BY <2>1, <2>2
<1>6. CASE AttachCandidates
  <2>1. ASSUME NEW m \in Modules
        PROVE  Updated(safety_map[m], [mutation_candidates |-> prog.candidates[m]])
                   \in Entries \cup {Failed}
    <3>1. prog.candidates[m] \in SUBSET Functions
      BY <1>1 DEF IsProgram
    <3>2. CASE safety_map[m] = Failed
      BY <3>2 DEF Updated
    <3>3. CASE safety_map[m] \in Entries
      BY <3>1, <3>3, UpdatedByCandidates
    <3> QED
      BY <3>2, <3>3 DEF TypeInv, TypeOK
  <2>2. safety_map' \in [Modules -> Entries \cup {Failed}]
    BY <1>6, <2>1 DEF AttachCandidates
  <2>3. stage' = "done" /\ left' = {}
    BY <1>6 DEF AttachCandidates
  <2> QED
    BY <1>6, <2>2, <2>3, TypeKept DEF AttachCandidates, TypeInv, TypeOK
<1>7. ASSUME NEW m \in Modules, Register(m) PROVE TypeInv'
  <2>1. safety_map' \in [Modules -> Entries \cup {Failed}]
    <3>1. CASE safety_map[m] = Failed
      BY <1>7, <3>1 DEF Register, TypeInv, TypeOK
    <3>2. CASE safety_map[m] # Failed
      <4> DEFINE new == {c \in safety_map[m].subclass_candidates :
                            \E base \in Ancestors(c) : WalkedElsewhere(m, base)}
                 added == {<<<<c>>, "SubclassRegistration">> : c \in new}
                 u == [safety_map[m] EXCEPT !.errors = @ \cup added, !.subclass_candidates = {}]
      <4>1. safety_map[m] \in Entries
        BY <3>2 DEF TypeInv, TypeOK
      <4>2. new \subseteq Classes
        BY <4>1 DEF Entries
      <4>3. added \subseteq Origins \X ErrorKinds
        BY <4>2 DEF Origins, ErrorKinds
      <4>4. safety_map' = [safety_map EXCEPT ![m] = u]
        BY <1>7, <3>2 DEF Register
      <4> HIDE DEF new, added
      <4>5. u \in Entries
        BY <4>1, <4>3 DEF Entries
      <4> QED
        BY <4>4, <4>5, EntryOrFailed
    <3> QED
      BY <3>1, <3>2
  <2>2. stage' = "register" /\ left' \subseteq Modules
    BY <1>7 DEF Register, TypeInv, TypeOK
  <2> QED
    BY <1>7, <2>1, <2>2, TypeKept DEF Register, TypeInv, TypeOK
<1>8. CASE FinishRegister
  <2>1. stage' = "done" /\ left' = {}
    BY <1>8 DEF FinishRegister
  <2> QED
    BY <1>8, <2>1, TypeKept DEF FinishRegister, TypeInv, TypeOK
<1> QED
  BY <1>2, <1>3, <1>4, <1>5, <1>6, <1>7, <1>8 DEF Work

\* The check of a module leaves the others alone, and its own clauses hold.
LEMMA CheckTypes ==
    ASSUME TypeInv, NEW m \in Modules, CheckModule(m) PROVE TypeInv'
<1>1. IsProgram(prog)
  BY ProgramsAssumption DEF TypeInv
<1>2. CASE \E s \in Scopes : EnterScope(m, s)
  <2> PICK s \in Scopes : EnterScope(m, s)
    BY <1>2
  <2>1. s \in prog.scopes[m] /\ prog.effects[s] \in Seq(SafetyEffects)
    BY <1>1 DEF EnterScope, TypeInv, TypeOK, IsProgram
  <2>2. 1 \in 1..(Len(prog.effects[s]) + 1)
    BY <2>1
  <2>3. /\ scope' \in [Modules -> Scopes \cup {NoScope}]
        /\ position' \in [Modules -> Nat]
        /\ unchecked' \in [Modules -> SUBSET Scopes]
    BY DEF EnterScope, TypeInv, TypeOK
  <2>4. ASSUME NEW n \in Modules
        PROVE  /\ scope'[n] \in prog'.scopes[n] \cup {NoScope}
               /\ scope'[n] # NoScope => position'[n] \in 1..(Len(Effects(n)') + 1)
               /\ unchecked'[n] \subseteq prog'.scopes[n] \ {scope'[n]}
    BY <2>1, <2>2 DEF EnterScope, TypeInv, TypeOK, Effects
  <2> QED
    BY <2>3, <2>4 DEF EnterScope, TypeInv, TypeOK, Checking
<1>3. CASE CheckEffect(m)
  <2> DEFINE u == Updated(safety_map[m], EffectDelta(m, <<scope[m], position[m]>>, Current(m)))
  <2>1. InEffect(m) /\ safety_map' = [safety_map EXCEPT ![m] = u]
    BY <1>3 DEF CheckEffect
  <2>2. u \in Entries
    BY <2>1, EffectUpdate
  <2> HIDE DEF u
  <2>3. safety_map' \in [Modules -> Entries \cup {Failed}] /\ safety_map'[m] # Failed
    <3>1. u # Failed /\ u \in Entries \cup {Failed}
      BY <2>2, NamesAssumption
    <3>2. safety_map' \in [Modules -> Entries \cup {Failed}] /\ safety_map'[m] = u
      BY <2>1, <3>1, EntryOrFailed
    <3> QED
      BY <3>1, <3>2
  <2>4. scope[m] \in Scopes /\ position[m] \in 1..Len(prog.effects[scope[m]])
    <3>1. scope[m] \in Scopes /\ position[m] \in DOMAIN prog.effects[scope[m]]
      BY <2>1, CurrentFacts
    <3>2. prog.effects[scope[m]] \in Seq(SafetyEffects)
      BY <1>1, <3>1 DEF IsProgram
    <3> QED
      BY <3>1, <3>2
  <2>5. position'[m] \in 1..(Len(prog.effects[scope[m]]) + 1) /\ position' \in [Modules -> Nat]
    <3>1. prog.effects[scope[m]] \in Seq(SafetyEffects)
      BY <1>1, <2>4 DEF IsProgram
    <3> QED
      BY <1>3, <2>4, <3>1 DEF CheckEffect, TypeInv, TypeOK
  <2>6. ASSUME NEW n \in Modules
        PROVE  scope'[n] # NoScope => position'[n] \in 1..(Len(Effects(n)') + 1)
    <3>1. prog' = prog /\ scope' = scope /\ (n # m => position'[n] = position[n])
      BY <1>3 DEF CheckEffect, TypeInv, TypeOK
    <3> QED
      BY <2>5, <3>1 DEF TypeInv, TypeOK, Effects
  <2>7. \A n \in Modules : n # m => safety_map'[n] = safety_map[n]
    BY <2>1, <2>2, EntryOrFailed
  <2>8. UNCHANGED <<prog, stage, left, function_safety, scope, unchecked>>
    BY <1>3 DEF CheckEffect
  <2>9. \A n \in Modules : stage' = "resolve" \/ Checking(n)' => safety_map'[n] # Failed
    BY <2>3, <2>7, <2>8 DEF TypeInv, TypeOK, Checking
  <2> QED
    BY <2>3, <2>5, <2>6, <2>8, <2>9 DEF TypeInv, TypeOK
<1>4. CASE FailEffect(m)
  <2>1. safety_map' \in [Modules -> Entries \cup {Failed}]
    BY <1>4 DEF FailEffect, TypeInv, TypeOK
  <2>2. \A n \in Modules : n \in left' => safety_map'[n] # Failed
    BY <1>4 DEF FailEffect, TypeInv, TypeOK, InEffect, Checking
  <2>3. stage' = "pass" /\ left' \subseteq Modules
    BY <1>4 DEF FailEffect, TypeInv, TypeOK, InEffect, Checking
  <2> QED
    BY <1>4, <2>1, <2>2, <2>3, TypeKept DEF FailEffect, TypeInv, TypeOK
<1>5. CASE LeaveScope(m)
  <2>1. /\ UNCHANGED <<prog, stage, left, function_safety, position, unchecked, safety_map>>
        /\ scope' = [scope EXCEPT ![m] = NoScope]
    BY <1>5 DEF LeaveScope
  <2>2. scope' \in [Modules -> Scopes \cup {NoScope}]
    BY <2>1 DEF TypeInv, TypeOK
  <2>3. ASSUME NEW n \in Modules
        PROVE  /\ scope'[n] \in prog.scopes[n] \cup {NoScope}
               /\ scope'[n] # NoScope => position[n] \in 1..(Len(Effects(n)') + 1)
               /\ unchecked[n] \subseteq prog.scopes[n] \ {scope'[n]}
    <3>1. CASE n = m
      <4>1. NoScope \notin prog.scopes[n]
        BY <1>1, NamesAssumption DEF IsProgram
      <4> QED
        BY <2>1, <3>1, <4>1 DEF TypeInv, TypeOK
    <3>2. CASE n # m
      BY <2>1, <3>2 DEF TypeInv, TypeOK, Effects
    <3> QED
      BY <3>1, <3>2
  <2> QED
    BY <2>1, <2>2, <2>3 DEF TypeInv, TypeOK, Checking
<1>6. CASE EndCheck(m)
  <2> DEFINE u == Updated(safety_map[m], [overrides |-> prog.walks[m],
                                          implicit_imports |-> prog.implicit[m]])
  <2>1. safety_map[m] \in Entries
    BY <1>6 DEF EndCheck, TypeInv, TypeOK
  <2>2. u \in Entries
    BY <1>1, <2>1, UpdatedByEnd DEF IsProgram
  <2>3. safety_map' = [safety_map EXCEPT ![m] = u]
    BY <1>6 DEF EndCheck
  <2> HIDE DEF u
  <2>4. safety_map' \in [Modules -> Entries \cup {Failed}]
    BY <2>2, <2>3, EntryOrFailed
  <2>5. stage' = "pass" /\ left' \subseteq Modules
    BY <1>6 DEF EndCheck, TypeInv, TypeOK, Checking
  <2>6. \A n \in Modules : n \in left' => safety_map'[n] # Failed
    BY <1>6, <2>2, <2>3, NamesAssumption DEF EndCheck, TypeInv, TypeOK, Checking
  <2> QED
    BY <1>6, <2>4, <2>5, <2>6, TypeKept DEF EndCheck, TypeInv, TypeOK
<1> QED
  BY <1>2, <1>3, <1>4, <1>5, <1>6 DEF CheckModule

\* Type correctness holds at first and is kept by every step.
LEMMA TypeFirst == Init => TypeInv
<1> SUFFICES ASSUME Init PROVE TypeInv
  OBVIOUS
<1>1. IsProgram(prog)
  BY ProgramsAssumption DEF Init
<1>2. EmptySafety \in Entries
  BY DEF EmptySafety, Entries
<1>3. safety_map \in [Modules -> Entries \cup {Failed}] /\ \A m \in Modules : safety_map[m] # Failed
  BY <1>2, NamesAssumption DEF Init
<1>4. /\ scope \in [Modules -> Scopes \cup {NoScope}]
      /\ position \in [Modules -> Nat]
      /\ unchecked \in [Modules -> SUBSET Scopes]
      /\ function_safety \in [DOMAIN prog.safety -> Infos]
  BY <1>1 DEF Init, IsProgram
<1>5. \A m \in Modules : scope[m] = NoScope /\ unchecked[m] \subseteq prog.scopes[m] \ {scope[m]}
  BY <1>1, NamesAssumption DEF Init, IsProgram
<1> QED
  BY <1>3, <1>4, <1>5 DEF Init, TypeInv, TypeOK

LEMMA TypeStep == TypeInv /\ [Next]_vars => TypeInv'
<1> SUFFICES ASSUME TypeInv, [Next]_vars PROVE TypeInv'
  OBVIOUS
<1>1. CASE UNCHANGED vars
  BY <1>1 DEF vars, TypeInv, TypeOK, Checking, Effects
<1> QED
  BY <1>1, WorkTypes, CheckTypes DEF Next, Done

\* Type correctness, for any programs and any number of modules at once.
THEOREM TypeCorrect == Spec => []TypeOK
<1>1. TypeInv => TypeOK
  BY DEF TypeInv
<1> QED
  BY <1>1, TypeFirst, TypeStep, PTL DEF Spec

-----------------------------------------------------------------------------
(* The write-back, and that nothing it leaves behind gets out.  A verdict   *)
(* that is written back keeps the callees it waited for; but only the whole-*)
(* program mode writes any back, and only the other one moves entries.      *)

\* What the map holds while the write-back runs, and after it.
WrittenBack(n) ==
    /\ function_safety[n].verdict =
           IF stage = "resolve" /\ n \in left THEN prog.safety[n].verdict ELSE FinalVerdict(n)
    /\ function_safety[n].missing = prog.safety[n].missing

StageInv ==
    /\ \A n \in DOMAIN prog.safety : WrittenBack(n)
    /\ stage = "move" => prog.mode = "Incremental"
    /\ stage = "register" => prog.mode = "WholeProgram"

LEMMA StageFirst == ASSUME Init PROVE StageInv
<1>1. IsProgram(prog)
  BY ProgramsAssumption DEF Init
<1>2. \A n \in DOMAIN prog.safety : WrittenBack(n)
  BY <1>1 DEF Init, WrittenBack, FinalVerdict, IsProgram
<1> QED
  BY <1>2 DEF StageInv, Init

LEMMA StageStep == TypeInv /\ StageInv /\ [Next]_vars => StageInv'
<1> SUFFICES ASSUME TypeInv, StageInv, [Next]_vars PROVE StageInv'
  OBVIOUS
<1>1. IsProgram(prog)
  BY ProgramsAssumption DEF TypeInv
<1>2. ASSUME NEW k \in DOMAIN prog.safety, WriteBack(k) PROVE StageInv'
  <2>1. /\ k \in DOMAIN prog.resolved /\ k \in left /\ left' = left \ {k}
        /\ function_safety' = [function_safety EXCEPT ![k].verdict = prog.resolved[k]]
        /\ stage = "resolve" /\ stage' = "resolve" /\ prog' = prog
    BY <1>2 DEF WriteBack, TypeInv, TypeOK
  <2>2. ASSUME NEW n \in DOMAIN prog.safety PROVE WrittenBack(n)'
    <3>1. function_safety \in [DOMAIN prog.safety -> Infos] /\ WrittenBack(n)
      BY DEF TypeInv, TypeOK, StageInv
    <3>2. CASE n = k
      <4>1. function_safety'[n] = [function_safety[n] EXCEPT !.verdict = prog.resolved[n]]
        BY <2>1, <3>1, <3>2
      <4>2. function_safety[n] \in Infos
        BY <3>1
      <4>3. /\ function_safety'[n].verdict = prog.resolved[n]
            /\ function_safety'[n].missing = function_safety[n].missing
        BY <4>1, <4>2 DEF Infos
      <4> QED
        BY <2>1, <3>1, <3>2, <4>3 DEF WrittenBack, FinalVerdict
    <3>3. CASE n # k
      BY <2>1, <3>1, <3>3 DEF WrittenBack, FinalVerdict
    <3> QED
      BY <3>2, <3>3
  <2> QED
    BY <2>1, <2>2 DEF StageInv
<1>3. CASE StartPass
  BY <1>3 DEF StartPass, StageInv, WrittenBack, FinalVerdict
<1>4. CASE FinishPass
  BY <1>4 DEF FinishPass, StageInv, WrittenBack, FinalVerdict
<1>5. ASSUME UNCHANGED <<prog, function_safety>>, stage # "resolve",
             stage' \in {stage, "done"}
      PROVE  StageInv'
  BY <1>5 DEF StageInv, WrittenBack, FinalVerdict
<1>6. ASSUME NEW n \in DOMAIN prog.safety, MoveVerdict(n) PROVE StageInv'
  BY <1>5, <1>6 DEF MoveVerdict
<1>7. CASE AttachCandidates
  BY <1>5, <1>7 DEF AttachCandidates
<1>8. ASSUME NEW m \in Modules, Register(m) PROVE StageInv'
  BY <1>5, <1>8 DEF Register
<1>9. CASE FinishRegister
  BY <1>5, <1>9 DEF FinishRegister
<1>10. ASSUME NEW m \in Modules, CheckModule(m) PROVE StageInv'
  BY <1>5, <1>10
     DEF CheckModule, EnterScope, CheckEffect, FailEffect, LeaveScope, EndCheck, InEffect, Checking
<1>11. CASE UNCHANGED vars
  BY <1>11 DEF vars, StageInv, WrittenBack, FinalVerdict
<1> QED
  BY <1>2, <1>3, <1>4, <1>6, <1>7, <1>8, <1>9, <1>10, <1>11 DEF Next, Work, Done

\* After the write-back a verdict is the final one.
LEMMA VerdictsFinal ==
    ASSUME StageInv, stage # "resolve", NEW n \in DOMAIN prog.safety
    PROVE  function_safety[n].verdict = FinalVerdict(n)
  BY DEF StageInv, WrittenBack

\* What moves is what the precompute has written.
LEMMA MovedUnchanged ==
    ASSUME TypeInv, StageInv, NEW n \in DOMAIN prog.safety, MoveVerdict(n)
    PROVE  function_safety[n] = prog.safety[n]
<1>1. IsProgram(prog) /\ stage = "move" /\ prog.mode = "Incremental"
  BY ProgramsAssumption DEF TypeInv, StageInv, MoveVerdict
<1>2. DOMAIN prog.resolved = {}
  BY <1>1 DEF IsProgram
<1>3. /\ function_safety[n].verdict = prog.safety[n].verdict
      /\ function_safety[n].missing = prog.safety[n].missing
  BY <1>1, <1>2 DEF StageInv, WrittenBack, FinalVerdict
<1>4. function_safety[n] \in Infos /\ prog.safety[n] \in Infos
  BY <1>1 DEF IsProgram, TypeInv, TypeOK
<1> QED
  BY <1>3, <1>4 DEF Infos

\* The verdicts that have moved so far, and those of them that m owns.
Moved ==
    CASE stage = "move" -> DOMAIN prog.safety \ left
      [] stage = "done" /\ prog.mode = "Incremental" -> DOMAIN prog.safety
      [] OTHER -> {}

Owned(m, names) == {<<n, prog.safety[n]>> : n \in {x \in names : prog.enclosing[x] = m}}

OwnedExact(m) ==
    safety_map[m] # Failed => safety_map[m].function_safety = Owned(m, Moved)

\* A step that moves no verdict leaves the function_safety of the entries alone.
LEMMA EntriesKept ==
    ASSUME TypeInv, [Next]_vars, ~(\E n \in DOMAIN prog.safety : MoveVerdict(n)),
           NEW m \in Modules, safety_map'[m] # Failed
    PROVE  /\ safety_map[m] # Failed
           /\ safety_map'[m].function_safety = safety_map[m].function_safety
<1>1. IsProgram(prog)
  BY ProgramsAssumption DEF TypeInv
<1>2. safety_map \in [Modules -> Entries \cup {Failed}]
  BY DEF TypeInv, TypeOK
<1>3. CASE UNCHANGED safety_map
  BY <1>3
<1>4. CASE AttachCandidates
  <2>1. safety_map'[m] = Updated(safety_map[m], [mutation_candidates |-> prog.candidates[m]])
    BY <1>4 DEF AttachCandidates
  <2>2. safety_map[m] # Failed
    BY <2>1 DEF Updated
  <2>3. prog.candidates[m] \in SUBSET Functions
    BY <1>1 DEF IsProgram
  <2> QED
    BY <1>2, <2>1, <2>2, <2>3, UpdatedByCandidates
<1>5. ASSUME NEW k \in Modules, Register(k) PROVE safety_map[m] # Failed /\
             safety_map'[m].function_safety = safety_map[m].function_safety
  <2>1. CASE safety_map[k] = Failed
    BY <1>5, <2>1 DEF Register
  <2>2. CASE safety_map[k] # Failed
    <3> PICK new, new2 : safety_map' = [safety_map EXCEPT ![k].errors = new, ![k].subclass_candidates = new2]
      BY <1>5, <2>2 DEF Register
    <3> QED
      BY <1>2, <2>2 DEF Entries
  <2> QED
    BY <2>1, <2>2
<1>6. ASSUME NEW k \in Modules, CheckEffect(k) PROVE safety_map[m] # Failed /\
             safety_map'[m].function_safety = safety_map[m].function_safety
  <2> DEFINE u == Updated(safety_map[k], EffectDelta(k, <<scope[k], position[k]>>, Current(k)))
  <2>1. InEffect(k) /\ safety_map' = [safety_map EXCEPT ![k] = u]
    BY <1>6 DEF CheckEffect
  <2>2. safety_map[k] \in Entries /\ u.function_safety = safety_map[k].function_safety
    BY <2>1, EffectUpdate
  <2> HIDE DEF u
  <2> QED
    BY <1>2, <2>1, <2>2, NamesAssumption
<1>7. ASSUME NEW k \in Modules, EndCheck(k) PROVE safety_map[m] # Failed /\
             safety_map'[m].function_safety = safety_map[m].function_safety
  <2> DEFINE u == Updated(safety_map[k], [overrides |-> prog.walks[k],
                                          implicit_imports |-> prog.implicit[k]])
  <2>1. safety_map' = [safety_map EXCEPT ![k] = u] /\ safety_map[k] \in Entries
    BY <1>7 DEF EndCheck, TypeInv, TypeOK
  <2>2. prog.walks[k] \in SUBSET Classes /\ prog.implicit[k] \in SUBSET Modules
    BY <1>1 DEF IsProgram
  <2>3. u.function_safety = safety_map[k].function_safety
    BY <2>1, <2>2, UpdatedByEnd
  <2> HIDE DEF u
  <2> QED
    BY <1>2, <2>1, <2>3, NamesAssumption
<1>8. ASSUME NEW k \in Modules, FailEffect(k) PROVE safety_map[m] # Failed /\
             safety_map'[m].function_safety = safety_map[m].function_safety
  BY <1>2, <1>8 DEF FailEffect
<1> QED
  BY <1>3, <1>4, <1>5, <1>6, <1>7, <1>8
     DEF Next, Work, CheckModule, WriteBack, StartPass, FinishPass, FinishRegister,
         EnterScope, LeaveScope, Done, vars

OwnerInv == TypeInv /\ StageInv /\ \A m \in Modules : OwnedExact(m)

LEMMA OwnerStep == OwnerInv /\ [Next]_vars => OwnerInv'
<1> SUFFICES ASSUME OwnerInv, [Next]_vars PROVE OwnerInv'
  OBVIOUS
<1>1. TypeInv' /\ StageInv' /\ TypeInv /\ StageInv /\ IsProgram(prog)
  BY TypeStep, StageStep, ProgramsAssumption DEF OwnerInv, TypeInv
<1>2. prog' = prog
  BY DEF Next, Work, CheckModule, WriteBack, StartPass, FinishPass, FinishRegister, MoveVerdict,
         AttachCandidates, Register, EnterScope, CheckEffect, FailEffect, LeaveScope, EndCheck,
         Done, vars
<1>3. \A m, names : Owned(m, names)' = Owned(m, names)
  BY <1>2 DEF Owned
<1>4. CASE ~(\E n \in DOMAIN prog.safety : MoveVerdict(n))
  <2>1. Moved' = Moved
    <3>1. CASE \/ UNCHANGED <<stage, left>>
               \/ stage = "register" /\ stage' \in {"register", "done"}
               \/ stage \in {"resolve", "pass"} /\ stage' \in {"resolve", "pass"}
      BY <1>1, <1>2, <3>1 DEF Moved, StageInv
    <3>2. CASE AttachCandidates
      <4>1. stage = "move" /\ left = {} /\ stage' = "done" /\ prog'.mode = "Incremental"
        BY <1>1, <1>2, <3>2 DEF StageInv, AttachCandidates
      <4>2. Moved = DOMAIN prog.safety
        BY <4>1 DEF Moved
      <4>3. Moved' = DOMAIN prog'.safety
        BY <4>1 DEF Moved
      <4> QED
        BY <1>2, <4>2, <4>3
    <3>3. CASE FinishPass
      <4>1. stage = "pass" /\ stage' \in {"move", "register"}
            /\ (stage' = "move" => left' = DOMAIN function_safety)
        BY <3>3 DEF FinishPass
      <4>2. DOMAIN function_safety = DOMAIN prog.safety
        BY <1>1 DEF TypeInv, TypeOK
      <4>3. Moved = {}
        BY <4>1 DEF Moved
      <4>4. Moved' = {}
        BY <1>2, <4>1, <4>2 DEF Moved
      <4> QED
        BY <4>3, <4>4
    <3> QED
      BY <1>4, <3>1, <3>2, <3>3
         DEF Next, Work, CheckModule, WriteBack, StartPass, FinishRegister, Register, EnterScope,
             CheckEffect, FailEffect, LeaveScope, EndCheck, InEffect, Checking, Done, vars
  <2> QED
    BY <1>1, <1>3, <1>4, <2>1, EntriesKept DEF OwnerInv, OwnedExact
<1>5. ASSUME NEW n \in DOMAIN prog.safety, MoveVerdict(n), NEW m \in Modules PROVE OwnedExact(m)'
  <2> DEFINE k == prog.enclosing[n]
             moved == {<<n, function_safety[n]>>}
             u == Updated(safety_map[k], [function_safety |-> moved])
  <2>1. Moved' = Moved \cup {n} /\ function_safety[n] = prog.safety[n]
    BY <1>1, <1>2, <1>5, MovedUnchanged DEF Moved, MoveVerdict
  <2>2. CASE k = NoModule \/ m # k
    <3>1. safety_map'[m] = safety_map[m]
      BY <1>1, <1>5, <2>2 DEF MoveVerdict, TypeInv, TypeOK
    <3>2. Owned(m, Moved \cup {n}) = Owned(m, Moved)
      BY <2>2, NamesAssumption DEF Owned
    <3> QED
      BY <1>3, <2>1, <3>1, <3>2 DEF OwnerInv, OwnedExact
  <2>3. CASE k # NoModule /\ m = k
    <3>1. safety_map'[m] = u
      BY <1>1, <1>5, <2>3 DEF MoveVerdict, TypeInv, TypeOK
    <3>2. CASE safety_map[m] = Failed
      BY <2>3, <3>1, <3>2 DEF Updated, OwnedExact
    <3>3. CASE safety_map[m] \in Entries
      <4>1. moved \in SUBSET ((Functions \cup Classes) \X Infos)
        BY <1>1 DEF IsProgram, TypeInv, TypeOK
      <4>2. u.function_safety = safety_map[m].function_safety \cup moved
        BY <2>3, <3>3, <4>1, UpdatedByMove
      <4>3. Owned(m, Moved \cup {n}) = Owned(m, Moved) \cup moved
        BY <2>1, <2>3 DEF Owned
      <4>4. safety_map[m] # Failed
        BY <3>3, NamesAssumption
      <4> HIDE DEF u, moved
      <4> QED
        BY <1>3, <2>1, <3>1, <4>2, <4>3, <4>4 DEF OwnerInv, OwnedExact
    <3> QED
      BY <1>1, <3>2, <3>3 DEF TypeInv, TypeOK
  <2> QED
    BY <2>2, <2>3
<1> QED
  BY <1>1, <1>4, <1>5 DEF OwnerInv

LEMMA OwnerFirst == Init => OwnerInv
<1> SUFFICES ASSUME Init PROVE OwnerInv
  OBVIOUS
<1>1. \A m \in Modules : safety_map[m].function_safety = {}
  BY DEF Init, EmptySafety
<1>2. Moved = {}
  BY DEF Init, Moved
<1> QED
  BY <1>1, <1>2, TypeFirst, StageFirst DEF OwnerInv, OwnedExact, Owned

\* No entry that leaves the pass carries callees that no verdict of it waits for,
\* or a verdict that waits for nobody, in either mode.
THEOREM NoLeftoverLeaves == Spec => []NoStaleCallees
<1>1. OwnerInv => NoStaleCallees
  <2> SUFFICES ASSUME OwnerInv, NEW m \in Modules, safety_map[m] # Failed,
                      NEW f \in safety_map[m].function_safety
               PROVE  ("MissingDep" \in f[2].verdict) = (f[2].missing # {})
    BY DEF OwnerInv, TypeInv, NoStaleCallees
  <2>1. IsProgram(prog) /\ Moved \subseteq DOMAIN prog.safety
    BY ProgramsAssumption DEF OwnerInv, TypeInv, Moved
  <2>2. PICK n \in DOMAIN prog.safety : f = <<n, prog.safety[n]>>
    BY <2>1 DEF OwnerInv, OwnedExact, Owned
  <2> QED
    BY <2>1, <2>2 DEF IsProgram
<1> QED
  BY <1>1, OwnerFirst, OwnerStep, PTL DEF Spec

-----------------------------------------------------------------------------
(* The search of inherits_from finds what a path of bases leads to.         *)

LEMMA SmallestNumber ==
    ASSUME NEW T, T \subseteq Nat, T # {}
    PROVE  \E n \in T : \A m \in T : n <= m
<1> DEFINE R == OpToRel(<, Nat)
<1>1. IsWellFoundedOn(R, Nat)
  BY NatLessThanWellFounded
<1>2. \A a, b \in Nat : a < b => <<a, b>> \in R
  BY DEF OpToRel
<1> HIDE DEF R
<1>3. PICK n \in T : \A m \in T : <<m, n>> \notin R
  BY <1>1, WFMin
<1>4. ASSUME NEW m \in T PROVE n <= m
  <2>1. m \in Nat /\ n \in Nat /\ ~(m < n)
    BY <1>2, <1>3
  <2> QED
    BY <2>1
<1> QED
  BY <1>4

\* k steps from a class to one of its bases' bases.
Paths(class, base, k) ==
    {path \in [0..k -> Classes] :
        /\ path[0] = class
        /\ path[k] = base
        /\ \A i \in 1..k : path[i] \in prog.bases[path[i - 1]]}

\* A path stays in every set that the search may end with.
LEMMA PathsAreSearched ==
    ASSUME IsProgram(prog), NEW class \in Classes, NEW base \in Classes,
           NEW k \in Nat \ {0}, NEW path \in Paths(class, base, k)
    PROVE  base \in Ancestors(class)
<1> SUFFICES ASSUME NEW seen \in SUBSET Classes, prog.bases[class] \subseteq seen,
                    \A c \in seen : prog.bases[c] \subseteq seen
             PROVE  base \in seen
  BY DEF Ancestors
<1> DEFINE missed == {i \in 1..k : path[i] \notin seen}
<1>1. \A i \in 1..k : path[i] \in prog.bases[path[i - 1]] /\ path[i - 1] \in Classes
  BY DEF Paths
<1>2. ASSUME missed # {} PROVE FALSE
  <2>1. PICK i \in missed : \A j \in missed : i <= j
    <3>1. missed \subseteq Nat
      OBVIOUS
    <3> HIDE DEF missed
    <3> QED
      BY <1>2, <3>1, SmallestNumber
  <2>2. CASE i = 1
    <3>1. path[i - 1] = class
      BY <2>2 DEF Paths
    <3>2. path[i] \in prog.bases[class]
      BY <1>1, <2>1, <3>1
    <3> QED
      BY <2>1, <3>2
  <2>3. CASE i # 1
    <3>1. i - 1 \in 1..k /\ i - 1 \notin missed
      BY <2>1, <2>3
    <3>2. path[i - 1] \in seen
      BY <3>1
    <3> QED
      BY <1>1, <2>1, <3>2
  <2> QED
    BY <2>2, <2>3
<1>3. k \in 1..k /\ path[k] = base
  BY DEF Paths
<1> QED
  BY <1>2, <1>3

\* A path that visits a class twice can do without the detour.
LEMMA DetourRemoved ==
    ASSUME IsProgram(prog), NEW class \in Classes, NEW base \in Classes,
           NEW k \in Nat \ {0}, NEW path \in Paths(class, base, k),
           NEW i \in 1..k, NEW j \in 1..k, i < j, path[i] = path[j]
    PROVE  Paths(class, base, k - (j - i)) # {} /\ k - (j - i) \in 1..k
<1> DEFINE d == j - i
           short == [n \in 0..(k - d) |-> IF n <= i THEN path[n] ELSE path[n + d]]
<1>1. d \in 1..k /\ k - d \in 1..k /\ i <= k - d
  OBVIOUS
<1>2. path \in [0..k -> Classes]
  BY DEF Paths
<1>3. \A n \in 0..(k - d) : n \in 0..k /\ n + d \in 0..k
  BY <1>1
<1>4. short \in [0..(k - d) -> Classes]
  BY <1>2, <1>3
<1>5. short[0] = class
  BY <1>1 DEF Paths
<1>6. short[k - d] = base
  <2>1. CASE k - d = i
    <3>1. k = j
      BY <2>1
    <3> QED
      BY <1>1, <2>1, <3>1 DEF Paths
  <2>2. CASE k - d # i
    <3>1. k - d + d = k /\ ~(k - d <= i) /\ k - d \in 0..(k - d)
      BY <1>1, <2>2
    <3> QED
      BY <3>1 DEF Paths
  <2> QED
    BY <2>1, <2>2
<1>7. ASSUME NEW n \in 1..(k - d) PROVE short[n] \in prog.bases[short[n - 1]]
  <2>1. \A m \in 1..k : path[m] \in prog.bases[path[m - 1]]
    BY DEF Paths
  <2>2. CASE n <= i
    <3>1. short[n] = path[n] /\ short[n - 1] = path[n - 1] /\ n \in 1..k
      BY <1>1, <2>2
    <3> QED
      BY <2>1, <3>1
  <2>3. CASE n = i + 1
    <3>1. short[n] = path[j + 1] /\ short[n - 1] = path[i] /\ j + 1 \in 1..k /\ j + 1 - 1 = j
      BY <1>1, <2>3
    <3> QED
      BY <2>1, <3>1
  <2>4. CASE n > i + 1
    <3>1. /\ short[n] = path[n + d] /\ short[n - 1] = path[n - 1 + d]
          /\ n + d \in 1..k /\ n + d - 1 = n - 1 + d
      BY <1>1, <2>4
    <3> QED
      BY <2>1, <3>1
  <2> QED
    BY <2>2, <2>3, <2>4
<1> HIDE DEF short
<1>8. short \in Paths(class, base, k - d)
  BY <1>4, <1>5, <1>6, <1>7 DEF Paths
<1> QED
  BY <1>1, <1>8

\* A shortest path visits no class twice, so there are no more steps than classes.
LEMMA ShortPaths ==
    ASSUME IsProgram(prog), NEW class \in Classes, NEW base \in Classes,
           \E k \in Nat \ {0} : Paths(class, base, k) # {}
    PROVE  DerivesFrom(class, base)
<1> DEFINE lengths == {k \in Nat \ {0} : Paths(class, base, k) # {}}
<1>1. PICK k \in lengths : \A m \in lengths : k <= m
  BY SmallestNumber
<1>2. PICK path : path \in Paths(class, base, k)
  BY <1>1
<1>3. k \in Nat \ {0} /\ path \in [0..k -> Classes]
  BY <1>1, <1>2 DEF Paths
<1>4. IsFiniteSet(Classes) /\ Cardinality(Classes) \in Nat
  BY ClassesAssumption, FS_CardinalityType
<1>5. IsFiniteSet(1..k) /\ Cardinality(1..k) = k
  BY <1>3, FS_Interval
<1>6. k <= Cardinality(Classes)
  <2> SUFFICES ASSUME Cardinality(Classes) < k PROVE FALSE
    BY <1>3, <1>4
  <2> DEFINE tail == [i \in 1..k |-> path[i]]
  <2>1. tail \in [1..k -> Classes]
    BY <1>3
  <2>2. \E x, y \in 1..k : x # y /\ tail[x] = tail[y]
    <3> HIDE DEF tail
    <3> QED
      BY <1>4, <1>5, <2>1, FS_PigeonHole
  <2>3. PICK i \in 1..k, j \in 1..k : i < j /\ path[i] = path[j]
    <3>1. PICK x \in 1..k, y \in 1..k : x # y /\ tail[x] = tail[y]
      BY <2>2
    <3>2. path[x] = path[y] /\ (x < y \/ y < x)
      BY <1>3, <3>1
    <3> QED
      BY <3>2
  <2>4. k - (j - i) \in lengths
    BY <1>2, <1>3, <2>3, DetourRemoved
  <2> QED
    BY <1>1, <1>3, <2>3, <2>4
<1>7. k \in 1..Cardinality(Classes)
  BY <1>3, <1>4, <1>6
<1> QED
  BY <1>2, <1>7 DEF DerivesFrom, Paths

LEMMA AncestorsAreDerived ==
    ASSUME IsProgram(prog), NEW class \in Classes, NEW base \in Classes
    PROVE  base \in Ancestors(class) <=> DerivesFrom(class, base)
<1>1. ASSUME DerivesFrom(class, base) PROVE base \in Ancestors(class)
  <2>1. PICK k \in 1..Cardinality(Classes) : Paths(class, base, k) # {}
    BY <1>1 DEF DerivesFrom, Paths
  <2>2. k \in Nat \ {0}
    BY ClassesAssumption, FS_CardinalityType
  <2> QED
    BY <2>1, <2>2, PathsAreSearched
<1>2. ASSUME base \in Ancestors(class) PROVE DerivesFrom(class, base)
  <2> DEFINE reached == {b \in Classes : \E k \in Nat \ {0} : Paths(class, b, k) # {}}
  <2>1. prog.bases[class] \subseteq reached
    <3> SUFFICES ASSUME NEW b \in prog.bases[class] PROVE b \in reached
      OBVIOUS
    <3> DEFINE step == [i \in 0..1 |-> IF i = 0 THEN class ELSE b]
    <3>1. b \in Classes
      BY DEF IsProgram
    <3>2. step \in Paths(class, b, 1)
      BY <3>1 DEF Paths
    <3> QED
      BY <3>1, <3>2
  <2>2. ASSUME NEW c \in reached, NEW b \in prog.bases[c] PROVE b \in reached
    <3>1. PICK k \in Nat \ {0} : Paths(class, c, k) # {}
      BY <2>2
    <3>2. PICK path : path \in Paths(class, c, k)
      BY <3>1
    <3>3. b \in Classes
      BY <2>2 DEF IsProgram
    <3> DEFINE longer == [i \in 0..(k + 1) |-> IF i <= k THEN path[i] ELSE b]
    <3>4. longer \in [0..(k + 1) -> Classes]
      BY <3>2, <3>3 DEF Paths
    <3>5. longer[0] = class /\ longer[k + 1] = b
      BY <3>2 DEF Paths
    <3>6. ASSUME NEW i \in 1..(k + 1) PROVE longer[i] \in prog.bases[longer[i - 1]]
      <4>1. CASE i <= k
        <5>1. longer[i] = path[i] /\ longer[i - 1] = path[i - 1] /\ i \in 1..k
          BY <4>1
        <5> QED
          BY <3>2, <5>1 DEF Paths
      <4>2. CASE ~(i <= k)
        <5>1. i = k + 1 /\ longer[i] = b /\ longer[i - 1] = path[k] /\ path[k] = c
          BY <3>2, <4>2 DEF Paths
        <5> QED
          BY <2>2, <5>1
      <4> QED
        BY <4>1, <4>2
    <3> HIDE DEF longer
    <3>7. longer \in Paths(class, b, k + 1)
      BY <3>4, <3>5, <3>6 DEF Paths
    <3> QED
      BY <3>3, <3>7
  <2> HIDE DEF reached
  <2>3. reached \subseteq Classes
    BY DEF reached
  <2>4. base \in reached
    BY <1>2, <2>1, <2>2, <2>3 DEF Ancestors
  <2> QED
    BY <2>4, ShortPaths DEF reached
<1> QED
  BY <1>1, <1>2

-----------------------------------------------------------------------------
(* Every entry holds what the effects that its module's check has passed    *)
(* give, whatever the order of the scopes and whichever modules run.        *)

\* The effects of m that are behind its check.
Passed(m) ==
    {id \in EffectIds(m) : id[1] \notin unchecked[m] /\ (id[1] = scope[m] => id[2] < position[m])}

ErrorsOf(m, ids) == UNION {{<<id, r>> : r \in Reasons(m, EffectOf(id))} : id \in ids}

Created(ids) == {EffectOf(id).class : id \in {x \in ids : EffectOf(x).kind = "creation"}}

Registered(m) == stage = "done" \/ (stage = "register" /\ m \notin left)

EntryExact(m) ==
    IF safety_map[m] = Failed THEN m \in FailingModules
    ELSE /\ \A id \in Passed(m) : ~CheckFails(EffectOf(id))
         /\ safety_map[m].errors =
                ErrorsOf(m, Passed(m)) \cup (IF Registered(m) THEN RegistrationErrors[m] ELSE {})
         /\ ~Registered(m) => safety_map[m].subclass_candidates = Created(Passed(m))
         /\ ~Decided(m) => safety_map[m].overrides = {}
         /\ Decided(m) => /\ scope[m] = NoScope /\ unchecked[m] = {}
                          /\ safety_map[m].overrides = prog.walks[m]

PassInv == TypeInv /\ StageInv /\ \A m \in Modules : EntryExact(m)

\* Facts of the program.
LEMMA FactsKept ==
    ASSUME prog' = prog
    PROVE  /\ FailingModules' = FailingModules
           /\ LocalErrors' = LocalErrors
           /\ RegistrationErrors' = RegistrationErrors
           /\ \A m \in Modules : EffectIds(m)' = EffectIds(m)
           /\ \A m \in Modules : \A ids : ErrorsOf(m, ids)' = ErrorsOf(m, ids)
           /\ \A ids : Created(ids)' = Created(ids)
           /\ \A id : EffectOf(id)' = EffectOf(id)
           /\ \A e : CheckFails(e)' = CheckFails(e)
<1>1. \A id : EffectOf(id)' = EffectOf(id)
  BY DEF EffectOf
<1>2. \A m \in Modules : EffectIds(m)' = EffectIds(m)
  BY DEF EffectIds
<1>3. \A e : CheckFails(e)' = CheckFails(e)
  BY DEF CheckFails, Runnable
<1>4. \A ids : Created(ids)' = Created(ids)
  BY <1>1 DEF Created
<1>5. \A m, f : MayRun(m, f)' = MayRun(m, f)
  BY DEF MayRun, FinalVerdict
<1>6. \A e : Checked(e)' = Checked(e) /\ Runnable(e)' = Runnable(e)
  BY DEF Checked, Runnable
<1>7. \A m, e : Reasons(m, e)' = Reasons(m, e)
  BY <1>5, <1>6 DEF Reasons
<1>8. \A m \in Modules : \A ids : ErrorsOf(m, ids)' = ErrorsOf(m, ids)
  BY <1>1, <1>7 DEF ErrorsOf
<1>9. FailingModules' = FailingModules
  BY <1>1, <1>2, <1>3 DEF FailingModules
<1>10. LocalErrors' = LocalErrors
  BY <1>1, <1>2, <1>7 DEF LocalErrors
<1>11. \A c, b : DerivesFrom(c, b)' = DerivesFrom(c, b)
  BY DEF DerivesFrom
<1>12. RegistrationErrors' = RegistrationErrors
  BY <1>1, <1>2, <1>9, <1>11 DEF RegistrationErrors
<1> QED
  BY <1>1, <1>2, <1>3, <1>4, <1>8, <1>9, <1>10, <1>12

\* The errors that a check publishes are the reasons of the effect, once the
\* verdicts are final.
LEMMA ErrorsAreReasons ==
    ASSUME TypeInv, StageInv, stage # "resolve", NEW m \in Modules, NEW e \in SafetyEffects
    PROVE  EffectErrors(m, e) = Reasons(m, e)
<1>1. IsProgram(prog)
  BY ProgramsAssumption DEF TypeInv
<1>2. ASSUME NEW f \in Functions PROVE BodySafe(m, f) <=> MayRun(m, f)
  <2>1. f \in DOMAIN prog.safety
    BY <1>1 DEF IsProgram
  <2>2. function_safety[f].verdict = FinalVerdict(f) /\ function_safety[f].verdict \subseteq Bits
    BY <2>1, VerdictsFinal DEF TypeInv, TypeOK, Infos
  <2> QED
    BY <2>2 DEF BodySafe, MayRun, Bits
<1>3. ASSUME NEW c \in e.callees
      PROVE  CalleeErrors(m, e, c) =
                 (IF ~c.known THEN {"Unknown"} ELSE {})
                 \cup (IF c \in Checked(e) /\ e.mutates /\ c.bodies # {} THEN {"ImportedArgument"} ELSE {})
                 \cup (IF c \in Checked(e) /\ \E f \in c.bodies : ~MayRun(m, f) THEN {"UnsafeCall"} ELSE {})
  <2>1. c.bodies \subseteq Functions
    BY DEF SafetyEffects, Callees
  <2>2. (\A f \in c.bodies : BodySafe(m, f)) <=> ~(\E f \in c.bodies : ~MayRun(m, f))
    BY <1>2, <2>1
  <2> QED
    BY <2>2 DEF CalleeErrors, Checked
<1>4. UNION {CalleeErrors(m, e, c) : c \in e.callees} =
          (IF \E c \in e.callees : ~c.known THEN {"Unknown"} ELSE {})
          \cup (IF e.mutates /\ \E c \in Checked(e) : c.bodies # {} THEN {"ImportedArgument"} ELSE {})
          \cup (IF \E c \in Checked(e) : \E f \in c.bodies : ~MayRun(m, f) THEN {"UnsafeCall"} ELSE {})
  <2>1. Checked(e) \subseteq e.callees
    BY DEF Checked
  <2> QED
    BY <1>3, <2>1
<1>5. CASE e.kind = "error"
  BY <1>5 DEF EffectErrors, Reasons, Runnable
<1>6. CASE e.kind = "mutation"
  BY <1>6 DEF EffectErrors, Reasons, Runnable
<1>7. CASE Runnable(e)
  BY <1>4, <1>7 DEF EffectErrors, Reasons, Runnable
<1>8. CASE e.kind \notin {"error", "mutation"} /\ ~Runnable(e)
  BY <1>8 DEF EffectErrors, Reasons, Runnable
<1> QED
  BY <1>5, <1>6, <1>7, <1>8

LEMMA PassedFacts ==
    ASSUME TypeInv, NEW m \in Modules
    PROVE  /\ Passed(m) \subseteq EffectIds(m)
           /\ scope[m] = NoScope /\ unchecked[m] = {} => Passed(m) = EffectIds(m)
           /\ \A id \in EffectIds(m) :
                 /\ id = <<id[1], id[2]>> /\ id[1] \in Scopes
                 /\ id[2] \in 1..Len(prog.effects[id[1]]) /\ Len(prog.effects[id[1]]) \in Nat
<1>1. IsProgram(prog)
  BY ProgramsAssumption DEF TypeInv
<1>2. ASSUME NEW id \in EffectIds(m)
      PROVE  /\ id = <<id[1], id[2]>> /\ id[1] \in Scopes
             /\ id[2] \in 1..Len(prog.effects[id[1]]) /\ Len(prog.effects[id[1]]) \in Nat
  <2>1. PICK s \in prog.scopes[m] : id \in {s} \X DOMAIN prog.effects[s]
    BY DEF EffectIds
  <2>2. s \in Scopes /\ prog.effects[s] \in Seq(SafetyEffects)
    BY <1>1 DEF IsProgram
  <2> QED
    BY <2>1, <2>2
<1> QED
  BY <1>2, NamesAssumption DEF Passed

LEMMA PassedKept ==
    ASSUME prog' = prog, NEW m \in Modules, scope'[m] = scope[m],
           position'[m] = position[m], unchecked'[m] = unchecked[m]
    PROVE  Passed(m)' = Passed(m)
  BY FactsKept DEF Passed

\* A module that a step leaves alone.
LEMMA EntryKept ==
    ASSUME prog' = prog, NEW m \in Modules, EntryExact(m), scope'[m] = scope[m],
           position'[m] = position[m], unchecked'[m] = unchecked[m],
           safety_map'[m] = safety_map[m],
           Decided(m)' <=> Decided(m), Registered(m)' <=> Registered(m)
    PROVE  EntryExact(m)'
<1>1. Passed(m)' = Passed(m)
  BY PassedKept
<1>2. \A ids : ErrorsOf(m, ids)' = ErrorsOf(m, ids) /\ Created(ids)' = Created(ids)
  BY FactsKept
<1>3. (FailingModules' = FailingModules) /\ RegistrationErrors' = RegistrationErrors
  BY FactsKept
<1>4. \A id : CheckFails(EffectOf(id))' = CheckFails(EffectOf(id))
  BY FactsKept
<1> QED
  BY <1>1, <1>2, <1>3, <1>4 DEF EntryExact

\* The check of one effect.
LEMMA EffectChecked ==
    ASSUME PassInv, NEW m \in Modules, CheckEffect(m) PROVE EntryExact(m)'
<1> DEFINE id == <<scope[m], position[m]>>
           u == Updated(safety_map[m], EffectDelta(m, id, Current(m)))
<1>1. TypeInv /\ StageInv /\ EntryExact(m) /\ prog' = prog
  BY DEF PassInv, CheckEffect
<1>2. /\ InEffect(m) /\ ~CheckFails(Current(m)) /\ stage = "pass" /\ m \in left
      /\ safety_map'[m] = u
      /\ UNCHANGED <<prog, stage, left, scope, unchecked>>
      /\ position'[m] = position[m] + 1
  BY <1>1 DEF CheckEffect, InEffect, Checking, TypeInv, TypeOK
<1>3. /\ Current(m) \in SafetyEffects
      /\ scope[m] \in prog.scopes[m] /\ id \in EffectIds(m) /\ EffectOf(id) = Current(m)
  BY <1>1, <1>2, CurrentFacts
<1>4. /\ u.errors = safety_map[m].errors \cup {<<id, kind>> : kind \in EffectErrors(m, Current(m))}
      /\ u.subclass_candidates = safety_map[m].subclass_candidates
              \cup (IF Current(m).kind = "creation" THEN {Current(m).class} ELSE {})
      /\ u.overrides = safety_map[m].overrides
      /\ u \in Entries /\ safety_map[m] \in Entries
  BY <1>1, <1>2, EffectUpdate
<1> HIDE DEF u
<1>5. safety_map[m] # Failed /\ u # Failed /\ ~Decided(m) /\ ~Registered(m)
  BY <1>2, <1>4, NamesAssumption DEF Decided, Registered
<1>6. ~Decided(m)' /\ ~Registered(m)'
  BY <1>2, <1>5 DEF Decided, Registered
<1>7. EffectErrors(m, Current(m)) = Reasons(m, EffectOf(id))
  BY <1>1, <1>2, <1>3, ErrorsAreReasons
<1>8. Passed(m)' = Passed(m) \cup {id}
  <2>1. scope[m] \notin unchecked[m] /\ position[m] \in Nat
    BY <1>1 DEF TypeInv, TypeOK
  <2>2. EffectIds(m)' = EffectIds(m)
    BY <1>2, FactsKept
  <2>3. \A x \in EffectIds(m) : x = <<x[1], x[2]>> /\ x[2] \in Nat
    BY <1>1, PassedFacts
  <2>4. ASSUME NEW x \in EffectIds(m)
        PROVE  (x[1] = scope[m] => x[2] < position[m] + 1) <=>
                   ((x[1] = scope[m] => x[2] < position[m]) \/ x = id)
    <3>1. x = <<x[1], x[2]>> /\ x[2] \in Nat
      BY <2>3
    <3>2. x[2] < position[m] + 1 <=> (x[2] < position[m] \/ x[2] = position[m])
      BY <2>1, <3>1
    <3> QED
      BY <3>1, <3>2
  <2> QED
    BY <1>2, <1>3, <2>1, <2>2, <2>4 DEF Passed
<1> DEFINE ids == Passed(m)
<1>9. ErrorsOf(m, ids \cup {id}) = ErrorsOf(m, ids) \cup {<<id, r>> : r \in Reasons(m, EffectOf(id))}
  BY DEF ErrorsOf
<1>10. Created(ids \cup {id}) =
         Created(ids) \cup (IF EffectOf(id).kind = "creation" THEN {EffectOf(id).class} ELSE {})
  BY DEF Created
<1> HIDE DEF ids
<1>11. /\ \A x \in ids : ~CheckFails(EffectOf(x))
       /\ safety_map[m].errors = ErrorsOf(m, ids)
       /\ safety_map[m].subclass_candidates = Created(ids)
       /\ safety_map[m].overrides = {}
  BY <1>1, <1>5 DEF EntryExact, ids
<1>12. Passed(m)' = ids \cup {id}
  BY <1>8 DEF ids
<1>13. /\ \A x \in ids \cup {id} : ~CheckFails(EffectOf(x))
       /\ safety_map'[m].errors = ErrorsOf(m, ids \cup {id})
       /\ safety_map'[m].subclass_candidates = Created(ids \cup {id})
       /\ safety_map'[m].overrides = {}
  BY <1>2, <1>3, <1>4, <1>7, <1>9, <1>10, <1>11
<1>14. /\ \A x : ErrorsOf(m, x)' = ErrorsOf(m, x) /\ Created(x)' = Created(x)
       /\ \A x : CheckFails(EffectOf(x))' = CheckFails(EffectOf(x))
  BY <1>2, FactsKept
<1>15. /\ \A x \in Passed(m)' : ~CheckFails(EffectOf(x))'
       /\ safety_map'[m].errors = ErrorsOf(m, Passed(m))'
       /\ safety_map'[m].subclass_candidates = Created(Passed(m))'
  BY <1>12, <1>13, <1>14
<1> QED
  BY <1>2, <1>5, <1>6, <1>13, <1>15 DEF EntryExact

LEMMA ScopeEntered ==
    ASSUME PassInv, NEW m \in Modules, NEW s \in Scopes, EnterScope(m, s)
    PROVE  Passed(m)' = Passed(m)
<1>1. TypeInv /\ scope[m] = NoScope /\ s \in unchecked[m] /\ EffectIds(m)' = EffectIds(m)
  BY FactsKept DEF PassInv, EnterScope
<1>2. scope'[m] = s /\ position'[m] = 1 /\ unchecked'[m] = unchecked[m] \ {s}
  BY <1>1 DEF EnterScope, TypeInv, TypeOK
<1>3. \A id \in EffectIds(m) : id[1] # NoScope /\ id[2] \in Nat /\ ~(id[2] < 1)
  BY <1>1, PassedFacts, NamesAssumption
<1> QED
  BY <1>1, <1>2, <1>3 DEF Passed

LEMMA ScopeLeft ==
    ASSUME PassInv, NEW m \in Modules, LeaveScope(m)
    PROVE  Passed(m)' = Passed(m)
<1>1. TypeInv /\ scope[m] # NoScope /\ position[m] > Len(Effects(m)) /\ EffectIds(m)' = EffectIds(m)
  BY FactsKept DEF PassInv, LeaveScope
<1>2. scope'[m] = NoScope /\ unchecked'[m] = unchecked[m] /\ position[m] \in Nat
  BY <1>1 DEF LeaveScope, TypeInv, TypeOK
<1>3. \A id \in EffectIds(m) :
        id[1] # NoScope /\ id[2] \in Nat /\ (id[1] = scope[m] => id[2] <= Len(Effects(m)))
  BY <1>1, PassedFacts, NamesAssumption DEF Effects
<1>4. \A id \in EffectIds(m) : Len(prog.effects[id[1]]) \in Nat
  BY <1>1, PassedFacts
<1>5. ASSUME NEW id \in EffectIds(m), id[1] = scope[m] PROVE id[2] < position[m]
  <2>1. Len(Effects(m)) \in Nat /\ id[2] <= Len(Effects(m)) /\ id[2] \in Nat
    BY <1>3, <1>4, <1>5 DEF Effects
  <2> QED
    BY <1>1, <1>2, <2>1
<1> QED
  BY <1>1, <1>2, <1>3, <1>5 DEF Passed

\* An entry whose passed effects, errors, candidates and bases stay.
LEMMA EntrySame ==
    ASSUME prog' = prog, NEW m \in Modules, EntryExact(m), safety_map[m] # Failed,
           safety_map'[m] # Failed,
           Passed(m)' = Passed(m),
           safety_map'[m].errors = safety_map[m].errors,
           safety_map'[m].subclass_candidates = safety_map[m].subclass_candidates,
           Registered(m)' <=> Registered(m),
           ~Decided(m)' => safety_map'[m].overrides = {},
           Decided(m)' => /\ scope'[m] = NoScope /\ unchecked'[m] = {}
                          /\ safety_map'[m].overrides = prog.walks[m]
    PROVE  EntryExact(m)'
<1>1. /\ \A ids : ErrorsOf(m, ids)' = ErrorsOf(m, ids) /\ Created(ids)' = Created(ids)
      /\ RegistrationErrors' = RegistrationErrors
      /\ \A id : CheckFails(EffectOf(id))' = CheckFails(EffectOf(id))
  BY FactsKept
<1> QED
  BY <1>1 DEF EntryExact

LEMMA CheckExact ==
    ASSUME PassInv, NEW m \in Modules, CheckModule(m)
    PROVE  \A n \in Modules : EntryExact(n)'
<1>1. /\ TypeInv /\ StageInv /\ IsProgram(prog) /\ prog' = prog
      /\ stage = "pass" /\ stage' = "pass" /\ m \in left
      /\ safety_map[m] \in Entries /\ safety_map[m] # Failed
      /\ EntryExact(m)
  BY ProgramsAssumption, NamesAssumption
     DEF PassInv, TypeInv, TypeOK, CheckModule, EnterScope, CheckEffect, FailEffect, LeaveScope,
         EndCheck, InEffect, Checking
<1>2. ~Decided(m) /\ \A n \in Modules : ~Registered(n) /\ ~Registered(n)'
  BY <1>1 DEF Decided, Registered
<1>3. safety_map[m].overrides = {}
  BY <1>1, <1>2 DEF EntryExact
<1>4. ASSUME NEW n \in Modules, n # m PROVE EntryExact(n)'
  <2>1. /\ scope'[n] = scope[n] /\ position'[n] = position[n] /\ unchecked'[n] = unchecked[n]
        /\ safety_map'[n] = safety_map[n] /\ (n \in left' <=> n \in left)
    BY <1>1, <1>4 DEF TypeInv, TypeOK, CheckModule, EnterScope, CheckEffect, FailEffect, LeaveScope,
         EndCheck, checks
  <2>2. (Decided(n)' <=> Decided(n)) /\ (Registered(n)' <=> Registered(n))
    BY <1>1, <1>2, <2>1 DEF Decided
  <2> QED
    BY <1>1, <2>1, <2>2, EntryKept DEF PassInv
<1>5. ASSUME NEW s \in Scopes, EnterScope(m, s) PROVE EntryExact(m)'
  <2>1. Passed(m)' = Passed(m)
    BY <1>5, ScopeEntered
  <2>2. safety_map' = safety_map /\ ~Decided(m)'
    BY <1>1, <1>5 DEF EnterScope, Decided
  <2> QED
    BY <1>1, <1>2, <1>3, <2>1, <2>2, EntrySame
<1>6. CASE CheckEffect(m)
  BY <1>4, <1>6, EffectChecked
<1>7. CASE FailEffect(m)
  <2>1. <<scope[m], position[m]>> \in EffectIds(m)
        /\ CheckFails(EffectOf(<<scope[m], position[m]>>))
    BY <1>1, <1>7, CurrentFacts DEF FailEffect
  <2>2. m \in FailingModules
    BY <2>1 DEF FailingModules
  <2>3. safety_map'[m] = Failed /\ FailingModules' = FailingModules
    BY <1>1, <1>7, FactsKept DEF FailEffect, TypeInv, TypeOK
  <2> QED
    BY <1>4, <2>2, <2>3 DEF EntryExact
<1>8. CASE LeaveScope(m)
  <2>1. Passed(m)' = Passed(m)
    BY <1>8, ScopeLeft
  <2>2. safety_map' = safety_map /\ ~Decided(m)'
    BY <1>1, <1>8 DEF LeaveScope, Decided
  <2> QED
    BY <1>1, <1>2, <1>3, <1>4, <2>1, <2>2, EntrySame
<1>9. CASE EndCheck(m)
  <2> DEFINE u == Updated(safety_map[m], [overrides |-> prog.walks[m],
                                          implicit_imports |-> prog.implicit[m]])
  <2>1. prog.walks[m] \in SUBSET Classes /\ prog.implicit[m] \in SUBSET Modules
    BY <1>1 DEF IsProgram
  <2>2. /\ u \in Entries
        /\ u.errors = safety_map[m].errors
        /\ u.subclass_candidates = safety_map[m].subclass_candidates
        /\ u.overrides = safety_map[m].overrides \cup prog.walks[m]
    <3>1. safety_map[m] \in Entries
      BY <1>1
    <3>2. PICK walked \in SUBSET Classes : walked = prog.walks[m]
      BY <2>1
    <3>3. PICK imports \in SUBSET Modules : imports = prog.implicit[m]
      BY <2>1
    <3>4. u = Updated(safety_map[m], [overrides |-> walked, implicit_imports |-> imports])
      BY <3>2, <3>3
    <3> HIDE DEF u
    <3> QED
      BY <3>1, <3>2, <3>4, UpdatedByEnd
  <2>3. safety_map'[m] = u
    BY <1>1, <1>9 DEF EndCheck, TypeInv, TypeOK
  <2> HIDE DEF u
  <2>4. /\ UNCHANGED checks /\ scope[m] = NoScope /\ unchecked[m] = {}
    BY <1>9 DEF EndCheck
  <2>5. Passed(m)' = Passed(m)
    BY <1>1, <2>4, PassedKept DEF checks
  <2>6. Decided(m)'
    BY <1>1, <1>9 DEF EndCheck, Decided
  <2>7. safety_map'[m].overrides = prog.walks[m] /\ safety_map'[m] # Failed
    BY <1>3, <2>2, <2>3, NamesAssumption
  <2>8. scope'[m] = NoScope /\ unchecked'[m] = {}
    BY <2>4 DEF checks
  <2>9. EntryExact(m)'
    BY <1>1, <1>2, <2>2, <2>3, <2>5, <2>6, <2>7, <2>8, EntrySame
  <2> QED
    BY <1>4, <2>9
<1> QED
  BY <1>4, <1>5, <1>6, <1>7, <1>8, <1>9 DEF CheckModule

\* Once all modules are decided, exactly those with a failing scope have failed.
LEMMA DecidedExact ==
    ASSUME PassInv, NEW m \in Modules, Decided(m)
    PROVE  /\ safety_map[m] = Failed <=> m \in FailingModules
           /\ safety_map[m] # Failed => Passed(m) = EffectIds(m)
<1>1. EntryExact(m) /\ TypeInv
  BY DEF PassInv
<1>2. safety_map[m] # Failed => Passed(m) = EffectIds(m)
  BY <1>1, PassedFacts DEF EntryExact
<1> QED
  BY <1>1, <1>2 DEF EntryExact, FailingModules

\* Who walks a base is a fact of the program when all modules are decided.
LEMMA WalkersAre ==
    ASSUME PassInv, \A m \in Modules : Decided(m), NEW base
    PROVE  Walkers(base) = {m \in Modules \ FailingModules : base \in prog.walks[m]}
<1> SUFFICES ASSUME NEW m \in Modules
             PROVE  (safety_map[m] # Failed /\ base \in safety_map[m].overrides)
                    <=> (m \notin FailingModules /\ base \in prog.walks[m])
  BY DEF Walkers
<1>1. EntryExact(m)
  BY DEF PassInv
<1> QED
  BY <1>1, DecidedExact DEF EntryExact

\* The registration errors that a module receives.
LEMMA RegistrationsAre ==
    ASSUME PassInv, prog.mode = "WholeProgram", \A n \in Modules : Decided(n),
           NEW m \in Modules, safety_map[m] # Failed,
           NEW candidates, candidates = Created(EffectIds(m))
    PROVE  {<<<<c>>, "SubclassRegistration">> :
               c \in {d \in candidates : \E base \in Ancestors(d) : WalkedElsewhere(m, base)}}
               = RegistrationErrors[m]
<1>1. IsProgram(prog) /\ TypeInv
  BY ProgramsAssumption DEF PassInv, TypeInv
<1>2. ASSUME NEW d \in Classes
      PROVE  (\E base \in Ancestors(d) : WalkedElsewhere(m, base))
             <=> \E w \in Modules \ (FailingModules \cup {m}) :
                    m \notin prog.imports[w] /\ \E base \in prog.walks[w] : DerivesFrom(d, base)
  <2>1. \A base \in Classes : base \in Ancestors(d) <=> DerivesFrom(d, base)
    BY <1>1, AncestorsAreDerived
  <2>2. Ancestors(d) \subseteq Classes
    BY DEF Ancestors
  <2>3. \A w \in Modules : prog.walks[w] \subseteq Classes
    BY <1>1 DEF IsProgram
  <2>4. \A base : WalkedElsewhere(m, base) <=>
           \E w \in Modules \ (FailingModules \cup {m}) :
               base \in prog.walks[w] /\ m \notin prog.imports[w]
    BY WalkersAre DEF WalkedElsewhere
  <2> QED
    BY <2>1, <2>2, <2>3, <2>4
<1>3. ASSUME NEW d
      PROVE  d \in candidates <=> /\ d \in Classes
                                  /\ \E id \in EffectIds(m) :
                                       EffectOf(id).kind = "creation" /\ EffectOf(id).class = d
  <2>1. ASSUME NEW id \in EffectIds(m) PROVE EffectOf(id).class \in Classes
    <3>1. id[1] \in Scopes /\ id[2] \in 1..Len(prog.effects[id[1]])
      BY <1>1, PassedFacts
    <3>2. prog.effects[id[1]] \in Seq(SafetyEffects)
      BY <1>1, <3>1 DEF IsProgram
    <3>3. EffectOf(id) \in SafetyEffects
      BY <3>1, <3>2 DEF EffectOf
    <3> QED
      BY <3>3 DEF SafetyEffects
  <2> QED
    BY <2>1 DEF Created
<1>4. RegistrationErrors[m] =
        {<<<<c>>, "SubclassRegistration">> :
            c \in {d \in Classes :
                /\ \E id \in EffectIds(m) :
                      EffectOf(id).kind = "creation" /\ EffectOf(id).class = d
                /\ \E w \in Modules \ (FailingModules \cup {m}) :
                      m \notin prog.imports[w] /\ \E base \in prog.walks[w] : DerivesFrom(d, base)}}
  BY DEF RegistrationErrors
<1> QED
  BY <1>2, <1>3, <1>4

\* Nobody walks a base: nothing registers.
LEMMA NothingRegisters ==
    ASSUME PassInv, \A n \in Modules : Decided(n), \A base \in Classes : Walkers(base) = {},
           NEW m \in Modules
    PROVE  RegistrationErrors[m] = {}
<1>1. IsProgram(prog)
  BY ProgramsAssumption DEF PassInv, TypeInv
<1>2. \A w \in Modules \ FailingModules : prog.walks[w] = {}
  BY <1>1, WalkersAre DEF IsProgram
<1> QED
  BY <1>2 DEF RegistrationErrors

LEMMA RegisterExact ==
    ASSUME PassInv, NEW m \in Modules, Register(m) PROVE EntryExact(m)'
<1>1. /\ TypeInv /\ prog' = prog /\ UNCHANGED checks
      /\ stage = "register" /\ stage' = "register" /\ m \in left /\ m \notin left'
      /\ prog.mode = "WholeProgram" /\ EntryExact(m)
  BY DEF PassInv, StageInv, Register
<1>2. /\ \A n \in Modules : Decided(n)
      /\ ~Registered(m) /\ Registered(m)' /\ Decided(m)'
  BY <1>1 DEF Decided, Registered
<1>3. Passed(m)' = Passed(m)
  BY <1>1, PassedKept DEF checks
<1>4. CASE safety_map[m] = Failed
  BY <1>1, <1>4, FactsKept DEF EntryExact, Register
<1>5. CASE safety_map[m] # Failed
  <2> DEFINE added == {<<<<c>>, "SubclassRegistration">> :
                c \in {d \in safety_map[m].subclass_candidates :
                          \E base \in Ancestors(d) : WalkedElsewhere(m, base)}}
             u == [safety_map[m] EXCEPT !.errors = @ \cup added, !.subclass_candidates = {}]
  <2>1. safety_map[m] \in Entries
    BY <1>1, <1>5 DEF TypeInv, TypeOK
  <2>2. safety_map' = [safety_map EXCEPT ![m] = u]
    BY <1>5 DEF Register
  <2>3. safety_map[m].subclass_candidates = Created(EffectIds(m))
    BY <1>2, <1>5, <1>1, DecidedExact DEF EntryExact
  <2>4. added = RegistrationErrors[m]
    BY <1>1, <1>2, <1>5, <2>3, RegistrationsAre
  <2>5. added \subseteq Origins \X ErrorKinds
    <3>1. safety_map[m].subclass_candidates \subseteq Classes
      BY <2>1 DEF Entries
    <3> QED
      BY <3>1 DEF Origins, ErrorKinds
  <2> HIDE DEF added
  <2>6. /\ u \in Entries /\ u.errors = safety_map[m].errors \cup added
        /\ u.overrides = safety_map[m].overrides
    BY <2>1, <2>5 DEF Entries
  <2>7. safety_map'[m] = u
    BY <1>1, <2>2 DEF TypeInv, TypeOK
  <2> HIDE DEF u
  <2>8. u # Failed
    BY <2>6, NamesAssumption
  <2>9. /\ \A ids : ErrorsOf(m, ids)' = ErrorsOf(m, ids)
        /\ RegistrationErrors' = RegistrationErrors
        /\ \A id : CheckFails(EffectOf(id))' = CheckFails(EffectOf(id))
    BY <1>1, FactsKept
  <2>10. /\ scope'[m] = NoScope /\ unchecked'[m] = {} /\ u.overrides = prog'.walks[m]
    BY <1>1, <1>2, <1>5, <2>6 DEF EntryExact, checks
  <2>11. /\ \A id \in Passed(m) : ~CheckFails(EffectOf(id))
         /\ u.errors = ErrorsOf(m, Passed(m)) \cup RegistrationErrors[m]
    BY <1>1, <1>2, <1>5, <2>4, <2>6 DEF EntryExact
  <2> QED
    BY <1>2, <1>3, <2>7, <2>8, <2>9, <2>10, <2>11 DEF EntryExact
<1> QED
  BY <1>4, <1>5

\* An update that adds neither errors nor classes nor bases to an entry.
LEMMA EntryExtended ==
    ASSUME PassInv, prog' = prog, UNCHANGED checks, NEW m \in Modules,
           Decided(m), Decided(m)',
           safety_map'[m] = Failed <=> safety_map[m] = Failed,
           safety_map[m] # Failed =>
               /\ safety_map'[m].errors = safety_map[m].errors
               /\ safety_map'[m].subclass_candidates = safety_map[m].subclass_candidates
               /\ safety_map'[m].overrides = safety_map[m].overrides,
           (Registered(m)' <=> Registered(m)) \/ (Registered(m)' /\ RegistrationErrors[m] = {})
    PROVE  EntryExact(m)'
<1>1. EntryExact(m) /\ Passed(m)' = Passed(m)
  BY PassedKept DEF PassInv, checks
<1>2. /\ \A ids : ErrorsOf(m, ids)' = ErrorsOf(m, ids) /\ Created(ids)' = Created(ids)
      /\ RegistrationErrors' = RegistrationErrors /\ FailingModules' = FailingModules
      /\ \A id : CheckFails(EffectOf(id))' = CheckFails(EffectOf(id))
  BY FactsKept
<1>3. scope' = scope /\ unchecked' = unchecked
  BY DEF checks
<1> QED
  BY <1>1, <1>2, <1>3 DEF EntryExact

LEMMA WorkExact ==
    ASSUME PassInv, Work PROVE \A m \in Modules : EntryExact(m)'
<1>1. /\ TypeInv /\ StageInv /\ IsProgram(prog)
      /\ safety_map \in [Modules -> Entries \cup {Failed}]
      /\ \A m \in Modules : EntryExact(m)
  BY ProgramsAssumption DEF PassInv, TypeInv, TypeOK
<1>2. ASSUME NEW n \in DOMAIN prog.safety, WriteBack(n), NEW m \in Modules PROVE EntryExact(m)'
  <2>1. (Decided(m)' <=> Decided(m)) /\ (Registered(m)' <=> Registered(m))
    BY <1>2 DEF WriteBack, Decided, Registered
  <2> QED
    BY <1>1, <1>2, <2>1, EntryKept DEF WriteBack, checks
<1>3. ASSUME StartPass, NEW m \in Modules PROVE EntryExact(m)'
  <2>1. (Decided(m)' <=> Decided(m)) /\ (Registered(m)' <=> Registered(m))
    BY <1>3 DEF StartPass, Decided, Registered
  <2> QED
    BY <1>1, <1>3, <2>1, EntryKept DEF StartPass, checks
<1>4. ASSUME FinishPass, NEW m \in Modules PROVE EntryExact(m)'
  <2>1. /\ \A n \in Modules : Decided(n)
        /\ Decided(m)' /\ UNCHANGED <<prog, checks, safety_map>> /\ ~Registered(m)
    BY <1>4 DEF FinishPass, Decided, Registered
  <2>2. Registered(m)' => RegistrationErrors[m] = {}
    BY <1>4, <2>1, NothingRegisters DEF FinishPass, Registered
  <2> QED
    BY <2>1, <2>2, EntryExtended
<1>5. ASSUME NEW n \in DOMAIN prog.safety, MoveVerdict(n), NEW m \in Modules PROVE EntryExact(m)'
  <2> DEFINE k == prog.enclosing[n]
             moved == {<<n, function_safety[n]>>}
             u == Updated(safety_map[k], [function_safety |-> moved])
  <2>1. /\ Decided(m) /\ Decided(m)' /\ ~Registered(m) /\ ~Registered(m)'
        /\ prog' = prog /\ UNCHANGED checks
    BY <1>5 DEF MoveVerdict, Decided, Registered
  <2>2. CASE k = NoModule \/ m # k
    <3>1. safety_map'[m] = safety_map[m]
      BY <1>1, <1>5, <2>2 DEF MoveVerdict
    <3> QED
      BY <2>1, <3>1, EntryExtended
  <2>3. CASE k # NoModule /\ m = k
    <3>1. safety_map'[m] = u
      BY <1>1, <1>5, <2>3 DEF MoveVerdict
    <3>2. CASE safety_map[m] = Failed
      <4>1. u = Failed
        BY <2>3, <3>2 DEF Updated
      <4> QED
        BY <2>1, <3>1, <3>2, <4>1, EntryExtended
    <3>3. CASE safety_map[m] \in Entries
      <4>1. moved \in SUBSET ((Functions \cup Classes) \X Infos)
        BY <1>1 DEF IsProgram, TypeInv, TypeOK
      <4>2. PICK s \in SUBSET ((Functions \cup Classes) \X Infos) : s = moved
        BY <4>1
      <4>3. u = Updated(safety_map[m], [function_safety |-> s])
        BY <2>3, <4>2
      <4> HIDE DEF u
      <4>4. /\ u \in Entries
            /\ u.errors = safety_map[m].errors
            /\ u.subclass_candidates = safety_map[m].subclass_candidates
            /\ u.overrides = safety_map[m].overrides
        BY <3>3, <4>3, UpdatedByMove
      <4>5. safety_map[m] # Failed /\ safety_map'[m] # Failed
        BY <3>1, <3>3, <4>4, NamesAssumption
      <4> QED
        BY <2>1, <3>1, <4>4, <4>5, EntryExtended
    <3> QED
      BY <1>1, <3>2, <3>3
  <2> QED
    BY <2>2, <2>3
<1>6. ASSUME AttachCandidates, NEW m \in Modules PROVE EntryExact(m)'
  <2>1. /\ Decided(m) /\ Decided(m)' /\ ~Registered(m) /\ Registered(m)'
        /\ prog' = prog /\ UNCHANGED checks /\ prog.mode = "Incremental"
    BY <1>1, <1>6 DEF AttachCandidates, Decided, Registered, StageInv
  <2>2. RegistrationErrors[m] = {}
    BY <2>1 DEF RegistrationErrors
  <2>3. safety_map'[m] = Updated(safety_map[m], [mutation_candidates |-> prog.candidates[m]])
    BY <1>6 DEF AttachCandidates
  <2>4. CASE safety_map[m] = Failed
    <3>1. safety_map'[m] = Failed
      BY <2>3, <2>4 DEF Updated
    <3> QED
      BY <2>1, <2>2, <2>4, <3>1, EntryExtended
  <2>5. CASE safety_map[m] \in Entries
    <3>1. prog.candidates[m] \in SUBSET Functions
      BY <1>1 DEF IsProgram
    <3>2. PICK u : u = Updated(safety_map[m], [mutation_candidates |-> prog.candidates[m]])
      OBVIOUS
    <3>3. /\ u \in Entries
          /\ u.errors = safety_map[m].errors
          /\ u.subclass_candidates = safety_map[m].subclass_candidates
          /\ u.overrides = safety_map[m].overrides
      BY <2>5, <3>1, <3>2, UpdatedByCandidates
    <3>4. safety_map[m] # Failed /\ safety_map'[m] # Failed /\ safety_map'[m] = u
      BY <2>3, <2>5, <3>2, <3>3, NamesAssumption
    <3> QED
      BY <2>1, <2>2, <3>3, <3>4, EntryExtended
  <2> QED
    BY <1>1, <2>4, <2>5
<1>7. ASSUME NEW k \in Modules, Register(k), NEW m \in Modules PROVE EntryExact(m)'
  <2>1. CASE m = k
    BY <1>7, <2>1, RegisterExact
  <2>2. CASE m # k
    <3>1. /\ Decided(m) /\ Decided(m)' /\ (Registered(m)' <=> Registered(m))
          /\ prog' = prog /\ UNCHANGED checks
      BY <1>7, <2>2 DEF Register, Decided, Registered
    <3>2. safety_map'[m] = safety_map[m]
      BY <1>1, <1>7, <2>2 DEF Register
    <3> QED
      BY <3>1, <3>2, EntryExtended
  <2> QED
    BY <2>1, <2>2
<1>8. ASSUME FinishRegister, NEW m \in Modules PROVE EntryExact(m)'
  <2>1. /\ Decided(m) /\ Decided(m)' /\ Registered(m) /\ Registered(m)'
        /\ UNCHANGED <<prog, checks, safety_map>>
    BY <1>8 DEF FinishRegister, Decided, Registered
  <2> QED
    BY <2>1, EntryExtended
<1> QED
  BY <1>2, <1>3, <1>4, <1>5, <1>6, <1>7, <1>8 DEF Work

LEMMA PassFirst == Init => PassInv
<1> SUFFICES ASSUME Init PROVE PassInv
  OBVIOUS
<1>1. TypeInv /\ StageInv
  BY TypeFirst, StageFirst
<1>2. ASSUME NEW m \in Modules PROVE EntryExact(m)
  <2>1. /\ scope[m] = NoScope /\ unchecked[m] = prog.scopes[m] /\ stage = "resolve"
        /\ safety_map[m] = EmptySafety
    BY <1>2 DEF Init
  <2>2. Passed(m) = {}
    BY <2>1 DEF Passed, EffectIds
  <2>3. safety_map[m] # Failed /\ ~Decided(m) /\ ~Registered(m)
    BY <1>1, <2>1 DEF TypeInv, TypeOK, Decided, Registered
  <2>4. ErrorsOf(m, {}) = {} /\ Created({}) = {}
    BY DEF ErrorsOf, Created
  <2> QED
    BY <2>1, <2>2, <2>3, <2>4 DEF EntryExact, EmptySafety
<1> QED
  BY <1>1, <1>2 DEF PassInv

LEMMA PassStep == PassInv /\ [Next]_vars => PassInv'
<1> SUFFICES ASSUME PassInv, [Next]_vars PROVE PassInv'
  OBVIOUS
<1>1. TypeInv' /\ StageInv'
  BY TypeStep, StageStep DEF PassInv
<1>2. ASSUME UNCHANGED vars, NEW m \in Modules PROVE EntryExact(m)'
  <2>1. (Decided(m)' <=> Decided(m)) /\ (Registered(m)' <=> Registered(m))
    BY <1>2 DEF vars, Decided, Registered
  <2> QED
    BY <1>2, <2>1, EntryKept DEF PassInv, vars
<1> QED
  BY <1>1, <1>2, WorkExact, CheckExact DEF PassInv, Next, Done

-----------------------------------------------------------------------------
(* The pass implements ModuleVerdicts.                                      *)

LEMMA Undisturbed ==
    ASSUME prog' = prog, \A m \in Modules : Decided(m)' <=> Decided(m),
           \A m \in Modules : safety_map'[m] = Failed <=> safety_map[m] = Failed,
           \A m \in Modules : Decided(m) /\ safety_map[m] # Failed =>
                                  safety_map'[m].errors = safety_map[m].errors
    PROVE  /\ FailingModules' = FailingModules /\ LocalErrors' = LocalErrors
           /\ RegistrationErrors' = RegistrationErrors
           /\ {m \in Modules : Decided(m)}' = {m \in Modules : Decided(m)}
           /\ FailedModules' = FailedModules
           /\ DecidedErrors' = DecidedErrors
<1>1. {m \in Modules : Decided(m)}' = {m \in Modules : Decided(m)}
  OBVIOUS
<1>2. FailedModules' = FailedModules
  BY DEF FailedModules
<1>3. DecidedErrors' = DecidedErrors
  BY <1>2 DEF DecidedErrors, FailedModules
<1> QED
  BY <1>1, <1>2, <1>3, FactsKept

\* The errors of a decided module that did not fail.
LEMMA ErrorsAre ==
    ASSUME PassInv, NEW m \in Modules, Decided(m), safety_map[m] # Failed
    PROVE  safety_map[m].errors =
               LocalErrors[m] \cup (IF Registered(m) THEN RegistrationErrors[m] ELSE {})
<1>1. Passed(m) = EffectIds(m) /\ EntryExact(m)
  BY DecidedExact DEF PassInv
<1>2. LocalErrors[m] = ErrorsOf(m, EffectIds(m))
  BY DEF LocalErrors, ErrorsOf
<1> QED
  BY <1>1, <1>2 DEF EntryExact

\* The same as one formula, which holds before and after every step.
Determined ==
    \A m \in Modules : Decided(m) =>
        /\ safety_map[m] = Failed <=> m \in FailingModules
        /\ safety_map[m] # Failed =>
               safety_map[m].errors =
                   LocalErrors[m] \cup (IF Registered(m) THEN RegistrationErrors[m] ELSE {})

LEMMA PassDetermines == PassInv => Determined
  BY DecidedExact, ErrorsAre DEF Determined

\* The step of a check that ends it.
LEMMA DecisionStep ==
    ASSUME Determined', NEW m \in Modules, prog' = prog, ~Decided(m), Decided(m)',
           ~Registered(m)', safety_map[m] # Failed,
           \A n \in Modules \ {m} : /\ Decided(n)' <=> Decided(n)
                                    /\ safety_map'[n] = safety_map[n]
    PROVE  Abstract!Decide(m)
<1>1. /\ FailingModules' = FailingModules /\ LocalErrors' = LocalErrors
      /\ RegistrationErrors' = RegistrationErrors
  BY FactsKept
<1>2. safety_map'[m] = Failed <=> m \in FailingModules
  BY <1>1 DEF Determined
<1>3. safety_map'[m] # Failed => safety_map'[m].errors = LocalErrors[m]
  BY <1>1 DEF Determined
<1>4. {n \in Modules : Decided(n)}' = {n \in Modules : Decided(n)} \cup {m}
  OBVIOUS
<1>5. CASE m \in FailingModules
  <2>1. FailedModules' = FailedModules \cup {m}
    BY <1>2, <1>5 DEF FailedModules
  <2>2. DecidedErrors' = DecidedErrors
    BY <1>2, <1>5 DEF DecidedErrors, FailedModules
  <2> QED
    BY <1>1, <1>4, <1>5, <2>1, <2>2 DEF Abstract!Decide, Abstract!facts
<1>6. CASE m \notin FailingModules
  <2>1. FailedModules' = FailedModules
    BY <1>2, <1>6 DEF FailedModules
  <2>2. DecidedErrors' = [DecidedErrors EXCEPT ![m] = LocalErrors[m]]
    BY <1>2, <1>3, <1>6 DEF DecidedErrors, FailedModules
  <2> QED
    BY <1>1, <1>4, <1>6, <2>1, <2>2 DEF Abstract!Decide, Abstract!facts
<1> QED
  BY <1>5, <1>6

LEMMA CheckImplements ==
    ASSUME PassInv, Determined', NEW m \in Modules, CheckModule(m)
    PROVE  Abstract!Decide(m) \/ UNCHANGED <<Abstract!facts, {n \in Modules : Decided(n)},
                                            FailedModules, DecidedErrors>>
<1>1. /\ prog' = prog /\ stage = "pass" /\ stage' = "pass" /\ m \in left
      /\ safety_map[m] # Failed
      /\ \A n \in Modules \ {m} : safety_map'[n] = safety_map[n] /\ (n \in left' <=> n \in left)
  BY DEF PassInv, TypeInv, TypeOK, CheckModule, EnterScope, CheckEffect, FailEffect, LeaveScope,
         EndCheck, InEffect, Checking
<1>2. /\ ~Decided(m) /\ ~Registered(m)'
      /\ \A n \in Modules \ {m} : Decided(n)' <=> Decided(n)
  BY <1>1 DEF Decided, Registered
<1>3. CASE FailEffect(m) \/ EndCheck(m)
  <2>1. Decided(m)'
    BY <1>1, <1>3 DEF FailEffect, EndCheck, Decided
  <2> QED
    BY <1>1, <1>2, <2>1, DecisionStep
<1>4. CASE CheckEffect(m) \/ LeaveScope(m) \/ \E s \in Scopes : EnterScope(m, s)
  <2>1. ~Decided(m)'
    BY <1>1, <1>4 DEF CheckEffect, LeaveScope, EnterScope, Decided
  <2>2. safety_map'[m] # Failed
    <3>1. CASE CheckEffect(m)
      <4> DEFINE u == Updated(safety_map[m], EffectDelta(m, <<scope[m], position[m]>>, Current(m)))
      <4>1. TypeInv /\ InEffect(m) /\ safety_map'[m] = u
        BY <3>1 DEF PassInv, TypeInv, TypeOK, CheckEffect
      <4>2. u \in Entries
        BY <4>1, EffectUpdate
      <4> HIDE DEF u
      <4> QED
        BY <4>1, <4>2, NamesAssumption
    <3>2. CASE LeaveScope(m) \/ \E s \in Scopes : EnterScope(m, s)
      BY <1>1, <3>2 DEF LeaveScope, EnterScope
    <3> QED
      BY <1>4, <3>1, <3>2
  <2> QED
    BY <1>1, <1>2, <2>1, <2>2, Undisturbed DEF Abstract!facts
<1> QED
  BY <1>3, <1>4 DEF CheckModule

LEMMA WorkImplements ==
    ASSUME PassInv, Determined, Determined', Work
    PROVE  \/ \E m \in Modules : Abstract!Register(m)
           \/ UNCHANGED <<Abstract!facts, {n \in Modules : Decided(n)}, FailedModules, DecidedErrors>>
<1>1. prog' = prog
  BY DEF Work, WriteBack, MoveVerdict, StartPass, FinishPass, AttachCandidates, Register, FinishRegister
<1>2. \A m \in Modules : Decided(m)' <=> Decided(m)
  BY DEF Work, WriteBack, MoveVerdict, StartPass, FinishPass, AttachCandidates, Register,
         FinishRegister, Decided
<1>3. CASE UNCHANGED safety_map
  BY <1>1, <1>2, <1>3, Undisturbed DEF Abstract!facts
<1>4. CASE AttachCandidates \/ \E n \in DOMAIN prog.safety : MoveVerdict(n)
  <2>1. \A m \in Modules : Decided(m)
    BY <1>4 DEF AttachCandidates, MoveVerdict, Decided
  <2>2. \A m \in Modules : safety_map'[m] = Failed <=> safety_map[m] = Failed
    BY <1>1, <1>2, <2>1, FactsKept DEF Determined
  <2>3. \A m \in Modules : /\ ~Registered(m)
                           /\ Registered(m)' => RegistrationErrors[m] = {}
    BY <1>4 DEF AttachCandidates, MoveVerdict, Registered, PassInv, StageInv, RegistrationErrors
  <2>4. /\ LocalErrors' = LocalErrors /\ RegistrationErrors' = RegistrationErrors
    BY <1>1, FactsKept
  <2>5. \A m \in Modules : safety_map[m] # Failed => safety_map'[m].errors = safety_map[m].errors
    BY <1>2, <2>1, <2>2, <2>3, <2>4 DEF Determined
  <2> QED
    BY <1>1, <1>2, <2>2, <2>5, Undisturbed DEF Abstract!facts
<1>5. ASSUME NEW m \in Modules, Register(m), safety_map[m] # Failed PROVE Abstract!Register(m)
  <2>1. /\ \A n \in Modules : Decided(n) /\ Decided(n)'
        /\ Registered(m)'
        /\ \A n \in Modules \ {m} : safety_map'[n] = safety_map[n]
    BY <1>5 DEF Register, Decided, Registered, PassInv, TypeInv, TypeOK
  <2>2. safety_map'[m] # Failed
    BY <1>1, <1>5, <2>1, FactsKept DEF Determined
  <2>3. safety_map'[m].errors = LocalErrors[m] \cup RegistrationErrors[m]
    BY <1>1, <2>1, <2>2, FactsKept DEF Determined
  <2>4. FailedModules' = FailedModules /\ m \notin FailedModules
    BY <1>5, <2>1, <2>2 DEF FailedModules
  <2>5. DecidedErrors' = [DecidedErrors EXCEPT ![m] = LocalErrors[m] \cup RegistrationErrors[m]]
    BY <2>1, <2>3, <2>4 DEF DecidedErrors
  <2>6. {n \in Modules : Decided(n)} = Modules /\ {n \in Modules : Decided(n)}' = Modules
    BY <2>1
  <2> QED
    BY <1>1, <2>4, <2>5, <2>6, FactsKept DEF Abstract!Register, Abstract!facts
<1> QED
  BY <1>3, <1>4, <1>5
     DEF Work, WriteBack, StartPass, FinishPass, FinishRegister, Register

\* Whatever modules are checked at the same time and in whatever order scopes are
\* taken and modules registered, the pass decides each module once, from the
\* program and the final verdicts; inherits_from finds exactly what a path of
\* bases leads to.
THEOREM PassImplements == Spec => Implements
<1> DEFINE decided == {m \in Modules : Decided(m)}
           abstract == <<Abstract!facts, decided, FailedModules, DecidedErrors>>
<1>1. Init => Abstract!Init
  <2> SUFFICES ASSUME Init PROVE Abstract!Init
    OBVIOUS
  <2>1. TypeInv /\ \A m \in Modules : ~Decided(m)
    BY TypeFirst DEF Init, Decided
  <2>2. \A m \in Modules : safety_map[m] # Failed
    BY <2>1 DEF Init, TypeInv, TypeOK
  <2> QED
    BY <2>1, <2>2 DEF Abstract!Init, DecidedErrors, FailedModules
<1>2. PassInv /\ Determined /\ Determined' /\ [Next]_vars => [Abstract!Next]_abstract
  <2> SUFFICES ASSUME PassInv, Determined, Determined', [Next]_vars
               PROVE  Abstract!Next \/ UNCHANGED abstract
    OBVIOUS
  <2>1. CASE UNCHANGED vars
    <3>1. \A m \in Modules : Decided(m)' <=> Decided(m)
      BY <2>1 DEF vars, Decided
    <3> QED
      BY <2>1, <3>1, Undisturbed DEF vars, Abstract!facts
  <2>2. CASE Work
    BY <2>2, WorkImplements DEF Abstract!Next
  <2>3. ASSUME NEW m \in Modules, CheckModule(m) PROVE Abstract!Next \/ UNCHANGED abstract
    BY <2>3, CheckImplements DEF Abstract!Next
  <2> QED
    BY <2>1, <2>2, <2>3 DEF Next, Done
<1> QED
  BY <1>1, <1>2, PassFirst, PassStep, PassDetermines, PTL DEF Spec, Implements, Abstract!Spec

\* The result: every module that was analysed has the errors of its scopes and its
\* registrations, and the incremental mode puts every verdict where its name
\* belongs.
ResultExact ==
    \A m \in Modules \ FailingModules :
        /\ safety_map[m].errors = LocalErrors[m] \cup RegistrationErrors[m]
        /\ safety_map[m].function_safety =
               IF prog.mode = "WholeProgram" THEN {}
               ELSE {<<n, prog.safety[n]>> : n \in {x \in DOMAIN prog.safety : prog.enclosing[x] = m}}

\* What the pass ends with, if it ends, is the exact result: no error and no verdict
\* more and none fewer.
THEOREM ResultsAreExact == Spec => [](stage = "done" => ResultExact)
<1>1. OwnerInv /\ Determined => (stage = "done" => ResultExact)
  <2> SUFFICES ASSUME OwnerInv, Determined, stage = "done", NEW m \in Modules \ FailingModules
               PROVE  /\ safety_map[m].errors = LocalErrors[m] \cup RegistrationErrors[m]
                      /\ safety_map[m].function_safety =
                            IF prog.mode = "WholeProgram" THEN {} ELSE Owned(m, DOMAIN prog.safety)
    BY DEF ResultExact, Owned
  <2>1. Decided(m) /\ Registered(m)
    BY DEF Decided, Registered
  <2>2. safety_map[m] # Failed /\ safety_map[m].errors = LocalErrors[m] \cup RegistrationErrors[m]
    BY <2>1 DEF Determined
  <2>3. safety_map[m].function_safety = Owned(m, Moved)
    BY <2>2 DEF OwnerInv, OwnedExact
  <2>4. prog.mode \in Modes
    BY ProgramsAssumption DEF OwnerInv, TypeInv, IsProgram
  <2>5. CASE prog.mode = "WholeProgram"
    <3>1. Moved = {}
      BY <2>5 DEF Moved
    <3> QED
      BY <2>2, <2>3, <2>5, <3>1 DEF Owned
  <2>6. CASE prog.mode = "Incremental"
    <3>1. Moved = DOMAIN prog.safety
      BY <2>6 DEF Moved
    <3> QED
      BY <2>2, <2>3, <2>6, <3>1
  <2> QED
    BY <2>4, <2>5, <2>6 DEF Modes
<1> QED
  BY <1>1, OwnerFirst, OwnerStep, PassFirst, PassStep, PassDetermines, PTL DEF Spec

=============================================================================
