---------------------------- MODULE VerdictsProofs ----------------------------
(***************************************************************************)
(* Proofs about the verdict precompute, for any programs and any number of *)
(* worker threads.  In order:                                              *)
(*   the types                                   TypeCorrect               *)
(*   what a visit reads is final before it       CalleesAreFinal           *)
(*   a hard unsafe verdict stays                 UnsafeStays               *)
(*   no function is evaluated inside itself      NothingIsReentered        *)
(*   verdicts depend on the program alone        VerdictsAreExact          *)
(*   none of them is a false safe                NoVerdictIsFalseSafe      *)
(*   the same for classes                        ClassVerdictsAreExact     *)
(***************************************************************************)
EXTENDS Verdicts, TLAPS

-----------------------------------------------------------------------------
(* What the lookups of a program return.                                    *)

LEMMA CalleesType ==
    ASSUME NEW p, ProgramShape(p), NEW e \in Effects
    PROVE  /\ ResolvedName(p, e) \in Names
           /\ Callees(p, e) \in Seq(Names)
<1>1. e.name \in Names
  BY DEF Effects
<1>2. /\ p.above[e.name] \in Names \cup {NoName}
      /\ p.resolve[e.name] \in Names \cup {NoName}
      /\ p.meta[e.name] \in Seq(Names)
  BY <1>1 DEF ProgramShape
<1>3. ResolvedName(p, e) \in Names
  BY <1>1, <1>2 DEF ResolvedName
<1>4. Optional(p.above[e.name]) \in Seq(Names)
  BY <1>2 DEF Optional
<1> QED
  BY <1>2, <1>3, <1>4 DEF Callees

LEMMA BodiesType ==
    ASSUME NEW p, ProgramShape(p), NEW e \in Effects
    PROVE  Bodies(p, e) \in Seq(Names)
<1>1. ASSUME NEW c \in Names PROVE BodiesOf(p, e, c) \in Seq(Names)
  <2>1. p.nested[c] \in Seq(Names) /\ (c \in p.classes => p.ctors[c] \in Seq(Names))
    BY <1>1 DEF ProgramShape
  <2> QED
    BY <1>1, <2>1 DEF BodiesOf
<1>2. Callees(p, e) \in Seq(Names)
  BY CalleesType
<1> DEFINE cs == Callees(p, e)
           at(i) == IF i <= Len(cs) THEN BodiesOf(p, e, cs[i]) ELSE <<>>
<1>3. at(1) \in Seq(Names) /\ at(2) \in Seq(Names) /\ at(3) \in Seq(Names)
  BY <1>1, <1>2
<1>4. Bodies(p, e) = at(1) \o at(2) \o at(3)
  BY DEF Bodies
<1> HIDE DEF at
<1> QED
  BY <1>3, <1>4

-----------------------------------------------------------------------------
(* Type correctness.  An activation belongs to a function, or to a class    *)
(* while its constructor is checked; one that is inside a call stands at a  *)
(* call effect, and every activation below the top is.                      *)

FrameOK(fr) ==
    /\ fr \in Frames
    /\ fr.pos >= 1 /\ fr.at >= 1
    /\ fr.pc = "class" => fr.func \in prog.classes
    /\ fr.pc # "class" => fr.func \in Functions(prog)
    /\ fr.pc = "call" => /\ fr.pos <= Len(prog.effects[fr.func])
                         /\ prog.effects[fr.func][fr.pos].kind \in CallKinds

StackOK(s) ==
    /\ s \in Seq(Frames)
    /\ \A i \in 1..Len(s) : FrameOK(s[i])
    /\ \A i \in 1..Len(s) : i < Len(s) => s[i].pc \in {"call", "class"}

StacksOK == \A w \in Workers : StackOK(stack[w])

TypeInv == TypeOK /\ StacksOK

LEMMA EffectType ==
    ASSUME ProgramShape(prog), NEW f \in Functions(prog), NEW i \in 1..Len(prog.effects[f])
    PROVE  prog.effects[f][i] \in Effects
  BY DEF ProgramShape

LEMMA NodesAreNames == ASSUME ProgramShape(prog) PROVE Nodes(prog) \subseteq Names
  BY DEF ProgramShape, Nodes

\* The constructors of entries build entries.
LEMMA InfoTypes ==
    ASSUME NEW info \in Infos, NEW callees \in SUBSET Names
    PROVE  /\ Absent \in Infos /\ SafeInfo \in Infos /\ UnsafeInfo \in Infos
           /\ WithMissingDep(info, callees) \in Infos
           /\ WithIfImported(info) \in Infos
  BY DEF Infos, Absent, SafeInfo, UnsafeInfo, WithMissingDep, WithIfImported, Bits

\* The constructors of activations build activations.
LEMMA FrameTypes ==
    ASSUME NEW fr, FrameOK(fr), NEW b \in BOOLEAN, NEW c \in BOOLEAN
    PROVE  /\ fr.pc = "effect" => FrameOK(NextEffect(fr, b))
           /\ fr.pc = "call" => FrameOK(NextEffect(fr, b))
           /\ /\ fr.pc = "effect" /\ fr.pos <= Len(prog.effects[fr.func])
              /\ prog.effects[fr.func][fr.pos].kind \in CallKinds
              => FrameOK(Calling(fr, b, c))
           /\ FrameOK(NextBody(fr, b)) /\ NextBody(fr, b).pc = fr.pc
           /\ fr.pc = "effect" => FrameOK(Marking(fr))
  BY DEF FrameOK, Frames, NextEffect, Calling, NextBody, Marking, Frame

LEMMA NewFrames ==
    ASSUME ProgramShape(prog)
    PROVE  /\ \A f \in Functions(prog) : \A m \in Names \cup Modules : FrameOK(FunctionFrame(f, m))
           /\ \A c \in prog.classes : FrameOK(ClassFrame(c))
  BY DEF FrameOK, Frames, FunctionFrame, ClassFrame, Frame, ProgramShape

\* Replacing the top activation, and leaving it, keep a stack a stack.
LEMMA SetTopStack ==
    ASSUME NEW s, StackOK(s), s # <<>>, NEW fr, FrameOK(fr)
    PROVE  StackOK([s EXCEPT ![Len(s)] = fr])
  BY DEF StackOK, FrameOK

LEMMA ReturnStack ==
    ASSUME NEW s, StackOK(s), Len(s) > 1, NEW result \in BOOLEAN
    PROVE  StackOK([SubSeq(s, 1, Len(s) - 1) EXCEPT
                      ![Len(s) - 1] = NextBody(s[Len(s) - 1], s[Len(s) - 1].ok /\ result)])
<1> DEFINE n == Len(s)
           below == s[n - 1]
           fr == NextBody(below, below.ok /\ result)
           t == SubSeq(s, 1, n - 1)
<1>1. s \in Seq(Frames) /\ n \in Nat /\ n > 1
  BY DEF StackOK
<1>2. FrameOK(below) /\ below.pc \in {"call", "class"} /\ (below.ok /\ result) \in BOOLEAN
  BY <1>1 DEF StackOK, FrameOK
<1>3. FrameOK(fr) /\ fr.pc = below.pc
  BY <1>2, FrameTypes
<1>4. t \in Seq(Frames) /\ Len(t) = n - 1 /\ \A i \in 1..(n - 1) : t[i] = s[i]
  BY <1>1
<1>5. fr \in Frames
  BY <1>3 DEF FrameOK
<1> DEFINE u == [t EXCEPT ![n - 1] = fr]
<1> HIDE DEF fr, t, below
<1>6. u \in Seq(Frames) /\ Len(u) = n - 1
  BY <1>1, <1>4, <1>5
<1>7. \A i \in 1..(n - 1) : u[i] = IF i = n - 1 THEN fr ELSE s[i]
  BY <1>1, <1>4
<1>8. \A i \in 1..(n - 1) : FrameOK(s[i]) /\ s[i].pc \in {"call", "class"}
  BY <1>1 DEF StackOK
<1>9. StackOK(u)
  BY <1>1, <1>2, <1>3, <1>6, <1>7, <1>8 DEF StackOK
<1> QED
  BY <1>9 DEF fr, t, below

\* A new activation on top of one that is inside a call.
LEMMA PushStack ==
    ASSUME NEW s, StackOK(s), s # <<>>, s[Len(s)].pc \in {"call", "class"}, NEW fr, FrameOK(fr)
    PROVE  StackOK(Append(s, fr))
<1>1. s \in Seq(Frames) /\ fr \in Frames
  BY DEF StackOK, FrameOK
<1>2. /\ Append(s, fr) \in Seq(Frames) /\ Len(Append(s, fr)) = Len(s) + 1
      /\ \A i \in 1..(Len(s) + 1) : Append(s, fr)[i] = IF i = Len(s) + 1 THEN fr ELSE s[i]
  BY <1>1
<1> QED
  BY <1>1, <1>2 DEF StackOK

LEMMA SmallStacks ==
    /\ StackOK(<<>>)
    /\ \A fr : FrameOK(fr) => StackOK(<<fr>>)
<1>1. StackOK(<<>>)
  BY DEF StackOK
<1>2. ASSUME NEW fr, FrameOK(fr) PROVE StackOK(<<fr>>)
  <2>1. <<fr>> \in Seq(Frames) /\ Len(<<fr>>) = 1 /\ <<fr>>[1] = fr
    BY <1>2 DEF FrameOK
  <2> QED
    BY <1>2, <2>1 DEF StackOK
<1> QED
  BY <1>1, <1>2

\* A step that replaces the stack of one worker.
LEMMA StackUpdate ==
    ASSUME TypeInv, prog' = prog, NEW w \in Workers, NEW s, StackOK(s),
           stack' = [stack EXCEPT ![w] = s]
    PROVE  StacksOK' /\ stack' \in [Workers -> Seq(Frames)]
<1>1. \A v \in Workers : stack'[v] = IF v = w THEN s ELSE stack[v]
  BY DEF TypeInv, TypeOK
<1>2. ASSUME NEW t, StackOK(t) PROVE StackOK(t)'
  BY <1>2 DEF StackOK, FrameOK, Functions
<1>3. \A v \in Workers : StackOK(stack'[v])
  BY <1>1 DEF TypeInv, StacksOK
<1>4. StacksOK'
  BY <1>2, <1>3 DEF StacksOK
<1>5. s \in Seq(Frames)
  BY DEF StackOK
<1> QED
  BY <1>4, <1>5 DEF TypeInv, TypeOK

LEMMA StacksKept ==
    ASSUME TypeInv, prog' = prog, stack' = stack
    PROVE  StacksOK'
  BY DEF TypeInv, StacksOK, StackOK, FrameOK, Functions

\* What is known of the activation on top of a stack.
LEMMA TopFacts ==
    ASSUME TypeInv, NEW w \in Workers, Busy(w)
    PROVE  /\ StackOK(stack[w]) /\ stack[w] \in Seq(Frames) /\ Len(stack[w]) \in Nat \ {0}
           /\ FrameOK(Top(w)) /\ Top(w) \in Frames /\ Top(w).func \in Names
           /\ HasEffect(Top(w)) => CurrentEffect(Top(w)) \in Effects
           /\ Top(w).pc = "call" => CurrentEffect(Top(w)) \in Effects
<1>1. StackOK(stack[w]) /\ stack[w] \in Seq(Frames) /\ stack[w] # <<>>
  BY DEF TypeInv, StacksOK, StackOK, Busy
<1>2. Len(stack[w]) \in Nat \ {0}
  BY <1>1
<1>3. FrameOK(Top(w))
  BY <1>1, <1>2 DEF StackOK, Top
<1>4. Top(w) \in Frames /\ Top(w).func \in Names /\ Top(w).pos \in Nat /\ Top(w).pos >= 1
  BY <1>3 DEF FrameOK, Frames
<1>5. ProgramShape(prog)
  BY DEF TypeInv, TypeOK
<1>6. ASSUME HasEffect(Top(w)) PROVE CurrentEffect(Top(w)) \in Effects
  BY <1>3, <1>4, <1>5, <1>6 DEF HasEffect, EffectsOf, CurrentEffect, FrameOK, ProgramShape
<1>7. ASSUME Top(w).pc = "call" PROVE CurrentEffect(Top(w)) \in Effects
  BY <1>3, <1>4, <1>5, <1>7 DEF CurrentEffect, FrameOK, ProgramShape
<1> QED
  BY <1>1, <1>2, <1>3, <1>4, <1>6, <1>7

LEMMA WriteType ==
    ASSUME TypeInv, NEW f \in Names, NEW info \in Infos, Write(f, info)
    PROVE  function_safety' \in [Names -> Infos]
  BY DEF TypeInv, TypeOK, Write

\* Leaving an activation.
LEMMA ReturnType ==
    ASSUME TypeInv, prog' = prog, NEW w \in Workers, Busy(w), NEW result \in BOOLEAN,
           Return(w, result)
    PROVE  StacksOK' /\ stack' \in [Workers -> Seq(Frames)]
<1>1. StackOK(stack[w]) /\ Len(stack[w]) \in Nat \ {0}
  BY TopFacts
<1>2. CASE Len(stack[w]) = 1
  <2>1. stack' = [stack EXCEPT ![w] = <<>>]
    BY <1>2 DEF Return
  <2> QED
    BY <2>1, SmallStacks, StackUpdate
<1>3. CASE Len(stack[w]) # 1
  <2>0. Len(stack[w]) > 1
    <3>1. \A n \in Nat \ {0} : n # 1 => n > 1
      OBVIOUS
    <3> QED
      BY <1>1, <1>3, <3>1, Zenon
  <2> DEFINE s == stack[w]
             t == [SubSeq(s, 1, Len(s) - 1) EXCEPT
                     ![Len(s) - 1] = NextBody(s[Len(s) - 1], s[Len(s) - 1].ok /\ result)]
  <2>1. StackOK(t)
    BY <1>1, <2>0, ReturnStack
  <2>2. stack' = [stack EXCEPT ![w] = t]
    BY <1>3 DEF Return
  <2> HIDE DEF t
  <2> QED
    BY <2>1, <2>2, StackUpdate
<1> QED
  BY <1>1, <1>2, <1>3

LEMMA SetTopType ==
    ASSUME TypeInv, prog' = prog, NEW w \in Workers, Busy(w), NEW fr, FrameOK(fr), SetTop(w, fr)
    PROVE  StacksOK' /\ stack' \in [Workers -> Seq(Frames)]
<1>1. StackOK(stack[w]) /\ stack[w] # <<>>
  BY TopFacts DEF Busy
<1> DEFINE t == [stack[w] EXCEPT ![Len(stack[w])] = fr]
<1>2. StackOK(t)
  BY <1>1, SetTopStack
<1>3. stack' = [stack EXCEPT ![w] = t]
  BY DEF SetTop
<1> HIDE DEF t
<1> QED
  BY <1>2, <1>3, StackUpdate

-----------------------------------------------------------------------------
LEMMA InitTypeInv == Init => TypeInv
<1> SUFFICES ASSUME Init PROVE TypeInv
  OBVIOUS
<1>1. ProgramShape(prog)
  BY ProgramsAssumption DEF Init
<1>2. Absent \in Infos
  BY DEF Absent, Infos
<1>3. TypeOK
  BY <1>1, <1>2 DEF Init, TypeOK
<1>4. StacksOK
  BY SmallStacks DEF Init, StacksOK
<1> QED
  BY <1>3, <1>4 DEF TypeInv

\* The passes before the precompute, and the start of a level.
LEMMA PassesTypeInv ==
    ASSUME TypeInv, MarkRecursive \/ MarkDeclaredSafe \/ NextLevel
    PROVE  TypeInv'
<1>1. UnsafeInfo \in Infos /\ SafeInfo \in Infos
  BY DEF UnsafeInfo, SafeInfo, Infos, Bits
<1>2. prog' = prog /\ stack' = stack
  BY DEF MarkRecursive, MarkDeclaredSafe, NextLevel
<1>3. StacksOK'
  BY <1>2, StacksKept
<1>4. CASE MarkRecursive
  BY <1>1, <1>3, <1>4 DEF MarkRecursive, TypeInv, TypeOK
<1>5. CASE MarkDeclaredSafe
  BY <1>1, <1>3, <1>5 DEF MarkDeclaredSafe, TypeInv, TypeOK
<1>6. CASE NextLevel
  BY <1>3, <1>6 DEF NextLevel, TypeInv, TypeOK, LeveledNodes
<1> QED
  BY <1>4, <1>5, <1>6

\* The steps of a worker.
LEMMA StepTypeInv ==
    ASSUME TypeInv, NEW w \in Workers, Step(w)
    PROVE  TypeInv'
<1> USE DEF TypeInv
<1>1. ProgramShape(prog) /\ function_safety \in [Names -> Infos]
  BY DEF TypeOK
<1>2. prog' = prog /\ phase' = phase /\ level' = level
  BY DEF Step, Begin, LocalEffect, StartCall, ReadBody, FinishCall, FinishBody, MarkSafe, FinishClass
<1>3. pending' \subseteq pending
  BY DEF Step, Begin, LocalEffect, StartCall, ReadBody, FinishCall, FinishBody, MarkSafe, FinishClass
<1>4. SUFFICES /\ StacksOK' /\ stack' \in [Workers -> Seq(Frames)]
               /\ function_safety' \in [Names -> Infos]
  BY <1>2, <1>3 DEF TypeOK, Nodes, Functions
<1>5. \A info \in Infos : \A cs \in SUBSET Names :
         /\ SafeInfo \in Infos /\ UnsafeInfo \in Infos
         /\ WithMissingDep(info, cs) \in Infos /\ WithIfImported(info) \in Infos
  BY InfoTypes
<1>6. ASSUME NEW n \in pending, Begin(w, n) PROVE StacksOK' /\ stack' \in [Workers -> Seq(Frames)]
  <2>1. n \in Nodes(prog)
    BY DEF TypeOK
  <2> DEFINE fr == IF n \in prog.classes THEN ClassFrame(n) ELSE FunctionFrame(n, prog.module[n])
  <2>2. n \notin prog.classes => n \in Functions(prog) /\ prog.module[n] \in Modules
    BY <1>1, <2>1 DEF Nodes, ProgramShape
  <2>3. FrameOK(fr)
    BY <1>1, <2>2, NewFrames
  <2>4. CASE function_safety[n].known
    BY <1>2, <1>6, <2>4, StacksKept DEF Begin, TypeOK
  <2>5. CASE ~function_safety[n].known
    <3>1. stack' = [stack EXCEPT ![w] = <<fr>>]
      BY <1>6, <2>5 DEF Begin
    <3> HIDE DEF fr
    <3> QED
      BY <1>2, <2>3, <3>1, SmallStacks, StackUpdate
  <2> QED
    BY <2>4, <2>5
<1>7. ASSUME Busy(w)
      PROVE  /\ FrameOK(Top(w)) /\ Top(w).func \in Names /\ Top(w).ret \in BOOLEAN
             /\ Top(w).ok \in BOOLEAN /\ function_safety[Top(w).func] \in Infos
             /\ StackOK(stack[w]) /\ stack[w] # <<>>
  BY <1>1, <1>7, TopFacts DEF Frames, Busy
<1>8. CASE LocalEffect(w)
  <2> DEFINE fr == Top(w)
             info == function_safety[fr.func]
             keep == fr.ret /\ ~(fr.caller # prog.module[fr.func]
                                 /\ info.verdict \cap {"MissingDep", "Unsafe"} = {})
  <2>1. Busy(w) /\ fr.pc = "effect"
    BY <1>8 DEF LocalEffect, HasEffect
  <2>2. FrameOK(NextEffect(fr, FALSE)) /\ FrameOK(NextEffect(fr, keep))
    BY <1>7, <2>1, FrameTypes
  <2>3. \/ Write(fr.func, UnsafeInfo) /\ SetTop(w, NextEffect(fr, FALSE))
        \/ Write(fr.func, WithIfImported(info)) /\ SetTop(w, NextEffect(fr, keep))
    BY <1>8 DEF LocalEffect
  <2> HIDE DEF fr, keep
  <2>4. StacksOK' /\ stack' \in [Workers -> Seq(Frames)]
    BY <1>2, <2>1, <2>2, <2>3, SetTopType
  <2>5. function_safety' \in [Names -> Infos]
    BY <1>5, <1>7, <2>1, <2>3, WriteType DEF fr
  <2> QED
    BY <2>4, <2>5
<1>9. CASE StartCall(w)
  <2> DEFINE fr == Top(w)
             e == CurrentEffect(fr)
             info == ArgumentCheck(function_safety[fr.func], e)
             ret == fr.ret /\ ~e.mutates /\ e.defers = {}
             recursive == e.name \in CallStackNames(w)
             ok == \A c \in SeqRange(Callees(prog, e)) : CanResolve(c)
  <2>1. Busy(w) /\ HasEffect(fr) /\ fr.pc = "effect" /\ e.kind \in CallKinds
    BY <1>9 DEF StartCall, HasEffect
  <2>2. e \in Effects
    BY <2>1, TopFacts
  <2>3. e.mutates \in BOOLEAN /\ e.defers \in SUBSET Names
    BY <2>2 DEF Effects
  <2>4. info \in Infos
    BY <1>5, <1>7, <2>1, <2>3 DEF ArgumentCheck
  <2>5. FrameOK(NextEffect(fr, FALSE)) /\ FrameOK(Calling(fr, ok, ret))
    BY <1>7, <2>1, FrameTypes DEF HasEffect, EffectsOf, CurrentEffect
  <2>6. \/ Write(fr.func, UnsafeInfo) /\ SetTop(w, NextEffect(fr, FALSE))
        \/ Write(fr.func, info) /\ SetTop(w, Calling(fr, ok, ret))
    BY <1>9 DEF StartCall
  <2> HIDE DEF fr, info, ok, ret
  <2>7. StacksOK' /\ stack' \in [Workers -> Seq(Frames)]
    BY <1>2, <2>1, <2>5, <2>6, SetTopType
  <2>8. function_safety' \in [Names -> Infos]
    BY <1>5, <1>7, <2>1, <2>4, <2>6, WriteType DEF fr
  <2> QED
    BY <2>7, <2>8
<1>10. CASE ReadBody(w)
  <2> DEFINE fr == Top(w)
             b == FrameBodies(fr)[fr.at]
             pass == fr.ok /\ BodyPasses(CallerModule(fr), b, function_safety[b])
  <2>1. Busy(w) /\ fr.pc \in {"call", "class"} /\ fr.at <= Len(FrameBodies(fr))
    BY <1>10 DEF ReadBody, HasBody
  <2>2. FrameOK(NextBody(fr, fr.ok)) /\ FrameOK(NextBody(fr, pass))
    BY <1>7, <2>1, FrameTypes
  <2>3. CallerModule(fr) \in Names \cup Modules
    BY <1>1, <1>7, <2>1 DEF CallerModule, FrameOK, IsClassFrame, ProgramShape
  <2>4. \/ SetTop(w, NextBody(fr, fr.ok))
        \/ SetTop(w, NextBody(fr, pass))
        \/ /\ b \in Functions(prog)
           /\ stack' = [stack EXCEPT ![w] = Append(stack[w], FunctionFrame(b, CallerModule(fr)))]
    BY <1>10 DEF ReadBody
  <2>5. ASSUME b \in Functions(prog) PROVE StackOK(Append(stack[w], FunctionFrame(b, CallerModule(fr))))
    <3>1. FrameOK(FunctionFrame(b, CallerModule(fr)))
      BY <1>1, <2>3, <2>5, NewFrames
    <3>2. stack[w][Len(stack[w])].pc \in {"call", "class"}
      BY <2>1 DEF Top
    <3> HIDE DEF fr, b
    <3> QED
      BY <1>7, <2>1, <3>1, <3>2, PushStack
  <2> HIDE DEF fr, b, pass
  <2>6. StacksOK' /\ stack' \in [Workers -> Seq(Frames)]
    BY <1>2, <2>1, <2>2, <2>4, <2>5, SetTopType, StackUpdate
  <2>7. function_safety' = function_safety
    BY <1>10 DEF ReadBody
  <2> QED
    BY <1>1, <2>6, <2>7
<1>11. CASE FinishCall(w)
  <2> DEFINE fr == Top(w)
             callee == ResolvedName(prog, CurrentEffect(fr))
             info == function_safety[fr.func]
             inherits == fr.ok /\ InheritsIfImported(fr.func, callee)
             ret == fr.ret /\ fr.ok /\ ~(inherits /\ fr.caller # prog.module[fr.func])
             new == CASE ~fr.ok   -> FailedCallee(info, callee)
                      [] inherits -> WithIfImported(info)
                      [] OTHER    -> info
  <2>1. Busy(w) /\ fr.pc = "call"
    BY <1>11 DEF FinishCall
  <2>2. callee \in Names
    BY <1>1, <2>1, TopFacts, CalleesType
  <2>3. info \in Infos /\ {callee} \in SUBSET Names
    BY <1>7, <2>1, <2>2
  <2>4. FailedCallee(info, callee) \in Infos
    BY <1>5, <2>3 DEF FailedCallee
  <2>5. new \in Infos
    BY <1>5, <2>3, <2>4, Zenon
  <2>6. FrameOK(NextEffect(fr, ret))
    BY <1>7, <2>1, FrameTypes
  <2>7. Write(fr.func, new) /\ SetTop(w, NextEffect(fr, ret))
    BY <1>11 DEF FinishCall
  <2> HIDE DEF fr, new, ret
  <2>8. StacksOK' /\ stack' \in [Workers -> Seq(Frames)]
    BY <1>2, <2>1, <2>6, <2>7, SetTopType
  <2>9. function_safety' \in [Names -> Infos]
    BY <1>7, <2>1, <2>5, <2>7, WriteType DEF fr
  <2> QED
    BY <2>8, <2>9
<1>12. CASE FinishBody(w)
  <2>1. Busy(w) /\ Top(w).pc = "effect" /\ function_safety' = function_safety
    BY <1>12 DEF FinishBody
  <2>2. Return(w, Top(w).ret) \/ SetTop(w, Marking(Top(w)))
    BY <1>12 DEF FinishBody
  <2>3. FrameOK(Marking(Top(w)))
    BY <1>7, <2>1, FrameTypes
  <2> QED
    BY <1>1, <1>2, <1>7, <2>1, <2>2, <2>3, ReturnType, SetTopType
<1>13. CASE MarkSafe(w)
  <2>1. Busy(w) /\ Write(Top(w).func, SafeInfo) /\ Return(w, Top(w).ret)
    BY <1>13 DEF MarkSafe
  <2> QED
    BY <1>2, <1>5, <1>7, <2>1, ReturnType, WriteType
<1>14. CASE FinishClass(w)
  <2>1. /\ Busy(w) /\ Top(w).pc = "class"
        /\ Write(Top(w).func, ConstructorVerdict(Top(w).func, Top(w).ok))
        /\ stack' = [stack EXCEPT ![w] = <<>>]
    BY <1>14 DEF FinishClass, IsClassFrame
  <2>2. SeqRange(prog.ctors[Top(w).func]) \subseteq Names
    <3>1. Top(w).func \in prog.classes
      BY <1>7, <2>1 DEF FrameOK
    <3>2. prog.ctors[Top(w).func] \in Seq(Names)
      BY <1>1, <3>1 DEF ProgramShape
    <3> QED
      BY <3>2 DEF SeqRange
  <2>3. ConstructorVerdict(Top(w).func, Top(w).ok) \in Infos
    <3> DEFINE known == {m \in SeqRange(prog.ctors[Top(w).func]) : function_safety[m].known}
               bits == UNION {function_safety[m].verdict : m \in known}
               missing == {m \in known : "MissingDep" \in function_safety[m].verdict}
    <3>1. bits \in SUBSET Bits /\ missing \in SUBSET Names
      BY <1>1, <2>2 DEF Infos
    <3>2. [known |-> TRUE, verdict |-> bits, missing |-> missing] \in Infos
      BY <3>1 DEF Infos
    <3>3. \/ ConstructorVerdict(Top(w).func, Top(w).ok) = SafeInfo
          \/ ConstructorVerdict(Top(w).func, Top(w).ok) = UnsafeInfo
          \/ ConstructorVerdict(Top(w).func, Top(w).ok)
                = [known |-> TRUE, verdict |-> bits, missing |-> missing]
      BY DEF ConstructorVerdict
    <3> QED
      BY <1>1, <1>5, <1>7, <2>1, <3>2, <3>3
  <2> QED
    BY <1>2, <1>7, <2>1, <2>3, WriteType, SmallStacks, StackUpdate
<1>15. ASSUME NEW n \in pending, Begin(w, n) PROVE function_safety' = function_safety
  BY <1>15 DEF Begin
<1> QED
  BY <1>1, <1>6, <1>8, <1>9, <1>10, <1>11, <1>12, <1>13, <1>14, <1>15 DEF Step

LEMMA NextTypeInv == TypeInv /\ [Next]_vars => TypeInv'
<1> SUFFICES ASSUME TypeInv, [Next]_vars PROVE TypeInv'
  OBVIOUS
<1>1. CASE MarkRecursive \/ MarkDeclaredSafe \/ NextLevel
  BY <1>1, PassesTypeInv
<1>2. ASSUME NEW w \in Workers, Step(w) PROVE TypeInv'
  BY <1>2, StepTypeInv
<1>3. CASE Done \/ UNCHANGED vars
  <2>1. UNCHANGED vars
    BY <1>3 DEF Done
  <2>2. StacksOK'
    BY <2>1, StacksKept DEF vars
  <2> QED
    BY <2>1, <2>2 DEF vars, TypeInv, TypeOK
<1> QED
  BY <1>1, <1>2, <1>3 DEF Next

LEMMA TypeInvariance == Spec => []TypeInv
<1>1. TypeInv /\ [Next]_vars => TypeInv'
  BY NextTypeInv
<1> QED
  BY InitTypeInv, <1>1, PTL DEF Spec

\* Every step of every worker keeps the entries, the activations and the queue
\* well formed, for any programs and any number of workers.
THEOREM TypeCorrect == Spec => []TypeOK
<1>1. TypeInv => TypeOK
  BY DEF TypeInv
<1> QED
  BY TypeInvariance, <1>1, PTL

-----------------------------------------------------------------------------
(* What a call reads lies below its caller: it is settled before the        *)
(* precompute starts, or has a lower level.                                 *)

Below(p, f) ==
    {n \in Nodes(p) : n \in p.in_cycle \cup p.declared_safe \/ p.level[n] < p.level[f]}

LEMMA RangeOfConcat ==
    ASSUME NEW S, NEW s \in Seq(S), NEW t \in Seq(S)
    PROVE  SeqRange(s \o t) = SeqRange(s) \cup SeqRange(t)
<1>1. SeqRange(s \o t) \subseteq SeqRange(s) \cup SeqRange(t)
  <2> SUFFICES ASSUME NEW i \in 1..Len(s \o t)
               PROVE  (s \o t)[i] \in SeqRange(s) \cup SeqRange(t)
    BY DEF SeqRange
  <2>1. CASE i <= Len(s)
    BY <2>1 DEF SeqRange
  <2>2. CASE ~(i <= Len(s))
    <3>1. i - Len(s) \in 1..Len(t) /\ (s \o t)[i] = t[i - Len(s)]
      BY <2>2
    <3> QED
      BY <3>1 DEF SeqRange
  <2> QED
    BY <2>1, <2>2
<1>2. SeqRange(s) \subseteq SeqRange(s \o t)
  <2> SUFFICES ASSUME NEW i \in 1..Len(s) PROVE s[i] \in SeqRange(s \o t)
    BY DEF SeqRange
  <2>1. i \in 1..Len(s \o t) /\ (s \o t)[i] = s[i]
    OBVIOUS
  <2> QED
    BY <2>1 DEF SeqRange
<1>3. SeqRange(t) \subseteq SeqRange(s \o t)
  <2> SUFFICES ASSUME NEW i \in 1..Len(t) PROVE t[i] \in SeqRange(s \o t)
    BY DEF SeqRange
  <2>1. i + Len(s) \in 1..Len(s \o t) /\ (s \o t)[i + Len(s)] = t[i]
    OBVIOUS
  <2> QED
    BY <2>1 DEF SeqRange
<1> QED
  BY <1>1, <1>2, <1>3

LEMMA RangeFacts ==
    ASSUME NEW S
    PROVE  /\ SeqRange(<<>>) = {}
           /\ \A x : SeqRange(<<x>>) = {x}
           /\ \A s \in Seq(S) : SeqRange(s) \subseteq S
           /\ \A s \in Seq(S) : \A i \in 1..Len(s) : s[i] \in SeqRange(s)
  BY DEF SeqRange

\* A callee of an effect that is a node is a target of one of the effect's edges.
LEMMA CalleesAreTargets ==
    ASSUME NEW p, ProgramShape(p), NEW e \in Effects, e.kind \in CallKinds
    PROVE  SeqRange(Callees(p, e)) \cap Nodes(p) \subseteq EffectTargets(p, e)
<1> SUFFICES ASSUME NEW c \in SeqRange(Callees(p, e)), c \in Nodes(p)
             PROVE  c \in EffectTargets(p, e)
  OBVIOUS
<1>1. e.name \in Names /\ c \in Names /\ p.resolve[c] = c
  BY DEF Effects, ProgramShape, Nodes
<1>2. /\ p.above[e.name] \in Names \cup {NoName}
      /\ p.meta[e.name] \in Seq(Names)
  BY <1>1 DEF ProgramShape
<1>3. Optional(p.above[e.name]) \in Seq(Names)
  BY <1>2 DEF Optional
<1>4. p.above[e.name] \in Names => SeqRange(Optional(p.above[e.name])) = {p.above[e.name]}
  BY RangeFacts, NamesAssumption DEF Optional
<1>5. p.above[e.name] = NoName => SeqRange(Optional(p.above[e.name])) = {}
  BY RangeFacts DEF Optional
<1>6. c \in SeqRange(Optional(p.above[e.name])) => c = p.above[e.name]
  BY <1>2, <1>4, <1>5
<1>7. CASE e.kind = "create"
  <2>1. c \in SeqRange(p.meta[e.name]) \cup SeqRange(Optional(p.above[e.name]))
    BY <1>2, <1>3, <1>7, RangeOfConcat DEF Callees
  <2> QED
    BY <1>6, <1>7, <2>1 DEF EffectTargets, CallGraphTarget
<1>8. CASE e.kind = "super"
  <2>1. c \in SeqRange(Optional(p.above[e.name]))
    BY <1>8 DEF Callees
  <2> QED
    BY <1>6, <1>8, <2>1 DEF EffectTargets, CallGraphTarget
<1>9. CASE e.kind \notin {"create", "super"}
  <2>1. c = ResolvedName(p, e)
    BY <1>9, RangeFacts DEF Callees
  <2>2. c = p.resolve[e.name]
    BY <1>1, <1>9, <2>1, NamesAssumption DEF ResolvedName
  <2> QED
    BY <1>9, <2>2 DEF EffectTargets, CallGraphTarget
<1> QED
  BY <1>7, <1>8, <1>9

\* The targets of a function's calls lie below it.
LEMMA TargetsBelow ==
    ASSUME NEW p, ProgramShape(p), Leveled(p),
           NEW f \in Functions(p) \ p.in_cycle, NEW i \in 1..Len(p.effects[f]),
           p.effects[f][i].kind \in CallKinds,
           NEW n \in EffectTargets(p, p.effects[f][i])
    PROVE  n \in Below(p, f)
<1>1. n \in Nodes(p)
  BY DEF EffectTargets
<1>2. <<f, n>> \in FunctionEdges(p)
  BY DEF FunctionEdges
<1>3. f \in Nodes(p) /\ <<f, n>> \in CallEdges(p)
  BY <1>2 DEF Nodes, CallEdges
<1> QED
  BY <1>1, <1>3 DEF Leveled, Below

\* The constructor methods of a class outside the cycles lie below it.
LEMMA ConstructorsBelow ==
    ASSUME NEW p, ProgramShape(p), Leveled(p), NEW c \in p.classes \ p.in_cycle
    PROVE  SeqRange(p.ctors[c]) \cap Nodes(p) \subseteq Below(p, c)
<1> SUFFICES ASSUME NEW m \in SeqRange(p.ctors[c]) \cap Nodes(p)
             PROVE  m \in Below(p, c)
  OBVIOUS
<1>1. m \in Nodes(p) /\ c \in Nodes(p)
  BY DEF Nodes
<1>2. ConstructorTarget(p, m) = m
  BY <1>1 DEF ConstructorTarget
<1>3. <<c, m>> \in ConstructorEdges(p)
  BY <1>1, <1>2 DEF ConstructorEdges
<1> QED
  BY <1>1, <1>3 DEF CallEdges, Leveled, Below

\* A body that a call runs is run by one of its callees.
LEMMA BodiesFromCallees ==
    ASSUME NEW p, ProgramShape(p), NEW e \in Effects, NEW b \in SeqRange(Bodies(p, e))
    PROVE  \E c \in SeqRange(Callees(p, e)) : b \in SeqRange(BodiesOf(p, e, c))
<1>1. ASSUME NEW c \in Names PROVE BodiesOf(p, e, c) \in Seq(Names)
  <2>1. p.nested[c] \in Seq(Names) /\ (c \in p.classes => p.ctors[c] \in Seq(Names))
    BY <1>1 DEF ProgramShape
  <2> QED
    BY <1>1, <2>1 DEF BodiesOf
<1>2. Callees(p, e) \in Seq(Names)
  BY CalleesType
<1> DEFINE cs == Callees(p, e)
           at(i) == IF i <= Len(cs) THEN BodiesOf(p, e, cs[i]) ELSE <<>>
<1>3. at(1) \in Seq(Names) /\ at(2) \in Seq(Names) /\ at(3) \in Seq(Names)
  BY <1>1, <1>2
<1>4. Bodies(p, e) = at(1) \o at(2) \o at(3)
  BY DEF Bodies
<1>5. ASSUME NEW i \in 1..3, b \in SeqRange(at(i))
      PROVE  \E c \in SeqRange(Callees(p, e)) : b \in SeqRange(BodiesOf(p, e, c))
  <2>1. i <= Len(cs)
    BY <1>5, RangeFacts
  <2>2. cs[i] \in SeqRange(cs)
    BY <1>2, <2>1, RangeFacts
  <2> QED
    BY <1>5, <2>1, <2>2
<1> HIDE DEF at
<1>6. at(1) \o at(2) \in Seq(Names)
  BY <1>3
<1>7. SeqRange(Bodies(p, e)) = SeqRange(at(1)) \cup SeqRange(at(2)) \cup SeqRange(at(3))
  <2>1. SeqRange(at(1) \o at(2)) = SeqRange(at(1)) \cup SeqRange(at(2))
    BY <1>3, RangeOfConcat
  <2>2. SeqRange((at(1) \o at(2)) \o at(3)) = SeqRange(at(1) \o at(2)) \cup SeqRange(at(3))
    BY <1>3, <1>6, RangeOfConcat
  <2> QED
    BY <1>4, <2>1, <2>2
<1> QED
  BY <1>5, <1>7

\* A function that a call runs is a target of one of the call's edges or, if not,
\* a constructor method of a class that is.
LEMMA BodyPaths ==
    ASSUME NEW p, ProgramShape(p), NEW f \in Functions(p),
           NEW i \in 1..Len(p.effects[f]), p.effects[f][i].kind \in CallKinds,
           NEW b \in SeqRange(Bodies(p, p.effects[f][i])) \cap Functions(p)
    PROVE  \/ b \in EffectTargets(p, p.effects[f][i])
           \/ \E c \in p.classes \ p.declared_safe :
                 c \in EffectTargets(p, p.effects[f][i]) /\ b \in SeqRange(p.ctors[c])
<1> DEFINE e == p.effects[f][i]
<1>1. e \in Effects /\ e.name \in Names
  <2>1. p.effects[f] \in Seq(Effects)
    BY DEF ProgramShape
  <2>2. e \in Effects
    BY <2>1
  <2> QED
    BY <2>2 DEF Effects
<1>2. PICK c \in SeqRange(Callees(p, e)) : b \in SeqRange(BodiesOf(p, e, c))
  BY <1>1, BodiesFromCallees
<1>3. c \in Names
  BY <1>1, CalleesType, RangeFacts
<1>4. c \in Nodes(p) => c \in EffectTargets(p, e)
  BY <1>1, <1>2, CalleesAreTargets
<1>5. c \notin p.declared_safe
  BY <1>2, RangeFacts DEF BodiesOf
<1>6. /\ p.nested[c] \in Seq(Names)
      /\ c \in p.classes => p.ctors[c] \in Seq(Names)
      /\ <<c>> \in Seq(Names)
  BY <1>3 DEF ProgramShape
<1>7. \/ c \in p.classes /\ b \in SeqRange(p.ctors[c])
      \/ b = c
      \/ e.kind = "decorate" /\ b \in SeqRange(p.nested[c])
  <2> DEFINE own == IF c \in p.classes THEN p.ctors[c] ELSE <<c>>
             more == IF e.kind = "decorate" THEN p.nested[c] ELSE <<>>
  <2>1. own \in Seq(Names) /\ more \in Seq(Names)
    BY <1>6
  <2>2. BodiesOf(p, e, c) = own \o more
    BY <1>5 DEF BodiesOf
  <2> HIDE DEF own, more
  <2>3. b \in SeqRange(own) \/ b \in SeqRange(more)
    BY <1>2, <2>1, <2>2, RangeOfConcat
  <2> QED
    BY <2>3, RangeFacts DEF own, more
<1>8. CASE c \in p.classes /\ b \in SeqRange(p.ctors[c])
  BY <1>4, <1>5, <1>8 DEF Nodes
<1>9. CASE b = c
  BY <1>4, <1>9 DEF Nodes
<1>10. CASE e.kind = "decorate" /\ b \in SeqRange(p.nested[c])
  <2>1. c = ResolvedName(p, e)
    BY <1>2, <1>10, RangeFacts DEF Callees
  <2>2. c \in Functions(p)
    BY <1>3, <1>10, RangeFacts DEF ProgramShape
  <2>3. p.resolve[c] = c
    BY <2>2 DEF ProgramShape, Nodes
  <2>4. c = p.resolve[e.name] /\ c # NoName
    BY <1>3, <1>10, <2>1, <2>3, NamesAssumption DEF ResolvedName
  <2>5. CallGraphTarget(p, e) = c
    BY <1>10, <2>4 DEF CallGraphTarget
  <2> QED
    BY <1>10, <2>4, <2>5 DEF EffectTargets, Nodes
<1> QED
  BY <1>7, <1>8, <1>9, <1>10

\* Every function a call runs lies below the caller.
LEMMA BodiesBelow ==
    ASSUME NEW p, ProgramShape(p), Leveled(p), Orderly(p),
           NEW f \in Functions(p) \ p.in_cycle, NEW i \in 1..Len(p.effects[f]),
           p.effects[f][i].kind \in CallKinds
    PROVE  SeqRange(Bodies(p, p.effects[f][i])) \cap Functions(p) \subseteq Below(p, f)
<1> DEFINE e == p.effects[f][i]
<1> SUFFICES ASSUME NEW b \in SeqRange(Bodies(p, e)) \cap Functions(p)
             PROVE  b \in Below(p, f)
  OBVIOUS
<1>1. b \in Nodes(p)
  BY DEF Nodes
<1>2. CASE b \in EffectTargets(p, e)
  BY <1>2, TargetsBelow
<1>3. ASSUME NEW c \in p.classes \ p.declared_safe,
             c \in EffectTargets(p, e), b \in SeqRange(p.ctors[c])
      PROVE  b \in Below(p, f)
  <2>1. c \in Below(p, f)
    BY <1>3, TargetsBelow
  <2>2. CASE c \in p.in_cycle
    BY <1>1, <1>3, <2>2 DEF Orderly, ClassCyclesClosed, Below
  <2>3. CASE c \notin p.in_cycle
    <3>1. b \in Below(p, c)
      BY <1>1, <1>3, <2>3, ConstructorsBelow
    <3>2. p.level[c] < p.level[f]
      BY <2>1, <2>3 DEF Below
    <3>3. c \in Nodes(p) \ p.in_cycle /\ f \in Nodes(p) \ p.in_cycle
      BY <2>3 DEF Nodes
    <3>4. p.level[c] \in Nat /\ p.level[f] \in Nat /\ (b \notin p.in_cycle => p.level[b] \in Nat)
      BY <1>1, <3>3 DEF Leveled
    <3> QED
      BY <3>1, <3>2, <3>4 DEF Below
  <2> QED
    BY <2>2, <2>3
<1> QED
  BY <1>2, <1>3, BodyPaths

-----------------------------------------------------------------------------
(* The order of the evaluations.  In an orderly program no worker ever meets *)
(* a body without a verdict, so an activation is never nested, a node is     *)
(* evaluated by one worker only, and everything below it is final.           *)

\* The activation of a worker that has only one.
Act(w) == stack[w][1]

Working(n) == \E w \in Workers : Busy(w) /\ Act(w).func = n

Settled == prog.in_cycle \cup (Nodes(prog) \cap prog.declared_safe)

PhaseInv ==
    /\ phase \in {"recursive", "declared"} =>
          pending = {} /\ level = 0 /\ \A w \in Workers : ~Busy(w)
    /\ phase = "recursive" => \A n \in Names : function_safety[n] = Absent
    /\ phase = "declared" => \A n \in Names :
          function_safety[n] = IF n \in prog.in_cycle THEN UnsafeInfo ELSE Absent
    /\ phase \in {"precompute", "done"} => \A n \in Settled :
          function_safety[n] = IF n \in prog.declared_safe THEN SafeInfo ELSE UnsafeInfo
    /\ phase = "done" => /\ pending = {} /\ \A w \in Workers : ~Busy(w)
                         /\ \A n \in LeveledNodes : prog.level[n] < level

LevelInv ==
    /\ \A n \in pending : n \in LeveledNodes /\ prog.level[n] + 1 = level
    /\ \A n \in LeveledNodes :
          prog.level[n] < level /\ n \notin pending => function_safety[n].known \/ Working(n)
    /\ \A n \in LeveledNodes \ prog.declared_safe :
          function_safety[n].known => prog.level[n] < level

ActInv(w) ==
    /\ Len(stack[w]) = 1
    /\ Act(w).func \in LeveledNodes \ (prog.declared_safe \cup pending)
    /\ prog.level[Act(w).func] + 1 = level
    /\ Act(w).pc # "class" => Act(w).func \notin prog.classes
    /\ Act(w).pc \in {"mark", "class"} => ~function_safety[Act(w).func].known

WorkInv ==
    /\ \A w \in Workers : Busy(w) => ActInv(w)
    /\ \A v, w \in Workers : Busy(v) /\ Busy(w) /\ Act(v).func = Act(w).func => v = w

EntryInv ==
    /\ \A n \in Names : function_safety[n].known \/ function_safety[n] = Absent
    /\ \A n \in Names \ Nodes(prog) : function_safety[n] = Absent

OrderInv == Leveled(prog) /\ PhaseInv /\ LevelInv /\ WorkInv /\ EntryInv

\* What the invariants say of a worker's only activation.
LEMMA ActFacts ==
    ASSUME TypeInv, OrderInv, NEW w \in Workers, Busy(w)
    PROVE  /\ stack[w] = <<Act(w)>> /\ Len(stack[w]) = 1 /\ Top(w) = Act(w)
           /\ ActInv(w) /\ FrameOK(Act(w)) /\ Act(w) \in Frames
           /\ Act(w).func \in LeveledNodes /\ Act(w).func \in Names
           /\ prog.level[Act(w).func] < level /\ phase = "precompute"
           /\ function_safety[Act(w).func] \in Infos
<1>1. ActInv(w)
  BY DEF OrderInv, WorkInv
<1>2. stack[w] \in Seq(Frames) /\ Len(stack[w]) = 1
  BY <1>1, TopFacts DEF ActInv
<1>3. stack[w] = <<Act(w)>> /\ Top(w) = Act(w)
  BY <1>2 DEF Act, Top
<1>4. FrameOK(Act(w)) /\ Act(w) \in Frames /\ Act(w).func \in Names
  BY <1>3, TopFacts
<1>5. Act(w).func \in LeveledNodes /\ prog.level[Act(w).func] + 1 = level
  BY <1>1 DEF ActInv
<1>6. prog.level[Act(w).func] \in Nat
  BY <1>5 DEF OrderInv, Leveled, LeveledNodes
<1>7. phase = "precompute"
  BY DEF OrderInv, PhaseInv, TypeInv, TypeOK
<1>8. function_safety[Act(w).func] \in Infos
  BY <1>4 DEF TypeInv, TypeOK
<1> QED
  BY <1>1, <1>2, <1>3, <1>4, <1>5, <1>6, <1>7, <1>8

LEMMA SetTopAct ==
    ASSUME TypeInv, OrderInv, NEW w \in Workers, Busy(w), NEW fr, SetTop(w, fr)
    PROVE  stack' = [stack EXCEPT ![w] = <<fr>>]
<1>1. stack[w] = <<Act(w)>> /\ Len(stack[w]) = 1
  BY ActFacts
<1>2. [<<Act(w)>> EXCEPT ![1] = fr] = <<fr>>
  OBVIOUS
<1> QED
  BY <1>1, <1>2 DEF SetTop

LEMMA ReturnAct ==
    ASSUME TypeInv, OrderInv, NEW w \in Workers, Busy(w), NEW r, Return(w, r)
    PROVE  stack' = [stack EXCEPT ![w] = <<>>]
<1>1. Len(stack[w]) = 1
  BY ActFacts
<1> QED
  BY <1>1 DEF Return

\* Nobody works on a node that is settled or below the current level.
LEMMA BelowFinal ==
    ASSUME TypeInv, OrderInv, NEW f \in LeveledNodes, prog.level[f] < level,
           NEW n \in Below(prog, f)
    PROVE  Final(n)
<1>1. prog.level[f] \in Nat /\ level \in Nat /\ level # 0
  BY DEF OrderInv, Leveled, LeveledNodes, TypeInv, TypeOK
<1>2. phase \in {"precompute", "done"}
  BY <1>1 DEF OrderInv, PhaseInv, TypeInv, TypeOK
<1>3. n \in Nodes(prog) /\ (n \notin prog.in_cycle => n \in LeveledNodes /\ prog.level[n] \in Nat)
  BY DEF Below, LeveledNodes, OrderInv, Leveled
<1>4. ~Working(n)
  <2> SUFFICES ASSUME NEW w \in Workers, Busy(w), Act(w).func = n PROVE FALSE
    BY DEF Working
  <2>1. ActInv(w)
    BY ActFacts
  <2>2. n \in LeveledNodes \ prog.declared_safe /\ prog.level[n] + 1 = level
    BY <2>1 DEF ActInv
  <2>3. n \notin prog.in_cycle /\ prog.level[n] < prog.level[f]
    BY <2>2 DEF Below, LeveledNodes
  <2> QED
    BY <1>1, <1>3, <2>2, <2>3
<1>5. function_safety[n].known
  <2>1. CASE n \in Settled
    BY <1>2, <2>1 DEF OrderInv, PhaseInv, SafeInfo, UnsafeInfo
  <2>2. CASE n \notin Settled
    <3>1. n \in LeveledNodes /\ prog.level[n] < prog.level[f]
      BY <1>3, <2>2 DEF Below, Settled
    <3>2. prog.level[n] < level /\ prog.level[n] + 1 # level
      BY <1>1, <1>3, <3>1 DEF LeveledNodes
    <3>3. n \notin pending
      BY <3>2 DEF OrderInv, LevelInv
    <3> QED
      BY <1>4, <3>1, <3>2, <3>3 DEF OrderInv, LevelInv
  <2> QED
    BY <2>1, <2>2
<1>6. Idle(n)
  <2> SUFFICES ASSUME NEW w \in Workers, NEW i \in 1..Len(stack[w]), stack[w][i].func = n
               PROVE  FALSE
    BY DEF Idle
  <2>1. Busy(w)
    BY DEF Busy
  <2>2. Len(stack[w]) = 1
    BY <2>1, ActFacts
  <2>3. i = 1
    BY <2>2
  <2> QED
    BY <1>4, <2>1, <2>3 DEF Working, Act
<1> QED
  BY <1>5, <1>6 DEF Final

\* Every function that the current call of an activation runs is final.
LEMMA ActBodiesFinal ==
    ASSUME TypeInv, OrderInv, Orderly(prog), NEW w \in Workers, Busy(w),
           Act(w).pc \in {"call", "class"}, NEW b \in SeqRange(FrameBodies(Act(w))),
           b \in Functions(prog)
    PROVE  Final(b)
<1> DEFINE f == Act(w).func
<1>1. /\ FrameOK(Act(w)) /\ f \in LeveledNodes /\ prog.level[f] < level
      /\ Act(w) \in Frames
  BY ActFacts
<1>2. ProgramShape(prog) /\ Leveled(prog)
  BY DEF TypeInv, TypeOK, OrderInv
<1>3. CASE Act(w).pc = "class"
  <2>1. f \in prog.classes \ prog.in_cycle /\ b \in SeqRange(prog.ctors[f])
    BY <1>1, <1>3 DEF FrameOK, LeveledNodes, FrameBodies, IsClassFrame
  <2>2. b \in Below(prog, f)
    BY <1>2, <2>1, ConstructorsBelow DEF Nodes
  <2> QED
    BY <1>1, <2>2, BelowFinal
<1>4. CASE Act(w).pc = "call"
  <2> DEFINE i == Act(w).pos
  <2>1. /\ f \in Functions(prog) \ prog.in_cycle /\ i \in 1..Len(prog.effects[f])
        /\ prog.effects[f][i].kind \in CallKinds
    BY <1>1, <1>4 DEF FrameOK, LeveledNodes, Frames
  <2>2. b \in SeqRange(Bodies(prog, prog.effects[f][i]))
    BY <1>4 DEF FrameBodies, IsClassFrame, CurrentEffect
  <2>3. b \in Below(prog, f)
    BY <1>2, <2>1, <2>2, BodiesBelow
  <2> QED
    BY <1>1, <2>3, BelowFinal
<1> QED
  BY <1>3, <1>4

LEMMA OrderGivesCalleesFinal ==
    ASSUME TypeInv, OrderInv, Orderly(prog)
    PROVE  CalleesFinal
<1> SUFFICES ASSUME NEW w \in Workers, NEW i \in 1..Len(stack[w]),
                    stack[w][i].pc \in {"call", "class"},
                    NEW b \in SeqRange(FrameBodies(stack[w][i])) \cap Functions(prog)
             PROVE  Final(b)
  BY DEF CalleesFinal, VisitedInOrder
<1>1. Busy(w)
  BY DEF Busy
<1>2. Len(stack[w]) = 1
  BY <1>1, ActFacts
<1>3. i = 1
  BY <1>2
<1> QED
  BY <1>1, <1>3, ActBodiesFinal DEF Act

-----------------------------------------------------------------------------
(* The two forms of a worker's step on its activation: it goes on with the   *)
(* activation, or it leaves it.  Either way it writes at most the entry of   *)
(* the node it evaluates, which is never lost and never less than Unsafe     *)
(* again.                                                                    *)

EntryStep(old, new) ==
    /\ new \in Infos
    /\ new.known \/ new = Absent
    /\ old.known => new.known
    /\ IsUnsafe(old) => IsUnsafe(new)

Continues(w, fr, info) ==
    /\ Busy(w) /\ prog' = prog /\ phase' = phase /\ level' = level /\ pending' = pending
    /\ Write(Act(w).func, info) /\ EntryStep(function_safety[Act(w).func], info)
    /\ stack' = [stack EXCEPT ![w] = <<fr>>]
    /\ fr.func = Act(w).func
    /\ fr.pc = "class" <=> Act(w).pc = "class"
    /\ fr.pc \in {"mark", "class"} => ~info.known

Leaves(w, info) ==
    /\ Busy(w) /\ prog' = prog /\ phase' = phase /\ level' = level /\ pending' = pending
    /\ Write(Act(w).func, info) /\ EntryStep(function_safety[Act(w).func], info)
    /\ stack' = [stack EXCEPT ![w] = <<>>]
    /\ info.known

\* The writes of the evaluation are entry steps.
LEMMA EntrySteps ==
    ASSUME NEW old \in Infos, old.known \/ old = Absent, NEW cs \in SUBSET Names
    PROVE  /\ EntryStep(old, old)
           /\ EntryStep(old, UnsafeInfo)
           /\ EntryStep(old, WithIfImported(old))
           /\ EntryStep(old, WithMissingDep(old, cs))
           /\ ~old.known => EntryStep(old, SafeInfo)
<1>1. SafeInfo \in Infos /\ UnsafeInfo \in Infos /\ WithIfImported(old) \in Infos
      /\ WithMissingDep(old, cs) \in Infos
  BY InfoTypes
<1>2. EntryStep(old, old) /\ EntryStep(old, UnsafeInfo)
  BY <1>1 DEF EntryStep, UnsafeInfo, IsUnsafe
<1>3. EntryStep(old, WithIfImported(old)) /\ EntryStep(old, WithMissingDep(old, cs))
  BY <1>1 DEF EntryStep, WithIfImported, WithMissingDep, IsUnsafe
<1>4. ~old.known => EntryStep(old, SafeInfo)
  BY <1>1 DEF EntryStep, SafeInfo, IsUnsafe, Absent
<1> QED
  BY <1>2, <1>3, <1>4

\* The entry of the node a worker evaluates.
LEMMA ActEntry ==
    ASSUME TypeInv, OrderInv, NEW w \in Workers, Busy(w)
    PROVE  LET old == function_safety[Act(w).func] IN
           /\ old \in Infos /\ (old.known \/ old = Absent)
           /\ EntryStep(old, old) /\ EntryStep(old, UnsafeInfo)
           /\ EntryStep(old, WithIfImported(old))
           /\ \A cs \in SUBSET Names : EntryStep(old, WithMissingDep(old, cs))
           /\ ~old.known => EntryStep(old, SafeInfo)
<1> DEFINE old == function_safety[Act(w).func]
<1>1. old \in Infos /\ Act(w).func \in Names
  BY ActFacts
<1>2. old.known \/ old = Absent
  BY <1>1 DEF OrderInv, EntryInv
<1> HIDE DEF old
<1>3. \A cs \in SUBSET Names :
         /\ EntryStep(old, old) /\ EntryStep(old, UnsafeInfo)
         /\ EntryStep(old, WithIfImported(old)) /\ EntryStep(old, WithMissingDep(old, cs))
         /\ ~old.known => EntryStep(old, SafeInfo)
  BY <1>1, <1>2, EntrySteps
<1>4. {} \in SUBSET Names
  OBVIOUS
<1> QED
  BY <1>1, <1>2, <1>3, <1>4 DEF old

\* A step that leaves the entries alone writes the entry that is there.
LEMMA NoWrite ==
    ASSUME TypeInv, NEW f \in Names, function_safety' = function_safety
    PROVE  Write(f, function_safety[f])
  BY DEF Write, TypeInv, TypeOK

LEMMA FrameFields ==
    ASSUME NEW fr, NEW b, NEW c
    PROVE  /\ NextEffect(fr, b).func = fr.func /\ NextEffect(fr, b).pc = "effect"
           /\ NextEffect(fr, b).pos = fr.pos + 1
           /\ Calling(fr, b, c).func = fr.func /\ Calling(fr, b, c).pc = "call"
           /\ Calling(fr, b, c).pos = fr.pos /\ Calling(fr, b, c).at = 1
           /\ Calling(fr, b, c).ok = b
           /\ NextBody(fr, b).func = fr.func /\ NextBody(fr, b).pc = fr.pc
           /\ NextBody(fr, b).pos = fr.pos /\ NextBody(fr, b).at = fr.at + 1
           /\ NextBody(fr, b).ok = b
           /\ Marking(fr).func = fr.func /\ Marking(fr).pc = "mark" /\ Marking(fr).pos = fr.pos
  BY DEF NextEffect, Calling, NextBody, Marking, Frame

LEMMA LocalEffectForm ==
    ASSUME TypeInv, OrderInv, NEW w \in Workers, LocalEffect(w)
    PROVE  LET e == CurrentEffect(Act(w)) IN
           /\ Busy(w) /\ HasEffect(Act(w)) /\ e.kind \in LocalKinds
           /\ \/ /\ e.kind # "global_mutation"
                 /\ \E ret : Continues(w, NextEffect(Act(w), ret), UnsafeInfo)
              \/ /\ e.kind = "global_mutation"
                 /\ \E ret : Continues(w, NextEffect(Act(w), ret),
                                       WithIfImported(function_safety[Act(w).func]))
<1> DEFINE fr == Act(w)
           info == function_safety[fr.func]
           keep == fr.ret /\ ~(fr.caller # prog.module[fr.func]
                               /\ info.verdict \cap {"MissingDep", "Unsafe"} = {})
<1>1. Busy(w)
  BY DEF LocalEffect
<1>2. Top(w) = Act(w)
  BY <1>1, ActFacts
<1>3. /\ HasEffect(fr) /\ fr.pc = "effect" /\ CurrentEffect(fr).kind \in LocalKinds
      /\ prog' = prog /\ phase' = phase /\ level' = level /\ pending' = pending
  BY <1>2 DEF LocalEffect, HasEffect
<1>4. EntryStep(info, UnsafeInfo) /\ EntryStep(info, WithIfImported(info))
  BY <1>1, ActEntry
<1>5. CASE /\ CurrentEffect(fr).kind # "global_mutation"
           /\ Write(fr.func, UnsafeInfo) /\ SetTop(w, NextEffect(fr, FALSE))
  <2>1. stack' = [stack EXCEPT ![w] = <<NextEffect(fr, FALSE)>>]
    BY <1>1, <1>5, SetTopAct
  <2>2. NextEffect(fr, FALSE).func = fr.func /\ NextEffect(fr, FALSE).pc = "effect"
    BY DEF NextEffect, Frame
  <2>3. Continues(w, NextEffect(fr, FALSE), UnsafeInfo)
    BY <1>1, <1>3, <1>4, <1>5, <2>1, <2>2 DEF Continues
  <2> QED
    BY <1>1, <1>3, <1>5, <2>3
<1>6. CASE /\ CurrentEffect(fr).kind = "global_mutation"
           /\ Write(fr.func, WithIfImported(info)) /\ SetTop(w, NextEffect(fr, keep))
  <2>1. stack' = [stack EXCEPT ![w] = <<NextEffect(fr, keep)>>]
    BY <1>1, <1>6, SetTopAct
  <2> HIDE DEF keep
  <2>2. NextEffect(fr, keep).func = fr.func /\ NextEffect(fr, keep).pc = "effect"
    BY FrameFields
  <2>3. Continues(w, NextEffect(fr, keep), WithIfImported(info))
    BY <1>1, <1>3, <1>4, <1>6, <2>1, <2>2 DEF Continues
  <2> QED
    BY <1>1, <1>3, <1>6, <2>3
<1> QED
  BY <1>2, <1>5, <1>6 DEF LocalEffect

\* In an orderly program the recursion check is never hit: see NoReentry.
LEMMA StartCallForm ==
    ASSUME TypeInv, OrderInv, NEW w \in Workers, StartCall(w)
    PROVE  LET e == CurrentEffect(Act(w)) IN
           /\ Busy(w) /\ HasEffect(Act(w)) /\ e \in Effects /\ e.kind \in CallKinds
           /\ \E ret : Continues(w, Calling(Act(w), \A c \in SeqRange(Callees(prog, e)) : CanResolve(c), ret),
                                 ArgumentCheck(function_safety[Act(w).func], e))
<1> DEFINE fr == Act(w)
           e == CurrentEffect(fr)
           old == function_safety[fr.func]
           info == ArgumentCheck(old, e)
           ret == fr.ret /\ ~e.mutates /\ e.defers = {}
           ok == \A c \in SeqRange(Callees(prog, e)) : CanResolve(c)
<1>1. Busy(w)
  BY DEF StartCall
<1>2. Top(w) = Act(w) /\ Len(stack[w]) = 1
  BY <1>1, ActFacts
<1>3. /\ HasEffect(fr) /\ fr.pc = "effect" /\ e.kind \in CallKinds
      /\ prog' = prog /\ phase' = phase /\ level' = level /\ pending' = pending
  BY <1>2 DEF StartCall, HasEffect
<1>4. e \in Effects
  BY <1>1, <1>2, <1>3, TopFacts
<1>5. EntryStep(old, info)
  <2>1. e.mutates \in BOOLEAN /\ e.defers \in SUBSET Names
    BY <1>4 DEF Effects
  <2>2. info \in {UnsafeInfo, WithMissingDep(old, e.defers), old}
    BY <2>1 DEF ArgumentCheck
  <2> HIDE DEF old, info, e
  <2>3. EntryStep(old, UnsafeInfo) /\ EntryStep(old, WithMissingDep(old, e.defers)) /\ EntryStep(old, old)
    BY <1>1, <2>1, ActEntry DEF old
  <2> QED
    BY <2>2, <2>3
<1>6. CallStackNames(w) = {}
  BY <1>2 DEF CallStackNames
<1>7. Write(fr.func, info) /\ SetTop(w, Calling(fr, ok, ret))
  BY <1>2, <1>6 DEF StartCall
<1> HIDE DEF ok, ret, info, old
<1>8. stack' = [stack EXCEPT ![w] = <<Calling(fr, ok, ret)>>]
  BY <1>1, <1>7, SetTopAct
<1>9. Continues(w, Calling(fr, ok, ret), info)
  BY <1>1, <1>3, <1>5, <1>7, <1>8, FrameFields DEF Continues, old
<1> QED
  BY <1>1, <1>3, <1>4, <1>9 DEF ok, info, old

LEMMA ReadBodyForm ==
    ASSUME TypeInv, OrderInv, Orderly(prog), NEW w \in Workers, ReadBody(w)
    PROVE  LET fr == Act(w)
               b == FrameBodies(fr)[fr.at]
           IN  /\ Busy(w) /\ HasBody(fr) /\ function_safety' = function_safety
               /\ \/ /\ b \notin Functions(prog)
                     /\ Continues(w, NextBody(fr, fr.ok), function_safety[fr.func])
                  \/ /\ b \in Functions(prog)
                     /\ Continues(w, NextBody(fr, fr.ok /\ BodyPasses(CallerModule(fr), b, function_safety[b])),
                                  function_safety[fr.func])
<1> DEFINE fr == Act(w)
           b == FrameBodies(fr)[fr.at]
           ok == fr.ok /\ BodyPasses(CallerModule(fr), b, function_safety[b])
           info == function_safety[fr.func]
<1>1. Busy(w)
  BY DEF ReadBody
<1>2. Top(w) = Act(w) /\ fr \in Frames /\ FrameOK(fr) /\ ActInv(w) /\ fr.func \in Names
  BY <1>1, ActFacts
<1>3. /\ HasBody(fr) /\ fr.pc \in {"call", "class"} /\ fr.at <= Len(FrameBodies(fr))
      /\ prog' = prog /\ phase' = phase /\ level' = level /\ pending' = pending
      /\ function_safety' = function_safety
  BY <1>2 DEF ReadBody, HasBody
<1>4. fr.at \in Nat /\ fr.at >= 1
  BY <1>2 DEF Frames, FrameOK
<1>5. FrameBodies(fr) \in Seq(Names)
  <2>1. ProgramShape(prog)
    BY DEF TypeInv, TypeOK
  <2>2. CASE fr.pc = "class"
    BY <1>2, <2>1, <2>2 DEF FrameBodies, IsClassFrame, FrameOK, ProgramShape
  <2>3. CASE fr.pc = "call"
    <3>1. CurrentEffect(fr) \in Effects
      BY <1>1, <1>2, <2>3, TopFacts
    <3> QED
      BY <2>1, <2>3, <3>1, BodiesType DEF FrameBodies, IsClassFrame
  <2> QED
    BY <1>3, <2>2, <2>3
<1>6. b \in SeqRange(FrameBodies(fr))
  BY <1>3, <1>4, <1>5 DEF SeqRange
<1>7. b \in Functions(prog) => function_safety[b].known
  BY <1>1, <1>3, <1>6, ActBodiesFinal DEF Final
<1>8. Write(fr.func, info) /\ EntryStep(info, info)
  BY <1>1, <1>2, <1>3, NoWrite, ActEntry
<1>9. fr.pc = "class" => ~info.known
  BY <1>2 DEF ActInv
<1>10. \/ b \notin Functions(prog) /\ SetTop(w, NextBody(fr, fr.ok))
       \/ b \in Functions(prog) /\ SetTop(w, NextBody(fr, ok))
  BY <1>2, <1>7 DEF ReadBody
<1> HIDE DEF ok, info
<1>11. ASSUME NEW r, SetTop(w, NextBody(fr, r)) PROVE Continues(w, NextBody(fr, r), info)
  <2>1. stack' = [stack EXCEPT ![w] = <<NextBody(fr, r)>>]
    BY <1>1, <1>11, SetTopAct
  <2>2. NextBody(fr, r).func = fr.func /\ NextBody(fr, r).pc = fr.pc
    BY FrameFields
  <2> QED
    BY <1>1, <1>3, <1>8, <1>9, <2>1, <2>2 DEF Continues, info
<1> QED
  BY <1>1, <1>3, <1>10, <1>11 DEF ok, info

LEMMA FinishCallForm ==
    ASSUME TypeInv, OrderInv, NEW w \in Workers, FinishCall(w)
    PROVE  LET fr == Act(w)
               callee == ResolvedName(prog, CurrentEffect(fr))
               info == function_safety[fr.func]
           IN  /\ Busy(w) /\ fr.pc = "call" /\ ~HasBody(fr) /\ CurrentEffect(fr) \in Effects
               /\ \E ret :
                    \/ ~fr.ok /\ Continues(w, NextEffect(fr, ret), FailedCallee(info, callee))
                    \/ /\ fr.ok /\ InheritsIfImported(fr.func, callee)
                       /\ Continues(w, NextEffect(fr, ret), WithIfImported(info))
                    \/ /\ fr.ok /\ ~InheritsIfImported(fr.func, callee)
                       /\ Continues(w, NextEffect(fr, ret), info)
<1> DEFINE fr == Act(w)
           callee == ResolvedName(prog, CurrentEffect(fr))
           info == function_safety[fr.func]
           inherits == fr.ok /\ InheritsIfImported(fr.func, callee)
           ret == fr.ret /\ fr.ok /\ ~(inherits /\ fr.caller # prog.module[fr.func])
           new == CASE ~fr.ok   -> FailedCallee(info, callee)
                    [] inherits -> WithIfImported(info)
                    [] OTHER    -> info
<1>1. Busy(w)
  BY DEF FinishCall
<1>2. Top(w) = Act(w) /\ fr \in Frames /\ fr.ok \in BOOLEAN
  BY <1>1, ActFacts DEF Frames
<1>3. /\ fr.pc = "call" /\ ~HasBody(fr)
      /\ prog' = prog /\ phase' = phase /\ level' = level /\ pending' = pending
  BY <1>2 DEF FinishCall
<1>4. CurrentEffect(fr) \in Effects
  BY <1>1, <1>2, <1>3, TopFacts
<1>5. callee \in Names
  BY <1>4, CalleesType DEF TypeInv, TypeOK
<1>6. /\ EntryStep(info, UnsafeInfo) /\ EntryStep(info, WithMissingDep(info, {callee}))
      /\ EntryStep(info, info) /\ EntryStep(info, WithIfImported(info))
  BY <1>1, <1>5, ActEntry
<1>7. EntryStep(info, FailedCallee(info, callee))
  BY <1>6 DEF FailedCallee
<1>8. Write(fr.func, new) /\ SetTop(w, NextEffect(fr, ret))
  BY <1>2 DEF FinishCall
<1>9. /\ ~fr.ok => new = FailedCallee(info, callee)
      /\ inherits => new = WithIfImported(info)
      /\ fr.ok /\ ~inherits => new = info
  OBVIOUS
<1>10. EntryStep(info, new)
  BY <1>2, <1>6, <1>7, <1>9
<1> HIDE DEF new, ret
<1>11. stack' = [stack EXCEPT ![w] = <<NextEffect(fr, ret)>>]
  BY <1>1, <1>8, SetTopAct
<1>12. Continues(w, NextEffect(fr, ret), new)
  BY <1>1, <1>3, <1>8, <1>10, <1>11, FrameFields DEF Continues
<1> QED
  BY <1>1, <1>2, <1>3, <1>4, <1>9, <1>12

LEMMA FinishBodyForm ==
    ASSUME TypeInv, OrderInv, NEW w \in Workers, FinishBody(w)
    PROVE  LET fr == Act(w)
               info == function_safety[fr.func]
           IN  /\ Busy(w) /\ fr.pc = "effect" /\ fr.pos > Len(prog.effects[fr.func])
               /\ function_safety' = function_safety
               /\ \/ info.known /\ Leaves(w, info)
                  \/ ~info.known /\ Continues(w, Marking(fr), info)
<1> DEFINE fr == Act(w)
           info == function_safety[fr.func]
<1>1. Busy(w)
  BY DEF FinishBody
<1>2. Top(w) = Act(w) /\ fr.func \in Names
  BY <1>1, ActFacts
<1>3. /\ fr.pc = "effect" /\ fr.pos > Len(prog.effects[fr.func])
      /\ prog' = prog /\ phase' = phase /\ level' = level /\ pending' = pending
      /\ function_safety' = function_safety
  BY <1>2 DEF FinishBody, EffectsOf
<1>4. Write(fr.func, info) /\ EntryStep(info, info)
  BY <1>1, <1>2, <1>3, NoWrite, ActEntry
<1>5. CASE info.known /\ Return(w, fr.ret)
  <2>1. stack' = [stack EXCEPT ![w] = <<>>]
    BY <1>1, <1>5, ReturnAct
  <2>2. Leaves(w, info)
    BY <1>1, <1>3, <1>4, <1>5, <2>1 DEF Leaves
  <2> QED
    BY <1>1, <1>3, <1>5, <2>2
<1>6. CASE ~info.known /\ SetTop(w, Marking(fr))
  <2>1. stack' = [stack EXCEPT ![w] = <<Marking(fr)>>]
    BY <1>1, <1>6, SetTopAct
  <2>2. Continues(w, Marking(fr), info)
    BY <1>1, <1>3, <1>4, <1>6, <2>1, FrameFields DEF Continues
  <2> QED
    BY <1>1, <1>3, <1>6, <2>2
<1> QED
  BY <1>2, <1>5, <1>6 DEF FinishBody

LEMMA MarkSafeForm ==
    ASSUME TypeInv, OrderInv, NEW w \in Workers, MarkSafe(w)
    PROVE  /\ Busy(w) /\ Act(w).pc = "mark" /\ ~function_safety[Act(w).func].known
           /\ Leaves(w, SafeInfo)
<1>1. Busy(w)
  BY DEF MarkSafe
<1>2. Top(w) = Act(w) /\ ActInv(w)
  BY <1>1, ActFacts
<1>3. /\ Act(w).pc = "mark" /\ Write(Act(w).func, SafeInfo) /\ Return(w, Act(w).ret)
      /\ prog' = prog /\ phase' = phase /\ level' = level /\ pending' = pending
  BY <1>2 DEF MarkSafe
<1>4. stack' = [stack EXCEPT ![w] = <<>>]
  BY <1>1, <1>3, ReturnAct
<1>5. ~function_safety[Act(w).func].known
  BY <1>2, <1>3 DEF ActInv
<1>6. EntryStep(function_safety[Act(w).func], SafeInfo)
  BY <1>1, <1>5, ActEntry
<1> QED
  BY <1>1, <1>3, <1>4, <1>5, <1>6 DEF Leaves, SafeInfo

LEMMA FinishClassForm ==
    ASSUME TypeInv, OrderInv, NEW w \in Workers, FinishClass(w)
    PROVE  /\ Busy(w) /\ Act(w).pc = "class" /\ ~function_safety[Act(w).func].known
           /\ ~HasBody(Act(w))
           /\ Leaves(w, ConstructorVerdict(Act(w).func, Act(w).ok))
           /\ \E info : Leaves(w, info)
<1>1. Busy(w)
  BY DEF FinishClass
<1> DEFINE f == Act(w).func
           info == ConstructorVerdict(f, Act(w).ok)
<1>2. Top(w) = Act(w) /\ ActInv(w) /\ FrameOK(Act(w)) /\ f \in Names
  BY <1>1, ActFacts
<1>3. /\ Act(w).pc = "class" /\ ~HasBody(Act(w))
      /\ Write(f, info) /\ stack' = [stack EXCEPT ![w] = <<>>]
      /\ prog' = prog /\ phase' = phase /\ level' = level /\ pending' = pending
  BY <1>2 DEF FinishClass, IsClassFrame
<1>4. ~function_safety[f].known
  BY <1>2, <1>3 DEF ActInv
<1>5. ~IsUnsafe(function_safety[f])
  BY <1>2, <1>4 DEF OrderInv, EntryInv, Absent, IsUnsafe
<1>6. TypeInv'
  BY StepTypeInv, <1>3 DEF Step
<1>7. info \in Infos
  <2>1. function_safety' \in [Names -> Infos] /\ function_safety'[f] = info
    BY <1>2, <1>3, <1>6 DEF TypeInv, TypeOK, Write
  <2> QED
    BY <1>2, <2>1
<1>8. info.known
  BY DEF ConstructorVerdict, SafeInfo, UnsafeInfo
<1> HIDE DEF info
<1>9. EntryStep(function_safety[f], info)
  BY <1>4, <1>5, <1>7, <1>8 DEF EntryStep
<1>10. Leaves(w, info)
  BY <1>1, <1>3, <1>8, <1>9 DEF Leaves
<1> QED
  BY <1>1, <1>3, <1>4, <1>10 DEF info

-----------------------------------------------------------------------------
(* Every step keeps the order.                                               *)

\* The entries after a step on an activation.
LEMMA WriteEntries ==
    ASSUME TypeInv, OrderInv, NEW w \in Workers, Busy(w), NEW info, Write(Act(w).func, info)
    PROVE  \A n \in Names : function_safety'[n] =
               IF n = Act(w).func THEN info ELSE function_safety[n]
  BY ActFacts DEF Write, TypeInv, TypeOK

LEMMA StaticKept ==
    ASSUME prog' = prog
    PROVE  /\ LeveledNodes' = LeveledNodes /\ Settled' = Settled /\ Nodes(prog)' = Nodes(prog)
           /\ Functions(prog)' = Functions(prog) /\ (Leveled(prog)' <=> Leveled(prog))
  BY DEF LeveledNodes, Settled, Nodes, Functions

LEMMA EntriesKeepOrder ==
    ASSUME TypeInv, OrderInv, NEW w \in Workers, Busy(w), NEW info,
           prog' = prog, phase' = phase, level' = level, pending' = pending,
           Write(Act(w).func, info), EntryStep(function_safety[Act(w).func], info)
    PROVE  /\ Leveled(prog)' /\ EntryInv'
           /\ \A n \in Settled : function_safety'[n] = function_safety[n]
           /\ \A n \in Names : function_safety[n].known => function_safety'[n].known
           /\ \A n \in LeveledNodes \ prog.declared_safe :
                 function_safety'[n].known => prog.level[n] < level
<1> DEFINE f == Act(w).func
<1>1. \A n \in Names : function_safety'[n] = IF n = f THEN info ELSE function_safety[n]
  BY WriteEntries
<1>2. f \in LeveledNodes \ prog.declared_safe /\ f \in Names /\ prog.level[f] < level
  BY ActFacts DEF ActInv
<1>3. ProgramShape(prog) /\ Nodes(prog) \subseteq Names
  BY NodesAreNames DEF TypeInv, TypeOK
<1>4. f \in Nodes(prog) /\ f \notin Settled /\ Settled \subseteq Names
  BY <1>2, <1>3 DEF LeveledNodes, Settled, OrderInv, Leveled
<1>5. Leveled(prog)'
  BY StaticKept DEF OrderInv
<1>6. EntryInv'
  <2>1. \A n \in Names : function_safety'[n].known \/ function_safety'[n] = Absent
    BY <1>1 DEF EntryStep, OrderInv, EntryInv
  <2>2. \A n \in Names \ Nodes(prog) : function_safety'[n] = Absent
    BY <1>1, <1>4 DEF OrderInv, EntryInv
  <2>3. Absent' = Absent
    BY DEF Absent
  <2> QED
    BY <2>1, <2>2, <2>3, StaticKept DEF EntryInv
<1>7. \A n \in Settled : function_safety'[n] = function_safety[n]
  BY <1>1, <1>4
<1>8. \A n \in Names : function_safety[n].known => function_safety'[n].known
  BY <1>1 DEF EntryStep
<1>9. \A n \in LeveledNodes \ prog.declared_safe :
         function_safety'[n].known => prog.level[n] < level
  BY <1>1, <1>2, <1>3 DEF LeveledNodes, OrderInv, LevelInv
<1> QED
  BY <1>5, <1>6, <1>7, <1>8, <1>9

LEMMA ContinuesOrder ==
    ASSUME TypeInv, OrderInv, NEW w \in Workers, NEW fr, NEW info, Continues(w, fr, info)
    PROVE  OrderInv'
<1> DEFINE f == Act(w).func
<1>1. /\ Busy(w) /\ prog' = prog /\ phase' = phase /\ level' = level /\ pending' = pending
      /\ Write(f, info) /\ EntryStep(function_safety[f], info)
      /\ stack' = [stack EXCEPT ![w] = <<fr>>] /\ fr.func = f
      /\ fr.pc = "class" <=> Act(w).pc = "class"
      /\ fr.pc \in {"mark", "class"} => ~info.known
  BY DEF Continues
<1>2. ActInv(w) /\ phase = "precompute"
  BY <1>1, ActFacts
<1>3. \A n \in Names : function_safety'[n] = IF n = f THEN info ELSE function_safety[n]
  BY <1>1, WriteEntries
<1>4. /\ Leveled(prog)' /\ EntryInv'
      /\ \A n \in Settled : function_safety'[n] = function_safety[n]
      /\ \A n \in Names : function_safety[n].known => function_safety'[n].known
      /\ \A n \in LeveledNodes \ prog.declared_safe :
            function_safety'[n].known => prog.level[n] < level
  BY <1>1, EntriesKeepOrder
<1>5. \A v \in Workers : stack'[v] = IF v = w THEN <<fr>> ELSE stack[v]
  BY <1>1 DEF TypeInv, TypeOK
<1>6. /\ Busy(w)' /\ Act(w)' = fr /\ Len(stack'[w]) = 1
      /\ \A v \in Workers : v # w => (Busy(v)' <=> Busy(v)) /\ Act(v)' = Act(v)
  BY <1>5 DEF Busy, Act
<1>7. \A n : Working(n) => Working(n)'
  BY <1>1, <1>6 DEF Working
<1>8. PhaseInv'
  BY <1>1, <1>2, <1>4, StaticKept DEF PhaseInv, OrderInv
<1>9. LevelInv'
  <2>1. LeveledNodes \subseteq Names
    BY NodesAreNames DEF LeveledNodes, TypeInv, TypeOK
  <2> QED
    BY <1>1, <1>4, <1>7, <2>1, StaticKept DEF LevelInv, OrderInv
<1>10. WorkInv'
  <2>1. ActInv(w)'
    BY <1>1, <1>2, <1>3, <1>6, StaticKept, ActFacts DEF ActInv
  <2>2. ASSUME NEW v \in Workers, v # w, Busy(v)' PROVE ActInv(v)'
    <3>1. Busy(v) /\ ActInv(v) /\ Act(v)' = Act(v) /\ stack'[v] = stack[v]
      BY <1>5, <1>6, <2>2 DEF OrderInv, WorkInv
    <3>2. Act(v).func # f /\ Act(v).func \in Names
      BY <1>1, <2>2, <3>1, ActFacts DEF OrderInv, WorkInv
    <3> QED
      BY <1>1, <1>3, <3>1, <3>2, StaticKept DEF ActInv
  <2>3. ASSUME NEW u \in Workers, NEW v \in Workers, Busy(u)', Busy(v)', Act(u)'.func = Act(v)'.func
        PROVE  u = v
    BY <1>1, <1>6, <2>3 DEF OrderInv, WorkInv
  <2> QED
    BY <2>1, <2>2, <2>3 DEF WorkInv
<1> QED
  BY <1>4, <1>8, <1>9, <1>10 DEF OrderInv

LEMMA LeavesOrder ==
    ASSUME TypeInv, OrderInv, NEW w \in Workers, NEW info, Leaves(w, info)
    PROVE  OrderInv'
<1> DEFINE f == Act(w).func
<1>1. /\ Busy(w) /\ prog' = prog /\ phase' = phase /\ level' = level /\ pending' = pending
      /\ Write(f, info) /\ EntryStep(function_safety[f], info)
      /\ stack' = [stack EXCEPT ![w] = <<>>] /\ info.known
  BY DEF Leaves
<1>2. ActInv(w) /\ phase = "precompute" /\ f \in Names
  BY <1>1, ActFacts
<1>3. \A n \in Names : function_safety'[n] = IF n = f THEN info ELSE function_safety[n]
  BY <1>1, WriteEntries
<1>4. /\ Leveled(prog)' /\ EntryInv'
      /\ \A n \in Settled : function_safety'[n] = function_safety[n]
      /\ \A n \in Names : function_safety[n].known => function_safety'[n].known
      /\ \A n \in LeveledNodes \ prog.declared_safe :
            function_safety'[n].known => prog.level[n] < level
  BY <1>1, EntriesKeepOrder
<1>5. \A v \in Workers : stack'[v] = IF v = w THEN <<>> ELSE stack[v]
  BY <1>1 DEF TypeInv, TypeOK
<1>6. /\ ~Busy(w)'
      /\ \A v \in Workers : v # w => (Busy(v)' <=> Busy(v)) /\ Act(v)' = Act(v)
  BY <1>5 DEF Busy, Act
<1>7. \A n \in Names : Working(n) => Working(n)' \/ function_safety'[n].known
  BY <1>1, <1>3, <1>6 DEF Working
<1>8. PhaseInv'
  BY <1>1, <1>2, <1>4, StaticKept DEF PhaseInv, OrderInv
<1>9. LevelInv'
  <2>1. LeveledNodes \subseteq Names
    BY NodesAreNames DEF LeveledNodes, TypeInv, TypeOK
  <2> QED
    BY <1>1, <1>4, <1>7, <2>1, StaticKept DEF LevelInv, OrderInv
<1>10. WorkInv'
  <2>2. ASSUME NEW v \in Workers, Busy(v)' PROVE ActInv(v)'
    <3>1. v # w /\ Busy(v) /\ ActInv(v) /\ Act(v)' = Act(v) /\ stack'[v] = stack[v]
      BY <1>5, <1>6, <2>2 DEF OrderInv, WorkInv
    <3>2. Act(v).func # f /\ Act(v).func \in Names
      BY <1>1, <2>2, <3>1, ActFacts DEF OrderInv, WorkInv
    <3> QED
      BY <1>1, <1>3, <3>1, <3>2, StaticKept DEF ActInv
  <2>3. ASSUME NEW u \in Workers, NEW v \in Workers, Busy(u)', Busy(v)', Act(u)'.func = Act(v)'.func
        PROVE  u = v
    BY <1>1, <1>6, <2>3 DEF OrderInv, WorkInv
  <2> QED
    BY <2>2, <2>3 DEF WorkInv
<1> QED
  BY <1>4, <1>8, <1>9, <1>10 DEF OrderInv

LEMMA BeginOrder ==
    ASSUME TypeInv, OrderInv, NEW w \in Workers, NEW n \in pending, Begin(w, n)
    PROVE  OrderInv'
<1> DEFINE fr == IF n \in prog.classes THEN ClassFrame(n) ELSE FunctionFrame(n, prog.module[n])
<1>1. /\ ~Busy(w) /\ prog' = prog /\ phase' = phase /\ level' = level /\ phase = "precompute"
      /\ pending' = pending \ {n} /\ function_safety' = function_safety
  BY DEF Begin
<1>2. n \in LeveledNodes /\ prog.level[n] + 1 = level /\ prog.level[n] \in Nat
  BY DEF OrderInv, LevelInv, Leveled, LeveledNodes
<1>3. Leveled(prog)' /\ EntryInv'
  BY <1>1, StaticKept DEF OrderInv, EntryInv, Absent
<1>4. PhaseInv'
  BY <1>1, StaticKept DEF PhaseInv, OrderInv
<1>5. CASE function_safety[n].known
  <2>1. stack' = stack
    BY <1>5 DEF Begin
  <2>2. \A v : (Busy(v)' <=> Busy(v)) /\ Act(v)' = Act(v)
    BY <2>1 DEF Busy, Act
  <2>3. \A m : Working(m)' <=> Working(m)
    BY <2>2 DEF Working
  <2>4. LevelInv'
    BY <1>1, <1>5, <2>3, StaticKept DEF LevelInv, OrderInv
  <2>5. WorkInv'
    <3>1. ASSUME NEW v \in Workers, Busy(v) PROVE ActInv(v)'
      BY <1>1, <2>1, <2>2, <3>1, StaticKept DEF OrderInv, WorkInv, ActInv
    <3> QED
      BY <2>2, <3>1 DEF OrderInv, WorkInv
  <2> QED
    BY <1>3, <1>4, <2>4, <2>5 DEF OrderInv
<1>6. CASE ~function_safety[n].known
  <2>1. stack' = [stack EXCEPT ![w] = <<fr>>]
    BY <1>6 DEF Begin
  <2>2. fr.func = n /\ (fr.pc = "class" <=> n \in prog.classes) /\ fr.pc \in {"class", "effect"}
    BY DEF ClassFrame, FunctionFrame, Frame
  <2> HIDE DEF fr
  <2>3. \A v \in Workers : stack'[v] = IF v = w THEN <<fr>> ELSE stack[v]
    BY <2>1 DEF TypeInv, TypeOK
  <2>4. /\ Busy(w)' /\ Act(w)' = fr /\ Len(stack'[w]) = 1
        /\ \A v \in Workers : v # w => (Busy(v)' <=> Busy(v)) /\ Act(v)' = Act(v)
    BY <2>3 DEF Busy, Act
  <2>5. \A m : Working(m) => Working(m)'
    BY <1>1, <2>4 DEF Working
  <2>6. Working(n)'
    BY <2>2, <2>4 DEF Working
  <2>7. LevelInv'
    BY <1>1, <2>5, <2>6, StaticKept DEF LevelInv, OrderInv
  <2>8. n \notin prog.declared_safe
    <3>1. n \in prog.declared_safe => n \in Settled
      BY <1>2 DEF LeveledNodes, Settled
    <3> QED
      BY <1>1, <1>6, <3>1 DEF OrderInv, PhaseInv, SafeInfo, UnsafeInfo
  <2>9. WorkInv'
    <3>1. ActInv(w)'
      BY <1>1, <1>2, <1>6, <2>2, <2>4, <2>8, StaticKept DEF ActInv
    <3>2. ASSUME NEW v \in Workers, v # w, Busy(v)' PROVE ActInv(v)' /\ Act(v)'.func # n
      <4>1. Busy(v) /\ ActInv(v) /\ Act(v)' = Act(v) /\ stack'[v] = stack[v]
        BY <2>3, <2>4, <3>2 DEF OrderInv, WorkInv
      <4> QED
        BY <1>1, <4>1, StaticKept DEF ActInv
    <3>3. ASSUME NEW u \in Workers, NEW v \in Workers, Busy(u)', Busy(v)', Act(u)'.func = Act(v)'.func
          PROVE  u = v
      BY <1>1, <2>2, <2>4, <3>2, <3>3 DEF OrderInv, WorkInv
    <3> QED
      BY <3>1, <3>2, <3>3 DEF WorkInv
  <2> QED
    BY <1>3, <1>4, <2>7, <2>9 DEF OrderInv
<1> QED
  BY <1>5, <1>6

LEMMA PassesOrder ==
    ASSUME TypeInv, OrderInv, MarkRecursive \/ MarkDeclaredSafe \/ NextLevel
    PROVE  OrderInv'
<1>1. prog' = prog /\ stack' = stack
  BY DEF MarkRecursive, MarkDeclaredSafe, NextLevel
<1>2. \A v : (Busy(v)' <=> Busy(v)) /\ Act(v)' = Act(v)
  BY <1>1 DEF Busy, Act
<1>3. /\ LeveledNodes' = LeveledNodes /\ Settled' = Settled /\ Nodes(prog)' = Nodes(prog)
      /\ Leveled(prog)'
  BY <1>1, StaticKept DEF OrderInv
<1>4. /\ Nodes(prog) \subseteq Names /\ prog.in_cycle \subseteq Nodes(prog)
      /\ \A n \in LeveledNodes : prog.level[n] \in Nat
      /\ LeveledNodes \subseteq Nodes(prog) /\ LeveledNodes \cap prog.in_cycle = {}
      /\ Settled \subseteq Names
  BY NodesAreNames DEF TypeInv, TypeOK, OrderInv, Leveled, LeveledNodes, Settled
<1>5. CASE MarkRecursive
  <2>1. /\ phase = "recursive" /\ phase' = "declared" /\ level' = level /\ pending' = pending
        /\ function_safety' = [n \in Names |-> IF n \in prog.in_cycle THEN UnsafeInfo ELSE function_safety[n]]
    BY <1>5 DEF MarkRecursive
  <2>2. /\ level = 0 /\ pending = {} /\ \A w \in Workers : ~Busy(w)
        /\ \A n \in Names : function_safety[n] = Absent
    BY <2>1 DEF OrderInv, PhaseInv
  <2>3. \A n \in Names : function_safety'[n] = IF n \in prog.in_cycle THEN UnsafeInfo ELSE Absent
    BY <2>1, <2>2
  <2>4. PhaseInv'
    BY <1>1, <1>2, <2>1, <2>2, <2>3 DEF PhaseInv, UnsafeInfo, Absent
  <2>5. LevelInv'
    BY <1>1, <1>3, <1>4, <2>1, <2>2, <2>3 DEF LevelInv, Absent
  <2>6. WorkInv'
    BY <1>2, <2>2 DEF WorkInv
  <2>7. EntryInv'
    BY <1>3, <1>4, <2>3 DEF EntryInv, UnsafeInfo, Absent
  <2> QED
    BY <1>3, <2>4, <2>5, <2>6, <2>7 DEF OrderInv
<1>6. CASE MarkDeclaredSafe
  <2>1. /\ phase = "declared" /\ phase' = "precompute" /\ level' = level /\ pending' = pending
        /\ function_safety' = [n \in Names |->
              IF n \in Nodes(prog) \cap prog.declared_safe THEN SafeInfo ELSE function_safety[n]]
    BY <1>6 DEF MarkDeclaredSafe
  <2>2. /\ level = 0 /\ pending = {} /\ \A w \in Workers : ~Busy(w)
        /\ \A n \in Names : function_safety[n] = IF n \in prog.in_cycle THEN UnsafeInfo ELSE Absent
    BY <2>1 DEF OrderInv, PhaseInv
  <2>3. \A n \in Names : function_safety'[n] =
            IF n \in Nodes(prog) \cap prog.declared_safe THEN SafeInfo
            ELSE IF n \in prog.in_cycle THEN UnsafeInfo ELSE Absent
    BY <2>1, <2>2
  <2>4. PhaseInv'
    <3>1. \A n \in Settled : function_safety'[n] = IF n \in prog.declared_safe THEN SafeInfo ELSE UnsafeInfo
      BY <1>4, <2>3 DEF Settled
    <3> QED
      BY <1>1, <1>3, <2>1, <3>1 DEF PhaseInv, SafeInfo, UnsafeInfo
  <2>5. LevelInv'
    BY <1>1, <1>3, <1>4, <2>1, <2>2, <2>3 DEF LevelInv, Absent
  <2>6. WorkInv'
    BY <1>2, <2>2 DEF WorkInv
  <2>7. EntryInv'
    BY <1>3, <1>4, <2>3 DEF EntryInv, SafeInfo, UnsafeInfo, Absent
  <2> QED
    BY <1>3, <2>4, <2>5, <2>6, <2>7 DEF OrderInv
<1>7. CASE NextLevel
  <2>1. /\ phase = "precompute" /\ pending = {} /\ \A w \in Workers : ~Busy(w)
        /\ function_safety' = function_safety
    BY <1>7 DEF NextLevel
  <2>2. \A n : ~Working(n)
    BY <2>1 DEF Working
  <2>3. level \in Nat
    BY DEF TypeInv, TypeOK
  <2>4. WorkInv'
    BY <1>2, <2>1 DEF WorkInv
  <2>5. EntryInv'
    BY <1>3, <2>1 DEF OrderInv, EntryInv, Absent
  <2>6. CASE /\ level' = level + 1 /\ phase' = phase
             /\ pending' = {n \in LeveledNodes : prog.level[n] = level}
    <3>1. PhaseInv'
      BY <1>1, <1>3, <2>1, <2>6 DEF OrderInv, PhaseInv
    <3>2. \A n \in LeveledNodes : prog.level[n] < level' /\ n \notin pending' => function_safety[n].known
      BY <1>4, <2>1, <2>2, <2>3, <2>6 DEF OrderInv, LevelInv
    <3>3. \A n \in pending' : n \in LeveledNodes /\ prog.level[n] + 1 = level'
      BY <1>4, <2>3, <2>6
    <3>4. \A n \in LeveledNodes \ prog.declared_safe : function_safety[n].known => prog.level[n] < level'
      BY <1>4, <2>3, <2>6 DEF OrderInv, LevelInv
    <3>5. LevelInv'
      BY <1>1, <1>3, <2>1, <3>2, <3>3, <3>4 DEF LevelInv
    <3> QED
      BY <1>3, <2>4, <2>5, <3>1, <3>5 DEF OrderInv
  <2>7. CASE /\ ~\E n \in LeveledNodes : prog.level[n] >= level
             /\ phase' = "done" /\ level' = level /\ pending' = pending
    <3>1. \A n \in LeveledNodes : prog.level[n] < level
      BY <1>4, <2>3, <2>7
    <3>2. PhaseInv'
      BY <1>1, <1>2, <1>3, <2>1, <2>7, <3>1 DEF OrderInv, PhaseInv
    <3>3. LevelInv'
      BY <1>1, <1>3, <2>1, <2>2, <2>7 DEF OrderInv, LevelInv
    <3> QED
      BY <1>3, <2>4, <2>5, <3>2, <3>3 DEF OrderInv
  <2> QED
    BY <1>7, <2>6, <2>7 DEF NextLevel
<1> QED
  BY <1>5, <1>6, <1>7

LEMMA StepOrder ==
    ASSUME TypeInv, OrderInv, Orderly(prog), NEW w \in Workers, Step(w)
    PROVE  OrderInv'
<1>1. ASSUME NEW n \in pending, Begin(w, n) PROVE OrderInv'
  BY <1>1, BeginOrder
<1>2. CASE LocalEffect(w)
  BY <1>2, LocalEffectForm, ContinuesOrder
<1>3. CASE StartCall(w)
  BY <1>3, StartCallForm, ContinuesOrder
<1>4. CASE ReadBody(w)
  BY <1>4, ReadBodyForm, ContinuesOrder
<1>5. CASE FinishCall(w)
  BY <1>5, FinishCallForm, ContinuesOrder
<1>6. CASE FinishBody(w)
  BY <1>6, FinishBodyForm, ContinuesOrder, LeavesOrder
<1>7. CASE MarkSafe(w)
  BY <1>7, MarkSafeForm, LeavesOrder
<1>8. CASE FinishClass(w)
  BY <1>8, FinishClassForm, LeavesOrder
<1> QED
  BY <1>1, <1>2, <1>3, <1>4, <1>5, <1>6, <1>7, <1>8 DEF Step

LEMMA InitOrder == Init => OrderInv
<1> SUFFICES ASSUME Init PROVE OrderInv
  OBVIOUS
<1>1. Leveled(prog) /\ ProgramShape(prog)
  BY ProgramsAssumption DEF Init
<1>2. \A w \in Workers : ~Busy(w)
  BY DEF Init, Busy
<1>3. \A n \in Names : function_safety[n] = Absent
  BY DEF Init
<1>4. PhaseInv
  BY <1>2, <1>3 DEF Init, PhaseInv
<1>5. LevelInv
  <2>1. \A n \in LeveledNodes : prog.level[n] \in Nat /\ n \in Names
    BY <1>1, NodesAreNames DEF Leveled, LeveledNodes
  <2> QED
    BY <1>3, <2>1 DEF Init, LevelInv, Absent
<1>6. WorkInv
  BY <1>2 DEF WorkInv
<1>7. EntryInv
  BY <1>3 DEF EntryInv
<1> QED
  BY <1>1, <1>4, <1>5, <1>6, <1>7 DEF OrderInv

LEMMA StutterOrder ==
    ASSUME OrderInv, UNCHANGED vars
    PROVE  OrderInv'
<1>1. \A v : (Busy(v)' <=> Busy(v)) /\ Act(v)' = Act(v)
  BY DEF vars, Busy, Act
<1>2. \A n : Working(n)' <=> Working(n)
  BY <1>1 DEF Working
<1>3. PhaseInv'
  BY <1>1, StaticKept DEF vars, OrderInv, PhaseInv, Absent, SafeInfo, UnsafeInfo
<1>4. LevelInv'
  BY <1>2, StaticKept DEF vars, OrderInv, LevelInv
<1>5. WorkInv'
  <2>1. ASSUME NEW v \in Workers, Busy(v) PROVE ActInv(v)'
    BY <1>1, <2>1, StaticKept DEF vars, OrderInv, WorkInv, ActInv
  <2> QED
    BY <1>1, <2>1 DEF OrderInv, WorkInv
<1>6. EntryInv'
  BY StaticKept DEF vars, OrderInv, EntryInv, Absent
<1> QED
  BY <1>3, <1>4, <1>5, <1>6, StaticKept DEF vars, OrderInv

LEMMA NextOrder == TypeInv /\ OrderInv /\ Orderly(prog) /\ [Next]_vars => OrderInv'
<1> SUFFICES ASSUME TypeInv, OrderInv, Orderly(prog), [Next]_vars PROVE OrderInv'
  OBVIOUS
<1>1. CASE MarkRecursive \/ MarkDeclaredSafe \/ NextLevel
  BY <1>1, PassesOrder
<1>2. ASSUME NEW w \in Workers, Step(w) PROVE OrderInv'
  BY <1>2, StepOrder
<1>3. CASE Done \/ UNCHANGED vars
  BY <1>3, StutterOrder DEF Done
<1> QED
  BY <1>1, <1>2, <1>3 DEF Next

LEMMA OrderInvariance == Spec /\ []Orderly(prog) => []OrderInv
  BY InitOrder, NextOrder, TypeInvariance, PTL DEF Spec

\* No step changes the program: one that is orderly stays so for good.
LEMMA ProgramKept == [Next]_vars => prog' = prog
<1> SUFFICES ASSUME [Next]_vars PROVE prog' = prog
  OBVIOUS
<1>1. CASE MarkRecursive \/ MarkDeclaredSafe \/ NextLevel
  BY <1>1 DEF MarkRecursive, MarkDeclaredSafe, NextLevel
<1>2. ASSUME NEW w \in Workers, Step(w) PROVE prog' = prog
  BY <1>2 DEF Step, Begin, LocalEffect, StartCall, ReadBody, FinishCall, FinishBody,
              MarkSafe, FinishClass
<1>3. CASE Done \/ UNCHANGED vars
  BY <1>3 DEF Done, vars
<1> QED
  BY <1>1, <1>2, <1>3 DEF Next

LEMMA OrderlyForever == Spec => []Orderly(prog) \/ []~Orderly(prog)
<1>1. Orderly(prog) /\ [Next]_vars => Orderly(prog)'
  BY ProgramKept
<1>2. ~Orderly(prog) /\ [Next]_vars => ~Orderly(prog)'
  BY ProgramKept
<1> QED
  BY <1>1, <1>2, PTL DEF Spec

\* "A node is visited only once every callee it reaches has a final verdict"
\* holds of every program whose settled classes have settled constructors and
\* whose calls are recorded under names that an edge orders, whatever the
\* number of workers.
THEOREM CalleesAreFinal == Spec => []CalleesFinal
<1>1. TypeInv /\ OrderInv /\ Orderly(prog) => CalleesFinal
  BY OrderGivesCalleesFinal
<1>2. ~Orderly(prog) => CalleesFinal
  BY DEF CalleesFinal
<1> QED
  BY OrderInvariance, TypeInvariance, OrderlyForever, <1>1, <1>2, PTL

\* In such a program no step of any worker takes back a hard Unsafe verdict.
THEOREM UnsafeStays == Spec => UnsafeIsKept
<1> DEFINE Keeps == \A n \in Names :
              IsUnsafe(function_safety[n]) /\ phase # "declared"
                 => IsUnsafe(function_safety'[n]) \/ ~Orderly(prog)
<1>1. ASSUME TypeInv, OrderInv, Orderly(prog), [Next]_vars PROVE Keeps \/ UNCHANGED vars
  <2>1. ASSUME NEW w \in Workers, Busy(w), NEW info, Write(Act(w).func, info),
               EntryStep(function_safety[Act(w).func], info)
        PROVE  Keeps
    BY <1>1, <2>1, WriteEntries DEF EntryStep
  <2>2. ASSUME NEW w \in Workers, NEW fr, NEW info, Continues(w, fr, info) PROVE Keeps
    BY <2>1, <2>2 DEF Continues
  <2>3. ASSUME NEW w \in Workers, NEW info, Leaves(w, info) PROVE Keeps
    BY <2>1, <2>3 DEF Leaves
  <2> HIDE DEF Keeps
  <2>4. ASSUME NEW w \in Workers, Step(w) PROVE Keeps
    <3>1. ASSUME NEW n \in pending, Begin(w, n) PROVE Keeps
      BY <3>1 DEF Begin, Keeps
    <3>2. CASE LocalEffect(w)
      BY <1>1, <2>2, <3>2, LocalEffectForm
    <3>3. CASE StartCall(w)
      BY <1>1, <2>2, <3>3, StartCallForm
    <3>4. CASE ReadBody(w)
      BY <1>1, <2>2, <3>4, ReadBodyForm
    <3>5. CASE FinishCall(w)
      BY <1>1, <2>2, <3>5, FinishCallForm
    <3>6. CASE FinishBody(w)
      BY <1>1, <2>2, <2>3, <3>6, FinishBodyForm
    <3>7. CASE MarkSafe(w)
      BY <1>1, <2>3, <3>7, MarkSafeForm
    <3>8. CASE FinishClass(w)
      BY <1>1, <2>3, <3>8, FinishClassForm
    <3> QED
      BY <2>4, <3>1, <3>2, <3>3, <3>4, <3>5, <3>6, <3>7, <3>8 DEF Step
  <2>5. CASE MarkRecursive
    BY <2>5 DEF MarkRecursive, Keeps, IsUnsafe, UnsafeInfo
  <2>6. CASE MarkDeclaredSafe
    BY <2>6 DEF MarkDeclaredSafe, Keeps
  <2>7. CASE NextLevel
    BY <2>7 DEF NextLevel, Keeps
  <2>8. CASE Done \/ UNCHANGED vars
    BY <2>8 DEF Done
  <2> QED
    BY <1>1, <2>4, <2>5, <2>6, <2>7, <2>8 DEF Next
<1>2. TypeInv /\ OrderInv /\ Orderly(prog) /\ [Next]_vars => [Keeps]_vars
  BY <1>1
<1>3. ~Orderly(prog) /\ [Next]_vars => [Keeps]_vars
  OBVIOUS
<1>4. Spec => [][Keeps]_vars
  <2> HIDE DEF Keeps
  <2> QED
    BY <1>2, <1>3, OrderlyForever, OrderInvariance, TypeInvariance, PTL DEF Spec
<1> QED
  BY <1>4 DEF UnsafeIsKept

-----------------------------------------------------------------------------
(* No function is evaluated inside its own evaluation, in any program whose  *)
(* cycles are marked, orderly or not.                                        *)

\* R joins every two nodes that a chain of edges joins, and joins no node
\* outside the marked cycles to itself.
Joins(p, R) ==
    /\ CallEdges(p) \subseteq R
    /\ \A a, b, c : <<a, b>> \in R /\ <<b, c>> \in R => <<a, c>> \in R
    /\ \A n \in Nodes(p) : <<n, n>> \in R => n \in p.in_cycle

\* What CsrGraph guarantees (CyclesExact): every node on a cycle is marked.
CyclesMarked(p) == \E R : Joins(p, R)

Chains(p) == CHOOSE R : Joins(p, R)

\* The activations of one stack, from the bottom: a chain of edges leads from
\* each to those above it, and none is marked.
Lineage(s) ==
    /\ \A i \in 1..Len(s) : s[i].func \in Nodes(prog) \ prog.in_cycle
    /\ \A i, j \in 1..Len(s) : i < j => <<s[i].func, s[j].func>> \in Chains(prog)

LineageInv ==
    /\ phase \in {"recursive", "declared"} => pending = {}
    /\ pending \subseteq LeveledNodes
    /\ phase # "recursive" => \A n \in prog.in_cycle : function_safety[n].known
    /\ \A w \in Workers : Busy(w) => phase = "precompute"
    /\ \A w \in Workers : Lineage(stack[w])

LEMMA ChainsJoin == ASSUME NEW p, CyclesMarked(p) PROVE Joins(p, Chains(p))
  BY DEF CyclesMarked, Chains

\* An edge, or two with a class between them, leads from the caller of a call to
\* each function that the call runs.
LEMMA BodiesReached ==
    ASSUME NEW p, ProgramShape(p), CyclesMarked(p), NEW f \in Functions(p),
           NEW i \in 1..Len(p.effects[f]), p.effects[f][i].kind \in CallKinds,
           NEW b \in SeqRange(Bodies(p, p.effects[f][i])) \cap Functions(p)
    PROVE  <<f, b>> \in Chains(p)
<1>1. Joins(p, Chains(p))
  BY ChainsJoin
<1>2. \A n \in EffectTargets(p, p.effects[f][i]) : <<f, n>> \in CallEdges(p)
  BY DEF CallEdges, FunctionEdges
<1>3. CASE b \in EffectTargets(p, p.effects[f][i])
  BY <1>1, <1>2, <1>3 DEF Joins
<1>4. ASSUME NEW c \in p.classes, c \in EffectTargets(p, p.effects[f][i]),
             b \in SeqRange(p.ctors[c])
      PROVE  <<f, b>> \in Chains(p)
  <2>1. <<c, b>> \in CallEdges(p)
    BY <1>4 DEF CallEdges, ConstructorEdges, ConstructorTarget, Nodes
  <2> QED
    BY <1>1, <1>2, <1>4, <2>1 DEF Joins
<1> QED
  BY <1>3, <1>4, BodyPaths

\* From the caller of an activation's call to a function it runs.
LEMMA FrameReaches ==
    ASSUME TypeInv, CyclesMarked(prog), NEW fr, FrameOK(fr), HasBody(fr),
           FrameBodies(fr)[fr.at] \in Functions(prog)
    PROVE  <<fr.func, FrameBodies(fr)[fr.at]>> \in Chains(prog)
<1> DEFINE b == FrameBodies(fr)[fr.at]
<1>1. ProgramShape(prog) /\ Joins(prog, Chains(prog))
  BY ChainsJoin DEF TypeInv, TypeOK
<1>2. fr.at \in Nat /\ fr.at >= 1 /\ fr.pos \in Nat /\ fr.pos >= 1
  BY DEF FrameOK, Frames
<1>3. CASE fr.pc = "class"
  <2>1. fr.func \in prog.classes /\ FrameBodies(fr) = prog.ctors[fr.func]
    BY <1>3 DEF FrameOK, FrameBodies, IsClassFrame
  <2>2. prog.ctors[fr.func] \in Seq(Names)
    BY <1>1, <2>1 DEF ProgramShape
  <2>3. fr.at \in 1..Len(prog.ctors[fr.func])
    BY <1>2, <2>1, <2>2 DEF HasBody
  <2>4. b \in SeqRange(prog.ctors[fr.func]) /\ b \in Nodes(prog)
    BY <2>1, <2>3 DEF SeqRange, Nodes
  <2>5. <<fr.func, b>> \in CallEdges(prog)
    BY <2>1, <2>4 DEF CallEdges, ConstructorEdges, ConstructorTarget
  <2> QED
    BY <1>1, <2>5 DEF Joins
<1>4. CASE fr.pc = "call"
  <2> DEFINE e == prog.effects[fr.func][fr.pos]
  <2>1. /\ fr.func \in Functions(prog) /\ fr.pos <= Len(prog.effects[fr.func]) /\ e.kind \in CallKinds
    BY <1>4 DEF FrameOK
  <2>2. prog.effects[fr.func] \in Seq(Effects)
    BY <1>1, <2>1 DEF ProgramShape
  <2>3. fr.pos \in 1..Len(prog.effects[fr.func])
    BY <1>2, <2>1, <2>2
  <2>4. FrameBodies(fr) = Bodies(prog, e)
    BY <1>4 DEF FrameBodies, IsClassFrame, CurrentEffect
  <2>5. Bodies(prog, e) \in Seq(Names)
    BY <1>1, <2>1, <2>3, EffectType, BodiesType
  <2>6. b \in SeqRange(Bodies(prog, e))
    BY <1>2, <2>4, <2>5 DEF HasBody, SeqRange
  <2> QED
    BY <1>1, <2>1, <2>3, <2>6, BodiesReached
<1> QED
  BY <1>3, <1>4 DEF HasBody

\* Stacks whose activations evaluate the same nodes, and a new activation on top.
LEMMA LineageKept ==
    ASSUME NEW s, NEW t, Lineage(s), Len(s) \in Nat, Len(t) \in Nat, Len(t) <= Len(s),
           \A i \in 1..Len(t) : t[i].func = s[i].func
    PROVE  Lineage(t)
<1>1. 1..Len(t) \subseteq 1..Len(s)
  OBVIOUS
<1> QED
  BY <1>1 DEF Lineage

LEMMA LineageGrows ==
    ASSUME CyclesMarked(prog), NEW s \in Seq(Frames), s # <<>>, Lineage(s), NEW fr \in Frames,
           fr.func \in Nodes(prog) \ prog.in_cycle,
           <<s[Len(s)].func, fr.func>> \in Chains(prog)
    PROVE  Lineage(Append(s, fr))
<1> DEFINE t == Append(s, fr)
           n == Len(s)
<1>1. n \in Nat \ {0} /\ Len(t) = n + 1 /\ \A i \in 1..(n + 1) : t[i] = IF i = n + 1 THEN fr ELSE s[i]
  OBVIOUS
<1> HIDE DEF t
<1>2. \A i \in 1..Len(t) : t[i].func \in Nodes(prog) \ prog.in_cycle
  BY <1>1 DEF Lineage
<1>3. \A i \in 1..n : <<s[i].func, fr.func>> \in Chains(prog)
  <2> SUFFICES ASSUME NEW i \in 1..n PROVE <<s[i].func, fr.func>> \in Chains(prog)
    OBVIOUS
  <2>1. i = n \/ (i < n /\ <<s[i].func, s[n].func>> \in Chains(prog))
    BY <1>1 DEF Lineage
  <2> QED
    BY <2>1, ChainsJoin DEF Joins
<1>4. ASSUME NEW i \in 1..Len(t), NEW j \in 1..Len(t), i < j
      PROVE  <<t[i].func, t[j].func>> \in Chains(prog)
  <2>1. i \in 1..n /\ t[i] = s[i]
    BY <1>1, <1>4
  <2>2. CASE j = n + 1
    BY <1>1, <1>3, <2>1, <2>2
  <2>3. CASE j # n + 1
    <3>1. j \in 1..n /\ t[j] = s[j]
      BY <1>1, <2>3
    <3> QED
      BY <1>4, <2>1, <3>1 DEF Lineage
  <2> QED
    BY <2>2, <2>3
<1>5. Lineage(t)
  BY <1>2, <1>4 DEF Lineage
<1> QED
  BY <1>5 DEF t

\* The activations that a step puts in the place of the top one evaluate the
\* same node.
LEMMA NextFrames ==
    ASSUME NEW x, FrameOK(x)
    PROVE  /\ \A b \in BOOLEAN : FrameOK(NextBody(x, b)) /\ NextBody(x, b).func = x.func
           /\ x.pc \in {"effect", "call"} =>
                 \A b \in BOOLEAN : FrameOK(NextEffect(x, b)) /\ NextEffect(x, b).func = x.func
           /\ /\ x.pc = "effect" /\ x.pos <= Len(prog.effects[x.func])
              /\ prog.effects[x.func][x.pos].kind \in CallKinds
              => \A b, c \in BOOLEAN : FrameOK(Calling(x, b, c)) /\ Calling(x, b, c).func = x.func
           /\ x.pc = "effect" => FrameOK(Marking(x)) /\ Marking(x).func = x.func
<1>1. ASSUME NEW b \in BOOLEAN, NEW c \in BOOLEAN
      PROVE  /\ FrameOK(NextBody(x, b)) /\ NextBody(x, b).func = x.func
             /\ x.pc \in {"effect", "call"} =>
                   FrameOK(NextEffect(x, b)) /\ NextEffect(x, b).func = x.func
             /\ /\ x.pc = "effect" /\ x.pos <= Len(prog.effects[x.func])
                /\ prog.effects[x.func][x.pos].kind \in CallKinds
                => FrameOK(Calling(x, b, c)) /\ Calling(x, b, c).func = x.func
             /\ x.pc = "effect" => FrameOK(Marking(x)) /\ Marking(x).func = x.func
  BY FrameTypes, FrameFields
<1> QED
  BY <1>1

LEMMA SetTopLineage ==
    ASSUME TypeInv, NEW w \in Workers, Busy(w), Lineage(stack[w]),
           NEW fr \in Frames, fr.func = Top(w).func, SetTop(w, fr)
    PROVE  \E t : stack' = [stack EXCEPT ![w] = t] /\ Lineage(t)
<1> DEFINE s == stack[w]
           t == [s EXCEPT ![Len(s)] = fr]
<1>1. s \in Seq(Frames) /\ Len(s) \in Nat \ {0}
  BY TopFacts
<1>2. Len(t) = Len(s) /\ \A i \in 1..Len(s) : t[i] = IF i = Len(s) THEN fr ELSE s[i]
  BY <1>1
<1>3. \A i \in 1..Len(t) : t[i].func = s[i].func
  BY <1>2 DEF Top
<1>4. Lineage(t)
  BY <1>1, <1>2, <1>3, LineageKept
<1> QED
  BY <1>4 DEF SetTop

LEMMA ReturnLineage ==
    ASSUME TypeInv, NEW w \in Workers, Busy(w), Lineage(stack[w]), NEW r \in BOOLEAN, Return(w, r)
    PROVE  \E t : stack' = [stack EXCEPT ![w] = t] /\ Lineage(t)
<1> DEFINE s == stack[w]
           n == Len(s)
<1>1. s \in Seq(Frames) /\ n \in Nat \ {0}
  BY TopFacts
<1>2. CASE n = 1
  <2>1. Lineage(<<>>)
    BY DEF Lineage
  <2> QED
    BY <1>2, <2>1 DEF Return
<1>3. CASE n # 1
  <2> DEFINE below == s[n - 1]
             fr == NextBody(below, below.ok /\ r)
             u == SubSeq(s, 1, n - 1)
             t == [u EXCEPT ![n - 1] = fr]
  <2>1. n - 1 \in 1..n /\ n - 1 \in Nat \ {0}
    <3>1. \A k \in Nat \ {0} : k # 1 => k - 1 \in 1..k /\ k - 1 \in Nat \ {0}
      OBVIOUS
    <3> HIDE DEF n
    <3> QED
      BY <1>1, <1>3, <3>1
  <2>2. FrameOK(below) /\ (below.ok /\ r) \in BOOLEAN
    BY <2>1 DEF TypeInv, StacksOK, StackOK, FrameOK, Frames
  <2>3. fr \in Frames /\ fr.func = below.func
    <3>1. \A x : FrameOK(x) => \A ok \in BOOLEAN : NextBody(x, ok) \in Frames /\ NextBody(x, ok).func = x.func
      BY NextFrames DEF FrameOK
    <3> HIDE DEF below
    <3> QED
      BY <2>2, <3>1
  <2>4. u \in Seq(Frames) /\ Len(u) = n - 1 /\ \A i \in 1..(n - 1) : u[i] = s[i]
    BY <1>1, <2>1
  <2>5. stack' = [stack EXCEPT ![w] = t]
    BY <1>3 DEF Return
  <2> HIDE DEF fr, u
  <2>6. Len(t) = n - 1 /\ \A i \in 1..(n - 1) : t[i] = IF i = n - 1 THEN fr ELSE s[i]
    BY <2>1, <2>3, <2>4
  <2>7. \A i \in 1..Len(t) : t[i].func = s[i].func
    BY <2>3, <2>6
  <2> HIDE DEF t
  <2>8. Len(t) \in Nat /\ Len(t) <= Len(s)
    BY <2>1, <2>6
  <2>9. Lineage(t)
    BY <1>1, <2>7, <2>8, LineageKept
  <2> QED
    BY <2>5, <2>9
<1> QED
  BY <1>2, <1>3

\* An entry that exists never goes.
LEMMA KnownKept ==
    ASSUME TypeInv, NEW w \in Workers, Step(w)
    PROVE  \A n \in Names : function_safety[n].known => function_safety'[n].known
<1> DEFINE Keeps == \A n \in Names : function_safety[n].known => function_safety'[n].known
<1> SUFFICES Keeps
  OBVIOUS
<1>1. ASSUME NEW f, NEW info, Write(f, info), function_safety[f].known => info.known PROVE Keeps
  BY <1>1 DEF Write, TypeInv, TypeOK
<1>2. ASSUME function_safety' = function_safety PROVE Keeps
  BY <1>2
<1>3. UnsafeInfo.known /\ SafeInfo.known /\ (\A i : WithIfImported(i).known)
      /\ \A i, cs : WithMissingDep(i, cs).known
  BY DEF UnsafeInfo, SafeInfo, WithIfImported, WithMissingDep
<1> HIDE DEF Keeps
<1>4. CASE LocalEffect(w)
  BY <1>1, <1>3, <1>4 DEF LocalEffect
<1>5. CASE StartCall(w)
  <2> DEFINE f == Top(w).func
             e == CurrentEffect(Top(w))
             info == ArgumentCheck(function_safety[f], e)
  <2>1. Write(f, IF e.name \in CallStackNames(w) THEN UnsafeInfo ELSE info)
    BY <1>5 DEF StartCall
  <2>2. e \in Effects
    BY <1>5, TopFacts DEF StartCall
  <2>3. e.mutates \in BOOLEAN
    BY <2>2 DEF Effects
  <2>4. info \in {UnsafeInfo, WithMissingDep(function_safety[f], e.defers), function_safety[f]}
    BY <2>3 DEF ArgumentCheck
  <2>5. function_safety[f].known => info.known
    BY <1>3, <2>4
  <2> HIDE DEF info, f, e
  <2>6. CASE e.name \in CallStackNames(w)
    BY <1>1, <1>3, <2>1, <2>6
  <2>7. CASE e.name \notin CallStackNames(w)
    BY <1>1, <2>1, <2>5, <2>7
  <2> QED
    BY <2>6, <2>7
<1>6. CASE FinishCall(w)
  <2> DEFINE fr == Top(w)
             callee == ResolvedName(prog, CurrentEffect(fr))
             old == function_safety[fr.func]
             inherits == fr.ok /\ InheritsIfImported(fr.func, callee)
             new == CASE ~fr.ok   -> FailedCallee(old, callee)
                      [] inherits -> WithIfImported(old)
                      [] OTHER    -> old
  <2>1. Write(fr.func, new)
    BY <1>6 DEF FinishCall
  <2>2. fr.ok \in BOOLEAN
    BY <1>6, TopFacts DEF FinishCall, Frames
  <2>3. new \in {FailedCallee(old, callee), WithIfImported(old), old}
    BY <2>2
  <2>4. FailedCallee(old, callee) \in {old, WithMissingDep(old, {callee}), UnsafeInfo}
    BY DEF FailedCallee
  <2> HIDE DEF new, callee
  <2>5. old.known => new.known
    BY <1>3, <2>3, <2>4
  <2> QED
    BY <1>1, <2>1, <2>5
<1>7. CASE FinishClass(w)
  <2>1. \A c, ok : ConstructorVerdict(c, ok).known
    BY DEF ConstructorVerdict, SafeInfo, UnsafeInfo
  <2> QED
    BY <1>1, <1>7, <2>1 DEF FinishClass
<1>8. CASE MarkSafe(w)
  BY <1>1, <1>3, <1>8 DEF MarkSafe
<1>9. CASE FinishBody(w) \/ ReadBody(w) \/ \E n \in pending : Begin(w, n)
  BY <1>2, <1>9 DEF FinishBody, ReadBody, Begin
<1> QED
  BY <1>4, <1>5, <1>6, <1>7, <1>8, <1>9 DEF Step

\* What a worker's step does to its stack.
LEMMA StepLineage ==
    ASSUME TypeInv, CyclesMarked(prog), LineageInv, NEW w \in Workers, Step(w)
    PROVE  \/ stack' = stack
           \/ \E t : stack' = [stack EXCEPT ![w] = t] /\ Lineage(t)
<1> DEFINE Good == \/ stack' = stack
                   \/ \E t : stack' = [stack EXCEPT ![w] = t] /\ Lineage(t)
<1>0. PICK fr : fr = Top(w)
  OBVIOUS
<1> SUFFICES Good
  OBVIOUS
<1>1. Lineage(stack[w]) /\ Lineage(<<>>)
  BY DEF LineageInv, Lineage
<1>2. ASSUME Busy(w), NEW x, FrameOK(x), x.func = fr.func, SetTop(w, x) PROVE Good
  BY <1>0, <1>1, <1>2, SetTopLineage DEF FrameOK
<1>3. ASSUME Busy(w), NEW r \in BOOLEAN, Return(w, r) PROVE Good
  BY <1>1, <1>3, ReturnLineage
<1>4. ASSUME NEW n \in pending, Begin(w, n) PROVE Good
  <2> DEFINE new == IF n \in prog.classes THEN ClassFrame(n) ELSE FunctionFrame(n, prog.module[n])
  <2>1. stack' = stack \/ stack' = [stack EXCEPT ![w] = <<new>>]
    BY <1>4 DEF Begin
  <2>2. new.func = n
    BY DEF ClassFrame, FunctionFrame, Frame
  <2> HIDE DEF new
  <2>3. n \in Nodes(prog) \ prog.in_cycle
    BY DEF LineageInv, LeveledNodes
  <2>4. Lineage(<<new>>)
    BY <2>2, <2>3 DEF Lineage
  <2> QED
    BY <2>1, <2>4
<1>5. Busy(w) => FrameOK(fr) /\ fr.ok \in BOOLEAN /\ fr.ret \in BOOLEAN
  BY <1>0, TopFacts DEF Frames
<1> HIDE DEF Good
<1>6. CASE LocalEffect(w)
  <2>1. PICK ret \in BOOLEAN : SetTop(w, NextEffect(fr, ret))
    BY <1>5, <1>0, <1>6 DEF LocalEffect
  <2>2. Busy(w) /\ fr.pc = "effect"
    BY <1>0, <1>6 DEF LocalEffect, HasEffect
  <2> QED
    BY <1>2, <1>5, <2>1, <2>2, NextFrames
<1>7. CASE FinishCall(w)
  <2>1. PICK ret \in BOOLEAN : SetTop(w, NextEffect(fr, ret))
    BY <1>5, <1>0, <1>7 DEF FinishCall
  <2>2. Busy(w) /\ fr.pc = "call"
    BY <1>0, <1>7 DEF FinishCall
  <2> QED
    BY <1>2, <1>5, <2>1, <2>2, NextFrames
<1>8. CASE StartCall(w)
  <2> DEFINE e == CurrentEffect(fr)
             ok == \A c \in SeqRange(Callees(prog, e)) : CanResolve(c)
             ret == fr.ret /\ ~e.mutates /\ e.defers = {}
  <2>1. Busy(w) /\ fr.pc = "effect" /\ fr.pos <= Len(prog.effects[fr.func]) /\ e.kind \in CallKinds
    BY <1>0, <1>8 DEF StartCall, HasEffect, EffectsOf
  <2>2. prog.effects[fr.func][fr.pos].kind \in CallKinds
    BY <2>1 DEF CurrentEffect
  <2>3. SetTop(w, NextEffect(fr, FALSE)) \/ SetTop(w, Calling(fr, ok, ret))
    BY <1>0, <1>8 DEF StartCall
  <2>4. ok \in BOOLEAN /\ ret \in BOOLEAN
    OBVIOUS
  <2> HIDE DEF ok, ret
  <2> QED
    BY <1>2, <1>5, <2>1, <2>2, <2>3, <2>4, NextFrames
<1>9. CASE FinishBody(w)
  <2>1. Busy(w) /\ fr.pc = "effect" /\ (Return(w, fr.ret) \/ SetTop(w, Marking(fr)))
    BY <1>0, <1>9 DEF FinishBody
  <2> QED
    BY <1>2, <1>3, <1>5, <2>1, NextFrames
<1>10. CASE MarkSafe(w)
  BY <1>0, <1>3, <1>5, <1>10 DEF MarkSafe
<1>11. CASE FinishClass(w)
  BY <1>1, <1>11 DEF FinishClass, Good
<1>12. CASE ReadBody(w)
  <2> DEFINE b == FrameBodies(fr)[fr.at]
             pass == BodyPasses(CallerModule(fr), b, function_safety[b])
  <2>1. Busy(w) /\ HasBody(fr)
    BY <1>0, <1>12 DEF ReadBody
  <2>2. ASSUME NEW ok \in BOOLEAN, SetTop(w, NextBody(fr, ok)) PROVE Good
    BY <1>2, <1>5, <2>1, <2>2, NextFrames
  <2>3. (fr.ok /\ pass) \in BOOLEAN /\ fr.ok \in BOOLEAN
    BY <1>5, <2>1
  <2>4. ASSUME b \in Functions(prog), ~function_safety[b].known,
               stack' = [stack EXCEPT ![w] = Append(stack[w], FunctionFrame(b, CallerModule(fr)))]
        PROVE  Good
    <3>1. <<fr.func, b>> \in Chains(prog)
      BY <1>5, <2>1, <2>4, FrameReaches
    <3>2. b \in Nodes(prog) \ prog.in_cycle
      <4>1. phase # "recursive"
        BY <2>1 DEF LineageInv
      <4> QED
        BY <2>4, <4>1 DEF LineageInv, Nodes
    <3>3. CallerModule(fr) \in Names \cup Modules
      <4>1. fr.func \in Names /\ (fr.pc # "class" => fr.func \in Functions(prog))
        BY <1>5, <2>1 DEF FrameOK, Frames
      <4> QED
        BY <4>1 DEF CallerModule, IsClassFrame, TypeInv, TypeOK, ProgramShape
    <3>4. PICK new : new = FunctionFrame(b, CallerModule(fr))
      OBVIOUS
    <3>5. new \in Frames /\ new.func = b
      <4>1. ProgramShape(prog)
        BY DEF TypeInv, TypeOK
      <4>2. FrameOK(new)
        BY <2>4, <3>3, <3>4, <4>1, NewFrames
      <4> QED
        BY <3>4, <4>2 DEF FrameOK, FunctionFrame, Frame
    <3>6. stack[w] \in Seq(Frames) /\ stack[w] # <<>> /\ fr = stack[w][Len(stack[w])]
      BY <1>0, <2>1, TopFacts DEF Busy, Top
    <3> HIDE DEF b
    <3>7. Lineage(Append(stack[w], new))
      BY <1>1, <3>1, <3>2, <3>5, <3>6, LineageGrows
    <3> QED
      BY <2>4, <3>4, <3>7 DEF Good
  <2> HIDE DEF pass
  <2> QED
    BY <1>0, <1>12, <2>2, <2>3, <2>4 DEF ReadBody, pass
<1> QED
  BY <1>4, <1>6, <1>7, <1>8, <1>9, <1>10, <1>11, <1>0, <1>12 DEF Step

LEMMA InitLineage == Init => LineageInv
<1> SUFFICES ASSUME Init PROVE LineageInv
  OBVIOUS
<1>1. \A w \in Workers : ~Busy(w) /\ Lineage(stack[w])
  BY DEF Init, Busy, Lineage
<1> QED
  BY <1>1 DEF Init, LineageInv

LEMMA NextLineage ==
    TypeInv /\ CyclesMarked(prog) /\ Leveled(prog) /\ LineageInv /\ [Next]_vars => LineageInv'
<1> SUFFICES ASSUME TypeInv, CyclesMarked(prog), Leveled(prog), LineageInv, [Next]_vars PROVE LineageInv'
  OBVIOUS
<1>1. prog' = prog
  BY ProgramKept
<1>2. prog.in_cycle \subseteq Names
  BY NodesAreNames DEF Leveled, TypeInv, TypeOK
<1>3. ASSUME NEW s, Lineage(s) PROVE Lineage(s)'
  BY <1>1, <1>3, StaticKept DEF Lineage
<1>4. ASSUME stack' = stack PROVE \A w \in Workers : (Busy(w)' <=> Busy(w)) /\ Lineage(stack[w])'
  BY <1>3, <1>4 DEF LineageInv, Busy
<1>5. CASE MarkRecursive
  <2>1. \A n \in prog.in_cycle : function_safety'[n].known
    BY <1>2, <1>5 DEF MarkRecursive, UnsafeInfo
  <2> QED
    BY <1>1, <1>4, <1>5, <2>1, StaticKept DEF MarkRecursive, LineageInv
<1>6. CASE MarkDeclaredSafe
  <2>1. \A n \in prog.in_cycle : function_safety'[n].known
    BY <1>2, <1>6 DEF MarkDeclaredSafe, LineageInv, SafeInfo
  <2> QED
    BY <1>1, <1>4, <1>6, <2>1, StaticKept DEF MarkDeclaredSafe, LineageInv
<1>7. CASE NextLevel
  <2>1. pending' \subseteq LeveledNodes /\ phase' \in {"precompute", "done"} /\ phase = "precompute"
    BY <1>7 DEF NextLevel, LineageInv
  <2>2. \A w \in Workers : ~Busy(w)
    BY <1>7 DEF NextLevel
  <2> QED
    BY <1>1, <1>4, <1>7, <2>1, <2>2, StaticKept DEF NextLevel, LineageInv
<1>8. ASSUME NEW w \in Workers, Step(w) PROVE LineageInv'
  <2>1. phase' = phase /\ pending' \subseteq pending
    BY <1>8 DEF Step, Begin, LocalEffect, StartCall, ReadBody, FinishCall, FinishBody, MarkSafe, FinishClass
  <2>2. \A n \in prog.in_cycle : function_safety[n].known => function_safety'[n].known
    BY <1>2, <1>8, KnownKept
  <2>3. phase = "precompute"
    <3>1. Busy(w) \/ phase = "precompute"
      BY <1>8 DEF Step, Begin, LocalEffect, StartCall, ReadBody, FinishCall, FinishBody, MarkSafe, FinishClass
    <3> QED
      BY <3>1 DEF LineageInv
  <2>4. \A v \in Workers : Lineage(stack'[v])
    <3>1. CASE stack' = stack
      BY <3>1 DEF LineageInv
    <3>2. ASSUME NEW t, stack' = [stack EXCEPT ![w] = t], Lineage(t)
          PROVE  \A v \in Workers : Lineage(stack'[v])
      <4>1. \A v \in Workers : stack'[v] = IF v = w THEN t ELSE stack[v]
        BY <3>2 DEF TypeInv, TypeOK
      <4> QED
        BY <3>2, <4>1 DEF LineageInv
    <3> QED
      BY <1>8, <3>1, <3>2, StepLineage
  <2>5. \A v \in Workers : Lineage(stack[v])'
    <3> SUFFICES ASSUME NEW v \in Workers PROVE Lineage(stack[v])'
      OBVIOUS
    <3>1. PICK s : s = stack'[v]
      OBVIOUS
    <3>2. Lineage(s)'
      BY <1>3, <2>4, <3>1
    <3> QED
      BY <3>1, <3>2 DEF Lineage
  <2> QED
    BY <1>1, <2>1, <2>2, <2>3, <2>5, StaticKept DEF LineageInv
<1>9. CASE Done \/ UNCHANGED vars
  BY <1>1, <1>4, <1>9, StaticKept DEF Done, vars, LineageInv
<1> QED
  BY <1>5, <1>6, <1>7, <1>8, <1>9 DEF Next

LEMMA LeveledForever == Spec => []Leveled(prog)
<1>1. Init => Leveled(prog)
  BY ProgramsAssumption DEF Init
<1>2. Leveled(prog) /\ [Next]_vars => Leveled(prog)'
  BY ProgramKept
<1> QED
  BY <1>1, <1>2, PTL DEF Spec

LEMMA CyclesMarkedForever == Spec => []CyclesMarked(prog) \/ []~CyclesMarked(prog)
<1>1. CyclesMarked(prog) /\ [Next]_vars => CyclesMarked(prog)'
  BY ProgramKept
<1>2. ~CyclesMarked(prog) /\ [Next]_vars => ~CyclesMarked(prog)'
  BY ProgramKept
<1> QED
  BY <1>1, <1>2, PTL DEF Spec

LEMMA LineageGivesNoReentry ==
    ASSUME TypeInv, CyclesMarked(prog), LineageInv, Orderly(prog) => OrderInv
    PROVE  NoReentry
<1>1. ASSUME NEW w \in Workers, NEW i \in 1..Len(stack[w]), NEW j \in 1..Len(stack[w]), i # j,
             stack[w][i].func = stack[w][j].func
      PROVE  FALSE
  <2>1. Lineage(stack[w]) /\ Joins(prog, Chains(prog))
    BY ChainsJoin DEF LineageInv
  <2>2. stack[w][i].func \in Nodes(prog) \ prog.in_cycle
    BY <2>1 DEF Lineage
  <2>3. i < j \/ j < i
    BY <1>1
  <2>4. <<stack[w][i].func, stack[w][i].func>> \in Chains(prog)
    BY <1>1, <2>1, <2>3 DEF Lineage
  <2> QED
    BY <2>1, <2>2, <2>4 DEF Joins
<1>2. ASSUME NEW w \in Workers, Orderly(prog), Busy(w) PROVE CallStackNames(w) = {}
  <2>1. Len(stack[w]) = 1
    BY <1>2, ActFacts
  <2> QED
    BY <2>1 DEF CallStackNames
<1> QED
  BY <1>1, <1>2 DEF NoReentry

\* No worker evaluates a function inside its own evaluation, in any program whose
\* cycles are all marked, orderly or not: the recursion on bodies without a
\* verdict ends because it follows edges and stops at the marked nodes.
THEOREM NothingIsReentered == Spec => [](CyclesMarked(prog) => NoReentry)
<1>1. Spec /\ []CyclesMarked(prog) => []LineageInv
  BY InitLineage, NextLineage, TypeInvariance, LeveledForever, PTL DEF Spec
<1>2. TypeInv /\ CyclesMarked(prog) /\ LineageInv /\ (Orderly(prog) => OrderInv) => NoReentry
  BY LineageGivesNoReentry
<1> QED
  BY <1>1, <1>2, TypeInvariance, OrderInvariance, OrderlyForever, CyclesMarkedForever, PTL

-----------------------------------------------------------------------------
(* The entry that a prefix of a function's effects determines.              *)

FatalIn(f, k) == \E j \in 1..k : Fatal(f, prog.effects[f][j])

TiesIn(f, k) == \E j \in 1..k : TiesToModule(f, prog.effects[f][j])

WaitsIn(f, k) == UNION {WaitsFor(f, prog.effects[f][j]) : j \in 1..k}

EntryOf(info, fatal, ties, waits) ==
    IF fatal THEN IsUnsafe(info)
    ELSE /\ info.verdict = (IF ties THEN {"IfImported"} ELSE {})
                           \cup (IF waits # {} THEN {"MissingDep"} ELSE {})
         /\ info.missing = waits

\* The result of a call after the bodies before position k.
PassesTo(f, e, k) ==
    /\ \A c \in SeqRange(Callees(prog, e)) : CanResolve(c)
    /\ \A i \in 1..(k - 1) : Bodies(prog, e)[i] \in Functions(prog) =>
          BodyPasses(prog.module[f], Bodies(prog, e)[i], function_safety[Bodies(prog, e)[i]])

ActExact(fr) ==
    LET f == fr.func
        k == fr.pos - 1
        e == prog.effects[f][fr.pos]
    IN  /\ fr.pc = "effect" =>
              /\ k <= Len(prog.effects[f])
              /\ EntryOf(function_safety[f], FatalIn(f, k), TiesIn(f, k), WaitsIn(f, k))
        /\ fr.pc = "mark" =>
              /\ k = Len(prog.effects[f])
              /\ EntryOf(function_safety[f], FatalIn(f, k), TiesIn(f, k), WaitsIn(f, k))
        /\ fr.pc = "call" =>
              /\ EntryOf(function_safety[f], FatalIn(f, k) \/ e.mutates, TiesIn(f, k),
                         WaitsIn(f, k) \cup e.defers)
              /\ fr.at <= Len(Bodies(prog, e)) + 1
              /\ fr.ok <=> PassesTo(f, e, fr.at)

DoneExact(f) ==
    LET k == Len(prog.effects[f]) IN
    EntryOf(function_safety[f], FatalIn(f, k), TiesIn(f, k), WaitsIn(f, k))

ExactInv ==
    /\ \A w \in Workers : Busy(w) => ActExact(Act(w))
    /\ \A f \in Evaluated : function_safety[f].known /\ ~Working(f) => DoneExact(f)

-----------------------------------------------------------------------------
(* What a call of a started function reads does not change any more.        *)

LEMMA CanResolveIff ==
    ASSUME TypeInv, OrderInv, NEW n \in Names
    PROVE  CanResolve(n) <=> n \in Callable(prog)
<1>1. n \notin Callable(prog) => n \notin Nodes(prog)
  BY DEF TypeInv, TypeOK, ProgramShape, Callable
<1>2. n \notin Nodes(prog) => ~function_safety[n].known
  BY DEF OrderInv, EntryInv, Absent
<1> QED
  BY <1>1, <1>2 DEF CanResolve

\* The name a call is recorded under is final, or not a node, or the function's
\* own, in a super() call that runs nothing.
LEMMA RecordedName ==
    ASSUME TypeInv, OrderInv, Orderly(prog),
           NEW f \in Functions(prog), f \in LeveledNodes, prog.level[f] < level,
           NEW j \in 1..Len(prog.effects[f]), prog.effects[f][j].kind \in CallKinds
    PROVE  LET e == prog.effects[f][j]
               r == ResolvedName(prog, e)
           IN  \/ Final(r)
               \/ r \notin Nodes(prog)
               \/ /\ r = f /\ SeqRange(Callees(prog, e)) = {}
                  /\ SeqRange(Bodies(prog, e)) = {}
<1> DEFINE e == prog.effects[f][j]
           r == ResolvedName(prog, e)
<1>1. ProgramShape(prog) /\ Leveled(prog)
  BY DEF TypeInv, TypeOK, OrderInv
<1>2. f \in Functions(prog) \ prog.in_cycle
  BY DEF LeveledNodes
<1>3. e \in Effects
  BY <1>1, EffectType
<1>4. ASSUME r \in EffectTargets(prog, e) PROVE Final(r)
  <2>1. r \in Below(prog, f)
    BY <1>1, <1>2, <1>4, TargetsBelow
  <2> QED
    BY <2>1, BelowFinal
<1>5. \/ r \in EffectTargets(prog, e) \/ r \notin Nodes(prog)
      \/ e.kind = "super" /\ r = f
  BY <1>2 DEF Orderly, ReadNamesOrdered
<1>6. CASE e.kind = "super" /\ r = f /\ r \notin EffectTargets(prog, e)
  <2>1. f \in Nodes(prog)
    BY DEF Nodes
  <2>2. prog.above[e.name] = NoName
    BY <1>6, <2>1 DEF ResolvedName, EffectTargets, CallGraphTarget
  <2>3. Callees(prog, e) = <<>>
    BY <1>6, <2>2 DEF Callees, Optional
  <2>4. SeqRange(Callees(prog, e)) = {}
    BY <2>3, RangeFacts
  <2>5. SeqRange(Bodies(prog, e)) = {}
    BY <1>1, <1>3, <2>4, BodiesFromCallees
  <2> QED
    BY <1>6, <2>4, <2>5
<1> QED
  BY <1>4, <1>5, <1>6

\* One write of a worker leaves alone what the calls of started functions read.
LEMMA ReadsStable ==
    ASSUME TypeInv, OrderInv, Orderly(prog), NEW w \in Workers, Busy(w), NEW info,
           prog' = prog, Write(Act(w).func, info),
           NEW f \in Functions(prog), f \in LeveledNodes, prog.level[f] < level,
           NEW j \in 1..Len(prog.effects[f])
    PROVE  LET e == prog.effects[f][j]
               r == ResolvedName(prog, e)
           IN  /\ \A n \in Names : CanResolve(n)' <=> CanResolve(n)
               /\ e.kind \in CallKinds =>
                    /\ \A b \in SeqRange(Bodies(prog, e)) \cap Functions(prog) :
                          function_safety'[b] = function_safety[b]
                    /\ CallPasses(f, e)' <=> CallPasses(f, e)
                    /\ function_safety'[r] = function_safety[r] \/ (r = f /\ CallPasses(f, e))
<1> DEFINE e == prog.effects[f][j]
           r == ResolvedName(prog, e)
           g == Act(w).func
<1>1. ProgramShape(prog) /\ Leveled(prog)
  BY DEF TypeInv, TypeOK, OrderInv
<1>2. f \in Functions(prog) \ prog.in_cycle
  BY DEF LeveledNodes
<1>3. e \in Effects /\ r \in Names
  BY <1>1, EffectType, CalleesType
<1>4. \A n \in Names : n # g => function_safety'[n] = function_safety[n]
  BY WriteEntries
<1>5. g \in Nodes(prog) /\ g \in Callable(prog) /\ Callable(prog)' = Callable(prog)
  BY <1>1, ActFacts DEF LeveledNodes, Callable, ProgramShape
<1>6. ASSUME NEW n \in Names, Final(n) PROVE function_safety'[n] = function_safety[n]
  <2>1. stack[w][1].func = g /\ 1 \in 1..Len(stack[w])
    BY ActFacts DEF Act
  <2>2. n # g
    BY <1>6, <2>1 DEF Final, Idle
  <2> QED
    BY <1>4, <2>2
<1>7. \A n \in Names : CanResolve(n)' <=> CanResolve(n)
  BY <1>4, <1>5 DEF CanResolve
<1>8. CASE e.kind \in CallKinds
  <2>1. SeqRange(Bodies(prog, e)) \subseteq Names /\ SeqRange(Callees(prog, e)) \subseteq Names
    BY <1>1, <1>3, BodiesType, CalleesType, RangeFacts
  <2>2. ASSUME NEW b \in SeqRange(Bodies(prog, e)), b \in Functions(prog)
        PROVE  function_safety'[b] = function_safety[b]
    <3>1. b \in Below(prog, f)
      BY <1>1, <1>2, <1>8, <2>2, BodiesBelow
    <3> QED
      BY <1>6, <2>1, <3>1, BelowFinal
  <2>3. CallPasses(f, e)' <=> CallPasses(f, e)
    BY <1>7, <2>1, <2>2, StaticKept DEF CallPasses, BodyPasses, IsUnsafe
  <2>4. Final(r) => function_safety'[r] = function_safety[r]
    BY <1>3, <1>6
  <2>5. r \notin Nodes(prog) => function_safety'[r] = function_safety[r]
    BY <1>3, <1>4, <1>5
  <2>6. r = f /\ SeqRange(Callees(prog, e)) = {} /\ SeqRange(Bodies(prog, e)) = {} => CallPasses(f, e)
    BY DEF CallPasses
  <2>7. function_safety'[r] = function_safety[r] \/ (r = f /\ CallPasses(f, e))
    BY <1>8, <2>4, <2>5, <2>6, RecordedName
  <2> QED
    BY <1>7, <2>2, <2>3, <2>7
<1> QED
  BY <1>7, <1>8

\* So what one effect determines is stable; only a super() call under the
\* function's own name follows the function's own entry.
LEMMA EffectStable ==
    ASSUME TypeInv, OrderInv, Orderly(prog), NEW w \in Workers, Busy(w), NEW info,
           prog' = prog, Write(Act(w).func, info),
           NEW f \in Functions(prog), f \in LeveledNodes, prog.level[f] < level,
           NEW j \in 1..Len(prog.effects[f])
    PROVE  LET e == prog.effects[f][j]
               bit == "IfImported" \in function_safety[f].verdict
           IN  /\ Fatal(f, e)' <=> Fatal(f, e)
               /\ WaitsFor(f, e)' = WaitsFor(f, e)
               /\ (bit => bit') /\ TiesToModule(f, e) => TiesToModule(f, e)'
               /\ (bit' => bit) /\ TiesToModule(f, e)' => TiesToModule(f, e)
<1> DEFINE e == prog.effects[f][j]
           r == ResolvedName(prog, e)
           bit == "IfImported" \in function_safety[f].verdict
<1>1. e \in Effects /\ r \in Names /\ e.kind \in CallKinds \cup LocalKinds
  BY EffectType, CalleesType DEF TypeInv, TypeOK, Effects
<1>2. /\ \A n \in Names : CanResolve(n)' <=> CanResolve(n)
      /\ e.kind \in CallKinds =>
           /\ CallPasses(f, e)' <=> CallPasses(f, e)
           /\ function_safety'[r] = function_safety[r] \/ (r = f /\ CallPasses(f, e))
  BY ReadsStable
<1>3. ResolvedName(prog, e)' = r /\ (CanResolve(r)' <=> CanResolve(r))
  BY <1>1, <1>2
<1>4. Fatal(f, e)' <=> Fatal(f, e)
  BY <1>2, <1>3 DEF Fatal, Recoverable, IsUnsafe
<1>5. WaitsFor(f, e)' = WaitsFor(f, e)
  BY <1>2, <1>3 DEF WaitsFor
<1>6. ASSUME function_safety'[r] = function_safety[r] PROVE InheritsIfImported(f, r)' <=> InheritsIfImported(f, r)
  BY <1>6, StaticKept DEF InheritsIfImported
<1>7. ASSUME r = f
      PROVE  /\ (bit => bit') /\ InheritsIfImported(f, r) => InheritsIfImported(f, r)'
             /\ (bit' => bit) /\ InheritsIfImported(f, r)' => InheritsIfImported(f, r)
  BY <1>7, StaticKept DEF InheritsIfImported
<1>8. InheritsIfImported(f, ResolvedName(prog, e))' <=> InheritsIfImported(f, r)'
  BY <1>3 DEF InheritsIfImported
<1>9. /\ (bit => bit') /\ TiesToModule(f, e) => TiesToModule(f, e)'
      /\ (bit' => bit) /\ TiesToModule(f, e)' => TiesToModule(f, e)
  BY <1>2, <1>6, <1>7, <1>8 DEF TiesToModule
<1> QED
  BY <1>4, <1>5, <1>9

LEMMA PrefixStable ==
    ASSUME TypeInv, OrderInv, Orderly(prog), NEW w \in Workers, Busy(w), NEW info,
           prog' = prog, Write(Act(w).func, info),
           NEW f \in Functions(prog), f \in LeveledNodes, prog.level[f] < level,
           NEW k \in Nat, k <= Len(prog.effects[f])
    PROVE  LET bit == "IfImported" \in function_safety[f].verdict
           IN  /\ FatalIn(f, k)' <=> FatalIn(f, k)
               /\ WaitsIn(f, k)' = WaitsIn(f, k)
               /\ (bit => bit') /\ TiesIn(f, k) => TiesIn(f, k)'
               /\ (bit' => bit) /\ TiesIn(f, k)' => TiesIn(f, k)
<1> DEFINE bit == "IfImported" \in function_safety[f].verdict
           E(j) == prog.effects[f][j]
<1>1. Len(prog.effects[f]) \in Nat
  BY DEF TypeInv, TypeOK, ProgramShape
<1>2. \A j \in 1..k :
         /\ Fatal(f, E(j))' <=> Fatal(f, E(j))
         /\ WaitsFor(f, E(j))' = WaitsFor(f, E(j))
         /\ (bit => bit') /\ TiesToModule(f, E(j)) => TiesToModule(f, E(j))'
         /\ (bit' => bit) /\ TiesToModule(f, E(j))' => TiesToModule(f, E(j))
  <2> SUFFICES ASSUME NEW j \in 1..k
               PROVE  /\ Fatal(f, E(j))' <=> Fatal(f, E(j))
                      /\ WaitsFor(f, E(j))' = WaitsFor(f, E(j))
                      /\ (bit => bit') /\ TiesToModule(f, E(j)) => TiesToModule(f, E(j))'
                      /\ (bit' => bit) /\ TiesToModule(f, E(j))' => TiesToModule(f, E(j))
    OBVIOUS
  <2>1. j \in 1..Len(prog.effects[f])
    BY <1>1
  <2> QED
    BY <2>1, EffectStable
<1>3. FatalIn(f, k)' <=> FatalIn(f, k)
  BY <1>2 DEF FatalIn
<1>4. WaitsIn(f, k)' = WaitsIn(f, k)
  BY <1>2 DEF WaitsIn
<1>5. /\ (bit => bit') /\ TiesIn(f, k) => TiesIn(f, k)'
      /\ (bit' => bit) /\ TiesIn(f, k)' => TiesIn(f, k)
  BY <1>2 DEF TiesIn
<1> QED
  BY <1>3, <1>4, <1>5

\* One more effect.
LEMMA PrefixExtend ==
    ASSUME NEW f, NEW k \in Nat, prog' = prog
    PROVE  LET e == prog.effects[f][k + 1] IN
           /\ FatalIn(f, k + 1)' <=> FatalIn(f, k)' \/ Fatal(f, e)'
           /\ TiesIn(f, k + 1)' <=> TiesIn(f, k)' \/ TiesToModule(f, e)'
           /\ WaitsIn(f, k + 1)' = WaitsIn(f, k)' \cup WaitsFor(f, e)'
<1>1. 1..(k + 1) = (1..k) \cup {k + 1}
  OBVIOUS
<1> QED
  BY <1>1 DEF FatalIn, TiesIn, WaitsIn

LEMMA EmptyPrefix ==
    ASSUME NEW f
    PROVE  ~FatalIn(f, 0) /\ ~TiesIn(f, 0) /\ WaitsIn(f, 0) = {}
  BY DEF FatalIn, TiesIn, WaitsIn

\* A step that writes no entry.
LEMMA SameEntries ==
    ASSUME prog' = prog, function_safety' = function_safety, NEW f, NEW k
    PROVE  /\ FatalIn(f, k)' <=> FatalIn(f, k)
           /\ TiesIn(f, k)' <=> TiesIn(f, k)
           /\ WaitsIn(f, k)' = WaitsIn(f, k)
  BY DEF FatalIn, TiesIn, WaitsIn, Fatal, TiesToModule, WaitsFor, CallPasses, CanResolve, Callable,
         BodyPasses, Recoverable, IsUnsafe, InheritsIfImported, Functions

LEMMA SamePasses ==
    ASSUME prog' = prog, function_safety' = function_safety, NEW f, NEW e, NEW k
    PROVE  PassesTo(f, e, k)' <=> PassesTo(f, e, k)
  BY DEF PassesTo, CanResolve, Callable, BodyPasses, IsUnsafe, Functions

\* The entry of a function that the step does not write stays what its effects
\* determine.
LEMMA OtherEntry ==
    ASSUME TypeInv, OrderInv, Orderly(prog), NEW w \in Workers, Busy(w), NEW info,
           prog' = prog, Write(Act(w).func, info),
           NEW f \in Functions(prog), f \in LeveledNodes, prog.level[f] < level, f # Act(w).func,
           NEW k \in Nat, k <= Len(prog.effects[f]), NEW fatal, NEW waits,
           EntryOf(function_safety[f], FatalIn(f, k) \/ fatal, TiesIn(f, k), WaitsIn(f, k) \cup waits)
    PROVE  EntryOf(function_safety[f]', FatalIn(f, k)' \/ fatal, TiesIn(f, k)', WaitsIn(f, k)' \cup waits)
<1>1. f \in Names
  BY DEF TypeInv, TypeOK, ProgramShape
<1>2. function_safety'[f] = function_safety[f]
  BY <1>1, WriteEntries
<1>3. /\ FatalIn(f, k)' <=> FatalIn(f, k)
      /\ WaitsIn(f, k)' = WaitsIn(f, k)
      /\ TiesIn(f, k)' <=> TiesIn(f, k)
  BY <1>2, PrefixStable
<1> QED
  BY <1>2, <1>3 DEF EntryOf, IsUnsafe

-----------------------------------------------------------------------------
(* The entries of the functions that a step does not evaluate.              *)

\* An activation of a function: where it stands and what it evaluates.
LEMMA ActFunction ==
    ASSUME TypeInv, OrderInv, NEW w \in Workers, Busy(w), Act(w).pc # "class"
    PROVE  LET f == Act(w).func IN
           /\ f \in Functions(prog) /\ f \in LeveledNodes /\ prog.level[f] < level
           /\ f \in Names /\ f \in Evaluated
           /\ Act(w).pos \in Nat /\ Act(w).pos - 1 \in Nat /\ Act(w).at \in Nat /\ Act(w).at >= 1
           /\ Act(w).ok \in BOOLEAN
           /\ prog.effects[f] \in Seq(Effects) /\ Len(prog.effects[f]) \in Nat
           /\ Act(w).pc = "call" => /\ Act(w).pos \in 1..Len(prog.effects[f])
                                    /\ CurrentEffect(Act(w)) = prog.effects[f][Act(w).pos]
                                    /\ CurrentEffect(Act(w)) \in Effects
                                    /\ CurrentEffect(Act(w)).kind \in CallKinds
                                    /\ FrameBodies(Act(w)) = Bodies(prog, CurrentEffect(Act(w)))
           /\ HasEffect(Act(w)) => /\ Act(w).pos \in 1..Len(prog.effects[f])
                                   /\ CurrentEffect(Act(w)) = prog.effects[f][Act(w).pos]
                                   /\ CurrentEffect(Act(w)) \in Effects
<1> DEFINE f == Act(w).func
<1>1. /\ FrameOK(Act(w)) /\ Act(w) \in Frames /\ f \in LeveledNodes /\ prog.level[f] < level
      /\ f \in Names /\ ActInv(w)
  BY ActFacts
<1>2. f \in Functions(prog)
  BY <1>1 DEF FrameOK
<1>3. f \in Evaluated
  BY <1>1, <1>2 DEF ActInv, Evaluated, LeveledNodes
<1>4. /\ Act(w).pos \in Nat /\ Act(w).pos - 1 \in Nat /\ Act(w).at \in Nat /\ Act(w).at >= 1
      /\ Act(w).ok \in BOOLEAN /\ Act(w).pos >= 1
  BY <1>1 DEF Frames, FrameOK
<1>5. prog.effects[f] \in Seq(Effects)
  BY <1>2 DEF TypeInv, TypeOK, ProgramShape
<1>6. Len(prog.effects[f]) \in Nat
  BY <1>5
<1>7. ASSUME Act(w).pc = "call"
      PROVE  /\ Act(w).pos \in 1..Len(prog.effects[f])
             /\ CurrentEffect(Act(w)).kind \in CallKinds
             /\ FrameBodies(Act(w)) = Bodies(prog, CurrentEffect(Act(w)))
  BY <1>1, <1>4, <1>6, <1>7 DEF FrameOK, CurrentEffect, FrameBodies, IsClassFrame
<1>8. ASSUME HasEffect(Act(w)) PROVE Act(w).pos \in 1..Len(prog.effects[f])
  BY <1>4, <1>6, <1>8 DEF HasEffect, EffectsOf
<1>9. CurrentEffect(Act(w)) = prog.effects[f][Act(w).pos]
  BY DEF CurrentEffect
<1>10. Act(w).pos \in 1..Len(prog.effects[f]) => CurrentEffect(Act(w)) \in Effects
  BY <1>5, <1>9
<1> QED
  BY <1>1, <1>2, <1>3, <1>4, <1>5, <1>6, <1>7, <1>8, <1>9, <1>10

\* What a call in progress has found so far does not change either.
LEMMA PassesStable ==
    ASSUME TypeInv, OrderInv, Orderly(prog), NEW w \in Workers, Busy(w), NEW info,
           prog' = prog, Write(Act(w).func, info),
           NEW f \in Functions(prog), f \in LeveledNodes, prog.level[f] < level,
           NEW j \in 1..Len(prog.effects[f]), prog.effects[f][j].kind \in CallKinds,
           NEW k \in Nat, k <= Len(Bodies(prog, prog.effects[f][j])) + 1
    PROVE  LET e == prog.effects[f][j] IN PassesTo(f, e, k)' <=> PassesTo(f, e, k)
<1> DEFINE e == prog.effects[f][j]
<1>1. ProgramShape(prog) /\ e \in Effects
  BY EffectType DEF TypeInv, TypeOK
<1>2. Bodies(prog, e) \in Seq(Names) /\ SeqRange(Callees(prog, e)) \subseteq Names
  BY <1>1, BodiesType, CalleesType, RangeFacts
<1>3. \A i \in 1..(k - 1) : i \in 1..Len(Bodies(prog, e))
  BY <1>2
<1>4. \A i \in 1..(k - 1) : Bodies(prog, e)[i] \in SeqRange(Bodies(prog, e))
  BY <1>2, <1>3, RangeFacts
<1>5. /\ \A n \in Names : CanResolve(n)' <=> CanResolve(n)
      /\ \A b \in SeqRange(Bodies(prog, e)) \cap Functions(prog) :
            function_safety'[b] = function_safety[b]
  BY ReadsStable
<1>6. \A c \in SeqRange(Callees(prog, e)) : CanResolve(c)' <=> CanResolve(c)
  BY <1>2, <1>5
<1>7. ASSUME NEW i \in 1..(k - 1), Bodies(prog, e)[i] \in Functions(prog)
      PROVE  function_safety'[Bodies(prog, e)[i]] = function_safety[Bodies(prog, e)[i]]
  BY <1>4, <1>5, <1>7
<1> QED
  BY <1>6, <1>7, StaticKept DEF PassesTo, BodyPasses, IsUnsafe

LEMMA OthersExact ==
    ASSUME TypeInv, OrderInv, Orderly(prog), ExactInv, NEW w \in Workers, Busy(w), NEW info,
           prog' = prog, Write(Act(w).func, info)
    PROVE  /\ \A v \in Workers : v # w /\ Busy(v) /\ stack'[v] = stack[v] => ActExact(Act(v))'
           /\ \A f \in Evaluated :
                 f # Act(w).func /\ function_safety[f].known /\ ~Working(f) => DoneExact(f)'
<1>1. ASSUME NEW v \in Workers, v # w, Busy(v), stack'[v] = stack[v] PROVE ActExact(Act(v))'
  <2>0. PICK fr : fr = Act(v)
    OBVIOUS
  <2> DEFINE f == fr.func
             k == fr.pos - 1
             e == prog.effects[f][fr.pos]
  <2>1. Act(v)' = fr /\ ActExact(fr)
    BY <1>1, <2>0 DEF Act, ExactInv
  <2>2. f # Act(w).func
    BY <1>1, <2>0 DEF OrderInv, WorkInv
  <2>3. CASE fr.pc = "class"
    BY <2>1, <2>3 DEF ActExact
  <2>4. CASE fr.pc \in {"effect", "mark"}
    <3>1. /\ f \in Functions(prog) /\ f \in LeveledNodes /\ prog.level[f] < level
          /\ k \in Nat /\ Len(prog.effects[f]) \in Nat
      BY <1>1, <2>0, <2>4, ActFunction
    <3>2. k <= Len(prog.effects[f])
      BY <2>1, <2>4, <3>1 DEF ActExact
    <3>3. EntryOf(function_safety[f], FatalIn(f, k), TiesIn(f, k), WaitsIn(f, k))
      BY <2>1, <2>4 DEF ActExact
    <3>4. EntryOf(function_safety[f], FatalIn(f, k) \/ FALSE, TiesIn(f, k), WaitsIn(f, k) \cup {})
      BY <3>3 DEF EntryOf
    <3> HIDE DEF f, k
    <3>5. EntryOf(function_safety'[f], FatalIn(f, k)' \/ FALSE, TiesIn(f, k)', WaitsIn(f, k)' \cup {})
      BY <2>2, <3>1, <3>2, <3>4, OtherEntry
    <3>6. EntryOf(function_safety'[f], FatalIn(f, k)', TiesIn(f, k)', WaitsIn(f, k)')
      BY <3>5 DEF EntryOf
    <3> QED
      BY <2>1, <2>4, <3>2, <3>6 DEF ActExact, f, k
  <2>5. CASE fr.pc = "call"
    <3>1. /\ f \in Functions(prog) /\ f \in LeveledNodes /\ prog.level[f] < level
          /\ k \in Nat /\ Len(prog.effects[f]) \in Nat /\ fr.pos \in 1..Len(prog.effects[f])
          /\ e.kind \in CallKinds /\ fr.at \in Nat /\ k <= Len(prog.effects[f])
      BY <1>1, <2>0, <2>5, ActFunction
    <3>2. /\ EntryOf(function_safety[f], FatalIn(f, k) \/ e.mutates, TiesIn(f, k),
                     WaitsIn(f, k) \cup e.defers)
          /\ fr.at <= Len(Bodies(prog, e)) + 1
          /\ fr.ok <=> PassesTo(f, e, fr.at)
      BY <2>1, <2>5 DEF ActExact
    <3>3. PassesTo(f, e, fr.at)' <=> PassesTo(f, e, fr.at)
      BY <2>1, <3>1, <3>2, PassesStable
    <3>4. EntryOf(function_safety'[f], FatalIn(f, k)' \/ e.mutates, TiesIn(f, k)',
                  WaitsIn(f, k)' \cup e.defers)
      BY <2>2, <3>1, <3>2, OtherEntry
    <3> QED
      BY <2>1, <2>5, <3>2, <3>3, <3>4 DEF ActExact
  <2>6. fr.pc \in {"effect", "call", "mark", "class"}
    BY <1>1, <2>0, ActFacts DEF Frames
  <2> QED
    BY <2>3, <2>4, <2>5, <2>6
<1>2. ASSUME NEW f \in Evaluated, f # Act(w).func, function_safety[f].known, ~Working(f)
      PROVE  DoneExact(f)'
  <2> DEFINE k == Len(prog.effects[f])
  <2>1. f \in Functions(prog) /\ f \in LeveledNodes /\ f \notin prog.declared_safe
    BY DEF Evaluated, LeveledNodes, Nodes
  <2>2. prog.level[f] < level /\ k \in Nat /\ k <= Len(prog.effects[f])
    BY <1>2, <2>1 DEF OrderInv, LevelInv, TypeInv, TypeOK, ProgramShape
  <2>3. EntryOf(function_safety[f], FatalIn(f, k), TiesIn(f, k), WaitsIn(f, k))
    BY <1>2 DEF ExactInv, DoneExact
  <2>4. EntryOf(function_safety[f], FatalIn(f, k) \/ FALSE, TiesIn(f, k), WaitsIn(f, k) \cup {})
    BY <2>3 DEF EntryOf
  <2>5. k' = k
    OBVIOUS
  <2> HIDE DEF k
  <2>6. EntryOf(function_safety'[f], FatalIn(f, k)' \/ FALSE, TiesIn(f, k)', WaitsIn(f, k)' \cup {})
    BY <1>2, <2>1, <2>2, <2>4, <2>5, OtherEntry
  <2>7. EntryOf(function_safety'[f], FatalIn(f, k)', TiesIn(f, k)', WaitsIn(f, k)')
    BY <2>6 DEF EntryOf
  <2> QED
    BY <2>5, <2>7 DEF DoneExact, k
<1> QED
  BY <1>1, <1>2

-----------------------------------------------------------------------------
(* The entry of the function that a step evaluates.                         *)

\* A step of worker w that writes info while it handles effect p = k + 1 of f.
OwnStep(w, info, f, p, k, e) ==
    /\ w \in Workers /\ Busy(w) /\ prog' = prog /\ Write(Act(w).func, info)
    /\ f \in Functions(prog) /\ f = Act(w).func /\ f \in LeveledNodes /\ prog.level[f] < level
    /\ p \in 1..Len(prog.effects[f]) /\ k \in Nat /\ p = k + 1 /\ e = prog.effects[f][p]

\* The prefix after one more effect, once the entry is written.
LEMMA OwnPrefix ==
    ASSUME TypeInv, OrderInv, Orderly(prog), NEW w, NEW info, NEW f, NEW p, NEW k, NEW e,
           OwnStep(w, info, f, p, k, e)
    PROVE  LET bit == "IfImported" \in function_safety[f].verdict
               newbit == "IfImported" \in info.verdict
           IN  /\ function_safety'[f] = info
               /\ FatalIn(f, p)' <=> FatalIn(f, k) \/ Fatal(f, e)
               /\ WaitsIn(f, p)' = WaitsIn(f, k) \cup WaitsFor(f, e)
               /\ (bit => newbit) /\ (TiesIn(f, k) \/ TiesToModule(f, e)) => TiesIn(f, p)'
               /\ (newbit => bit) /\ TiesIn(f, p)' => TiesIn(f, k) \/ TiesToModule(f, e)
<1> DEFINE bit == "IfImported" \in function_safety[f].verdict
<1> USE DEF OwnStep
<1>1. f \in Names
  BY DEF TypeInv, TypeOK, ProgramShape
<1>2. function_safety'[f] = info
  BY <1>1, WriteEntries
<1>3. Len(prog.effects[f]) \in Nat
  BY DEF TypeInv, TypeOK, ProgramShape
<1>4. k <= Len(prog.effects[f])
  BY <1>3
<1>5. /\ Fatal(f, e)' <=> Fatal(f, e)
      /\ WaitsFor(f, e)' = WaitsFor(f, e)
      /\ (bit => bit') /\ TiesToModule(f, e) => TiesToModule(f, e)'
      /\ (bit' => bit) /\ TiesToModule(f, e)' => TiesToModule(f, e)
  BY EffectStable
<1>6. /\ FatalIn(f, k)' <=> FatalIn(f, k)
      /\ WaitsIn(f, k)' = WaitsIn(f, k)
      /\ (bit => bit') /\ TiesIn(f, k) => TiesIn(f, k)'
      /\ (bit' => bit) /\ TiesIn(f, k)' => TiesIn(f, k)
  BY <1>4, PrefixStable
<1>7. /\ FatalIn(f, k + 1)' <=> FatalIn(f, k)' \/ Fatal(f, e)'
      /\ TiesIn(f, k + 1)' <=> TiesIn(f, k)' \/ TiesToModule(f, e)'
      /\ WaitsIn(f, k + 1)' = WaitsIn(f, k)' \cup WaitsFor(f, e)'
  BY PrefixExtend
<1>8. /\ FatalIn(f, p)' <=> FatalIn(f, k)' \/ Fatal(f, e)'
      /\ TiesIn(f, p)' <=> TiesIn(f, k)' \/ TiesToModule(f, e)'
      /\ WaitsIn(f, p)' = WaitsIn(f, k)' \cup WaitsFor(f, e)'
  BY <1>7
<1> QED
  BY <1>2, <1>5, <1>6, <1>8

LEMMA ContinuesExact ==
    ASSUME TypeInv, OrderInv, Orderly(prog), ExactInv, NEW w \in Workers, NEW fr, NEW info,
           Continues(w, fr, info), ActExact(fr)'
    PROVE  ExactInv'
<1>1. /\ Busy(w) /\ prog' = prog /\ Write(Act(w).func, info)
      /\ stack' = [stack EXCEPT ![w] = <<fr>>] /\ fr.func = Act(w).func
  BY DEF Continues
<1>2. \A v \in Workers : stack'[v] = IF v = w THEN <<fr>> ELSE stack[v]
  BY <1>1 DEF TypeInv, TypeOK
<1>3. /\ Busy(w)' /\ Act(w)' = fr
      /\ \A v \in Workers : v # w => (Busy(v)' <=> Busy(v)) /\ Act(v)' = Act(v)
  BY <1>2 DEF Busy, Act
<1>4. \A n : Working(n) => Working(n)'
  BY <1>1, <1>3 DEF Working
<1>5. Working(Act(w).func)'
  BY <1>1, <1>3 DEF Working
<1>6. ActExact(Act(w))'
  BY <1>3 DEF ActExact
<1>7. ASSUME NEW v \in Workers, Busy(v)' PROVE ActExact(Act(v))'
  BY <1>1, <1>2, <1>3, <1>6, <1>7, OthersExact
<1>8. Evaluated' = Evaluated
  BY <1>1, StaticKept DEF Evaluated
<1>9. ASSUME NEW f \in Evaluated, function_safety'[f].known, ~Working(f)' PROVE DoneExact(f)'
  <2>1. f # Act(w).func /\ ~Working(f)
    BY <1>1, <1>3, <1>4, <1>9 DEF Working
  <2>2. f \in Names
    BY DEF Evaluated, TypeInv, TypeOK, ProgramShape
  <2>3. function_safety[f].known
    BY <1>1, <1>9, <2>1, <2>2, WriteEntries
  <2> QED
    BY <1>1, <2>1, <2>3, OthersExact
<1> QED
  BY <1>7, <1>8, <1>9 DEF ExactInv

LEMMA LeavesExact ==
    ASSUME TypeInv, OrderInv, Orderly(prog), ExactInv, NEW w \in Workers, NEW info,
           Leaves(w, info), NEW g, g = Act(w).func, g \in Evaluated => DoneExact(g)'
    PROVE  ExactInv'
<1>1. /\ Busy(w) /\ prog' = prog /\ Write(Act(w).func, info)
      /\ stack' = [stack EXCEPT ![w] = <<>>]
  BY DEF Leaves
<1>2. \A v \in Workers : stack'[v] = IF v = w THEN <<>> ELSE stack[v]
  BY <1>1 DEF TypeInv, TypeOK
<1>3. /\ ~Busy(w)'
      /\ \A v \in Workers : v # w => (Busy(v)' <=> Busy(v)) /\ Act(v)' = Act(v)
  BY <1>2 DEF Busy, Act
<1>4. ASSUME NEW v \in Workers, Busy(v)' PROVE ActExact(Act(v))'
  BY <1>1, <1>2, <1>3, <1>4, OthersExact
<1>5. Evaluated' = Evaluated
  BY <1>1, StaticKept DEF Evaluated
<1>6. ASSUME NEW f \in Evaluated, function_safety'[f].known, ~Working(f)' PROVE DoneExact(f)'
  <2>1. CASE f = g
    BY <2>1
  <2>2. CASE f # g
    <3>1. ~Working(f)
      BY <1>3, <1>6, <2>2 DEF Working
    <3>2. f \in Names
      BY DEF Evaluated, TypeInv, TypeOK, ProgramShape
    <3>3. function_safety[f].known
      BY <1>1, <1>6, <2>2, <3>2, WriteEntries
    <3> QED
      BY <1>1, <2>2, <3>1, <3>3, OthersExact
  <2> QED
    BY <2>1, <2>2
<1> QED
  BY <1>4, <1>5, <1>6 DEF ExactInv

-----------------------------------------------------------------------------
(* One lemma per action.                                                    *)

\* The activation goes on to the next effect with an entry that one more effect
\* determines.
LEMMA NextEffectExact ==
    ASSUME TypeInv, OrderInv, Orderly(prog), ExactInv, NEW w \in Workers, Busy(w),
           Act(w).pc # "class", Act(w).pos \in 1..Len(prog.effects[Act(w).func]),
           NEW ret, NEW info, Continues(w, NextEffect(Act(w), ret), info),
           NEW f, f = Act(w).func, NEW p, p = Act(w).pos,
           EntryOf(info, FatalIn(f, p)', TiesIn(f, p)', WaitsIn(f, p)')
    PROVE  ExactInv'
<1>1. PICK fr : fr = NextEffect(Act(w), ret)
  OBVIOUS
<1>2. fr.func = f /\ fr.pc = "effect" /\ fr.pos = p + 1
  BY <1>1 DEF NextEffect, Frame
<1>3. /\ f \in Names /\ p \in Nat /\ Len(prog.effects[f]) \in Nat
  BY ActFunction
<1>4. prog' = prog /\ Write(f, info)
  BY DEF Continues
<1>5. function_safety'[f] = info
  BY <1>3, <1>4, WriteEntries
<1>6. fr.pos - 1 = p /\ p <= Len(prog.effects[f])
  BY <1>2, <1>3
<1>7. ActExact(fr)'
  BY <1>2, <1>4, <1>5, <1>6 DEF ActExact
<1> QED
  BY <1>1, <1>7, ContinuesExact

LEMMA LocalEffectExact ==
    ASSUME TypeInv, OrderInv, Orderly(prog), ExactInv, NEW w \in Workers, LocalEffect(w)
    PROVE  ExactInv'
<1>1. PICK f : f = Act(w).func
  OBVIOUS
<1>2. PICK p : p = Act(w).pos
  OBVIOUS
<1>3. PICK e : e = CurrentEffect(Act(w))
  OBVIOUS
<1>31. PICK k : k = p - 1
  OBVIOUS
<1>32. PICK old : old = function_safety[f]
  OBVIOUS
<1>4. /\ Busy(w) /\ HasEffect(Act(w)) /\ e.kind \in LocalKinds
      /\ Act(w).pc = "effect" /\ Act(w).pc # "class"
  BY <1>3, LocalEffectForm DEF HasEffect
<1>5. /\ f \in Functions(prog) /\ f \in LeveledNodes /\ prog.level[f] < level
      /\ p \in 1..Len(prog.effects[f]) /\ e = prog.effects[f][p] /\ k \in Nat /\ p = k + 1
      /\ p <= Len(prog.effects[f])
  BY <1>1, <1>2, <1>3, <1>4, <1>31, ActFunction
<1>6. EntryOf(old, FatalIn(f, k), TiesIn(f, k), WaitsIn(f, k)) /\ old \in Infos
  BY <1>1, <1>2, <1>4, <1>31, <1>32, ActFacts DEF ExactInv, ActExact
<1>7. EntryOf(WithIfImported(old), FatalIn(f, k), TRUE, WaitsIn(f, k))
  BY <1>6 DEF EntryOf, WithIfImported, IsUnsafe
<1>8. e.kind \notin CallKinds
  BY <1>4 DEF LocalKinds, CallKinds
<1>9. ASSUME NEW ret, e.kind # "global_mutation", Continues(w, NextEffect(Act(w), ret), UnsafeInfo)
      PROVE  ExactInv'
  <2>1. Fatal(f, e)
    BY <1>4, <1>9 DEF Fatal, LocalKinds
  <2>2. prog' = prog /\ Write(Act(w).func, UnsafeInfo)
    BY <1>9 DEF Continues
  <2>3. FatalIn(f, p)'
    <3>1. OwnStep(w, UnsafeInfo, f, p, k, e)
      BY <1>1, <1>4, <1>5, <2>2 DEF OwnStep
    <3> QED
      BY <2>1, <3>1, OwnPrefix
  <2>4. EntryOf(UnsafeInfo, FatalIn(f, p)', TiesIn(f, p)', WaitsIn(f, p)')
    BY <2>3 DEF EntryOf, UnsafeInfo, IsUnsafe
  <2> QED
    BY <1>1, <1>2, <1>4, <1>5, <1>9, <2>4, NextEffectExact
<1>10. ASSUME NEW ret, e.kind = "global_mutation",
              Continues(w, NextEffect(Act(w), ret), WithIfImported(old))
       PROVE  ExactInv'
  <2>1. /\ ~Fatal(f, e) /\ TiesToModule(f, e) /\ WaitsFor(f, e) = {}
    BY <1>8, <1>10 DEF Fatal, TiesToModule, WaitsFor
  <2>2. PICK info : info = WithIfImported(old)
    OBVIOUS
  <2>3. prog' = prog /\ Write(Act(w).func, info) /\ "IfImported" \in info.verdict
    BY <1>10, <2>2 DEF Continues, WithIfImported
  <2>4. /\ FatalIn(f, p)' <=> FatalIn(f, k) \/ Fatal(f, e)
        /\ WaitsIn(f, p)' = WaitsIn(f, k) \cup WaitsFor(f, e)
        /\ ("IfImported" \in function_safety[f].verdict => "IfImported" \in info.verdict)
           /\ (TiesIn(f, k) \/ TiesToModule(f, e)) => TiesIn(f, p)'
    <3>1. OwnStep(w, info, f, p, k, e)
      BY <1>1, <1>4, <1>5, <2>3 DEF OwnStep
    <3> QED
      BY <3>1, OwnPrefix
  <2>5. EntryOf(WithIfImported(old), FatalIn(f, p)', TiesIn(f, p)', WaitsIn(f, p)')
    BY <1>7, <2>1, <2>3, <2>4 DEF EntryOf
  <2> QED
    BY <1>1, <1>2, <1>4, <1>5, <1>10, <2>5, NextEffectExact
<1> QED
  BY <1>1, <1>3, <1>32, <1>9, <1>10, LocalEffectForm

LEMMA StartCallExact ==
    ASSUME TypeInv, OrderInv, Orderly(prog), ExactInv, NEW w \in Workers, StartCall(w)
    PROVE  ExactInv'
<1>1. PICK f : f = Act(w).func
  OBVIOUS
<1>2. PICK p : p = Act(w).pos
  OBVIOUS
<1>3. PICK e : e = CurrentEffect(Act(w))
  OBVIOUS
<1>31. PICK k : k = p - 1
  OBVIOUS
<1>32. PICK old : old = function_safety[f]
  OBVIOUS
<1> DEFINE ok == \A c \in SeqRange(Callees(prog, e)) : CanResolve(c)
           info == ArgumentCheck(old, e)
<1>4. /\ Busy(w) /\ HasEffect(Act(w)) /\ e.kind \in CallKinds /\ e \in Effects
      /\ Act(w).pc = "effect" /\ Act(w).pc # "class"
  BY <1>3, StartCallForm DEF HasEffect
<1>5. /\ f \in Functions(prog) /\ f \in LeveledNodes /\ prog.level[f] < level /\ f \in Names
      /\ p \in 1..Len(prog.effects[f]) /\ e = prog.effects[f][p] /\ k \in Nat
      /\ k <= Len(prog.effects[f])
  BY <1>1, <1>2, <1>3, <1>4, <1>31, ActFunction
<1>6. EntryOf(old, FatalIn(f, k), TiesIn(f, k), WaitsIn(f, k)) /\ old \in Infos
  BY <1>1, <1>2, <1>4, <1>31, <1>32, ActFacts DEF ExactInv, ActExact
<1>7. PICK ret : Continues(w, Calling(Act(w), ok, ret), info)
  BY <1>1, <1>3, <1>32, StartCallForm
<1>8. prog' = prog /\ Write(Act(w).func, info)
  BY <1>7 DEF Continues
<1>9. function_safety'[f] = info
  BY <1>1, <1>4, <1>5, <1>8, WriteEntries
<1>10. e.mutates \in BOOLEAN
  BY <1>4 DEF Effects
<1>11. EntryOf(info, FatalIn(f, k)' \/ e.mutates, TiesIn(f, k)', WaitsIn(f, k)' \cup e.defers)
  <2>1. CASE e.mutates
    BY <2>1 DEF ArgumentCheck, EntryOf, UnsafeInfo, IsUnsafe
  <2>2. CASE ~e.mutates
    <3>1. EntryOf(info, FatalIn(f, k), TiesIn(f, k), WaitsIn(f, k) \cup e.defers)
      <4>1. CASE e.defers # {}
        <5>1. info = WithMissingDep(old, e.defers)
          BY <2>2, <4>1 DEF ArgumentCheck
        <5>2. WaitsIn(f, k) \cup e.defers # {}
          BY <4>1
        <5>3. EntryOf(WithMissingDep(old, e.defers), FatalIn(f, k), TiesIn(f, k), WaitsIn(f, k) \cup e.defers)
          BY <1>6, <5>2 DEF EntryOf, WithMissingDep, IsUnsafe
        <5> QED
          BY <5>1, <5>3
      <4>2. CASE e.defers = {}
        <5>1. info = old /\ WaitsIn(f, k) \cup e.defers = WaitsIn(f, k)
          BY <2>2, <4>2 DEF ArgumentCheck
        <5> QED
          BY <1>6, <5>1
      <4> QED
        BY <4>1, <4>2
    <3>2. ("IfImported" \in info.verdict) <=> ("IfImported" \in old.verdict)
      BY <2>2 DEF ArgumentCheck, WithMissingDep
    <3>3. /\ FatalIn(f, k)' <=> FatalIn(f, k)
          /\ WaitsIn(f, k)' = WaitsIn(f, k)
          /\ TiesIn(f, k)' <=> TiesIn(f, k)
      BY <1>4, <1>5, <1>8, <1>9, <1>32, <3>2, PrefixStable
    <3> HIDE DEF info
    <3> QED
      BY <2>2, <3>1, <3>3 DEF EntryOf
  <2> QED
    BY <1>10, <2>1, <2>2
<1>12. PICK fr : fr = Calling(Act(w), ok, ret)
  OBVIOUS
<1>13. fr.func = f /\ fr.pc = "call" /\ fr.pos = p /\ fr.at = 1 /\ fr.ok = ok
  BY <1>1, <1>2, <1>12 DEF Calling, Frame
<1>14. Len(Bodies(prog, e)) \in Nat
  BY <1>4, BodiesType DEF TypeInv, TypeOK
<1>15. ok <=> PassesTo(f, e, 1)'
  <2>1. SeqRange(Callees(prog, e)) \subseteq Names
    BY <1>4, CalleesType, RangeFacts DEF TypeInv, TypeOK
  <2>2. \A n \in Names : CanResolve(n)' <=> CanResolve(n)
    BY <1>4, <1>5, <1>8, ReadsStable
  <2> QED
    BY <1>8, <2>1, <2>2 DEF PassesTo
<1>16. ActExact(fr)'
  <2>1. prog.effects[f][fr.pos]' = e /\ fr.pos - 1 = k
    BY <1>5, <1>8, <1>13, <1>31
  <2>2. fr.at <= Len(Bodies(prog, e)) + 1
    BY <1>13, <1>14
  <2>3. fr.ok <=> PassesTo(f, e, fr.at)'
    BY <1>13, <1>15
  <2> HIDE DEF ok, info
  <2> QED
    BY <1>8, <1>9, <1>11, <1>13, <2>1, <2>2, <2>3 DEF ActExact
<1> QED
  BY <1>7, <1>12, <1>16, ContinuesExact

LEMMA ReadBodyExact ==
    ASSUME TypeInv, OrderInv, Orderly(prog), ExactInv, NEW w \in Workers, ReadBody(w)
    PROVE  ExactInv'
<1>1. PICK old : old = Act(w)
  OBVIOUS
<1> DEFINE f == old.func
           e == prog.effects[f][old.pos]
           b == FrameBodies(old)[old.at]
           pass == BodyPasses(CallerModule(old), b, function_safety[b])
<1>2. /\ Busy(w) /\ HasBody(old) /\ function_safety' = function_safety
      /\ old.pc \in {"call", "class"}
      /\ \/ /\ b \notin Functions(prog)
            /\ Continues(w, NextBody(old, old.ok), function_safety[f])
         \/ /\ b \in Functions(prog)
            /\ Continues(w, NextBody(old, old.ok /\ pass), function_safety[f])
  BY <1>1, ReadBodyForm DEF HasBody
<1>3. prog' = prog
  BY <1>2 DEF Continues
<1>4. ASSUME NEW ok, Continues(w, NextBody(old, ok), function_safety[f]),
             old.pc = "call" => (ok <=> old.ok /\ (b \in Functions(prog) => pass))
      PROVE  ExactInv'
  <2>1. PICK fr : fr = NextBody(old, ok)
    OBVIOUS
  <2>2. /\ fr.func = f /\ fr.pc = old.pc /\ fr.pos = old.pos /\ fr.at = old.at + 1 /\ fr.ok = ok
    BY <2>1, FrameFields
  <2>3. CASE old.pc = "class"
    <3>1. ActExact(fr)'
      BY <2>2, <2>3 DEF ActExact
    <3> QED
      BY <1>4, <2>1, <3>1, ContinuesExact
  <2>4. CASE old.pc = "call"
    <3>1. /\ EntryOf(function_safety[f], FatalIn(f, old.pos - 1) \/ e.mutates, TiesIn(f, old.pos - 1),
                     WaitsIn(f, old.pos - 1) \cup e.defers)
          /\ old.ok <=> PassesTo(f, e, old.at)
      BY <1>1, <1>2, <2>4 DEF ExactInv, ActExact
    <3>2. FrameBodies(old) = Bodies(prog, e) /\ old.at \in Nat /\ old.at >= 1 /\ e \in Effects
      BY <1>1, <1>2, <2>4, ActFunction
    <3>3. old.at <= Len(Bodies(prog, e)) /\ b = Bodies(prog, e)[old.at]
      BY <1>2, <3>2 DEF HasBody
    <3>4. CallerModule(old) = prog.module[f]
      BY <2>4 DEF CallerModule, IsClassFrame
    <3>5. 1..((old.at + 1) - 1) = (1..(old.at - 1)) \cup {old.at}
      BY <3>2
    <3>6. PassesTo(f, e, old.at + 1) <=> PassesTo(f, e, old.at) /\ (b \in Functions(prog) => pass)
      BY <3>3, <3>4, <3>5 DEF PassesTo
    <3>7. ok <=> PassesTo(f, e, old.at + 1)'
      BY <1>2, <1>3, <1>4, <2>4, <3>1, <3>6, SamePasses
    <3>8. Bodies(prog, e) \in Seq(Names)
      BY <3>2, BodiesType DEF TypeInv, TypeOK
    <3>9. fr.at <= Len(Bodies(prog, e)) + 1
      BY <2>2, <3>2, <3>3, <3>8
    <3>10. /\ FatalIn(f, old.pos - 1)' <=> FatalIn(f, old.pos - 1)
           /\ TiesIn(f, old.pos - 1)' <=> TiesIn(f, old.pos - 1)
           /\ WaitsIn(f, old.pos - 1)' = WaitsIn(f, old.pos - 1)
      BY <1>2, <1>3, SameEntries
    <3>11. EntryOf(function_safety'[f], FatalIn(f, old.pos - 1)' \/ e.mutates, TiesIn(f, old.pos - 1)',
                   WaitsIn(f, old.pos - 1)' \cup e.defers)
      BY <1>2, <3>1, <3>10 DEF EntryOf
    <3>12. ActExact(fr)'
      <4>1. prog'.effects[f][fr.pos] = e /\ Bodies(prog', e) = Bodies(prog, e)
        BY <1>3, <2>2
      <4>2. fr.ok <=> PassesTo(f, e, fr.at)'
        BY <2>2, <3>7
      <4> QED
        BY <1>3, <2>2, <2>4, <3>9, <3>11, <4>1, <4>2 DEF ActExact
    <3> QED
      BY <1>4, <2>1, <3>12, ContinuesExact
  <2> QED
    BY <1>2, <2>3, <2>4
<1> QED
  BY <1>2, <1>4

LEMMA OwnEntry ==
    ASSUME TypeInv, OrderInv, Orderly(prog), NEW w, NEW info, NEW f, NEW p, NEW k, NEW e,
           OwnStep(w, info, f, p, k, e),
           EntryOf(info, FatalIn(f, k) \/ Fatal(f, e), TiesIn(f, k) \/ TiesToModule(f, e),
                   WaitsIn(f, k) \cup WaitsFor(f, e)),
           \/ ("IfImported" \in function_safety[f].verdict) <=> ("IfImported" \in info.verdict)
           \/ "IfImported" \in info.verdict /\ TiesToModule(f, e)
    PROVE  EntryOf(info, FatalIn(f, p)', TiesIn(f, p)', WaitsIn(f, p)')
<1> DEFINE bit == "IfImported" \in function_safety[f].verdict
           newbit == "IfImported" \in info.verdict
<1>1. FatalIn(f, p)' <=> FatalIn(f, k) \/ Fatal(f, e)
  BY OwnPrefix
<1>2. WaitsIn(f, p)' = WaitsIn(f, k) \cup WaitsFor(f, e)
  BY OwnPrefix
<1>3. /\ (bit => newbit) /\ (TiesIn(f, k) \/ TiesToModule(f, e)) => TiesIn(f, p)'
      /\ (newbit => bit) /\ TiesIn(f, p)' => TiesIn(f, k) \/ TiesToModule(f, e)
  BY OwnPrefix
<1>4. TiesIn(f, p)' <=> TiesIn(f, k) \/ TiesToModule(f, e)
  BY <1>3
<1> QED
  BY <1>1, <1>2, <1>4 DEF EntryOf

\* A call that has no body left to run has the result the entries give it.
LEMMA CallResult ==
    ASSUME TypeInv, OrderInv, NEW f, NEW e \in Effects, NEW at \in Nat,
           at = Len(Bodies(prog, e)) + 1
    PROVE  PassesTo(f, e, at) <=> CallPasses(f, e)
<1>1. Bodies(prog, e) \in Seq(Names) /\ Len(Bodies(prog, e)) \in Nat
  BY BodiesType DEF TypeInv, TypeOK
<1>2. at - 1 = Len(Bodies(prog, e))
  BY <1>1
<1> QED
  BY <1>1, <1>2 DEF PassesTo, CallPasses, SeqRange

LEMMA FinishCallExact ==
    ASSUME TypeInv, OrderInv, Orderly(prog), ExactInv, NEW w \in Workers, FinishCall(w)
    PROVE  ExactInv'
<1>1. PICK fr : fr = Act(w)
  OBVIOUS
<1>2. PICK f : f = fr.func
  OBVIOUS
<1>3. PICK p : p = fr.pos
  OBVIOUS
<1>4. PICK k : k = p - 1
  OBVIOUS
<1>5. PICK e : e = prog.effects[f][p]
  OBVIOUS
<1>6. PICK old : old = function_safety[f]
  OBVIOUS
<1>7. PICK r : r = ResolvedName(prog, e)
  OBVIOUS
<1>8. CurrentEffect(fr) = e
  BY <1>2, <1>3, <1>5 DEF CurrentEffect
<1>9. /\ Busy(w) /\ fr.pc = "call" /\ fr.pc # "class" /\ ~HasBody(fr)
      /\ \E ret : \/ ~fr.ok /\ Continues(w, NextEffect(fr, ret), FailedCallee(old, r))
                  \/ /\ fr.ok /\ InheritsIfImported(f, r)
                     /\ Continues(w, NextEffect(fr, ret), WithIfImported(old))
                  \/ /\ fr.ok /\ ~InheritsIfImported(f, r)
                     /\ Continues(w, NextEffect(fr, ret), old)
  BY <1>1, <1>2, <1>6, <1>7, <1>8, FinishCallForm
<1>10. /\ f \in Functions(prog) /\ f \in LeveledNodes /\ prog.level[f] < level
       /\ p \in 1..Len(prog.effects[f]) /\ k \in Nat /\ p = k + 1
       /\ e \in Effects /\ e.kind \in CallKinds /\ fr.at \in Nat /\ FrameBodies(fr) = Bodies(prog, e)
  BY <1>1, <1>2, <1>3, <1>4, <1>5, <1>8, <1>9, ActFunction
<1>11. /\ EntryOf(old, FatalIn(f, k) \/ e.mutates, TiesIn(f, k), WaitsIn(f, k) \cup e.defers)
       /\ fr.at <= Len(Bodies(prog, e)) + 1
       /\ fr.ok <=> PassesTo(f, e, fr.at)
  BY <1>1, <1>2, <1>3, <1>4, <1>5, <1>6, <1>9 DEF ExactInv, ActExact
<1>12. fr.ok <=> CallPasses(f, e)
  <2>1. Len(Bodies(prog, e)) \in Nat
    BY <1>10, BodiesType DEF TypeInv, TypeOK
  <2>2. fr.at = Len(Bodies(prog, e)) + 1
    BY <1>9, <1>10, <1>11, <2>1 DEF HasBody
  <2> QED
    BY <1>10, <1>11, <2>2, CallResult
<1>13. ASSUME NEW ret, NEW info, Continues(w, NextEffect(fr, ret), info),
              EntryOf(info, FatalIn(f, k) \/ Fatal(f, e), TiesIn(f, k) \/ TiesToModule(f, e),
                      WaitsIn(f, k) \cup WaitsFor(f, e)),
              \/ ("IfImported" \in old.verdict) <=> ("IfImported" \in info.verdict)
              \/ "IfImported" \in info.verdict /\ TiesToModule(f, e)
       PROVE  ExactInv'
  <2>1. OwnStep(w, info, f, p, k, e)
    BY <1>1, <1>2, <1>5, <1>9, <1>10, <1>13 DEF OwnStep, Continues
  <2>2. EntryOf(info, FatalIn(f, p)', TiesIn(f, p)', WaitsIn(f, p)')
    BY <1>6, <1>13, <2>1, OwnEntry
  <2> QED
    BY <1>1, <1>2, <1>3, <1>9, <1>10, <1>13, <2>2, NextEffectExact
<1>14. ASSUME NEW ret, ~fr.ok, Continues(w, NextEffect(fr, ret), FailedCallee(old, r)) PROVE ExactInv'
  <2>1. PICK info : info = FailedCallee(old, r)
    OBVIOUS
  <2>2. ~CallPasses(f, e) /\ WaitsFor(f, e) = e.defers \cup {r} /\ ~TiesToModule(f, e)
    BY <1>7, <1>10, <1>12, <1>14 DEF WaitsFor, TiesToModule, CallKinds
  <2>3. CASE Recoverable(function_safety[r]) \/ ~CanResolve(r)
    <3>1. Fatal(f, e) <=> e.mutates
      BY <1>7, <1>10, <2>3 DEF Fatal, CallKinds
    <3>2. CASE IsUnsafe(old)
      <4>1. info = old /\ (FatalIn(f, k) \/ e.mutates)
        BY <1>11, <2>1, <2>3, <3>2 DEF FailedCallee, EntryOf, IsUnsafe
      <4>2. EntryOf(info, FatalIn(f, k) \/ Fatal(f, e), TiesIn(f, k) \/ TiesToModule(f, e),
                    WaitsIn(f, k) \cup WaitsFor(f, e))
        BY <3>1, <3>2, <4>1 DEF EntryOf
      <4> QED
        BY <1>13, <1>14, <2>1, <4>1, <4>2
    <3>3. CASE ~IsUnsafe(old)
      <4>1. info = WithMissingDep(old, {r}) /\ ~(FatalIn(f, k) \/ e.mutates)
        BY <1>11, <2>1, <2>3, <3>3 DEF FailedCallee, EntryOf
      <4>2. WaitsIn(f, k) \cup WaitsFor(f, e) = (WaitsIn(f, k) \cup e.defers) \cup {r}
        BY <2>2
      <4>3. /\ info.verdict = old.verdict \cup {"MissingDep"}
            /\ info.missing = WaitsIn(f, k) \cup WaitsFor(f, e)
            /\ old.verdict = (IF TiesIn(f, k) THEN {"IfImported"} ELSE {})
                  \cup (IF WaitsIn(f, k) \cup e.defers # {} THEN {"MissingDep"} ELSE {})
        BY <1>11, <4>1, <4>2 DEF EntryOf, WithMissingDep
      <4>4. WaitsIn(f, k) \cup WaitsFor(f, e) # {}
        BY <4>2
      <4>5. EntryOf(info, FatalIn(f, k) \/ Fatal(f, e), TiesIn(f, k) \/ TiesToModule(f, e),
                    WaitsIn(f, k) \cup WaitsFor(f, e))
        BY <2>2, <3>1, <4>1, <4>3, <4>4 DEF EntryOf
      <4>6. ("IfImported" \in old.verdict) <=> ("IfImported" \in info.verdict)
        BY <4>3
      <4> QED
        BY <1>13, <1>14, <2>1, <4>5, <4>6
    <3> QED
      BY <3>2, <3>3
  <2>4. CASE ~(Recoverable(function_safety[r]) \/ ~CanResolve(r))
    <3>1. info = UnsafeInfo /\ Fatal(f, e)
      BY <1>7, <1>10, <2>1, <2>2, <2>4 DEF FailedCallee, Fatal
    <3>2. OwnStep(w, info, f, p, k, e)
      BY <1>1, <1>2, <1>5, <1>9, <1>10, <1>14, <2>1 DEF OwnStep, Continues
    <3>3. FatalIn(f, p)'
      BY <3>1, <3>2, OwnPrefix
    <3>4. EntryOf(info, FatalIn(f, p)', TiesIn(f, p)', WaitsIn(f, p)')
      BY <3>1, <3>3 DEF EntryOf, UnsafeInfo, IsUnsafe
    <3> QED
      BY <1>1, <1>2, <1>3, <1>9, <1>10, <1>14, <2>1, <3>4, NextEffectExact
  <2> QED
    BY <2>3, <2>4
<1>15. ASSUME fr.ok PROVE /\ Fatal(f, e) <=> e.mutates
                          /\ WaitsFor(f, e) = e.defers
                          /\ TiesToModule(f, e) <=> InheritsIfImported(f, r)
  BY <1>7, <1>10, <1>12, <1>15 DEF Fatal, WaitsFor, TiesToModule, CallKinds
<1>16. ASSUME NEW ret, fr.ok, InheritsIfImported(f, r),
              Continues(w, NextEffect(fr, ret), WithIfImported(old))
       PROVE  ExactInv'
  <2>1. PICK info : info = WithIfImported(old)
    OBVIOUS
  <2>2. /\ Fatal(f, e) <=> e.mutates
        /\ WaitsFor(f, e) = e.defers /\ TiesToModule(f, e)
    BY <1>15, <1>16
  <2>3. EntryOf(info, FatalIn(f, k) \/ Fatal(f, e), TiesIn(f, k) \/ TiesToModule(f, e),
                WaitsIn(f, k) \cup WaitsFor(f, e))
    BY <1>11, <2>1, <2>2 DEF EntryOf, WithIfImported, IsUnsafe
  <2>4. "IfImported" \in info.verdict
    BY <2>1 DEF WithIfImported
  <2> QED
    BY <1>13, <1>16, <2>1, <2>2, <2>3, <2>4
<1>17. ASSUME NEW ret, fr.ok, ~InheritsIfImported(f, r), Continues(w, NextEffect(fr, ret), old)
       PROVE  ExactInv'
  <2>1. /\ Fatal(f, e) <=> e.mutates
        /\ WaitsFor(f, e) = e.defers /\ ~TiesToModule(f, e)
    BY <1>15, <1>17
  <2>2. EntryOf(old, FatalIn(f, k) \/ Fatal(f, e), TiesIn(f, k) \/ TiesToModule(f, e),
                WaitsIn(f, k) \cup WaitsFor(f, e))
    BY <1>11, <2>1 DEF EntryOf
  <2> QED
    BY <1>13, <1>17, <2>2
<1> QED
  BY <1>9, <1>14, <1>16, <1>17

LEMMA SameExact ==
    ASSUME prog' = prog, function_safety' = function_safety
    PROVE  /\ \A fr : ActExact(fr) => ActExact(fr)'
           /\ \A f : DoneExact(f) => DoneExact(f)'
<1>1. ASSUME NEW fr, ActExact(fr) PROVE ActExact(fr)'
  BY <1>1, SameEntries, SamePasses DEF ActExact, EntryOf, IsUnsafe
<1>2. ASSUME NEW f, DoneExact(f) PROVE DoneExact(f)'
  BY <1>2, SameEntries DEF DoneExact, EntryOf, IsUnsafe
<1> QED
  BY <1>1, <1>2

LEMMA FinishBodyExact ==
    ASSUME TypeInv, OrderInv, Orderly(prog), ExactInv, NEW w \in Workers, FinishBody(w)
    PROVE  ExactInv'
<1>1. PICK fr : fr = Act(w)
  OBVIOUS
<1>2. PICK f : f = fr.func
  OBVIOUS
<1>3. /\ Busy(w) /\ fr.pc = "effect" /\ fr.pc # "class" /\ fr.pos > Len(prog.effects[f])
      /\ function_safety' = function_safety
      /\ \/ Leaves(w, function_safety[f])
         \/ Continues(w, Marking(fr), function_safety[f])
  BY <1>1, <1>2, FinishBodyForm
<1>4. prog' = prog
  BY <1>3 DEF Leaves, Continues
<1>5. ActExact(fr)
  BY <1>1, <1>3 DEF ExactInv
<1>6. fr.pos - 1 = Len(prog.effects[f])
  <2>1. fr.pos \in Nat /\ Len(prog.effects[f]) \in Nat
    BY <1>1, <1>2, <1>3, ActFunction
  <2>2. fr.pos - 1 <= Len(prog.effects[f])
    BY <1>2, <1>3, <1>5 DEF ActExact
  <2> QED
    BY <1>3, <2>1, <2>2
<1>7. DoneExact(f)
  BY <1>2, <1>3, <1>5, <1>6 DEF ActExact, DoneExact
<1>8. CASE Leaves(w, function_safety[f])
  <2>1. DoneExact(f)'
    BY <1>3, <1>4, <1>7, SameExact
  <2> QED
    BY <1>1, <1>2, <1>8, <2>1, LeavesExact
<1>9. CASE Continues(w, Marking(fr), function_safety[f])
  <2>1. PICK new : new = Marking(fr)
    OBVIOUS
  <2>2. new.func = f /\ new.pc = "mark" /\ new.pos = fr.pos
    BY <1>2, <2>1 DEF Marking, Frame
  <2>3. ActExact(new)
    BY <1>6, <1>7, <2>2 DEF ActExact, DoneExact
  <2>4. ActExact(new)'
    BY <1>3, <1>4, <2>3, SameExact
  <2> QED
    BY <1>9, <2>1, <2>4, ContinuesExact
<1> QED
  BY <1>3, <1>8, <1>9

LEMMA MarkSafeExact ==
    ASSUME TypeInv, OrderInv, Orderly(prog), ExactInv, NEW w \in Workers, MarkSafe(w)
    PROVE  ExactInv'
<1>1. PICK f : f = Act(w).func
  OBVIOUS
<1>2. PICK k : k = Act(w).pos - 1
  OBVIOUS
<1>3. Busy(w) /\ Act(w).pc = "mark" /\ Act(w).pc # "class" /\ ~function_safety[f].known /\ Leaves(w, SafeInfo)
  BY <1>1, MarkSafeForm
<1>4. /\ f \in Functions(prog) /\ f \in LeveledNodes /\ prog.level[f] < level /\ f \in Names
      /\ k \in Nat
  BY <1>1, <1>2, <1>3, ActFunction
<1>5. /\ k = Len(prog.effects[f]) /\ k <= Len(prog.effects[f])
      /\ EntryOf(function_safety[f], FatalIn(f, k), TiesIn(f, k), WaitsIn(f, k))
  <2>1. ActExact(Act(w))
    BY <1>3 DEF ExactInv
  <2>2. k = Len(prog.effects[f])
    BY <1>1, <1>2, <1>3, <2>1 DEF ActExact
  <2>3. EntryOf(function_safety[f], FatalIn(f, k), TiesIn(f, k), WaitsIn(f, k))
    BY <1>1, <1>2, <1>3, <2>1 DEF ActExact
  <2> QED
    BY <1>4, <2>2, <2>3
<1>6. function_safety[f] = Absent
  BY <1>3, <1>4 DEF OrderInv, EntryInv
<1>7. ~FatalIn(f, k) /\ ~TiesIn(f, k) /\ WaitsIn(f, k) = {}
  BY <1>5, <1>6 DEF EntryOf, Absent, IsUnsafe
<1>8. prog' = prog /\ Write(Act(w).func, SafeInfo)
  BY <1>3 DEF Leaves
<1>9. function_safety'[f] = SafeInfo
  BY <1>1, <1>3, <1>4, <1>8, WriteEntries
<1>10. /\ "IfImported" \notin function_safety[f].verdict
       /\ "IfImported" \notin function_safety'[f].verdict
  BY <1>6, <1>9 DEF Absent, SafeInfo
<1>11. ~FatalIn(f, k)' /\ ~TiesIn(f, k)' /\ WaitsIn(f, k)' = {}
  BY <1>3, <1>4, <1>5, <1>7, <1>8, <1>10, PrefixStable
<1>12. EntryOf(function_safety'[f], FatalIn(f, k)', TiesIn(f, k)', WaitsIn(f, k)')
  BY <1>9, <1>11 DEF EntryOf, SafeInfo
<1>13. DoneExact(f)'
  BY <1>5, <1>8, <1>12 DEF DoneExact
<1> QED
  BY <1>1, <1>3, <1>13, LeavesExact

LEMMA FinishClassExact ==
    ASSUME TypeInv, OrderInv, Orderly(prog), ExactInv, NEW w \in Workers, FinishClass(w)
    PROVE  ExactInv'
<1>1. PICK g : g = Act(w).func
  OBVIOUS
<1>2. PICK info : Busy(w) /\ Act(w).pc = "class" /\ Leaves(w, info)
  BY FinishClassForm
<1>3. g \in prog.classes
  BY <1>1, <1>2, ActFacts DEF FrameOK
<1>4. g \notin Evaluated
  BY <1>3 DEF Evaluated
<1> QED
  BY <1>1, <1>2, <1>4, LeavesExact

LEMMA BeginExact ==
    ASSUME TypeInv, OrderInv, ExactInv, NEW w \in Workers, NEW n \in pending, Begin(w, n)
    PROVE  ExactInv'
<1>1. prog' = prog /\ function_safety' = function_safety /\ Evaluated' = Evaluated
  BY DEF Begin, Evaluated, Functions
<1>2. n \in Names
  BY NodesAreNames DEF TypeInv, TypeOK
<1>3. CASE function_safety[n].known
  <2>1. stack' = stack
    BY <1>3 DEF Begin
  <2>2. /\ \A v \in Workers : (Busy(v)' <=> Busy(v)) /\ Act(v)' = Act(v)
        /\ \A f : Working(f)' <=> Working(f)
    BY <2>1 DEF Busy, Act, Working
  <2>3. ASSUME NEW v \in Workers, Busy(v)' PROVE ActExact(Act(v))'
    <3>1. PICK fr : fr = Act(v)
      OBVIOUS
    <3>2. ActExact(fr)' /\ Act(v)' = fr
      BY <1>1, <2>2, <2>3, <3>1, SameExact DEF ExactInv
    <3> QED
      BY <3>2 DEF ActExact
  <2> QED
    BY <1>1, <2>2, <2>3, SameExact DEF ExactInv
<1>4. CASE ~function_safety[n].known
  <2>1. PICK new : new = IF n \in prog.classes THEN ClassFrame(n) ELSE FunctionFrame(n, prog.module[n])
    OBVIOUS
  <2>2. stack' = [stack EXCEPT ![w] = <<new>>] /\ ~Busy(w)
    BY <1>4, <2>1 DEF Begin
  <2>3. \A v \in Workers : stack'[v] = IF v = w THEN <<new>> ELSE stack[v]
    BY <2>2 DEF TypeInv, TypeOK
  <2>4. /\ Act(w)' = new /\ Busy(w)'
        /\ \A v \in Workers : v # w => (Busy(v)' <=> Busy(v)) /\ Act(v)' = Act(v)
    BY <2>3 DEF Busy, Act
  <2>5. \A f : Working(f) => Working(f)'
    BY <2>2, <2>4 DEF Working
  <2>6. function_safety[n] = Absent
    BY <1>2, <1>4 DEF OrderInv, EntryInv
  <2>7. ActExact(new)
    <3>1. CASE n \in prog.classes
      BY <2>1, <3>1 DEF ActExact, ClassFrame, Frame
    <3>2. CASE n \notin prog.classes
      <4>1. new.func = n /\ new.pc = "effect" /\ new.pos = 1 /\ new.pos - 1 = 0
        BY <2>1, <3>2 DEF FunctionFrame, Frame
      <4>2. n \in Functions(prog)
        BY <3>2 DEF TypeInv, TypeOK, Nodes
      <4>3. 0 <= Len(prog.effects[n])
        BY <4>2 DEF TypeInv, TypeOK, ProgramShape
      <4>4. EntryOf(function_safety[n], FatalIn(n, 0), TiesIn(n, 0), WaitsIn(n, 0))
        BY <2>6, EmptyPrefix DEF EntryOf, Absent
      <4> QED
        BY <4>1, <4>3, <4>4 DEF ActExact
    <3> QED
      BY <3>1, <3>2
  <2>8. ASSUME NEW v \in Workers, Busy(v)' PROVE ActExact(Act(v))'
    <3>1. PICK fr : fr = IF v = w THEN new ELSE Act(v)
      OBVIOUS
    <3>2. ActExact(fr) /\ Act(v)' = fr
      BY <2>4, <2>7, <2>8, <3>1 DEF ExactInv
    <3>3. ActExact(fr)'
      BY <1>1, <3>2, SameExact
    <3> QED
      BY <3>2, <3>3 DEF ActExact
  <2> QED
    BY <1>1, <2>5, <2>8, SameExact DEF ExactInv
<1> QED
  BY <1>3, <1>4

LEMMA PassesExact ==
    ASSUME TypeInv, OrderInv, OrderInv', TypeInv', ExactInv, MarkRecursive \/ MarkDeclaredSafe \/ NextLevel
    PROVE  ExactInv'
<1>1. prog' = prog /\ stack' = stack
  BY DEF MarkRecursive, MarkDeclaredSafe, NextLevel
<1>2. /\ \A v \in Workers : (Busy(v)' <=> Busy(v)) /\ Act(v)' = Act(v)
      /\ \A f : Working(f)' <=> Working(f)
      /\ Evaluated' = Evaluated
  BY <1>1 DEF Busy, Act, Working, Evaluated, Functions
<1>3. CASE MarkRecursive \/ MarkDeclaredSafe
  <2>1. level' = 0 /\ \A w \in Workers : ~Busy(w)
    BY <1>3 DEF MarkRecursive, MarkDeclaredSafe, OrderInv, PhaseInv
  <2>2. ASSUME NEW f \in Evaluated PROVE ~function_safety'[f].known
    <3>1. f \in LeveledNodes' \ prog'.declared_safe
      BY <1>1, StaticKept DEF Evaluated, LeveledNodes, Nodes
    <3>2. prog'.level[f] \in Nat
      BY <3>1 DEF OrderInv, Leveled, LeveledNodes
    <3>3. ~(prog'.level[f] < level')
      BY <2>1, <3>2
    <3> QED
      BY <3>1, <3>3 DEF OrderInv, LevelInv
  <2> QED
    BY <1>2, <2>1, <2>2 DEF ExactInv
<1>4. CASE NextLevel
  <2>1. function_safety' = function_safety /\ \A w \in Workers : ~Busy(w)
    BY <1>4 DEF NextLevel
  <2> QED
    BY <1>1, <1>2, <2>1, SameExact DEF ExactInv
<1> QED
  BY <1>3, <1>4

-----------------------------------------------------------------------------
(* The induction, and the theorems.                                         *)

LEMMA StepExact ==
    ASSUME TypeInv, OrderInv, Orderly(prog), ExactInv, NEW w \in Workers, Step(w)
    PROVE  ExactInv'
<1>1. ASSUME NEW n \in pending, Begin(w, n) PROVE ExactInv'
  BY <1>1, BeginExact
<1> QED
  BY <1>1, LocalEffectExact, StartCallExact, ReadBodyExact, FinishCallExact, FinishBodyExact,
     MarkSafeExact, FinishClassExact DEF Step

LEMMA InitExact == Init => ExactInv
<1> SUFFICES ASSUME Init PROVE ExactInv
  OBVIOUS
<1>1. \A w \in Workers : ~Busy(w)
  BY DEF Init, Busy
<1>2. ProgramShape(prog)
  BY ProgramsAssumption DEF Init
<1>3. \A f \in Evaluated : f \in Names
  BY <1>2 DEF Evaluated, ProgramShape
<1>4. \A f \in Evaluated : ~function_safety[f].known
  BY <1>3 DEF Init, Absent
<1> QED
  BY <1>1, <1>4 DEF ExactInv

LEMMA NextExact ==
    TypeInv /\ TypeInv' /\ OrderInv /\ OrderInv' /\ Orderly(prog) /\ ExactInv /\ [Next]_vars => ExactInv'
<1> SUFFICES ASSUME TypeInv, TypeInv', OrderInv, OrderInv', Orderly(prog), ExactInv, [Next]_vars
             PROVE  ExactInv'
  OBVIOUS
<1>1. CASE MarkRecursive \/ MarkDeclaredSafe \/ NextLevel
  BY <1>1, PassesExact
<1>2. ASSUME NEW w \in Workers, Step(w) PROVE ExactInv'
  BY <1>2, StepExact
<1>3. CASE Done \/ UNCHANGED vars
  <2>1. prog' = prog /\ function_safety' = function_safety /\ stack' = stack
    BY <1>3 DEF Done, vars
  <2>2. /\ \A v \in Workers : (Busy(v)' <=> Busy(v)) /\ Act(v)' = Act(v)
        /\ \A f : Working(f)' <=> Working(f)
        /\ Evaluated' = Evaluated
    BY <2>1 DEF Busy, Act, Working, Evaluated, Functions
  <2>3. ASSUME NEW v \in Workers, Busy(v)' PROVE ActExact(Act(v))'
    <3>1. PICK fr : fr = Act(v)
      OBVIOUS
    <3>2. ActExact(fr)' /\ Act(v)' = fr
      BY <2>1, <2>2, <2>3, <3>1, SameExact DEF ExactInv
    <3> QED
      BY <3>2 DEF ActExact
  <2> QED
    BY <2>1, <2>2, <2>3, SameExact DEF ExactInv
<1> QED
  BY <1>1, <1>2, <1>3 DEF Next

LEMMA ExactInvariance == Spec /\ []Orderly(prog) => []ExactInv
  BY InitExact, NextExact, TypeInvariance, OrderInvariance, PTL DEF Spec

LEMMA ExactGivesVerdicts ==
    ASSUME TypeInv, OrderInv, ExactInv
    PROVE  VerdictsExact
<1> SUFFICES ASSUME NEW f \in Evaluated, Final(f)
             PROVE  LET es == SeqRange(prog.effects[f])
                        info == function_safety[f]
                        waits == UNION {WaitsFor(f, e) : e \in es}
                    IN  IF \E e \in es : Fatal(f, e)
                        THEN IsUnsafe(info)
                        ELSE info = [known |-> TRUE,
                                     verdict |-> (IF \E e \in es : TiesToModule(f, e)
                                                  THEN {"IfImported"} ELSE {})
                                                 \cup (IF waits # {} THEN {"MissingDep"} ELSE {}),
                                     missing |-> waits]
  BY DEF VerdictsExact
<1> DEFINE es == SeqRange(prog.effects[f])
           info == function_safety[f]
           waits == UNION {WaitsFor(f, e) : e \in es}
           k == Len(prog.effects[f])
<1>1. ~Working(f) /\ info.known
  <2>1. ASSUME NEW w \in Workers, Busy(w) PROVE Act(w).func # f
    BY <2>1, ActFacts DEF Final, Idle, Act
  <2> QED
    BY <2>1 DEF Working, Final
<1>2. EntryOf(info, FatalIn(f, k), TiesIn(f, k), WaitsIn(f, k))
  BY <1>1 DEF ExactInv, DoneExact
<1>3. /\ FatalIn(f, k) <=> \E e \in es : Fatal(f, e)
      /\ TiesIn(f, k) <=> \E e \in es : TiesToModule(f, e)
      /\ WaitsIn(f, k) = waits
  BY DEF FatalIn, TiesIn, WaitsIn, SeqRange
<1>4. info \in Infos
  <2>1. f \in Names
    BY DEF Evaluated, TypeInv, TypeOK, ProgramShape
  <2> QED
    BY <2>1 DEF TypeInv, TypeOK
<1>5. ASSUME ~(\E e \in es : Fatal(f, e))
      PROVE  /\ info.verdict = (IF \E e \in es : TiesToModule(f, e) THEN {"IfImported"} ELSE {})
                               \cup (IF waits # {} THEN {"MissingDep"} ELSE {})
             /\ info.missing = waits
  BY <1>2, <1>3, <1>5 DEF EntryOf
<1>6. ASSUME \E e \in es : Fatal(f, e) PROVE IsUnsafe(info)
  BY <1>2, <1>3, <1>6 DEF EntryOf
<1>7. ASSUME NEW v, NEW m, info.verdict = v, info.missing = m
      PROVE  info = [known |-> TRUE, verdict |-> v, missing |-> m]
  BY <1>1, <1>4, <1>7 DEF Infos
<1> QED
  BY <1>5, <1>6, <1>7

\* The verdict of every evaluated function is a function of the program alone:
\* neither the number of workers nor the order in which they take nodes and
\* write entries can change it.
THEOREM VerdictsAreExact == Spec => []VerdictsExact
<1>1. ~Orderly(prog) => VerdictsExact
  BY DEF VerdictsExact
<1> QED
  BY ExactInvariance, OrderInvariance, TypeInvariance, ExactGivesVerdicts, OrderlyForever,
     <1>1, PTL

LEMMA ExactGivesNoFalseSafe ==
    ASSUME TypeInv, OrderInv, Orderly(prog), VerdictsExact
    PROVE  NoFalseSafe
<1> SUFFICES ASSUME phase = "done", NEW f \in Clean \ (prog.declared_safe \cup prog.classes),
                    NEW e \in SeqRange(prog.effects[f])
             PROVE  /\ e.kind \notin {"error", "imported_mutation"}
                    /\ e.kind \in CallKinds =>
                          /\ ~e.mutates /\ e.defers = {}
                          /\ SeqRange(Callees(prog, e)) \subseteq Callable(prog)
                          /\ SeqRange(Bodies(prog, e)) \cap Functions(prog) \subseteq Clean
  BY DEF NoFalseSafe
<1> DEFINE info == function_safety[f]
           waits == UNION {WaitsFor(f, x) : x \in SeqRange(prog.effects[f])}
<1>1. f \in Functions(prog) /\ f \in Nodes(prog) /\ info.known /\ info.verdict \subseteq {"IfImported"}
  BY DEF Clean, Nodes
<1>2. f \notin prog.in_cycle
  <2>1. ASSUME f \in prog.in_cycle PROVE info = UnsafeInfo
    BY <2>1 DEF OrderInv, PhaseInv, Settled
  <2> QED
    BY <1>1, <2>1 DEF UnsafeInfo
<1>3. f \in Evaluated /\ f \in LeveledNodes /\ prog.level[f] < level
  BY <1>1, <1>2 DEF Evaluated, LeveledNodes, OrderInv, PhaseInv
<1>4. Final(f)
  <2>1. \A w \in Workers : Len(stack[w]) = 0
    BY DEF OrderInv, PhaseInv, Busy
  <2> QED
    BY <1>1, <2>1 DEF Final, Idle
<1>5. ~Fatal(f, e) /\ WaitsFor(f, e) = {}
  <2>1. ~IsUnsafe(info)
    BY <1>1 DEF IsUnsafe
  <2>2. ~\E x \in SeqRange(prog.effects[f]) : Fatal(f, x)
    BY <1>3, <1>4, <2>1 DEF VerdictsExact
  <2>3. waits # {} => "MissingDep" \in info.verdict
    <3>1. info.verdict = (IF \E x \in SeqRange(prog.effects[f]) : TiesToModule(f, x)
                          THEN {"IfImported"} ELSE {})
                         \cup (IF waits # {} THEN {"MissingDep"} ELSE {})
      <4>1. info = [known |-> TRUE,
                    verdict |-> (IF \E x \in SeqRange(prog.effects[f]) : TiesToModule(f, x)
                                 THEN {"IfImported"} ELSE {})
                                \cup (IF waits # {} THEN {"MissingDep"} ELSE {}),
                    missing |-> waits]
        BY <1>3, <1>4, <2>2, Zenon DEF VerdictsExact
      <4> QED
        BY <4>1
    <3> QED
      BY <3>1
  <2>4. waits = {}
    BY <1>1, <2>3
  <2> QED
    BY <2>2, <2>4
<1>6. PICK j \in 1..Len(prog.effects[f]) : e = prog.effects[f][j]
  BY DEF SeqRange
<1>7. ASSUME e.kind \in CallKinds
      PROVE  /\ ~e.mutates /\ e.defers = {}
             /\ SeqRange(Callees(prog, e)) \subseteq Callable(prog)
             /\ SeqRange(Bodies(prog, e)) \cap Functions(prog) \subseteq Clean
  <2>1. ~e.mutates /\ e.defers = {} /\ CallPasses(f, e)
    BY <1>5, <1>7 DEF Fatal, WaitsFor
  <2>2. ProgramShape(prog) /\ Leveled(prog) /\ e \in Effects
    BY <1>1, <1>6, EffectType DEF TypeInv, TypeOK, OrderInv
  <2>3. SeqRange(Callees(prog, e)) \subseteq Names
    BY <2>2, CalleesType, RangeFacts
  <2>4. SeqRange(Callees(prog, e)) \subseteq Callable(prog)
    BY <2>1, <2>3, CanResolveIff DEF CallPasses
  <2>5. ASSUME NEW b \in SeqRange(Bodies(prog, e)) \cap Functions(prog) PROVE b \in Clean
    <3>1. b \in Below(prog, f)
      BY <1>1, <1>2, <1>6, <1>7, <2>2, <2>5, BodiesBelow
    <3>2. function_safety[b].known
      BY <1>3, <3>1, BelowFinal DEF Final
    <3>3. "Unsafe" \notin function_safety[b].verdict /\ "MissingDep" \notin function_safety[b].verdict
      BY <2>1, <2>5 DEF CallPasses, BodyPasses, IsUnsafe
    <3>4. b \in Names
      BY <2>5 DEF TypeInv, TypeOK, ProgramShape
    <3>5. function_safety[b].verdict \subseteq Bits
      BY <3>4 DEF TypeInv, TypeOK, Infos
    <3>6. function_safety[b].verdict \subseteq {"IfImported"}
      BY <3>3, <3>5 DEF Bits
    <3> QED
      BY <2>5, <3>2, <3>6 DEF Clean
  <2> QED
    BY <2>1, <2>4, <2>5
<1> QED
  BY <1>5, <1>7 DEF Fatal

\* No false safe: when the precompute is over, nothing unsafe is reachable from
\* a function with a passing verdict, other than through the safelist.
THEOREM NoVerdictIsFalseSafe == Spec => []NoFalseSafe
<1>1. ~Orderly(prog) => NoFalseSafe
  BY DEF NoFalseSafe
<1> QED
  BY VerdictsAreExact, OrderInvariance, TypeInvariance, ExactGivesNoFalseSafe, OrderlyForever,
     <1>1, PTL

-----------------------------------------------------------------------------
(* The verdicts of the classes.                                             *)

PlainClasses == prog.classes \ (prog.in_cycle \cup prog.declared_safe)

\* The result of a class's evaluation after the methods before position k.
ClassPasses(c, k) ==
    \A i \in 1..(k - 1) :
        prog.ctors[c][i] \in Functions(prog) => function_safety[prog.ctors[c][i]].verdict = {}

ClassActExact(fr) ==
    fr.pc = "class" => /\ fr.at <= Len(prog.ctors[fr.func]) + 1
                       /\ fr.ok <=> ClassPasses(fr.func, fr.at)

ClassInv ==
    /\ \A w \in Workers : Busy(w) => ClassActExact(Act(w))
    /\ \A c \in PlainClasses : function_safety[c].known /\ ~Working(c) => ClassEntryExact(c)

\* A write leaves the entries of a started class's methods alone.
LEMMA MethodsKept ==
    ASSUME TypeInv, OrderInv, NEW w \in Workers, Busy(w), NEW info,
           prog' = prog, Write(Act(w).func, info),
           NEW c \in PlainClasses, prog.level[c] < level
    PROVE  \A m \in SeqRange(prog.ctors[c]) \cap Nodes(prog) :
               m # Act(w).func /\ Final(m) /\ function_safety'[m] = function_safety[m]
<1>1. ProgramShape(prog) /\ Leveled(prog) /\ c \in LeveledNodes
  BY DEF TypeInv, TypeOK, OrderInv, PlainClasses, LeveledNodes, Nodes
<1> SUFFICES ASSUME NEW m \in SeqRange(prog.ctors[c]) \cap Nodes(prog)
             PROVE  m # Act(w).func /\ Final(m) /\ function_safety'[m] = function_safety[m]
  OBVIOUS
<1>2. m \in Below(prog, c)
  BY <1>1, ConstructorsBelow DEF PlainClasses
<1>3. Final(m)
  BY <1>1, <1>2, BelowFinal
<1>4. stack[w][1].func = Act(w).func /\ 1 \in 1..Len(stack[w])
  BY ActFacts DEF Act
<1>5. m # Act(w).func
  BY <1>3, <1>4 DEF Final, Idle
<1>6. m \in Names
  BY <1>1, NodesAreNames
<1> QED
  BY <1>3, <1>5, <1>6, WriteEntries

\* So what they determine does not change.
LEMMA ClassPassesStable ==
    ASSUME TypeInv, OrderInv, NEW w \in Workers, Busy(w), NEW info,
           prog' = prog, Write(Act(w).func, info),
           NEW c \in PlainClasses, prog.level[c] < level,
           NEW k \in Nat, k <= Len(prog.ctors[c]) + 1
    PROVE  ClassPasses(c, k)' <=> ClassPasses(c, k)
<1>1. prog.ctors[c] \in Seq(Names) /\ Len(prog.ctors[c]) \in Nat
  BY DEF PlainClasses, TypeInv, TypeOK, ProgramShape
<1>2. ASSUME NEW i \in 1..(k - 1), prog.ctors[c][i] \in Functions(prog)
      PROVE  function_safety'[prog.ctors[c][i]] = function_safety[prog.ctors[c][i]]
  <2>1. i \in 1..Len(prog.ctors[c])
    BY <1>1
  <2>2. prog.ctors[c][i] \in SeqRange(prog.ctors[c]) \cap Nodes(prog)
    BY <1>2, <2>1 DEF SeqRange, Nodes
  <2> QED
    BY <2>2, MethodsKept
<1> QED
  BY <1>2, StaticKept DEF ClassPasses

LEMMA ClassEntryStable ==
    ASSUME TypeInv, OrderInv, NEW w \in Workers, Busy(w), NEW info,
           prog' = prog, Write(Act(w).func, info),
           NEW c \in PlainClasses, prog.level[c] < level, c # Act(w).func,
           ClassEntryExact(c)
    PROVE  ClassEntryExact(c)'
<1>1. c \in Names
  BY DEF PlainClasses, TypeInv, TypeOK, ProgramShape
<1>2. function_safety'[c] = function_safety[c]
  BY <1>1, WriteEntries
<1> DEFINE methods == SeqRange(prog.ctors[c]) \cap Nodes(prog)
<1>3. methods' = methods /\ Functions(prog)' = Functions(prog)
  BY StaticKept
<1>4. \A m \in methods : function_safety'[m] = function_safety[m]
  BY MethodsKept
<1>5. SafeInfo' = SafeInfo
  BY DEF SafeInfo
<1>6. \A m \in methods : IsUnsafe(function_safety[m])' <=> IsUnsafe(function_safety[m])
  BY <1>4 DEF IsUnsafe
<1>7. IsUnsafe(function_safety[c])' <=> IsUnsafe(function_safety[c])
  BY <1>2 DEF IsUnsafe
<1>8. UNION {function_safety'[m].verdict : m \in methods} = UNION {function_safety[m].verdict : m \in methods}
  BY <1>4
<1>9. {m \in methods : "MissingDep" \in function_safety'[m].verdict}
      = {m \in methods : "MissingDep" \in function_safety[m].verdict}
  BY <1>4
<1>10. (\A m \in methods \cap Functions(prog) : function_safety'[m].verdict = {})
       <=> (\A m \in methods \cap Functions(prog) : function_safety[m].verdict = {})
  BY <1>4
<1> HIDE DEF methods
<1> QED
  BY <1>2, <1>3, <1>5, <1>6, <1>7, <1>8, <1>9, <1>10 DEF ClassEntryExact, methods

\* The class that an activation evaluates.
LEMMA ActClass ==
    ASSUME TypeInv, OrderInv, NEW w \in Workers, Busy(w), Act(w).pc = "class"
    PROVE  LET c == Act(w).func IN
           /\ c \in PlainClasses /\ c \in Names /\ prog.level[c] < level
           /\ prog.ctors[c] \in Seq(Names) /\ FrameBodies(Act(w)) = prog.ctors[c]
           /\ Act(w).at \in Nat /\ Act(w).at >= 1 /\ Act(w).ok \in BOOLEAN
<1> DEFINE c == Act(w).func
<1>1. /\ FrameOK(Act(w)) /\ Act(w) \in Frames /\ ActInv(w) /\ c \in LeveledNodes
      /\ c \in Names /\ prog.level[c] < level
  BY ActFacts
<1>2. c \in PlainClasses
  BY <1>1 DEF FrameOK, ActInv, LeveledNodes, PlainClasses
<1>3. prog.ctors[c] \in Seq(Names)
  BY <1>2 DEF PlainClasses, TypeInv, TypeOK, ProgramShape
<1> QED
  BY <1>1, <1>2, <1>3 DEF FrameBodies, IsClassFrame, Frames, FrameOK

\* A class that has an entry is of a level that has been started.
LEMMA KnownClass ==
    ASSUME TypeInv, OrderInv, NEW c \in PlainClasses
    PROVE  c \in Names /\ (function_safety[c].known => prog.level[c] < level)
<1>1. c \in LeveledNodes \ prog.declared_safe /\ c \in Names
  BY DEF PlainClasses, LeveledNodes, Nodes, TypeInv, TypeOK, ProgramShape
<1> QED
  BY <1>1 DEF OrderInv, LevelInv

LEMMA OthersClass ==
    ASSUME TypeInv, OrderInv, ClassInv, NEW w \in Workers, Busy(w), NEW info,
           prog' = prog, Write(Act(w).func, info)
    PROVE  /\ \A v \in Workers : v # w /\ Busy(v) /\ stack'[v] = stack[v] => ClassActExact(Act(v))'
           /\ \A c \in PlainClasses :
                 c # Act(w).func /\ function_safety[c].known /\ ~Working(c) => ClassEntryExact(c)'
<1>1. ASSUME NEW v \in Workers, v # w, Busy(v), stack'[v] = stack[v] PROVE ClassActExact(Act(v))'
  <2>1. PICK fr : fr = Act(v)
    OBVIOUS
  <2>2. Act(v)' = fr /\ ClassActExact(fr)
    BY <1>1, <2>1 DEF Act, ClassInv
  <2>3. CASE fr.pc = "class"
    <3>1. fr.func \in PlainClasses /\ prog.level[fr.func] < level /\ fr.at \in Nat
      BY <1>1, <2>1, <2>3, ActClass
    <3>2. fr.at <= Len(prog.ctors[fr.func]) + 1 /\ (fr.ok <=> ClassPasses(fr.func, fr.at))
      BY <2>2, <2>3 DEF ClassActExact
    <3>3. ClassPasses(fr.func, fr.at)' <=> ClassPasses(fr.func, fr.at)
      BY <2>2, <3>1, <3>2, ClassPassesStable
    <3> QED
      BY <2>2, <3>2, <3>3 DEF ClassActExact
  <2>4. CASE fr.pc # "class"
    BY <2>2, <2>4 DEF ClassActExact
  <2> QED
    BY <2>3, <2>4
<1>2. ASSUME NEW c \in PlainClasses, c # Act(w).func, function_safety[c].known, ~Working(c)
      PROVE  ClassEntryExact(c)'
  <2>1. prog.level[c] < level
    BY <1>2, KnownClass
  <2>2. ClassEntryExact(c)
    BY <1>2 DEF ClassInv
  <2> QED
    BY <1>2, <2>1, <2>2, ClassEntryStable
<1> QED
  BY <1>1, <1>2

LEMMA ContinuesClass ==
    ASSUME TypeInv, OrderInv, ClassInv, NEW w \in Workers, NEW fr, NEW info,
           Continues(w, fr, info), ClassActExact(fr)'
    PROVE  ClassInv'
<1>1. /\ Busy(w) /\ prog' = prog /\ Write(Act(w).func, info)
      /\ stack' = [stack EXCEPT ![w] = <<fr>>] /\ fr.func = Act(w).func
  BY DEF Continues
<1>2. \A v \in Workers : stack'[v] = IF v = w THEN <<fr>> ELSE stack[v]
  BY <1>1 DEF TypeInv, TypeOK
<1>3. /\ Busy(w)' /\ Act(w)' = fr
      /\ \A v \in Workers : v # w => (Busy(v)' <=> Busy(v)) /\ Act(v)' = Act(v)
  BY <1>2 DEF Busy, Act
<1>4. ClassActExact(Act(w))'
  BY <1>3 DEF ClassActExact, ClassPasses
<1>5. ASSUME NEW v \in Workers, Busy(v)' PROVE ClassActExact(Act(v))'
  BY <1>1, <1>2, <1>3, <1>4, <1>5, OthersClass
<1>6. PlainClasses' = PlainClasses
  BY <1>1 DEF PlainClasses
<1>7. ASSUME NEW c \in PlainClasses, function_safety'[c].known, ~Working(c)' PROVE ClassEntryExact(c)'
  <2>1. c # Act(w).func /\ ~Working(c)
    BY <1>1, <1>3, <1>7 DEF Working
  <2>2. function_safety[c].known
    BY <1>1, <1>7, <2>1, KnownClass, WriteEntries
  <2> QED
    BY <1>1, <2>1, <2>2, OthersClass
<1> QED
  BY <1>5, <1>6, <1>7 DEF ClassInv

LEMMA LeavesClass ==
    ASSUME TypeInv, OrderInv, ClassInv, NEW w \in Workers, NEW info,
           Leaves(w, info), NEW g, g = Act(w).func, g \in PlainClasses => ClassEntryExact(g)'
    PROVE  ClassInv'
<1>1. /\ Busy(w) /\ prog' = prog /\ Write(Act(w).func, info)
      /\ stack' = [stack EXCEPT ![w] = <<>>]
  BY DEF Leaves
<1>2. \A v \in Workers : stack'[v] = IF v = w THEN <<>> ELSE stack[v]
  BY <1>1 DEF TypeInv, TypeOK
<1>3. /\ ~Busy(w)'
      /\ \A v \in Workers : v # w => (Busy(v)' <=> Busy(v)) /\ Act(v)' = Act(v)
  BY <1>2 DEF Busy, Act
<1>4. ASSUME NEW v \in Workers, Busy(v)' PROVE ClassActExact(Act(v))'
  BY <1>1, <1>2, <1>3, <1>4, OthersClass
<1>5. PlainClasses' = PlainClasses
  BY <1>1 DEF PlainClasses
<1>6. ASSUME NEW c \in PlainClasses, function_safety'[c].known, ~Working(c)', c # g
      PROVE  ClassEntryExact(c)'
  <2>1. ~Working(c)
    BY <1>3, <1>6 DEF Working
  <2>2. function_safety[c].known
    BY <1>1, <1>6, KnownClass, WriteEntries
  <2> QED
    BY <1>1, <1>6, <2>1, <2>2, OthersClass
<1> QED
  BY <1>4, <1>5, <1>6 DEF ClassInv

\* The steps of a function's activation.
LEMMA FunctionStepsClass ==
    ASSUME TypeInv, OrderInv, ClassInv, NEW w \in Workers,
           LocalEffect(w) \/ StartCall(w) \/ FinishCall(w) \/ FinishBody(w) \/ MarkSafe(w)
    PROVE  ClassInv'
<1>1. ASSUME NEW fr, NEW info, Continues(w, fr, info), fr.pc # "class" PROVE ClassInv'
  <2>1. ClassActExact(fr)'
    BY <1>1 DEF ClassActExact
  <2> QED
    BY <1>1, <2>1, ContinuesClass
<1>2. ASSUME NEW info, Leaves(w, info), Busy(w), Act(w).pc # "class" PROVE ClassInv'
  <2>1. PICK g : g = Act(w).func
    OBVIOUS
  <2>2. g \notin PlainClasses
    BY <1>2, <2>1, ActFacts DEF ActInv, PlainClasses
  <2> QED
    BY <1>2, <2>1, <2>2, LeavesClass
<1>3. CASE LocalEffect(w)
  <2>1. \A ret : NextEffect(Act(w), ret).pc # "class"
    BY FrameFields
  <2> QED
    BY <1>1, <1>3, <2>1, LocalEffectForm
<1>4. CASE StartCall(w)
  <2> DEFINE e == CurrentEffect(Act(w))
             ok == \A c \in SeqRange(Callees(prog, e)) : CanResolve(c)
             info == ArgumentCheck(function_safety[Act(w).func], e)
  <2>1. PICK ret : Continues(w, Calling(Act(w), ok, ret), info)
    BY <1>4, StartCallForm
  <2>2. PICK fr : fr = Calling(Act(w), ok, ret)
    OBVIOUS
  <2> HIDE DEF ok, info
  <2>3. fr.pc # "class"
    BY <2>2, FrameFields
  <2> QED
    BY <1>1, <2>1, <2>2, <2>3
<1>5. CASE FinishCall(w)
  <2>1. \A ret : NextEffect(Act(w), ret).pc # "class"
    BY FrameFields
  <2> QED
    BY <1>1, <1>5, <2>1, FinishCallForm
<1>6. CASE FinishBody(w)
  <2>1. Marking(Act(w)).pc # "class"
    BY FrameFields
  <2> QED
    BY <1>1, <1>2, <1>6, <2>1, FinishBodyForm
<1>7. CASE MarkSafe(w)
  BY <1>2, <1>7, MarkSafeForm
<1> QED
  BY <1>3, <1>4, <1>5, <1>6, <1>7

\* A step that writes no entry.
LEMMA SameClass ==
    ASSUME prog' = prog, function_safety' = function_safety
    PROVE  /\ \A c, k : ClassPasses(c, k)' <=> ClassPasses(c, k)
           /\ \A fr : ClassActExact(fr) => ClassActExact(fr)'
           /\ \A c : ClassEntryExact(c) => ClassEntryExact(c)'
<1>1. \A c, k : ClassPasses(c, k)' <=> ClassPasses(c, k)
  BY DEF ClassPasses, Functions
<1>2. \A fr : ClassActExact(fr) => ClassActExact(fr)'
  BY <1>1 DEF ClassActExact
<1>3. \A c : ClassEntryExact(c) => ClassEntryExact(c)'
  BY DEF ClassEntryExact, Nodes, Functions, IsUnsafe, SafeInfo
<1> QED
  BY <1>1, <1>2, <1>3

LEMMA ReadBodyClass ==
    ASSUME TypeInv, OrderInv, Orderly(prog), ClassInv, NEW w \in Workers, ReadBody(w)
    PROVE  ClassInv'
<1>1. PICK old : old = Act(w)
  OBVIOUS
<1> DEFINE c == old.func
           b == FrameBodies(old)[old.at]
           pass == BodyPasses(CallerModule(old), b, function_safety[b])
<1>2. /\ Busy(w) /\ HasBody(old) /\ function_safety' = function_safety
      /\ \/ /\ b \notin Functions(prog)
            /\ Continues(w, NextBody(old, old.ok), function_safety[c])
         \/ /\ b \in Functions(prog)
            /\ Continues(w, NextBody(old, old.ok /\ pass), function_safety[c])
  BY <1>1, ReadBodyForm
<1>3. prog' = prog
  BY <1>2 DEF Continues
<1>4. ASSUME NEW ok, Continues(w, NextBody(old, ok), function_safety[c]),
             ok <=> old.ok /\ (b \in Functions(prog) => pass)
      PROVE  ClassInv'
  <2>1. PICK fr : fr = NextBody(old, ok)
    OBVIOUS
  <2>2. /\ fr.func = c /\ fr.pc = old.pc /\ fr.at = old.at + 1 /\ fr.ok = ok
    BY <2>1, FrameFields
  <2>3. CASE old.pc # "class"
    <3>1. ClassActExact(fr)'
      BY <2>2, <2>3 DEF ClassActExact
    <3> QED
      BY <1>4, <2>1, <3>1, ContinuesClass
  <2>4. CASE old.pc = "class"
    <3>1. /\ c \in PlainClasses /\ c \in Names /\ prog.ctors[c] \in Seq(Names)
          /\ FrameBodies(old) = prog.ctors[c] /\ old.at \in Nat /\ old.at >= 1
      BY <1>1, <1>2, <2>4, ActClass
    <3>2. old.at <= Len(prog.ctors[c]) /\ b = prog.ctors[c][old.at]
      BY <1>2, <3>1 DEF HasBody
    <3>3. old.ok <=> ClassPasses(c, old.at)
      BY <1>1, <1>2, <2>4 DEF ClassInv, ClassActExact
    <3>4. b \in Functions(prog) => (pass <=> function_safety[b].verdict = {})
      <4> SUFFICES ASSUME b \in Functions(prog)
                   PROVE  pass <=> function_safety[b].verdict = {}
        OBVIOUS
      <4>1. b \in Names /\ prog.module[b] \in Modules
        BY DEF TypeInv, TypeOK, ProgramShape
      <4>2. CallerModule(old) = c /\ c # prog.module[b]
        BY <2>4, <3>1, <4>1, NamesAssumption DEF CallerModule, IsClassFrame
      <4>3. function_safety[b].verdict \subseteq Bits
        BY <4>1 DEF TypeInv, TypeOK, Infos
      <4> HIDE DEF b, c
      <4> QED
        BY <4>2, <4>3 DEF BodyPasses, IsUnsafe, Bits
    <3>5. 1..((old.at + 1) - 1) = (1..(old.at - 1)) \cup {old.at}
      BY <3>1
    <3>6. ClassPasses(c, old.at + 1) <=> ClassPasses(c, old.at) /\ (b \in Functions(prog) => pass)
      BY <3>2, <3>4, <3>5 DEF ClassPasses
    <3>7. fr.ok <=> ClassPasses(c, fr.at)
      BY <1>4, <2>2, <3>3, <3>6
    <3>8. fr.at <= Len(prog.ctors[c]) + 1
      BY <2>2, <3>1, <3>2
    <3>9. ClassActExact(fr)
      BY <2>2, <3>7, <3>8 DEF ClassActExact
    <3>10. ClassActExact(fr)'
      BY <1>2, <1>3, <3>9, SameClass
    <3> QED
      BY <1>4, <2>1, <3>10, ContinuesClass
  <2> QED
    BY <2>3, <2>4
<1> QED
  BY <1>2, <1>4

LEMMA FinishClassClass ==
    ASSUME TypeInv, OrderInv, ClassInv, NEW w \in Workers, FinishClass(w)
    PROVE  ClassInv'
<1>1. PICK c : c = Act(w).func
  OBVIOUS
<1>2. PICK ok : ok = Act(w).ok
  OBVIOUS
<1>3. /\ Busy(w) /\ Act(w).pc = "class" /\ ~HasBody(Act(w))
      /\ Leaves(w, ConstructorVerdict(c, ok))
  BY <1>1, <1>2, FinishClassForm
<1>4. prog' = prog /\ Write(Act(w).func, ConstructorVerdict(c, ok))
  BY <1>3 DEF Leaves
<1>5. /\ c \in PlainClasses /\ c \in Names /\ prog.level[c] < level
      /\ prog.ctors[c] \in Seq(Names) /\ FrameBodies(Act(w)) = prog.ctors[c]
      /\ Act(w).at \in Nat /\ Act(w).at >= 1
  BY <1>1, <1>3, ActClass
<1> DEFINE methods == SeqRange(prog.ctors[c]) \cap Nodes(prog)
           known == {m \in SeqRange(prog.ctors[c]) : function_safety[m].known}
           bits == UNION {function_safety[m].verdict : m \in known}
           pass == \A m \in methods \cap Functions(prog) : function_safety[m].verdict = {}
<1>6. \A m \in methods : Final(m) /\ function_safety'[m] = function_safety[m]
  BY <1>1, <1>3, <1>4, <1>5, MethodsKept
<1>7. known = methods
  <2>1. \A m \in methods : m \in known
    BY <1>6 DEF Final
  <2>2. ASSUME NEW m \in known PROVE m \in Nodes(prog)
    <3>1. m \in Names
      BY <1>5, RangeFacts
    <3>2. m \notin Nodes(prog) => ~function_safety[m].known
      BY <3>1 DEF OrderInv, EntryInv, Absent
    <3> QED
      BY <3>2
  <2> QED
    BY <2>1, <2>2
<1>8. ok <=> pass
  <2>1. Act(w).at = Len(prog.ctors[c]) + 1 /\ (ok <=> ClassPasses(c, Act(w).at))
    <3>1. Act(w).at <= Len(prog.ctors[c]) + 1 /\ (ok <=> ClassPasses(c, Act(w).at))
      BY <1>1, <1>2, <1>3 DEF ClassInv, ClassActExact
    <3>2. ~(Act(w).at <= Len(prog.ctors[c]))
      BY <1>3, <1>5 DEF HasBody
    <3> QED
      BY <1>5, <3>1, <3>2
  <2>2. Act(w).at - 1 = Len(prog.ctors[c])
    BY <1>5, <2>1
  <2>3. ClassPasses(c, Act(w).at) <=>
           \A i \in 1..Len(prog.ctors[c]) :
               prog.ctors[c][i] \in Functions(prog) => function_safety[prog.ctors[c][i]].verdict = {}
    BY <2>2 DEF ClassPasses
  <2> QED
    BY <2>1, <2>3 DEF SeqRange, Nodes
<1>9. function_safety'[c] = ConstructorVerdict(c, ok)
  BY <1>1, <1>3, <1>4, <1>5, WriteEntries
<1>10. pass => function_safety'[c] = SafeInfo
  BY <1>8, <1>9 DEF ConstructorVerdict
<1>11. ASSUME ~pass, \E m \in methods : IsUnsafe(function_safety[m]) PROVE IsUnsafe(function_safety'[c])
  <2>1. ~ok /\ "Unsafe" \in bits
    BY <1>7, <1>8, <1>11 DEF IsUnsafe
  <2>2. function_safety'[c] = UnsafeInfo
    BY <1>9, <2>1 DEF ConstructorVerdict
  <2> QED
    BY <2>2 DEF UnsafeInfo, IsUnsafe
<1>12. ASSUME ~pass, ~\E m \in methods : IsUnsafe(function_safety[m])
       PROVE  function_safety'[c] =
                 [known |-> TRUE,
                  verdict |-> UNION {function_safety[m].verdict : m \in methods},
                  missing |-> {m \in methods : "MissingDep" \in function_safety[m].verdict}]
  <2>1. ~ok /\ "Unsafe" \notin bits
    BY <1>7, <1>8, <1>12 DEF IsUnsafe
  <2>2. bits # {}
    BY <1>7, <1>12
  <2>3. function_safety'[c] =
            [known |-> TRUE, verdict |-> bits,
             missing |-> {m \in known : "MissingDep" \in function_safety[m].verdict}]
    BY <1>9, <2>1, <2>2 DEF ConstructorVerdict
  <2> QED
    BY <1>7, <2>3
<1>13. ClassEntryExact(c)'
  <2>1. methods' = methods /\ Functions(prog)' = Functions(prog)
    BY <1>4, StaticKept
  <2>2. SafeInfo' = SafeInfo
    BY DEF SafeInfo
  <2>3. \A m \in methods : IsUnsafe(function_safety[m])' <=> IsUnsafe(function_safety[m])
    BY <1>6 DEF IsUnsafe
  <2>4. IsUnsafe(function_safety[c])' <=> IsUnsafe(function_safety'[c])
    BY DEF IsUnsafe
  <2>5. UNION {function_safety'[m].verdict : m \in methods} = UNION {function_safety[m].verdict : m \in methods}
    BY <1>6
  <2>6. {m \in methods : "MissingDep" \in function_safety'[m].verdict}
        = {m \in methods : "MissingDep" \in function_safety[m].verdict}
    BY <1>6
  <2>7. (\A m \in methods \cap Functions(prog) : function_safety'[m].verdict = {}) <=> pass
    BY <1>6
  <2> HIDE DEF methods
  <2> QED
    BY <1>10, <1>11, <1>12, <2>1, <2>2, <2>3, <2>4, <2>5, <2>6, <2>7 DEF ClassEntryExact, methods
<1> QED
  BY <1>1, <1>3, <1>13, LeavesClass

LEMMA BeginClass ==
    ASSUME TypeInv, OrderInv, ClassInv, NEW w \in Workers, NEW n \in pending, Begin(w, n)
    PROVE  ClassInv'
<1>1. prog' = prog /\ function_safety' = function_safety /\ PlainClasses' = PlainClasses
  BY DEF Begin, PlainClasses
<1> DEFINE new == IF n \in prog.classes THEN ClassFrame(n) ELSE FunctionFrame(n, prog.module[n])
<1>2. ~Busy(w) /\ (stack' = stack \/ stack' = [stack EXCEPT ![w] = <<new>>])
  BY DEF Begin
<1>3. ClassActExact(new)
  <2>1. CASE n \in prog.classes
    <3>1. new.func = n /\ new.at = 1 /\ new.ok = TRUE
      BY <2>1 DEF ClassFrame, Frame
    <3>2. Len(prog.ctors[n]) \in Nat
      BY <2>1 DEF TypeInv, TypeOK, ProgramShape
    <3> HIDE DEF new
    <3>3. ClassPasses(n, 1)
      BY DEF ClassPasses
    <3> QED
      BY <3>1, <3>2, <3>3 DEF ClassActExact
  <2>2. CASE n \notin prog.classes
    BY <2>2 DEF ClassActExact, FunctionFrame, Frame
  <2> QED
    BY <2>1, <2>2
<1> HIDE DEF new
<1>4. /\ \A v \in Workers : Busy(v) => Busy(v)' /\ Act(v)' = Act(v)
      /\ \A v \in Workers : Busy(v)' => Busy(v) \/ Act(v)' = new
  BY <1>2 DEF TypeInv, TypeOK, Busy, Act
<1>5. \A c : Working(c) => Working(c)'
  BY <1>4 DEF Working
<1>6. ASSUME NEW v \in Workers, Busy(v)' PROVE ClassActExact(Act(v))'
  <2>1. PICK fr : fr = Act(v)'
    OBVIOUS
  <2>2. ClassActExact(fr)
    BY <1>3, <1>4, <1>6, <2>1 DEF ClassInv
  <2>3. ClassActExact(fr)'
    BY <1>1, <2>2, SameClass
  <2> QED
    BY <2>1, <2>3 DEF ClassActExact
<1> QED
  BY <1>1, <1>5, <1>6, SameClass DEF ClassInv

LEMMA PassesClass ==
    ASSUME TypeInv, OrderInv, TypeInv', OrderInv', ClassInv, MarkRecursive \/ MarkDeclaredSafe \/ NextLevel
    PROVE  ClassInv'
<1>1. prog' = prog /\ stack' = stack /\ PlainClasses' = PlainClasses
  BY DEF MarkRecursive, MarkDeclaredSafe, NextLevel, PlainClasses
<1>2. \A w \in Workers : ~Busy(w)
  BY DEF MarkRecursive, MarkDeclaredSafe, NextLevel, OrderInv, PhaseInv
<1>3. \A w \in Workers : ~Busy(w)'
  BY <1>1, <1>2 DEF Busy
<1>4. CASE MarkRecursive \/ MarkDeclaredSafe
  <2>1. level' = 0
    BY <1>4 DEF MarkRecursive, MarkDeclaredSafe, OrderInv, PhaseInv
  <2>2. ASSUME NEW c \in PlainClasses PROVE ~function_safety'[c].known
    <3>1. c \in LeveledNodes' \ prog'.declared_safe
      BY <1>1, StaticKept DEF PlainClasses, LeveledNodes, Nodes
    <3>2. prog'.level[c] \in Nat
      BY <3>1 DEF OrderInv, Leveled, LeveledNodes
    <3>3. ~(prog'.level[c] < level')
      BY <2>1, <3>2
    <3> QED
      BY <3>1, <3>3 DEF OrderInv, LevelInv
  <2> QED
    BY <1>1, <1>3, <2>2 DEF ClassInv
<1>5. CASE NextLevel
  <2>1. function_safety' = function_safety
    BY <1>5 DEF NextLevel
  <2>2. \A c : ~Working(c)
    BY <1>2 DEF Working
  <2> QED
    BY <1>1, <1>3, <2>1, <2>2, SameClass DEF ClassInv
<1> QED
  BY <1>4, <1>5

LEMMA StepClass ==
    ASSUME TypeInv, OrderInv, Orderly(prog), ClassInv, NEW w \in Workers, Step(w)
    PROVE  ClassInv'
<1>1. ASSUME NEW n \in pending, Begin(w, n) PROVE ClassInv'
  BY <1>1, BeginClass
<1> QED
  BY <1>1, FunctionStepsClass, ReadBodyClass, FinishClassClass DEF Step

LEMMA InitClass == Init => ClassInv
<1> SUFFICES ASSUME Init PROVE ClassInv
  OBVIOUS
<1>1. \A w \in Workers : ~Busy(w)
  BY DEF Init, Busy
<1>2. ProgramShape(prog)
  BY ProgramsAssumption DEF Init
<1>3. \A c \in PlainClasses : c \in Names
  BY <1>2 DEF PlainClasses, ProgramShape
<1>4. \A c \in PlainClasses : ~function_safety[c].known
  BY <1>3 DEF Init, Absent
<1> QED
  BY <1>1, <1>4 DEF ClassInv

LEMMA NextClass ==
    TypeInv /\ TypeInv' /\ OrderInv /\ OrderInv' /\ Orderly(prog) /\ ClassInv /\ [Next]_vars => ClassInv'
<1> SUFFICES ASSUME TypeInv, TypeInv', OrderInv, OrderInv', Orderly(prog), ClassInv, [Next]_vars
             PROVE  ClassInv'
  OBVIOUS
<1>1. CASE MarkRecursive \/ MarkDeclaredSafe \/ NextLevel
  BY <1>1, PassesClass
<1>2. ASSUME NEW w \in Workers, Step(w) PROVE ClassInv'
  BY <1>2, StepClass
<1>3. CASE Done \/ UNCHANGED vars
  <2>1. prog' = prog /\ function_safety' = function_safety /\ stack' = stack
    BY <1>3 DEF Done, vars
  <2>2. /\ \A v \in Workers : (Busy(v)' <=> Busy(v)) /\ Act(v)' = Act(v)
        /\ \A c : Working(c)' <=> Working(c)
        /\ PlainClasses' = PlainClasses
    BY <2>1 DEF Busy, Act, Working, PlainClasses
  <2>3. ASSUME NEW v \in Workers, Busy(v)' PROVE ClassActExact(Act(v))'
    <3>1. PICK fr : fr = Act(v)
      OBVIOUS
    <3>2. ClassActExact(fr)' /\ Act(v)' = fr
      BY <2>1, <2>2, <2>3, <3>1, SameClass DEF ClassInv
    <3> QED
      BY <3>2 DEF ClassActExact
  <2> QED
    BY <2>1, <2>2, <2>3, SameClass DEF ClassInv
<1> QED
  BY <1>1, <1>2, <1>3 DEF Next

LEMMA ClassInvariance == Spec /\ []Orderly(prog) => []ClassInv
  BY InitClass, NextClass, TypeInvariance, OrderInvariance, PTL DEF Spec

LEMMA ClassInvGivesVerdicts ==
    ASSUME TypeInv, OrderInv, ClassInv
    PROVE  ClassVerdictsExact
<1> SUFFICES ASSUME NEW c \in PlainClasses, Final(c) PROVE ClassEntryExact(c)
  BY DEF ClassVerdictsExact, PlainClasses
<1>1. \A w \in Workers : Busy(w) => Act(w).func # c
  BY ActFacts DEF Final, Idle, Act
<1>2. ~Working(c) /\ function_safety[c].known
  BY <1>1 DEF Working, Final
<1> QED
  BY <1>2 DEF ClassInv

\* The verdict of a class is the fold of the final verdicts of its constructor
\* methods, the metaclass's among them: whichever worker evaluates the class, it
\* never reads the entry of a method that is still being evaluated.
THEOREM ClassVerdictsAreExact == Spec => []ClassVerdictsExact
<1>1. ~Orderly(prog) => ClassVerdictsExact
  BY DEF ClassVerdictsExact
<1> QED
  BY ClassInvariance, OrderInvariance, TypeInvariance, ClassInvGivesVerdicts, OrderlyForever,
     <1>1, PTL

-----------------------------------------------------------------------------
(* The two halves of an entry agree, whatever the program.                  *)

Agrees(info) == "MissingDep" \in info.verdict <=> info.missing # {}

\* What the steps write agrees, if what they found did.
LEMMA AgreeingEntries ==
    ASSUME NEW info, Agrees(info), NEW cs, cs # {}
    PROVE  /\ Agrees(Absent) /\ Agrees(SafeInfo) /\ Agrees(UnsafeInfo)
           /\ Agrees(WithIfImported(info)) /\ Agrees(WithMissingDep(info, cs))
  BY DEF Agrees, Absent, SafeInfo, UnsafeInfo, WithIfImported, WithMissingDep

LEMMA AgreeingCalls ==
    ASSUME NEW info, Agrees(info), NEW e, NEW callee
    PROVE  Agrees(ArgumentCheck(info, e)) /\ Agrees(FailedCallee(info, callee))
<1>1. e.defers # {} => Agrees(WithMissingDep(info, e.defers))
  BY AgreeingEntries
<1>2. Agrees(WithMissingDep(info, {callee})) /\ Agrees(UnsafeInfo)
  <2>1. {callee} # {}
    OBVIOUS
  <2> QED
    BY <2>1, AgreeingEntries
<1>3. CASE e.mutates
  BY <1>2, <1>3 DEF ArgumentCheck, FailedCallee
<1>4. CASE ~e.mutates /\ e.defers # {}
  BY <1>1, <1>2, <1>4 DEF ArgumentCheck, FailedCallee
<1>5. CASE ~e.mutates /\ e.defers = {}
  <2>1. ArgumentCheck(info, e) = info
    BY <1>5 DEF ArgumentCheck
  <2> QED
    BY <1>2, <2>1 DEF FailedCallee
<1> QED
  BY <1>3, <1>4, <1>5

\* A class waits exactly when one of its constructor methods does.
LEMMA AgreeingConstructors ==
    ASSUME NEW c, NEW ok \in BOOLEAN
    PROVE  Agrees(ConstructorVerdict(c, ok))
<1> DEFINE known == {m \in SeqRange(prog.ctors[c]) : function_safety[m].known}
           bits == UNION {function_safety[m].verdict : m \in known}
           waiting == {m \in known : "MissingDep" \in function_safety[m].verdict}
           info == [known |-> TRUE, verdict |-> bits, missing |-> waiting]
<1>1. ConstructorVerdict(c, ok) \in {SafeInfo, UnsafeInfo, info}
  BY DEF ConstructorVerdict
<1>2. "MissingDep" \in bits <=> waiting # {}
  OBVIOUS
<1>3. Agrees(info)
  BY <1>2 DEF Agrees
<1>4. Agrees(SafeInfo) /\ Agrees(UnsafeInfo)
  BY DEF Agrees, SafeInfo, UnsafeInfo
<1> HIDE DEF info
<1> QED
  BY <1>1, <1>3, <1>4

LEMMA AgreeingWrite ==
    ASSUME TypeInv, MissingRecorded, NEW f, NEW info, Agrees(info), Write(f, info)
    PROVE  MissingRecorded'
<1> SUFFICES ASSUME NEW n \in Names PROVE Agrees(function_safety'[n])
  BY DEF MissingRecorded, Agrees
<1>1. function_safety \in [Names -> Infos]
  BY DEF TypeInv, TypeOK
<1>2. function_safety'[n] = IF n = f THEN info ELSE function_safety[n]
  BY <1>1 DEF Write
<1> QED
  BY <1>2 DEF MissingRecorded, Agrees

LEMMA StepRecorded ==
    ASSUME TypeInv, MissingRecorded, NEW w \in Workers, Step(w)
    PROVE  MissingRecorded'
<1> DEFINE fr == Top(w)
           old == function_safety[fr.func]
<1>1. CASE function_safety' = function_safety
  BY <1>1 DEF MissingRecorded
<1>2. ASSUME Busy(w) PROVE Agrees(old)
  BY <1>2, TopFacts DEF MissingRecorded, Agrees
<1>3. CASE LocalEffect(w)
  <2>1. Agrees(UnsafeInfo) /\ Agrees(WithIfImported(old))
    <3>1. Agrees(old)
      BY <1>2, <1>3 DEF LocalEffect
    <3> HIDE DEF old
    <3> QED
      BY <3>1 DEF Agrees, UnsafeInfo, WithIfImported
  <2>2. Write(fr.func, UnsafeInfo) \/ Write(fr.func, WithIfImported(old))
    BY <1>3 DEF LocalEffect
  <2> HIDE DEF old
  <2> QED
    BY <2>1, <2>2, AgreeingWrite
<1>4. CASE StartCall(w)
  <2> DEFINE e == CurrentEffect(fr)
             new == IF e.name \in CallStackNames(w) THEN UnsafeInfo ELSE ArgumentCheck(old, e)
  <2>1. Agrees(old)
    BY <1>2, <1>4 DEF StartCall
  <2>2. Write(fr.func, new)
    BY <1>4 DEF StartCall
  <2>3. Agrees(new)
    <3> HIDE DEF old, e
    <3> QED
      BY <2>1, AgreeingCalls DEF Agrees, UnsafeInfo
  <2> HIDE DEF new
  <2> QED
    BY <2>2, <2>3, AgreeingWrite
<1>5. CASE FinishCall(w)
  <2> DEFINE callee == ResolvedName(prog, CurrentEffect(fr))
             new == CASE ~fr.ok -> FailedCallee(old, callee)
                      [] fr.ok /\ InheritsIfImported(fr.func, callee) -> WithIfImported(old)
                      [] OTHER -> old
  <2>1. Agrees(old)
    BY <1>2, <1>5 DEF FinishCall
  <2>2. Write(fr.func, new)
    BY <1>5 DEF FinishCall
  <2>3. Agrees(FailedCallee(old, callee)) /\ Agrees(WithIfImported(old))
    <3> HIDE DEF old, callee
    <3>1. Agrees(FailedCallee(old, callee))
      BY <2>1, AgreeingCalls
    <3>2. Agrees(WithIfImported(old))
      BY <2>1 DEF Agrees, WithIfImported
    <3> QED
      BY <3>1, <3>2
  <2>4. new \in {FailedCallee(old, callee), WithIfImported(old), old}
    <3> HIDE DEF old, callee
    <3> QED
      OBVIOUS
  <2> HIDE DEF new
  <2>5. Agrees(new)
    BY <2>1, <2>3, <2>4
  <2> QED
    BY <2>2, <2>5, AgreeingWrite
<1>6. CASE MarkSafe(w)
  <2>1. Write(fr.func, SafeInfo) /\ Agrees(SafeInfo)
    BY <1>6 DEF MarkSafe, Agrees, SafeInfo
  <2> QED
    BY <2>1, AgreeingWrite
<1>7. CASE FinishClass(w)
  <2>1. fr.ok \in BOOLEAN
    BY <1>7, TopFacts DEF FinishClass, Frames
  <2>2. Write(fr.func, ConstructorVerdict(fr.func, fr.ok))
    BY <1>7 DEF FinishClass
  <2> QED
    BY <2>1, <2>2, AgreeingConstructors, AgreeingWrite
<1>8. ASSUME NEW n \in pending, Begin(w, n) PROVE MissingRecorded'
  BY <1>1, <1>8 DEF Begin
<1>9. CASE ReadBody(w) \/ FinishBody(w)
  BY <1>1, <1>9 DEF ReadBody, FinishBody
<1> QED
  BY <1>3, <1>4, <1>5, <1>6, <1>7, <1>8, <1>9 DEF Step

\* Whatever the program and the interleaving of the workers, an entry waits for a
\* missing dependency exactly when it names one: no update of the table loses one
\* half of an entry, and the fold of a class's methods keeps both together.
THEOREM MissingIsRecorded == Spec => []MissingRecorded
<1>1. Init => MissingRecorded
  BY DEF Init, MissingRecorded, Absent
<1>2. TypeInv /\ MissingRecorded /\ [Next]_vars => MissingRecorded'
  <2> SUFFICES ASSUME TypeInv, MissingRecorded, [Next]_vars PROVE MissingRecorded'
    OBVIOUS
  <2>1. ASSUME NEW w \in Workers, Step(w) PROVE MissingRecorded'
    BY <2>1, StepRecorded
  <2>2. CASE MarkRecursive
    BY <2>2 DEF MarkRecursive, MissingRecorded, UnsafeInfo
  <2>3. CASE MarkDeclaredSafe
    BY <2>3 DEF MarkDeclaredSafe, MissingRecorded, SafeInfo
  <2>4. CASE NextLevel \/ Done \/ UNCHANGED vars
    BY <2>4 DEF NextLevel, Done, vars, MissingRecorded
  <2> QED
    BY <2>1, <2>2, <2>3, <2>4 DEF Next
<1> QED
  BY <1>1, <1>2, TypeInvariance, PTL DEF Spec

=============================================================================
