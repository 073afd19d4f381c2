---------------------------- MODULE MutationProofs ----------------------------
(***************************************************************************)
(* Proofs about the mutations: the worklist of compute_mutated_params      *)
(* finds the least closure, for all programs, and the cross-library        *)
(* resolution, by itself and inside a reduce, treats the candidates that   *)
(* come of it alike in whatever order, for any merged libraries and any    *)
(* cached errors.                                                          *)
(***************************************************************************)
EXTENDS Reduce, MutatedParams, SequenceTheorems, TLAPS

-----------------------------------------------------------------------------
(* The edges of a program.                                                  *)

\* A slot fills parameters of the callee, if it knows any.
LEMMA TargetsType ==
    ASSUME NEW p, IsProgram(p), NEW owner \in Names, NEW offset \in {0, 1}, NEW slot \in Slots
    PROVE  Targets(p, owner, offset, slot) \subseteq Params
<1>1. CASE slot.kind = "keyword"
    BY <1>1 DEF Targets, Slots
<1>2. CASE slot.kind = "positional"
  <2>1. slot.index \in Nat
      BY <1>2 DEF Slots
  <2>2. CASE owner \in DOMAIN p.params /\ slot.index + offset < Len(p.params[owner])
    <3>1. p.params[owner] \in Seq(Params)
        BY <2>2 DEF IsProgram
    <3>2. slot.index + offset + 1 \in 1..Len(p.params[owner])
        BY <2>1, <2>2, <3>1
    <3>3. p.params[owner][slot.index + offset + 1] \in Params
        BY <3>1, <3>2
    <3> QED BY <1>2, <2>2, <3>3 DEF Targets
  <2> QED BY <1>2, <2>2 DEF Targets
<1>3. CASE slot.kind = "star"
  <2>1. CASE owner \in DOMAIN p.params
    <3>1. p.params[owner] \in Seq(Params)
        BY <2>1 DEF IsProgram
    <3>2. \A n \in 1..Len(p.params[owner]) : p.params[owner][n] \in Params
        BY <3>1
    <3>3. Targets(p, owner, offset, slot) = ParamsFrom(p, owner, slot.index + offset)
        BY <1>3 DEF Targets
    <3> QED BY <2>1, <3>2, <3>3 DEF ParamsFrom
  <2> QED BY <1>3, <2>1 DEF Targets, ParamsFrom
<1> QED BY <1>1, <1>2, <1>3 DEF Slots

\* A call binds to functions, and their receiver takes at most one parameter.
LEMMA CalleesType ==
    ASSUME NEW p, IsProgram(p), NEW call \in Calls
    PROVE  Callees(p, call) \subseteq Names \X {0, 1}
<1>1. call.kind \in {"bound", "unbound", "other"} /\ call.name \in Names
    BY DEF Calls
<1>2. ReceiverOffset(p, call.name, call.kind) \in {0, 1}
    BY DEF ReceiverOffset
<1>3. CASE call.kind = "other" /\ call.name \in DOMAIN p.classes
    BY <1>3 DEF Callees, IsProgram
<1>4. CASE call.kind = "other" /\ call.name \notin DOMAIN p.classes
    BY <1>1, <1>4 DEF Callees
<1>5. CASE call.kind # "other" /\ call.name \in DOMAIN p.methods
    BY <1>1, <1>2, <1>5 DEF Callees
<1>6. CASE call.kind = "bound" /\ call.name \notin DOMAIN p.methods
    BY <1>1, <1>6 DEF Callees
<1>7. CASE call.kind = "unbound" /\ call.name \notin DOMAIN p.methods
    BY <1>1, <1>7 DEF Callees
<1> QED BY <1>1, <1>3, <1>4, <1>5, <1>6, <1>7

LEMMA EdgesType ==
    ASSUME NEW p, IsProgram(p)
    PROVE  Edges(p) \subseteq (Names \X Params) \X (Names \X Params)
<1> SUFFICES ASSUME NEW call \in p.calls, NEW c \in Callees(p, call),
                    NEW f \in call.forwarded, NEW t \in Targets(p, c[1], c[2], f[1])
             PROVE  <<<<c[1], t>>, <<call.scope, f[2]>>>> \in (Names \X Params) \X (Names \X Params)
    BY DEF Edges, CallEdges
<1>1. call \in Calls
    BY DEF IsProgram
<1>2. call.scope \in Names /\ f \in Slots \X Params
    BY <1>1 DEF Calls
<1>3. c \in Names \X {0, 1}
    BY <1>1, CalleesType
<1>4. t \in Params
    BY <1>2, <1>3, TargetsType
<1> QED BY <1>2, <1>3, <1>4

-----------------------------------------------------------------------------
(* The worklist as a stack.                                                 *)

LEMMA RangeAppend ==
    ASSUME NEW S, NEW s \in Seq(S), NEW x \in S
    PROVE  Append(s, x) \in Seq(S) /\ SeqRange(Append(s, x)) = SeqRange(s) \cup {x}
<1>1. /\ Append(s, x) \in Seq(S) /\ Len(Append(s, x)) = Len(s) + 1 /\ Len(s) \in Nat
      /\ \A n \in 1..Len(s) : Append(s, x)[n] = s[n]
      /\ Append(s, x)[Len(s) + 1] = x
    OBVIOUS
<1>2. 1..(Len(s) + 1) = 1..Len(s) \cup {Len(s) + 1}
    BY <1>1
<1> QED BY <1>1, <1>2 DEF SeqRange

LEMMA RangePop ==
    ASSUME NEW S, NEW s \in Seq(S), s # <<>>
    PROVE  /\ s[Len(s)] \in S
           /\ SubSeq(s, 1, Len(s) - 1) \in Seq(S)
           /\ SeqRange(s) = SeqRange(SubSeq(s, 1, Len(s) - 1)) \cup {s[Len(s)]}
<1> DEFINE r == SubSeq(s, 1, Len(s) - 1)
<1>1. Len(s) \in Nat /\ Len(s) > 0
    OBVIOUS
<1>2. r \in Seq(S) /\ Len(r) = Len(s) - 1 /\ \A n \in 1..Len(r) : r[n] = s[n]
  <2> DEFINE m == Len(s) - 1
  <2>1. m \in Int /\ m >= 0 /\ \A n \in 1..m : s[n] \in S
      BY <1>1
  <2> HIDE DEF m
  <2>2. /\ SubSeq(s, 1, m) \in Seq(S)
        /\ Len(SubSeq(s, 1, m)) = IF 1 <= m THEN m - 1 + 1 ELSE 0
        /\ \A n \in 1..(m - 1 + 1) : SubSeq(s, 1, m)[n] = s[1 + n - 1]
      BY <2>1, SubSeqProperties
  <2>3. Len(SubSeq(s, 1, m)) = m /\ m - 1 + 1 = m /\ \A n \in 1..m : 1 + n - 1 = n
      BY <2>1, <2>2
  <2> QED BY <2>2, <2>3 DEF m
<1>3. 1..Len(s) = 1..Len(r) \cup {Len(s)}
    BY <1>1, <1>2
<1>4. s[Len(s)] \in S
    BY <1>1
<1> HIDE DEF r
<1>5. SeqRange(s) = SeqRange(r) \cup {s[Len(s)]}
    BY <1>1, <1>2, <1>3 DEF SeqRange
<1> QED BY <1>2, <1>4, <1>5 DEF r

-----------------------------------------------------------------------------
(* The inductive invariant: what is queued is justified, and nothing is     *)
(* forgotten.                                                               *)

\* Every pair waiting for its dependents is known, and every dependent waiting
\* for its visit follows from one that is.
Justified ==
    /\ seeds \subseteq prog.seeds
    /\ SeqRange(worklist) \subseteq mutated
    /\ \A x \in deps : \E e \in edges : e[1] \in mutated /\ e[2] = x

PhaseInv ==
    /\ phase # "seed" => seeds = {}
    /\ phase = "seed" => deps = {}
    /\ phase = "done" => deps = {} /\ worklist = <<>>

ParamsInv == ParamsTypeOK /\ Justified /\ PhaseInv /\ NothingForgotten

LEMMA InitInv == ParamsInit => ParamsInv
<1> SUFFICES ASSUME ParamsInit PROVE ParamsInv
    OBVIOUS
<1>1. IsProgram(prog)
    BY ProgramsAssumption DEF ParamsInit
<1>2. ParamsTypeOK
    BY <1>1, EdgesType DEF ParamsInit, ParamsTypeOK, IsProgram
<1>3. SeqRange(worklist) = {}
    BY DEF ParamsInit, SeqRange
<1> QED BY <1>2, <1>3 DEF ParamsInit, ParamsInv, Justified, PhaseInv, NothingForgotten

\* An insertion keeps the worklist within the known pairs and leaves every other
\* pair where it was.
LEMMA InsertRange ==
    ASSUME ParamsTypeOK, NEW x \in Names \X Params, Insert(x), SeqRange(worklist) \subseteq mutated
    PROVE  /\ mutated' = mutated \cup {x}
           /\ worklist' \in Seq(Names \X Params)
           /\ SeqRange(worklist') \subseteq mutated'
           /\ \A y : y \in mutated' /\ y \notin SeqRange(worklist')
                        => y \in mutated /\ y \notin SeqRange(worklist)
<1>1. worklist \in Seq(Names \X Params)
    BY DEF ParamsTypeOK
<1>2. CASE x \in mutated
    BY <1>1, <1>2 DEF Insert
<1>3. CASE x \notin mutated
  <2>1. worklist' = Append(worklist, x)
      BY <1>3 DEF Insert
  <2>2. worklist' \in Seq(Names \X Params) /\ SeqRange(worklist') = SeqRange(worklist) \cup {x}
      BY <1>1, <2>1, RangeAppend
  <2> QED BY <2>2 DEF Insert
<1> QED BY <1>2, <1>3

LEMMA NextInv == ParamsInv /\ [ParamsNext]_paramsVars => ParamsInv'
<1> SUFFICES ASSUME ParamsInv, [ParamsNext]_paramsVars PROVE ParamsInv'
    OBVIOUS
<1> USE DEF ParamsInv
<1>1. CASE \E x \in seeds : InsertSeed(x)
  <2> PICK x \in seeds : InsertSeed(x)
      BY <1>1
  <2>1. x \in Names \X Params
      BY DEF ParamsTypeOK
  <2>2. /\ mutated' = mutated \cup {x}
        /\ worklist' \in Seq(Names \X Params)
        /\ SeqRange(worklist') \subseteq mutated'
        /\ \A y : y \in mutated' /\ y \notin SeqRange(worklist')
                     => y \in mutated /\ y \notin SeqRange(worklist)
      BY <2>1, InsertRange DEF InsertSeed, Justified
  <2>3. ParamsTypeOK'
      BY <2>1, <2>2 DEF InsertSeed, ParamsTypeOK
  <2>4. Justified'
      BY <2>2 DEF InsertSeed, Justified, SeqRange
  <2>5. PhaseInv'
      BY DEF InsertSeed, PhaseInv
  <2>6. NothingForgotten'
      BY <2>2 DEF InsertSeed, NothingForgotten, SeqRange
  <2> QED BY <2>3, <2>4, <2>5, <2>6
<1>2. CASE StartSpreading
    BY <1>2 DEF StartSpreading, ParamsTypeOK, Justified, PhaseInv, NothingForgotten, SeqRange
<1>3. CASE Pop
  <2> DEFINE top == worklist[Len(worklist)]
  <2>1. worklist \in Seq(Names \X Params) /\ worklist # <<>>
      BY <1>3 DEF Pop, ParamsTypeOK
  <2>2. /\ top \in Names \X Params
        /\ worklist' \in Seq(Names \X Params)
        /\ SeqRange(worklist) = SeqRange(worklist') \cup {top}
      BY <1>3, <2>1, RangePop DEF Pop
  <2>3. deps' = {e[2] : e \in {d \in edges : d[1] = top}} /\ deps = {}
      BY <1>3 DEF Pop, Dependents
  <2>4. UNCHANGED <<prog, edges, phase, seeds, mutated>> /\ phase = "spread"
      BY <1>3 DEF Pop
  <2>5. ParamsTypeOK'
      BY <2>2, <2>3, <2>4 DEF ParamsTypeOK
  <2>6. Justified'
    <3>1. \A y \in deps' : \E e \in edges : e[1] \in mutated /\ e[2] = y
        BY <2>2, <2>3 DEF Justified
    <3> QED BY <2>2, <2>4, <3>1 DEF Justified, SeqRange
  <2>7. PhaseInv'
      BY <2>4 DEF PhaseInv
  <2>8. NothingForgotten'
    <3>1. \A e \in edges : e[1] \in mutated /\ e[1] \notin SeqRange(worklist')
                              => e[2] \in mutated \cup deps'
        BY <2>2, <2>3 DEF NothingForgotten
    <3> QED BY <2>4, <3>1 DEF NothingForgotten, SeqRange
  <2> QED BY <2>5, <2>6, <2>7, <2>8
<1>4. CASE \E x \in deps : Visit(x)
  <2> PICK x \in deps : Visit(x)
      BY <1>4
  <2>1. x \in Names \X Params
      BY DEF ParamsTypeOK
  <2>2. /\ mutated' = mutated \cup {x}
        /\ worklist' \in Seq(Names \X Params)
        /\ SeqRange(worklist') \subseteq mutated'
        /\ \A y : y \in mutated' /\ y \notin SeqRange(worklist')
                     => y \in mutated /\ y \notin SeqRange(worklist)
      BY <2>1, InsertRange DEF Visit, Justified
  <2>3. ParamsTypeOK'
      BY <2>1, <2>2 DEF Visit, ParamsTypeOK
  <2>4. Justified'
      BY <2>2 DEF Visit, Justified, SeqRange
  <2>5. PhaseInv'
      BY DEF Visit, PhaseInv
  <2>6. NothingForgotten'
      BY <2>2 DEF Visit, NothingForgotten, SeqRange
  <2> QED BY <2>3, <2>4, <2>5, <2>6
<1>5. CASE FinishSpreading
    BY <1>5 DEF FinishSpreading, ParamsTypeOK, Justified, PhaseInv, NothingForgotten, SeqRange
<1>6. CASE UNCHANGED paramsVars
    BY <1>6 DEF paramsVars, ParamsTypeOK, Justified, PhaseInv, NothingForgotten, SeqRange
<1> QED BY <1>1, <1>2, <1>3, <1>4, <1>5, <1>6 DEF ParamsNext, ParamsDone

THEOREM InvHolds == ParamsSpec => []ParamsInv
BY InitInv, NextInv, PTL DEF ParamsSpec

\* The pairs and edges are what their names say, for every program.
THEOREM ParamsTypeCorrect == ParamsSpec => []ParamsTypeOK
BY InvHolds, PTL DEF ParamsInv

\* What still follows from a known pair is always on its way.
THEOREM NothingIsForgotten == ParamsSpec => []NothingForgotten
BY InvHolds, PTL DEF ParamsInv

-----------------------------------------------------------------------------
(* The refinement.                                                          *)

\* With nothing left to do, the mutated parameters are closed under forwarding.
LEMMA DrainedIsClosed ==
    ASSUME ParamsInv, phase = "spread", deps = {}, worklist = <<>>
    PROVE  Closure!Closed(mutated)
<1>1. SeqRange(worklist) = {} /\ seeds = {}
    BY DEF SeqRange, ParamsInv, PhaseInv
<1> QED BY <1>1 DEF ParamsInv, NothingForgotten, Closure!Closed, Closure!Follows

LEMMA StepRefines == ParamsInv /\ [ParamsNext]_paramsVars => [Closure!ClosureNext]_(Closure!closure_vars)
<1> SUFFICES ASSUME ParamsInv, [ParamsNext]_paramsVars
             PROVE  [Closure!ClosureNext]_(Closure!closure_vars)
    OBVIOUS
<1> USE DEF Closure!ClosureNext, Closure!closure_vars
<1>1. CASE \E x \in seeds : InsertSeed(x)
  <2> PICK x \in seeds : InsertSeed(x)
      BY <1>1
  <2>1. x \in prog.seeds
      BY DEF ParamsInv, Justified
  <2> QED BY <2>1 DEF InsertSeed, Insert, Closure!Derive, Closure!Follows
<1>2. CASE StartSpreading
    BY <1>2 DEF StartSpreading
<1>3. CASE Pop
    BY <1>3 DEF Pop
<1>4. CASE \E x \in deps : Visit(x)
  <2> PICK x \in deps : Visit(x)
      BY <1>4
  <2>1. PICK e \in edges : e[1] \in mutated /\ e[2] = x
      BY DEF ParamsInv, Justified
  <2> QED BY <2>1 DEF Visit, Insert, Closure!Derive, Closure!Follows
<1>5. CASE FinishSpreading
    BY <1>5, DrainedIsClosed DEF FinishSpreading, Closure!Stop
<1>6. CASE UNCHANGED paramsVars
    BY <1>6 DEF paramsVars
<1> QED BY <1>1, <1>2, <1>3, <1>4, <1>5, <1>6 DEF ParamsNext, ParamsDone

\* Nothing is derived yet when the worklist starts.
LEMMA InitRefines == ParamsInit => Closure!ClosureInit
BY DEF ParamsInit, Closure!ClosureInit

\* The worklist implements the least closure, whatever the order of the seeds,
\* of the worklist and of the dependents.
THEOREM Implements == ParamsSpec => ImplementsClosure
BY InitRefines, InvHolds, StepRefines, PTL DEF ParamsSpec, ImplementsClosure, Closure!ClosureSpec

-----------------------------------------------------------------------------
(* What the worklist knows is grounded: it stays within every closed set.   *)

\* More facts, more that follows: an edge out of a smaller set is one of the
\* larger.
LEMMA FollowsMonotone ==
    ASSUME NEW S, NEW T, S \subseteq T
    PROVE  Closure!Follows(S) \subseteq Closure!Follows(T)
BY DEF Closure!Follows

\* The parameters known to be mutated, by any derivation, are within every set
\* that has the seeds and is closed under the edges.
THEOREM GroundedIsLeast ==
    ASSUME Closure!Grounded, NEW C, Closure!Closed(C)
    PROVE  mutated \subseteq C
<1> DEFINE S == mutated \cap C
<1>1. Closure!Follows(S) \subseteq Closure!Follows(C)
    BY FollowsMonotone
<1>2. Closure!Follows(S) \cap mutated \subseteq S
    BY <1>1 DEF Closure!Closed
<1>3. S \in SUBSET mutated
    OBVIOUS
<1>4. S = mutated
    BY <1>2, <1>3 DEF Closure!Grounded
<1> QED BY <1>4

\* Adding facts of the base, or by a rule, keeps what is known grounded.
LEMMA GroundedKept ==
    ASSUME Closure!Grounded, UNCHANGED <<prog.seeds, edges>>,
           mutated \subseteq mutated',
           mutated' \subseteq mutated \cup Closure!Follows(mutated)
    PROVE  Closure!Grounded'
<1>1. \A S : Closure!Follows(S)' = Closure!Follows(S)
    BY DEF Closure!Follows
<1> SUFFICES ASSUME NEW S \in SUBSET mutated', Closure!Follows(S) \cap mutated' \subseteq S
             PROVE  S = mutated'
    BY <1>1 DEF Closure!Grounded
<1> DEFINE T == S \cap mutated
<1>2. Closure!Follows(T) \subseteq Closure!Follows(S)
    BY FollowsMonotone
<1>3. Closure!Follows(T) \cap mutated \subseteq T
    BY <1>2
<1>4. T \in SUBSET mutated
    OBVIOUS
<1>5. T = mutated
    BY <1>3, <1>4 DEF Closure!Grounded
<1>6. mutated \subseteq S
    BY <1>5
<1>7. Closure!Follows(mutated) \subseteq Closure!Follows(S)
    BY <1>6, FollowsMonotone
<1> QED BY <1>6, <1>7

\* In the beginning every known fact is one of the base.
LEMMA GroundedInit == Closure!ClosureInit => Closure!Grounded
<1> SUFFICES ASSUME Closure!ClosureInit, NEW S \in SUBSET mutated,
                    Closure!Follows(S) \cap mutated \subseteq S
             PROVE  S = mutated
    BY DEF Closure!Grounded
<1>1. mutated \subseteq Closure!Follows(S)
    BY DEF Closure!ClosureInit, Closure!Follows
<1> QED BY <1>1

\* Deriving keeps the facts grounded, and stopping finds them closed.
LEMMA LeastKept ==
    ASSUME Closure!Least, [Closure!ClosureNext]_(Closure!closure_vars)
    PROVE  Closure!Least'
<1> USE DEF Closure!Least
<1>1. CASE Closure!Derive
  <2>1. Closure!Grounded'
      BY <1>1, GroundedKept DEF Closure!Derive
  <2> QED BY <1>1, <2>1 DEF Closure!Derive, Closure!Complete
<1>2. CASE Closure!Stop
  <2>1. Closure!Grounded'
      BY <1>2, GroundedKept DEF Closure!Stop
  <2>2. Closure!Closed(mutated)'
      BY <1>2 DEF Closure!Stop, Closure!Closed, Closure!Follows
  <2> QED BY <2>1, <2>2 DEF Closure!Complete
<1>3. CASE UNCHANGED Closure!closure_vars
  <2>1. Closure!Grounded'
      BY <1>3, GroundedKept DEF Closure!closure_vars
  <2>2. Closure!Complete'
      BY <1>3 DEF Closure!closure_vars, Closure!Complete, Closure!Closed, Closure!Follows
  <2> QED BY <2>1, <2>2
<1> QED BY <1>1, <1>2, <1>3 DEF Closure!ClosureNext

\* No mutation is missed at any distance, and no parameter is taken for mutated
\* without a chain of calls that mutates it.
THEOREM FindsTheLeast == ParamsSpec => []MutatedLeast
<1>1. ParamsInit => Closure!Least
  <2>1. ParamsInit => Closure!ClosureInit
      BY InitRefines
  <2> QED BY <2>1, GroundedInit DEF Closure!ClosureInit, Closure!Least, Closure!Complete
<1>2. ParamsInv /\ Closure!Least /\ [ParamsNext]_paramsVars => Closure!Least'
    BY StepRefines, LeastKept
<1> QED BY <1>1, <1>2, InvHolds, PTL DEF ParamsSpec, MutatedLeast

-----------------------------------------------------------------------------
(* The resolution.                                                          *)

\* The facts come from a library the assumption describes, and the promotion
\* state is empty until the candidates are applied.
StageOK ==
    /\ lib \in Libraries
    /\ stage \in {"confirm", "discharge"} =>
          waiting = {} /\ promoted = {} /\ globally_safe = {} /\ globally_if_imported = {}
    /\ stage \in {"promote", "done"} => todo = {}
    /\ stage = "discharge" => \A c \in todo : c.site # NoName

\* A function that still waits has a recoverable verdict, a promoted one a
\* passing verdict, and nobody outside the promotion candidates can be promoted.
WaitingOK ==
    /\ \A f \in waiting \ promoted :
          "MissingDep" \in safety[f].verdict /\ "Unsafe" \notin safety[f].verdict
    /\ \A f \in promoted : safety[f].verdict \subseteq {"IfImported"}
    /\ stage \in {"promote", "done"} => PromotionCandidates \subseteq waiting

IInv == TypeOK /\ StageOK /\ WaitingOK

LEMMA LibraryFacts ==
    ASSUME NEW l \in Libraries
    PROVE  /\ l.home \in [Functions -> Modules]
           /\ l.safety \in [Functions -> Infos]
           /\ l.same_name \in [Unqualified -> SUBSET Functions]
           /\ l.candidates \subseteq Candidates
  BY LibrariesAssumption

\* Discharging and confirming keep an entry an entry, and keep its Unsafe bit.
LEMMA DischargedFacts ==
    ASSUME NEW info \in Infos, NEW r
    PROVE  /\ Discharged(info, r) \in Infos
           /\ Confirmed(info, r) \in Infos
           /\ "Unsafe" \in info.verdict => "Unsafe" \in Discharged(info, r).verdict
           /\ "Unsafe" \in Confirmed(info, r).verdict
  BY DEF Discharged, Confirmed, Infos, Bits

\* What a round writes: the promoted functions get a passing verdict.
LEMMA TargetFacts ==
    ASSUME TypeOK, WaitingOK, NEW f \in ToPromote
    PROVE  /\ f \in waiting /\ f \notin promoted /\ f \in Functions
           /\ Target(f) \subseteq {"IfImported"}
<1>1. f \in waiting /\ f \notin promoted /\ f \in Functions
  BY DEF ToPromote, TypeOK
<1>2. Base(f) \subseteq {"IfImported"}
  BY <1>1 DEF Base, WaitingOK, TypeOK, Infos, Bits
<1>3. ASSUME NEW r \in safety[f].missing
      PROVE  HandedOn(r) \subseteq {"IfImported"}
  BY <1>3 DEF HandedOn, ToPromote, NonBlocking
<1> QED
  BY <1>1, <1>2, <1>3 DEF Target

\* A round changes the verdicts of the functions it promotes and nothing else of
\* the map.
LEMMA PromoteEffect ==
    ASSUME Promote
    PROVE  \A f \in Functions :
              /\ safety'[f].missing = safety[f].missing
              /\ safety'[f].verdict = IF f \in ToPromote THEN Target(f) ELSE safety[f].verdict
<1> TAKE f \in Functions
<1>1. CASE f \in ToPromote
  <2>1. safety'[f] = [verdict |-> Target(f), missing |-> safety[f].missing]
    BY <1>1 DEF Promote
  <2> QED
    BY <1>1, <2>1
<1>2. CASE f \notin ToPromote
  BY <1>2 DEF Promote
<1> QED
  BY <1>1, <1>2

LEMMA InitIInv == Init => IInv
<1> SUFFICES ASSUME Init PROVE IInv
  OBVIOUS
<1>1. TypeOK
  BY LibraryFacts DEF Init, TypeOK
<1>2. StageOK
  BY DEF Init, StageOK
<1>3. WaitingOK
  BY DEF Init, WaitingOK
<1> QED
  BY <1>1, <1>2, <1>3 DEF IInv

LEMMA NextIInv == IInv /\ [Next]_vars => IInv'
<1> SUFFICES ASSUME IInv, [Next]_vars PROVE IInv'
  OBVIOUS
<1> USE DEF IInv
<1>1. ASSUME NEW c \in todo, Confirm(c) PROVE IInv'
  <2>1. c \in Candidates
    BY LibraryFacts DEF TypeOK, StageOK
  <2>2. CASE c.site = NoName
    BY <1>1, <2>1, <2>2 DEF Confirm, TypeOK, StageOK, WaitingOK, Candidates, Refs
  <2>3. CASE c.site # NoName
    <3>1. c.site \in Functions /\ safety[c.site] \in Infos
      BY <2>1, <2>3 DEF Candidates, TypeOK
    <3>2. Confirmed(safety[c.site], c.callee) \in Infos
      BY <3>1, DischargedFacts
    <3>3. safety' \in [Functions -> Infos]
      BY <1>1, <2>3, <3>1, <3>2 DEF Confirm, TypeOK
    <3> QED
      BY <1>1, <2>3, <3>3 DEF Confirm, TypeOK, StageOK, WaitingOK
  <2> QED
    BY <2>2, <2>3
<1>2. ASSUME NEW c \in todo, Discharge(c) PROVE IInv'
  <2>1. c \in Candidates /\ c.site # NoName
    BY <1>2, LibraryFacts DEF TypeOK, StageOK, Discharge
  <2>2. c.site \in Functions /\ safety[c.site] \in Infos
    BY <2>1 DEF Candidates, TypeOK
  <2>3. Discharged(safety[c.site], c.callee) \in Infos
    BY <2>2, DischargedFacts
  <2>4. safety' \in [Functions -> Infos]
    BY <1>2, <2>2, <2>3 DEF Discharge, TypeOK
  <2> QED
    BY <1>2, <2>4 DEF Discharge, TypeOK, StageOK, WaitingOK
<1>3. ASSUME DecideDischarges PROVE IInv'
  BY <1>3 DEF DecideDischarges, Discharges, TypeOK, StageOK, WaitingOK
<1>4. ASSUME Collect PROVE IInv'
  <2>1. TypeOK'
    BY <1>4 DEF Collect, TypeOK, StageOK, PromotionCandidates, NamesOf
  <2>2. StageOK'
    BY <1>4 DEF Collect, StageOK
  <2>3. WaitingOK'
    BY <1>4 DEF Collect, StageOK, WaitingOK, PromotionCandidates
  <2> QED
    BY <2>1, <2>2, <2>3
<1>5. ASSUME Promote PROVE IInv'
  <2>1. \A f \in ToPromote : f \in waiting /\ f \notin promoted /\ f \in Functions
                             /\ Target(f) \subseteq {"IfImported"}
    BY TargetFacts
  <2>3. safety' \in [Functions -> Infos]
    BY <1>5, <2>1 DEF Promote, TypeOK, Infos, Bits
  <2>4. TypeOK'
    BY <1>5, <2>1, <2>3 DEF Promote, TypeOK, NamesOf
  <2>5. StageOK'
    BY <1>5 DEF Promote, StageOK
  <2>6. \A f \in Functions : safety'[f].missing = safety[f].missing
                             /\ safety'[f].verdict = IF f \in ToPromote THEN Target(f)
                                                     ELSE safety[f].verdict
    BY <1>5, PromoteEffect
  <2>7. WaitingOK'
    BY <1>5, <2>1, <2>6 DEF Promote, WaitingOK, PromotionCandidates, TypeOK
  <2> QED
    BY <2>4, <2>5, <2>7
<1>6. ASSUME Finish PROVE IInv'
  BY <1>6 DEF Finish, TypeOK, StageOK, WaitingOK, PromotionCandidates
<1>7. ASSUME UNCHANGED vars PROVE IInv'
  BY <1>7 DEF vars, TypeOK, StageOK, WaitingOK, PromotionCandidates
<1> QED
  BY <1>1, <1>2, <1>3, <1>4, <1>5, <1>6, <1>7 DEF Next, Step, Done

LEMMA Invariance == Spec => []IInv
  BY InitIInv, NextIInv, PTL DEF Spec

\* Type correctness of the resolution.
THEOREM TypeCorrect == Spec => []TypeOK
  BY Invariance, PTL DEF IInv

-----------------------------------------------------------------------------
(* Promotion.                                                               *)

\* A callee that does not block is not itself promoted, and goes on not blocking.
LEMMA NonBlockingKept ==
    ASSUME IInv, Promote, NEW r \in Refs, NonBlocking(r)
    PROVE  NonBlocking(r)'
<1>1. CASE r \in Functions
  <2>1. r \notin ToPromote
    BY <1>1, NamesAssumption DEF NonBlocking, ToPromote, IInv, WaitingOK
  <2> QED
    BY <1>1, <2>1, PromoteEffect, NamesAssumption DEF NonBlocking
<1>2. CASE r \notin Functions
  BY <1>2 DEF NonBlocking, Promote, Refs
<1> QED
  BY <1>1, <1>2

\* A promoted function waits for nothing that blocks it, in any later state.
THEOREM PromotionIsSound == Spec => []PromotionSound
<1>1. Init => PromotionSound
  BY DEF Init, PromotionSound
<1>2. IInv /\ PromotionSound /\ [Next]_vars => PromotionSound'
  <2> SUFFICES ASSUME IInv, PromotionSound, [Next]_vars PROVE PromotionSound'
    OBVIOUS
  <2>1. ASSUME Promote PROVE PromotionSound'
    <3> SUFFICES ASSUME NEW f \in promoted', NEW r \in safety'[f].missing PROVE NonBlocking(r)'
      BY DEF PromotionSound
    <3>1. f \in promoted \/ f \in ToPromote
      BY <2>1 DEF Promote
    <3>2. f \in Functions
      BY <3>1 DEF IInv, TypeOK, ToPromote
    <3>3. r \in safety[f].missing /\ r \in Refs
      BY <2>1, <3>2, PromoteEffect DEF IInv, TypeOK, Infos
    <3>4. NonBlocking(r)
      BY <3>1, <3>3 DEF PromotionSound, ToPromote
    <3> QED
      BY <2>1, <3>3, <3>4, NonBlockingKept
  <2>2. ASSUME promoted' = {} PROVE PromotionSound'
    BY <2>2 DEF PromotionSound
  <2>3. ASSUME UNCHANGED <<promoted, safety, globally_safe, globally_if_imported>>
        PROVE  PromotionSound'
    BY <2>3 DEF PromotionSound, NonBlocking
  <2> QED
    BY <2>1, <2>2, <2>3 DEF Next, Step, vars, Confirm, Discharge, DecideDischarges, Collect, Finish,
       Done, IInv, StageOK
<1> QED
  BY <1>1, <1>2, Invariance, PTL DEF Spec

\* No set of functions that wait for one another is promoted on its own account:
\* the result is the least fixpoint, not just some fixpoint.
THEOREM NoCircularPromotion == Spec => []NoSelfJustification
<1>1. Init => NoSelfJustification
  BY DEF Init, NoSelfJustification
<1>2. IInv /\ NoSelfJustification /\ [Next]_vars => NoSelfJustification'
  <2> SUFFICES ASSUME IInv, NoSelfJustification, [Next]_vars PROVE NoSelfJustification'
    OBVIOUS
  <2>1. ASSUME Promote PROVE NoSelfJustification'
    <3> SUFFICES ASSUME NEW S \in SUBSET waiting',
                        \A f \in S : \E r \in safety'[f].missing : r \in S
                 PROVE  S \cap promoted' = {}
      BY DEF NoSelfJustification
    <3>1. S \subseteq waiting /\ S \subseteq Functions
      BY <2>1 DEF Promote, IInv, TypeOK
    <3>2. \A f \in S : \E r \in safety[f].missing : r \in S
      BY <2>1, <3>1, PromoteEffect
    <3>3. S \cap promoted = {}
      BY <3>1, <3>2 DEF NoSelfJustification
    <3>4. ASSUME NEW f \in S, f \in ToPromote PROVE FALSE
      <4>1. PICK r \in safety[f].missing : r \in S
        BY <3>2
      <4>2. "MissingDep" \in safety[r].verdict
        BY <3>1, <3>3, <4>1 DEF IInv, WaitingOK
      <4>3. NonBlocking(r)
        BY <3>4, <4>1 DEF ToPromote
      <4> QED
        BY <3>1, <4>1, <4>2, <4>3, NamesAssumption DEF NonBlocking
    <3> QED
      BY <2>1, <3>3, <3>4 DEF Promote
  <2>2. ASSUME promoted' = {} PROVE NoSelfJustification'
    BY <2>2 DEF NoSelfJustification
  <2>3. ASSUME UNCHANGED <<promoted, safety, waiting>> PROVE NoSelfJustification'
    BY <2>3 DEF NoSelfJustification
  <2> QED
    BY <2>1, <2>2, <2>3 DEF Next, Step, vars, Confirm, Discharge, DecideDischarges, Collect, Finish,
       Done, IInv, StageOK
<1> QED
  BY <1>1, <1>2, Invariance, PTL DEF Spec

\* When the rounds end, every function that still waits waits for something that
\* blocks it.
THEOREM PromotionIsComplete == Spec => []PromotionComplete
<1>1. Init => PromotionComplete
  BY DEF Init, PromotionComplete
<1>2. IInv /\ PromotionComplete /\ [Next]_vars => PromotionComplete'
  <2> SUFFICES ASSUME IInv, PromotionComplete, [Next]_vars, stage' = "done",
                      NEW f \in PromotionCandidates'
               PROVE  \E r \in safety'[f].missing : ~NonBlocking(r)'
    BY DEF PromotionComplete
  <2>1. ASSUME Finish PROVE \E r \in safety'[f].missing : ~NonBlocking(r)'
    <3>1. f \in PromotionCandidates /\ f \in Functions
      BY <2>1 DEF Finish, PromotionCandidates
    <3>2. f \in waiting
      BY <2>1, <3>1 DEF Finish, IInv, WaitingOK
    <3>3. f \notin promoted
      BY <3>1 DEF IInv, WaitingOK, PromotionCandidates
    <3>4. \E r \in safety[f].missing : ~NonBlocking(r)
      BY <2>1, <3>2, <3>3 DEF Finish, ToPromote
    <3> QED
      BY <2>1, <3>4 DEF Finish, NonBlocking
  <2>2. ASSUME stage = "done", UNCHANGED vars
        PROVE  \E r \in safety'[f].missing : ~NonBlocking(r)'
    BY <2>2 DEF vars, PromotionComplete, PromotionCandidates, NonBlocking
  <2> QED
    BY <2>1, <2>2 DEF Next, Step, vars, Confirm, Discharge, DecideDischarges, Collect, Promote, Done
<1> QED
  BY <1>1, <1>2, Invariance, PTL DEF Spec

\* After the last round the promoted functions are exactly what the promotion rule
\* justifies, whatever the candidates.
THEOREM PromotionIsExact == Spec => []PromotionExact
BY PromotionIsSound, PromotionIsComplete, PTL DEF PromotionExact

\* No step of the resolution clears a hard Unsafe verdict.
THEOREM UnsafeStays == Spec => UnsafeIsKept
<1>1. IInv /\ [Next]_vars =>
        [\A f \in Functions : "Unsafe" \in safety[f].verdict => "Unsafe" \in safety'[f].verdict]_vars
  <2> SUFFICES ASSUME IInv, Next, NEW f \in Functions, "Unsafe" \in safety[f].verdict
               PROVE  "Unsafe" \in safety'[f].verdict
    BY DEF vars
  <2>0. safety[f] \in Infos
    BY DEF IInv, TypeOK
  <2>1. ASSUME NEW c \in todo, Confirm(c) PROVE "Unsafe" \in safety'[f].verdict
    BY <2>0, <2>1, DischargedFacts DEF Confirm, IInv, TypeOK
  <2>2. ASSUME NEW c \in todo, Discharge(c) PROVE "Unsafe" \in safety'[f].verdict
    BY <2>0, <2>2, DischargedFacts DEF Discharge, IInv, TypeOK
  <2>3. ASSUME Promote PROVE "Unsafe" \in safety'[f].verdict
    <3>1. f \notin ToPromote
      BY DEF ToPromote, IInv, WaitingOK
    <3> QED
      BY <2>3, <3>1, PromoteEffect
  <2>4. ASSUME UNCHANGED safety PROVE "Unsafe" \in safety'[f].verdict
    BY <2>4
  <2> QED
    BY <2>1, <2>2, <2>3, <2>4 DEF Next, Step, vars, DecideDischarges, Collect, Finish, Done
<1> QED
  BY <1>1, Invariance, PTL DEF Spec, UnsafeIsKept

-----------------------------------------------------------------------------
(* The candidate phases.                                                    *)

\* The candidates at f that were confirmed, and those that were discharged, so
\* far.
ConfirmedSoFar(f) ==
    {c.callee : c \in {x \in lib.candidates :
                         x.site = f /\ x.mutates /\ (stage = "confirm" => x \notin todo)}}

DischargedSoFar(f) ==
    {c.callee : c \in {x \in lib.candidates :
                         /\ x.site = f /\ ~x.mutates /\ ~UnsafeAfterConfirm(x.callee)
                         /\ stage # "confirm" /\ x \notin todo}}

\* What a stage has left to do.
TodoOK ==
    /\ stage = "confirm" => \A c \in todo : c.mutates
    /\ stage = "discharge" => \A c \in todo : ~c.mutates /\ ~UnsafeAfterConfirm(c.callee)

\* The entry of a function is what the candidates make of it, but for the verdict
\* of a function that was promoted, which keeps a tie to its module.
EntryOK(f) ==
    LET a == Applied(f, ConfirmedSoFar(f), DischargedSoFar(f))
    IN  /\ safety[f].missing = a.missing
        /\ f \notin promoted => safety[f] = a
        /\ f \in promoted =>
              /\ "MissingDep" \in a.verdict /\ "Unsafe" \notin a.verdict
              /\ "IfImported" \in a.verdict => "IfImported" \in safety[f].verdict

CandidatesInv == TodoOK /\ \A f \in Functions : EntryOK(f)

\* One candidate more.
LEMMA AppliedConfirmed ==
    ASSUME NEW f \in Functions, NEW A, NEW r, lib.safety[f] \in Infos
    PROVE  Confirmed(Applied(f, A, {}), r) = Applied(f, A \cup {r}, {})
<1>1. (lib.safety[f].missing \ A) \ {r} = lib.safety[f].missing \ (A \cup {r})
  OBVIOUS
<1> QED
  BY <1>1 DEF Confirmed, Discharged, Applied, Infos

LEMMA AppliedDischarged ==
    ASSUME NEW f \in Functions, NEW A, NEW U, NEW r, lib.safety[f] \in Infos
    PROVE  Discharged(Applied(f, A, U), r) = Applied(f, A, U \cup {r})
<1>1. (lib.safety[f].missing \ (A \cup U)) \ {r} = lib.safety[f].missing \ (A \cup (U \cup {r}))
  OBVIOUS
<1> QED
  BY <1>1 DEF Discharged, Applied, Infos

\* What the facts of a library say about a candidate.
LEMMA CandidateFacts ==
    ASSUME IInv, NEW c \in lib.candidates
    PROVE  /\ c.callee \in Refs
           /\ c.site \in Functions \cup {NoName}
           /\ c.mutates \in BOOLEAN
  BY LibraryFacts DEF IInv, StageOK, Candidates

\* A step that leaves the facts, the stage and the todo list alone keeps what was
\* applied so far.
LEMMA SoFarKept ==
    ASSUME UNCHANGED <<lib, stage, todo>>, NEW f
    PROVE  ConfirmedSoFar(f)' = ConfirmedSoFar(f) /\ DischargedSoFar(f)' = DischargedSoFar(f)
  BY DEF ConfirmedSoFar, DischargedSoFar, UnsafeAfterConfirm, ConfirmedAt

\* Once all confirmations are in, a callee is unsafe exactly if the facts or a
\* confirmation make it so.
LEMMA UnsafeCallees ==
    ASSUME IInv, CandidatesInv, stage = "confirm", todo = {}, NEW r
    PROVE  CalleeResolvesUnsafe(r) = UnsafeAfterConfirm(r)
<1> SUFFICES ASSUME r \in Functions
             PROVE  (safety[r].verdict # {}) = (ConfirmedAt(r) # {} \/ lib.safety[r].verdict # {})
  BY DEF CalleeResolvesUnsafe, UnsafeAfterConfirm
<1>1. safety[r] = Applied(r, ConfirmedAt(r), {})
  <2>1. ConfirmedSoFar(r) = ConfirmedAt(r) /\ DischargedSoFar(r) = {}
    BY DEF ConfirmedSoFar, DischargedSoFar, ConfirmedAt
  <2> QED
    BY <2>1 DEF CandidatesInv, EntryOK, IInv, StageOK
<1> QED
  BY <1>1 DEF Applied

LEMMA InitCandidates == Init => CandidatesInv
<1> SUFFICES ASSUME Init PROVE CandidatesInv
  OBVIOUS
<1>1. TodoOK
  BY DEF Init, TodoOK
<1>2. ASSUME NEW f \in Functions PROVE EntryOK(f)
  <2>1. ConfirmedSoFar(f) = {} /\ DischargedSoFar(f) = {}
    BY DEF Init, ConfirmedSoFar, DischargedSoFar
  <2>2. lib.safety[f] \in Infos
    BY LibraryFacts DEF Init
  <2>3. Applied(f, {}, {}) = lib.safety[f]
    BY <2>2 DEF Applied, Infos
  <2> QED
    BY <2>1, <2>3 DEF EntryOK, Init
<1> QED
  BY <1>1, <1>2 DEF CandidatesInv

LEMMA NextCandidates == IInv /\ CandidatesInv /\ [Next]_vars => CandidatesInv'
<1> SUFFICES ASSUME IInv, CandidatesInv, [Next]_vars PROVE CandidatesInv'
  OBVIOUS
<1>0. \A f \in Functions : lib.safety[f] \in Infos /\ f # NoName
  BY LibraryFacts, NamesAssumption DEF IInv, StageOK
<1>1. ASSUME NEW c \in todo, Confirm(c) PROVE CandidatesInv'
  <2>1. c \in lib.candidates /\ c.mutates
    BY <1>1 DEF IInv, TypeOK, CandidatesInv, TodoOK, Confirm
  <2>2. TodoOK'
    BY <1>1 DEF Confirm, CandidatesInv, TodoOK
  <2>3. ASSUME NEW f \in Functions PROVE EntryOK(f)'
    <3>1. DischargedSoFar(f) = {} /\ DischargedSoFar(f)' = {} /\ promoted = {} /\ promoted' = {}
      BY <1>1 DEF Confirm, DischargedSoFar, IInv, StageOK
    <3>2. safety[f] = Applied(f, ConfirmedSoFar(f), {})
      BY <3>1 DEF CandidatesInv, EntryOK
    <3>3. CASE f = c.site
      <4>1. ConfirmedSoFar(f)' = ConfirmedSoFar(f) \cup {c.callee}
        BY <1>1, <2>1, <3>3 DEF Confirm, ConfirmedSoFar
      <4>2. safety'[f] = Confirmed(safety[f], c.callee)
        BY <1>0, <1>1, <3>3 DEF Confirm, IInv, TypeOK
      <4>3. safety'[f] = Applied(f, ConfirmedSoFar(f) \cup {c.callee}, {})
        BY <1>0, <3>2, <4>2, AppliedConfirmed
      <4> QED
        BY <1>1, <3>1, <4>1, <4>3 DEF EntryOK, Applied, Confirm
    <3>4. CASE f # c.site
      <4>1. ConfirmedSoFar(f)' = ConfirmedSoFar(f)
        BY <1>1, <3>4 DEF Confirm, ConfirmedSoFar
      <4>2. safety'[f] = safety[f]
        BY <1>1, <3>4 DEF Confirm, IInv, TypeOK
      <4> QED
        BY <1>1, <3>1, <3>2, <4>1, <4>2 DEF EntryOK, Applied, Confirm
    <3> QED
      BY <3>3, <3>4
  <2> QED
    BY <2>2, <2>3 DEF CandidatesInv
<1>2. ASSUME DecideDischarges PROVE CandidatesInv'
  <2>1. \A r : CalleeResolvesUnsafe(r) = UnsafeAfterConfirm(r)
    BY <1>2, UnsafeCallees DEF DecideDischarges
  <2>2. \A r : UnsafeAfterConfirm(r)' = UnsafeAfterConfirm(r)
    BY <1>2 DEF DecideDischarges, UnsafeAfterConfirm, ConfirmedAt
  <2>3. TodoOK'
    BY <1>2, <2>1, <2>2 DEF DecideDischarges, Discharges, TodoOK
  <2>4. ASSUME NEW f \in Functions PROVE EntryOK(f)'
    <3>1. ConfirmedSoFar(f)' = ConfirmedSoFar(f) /\ DischargedSoFar(f) = {}
      BY <1>2 DEF DecideDischarges, ConfirmedSoFar, DischargedSoFar
    <3>2. DischargedSoFar(f)' = {}
      <4> SUFFICES ASSUME NEW x \in lib.candidates, x.site = f, ~x.mutates,
                          ~UnsafeAfterConfirm(x.callee)
                   PROVE  x \in Discharges
        BY <1>2, <2>2 DEF DecideDischarges, DischargedSoFar
      <4> QED
        BY <1>0, <2>1 DEF Discharges
    <3> QED
      BY <1>2, <3>1, <3>2 DEF DecideDischarges, CandidatesInv, EntryOK, Applied
  <2> QED
    BY <2>3, <2>4 DEF CandidatesInv
<1>3. ASSUME NEW c \in todo, Discharge(c) PROVE CandidatesInv'
  <2>1. c \in lib.candidates /\ ~c.mutates /\ ~UnsafeAfterConfirm(c.callee)
    BY <1>3 DEF IInv, TypeOK, CandidatesInv, TodoOK, Discharge
  <2>2. \A r : UnsafeAfterConfirm(r)' = UnsafeAfterConfirm(r)
    BY <1>3 DEF Discharge, UnsafeAfterConfirm, ConfirmedAt
  <2>3. TodoOK'
    BY <1>3, <2>2 DEF Discharge, CandidatesInv, TodoOK
  <2>4. ASSUME NEW f \in Functions PROVE EntryOK(f)'
    <3>1. ConfirmedSoFar(f)' = ConfirmedSoFar(f) /\ promoted = {} /\ promoted' = {}
      BY <1>3 DEF Discharge, ConfirmedSoFar, IInv, StageOK
    <3>2. safety[f] = Applied(f, ConfirmedSoFar(f), DischargedSoFar(f))
      BY <3>1 DEF CandidatesInv, EntryOK
    <3>3. CASE f = c.site
      <4>1. DischargedSoFar(f)' = DischargedSoFar(f) \cup {c.callee}
        BY <1>3, <2>1, <2>2, <3>3 DEF Discharge, DischargedSoFar
      <4>2. safety'[f] = Discharged(safety[f], c.callee)
        BY <1>3, <3>3 DEF Discharge, IInv, TypeOK
      <4>3. safety'[f] = Applied(f, ConfirmedSoFar(f), DischargedSoFar(f) \cup {c.callee})
        BY <1>0, <3>2, <4>2, AppliedDischarged
      <4> QED
        BY <1>3, <3>1, <4>1, <4>3 DEF EntryOK, Applied, Discharge
    <3>4. CASE f # c.site
      <4>1. DischargedSoFar(f)' = DischargedSoFar(f)
        BY <1>3, <2>2, <3>4 DEF Discharge, DischargedSoFar
      <4>2. safety'[f] = safety[f]
        BY <1>3, <3>4 DEF Discharge, IInv, TypeOK
      <4> QED
        BY <1>3, <3>1, <3>2, <4>1, <4>2 DEF EntryOK, Applied, Discharge
    <3> QED
      BY <3>3, <3>4
  <2> QED
    BY <2>3, <2>4 DEF CandidatesInv
<1>4. ASSUME Collect \/ Finish PROVE CandidatesInv'
  <2>1. TodoOK'
    BY <1>4 DEF Collect, Finish, TodoOK
  <2>2. ASSUME NEW f \in Functions PROVE EntryOK(f)'
    <3>1. UNCHANGED <<lib, safety, promoted, todo>> /\ stage # "confirm" /\ stage' # "confirm"
      BY <1>4 DEF Collect, Finish
    <3>2. ConfirmedSoFar(f)' = ConfirmedSoFar(f) /\ DischargedSoFar(f)' = DischargedSoFar(f)
      BY <3>1 DEF ConfirmedSoFar, DischargedSoFar, UnsafeAfterConfirm, ConfirmedAt
    <3> QED
      BY <3>1, <3>2 DEF CandidatesInv, EntryOK, Applied
  <2> QED
    BY <2>1, <2>2 DEF CandidatesInv
<1>5. ASSUME Promote PROVE CandidatesInv'
  <2>0. UNCHANGED <<lib, stage, todo>>
    BY <1>5 DEF Promote
  <2>1. TodoOK'
    BY <1>5 DEF Promote, TodoOK
  <2>2. ASSUME NEW f \in Functions PROVE EntryOK(f)'
    <3>1. ConfirmedSoFar(f)' = ConfirmedSoFar(f) /\ DischargedSoFar(f)' = DischargedSoFar(f)
      BY <2>0, SoFarKept
    <3>2. EntryOK(f)
      BY DEF CandidatesInv
    <3>3. CASE f \in ToPromote
      <4>1. f \notin promoted /\ f \in promoted'
        BY <1>5, <3>3 DEF ToPromote, Promote
      <4>2. "MissingDep" \in safety[f].verdict /\ "Unsafe" \notin safety[f].verdict
        BY <3>3 DEF IInv, WaitingOK, ToPromote
      <4>3. "IfImported" \in safety[f].verdict => "IfImported" \in Target(f)
        BY DEF Target, Base
      <4>4. safety'[f].missing = safety[f].missing /\ safety'[f].verdict = Target(f)
        BY <1>5, <3>3, PromoteEffect
      <4> QED
        BY <2>0, <3>1, <3>2, <4>1, <4>2, <4>3, <4>4 DEF EntryOK, Applied
    <3>4. CASE f \notin ToPromote
      <4>1. (f \in promoted') = (f \in promoted) /\ safety'[f] = safety[f]
        BY <1>5, <3>4 DEF Promote
      <4> QED
        BY <2>0, <3>1, <3>2, <4>1 DEF EntryOK, Applied
    <3> QED
      BY <3>3, <3>4
  <2> QED
    BY <2>1, <2>2 DEF CandidatesInv
<1>6. ASSUME UNCHANGED vars PROVE CandidatesInv'
  <2>0. UNCHANGED <<lib, stage, todo, safety, promoted>>
    BY <1>6 DEF vars
  <2>1. TodoOK'
    BY <2>0 DEF CandidatesInv, TodoOK, UnsafeAfterConfirm, ConfirmedAt
  <2>2. ASSUME NEW f \in Functions PROVE EntryOK(f)'
    BY <2>0, SoFarKept DEF CandidatesInv, EntryOK, Applied
  <2> QED
    BY <2>1, <2>2 DEF CandidatesInv
<1> QED
  BY <1>1, <1>2, <1>3, <1>4, <1>5, <1>6 DEF Next, Step, Done

LEMMA CandidatesInvariance == Spec => [](IInv /\ CandidatesInv)
  BY InitIInv, NextIInv, InitCandidates, NextCandidates, PTL DEF Spec

\* Once both phases are over, every entry is what its candidates determine: the
\* order in which the hash map hands them out does not matter.
THEOREM CandidatesAreExact == Spec => []CandidatesExact
<1>1. IInv /\ CandidatesInv => CandidatesExact
  <2> SUFFICES ASSUME IInv, CandidatesInv, stage = "promote", promoted = {}, NEW f \in Functions
               PROVE  safety[f] = Applied(f, ConfirmedAt(f), DischargedAt(f))
    BY DEF CandidatesExact
  <2>1. ConfirmedSoFar(f) = ConfirmedAt(f) /\ DischargedSoFar(f) = DischargedAt(f)
    BY DEF ConfirmedSoFar, DischargedSoFar, ConfirmedAt, DischargedAt, IInv, StageOK
  <2> QED
    BY <2>1 DEF CandidatesInv, EntryOK
<1> QED
  BY <1>1, CandidatesInvariance, PTL

-----------------------------------------------------------------------------
(* The indices of unqualified names.                                        *)

LEMMA NamesOfUnion ==
    ASSUME NEW A, NEW B
    PROVE  NamesOf(A \cup B) = NamesOf(A) \cup NamesOf(B)
  BY DEF NamesOf

\* A round makes exactly the functions it promotes to a verdict have that verdict:
\* none had it before, and none loses it.
LEMMA EntriesAfterRound ==
    ASSUME IInv, Promote
    PROVE  /\ SafeEntries' = SafeEntries \cup {f \in ToPromote : Target(f) = {}}
           /\ IfImportedEntries' =
                IfImportedEntries \cup {f \in ToPromote : Target(f) = {"IfImported"}}
<1>1. \A f \in ToPromote : f \in Functions /\ "MissingDep" \in safety[f].verdict
  BY TargetFacts DEF IInv, WaitingOK, ToPromote
<1>2. \A f \in Functions :
         safety'[f].verdict = IF f \in ToPromote THEN Target(f) ELSE safety[f].verdict
  BY PromoteEffect
<1>3. SafeEntries' = SafeEntries \cup {f \in ToPromote : Target(f) = {}}
  BY <1>1, <1>2 DEF SafeEntries
<1>4. IfImportedEntries' = IfImportedEntries \cup {f \in ToPromote : Target(f) = {"IfImported"}}
  <2>1. \A f \in ToPromote : safety[f].verdict # {"IfImported"}
    BY <1>1
  <2> QED
    BY <1>1, <1>2, <2>1 DEF IfImportedEntries
<1> QED
  BY <1>3, <1>4

\* The names of safe and of if-imported entries that the rounds carry along are
\* always those of the current map.
THEOREM IndicesAreFresh == Spec => []IndicesFresh
<1>1. Init => IndicesFresh
  BY DEF Init, IndicesFresh
<1>2. IInv /\ IndicesFresh /\ [Next]_vars => IndicesFresh'
  <2> SUFFICES ASSUME IInv, IndicesFresh, [Next]_vars PROVE IndicesFresh'
    OBVIOUS
  <2>1. ASSUME Promote PROVE IndicesFresh'
    <3>1. /\ SafeEntries' = SafeEntries \cup {f \in ToPromote : Target(f) = {}}
          /\ IfImportedEntries' =
               IfImportedEntries \cup {f \in ToPromote : Target(f) = {"IfImported"}}
      BY <2>1, EntriesAfterRound
    <3>2. /\ NamesOf(SafeEntries)' = NamesOf(SafeEntries')
          /\ NamesOf(IfImportedEntries)' = NamesOf(IfImportedEntries')
      BY <2>1 DEF Promote, NamesOf
    <3>3. globally_safe = NamesOf(SafeEntries) /\ globally_if_imported = NamesOf(IfImportedEntries)
      BY <2>1 DEF Promote, IndicesFresh
    <3>4. globally_safe' = NamesOf(SafeEntries)'
      BY <2>1, <3>1, <3>2, <3>3, NamesOfUnion DEF Promote
    <3>5. globally_if_imported' = NamesOf(IfImportedEntries)'
      BY <2>1, <3>1, <3>2, <3>3, NamesOfUnion DEF Promote
    <3> QED
      BY <3>4, <3>5 DEF IndicesFresh
  <2>2. ASSUME Collect PROVE IndicesFresh'
    BY <2>2 DEF Collect, IndicesFresh, NamesOf, SafeEntries, IfImportedEntries
  <2>3. ASSUME stage' \notin {"promote", "done"} PROVE IndicesFresh'
    BY <2>3 DEF IndicesFresh
  <2>4. ASSUME UNCHANGED <<lib, safety, globally_safe, globally_if_imported>>,
               stage' \in {"promote", "done"} => stage \in {"promote", "done"}
        PROVE  IndicesFresh'
    BY <2>4 DEF IndicesFresh, NamesOf, SafeEntries, IfImportedEntries
  <2>5. CASE UNCHANGED vars
    BY <2>4, <2>5 DEF vars
  <2>6. ASSUME NEW c \in todo, Confirm(c) \/ Discharge(c) PROVE IndicesFresh'
    BY <2>3, <2>6 DEF Confirm, Discharge
  <2>7. CASE DecideDischarges
    BY <2>3, <2>7 DEF DecideDischarges
  <2>8. CASE Finish
    BY <2>4, <2>8 DEF Finish
  <2> QED
    BY <2>1, <2>2, <2>5, <2>6, <2>7, <2>8 DEF Next, Step, Done
<1> QED
  BY <1>1, <1>2, Invariance, PTL DEF Spec

-----------------------------------------------------------------------------
(* The reduce: the resolution between two passes over the cached errors.    *)

\* Every step of the reduce is a step of the resolution or leaves it alone, so
\* all that was proved of the resolution holds inside a reduce.
LEMMA ReduceStepIsStep == [ReduceNext]_reduce_vars => [Next]_vars
  BY DEF ReduceNext, reduce_vars, ClearEarly, ClearFinally, BeginResolution, Resolve, BeginFinal, End,
     Ended, Next

\* A reduce is a resolution.
THEOREM ReduceResolves == ReduceSpec => Spec
  BY ReduceStepIsStep, PTL DEF ReduceSpec, ReduceInit, Spec

\* Nothing was applied yet in the early pass, and nothing will be in the final.
PassOK ==
    /\ pass = "early" => stage = "confirm" /\ safety = lib.safety
    /\ pass \in {"final", "end"} => stage = "done"

\* What the early pass decided, in terms of the libraries' verdicts, so that it can
\* still be said once the resolution has changed them.
WasSafeIn(f, modules) == lib.home[f] \in modules /\ lib.safety[f].verdict = {}

DecoratorWasSafeIn(f, modules) ==
    WasSafeIn(f, modules) /\ \A g \in lib.nested[f] : lib.safety[g].verdict = {}

RecordCleared(e, modules) ==
    \A r \in lib.recorded[e.callee] :
        /\ r \in Functions /\ lib.home[r] \in modules
        /\ \/ lib.safety[r].verdict = {}
           \/ lib.safety[r].verdict = {"IfImported"} /\ lib.home[r] = e.caller

WereSafeNamesIn(modules) ==
    {u \in Unqualified : \E f \in lib.same_name[u] : WasSafeIn(f, modules)}

WasVerifiedSafe(e, modules, safe_names) ==
    IF e.parameterized
    THEN \/ e.callee \in Functions /\ DecoratorWasSafeIn(e.callee, modules)
         \/ /\ e.kind = "UnsafeDecoratorCall" /\ e.callee \in Unqualified
            /\ \E f \in lib.same_name[e.callee] : DecoratorWasSafeIn(f, modules)
    ELSE \/ e.callee \in Functions /\ WasSafeIn(e.callee, modules)
         \/ e.kind \in BoundCalls \cup {"UnsafeDecoratorCall"} /\ e.callee \in safe_names

ClearedEarly(e) ==
    LET modules == lib.resolved[e.caller]
    IN  IF HasRecord(e) THEN RecordCleared(e, modules)
        ELSE WasVerifiedSafe(e, modules, WereSafeNamesIn(modules))

\* An error is gone because the early pass cleared it or because the final pass
\* did; and the final pass leaves no error of a module that it would clear.
RemainingOK ==
    /\ remaining \subseteq lib.cached_errors
    /\ modules_left \subseteq IF pass \in {"resolve", "end"} THEN {} ELSE Modules
    /\ pass \in {"early", "resolve", "final", "end"}
    /\ \A e \in lib.cached_errors \ remaining :
          ClearedEarly(e) \/ (pass \in {"final", "end"} /\ ClearsFinally(e))
    /\ pass \in {"final", "end"} =>
          \A e \in remaining : e.caller \notin modules_left => ~ClearsFinally(e)

ReduceInv == PassOK /\ RemainingOK

LEMMA CachedErrorFacts ==
    ASSUME lib \in Libraries
    PROVE  /\ \A e \in lib.cached_errors :
                 /\ e.caller \in Modules /\ e.callee \in Refs
                 /\ e.kind \in Kinds /\ e.parameterized \in BOOLEAN
           /\ lib.resolved \in [Modules -> SUBSET Modules]
           /\ lib.nested \in [Functions -> SUBSET Functions]
           /\ lib.recorded \in [Functions -> SUBSET Refs]
           /\ \A f \in Functions : lib.safety[f].missing # {} => "MissingDep" \in lib.safety[f].verdict
  BY ReduceAssumption DEF CachedErrors

\* While nothing was applied, the early pass reads the libraries' own verdicts.
LEMMA EarlyReads ==
    ASSUME safety = lib.safety, NEW e
    PROVE  ClearsEarly(e) = ClearedEarly(e)
<1>1. \A f, ms : SafeIn(f, ms) = WasSafeIn(f, ms) /\ DecoratorSafeIn(f, ms) = DecoratorWasSafeIn(f, ms)
  BY DEF SafeIn, WasSafeIn, DecoratorSafeIn, DecoratorWasSafeIn
<1>2. \A ms : SafeNamesIn(ms) = WereSafeNamesIn(ms)
  BY <1>1 DEF SafeNamesIn, WereSafeNamesIn
<1>3. \A ms, ns : VerifiedSafe(e, ms, ns) = WasVerifiedSafe(e, ms, ns)
  BY <1>1 DEF VerifiedSafe, WasVerifiedSafe
<1>4. \A ms : RecordClears(e, ms) = RecordCleared(e, ms)
  BY DEF RecordClears, RecordCleared
<1> QED
  BY <1>2, <1>3, <1>4 DEF ClearsEarly, ClearedEarly

\* What both passes read of an error once the resolution is done does not change.
LEMMA FinalStays ==
    ASSUME UNCHANGED vars, NEW e
    PROVE  ClearsFinally(e)' = ClearsFinally(e)
  BY DEF vars, ClearsFinally, HasRecord, RecordClears, OwnModule, VerifiedSafe, SafeIn, DecoratorSafeIn

LEMMA EarlyStays ==
    ASSUME UNCHANGED lib, NEW e
    PROVE  ClearedEarly(e)' = ClearedEarly(e)
  BY DEF ClearedEarly, HasRecord, RecordCleared, WasVerifiedSafe, WasSafeIn, DecoratorWasSafeIn,
     WereSafeNamesIn

LEMMA InitReduce == ReduceInit => ReduceInv
<1> SUFFICES ASSUME ReduceInit PROVE ReduceInv
  OBVIOUS
<1>1. PassOK
  BY DEF ReduceInit, Init, PassOK
<1>2. RemainingOK
  BY DEF ReduceInit, RemainingOK
<1> QED
  BY <1>1, <1>2 DEF ReduceInv

LEMMA NextReduce == IInv /\ ReduceInv /\ [ReduceNext]_reduce_vars => ReduceInv'
<1> SUFFICES ASSUME IInv, ReduceInv, [ReduceNext]_reduce_vars PROVE ReduceInv'
  OBVIOUS
<1> USE DEF ReduceInv
<1>0. \A e \in lib.cached_errors : e.caller \in Modules
  BY CachedErrorFacts DEF IInv, StageOK
<1>1. ASSUME NEW m \in Modules, ClearEarly(m) PROVE ReduceInv'
  <2>1. UNCHANGED <<lib, vars, pass>>
    BY <1>1 DEF ClearEarly, vars
  <2>2. PassOK'
    BY <1>1 DEF ClearEarly, PassOK, vars
  <2>3. \A e : ClearsEarly(e) = ClearedEarly(e)
    BY <1>1, EarlyReads DEF PassOK, ClearEarly
  <2>4. ASSUME NEW e \in lib.cached_errors, e \notin remaining' PROVE ClearedEarly(e)'
    <3>1. ClearedEarly(e)
      BY <1>1, <2>3, <2>4 DEF ClearEarly, RemainingOK
    <3> QED
      BY <2>1, <3>1, EarlyStays
  <2> QED
    BY <1>1, <2>1, <2>2, <2>4 DEF ClearEarly, RemainingOK
<1>2. ASSUME NEW m \in Modules, ClearFinally(m) PROVE ReduceInv'
  <2>1. UNCHANGED <<lib, vars, pass>> /\ pass = "final"
    BY <1>2 DEF ClearFinally, vars
  <2>2. PassOK'
    BY <1>2 DEF ClearFinally, PassOK, vars
  <2>3. \A e : ClearsFinally(e)' = ClearsFinally(e) /\ ClearedEarly(e)' = ClearedEarly(e)
    BY <2>1, FinalStays, EarlyStays
  <2>4. \A e \in lib.cached_errors : e \notin remaining' => ClearedEarly(e) \/ ClearsFinally(e)
    BY <1>2, <2>1 DEF ClearFinally, RemainingOK
  <2>5. \A e \in remaining' : e.caller \notin modules_left' => ~ClearsFinally(e)
    BY <1>2, <2>1 DEF ClearFinally, RemainingOK, ErrorsOf
  <2> QED
    BY <1>2, <2>1, <2>2, <2>3, <2>4, <2>5 DEF ClearFinally, RemainingOK
<1>3. ASSUME BeginResolution PROVE ReduceInv'
  <2>1. \A e : ClearedEarly(e)' = ClearedEarly(e)
    BY <1>3, EarlyStays DEF BeginResolution, vars
  <2> QED
    BY <1>3, <2>1 DEF BeginResolution, vars, PassOK, RemainingOK
<1>4. ASSUME Resolve PROVE ReduceInv'
  <2>0. lib' = lib
    BY <1>4 DEF Resolve, Step, Confirm, Discharge, DecideDischarges, Collect, Promote, Finish
  <2>1. \A e : ClearedEarly(e)' = ClearedEarly(e)
    BY <2>0, EarlyStays
  <2> QED
    BY <1>4, <2>0, <2>1 DEF Resolve, PassOK, RemainingOK
<1>5. ASSUME BeginFinal PROVE ReduceInv'
  <2>1. \A e : ClearedEarly(e)' = ClearedEarly(e)
    BY <1>5, EarlyStays DEF BeginFinal, vars
  <2>2. \A e \in remaining : e.caller \in Modules
    BY <1>0 DEF RemainingOK
  <2> QED
    BY <1>5, <2>1, <2>2 DEF BeginFinal, vars, PassOK, RemainingOK
<1>6. ASSUME End PROVE ReduceInv'
  <2>1. \A e : ClearsFinally(e)' = ClearsFinally(e) /\ ClearedEarly(e)' = ClearedEarly(e)
    BY <1>6, FinalStays, EarlyStays DEF End, vars
  <2> QED
    BY <1>6, <2>1 DEF End, vars, PassOK, RemainingOK
<1>7. ASSUME UNCHANGED reduce_vars PROVE ReduceInv'
  <2>1. \A e : ClearsFinally(e)' = ClearsFinally(e) /\ ClearedEarly(e)' = ClearedEarly(e)
    BY <1>7, FinalStays, EarlyStays DEF reduce_vars, vars
  <2> QED
    BY <1>7, <2>1 DEF reduce_vars, vars, PassOK, RemainingOK
<1> QED
  BY <1>1, <1>2, <1>3, <1>4, <1>5, <1>6, <1>7 DEF ReduceNext, Ended

LEMMA ReduceInvariance ==
    ReduceSpec => [](IInv /\ CandidatesInv /\ PromotionSound /\ IndicesFresh /\ ReduceInv)
<1>1. ReduceSpec => [](IInv /\ CandidatesInv /\ PromotionSound /\ IndicesFresh)
  BY ReduceResolves, CandidatesInvariance, PromotionIsSound, IndicesAreFresh, PTL
<1>2. ReduceSpec => []ReduceInv
  BY <1>1, InitReduce, NextReduce, PTL DEF ReduceSpec
<1> QED
  BY <1>1, <1>2, PTL

\* Once both phases are over, what was applied to an entry.
LEMMA EntryAtEnd ==
    ASSUME IInv, CandidatesInv, stage = "done", NEW f \in Functions
    PROVE  LET a == Applied(f, ConfirmedAt(f), DischargedAt(f))
           IN  /\ safety[f].missing = a.missing
               /\ f \notin promoted => safety[f] = a
               /\ f \in promoted =>
                     /\ "MissingDep" \in a.verdict /\ "Unsafe" \notin a.verdict
                     /\ "IfImported" \in a.verdict => "IfImported" \in safety[f].verdict
<1>1. ConfirmedSoFar(f) = ConfirmedAt(f) /\ DischargedSoFar(f) = DischargedAt(f)
  BY DEF ConfirmedSoFar, DischargedSoFar, ConfirmedAt, DischargedAt, IInv, StageOK
<1> QED
  BY <1>1 DEF CandidatesInv, EntryOK

\* A passing entry is left as it is unless a candidate is confirmed there: it waits
\* for nothing, so a discharge removes no bit from it, and nothing promotes it.
LEMMA QuietKept ==
    ASSUME IInv, CandidatesInv, stage = "done", NEW f \in Functions,
           lib.safety[f].verdict \subseteq {"IfImported"}, ~Overtaken(f)
    PROVE  safety[f].verdict = lib.safety[f].verdict
<1> DEFINE a == Applied(f, ConfirmedAt(f), DischargedAt(f))
<1>1. ConfirmedAt(f) = {}
  BY DEF Overtaken
<1>2. a.verdict = lib.safety[f].verdict
  BY <1>1 DEF Applied
<1>3. "MissingDep" \notin a.verdict
  BY <1>2
<1>4. f \notin promoted => safety[f] = a
  BY EntryAtEnd
<1>5. f \notin promoted
  BY <1>3, EntryAtEnd
<1> QED
  BY <1>2, <1>4, <1>5

\* What the early pass cleared, the final pass would clear, unless one of the
\* entries it read is overtaken.
LEMMA EarlyImpliesFinal ==
    ASSUME IInv, CandidatesInv, IndicesFresh, stage = "done",
           NEW e \in lib.cached_errors, ClearedEarly(e),
           \A f \in Runs(e) \cap Functions : ~Overtaken(f)
    PROVE  ClearsFinally(e)
<1> DEFINE modules == lib.resolved[e.caller]
<1>0. /\ e.caller \in Modules /\ modules \subseteq Modules
      /\ lib.nested \in [Functions -> SUBSET Functions]
      /\ lib.same_name \in [Unqualified -> SUBSET Functions]
      /\ lib.home \in [Functions -> Modules]
  BY CachedErrorFacts, LibraryFacts DEF IInv, StageOK
<1>1. \A f \in Runs(e) \cap Functions :
         lib.safety[f].verdict \subseteq {"IfImported"} => safety[f].verdict = lib.safety[f].verdict
  BY QuietKept
<1>2. \A f \in Runs(e) \cap Functions : WasSafeIn(f, modules) => SafeIn(f, modules) /\ SafeIn(f, Modules)
  BY <1>0, <1>1 DEF WasSafeIn, SafeIn
<1>3. Asked(e) \subseteq Runs(e)
  BY DEF Runs
<1>4. CASE HasRecord(e)
  <2>1. lib.recorded[e.callee] \subseteq Runs(e)
    BY <1>3, <1>4 DEF Asked
  <2>2. RecordCleared(e, modules)
    BY <1>4 DEF ClearedEarly
  <2>3. ASSUME NEW r \in lib.recorded[e.callee]
        PROVE  /\ r \in Functions /\ lib.home[r] \in Modules
               /\ \/ safety[r].verdict = {}
                  \/ safety[r].verdict = {"IfImported"} /\ lib.home[r] = e.caller
    <3>1. /\ r \in Functions /\ lib.home[r] \in modules
          /\ \/ lib.safety[r].verdict = {}
             \/ lib.safety[r].verdict = {"IfImported"} /\ lib.home[r] = e.caller
      BY <2>2 DEF RecordCleared
    <3>2. safety[r].verdict = lib.safety[r].verdict
      BY <1>1, <2>1, <3>1
    <3> QED
      BY <1>0, <3>1, <3>2
  <2>4. RecordClears(e, Modules)
    BY <2>3 DEF RecordClears
  <2> QED
    BY <1>4, <2>4 DEF ClearsFinally
<1>5. CASE ~HasRecord(e)
  <2>0. /\ e.callee \in Unqualified => Asked(e) = lib.same_name[e.callee]
        /\ e.callee \in Functions => Asked(e) = {e.callee}
    BY <1>5, NamesAssumption DEF Asked
  <2>1. WasVerifiedSafe(e, modules, WereSafeNamesIn(modules))
    BY <1>5 DEF ClearedEarly
  <2>2. VerifiedSafe(e, modules, globally_safe) /\ VerifiedSafe(e, Modules, globally_safe)
    <3>1. CASE e.parameterized
      <4>1. ASSUME NEW f \in Asked(e) \cap Functions, DecoratorWasSafeIn(f, modules)
            PROVE  DecoratorSafeIn(f, modules) /\ DecoratorSafeIn(f, Modules)
        <5>1. lib.nested[f] \subseteq Runs(e) \cap Functions
          BY <1>0, <1>5, <3>1 DEF Runs
        <5>2. \A g \in lib.nested[f] : safety[g].verdict = {}
          BY <1>1, <4>1, <5>1 DEF DecoratorWasSafeIn
        <5>3. SafeIn(f, modules) /\ SafeIn(f, Modules)
          BY <1>2, <1>3, <4>1 DEF DecoratorWasSafeIn
        <5> QED
          BY <5>2, <5>3 DEF DecoratorSafeIn
      <4> QED
        BY <1>0, <2>0, <2>1, <3>1, <4>1 DEF WasVerifiedSafe, VerifiedSafe
    <3>2. CASE ~e.parameterized
      <4>1. CASE e.callee \in Functions /\ WasSafeIn(e.callee, modules)
        BY <1>2, <1>3, <2>0, <3>2, <4>1 DEF VerifiedSafe
      <4>2. CASE /\ e.kind \in BoundCalls \cup {"UnsafeDecoratorCall"}
                 /\ e.callee \in WereSafeNamesIn(modules)
        <5>1. PICK f \in lib.same_name[e.callee] : e.callee \in Unqualified /\ WasSafeIn(f, modules)
          BY <4>2 DEF WereSafeNamesIn
        <5>2. f \in Functions /\ safety[f].verdict = {}
          BY <1>0, <1>2, <1>3, <2>0, <5>1 DEF SafeIn
        <5>3. e.callee \in NamesOf(SafeEntries)
          BY <5>1, <5>2 DEF NamesOf, SafeEntries
        <5>4. e.callee \in globally_safe
          BY <5>3 DEF IndicesFresh
        <5> QED
          BY <3>2, <4>2, <5>4 DEF VerifiedSafe
      <4> QED
        BY <2>1, <3>2, <4>1, <4>2 DEF WasVerifiedSafe
    <3> QED
      BY <3>1, <3>2
  <2> QED
    BY <1>5, <2>2 DEF ClearsFinally
<1> QED
  BY <1>4, <1>5

\* When a reduce ends, an error remains only if the final facts do not clear it, and
\* it is gone only if they do or if a candidate was confirmed, after the early pass,
\* at an entry that passed (reduce.rs:633): for a consumer without such a candidate
\* the final pass alone would report the same.
THEOREM EarlyPassAgrees == ReduceSpec => []EarlyAgrees
<1>1. IInv /\ CandidatesInv /\ IndicesFresh /\ ReduceInv => EarlyAgrees
  <2> SUFFICES ASSUME IInv, CandidatesInv, IndicesFresh, ReduceInv, pass = "end",
                      NEW e \in lib.cached_errors
               PROVE  IF e \in remaining THEN ~ClearsFinally(e)
                      ELSE ClearsFinally(e) \/ \E f \in Runs(e) \cap Functions : Overtaken(f)
    BY DEF EarlyAgrees
  <2>1. stage = "done" /\ modules_left = {}
    BY DEF ReduceInv, PassOK, RemainingOK
  <2>2. CASE e \in remaining
    BY <2>1, <2>2 DEF ReduceInv, RemainingOK
  <2>3. CASE e \notin remaining
    <3>1. ClearedEarly(e) \/ ClearsFinally(e)
      BY <2>3 DEF ReduceInv, RemainingOK
    <3> QED
      BY <2>1, <2>3, <3>1, EarlyImpliesFinal
  <2> QED
    BY <2>2, <2>3
<1> QED
  BY <1>1, ReduceInvariance, PTL

\* A callee whose discharge was granted blocks nobody in the end.
LEMMA DischargedCallee ==
    ASSUME IInv, CandidatesInv, stage = "done", NEW f, NEW r \in DischargedAt(f)
    PROVE  \/ NonBlocking(r)
           \/ r \notin Functions /\ \E c \in lib.candidates : c.site = f /\ c.callee = r
<1>1. PICK c \in lib.candidates : c.site = f /\ c.callee = r /\ ~UnsafeAfterConfirm(r)
  BY DEF DischargedAt
<1>2. CASE r \in Functions
  <2>1. ConfirmedAt(r) = {} /\ lib.safety[r].verdict = {}
    BY <1>1, <1>2 DEF UnsafeAfterConfirm
  <2>2. safety[r].verdict = {}
    BY <1>2, <2>1, QuietKept DEF Overtaken
  <2> QED
    BY <1>2, <2>2, NamesAssumption DEF NonBlocking
<1> QED
  BY <1>1, <1>2

\* A function that is safe in the end is blameless.
LEMMA SafeIsBlameless ==
    ASSUME IInv, CandidatesInv, PromotionSound, stage = "done", NEW f \in Functions,
           safety[f].verdict = {}
    PROVE  Blameless(f)
<1> DEFINE gone == ConfirmedAt(f) \cup DischargedAt(f)
           a == Applied(f, ConfirmedAt(f), DischargedAt(f))
<1>0. /\ lib.safety[f] \in Infos
      /\ \A c \in lib.candidates : c.mutates \in BOOLEAN
      /\ lib.safety[f].missing # {} => "MissingDep" \in lib.safety[f].verdict
  BY LibraryFacts, CachedErrorFacts, CandidateFacts DEF IInv, StageOK
<1>1. /\ "Unsafe" \notin a.verdict /\ "IfImported" \notin a.verdict
      /\ f \notin promoted => a.verdict = {}
      /\ safety[f].missing = a.missing
  BY EntryAtEnd
<1>2. ConfirmedAt(f) = {}
  BY <1>1 DEF Applied
<1>3. \A c \in lib.candidates : c.site = f => ~c.mutates
  BY <1>2 DEF ConfirmedAt
<1>4. lib.safety[f].verdict \subseteq {"MissingDep"}
  <2>1. lib.safety[f].verdict \ {"MissingDep"} \subseteq a.verdict
    BY DEF Applied
  <2> QED
    BY <1>0, <1>1, <2>1 DEF Infos, Bits
<1>5. ASSUME NEW r \in lib.safety[f].missing
      PROVE  \/ NonBlocking(r)
             \/ r \notin Functions /\ \E c \in lib.candidates : c.site = f /\ c.callee = r
  <2>1. CASE r \in DischargedAt(f)
    BY <2>1, DischargedCallee
  <2>2. CASE r \notin DischargedAt(f)
    <3>1. r \in a.missing
      BY <1>2, <2>2 DEF Applied
    <3>2. "MissingDep" \in a.verdict
      BY <1>0, <3>1 DEF Applied
    <3>3. f \in promoted /\ r \in safety[f].missing
      BY <1>1, <3>1, <3>2
    <3> QED
      BY <3>3 DEF PromotionSound
  <2> QED
    BY <2>1, <2>2
<1> QED
  BY <1>3, <1>4, <1>5 DEF Blameless

\* An error that the final facts clear has a good reason to be cleared.
LEMMA ClearedIsExcused ==
    ASSUME IInv, CandidatesInv, PromotionSound, stage = "done", NEW e \in lib.cached_errors,
           e.callee \in Functions, ClearsFinally(e)
    PROVE  Excused(e)
<1>0. /\ \A f \in Functions : safety[f].verdict = {} => Blameless(f)
      /\ lib.nested[e.callee] \subseteq Functions
      /\ e.callee \notin Unqualified /\ e.callee \notin globally_safe
  BY SafeIsBlameless, CachedErrorFacts, NamesAssumption DEF IInv, StageOK, TypeOK
<1>1. CASE HasRecord(e)
  BY <1>0, <1>1 DEF ClearsFinally, RecordClears, Excused
<1>2. CASE ~HasRecord(e)
  <2>1. PICK modules : VerifiedSafe(e, modules, globally_safe)
    BY <1>2 DEF ClearsFinally
  <2>2. CASE e.parameterized
    BY <1>0, <1>2, <2>1, <2>2 DEF VerifiedSafe, DecoratorSafeIn, SafeIn, Excused
  <2>3. CASE ~e.parameterized
    BY <1>0, <1>2, <2>1, <2>3 DEF VerifiedSafe, SafeIn, Excused
  <2> QED
    BY <2>2, <2>3
<1> QED
  BY <1>1, <1>2

\* An error that the early pass cleared for a function or class was cleared too early
\* if an entry it is about is overtaken: every other one was read as well.
LEMMA ClearedOnRecord ==
    ASSUME lib \in Libraries, NEW e \in lib.cached_errors, e.callee \in Functions, ClearedEarly(e),
           \E f \in Runs(e) \cap Functions : Overtaken(f)
    PROVE  ClearedTooEarly(e)
<1> DEFINE modules == lib.resolved[e.caller]
<1>0. e.callee \notin Unqualified /\ lib.nested \in [Functions -> SUBSET Functions]
  BY CachedErrorFacts, NamesAssumption
<1>1. CASE HasRecord(e)
  <2>1. Runs(e) = lib.recorded[e.callee] /\ Asked(e) = lib.recorded[e.callee]
    BY <1>1 DEF Runs, Asked
  <2>2. RecordCleared(e, modules)
    BY <1>1 DEF ClearedEarly
  <2> QED
    BY <1>1, <2>1, <2>2 DEF RecordCleared, ClearedTooEarly
<1>2. CASE ~HasRecord(e)
  <2>1. Asked(e) = {e.callee}
    BY <1>0, <1>2 DEF Asked
  <2>2. /\ e.callee \notin WereSafeNamesIn(modules)
        /\ WasVerifiedSafe(e, modules, WereSafeNamesIn(modules))
    BY <1>0, <1>2 DEF ClearedEarly, WereSafeNamesIn
  <2>3. lib.home[e.callee] \in modules /\ lib.safety[e.callee].verdict = {}
    BY <1>0, <2>2 DEF WasVerifiedSafe, DecoratorWasSafeIn, WasSafeIn
  <2>4. CASE e.parameterized
    <3>1. Runs(e) = {e.callee} \cup lib.nested[e.callee]
      BY <1>2, <2>1, <2>4 DEF Runs
    <3>2. \A g \in lib.nested[e.callee] : g \in Functions /\ lib.safety[g].verdict = {}
      BY <1>0, <2>2, <2>4 DEF WasVerifiedSafe, DecoratorWasSafeIn
    <3> QED
      BY <2>1, <2>3, <3>1, <3>2 DEF ClearedTooEarly
  <2>5. CASE ~e.parameterized
    <3>1. Runs(e) = {e.callee}
      BY <2>1, <2>5 DEF Runs
    <3> QED
      BY <2>1, <2>3, <3>1 DEF ClearedTooEarly
  <2> QED
    BY <2>4, <2>5
<1> QED
  BY <1>1, <1>2

\* No reduce clears an error that names a function or class without a good reason,
\* whichever pass cleared it and whatever was resolved in between; only where a
\* passing entry is overtaken the reason is the libraries' own record instead.
THEOREM ClearingIsJustified == ReduceSpec => []ClearedJustified
<1>1. IInv /\ CandidatesInv /\ PromotionSound /\ IndicesFresh /\ ReduceInv => ClearedJustified
  <2> SUFFICES ASSUME IInv, CandidatesInv, PromotionSound, IndicesFresh, ReduceInv
               PROVE  ClearedJustified
    OBVIOUS
  <2>1. ReduceTypeOK
    BY DEF ReduceTypeOK, ReduceInv, RemainingOK, IInv
  <2>2. ASSUME pass = "end", NEW e \in lib.cached_errors \ remaining, e.callee \in Functions
        PROVE  Excused(e) \/ ClearedTooEarly(e)
    <3>1. stage = "done" /\ (ClearedEarly(e) \/ ClearsFinally(e))
      BY <2>2 DEF ReduceInv, PassOK, RemainingOK
    <3>2. CASE ClearsFinally(e)
      BY <2>2, <3>1, <3>2, ClearedIsExcused
    <3>3. CASE ~ClearsFinally(e)
      <4>1. ClearedEarly(e) /\ \E f \in Runs(e) \cap Functions : Overtaken(f)
        BY <3>1, <3>3, EarlyImpliesFinal
      <4>2. lib \in Libraries
        BY DEF IInv, StageOK
      <4> QED
        BY <2>2, <4>1, <4>2, ClearedOnRecord
    <3> QED
      BY <3>2, <3>3
  <2> QED
    BY <2>1, <2>2 DEF ClearedJustified
<1> QED
  BY <1>1, ReduceInvariance, PTL

===============================================================================
