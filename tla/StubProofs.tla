------------------------------ MODULE StubProofs ------------------------------
(***************************************************************************)
(* Proofs about the two stub scripts, for any tree of statements and any   *)
(* directory of files: the merge of the overloads loses no effect and no   *)
(* signature and has nothing to do after its second run, and the scripts   *)
(* that run it over files damage no more files than they were interrupted. *)
(***************************************************************************)
EXTENDS StubMerge, NormalizeStubs, FiniteSetTheorems, SequenceTheorems, TLAPS

-----------------------------------------------------------------------------
(* The bodies that the rewriting makes.                                     *)

InLines(lines, x) == \E n \in 1..Len(lines) : x \in LineEffects(lines[n])

\* x is an effect among the first p candidates of a body.
InItems(b, p, x) == \E n \in 1..p : IsEffect(b, n) /\ x \in LineEffects(Items(b)[n])

Stmts == Effects \cup {Ellipsis, Doc}

LEMMA LineFacts ==
    ASSUME NEW stmt \in Stmts, NEW c \in Comments
    PROVE  /\ Line(<<stmt>>, c) \in Lines /\ Line(<<stmt>>, c).simple
           /\ LineEffects(Line(<<stmt>>, c)) = {stmt} \cap Effects
           /\ IsEllipsisLine(Line(<<stmt>>, c)) <=> stmt = Ellipsis
<1>1. PICK one : one = <<stmt>>
  OBVIOUS
<1>2. one \in Seq(Stmts) /\ Len(one) = 1 /\ one[1] = stmt
  BY <1>1
<1>3. SeqRange(one) = {stmt}
  BY <1>2 DEF SeqRange
<1>4. Line(one, c) \in Lines
  BY <1>2 DEF Line, Lines, Stmts
<1> QED
  BY <1>1, <1>3, <1>4 DEF Line, LineEffects, IsEllipsisLine

LEMMA OneLine ==
    ASSUME NEW line \in Lines, line.simple
    PROVE  /\ InlineBody(line) \in Bodies
           /\ BodyEffects(InlineBody(line)) = LineEffects(line)
<1>1. PICK one : one = <<line>>
  OBVIOUS
<1>2. one \in Seq(Lines) /\ Len(one) = 1 /\ one[1] = line
  BY <1>1
<1>3. PICK b : b = InlineBody(line)
  OBVIOUS
<1>4. b.inline /\ b.lines = one /\ b \in BodyShapes
  BY <1>1, <1>2, <1>3, NamesAssumption DEF InlineBody, BodyShapes
<1>5. b \in Bodies
  BY <1>2, <1>4 DEF Bodies
<1>6. BodyEffects(b) = LineEffects(line)
  <2>1. Len(b.lines) = 1 /\ b.lines[1] = line
    BY <1>2, <1>4
  <2>2. 1..1 = {1}
    OBVIOUS
  <2> QED
    BY <2>1, <2>2 DEF BodyEffects
<1> QED
  BY <1>3, <1>5, <1>6

LEMMA BlockFacts ==
    ASSUME NEW c \in Comments, NEW lines \in Seq(Lines)
    PROVE  /\ Block(c, lines) \in Bodies
           /\ \A x : x \in BodyEffects(Block(c, lines)) <=> InLines(lines, x)
<1>1. PICK b : b = Block(c, lines)
  OBVIOUS
<1>2. ~b.inline /\ b.lines = lines /\ b \in BodyShapes
  BY <1>1 DEF Block, BodyShapes
<1> QED
  BY <1>1, <1>2 DEF Bodies, BodyEffects, InLines

LEMMA BodyFacts ==
    ASSUME NEW b \in Bodies
    PROVE  /\ b.inline \in BOOLEAN /\ b.header \in Comments /\ b.lines \in Seq(Lines)
           /\ Len(b.lines) \in Nat /\ \A n \in 1..Len(b.lines) : b.lines[n] \in Lines
           /\ b.inline => Len(b.lines) = 1 /\ b.lines[1] \in Lines /\ b.lines[1].simple
           /\ TrailingComment(b) \in Comments
<1>1. b \in BodyShapes /\ (b.inline => Len(b.lines) = 1 /\ b.lines[1].simple)
  BY DEF Bodies
<1>2. b.inline \in BOOLEAN /\ b.header \in Comments /\ b.lines \in Seq(Lines)
  BY <1>1 DEF BodyShapes
<1>3. Len(b.lines) \in Nat /\ \A n \in 1..Len(b.lines) : b.lines[n] \in Lines
  BY <1>2
<1>4. b.inline => b.lines[1] \in Lines
  BY <1>1, <1>3
<1>5. TrailingComment(b) \in Comments
  BY <1>4, NamesAssumption DEF TrailingComment, Lines
<1> QED
  BY <1>1, <1>2, <1>3, <1>4, <1>5

\* A docstring is a line without effects.
LEMMA DocstringFacts ==
    ASSUME NEW b \in Bodies
    PROVE  /\ Docstring(b) \in Seq(Lines) /\ \A x : ~InLines(Docstring(b), x)
           /\ HasDocstring(b) => LineEffects(b.lines[1]) = {} /\ ~b.inline /\ Len(b.lines) > 0
<1>1. CASE ~HasDocstring(b)
  <2>1. Docstring(b) = <<>>
    BY <1>1 DEF Docstring
  <2>2. <<>> \in Seq(Lines) /\ Len(<<>>) = 0
    OBVIOUS
  <2> QED
    BY <1>1, <2>1, <2>2 DEF InLines
<1>2. CASE HasDocstring(b)
  <2>1. ~b.inline /\ b.lines # <<>> /\ b.lines[1].stmts = <<Doc>> /\ b.lines \in Seq(Lines)
    BY <1>2, BodyFacts DEF HasDocstring
  <2>2. Len(b.lines) > 0 /\ b.lines[1] \in Lines
    BY <2>1
  <2>3. PICK one : one = <<Doc>>
    OBVIOUS
  <2>4. SeqRange(one) = {Doc}
    BY <2>3 DEF SeqRange
  <2>5. LineEffects(b.lines[1]) = {}
    BY <2>1, <2>3, <2>4, NamesAssumption DEF LineEffects
  <2>6. PICK first : first = <<b.lines[1]>>
    OBVIOUS
  <2>7. first \in Seq(Lines) /\ Len(first) = 1 /\ first[1] = b.lines[1] /\ Docstring(b) = first
    BY <1>2, <2>2, <2>6 DEF Docstring
  <2>8. \A x : ~InLines(first, x)
    BY <2>5, <2>7 DEF InLines
  <2> QED
    BY <2>1, <2>2, <2>5, <2>7, <2>8
<1> QED
  BY <1>1, <1>2

\* Lines behind the docstring.
LEMMA BehindDocstring ==
    ASSUME NEW b \in Bodies, NEW lines \in Seq(Lines)
    PROVE  /\ Block(b.header, Docstring(b) \o lines) \in Bodies
           /\ \A x : x \in BodyEffects(Block(b.header, Docstring(b) \o lines)) <=> InLines(lines, x)
<1>1. PICK doc \in Seq(Lines) : doc = Docstring(b)
  BY DocstringFacts
<1>2. /\ doc \o lines \in Seq(Lines) /\ Len(doc \o lines) = Len(doc) + Len(lines)
      /\ \A n \in 1..(Len(doc) + Len(lines)) :
            (doc \o lines)[n] = IF n <= Len(doc) THEN doc[n] ELSE lines[n - Len(doc)]
      /\ Len(doc) \in Nat /\ Len(lines) \in Nat
  BY <1>1, ConcatProperties
<1>3. \A x : ~InLines(doc, x)
  BY <1>1, DocstringFacts
<1>4. ASSUME NEW x PROVE InLines(doc \o lines, x) <=> InLines(lines, x)
  <2>1. ASSUME NEW n \in 1..Len(doc \o lines), x \in LineEffects((doc \o lines)[n])
        PROVE  InLines(lines, x)
    <3>1. CASE n <= Len(doc)
      <4>1. n \in 1..Len(doc) /\ (doc \o lines)[n] = doc[n]
        BY <1>2, <2>1, <3>1
      <4>2. x \in LineEffects(doc[n])
        BY <2>1, <4>1
      <4>3. InLines(doc, x)
        BY <4>1, <4>2, Zenon DEF InLines
      <4> QED
        BY <1>3, <4>3
    <3>2. CASE ~(n <= Len(doc))
      <4>1. PICK r \in 1..Len(lines) : (doc \o lines)[n] = lines[r]
        <5>1. n - Len(doc) \in 1..Len(lines) /\ (doc \o lines)[n] = lines[n - Len(doc)]
          BY <1>2, <2>1, <3>2
        <5> QED
          BY <5>1
      <4>2. x \in LineEffects(lines[r])
        BY <2>1, <4>1
      <4> QED
        BY <4>2, Zenon DEF InLines
    <3> QED
      BY <3>1, <3>2
  <2>2. ASSUME NEW n \in 1..Len(lines), x \in LineEffects(lines[n])
        PROVE  InLines(doc \o lines, x)
    <3>1. n + Len(doc) \in 1..Len(doc \o lines) /\ (doc \o lines)[n + Len(doc)] = lines[n]
      BY <1>2
    <3> QED
      BY <2>2, <3>1 DEF InLines
  <2> QED
    BY <2>1, <2>2 DEF InLines
<1>5. b.header \in Comments
  BY BodyFacts
<1>6. /\ Block(b.header, doc \o lines) \in Bodies
      /\ \A x : x \in BodyEffects(Block(b.header, doc \o lines)) <=> InLines(doc \o lines, x)
  BY <1>2, <1>5, BlockFacts
<1> QED
  BY <1>1, <1>4, <1>6

LEMMA EllipsisLine ==
    /\ Line(<<Ellipsis>>, NoComment) \in Lines
    /\ <<Line(<<Ellipsis>>, NoComment)>> \in Seq(Lines)
    /\ \A x : ~InLines(<<Line(<<Ellipsis>>, NoComment)>>, x)
<1>1. PICK line : line = Line(<<Ellipsis>>, NoComment)
  OBVIOUS
<1>2. line \in Lines /\ LineEffects(line) = {}
  BY <1>1, LineFacts, NamesAssumption DEF Stmts
<1>3. PICK one : one = <<line>>
  OBVIOUS
<1>4. one \in Seq(Lines) /\ Len(one) = 1 /\ one[1] = line
  BY <1>2, <1>3
<1> QED
  BY <1>1, <1>2, <1>3, <1>4 DEF InLines

LEMMA InlineEllipsisFacts ==
    ASSUME NEW c \in Comments
    PROVE  InlineEllipsis(c) \in Bodies /\ BodyEffects(InlineEllipsis(c)) = {}
<1>1. PICK line : line = Line(<<Ellipsis>>, c)
  OBVIOUS
<1>2. line \in Lines /\ line.simple /\ LineEffects(line) = {}
  BY <1>1, LineFacts, NamesAssumption DEF Stmts
<1> QED
  BY <1>1, <1>2, OneLine DEF InlineEllipsis

\* _create_ellipsis_body leaves no effect.
LEMMA EllipsisBodyFacts ==
    ASSUME NEW b \in Bodies
    PROVE  EllipsisBody(b) \in Bodies /\ BodyEffects(EllipsisBody(b)) = {}
<1>1. CASE HasDocstring(b)
  BY <1>1, BehindDocstring, EllipsisLine DEF EllipsisBody
<1>2. CASE ~HasDocstring(b)
  BY <1>2, BodyFacts, InlineEllipsisFacts DEF EllipsisBody
<1> QED
  BY <1>1, <1>2

\* _create_merged_body has the effects it is given, and no other.
LEMMA MergedBodyFacts ==
    ASSUME NEW b \in Bodies, NEW es \in Seq(Lines)
    PROVE  /\ MergedBody(es, b) \in Bodies
           /\ \A x : x \in BodyEffects(MergedBody(es, b)) <=> InLines(es, x)
<1>1. CASE es = <<>>
  <2>1. \A x : ~InLines(es, x)
    <3>1. Len(es) = 0
      BY <1>1
    <3> QED
      BY <3>1 DEF InLines
  <2>2. MergedBody(es, b) = EllipsisBody(b)
    BY <1>1 DEF MergedBody, EllipsisBody
  <2> QED
    BY <2>1, <2>2, EllipsisBodyFacts
<1>2. CASE es # <<>> /\ Len(es) = 1 /\ ~HasDocstring(b) /\ es[1].simple
  <2>1. MergedBody(es, b) = InlineBody(es[1])
    BY <1>2 DEF MergedBody
  <2>2. es[1] \in Lines
    BY <1>2
  <2>3. \A x : InLines(es, x) <=> x \in LineEffects(es[1])
    BY <1>2 DEF InLines
  <2> QED
    BY <1>2, <2>1, <2>2, <2>3, OneLine
<1>3. CASE es # <<>> /\ ~(Len(es) = 1 /\ ~HasDocstring(b) /\ es[1].simple)
  <2>1. MergedBody(es, b) = Block(b.header, Docstring(b) \o es)
    BY <1>3 DEF MergedBody
  <2> QED
    BY <2>1, BehindDocstring
<1> QED
  BY <1>1, <1>2, <1>3

\* The candidates of _extract_effects have the effects of a tidy body.
LEMMA ItemFacts ==
    ASSUME NEW b \in Bodies
    PROVE  /\ Items(b) \in Seq(Lines) /\ Len(Items(b)) \in Nat
           /\ \A n \in 1..Len(Items(b)) : Items(b)[n] \in Lines
           /\ TidyBody(b) => \A x \in Effects : x \in BodyEffects(b) <=> InItems(b, Len(Items(b)), x)
<1>0. /\ b.lines \in Seq(Lines) /\ Len(b.lines) \in Nat /\ \A n \in 1..Len(b.lines) : b.lines[n] \in Lines
      /\ b.inline => Len(b.lines) = 1 /\ b.lines[1] \in Lines /\ b.lines[1].simple
  BY BodyFacts
<1>1. CASE b.inline
  <2>1. PICK stmts \in Seq(Stmts), c \in Comments : b.lines[1].stmts = stmts /\ b.lines[1].comment = c
    BY <1>0, <1>1 DEF Lines, Stmts
  <2>2. Len(stmts) \in Nat /\ \A n \in 1..Len(stmts) : stmts[n] \in Stmts
    OBVIOUS
  <2>3. Items(b) = [n \in 1..Len(stmts) |-> Line(<<stmts[n]>>, c)]
    BY <1>1, <2>1 DEF Items
  <2>4. \A n \in 1..Len(stmts) : /\ Items(b)[n] \in Lines
                                 /\ LineEffects(Items(b)[n]) = {stmts[n]} \cap Effects
                                 /\ IsEllipsisLine(Items(b)[n]) <=> stmts[n] = Ellipsis
    BY <2>2, <2>3, LineFacts
  <2>5. Items(b) \in Seq(Lines) /\ Len(Items(b)) = Len(stmts)
    BY <2>2, <2>3, <2>4
  <2>6. ~HasDocstring(b)
    BY <1>1 DEF HasDocstring
  <2>7. ASSUME NEW x \in Effects PROVE x \in BodyEffects(b) <=> InItems(b, Len(Items(b)), x)
    <3>1. x \in BodyEffects(b) <=> \E n \in 1..Len(stmts) : x = stmts[n]
      <4>1. 1..1 = {1}
        OBVIOUS
      <4>2. BodyEffects(b) = LineEffects(b.lines[1])
        BY <1>0, <1>1, <4>1 DEF BodyEffects
      <4> QED
        BY <2>1, <4>2 DEF LineEffects, SeqRange
    <3>2. \A n \in 1..Len(stmts) : x = stmts[n] <=> IsEffect(b, n) /\ x \in LineEffects(Items(b)[n])
      BY <2>4, <2>6, NamesAssumption DEF IsEffect
    <3> QED
      BY <2>5, <3>1, <3>2 DEF InItems
  <2> QED
    BY <2>2, <2>4, <2>5, <2>7
<1>2. CASE ~b.inline
  <2>1. Items(b) = b.lines
    BY <1>2 DEF Items
  <2>2. ASSUME TidyBody(b), NEW x \in Effects PROVE x \in BodyEffects(b) <=> InItems(b, Len(Items(b)), x)
    <3>1. \A n \in 1..Len(b.lines) : IsEllipsisLine(b.lines[n]) => x \notin LineEffects(b.lines[n])
      BY <1>2, <2>2 DEF TidyBody
    <3>2. HasDocstring(b) => x \notin LineEffects(b.lines[1])
      BY DocstringFacts
    <3>3. \A n \in 1..Len(b.lines) :
              x \in LineEffects(b.lines[n]) <=> IsEffect(b, n) /\ x \in LineEffects(Items(b)[n])
      BY <2>1, <3>1, <3>2 DEF IsEffect
    <3>4. x \in BodyEffects(b) <=> \E n \in 1..Len(b.lines) : x \in LineEffects(b.lines[n])
      BY DEF BodyEffects
    <3> QED
      BY <2>1, <3>3, <3>4 DEF InItems
  <2> QED
    BY <1>0, <2>1, <2>2
<1> QED
  BY <1>1, <1>2

-----------------------------------------------------------------------------
(* What is kept of a list of statements.                                    *)

Defines(stmt, f) == stmt.kind # "other" /\ stmt.name = f

\* x is an effect of f among the first p statements.
Carries(ss, f, p, x) == \E n \in 1..p : Defines(ss[n], f) /\ x \in BodyEffects(ss[n].body)

Tidy(ss, f) == \A n \in DefsOf(ss, f) : TidyBody(ss[n].body)

SameGroup(a, b) == IsOverload(a) /\ IsOverload(b) /\ a.name = b.name

\* new has what the first p statements of old have, and where the stub analyzer
\* reads it.
Keeping(new, old, p) ==
    /\ Len(new) = p
    /\ \A n \in 1..p : new[n].kind = old[n].kind /\ new[n].name = old[n].name
    /\ \A n \in 2..p : SameGroup(new[n - 1], new[n]) => BodyEffects(new[n].body) = {}
    /\ \A f \in Defs : Tidy(old, f) => \A x \in Effects : Carries(new, f, p, x) <=> Carries(old, f, p, x)

StatementsHere == tree[scope]

\* A group of overloads starts at i and does not continue the one before.
AtGroupStart == i > 1 /\ i <= Len(StatementsHere) => ~SameGroup(StatementsHere[i - 1], StatementsHere[i])

\* The group reaches from i to j.
InOneGroup ==
    /\ i < j /\ j <= Len(StatementsHere) + 1
    /\ \A n \in i..(j - 1) : IsOverload(StatementsHere[n]) /\ StatementsHere[n].name = Statement.name

\* What was collected are the effects of the overloads before k, and of k before pos.
Collected ==
    \A x \in Effects : InLines(all_effects, x) <=>
        \/ \E n \in i..(k - 1) :
              InItems(StatementsHere[n].body, Len(Items(StatementsHere[n].body)), x)
        \/ k < j /\ InItems(StatementsHere[k].body, pos - 1, x)

InScope ==
    /\ scope \notin todo /\ StatementsHere = stub[scope]
    /\ i <= Len(StatementsHere) + 1
    /\ Keeping(out, StatementsHere, i - 1)
    /\ AtGroupStart
    /\ pc \in {"group", "collect"} => InOneGroup
    /\ pc = "collect" => /\ ~InGroup(j) /\ i <= k /\ k <= j
                         /\ k < j => pos <= Len(Items(StatementsHere[k].body)) + 1
                         /\ Collected

StubInv ==
    /\ TypeOK
    /\ \A s \in todo : tree[s] = stub[s]
    /\ pc # "enter" => InScope
    /\ \A s \in Scopes \ todo : pc = "enter" \/ s # scope => Keeping(tree[s], stub[s], Len(stub[s]))

LEMMA StubInit == Init => StubInv
<1> HAVE Init
<1>1. stub \in [Scopes -> Seq(Statements)]
  BY StubsAssumption DEF Init
<1>2. scope \in Scopes
  BY NamesAssumption DEF Init
<1>3. TypeOK
  BY <1>1, <1>2, NamesAssumption DEF Init, TypeOK
<1> QED
  BY <1>3 DEF Init, StubInv

LEMMA HereFacts ==
    ASSUME TypeOK
    PROVE  /\ StatementsHere \in Seq(Statements) /\ Len(StatementsHere) \in Nat
           /\ \A n \in 1..Len(StatementsHere) :
                 /\ StatementsHere[n] \in Statements /\ StatementsHere[n].body \in Bodies
                 /\ StatementsHere[n].kind \in {"overload", "def", "other"} /\ StatementsHere[n].name \in Defs
           /\ out \in Seq(Statements) /\ Len(out) \in Nat
           /\ i \in Nat /\ i > 0 /\ j \in Nat /\ j > 0 /\ k \in Nat /\ k > 0 /\ pos \in Nat /\ pos > 0
<1>1. StatementsHere \in Seq(Statements)
  BY DEF TypeOK, StatementsHere
<1>2. Len(StatementsHere) \in Nat /\ \A n \in 1..Len(StatementsHere) : StatementsHere[n] \in Statements
  BY <1>1
<1>3. out \in Seq(Statements) /\ Len(out) \in Nat
  BY DEF TypeOK
<1>4. /\ i \in Nat /\ i > 0 /\ j \in Nat /\ j > 0 /\ k \in Nat /\ k > 0 /\ pos \in Nat /\ pos > 0
  BY DEF TypeOK
<1> QED
  BY <1>1, <1>2, <1>3, <1>4 DEF Statements

\* One more statement that is kept as it is.
LEMMA CopyKeeps ==
    ASSUME NEW old \in Seq(Statements), NEW new \in Seq(Statements), NEW p \in Nat,
           Keeping(new, old, p), p < Len(old),
           p > 0 => ~SameGroup(old[p], old[p + 1])
    PROVE  Append(new, old[p + 1]) \in Seq(Statements) /\ Keeping(Append(new, old[p + 1]), old, p + 1)
<1>0. p + 1 \in 1..Len(old) /\ old[p + 1] \in Statements
  OBVIOUS
<1>1. PICK add \in Seq(Statements) : add = Append(new, old[p + 1])
  BY <1>0, AppendProperties
<1>2. /\ Len(new) = p /\ Len(add) = p + 1 /\ add[p + 1] = old[p + 1]
      /\ \A n \in 1..p : add[n] = new[n]
  BY <1>1, AppendProperties DEF Keeping
<1>3. \A n \in 1..p : new[n].kind = old[n].kind /\ new[n].name = old[n].name
  BY DEF Keeping
<1>4. ASSUME NEW n \in 1..(p + 1) PROVE add[n].kind = old[n].kind /\ add[n].name = old[n].name
  <2>1. n \in 1..p \/ n = p + 1
    OBVIOUS
  <2> QED
    BY <1>2, <1>3, <2>1
<1>5. ASSUME NEW n \in 2..(p + 1), SameGroup(add[n - 1], add[n]) PROVE BodyEffects(add[n].body) = {}
  <2>1. CASE n = p + 1
    <3>1. p \in 1..p /\ n - 1 = p /\ p > 0
      BY <2>1
    <3>2. add[p] = new[p] /\ add[n] = old[p + 1]
      BY <1>2, <2>1, <3>1
    <3>3. SameGroup(old[p], old[p + 1])
      BY <1>3, <1>5, <3>1, <3>2 DEF SameGroup, IsOverload
    <3> QED
      BY <3>1, <3>3
  <2>2. CASE n # p + 1
    <3>1. n \in 2..p /\ n - 1 \in 1..p /\ n \in 1..p
      BY <2>2
    <3> QED
      BY <1>2, <1>5, <3>1 DEF Keeping
  <2> QED
    BY <2>1, <2>2
<1>6. ASSUME NEW f \in Defs, Tidy(old, f), NEW x \in Effects
      PROVE  Carries(add, f, p + 1, x) <=> Carries(old, f, p + 1, x)
  <2>1. Carries(new, f, p, x) <=> Carries(old, f, p, x)
    BY <1>6 DEF Keeping
  <2>2. \A n \in 1..(p + 1) : n \in 1..p \/ n = p + 1
    OBVIOUS
  <2>3. 1..p \subseteq 1..(p + 1) /\ p + 1 \in 1..(p + 1)
    OBVIOUS
  <2>4. Carries(add, f, p + 1, x) <=>
            Carries(new, f, p, x) \/ (Defines(old[p + 1], f) /\ x \in BodyEffects(old[p + 1].body))
    BY <1>2, <2>2, <2>3 DEF Carries
  <2>5. Carries(old, f, p + 1, x) <=>
            Carries(old, f, p, x) \/ (Defines(old[p + 1], f) /\ x \in BodyEffects(old[p + 1].body))
    BY <2>2, <2>3 DEF Carries
  <2> QED
    BY <2>1, <2>4, <2>5
<1>7. Keeping(add, old, p + 1)
  BY <1>2, <1>4, <1>5, <1>6 DEF Keeping
<1> QED
  BY <1>1, <1>7

GroupOf(old, a, b, es) ==
    [n \in 1..(b - a) |->
        LET stmt == old[a + n - 1] IN
        WithBody(stmt, IF n = 1 THEN MergedBody(es, stmt.body) ELSE EllipsisBody(stmt.body))]

\* A group of overloads, its effects in the first one.
LEMMA GroupKeeps ==
    ASSUME NEW old \in Seq(Statements), NEW new \in Seq(Statements), NEW a \in Nat, NEW b \in Nat,
           a > 0, a < b, b <= Len(old) + 1, Keeping(new, old, a - 1),
           a > 1 => ~SameGroup(old[a - 1], old[a]),
           NEW g, \A n \in a..(b - 1) : IsOverload(old[n]) /\ old[n].name = g,
           NEW es \in Seq(Lines),
           Tidy(old, g) => \A x \in Effects :
               InLines(es, x) <=> \E n \in a..(b - 1) : x \in BodyEffects(old[n].body)
    PROVE  /\ new \o GroupOf(old, a, b, es) \in Seq(Statements)
           /\ Keeping(new \o GroupOf(old, a, b, es), old, b - 1)
<1>1. PICK group : group = GroupOf(old, a, b, es)
  OBVIOUS
<1>2. \A n \in a..(b - 1) : /\ n \in 1..Len(old) /\ old[n] \in Statements /\ old[n].body \in Bodies
                            /\ old[n].kind = "overload" /\ old[n].name = g /\ g \in Defs
  <2>1. ASSUME NEW n \in a..(b - 1) PROVE n \in 1..Len(old) /\ old[n] \in Statements
    OBVIOUS
  <2> QED
    BY <2>1 DEF Statements, IsOverload
<1>3. ASSUME NEW n \in 1..(b - a)
      PROVE  /\ a + n - 1 \in a..(b - 1)
             /\ group[n] = WithBody(old[a + n - 1], IF n = 1 THEN MergedBody(es, old[a + n - 1].body)
                                                    ELSE EllipsisBody(old[a + n - 1].body))
             /\ group[n] \in Statements
  <2>1. a + n - 1 \in a..(b - 1)
    OBVIOUS
  <2>2. group[n] = WithBody(old[a + n - 1], IF n = 1 THEN MergedBody(es, old[a + n - 1].body)
                                            ELSE EllipsisBody(old[a + n - 1].body))
    BY <1>1, <1>3 DEF GroupOf
  <2>3. MergedBody(es, old[a + n - 1].body) \in Bodies /\ EllipsisBody(old[a + n - 1].body) \in Bodies
    BY <1>2, <2>1, MergedBodyFacts, EllipsisBodyFacts
  <2>4. group[n] \in Statements
    BY <1>2, <2>1, <2>2, <2>3 DEF WithBody, Statements
  <2> QED
    BY <2>1, <2>2, <2>4
<1>4. group \in Seq(Statements) /\ Len(group) = b - a
  <2>1. PICK d \in Nat : d = b - a
    OBVIOUS
  <2>2. group \in [1..d -> Statements]
    <3>1. group = [n \in 1..d |-> group[n]]
      BY <1>1, <2>1, Zenon DEF GroupOf
    <3>2. \A n \in 1..d : group[n] \in Statements
      BY <1>3, <2>1
    <3> QED
      BY <3>1, <3>2
  <2>3. group \in Seq(Statements) /\ Len(group) = d
    BY <2>2
  <2> QED
    BY <2>1, <2>3
<1>5. PICK add : add = new \o group
  OBVIOUS
<1>6. /\ add \in Seq(Statements) /\ Len(add) = b - 1 /\ Len(new) = a - 1
      /\ \A n \in 1..(a - 1) : add[n] = new[n]
      /\ \A n \in a..(b - 1) : add[n] = group[n - a + 1]
  <2>1. Len(new) = a - 1
    BY DEF Keeping
  <2>2. /\ add \in Seq(Statements) /\ Len(add) = Len(new) + Len(group)
        /\ \A n \in 1..(Len(new) + Len(group)) : add[n] = IF n <= Len(new) THEN new[n] ELSE group[n - Len(new)]
    BY <1>4, <1>5, ConcatProperties
  <2>3. ASSUME NEW n \in 1..(a - 1) PROVE add[n] = new[n]
    <3>1. n \in 1..(Len(new) + Len(group)) /\ n <= Len(new)
      BY <1>4, <2>1
    <3> QED
      BY <2>2, <3>1
  <2>4. ASSUME NEW n \in a..(b - 1) PROVE add[n] = group[n - a + 1]
    <3>1. n \in 1..(Len(new) + Len(group)) /\ ~(n <= Len(new)) /\ n - Len(new) = n - a + 1
      BY <1>4, <2>1
    <3> QED
      BY <2>2, <3>1
  <2> QED
    BY <1>4, <2>1, <2>2, <2>3, <2>4
<1>7. ASSUME NEW n \in a..(b - 1)
      PROVE  /\ add[n].kind = old[n].kind /\ add[n].name = old[n].name
             /\ n = a => \A x : x \in BodyEffects(add[n].body) <=> InLines(es, x)
             /\ n # a => BodyEffects(add[n].body) = {}
  <2>1. n - a + 1 \in 1..(b - a) /\ a + (n - a + 1) - 1 = n /\ (n - a + 1 = 1 <=> n = a)
    OBVIOUS
  <2>2. add[n] = WithBody(old[n], IF n = a THEN MergedBody(es, old[n].body) ELSE EllipsisBody(old[n].body))
    BY <1>3, <1>6, <1>7, <2>1
  <2>3. /\ add[n].kind = old[n].kind /\ add[n].name = old[n].name
        /\ add[n].body = IF n = a THEN MergedBody(es, old[n].body) ELSE EllipsisBody(old[n].body)
    BY <2>2 DEF WithBody
  <2> QED
    BY <1>2, <2>3, MergedBodyFacts, EllipsisBodyFacts
<1>8. \A n \in 1..(b - 1) : n \in 1..(a - 1) \/ n \in a..(b - 1)
  OBVIOUS
<1>9. \A n \in 1..(a - 1) : new[n].kind = old[n].kind /\ new[n].name = old[n].name
  BY DEF Keeping
<1>10. \A n \in 1..(b - 1) : add[n].kind = old[n].kind /\ add[n].name = old[n].name
  BY <1>6, <1>7, <1>8, <1>9
<1>11. ASSUME NEW n \in 2..(b - 1), SameGroup(add[n - 1], add[n]) PROVE BodyEffects(add[n].body) = {}
  <2>1. n - 1 \in 1..(b - 1) /\ n \in 1..(b - 1)
    OBVIOUS
  <2>2. CASE n < a
    <3>1. n \in 2..(a - 1) /\ n - 1 \in 1..(a - 1) /\ n \in 1..(a - 1)
      BY <2>2
    <3> QED
      BY <1>6, <1>11, <3>1 DEF Keeping
  <2>3. CASE n = a
    <3>1. SameGroup(old[a - 1], old[a])
      BY <1>10, <1>11, <2>1, <2>3 DEF SameGroup, IsOverload
    <3> QED
      BY <2>3, <3>1
  <2>4. CASE n > a
    <3>1. n \in a..(b - 1) /\ n # a
      BY <2>4
    <3> QED
      BY <1>7, <3>1
  <2> QED
    BY <2>2, <2>3, <2>4
<1>12. ASSUME NEW f \in Defs, Tidy(old, f), NEW x \in Effects
       PROVE  Carries(add, f, b - 1, x) <=> Carries(old, f, b - 1, x)
  <2>1. Carries(new, f, a - 1, x) <=> Carries(old, f, a - 1, x)
    BY <1>12 DEF Keeping
  <2>2. 1..(a - 1) \subseteq 1..(b - 1) /\ a..(b - 1) \subseteq 1..(b - 1) /\ a \in a..(b - 1)
    OBVIOUS
  <2>3. Carries(add, f, b - 1, x) <=>
            \/ Carries(new, f, a - 1, x)
            \/ \E n \in a..(b - 1) : Defines(add[n], f) /\ x \in BodyEffects(add[n].body)
    BY <1>6, <1>8, <2>2 DEF Carries
  <2>4. Carries(old, f, b - 1, x) <=>
            \/ Carries(old, f, a - 1, x)
            \/ \E n \in a..(b - 1) : Defines(old[n], f) /\ x \in BodyEffects(old[n].body)
    BY <1>8, <2>2 DEF Carries
  <2>5. \A n \in a..(b - 1) : (Defines(add[n], f) <=> f = g) /\ (Defines(old[n], f) <=> f = g)
    BY <1>2, <1>7 DEF Defines
  <2>6. CASE f = g
    <3>1. InLines(es, x) <=> \E n \in a..(b - 1) : x \in BodyEffects(old[n].body)
      BY <1>12, <2>6
    <3>2. InLines(es, x) <=> \E n \in a..(b - 1) : x \in BodyEffects(add[n].body)
      BY <1>7, <2>2
    <3> QED
      BY <2>1, <2>3, <2>4, <2>5, <2>6, <3>1, <3>2
  <2>7. CASE f # g
    BY <2>1, <2>3, <2>4, <2>5, <2>7
  <2> QED
    BY <2>6, <2>7
<1>13. Keeping(add, old, b - 1)
  BY <1>6, <1>10, <1>11, <1>12 DEF Keeping
<1> QED
  BY <1>1, <1>5, <1>6, <1>13

-----------------------------------------------------------------------------
(* The steps.                                                               *)

\* Within a scope only the scope is in question.
LEMMA WithinScope ==
    ASSUME StubInv, TypeOK', UNCHANGED <<stub, tree, todo, scope>>, pc # "enter", pc' # "enter", InScope'
    PROVE  StubInv'
BY DEF StubInv

LEMMA EnterStep ==
    ASSUME StubInv, NEW s \in todo, EnterScope(s)
    PROVE  StubInv'
<1>1. /\ pc = "enter" /\ scope' = s /\ todo' = todo \ {s} /\ pc' = "scan" /\ i' = 1 /\ out' = <<>>
      /\ UNCHANGED <<runs, stub, tree, j, k, pos, all_effects>>
  BY DEF EnterScope
<1>2. TypeOK /\ s \in Scopes
  BY DEF StubInv, TypeOK
<1>3. TypeOK'
  <2>1. <<>> \in Seq(Statements)
    OBVIOUS
  <2> QED
    BY <1>1, <1>2, <2>1 DEF TypeOK
<1>4. StatementsHere' = tree[s] /\ tree[s] = stub[s] /\ tree[s] \in Seq(Statements)
  BY <1>1, <1>2 DEF StubInv, StatementsHere, TypeOK
<1>5. Keeping(<<>>, tree[s], 0)
  <2>1. Len(<<>>) = 0 /\ (\A n \in 1..0 : FALSE) /\ (\A n \in 2..0 : FALSE)
    OBVIOUS
  <2> QED
    BY <2>1 DEF Keeping, Carries
<1>6. InScope'
  <2>1. i' <= Len(tree[s]) + 1 /\ i' - 1 = 0 /\ ~(i' > 1)
    BY <1>1, <1>4
  <2> QED
    BY <1>1, <1>4, <1>5, <2>1 DEF InScope, AtGroupStart
<1> QED
  BY <1>1, <1>3, <1>6 DEF StubInv

LEMMA CopyStep ==
    ASSUME StubInv, CopyStatement
    PROVE  StubInv'
<1>1. /\ pc = "scan" /\ pc' = "scan" /\ i <= Len(StatementsHere) /\ ~IsOverload(StatementsHere[i])
      /\ out' = Append(out, StatementsHere[i]) /\ i' = i + 1
      /\ UNCHANGED <<runs, stub, tree, todo, scope, j, k, pos, all_effects>>
  BY DEF CopyStatement, StatementsHere, Statement
<1>2. TypeOK /\ InScope
  BY <1>1 DEF StubInv
<1>3. i \in Nat /\ i > 0 /\ StatementsHere \in Seq(Statements) /\ Len(StatementsHere) \in Nat /\ out \in Seq(Statements)
  BY <1>2, HereFacts
<1>4. out' \in Seq(Statements) /\ Keeping(out', StatementsHere, i)
  <2>1. i - 1 \in Nat /\ i - 1 < Len(StatementsHere) /\ (i - 1) + 1 = i
    BY <1>1, <1>3
  <2>2. ~SameGroup(StatementsHere[i - 1], StatementsHere[i])
    BY <1>1 DEF SameGroup
  <2>3. Keeping(out, StatementsHere, i - 1)
    BY <1>2 DEF InScope
  <2>4. /\ Append(out, StatementsHere[(i - 1) + 1]) \in Seq(Statements)
        /\ Keeping(Append(out, StatementsHere[(i - 1) + 1]), StatementsHere, (i - 1) + 1)
    BY <1>3, <2>1, <2>2, <2>3, CopyKeeps
  <2> QED
    BY <1>1, <2>1, <2>4
<1>5. TypeOK'
  BY <1>1, <1>2, <1>3, <1>4 DEF TypeOK
<1>6. StatementsHere' = StatementsHere
  BY <1>1 DEF StatementsHere
<1>7. InScope'
  <2>1. i' <= Len(StatementsHere) + 1 /\ i' - 1 = i
    BY <1>1, <1>3
  <2>2. AtGroupStart'
    BY <1>1, <1>6, <2>1 DEF AtGroupStart, SameGroup
  <2>3. scope \notin todo /\ StatementsHere = stub[scope]
    BY <1>2 DEF InScope
  <2> QED
    BY <1>1, <1>4, <1>6, <2>1, <2>2, <2>3 DEF InScope
<1> QED
  BY <1>1, <1>5, <1>7, WithinScope

\* The scope's part of the invariant where neither the group nor what was collected matters.
LEMMA GroupStep ==
    ASSUME StubInv, StartGroup \/ ExtendGroup
    PROVE  StubInv'
<1>1. /\ pc \in {"scan", "group"} /\ pc' = "group" /\ i <= Len(StatementsHere) + 1
      /\ UNCHANGED <<runs, stub, tree, todo, scope, i, k, pos, all_effects, out>>
      /\ TypeOK /\ InScope
  <2>1. /\ pc \in {"scan", "group"} /\ pc' = "group"
        /\ UNCHANGED <<runs, stub, tree, todo, scope, i, k, pos, all_effects, out>>
    BY DEF StartGroup, ExtendGroup
  <2> QED
    BY <2>1 DEF StubInv, InScope
<1>2. i \in Nat /\ i > 0 /\ j \in Nat /\ Len(StatementsHere) \in Nat
  BY <1>1, HereFacts
<1>3. StatementsHere' = StatementsHere /\ Statement' = Statement /\ Statement = StatementsHere[i]
  BY <1>1 DEF StatementsHere, Statement
<1>4. InOneGroup' /\ j' \in Nat /\ j' > 0
  <2>1. CASE StartGroup
    <3>1. i <= Len(StatementsHere) /\ IsOverload(StatementsHere[i]) /\ j' = i + 1
      BY <2>1 DEF StartGroup, StatementsHere, Statement
    <3>2. \A n \in i..(j' - 1) : n = i
      BY <1>2, <3>1
    <3>3. i < j' /\ j' <= Len(StatementsHere) + 1 /\ j' \in Nat /\ j' > 0
      BY <1>2, <3>1
    <3> QED
      BY <1>1, <1>3, <3>1, <3>2, <3>3 DEF InOneGroup
  <2>2. CASE ExtendGroup
    <3>1. /\ j <= Len(StatementsHere) /\ IsOverload(StatementsHere[j])
          /\ StatementsHere[j].name = Statement.name /\ j' = j + 1
      BY <2>2 DEF ExtendGroup, InGroup, StatementsHere
    <3>2. InOneGroup
      BY <1>1, <2>2 DEF InScope, ExtendGroup
    <3>3. /\ i < j /\ j <= Len(StatementsHere) + 1
          /\ \A n \in i..(j - 1) : IsOverload(StatementsHere[n]) /\ StatementsHere[n].name = Statement.name
      BY <3>2 DEF InOneGroup
    <3>4. \A n \in i..(j' - 1) : n \in i..(j - 1) \/ n = j
      BY <1>2, <3>1
    <3>5. i < j' /\ j' <= Len(StatementsHere) + 1 /\ j' \in Nat /\ j' > 0
      BY <1>2, <3>1, <3>3
    <3> QED
      BY <1>1, <1>3, <3>1, <3>3, <3>4, <3>5 DEF InOneGroup
  <2> QED
    BY <2>1, <2>2
<1>5. TypeOK'
  BY <1>1, <1>4 DEF TypeOK
<1>6. InScope'
  <2>1. Keeping(out', StatementsHere', i' - 1) /\ AtGroupStart'
    BY <1>1, <1>3 DEF InScope, AtGroupStart
  <2> QED
    BY <1>1, <1>3, <1>4, <2>1 DEF InScope
<1> QED
  BY <1>1, <1>5, <1>6, WithinScope

\* A place where a group ends is one where the next may start.
LEMMA NextGroupStarts ==
    ASSUME TypeOK, InOneGroup, ~InGroup(j)
    PROVE  j > 1 /\ j <= Len(StatementsHere) => ~SameGroup(StatementsHere[j - 1], StatementsHere[j])
<1>1. j - 1 \in i..(j - 1)
  <2>1. i \in Nat /\ j \in Nat /\ i < j
    BY HereFacts DEF InOneGroup
  <2> QED
    BY <2>1
<1>2. StatementsHere[j - 1].name = Statement.name
  BY <1>1 DEF InOneGroup
<1> QED
  BY <1>2 DEF InGroup, SameGroup, StatementsHere

LEMMA CloseStep ==
    ASSUME StubInv, CloseGroup
    PROVE  StubInv'
<1>1. /\ pc = "group" /\ ~InGroup(j) /\ UNCHANGED <<runs, stub, tree, todo, scope, j>>
      /\ TypeOK /\ InScope
  <2>1. pc = "group" /\ ~InGroup(j) /\ UNCHANGED <<runs, stub, tree, todo, scope, j>>
    BY DEF CloseGroup
  <2> QED
    BY <2>1 DEF StubInv
<1>2. /\ i \in Nat /\ i > 0 /\ j \in Nat /\ j > 0 /\ Len(StatementsHere) \in Nat
      /\ StatementsHere \in Seq(Statements) /\ out \in Seq(Statements)
  BY <1>1, HereFacts
<1>3. StatementsHere' = StatementsHere /\ scope \notin todo /\ StatementsHere = stub[scope] /\ InOneGroup
  BY <1>1 DEF StatementsHere, InScope
<1>4. i < j /\ j <= Len(StatementsHere) + 1
  BY <1>3 DEF InOneGroup
<1>5. Keeping(out, StatementsHere, i - 1) /\ AtGroupStart /\ i <= Len(StatementsHere) + 1
  BY <1>1 DEF InScope
<1>6. CASE j = i + 1 /\ out' = Append(out, Statement) /\ i' = j /\ pc' = "scan" /\ UNCHANGED <<k, pos, all_effects>>
  <2>1. i - 1 \in Nat /\ i - 1 < Len(StatementsHere) /\ (i - 1) + 1 = i /\ Statement = StatementsHere[i]
    BY <1>2, <1>4, <1>6 DEF Statement, StatementsHere
  <2>2. i - 1 > 0 => ~SameGroup(StatementsHere[i - 1], StatementsHere[(i - 1) + 1])
    BY <1>2, <1>5, <2>1 DEF AtGroupStart
  <2>3. /\ Append(out, StatementsHere[(i - 1) + 1]) \in Seq(Statements)
        /\ Keeping(Append(out, StatementsHere[(i - 1) + 1]), StatementsHere, (i - 1) + 1)
    BY <1>2, <1>5, <2>1, <2>2, CopyKeeps
  <2>4. out' \in Seq(Statements) /\ Keeping(out', StatementsHere, i)
    BY <1>6, <2>1, <2>3
  <2>5. i' - 1 = i /\ i' <= Len(StatementsHere) + 1
    BY <1>2, <1>4, <1>6
  <2>6. AtGroupStart'
    BY <1>1, <1>3, <1>6, NextGroupStarts DEF AtGroupStart
  <2>7. InScope'
    BY <1>1, <1>3, <1>6, <2>4, <2>5, <2>6 DEF InScope
  <2>8. TypeOK'
    BY <1>1, <1>2, <1>6, <2>4 DEF TypeOK
  <2> QED
    BY <1>1, <1>6, <2>7, <2>8, WithinScope
<1>7. CASE j > i + 1 /\ pc' = "collect" /\ k' = i /\ pos' = 1 /\ all_effects' = <<>> /\ UNCHANGED <<i, out>>
  <2>1. Statement' = Statement /\ InOneGroup' /\ AtGroupStart' /\ InGroup(j)' = InGroup(j)
    BY <1>1, <1>3, <1>5, <1>7 DEF Statement, InOneGroup, AtGroupStart, InGroup, StatementsHere
  <2>2. Len(<<>>) = 0 /\ (\A n \in 1..0 : FALSE) /\ (\A n \in i..(i - 1) : FALSE) /\ pos' - 1 = 0 /\ <<>> \in Seq(Lines)
    BY <1>2, <1>7
  <2>3. Collected'
    BY <1>1, <1>7, <2>2 DEF Collected, InLines, InItems
  <2>4. pos' <= Len(Items(StatementsHere[i].body)) + 1
    <3>1. i \in 1..Len(StatementsHere)
      BY <1>2, <1>4
    <3>2. Len(Items(StatementsHere[i].body)) \in Nat
      BY <1>1, <3>1, HereFacts, ItemFacts
    <3> QED
      BY <1>7, <3>2
  <2>5. i <= k' /\ k' <= j
    BY <1>2, <1>4, <1>7
  <2>6. InScope'
    BY <1>1, <1>3, <1>5, <1>7, <2>1, <2>3, <2>4, <2>5 DEF InScope
  <2>7. TypeOK'
    BY <1>1, <1>2, <1>7, <2>2 DEF TypeOK
  <2> QED
    BY <1>1, <1>7, <2>6, <2>7, WithinScope
<1> QED
  BY <1>6, <1>7 DEF CloseGroup

\* What holds while a group's effects are collected.
LEMMA CollectFacts ==
    ASSUME StubInv, pc = "collect"
    PROVE  /\ TypeOK /\ InScope /\ InOneGroup /\ ~InGroup(j) /\ Collected
           /\ i \in Nat /\ i > 0 /\ j \in Nat /\ k \in Nat /\ pos \in Nat /\ pos > 0
           /\ i < j /\ j <= Len(StatementsHere) + 1 /\ i <= k /\ k <= j
           /\ Len(StatementsHere) \in Nat /\ StatementsHere \in Seq(Statements) /\ out \in Seq(Statements)
           /\ all_effects \in Seq(Lines)
           /\ \A n \in i..(j - 1) : n \in 1..Len(StatementsHere) /\ StatementsHere[n].body \in Bodies
           /\ k < j => /\ k \in i..(j - 1)
                       /\ Len(Items(StatementsHere[k].body)) \in Nat
                       /\ pos <= Len(Items(StatementsHere[k].body)) + 1
                       /\ \A n \in 1..Len(Items(StatementsHere[k].body)) : Items(StatementsHere[k].body)[n] \in Lines
<1>1. TypeOK /\ InScope
  BY DEF StubInv
<1>2. InOneGroup /\ ~InGroup(j) /\ Collected /\ i <= k /\ k <= j
  BY <1>1 DEF InScope
<1>3. /\ i \in Nat /\ i > 0 /\ j \in Nat /\ k \in Nat /\ pos \in Nat /\ pos > 0
      /\ Len(StatementsHere) \in Nat /\ StatementsHere \in Seq(Statements) /\ out \in Seq(Statements)
      /\ \A n \in 1..Len(StatementsHere) : StatementsHere[n].body \in Bodies
  BY <1>1, HereFacts
<1>4. i < j /\ j <= Len(StatementsHere) + 1
  BY <1>2 DEF InOneGroup
<1>5. \A n \in i..(j - 1) : n \in 1..Len(StatementsHere)
  BY <1>3, <1>4
<1>6. k < j => k \in i..(j - 1)
  BY <1>2, <1>3
<1>7. k < j => /\ Len(Items(StatementsHere[k].body)) \in Nat
               /\ pos <= Len(Items(StatementsHere[k].body)) + 1
               /\ \A n \in 1..Len(Items(StatementsHere[k].body)) : Items(StatementsHere[k].body)[n] \in Lines
  <2>1. HAVE k < j
  <2>2. StatementsHere[k].body \in Bodies
    BY <1>3, <1>5, <1>6, <2>1
  <2>3. pos <= Len(Items(StatementsHere[k].body)) + 1
    BY <1>1, <2>1 DEF InScope
  <2> QED
    BY <2>2, <2>3, ItemFacts
<1>8. all_effects \in Seq(Lines)
  BY <1>1 DEF TypeOK
<1> QED
  BY <1>1, <1>2, <1>3, <1>4, <1>5, <1>6, <1>7, <1>8

\* Collecting leaves the group where it is.
LEMMA StillCollecting ==
    ASSUME StubInv, pc = "collect", pc' = "collect",
           UNCHANGED <<runs, stub, tree, todo, scope, i, j, out>>,
           k' \in Nat, k' > 0, pos' \in Nat, pos' > 0, all_effects' \in Seq(Lines),
           i <= k', k' <= j,
           k' < j => pos' <= Len(Items(StatementsHere[k'].body)) + 1,
           Collected'
    PROVE  StubInv'
<1>1. StatementsHere' = StatementsHere /\ Statement' = Statement /\ InGroup(j)' = InGroup(j)
  BY DEF StatementsHere, Statement, InGroup
<1>2. TypeOK /\ InScope
  BY DEF StubInv
<1>3. TypeOK'
  BY <1>2 DEF TypeOK
<1>4. InOneGroup' /\ AtGroupStart'
  BY <1>1, <1>2 DEF InScope, InOneGroup, AtGroupStart
<1>5. InScope'
  BY <1>1, <1>2, <1>4 DEF InScope
<1> QED
  BY <1>3, <1>5, WithinScope

LEMMA CollectStep ==
    ASSUME StubInv, CollectItem
    PROVE  StubInv'
<1> PICK b, item : b = StatementsHere[k].body /\ item = Items(b)[pos]
  OBVIOUS
<1>1. /\ pc = "collect" /\ k < j /\ pos <= Len(Items(b)) /\ pos' = pos + 1
      /\ all_effects' = IF IsEffect(b, pos) /\ item \notin SeqRange(all_effects)
                        THEN Append(all_effects, item) ELSE all_effects
      /\ UNCHANGED <<runs, stub, tree, todo, scope, pc, i, j, k, out>>
  BY DEF CollectItem, StatementsHere
<1>2. /\ i \in Nat /\ k \in Nat /\ k > 0 /\ pos \in Nat /\ pos > 0 /\ i <= k /\ k <= j /\ all_effects \in Seq(Lines)
      /\ Len(Items(b)) \in Nat /\ item \in Lines /\ Collected
  <2>1. /\ i \in Nat /\ k \in Nat /\ pos \in Nat /\ pos > 0 /\ i > 0 /\ i <= k /\ k <= j
        /\ all_effects \in Seq(Lines) /\ Collected
    BY <1>1, CollectFacts
  <2>2. k > 0
    BY <2>1
  <2>3. /\ Len(Items(b)) \in Nat
        /\ \A n \in 1..Len(Items(b)) : Items(b)[n] \in Lines
    BY <1>1, CollectFacts
  <2>4. pos \in 1..Len(Items(b))
    BY <1>1, <2>1, <2>3
  <2> QED
    BY <2>1, <2>2, <2>3, <2>4
<1>3. PICK before \in Seq(Lines) : before = all_effects
  BY <1>2
<1>4. /\ all_effects' \in Seq(Lines)
      /\ \A x : InLines(all_effects', x) <=>
            InLines(all_effects, x) \/ (IsEffect(b, pos) /\ x \in LineEffects(item))
  <2>1. CASE IsEffect(b, pos) /\ item \notin SeqRange(all_effects)
    <3>1. PICK after \in Seq(Lines) : after = Append(before, item)
      BY <1>2, AppendProperties
    <3>2. /\ Len(after) = Len(before) + 1 /\ after[Len(before) + 1] = item /\ Len(before) \in Nat
          /\ \A n \in 1..Len(before) : after[n] = before[n]
      BY <1>2, <3>1, AppendProperties
    <3>3. \A n \in 1..Len(after) : n \in 1..Len(before) \/ n = Len(before) + 1
      BY <3>2
    <3>4. 1..Len(before) \subseteq 1..Len(after) /\ Len(before) + 1 \in 1..Len(after)
      BY <3>2
    <3>5. \A x : InLines(after, x) <=> InLines(before, x) \/ x \in LineEffects(item)
      BY <3>2, <3>3, <3>4 DEF InLines
    <3> QED
      BY <1>1, <1>3, <2>1, <3>1, <3>5
  <2>2. CASE IsEffect(b, pos) /\ item \in SeqRange(all_effects)
    <3>1. PICK n \in 1..Len(all_effects) : all_effects[n] = item
      BY <2>2 DEF SeqRange
    <3>2. \A x : x \in LineEffects(item) => InLines(all_effects, x)
      BY <3>1 DEF InLines
    <3> QED
      BY <1>1, <1>2, <2>2, <3>2
  <2>3. CASE ~IsEffect(b, pos)
    BY <1>1, <1>2, <2>3
  <2> QED
    BY <2>1, <2>2, <2>3
<1>5. \A x : InItems(b, pos, x) <=> InItems(b, pos - 1, x) \/ (IsEffect(b, pos) /\ x \in LineEffects(item))
  <2>1. \A n \in 1..pos : n \in 1..(pos - 1) \/ n = pos
    BY <1>2
  <2>2. 1..(pos - 1) \subseteq 1..pos /\ pos \in 1..pos
    BY <1>2
  <2> QED
    BY <2>1, <2>2 DEF InItems
<1>6. Collected'
  <2>1. StatementsHere' = StatementsHere /\ pos' - 1 = pos
    BY <1>1, <1>2 DEF StatementsHere
  <2>2. ASSUME NEW x \in Effects
        PROVE  InLines(all_effects', x) <=>
                  \/ \E n \in i..(k - 1) : InItems(StatementsHere[n].body, Len(Items(StatementsHere[n].body)), x)
                  \/ k < j /\ InItems(b, pos, x)
    <3>1. InLines(all_effects, x) <=>
              \/ \E n \in i..(k - 1) : InItems(StatementsHere[n].body, Len(Items(StatementsHere[n].body)), x)
              \/ k < j /\ InItems(b, pos - 1, x)
      BY <1>2 DEF Collected
    <3> QED
      BY <1>1, <1>4, <1>5, <3>1
  <2> QED
    BY <1>1, <2>1, <2>2 DEF Collected
<1>7. pos' \in Nat /\ pos' > 0 /\ pos' <= Len(Items(b)) + 1 /\ k' = k
  BY <1>1, <1>2
<1> QED
  BY <1>1, <1>2, <1>4, <1>6, <1>7, StillCollecting

LEMMA NextOverloadStep ==
    ASSUME StubInv, NextOverload
    PROVE  StubInv'
<1>1. /\ pc = "collect" /\ k < j /\ pos > Len(Items(StatementsHere[k].body)) /\ k' = k + 1 /\ pos' = 1
      /\ UNCHANGED <<runs, stub, tree, todo, scope, pc, i, j, all_effects, out>>
  BY DEF NextOverload, StatementsHere
<1>2. /\ i \in Nat /\ j \in Nat /\ k \in Nat /\ k > 0 /\ pos \in Nat /\ i <= k /\ k <= j /\ all_effects \in Seq(Lines)
      /\ Len(Items(StatementsHere[k].body)) \in Nat /\ pos <= Len(Items(StatementsHere[k].body)) + 1 /\ Collected
      /\ j <= Len(StatementsHere) + 1 /\ Len(StatementsHere) \in Nat
      /\ TypeOK /\ \A n \in i..(j - 1) : StatementsHere[n].body \in Bodies
  <2>1. k > 0
    BY <1>1, CollectFacts
  <2> QED
    BY <1>1, <2>1, CollectFacts
<1>3. pos - 1 = Len(Items(StatementsHere[k].body))
  BY <1>1, <1>2
<1>4. \A n : n \in i..(k' - 1) <=> n \in i..(k - 1) \/ n = k
  BY <1>1, <1>2
<1>5. \A n \in 1..0 : FALSE
  OBVIOUS
<1>6. Collected'
  <2>1. StatementsHere' = StatementsHere /\ pos' - 1 = 0
    BY <1>1 DEF StatementsHere
  <2>2. ASSUME NEW x \in Effects
        PROVE  InLines(all_effects, x) <=>
                  \/ \E n \in i..(k' - 1) : InItems(StatementsHere[n].body, Len(Items(StatementsHere[n].body)), x)
                  \/ k' < j /\ InItems(StatementsHere[k'].body, 0, x)
    <3>1. InLines(all_effects, x) <=>
              \/ \E n \in i..(k - 1) : InItems(StatementsHere[n].body, Len(Items(StatementsHere[n].body)), x)
              \/ InItems(StatementsHere[k].body, Len(Items(StatementsHere[k].body)), x)
      BY <1>1, <1>2, <1>3 DEF Collected
    <3>2. ~InItems(StatementsHere[k'].body, 0, x)
      BY <1>5 DEF InItems
    <3> QED
      BY <1>4, <3>1, <3>2
  <2> QED
    BY <1>1, <2>1, <2>2 DEF Collected
<1>7. k' < j => pos' <= Len(Items(StatementsHere[k'].body)) + 1
  <2>1. HAVE k' < j
  <2>2. k' \in i..(j - 1)
    BY <1>1, <1>2, <2>1
  <2>3. Len(Items(StatementsHere[k'].body)) \in Nat
    BY <1>2, <2>2, ItemFacts
  <2> QED
    BY <1>1, <2>3
<1>8. k' \in Nat /\ k' > 0 /\ pos' \in Nat /\ pos' > 0 /\ i <= k' /\ k' <= j
  BY <1>1, <1>2
<1> QED
  BY <1>1, <1>2, <1>6, <1>7, <1>8, StillCollecting

LEMMA EmitStep ==
    ASSUME StubInv, EmitGroup
    PROVE  StubInv'
<1>1. /\ pc = "collect" /\ k = j /\ out' = out \o GroupOf(StatementsHere, i, j, all_effects)
      /\ i' = j /\ pc' = "scan"
      /\ UNCHANGED <<runs, stub, tree, todo, scope, j, k, pos, all_effects>>
  BY DEF EmitGroup, GroupOf, StatementsHere
<1>2. /\ TypeOK /\ InScope /\ InOneGroup /\ ~InGroup(j) /\ Collected
      /\ i \in Nat /\ i > 0 /\ j \in Nat /\ i < j /\ j <= Len(StatementsHere) + 1
      /\ Len(StatementsHere) \in Nat /\ StatementsHere \in Seq(Statements) /\ out \in Seq(Statements)
      /\ all_effects \in Seq(Lines)
      /\ \A n \in i..(j - 1) : n \in 1..Len(StatementsHere) /\ StatementsHere[n].body \in Bodies
  BY <1>1, CollectFacts
<1>3. PICK g : g = Statement.name
  OBVIOUS
<1>4. \A n \in i..(j - 1) : IsOverload(StatementsHere[n]) /\ StatementsHere[n].name = g
  BY <1>2, <1>3 DEF InOneGroup
<1>5. ASSUME Tidy(StatementsHere, g), NEW x \in Effects
      PROVE  InLines(all_effects, x) <=> \E n \in i..(j - 1) : x \in BodyEffects(StatementsHere[n].body)
  <2>1. InLines(all_effects, x) <=>
            \E n \in i..(j - 1) : InItems(StatementsHere[n].body, Len(Items(StatementsHere[n].body)), x)
    BY <1>1, <1>2 DEF Collected
  <2>2. ASSUME NEW n \in i..(j - 1)
        PROVE  x \in BodyEffects(StatementsHere[n].body)
                  <=> InItems(StatementsHere[n].body, Len(Items(StatementsHere[n].body)), x)
    <3>1. n \in DefsOf(StatementsHere, g)
      BY <1>2, <1>4 DEF DefsOf, IsOverload
    <3>2. TidyBody(StatementsHere[n].body) /\ StatementsHere[n].body \in Bodies
      BY <1>2, <1>5, <3>1 DEF Tidy
    <3> QED
      BY <3>2, ItemFacts
  <2> QED
    BY <2>1, <2>2
<1>6. Keeping(out, StatementsHere, i - 1) /\ AtGroupStart /\ scope \notin todo /\ StatementsHere = stub[scope]
  BY <1>2 DEF InScope
<1>7. i > 1 => ~SameGroup(StatementsHere[i - 1], StatementsHere[i])
  BY <1>2, <1>6 DEF AtGroupStart
<1>8. out' \in Seq(Statements) /\ Keeping(out', StatementsHere, j - 1)
  <2>1. /\ out \o GroupOf(StatementsHere, i, j, all_effects) \in Seq(Statements)
        /\ Keeping(out \o GroupOf(StatementsHere, i, j, all_effects), StatementsHere, j - 1)
    BY <1>2, <1>4, <1>5, <1>6, <1>7, GroupKeeps
  <2> QED
    BY <1>1, <2>1
<1>9. StatementsHere' = StatementsHere
  BY <1>1 DEF StatementsHere
<1>10. AtGroupStart'
  BY <1>1, <1>2, <1>9, NextGroupStarts DEF AtGroupStart
<1>11. InScope'
  BY <1>1, <1>2, <1>6, <1>8, <1>9, <1>10 DEF InScope
<1>12. TypeOK'
  BY <1>1, <1>2, <1>8 DEF TypeOK
<1> QED
  BY <1>1, <1>11, <1>12, WithinScope

LEMMA LeaveStep ==
    ASSUME StubInv, LeaveScope
    PROVE  StubInv'
<1>1. /\ pc = "scan" /\ i > Len(StatementsHere) /\ tree' = [tree EXCEPT ![scope] = out] /\ pc' = "enter"
      /\ UNCHANGED <<runs, stub, todo, scope, i, j, k, pos, all_effects, out>>
  BY DEF LeaveScope, StatementsHere
<1>2. TypeOK /\ InScope
  BY <1>1 DEF StubInv
<1>3. /\ tree \in [Scopes -> Seq(Statements)] /\ scope \in Scopes /\ todo \subseteq Scopes
      /\ out \in Seq(Statements) /\ i \in Nat /\ Len(StatementsHere) \in Nat
  BY <1>2, HereFacts DEF TypeOK
<1>4. TypeOK'
  <2>1. tree' \in [Scopes -> Seq(Statements)]
    BY <1>1, <1>3
  <2> QED
    BY <1>1, <1>2, <2>1 DEF TypeOK
<1>5. scope \notin todo /\ Keeping(out, stub[scope], Len(stub[scope]))
  <2>1. /\ scope \notin todo /\ StatementsHere = stub[scope] /\ i <= Len(StatementsHere) + 1
        /\ Keeping(out, StatementsHere, i - 1)
    BY <1>2 DEF InScope
  <2>2. i - 1 = Len(StatementsHere)
    BY <1>1, <1>3, <2>1
  <2> QED
    BY <2>1, <2>2
<1>6. tree'[scope] = out /\ \A s \in Scopes \ {scope} : tree'[s] = tree[s]
  BY <1>1, <1>3
<1>7. ASSUME NEW s \in Scopes \ todo PROVE Keeping(tree'[s], stub[s], Len(stub[s]))
  <2>1. CASE s = scope
    BY <1>5, <1>6, <2>1
  <2>2. CASE s # scope
    BY <1>1, <1>6, <2>2 DEF StubInv
  <2> QED
    BY <2>1, <2>2
<1>8. \A s \in todo : tree'[s] = stub[s]
  BY <1>3, <1>5, <1>6 DEF StubInv
<1> QED
  BY <1>1, <1>4, <1>7, <1>8 DEF StubInv

LEMMA RunAgainStep ==
    ASSUME StubInv, RunAgain
    PROVE  StubInv'
<1>1. /\ pc = "enter" /\ runs < MaxRuns /\ runs' = runs + 1 /\ stub' = tree /\ todo' = Scopes
      /\ UNCHANGED <<tree, scope, pc, i, j, k, pos, all_effects, out>>
  BY DEF RunAgain, Finished
<1>2. TypeOK
  BY DEF StubInv
<1>3. runs' \in 0..MaxRuns
  BY <1>1, <1>2, NamesAssumption DEF TypeOK
<1>4. TypeOK'
  BY <1>1, <1>2, <1>3 DEF TypeOK
<1> QED
  BY <1>1, <1>4 DEF StubInv

LEMMA StubStep == StubInv /\ [Next]_vars => StubInv'
<1> SUFFICES ASSUME StubInv, [Next]_vars PROVE StubInv'
  OBVIOUS
<1>1. CASE UNCHANGED vars
  BY <1>1 DEF vars, StubInv, InScope, TypeOK, AtGroupStart, InOneGroup, Collected, StatementsHere, Statement, InGroup
<1> QED
  BY <1>1, EnterStep, CopyStep, GroupStep, CloseStep, CollectStep, NextOverloadStep, EmitStep, LeaveStep, RunAgainStep
     DEF Next, Done

LEMMA StubInvHolds == Spec => []StubInv
BY StubInit, StubStep, PTL DEF Spec

-----------------------------------------------------------------------------
(* What follows.                                                            *)

\* What the stub analyzer reads depends on which names have definitions and on the
\* effects these carry.
LEMMA ReadFacts ==
    ASSUME NEW ss, NEW p, Len(ss) = p, NEW f
    PROVE  /\ (\E x : Carries(ss, f, p, x)) =>
                 \A x : x \in ReadEffects(ss, f) <=> Carries(ss, f, p, x)
           /\ ~(\E x : Carries(ss, f, p, x)) =>
                 ReadEffects(ss, f) = IF \E n \in 1..p : Defines(ss[n], f) THEN {Unknown} ELSE {}
<1> DEFINE read == UNION {DefEffects(ss[n]) : n \in DefsOf(ss, f)}
<1>1. \A n : n \in DefsOf(ss, f) <=> n \in 1..p /\ Defines(ss[n], f)
  BY DEF DefsOf, Defines
<1>2. \A n, x : x \in BodyEffects(ss[n].body) => x # Unknown
  BY NamesAssumption DEF BodyEffects, LineEffects
<1>3. \A x : x # Unknown => (x \in read <=> Carries(ss, f, p, x))
  BY <1>1 DEF Carries, DefEffects
<1>4. ~Carries(ss, f, p, Unknown)
  BY <1>2 DEF Carries
<1>5. ReadEffects(ss, f) = IF \E x \in read : x # Unknown THEN read \ {Unknown} ELSE read
  BY DEF ReadEffects
<1>6. CASE \E x : Carries(ss, f, p, x)
  <2>1. \E x \in read : x # Unknown
    BY <1>3, <1>4, <1>6
  <2>2. ReadEffects(ss, f) = read \ {Unknown}
    BY <1>5, <2>1
  <2> QED
    BY <1>3, <1>4, <1>6, <2>2
<1>7. CASE ~\E x : Carries(ss, f, p, x)
  <2>1. \A n \in DefsOf(ss, f) : BodyEffects(ss[n].body) = {}
    BY <1>1, <1>7 DEF Carries
  <2>2. \A n \in DefsOf(ss, f) : DefEffects(ss[n]) = {Unknown}
    BY <2>1 DEF DefEffects
  <2>3. read = IF \E n \in 1..p : Defines(ss[n], f) THEN {Unknown} ELSE {}
    BY <1>1, <2>2
  <2>4. ReadEffects(ss, f) = read
    BY <1>3, <1>5, <1>7
  <2> QED
    BY <1>7, <2>3, <2>4
<1> QED
  BY <1>6, <1>7

LEMMA KeepingReads ==
    ASSUME NEW new, NEW old, NEW p, Len(old) = p, Keeping(new, old, p), NEW f \in Defs, Tidy(old, f)
    PROVE  ReadEffects(new, f) = ReadEffects(old, f)
<1>1. Len(new) = p /\ \A n \in 1..p : new[n].kind = old[n].kind /\ new[n].name = old[n].name
  BY DEF Keeping
<1>2. \A ss, x : Carries(ss, f, p, x) => x \in Effects
  BY DEF Carries, BodyEffects, LineEffects
<1>3. \A x \in Effects : Carries(new, f, p, x) <=> Carries(old, f, p, x)
  BY DEF Keeping
<1>4. \A x : Carries(new, f, p, x) <=> Carries(old, f, p, x)
  BY <1>2, <1>3
<1>5. (\E n \in 1..p : Defines(new[n], f)) <=> (\E n \in 1..p : Defines(old[n], f))
  BY <1>1 DEF Defines
<1>6. CASE \E x : Carries(old, f, p, x)
  <2>1. \A x : x \in ReadEffects(new, f) <=> Carries(new, f, p, x)
    BY <1>1, <1>4, <1>6, ReadFacts
  <2>2. \A x : x \in ReadEffects(old, f) <=> Carries(old, f, p, x)
    BY <1>6, ReadFacts
  <2>3. \A x : x \in ReadEffects(new, f) <=> x \in ReadEffects(old, f)
    BY <1>4, <2>1, <2>2
  <2>4. PICK A, B : A = ReadEffects(new, f) /\ B = ReadEffects(old, f)
    OBVIOUS
  <2> QED
    BY <2>3
<1>7. CASE ~\E x : Carries(old, f, p, x)
  <2>1. ReadEffects(new, f) = IF \E n \in 1..p : Defines(new[n], f) THEN {Unknown} ELSE {}
    BY <1>1, <1>4, <1>7, ReadFacts
  <2>2. ReadEffects(old, f) = IF \E n \in 1..p : Defines(old[n], f) THEN {Unknown} ELSE {}
    BY <1>7, ReadFacts
  <2> QED
    BY <1>5, <2>1, <2>2
<1> QED
  BY <1>6, <1>7

\* In the end every scope keeps what it had.
LEMMA AllKept ==
    ASSUME StubInv, Finished, NEW s \in Scopes
    PROVE  Keeping(tree[s], stub[s], Len(stub[s]))
BY DEF StubInv, Finished

\* The stub analyzer reads the same effects from the rewritten file, whatever the
\* stub, and an overload after the first of its group has none.
THEOREM RewritingKeepsEffects == Spec => []EffectsPreserved
<1>1. StubInv => EffectsPreserved
  <2> HAVE StubInv
  <2>1. TypeOK
    BY DEF StubInv
  <2>2. OnlyFirstAnnotated
    <3>1. ASSUME Finished, NEW s \in Scopes, NEW n \in 2..Len(tree[s]),
                 IsOverload(tree[s][n]), IsOverload(tree[s][n - 1]), tree[s][n].name = tree[s][n - 1].name
          PROVE  BodyEffects(tree[s][n].body) = {}
      <4>1. Keeping(tree[s], stub[s], Len(stub[s]))
        BY <3>1, AllKept
      <4> QED
        BY <3>1, <4>1 DEF Keeping, SameGroup
    <3> QED
      BY <3>1 DEF OnlyFirstAnnotated
  <2>3. ASSUME Finished, NEW s \in Scopes, NEW f \in Defs,
               ~\E n \in DefsOf(stub[s], f) : ~TidyBody(stub[s][n].body)
        PROVE  ReadEffects(tree[s], f) = ReadEffects(stub[s], f)
    <3>1. Tidy(stub[s], f)
      BY <2>3 DEF Tidy
    <3>2. Keeping(tree[s], stub[s], Len(stub[s]))
      BY <2>3, AllKept
    <3> QED
      BY <3>1, <3>2, KeepingReads
  <2> QED
    BY <2>1, <2>2, <2>3 DEF EffectsPreserved
<1> QED
  BY <1>1, StubInvHolds, PTL

\* No statement of a stub is lost, moved or renamed.
THEOREM RewritingKeepsSignatures == Spec => []SignaturesKept
<1>1. StubInv => SignaturesKept
  <2> HAVE StubInv
  <2>1. ASSUME Finished, NEW s \in Scopes
        PROVE  /\ Len(tree[s]) = Len(stub[s])
               /\ \A n \in 1..Len(stub[s]) : /\ tree[s][n].kind = stub[s][n].kind
                                             /\ tree[s][n].name = stub[s][n].name
    BY <2>1, AllKept DEF Keeping
  <2> QED
    BY <2>1 DEF SignaturesKept
<1> QED
  BY <1>1, StubInvHolds, PTL

-----------------------------------------------------------------------------
(* The shape in which the runs leave a group.                               *)

\* Nothing of the body is an effect, and as the body of a later overload it stays.
Blank(b) == (\A n \in 1..Len(Items(b)) : ~IsEffect(b, n)) /\ EllipsisBody(b) = b

Skipped(b) == IF HasDocstring(b) THEN 1 ELSE 0

\* es are the candidates of the body from behind the docstring up to p.
CandidatesUpTo(es, b, p) ==
    /\ Len(es) = IF p > Skipped(b) THEN p - Skipped(b) ELSE 0
    /\ \A n \in 1..Len(es) : es[n] = Items(b)[n + Skipped(b)]

\* All candidates of the body are different effects, and merging just them makes the body again.
Full(b) ==
    /\ \A n \in 1..Len(Items(b)) : n > Skipped(b) => IsEffect(b, n)
    /\ \A m, n \in 1..Len(Items(b)) :
          m > Skipped(b) /\ n > Skipped(b) /\ Items(b)[m] = Items(b)[n] => m = n
    /\ \A es \in Seq(Lines) : CandidatesUpTo(es, b, Len(Items(b))) => MergedBody(es, b) = b

Settled(b) == Blank(b) \/ Full(b)

\* The body of a first overload as the first run may leave it: a line that was put
\* beside the signature, which the next run takes apart.
OnSignature(b) == b.inline /\ Ellipsis \notin SeqRange(b.lines[1].stmts)

\* The statement at n follows one of its group, or is the first of several.
Follows(ss, n) == n > 1 /\ SameGroup(ss[n - 1], ss[n])
Leads(ss, n) == n < Len(ss) /\ SameGroup(ss[n], ss[n + 1]) /\ ~Follows(ss, n)

\* The first p statements of new are in the shape that r runs leave, in groups as old has them.
Shaped(new, old, p, r) ==
    \A n \in 1..p : /\ Follows(old, n) => Blank(new[n].body)
                    /\ Leads(old, n) => Settled(new[n].body) \/ (r = 1 /\ OnSignature(new[n].body))

\* What this run makes of the first p statements of old.
MadeOf(new, old, p) ==
    /\ Shaped(new, old, p, runs + 1)
    /\ runs > 1 => \A n \in 1..p : new[n] = old[n]

Distinct(es) == \A m, n \in 1..Len(es) : es[m] = es[n] => m = n

\* What is gathered from the group at hand.
Gathering ==
    LET b == Statement.body IN
    /\ j > i + 1
    /\ Distinct(all_effects) /\ \A n \in 1..Len(all_effects) : ~IsEllipsisLine(all_effects[n])
    /\ runs > 0 /\ Blank(b) => all_effects = <<>>
    /\ runs > 0 /\ Full(b) => CandidatesUpTo(all_effects, b, IF k = i THEN pos - 1 ELSE Len(Items(b)))
    /\ runs > 0 /\ OnSignature(b) =>
          \A n \in 1..Len(all_effects) : all_effects[n].simple /\ Len(all_effects[n].stmts) = 1

RerunInv ==
    /\ runs > 0 => \A s \in Scopes : Shaped(stub[s], stub[s], Len(stub[s]), runs)
    /\ \A s \in Scopes \ todo : pc = "enter" \/ s # scope => MadeOf(tree[s], stub[s], Len(stub[s]))
    /\ pc # "enter" => MadeOf(out, StatementsHere, i - 1)
    /\ pc = "collect" => Gathering

LEMMA DocstringIs ==
    ASSUME NEW b \in Bodies
    PROVE  /\ Skipped(b) \in Nat /\ Len(Docstring(b)) = Skipped(b) /\ Docstring(b) \in Seq(Lines)
           /\ HasDocstring(b) => Skipped(b) = 1 /\ Docstring(b)[1] = b.lines[1]
           /\ ~HasDocstring(b) => Skipped(b) = 0 /\ Docstring(b) = <<>>
<1>1. CASE HasDocstring(b)
  <2>1. Len(b.lines) > 0 /\ b.lines \in Seq(Lines)
    BY <1>1, DocstringFacts, BodyFacts
  <2>2. b.lines[1] \in Lines
    BY <2>1
  <2>3. PICK one : one = <<b.lines[1]>>
    OBVIOUS
  <2>4. one \in Seq(Lines) /\ Len(one) = 1 /\ one[1] = b.lines[1] /\ Docstring(b) = one
    BY <1>1, <2>2, <2>3 DEF Docstring
  <2> QED
    BY <1>1, <2>4 DEF Skipped
<1>2. CASE ~HasDocstring(b)
  BY <1>2, EmptySeq DEF Skipped, Docstring
<1> QED
  BY <1>1, <1>2

\* The candidates of a body are the only list that is CandidatesUpTo all of it.
LEMMA BlockIsFull ==
    ASSUME NEW c \in Comments, NEW lines \in Seq(Lines), NEW f, f = Block(c, lines),
           Len(lines) > Skipped(f),
           \A n \in 1..Len(lines) : n > Skipped(f) => ~IsEllipsisLine(lines[n]),
           \A m, n \in 1..Len(lines) : m > Skipped(f) /\ n > Skipped(f) /\ lines[m] = lines[n] => m = n,
           HasDocstring(f) \/ Len(lines) > 1 \/ ~lines[1].simple
    PROVE  Full(f)
<1>1. f \in Bodies /\ ~f.inline /\ f.lines = lines /\ Items(f) = lines /\ f.header = c
  BY BlockFacts DEF Block, Items
<1>2. /\ Skipped(f) \in Nat /\ Len(Docstring(f)) = Skipped(f) /\ Docstring(f) \in Seq(Lines)
      /\ HasDocstring(f) => Skipped(f) = 1 /\ Docstring(f)[1] = lines[1]
      /\ ~HasDocstring(f) => Skipped(f) = 0
  BY <1>1, DocstringIs
<1>3. \A n \in 1..Len(Items(f)) : n > Skipped(f) => IsEffect(f, n)
  BY <1>1, <1>2 DEF IsEffect
<1>4. ASSUME NEW es \in Seq(Lines), CandidatesUpTo(es, f, Len(lines)) PROVE MergedBody(es, f) = f
  <2>1. /\ Len(es) = Len(lines) - Skipped(f)
        /\ \A n \in 1..Len(es) : es[n] = lines[n + Skipped(f)]
    BY <1>1, <1>4 DEF CandidatesUpTo
  <2>2. es # <<>>
    BY <1>2, <2>1
  <2>3. ~(Len(es) = 1 /\ ~HasDocstring(f) /\ es[1].simple)
    BY <1>2, <2>1
  <2>4. MergedBody(es, f) = Block(c, Docstring(f) \o es)
    BY <1>1, <2>2, <2>3 DEF MergedBody
  <2>5. Docstring(f) \o es = lines
    <3>1. PICK doc \in Seq(Lines) : doc = Docstring(f)
      BY <1>2
    <3>2. /\ doc \o es \in Seq(Lines) /\ Len(doc \o es) = Len(lines)
          /\ \A n \in 1..Len(lines) :
                (doc \o es)[n] = IF n <= Len(doc) THEN doc[n] ELSE es[n - Len(doc)]
      BY <1>2, <2>1, <3>1, ConcatProperties
    <3>3. ASSUME NEW n \in 1..Len(lines) PROVE (doc \o es)[n] = lines[n]
      <4>1. CASE n <= Len(doc)
        <5>1. n = 1 /\ HasDocstring(f)
          BY <1>2, <3>1, <4>1
        <5>2. (doc \o es)[n] = doc[n]
          BY <3>2, <4>1
        <5>3. doc[1] = lines[1]
          <6>1. Docstring(f)[1] = lines[1]
            BY <1>2, <5>1
          <6> QED
            BY <3>1, <6>1
        <5> QED
          BY <5>1, <5>2, <5>3
      <4>2. CASE ~(n <= Len(doc))
        <5>1. n - Skipped(f) \in 1..Len(es) /\ (n - Skipped(f)) + Skipped(f) = n
          BY <1>2, <2>1, <3>1, <4>2
        <5>2. es[n - Skipped(f)] = lines[n]
          BY <2>1, <5>1
        <5>3. Len(doc) = Skipped(f)
          BY <1>2, <3>1
        <5> QED
          BY <3>2, <4>2, <5>2, <5>3
      <4> QED
        BY <4>1, <4>2
    <3> QED
      BY <3>1, <3>2, <3>3, SeqEqual
  <2> QED
    BY <2>4, <2>5
<1> QED
  BY <1>1, <1>3, <1>4 DEF Full

\* Merging nothing is the ellipsis.
LEMMA MergedNothing ==
    ASSUME NEW b \in Bodies
    PROVE  MergedBody(<<>>, b) = EllipsisBody(b)
BY DEF MergedBody, EllipsisBody

LEMMA EllipsisIsBlank ==
    ASSUME NEW b \in Bodies
    PROVE  Blank(EllipsisBody(b)) /\ EllipsisBody(b) \in Bodies
<1>1. PICK e \in Bodies : e = EllipsisBody(b)
  BY EllipsisBodyFacts
<1>2. CASE HasDocstring(b)
  <2>1. PICK line : line = Line(<<Ellipsis>>, NoComment)
    OBVIOUS
  <2>2. line \in Lines /\ IsEllipsisLine(line)
    BY <2>1, LineFacts, NamesAssumption DEF Stmts
  <2>3. PICK one : one = <<line>>
    OBVIOUS
  <2>4. one \in Seq(Lines) /\ Len(one) = 1 /\ one[1] = line
    BY <2>2, <2>3
  <2>5. PICK doc \in Seq(Lines) : doc = Docstring(b) /\ Len(doc) = 1 /\ doc[1] = b.lines[1]
    BY <1>2, DocstringIs
  <2>6. e = Block(b.header, doc \o one)
    BY <1>1, <1>2, <2>1, <2>3, <2>5 DEF EllipsisBody
  <2>7. /\ doc \o one \in Seq(Lines) /\ Len(doc \o one) = 2
        /\ (doc \o one)[1] = b.lines[1] /\ (doc \o one)[2] = line
    <3>1. /\ doc \o one \in Seq(Lines) /\ Len(doc \o one) = Len(doc) + Len(one)
          /\ \A n \in 1..(Len(doc) + Len(one)) :
                (doc \o one)[n] = IF n <= Len(doc) THEN doc[n] ELSE one[n - Len(doc)]
      BY <2>4, <2>5, ConcatProperties
    <3>2. 1 \in 1..(Len(doc) + Len(one)) /\ 2 \in 1..(Len(doc) + Len(one)) /\ 1 <= Len(doc) /\ ~(2 <= Len(doc))
          /\ 2 - Len(doc) = 1
      BY <2>4, <2>5
    <3> QED
      BY <2>4, <2>5, <3>1, <3>2
  <2>8. ~e.inline /\ e.lines = doc \o one /\ e.header = b.header
    BY <2>6 DEF Block
  <2>9. HasDocstring(e)
    <3>1. e.lines # <<>>
      BY <2>7, <2>8
    <3> QED
      BY <1>2, <2>7, <2>8, <3>1 DEF HasDocstring
  <2>10. Docstring(e) = doc
    BY <1>2, <2>5, <2>7, <2>8, <2>9 DEF Docstring
  <2>11. EllipsisBody(e) = e
    BY <2>1, <2>3, <2>6, <2>8, <2>9, <2>10 DEF EllipsisBody
  <2>12. ASSUME NEW n \in 1..Len(Items(e)) PROVE ~IsEffect(e, n)
    <3>1. Items(e) = doc \o one /\ (n = 1 \/ n = 2)
      BY <2>7, <2>8 DEF Items
    <3> QED
      BY <2>2, <2>7, <2>9, <3>1 DEF IsEffect
  <2> QED
    BY <1>1, <2>11, <2>12 DEF Blank
<1>3. CASE ~HasDocstring(b)
  <2>1. PICK c \in Comments : c = TrailingComment(b)
    BY BodyFacts
  <2>2. PICK line : line = Line(<<Ellipsis>>, c)
    OBVIOUS
  <2>3. line \in Lines /\ IsEllipsisLine(line) /\ line.stmts = <<Ellipsis>> /\ line.comment = c
    BY <2>2, LineFacts, NamesAssumption DEF Stmts, Line
  <2>4. e = InlineBody(line)
    BY <1>1, <1>3, <2>1, <2>2 DEF EllipsisBody, InlineEllipsis
  <2>5. e.inline /\ e.lines = <<line>>
    BY <2>4 DEF InlineBody
  <2>6. e.lines[1] = line /\ ~HasDocstring(e)
    BY <2>5 DEF HasDocstring
  <2>7. EllipsisBody(e) = e
    BY <2>2, <2>3, <2>4, <2>5, <2>6 DEF EllipsisBody, TrailingComment, InlineEllipsis
  <2>8. ASSUME NEW n \in 1..Len(Items(e)) PROVE ~IsEffect(e, n)
    <3>1. PICK one : one = <<Ellipsis>>
      OBVIOUS
    <3>2. Len(one) = 1 /\ one[1] = Ellipsis /\ line.stmts = one
      BY <2>3, <3>1
    <3>3. Items(e) = [m \in 1..1 |-> Line(<<one[m]>>, c)]
      BY <2>3, <2>5, <2>6, <3>2 DEF Items
    <3>4. Len(Items(e)) = 1 /\ Items(e)[1] = line
      BY <2>2, <3>2, <3>3
    <3> QED
      BY <2>3, <3>4 DEF IsEffect
  <2> QED
    BY <1>1, <2>7, <2>8 DEF Blank
<1> QED
  BY <1>1, <1>2, <1>3

\* A single statement beside the signature.
LEMMA SingleIsFull ==
    ASSUME NEW line \in Lines, line.simple, Len(line.stmts) = 1, ~IsEllipsisLine(line)
    PROVE  Full(InlineBody(line))
<1>1. PICK f \in Bodies : f = InlineBody(line)
  BY OneLine
<1>2. PICK stmts \in Seq(Stmts), c \in Comments : line.stmts = stmts /\ line.comment = c
  BY DEF Lines, Stmts
<1>3. f.inline /\ f.lines = <<line>> /\ ~HasDocstring(f)
  BY <1>1 DEF InlineBody, HasDocstring
<1>4. f.lines[1] = line
  BY <1>3
<1>5. Items(f) = [n \in 1..1 |-> Line(<<stmts[n]>>, c)]
  BY <1>2, <1>3, <1>4 DEF Items
<1>6. line = Line(<<stmts[1]>>, c)
  <2>1. PICK one : one = <<stmts[1]>>
    OBVIOUS
  <2>2. stmts[1] \in Stmts
    <3>1. Len(stmts) = 1
      BY <1>2, Zenon
    <3>2. 1 \in 1..Len(stmts)
      BY <3>1
    <3> QED
      BY <3>2, ElementOfSeq
  <2>3. one \in Seq(Stmts) /\ Len(one) = Len(stmts) /\ \A n \in 1..Len(one) : one[n] = stmts[n]
    BY <1>2, <2>1, <2>2
  <2>4. one = stmts
    BY <2>3, SeqEqual
  <2>5. line = [simple |-> line.simple, stmts |-> line.stmts, comment |-> line.comment]
    BY DEF Lines
  <2> QED
    BY <1>2, <2>1, <2>4, <2>5 DEF Line
<1>7. Len(Items(f)) = 1 /\ Items(f)[1] = line
  BY <1>5, <1>6
<1>8. Skipped(f) = 0
  BY <1>3 DEF Skipped
<1>9. ASSUME NEW es \in Seq(Lines), CandidatesUpTo(es, f, Len(Items(f))) PROVE MergedBody(es, f) = f
  <2>1. Len(es) = 1 /\ es[1] = line
    BY <1>7, <1>8, <1>9 DEF CandidatesUpTo
  <2>2. es # <<>>
    <3>1. Len(es) # 0
      BY <2>1
    <3> QED
      BY <3>1
  <2> QED
    BY <1>1, <1>3, <2>1, <2>2 DEF MergedBody
<1>10. \A n \in 1..Len(Items(f)) : IsEffect(f, n)
  BY <1>3, <1>7 DEF IsEffect
<1>11. \A m, n \in 1..Len(Items(f)) : m = n
  BY <1>7
<1> QED
  BY <1>1, <1>9, <1>10, <1>11 DEF Full

\* What _create_merged_body makes of different candidates is settled, but for a
\* line put beside the signature that has several statements.
LEMMA MergedIsSettled ==
    ASSUME NEW b \in Bodies, NEW es \in Seq(Lines), Distinct(es),
           \A n \in 1..Len(es) : ~IsEllipsisLine(es[n])
    PROVE  LET m == MergedBody(es, b) IN
           /\ Settled(m) \/ OnSignature(m)
           /\ (\A n \in 1..Len(es) : es[n].simple /\ Len(es[n].stmts) = 1) => Settled(m)
<1>1. PICK m : m = MergedBody(es, b)
  OBVIOUS
<1>2. CASE es = <<>>
  BY <1>1, <1>2, MergedNothing, EllipsisIsBlank DEF Settled
<1>3. CASE es # <<>> /\ Len(es) = 1 /\ ~HasDocstring(b) /\ es[1].simple
  <2>1. m = InlineBody(es[1])
    BY <1>1, <1>3 DEF MergedBody
  <2>2. es[1] \in Lines /\ ~IsEllipsisLine(es[1])
    BY <1>3
  <2>3. m.inline /\ m.lines[1] = es[1]
    BY <2>1 DEF InlineBody
  <2>4. OnSignature(m)
    BY <1>3, <2>2, <2>3 DEF OnSignature, IsEllipsisLine
  <2>5. Len(es[1].stmts) = 1 => Full(m)
    BY <1>3, <2>1, <2>2, SingleIsFull
  <2> QED
    BY <1>1, <1>3, <2>4, <2>5 DEF Settled
<1>4. CASE es # <<>> /\ ~(Len(es) = 1 /\ ~HasDocstring(b) /\ es[1].simple)
  <2>1. m = Block(b.header, Docstring(b) \o es) /\ b.header \in Comments
    BY <1>1, <1>4, BodyFacts DEF MergedBody
  <2>2. PICK doc \in Seq(Lines) :
            /\ doc = Docstring(b) /\ Len(doc) = Skipped(b) /\ Skipped(b) \in Nat
            /\ HasDocstring(b) => Skipped(b) = 1 /\ doc[1] = b.lines[1]
            /\ ~HasDocstring(b) => Skipped(b) = 0
    BY DocstringIs
  <2>3. PICK lines : lines = doc \o es
    OBVIOUS
  <2>4. /\ lines \in Seq(Lines) /\ Len(lines) = Skipped(b) + Len(es)
        /\ \A n \in 1..Len(lines) : lines[n] = IF n <= Skipped(b) THEN doc[n] ELSE es[n - Skipped(b)]
    BY <2>2, <2>3, ConcatProperties
  <2>5. m = Block(b.header, lines) /\ m \in Bodies /\ ~m.inline /\ m.lines = lines /\ Len(es) > 0
    <3>1. m = Block(b.header, lines)
      BY <2>1, <2>2, <2>3
    <3>2. m \in Bodies
      BY <2>1, <2>4, <3>1, BlockFacts
    <3>3. Len(es) > 0
      BY <1>4
    <3> QED
      BY <3>1, <3>2, <3>3 DEF Block
  <2>6. /\ Skipped(m) \in Nat /\ Skipped(m) <= 1
        /\ Skipped(b) <= Skipped(m) /\ (HasDocstring(m) <=> Skipped(m) = 1)
    <3>1. HasDocstring(b) => HasDocstring(m)
      <4> HAVE HasDocstring(b)
      <4>1. lines[1] = b.lines[1] /\ lines # <<>>
        BY <2>2, <2>4, <2>5
      <4> QED
        BY <2>5, <4>1 DEF HasDocstring
    <3> QED
      BY <3>1 DEF Skipped
  <2>7. \A n \in 1..Len(lines) : n > Skipped(m) =>
            n - Skipped(b) \in 1..Len(es) /\ lines[n] = es[n - Skipped(b)]
    BY <2>2, <2>4, <2>6
  <2>8. \A n \in 1..Len(lines) : n > Skipped(m) => ~IsEllipsisLine(lines[n])
    BY <2>7
  <2>9. ASSUME NEW p \in 1..Len(lines), NEW n \in 1..Len(lines),
               p > Skipped(m), n > Skipped(m), lines[p] = lines[n]
        PROVE  p = n
    <3>1. p - Skipped(b) = n - Skipped(b)
      BY <2>7, <2>9 DEF Distinct
    <3> QED
      BY <2>2, <3>1
  <2>10. Len(lines) > Skipped(m) /\ (HasDocstring(m) \/ Len(lines) > 1 \/ ~lines[1].simple)
    <3>1. CASE HasDocstring(b)
      <4>1. HasDocstring(m)
        BY <2>2, <2>6, <3>1
      <4> QED
        BY <2>2, <2>4, <2>5, <2>6, <3>1, <4>1
    <3>2. CASE ~HasDocstring(b)
      <4>1. Len(lines) = Len(es) /\ lines[1] = es[1]
        BY <2>2, <2>4, <2>5, <3>2
      <4>2. HasDocstring(m) => lines[1].simple
        BY <2>5 DEF HasDocstring
      <4> QED
        BY <1>4, <2>5, <2>6, <3>2, <4>1, <4>2
    <3> QED
      BY <3>1, <3>2
  <2>11. Full(m)
    BY <2>1, <2>4, <2>5, <2>8, <2>9, <2>10, BlockIsFull
  <2> QED
    BY <1>1, <2>11 DEF Settled
<1> QED
  BY <1>2, <1>3, <1>4

\* The list of merged statements as it grows.
LEMMA MadeFurther ==
    ASSUME TypeOK, NEW new, NEW old, NEW wider, NEW p \in Nat, NEW q \in Nat,
           MadeOf(new, old, p), \A n \in 1..p : wider[n] = new[n],
           \A n \in 1..q : n > p =>
               /\ Follows(old, n) => Blank(wider[n].body)
               /\ Leads(old, n) => Settled(wider[n].body) \/ (runs + 1 = 1 /\ OnSignature(wider[n].body))
               /\ runs > 1 => wider[n] = old[n]
    PROVE  MadeOf(wider, old, q)
<1>1. ASSUME NEW n \in 1..q
      PROVE  /\ Follows(old, n) => Blank(wider[n].body)
             /\ Leads(old, n) => Settled(wider[n].body) \/ (runs + 1 = 1 /\ OnSignature(wider[n].body))
             /\ runs > 1 => wider[n] = old[n]
  <2>1. CASE n > p
    BY <2>1
  <2>2. CASE ~(n > p)
    <3>1. n \in 1..p
      BY <2>2
    <3> QED
      BY <3>1 DEF MadeOf, Shaped
  <2> QED
    BY <2>1, <2>2
<1> QED
  BY <1>1 DEF MadeOf, Shaped

\* Within a scope only the scope is in question.
LEMMA RerunWithin ==
    ASSUME RerunInv, UNCHANGED <<runs, stub, tree, todo, scope>>, pc # "enter", pc' # "enter",
           MadeOf(out, StatementsHere, i - 1)', pc' = "collect" => Gathering'
    PROVE  RerunInv'
BY DEF RerunInv, MadeOf

\* The statements of the scope are as the runs before left them.
LEMMA HereShaped ==
    ASSUME StubInv, RerunInv, pc # "enter", runs > 0
    PROVE  Shaped(StatementsHere, StatementsHere, Len(StatementsHere), runs)
<1>1. StatementsHere = stub[scope] /\ scope \in Scopes
  BY DEF StubInv, InScope, TypeOK
<1> QED
  BY <1>1 DEF RerunInv

LEMMA RerunEnter ==
    ASSUME StubInv, StubInv', RerunInv, NEW s \in todo, EnterScope(s)
    PROVE  RerunInv'
<1>1. /\ pc = "enter" /\ scope' = s /\ todo' = todo \ {s} /\ pc' = "scan" /\ i' = 1 /\ out' = <<>>
      /\ UNCHANGED <<runs, stub, tree>>
  BY DEF EnterScope
<1>2. MadeOf(out, StatementsHere, i - 1)'
  <2>1. \A n \in 1..(i' - 1) : FALSE
    BY <1>1
  <2> QED
    BY <2>1 DEF MadeOf, Shaped
<1>3. \A t \in Scopes \ todo' : t # scope' => MadeOf(tree[t], stub[t], Len(stub[t]))
  BY <1>1 DEF RerunInv
<1> QED
  BY <1>1, <1>2, <1>3 DEF RerunInv, MadeOf

\* A statement that is in no group of several is kept.
LEMMA RerunAppend ==
    ASSUME StubInv, RerunInv, pc \in {"scan", "group"}, pc' = "scan",
           UNCHANGED <<runs, stub, tree, todo, scope>>,
           i <= Len(StatementsHere), out' = Append(out, StatementsHere[i]), i' = i + 1,
           ~Follows(StatementsHere, i), ~Leads(StatementsHere, i)
    PROVE  RerunInv'
<1>1. TypeOK /\ Keeping(out, StatementsHere, i - 1)
  BY DEF StubInv, InScope
<1>2. /\ i \in Nat /\ i > 0 /\ StatementsHere \in Seq(Statements) /\ out \in Seq(Statements)
      /\ StatementsHere[i] \in Statements
  <2>1. i \in Nat /\ i > 0 /\ StatementsHere \in Seq(Statements) /\ Len(StatementsHere) \in Nat /\ out \in Seq(Statements)
    BY <1>1, HereFacts
  <2> QED
    BY <2>1
<1>3. Len(out) = i - 1
  BY <1>1 DEF Keeping
<1>4. out'[i] = StatementsHere[i] /\ \A n \in 1..(i - 1) : out'[n] = out[n]
  <2>1. PICK add \in Seq(Statements) : add = Append(out, StatementsHere[i])
    BY <1>2, AppendProperties
  <2>2. add[Len(out) + 1] = StatementsHere[i] /\ \A n \in 1..Len(out) : add[n] = out[n]
    BY <1>2, <2>1, AppendProperties
  <2> QED
    BY <1>2, <1>3, <2>1, <2>2
<1>5. MadeOf(out', StatementsHere, i)
  <2>1. i - 1 \in Nat /\ MadeOf(out, StatementsHere, i - 1)
    BY <1>2 DEF RerunInv
  <2>2. ASSUME NEW n \in 1..i, n > i - 1
        PROVE  /\ ~Follows(StatementsHere, n) /\ ~Leads(StatementsHere, n)
               /\ out'[n] = StatementsHere[n]
    <3>1. n = i
      BY <1>2, <2>2
    <3> QED
      BY <1>4, <3>1
  <2>3. PICK p \in Nat : p = i - 1
    BY <2>1
  <2>4. PICK wider : wider = out'
    OBVIOUS
  <2>5. MadeOf(out, StatementsHere, p) /\ \A n \in 1..p : wider[n] = out[n]
    BY <1>4, <2>1, <2>3, <2>4
  <2>6. \A n \in 1..i : n > p =>
            /\ ~Follows(StatementsHere, n) /\ ~Leads(StatementsHere, n)
            /\ wider[n] = StatementsHere[n]
    BY <2>2, <2>3, <2>4
  <2>7. MadeOf(wider, StatementsHere, i)
    BY <1>1, <1>2, <2>5, <2>6, MadeFurther
  <2> QED
    BY <2>4, <2>7
<1>6. MadeOf(out, StatementsHere, i - 1)'
  <2>1. StatementsHere' = StatementsHere /\ i' - 1 = i /\ runs' = runs
    BY <1>2 DEF StatementsHere
  <2> QED
    BY <1>5, <2>1 DEF MadeOf
<1> QED
  BY <1>6, RerunWithin

LEMMA RerunCopy ==
    ASSUME StubInv, RerunInv, CopyStatement
    PROVE  RerunInv'
<1>1. /\ pc = "scan" /\ pc' = "scan" /\ i <= Len(StatementsHere) /\ ~IsOverload(StatementsHere[i])
      /\ out' = Append(out, StatementsHere[i]) /\ i' = i + 1
      /\ UNCHANGED <<runs, stub, tree, todo, scope>>
  BY DEF CopyStatement, StatementsHere, Statement
<1>2. ~Follows(StatementsHere, i) /\ ~Leads(StatementsHere, i)
  BY <1>1 DEF Follows, Leads, SameGroup
<1> QED
  BY <1>1, <1>2, RerunAppend

LEMMA RerunGroup ==
    ASSUME StubInv, RerunInv, StartGroup \/ ExtendGroup
    PROVE  RerunInv'
<1>1. /\ pc # "enter" /\ pc' = "group" /\ UNCHANGED <<runs, stub, tree, todo, scope, i, out>>
  BY DEF StartGroup, ExtendGroup
<1>2. MadeOf(out, StatementsHere, i - 1)'
  BY <1>1 DEF RerunInv, MadeOf, StatementsHere
<1> QED
  BY <1>1, <1>2, RerunWithin

LEMMA RerunClose ==
    ASSUME StubInv, RerunInv, CloseGroup
    PROVE  RerunInv'
<1>1. pc = "group" /\ ~InGroup(j) /\ UNCHANGED <<runs, stub, tree, todo, scope, j>> /\ TypeOK /\ InScope
  <2>1. pc = "group" /\ ~InGroup(j) /\ UNCHANGED <<runs, stub, tree, todo, scope, j>>
    BY DEF CloseGroup
  <2> QED
    BY <2>1 DEF StubInv
<1>2. i \in Nat /\ i > 0 /\ j \in Nat /\ Len(StatementsHere) \in Nat
  BY <1>1, HereFacts
<1>3. i < j /\ j <= Len(StatementsHere) + 1 /\ AtGroupStart
  BY <1>1 DEF InScope, InOneGroup
<1>4. CASE j = i + 1 /\ out' = Append(out, Statement) /\ i' = j /\ pc' = "scan"
  <2>1. i <= Len(StatementsHere) /\ Statement = StatementsHere[i]
    BY <1>2, <1>3, <1>4 DEF Statement, StatementsHere
  <2>2. ~Follows(StatementsHere, i)
    BY <1>3, <2>1 DEF Follows, AtGroupStart
  <2>3. ~Leads(StatementsHere, i)
    <3>1. ASSUME i < Len(StatementsHere), SameGroup(StatementsHere[i], StatementsHere[i + 1]) PROVE FALSE
      <4>1. i + 1 <= Len(StatementsHere)
        BY <1>2, <3>1
      <4> QED
        BY <1>1, <1>4, <2>1, <3>1, <4>1 DEF InGroup, SameGroup, StatementsHere
    <3> QED
      BY <3>1 DEF Leads
  <2> QED
    BY <1>1, <1>4, <2>1, <2>2, <2>3, RerunAppend
<1>5. CASE j > i + 1 /\ pc' = "collect" /\ k' = i /\ pos' = 1 /\ all_effects' = <<>> /\ UNCHANGED <<i, out>>
  <2>1. StatementsHere' = StatementsHere /\ Statement' = Statement /\ Statement = StatementsHere[i]
    BY <1>1, <1>5 DEF StatementsHere, Statement
  <2>2. MadeOf(out, StatementsHere, i - 1)'
    BY <1>1, <1>5, <2>1 DEF RerunInv, MadeOf
  <2>3. Gathering'
    <3>1. Len(<<>>) = 0 /\ \A n \in 1..0 : FALSE
      OBVIOUS
    <3>2. Distinct(<<>>)
      BY <3>1 DEF Distinct
    <3>3. PICK b \in Bodies : b = Statement.body
      <4>1. i \in 1..Len(StatementsHere)
        BY <1>2, <1>3
      <4> QED
        BY <1>1, <2>1, <4>1, HereFacts
    <3>4. CandidatesUpTo(<<>>, b, 0)
      <4>1. Skipped(b) \in Nat
        BY DocstringIs
      <4> QED
        BY <3>1, <4>1 DEF CandidatesUpTo
    <3>5. pos' - 1 = 0 /\ k' = i'
      BY <1>5
    <3> QED
      BY <1>1, <1>5, <2>1, <3>1, <3>2, <3>3, <3>4, <3>5 DEF Gathering
  <2> QED
    BY <1>1, <1>5, <2>2, <2>3, RerunWithin
<1> QED
  BY <1>4, <1>5 DEF CloseGroup

\* The overloads behind the first of their group.
LEMMA MembersFollow ==
    ASSUME StubInv, pc = "collect", NEW n \in i..(j - 1), n > i
    PROVE  Follows(StatementsHere, n) /\ n \in 1..Len(StatementsHere)
<1>1. InOneGroup /\ i \in Nat /\ i > 0 /\ j \in Nat /\ \A m \in i..(j - 1) : m \in 1..Len(StatementsHere)
  BY CollectFacts
<1>2. n - 1 \in i..(j - 1) /\ n > 1
  BY <1>1
<1>3. SameGroup(StatementsHere[n - 1], StatementsHere[n])
  BY <1>1, <1>2 DEF InOneGroup, SameGroup
<1> QED
  BY <1>1, <1>2, <1>3 DEF Follows

\* From the second run on only the first overload has candidates.
LEMMA MembersBlank ==
    ASSUME StubInv, RerunInv, pc = "collect", runs > 0, NEW n \in i..(j - 1), n > i
    PROVE  Blank(StatementsHere[n].body)
<1>1. Shaped(StatementsHere, StatementsHere, Len(StatementsHere), runs)
  BY HereShaped
<1>2. Follows(StatementsHere, n) /\ n \in 1..Len(StatementsHere)
  BY MembersFollow
<1> QED
  BY <1>1, <1>2 DEF Shaped

\* One more of the candidates of a body that are all different effects.
LEMMA NextCandidate ==
    ASSUME NEW b \in Bodies, Full(b), NEW es \in Seq(Lines), NEW p \in 1..Len(Items(b)),
           CandidatesUpTo(es, b, p - 1)
    PROVE  LET more == IF IsEffect(b, p) /\ Items(b)[p] \notin SeqRange(es)
                       THEN Append(es, Items(b)[p]) ELSE es
           IN  CandidatesUpTo(more, b, p)
<1>1. /\ Skipped(b) \in {0, 1} /\ (Skipped(b) = 1 => HasDocstring(b))
      /\ Len(Items(b)) \in Nat /\ Items(b)[p] \in Lines
  BY ItemFacts DEF Skipped
<1>2. CASE p > Skipped(b)
  <2>1. IsEffect(b, p)
    BY <1>2 DEF Full
  <2>2. /\ Len(es) = (p - 1) - Skipped(b) /\ Len(es) + Skipped(b) = p - 1
        /\ \A n \in 1..Len(es) : es[n] = Items(b)[n + Skipped(b)]
    BY <1>1, <1>2 DEF CandidatesUpTo
  <2>3. ASSUME NEW n \in 1..Len(es) PROVE es[n] # Items(b)[p]
    <3>1. n + Skipped(b) \in 1..Len(Items(b)) /\ n + Skipped(b) > Skipped(b) /\ n + Skipped(b) # p
      BY <1>1, <2>2
    <3> QED
      BY <1>2, <2>2, <3>1 DEF Full
  <2>4. Items(b)[p] \notin SeqRange(es)
    BY <2>3 DEF SeqRange
  <2>5. PICK more \in Seq(Lines) : more = Append(es, Items(b)[p])
    BY <1>1, AppendProperties
  <2>6. /\ Len(more) = p - Skipped(b) /\ more[p - Skipped(b)] = Items(b)[p]
        /\ \A n \in 1..Len(es) : more[n] = es[n]
    <3>1. Len(more) = Len(es) + 1 /\ more[Len(es) + 1] = Items(b)[p] /\ \A n \in 1..Len(es) : more[n] = es[n]
      BY <1>1, <2>5, AppendProperties
    <3>2. Len(es) + 1 = p - Skipped(b)
      BY <1>1, <2>2
    <3> QED
      BY <3>1, <3>2
  <2>7. ASSUME NEW n \in 1..Len(more) PROVE more[n] = Items(b)[n + Skipped(b)]
    <3>1. CASE n \in 1..Len(es)
      BY <2>2, <2>6, <3>1
    <3>2. CASE n \notin 1..Len(es)
      <4>1. n = p - Skipped(b) /\ n + Skipped(b) = p
        BY <1>1, <2>2, <2>6, <3>2
      <4> QED
        BY <2>6, <4>1
    <3> QED
      BY <3>1, <3>2
  <2>8. CandidatesUpTo(more, b, p)
    BY <1>2, <2>6, <2>7 DEF CandidatesUpTo
  <2> QED
    BY <2>1, <2>4, <2>5, <2>8
<1>3. CASE ~(p > Skipped(b))
  <2>1. p = 1 /\ HasDocstring(b)
    BY <1>1, <1>3
  <2>2. ~IsEffect(b, p)
    BY <2>1 DEF IsEffect
  <2>3. CandidatesUpTo(es, b, p)
    BY <1>1, <1>3, <2>1 DEF CandidatesUpTo
  <2> QED
    BY <2>2, <2>3
<1> QED
  BY <1>2, <1>3

\* The candidates of an inline body are statements.
LEMMA InlineItems ==
    ASSUME NEW b \in Bodies, b.inline, NEW n \in 1..Len(Items(b))
    PROVE  Items(b)[n].simple /\ Len(Items(b)[n].stmts) = 1
<1>1. Items(b) = [m \in 1..Len(b.lines[1].stmts) |-> Line(<<b.lines[1].stmts[m]>>, b.lines[1].comment)]
  BY DEF Items
<1>2. b.lines[1].stmts \in Seq(Stmts)
  BY BodyFacts DEF Lines, Stmts
<1>3. n \in 1..Len(b.lines[1].stmts)
  BY <1>1, <1>2
<1>4. Items(b)[n] = Line(<<b.lines[1].stmts[n]>>, b.lines[1].comment)
  BY <1>1, <1>3
<1> QED
  BY <1>4 DEF Line

LEMMA RerunCollect ==
    ASSUME StubInv, RerunInv, CollectItem
    PROVE  RerunInv'
<1> PICK b, item : b = StatementsHere[k].body /\ item = Items(b)[pos]
  OBVIOUS
<1> PICK first : first = Statement.body
  OBVIOUS
<1>1. /\ pc = "collect" /\ k < j /\ pos <= Len(Items(b)) /\ pos' = pos + 1
      /\ all_effects' = IF IsEffect(b, pos) /\ item \notin SeqRange(all_effects)
                        THEN Append(all_effects, item) ELSE all_effects
      /\ UNCHANGED <<runs, stub, tree, todo, scope, pc, i, j, k, out>>
  BY DEF CollectItem, StatementsHere
<1>2. /\ i \in Nat /\ j \in Nat /\ k \in Nat /\ pos \in Nat /\ pos > 0 /\ i <= k /\ i < j
      /\ all_effects \in Seq(Lines) /\ k \in i..(j - 1) /\ b \in Bodies /\ Len(Items(b)) \in Nat
  BY <1>1, CollectFacts
<1>3. /\ pos \in 1..Len(Items(b)) /\ item \in Lines /\ Statement = StatementsHere[i]
  <2>1. pos \in 1..Len(Items(b))
    BY <1>1, <1>2
  <2> QED
    BY <1>2, <2>1, ItemFacts DEF Statement, StatementsHere
<1>4. Gathering
  BY <1>1 DEF RerunInv
<1>5. k = i => b = first
  BY <1>3
<1>6. runs > 0 /\ k # i => all_effects' = all_effects
  <2> HAVE runs > 0 /\ k # i
  <2>1. k > i
    BY <1>2
  <2>2. Blank(b)
    BY <1>1, <1>2, <2>1, MembersBlank
  <2>3. ~IsEffect(b, pos)
    BY <1>3, <2>2 DEF Blank
  <2> QED
    BY <1>1, <2>3
<1>7. PICK before \in Seq(Lines) : before = all_effects
  BY <1>2
<1>8. PICK after : after = all_effects'
  OBVIOUS
<1>9. \/ after = before
      \/ /\ IsEffect(b, pos) /\ item \notin SeqRange(before)
         /\ Len(after) = Len(before) + 1 /\ after[Len(before) + 1] = item /\ Len(before) \in Nat
         /\ \A n \in 1..Len(before) : after[n] = before[n]
  <2>1. CASE IsEffect(b, pos) /\ item \notin SeqRange(before)
    <3>1. after = Append(before, item)
      BY <1>1, <1>7, <1>8, <2>1
    <3> QED
      BY <1>3, <2>1, <3>1, AppendProperties
  <2>2. CASE ~(IsEffect(b, pos) /\ item \notin SeqRange(before))
    BY <1>1, <1>7, <1>8, <2>2
  <2> QED
    BY <2>1, <2>2
<1>10. ASSUME NEW n \in 1..Len(after)
       PROVE  \/ n \in 1..Len(before) /\ after[n] = before[n]
              \/ /\ n = Len(before) + 1 /\ after[n] = item
                 /\ IsEffect(b, pos) /\ item \notin SeqRange(before)
  <2>1. CASE after = before
    BY <2>1
  <2>2. CASE after # before
    <3>1. n \in 1..Len(before) \/ n = Len(before) + 1
      BY <1>9, <2>2
    <3> QED
      BY <1>9, <2>2, <3>1
  <2> QED
    BY <2>1, <2>2
<1>11. Distinct(after)
  <2>1. Distinct(before)
    BY <1>4, <1>7 DEF Gathering
  <2>2. \A n \in 1..Len(before) : before[n] \in SeqRange(before)
    BY DEF SeqRange
  <2>3. ASSUME NEW m \in 1..Len(after), NEW n \in 1..Len(after), after[m] = after[n] PROVE m = n
    BY <1>10, <2>1, <2>2, <2>3 DEF Distinct
  <2> QED
    BY <2>3 DEF Distinct
<1>12. \A n \in 1..Len(after) : ~IsEllipsisLine(after[n])
  <2>1. \A n \in 1..Len(before) : ~IsEllipsisLine(before[n])
    BY <1>4, <1>7 DEF Gathering
  <2>2. IsEffect(b, pos) => ~IsEllipsisLine(item)
    BY DEF IsEffect
  <2> QED
    BY <1>10, <2>1, <2>2
<1>13. ASSUME runs > 0, Blank(first) PROVE after = <<>>
  <2>1. before = <<>>
    BY <1>4, <1>7, <1>13 DEF Gathering
  <2>2. CASE k = i
    <3>1. ~IsEffect(b, pos)
      BY <1>3, <1>5, <1>13, <2>2 DEF Blank
    <3> QED
      BY <1>9, <2>1, <3>1
  <2>3. CASE k # i
    BY <1>6, <1>7, <1>8, <1>13, <2>1, <2>3
  <2> QED
    BY <2>2, <2>3
<1>14. ASSUME runs > 0, Full(first)
       PROVE  CandidatesUpTo(after, first, IF k = i THEN pos ELSE Len(Items(first)))
  <2>1. CandidatesUpTo(before, first, IF k = i THEN pos - 1 ELSE Len(Items(first)))
    BY <1>4, <1>7, <1>14 DEF Gathering
  <2>2. CASE k = i
    <3>1. CandidatesUpTo(before, b, pos - 1) /\ Full(b)
      BY <1>5, <1>14, <2>1, <2>2
    <3>2. CandidatesUpTo(IF IsEffect(b, pos) /\ Items(b)[pos] \notin SeqRange(before)
                         THEN Append(before, Items(b)[pos]) ELSE before, b, pos)
      BY <1>2, <1>3, <3>1, NextCandidate
    <3> QED
      BY <1>1, <1>5, <1>7, <1>8, <2>2, <3>2
  <2>3. CASE k # i
    BY <1>6, <1>7, <1>8, <1>14, <2>1, <2>3
  <2> QED
    BY <2>2, <2>3
<1>15. ASSUME runs > 0, OnSignature(first), NEW n \in 1..Len(after)
       PROVE  after[n].simple /\ Len(after[n].stmts) = 1
  <2>1. \A m \in 1..Len(before) : before[m].simple /\ Len(before[m].stmts) = 1
    BY <1>4, <1>7, <1>15 DEF Gathering
  <2>2. CASE k = i
    <3>1. item.simple /\ Len(item.stmts) = 1
      BY <1>2, <1>3, <1>5, <1>15, <2>2, InlineItems DEF OnSignature
    <3> QED
      BY <1>10, <2>1, <3>1
  <2>3. CASE k # i
    BY <1>6, <1>7, <1>8, <1>15, <2>1, <2>3
  <2> QED
    BY <2>2, <2>3
<1>16. Gathering'
  <2>1. Statement' = Statement /\ pos' - 1 = pos /\ k' = k /\ i' = i /\ j' = j /\ runs' = runs
    BY <1>1, <1>2 DEF Statement
  <2>2. j > i + 1
    BY <1>4 DEF Gathering
  <2> QED
    BY <1>8, <1>11, <1>12, <1>13, <1>14, <1>15, <2>1, <2>2 DEF Gathering
<1>17. MadeOf(out, StatementsHere, i - 1)'
  BY <1>1 DEF RerunInv, MadeOf, StatementsHere
<1> QED
  BY <1>1, <1>16, <1>17, RerunWithin

LEMMA RerunNextOverload ==
    ASSUME StubInv, RerunInv, NextOverload
    PROVE  RerunInv'
<1>1. /\ pc = "collect" /\ k < j /\ pos > Len(Items(StatementsHere[k].body)) /\ k' = k + 1 /\ pos' = 1
      /\ UNCHANGED <<runs, stub, tree, todo, scope, pc, i, j, all_effects, out>>
  BY DEF NextOverload, StatementsHere
<1>2. /\ i \in Nat /\ k \in Nat /\ pos \in Nat /\ i <= k
      /\ Len(Items(StatementsHere[k].body)) \in Nat /\ pos <= Len(Items(StatementsHere[k].body)) + 1
  BY <1>1, CollectFacts
<1>3. k' # i /\ (k = i => pos - 1 = Len(Items(Statement.body)))
  BY <1>1, <1>2 DEF Statement, StatementsHere
<1>4. Gathering'
  <2>1. Gathering /\ Statement' = Statement
    BY <1>1 DEF RerunInv, Statement
  <2>2. (IF k = i THEN pos - 1 ELSE Len(Items(Statement.body))) = Len(Items(Statement.body))
    BY <1>3
  <2> QED
    BY <1>1, <1>3, <2>1, <2>2 DEF Gathering
<1>5. MadeOf(out, StatementsHere, i - 1)'
  BY <1>1 DEF RerunInv, MadeOf, StatementsHere
<1> QED
  BY <1>1, <1>4, <1>5, RerunWithin

\* What becomes of the first overload of a group.
LEMMA FirstOfGroup ==
    ASSUME StubInv, RerunInv, pc = "collect", k = j,
           NEW b \in Bodies, b = Statement.body, NEW m, m = MergedBody(all_effects, b)
    PROVE  /\ Settled(m) \/ (runs + 1 = 1 /\ OnSignature(m))
           /\ runs > 1 => m = b
<1>1. /\ runs \in Nat /\ i \in Nat /\ i > 0 /\ j \in Nat /\ i < j /\ j <= Len(StatementsHere) + 1
      /\ Len(StatementsHere) \in Nat /\ all_effects \in Seq(Lines) /\ InOneGroup
      /\ Statement = StatementsHere[i]
  BY CollectFacts DEF TypeOK, Statement, StatementsHere
<1>2. Gathering
  BY DEF RerunInv
<1>3. Distinct(all_effects) /\ (\A n \in 1..Len(all_effects) : ~IsEllipsisLine(all_effects[n])) /\ j > i + 1
  BY <1>2 DEF Gathering
<1>4. Settled(m) \/ OnSignature(m)
  BY <1>1, <1>3, MergedIsSettled
<1>5. ASSUME runs > 0 PROVE Settled(b) \/ (runs = 1 /\ OnSignature(b))
  <2>1. Shaped(StatementsHere, StatementsHere, Len(StatementsHere), runs)
    BY <1>5, HereShaped
  <2>2. i \in 1..Len(StatementsHere) /\ i < Len(StatementsHere) /\ i \in i..(j - 1) /\ i + 1 \in i..(j - 1)
    BY <1>1, <1>3
  <2>3. SameGroup(StatementsHere[i], StatementsHere[i + 1])
    BY <1>1, <2>2 DEF InOneGroup, SameGroup
  <2>4. ~Follows(StatementsHere, i)
    BY <1>1, <2>2 DEF StubInv, InScope, AtGroupStart, Follows
  <2>5. Leads(StatementsHere, i)
    BY <2>2, <2>3, <2>4 DEF Leads
  <2> QED
    BY <1>1, <2>1, <2>2, <2>5 DEF Shaped
<1>6. ASSUME runs > 0, Blank(b) PROVE m = b /\ Settled(m)
  <2>1. all_effects = <<>>
    BY <1>2, <1>6 DEF Gathering
  <2>2. m = b
    BY <1>6, <2>1, MergedNothing DEF Blank
  <2> QED
    BY <1>6, <2>2 DEF Settled
<1>7. ASSUME runs > 0, Full(b) PROVE m = b /\ Settled(m)
  <2>1. CandidatesUpTo(all_effects, b, Len(Items(b)))
    <3>1. k # i
      BY <1>1
    <3> QED
      BY <1>2, <1>7, <3>1 DEF Gathering
  <2>2. m = b
    BY <1>1, <1>7, <2>1 DEF Full
  <2> QED
    BY <1>7, <2>2 DEF Settled
<1>8. ASSUME runs > 0, OnSignature(b) PROVE Settled(m)
  <2>1. \A n \in 1..Len(all_effects) : all_effects[n].simple /\ Len(all_effects[n].stmts) = 1
    BY <1>2, <1>8 DEF Gathering
  <2> QED
    BY <1>1, <1>3, <2>1, MergedIsSettled
<1>9. CASE runs = 0
  BY <1>4, <1>9
<1>10. CASE runs > 0
  BY <1>1, <1>5, <1>6, <1>7, <1>8, <1>10 DEF Settled
<1> QED
  BY <1>1, <1>9, <1>10

LEMMA SameBody ==
    ASSUME NEW stmt \in Statements
    PROVE  WithBody(stmt, stmt.body) = stmt
BY DEF Statements, WithBody

LEMMA RerunEmit ==
    ASSUME StubInv, RerunInv, EmitGroup
    PROVE  RerunInv'
<1>1. /\ pc = "collect" /\ k = j /\ out' = out \o GroupOf(StatementsHere, i, j, all_effects)
      /\ i' = j /\ pc' = "scan"
      /\ UNCHANGED <<runs, stub, tree, todo, scope>>
  BY DEF EmitGroup, GroupOf, StatementsHere
<1>2. /\ TypeOK /\ InScope /\ InOneGroup
      /\ i \in Nat /\ i > 0 /\ j \in Nat /\ i < j /\ j <= Len(StatementsHere) + 1
      /\ Len(StatementsHere) \in Nat /\ StatementsHere \in Seq(Statements) /\ out \in Seq(Statements)
      /\ all_effects \in Seq(Lines)
      /\ \A n \in i..(j - 1) : n \in 1..Len(StatementsHere) /\ StatementsHere[n].body \in Bodies
  BY <1>1, CollectFacts
<1>3. runs \in Nat /\ Len(out) = i - 1 /\ Statement = StatementsHere[i]
  BY <1>2 DEF TypeOK, InScope, Keeping, Statement, StatementsHere
<1>4. PICK group : group = GroupOf(StatementsHere, i, j, all_effects)
  OBVIOUS
<1>5. ASSUME NEW n \in 1..(j - i)
      PROVE  /\ i + n - 1 \in i..(j - 1)
             /\ group[n] = WithBody(StatementsHere[i + n - 1],
                                    IF n = 1 THEN MergedBody(all_effects, StatementsHere[i + n - 1].body)
                                    ELSE EllipsisBody(StatementsHere[i + n - 1].body))
             /\ group[n] \in Statements
  <2>1. i + n - 1 \in i..(j - 1)
    BY <1>2
  <2>2. StatementsHere[i + n - 1] \in Statements /\ StatementsHere[i + n - 1].body \in Bodies
    BY <1>2, <2>1
  <2>3. group[n] = WithBody(StatementsHere[i + n - 1],
                            IF n = 1 THEN MergedBody(all_effects, StatementsHere[i + n - 1].body)
                            ELSE EllipsisBody(StatementsHere[i + n - 1].body))
    BY <1>4 DEF GroupOf
  <2>4. /\ MergedBody(all_effects, StatementsHere[i + n - 1].body) \in Bodies
        /\ EllipsisBody(StatementsHere[i + n - 1].body) \in Bodies
    BY <1>2, <2>2, MergedBodyFacts, EllipsisBodyFacts
  <2>5. group[n] \in Statements
    BY <2>2, <2>3, <2>4 DEF WithBody, Statements
  <2> QED
    BY <2>1, <2>3, <2>5
<1>6. group \in Seq(Statements) /\ Len(group) = j - i
  <2>1. group = [n \in 1..(j - i) |-> group[n]] /\ j - i \in Nat
    BY <1>2, <1>4 DEF GroupOf
  <2> QED
    BY <1>5, <2>1
<1>7. PICK wider : wider = out'
  OBVIOUS
<1>8. /\ \A n \in 1..(i - 1) : wider[n] = out[n]
      /\ \A n \in i..(j - 1) : wider[n] = group[n - i + 1]
  <2>1. \A n \in 1..(Len(out) + Len(group)) :
            (out \o group)[n] = IF n <= Len(out) THEN out[n] ELSE group[n - Len(out)]
    BY <1>2, <1>6, ConcatProperties
  <2>2. Len(out) + Len(group) = j - 1
    BY <1>2, <1>3, <1>6
  <2>3. ASSUME NEW n \in 1..(i - 1) PROVE wider[n] = out[n]
    <3>1. n \in 1..(Len(out) + Len(group)) /\ n <= Len(out)
      BY <1>2, <1>3, <2>2
    <3> QED
      BY <1>1, <1>4, <1>7, <2>1, <3>1
  <2>4. ASSUME NEW n \in i..(j - 1) PROVE wider[n] = group[n - i + 1]
    <3>1. n \in 1..(Len(out) + Len(group)) /\ ~(n <= Len(out)) /\ n - Len(out) = n - i + 1
      BY <1>2, <1>3, <2>2
    <3> QED
      BY <1>1, <1>4, <1>7, <2>1, <3>1
  <2> QED
    BY <2>3, <2>4
<1>9. ASSUME NEW n \in i..(j - 1)
      PROVE  /\ wider[n] = WithBody(StatementsHere[n],
                                    IF n = i THEN MergedBody(all_effects, StatementsHere[n].body)
                                    ELSE EllipsisBody(StatementsHere[n].body))
             /\ StatementsHere[n] \in Statements
  <2>1. PICK p \in 1..(j - i) : p = n - i + 1
    BY <1>2
  <2>2. i + p - 1 = n /\ (p = 1 <=> n = i)
    BY <1>2, <2>1
  <2>3. wider[n] = group[p]
    BY <1>8, <2>1
  <2>4. group[p] = WithBody(StatementsHere[i + p - 1],
                            IF p = 1 THEN MergedBody(all_effects, StatementsHere[i + p - 1].body)
                            ELSE EllipsisBody(StatementsHere[i + p - 1].body))
    BY <1>5
  <2>5. StatementsHere[n] \in Statements
    BY <1>2
  <2> QED
    BY <2>2, <2>3, <2>4, <2>5
<1>10. ASSUME NEW n \in 1..(j - 1), n > i - 1
       PROVE  /\ Follows(StatementsHere, n) => Blank(wider[n].body)
              /\ Leads(StatementsHere, n) => Settled(wider[n].body) \/ (runs + 1 = 1 /\ OnSignature(wider[n].body))
              /\ runs > 1 => wider[n] = StatementsHere[n]
  <2>1. n \in i..(j - 1)
    BY <1>2, <1>10
  <2>2. PICK body \in Bodies : body = StatementsHere[n].body
    BY <1>2, <2>1
  <2>3. CASE n = i
    <3>1. ~Follows(StatementsHere, n)
      BY <1>2, <2>1, <2>3 DEF InScope, AtGroupStart, Follows
    <3>2. PICK m : m = MergedBody(all_effects, body)
      OBVIOUS
    <3>3. /\ Settled(m) \/ (runs + 1 = 1 /\ OnSignature(m))
          /\ runs > 1 => m = body
      BY <1>1, <1>3, <2>2, <2>3, <3>2, FirstOfGroup
    <3>4. wider[n] = WithBody(StatementsHere[n], m)
      BY <1>9, <2>1, <2>2, <2>3, <3>2
    <3>5. wider[n].body = m
      BY <3>4 DEF WithBody
    <3>6. runs > 1 => wider[n] = StatementsHere[n]
      BY <1>9, <2>1, <2>2, <3>3, <3>4, SameBody
    <3> QED
      BY <3>1, <3>3, <3>5, <3>6
  <2>4. CASE n # i
    <3>1. n > i
      BY <1>2, <2>1, <2>4
    <3>2. Follows(StatementsHere, n)
      BY <1>1, <2>1, <3>1, MembersFollow
    <3>3. ~Leads(StatementsHere, n)
      BY <3>2 DEF Leads
    <3>4. wider[n] = WithBody(StatementsHere[n], EllipsisBody(body))
      BY <1>9, <2>1, <2>2, <2>4
    <3>5. wider[n].body = EllipsisBody(body)
      BY <3>4 DEF WithBody
    <3>6. Blank(wider[n].body)
      BY <2>2, <3>5, EllipsisIsBlank
    <3>7. ASSUME runs > 1 PROVE wider[n] = StatementsHere[n]
      <4>1. Blank(body)
        BY <1>1, <1>3, <2>1, <2>2, <3>1, <3>7, MembersBlank
      <4>2. EllipsisBody(body) = StatementsHere[n].body
        BY <2>2, <4>1 DEF Blank
      <4> QED
        BY <1>9, <2>1, <3>4, <4>2, SameBody
    <3> QED
      BY <3>3, <3>6, <3>7
  <2> QED
    BY <2>3, <2>4
<1>11. MadeOf(wider, StatementsHere, j - 1)
  <2>1. MadeOf(out, StatementsHere, i - 1)
    BY <1>1 DEF RerunInv
  <2>2. PICK p \in Nat, q \in Nat : p = i - 1 /\ q = j - 1
    <3>1. i - 1 \in Nat /\ j - 1 \in Nat
      BY <1>2
    <3> QED
      BY <3>1
  <2>3. MadeOf(out, StatementsHere, p) /\ \A n \in 1..p : wider[n] = out[n]
    BY <1>8, <2>1, <2>2
  <2>4. \A n \in 1..q : n > p =>
            /\ Follows(StatementsHere, n) => Blank(wider[n].body)
            /\ Leads(StatementsHere, n) => Settled(wider[n].body) \/ (runs + 1 = 1 /\ OnSignature(wider[n].body))
            /\ runs > 1 => wider[n] = StatementsHere[n]
    BY <1>10, <2>2
  <2>5. MadeOf(wider, StatementsHere, q)
    BY <1>2, <2>3, <2>4, MadeFurther
  <2> QED
    BY <2>2, <2>5
<1>12. MadeOf(out, StatementsHere, i - 1)'
  <2>1. StatementsHere' = StatementsHere /\ i' - 1 = j - 1 /\ runs' = runs
    BY <1>1 DEF StatementsHere
  <2> QED
    BY <1>7, <1>11, <2>1 DEF MadeOf
<1> QED
  BY <1>1, <1>12, RerunWithin

LEMMA RerunLeave ==
    ASSUME StubInv, RerunInv, LeaveScope
    PROVE  RerunInv'
<1>1. /\ pc = "scan" /\ i > Len(StatementsHere) /\ tree' = [tree EXCEPT ![scope] = out] /\ pc' = "enter"
      /\ UNCHANGED <<runs, stub, todo, scope>>
  BY DEF LeaveScope, StatementsHere
<1>2. TypeOK /\ StatementsHere = stub[scope] /\ i <= Len(StatementsHere) + 1
  BY <1>1 DEF StubInv, InScope
<1>3. i - 1 = Len(StatementsHere)
  BY <1>1, <1>2, HereFacts
<1>4. tree'[scope] = out /\ \A s \in Scopes \ {scope} : tree'[s] = tree[s]
  BY <1>1, <1>2 DEF TypeOK
<1>5. ASSUME NEW s \in Scopes \ todo PROVE MadeOf(tree'[s], stub[s], Len(stub[s]))
  <2>1. CASE s = scope
    BY <1>1, <1>2, <1>3, <1>4, <2>1 DEF RerunInv
  <2>2. CASE s # scope
    BY <1>4, <2>2 DEF RerunInv
  <2> QED
    BY <2>1, <2>2
<1> QED
  BY <1>1, <1>5 DEF RerunInv, MadeOf

\* The groups of the new file are those of the old one.
LEMMA SameGroups ==
    ASSUME NEW new, NEW old \in Seq(Statements), NEW r, Keeping(new, old, Len(old)),
           Shaped(new, old, Len(old), r)
    PROVE  Shaped(new, new, Len(new), r)
<1>1. /\ Len(new) = Len(old) /\ Len(old) \in Nat
      /\ \A n \in 1..Len(old) : new[n].kind = old[n].kind /\ new[n].name = old[n].name
  BY DEF Keeping
<1>2. \A m, n \in 1..Len(old) : SameGroup(new[m], new[n]) <=> SameGroup(old[m], old[n])
  BY <1>1 DEF SameGroup, IsOverload
<1>3. ASSUME NEW n \in 1..Len(old)
      PROVE  (Follows(new, n) <=> Follows(old, n)) /\ (Leads(new, n) <=> Leads(old, n))
  <2>1. Follows(new, n) <=> Follows(old, n)
    <3>1. n > 1 => n - 1 \in 1..Len(old)
      BY <1>1
    <3> QED
      BY <1>2, <3>1 DEF Follows
  <2>2. n < Len(old) => n + 1 \in 1..Len(old)
    BY <1>1
  <2> QED
    BY <1>1, <1>2, <2>1, <2>2 DEF Leads
<1> QED
  BY <1>1, <1>3 DEF Shaped

LEMMA RerunAgain ==
    ASSUME StubInv, RerunInv, RunAgain
    PROVE  RerunInv'
<1>1. /\ Finished /\ pc = "enter" /\ todo = {} /\ runs' = runs + 1 /\ stub' = tree /\ todo' = Scopes
      /\ UNCHANGED <<tree, pc>>
  BY DEF RunAgain, Finished
<1>2. ASSUME NEW s \in Scopes PROVE Shaped(tree[s], tree[s], Len(tree[s]), runs + 1)
  <2>1. MadeOf(tree[s], stub[s], Len(stub[s])) /\ Keeping(tree[s], stub[s], Len(stub[s]))
    BY <1>1, AllKept DEF RerunInv
  <2>2. stub[s] \in Seq(Statements)
    BY DEF StubInv, TypeOK
  <2> QED
    BY <2>1, <2>2, SameGroups DEF MadeOf
<1> QED
  BY <1>1, <1>2 DEF RerunInv

LEMMA RerunStep == StubInv /\ StubInv' /\ RerunInv /\ [Next]_vars => RerunInv'
<1> SUFFICES ASSUME StubInv, StubInv', RerunInv, [Next]_vars PROVE RerunInv'
  OBVIOUS
<1>1. CASE UNCHANGED vars
  BY <1>1 DEF vars, RerunInv, Gathering, MadeOf, StatementsHere, Statement
<1> QED
  BY <1>1, RerunEnter, RerunCopy, RerunGroup, RerunClose, RerunCollect, RerunNextOverload, RerunEmit,
     RerunLeave, RerunAgain DEF Next, Done

LEMMA RerunInit == Init => RerunInv
BY DEF Init, RerunInv

\* A run on the output of two runs changes nothing, whatever the stub.
THEOREM RewritingSettles == Spec => []Settles
<1>1. StubInv /\ RerunInv => Settles
  <2> SUFFICES ASSUME StubInv, RerunInv, runs > 1, Finished PROVE tree = stub
    BY DEF Settles
  <2>1. tree \in [Scopes -> Seq(Statements)] /\ stub \in [Scopes -> Seq(Statements)]
    BY DEF StubInv, TypeOK
  <2>2. ASSUME NEW s \in Scopes PROVE tree[s] = stub[s]
    <3>1. MadeOf(tree[s], stub[s], Len(stub[s])) /\ Keeping(tree[s], stub[s], Len(stub[s]))
      BY AllKept DEF RerunInv, Finished
    <3>2. PICK new \in Seq(Statements), old \in Seq(Statements) : new = tree[s] /\ old = stub[s]
      BY <2>1
    <3>3. Len(new) = Len(old) /\ \A n \in 1..Len(old) : new[n] = old[n]
      BY <3>1, <3>2 DEF MadeOf, Keeping
    <3>4. new = old
      BY <3>3, SeqEqual
    <3> QED
      BY <3>2, <3>4
  <2> QED
    BY <2>1, <2>2
<1> QED
  BY <1>1, StubInvHolds, RerunInit, RerunStep, PTL DEF Spec

-----------------------------------------------------------------------------
(* The scripts over files.                                                  *)

\* The file holds the merged form of what it held when the run started.
Rewritten(f) == started[f] \in Parsable /\ disk[f] = Merged[started[f]]

\* How many files of the directory the run has behind it.
Behind == Len(SortedFiles) - Len(pending)

\* A run over the directory without an error so far: the files behind it are
\* rewritten, those ahead untouched but for the one being written.
NoErrorYet ==
    /\ Len(pending) <= Len(SortedFiles)
    /\ \A n \in DOMAIN pending : pending[n] = SortedFiles[Behind + n]
    /\ \A n \in DOMAIN pending : pending[n] \in InWrite \/ disk[pending[n]] = started[pending[n]]
    /\ \A n \in 1..Behind : SortedFiles[n] \in InWrite \/ Rewritten(SortedFiles[n])
    /\ at \in {"open", "write"} =>
          started[Head(pending)] \in Parsable /\ result = Merged[started[Head(pending)]]

\* The text at hand is one that merging makes of the file's original text.
Harmless == result \in Forms(original[Head(pending)])

\* A file that is being rewritten for the worse was damaged before.
DamagePaid ==
    /\ Cardinality(Damaged \ InWrite) <= faults
    /\ at = "open" => Head(pending) \in Damaged \/ Harmless
    /\ at = "write" => Harmless \/ Cardinality(Damaged \ InWrite) < faults

ScriptInv ==
    /\ ScriptTypeOK
    /\ at \in Running => exit = NoExit
    /\ StatusZeroMeansMerged
    /\ at \in Running /\ script = "normalize" /\ error_count = 0 => NoErrorYet
    /\ DamagePaid

LEMMA FewerDamaged ==
    ASSUME NEW A \in SUBSET Files, NEW B \in SUBSET Files, NEW h
    PROVE  /\ Cardinality(A) \in Nat /\ Cardinality(B) \in Nat
           /\ B \subseteq A => Cardinality(B) <= Cardinality(A)
           /\ B \subseteq A \cup {h} => Cardinality(B) <= Cardinality(A) + 1
           /\ h \in A => Cardinality(A \ {h}) < Cardinality(A)
<1>1. IsFiniteSet(A) /\ IsFiniteSet(B)
  BY ListsAssumption, FS_Subset
<1>2. Cardinality(A) \in Nat /\ Cardinality(B) \in Nat
  BY <1>1, FS_CardinalityType
<1>3. B \subseteq A => Cardinality(B) <= Cardinality(A)
  BY <1>1, FS_Subset
<1>4. IsFiniteSet(A \cup {h}) /\ Cardinality(A \cup {h}) <= Cardinality(A) + 1
  <2>1. /\ IsFiniteSet(A \cup {h})
        /\ \/ Cardinality(A \cup {h}) = Cardinality(A)
           \/ Cardinality(A \cup {h}) = Cardinality(A) + 1
    BY <1>1, FS_AddElement, Zenon
  <2> QED
    BY <1>2, <2>1
<1>5. B \subseteq A \cup {h} => Cardinality(B) <= Cardinality(A) + 1
  <2>1. HAVE B \subseteq A \cup {h}
  <2>2. Cardinality(B) <= Cardinality(A \cup {h})
    BY <1>4, <2>1, FS_Subset
  <2>3. Cardinality(A \cup {h}) \in Nat
    BY <1>4, FS_CardinalityType
  <2> QED
    BY <1>2, <1>4, <2>2, <2>3
<1>6. h \in A => Cardinality(A \ {h}) < Cardinality(A)
  <2>1. h \in A => Cardinality(A \ {h}) = Cardinality(A) - 1
    BY <1>1, FS_RemoveElement, Zenon
  <2> QED
    BY <1>2, <2>1
<1> QED
  BY <1>2, <1>3, <1>5, <1>6

\* The file at hand.
LEMMA HeadFacts ==
    ASSUME ScriptTypeOK
    PROVE  /\ Len(pending) \in Nat /\ DOMAIN pending = 1..Len(pending)
           /\ Len(SortedFiles) \in Nat /\ DOMAIN SortedFiles = 1..Len(SortedFiles)
           /\ \A n \in DOMAIN SortedFiles : SortedFiles[n] \in Files
           /\ at \in {"merge", "open", "write"} => pending # <<>>
           /\ pending # <<>> =>
                 /\ Head(pending) \in Files /\ Head(pending) = pending[1] /\ Len(pending) > 0
                 /\ Tail(pending) \in Seq(Files) /\ Len(Tail(pending)) = Len(pending) - 1
                 /\ DOMAIN Tail(pending) = 1..(Len(pending) - 1)
                 /\ \A n \in 1..(Len(pending) - 1) : Tail(pending)[n] = pending[n + 1]
<1>1. pending \in Seq(Files) /\ SortedFiles \in Seq(Files)
  BY ListsAssumption DEF ScriptTypeOK
<1>2. at \in {"merge", "open", "write"} => pending # <<>>
  BY DEF ScriptTypeOK, Running
<1> QED
  BY <1>1, <1>2

\* Where Merged leads.
LEMMA MergedFacts ==
    /\ Parsable \subseteq Texts /\ Empty \in Texts /\ Empty \in Parsable
    /\ \A t \in Parsable : Merged[t] \in Parsable /\ Merged[t] \in Texts
    /\ \A t \in Texts : Prefixes[t] \subseteq Texts
BY TextsAssumption

\* A text is one of its forms, and merging leads from form to form.
LEMMA FormsFacts ==
    ASSUME NEW text \in Texts
    PROVE  /\ text \in Forms(text)
           /\ \A u \in Forms(text) \cap Parsable : Merged[u] \in Forms(text)
<1>1. text \in Forms(text)
  BY DEF Forms
<1>2. ASSUME NEW u \in Forms(text) \cap Parsable
      PROVE  Merged[u] \in Forms(text)
  <2>1. Merged[u] \in Texts
    BY MergedFacts
  <2>2. ASSUME NEW S \in SUBSET Texts, text \in S, \A t \in S \cap Parsable : Merged[t] \in S
        PROVE  Merged[u] \in S
    <3>1. u \in S
      BY <2>2 DEF Forms
    <3> QED
      BY <2>2, <3>1
  <2> QED
    BY <2>1, <2>2 DEF Forms
<1> QED
  BY <1>1, <1>2

-----------------------------------------------------------------------------

LEMMA ScriptInitInv == ScriptInit => ScriptInv
<1> HAVE ScriptInit
<1>1. ScriptTypeOK
  BY MergedFacts, FaultsAssumption DEF ScriptInit, ScriptTypeOK, Running, NoExit
<1>2. at \notin Running /\ exit # 0 /\ at # "open" /\ at # "write"
  BY DEF ScriptInit, Running, NoExit
<1>3. Damaged \ InWrite = {} /\ faults = 0
  BY FormsFacts DEF ScriptInit, Damaged
<1>4. Cardinality(Damaged \ InWrite) <= faults
  BY <1>3, FS_EmptySet
<1> QED
  BY <1>1, <1>2, <1>4 DEF ScriptInv, StatusZeroMeansMerged, DamagePaid

LEMMA ScriptTypeStep == ScriptTypeOK /\ [ScriptNext]_scriptVars => ScriptTypeOK'
<1> SUFFICES ASSUME ScriptTypeOK, [ScriptNext]_scriptVars PROVE ScriptTypeOK'
  OBVIOUS
<1>0. /\ at \in {"merge", "open", "write"} => pending # <<>>
      /\ pending # <<>> => Head(pending) \in Files /\ Tail(pending) \in Seq(Files)
  BY HeadFacts
<1> USE MergedFacts, FaultsAssumption
<1>1. CASE MissingDirectory
  BY <1>1 DEF MissingDirectory, ScriptTypeOK, Running
<1>f. faults < MaxFaults => faults + 1 \in 0..MaxFaults
  BY DEF ScriptTypeOK
<1>c. error_count + 1 \in Nat /\ success_count + 1 \in Nat
  BY DEF ScriptTypeOK
<1>2. ASSUME NEW s \in {"normalize", "merge"}, NEW list \in Seq(Files), Start(s, list)
      PROVE  ScriptTypeOK'
  BY <1>2 DEF Start, ScriptTypeOK, Running
<1>3. CASE Read
  BY <1>0, <1>c, <1>f, <1>3 DEF Read, CountError, NextFile, ScriptTypeOK, Running
<1>4. CASE Merge
  <2>1. /\ disk[Head(pending)] \in Texts /\ pending # <<>>
        /\ UNCHANGED <<disk, script, success_count, exit, invocations, faults, started, original>>
    BY <1>0, <1>4 DEF Merge, ScriptTypeOK
  <2>2. CASE disk[Head(pending)] \in Parsable
    <3>1. result' \in Parsable /\ at' = "open" /\ UNCHANGED <<pending, error_count>>
      BY <1>4, <2>2 DEF Merge
    <3> QED
      BY <2>1, <3>1 DEF ScriptTypeOK, Running
  <2>3. CASE disk[Head(pending)] \notin Parsable
    <3>1. /\ result' = result /\ error_count' = error_count + 1
          /\ pending' = Tail(pending) /\ at' = "next"
      BY <1>4, <2>3 DEF Merge, CountError, NextFile
    <3> QED
      BY <1>0, <1>c, <2>1, <3>1 DEF ScriptTypeOK, Running
  <2> QED
    BY <2>2, <2>3
<1>5. CASE Open
  BY <1>0, <1>c, <1>f, <1>5 DEF Open, CountError, NextFile, ScriptTypeOK, Running
<1>6. CASE Write
  BY <1>0, <1>c, <1>f, <1>6 DEF Write, CountError, NextFile, ScriptTypeOK, Running
<1>7. CASE Exit
  BY <1>7 DEF Exit, ScriptTypeOK, Running
<1>8. CASE Flush
  BY <1>0, <1>8 DEF Flush, ScriptTypeOK, Running
<1>9. CASE Kill
  BY <1>9 DEF Kill, ScriptTypeOK, Running
<1>10. CASE UNCHANGED scriptVars
  BY <1>10 DEF scriptVars, ScriptTypeOK
<1>11. ASSUME NEW list \in ArgLists, Start("merge", list)
       PROVE  ScriptTypeOK'
  BY <1>2, <1>11, ListsAssumption
<1>12. CASE Start("normalize", SortedFiles)
  BY <1>2, <1>12, ListsAssumption
<1> QED
  BY <1>1, <1>3, <1>4, <1>5, <1>6, <1>7, <1>8, <1>9, <1>10, <1>11, <1>12
     DEF ScriptNext, ScriptStep, ScriptDone

\* Steps that touch no text and come from and lead to no rewriting.
LEMMA DamageUntouched ==
    ASSUME ScriptTypeOK, DamagePaid, UNCHANGED <<disk, original>>, faults' \in Nat, faults <= faults',
           at \notin {"open", "write"}, at' \notin {"open", "write"}
    PROVE  DamagePaid'
<1>1. Damaged' = Damaged /\ InWrite' = {} /\ InWrite = {}
  BY DEF Damaged, InWrite
<1>2. Cardinality(Damaged) \in Nat /\ Cardinality(Damaged) <= faults /\ faults \in Nat
  <2>1. Damaged \in SUBSET Files
    BY DEF Damaged
  <2>2. Cardinality(Damaged) \in Nat
    BY <2>1, FewerDamaged
  <2>3. faults \in Nat
    BY FaultsAssumption DEF ScriptTypeOK
  <2>4. Damaged \ InWrite = Damaged
    BY <1>1
  <2> QED
    BY <2>2, <2>3, <2>4 DEF DamagePaid
<1>3. (Damaged \ InWrite)' = Damaged
  BY <1>1
<1>4. Cardinality(Damaged) <= faults'
  BY <1>2
<1> QED
  BY <1>3, <1>4 DEF DamagePaid

LEMMA DamageStep ==
    ASSUME ScriptTypeOK, ScriptTypeOK', DamagePaid, [ScriptNext]_scriptVars
    PROVE  DamagePaid'
<1> DEFINE h == Head(pending)
<1>0. /\ Damaged \in SUBSET Files /\ Damaged' \in SUBSET Files
      /\ at = "write" => InWrite = {h}
      /\ at # "write" => InWrite = {}
      /\ at' = "write" => InWrite' = {Head(pending')}
      /\ at' # "write" => InWrite' = {}
      /\ at \in {"merge", "open", "write"} => h \in Files
      /\ faults \in Nat /\ faults' \in Nat
  <2>1. at \in {"merge", "open", "write"} => h \in Files
    BY HeadFacts
  <2>2. faults \in Nat /\ faults' \in Nat
    BY FaultsAssumption DEF ScriptTypeOK
  <2> QED
    BY <2>1, <2>2 DEF Damaged, InWrite
<1>1. CASE MissingDirectory
  BY <1>0, <1>1, DamageUntouched DEF MissingDirectory
<1>2. CASE \E s \in {"normalize", "merge"} : \E list : Start(s, list)
  BY <1>0, <1>2, DamageUntouched DEF Start
<1>3. CASE Read
  BY <1>0, <1>3, DamageUntouched DEF Read, CountError, NextFile
<1>4. CASE Merge
  <2>1. UNCHANGED <<disk, original, faults>> /\ at = "merge"
    BY <1>4 DEF Merge
  <2>2. CASE at' = "open"
    <3>1. disk[h] \in Parsable /\ result' = Merged[disk[h]] /\ UNCHANGED pending
      BY <1>4, <2>2 DEF Merge, CountError, NextFile
    <3>2. (h \in Damaged \/ disk[h] \in Forms(original[h])) /\ original[h] \in Texts
      BY <1>0, <2>1 DEF Damaged, ScriptTypeOK
    <3>3. h \in Damaged \/ result' \in Forms(original[h])
      BY <3>1, <3>2, FormsFacts
    <3>4. Damaged' = Damaged /\ Damaged \ InWrite = Damaged /\ (Damaged \ InWrite)' = Damaged
      BY <1>0, <2>1, <2>2 DEF Damaged
    <3>5. Head(pending') = h
      BY <3>1
    <3>6. h \in Damaged' \/ result' \in Forms(original'[h])
      BY <2>1, <3>3, <3>4
    <3> QED
      BY <2>1, <2>2, <3>4, <3>5, <3>6 DEF DamagePaid, Harmless
  <2>3. CASE at' # "open"
    <3>1. at' \notin {"open", "write"}
      BY <1>4, <2>3 DEF Merge, CountError, NextFile
    <3> QED
      BY <1>0, <2>1, <3>1, DamageUntouched
  <2> QED
    BY <2>2, <2>3
<1>5. CASE Open
  <2>1. at = "open" /\ UNCHANGED <<original, result>>
    BY <1>5 DEF Open
  <2>2. /\ Cardinality(Damaged) <= faults /\ (h \in Damaged \/ Harmless) /\ Cardinality(Damaged) \in Nat
        /\ Cardinality(Damaged \ {h}) \in Nat /\ Cardinality(Damaged \ {h}) <= Cardinality(Damaged)
        /\ h \in Damaged => Cardinality(Damaged \ {h}) < Cardinality(Damaged)
    <3>1. Damaged \ InWrite = Damaged /\ Damaged \ {h} \in SUBSET Files /\ Damaged \ {h} \subseteq Damaged
      BY <1>0, <2>1
    <3>2. Cardinality(Damaged) <= faults /\ (h \in Damaged \/ Harmless)
      BY <2>1, <3>1 DEF DamagePaid
    <3> QED
      BY <1>0, <3>1, <3>2, FewerDamaged
  <2>3. CASE at' = "write"
    <3>1. disk' = [disk EXCEPT ![h] = Empty] /\ UNCHANGED <<pending, faults>>
      BY <1>5, <2>3 DEF Open, CountError, NextFile
    <3>2. Head(pending') = h /\ InWrite' = {h}
      BY <1>0, <2>3, <3>1
    <3>3. Damaged' \ {h} = Damaged \ {h}
      BY <2>1, <3>1 DEF Damaged, ScriptTypeOK
    <3>4. (Damaged \ InWrite)' = Damaged \ {h}
      BY <3>2, <3>3
    <3>5. Cardinality(Damaged \ {h}) <= faults /\ (Harmless \/ Cardinality(Damaged \ {h}) < faults)
      BY <1>0, <2>2
    <3>6. Harmless' <=> Harmless
      BY <2>1, <3>1, <3>2 DEF Harmless
    <3> QED
      BY <2>3, <3>1, <3>4, <3>5, <3>6 DEF DamagePaid
  <2>4. CASE at' # "write"
    <3>1. disk' = disk /\ at' = "next" /\ faults' = faults + 1
      BY <1>5, <2>4 DEF Open, CountError, NextFile
    <3>2. (Damaged \ InWrite)' = Damaged
      BY <1>0, <2>1, <3>1 DEF Damaged
    <3>3. Cardinality(Damaged) <= faults'
      BY <1>0, <2>2, <3>1
    <3> QED
      BY <3>1, <3>2, <3>3 DEF DamagePaid
  <2> QED
    BY <2>3, <2>4
<1>6. ASSUME at = "write", UNCHANGED original, \A f \in Files \ {h} : disk'[f] = disk[f]
      PROVE  /\ Damaged' \ {h} = Damaged \ {h} /\ Damaged \ {h} \in SUBSET Files
             /\ Cardinality(Damaged \ {h}) \in Nat /\ Cardinality(Damaged \ {h}) <= faults
             /\ Harmless \/ Cardinality(Damaged \ {h}) < faults
             /\ Cardinality(Damaged') \in Nat /\ Cardinality(Damaged') <= Cardinality(Damaged \ {h}) + 1
             /\ h \notin Damaged' => Cardinality(Damaged') <= Cardinality(Damaged \ {h})
  <2>1. Damaged' \ {h} = Damaged \ {h} /\ Damaged \ {h} \in SUBSET Files
    BY <1>6 DEF Damaged
  <2>2. Cardinality(Damaged \ {h}) <= faults /\ (Harmless \/ Cardinality(Damaged \ {h}) < faults)
    BY <1>0, <1>6 DEF DamagePaid
  <2>3. Damaged' \subseteq (Damaged \ {h}) \cup {h} /\ (h \notin Damaged' => Damaged' \subseteq Damaged \ {h})
    BY <2>1
  <2>4. /\ Cardinality(Damaged \ {h}) \in Nat /\ Cardinality(Damaged') \in Nat
        /\ Cardinality(Damaged') <= Cardinality(Damaged \ {h}) + 1
        /\ h \notin Damaged' => Cardinality(Damaged') <= Cardinality(Damaged \ {h})
    BY <1>0, <2>1, <2>3, FewerDamaged
  <2> QED
    BY <2>1, <2>2, <2>4
<1>7. CASE Flush
  <2>1. /\ at = "write" /\ at' = "write" /\ UNCHANGED <<original, faults, result, pending>>
        /\ \A f \in Files \ {h} : disk'[f] = disk[f]
    BY <1>7 DEF Flush, ScriptTypeOK
  <2>2. (Damaged \ InWrite)' = Damaged \ {h}
    BY <1>0, <1>6, <2>1
  <2>3. Harmless' <=> Harmless
    BY <2>1 DEF Harmless
  <2>4. Cardinality(Damaged \ {h}) <= faults /\ (Harmless \/ Cardinality(Damaged \ {h}) < faults)
    BY <1>6, <2>1
  <2> QED
    BY <2>1, <2>2, <2>3, <2>4 DEF DamagePaid
<1>8. CASE Write
  <2>1. at = "write" /\ at' = "next" /\ UNCHANGED <<original, result>>
    BY <1>8 DEF Write, CountError, NextFile
  <2>2. (Damaged \ InWrite)' = Damaged'
    BY <1>0, <2>1
  <2>3. CASE faults' = faults
    <3>1. disk' = [disk EXCEPT ![h] = result]
      BY <1>0, <1>8, <2>3 DEF Write
    <3>2. disk'[h] = result /\ \A f \in Files \ {h} : disk'[f] = disk[f]
      BY <1>0, <2>1, <3>1 DEF ScriptTypeOK
    <3>3. Harmless => h \notin Damaged'
      BY <2>1, <3>2 DEF Harmless, Damaged
    <3>4. Cardinality(Damaged') <= faults'
      BY <1>0, <1>6, <2>1, <2>3, <3>2, <3>3
    <3> QED
      BY <2>1, <2>2, <3>4 DEF DamagePaid
  <2>4. CASE faults' = faults + 1
    <3>1. disk' = disk
      BY <1>0, <1>8, <2>4 DEF Write
    <3>2. Cardinality(Damaged') <= faults'
      BY <1>0, <1>6, <2>1, <2>4, <3>1
    <3> QED
      BY <2>1, <2>2, <3>2 DEF DamagePaid
  <2> QED
    BY <1>8, <2>3, <2>4 DEF Write
<1>9. CASE Exit
  BY <1>0, <1>9, DamageUntouched DEF Exit
<1>10. CASE Kill
  <2>1. at' = "idle" /\ faults' = faults + 1 /\ UNCHANGED <<disk, original>>
    BY <1>10 DEF Kill
  <2>2. (Damaged \ InWrite)' = Damaged'
    BY <1>0, <2>1
  <2>3. CASE at = "write"
    <3>1. Cardinality(Damaged') <= faults'
      BY <1>0, <1>6, <2>1, <2>3
    <3> QED
      BY <2>1, <2>2, <3>1 DEF DamagePaid
  <2>4. CASE at # "write"
    <3>1. Damaged' = Damaged /\ Damaged \ InWrite = Damaged
      BY <1>0, <2>1, <2>4 DEF Damaged
    <3>2. Cardinality(Damaged) \in Nat /\ Cardinality(Damaged) <= faults
      BY <1>0, <3>1, FewerDamaged DEF DamagePaid
    <3>3. Cardinality(Damaged') <= faults'
      BY <1>0, <2>1, <3>1, <3>2
    <3> QED
      BY <2>1, <2>2, <3>3 DEF DamagePaid
  <2> QED
    BY <2>3, <2>4
<1>11. CASE UNCHANGED scriptVars
  BY <1>11 DEF scriptVars, DamagePaid, Damaged, InWrite, Harmless
<1> QED
  BY <1>1, <1>2, <1>3, <1>4, <1>5, <1>7, <1>8, <1>9, <1>10, <1>11 DEF ScriptNext, ScriptStep, ScriptDone

\* The file at hand is the first pending one, and the next file leaves it behind.
LEMMA BehindFacts ==
    ASSUME ScriptTypeOK, NoErrorYet, pending # <<>>
    PROVE  /\ Behind \in Nat /\ Behind + 1 \in DOMAIN SortedFiles
           /\ SortedFiles[Behind + 1] = Head(pending) /\ Head(pending) \in Files
           /\ Len(Tail(pending)) <= Len(SortedFiles)
           /\ Len(SortedFiles) - Len(Tail(pending)) = Behind + 1
           /\ \A n \in DOMAIN Tail(pending) : Tail(pending)[n] = SortedFiles[Behind + 1 + n]
<1>1. /\ Len(pending) \in Nat /\ Len(pending) > 0 /\ DOMAIN pending = 1..Len(pending)
      /\ Len(SortedFiles) \in Nat /\ DOMAIN SortedFiles = 1..Len(SortedFiles)
      /\ Head(pending) \in Files /\ Head(pending) = pending[1]
      /\ Len(Tail(pending)) = Len(pending) - 1 /\ DOMAIN Tail(pending) = 1..(Len(pending) - 1)
      /\ \A n \in 1..(Len(pending) - 1) : Tail(pending)[n] = pending[n + 1]
  BY HeadFacts
<1>2. Len(pending) <= Len(SortedFiles) /\ \A n \in DOMAIN pending : pending[n] = SortedFiles[Behind + n]
  BY DEF NoErrorYet
<1>3. Behind \in Nat /\ Behind + 1 \in 1..Len(SortedFiles) /\ Behind = Len(SortedFiles) - Len(pending)
  BY <1>1, <1>2 DEF Behind
<1>4. 1 \in DOMAIN pending
  BY <1>1
<1>5. SortedFiles[Behind + 1] = Head(pending)
  BY <1>1, <1>2, <1>4
<1>6. ASSUME NEW n \in DOMAIN Tail(pending) PROVE Tail(pending)[n] = SortedFiles[Behind + 1 + n]
  <2>1. n \in 1..(Len(pending) - 1) /\ n + 1 \in DOMAIN pending /\ Behind + (n + 1) = Behind + 1 + n
    BY <1>1, <1>3, <1>6
  <2>2. Tail(pending)[n] = pending[n + 1]
    BY <1>1, <2>1
  <2>3. pending[n + 1] = SortedFiles[Behind + (n + 1)]
    BY <1>2, <2>1
  <2> QED
    BY <2>1, <2>2, <2>3
<1>7. Len(Tail(pending)) <= Len(SortedFiles) /\ Len(SortedFiles) - Len(Tail(pending)) = Behind + 1
  BY <1>1, <1>2, <1>3
<1> QED
  BY <1>1, <1>3, <1>5, <1>6, <1>7

LEMMA NoErrorStart ==
    ASSUME ScriptTypeOK, Start("normalize", SortedFiles), at' \in Running
    PROVE  NoErrorYet'
<1>1. pending' = SortedFiles /\ started' = disk /\ disk' = disk /\ at' = "next"
  BY DEF Start, Running
<1>2. Len(SortedFiles) \in Nat /\ DOMAIN SortedFiles = 1..Len(SortedFiles)
  BY HeadFacts
<1>3. Behind' = 0
  BY <1>1, <1>2 DEF Behind
<1>4. Len(pending') <= Len(SortedFiles) /\ \A n \in DOMAIN pending' : pending'[n] = SortedFiles[0 + n]
  BY <1>1, <1>2
<1>5. \A n \in DOMAIN pending' : disk'[pending'[n]] = started'[pending'[n]]
  BY <1>1
<1>6. \A n \in 1..0 : FALSE
  OBVIOUS
<1> QED
  BY <1>1, <1>3, <1>4, <1>5, <1>6 DEF NoErrorYet

LEMMA NoErrorStep ==
    ASSUME ScriptTypeOK, NoErrorYet, Read \/ Merge \/ Open \/ Flush \/ Write, error_count' = error_count
    PROVE  NoErrorYet'
<1> PICK h : h = Head(pending)
  OBVIOUS
<1>0. /\ error_count # error_count + 1 /\ UNCHANGED started
      /\ at \in {"merge", "open", "write"} => h \in Files /\ pending # <<>>
  <2>1. error_count \in Nat
    BY DEF ScriptTypeOK
  <2>2. at \in {"merge", "open", "write"} => h \in Files /\ pending # <<>>
    BY HeadFacts
  <2>3. UNCHANGED started
    BY DEF Read, Merge, Open, Flush, Write
  <2> QED
    BY <2>1, <2>2, <2>3
<1>1. CASE Read
  <2>1. at = "next" /\ at' = "merge" /\ UNCHANGED <<disk, pending, started, result>>
    BY <1>0, <1>1 DEF Read, CountError
  <2>2. InWrite = {} /\ InWrite' = {} /\ Behind' = Behind /\ \A f : Rewritten(f)' <=> Rewritten(f)
    BY <2>1 DEF InWrite, Behind, Rewritten
  <2> QED
    BY <2>1, <2>2 DEF NoErrorYet
<1>2. CASE Merge
  <2>1. /\ at = "merge" /\ at' = "open" /\ UNCHANGED <<disk, pending, started>>
        /\ disk[h] \in Parsable /\ result' = Merged[disk[h]]
    BY <1>0, <1>2 DEF Merge, CountError
  <2>2. InWrite = {} /\ InWrite' = {} /\ Behind' = Behind /\ \A f : Rewritten(f)' <=> Rewritten(f)
    BY <2>1 DEF InWrite, Behind, Rewritten
  <2>3. disk[h] = started[h]
    <3>1. 1 \in DOMAIN pending /\ pending[1] = h
      BY <1>0, <2>1, HeadFacts
    <3> QED
      BY <2>2, <3>1 DEF NoErrorYet
  <2>4. started[h] \in Parsable /\ result' = Merged[started[h]]
    BY <2>1, <2>3
  <2>5. /\ Len(pending) <= Len(SortedFiles)
        /\ \A n \in DOMAIN pending : pending[n] = SortedFiles[Behind + n]
        /\ \A n \in DOMAIN pending : pending[n] \in {} \/ disk[pending[n]] = started[pending[n]]
        /\ \A n \in 1..Behind : SortedFiles[n] \in {} \/ Rewritten(SortedFiles[n])
    BY <2>2 DEF NoErrorYet
  <2>6. started'[Head(pending')] \in Parsable /\ result' = Merged[started'[Head(pending')]]
    BY <2>1, <2>4
  <2> QED
    BY <2>1, <2>2, <2>5, <2>6 DEF NoErrorYet
<1>3. ASSUME Open \/ Flush
      PROVE  NoErrorYet'
  <2>1. /\ at \in {"open", "write"} /\ at' = "write" /\ UNCHANGED <<pending, started, result>>
        /\ \A f \in Files \ {h} : disk'[f] = disk[f]
    <3>1. CASE Open
      BY <1>0, <3>1 DEF Open, CountError, ScriptTypeOK
    <3>2. CASE Flush
      BY <1>0, <3>2 DEF Flush, ScriptTypeOK
    <3> QED
      BY <1>3, <3>1, <3>2
  <2>2. InWrite' = {h} /\ InWrite \subseteq {h} /\ Behind' = Behind
    BY <2>1 DEF InWrite, Behind
  <2>3. \A f \in Files \ {h} : Rewritten(f)' <=> Rewritten(f)
    BY <2>1 DEF Rewritten
  <2>4. ASSUME NEW n \in DOMAIN pending
        PROVE  pending[n] \in InWrite' \/ disk'[pending[n]] = started'[pending[n]]
    <3>1. pending[n] \in Files
      BY DEF ScriptTypeOK
    <3>2. pending[n] \in InWrite \/ disk[pending[n]] = started[pending[n]]
      BY DEF NoErrorYet
    <3> QED
      BY <2>1, <2>2, <3>1, <3>2
  <2>5. ASSUME NEW n \in 1..Behind PROVE SortedFiles[n] \in InWrite' \/ Rewritten(SortedFiles[n])'
    <3>1. SortedFiles[n] \in Files
      <4>1. /\ Len(pending) \in Nat /\ Len(SortedFiles) \in Nat
            /\ \A x \in DOMAIN SortedFiles : SortedFiles[x] \in Files
            /\ DOMAIN SortedFiles = 1..Len(SortedFiles)
        BY HeadFacts
      <4>2. n \in 1..Len(SortedFiles)
        BY <2>5, <4>1 DEF Behind
      <4> QED
        BY <4>1, <4>2
    <3>2. SortedFiles[n] \in InWrite \/ Rewritten(SortedFiles[n])
      BY DEF NoErrorYet
    <3> QED
      BY <2>2, <2>3, <3>1, <3>2
  <2>6. started[h] \in Parsable /\ result = Merged[started[h]]
    BY <2>1 DEF NoErrorYet
  <2>7. started'[Head(pending')] \in Parsable /\ result' = Merged[started'[Head(pending')]]
    BY <2>1, <2>6
  <2>8. Len(pending') <= Len(SortedFiles) /\ \A n \in DOMAIN pending' : pending'[n] = SortedFiles[Behind' + n]
    BY <2>1, <2>2 DEF NoErrorYet
  <2>9. \A n \in 1..Behind' : SortedFiles[n] \in InWrite' \/ Rewritten(SortedFiles[n])'
    BY <2>2, <2>5
  <2>10. \A n \in DOMAIN pending' : pending'[n] \in InWrite' \/ disk'[pending'[n]] = started'[pending'[n]]
    BY <2>1, <2>4
  <2> QED
    BY <2>7, <2>8, <2>9, <2>10 DEF NoErrorYet
<1>4. CASE Write
  <2>1. /\ at = "write" /\ at' = "next" /\ UNCHANGED started /\ pending' = Tail(pending)
        /\ disk' = [disk EXCEPT ![h] = result]
    BY <1>0, <1>4 DEF Write, CountError, NextFile
  <2>2. InWrite' = {} /\ InWrite = {h}
    BY <2>1 DEF InWrite
  <2>3. disk'[h] = result /\ \A f \in Files \ {h} : disk'[f] = disk[f]
    BY <1>0, <2>1 DEF ScriptTypeOK
  <2>4. started[h] \in Parsable /\ result = Merged[started[h]]
    BY <2>1 DEF NoErrorYet
  <2>5. Rewritten(h)'
    BY <2>1, <2>3, <2>4 DEF Rewritten
  <2>6. \A f \in Files \ {h} : Rewritten(f)' <=> Rewritten(f)
    BY <2>1, <2>3 DEF Rewritten
  <2>8. /\ Behind \in Nat /\ Behind + 1 \in DOMAIN SortedFiles /\ SortedFiles[Behind + 1] = h
        /\ Len(pending') <= Len(SortedFiles) /\ Behind' = Behind + 1
        /\ \A n \in DOMAIN pending' : pending'[n] = SortedFiles[Behind + 1 + n]
    BY <1>0, <2>1, BehindFacts DEF Behind
  <2>9. ASSUME NEW n \in 1..(Behind + 1) PROVE Rewritten(SortedFiles[n])'
    <3>1. CASE n = Behind + 1
      BY <2>5, <2>8, <3>1
    <3>2. CASE n # Behind + 1
      <4>1. n \in 1..Behind
        BY <2>8, <2>9, <3>2
      <4>2. SortedFiles[n] = h \/ Rewritten(SortedFiles[n])
        BY <2>2, <4>1 DEF NoErrorYet
      <4>3. SortedFiles[n] \in Files
        <5>1. /\ Len(SortedFiles) \in Nat /\ DOMAIN SortedFiles = 1..Len(SortedFiles)
              /\ \A x \in DOMAIN SortedFiles : SortedFiles[x] \in Files
          BY HeadFacts
        <5>2. n \in DOMAIN SortedFiles
          BY <2>8, <4>1, <5>1
        <5> QED
          BY <5>1, <5>2
      <4> QED
        BY <2>5, <2>6, <4>2, <4>3
    <3> QED
      BY <3>1, <3>2
  <2>10. \A n \in 1..Behind' : SortedFiles[n] \in InWrite' \/ Rewritten(SortedFiles[n])'
    BY <2>8, <2>9
  <2>11. \A n \in DOMAIN pending' : pending'[n] = SortedFiles[Behind' + n]
    BY <2>8
  <2>12. ASSUME NEW n \in DOMAIN pending' PROVE disk'[pending'[n]] = started'[pending'[n]]
    <3>1. /\ Len(pending) \in Nat /\ Len(pending) > 0 /\ Len(SortedFiles) \in Nat /\ n \in Nat /\ n > 0
          /\ n + 1 \in DOMAIN pending /\ pending'[n] = pending[n + 1] /\ pending[n + 1] \in Files
      <4>1. /\ Len(pending) \in Nat /\ Len(pending) > 0 /\ Len(SortedFiles) \in Nat
            /\ DOMAIN pending = 1..Len(pending) /\ DOMAIN pending' = 1..(Len(pending) - 1)
            /\ \A x \in 1..(Len(pending) - 1) : pending'[x] = pending[x + 1]
        BY <1>0, <2>1, HeadFacts
      <4>2. n \in 1..(Len(pending) - 1) /\ n + 1 \in 1..Len(pending)
        BY <4>1
      <4>3. pending[n + 1] \in Files
        BY <4>1, <4>2 DEF ScriptTypeOK
      <4> QED
        BY <4>1, <4>2, <4>3
    <3>2. Behind + (n + 1) \in DOMAIN SortedFiles /\ Behind + (n + 1) # Behind + 1
      <4>1. Len(pending) <= Len(SortedFiles) /\ Behind = Len(SortedFiles) - Len(pending)
        BY DEF NoErrorYet, Behind
      <4>2. DOMAIN pending = 1..Len(pending) /\ DOMAIN SortedFiles = 1..Len(SortedFiles)
        BY HeadFacts
      <4> QED
        BY <3>1, <4>1, <4>2
    <3>3. pending[n + 1] = SortedFiles[Behind + (n + 1)]
      BY <3>1 DEF NoErrorYet
    <3>4. pending[n + 1] # h
      BY <2>8, <3>2, <3>3, ListsAssumption
    <3>5. disk[pending[n + 1]] = started[pending[n + 1]]
      BY <2>2, <3>1, <3>4 DEF NoErrorYet
    <3> QED
      BY <2>1, <2>3, <3>1, <3>4, <3>5
  <2> QED
    BY <2>1, <2>2, <2>8, <2>10, <2>11, <2>12 DEF NoErrorYet
<1> QED
  BY <1>1, <1>2, <1>3, <1>4

LEMMA StatusStep ==
    ASSUME ScriptTypeOK, ScriptTypeOK', [ScriptNext]_scriptVars,
           at \in Running => exit = NoExit, StatusZeroMeansMerged,
           at \in Running /\ script = "normalize" /\ error_count = 0 => NoErrorYet
    PROVE  /\ at' \in Running => exit' = NoExit
           /\ StatusZeroMeansMerged'
           /\ at' \in Running /\ script' = "normalize" /\ error_count' = 0 => NoErrorYet'
<1>0. /\ Running = {"next", "merge", "open", "write"} /\ NoExit # 0
      /\ error_count \in Nat /\ error_count' \in Nat /\ error_count + 1 # 0
  BY DEF Running, NoExit, ScriptTypeOK
<1>1. CASE MissingDirectory
  <2>1. at' = "idle" /\ exit' = 1
    BY <1>1 DEF MissingDirectory
  <2> QED
    BY <1>0, <2>1 DEF StatusZeroMeansMerged
<1>2. CASE Start("normalize", SortedFiles)
  <2>1. /\ script' = "normalize" /\ (at' = "idle" \/ exit' = NoExit)
        /\ at' = "idle" => SortedFiles = <<>>
    BY <1>2 DEF Start
  <2>2. StatusZeroMeansMerged'
    BY <2>1 DEF StatusZeroMeansMerged
  <2> QED
    BY <1>0, <1>2, <2>1, <2>2, NoErrorStart
<1>3. CASE \E list \in ArgLists : Start("merge", list)
  <2>1. script' = "merge" /\ at' = "next" /\ exit' = NoExit
    BY <1>3 DEF Start
  <2> QED
    BY <2>1 DEF StatusZeroMeansMerged
<1>4. CASE Read \/ Merge \/ Open \/ Flush \/ Write
  <2>1. /\ at \in Running /\ at' \in Running /\ exit' = exit /\ script' = script
        /\ error_count' \in {error_count, error_count + 1}
    BY <1>0, <1>4 DEF Read, Merge, Open, Flush, Write, CountError, NextFile
  <2>2. error_count' = 0 => error_count' = error_count
    BY <1>0, <2>1
  <2>3. script' = "normalize" /\ error_count' = 0 => NoErrorYet'
    BY <1>4, <2>1, <2>2, NoErrorStep
  <2> QED
    BY <1>0, <2>1, <2>3 DEF StatusZeroMeansMerged
<1>5. CASE Exit
  <2>1. /\ at = "next" /\ pending = <<>> /\ at' = "idle" /\ UNCHANGED <<disk, script, started>>
        /\ exit' = 0 /\ script = "normalize" => ~(error_count > 0)
    BY <1>5 DEF Exit
  <2>2. ASSUME script = "normalize", exit' = 0
        PROVE  \A n \in DOMAIN SortedFiles :
                  started[SortedFiles[n]] \in Parsable /\ disk[SortedFiles[n]] = Merged[started[SortedFiles[n]]]
    <3>1. NoErrorYet
      BY <1>0, <2>1, <2>2
    <3>2. Len(SortedFiles) \in Nat /\ DOMAIN SortedFiles = 1..Len(SortedFiles) /\ Behind = Len(SortedFiles)
      <4>1. Len(SortedFiles) \in Nat /\ DOMAIN SortedFiles = 1..Len(SortedFiles) /\ Len(pending) = 0
        BY <2>1, HeadFacts
      <4> QED
        BY <4>1 DEF Behind
    <3>3. InWrite = {}
      BY <2>1 DEF InWrite
    <3> QED
      BY <3>1, <3>2, <3>3 DEF NoErrorYet, Rewritten
  <2> QED
    BY <1>0, <2>1, <2>2 DEF StatusZeroMeansMerged
<1>6. CASE Kill
  <2>1. at \in Running /\ at' = "idle" /\ exit' = exit
    BY <1>6 DEF Kill
  <2> QED
    BY <1>0, <2>1 DEF StatusZeroMeansMerged
<1>7. CASE UNCHANGED scriptVars
  <2>1. UNCHANGED <<disk, script, at, pending, result, error_count, exit, started>>
    BY <1>7 DEF scriptVars
  <2>2. StatusZeroMeansMerged' <=> StatusZeroMeansMerged
    BY <2>1 DEF StatusZeroMeansMerged
  <2>3. NoErrorYet' <=> NoErrorYet
    BY <2>1 DEF NoErrorYet, Behind, InWrite, Rewritten
  <2> QED
    BY <2>1, <2>2, <2>3
<1> QED
  BY <1>1, <1>2, <1>3, <1>4, <1>5, <1>6, <1>7 DEF ScriptNext, ScriptStep, ScriptDone

LEMMA ScriptStepInv == ScriptInv /\ [ScriptNext]_scriptVars => ScriptInv'
<1> SUFFICES ASSUME ScriptInv, [ScriptNext]_scriptVars PROVE ScriptInv'
  OBVIOUS
<1>1. ScriptTypeOK'
  BY ScriptTypeStep DEF ScriptInv
<1>2. DamagePaid'
  BY <1>1, DamageStep DEF ScriptInv
<1> QED
  BY <1>1, <1>2, StatusStep DEF ScriptInv

\* Status 0 means that every file of the directory holds the merged form of what
\* it held, whatever files there are and however often the scripts ran, failed and
\* were killed before.
THEOREM StatusZeroIsKept == ScriptSpec => []StatusZeroMeansMerged
<1>1. ScriptInv => StatusZeroMeansMerged
  BY DEF ScriptInv
<1> QED
  BY <1>1, ScriptInitInv, ScriptStepInv, PTL DEF ScriptSpec

\* Every kill and every failing operation costs the text of one file at most, and
\* nothing else costs any.
THEOREM FaultsCostOneFile == ScriptSpec => []OneFilePerFault
<1>1. ScriptInv => OneFilePerFault
  BY DEF ScriptInv, DamagePaid, OneFilePerFault
<1> QED
  BY <1>1, ScriptInitInv, ScriptStepInv, PTL DEF ScriptSpec

===============================================================================
