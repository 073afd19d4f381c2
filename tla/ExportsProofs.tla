---------------------------- MODULE ExportsProofs ----------------------------
(***************************************************************************)
(* Names that a module passes on.  Re-exports: propagate_re_export_safety  *)
(* requeues only what a change affects, and still finds the least closure, *)
(* for all merged caches.  Stars: the sweeps over the stars of a library   *)
(* bind every name by its best star and make up no names, for all          *)
(* programs.                                                               *)
(***************************************************************************)
EXTENDS ReExports, StarExports, FiniteSetTheorems, SequenceTheorems, WellFoundedInduction, TLAPS

RangeOf(s) == {s[n] : n \in 1..Len(s)}

-----------------------------------------------------------------------------
(* Re-exports: entries and their facts.                                     *)

LEMMA MergedType ==
    ASSUME NEW e \in Entries, NEW i \in Entries
    PROVE  MergedEntry(e, i) \in Entries
BY DEF MergedEntry, Entries

LEMMA EdgeType ==
    ASSUME IsCache(cache), NEW n \in Edges
    PROVE  Imported(n) \in Symbols /\ Exported(n) \in Symbols
<1> DEFINE R == [exported : Symbols, imported : Symbols]
           r == cache.re_exports
<1>1. r \in Seq(R) /\ n \in DOMAIN r
    BY DEF IsCache, Edges
<1> HIDE DEF R, r
<1>2. r[n] \in R
    BY <1>1
<1> QED BY <1>2 DEF Imported, Exported, R, r

\* Of a popped index, the last of the worklist.
LEMMA PopType ==
    ASSUME TypeOK, worklist # <<>>
    PROVE  /\ Top \in Edges
           /\ Rest \in Seq(Edges) /\ Len(Rest) = Len(worklist) - 1
           /\ RangeOf(worklist) = RangeOf(Rest) \cup {Top}
<1> DEFINE m == Len(worklist) - 1
<1>1. worklist \in Seq(Edges)
    BY DEF TypeOK
<1>2. m \in Nat /\ Len(worklist) = m + 1
    BY <1>1
<1>3. \A n \in 1..(m + 1) : worklist[n] \in Edges
    BY <1>1, <1>2
<1>4. Top \in Edges
    BY <1>2, <1>3 DEF Top
<1> HIDE DEF m
<1>5. \A n \in 1..m : worklist[n] \in Edges
    BY <1>2, <1>3
<1>6. /\ SubSeq(worklist, 1, m) \in Seq(Edges)
      /\ Len(SubSeq(worklist, 1, m)) = IF 1 <= m THEN m - 1 + 1 ELSE 0
      /\ \A n \in 1..(m - 1 + 1) : SubSeq(worklist, 1, m)[n] = worklist[1 + n - 1]
    BY <1>2, <1>5, SubSeqProperties
<1>7. Rest = SubSeq(worklist, 1, m)
    BY DEF Rest, m
<1>8. Len(Rest) = m /\ \A n \in 1..m : Rest[n] = worklist[n]
    BY <1>2, <1>6, <1>7
<1>9. 1..Len(worklist) = 1..m \cup {m + 1}
    BY <1>2
<1>10. RangeOf(worklist) = RangeOf(Rest) \cup {Top}
    BY <1>2, <1>8, <1>9 DEF RangeOf, Top
<1> QED BY <1>2, <1>4, <1>6, <1>7, <1>8, <1>10

-----------------------------------------------------------------------------
(* The flags and the worklist.                                              *)

\* A sequence has no more elements than places.
LEMMA RangeCardinality ==
    ASSUME NEW S, NEW s \in Seq(S)
    PROVE  IsFiniteSet(RangeOf(s)) /\ Cardinality(RangeOf(s)) <= Len(s)
<1>1. Len(s) \in Nat /\ IsFiniteSet(1..Len(s)) /\ Cardinality(1..Len(s)) = Len(s)
  <2> DEFINE n == Len(s)
  <2>1. n \in Nat
      OBVIOUS
  <2> HIDE DEF n
  <2>2. IsFiniteSet(1..n) /\ Cardinality(1..n) = n
      BY <2>1, FS_Interval
  <2> QED BY <2>1, <2>2 DEF n
<1> DEFINE g == [n \in 1..Len(s) |-> s[n]]
<1>2. g \in Surjection(1..Len(s), RangeOf(s))
    BY DEF Surjection, RangeOf
<1>3. IsFiniteSet(RangeOf(s)) /\ Cardinality(RangeOf(s)) <= Cardinality(1..Len(s))
    BY <1>1, <1>2, FS_Surjection
<1> QED BY <1>1, <1>3

\* A popped re-export is on the worklist no more: its flag may be reset.
LEMMA PopFlags ==
    ASSUME TypeOK, FlagsExact, worklist # <<>>
    PROVE  /\ queued \ {Top} = RangeOf(Rest)
           /\ IsFiniteSet(queued \ {Top})
           /\ Cardinality(queued \ {Top}) = Len(Rest)
<1>1. /\ Rest \in Seq(Edges) /\ Len(Rest) = Len(worklist) - 1
      /\ RangeOf(worklist) = RangeOf(Rest) \cup {Top}
    BY PopType
<1>2. queued = RangeOf(Rest) \cup {Top} /\ Cardinality(queued) = Len(worklist)
    BY <1>1 DEF FlagsExact, RangeOf
<1>3. IsFiniteSet(RangeOf(Rest)) /\ Cardinality(RangeOf(Rest)) <= Len(Rest)
    BY <1>1, RangeCardinality
<1>4. Len(worklist) \in Nat
    BY DEF TypeOK
<1>5. Top \notin RangeOf(Rest)
  <2> SUFFICES ASSUME Top \in RangeOf(Rest) PROVE FALSE
      OBVIOUS
  <2>1. queued = RangeOf(Rest)
      BY <1>2
  <2>2. Cardinality(RangeOf(Rest)) = Len(worklist)
      BY <1>2, <2>1
  <2>3. Len(worklist) <= Len(worklist) - 1
      BY <1>1, <1>3, <2>2
  <2> QED BY <1>4, <2>3
<1>6. queued \ {Top} = RangeOf(Rest)
    BY <1>2, <1>5
<1>7. IsFiniteSet(queued) /\ Top \in queued
    BY <1>2, <1>3, FS_AddElement
<1>8. IsFiniteSet(queued \ {Top}) /\ Cardinality(queued \ {Top}) = Cardinality(queued) - 1
    BY <1>7, FS_RemoveElement
<1> QED BY <1>1, <1>2, <1>6, <1>8

\* Queueing what a change affects, in any order.
LEMMA PushFlags ==
    ASSUME TypeOK, NEW r \in Seq(Edges), Cardinality(RangeOf(r)) = Len(r),
           NEW A, A \subseteq Edges, RangeOf(r) \cap A = {}, NEW o \in Orders(A)
    PROVE  /\ r \o o \in Seq(Edges)
           /\ RangeOf(r) \cup A = RangeOf(r \o o)
           /\ Cardinality(RangeOf(r) \cup A) = Len(r \o o)
<1> DEFINE q == RangeOf(r)
<1>0. IsFiniteSet(q) /\ Cardinality(q) = Len(r) /\ q \cap A = {}
    BY RangeCardinality
<1>1. IsFiniteSet(Edges)
  <2>1. \E n \in Nat : Edges = 1..n
      BY DEF TypeOK, IsCache, Edges
  <2> QED BY <2>1, FS_Interval
<1>2. IsFiniteSet(A) /\ Cardinality(A) \in Nat
    BY <1>1, FS_Subset, FS_CardinalityType
<1>3. o \in Seq(Edges) /\ Len(o) = Cardinality(A) /\ A = RangeOf(o)
  <2> DEFINE k == Cardinality(A)
  <2>1. k \in Nat /\ o \in [1..k -> A] /\ {o[n] : n \in 1..k} = A
      BY <1>2 DEF Orders
  <2> HIDE DEF k
  <2>2. o \in [1..k -> Edges] /\ DOMAIN o = 1..k
      BY <2>1
  <2>3. o \in Seq(Edges) /\ Len(o) = k
      BY <2>1, <2>2
  <2>4. RangeOf(o) = A
      BY <2>1, <2>3 DEF RangeOf
  <2> QED BY <2>3, <2>4 DEF k
<1> DEFINE s == r \o o
<1>4. /\ s \in Seq(Edges) /\ Len(s) = Len(r) + Len(o)
      /\ \A n \in 1..(Len(r) + Len(o)) : s[n] = IF n <= Len(r) THEN r[n] ELSE o[n - Len(r)]
    BY <1>3, ConcatProperties
<1> HIDE DEF s
<1>5. Len(r) \in Nat /\ Len(o) \in Nat
    BY <1>3
<1>6. RangeOf(s) = RangeOf(r) \cup RangeOf(o)
  <2> DEFINE i == Len(r)
             k == Len(o)
  <2>1. /\ i \in Nat /\ k \in Nat /\ Len(s) = i + k
        /\ \A n \in 1..(i + k) : s[n] = IF n <= i THEN r[n] ELSE o[n - i]
      BY <1>4, <1>5
  <2> HIDE DEF i, k
  <2>2. \A n \in 1..i : n \in 1..(i + k) /\ s[n] = r[n]
      BY <2>1
  <2>3. \A n \in 1..k : i + n \in 1..(i + k) /\ s[i + n] = o[n]
      BY <2>1
  <2>4. \A n \in 1..(i + k) : n \in 1..i \/ (n - i \in 1..k /\ s[n] = o[n - i])
      BY <2>1
  <2>5. RangeOf(s) = {s[n] : n \in 1..(i + k)} /\ RangeOf(r) = {r[n] : n \in 1..i}
           /\ RangeOf(o) = {o[n] : n \in 1..k}
      BY <2>1 DEF RangeOf, i, k
  <2> QED BY <2>2, <2>3, <2>4, <2>5
<1> HIDE DEF q
<1>8. Cardinality(q \cup A) = Cardinality(q) + Cardinality(A)
  <2>1. Cardinality(q \cup A) = Cardinality(q) + Cardinality(A) - Cardinality(q \cap A)
      BY <1>2, <1>0, FS_Union
  <2>2. Cardinality(q \cap A) = 0
      BY <1>0, FS_EmptySet
  <2>3. Cardinality(q) \in Nat /\ Cardinality(A) \in Nat
      BY <1>2, <1>0, FS_CardinalityType
  <2> QED BY <2>1, <2>2, <2>3
<1> QED BY <1>3, <1>4, <1>6, <1>8, <1>0 DEF s, q

-----------------------------------------------------------------------------
(* The inductive invariant.                                                 *)

\* No entry loses what the cache recorded.
Kept == \A s \in Symbols : cache.entries[s] \subseteq function_safety[s]

IInv == TypeOK /\ FlagsExact /\ IdleIsStable /\ Kept /\ (done => worklist = <<>>)

LEMMA InitInv == Init => IInv
<1> SUFFICES ASSUME Init PROVE IInv
    OBVIOUS
<1>1. IsCache(cache)
    BY CachesAssumption DEF Init
<1>2. PICK m \in Nat : Edges = 1..m
    BY <1>1 DEF IsCache, Edges
<1>3. worklist = [n \in 1..m |-> n] /\ queued = 1..m
    BY <1>2 DEF Init
<1>4. worklist \in Seq(1..m) /\ Len(worklist) = m
    BY <1>3
<1>5. TypeOK
    BY <1>1, <1>2, <1>3, <1>4 DEF Init, TypeOK, IsCache
<1>6. Cardinality(1..m) = m
    BY FS_Interval
<1>7. FlagsExact
    BY <1>3, <1>4, <1>6 DEF FlagsExact
<1> QED BY <1>5, <1>7 DEF Init, IInv, IdleIsStable, Kept

\* A merge adds to one entry what its source has, and to no other.
LEMMA MergeStep ==
    ASSUME TypeOK, Merge
    PROVE  LET old == function_safety[Exported(Top)]
               new == MergedEntry(old, function_safety[Imported(Top)])
           IN  /\ Top \in Edges /\ Linked(Top)
               /\ function_safety' \in [Symbols -> Entries]
               /\ function_safety'[Exported(Top)] = old \cup function_safety[Imported(Top)]
               /\ \A s \in Symbols : s # Exported(Top) => function_safety'[s] = function_safety[s]
               /\ \A s \in Symbols : function_safety[s] \subseteq function_safety'[s]
               /\ new = old => function_safety' = function_safety
<1>1. Top \in Edges
    BY PopType DEF Merge
<1>2. Imported(Top) \in Symbols /\ Exported(Top) \in Symbols
    BY <1>1, EdgeType DEF TypeOK
<1> QED BY <1>1, <1>2, MergedType DEF Merge, TypeOK, MergedEntry

LEMMA MergeInv == IInv /\ Merge => IInv'
<1> SUFFICES ASSUME IInv, Merge PROVE IInv'
    OBVIOUS
<1> USE DEF IInv
<1> DEFINE old == function_safety[Exported(Top)]
           new == MergedEntry(old, function_safety[Imported(Top)])
           rest == queued \ {Top}
<1>1. /\ Top \in Edges /\ Linked(Top)
      /\ function_safety' \in [Symbols -> Entries]
      /\ function_safety'[Exported(Top)] = old \cup function_safety[Imported(Top)]
      /\ \A s \in Symbols : s # Exported(Top) => function_safety'[s] = function_safety[s]
      /\ \A s \in Symbols : function_safety[s] \subseteq function_safety'[s]
      /\ new = old => function_safety' = function_safety
    BY MergeStep
<1>2. worklist # <<>> /\ UNCHANGED <<cache, done>>
    BY DEF Merge
<1>3. /\ Rest \in Seq(Edges) /\ rest = RangeOf(Rest)
      /\ IsFiniteSet(rest) /\ Cardinality(rest) = Len(Rest)
    BY <1>2, PopType, PopFlags
<1>4. /\ Edges' = Edges /\ \A n : Imported(n)' = Imported(n) /\ Exported(n)' = Exported(n)
      /\ \A n : Linked(n)' = Linked(n)
    BY <1>2 DEF Edges, Imported, Exported, Linked
<1>5. \A n \in Edges : Imported(n) \in Symbols /\ Exported(n) \in Symbols
    BY EdgeType DEF TypeOK
<1>6. CASE new = old
  <2>1. worklist' = Rest /\ queued' = rest
      BY <1>6 DEF Merge
  <2>2. function_safety' = function_safety
      BY <1>1, <1>6
  <2>3. TypeOK'
      BY <1>2, <1>3, <1>4, <2>1, <2>2 DEF TypeOK
  <2>4. FlagsExact'
      BY <1>3, <2>1 DEF FlagsExact, RangeOf
  <2>5. IdleIsStable'
    <3> SUFFICES ASSUME NEW n \in Edges, n \notin rest, Linked(n)
                 PROVE  function_safety[Imported(n)] \subseteq function_safety[Exported(n)]
        BY <1>4, <2>1, <2>2 DEF IdleIsStable
    <3>1. CASE n = Top
        BY <1>1, <2>2, <3>1
    <3>2. CASE n # Top
        BY <3>2 DEF IdleIsStable
    <3> QED BY <3>1, <3>2
  <2>6. Kept'
      BY <1>2, <2>2 DEF Kept
  <2> QED BY <1>2, <2>3, <2>4, <2>5, <2>6
<1>7. CASE new # old
  <2>1. PICK o \in Orders(Affected) : worklist' = Rest \o o
      BY <1>7 DEF Merge
  <2>2. queued' = rest \cup Affected
      BY <1>7 DEF Merge
  <2>3. rest \in SUBSET Edges /\ Affected \in SUBSET (Edges \ rest)
      BY DEF TypeOK, Affected
  <2>4. /\ worklist' \in Seq(Edges) /\ queued' = RangeOf(worklist')
        /\ Cardinality(queued') = Len(worklist')
    <3>1. Cardinality(RangeOf(Rest)) = Len(Rest) /\ rest = RangeOf(Rest) /\ Rest \in Seq(Edges)
        BY <1>3
    <3>2. Affected \subseteq Edges /\ RangeOf(Rest) \cap Affected = {}
        BY <2>3, <3>1
    <3>3. TypeOK /\ o \in Orders(Affected)
        BY <2>1
    <3> HIDE DEF rest, IInv
    <3>4. /\ Rest \o o \in Seq(Edges)
          /\ RangeOf(Rest) \cup Affected = RangeOf(Rest \o o)
          /\ Cardinality(RangeOf(Rest) \cup Affected) = Len(Rest \o o)
        BY <3>1, <3>2, <3>3, PushFlags
    <3> QED BY <2>1, <2>2, <3>1, <3>4
  <2>5. TypeOK'
    <3>1. \A s \in Symbols : s[1] \notin cache.modules => function_safety'[s] = {}
        BY <1>1 DEF TypeOK, Linked
    <3> QED BY <1>1, <1>2, <1>4, <2>2, <2>3, <2>4, <3>1 DEF TypeOK
  <2>6. FlagsExact'
      BY <2>4 DEF FlagsExact, RangeOf
  <2>7. IdleIsStable'
    <3> SUFFICES ASSUME NEW n \in Edges, n \notin queued', Linked(n)
                 PROVE  function_safety'[Imported(n)] \subseteq function_safety'[Exported(n)]
        BY <1>4 DEF IdleIsStable
    <3>1. Imported(n) # Exported(Top)
        BY <2>2 DEF Affected
    <3>2. function_safety'[Imported(n)] = function_safety[Imported(n)]
        BY <1>1, <1>5, <3>1
    <3>3. CASE n = Top
        BY <1>1, <3>2, <3>3
    <3>4. CASE n # Top
      <4>1. function_safety[Imported(n)] \subseteq function_safety[Exported(n)]
          BY <2>2, <3>4 DEF IdleIsStable
      <4> QED BY <1>1, <1>5, <3>2, <4>1
    <3> QED BY <3>3, <3>4
  <2>8. Kept'
      BY <1>1, <1>2 DEF Kept
  <2> QED BY <1>2, <2>5, <2>6, <2>7, <2>8 DEF Merge
<1> QED BY <1>6, <1>7

LEMMA SkipInv == IInv /\ Skip => IInv'
<1> SUFFICES ASSUME IInv, Skip PROVE IInv'
    OBVIOUS
<1> USE DEF IInv
<1>1. /\ worklist # <<>>
      /\ ~Linked(Top) \/ function_safety[Imported(Top)] = {}
      /\ worklist' = Rest /\ queued' = queued \ {Top}
      /\ UNCHANGED <<cache, function_safety, done>>
    BY DEF Skip
<1>2. /\ Rest \in Seq(Edges) /\ queued \ {Top} = RangeOf(Rest)
      /\ Cardinality(queued \ {Top}) = Len(Rest)
    BY <1>1, PopType, PopFlags
<1>3. /\ Edges' = Edges /\ \A n : Imported(n)' = Imported(n) /\ Exported(n)' = Exported(n)
      /\ \A n : Linked(n)' = Linked(n)
    BY <1>1 DEF Edges, Imported, Exported, Linked
<1>4. TypeOK'
    BY <1>1, <1>2, <1>3 DEF TypeOK
<1>5. FlagsExact'
    BY <1>1, <1>2 DEF FlagsExact, RangeOf
<1>6. IdleIsStable'
  <2> SUFFICES ASSUME NEW n \in Edges, n \notin queued \ {Top}, Linked(n)
               PROVE  function_safety[Imported(n)] \subseteq function_safety[Exported(n)]
      BY <1>1, <1>3 DEF IdleIsStable
  <2> QED BY <1>1 DEF IdleIsStable
<1>7. Kept'
    BY <1>1 DEF Kept
<1> QED BY <1>1, <1>4, <1>5, <1>6, <1>7

LEMMA NextInv == IInv /\ [Next]_vars => IInv'
<1> SUFFICES ASSUME IInv, [Next]_vars PROVE IInv'
    OBVIOUS
<1>1. ASSUME UNCHANGED <<cache, function_safety, worklist, queued>>,
             done' \in BOOLEAN, done' => worklist' = <<>>
      PROVE  IInv'
  <2>1. /\ Edges' = Edges
        /\ \A n : Imported(n)' = Imported(n) /\ Exported(n)' = Exported(n) /\ Linked(n)' = Linked(n)
      BY <1>1 DEF Edges, Imported, Exported, Linked
  <2>2. TypeOK'
      BY <1>1, <2>1 DEF IInv, TypeOK
  <2>3. FlagsExact'
      BY <1>1 DEF IInv, FlagsExact
  <2>4. IdleIsStable'
      BY <1>1, <2>1 DEF IInv, IdleIsStable
  <2>5. Kept'
      BY <1>1 DEF IInv, Kept
  <2> QED BY <1>1, <2>2, <2>3, <2>4, <2>5 DEF IInv
<1>2. CASE Return
    BY <1>1, <1>2 DEF Return
<1>3. CASE UNCHANGED vars
  <2>1. done \in BOOLEAN /\ (done => worklist = <<>>)
      BY DEF IInv, TypeOK
  <2> QED BY <1>1, <1>3, <2>1 DEF vars
<1> QED BY <1>2, <1>3, SkipInv, MergeInv DEF Next, Done

THEOREM InvHolds == Spec => []IInv
BY InitInv, NextInv, PTL DEF Spec

\* Entries are entries, and none appears for a module the cache does not have.
THEOREM TypeCorrect == Spec => []TypeOK
BY InvHolds, PTL DEF IInv

\* The flags say what is on the worklist, once each.
THEOREM FlagsAreExact == Spec => []FlagsExact
BY InvHolds, PTL DEF IInv

\* A re-export that is not queued has nothing to carry over.
THEOREM IdleStaysStable == Spec => []IdleIsStable
BY InvHolds, PTL DEF IInv

-----------------------------------------------------------------------------
(* The refinement.                                                          *)

LEMMA RulesKept == UNCHANGED cache => UNCHANGED <<FactsOf(cache.entries), Rules>>
BY DEF FactsOf, Rules, Edges, Imported, Exported, Linked

\* What a merge adds follows by the rules from what was known.
LEMMA MergeDerives == IInv /\ Merge => Closure!Derive \/ UNCHANGED Closure!closure_vars
<1> SUFFICES ASSUME IInv, Merge, ~done PROVE Closure!Derive
  <2>1. ASSUME IInv, Merge PROVE ~done
      BY <2>1 DEF Merge, IInv
  <2> QED BY <2>1
<1> DEFINE old == function_safety[Exported(Top)]
<1>1. /\ Top \in Edges /\ Linked(Top)
      /\ function_safety'[Exported(Top)] = old \cup function_safety[Imported(Top)]
      /\ \A s \in Symbols : s # Exported(Top) => function_safety'[s] = function_safety[s]
      /\ \A s \in Symbols : function_safety[s] \subseteq function_safety'[s]
    BY MergeStep DEF IInv
<1>2. Imported(Top) \in Symbols /\ Exported(Top) \in Symbols
    BY <1>1, EdgeType DEF IInv, TypeOK
<1>3. FactsOf(function_safety) \subseteq FactsOf(function_safety')
    BY <1>1 DEF FactsOf
<1>4. ASSUME NEW f \in FactsOf(function_safety'), f \notin FactsOf(function_safety)
      PROVE  f \in Closure!Follows(FactsOf(function_safety))
  <2>1. f \in Symbols \X (Concerns \cup {Present}) /\ f[2] \in function_safety'[f[1]]
      BY DEF FactsOf
  <2>2. f[2] \notin function_safety[f[1]]
      BY <1>4, <2>1 DEF FactsOf
  <2>3. f[1] = Exported(Top) /\ f[2] \in function_safety[Imported(Top)]
      BY <1>1, <2>1, <2>2
  <2>4. <<Imported(Top), f[2]>> \in FactsOf(function_safety)
      BY <1>2, <2>1, <2>3 DEF FactsOf
  <2>5. <<<<Imported(Top), f[2]>>, <<Exported(Top), f[2]>>>> \in Rules
      BY <1>1, <2>1 DEF Rules
  <2>6. f = <<Exported(Top), f[2]>>
      BY <2>1, <2>3
  <2> QED BY <2>4, <2>5, <2>6 DEF Closure!Follows
<1>5. UNCHANGED <<FactsOf(cache.entries), Rules, done>>
    BY RulesKept DEF Merge
<1>6. FactsOf(function_safety)' = FactsOf(function_safety')
    BY DEF FactsOf
<1> QED BY <1>3, <1>4, <1>5, <1>6 DEF Closure!Derive

\* With an empty worklist every entry is stable.
LEMMA ReturnStops == IInv /\ Return => Closure!Stop
<1> SUFFICES ASSUME IInv, Return PROVE Closure!Stop
    OBVIOUS
<1>1. queued = {}
    BY DEF Return, IInv, FlagsExact
<1>2. FactsOf(cache.entries) \subseteq FactsOf(function_safety)
    BY DEF IInv, Kept, FactsOf
<1>3. ASSUME NEW r \in Rules, r[1] \in FactsOf(function_safety)
      PROVE  r[2] \in FactsOf(function_safety)
  <2>1. PICK n \in Edges, c \in Concerns \cup {Present} :
            Linked(n) /\ r = <<<<Imported(n), c>>, <<Exported(n), c>>>>
      BY DEF Rules
  <2>2. Exported(n) \in Symbols
      BY EdgeType DEF IInv, TypeOK
  <2>3. function_safety[Imported(n)] \subseteq function_safety[Exported(n)]
      BY <1>1, <2>1 DEF IInv, IdleIsStable
  <2> QED BY <1>3, <2>1, <2>2, <2>3 DEF FactsOf
<1>4. Closure!Closed(FactsOf(function_safety))
    BY <1>2, <1>3 DEF Closure!Closed, Closure!Follows
<1>5. UNCHANGED <<FactsOf(cache.entries), Rules, FactsOf(function_safety)>>
    BY RulesKept DEF Return, FactsOf
<1> QED BY <1>4, <1>5 DEF Return, Closure!Stop

LEMMA StepRefines == IInv /\ [Next]_vars => [Closure!ClosureNext]_(Closure!closure_vars)
<1> SUFFICES ASSUME IInv, [Next]_vars
             PROVE  [Closure!ClosureNext]_(Closure!closure_vars)
    OBVIOUS
<1>1. CASE Skip
    BY <1>1, RulesKept DEF Skip, FactsOf, Closure!closure_vars
<1>2. CASE Merge
    BY <1>2, MergeDerives DEF Closure!ClosureNext
<1>3. CASE Return
    BY <1>3, ReturnStops DEF Closure!ClosureNext
<1>4. CASE UNCHANGED vars
    BY <1>4, RulesKept DEF vars, FactsOf, Closure!closure_vars
<1> QED BY <1>1, <1>2, <1>3, <1>4 DEF Next, Done

\* Nothing is derived yet when the worklist starts.
LEMMA InitRefines == Init => Closure!ClosureInit
BY DEF Init, Closure!ClosureInit, FactsOf

\* Requeueing only what a change affects implements the least closure.
THEOREM Implements == Spec => ImplementsClosure
BY InitRefines, InvHolds, StepRefines, PTL DEF Spec, ImplementsClosure, Closure!ClosureSpec

-----------------------------------------------------------------------------
(* What the worklist knows is grounded: it stays within every closed set.   *)

\* More facts, more that follows: an edge out of a smaller set is one of the
\* larger.
LEMMA FollowsMonotone ==
    ASSUME NEW S, NEW T, S \subseteq T
    PROVE  Closure!Follows(S) \subseteq Closure!Follows(T)
BY DEF Closure!Follows

\* What the entries say, by any derivation, is within every set of facts that has
\* what the caches say and is closed under the re-exports.
THEOREM GroundedIsLeast ==
    ASSUME Closure!Grounded, NEW C, Closure!Closed(C)
    PROVE  FactsOf(function_safety) \subseteq C
<1> DEFINE S == FactsOf(function_safety) \cap C
<1>1. Closure!Follows(S) \subseteq Closure!Follows(C)
    BY FollowsMonotone
<1>2. Closure!Follows(S) \cap FactsOf(function_safety) \subseteq S
    BY <1>1 DEF Closure!Closed
<1>3. S \in SUBSET FactsOf(function_safety)
    OBVIOUS
<1>4. S = FactsOf(function_safety)
    BY <1>2, <1>3 DEF Closure!Grounded
<1> QED BY <1>4

\* Adding facts of the base, or by a rule, keeps what is known grounded.
LEMMA GroundedKept ==
    ASSUME Closure!Grounded, UNCHANGED <<FactsOf(cache.entries), Rules>>,
           FactsOf(function_safety) \subseteq FactsOf(function_safety)',
           FactsOf(function_safety)' \subseteq FactsOf(function_safety) \cup Closure!Follows(FactsOf(function_safety))
    PROVE  Closure!Grounded'
<1>1. \A S : Closure!Follows(S)' = Closure!Follows(S)
    BY DEF Closure!Follows
<1> SUFFICES ASSUME NEW S \in SUBSET FactsOf(function_safety)', Closure!Follows(S) \cap FactsOf(function_safety)' \subseteq S
             PROVE  S = FactsOf(function_safety)'
    BY <1>1 DEF Closure!Grounded
<1> DEFINE T == S \cap FactsOf(function_safety)
<1>2. Closure!Follows(T) \subseteq Closure!Follows(S)
    BY FollowsMonotone
<1>3. Closure!Follows(T) \cap FactsOf(function_safety) \subseteq T
    BY <1>2
<1>4. T \in SUBSET FactsOf(function_safety)
    OBVIOUS
<1>5. T = FactsOf(function_safety)
    BY <1>3, <1>4 DEF Closure!Grounded
<1>6. FactsOf(function_safety) \subseteq S
    BY <1>5
<1>7. Closure!Follows(FactsOf(function_safety)) \subseteq Closure!Follows(S)
    BY <1>6, FollowsMonotone
<1> QED BY <1>6, <1>7

\* In the beginning every known fact is one of the base.
LEMMA GroundedInit == Closure!ClosureInit => Closure!Grounded
<1> SUFFICES ASSUME Closure!ClosureInit, NEW S \in SUBSET FactsOf(function_safety),
                    Closure!Follows(S) \cap FactsOf(function_safety) \subseteq S
             PROVE  S = FactsOf(function_safety)
    BY DEF Closure!Grounded
<1>1. FactsOf(function_safety) \subseteq Closure!Follows(S)
    BY DEF Closure!ClosureInit, Closure!Follows
<1> QED BY <1>1

\* Deriving keeps the facts grounded, and stopping finds them closed.
LEMMA LeastKept ==
    ASSUME Closure!Least, [Closure!ClosureNext]_(Closure!closure_vars)
    PROVE  Closure!Least'
<1> USE DEF Closure!Least
<1>1. CASE Closure!Derive
  <2>1. Closure!Grounded'
      BY <1>1, GroundedKept DEF Closure!Derive
  <2> QED BY <1>1, <2>1 DEF Closure!Derive, Closure!Complete
<1>2. CASE Closure!Stop
  <2>1. Closure!Grounded'
      BY <1>2, GroundedKept DEF Closure!Stop
  <2>2. Closure!Closed(FactsOf(function_safety))'
      BY <1>2 DEF Closure!Stop, Closure!Closed, Closure!Follows
  <2> QED BY <2>1, <2>2 DEF Closure!Complete
<1>3. CASE UNCHANGED Closure!closure_vars
  <2>1. Closure!Grounded'
      BY <1>3, GroundedKept DEF Closure!closure_vars
  <2>2. Closure!Complete'
      BY <1>3 DEF Closure!closure_vars, Closure!Complete, Closure!Closed, Closure!Follows
  <2> QED BY <2>1, <2>2
<1> QED BY <1>1, <1>2, <1>3 DEF Closure!ClosureNext

\* "This reaches the same fixpoint as rescanning every edge each round": every
\* name ends up with the concerns of all it re-exports, and with no others.
THEOREM FindsTheLeast == Spec => []SafetyLeast
<1>1. Init => Closure!Least
  <2>1. Init => Closure!ClosureInit
      BY InitRefines
  <2> QED BY <2>1, GroundedInit DEF Closure!ClosureInit, Closure!Least, Closure!Complete
<1>2. IInv /\ Closure!Least /\ [Next]_vars => Closure!Least'
    BY StepRefines, LeastKept
<1> QED BY <1>1, <1>2, InvHolds, PTL DEF Spec, SafetyLeast

-----------------------------------------------------------------------------
(* Stars: sequences of sequences.                                           *)

\* Every set of naturals has a smallest member.
LEMMA SmallestNumber ==
    ASSUME NEW T, T \subseteq Nat, T # {}
    PROVE  \E n \in T : \A m \in T : n <= m
<1> DEFINE R == OpToRel(<, Nat)
<1>1. IsWellFoundedOn(R, Nat)
  BY NatLessThanWellFounded
<1>2. \A a, b \in Nat : a < b => <<a, b>> \in R
  BY DEF OpToRel
<1> HIDE DEF R
<1>3. PICK n \in T : \A m \in T : <<m, n>> \notin R
  BY <1>1, WFMin
<1>4. ASSUME NEW m \in T PROVE n <= m
  <2>1. m \in Nat /\ n \in Nat /\ ~(m < n)
    BY <1>2, <1>3
  <2> QED
    BY <2>1
<1> QED
  BY <1>4

\* What a sequence has.
Has(s, x) == \E i \in 1..Len(s) : s[i] = x

LEMMA ConcatHas ==
    ASSUME NEW S, NEW s \in Seq(S), NEW t \in Seq(S), NEW x
    PROVE  s \o t \in Seq(S) /\ (Has(s \o t, x) <=> Has(s, x) \/ Has(t, x))
<1>1. /\ s \o t \in Seq(S) /\ Len(s) \in Nat /\ Len(t) \in Nat
      /\ Len(s \o t) = Len(s) + Len(t)
      /\ \A i \in 1..Len(s) : (s \o t)[i] = s[i]
      /\ \A i \in 1..Len(t) : (s \o t)[i + Len(s)] = t[i]
  OBVIOUS
<1>2. ASSUME NEW i \in 1..Len(s \o t), ~(i <= Len(s)) PROVE i - Len(s) \in 1..Len(t) /\ i = (i - Len(s)) + Len(s)
  BY <1>1, <1>2
<1>3. ASSUME NEW i \in 1..Len(s) PROVE i \in 1..Len(s \o t)
  BY <1>1, <1>3
<1>4. ASSUME NEW i \in 1..Len(t) PROVE i + Len(s) \in 1..Len(s \o t)
  BY <1>1, <1>4
<1>5. Has(s \o t, x) => Has(s, x) \/ Has(t, x)
  <2> SUFFICES ASSUME NEW i \in 1..Len(s \o t), (s \o t)[i] = x PROVE Has(s, x) \/ Has(t, x)
    BY DEF Has
  <2>1. CASE i <= Len(s)
    <3>1. i \in 1..Len(s)
      BY <1>1, <2>1
    <3> QED
      BY <1>1, <3>1 DEF Has
  <2>2. CASE ~(i <= Len(s))
    BY <1>1, <1>2, <2>2 DEF Has
  <2> QED
    BY <2>1, <2>2
<1>6. Has(s, x) => Has(s \o t, x)
  BY <1>1, <1>3 DEF Has
<1>7. Has(t, x) => Has(s \o t, x)
  BY <1>1, <1>4 DEF Has
<1> QED
  BY <1>1, <1>5, <1>6, <1>7

\* FlattenSeq is defined by recursion: its equation determines it, and what it
\* yields has what the sequences have.
LEMMA FlattenHas ==
    ASSUME NEW S, NEW n \in Nat, NEW ss \in [1..n -> Seq(S)]
    PROVE  /\ FlattenSeq(ss) \in Seq(S)
           /\ \A x : Has(FlattenSeq(ss), x) <=> \E j \in 1..n : Has(ss[j], x)
<1>1. ss \in Seq(Seq(S)) /\ Len(ss) = n
  OBVIOUS
<1>2. CASE n = 0
  <2>1. ss = <<>>
    BY <1>1, <1>2
  <2>2. FlattenSeq(ss) = <<>>
    BY <2>1 DEF FlattenSeq
  <2> QED
    BY <1>2, <2>2 DEF Has
<1>3. CASE n # 0
  <2> DEFINE Flat(k, f) == f \in [1..k -> Seq(S)] /\ \A i \in 1..k : f[i] = IF i = 1 THEN ss[i] ELSE f[i - 1] \o ss[i]
             missed == {k \in 1..n : ~ \E f : Flat(k, f)}
  <2>1. ASSUME missed # {} PROVE FALSE
    <3>1. missed \subseteq Nat
      OBVIOUS
    <3>2. PICK k \in missed : \A j \in missed : k <= j
      <4> HIDE DEF missed
      <4> QED
        BY <2>1, <3>1, SmallestNumber
    <3>3. k \in 1..n /\ ~ \E f : Flat(k, f)
      BY <3>2
    <3>4. CASE k = 1
      <4> DEFINE f == [i \in 1..1 |-> ss[1]]
      <4>1. 1 \in 1..n /\ ss[1] \in Seq(S)
        BY <1>3
      <4>2. f \in [1..1 -> Seq(S)]
        BY <4>1
      <4>3. \A i \in 1..1 : i = 1 /\ f[i] = ss[i]
        OBVIOUS
      <4>4. Flat(1, f)
        BY <4>2, <4>3
      <4> QED
        BY <3>3, <3>4, <4>4
    <3>5. CASE k # 1
      <4>1. k - 1 \in 1..n /\ ~(k <= k - 1) /\ k \in Nat /\ k > 1
        BY <3>3, <3>5
      <4>2. k - 1 \notin missed
        BY <3>2, <4>1
      <4>3. PICK g : Flat(k - 1, g)
        BY <4>1, <4>2
      <4> DEFINE f == [i \in 1..k |-> IF i = k THEN g[k - 1] \o ss[k] ELSE g[i]]
      <4>4. g[k - 1] \in Seq(S) /\ ss[k] \in Seq(S) /\ g[k - 1] \o ss[k] \in Seq(S)
        <5>1. k - 1 \in 1..(k - 1)
          BY <4>1
        <5>2. g[k - 1] \in Seq(S) /\ ss[k] \in Seq(S)
          BY <3>3, <4>3, <5>1
        <5> QED
          BY <5>2, ConcatHas
      <4>5. \A i \in 1..k : i # k => i \in 1..(k - 1)
        BY <4>1
      <4>6. f \in [1..k -> Seq(S)]
        <5>1. ASSUME NEW i \in 1..k PROVE f[i] \in Seq(S)
          BY <4>3, <4>4, <4>5
        <5> QED
          BY <5>1
      <4>7. ASSUME NEW i \in 1..k PROVE f[i] = IF i = 1 THEN ss[i] ELSE f[i - 1] \o ss[i]
        <5>1. CASE i = k
          <6>1. k - 1 \in 1..k /\ k - 1 # k
            BY <4>1
          <6>2. f[k - 1] = g[k - 1]
            BY <6>1
          <6>3. k \in 1..k /\ k # 1
            BY <3>5, <4>1
          <6>4. f[k] = g[k - 1] \o ss[k]
            BY <6>3
          <6> HIDE DEF f
          <6>5. f[k] = f[k - 1] \o ss[k]
            BY <6>2, <6>4
          <6> QED
            BY <5>1, <6>3, <6>5
        <5>2. CASE i # k
          <6>1. i \in 1..(k - 1) /\ f[i] = g[i]
            BY <4>5, <5>2
          <6>2. i # 1 => i - 1 \in 1..k /\ i - 1 # k
            BY <6>1, <4>1
          <6>3. i # 1 => f[i - 1] = g[i - 1]
            BY <6>2
          <6>4. g[i] = IF i = 1 THEN ss[i] ELSE g[i - 1] \o ss[i]
            BY <4>3, <6>1
          <6> QED
            BY <6>1, <6>3, <6>4
        <5> QED
          BY <5>1, <5>2
      <4>8. Flat(k, f)
        BY <4>6, <4>7
      <4> QED
        BY <3>3, <4>8
    <3> QED
      BY <3>4, <3>5
  <2>2. PICK f : Flat(n, f)
    <3>1. n \in 1..n
      BY <1>3
    <3> QED
      BY <2>1, <3>1
  <2> DEFINE flatten == CHOOSE g : g = [i \in 1..n |-> IF i = 1 THEN ss[i] ELSE g[i - 1] \o ss[i]]
  <2>3. FlattenSeq(ss) = flatten[n]
    BY <1>1, <1>3 DEF FlattenSeq
  <2>4. f = [i \in 1..n |-> IF i = 1 THEN ss[i] ELSE f[i - 1] \o ss[i]]
    <3>1. DOMAIN f = 1..n /\ f = [i \in DOMAIN f |-> f[i]]
      BY <2>2
    <3>2. \A i \in 1..n : f[i] = IF i = 1 THEN ss[i] ELSE f[i - 1] \o ss[i]
      BY <2>2
    <3> QED
      BY <3>1, <3>2, Zenon
  <2>5. flatten = [i \in 1..n |-> IF i = 1 THEN ss[i] ELSE flatten[i - 1] \o ss[i]]
    BY <2>4
  <2> HIDE DEF flatten, Flat
  <2> DEFINE Right(i) == flatten[i] \in Seq(S) /\ \A x : Has(flatten[i], x) <=> \E j \in 1..i : Has(ss[j], x)
             wrong == {i \in 1..n : ~Right(i)}
  <2>6. ASSUME wrong # {} PROVE FALSE
    <3>1. wrong \subseteq Nat
      OBVIOUS
    <3>2. PICK k \in wrong : \A j \in wrong : k <= j
      <4> HIDE DEF wrong
      <4> QED
        BY <2>6, <3>1, SmallestNumber
    <3>3. k \in 1..n /\ ss[k] \in Seq(S) /\ ~Right(k)
      BY <3>2
    <3>4. CASE k = 1
      <4>1. flatten[k] = ss[k]
        BY <2>5, <3>3, <3>4
      <4>2. \A x : Has(ss[k], x) <=> \E j \in 1..k : Has(ss[j], x)
        BY <3>4
      <4> QED
        BY <3>3, <4>1, <4>2
    <3>5. CASE k # 1
      <4>1. k - 1 \in 1..n /\ ~(k <= k - 1) /\ \A j \in 1..k : j = k \/ j \in 1..(k - 1)
        BY <3>3, <3>5
      <4>2. Right(k - 1)
        BY <3>2, <4>1
      <4>3. flatten[k] = flatten[k - 1] \o ss[k]
        BY <2>5, <3>3, <3>5
      <4>4. flatten[k] \in Seq(S) /\ \A x : Has(flatten[k], x) <=> Has(flatten[k - 1], x) \/ Has(ss[k], x)
        BY <3>3, <4>2, <4>3, ConcatHas
      <4>5. ASSUME NEW x PROVE Has(flatten[k], x) <=> \E j \in 1..k : Has(ss[j], x)
        <5>1. Has(flatten[k - 1], x) <=> \E j \in 1..(k - 1) : Has(ss[j], x)
          BY <4>2
        <5>2. \A j \in 1..(k - 1) : j \in 1..k
          BY <3>3
        <5>3. k \in 1..k
          BY <3>3
        <5> QED
          BY <4>1, <4>4, <5>1, <5>2, <5>3
      <4> QED
        BY <3>3, <4>4, <4>5
    <3> QED
      BY <3>4, <3>5
  <2>7. Right(n)
    <3>1. n \in 1..n
      BY <1>3
    <3> QED
      BY <2>6, <3>1
  <2> QED
    BY <2>3, <2>7
<1> QED
  BY <1>2, <1>3

\* The stars that a library's sweep visits are those of its modules, all of them.
LEMMA EdgeFacts ==
    ASSUME prog \in Programs, NEW lib \in prog.libraries
    PROVE  LET es == StarEdges(prog, lib) IN
           /\ Len(es) \in Nat
           /\ \A i \in 1..Len(es) : es[i][1] \in lib /\ es[i][2] \in 1..Len(prog.stars[es[i][1]])
           /\ \A m \in lib : \A k \in 1..Len(prog.stars[m]) : \E i \in 1..Len(es) : es[i] = <<m, k>>
<1> DEFINE es == StarEdges(prog, lib)
           S == ModuleNumbers \X Nat
           ss == [m \in ModuleNumbers |-> IF m \in lib THEN [k \in 1..Len(prog.stars[m]) |-> <<m, k>>] ELSE <<>>]
<1>1. /\ prog.stars \in [ModuleNumbers -> Seq(Stars)] /\ lib \subseteq ModuleNumbers /\ NumModules \in Nat
  BY ProgramsAssumption DEF IsProgram
<1>2. ASSUME NEW m \in ModuleNumbers
      PROVE  /\ ss[m] \in Seq(S)
             /\ m \in lib => Len(ss[m]) = Len(prog.stars[m]) /\ \A k \in 1..Len(prog.stars[m]) : ss[m][k] = <<m, k>>
             /\ m \notin lib => Len(ss[m]) = 0
  <2>1. Len(prog.stars[m]) \in Nat
    BY <1>1
  <2>2. [k \in 1..Len(prog.stars[m]) |-> <<m, k>>] \in Seq(S)
    BY <2>1
  <2> QED
    BY <2>1, <2>2
<1>3. ss \in [1..NumModules -> Seq(S)]
  BY <1>2 DEF ModuleNumbers
<1>4. es = FlattenSeq(ss)
  BY DEF StarEdges
<1> HIDE DEF es, ss, S
<1>5. es \in Seq(S) /\ \A x : Has(es, x) <=> \E m \in ModuleNumbers : Has(ss[m], x)
  BY <1>1, <1>3, <1>4, FlattenHas DEF ModuleNumbers
<1>6. ASSUME NEW i \in 1..Len(es) PROVE es[i][1] \in lib /\ es[i][2] \in 1..Len(prog.stars[es[i][1]])
  <2>1. Has(es, es[i])
    BY DEF Has
  <2>5. PICK m \in ModuleNumbers : Has(ss[m], es[i])
    BY <1>5, <2>1
  <2>2. PICK k \in 1..Len(ss[m]) : ss[m][k] = es[i]
    BY <2>5 DEF Has
  <2>3. m \in lib
    BY <1>2, <2>2
  <2>4. k \in 1..Len(prog.stars[m]) /\ es[i] = <<m, k>>
    BY <1>2, <2>2, <2>3
  <2> QED
    BY <2>3, <2>4
<1>7. ASSUME NEW m \in lib, NEW k \in 1..Len(prog.stars[m]) PROVE \E i \in 1..Len(es) : es[i] = <<m, k>>
  <2>1. m \in ModuleNumbers /\ Has(ss[m], <<m, k>>)
    BY <1>1, <1>2 DEF Has
  <2> QED
    BY <1>5, <2>1 DEF Has
<1>8. Len(es) \in Nat
  BY <1>5
<1> QED
  BY <1>6, <1>7, <1>8 DEF es

-----------------------------------------------------------------------------
(* What is reached along the stars.                                         *)

\* A module is reached from itself, and what its sources reach it reaches.
LEMMA ReachedFacts ==
    ASSUME NEW next, NEW m \in DOMAIN next
    PROVE  /\ m \in Reached(next, {m})
           /\ \A s \in next[m] \cap DOMAIN next : Reached(next, {s}) \subseteq Reached(next, {m})
<1>1. m \in Reached(next, {m})
  BY DEF Reached
<1>2. ASSUME NEW s \in next[m] \cap DOMAIN next, NEW d \in Reached(next, {s})
      PROVE  d \in Reached(next, {m})
  <2>1. d \in DOMAIN next
    BY DEF Reached
  <2>2. ASSUME NEW seen \in SUBSET DOMAIN next, {m} \subseteq seen, \A i \in seen : next[i] \subseteq seen
        PROVE  d \in seen
    <3>1. {s} \subseteq seen
      BY <2>2
    <3> QED
      BY <1>2, <2>2, <3>1 DEF Reached
  <2> QED
    BY <2>1, <2>2 DEF Reached
<1> QED
  BY <1>1, <1>2

-----------------------------------------------------------------------------
(* The inductive invariant.                                                 *)

\* A star that binds a name offers it.
BoundOffered ==
    \A lib \in prog.libraries : \A m \in lib : \A n \in Names :
        bound[lib][m][n] \in 1..MaxStars => bound[lib][m][n] \in Offering(lib, m, n)

\* The i-th star that a sweep visits has nothing left to bind.
Spent(lib, i) == Rebound(lib, StarEdges(prog, lib)[i][1], StarEdges(prog, lib)[i][2]) = {}

\* While a sweep has changed nothing, the stars behind it have nothing left to bind,
\* and a library stops only behind the last one.
Settled ==
    \A lib \in prog.libraries :
        /\ ~changed[lib] => \A i \in 1..(edge[lib] - 1) : Spent(lib, i)
        /\ lib \notin running => ~changed[lib] /\ edge[lib] > Len(StarEdges(prog, lib))

StarIInv == prog \in Programs /\ NothingMadeUp /\ BoundOffered /\ Settled

\* What a program looks like.
LEMMA ProgramFacts ==
    ASSUME prog \in Programs
    PROVE  /\ prog.own \in [ModuleNumbers -> SUBSET Names]
           /\ \A m \in DOMAIN prog.all : prog.all[m] \subseteq Names
           /\ \A m \in ModuleNumbers : Len(prog.stars[m]) \in Nat /\ Len(prog.stars[m]) <= MaxStars
           /\ \A m \in ModuleNumbers : \A k \in 1..Len(prog.stars[m]) : prog.stars[m][k].source \in ModuleNumbers
           /\ \A lib \in prog.libraries : lib \subseteq ModuleNumbers
           /\ MaxStars \in Nat /\ Own # Unbound /\ Own \notin 1..MaxStars
<1>1. IsProgram(prog) /\ MaxStars \in Nat
  BY ProgramsAssumption
<1>2. \A m \in ModuleNumbers : prog.stars[m] \in Seq(Stars) /\ Len(prog.stars[m]) <= MaxStars
  BY <1>1 DEF IsProgram
<1>3. \A m \in ModuleNumbers : Len(prog.stars[m]) \in Nat
  BY <1>2
<1>4. ASSUME NEW m \in ModuleNumbers, NEW k \in 1..Len(prog.stars[m]) PROVE prog.stars[m][k].source \in ModuleNumbers
  <2>1. prog.stars[m][k] \in Stars
    BY <1>2, <1>3
  <2> QED
    BY <2>1 DEF Stars
<1>5. Own # Unbound /\ Own \notin 1..MaxStars
  BY <1>1 DEF Own, Unbound
<1>6. \A m \in DOMAIN prog.all : prog.all[m] \subseteq Names
  BY <1>1 DEF IsProgram
<1> QED
  BY <1>1, <1>2, <1>3, <1>4, <1>5, <1>6 DEF IsProgram

\* Only names are offered.
LEMMA StarNamesAreNames ==
    ASSUME prog \in Programs, NEW lib, NEW members, NEW s
    PROVE  StarNames(prog, lib, members, s) \subseteq Names
BY ProgramFacts DEF StarNames

\* What a source offers stays on offer as long as bound names stay bound.
LEMMA StarNamesGrow ==
    ASSUME NEW lib, NEW s, NEW old, NEW new,
           \A m \in lib : \A n \in Names : old[m][n] # Unbound => new[m][n] # Unbound
    PROVE  StarNames(prog, lib, old, s) \subseteq StarNames(prog, lib, new, s)
BY DEF StarNames

LEMMA StarInitInv == StarInit => StarIInv
<1> SUFFICES ASSUME StarInit PROVE StarIInv
  OBVIOUS
<1>1. prog \in Programs
  BY DEF StarInit
<1>2. ASSUME NEW lib \in prog.libraries
      PROVE  /\ bound[lib] = Seeds(prog, lib) /\ edge[lib] = 1 /\ changed[lib] = FALSE
             /\ Len(StarEdges(prog, lib)) \in Nat
  BY <1>1, EdgeFacts DEF StarInit
<1>3. ASSUME NEW lib \in prog.libraries, NEW m \in lib, NEW n \in Names
      PROVE  /\ bound[lib][m][n] = IF n \in prog.own[m] THEN Own ELSE Unbound
             /\ bound[lib][m][n] \notin 1..MaxStars
             /\ (bound[lib][m][n] = Own) = (n \in prog.own[m])
  <2>1. bound[lib] = Seeds(prog, lib)
    BY <1>2
  <2>2. Seeds(prog, lib)[m][n] = IF n \in prog.own[m] THEN Own ELSE Unbound
    BY DEF Seeds
  <2>3. bound[lib][m][n] = IF n \in prog.own[m] THEN Own ELSE Unbound
    BY <2>1, <2>2
  <2>4. Own # Unbound /\ Own \notin 1..MaxStars /\ Unbound \notin 1..MaxStars
    BY <1>1, ProgramFacts DEF Unbound
  <2> QED
    BY <2>3, <2>4
<1>4. ASSUME NEW lib \in prog.libraries PROVE bound[lib] \in [lib -> [Names -> 0..(MaxStars + 1)]]
  <2>1. Own \in 0..(MaxStars + 1) /\ Unbound \in 0..(MaxStars + 1)
    BY <1>1, ProgramFacts DEF Own, Unbound
  <2>2. Seeds(prog, lib) \in [lib -> [Names -> 0..(MaxStars + 1)]]
    <3> HIDE DEF Own, Unbound
    <3> QED
      BY <2>1 DEF Seeds
  <2> QED
    BY <1>2, <2>2
<1>5. StarTypeOK
  <2>1. edge \in [prog.libraries -> Nat] /\ changed \in [prog.libraries -> BOOLEAN]
        /\ DOMAIN bound = prog.libraries /\ running \subseteq prog.libraries
    BY DEF StarInit
  <2>2. ASSUME NEW lib \in prog.libraries PROVE edge[lib] \in 1..(Len(StarEdges(prog, lib)) + 1)
    <3> DEFINE last == Len(StarEdges(prog, lib))
    <3>1. last \in Nat /\ edge[lib] = 1
      BY <1>2
    <3> HIDE DEF last
    <3>2. edge[lib] \in 1..(last + 1)
      BY <3>1
    <3> QED
      BY <3>2 DEF last
  <2> QED
    BY <1>3, <1>4, <2>1, <2>2 DEF StarTypeOK
<1>6. NothingMadeUp
  BY <1>3, <1>5 DEF NothingMadeUp
<1>7. BoundOffered
  BY <1>3 DEF BoundOffered
<1>8. Settled
  BY <1>2 DEF Settled, StarInit
<1> QED
  BY <1>1, <1>6, <1>7, <1>8 DEF StarIInv

\* The star that is expanded, and what it binds.
LEMMA ExpandFacts ==
    ASSUME StarIInv, NEW lib \in prog.libraries, Expand(lib)
    PROVE  \E m \in lib : \E k \in 1..Len(prog.stars[m]) :
             /\ StarEdges(prog, lib)[edge[lib]][1] = m /\ StarEdges(prog, lib)[edge[lib]][2] = k
             /\ edge[lib] \in 1..Len(StarEdges(prog, lib))
             /\ DOMAIN bound' = prog.libraries
             /\ \A other \in prog.libraries \ {lib} : bound'[other] = bound[other]
             /\ bound'[lib] \in [lib -> [Names -> 0..(MaxStars + 1)]]
             /\ \A o \in lib : \A n \in Names :
                    bound'[lib][o][n] = IF o = m /\ n \in Rebound(lib, m, k) THEN k ELSE bound[lib][o][n]
             /\ changed' = [changed EXCEPT ![lib] = changed[lib] \/ Rebound(lib, m, k) # {}]
<1> DEFINE es == StarEdges(prog, lib)
<1>1. edge[lib] \in 1..Len(es)
  <2>1. edge[lib] \in 1..(Len(es) + 1) /\ Len(es) \in Nat /\ edge[lib] <= Len(es)
    BY EdgeFacts DEF StarIInv, NothingMadeUp, StarTypeOK, Expand
  <2> QED
    BY <2>1
<1> DEFINE m == es[edge[lib]][1]
           k == es[edge[lib]][2]
           new == Rebound(lib, m, k)
           row == [n \in Names |-> IF n \in new THEN k ELSE bound[lib][m][n]]
<1>2. m \in lib /\ k \in 1..Len(prog.stars[m])
  BY <1>1, EdgeFacts DEF StarIInv
<1>3. /\ bound' = [bound EXCEPT ![lib][m] = row]
      /\ changed' = [changed EXCEPT ![lib] = changed[lib] \/ new # {}]
  BY DEF Expand
<1>4. DOMAIN bound = prog.libraries /\ bound[lib] \in [lib -> [Names -> 0..(MaxStars + 1)]]
  BY DEF StarIInv, NothingMadeUp, StarTypeOK
<1>5. k \in 0..(MaxStars + 1)
  <2>1. Len(prog.stars[m]) \in Nat /\ Len(prog.stars[m]) <= MaxStars /\ MaxStars \in Nat
    BY <1>2, ProgramFacts DEF StarIInv
  <2> QED
    BY <1>2, <2>1
<1> HIDE DEF m, k, new, es
<1>6. row \in [Names -> 0..(MaxStars + 1)]
  BY <1>2, <1>4, <1>5
<1>7. \A n \in Names : row[n] = IF n \in new THEN k ELSE bound[lib][m][n]
  OBVIOUS
<1> HIDE DEF row
<1>8. bound'[lib] = [bound[lib] EXCEPT ![m] = row] /\ DOMAIN bound' = prog.libraries
      /\ \A other \in prog.libraries \ {lib} : bound'[other] = bound[other]
  BY <1>3, <1>4
<1>9. bound'[lib] \in [lib -> [Names -> 0..(MaxStars + 1)]]
  BY <1>4, <1>6, <1>8
<1>10. \A o \in lib : \A n \in Names : bound'[lib][o][n] = IF o = m /\ n \in new THEN k ELSE bound[lib][o][n]
  BY <1>2, <1>4, <1>7, <1>8
<1> QED
  BY <1>1, <1>2, <1>3, <1>8, <1>9, <1>10 DEF m, k, new, es

\* A star that binds a name offers it, to a module that does not bind it itself.
LEMMA ReboundFacts ==
    ASSUME StarIInv, NEW lib \in prog.libraries, NEW m \in lib,
           NEW k \in 1..Len(prog.stars[m]), NEW n \in Rebound(lib, m, k)
    PROVE  /\ n \in Names /\ n \notin prog.own[m]
           /\ prog.stars[m][k].source \in lib
           /\ n \in StarNames(prog, lib, bound[lib], prog.stars[m][k].source)
           /\ k \in Offering(lib, m, n)
           /\ k \in 1..MaxStars
<1> DEFINE s == prog.stars[m][k].source
<1>1. n \in StarNames(prog, lib, bound[lib], s) /\ ~IsSubmodule(prog, lib, s, n)
      /\ CanReplace(prog, m, bound[lib][m][n], k)
  BY DEF Rebound
<1>2. n \in Names
  BY <1>1, StarNamesAreNames DEF StarIInv
<1>3. n \notin prog.own[m]
  <2>1. bound[lib][m][n] = Own <=> n \in prog.own[m]
    BY <1>2 DEF StarIInv, NothingMadeUp, StarTypeOK
  <2>2. Own # Unbound /\ Own \notin 1..MaxStars
    BY ProgramFacts DEF StarIInv
  <2> QED
    BY <1>1, <2>1, <2>2 DEF CanReplace
<1>4. k \in Offering(lib, m, n)
  BY <1>1 DEF Offering
<1>5. s \in lib
  BY <1>1 DEF StarNames
<1>6. k \in 1..MaxStars
  <2>1. m \in ModuleNumbers
    BY ProgramFacts DEF StarIInv
  <2>2. Len(prog.stars[m]) \in Nat /\ Len(prog.stars[m]) <= MaxStars /\ MaxStars \in Nat
    BY <2>1, ProgramFacts DEF StarIInv
  <2> QED
    BY <2>2
<1> QED
  BY <1>1, <1>2, <1>3, <1>4, <1>5, <1>6

-----------------------------------------------------------------------------
(* Every step preserves it.                                                 *)

LEMMA ExpandInv ==
    ASSUME StarIInv, NEW lib \in prog.libraries, Expand(lib)
    PROVE  StarIInv'
<1> DEFINE es == StarEdges(prog, lib)
<1>1. PICK m \in lib : \E k \in 1..Len(prog.stars[m]) :
             /\ es[edge[lib]][1] = m /\ es[edge[lib]][2] = k
             /\ edge[lib] \in 1..Len(es)
             /\ DOMAIN bound' = prog.libraries
             /\ \A other \in prog.libraries \ {lib} : bound'[other] = bound[other]
             /\ bound'[lib] \in [lib -> [Names -> 0..(MaxStars + 1)]]
             /\ \A o \in lib : \A n \in Names :
                    bound'[lib][o][n] = IF o = m /\ n \in Rebound(lib, m, k) THEN k ELSE bound[lib][o][n]
             /\ changed' = [changed EXCEPT ![lib] = changed[lib] \/ Rebound(lib, m, k) # {}]
  BY ExpandFacts
<1>2. PICK k \in 1..Len(prog.stars[m]) :
             /\ es[edge[lib]][1] = m /\ es[edge[lib]][2] = k
             /\ edge[lib] \in 1..Len(es)
             /\ DOMAIN bound' = prog.libraries
             /\ \A other \in prog.libraries \ {lib} : bound'[other] = bound[other]
             /\ bound'[lib] \in [lib -> [Names -> 0..(MaxStars + 1)]]
             /\ \A o \in lib : \A n \in Names :
                    bound'[lib][o][n] = IF o = m /\ n \in Rebound(lib, m, k) THEN k ELSE bound[lib][o][n]
             /\ changed' = [changed EXCEPT ![lib] = changed[lib] \/ Rebound(lib, m, k) # {}]
  BY <1>1
<1> DEFINE new == Rebound(lib, m, k)
           s == prog.stars[m][k].source
<1>3. /\ prog' = prog /\ running' = running /\ edge' = [edge EXCEPT ![lib] = edge[lib] + 1]
      /\ lib \in running /\ prog \in Programs
  BY DEF Expand, StarIInv
<1>4. \A n \in new : /\ n \in Names /\ n \notin prog.own[m] /\ s \in lib
                     /\ n \in StarNames(prog, lib, bound[lib], s)
                     /\ k \in Offering(lib, m, n) /\ k \in 1..MaxStars
  BY ReboundFacts
<1>5. StarTypeOK /\ Len(es) \in Nat /\ lib \subseteq ModuleNumbers
  BY <1>3, EdgeFacts, ProgramFacts DEF StarIInv, NothingMadeUp
<1>6. MaxStars \in Nat /\ Own # Unbound /\ Own \notin 1..MaxStars /\ Unbound \notin 1..MaxStars
  BY <1>3, ProgramFacts DEF Unbound
<1> HIDE DEF new, s, es
<1>7. ASSUME NEW o \in lib, NEW n \in Names
      PROVE  /\ (bound'[lib][o][n] = Own) = (n \in prog.own[o])
             /\ bound[lib][o][n] # Unbound => bound'[lib][o][n] # Unbound
             /\ ~(o = m /\ n \in new) => bound'[lib][o][n] = bound[lib][o][n]
             /\ o = m /\ n \in new => bound'[lib][o][n] = k /\ k \in 1..MaxStars
  <2>1. (bound[lib][o][n] = Own) = (n \in prog.own[o])
    BY <1>5 DEF StarTypeOK
  <2>2. bound'[lib][o][n] = IF o = m /\ n \in new THEN k ELSE bound[lib][o][n]
    BY <1>2 DEF new
  <2> QED
    BY <1>4, <1>6, <2>1, <2>2
<1>8. StarTypeOK'
  <2>1. /\ edge' \in [prog.libraries -> Nat] /\ changed' \in [prog.libraries -> BOOLEAN]
        /\ edge'[lib] \in 1..(Len(es) + 1)
    <3>1. edge \in [prog.libraries -> Nat] /\ changed \in [prog.libraries -> BOOLEAN]
      BY <1>5 DEF StarTypeOK
    <3>2. edge'[lib] = edge[lib] + 1 /\ edge[lib] \in Nat /\ edge[lib] <= Len(es)
      BY <1>2, <1>3, <3>1
    <3>3. edge' \in [prog.libraries -> Nat]
      BY <1>3, <3>1, <3>2
    <3>4. changed' \in [prog.libraries -> BOOLEAN]
      BY <1>2, <3>1
    <3> QED
      BY <1>5, <3>2, <3>3, <3>4
  <2>2. ASSUME NEW other \in prog.libraries
        PROVE  /\ bound'[other] \in [other -> [Names -> 0..(MaxStars + 1)]]
               /\ \A o \in other : \A n \in Names : (bound'[other][o][n] = Own) = (n \in prog.own[o])
               /\ edge'[other] \in 1..(Len(StarEdges(prog, other)) + 1)
    <3>1. CASE other = lib
      BY <1>2, <1>7, <2>1, <3>1 DEF es
    <3>2. CASE other # lib
      <4>1. bound'[other] = bound[other] /\ edge'[other] = edge[other]
        BY <1>2, <1>3, <1>5, <3>2 DEF StarTypeOK
      <4> QED
        BY <1>5, <4>1 DEF StarTypeOK
    <3> QED
      BY <3>1, <3>2
  <2> QED
    BY <1>2, <1>3, <1>5, <2>1, <2>2 DEF StarTypeOK
<1>9. ASSUME NEW other \in prog.libraries, NEW o \in other, NEW n \in Names
      PROVE  Offering(other, o, n) \subseteq Offering(other, o, n)'
  <2>1. CASE other = lib
    <3>1. ASSUME NEW x \in ModuleNumbers
          PROVE  StarNames(prog, lib, bound[lib], x) \subseteq StarNames(prog, lib, bound'[lib], x)
      BY <1>7, StarNamesGrow
    <3>2. o \in ModuleNumbers /\ \A i \in 1..Len(prog.stars[o]) : prog.stars[o][i].source \in ModuleNumbers
      BY <1>3, <1>5, <2>1, ProgramFacts
    <3> QED
      BY <1>3, <2>1, <3>1, <3>2 DEF Offering
  <2>2. CASE other # lib
    <3>1. bound'[other] = bound[other]
      BY <1>2, <2>2
    <3> QED
      BY <1>3, <3>1 DEF Offering
  <2> QED
    BY <2>1, <2>2
<1>10. BoundOffered'
  <2> SUFFICES ASSUME NEW other \in prog.libraries, NEW o \in other, NEW n \in Names,
                      bound'[other][o][n] \in 1..MaxStars
               PROVE  bound'[other][o][n] \in Offering(other, o, n)'
    BY <1>3 DEF BoundOffered
  <2>1. CASE other = lib /\ o = m /\ n \in new
    BY <1>4, <1>7, <1>9, <2>1
  <2>2. CASE ~(other = lib /\ o = m /\ n \in new)
    <3>1. bound'[other][o][n] = bound[other][o][n]
      BY <1>2, <1>7, <2>2
    <3>2. bound[other][o][n] \in Offering(other, o, n)
      BY <2>2, <3>1 DEF StarIInv, BoundOffered
    <3> QED
      BY <1>9, <3>1, <3>2
  <2> QED
    BY <2>1, <2>2
<1>11. NothingMadeUp'
  <2> DEFINE From(other, o) == Reached(StarSources(other), {o})
             Backed(other, o, n) == \E d \in From(other, o) :
                        n \in prog.own[d] \/ (d \in DOMAIN prog.all /\ n \in prog.all[d])
  <2>1. ASSUME NEW other \in prog.libraries, NEW o \in other, NEW n \in Names,
               bound'[other][o][n] \in 1..MaxStars
        PROVE  Backed(other, o, n)
    <3>1. CASE other = lib /\ o = m /\ n \in new
      <4>1. /\ s \in lib /\ n \in StarNames(prog, lib, bound[lib], s)
            /\ DOMAIN StarSources(lib) = lib /\ s \in StarSources(lib)[m]
        BY <1>4, <1>2, <3>1 DEF StarSources, s
      <4>2. m \in From(lib, m) /\ s \in From(lib, s) /\ From(lib, s) \subseteq From(lib, m)
        BY <4>1, ReachedFacts
      <4>3. CASE s \in DOMAIN prog.all
        BY <3>1, <4>1, <4>2, <4>3 DEF StarNames
      <4>4. CASE s \notin DOMAIN prog.all
        <5>1. bound[lib][s][n] # Unbound /\ bound[lib][s][n] \in 0..(MaxStars + 1)
          BY <1>5, <4>1, <4>4 DEF StarNames, StarTypeOK
        <5>2. CASE bound[lib][s][n] = Own
          <6>1. n \in prog.own[s]
            BY <1>5, <4>1, <5>2 DEF StarTypeOK
          <6> QED
            BY <3>1, <4>2, <6>1
        <5>3. CASE bound[lib][s][n] # Own
          <6>1. bound[lib][s][n] \in 1..MaxStars
            BY <1>6, <5>1, <5>3 DEF Own, Unbound
          <6>2. Backed(lib, s, n)
            BY <4>1, <6>1 DEF StarIInv, NothingMadeUp
          <6> QED
            BY <3>1, <4>2, <6>2
        <5> QED
          BY <5>2, <5>3
      <4> QED
        BY <4>3, <4>4
    <3>2. CASE ~(other = lib /\ o = m /\ n \in new)
      <4>1. bound'[other][o][n] = bound[other][o][n]
        BY <1>2, <1>7, <3>2
      <4> QED
        BY <2>1, <4>1 DEF StarIInv, NothingMadeUp
    <3> QED
      BY <3>1, <3>2
  <2>2. ASSUME NEW other PROVE StarSources(other)' = StarSources(other)
    BY <1>3 DEF StarSources
  <2> QED
    BY <1>3, <1>8, <2>1, <2>2 DEF NothingMadeUp
<1>12. Settled'
  <2> SUFFICES ASSUME NEW other \in prog.libraries
               PROVE  /\ ~changed'[other] => \A i \in 1..(edge'[other] - 1) : Spent(other, i)'
                      /\ other \notin running => ~changed'[other] /\ edge'[other] > Len(StarEdges(prog, other))
    BY <1>3 DEF Settled
  <2>1. CASE other # lib
    <3>1. bound'[other] = bound[other] /\ edge'[other] = edge[other] /\ changed'[other] = changed[other]
      BY <1>2, <1>3, <1>5, <2>1 DEF StarTypeOK
    <3>2. ASSUME NEW i PROVE Spent(other, i)' = Spent(other, i)
      BY <1>3, <3>1 DEF Spent, Rebound
    <3> QED
      BY <3>1, <3>2 DEF StarIInv, Settled
  <2>2. CASE other = lib
    <3>1. changed'[lib] = (changed[lib] \/ new # {}) /\ edge'[lib] = edge[lib] + 1
      BY <1>2, <1>3, <1>5 DEF StarTypeOK, new
    <3>2. SUFFICES ASSUME ~changed[lib], new = {}, NEW i \in 1..(edge'[lib] - 1) PROVE Spent(lib, i)'
      BY <1>3, <2>2, <3>1
    <3>3. Spent(lib, i)
      <4>1. edge[lib] \in Nat
        BY <1>2
      <4>2. CASE i = edge[lib]
        BY <1>2, <3>2, <4>2 DEF Spent, new, es
      <4>3. CASE i # edge[lib]
        <5>1. i \in 1..(edge[lib] - 1)
          BY <3>1, <4>1, <4>3
        <5> QED
          BY <3>2, <5>1 DEF StarIInv, Settled
      <4> QED
        BY <4>2, <4>3
    <3>4. bound'[lib] = bound[lib]
      <4>1. \A o \in lib : \A n \in Names : bound'[lib][o][n] = bound[lib][o][n]
        BY <1>7, <3>2
      <4>2. bound[lib] \in [lib -> [Names -> 0..(MaxStars + 1)]]
        BY <1>5 DEF StarTypeOK
      <4>3. ASSUME NEW o \in lib PROVE bound'[lib][o] = bound[lib][o]
        BY <1>2, <4>1, <4>2
      <4> QED
        BY <1>2, <4>2, <4>3
    <3> QED
      BY <1>3, <3>3, <3>4 DEF Spent, Rebound
  <2> QED
    BY <2>1, <2>2
<1> QED
  BY <1>3, <1>10, <1>11, <1>12 DEF StarIInv

LEMMA NothingMadeUpKept ==
    ASSUME NothingMadeUp, prog' = prog, bound' = bound, StarTypeOK'
    PROVE  NothingMadeUp'
<1>1. ASSUME NEW lib PROVE StarSources(lib)' = StarSources(lib)
  BY DEF StarSources
<1>2. ASSUME NEW lib \in prog.libraries, NEW m \in lib, NEW n \in Names,
             bound[lib][m][n] \in 1..MaxStars
      PROVE  \E d \in Reached(StarSources(lib), {m}) :
                n \in prog.own[d] \/ (d \in DOMAIN prog.all /\ n \in prog.all[d])
  BY <1>2 DEF NothingMadeUp
<1> QED
  BY <1>1, <1>2 DEF NothingMadeUp

LEMMA NextSweepInv ==
    ASSUME StarIInv, NEW lib \in prog.libraries, NextSweep(lib)
    PROVE  StarIInv'
<1>1. /\ prog' = prog /\ bound' = bound /\ running' = running
      /\ edge' = [edge EXCEPT ![lib] = 1] /\ changed' = [changed EXCEPT ![lib] = FALSE]
      /\ lib \in running /\ prog \in Programs /\ StarTypeOK
  BY DEF NextSweep, StarIInv, NothingMadeUp
<1>2. ASSUME NEW other \in prog.libraries
      PROVE  /\ edge'[other] = (IF other = lib THEN 1 ELSE edge[other])
             /\ changed'[other] = (IF other = lib THEN FALSE ELSE changed[other])
  BY <1>1 DEF StarTypeOK
<1>3. StarTypeOK'
  <2>1. edge' \in [prog.libraries -> Nat] /\ changed' \in [prog.libraries -> BOOLEAN]
    BY <1>1 DEF StarTypeOK
  <2>2. ASSUME NEW other \in prog.libraries PROVE edge'[other] \in 1..(Len(StarEdges(prog, other)) + 1)
    <3> DEFINE last == Len(StarEdges(prog, other))
    <3>1. last \in Nat /\ edge[other] \in 1..(last + 1)
      BY <1>1, EdgeFacts DEF StarTypeOK
    <3> HIDE DEF last
    <3>2. edge'[other] = 1 \/ edge'[other] = edge[other]
      BY <1>2
    <3>4. edge'[other] \in 1..(last + 1)
      BY <3>1, <3>2
    <3> QED
      BY <3>4 DEF last
  <2> QED
    BY <1>1, <2>1, <2>2 DEF StarTypeOK
<1>4. NothingMadeUp'
  BY <1>1, <1>3, NothingMadeUpKept DEF StarIInv
<1>5. BoundOffered'
  BY <1>1 DEF StarIInv, BoundOffered, Offering
<1>6. Settled'
  <2>1. ASSUME NEW other, NEW i PROVE Spent(other, i)' = Spent(other, i)
    BY <1>1 DEF Spent, Rebound
  <2>2. \A i \in 1..(1 - 1) : FALSE
    OBVIOUS
  <2> QED
    BY <1>1, <1>2, <2>1, <2>2 DEF StarIInv, Settled
<1> QED
  BY <1>1, <1>4, <1>5, <1>6 DEF StarIInv

LEMMA FinishInv ==
    ASSUME StarIInv, NEW lib \in prog.libraries, Finish(lib)
    PROVE  StarIInv'
<1>1. /\ UNCHANGED <<prog, bound, edge, changed>> /\ running' = running \ {lib}
      /\ ~changed[lib] /\ edge[lib] > Len(StarEdges(prog, lib)) /\ StarTypeOK
  BY DEF Finish, StarIInv, NothingMadeUp
<1>2. StarTypeOK'
  BY <1>1 DEF StarTypeOK
<1>3. NothingMadeUp'
  BY <1>1, <1>2, NothingMadeUpKept DEF StarIInv
<1>4. BoundOffered'
  BY <1>1 DEF StarIInv, BoundOffered, Offering
<1>5. Settled'
  <2>1. ASSUME NEW other, NEW i PROVE Spent(other, i)' = Spent(other, i)
    BY <1>1 DEF Spent, Rebound
  <2> QED
    BY <1>1, <2>1 DEF StarIInv, Settled
<1> QED
  BY <1>1, <1>3, <1>4, <1>5 DEF StarIInv

LEMMA StepInv == StarIInv /\ [StarNext]_starVars => StarIInv'
<1> SUFFICES ASSUME StarIInv, [StarNext]_starVars PROVE StarIInv'
  OBVIOUS
<1>1. CASE \E lib \in prog.libraries : Expand(lib) \/ NextSweep(lib) \/ Finish(lib)
  BY <1>1, ExpandInv, NextSweepInv, FinishInv
<1>2. CASE UNCHANGED starVars
  <2>1. ASSUME NEW other, NEW i PROVE Spent(other, i)' = Spent(other, i)
    BY <1>2 DEF Spent, Rebound, starVars
  <2>2. StarTypeOK'
    BY <1>2 DEF StarIInv, NothingMadeUp, StarTypeOK, starVars
  <2>5. NothingMadeUp'
    BY <1>2, <2>2, NothingMadeUpKept DEF StarIInv, starVars
  <2>3. BoundOffered'
    BY <1>2 DEF StarIInv, BoundOffered, Offering, starVars
  <2>4. Settled'
    BY <1>2, <2>1 DEF StarIInv, Settled, starVars
  <2> QED
    BY <1>2, <2>3, <2>4, <2>5 DEF StarIInv, starVars
<1> QED
  BY <1>1, <1>2 DEF StarNext, StarDone

\* A library that has stopped has bound every name by its best star.
LEMMA StoppedBest == StarIInv => (running = {} => BestStars)
<1> SUFFICES ASSUME StarIInv, running = {}, NEW lib \in prog.libraries, NEW m \in lib,
                    NEW n \in Names \ prog.own[m]
             PROVE  IF Offering(lib, m, n) = {} THEN bound[lib][m][n] = Unbound
                    ELSE bound[lib][m][n] \in
                           {j \in Offering(lib, m, n) : \A k \in Offering(lib, m, n) \ {j} :
                               IF prog.stars[m][j].fallback = prog.stars[m][k].fallback THEN k < j
                               ELSE prog.stars[m][k].fallback}
  BY DEF BestStars
<1> DEFINE es == StarEdges(prog, lib)
           offering == Offering(lib, m, n)
           j == bound[lib][m][n]
<1>1. prog \in Programs /\ StarTypeOK /\ m \in ModuleNumbers
  BY ProgramFacts DEF StarIInv, NothingMadeUp
<1>2. j \in 0..(MaxStars + 1) /\ j # Own /\ MaxStars \in Nat
  BY <1>1, ProgramFacts DEF StarTypeOK
<1>3. j = Unbound \/ j \in 1..MaxStars
  BY <1>2 DEF Own, Unbound
<1>4. j \in 1..MaxStars => j \in offering
  BY DEF StarIInv, BoundOffered
<1>5. ASSUME NEW k \in offering PROVE k \in 1..Len(prog.stars[m]) /\ ~CanReplace(prog, m, j, k)
  <2>1. k \in 1..Len(prog.stars[m])
    BY DEF Offering
  <2>2. PICK i \in 1..Len(es) : es[i] = <<m, k>>
    BY <1>1, <2>1, EdgeFacts
  <2>3. Rebound(lib, m, k) = {}
    <3>1. ~changed[lib] /\ edge[lib] > Len(es)
      BY DEF StarIInv, Settled
    <3>2. edge[lib] \in Nat /\ Len(es) \in Nat
      BY <1>1, EdgeFacts DEF StarTypeOK
    <3> HIDE DEF es
    <3>3. i \in 1..(edge[lib] - 1)
      BY <3>1, <3>2
    <3>4. Spent(lib, i)
      BY <3>1, <3>3 DEF StarIInv, Settled
    <3> QED
      BY <2>2, <3>4 DEF Spent, es
  <2> QED
    BY <2>1, <2>3 DEF Offering, Rebound
<1>6. CASE offering = {}
  <2>1. j = Unbound
    BY <1>3, <1>4, <1>6
  <2> QED
    BY <1>6, <2>1
<1>7. CASE offering # {}
  <2>1. j \in 1..MaxStars /\ j \in offering
    BY <1>3, <1>4, <1>5, <1>7 DEF CanReplace
  <2>2. j \in 1..Len(prog.stars[m]) /\ Len(prog.stars[m]) \in Nat
    BY <1>1, <1>5, <2>1, ProgramFacts
  <2>3. ASSUME NEW k \in offering \ {j}
        PROVE  IF prog.stars[m][j].fallback = prog.stars[m][k].fallback THEN k < j
               ELSE prog.stars[m][k].fallback
    <3>1. k \in 1..Len(prog.stars[m]) /\ ~Outranks(prog, m, k, j) /\ k # j
      BY <1>5, <2>1 DEF CanReplace
    <3>2. prog.stars[m][j].fallback \in BOOLEAN /\ prog.stars[m][k].fallback \in BOOLEAN
      <4>1. prog.stars[m] \in Seq(Stars)
        BY <1>1, ProgramsAssumption DEF IsProgram
      <4>2. prog.stars[m][j] \in Stars /\ prog.stars[m][k] \in Stars
        BY <2>2, <3>1, <4>1
      <4> QED
        BY <4>2 DEF Stars
    <3>3. CASE prog.stars[m][j].fallback = prog.stars[m][k].fallback
      <4>1. ~(k > j) /\ k \in Nat /\ j \in Nat
        BY <2>2, <3>1, <3>3 DEF Outranks
      <4> QED
        BY <3>1, <3>3, <4>1
    <3>4. CASE prog.stars[m][j].fallback # prog.stars[m][k].fallback
      BY <3>1, <3>2, <3>4 DEF Outranks
    <3> QED
      BY <3>3, <3>4
  <2> QED
    BY <1>7, <2>1, <2>3
<1> QED
  BY <1>6, <1>7

\* Types are kept, and no sweep (expand_star_re_exports) binds a name that no module
\* along the stars binds or declares.
THEOREM StarsMakeNothingUp == StarSpec => []NothingMadeUp
<1>1. StarIInv => NothingMadeUp
  BY DEF StarIInv
<1> QED
  BY <1>1, StarInitInv, StepInv, PTL DEF StarSpec

\* When every library's sweeps have stopped changing anything, each name is bound by
\* the star that beats all others that offer it (star_can_replace), however late
\* the name reached that star's source.
THEOREM StoppedSweepsBindBest == StarSpec => [](running = {} => BestStars)
BY StarInitInv, StepInv, StoppedBest, PTL DEF StarSpec

=============================================================================
