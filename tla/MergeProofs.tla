----------------------------- MODULE MergeProofs -----------------------------
(***************************************************************************)
(* What the reduce makes of several libraries, for all programs and all    *)
(* ways to split them into caches.                                         *)
(*                                                                         *)
(* Imports (ImportMerge).  What a record of a module says depends on the   *)
(* libraries it was seen from.  What does not is the set of names in it:   *)
(* imports, missing and ambiguous ones are together the names the module   *)
(* writes.  This is what a merge preserves, and where a name stands no     *)
(* longer matters once all modules are known.                              *)
(*                                                                         *)
(* Safety records (CacheMerge).  The vector under reduction does not say   *)
(* which cache a record came from, so the invariant quantifies over that   *)
(* numbering: every record not yet joined stands with its number, every    *)
(* joined one is the fold of the records with the numbers that are gone.   *)
(*                                                                         *)
(* Class hierarchies (Mro).  While the bases' linearizations are merged    *)
(* what is left of each is its end, what is gone from them is in the       *)
(* result, in the order of each, and if any order keeps them all there is  *)
(* a head that is in no tail: the lowest that is left.                     *)
(***************************************************************************)
EXTENDS ImportMerge, CacheMerge, FiniteSetTheorems, SequenceTheorems,
        WellFoundedInduction, TLAPS

-----------------------------------------------------------------------------
(* The import graph of the merge.                                           *)

\* The modules of the merge.
Known(p) == p.modules \cup p.stubs

\* The statements of a module, each of which has the names it needs.
Wellformed(S) ==
    /\ S \subseteq Statements
    /\ \A s \in S : s.kind = "from" => Len(Chain[s.name]) > 1

\* A record of a module in a cache, or in the merge.
Seen(p, m, r) ==
    /\ r \in Records
    /\ r.imports \cup r.missing \cup r.ambiguous = AllNames(p.statements[m])
    /\ r.missing \cap r.imports = {}
    /\ r.imports \subseteq Known(p)
    /\ \A x \in r.ambiguous : Len(Chain[x]) > 1 /\ Parent(x) \in Known(p)
    /\ r.guard_only =
          AllNames(p.statements[m]) \ AllNames(Unguarded(p.statements[m]))
    /\ p.bad = {} => m \notin r.missing \cup r.ambiguous

\* The names of a module that the reduce resolves.
Kept(p, m) == AllNames(IF m = p.main THEN p.statements[m] ELSE Pruned(p, m))

\* A record once the guards have been applied.
Filtered(p, m, r) ==
    /\ r \in Records
    /\ r.imports \cup r.missing \cup r.ambiguous = Kept(p, m)
    /\ r.imports \subseteq Known(p)
    /\ \A x \in r.ambiguous : Len(Chain[x]) > 1 /\ Parent(x) \in Known(p)
    /\ p.bad = {} => m \notin r.missing \cup r.ambiguous

\* What the two steps of the reduce make of it.
AfterAmbiguous(p, m, r) ==
    [r EXCEPT !.imports = @ \cup ResolvedEdges(m, r.ambiguous, Known(p)), !.ambiguous = {}]

AfterMissing(p, m, r) ==
    [r EXCEPT !.imports = @ \cup ResolvedEdges(m, r.missing, Known(p)),
              !.missing = {x \in @ : ~Resolves(x, Known(p))}]

IInv ==
    /\ TypeOK
    /\ phase = "map" => DOMAIN merged = {}
    /\ phase = "merge" => (DOMAIN merged) \cup UNION (DOMAIN caches) = prog.modules
    /\ \A l \in DOMAIN caches : \A m \in l : Seen(prog, m, caches[l][m])
    /\ phase = "merge" => \A m \in DOMAIN merged : Seen(prog, m, merged[m])
    /\ phase = "resolve_ambiguous" => \A m \in DOMAIN merged : Filtered(prog, m, merged[m])
    /\ phase = "resolve_missing" =>
          \A m \in DOMAIN merged :
             \E r : Filtered(prog, m, r) /\ merged[m] = AfterAmbiguous(prog, m, r)
    /\ phase = "done" =>
          \A m \in DOMAIN merged :
             \E r : Filtered(prog, m, r)
                    /\ merged[m] = AfterMissing(prog, m, AfterAmbiguous(prog, m, r))

-----------------------------------------------------------------------------
(* Names.                                                                   *)

LEMMA ChainType ==
    ASSUME NEW x \in Names
    PROVE  /\ Len(Chain[x]) \in Nat /\ Len(Chain[x]) > 0 /\ Chain[x][1] = x
           /\ \A n \in 1..Len(Chain[x]) : Chain[x][n] \in Names
           /\ Len(Chain[x]) > 1 => Parent(x) \in Names
<1>1. Chain[x] \in Seq(Names) /\ Len(Chain[x]) > 0 /\ Chain[x][1] = x
    BY ChainAssumption
<1>2. \A n \in 1..Len(Chain[x]) : Chain[x][n] \in Names
    BY <1>1
<1> QED BY <1>1, <1>2 DEF Parent

\* What a statement records does not depend on what is known, only where.
LEMMA StatementNames ==
    ASSUME NEW s \in Statements, NEW known
    PROVE  Recorded(s, known) \cup Ambiguous(s, known) =
              IF s.kind = "import" THEN NamesOf(s.name)
              ELSE IF s.kind = "from" THEN {s.name, Parent(s.name)} ELSE {s.name}
<1>1. s.kind \in {"import", "from", "module"}
    BY DEF Statements
<1>2. CASE s.kind = "import"
    BY <1>2 DEF Recorded, Ambiguous
<1>3. CASE s.kind = "module"
    BY <1>3 DEF Recorded, Ambiguous
<1>4. CASE s.kind = "from"
  <2>1. Recorded(s, known) = {Parent(s.name)} \cup
            {x \in {s.name} : x \in known \/ Parent(x) \notin known}
      BY <1>4 DEF Recorded
  <2>2. Ambiguous(s, known) = {x \in {s.name} : x \notin known /\ Parent(x) \in known}
      BY <1>4 DEF Ambiguous
  <2> QED BY <1>4, <2>1, <2>2
<1> QED BY <1>1, <1>2, <1>3, <1>4

LEMMA WrittenIsAll ==
    ASSUME NEW S \in SUBSET Statements, NEW known
    PROVE  Written(S, known) = AllNames(S)
<1> DEFINE N(s) == IF s.kind = "import" THEN NamesOf(s.name)
                   ELSE IF s.kind = "from" THEN {s.name, Parent(s.name)} ELSE {s.name}
           R(s) == Recorded(s, known)
           A(s) == Ambiguous(s, known)
<1>1. \A s \in S : R(s) \cup A(s) = N(s)
    BY StatementNames
<1>2. Written(S, known) = (UNION {R(s) : s \in S}) \cup (UNION {A(s) : s \in S})
    BY DEF Written, RecordedAll, AmbiguousAll
<1>3. AllNames(S) = UNION {N(s) : s \in S}
    BY DEF AllNames
<1> HIDE DEF N, R, A
<1> QED BY <1>1, <1>2, <1>3

LEMMA AllNamesType ==
    ASSUME NEW S, Wellformed(S)
    PROVE  AllNames(S) \subseteq Names
<1> SUFFICES ASSUME NEW s \in S, NEW x,
                    x \in (IF s.kind = "import" THEN NamesOf(s.name)
                           ELSE IF s.kind = "from" THEN {s.name, Parent(s.name)} ELSE {s.name})
             PROVE  x \in Names
    BY DEF AllNames
<1>1. s \in Statements /\ (s.kind = "from" => Len(Chain[s.name]) > 1)
    BY DEF Wellformed
<1>2. s.name \in Names
    BY <1>1 DEF Statements
<1>3. NamesOf(s.name) \subseteq Names
    BY <1>2, ChainType DEF NamesOf
<1> QED BY <1>1, <1>2, <1>3, ChainType

\* An ambiguous name is a name of a known parent, and not known itself.
LEMMA AmbiguousNames ==
    ASSUME NEW S, Wellformed(S), NEW known, NEW x \in AmbiguousAll(S, known)
    PROVE  /\ x \in Names /\ x \notin known
           /\ Len(Chain[x]) > 1 /\ Parent(x) \in known
           /\ Parent(x) \in RecordedAll(S, known)
<1>1. PICK s \in S : x \in Ambiguous(s, known)
    BY DEF AmbiguousAll
<1>2. s.kind = "from" /\ x = s.name /\ x \notin known /\ Parent(x) \in known
    BY <1>1 DEF Ambiguous
<1>3. s \in Statements /\ Len(Chain[x]) > 1
    BY <1>2 DEF Wellformed
<1>4. x \in Names
    BY <1>2, <1>3 DEF Statements
<1>5. Parent(x) \in Recorded(s, known)
    BY <1>2 DEF Recorded
<1> QED BY <1>2, <1>3, <1>4, <1>5 DEF RecordedAll

\* A known name is its own nearest module; below a known parent it is the parent.
LEMMA NearestKnown ==
    ASSUME NEW x \in Names, NEW known, x \in known
    PROVE  Resolves(x, known) /\ Nearest(x, known) = x
<1> DEFINE P(n) == Chain[x][n] \in known /\ \A i \in 1..(n - 1) : Chain[x][i] \notin known
           c == CHOOSE n \in 1..Len(Chain[x]) : P(n)
<1>1. 1 \in 1..Len(Chain[x]) /\ Chain[x][1] = x
    BY ChainType
<1>2. P(1)
    BY <1>1
<1>3. \A n \in 1..Len(Chain[x]) : P(n) => n = 1
    BY <1>1
<1> HIDE DEF P
<1>4. c = 1
    BY <1>1, <1>2, <1>3
<1>5. Nearest(x, known) = Chain[x][c]
    BY DEF Nearest, P
<1> QED BY <1>1, <1>4, <1>5 DEF Resolves

LEMMA NearestParent ==
    ASSUME NEW x \in Names, NEW known, x \notin known, Len(Chain[x]) > 1, Parent(x) \in known
    PROVE  Resolves(x, known) /\ Nearest(x, known) = Parent(x)
<1> DEFINE P(n) == Chain[x][n] \in known /\ \A i \in 1..(n - 1) : Chain[x][i] \notin known
           c == CHOOSE n \in 1..Len(Chain[x]) : P(n)
<1>1. 2 \in 1..Len(Chain[x]) /\ Chain[x][1] = x /\ Chain[x][2] \in known
    BY ChainType DEF Parent
<1>2. P(2)
    BY <1>1
<1>3. \A n \in 1..Len(Chain[x]) : P(n) => n = 2
  <2> SUFFICES ASSUME NEW n \in 1..Len(Chain[x]), P(n) PROVE n = 2
      OBVIOUS
  <2>1. n # 1
      BY <1>1
  <2>2. ~(2 < n)
    <3>1. 2 < n => 2 \in 1..(n - 1)
        OBVIOUS
    <3> QED BY <1>1, <3>1
  <2> QED BY <2>1, <2>2, ChainType
<1> HIDE DEF P
<1>4. c = 2
    BY <1>1, <1>2, <1>3
<1>5. Nearest(x, known) = Chain[x][c]
    BY DEF Nearest, P
<1> QED BY <1>1, <1>4, <1>5 DEF Resolves, Parent

LEMMA LeastOf ==
    ASSUME NEW T \in SUBSET Nat, T # {}
    PROVE  \E x \in T : \A y \in T : x <= y
<1> DEFINE R == OpToRel(<, Nat)
<1>1. IsWellFoundedOn(R, Nat)
    BY NatLessThanWellFounded
<1>2. \A y, x \in Nat : y < x => <<y, x>> \in R
    BY DEF OpToRel
<1> HIDE DEF R
<1>3. PICK x \in T : \A y \in T : ~ (<<y, x>> \in R)
    BY <1>1, WFMin, Zenon
<1>4. \A y \in T : y \in Nat /\ x \in Nat /\ ~ (y < x)
    BY <1>2, <1>3
<1>5. \A y \in T : x <= y
    BY <1>4
<1> QED BY <1>5

LEMMA NearestType ==
    ASSUME NEW x \in Names, NEW known, Resolves(x, known)
    PROVE  Nearest(x, known) \in Names \cap known
<1> DEFINE P(n) == Chain[x][n] \in known /\ \A i \in 1..(n - 1) : Chain[x][i] \notin known
           D == {n \in 1..Len(Chain[x]) : Chain[x][n] \in known}
<1>1. Len(Chain[x]) \in Nat /\ D # {} /\ D \subseteq Nat
    BY ChainType DEF Resolves
<1>2. PICK n \in D : \A i \in D : n <= i
    BY <1>1, LeastOf
<1>3. n \in 1..Len(Chain[x]) /\ P(n)
  <2> SUFFICES ASSUME NEW i \in 1..(n - 1), Chain[x][i] \in known PROVE FALSE
      BY <1>2
  <2>1. i \in D
      BY <1>1, <1>2
  <2> QED BY <1>2, <2>1
<1> DEFINE c == CHOOSE k \in 1..Len(Chain[x]) : P(k)
<1> HIDE DEF P
<1>4. c \in 1..Len(Chain[x]) /\ P(c)
    BY <1>3
<1>5. Nearest(x, known) = Chain[x][c]
    BY DEF Nearest, P
<1> QED BY <1>4, <1>5, ChainType DEF P

-----------------------------------------------------------------------------
(* The steps of the incremental path, one record at a time.                 *)

LEMMA StatementsOf ==
    ASSUME NEW p, IsProgram(p), NEW m \in p.modules
    PROVE  /\ Wellformed(p.statements[m])
           /\ Unguarded(p.statements[m]) \subseteq p.statements[m]
           /\ Pruned(p, m) \subseteq p.statements[m]
           /\ m \in Names
<1>1. p.statements[m] \in SUBSET Statements
    BY DEF IsProgram
<1>2. \A s \in p.statements[m] : s.kind = "from" => Len(Chain[s.name]) > 1
    BY DEF IsProgram
<1> QED BY <1>1, <1>2 DEF Wellformed, Unguarded, Pruned, IsProgram

LEMMA AllNamesMonotone ==
    ASSUME NEW S, NEW T, T \subseteq S
    PROVE  AllNames(T) \subseteq AllNames(S)
BY DEF AllNames

LEMMA NoNames == AllNames({}) = {}
BY DEF AllNames

\* A library sees every name of its modules.
LEMMA MapSeen ==
    ASSUME NEW p, IsProgram(p), NEW lib \in p.libraries, NEW m \in lib
    PROVE  Seen(p, m, MapRecord(p, lib, m))
<1> DEFINE known == lib \cup p.stubs
           S == p.statements[m]
           R == RecordedAll(S, known)
           A == AmbiguousAll(S, known)
           r == MapRecord(p, lib, m)
<1>1. lib \subseteq p.modules /\ m \in p.modules /\ known \subseteq Known(p)
    BY DEF IsProgram, Known
<1>2. Wellformed(S) /\ Wellformed(Unguarded(S)) /\ S \in SUBSET Statements
      /\ Unguarded(S) \in SUBSET Statements
    BY <1>1, StatementsOf DEF Wellformed
<1>3. /\ r.imports = R \cap (known \ p.bad) /\ r.missing = R \ (known \ p.bad)
      /\ r.ambiguous = A
      /\ r.guard_only = Written(S, known) \ Written(Unguarded(S), known)
      /\ r = [imports |-> r.imports, missing |-> r.missing,
              ambiguous |-> r.ambiguous, guard_only |-> r.guard_only]
    BY DEF MapRecord
<1>4. R \cup A = AllNames(S)
    BY <1>2, WrittenIsAll DEF Written
<1>5. r.guard_only = AllNames(S) \ AllNames(Unguarded(S))
    BY <1>2, <1>3, WrittenIsAll
<1>6. AllNames(S) \subseteq Names
    BY <1>2, AllNamesType
<1>7. \A x \in A : x \notin known /\ Len(Chain[x]) > 1 /\ Parent(x) \in known
    BY <1>2, AmbiguousNames
<1>8. p.bad = {} => m \notin r.missing \cup r.ambiguous
    BY <1>3, <1>7
<1> HIDE DEF r, R, A, S, known
<1>9. r \in Records
    BY <1>3, <1>4, <1>5, <1>6 DEF Records
<1>10. r.imports \cup r.missing \cup r.ambiguous = AllNames(S) /\ r.missing \cap r.imports = {}
    BY <1>3, <1>4
<1>11. r.imports \subseteq Known(p) /\ \A x \in r.ambiguous : Len(Chain[x]) > 1 /\ Parent(x) \in Known(p)
    BY <1>1, <1>3, <1>7
<1> QED BY <1>5, <1>8, <1>9, <1>10, <1>11 DEF Seen, S, r

LEMMA JoinSeen ==
    ASSUME NEW p, NEW m, NEW a, NEW b, Seen(p, m, a), Seen(p, m, b)
    PROVE  Seen(p, m, Join(a, b))
<1> DEFINE r == Join(a, b)
<1>1. a \in Records /\ b \in Records
    BY DEF Seen
<1>2. /\ r.imports = a.imports \cup b.imports /\ r.missing = a.missing \cap b.missing
      /\ r.ambiguous = a.ambiguous \cup b.ambiguous
      /\ r.guard_only = a.guard_only \cap b.guard_only
      /\ r = [imports |-> r.imports, missing |-> r.missing,
              ambiguous |-> r.ambiguous, guard_only |-> r.guard_only]
    BY DEF Join
<1> HIDE DEF r
<1>3. r \in Records
    BY <1>1, <1>2 DEF Records
<1>4. r.imports \cup r.missing \cup r.ambiguous = AllNames(p.statements[m])
    BY <1>2 DEF Seen
<1>5. r.missing \cap r.imports = {}
    BY <1>2 DEF Seen
<1> QED BY <1>2, <1>3, <1>4, <1>5 DEF Seen, r

\* Where the guards do not run, what is left are the names outside them.
LEMMA FilterSeen ==
    ASSUME NEW p, IsProgram(p), NEW m \in p.modules, NEW r, Seen(p, m, r)
    PROVE  Filtered(p, m, IF p.main \in {NoMain, m} THEN r ELSE WithoutGuarded(r))
<1> DEFINE S == p.statements[m]
           w == WithoutGuarded(r)
<1>1. CASE p.main \in {NoMain, m}
  <2>1. m # NoMain
      BY StatementsOf, MainAssumption
  <2>2. Kept(p, m) = AllNames(S)
    <3>1. m # p.main => p.main = NoMain
        BY <1>1
    <3>2. p.main = NoMain => Pruned(p, m) = S
        BY DEF Pruned
    <3> QED BY <3>1, <3>2 DEF Kept
  <2> QED BY <1>1, <2>2 DEF Seen, Filtered
<1>2. CASE p.main \notin {NoMain, m}
  <2>1. Pruned(p, m) = Unguarded(S)
      BY <1>2 DEF Pruned, Unguarded
  <2>2. Kept(p, m) = AllNames(Unguarded(S))
      BY <1>2, <2>1 DEF Kept
  <2>3. AllNames(Unguarded(S)) \subseteq AllNames(S)
      BY StatementsOf, AllNamesMonotone
  <2>4. r \in Records /\ r.guard_only = AllNames(S) \ AllNames(Unguarded(S))
      BY DEF Seen
  <2>5. /\ w \in Records /\ w.imports = r.imports \ r.guard_only
        /\ w.missing = r.missing \ r.guard_only
        /\ w.ambiguous = r.ambiguous \ r.guard_only
      BY <2>4 DEF WithoutGuarded, Records
  <2> HIDE DEF w, S
  <2>6. r.imports \cup r.missing \cup r.ambiguous = AllNames(S)
      BY DEF Seen, S
  <2>7. w.imports \cup w.missing \cup w.ambiguous = Kept(p, m)
      BY <2>2, <2>3, <2>4, <2>5, <2>6
  <2> QED BY <1>2, <2>5, <2>7 DEF Seen, Filtered, w
<1> QED BY <1>1, <1>2

-----------------------------------------------------------------------------
(* Both paths resolve alike.                                                *)

LEMMA KeptNames ==
    ASSUME NEW p, IsProgram(p), NEW m \in p.modules
    PROVE  /\ Kept(p, m) \subseteq Names
           /\ AllNames(Pruned(p, m)) \subseteq Kept(p, m)
           /\ m # p.main => Kept(p, m) = AllNames(Pruned(p, m))
           /\ AllNames(Pruned(p, m)) =
                 WholeNames(p, m) \cup AmbiguousAll(Pruned(p, m), Known(p))
<1> DEFINE S == p.statements[m]
           P == Pruned(p, m)
<1>1. Wellformed(S) /\ P \subseteq S /\ Wellformed(P) /\ P \in SUBSET Statements
    BY StatementsOf DEF Wellformed
<1>2. AllNames(P) \subseteq AllNames(S) /\ AllNames(S) \subseteq Names
    BY <1>1, AllNamesMonotone, AllNamesType
<1>3. Written(P, Known(p)) = AllNames(P)
    BY <1>1, WrittenIsAll
<1> HIDE DEF P, S
<1>4. AllNames(P) \subseteq Kept(p, m) /\ Kept(p, m) \subseteq Names
    BY <1>2 DEF Kept, P, S
<1>5. m # p.main => Kept(p, m) = AllNames(P)
    BY DEF Kept, P
<1>6. WholeNames(p, m) \cup AmbiguousAll(P, Known(p)) = AllNames(P)
    BY <1>3 DEF Written, WholeNames, Known, P
<1> QED BY <1>4, <1>5, <1>6 DEF P

LEMMA EdgesType ==
    ASSUME NEW m, NEW X, X \subseteq Names, NEW known
    PROVE  ResolvedEdges(m, X, known) \subseteq Names \cap known
BY NearestType DEF ResolvedEdges

LEMMA FinalRecord ==
    ASSUME NEW p, IsProgram(p), NEW m, NEW r, Filtered(p, m, r)
    PROVE  /\ AfterAmbiguous(p, m, r) \in Records
           /\ AfterAmbiguous(p, m, r).ambiguous = {}
           /\ AfterMissing(p, m, AfterAmbiguous(p, m, r)) \in Records
           /\ AfterMissing(p, m, AfterAmbiguous(p, m, r)).ambiguous = {}
           /\ AfterMissing(p, m, AfterAmbiguous(p, m, r)).imports =
                 r.imports \cup ResolvedEdges(m, r.ambiguous, Known(p))
                           \cup ResolvedEdges(m, r.missing, Known(p))
           /\ AfterMissing(p, m, AfterAmbiguous(p, m, r)).missing =
                 {x \in r.missing : ~Resolves(x, Known(p))}
<1>1. r \in Records
    BY DEF Filtered
<1>2. r.ambiguous \subseteq Names /\ r.missing \subseteq Names
    BY <1>1 DEF Records
<1>3. /\ ResolvedEdges(m, r.ambiguous, Known(p)) \subseteq Names
      /\ ResolvedEdges(m, r.missing, Known(p)) \subseteq Names
    BY <1>2, EdgesType
<1> QED BY <1>1, <1>3 DEF AfterAmbiguous, AfterMissing, Records

\* A known name is an edge of the result, wherever the record has it.
LEMMA EdgesComplete ==
    ASSUME NEW p, IsProgram(p), p.bad = {}, NEW m \in p.modules,
           NEW r, Filtered(p, m, r)
    PROVE  WholeEdges(p, m) \subseteq
              AfterMissing(p, m, AfterAmbiguous(p, m, r)).imports
<1> DEFINE K == Known(p)
           W == WholeNames(p, m)
           F == AfterMissing(p, m, AfterAmbiguous(p, m, r)).imports
<1>1. F = r.imports \cup ResolvedEdges(m, r.ambiguous, K) \cup ResolvedEdges(m, r.missing, K)
    BY FinalRecord
<1>2. WholeEdges(p, m) = (W \cap K) \cup ResolvedEdges(m, W \ K, K)
    BY DEF WholeEdges, WholeNodes, Known
<1>3. W \subseteq Names /\ W \subseteq r.imports \cup r.missing \cup r.ambiguous
    BY KeptNames DEF Filtered
<1>4. r.imports \subseteq K /\ m \notin r.missing \cup r.ambiguous
    BY DEF Filtered
<1> HIDE DEF F, W, K
<1>5. ASSUME NEW x \in W \cap K PROVE x \in F
  <2>1. Resolves(x, K) /\ Nearest(x, K) = x
      BY <1>3, <1>5, NearestKnown
  <2>2. x \in r.missing => x \in ResolvedEdges(m, r.missing, K)
      BY <1>4, <2>1 DEF ResolvedEdges
  <2>3. x \in r.ambiguous => x \in ResolvedEdges(m, r.ambiguous, K)
      BY <1>4, <2>1 DEF ResolvedEdges
  <2> QED BY <1>1, <1>3, <1>5, <2>2, <2>3
<1>6. ResolvedEdges(m, W \ K, K) \subseteq F
  <2>1. W \ K \subseteq r.missing \cup r.ambiguous
      BY <1>3, <1>4
  <2>2. ResolvedEdges(m, W \ K, K) \subseteq
            ResolvedEdges(m, r.missing, K) \cup ResolvedEdges(m, r.ambiguous, K)
      BY <2>1 DEF ResolvedEdges
  <2> QED BY <1>1, <2>2
<1> QED BY <1>2, <1>5, <1>6 DEF F

\* Nothing but the names outside the guards leads to an edge.
LEMMA EdgesSound ==
    ASSUME NEW p, IsProgram(p), p.bad = {}, NEW m \in p.modules, m # p.main,
           NEW r, Filtered(p, m, r)
    PROVE  AfterMissing(p, m, AfterAmbiguous(p, m, r)).imports \subseteq
              WholeEdges(p, m)
<1> DEFINE K == Known(p)
           W == WholeNames(p, m)
           A == AmbiguousAll(Pruned(p, m), K)
           F == AfterMissing(p, m, AfterAmbiguous(p, m, r)).imports
           E == WholeEdges(p, m)
<1>1. F = r.imports \cup ResolvedEdges(m, r.ambiguous, K) \cup ResolvedEdges(m, r.missing, K)
    BY FinalRecord
<1>2. E = (W \cap K) \cup ResolvedEdges(m, W \ K, K)
    BY DEF WholeEdges, WholeNodes, Known
<1>3. W \cup A = r.imports \cup r.missing \cup r.ambiguous /\ W \cup A \subseteq Names
    BY KeptNames DEF Filtered
<1>4. \A x \in A : x \notin K /\ Len(Chain[x]) > 1 /\ Parent(x) \in K /\ Parent(x) \in W
  <2>1. Wellformed(Pruned(p, m))
      BY StatementsOf DEF Wellformed
  <2> QED BY <2>1, AmbiguousNames DEF WholeNames, Known
<1>5. r.imports \subseteq K
    BY DEF Filtered
<1> HIDE DEF F, E, W, A, K
<1>6. r.imports \subseteq E
    BY <1>2, <1>3, <1>4, <1>5
<1>7. ASSUME NEW x \in W \cup A, Resolves(x, K), Nearest(x, K) # m
      PROVE  Nearest(x, K) \in E
  <2>1. CASE x \in W \cap K
      BY <1>2, <1>3, <2>1, NearestKnown
  <2>2. CASE x \in W \ K
      BY <1>2, <1>7, <2>2 DEF ResolvedEdges
  <2>3. CASE x \in A
    <3>1. Nearest(x, K) = Parent(x)
        BY <1>3, <1>4, <2>3, NearestParent
    <3> QED BY <1>2, <1>4, <2>3, <3>1
  <2> QED BY <1>7, <2>1, <2>2, <2>3
<1>8. /\ ResolvedEdges(m, r.ambiguous, K) \subseteq E
      /\ ResolvedEdges(m, r.missing, K) \subseteq E
    BY <1>3, <1>7 DEF ResolvedEdges
<1> QED BY <1>1, <1>6, <1>8 DEF F, E

LEMMA MissingExact ==
    ASSUME NEW p, IsProgram(p), p.bad = {}, NEW m \in p.modules, m # p.main,
           NEW r, Filtered(p, m, r)
    PROVE  AfterMissing(p, m, AfterAmbiguous(p, m, r)).missing = WholeMissing(p, m)
<1> DEFINE K == Known(p)
           W == WholeNames(p, m)
           A == AmbiguousAll(Pruned(p, m), K)
           F == AfterMissing(p, m, AfterAmbiguous(p, m, r)).missing
<1>1. F = {x \in r.missing : ~Resolves(x, K)}
    BY FinalRecord
<1>2. WholeMissing(p, m) = {x \in W \ K : ~Resolves(x, K)}
    BY DEF WholeMissing, WholeNodes, Known
<1>3. W \cup A = r.imports \cup r.missing \cup r.ambiguous /\ W \cup A \subseteq Names
    BY KeptNames DEF Filtered
<1>4. \A x \in A : x \notin K /\ Len(Chain[x]) > 1 /\ Parent(x) \in K
  <2>1. Wellformed(Pruned(p, m))
      BY StatementsOf DEF Wellformed
  <2> QED BY <2>1, AmbiguousNames
<1>5. r.imports \subseteq K /\ \A x \in r.ambiguous : Len(Chain[x]) > 1 /\ Parent(x) \in K
    BY DEF Filtered
<1> HIDE DEF F, W, A, K
<1>6. \A x \in Names : x \in K => Resolves(x, K)
    BY NearestKnown
<1>7. \A x \in Names : Len(Chain[x]) > 1 /\ Parent(x) \in K => Resolves(x, K)
    BY <1>6, NearestParent
<1>8. ASSUME NEW x \in r.missing, ~Resolves(x, K) PROVE x \in W \ K
    BY <1>3, <1>4, <1>6, <1>7, <1>8
<1>9. ASSUME NEW x \in W \ K, ~Resolves(x, K) PROVE x \in r.missing
    BY <1>3, <1>5, <1>7, <1>9
<1> QED BY <1>1, <1>2, <1>8, <1>9 DEF F

-----------------------------------------------------------------------------
(* The inductive invariant.                                                 *)

LEMMA InitInv == Init => IInv
<1> SUFFICES ASSUME Init PROVE IInv
    OBVIOUS
<1>1. prog \in Programs /\ phase = "map" /\ DOMAIN caches = {} /\ DOMAIN merged = {}
    BY DEF Init
<1>2. IsProgram(prog)
    BY <1>1, ProgramsAssumption
<1>3. merged \in [DOMAIN merged -> Records]
    BY <1>1 DEF Init
<1> QED BY <1>1, <1>2, <1>3 DEF IInv, TypeOK

LEMMA MapStep ==
    ASSUME IInv, NEW lib \in prog.libraries, MapLibrary(lib)
    PROVE  IInv'
<1>1. /\ phase = "map" /\ DOMAIN merged = {} /\ IsProgram(prog)
      /\ prog' = prog /\ phase' = phase /\ merged' = merged
      /\ DOMAIN caches' = (DOMAIN caches) \cup {lib} /\ DOMAIN caches' \subseteq prog.libraries
    BY DEF MapLibrary, IInv, TypeOK
<1>2. ASSUME NEW l \in DOMAIN caches'
      PROVE  caches'[l] \in [l -> Records] /\ \A m \in l : Seen(prog, m, caches'[l][m])
  <2>1. CASE l = lib
    <3>1. caches'[l] = [m \in lib |-> MapRecord(prog, lib, m)]
        BY <1>2, <2>1 DEF MapLibrary
    <3>2. \A m \in lib : Seen(prog, m, MapRecord(prog, lib, m))
        BY <1>1, MapSeen
    <3> QED BY <2>1, <3>1, <3>2 DEF Seen
  <2>2. CASE l # lib
    <3>1. l \in DOMAIN caches /\ caches'[l] = caches[l]
        BY <1>1, <1>2, <2>2 DEF MapLibrary
    <3> QED BY <3>1 DEF IInv, TypeOK
  <2> QED BY <2>1, <2>2
<1> QED BY <1>1, <1>2 DEF IInv, TypeOK

LEMMA StartStep ==
    ASSUME IInv, StartMerge
    PROVE  IInv'
<1>1. /\ phase = "map" /\ phase' = "merge" /\ DOMAIN merged = {}
      /\ prog' = prog /\ caches' = caches /\ merged' = merged
      /\ DOMAIN caches = prog.libraries /\ UNION prog.libraries = prog.modules
    BY DEF StartMerge, IInv, TypeOK, IsProgram
<1> QED BY <1>1 DEF IInv, TypeOK

LEMMA FoldStep ==
    ASSUME IInv, NEW lib \in prog.libraries, FoldCache(lib)
    PROVE  IInv'
<1>1. /\ phase = "merge" /\ phase' = "merge" /\ prog' = prog /\ IsProgram(prog)
      /\ lib \in DOMAIN caches /\ lib \subseteq prog.modules
      /\ DOMAIN caches' = (DOMAIN caches) \ {lib}
      /\ \A l \in DOMAIN caches' : caches'[l] = caches[l]
      /\ DOMAIN merged' = (DOMAIN merged) \cup lib
      /\ merged' = [m \in DOMAIN merged' |-> merged'[m]]
    BY DEF FoldCache, IInv, TypeOK, IsProgram
<1>2. ASSUME NEW m \in DOMAIN merged'
      PROVE  Seen(prog, m, merged'[m])
  <2>1. m \in DOMAIN merged => Seen(prog, m, merged[m])
      BY <1>1 DEF IInv
  <2>2. m \in lib => Seen(prog, m, caches[lib][m])
      BY <1>1 DEF IInv
  <2>3. merged'[m] = IF m \notin DOMAIN merged THEN caches[lib][m]
                     ELSE IF m \notin lib THEN merged[m]
                     ELSE Join(merged[m], caches[lib][m])
      BY <1>1, <1>2 DEF FoldCache
  <2> QED BY <1>1, <1>2, <2>1, <2>2, <2>3, JoinSeen
<1>3. merged' \in [DOMAIN merged' -> Records]
    BY <1>1, <1>2 DEF Seen
<1>4. (DOMAIN merged') \cup UNION (DOMAIN caches') = prog.modules
    BY <1>1 DEF IInv
<1> QED BY <1>1, <1>2, <1>3, <1>4 DEF IInv, TypeOK

LEMMA ApplyStep ==
    ASSUME IInv, ApplyMainModule
    PROVE  IInv'
<1>1. /\ phase = "merge" /\ phase' = "resolve_ambiguous" /\ prog' = prog /\ IsProgram(prog)
      /\ caches' = caches /\ DOMAIN caches = {}
      /\ DOMAIN merged' = DOMAIN merged /\ DOMAIN merged = prog.modules
      /\ merged' = [m \in DOMAIN merged' |-> merged'[m]]
    BY DEF ApplyMainModule, IInv, TypeOK
<1>2. ASSUME NEW m \in DOMAIN merged'
      PROVE  Filtered(prog, m, merged'[m])
  <2>1. Seen(prog, m, merged[m]) /\ m \in prog.modules
      BY <1>1 DEF IInv
  <2>2. merged'[m] = IF prog.main \in {NoMain, m} THEN merged[m] ELSE WithoutGuarded(merged[m])
      BY <1>1 DEF ApplyMainModule
  <2> QED BY <1>1, <2>1, <2>2, FilterSeen
<1>3. merged' \in [DOMAIN merged' -> Records]
    BY <1>1, <1>2 DEF Filtered
<1> QED BY <1>1, <1>2, <1>3 DEF IInv, TypeOK

LEMMA AmbiguousStep ==
    ASSUME IInv, ResolveAmbiguous
    PROVE  IInv'
<1>1. /\ phase = "resolve_ambiguous" /\ phase' = "resolve_missing" /\ prog' = prog
      /\ IsProgram(prog) /\ caches' = caches
      /\ DOMAIN merged' = DOMAIN merged /\ DOMAIN merged = prog.modules
      /\ merged' = [m \in DOMAIN merged' |-> merged'[m]]
      /\ ModuleNames = Known(prog)
    BY DEF ResolveAmbiguous, IInv, TypeOK, ModuleNames, Known
<1>2. ASSUME NEW m \in DOMAIN merged'
      PROVE  /\ Filtered(prog, m, merged[m])
             /\ merged'[m] = AfterAmbiguous(prog, m, merged[m])
             /\ merged'[m] \in Records /\ merged'[m].ambiguous = {}
  <2>1. Filtered(prog, m, merged[m])
      BY <1>1 DEF IInv
  <2>2. merged'[m] = AfterAmbiguous(prog, m, merged[m])
      BY <1>1 DEF ResolveAmbiguous, AfterAmbiguous
  <2> QED BY <1>1, <2>1, <2>2, FinalRecord
<1>3. merged' \in [DOMAIN merged' -> Records]
    BY <1>1, <1>2
<1> QED BY <1>1, <1>2, <1>3 DEF IInv, TypeOK

LEMMA MissingStep ==
    ASSUME IInv, ResolveMissing
    PROVE  IInv'
<1>1. /\ phase = "resolve_missing" /\ phase' = "done" /\ prog' = prog
      /\ IsProgram(prog) /\ caches' = caches
      /\ DOMAIN merged' = DOMAIN merged /\ DOMAIN merged = prog.modules
      /\ merged' = [m \in DOMAIN merged' |-> merged'[m]]
      /\ ModuleNames = Known(prog)
    BY DEF ResolveMissing, IInv, TypeOK, ModuleNames, Known
<1>2. ASSUME NEW m \in DOMAIN merged'
      PROVE  /\ \E r : /\ Filtered(prog, m, r)
                        /\ merged'[m] = AfterMissing(prog, m, AfterAmbiguous(prog, m, r))
             /\ merged'[m] \in Records /\ merged'[m].ambiguous = {}
  <2>1. PICK r : Filtered(prog, m, r) /\ merged[m] = AfterAmbiguous(prog, m, r)
      BY <1>1 DEF IInv
  <2>2. merged'[m] = AfterMissing(prog, m, merged[m])
      BY <1>1 DEF ResolveMissing, AfterMissing
  <2> QED BY <1>1, <2>1, <2>2, FinalRecord
<1>3. merged' \in [DOMAIN merged' -> Records]
    BY <1>1, <1>2
<1> QED BY <1>1, <1>2, <1>3 DEF IInv, TypeOK

LEMMA NextInv == IInv /\ [Next]_vars => IInv'
<1> SUFFICES ASSUME IInv, [Next]_vars PROVE IInv'
    OBVIOUS
<1>1. ASSUME NEW lib \in prog.libraries, MapLibrary(lib) PROVE IInv'
    BY <1>1, MapStep
<1>2. ASSUME NEW lib \in prog.libraries, FoldCache(lib) PROVE IInv'
    BY <1>2, FoldStep
<1>3. CASE UNCHANGED vars
    BY <1>3 DEF vars, IInv, TypeOK
<1> QED BY <1>1, <1>2, <1>3, StartStep, ApplyStep, AmbiguousStep, MissingStep DEF Next, Done

LEMMA SpecInv == Spec => []IInv
BY InitInv, NextInv, PTL DEF Spec

-----------------------------------------------------------------------------
(* The theorems.                                                            *)

\* The records of the caches and of the merge have their types, every module has
\* one after the merge, and no import stays ambiguous (CachedModule::merge,
\* resolve_ambiguous_imports).
THEOREM TypeCorrect == Spec => []TypeOK
<1>1. IInv => TypeOK
    BY DEF IInv
<1> QED BY <1>1, SpecInv, PTL

\* However a program is split into libraries and in whatever order their caches
\* are merged, a merged record has every name its module writes, and calls none
\* missing that some library resolved (merge_dep_caches).
THEOREM KeepsEveryName == Spec => []NothingLost
<1>1. IInv => NothingLost
    BY DEF IInv, NothingLost, Seen
<1> QED BY <1>1, SpecInv, PTL

\* For every module but the entry point the reduce ends with the edges and the
\* missing imports of one pass over the whole program (resolve_ambiguous_imports,
\* resolve_cross_library_errors, resolve_missing_to_known).
THEOREM BothPathsAgree == Spec => []PathsAgree
<1>1. IInv => PathsAgree
  <2> SUFFICES ASSUME IInv, phase = "done", prog.bad = {}, NEW m \in prog.modules \ {prog.main}
               PROVE  merged[m].imports = WholeEdges(prog, m)
                      /\ merged[m].missing = WholeMissing(prog, m)
      BY DEF PathsAgree
  <2>1. IsProgram(prog) /\ m \in DOMAIN merged
      BY DEF IInv, TypeOK
  <2>2. PICK r : /\ Filtered(prog, m, r)
                 /\ merged[m] = AfterMissing(prog, m, AfterAmbiguous(prog, m, r))
      BY <2>1 DEF IInv
  <2>3. m \in prog.modules /\ m # prog.main
      OBVIOUS
  <2>4. /\ WholeEdges(prog, m) \subseteq merged[m].imports
        /\ merged[m].imports \subseteq WholeEdges(prog, m)
      BY <2>1, <2>2, <2>3, EdgesComplete, EdgesSound
  <2>5. merged[m].missing = WholeMissing(prog, m)
      BY <2>1, <2>2, <2>3, MissingExact
  <2> QED BY <2>4, <2>5
<1> QED BY <1>1, SpecInv, PTL

\* In every module, the entry point included, no edge of the whole-program pass is
\* absent from the result of the reduce (apply_main_module).
THEOREM NoEdgeAbsent == Spec => []KeepsMore
<1>1. IInv => KeepsMore
  <2> SUFFICES ASSUME IInv, phase = "done", prog.bad = {}, NEW m \in prog.modules
               PROVE  WholeEdges(prog, m) \subseteq merged[m].imports
      BY DEF KeepsMore
  <2>1. IsProgram(prog) /\ m \in DOMAIN merged
      BY DEF IInv, TypeOK
  <2>2. PICK r : /\ Filtered(prog, m, r)
                 /\ merged[m] = AfterMissing(prog, m, AfterAmbiguous(prog, m, r))
      BY <2>1 DEF IInv
  <2> QED BY <2>1, <2>2, EdgesComplete
<1> QED BY <1>1, SpecInv, PTL

-----------------------------------------------------------------------------
(* Caches: recursion along a sequence.                                      *)

\* Every set of naturals has a smallest member.
LEMMA SmallestNumber ==
    ASSUME NEW T, T \subseteq Nat, T # {}
    PROVE  \E n \in T : \A m \in T : n <= m
<1> DEFINE R == OpToRel(<, Nat)
<1>1. IsWellFoundedOn(R, Nat)
  BY NatLessThanWellFounded
<1>2. \A a, b \in Nat : a < b => <<a, b>> \in R
  BY DEF OpToRel
<1> HIDE DEF R
<1>3. PICK n \in T : \A m \in T : <<m, n>> \notin R
  BY <1>1, WFMin
<1>4. ASSUME NEW m \in T PROVE n <= m
  <2>1. m \in Nat /\ n \in Nat /\ ~(m < n)
    BY <1>2, <1>3
  <2> QED
    BY <2>1
<1> QED
  BY <1>4

\* A sequence with the first members of another added.
LEMMA ExtensionExists ==
    ASSUME NEW S, NEW target \in Seq(S), NEW other \in Seq(S)
    PROVE  \E f \in [0..Len(other) -> Seq(S)] :
              /\ f[0] = target
              /\ \A n \in 1..Len(other) :
                    f[n] = IF Contains(f[n - 1], other[n]) THEN f[n - 1] ELSE Append(f[n - 1], other[n])
<1> DEFINE last == Len(other)
           Step(n, s) == IF Contains(s, other[n]) THEN s ELSE Append(s, other[n])
           Steps(k, f) == f \in [0..k -> Seq(S)] /\ f[0] = target /\ \A n \in 1..k : f[n] = Step(n, f[n - 1])
           missed == {k \in 0..last : ~ \E f : Steps(k, f)}
<1>0. last \in Nat /\ \A n \in 1..last : \A s \in Seq(S) : Step(n, s) \in Seq(S)
  OBVIOUS
<1> HIDE DEF Step, last
<1>1. ASSUME missed # {} PROVE FALSE
  <2>1. missed \subseteq Nat
    BY <1>0
  <2>2. PICK k \in missed : \A j \in missed : k <= j
    <3> HIDE DEF missed
    <3> QED
      BY <1>1, <2>1, SmallestNumber
  <2>3. k \in 0..last /\ k \in Nat /\ ~ \E f : Steps(k, f)
    BY <1>0
  <2>4. CASE k = 0
    <3> DEFINE f == [n \in 0..0 |-> target]
    <3>1. f \in [0..0 -> Seq(S)] /\ f[0] = target /\ \A n \in 1..0 : FALSE
      OBVIOUS
    <3>2. Steps(0, f)
      BY <3>1
    <3> QED
      BY <2>3, <2>4, <3>2
  <2>5. CASE k # 0
    <3>1. k - 1 \in 0..last /\ ~(k <= k - 1) /\ k \in 1..last
      BY <1>0, <2>3, <2>5
    <3>2. PICK g : Steps(k - 1, g)
      BY <2>2, <3>1
    <3> DEFINE f == [n \in 0..k |-> IF n = k THEN Step(k, g[k - 1]) ELSE g[n]]
    <3>3. g[k - 1] \in Seq(S)
      <4>1. k - 1 \in 0..(k - 1)
        BY <3>1
      <4> QED
        BY <3>2, <4>1
    <3>4. Step(k, g[k - 1]) \in Seq(S)
      BY <1>0, <3>1, <3>3
    <3>5. \A n \in 0..k : n # k => n \in 0..(k - 1)
      BY <2>3
    <3>6. f \in [0..k -> Seq(S)]
      <4>1. ASSUME NEW n \in 0..k PROVE f[n] \in Seq(S)
        BY <3>2, <3>4, <3>5
      <4> QED
        BY <4>1
    <3>7. f[0] = target
      <4>1. 0 \in 0..k /\ 0 # k
        BY <2>3, <2>5
      <4> QED
        BY <3>2, <4>1
    <3>8. ASSUME NEW n \in 1..k PROVE f[n] = Step(n, f[n - 1])
      <4>1. n - 1 \in 0..k /\ n - 1 # k /\ n \in 0..k
        BY <2>3
      <4>2. f[n - 1] = g[n - 1]
        BY <4>1
      <4>3. CASE n = k
        BY <4>1, <4>2, <4>3
      <4>4. CASE n # k
        <5>1. n \in 1..(k - 1)
          BY <2>3, <4>4
        <5>2. f[n] = g[n] /\ g[n] = Step(n, g[n - 1])
          BY <3>2, <4>1, <4>4, <5>1
        <5> HIDE DEF f
        <5> QED
          BY <4>2, <5>2
      <4> QED
        BY <4>3, <4>4
    <3>9. Steps(k, f)
      BY <3>6, <3>7, <3>8
    <3> QED
      BY <2>3, <3>9
  <2> QED
    BY <2>4, <2>5
<1>2. PICK f : Steps(last, f)
  <2>1. last \in 0..last
    BY <1>0
  <2> QED
    BY <1>1, <2>1
<1> QED
  BY <1>2 DEF Step, last

\* extend_deduped is defined by recursion: its equation determines it.
LEMMA ExtendSteps ==
    ASSUME NEW S, NEW target \in Seq(S), NEW other \in Seq(S)
    PROVE  \E f \in [0..Len(other) -> Seq(S)] :
              /\ f[0] = target
              /\ \A n \in 1..Len(other) :
                    f[n] = IF Contains(f[n - 1], other[n]) THEN f[n - 1] ELSE Append(f[n - 1], other[n])
              /\ ExtendDeduped(target, other) = f[Len(other)]
<1> DEFINE last == Len(other)
           extended == CHOOSE g : g = [n \in 0..last |->
                          IF n = 0 THEN target
                          ELSE IF Contains(g[n - 1], other[n]) THEN g[n - 1]
                          ELSE Append(g[n - 1], other[n])]
<1>1. last \in Nat
  OBVIOUS
<1>4. PICK f \in [0..last -> Seq(S)] :
         /\ f[0] = target
         /\ \A n \in 1..last :
              f[n] = IF Contains(f[n - 1], other[n]) THEN f[n - 1] ELSE Append(f[n - 1], other[n])
  BY ExtensionExists
<1>6. ExtendDeduped(target, other) = extended[last]
  BY DEF ExtendDeduped
<1> DEFINE Right(g) == g = [n \in 0..last |->
                          IF n = 0 THEN target
                          ELSE IF Contains(g[n - 1], other[n]) THEN g[n - 1]
                          ELSE Append(g[n - 1], other[n])]
<1>7. Right(f)
  <2>1. f = [n \in 0..last |-> f[n]]
    OBVIOUS
  <2>2. \A n \in 0..last : f[n] = IF n = 0 THEN target
                          ELSE IF Contains(f[n - 1], other[n]) THEN f[n - 1]
                          ELSE Append(f[n - 1], other[n])
    <3>1. \A n \in 0..last : n # 0 => n \in 1..last
      BY <1>1
    <3> QED
      BY <1>4, <3>1
  <2> QED
    BY <2>1, <2>2, Zenon
<1>8. Right(extended)
  <2>1. extended = CHOOSE g : Right(g)
    OBVIOUS
  <2> HIDE DEF Right, extended
  <2> QED
    BY <1>7, <2>1
<1>9. DOMAIN extended = 0..last /\ \A n \in 0..last : extended[n] = IF n = 0 THEN target
                          ELSE IF Contains(extended[n - 1], other[n]) THEN extended[n - 1]
                          ELSE Append(extended[n - 1], other[n])
  <2> HIDE DEF extended
  <2> QED
    BY <1>8, Zenon
<1> HIDE DEF extended
<1>10. extended[0] = target
  BY <1>1, <1>9
<1> DEFINE wrong == {n \in 0..last : extended[n] # f[n]}
<1>11. ASSUME wrong # {} PROVE FALSE
  <2>1. wrong \subseteq Nat
    OBVIOUS
  <2>2. PICK k \in wrong : \A j \in wrong : k <= j
    <3> HIDE DEF wrong
    <3> QED
      BY <1>11, <2>1, SmallestNumber
  <2>3. k \in 0..last /\ k # 0 /\ extended[k] # f[k]
    BY <1>4, <1>10
  <2>4. k - 1 \in 0..last /\ ~(k <= k - 1) /\ k \in 1..last
    BY <2>3
  <2>5. extended[k - 1] = f[k - 1]
    BY <2>2, <2>4
  <2> QED
    BY <1>4, <1>9, <2>3, <2>4, <2>5
<1>12. extended[last] = f[last]
  BY <1>1, <1>11
<1> QED
  BY <1>4, <1>6, <1>12

LEMMA ToSetIs ==
    ASSUME NEW S, NEW s \in Seq(S)
    PROVE  ToSet(s) = {s[k] : k \in 1..Len(s)} /\ ToSet(s) \subseteq S
<1>1. DOMAIN s = 1..Len(s) /\ \A k \in 1..Len(s) : s[k] \in S
  OBVIOUS
<1> QED
  BY <1>1 DEF ToSet

\* e is target extended by the first n members of other.
ExtendedBy(e, target, other, n) ==
    /\ Len(target) <= Len(e)
    /\ \A k \in 1..Len(target) : e[k] = target[k]
    /\ ToSet(e) = ToSet(target) \cup {other[q] : q \in 1..n}
    /\ \A k \in (Len(target) + 1)..Len(e) : \E q \in 1..n :
          /\ other[q] = e[k] /\ e[k] \notin ToSet(target)
          /\ \A p \in 1..(q - 1) : other[p] # e[k]
          /\ \A j \in (Len(target) + 1)..(k - 1) : \E p \in 1..(q - 1) : other[p] = e[j]

LEMMA ExtendOne ==
    ASSUME NEW S, NEW target \in Seq(S), NEW other \in Seq(S), NEW n \in 1..Len(other),
           NEW e \in Seq(S), ExtendedBy(e, target, other, n - 1)
    PROVE  ExtendedBy(IF Contains(e, other[n]) THEN e ELSE Append(e, other[n]), target, other, n)
<1>1. n \in Nat /\ n - 1 \in Nat /\ other[n] \in S /\ n \in 1..n /\ Len(other) \in Nat
  OBVIOUS
<1>2. {other[q] : q \in 1..n} = {other[q] : q \in 1..(n - 1)} \cup {other[n]}
  <2>1. \A q \in 1..n : q = n \/ q \in 1..(n - 1)
    BY <1>1
  <2>2. 1..(n - 1) \subseteq 1..n
    BY <1>1
  <2> QED
    BY <1>1, <2>1, <2>2
<1>3. \A k \in (Len(target) + 1)..Len(e) : \E q \in 1..(n - 1) :
          /\ other[q] = e[k] /\ e[k] \notin ToSet(target)
          /\ \A p \in 1..(q - 1) : other[p] # e[k]
          /\ \A j \in (Len(target) + 1)..(k - 1) : \E p \in 1..(q - 1) : other[p] = e[j]
  BY DEF ExtendedBy
<1>4. 1..(n - 1) \subseteq 1..n
  BY <1>1
<1>5. ToSet(e) = ToSet(target) \cup {other[q] : q \in 1..(n - 1)}
  BY DEF ExtendedBy
<1>6. CASE Contains(e, other[n])
  <2>1. other[n] \in ToSet(e)
    BY <1>6 DEF Contains, ToSet
  <2>2. ToSet(e) = ToSet(target) \cup {other[q] : q \in 1..n}
    BY <1>2, <1>5, <2>1
  <2>3. \A k \in (Len(target) + 1)..Len(e) : \E q \in 1..n :
          /\ other[q] = e[k] /\ e[k] \notin ToSet(target)
          /\ \A p \in 1..(q - 1) : other[p] # e[k]
          /\ \A j \in (Len(target) + 1)..(k - 1) : \E p \in 1..(q - 1) : other[p] = e[j]
    BY <1>3, <1>4
  <2> QED
    BY <1>6, <2>2, <2>3 DEF ExtendedBy
<1>7. CASE ~Contains(e, other[n])
  <2> DEFINE e2 == Append(e, other[n])
  <2>1. /\ Len(e2) = Len(e) + 1 /\ Len(e) \in Nat /\ Len(target) \in Nat
        /\ \A k \in 1..Len(e) : e2[k] = e[k]
        /\ e2[Len(e) + 1] = other[n] /\ e2 \in Seq(S)
    BY <1>1
  <2>2. other[n] \notin ToSet(e)
    <3>1. DOMAIN e = 1..Len(e)
      OBVIOUS
    <3> QED
      BY <1>7, <3>1, Zenon DEF Contains, ToSet
  <2>3. Len(target) <= Len(e) /\ \A k \in 1..Len(target) : e[k] = target[k]
    BY DEF ExtendedBy
  <2> HIDE DEF e2
  <2>4. Len(target) <= Len(e2) /\ \A k \in 1..Len(target) : e2[k] = target[k]
    <3>1. \A k \in 1..Len(target) : k \in 1..Len(e)
      BY <2>1, <2>3
    <3>2. Len(target) <= Len(e2)
      BY <2>1, <2>3
    <3> QED
      BY <2>1, <2>3, <3>1, <3>2
  <2>5. ToSet(e2) = ToSet(e) \cup {other[n]}
    <3>1. ToSet(e2) = {e2[k] : k \in 1..Len(e2)} /\ ToSet(e) = {e[k] : k \in 1..Len(e)}
      BY <2>1, ToSetIs
    <3>2. 1..Len(e2) = 1..Len(e) \cup {Len(e) + 1}
      BY <2>1
    <3> QED
      BY <2>1, <3>1, <3>2, ZenonT(60)
  <2>6. ASSUME NEW k \in (Len(target) + 1)..Len(e2)
        PROVE  \E q \in 1..n :
                  /\ other[q] = e2[k] /\ e2[k] \notin ToSet(target)
                  /\ \A p \in 1..(q - 1) : other[p] # e2[k]
                  /\ \A j \in (Len(target) + 1)..(k - 1) : \E p \in 1..(q - 1) : other[p] = e2[j]
    <3>1. k \in Nat /\ \A j \in (Len(target) + 1)..(k - 1) : j \in 1..Len(e) /\ e2[j] = e[j]
      <4>1. k \in Nat /\ k <= Len(e) + 1
        BY <2>1
      <4>2. ASSUME NEW j \in (Len(target) + 1)..(k - 1) PROVE j \in 1..Len(e)
        BY <2>1, <4>1
      <4> QED
        BY <2>1, <4>1, <4>2
    <3>2. CASE k = Len(e) + 1
      <4>1. e2[k] = other[n] /\ e2[k] \notin ToSet(target)
        BY <1>5, <2>1, <2>2, <3>2
      <4>2. \A p \in 1..(n - 1) : other[p] # e2[k]
        BY <1>5, <2>2, <4>1
      <4>3. ASSUME NEW j \in (Len(target) + 1)..(k - 1)
            PROVE  \E p \in 1..(n - 1) : other[p] = e2[j]
        <5>1. j \in (Len(target) + 1)..Len(e)
          BY <2>1, <3>2
        <5> QED
          BY <1>3, <3>1, <5>1
      <4> QED
        BY <1>1, <4>1, <4>2, <4>3
    <3>3. CASE k # Len(e) + 1
      <4>1. k \in (Len(target) + 1)..Len(e) /\ e2[k] = e[k]
        <5>1. k \in (Len(target) + 1)..Len(e)
          BY <2>1, <3>3
        <5>2. k \in 1..Len(e)
          BY <2>1, <5>1
        <5> QED
          BY <2>1, <5>1, <5>2
      <4>2. PICK q \in 1..(n - 1) :
              /\ other[q] = e[k] /\ e[k] \notin ToSet(target)
              /\ \A p \in 1..(q - 1) : other[p] # e[k]
              /\ \A j \in (Len(target) + 1)..(k - 1) : \E p \in 1..(q - 1) : other[p] = e[j]
        BY <1>3, <4>1
      <4>3. \A j \in (Len(target) + 1)..(k - 1) : \E p \in 1..(q - 1) : other[p] = e2[j]
        BY <3>1, <4>2
      <4> QED
        BY <1>4, <4>1, <4>2, <4>3
    <3> QED
      BY <3>2, <3>3
  <2>7. ToSet(e2) = ToSet(target) \cup {other[q] : q \in 1..n}
    BY <1>2, <1>5, <2>5
  <2>8. ExtendedBy(e2, target, other, n)
    BY <2>4, <2>6, <2>7 DEF ExtendedBy
  <2> QED
    BY <1>7, <2>8 DEF e2
<1> QED
  BY <1>6, <1>7

\* What extend_deduped keeps and adds, and in which order.
LEMMA ExtendFacts ==
    ASSUME NEW S, NEW target \in Seq(S), NEW other \in Seq(S)
    PROVE  /\ ExtendDeduped(target, other) \in Seq(S)
           /\ ExtendedBy(ExtendDeduped(target, other), target, other, Len(other))
<1>1. PICK f \in [0..Len(other) -> Seq(S)] :
         /\ f[0] = target
         /\ \A n \in 1..Len(other) :
               f[n] = IF Contains(f[n - 1], other[n]) THEN f[n - 1] ELSE Append(f[n - 1], other[n])
         /\ ExtendDeduped(target, other) = f[Len(other)]
  BY ExtendSteps
<1> DEFINE wrong == {n \in 0..Len(other) : ~ExtendedBy(f[n], target, other, n)}
<1>2. Len(other) \in Nat /\ wrong \subseteq Nat
  OBVIOUS
<1>3. ASSUME wrong # {} PROVE FALSE
  <2>1. PICK n \in wrong : \A m \in wrong : n <= m
    <3> HIDE DEF wrong
    <3> QED
      BY <1>2, <1>3, SmallestNumber
  <2>2. n \in 0..Len(other) /\ ~ExtendedBy(f[n], target, other, n)
    OBVIOUS
  <2>3. CASE n = 0
    <3>1. {other[q] : q \in 1..0} = {}
      OBVIOUS
    <3>2. ExtendedBy(target, target, other, 0)
      <4>1. Len(target) \in Nat /\ (Len(target) + 1)..Len(target) = {}
        OBVIOUS
      <4> QED
        BY <3>1, <4>1 DEF ExtendedBy
    <3> QED
      BY <1>1, <2>2, <2>3, <3>2
  <2>4. CASE n # 0
    <3>1. n \in 1..Len(other) /\ n - 1 \in 0..Len(other) /\ ~(n <= n - 1)
      BY <1>2, <2>2, <2>4
    <3>2. ExtendedBy(f[n - 1], target, other, n - 1) /\ f[n - 1] \in Seq(S)
      BY <1>1, <2>1, <3>1
    <3>3. ExtendedBy(IF Contains(f[n - 1], other[n]) THEN f[n - 1] ELSE Append(f[n - 1], other[n]),
                     target, other, n)
      BY <3>1, <3>2, ExtendOne
    <3> QED
      BY <1>1, <2>2, <3>1, <3>3
  <2> QED
    BY <2>3, <2>4
<1> QED
  BY <1>1, <1>2, <1>3

-----------------------------------------------------------------------------
(* Caches: sorting.                                                         *)

\* A record that comes before another, or is it.
Before(s, j, i) == s[j].name < s[i].name \/ (s[j].name = s[i].name /\ j <= i)

LEMMA RankFacts ==
    ASSUME NEW s \in Seq(ModuleRecords)
    PROVE  /\ \A i \in 1..Len(s) : Rank(s, i) \in 1..Len(s)
           /\ \A i, j \in 1..Len(s) : Before(s, j, i) /\ i # j => Rank(s, j) < Rank(s, i)
<1> DEFINE below(i) == {j \in 1..Len(s) : Before(s, j, i)}
<1>1. Len(s) \in Nat /\ \A i \in 1..Len(s) : i \in Nat /\ s[i].name \in Nat
  <2>1. ASSUME NEW i \in 1..Len(s) PROVE s[i].name \in Nat
    <3>1. s[i] \in ModuleRecords
      OBVIOUS
    <3>2. s[i].name \in Modules
      BY <3>1 DEF ModuleRecords
    <3> QED
      BY <3>2, CacheListsAssumption DEF Modules
  <2> QED
    BY <2>1
<1>2. \A i \in 1..Len(s) : Rank(s, i) = Cardinality(below(i))
  <2>1. DOMAIN s = 1..Len(s)
    OBVIOUS
  <2> QED
    BY <2>1 DEF Rank, Before
<1>3. IsFiniteSet(1..Len(s)) /\ Cardinality(1..Len(s)) = Len(s)
  <2>1. PICK N \in Nat : N = Len(s)
    BY <1>1
  <2>2. 1 \in Int /\ N \in Int
    OBVIOUS
  <2>3. IsFiniteSet(1..N) /\ Cardinality(1..N) = IF 1 > N THEN 0 ELSE N - 1 + 1
    BY <2>2, FS_Interval, Zenon
  <2>4. Cardinality(1..N) = N
    BY <2>3
  <2> QED
    BY <2>1, <2>3, <2>4, Zenon
<1>4. \A i \in 1..Len(s) : i \in below(i) /\ below(i) \subseteq 1..Len(s)
  BY <1>1 DEF Before
<1>5. \A i, j \in 1..Len(s) : Before(s, j, i) /\ i # j => below(j) \subseteq below(i) /\ i \notin below(j)
  BY <1>1 DEF Before
<1> HIDE DEF below
<1>6. \A i \in 1..Len(s) : IsFiniteSet(below(i)) /\ Cardinality(below(i)) <= Len(s)
  BY <1>3, <1>4, FS_Subset
<1>7. ASSUME NEW i \in 1..Len(s) PROVE Cardinality(below(i)) \in 1..Len(s)
  <2>1. Cardinality(below(i)) \in Nat /\ Cardinality(below(i)) # 0
    BY <1>4, <1>6, FS_CardinalityType, FS_EmptySet
  <2> QED
    BY <1>1, <1>6, <2>1
<1>8. ASSUME NEW i \in 1..Len(s), NEW j \in 1..Len(s), Before(s, j, i), i # j
      PROVE  Cardinality(below(j)) < Cardinality(below(i))
  <2>1. below(j) \subseteq below(i) /\ below(i) # below(j)
    BY <1>4, <1>5, <1>8
  <2>2. Cardinality(below(j)) <= Cardinality(below(i)) /\ Cardinality(below(i)) # Cardinality(below(j))
    BY <1>6, <2>1, FS_Subset
  <2> QED
    BY <1>1, <1>7, <2>2
<1> QED
  BY <1>2, <1>7, <1>8

\* The stable sort moves every record to one place, in the order of the names and,
\* within a name, in the order the records had.
LEMMA SortFacts ==
    ASSUME NEW s \in Seq(ModuleRecords)
    PROVE  \E at \in [1..Len(s) -> 1..Len(s)] :
              /\ \A i \in 1..Len(s) : \E n \in 1..Len(s) : at[n] = i
              /\ SortedByName(s) \in Seq(ModuleRecords) /\ Len(SortedByName(s)) = Len(s)
              /\ \A n \in 1..Len(s) : SortedByName(s)[n] = s[at[n]]
              /\ \A n, o \in 1..Len(s) : n < o => Before(s, at[n], at[o]) /\ at[n] # at[o]
<1> DEFINE N == 1..Len(s)
           rank == [i \in N |-> Rank(s, i)]
           at == [n \in N |-> CHOOSE i \in N : Rank(s, i) = n]
<1>1. Len(s) \in Nat /\ DOMAIN s = N /\ \A i \in N : i \in Nat /\ s[i].name \in Nat
  <2>1. ASSUME NEW i \in N PROVE s[i].name \in Nat
    <3>1. s[i] \in ModuleRecords
      OBVIOUS
    <3>2. s[i].name \in Modules
      BY <3>1 DEF ModuleRecords
    <3> QED
      BY <3>2, CacheListsAssumption DEF Modules
  <2> QED
    BY <2>1
<1>2. rank \in [N -> N] /\ \A i, j \in N : Before(s, j, i) /\ i # j => rank[j] < rank[i]
  <2>1. \A i \in N : rank[i] = Rank(s, i)
    OBVIOUS
  <2>2. rank \in [N -> N]
    BY RankFacts
  <2> HIDE DEF rank
  <2> QED
    BY <2>1, <2>2, RankFacts
<1>3. \A i, j \in N : i # j => Before(s, j, i) \/ Before(s, i, j)
  BY <1>1 DEF Before
<1>4. \A i, j \in N : rank[i] = rank[j] => i = j
  <2> HIDE DEF rank
  <2> QED
    BY <1>1, <1>2, <1>3
<1>5. \A n \in N : \E i \in N : rank[i] = n
  <2>1. IsFiniteSet(N) /\ rank \in Injection(N, N)
    <3>1. IsFiniteSet(N)
      BY <1>1, FS_Interval
    <3> HIDE DEF rank, N
    <3> QED
      BY <1>2, <1>4, <3>1 DEF Injection, IsInjective
  <2>2. rank \in Surjection(N, N)
    <3> HIDE DEF rank, N
    <3> QED
      BY <2>1, FS_Injection
  <2> HIDE DEF rank, N
  <2> QED
    BY <2>2 DEF Surjection
<1>6. at \in [N -> N] /\ \A n \in N : rank[at[n]] = n
  <2>1. ASSUME NEW n \in N PROVE at[n] \in N /\ rank[at[n]] = n
    <3>1. at[n] = CHOOSE i \in N : Rank(s, i) = n
      OBVIOUS
    <3>2. \E i \in N : Rank(s, i) = n
      BY <1>5
    <3>3. at[n] \in N /\ Rank(s, at[n]) = n
      <4> HIDE DEF at
      <4> QED
        BY <3>1, <3>2
    <3> HIDE DEF at
    <3> QED
      BY <3>3
  <2> QED
    BY <2>1
<1>7. SortedByName(s) = [n \in N |-> s[at[n]]]
  BY <1>1 DEF SortedByName
<1> HIDE DEF rank, at
<1>8. /\ SortedByName(s) \in Seq(ModuleRecords) /\ Len(SortedByName(s)) = Len(s)
      /\ \A n \in N : SortedByName(s)[n] = s[at[n]]
  <2>1. \A n \in N : s[at[n]] \in ModuleRecords
    BY <1>6
  <2>2. SortedByName(s) \in [1..Len(s) -> ModuleRecords]
    BY <1>7, <2>1
  <2> QED
    BY <1>1, <1>7, <2>2
<1>9. \A i \in N : at[rank[i]] = i /\ rank[i] \in N
  BY <1>2, <1>4, <1>6
<1>10. ASSUME NEW n \in N, NEW o \in N, n < o PROVE Before(s, at[n], at[o]) /\ at[n] # at[o]
  <2>1. at[n] \in N /\ at[o] \in N /\ rank[at[n]] = n /\ rank[at[o]] = o
    BY <1>6
  <2>2. at[n] # at[o]
    BY <1>1, <1>10, <2>1
  <2>3. ~Before(s, at[o], at[n])
    BY <1>1, <1>2, <1>10, <2>1, <2>2
  <2> QED
    BY <1>3, <2>1, <2>2, <2>3
<1>11. at \in [1..Len(s) -> 1..Len(s)] /\ \A i \in 1..Len(s) : \E n \in 1..Len(s) : at[n] = i
  BY <1>6, <1>9
<1> USE <1>11
<1> WITNESS at \in [1..Len(s) -> 1..Len(s)]
<1> QED
  BY <1>8, <1>10, <1>11

-----------------------------------------------------------------------------
(* Caches: the records of a module, joined.                                 *)

MergeOrderNumbers == 1..Len(cache_list)

\* What the caches merged as N say of one module is joined in r.
JoinedFrom(r, N) ==
    /\ r \in ModuleRecords
    /\ \E n \in N : KnownAt(n, r.name) # {}
    /\ FirstFailureKept(r, N)
    /\ (\A n \in N : Failing(KnownAt(n, r.name)) = {}) =>
          /\ ~r.safety.failed
          /\ r.safety.errors = UNION {ErrorsOf(KnownAt(n, r.name)) : n \in N}
    /\ CandidatesInOrder(r, N)

\* The caches that were merged before all pending ones of m.
Absorbed(mods, P, origin, m) ==
    {n \in MergeOrderNumbers : \A i \in P : mods[i].name = m => n < origin[i]}

\* At W the records of each module are joined; those at P are still to come, and
\* origin says from which cache.
BeingJoined(mods, W, P, origin) ==
    /\ mods \in Seq(ModuleRecords)
    /\ W \subseteq DOMAIN mods /\ P \subseteq DOMAIN mods /\ W \cap P = {}
    /\ origin \in [P -> MergeOrderNumbers]
    /\ \A i \in P : mods[i] \in KnownAt(origin[i], mods[i].name)
    /\ \A w \in W : JoinedFrom(mods[w], Absorbed(mods, P, origin, mods[w].name))
    /\ \A w, v \in W : mods[w].name = mods[v].name => w = v
    /\ \A n \in MergeOrderNumbers : \A m \in Modules : KnownAt(n, m) # {} =>
          \/ \E i \in P : origin[i] = n /\ mods[i].name = m
          \/ n \in Absorbed(mods, P, origin, m) /\ \E w \in W : mods[w].name = m

\* The records of the first k caches, one after the other.
Gathered(mods, k, origin) ==
    /\ mods \in Seq(ModuleRecords)
    /\ origin \in [DOMAIN mods -> 1..k]
    /\ \A i \in DOMAIN mods : mods[i] \in KnownAt(origin[i], mods[i].name)
    /\ \A i, j \in DOMAIN mods : mods[i].name = mods[j].name /\ i < j => origin[i] < origin[j]
    /\ \A n \in 1..k : \A m \in Modules : KnownAt(n, m) # {} =>
          \E i \in DOMAIN mods : origin[i] = n /\ mods[i].name = m

\* Sorted by name, the earlier cache first.
InOrder(mods, D, origin) ==
    \A i, j \in D : i < j =>
        mods[i].name < mods[j].name \/ (mods[i].name = mods[j].name /\ origin[i] < origin[j])

Folding ==
    /\ Len(cache_list) > 1 /\ write = 1 /\ read = 2
    /\ deps \in Seq(Caches) /\ Len(deps) < Len(cache_list)
    /\ \A i \in DOMAIN deps : deps[i] = MergedAs(Len(cache_list) - Len(deps) + i)
    /\ \E origin \in [DOMAIN modules -> MergeOrderNumbers] :
          Gathered(modules, Len(cache_list) - Len(deps), origin)

Joining ==
    /\ Len(cache_list) > 1
    /\ write \in Nat /\ read \in Nat /\ 1 <= write /\ write < read /\ read <= Len(modules) + 1
    /\ \A i \in (write + 1)..(read - 1) : modules[i] = Placeholder(modules[i].name)
    /\ \A i, j \in 1..write : i < j => modules[i].name < modules[j].name
    /\ \A i \in read..Len(modules) : modules[write].name <= modules[i].name
    /\ \E origin \in [read..Len(modules) -> MergeOrderNumbers] :
          /\ BeingJoined(modules, 1..write, read..Len(modules), origin)
          /\ InOrder(modules, read..Len(modules), origin)

Joined ==
    /\ \E origin \in [{} -> MergeOrderNumbers] : BeingJoined(modules, DOMAIN modules, {}, origin)
    /\ Len(cache_list) > 1 =>
          \A i, j \in DOMAIN modules : i < j => modules[i].name < modules[j].name

CacheInv ==
    /\ cache_list \in CacheLists
    /\ merge_phase \in {"fold", "join", "class", "merged"}
    /\ class_bases \in [Classes -> Seq(Classes)]
    /\ callees \in Callees /\ CalleesRecorded
    /\ merge_phase = "fold" => Folding
    /\ merge_phase = "join" => Joining
    /\ merge_phase \in {"class", "merged"} => Joined

-----------------------------------------------------------------------------
(* Caches: what is merged when.                                             *)

LEMMA OneThenRest ==
    ASSUME NEW S, NEW x \in S, NEW rest \in Seq(S)
    PROVE  /\ <<x>> \o rest \in Seq(S) /\ Len(<<x>> \o rest) = 1 + Len(rest)
           /\ \A i \in 1..(1 + Len(rest)) : (<<x>> \o rest)[i] = IF i = 1 THEN x ELSE rest[i - 1]
<1>1. <<x>> \in Seq(S) /\ Len(<<x>>) = 1 /\ <<x>>[1] = x /\ Len(rest) \in Nat
  OBVIOUS
<1>2. PICK one \in Seq(S) : one = <<x>>
  BY <1>1
<1>3. /\ one \o rest \in Seq(S) /\ Len(one \o rest) = 1 + Len(rest)
      /\ \A i \in 1..(1 + Len(rest)) : (one \o rest)[i] = IF i <= 1 THEN one[i] ELSE rest[i - 1]
  BY <1>1, <1>2, ConcatProperties
<1>4. \A i \in 1..(1 + Len(rest)) : i <= 1 <=> i = 1
  BY <1>1
<1> QED
  BY <1>1, <1>2, <1>3, <1>4

LEMMA DepOrderIs ==
    ASSUME NEW S, NEW l \in Seq(S), Len(l) > 0
    PROVE  /\ DepOrder(l) \in Seq(S) /\ Len(DepOrder(l)) = Len(l) - 1
           /\ \A n \in 1..(Len(l) - 1) : DepOrder(l)[n] = l[IF n = 1 THEN Len(l) ELSE n]
<1>1. Len(l) \in Nat
  OBVIOUS
<1>2. CASE Len(l) = 1
  BY <1>2 DEF DepOrder
<1>3. CASE Len(l) # 1
  <2>1. PICK last \in Nat : last = Len(l) /\ last > 1
    <3>1. \A k \in Nat : k > 0 /\ k # 1 => k > 1
      OBVIOUS
    <3> QED
      BY <1>1, <1>3, <3>1
  <2>2. PICK rest \in Seq(S) : rest = SubSeq(l, 2, last - 1) /\ Len(rest) = last - 2
                             /\ \A n \in 1..(last - 2) : rest[n] = l[n + 1]
    <3>1. \A i \in 2..(last - 1) : l[i] \in S
      BY <2>1
    <3>2. SubSeq(l, 2, last - 1) \in Seq(S)
      BY <2>1, <3>1, SubSeqProperties
    <3>3. Len(SubSeq(l, 2, last - 1)) = IF 2 <= last - 1 THEN last - 2 ELSE 0
      BY <2>1, <3>1, SubSeqProperties
    <3>4. ASSUME NEW n \in 1..(last - 2) PROVE SubSeq(l, 2, last - 1)[n] = l[n + 1]
      BY <2>1
    <3>5. Len(SubSeq(l, 2, last - 1)) = last - 2
      BY <2>1, <3>3
    <3> QED
      BY <3>2, <3>4, <3>5
  <2>3. l[last] \in S /\ DepOrder(l) = <<l[last]>> \o rest
    BY <1>3, <2>1, <2>2 DEF DepOrder, Last
  <2>4. DepOrder(l) \in Seq(S) /\ Len(DepOrder(l)) = 1 + Len(rest)
    BY <2>3, OneThenRest
  <2>5. \A i \in 1..(1 + Len(rest)) : DepOrder(l)[i] = IF i = 1 THEN l[last] ELSE rest[i - 1]
    BY <2>3, OneThenRest
  <2>6. ASSUME NEW n \in 1..(last - 1) PROVE DepOrder(l)[n] = l[IF n = 1 THEN last ELSE n]
    <3>1. n \in 1..(1 + Len(rest)) /\ (n # 1 => n - 1 \in 1..(last - 2) /\ (n - 1) + 1 = n)
      BY <2>1, <2>2
    <3> QED
      BY <2>2, <2>5, <3>1
  <2> QED
    BY <2>1, <2>2, <2>4, <2>6
<1> QED
  BY <1>2, <1>3

LEMMA ListFacts ==
    ASSUME cache_list \in CacheLists
    PROVE  /\ cache_list \in Seq(Caches) /\ Len(cache_list) \in Nat /\ Len(cache_list) > 0
           /\ \A i \in MergeOrderNumbers : cache_list[i] \in Caches /\ IsCache(cache_list[i])
           /\ \A n \in MergeOrderNumbers : \E i \in MergeOrderNumbers : MergedAs(n) = cache_list[i]
           /\ \A i \in MergeOrderNumbers : \E n \in MergeOrderNumbers : MergedAs(n) = cache_list[i]
<1>1. cache_list \in Seq(Caches) /\ Len(cache_list) > 0 /\ \A n \in DOMAIN cache_list : IsCache(cache_list[n])
  BY CacheListsAssumption
<1>2. /\ Len(cache_list) \in Nat
      /\ \A i \in MergeOrderNumbers : cache_list[i] \in Caches /\ IsCache(cache_list[i])
  BY <1>1 DEF MergeOrderNumbers
<1>3. \A n \in 1..(Len(cache_list) - 1) :
         DepOrder(cache_list)[n] = cache_list[IF n = 1 THEN Len(cache_list) ELSE n]
  BY <1>1, DepOrderIs
<1> DEFINE L == Len(cache_list)
<1> HIDE DEF L
<1>4. L \in Nat /\ L > 0 /\ L = Len(cache_list) /\ MergeOrderNumbers = 1..L
  BY <1>1, <1>2 DEF L, MergeOrderNumbers
<1>5. \A n \in 1..L : MergedAs(n) = cache_list[IF n = 1 THEN 1 ELSE IF n = 2 THEN L ELSE n - 1]
  <2>1. ASSUME NEW n \in 1..L PROVE MergedAs(n) = cache_list[IF n = 1 THEN 1 ELSE IF n = 2 THEN L ELSE n - 1]
    <3>1. CASE n = 1
      BY <3>1 DEF MergedAs
    <3>2. CASE n # 1
      <4>1. n - 1 \in 1..(L - 1) /\ (n - 1 = 1 <=> n = 2)
        BY <1>4, <3>2
      <4>2. MergedAs(n) = DepOrder(cache_list)[n - 1]
        BY <3>2 DEF MergedAs
      <4>3. DepOrder(cache_list)[n - 1] = cache_list[IF n - 1 = 1 THEN L ELSE n - 1]
        BY <1>3, <1>4, <4>1
      <4> QED
        BY <3>2, <4>1, <4>2, <4>3
    <3> QED
      BY <3>1, <3>2
  <2> QED
    BY <2>1
<1>6. \A n \in 1..L : (IF n = 1 THEN 1 ELSE IF n = 2 THEN L ELSE n - 1) \in 1..L
  BY <1>4
<1>7. ASSUME NEW i \in 1..L PROVE \E n \in 1..L : MergedAs(n) = cache_list[i]
  <2>1. CASE i = 1
    <3>1. 1 \in 1..L
      BY <1>4
    <3> QED
      BY <1>5, <2>1, <3>1
  <2>2. CASE i # 1 /\ i = L
    <3>1. 2 \in 1..L
      BY <1>4, <2>2
    <3> QED
      BY <1>5, <2>2, <3>1
  <2>3. CASE i # 1 /\ i # L
    <3>1. i + 1 \in 1..L /\ i + 1 # 1 /\ i + 1 # 2 /\ (i + 1) - 1 = i
      BY <1>4, <2>3
    <3> QED
      BY <1>5, <3>1
  <2> QED
    BY <2>1, <2>2, <2>3
<1> QED
  BY <1>1, <1>2, <1>4, <1>5, <1>6, <1>7

LEMMA KnownFacts ==
    ASSUME cache_list \in CacheLists
    PROVE  /\ \A n \in MergeOrderNumbers : MergedAs(n) \in Caches /\ IsCache(MergedAs(n))
           /\ \A n \in MergeOrderNumbers, m \in Modules : \A r \in KnownAt(n, m) :
                 r \in ModuleRecords /\ r.name = m /\ r.candidates \in Seq(Candidates)
                 /\ r.safety \in Safeties
           /\ \A n \in MergeOrderNumbers, m \in Modules : \A r, q \in KnownAt(n, m) : r = q
<1>1. ASSUME NEW n \in MergeOrderNumbers PROVE MergedAs(n) \in Caches /\ IsCache(MergedAs(n))
  BY ListFacts
<1>2. ASSUME NEW n \in MergeOrderNumbers, NEW m \in Modules
      PROVE  /\ \A r \in KnownAt(n, m) : r \in ModuleRecords /\ r.name = m
             /\ \A r, q \in KnownAt(n, m) : r = q
  <2> DEFINE s == MergedAs(n).modules
  <2>1. s \in Seq(ModuleRecords) /\ \A i, j \in DOMAIN s : s[i].name = s[j].name => i = j
    BY <1>1 DEF Caches, IsCache
  <2>2. KnownAt(n, m) = RecordsOf(s, m)
    BY DEF KnownAt
  <2> HIDE DEF s
  <2>3. \A r \in RecordsOf(s, m) : \E i \in DOMAIN s : s[i].name = m /\ r = s[i]
    BY DEF RecordsOf
  <2> QED
    BY <2>1, <2>2, <2>3
<1>3. \A r \in ModuleRecords : r.candidates \in Seq(Candidates) /\ r.safety \in Safeties
  BY DEF ModuleRecords
<1> QED
  BY <1>1, <1>2, <1>3

-----------------------------------------------------------------------------
(* Caches: joining the records of a module, one cache at a time.            *)

LEMMA SafetyFacts ==
    ASSUME NEW s \in Safeties
    PROVE  /\ s.failed \in BOOLEAN
           /\ ~s.failed => s = [failed |-> FALSE, errors |-> s.errors] /\ s.errors \subseteq Errors
BY DEF Safeties

LEMMA JoinType ==
    ASSUME NEW a \in ModuleRecords, NEW b \in ModuleRecords
    PROVE  JoinModules(a, b) \in ModuleRecords
<1>1. a.name \in Modules /\ a.safety \in Safeties /\ a.candidates \in Seq(Candidates)
  BY DEF ModuleRecords
<1>2. b.safety \in Safeties /\ b.candidates \in Seq(Candidates)
  BY DEF ModuleRecords
<1>3. JoinSafety(a.safety, b.safety) \in Safeties
  <2>1. CASE a.safety.failed
    BY <1>1, <2>1 DEF JoinSafety
  <2>2. CASE ~a.safety.failed /\ b.safety.failed
    BY <1>2, <2>2 DEF JoinSafety
  <2>3. CASE ~a.safety.failed /\ ~b.safety.failed
    <3>1. a.safety.errors \cup b.safety.errors \subseteq Errors
      BY <1>1, <1>2, <2>3, SafetyFacts
    <3>2. [failed |-> FALSE, errors |-> a.safety.errors \cup b.safety.errors] \in Safeties
      BY <3>1 DEF Safeties
    <3> QED
      BY <2>3, <3>2 DEF JoinSafety
  <2> QED
    BY <2>1, <2>2, <2>3
<1>4. ExtendDeduped(a.candidates, b.candidates) \in Seq(Candidates)
  BY <1>1, <1>2, ExtendFacts
<1> QED
  BY <1>1, <1>3, <1>4 DEF JoinModules, ModuleRecords

\* A record alone.
LEMMA JoinBase ==
    ASSUME cache_list \in CacheLists, NEW o \in MergeOrderNumbers, NEW m \in Modules,
           NEW r \in KnownAt(o, m)
    PROVE  JoinedFrom(r, {o}) /\ r.name = m
<1>1. r \in ModuleRecords /\ r.name = m /\ r.candidates \in Seq(Candidates) /\ r.safety \in Safeties
  BY KnownFacts
<1>2. KnownAt(o, r.name) = {r}
  BY <1>1, KnownFacts
<1>3. r.safety.failed \in BOOLEAN /\ o \in Nat
  BY <1>1, SafetyFacts DEF MergeOrderNumbers
<1>4. FirstFailureKept(r, {o})
  BY <1>2 DEF FirstFailureKept
<1>5. (\A n \in {o} : Failing(KnownAt(n, r.name)) = {}) =>
          /\ ~r.safety.failed
          /\ r.safety.errors = UNION {ErrorsOf(KnownAt(n, r.name)) : n \in {o}}
  <2>1. HAVE \A n \in {o} : Failing(KnownAt(n, r.name)) = {}
  <2>2. Failing({r}) = {}
    BY <1>2, <2>1
  <2>3. ~r.safety.failed
    BY <2>2 DEF Failing
  <2>4. ErrorsOf({r}) = r.safety.errors
    BY <2>2 DEF ErrorsOf
  <2> QED
    BY <1>2, <2>3, <2>4
<1>6. CandidatesInOrder(r, {o})
  <2>1. ToSet(r.candidates) = UNION {UNION {ToSet(q.candidates) : q \in KnownAt(n, r.name)} : n \in {o}}
    BY <1>2
  <2>2. Len(r.candidates) \in Nat /\ (Len(r.candidates) + 1)..Len(r.candidates) = {}
    BY <1>1
  <2>3. \A k \in (Len(r.candidates) + 1)..Len(r.candidates) : \A j \in 1..(k - 1) :
                Precedes(r.name, {o}, r.candidates[j], r.candidates[k])
    BY <2>2
  <2>4. \E n \in {o} : \E first \in KnownAt(n, r.name) :
          /\ \A p \in {o} : KnownAt(p, r.name) # {} => n <= p
          /\ Len(first.candidates) <= Len(r.candidates)
          /\ \A k \in DOMAIN first.candidates : r.candidates[k] = first.candidates[k]
          /\ \A k \in (Len(first.candidates) + 1)..Len(r.candidates) : \A j \in 1..(k - 1) :
                Precedes(r.name, {o}, r.candidates[j], r.candidates[k])
    <3>1. r \in KnownAt(o, r.name) /\ o <= o /\ Len(r.candidates) <= Len(r.candidates)
      BY <1>2, <1>3, <2>2
    <3> QED
      BY <2>3, <3>1
  <2> QED
    BY <2>1, <2>4 DEF CandidatesInOrder
<1> QED
  BY <1>1, <1>2, <1>4, <1>5, <1>6 DEF JoinedFrom

\* Caches that do not know the module do not matter.
LEMMA JoinWiden ==
    ASSUME NEW N \in SUBSET Nat, NEW W \in SUBSET Nat, N \subseteq W, NEW r,
           JoinedFrom(r, N), \A n \in W \ N : KnownAt(n, r.name) = {}
    PROVE  JoinedFrom(r, W)
<1> DEFINE K(n) == KnownAt(n, r.name)
<1>1. \A n \in W : K(n) # {} => n \in N
  OBVIOUS
<1>2. r \in ModuleRecords /\ \E n \in W : K(n) # {}
  BY DEF JoinedFrom
<1>3. FirstFailureKept(r, W)
  <2>1. FirstFailureKept(r, N)
    BY DEF JoinedFrom
  <2> QED
    BY <1>1, <2>1 DEF FirstFailureKept
<1>4. (\A n \in W : Failing(K(n)) = {}) => ~r.safety.failed /\ r.safety.errors = UNION {ErrorsOf(K(n)) : n \in W}
  <2>1. HAVE \A n \in W : Failing(K(n)) = {}
  <2>2. ~r.safety.failed /\ r.safety.errors = UNION {ErrorsOf(K(n)) : n \in N}
    BY <2>1 DEF JoinedFrom
  <2>3. ErrorsOf({}) = {}
    BY DEF ErrorsOf
  <2>4. UNION {ErrorsOf(K(n)) : n \in N} = UNION {ErrorsOf(K(n)) : n \in W}
    BY <1>1, <2>3
  <2> QED
    BY <2>2, <2>4
<1>5. CandidatesInOrder(r, W)
  <2>1. ToSet(r.candidates) = UNION {UNION {ToSet(q.candidates) : q \in K(n)} : n \in N}
    BY DEF JoinedFrom, CandidatesInOrder
  <2>2. UNION {UNION {ToSet(q.candidates) : q \in K(n)} : n \in N}
          = UNION {UNION {ToSet(q.candidates) : q \in K(n)} : n \in W}
    BY <1>1
  <2>3. \A x, y : Precedes(r.name, N, x, y) => Precedes(r.name, W, x, y)
    BY <1>1 DEF Precedes
  <2>4. PICK n \in N : \E first \in K(n) :
          /\ \A o \in N : K(o) # {} => n <= o
          /\ Len(first.candidates) <= Len(r.candidates)
          /\ \A k \in DOMAIN first.candidates : r.candidates[k] = first.candidates[k]
          /\ \A k \in (Len(first.candidates) + 1)..Len(r.candidates) : \A j \in 1..(k - 1) :
                Precedes(r.name, N, r.candidates[j], r.candidates[k])
    BY DEF JoinedFrom, CandidatesInOrder
  <2>5. PICK first \in K(n) :
          /\ \A o \in N : K(o) # {} => n <= o
          /\ Len(first.candidates) <= Len(r.candidates)
          /\ \A k \in DOMAIN first.candidates : r.candidates[k] = first.candidates[k]
          /\ \A k \in (Len(first.candidates) + 1)..Len(r.candidates) : \A j \in 1..(k - 1) :
                Precedes(r.name, N, r.candidates[j], r.candidates[k])
    BY <2>4
  <2>6. n \in W /\ \A o \in W : K(o) # {} => n <= o
    BY <1>1, <2>5
  <2>7. \A k \in (Len(first.candidates) + 1)..Len(r.candidates) : \A j \in 1..(k - 1) :
                Precedes(r.name, W, r.candidates[j], r.candidates[k])
    BY <2>3, <2>5
  <2> QED
    BY <2>1, <2>2, <2>5, <2>6, <2>7 DEF CandidatesInOrder
<1> QED
  BY <1>2, <1>3, <1>4, <1>5 DEF JoinedFrom

LEMMA JoinCandidatesStep ==
    ASSUME cache_list \in CacheLists, NEW N \in SUBSET MergeOrderNumbers, NEW a,
           JoinedFrom(a, N), NEW o \in MergeOrderNumbers, \A n \in N : n < o,
           NEW b \in KnownAt(o, a.name)
    PROVE  CandidatesInOrder(JoinModules(a, b), N \cup {o})
<1> DEFINE m == a.name
           old == a.candidates
           add == b.candidates
           new == ExtendDeduped(old, add)
           N2 == N \cup {o}
<1>1. m \in Modules /\ old \in Seq(Candidates)
  BY DEF JoinedFrom, ModuleRecords
<1>2. add \in Seq(Candidates) /\ KnownAt(o, m) = {b}
  BY <1>1, KnownFacts
<1>3. JoinModules(a, b).name = m /\ JoinModules(a, b).candidates = new
  BY DEF JoinModules
<1>4. new \in Seq(Candidates) /\ ExtendedBy(new, old, add, Len(add))
  BY <1>1, <1>2, ExtendFacts
<1>5. /\ N \subseteq Nat /\ o \in Nat /\ o \notin N /\ \A n \in N : n < o
      /\ Len(old) \in Nat /\ Len(new) \in Nat /\ Len(add) \in Nat
      /\ DOMAIN add = 1..Len(add)
  BY <1>1, <1>2, <1>4 DEF MergeOrderNumbers
<1>6. /\ Len(old) <= Len(new) /\ \A k \in 1..Len(old) : new[k] = old[k]
      /\ ToSet(new) = ToSet(old) \cup {add[q] : q \in 1..Len(add)}
      /\ \A k \in (Len(old) + 1)..Len(new) : \E q \in 1..Len(add) :
          /\ add[q] = new[k] /\ new[k] \notin ToSet(old)
          /\ \A p \in 1..(q - 1) : add[p] # new[k]
          /\ \A j \in (Len(old) + 1)..(k - 1) : \E p \in 1..(q - 1) : add[p] = new[j]
  BY <1>4 DEF ExtendedBy
<1>7. ToSet(old) = UNION {UNION {ToSet(q.candidates) : q \in KnownAt(n, m)} : n \in N}
  BY DEF JoinedFrom, CandidatesInOrder
<1>8. PICK n0 \in N : \E first \in KnownAt(n0, m) :
          /\ \A p \in N : KnownAt(p, m) # {} => n0 <= p
          /\ Len(first.candidates) <= Len(old)
          /\ \A k \in DOMAIN first.candidates : old[k] = first.candidates[k]
          /\ \A k \in (Len(first.candidates) + 1)..Len(old) : \A j \in 1..(k - 1) :
                Precedes(m, N, old[j], old[k])
  BY DEF JoinedFrom, CandidatesInOrder
<1>9. PICK first \in KnownAt(n0, m) :
          /\ \A p \in N : KnownAt(p, m) # {} => n0 <= p
          /\ Len(first.candidates) <= Len(old)
          /\ \A k \in DOMAIN first.candidates : old[k] = first.candidates[k]
          /\ \A k \in (Len(first.candidates) + 1)..Len(old) : \A j \in 1..(k - 1) :
                Precedes(m, N, old[j], old[k])
  BY <1>8
<1>10. first.candidates \in Seq(Candidates) /\ Len(first.candidates) \in Nat
       /\ DOMAIN first.candidates = 1..Len(first.candidates)
  <2>1. first.candidates \in Seq(Candidates)
    BY <1>1, KnownFacts
  <2> QED
    BY <2>1
<1>11. \A n \in N : \A q \in KnownAt(n, m) : \A j \in DOMAIN q.candidates : q.candidates[j] \in ToSet(old)
  <2>1. ASSUME NEW n \in N, NEW q \in KnownAt(n, m), NEW j \in DOMAIN q.candidates
        PROVE  q.candidates[j] \in ToSet(old)
    <3>1. q.candidates[j] \in ToSet(q.candidates)
      BY DEF ToSet
    <3> QED
      BY <1>7, <3>1
  <2> QED
    BY <2>1
<1> HIDE DEF m, old, add, new
<1>12. ToSet(new) = UNION {UNION {ToSet(q.candidates) : q \in KnownAt(n, m)} : n \in N2}
  <2>1. {add[q] : q \in 1..Len(add)} = ToSet(add)
    BY <1>2, ToSetIs
  <2>2. ToSet(add) = UNION {ToSet(q.candidates) : q \in KnownAt(o, m)}
    BY <1>2 DEF add
  <2> QED
    BY <1>6, <1>7, <2>1, <2>2, SMTT(30)
<1>13. ASSUME NEW x, NEW y, Precedes(m, N, x, y) PROVE Precedes(m, N2, x, y)
  <2>1. PICK n \in N : \E r \in KnownAt(n, m) : \E k \in DOMAIN r.candidates :
        /\ r.candidates[k] = x
        /\ \A p \in N : \A q \in KnownAt(p, m) : \A j \in DOMAIN q.candidates :
              q.candidates[j] = y => n < p \/ (n = p /\ k < j)
    BY <1>13 DEF Precedes
  <2>2. PICK r \in KnownAt(n, m) : \E k \in DOMAIN r.candidates :
        /\ r.candidates[k] = x
        /\ \A p \in N : \A q \in KnownAt(p, m) : \A j \in DOMAIN q.candidates :
              q.candidates[j] = y => n < p \/ (n = p /\ k < j)
    BY <2>1
  <2>3. PICK k \in DOMAIN r.candidates :
        /\ r.candidates[k] = x
        /\ \A p \in N : \A q \in KnownAt(p, m) : \A j \in DOMAIN q.candidates :
              q.candidates[j] = y => n < p \/ (n = p /\ k < j)
    BY <2>2
  <2>4. \A p \in N2 : \A q \in KnownAt(p, m) : \A j \in DOMAIN q.candidates :
              q.candidates[j] = y => n < p \/ (n = p /\ k < j)
    BY <1>5, <2>3
  <2> QED
    BY <2>3, <2>4 DEF Precedes
<1>14. ASSUME NEW k \in (Len(old) + 1)..Len(new), NEW j \in 1..(k - 1)
       PROVE  Precedes(m, N2, new[j], new[k])
  <2>1. PICK q \in 1..Len(add) :
          /\ add[q] = new[k] /\ new[k] \notin ToSet(old)
          /\ \A p \in 1..(q - 1) : add[p] # new[k]
          /\ \A i \in (Len(old) + 1)..(k - 1) : \E p \in 1..(q - 1) : add[p] = new[i]
    BY <1>6
  <2>2. k \in Nat /\ j \in Nat /\ q \in Nat /\ \A p \in 1..Len(add) : p \notin 1..(q - 1) => q <= p
    BY <1>5
  <2>3. \A p \in 1..Len(add) : add[p] = new[k] => q <= p
    BY <2>1, <2>2
  <2>4. CASE j <= Len(old)
    <3>1. j \in 1..Len(old) /\ new[j] = old[j]
      BY <1>5, <1>6, <2>2, <2>4
    <3>2. new[j] \in ToSet(old)
      <4>1. j \in DOMAIN old
        BY <1>1, <3>1
      <4> QED
        BY <3>1, <4>1 DEF ToSet
    <3>3. PICK n \in N : new[j] \in UNION {ToSet(r.candidates) : r \in KnownAt(n, m)}
      BY <1>7, <3>2
    <3>4. PICK r \in KnownAt(n, m) : new[j] \in ToSet(r.candidates)
      BY <3>3
    <3>5. PICK i \in DOMAIN r.candidates : r.candidates[i] = new[j]
      BY <3>4 DEF ToSet
    <3>6. \A p \in N2 : \A r2 \in KnownAt(p, m) : \A i2 \in DOMAIN r2.candidates :
              r2.candidates[i2] = new[k] => n < p \/ (n = p /\ i < i2)
      BY <1>5, <1>11, <2>1
    <3> QED
      BY <3>5, <3>6 DEF Precedes
  <2>5. CASE ~(j <= Len(old))
    <3>1. j \in (Len(old) + 1)..(k - 1)
      BY <1>5, <2>2, <2>5
    <3>2. PICK p \in 1..(q - 1) : add[p] = new[j]
      BY <2>1, <3>1
    <3>3. p \in DOMAIN add /\ p < q /\ p \in Nat
      BY <1>5, <2>2, <3>2
    <3>4. \A n \in N2 : \A r \in KnownAt(n, m) : \A i \in DOMAIN r.candidates :
              r.candidates[i] = new[k] => o < n \/ (o = n /\ p < i)
      <4>1. ASSUME NEW n \in N2, NEW r \in KnownAt(n, m), NEW i \in DOMAIN r.candidates,
                   r.candidates[i] = new[k]
            PROVE  o = n /\ p < i
        <5>1. n = o
          BY <1>11, <2>1, <4>1
        <5>2. r = b
          BY <1>2, <5>1
        <5>3. i \in 1..Len(add) /\ add[i] = new[k]
          BY <1>5, <4>1, <5>2 DEF add
        <5>4. q <= i
          BY <2>3, <5>3
        <5> QED
          BY <1>5, <2>2, <3>3, <5>1, <5>3, <5>4
      <4> QED
        BY <4>1
    <3>5. b \in KnownAt(o, m) /\ o \in N2 /\ p \in DOMAIN b.candidates /\ b.candidates[p] = new[j]
      BY <1>2, <3>2, <3>3 DEF add
    <3> QED
      BY <3>4, <3>5 DEF Precedes
  <2> QED
    BY <2>4, <2>5
<1>15. \A k \in (Len(first.candidates) + 1)..Len(new) : \A j \in 1..(k - 1) :
          Precedes(m, N2, new[j], new[k])
  <2>1. ASSUME NEW k \in (Len(first.candidates) + 1)..Len(new), NEW j \in 1..(k - 1)
        PROVE  Precedes(m, N2, new[j], new[k])
    <3>1. k \in Nat /\ j \in Nat
      BY <1>10
    <3>2. CASE k <= Len(old)
      <4>1. k \in (Len(first.candidates) + 1)..Len(old) /\ k \in 1..Len(old) /\ j \in 1..Len(old)
        BY <1>5, <1>10, <3>1, <3>2
      <4>2. Precedes(m, N, old[j], old[k])
        BY <1>9, <4>1
      <4> QED
        BY <1>6, <1>13, <4>1, <4>2
    <3>3. CASE ~(k <= Len(old))
      <4>1. k \in (Len(old) + 1)..Len(new)
        BY <1>5, <3>1, <3>3
      <4> QED
        BY <1>14, <4>1
    <3> QED
      BY <3>2, <3>3
  <2> QED
    BY <2>1
<1>16. /\ n0 \in N2 /\ \A p \in N2 : KnownAt(p, m) # {} => n0 <= p
       /\ Len(first.candidates) <= Len(new)
       /\ \A k \in DOMAIN first.candidates : new[k] = first.candidates[k]
  <2>1. \A p \in N2 : KnownAt(p, m) # {} => n0 <= p
    BY <1>5, <1>9
  <2>2. Len(first.candidates) <= Len(new)
    BY <1>5, <1>6, <1>9, <1>10
  <2>3. ASSUME NEW k \in DOMAIN first.candidates PROVE new[k] = first.candidates[k]
    <3>1. k \in 1..Len(old)
      BY <1>5, <1>9, <1>10
    <3> QED
      BY <1>6, <1>9, <3>1
  <2> QED
    BY <2>1, <2>2, <2>3
<1> QED
  BY <1>3, <1>12, <1>15, <1>16 DEF CandidatesInOrder

\* One more record, of a later cache.
LEMMA JoinStep ==
    ASSUME cache_list \in CacheLists, NEW N \in SUBSET MergeOrderNumbers, NEW a,
           JoinedFrom(a, N), NEW o \in MergeOrderNumbers, \A n \in N : n < o,
           NEW b \in KnownAt(o, a.name)
    PROVE  JoinedFrom(JoinModules(a, b), N \cup {o}) /\ JoinModules(a, b).name = a.name
<1> DEFINE K(n) == KnownAt(n, a.name)
           j == JoinModules(a, b)
<1>1. /\ a \in ModuleRecords /\ a.name \in Modules
      /\ a.safety \in Safeties /\ a.candidates \in Seq(Candidates)
  BY DEF JoinedFrom, ModuleRecords
<1>2. b \in ModuleRecords /\ b.safety \in Safeties /\ b.candidates \in Seq(Candidates) /\ K(o) = {b}
  BY <1>1, KnownFacts
<1>3. j.name = a.name /\ j.safety = JoinSafety(a.safety, b.safety)
      /\ j.candidates = ExtendDeduped(a.candidates, b.candidates)
  BY DEF JoinModules
<1>5. j \in ModuleRecords
  BY <1>1, <1>2, JoinType
<1>6. o \notin N /\ o \in Nat /\ N \subseteq Nat
  BY DEF MergeOrderNumbers
<1>7. Failing(K(o)) = {} <=> ~b.safety.failed
  <2>1. Failing({b}) = {x \in {b} : x.safety.failed}
    BY DEF Failing
  <2> QED
    BY <1>2, <2>1
<1>8. (\A n \in N : Failing(K(n)) = {}) =>
         ~a.safety.failed /\ a.safety.errors = UNION {ErrorsOf(K(n)) : n \in N}
  BY DEF JoinedFrom
<1>9. ASSUME NEW n \in N \cup {o}, NEW first \in K(n), first.safety.failed,
             \A p \in N \cup {o} : p < n => Failing(K(p)) = {}
      PROVE  j.safety = first.safety
  <2>1. CASE n \in N
    <3>1. a.safety = first.safety
      BY <1>9, <2>1 DEF JoinedFrom, FirstFailureKept
    <3> QED
      BY <1>3, <1>9, <3>1 DEF JoinSafety
  <2>2. CASE n = o
    <3>1. \A p \in N : Failing(K(p)) = {}
      BY <1>9, <2>2
    <3>2. ~a.safety.failed
      BY <1>8, <3>1
    <3>3. first = b
      BY <1>2, <2>2
    <3> QED
      BY <1>3, <1>9, <3>2, <3>3 DEF JoinSafety
  <2> QED
    BY <2>1, <2>2
<1>10. FirstFailureKept(j, N \cup {o})
  <2> HIDE DEF j
  <2> QED
    BY <1>3, <1>9 DEF FirstFailureKept
<1>11. ASSUME \A n \in N \cup {o} : Failing(K(n)) = {}
       PROVE  ~j.safety.failed /\ j.safety.errors = UNION {ErrorsOf(K(n)) : n \in N \cup {o}}
  <2>1. ~a.safety.failed /\ a.safety.errors = UNION {ErrorsOf(K(n)) : n \in N} /\ ~b.safety.failed
    BY <1>7, <1>8, <1>11
  <2>2. j.safety = [failed |-> FALSE, errors |-> a.safety.errors \cup b.safety.errors]
    BY <1>3, <2>1 DEF JoinSafety
  <2>3. ErrorsOf(K(o)) = b.safety.errors
    <3>1. Failing({b}) = {}
      BY <1>2, <1>11
    <3>2. ErrorsOf({b}) = b.safety.errors
      BY <3>1 DEF ErrorsOf
    <3> QED
      BY <1>2, <3>2
  <2>4. UNION {ErrorsOf(K(n)) : n \in N \cup {o}} = (UNION {ErrorsOf(K(n)) : n \in N}) \cup ErrorsOf(K(o))
    OBVIOUS
  <2> QED
    BY <2>1, <2>2, <2>3, <2>4
<1>12. CandidatesInOrder(j, N \cup {o})
  BY JoinCandidatesStep
<1>13. \E n \in N \cup {o} : KnownAt(n, a.name) # {}
  BY <1>2
<1> HIDE DEF j
<1>14. JoinedFrom(j, N \cup {o})
  BY <1>3, <1>5, <1>10, <1>11, <1>12, <1>13 DEF JoinedFrom
<1> QED
  BY <1>3, <1>14 DEF j

\* With mods2, the first pending record of a module, at p, goes to w: it is joined to
\* the record there or starts one.
Takes(mods, W, P, origin, p, mods2, w) ==
    /\ p \in P /\ \A i \in P \ {p} : mods[i].name = mods[p].name => origin[p] < origin[i]
    /\ mods2 \in Seq(ModuleRecords) /\ w \in DOMAIN mods2 /\ w \notin P \ {p}
    /\ \A i \in (W \ {w}) \cup (P \ {p}) : i \in DOMAIN mods2 /\ mods2[i] = mods[i]
    /\ \/ /\ w \in W /\ mods[w].name = mods[p].name
          /\ mods2[w] = JoinModules(mods[w], mods[p])
       \/ /\ w \notin W /\ \A v \in W : mods[v].name # mods[p].name
          /\ mods2[w] = mods[p]

LEMMA TakeOne ==
    ASSUME cache_list \in CacheLists, NEW mods, NEW W, NEW P, NEW origin, NEW p, NEW mods2, NEW w,
           BeingJoined(mods, W, P, origin), Takes(mods, W, P, origin, p, mods2, w),
           NEW origin2, origin2 = [i \in P \ {p} |-> origin[i]]
    PROVE  BeingJoined(mods2, W \cup {w}, P \ {p}, origin2)
<1> USE DEF Takes
<1> DEFINE m == mods[p].name
           o == origin[p]
           P2 == P \ {p}
           Old(x) == Absorbed(mods, P, origin, x)
           New(x) == Absorbed(mods2, P2, origin2, x)
<1>1. /\ mods \in Seq(ModuleRecords) /\ W \subseteq DOMAIN mods /\ P \subseteq DOMAIN mods /\ W \cap P = {}
      /\ origin \in [P -> MergeOrderNumbers]
      /\ \A i \in P : mods[i] \in KnownAt(origin[i], mods[i].name)
      /\ \A v \in W : JoinedFrom(mods[v], Old(mods[v].name))
      /\ \A u, v \in W : mods[u].name = mods[v].name => u = v
      /\ \A n \in MergeOrderNumbers : \A x \in Modules : KnownAt(n, x) # {} =>
          \/ \E i \in P : origin[i] = n /\ mods[i].name = x
          \/ n \in Old(x) /\ \E v \in W : mods[v].name = x
  BY DEF BeingJoined
<1>2. \A i \in DOMAIN mods : mods[i] \in ModuleRecords /\ mods[i].name \in Modules
  <2>1. \A i \in DOMAIN mods : mods[i] \in ModuleRecords
    BY <1>1
  <2> QED
    BY <2>1 DEF ModuleRecords
<1>3. m \in Modules /\ o \in MergeOrderNumbers /\ mods[p] \in KnownAt(o, m)
      /\ MergeOrderNumbers \subseteq Nat
  BY <1>1, <1>2 DEF MergeOrderNumbers
<1>4. \A i \in P2 : i \in P /\ i # p /\ origin2[i] = origin[i] /\ mods2[i] = mods[i]
                    /\ i \in DOMAIN mods2 /\ origin[i] \in MergeOrderNumbers
  BY <1>1
<1>5. origin2 \in [P2 -> MergeOrderNumbers]
  BY <1>1
<1>6. \A x : Old(x) \subseteq MergeOrderNumbers /\ New(x) \subseteq MergeOrderNumbers
  BY DEF Absorbed
<1>7. ASSUME NEW x, x # m PROVE New(x) = Old(x)
  <2>1. \A i \in P : mods[i].name = x => i \in P2
    BY <1>7
  <2> QED
    BY <1>4, <2>1 DEF Absorbed
<1>8. \A n \in Old(m) : n < o
  BY DEF Absorbed
<1>9. o \in New(m) /\ Old(m) \subseteq New(m)
  <2>1. o \in New(m)
    BY <1>3, <1>4 DEF Absorbed
  <2>2. Old(m) \subseteq New(m)
    BY <1>4 DEF Absorbed
  <2> QED
    BY <2>1, <2>2
<1>10. ASSUME NEW n \in New(m), n # o, KnownAt(n, m) # {}
       PROVE  n \in Old(m) /\ \E v \in W : mods[v].name = m
  <2>1. n \in MergeOrderNumbers
    BY <1>6
  <2>2. ASSUME NEW i \in P, origin[i] = n, mods[i].name = m PROVE FALSE
    <3>1. i \in P2
      BY <1>10, <2>2
    <3>2. n < origin2[i]
      BY <1>4, <2>2, <3>1 DEF Absorbed
    <3>3. origin2[i] = n /\ n \in Nat
      BY <1>3, <1>4, <2>1, <2>2, <3>1
    <3> QED
      BY <3>2, <3>3
  <2>3. n \in Old(m) /\ \E v \in W : mods[v].name = m
    <3>1. m \in Modules
      BY <1>3
    <3>2. \/ \E i \in P : origin[i] = n /\ mods[i].name = m
          \/ n \in Old(m) /\ \E v \in W : mods[v].name = m
      BY <1>1, <1>10, <2>1, <3>1, Zenon
    <3> QED
      BY <2>2, <3>2
  <2> QED
    BY <2>3
<1>11. mods2[w].name = m /\ JoinedFrom(mods2[w], New(m))
  <2>1. CASE w \in W /\ mods[w].name = mods[p].name /\ mods2[w] = JoinModules(mods[w], mods[p])
    <3>1. JoinedFrom(mods[w], Old(m)) /\ mods[w].name = m
      BY <1>1, <2>1
    <3>2. JoinedFrom(mods2[w], Old(m) \cup {o}) /\ mods2[w].name = m
      <4>1. mods[p] \in KnownAt(o, mods[w].name)
        BY <1>3, <3>1
      <4>2. PICK N \in SUBSET MergeOrderNumbers : N = Old(m) /\ \A n \in N : n < o
        BY <1>6, <1>8
      <4>3. PICK a : a = mods[w] /\ a.name = m
        BY <3>1
      <4>4. PICK b \in KnownAt(o, a.name) : b = mods[p]
        BY <4>1, <4>3
      <4>5. PICK at \in MergeOrderNumbers : at = o
        BY <1>3
      <4>6. JoinedFrom(JoinModules(a, b), N \cup {at}) /\ JoinModules(a, b).name = a.name
        <5>1. JoinedFrom(a, N) /\ (\A n \in N : n < at) /\ b \in KnownAt(at, a.name)
          BY <3>1, <4>2, <4>3, <4>4, <4>5
        <5> HIDE DEF Old, New, m, o
        <5>2. JoinedFrom(JoinModules(a, b), N \cup {at})
          BY <5>1, JoinStep, Zenon
        <5>3. JoinModules(a, b).name = a.name
          BY DEF JoinModules
        <5> QED
          BY <5>2, <5>3
      <4> QED
        BY <2>1, <4>2, <4>3, <4>4, <4>5, <4>6
    <3>3. \A n \in New(m) \ (Old(m) \cup {o}) : KnownAt(n, mods2[w].name) = {}
      BY <1>10, <3>2
    <3>4. Old(m) \cup {o} \subseteq New(m) /\ New(m) \in SUBSET Nat /\ Old(m) \cup {o} \in SUBSET Nat
      BY <1>3, <1>6, <1>9
    <3> HIDE DEF Old, New, m, o
    <3> QED
      BY <3>2, <3>3, <3>4, JoinWiden
  <2>2. CASE w \notin W /\ (\A v \in W : mods[v].name # mods[p].name) /\ mods2[w] = mods[p]
    <3>1. JoinedFrom(mods2[w], {o}) /\ mods2[w].name = m
      BY <1>3, <2>2, JoinBase
    <3>2. \A n \in New(m) \ {o} : KnownAt(n, mods2[w].name) = {}
      BY <1>10, <2>2, <3>1
    <3>3. {o} \subseteq New(m) /\ New(m) \in SUBSET Nat /\ {o} \in SUBSET Nat
      BY <1>3, <1>6, <1>9
    <3> HIDE DEF Old, New, m, o
    <3> QED
      BY <3>1, <3>2, <3>3, JoinWiden
  <2> QED
    BY <2>1, <2>2
<1>12. \A v \in W \ {w} : mods2[v] = mods[v] /\ mods[v].name # m /\ v \in DOMAIN mods2
  BY <1>1
<1>13. W \cup {w} \subseteq DOMAIN mods2 /\ P2 \subseteq DOMAIN mods2 /\ (W \cup {w}) \cap P2 = {}
  BY <1>1, <1>4, <1>12
<1>14. \A i \in P2 : mods2[i] \in KnownAt(origin2[i], mods2[i].name)
  BY <1>1, <1>4
<1>15. \A v \in W \cup {w} : JoinedFrom(mods2[v], New(mods2[v].name))
  <2>1. ASSUME NEW v \in W \cup {w} PROVE JoinedFrom(mods2[v], New(mods2[v].name))
    <3>1. CASE v = w
      BY <1>11, <3>1
    <3>2. CASE v # w
      <4>1. v \in W \ {w} /\ v \in W /\ mods2[v] = mods[v] /\ mods[v].name # m
        BY <1>12, <3>2
      <4>2. JoinedFrom(mods[v], Old(mods[v].name)) /\ New(mods[v].name) = Old(mods[v].name)
        BY <1>1, <1>7, <4>1
      <4> HIDE DEF Old, New
      <4> QED
        BY <4>1, <4>2
    <3> QED
      BY <3>1, <3>2
  <2> QED
    BY <2>1
<1>16. \A u, v \in W \cup {w} : mods2[u].name = mods2[v].name => u = v
  BY <1>1, <1>11, <1>12
<1>17. ASSUME NEW n \in MergeOrderNumbers, NEW x \in Modules, KnownAt(n, x) # {}
       PROVE  \/ \E i \in P2 : origin2[i] = n /\ mods2[i].name = x
              \/ n \in New(x) /\ \E v \in W \cup {w} : mods2[v].name = x
  <2>1. CASE \E i \in P : origin[i] = n /\ mods[i].name = x
    <3>1. PICK i \in P : origin[i] = n /\ mods[i].name = x
      BY <2>1
    <3>2. CASE i = p
      <4>1. x = m /\ n = o
        BY <3>1, <3>2
      <4> QED
        BY <1>9, <1>11, <4>1
    <3>3. CASE i # p
      <4>1. i \in P2 /\ origin2[i] = n /\ mods2[i].name = x
        BY <1>4, <3>1, <3>3
      <4> QED
        BY <4>1
    <3> QED
      BY <3>2, <3>3
  <2>2. CASE n \in Old(x) /\ \E v \in W : mods[v].name = x
    <3>1. CASE x = m
      BY <1>9, <1>11, <2>2, <3>1
    <3>2. CASE x # m
      <4>1. PICK v \in W : mods[v].name = x
        BY <2>2
      <4>2. v # w
        BY <3>2, <4>1
      <4>3. mods2[v].name = x
        BY <1>12, <4>1, <4>2
      <4> QED
        BY <1>7, <2>2, <3>2, <4>3
    <3> QED
      BY <3>1, <3>2
  <2> QED
    BY <1>1, <1>17, <2>1, <2>2
<1> HIDE DEF P2
<1>18. BeingJoined(mods2, W \cup {w}, P2, origin2)
  BY <1>5, <1>13, <1>14, <1>15, <1>16, <1>17 DEF BeingJoined
<1> QED
  BY <1>18 DEF P2

-----------------------------------------------------------------------------
(* Caches: gathering and sorting the records.                               *)

LEMMA OwnRecords ==
    ASSUME cache_list \in CacheLists, NEW n \in MergeOrderNumbers
    PROVE  /\ MergedAs(n).modules \in Seq(ModuleRecords)
           /\ \A i \in DOMAIN MergedAs(n).modules :
                 MergedAs(n).modules[i] \in KnownAt(n, MergedAs(n).modules[i].name)
           /\ \A i, j \in DOMAIN MergedAs(n).modules :
                 MergedAs(n).modules[i].name = MergedAs(n).modules[j].name => i = j
           /\ \A m : KnownAt(n, m) # {} =>
                 \E i \in DOMAIN MergedAs(n).modules : MergedAs(n).modules[i].name = m
<1>1. MergedAs(n) \in Caches /\ IsCache(MergedAs(n))
  BY KnownFacts
<1> DEFINE s == MergedAs(n).modules
<1>2. s \in Seq(ModuleRecords) /\ \A i, j \in DOMAIN s : s[i].name = s[j].name => i = j
  BY <1>1 DEF Caches, IsCache
<1>3. \A m : KnownAt(n, m) = RecordsOf(s, m)
  BY DEF KnownAt
<1> HIDE DEF s
<1>4. \A i \in DOMAIN s : s[i] \in KnownAt(n, s[i].name)
  BY <1>3 DEF RecordsOf
<1>5. \A m : KnownAt(n, m) # {} => \E i \in DOMAIN s : s[i].name = m
  BY <1>3 DEF RecordsOf
<1> QED
  BY <1>2, <1>4, <1>5 DEF s

LEMMA GatherStart ==
    ASSUME cache_list \in CacheLists
    PROVE  /\ cache_list[1].modules \in Seq(ModuleRecords)
           /\ \E origin \in [DOMAIN cache_list[1].modules -> MergeOrderNumbers] :
                 Gathered(cache_list[1].modules, 1, origin)
<1> DEFINE s == cache_list[1].modules
           origin == [i \in DOMAIN s |-> 1]
<1>1. 1 \in MergeOrderNumbers /\ MergedAs(1).modules = s
  BY ListFacts DEF MergedAs, MergeOrderNumbers
<1>2. /\ s \in Seq(ModuleRecords)
      /\ \A i \in DOMAIN s : s[i] \in KnownAt(1, s[i].name)
      /\ \A i, j \in DOMAIN s : s[i].name = s[j].name => i = j
      /\ \A m : KnownAt(1, m) # {} => \E i \in DOMAIN s : s[i].name = m
  <2> HIDE DEF s
  <2> QED
    BY <1>1, OwnRecords
<1>3. /\ origin \in [DOMAIN s -> MergeOrderNumbers] /\ origin \in [DOMAIN s -> 1..1]
      /\ \A i \in DOMAIN s : origin[i] = 1
  <2> HIDE DEF s
  <2> QED
    BY <1>1
<1>4. \A i, j \in DOMAIN s : i < j => i # j
  <2>1. DOMAIN s \subseteq Nat
    BY <1>2
  <2> QED
    BY <2>1
<1> HIDE DEF s, origin
<1>5. \A n \in 1..1 : n = 1
  OBVIOUS
<1>6. \A i, j \in DOMAIN s : s[i].name = s[j].name /\ i < j => origin[i] < origin[j]
  BY <1>2, <1>4
<1>7. Gathered(s, 1, origin)
  BY <1>2, <1>3, <1>5, <1>6 DEF Gathered
<1> QED
  BY <1>2, <1>3, <1>7 DEF s

LEMMA GatherStep ==
    ASSUME cache_list \in CacheLists, NEW mods, NEW k \in Nat, NEW origin, Gathered(mods, k, origin),
           k + 1 \in MergeOrderNumbers
    PROVE  \E o \in [DOMAIN (mods \o MergedAs(k + 1).modules) -> MergeOrderNumbers] :
              Gathered(mods \o MergedAs(k + 1).modules, k + 1, o)
<1> DEFINE s == MergedAs(k + 1).modules
           all == mods \o s
           N == Len(mods)
           o == [i \in DOMAIN all |-> IF i \in DOMAIN mods THEN origin[i] ELSE k + 1]
<1>1. /\ mods \in Seq(ModuleRecords)
      /\ origin \in [DOMAIN mods -> 1..k]
      /\ \A i \in DOMAIN mods : mods[i] \in KnownAt(origin[i], mods[i].name)
      /\ \A i, j \in DOMAIN mods : mods[i].name = mods[j].name /\ i < j => origin[i] < origin[j]
      /\ \A n \in 1..k : \A m \in Modules : KnownAt(n, m) # {} =>
            \E i \in DOMAIN mods : origin[i] = n /\ mods[i].name = m
  BY DEF Gathered
<1>2. /\ s \in Seq(ModuleRecords)
      /\ \A i \in DOMAIN s : s[i] \in KnownAt(k + 1, s[i].name)
      /\ \A i, j \in DOMAIN s : s[i].name = s[j].name => i = j
      /\ \A m : KnownAt(k + 1, m) # {} => \E i \in DOMAIN s : s[i].name = m
  BY OwnRecords
<1> HIDE DEF s
<1>3. /\ all \in Seq(ModuleRecords) /\ Len(all) = N + Len(s) /\ N \in Nat /\ Len(s) \in Nat
      /\ \A i \in 1..(N + Len(s)) : all[i] = IF i <= N THEN mods[i] ELSE s[i - N]
      /\ DOMAIN mods = 1..N /\ DOMAIN s = 1..Len(s)
  BY <1>1, <1>2, ConcatProperties
<1>4. DOMAIN all = 1..(N + Len(s))
  <2> HIDE DEF all, N
  <2> QED
    BY <1>3
<1> HIDE DEF all, N
<1>5. \A i \in DOMAIN mods : i \in DOMAIN all /\ all[i] = mods[i] /\ i <= N
  <2>1. ASSUME NEW i \in DOMAIN mods PROVE i \in 1..(N + Len(s)) /\ i <= N
    BY <1>3
  <2> QED
    BY <1>3, <1>4, <2>1
<1>6. \A i \in DOMAIN all : i \notin DOMAIN mods => i - N \in DOMAIN s /\ all[i] = s[i - N] /\ i \in Nat
  <2>1. ASSUME NEW i \in DOMAIN all, i \notin DOMAIN mods
        PROVE  i - N \in 1..Len(s) /\ ~(i <= N) /\ i \in Nat
    BY <1>3, <1>4, <2>1
  <2> QED
    BY <1>3, <1>4, <2>1
<1>7. \A i \in DOMAIN s : i + N \in DOMAIN all /\ i + N \notin DOMAIN mods /\ all[i + N] = s[i]
  <2>1. ASSUME NEW i \in DOMAIN s
        PROVE  i + N \in 1..(N + Len(s)) /\ ~(i + N <= N) /\ (i + N) - N = i
    BY <1>3
  <2> QED
    BY <1>3, <1>4, <2>1
<1>8. k + 1 \in 1..(k + 1) /\ 1..k \subseteq 1..(k + 1) /\ 1..(k + 1) \subseteq MergeOrderNumbers
      /\ \A n \in 1..(k + 1) : n \in 1..k \/ n = k + 1
  <2>1. PICK L \in Nat : MergeOrderNumbers = 1..L
    BY ListFacts DEF MergeOrderNumbers
  <2>2. k + 1 <= L
    BY <2>1
  <2>3. 1..(k + 1) \subseteq 1..L
    BY <2>2
  <2>4. k + 1 \in 1..(k + 1) /\ 1..k \subseteq 1..(k + 1) /\ \A n \in 1..(k + 1) : n \in 1..k \/ n = k + 1
    OBVIOUS
  <2> QED
    BY <2>1, <2>3, <2>4
<1>9. o \in [DOMAIN all -> 1..(k + 1)]
  BY <1>1, <1>8
<1>10. /\ \A i \in DOMAIN mods : o[i] = origin[i] /\ origin[i] \in 1..k
       /\ \A i \in DOMAIN all : i \notin DOMAIN mods => o[i] = k + 1
  BY <1>1, <1>5
<1> HIDE DEF o
<1>11. \A i \in DOMAIN all : all[i] \in KnownAt(o[i], all[i].name)
  BY <1>1, <1>2, <1>5, <1>6, <1>10
<1>12. ASSUME NEW i \in DOMAIN all, NEW j \in DOMAIN all, all[i].name = all[j].name, i < j
       PROVE  o[i] < o[j]
  <2>1. CASE j \in DOMAIN mods
    <3>1. i \in DOMAIN mods
      BY <1>3, <1>4, <1>12, <2>1
    <3> QED
      BY <1>1, <1>5, <1>10, <1>12, <2>1, <3>1
  <2>2. CASE j \notin DOMAIN mods /\ i \in DOMAIN mods
    <3>1. o[j] = k + 1 /\ o[i] \in 1..k
      BY <1>10, <2>2
    <3> QED
      BY <3>1
  <2>3. CASE j \notin DOMAIN mods /\ i \notin DOMAIN mods
    <3>1. i - N = j - N /\ i \in Nat /\ j \in Nat
      BY <1>2, <1>6, <1>12, <2>3
    <3> QED
      BY <1>3, <1>12, <3>1
  <2> QED
    BY <2>1, <2>2, <2>3
<1>13. ASSUME NEW n \in 1..(k + 1), NEW m \in Modules, KnownAt(n, m) # {}
       PROVE  \E i \in DOMAIN all : o[i] = n /\ all[i].name = m
  <2>1. CASE n \in 1..k
    BY <1>1, <1>5, <1>10, <1>13, <2>1
  <2>2. CASE n = k + 1
    <3>1. PICK i \in DOMAIN s : s[i].name = m
      BY <1>2, <1>13, <2>2
    <3> QED
      BY <1>7, <1>10, <2>2, <3>1
  <2> QED
    BY <1>8, <2>1, <2>2
<1>14. Gathered(all, k + 1, o) /\ o \in [DOMAIN all -> MergeOrderNumbers]
  <2>1. o \in [DOMAIN all -> MergeOrderNumbers]
    BY <1>8, <1>9
  <2> QED
    BY <1>3, <1>9, <1>11, <1>12, <1>13, <2>1 DEF Gathered
<1> QED
  BY <1>14 DEF all, s

LEMMA SortGathered ==
    ASSUME cache_list \in CacheLists, NEW mods, NEW origin,
           Gathered(mods, Len(cache_list), origin)
    PROVE  /\ SortedByName(mods) \in Seq(ModuleRecords) /\ Len(SortedByName(mods)) = Len(mods)
           /\ \E o \in [1..Len(mods) -> MergeOrderNumbers] :
                 /\ BeingJoined(SortedByName(mods), {}, 1..Len(mods), o)
                 /\ InOrder(SortedByName(mods), 1..Len(mods), o)
<1> DEFINE s == SortedByName(mods)
           N == 1..Len(mods)
<1>1. /\ mods \in Seq(ModuleRecords)
      /\ origin \in [DOMAIN mods -> MergeOrderNumbers]
      /\ \A i \in DOMAIN mods : mods[i] \in KnownAt(origin[i], mods[i].name)
      /\ \A i, j \in DOMAIN mods : mods[i].name = mods[j].name /\ i < j => origin[i] < origin[j]
      /\ \A n \in MergeOrderNumbers : \A m \in Modules : KnownAt(n, m) # {} =>
            \E i \in DOMAIN mods : origin[i] = n /\ mods[i].name = m
  BY DEF Gathered, MergeOrderNumbers
<1>2. DOMAIN mods = N
  BY <1>1
<1>3. PICK at \in [N -> N] :
              /\ \A i \in N : \E n \in N : at[n] = i
              /\ s \in Seq(ModuleRecords) /\ Len(s) = Len(mods)
              /\ \A n \in N : s[n] = mods[at[n]]
              /\ \A n, o \in N : n < o => Before(mods, at[n], at[o]) /\ at[n] # at[o]
  <2> HIDE DEF s
  <2> QED
    BY <1>1, SortFacts DEF s
<1> DEFINE o == [n \in N |-> origin[at[n]]]
<1> HIDE DEF s
<1>4. DOMAIN s = N /\ N \subseteq Nat
  BY <1>1, <1>3
<1> HIDE DEF N
<1>5. o \in [N -> MergeOrderNumbers] /\ \A n \in N : o[n] = origin[at[n]] /\ at[n] \in N
  BY <1>1, <1>2, <1>3
<1> HIDE DEF o
<1>6. InOrder(s, N, o)
  <2>1. ASSUME NEW i \in N, NEW j \in N, i < j
        PROVE  s[i].name < s[j].name \/ (s[i].name = s[j].name /\ o[i] < o[j])
    <3>1. Before(mods, at[i], at[j]) /\ at[i] # at[j] /\ at[i] \in Nat /\ at[j] \in Nat
      BY <1>3, <1>4, <1>5, <2>1
    <3>2. CASE mods[at[i]].name < mods[at[j]].name
      BY <1>3, <3>2
    <3>3. CASE mods[at[i]].name = mods[at[j]].name /\ at[i] <= at[j]
      <4>1. at[i] < at[j]
        BY <3>1, <3>3
      <4>2. origin[at[i]] < origin[at[j]]
        BY <1>1, <1>2, <1>5, <3>3, <4>1
      <4> QED
        BY <1>3, <1>5, <3>3, <4>2
    <3> QED
      BY <3>1, <3>2, <3>3 DEF Before
  <2> QED
    BY <2>1 DEF InOrder
<1>7. ASSUME NEW i \in N PROVE s[i] \in KnownAt(o[i], s[i].name)
  <2>1. at[i] \in N /\ o[i] = origin[at[i]]
    BY <1>5
  <2>2. s[i] = mods[at[i]]
    BY <1>3
  <2>3. mods[at[i]] \in KnownAt(origin[at[i]], mods[at[i]].name)
    BY <1>1, <1>2, <2>1
  <2> QED
    BY <2>1, <2>2, <2>3
<1>8. ASSUME NEW n \in MergeOrderNumbers, NEW m \in Modules, KnownAt(n, m) # {}
      PROVE  \E i \in N : o[i] = n /\ s[i].name = m
  <2>1. PICK i \in N : origin[i] = n /\ mods[i].name = m
    BY <1>1, <1>2, <1>8
  <2>2. PICK k \in N : at[k] = i
    BY <1>3
  <2> QED
    BY <1>3, <1>5, <2>1, <2>2
<1>9. BeingJoined(s, {}, N, o)
  BY <1>3, <1>4, <1>5, <1>7, <1>8 DEF BeingJoined
<1> QED
  BY <1>3, <1>5, <1>6, <1>9 DEF s, N

\* A single cache stays as it is.
LEMMA OneCache ==
    ASSUME cache_list \in CacheLists, Len(cache_list) = 1
    PROVE  \E origin \in [{} -> MergeOrderNumbers] :
              BeingJoined(cache_list[1].modules, DOMAIN cache_list[1].modules, {}, origin)
<1> DEFINE s == cache_list[1].modules
<1>1. 1 \in MergeOrderNumbers /\ MergedAs(1).modules = s /\ MergeOrderNumbers = {1}
  BY DEF MergedAs, MergeOrderNumbers
<1>2. /\ s \in Seq(ModuleRecords)
      /\ \A i \in DOMAIN s : s[i] \in KnownAt(1, s[i].name)
      /\ \A i, j \in DOMAIN s : s[i].name = s[j].name => i = j
      /\ \A m : KnownAt(1, m) # {} => \E i \in DOMAIN s : s[i].name = m
  <2> HIDE DEF s
  <2> QED
    BY <1>1, OwnRecords
<1> HIDE DEF s
<1>3. \A i \in DOMAIN s : s[i] \in ModuleRecords /\ s[i].name \in Modules
  <2>1. \A i \in DOMAIN s : s[i] \in ModuleRecords
    BY <1>2
  <2> QED
    BY <2>1 DEF ModuleRecords
<1>4. PICK origin : origin \in [{} -> MergeOrderNumbers]
  <2>1. [i \in {} |-> 1] \in [{} -> MergeOrderNumbers]
    OBVIOUS
  <2> QED
    BY <2>1
<1>5. \A m : Absorbed(s, {}, origin, m) = {1}
  BY <1>1 DEF Absorbed
<1>6. \A i \in DOMAIN s : JoinedFrom(s[i], {1})
  BY <1>1, <1>2, <1>3, JoinBase
<1>7. BeingJoined(s, DOMAIN s, {}, origin)
  <2>1. \A w \in DOMAIN s : JoinedFrom(s[w], Absorbed(s, {}, origin, s[w].name))
    BY <1>5, <1>6
  <2>2. \A n \in MergeOrderNumbers : \A m \in Modules : KnownAt(n, m) # {} =>
           n \in Absorbed(s, {}, origin, m) /\ \E w \in DOMAIN s : s[w].name = m
    BY <1>1, <1>2, <1>5
  <2>3. /\ DOMAIN s \subseteq DOMAIN s /\ {} \subseteq DOMAIN s /\ (DOMAIN s) \cap {} = {}
        /\ \A i \in {} : s[i] \in KnownAt(origin[i], s[i].name)
    OBVIOUS
  <2> QED
    BY <1>2, <1>4, <2>1, <2>2, <2>3 DEF BeingJoined
<1> QED
  BY <1>4, <1>7 DEF s

-----------------------------------------------------------------------------
(* Caches: the steps.                                                       *)

\* The caches are the same after every step.
LEMMA SameList ==
    ASSUME cache_list' = cache_list
    PROVE  /\ MergeOrderNumbers' = MergeOrderNumbers
           /\ \A n : MergedAs(n)' = MergedAs(n)
           /\ \A n, m : KnownAt(n, m)' = KnownAt(n, m)
           /\ \A mods, k, origin : Gathered(mods, k, origin)' <=> Gathered(mods, k, origin)
           /\ \A mods, W, P, origin : BeingJoined(mods, W, P, origin)' <=> BeingJoined(mods, W, P, origin)
           /\ \A r, N : FirstFailureKept(r, N)' <=> FirstFailureKept(r, N)
           /\ \A r, N : CandidatesInOrder(r, N)' <=> CandidatesInOrder(r, N)
<1>1. MergeOrderNumbers' = MergeOrderNumbers
  BY DEF MergeOrderNumbers
<1>2. \A n : MergedAs(n)' = MergedAs(n)
  BY DEF MergedAs
<1>3. \A n, m : KnownAt(n, m)' = KnownAt(n, m)
  BY <1>2 DEF KnownAt
<1>4. \A r, N : FirstFailureKept(r, N)' <=> FirstFailureKept(r, N)
  BY <1>3 DEF FirstFailureKept
<1>5. \A m, N, x, y : Precedes(m, N, x, y)' <=> Precedes(m, N, x, y)
  BY <1>3 DEF Precedes
<1>6. \A r, N : CandidatesInOrder(r, N)' <=> CandidatesInOrder(r, N)
  BY <1>3, <1>5 DEF CandidatesInOrder
<1>7. \A r, N : JoinedFrom(r, N)' <=> JoinedFrom(r, N)
  BY <1>3, <1>4, <1>6 DEF JoinedFrom
<1>8. \A mods, P, origin, m : Absorbed(mods, P, origin, m)' = Absorbed(mods, P, origin, m)
  BY <1>1 DEF Absorbed
<1>9. \A mods, W, P, origin : BeingJoined(mods, W, P, origin)' <=> BeingJoined(mods, W, P, origin)
  BY <1>1, <1>3, <1>7, <1>8 DEF BeingJoined
<1>10. \A mods, k, origin : Gathered(mods, k, origin)' <=> Gathered(mods, k, origin)
  BY <1>3 DEF Gathered
<1> QED
  BY <1>1, <1>2, <1>3, <1>4, <1>6, <1>9, <1>10

LEMMA FoldCalleesFacts ==
    ASSUME NEW a \in Callees, a.metaclass = NoMetaclass => a.mask \subseteq OwnBits,
           NEW b \in Callees, b.metaclass = NoMetaclass => b.mask \subseteq OwnBits
    PROVE  /\ FoldCallees(a, b) \in Callees
           /\ MetaCallees(FoldCallees(a, b)) \subseteq MetaCallees(a) \cup MetaCallees(b)
           /\ FoldCallees(a, b).metaclass = NoMetaclass => FoldCallees(a, b).mask \subseteq OwnBits
<1> DEFINE t == JoinMetaclass(a.metaclass, b.metaclass)
           mask == IF t = NoMetaclass THEN (a.mask \cup b.mask) \cap OwnBits ELSE a.mask \cup b.mask
           both == [metaclass |-> t, mask |-> mask]
<1>1. /\ a.metaclass \in Metaclasses \cup {NoMetaclass} /\ b.metaclass \in Metaclasses \cup {NoMetaclass}
      /\ a.mask \subseteq MetaBits \cup OwnBits /\ b.mask \subseteq MetaBits \cup OwnBits
  BY DEF Callees
<1>2. MetaBits \cap OwnBits = {}
  BY CacheListsAssumption
<1>3. t \in Metaclasses \cup {NoMetaclass} /\ mask \subseteq MetaBits \cup OwnBits
  BY <1>1 DEF JoinMetaclass
<1>4. both \in Callees
  BY <1>3 DEF Callees
<1>5. MergedWith(a, b) = both
  BY DEF MergedWith
<1>6. NoCallees \in Callees /\ MetaCallees(NoCallees) = {} /\ NoCallees.mask = {}
  BY DEF NoCallees, Callees, MetaCallees
<1>7. ASSUME NEW bit \in mask \cap MetaBits
      PROVE  <<t, bit>> \in MetaCallees(a) \cup MetaCallees(b)
  <2>1. t # NoMetaclass /\ bit \in a.mask \cup b.mask /\ bit \notin OwnBits
    BY <1>2
  <2>2. (a.metaclass = t \/ a.metaclass = NoMetaclass) /\ (b.metaclass = t \/ b.metaclass = NoMetaclass)
    BY <2>1 DEF JoinMetaclass
  <2>3. CASE bit \in a.mask
    <3>1. a.metaclass = t
      BY <2>1, <2>2, <2>3
    <3> QED
      BY <2>3, <3>1 DEF MetaCallees
  <2>4. CASE bit \in b.mask
    <3>1. b.metaclass = t
      BY <2>1, <2>2, <2>4
    <3> QED
      BY <2>4, <3>1 DEF MetaCallees
  <2> QED
    BY <2>1, <2>3, <2>4
<1>8. MetaCallees(both) \subseteq MetaCallees(a) \cup MetaCallees(b)
  <2>1. MetaCallees(both) = {<<t, bit>> : bit \in mask \cap MetaBits}
    BY DEF MetaCallees
  <2> HIDE DEF t, mask, both
  <2> QED
    BY <1>7, <2>1
<1>9. both.metaclass = NoMetaclass => both.mask \subseteq OwnBits
  OBVIOUS
<1> HIDE DEF both
<1>10. FoldCallees(a, b) = IF both.mask = {} THEN NoCallees ELSE both
  BY <1>5 DEF FoldCallees
<1> QED
  BY <1>4, <1>6, <1>8, <1>9, <1>10

\* The facts about the class, folded with those of a cache.
LEMMA FoldFacts ==
    ASSUME cache_list \in CacheLists, class_bases \in [Classes -> Seq(Classes)],
           callees \in Callees, CalleesRecorded, NEW d,
           \E i \in MergeOrderNumbers : d = cache_list[i],
           cache_list' = cache_list,
           class_bases' = FoldBases(class_bases, d.class_bases),
           callees' = FoldCallees(callees, d.callees)
    PROVE  class_bases' \in [Classes -> Seq(Classes)] /\ callees' \in Callees /\ CalleesRecorded'
<1>1. PICK i \in MergeOrderNumbers : d = cache_list[i]
  OBVIOUS
<1>2. d \in Caches /\ IsCache(d) /\ DOMAIN cache_list = MergeOrderNumbers
  <2>1. cache_list \in Seq(Caches) /\ cache_list[i] \in Caches /\ IsCache(cache_list[i])
    BY ListFacts
  <2> QED
    BY <1>1, <2>1 DEF MergeOrderNumbers
<1>3. d.class_bases \in [Classes -> Seq(Classes)] /\ d.callees \in Callees
  BY <1>2 DEF Caches
<1>4. class_bases' \in [Classes -> Seq(Classes)]
  <2>1. \A c \in Classes : ExtendDeduped(class_bases[c], d.class_bases[c]) \in Seq(Classes)
    BY <1>3, ExtendFacts
  <2> QED
    BY <2>1 DEF FoldBases
<1>5. /\ d.callees.metaclass = NoMetaclass => d.callees.mask \subseteq OwnBits
      /\ callees.metaclass = NoMetaclass => callees.mask \subseteq OwnBits
  BY <1>2 DEF IsCache, CalleesRecorded
<1>6. /\ callees' \in Callees
      /\ MetaCallees(callees') \subseteq MetaCallees(callees) \cup MetaCallees(d.callees)
      /\ callees'.metaclass = NoMetaclass => callees'.mask \subseteq OwnBits
  BY <1>3, <1>5, FoldCalleesFacts
<1>7. MetaCallees(d.callees) \subseteq UNION {MetaCallees(cache_list[n].callees) : n \in DOMAIN cache_list}
  BY <1>1, <1>2
<1>8. MetaCallees(callees) \subseteq UNION {MetaCallees(cache_list[n].callees) : n \in DOMAIN cache_list}
  BY DEF CalleesRecorded
<1>9. MetaCallees(callees') \subseteq UNION {MetaCallees(cache_list[n].callees) : n \in DOMAIN cache_list}
  BY <1>6, <1>7, <1>8
<1> QED
  BY <1>4, <1>6, <1>9 DEF CalleesRecorded

LEMMA InitCache ==
    MergeInit => CacheInv
<1> SUFFICES ASSUME MergeInit PROVE CacheInv
  OBVIOUS
<1> USE DEF MergeInit
<1>1. cache_list \in CacheLists /\ class_bases = NoBases /\ callees = NoCallees
      /\ modules = cache_list[1].modules /\ deps = DepOrder(cache_list) /\ write = 1 /\ read = 2
  OBVIOUS
<1>2. class_bases \in [Classes -> Seq(Classes)]
  BY <1>1 DEF NoBases
<1>3. callees \in Callees /\ CalleesRecorded
  <2>1. NoCallees \in Callees /\ MetaCallees(NoCallees) = {} /\ NoCallees.mask = {}
    BY DEF NoCallees, Callees, MetaCallees
  <2> QED
    BY <1>1, <2>1 DEF CalleesRecorded
<1>4. PICK L \in Nat : L = Len(cache_list) /\ L > 0 /\ MergeOrderNumbers = 1..L
  BY <1>1, ListFacts DEF MergeOrderNumbers
<1>5. CASE L = 1
  <2>1. Joined
    BY <1>1, <1>4, <1>5, OneCache DEF Joined
  <2>2. merge_phase = "class"
    BY <1>4, <1>5
  <2> QED
    BY <1>1, <1>2, <1>3, <2>1, <2>2 DEF CacheInv
<1>6. CASE L # 1
  <2>1. merge_phase = "fold" /\ L > 1
    BY <1>4, <1>6
  <2>2. /\ DepOrder(cache_list) \in Seq(Caches) /\ Len(DepOrder(cache_list)) = L - 1
    BY <1>1, <1>4, ListFacts, DepOrderIs
  <2>3. DOMAIN deps = 1..(L - 1)
    BY <1>1, <2>2
  <2>4. ASSUME NEW i \in DOMAIN deps PROVE deps[i] = MergedAs(L - Len(deps) + i)
    <3>1. L - Len(deps) + i = i + 1 /\ i + 1 # 1 /\ (i + 1) - 1 = i
      BY <1>1, <1>4, <2>2, <2>3
    <3> QED
      BY <1>1, <3>1 DEF MergedAs
  <2>5. L - Len(deps) = 1 /\ Len(deps) < L
    BY <1>1, <1>4, <2>2
  <2>6. \E origin \in [DOMAIN modules -> MergeOrderNumbers] : Gathered(modules, L - Len(deps), origin)
    BY <1>1, <2>5, GatherStart
  <2>7. Folding
    BY <1>1, <1>4, <2>1, <2>2, <2>4, <2>5, <2>6 DEF Folding
  <2> QED
    BY <1>1, <1>2, <1>3, <2>1, <2>7 DEF CacheInv
<1> QED
  BY <1>5, <1>6

LEMMA FoldDepStep ==
    ASSUME CacheInv, FoldDep
    PROVE  CacheInv'
<1>0. /\ merge_phase = "fold" /\ deps # <<>> /\ merge_phase' = "fold" /\ cache_list' = cache_list
      /\ modules' = modules \o Head(deps).modules
      /\ class_bases' = FoldBases(class_bases, Head(deps).class_bases)
      /\ callees' = FoldCallees(callees, Head(deps).callees)
      /\ deps' = Tail(deps) /\ write' = write /\ read' = read
  BY DEF FoldDep
<1>1. /\ cache_list \in CacheLists /\ cache_list' = cache_list
      /\ class_bases \in [Classes -> Seq(Classes)] /\ callees \in Callees /\ CalleesRecorded
      /\ merge_phase = "fold" /\ merge_phase' = "fold" /\ Folding /\ deps # <<>>
  BY <1>0 DEF CacheInv
<1>2. PICK L \in Nat : L = Len(cache_list) /\ L > 0 /\ MergeOrderNumbers = 1..L
  BY <1>1, ListFacts DEF MergeOrderNumbers
<1>3. /\ L > 1 /\ write = 1 /\ read = 2
      /\ deps \in Seq(Caches) /\ Len(deps) < L
      /\ \A i \in DOMAIN deps : deps[i] = MergedAs(L - Len(deps) + i)
  BY <1>1, <1>2 DEF Folding
<1>4. PICK N \in Nat : N = Len(deps) /\ N > 0 /\ DOMAIN deps = 1..N
  BY <1>1, <1>3
<1>5. PICK k \in Nat : k = L - N /\ k + 1 \in 1..L
  <2>1. N < L /\ L \in Nat /\ N \in Nat /\ N > 0
    BY <1>2, <1>3, <1>4
  <2>2. L - N \in Nat /\ (L - N) + 1 \in 1..L
    BY <2>1
  <2> QED
    BY <2>2
<1>6. PICK origin \in [DOMAIN modules -> MergeOrderNumbers] : Gathered(modules, k, origin)
  BY <1>1, <1>2, <1>4, <1>5 DEF Folding
<1>7. Head(deps) = MergedAs(k + 1)
  <2>1. Head(deps) = deps[1] /\ 1 \in 1..N
    BY <1>3, <1>4
  <2>2. deps[1] = MergedAs(L - N + 1)
    BY <1>3, <1>4, <2>1
  <2> QED
    BY <1>5, <2>1, <2>2
<1>8. PICK o \in [DOMAIN modules' -> MergeOrderNumbers] : Gathered(modules', k + 1, o)
  <2>1. modules' = modules \o MergedAs(k + 1).modules
    BY <1>0, <1>7
  <2>2. k + 1 \in MergeOrderNumbers
    BY <1>2, <1>5
  <2>3. \E o \in [DOMAIN (modules \o MergedAs(k + 1).modules) -> MergeOrderNumbers] :
           Gathered(modules \o MergedAs(k + 1).modules, k + 1, o)
    BY <1>1, <1>6, <2>2, GatherStep
  <2> QED
    BY <2>1, <2>3
<1>9. deps' \in Seq(Caches) /\ Len(deps') = N - 1 /\ \A i \in 1..(N - 1) : deps'[i] = deps[i + 1]
  BY <1>0, <1>1, <1>3, <1>4
<1>10. ASSUME NEW i \in DOMAIN deps' PROVE deps'[i] = MergedAs(L - Len(deps') + i)
  <2>1. i \in 1..(N - 1)
    BY <1>9
  <2>2. i + 1 \in 1..N /\ L - (N - 1) + i = L - N + (i + 1)
    BY <1>2, <1>4, <2>1
  <2>3. deps[i + 1] = MergedAs(L - N + (i + 1))
    BY <1>3, <1>4, <2>2
  <2> QED
    BY <1>9, <2>1, <2>2, <2>3
<1>11. L - Len(deps') = k + 1 /\ Len(deps') < L
  BY <1>2, <1>3, <1>4, <1>5, <1>9
<1>12. Folding'
  <2>1. MergeOrderNumbers' = MergeOrderNumbers /\ (\A n : MergedAs(n)' = MergedAs(n))
        /\ \A mods, j, f : Gathered(mods, j, f)' <=> Gathered(mods, j, f)
    BY <1>1, SameList
  <2>2. \E f \in [DOMAIN modules' -> MergeOrderNumbers] : Gathered(modules', L - Len(deps'), f)
    BY <1>8, <1>11
  <2>3. Len(cache_list') = L /\ write' = 1 /\ read' = 2 /\ L > 1
    BY <1>0, <1>2, <1>3
  <2> QED
    BY <1>9, <1>10, <1>11, <2>1, <2>2, <2>3 DEF Folding
<1>13. class_bases' \in [Classes -> Seq(Classes)] /\ callees' \in Callees /\ CalleesRecorded'
  <2>1. \E i \in MergeOrderNumbers : Head(deps) = cache_list[i]
    <3>1. k + 1 \in MergeOrderNumbers
      BY <1>2, <1>5
    <3>2. \E i \in MergeOrderNumbers : MergedAs(k + 1) = cache_list[i]
      BY <1>1, <3>1, ListFacts
    <3> QED
      BY <1>7, <3>2
  <2> QED
    BY <1>0, <1>1, <2>1, FoldFacts
<1> QED
  BY <1>0, <1>1, <1>12, <1>13 DEF CacheInv

LEMMA SortStep ==
    ASSUME CacheInv, Sort
    PROVE  CacheInv'
<1>0. /\ merge_phase = "fold" /\ deps = <<>> /\ cache_list' = cache_list
      /\ merge_phase' = IF Len(modules) < 2 THEN "class" ELSE "join"
      /\ modules' = SortedByName(modules)
      /\ class_bases' = class_bases /\ callees' = callees /\ write' = write /\ read' = read
  BY DEF Sort
<1>1. /\ cache_list \in CacheLists /\ Folding
      /\ class_bases \in [Classes -> Seq(Classes)] /\ callees \in Callees /\ CalleesRecorded
  BY <1>0 DEF CacheInv
<1>2. PICK L \in Nat : L = Len(cache_list) /\ L > 1
  BY <1>1, ListFacts DEF Folding
<1>3. PICK origin : Gathered(modules, L, origin)
  <2>1. Len(deps) = 0 /\ L - 0 = L
    BY <1>0, <1>2
  <2>2. \E origin \in [DOMAIN modules -> MergeOrderNumbers] : Gathered(modules, L - 0, origin)
    BY <1>1, <1>2, <2>1 DEF Folding
  <2> QED
    BY <2>1, <2>2
<1>4. PICK N \in Nat : N = Len(modules) /\ modules \in Seq(ModuleRecords)
  BY <1>3 DEF Gathered
<1>5. PICK s \in Seq(ModuleRecords) : s = modules' /\ Len(s) = N /\ DOMAIN s = 1..N
  <2>1. SortedByName(modules) \in Seq(ModuleRecords) /\ Len(SortedByName(modules)) = Len(modules)
    BY <1>1, <1>2, <1>3, SortGathered
  <2> QED
    BY <1>0, <1>4, <2>1
<1>6. PICK o \in [1..N -> MergeOrderNumbers] : BeingJoined(s, {}, 1..N, o) /\ InOrder(s, 1..N, o)
  BY <1>0, <1>1, <1>2, <1>3, <1>4, <1>5, SortGathered
<1>7. \A i \in 1..N : s[i].name \in Nat
  <2>1. \A i \in 1..N : s[i] \in ModuleRecords
    BY <1>5
  <2> QED
    BY <2>1, CacheListsAssumption DEF ModuleRecords, Modules
<1>8. ASSUME N # 0, NEW f, f = [i \in (1..N) \ {1} |-> o[i]]
      PROVE  BeingJoined(s, {1}, (1..N) \ {1}, f)
  <2>1. 1 \in 1..N
    BY <1>8
  <2>2. \A i \in (1..N) \ {1} : s[i].name = s[1].name => o[1] < o[i]
    <3>1. ASSUME NEW i \in (1..N) \ {1}, s[i].name = s[1].name PROVE o[1] < o[i]
      <4>1. 1 < i
        OBVIOUS
      <4>2. ~(s[1].name < s[i].name)
        BY <1>7, <2>1, <3>1
      <4> QED
        BY <1>6, <2>1, <4>1, <4>2 DEF InOrder
    <3> QED
      BY <3>1
  <2>3. BeingJoined(s, {} \cup {1}, (1..N) \ {1}, f)
    <3>1. PICK P : P = 1..N
      OBVIOUS
    <3>2. PICK W : W = {}
      OBVIOUS
    <3>3. PICK p \in P : p = 1
      BY <2>1, <3>1
    <3>4. BeingJoined(s, W, P, o) /\ Takes(s, W, P, o, p, s, p)
      BY <1>5, <1>6, <2>1, <2>2, <3>1, <3>2, <3>3 DEF Takes
    <3>5. BeingJoined(s, W \cup {p}, P \ {p}, f)
      <4>1. f = [i \in P \ {p} |-> o[i]]
        BY <1>8, <3>1, <3>3
      <4> QED
        BY <1>1, <3>4, <4>1, TakeOne, ZenonT(120)
    <3> QED
      BY <3>1, <3>2, <3>3, <3>5
  <2> QED
    BY <2>3
<1>9. CASE N < 2
  <2>1. \E f \in [{} -> MergeOrderNumbers] : BeingJoined(s, DOMAIN s, {}, f)
    <3>1. CASE N = 0
      <4>1. 1..N = {} /\ DOMAIN s = {}
        BY <1>5, <3>1
      <4> QED
        BY <1>6, <4>1
    <3>2. CASE N # 0
      <4>1. 1..N = {1} /\ (1..N) \ {1} = {}
        BY <1>9, <3>2
      <4>2. [i \in (1..N) \ {1} |-> o[i]] \in [{} -> MergeOrderNumbers]
        BY <4>1
      <4> QED
        BY <1>5, <1>8, <3>2, <4>1, <4>2
    <3> QED
      BY <3>1, <3>2
  <2>2. \A i, j \in DOMAIN s : i < j => s[i].name < s[j].name
    <3>1. \A i, j \in 1..N : ~(i < j)
      BY <1>9
    <3> QED
      BY <1>5, <3>1
  <2>3. Joined'
    <3>1. MergeOrderNumbers' = MergeOrderNumbers
          /\ \A mods, W, P, f : BeingJoined(mods, W, P, f)' <=> BeingJoined(mods, W, P, f)
      BY <1>0, SameList
    <3> QED
      BY <1>5, <2>1, <2>2, <3>1 DEF Joined
  <2>4. merge_phase' = "class"
    BY <1>0, <1>4, <1>9
  <2> QED
    BY <1>0, <1>1, <2>3, <2>4 DEF CacheInv, CalleesRecorded
<1>10. CASE ~(N < 2)
  <2>1. write' = 1 /\ read' = 2 /\ Len(modules') = N
    BY <1>0, <1>1, <1>5 DEF Folding
  <2>2. (1..N) \ {1} = 2..N /\ {1} = 1..1 /\ 2 <= N + 1
    BY <1>10
  <2>3. PICK f : f = [i \in 2..N |-> o[i]]
    OBVIOUS
  <2>4. f \in [2..N -> MergeOrderNumbers] /\ \A i \in 2..N : f[i] = o[i]
    BY <2>2, <2>3
  <2>5. BeingJoined(s, 1..1, 2..N, f)
    <3>1. f = [i \in (1..N) \ {1} |-> o[i]] /\ N # 0
      BY <1>10, <2>2, <2>3
    <3>2. BeingJoined(s, {1}, (1..N) \ {1}, f)
      BY <1>8, <3>1
    <3> QED
      BY <2>2, <3>2
  <2>6. InOrder(s, 2..N, f)
    <3>1. \A i \in 2..N : i \in 1..N
      OBVIOUS
    <3> QED
      BY <1>6, <2>4, <3>1 DEF InOrder
  <2>7. \A i \in 2..N : s[1].name <= s[i].name
    <3>1. ASSUME NEW i \in 2..N PROVE s[1].name <= s[i].name
      <4>1. 1 \in 1..N /\ i \in 1..N /\ 1 < i
        OBVIOUS
      <4>2. s[1].name < s[i].name \/ s[1].name = s[i].name
        BY <1>6, <4>1 DEF InOrder
      <4> QED
        BY <1>7, <4>1, <4>2
    <3> QED
      BY <3>1
  <2>8. (1 + 1)..(2 - 1) = {} /\ \A i, j \in 1..1 : ~(i < j)
    OBVIOUS
  <2>9. Joining'
    <3>1. MergeOrderNumbers' = MergeOrderNumbers
          /\ \A mods, W, P, g : BeingJoined(mods, W, P, g)' <=> BeingJoined(mods, W, P, g)
      BY <1>0, SameList
    <3>2. Len(cache_list') > 1
      BY <1>0, <1>2
    <3>3. BeingJoined(s, 1..1, 2..N, f)'
      BY <2>5, <3>1
    <3> QED
      BY <1>5, <2>1, <2>2, <2>4, <2>6, <2>7, <2>8, <3>1, <3>2, <3>3 DEF Joining
  <2>10. merge_phase' = "join"
    BY <1>0, <1>4, <1>10
  <2> QED
    BY <1>0, <1>1, <2>9, <2>10 DEF CacheInv, CalleesRecorded
<1> QED
  BY <1>9, <1>10

LEMMA NextRecordStep ==
    ASSUME CacheInv, NextRecord
    PROVE  CacheInv'
<1>0. /\ merge_phase = "join" /\ read <= Len(modules) /\ merge_phase' = "join" /\ cache_list' = cache_list
      /\ class_bases' = class_bases /\ callees' = callees /\ read' = read + 1
  BY DEF NextRecord
<1>1. /\ cache_list \in CacheLists /\ Joining
      /\ class_bases \in [Classes -> Seq(Classes)] /\ callees \in Callees /\ CalleesRecorded
  BY <1>0 DEF CacheInv
<1>2. /\ Len(cache_list) > 1
      /\ write \in Nat /\ read \in Nat /\ 1 <= write /\ write < read /\ read <= Len(modules) + 1
      /\ \A i \in (write + 1)..(read - 1) : modules[i] = Placeholder(modules[i].name)
      /\ \A i, j \in 1..write : i < j => modules[i].name < modules[j].name
      /\ \A i \in read..Len(modules) : modules[write].name <= modules[i].name
  BY <1>1 DEF Joining
<1>3. PICK origin \in [read..Len(modules) -> MergeOrderNumbers] :
          /\ BeingJoined(modules, 1..write, read..Len(modules), origin)
          /\ InOrder(modules, read..Len(modules), origin)
  BY <1>1 DEF Joining
<1>4. modules \in Seq(ModuleRecords)
  BY <1>3 DEF BeingJoined
<1>5. PICK N \in Nat : N = Len(modules) /\ DOMAIN modules = 1..N /\ read <= N
  BY <1>0, <1>4
<1>6. \A i \in 1..N : modules[i] \in ModuleRecords /\ modules[i].name \in Modules /\ modules[i].name \in Nat
  <2>1. \A i \in 1..N : modules[i] \in ModuleRecords
    BY <1>4, <1>5
  <2> QED
    BY <2>1, CacheListsAssumption DEF ModuleRecords, Modules
<1>7. read \in 1..N /\ write \in 1..N /\ read \in read..N /\ read..N \subseteq 1..N /\ 1..write \subseteq 1..N
  BY <1>2, <1>5
<1>8. (read..N) \ {read} = (read + 1)..N
  BY <1>2, <1>5
<1>9. PICK f : f = [i \in (read..N) \ {read} |-> origin[i]]
  OBVIOUS
<1>10. /\ f \in [(read + 1)..N -> MergeOrderNumbers]
       /\ \A i \in (read + 1)..N : f[i] = origin[i] /\ i \in read..N /\ i # read /\ i \in 1..N
  <2>1. \A i \in (read + 1)..N : i \in read..N /\ i # read /\ i \in 1..N
    BY <1>2, <1>5
  <2> QED
    BY <1>3, <1>5, <1>8, <1>9, <2>1
<1>11. \A i \in (read + 1)..N : /\ modules[read].name <= modules[i].name
                                /\ modules[i].name = modules[read].name => origin[read] < origin[i]
  <2>1. ASSUME NEW i \in (read + 1)..N
        PROVE  /\ modules[read].name <= modules[i].name
               /\ modules[i].name = modules[read].name => origin[read] < origin[i]
    <3>1. read < i /\ read \in read..N /\ i \in read..N
      BY <1>2, <1>7, <1>10
    <3>2. modules[read].name < modules[i].name \/ (modules[read].name = modules[i].name /\ origin[read] < origin[i])
      BY <1>3, <1>5, <3>1 DEF InOrder
    <3> QED
      BY <1>6, <1>7, <1>10, <3>2
  <2> QED
    BY <2>1
<1>12. PICK mods \in Seq(ModuleRecords) : mods = modules' /\ DOMAIN mods = 1..N /\ Len(mods) = N
  <2>1. \A m \in Modules : Placeholder(m) \in ModuleRecords
    <3>1. <<>> \in Seq(Candidates) /\ [failed |-> FALSE, errors |-> {}] \in Safeties
      BY DEF Safeties
    <3> QED
      BY <3>1 DEF Placeholder, ModuleRecords
  <2>2. JoinModules(modules[write], modules[read]) \in ModuleRecords
    BY <1>6, <1>7, JoinType
  <2>3. \A i \in 1..N, j \in 1..N : \A a, b \in ModuleRecords :
           /\ [modules EXCEPT ![i] = a, ![j] = b] \in Seq(ModuleRecords)
           /\ DOMAIN [modules EXCEPT ![i] = a, ![j] = b] = 1..N
    BY <1>4, <1>5
  <2>4. CASE modules[write].name = modules[read].name
    <3>1. modules' = [modules EXCEPT ![write] = JoinModules(modules[write], modules[read]),
                                     ![read] = Placeholder(modules[read].name)]
      BY <2>4 DEF NextRecord
    <3>2. modules' \in Seq(ModuleRecords) /\ DOMAIN modules' = 1..N
      BY <1>6, <1>7, <2>1, <2>2, <2>3, <3>1
    <3> QED
      BY <3>2
  <2>5. CASE modules[write].name # modules[read].name
    <3>1. modules' = [modules EXCEPT ![write + 1] = modules[read], ![read] = modules[write + 1]]
      BY <2>5 DEF NextRecord
    <3>2. write + 1 \in 1..N
      BY <1>2, <1>5
    <3>3. modules' \in Seq(ModuleRecords) /\ DOMAIN modules' = 1..N
      BY <1>6, <1>7, <2>3, <3>1, <3>2
    <3> QED
      BY <3>3
  <2> QED
    BY <2>4, <2>5
<1>13. MergeOrderNumbers' = MergeOrderNumbers
       /\ \A s, W, P, g : BeingJoined(s, W, P, g)' <=> BeingJoined(s, W, P, g)
  BY <1>0, SameList
<1>14. CASE modules[write].name = modules[read].name
  <2>1. write' = write
    BY <1>14 DEF NextRecord
  <2>2. /\ mods[write] = JoinModules(modules[write], modules[read])
        /\ mods[read] = Placeholder(modules[read].name)
        /\ \A i \in 1..N : i # write /\ i # read => mods[i] = modules[i]
    <3>1. mods = [modules EXCEPT ![write] = JoinModules(modules[write], modules[read]),
                                 ![read] = Placeholder(modules[read].name)]
      BY <1>12, <1>14 DEF NextRecord
    <3>2. write # read
      BY <1>2
    <3> QED
      BY <1>4, <1>5, <1>7, <3>1, <3>2
  <2>3. mods[write].name = modules[write].name /\ mods[read].name = modules[read].name
    BY <2>2 DEF JoinModules, Placeholder
  <2>4. BeingJoined(mods, 1..write, (read + 1)..N, f)
    <3>1. PICK P : P = read..N
      OBVIOUS
    <3>2. PICK W : W = 1..write
      OBVIOUS
    <3>3. PICK p : p = read
      OBVIOUS
    <3>4. \A i \in P \ {p} : i \in (read + 1)..N /\ i # write /\ i # read /\ i \in 1..N
      BY <1>2, <1>8, <1>10, <3>1, <3>3
    <3>5. \A i \in W \ {write} : i # write /\ i # read /\ i \in 1..N
      BY <1>2, <1>7, <3>2
    <3>6. /\ p \in P /\ \A i \in P \ {p} : modules[i].name = modules[p].name => origin[p] < origin[i]
          /\ mods \in Seq(ModuleRecords) /\ write \in DOMAIN mods /\ write \notin P \ {p}
      BY <1>7, <1>11, <1>12, <3>1, <3>3, <3>4
    <3>7. \A i \in (W \ {write}) \cup (P \ {p}) : i \in DOMAIN mods /\ mods[i] = modules[i]
      BY <1>12, <2>2, <3>4, <3>5
    <3>8. write \in W /\ modules[write].name = modules[p].name /\ mods[write] = JoinModules(modules[write], modules[p])
      BY <1>2, <1>14, <2>2, <3>2, <3>3
    <3>9. Takes(modules, W, P, origin, p, mods, write)
      BY <3>6, <3>7, <3>8 DEF Takes
    <3>10. f = [i \in P \ {p} |-> origin[i]] /\ BeingJoined(modules, W, P, origin)
      BY <1>3, <1>5, <1>9, <3>1, <3>2, <3>3
    <3>11. BeingJoined(mods, W \cup {write}, P \ {p}, f)
      BY <1>1, <3>9, <3>10, TakeOne, ZenonT(120)
    <3>12. W \cup {write} = 1..write /\ P \ {p} = (read + 1)..N
      BY <1>8, <3>1, <3>2, <3>3, <3>8
    <3> QED
      BY <3>11, <3>12
  <2>5. InOrder(mods, (read + 1)..N, f)
    <3>1. \A i \in (read + 1)..N : mods[i] = modules[i] /\ f[i] = origin[i] /\ i \in read..N
      BY <1>2, <1>10, <2>2
    <3> QED
      BY <1>3, <1>5, <3>1 DEF InOrder
  <2>6. \A i \in (write + 1)..((read + 1) - 1) : mods[i] = Placeholder(mods[i].name)
    <3>1. ASSUME NEW i \in (write + 1)..((read + 1) - 1) PROVE mods[i] = Placeholder(mods[i].name)
      <4>1. i = read \/ (i \in (write + 1)..(read - 1) /\ i # write /\ i # read /\ i \in 1..N)
        BY <1>2, <1>5
      <4> QED
        BY <1>2, <2>2, <2>3, <4>1
    <3> QED
      BY <3>1
  <2>7. \A i, j \in 1..write : i < j => mods[i].name < mods[j].name
    <3>1. \A i \in 1..write : mods[i].name = modules[i].name
      <4>1. \A i \in 1..write : i # read /\ i \in 1..N
        BY <1>2, <1>7
      <4> QED
        BY <2>2, <2>3, <4>1
    <3> QED
      BY <1>2, <3>1
  <2>8. \A i \in (read + 1)..N : mods[write].name <= mods[i].name
    <3>1. \A i \in (read + 1)..N : mods[i] = modules[i] /\ i \in read..N
      BY <1>2, <1>10, <2>2
    <3> QED
      BY <1>2, <1>5, <2>3, <3>1
  <2>9. Joining'
    <3>1. Len(cache_list') > 1
      BY <1>0, <1>2
    <3>3. read' = read + 1 /\ write' \in Nat /\ read' \in Nat /\ 1 <= write' /\ write' < read' /\ read' <= N + 1
      BY <1>0, <1>2, <1>5, <2>1
    <3> QED
      BY <1>10, <1>12, <1>13, <2>1, <2>4, <2>5, <2>6, <2>7, <2>8, <3>1, <3>3 DEF Joining
  <2> QED
    BY <1>0, <1>1, <2>9 DEF CacheInv, CalleesRecorded
<1>15. CASE modules[write].name # modules[read].name
  <2>1. write' = write + 1
    BY <1>15 DEF NextRecord
  <2>2. /\ mods[write + 1] = modules[read]
        /\ write + 1 # read => mods[read] = modules[write + 1]
        /\ \A i \in 1..N : i # write + 1 /\ i # read => mods[i] = modules[i]
    <3>1. mods = [modules EXCEPT ![write + 1] = modules[read], ![read] = modules[write + 1]]
      BY <1>12, <1>15 DEF NextRecord
    <3>2. write + 1 \in 1..N
      BY <1>2, <1>5
    <3> QED
      BY <1>4, <1>5, <1>7, <3>1, <3>2
  <2>3. modules[write].name < modules[read].name
    <3>1. modules[write].name <= modules[read].name
      BY <1>2, <1>5, <1>7
    <3> QED
      BY <1>6, <1>7, <1>15, <3>1
  <2>4. \A i \in 1..write : modules[i].name < modules[read].name /\ i # write + 1 /\ i # read /\ i \in 1..N
    <3>1. ASSUME NEW i \in 1..write
          PROVE  modules[i].name < modules[read].name /\ i # write + 1 /\ i # read /\ i \in 1..N
      <4>1. i # write + 1 /\ i # read /\ i \in 1..N /\ write \in 1..write
        BY <1>2, <1>7
      <4>2. i = write \/ i < write
        BY <1>2
      <4>3. i = write \/ modules[i].name < modules[write].name
        BY <1>2, <4>1, <4>2
      <4> QED
        BY <1>6, <1>7, <2>3, <4>1, <4>3
    <3> QED
      BY <3>1
  <2>5. BeingJoined(mods, 1..(write + 1), (read + 1)..N, f)
    <3>1. PICK P : P = read..N
      OBVIOUS
    <3>2. PICK W : W = 1..write
      OBVIOUS
    <3>3. PICK p : p = read
      OBVIOUS
    <3>0. PICK w : w = write + 1 /\ w \in 1..N
      BY <1>2, <1>5
    <3>4. \A i \in P \ {p} : i \in (read + 1)..N /\ i # w /\ i # read /\ i \in 1..N
      BY <1>2, <1>8, <1>10, <3>0, <3>1, <3>3
    <3>5. \A i \in W : i # w /\ i # read /\ i \in 1..N
      BY <2>4, <3>0, <3>2
    <3>6. /\ p \in P /\ \A i \in P \ {p} : modules[i].name = modules[p].name => origin[p] < origin[i]
          /\ mods \in Seq(ModuleRecords) /\ w \in DOMAIN mods /\ w \notin P \ {p}
      BY <1>7, <1>11, <1>12, <3>0, <3>1, <3>3, <3>4
    <3>7. \A i \in (W \ {w}) \cup (P \ {p}) : i \in DOMAIN mods /\ mods[i] = modules[i]
      BY <1>12, <2>2, <3>0, <3>4, <3>5
    <3>8. w \notin W /\ (\A v \in W : modules[v].name # modules[p].name) /\ mods[w] = modules[p]
      <4>1. \A v \in W : modules[v].name # modules[read].name
        BY <1>6, <1>7, <2>4, <3>2
      <4> QED
        BY <2>2, <3>0, <3>3, <3>5, <4>1
    <3>9. Takes(modules, W, P, origin, p, mods, w)
      BY <3>6, <3>7, <3>8 DEF Takes
    <3>10. f = [i \in P \ {p} |-> origin[i]] /\ BeingJoined(modules, W, P, origin)
      BY <1>3, <1>5, <1>9, <3>1, <3>2, <3>3
    <3>11. BeingJoined(mods, W \cup {w}, P \ {p}, f)
      BY <1>1, <3>9, <3>10, TakeOne, ZenonT(120)
    <3>12. W \cup {w} = 1..(write + 1) /\ P \ {p} = (read + 1)..N
      <4>1. 1..(write + 1) = (1..write) \cup {write + 1}
        BY <1>2
      <4> QED
        BY <1>8, <3>0, <3>1, <3>2, <3>3, <4>1
    <3> QED
      BY <3>11, <3>12
  <2>6. \A i \in (read + 1)..N : mods[i] = modules[i] /\ f[i] = origin[i] /\ i \in read..N
    <3>1. \A i \in (read + 1)..N : i # write + 1
      BY <1>2
    <3> QED
      BY <1>10, <2>2, <3>1
  <2>7. InOrder(mods, (read + 1)..N, f)
    BY <1>3, <1>5, <2>6 DEF InOrder
  <2>8. \A i \in ((write + 1) + 1)..((read + 1) - 1) : mods[i] = Placeholder(mods[i].name)
    <3>1. ASSUME NEW i \in ((write + 1) + 1)..((read + 1) - 1) PROVE mods[i] = Placeholder(mods[i].name)
      <4>1. CASE i = read
        <5>1. write + 1 # read /\ write + 1 \in (write + 1)..(read - 1)
          BY <1>2, <4>1
        <5>2. mods[read] = modules[write + 1] /\ modules[write + 1] = Placeholder(modules[write + 1].name)
          BY <1>2, <2>2, <5>1
        <5> QED
          BY <4>1, <5>2
      <4>2. CASE i # read
        <5>1. i \in (write + 1)..(read - 1) /\ i # write + 1 /\ i \in 1..N
          BY <1>2, <1>5, <4>2
        <5> QED
          BY <1>2, <2>2, <4>2, <5>1
      <4> QED
        BY <4>1, <4>2
    <3> QED
      BY <3>1
  <2>9. \A i, j \in 1..(write + 1) : i < j => mods[i].name < mods[j].name
    <3>1. ASSUME NEW i \in 1..(write + 1), NEW j \in 1..(write + 1), i < j
          PROVE  mods[i].name < mods[j].name
      <4>1. i \in 1..write
        BY <1>2, <3>1
      <4>2. mods[i] = modules[i]
        BY <2>2, <2>4, <4>1
      <4>3. CASE j = write + 1
        BY <2>2, <2>4, <4>1, <4>2, <4>3
      <4>4. CASE j # write + 1
        <5>1. j \in 1..write
          BY <1>2, <4>4
        <5>2. mods[j] = modules[j]
          BY <2>2, <2>4, <5>1
        <5> QED
          BY <1>2, <3>1, <4>1, <4>2, <5>1, <5>2
      <4> QED
        BY <4>3, <4>4
    <3> QED
      BY <3>1
  <2>10. \A i \in (read + 1)..N : mods[write + 1].name <= mods[i].name
    BY <1>11, <2>2, <2>6
  <2>11. Joining'
    <3>1. Len(cache_list') > 1
      BY <1>0, <1>2
    <3>3. read' = read + 1 /\ write' \in Nat /\ read' \in Nat /\ 1 <= write' /\ write' < read' /\ read' <= N + 1
      BY <1>0, <1>2, <1>5, <2>1
    <3> QED
      BY <1>10, <1>12, <1>13, <2>1, <2>5, <2>7, <2>8, <2>9, <2>10, <3>1, <3>3 DEF Joining
  <2> QED
    BY <1>0, <1>1, <2>11 DEF CacheInv, CalleesRecorded
<1> QED
  BY <1>14, <1>15

LEMMA TruncateStep ==
    ASSUME CacheInv, Truncate
    PROVE  CacheInv'
<1>0. /\ merge_phase = "join" /\ read > Len(modules) /\ merge_phase' = "class" /\ cache_list' = cache_list
      /\ class_bases' = class_bases /\ callees' = callees /\ modules' = SubSeq(modules, 1, write)
  BY DEF Truncate
<1>1. /\ cache_list \in CacheLists /\ Joining
      /\ class_bases \in [Classes -> Seq(Classes)] /\ callees \in Callees /\ CalleesRecorded
  BY <1>0 DEF CacheInv
<1>2. PICK origin \in [read..Len(modules) -> MergeOrderNumbers] :
          BeingJoined(modules, 1..write, read..Len(modules), origin)
  BY <1>1 DEF Joining
<1>3. modules \in Seq(ModuleRecords)
  BY <1>2 DEF BeingJoined
<1>4. PICK N \in Nat : N = Len(modules) /\ DOMAIN modules = 1..N
  BY <1>3
<1>5. /\ write \in Nat /\ read \in Nat /\ 1 <= write /\ write <= N /\ read..Len(modules) = {}
      /\ \A i, j \in 1..write : i < j => modules[i].name < modules[j].name
  <2>1. write \in Nat /\ read \in Nat /\ 1 <= write /\ write < read /\ read <= N + 1 /\ read > N
    BY <1>0, <1>1, <1>4 DEF Joining
  <2>2. write <= N /\ read..N = {}
    BY <2>1
  <2> QED
    BY <1>1, <1>4, <2>1, <2>2 DEF Joining
<1>6. PICK mods \in Seq(ModuleRecords) : /\ mods = modules' /\ DOMAIN mods = 1..write
                                        /\ \A i \in 1..write : mods[i] = modules[i]
  <2>1. \A i \in 1..write : modules[i] \in ModuleRecords
    BY <1>3, <1>4, <1>5
  <2>2. /\ SubSeq(modules, 1, write) \in Seq(ModuleRecords) /\ Len(SubSeq(modules, 1, write)) = write
        /\ \A i \in 1..write : SubSeq(modules, 1, write)[i] = modules[i]
    BY <1>5, <2>1, SubSeqProperties
  <2>3. modules' \in Seq(ModuleRecords) /\ Len(modules') = write /\ \A i \in 1..write : modules'[i] = modules[i]
    BY <1>0, <2>2
  <2> QED
    BY <2>3
<1>7. BeingJoined(mods, DOMAIN mods, {}, origin)
  <2>1. PICK W : W = 1..write /\ W = DOMAIN mods
    BY <1>6
  <2>2. BeingJoined(modules, W, {}, origin)
    BY <1>2, <1>5, <2>1
  <2>3. /\ origin \in [{} -> MergeOrderNumbers]
        /\ \A w \in W : JoinedFrom(modules[w], Absorbed(modules, {}, origin, modules[w].name))
        /\ \A w, v \in W : modules[w].name = modules[v].name => w = v
        /\ \A n \in MergeOrderNumbers : \A m \in Modules : KnownAt(n, m) # {} =>
              n \in Absorbed(modules, {}, origin, m) /\ \E w \in W : modules[w].name = m
    BY <2>2 DEF BeingJoined
  <2>4. \A m : Absorbed(mods, {}, origin, m) = Absorbed(modules, {}, origin, m)
    BY DEF Absorbed
  <2>5. \A w \in W : mods[w] = modules[w]
    BY <1>6, <2>1
  <2>6. \A w \in W : JoinedFrom(mods[w], Absorbed(mods, {}, origin, mods[w].name))
    BY <2>3, <2>4, <2>5
  <2>7. \A w, v \in W : mods[w].name = mods[v].name => w = v
    BY <2>3, <2>5
  <2>8. \A n \in MergeOrderNumbers : \A m \in Modules : KnownAt(n, m) # {} =>
              n \in Absorbed(mods, {}, origin, m) /\ \E w \in W : mods[w].name = m
    BY <2>3, <2>4, <2>5
  <2>9. BeingJoined(mods, W, {}, origin)
    BY <2>1, <2>3, <2>6, <2>7, <2>8 DEF BeingJoined
  <2> QED
    BY <2>1, <2>9
<1>8. Joined'
  <2>1. MergeOrderNumbers' = MergeOrderNumbers
        /\ \A s, W, P, g : BeingJoined(s, W, P, g)' <=> BeingJoined(s, W, P, g)
    BY <1>0, SameList
  <2>2. origin \in [{} -> MergeOrderNumbers]
    BY <1>2, <1>5
  <2>3. \A i, j \in DOMAIN mods : i < j => mods[i].name < mods[j].name
    BY <1>5, <1>6
  <2> QED
    BY <1>6, <1>7, <2>1, <2>2, <2>3 DEF Joined
<1> QED
  BY <1>0, <1>1, <1>8 DEF CacheInv, CalleesRecorded

LEMMA FoldOwnStep ==
    ASSUME CacheInv, FoldOwn
    PROVE  CacheInv'
<1>0. /\ merge_phase = "class" /\ merge_phase' = "merged" /\ cache_list' = cache_list /\ modules' = modules
      /\ class_bases' = FoldBases(class_bases, cache_list[1].class_bases)
      /\ callees' = FoldCallees(callees, cache_list[1].callees)
  BY DEF FoldOwn
<1>1. /\ cache_list \in CacheLists /\ Joined
      /\ class_bases \in [Classes -> Seq(Classes)] /\ callees \in Callees /\ CalleesRecorded
  BY <1>0 DEF CacheInv
<1>2. \E i \in MergeOrderNumbers : cache_list[1] = cache_list[i]
  <2>1. 1 \in MergeOrderNumbers
    BY <1>1, ListFacts DEF MergeOrderNumbers
  <2> QED
    BY <2>1
<1>3. class_bases' \in [Classes -> Seq(Classes)] /\ callees' \in Callees /\ CalleesRecorded'
  BY <1>0, <1>1, <1>2, FoldFacts
<1>4. Joined'
  <2>1. MergeOrderNumbers' = MergeOrderNumbers
        /\ \A s, W, P, g : BeingJoined(s, W, P, g)' <=> BeingJoined(s, W, P, g)
    BY <1>0, SameList
  <2> QED
    BY <1>0, <1>1, <2>1 DEF Joined
<1> QED
  BY <1>0, <1>1, <1>3, <1>4 DEF CacheInv

LEMMA QuietStep ==
    ASSUME CacheInv,
           UNCHANGED <<cache_list, merge_phase, deps, modules, callees, write, read, class_bases>>
    PROVE  CacheInv'
<1>1. /\ MergeOrderNumbers' = MergeOrderNumbers
      /\ \A n : MergedAs(n)' = MergedAs(n)
      /\ \A s, k, g : Gathered(s, k, g)' <=> Gathered(s, k, g)
      /\ \A s, W, P, g : BeingJoined(s, W, P, g)' <=> BeingJoined(s, W, P, g)
  BY SameList
<1>2. Folding => Folding'
  BY <1>1 DEF Folding
<1>3. Joining => Joining'
  BY <1>1 DEF Joining
<1>4. Joined => Joined'
  BY <1>1 DEF Joined
<1> QED
  BY <1>2, <1>3, <1>4 DEF CacheInv, CalleesRecorded

LEMMA NextCache ==
    CacheInv /\ [MergeNext]_mergeVars => CacheInv'
<1> SUFFICES ASSUME CacheInv, [MergeNext]_mergeVars PROVE CacheInv'
  OBVIOUS
<1>1. CASE FoldDep
  BY <1>1, FoldDepStep
<1>2. CASE Sort
  BY <1>2, SortStep
<1>3. CASE NextRecord
  BY <1>3, NextRecordStep
<1>4. CASE Truncate
  BY <1>4, TruncateStep
<1>5. CASE FoldOwn
  BY <1>5, FoldOwnStep
<1>6. CASE LinearizeMerged
  <2>1. class_bases' = class_bases
    BY <1>6 DEF LinearizeMerged, Linearize, Enter, VisitBase, TakeResult, TakeHead, Return
  <2> QED
    BY <1>6, <2>1, QuietStep DEF LinearizeMerged
<1>7. CASE MergeDone
  BY <1>7, QuietStep DEF MergeDone, mergeVars
<1>8. CASE UNCHANGED mergeVars
  BY <1>8, QuietStep DEF mergeVars
<1> QED
  BY <1>1, <1>2, <1>3, <1>4, <1>5, <1>6, <1>7, <1>8 DEF MergeNext

-----------------------------------------------------------------------------
(* Caches: what follows.                                                    *)

LEMMA AllKnown ==
    ASSUME cache_list \in CacheLists, NEW m
    PROVE  /\ DOMAIN cache_list = MergeOrderNumbers
           /\ \A r : r \in AllRecords(m) <=> \E n \in MergeOrderNumbers : r \in KnownAt(n, m)
<1>1. /\ cache_list \in Seq(Caches)
      /\ \A n \in MergeOrderNumbers : \E i \in MergeOrderNumbers : MergedAs(n) = cache_list[i]
      /\ \A i \in MergeOrderNumbers : \E n \in MergeOrderNumbers : MergedAs(n) = cache_list[i]
  BY ListFacts
<1>2. DOMAIN cache_list = MergeOrderNumbers
  BY <1>1 DEF MergeOrderNumbers
<1>3. \A r : r \in AllRecords(m) <=> \E i \in MergeOrderNumbers : r \in RecordsOf(cache_list[i].modules, m)
  BY <1>2 DEF AllRecords
<1>4. \A n : KnownAt(n, m) = RecordsOf(MergedAs(n).modules, m)
  BY DEF KnownAt
<1>5. ASSUME NEW r, NEW n \in MergeOrderNumbers, r \in KnownAt(n, m) PROVE r \in AllRecords(m)
  <2>1. PICK i \in MergeOrderNumbers : MergedAs(n) = cache_list[i]
    BY <1>1
  <2> QED
    BY <1>3, <1>4, <1>5, <2>1
<1>6. ASSUME NEW r \in AllRecords(m) PROVE \E n \in MergeOrderNumbers : r \in KnownAt(n, m)
  <2>1. PICK i \in MergeOrderNumbers : r \in RecordsOf(cache_list[i].modules, m)
    BY <1>3
  <2>2. PICK n \in MergeOrderNumbers : MergedAs(n) = cache_list[i]
    BY <1>1
  <2> QED
    BY <1>4, <2>1, <2>2
<1> QED
  BY <1>2, <1>5, <1>6

\* Between the joined records and the pending ones there are only placeholders.
LEMMA Conservative ==
    ASSUME cache_list \in CacheLists, NEW mods, NEW W, NEW P, NEW origin,
           BeingJoined(mods, W, P, origin),
           \A i \in DOMAIN mods : i \in W \/ i \in P \/ mods[i] = Placeholder(mods[i].name),
           NEW m \in Modules
    PROVE  IF Failing(AllRecords(m)) # {} THEN Failing(RecordsOf(mods, m)) # {}
           ELSE /\ Failing(RecordsOf(mods, m)) = {}
                /\ ErrorsOf(RecordsOf(mods, m)) = ErrorsOf(AllRecords(m))
<1> DEFINE all == AllRecords(m)
           now == RecordsOf(mods, m)
           A == Absorbed(mods, P, origin, m)
<1>1. /\ W \subseteq DOMAIN mods /\ P \subseteq DOMAIN mods
      /\ \A i \in P : mods[i] \in KnownAt(origin[i], mods[i].name) /\ origin[i] \in MergeOrderNumbers
      /\ \A w \in W : mods[w].name = m => JoinedFrom(mods[w], A)
      /\ \A n \in MergeOrderNumbers : KnownAt(n, m) # {} =>
          \/ \E i \in P : origin[i] = n /\ mods[i].name = m
          \/ n \in A /\ \E w \in W : mods[w].name = m
  BY DEF BeingJoined
<1>2. \A r : r \in all <=> \E n \in MergeOrderNumbers : r \in KnownAt(n, m)
  BY AllKnown
<1>3. /\ \A q \in now : \E i \in DOMAIN mods : q = mods[i] /\ mods[i].name = m
      /\ \A i \in DOMAIN mods : mods[i].name = m => mods[i] \in now
  BY DEF RecordsOf
<1>4. A \subseteq MergeOrderNumbers /\ MergeOrderNumbers \subseteq Nat
  BY DEF Absorbed, MergeOrderNumbers
<1>5. \A n \in MergeOrderNumbers : \A r, q \in KnownAt(n, m) : r = q
  BY KnownFacts
<1>6. /\ \A R : \A r : r \in Failing(R) <=> r \in R /\ r.safety.failed
      /\ \A R : ErrorsOf(R) = UNION {r.safety.errors : r \in R \ Failing(R)}
  BY DEF Failing, ErrorsOf
<1>7. \A r \in all : \/ r \in now
                     \/ \E n \in A : r \in KnownAt(n, m) /\ \E w \in W : mods[w].name = m
  <2>1. ASSUME NEW r \in all
        PROVE  \/ r \in now
               \/ \E n \in A : r \in KnownAt(n, m) /\ \E w \in W : mods[w].name = m
    <3>1. PICK n \in MergeOrderNumbers : r \in KnownAt(n, m)
      BY <1>2
    <3>2. CASE \E i \in P : origin[i] = n /\ mods[i].name = m
      <4>1. PICK i \in P : origin[i] = n /\ mods[i].name = m
        BY <3>2
      <4>2. mods[i] = r
        BY <1>1, <1>5, <3>1, <4>1
      <4> QED
        BY <1>1, <1>3, <4>1, <4>2
    <3>3. CASE n \in A /\ \E w \in W : mods[w].name = m
      BY <3>1, <3>3
    <3> QED
      BY <1>1, <3>1, <3>2, <3>3
  <2> QED
    BY <2>1
<1> HIDE DEF all, now, A
<1>8. ASSUME Failing(all) # {} PROVE Failing(now) # {}
  <2> DEFINE fails == {n \in MergeOrderNumbers : Failing(KnownAt(n, m)) # {}}
  <2>1. fails \subseteq Nat /\ fails # {}
    <3>1. PICK r \in all : r.safety.failed
      BY <1>6, <1>8
    <3>2. PICK n \in MergeOrderNumbers : r \in KnownAt(n, m)
      BY <1>2
    <3>3. n \in fails
      BY <1>6, <3>1, <3>2
    <3> QED
      BY <1>4, <3>3
  <2>2. PICK n \in fails : \A o \in fails : n <= o
    <3> HIDE DEF fails
    <3> QED
      BY <2>1, SmallestNumber
  <2>3. PICK r \in KnownAt(n, m) : r.safety.failed
    BY <1>6
  <2>4. n \in MergeOrderNumbers /\ n \in Nat
    BY <1>4
  <2>5. \A o \in A : o < n => Failing(KnownAt(o, m)) = {}
    <3>1. ASSUME NEW o \in A, o < n PROVE o \notin fails
      <4>1. o \in Nat /\ ~(n <= o)
        BY <1>4, <2>4, <3>1
      <4> QED
        BY <2>2, <4>1
    <3> QED
      BY <1>4, <3>1
  <2>6. CASE r \in now
    BY <1>6, <2>3, <2>6
  <2>7. CASE r \notin now
    <3>1. PICK o \in A : r \in KnownAt(o, m) /\ \E w \in W : mods[w].name = m
      BY <1>2, <1>7, <2>3, <2>4, <2>7
    <3>2. PICK w \in W : mods[w].name = m
      BY <3>1
    <3>3. Failing(KnownAt(o, m)) # {}
      BY <1>6, <2>3, <3>1
    <3>4. \A p \in A : p < o => Failing(KnownAt(p, m)) = {} \/ n <= p
      <4>1. \A p \in A : Failing(KnownAt(p, m)) # {} => p \in fails
        BY <1>4
      <4> QED
        BY <2>2, <4>1
    <3>5. n \in A
      <4>1. KnownAt(n, m) # {} /\ ~(\E i \in P : origin[i] = n /\ mods[i].name = m)
        <5>1. ASSUME NEW i \in P, origin[i] = n, mods[i].name = m PROVE FALSE
          <6>1. mods[i] = r
            BY <1>1, <1>5, <2>3, <5>1
          <6> QED
            BY <1>1, <1>3, <2>7, <5>1, <6>1
        <5> QED
          BY <2>3, <5>1
      <4> QED
        BY <1>1, <2>4, <4>1
    <3>6. JoinedFrom(mods[w], A)
      BY <1>1, <3>2
    <3>7. mods[w].safety = r.safety
      BY <2>3, <2>5, <3>2, <3>5, <3>6 DEF JoinedFrom, FirstFailureKept
    <3>8. mods[w] \in now
      BY <1>1, <1>3, <3>2
    <3> QED
      BY <1>6, <2>3, <3>7, <3>8
  <2> QED
    BY <2>6, <2>7
<1>9. ASSUME Failing(all) = {} PROVE Failing(now) = {} /\ ErrorsOf(now) = ErrorsOf(all)
  <2>1. \A n \in MergeOrderNumbers : Failing(KnownAt(n, m)) = {}
    BY <1>2, <1>6, <1>9
  <2>2. \A w \in W : mods[w].name = m =>
           ~mods[w].safety.failed /\ mods[w].safety.errors = UNION {ErrorsOf(KnownAt(n, m)) : n \in A}
    BY <1>1, <1>4, <2>1 DEF JoinedFrom
  <2>3. \A i \in P : mods[i].name = m => mods[i] \in all
    BY <1>1, <1>2
  <2>4. \A n \in A : \A r \in KnownAt(n, m) : r \in all
    BY <1>2, <1>4
  <2>5. Placeholder(m).safety.failed = FALSE /\ Placeholder(m).safety.errors = {}
    BY DEF Placeholder
  <2>6. \A q \in now : \/ q \in all \/ (q.safety.failed = FALSE /\ q.safety.errors = {})
                       \/ \E w \in W : mods[w].name = m /\ q = mods[w]
    BY <1>3, <2>3, <2>5
  <2>7. Failing(now) = {}
    <3>1. ASSUME NEW q \in now PROVE ~q.safety.failed
      BY <1>6, <1>9, <2>2, <2>6
    <3> QED
      BY <1>6, <3>1
  <2>8. ErrorsOf(all) = UNION {r.safety.errors : r \in all} /\ ErrorsOf(now) = UNION {r.safety.errors : r \in now}
    <3>1. all \ Failing(all) = all /\ now \ Failing(now) = now
      BY <1>9, <2>7
    <3> QED
      BY <1>6, <3>1
  <2>9. \A n \in A : ErrorsOf(KnownAt(n, m)) = UNION {r.safety.errors : r \in KnownAt(n, m)}
    <3>1. \A n \in A : KnownAt(n, m) \ Failing(KnownAt(n, m)) = KnownAt(n, m)
      BY <1>4, <2>1
    <3> QED
      BY <1>6, <3>1
  <2>10. \A w \in W : mods[w].name = m => mods[w].safety.errors \subseteq UNION {r.safety.errors : r \in all}
    <3>1. ASSUME NEW w \in W, mods[w].name = m, NEW e \in mods[w].safety.errors
          PROVE  e \in UNION {r.safety.errors : r \in all}
      <4>1. PICK n \in A : e \in ErrorsOf(KnownAt(n, m))
        BY <2>2, <3>1
      <4>2. PICK r \in KnownAt(n, m) : e \in r.safety.errors
        BY <2>9, <4>1
      <4> QED
        BY <2>4, <4>2
    <3> QED
      BY <3>1
  <2>11. \A q \in now : q.safety.errors \subseteq UNION {r.safety.errors : r \in all}
    BY <2>6, <2>10
  <2>12. ASSUME NEW r \in all, NEW e \in r.safety.errors PROVE \E q \in now : e \in q.safety.errors
    <3>1. CASE r \in now
      BY <2>12, <3>1
    <3>2. CASE r \notin now
      <4>1. PICK n \in A : r \in KnownAt(n, m) /\ \E w \in W : mods[w].name = m
        BY <1>7, <3>2
      <4>2. PICK w \in W : mods[w].name = m
        BY <4>1
      <4>3. e \in ErrorsOf(KnownAt(n, m))
        BY <2>9, <2>12, <4>1
      <4>4. e \in mods[w].safety.errors
        BY <2>2, <4>2, <4>3
      <4> QED
        BY <1>1, <1>3, <4>2, <4>4
    <3> QED
      BY <3>1, <3>2
  <2> QED
    BY <2>7, <2>8, <2>11, <2>12
<1> QED
  BY <1>8, <1>9 DEF all, now

LEMMA CacheInvHolds ==
    MergeSpec => []CacheInv
<1>1. MergeInit => CacheInv
  BY InitCache
<1>2. CacheInv /\ [MergeNext]_mergeVars => CacheInv'
  BY NextCache
<1> QED
  BY <1>1, <1>2, PTL DEF MergeSpec

LEMMA MergeTypes ==
    CacheInv => MergeTypeOK
<1> SUFFICES ASSUME CacheInv PROVE MergeTypeOK
  OBVIOUS
<1>1. modules \in Seq(ModuleRecords)
  <2>1. CASE merge_phase = "fold"
    BY <2>1 DEF CacheInv, Folding, Gathered
  <2>2. CASE merge_phase = "join"
    BY <2>2 DEF CacheInv, Joining, BeingJoined
  <2>3. CASE merge_phase \in {"class", "merged"}
    BY <2>3 DEF CacheInv, Joined, BeingJoined
  <2> QED
    BY <2>1, <2>2, <2>3 DEF CacheInv
<1>2. merge_phase = "join" =>
          /\ 1 <= write /\ write < read /\ read <= Len(modules) + 1
          /\ \A i \in (write + 1)..(read - 1) : modules[i] = Placeholder(modules[i].name)
  BY DEF CacheInv, Joining
<1> QED
  BY <1>1, <1>2 DEF CacheInv, MergeTypeOK

\* The joined records are those of the modules that some cache knows.
LEMMA MergedRecords ==
    CacheInv => OneRecordEach
<1> SUFFICES ASSUME CacheInv, merge_phase = "merged", Len(cache_list) > 1
             PROVE  /\ \A i, j \in DOMAIN modules : i < j => modules[i].name < modules[j].name
                    /\ {modules[i].name : i \in DOMAIN modules} = {m \in Modules : AllRecords(m) # {}}
  BY DEF OneRecordEach
<1>1. Joined /\ cache_list \in CacheLists
  BY DEF CacheInv
<1>2. \A i, j \in DOMAIN modules : i < j => modules[i].name < modules[j].name
  BY <1>1 DEF Joined
<1>3. PICK origin : BeingJoined(modules, DOMAIN modules, {}, origin)
  BY <1>1 DEF Joined
<1>4. ASSUME NEW i \in DOMAIN modules
      PROVE  modules[i].name \in Modules /\ AllRecords(modules[i].name) # {}
  <2>1. JoinedFrom(modules[i], Absorbed(modules, {}, origin, modules[i].name))
    BY <1>3 DEF BeingJoined
  <2>2. modules[i].name \in Modules
    BY <2>1 DEF JoinedFrom, ModuleRecords
  <2>3. PICK n \in MergeOrderNumbers : KnownAt(n, modules[i].name) # {}
    BY <2>1 DEF JoinedFrom, Absorbed
  <2> QED
    BY <1>1, <2>2, <2>3, AllKnown
<1>5. ASSUME NEW m \in Modules, AllRecords(m) # {}
      PROVE  \E i \in DOMAIN modules : modules[i].name = m
  <2>1. PICK n \in MergeOrderNumbers : KnownAt(n, m) # {}
    BY <1>1, <1>5, AllKnown
  <2> QED
    BY <1>3, <2>1 DEF BeingJoined
<1> QED
  BY <1>2, <1>4, <1>5

\* However many libraries' caches are merged, and whatever they say: records are
\* sorted, moved in place and joined (merge_dep_caches, merge_duplicate_modules),
\* and the truncation of the vector drops nothing.
THEOREM MergeDropsNothing ==
    MergeSpec => []NothingDropped
<1>1. CacheInv => NothingDropped
  <2> SUFFICES ASSUME CacheInv PROVE NothingDropped
    OBVIOUS
  <2>1. MergeTypeOK /\ OneRecordEach
    BY MergeTypes, MergedRecords
  <2>2. ASSUME merge_phase # "fold", NEW m \in Modules
        PROVE  IF Failing(AllRecords(m)) # {} THEN Failing(RecordsOf(modules, m)) # {}
               ELSE /\ Failing(RecordsOf(modules, m)) = {}
                    /\ ErrorsOf(RecordsOf(modules, m)) = ErrorsOf(AllRecords(m))
    <3>1. cache_list \in CacheLists
      BY DEF CacheInv
    <3>2. CASE merge_phase = "join"
      <4>1. Joining
        BY <3>2 DEF CacheInv
      <4>2. PICK origin : BeingJoined(modules, 1..write, read..Len(modules), origin)
        BY <4>1 DEF Joining
      <4>3. ASSUME NEW i \in DOMAIN modules
            PROVE  i \in 1..write \/ i \in read..Len(modules) \/ modules[i] = Placeholder(modules[i].name)
        <5>1. i \in 1..Len(modules) /\ Len(modules) \in Nat
          BY <4>2 DEF BeingJoined
        <5>2. write \in Nat /\ read \in Nat
          BY <4>1 DEF Joining
        <5>3. i \in 1..write \/ i \in read..Len(modules) \/ i \in (write + 1)..(read - 1)
          BY <5>1, <5>2
        <5> QED
          BY <4>1, <5>3 DEF Joining
      <4>4. PICK W : W = 1..write
        OBVIOUS
      <4>5. PICK P : P = read..Len(modules)
        OBVIOUS
      <4>6. BeingJoined(modules, W, P, origin)
        BY <4>2, <4>4, <4>5
      <4>7. \A i \in DOMAIN modules : i \in W \/ i \in P \/ modules[i] = Placeholder(modules[i].name)
        BY <4>3, <4>4, <4>5
      <4> QED
        BY <3>1, <4>6, <4>7, Conservative
    <3>3. CASE merge_phase \in {"class", "merged"}
      <4>1. PICK origin : BeingJoined(modules, DOMAIN modules, {}, origin)
        BY <3>3 DEF CacheInv, Joined
      <4> QED
        BY <3>1, <4>1, Conservative
    <3> QED
      BY <2>2, <3>2, <3>3 DEF CacheInv
  <2> QED
    BY <2>1, <2>2 DEF NothingDropped
<1> QED
  BY <1>1, CacheInvHolds, PTL

\* The base cache first and the others as swap_remove left them: a merged record
\* reports what the first failing one does, and its candidates stand in the order
\* of extend_deduped.
THEOREM MergeKeepsOrder ==
    MergeSpec => []MergeOrderKept
<1>1. CacheInv => MergeOrderKept
  <2> SUFFICES ASSUME CacheInv, merge_phase = "merged", NEW i \in DOMAIN modules
               PROVE  /\ FirstFailureKept(modules[i], DOMAIN cache_list)
                      /\ CandidatesInOrder(modules[i], DOMAIN cache_list)
    BY DEF MergeOrderKept
  <2>1. cache_list \in CacheLists /\ Joined
    BY DEF CacheInv
  <2>2. PICK origin : BeingJoined(modules, DOMAIN modules, {}, origin)
    BY <2>1 DEF Joined
  <2>3. Absorbed(modules, {}, origin, modules[i].name) = MergeOrderNumbers
    BY DEF Absorbed
  <2>4. JoinedFrom(modules[i], MergeOrderNumbers)
    BY <2>2, <2>3 DEF BeingJoined
  <2>5. DOMAIN cache_list = MergeOrderNumbers
    BY <2>1, AllKnown
  <2> QED
    BY <2>4, <2>5 DEF JoinedFrom
<1> QED
  BY <1>1, CacheInvHolds, PTL

\* ConstructorCallees::merged_with, folded over any number of caches, never names a
\* metaclass's callee that no library recorded.
THEOREM NoCalleeMadeUp ==
    MergeSpec => []CalleesRecorded
<1>1. CacheInv => CalleesRecorded
  BY DEF CacheInv
<1> QED
  BY <1>1, CacheInvHolds, PTL

-----------------------------------------------------------------------------
(* Class hierarchies: c3_merge.                                             *)

\* How much of a source is gone.
Gone(S, q, k) == Len(S[k]) - Len(q[k])

\* What is left of each source is its end.
Ends(S, q) ==
    /\ S \in Seq(Seq(Classes)) /\ q \in Seq(Seq(Classes)) /\ Len(q) = Len(S)
    /\ \A k \in DOMAIN S : /\ Len(q[k]) <= Len(S[k])
                           /\ \A i \in DOMAIN q[k] : q[k][i] = S[k][Gone(S, q, k) + i]

\* Some numbers of the classes ascend along every source.
Consistent(S) == \E rank \in [Classes -> Nat] : \A k \in DOMAIN S : Keeps(rank, S[k])

\* The merge holds what is gone from the sources, and if they are consistent nothing
\* else, each class once and in the order of every source.
MergedSoFar(S, q, m) ==
    /\ Ends(S, q) /\ m \in Seq(Classes)
    /\ \A k \in DOMAIN S : \A i \in 1..Gone(S, q, k) : \E a \in DOMAIN m : m[a] = S[k][i]
    /\ \A a \in DOMAIN m : \E k \in DOMAIN S : \E i \in DOMAIN S[k] : m[a] = S[k][i]
    /\ Consistent(S) =>
          /\ \A a, b \in DOMAIN m : m[a] = m[b] => a = b
          /\ \A k \in DOMAIN S : \A i \in DOMAIN q[k] : \A a \in DOMAIN m : m[a] # q[k][i]
          /\ \A k \in DOMAIN S : \A i, j \in 1..Gone(S, q, k) : i < j =>
                \E a, b \in DOMAIN m : a < b /\ m[a] = S[k][i] /\ m[b] = S[k][j]

\* A sequence by its members.
LEMMA HeadTail ==
    ASSUME NEW S, NEW s \in Seq(S), s # <<>>
    PROVE  /\ Len(s) \in Nat /\ Len(s) > 0 /\ 1 \in DOMAIN s /\ Head(s) = s[1] /\ DOMAIN s = 1..Len(s)
           /\ Tail(s) \in Seq(S) /\ Len(Tail(s)) = Len(s) - 1 /\ DOMAIN Tail(s) = 1..(Len(s) - 1)
           /\ \A i \in 1..(Len(s) - 1) : Tail(s)[i] = s[i + 1]
  OBVIOUS

LEMMA EndFacts ==
    ASSUME NEW S, NEW q, Ends(S, q), NEW k \in DOMAIN S
    PROVE  /\ S[k] \in Seq(Classes) /\ q[k] \in Seq(Classes)
           /\ Len(S[k]) \in Nat /\ Len(q[k]) \in Nat /\ Gone(S, q, k) \in Nat
           /\ DOMAIN S[k] = 1..Len(S[k]) /\ DOMAIN q[k] = 1..Len(q[k])
           /\ Gone(S, q, k) + Len(q[k]) = Len(S[k])
           /\ \A i \in DOMAIN q[k] : /\ Gone(S, q, k) + i \in DOMAIN S[k]
                                     /\ q[k][i] = S[k][Gone(S, q, k) + i]
<1>1. /\ S \in Seq(Seq(Classes)) /\ q \in Seq(Seq(Classes)) /\ Len(q) = Len(S)
      /\ Len(q[k]) <= Len(S[k]) /\ \A i \in DOMAIN q[k] : q[k][i] = S[k][Gone(S, q, k) + i]
  BY DEF Ends
<1>2. S[k] \in Seq(Classes) /\ q[k] \in Seq(Classes)
  BY <1>1
<1>3. /\ Len(S[k]) \in Nat /\ Len(q[k]) \in Nat
      /\ DOMAIN S[k] = 1..Len(S[k]) /\ DOMAIN q[k] = 1..Len(q[k])
  BY <1>2
<1>4. Gone(S, q, k) \in Nat /\ Gone(S, q, k) + Len(q[k]) = Len(S[k])
  BY <1>1, <1>3 DEF Gone
<1>5. \A i \in DOMAIN q[k] : Gone(S, q, k) + i \in DOMAIN S[k]
  BY <1>3, <1>4
<1> QED
  BY <1>1, <1>2, <1>3, <1>4, <1>5

\* The next head heads some sequence, and if the sources are consistent no
\* sequence has it further down.
LEMMA NextHeads ==
    ASSUME NEW S, NEW q, Ends(S, q), Left(q) # {}
    PROVE  /\ \E n \in Left(q) : NextHead(q) = Head(q[n])
           /\ Consistent(S) => \A k \in Left(q) : ~Contains(Tail(q[k]), NextHead(q))
<1> DEFINE left == Left(q)
           free == {n \in left : \A k \in left : ~Contains(Tail(q[k]), Head(q[n]))}
           N == IF free = {} THEN left ELSE free
<1>1. left \subseteq DOMAIN S /\ left \subseteq Nat /\ left # {}
  BY DEF Left, Ends
<1>2. Min(N) \in N
  <2>1. N \subseteq Nat /\ N # {}
    BY <1>1
  <2>2. \E n \in N : \A m \in N : n <= m
    <3> HIDE DEF N
    <3> QED
      BY <2>1, SmallestNumber
  <2> QED
    BY <2>2 DEF Min
<1>3. NextHead(q) = Head(q[Min(N)])
  BY DEF NextHead
<1>4. ASSUME Consistent(S) PROVE free # {}
  <2>1. PICK rank \in [Classes -> Nat] : \A k \in DOMAIN S : Keeps(rank, S[k])
    BY <1>4 DEF Consistent
  <2>2. \A k \in left : /\ q[k] \in Seq(Classes) /\ q[k] # <<>> /\ Len(q[k]) \in Nat
                        /\ q[k][1] \in Classes /\ Head(q[k]) = q[k][1]
    <3>1. ASSUME NEW k \in left
          PROVE  /\ q[k] \in Seq(Classes) /\ q[k] # <<>> /\ Len(q[k]) \in Nat
                 /\ q[k][1] \in Classes /\ Head(q[k]) = q[k][1]
      <4>1. q[k] \in Seq(Classes) /\ q[k] # <<>>
        BY <1>1, EndFacts DEF Left
      <4> QED
        BY <4>1
    <3> QED
      BY <3>1
  <2> DEFINE heads == {rank[q[k][1]] : k \in left}
  <2>3. PICK x \in heads : \A y \in heads : x <= y
    <3>1. heads \subseteq Nat /\ heads # {}
      BY <1>1, <2>2
    <3> HIDE DEF heads
    <3> QED
      BY <3>1, SmallestNumber
  <2>4. PICK n \in left : x = rank[q[n][1]]
    OBVIOUS
  <2>5. ASSUME NEW k \in left, Contains(Tail(q[k]), Head(q[n])) PROVE FALSE
    <3>1. PICK i \in 1..Len(Tail(q[k])) : Tail(q[k])[i] = Head(q[n])
      BY <2>5 DEF Contains
    <3>2. i \in 1..(Len(q[k]) - 1) /\ q[k][i + 1] = Head(q[n])
      BY <2>2, <3>1, HeadTail
    <3>3. i \in Nat /\ 1 \in DOMAIN q[k] /\ i + 1 \in DOMAIN q[k] /\ 1 < i + 1
      <4>1. DOMAIN q[k] = 1..Len(q[k]) /\ Len(q[k]) \in Nat
        BY <1>1, EndFacts
      <4> QED
        BY <3>2, <4>1
    <3>4. PICK g \in Nat : g = Gone(S, q, k)
      BY <1>1, EndFacts
    <3>5. /\ g + 1 \in DOMAIN S[k] /\ g + (i + 1) \in DOMAIN S[k]
          /\ q[k][1] = S[k][g + 1] /\ q[k][i + 1] = S[k][g + (i + 1)]
      <4>1. \A j \in DOMAIN q[k] : g + j \in DOMAIN S[k] /\ q[k][j] = S[k][g + j]
        <5>1. k \in DOMAIN S
          BY <1>1
        <5>2. \A j \in DOMAIN q[k] : /\ Gone(S, q, k) + j \in DOMAIN S[k]
                                     /\ q[k][j] = S[k][Gone(S, q, k) + j]
          BY <5>1, EndFacts
        <5> QED
          BY <3>4, <5>2
      <4> QED
        BY <3>3, <4>1
    <3>6. rank[S[k][g + 1]] < rank[S[k][g + (i + 1)]]
      BY <1>1, <2>1, <3>3, <3>5 DEF Keeps
    <3>7. rank[q[k][1]] \in heads /\ rank[q[n][1]] <= rank[q[k][1]]
      BY <2>3, <2>4
    <3>8. rank[q[k][1]] \in Nat /\ rank[q[n][1]] \in Nat /\ q[k][i + 1] = q[n][1]
      BY <2>2, <3>2
    <3> QED
      BY <3>5, <3>6, <3>7, <3>8
  <2> QED
    BY <2>5
<1> QED
  BY <1>2, <1>3, <1>4

\* One turn of the merge.
LEMMA MergeHead ==
    ASSUME NEW S, NEW q, NEW m, MergedSoFar(S, q, m), Left(q) # {},
           NEW head, head = NextHead(q)
    PROVE  MergedSoFar(S, WithoutHead(q, head), IF Contains(m, head) THEN m ELSE Append(m, head))
<1> DEFINE q2 == WithoutHead(q, head)
           m2 == IF Contains(m, head) THEN m ELSE Append(m, head)
           taken(k) == k \in Left(q) /\ Head(q[k]) = head
           g(k) == Gone(S, q, k)
           g2(k) == Gone(S, q2, k)
<1>1. /\ Ends(S, q) /\ m \in Seq(Classes)
      /\ \A k \in DOMAIN S : \A i \in 1..g(k) : \E a \in DOMAIN m : m[a] = S[k][i]
      /\ \A a \in DOMAIN m : \E k \in DOMAIN S : \E i \in DOMAIN S[k] : m[a] = S[k][i]
  BY DEF MergedSoFar
<1>2. /\ S \in Seq(Seq(Classes)) /\ q \in Seq(Seq(Classes)) /\ Len(q) = Len(S) /\ Len(S) \in Nat
      /\ DOMAIN S = 1..Len(S) /\ DOMAIN q = 1..Len(S) /\ Left(q) \subseteq DOMAIN S
  BY <1>1 DEF Ends, Left
<1>3. PICK n \in Left(q) : head = Head(q[n])
  BY <1>1, NextHeads
<1>4. ASSUME NEW k \in DOMAIN S, taken(k)
      PROVE  /\ q[k] # <<>> /\ q[k] \in Seq(Classes) /\ q2[k] = Tail(q[k]) /\ q2[k] \in Seq(Classes)
             /\ Len(q2[k]) = Len(q[k]) - 1 /\ DOMAIN q2[k] = 1..(Len(q[k]) - 1)
             /\ \A i \in DOMAIN q2[k] : i + 1 \in DOMAIN q[k] /\ q2[k][i] = q[k][i + 1]
             /\ g2(k) = g(k) + 1 /\ g(k) + 1 \in DOMAIN S[k] /\ S[k][g(k) + 1] = head
  <2>1. q[k] # <<>> /\ q[k] \in Seq(Classes)
    BY <1>1, <1>4, EndFacts DEF Left
  <2>2. q2[k] = Tail(q[k])
    BY <1>2, <1>4 DEF WithoutHead
  <2>3. /\ Len(q[k]) \in Nat /\ Len(q[k]) > 0 /\ 1 \in DOMAIN q[k] /\ head = q[k][1]
        /\ DOMAIN q[k] = 1..Len(q[k])
        /\ Tail(q[k]) \in Seq(Classes) /\ Len(Tail(q[k])) = Len(q[k]) - 1
        /\ DOMAIN Tail(q[k]) = 1..(Len(q[k]) - 1)
        /\ \A i \in 1..(Len(q[k]) - 1) : Tail(q[k])[i] = q[k][i + 1]
    BY <1>4, <2>1, HeadTail
  <2>4. \A i \in 1..(Len(q[k]) - 1) : i + 1 \in 1..Len(q[k])
    BY <2>3
  <2>5. Len(S[k]) \in Nat /\ g2(k) = Len(S[k]) - Len(Tail(q[k])) /\ g(k) = Len(S[k]) - Len(q[k])
    BY <1>1, <2>2, EndFacts DEF Gone
  <2>6. g2(k) = g(k) + 1
    <3>1. PICK a, b \in Nat : a = Len(S[k]) /\ b = Len(q[k])
      BY <2>3, <2>5
    <3>2. g2(k) = a - (b - 1) /\ g(k) = a - b
      BY <2>3, <2>5, <3>1
    <3> HIDE DEF g, g2
    <3> QED
      BY <3>2
  <2>7. g(k) + 1 \in DOMAIN S[k] /\ S[k][g(k) + 1] = head
    BY <1>1, <2>3, EndFacts
  <2> QED
    BY <2>1, <2>2, <2>3, <2>4, <2>6, <2>7
<1>5. ASSUME NEW k \in DOMAIN S, ~taken(k)
      PROVE  q2[k] = q[k] /\ g2(k) = g(k)
  BY <1>2, <1>5 DEF WithoutHead, Gone
<1>6. Ends(S, q2)
  <2>1. q2 \in Seq(Seq(Classes)) /\ Len(q2) = Len(S)
    <3>1. ASSUME NEW k \in 1..Len(S) PROVE q2[k] \in Seq(Classes)
      <4>1. k \in DOMAIN S
        BY <1>2
      <4>2. q[k] \in Seq(Classes)
        BY <1>1, <4>1, EndFacts
      <4> QED
        BY <1>4, <1>5, <4>1, <4>2
    <3>2. q2 = [k \in 1..Len(S) |-> q2[k]]
      BY <1>2 DEF WithoutHead
    <3> HIDE DEF q2
    <3> QED
      BY <1>2, <3>1, <3>2
  <2>2. ASSUME NEW k \in DOMAIN S
        PROVE  /\ Len(q2[k]) <= Len(S[k])
               /\ \A i \in DOMAIN q2[k] : q2[k][i] = S[k][g2(k) + i]
    <3>1. /\ Len(S[k]) \in Nat /\ Len(q[k]) \in Nat /\ g(k) \in Nat /\ g(k) + Len(q[k]) = Len(S[k])
          /\ DOMAIN q[k] = 1..Len(q[k]) /\ \A i \in DOMAIN q[k] : q[k][i] = S[k][g(k) + i]
      BY <1>1, EndFacts
    <3>2. CASE taken(k)
      <4>1. ASSUME NEW i \in DOMAIN q2[k] PROVE q2[k][i] = S[k][g2(k) + i]
        <5>1. i + 1 \in DOMAIN q[k] /\ q2[k][i] = q[k][i + 1] /\ g2(k) = g(k) + 1
          BY <1>4, <3>2
        <5>2. q[k][i + 1] = S[k][g(k) + (i + 1)]
          BY <3>1, <5>1
        <5>3. i \in Nat
          BY <1>4, <3>1, <3>2, SMTT(30)
        <5>4. g(k) + (i + 1) = g2(k) + i
          BY <3>1, <5>1, <5>3
        <5> QED
          BY <5>1, <5>2, <5>4
      <4>2. Len(q2[k]) <= Len(S[k])
        <5>1. Len(q2[k]) = Len(q[k]) - 1
          BY <1>4, <3>2
        <5> HIDE DEF g, q2
        <5> QED
          BY <3>1, <5>1
      <4> QED
        BY <4>1, <4>2
    <3>3. CASE ~taken(k)
      <4>1. q2[k] = q[k] /\ g2(k) = g(k)
        BY <1>5, <3>3
      <4>2. Len(q[k]) <= Len(S[k])
        BY <3>1
      <4> QED
        BY <3>1, <4>1, <4>2
    <3> QED
      BY <3>2, <3>3
  <2> QED
    BY <1>2, <2>1, <2>2 DEF Ends
<1>7. head \in Classes
  <2>1. q[n] # <<>> /\ q[n] \in Seq(Classes)
    BY <1>1, <1>2, EndFacts DEF Left
  <2> QED
    BY <1>3, <2>1, HeadTail
<1>8. /\ m2 \in Seq(Classes) /\ DOMAIN m \subseteq DOMAIN m2 /\ \A a \in DOMAIN m : m2[a] = m[a]
      /\ \E a \in DOMAIN m2 : m2[a] = head
      /\ \A a \in DOMAIN m2 : a \in DOMAIN m \/ m2[a] = head
  <2>1. CASE Contains(m, head)
    <3>1. DOMAIN m = 1..Len(m)
      BY <1>1
    <3>2. m2 = m /\ \E a \in DOMAIN m : m[a] = head
      BY <2>1, <3>1 DEF Contains
    <3> QED
      BY <1>1, <3>2
  <2>2. CASE ~Contains(m, head)
    <3>1. m2 = Append(m, head)
      BY <2>2
    <3>2. /\ Append(m, head) \in Seq(Classes) /\ Len(m) \in Nat
          /\ DOMAIN Append(m, head) = 1..(Len(m) + 1) /\ DOMAIN m = 1..Len(m)
          /\ Append(m, head)[Len(m) + 1] = head
          /\ \A a \in 1..Len(m) : Append(m, head)[a] = m[a]
      BY <1>1, <1>7
    <3>3. \A a \in 1..(Len(m) + 1) : a \in 1..Len(m) \/ a = Len(m) + 1
      BY <3>2
    <3> HIDE DEF m2
    <3> QED
      BY <3>1, <3>2, <3>3
  <2> QED
    BY <2>1, <2>2
<1>9. \A k \in DOMAIN S : \A i \in 1..g2(k) : i \in 1..g(k) \/ (taken(k) /\ i = g(k) + 1 /\ S[k][i] = head)
  <2>1. ASSUME NEW k \in DOMAIN S, NEW i \in 1..g2(k)
        PROVE  i \in 1..g(k) \/ (taken(k) /\ i = g(k) + 1 /\ S[k][i] = head)
    <3>1. g(k) \in Nat
      BY <1>1, EndFacts
    <3>2. CASE taken(k)
      <4>1. g2(k) = g(k) + 1 /\ S[k][g(k) + 1] = head
        BY <1>4, <3>2
      <4>2. i \in 1..g(k) \/ i = g(k) + 1
        <5> HIDE DEF g, g2
        <5> QED
          BY <3>1, <4>1
      <4> QED
        BY <3>2, <4>1, <4>2
    <3>3. CASE ~taken(k)
      BY <1>5, <3>3
    <3> QED
      BY <3>2, <3>3
  <2> QED
    BY <2>1
<1>10. \A k \in DOMAIN S : \A i \in 1..g2(k) : \E a \in DOMAIN m2 : m2[a] = S[k][i]
  <2> HIDE DEF m2, g2, g, taken
  <2> QED
    BY <1>1, <1>8, <1>9 DEF g
<1>11. \A a \in DOMAIN m2 : \E k \in DOMAIN S : \E i \in DOMAIN S[k] : m2[a] = S[k][i]
  <2>1. taken(n)
    BY <1>3
  <2>2. n \in DOMAIN S /\ g(n) + 1 \in DOMAIN S[n] /\ S[n][g(n) + 1] = head
    BY <1>2, <1>4, <2>1
  <2> HIDE DEF m2, g
  <2> QED
    BY <1>1, <1>8, <2>2
<1>12. ASSUME Consistent(S)
       PROVE  /\ \A a, b \in DOMAIN m2 : m2[a] = m2[b] => a = b
              /\ \A k \in DOMAIN S : \A i \in DOMAIN q2[k] : \A a \in DOMAIN m2 : m2[a] # q2[k][i]
              /\ \A k \in DOMAIN S : \A i, j \in 1..g2(k) : i < j =>
                    \E a, b \in DOMAIN m2 : a < b /\ m2[a] = S[k][i] /\ m2[b] = S[k][j]
  <2>1. /\ \A a, b \in DOMAIN m : m[a] = m[b] => a = b
        /\ \A k \in DOMAIN S : \A i \in DOMAIN q[k] : \A a \in DOMAIN m : m[a] # q[k][i]
        /\ \A k \in DOMAIN S : \A i, j \in 1..g(k) : i < j =>
              \E a, b \in DOMAIN m : a < b /\ m[a] = S[k][i] /\ m[b] = S[k][j]
    BY <1>12 DEF MergedSoFar
  <2>2. \A k \in Left(q) : ~Contains(Tail(q[k]), head)
    BY <1>1, <1>12, NextHeads
  <2>3. \A a \in DOMAIN m : m[a] # head
    <3>1. q[n] # <<>> /\ q[n] \in Seq(Classes)
      BY <1>1, <1>2, EndFacts DEF Left
    <3>2. 1 \in DOMAIN q[n] /\ head = q[n][1]
      BY <1>3, <3>1, HeadTail
    <3> QED
      BY <1>2, <2>1, <3>2
  <2>4. /\ m2 = Append(m, head) /\ Len(m) \in Nat /\ DOMAIN m = 1..Len(m)
        /\ DOMAIN m2 = 1..(Len(m) + 1) /\ m2[Len(m) + 1] = head
        /\ \A a \in 1..Len(m) : m2[a] = m[a]
    <3>1. DOMAIN m = 1..Len(m) /\ Len(m) \in Nat
      BY <1>1
    <3>2. ~Contains(m, head)
      BY <2>3, <3>1 DEF Contains
    <3>3. m2 = Append(m, head)
      BY <3>2
    <3>4. /\ DOMAIN Append(m, head) = 1..(Len(m) + 1) /\ Append(m, head)[Len(m) + 1] = head
          /\ \A a \in 1..Len(m) : Append(m, head)[a] = m[a]
      BY <1>1, <1>7, <3>1
    <3> HIDE DEF m2
    <3> QED
      BY <3>1, <3>3, <3>4
  <2>5. \A a \in DOMAIN m2 : a \in DOMAIN m \/ a = Len(m) + 1
    <3> HIDE DEF m2
    <3> QED
      BY <2>4
  <2>6. \A a, b \in DOMAIN m2 : m2[a] = m2[b] => a = b
    <3> HIDE DEF m2
    <3> QED
      BY <2>1, <2>3, <2>4, <2>5
  <2>7. ASSUME NEW k \in DOMAIN S, NEW i \in DOMAIN q2[k]
        PROVE  q2[k][i] # head /\ \E j \in DOMAIN q[k] : q2[k][i] = q[k][j]
    <3>1. CASE taken(k)
      <4>1. /\ q2[k] = Tail(q[k]) /\ DOMAIN Tail(q[k]) = 1..Len(Tail(q[k]))
            /\ i + 1 \in DOMAIN q[k] /\ q2[k][i] = q[k][i + 1]
        BY <1>4, <3>1
      <4>2. Tail(q[k])[i] # head
        BY <2>2, <2>7, <3>1, <4>1 DEF Contains
      <4> QED
        BY <4>1, <4>2
    <3>2. CASE ~taken(k)
      <4>1. q2[k] = q[k] /\ q[k] \in Seq(Classes) /\ i \in DOMAIN q[k]
        BY <1>1, <1>5, <2>7, <3>2, EndFacts
      <4>2. q[k] # <<>>
        BY <4>1
      <4>3. k \in Left(q) /\ Head(q[k]) # head
        BY <1>2, <3>2, <4>2 DEF Left
      <4>4. ~Contains(Tail(q[k]), head)
        BY <2>2, <4>3
      <4>5. /\ Len(q[k]) \in Nat /\ Head(q[k]) = q[k][1] /\ DOMAIN q[k] = 1..Len(q[k])
            /\ Len(Tail(q[k])) = Len(q[k]) - 1
            /\ \A j \in 1..(Len(q[k]) - 1) : Tail(q[k])[j] = q[k][j + 1]
        BY <4>1, <4>2, HeadTail
      <4>6. i = 1 \/ (i - 1 \in 1..(Len(q[k]) - 1) /\ (i - 1) + 1 = i)
        BY <4>1, <4>5
      <4>7. i # 1 => q[k][i] # head
        BY <4>4, <4>5, <4>6 DEF Contains
      <4> QED
        BY <4>1, <4>3, <4>5, <4>7
    <3> QED
      BY <3>1, <3>2
  <2>8. \A k \in DOMAIN S : \A i \in DOMAIN q2[k] : \A a \in DOMAIN m2 : m2[a] # q2[k][i]
    <3> HIDE DEF m2, q2
    <3> QED
      BY <2>1, <2>4, <2>5, <2>7
  <2>9. ASSUME NEW k \in DOMAIN S, NEW i \in 1..g2(k), NEW j \in 1..g2(k), i < j
        PROVE  \E a, b \in DOMAIN m2 : a < b /\ m2[a] = S[k][i] /\ m2[b] = S[k][j]
    <3>1. g(k) \in Nat
      BY <1>1, EndFacts
    <3>2. i \in 1..g(k) /\ (j \in 1..g(k) \/ (j = g(k) + 1 /\ S[k][j] = head))
      <4>1. /\ i \in 1..g(k) \/ i = g(k) + 1
            /\ j \in 1..g(k) \/ (j = g(k) + 1 /\ S[k][j] = head)
        BY <1>9, <2>9
      <4>2. i # g(k) + 1
        <5> HIDE DEF g
        <5> QED
          BY <2>9, <3>1, <4>1
      <4> QED
        BY <4>1, <4>2
    <3>3. CASE j \in 1..g(k)
      <4>1. PICK a, b \in DOMAIN m : a < b /\ m[a] = S[k][i] /\ m[b] = S[k][j]
        BY <2>1, <2>9, <3>2, <3>3
      <4> HIDE DEF m2
      <4> QED
        BY <1>8, <4>1
    <3>4. CASE j = g(k) + 1 /\ S[k][j] = head
      <4>1. PICK a \in DOMAIN m : m[a] = S[k][i]
        BY <1>1, <3>2
      <4>2. a \in DOMAIN m2 /\ m2[a] = S[k][i]
        BY <1>8, <4>1
      <4>3. Len(m) + 1 \in DOMAIN m2 /\ a < Len(m) + 1
        <5> HIDE DEF m2
        <5> QED
          BY <2>4, <4>1
      <4> HIDE DEF m2
      <4> QED
        BY <2>4, <3>4, <4>2, <4>3
    <3> QED
      BY <3>2, <3>3, <3>4
  <2> QED
    BY <2>6, <2>8, <2>9
<1> QED
  BY <1>6, <1>8, <1>10, <1>11, <1>12 DEF MergedSoFar

\* Nothing is gone at first.
LEMMA MergeStart ==
    ASSUME NEW S \in Seq(Seq(Classes))
    PROVE  MergedSoFar(S, S, <<>>)
<1>1. \A k \in DOMAIN S : S[k] \in Seq(Classes) /\ Len(S[k]) \in Nat /\ Gone(S, S, k) = 0
  BY DEF Gone
<1>2. Ends(S, S)
  BY <1>1 DEF Ends
<1>3. DOMAIN <<>> = {} /\ <<>> \in Seq(Classes)
  OBVIOUS
<1>4. \A k \in DOMAIN S : 1..Gone(S, S, k) = {}
  BY <1>1
<1> QED
  BY <1>2, <1>3, <1>4 DEF MergedSoFar

\* At the end the merge keeps the order of every source if some order does.
LEMMA MergeEnd ==
    ASSUME NEW S, NEW q, NEW m, MergedSoFar(S, q, m), Left(q) = {},
           NEW c \in Classes, \A k \in DOMAIN S : \A i \in DOMAIN S[k] : S[k][i] # c,
           NEW order, order = <<c>> \o m,
           NEW rank \in Ranks(ToSet(order)), \A k \in DOMAIN S : Keeps(rank, S[k])
    PROVE  \A k \in DOMAIN S : Keeps(Places(order), S[k])
<1>1. /\ Ends(S, q) /\ m \in Seq(Classes) /\ DOMAIN q = DOMAIN S
      /\ \A k \in DOMAIN S : \A i \in 1..Gone(S, q, k) : \E a \in DOMAIN m : m[a] = S[k][i]
  BY DEF MergedSoFar, Ends
<1>2. \A k \in DOMAIN S : /\ S[k] \in Seq(Classes) /\ DOMAIN S[k] = 1..Gone(S, q, k)
  <2>1. ASSUME NEW k \in DOMAIN S
        PROVE  S[k] \in Seq(Classes) /\ DOMAIN S[k] = 1..Gone(S, q, k)
    <3>1. q[k] = <<>>
      BY <1>1 DEF Left
    <3>2. /\ S[k] \in Seq(Classes) /\ DOMAIN S[k] = 1..Len(S[k])
          /\ Gone(S, q, k) \in Nat /\ Gone(S, q, k) + Len(q[k]) = Len(S[k])
      BY <1>1, EndFacts
    <3>3. Gone(S, q, k) = Len(S[k])
      BY <3>1, <3>2
    <3> QED
      BY <3>2, <3>3
  <2> QED
    BY <2>1
<1>3. /\ order \in Seq(Classes) /\ Len(m) \in Nat /\ DOMAIN m = 1..Len(m)
      /\ DOMAIN order = 1..(Len(m) + 1) /\ order[1] = c
      /\ \A a \in 1..Len(m) : order[a + 1] = m[a]
  <2>1. <<c>> \in Seq(Classes) /\ Len(<<c>>) = 1 /\ <<c>>[1] = c /\ Len(m) \in Nat /\ DOMAIN m = 1..Len(m)
    BY <1>1
  <2>2. order \in Seq(Classes) /\ Len(order) = 1 + Len(m)
    BY <1>1, <2>1
  <2>3. \A a \in 1..(1 + Len(m)) : order[a] = IF a <= 1 THEN <<c>>[a] ELSE m[a - 1]
    BY <1>1, <2>1
  <2>4. DOMAIN order = 1..(Len(m) + 1)
    BY <2>1, <2>2
  <2>5. order[1] = c
    BY <2>1, <2>3
  <2>6. ASSUME NEW a \in 1..Len(m) PROVE order[a + 1] = m[a]
    <3>1. a + 1 \in 1..(1 + Len(m)) /\ ~(a + 1 <= 1) /\ (a + 1) - 1 = a
      BY <2>1
    <3> QED
      BY <2>3, <3>1
  <2> QED
    BY <2>1, <2>2, <2>4, <2>5, <2>6
<1>4. \A k \in DOMAIN S : \A i \in DOMAIN S[k] : S[k][i] \in ToSet(order)
  <2>1. ASSUME NEW k \in DOMAIN S, NEW i \in DOMAIN S[k] PROVE S[k][i] \in ToSet(order)
    <3>1. PICK a \in DOMAIN m : m[a] = S[k][i]
      BY <1>1, <1>2
    <3>2. a + 1 \in DOMAIN order /\ order[a + 1] = S[k][i]
      BY <1>3, <3>1
    <3> QED
      BY <3>2 DEF ToSet
  <2> QED
    BY <2>1
<1>5. Consistent(S)
  <2> DEFINE rank2 == [x \in Classes |-> IF x \in ToSet(order) THEN rank[x] ELSE 0]
  <2>1. rank \in [ToSet(order) -> Nat]
    <3>1. ToSet(order) \subseteq Classes
      BY <1>3 DEF ToSet
    <3>2. IsFiniteSet(ToSet(order))
      BY <3>1, ClassesAssumption, FS_Subset
    <3>3. PICK N \in Nat : N = Cardinality(ToSet(order))
      BY <3>2, FS_CardinalityType
    <3>4. rank \in [ToSet(order) -> 1..N]
      BY <3>3 DEF Ranks
    <3>5. 1..N \subseteq Nat
      OBVIOUS
    <3> QED
      BY <3>4, <3>5
  <2>2. rank2 \in [Classes -> Nat]
    BY <2>1
  <2>3. ASSUME NEW k \in DOMAIN S PROVE Keeps(rank2, S[k])
    <3>1. \A i \in DOMAIN S[k] : rank2[S[k][i]] = rank[S[k][i]]
      BY <1>2, <1>4
    <3> HIDE DEF rank2
    <3> QED
      BY <3>1 DEF Keeps
  <2> HIDE DEF rank2
  <2> QED
    BY <2>2, <2>3 DEF Consistent
<1>6. /\ \A a, b \in DOMAIN m : m[a] = m[b] => a = b
      /\ \A k \in DOMAIN S : \A i, j \in 1..Gone(S, q, k) : i < j =>
            \E a, b \in DOMAIN m : a < b /\ m[a] = S[k][i] /\ m[b] = S[k][j]
  BY <1>5 DEF MergedSoFar
<1>7. ASSUME NEW a \in DOMAIN m, m[a] # c
      PROVE  m[a] \in ToSet(order) /\ Places(order)[m[a]] = a + 1
  <2>1. a + 1 \in DOMAIN order /\ order[a + 1] = m[a]
    BY <1>3
  <2>2. ASSUME NEW n \in DOMAIN order, order[n] = m[a] PROVE n = a + 1
    <3>1. n # 1
      BY <1>3, <1>7, <2>2
    <3>2. n - 1 \in 1..Len(m) /\ (n - 1) + 1 = n
      BY <1>3, <3>1
    <3>3. m[n - 1] = m[a]
      BY <1>3, <2>2, <3>2
    <3>4. n - 1 = a
      BY <1>3, <1>6, <3>2, <3>3
    <3> QED
      BY <3>2, <3>4
  <2>3. m[a] \in ToSet(order)
    BY <2>1 DEF ToSet
  <2>4. Places(order)[m[a]] = CHOOSE n \in DOMAIN order : order[n] = m[a]
    BY <2>3 DEF Places
  <2> QED
    BY <2>1, <2>2, <2>3, <2>4
<1>8. ASSUME NEW k \in DOMAIN S, NEW i \in DOMAIN S[k], NEW j \in DOMAIN S[k], i < j
      PROVE  Places(order)[S[k][i]] < Places(order)[S[k][j]]
  <2>1. PICK a, b \in DOMAIN m : a < b /\ m[a] = S[k][i] /\ m[b] = S[k][j]
    <3>1. i \in 1..Gone(S, q, k) /\ j \in 1..Gone(S, q, k)
      BY <1>2
    <3> QED
      BY <1>6, <1>8, <3>1
  <2>2. Places(order)[m[a]] = a + 1 /\ Places(order)[m[b]] = b + 1
    BY <1>7, <1>8, <2>1
  <2>3. a + 1 < b + 1
    BY <1>3, <2>1
  <2> QED
    BY <2>1, <2>2, <2>3
<1> QED
  BY <1>8 DEF Keeps

-----------------------------------------------------------------------------
(* Class hierarchies: the recursion.                                        *)

Activations == [class : Classes, visited : Nat, sequences : Seq(Seq(Classes)), merged : Seq(Classes)]

\* An activation has bases left unless it is the top one and nothing is under way.
MroShape ==
    /\ class_bases \in [Classes -> Seq(Classes)]
    /\ DOMAIN memo \subseteq Classes /\ \A c \in DOMAIN memo : memo[c] \in Seq(Classes)
    /\ on_path \in Seq(Activations)
    /\ calling \in Classes \cup {NoClass} /\ result \in Seq(Classes)
    /\ calling # NoClass => result = <<>>
    /\ \A n, k \in DOMAIN on_path : on_path[n].class = on_path[k].class => n = k
    /\ \A n \in DOMAIN on_path :
          /\ on_path[n].visited <= Len(class_bases[on_path[n].class])
          /\ on_path[n].visited = Len(class_bases[on_path[n].class])
                => n = Len(on_path) /\ calling = NoClass /\ result = <<>>

\* The linearization of a class is the one that it keeps.
Settled(c) == c \in DOMAIN memo \/ class_bases[c] = <<>>

\* What is merged for a class: its bases' linearizations, and its bases.
Sources(c) ==
    [k \in 1..(Len(class_bases[c]) + 1) |->
        IF k <= Len(class_bases[c]) THEN OrderOf(class_bases[c][k]) ELSE class_bases[c]]

\* Heights that show that no class inherits from itself.
Ascends(h) ==
    h \in [Classes -> Nat] /\ \A c \in Classes : \A b \in ToSet(class_bases[c]) : h[c] < h[b]

Memoized(h, c) ==
    /\ class_bases[c] # <<>>
    /\ \A b \in ToSet(class_bases[c]) : Settled(b)
    /\ \A n \in DOMAIN memo[c] : h[c] <= h[memo[c][n]]
    /\ (\E rank \in Ranks(ToSet(memo[c])) : \A s \in ToKeep(c) : Keeps(rank, s))
          => \A s \in ToKeep(c) : Keeps(Places(memo[c]), s)

Activated(h, a) ==
    LET bases == class_bases[a.class]
    IN  /\ a.class \notin DOMAIN memo /\ bases # <<>>
        /\ \A k \in 1..a.visited : Settled(bases[k])
        /\ IF a.visited < Len(bases)
           THEN a.merged = <<>> /\ a.sequences = [k \in 1..a.visited |-> OrderOf(bases[k])]
           ELSE MergedSoFar(Sources(a.class), a.sequences, a.merged)

NextBase(a) == class_bases[a.class][a.visited + 1]

\* A memoized linearization keeps what it can, an activation collects or merges what
\* it has to keep, and what is called or returned is the next base.
MroInv(h) ==
    /\ \A c \in DOMAIN memo : Memoized(h, c)
    /\ \A a \in ToSet(on_path) : Activated(h, a)
    /\ \A n, k \in DOMAIN on_path : n < k => h[on_path[n].class] < h[on_path[k].class]
    /\ \A n \in DOMAIN on_path : n # Len(on_path) => on_path[n + 1].class = NextBase(on_path[n])
    /\ on_path # <<>> /\ calling # NoClass => calling = NextBase(Top)
    /\ on_path # <<>> /\ result # <<>> =>
          \E b \in Classes : b = NextBase(Top) /\ Settled(b) /\ result = OrderOf(b)

LEMMA TopFacts ==
    ASSUME MroShape, on_path # <<>>
    PROVE  /\ Len(on_path) \in Nat /\ Len(on_path) > 0 /\ DOMAIN on_path = 1..Len(on_path)
           /\ Len(on_path) \in DOMAIN on_path /\ Top = on_path[Len(on_path)]
           /\ Top \in Activations /\ Top.class \in Classes /\ Top.visited \in Nat
           /\ Top.sequences \in Seq(Seq(Classes)) /\ Top.merged \in Seq(Classes)
           /\ class_bases[Top.class] \in Seq(Classes) /\ Len(class_bases[Top.class]) \in Nat
           /\ Top.visited <= Len(class_bases[Top.class])
<1>1. on_path \in Seq(Activations) /\ class_bases \in [Classes -> Seq(Classes)]
  BY DEF MroShape
<1>2. /\ Len(on_path) \in Nat /\ Len(on_path) > 0 /\ DOMAIN on_path = 1..Len(on_path)
      /\ Len(on_path) \in DOMAIN on_path /\ on_path[Len(on_path)] \in Activations
  BY <1>1
<1>3. Top = on_path[Len(on_path)]
  BY DEF Top
<1>4. /\ Top \in Activations /\ Top.class \in Classes /\ Top.visited \in Nat
      /\ Top.sequences \in Seq(Seq(Classes)) /\ Top.merged \in Seq(Classes)
  BY <1>2, <1>3 DEF Activations
<1>5. class_bases[Top.class] \in Seq(Classes) /\ Len(class_bases[Top.class]) \in Nat
  BY <1>1, <1>4
<1>6. Top.visited <= Len(class_bases[Top.class])
  BY <1>2, <1>3 DEF MroShape
<1> QED
  BY <1>2, <1>3, <1>4, <1>5, <1>6

\* The path with another top, one more activation and one less.
LEMMA PathWithTop ==
    ASSUME on_path \in Seq(Activations), on_path # <<>>, NEW a \in Activations
    PROVE  /\ WithTop(a) \in Seq(Activations) /\ Len(WithTop(a)) = Len(on_path)
           /\ DOMAIN WithTop(a) = DOMAIN on_path /\ WithTop(a)[Len(on_path)] = a
           /\ \A n \in DOMAIN on_path : n # Len(on_path) => WithTop(a)[n] = on_path[n]
  BY DEF WithTop

LEMMA PathPushed ==
    ASSUME on_path \in Seq(Activations), NEW a \in Activations
    PROVE  /\ Append(on_path, a) \in Seq(Activations) /\ Len(Append(on_path, a)) = Len(on_path) + 1
           /\ Append(on_path, a)[Len(on_path) + 1] = a
           /\ DOMAIN Append(on_path, a) = DOMAIN on_path \cup {Len(on_path) + 1}
           /\ \A n \in DOMAIN on_path : n # Len(on_path) + 1 /\ Append(on_path, a)[n] = on_path[n]
<1>1. Len(on_path) \in Nat /\ DOMAIN on_path = 1..Len(on_path)
  OBVIOUS
<1>2. 1..(Len(on_path) + 1) = 1..Len(on_path) \cup {Len(on_path) + 1}
  BY <1>1
<1> QED
  BY <1>1, <1>2

LEMMA PathPopped ==
    ASSUME on_path \in Seq(Activations), on_path # <<>>
    PROVE  /\ Front(on_path) \in Seq(Activations) /\ Len(Front(on_path)) = Len(on_path) - 1
           /\ DOMAIN Front(on_path) = DOMAIN on_path \ {Len(on_path)}
           /\ \A n \in DOMAIN Front(on_path) : Front(on_path)[n] = on_path[n] /\ n < Len(on_path)
<1>1. /\ Len(on_path) \in Nat /\ Len(on_path) > 0 /\ DOMAIN on_path = 1..Len(on_path)
      /\ Front(on_path) = SubSeq(on_path, 1, Len(on_path) - 1)
  BY DEF Front
<1>2. 1..(Len(on_path) - 1) = 1..Len(on_path) \ {Len(on_path)}
  BY <1>1
<1> QED
  BY <1>1, <1>2

\* The recursion keeps the shape of the path.
LEMMA EnterShape ==
    ASSUME MroShape, Enter
    PROVE  MroShape'
<1>0. /\ class_bases' = class_bases /\ memo' = memo /\ calling' = NoClass
      /\ calling # NoClass /\ calling \in Classes /\ result = <<>>
      /\ class_bases \in [Classes -> Seq(Classes)] /\ on_path \in Seq(Activations)
      /\ DOMAIN memo \subseteq Classes /\ \A c \in DOMAIN memo : memo[c] \in Seq(Classes)
  BY DEF MroShape, Enter
<1>1. \A n \in DOMAIN on_path : /\ on_path[n].visited <= Len(class_bases[on_path[n].class])
                                /\ on_path[n].visited # Len(class_bases[on_path[n].class])
  BY <1>0 DEF MroShape
<1>2. \A n, k \in DOMAIN on_path : on_path[n].class = on_path[k].class => n = k
  BY DEF MroShape
<1>3. CASE EndsHere(calling)
  <2>1. on_path' = on_path /\ result' = IF calling \in DOMAIN memo THEN memo[calling] ELSE <<calling>>
    BY <1>3 DEF Enter
  <2>2. result' \in Seq(Classes)
    BY <1>0, <2>1
  <2> QED
    BY <1>0, <1>1, <1>2, <2>1, <2>2 DEF MroShape
<1>4. CASE ~EndsHere(calling)
  <2>1. PICK a : a = [class |-> calling, visited |-> 0, sequences |-> <<>>, merged |-> <<>>]
    OBVIOUS
  <2>2. on_path' = Append(on_path, a) /\ result' = result
    BY <1>4, <2>1 DEF Enter
  <2>3. a \in Activations /\ a.class = calling /\ a.visited = 0
    BY <1>0, <2>1 DEF Activations
  <2>4. class_bases[calling] # <<>> /\ \A n \in DOMAIN on_path : on_path[n].class # calling
    BY <1>4 DEF EndsHere, OnPath
  <2>5. 0 <= Len(class_bases[calling]) /\ 0 # Len(class_bases[calling])
    BY <1>0, <2>4
  <2>6. /\ on_path' \in Seq(Activations) /\ on_path'[Len(on_path) + 1] = a
        /\ DOMAIN on_path' = DOMAIN on_path \cup {Len(on_path) + 1}
        /\ \A n \in DOMAIN on_path : on_path'[n] = on_path[n]
    BY <1>0, <2>2, <2>3, PathPushed
  <2>7. \A n, k \in DOMAIN on_path' : on_path'[n].class = on_path'[k].class => n = k
    BY <1>2, <2>3, <2>4, <2>6
  <2>8. \A n \in DOMAIN on_path' : /\ on_path'[n].visited <= Len(class_bases[on_path'[n].class])
                                   /\ on_path'[n].visited # Len(class_bases[on_path'[n].class])
    BY <1>1, <2>3, <2>5, <2>6
  <2> QED
    BY <1>0, <2>2, <2>6, <2>7, <2>8 DEF MroShape
<1> QED
  BY <1>3, <1>4

LEMMA VisitShape ==
    ASSUME MroShape, VisitBase
    PROVE  MroShape'
<1>0. /\ class_bases' = class_bases /\ memo' = memo /\ on_path' = on_path /\ result' = result
      /\ calling = NoClass /\ result = <<>> /\ on_path # <<>>
      /\ Top.visited < Len(class_bases[Top.class]) /\ calling' = class_bases[Top.class][Top.visited + 1]
  BY DEF VisitBase
<1>1. calling' \in Classes
  <2>1. Top.visited + 1 \in 1..Len(class_bases[Top.class])
    BY <1>0, TopFacts
  <2> QED
    BY <1>0, <2>1, TopFacts
<1>2. \A n \in DOMAIN on_path : /\ on_path[n].visited <= Len(class_bases[on_path[n].class])
                                /\ on_path[n].visited # Len(class_bases[on_path[n].class])
  <2>1. Top.visited # Len(class_bases[Top.class])
    BY <1>0, TopFacts
  <2> QED
    BY <1>0, <2>1, TopFacts DEF MroShape
<1> QED
  BY <1>0, <1>1, <1>2, ClassesAssumption DEF MroShape

\* An activation with two fields changed.
LEMMA Revisited ==
    ASSUME NEW a \in Activations, NEW v, NEW s
    PROVE  [a EXCEPT !.visited = v, !.sequences = s]
              = [class |-> a.class, visited |-> v, sequences |-> s, merged |-> a.merged]
<1> DEFINE b == [a EXCEPT !.visited = v]
<1>1. b = [class |-> a.class, visited |-> v, sequences |-> a.sequences, merged |-> a.merged]
  BY DEF Activations
<1> HIDE DEF b
<1>2. [b EXCEPT !.sequences = s]
         = [class |-> a.class, visited |-> v, sequences |-> s, merged |-> a.merged]
  BY <1>1
<1> QED
  BY <1>2 DEF b

LEMMA Remerged ==
    ASSUME NEW a \in Activations, NEW s, NEW m
    PROVE  [a EXCEPT !.sequences = s, !.merged = m]
              = [class |-> a.class, visited |-> a.visited, sequences |-> s, merged |-> m]
<1> DEFINE b == [a EXCEPT !.sequences = s]
<1>1. b = [class |-> a.class, visited |-> a.visited, sequences |-> s, merged |-> a.merged]
  BY DEF Activations
<1> HIDE DEF b
<1>2. [b EXCEPT !.merged = m]
         = [class |-> a.class, visited |-> a.visited, sequences |-> s, merged |-> m]
  BY <1>1
<1> QED
  BY <1>2 DEF b

\* A result that a base's activation takes.
Taking(a) ==
    /\ class_bases' = class_bases /\ memo' = memo /\ calling' = calling /\ result' = <<>>
    /\ on_path # <<>> /\ result # <<>> /\ calling = NoClass
    /\ a.class = Top.class /\ a.visited = Top.visited + 1 /\ a.merged = Top.merged
    /\ a.sequences = IF Top.visited + 1 = Len(class_bases[Top.class])
                     THEN Append(Append(Top.sequences, result), class_bases[Top.class])
                     ELSE Append(Top.sequences, result)
    /\ a \in Activations /\ a.visited <= Len(class_bases[Top.class])
    /\ on_path' = WithTop(a)

LEMMA TakesResult ==
    ASSUME MroShape, TakeResult
    PROVE  \E a : Taking(a)
<1> DEFINE bases == class_bases[Top.class]
           sequences == Append(Top.sequences, result)
           last == IF Top.visited + 1 = Len(bases) THEN Append(sequences, bases) ELSE sequences
<1>1. /\ class_bases' = class_bases /\ memo' = memo /\ calling' = calling /\ result' = <<>>
      /\ on_path # <<>> /\ result # <<>>
      /\ on_path' = WithTop([Top EXCEPT !.visited = @ + 1, !.sequences = last])
  BY DEF TakeResult
<1>2. /\ result \in Seq(Classes) /\ calling = NoClass
      /\ Top.visited # Len(bases)
  BY <1>1, TopFacts DEF MroShape
<1>3. PICK a : a = [class |-> Top.class, visited |-> Top.visited + 1, sequences |-> last, merged |-> Top.merged]
  OBVIOUS
<1>4. a = [Top EXCEPT !.visited = @ + 1, !.sequences = last]
  <2>1. PICK t \in Activations : t = Top
    BY <1>1, TopFacts
  <2>2. [t EXCEPT !.visited = t.visited + 1, !.sequences = last] = a
    <3> HIDE DEF last
    <3> QED
      BY <1>3, <2>1, Revisited
  <2> HIDE DEF last
  <2> QED
    BY <2>1, <2>2
<1>5. Top.visited + 1 \in Nat /\ Top.visited + 1 <= Len(bases)
  BY <1>1, <1>2, TopFacts
<1>6. last \in Seq(Seq(Classes))
  <2>1. sequences \in Seq(Seq(Classes))
    BY <1>1, <1>2, TopFacts
  <2>2. Append(sequences, bases) \in Seq(Seq(Classes))
    <3> HIDE DEF sequences
    <3> QED
      BY <1>1, <2>1, TopFacts
  <2> QED
    BY <2>1, <2>2
<1>7. a \in Activations
  <2> HIDE DEF last
  <2> QED
    BY <1>1, <1>3, <1>5, <1>6, TopFacts DEF Activations
<1>8. a.class = Top.class /\ a.visited = Top.visited + 1 /\ a.sequences = last /\ a.merged = Top.merged
  BY <1>3
<1>9. on_path' = WithTop(a)
  BY <1>1, <1>4
<1> QED
  BY <1>1, <1>2, <1>5, <1>7, <1>8, <1>9 DEF Taking

\* Another top for the class that is at the top.
LEMMA ReplaceShape ==
    ASSUME MroShape, on_path # <<>>, NEW a \in Activations, a.class = Top.class,
           a.visited <= Len(class_bases[Top.class]),
           on_path' = WithTop(a), class_bases' = class_bases, memo' = memo, calling' = calling,
           calling = NoClass, result' = <<>>
    PROVE  MroShape'
<1>1. /\ class_bases \in [Classes -> Seq(Classes)] /\ on_path \in Seq(Activations)
      /\ DOMAIN memo \subseteq Classes /\ \A c \in DOMAIN memo : memo[c] \in Seq(Classes)
      /\ \A n, k \in DOMAIN on_path : on_path[n].class = on_path[k].class => n = k
  BY DEF MroShape
<1>2. /\ on_path' \in Seq(Activations) /\ DOMAIN on_path' = DOMAIN on_path
      /\ Len(on_path') = Len(on_path) /\ on_path'[Len(on_path)] = a
      /\ \A n \in DOMAIN on_path : n # Len(on_path) => on_path'[n] = on_path[n]
  BY <1>1, PathWithTop
<1>3. \A n \in DOMAIN on_path : on_path'[n].class = on_path[n].class
  BY <1>2, TopFacts
<1>4. \A n \in DOMAIN on_path :
        /\ on_path'[n].visited <= Len(class_bases[on_path'[n].class])
        /\ on_path'[n].visited = Len(class_bases[on_path'[n].class]) => n = Len(on_path)
  BY <1>2, TopFacts DEF MroShape
<1>5. <<>> \in Seq(Classes)
  OBVIOUS
<1> QED
  BY <1>1, <1>2, <1>3, <1>4, <1>5 DEF MroShape

\* A turn of c3_merge, with the next top.
Turning(a, head) ==
    /\ Merging /\ Left(Top.sequences) # {} /\ head = NextHead(Top.sequences)
    /\ class_bases' = class_bases /\ memo' = memo /\ calling' = calling /\ result' = result
    /\ a.class = Top.class /\ a.visited = Top.visited
    /\ a.sequences = WithoutHead(Top.sequences, head)
    /\ a.merged = IF head = Top.class \/ Contains(Top.merged, head) THEN Top.merged
                  ELSE Append(Top.merged, head)
    /\ a \in Activations
    /\ on_path' = WithTop(a)

LEMMA TakesHead ==
    ASSUME MroShape, TakeHead
    PROVE  \E a, head : Turning(a, head)
<1>1. PICK head : head = NextHead(Top.sequences)
  OBVIOUS
<1> DEFINE q == Top.sequences
           q2 == WithoutHead(q, head)
           m2 == IF head = Top.class \/ Contains(Top.merged, head) THEN Top.merged
                 ELSE Append(Top.merged, head)
<1>2. /\ Merging /\ Left(q) # {} /\ on_path # <<>>
      /\ class_bases' = class_bases /\ memo' = memo /\ calling' = calling /\ result' = result
      /\ on_path' = WithTop([Top EXCEPT !.sequences = q2, !.merged = m2])
  BY <1>1 DEF TakeHead, Merging
<1>3. q \in Seq(Seq(Classes)) /\ Top.merged \in Seq(Classes)
  BY <1>2, TopFacts
<1>4. MergedSoFar(q, q2, IF Contains(<<>>, head) THEN <<>> ELSE Append(<<>>, head))
  <2>1. MergedSoFar(q, q, <<>>)
    BY <1>3, MergeStart
  <2> HIDE DEF q, q2
  <2> QED
    BY <1>1, <1>2, <2>1, MergeHead DEF q, q2
<1>5. q2 \in Seq(Seq(Classes))
  BY <1>4 DEF MergedSoFar, Ends
<1>6. head \in Classes
  <2>1. Ends(q, q)
    BY <1>3, MergeStart DEF MergedSoFar
  <2>2. PICK n \in Left(q) : head = Head(q[n])
    BY <1>1, <1>2, <2>1, NextHeads
  <2>3. q[n] \in Seq(Classes) /\ q[n] # <<>>
    BY <1>3 DEF Left
  <2> QED
    BY <2>2, <2>3
<1>7. m2 \in Seq(Classes)
  BY <1>3, <1>6
<1>8. PICK a : a = [class |-> Top.class, visited |-> Top.visited, sequences |-> q2, merged |-> m2]
  OBVIOUS
<1>9. a = [Top EXCEPT !.sequences = q2, !.merged = m2] /\ a \in Activations
  <2>1. PICK t \in Activations : t = Top
    BY <1>2, TopFacts
  <2> HIDE DEF q2, m2
  <2>2. [t EXCEPT !.sequences = q2, !.merged = m2] = a
    BY <1>8, <2>1, Remerged
  <2>3. a \in Activations
    BY <1>5, <1>7, <1>8, <2>1 DEF Activations
  <2> QED
    BY <2>1, <2>2, <2>3
<1>10. a.class = Top.class /\ a.visited = Top.visited /\ a.sequences = q2 /\ a.merged = m2
  BY <1>8
<1> QED
  BY <1>1, <1>2, <1>9, <1>10 DEF Turning

LEMMA ReturnShape ==
    ASSUME MroShape, Return
    PROVE  MroShape'
<1>0. /\ on_path # <<>> /\ calling = NoClass /\ class_bases' = class_bases /\ calling' = calling
      /\ on_path' = Front(on_path) /\ result' = <<Top.class>> \o Top.merged
      /\ memo' = [c \in DOMAIN memo \cup {Top.class} |->
                    IF c = Top.class THEN <<Top.class>> \o Top.merged ELSE memo[c]]
  BY DEF Return, Merging
<1>1. /\ class_bases \in [Classes -> Seq(Classes)] /\ on_path \in Seq(Activations)
      /\ DOMAIN memo \subseteq Classes /\ \A c \in DOMAIN memo : memo[c] \in Seq(Classes)
      /\ \A n, k \in DOMAIN on_path : on_path[n].class = on_path[k].class => n = k
      /\ \A n \in DOMAIN on_path :
          /\ on_path[n].visited <= Len(class_bases[on_path[n].class])
          /\ on_path[n].visited = Len(class_bases[on_path[n].class]) => n = Len(on_path)
  BY DEF MroShape
<1>2. <<Top.class>> \o Top.merged \in Seq(Classes)
  BY <1>0, TopFacts
<1>3. DOMAIN memo' \subseteq Classes /\ \A c \in DOMAIN memo' : memo'[c] \in Seq(Classes)
  BY <1>0, <1>1, <1>2, TopFacts
<1>4. /\ on_path' \in Seq(Activations) /\ DOMAIN on_path' \subseteq DOMAIN on_path
      /\ \A n \in DOMAIN on_path' : on_path'[n] = on_path[n] /\ n # Len(on_path)
  BY <1>0, <1>1, PathPopped
<1> QED
  BY <1>0, <1>1, <1>2, <1>3, <1>4 DEF MroShape

LEMMA ShapeStep ==
    ASSUME MroShape, Linearize
    PROVE  MroShape'
<1>1. CASE TakeResult
  <2>1. PICK a : Taking(a)
    BY <1>1, TakesResult
  <2> QED
    BY <2>1, ReplaceShape DEF Taking
<1>2. CASE TakeHead
  <2>1. PICK a, head : Turning(a, head)
    BY <1>2, TakesHead
  <2>2. a.visited <= Len(class_bases[Top.class]) /\ on_path # <<>> /\ result = <<>> /\ calling = NoClass
    BY <2>1, TopFacts DEF Turning, Merging
  <2> QED
    BY <2>1, <2>2, ReplaceShape DEF Turning
<1> QED
  BY <1>1, <1>2, EnterShape, VisitShape, ReturnShape DEF Linearize

\* What the memo and the bases say, while they do not change.
LEMMA SameMemo ==
    ASSUME memo' = memo, class_bases' = class_bases, NEW h
    PROVE  /\ \A c : Settled(c)' <=> Settled(c)
           /\ \A c : OrderOf(c)' = OrderOf(c)
           /\ \A c : Memoized(h, c)' <=> Memoized(h, c)
           /\ \A a : Activated(h, a)' <=> Activated(h, a)
<1>1. \A c : OrderOf(c)' = OrderOf(c) /\ (Settled(c)' <=> Settled(c))
  BY DEF OrderOf, Settled
<1>2. \A c : ToKeep(c)' = ToKeep(c) /\ Sources(c)' = Sources(c)
  BY <1>1 DEF ToKeep, Sources
<1>3. \A c : Memoized(h, c)' <=> Memoized(h, c)
  BY <1>1, <1>2 DEF Memoized
<1>4. \A a : Activated(h, a)' <=> Activated(h, a)
  BY <1>1, <1>2 DEF Activated
<1> QED
  BY <1>1, <1>3, <1>4

\* The sources of a class lie above it.
LEMMA SourceFacts ==
    ASSUME MroShape, NEW h, Ascends(h), MroInv(h), NEW c \in Classes
    PROVE  /\ Sources(c) \in Seq(Seq(Classes)) /\ Len(Sources(c)) = Len(class_bases[c]) + 1
           /\ \A k \in DOMAIN Sources(c) : \A i \in DOMAIN Sources(c)[k] : h[c] < h[Sources(c)[k][i]]
           /\ ToKeep(c) = {Sources(c)[k] : k \in DOMAIN Sources(c)}
<1> DEFINE bases == class_bases[c]
           S == Sources(c)
<1>1. /\ bases \in Seq(Classes) /\ Len(bases) \in Nat /\ DOMAIN bases = 1..Len(bases)
      /\ DOMAIN memo \subseteq Classes /\ \A b \in DOMAIN memo : memo[b] \in Seq(Classes)
  BY DEF MroShape
<1>2. h \in [Classes -> Nat] /\ \A k \in DOMAIN bases : bases[k] \in Classes /\ h[c] < h[bases[k]]
  BY <1>1 DEF Ascends, ToSet
<1>3. ASSUME NEW b \in Classes
      PROVE  OrderOf(b) \in Seq(Classes) /\ \A i \in DOMAIN OrderOf(b) : h[b] <= h[OrderOf(b)[i]]
  <2>1. CASE b \in DOMAIN memo
    BY <1>1, <2>1 DEF OrderOf, MroInv, Memoized
  <2>2. CASE b \notin DOMAIN memo
    <3>1. OrderOf(b) = <<b>> /\ <<b>> \in Seq(Classes) /\ \A i \in DOMAIN <<b>> : <<b>>[i] = b
      BY <2>2 DEF OrderOf
    <3>2. h[b] <= h[b]
      BY <1>2
    <3> QED
      BY <3>1, <3>2
  <2> QED
    BY <2>1, <2>2
<1>4. /\ DOMAIN S = 1..(Len(bases) + 1)
      /\ \A k \in DOMAIN bases : k \in DOMAIN S /\ S[k] = OrderOf(bases[k])
      /\ Len(bases) + 1 \in DOMAIN S /\ S[Len(bases) + 1] = bases
      /\ \A k \in DOMAIN S : k \in DOMAIN bases \/ k = Len(bases) + 1
  BY <1>1 DEF Sources
<1>5. \A k \in DOMAIN S : S[k] \in Seq(Classes)
  BY <1>1, <1>2, <1>3, <1>4
<1>6. S \in Seq(Seq(Classes)) /\ Len(S) = Len(bases) + 1
  <2>1. S = [k \in 1..(Len(bases) + 1) |-> S[k]]
    BY DEF Sources
  <2> HIDE DEF S, bases
  <2> QED
    BY <1>1, <1>4, <1>5, <2>1
<1>7. ASSUME NEW k \in DOMAIN S, NEW i \in DOMAIN S[k] PROVE h[c] < h[S[k][i]]
  <2>1. CASE k \in DOMAIN bases
    <3>1. S[k] = OrderOf(bases[k]) /\ h[c] < h[bases[k]] /\ bases[k] \in Classes
      BY <1>2, <1>4, <2>1
    <3>2. h[bases[k]] <= h[S[k][i]] /\ S[k][i] \in Classes
      BY <1>3, <1>5, <3>1
    <3> QED
      BY <1>2, <3>1, <3>2
  <2>2. CASE k = Len(bases) + 1
    BY <1>2, <1>4, <2>2
  <2> QED
    BY <1>4, <2>1, <2>2
<1>8. ToKeep(c) = {S[k] : k \in DOMAIN S}
  <2>1. ToKeep(c) = {bases} \cup {OrderOf(bases[k]) : k \in DOMAIN bases}
    BY DEF ToKeep, ToSet
  <2> HIDE DEF S, bases
  <2> QED
    BY <1>4, <2>1
<1> QED
  BY <1>6, <1>7, <1>8

LEMMA InvFacts ==
    ASSUME NEW h, MroInv(h)
    PROVE  /\ \A c \in DOMAIN memo : Memoized(h, c)
           /\ \A a \in ToSet(on_path) : Activated(h, a)
           /\ \A n \in DOMAIN on_path : on_path[n] \in ToSet(on_path)
           /\ \A a \in ToSet(on_path) : \E n \in DOMAIN on_path : a = on_path[n]
           /\ \A n, k \in DOMAIN on_path : n < k => h[on_path[n].class] < h[on_path[k].class]
           /\ \A n \in DOMAIN on_path : n # Len(on_path) =>
                 on_path[n + 1].class = class_bases[on_path[n].class][on_path[n].visited + 1]
  BY DEF MroInv, ToSet, NextBase

\* What is called lies above the classes on the path.
LEMMA CallingAbove ==
    ASSUME MroShape, NEW h, Ascends(h), MroInv(h), calling # NoClass
    PROVE  \A n \in DOMAIN on_path : h[on_path[n].class] < h[calling]
<1>0. calling \in Classes /\ h \in [Classes -> Nat] /\ on_path \in Seq(Activations)
  BY DEF MroShape, Ascends
<1>1. ASSUME NEW n \in DOMAIN on_path PROVE on_path[n].class \in Classes
  <2>1. on_path[n] \in Activations
    BY <1>0
  <2> QED
    BY <2>1 DEF Activations
<1>2. CASE on_path # <<>>
  <2>1. calling = class_bases[Top.class][Top.visited + 1]
    BY <1>2 DEF MroInv, NextBase
  <2>2. Top.visited # Len(class_bases[Top.class])
    BY <1>2, TopFacts DEF MroShape
  <2>3. Top.visited + 1 \in 1..Len(class_bases[Top.class])
    BY <1>2, <2>2, TopFacts
  <2>4. Top.visited + 1 \in DOMAIN class_bases[Top.class]
    BY <1>2, <2>3, TopFacts
  <2>5. calling \in ToSet(class_bases[Top.class])
    BY <2>1, <2>4 DEF ToSet
  <2>6. h[Top.class] < h[calling] /\ Top.class \in Classes
    BY <1>2, <2>5, TopFacts DEF Ascends
  <2>7. ASSUME NEW n \in DOMAIN on_path PROVE h[on_path[n].class] < h[calling]
    <3>1. CASE n = Len(on_path)
      BY <1>2, <2>6, <3>1, TopFacts
    <3>2. CASE n # Len(on_path)
      <4>1. n < Len(on_path) /\ Len(on_path) \in DOMAIN on_path
        BY <1>2, <3>2, TopFacts
      <4>2. h[on_path[n].class] < h[Top.class]
        BY <1>2, <4>1, InvFacts, TopFacts
      <4> QED
        BY <1>0, <1>1, <2>6, <4>2
    <3> QED
      BY <3>1, <3>2
  <2> QED
    BY <2>7
<1>3. CASE on_path = <<>>
  BY <1>3
<1> QED
  BY <1>2, <1>3

LEMMA EnterInv ==
    ASSUME MroShape, NEW h, Ascends(h), MroInv(h), Enter
    PROVE  MroInv(h)'
<1>0. /\ class_bases' = class_bases /\ memo' = memo /\ calling' = NoClass
      /\ calling # NoClass /\ calling \in Classes /\ result = <<>>
      /\ class_bases \in [Classes -> Seq(Classes)] /\ on_path \in Seq(Activations)
      /\ h \in [Classes -> Nat]
  BY DEF MroShape, Enter, Ascends
<1>1. on_path # <<>> => calling = NextBase(Top)
  BY <1>0 DEF MroInv
<1>2. \A n \in DOMAIN on_path : h[on_path[n].class] < h[calling]
  BY <1>0, CallingAbove
<1>3. ~OnPath(calling)
  BY <1>0, <1>2 DEF OnPath
<1>4. /\ \A c \in DOMAIN memo' : Memoized(h, c)'
      /\ \A a : Activated(h, a)' <=> Activated(h, a)
      /\ \A c : OrderOf(c)' = OrderOf(c) /\ (Settled(c)' <=> Settled(c))
  BY <1>0, SameMemo, InvFacts
<1>5. CASE EndsHere(calling)
  <2>1. on_path' = on_path /\ result' = IF calling \in DOMAIN memo THEN memo[calling] ELSE <<calling>>
    BY <1>5 DEF Enter
  <2>2. PICK b \in Classes : b = calling
    BY <1>0
  <2>3. Settled(b) /\ result' = OrderOf(b)
    BY <1>3, <1>5, <2>1, <2>2 DEF EndsHere, Settled, OrderOf
  <2>4. Settled(b)' /\ result' = OrderOf(b)'
    BY <1>4, <2>3
  <2>5. on_path' # <<>> => b = NextBase(Top)'
    BY <1>0, <1>1, <2>1, <2>2 DEF NextBase, Top
  <2>6. \A a \in ToSet(on_path') : Activated(h, a)'
    BY <1>4, <2>1, InvFacts
  <2>7. \A n \in DOMAIN on_path' : n # Len(on_path') =>
          on_path'[n + 1].class = class_bases'[on_path'[n].class][on_path'[n].visited + 1]
    BY <1>0, <2>1, InvFacts
  <2>8. \A n, k \in DOMAIN on_path' : n < k => h[on_path'[n].class] < h[on_path'[k].class]
    BY <2>1, InvFacts
  <2> QED
    BY <1>0, <1>4, <2>4, <2>5, <2>6, <2>7, <2>8 DEF MroInv, NextBase
<1>6. CASE ~EndsHere(calling)
  <2>1. PICK a : a = [class |-> calling, visited |-> 0, sequences |-> <<>>, merged |-> <<>>]
    OBVIOUS
  <2>2. on_path' = Append(on_path, a) /\ result' = result
    BY <1>6, <2>1 DEF Enter
  <2>3. /\ a \in Activations /\ a.class = calling /\ a.visited = 0 /\ a.sequences = <<>> /\ a.merged = <<>>
    BY <1>0, <2>1 DEF Activations
  <2>4. calling \notin DOMAIN memo /\ class_bases[calling] # <<>>
    BY <1>6 DEF EndsHere
  <2>5. /\ DOMAIN on_path' = DOMAIN on_path \cup {Len(on_path) + 1}
        /\ Len(on_path') = Len(on_path) + 1 /\ on_path'[Len(on_path) + 1] = a
        /\ \A n \in DOMAIN on_path : n # Len(on_path) + 1 /\ on_path'[n] = on_path[n]
        /\ Len(on_path) \in Nat /\ DOMAIN on_path = 1..Len(on_path)
    BY <1>0, <2>2, <2>3, PathPushed
  <2>6. Activated(h, a)
    <3>1. Len(class_bases[calling]) \in Nat /\ 0 < Len(class_bases[calling])
      BY <1>0, <2>4
    <3>2. 1..0 = {} /\ <<>> = [k \in 1..0 |-> OrderOf(class_bases[calling][k])]
      OBVIOUS
    <3> QED
      BY <2>3, <2>4, <3>1, <3>2 DEF Activated
  <2>7. \A b \in ToSet(on_path') : Activated(h, b)'
    <3>1. \A b \in ToSet(on_path') : b \in ToSet(on_path) \/ b = a
      BY <2>5 DEF ToSet
    <3> QED
      BY <1>4, <2>6, <3>1, InvFacts
  <2>8. ASSUME NEW n \in DOMAIN on_path', NEW k \in DOMAIN on_path', n < k
        PROVE  h[on_path'[n].class] < h[on_path'[k].class]
    <3>1. n \in DOMAIN on_path
      BY <2>5, <2>8
    <3>2. CASE k \in DOMAIN on_path
      BY <2>5, <2>8, <3>1, <3>2, InvFacts
    <3>3. CASE k = Len(on_path) + 1
      BY <1>2, <2>3, <2>5, <3>1, <3>3
    <3> QED
      BY <2>5, <3>2, <3>3
  <2>9. ASSUME NEW n \in DOMAIN on_path', n # Len(on_path')
        PROVE  on_path'[n + 1].class = class_bases'[on_path'[n].class][on_path'[n].visited + 1]
    <3>1. n \in DOMAIN on_path
      BY <2>5, <2>9
    <3>2. CASE n = Len(on_path)
      <4>1. on_path # <<>> /\ on_path[n] = Top
        BY <3>1, <3>2 DEF Top
      <4>2. calling = class_bases[on_path[n].class][on_path[n].visited + 1]
        BY <1>1, <4>1 DEF NextBase
      <4> QED
        BY <1>0, <2>3, <2>5, <3>1, <3>2, <4>2
    <3>3. CASE n # Len(on_path)
      <4>1. n + 1 \in DOMAIN on_path
        BY <2>5, <3>1, <3>3
      <4> QED
        BY <1>0, <2>5, <3>1, <3>3, <4>1, InvFacts
    <3> QED
      BY <3>2, <3>3
  <2> QED
    BY <1>0, <1>4, <2>2, <2>7, <2>8, <2>9 DEF MroInv, NextBase
<1> QED
  BY <1>5, <1>6

LEMMA VisitInv ==
    ASSUME MroShape, NEW h, MroInv(h), VisitBase
    PROVE  MroInv(h)'
<1>0. /\ class_bases' = class_bases /\ memo' = memo /\ on_path' = on_path /\ result' = result
      /\ result = <<>> /\ calling' = NextBase(Top)
  BY DEF VisitBase, NextBase
<1>1. /\ \A c \in DOMAIN memo' : Memoized(h, c)'
      /\ \A a : Activated(h, a)' <=> Activated(h, a)
  BY <1>0, SameMemo, InvFacts
<1>2. Top' = Top
  BY <1>0 DEF Top
<1>3. \A a \in ToSet(on_path') : Activated(h, a)'
  BY <1>0, <1>1, InvFacts
<1>4. /\ \A n \in DOMAIN on_path' : n # Len(on_path') =>
            on_path'[n + 1].class = class_bases'[on_path'[n].class][on_path'[n].visited + 1]
      /\ \A n, k \in DOMAIN on_path' : n < k => h[on_path'[n].class] < h[on_path'[k].class]
  BY <1>0, InvFacts
<1>5. calling' = class_bases'[Top'.class][Top'.visited + 1]
  BY <1>0, <1>2 DEF NextBase
<1> QED
  BY <1>0, <1>1, <1>3, <1>4, <1>5 DEF MroInv, NextBase

LEMMA ReplaceInv ==
    ASSUME MroShape, on_path # <<>>, NEW h, MroInv(h), NEW a \in Activations, a.class = Top.class,
           Activated(h, a), on_path' = WithTop(a), class_bases' = class_bases, memo' = memo,
           calling' = NoClass, result' = <<>>
    PROVE  MroInv(h)'
<1>1. /\ \A c \in DOMAIN memo' : Memoized(h, c)'
      /\ \A b : Activated(h, b)' <=> Activated(h, b)
  BY SameMemo, InvFacts
<1>2. on_path \in Seq(Activations)
  BY DEF MroShape
<1>3. /\ DOMAIN on_path' = DOMAIN on_path /\ Len(on_path') = Len(on_path) /\ on_path'[Len(on_path)] = a
      /\ \A n \in DOMAIN on_path : n # Len(on_path) => on_path'[n] = on_path[n]
  BY <1>2, PathWithTop
<1>4. \A n \in DOMAIN on_path : on_path'[n].class = on_path[n].class
  BY <1>3, TopFacts
<1>5. \A b \in ToSet(on_path') : Activated(h, b)'
  <2>1. \A b \in ToSet(on_path') : b \in ToSet(on_path) \/ b = a
    BY <1>3 DEF ToSet
  <2> QED
    BY <1>1, <2>1, InvFacts
<1>6. \A n, k \in DOMAIN on_path' : n < k => h[on_path'[n].class] < h[on_path'[k].class]
  BY <1>3, <1>4, InvFacts
<1>7. ASSUME NEW n \in DOMAIN on_path', n # Len(on_path')
      PROVE  on_path'[n + 1].class = class_bases'[on_path'[n].class][on_path'[n].visited + 1]
  <2>1. n \in DOMAIN on_path /\ n # Len(on_path) /\ n + 1 \in DOMAIN on_path
    BY <1>3, <1>7, TopFacts
  <2> QED
    BY <1>3, <1>4, <2>1, InvFacts
<1> QED
  BY <1>1, <1>5, <1>6, <1>7 DEF MroInv, NextBase

LEMMA AppendIs ==
    ASSUME NEW X, NEW s \in Seq(X), NEW x \in X, NEW n \in Nat, n = Len(s)
    PROVE  Append(s, x) = [k \in 1..(n + 1) |-> IF k = n + 1 THEN x ELSE s[k]]
<1>1. PICK e : e = Append(s, x)
  OBVIOUS
<1>2. e \in Seq(X) /\ Len(e) = n + 1 /\ e[n + 1] = x /\ \A k \in 1..n : e[k] = s[k]
  BY <1>1
<1>3. e = [k \in 1..(n + 1) |-> e[k]]
  BY <1>2
<1>4. \A k \in 1..(n + 1) : e[k] = IF k = n + 1 THEN x ELSE s[k]
  BY <1>2
<1> QED
  BY <1>1, <1>3, <1>4

LEMMA TakeInv ==
    ASSUME MroShape, NEW h, Ascends(h), MroInv(h), TakeResult
    PROVE  MroInv(h)'
<1>0. PICK a : Taking(a)
  BY TakesResult
<1> DEFINE bases == class_bases[Top.class]
           v == Top.visited
<1>1. /\ on_path # <<>> /\ result # <<>> /\ calling = NoClass
      /\ a.class = Top.class /\ a.visited = v + 1 /\ a.merged = Top.merged /\ a \in Activations
      /\ a.sequences = IF v + 1 = Len(bases) THEN Append(Append(Top.sequences, result), bases)
                       ELSE Append(Top.sequences, result)
  BY <1>0 DEF Taking
<1>2. /\ Top.class \in Classes /\ v \in Nat /\ bases \in Seq(Classes) /\ Len(bases) \in Nat
      /\ v <= Len(bases) /\ v # Len(bases)
  BY <1>1, TopFacts DEF MroShape
<1>3. Settled(bases[v + 1]) /\ result = OrderOf(bases[v + 1])
  BY <1>1 DEF MroInv, NextBase
<1>4. Activated(h, Top)
  BY <1>1, TopFacts, InvFacts
<1>5. /\ Top.class \notin DOMAIN memo /\ bases # <<>>
      /\ \A k \in 1..v : Settled(bases[k])
      /\ Top.merged = <<>> /\ Top.sequences = [k \in 1..v |-> OrderOf(bases[k])]
  BY <1>2, <1>4 DEF Activated
<1>6. \A k \in 1..(v + 1) : Settled(bases[k])
  <2>1. \A k \in 1..(v + 1) : k \in 1..v \/ k = v + 1
    BY <1>2
  <2> QED
    BY <1>3, <1>5, <2>1
<1> DEFINE orders == [k \in 1..(v + 1) |-> OrderOf(bases[k])]
<1>7. Append(Top.sequences, result) = orders
  <2>1. Top.sequences \in Seq(Seq(Classes)) /\ Len(Top.sequences) = v
    BY <1>1, <1>2, <1>5, TopFacts
  <2>2. PICK s : s = Top.sequences
    OBVIOUS
  <2>3. PICK x : x = result
    OBVIOUS
  <2>4. Append(s, x) = [k \in 1..(v + 1) |-> IF k = v + 1 THEN x ELSE s[k]]
    <3>1. s \in Seq(Seq(Classes)) /\ Len(s) = v /\ x \in Seq(Classes) /\ v \in Nat
      BY <1>2, <2>1, <2>2, <2>3 DEF MroShape
    <3> HIDE DEF v, bases
    <3> QED
      BY <3>1, AppendIs
  <2>5. \A k \in 1..(v + 1) : (IF k = v + 1 THEN x ELSE s[k]) = OrderOf(bases[k])
    <3>1. \A k \in 1..(v + 1) : k \in 1..v \/ k = v + 1
      BY <1>2
    <3>2. \A k \in 1..v : s[k] = OrderOf(bases[k])
      BY <1>5, <2>2
    <3> QED
      BY <1>3, <2>3, <3>1, <3>2
  <2> HIDE DEF v, bases
  <2> QED
    BY <2>2, <2>3, <2>4, <2>5
<1>8. CASE v + 1 = Len(bases)
  <2>1. Sources(Top.class) = Append(orders, bases)
    <3>1. orders \in Seq(Seq(Classes)) /\ Len(orders) = v + 1
      <4>1. Append(Top.sequences, result) \in Seq(Seq(Classes))
        <5>1. Top.sequences \in Seq(Seq(Classes)) /\ result \in Seq(Classes)
          BY <1>1, TopFacts DEF MroShape
        <5> QED
          BY <5>1
      <4> QED
        BY <1>2, <1>7, <4>1
    <3>2. PICK s : s = orders
      OBVIOUS
    <3>3. Append(s, bases) = [k \in 1..(v + 2) |-> IF k = v + 2 THEN bases ELSE s[k]]
      <4>1. PICK n \in Nat : n = v + 1
        BY <1>2
      <4>2. s \in Seq(Seq(Classes)) /\ Len(s) = n /\ v + 2 = n + 1
        BY <1>2, <3>1, <3>2, <4>1
      <4> HIDE DEF v, bases, orders
      <4>3. Append(s, bases) = [k \in 1..(n + 1) |-> IF k = n + 1 THEN bases ELSE s[k]]
        BY <1>2, <4>2, AppendIs
      <4> QED
        BY <4>2, <4>3
    <3>4. \A k \in 1..(v + 2) : /\ k # v + 2 => k \in 1..(v + 1)
                                /\ k <= v + 1 <=> k # v + 2
      BY <1>2
    <3>5. Sources(Top.class) = [k \in 1..(v + 2) |-> IF k <= v + 1 THEN OrderOf(bases[k]) ELSE bases]
      <4>1. Len(bases) + 1 = v + 2
        BY <1>2, <1>8
      <4> QED
        BY <1>8, <4>1 DEF Sources
    <3>6. \A k \in 1..(v + 2) : k # v + 2 => s[k] = OrderOf(bases[k])
      BY <3>2, <3>4
    <3> HIDE DEF v, bases, orders
    <3> QED
      BY <3>2, <3>3, <3>4, <3>5, <3>6
  <2>2. a.sequences = Sources(Top.class) /\ a.merged = <<>>
    BY <1>1, <1>5, <1>7, <1>8, <2>1
  <2>3. MergedSoFar(Sources(Top.class), Sources(Top.class), <<>>)
    BY <1>2, SourceFacts, MergeStart
  <2>4. Activated(h, a)
    <3>1. ~(a.visited < Len(bases))
      BY <1>1, <1>2, <1>8
    <3> QED
      BY <1>1, <1>5, <1>6, <2>2, <2>3, <3>1 DEF Activated
  <2> QED
    BY <1>0, <1>1, <2>4, ReplaceInv DEF Taking
<1>9. CASE v + 1 # Len(bases)
  <2>1. a.visited < Len(bases)
    BY <1>1, <1>2, <1>9
  <2>2. a.sequences = orders
    BY <1>1, <1>7, <1>9
  <2>3. Activated(h, a)
    BY <1>1, <1>5, <1>6, <2>1, <2>2 DEF Activated
  <2> QED
    BY <1>0, <1>1, <2>3, ReplaceInv DEF Taking
<1> QED
  BY <1>8, <1>9

LEMMA HeadInv ==
    ASSUME MroShape, NEW h, Ascends(h), MroInv(h), TakeHead
    PROVE  MroInv(h)'
<1>0. PICK a, head : Turning(a, head)
  BY TakesHead
<1> DEFINE c == Top.class
           S == Sources(c)
           q == Top.sequences
           m == Top.merged
<1>1. /\ on_path # <<>> /\ result = <<>> /\ calling = NoClass /\ Top.visited = Len(class_bases[c])
      /\ Left(q) # {} /\ head = NextHead(q) /\ a \in Activations
      /\ a.class = c /\ a.visited = Top.visited /\ a.sequences = WithoutHead(q, head)
      /\ a.merged = IF head = c \/ Contains(m, head) THEN m ELSE Append(m, head)
  BY <1>0 DEF Turning, Merging
<1>2. c \in Classes /\ Len(class_bases[c]) \in Nat /\ h \in [Classes -> Nat]
  BY <1>1, TopFacts DEF Ascends
<1>3. Activated(h, Top)
  BY <1>1, TopFacts, InvFacts
<1>4. /\ c \notin DOMAIN memo /\ class_bases[c] # <<>>
      /\ \A k \in 1..Top.visited : Settled(class_bases[c][k])
      /\ MergedSoFar(S, q, m)
  BY <1>1, <1>2, <1>3 DEF Activated
<1> DEFINE m2 == IF Contains(m, head) THEN m ELSE Append(m, head)
<1>5. MergedSoFar(S, WithoutHead(q, head), m2)
  <2> HIDE DEF S, q, m
  <2> QED
    BY <1>1, <1>4, MergeHead
<1>6. head # c
  <2>1. Ends(S, q)
    BY <1>4 DEF MergedSoFar
  <2>2. PICK n \in Left(q) : head = Head(q[n])
    BY <1>1, <2>1, NextHeads
  <2>3. n \in DOMAIN S /\ q[n] # <<>>
    BY <2>1, <2>2 DEF Left, Ends
  <2>4. q[n] \in Seq(Classes)
    BY <2>1, <2>3, EndFacts
  <2>5. 1 \in DOMAIN q[n] /\ head = q[n][1]
    BY <2>2, <2>3, <2>4, HeadTail
  <2>6. PICK i \in DOMAIN S[n] : head = S[n][i]
    BY <2>1, <2>3, <2>5, EndFacts
  <2>7. h[c] < h[head]
    BY <1>2, <2>3, <2>6, SourceFacts
  <2> QED
    BY <1>2, <2>7
<1>7. a.merged = m2
  BY <1>1, <1>6
<1>8. Activated(h, a)
  <2>1. ~(a.visited < Len(class_bases[a.class]))
    BY <1>1, <1>2
  <2> QED
    BY <1>1, <1>4, <1>5, <1>7, <2>1 DEF Activated
<1> QED
  BY <1>0, <1>1, <1>8, ReplaceInv DEF Turning

\* A class's linearization, once settled, stays.
LEMMA SettledStay ==
    ASSUME MroShape, NEW h, MroInv(h), NEW c, c \notin DOMAIN memo, class_bases[c] # <<>>,
           NEW order, class_bases' = class_bases,
           memo' = [d \in DOMAIN memo \cup {c} |-> IF d = c THEN order ELSE memo[d]]
    PROVE  \A b : Settled(b) => Settled(b)' /\ OrderOf(b)' = OrderOf(b)
<1>1. ASSUME NEW b, Settled(b) PROVE Settled(b)' /\ OrderOf(b)' = OrderOf(b)
  <2>1. CASE b \in DOMAIN memo
    <3>1. b \in DOMAIN memo' /\ memo'[b] = memo[b]
      BY <2>1
    <3> QED
      BY <2>1, <3>1 DEF Settled, OrderOf
  <2>2. CASE b \notin DOMAIN memo
    <3>1. class_bases[b] = <<>> /\ b # c
      BY <1>1, <2>2 DEF Settled
    <3>2. b \notin DOMAIN memo'
      BY <2>2, <3>1
    <3> QED
      BY <2>2, <3>1, <3>2 DEF Settled, OrderOf
  <2> QED
    BY <2>1, <2>2
<1> QED
  BY <1>1

LEMMA ReturnInv ==
    ASSUME MroShape, NEW h, Ascends(h), MroInv(h), Return
    PROVE  MroInv(h)'
<1> DEFINE S == Sources(Top.class)
<1>1. PICK c : c = Top.class
  OBVIOUS
<1>2. PICK order : order = <<c>> \o Top.merged
  OBVIOUS
<1>3. /\ on_path # <<>> /\ calling = NoClass /\ calling' = NoClass /\ class_bases' = class_bases
      /\ on_path' = Front(on_path) /\ result' = order
      /\ memo' = [d \in DOMAIN memo \cup {c} |-> IF d = c THEN order ELSE memo[d]]
      /\ Top.visited = Len(class_bases[c]) /\ Left(Top.sequences) = {}
  BY <1>1, <1>2 DEF Return, Merging
<1>4. /\ c \in Classes /\ h \in [Classes -> Nat] /\ Len(class_bases[c]) \in Nat
      /\ class_bases[c] \in Seq(Classes) /\ Top.merged \in Seq(Classes)
      /\ DOMAIN memo \subseteq Classes /\ class_bases \in [Classes -> Seq(Classes)]
      /\ on_path \in Seq(Activations)
  BY <1>1, <1>3, TopFacts DEF Ascends, MroShape
<1>5. Activated(h, Top)
  BY <1>3, TopFacts, InvFacts
<1>6. /\ c \notin DOMAIN memo /\ class_bases[c] # <<>>
      /\ \A k \in 1..Len(class_bases[c]) : Settled(class_bases[c][k])
      /\ MergedSoFar(S, Top.sequences, Top.merged)
  <2>1. Top.class = c /\ Top.visited = Len(class_bases[Top.class]) /\ ~(Top.visited < Len(class_bases[Top.class]))
    BY <1>1, <1>3, <1>4
  <2>2. /\ Top.class \notin DOMAIN memo /\ class_bases[Top.class] # <<>>
        /\ \A k \in 1..Top.visited : Settled(class_bases[Top.class][k])
        /\ MergedSoFar(S, Top.sequences, Top.merged)
    BY <1>5, <2>1 DEF Activated
  <2> HIDE DEF S
  <2> QED
    BY <2>1, <2>2
<1>7. \A b : Settled(b) => Settled(b)' /\ OrderOf(b)' = OrderOf(b)
  BY <1>3, <1>6, SettledStay
<1>8. \A d \in Classes : (\A b \in ToSet(class_bases[d]) : Settled(b)) => ToKeep(d)' = ToKeep(d)
  <2>1. ASSUME NEW d \in Classes, \A b \in ToSet(class_bases[d]) : Settled(b)
        PROVE  ToKeep(d)' = ToKeep(d)
    <3>1. \A b \in ToSet(class_bases[d]) : OrderOf(b)' = OrderOf(b)
      BY <1>7, <2>1
    <3>2. ToKeep(d)' = {class_bases[d]} \cup {OrderOf(b)' : b \in ToSet(class_bases[d])}
      BY <1>3 DEF ToKeep
    <3> QED
      BY <3>1, <3>2 DEF ToKeep
  <2> QED
    BY <2>1
<1>9. ASSUME NEW d \in DOMAIN memo PROVE Memoized(h, d)'
  <2>1. Memoized(h, d) /\ d \in Classes /\ memo'[d] = memo[d]
    BY <1>3, <1>4, <1>6, InvFacts
  <2>2. \A b \in ToSet(class_bases[d]) : Settled(b) /\ Settled(b)'
    BY <1>7, <2>1 DEF Memoized
  <2>3. ToKeep(d)' = ToKeep(d)
    BY <1>8, <2>1, <2>2
  <2> QED
    BY <1>3, <2>1, <2>2, <2>3 DEF Memoized
<1>10. Memoized(h, c)'
  <2>1. memo'[c] = order
    BY <1>3
  <2>2. \A b \in ToSet(class_bases[c]) : Settled(b)
    <3>1. DOMAIN class_bases[c] = 1..Len(class_bases[c])
      BY <1>4
    <3> QED
      BY <1>6, <3>1 DEF ToSet
  <2>3. ToKeep(c)' = {S[k] : k \in DOMAIN S}
    BY <1>1, <1>4, <1>8, <2>2, SourceFacts
  <2>4. \A k \in DOMAIN S : \A i \in DOMAIN S[k] : h[c] < h[S[k][i]]
    BY <1>1, <1>4, SourceFacts
  <2>5. \A k \in DOMAIN S : \A i \in DOMAIN S[k] : S[k][i] # c
    BY <1>4, <2>4
  <2>6. \A n \in DOMAIN order : h[c] <= h[order[n]]
    <3>1. ASSUME NEW n \in DOMAIN order PROVE h[c] <= h[order[n]]
      <4>1. PICK m \in Seq(Classes) : m = Top.merged
        BY <1>4
      <4>2. order[n] = c \/ \E a \in DOMAIN m : order[n] = m[a]
        <5>1. /\ Len(m) \in Nat /\ DOMAIN m = 1..Len(m) /\ DOMAIN order = 1..(1 + Len(m))
              /\ \A k \in 1..(1 + Len(m)) : order[k] = IF k <= 1 THEN <<c>>[k] ELSE m[k - 1]
          BY <1>2, <1>4, <4>1
        <5>2. CASE n = 1
          BY <5>1, <5>2
        <5>3. CASE n # 1
          <6>1. n - 1 \in DOMAIN m /\ ~(n <= 1)
            BY <3>1, <5>1, <5>3
          <6> QED
            BY <3>1, <5>1, <6>1
        <5> QED
          BY <5>2, <5>3
      <4>3. CASE order[n] = c
        BY <1>4, <4>3
      <4>4. ASSUME NEW a \in DOMAIN m, order[n] = m[a] PROVE h[c] <= h[order[n]]
        <5>1. PICK k \in DOMAIN S : \E i \in DOMAIN S[k] : m[a] = S[k][i]
          BY <1>6, <4>1 DEF MergedSoFar
        <5>2. h[c] < h[m[a]] /\ m[a] \in Classes
          BY <2>4, <4>1, <5>1
        <5> QED
          BY <1>4, <4>4, <5>2
      <4> QED
        BY <4>2, <4>3, <4>4
    <3> QED
      BY <3>1
  <2>7. ASSUME NEW rank \in Ranks(ToSet(order)), \A k \in DOMAIN S : Keeps(rank, S[k])
        PROVE  \A k \in DOMAIN S : Keeps(Places(order), S[k])
    <3> HIDE DEF S
    <3> QED
      BY <1>2, <1>3, <1>4, <1>6, <2>5, <2>7, MergeEnd
  <2>8. (\E rank \in Ranks(ToSet(order)) : \A s \in ToKeep(c)' : Keeps(rank, s))
           => \A s \in ToKeep(c)' : Keeps(Places(order), s)
    BY <2>3, <2>7
  <2> HIDE DEF S
  <2> QED
    BY <1>3, <1>6, <1>7, <2>1, <2>2, <2>6, <2>8 DEF Memoized
<1>11. /\ on_path' \in Seq(Activations) /\ Len(on_path') = Len(on_path) - 1 /\ Len(on_path) \in Nat
       /\ DOMAIN on_path' = DOMAIN on_path \ {Len(on_path)}
       /\ \A n \in DOMAIN on_path' : on_path'[n] = on_path[n] /\ n < Len(on_path)
  BY <1>3, <1>4, PathPopped
<1>12. ASSUME NEW a \in ToSet(on_path') PROVE Activated(h, a)'
  <2>1. PICK n \in DOMAIN on_path' : a = on_path'[n]
    BY DEF ToSet
  <2>2. n \in DOMAIN on_path /\ a = on_path[n] /\ n # Len(on_path)
    BY <1>11, <2>1
  <2>3. a.visited <= Len(class_bases[a.class]) /\ a.visited # Len(class_bases[a.class])
    BY <2>2 DEF MroShape
  <2>4. a.visited \in Nat /\ a.class \in Classes
    <3>1. a \in Activations
      BY <1>4, <2>2
    <3> QED
      BY <3>1 DEF Activations
  <2>5. Len(class_bases[a.class]) \in Nat
    BY <1>4, <2>4
  <2>6. a.visited < Len(class_bases[a.class])
    BY <2>3, <2>4, <2>5
  <2>7. Activated(h, a) /\ a.class # c
    <3>1. a \in ToSet(on_path) /\ Len(on_path) \in DOMAIN on_path /\ on_path[Len(on_path)].class = c
      BY <1>1, <1>3, <2>2, InvFacts, TopFacts
    <3>2. a.class # c
      BY <2>2, <3>1 DEF MroShape
    <3> QED
      BY <3>1, <3>2, InvFacts
  <2>8. /\ a.class \notin DOMAIN memo' /\ class_bases[a.class] # <<>>
        /\ \A k \in 1..a.visited : Settled(class_bases[a.class][k])
        /\ a.merged = <<>> /\ a.sequences = [k \in 1..a.visited |-> OrderOf(class_bases[a.class][k])]
    BY <1>3, <2>6, <2>7 DEF Activated
  <2>9. PICK bases : bases = class_bases[a.class]
    OBVIOUS
  <2>10. /\ \A k \in 1..a.visited : Settled(bases[k])'
         /\ a.sequences = [k \in 1..a.visited |-> OrderOf(bases[k])']
    BY <1>7, <2>8, <2>9
  <2>11. Activated(h, a)' <=>
           /\ a.class \notin DOMAIN memo' /\ bases # <<>>
           /\ \A k \in 1..a.visited : Settled(bases[k])'
           /\ IF a.visited < Len(bases)
              THEN a.merged = <<>> /\ a.sequences = [k \in 1..a.visited |-> OrderOf(bases[k])']
              ELSE MergedSoFar(Sources(a.class)', a.sequences, a.merged)
    BY <1>3, <2>9 DEF Activated
  <2> QED
    BY <2>6, <2>8, <2>9, <2>10, <2>11
<1>13. \A n, k \in DOMAIN on_path' : n < k => h[on_path'[n].class] < h[on_path'[k].class]
  BY <1>11, InvFacts
<1>14. ASSUME NEW n \in DOMAIN on_path', n # Len(on_path')
       PROVE  on_path'[n + 1].class = class_bases'[on_path'[n].class][on_path'[n].visited + 1]
  <2>1. n \in DOMAIN on_path /\ n # Len(on_path) /\ n + 1 \in DOMAIN on_path'
    BY <1>3, <1>11, <1>14, TopFacts
  <2> QED
    BY <1>3, <1>11, <2>1, InvFacts
<1>15. ASSUME on_path' # <<>>
       PROVE  \E b \in Classes : b = NextBase(Top)' /\ Settled(b)' /\ result' = OrderOf(b)'
  <2>1. PICK n : n = Len(on_path')
    OBVIOUS
  <2>2. n \in DOMAIN on_path' /\ Top' = on_path'[n]
    BY <1>11, <1>15, <2>1 DEF Top
  <2>3. n \in DOMAIN on_path /\ n # Len(on_path) /\ n + 1 = Len(on_path) /\ on_path'[n] = on_path[n]
    BY <1>11, <2>1, <2>2
  <2>4. on_path[n + 1].class = c
    BY <1>1, <1>3, <2>3, TopFacts
  <2>5. c = class_bases'[Top'.class][Top'.visited + 1]
    BY <1>3, <2>2, <2>3, <2>4, InvFacts
  <2>6. Settled(c)' /\ OrderOf(c)' = order
    BY <1>3 DEF Settled, OrderOf
  <2> QED
    BY <1>3, <1>4, <2>5, <2>6 DEF NextBase
<1>16. \A d \in DOMAIN memo' : Memoized(h, d)'
  BY <1>3, <1>9, <1>10
<1> QED
  BY <1>3, <1>12, <1>13, <1>14, <1>15, <1>16 DEF MroInv, NextBase

LEMMA LinearizeInv ==
    ASSUME MroShape, NEW h, Ascends(h), MroInv(h), Linearize
    PROVE  MroInv(h)'
  BY EnterInv, VisitInv, TakeInv, HeadInv, ReturnInv DEF Linearize

\* The linearization starts when the class tables are merged.
MroMerged ==
    /\ MroShape
    /\ merge_phase # "merged" => MroInit
    /\ \A h : Ascends(h) => MroInv(h)

LEMMA InitOrder ==
    ASSUME MroInit, class_bases \in [Classes -> Seq(Classes)]
    PROVE  MroShape /\ \A h : MroInv(h)
<1>1. DOMAIN memo = {} /\ on_path = <<>> /\ calling = Start /\ result = <<>> /\ Start \in Classes
  BY ClassesAssumption DEF MroInit
<1>2. DOMAIN on_path = {} /\ on_path \in Seq(Activations) /\ result \in Seq(Classes)
  BY <1>1
<1>3. ToSet(on_path) = {}
  BY <1>2 DEF ToSet
<1> QED
  BY <1>1, <1>2, <1>3 DEF MroShape, MroInv

LEMMA StillInitOrder ==
    ASSUME MroInit', class_bases' \in [Classes -> Seq(Classes)]
    PROVE  MroShape' /\ \A h : MroInv(h)'
<1>1. DOMAIN memo' = {} /\ on_path' = <<>> /\ calling' = Start /\ result' = <<>> /\ Start \in Classes
  BY ClassesAssumption DEF MroInit
<1>2. DOMAIN on_path' = {} /\ on_path' \in Seq(Activations) /\ result' \in Seq(Classes)
  BY <1>1
<1>3. ToSet(on_path') = {}
  BY <1>2 DEF ToSet
<1> QED
  BY <1>1, <1>2, <1>3 DEF MroShape, MroInv

LEMMA OrderStep ==
    MroMerged /\ CacheInv' /\ [MergeNext]_mergeVars => MroMerged'
<1> SUFFICES ASSUME MroMerged, CacheInv', [MergeNext]_mergeVars PROVE MroMerged'
  OBVIOUS
<1>1. MroShape /\ class_bases' \in [Classes -> Seq(Classes)]
  BY DEF MroMerged, CacheInv
<1>2. CASE LinearizeMerged
  <2>1. Linearize /\ merge_phase = "merged" /\ merge_phase' = merge_phase
    BY <1>2 DEF LinearizeMerged
  <2>2. MroShape'
    BY <1>1, <2>1, ShapeStep
  <2>3. class_bases' = class_bases
    BY <2>1 DEF Linearize, Enter, VisitBase, TakeResult, TakeHead, Return
  <2>4. ASSUME NEW h, Ascends(h)' PROVE MroInv(h)'
    <3>1. Ascends(h) /\ MroInv(h)
      BY <2>3, <2>4 DEF Ascends, MroMerged
    <3> QED
      BY <1>1, <2>1, <3>1, LinearizeInv
  <2> QED
    BY <2>1, <2>2, <2>4 DEF MroMerged
<1>3. CASE FoldDep \/ Sort \/ NextRecord \/ Truncate \/ FoldOwn
  <2>1. merge_phase # "merged" /\ UNCHANGED mroVars
    BY <1>3 DEF FoldDep, Sort, NextRecord, Truncate, FoldOwn
  <2>2. MroInit'
    BY <2>1 DEF MroMerged, MroInit, mroVars
  <2> QED
    BY <1>1, <2>2, StillInitOrder DEF MroMerged
<1>4. CASE UNCHANGED mergeVars
  <2>1. /\ UNCHANGED <<class_bases, memo, on_path, calling, result>> /\ merge_phase' = merge_phase
    BY <1>4 DEF mergeVars, mroVars
  <2>2. MroShape'
    BY <1>1, <2>1 DEF MroShape
  <2>3. ASSUME NEW h, Ascends(h)' PROVE MroInv(h)'
    <3>1. MroInv(h)
      BY <2>1, <2>3 DEF Ascends, MroMerged
    <3>2. /\ \A c : OrderOf(c)' = OrderOf(c) /\ (Settled(c)' <=> Settled(c))
          /\ \A c : Memoized(h, c)' <=> Memoized(h, c)
          /\ \A a : Activated(h, a)' <=> Activated(h, a)
      BY <2>1, SameMemo
    <3>3. Top' = Top
      BY <2>1 DEF Top
    <3> QED
      BY <2>1, <3>1, <3>2, <3>3 DEF MroInv, NextBase
  <2>4. merge_phase' # "merged" => MroInit'
    BY <2>1 DEF MroMerged, MroInit
  <2> QED
    BY <2>2, <2>3, <2>4 DEF MroMerged
<1> QED
  BY <1>2, <1>3, <1>4 DEF MergeNext, MergeDone

\* c3_linearize, on the hierarchy that any number of libraries describe: in every
\* hierarchy without a cycle, wherever some order keeps the bases' order and their
\* own linearizations, the order that is found keeps them.
THEOREM MroKeepsOrder ==
    MergeSpec => []OrderKept
<1>1. MergeInit => MroMerged
  <2> SUFFICES ASSUME MergeInit PROVE MroMerged
    OBVIOUS
  <2>1. MroInit /\ class_bases = NoBases
    BY DEF MergeInit
  <2>2. class_bases \in [Classes -> Seq(Classes)]
    BY <2>1 DEF NoBases
  <2> QED
    BY <2>1, <2>2, InitOrder DEF MroMerged
<1>2. MroMerged => OrderKept
  <2> SUFFICES ASSUME MroMerged PROVE OrderKept
    OBVIOUS
  <2>1. MroShape
    BY DEF MroMerged
  <2>2. MroTypeOK
    BY <2>1 DEF MroShape, MroTypeOK, IsInjective
  <2>3. ASSUME Acyclic PROVE \A c \in DOMAIN memo :
            (\E rank \in Ranks(ToSet(memo[c])) : \A s \in ToKeep(c) : Keeps(rank, s))
                => \A s \in ToKeep(c) : Keeps(Places(memo[c]), s)
    <3>1. PICK h \in Ranks(Classes) : \A c \in Classes : \A b \in ToSet(class_bases[c]) : h[c] < h[b]
      BY <2>3 DEF Acyclic
    <3>2. PICK N \in Nat : N = Cardinality(Classes)
      BY ClassesAssumption, FS_CardinalityType
    <3>3. h \in [Classes -> 1..N] /\ 1..N \subseteq Nat
      BY <3>1, <3>2 DEF Ranks
    <3>4. Ascends(h)
      BY <3>1, <3>3 DEF Ascends
    <3>5. \A c \in DOMAIN memo : Memoized(h, c)
      BY <3>4 DEF MroMerged, MroInv
    <3> QED
      BY <3>5 DEF Memoized
  <2> QED
    BY <2>2, <2>3 DEF OrderKept
<1>3. MergeSpec => []MroMerged
  BY <1>1, OrderStep, CacheInvHolds, PTL DEF MergeSpec
<1> QED
  BY <1>2, <1>3, PTL

=============================================================================
