---------------------------------- MODULE Mro ----------------------------------
(***************************************************************************)
(* The method resolution order of src/mro.rs: linearize's recursion, with  *)
(* its memo and its guard against inheritance cycles, as a stack of        *)
(* activations, and c3_merge's loop, one head at a time.  The hierarchy    *)
(* comes from the merged caches (CacheMerge); these steps leave it alone.  *)
(***************************************************************************)
EXTENDS Naturals, SequencesExt

CONSTANTS
    Classes, NoClass,
    Start       \* the class whose order is asked for

ASSUME ClassesAssumption == IsFiniteSet(Classes) /\ Start \in Classes /\ NoClass \notin Classes

VARIABLES
    class_bases,
    memo,
    on_path,  \* activations: a class, its bases' sequences, and what is merged
    calling,  \* the class linearize has just been called on
    result    \* what it has just returned

mroVars == <<memo, on_path, calling, result>>

MroInit ==
    /\ memo = [c \in {} |-> <<>>]
    /\ on_path = <<>>
    /\ calling = Start /\ result = <<>>

Top == on_path[Len(on_path)]

WithTop(activation) == [on_path EXCEPT ![Len(on_path)] = activation]

OnPath(c) == \E n \in DOMAIN on_path : on_path[n].class = c

\* The calls that return at once.
EndsHere(c) == c \in DOMAIN memo \/ OnPath(c) \/ class_bases[c] = <<>>

Enter ==
    /\ calling # NoClass
    /\ IF EndsHere(calling)
       THEN /\ result' = IF calling \in DOMAIN memo THEN memo[calling] ELSE <<calling>>
            /\ UNCHANGED on_path
       ELSE /\ on_path' = Append(on_path, [class |-> calling, visited |-> 0, sequences |-> <<>>, merged |-> <<>>])
            /\ UNCHANGED result
    /\ calling' = NoClass
    /\ UNCHANGED <<class_bases, memo>>

VisitBase ==
    /\ calling = NoClass /\ result = <<>> /\ on_path # <<>>
    /\ LET bases == class_bases[Top.class]
       IN  /\ Top.visited < Len(bases)
           /\ calling' = bases[Top.visited + 1]
    /\ UNCHANGED <<class_bases, memo, on_path, result>>

\* The base's linearization; with the last one, the bases themselves.
TakeResult ==
    /\ result # <<>> /\ on_path # <<>>
    /\ LET bases == class_bases[Top.class]
           sequences == Append(Top.sequences, result)
       IN  on_path' = WithTop([Top EXCEPT
               !.visited = @ + 1,
               !.sequences = IF Top.visited + 1 = Len(bases) THEN Append(sequences, bases) ELSE sequences])
    /\ result' = <<>>
    /\ UNCHANGED <<class_bases, memo, calling>>

Merging == calling = NoClass /\ result = <<>> /\ on_path # <<>> /\ Top.visited = Len(class_bases[Top.class])

\* The sequences that are not used up.  The others, which the code drops
\* (retain), keep their places here.
Left(sequences) == {n \in DOMAIN sequences : sequences[n] # <<>>}

\* Faulty variant: the first head there is.
NextHeadFirst(sequences) == Head(sequences[Min(Left(sequences))])

\* The first head that is in no tail, or else the first head.
NextHead(sequences) ==
    LET left == Left(sequences)
        free == {n \in left : \A k \in left : ~Contains(Tail(sequences[k]), Head(sequences[n]))}
    IN  Head(sequences[Min(IF free = {} THEN left ELSE free)])

WithoutHead(sequences, head) ==
    [n \in DOMAIN sequences |->
        IF n \in Left(sequences) /\ Head(sequences[n]) = head THEN Tail(sequences[n]) ELSE sequences[n]]

\* One turn of c3_merge.  A head that was forced may come again and is kept once.
TakeHead ==
    /\ Merging /\ Left(Top.sequences) # {}
    /\ LET head == NextHead(Top.sequences)
       IN  on_path' = WithTop([Top EXCEPT
               !.sequences = WithoutHead(@, head),
               !.merged = IF head = Top.class \/ Contains(@, head) THEN @ ELSE Append(@, head)])
    /\ UNCHANGED <<class_bases, memo, calling, result>>

Return ==
    /\ Merging /\ Left(Top.sequences) = {}
    /\ LET order == <<Top.class>> \o Top.merged
       IN  /\ result' = order
           /\ memo' = [c \in DOMAIN memo \cup {Top.class} |-> IF c = Top.class THEN order ELSE memo[c]]
    /\ on_path' = Front(on_path)
    /\ UNCHANGED <<class_bases, calling>>

Linearize == Enter \/ VisitBase \/ TakeResult \/ TakeHead \/ Return

Linearized == on_path = <<>> /\ result # <<>>

-----------------------------------------------------------------------------
(* Properties.                                                              *)

\* Type invariant.
MroTypeOK ==
    /\ calling \in Classes \cup {NoClass} /\ calling # NoClass => result = <<>>
    /\ IsInjective([n \in DOMAIN on_path |-> on_path[n].class])
    /\ \A n \in DOMAIN on_path : on_path[n].visited <= Len(class_bases[on_path[n].class])

\* The classes inherited from, over any number of generations.
Inherited ==
    LET up[k \in Nat] == IF k = 0 THEN {Start}
                         ELSE LET below == up[k - 1]
                              IN  below \cup UNION {ToSet(class_bases[c]) : c \in below}
    IN  up[Cardinality(Classes)]

\* Every class inherited from is there once and the class itself comes first, in
\* cycles and where Python would reject the hierarchy, too ("terminates by forcing
\* progress", mro.rs): a lost ancestor would hide the method it defines.
NobodyLost ==
    Linearized => ToSet(result) = Inherited /\ IsInjective(result) /\ Head(result) = Start

\* The places of a sequence's elements.
Places(order) == [x \in ToSet(order) |-> CHOOSE n \in DOMAIN order : order[n] = x]

\* Numbers for the members of a finite set.
Ranks(S) == [S -> 1..Cardinality(S)]

\* A sequence ascends in these numbers.
Keeps(rank, s) == \A m, n \in DOMAIN s : m < n => rank[s[m]] < rank[s[n]]

OrderOf(c) == IF c \in DOMAIN memo THEN memo[c] ELSE <<c>>

\* What the linearization of a class has to keep.
ToKeep(c) == {class_bases[c]} \cup {OrderOf(b) : b \in ToSet(class_bases[c])}

Acyclic ==
    \E rank \in Ranks(Classes) : \A c \in Classes : \A b \in ToSet(class_bases[c]) : rank[c] < rank[b]

\* "Matching CPython's method resolution order" (mro.rs): wherever some order
\* keeps the bases' order and their own linearizations, so does the one that is
\* found. Type correct.
OrderKept ==
    /\ MroTypeOK
    /\ Linearized /\ Acyclic =>
        \A c \in DOMAIN memo :
            (\E rank \in Ranks(ToSet(memo[c])) : \A s \in ToKeep(c) : Keeps(rank, s))
                => \A s \in ToKeep(c) : Keeps(Places(memo[c]), s)

=============================================================================
