------------------------------ MODULE Resolution ------------------------------
(***************************************************************************)
(* Cross-library resolution of recoverable verdicts (resolution.rs): the   *)
(* cached mutation candidates are confirmed or discharged, then functions  *)
(* that wait for a missing dependency are promoted round by round.  The    *)
(* whole-program analysis and the incremental reduce both run it.          *)
(*                                                                         *)
(* Candidates and candidates' modules arrive in the iteration order of a   *)
(* hash map, so each phase applies them in any order.  Decisions of a phase*)
(* are taken in parallel against one frozen state, hence in one step.      *)
(***************************************************************************)
EXTENDS Naturals, FiniteSets

CONSTANTS
    Functions,   \* the (module, local name) keys of the merged verdict map
    Modules,
    Externals,   \* callee names that split at no entry of the map
    Unqualified, \* callee names that split at no module at all
    NoName,      \* the site of a module-scope candidate
    Libraries    \* the merged facts that may be resolved

Refs == Functions \cup Externals \cup Unqualified

Bits == {"IfImported", "MissingDep", "Unsafe"}

Infos == [verdict : SUBSET Bits, missing : SUBSET Refs]

\* mutates: the candidate's imported argument reaches a parameter that the
\* callee mutates.  mutated_params are never written by the resolution, so this
\* is a fact of the candidate.
Candidates == [module : Modules, site : Functions \cup {NoName}, callee : Refs, mutates : BOOLEAN]

ASSUME NamesAssumption ==
    /\ NoName \notin Functions
    /\ Functions \cap (Externals \cup Unqualified) = {}
    /\ Externals \cap Unqualified = {}

\* home: the module of an entry.  same_name: the entries whose local name an
\* unqualified callee spells.
ASSUME LibrariesAssumption ==
    \A l \in Libraries :
        /\ l.home \in [Functions -> Modules]
        /\ l.safety \in [Functions -> Infos]
        /\ l.same_name \in [Unqualified -> SUBSET Functions]
        /\ l.candidates \subseteq Candidates

VARIABLES
    lib,            \* the merged facts, never written
    stage,
    todo,           \* candidates still to be applied in this stage
    safety,         \* the verdict map
    errors,         \* module-scope errors reported
    waiting,        \* the promotion candidates
    promoted,
    globally_safe,          \* unqualified names with a safe entry
    globally_if_imported    \* unqualified names with an if-imported entry

vars == <<lib, stage, todo, safety, errors, waiting, promoted, globally_safe, globally_if_imported>>

-----------------------------------------------------------------------------
\* Faulty variant: the last dependency takes the whole verdict with it.
DischargedToSafe(info, callee) ==
    LET missing == info.missing \ {callee} IN
    [verdict |-> IF missing = {} THEN {} ELSE info.verdict, missing |-> missing]

\* Remove a callee from the missing dependencies, and the bit with the last one.
Discharged(info, callee) ==
    LET missing == info.missing \ {callee} IN
    [verdict |-> IF missing = {} THEN info.verdict \ {"MissingDep"} ELSE info.verdict,
     missing |-> missing]

\* apply_confirmed_candidate on a function: hard Unsafe, dependency discharged.
Confirmed(info, callee) ==
    Discharged([verdict |-> info.verdict \cup {"Unsafe"}, missing |-> info.missing], callee)

\* callee_resolves_unsafe; a name that resolves to nothing blocks nobody.
CalleeResolvesUnsafe(r) == r \in Functions /\ safety[r].verdict # {}

\* collect_promotion_candidates
PromotionCandidates ==
    {f \in Functions : /\ "MissingDep" \in safety[f].verdict
                       /\ "Unsafe" \notin safety[f].verdict
                       /\ safety[f].missing # {}}

Base(f) == safety[f].verdict \ {"MissingDep"}

NamesOf(fs) == {u \in Unqualified : lib.same_name[u] \cap fs # {}}

SafeEntries == {f \in Functions : safety[f].verdict = {}}
IfImportedEntries == {f \in Functions : safety[f].verdict = {"IfImported"}}

\* Faulty variant: a callee that is waiting itself does not block.
NonBlockingWaiting(r) ==
    CASE r \in Functions   -> safety[r].verdict \subseteq {"IfImported", "MissingDep"}
      [] r \in Unqualified -> r \in globally_safe \cup globally_if_imported
      [] OTHER             -> FALSE

\* resolve_callee_verdict: the bits a callee hands to its caller, if it does not
\* block it.
NonBlocking(r) ==
    CASE r \in Functions   -> safety[r].verdict \subseteq {"IfImported"}
      [] r \in Unqualified -> r \in globally_safe \cup globally_if_imported
      [] OTHER             -> FALSE

HandedOn(r) ==
    CASE r \in Functions   -> safety[r].verdict
      [] r \in Unqualified -> IF r \in globally_safe THEN {} ELSE {"IfImported"}
      [] OTHER             -> {}

\* Faulty variant: any one dependency is enough.
ToPromoteOnOne == {f \in waiting \ promoted : \E r \in safety[f].missing : NonBlocking(r)}

ToPromote == {f \in waiting \ promoted : \A r \in safety[f].missing : NonBlocking(r)}

Target(f) == Base(f) \cup UNION {HandedOn(r) : r \in safety[f].missing}

-----------------------------------------------------------------------------
Init ==
    /\ lib \in Libraries
    /\ stage = "confirm"
    /\ todo = {c \in lib.candidates : c.mutates}
    /\ safety = lib.safety
    /\ errors = {} /\ waiting = {} /\ promoted = {}
    /\ globally_safe = {} /\ globally_if_imported = {}

Confirm(c) ==
    /\ stage = "confirm" /\ c \in todo
    /\ todo' = todo \ {c}
    /\ \/ /\ c.site = NoName
          /\ errors' = errors \cup {<<c.module, c.callee>>}
          /\ UNCHANGED safety
       \/ /\ c.site # NoName
          /\ safety' = [safety EXCEPT ![c.site] = Confirmed(@, c.callee)]
          /\ UNCHANGED errors
    /\ UNCHANGED <<lib, stage, waiting, promoted, globally_safe, globally_if_imported>>

\* Faulty variant: the verdict of the callee is not looked at.
DischargesUnsafe == {c \in lib.candidates : ~c.mutates /\ c.site # NoName}

\* The discharges are decided for all candidates at once, after the last
\* confirmation.
Discharges ==
    {c \in lib.candidates : ~c.mutates /\ c.site # NoName /\ ~CalleeResolvesUnsafe(c.callee)}

DecideDischarges ==
    /\ stage = "confirm" /\ todo = {}
    /\ stage' = "discharge"
    /\ todo' = Discharges
    /\ UNCHANGED <<lib, safety, errors, waiting, promoted, globally_safe, globally_if_imported>>

Discharge(c) ==
    /\ stage = "discharge" /\ c \in todo
    /\ todo' = todo \ {c}
    /\ safety' = [safety EXCEPT ![c.site] = Discharged(@, c.callee)]
    /\ UNCHANGED <<lib, stage, errors, waiting, promoted, globally_safe, globally_if_imported>>

\* The promotion candidates and the indices of unqualified names.
Collect ==
    /\ stage = "discharge" /\ todo = {}
    /\ stage' = "promote"
    /\ waiting' = PromotionCandidates
    /\ globally_safe' = NamesOf(SafeEntries)
    /\ globally_if_imported' = NamesOf(IfImportedEntries)
    /\ UNCHANGED <<lib, todo, safety, errors, promoted>>

\* One round: decide on the frozen state, then commit together.
Promote ==
    /\ stage = "promote" /\ ToPromote # {}
    /\ safety' = [f \in Functions |->
          IF f \in ToPromote THEN [verdict |-> Target(f), missing |-> safety[f].missing]
          ELSE safety[f]]
    /\ globally_safe' = globally_safe \cup NamesOf({f \in ToPromote : Target(f) = {}})
    /\ globally_if_imported' =
          globally_if_imported \cup NamesOf({f \in ToPromote : Target(f) = {"IfImported"}})
    /\ promoted' = promoted \cup ToPromote
    /\ UNCHANGED <<lib, stage, todo, errors, waiting>>

Finish ==
    /\ stage = "promote" /\ ToPromote = {}
    /\ stage' = "done"
    /\ UNCHANGED <<lib, todo, safety, errors, waiting, promoted, globally_safe, globally_if_imported>>

Done == stage = "done" /\ UNCHANGED vars

Step ==
    \/ \E c \in todo : Confirm(c) \/ Discharge(c)
    \/ DecideDischarges \/ Collect \/ Promote \/ Finish

Next == Step \/ Done

Spec == Init /\ [][Next]_vars

-----------------------------------------------------------------------------
(* Properties.                                                              *)

\* Type invariant.
TypeOK ==
    /\ stage \in {"confirm", "discharge", "promote", "done"}
    /\ todo \subseteq lib.candidates
    /\ safety \in [Functions -> Infos]
    /\ errors \subseteq Modules \X Refs
    /\ promoted \subseteq waiting /\ waiting \subseteq Functions
    /\ globally_safe \subseteq Unqualified /\ globally_if_imported \subseteq Unqualified

\* The candidates of a function that were confirmed; the callees the second
\* phase discharges are the ones that are not unsafe once all confirmations
\* are in.
ConfirmedAt(f) == {c.callee : c \in {x \in lib.candidates : x.site = f /\ x.mutates}}

UnsafeAfterConfirm(r) ==
    /\ r \in Functions
    /\ \/ ConfirmedAt(r) # {}
       \/ lib.safety[r].verdict # {}

DischargedAt(f) ==
    {c.callee : c \in {x \in lib.candidates :
                         x.site = f /\ ~x.mutates /\ ~UnsafeAfterConfirm(x.callee)}}

\* What applying these candidates, in any order, makes of the entry of f.
Applied(f, confirmed, discharged) ==
    LET gone == confirmed \cup discharged
        missing == lib.safety[f].missing \ gone
    IN  [verdict |-> (lib.safety[f].verdict
                        \ (IF gone # {} /\ missing = {} THEN {"MissingDep"} ELSE {}))
                     \cup (IF confirmed # {} THEN {"Unsafe"} ELSE {}),
         missing |-> missing]

\* The two phases give every function the entry that its candidates determine,
\* whatever the order in which they were applied: a confirmation anywhere blocks
\* the discharge of its callers.
CandidatesExact ==
    stage = "promote" /\ promoted = {} =>
        \A f \in Functions : safety[f] = Applied(f, ConfirmedAt(f), DischargedAt(f))

\* A promoted function waits for nothing that blocks it, however many rounds ran
\* after it was promoted.
PromotionSound == \A f \in promoted : \A r \in safety[f].missing : NonBlocking(r)

\* Promotion goes as far as it can.
PromotionComplete ==
    stage = "done" =>
        \A f \in PromotionCandidates : \E r \in safety[f].missing : ~NonBlocking(r)

\* The promoted functions are a fixpoint of the promotion.
PromotionExact == PromotionSound /\ PromotionComplete

\* Functions that wait for one another are not promoted on each other's account.
NoSelfJustification ==
    \A S \in SUBSET waiting :
        (\A f \in S : \E r \in safety[f].missing : r \in S) => S \cap promoted = {}

\* The indices of unqualified names, updated round by round, are the ones a
\* rescan of the map would give.
IndicesFresh ==
    stage \in {"promote", "done"} =>
        /\ globally_safe = NamesOf(SafeEntries)
        /\ globally_if_imported = NamesOf(IfImportedEntries)

\* Hard unsafety is never withdrawn.
UnsafeIsKept ==
    [][\A f \in Functions : "Unsafe" \in safety[f].verdict => "Unsafe" \in safety'[f].verdict]_vars

=============================================================================
