-------------------------------- MODULE Reduce --------------------------------
(***************************************************************************)
(* The end of a reduce (src/cache/reduce.rs): errors that the libraries    *)
(* recorded are cleared where the merged facts show the callee safe        *)
(* (src/safety_resolver.rs), once before the resolution of Resolution.tla  *)
(* and once after it, module by module in parallel.                        *)
(*                                                                         *)
(* A library's facts gain its cached errors; resolved, the modules its     *)
(* missing imports are found to name; nested, what a decorator runs beside *)
(* itself; and recorded, the constructors of a class.  Inherited methods   *)
(* are left out.                                                           *)
(***************************************************************************)
EXTENDS Resolution

BoundCalls == {"UnsafeFunctionCall", "UnsafeMethodCall"}

Kinds == BoundCalls \cup {"UnsafeDecoratorCall", "UnknownDecoratorCall",
                          "UnknownFunctionCall", "UnknownMethodCall"}

CachedErrors ==
    {e \in [caller : Modules, kind : Kinds, parameterized : BOOLEAN, callee : Refs] :
        e.parameterized => e.kind \in {"UnsafeDecoratorCall", "UnknownDecoratorCall"}}

\* No cached entry holds dependencies that its verdict does not wait for, which
\* NoStaleCallees of ModulePass shows of the entries that leave an analysis.
ASSUME ReduceAssumption ==
    \A l \in Libraries :
        /\ l.cached_errors \subseteq CachedErrors
        /\ l.resolved \in [Modules -> SUBSET Modules]
        /\ l.nested \in [Functions -> SUBSET Functions]
        /\ l.recorded \in [Functions -> SUBSET Refs]
        /\ \A f \in Functions : l.safety[f].missing # {} => "MissingDep" \in l.safety[f].verdict

VARIABLES
    pass,          \* "early", "resolve", "final" or "end"
    modules_left,  \* the modules the pass has left
    remaining      \* the errors that were not cleared

reduce_vars == <<vars, pass, modules_left, remaining>>

-----------------------------------------------------------------------------
(* What the facts of a set of modules verify.                               *)

\* Faulty variant: what is only waiting counts as safe.
SafeInUnlessUnsafe(f, modules) == lib.home[f] \in modules /\ "Unsafe" \notin safety[f].verdict

\* qualified_safe: the module is among them and its entry is safe.
SafeIn(f, modules) == lib.home[f] \in modules /\ safety[f].verdict = {}

DecoratorSafeIn(f, modules) ==
    SafeIn(f, modules) /\ \A g \in lib.nested[f] : safety[g].verdict = {}

\* recorded_constructor_clears: none decides if none is recorded.
HasRecord(e) ==
    /\ e.kind \notin {"UnsafeMethodCall", "UnknownMethodCall"}
    /\ e.callee \in Functions /\ lib.recorded[e.callee] # {}

RecordClears(e, modules) ==
    \A r \in lib.recorded[e.callee] :
        /\ r \in Functions /\ lib.home[r] \in modules
        /\ \/ safety[r].verdict = {}
           \/ safety[r].verdict = {"IfImported"} /\ lib.home[r] = e.caller

\* is_error_verified_safe; safe_names are the safe unqualified names.
VerifiedSafe(e, modules, safe_names) ==
    IF e.parameterized
    THEN \/ e.callee \in Functions /\ DecoratorSafeIn(e.callee, modules)
         \/ /\ e.kind = "UnsafeDecoratorCall" /\ e.callee \in Unqualified
            /\ \E f \in lib.same_name[e.callee] : DecoratorSafeIn(f, modules)
    ELSE \/ e.callee \in Functions /\ SafeIn(e.callee, modules)
         \/ e.kind \in BoundCalls \cup {"UnsafeDecoratorCall"} /\ e.callee \in safe_names

\* Without an index the modules are scanned.
SafeNamesIn(modules) == {u \in Unqualified : \E f \in lib.same_name[u] : SafeIn(f, modules)}

ClearsEarly(e) ==
    LET modules == lib.resolved[e.caller]
    IN  IF HasRecord(e) THEN RecordClears(e, modules)
        ELSE VerifiedSafe(e, modules, SafeNamesIn(modules))

\* The merged verdict of the caller's own module, unless it took a promotion.
OwnModule(e) ==
    /\ e.kind \in BoundCalls /\ e.callee \in Functions
    /\ lib.home[e.callee] = e.caller /\ e.callee \notin promoted

\* is_resolved_error_verified_safe
ClearsFinally(e) ==
    IF HasRecord(e) THEN RecordClears(e, Modules)
    ELSE IF e.kind = "UnsafeDecoratorCall" \/ e.callee \in Unqualified \/ OwnModule(e)
    THEN VerifiedSafe(e, Modules, globally_safe)
    ELSE VerifiedSafe(e, lib.resolved[e.caller], globally_safe)

ErrorsOf(m) == {e \in remaining : e.caller = m}

-----------------------------------------------------------------------------
ReduceInit ==
    /\ Init
    /\ pass = "early" /\ modules_left = Modules
    /\ remaining = lib.cached_errors

\* retain_unverified_errors on a module some of whose imports were resolved.
ClearEarly(m) ==
    /\ pass = "early" /\ m \in modules_left
    /\ remaining' = remaining \ {e \in ErrorsOf(m) : ClearsEarly(e)}
    /\ modules_left' = modules_left \ {m}
    /\ UNCHANGED <<vars, pass>>

BeginResolution ==
    /\ pass = "early" /\ modules_left = {}
    /\ pass' = "resolve"
    /\ UNCHANGED <<vars, modules_left, remaining>>

\* resolve_program
Resolve ==
    /\ pass = "resolve" /\ Step
    /\ UNCHANGED <<pass, modules_left, remaining>>

BeginFinal ==
    /\ pass = "resolve" /\ stage = "done"
    /\ pass' = "final" /\ modules_left' = Modules
    /\ UNCHANGED <<vars, remaining>>

\* finalize_resolution, one module.
ClearFinally(m) ==
    /\ pass = "final" /\ m \in modules_left
    /\ remaining' = remaining \ {e \in ErrorsOf(m) : ClearsFinally(e)}
    /\ modules_left' = modules_left \ {m}
    /\ UNCHANGED <<vars, pass>>

End ==
    /\ pass = "final" /\ modules_left = {}
    /\ pass' = "end"
    /\ UNCHANGED <<vars, modules_left, remaining>>

Ended == pass = "end" /\ UNCHANGED reduce_vars

ReduceNext ==
    \/ \E m \in Modules : ClearEarly(m) \/ ClearFinally(m)
    \/ BeginResolution \/ Resolve \/ BeginFinal \/ End \/ Ended

ReduceSpec == ReduceInit /\ [][ReduceNext]_reduce_vars /\ WF_reduce_vars(ReduceNext)

-----------------------------------------------------------------------------
(* Properties.                                                              *)

\* Type invariant.
ReduceTypeOK ==
    /\ TypeOK
    /\ pass \in {"early", "resolve", "final", "end"}
    /\ modules_left \subseteq IF pass \in {"resolve", "end"} THEN {} ELSE Modules
    /\ remaining \subseteq lib.cached_errors

\* A function with a passing entry and a candidate that is confirmed: a safelisted
\* one, or a class whose body is a candidate's site while its entry is the verdict
\* of the constructors.  Clearing early is before the confirmation.
Overtaken(f) == lib.safety[f].verdict \subseteq {"IfImported"} /\ ConfirmedAt(f) # {}

\* The functions whose entries decide about an error: the recorded constructors or
\* those its callee may name, and what these run beside themselves as decorators.
Asked(e) ==
    IF HasRecord(e) THEN lib.recorded[e.callee]
    ELSE IF e.callee \in Unqualified THEN lib.same_name[e.callee] ELSE {e.callee}

Runs(e) ==
    Asked(e) \cup IF e.parameterized /\ ~HasRecord(e)
                  THEN UNION {lib.nested[f] : f \in Asked(e) \cap Functions} ELSE {}

\* The two passes part only where a passing entry is overtaken: any other error
\* that is cleared before the resolution would be cleared after it, no scope the
\* early pass uses being wider than the final one; and one that remains would not.
EarlyAgrees ==
    pass = "end" =>
        \A e \in lib.cached_errors :
            IF e \in remaining THEN ~ClearsFinally(e)
            ELSE ClearsFinally(e) \/ \E f \in Runs(e) \cap Functions : Overtaken(f)

EarlyIsFinal == <>[](pass = "end" /\ EarlyAgrees)

\* A function is blameless if the libraries recorded nothing against it but calls
\* they could not see, none of which turned out to change an imported variable or
\* to be unsafe.
Blameless(f) ==
    /\ lib.safety[f].verdict \subseteq {"MissingDep"}
    /\ \A c \in lib.candidates : c.site = f => ~c.mutates
    /\ \A r \in lib.safety[f].missing :
          \/ NonBlocking(r)
          \/ r \notin Functions /\ \E c \in lib.candidates : c.site = f /\ c.callee = r

\* A good reason to clear an error that names a function or class: all it runs is
\* blameless, or a constructor at home where the error is.
Excused(e) ==
    IF HasRecord(e)
    THEN \A r \in lib.recorded[e.callee] :
            \/ Blameless(r)
            \/ lib.home[r] = e.caller /\ safety[r].verdict = {"IfImported"}
    ELSE /\ Blameless(e.callee)
         /\ e.parameterized => \A g \in lib.nested[e.callee] : Blameless(g)

\* The libraries' own record was a good reason: they found all it runs safe, or a
\* constructor at home where the error is, in modules that are imported there; but
\* one of these entries is overtaken.
ClearedTooEarly(e) ==
    /\ Runs(e) \subseteq Functions
    /\ \A f \in Asked(e) : lib.home[f] \in lib.resolved[e.caller]
    /\ \A f \in Runs(e) :
          \/ lib.safety[f].verdict = {}
          \/ HasRecord(e) /\ lib.home[f] = e.caller /\ lib.safety[f].verdict = {"IfImported"}
    /\ \E f \in Runs(e) : Overtaken(f)

\* Type correct and with indices of unqualified names that are never stale; and in
\* the end an error that names a function or class is cleared only with a good
\* reason, or too early.
ClearedJustified ==
    /\ ReduceTypeOK /\ IndicesFresh
    /\ pass = "end" =>
          \A e \in lib.cached_errors \ remaining :
              e.callee \in Functions => Excused(e) \/ ClearedTooEarly(e)

=============================================================================
