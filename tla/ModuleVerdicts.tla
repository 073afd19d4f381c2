---------------------------- MODULE ModuleVerdicts ----------------------------
(***************************************************************************)
(* What the module-scope pass promises.  A module is decided once, in a    *)
(* single step, from facts of the program alone: it failed to be analysed, *)
(* or it has the errors of its own eager scopes.  When every module is     *)
(* decided, one that was analysed may receive the errors of the classes it *)
(* registers with a base that somebody walks.                              *)
(***************************************************************************)
CONSTANT Modules

VARIABLES
    failing,    \* the modules whose analysis fails
    local,      \* the errors of each module's eager scopes
    registered, \* the errors of its registrations
    decided,
    failed,
    errors      \* what a decided module has, if it did not fail

facts == <<failing, local, registered>>

Init == decided = {} /\ failed = {} /\ errors = [m \in Modules |-> {}]

Decide(m) ==
    /\ m \notin decided
    /\ decided' = decided \cup {m}
    /\ IF m \in failing
       THEN failed' = failed \cup {m} /\ errors' = errors
       ELSE failed' = failed /\ errors' = [errors EXCEPT ![m] = local[m]]
    /\ UNCHANGED facts

Register(m) ==
    /\ decided = Modules /\ m \notin failed
    /\ errors' = [errors EXCEPT ![m] = local[m] \cup registered[m]]
    /\ UNCHANGED <<facts, decided, failed>>

Next == \E m \in Modules : Decide(m) \/ Register(m)

Spec == Init /\ [][Next]_<<facts, decided, failed, errors>>

=============================================================================
