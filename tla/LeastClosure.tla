---------------------------- MODULE LeastClosure ----------------------------
(***************************************************************************)
(* What a worklist promises.  Facts follow from a base by rules <<f, g>>,  *)
(* "g follows from f".  A process that adds facts in any order, each one   *)
(* from the base or by a rule, and says it is done only when nothing more  *)
(* follows, has found exactly the least set of facts the rules close.      *)
(***************************************************************************)
VARIABLES base, rules, known, done

closure_vars == <<base, rules, known, done>>

Follows(S) == base \cup {r[2] : r \in {q \in rules : q[1] \in S}}

Closed(S) == Follows(S) \subseteq S

ClosureInit ==
    /\ known \subseteq base
    /\ done = FALSE

Derive ==
    /\ ~done
    /\ known \subseteq known' /\ known' \subseteq known \cup Follows(known)
    /\ UNCHANGED <<base, rules, done>>

Stop ==
    /\ ~done /\ Closed(known)
    /\ done' = TRUE
    /\ UNCHANGED <<base, rules, known>>

ClosureNext == Derive \/ Stop

ClosureSpec == ClosureInit /\ [][ClosureNext]_closure_vars

\* Nothing is known without a derivation: a set of known facts that has what
\* follows from it among them has them all.
Grounded == \A S \in SUBSET known : Follows(S) \cap known \subseteq S => S = known

\* In the end everything that follows is known.
Complete == done => Closed(known)

Least == Grounded /\ Complete

=============================================================================
