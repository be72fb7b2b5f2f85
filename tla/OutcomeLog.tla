----------------------------- MODULE OutcomeLog -----------------------------
(***************************************************************************)
(* What spec section 7 promises of the operator's actions that reach the   *)
(* backend: each one is issued once, its outcome is caught and reported    *)
(* once, and it is never retried automatically.  An action is named by     *)
(* its number; "pending" are those issued and not yet reported, "done"     *)
(* those reported.                                                         *)
(***************************************************************************)

CONSTANT Ids      \* the numbers actions may carry

VARIABLES
    pending,      \* issued, outcome not yet reported
    done          \* outcome reported

\* An action never issued before is issued.
Begin(i) ==
    /\ i \notin pending \cup done
    /\ pending' = pending \cup {i}
    /\ done' = done

\* A pending action's outcome, success or failure, is reported.
Finish(i) ==
    /\ i \in pending
    /\ pending' = pending \ {i}
    /\ done' = done \cup {i}

Init == pending = {} /\ done = {}

Next == \E i \in Ids : Begin(i) \/ Finish(i)

Spec == Init /\ [][Next]_<<pending, done>>

=============================================================================
