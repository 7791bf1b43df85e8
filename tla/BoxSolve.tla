------------------------------ MODULE BoxSolve ------------------------------
(***************************************************************************)
(* What a caller of the box-constrained solver may rely on, without active *)
(* sets or iterations: one call, one final result.  The result either is   *)
(* declared converged and is a first-order point of the box problem, or    *)
(* names the reason why nothing is claimed about it.                       *)
(***************************************************************************)
CONSTANTS
  Reasons,           \* the stopping reasons that claim nothing
  Good(_),           \* the first-order conditions of an answer
  NoAnswer           \* no result yet

VARIABLES outcome, answer

Init == outcome = "pending" /\ answer = NoAnswer

Return ==
  /\ outcome = "pending"
  /\ \/ outcome' = "converged" /\ Good(answer')
     \/ outcome' \in Reasons

Next == Return

Spec == Init /\ [][Next]_<<outcome, answer>> /\ <>(outcome # "pending")
=============================================================================
