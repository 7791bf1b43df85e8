---------------------------- MODULE DescentSearch ----------------------------
(***************************************************************************)
(* What the caller of an iterative optimiser may rely on: the iterates     *)
(* improve, there are at most Cap of them, and the call ends.  Trial       *)
(* points, radii, step lengths and work counters are not visible here.     *)
(***************************************************************************)
EXTENDS Naturals

CONSTANTS
  Cap,              \* maximum_iterations
  Better(_, _)      \* an accepted objective, compared with the one before it

VARIABLES
  phase,            \* "running", "returned" or "failed"
  best,             \* the objective of the current iterate
  accepted          \* how many iterates were accepted

Init == phase = "running" /\ accepted = 0

Accept ==
  /\ phase = "running"
  /\ accepted < Cap
  /\ accepted' = accepted + 1
  /\ Better(best', best)
  /\ phase' \in {"running", "returned", "failed"}

End ==
  /\ phase = "running"
  /\ phase' \in {"returned", "failed"}
  /\ UNCHANGED <<best, accepted>>

Next == Accept \/ End

Spec == Init /\ [][Next]_<<phase, best, accepted>> /\ <>(phase # "running")
=============================================================================
