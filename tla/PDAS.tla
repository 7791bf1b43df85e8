-------------------------------- MODULE PDAS --------------------------------
(***************************************************************************)
(* The primal-dual active-set solver of include/nmopt/contract/pdas.hpp    *)
(* with the box complementarity of include/nmopt/contract/                 *)
(* complementarity.hpp.                                                    *)
(*                                                                         *)
(* A control u is one integer per coefficient, the box multiplier mu is a  *)
(* covector on the same coefficients, and the Riesz map G^-1 that turns mu *)
(* into its primal representative is diagonal (the deal.II realisation     *)
(* demands a positive diagonal metric).  The equality-constrained KKT      *)
(* problem of one active set is solved by an injected callback: here it    *)
(* returns any point of KKTSolutions, described by what the solver looks   *)
(* at -- the control, the control block of the base stationarity residual, *)
(* the squared norm of its other blocks, the norm of the equality residual *)
(* and whether the callback reports convergence.                           *)
(***************************************************************************)
EXTENDS Integers, FiniteSetsExt

CONSTANTS
  Controls,                     \* the coefficients of the control block
  Lower, Upper,                 \* BoxBoundsT: one bound per coefficient
  Riesz,                        \* the diagonal of G^-1
  C,                            \* policy.classification_parameter
  MaximumIterations,            \* policy.maximum_iterations
  PrimalTolerance, DualTolerance, ComplementarityTolerance,
  StationarityTolerance, EqualityTolerance,
  HasOtherBlocks,               \* the KKT product has a block besides the control
  ControlValues,                \* values a caller or a KKT solve gives a coefficient
  Forces,                       \* values of a control stationarity coefficient
  OtherResiduals,               \* residual norms outside the control block
  KKTTolerance                  \* the residual a converged KKT callback may leave

\* BoxBoundsT and valid(PDASPolicy) refuse anything else.  The code's tolerances
\* are positive reals; in integer units 0 stands for one below the unit.
ASSUME BoundsAssumption ==
  /\ Lower \in [Controls -> Int] /\ Upper \in [Controls -> Int]
  /\ \A i \in Controls : Lower[i] <= Upper[i]
ASSUME RieszAssumption == Riesz \in [Controls -> Nat \ {0}]
ASSUME PolicyAssumption ==
  /\ C \in Nat \ {0}
  /\ MaximumIterations \in Nat \ {0}
  /\ PrimalTolerance \in Nat /\ DualTolerance \in Nat
  /\ ComplementarityTolerance \in Nat
  /\ StationarityTolerance \in Nat /\ EqualityTolerance \in Nat
ASSUME DataAssumption ==
  /\ HasOtherBlocks \in BOOLEAN
  /\ ControlValues \subseteq Int /\ Forces \subseteq Int
  /\ OtherResiduals \subseteq Nat /\ KKTTolerance \in Nat

VARIABLES
  status,      \* "called", "iterating", a PDASStoppingReason, or "contract_error"
  iteration,   \* the number of iteration reports
  control,     \* the control block of `current`
  multiplier,  \* current_box_multiplier
  selection,   \* the active set the next subproblem is built from
  report,      \* the last PDASIterationReport
  kkt          \* what the last KKT solve returned

vars == <<status, iteration, control, multiplier, selection, report, kkt>>

Activity == {"lower", "inactive", "upper"}
Control  == [Controls -> Int]
StoppingReason == {"converged", "maximum_iterations", "kkt_solve_failed"}
Finished == StoppingReason \cup {"contract_error"}

AbsInt(x) == IF x < 0 THEN -x ELSE x
Positive(x) == IF x > 0 THEN x ELSE 0    \* std::max(x, 0.0)
Negative(x) == IF x < 0 THEN x ELSE 0    \* std::min(x, 0.0)

-----------------------------------------------------------------------------
(* Bounds, multiplier representation, classification.                      *)

IsFeasible(u) == \A i \in Controls : u[i] \in Lower[i] .. Upper[i]

ToPrimal(mu) == [i \in Controls |-> Riesz[i] * mu[i]]

\* Faulty variant: the multiplier alone decides, the distance to the bound is
\* forgotten.
ClassifyBySign(u, mu) ==
  [i \in Controls |-> IF ToPrimal(mu)[i] > 0 THEN "upper"
                      ELSE IF ToPrimal(mu)[i] < 0 THEN "lower"
                      ELSE "inactive"]

Classify(u, mu) ==
  [i \in Controls |->
     LET m == ToPrimal(mu)[i] IN
     IF m + C * (u[i] - Upper[i]) > 0 THEN "upper"
     ELSE IF m + C * (u[i] - Lower[i]) < 0 THEN "lower"
     ELSE "inactive"]

Free(sel) == {i \in Controls : sel[i] = "inactive"}

-----------------------------------------------------------------------------
(* The restricted KKT problem of one active set.                           *)

\* ActiveSetKKTSubproblemT cannot be built without any block left.
Restrictable(sel) == Free(sel) # {} \/ HasOtherBlocks

\* to_base_point: the free coefficients of the solve, the bounds of the others.
Prolong(sel, free) ==
  [i \in Controls |-> CASE sel[i] = "upper"    -> Upper[i]
                        [] sel[i] = "lower"    -> Lower[i]
                        [] sel[i] = "inactive" -> free[i]]

\* The KKT callback: a converged solve leaves at most KKTTolerance in every
\* residual of the restricted product, the stationarity of the fixed
\* coefficients is not part of it; a failed solve may leave anything.
KKTSolutions(sel) ==
  {k \in [control      : {Prolong(sel, f) : f \in [Free(sel) -> ControlValues]},
          stationarity : [Controls -> Forces],
          other        : OtherResiduals,
          equality     : OtherResiduals,
          converged    : BOOLEAN] :
     k.converged => /\ \A i \in Free(sel) : AbsInt(k.stationarity[i]) <= KKTTolerance
                    /\ k.other <= KKTTolerance
                    /\ k.equality <= KKTTolerance}

-----------------------------------------------------------------------------
(* make_box_multiplier and make_report.                                    *)

BoxMultiplier(sel, force) ==
  [i \in Controls |-> IF sel[i] = "inactive" THEN 0 ELSE -force[i]]

PrimalFeasible(u, tolerance) ==
  \A i \in Controls : Lower[i] - u[i] <= tolerance /\ u[i] - Upper[i] <= tolerance

\* The branches are tried in this order: a coefficient with Lower = Upper is
\* judged by the first one.
DualFeasible(u, m, tolerance) ==
  \A i \in Controls :
    IF u[i] <= Lower[i] THEN m[i] <= tolerance
    ELSE IF u[i] >= Upper[i] THEN -m[i] <= tolerance
    ELSE AbsInt(m[i]) <= tolerance

Complementary(u, m, tolerance) ==
  \A i \in Controls :
    /\ AbsInt(Positive(m[i]) * (Upper[i] - u[i])) <= tolerance
    /\ AbsInt(Negative(m[i]) * (u[i] - Lower[i])) <= tolerance

\* pdas_block_norm of the whole stationarity residual, squared.
StationaritySquared(k, mu) ==
  k.other * k.other +
  MapThenSumSet(LAMBDA i : (k.stationarity[i] + mu[i]) * (k.stationarity[i] + mu[i]),
                Controls)

KKTResidualsConverged(k, mu) ==
  /\ PrimalFeasible(k.control, PrimalTolerance)
  /\ DualFeasible(k.control, ToPrimal(mu), DualTolerance)
  /\ Complementary(k.control, ToPrimal(mu), ComplementarityTolerance)
  /\ StationaritySquared(k, mu) <= StationarityTolerance * StationarityTolerance
  /\ k.equality <= EqualityTolerance

MakeReport(sel, next, k, mu) ==
  [selection                 |-> sel,
   active_set_stable         |-> sel = next,
   primal_feasible           |-> PrimalFeasible(k.control, PrimalTolerance),
   dual_feasible             |-> DualFeasible(k.control, ToPrimal(mu), DualTolerance),
   complementarity_converged |->
     Complementary(k.control, ToPrimal(mu), ComplementarityTolerance),
   kkt_residuals_converged   |-> KKTResidualsConverged(k, mu),
   kkt_solve_converged       |-> k.converged]

-----------------------------------------------------------------------------
(* PDASSolverT::solve.                                                     *)

NoReport == [selection |-> [i \in Controls |-> "inactive"],
             active_set_stable |-> FALSE, primal_feasible |-> FALSE,
             dual_feasible |-> FALSE, complementarity_converged |-> FALSE,
             kkt_residuals_converged |-> FALSE, kkt_solve_converged |-> FALSE]

NoKKT == [control |-> Lower, stationarity |-> [i \in Controls |-> 0],
          other |-> 0, equality |-> 0, converged |-> FALSE]

Init ==
  /\ status = "called"
  /\ iteration = 0
  /\ control \in [Controls -> ControlValues]
  /\ multiplier \in [Controls -> Forces]
  /\ selection = [i \in Controls |-> "inactive"]
  /\ report = NoReport
  /\ kkt = NoKKT

\* The initial control must be feasible; then the caller's pair is classified.
Begin ==
  /\ status = "called"
  /\ IF IsFeasible(control)
     THEN /\ status' = "iterating"
          /\ selection' = Classify(control, multiplier)
     ELSE /\ status' = "contract_error"
          /\ UNCHANGED selection
  /\ UNCHANGED <<iteration, control, multiplier, report, kkt>>

\* Faulty variant: a stable active set with a converged solve is enough.
OutcomeOfStableSet(r, n) ==
  IF r.kkt_solve_converged /\ r.active_set_stable THEN "converged"
  ELSE IF ~r.kkt_solve_converged THEN "kkt_solve_failed"
  ELSE IF n = MaximumIterations THEN "maximum_iterations"
  ELSE "iterating"

\* Faulty variant: the cap is noticed one iteration late.
OutcomeOneMore(r, n) ==
  IF r.kkt_solve_converged /\ r.active_set_stable /\ r.kkt_residuals_converged
  THEN "converged"
  ELSE IF ~r.kkt_solve_converged THEN "kkt_solve_failed"
  ELSE IF n > MaximumIterations THEN "maximum_iterations"
  ELSE "iterating"

\* The decision at the end of the loop body; n counts the reports.
Outcome(r, n) ==
  IF r.kkt_solve_converged /\ r.active_set_stable /\ r.kkt_residuals_converged
  THEN "converged"
  ELSE IF ~r.kkt_solve_converged THEN "kkt_solve_failed"
  ELSE IF n = MaximumIterations THEN "maximum_iterations"
  ELSE "iterating"

\* Faulty variant: the last iterate is not stored when the loop runs out.
StepDroppingLastPoint(k) ==
  LET mu   == BoxMultiplier(selection, k.stationarity)
      next == Classify(k.control, mu)
      r    == MakeReport(selection, next, k, mu)
      last == Outcome(r, iteration + 1) = "maximum_iterations"
  IN /\ status'     = Outcome(r, iteration + 1)
     /\ iteration'  = iteration + 1
     /\ control'    = IF last THEN control ELSE k.control
     /\ multiplier' = IF last THEN multiplier ELSE mu
     /\ selection'  = next
     /\ report'     = r

\* Faulty variant: the iteration is not counted while the active set changes.
StepNotCounting(k) ==
  LET mu   == BoxMultiplier(selection, k.stationarity)
      next == Classify(k.control, mu)
      r    == MakeReport(selection, next, k, mu)
      n    == IF r.active_set_stable THEN iteration + 1 ELSE iteration
  IN /\ status'     = Outcome(r, n)
     /\ iteration'  = n
     /\ control'    = k.control
     /\ multiplier' = mu
     /\ selection'  = next
     /\ report'     = r

\* The loop body once the KKT callback has returned k.
Step(k) ==
  LET mu   == BoxMultiplier(selection, k.stationarity)
      next == Classify(k.control, mu)
      r    == MakeReport(selection, next, k, mu)
  IN /\ status'     = Outcome(r, iteration + 1)
     /\ iteration'  = iteration + 1
     /\ control'    = k.control
     /\ multiplier' = mu
     /\ selection'  = next
     /\ report'     = r

Iterate ==
  /\ status = "iterating"
  /\ Restrictable(selection)
  /\ kkt' \in KKTSolutions(selection)
  /\ Step(kkt')

\* A require() of the loop body throws: no block is left for the restricted
\* product, or the callback threw or returned a value that is not finite.
Throw ==
  /\ status = "iterating"
  /\ status' = "contract_error"
  /\ UNCHANGED <<iteration, control, multiplier, selection, report, kkt>>

Done == status \in Finished /\ UNCHANGED vars

Next == Begin \/ Iterate \/ Throw \/ Done

\* solve() is a sequential loop that runs until it returns or throws.
Spec == Init /\ [][Next]_vars /\ WF_vars(Begin \/ Iterate \/ Throw)

-----------------------------------------------------------------------------
(* Properties.                                                             *)

TypeOK ==
  /\ status \in {"called", "iterating"} \cup Finished
  /\ iteration \in 0 .. MaximumIterations
  /\ control \in Control
  /\ multiplier \in Control
  /\ selection \in [Controls -> Activity]
  /\ report \in [selection : [Controls -> Activity], active_set_stable : BOOLEAN,
                 primal_feasible : BOOLEAN, dual_feasible : BOOLEAN,
                 complementarity_converged : BOOLEAN,
                 kkt_residuals_converged : BOOLEAN, kkt_solve_converged : BOOLEAN]
  /\ kkt \in [control : Control, stationarity : Control, other : Nat,
              equality : Nat, converged : BOOLEAN]

\* The first-order conditions of the box problem, with the normal cone of the
\* box instead of the branches of the dual residual: a multiplier that pushes
\* beyond the tolerance does so only at the bound it belongs to, the control is
\* in the box, and the multiplier balances the stationarity residual of k.
FirstOrder(u, mu, k) ==
  /\ \A i \in Controls :
       /\ u[i] >= Lower[i] - PrimalTolerance /\ u[i] <= Upper[i] + PrimalTolerance
       /\ Riesz[i] * mu[i] > DualTolerance => u[i] >= Upper[i]
       /\ Riesz[i] * mu[i] < -DualTolerance => u[i] <= Lower[i]
  /\ StationaritySquared(k, mu) <= StationarityTolerance * StationarityTolerance
  /\ k.equality <= EqualityTolerance

\* What solve() returns as converged is a first-order point, whatever the KKT
\* callback did before and however inaccurate its last solve was.
ConvergedIsFirstOrder ==
  status = "converged" => FirstOrder(control, multiplier, kkt)

\* The theorem behind the method: when a KKT solve leaves the active set as it
\* is and every bound interval is proper, the point is exactly feasible,
\* complementary and of the right multiplier signs.  No tolerance hides an
\* error of the classification, the prolongation or the multiplier recovery.
StableSetIsExact ==
  /\ report.active_set_stable
  /\ \A i \in Controls : Lower[i] < Upper[i]
  => /\ PrimalFeasible(control, 0)
     /\ DualFeasible(control, ToPrimal(multiplier), 0)
     /\ Complementary(control, ToPrimal(multiplier), 0)

\* Whatever ends the solve, the returned point and multiplier are the ones the
\* last report measured, on that report's active set: at the iteration cap the
\* answer is neither one iterate older than the report nor of the next set.
AnswerIsReported ==
  status \in StoppingReason =>
    /\ \A i \in Controls :
         /\ report.selection[i] = "upper" => control[i] = Upper[i]
         /\ report.selection[i] = "lower" => control[i] = Lower[i]
         /\ report.selection[i] = "inactive" => multiplier[i] = 0
    /\ report.primal_feasible = PrimalFeasible(control, PrimalTolerance)
    /\ report.dual_feasible =
         DualFeasible(control, ToPrimal(multiplier), DualTolerance)

\* The inductive invariant behind the four properties: what solve() holds after
\* a loop body are the parts of one and the same iteration.
Linked ==
  /\ status = "iterating" => iteration < MaximumIterations
  /\ iteration = 0 => report = NoReport /\ status \notin StoppingReason
  /\ iteration > 0 =>
       /\ status # "called"
       /\ control = kkt.control
       /\ \A i \in Controls :
            /\ report.selection[i] = "upper" => control[i] = Upper[i]
            /\ report.selection[i] = "lower" => control[i] = Lower[i]
       /\ multiplier = BoxMultiplier(report.selection, kkt.stationarity)
       /\ selection = Classify(control, multiplier)
       /\ report = MakeReport(report.selection, selection, kkt, multiplier)
       /\ status = "converged" => report.kkt_residuals_converged

\* What solve() has handed to its caller so far.
Result == IF status \in Finished THEN status ELSE "pending"

Answer == IF status \in Finished
          THEN [u |-> control, mu |-> multiplier, k |-> kkt]
          ELSE [u |-> Lower, mu |-> Lower, k |-> NoKKT]

FirstOrderAnswer(a) == FirstOrder(a.u, a.mu, a.k)

Promise == INSTANCE BoxSolve WITH
  Reasons  <- Finished \ {"converged"},
  Good     <- FirstOrderAnswer,
  NoAnswer <- [u |-> Lower, mu |-> Lower, k |-> NoKKT],
  outcome  <- Result,
  answer   <- Answer

\* The active-set loop implements the one-call contract of BoxSolve: it
\* returns exactly once, nothing it returned changes afterwards, a converged
\* return is first order, and it returns even when the active sets cycle.
ImplementsBoxSolve == Promise!Spec
=============================================================================
