----------------------------- MODULE TrustRegion -----------------------------
(***************************************************************************)
(* ReducedTrustRegionSolverT::solve of include/nmopt/solvers/              *)
(* reduced_trust_region.hpp: an outer loop over accepted iterates, an      *)
(* inner loop of trial steps inside a radius, the stopping tests, the work *)
(* counters, and the audit that result() makes of the accepted-iteration   *)
(* records before it hands anything back.                                  *)
(*                                                                         *)
(* The reduced model is an oracle: an evaluation gives an objective value  *)
(* (an integer or NotFinite) and the metric norm of its gradient; a        *)
(* subproblem gives a step no longer than the radius with a positive       *)
(* predicted reduction, and says what it cost.  Radii and step norms are   *)
(* integers in one unit of length, the thresholds on the reduction ratio   *)
(* are integers in units of 1/RatioUnit.                                   *)
(***************************************************************************)
EXTENDS Integers, Sequences, SequencesExt

CONSTANTS
  Objectives, NotFinite,        \* objective values; an infinity or a NaN
  Norms,                        \* gradient norms
  Predictions,                  \* predicted reductions of a subproblem
  Steps,                        \* step norms inside the radius
  Criteria,                     \* the stopping criteria to choose from
  MaximumIterations, MaximumTrials, MaximumSubproblemIterations,
  GradientTolerance,
  RelativeTolerance,            \* in units of 1/RatioUnit, 0 when disabled
  ObjectiveChangeTolerance, StepTolerance,    \* 0 when disabled
  StationaryNorm,               \* 100 machine epsilons
  MinimumRadius, InitialRadius, MaximumRadius,
  RatioUnit, AcceptanceThreshold, ShrinkThreshold, ExpansionThreshold,
  ShrinkDivisor,                \* 1 / shrink_factor
  ExpansionFactor

\* validate_parameters() refuses anything else.
ASSUME DataAssumption ==
  /\ Objectives \subseteq Int /\ NotFinite \notin Int
  /\ Norms \subseteq Nat
  /\ Predictions \subseteq Nat \ {0} /\ Steps \subseteq Nat \ {0}
ASSUME LimitAssumption ==
  /\ MaximumIterations \in Nat \ {0} /\ MaximumTrials \in Nat \ {0}
  /\ MaximumSubproblemIterations \in Nat \ {0}
ASSUME ToleranceAssumption ==
  /\ GradientTolerance \in Nat \ {0} /\ RelativeTolerance \in Nat
  /\ ObjectiveChangeTolerance \in Nat /\ StepTolerance \in Nat
  /\ StationaryNorm \in Nat
  /\ Criteria \subseteq {"automatic", "gradient_norm", "relative_gradient_norm",
                         "objective_change", "step_norm"}
  /\ "relative_gradient_norm" \in Criteria => RelativeTolerance > 0
  /\ "objective_change" \in Criteria => ObjectiveChangeTolerance > 0
  /\ "step_norm" \in Criteria => StepTolerance > 0
ASSUME RadiusAssumption ==
  /\ MinimumRadius \in Nat \ {0} /\ InitialRadius \in Nat /\ MaximumRadius \in Nat
  /\ MinimumRadius <= InitialRadius /\ InitialRadius <= MaximumRadius
  /\ ShrinkDivisor \in Nat \ {0, 1} /\ ExpansionFactor \in Nat \ {0, 1}
ASSUME ThresholdAssumption ==
  /\ RatioUnit \in Nat \ {0} /\ AcceptanceThreshold \in Nat
  /\ ShrinkThreshold \in Nat /\ ExpansionThreshold \in Nat
  /\ AcceptanceThreshold < ShrinkThreshold
  /\ ShrinkThreshold < ExpansionThreshold /\ ExpansionThreshold < RatioUnit

VARIABLES
  status,       \* "called", "outer", "trial", a stopping reason, or how it threw
  policy,       \* stopping_criterion and subproblem_method
  objective,    \* current_evaluation.objective_value
  norm,         \* the metric norm of current_evaluation.reduced_derivative
  radius,
  trial,        \* index of the inner loop
  trials,       \* trial_count
  objectives,   \* objective_history
  norms,        \* gradient_norm_history
  records,      \* iteration_records
  work,         \* state, adjoint, metric and Hessian counters
  workBefore    \* work_before of this outer iteration

vars == <<status, policy, objective, norm, radius, trial, trials, objectives,
          norms, records, work, workBefore>>

Reasons == {"gradient_tolerance", "relative_gradient_tolerance", "stationary",
            "objective_change_tolerance", "step_tolerance",
            "maximum_iterations", "radius_too_small", "trial_limit"}
Failures == {"contract_error", "audit_failed"}
Finished == Reasons \cup Failures
Methods == {"cauchy", "truncated_conjugate_gradient"}

Counters == {"state", "adjoint", "metric", "hessian"}
NoWork == [c \in Counters |-> 0]
Plus(w, state, adjoint, metric, hessian) ==
  [c \in Counters |-> w[c] + CASE c = "state" -> state
                               [] c = "adjoint" -> adjoint
                               [] c = "metric" -> metric
                               [] c = "hessian" -> hessian]
Minus(after, before) == [c \in Counters |-> after[c] - before[c]]

AtLeast(a, b) == IF a >= b THEN a ELSE b     \* std::max
AtMost(a, b)  == IF a <= b THEN a ELSE b     \* std::min

-----------------------------------------------------------------------------
(* The audit of result().                                                  *)

Audit(recs, objs, ns) ==
  \A i \in 1 .. Len(recs) :
    /\ recs[i].iteration = i
    /\ recs[i].before = objs[i] /\ recs[i].after = objs[i + 1]
    /\ recs[i].stationarity = ns[i]
    /\ recs[i].predicted > 0 /\ recs[i].actual > 0

Finish(reason, recs, objs, ns) ==
  IF Audit(recs, objs, ns) THEN reason ELSE "audit_failed"

-----------------------------------------------------------------------------
(* The head of the outer loop.                                             *)

Automatic == policy.criterion = "automatic"
Selected(criterion) == policy.criterion = criterion

GradientStop(n) ==
  (Automatic \/ Selected("gradient_norm")) /\ n <= GradientTolerance

\* The relative norm is zero when the initial one was.
RelativeStop(n, first) ==
  /\ IF Automatic THEN RelativeTolerance > 0 ELSE Selected("relative_gradient_norm")
  /\ first > 0 => n * RatioUnit <= RelativeTolerance * first

StationaryStop(n) ==
  (Selected("objective_change") \/ Selected("step_norm")) /\ n <= StationaryNorm

\* Faulty variant: a stationary iterate is left to the subproblem.
HeadReasonIgnoringStationary(n, first, accepted) ==
  IF GradientStop(n) THEN "gradient_tolerance"
  ELSE IF RelativeStop(n, first) THEN "relative_gradient_tolerance"
  ELSE IF accepted = MaximumIterations THEN "maximum_iterations"
  ELSE "none"

\* Faulty variant: the iteration cap is noticed one iterate late.
HeadReasonOneMore(n, first, accepted) ==
  IF GradientStop(n) THEN "gradient_tolerance"
  ELSE IF RelativeStop(n, first) THEN "relative_gradient_tolerance"
  ELSE IF StationaryStop(n) THEN "stationary"
  ELSE IF accepted > MaximumIterations THEN "maximum_iterations"
  ELSE "none"

\* The tests in the order the code makes them.
HeadReason(n, first, accepted) ==
  IF GradientStop(n) THEN "gradient_tolerance"
  ELSE IF RelativeStop(n, first) THEN "relative_gradient_tolerance"
  ELSE IF StationaryStop(n) THEN "stationary"
  ELSE IF accepted = MaximumIterations THEN "maximum_iterations"
  ELSE "none"

-----------------------------------------------------------------------------
(* One trial.                                                              *)

\* What make_cauchy_subproblem returns; its Hessian action is counted by Outer.
CauchySubproblems ==
  [step : {s \in Steps : s <= radius} \cup {radius}, predicted : Predictions,
   metric : {0}, hessian : {0}]

\* What make_truncated_cg_subproblem returns: an exit on the boundary or on
\* negative curvature fills the radius and has made one metric solve less than
\* Hessian actions; the other exits have made as many of both.
TruncatedSubproblems ==
  {s \in [step : {t \in Steps : t <= radius} \cup {radius}, predicted : Predictions,
          metric : 0 .. MaximumSubproblemIterations,
          hessian : 1 .. MaximumSubproblemIterations] :
     \/ s.metric = s.hessian
     \/ s.metric = s.hessian - 1 /\ s.step = radius}

\* Both methods need a positive gradient pairing, and throw without.
Subproblems ==
  IF norm = 0 THEN {}
  ELSE IF policy.method = "cauchy" THEN CauchySubproblems ELSE TruncatedSubproblems

Finite(value) == objective # NotFinite /\ value # NotFinite

\* Faulty variant: a trial that is no worse is accepted.
AcceptableDecrease(predicted, value) == Finite(value) /\ objective - value >= 0

\* reduction_ratio >= acceptance_threshold, and finite.
Acceptable(predicted, value) ==
  /\ Finite(value)
  /\ (objective - value) * RatioUnit >= AcceptanceThreshold * predicted

\* Faulty variant: the shrunken radius is clamped from below by the initial one.
ShrunkToInitial == AtLeast(InitialRadius, radius \div ShrinkDivisor)

Shrunk == AtLeast(MinimumRadius, radius \div ShrinkDivisor)

\* Faulty variant: the expansion is not clamped.
AdaptedUnclamped(sub, actual) ==
  IF actual * RatioUnit > ExpansionThreshold * sub.predicted
     /\ 10 * sub.step >= 9 * radius
  THEN ExpansionFactor * radius
  ELSE IF actual * RatioUnit < ShrinkThreshold * sub.predicted THEN Shrunk
  ELSE radius

\* The radius after an accepted step.
Adapted(sub, actual) ==
  IF actual * RatioUnit > ExpansionThreshold * sub.predicted
     /\ 10 * sub.step >= 9 * radius
  THEN AtMost(MaximumRadius, ExpansionFactor * radius)
  ELSE IF actual * RatioUnit < ShrinkThreshold * sub.predicted THEN Shrunk
  ELSE radius

ChangeStop(actual) ==
  /\ IF Automatic THEN ObjectiveChangeTolerance > 0 ELSE Selected("objective_change")
  /\ actual <= ObjectiveChangeTolerance

StepStop(step) ==
  /\ IF Automatic THEN StepTolerance > 0 ELSE Selected("step_norm")
  /\ step <= StepTolerance

\* The tests after an accepted step.
TailReason(sub, actual) ==
  IF ChangeStop(actual) THEN "objective_change_tolerance"
  ELSE IF StepStop(sub.step) THEN "step_tolerance"
  ELSE "none"

-----------------------------------------------------------------------------
Init ==
  /\ status = "called"
  /\ policy \in [criterion : Criteria, method : Methods]
  /\ objective \in Objectives \cup {NotFinite}
  /\ norm \in Norms
  /\ radius = InitialRadius
  /\ trial = 0 /\ trials = 0
  /\ objectives = <<>> /\ norms = <<>> /\ records = <<>>
  /\ work = NoWork /\ workBefore = NoWork

\* reduced_.evaluate of the initial control.
Evaluate ==
  /\ status = "called"
  /\ status' = "outer"
  /\ objectives' = <<objective>>
  /\ work' = Plus(work, 1, 1, 0, 0)
  /\ UNCHANGED <<policy, objective, norm, radius, trial, trials, norms, records,
                 workBefore>>

\* From the metric gradient to the first trial.
Outer ==
  /\ status = "outer"
  /\ LET ns     == Append(norms, norm)
         reason == HeadReason(norm, ns[1], Len(records))
         cauchy == IF reason = "none" /\ policy.method = "cauchy" THEN 1 ELSE 0
     IN /\ norms' = ns
        /\ work' = Plus(work, 0, 0, 1, cauchy)
        /\ status' = IF reason = "none" THEN "trial"
                     ELSE Finish(reason, records, objectives, ns)
  /\ workBefore' = work
  /\ trial' = 0
  /\ UNCHANGED <<policy, objective, norm, radius, trials, objectives, records>>

\* Faulty variant: the record of an accepted step leaves out the adjoint solve.
RecordBeforeAdjoint(sub, value) ==
  [iteration |-> Len(records) + 1, before |-> objective, after |-> value,
   predicted |-> sub.predicted, actual |-> objective - value,
   stationarity |-> norm,
   work  |-> Minus(Plus(work, 1, 0, sub.metric, sub.hessian), workBefore),
   total |-> Plus(work, 1, 0, sub.metric, sub.hessian)]

\* ReducedTrustRegionIterationRecordT of an accepted step.
Record(sub, value) ==
  [iteration |-> Len(records) + 1, before |-> objective, after |-> value,
   predicted |-> sub.predicted, actual |-> objective - value,
   stationarity |-> norm,
   work  |-> Minus(Plus(work, 1, 1, sub.metric, sub.hessian), workBefore),
   total |-> Plus(work, 1, 1, sub.metric, sub.hessian)]

\* The trial is accepted: its derivative is computed, the step recorded.
Accept ==
  /\ status = "trial" /\ radius >= MinimumRadius
  /\ \E sub \in Subproblems, value \in Objectives \cup {NotFinite} :
       /\ Acceptable(sub.predicted, value)
       /\ LET recs == Append(records, Record(sub, value))
              objs == Append(objectives, value)
              reason == TailReason(sub, objective - value)
          IN /\ records' = recs
             /\ objectives' = objs
             /\ status' = IF reason = "none" THEN "outer"
                          ELSE Finish(reason, recs, objs, norms)
       /\ objective' = value
       /\ work' = Plus(work, 1, 1, sub.metric, sub.hessian)
       /\ radius' = Adapted(sub, objective - value)
  /\ norm' \in Norms
  /\ trials' = trials + 1
  /\ UNCHANGED <<policy, trial, norms, workBefore>>

\* The trial is rejected: the radius shrinks, and the next trial follows unless
\* the radius or the trials are used up.
Reject ==
  /\ status = "trial" /\ radius >= MinimumRadius
  /\ \E sub \in Subproblems, value \in Objectives \cup {NotFinite} :
       /\ ~Acceptable(sub.predicted, value)
       /\ work' = Plus(work, 1, 0, sub.metric, sub.hessian)
  /\ radius' = Shrunk
  /\ trials' = trials + 1
  /\ trial' = trial + 1
  /\ status' =
       IF Shrunk <= MinimumRadius
       THEN Finish("radius_too_small", records, objectives, norms)
       ELSE IF trial + 1 = MaximumTrials
       THEN Finish("trial_limit", records, objectives, norms)
       ELSE "trial"
  /\ UNCHANGED <<policy, objective, norm, objectives, norms, records, workBefore>>

\* A require() throws: a state or adjoint solve did not converge, the metric
\* or the Hessian returned something unusable, the model has no descent.
Throw ==
  /\ status \in {"called", "outer", "trial"}
  /\ status' = "contract_error"
  /\ UNCHANGED <<policy, objective, norm, radius, trial, trials, objectives,
                 norms, records, work, workBefore>>

Done == status \in Finished /\ UNCHANGED vars

Next == Evaluate \/ Outer \/ Accept \/ Reject \/ Throw \/ Done

\* solve() is a sequential loop that runs until it returns or throws.
Spec == Init /\ [][Next]_vars /\ WF_vars(Evaluate \/ Outer \/ Accept \/ Reject \/ Throw)

-----------------------------------------------------------------------------
(* Properties.                                                             *)

WorkType == [Counters -> Nat]

TypeOK ==
  /\ status \in {"called", "outer", "trial"} \cup Finished
  /\ policy \in [criterion : Criteria, method : Methods]
  /\ objective \in Int \cup {NotFinite}
  /\ norm \in Nat
  /\ radius \in MinimumRadius .. MaximumRadius
  /\ trial \in 0 .. MaximumTrials
  /\ trials \in Nat
  /\ objectives \in Seq(Int \cup {NotFinite})
  /\ norms \in Seq(Nat)
  /\ records \in Seq([iteration : Nat, before : Int, after : Int, predicted : Nat,
                      actual : Int, stationarity : Nat,
                      work : [Counters -> Int], total : WorkType])
  /\ work \in WorkType /\ workBefore \in WorkType

\* The audit at the end of a solve never throws away a finished solve: what the
\* acceptance test lets through satisfies what result() requires of a record.
AuditNeverFails == status # "audit_failed"

\* The counters count: one state solve per trial besides the first evaluation,
\* one adjoint solve per iterate, and the work of the accepted iterations adds
\* up to the totals without a gap and without counting anything twice.
WorkAccounted ==
  objectives # <<>> =>
    /\ work["state"] = 1 + trials
    /\ work["adjoint"] = Len(objectives)
    /\ policy.method = "cauchy" => work["metric"] = Len(norms)
    /\ \A i \in 1 .. Len(records) :
         LET before == IF i = 1 THEN Plus(NoWork, 1, 1, 0, 0)
                                ELSE records[i - 1].total
         IN records[i].work = Minus(records[i].total, before)
    /\ status = "outer" /\ records # <<>> => Last(records).total = work

\* No stopping criterion lets a stationary iterate through to the subproblem,
\* whose model needs a positive gradient pairing and throws without.
ModelNeedsGradient == status = "trial" => norm > 0

Rejected == trials' = trials + 1 /\ records' = records

\* A rejected trial shrinks the radius or ends the solve, and only an accepted
\* step that its model predicted well makes the radius grow.
RadiusFollowsModel ==
  [][/\ Rejected => radius' < radius \/ status' \in Finished
     /\ radius' > radius =>
          /\ Len(records') > Len(records)
          /\ Last(records').actual * RatioUnit
               > ExpansionThreshold * Last(records').predicted]_vars

\* The contract of the call, for the caller who does not look at trials.
Phase == IF status \in Reasons THEN "returned"
         ELSE IF status \in Failures THEN "failed" ELSE "running"

Lower(new, old) == new # NotFinite /\ old # NotFinite /\ new < old

Promise == INSTANCE DescentSearch WITH
  Cap <- MaximumIterations, Better <- Lower,
  phase <- Phase, best <- objective, accepted <- Len(records)

\* The trust-region loop implements DescentSearch: every accepted iterate is
\* strictly better than the one before, there are at most maximum_iterations
\* of them, and the call ends.
ImplementsDescentSearch == Promise!Spec
=============================================================================
