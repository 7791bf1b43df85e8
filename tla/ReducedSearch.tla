---------------------------- MODULE ReducedSearch ----------------------------
(***************************************************************************)
(* ReducedSearchSolverT::solve of include/nmopt/solvers/                   *)
(* reduced_gradient.hpp with the five line searches of                     *)
(* reduced_line_search.hpp: an outer loop that asks a direction policy for *)
(* a direction and tests the stopping criteria, a line search whose trials *)
(* cost state and adjoint solves, the accepted-iteration records with      *)
(* their work, the trial log, and the audit that result() makes.           *)
(*                                                                         *)
(* The reduced model is an oracle: an evaluation gives an objective (an    *)
(* integer, Infinite or NaN), the slopes of a trial and the metric norm of *)
(* the next gradient.  A direction policy is an oracle that costs metric   *)
(* solves and Hessian actions and may reset its history.  Step lengths are *)
(* integers in one unit, fractions are in units of 1/FractionUnit.         *)
(***************************************************************************)
EXTENDS Integers, FiniteSets, Sequences, SequencesExt

CONSTANTS
  Objectives, Infinite, NaN,    \* objective values; Infinite is a positive overflow
  Norms,                        \* stopping norms, in metric units
  Slopes,                       \* j'(u)[s] and j'(u + s)[s] of a trial step s
  StepNorms,                    \* metric norms of accepted steps
  DirectionCosts,               \* what one direction_policy.next may cost
  Policies,                     \* the solver set-ups to choose from
  NoTarget,
  MaximumIterations, MaximumTrials,
  GradientTolerance,
  RelativeTolerance,            \* in units of 1/FractionUnit, 0 when disabled
  ObjectiveChangeTolerance, StepTolerance,    \* 0 when disabled
  StationaryNorm,               \* 100 machine epsilons
  InitialStep, MinimumStep, BacktrackingDivisor,
  FractionUnit, DecreaseFraction, CurvatureFraction,
  ObjectiveTolerance            \* of the exact quadratic search

Criteria == {"automatic", "gradient_norm", "relative_gradient_norm",
             "objective_change", "step_norm"}
Searches == {"armijo", "fixed_step", "exact_quadratic", "strong_wolfe", "weak_wolfe"}

\* Projection is offered with steepest descent and without the exact search.
Policy ==
  {p \in [criterion : Criteria, search : Searches, projected : BOOLEAN,
          target : Int \cup {NoTarget}] :
     p.projected => p.search # "exact_quadratic"}

ASSUME DataAssumption ==
  /\ Objectives \subseteq Int /\ Infinite \notin Int /\ NaN \notin Int
  /\ Infinite # NaN /\ NoTarget \notin Int
  /\ Norms \subseteq Nat /\ Slopes \subseteq Int /\ StepNorms \subseteq Nat
  /\ DirectionCosts \subseteq [metric : Nat \ {0}, hessian : Nat, reset : {0, 1}]
ASSUME PolicyAssumption == Policies \subseteq Policy
ASSUME ParameterAssumption ==
  /\ MaximumIterations \in Nat \ {0} /\ MaximumTrials \in Nat \ {0}
  /\ GradientTolerance \in Nat \ {0} /\ RelativeTolerance \in Nat
  /\ ObjectiveChangeTolerance \in Nat /\ StepTolerance \in Nat
  /\ StationaryNorm \in Nat /\ ObjectiveTolerance \in Nat
  /\ \A p \in Policies :
       /\ p.criterion = "relative_gradient_norm" => RelativeTolerance > 0
       /\ p.criterion = "objective_change" => ObjectiveChangeTolerance > 0
       /\ p.criterion = "step_norm" => StepTolerance > 0
ASSUME StepAssumption ==
  /\ InitialStep \in Nat \ {0} /\ MinimumStep \in 0 .. InitialStep
  /\ BacktrackingDivisor \in Nat \ {0, 1} /\ FractionUnit \in Nat \ {0}
  /\ DecreaseFraction \in 1 .. FractionUnit - 1
  /\ CurvatureFraction \in DecreaseFraction + 1 .. FractionUnit - 1

VARIABLES
  status,       \* "called", "outer", "trying", a stopping reason, or how it threw
  policy,       \* stopping_criterion, objective_target, line search, projection
  objective,    \* current_evaluation.objective_value
  norm,         \* the stopping norm at the current control
  step,         \* step_length of the running line search
  trial,        \* its loop index
  trials,       \* line_search_trial_count
  objectives,   \* objective_history
  norms,        \* gradient_norm_history
  records,      \* iteration_records
  log,          \* line_search_trials
  work,         \* state, adjoint, metric, Hessian and reset counters
  workBefore    \* work_before of this outer iteration

vars == <<status, policy, objective, norm, step, trial, trials, objectives,
          norms, records, log, work, workBefore>>

Reasons == {"objective_target", "gradient_tolerance",
            "relative_gradient_tolerance", "stationary",
            "objective_change_tolerance", "step_tolerance",
            "maximum_iterations", "line_search_failure"}
Failures == {"contract_error", "no_descent", "audit_failed"}
Finished == Reasons \cup Failures

Counters == {"state", "adjoint", "metric", "hessian", "reset"}
NoWork == [c \in Counters |-> 0]
Plus(w, d) == [c \in Counters |-> w[c] + d[c]]
Minus(after, before) == [c \in Counters |-> after[c] - before[c]]
Work(state, adjoint, metric, hessian, reset) ==
  [c \in Counters |-> CASE c = "state" -> state
                        [] c = "adjoint" -> adjoint
                        [] c = "metric" -> metric
                        [] c = "hessian" -> hessian
                        [] c = "reset" -> reset]

AtLeast(a, b) == IF a >= b THEN a ELSE b     \* std::max
AbsInt(x) == IF x < 0 THEN -x ELSE x         \* std::abs

-----------------------------------------------------------------------------
(* The audit of result().                                                  *)

\* A NaN is not equal to itself.
Same(a, b) == a = b /\ a # NaN

Audit(recs, objs, ns) ==
  \A i \in 1 .. Len(recs) :
    /\ recs[i].iteration = i
    /\ Same(recs[i].before, objs[i]) /\ Same(recs[i].after, objs[i + 1])
    /\ recs[i].stationarity = ns[i]

Finish(reason, recs, objs, ns) ==
  IF Audit(recs, objs, ns) THEN reason ELSE "audit_failed"

-----------------------------------------------------------------------------
(* The stopping tests.                                                     *)

Automatic == policy.criterion = "automatic"
Selected(criterion) == policy.criterion = criterion

TargetStop ==
  /\ policy.target # NoTarget /\ objective \notin {Infinite, NaN}
  /\ objective <= policy.target

GradientStop == (Automatic \/ Selected("gradient_norm")) /\ norm <= GradientTolerance

\* The relative norm is zero when the initial one was.
RelativeStop(first) ==
  /\ IF Automatic THEN RelativeTolerance > 0 ELSE Selected("relative_gradient_norm")
  /\ first > 0 => norm * FractionUnit <= RelativeTolerance * first

StationaryStop ==
  (Selected("objective_change") \/ Selected("step_norm")) /\ norm <= StationaryNorm

\* The unit-step descent measure is negative unless the gradient vanishes.
Descends == norm > 0

\* Faulty variant: a stationary iterate is not noticed.
HeadReasonIgnoringStationary(first, accepted) ==
  IF TargetStop THEN "objective_target"
  ELSE IF GradientStop THEN "gradient_tolerance"
  ELSE IF RelativeStop(first) THEN "relative_gradient_tolerance"
  ELSE IF ~Descends THEN "no_descent"
  ELSE IF accepted = MaximumIterations THEN "maximum_iterations"
  ELSE "none"

\* The tests in the order the code makes them; the descent requirement, which
\* throws, comes before the iteration cap.
HeadReason(first, accepted) ==
  IF TargetStop THEN "objective_target"
  ELSE IF GradientStop THEN "gradient_tolerance"
  ELSE IF RelativeStop(first) THEN "relative_gradient_tolerance"
  ELSE IF StationaryStop THEN "stationary"
  ELSE IF ~Descends THEN "no_descent"
  ELSE IF accepted = MaximumIterations THEN "maximum_iterations"
  ELSE "none"

Change(value) == IF objective \in {Infinite, NaN} THEN objective ELSE value - objective

ChangeStop(value) ==
  /\ IF Automatic THEN ObjectiveChangeTolerance > 0 ELSE Selected("objective_change")
  /\ Change(value) \notin {Infinite, NaN}
  /\ AbsInt(Change(value)) <= ObjectiveChangeTolerance

StepStop(length) ==
  /\ IF Automatic THEN StepTolerance > 0 ELSE Selected("step_norm")
  /\ length <= StepTolerance

\* The tests after an accepted step.
TailReason(value, length) ==
  IF ChangeStop(value) THEN "objective_change_tolerance"
  ELSE IF StepStop(length) THEN "step_tolerance"
  ELSE "none"

-----------------------------------------------------------------------------
(* One trial of the line search.                                           *)

Wolfe == policy.search \in {"strong_wolfe", "weak_wolfe"}
OneTrial == policy.search \in {"fixed_step", "exact_quadratic"}

\* objective + fraction * slope bounds the trial value; the bound is not a
\* number when the objective is not, and no bound when it is infinite.
SufficientDecrease(o) ==
  /\ o.slope < 0
  /\ o.value \notin {Infinite, NaN} /\ objective # NaN
  /\ objective # Infinite =>
       (o.value - objective) * FractionUnit <= DecreaseFraction * o.slope

\* objective + tolerance * max(1, |objective|) bounds the trial value.
WithinTolerance(o) ==
  /\ o.slope < 0
  /\ o.value \notin {Infinite, NaN} /\ objective # NaN
  /\ objective # Infinite =>
       o.value <= objective + ObjectiveTolerance * AtLeast(1, AbsInt(objective))

\* Faulty variant: the sign of the change is not looked at.
AcceptedAnyway(o) ==
  IF policy.search = "armijo" THEN o.value \notin {Infinite, NaN} /\ o.slope < 0
  ELSE IF policy.search = "fixed_step" THEN o.value \notin {Infinite, NaN}
  ELSE IF policy.search = "exact_quadratic" THEN WithinTolerance(o)
  ELSE SufficientDecrease(o)

\* The acceptance test of the selected line search.
Accepted(o) ==
  CASE policy.search = "armijo" -> SufficientDecrease(o)
    [] policy.search = "fixed_step" -> o.value \notin {Infinite, NaN}
    [] policy.search = "exact_quadratic" -> WithinTolerance(o)
    [] policy.search = "strong_wolfe" ->
         /\ SufficientDecrease(o)
         /\ AbsInt(o.trialSlope) * FractionUnit <= CurvatureFraction * AbsInt(o.slope)
    [] policy.search = "weak_wolfe" ->
         /\ SufficientDecrease(o)
         /\ o.trialSlope * FractionUnit >= CurvatureFraction * o.slope

Trials == [value : Objectives \cup {Infinite, NaN}, slope : Slopes, trialSlope : Slopes]

\* A trial costs a state solve; its derivative is computed when it is accepted,
\* or always for the Wolfe conditions; the exact search applies the Hessian.
TrialWork(ok) ==
  Work(1, IF ok \/ Wolfe THEN 1 ELSE 0, 0,
       IF policy.search = "exact_quadratic" THEN 1 ELSE 0, 0)

\* Faulty variant: the floor of the step is not the end of the search.
LastTrialIgnoringFloor == OneTrial \/ trial + 1 = MaximumTrials

\* Faulty variant: one trial more than the limit.
LastTrialOneMore ==
  \/ OneTrial
  \/ trial = MaximumTrials
  \/ policy.search = "armijo" /\ MinimumStep > 0 /\ step <= MinimumStep

\* No further trial after this one.
LastTrial ==
  \/ OneTrial
  \/ trial + 1 = MaximumTrials
  \/ policy.search = "armijo" /\ MinimumStep > 0 /\ step <= MinimumStep

Backtracked ==
  IF policy.search = "armijo" THEN AtLeast(step \div BacktrackingDivisor, MinimumStep)
  ELSE step \div BacktrackingDivisor

\* Only two of the line searches write the trial log.
Logged(ok) ==
  IF policy.search \in {"armijo", "fixed_step"}
  THEN Append(log, [iteration |-> Len(records) + 1, trial |-> trial,
                    step |-> step, accepted |-> ok])
  ELSE log

-----------------------------------------------------------------------------
Init ==
  /\ status = "called"
  /\ policy \in Policies
  /\ objective \in Objectives \cup {Infinite, NaN}
  /\ norm \in Norms
  /\ step = InitialStep /\ trial = 0 /\ trials = 0
  /\ objectives = <<>> /\ norms = <<>> /\ records = <<>> /\ log = <<>>
  /\ work = NoWork /\ workBefore = NoWork

\* reduced_.evaluate of the initial control.
Evaluate ==
  /\ status = "called"
  /\ status' = "outer"
  /\ objectives' = <<objective>>
  /\ work' = Plus(work, Work(1, 1, 0, 0, 0))
  /\ UNCHANGED <<policy, objective, norm, step, trial, trials, norms, records,
                 log, workBefore>>

\* Steepest descent solves once in the metric; a policy resets only a history.
Costs ==
  IF policy.projected THEN {[metric |-> 1, hessian |-> 0, reset |-> 0]}
  ELSE {c \in DirectionCosts : c.reset = 1 => records # <<>>}

\* From the direction to the first trial.
Outer ==
  /\ status = "outer"
  /\ workBefore' = work
  /\ \E c \in Costs : work' = Plus(work, Work(0, 0, c.metric, c.hessian, c.reset))
  /\ LET ns     == Append(norms, norm)
         reason == HeadReason(ns[1], Len(records))
     IN /\ norms' = ns
        /\ status' = IF reason = "none" THEN "trying"
                     ELSE IF reason = "no_descent" THEN reason
                     ELSE Finish(reason, records, objectives, ns)
  /\ step' = InitialStep /\ trial' = 0
  /\ UNCHANGED <<policy, objective, norm, trials, objectives, records, log>>

\* Faulty variant: the work of an iteration starts at its first trial.
RecordFromFirstTrial(value) ==
  [iteration |-> Len(records) + 1, before |-> objective, after |-> value,
   stationarity |-> norm, trials |-> trial + 1,
   work  |-> Minus(Plus(work, TrialWork(TRUE)), Plus(workBefore, Work(0, 0, 1, 0, 0))),
   total |-> Plus(work, TrialWork(TRUE))]

\* Faulty variant: objective_before is read from the replaced evaluation.
RecordAfterMove(value) ==
  [iteration |-> Len(records) + 1, before |-> value, after |-> value,
   stationarity |-> norm, trials |-> trial + 1,
   work  |-> Minus(Plus(work, TrialWork(TRUE)), workBefore),
   total |-> Plus(work, TrialWork(TRUE))]

\* ReducedAcceptedIterationRecordT of an accepted step.
Record(value) ==
  [iteration |-> Len(records) + 1, before |-> objective, after |-> value,
   stationarity |-> norm, trials |-> trial + 1,
   work  |-> Minus(Plus(work, TrialWork(TRUE)), workBefore),
   total |-> Plus(work, TrialWork(TRUE))]

\* The line search accepts this trial; the step is recorded.
Accept ==
  /\ status = "trying"
  /\ \E o \in Trials, length \in StepNorms :
       /\ Accepted(o)
       /\ LET recs   == Append(records, Record(o.value))
              objs   == Append(objectives, o.value)
              reason == TailReason(o.value, length)
          IN /\ records' = recs
             /\ objectives' = objs
             /\ status' = IF reason = "none" THEN "outer"
                          ELSE Finish(reason, recs, objs, norms)
       /\ objective' = o.value
  /\ norm' \in Norms
  /\ work' = Plus(work, TrialWork(TRUE))
  /\ log' = Logged(TRUE)
  /\ trials' = trials + 1
  /\ UNCHANGED <<policy, step, trial, norms, workBefore>>

\* The line search rejects this trial and backtracks or gives up.
Reject ==
  /\ status = "trying"
  /\ \E o \in Trials : ~Accepted(o)
  /\ work' = Plus(work, TrialWork(FALSE))
  /\ log' = Logged(FALSE)
  /\ trials' = trials + 1
  /\ trial' = trial + 1
  /\ IF LastTrial
     THEN /\ status' = Finish("line_search_failure", records, objectives, norms)
          /\ UNCHANGED step
     ELSE /\ step' = Backtracked
          /\ UNCHANGED status
  /\ UNCHANGED <<policy, objective, norm, objectives, norms, records, workBefore>>

\* A require() throws: a state or adjoint solve did not converge, a norm, slope
\* or curvature is unusable, a projection is infeasible.
Throw ==
  /\ status \in {"called", "outer", "trying"}
  /\ status' = "contract_error"
  /\ UNCHANGED <<policy, objective, norm, step, trial, trials, objectives, norms,
                 records, log, work, workBefore>>

Done == status \in Finished /\ UNCHANGED vars

Next == Evaluate \/ Outer \/ Accept \/ Reject \/ Throw \/ Done

\* solve() is a sequential loop that runs until it returns or throws.
Spec == Init /\ [][Next]_vars /\ WF_vars(Evaluate \/ Outer \/ Accept \/ Reject \/ Throw)

-----------------------------------------------------------------------------
(* Properties.                                                             *)

TypeOK ==
  /\ status \in {"called", "outer", "trying"} \cup Finished
  /\ policy \in Policies
  /\ objective \in Int \cup {Infinite, NaN}
  /\ norm \in Nat
  /\ step \in 0 .. InitialStep
  /\ trial \in 0 .. MaximumTrials
  /\ trials \in Nat
  /\ objectives \in Seq(Int \cup {Infinite, NaN})
  /\ norms \in Seq(Nat)
  /\ records \in Seq([iteration : Nat, before : Int \cup {Infinite, NaN},
                      after : Int, stationarity : Nat, trials : Nat,
                      work : [Counters -> Int], total : [Counters -> Nat]])
  /\ log \in Seq([iteration : Nat, trial : Nat, step : Nat, accepted : BOOLEAN])
  /\ work \in [Counters -> Nat] /\ workBefore \in [Counters -> Nat]

\* A finished solve is thrown away by its own audit only when it started from a
\* control whose objective is not a number.
AuditRefusesOnlyNaN == status = "audit_failed" => objectives[1] = NaN

\* No selection of stopping criteria lets a stationary iterate reach the
\* require() of a descent direction, which would throw the solve away; that
\* holds at the iteration cap too, where the require() comes first.
StationaryReturns == status # "no_descent"

\* The counters count: a state solve per trial besides the first evaluation, an
\* adjoint solve per iterate, or per trial under the Wolfe conditions, at least
\* one metric solve per direction, and the work of the accepted iterations adds
\* up to the totals without a gap and without counting anything twice.
WorkAccounted ==
  objectives # <<>> =>
    /\ work["state"] = 1 + trials
    /\ work["adjoint"] = IF Wolfe THEN 1 + trials ELSE Len(objectives)
    /\ policy.projected => work["metric"] = Len(norms)
    /\ \A i \in 1 .. Len(records) :
         LET before == IF i = 1 THEN Work(1, 1, 0, 0, 0) ELSE records[i - 1].total
         IN /\ records[i].work = Minus(records[i].total, before)
            /\ records[i].work["state"] = records[i].trials
            /\ records[i].work["metric"] > 0
    /\ status = "outer" /\ records # <<>> => Last(records).total = work

\* The trial log tells the story of every Armijo search: within one iteration
\* no step length is tried twice and none is below the floor, and the trials of
\* an accepted iteration end with the accepted one.
LogExplainsSteps ==
  policy.search = "armijo" =>
    /\ Len(log) = trials
    /\ \A j, k \in 1 .. Len(log) :
         j < k => /\ log[j].iteration <= log[k].iteration
                  /\ log[j].iteration = log[k].iteration =>
                       /\ log[k].step < log[j].step
                       /\ ~log[j].accepted
    /\ \A j \in 1 .. Len(log) : log[j].step >= MinimumStep
    /\ Len(records) = Cardinality({j \in 1 .. Len(log) : log[j].accepted})

\* The contract of the call.  What an accepted iterate is worth depends on the
\* line search: a sufficient decrease is a decrease, the exact search allows an
\* increase within its tolerance, the fixed step allows anything finite.
Phase == IF status \in Reasons THEN "returned"
         ELSE IF status \in Failures THEN "failed" ELSE "running"

Better(new, old) ==
  /\ new.value \notin {Infinite, NaN}
  /\ new.search # "fixed_step" =>
       /\ old.value # NaN
       /\ old.value # Infinite =>
            IF new.search = "exact_quadratic"
            THEN new.value <=
                   old.value + ObjectiveTolerance * AtLeast(1, AbsInt(old.value))
            ELSE new.value < old.value

Promise == INSTANCE DescentSearch WITH
  Cap      <- MaximumIterations,
  phase    <- Phase,
  best     <- [search |-> policy.search, value |-> objective],
  accepted <- Len(records)

\* The line-search loop implements DescentSearch: accepted iterates improve as
\* their line search promises, there are at most maximum_iterations of them,
\* and the call ends.
ImplementsDescentSearch == Promise!Spec
=============================================================================
