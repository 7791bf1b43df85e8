-------------------------- MODULE DirectionPolicies --------------------------
(***************************************************************************)
(* The direction policies of include/nmopt/solvers/reduced_search.hpp and  *)
(* the histories they keep: steepest descent, nonlinear conjugate          *)
(* gradients (Polak-Ribiere+, Fletcher-Reeves and the classical quadratic  *)
(* recurrence), limited-memory and full BFGS, and Newton with its inner    *)
(* conjugate gradients.  One step is one call of next() by the outer loop  *)
(* of ReducedSearchSolverT::solve, with the tests that follow it there;    *)
(* the other is the line search, which moves along the direction.          *)
(*                                                                         *)
(* The reduced model is either a quadratic that an exact search minimises  *)
(* along each direction, or arbitrary: any derivative at any point of the  *)
(* ray.  Coefficients are exact rationals (RationalVectors).               *)
(***************************************************************************)
EXTENDS RationalVectors, SequencesExt

CONSTANTS
  Problems,               \* [quadratic, metric, inverse, hessians, starts] records
  Policies,               \* [kind, update, interval, memory, scaling] records
  Controls, Derivatives,  \* what an arbitrary model may go on with
  CurvatureTolerance,     \* of every policy
  SquaredTolerance,       \* gradient_tolerance, squared
  InnerLimit,             \* maximum_inner_iterations of Newton
  InnerAbsolute, InnerRelative,   \* its tolerances, squared
  Calls                   \* bound on the calls of next()

Kinds == {"steepest_descent", "nonlinear_cg", "limited_memory_bfgs", "full_bfgs", "newton"}
Updates == {"polak_ribiere_plus", "fletcher_reeves", "classical_quadratic", "none"}
Scalings == {"metric_inverse", "scalar_secant", "none"}

ASSUME ToleranceAssumption ==
  /\ {CurvatureTolerance, SquaredTolerance, InnerAbsolute, InnerRelative} \subseteq Rationals
  /\ Positive(CurvatureTolerance) /\ ~AtMost(One, CurvatureTolerance)
  /\ Positive(SquaredTolerance) /\ Positive(InnerAbsolute)
  /\ Positive(InnerRelative) /\ ~AtMost(One, InnerRelative)
  /\ InnerLimit \in Nat \ {0} /\ Calls \in Nat
ASSUME PolicyAssumption ==
  Policies \subseteq [kind : Kinds, update : Updates, interval : Nat,
                      memory : Nat \ {0}, scaling : Scalings]

\* The blocks of one problem have one layout; an arbitrary model keeps to it.
ASSUME ProblemAssumption ==
  \A p \in Problems :
    LET n == Len(p.metric)
    IN  /\ p.metric \in Seq(Seq(Rationals)) /\ p.quadratic \in BOOLEAN
        /\ {p.metric, p.inverse} \union p.hessians \subseteq Mat(n)
        /\ \A start \in p.starts : {start.control, start.derivative} \subseteq Vec(n)
        /\ ~p.quadratic => Controls \union Derivatives \subseteq Vec(n)

VARIABLES
  problem, policy,    \* chosen once
  phase,              \* "asking", "moving", a stopping reason or "contract_error"
  control, derivative,    \* of the current iterate
  previous,           \* previous_control_, previous_derivative_, ...: at most one record
  sinceRestart,       \* directions_since_restart_
  history,            \* history_: the secant pairs
  resets,             \* restart_count_, reset_count_
  answer,             \* what next() returned
  performed,          \* metric.inverse_apply calls so far
  reported,           \* metric_solve_count so far
  trail,              \* the iterates since the last restart, with their directions
  calls

vars == <<problem, policy, phase, control, derivative, previous, sinceRestart,
          history, resets, answer, performed, reported, trail, calls>>
iterate == <<problem, policy, control, derivative>>

NoAnswer == [direction |-> <<>>, slope |-> Zero, squaredNorm |-> Zero,
             restarted |-> FALSE, hessian |-> 0]

-----------------------------------------------------------------------------
(* The metric *)

\* metric.inverse_apply
Riesz(covector) == Apply(problem.inverse, covector)
Gradient == Riesz(derivative)
\* make_metric_gradient also applies the metric, for the norm.
SquaredNorm(primal) == Pair(Apply(problem.metric, primal), primal)

Asked(kind) == phase = "asking" /\ calls < Calls /\ policy.kind = kind

\* The loop head after next(): the absolute stopping test, then the requirement
\* of a descent direction.
LoopHead(squaredNorm, slope) ==
  IF AtMost(squaredNorm, SquaredTolerance) THEN "gradient_tolerance"
  ELSE IF Positive(Negated(slope)) THEN "moving"
  ELSE "contract_error"

\* next() returns direction d: after solves inverse actions it reports some of them.
Return(d, restarted, solves, reports, actions) ==
  LET slope == Pair(derivative, d)
      entry == [control |-> control, derivative |-> derivative, direction |-> d]
  IN  /\ answer' = [direction |-> d, slope |-> slope, squaredNorm |-> SquaredNorm(Gradient),
                    restarted |-> restarted, hessian |-> actions]
      /\ phase' = LoopHead(SquaredNorm(Gradient), slope)
      /\ performed' = performed + solves
      /\ reported' = reported + reports
      /\ trail' = IF restarted THEN <<entry>> ELSE Append(trail, entry)
      /\ calls' = calls + 1
      /\ UNCHANGED iterate

\* A require() inside next() throws; what it would have stored is lost with it.
Throw(solves) ==
  /\ phase' = "contract_error"
  /\ performed' = performed + solves
  /\ calls' = calls + 1
  /\ UNCHANGED <<iterate, previous, sinceRestart, history, resets, answer, reported, trail>>

PositiveOn(matrix, vectors) ==
  \A x \in vectors : ~IsZero(x) => Positive(Pair(Apply(matrix, x), x))
SelfAdjointOn(matrix, vectors) ==
  \A x, y \in vectors : Pair(Apply(matrix, x), y) = Pair(Apply(matrix, y), x)

\* A metric is a scalar product and an exact search has a minimum to find.
EllipticOn(p, vectors) ==
  /\ \A matrix \in {p.metric, p.inverse} :
       PositiveOn(matrix, vectors) /\ SelfAdjointOn(matrix, vectors)
  /\ p.quadratic => \A hessian \in p.hessians : PositiveOn(hessian, vectors)
Elliptic == \A p \in Problems : EllipticOn(p, Vec(Len(p.metric)))

\* A quadratic has one Hessian, and it is self-adjoint.
OneHessianOn(p, vectors) ==
  p.quadratic => \A hessian, other \in p.hessians :
                   hessian = other /\ SelfAdjointOn(hessian, vectors)
OneHessian == \A p \in Problems : OneHessianOn(p, Vec(Len(p.metric)))

-----------------------------------------------------------------------------
(* Steepest descent *)

SteepestDescent ==
  /\ Asked("steepest_descent")
  /\ Return(Opposite(Gradient), TRUE, 1, 1, 0)
  /\ UNCHANGED <<previous, sinceRestart, history, resets>>

-----------------------------------------------------------------------------
(* Nonlinear conjugate gradients *)

Classical == policy.update = "classical_quadratic"

Numerator(old) ==
  IF policy.update = "polak_ribiere_plus"
  THEN Difference(Pair(derivative, Gradient), Pair(old.derivative, Gradient))
  ELSE Pair(derivative, Gradient)

Denominator(old) == Pair(old.derivative, old.gradient)

TooFlat(denominator) ==
  AtMost(denominator, Product(CurvatureTolerance, Larger(One, denominator)))

\* Zero selects the number of coefficients.
RestartInterval == IF policy.interval > 0 THEN policy.interval ELSE Len(control)

\* Faulty variant: the history is restarted one direction too early.
PeriodicallyEarly == sinceRestart + 1 >= RestartInterval

Periodically == sinceRestart >= RestartInterval

\* Is the history used?  A coefficient that is not positive clips to a restart.
Restarts(old) ==
  \/ Periodically
  \/ ~Classical /\ (TooFlat(Denominator(old)) \/ ~Positive(Numerator(old)))

\* "requires positive finite gradient curvature"
Rejects(old) ==
  /\ Classical /\ ~Periodically
  /\ TooFlat(Denominator(old)) \/ ~Positive(Numerator(old))

Conjugate(old) ==
  AddScaled(Opposite(Gradient), Quotient(Numerator(old), Denominator(old)), old.direction)

\* Stores the direction and returns it.
Keep(d, restarted) ==
  /\ previous' = <<[control |-> control, derivative |-> derivative,
                    gradient |-> Gradient, direction |-> d]>>
  /\ sinceRestart' = IF restarted THEN 1 ELSE sinceRestart + 1
  /\ resets' = IF restarted /\ previous # <<>> THEN resets + 1 ELSE resets
  /\ Return(d, restarted, 1, 1, 0)
  /\ UNCHANGED history

Refreshes == previous = <<>> \/ Restarts(previous[1])
Proposed == IF Refreshes THEN Opposite(Gradient) ELSE Conjugate(previous[1])

\* Faulty variant: a direction that does not descend is returned all the same.
ConjugateGradientAnyway ==
  /\ Asked("nonlinear_cg")
  /\ IF ~Refreshes /\ Rejects(previous[1]) THEN Throw(1)
     ELSE Keep(Proposed, Refreshes)

ConjugateGradient ==
  /\ Asked("nonlinear_cg")
  /\ IF ~Refreshes /\ Rejects(previous[1]) THEN Throw(1)
     ELSE IF Positive(Negated(Pair(derivative, Proposed))) THEN Keep(Proposed, Refreshes)
     ELSE IF Classical THEN Throw(1)
     ELSE Keep(Opposite(Gradient), TRUE)

-----------------------------------------------------------------------------
(* Quasi-Newton methods *)

Displacement == Subtracted(control, previous[1].control)
CovectorDifference == Subtracted(derivative, previous[1].derivative)
Curvature == Pair(CovectorDifference, Displacement)

\* <y, G^-1 y>, the denominator of the scalar secant scaling.
SecantNorm == Pair(CovectorDifference, Subtracted(Gradient, previous[1].gradient))

\* Faulty variant: the curvature is compared by magnitude.
SecantFailsByMagnitude ==
  \/ AtMost(Product(Curvature, Curvature), CurvatureTolerance)
  \/ policy.scaling = "scalar_secant" /\ AtMost(SecantNorm, CurvatureTolerance)

SecantFails ==
  \/ AtMost(Curvature, CurvatureTolerance)
  \/ policy.scaling = "scalar_secant" /\ AtMost(SecantNorm, CurvatureTolerance)

InitialScale ==
  IF policy.scaling = "scalar_secant" THEN Quotient(Curvature, SecantNorm) ELSE One

NewPair == [s |-> Displacement, y |-> CovectorDifference, curvature |-> Curvature,
            scale |-> InitialScale]

\* Faulty variant: the oldest pair is not evicted.
LimitedKeepingAll == Append(history, NewPair)

\* pop_front when the memory is full, then push_back.
Limited ==
  Append(IF Len(history) = policy.memory THEN Tail(history) ELSE history, NewPair)

\* Faulty variant: the second loop forgets to subtract its own coefficient.
TwoLoopWithoutBeta(pairs, covector) ==
  LET n == Len(pairs)
      alpha(q, i) == Quotient(Pair(q, pairs[i].s), pairs[i].curvature)
      q[i \in 1 .. n + 1] ==
        IF i = n + 1 THEN covector
        ELSE AddScaled(q[i + 1], Negated(alpha(q[i + 1], i)), pairs[i].y)
      z[i \in 0 .. n] ==
        IF i = 0 THEN Scaled(pairs[n].scale, Riesz(q[1]))
        ELSE AddScaled(z[i - 1], alpha(q[i + 1], i), pairs[i].s)
  IN  z[n]

\* The two-loop recursion: newest pair to oldest on the covector, the scaled
\* metric inverse, oldest to newest on the result.
TwoLoop(pairs, covector) ==
  LET n == Len(pairs)
      alpha(q, i) == Quotient(Pair(q, pairs[i].s), pairs[i].curvature)
      q[i \in 1 .. n + 1] ==
        IF i = n + 1 THEN covector
        ELSE AddScaled(q[i + 1], Negated(alpha(q[i + 1], i)), pairs[i].y)
      z[i \in 0 .. n] ==
        IF i = 0 THEN Scaled(pairs[n].scale, Riesz(q[1]))
        ELSE AddScaled(z[i - 1],
                       Difference(alpha(q[i + 1], i),
                                  Quotient(Pair(pairs[i].y, z[i - 1]), pairs[i].curvature)),
                       pairs[i].s)
  IN  z[n]

\* update_previous
Remember ==
  /\ previous' = <<[control |-> control, derivative |-> derivative,
                    gradient |-> Gradient, direction |-> <<>>]>>
  /\ UNCHANGED sinceRestart

\* Steepest descent, the history kept; with clears, the history dropped.
FirstQuasiNewton ==
  /\ Return(Opposite(Gradient), TRUE, 1, 1, 0)
  /\ UNCHANGED <<history, resets>>
Drop(solves) ==
  /\ history' = <<>>
  /\ resets' = resets + 1
  /\ Return(Opposite(Gradient), TRUE, solves, 1, 0)

\* One call with the pairs as they will be; a result that does not descend comes
\* after a second metric solve that the direction does not report.
QuasiNewton(pairs) ==
  /\ Remember
  /\ IF previous = <<>> THEN FirstQuasiNewton
     ELSE IF SecantFails THEN Drop(1)
     ELSE LET d == Opposite(TwoLoop(pairs, derivative))
          IN  IF Positive(Negated(Pair(derivative, d)))
              THEN /\ history' = pairs
                   /\ Return(d, FALSE, 2, 2, 0)
                   /\ UNCHANGED resets
              ELSE Drop(2)

LimitedMemoryBfgs == Asked("limited_memory_bfgs") /\ QuasiNewton(Limited)
FullBfgs == Asked("full_bfgs") /\ QuasiNewton(Append(history, NewPair))

-----------------------------------------------------------------------------
(* Newton *)

\* The inner conjugate gradients for hessian * d = -derivative, preconditioned by
\* the metric: inner[i] is their state after i iterations.
InnerStart ==
  LET residual == Opposite(derivative)
      pairing == Pair(residual, Riesz(residual))
  IN  [direction |-> [i \in DOMAIN derivative |-> Zero], residual |-> residual,
       search |-> Riesz(residual), pairing |-> pairing, count |-> 0,
       status |-> IF Positive(pairing) THEN "running" ELSE "converged"]

TargetNorm == Larger(InnerAbsolute, Product(InnerRelative, InnerStart.pairing))

InnerStep(state, hessian) ==
  LET image == Apply(hessian, state.search)
      curvature == Pair(image, state.search)
      step == Quotient(state.pairing, curvature)
      residual == AddScaled(state.residual, Negated(step), image)
      pairing == Pair(residual, Riesz(residual))
      advanced == [state EXCEPT !.direction = AddScaled(@, step, state.search),
                                !.residual = residual, !.count = @ + 1]
  IN  IF AtMost(curvature, Product(CurvatureTolerance, SquaredNorm(state.search)))
      THEN [state EXCEPT !.status = "threw"]
      ELSE IF AtMost(pairing, TargetNorm) THEN [advanced EXCEPT !.status = "converged"]
      ELSE IF advanced.count = InnerLimit THEN [advanced EXCEPT !.status = "threw"]
      ELSE [advanced EXCEPT
              !.search = AddScaled(Riesz(residual), Quotient(pairing, state.pairing), @),
              !.pairing = pairing]

Inner(hessian) ==
  LET inner[i \in 0 .. InnerLimit] ==
        IF i = 0 THEN InnerStart
        ELSE IF inner[i - 1].status # "running" THEN inner[i - 1]
        ELSE InnerStep(inner[i - 1], hessian)
  IN  inner[InnerLimit]

Newton ==
  /\ Asked("newton")
  /\ \E hessian \in problem.hessians :
       LET result == Inner(hessian)
       IN  IF result.status = "threw" \/ Positive(Pair(derivative, result.direction))
           THEN Throw(2 + result.count)
           ELSE /\ Return(result.direction, TRUE, 2 + result.count, 2 + result.count, result.count)
                /\ UNCHANGED <<previous, sinceRestart, history, resets>>

-----------------------------------------------------------------------------
(* The line search *)

\* The exact search minimises a quadratic along the direction.
ExactStep ==
  /\ problem.quadratic
  /\ \E hessian \in problem.hessians :
       LET image == Apply(hessian, answer.direction)
           length == Quotient(Negated(answer.slope), Pair(image, answer.direction))
       IN  /\ control' = AddScaled(control, length, answer.direction)
           /\ derivative' = AddScaled(derivative, length, image)

\* Any other search stops at some point of the ray.
Ahead(point) ==
  \E i \in DOMAIN point :
    /\ answer.direction[i] # Zero
    /\ LET length == Quotient(Difference(point[i], control[i]), answer.direction[i])
       IN  Positive(length) /\ point = AddScaled(control, length, answer.direction)

InexactStep ==
  /\ ~problem.quadratic
  /\ control' \in {point \in Controls : Ahead(point)}
  /\ derivative' \in Derivatives

Move ==
  /\ phase = "moving"
  /\ ExactStep \/ InexactStep
  /\ phase' = "asking"
  /\ UNCHANGED <<problem, policy, previous, sinceRestart, history, resets, answer,
                 performed, reported, trail, calls>>

-----------------------------------------------------------------------------
Init ==
  /\ problem \in Problems /\ policy \in Policies
  /\ phase = "asking"
  /\ \E start \in problem.starts : control = start.control /\ derivative = start.derivative
  /\ previous = <<>> /\ sinceRestart = 0 /\ history = <<>> /\ resets = 0
  /\ answer = NoAnswer /\ performed = 0 /\ reported = 0 /\ trail = <<>> /\ calls = 0

Next == SteepestDescent \/ ConjugateGradient \/ LimitedMemoryBfgs \/ FullBfgs \/ Newton \/ Move

Spec == Init /\ [][Next]_vars

-----------------------------------------------------------------------------
(* Properties *)

Vectors == Seq(Rationals)

\* Every variable has its type.
TypeOK ==
  /\ problem \in Problems /\ policy \in Policies
  /\ phase \in {"asking", "moving", "gradient_tolerance", "contract_error"}
  /\ control \in Vectors /\ derivative \in Vectors
  /\ Len(previous) <= 1
  /\ \A old \in Range(previous) : old.gradient = Riesz(old.derivative)
  /\ sinceRestart \in 0 .. calls /\ resets \in 0 .. calls
  /\ policy.kind = "limited_memory_bfgs" => Len(history) <= policy.memory
  /\ \A pair \in Range(history) : pair.s \in Vectors /\ pair.y \in Vectors
  /\ answer.direction \in Vectors /\ answer.slope \in Rationals
  /\ performed \in Nat /\ reported \in 0 .. performed
  /\ Len(trail) <= calls /\ calls \in 0 .. Calls

QuasiNewtonKinds == {"limited_memory_bfgs", "full_bfgs"}
Stationary == IsZero(derivative)
PositiveDefinite(hessian) == PositiveOn(hessian, Controls)

\* A direction policy ends the solve with an exception only where its contract
\* allows it: Newton on a Hessian that is not positive definite, and the classical
\* recurrence away from a quadratic, at a gradient below the curvature tolerance
\* or at a stationary point.  The restarts of every other policy are enough for a
\* descent direction at every iterate that is not stationary.
PolicyEndsSolveByContract ==
  phase = "contract_error" =>
    \/ policy.kind = "newton" /\ \E hessian \in problem.hessians : ~PositiveDefinite(hessian)
    \/ /\ policy.kind = "nonlinear_cg" /\ Classical
       /\ \/ ~problem.quadratic
          \/ Stationary
          \/ AtMost(Denominator(previous[1]), CurvatureTolerance)

\* The pairs with positive curvature keep the inverse Hessian positive definite, so
\* the second fallback of the quasi-Newton policies is for a stationary iterate
\* only, and only then is a metric solve made that the direction does not report.
FallbackOnlyWhenStationary ==
  policy.kind \in QuasiNewtonKinds /\ performed # reported => Stationary

\* The inverse BFGS update of a matrix by the step from one iterate to the next.
Secant(i) ==
  LET s == Subtracted(trail[i + 1].control, trail[i].control)
      y == Subtracted(trail[i + 1].derivative, trail[i].derivative)
  IN  [s |-> s, y |-> y, curvature |-> Pair(y, s)]

\* H + (<y,s> + <y,Hy>) / <y,s>^2 * s s^T - (Hy s^T + s (Hy)^T) / <y,s>
Updated(matrix, secant) ==
  LET image == Apply(matrix, secant.y)
      c == secant.curvature
      weight == Quotient(Sum2(c, Pair(secant.y, image)), Product(c, c))
      term(i, j) == Difference(
        Product(weight, Product(secant.s[i], secant.s[j])),
        Quotient(Sum2(Product(image[i], secant.s[j]), Product(secant.s[i], image[j])), c))
  IN  [i \in DOMAIN matrix |-> [j \in DOMAIN matrix |-> Sum2(matrix[i][j], term(i, j))]]

InverseHessian ==
  LET last == Len(trail) - 1
      first == IF policy.kind = "full_bfgs" \/ last < policy.memory THEN 1
               ELSE last - policy.memory + 1
      newest == Secant(last)
      scale == IF policy.scaling = "scalar_secant"
               THEN Quotient(newest.curvature, Pair(newest.y, Riesz(newest.y))) ELSE One
      matrix[i \in first - 1 .. last] ==
        IF i = first - 1 THEN [k \in DOMAIN problem.inverse |-> Scaled(scale, problem.inverse[k])]
        ELSE Updated(matrix[i - 1], Secant(i))
  IN  matrix[last]

\* "The two-loop recursion is the standard inverse-BFGS update applied to the
\* declared metric inverse": the matrix-free direction is that of the matrix built
\* from the iterates since the last reset, as many as the memory holds.
TwoLoopIsBFGS ==
  policy.kind \in QuasiNewtonKinds /\ Len(trail) > 1 /\ phase # "asking" =>
    answer.direction = Opposite(Apply(InverseHessian, derivative))

\* On a quadratic with the exact search the directions since the last restart are
\* conjugate, whichever update computes them, and as many as there are coefficients
\* end at the minimiser.  The conjugate gradient recurrences go on until then: short
\* of the restart interval, with the earlier gradient above the curvature tolerance,
\* they neither restart nor reject, and they descend.  Newton needs one step to come
\* within the tolerances of its inner iteration.
QuadraticTermination ==
  problem.quadratic =>
    /\ \A i, j \in 1 .. Len(trail) : i < j =>
         \A hessian \in problem.hessians :
           Pair(Apply(hessian, trail[i].direction), trail[j].direction) = Zero
    /\ phase = "asking" /\ Len(trail) >= Len(control) => Stationary
    /\ /\ phase = "asking" /\ policy.kind = "nonlinear_cg" /\ previous # <<>>
       /\ sinceRestart < (IF policy.interval = 0 THEN Len(control) ELSE policy.interval)
       /\ ~AtMost(Denominator(previous[1]), CurvatureTolerance) /\ ~Stationary
       => /\ ~Refreshes /\ ~Rejects(previous[1])
          /\ Positive(Negated(Pair(derivative, Proposed)))
    /\ phase = "asking" /\ policy.kind = "newton" /\ calls > 0 =>
         LET start == trail[1].derivative
         IN  AtMost(Pair(derivative, Gradient),
                    Larger(InnerAbsolute, Product(InnerRelative, Pair(start, Riesz(start)))))
=============================================================================
