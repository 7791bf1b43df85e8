----------------------------- MODULE PDASProofs -----------------------------
(***************************************************************************)
(* Proofs about the active-set loop for every finite or infinite set of    *)
(* coefficients, every bounds, Riesz weights, tolerances and iteration     *)
(* limit, and every KKT callback described by KKTSolutions.                *)
(***************************************************************************)
EXTENDS PDAS, TLAPS

-----------------------------------------------------------------------------
(* Lemmas about the operators of the loop body.                            *)

\* The classification labels every coefficient.
LEMMA ClassifyType ==
  ASSUME NEW u, NEW mu
  PROVE  Classify(u, mu) \in [Controls -> Activity]
BY DEF Classify, Activity

\* The recovered multiplier is an integer covector, and zero on free
\* coefficients.
LEMMA BoxMultiplierType ==
  ASSUME NEW sel \in [Controls -> Activity], NEW force \in Control
  PROVE  /\ BoxMultiplier(sel, force) \in Control
         /\ \A i \in Controls :
              sel[i] = "inactive" => BoxMultiplier(sel, force)[i] = 0
BY DEF BoxMultiplier, Control, Activity

\* A prolonged control is an integer vector that sits on the bounds of the
\* active coefficients.
LEMMA ProlongOnBounds ==
  ASSUME NEW sel \in [Controls -> Activity],
         NEW f \in [Free(sel) -> ControlValues]
  PROVE  /\ Prolong(sel, f) \in Control
         /\ \A i \in Controls :
              /\ sel[i] = "upper" => Prolong(sel, f)[i] = Upper[i]
              /\ sel[i] = "lower" => Prolong(sel, f)[i] = Lower[i]
<1>1. ASSUME NEW i \in Controls
      PROVE  /\ Prolong(sel, f)[i] \in Int
             /\ sel[i] = "upper" => Prolong(sel, f)[i] = Upper[i]
             /\ sel[i] = "lower" => Prolong(sel, f)[i] = Lower[i]
  <2>1. Lower[i] \in Int /\ Upper[i] \in Int
    BY BoundsAssumption
  <2>2. CASE sel[i] = "upper"
    BY <2>1, <2>2 DEF Prolong
  <2>3. CASE sel[i] = "lower"
    BY <2>1, <2>3 DEF Prolong
  <2>4. CASE sel[i] = "inactive"
    <3>1. f[i] \in Int
      BY <2>4, DataAssumption DEF Free
    <3>2. QED
      BY <2>4, <3>1 DEF Prolong
  <2>5. QED
    BY <2>2, <2>3, <2>4 DEF Activity
<1>2. QED
  BY <1>1 DEF Prolong, Control

\* What the loop body may rely on when the KKT callback returned.
LEMMA KKTSolutionType ==
  ASSUME NEW sel \in [Controls -> Activity], NEW k \in KKTSolutions(sel)
  PROVE  /\ k \in [control : Control, stationarity : Control, other : Nat,
                   equality : Nat, converged : BOOLEAN]
         /\ \A i \in Controls :
              /\ sel[i] = "upper" => k.control[i] = Upper[i]
              /\ sel[i] = "lower" => k.control[i] = Lower[i]
<1>1. k \in [control : {Prolong(sel, f) : f \in [Free(sel) -> ControlValues]},
             stationarity : [Controls -> Forces], other : OtherResiduals,
             equality : OtherResiduals, converged : BOOLEAN]
  BY DEF KKTSolutions
<1>2. PICK f \in [Free(sel) -> ControlValues] : k.control = Prolong(sel, f)
  BY <1>1
<1>3. k.stationarity \in Control
  BY <1>1, DataAssumption DEF Control
<1>4. QED
  BY <1>1, <1>2, <1>3, ProlongOnBounds, DataAssumption

\* The primal representative of a multiplier has the sign of the multiplier.
LEMMA ToPrimalSign ==
  ASSUME NEW mu \in Control, NEW i \in Controls
  PROVE  /\ ToPrimal(mu)[i] \in Int
         /\ mu[i] = 0 => ToPrimal(mu)[i] = 0
<1>1. mu[i] \in Int /\ Riesz[i] \in Nat
  BY RieszAssumption DEF Control
<1>2. QED
  BY <1>1 DEF ToPrimal

-----------------------------------------------------------------------------
(* Type correctness and the inductive invariant.                           *)

LEMMA MakeReportType ==
  ASSUME NEW sel \in [Controls -> Activity], NEW next, NEW k, NEW mu,
         k.converged \in BOOLEAN
  PROVE  MakeReport(sel, next, k, mu) \in
           [selection : [Controls -> Activity], active_set_stable : BOOLEAN,
            primal_feasible : BOOLEAN, dual_feasible : BOOLEAN,
            complementarity_converged : BOOLEAN,
            kkt_residuals_converged : BOOLEAN, kkt_solve_converged : BOOLEAN]
<1>1. /\ PrimalFeasible(k.control, PrimalTolerance) \in BOOLEAN
      /\ DualFeasible(k.control, ToPrimal(mu), DualTolerance) \in BOOLEAN
      /\ Complementary(k.control, ToPrimal(mu), ComplementarityTolerance) \in BOOLEAN
      /\ KKTResidualsConverged(k, mu) \in BOOLEAN
  BY DEF PrimalFeasible, DualFeasible, Complementary, KKTResidualsConverged
<1>2. QED
  BY <1>1 DEF MakeReport

LEMMA TypeInit == Init => TypeOK /\ Linked
<1> SUFFICES ASSUME Init PROVE TypeOK /\ Linked
  OBVIOUS
<1>1. control \in Control /\ multiplier \in Control
  BY DataAssumption DEF Init, Control
<1>2. Lower \in Control /\ [i \in Controls |-> 0] \in Control
  BY BoundsAssumption DEF Control
<1>3. 0 \in 0 .. MaximumIterations
  BY PolicyAssumption
<1>4. QED
  BY <1>1, <1>2, <1>3
     DEF Init, TypeOK, Linked, NoReport, NoKKT, Activity, StoppingReason, Finished

LEMMA TypeStep == TypeOK /\ Linked /\ [Next]_vars => TypeOK' /\ Linked'
<1> SUFFICES ASSUME TypeOK, Linked, [Next]_vars PROVE TypeOK' /\ Linked'
  OBVIOUS
<1>1. CASE Begin
  <2>1. Classify(control, multiplier) \in [Controls -> Activity]
    BY ClassifyType
  <2>2. iteration = 0
    BY <1>1, PolicyAssumption DEF Begin, Linked, TypeOK
  <2>3. TypeOK'
    BY <1>1, <2>1 DEF Begin, TypeOK, Finished
  <2>4. Linked'
    BY <1>1, <2>2, PolicyAssumption DEF Begin, Linked, StoppingReason
  <2>5. QED
    BY <2>3, <2>4
<1>2. CASE Iterate
  <2> DEFINE mu   == BoxMultiplier(selection, kkt'.stationarity)
             next == Classify(kkt'.control, mu)
             r    == MakeReport(selection, next, kkt', mu)
  <2>1. selection \in [Controls -> Activity] /\ kkt' \in KKTSolutions(selection)
    BY <1>2 DEF Iterate, TypeOK
  <2>2. /\ kkt' \in [control : Control, stationarity : Control, other : Nat,
                     equality : Nat, converged : BOOLEAN]
        /\ \A i \in Controls :
             /\ selection[i] = "upper" => kkt'.control[i] = Upper[i]
             /\ selection[i] = "lower" => kkt'.control[i] = Lower[i]
    BY <2>1, KKTSolutionType
  <2>3. mu \in Control
    BY <2>1, <2>2, BoxMultiplierType
  <2>4. next \in [Controls -> Activity]
    BY ClassifyType
  <2>5. r \in [selection : [Controls -> Activity], active_set_stable : BOOLEAN,
               primal_feasible : BOOLEAN, dual_feasible : BOOLEAN,
               complementarity_converged : BOOLEAN,
               kkt_residuals_converged : BOOLEAN, kkt_solve_converged : BOOLEAN]
    BY <2>1, <2>2, MakeReportType
  <2>6. /\ status = "iterating"
        /\ status' = Outcome(r, iteration + 1)
        /\ iteration' = iteration + 1
        /\ control' = kkt'.control
        /\ multiplier' = mu
        /\ selection' = next
        /\ report' = r
    BY <1>2 DEF Iterate, Step
  <2> HIDE DEF mu, next, r
  <2>7. iteration < MaximumIterations /\ iteration \in Nat
    BY <2>6, PolicyAssumption DEF TypeOK, Linked
  <2>8. TypeOK'
    <3>1. iteration' \in 0 .. MaximumIterations
      BY <2>6, <2>7, PolicyAssumption
    <3>2. status' \in {"called", "iterating"} \cup Finished
      BY <2>6 DEF Outcome, Finished, StoppingReason
    <3>3. QED
      BY <2>2, <2>3, <2>4, <2>5, <2>6, <3>1, <3>2 DEF TypeOK
  <2>9. r.selection = selection
    BY DEF r, MakeReport
  <2>10. status' = "iterating" => iteration' < MaximumIterations
    BY <2>6, <2>7, PolicyAssumption DEF Outcome
  <2>11. status' = "converged" => r.kkt_residuals_converged
    BY <2>6 DEF Outcome
  <2>12. status' # "called" /\ iteration' > 0
    BY <2>6, <2>7 DEF Outcome
  <2>13. multiplier' = BoxMultiplier(r.selection, kkt'.stationarity)
    BY <2>6, <2>9 DEF mu
  <2>14. selection' = Classify(control', multiplier')
    BY <2>6 DEF next
  <2>15. r = MakeReport(r.selection, selection', kkt', multiplier')
    BY <2>6, <2>9 DEF r
  <2>16. Linked'
    BY <2>2, <2>6, <2>9, <2>10, <2>11, <2>12, <2>13, <2>14, <2>15 DEF Linked
  <2>17. QED
    BY <2>8, <2>16
<1>3. CASE Throw
  BY <1>3 DEF Throw, TypeOK, Linked, vars, Finished, StoppingReason
<1>4. CASE UNCHANGED vars
  BY <1>4 DEF TypeOK, Linked, vars
<1>5. QED
  BY <1>1, <1>2, <1>3, <1>4 DEF Next, Done

\* Every value solve() holds has the type the code declares for it.
THEOREM TypeCorrect == Spec => []TypeOK
<1>1. TypeOK /\ Linked /\ [Next]_vars => TypeOK' /\ Linked'
  BY TypeStep
<1>2. QED
  BY <1>1, TypeInit, PTL DEF Spec

\* What solve() holds after a loop body are the parts of one iteration.
LEMMA LinkedCorrect == Spec => [](TypeOK /\ Linked)
<1>1. TypeOK /\ Linked /\ [Next]_vars => TypeOK' /\ Linked'
  BY TypeStep
<1>2. QED
  BY <1>1, TypeInit, PTL DEF Spec

-----------------------------------------------------------------------------
(* A stable active set is exact.                                           *)

\* A positive factor keeps the sign.
LEMMA ScaleSign ==
  ASSUME NEW c \in Nat \ {0}, NEW x \in Int
  PROVE  /\ c * x > 0 <=> x > 0
         /\ c * x < 0 <=> x < 0
OBVIOUS

\* What the label of one coefficient says when the coefficient already is where
\* the label puts it.
LEMMA ConfirmedLabel ==
  ASSUME NEW u \in Control, NEW mu \in Control, NEW i \in Controls,
         Lower[i] < Upper[i],
         Classify(u, mu)[i] = "upper" => u[i] = Upper[i],
         Classify(u, mu)[i] = "lower" => u[i] = Lower[i],
         Classify(u, mu)[i] = "inactive" => mu[i] = 0
  PROVE  /\ Lower[i] - u[i] <= 0 /\ u[i] - Upper[i] <= 0
         /\ IF u[i] <= Lower[i] THEN ToPrimal(mu)[i] <= 0
            ELSE IF u[i] >= Upper[i] THEN -ToPrimal(mu)[i] <= 0
            ELSE AbsInt(ToPrimal(mu)[i]) <= 0
         /\ AbsInt(Positive(ToPrimal(mu)[i]) * (Upper[i] - u[i])) <= 0
         /\ AbsInt(Negative(ToPrimal(mu)[i]) * (u[i] - Lower[i])) <= 0
<1> DEFINE m == ToPrimal(mu)[i]
<1>1. /\ m \in Int /\ u[i] \in Int /\ Lower[i] \in Int /\ Upper[i] \in Int
      /\ C \in Nat \ {0}
  BY ToPrimalSign, BoundsAssumption, PolicyAssumption DEF Control
<1>2. Classify(u, mu)[i] = IF m + C * (u[i] - Upper[i]) > 0 THEN "upper"
                           ELSE IF m + C * (u[i] - Lower[i]) < 0 THEN "lower"
                           ELSE "inactive"
  BY DEF Classify
<1>3. mu[i] = 0 => m = 0
  BY ToPrimalSign
<1> HIDE DEF m
<1>4. CASE Classify(u, mu)[i] = "upper"
  <2>1. u[i] = Upper[i]
    BY <1>4
  <2>2. C * (u[i] - Upper[i]) = 0 /\ m * (Upper[i] - u[i]) = 0
    BY <1>1, <2>1
  <2>3. m > 0
    <3>1. m + C * (u[i] - Upper[i]) > 0
      BY <1>2, <1>4
    <3>2. QED
      BY <1>1, <2>2, <3>1
  <2>4. Positive(m) * (Upper[i] - u[i]) = 0 /\ Negative(m) * (u[i] - Lower[i]) = 0
    BY <1>1, <2>2, <2>3 DEF Positive, Negative
  <2>5. QED
    BY <1>1, <2>1, <2>3, <2>4 DEF AbsInt, m
<1>5. CASE Classify(u, mu)[i] = "lower"
  <2>1. u[i] = Lower[i]
    BY <1>5
  <2>2. C * (u[i] - Lower[i]) = 0 /\ m * (u[i] - Lower[i]) = 0
    BY <1>1, <2>1
  <2>3. m < 0
    <3>1. m + C * (u[i] - Lower[i]) < 0
      BY <1>2, <1>5
    <3>2. QED
      BY <1>1, <2>2, <3>1
  <2>4. Positive(m) * (Upper[i] - u[i]) = 0 /\ Negative(m) * (u[i] - Lower[i]) = 0
    BY <1>1, <2>2, <2>3 DEF Positive, Negative
  <2>5. QED
    BY <1>1, <2>1, <2>3, <2>4 DEF AbsInt, m
<1>6. CASE Classify(u, mu)[i] = "inactive"
  <2>1. m = 0
    BY <1>3, <1>6
  <2>2. ~(C * (u[i] - Upper[i]) > 0) /\ ~(C * (u[i] - Lower[i]) < 0)
    <3>1. ~(m + C * (u[i] - Upper[i]) > 0) /\ ~(m + C * (u[i] - Lower[i]) < 0)
      BY <1>2, <1>6
    <3>2. QED
      BY <1>1, <2>1, <3>1
  <2>3. u[i] <= Upper[i] /\ Lower[i] <= u[i]
    <3>1. u[i] - Upper[i] \in Int /\ u[i] - Lower[i] \in Int
      BY <1>1
    <3>2. ~(u[i] - Upper[i] > 0) /\ ~(u[i] - Lower[i] < 0)
      BY <1>1, <2>2, <3>1, ScaleSign
    <3>3. QED
      BY <1>1, <3>2
  <2>4. Positive(m) * (Upper[i] - u[i]) = 0 /\ Negative(m) * (u[i] - Lower[i]) = 0
    BY <1>1, <2>1 DEF Positive, Negative
  <2>5. QED
    BY <1>1, <2>1, <2>3, <2>4 DEF AbsInt, m
<1>7. QED
  BY <1>4, <1>5, <1>6, ClassifyType DEF Activity

\* A KKT solve that leaves the active set as it is, whatever residual it left,
\* puts every coefficient exactly where the box conditions want it.
THEOREM StableSetCorrect == Spec => []StableSetIsExact
<1>1. TypeOK /\ Linked => StableSetIsExact
  <2> SUFFICES ASSUME TypeOK, Linked, report.active_set_stable,
                      \A i \in Controls : Lower[i] < Upper[i]
               PROVE  /\ PrimalFeasible(control, 0)
                      /\ DualFeasible(control, ToPrimal(multiplier), 0)
                      /\ Complementary(control, ToPrimal(multiplier), 0)
    BY DEF StableSetIsExact
  <2>1. iteration > 0
    BY PolicyAssumption DEF TypeOK, Linked, NoReport
  <2>2. control \in Control /\ multiplier \in Control
    BY DEF TypeOK
  <2>3. report.selection = selection
    <3>1. MakeReport(report.selection, selection, kkt, multiplier).active_set_stable
          = (report.selection = selection)
      BY DEF MakeReport
    <3>2. report = MakeReport(report.selection, selection, kkt, multiplier)
      BY <2>1 DEF Linked
    <3>3. QED
      BY <3>1, <3>2
  <2>4. Classify(control, multiplier) = selection
    BY <2>1 DEF Linked
  <2>5. ASSUME NEW i \in Controls
        PROVE  /\ selection[i] = "upper" => control[i] = Upper[i]
               /\ selection[i] = "lower" => control[i] = Lower[i]
               /\ selection[i] = "inactive" => multiplier[i] = 0
    BY <2>1, <2>3 DEF Linked, BoxMultiplier
  <2>6. ASSUME NEW i \in Controls
        PROVE  /\ Lower[i] - control[i] <= 0 /\ control[i] - Upper[i] <= 0
               /\ IF control[i] <= Lower[i] THEN ToPrimal(multiplier)[i] <= 0
                  ELSE IF control[i] >= Upper[i] THEN -ToPrimal(multiplier)[i] <= 0
                  ELSE AbsInt(ToPrimal(multiplier)[i]) <= 0
               /\ AbsInt(Positive(ToPrimal(multiplier)[i]) * (Upper[i] - control[i])) <= 0
               /\ AbsInt(Negative(ToPrimal(multiplier)[i]) * (control[i] - Lower[i])) <= 0
    BY <2>2, <2>4, <2>5, ConfirmedLabel
  <2>7. QED
    BY <2>6 DEF PrimalFeasible, DualFeasible, Complementary
<1>2. QED
  BY <1>1, LinkedCorrect, PTL

-----------------------------------------------------------------------------
(* What solve() hands back.                                                *)

\* The residual conditions of the code imply the normal-cone conditions.
LEMMA ResidualsAreFirstOrder ==
  ASSUME NEW mu \in Control, NEW k, k.control \in Control,
         KKTResidualsConverged(k, mu)
  PROVE  FirstOrder(k.control, mu, k)
<1> DEFINE u == k.control
<1>1. /\ PrimalFeasible(u, PrimalTolerance)
      /\ DualFeasible(u, ToPrimal(mu), DualTolerance)
      /\ StationaritySquared(k, mu) <= StationarityTolerance * StationarityTolerance
      /\ k.equality <= EqualityTolerance
  BY DEF KKTResidualsConverged
<1>2. u \in Control
  OBVIOUS
<1> HIDE DEF u
<1>3. ASSUME NEW i \in Controls
      PROVE  /\ u[i] >= Lower[i] - PrimalTolerance /\ u[i] <= Upper[i] + PrimalTolerance
             /\ Riesz[i] * mu[i] > DualTolerance => u[i] >= Upper[i]
             /\ Riesz[i] * mu[i] < -DualTolerance => u[i] <= Lower[i]
  <2> DEFINE m == ToPrimal(mu)[i]
  <2>1. /\ m \in Int /\ u[i] \in Int /\ Lower[i] \in Int /\ Upper[i] \in Int
        /\ Lower[i] <= Upper[i] /\ PrimalTolerance \in Nat /\ DualTolerance \in Nat
    BY <1>2, ToPrimalSign, BoundsAssumption, PolicyAssumption DEF Control
  <2>2. m = Riesz[i] * mu[i]
    BY DEF ToPrimal
  <2>3. /\ Lower[i] - u[i] <= PrimalTolerance
        /\ u[i] - Upper[i] <= PrimalTolerance
    BY <1>1 DEF PrimalFeasible
  <2>4. IF u[i] <= Lower[i] THEN m <= DualTolerance
        ELSE IF u[i] >= Upper[i] THEN -m <= DualTolerance
        ELSE AbsInt(m) <= DualTolerance
    BY <1>1 DEF DualFeasible
  <2> HIDE DEF m
  <2>5. /\ u[i] >= Lower[i] - PrimalTolerance
        /\ u[i] <= Upper[i] + PrimalTolerance
    BY <2>1, <2>3
  <2>6. m > DualTolerance => u[i] >= Upper[i]
    BY <2>1, <2>4 DEF AbsInt
  <2>7. m < -DualTolerance => u[i] <= Lower[i]
    BY <2>1, <2>4 DEF AbsInt
  <2>8. QED
    BY <2>2, <2>5, <2>6, <2>7
<1>4. FirstOrder(u, mu, k)
  BY <1>1, <1>3 DEF FirstOrder
<1>5. QED
  BY <1>4 DEF u

\* The state invariant already holds the three safety properties.
LEMMA LinkedAnswers == TypeOK /\ Linked => ConvergedIsFirstOrder /\ AnswerIsReported
<1> SUFFICES ASSUME TypeOK, Linked
             PROVE  ConvergedIsFirstOrder /\ AnswerIsReported
  OBVIOUS
<1>1. status \in StoppingReason => iteration > 0
  BY PolicyAssumption DEF TypeOK, Linked
<1>2. CASE iteration > 0
  <2> DEFINE r == MakeReport(report.selection, selection, kkt, multiplier)
  <2>1. /\ control = kkt.control
        /\ multiplier = BoxMultiplier(report.selection, kkt.stationarity)
        /\ report = r
        /\ status = "converged" => report.kkt_residuals_converged
        /\ \A i \in Controls :
             /\ report.selection[i] = "upper" => control[i] = Upper[i]
             /\ report.selection[i] = "lower" => control[i] = Lower[i]
    BY <1>2 DEF Linked
  <2>2. /\ r.kkt_residuals_converged = KKTResidualsConverged(kkt, multiplier)
        /\ r.primal_feasible = PrimalFeasible(kkt.control, PrimalTolerance)
        /\ r.dual_feasible =
             DualFeasible(kkt.control, ToPrimal(multiplier), DualTolerance)
    BY DEF MakeReport
  <2>3. /\ report.selection \in [Controls -> Activity]
        /\ kkt.control \in Control /\ kkt.stationarity \in Control
    BY DEF TypeOK
  <2> HIDE DEF r
  <2>4. ConvergedIsFirstOrder
    <3> SUFFICES ASSUME status = "converged"
                 PROVE  FirstOrder(control, multiplier, kkt)
      BY DEF ConvergedIsFirstOrder
    <3>1. KKTResidualsConverged(kkt, multiplier)
      BY <2>1, <2>2
    <3>2. multiplier \in Control
      BY DEF TypeOK
    <3>3. FirstOrder(kkt.control, multiplier, kkt)
      BY <2>3, <3>1, <3>2, ResidualsAreFirstOrder
    <3>4. QED
      BY <2>1, <3>3
  <2>5. AnswerIsReported
    <3>1. \A i \in Controls : report.selection[i] = "inactive" => multiplier[i] = 0
      BY <2>1, <2>3, BoxMultiplierType
    <3>2. /\ report.primal_feasible = PrimalFeasible(control, PrimalTolerance)
          /\ report.dual_feasible =
               DualFeasible(control, ToPrimal(multiplier), DualTolerance)
      BY <2>1, <2>2
    <3>3. QED
      BY <2>1, <3>1, <3>2 DEF AnswerIsReported
  <2>6. QED
    BY <2>4, <2>5
<1>3. CASE ~(iteration > 0)
  BY <1>1, <1>3 DEF ConvergedIsFirstOrder, AnswerIsReported, StoppingReason
<1>4. QED
  BY <1>2, <1>3

\* Whatever the KKT callback returned, a converged result is a first-order
\* point of the box problem.
THEOREM ConvergedCorrect == Spec => []ConvergedIsFirstOrder
BY LinkedAnswers, LinkedCorrect, PTL

\* The point, multiplier and last report that leave solve() describe one and
\* the same iterate.
THEOREM AnswerCorrect == Spec => []AnswerIsReported
BY LinkedAnswers, LinkedCorrect, PTL

\* The safety half of the contract: the loop starts without a result, and each
\* of its steps either leaves the result alone or delivers it, once.
THEOREM ImplementsPromise ==
  Spec => Promise!Init /\ [][Promise!Next]_<<Result, Answer>>
<1>1. Init => Promise!Init
  BY DEF Init, Promise!Init, Result, Answer, Finished, StoppingReason
<1>2. /\ TypeOK /\ Linked
      /\ ConvergedIsFirstOrder'
      /\ [Next]_vars
      => [Promise!Next]_<<Result, Answer>>
  <2> SUFFICES ASSUME TypeOK, Linked, ConvergedIsFirstOrder', [Next]_vars
               PROVE  [Promise!Next]_<<Result, Answer>>
    OBVIOUS
  <2>1. CASE UNCHANGED vars
    BY <2>1 DEF vars, Result, Answer
  <2>2. CASE Begin \/ Iterate \/ Throw
    <3>1. status \in {"called", "iterating"}
      BY <2>2 DEF Begin, Iterate, Throw
    <3>2. Result = "pending"
      BY <3>1 DEF Result, Finished, StoppingReason
    <3>3. CASE status' \notin Finished
      BY <3>1, <3>3 DEF Result, Answer, Finished, StoppingReason
    <3>4. CASE status' = "converged"
      <4>1. Answer' = [u |-> control', mu |-> multiplier', k |-> kkt']
        BY <3>4 DEF Answer, Finished, StoppingReason
      <4>2. FirstOrder(control', multiplier', kkt')
        BY <3>4 DEF ConvergedIsFirstOrder
      <4>3. FirstOrderAnswer(Answer')
        BY <4>1, <4>2 DEF FirstOrderAnswer
      <4>4. Result' = "converged"
        BY <3>4 DEF Result, Finished, StoppingReason
      <4>5. QED
        BY <3>2, <4>3, <4>4 DEF Promise!Next, Promise!Return
    <3>5. CASE status' \in Finished \ {"converged"}
      <4>1. Result' = status'
        BY <3>5 DEF Result
      <4>2. QED
        BY <3>2, <3>5, <4>1 DEF Promise!Next, Promise!Return
    <3>6. QED
      BY <3>3, <3>4, <3>5
  <2>3. QED
    BY <2>1, <2>2 DEF Next, Done
<1>3. TypeOK /\ Linked => ConvergedIsFirstOrder
  BY LinkedAnswers
<1>4. QED
  BY <1>1, <1>2, <1>3, LinkedCorrect, PTL DEF Spec

-----------------------------------------------------------------------------
(* The variational inequality.                                             *)

\* On the coefficients that were free the last converged solve leaves no more
\* stationarity than its tolerance.
Balanced ==
  iteration > 0 /\ kkt.converged =>
    \A i \in Controls :
      report.selection[i] = "inactive" => AbsInt(kkt.stationarity[i]) <= KKTTolerance

\* Every step keeps that.
LEMMA BalancedStep == TypeOK /\ Linked /\ Balanced /\ [Next]_vars => Balanced'
<1> SUFFICES ASSUME TypeOK, Linked, Balanced, [Next]_vars PROVE Balanced'
  OBVIOUS
<1>1. CASE Begin
  BY <1>1 DEF Begin, Balanced
<1>2. CASE Iterate
  <2>1. PICK k \in KKTSolutions(selection) : kkt' = k /\ Step(k)
    BY <1>2 DEF Iterate
  <2>2. report'.selection = selection
    BY <2>1 DEF Step, MakeReport
  <2>3. k.converged => \A i \in Free(selection) : AbsInt(k.stationarity[i]) <= KKTTolerance
    BY <2>1 DEF KKTSolutions
  <2>4. QED
    BY <2>1, <2>2, <2>3 DEF Balanced, Free
<1>3. CASE Throw \/ Done \/ UNCHANGED vars
  BY <1>3 DEF Throw, Done, vars, Balanced
<1>4. QED
  BY <1>1, <1>2, <1>3 DEF Next

\* What a label that the classification confirms says of a coefficient: its multiplier
\* pushes out of the box at the bound it is on, or it is free inside the box.
LEMMA ConfirmedSign ==
  ASSUME NEW u \in Control, NEW mu \in Control, NEW i \in Controls,
         Classify(u, mu)[i] = "upper" => u[i] = Upper[i],
         Classify(u, mu)[i] = "lower" => u[i] = Lower[i],
         Classify(u, mu)[i] = "inactive" => mu[i] = 0
  PROVE  \/ Classify(u, mu)[i] = "upper" /\ u[i] = Upper[i] /\ mu[i] > 0
         \/ Classify(u, mu)[i] = "lower" /\ u[i] = Lower[i] /\ mu[i] < 0
         \/ /\ Classify(u, mu)[i] = "inactive" /\ mu[i] = 0
            /\ Lower[i] <= u[i] /\ u[i] <= Upper[i]
<1> DEFINE m == ToPrimal(mu)[i]
           high == C * (u[i] - Upper[i])
           low == C * (u[i] - Lower[i])
<1>1. /\ u[i] \in Int /\ mu[i] \in Int /\ Lower[i] \in Int /\ Upper[i] \in Int
      /\ Lower[i] <= Upper[i] /\ Riesz[i] \in Nat \ {0} /\ C \in Nat \ {0}
  BY BoundsAssumption, RieszAssumption, PolicyAssumption DEF Control
<1>2. m = Riesz[i] * mu[i]
  BY DEF ToPrimal
<1>3. m \in Int /\ (m > 0 <=> mu[i] > 0) /\ (m < 0 <=> mu[i] < 0)
  BY <1>1, <1>2, ScaleSign
<1>4. Classify(u, mu)[i] = IF m + high > 0 THEN "upper" ELSE IF m + low < 0 THEN "lower" ELSE "inactive"
  BY DEF Classify
<1> HIDE DEF m
<1>5. /\ high \in Int /\ (high > 0 <=> u[i] > Upper[i])
      /\ low \in Int /\ (low < 0 <=> u[i] < Lower[i])
  <2>1. u[i] - Upper[i] \in Int /\ u[i] - Lower[i] \in Int
    BY <1>1
  <2>2. (high > 0 <=> u[i] - Upper[i] > 0) /\ (low < 0 <=> u[i] - Lower[i] < 0)
    BY <1>1, <2>1, ScaleSign
  <2>3. high \in Int /\ low \in Int
    BY <1>1, <2>1
  <2>4. QED
    BY <1>1, <2>2, <2>3
<1>6. (u[i] = Upper[i] => high = 0) /\ (u[i] = Lower[i] => low = 0)
  BY <1>1
<1> HIDE DEF high, low
<1>7. CASE m + high > 0
  BY <1>1, <1>3, <1>4, <1>5, <1>6, <1>7
<1>8. CASE ~(m + high > 0) /\ m + low < 0
  BY <1>1, <1>3, <1>4, <1>5, <1>6, <1>8
<1>9. CASE ~(m + high > 0) /\ ~(m + low < 0)
  <2>1. Classify(u, mu)[i] = "inactive" /\ mu[i] = 0
    BY <1>4, <1>9
  <2>2. m = 0
    BY <1>2, <1>1, <2>1
  <2>3. QED
    BY <1>1, <1>5, <1>9, <2>1, <2>2
<1>10. QED
  BY <1>7, <1>8, <1>9

\* The variational inequality of a box, coefficient by coefficient: no admissible
\* change of any coefficient has a negative first-order effect, but for what the
\* tolerance of the KKT solve leaves over the width of the interval.
SolvesInequality ==
  report.active_set_stable /\ report.kkt_solve_converged =>
    \A i \in Controls : \A v \in Lower[i] .. Upper[i] :
      kkt.stationarity[i] * (v - control[i]) >= -(KKTTolerance * (Upper[i] - Lower[i]))

\* A product with one factor bounded on both sides.
LEMMA BoundedProduct ==
  ASSUME NEW s \in Int, NEW t \in Nat, NEW x \in Int, NEW w \in Nat,
         AbsInt(s) <= t, AbsInt(x) <= w
  PROVE  s * x >= -(t * w)
<1>1. -t <= s /\ s <= t /\ -w <= x /\ x <= w
  BY DEF AbsInt
<1>2. CASE x >= 0
  <2>1. s * x >= -(t * x)
    <3>1. (s + t) * x >= 0
      BY <1>1, <1>2
    <3>2. (s + t) * x = s * x + t * x
      OBVIOUS
    <3>3. QED
      BY <3>1, <3>2
  <2>2. t * x <= t * w
    <3>1. t * (w - x) >= 0
      BY <1>1
    <3>2. t * (w - x) = t * w - t * x
      OBVIOUS
    <3>3. QED
      BY <3>1, <3>2
  <2>3. s * x \in Int /\ t * x \in Int /\ t * w \in Int
    OBVIOUS
  <2>4. QED
    BY <2>1, <2>2, <2>3
<1>3. CASE x < 0
  <2>1. s * x >= t * x
    <3>1. (t - s) * (-x) >= 0
      BY <1>1, <1>3
    <3>2. (t - s) * (-x) = s * x - t * x
      OBVIOUS
    <3>3. QED
      BY <3>1, <3>2
  <2>2. t * x >= -(t * w)
    <3>1. t * (w + x) >= 0
      BY <1>1
    <3>2. t * (w + x) = t * w + t * x
      OBVIOUS
    <3>3. QED
      BY <3>1, <3>2
  <2>3. s * x \in Int /\ t * x \in Int /\ t * w \in Int
    OBVIOUS
  <2>4. QED
    BY <2>1, <2>2, <2>3
<1>4. QED
  BY <1>2, <1>3

\* A product of factors of the same sign.
LEMMA SameSigns ==
  ASSUME NEW s \in Int, NEW x \in Int, (s >= 0 /\ x >= 0) \/ (s <= 0 /\ x <= 0)
  PROVE  s * x >= 0
OBVIOUS

\* A stable active set whose solve converged solves the variational inequality,
\* whether its intervals are proper or not, and however the sets changed before.
THEOREM InequalityCorrect == Spec => []SolvesInequality
<1>1. Init => Balanced
  BY DEF Init, Balanced
<1>2. TypeOK /\ Linked /\ Balanced => SolvesInequality
  <2> SUFFICES ASSUME TypeOK, Linked, Balanced, report.active_set_stable, report.kkt_solve_converged,
                      NEW i \in Controls, NEW v \in Lower[i] .. Upper[i]
               PROVE  kkt.stationarity[i] * (v - control[i]) >= -(KKTTolerance * (Upper[i] - Lower[i]))
    BY DEF SolvesInequality
  <2>1. iteration > 0
    BY PolicyAssumption DEF TypeOK, Linked, NoReport
  <2>2. control \in Control /\ multiplier \in Control
    BY DEF TypeOK
  <2>3. report.selection = selection /\ kkt.converged
    <3>1. report = MakeReport(report.selection, selection, kkt, multiplier)
      BY <2>1 DEF Linked
    <3>2. /\ MakeReport(report.selection, selection, kkt, multiplier).active_set_stable
             = (report.selection = selection)
          /\ MakeReport(report.selection, selection, kkt, multiplier).kkt_solve_converged
             = kkt.converged
      BY DEF MakeReport
    <3>3. QED
      BY <3>1, <3>2
  <2>4. Classify(control, multiplier) = selection
    BY <2>1 DEF Linked
  <2>5. /\ selection[i] = "upper" => control[i] = Upper[i]
        /\ selection[i] = "lower" => control[i] = Lower[i]
        /\ selection[i] = "inactive" => multiplier[i] = 0
    BY <2>1, <2>3 DEF Linked, BoxMultiplier
  <2> DEFINE s == kkt.stationarity[i]
             u == control[i]
  <2>6. /\ s \in Int /\ u \in Int /\ multiplier[i] \in Int /\ v \in Int
        /\ Lower[i] \in Int /\ Upper[i] \in Int /\ Lower[i] <= v /\ v <= Upper[i]
        /\ KKTTolerance \in Nat
    BY BoundsAssumption, DataAssumption DEF TypeOK, Control
  <2>7. selection[i] # "inactive" => multiplier[i] = -s
    BY <2>1, <2>3 DEF Linked, BoxMultiplier
  <2>8. selection[i] = "inactive" => AbsInt(s) <= KKTTolerance
    BY <2>1, <2>3 DEF Balanced
  <2>9. \/ selection[i] = "upper" /\ u = Upper[i] /\ multiplier[i] > 0
        \/ selection[i] = "lower" /\ u = Lower[i] /\ multiplier[i] < 0
        \/ selection[i] = "inactive" /\ Lower[i] <= u /\ u <= Upper[i]
    BY <2>2, <2>4, <2>5, ConfirmedSign
  <2> DEFINE w == Upper[i] - Lower[i]
             x == v - u
  <2>10. w \in Nat /\ x \in Int /\ KKTTolerance * w >= 0
    <3>1. w \in Nat /\ x \in Int
      BY <2>6
    <3>2. QED
      BY <2>6, <3>1, SameSigns
  <2>11. CASE selection[i] = "inactive"
    <3>1. AbsInt(x) <= w
      <4>1. Lower[i] <= u /\ u <= Upper[i]
        BY <2>9, <2>11
      <4> HIDE DEF u
      <4>2. -w <= x /\ x <= w
        BY <2>6, <4>1
      <4> HIDE DEF x, w
      <4>3. QED
        BY <2>10, <4>2 DEF AbsInt
    <3> HIDE DEF s, x, w
    <3>2. s * x >= -(KKTTolerance * w)
      BY <2>6, <2>8, <2>10, <2>11, <3>1, BoundedProduct
    <3>3. QED
      BY <3>2 DEF s, x, w
  <2>12. CASE selection[i] # "inactive"
    <3>1. (s >= 0 /\ x >= 0) \/ (s <= 0 /\ x <= 0)
      BY <2>6, <2>7, <2>9, <2>12
    <3> HIDE DEF s, x, w
    <3>2. s * x >= 0 /\ s * x \in Int /\ KKTTolerance * w \in Int
      BY <2>6, <2>10, <3>1, SameSigns
    <3>3. s * x >= -(KKTTolerance * w)
      BY <2>10, <3>2
    <3>4. QED
      BY <3>3 DEF s, x, w
  <2>13. QED
    BY <2>11, <2>12
<1>3. TypeOK /\ Linked /\ Balanced /\ [Next]_vars => Balanced'
  BY BalancedStep
<1>4. QED
  BY <1>1, <1>2, <1>3, LinkedCorrect, PTL DEF Spec
=============================================================================
