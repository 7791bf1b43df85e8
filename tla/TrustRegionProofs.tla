-------------------------- MODULE TrustRegionProofs --------------------------
(***************************************************************************)
(* Proofs about the trust-region loop for every iteration and trial limit, *)
(* every radii, thresholds and tolerances that validate_parameters()       *)
(* accepts, and every reduced model.                                       *)
(***************************************************************************)
EXTENDS TrustRegion, SequenceTheorems, TLAPS

-----------------------------------------------------------------------------
(* Lemmas about the operators of a trial.                                  *)

RecordType ==
  [iteration : Nat, before : Int, after : Int, predicted : Nat, actual : Int,
   stationarity : Nat, work : [Counters -> Int], total : WorkType]

\* Counting more work keeps the counters natural numbers.
LEMMA PlusType ==
  ASSUME NEW w \in WorkType, NEW s \in Nat, NEW a \in Nat, NEW m \in Nat, NEW h \in Nat
  PROVE  /\ Plus(w, s, a, m, h) \in WorkType
         /\ Plus(w, s, a, m, h)["state"] = w["state"] + s
         /\ Plus(w, s, a, m, h)["adjoint"] = w["adjoint"] + a
         /\ Plus(w, s, a, m, h)["metric"] = w["metric"] + m
         /\ Plus(w, s, a, m, h)["hessian"] = w["hessian"] + h
BY DEF Plus, WorkType, Counters

\* The work of one iteration is a difference of counters.
LEMMA MinusType ==
  ASSUME NEW v \in WorkType, NEW w \in WorkType
  PROVE  Minus(v, w) \in [Counters -> Int]
<1>1. \A c \in Counters : v[c] \in Nat /\ w[c] \in Nat
  BY DEF WorkType
<1>2. QED
  BY <1>1 DEF Minus

\* A subproblem returns a positive step inside the radius and a positive
\* predicted reduction.
LEMMA SubproblemType ==
  ASSUME radius \in Nat \ {0}, NEW sub \in Subproblems
  PROVE  /\ norm # 0
         /\ sub.step \in Nat /\ sub.step > 0 /\ sub.step <= radius
         /\ sub.predicted \in Nat /\ sub.predicted > 0
         /\ sub.metric \in Nat /\ sub.hessian \in Nat
<1>1. norm # 0
  BY DEF Subproblems
<1>2. /\ sub.step \in {t \in Steps : t <= radius} \cup {radius}
      /\ sub.predicted \in Predictions
      /\ sub.metric \in 0 .. MaximumSubproblemIterations
      /\ sub.hessian \in 0 .. MaximumSubproblemIterations
  <2>1. CASE policy.method = "cauchy"
    <3>1. sub \in CauchySubproblems
      BY <1>1, <2>1 DEF Subproblems
    <3>2. QED
      BY <3>1, LimitAssumption DEF CauchySubproblems
  <2>2. CASE policy.method # "cauchy"
    <3>1. sub \in TruncatedSubproblems
      BY <1>1, <2>2 DEF Subproblems
    <3>2. QED
      BY <3>1, LimitAssumption DEF TruncatedSubproblems
  <2>3. QED
    BY <2>1, <2>2
<1>3. sub.step \in Nat /\ sub.step > 0 /\ sub.step <= radius
  <2>1. CASE sub.step = radius
    BY <2>1
  <2>2. CASE sub.step \in Steps /\ sub.step <= radius
    <3>1. sub.step \in Nat \ {0}
      BY <2>2, DataAssumption
    <3>2. QED
      BY <2>2, <3>1
  <2>3. QED
    BY <1>2, <2>1, <2>2
<1>4. sub.predicted \in Nat \ {0}
  BY <1>2, DataAssumption
<1>5. sub.metric \in Nat /\ sub.hessian \in Nat
  BY <1>2, LimitAssumption
<1>6. QED
  BY <1>1, <1>3, <1>4, <1>5

\* Dividing by the shrink factor makes a radius smaller.
LEMMA DivideSmaller ==
  ASSUME NEW r \in Nat \ {0}, NEW d \in Nat \ {0, 1}
  PROVE  r \div d \in Nat /\ r \div d < r
<1>1. r \div d \in Nat
  OBVIOUS
<1>2. d * (r \div d) <= r
  OBVIOUS
<1>3. CASE r \div d = 0
  BY <1>3
<1>4. CASE r \div d > 0
  <2>1. d * (r \div d) >= 2 * (r \div d)
    BY <1>1
  <2>2. QED
    BY <1>1, <1>2, <1>4, <2>1
<1>5. QED
  BY <1>1, <1>3, <1>4

\* A shrunken radius is admissible, and smaller unless it is the least one.
LEMMA ShrunkType ==
  ASSUME radius \in MinimumRadius .. MaximumRadius
  PROVE  /\ Shrunk \in MinimumRadius .. MaximumRadius
         /\ Shrunk < radius \/ Shrunk <= MinimumRadius
         /\ Shrunk <= radius
<1>1. radius \div ShrinkDivisor \in Nat /\ radius \div ShrinkDivisor < radius
  BY DivideSmaller, RadiusAssumption
<1>2. QED
  BY <1>1, RadiusAssumption DEF Shrunk, AtLeast

\* The radius stays between its bounds after an accepted step, and grows only
\* when the model predicted the reduction well.
LEMMA AdaptedType ==
  ASSUME radius \in MinimumRadius .. MaximumRadius, NEW sub, NEW actual
  PROVE  /\ Adapted(sub, actual) \in MinimumRadius .. MaximumRadius
         /\ Adapted(sub, actual) > radius =>
              actual * RatioUnit > ExpansionThreshold * sub.predicted
<1>1. CASE /\ actual * RatioUnit > ExpansionThreshold * sub.predicted
           /\ 10 * sub.step >= 9 * radius
  <2>1. Adapted(sub, actual) = AtMost(MaximumRadius, ExpansionFactor * radius)
    BY <1>1 DEF Adapted
  <2>2. ExpansionFactor * radius \in Nat /\ ExpansionFactor * radius >= radius
    BY RadiusAssumption
  <2>3. QED
    BY <1>1, <2>1, <2>2, RadiusAssumption DEF AtMost
<1>2. CASE ~(/\ actual * RatioUnit > ExpansionThreshold * sub.predicted
             /\ 10 * sub.step >= 9 * radius)
  <2>1. Adapted(sub, actual) \in {Shrunk, radius}
    BY <1>2 DEF Adapted
  <2>2. QED
    BY <2>1, ShrunkType, RadiusAssumption
<1>3. QED
  BY <1>1, <1>2

-----------------------------------------------------------------------------
(* Type correctness and the records.                                       *)

\* The inductive invariant: the histories are as long as the records say, the
\* last entries belong to the current iterate, and every record so far would
\* pass the audit.
Recorded ==
  /\ status = "called" => objectives = <<>> /\ norms = <<>> /\ records = <<>>
  /\ status \in {"outer", "trial"} =>
       /\ Len(objectives) = Len(records) + 1
       /\ objectives[Len(objectives)] = objective
       /\ Len(norms) = IF status = "outer" THEN Len(records) ELSE Len(records) + 1
       /\ status = "trial" => norms[Len(norms)] = norm
       /\ AcceptanceThreshold > 0 => Audit(records, objectives, norms)
  /\ status = "trial" =>
       norm > 0 /\ Len(records) < MaximumIterations /\ trial < MaximumTrials
  /\ Len(records) <= MaximumIterations
  /\ AcceptanceThreshold > 0 => status # "audit_failed"

\* An accepted trial has a positive reduction when the threshold is positive.
LEMMA AcceptedReduction ==
  ASSUME NEW predicted \in Nat \ {0}, NEW value \in Objectives \cup {NotFinite},
         objective \in Int \cup {NotFinite}, Acceptable(predicted, value)
  PROVE  /\ objective \in Int /\ value \in Int
         /\ objective - value \in Int
         /\ objective - value >= 0
         /\ AcceptanceThreshold > 0 => objective - value > 0
<1>1. objective \in Int /\ value \in Int
  BY DataAssumption DEF Acceptable, Finite
<1>2. (objective - value) * RatioUnit >= AcceptanceThreshold * predicted
  BY DEF Acceptable
<1> DEFINE drop == objective - value
<1>3. drop \in Int /\ drop * RatioUnit >= AcceptanceThreshold * predicted
  BY <1>1, <1>2
<1> HIDE DEF drop
<1>4. AcceptanceThreshold * predicted \in Nat
  BY ThresholdAssumption
<1>5. drop >= 0
  <2>1. CASE drop < 0
    <3>1. drop * RatioUnit < 0
      BY <1>3, <2>1, ThresholdAssumption
    <3>2. QED
      BY <1>3, <1>4, <3>1, ThresholdAssumption
  <2>2. QED
    BY <1>3, <2>1
<1>6. AcceptanceThreshold > 0 => drop > 0
  <2>1. SUFFICES ASSUME AcceptanceThreshold > 0, drop = 0
                 PROVE  FALSE
    BY <1>3, <1>5
  <2>2. AcceptanceThreshold * predicted > 0
    BY <2>1, ThresholdAssumption
  <2>3. drop * RatioUnit = 0
    BY <2>1, ThresholdAssumption
  <2>4. QED
    BY <1>3, <1>4, <2>2, <2>3
<1>7. QED
  BY <1>1, <1>5, <1>6 DEF drop

\* The record of an accepted step is well formed, and passes the audit when the
\* acceptance threshold is positive.
LEMMA RecordTyped ==
  ASSUME TypeOK, NEW sub \in Subproblems,
         NEW value \in Objectives \cup {NotFinite},
         Acceptable(sub.predicted, value)
  PROVE  /\ Record(sub, value) \in RecordType
         /\ Record(sub, value).iteration = Len(records) + 1
         /\ Record(sub, value).before = objective
         /\ Record(sub, value).after = value
         /\ Record(sub, value).stationarity = norm
         /\ Record(sub, value).predicted = sub.predicted
         /\ Record(sub, value).predicted > 0
         /\ Record(sub, value).actual = objective - value
         /\ AcceptanceThreshold > 0 => Record(sub, value).actual > 0
<1> DEFINE total == Plus(work, 1, 1, sub.metric, sub.hessian)
<1>1. radius \in Nat \ {0}
  BY RadiusAssumption DEF TypeOK
<1>2. /\ sub.predicted \in Nat /\ sub.predicted > 0
      /\ sub.metric \in Nat /\ sub.hessian \in Nat
  BY <1>1, SubproblemType
<1>3. /\ objective \in Int /\ value \in Int /\ objective - value \in Int
      /\ AcceptanceThreshold > 0 => objective - value > 0
  <2>1. objective \in Int \cup {NotFinite} /\ sub.predicted \in Nat \ {0}
    BY <1>2 DEF TypeOK
  <2>2. QED
    BY <2>1, AcceptedReduction
<1>4. total \in WorkType
  BY <1>2, PlusType DEF TypeOK
<1>5. Minus(total, workBefore) \in [Counters -> Int]
  BY <1>4, MinusType DEF TypeOK
<1>6. Len(records) + 1 \in Nat /\ norm \in Nat
  BY DEF TypeOK
<1> HIDE DEF total
<1>7. Record(sub, value) =
        [iteration |-> Len(records) + 1, before |-> objective, after |-> value,
         predicted |-> sub.predicted, actual |-> objective - value,
         stationarity |-> norm, work |-> Minus(total, workBefore), total |-> total]
  BY DEF Record, total
<1>8. QED
  BY <1>2, <1>3, <1>4, <1>5, <1>6, <1>7 DEF RecordType

\* When no test at the head of the loop fires, the gradient is not zero and an
\* iteration is left.
LEMMA OuterGoesOn ==
  ASSUME policy \in [criterion : Criteria, method : Methods],
         NEW n \in Nat, NEW first \in Nat, NEW accepted \in Nat,
         HeadReason(n, first, accepted) = "none"
  PROVE  n > 0 /\ accepted # MaximumIterations
<1>1. ~GradientStop(n) /\ ~RelativeStop(n, first) /\ ~StationaryStop(n)
  BY DEF HeadReason
<1>2. accepted # MaximumIterations
  BY <1>1 DEF HeadReason
<1>3. policy.criterion \in Criteria
  OBVIOUS
<1>4. CASE policy.criterion \in {"automatic", "gradient_norm"}
  BY <1>1, <1>2, <1>4, ToleranceAssumption DEF GradientStop, Automatic, Selected
<1>5. CASE policy.criterion = "relative_gradient_norm"
  <2>1. ~(first > 0 => n * RatioUnit <= RelativeTolerance * first)
    BY <1>1, <1>5 DEF RelativeStop, Automatic, Selected
  <2>2. RelativeTolerance \in Nat \ {0}
    BY <1>3, <1>5, ToleranceAssumption
  <2>3. CASE n = 0
    <3>1. n * RatioUnit = 0 /\ RelativeTolerance * first >= 0
      BY <2>2, <2>3, ThresholdAssumption
    <3>2. QED
      BY <2>1, <2>2, <3>1
  <2>4. QED
    BY <1>2, <2>3
<1>6. CASE policy.criterion \in {"objective_change", "step_norm"}
  BY <1>1, <1>2, <1>6, ToleranceAssumption DEF StationaryStop, Selected
<1>7. QED
  BY <1>2, <1>3, <1>4, <1>5, <1>6, ToleranceAssumption

\* A reason or "none" is all the head and the tail of the loop can answer.
LEMMA ReasonType ==
  ASSUME NEW n, NEW first, NEW accepted, NEW sub, NEW actual
  PROVE  /\ HeadReason(n, first, accepted) \in Reasons \cup {"none"}
         /\ TailReason(sub, actual) \in Reasons \cup {"none"}
BY DEF HeadReason, TailReason, Reasons

\* Finishing reports the reason exactly when the audit passes.
LEMMA FinishType ==
  ASSUME NEW reason \in Reasons, NEW recs, NEW objs, NEW ns
  PROVE  /\ Finish(reason, recs, objs, ns) \in Finished
         /\ Audit(recs, objs, ns) => Finish(reason, recs, objs, ns) # "audit_failed"
         /\ Finish(reason, recs, objs, ns) \notin {"called", "outer", "trial"}
BY DEF Finish, Finished, Failures, Reasons

\* A new entry of the gradient history does not disturb the audit of the
\* records before it.
LEMMA AuditAppendNorm ==
  ASSUME NEW recs \in Seq(RecordType), NEW objs, NEW ns \in Seq(Nat), NEW n \in Nat,
         Len(ns) = Len(recs), Audit(recs, objs, ns)
  PROVE  Audit(recs, objs, Append(ns, n))
<1>1. \A i \in 1 .. Len(recs) : Append(ns, n)[i] = ns[i]
  OBVIOUS
<1>2. QED
  BY <1>1 DEF Audit

\* A record that agrees with the ends of the histories extends the audit.
LEMMA AuditAppendRecord ==
  ASSUME NEW recs \in Seq(RecordType), NEW r \in RecordType,
         NEW objs \in Seq(Int \cup {NotFinite}), NEW value \in Int,
         NEW ns \in Seq(Nat),
         Len(objs) = Len(recs) + 1, Len(ns) = Len(recs) + 1,
         Audit(recs, objs, ns),
         r.iteration = Len(recs) + 1, r.before = objs[Len(objs)], r.after = value,
         r.stationarity = ns[Len(ns)], r.predicted > 0, r.actual > 0
  PROVE  Audit(Append(recs, r), Append(objs, value), ns)
<1>1. /\ Len(Append(recs, r)) = Len(recs) + 1
      /\ \A i \in 1 .. Len(recs) : Append(recs, r)[i] = recs[i]
      /\ Append(recs, r)[Len(recs) + 1] = r
  OBVIOUS
<1>2. /\ \A i \in 1 .. Len(objs) : Append(objs, value)[i] = objs[i]
      /\ Append(objs, value)[Len(objs) + 1] = value
  OBVIOUS
<1>3. Len(recs) \in Nat /\ Len(objs) \in Nat
  OBVIOUS
<1> SUFFICES ASSUME NEW i \in 1 .. Len(recs) + 1
             PROVE  LET e == Append(recs, r)[i] IN
                    /\ e.iteration = i
                    /\ e.before = Append(objs, value)[i]
                    /\ e.after = Append(objs, value)[i + 1]
                    /\ e.stationarity = ns[i]
                    /\ e.predicted > 0 /\ e.actual > 0
  BY <1>1 DEF Audit
<1>4. CASE i = Len(recs) + 1
  BY <1>1, <1>2, <1>3, <1>4
<1>5. CASE i # Len(recs) + 1
  <2>1. i \in 1 .. Len(recs) /\ i \in 1 .. Len(objs) /\ i + 1 \in 1 .. Len(objs)
    BY <1>3, <1>5
  <2>2. /\ Append(recs, r)[i] = recs[i] /\ Append(objs, value)[i] = objs[i]
        /\ Append(objs, value)[i + 1] = objs[i + 1]
    BY <1>1, <1>2, <2>1
  <2>3. /\ recs[i].iteration = i
        /\ recs[i].before = objs[i] /\ recs[i].after = objs[i + 1]
        /\ recs[i].stationarity = ns[i]
        /\ recs[i].predicted > 0 /\ recs[i].actual > 0
    BY <2>1 DEF Audit
  <2>4. QED
    BY <2>2, <2>3
<1>6. QED
  BY <1>4, <1>5

-----------------------------------------------------------------------------
(* The inductive step.                                                     *)

LEMMA TypeInit == Init => TypeOK /\ Recorded
<1> SUFFICES ASSUME Init PROVE TypeOK /\ Recorded
  OBVIOUS
<1>1. NoWork \in WorkType
  BY DEF NoWork, WorkType
<1>2. radius \in MinimumRadius .. MaximumRadius
  BY RadiusAssumption DEF Init
<1>3. objective \in Int \cup {NotFinite} /\ norm \in Nat /\ trial \in 0 .. MaximumTrials
  BY DataAssumption, LimitAssumption DEF Init
<1>4. /\ objectives \in Seq(Int \cup {NotFinite}) /\ norms \in Seq(Nat)
      /\ records \in Seq(RecordType) /\ Len(records) <= MaximumIterations
  BY LimitAssumption DEF Init
<1>5. QED
  BY <1>1, <1>2, <1>3, <1>4 DEF Init, TypeOK, Recorded, RecordType

LEMMA EvaluateStep == TypeOK /\ Recorded /\ Evaluate => TypeOK' /\ Recorded'
<1> SUFFICES ASSUME TypeOK, Recorded, Evaluate PROVE TypeOK' /\ Recorded'
  OBVIOUS
<1>1. work' \in WorkType
  BY PlusType DEF Evaluate, TypeOK
<1>2. /\ objectives' \in Seq(Int \cup {NotFinite}) /\ Len(objectives') = 1
      /\ objectives'[1] = objective
  BY DEF Evaluate, TypeOK
<1>3. records = <<>> /\ norms = <<>> /\ Len(records) = 0 /\ Len(norms) = 0
  BY DEF Evaluate, Recorded
<1>4. TypeOK'
  BY <1>1, <1>2 DEF Evaluate, TypeOK
<1>5. Audit(records', objectives', norms')
  BY <1>3 DEF Evaluate, Audit
<1>6. Recorded'
  BY <1>2, <1>3, <1>5, LimitAssumption DEF Evaluate, Recorded
<1>7. QED
  BY <1>4, <1>6

LEMMA OuterStep == TypeOK /\ Recorded /\ Outer => TypeOK' /\ Recorded'
<1> SUFFICES ASSUME TypeOK, Recorded, Outer PROVE TypeOK' /\ Recorded'
  OBVIOUS
<1> DEFINE ns     == Append(norms, norm)
           reason == HeadReason(norm, ns[1], Len(records))
<1>1. /\ status = "outer" /\ norms' = ns /\ workBefore' = work /\ trial' = 0
      /\ status' = IF reason = "none" THEN "trial"
                   ELSE Finish(reason, records, objectives, ns)
      /\ UNCHANGED <<policy, objective, norm, radius, trials, objectives, records>>
  BY DEF Outer
<1>2. /\ ns \in Seq(Nat) /\ Len(ns) = Len(norms) + 1 /\ ns[Len(ns)] = norm
      /\ ns[1] \in Nat /\ norm \in Nat /\ Len(records) \in Nat
  <2>1. norms \in Seq(Nat) /\ norm \in Nat
    BY DEF TypeOK
  <2>2. ns \in Seq(Nat) /\ Len(ns) = Len(norms) + 1 /\ ns[Len(ns)] = norm
    BY <2>1
  <2>3. ns[1] \in Nat
    BY <2>2, <2>1
  <2>4. QED
    BY <2>1, <2>2, <2>3 DEF TypeOK
<1>3. work' \in WorkType
  <2>1. PICK c \in {0, 1} : work' = Plus(work, 0, 0, 1, c)
    BY DEF Outer
  <2>2. work \in WorkType /\ 0 \in Nat /\ 1 \in Nat /\ c \in Nat
    BY DEF TypeOK
  <2>3. Plus(work, 0, 0, 1, c) \in WorkType
    BY <2>2, PlusType
  <2>4. QED
    BY <2>1, <2>3
<1>4. AcceptanceThreshold > 0 => Audit(records, objectives, ns)
  BY <1>1, AuditAppendNorm DEF TypeOK, Recorded, RecordType
<1>5. reason \in Reasons \cup {"none"}
  BY ReasonType
<1>6. reason = "none" => norm > 0 /\ Len(records) # MaximumIterations
  <2>1. policy \in [criterion : Criteria, method : Methods]
    BY DEF TypeOK
  <2>2. QED
    BY <1>2, <2>1, OuterGoesOn
<1> HIDE DEF ns, reason
<1>7. TypeOK'
  <2>1. status' \in {"trial"} \cup Finished
    BY <1>1, <1>5, FinishType
  <2>2. trial' \in 0 .. MaximumTrials
    BY <1>1, LimitAssumption
  <2>3. QED
    BY <1>1, <1>2, <1>3, <2>1, <2>2 DEF TypeOK
<1>8. CASE reason = "none"
  <2>1. status' = "trial"
    BY <1>1, <1>8
  <2>2. norm > 0 /\ Len(records) < MaximumIterations /\ 0 < MaximumTrials
    BY <1>2, <1>6, <1>8, LimitAssumption DEF Recorded
  <2>3. QED
    BY <1>1, <1>2, <1>4, <1>7, <2>1, <2>2 DEF Recorded
<1>9. CASE reason # "none"
  <2>1. status' \notin {"called", "outer", "trial"}
    BY <1>1, <1>5, <1>9, FinishType
  <2>2. AcceptanceThreshold > 0 => status' # "audit_failed"
    BY <1>1, <1>4, <1>5, <1>9, FinishType
  <2>3. QED
    BY <1>1, <1>7, <2>1, <2>2 DEF Recorded
<1>10. QED
  BY <1>8, <1>9

LEMMA AcceptStep == TypeOK /\ Recorded /\ Accept => TypeOK' /\ Recorded'
<1> SUFFICES ASSUME TypeOK, Recorded, Accept PROVE TypeOK' /\ Recorded'
  OBVIOUS
<1>1. PICK sub \in Subproblems, value \in Objectives \cup {NotFinite} :
        /\ Acceptable(sub.predicted, value)
        /\ records' = Append(records, Record(sub, value))
        /\ objectives' = Append(objectives, value)
        /\ status' = IF TailReason(sub, objective - value) = "none" THEN "outer"
                     ELSE Finish(TailReason(sub, objective - value),
                                 Append(records, Record(sub, value)),
                                 Append(objectives, value), norms)
        /\ objective' = value
        /\ work' = Plus(work, 1, 1, sub.metric, sub.hessian)
        /\ radius' = Adapted(sub, objective - value)
  BY DEF Accept
<1>2. /\ status = "trial" /\ norm' \in Norms /\ trials' = trials + 1
      /\ UNCHANGED <<policy, trial, norms, workBefore>>
  BY DEF Accept
<1>3. radius \in Nat \ {0} /\ radius \in MinimumRadius .. MaximumRadius
  BY RadiusAssumption DEF TypeOK
<1>4. sub.predicted \in Nat \ {0} /\ sub.metric \in Nat /\ sub.hessian \in Nat
  BY <1>3, SubproblemType
<1>5. objective \in Int /\ value \in Int
  BY <1>1, <1>4, AcceptedReduction DEF TypeOK
<1> DEFINE r == Record(sub, value)
<1>6. /\ r \in RecordType
      /\ r.iteration = Len(records) + 1 /\ r.before = objective /\ r.after = value
      /\ r.stationarity = norm /\ r.predicted > 0
      /\ AcceptanceThreshold > 0 => r.actual > 0
  BY <1>1, RecordTyped
<1>7. /\ records \in Seq(RecordType) /\ objectives \in Seq(Int \cup {NotFinite})
      /\ norms \in Seq(Nat)
      /\ Len(objectives) = Len(records) + 1 /\ Len(norms) = Len(records) + 1
      /\ objectives[Len(objectives)] = objective /\ norms[Len(norms)] = norm
      /\ Len(records) < MaximumIterations
      /\ AcceptanceThreshold > 0 => Audit(records, objectives, norms)
  BY <1>2 DEF TypeOK, Recorded, RecordType
<1> HIDE DEF r
<1>8. /\ records' \in Seq(RecordType) /\ Len(records') = Len(records) + 1
      /\ objectives' \in Seq(Int \cup {NotFinite})
      /\ Len(objectives') = Len(objectives) + 1
      /\ objectives'[Len(objectives')] = value
  BY <1>1, <1>5, <1>6, <1>7 DEF r
<1>9. AcceptanceThreshold > 0 => Audit(records', objectives', norms)
  <2>1. SUFFICES ASSUME AcceptanceThreshold > 0
                 PROVE  Audit(Append(records, r), Append(objectives, value), norms)
    BY <1>1 DEF r
  <2>2. QED
    BY <1>5, <1>6, <1>7, <2>1, AuditAppendRecord
<1>10. TypeOK'
  <2>1. work' \in WorkType
    <3>1. work \in WorkType
      BY DEF TypeOK
    <3>2. Plus(work, 1, 1, sub.metric, sub.hessian) \in WorkType
      BY <1>4, <3>1, PlusType
    <3>3. QED
      BY <1>1, <3>2
  <2>2. radius' \in MinimumRadius .. MaximumRadius
    BY <1>1, <1>3, AdaptedType
  <2>3. status' \in {"outer"} \cup Finished
    BY <1>1, ReasonType, FinishType
  <2>4. norm' \in Nat /\ trials' \in Nat
    BY <1>2, DataAssumption DEF TypeOK
  <2>5. QED
    BY <1>1, <1>2, <1>5, <1>8, <2>1, <2>2, <2>3, <2>4 DEF TypeOK, RecordType
<1>11. Len(records') <= MaximumIterations
  BY <1>7, <1>8, LimitAssumption
<1>12. CASE TailReason(sub, objective - value) = "none"
  <2>1. status' = "outer"
    BY <1>1, <1>12
  <2>2. Len(objectives') = Len(records') + 1 /\ Len(norms') = Len(records')
    BY <1>2, <1>7, <1>8
  <2>3. QED
    BY <1>1, <1>2, <1>8, <1>9, <1>10, <1>11, <2>1, <2>2 DEF Recorded
<1>13. CASE TailReason(sub, objective - value) # "none"
  <2>1. status' = Finish(TailReason(sub, objective - value), records', objectives', norms)
    BY <1>1, <1>13
  <2>2. status' \notin {"called", "outer", "trial"}
    BY <1>13, <2>1, ReasonType, FinishType
  <2>3. AcceptanceThreshold > 0 => status' # "audit_failed"
    BY <1>9, <1>13, <2>1, ReasonType, FinishType
  <2>4. QED
    BY <1>10, <1>11, <2>2, <2>3 DEF Recorded
<1>14. QED
  BY <1>12, <1>13

LEMMA RejectStep == TypeOK /\ Recorded /\ Reject => TypeOK' /\ Recorded'
<1> SUFFICES ASSUME TypeOK, Recorded, Reject PROVE TypeOK' /\ Recorded'
  OBVIOUS
<1>1. PICK sub \in Subproblems : work' = Plus(work, 1, 0, sub.metric, sub.hessian)
  BY DEF Reject
<1>2. /\ status = "trial" /\ radius' = Shrunk
      /\ trials' = trials + 1 /\ trial' = trial + 1
      /\ status' = IF Shrunk <= MinimumRadius
                   THEN Finish("radius_too_small", records, objectives, norms)
                   ELSE IF trial + 1 = MaximumTrials
                   THEN Finish("trial_limit", records, objectives, norms)
                   ELSE "trial"
      /\ UNCHANGED <<policy, objective, norm, objectives, norms, records, workBefore>>
  BY DEF Reject
<1>3. radius \in Nat \ {0} /\ radius \in MinimumRadius .. MaximumRadius
  BY RadiusAssumption DEF TypeOK
<1>4. work' \in WorkType
  BY <1>1, <1>3, SubproblemType, PlusType DEF TypeOK
<1>5. radius' \in MinimumRadius .. MaximumRadius
  BY <1>2, <1>3, ShrunkType
<1>6. /\ trial < MaximumTrials /\ trial \in Nat
      /\ AcceptanceThreshold > 0 => Audit(records, objectives, norms)
  BY <1>2, LimitAssumption DEF TypeOK, Recorded
<1>7. "radius_too_small" \in Reasons /\ "trial_limit" \in Reasons
  BY DEF Reasons
<1>8. TypeOK'
  <2>1. status' \in {"trial"} \cup Finished
    BY <1>2, <1>7, FinishType
  <2>2. trial' \in 0 .. MaximumTrials /\ trials' \in Nat
    BY <1>2, <1>6, LimitAssumption DEF TypeOK
  <2>3. QED
    BY <1>2, <1>4, <1>5, <2>1, <2>2 DEF TypeOK
<1>9. CASE status' = "trial"
  <2>1. trial' < MaximumTrials
    BY <1>2, <1>6, <1>7, <1>9, FinishType, LimitAssumption
  <2>2. QED
    BY <1>2, <1>6, <1>8, <1>9, <2>1 DEF Recorded
<1>10. CASE status' # "trial"
  <2>1. \/ status' = Finish("radius_too_small", records, objectives, norms)
        \/ status' = Finish("trial_limit", records, objectives, norms)
    BY <1>2, <1>10
  <2>2. /\ status' \notin {"called", "outer", "trial"}
        /\ AcceptanceThreshold > 0 => status' # "audit_failed"
    BY <1>6, <1>7, <2>1, FinishType
  <2>3. QED
    BY <1>2, <1>8, <2>2 DEF Recorded
<1>11. QED
  BY <1>9, <1>10

LEMMA RecordedStep == TypeOK /\ Recorded /\ [Next]_vars => TypeOK' /\ Recorded'
<1> SUFFICES ASSUME TypeOK, Recorded, [Next]_vars PROVE TypeOK' /\ Recorded'
  OBVIOUS
<1>1. CASE Evaluate
  BY <1>1, EvaluateStep
<1>2. CASE Outer
  BY <1>2, OuterStep
<1>3. CASE Accept
  BY <1>3, AcceptStep
<1>4. CASE Reject
  BY <1>4, RejectStep
<1>5. CASE Throw
  BY <1>5 DEF Throw, TypeOK, Recorded, Finished, Failures
<1>6. CASE UNCHANGED vars
  BY <1>6 DEF vars, TypeOK, Recorded, Audit
<1>7. QED
  BY <1>1, <1>2, <1>3, <1>4, <1>5, <1>6 DEF Next, Done

\* The two inductive invariants hold in every state.
LEMMA RecordedCorrect == Spec => [](TypeOK /\ Recorded)
<1>1. TypeOK /\ Recorded /\ [Next]_vars => TypeOK' /\ Recorded'
  BY RecordedStep
<1>2. QED
  BY <1>1, TypeInit, PTL DEF Spec

-----------------------------------------------------------------------------
(* The work counters.                                                      *)

FirstWork == Plus(NoWork, 1, 1, 0, 0)

\* The totals at the end of the last accepted iteration.
Baseline(recs) == IF recs = <<>> THEN FirstWork ELSE recs[Len(recs)].total

\* The part of WorkAccounted that speaks of the records.
Counted(recs) ==
  \A i \in 1 .. Len(recs) :
    recs[i].work = Minus(recs[i].total, IF i = 1 THEN FirstWork ELSE recs[i - 1].total)

\* The inductive invariant of the counters: between iterations they are at the
\* totals of the last record, and an iteration remembers where it started.
Accounted ==
  /\ status = "called" => work = NoWork /\ trials = 0
  /\ status \notin {"called", "contract_error"} => objectives # <<>>
  /\ objectives # <<>> =>
       /\ work["state"] = 1 + trials
       /\ work["adjoint"] = Len(objectives)
       /\ policy.method = "cauchy" => work["metric"] = Len(norms)
  /\ Counted(records)
  /\ status = "outer" => work = Baseline(records)
  /\ status = "trial" => workBefore = Baseline(records)

\* A record whose work starts at the totals of the one before it continues the
\* account.
LEMMA CountedAppend ==
  ASSUME NEW recs \in Seq(RecordType), NEW r \in RecordType, Counted(recs),
         r.work = Minus(r.total, Baseline(recs))
  PROVE  Counted(Append(recs, r)) /\ Baseline(Append(recs, r)) = r.total
<1>1. /\ Len(Append(recs, r)) = Len(recs) + 1
      /\ \A i \in 1 .. Len(recs) : Append(recs, r)[i] = recs[i]
      /\ Append(recs, r)[Len(recs) + 1] = r
      /\ Append(recs, r) # <<>> /\ Len(recs) \in Nat
      /\ recs = <<>> <=> Len(recs) = 0
  OBVIOUS
<1> SUFFICES ASSUME NEW i \in 1 .. Len(recs) + 1
             PROVE  LET e == Append(recs, r)[i] IN
                    e.work = Minus(e.total, IF i = 1 THEN FirstWork
                                            ELSE Append(recs, r)[i - 1].total)
  BY <1>1 DEF Counted, Baseline
<1>2. CASE i = Len(recs) + 1
  <2>1. Baseline(recs) = IF i = 1 THEN FirstWork ELSE Append(recs, r)[i - 1].total
    BY <1>1, <1>2 DEF Baseline
  <2>2. QED
    BY <1>1, <1>2, <2>1
<1>3. CASE i # Len(recs) + 1
  <2>1. i \in 1 .. Len(recs) /\ (i # 1 => i - 1 \in 1 .. Len(recs))
    BY <1>1, <1>3
  <2>2. Append(recs, r)[i] = recs[i] /\ (i # 1 => Append(recs, r)[i - 1] = recs[i - 1])
    BY <1>1, <2>1
  <2>3. QED
    BY <2>1, <2>2 DEF Counted
<1>4. QED
  BY <1>2, <1>3

\* A Cauchy step makes no metric solve of its own.
LEMMA CauchyIsFree ==
  ASSUME NEW sub \in Subproblems, policy.method = "cauchy"
  PROVE  sub.metric = 0
BY DEF Subproblems, CauchySubproblems

LEMMA AccountedInit == Init => Accounted
<1> SUFFICES ASSUME Init PROVE Accounted
  OBVIOUS
<1>1. records = <<>> /\ Len(records) = 0
  BY DEF Init
<1>2. Counted(records)
  BY <1>1 DEF Counted
<1>3. QED
  BY <1>2 DEF Init, Accounted

LEMMA AccountedEvaluate == TypeOK /\ Recorded /\ Accounted /\ Evaluate => Accounted'
<1> SUFFICES ASSUME TypeOK, Recorded, Accounted, Evaluate PROVE Accounted'
  OBVIOUS
<1>1. /\ status' = "outer" /\ records = <<>> /\ records' = <<>>
      /\ norms' = <<>> /\ Len(norms') = 0
      /\ objectives' = <<objective>> /\ Len(objectives') = 1 /\ objectives' # <<>>
      /\ trials' = 0 /\ work' = FirstWork
  BY DEF Evaluate, Recorded, Accounted, FirstWork
<1>2. NoWork \in WorkType /\ "state" \in Counters /\ "adjoint" \in Counters /\ "metric" \in Counters
  BY DEF NoWork, WorkType, Counters
<1>3. work'["state"] = 1 /\ work'["adjoint"] = 1 /\ work'["metric"] = 0
  <2>1. NoWork["state"] = 0 /\ NoWork["adjoint"] = 0 /\ NoWork["metric"] = 0
    BY <1>2 DEF NoWork
  <2>2. QED
    BY <1>1, <1>2, <2>1, PlusType DEF FirstWork
<1>4. Counted(records')
  BY <1>1 DEF Counted
<1>5. QED
  BY <1>1, <1>3, <1>4 DEF Accounted, Baseline

LEMMA AccountedOuter == TypeOK /\ Recorded /\ Accounted /\ Outer => Accounted'
<1> SUFFICES ASSUME TypeOK, Recorded, Accounted, Outer PROVE Accounted'
  OBVIOUS
<1>1. PICK c \in {0, 1} : work' = Plus(work, 0, 0, 1, c)
  BY DEF Outer
<1>2. /\ status = "outer" /\ workBefore' = work
      /\ norms' = Append(norms, norm) /\ status' # "called" /\ status' # "outer"
      /\ UNCHANGED <<policy, trials, objectives, records>>
  <2>1. HeadReason(norm, Append(norms, norm)[1], Len(records)) \in Reasons \cup {"none"}
    BY ReasonType
  <2>2. QED
    BY <2>1, FinishType DEF Outer
<1>3. /\ work \in WorkType /\ norms \in Seq(Nat) /\ norm \in Nat
      /\ work["state"] \in Nat /\ work["adjoint"] \in Nat /\ work["metric"] \in Nat
  BY DEF TypeOK, WorkType, Counters
<1>4. Len(norms') = Len(norms) + 1
  BY <1>2, <1>3
<1>5. /\ work'["state"] = work["state"] /\ work'["adjoint"] = work["adjoint"]
      /\ work'["metric"] = work["metric"] + 1
  <2>1. 0 \in Nat /\ 1 \in Nat /\ c \in Nat
    OBVIOUS
  <2>2. /\ Plus(work, 0, 0, 1, c)["state"] = work["state"] + 0
        /\ Plus(work, 0, 0, 1, c)["adjoint"] = work["adjoint"] + 0
        /\ Plus(work, 0, 0, 1, c)["metric"] = work["metric"] + 1
    BY <1>3, <2>1 DEF Plus, Counters
  <2>3. QED
    BY <1>1, <1>3, <2>2
<1>6. objectives # <<>> /\ objectives' # <<>>
  BY <1>2 DEF Accounted
<1>7. /\ work'["state"] = 1 + trials' /\ work'["adjoint"] = Len(objectives')
      /\ policy'.method = "cauchy" => work'["metric"] = Len(norms')
  BY <1>2, <1>4, <1>5, <1>6 DEF Accounted
<1>8. Counted(records') /\ workBefore' = Baseline(records')
  BY <1>2 DEF Accounted
<1>9. QED
  BY <1>2, <1>6, <1>7, <1>8 DEF Accounted

LEMMA AccountedAccept == TypeOK /\ Recorded /\ Accounted /\ Accept => Accounted'
<1> SUFFICES ASSUME TypeOK, Recorded, Accounted, Accept PROVE Accounted'
  OBVIOUS
<1>1. PICK sub \in Subproblems, value \in Objectives \cup {NotFinite} :
        /\ Acceptable(sub.predicted, value)
        /\ records' = Append(records, Record(sub, value))
        /\ objectives' = Append(objectives, value)
        /\ status' = IF TailReason(sub, objective - value) = "none" THEN "outer"
                     ELSE Finish(TailReason(sub, objective - value),
                                 Append(records, Record(sub, value)),
                                 Append(objectives, value), norms)
        /\ work' = Plus(work, 1, 1, sub.metric, sub.hessian)
  BY DEF Accept
<1>2. /\ status = "trial" /\ trials' = trials + 1
      /\ UNCHANGED <<policy, norms, workBefore>>
  BY DEF Accept
<1> DEFINE r == Record(sub, value)
<1>3. r \in RecordType /\ r.work = Minus(work', workBefore) /\ r.total = work'
  BY <1>1, RecordTyped DEF Record
<1>4. /\ records \in Seq(RecordType) /\ objectives \in Seq(Int \cup {NotFinite})
      /\ work \in WorkType /\ trials \in Nat /\ value \in Int \cup {NotFinite}
      /\ work["state"] \in Nat /\ work["adjoint"] \in Nat /\ work["metric"] \in Nat
  BY DataAssumption DEF TypeOK, RecordType, WorkType, Counters
<1>5. sub.metric \in Nat /\ sub.hessian \in Nat
  BY SubproblemType, RadiusAssumption DEF TypeOK
<1> HIDE DEF r
<1>6. /\ work'["state"] = work["state"] + 1 /\ work'["adjoint"] = work["adjoint"] + 1
      /\ work'["metric"] = work["metric"] + sub.metric
  <2>1. 1 \in Nat
    OBVIOUS
  <2>2. /\ Plus(work, 1, 1, sub.metric, sub.hessian)["state"] = work["state"] + 1
        /\ Plus(work, 1, 1, sub.metric, sub.hessian)["adjoint"] = work["adjoint"] + 1
        /\ Plus(work, 1, 1, sub.metric, sub.hessian)["metric"] = work["metric"] + sub.metric
    BY <1>4, <1>5, <2>1 DEF Plus, Counters
  <2>3. QED
    BY <1>1, <1>4, <1>5, <2>2
<1>7. Counted(records') /\ Baseline(records') = work'
  <2>1. workBefore = Baseline(records) /\ Counted(records)
    BY <1>2 DEF Accounted
  <2>2. r.work = Minus(r.total, Baseline(records))
    BY <1>3, <2>1
  <2>3. Counted(Append(records, r)) /\ Baseline(Append(records, r)) = r.total
    BY <1>3, <1>4, <2>1, <2>2, CountedAppend
  <2>4. QED
    BY <1>1, <1>3, <2>3 DEF r
<1>8. objectives # <<>> /\ objectives' # <<>> /\ Len(objectives') = Len(objectives) + 1
  <2>1. objectives # <<>>
    BY <1>2 DEF Accounted
  <2>2. QED
    BY <1>1, <1>4, <2>1
<1>9. policy.method = "cauchy" => sub.metric = 0
  BY CauchyIsFree
<1>10. /\ work'["state"] = 1 + trials' /\ work'["adjoint"] = Len(objectives')
       /\ policy'.method = "cauchy" => work'["metric"] = Len(norms')
  BY <1>2, <1>4, <1>5, <1>6, <1>8, <1>9 DEF Accounted
<1>11. status' # "called" /\ status' # "trial"
  <2>1. TailReason(sub, objective - value) \in Reasons \cup {"none"}
    BY ReasonType
  <2>2. QED
    BY <1>1, <2>1, FinishType
<1>12. QED
  BY <1>7, <1>8, <1>10, <1>11 DEF Accounted

LEMMA AccountedReject == TypeOK /\ Recorded /\ Accounted /\ Reject => Accounted'
<1> SUFFICES ASSUME TypeOK, Recorded, Accounted, Reject PROVE Accounted'
  OBVIOUS
<1>1. PICK sub \in Subproblems : work' = Plus(work, 1, 0, sub.metric, sub.hessian)
  BY DEF Reject
<1>2. /\ status = "trial" /\ trials' = trials + 1
      /\ UNCHANGED <<policy, objectives, norms, records, workBefore>>
      /\ status' \in {"trial", Finish("radius_too_small", records, objectives, norms),
                      Finish("trial_limit", records, objectives, norms)}
  BY DEF Reject
<1>3. sub.metric \in Nat /\ sub.hessian \in Nat
  BY SubproblemType, RadiusAssumption DEF TypeOK
<1>4. /\ work \in WorkType /\ trials \in Nat
      /\ work["state"] \in Nat /\ work["adjoint"] \in Nat /\ work["metric"] \in Nat
  BY DEF TypeOK, WorkType, Counters
<1>5. /\ work'["state"] = work["state"] + 1 /\ work'["adjoint"] = work["adjoint"]
      /\ work'["metric"] = work["metric"] + sub.metric
  <2>1. 0 \in Nat /\ 1 \in Nat
    OBVIOUS
  <2>2. /\ Plus(work, 1, 0, sub.metric, sub.hessian)["state"] = work["state"] + 1
        /\ Plus(work, 1, 0, sub.metric, sub.hessian)["adjoint"] = work["adjoint"] + 0
        /\ Plus(work, 1, 0, sub.metric, sub.hessian)["metric"] = work["metric"] + sub.metric
    BY <1>3, <1>4, <2>1 DEF Plus, Counters
  <2>3. QED
    BY <1>1, <1>3, <1>4, <2>2
<1>6. objectives # <<>> /\ objectives' # <<>>
  BY <1>2 DEF Accounted
<1>7. policy.method = "cauchy" => sub.metric = 0
  BY CauchyIsFree
<1>8. /\ work'["state"] = 1 + trials' /\ work'["adjoint"] = Len(objectives')
      /\ policy'.method = "cauchy" => work'["metric"] = Len(norms')
  BY <1>2, <1>3, <1>4, <1>5, <1>6, <1>7 DEF Accounted
<1>9. Counted(records') /\ workBefore' = Baseline(records')
  BY <1>2 DEF Accounted
<1>10. status' # "called" /\ status' # "outer"
  BY <1>2, FinishType DEF Reasons
<1>11. QED
  BY <1>6, <1>8, <1>9, <1>10 DEF Accounted

LEMMA AccountedStep == TypeOK /\ Recorded /\ Accounted /\ [Next]_vars => Accounted'
<1> SUFFICES ASSUME TypeOK, Recorded, Accounted, [Next]_vars PROVE Accounted'
  OBVIOUS
<1>1. CASE Throw
  BY <1>1 DEF Throw, Accounted
<1>2. CASE UNCHANGED vars
  BY <1>2 DEF vars, Accounted
<1>3. QED
  BY <1>1, <1>2, AccountedEvaluate, AccountedOuter, AccountedAccept, AccountedReject
  DEF Next, Done

\* The counters count, in every run of the loop: the work of the accepted
\* iterations adds up to the totals without a gap or an overlap.
THEOREM WorkCorrect == Spec => []WorkAccounted
<1>1. TypeOK /\ Recorded /\ Accounted => WorkAccounted
  <2> SUFFICES ASSUME TypeOK, Recorded, Accounted PROVE WorkAccounted
    OBVIOUS
  <2>1. records \in Seq(RecordType)
    BY DEF TypeOK, RecordType
  <2>2. status = "outer" /\ records # <<>> => Last(records).total = work
    BY <2>1 DEF Accounted, Baseline, Last
  <2>3. QED
    BY <2>2 DEF Accounted, Counted, WorkAccounted, FirstWork
<1>2. TypeOK /\ Recorded /\ Accounted /\ [Next]_vars => TypeOK' /\ Recorded' /\ Accounted'
  BY RecordedStep, AccountedStep
<1>3. QED
  BY <1>1, <1>2, TypeInit, AccountedInit, PTL DEF Spec

-----------------------------------------------------------------------------
(* The results.                                                            *)

\* Every value of the loop has its type; the radius stays between its bounds.
THEOREM TypeCorrect == Spec => []TypeOK
BY RecordedCorrect, PTL

\* With a positive acceptance threshold result() never refuses a solve.
THEOREM AuditCorrect ==
  ASSUME AcceptanceThreshold > 0
  PROVE  Spec => []AuditNeverFails
<1>1. TypeOK /\ Recorded => AuditNeverFails
  BY DEF Recorded, AuditNeverFails
<1>2. QED
  BY <1>1, RecordedCorrect, PTL

\* No criterion lets a zero gradient through to the subproblem.
THEOREM ModelCorrect == Spec => []ModelNeedsGradient
<1>1. TypeOK /\ Recorded => ModelNeedsGradient
  BY DEF Recorded, ModelNeedsGradient
<1>2. QED
  BY <1>1, RecordedCorrect, PTL

\* The radius shrinks after every rejected trial unless the solve ends, and
\* grows only after an accepted step that its model predicted well.
THEOREM RadiusCorrect == Spec => RadiusFollowsModel
<1> DEFINE Follows ==
      /\ Rejected => radius' < radius \/ status' \in Finished
      /\ radius' > radius =>
           /\ Len(records') > Len(records)
           /\ Last(records').actual * RatioUnit
                > ExpansionThreshold * Last(records').predicted
<1>1. TypeOK /\ Recorded /\ [Next]_vars => [Follows]_vars
  <2> SUFFICES ASSUME TypeOK, Recorded, [Next]_vars PROVE [Follows]_vars
    OBVIOUS
  <2>1. radius \in Nat \ {0} /\ radius \in MinimumRadius .. MaximumRadius /\ trials \in Nat
    BY RadiusAssumption DEF TypeOK
  <2>2. CASE Accept
    <3>1. PICK sub \in Subproblems, value \in Objectives \cup {NotFinite} :
            /\ Acceptable(sub.predicted, value)
            /\ records' = Append(records, Record(sub, value))
            /\ radius' = Adapted(sub, objective - value)
      BY <2>2 DEF Accept
    <3> DEFINE r == Record(sub, value)
    <3>2. /\ r \in RecordType
          /\ r.predicted = sub.predicted /\ r.actual = objective - value
      BY <3>1, RecordTyped
    <3> HIDE DEF r
    <3>3. records \in Seq(RecordType)
      BY DEF TypeOK, RecordType
    <3>4. Len(records') = Len(records) + 1 /\ records'[Len(records')] = r
      BY <3>1, <3>2, <3>3 DEF r
    <3>5. Len(records') > Len(records) /\ records' # records
      BY <3>3, <3>4
    <3>6. Last(records') = r
      BY <3>4 DEF Last
    <3>7. radius' > radius =>
            (objective - value) * RatioUnit > ExpansionThreshold * sub.predicted
      BY <2>1, <3>1, AdaptedType
    <3>8. QED
      BY <3>2, <3>5, <3>6, <3>7 DEF Rejected
  <2>3. CASE Reject
    <3>1. /\ radius' = Shrunk
          /\ Shrunk <= MinimumRadius =>
               status' = Finish("radius_too_small", records, objectives, norms)
      BY <2>3 DEF Reject
    <3>2. Shrunk <= MinimumRadius => status' \in Finished
      BY <3>1, FinishType DEF Reasons
    <3>3. Shrunk < radius \/ Shrunk <= MinimumRadius
      BY <2>1, ShrunkType
    <3>4. ~(radius' > radius)
      BY <2>1, <3>1, ShrunkType, RadiusAssumption
    <3>5. QED
      BY <3>1, <3>2, <3>3, <3>4
  <2>4. CASE Evaluate \/ Outer \/ Throw \/ UNCHANGED vars
    <3>1. radius' = radius /\ trials' = trials
      BY <2>4 DEF Evaluate, Outer, Throw, vars
    <3>2. QED
      BY <2>1, <3>1 DEF Rejected
  <2>5. QED
    BY <2>2, <2>3, <2>4 DEF Next, Done
<1>2. QED
  BY <1>1, RecordedCorrect, PTL DEF Spec, RadiusFollowsModel

\* The safety half of the contract: the call starts without an iterate, and
\* each step of the loop accepts one strictly better iterate within the limit,
\* ends the call, or changes nothing a caller sees.
THEOREM ImplementsPromise ==
  ASSUME AcceptanceThreshold > 0
  PROVE  Spec => Promise!Init /\ [][Promise!Next]_<<Phase, objective, Len(records)>>
<1>1. Init => Promise!Init
  BY DEF Init, Promise!Init, Phase, Reasons, Failures
<1>2. TypeOK /\ Recorded /\ [Next]_vars
      => [Promise!Next]_<<Phase, objective, Len(records)>>
  <2> SUFFICES ASSUME TypeOK, Recorded, [Next]_vars
               PROVE  [Promise!Next]_<<Phase, objective, Len(records)>>
    OBVIOUS
  <2>1. CASE Accept
    <3>1. PICK sub \in Subproblems, value \in Objectives \cup {NotFinite} :
            /\ Acceptable(sub.predicted, value)
            /\ records' = Append(records, Record(sub, value))
            /\ objective' = value
      BY <2>1 DEF Accept
    <3>2. status = "trial" /\ Len(records) < MaximumIterations
      BY <2>1 DEF Accept, Recorded
    <3>3. Record(sub, value) \in RecordType /\ records \in Seq(RecordType)
      BY <3>1, RecordTyped DEF TypeOK, RecordType
    <3>4. Len(records') = Len(records) + 1
      BY <3>1, <3>3
    <3>5. Lower(objective', objective)
      <4>1. radius \in Nat \ {0}
        BY RadiusAssumption DEF TypeOK
      <4>2. sub.predicted \in Nat \ {0}
        BY <4>1, SubproblemType
      <4>3. objective \in Int /\ value \in Int /\ objective - value > 0
        BY <3>1, <4>2, AcceptedReduction DEF TypeOK
      <4>4. QED
        BY <3>1, <4>3, DataAssumption DEF Lower
    <3>6. Phase = "running" /\ Phase' \in {"running", "returned", "failed"}
      BY <3>2 DEF Phase, Reasons, Failures
    <3>7. QED
      BY <3>2, <3>4, <3>5, <3>6 DEF Promise!Next, Promise!Accept
  <2>2. CASE Evaluate \/ Outer \/ Reject \/ Throw
    <3>1. status \in {"called", "outer", "trial"}
      BY <2>2 DEF Evaluate, Outer, Reject, Throw
    <3>2. UNCHANGED <<objective, Len(records)>>
      BY <2>2 DEF Evaluate, Outer, Reject, Throw
    <3>3. Phase = "running" /\ Phase' \in {"running", "returned", "failed"}
      BY <3>1 DEF Phase, Reasons, Failures
    <3>4. QED
      BY <3>2, <3>3 DEF Promise!Next, Promise!End
  <2>3. CASE UNCHANGED vars
    BY <2>3 DEF vars, Phase
  <2>4. QED
    BY <2>1, <2>2, <2>3 DEF Next, Done
<1>3. QED
  BY <1>1, <1>2, RecordedCorrect, PTL DEF Spec
=============================================================================
