-------------------------- MODULE ReducedSearchProofs --------------------------
(***************************************************************************)
(* Proofs about the line-search loop for every iteration and trial limit,  *)
(* all tolerances, fractions and step lengths that the validation of the   *)
(* parameters accepts, every direction policy and every reduced model.     *)
(***************************************************************************)
EXTENDS ReducedSearch, FiniteSetTheorems, SequenceTheorems, TLAPS

Value == Int \cup {Infinite, NaN}
WorkType == [Counters -> Nat]
RecordType ==
  [iteration : Nat, before : Value, after : Int, stationarity : Nat, trials : Nat,
   work : [Counters -> Int], total : WorkType]
EntryType == [iteration : Nat, trial : Nat, step : Nat, accepted : BOOLEAN]

-----------------------------------------------------------------------------
(* Lemmas about the operators of the loop.                                 *)

\* Counting work keeps the counters natural numbers.
LEMMA WorkTyped ==
  ASSUME NEW s \in Nat, NEW a \in Nat, NEW m \in Nat, NEW h \in Nat, NEW r \in Nat
  PROVE  Work(s, a, m, h, r) \in WorkType
BY DEF Work, WorkType, Counters

LEMMA PlusType ==
  ASSUME NEW v \in WorkType, NEW w \in WorkType
  PROVE  Plus(v, w) \in WorkType
BY DEF Plus, WorkType

LEMMA MinusType ==
  ASSUME NEW v \in WorkType, NEW w \in WorkType
  PROVE  Minus(v, w) \in [Counters -> Int]
<1>1. \A c \in Counters : v[c] \in Nat /\ w[c] \in Nat
  BY DEF WorkType
<1>2. QED
  BY <1>1 DEF Minus

LEMMA TrialWorkType ==
  ASSUME NEW ok \in BOOLEAN
  PROVE  TrialWork(ok) \in WorkType
<1>1. \A a, h \in {0, 1} : Work(1, a, 0, h, 0) \in WorkType
  BY WorkTyped
<1>2. /\ (IF ok \/ Wolfe THEN 1 ELSE 0) \in {0, 1}
      /\ (IF policy.search = "exact_quadratic" THEN 1 ELSE 0) \in {0, 1}
  OBVIOUS
<1>3. QED
  BY <1>1, <1>2 DEF TrialWork

\* A halved step, or the floor of the search, is a step length.
LEMMA BacktrackedType ==
  ASSUME step \in 0 .. InitialStep
  PROVE  Backtracked \in 0 .. InitialStep
<1>1. step \div BacktrackingDivisor \in Nat
  BY StepAssumption
<1>2. step \div BacktrackingDivisor <= step
  <2> DEFINE q == step \div BacktrackingDivisor
  <2>1. BacktrackingDivisor * q <= step
    BY StepAssumption
  <2>2. q \in Nat
    BY <1>1
  <2> HIDE DEF q
  <2>3. q <= BacktrackingDivisor * q
    BY <2>2, StepAssumption
  <2>4. QED
    BY <2>1, <2>2, <2>3, StepAssumption DEF q
<1>3. QED
  BY <1>1, <1>2, StepAssumption DEF Backtracked, AtLeast

\* Whatever the line search, what it accepts is a finite objective, and better
\* in the sense of that line search.
LEMMA AcceptedImproves ==
  ASSUME policy \in Policies, objective \in Value, NEW o \in Trials, Accepted(o)
  PROVE  /\ o.value \in Int
         /\ Better([search |-> policy.search, value |-> o.value],
                   [search |-> policy.search, value |-> objective])
<1>1. policy.search \in Searches
  BY PolicyAssumption DEF Policy
<1>2. /\ o.value \in Objectives \cup {Infinite, NaN}
      /\ o.slope \in Int
  BY DataAssumption DEF Trials
<1>3. ASSUME SufficientDecrease(o), policy.search \notin {"fixed_step", "exact_quadratic"}
      PROVE  /\ o.value \in Int
             /\ Better([search |-> policy.search, value |-> o.value],
                       [search |-> policy.search, value |-> objective])
  <2>1. o.value \in Int /\ o.slope < 0 /\ objective # NaN
    BY <1>2, <1>3, DataAssumption DEF SufficientDecrease
  <2>2. ASSUME objective # Infinite PROVE o.value < objective
    <3>1. objective \in Int
      BY <2>1, <2>2 DEF Value
    <3>2. (o.value - objective) * FractionUnit <= DecreaseFraction * o.slope
      BY <1>3, <2>2 DEF SufficientDecrease
    <3>3. DecreaseFraction * o.slope < 0
      BY <1>2, <2>1, StepAssumption
    <3> DEFINE d == o.value - objective
    <3>4. d \in Int /\ d * FractionUnit < 0
      <4>1. DecreaseFraction \in Nat
        BY StepAssumption
      <4>2. DecreaseFraction * o.slope \in Int
        BY <1>2, <4>1
      <4>3. d \in Int
        BY <2>1, <3>1
      <4> HIDE DEF d
      <4>4. d * FractionUnit \in Int
        BY <4>3, StepAssumption
      <4>5. d * FractionUnit <= DecreaseFraction * o.slope
        BY <3>2 DEF d
      <4>6. QED
        BY <3>3, <4>2, <4>3, <4>4, <4>5
    <3> HIDE DEF d
    <3>5. d < 0
      BY <3>4, StepAssumption
    <3>6. QED
      BY <2>1, <3>1, <3>5 DEF d
  <2>3. QED
    BY <1>3, <2>1, <2>2, DataAssumption DEF Better
<1>4. CASE policy.search \in {"armijo", "strong_wolfe", "weak_wolfe"}
  <2>1. SufficientDecrease(o)
    BY <1>4 DEF Accepted
  <2>2. QED
    BY <1>3, <1>4, <2>1
<1>5. CASE policy.search = "fixed_step"
  <2>1. o.value \notin {Infinite, NaN}
    BY <1>5 DEF Accepted
  <2>2. QED
    BY <1>2, <1>5, <2>1, DataAssumption DEF Better
<1>6. CASE policy.search = "exact_quadratic"
  <2>1. WithinTolerance(o)
    BY <1>6 DEF Accepted
  <2>2. QED
    BY <1>2, <1>6, <2>1, DataAssumption DEF WithinTolerance, Better
<1>7. QED
  BY <1>1, <1>4, <1>5, <1>6 DEF Searches

\* When no test at the head of the loop fires, an iteration is left; the
\* requirement of a descent direction is never what stops the loop.
LEMMA HeadDecides ==
  ASSUME policy \in Policies, norm \in Nat, NEW first \in Nat, NEW accepted \in Nat
  PROVE  /\ HeadReason(first, accepted) \in Reasons \cup {"none"}
         /\ HeadReason(first, accepted) = "none" => accepted # MaximumIterations
<1>1. policy.criterion \in Criteria
  BY PolicyAssumption DEF Policy
<1>2. ASSUME ~GradientStop, ~RelativeStop(first), ~StationaryStop
      PROVE  Descends
  <2>1. CASE policy.criterion \in {"automatic", "gradient_norm"}
    BY <1>2, <2>1, ParameterAssumption DEF GradientStop, Automatic, Selected, Descends
  <2>2. CASE policy.criterion = "relative_gradient_norm"
    <3>1. ~(first > 0 => norm * FractionUnit <= RelativeTolerance * first)
      BY <1>2, <2>2 DEF RelativeStop, Automatic, Selected
    <3>2. CASE norm = 0
      <4>1. norm * FractionUnit = 0 /\ RelativeTolerance * first >= 0
        BY <3>2, ParameterAssumption, StepAssumption
      <4>2. QED
        BY <3>1, <4>1
    <3>3. QED
      BY <3>2 DEF Descends
  <2>3. CASE policy.criterion \in {"objective_change", "step_norm"}
    BY <1>2, <2>3, ParameterAssumption DEF StationaryStop, Selected, Descends
  <2>4. QED
    BY <1>1, <2>1, <2>2, <2>3 DEF Criteria
<1>3. QED
  BY <1>2 DEF HeadReason, Reasons

LEMMA TailDecides ==
  ASSUME NEW value, NEW length
  PROVE  TailReason(value, length) \in Reasons \cup {"none"}
BY DEF TailReason, Reasons

\* Finishing reports the reason exactly when the audit passes.
LEMMA FinishType ==
  ASSUME NEW reason \in Reasons, NEW recs, NEW objs, NEW ns
  PROVE  /\ Finish(reason, recs, objs, ns) \in Finished
         /\ Audit(recs, objs, ns) => Finish(reason, recs, objs, ns) # "audit_failed"
         /\ Finish(reason, recs, objs, ns) \notin {"called", "outer", "trying", "no_descent"}
BY DEF Finish, Finished, Failures, Reasons

\* A new entry of the gradient history does not disturb the audit of the
\* records before it.
LEMMA AuditAppendNorm ==
  ASSUME NEW recs \in Seq(RecordType), NEW objs, NEW ns \in Seq(Nat), NEW n \in Nat,
         Len(ns) = Len(recs), Audit(recs, objs, ns)
  PROVE  Audit(recs, objs, Append(ns, n))
<1>1. \A i \in 1 .. Len(recs) : Append(ns, n)[i] = ns[i]
  OBVIOUS
<1>2. QED
  BY <1>1 DEF Audit

\* A record that agrees with the ends of the histories extends the audit.
LEMMA AuditAppendRecord ==
  ASSUME NEW recs \in Seq(RecordType), NEW r \in RecordType,
         NEW objs \in Seq(Value), NEW value \in Int, NEW ns \in Seq(Nat),
         Len(objs) = Len(recs) + 1, Len(ns) = Len(recs) + 1,
         Audit(recs, objs, ns), objs[Len(objs)] # NaN,
         r.iteration = Len(recs) + 1, r.before = objs[Len(objs)], r.after = value,
         r.stationarity = ns[Len(ns)]
  PROVE  Audit(Append(recs, r), Append(objs, value), ns)
<1>1. /\ Len(Append(recs, r)) = Len(recs) + 1
      /\ \A i \in 1 .. Len(recs) : Append(recs, r)[i] = recs[i]
      /\ Append(recs, r)[Len(recs) + 1] = r
  OBVIOUS
<1>2. value \in Value /\ value # NaN
  BY DataAssumption DEF Value
<1>3. /\ \A i \in 1 .. Len(objs) : Append(objs, value)[i] = objs[i]
      /\ Append(objs, value)[Len(objs) + 1] = value
  BY <1>2
<1>4. Len(recs) \in Nat /\ Len(objs) \in Nat
  OBVIOUS
<1> SUFFICES ASSUME NEW i \in 1 .. Len(recs) + 1
             PROVE  LET e == Append(recs, r)[i] IN
                    /\ e.iteration = i
                    /\ Same(e.before, Append(objs, value)[i])
                    /\ Same(e.after, Append(objs, value)[i + 1])
                    /\ e.stationarity = ns[i]
  BY <1>1 DEF Audit
<1>5. CASE i = Len(recs) + 1
  BY <1>1, <1>2, <1>3, <1>4, <1>5 DEF Same
<1>6. CASE i # Len(recs) + 1
  <2>1. i \in 1 .. Len(recs) /\ i \in 1 .. Len(objs) /\ i + 1 \in 1 .. Len(objs)
    BY <1>4, <1>6
  <2>2. /\ Append(recs, r)[i] = recs[i] /\ Append(objs, value)[i] = objs[i]
        /\ Append(objs, value)[i + 1] = objs[i + 1]
    BY <1>1, <1>3, <2>1
  <2>3. /\ recs[i].iteration = i
        /\ Same(recs[i].before, objs[i]) /\ Same(recs[i].after, objs[i + 1])
        /\ recs[i].stationarity = ns[i]
    BY <2>1 DEF Audit
  <2>4. QED
    BY <2>2, <2>3
<1>7. QED
  BY <1>5, <1>6

-----------------------------------------------------------------------------
(* Type correctness and the records.                                       *)

\* The inductive invariant: the histories are as long as the records say, their
\* last entries belong to the current iterate, and unless the first objective is
\* not a number every record so far would pass the audit.
Recorded ==
  /\ status = "called" => objectives = <<>> /\ norms = <<>> /\ records = <<>>
  /\ status \in {"outer", "trying"} =>
       /\ Len(objectives) = Len(records) + 1
       /\ objectives[Len(objectives)] = objective
       /\ Len(norms) = IF status = "outer" THEN Len(records) ELSE Len(records) + 1
       /\ status = "trying" => norms[Len(norms)] = norm
       /\ objectives[1] # NaN => objective # NaN /\ Audit(records, objectives, norms)
  /\ status = "trying" => Len(records) < MaximumIterations /\ trial < MaximumTrials
  /\ Len(records) <= MaximumIterations
  /\ status = "audit_failed" => objectives[1] = NaN
  /\ status # "no_descent"

LEMMA TypeInit == Init => TypeOK /\ Recorded
<1> SUFFICES ASSUME Init PROVE TypeOK /\ Recorded
  OBVIOUS
<1>1. NoWork \in WorkType
  BY DEF NoWork, WorkType
<1>2. objective \in Value /\ norm \in Nat /\ trial \in 0 .. MaximumTrials
  BY DataAssumption, ParameterAssumption DEF Init, Value
<1>3. step \in 0 .. InitialStep
  BY StepAssumption DEF Init
<1>4. /\ objectives \in Seq(Value) /\ norms \in Seq(Nat) /\ records \in Seq(RecordType)
      /\ log \in Seq(EntryType) /\ Len(records) <= MaximumIterations
  BY ParameterAssumption DEF Init
<1>5. QED
  BY <1>1, <1>2, <1>3, <1>4 DEF Init, TypeOK, Recorded, RecordType, EntryType, Value, WorkType

LEMMA EvaluateStep == TypeOK /\ Recorded /\ Evaluate => TypeOK' /\ Recorded'
<1> SUFFICES ASSUME TypeOK, Recorded, Evaluate PROVE TypeOK' /\ Recorded'
  OBVIOUS
<1>1. work' \in WorkType
  <2>1. work \in WorkType
    BY DEF TypeOK, WorkType
  <2>2. Work(1, 1, 0, 0, 0) \in WorkType
    BY WorkTyped
  <2>3. QED
    BY <2>1, <2>2, PlusType DEF Evaluate
<1>2. /\ objectives' \in Seq(Value) /\ Len(objectives') = 1
      /\ objectives'[1] = objective
  BY DEF Evaluate, TypeOK, Value
<1>3. records = <<>> /\ norms = <<>> /\ Len(records) = 0 /\ Len(norms) = 0
  BY DEF Evaluate, Recorded
<1>4. TypeOK'
  BY <1>1, <1>2 DEF Evaluate, TypeOK, Value, WorkType
<1>5. Audit(records', objectives', norms')
  BY <1>3 DEF Evaluate, Audit
<1>6. Recorded'
  BY <1>2, <1>3, <1>5, ParameterAssumption DEF Evaluate, Recorded
<1>7. QED
  BY <1>4, <1>6

LEMMA OuterStep == TypeOK /\ Recorded /\ Outer => TypeOK' /\ Recorded'
<1> SUFFICES ASSUME TypeOK, Recorded, Outer PROVE TypeOK' /\ Recorded'
  OBVIOUS
<1> DEFINE ns     == Append(norms, norm)
           reason == HeadReason(ns[1], Len(records))
<1>1. /\ status = "outer" /\ norms' = ns /\ workBefore' = work
      /\ trial' = 0 /\ step' = InitialStep
      /\ status' = IF reason = "none" THEN "trying"
                   ELSE IF reason = "no_descent" THEN reason
                   ELSE Finish(reason, records, objectives, ns)
      /\ UNCHANGED <<policy, objective, norm, trials, objectives, records, log>>
  BY DEF Outer
<1>2. /\ ns \in Seq(Nat) /\ Len(ns) = Len(norms) + 1 /\ ns[Len(ns)] = norm
      /\ ns[1] \in Nat /\ norm \in Nat /\ Len(records) \in Nat
  <2>1. norms \in Seq(Nat) /\ norm \in Nat
    BY DEF TypeOK
  <2>2. ns \in Seq(Nat) /\ Len(ns) = Len(norms) + 1 /\ ns[Len(ns)] = norm
    BY <2>1
  <2>3. ns[1] \in Nat
    BY <2>2, <2>1
  <2>4. QED
    BY <2>1, <2>2, <2>3 DEF TypeOK
<1>3. work' \in WorkType
  <2>1. PICK c \in Costs : work' = Plus(work, Work(0, 0, c.metric, c.hessian, c.reset))
    BY DEF Outer
  <2>2. c.metric \in Nat /\ c.hessian \in Nat /\ c.reset \in Nat
    BY DataAssumption DEF Costs
  <2>3. work \in WorkType
    BY DEF TypeOK, WorkType
  <2>4. Work(0, 0, c.metric, c.hessian, c.reset) \in WorkType
    BY <2>2, WorkTyped
  <2>5. QED
    BY <2>1, <2>3, <2>4, PlusType
<1>4. objectives[1] # NaN => Audit(records, objectives, ns)
  <2>1. records \in Seq(RecordType) /\ norms \in Seq(Nat) /\ norm \in Nat
    BY DEF TypeOK, RecordType, Value, WorkType
  <2>2. Len(norms) = Len(records) /\ (objectives[1] # NaN => Audit(records, objectives, norms))
    BY <1>1 DEF Recorded
  <2>3. QED
    BY <2>1, <2>2, AuditAppendNorm
<1>5. /\ reason \in Reasons \cup {"none"} /\ reason # "no_descent"
      /\ reason = "none" => Len(records) # MaximumIterations
  <2>1. policy \in Policies
    BY DEF TypeOK
  <2>2. /\ reason \in Reasons \cup {"none"}
        /\ reason = "none" => Len(records) # MaximumIterations
    BY <1>2, <2>1, HeadDecides
  <2>3. QED
    BY <2>2 DEF Reasons
<1> HIDE DEF ns, reason
<1>6. TypeOK'
  <2>1. status' \in {"trying"} \cup Finished
    BY <1>1, <1>5, FinishType
  <2>2. trial' \in 0 .. MaximumTrials /\ step' \in 0 .. InitialStep
    BY <1>1, ParameterAssumption, StepAssumption
  <2>3. QED
    BY <1>1, <1>2, <1>3, <2>1, <2>2 DEF TypeOK, WorkType
<1>7. CASE reason = "none"
  <2>1. status' = "trying"
    BY <1>1, <1>7
  <2>2. Len(records) < MaximumIterations /\ 0 < MaximumTrials
    BY <1>2, <1>5, <1>7, ParameterAssumption DEF Recorded
  <2>3. QED
    BY <1>1, <1>2, <1>4, <1>6, <2>1, <2>2 DEF Recorded
<1>8. CASE reason # "none"
  <2>1. status' = Finish(reason, records, objectives, ns) /\ reason \in Reasons
    BY <1>1, <1>5, <1>8
  <2>2. status' \notin {"called", "outer", "trying", "no_descent"}
    BY <2>1, FinishType
  <2>3. status' = "audit_failed" => objectives[1] = NaN
    BY <1>4, <2>1, FinishType
  <2>4. QED
    BY <1>1, <1>6, <2>2, <2>3 DEF Recorded
<1>9. QED
  BY <1>7, <1>8

\* The record of an accepted step is well formed and agrees with the ends of
\* the histories.
LEMMA RecordTyped ==
  ASSUME TypeOK, NEW value \in Int
  PROVE  /\ Record(value) \in RecordType
         /\ Record(value).iteration = Len(records) + 1
         /\ Record(value).before = objective
         /\ Record(value).after = value
         /\ Record(value).stationarity = norm
<1> DEFINE total == Plus(work, TrialWork(TRUE))
<1>1. total \in WorkType /\ workBefore \in WorkType
  BY TrialWorkType, PlusType DEF TypeOK, WorkType
<1>2. Minus(total, workBefore) \in [Counters -> Int]
  BY <1>1, MinusType
<1>3. /\ Len(records) + 1 \in Nat /\ norm \in Nat /\ trial + 1 \in Nat
      /\ objective \in Value
  BY ParameterAssumption DEF TypeOK, Value
<1> HIDE DEF total
<1>4. Record(value) =
        [iteration |-> Len(records) + 1, before |-> objective, after |-> value,
         stationarity |-> norm, trials |-> trial + 1,
         work |-> Minus(total, workBefore), total |-> total]
  BY DEF Record, total
<1>5. QED
  BY <1>1, <1>2, <1>3, <1>4 DEF RecordType

\* The trial log grows by a well-formed entry or not at all.
LEMMA LoggedType ==
  ASSUME TypeOK, NEW ok \in BOOLEAN
  PROVE  Logged(ok) \in Seq(EntryType)
<1>1. log \in Seq(EntryType)
  BY DEF TypeOK, EntryType
<1>2. Len(records) + 1 \in Nat /\ trial \in Nat /\ step \in Nat
  BY ParameterAssumption, StepAssumption DEF TypeOK
<1>3. [iteration |-> Len(records) + 1, trial |-> trial, step |-> step, accepted |-> ok]
        \in EntryType
  BY <1>2 DEF EntryType
<1>4. QED
  BY <1>1, <1>3 DEF Logged

LEMMA AcceptStep == TypeOK /\ Recorded /\ Accept => TypeOK' /\ Recorded'
<1> SUFFICES ASSUME TypeOK, Recorded, Accept PROVE TypeOK' /\ Recorded'
  OBVIOUS
<1>1. PICK o \in Trials, length \in StepNorms :
        /\ Accepted(o)
        /\ records' = Append(records, Record(o.value))
        /\ objectives' = Append(objectives, o.value)
        /\ status' = IF TailReason(o.value, length) = "none" THEN "outer"
                     ELSE Finish(TailReason(o.value, length),
                                 Append(records, Record(o.value)),
                                 Append(objectives, o.value), norms)
        /\ objective' = o.value
  BY DEF Accept
<1>2. /\ status = "trying" /\ norm' \in Norms /\ trials' = trials + 1
      /\ work' = Plus(work, TrialWork(TRUE)) /\ log' = Logged(TRUE)
      /\ UNCHANGED <<policy, step, trial, norms, workBefore>>
  BY DEF Accept
<1> DEFINE value  == o.value
           r      == Record(value)
           reason == TailReason(value, length)
<1>3. value \in Int
  BY <1>1, AcceptedImproves DEF TypeOK, Value
<1>4. /\ r \in RecordType
      /\ r.iteration = Len(records) + 1 /\ r.before = objective /\ r.after = value
      /\ r.stationarity = norm
  BY <1>3, RecordTyped
<1>5. /\ records \in Seq(RecordType) /\ objectives \in Seq(Value) /\ norms \in Seq(Nat)
      /\ Len(objectives) = Len(records) + 1 /\ Len(norms) = Len(records) + 1
      /\ objectives[Len(objectives)] = objective /\ norms[Len(norms)] = norm
      /\ Len(records) < MaximumIterations
      /\ objectives[1] # NaN => objective # NaN /\ Audit(records, objectives, norms)
  BY <1>2 DEF TypeOK, Recorded, RecordType, Value, WorkType
<1>6. value \in Value /\ value # NaN
  BY <1>3, DataAssumption DEF Value
<1>7. reason \in Reasons \cup {"none"}
  BY TailDecides
<1>8. /\ records' = Append(records, r) /\ objectives' = Append(objectives, value)
      /\ status' = IF reason = "none" THEN "outer"
                   ELSE Finish(reason, records', objectives', norms)
      /\ objective' = value
  BY <1>1
<1> HIDE DEF value, r, reason
<1>9. /\ records' \in Seq(RecordType) /\ Len(records') = Len(records) + 1
      /\ objectives' \in Seq(Value)
      /\ Len(objectives') = Len(objectives) + 1
      /\ objectives'[Len(objectives')] = value
      /\ objectives'[1] = objectives[1]
  BY <1>4, <1>5, <1>6, <1>8
<1>10. objectives'[1] # NaN => Audit(records', objectives', norms')
  <2>1. SUFFICES ASSUME objectives[1] # NaN
                 PROVE  Audit(Append(records, r), Append(objectives, value), norms)
    BY <1>2, <1>8, <1>9
  <2>2. QED
    BY <1>3, <1>4, <1>5, <2>1, AuditAppendRecord
<1>11. TypeOK'
  <2>1. work' \in WorkType
    BY <1>2, TrialWorkType, PlusType DEF TypeOK, WorkType
  <2>2. log' \in Seq(EntryType)
    BY <1>2, LoggedType
  <2>3. status' \in {"outer"} \cup Finished
    BY <1>7, <1>8, FinishType
  <2>4. norm' \in Nat /\ trials' \in Nat
    BY <1>2, DataAssumption DEF TypeOK
  <2>5. QED
    BY <1>2, <1>6, <1>8, <1>9, <2>1, <2>2, <2>3, <2>4
    DEF TypeOK, RecordType, EntryType, Value, WorkType
<1>12. Len(records') <= MaximumIterations
  BY <1>5, <1>9, ParameterAssumption
<1>13. CASE reason = "none"
  <2>1. status' = "outer"
    BY <1>8, <1>13
  <2>2. Len(objectives') = Len(records') + 1 /\ Len(norms') = Len(records')
    BY <1>2, <1>5, <1>9
  <2>3. QED
    BY <1>6, <1>8, <1>9, <1>10, <1>11, <1>12, <2>1, <2>2 DEF Recorded
<1>14. CASE reason # "none"
  <2>1. reason \in Reasons /\ status' = Finish(reason, records', objectives', norms')
    BY <1>2, <1>7, <1>8, <1>14
  <2>2. status' \notin {"called", "outer", "trying", "no_descent"}
    BY <2>1, FinishType
  <2>3. status' = "audit_failed" => objectives'[1] = NaN
    BY <1>10, <2>1, FinishType
  <2>4. QED
    BY <1>11, <1>12, <2>2, <2>3 DEF Recorded
<1>15. QED
  BY <1>13, <1>14

LEMMA RejectStep == TypeOK /\ Recorded /\ Reject => TypeOK' /\ Recorded'
<1> SUFFICES ASSUME TypeOK, Recorded, Reject PROVE TypeOK' /\ Recorded'
  OBVIOUS
<1>1. /\ status = "trying" /\ trials' = trials + 1 /\ trial' = trial + 1
      /\ work' = Plus(work, TrialWork(FALSE)) /\ log' = Logged(FALSE)
      /\ \/ /\ LastTrial
            /\ status' = Finish("line_search_failure", records, objectives, norms)
            /\ step' = step
         \/ /\ ~LastTrial
            /\ status' = status
            /\ step' = Backtracked
      /\ UNCHANGED <<policy, objective, norm, objectives, norms, records, workBefore>>
  BY DEF Reject
<1>2. /\ trial < MaximumTrials /\ trial \in Nat /\ step \in 0 .. InitialStep
      /\ objectives[1] # NaN => Audit(records, objectives, norms)
  BY <1>1, ParameterAssumption DEF TypeOK, Recorded
<1>3. /\ "line_search_failure" \in Reasons
      /\ step' \in 0 .. InitialStep
      /\ work' \in WorkType /\ log' \in Seq(EntryType)
  <2>1. work \in WorkType
    BY DEF TypeOK, WorkType
  <2>2. QED
    BY <1>1, <1>2, <2>1, BacktrackedType, TrialWorkType, PlusType, LoggedType DEF Reasons
<1>4. TypeOK'
  <2>1. status' \in {"trying"} \cup Finished
    BY <1>1, <1>3, FinishType
  <2>2. trial' \in 0 .. MaximumTrials /\ trials' \in Nat
    BY <1>1, <1>2, ParameterAssumption DEF TypeOK
  <2>3. QED
    BY <1>1, <1>3, <2>1, <2>2 DEF TypeOK, EntryType, WorkType
<1>5. CASE LastTrial
  <2>1. status' = Finish("line_search_failure", records, objectives, norms)
    BY <1>1, <1>5
  <2>2. status' \notin {"called", "outer", "trying", "no_descent"}
    BY <1>3, <2>1, FinishType
  <2>3. status' = "audit_failed" => objectives[1] = NaN
    BY <1>2, <1>3, <2>1, FinishType
  <2>4. QED
    BY <1>1, <1>4, <2>2, <2>3 DEF Recorded
<1>6. CASE ~LastTrial
  <2>1. status' = "trying" /\ trial' < MaximumTrials
    BY <1>1, <1>2, <1>6, ParameterAssumption DEF LastTrial
  <2>2. QED
    BY <1>1, <1>4, <2>1 DEF Recorded
<1>7. QED
  BY <1>5, <1>6

LEMMA RecordedStep == TypeOK /\ Recorded /\ [Next]_vars => TypeOK' /\ Recorded'
<1> SUFFICES ASSUME TypeOK, Recorded, [Next]_vars PROVE TypeOK' /\ Recorded'
  OBVIOUS
<1>1. CASE Evaluate
  BY <1>1, EvaluateStep
<1>2. CASE Outer
  BY <1>2, OuterStep
<1>3. CASE Accept
  BY <1>3, AcceptStep
<1>4. CASE Reject
  BY <1>4, RejectStep
<1>5. CASE Throw
  BY <1>5 DEF Throw, TypeOK, Recorded, Finished, Failures
<1>6. CASE UNCHANGED vars
  BY <1>6 DEF vars, TypeOK, Recorded, Audit
<1>7. QED
  BY <1>1, <1>2, <1>3, <1>4, <1>5, <1>6 DEF Next, Done

\* The two inductive invariants hold in every state.
LEMMA RecordedCorrect == Spec => [](TypeOK /\ Recorded)
<1>1. TypeOK /\ Recorded /\ [Next]_vars => TypeOK' /\ Recorded'
  BY RecordedStep
<1>2. QED
  BY <1>1, TypeInit, PTL DEF Spec

-----------------------------------------------------------------------------
(* The work counters.                                                      *)

FirstWork == Work(1, 1, 0, 0, 0)

\* The totals at the end of the last accepted iteration.
Baseline(recs) == IF recs = <<>> THEN FirstWork ELSE recs[Len(recs)].total

\* The part of WorkAccounted that speaks of the records.
Counted(recs) ==
  \A i \in 1 .. Len(recs) :
    /\ recs[i].work =
         Minus(recs[i].total, IF i = 1 THEN FirstWork ELSE recs[i - 1].total)
    /\ recs[i].work["state"] = recs[i].trials
    /\ recs[i].work["metric"] > 0

\* The inductive invariant of the counters: between iterations they are at the
\* totals of the last record, and during one they are ahead of these by its
\* trials and its direction.
Accounted ==
  /\ status = "called" => work = NoWork /\ trials = 0
  /\ status \notin {"called", "contract_error"} => objectives # <<>>
  /\ objectives # <<>> =>
       /\ work["state"] = 1 + trials
       /\ work["adjoint"] = IF Wolfe THEN 1 + trials ELSE Len(objectives)
       /\ policy.projected => work["metric"] = Len(norms)
  /\ Counted(records)
  /\ status = "outer" => work = Baseline(records)
  /\ status = "trying" =>
       /\ workBefore = Baseline(records)
       /\ work["state"] = workBefore["state"] + trial
       /\ work["metric"] > workBefore["metric"]

LEMMA CounterValues ==
  ASSUME NEW s, NEW a, NEW m, NEW h, NEW r
  PROVE  /\ Work(s, a, m, h, r)["state"] = s
         /\ Work(s, a, m, h, r)["adjoint"] = a
         /\ Work(s, a, m, h, r)["metric"] = m
BY DEF Work, Counters

LEMMA PlusValues ==
  ASSUME NEW v \in WorkType, NEW w \in WorkType, NEW c \in Counters
  PROVE  /\ Plus(v, w)[c] = v[c] + w[c]
         /\ Minus(v, w)[c] = v[c] - w[c]
         /\ v[c] \in Nat /\ w[c] \in Nat
BY DEF Plus, Minus, WorkType

\* A record whose work starts at the totals of the one before it continues the
\* account.
LEMMA CountedAppend ==
  ASSUME NEW recs \in Seq(RecordType), NEW r \in RecordType, Counted(recs),
         r.work = Minus(r.total, Baseline(recs)),
         r.work["state"] = r.trials, r.work["metric"] > 0
  PROVE  Counted(Append(recs, r)) /\ Baseline(Append(recs, r)) = r.total
<1>1. /\ Len(Append(recs, r)) = Len(recs) + 1
      /\ \A i \in 1 .. Len(recs) : Append(recs, r)[i] = recs[i]
      /\ Append(recs, r)[Len(recs) + 1] = r
      /\ Append(recs, r) # <<>> /\ Len(recs) \in Nat
      /\ recs = <<>> <=> Len(recs) = 0
  OBVIOUS
<1> SUFFICES ASSUME NEW i \in 1 .. Len(recs) + 1
             PROVE  LET e == Append(recs, r)[i] IN
                    /\ e.work = Minus(e.total, IF i = 1 THEN FirstWork
                                               ELSE Append(recs, r)[i - 1].total)
                    /\ e.work["state"] = e.trials
                    /\ e.work["metric"] > 0
  BY <1>1 DEF Counted, Baseline
<1>2. CASE i = Len(recs) + 1
  <2>1. Baseline(recs) = IF i = 1 THEN FirstWork ELSE Append(recs, r)[i - 1].total
    BY <1>1, <1>2 DEF Baseline
  <2>2. QED
    BY <1>1, <1>2, <2>1
<1>3. CASE i # Len(recs) + 1
  <2>1. i \in 1 .. Len(recs) /\ (i # 1 => i - 1 \in 1 .. Len(recs))
    BY <1>1, <1>3
  <2>2. Append(recs, r)[i] = recs[i] /\ (i # 1 => Append(recs, r)[i - 1] = recs[i - 1])
    BY <1>1, <2>1
  <2>3. QED
    BY <2>1, <2>2 DEF Counted
<1>4. QED
  BY <1>2, <1>3

LEMMA AccountedInit == Init => Accounted
<1> SUFFICES ASSUME Init PROVE Accounted
  OBVIOUS
<1>1. records = <<>> /\ Len(records) = 0
  BY DEF Init
<1>2. Counted(records)
  BY <1>1 DEF Counted
<1>3. QED
  BY <1>2 DEF Init, Accounted

LEMMA AccountedEvaluate == TypeOK /\ Recorded /\ Accounted /\ Evaluate => Accounted'
<1> SUFFICES ASSUME TypeOK, Recorded, Accounted, Evaluate PROVE Accounted'
  OBVIOUS
<1>1. /\ status' = "outer" /\ records = <<>> /\ records' = <<>>
      /\ norms' = <<>> /\ Len(norms') = 0
      /\ objectives' = <<objective>> /\ Len(objectives') = 1 /\ objectives' # <<>>
      /\ trials' = 0 /\ work' = Plus(NoWork, FirstWork)
  BY DEF Evaluate, Recorded, Accounted, FirstWork
<1>2. NoWork \in WorkType /\ FirstWork \in WorkType
  BY WorkTyped DEF NoWork, WorkType, FirstWork
<1>3. work' = FirstWork
  BY <1>1, <1>2 DEF Plus, NoWork, WorkType
<1>4. work'["state"] = 1 /\ work'["adjoint"] = 1 /\ work'["metric"] = 0
  BY <1>3, CounterValues DEF FirstWork
<1>5. Counted(records')
  BY <1>1 DEF Counted
<1>6. QED
  BY <1>1, <1>3, <1>4, <1>5 DEF Accounted, Baseline

LEMMA AccountedOuter == TypeOK /\ Recorded /\ Accounted /\ Outer => Accounted'
<1> SUFFICES ASSUME TypeOK, Recorded, Accounted, Outer PROVE Accounted'
  OBVIOUS
<1>1. PICK c \in Costs : work' = Plus(work, Work(0, 0, c.metric, c.hessian, c.reset))
  BY DEF Outer
<1>2. /\ c.metric \in Nat \ {0} /\ c.hessian \in Nat /\ c.reset \in Nat
      /\ policy.projected => c.metric = 1
  BY DataAssumption DEF Costs
<1>3. /\ status = "outer" /\ workBefore' = work /\ trial' = 0
      /\ norms' = Append(norms, norm) /\ status' # "called" /\ status' # "outer"
      /\ UNCHANGED <<policy, trials, objectives, records>>
  <2>1. HeadReason(Append(norms, norm)[1], Len(records)) \in Reasons \cup {"none", "no_descent"}
    BY DEF HeadReason, Reasons
  <2>2. QED
    BY <2>1, FinishType DEF Outer, Reasons
<1>4. /\ work \in WorkType /\ Work(0, 0, c.metric, c.hessian, c.reset) \in WorkType
      /\ norms \in Seq(Nat) /\ norm \in Nat
  BY <1>2, WorkTyped DEF TypeOK, WorkType
<1>5. Len(norms') = Len(norms) + 1
  BY <1>3, <1>4
<1>6. /\ work'["state"] = work["state"] /\ work'["adjoint"] = work["adjoint"]
      /\ work'["metric"] = work["metric"] + c.metric
      /\ work["state"] \in Nat /\ work["metric"] \in Nat /\ work["adjoint"] \in Nat
  <2> DEFINE w == Work(0, 0, c.metric, c.hessian, c.reset)
  <2>1. "state" \in Counters /\ "adjoint" \in Counters /\ "metric" \in Counters
    BY DEF Counters
  <2>2. w["state"] = 0 /\ w["adjoint"] = 0 /\ w["metric"] = c.metric
    BY CounterValues
  <2>3. w \in WorkType /\ work' = Plus(work, w)
    BY <1>1, <1>4
  <2> HIDE DEF w
  <2>4. \A d \in Counters : work'[d] = work[d] + w[d] /\ work[d] \in Nat
    BY <1>4, <2>3, PlusValues
  <2>5. QED
    BY <1>2, <2>1, <2>2, <2>4
<1>7. objectives # <<>> /\ objectives' # <<>>
  BY <1>3 DEF Accounted
<1>8. Wolfe' = Wolfe
  BY <1>3 DEF Wolfe
<1>9. /\ work'["state"] = 1 + trials'
      /\ work'["adjoint"] = IF Wolfe' THEN 1 + trials' ELSE Len(objectives')
      /\ policy'.projected => work'["metric"] = Len(norms')
  BY <1>2, <1>3, <1>5, <1>6, <1>7, <1>8 DEF Accounted
<1>10. Counted(records') /\ workBefore' = Baseline(records')
  BY <1>3 DEF Accounted
<1>11. work'["state"] = workBefore'["state"] + trial' /\ work'["metric"] > workBefore'["metric"]
  BY <1>2, <1>3, <1>6
<1>12. QED
  BY <1>3, <1>7, <1>9, <1>10, <1>11 DEF Accounted

LEMMA AccountedAccept == TypeOK /\ Recorded /\ Accounted /\ Accept => Accounted'
<1> SUFFICES ASSUME TypeOK, Recorded, Accounted, Accept PROVE Accounted'
  OBVIOUS
<1>1. PICK o \in Trials, length \in StepNorms :
        /\ Accepted(o)
        /\ records' = Append(records, Record(o.value))
        /\ objectives' = Append(objectives, o.value)
        /\ status' = IF TailReason(o.value, length) = "none" THEN "outer"
                     ELSE Finish(TailReason(o.value, length),
                                 Append(records, Record(o.value)),
                                 Append(objectives, o.value), norms)
  BY DEF Accept
<1>2. /\ status = "trying" /\ trials' = trials + 1
      /\ UNCHANGED <<policy, trial, norms, workBefore>>
  BY DEF Accept
<1>3. work' = Plus(work, TrialWork(TRUE))
  BY DEF Accept
<1>4. o.value \in Int
  BY <1>1, AcceptedImproves DEF TypeOK, Value
<1> DEFINE r == Record(o.value)
<1>5. /\ r \in RecordType /\ r.trials = trial + 1
      /\ r.work = Minus(work', workBefore) /\ r.total = work'
  BY <1>2, <1>4, <1>3, RecordTyped DEF Record
<1>6. /\ records \in Seq(RecordType) /\ objectives \in Seq(Value)
      /\ work \in WorkType /\ workBefore \in WorkType /\ trial \in Nat /\ trials \in Nat
  BY ParameterAssumption DEF TypeOK, RecordType, Value, WorkType
<1>7. TrialWork(TRUE) \in WorkType /\ work' \in WorkType
  BY <1>3, <1>6, TrialWorkType, PlusType
<1> HIDE DEF r
<1>8. /\ work'["state"] = work["state"] + 1 /\ work'["adjoint"] = work["adjoint"] + 1
      /\ work'["metric"] = work["metric"]
      /\ work["state"] \in Nat /\ work["metric"] \in Nat /\ work["adjoint"] \in Nat
      /\ workBefore["state"] \in Nat /\ workBefore["metric"] \in Nat
  <2>1. "state" \in Counters /\ "adjoint" \in Counters /\ "metric" \in Counters
    BY DEF Counters
  <2> DEFINE w == TrialWork(TRUE)
  <2>2. w["state"] = 1 /\ w["adjoint"] = 1 /\ w["metric"] = 0
    BY CounterValues DEF TrialWork
  <2>3. w \in WorkType /\ work' = Plus(work, w)
    BY <1>3, <1>6, <1>7
  <2> HIDE DEF w
  <2>4. \A d \in Counters : work'[d] = work[d] + w[d] /\ work[d] \in Nat
    BY <1>6, <2>3, PlusValues
  <2>5. \A d \in Counters : workBefore[d] \in Nat
    BY <1>6 DEF WorkType
  <2>6. QED
    BY <2>1, <2>2, <2>4, <2>5
<1>9. /\ r.work["state"] = work'["state"] - workBefore["state"]
      /\ r.work["metric"] = work'["metric"] - workBefore["metric"]
  <2>1. "state" \in Counters /\ "metric" \in Counters
    BY DEF Counters
  <2>2. \A d \in Counters : r.work[d] = work'[d] - workBefore[d]
    BY <1>5, <1>6, <1>7, PlusValues
  <2>3. QED
    BY <2>1, <2>2
<1>10. Counted(records') /\ Baseline(records') = work'
  <2>1. /\ workBefore = Baseline(records) /\ work["state"] = workBefore["state"] + trial
        /\ work["metric"] > workBefore["metric"] /\ Counted(records)
    BY <1>2 DEF Accounted
  <2>2. r.work["state"] = r.trials /\ r.work["metric"] > 0
    BY <1>5, <1>6, <1>8, <1>9, <2>1
  <2>3. r.work = Minus(r.total, Baseline(records))
    BY <1>5, <2>1
  <2>4. Counted(Append(records, r)) /\ Baseline(Append(records, r)) = r.total
    BY <1>5, <1>6, <2>1, <2>2, <2>3, CountedAppend
  <2>5. QED
    BY <1>1, <1>5, <2>4 DEF r
<1>11. objectives # <<>> /\ objectives' # <<>> /\ Len(objectives') = Len(objectives) + 1
  <2>1. objectives # <<>> /\ o.value \in Value
    BY <1>2, <1>4 DEF Accounted, Value
  <2>2. QED
    BY <1>1, <1>6, <2>1
<1>12. Wolfe' = Wolfe
  BY <1>2 DEF Wolfe
<1>13. /\ work'["state"] = 1 + trials'
       /\ work'["adjoint"] = IF Wolfe' THEN 1 + trials' ELSE Len(objectives')
       /\ policy'.projected => work'["metric"] = Len(norms')
  BY <1>2, <1>6, <1>8, <1>11, <1>12 DEF Accounted
<1>14. status' # "called" /\ status' # "trying"
  <2>1. TailReason(o.value, length) \in Reasons \cup {"none"}
    BY TailDecides
  <2>2. QED
    BY <1>1, <2>1, FinishType
<1>15. QED
  BY <1>10, <1>11, <1>13, <1>14 DEF Accounted

LEMMA AccountedReject == TypeOK /\ Recorded /\ Accounted /\ Reject => Accounted'
<1> SUFFICES ASSUME TypeOK, Recorded, Accounted, Reject PROVE Accounted'
  OBVIOUS
<1>1. /\ status = "trying" /\ trials' = trials + 1 /\ trial' = trial + 1
      /\ status' \in {"trying", Finish("line_search_failure", records, objectives, norms)}
      /\ UNCHANGED <<policy, objectives, norms, records, workBefore>>
  BY DEF Reject
<1>2. work' = Plus(work, TrialWork(FALSE))
  BY DEF Reject
<1>3. TrialWork(FALSE) \in WorkType
  BY TrialWorkType
<1>4. work \in WorkType /\ trial \in Nat /\ trials \in Nat
  BY ParameterAssumption DEF TypeOK, WorkType
<1>5. /\ work'["state"] = work["state"] + 1
      /\ work'["adjoint"] = work["adjoint"] + (IF Wolfe THEN 1 ELSE 0)
      /\ work'["metric"] = work["metric"]
      /\ work["state"] \in Nat /\ work["metric"] \in Nat /\ work["adjoint"] \in Nat
  <2>1. "state" \in Counters /\ "adjoint" \in Counters /\ "metric" \in Counters
    BY DEF Counters
  <2> DEFINE w == TrialWork(FALSE)
  <2>2. w["state"] = 1 /\ w["adjoint"] = (IF Wolfe THEN 1 ELSE 0) /\ w["metric"] = 0
    BY CounterValues DEF TrialWork
  <2>3. w \in WorkType /\ work' = Plus(work, w)
    BY <1>2, <1>3
  <2> HIDE DEF w
  <2>4. \A d \in Counters : work'[d] = work[d] + w[d] /\ work[d] \in Nat
    BY <1>4, <2>3, PlusValues
  <2>5. QED
    BY <2>1, <2>2, <2>4
<1>6. /\ workBefore \in WorkType
      /\ workBefore["state"] \in Nat /\ workBefore["metric"] \in Nat
  BY DEF TypeOK, WorkType, Counters
<1>7. /\ workBefore' = Baseline(records') /\ Counted(records')
      /\ work'["state"] = workBefore'["state"] + trial'
      /\ work'["metric"] > workBefore'["metric"]
  BY <1>1, <1>4, <1>5, <1>6 DEF Accounted
<1>8. Wolfe' = Wolfe
  BY <1>1 DEF Wolfe
<1>9. objectives # <<>> /\ objectives' # <<>>
  BY <1>1 DEF Accounted
<1>10. /\ work'["state"] = 1 + trials'
       /\ work'["adjoint"] = IF Wolfe' THEN 1 + trials' ELSE Len(objectives')
       /\ policy'.projected => work'["metric"] = Len(norms')
  <2>1. /\ work["state"] = 1 + trials
        /\ work["adjoint"] = IF Wolfe THEN 1 + trials ELSE Len(objectives)
        /\ policy.projected => work["metric"] = Len(norms)
    BY <1>9 DEF Accounted
  <2>2. CASE Wolfe
    BY <1>1, <1>4, <1>5, <1>8, <2>1, <2>2
  <2>3. CASE ~Wolfe
    BY <1>1, <1>4, <1>5, <1>8, <2>1, <2>3
  <2>4. QED
    BY <2>2, <2>3
<1>11. status' # "called" /\ status' # "outer"
  BY <1>1, FinishType DEF Reasons
<1>12. QED
  BY <1>7, <1>9, <1>10, <1>11 DEF Accounted

LEMMA AccountedStep == TypeOK /\ Recorded /\ Accounted /\ [Next]_vars => Accounted'
<1> SUFFICES ASSUME TypeOK, Recorded, Accounted, [Next]_vars PROVE Accounted'
  OBVIOUS
<1>1. CASE Throw
  BY <1>1 DEF Throw, Accounted, Wolfe
<1>2. CASE UNCHANGED vars
  BY <1>2 DEF vars, Accounted, Wolfe
<1>3. QED
  BY <1>1, <1>2, AccountedEvaluate, AccountedOuter, AccountedAccept, AccountedReject
  DEF Next, Done

\* The counters count, in every run of the loop: the work of the accepted
\* iterations adds up to the totals without a gap or an overlap.
THEOREM WorkCorrect == Spec => []WorkAccounted
<1>1. TypeOK /\ Recorded /\ Accounted => WorkAccounted
  <2> SUFFICES ASSUME TypeOK, Recorded, Accounted PROVE WorkAccounted
    OBVIOUS
  <2>1. records \in Seq(RecordType)
    BY DEF TypeOK, RecordType, Value, WorkType
  <2>2. status = "outer" /\ records # <<>> => Last(records).total = work
    BY <2>1 DEF Accounted, Baseline, Last
  <2>3. QED
    BY <2>2 DEF Accounted, Counted, WorkAccounted, FirstWork
<1>2. TypeOK /\ Recorded /\ Accounted /\ [Next]_vars => TypeOK' /\ Recorded' /\ Accounted'
  BY RecordedStep, AccountedStep
<1>3. QED
  BY <1>1, <1>2, TypeInit, AccountedInit, PTL DEF Spec

-----------------------------------------------------------------------------
(* The results.                                                            *)

\* Every value of the loop has its type; no step exceeds the initial one.
THEOREM TypeCorrect == Spec => []TypeOK
BY RecordedCorrect, PTL

\* result() refuses a solve only when its first objective was not a number.
THEOREM AuditCorrect == Spec => []AuditRefusesOnlyNaN
<1>1. TypeOK /\ Recorded => AuditRefusesOnlyNaN
  BY DEF Recorded, AuditRefusesOnlyNaN
<1>2. QED
  BY <1>1, RecordedCorrect, PTL

\* Under every stopping criterion a stationary iterate is returned before the
\* descent requirement could throw it away.
THEOREM StationaryCorrect == Spec => []StationaryReturns
<1>1. TypeOK /\ Recorded => StationaryReturns
  BY DEF Recorded, StationaryReturns
<1>2. QED
  BY <1>1, RecordedCorrect, PTL

-----------------------------------------------------------------------------
(* The trial log.                                                          *)

Armijo == policy.search = "armijo"
AcceptedIn(l) == {j \in 1 .. Len(l) : l[j].accepted}
\* The entries of a log are in the order of the iterations; within one of them
\* the steps shrink and only the last trial is accepted.
InOrder(l) == \A j, k \in 1 .. Len(l) :
  j < k => /\ l[j].iteration <= l[k].iteration
           /\ l[j].iteration = l[k].iteration => l[k].step < l[j].step /\ ~l[j].accepted

\* What the log says of the trials behind the running one: they belong to earlier
\* iterations, or were refused at a longer step.
Behind ==
  /\ status \in {"called", "outer"} => \A j \in 1 .. Len(log) : log[j].iteration <= Len(records)
  /\ status = "trying" =>
       /\ step >= MinimumStep
       /\ \A j \in 1 .. Len(log) :
            /\ log[j].iteration <= Len(records) + 1
            /\ log[j].iteration = Len(records) + 1 => step < log[j].step /\ ~log[j].accepted

Explained == Armijo =>
  /\ Len(log) = trials
  /\ InOrder(log)
  /\ \A j \in 1 .. Len(log) : log[j].step >= MinimumStep
  /\ Len(records) = Cardinality(AcceptedIn(log))
  /\ Behind

\* The accepted entries after one more trial.
LEMMA AcceptedAppend ==
  ASSUME NEW l \in Seq(EntryType), NEW e \in EntryType
  PROVE  Cardinality(AcceptedIn(Append(l, e))) =
           Cardinality(AcceptedIn(l)) + IF e.accepted THEN 1 ELSE 0
<1> DEFINE n == Len(l)
<1>1. n \in Nat /\ Len(Append(l, e)) = n + 1
  OBVIOUS
<1>2. \A j \in 1 .. n : Append(l, e)[j] = l[j]
  OBVIOUS
<1>3. Append(l, e)[n + 1] = e
  OBVIOUS
<1>4. IsFiniteSet(AcceptedIn(l))
  <2>1. IsFiniteSet(1 .. n)
    BY <1>1, FS_Interval
  <2>2. QED
    BY <2>1, FS_Subset DEF AcceptedIn
<1>5. n + 1 \notin AcceptedIn(l)
  BY <1>1 DEF AcceptedIn
<1>6. Cardinality(AcceptedIn(l)) \in Nat
  BY <1>4, FS_CardinalityType
<1>7. 1 .. n + 1 = (1 .. n) \cup {n + 1}
  BY <1>1
<1>8. CASE e.accepted
  <2>1. AcceptedIn(Append(l, e)) = AcceptedIn(l) \cup {n + 1}
    BY <1>1, <1>2, <1>3, <1>7, <1>8 DEF AcceptedIn
  <2>2. QED
    BY <1>4, <1>5, <1>8, <2>1, FS_AddElement
<1>9. CASE ~e.accepted
  <2>1. AcceptedIn(Append(l, e)) = AcceptedIn(l)
    BY <1>1, <1>2, <1>3, <1>7, <1>9 DEF AcceptedIn
  <2>2. QED
    BY <1>6, <1>9, <2>1
<1>10. QED
  BY <1>8, <1>9

\* A trial after all the others keeps the order.
LEMMA OrderAppend ==
  ASSUME NEW l \in Seq(EntryType), NEW e \in EntryType, InOrder(l),
         \A j \in 1 .. Len(l) :
           /\ l[j].iteration <= e.iteration
           /\ l[j].iteration = e.iteration => e.step < l[j].step /\ ~l[j].accepted
  PROVE  InOrder(Append(l, e))
<1>1. Len(l) \in Nat /\ Len(Append(l, e)) = Len(l) + 1
  OBVIOUS
<1>2. \A j \in 1 .. Len(l) : Append(l, e)[j] = l[j]
  OBVIOUS
<1>3. Append(l, e)[Len(l) + 1] = e
  OBVIOUS
<1>4. SUFFICES ASSUME NEW j \in 1 .. Len(l) + 1, NEW k \in 1 .. Len(l) + 1, j < k
      PROVE  LET m == Append(l, e)
             IN  /\ m[j].iteration <= m[k].iteration
                 /\ m[j].iteration = m[k].iteration => m[k].step < m[j].step /\ ~m[j].accepted
  BY <1>1 DEF InOrder
<1>5. j \in 1 .. Len(l)
  BY <1>1, <1>4
<1>6. CASE k = Len(l) + 1
  BY <1>2, <1>3, <1>5, <1>6
<1>7. CASE k \in 1 .. Len(l)
  BY <1>2, <1>4, <1>5, <1>7 DEF InOrder
<1>8. QED
  BY <1>1, <1>6, <1>7

\* Armijo's backtracking shortens a step above the floor and stops there.
LEMMA BacktrackedShorter ==
  ASSUME step \in 0 .. InitialStep, Armijo, MinimumStep > 0, step > MinimumStep
  PROVE  Backtracked >= MinimumStep /\ Backtracked < step
<1> DEFINE q == step \div BacktrackingDivisor
<1>1. q \in Nat /\ BacktrackingDivisor * q <= step
  BY StepAssumption
<1>2. BacktrackingDivisor \in Nat /\ BacktrackingDivisor >= 2
  BY StepAssumption
<1>3. Backtracked = IF q >= MinimumStep THEN q ELSE MinimumStep
  BY DEF Backtracked, AtLeast, Armijo
<1> HIDE DEF q
<1>4. 2 * q <= BacktrackingDivisor * q
  BY <1>1, <1>2
<1>5. BacktrackingDivisor * q \in Nat
  BY <1>1, <1>2
<1>6. q < step
  BY <1>1, <1>4, <1>5, StepAssumption
<1>7. QED
  BY <1>1, <1>3, <1>6, StepAssumption

\* One trial is logged.
LEMMA LogStep ==
  ASSUME TypeOK, Explained, Armijo, status = "trying", NEW ok \in BOOLEAN
  PROVE  LET l == Logged(ok)
         IN  /\ Len(l) = trials + 1
             /\ InOrder(l)
             /\ \A j \in 1 .. Len(l) : l[j].step >= MinimumStep
             /\ Cardinality(AcceptedIn(l)) = Len(records) + IF ok THEN 1 ELSE 0
             /\ \A j \in 1 .. Len(l) :
                  /\ l[j].iteration <= Len(records) + 1
                  /\ l[j].iteration = Len(records) + 1 => step <= l[j].step /\ (ok \/ ~l[j].accepted)
<1> DEFINE e == [iteration |-> Len(records) + 1, trial |-> trial, step |-> step, accepted |-> ok]
           l == Append(log, e)
<1>1. Logged(ok) = l
  BY DEF Logged, Armijo
<1>2. log \in Seq(EntryType) /\ Len(records) \in Nat /\ e \in EntryType /\ step \in Nat /\ trials \in Nat
  BY StepAssumption DEF TypeOK, EntryType
<1>3. \A j \in 1 .. Len(log) : log[j] \in EntryType /\ l[j] = log[j]
  BY <1>2
<1>4. Len(l) = Len(log) + 1 /\ l[Len(log) + 1] = e /\ Len(log) \in Nat /\ Len(log) = trials
  BY <1>2 DEF Explained
<1>5. /\ step >= MinimumStep
      /\ \A j \in 1 .. Len(log) :
           /\ log[j].iteration <= Len(records) + 1
           /\ log[j].iteration = Len(records) + 1 => step < log[j].step /\ ~log[j].accepted
  BY DEF Explained, Behind
<1>6. e.iteration = Len(records) + 1 /\ e.step = step /\ e.accepted = ok
  OBVIOUS
<1>7. InOrder(l)
  <2> HIDE DEF e
  <2>1. QED
    BY <1>2, <1>5, <1>6, OrderAppend DEF Explained
<1>8. Cardinality(AcceptedIn(l)) = Len(records) + IF ok THEN 1 ELSE 0
  <2>1. Cardinality(AcceptedIn(log)) = Len(records)
    BY DEF Explained
  <2> HIDE DEF e
  <2>2. QED
    BY <1>2, <1>6, <2>1, AcceptedAppend
<1>9. ASSUME NEW j \in 1 .. Len(l)
      PROVE  /\ l[j].step >= MinimumStep
             /\ l[j].iteration <= Len(records) + 1
             /\ l[j].iteration = Len(records) + 1 => step <= l[j].step /\ (ok \/ ~l[j].accepted)
  <2>1. CASE j = Len(log) + 1
    BY <1>2, <1>4, <1>5, <1>6, <2>1
  <2>2. CASE j \in 1 .. Len(log)
    <3>1. log[j].step >= MinimumStep /\ log[j].step \in Nat
      BY <1>3, <2>2 DEF Explained, EntryType
    <3>2. QED
      BY <1>2, <1>3, <1>5, <2>2, <3>1
  <2>3. QED
    BY <1>4, <2>1, <2>2
<1>10. QED
  BY <1>1, <1>4, <1>7, <1>8, <1>9

LEMMA ExplainedInit == Init => Explained
<1>1. AcceptedIn(<<>>) = {}
  BY DEF AcceptedIn
<1>2. Cardinality({}) = 0
  BY FS_EmptySet
<1>3. Init => log = <<>> /\ records = <<>> /\ trials = 0 /\ status = "called"
  BY DEF Init
<1>4. Len(<<>>) = 0 /\ \A j \in 1 .. 0 : FALSE
  OBVIOUS
<1>5. log = <<>> => InOrder(log)
  BY <1>4 DEF InOrder
<1>6. QED
  BY <1>1, <1>2, <1>3, <1>4, <1>5 DEF Explained, Behind

LEMMA ExplainedAccept == TypeOK /\ Recorded /\ Explained /\ Accept => Explained'
<1> SUFFICES ASSUME TypeOK, Recorded, Explained, Accept, Armijo' PROVE Explained'
  BY DEF Explained
<1>1. Armijo /\ status = "trying" /\ log' = Logged(TRUE) /\ trials' = trials + 1
  BY DEF Accept, Armijo
<1>2. Len(records') = Len(records) + 1 /\ Len(records) \in Nat
  <2>1. PICK o \in Trials : Accepted(o) /\ records' = Append(records, Record(o.value))
    BY DEF Accept
  <2>2. o.value \in Int
    BY <2>1, AcceptedImproves DEF TypeOK, Value
  <2>3. Record(o.value) \in RecordType /\ records \in Seq(RecordType)
    BY <2>2, RecordTyped DEF TypeOK, RecordType, Value, WorkType
  <2>4. QED
    BY <2>1, <2>3
<1>3. status' # "trying"
  BY DEF Accept, Finish, TailReason
<1>4. QED
  BY <1>1, <1>2, <1>3, LogStep DEF Explained, Behind

LEMMA ExplainedReject ==
  ASSUME MinimumStep > 0
  PROVE  TypeOK /\ Explained /\ Reject => Explained'
<1> SUFFICES ASSUME TypeOK, Explained, Reject, Armijo' PROVE Explained'
  BY DEF Explained
<1>1. Armijo /\ status = "trying" /\ log' = Logged(FALSE) /\ trials' = trials + 1
  BY DEF Reject, Armijo
<1>2. records' = records /\ Len(records) \in Nat
  BY DEF Reject, TypeOK
<1>3. /\ Len(log') = trials'
      /\ InOrder(log')
      /\ \A j \in 1 .. Len(log') : log'[j].step >= MinimumStep
      /\ Cardinality(AcceptedIn(log')) = Len(records') + 0
      /\ \A j \in 1 .. Len(log') :
           /\ log'[j].iteration <= Len(records') + 1
           /\ log'[j].iteration = Len(records') + 1 => step <= log'[j].step /\ ~log'[j].accepted
  <2>1. (IF FALSE THEN 1 ELSE 0) = 0 /\ FALSE \in BOOLEAN
    OBVIOUS
  <2>2. QED
    BY <1>1, <1>2, <2>1, LogStep
<1>4. CASE LastTrial
  <2>1. status' \notin {"called", "outer", "trying"}
    BY <1>4 DEF Reject, Finish
  <2>2. QED
    BY <1>2, <1>3, <2>1 DEF Explained, Behind
<1>5. CASE ~LastTrial
  <2>1. step' = Backtracked /\ status' = "trying"
    BY <1>1, <1>5 DEF Reject
  <2>2. step > MinimumStep /\ step \in 0 .. InitialStep
    BY <1>1, <1>5, StepAssumption DEF LastTrial, Armijo, TypeOK
  <2>3. step' >= MinimumStep /\ step' < step
    BY <1>1, <2>1, <2>2, BacktrackedShorter
  <2>4. step' \in Nat /\ step \in Nat
    BY <2>1, <2>2, BacktrackedType, StepAssumption
  <2>5. log' \in Seq(EntryType)
    BY <1>1, LoggedType DEF TypeOK, EntryType
  <2>6. \A j \in 1 .. Len(log') : log'[j] \in EntryType
    BY <2>5
  <2>7. \A j \in 1 .. Len(log') : log'[j].step \in Nat
    BY <2>6 DEF EntryType
  <2>8. QED
    BY <1>2, <1>3, <2>1, <2>3, <2>4, <2>7 DEF Explained, Behind
<1>6. QED
  BY <1>4, <1>5

\* Only the trials write the log.
LEMMA ExplainedStep ==
  ASSUME MinimumStep > 0
  PROVE  TypeOK /\ Recorded /\ Explained /\ [Next]_vars => Explained'
<1> SUFFICES ASSUME TypeOK, Recorded, Explained, [Next]_vars PROVE Explained'
  OBVIOUS
<1>1. CASE Accept
  BY <1>1, ExplainedAccept
<1>2. CASE Reject
  BY <1>2, ExplainedReject
<1>3. CASE Evaluate \/ Throw \/ Done \/ UNCHANGED vars
  <2>1. UNCHANGED <<policy, log, trials, records, step>>
    BY <1>3 DEF Evaluate, Throw, Done, vars
  <2>2. \/ status' = status
        \/ status = "called" /\ status' = "outer"
        \/ status' = "contract_error"
    BY <1>3 DEF Evaluate, Throw, Done, vars
  <2>3. QED
    BY <2>1, <2>2 DEF Explained, Behind, Armijo
<1>4. CASE Outer
  <2>1. UNCHANGED <<policy, log, trials, records>> /\ step' = InitialStep /\ status = "outer"
    BY <1>4 DEF Outer
  <2>2. status' \notin {"called", "outer"}
    BY <1>4 DEF Outer, HeadReason, Finish
  <2>3. Len(records) \in Nat /\ log \in Seq(EntryType)
    BY DEF TypeOK, EntryType
  <2>4. \A j \in 1 .. Len(log) : log[j] \in EntryType
    BY <2>3
  <2>5. \A j \in 1 .. Len(log) : log[j].iteration \in Nat
    BY <2>4 DEF EntryType
  <2>6. QED
    BY <2>1, <2>2, <2>3, <2>5, StepAssumption DEF Explained, Behind, Armijo
<1>5. QED
  BY <1>1, <1>2, <1>3, <1>4 DEF Next

\* The trial log of an Armijo search tells its story, for every limit and every
\* floor above zero. With no floor an integer step would end at zero and stay there.
THEOREM LogCorrect == ASSUME MinimumStep > 0 PROVE Spec => []LogExplainsSteps
<1>1. TypeOK /\ Explained => LogExplainsSteps
  BY DEF Explained, LogExplainsSteps, Armijo, InOrder, AcceptedIn
<1>2. QED
  BY <1>1, RecordedCorrect, ExplainedInit, ExplainedStep, PTL DEF Spec

\* The safety half of the contract: the call starts without an iterate, and
\* each step accepts one iterate that is better in the sense of its line search,
\* ends the call, or changes nothing a caller sees.
THEOREM ImplementsPromise ==
  Spec => /\ Promise!Init
          /\ [][Promise!Next]_<<Phase, [search |-> policy.search, value |-> objective],
                                Len(records)>>
<1> DEFINE best == [search |-> policy.search, value |-> objective]
<1>1. Init => Promise!Init
  BY DEF Init, Promise!Init, Phase, Reasons, Failures
<1>2. TypeOK /\ Recorded /\ [Next]_vars => [Promise!Next]_<<Phase, best, Len(records)>>
  <2> SUFFICES ASSUME TypeOK, Recorded, [Next]_vars
               PROVE  [Promise!Next]_<<Phase, best, Len(records)>>
    OBVIOUS
  <2>1. CASE Accept
    <3>1. PICK o \in Trials :
            /\ Accepted(o)
            /\ records' = Append(records, Record(o.value))
            /\ objective' = o.value
      BY <2>1 DEF Accept
    <3>2. status = "trying" /\ Len(records) < MaximumIterations /\ policy' = policy
      BY <2>1 DEF Accept, Recorded
    <3>3. /\ o.value \in Int
          /\ Better([search |-> policy.search, value |-> o.value], best)
      BY <3>1, AcceptedImproves DEF TypeOK, Value
    <3>4. Better(best', best)
      BY <3>1, <3>2, <3>3
    <3>5. Len(records') = Len(records) + 1
      <4>1. Record(o.value) \in RecordType /\ records \in Seq(RecordType)
        BY <3>3, RecordTyped DEF TypeOK, RecordType, Value, WorkType
      <4>2. QED
        BY <3>1, <4>1
    <3>6. Phase = "running" /\ Phase' \in {"running", "returned", "failed"}
      BY <3>2 DEF Phase, Reasons, Failures
    <3>7. QED
      BY <3>2, <3>4, <3>5, <3>6 DEF Promise!Next, Promise!Accept
  <2>2. CASE Evaluate \/ Outer \/ Reject \/ Throw
    <3>1. status \in {"called", "outer", "trying"}
      BY <2>2 DEF Evaluate, Outer, Reject, Throw
    <3>2. UNCHANGED <<best, Len(records)>>
      BY <2>2 DEF Evaluate, Outer, Reject, Throw
    <3>3. Phase = "running" /\ Phase' \in {"running", "returned", "failed"}
      BY <3>1 DEF Phase, Reasons, Failures
    <3>4. QED
      BY <3>2, <3>3 DEF Promise!Next, Promise!End
  <2>3. CASE UNCHANGED vars
    BY <2>3 DEF vars, Phase
  <2>4. QED
    BY <2>1, <2>2, <2>3 DEF Next, Done
<1>3. QED
  BY <1>1, <1>2, RecordedCorrect, PTL DEF Spec
=============================================================================
