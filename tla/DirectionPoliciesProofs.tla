----------------------- MODULE DirectionPoliciesProofs -----------------------
(***************************************************************************)
(* Proofs about the direction policies for every number of coefficients,   *)
(* every metric that is a scalar product, every quadratic with positive    *)
(* definite Hessian, every arbitrary model, every tolerance and memory.    *)
(* MCDirectionPolicies samples the theorems' hypotheses Elliptic and       *)
(* OneHessian on the problems it checks.                                   *)
(***************************************************************************)
EXTENDS DirectionPolicies, RationalVectorsProofs

Size == Len(problem.metric)

Phases == {"asking", "moving", "gradient_tolerance", "contract_error"}

Shape ==
  /\ problem \in Problems /\ policy \in Policies /\ phase \in Phases
  /\ control \in Vec(Size) /\ derivative \in Vec(Size)

-----------------------------------------------------------------------------
(* The metric.                                                             *)

\* The blocks and matrices of a problem have the size of its metric.
LEMMA Layout ==
  ASSUME problem \in Problems
  PROVE  /\ Size \in Nat /\ problem.quadratic \in BOOLEAN
         /\ problem.metric \in Mat(Size) /\ problem.inverse \in Mat(Size)
         /\ \A hessian \in problem.hessians : hessian \in Mat(Size)
         /\ \A start \in problem.starts : start.control \in Vec(Size) /\ start.derivative \in Vec(Size)
         /\ ~problem.quadratic => \A v \in Controls \union Derivatives : v \in Vec(Size)
<1>1. problem.metric \in Seq(Seq(Rationals))
  BY ProblemAssumption
<1>2. Size \in Nat
  BY <1>1 DEF Size
<1>3. QED
  BY <1>2, ProblemAssumption DEF Size

\* The Riesz map and the squared norm keep to the layout.
LEMMA MetricTypes ==
  ASSUME problem \in Problems, NEW x \in Vec(Size)
  PROVE  Riesz(x) \in Vec(Size) /\ SquaredNorm(x) \in Rationals
BY Layout, ApplyType, PairType DEF Riesz, SquaredNorm

\* The sign of a pairing with an opposite vector.
LEMMA OppositeDescends ==
  ASSUME NEW n \in Nat, NEW x \in Vec(n), NEW y \in Vec(n)
  PROVE  Positive(Negated(Pair(x, Opposite(y)))) <=> Positive(Pair(x, y))
<1>1. Pair(x, Opposite(y)) = Negated(Pair(x, y)) /\ Pair(x, y) \in Rationals
  BY PairOpposite, PairType
<1>2. QED
  BY <1>1, Signs

\* The gradient of a derivative that is not zero is a direction of ascent.
LEMMA GradientAscends ==
  ASSUME Elliptic, problem \in Problems, NEW x \in Vec(Size)
  PROVE  NonNegative(Pair(x, Riesz(x))) /\ (~IsZero(x) => Positive(Pair(x, Riesz(x))))
<1>1. Size \in Nat /\ Riesz(x) \in Vec(Size) /\ Pair(x, Riesz(x)) \in Rationals
  BY Layout, MetricTypes, PairType
<1>2. Pair(x, Riesz(x)) = Pair(Apply(problem.inverse, x), x)
  BY <1>1, PairSymmetric DEF Riesz
<1>3. PositiveOn(problem.inverse, Vec(Size))
  BY DEF Elliptic, EllipticOn, Size
<1>4. ~IsZero(x) => Positive(Pair(x, Riesz(x)))
  BY <1>2, <1>3 DEF PositiveOn
<1>5. IsZero(x) => Pair(x, Riesz(x)) = Zero
  BY <1>1, PairZero
<1>6. QED
  BY <1>1, <1>4, <1>5, Signs

\* The opposite of the gradient descends unless the derivative is zero.
LEMMA SteepestDescends ==
  ASSUME Elliptic, Shape, ~IsZero(derivative)
  PROVE  Positive(Negated(Pair(derivative, Opposite(Gradient))))
<1>1. problem \in Problems /\ derivative \in Vec(Size) /\ Size \in Nat
  BY Layout DEF Shape
<1>2. Positive(Pair(derivative, Gradient)) /\ Gradient \in Vec(Size)
  BY <1>1, GradientAscends, MetricTypes DEF Gradient
<1>3. QED
  BY <1>1, <1>2, OppositeDescends

\* Nothing is below zero.
LEMMA BelowTolerance ==
  ASSUME NEW t \in Rationals, Positive(t)
  PROVE  AtMost(Zero, t)
<1>1. Difference(Zero, t) = Negated(t)
  BY Closed, Neutral DEF Difference
<1>2. QED
  BY <1>1, AtMostSign, Signs, ZeroIs

\* At a stationary point the first test of the loop head holds.
LEMMA StationaryStops ==
  ASSUME Shape, IsZero(derivative), NEW slope
  PROVE  LoopHead(SquaredNorm(Gradient), slope) = "gradient_tolerance"
<1>1. problem \in Problems /\ derivative \in Vec(Size) /\ Size \in Nat
      /\ problem.metric \in Mat(Size) /\ problem.inverse \in Mat(Size)
  BY Layout DEF Shape
<1>2. Gradient \in Vec(Size) /\ IsZero(Gradient)
  BY <1>1, ApplyType, ApplyZero DEF Gradient, Riesz
<1>3. Apply(problem.metric, Gradient) \in Vec(Size) /\ IsZero(Apply(problem.metric, Gradient))
  BY <1>1, <1>2, ApplyType, ApplyZero
<1>4. SquaredNorm(Gradient) = Zero
  BY <1>1, <1>2, <1>3, PairZero DEF SquaredNorm
<1>5. AtMost(Zero, SquaredTolerance)
  BY BelowTolerance, ToleranceAssumption
<1>6. QED
  BY <1>4, <1>5 DEF LoopHead

-----------------------------------------------------------------------------
(* The two-loop recursion.                                                 *)

\* The secant pairs a history may hold.
Pairs(n) ==
  {pair \in [s : Vec(n), y : Vec(n), curvature : Rationals, scale : Rationals] :
     /\ pair.curvature = Pair(pair.y, pair.s)
     /\ Positive(pair.curvature) /\ Positive(pair.scale)}

Alpha(q, pairs, i) == Quotient(Pair(q[i + 1], pairs[i].s), pairs[i].curvature)
Beta(z, pairs, i) == Quotient(Pair(pairs[i].y, z[i - 1]), pairs[i].curvature)

FirstLoop(q, pairs, covector, n) ==
  /\ q \in [1 .. Len(pairs) + 1 -> Vec(n)] /\ q[Len(pairs) + 1] = covector
  /\ \A i \in 1 .. Len(pairs) :
       q[i] = AddScaled(q[i + 1], Negated(Alpha(q, pairs, i)), pairs[i].y)

SecondLoop(z, q, pairs, n) ==
  /\ z \in [0 .. Len(pairs) -> Vec(n)] /\ z[0] = Scaled(pairs[Len(pairs)].scale, Riesz(q[1]))
  /\ \A i \in 1 .. Len(pairs) :
       z[i] = AddScaled(z[i - 1], Difference(Alpha(q, pairs, i), Beta(z, pairs, i)), pairs[i].s)

\* The parts of a pair of positive curvature, and the coefficients computed from it.
LEMMA PairParts ==
  ASSUME NEW n \in Nat, NEW pairs \in Seq(Pairs(n)), NEW i \in 1 .. Len(pairs), NEW v \in Vec(n)
  PROVE  /\ pairs[i].s \in Vec(n) /\ pairs[i].y \in Vec(n)
         /\ pairs[i].curvature \in Rationals /\ pairs[i].scale \in Rationals
         /\ pairs[i].curvature = Pair(pairs[i].y, pairs[i].s)
         /\ Positive(pairs[i].curvature) /\ Positive(pairs[i].scale) /\ pairs[i].curvature # Zero
         /\ Quotient(Pair(v, pairs[i].s), pairs[i].curvature) \in Rationals
         /\ Quotient(Pair(pairs[i].y, v), pairs[i].curvature) \in Rationals
<1>1. pairs[i] \in Pairs(n)
  OBVIOUS
<1>2. /\ pairs[i].s \in Vec(n) /\ pairs[i].y \in Vec(n)
      /\ pairs[i].curvature \in Rationals /\ pairs[i].scale \in Rationals
      /\ pairs[i].curvature = Pair(pairs[i].y, pairs[i].s)
      /\ Positive(pairs[i].curvature) /\ Positive(pairs[i].scale)
  BY <1>1 DEF Pairs
<1>3. pairs[i].curvature # Zero
  BY <1>2, Signs
<1>4. Pair(v, pairs[i].s) \in Rationals /\ Pair(pairs[i].y, v) \in Rationals
  BY <1>2, PairType
<1>5. QED
  BY <1>2, <1>3, <1>4, Closed

\* The first loop of the recursion, as a function from the newest pair backwards.
LEMMA FirstLoopExists ==
  ASSUME NEW n \in Nat, NEW pairs \in Seq(Pairs(n)), NEW covector \in Vec(n)
  PROVE  \E q : FirstLoop(q, pairs, covector, n)
<1> DEFINE m == Len(pairs)
           back(j) == m + 1 - j
           step == [p \in (1 .. m) \X Vec(n) |->
                      AddScaled(p[2],
                        Negated(Quotient(Pair(p[2], pairs[back(p[1])].s), pairs[back(p[1])].curvature)),
                        pairs[back(p[1])].y)]
<1>1. m \in Nat /\ \A j \in 1 .. m : back(j) \in 1 .. m
  OBVIOUS
<1>2. \A j \in 1 .. m, v \in Vec(n) :
        step[<<j, v>>] = AddScaled(v,
                           Negated(Quotient(Pair(v, pairs[back(j)].s), pairs[back(j)].curvature)),
                           pairs[back(j)].y)
  OBVIOUS
<1> HIDE DEF step
<1>3. ASSUME NEW j \in 1 .. m, NEW v \in Vec(n) PROVE step[<<j, v>>] \in Vec(n)
  <2> DEFINE i == back(j)
  <2>1. i \in 1 .. Len(pairs)
    BY <1>1
  <2> HIDE DEF i
  <2>2. pairs[i].y \in Vec(n) /\ Quotient(Pair(v, pairs[i].s), pairs[i].curvature) \in Rationals
    BY <2>1, PairParts
  <2>3. Negated(Quotient(Pair(v, pairs[i].s), pairs[i].curvature)) \in Rationals
    BY <2>2, Closed
  <2>4. AddScaled(v, Negated(Quotient(Pair(v, pairs[i].s), pairs[i].curvature)), pairs[i].y)
          \in Vec(n)
    BY <2>2, <2>3, CombinationTypes
  <2>5. QED
    BY <1>2, <2>4 DEF i
<1>4. IsStep(step, Vec(n), m)
  BY <1>3 DEF IsStep
<1>5. PICK f : Iterates(f, Vec(n), m, covector, step)
  BY <1>1, <1>4, FiniteRecursion
<1> DEFINE q == [i \in 1 .. m + 1 |-> f[m + 1 - i]]
<1>6. \A i \in 1 .. m + 1 : q[i] = f[m + 1 - i] /\ m + 1 - i \in 0 .. m
  OBVIOUS
<1>7. q \in [1 .. m + 1 -> Vec(n)] /\ q[m + 1] = covector
  BY <1>1, <1>5, <1>6 DEF Iterates
<1> HIDE DEF q
<1>8. ASSUME NEW i \in 1 .. m
      PROVE  q[i] = AddScaled(q[i + 1], Negated(Alpha(q, pairs, i)), pairs[i].y)
  <2> DEFINE j == m + 1 - i
  <2>1. j \in 1 .. m /\ j - 1 = m + 1 - (i + 1) /\ i + 1 \in 1 .. m + 1 /\ i \in 1 .. m + 1
        /\ back(j) = i
    OBVIOUS
  <2>2. q[i] = f[j] /\ q[i + 1] = f[j - 1]
    BY <1>6, <2>1
  <2> HIDE DEF j
  <2>3. f[j] = step[<<j, f[j - 1]>>]
    BY <1>5, <2>1 DEF Iterates
  <2>4. q[i + 1] \in Vec(n)
    BY <1>7, <2>1
  <2> HIDE DEF back
  <2>5. QED
    BY <1>2, <2>1, <2>2, <2>3, <2>4 DEF Alpha
<1>9. FirstLoop(q, pairs, covector, n)
  BY <1>7, <1>8 DEF FirstLoop
<1>10. QED
  BY <1>9

\* The second loop, which uses the covectors of the first.
LEMMA SecondLoopExists ==
  ASSUME problem \in Problems, NEW pairs \in Seq(Pairs(Size)), pairs # <<>>,
         NEW covector \in Vec(Size), NEW q, FirstLoop(q, pairs, covector, Size)
  PROVE  \E z : SecondLoop(z, q, pairs, Size)
<1> DEFINE n == Size
           m == Len(pairs)
           step == [p \in (1 .. m) \X Vec(n) |->
                      AddScaled(p[2],
                        Difference(Alpha(q, pairs, p[1]),
                                   Quotient(Pair(pairs[p[1]].y, p[2]), pairs[p[1]].curvature)),
                        pairs[p[1]].s)]
           base == Scaled(pairs[m].scale, Riesz(q[1]))
<1>1. n \in Nat /\ m \in Nat /\ m \in 1 .. m /\ 1 \in 1 .. m + 1
  BY Layout
<1>2. \A i \in 1 .. m + 1 : q[i] \in Vec(n)
  BY DEF FirstLoop
<1>3. \A i \in 1 .. m, v \in Vec(n) :
        step[<<i, v>>] = AddScaled(v, Difference(Alpha(q, pairs, i),
                                      Quotient(Pair(pairs[i].y, v), pairs[i].curvature)),
                                   pairs[i].s)
  OBVIOUS
<1> HIDE DEF step
<1>4. base \in Vec(n)
  <2>1. pairs[m].scale \in Rationals /\ Riesz(q[1]) \in Vec(n)
    BY <1>1, <1>2, PairParts, MetricTypes
  <2>2. QED
    BY <1>1, <2>1, CombinationTypes
<1>5. ASSUME NEW i \in 1 .. m, NEW v \in Vec(n) PROVE step[<<i, v>>] \in Vec(n)
  <2>1. q[i + 1] \in Vec(n)
    BY <1>2
  <2>2. Alpha(q, pairs, i) \in Rationals
    BY <1>1, <2>1, PairParts DEF Alpha
  <2>3. pairs[i].s \in Vec(n) /\ Quotient(Pair(pairs[i].y, v), pairs[i].curvature) \in Rationals
    BY <1>1, PairParts
  <2>4. Difference(Alpha(q, pairs, i), Quotient(Pair(pairs[i].y, v), pairs[i].curvature)) \in Rationals
    BY <2>2, <2>3, Closed
  <2>5. AddScaled(v, Difference(Alpha(q, pairs, i),
                                Quotient(Pair(pairs[i].y, v), pairs[i].curvature)), pairs[i].s)
          \in Vec(n)
    BY <1>1, <2>3, <2>4, CombinationTypes
  <2>6. QED
    BY <1>3, <2>5
<1>6. IsStep(step, Vec(n), m)
  BY <1>5 DEF IsStep
<1> HIDE DEF base
<1>7. PICK z : Iterates(z, Vec(n), m, base, step)
  BY <1>1, <1>4, <1>6, FiniteRecursion
<1>8. ASSUME NEW i \in 1 .. m
      PROVE  z[i] = AddScaled(z[i - 1], Difference(Alpha(q, pairs, i), Beta(z, pairs, i)), pairs[i].s)
  <2>1. z[i - 1] \in Vec(n) /\ z[i] = step[<<i, z[i - 1]>>]
    BY <1>7 DEF Iterates
  <2>2. QED
    BY <1>3, <2>1 DEF Beta
<1>9. SecondLoop(z, q, pairs, n)
  BY <1>7, <1>8 DEF SecondLoop, Iterates, base
<1>10. QED
  BY <1>9

\* What the recursion computes is the last value of its second loop.
LEMMA TwoLoopRuns ==
  ASSUME problem \in Problems, NEW pairs \in Seq(Pairs(Size)), pairs # <<>>,
         NEW covector \in Vec(Size)
  PROVE  \E q, z : /\ FirstLoop(q, pairs, covector, Size) /\ SecondLoop(z, q, pairs, Size)
                   /\ TwoLoop(pairs, covector) = z[Len(pairs)]
<1> DEFINE FirstEquation(q) ==
             q = [i \in 1 .. Len(pairs) + 1 |->
                    IF i = Len(pairs) + 1 THEN covector
                    ELSE AddScaled(q[i + 1],
                           Negated(Quotient(Pair(q[i + 1], pairs[i].s), pairs[i].curvature)),
                           pairs[i].y)]
           SecondEquation(z, q) ==
             z = [i \in 0 .. Len(pairs) |->
                    IF i = 0 THEN Scaled(pairs[Len(pairs)].scale, Riesz(q[1]))
                    ELSE AddScaled(z[i - 1],
                           Difference(Quotient(Pair(q[i + 1], pairs[i].s), pairs[i].curvature),
                                      Quotient(Pair(pairs[i].y, z[i - 1]), pairs[i].curvature)),
                           pairs[i].s)]
           first == CHOOSE q : FirstEquation(q)
           second == CHOOSE z : SecondEquation(z, first)
<1>1. TwoLoop(pairs, covector) = second[Len(pairs)]
  BY DEF TwoLoop
<1>2. Size \in Nat /\ Len(pairs) \in Nat
  BY Layout
<1>3. PICK q : FirstLoop(q, pairs, covector, Size)
  BY <1>2, FirstLoopExists
<1>4. ASSUME FirstEquation(q) PROVE first = q
  <2>1. FirstEquation(first)
    BY <1>4
  <2> DEFINE T == {k \in 0 .. Len(pairs) : first[Len(pairs) + 1 - k] = q[Len(pairs) + 1 - k]}
  <2> HIDE DEF first
  <2>2. 0 \in T
    BY <1>2, <1>4, <2>1
  <2>3. ASSUME NEW k \in 1 .. Len(pairs), k - 1 \in T PROVE k \in T
    <3> DEFINE i == Len(pairs) + 1 - k
    <3>1. i \in 1 .. Len(pairs) /\ i + 1 = Len(pairs) + 1 - (k - 1) /\ i # Len(pairs) + 1
          /\ i \in 1 .. Len(pairs) + 1
      BY <1>2
    <3>2. first[i + 1] = q[i + 1]
      BY <2>3, <3>1
    <3> HIDE DEF i
    <3>3. first[i] = AddScaled(first[i + 1],
                       Negated(Quotient(Pair(first[i + 1], pairs[i].s), pairs[i].curvature)),
                       pairs[i].y)
      BY <2>1, <3>1
    <3>4. q[i] = AddScaled(q[i + 1],
                       Negated(Quotient(Pair(q[i + 1], pairs[i].s), pairs[i].curvature)),
                       pairs[i].y)
      BY <1>4, <3>1
    <3>5. first[i] = q[i]
      BY <3>2, <3>3, <3>4
    <3>6. QED
      BY <3>5 DEF i
  <2> HIDE DEF T
  <2>4. 0 .. Len(pairs) \subseteq T
    BY <1>2, <2>2, <2>3, IntervalInduction
  <2>5. ASSUME NEW i \in 1 .. Len(pairs) + 1 PROVE first[i] = q[i]
    <3>1. Len(pairs) + 1 - i \in T /\ Len(pairs) + 1 - (Len(pairs) + 1 - i) = i
      BY <1>2, <2>4
    <3>2. QED
      BY <3>1 DEF T
  <2>6. DOMAIN first = 1 .. Len(pairs) + 1 /\ first = [i \in 1 .. Len(pairs) + 1 |-> first[i]]
    BY <2>1
  <2>7. q = [i \in 1 .. Len(pairs) + 1 |-> q[i]]
    BY <1>3 DEF FirstLoop
  <2>8. QED
    BY <2>5, <2>6, <2>7
<1>5. FirstEquation(q)
  <2>1. ASSUME NEW i \in 1 .. Len(pairs) + 1
        PROVE  q[i] = IF i = Len(pairs) + 1 THEN covector
                      ELSE AddScaled(q[i + 1],
                             Negated(Quotient(Pair(q[i + 1], pairs[i].s), pairs[i].curvature)),
                             pairs[i].y)
    <3>1. CASE i = Len(pairs) + 1
      BY <1>3, <3>1 DEF FirstLoop
    <3>2. CASE i # Len(pairs) + 1
      <4>1. i \in 1 .. Len(pairs)
        BY <1>2, <3>2
      <4>2. QED
        BY <1>3, <3>2, <4>1 DEF FirstLoop, Alpha
    <3>3. QED
      BY <3>1, <3>2
  <2>2. q = [i \in 1 .. Len(pairs) + 1 |-> q[i]]
    BY <1>3 DEF FirstLoop
  <2>3. QED
    BY <2>1, <2>2
<1>6. first = q
  BY <1>4, <1>5
<1> HIDE DEF first
<1>7. PICK z : SecondLoop(z, q, pairs, Size)
  BY <1>3, SecondLoopExists
<1>8. SecondEquation(z, first)
  <2>1. ASSUME NEW i \in 0 .. Len(pairs)
        PROVE  z[i] = IF i = 0 THEN Scaled(pairs[Len(pairs)].scale, Riesz(first[1]))
                      ELSE AddScaled(z[i - 1],
                             Difference(Quotient(Pair(first[i + 1], pairs[i].s), pairs[i].curvature),
                                        Quotient(Pair(pairs[i].y, z[i - 1]), pairs[i].curvature)),
                             pairs[i].s)
    <3>1. CASE i = 0
      BY <1>6, <1>7, <3>1 DEF SecondLoop
    <3>2. CASE i # 0
      <4>1. i \in 1 .. Len(pairs)
        BY <1>2, <3>2
      <4>2. QED
        BY <1>6, <1>7, <3>2, <4>1 DEF SecondLoop, Alpha, Beta
    <3>3. QED
      BY <3>1, <3>2
  <2>2. z = [i \in 0 .. Len(pairs) |-> z[i]]
    BY <1>7 DEF SecondLoop
  <2>3. QED
    BY <2>1, <2>2
<1>9. SecondEquation(second, first)
  BY <1>8
<1> HIDE DEF second
<1>10. \A k \in 0 .. Len(pairs) : second[k] = z[k]
  <2> DEFINE T == {k \in 0 .. Len(pairs) : second[k] = z[k]}
  <2>1. 0 \in T
    BY <1>2, <1>8, <1>9
  <2>2. ASSUME NEW i \in 1 .. Len(pairs), i - 1 \in T PROVE i \in T
    <3>1. second[i - 1] = z[i - 1] /\ i \in 0 .. Len(pairs) /\ i # 0
      BY <2>2
    <3>2. second[i] = AddScaled(second[i - 1],
                        Difference(Quotient(Pair(first[i + 1], pairs[i].s), pairs[i].curvature),
                                   Quotient(Pair(pairs[i].y, second[i - 1]), pairs[i].curvature)),
                        pairs[i].s)
      BY <1>9, <3>1
    <3>3. z[i] = AddScaled(z[i - 1],
                   Difference(Quotient(Pair(first[i + 1], pairs[i].s), pairs[i].curvature),
                              Quotient(Pair(pairs[i].y, z[i - 1]), pairs[i].curvature)),
                   pairs[i].s)
      BY <1>8, <3>1
    <3>4. QED
      BY <3>1, <3>2, <3>3
  <2> HIDE DEF T
  <2>3. 0 .. Len(pairs) \subseteq T
    BY <1>2, <2>1, <2>2, IntervalInduction
  <2>4. QED
    BY <2>3 DEF T
<1>11. TwoLoop(pairs, covector) = z[Len(pairs)]
  BY <1>1, <1>2, <1>10
<1>12. QED
  BY <1>3, <1>7, <1>11

\* q(i) = q(i+1) - alpha(i) y(i), read from left to right.
LEMMA LoopPairing ==
  ASSUME problem \in Problems, NEW pairs \in Seq(Pairs(Size)), NEW covector \in Vec(Size),
         NEW q, NEW z, FirstLoop(q, pairs, covector, Size), SecondLoop(z, q, pairs, Size),
         NEW i \in 1 .. Len(pairs)
  PROVE  /\ Alpha(q, pairs, i) \in Rationals
         /\ Pair(q[i + 1], z[i])
              = Sum2(Pair(q[i], z[i - 1]),
                     Product(Product(Alpha(q, pairs, i), Alpha(q, pairs, i)), pairs[i].curvature))
<1> DEFINE n == Size
           w == q[i + 1]
           v == z[i - 1]
           s == pairs[i].s
           y == pairs[i].y
           c == pairs[i].curvature
           a == Alpha(q, pairs, i)
           b == Beta(z, pairs, i)
<1>1. n \in Nat /\ w \in Vec(n) /\ v \in Vec(n)
  <2>1. i + 1 \in 1 .. Len(pairs) + 1 /\ i - 1 \in 0 .. Len(pairs)
    OBVIOUS
  <2>2. Size \in Nat /\ q[i + 1] \in Vec(Size) /\ z[i - 1] \in Vec(Size)
    BY <2>1, Layout DEF FirstLoop, SecondLoop
  <2>3. QED
    BY <2>2
<1>2. /\ s \in Vec(n) /\ y \in Vec(n) /\ c \in Rationals /\ c # Zero
      /\ a \in Rationals /\ b \in Rationals
  BY <1>1, PairParts DEF Alpha, Beta
<1>3. q[i] = AddScaled(w, Negated(a), y) /\ z[i] = AddScaled(v, Difference(a, b), s)
  BY DEF FirstLoop, SecondLoop
<1>4. Product(a, c) = Pair(w, s) /\ Product(b, c) = Pair(y, v)
  <2>1. Pair(w, s) \in Rationals /\ Pair(y, v) \in Rationals
    BY <1>1, <1>2, PairType
  <2>2. QED
    BY <1>2, <2>1, QuotientProduct DEF Alpha, Beta
<1> HIDE DEF n, w, v, s, y, c, a, b
<1>5. Negated(a) \in Rationals /\ Difference(a, b) \in Rationals /\ Negated(b) \in Rationals
      /\ Pair(w, v) \in Rationals /\ Product(a, a) \in Rationals /\ Product(a, b) \in Rationals
  BY <1>1, <1>2, Closed, PairType
<1> DEFINE p == Pair(w, v)
           ab == Product(Product(a, b), c)
           aa == Product(Product(a, a), c)
<1>6. ab \in Rationals /\ aa \in Rationals /\ p \in Rationals /\ Negated(ab) \in Rationals
  BY <1>2, <1>5, Closed
<1>7. Pair(q[i], v) = Sum2(p, Negated(ab))
  <2>1. Pair(q[i], v) = Sum2(p, Product(Negated(a), Pair(y, v)))
    BY <1>1, <1>2, <1>3, <1>5, PairAddScaled
  <2>2. Product(Negated(a), Product(b, c)) = Negated(ab)
    <3>1. Product(Minus1, a) = Negated(a) /\ Product(Minus1, ab) = Negated(ab) /\ Minus1 \in Rationals
      BY <1>2, <1>6, Neutral
    <3>2. Product(b, c) \in Rationals
      BY <1>2, Closed
    <3>3. Product(Product(Minus1, a), Product(b, c)) = Product(Minus1, Product(a, Product(b, c)))
      BY <1>2, <3>1, <3>2, ProductAssociates
    <3>4. Product(a, Product(b, c)) = ab
      BY <1>2, ProductAssociates
    <3>5. QED
      BY <3>1, <3>3, <3>4
  <2>3. QED
    BY <1>4, <2>1, <2>2
<1>8. Pair(w, z[i]) = Sum2(p, Sum2(aa, Negated(ab)))
  <2>1. Pair(w, z[i]) = Sum2(p, Product(Difference(a, b), Pair(w, s)))
    BY <1>1, <1>2, <1>3, <1>5, PairAddScaledRight
  <2>2. Product(Difference(a, b), Product(a, c)) = Sum2(aa, Negated(ab))
    <3> DEFINE d == Product(a, c)
    <3>1. d \in Rationals
      BY <1>2, Closed
    <3>2. Product(a, d) = aa
      BY <1>2, ProductAssociates
    <3>3. Product(b, d) = ab
      <4>1. Product(b, d) = Product(Product(b, a), c)
        BY <1>2, ProductAssociates
      <4>2. Product(b, a) = Product(a, b)
        BY <1>2, ProductCommutes
      <4>3. QED
        BY <4>1, <4>2
    <3> HIDE DEF d
    <3>4. Product(d, Sum2(a, Negated(b))) = Sum2(Product(d, a), Product(d, Negated(b)))
      BY <1>2, <1>5, <3>1, Distributes
    <3>5. Product(d, a) = aa /\ Product(d, Negated(b)) = Product(Negated(b), d)
      BY <1>2, <1>5, <3>1, <3>2, ProductCommutes
    <3>6. Product(Negated(b), d) = Negated(ab)
      <4>1. Product(Minus1, b) = Negated(b) /\ Product(Minus1, ab) = Negated(ab) /\ Minus1 \in Rationals
        BY <1>2, <1>6, Neutral
      <4>2. Product(Product(Minus1, b), d) = Product(Minus1, Product(b, d))
        BY <1>2, <3>1, <4>1, ProductAssociates
      <4>3. QED
        BY <3>3, <4>1, <4>2
    <3>7. Product(Difference(a, b), d) = Product(d, Sum2(a, Negated(b)))
      BY <1>5, <3>1, ProductCommutes DEF Difference
    <3>8. QED
      BY <3>4, <3>5, <3>6, <3>7 DEF d
  <2>3. QED
    BY <1>4, <2>1, <2>2
<1> HIDE DEF p, ab, aa
<1>9. Sum2(p, Sum2(aa, Negated(ab))) = Sum2(Sum2(p, Negated(ab)), aa)
  <2>1. Sum2(aa, Negated(ab)) = Sum2(Negated(ab), aa)
    BY <1>6, SumCommutes
  <2>2. Sum2(Sum2(p, Negated(ab)), aa) = Sum2(p, Sum2(Negated(ab), aa))
    BY <1>6, SumAssociates
  <2>3. QED
    BY <2>1, <2>2
<1>10. Pair(w, z[i]) = Sum2(Pair(q[i], v), aa)
  BY <1>7, <1>8, <1>9
<1>11. QED
  BY <1>2, <1>10 DEF w, v, c, a, aa

\* The pairs of positive curvature and the metric make the recursion positive
\* definite: its result descends from every derivative that is not zero.
LEMMA TwoLoopAscends ==
  ASSUME Elliptic, problem \in Problems, NEW pairs \in Seq(Pairs(Size)), pairs # <<>>,
         NEW covector \in Vec(Size)
  PROVE  /\ TwoLoop(pairs, covector) \in Vec(Size)
         /\ ~IsZero(covector) => Positive(Pair(covector, TwoLoop(pairs, covector)))
<1> DEFINE n == Size
           m == Len(pairs)
<1>1. n \in Nat /\ m \in Nat /\ m \in 1 .. m
  BY Layout
<1>2. PICK q, z : /\ FirstLoop(q, pairs, covector, n) /\ SecondLoop(z, q, pairs, n)
                  /\ TwoLoop(pairs, covector) = z[m]
  BY TwoLoopRuns
<1>3. /\ \A i \in 1 .. m + 1 : q[i] \in Vec(n)
      /\ \A i \in 0 .. m : z[i] \in Vec(n)
      /\ q[m + 1] = covector /\ z[0] = Scaled(pairs[m].scale, Riesz(q[1]))
  BY <1>2 DEF FirstLoop, SecondLoop
<1> DEFINE T == {i \in 0 .. m : /\ NonNegative(Pair(q[i + 1], z[i]))
                                /\ ~IsZero(q[i + 1]) => Positive(Pair(q[i + 1], z[i]))}
<1>4. 0 \in T
  <2> DEFINE scale == pairs[m].scale
             x == q[1]
  <2>1. scale \in Rationals /\ Positive(scale) /\ x \in Vec(n) /\ Riesz(x) \in Vec(n)
    BY <1>1, <1>3, PairParts, MetricTypes
  <2> HIDE DEF scale, x
  <2>2. Pair(x, Riesz(x)) \in Rationals
    BY <1>1, <2>1, PairType
  <2>3. NonNegative(Pair(x, Riesz(x))) /\ (~IsZero(x) => Positive(Pair(x, Riesz(x))))
    BY <2>1, GradientAscends
  <2>4. Pair(x, Scaled(scale, Riesz(x))) = Product(scale, Pair(x, Riesz(x)))
    BY <1>1, <2>1, PairScaled
  <2>5. NonNegative(Pair(x, Scaled(scale, Riesz(x))))
        /\ (~IsZero(x) => Positive(Pair(x, Scaled(scale, Riesz(x)))))
    BY <2>1, <2>2, <2>3, <2>4, ProductSigns, Signs
  <2>6. QED
    BY <1>1, <1>3, <2>5 DEF scale, x
<1>5. ASSUME NEW i \in 1 .. m, i - 1 \in T PROVE i \in T
  <2> DEFINE a == Alpha(q, pairs, i)
             c == pairs[i].curvature
             p == Pair(q[i], z[i - 1])
             r == Product(Product(a, a), c)
  <2>1. a \in Rationals /\ Pair(q[i + 1], z[i]) = Sum2(p, r)
    BY <1>2, LoopPairing
  <2>2. c \in Rationals /\ Positive(c) /\ pairs[i].y \in Vec(n)
    BY <1>1, <1>3, PairParts
  <2>3. i - 1 \in 0 .. m /\ i \in 1 .. m + 1 /\ (i - 1) + 1 = i /\ i \in 0 .. m /\ i + 1 \in 1 .. m + 1
    BY <1>1
  <2>4. NonNegative(p) /\ (~IsZero(q[i]) => Positive(p)) /\ p \in Rationals
    BY <1>1, <1>3, <1>5, <2>3, PairType
  <2>5. a = Zero => q[i] = q[i + 1]
    <3>1. SUFFICES ASSUME a = Zero PROVE q[i] = q[i + 1]
      OBVIOUS
    <3>2. q[i] = AddScaled(q[i + 1], Negated(a), pairs[i].y)
      BY <1>2 DEF FirstLoop
    <3>3. Negated(a) = Zero
      BY <2>1, <3>1, Signs
    <3>4. QED
      BY <1>1, <1>3, <2>2, <2>3, <3>2, <3>3, AddNothing
  <2> HIDE DEF a, c, p, r
  <2>6. r \in Rationals /\ NonNegative(r) /\ (a # Zero => Positive(r))
    <3>1. Product(a, a) \in Rationals /\ NonNegative(Product(a, a))
          /\ (a # Zero => Positive(Product(a, a)))
      BY <2>1, Closed, ProductSigns
    <3>2. NonNegative(c)
      BY <2>2, Signs
    <3>3. QED
      BY <2>2, <3>1, <3>2, Closed, ProductSigns DEF r
  <2>7. NonNegative(Sum2(p, r)) /\ (Positive(p) \/ Positive(r) => Positive(Sum2(p, r)))
    BY <2>4, <2>6, SumSigns
  <2>8. QED
    BY <2>1, <2>3, <2>4, <2>5, <2>6, <2>7
<1> HIDE DEF T
<1>6. 0 .. m \subseteq T
  BY <1>1, <1>4, <1>5, IntervalInduction
<1>7. m \in T
  BY <1>1, <1>6
<1>8. QED
  BY <1>1, <1>2, <1>3, <1>7 DEF T

-----------------------------------------------------------------------------
(* The invariant.                                                          *)

Earlier(n) == [control : Vec(n), derivative : Vec(n), gradient : Vec(n),
               direction : Vec(n) \union {<<>>}]
Entries(n) == [control : Vec(n), derivative : Vec(n), direction : Vec(n)]

\* What the policy keeps of the earlier iterates.
Remembered ==
  /\ \/ previous = <<>>
     \/ \E old \in Earlier(Size) : previous = <<old>> /\ old.gradient = Riesz(old.derivative)
  /\ history \in Seq(Pairs(Size))
  /\ policy.kind = "limited_memory_bfgs" => Len(history) <= policy.memory

\* A search goes along the direction that next() returned, and downhill.
Answered ==
  /\ answer.direction \in Vec(Size) \union {<<>>} /\ answer.slope \in Rationals
  /\ phase = "moving" =>
       /\ answer.direction \in Vec(Size)
       /\ answer.slope = Pair(derivative, answer.direction)
       /\ Positive(Negated(answer.slope))

\* The exact search leaves a derivative that vanishes along its direction.
Orthogonal ==
  policy.kind = "nonlinear_cg" =>
    /\ phase = "moving" => previous # <<>> /\ previous[1].direction = answer.direction
    /\ previous # <<>> => previous[1].direction \in Vec(Size)
    /\ phase = "asking" /\ problem.quadratic /\ previous # <<>> =>
         Pair(derivative, previous[1].direction) = Zero

Ledger ==
  /\ calls \in 0 .. Calls /\ performed \in Nat /\ reported \in 0 .. performed
  /\ trail \in Seq(Entries(Size)) /\ Len(trail) <= calls
Restarted == sinceRestart \in 0 .. calls /\ resets \in 0 .. calls

\* A solve that goes on has reported every metric solve.
Accounted ==
  /\ phase \in {"asking", "moving"} => performed = reported
  /\ policy.kind \in QuasiNewtonKinds /\ performed # reported => IsZero(derivative)

\* Of the policies other than Newton only the classical recurrence throws.  Away
\* from a stationary iterate it does so only in a call that uses its history, which
\* a first call and a periodic restart do not, and on a quadratic only when the
\* squared gradient of that history is at most the curvature tolerance.
Contract ==
  phase = "contract_error" /\ policy.kind # "newton" =>
    /\ policy.kind = "nonlinear_cg" /\ Classical
    /\ ~Stationary =>
         /\ previous # <<>> /\ ~Periodically
         /\ problem.quadratic => AtMost(Denominator(previous[1]), CurvatureTolerance)

Inv == /\ Shape /\ Remembered /\ Answered /\ Orthogonal
       /\ Ledger /\ Restarted /\ Accounted /\ Contract

\* A solve starts with nothing remembered and nothing counted.
LEMMA Initially == Init => Inv
<1>1. SUFFICES ASSUME Init PROVE Inv
  OBVIOUS
<1>2. problem \in Problems /\ policy \in Policies /\ phase = "asking"
      /\ previous = <<>> /\ history = <<>> /\ trail = <<>>
      /\ sinceRestart = 0 /\ resets = 0 /\ performed = 0 /\ reported = 0 /\ calls = 0
      /\ answer = NoAnswer
  BY <1>1 DEF Init
<1>3. Shape
  BY <1>1, <1>2, Layout DEF Init, Shape, Phases
<1>4. policy.memory \in Nat
  BY <1>2, PolicyAssumption
<1>5. Remembered
  BY <1>2, <1>4 DEF Remembered
<1>6. Answered
  BY <1>2, ZeroIs DEF Answered, NoAnswer
<1>7. Orthogonal
  BY <1>2 DEF Orthogonal
<1>8. Ledger /\ Restarted
  BY <1>2, ToleranceAssumption DEF Ledger, Restarted
<1>9. Accounted /\ Contract
  BY <1>2 DEF Accounted, Contract
<1>10. QED
  BY <1>3, <1>5, <1>6, <1>7, <1>8, <1>9 DEF Inv

\* What a call that returns a direction leaves behind.
LEMMA Returned ==
  ASSUME Shape, Ledger, phase = "asking", calls < Calls,
         NEW d \in Vec(Size), NEW restarted, NEW solves \in Nat, NEW reports \in 0 .. solves,
         NEW actions, Return(d, restarted, solves, reports, actions)
  PROVE  /\ Shape' /\ Answered' /\ Ledger' /\ UNCHANGED <<iterate, Size>>
         /\ answer'.direction = d /\ phase' # "asking" /\ calls' = calls + 1
         /\ performed' = performed + solves /\ reported' = reported + reports
         /\ phase' = "contract_error" =>
              ~Positive(Negated(Pair(derivative, d))) /\ ~IsZero(derivative)
<1>1. UNCHANGED <<problem, policy, control, derivative, Size>>
  BY DEF Return, iterate, Size
<1>2. Size \in Nat /\ Pair(derivative, d) \in Rationals /\ problem \in Problems
      /\ derivative \in Vec(Size) /\ control \in Vec(Size)
  BY Layout, PairType DEF Shape
<1>3. phase' = LoopHead(SquaredNorm(Gradient), Pair(derivative, d))
  BY DEF Return
<1>4. phase' \in Phases /\ phase' # "asking"
  BY <1>3 DEF LoopHead, Phases
<1>5. Shape'
  BY <1>1, <1>4 DEF Shape
<1>6. answer'.direction = d /\ answer'.slope = Pair(derivative, d)
  BY DEF Return
<1>7. phase' = "moving" => Positive(Negated(Pair(derivative, d)))
  BY <1>3 DEF LoopHead
<1>8. Answered'
  BY <1>1, <1>2, <1>6, <1>7 DEF Answered
<1>9. Ledger'
  <2> DEFINE entry == [control |-> control, derivative |-> derivative, direction |-> d]
  <2>1. entry \in Entries(Size)
    BY <1>2 DEF Entries
  <2> HIDE DEF entry
  <2>2. /\ calls' = calls + 1 /\ performed' = performed + solves /\ reported' = reported + reports
        /\ trail' = IF restarted THEN <<entry>> ELSE Append(trail, entry)
    BY DEF Return, entry
  <2>3. /\ calls \in Nat /\ Calls \in Nat /\ performed \in Nat /\ reported \in 0 .. performed
        /\ trail \in Seq(Entries(Size)) /\ Len(trail) <= calls
    BY ToleranceAssumption DEF Ledger
  <2>4. calls' \in 0 .. Calls /\ performed' \in Nat /\ reported' \in 0 .. performed'
    BY <2>2, <2>3
  <2>5. trail' \in Seq(Entries(Size)) /\ Len(trail') <= calls'
    <3>1. CASE restarted
      BY <2>1, <2>2, <2>3, <3>1
    <3>2. CASE ~restarted
      BY <2>1, <2>2, <2>3, <3>2
    <3>3. QED
      BY <3>1, <3>2
  <2>6. QED
    BY <1>1, <2>4, <2>5 DEF Ledger
<1>10. phase' = "contract_error" => ~Positive(Negated(Pair(derivative, d))) /\ ~IsZero(derivative)
  BY <1>3, StationaryStops DEF LoopHead
<1>11. QED
  BY <1>1, <1>4, <1>5, <1>6, <1>8, <1>9, <1>10 DEF Return

\* A call that throws where the contract allows it.
LEMMA Thrown ==
  ASSUME Inv, phase = "asking", calls < Calls, NEW solves \in Nat, Throw(solves),
         policy.kind \notin QuasiNewtonKinds,
         policy.kind # "newton" =>
           /\ policy.kind = "nonlinear_cg" /\ Classical
           /\ ~Stationary =>
                /\ previous # <<>> /\ ~Periodically
                /\ problem.quadratic => AtMost(Denominator(previous[1]), CurvatureTolerance)
  PROVE  Inv'
<1>1. UNCHANGED <<problem, policy, control, derivative, previous, sinceRestart, history,
                  resets, answer, reported, trail, Size>>
  BY DEF Throw, iterate, Size
<1>2. phase' = "contract_error" /\ performed' = performed + solves /\ calls' = calls + 1
  BY DEF Throw
<1>3. /\ calls \in Nat /\ Calls \in Nat /\ performed \in Nat /\ reported \in 0 .. performed
      /\ trail \in Seq(Entries(Size)) /\ Len(trail) <= calls
      /\ sinceRestart \in 0 .. calls /\ resets \in 0 .. calls
  BY ToleranceAssumption DEF Inv, Ledger, Restarted
<1>4. Shape'
  BY <1>1, <1>2 DEF Inv, Shape, Phases
<1>5. Remembered'
  BY <1>1 DEF Inv, Remembered, Riesz
<1>6. Answered' /\ Orthogonal'
  BY <1>1, <1>2 DEF Inv, Answered, Orthogonal
<1>7. Ledger'
  <2>1. calls' \in 0 .. Calls /\ performed' \in Nat /\ reported' \in 0 .. performed'
        /\ Len(trail) <= calls'
    BY <1>1, <1>2, <1>3
  <2>2. QED
    BY <1>1, <1>3, <2>1 DEF Ledger
<1>8. Restarted'
  BY <1>1, <1>2, <1>3 DEF Restarted
<1>9. Accounted'
  BY <1>1, <1>2 DEF Accounted
<1>10. Contract'
  BY <1>1, <1>2 DEF Contract, Classical, Stationary, Denominator, Periodically, RestartInterval
<1>11. QED
  BY <1>4, <1>5, <1>6, <1>7, <1>8, <1>9, <1>10 DEF Inv

\* A call that returns a direction of descent, or steepest descent.
LEMMA Continued ==
  ASSUME Elliptic, Inv, phase = "asking", calls < Calls,
         NEW d \in Vec(Size), NEW restarted, NEW solves \in Nat, NEW reports \in 0 .. solves,
         NEW actions, Return(d, restarted, solves, reports, actions),
         d = Opposite(Gradient) \/ Positive(Negated(Pair(derivative, d))) \/ policy.kind = "newton"
  PROVE  /\ Shape' /\ Answered' /\ Ledger' /\ Contract' /\ UNCHANGED <<iterate, Size>>
         /\ answer'.direction = d /\ phase' # "asking" /\ calls' = calls + 1
         /\ reports = solves => Accounted'
<1>1. Shape /\ Ledger
  BY DEF Inv
<1>2. /\ Shape' /\ Answered' /\ Ledger' /\ UNCHANGED <<iterate, Size>>
      /\ answer'.direction = d /\ phase' # "asking" /\ calls' = calls + 1
      /\ performed' = performed + solves /\ reported' = reported + reports
      /\ phase' = "contract_error" =>
           ~Positive(Negated(Pair(derivative, d))) /\ ~IsZero(derivative)
  BY <1>1, Returned
<1>3. UNCHANGED policy
  BY <1>2 DEF iterate
<1>4. phase' = "contract_error" => policy.kind = "newton"
  BY <1>1, <1>2, SteepestDescends
<1>5. Contract'
  BY <1>3, <1>4 DEF Contract
<1>6. ASSUME reports = solves PROVE Accounted'
  <2>1. performed = reported
    BY DEF Inv, Accounted
  <2>2. performed' = reported'
    BY <1>2, <1>6, <2>1
  <2>3. QED
    BY <2>2 DEF Accounted
<1>7. QED
  BY <1>2, <1>5, <1>6

\* The gradient of the current iterate is a block of the layout.
LEMMA GradientType ==
  ASSUME Shape
  PROVE  /\ Size \in Nat /\ Gradient \in Vec(Size) /\ Opposite(Gradient) \in Vec(Size)
         /\ problem \in Problems /\ control \in Vec(Size) /\ derivative \in Vec(Size)
<1>1. Size \in Nat /\ Gradient \in Vec(Size)
  BY Layout, MetricTypes DEF Shape, Gradient
<1>2. Opposite(Gradient) \in Vec(Size)
  BY <1>1, OppositeType
<1>3. QED
  BY <1>1, <1>2 DEF Shape

\* Steepest descent keeps the invariant.
LEMMA SteepestDescentStep ==
  ASSUME Elliptic, Inv, SteepestDescent
  PROVE  Inv'
<1>1. /\ phase = "asking" /\ calls < Calls /\ policy.kind = "steepest_descent"
      /\ Return(Opposite(Gradient), TRUE, 1, 1, 0)
      /\ UNCHANGED <<previous, sinceRestart, history, resets>>
  BY DEF SteepestDescent, Asked
<1>2. Opposite(Gradient) \in Vec(Size) /\ 1 \in Nat /\ 1 \in 0 .. 1
  BY GradientType DEF Inv
<1>3. /\ Shape' /\ Answered' /\ Ledger' /\ Contract' /\ UNCHANGED <<iterate, Size>>
      /\ phase' # "asking" /\ calls' = calls + 1 /\ Accounted'
  BY <1>1, <1>2, Continued
<1>4. Remembered' /\ Orthogonal'
  BY <1>1, <1>3 DEF Inv, Remembered, Orthogonal, iterate, Riesz
<1>5. Restarted'
  BY <1>1, <1>3 DEF Inv, Restarted, Ledger
<1>6. QED
  BY <1>3, <1>4, <1>5 DEF Inv

-----------------------------------------------------------------------------
(* Nonlinear conjugate gradients.                                          *)

\* What the single remembered record holds.
LEMMA RememberedParts ==
  ASSUME Inv, previous # <<>>
  PROVE  /\ previous[1].control \in Vec(Size) /\ previous[1].derivative \in Vec(Size)
         /\ previous[1].gradient \in Vec(Size)
         /\ previous[1].gradient = Riesz(previous[1].derivative)
<1>1. PICK old \in Earlier(Size) : previous = <<old>> /\ old.gradient = Riesz(old.derivative)
  BY DEF Inv, Remembered
<1>2. previous[1] = old
  BY <1>1
<1>3. QED
  BY <1>1, <1>2 DEF Earlier

\* The numerators and denominators of the conjugate gradient updates are rationals.
LEMMA NumeratorType ==
  ASSUME Inv, previous # <<>>
  PROVE  Numerator(previous[1]) \in Rationals /\ Denominator(previous[1]) \in Rationals
<1> DEFINE old == previous[1]
<1>1. Size \in Nat /\ Gradient \in Vec(Size) /\ derivative \in Vec(Size)
      /\ old.derivative \in Vec(Size) /\ old.gradient \in Vec(Size)
  BY RememberedParts, GradientType DEF Inv
<1> HIDE DEF old
<1>2. Pair(derivative, Gradient) \in Rationals /\ Pair(old.derivative, Gradient) \in Rationals
      /\ Pair(old.derivative, old.gradient) \in Rationals
  BY <1>1, PairType
<1>3. Difference(Pair(derivative, Gradient), Pair(old.derivative, Gradient)) \in Rationals
  BY <1>2, Closed
<1>4. Numerator(old) \in Rationals /\ Denominator(old) \in Rationals
  BY <1>2, <1>3 DEF Numerator, Denominator
<1>5. QED
  BY <1>4 DEF old

\* A denominator that is not too flat is positive, and one above the tolerance is
\* not too flat: the tolerance is below one.
LEMMA Flatness ==
  ASSUME NEW p \in Rationals
  PROVE  /\ ~TooFlat(p) => Positive(p)
         /\ ~AtMost(p, CurvatureTolerance) => ~TooFlat(p)
<1> DEFINE tol == CurvatureTolerance
<1>1. tol \in Rationals /\ Positive(tol) /\ ~AtMost(One, tol) /\ NonNegative(tol)
  BY ToleranceAssumption, Signs
<1> HIDE DEF tol
<1>2. One \in Rationals /\ Positive(One) /\ NonNegative(One)
  BY OneIs DEF One, Positive, NonNegative
<1>3. CASE AtMost(One, p)
  <2>1. Larger(One, p) = p
    BY <1>3 DEF Larger
  <2>2. Positive(p)
    BY <1>2, <1>3, AtLeastPositive
  <2>3. ~AtMost(p, Product(tol, p))
    <3> DEFINE e == Difference(One, tol)
    <3>1. e \in Rationals /\ Positive(e)
      BY <1>1, <1>2, AtMostSign, Closed
    <3>2. Product(p, e) = Sum2(Product(p, One), Product(p, Negated(tol)))
      BY <1>1, <1>2, Closed, Distributes DEF Difference
    <3>3. Product(p, One) = p /\ Product(p, Negated(tol)) = Negated(Product(p, tol))
          /\ Product(p, tol) = Product(tol, p)
      BY <1>1, Neutral, NegatedProduct, ProductCommutes
    <3> HIDE DEF e
    <3>4. Product(p, e) = Difference(p, Product(tol, p))
      BY <3>2, <3>3 DEF Difference
    <3>5. Positive(Product(p, e))
      BY <2>2, <3>1, ProductSigns
    <3>6. QED
      BY <1>1, <3>4, <3>5, AtMostSign, Closed
  <2>4. QED
    BY <2>1, <2>2, <2>3 DEF TooFlat, tol
<1>4. CASE ~AtMost(One, p)
  <2>1. Larger(One, p) = One /\ Product(tol, One) = tol
    BY <1>1, <1>4, Neutral DEF Larger
  <2>2. TooFlat(p) <=> AtMost(p, tol)
    BY <2>1 DEF TooFlat, tol
  <2>3. ~AtMost(p, tol) => Positive(p)
    BY <1>1, AboveNonNegative
  <2>4. QED
    BY <2>2, <2>3 DEF tol
<1>5. QED
  BY <1>3, <1>4

\* Where the history is used, its coefficient is a number.
LEMMA ConjugateType ==
  ASSUME Inv, policy.kind = "nonlinear_cg", ~Refreshes, ~Rejects(previous[1])
  PROVE  /\ Conjugate(previous[1]) \in Vec(Size)
         /\ Quotient(Numerator(previous[1]), Denominator(previous[1])) \in Rationals
<1>1. previous # <<>> /\ ~TooFlat(Denominator(previous[1]))
  BY DEF Refreshes, Restarts, Rejects
<1>2. previous[1].direction \in Vec(Size)
  BY <1>1 DEF Inv, Orthogonal
<1>3. Numerator(previous[1]) \in Rationals /\ Denominator(previous[1]) \in Rationals
      /\ Denominator(previous[1]) # Zero
  BY <1>1, NumeratorType, Flatness, Signs
<1>4. Quotient(Numerator(previous[1]), Denominator(previous[1])) \in Rationals
  BY <1>3, Closed
<1>5. Size \in Nat /\ Opposite(Gradient) \in Vec(Size)
  BY GradientType DEF Inv
<1>6. QED
  BY <1>2, <1>4, <1>5, CombinationTypes DEF Conjugate

\* On a quadratic, after an exact search, the conjugate direction descends.
LEMMA ConjugateDescends ==
  ASSUME Elliptic, Inv, phase = "asking", policy.kind = "nonlinear_cg", problem.quadratic,
         ~Refreshes, ~Rejects(previous[1]), ~IsZero(derivative)
  PROVE  Positive(Negated(Pair(derivative, Conjugate(previous[1]))))
<1> DEFINE direction == previous[1].direction
           beta == Quotient(Numerator(previous[1]), Denominator(previous[1]))
           down == Opposite(Gradient)
<1>1. previous # <<>>
  BY DEF Refreshes
<1>2. direction \in Vec(Size) /\ Pair(derivative, direction) = Zero
  BY <1>1 DEF Inv, Orthogonal
<1>3. Size \in Nat /\ down \in Vec(Size) /\ derivative \in Vec(Size) /\ beta \in Rationals
  BY GradientType, ConjugateType DEF Inv
<1>4. Conjugate(previous[1]) = AddScaled(down, beta, direction)
  BY DEF Conjugate
<1> HIDE DEF direction, beta
<1>5. Pair(derivative, AddScaled(down, beta, direction))
        = Sum2(Pair(derivative, down), Product(beta, Pair(derivative, direction)))
  BY <1>2, <1>3, PairAddScaledRight
<1>6. Pair(derivative, down) \in Rationals /\ Product(beta, Zero) = Zero
  BY <1>3, PairType, Neutral
<1>7. Pair(derivative, AddScaled(down, beta, direction)) = Pair(derivative, down)
  BY <1>2, <1>5, <1>6, Neutral
<1>8. Positive(Negated(Pair(derivative, down)))
  BY SteepestDescends DEF Inv
<1>9. QED
  BY <1>4, <1>7, <1>8

\* A call of the nonlinear conjugate gradient policy that returns keeps the invariant.
LEMMA Kept ==
  ASSUME Elliptic, Inv, phase = "asking", calls < Calls, policy.kind = "nonlinear_cg",
         NEW d \in Vec(Size), NEW restarted, Keep(d, restarted),
         d = Opposite(Gradient) \/ Positive(Negated(Pair(derivative, d)))
  PROVE  Inv'
<1>1. Return(d, restarted, 1, 1, 0) /\ UNCHANGED history
  BY DEF Keep
<1>2. 1 \in Nat /\ 1 \in 0 .. 1
  OBVIOUS
<1>3. /\ Shape' /\ Answered' /\ Ledger' /\ Contract' /\ UNCHANGED <<iterate, Size>>
      /\ answer'.direction = d /\ phase' # "asking" /\ calls' = calls + 1 /\ Accounted'
  BY <1>1, <1>2, Continued
<1> DEFINE old == [control |-> control, derivative |-> derivative,
                   gradient |-> Gradient, direction |-> d]
<1>4. old \in Earlier(Size) /\ old.gradient = Riesz(old.derivative) /\ old.direction = d
  BY GradientType DEF Inv, Earlier, Gradient
<1> HIDE DEF old
<1>5. previous' = <<old>> /\ previous'[1].direction = d /\ previous' # <<>>
  BY <1>4 DEF Keep, old
<1>6. Remembered'
  BY <1>1, <1>3, <1>4, <1>5 DEF Inv, Remembered, iterate, Riesz
<1>7. Orthogonal'
  BY <1>3, <1>5 DEF Orthogonal
<1>8. Restarted'
  <2>1. calls \in Nat /\ sinceRestart \in 0 .. calls /\ resets \in 0 .. calls
    BY DEF Inv, Restarted, Ledger
  <2>2. (sinceRestart' = 1 \/ sinceRestart' = sinceRestart + 1)
        /\ (resets' = resets \/ resets' = resets + 1)
    BY DEF Keep
  <2>3. QED
    BY <1>3, <2>1, <2>2 DEF Restarted
<1>9. QED
  BY <1>3, <1>6, <1>7, <1>8 DEF Inv

\* So does every call of it, the ones that throw included.
LEMMA ConjugateGradientStep ==
  ASSUME Elliptic, Inv, ConjugateGradient
  PROVE  Inv'
<1>1. phase = "asking" /\ calls < Calls /\ policy.kind = "nonlinear_cg"
  BY DEF ConjugateGradient, Asked
<1>2. Opposite(Gradient) \in Vec(Size) /\ Size \in Nat /\ derivative \in Vec(Size)
      /\ Gradient \in Vec(Size)
  BY GradientType DEF Inv
<1>3. policy.kind \notin QuasiNewtonKinds /\ 1 \in Nat
  BY <1>1 DEF QuasiNewtonKinds
<1>4. CASE ~Refreshes /\ Rejects(previous[1])
  <2>1. Throw(1)
    BY <1>4 DEF ConjugateGradient
  <2>2. Classical /\ previous # <<>> /\ ~Periodically
        /\ (TooFlat(Denominator(previous[1])) \/ ~Positive(Numerator(previous[1])))
    BY <1>4 DEF Rejects, Refreshes
  <2>3. ASSUME ~AtMost(Denominator(previous[1]), CurvatureTolerance) PROVE Stationary
    <3>1. ~TooFlat(Denominator(previous[1]))
      BY <2>2, <2>3, NumeratorType, Flatness
    <3>2. Numerator(previous[1]) = Pair(derivative, Gradient)
      BY <2>2 DEF Numerator, Classical
    <3>3. ~IsZero(derivative) => Positive(Pair(derivative, Gradient))
      BY <1>2, GradientAscends DEF Inv, Shape, Gradient
    <3>4. QED
      BY <2>2, <3>1, <3>2, <3>3 DEF Stationary
  <2>4. QED
    BY <1>1, <1>3, <2>1, <2>2, <2>3, Thrown
<1>5. CASE ~(~Refreshes /\ Rejects(previous[1]))
  <2>1. Proposed \in Vec(Size)
    BY <1>1, <1>2, <1>5, ConjugateType DEF Proposed
  <2>2. CASE Positive(Negated(Pair(derivative, Proposed)))
    <3>1. Keep(Proposed, Refreshes)
      BY <1>5, <2>2 DEF ConjugateGradient
    <3>2. QED
      BY <1>1, <2>1, <2>2, <3>1, Kept
  <2>3. CASE ~Positive(Negated(Pair(derivative, Proposed))) /\ Classical
    <3>1. Throw(1)
      BY <1>5, <2>3 DEF ConjugateGradient
    <3>2. ASSUME ~Stationary PROVE ~Refreshes /\ ~problem.quadratic
      <4>1. ~Refreshes
        BY <2>3, <3>2, SteepestDescends DEF Proposed, Inv, Stationary
      <4>2. ~problem.quadratic
        BY <1>1, <1>5, <2>3, <3>2, <4>1, ConjugateDescends DEF Proposed, Stationary
      <4>3. QED
        BY <4>1, <4>2
    <3>3. ~Stationary => previous # <<>> /\ ~Periodically /\ ~problem.quadratic
      BY <3>2 DEF Refreshes, Restarts
    <3>4. QED
      BY <1>1, <1>3, <2>3, <3>1, <3>3, Thrown
  <2>4. CASE ~Positive(Negated(Pair(derivative, Proposed))) /\ ~Classical
    <3>1. Keep(Opposite(Gradient), TRUE)
      BY <1>5, <2>4 DEF ConjugateGradient
    <3>2. QED
      BY <1>1, <1>2, <3>1, Kept
  <2>5. QED
    BY <2>2, <2>3, <2>4
<1>6. QED
  BY <1>4, <1>5

-----------------------------------------------------------------------------
(* Quasi-Newton methods.                                                   *)

\* A pair whose curvature passes the test may enter the history.
LEMMA NewPairType ==
  ASSUME Inv, previous # <<>>, ~SecantFails
  PROVE  NewPair \in Pairs(Size)
<1>1. /\ Size \in Nat /\ control \in Vec(Size) /\ derivative \in Vec(Size) /\ Gradient \in Vec(Size)
      /\ previous[1].control \in Vec(Size) /\ previous[1].derivative \in Vec(Size)
      /\ previous[1].gradient \in Vec(Size)
  BY RememberedParts, GradientType DEF Inv
<1> DEFINE g == Subtracted(Gradient, previous[1].gradient)
<1>2. Displacement \in Vec(Size)
  BY <1>1, SubtractedType DEF Displacement
<1>3. CovectorDifference \in Vec(Size)
  BY <1>1, SubtractedType DEF CovectorDifference
<1>4. g \in Vec(Size)
  BY <1>1, SubtractedType
<1> HIDE DEF g
<1>5. Curvature \in Rationals /\ SecantNorm \in Rationals
  BY <1>1, <1>2, <1>3, <1>4, PairType DEF Curvature, SecantNorm, g
<1>6. CurvatureTolerance \in Rationals /\ NonNegative(CurvatureTolerance)
  BY ToleranceAssumption, Signs
<1>7. Positive(Curvature) /\ (policy.scaling = "scalar_secant" => Positive(SecantNorm))
  BY <1>5, <1>6, AboveNonNegative DEF SecantFails
<1>8. InitialScale \in Rationals /\ Positive(InitialScale)
  <2>1. CASE policy.scaling = "scalar_secant"
    BY <1>5, <1>7, <2>1, QuotientSigns DEF InitialScale
  <2>2. CASE policy.scaling # "scalar_secant"
    BY <2>2, OneIs DEF InitialScale, One, Positive
  <2>3. QED
    BY <2>1, <2>2
<1>9. QED
  BY <1>2, <1>3, <1>5, <1>7, <1>8 DEF NewPair, Pairs, Curvature

\* What update_previous leaves behind.
LEMMA RememberStep ==
  ASSUME Inv, Remember, UNCHANGED <<iterate, Size>>, NEW pairs \in Seq(Pairs(Size)), history' = pairs,
         policy.kind = "limited_memory_bfgs" => Len(pairs) <= policy.memory
  PROVE  Remembered'
<1> DEFINE old == [control |-> control, derivative |-> derivative,
                   gradient |-> Gradient, direction |-> <<>>]
<1>1. old \in Earlier(Size) /\ old.gradient = Riesz(old.derivative)
  BY GradientType DEF Inv, Earlier, Gradient
<1>2. previous' = <<old>>
  BY DEF Remember
<1> HIDE DEF old
<1>3. QED
  BY <1>1, <1>2 DEF Remembered, iterate, Riesz

\* A call that returns a direction and keeps some pairs.
Yields(d, restarted, solves, reports, kept) ==
  /\ d \in Vec(Size) /\ solves \in Nat /\ reports \in 0 .. solves
  /\ d = Opposite(Gradient) \/ Positive(Negated(Pair(derivative, d)))
  /\ kept \in Seq(Pairs(Size)) /\ history' = kept
  /\ policy.kind = "limited_memory_bfgs" => Len(kept) <= policy.memory
  /\ resets' = resets \/ resets' = resets + 1
  /\ Return(d, restarted, solves, reports, 0)

\* A quasi-Newton call that returns a direction and keeps some pairs keeps the invariant.
LEMMA QuasiNewtonYields ==
  ASSUME Elliptic, Inv, phase = "asking", calls < Calls, policy.kind \in QuasiNewtonKinds, Remember,
         NEW d, NEW restarted, NEW solves, NEW reports, NEW kept,
         Yields(d, restarted, solves, reports, kept), reports = solves \/ Accounted'
  PROVE  Inv'
<1>1. /\ Shape' /\ Answered' /\ Ledger' /\ Contract' /\ UNCHANGED <<iterate, Size>>
      /\ calls' = calls + 1 /\ (reports = solves => Accounted')
  BY Continued DEF Yields
<1>2. Remembered'
  BY <1>1, RememberStep DEF Yields
<1>3. Orthogonal'
  BY <1>1 DEF Orthogonal, iterate, QuasiNewtonKinds
<1>4. Restarted'
  <2>1. calls \in Nat /\ sinceRestart \in 0 .. calls /\ resets \in 0 .. calls
    BY DEF Inv, Restarted, Ledger
  <2>2. QED
    BY <1>1, <2>1 DEF Restarted, Remember, Yields
<1>5. QED
  BY <1>1, <1>2, <1>3, <1>4 DEF Inv

\* The three outcomes of a quasi-Newton call: first, restarted, from the history.
LEMMA QuasiNewtonStep ==
  ASSUME Elliptic, Inv, phase = "asking", calls < Calls, policy.kind \in QuasiNewtonKinds,
         NEW pairs, QuasiNewton(pairs),
         previous # <<>> /\ ~SecantFails =>
           /\ pairs \in Seq(Pairs(Size)) /\ pairs # <<>>
           /\ policy.kind = "limited_memory_bfgs" => Len(pairs) <= policy.memory
  PROVE  Inv'
<1>1. /\ Size \in Nat /\ Opposite(Gradient) \in Vec(Size) /\ derivative \in Vec(Size)
      /\ problem \in Problems /\ history \in Seq(Pairs(Size))
      /\ policy.kind = "limited_memory_bfgs" => Len(history) <= policy.memory
  BY GradientType DEF Inv, Remembered
<1>2. Remember
  BY DEF QuasiNewton
<1>4. policy \in Policies /\ (policy.kind = "limited_memory_bfgs" => policy.memory \in Nat)
  BY PolicyAssumption DEF Inv, Shape
<1>6. 1 \in Nat /\ 2 \in Nat /\ 1 \in 0 .. 1 /\ 1 \in 0 .. 2 /\ 2 \in 0 .. 2
      /\ <<>> \in Seq(Pairs(Size))
      /\ policy.kind = "limited_memory_bfgs" => Len(<<>>) <= policy.memory
  BY <1>4
<1>7. CASE previous = <<>>
  <2>1. Return(Opposite(Gradient), TRUE, 1, 1, 0) /\ UNCHANGED <<history, resets>>
    BY <1>7 DEF QuasiNewton, FirstQuasiNewton
  <2>2. Yields(Opposite(Gradient), TRUE, 1, 1, history)
    <3>1. Opposite(Gradient) \in Vec(Size) /\ 1 \in Nat /\ 1 \in 0 .. 1
      BY <1>1, <1>6
    <3>2. history \in Seq(Pairs(Size)) /\ history' = history
      BY <1>1, <2>1
    <3>3. policy.kind = "limited_memory_bfgs" => Len(history) <= policy.memory
      BY <1>1, <2>1
    <3>4. resets' = resets \/ resets' = resets + 1
      BY <1>1, <2>1
    <3>5. Return(Opposite(Gradient), TRUE, 1, 1, 0)
      BY <2>1
    <3>6. QED
      BY <3>1, <3>2, <3>3, <3>4, <3>5 DEF Yields
  <2>3. QED
    BY <1>2, <2>2, QuasiNewtonYields
<1>8. CASE previous # <<>> /\ SecantFails
  <2>1. Return(Opposite(Gradient), TRUE, 1, 1, 0) /\ history' = <<>> /\ resets' = resets + 1
    BY <1>8 DEF QuasiNewton, Drop
  <2>2. Yields(Opposite(Gradient), TRUE, 1, 1, <<>>)
    <3>1. Opposite(Gradient) \in Vec(Size) /\ 1 \in Nat /\ 1 \in 0 .. 1
      BY <1>1, <1>6
    <3>2. <<>> \in Seq(Pairs(Size)) /\ history' = <<>>
      BY <1>6, <2>1
    <3>3. policy.kind = "limited_memory_bfgs" => Len(<<>>) <= policy.memory
      BY <1>6, <2>1
    <3>4. resets' = resets \/ resets' = resets + 1
      BY <1>6, <2>1
    <3>5. Return(Opposite(Gradient), TRUE, 1, 1, 0)
      BY <2>1
    <3>6. QED
      BY <3>1, <3>2, <3>3, <3>4, <3>5 DEF Yields
  <2>3. QED
    BY <1>2, <2>2, QuasiNewtonYields
<1>9. CASE previous # <<>> /\ ~SecantFails
  <2> DEFINE loop == TwoLoop(pairs, derivative)
             d == Opposite(loop)
  <2>1. loop \in Vec(Size) /\ (~IsZero(derivative) => Positive(Pair(derivative, loop)))
    BY <1>1, <1>9, TwoLoopAscends
  <2>2. d \in Vec(Size)
    BY <1>1, <2>1, OppositeType
  <2>3. ~IsZero(derivative) => Positive(Negated(Pair(derivative, d)))
    BY <1>1, <2>1, OppositeDescends
  <2>4. IF Positive(Negated(Pair(derivative, d)))
        THEN history' = pairs /\ Return(d, FALSE, 2, 2, 0) /\ UNCHANGED resets
        ELSE Drop(2)
    BY <1>9 DEF QuasiNewton
  <2> HIDE DEF loop, d
  <2>5. CASE Positive(Negated(Pair(derivative, d)))
    <3>1. Yields(d, FALSE, 2, 2, pairs)
      <4>1. d \in Vec(Size) /\ 2 \in Nat /\ 2 \in 0 .. 2
        BY <1>6, <2>2
      <4>2. pairs \in Seq(Pairs(Size)) /\ history' = pairs
        BY <1>9, <2>4, <2>5
      <4>3. policy.kind = "limited_memory_bfgs" => Len(pairs) <= policy.memory
        BY <1>9, <2>4, <2>5
      <4>4. resets' = resets \/ resets' = resets + 1
        BY <1>9, <2>4, <2>5
      <4>5. Return(d, FALSE, 2, 2, 0)
        BY <2>4, <2>5
      <4>6. QED
        BY <4>1, <4>2, <4>3, <4>4, <4>5, <2>5 DEF Yields
    <3>2. QED
      BY <1>2, <3>1, QuasiNewtonYields
  <2>6. CASE ~Positive(Negated(Pair(derivative, d)))
    <3>1. Return(Opposite(Gradient), TRUE, 2, 1, 0) /\ history' = <<>> /\ resets' = resets + 1
      BY <2>4, <2>6 DEF Drop
    <3>2. IsZero(derivative)
      BY <2>3, <2>6
    <3>3. phase' = "gradient_tolerance" /\ derivative' = derivative
      BY <3>1, <3>2, StationaryStops DEF Inv, Return, iterate
    <3>4. Accounted'
      BY <3>2, <3>3 DEF Accounted
    <3>5. Yields(Opposite(Gradient), TRUE, 2, 1, <<>>)
      <4>1. Opposite(Gradient) \in Vec(Size) /\ 2 \in Nat /\ 1 \in 0 .. 2
        BY <1>1, <1>6
      <4>2. <<>> \in Seq(Pairs(Size)) /\ history' = <<>>
        BY <1>6, <3>1
      <4>3. policy.kind = "limited_memory_bfgs" => Len(<<>>) <= policy.memory
        BY <1>6, <3>1
      <4>4. resets' = resets \/ resets' = resets + 1
        BY <1>6, <3>1
      <4>5. Return(Opposite(Gradient), TRUE, 2, 1, 0)
        BY <3>1
      <4>6. QED
        BY <4>1, <4>2, <4>3, <4>4, <4>5 DEF Yields
    <3>6. QED
      BY <1>2, <3>4, <3>5, QuasiNewtonYields
  <2>7. QED
    BY <2>5, <2>6
<1>10. QED
  BY <1>7, <1>8, <1>9

\* The limited memory evicts its oldest pair and stays within its bound.
LEMMA LimitedMemoryStep ==
  ASSUME Elliptic, Inv, LimitedMemoryBfgs
  PROVE  Inv'
<1>1. phase = "asking" /\ calls < Calls /\ policy.kind = "limited_memory_bfgs" /\ QuasiNewton(Limited)
  BY DEF LimitedMemoryBfgs, Asked
<1>2. policy.memory \in Nat \ {0}
  BY PolicyAssumption DEF Inv, Shape
<1>3. ASSUME previous # <<>>, ~SecantFails
      PROVE  Limited \in Seq(Pairs(Size)) /\ Limited # <<>> /\ Len(Limited) <= policy.memory
  <2>1. NewPair \in Pairs(Size)
    BY <1>3, NewPairType
  <2>2. history \in Seq(Pairs(Size)) /\ Len(history) <= policy.memory
    BY <1>1 DEF Inv, Remembered
  <2>3. CASE Len(history) = policy.memory
    <3>1. history # <<>>
      BY <1>2, <2>3
    <3>2. Tail(history) \in Seq(Pairs(Size)) /\ Len(Tail(history)) = Len(history) - 1
      BY <2>2, <3>1
    <3>3. Limited = Append(Tail(history), NewPair)
      BY <2>3 DEF Limited
    <3>4. QED
      BY <1>2, <2>1, <2>2, <3>2, <3>3
  <2>4. CASE Len(history) # policy.memory
    <3>1. Limited = Append(history, NewPair)
      BY <2>4 DEF Limited
    <3>2. QED
      BY <1>2, <2>1, <2>2, <2>4, <3>1
  <2>5. QED
    BY <2>3, <2>4
<1>4. policy.kind \in QuasiNewtonKinds
  BY <1>1 DEF QuasiNewtonKinds
<1>5. QED
  BY <1>1, <1>3, <1>4, QuasiNewtonStep

\* The full history keeps every pair.
LEMMA FullBfgsStep ==
  ASSUME Elliptic, Inv, FullBfgs
  PROVE  Inv'
<1> DEFINE pairs == Append(history, NewPair)
<1>1. phase = "asking" /\ calls < Calls /\ policy.kind = "full_bfgs" /\ QuasiNewton(pairs)
  BY DEF FullBfgs, Asked
<1>2. ASSUME previous # <<>>, ~SecantFails
      PROVE  pairs \in Seq(Pairs(Size)) /\ pairs # <<>>
  <2>1. NewPair \in Pairs(Size) /\ history \in Seq(Pairs(Size))
    BY <1>2, NewPairType DEF Inv, Remembered
  <2>2. Len(pairs) = Len(history) + 1 /\ Len(history) \in Nat
    BY <2>1
  <2>3. pairs # <<>>
    BY <2>2
  <2>4. QED
    BY <2>1, <2>3
<1>3. policy.kind \in QuasiNewtonKinds /\ policy.kind # "limited_memory_bfgs"
  BY <1>1 DEF QuasiNewtonKinds
<1> HIDE DEF pairs
<1>4. QED
  BY <1>1, <1>2, <1>3, QuasiNewtonStep

-----------------------------------------------------------------------------
(* The line search.                                                        *)

\* A direction of descent is not zero.
LEMMA DescentMoves ==
  ASSUME Inv, phase = "moving"
  PROVE  ~IsZero(answer.direction)
<1>1. SUFFICES ASSUME IsZero(answer.direction) PROVE FALSE
  OBVIOUS
<1>2. answer.direction \in Vec(Size) /\ Positive(Negated(Pair(derivative, answer.direction)))
      /\ Size \in Nat /\ derivative \in Vec(Size)
  BY GradientType DEF Inv, Answered
<1>3. Pair(derivative, answer.direction) = Pair(answer.direction, derivative)
  BY <1>2, PairSymmetric
<1>4. Pair(answer.direction, derivative) = Zero
  BY <1>1, <1>2, PairZero
<1>5. QED
  BY <1>2, <1>3, <1>4, Signs, ZeroIs

\* The exact search stops where the derivative vanishes along the direction.
LEMMA ExactStepResult ==
  ASSUME Elliptic, Inv, phase = "moving", ExactStep
  PROVE  /\ control' \in Vec(Size) /\ derivative' \in Vec(Size)
         /\ Pair(derivative', answer.direction) = Zero
<1> DEFINE d == answer.direction
           slope == answer.slope
<1>1. /\ Size \in Nat /\ control \in Vec(Size) /\ derivative \in Vec(Size) /\ d \in Vec(Size)
      /\ slope = Pair(derivative, d) /\ ~IsZero(d) /\ problem \in Problems /\ problem.quadratic
  BY GradientType, DescentMoves DEF Inv, Answered, ExactStep
<1>2. PICK hessian \in problem.hessians :
        /\ control' = AddScaled(control, Quotient(Negated(slope), Pair(Apply(hessian, d), d)), d)
        /\ derivative' = AddScaled(derivative, Quotient(Negated(slope), Pair(Apply(hessian, d), d)),
                                   Apply(hessian, d))
  BY DEF ExactStep
<1> DEFINE image == Apply(hessian, d)
           curvature == Pair(image, d)
           length == Quotient(Negated(slope), curvature)
<1>3. hessian \in Mat(Size) /\ PositiveOn(hessian, Vec(Size))
  BY <1>1, Layout DEF Elliptic, EllipticOn, Size
<1>4. image \in Vec(Size) /\ curvature \in Rationals /\ Positive(curvature)
  <2>1. image \in Vec(Size)
    BY <1>1, <1>3, ApplyType
  <2>2. Positive(curvature)
    BY <1>1, <1>3 DEF PositiveOn
  <2>3. QED
    BY <1>1, <2>1, <2>2, PairType
<1>5. slope \in Rationals /\ Negated(slope) \in Rationals /\ curvature # Zero
  BY <1>1, <1>4, PairType, Closed, Signs
<1>6. length \in Rationals /\ Product(length, curvature) = Negated(slope)
  BY <1>4, <1>5, Closed, QuotientProduct
<1>7. control' = AddScaled(control, length, d) /\ derivative' = AddScaled(derivative, length, image)
  BY <1>2
<1> HIDE DEF d, slope, length
<1>8. control' \in Vec(Size)
  BY <1>1, <1>6, <1>7, CombinationTypes
<1> HIDE DEF image
<1>9. derivative' \in Vec(Size)
  BY <1>1, <1>4, <1>6, <1>7, CombinationTypes
<1>10. Pair(AddScaled(derivative, length, image), d)
         = Sum2(Pair(derivative, d), Product(length, Pair(image, d)))
  BY <1>1, <1>4, <1>6, PairAddScaled
<1>11. Pair(derivative', d) = Zero
  BY <1>1, <1>5, <1>6, <1>7, <1>10, Neutral
<1>12. QED
  BY <1>8, <1>9, <1>11 DEF d

\* The line search keeps the invariant.
LEMMA MoveStep ==
  ASSUME Elliptic, Inv, Move
  PROVE  Inv'
<1>1. /\ phase = "moving" /\ phase' = "asking"
      /\ UNCHANGED <<problem, policy, previous, sinceRestart, history, resets, answer,
                     performed, reported, trail, calls>>
      /\ ExactStep \/ InexactStep
  BY DEF Move
<1>2. Size' = Size
  BY <1>1 DEF Size
<1>3. /\ control' \in Vec(Size) /\ derivative' \in Vec(Size)
      /\ problem.quadratic => Pair(derivative', answer.direction) = Zero
  <2>1. CASE ExactStep
    BY <1>1, <2>1, ExactStepResult
  <2>2. CASE InexactStep
    <3>1. problem \in Problems /\ ~problem.quadratic /\ control' \in Controls /\ derivative' \in Derivatives
      BY <2>2 DEF InexactStep, Inv, Shape
    <3>2. QED
      BY <3>1, Layout
  <2>3. QED
    BY <1>1, <2>1, <2>2
<1>4. Shape'
  BY <1>1, <1>2, <1>3 DEF Inv, Shape, Phases
<1>5. Remembered'
  BY <1>1, <1>2 DEF Inv, Remembered, Riesz
<1>6. Answered'
  BY <1>1, <1>2 DEF Inv, Answered
<1>7. Orthogonal'
  BY <1>1, <1>2, <1>3 DEF Inv, Orthogonal
<1>8. Ledger' /\ Restarted'
  BY <1>1, <1>2 DEF Inv, Ledger, Restarted
<1>9. Accounted'
  BY <1>1 DEF Inv, Accounted
<1>10. Contract'
  BY <1>1 DEF Contract
<1>11. QED
  BY <1>4, <1>5, <1>6, <1>7, <1>8, <1>9, <1>10 DEF Inv

-----------------------------------------------------------------------------
(* Newton's inner iteration.                                               *)

InnerStates(n) ==
  {state \in [direction : Vec(n), residual : Vec(n), search : Vec(n), pairing : Rationals,
              count : Nat, status : {"running", "converged", "threw"}] :
     state.status = "running" => Positive(state.pairing)}

\* Newton's inner iteration starts in the layout, and running only with a positive pairing.
LEMMA InnerStartType ==
  ASSUME Inv
  PROVE  InnerStart \in InnerStates(Size) /\ TargetNorm \in Rationals /\ Positive(TargetNorm)
<1> DEFINE residual == Opposite(derivative)
           pairing == Pair(residual, Riesz(residual))
           zero == [i \in DOMAIN derivative |-> Zero]
<1>1. Size \in Nat /\ derivative \in Vec(Size) /\ problem \in Problems
  BY GradientType DEF Inv
<1>2. residual \in Vec(Size)
  BY <1>1, OppositeType
<1>3. Riesz(residual) \in Vec(Size)
  BY <1>1, <1>2, MetricTypes
<1>4. pairing \in Rationals
  BY <1>1, <1>2, <1>3, PairType
<1>5. zero \in Vec(Size)
  BY <1>1, ZeroIs DEF Vec
<1> HIDE DEF residual, pairing, zero
<1>6. InnerStart = [direction |-> zero, residual |-> residual, search |-> Riesz(residual),
                    pairing |-> pairing, count |-> 0,
                    status |-> IF Positive(pairing) THEN "running" ELSE "converged"]
  BY DEF InnerStart, residual, pairing, zero
<1>7. InnerStart \in InnerStates(Size)
  BY <1>2, <1>3, <1>4, <1>5, <1>6 DEF InnerStates
<1>8. Product(InnerRelative, InnerStart.pairing) \in Rationals
  BY <1>4, <1>6, ToleranceAssumption, Closed
<1>9. QED
  BY <1>7, <1>8, ToleranceAssumption, LargerPositive DEF TargetNorm

\* An iteration that goes on divides by a curvature that is positive.
LEMMA InnerStepType ==
  ASSUME Elliptic, Inv, NEW hessian \in problem.hessians,
         NEW state \in InnerStates(Size), state.status = "running"
  PROVE  InnerStep(state, hessian) \in InnerStates(Size)
<1> DEFINE image == Apply(hessian, state.search)
           curvature == Pair(image, state.search)
           step == Quotient(state.pairing, curvature)
           residual == AddScaled(state.residual, Negated(step), image)
           pairing == Pair(residual, Riesz(residual))
           direction == AddScaled(state.direction, step, state.search)
           advanced == [state EXCEPT !.direction = direction, !.residual = residual,
                                     !.count = state.count + 1]
           flat == AtMost(curvature, Product(CurvatureTolerance, SquaredNorm(state.search)))
           search == AddScaled(Riesz(residual), Quotient(pairing, state.pairing), state.search)
<1>1. Size \in Nat /\ problem \in Problems /\ hessian \in Mat(Size)
  BY GradientType, Layout DEF Inv
<1>2. /\ state \in [direction : Vec(Size), residual : Vec(Size), search : Vec(Size),
                    pairing : Rationals, count : Nat, status : {"running", "converged", "threw"}]
      /\ Positive(state.pairing)
  BY DEF InnerStates
<1>3. image \in Vec(Size) /\ curvature \in Rationals
  <2>1. image \in Vec(Size)
    BY <1>1, <1>2, ApplyType
  <2>2. QED
    BY <1>1, <1>2, <2>1, PairType
<1>4. InnerStep(state, hessian) =
        IF flat THEN [state EXCEPT !.status = "threw"]
        ELSE IF AtMost(pairing, TargetNorm) THEN [advanced EXCEPT !.status = "converged"]
        ELSE IF advanced.count = InnerLimit THEN [advanced EXCEPT !.status = "threw"]
        ELSE [advanced EXCEPT !.search = search, !.pairing = pairing]
  BY <1>2 DEF InnerStep
<1>5. CASE flat
  BY <1>2, <1>4, <1>5 DEF InnerStates
<1>6. CASE ~flat
  <2>1. Positive(curvature)
    <3> DEFINE norm == SquaredNorm(state.search)
    <3>1. norm \in Rationals /\ NonNegative(norm)
      <4>1. norm \in Rationals
        BY <1>1, <1>2, MetricTypes
      <4>2. PositiveOn(problem.metric, Vec(Size))
        BY <1>1 DEF Elliptic, EllipticOn, Size
      <4>3. ~IsZero(state.search) => Positive(norm)
        BY <1>2, <4>2 DEF PositiveOn, SquaredNorm
      <4>4. ASSUME IsZero(state.search) PROVE norm = Zero
        <5>1. problem.metric \in Mat(Size)
          BY <1>1, Layout
        <5>2. Apply(problem.metric, state.search) \in Vec(Size)
              /\ IsZero(Apply(problem.metric, state.search))
          BY <1>1, <1>2, <4>4, <5>1, ApplyType, ApplyZero
        <5>3. QED
          BY <1>1, <1>2, <5>2, PairZero DEF SquaredNorm
      <4>5. QED
        BY <4>1, <4>3, <4>4, Signs
    <3> HIDE DEF norm
    <3>2. CurvatureTolerance \in Rationals /\ NonNegative(CurvatureTolerance)
      BY ToleranceAssumption, Signs
    <3>3. Product(CurvatureTolerance, norm) \in Rationals
          /\ NonNegative(Product(CurvatureTolerance, norm))
      BY <3>1, <3>2, Closed, ProductSigns
    <3>4. QED
      BY <1>3, <1>6, <3>3, AboveNonNegative DEF norm
  <2> HIDE DEF curvature
  <2>2. step \in Rationals /\ Negated(step) \in Rationals
    BY <1>2, <1>3, <2>1, QuotientSigns, Closed
  <2> HIDE DEF step, image
  <2>3. residual \in Vec(Size)
    BY <1>1, <1>2, <1>3, <2>2, CombinationTypes
  <2>4. direction \in Vec(Size)
    BY <1>1, <1>2, <2>2, CombinationTypes
  <2> HIDE DEF residual, direction
  <2>5. Riesz(residual) \in Vec(Size)
    BY <1>1, <2>3, MetricTypes
  <2>6. pairing \in Rationals
    BY <1>1, <2>3, <2>5, PairType
  <2> HIDE DEF pairing
  <2>7. advanced \in [direction : Vec(Size), residual : Vec(Size), search : Vec(Size),
                      pairing : Rationals, count : Nat, status : {"running", "converged", "threw"}]
    <3> DEFINE a1 == [state EXCEPT !.direction = direction]
               a2 == [a1 EXCEPT !.residual = residual]
               R == [direction : Vec(Size), residual : Vec(Size), search : Vec(Size),
                     pairing : Rationals, count : Nat, status : {"running", "converged", "threw"}]
    <3>1. a1 \in R /\ a1.count = state.count
      BY <1>2, <2>4
    <3> HIDE DEF a1
    <3>2. a2 \in R /\ a2.count = state.count
      BY <2>3, <3>1
    <3> HIDE DEF a2
    <3>3. [a2 EXCEPT !.count = state.count + 1] \in R
      BY <1>2, <3>2
    <3>4. advanced = [a2 EXCEPT !.count = state.count + 1]
      BY DEF a1, a2
    <3>5. QED
      BY <3>3, <3>4
  <2>8. CASE AtMost(pairing, TargetNorm)
    BY <1>4, <1>6, <2>7, <2>8 DEF InnerStates
  <2>9. CASE ~AtMost(pairing, TargetNorm) /\ advanced.count = InnerLimit
    BY <1>4, <1>6, <2>7, <2>9 DEF InnerStates
  <2>10. CASE ~AtMost(pairing, TargetNorm) /\ advanced.count # InnerLimit
    <3>1. Quotient(pairing, state.pairing) \in Rationals
      BY <1>2, <2>6, Closed, Signs
    <3>2. search \in Vec(Size)
      BY <1>1, <1>2, <2>5, <3>1, CombinationTypes
    <3>3. Positive(pairing)
      BY <2>6, <2>10, InnerStartType, AboveNonNegative, Signs
    <3> HIDE DEF search, advanced
    <3>4. InnerStep(state, hessian) = [advanced EXCEPT !.search = search, !.pairing = pairing]
      BY <1>4, <1>6, <2>10
    <3>5. QED
      BY <2>6, <2>7, <3>2, <3>3, <3>4 DEF InnerStates
  <2>11. QED
    BY <2>8, <2>9, <2>10
<1>7. QED
  BY <1>5, <1>6

\* The states the inner iteration passes through, up to its limit.
Iterating(inner, hessian) ==
  /\ inner \in [0 .. InnerLimit -> InnerStates(Size)] /\ inner[0] = InnerStart
  /\ \A i \in 1 .. InnerLimit :
       inner[i] = IF inner[i - 1].status # "running" THEN inner[i - 1]
                  ELSE InnerStep(inner[i - 1], hessian)

\* Newton's inner iteration stays in the layout and ends in the last of its states.
LEMMA InnerRuns ==
  ASSUME Elliptic, Inv, NEW hessian \in problem.hessians
  PROVE  \E inner : Iterating(inner, hessian) /\ Inner(hessian) = inner[InnerLimit]
<1> DEFINE V == InnerStates(Size)
           step == [p \in (1 .. InnerLimit) \X V |->
                      IF p[2].status # "running" THEN p[2] ELSE InnerStep(p[2], hessian)]
           Equation(f) == f = [i \in 0 .. InnerLimit |->
                                 IF i = 0 THEN InnerStart
                                 ELSE IF f[i - 1].status # "running" THEN f[i - 1]
                                 ELSE InnerStep(f[i - 1], hessian)]
           inner == CHOOSE f : Equation(f)
<1>1. Inner(hessian) = inner[InnerLimit]
  BY DEF Inner
<1>2. InnerLimit \in Nat
  BY ToleranceAssumption
<1>3. \A i \in 1 .. InnerLimit, v \in V :
        step[<<i, v>>] = IF v.status # "running" THEN v ELSE InnerStep(v, hessian)
  OBVIOUS
<1> HIDE DEF step
<1>4. \A v \in V : v.status = "running" => InnerStep(v, hessian) \in V
  BY InnerStepType
<1>5. InnerStart \in V
  BY InnerStartType
<1> HIDE DEF V
<1>6. IsStep(step, V, InnerLimit)
  BY <1>3, <1>4 DEF IsStep
<1>7. PICK f : Iterates(f, V, InnerLimit, InnerStart, step)
  BY <1>2, <1>5, <1>6, FiniteRecursion
<1>8. Equation(f)
  <2>1. ASSUME NEW i \in 0 .. InnerLimit
        PROVE  f[i] = IF i = 0 THEN InnerStart
                      ELSE IF f[i - 1].status # "running" THEN f[i - 1]
                      ELSE InnerStep(f[i - 1], hessian)
    <3>1. CASE i = 0
      BY <1>7, <3>1 DEF Iterates
    <3>2. CASE i # 0
      <4>1. i \in 1 .. InnerLimit /\ f[i - 1] \in V
        BY <1>2, <1>7, <3>2 DEF Iterates
      <4>2. QED
        BY <1>3, <1>7, <3>2, <4>1 DEF Iterates
    <3>3. QED
      BY <3>1, <3>2
  <2>2. f = [i \in 0 .. InnerLimit |-> f[i]]
    BY <1>7 DEF Iterates
  <2>3. QED
    BY <2>1, <2>2
<1>9. Equation(inner)
  BY <1>8
<1> HIDE DEF inner
<1> DEFINE T == {k \in 0 .. InnerLimit : inner[k] \in V}
<1>10. 0 \in T
  BY <1>2, <1>5, <1>9
<1>11. ASSUME NEW i \in 1 .. InnerLimit, i - 1 \in T PROVE i \in T
  <2>1. inner[i - 1] \in V /\ i # 0 /\ i \in 0 .. InnerLimit
    BY <1>11
  <2>2. inner[i] = IF inner[i - 1].status # "running" THEN inner[i - 1]
                   ELSE InnerStep(inner[i - 1], hessian)
    BY <1>9, <2>1
  <2>3. inner[i] \in V
    BY <1>4, <2>1, <2>2
  <2>4. QED
    BY <2>1, <2>3
<1> HIDE DEF T
<1>12. 0 .. InnerLimit \subseteq T
  BY <1>2, <1>10, <1>11, IntervalInduction
<1>13. inner \in [0 .. InnerLimit -> V] /\ inner[0] = InnerStart
  <2>1. \A i \in 0 .. InnerLimit : inner[i] \in V
    BY <1>12 DEF T
  <2>2. inner = [i \in 0 .. InnerLimit |-> inner[i]] /\ 0 \in 0 .. InnerLimit
    BY <1>2, <1>9
  <2>3. QED
    BY <1>9, <2>1, <2>2
<1>14. ASSUME NEW i \in 1 .. InnerLimit
       PROVE  inner[i] = IF inner[i - 1].status # "running" THEN inner[i - 1]
                         ELSE InnerStep(inner[i - 1], hessian)
  BY <1>2, <1>9
<1>15. QED
  BY <1>1, <1>13, <1>14 DEF V, Iterating

\* So does its result.
LEMMA InnerType ==
  ASSUME Elliptic, Inv, NEW hessian \in problem.hessians
  PROVE  Inner(hessian) \in InnerStates(Size)
<1>1. PICK inner : Iterating(inner, hessian) /\ Inner(hessian) = inner[InnerLimit]
  BY InnerRuns
<1>2. InnerLimit \in 0 .. InnerLimit
  BY ToleranceAssumption
<1>3. QED
  BY <1>1, <1>2 DEF Iterating

\* Newton keeps the invariant, whether its inner iteration converges or throws.
LEMMA NewtonStep ==
  ASSUME Elliptic, Inv, Newton
  PROVE  Inv'
<1>1. phase = "asking" /\ calls < Calls /\ policy.kind = "newton"
  BY DEF Newton, Asked
<1>2. PICK hessian \in problem.hessians :
        IF Inner(hessian).status = "threw" \/ Positive(Pair(derivative, Inner(hessian).direction))
        THEN Throw(2 + Inner(hessian).count)
        ELSE /\ Return(Inner(hessian).direction, TRUE, 2 + Inner(hessian).count,
                       2 + Inner(hessian).count, Inner(hessian).count)
             /\ UNCHANGED <<previous, sinceRestart, history, resets>>
  BY DEF Newton
<1> DEFINE result == Inner(hessian)
           d == result.direction
           solves == 2 + result.count
<1>3. d \in Vec(Size) /\ solves \in Nat /\ solves \in 0 .. solves
  <2>1. result \in InnerStates(Size)
    BY InnerType
  <2> HIDE DEF result
  <2>2. d \in Vec(Size) /\ result.count \in Nat
    BY <2>1 DEF InnerStates
  <2>3. QED
    BY <2>2
<1>4. CASE result.status = "threw" \/ Positive(Pair(derivative, d))
  <2>1. Throw(solves)
    BY <1>2, <1>4
  <2> HIDE DEF solves
  <2>2. QED
    BY <1>1, <1>3, <2>1, Thrown DEF QuasiNewtonKinds
<1>5. CASE ~(result.status = "threw" \/ Positive(Pair(derivative, d)))
  <2>1. Return(d, TRUE, solves, solves, result.count)
    BY <1>2, <1>5
  <2>2. UNCHANGED <<previous, sinceRestart, history, resets>>
    BY <1>2, <1>5
  <2> HIDE DEF result, d, solves
  <2>3. /\ Shape' /\ Answered' /\ Ledger' /\ Contract' /\ UNCHANGED <<iterate, Size>>
        /\ phase' # "asking" /\ calls' = calls + 1 /\ Accounted'
    BY <1>1, <1>3, <2>1, Continued
  <2>4. Remembered' /\ Orthogonal'
    BY <1>1, <2>2, <2>3 DEF Inv, Remembered, Orthogonal, iterate, Riesz
  <2>5. Restarted'
    BY <2>2, <2>3 DEF Inv, Restarted, Ledger
  <2>6. QED
    BY <2>3, <2>4, <2>5 DEF Inv
<1>6. QED
  BY <1>4, <1>5

-----------------------------------------------------------------------------
(* The theorems.                                                           *)

\* The invariant is about the variables alone.
LEMMA Unchanged ==
  ASSUME Inv, UNCHANGED vars
  PROVE  Inv'
<1>1. UNCHANGED Size
  BY DEF vars, Size
<1>2. Shape' /\ Remembered' /\ Answered' /\ Orthogonal'
  BY <1>1 DEF vars, Inv, Shape, Remembered, Answered, Orthogonal, Riesz
<1>3. Ledger' /\ Restarted' /\ Accounted'
  BY <1>1 DEF vars, Inv, Ledger, Restarted, Accounted
<1>4. Contract'
  BY DEF vars, Inv, Contract, Classical, Stationary, Denominator, Periodically, RestartInterval
<1>5. QED
  BY <1>2, <1>3, <1>4 DEF Inv

\* The strengthening the safety theorems below rest on holds in every reachable state,
\* for every problem whose metric is a scalar product.
THEOREM Invariance ==
  ASSUME Elliptic
  PROVE  Spec => []Inv
<1>1. Init => Inv
  BY Initially
<1>2. Inv /\ [Next]_vars => Inv'
  BY SteepestDescentStep, ConjugateGradientStep, LimitedMemoryStep, FullBfgsStep, NewtonStep,
     MoveStep, Unchanged DEF Next
<1>3. QED
  BY <1>1, <1>2, PTL DEF Spec

\* The invariant gives every variable its type.
LEMMA InvTypes == Inv => TypeOK
<1>1. SUFFICES ASSUME Inv PROVE TypeOK
  OBVIOUS
<1>2. Size \in Nat /\ problem \in Problems /\ policy \in Policies /\ phase \in Phases
      /\ control \in Vec(Size) /\ derivative \in Vec(Size)
  BY <1>1, GradientType DEF Inv, Shape
<1>3. control \in Vectors /\ derivative \in Vectors
  BY <1>2, VecSeq DEF Vectors
<1>4. Len(previous) <= 1 /\ \A old \in Range(previous) : old.gradient = Riesz(old.derivative)
  <2>1. CASE previous = <<>>
    BY <2>1 DEF Range
  <2>2. CASE previous # <<>>
    <3>1. PICK old : previous = <<old>> /\ old.gradient = Riesz(old.derivative)
      BY <1>1, <2>2 DEF Inv, Remembered
    <3>2. Len(previous) = 1 /\ \A x \in Range(previous) : x = old
      BY <3>1 DEF Range
    <3>3. QED
      BY <3>1, <3>2
  <2>3. QED
    BY <2>1, <2>2
<1>5. \A pair \in Range(history) : pair.s \in Vectors /\ pair.y \in Vectors
  <2>1. \A pair \in Pairs(Size) : pair.s \in Vec(Size) /\ pair.y \in Vec(Size)
    BY DEF Pairs
  <2>2. \A pair \in Range(history) : pair \in Pairs(Size)
    BY <1>1 DEF Inv, Remembered, Range
  <2>3. QED
    BY <1>2, <2>1, <2>2, VecSeq DEF Vectors
<1>6. answer.direction \in Vectors /\ answer.slope \in Rationals
  <2>1. <<>> \in Vectors
    BY DEF Vectors
  <2>2. QED
    BY <1>1, <1>2, <2>1, VecSeq DEF Inv, Answered, Vectors
<1>7. QED
  BY <1>1, <1>2, <1>3, <1>4, <1>5, <1>6 DEF TypeOK, Inv, Remembered, Ledger, Restarted, Phases

\* Every block has the layout of its problem, and the pairs that are kept have the
\* curvature of their blocks, positive as the scale of the initial matrix is.
BlocksFit ==
  /\ control \in Vec(Size) /\ derivative \in Vec(Size)
  /\ answer.direction \in Vec(Size) \union {<<>>}
  /\ \A old \in Range(previous) :
       /\ {old.control, old.derivative, old.gradient} \subseteq Vec(Size)
       /\ old.direction \in Vec(Size) \union {<<>>}
  /\ \A pair \in Range(history) :
       /\ {pair.s, pair.y} \subseteq Vec(Size) /\ {pair.curvature, pair.scale} \subseteq Rationals
       /\ pair.curvature = Pair(pair.y, pair.s)
       /\ Positive(pair.curvature) /\ Positive(pair.scale)
  /\ \A entry \in Range(trail) :
       {entry.control, entry.derivative, entry.direction} \subseteq Vec(Size)

\* The invariant gives the blocks their layout and the pairs their curvature.
LEMMA InvBlocks == Inv => BlocksFit
<1>1. SUFFICES ASSUME Inv PROVE BlocksFit
  OBVIOUS
<1>2. control \in Vec(Size) /\ derivative \in Vec(Size)
      /\ answer.direction \in Vec(Size) \union {<<>>}
  BY <1>1 DEF Inv, Shape, Answered
<1>3. ASSUME NEW old \in Range(previous)
      PROVE  /\ {old.control, old.derivative, old.gradient} \subseteq Vec(Size)
             /\ old.direction \in Vec(Size) \union {<<>>}
  <2>1. old \in Earlier(Size)
    BY <1>1, <1>3 DEF Inv, Remembered, Range
  <2>2. QED
    BY <2>1 DEF Earlier
<1>4. ASSUME NEW pair \in Range(history)
      PROVE  /\ {pair.s, pair.y} \subseteq Vec(Size)
             /\ {pair.curvature, pair.scale} \subseteq Rationals
             /\ pair.curvature = Pair(pair.y, pair.s)
             /\ Positive(pair.curvature) /\ Positive(pair.scale)
  <2>1. pair \in Pairs(Size)
    BY <1>1, <1>4 DEF Inv, Remembered, Range
  <2>2. QED
    BY <2>1 DEF Pairs
<1>5. ASSUME NEW entry \in Range(trail)
      PROVE  {entry.control, entry.derivative, entry.direction} \subseteq Vec(Size)
  <2>1. entry \in Entries(Size)
    BY <1>1, <1>5 DEF Inv, Ledger, Range
  <2>2. QED
    BY <2>1 DEF Entries
<1>6. QED
  BY <1>2, <1>3, <1>4, <1>5 DEF BlocksFit

\* Across every call, move, restart and reset each variable has its type: the blocks
\* keep the layout of the problem, and the pairs of the quasi-Newton policies, never
\* more than their memory, have positive curvature, as their divisions require.
THEOREM Types ==
  ASSUME Elliptic
  PROVE  Spec => [](TypeOK /\ BlocksFit)
BY Invariance, InvTypes, InvBlocks, PTL

\* Steepest descent, the quasi-Newton policies and the recurrences that restart never
\* end a solve with an exception.  The classical recurrence does so only at a
\* stationary iterate or in a call that uses its history, there on a quadratic only
\* when the squared gradient of the history is at most the curvature tolerance.
THEOREM EndsByContract ==
  ASSUME Elliptic
  PROVE  Spec => [](/\ Contract
                    /\ policy.kind # "newton" => PolicyEndsSolveByContract)
<1>1. Inv => Contract
  BY DEF Inv
<1>2. Contract => (policy.kind # "newton" => PolicyEndsSolveByContract)
  BY DEF Contract, PolicyEndsSolveByContract
<1>3. QED
  BY <1>1, <1>2, Invariance, PTL

\* A metric solve that no direction reports is one at a stationary iterate.
THEOREM FallbackAtStationary ==
  ASSUME Elliptic
  PROVE  Spec => []FallbackOnlyWhenStationary
<1>1. Inv => FallbackOnlyWhenStationary
  BY DEF Inv, Accounted, FallbackOnlyWhenStationary, Stationary
<1>2. QED
  BY <1>1, Invariance, PTL

-----------------------------------------------------------------------------
(* The matrix the two-loop recursion stands for.                           *)

Weight(matrix, pair) ==
  Quotient(Sum2(pair.curvature, Pair(pair.y, Apply(matrix, pair.y))),
           Product(pair.curvature, pair.curvature))

\* What the inverse BFGS update divides by is never zero.
LEMMA UpdateParts ==
  ASSUME NEW n \in Nat, NEW matrix \in Mat(n), NEW pair \in Pairs(n)
  PROVE  /\ pair.s \in Vec(n) /\ pair.y \in Vec(n) /\ pair.curvature \in Rationals
         /\ pair.curvature # Zero /\ Inverted(pair.curvature) \in Rationals
         /\ Apply(matrix, pair.y) \in Vec(n) /\ Weight(matrix, pair) \in Rationals
         /\ Pair(pair.y, Apply(matrix, pair.y)) \in Rationals
         /\ Product(pair.curvature, pair.curvature) \in Rationals
         /\ Product(pair.curvature, pair.curvature) # Zero
<1>1. pair.s \in Vec(n) /\ pair.y \in Vec(n) /\ pair.curvature \in Rationals
      /\ Positive(pair.curvature)
  BY DEF Pairs
<1> DEFINE c == pair.curvature
           y == pair.y
           image == Apply(matrix, y)
<1>2. c \in Rationals /\ Positive(c) /\ y \in Vec(n)
  BY <1>1
<1> HIDE DEF c, y
<1>3. c # Zero /\ Product(c, c) # Zero
  BY <1>2, Signs, ProductSigns
<1>4. Inverted(c) \in Rationals /\ Product(c, c) \in Rationals
  BY <1>2, <1>3, Closed
<1>5. image \in Vec(n)
  BY <1>2, ApplyType
<1> HIDE DEF image
<1>6. Pair(y, image) \in Rationals
  BY <1>2, <1>5, PairType
<1>7. Quotient(Sum2(c, Pair(y, image)), Product(c, c)) \in Rationals
  BY <1>2, <1>3, <1>4, <1>6, Closed
<1>8. QED
  BY <1>1, <1>3, <1>4, <1>5, <1>6, <1>7 DEF c, y, image, Weight

\* Each row of the updated matrix is the row plus two vectors.
LEMMA UpdatedRows ==
  ASSUME NEW n \in Nat, NEW matrix \in Mat(n), NEW pair \in Pairs(n), NEW i \in 1 .. n
  PROVE  LET image == Apply(matrix, pair.y)
             k == Inverted(pair.curvature)
             a == Difference(Product(Weight(matrix, pair), pair.s[i]), Product(image[i], k))
             b == Negated(Product(pair.s[i], k))
         IN  /\ a \in Rationals /\ b \in Rationals
             /\ Updated(matrix, pair)[i] = AddScaled(AddScaled(matrix[i], a, pair.s), b, image)
             /\ Updated(matrix, pair)[i] \in Vec(n) /\ DOMAIN Updated(matrix, pair) = 1 .. n
<1> DEFINE s == pair.s
           image == Apply(matrix, pair.y)
           c == pair.curvature
           k == Inverted(c)
           w == Weight(matrix, pair)
           a == Difference(Product(w, s[i]), Product(image[i], k))
           b == Negated(Product(s[i], k))
           row == Updated(matrix, pair)[i]
<1>1. DOMAIN matrix = 1 .. n /\ matrix[i] \in Vec(n)
  BY DEF Mat
<1>2. s \in Vec(n) /\ image \in Vec(n) /\ k \in Rationals /\ w \in Rationals
  BY UpdateParts
<1>3. DOMAIN Updated(matrix, pair) = 1 .. n
      /\ row = [j \in 1 .. n |->
                  Sum2(matrix[i][j],
                       Difference(Product(w, Product(s[i], s[j])),
                                  Quotient(Sum2(Product(image[i], s[j]), Product(s[i], image[j])), c)))]
  BY <1>1 DEF Updated, Weight
<1> HIDE DEF s, image, w, row, c
<1>4. row = [j \in 1 .. n |-> Entry(matrix[i][j], w, k, s[i], s[j], image[i], image[j])]
  BY <1>3 DEF Quotient, Entry
<1> HIDE DEF k
<1>5. s[i] \in Rationals /\ image[i] \in Rationals
  BY <1>2 DEF Vec
<1>6. Product(w, s[i]) \in Rationals /\ Product(image[i], k) \in Rationals
      /\ Product(s[i], k) \in Rationals
  BY <1>2, <1>5, FieldClosed
<1>7. a \in Rationals /\ b \in Rationals
  BY <1>6, Closed
<1>8. ASSUME NEW j \in 1 .. n
      PROVE  Entry(matrix[i][j], w, k, s[i], s[j], image[i], image[j])
               = Sum2(Sum2(matrix[i][j], Product(a, s[j])), Product(b, image[j]))
  <2>1. matrix[i][j] \in Rationals /\ s[j] \in Rationals /\ image[j] \in Rationals
    BY <1>1, <1>2 DEF Vec
  <2>2. AllRational(matrix[i][j], w, k, s[i], s[j], image[i], image[j])
    BY <1>2, <1>5, <2>1 DEF AllRational
  <2>3. QED
    BY <2>2, RankTwo DEF Collected
<1> HIDE DEF a, b
<1>9. AddScaled(AddScaled(matrix[i], a, s), b, image)
        = [j \in 1 .. n |-> Sum2(Sum2(matrix[i][j], Product(a, s[j])), Product(b, image[j]))]
  <2>1. DOMAIN matrix[i] = 1 .. n
    BY <1>1 DEF Vec
  <2>2. QED
    BY <2>1 DEF AddScaled
<1>10. row = AddScaled(AddScaled(matrix[i], a, s), b, image)
  BY <1>4, <1>8, <1>9
<1>11. AddScaled(matrix[i], a, s) \in Vec(n)
  BY <1>1, <1>2, <1>7, CombinationTypes
<1>12. AddScaled(AddScaled(matrix[i], a, s), b, image) \in Vec(n)
  BY <1>2, <1>7, <1>11, CombinationTypes
<1>13. QED
  BY <1>3, <1>7, <1>10, <1>12 DEF a, b, row, s, image, w, k, c

\* The update of a matrix is a matrix of the same size.
LEMMA UpdatedType ==
  ASSUME NEW n \in Nat, NEW matrix \in Mat(n), NEW pair \in Pairs(n)
  PROVE  Updated(matrix, pair) \in Mat(n)
<1> DEFINE u == Updated(matrix, pair)
<1>1. \A i \in 1 .. n : u[i] \in Vec(n)
  BY UpdatedRows
<1>2. u = [i \in 1 .. n |-> u[i]]
  BY DEF Updated, Mat
<1> HIDE DEF u
<1>3. u \in Mat(n)
  BY <1>1, <1>2 DEF Mat
<1>4. QED
  BY <1>3 DEF u

\* So does its product with a vector add two vectors.
LEMMA UpdatedApply ==
  ASSUME NEW n \in Nat, NEW matrix \in Mat(n), NEW pair \in Pairs(n), NEW v \in Vec(n)
  PROVE  LET image == Apply(matrix, pair.y)
             k == Inverted(pair.curvature)
             p == Pair(pair.s, v)
             r == Pair(image, v)
             a == Difference(Product(Weight(matrix, pair), p), Product(r, k))
             b == Negated(Product(p, k))
         IN  /\ a \in Rationals /\ b \in Rationals /\ p \in Rationals /\ r \in Rationals
             /\ Apply(Updated(matrix, pair), v)
                  = AddScaled(AddScaled(Apply(matrix, v), a, pair.s), b, image)
<1> DEFINE s == pair.s
           image == Apply(matrix, pair.y)
           k == Inverted(pair.curvature)
           w == Weight(matrix, pair)
           p == Pair(s, v)
           r == Pair(image, v)
           a == Difference(Product(w, p), Product(r, k))
           b == Negated(Product(p, k))
           u == Updated(matrix, pair)
<1>1. \A i \in 1 .. n : matrix[i] \in Vec(n)
  BY DEF Mat
<1>2. s \in Vec(n) /\ image \in Vec(n) /\ k \in Rationals /\ w \in Rationals
  BY UpdateParts
<1>3. p \in Rationals /\ r \in Rationals
  BY <1>2, PairType
<1>4. Product(w, p) \in Rationals /\ Product(r, k) \in Rationals /\ Product(p, k) \in Rationals
  BY <1>2, <1>3, FieldClosed
<1>5. a \in Rationals /\ b \in Rationals
  BY <1>4, Closed
<1>6. ASSUME NEW i \in 1 .. n
      PROVE  Pair(u[i], v)
               = Sum2(Sum2(Pair(matrix[i], v), Product(a, s[i])), Product(b, image[i]))
  <2> DEFINE a1 == Difference(Product(w, s[i]), Product(image[i], k))
             b1 == Negated(Product(s[i], k))
             m == Pair(matrix[i], v)
  <2>1. a1 \in Rationals /\ b1 \in Rationals
        /\ u[i] = AddScaled(AddScaled(matrix[i], a1, s), b1, image)
    BY UpdatedRows
  <2> HIDE DEF a1, b1, s, image, k, w, u
  <2>2. AddScaled(matrix[i], a1, s) \in Vec(n)
    BY <1>1, <1>2, <2>1, CombinationTypes
  <2>3. Pair(u[i], v) = Sum2(Pair(AddScaled(matrix[i], a1, s), v), Product(b1, r))
    BY <1>2, <2>1, <2>2, PairAddScaled
  <2>4. Pair(AddScaled(matrix[i], a1, s), v) = Sum2(m, Product(a1, p))
    BY <1>1, <1>2, <2>1, PairAddScaled
  <2>5. m \in Rationals /\ s[i] \in Rationals /\ image[i] \in Rationals
    BY <1>1, <1>2, PairType DEF Vec
  <2> HIDE DEF m, p, r
  <2>6. AllRational(m, w, k, s[i], p, image[i], r)
    BY <1>2, <1>3, <2>5 DEF AllRational
  <2>7. Collected(m, w, k, s[i], p, image[i], r) = Collected(m, w, k, p, s[i], r, image[i])
    BY <2>6, RankTwoSymmetric
  <2>8. Sum2(Sum2(m, Product(a1, p)), Product(b1, r))
          = Sum2(Sum2(m, Product(a, s[i])), Product(b, image[i]))
    BY <2>7 DEF Collected, a1, b1
  <2>9. QED
    BY <2>3, <2>4, <2>8 DEF m
<1>7. u \in Mat(n)
  BY UpdatedType
<1> HIDE DEF s, image, k, w, p, r, a, b, u
<1>8. Apply(u, v) = [i \in 1 .. n |-> Pair(u[i], v)]
  BY <1>7 DEF Apply, Mat
<1>9. AddScaled(AddScaled(Apply(matrix, v), a, s), b, image)
        = [i \in 1 .. n |->
             Sum2(Sum2(Pair(matrix[i], v), Product(a, s[i])), Product(b, image[i]))]
  BY DEF AddScaled, Apply, Mat
<1>10. Apply(u, v) = AddScaled(AddScaled(Apply(matrix, v), a, s), b, image)
  BY <1>6, <1>8, <1>9
<1>11. QED
  BY <1>3, <1>5, <1>10 DEF s, image, k, w, p, r, a, b, u

\* The update keeps a matrix self-adjoint.
LEMMA UpdatedSelfAdjoint ==
  ASSUME NEW n \in Nat, NEW matrix \in Mat(n), NEW pair \in Pairs(n),
         SelfAdjointOn(matrix, Vec(n))
  PROVE  SelfAdjointOn(Updated(matrix, pair), Vec(n))
<1> DEFINE s == pair.s
           image == Apply(matrix, pair.y)
           k == Inverted(pair.curvature)
           w == Weight(matrix, pair)
           u == Updated(matrix, pair)
<1>1. s \in Vec(n) /\ image \in Vec(n) /\ k \in Rationals /\ w \in Rationals
  BY UpdateParts
<1>2. ASSUME NEW x \in Vec(n), NEW y \in Vec(n)
      PROVE  /\ Pair(Apply(u, x), y)
                  = Collected(Pair(Apply(matrix, x), y), w, k, Pair(s, x), Pair(s, y),
                              Pair(image, x), Pair(image, y))
             /\ AllRational(Pair(Apply(matrix, x), y), w, k, Pair(s, x), Pair(s, y),
                            Pair(image, x), Pair(image, y))
  <2> DEFINE p == Pair(s, x)
             r == Pair(image, x)
             a == Difference(Product(w, p), Product(r, k))
             b == Negated(Product(p, k))
             mx == Apply(matrix, x)
  <2>1. a \in Rationals /\ b \in Rationals /\ Apply(u, x) = AddScaled(AddScaled(mx, a, s), b, image)
    BY UpdatedApply
  <2>2. mx \in Vec(n)
    BY ApplyType
  <2> HIDE DEF a, b, s, image, mx, u, w, k
  <2>3. AddScaled(mx, a, s) \in Vec(n)
    BY <1>1, <2>1, <2>2, CombinationTypes
  <2>4. Pair(Apply(u, x), y) = Sum2(Pair(AddScaled(mx, a, s), y), Product(b, Pair(image, y)))
    BY <1>1, <2>1, <2>3, PairAddScaled
  <2>5. Pair(AddScaled(mx, a, s), y) = Sum2(Pair(mx, y), Product(a, Pair(s, y)))
    BY <1>1, <2>1, <2>2, PairAddScaled
  <2>6. Pair(mx, y) \in Rationals /\ p \in Rationals /\ r \in Rationals
        /\ Pair(s, y) \in Rationals /\ Pair(image, y) \in Rationals
    BY <1>1, <2>2, PairType
  <2>7. AllRational(Pair(mx, y), w, k, p, Pair(s, y), r, Pair(image, y))
    BY <1>1, <2>6 DEF AllRational
  <2>8. Pair(Apply(u, x), y) = Collected(Pair(mx, y), w, k, p, Pair(s, y), r, Pair(image, y))
    BY <2>4, <2>5 DEF Collected, a, b
  <2>9. QED
    BY <2>7, <2>8 DEF mx
<1> HIDE DEF s, image, k, w, u
<1>3. ASSUME NEW x \in Vec(n), NEW y \in Vec(n)
      PROVE  Pair(Apply(u, x), y) = Pair(Apply(u, y), x)
  <2>1. Pair(Apply(matrix, x), y) = Pair(Apply(matrix, y), x)
    BY DEF SelfAdjointOn
  <2>2. Collected(Pair(Apply(matrix, x), y), w, k, Pair(s, x), Pair(s, y),
                  Pair(image, x), Pair(image, y))
          = Collected(Pair(Apply(matrix, x), y), w, k, Pair(s, y), Pair(s, x),
                      Pair(image, y), Pair(image, x))
    BY <1>2, RankTwoSymmetric
  <2>3. QED
    BY <1>2, <2>1, <2>2
<1>4. QED
  BY <1>3 DEF SelfAdjointOn, u

\* The coefficients of the update and of one step of the second loop agree.
LEMMA LoopCoefficient ==
  ASSUME NEW c \in Rationals, c # Zero, NEW h \in Rationals, NEW p \in Rationals, NEW r \in Rationals
  PROVE  LET k == Inverted(c)
             a == Product(p, k)
         IN  Difference(Product(Quotient(Sum2(c, h), Product(c, c)), p), Product(r, k))
               = Difference(a, Product(Sum2(r, Product(Negated(a), h)), k))
<1> DEFINE k == Inverted(c)
           a == Product(p, k)
           cc == Product(c, c)
           t == Quotient(Sum2(c, h), cc)
           hk == Product(h, k)
           ahk == Product(a, hk)
           rk == Product(r, k)
<1>1. k \in Rationals /\ cc \in Rationals /\ cc # Zero /\ Sum2(c, h) \in Rationals
  BY Closed, ProductSigns
<1>2. Product(k, c) = One
  <2>1. Product(Quotient(One, c), c) = One
    BY OneIs, QuotientProduct
  <2>2. Quotient(One, c) = k
    BY <1>1, Neutral DEF Quotient
  <2>3. QED
    BY <2>1, <2>2
<1>3. t \in Rationals /\ Product(t, cc) = Sum2(c, h)
  BY <1>1, Closed, QuotientProduct
<1> HIDE DEF k, t
<1>4. a \in Rationals /\ hk \in Rationals /\ rk \in Rationals
  BY <1>1, FieldClosed
<1>5. ahk \in Rationals /\ Product(t, c) \in Rationals
  BY <1>3, <1>4, FieldClosed
<1>6. Product(a, c) = p
  <2>1. Product(Product(p, k), c) = Product(p, Product(k, c))
    BY <1>1, ProductAssociates
  <2>2. QED
    BY <1>2, <2>1, Neutral
<1>7. Product(t, c) = Sum2(One, hk)
  <2> DEFINE tc == Product(t, c)
  <2>1. Product(tc, c) = Sum2(c, h)
    BY <1>3, ProductAssociates
  <2> HIDE DEF tc
  <2>2. tc \in Rationals
    BY <1>5 DEF tc
  <2>3. Product(Product(tc, c), k) = tc
    <3>1. Product(Product(tc, c), k) = Product(tc, Product(c, k))
      BY <1>1, <2>2, ProductAssociates
    <3>2. Product(c, k) = One
      BY <1>1, <1>2, ProductCommutes
    <3>3. QED
      BY <2>2, <3>1, <3>2, Neutral
  <2>4. Product(Sum2(c, h), k) = Sum2(Product(c, k), Product(h, k))
    BY <1>1, DistributesRight
  <2>5. Product(c, k) = One
    BY <1>1, <1>2, ProductCommutes
  <2>6. QED
    BY <2>1, <2>3, <2>4, <2>5 DEF tc
<1>8. Product(t, p) = Sum2(a, ahk)
  <2>1. Product(t, Product(a, c)) = Product(Product(t, a), c)
    BY <1>3, <1>4, ProductAssociates
  <2>2. Product(Product(t, a), c) = Product(Product(t, c), a)
    BY <1>3, <1>4, ProductSwap
  <2>3. Product(Sum2(One, hk), a) = Sum2(Product(One, a), Product(hk, a))
    BY <1>4, OneIs, DistributesRight
  <2>4. Product(One, a) = a /\ Product(hk, a) = ahk
    BY <1>4, Neutral, ProductCommutes
  <2>5. QED
    BY <1>6, <1>7, <2>1, <2>2, <2>3, <2>4
<1> HIDE DEF a, cc, hk
<1>9. Negated(rk) \in Rationals /\ Negated(ahk) \in Rationals /\ Negated(a) \in Rationals
  BY <1>4, <1>5, Closed
<1>10. Product(Sum2(r, Product(Negated(a), h)), k) = Sum2(rk, Negated(ahk))
  <2> DEFINE ah == Product(Negated(a), h)
  <2>1. ah \in Rationals
    BY <1>9, FieldClosed
  <2>2. Product(ah, k) = Product(Negated(a), hk)
    BY <1>1, <1>9, ProductAssociates DEF hk
  <2>3. Product(Negated(a), hk) = Negated(ahk)
    BY <1>4, NegatedProduct
  <2> HIDE DEF ah
  <2>4. Product(Sum2(r, ah), k) = Sum2(rk, Product(ah, k))
    BY <1>1, <2>1, DistributesRight
  <2>5. QED
    BY <2>2, <2>3, <2>4 DEF ah
<1> HIDE DEF rk, ahk
<1>11. Difference(Sum2(a, ahk), rk) = Difference(a, Sum2(rk, Negated(ahk)))
  <2>1. Negated(Sum2(rk, Negated(ahk))) = Sum2(Negated(rk), Negated(Negated(ahk)))
    BY <1>4, <1>9, NegatedSum
  <2>2. Negated(Negated(ahk)) = ahk
    BY <1>5, Signs
  <2>3. Sum2(Negated(rk), ahk) = Sum2(ahk, Negated(rk))
    BY <1>5, <1>9, SumCommutes
  <2>4. Sum2(Sum2(a, ahk), Negated(rk)) = Sum2(a, Sum2(ahk, Negated(rk)))
    BY <1>4, <1>5, <1>9, SumAssociates
  <2>5. QED
    BY <2>1, <2>2, <2>3, <2>4 DEF Difference
<1>12. Difference(Product(t, p), rk) = Difference(a, Product(Sum2(r, Product(Negated(a), h)), k))
  BY <1>8, <1>10, <1>11
<1>13. QED
  BY <1>12 DEF t, rk, a, k, cc

\* One step of the second loop multiplies by the updated matrix.
LEMMA SecondLoopStep ==
  ASSUME NEW n \in Nat, NEW matrix \in Mat(n), SelfAdjointOn(matrix, Vec(n)),
         NEW pair \in Pairs(n), NEW w \in Vec(n)
  PROVE  LET alpha == Quotient(Pair(w, pair.s), pair.curvature)
             z == Apply(matrix, AddScaled(w, Negated(alpha), pair.y))
             beta == Quotient(Pair(pair.y, z), pair.curvature)
         IN  AddScaled(z, Difference(alpha, beta), pair.s) = Apply(Updated(matrix, pair), w)
<1> DEFINE s == pair.s
           y == pair.y
           c == pair.curvature
           k == Inverted(c)
           image == Apply(matrix, y)
           mw == Apply(matrix, w)
           alpha == Quotient(Pair(w, s), c)
           z == Apply(matrix, AddScaled(w, Negated(alpha), y))
           beta == Quotient(Pair(y, z), c)
           h == Pair(y, image)
           p == Pair(s, w)
           r == Pair(image, w)
           a == Difference(Product(Weight(matrix, pair), p), Product(r, k))
           b == Negated(Product(p, k))
           u == Updated(matrix, pair)
<1>1. s \in Vec(n) /\ y \in Vec(n) /\ c \in Rationals /\ c # Zero /\ k \in Rationals
      /\ image \in Vec(n) /\ mw \in Vec(n) /\ h \in Rationals
  BY UpdateParts, ApplyType
<1>2. a \in Rationals /\ b \in Rationals /\ p \in Rationals /\ r \in Rationals
      /\ Apply(u, w) = AddScaled(AddScaled(mw, a, s), b, image)
  BY UpdatedApply
<1>3. Weight(matrix, pair) = Quotient(Sum2(c, h), Product(c, c))
  BY DEF Weight
<1>4. Pair(y, mw) = r
  BY <1>1, PairSymmetric DEF SelfAdjointOn
<1>5. alpha = Product(p, k) /\ b = Negated(alpha)
  BY <1>1, PairSymmetric DEF Quotient
<1>6. alpha \in Rationals /\ Negated(alpha) \in Rationals
  BY <1>1, <1>2, <1>5, Closed
<1>7. z = AddScaled(mw, Negated(alpha), image)
  <2> HIDE DEF alpha, s, y, c
  <2>1. QED
    BY <1>1, <1>6, ApplyAddScaled
<1>8. Pair(y, z) = Sum2(r, Product(Negated(alpha), h))
  <2> HIDE DEF alpha, s, y, c, z, mw, image, r
  <2>1. QED
    BY <1>1, <1>4, <1>6, <1>7, PairAddScaledRight
<1>9. beta = Product(Sum2(r, Product(Negated(alpha), h)), k)
  BY <1>8 DEF Quotient
<1>10. a = Difference(alpha, beta)
  <2> HIDE DEF alpha, s, y, c, z, mw, image, r, p, h, beta
  <2>1. a = Difference(Product(Quotient(Sum2(c, h), Product(c, c)), p), Product(r, k))
    BY <1>3
  <2>2. QED
    BY <1>1, <1>2, <1>5, <1>9, <2>1, LoopCoefficient
<1>11. AddScaled(AddScaled(mw, a, s), b, image) = AddScaled(AddScaled(mw, b, image), a, s)
  <2> HIDE DEF s, mw, image, a, b
  <2>1. QED
    BY <1>1, <1>2, AddScaledSwap
<1>12. AddScaled(z, Difference(alpha, beta), s) = Apply(u, w)
  <2> HIDE DEF s, mw, image, a, b, z, alpha, beta, u
  <2>1. QED
    BY <1>2, <1>5, <1>7, <1>10, <1>11
<1>13. QED
  BY <1>12

\* The scaled metric inverse, updated by one pair after the other.
ScaledInverse(scale) == [k \in DOMAIN problem.inverse |-> Scaled(scale, problem.inverse[k])]
Updating(f, pairs, n) ==
  /\ f \in [0 .. Len(pairs) -> Mat(n)] /\ f[0] = ScaledInverse(pairs[Len(pairs)].scale)
  /\ \A i \in 1 .. Len(pairs) : f[i] = Updated(f[i - 1], pairs[i])

\* The matrix the recursion starts from is self-adjoint and scales the Riesz map.
LEMMA ScaledInverseIs ==
  ASSUME Elliptic, problem \in Problems, NEW scale \in Rationals
  PROVE  /\ ScaledInverse(scale) \in Mat(Size)
         /\ \A x \in Vec(Size) : Apply(ScaledInverse(scale), x) = Scaled(scale, Riesz(x))
         /\ SelfAdjointOn(ScaledInverse(scale), Vec(Size))
<1>1. Size \in Nat /\ problem.inverse \in Mat(Size)
  BY Layout
<1>2. ScaledInverse(scale) \in Mat(Size)
  <2>1. [i \in 1 .. Size |-> Zero] \in Vec(Size)
    BY ZeroIs DEF Vec
  <2>2. QED
    BY <1>1, <2>1, ApplyScaledRows DEF ScaledInverse
<1>3. \A x \in Vec(Size) : Apply(ScaledInverse(scale), x) = Scaled(scale, Riesz(x))
  BY <1>1, ApplyScaledRows DEF ScaledInverse, Riesz
<1>4. ASSUME NEW x \in Vec(Size), NEW y \in Vec(Size)
      PROVE  Pair(Apply(ScaledInverse(scale), x), y) = Pair(Apply(ScaledInverse(scale), y), x)
  <2>1. Riesz(x) \in Vec(Size) /\ Riesz(y) \in Vec(Size)
    BY MetricTypes
  <2>2. Pair(Riesz(x), y) = Pair(Riesz(y), x)
    BY DEF Elliptic, EllipticOn, SelfAdjointOn, Riesz, Size
  <2>3. Pair(Scaled(scale, Riesz(x)), y) = Product(scale, Pair(Riesz(x), y))
    BY <1>1, <2>1, PairScaled
  <2>4. Pair(Scaled(scale, Riesz(y)), x) = Product(scale, Pair(Riesz(y), x))
    BY <1>1, <2>1, PairScaled
  <2>5. QED
    BY <1>3, <2>2, <2>3, <2>4
<1>5. QED
  BY <1>2, <1>3, <1>4 DEF SelfAdjointOn

\* The matrices after each pair, as a function.
LEMMA UpdatesExist ==
  ASSUME Elliptic, problem \in Problems, NEW pairs \in Seq(Pairs(Size)), pairs # <<>>
  PROVE  \E f : Updating(f, pairs, Size)
<1> DEFINE n == Size
           m == Len(pairs)
           base == ScaledInverse(pairs[m].scale)
           step == [p \in (1 .. m) \X Mat(n) |-> Updated(p[2], pairs[p[1]])]
<1>1. n \in Nat /\ m \in Nat /\ m \in 1 .. m
  BY Layout
<1>2. base \in Mat(n)
  <2>1. pairs[m] \in Pairs(n)
    BY <1>1
  <2>2. pairs[m].scale \in Rationals
    BY <2>1 DEF Pairs
  <2>3. QED
    BY <2>2, ScaledInverseIs
<1>3. \A i \in 1 .. m, matrix \in Mat(n) : step[<<i, matrix>>] = Updated(matrix, pairs[i])
  OBVIOUS
<1> HIDE DEF step, base
<1>4. ASSUME NEW i \in 1 .. m, NEW matrix \in Mat(n) PROVE step[<<i, matrix>>] \in Mat(n)
  <2>1. pairs[i] \in Pairs(n)
    BY <1>1
  <2>2. QED
    BY <1>1, <1>3, <2>1, UpdatedType
<1>5. IsStep(step, Mat(n), m)
  BY <1>4 DEF IsStep
<1>6. PICK f : Iterates(f, Mat(n), m, base, step)
  BY <1>1, <1>2, <1>5, FiniteRecursion
<1>7. ASSUME NEW i \in 1 .. m PROVE f[i] = Updated(f[i - 1], pairs[i])
  <2>1. f[i - 1] \in Mat(n) /\ f[i] = step[<<i, f[i - 1]>>]
    BY <1>6 DEF Iterates
  <2>2. QED
    BY <1>3, <2>1
<1>8. QED
  BY <1>6, <1>7 DEF Updating, Iterates, base

\* The two-loop recursion multiplies by the matrix it never forms.
LEMMA TwoLoopIsMatrix ==
  ASSUME Elliptic, problem \in Problems, NEW pairs \in Seq(Pairs(Size)), pairs # <<>>,
         NEW covector \in Vec(Size), NEW f, Updating(f, pairs, Size)
  PROVE  TwoLoop(pairs, covector) = Apply(f[Len(pairs)], covector)
<1> DEFINE n == Size
           m == Len(pairs)
<1>1. n \in Nat /\ m \in Nat /\ m \in 1 .. m
  BY Layout
<1>2. PICK q, z : /\ FirstLoop(q, pairs, covector, n) /\ SecondLoop(z, q, pairs, n)
                  /\ TwoLoop(pairs, covector) = z[m]
  BY TwoLoopRuns
<1>3. /\ \A i \in 1 .. m + 1 : q[i] \in Vec(n)
      /\ q[m + 1] = covector /\ z[0] = Scaled(pairs[m].scale, Riesz(q[1]))
      /\ \A i \in 0 .. m : f[i] \in Mat(n)
  BY <1>2 DEF FirstLoop, SecondLoop, Updating
<1> DEFINE T == {i \in 0 .. m : SelfAdjointOn(f[i], Vec(n)) /\ z[i] = Apply(f[i], q[i + 1])}
<1>4. 0 \in T
  <2>1. pairs[m] \in Pairs(n) /\ q[1] \in Vec(n)
    BY <1>1, <1>3
  <2>2. pairs[m].scale \in Rationals
    BY <2>1 DEF Pairs
  <2>3. f[0] = ScaledInverse(pairs[m].scale)
    BY DEF Updating
  <2>4. SelfAdjointOn(f[0], Vec(n)) /\ Apply(f[0], q[1]) = Scaled(pairs[m].scale, Riesz(q[1]))
    BY <2>1, <2>2, <2>3, ScaledInverseIs
  <2>5. QED
    BY <1>1, <1>3, <2>4
<1>5. ASSUME NEW i \in 1 .. m, i - 1 \in T PROVE i \in T
  <2> DEFINE matrix == f[i - 1]
             w == q[i + 1]
             alpha == Quotient(Pair(w, pairs[i].s), pairs[i].curvature)
  <2>1. i - 1 \in 0 .. m /\ (i - 1) + 1 = i /\ i \in 0 .. m /\ i + 1 \in 1 .. m + 1
    BY <1>1
  <2>2. matrix \in Mat(n) /\ w \in Vec(n) /\ pairs[i] \in Pairs(n)
    BY <1>1, <1>3, <2>1
  <2>3. SelfAdjointOn(matrix, Vec(n)) /\ z[i - 1] = Apply(matrix, q[i])
    BY <1>5, <2>1
  <2>4. q[i] = AddScaled(w, Negated(alpha), pairs[i].y)
    BY <1>2 DEF FirstLoop, Alpha
  <2>5. z[i] = AddScaled(z[i - 1],
                 Difference(alpha, Quotient(Pair(pairs[i].y, z[i - 1]), pairs[i].curvature)),
                 pairs[i].s)
    BY <1>2 DEF SecondLoop, Alpha, Beta
  <2>6. f[i] = Updated(matrix, pairs[i])
    BY DEF Updating
  <2> HIDE DEF matrix, w
  <2>7. z[i] = Apply(Updated(matrix, pairs[i]), w)
    BY <1>1, <2>2, <2>3, <2>4, <2>5, SecondLoopStep
  <2>8. SelfAdjointOn(Updated(matrix, pairs[i]), Vec(n))
    BY <1>1, <2>2, <2>3, UpdatedSelfAdjoint
  <2>9. QED
    BY <2>1, <2>6, <2>7, <2>8 DEF w
<1> HIDE DEF T
<1>6. 0 .. m \subseteq T
  BY <1>1, <1>4, <1>5, IntervalInduction
<1>7. m \in T
  BY <1>1, <1>6
<1>8. QED
  BY <1>2, <1>3, <1>7 DEF T

\* A pair is the secant of two iterates that follow each other.
IsSecant(pair, entries, i) ==
  /\ pair.s = Subtracted(entries[i + 1].control, entries[i].control)
  /\ pair.y = Subtracted(entries[i + 1].derivative, entries[i].derivative)
  /\ pair.curvature = Pair(pair.y, pair.s)
  /\ pair.scale = IF policy.scaling = "scalar_secant"
                  THEN Quotient(pair.curvature, Pair(pair.y, Riesz(pair.y))) ELSE One

\* The pairs kept after so many steps.
Depth(steps) ==
  IF policy.kind = "full_bfgs" \/ steps < policy.memory THEN steps ELSE policy.memory

\* The history holds the newest secants of the iterates since the last reset.
Recorded ==
  policy.kind \in QuasiNewtonKinds =>
    /\ trail = <<>> => previous = <<>> /\ history = <<>>
    /\ trail # <<>> =>
         /\ previous # <<>>
         /\ previous[1].control = trail[Len(trail)].control
         /\ previous[1].derivative = trail[Len(trail)].derivative
         /\ Len(history) = Depth(Len(trail) - 1)
    /\ \A j \in 1 .. Len(history) : IsSecant(history[j], trail, Len(trail) - 1 - Len(history) + j)

\* The direction is the one the history of this state gives.
Looped ==
  policy.kind \in QuasiNewtonKinds /\ phase # "asking" /\ Len(trail) > 1 =>
    answer.direction = Opposite(TwoLoop(history, derivative))

\* A later iterate does not change the secants of the earlier ones.
LEMMA SecantKept ==
  ASSUME NEW pair, NEW e, Ledger, NEW i \in 1 .. Len(trail) - 1, IsSecant(pair, trail, i)
  PROVE  IsSecant(pair, Append(trail, e), i)
<1>1. trail \in Seq(Entries(Size)) /\ Len(trail) \in Nat
  BY DEF Ledger
<1>2. i \in 1 .. Len(trail) /\ i + 1 \in 1 .. Len(trail)
  BY <1>1
<1>3. Append(trail, e)[i] = trail[i] /\ Append(trail, e)[i + 1] = trail[i + 1]
  BY <1>1, <1>2
<1>4. QED
  BY <1>3 DEF IsSecant

\* The new pair is the secant from the last iterate of the trail to this one.
LEMMA NewSecant ==
  ASSUME Inv, Recorded, policy.kind \in QuasiNewtonKinds, previous # <<>>, ~SecantFails,
         NEW d
  PROVE  LET entry == [control |-> control, derivative |-> derivative, direction |-> d]
         IN  IsSecant(NewPair, Append(trail, entry), Len(trail))
<1> DEFINE entry == [control |-> control, derivative |-> derivative, direction |-> d]
           old == previous[1]
           entries == Append(trail, entry)
           m == Len(trail)
<1>1. trail \in Seq(Entries(Size)) /\ m \in Nat /\ m \in 1 .. m
  <2>1. trail \in Seq(Entries(Size)) /\ trail # <<>>
    BY DEF Inv, Ledger, Recorded
  <2>2. QED
    BY <2>1
<1>2. entries[m] = trail[m] /\ entries[m + 1] = entry
  BY <1>1
<1>3. old.control = trail[m].control /\ old.derivative = trail[m].derivative
      /\ entry.control = control /\ entry.derivative = derivative
  BY <1>1 DEF Recorded
<1> HIDE DEF entries, m, entry
<1>4. Displacement = Subtracted(entries[m + 1].control, entries[m].control)
      /\ CovectorDifference = Subtracted(entries[m + 1].derivative, entries[m].derivative)
  BY <1>2, <1>3 DEF Displacement, CovectorDifference
<1>5. Subtracted(Gradient, old.gradient) = Riesz(CovectorDifference)
  <2> DEFINE g == old.gradient
             v == old.derivative
  <2>1. PICK x \in Earlier(Size) : previous = <<x>> /\ x.gradient = Riesz(x.derivative)
    BY DEF Inv, Remembered
  <2>2. g = Riesz(v) /\ v \in Vec(Size) /\ derivative \in Vec(Size)
    BY <2>1 DEF Earlier, Inv, Shape
  <2> HIDE DEF g, v
  <2>3. Size \in Nat /\ problem.inverse \in Mat(Size)
    BY Layout DEF Inv, Shape
  <2>4. Minus1 \in Rationals
    BY ZeroIs, Neutral
  <2>5. Apply(problem.inverse, AddScaled(derivative, Minus1, v))
          = AddScaled(Apply(problem.inverse, derivative), Minus1, Apply(problem.inverse, v))
    BY <2>2, <2>3, <2>4, ApplyAddScaled
  <2>6. QED
    BY <2>2, <2>5 DEF Riesz, Gradient, Subtracted, CovectorDifference, g, v
<1>6. SecantNorm = Pair(CovectorDifference, Riesz(CovectorDifference))
  BY <1>5 DEF SecantNorm
<1>7. IsSecant(NewPair, entries, m)
  BY <1>4, <1>6 DEF IsSecant, NewPair, Curvature, InitialScale
<1>8. QED
  BY <1>7 DEF entries, m, entry

\* Both memories keep the newest secants.
Records(pairs, entries) ==
  /\ Len(pairs) = Depth(Len(entries) - 1)
  /\ \A j \in 1 .. Len(pairs) : IsSecant(pairs[j], entries, Len(entries) - 1 - Len(pairs) + j)

\* The pairs the two quasi-Newton policies go on with are the newest secants.
LEMMA MemoryRecords ==
  ASSUME Inv, Recorded, policy.kind \in QuasiNewtonKinds, previous # <<>>, ~SecantFails,
         NEW d, NEW pairs,
         \/ policy.kind = "limited_memory_bfgs" /\ pairs = Limited
         \/ policy.kind = "full_bfgs" /\ pairs = Append(history, NewPair)
  PROVE  Records(pairs, Append(trail, [control |-> control, derivative |-> derivative,
                                       direction |-> d]))
<1> DEFINE entry == [control |-> control, derivative |-> derivative, direction |-> d]
           entries == Append(trail, entry)
           m == Len(trail)
           h == Len(history)
           new == NewPair
<1>1. trail \in Seq(Entries(Size)) /\ m \in Nat /\ m # 0 /\ h \in Nat
      /\ history \in Seq(Pairs(Size)) /\ h = Depth(m - 1)
  <2>1. trail \in Seq(Entries(Size)) /\ trail # <<>> /\ history \in Seq(Pairs(Size))
        /\ h = Depth(m - 1)
    BY DEF Inv, Ledger, Recorded, Remembered
  <2>2. QED
    BY <2>1
<1>2. Len(entries) = m + 1
  BY <1>1
<1>3. IsSecant(new, entries, m) /\ new \in Pairs(Size)
  BY NewSecant, NewPairType
<1>4. policy.memory \in Nat /\ policy.memory > 0
  BY PolicyAssumption DEF Inv, Shape
<1>5. h <= m - 1
  BY <1>1, <1>4 DEF Depth
<1>6. ASSUME NEW j \in 1 .. h
      PROVE  IsSecant(history[j], entries, m - 1 - h + j)
  <2>1. IsSecant(history[j], trail, m - 1 - h + j) /\ m - 1 - h + j \in 1 .. m - 1
    BY <1>1, <1>5 DEF Recorded
  <2>2. QED
    BY <2>1, SecantKept DEF Inv
<1> HIDE DEF entries, entry, new
<1>7. CASE policy.kind = "limited_memory_bfgs" /\ h = policy.memory
  <2>1. pairs = Append(Tail(history), new)
    BY <1>7 DEF Limited, new, QuasiNewtonKinds
  <2>2. history # <<>> /\ Tail(history) \in Seq(Pairs(Size)) /\ Len(Tail(history)) = h - 1
    BY <1>1, <1>4, <1>7
  <2>3. Len(pairs) = h /\ \A j \in 1 .. h - 1 : pairs[j] = history[j + 1]
    BY <1>1, <1>3, <2>1, <2>2
  <2>4. pairs[h] = new
    BY <1>1, <1>3, <2>1, <2>2
  <2>5. Len(pairs) = Depth(m)
    BY <1>1, <1>4, <1>5, <1>7, <2>3 DEF Depth
  <2>6. ASSUME NEW j \in 1 .. h PROVE IsSecant(pairs[j], entries, m - h + j)
    <3>1. CASE j = h
      BY <1>1, <1>3, <2>4, <3>1
    <3>2. CASE j # h
      <4>1. j \in 1 .. h - 1 /\ j + 1 \in 1 .. h /\ m - 1 - h + (j + 1) = m - h + j
        BY <1>1, <3>2
      <4>2. QED
        BY <1>6, <2>3, <4>1
    <3>3. QED
      BY <3>1, <3>2
  <2>7. Len(entries) - 1 = m
    BY <1>1, <1>2
  <2>8. Records(pairs, entries)
    BY <2>3, <2>5, <2>6, <2>7 DEF Records
  <2>9. QED
    BY <2>8 DEF entries, entry
<1>8. CASE policy.kind = "full_bfgs" \/ h # policy.memory
  <2>1. pairs = Append(history, new)
    BY <1>8 DEF Limited, new, QuasiNewtonKinds
  <2>2. Len(pairs) = h + 1 /\ \A j \in 1 .. h : pairs[j] = history[j]
    BY <1>1, <1>3, <2>1
  <2>3. pairs[h + 1] = new
    BY <1>1, <1>3, <2>1
  <2>4. h = m - 1 /\ Depth(m) = m
    <3>1. CASE policy.kind = "full_bfgs"
      BY <1>1, <3>1 DEF Depth
    <3>2. CASE policy.kind # "full_bfgs"
      BY <1>1, <1>4, <1>8, <3>2 DEF Depth
    <3>3. QED
      BY <3>1, <3>2
  <2>5. ASSUME NEW j \in 1 .. h + 1 PROVE IsSecant(pairs[j], entries, m - (h + 1) + j)
    <3>1. CASE j = h + 1
      <4>1. m - (h + 1) + j = m
        BY <1>1, <2>4, <3>1
      <4>2. QED
        BY <1>3, <2>3, <3>1, <4>1
    <3>2. CASE j # h + 1
      <4>1. j \in 1 .. h /\ m - 1 - h + j = m - (h + 1) + j
        BY <1>1, <3>2
      <4>2. QED
        BY <1>6, <2>2, <4>1
    <3>3. QED
      BY <3>1, <3>2
  <2>6. Len(entries) - 1 = m
    BY <1>1, <1>2
  <2>7. Records(pairs, entries)
    BY <1>1, <2>2, <2>4, <2>5, <2>6 DEF Records
  <2>8. QED
    BY <2>7 DEF entries, entry
<1>9. QED
  BY <1>7, <1>8 DEF QuasiNewtonKinds

\* A restart leaves one iterate and no pair.
LEMMA RestartRecords ==
  ASSUME Inv, policy.kind \in QuasiNewtonKinds, Remember, UNCHANGED iterate,
         NEW entry \in Entries(Size), entry.control = control, entry.derivative = derivative,
         trail' = <<entry>>, history' = <<>>
  PROVE  Recorded' /\ Looped'
<1>1. Len(trail') = 1 /\ trail'[1] = entry /\ trail' # <<>>
  OBVIOUS
<1>2. previous'[1].control = control /\ previous'[1].derivative = derivative /\ previous' # <<>>
  BY DEF Remember
<1>3. policy' = policy /\ policy.memory \in Nat /\ policy.memory > 0
  BY PolicyAssumption DEF Inv, Shape, iterate
<1>4. Len(history') = 0 /\ Depth(Len(trail) - 1)' = 0
  BY <1>1, <1>3 DEF Depth
<1>5. Recorded'
  BY <1>1, <1>2, <1>4 DEF Recorded
<1>6. Looped'
  BY <1>1 DEF Looped
<1>7. QED
  BY <1>5, <1>6

\* What a returned direction adds to the trail.
LEMMA ReturnEntry ==
  ASSUME Inv, NEW d \in Vec(Size)
  PROVE  LET entry == [control |-> control, derivative |-> derivative, direction |-> d]
         IN  entry \in Entries(Size) /\ entry.control = control /\ entry.derivative = derivative
BY DEF Entries, Inv, Shape

\* A quasi-Newton call keeps the history beside the iterates, and its direction is the
\* one of the history it leaves.
LEMMA QuasiNewtonRecords ==
  ASSUME Inv, Recorded, policy.kind \in QuasiNewtonKinds, NEW pairs, QuasiNewton(pairs),
         \/ policy.kind = "limited_memory_bfgs" /\ pairs = Limited
         \/ policy.kind = "full_bfgs" /\ pairs = Append(history, NewPair)
  PROVE  Recorded' /\ Looped'
<1>1. Remember /\ Opposite(Gradient) \in Vec(Size)
  <2>1. Remember
    BY DEF QuasiNewton
  <2>2. Opposite(Gradient) \in Vec(Size)
    BY GradientType DEF Inv
  <2>3. QED
    BY <2>1, <2>2
<1> DEFINE steepest == [control |-> control, derivative |-> derivative,
                        direction |-> Opposite(Gradient)]
<1>2. steepest \in Entries(Size) /\ steepest.control = control /\ steepest.derivative = derivative
  BY <1>1, ReturnEntry
<1>3. ASSUME trail' = <<steepest>>, history' = <<>>, UNCHANGED iterate
      PROVE  Recorded' /\ Looped'
  <2> HIDE DEF steepest
  <2>1. QED
    BY <1>1, <1>2, <1>3, RestartRecords
<1>4. CASE previous = <<>>
  <2>1. Return(Opposite(Gradient), TRUE, 1, 1, 0) /\ history' = history
    BY <1>4 DEF QuasiNewton, FirstQuasiNewton
  <2>2. history = <<>>
    BY <1>4 DEF Recorded
  <2>3. trail' = <<steepest>> /\ UNCHANGED iterate
    BY <2>1 DEF Return
  <2>4. QED
    BY <1>3, <2>1, <2>2, <2>3
<1>5. ASSUME NEW solves, Drop(solves) PROVE Recorded' /\ Looped'
  <2>1. trail' = <<steepest>> /\ history' = <<>> /\ UNCHANGED iterate
    BY <1>5 DEF Drop, Return
  <2>2. QED
    BY <1>3, <2>1
<1>6. CASE previous # <<>> /\ SecantFails
  BY <1>5, <1>6 DEF QuasiNewton
<1>7. CASE previous # <<>> /\ ~SecantFails
  <2> DEFINE loop == TwoLoop(pairs, derivative)
             d == Opposite(loop)
             entry == [control |-> control, derivative |-> derivative, direction |-> d]
             entries == Append(trail, entry)
  <2>1. IF Positive(Negated(Pair(derivative, d)))
        THEN history' = pairs /\ Return(d, FALSE, 2, 2, 0) /\ UNCHANGED resets
        ELSE Drop(2)
    BY <1>7 DEF QuasiNewton
  <2>2. Records(pairs, entries)
    BY <1>7, MemoryRecords
  <2>3. CASE ~Positive(Negated(Pair(derivative, d)))
    BY <1>5, <2>1, <2>3
  <2>4. CASE Positive(Negated(Pair(derivative, d)))
    <3>1. /\ history' = pairs /\ trail' = entries /\ UNCHANGED iterate
          /\ answer'.direction = d
      BY <2>1, <2>4 DEF Return
    <3>2. TwoLoop(history, derivative)' = loop
      <4>1. problem' = problem /\ derivative' = derivative /\ history' = pairs
        BY <3>1 DEF iterate
      <4>2. QED
        BY <4>1 DEF TwoLoop, Riesz
    <3>3. Looped'
      BY <3>1, <3>2 DEF Looped
    <3>4. trail \in Seq(Entries(Size)) /\ Len(trail) \in Nat
      BY DEF Inv, Ledger
    <3>5. entries # <<>> /\ Len(entries) = Len(trail) + 1 /\ entries[Len(entries)] = entry
      BY <3>4
    <3>6. entry.control = control /\ entry.derivative = derivative
      OBVIOUS
    <3> HIDE DEF entries, entry, loop, d
    <3>7. previous'[1].control = control /\ previous'[1].derivative = derivative /\ previous' # <<>>
      BY <1>1 DEF Remember
    <3>8. policy' = policy /\ problem' = problem
      BY <3>1 DEF iterate
    <3>9. Len(history') = Depth(Len(trail) - 1)'
      BY <2>2, <3>1, <3>8 DEF Records, Depth
    <3>10. ASSUME NEW j \in 1 .. Len(history')
           PROVE  IsSecant(history[j], trail, Len(trail) - 1 - Len(history) + j)'
      BY <2>2, <3>1, <3>8, <3>10 DEF Records, IsSecant, Riesz
    <3>11. Recorded'
      BY <3>1, <3>5, <3>6, <3>7, <3>9, <3>10 DEF Recorded
    <3>12. QED
      BY <3>3, <3>11
  <2>5. QED
    BY <2>3, <2>4
<1>8. QED
  BY <1>4, <1>6, <1>7

\* Every step does.
LEMMA RecordedStep ==
  ASSUME Inv, Recorded, Looped, [Next]_vars
  PROVE  Recorded' /\ Looped'
<1>1. CASE LimitedMemoryBfgs
  <2>1. policy.kind = "limited_memory_bfgs" /\ QuasiNewton(Limited)
    BY <1>1 DEF LimitedMemoryBfgs, Asked
  <2>2. policy.kind \in QuasiNewtonKinds
    BY <2>1 DEF QuasiNewtonKinds
  <2>3. QED
    BY <2>1, <2>2, QuasiNewtonRecords
<1>2. CASE FullBfgs
  <2>1. policy.kind = "full_bfgs" /\ QuasiNewton(Append(history, NewPair))
    BY <1>2 DEF FullBfgs, Asked
  <2>2. policy.kind \in QuasiNewtonKinds
    BY <2>1 DEF QuasiNewtonKinds
  <2>3. QED
    BY <2>1, <2>2, QuasiNewtonRecords
<1>3. CASE Move
  <2>1. UNCHANGED <<problem, policy, previous, history, trail>> /\ phase' = "asking"
    BY <1>3 DEF Move
  <2>2. Looped'
    BY <2>1 DEF Looped
  <2>3. Recorded'
    BY <2>1 DEF Recorded, Depth, IsSecant, Riesz
  <2>4. QED
    BY <2>2, <2>3
<1>4. CASE SteepestDescent \/ ConjugateGradient \/ Newton
  <2>1. policy.kind \notin QuasiNewtonKinds
    BY <1>4 DEF SteepestDescent, ConjugateGradient, Newton, Asked, QuasiNewtonKinds
  <2>2. policy' = policy
    <3>1. CASE SteepestDescent
      BY <3>1 DEF SteepestDescent, Return, iterate
    <3>2. CASE ConjugateGradient
      BY <3>2 DEF ConjugateGradient, Keep, Throw, Return, iterate
    <3>3. CASE Newton
      BY <3>3 DEF Newton, Throw, Return, iterate
    <3>4. QED
      BY <1>4, <3>1, <3>2, <3>3
  <2>3. QED
    BY <2>1, <2>2 DEF Recorded, Looped
<1>5. CASE UNCHANGED vars
  <2>1. UNCHANGED <<problem, policy, phase, derivative, previous, history, answer, trail>>
    BY <1>5 DEF vars
  <2>2. Recorded'
    BY <2>1 DEF Recorded, Depth, IsSecant, Riesz
  <2>3. TwoLoop(history, derivative)' = TwoLoop(history, derivative)
    BY <2>1 DEF TwoLoop, Riesz
  <2>4. Looped'
    BY <2>1, <2>3 DEF Looped
  <2>5. QED
    BY <2>2, <2>4
<1>6. QED
  BY <1>1, <1>2, <1>3, <1>4, <1>5 DEF Next

\* The updates of the history's pairs are those of the secants of the iterates.
LEMMA SecantUpdate ==
  ASSUME NEW pair, NEW i, IsSecant(pair, trail, i), NEW matrix
  PROVE  Updated(matrix, pair) = Updated(matrix, Secant(i))
<1>1. pair.s = Secant(i).s /\ pair.y = Secant(i).y /\ pair.curvature = Secant(i).curvature
  BY DEF IsSecant, Secant
<1>2. QED
  BY <1>1 DEF Updated

\* The matrix built from the iterates is the one built from the history.
LEMMA InverseHessianIs ==
  ASSUME Inv, Recorded, policy.kind \in QuasiNewtonKinds, Len(trail) > 1,
         NEW f, Updating(f, history, Size)
  PROVE  history # <<>> /\ InverseHessian = f[Len(history)]
<1> DEFINE last == Len(trail) - 1
           first == IF policy.kind = "full_bfgs" \/ last < policy.memory THEN 1
                    ELSE last - policy.memory + 1
           newest == Secant(last)
           scale == IF policy.scaling = "scalar_secant"
                    THEN Quotient(newest.curvature, Pair(newest.y, Riesz(newest.y))) ELSE One
           Equation(g) ==
             g = [i \in first - 1 .. last |->
                    IF i = first - 1
                    THEN [k \in DOMAIN problem.inverse |-> Scaled(scale, problem.inverse[k])]
                    ELSE Updated(g[i - 1], Secant(i))]
           matrix == CHOOSE g : Equation(g)
           h == Len(history)
           o == last - h
           g == [i \in first - 1 .. last |-> f[i - o]]
<1>1. InverseHessian = matrix[last]
  BY DEF InverseHessian
<1>2. last \in Nat /\ last > 0 /\ policy.memory \in Nat /\ policy.memory > 0
  BY PolicyAssumption DEF Inv, Ledger, Shape
<1>3. history \in Seq(Pairs(Size)) /\ h \in Nat /\ h = Depth(last)
  BY <1>2 DEF Inv, Remembered, Recorded
<1>4. first - 1 = o /\ o \in Nat /\ h > 0
  BY <1>2, <1>3 DEF Depth, QuasiNewtonKinds
<1>5. \A j \in 1 .. h : IsSecant(history[j], trail, o + j)
  BY DEF Recorded
<1>6. \A i \in o + 1 .. last : IsSecant(history[i - o], trail, i)
  <2>1. \A i \in o + 1 .. last : i - o \in 1 .. h /\ o + (i - o) = i
    BY <1>2, <1>3, <1>4
  <2>2. QED
    BY <1>5, <2>1
<1>7. history[h].scale = scale
  <2>1. IsSecant(history[h], trail, last)
    <3>1. h \in 1 .. h /\ o + h = last
      BY <1>2, <1>3, <1>4
    <3>2. QED
      BY <1>5, <3>1
  <2>2. QED
    BY <2>1 DEF IsSecant, Secant
<1> HIDE DEF scale, newest
<1>8. Equation(g)
  <2>1. ASSUME NEW i \in first - 1 .. last
        PROVE  g[i] = IF i = first - 1
                      THEN [k \in DOMAIN problem.inverse |-> Scaled(scale, problem.inverse[k])]
                      ELSE Updated(g[i - 1], Secant(i))
    <3> HIDE DEF first, last, h
    <3>1. CASE i = first - 1
      <4>1. g[i] = f[0]
        BY <1>4, <3>1
      <4>2. QED
        BY <1>7, <3>1, <4>1 DEF Updating, ScaledInverse, h
    <3>2. CASE i # first - 1
      <4>1. i - o \in 1 .. h /\ i \in o + 1 .. last /\ i - 1 \in first - 1 .. last
            /\ (i - o) - 1 = (i - 1) - o
        BY <1>2, <1>3, <1>4, <3>2
      <4>2. g[i] = f[i - o] /\ g[i - 1] = f[(i - o) - 1]
        BY <4>1
      <4>3. f[i - o] = Updated(f[(i - o) - 1], history[i - o])
        BY <4>1 DEF Updating, h
      <4>4. Updated(f[(i - o) - 1], history[i - o]) = Updated(f[(i - o) - 1], Secant(i))
        BY <1>6, <4>1, SecantUpdate
      <4>5. QED
        BY <3>2, <4>2, <4>3, <4>4
    <3>3. QED
      BY <3>1, <3>2
  <2>2. g = [i \in first - 1 .. last |-> g[i]]
    OBVIOUS
  <2> HIDE DEF g
  <2>3. QED
    BY <2>1, <2>2
<1> HIDE DEF g
<1>9. Equation(matrix)
  BY <1>8
<1> HIDE DEF matrix
<1>10. \A k \in 0 .. h : matrix[o + k] = g[o + k]
  <2> DEFINE T == {k \in 0 .. h : matrix[o + k] = g[o + k]}
  <2> HIDE DEF first, last, h, o
  <2>1. 0 \in T
    <3>1. o + 0 = first - 1 /\ o \in first - 1 .. last
      BY <1>2, <1>3, <1>4 DEF o
    <3>2. QED
      BY <1>3, <1>8, <1>9, <3>1
  <2>2. ASSUME NEW k \in 1 .. h, k - 1 \in T PROVE k \in T
    <3>1. o + k \in first - 1 .. last /\ (o + k) - 1 = o + (k - 1) /\ o + k # first - 1
          /\ k \in 0 .. h
      BY <1>2, <1>3, <1>4 DEF o
    <3>2. matrix[o + (k - 1)] = g[o + (k - 1)]
      BY <2>2
    <3>3. matrix[o + k] = Updated(matrix[(o + k) - 1], Secant(o + k))
      BY <1>9, <3>1
    <3>4. g[o + k] = Updated(g[(o + k) - 1], Secant(o + k))
      BY <1>8, <3>1
    <3>5. QED
      BY <3>1, <3>2, <3>3, <3>4
  <2> HIDE DEF T
  <2>3. 0 .. h \subseteq T
    BY <1>3, <2>1, <2>2, IntervalInduction
  <2>4. QED
    BY <2>3 DEF T
<1>11. matrix[last] = f[h]
  <2>1. o + h = last /\ h \in 0 .. h /\ last \in first - 1 .. last /\ last - o = h
    <3> HIDE DEF first, last, h
    <3>1. QED
      BY <1>2, <1>3, <1>4
  <2>2. matrix[last] = g[last]
    BY <1>10, <2>1
  <2>3. g[last] = f[last - o]
    BY <2>1 DEF g
  <2>4. QED
    BY <2>1, <2>2, <2>3
<1>12. QED
  BY <1>1, <1>4, <1>11

\* The two facts about the history give the identity.
LEMMA LoopIsBFGS ==
  ASSUME Elliptic, Inv, Recorded, Looped
  PROVE  TwoLoopIsBFGS
<1>1. SUFFICES ASSUME policy.kind \in QuasiNewtonKinds, Len(trail) > 1, phase # "asking"
               PROVE  answer.direction = Opposite(Apply(InverseHessian, derivative))
  BY DEF TwoLoopIsBFGS
<1>2. answer.direction = Opposite(TwoLoop(history, derivative))
  BY <1>1 DEF Looped
<1>3. problem \in Problems /\ history \in Seq(Pairs(Size)) /\ derivative \in Vec(Size)
  BY DEF Inv, Shape, Remembered
<1>4. history # <<>>
  <2>1. policy.memory \in Nat /\ policy.memory > 0 /\ Len(trail) \in Nat
    BY PolicyAssumption DEF Inv, Shape, Ledger
  <2>2. Len(history) = Depth(Len(trail) - 1)
    BY <1>1, <2>1 DEF Recorded
  <2>3. Len(trail) - 1 \in Nat /\ Len(trail) - 1 > 0
    BY <1>1, <2>1
  <2>4. Len(history) > 0
    BY <2>1, <2>2, <2>3 DEF Depth
  <2>5. QED
    BY <2>4
<1>5. PICK f : Updating(f, history, Size)
  BY <1>3, <1>4, UpdatesExist
<1>6. InverseHessian = f[Len(history)]
  BY <1>1, <1>5, InverseHessianIs
<1>7. TwoLoop(history, derivative) = Apply(f[Len(history)], derivative)
  BY <1>3, <1>4, <1>5, TwoLoopIsMatrix
<1>8. QED
  BY <1>2, <1>6, <1>7

\* The matrix-free direction is that of the inverse BFGS matrix built from the
\* iterates since the last reset, for every history and every metric.
THEOREM TwoLoopIdentity ==
  ASSUME Elliptic
  PROVE  Spec => []TwoLoopIsBFGS
<1>1. Init => Recorded /\ Looped
  <2>1. SUFFICES ASSUME Init PROVE Recorded /\ Looped
    OBVIOUS
  <2>2. trail = <<>> /\ previous = <<>> /\ history = <<>> /\ phase = "asking"
    BY <2>1 DEF Init
  <2>3. QED
    BY <2>2 DEF Recorded, Looped
<1>2. Inv /\ Recorded /\ Looped /\ [Next]_vars => Recorded' /\ Looped'
  BY RecordedStep
<1>3. Inv /\ Recorded /\ Looped => TwoLoopIsBFGS
  BY LoopIsBFGS
<1>4. QED
  BY <1>1, <1>2, <1>3, Invariance, PTL DEF Spec

-----------------------------------------------------------------------------
(* Conjugate directions.                                                   *)

\* A convex quadratic under a metric: what the exact search and Newton's inner
\* iteration work on.
ConvexModel(n, inverse, hessian) ==
  /\ n \in Nat /\ inverse \in Mat(n) /\ hessian \in Mat(n)
  /\ \A matrix \in {inverse, hessian} :
       PositiveOn(matrix, Vec(n)) /\ SelfAdjointOn(matrix, Vec(n))

\* The derivative reached from an entry along its direction.
Follows(hessian, entry, x) ==
  \E length \in Rationals :
    length # Zero /\ x = AddScaled(entry.derivative, length, Apply(hessian, entry.direction))

\* The directions are conjugate, every derivative vanishes along the earlier ones, the
\* gradients lie in the span of the directions, and one entry leads to the next.
Conjugates(n, inverse, hessian, e) ==
  /\ \A i, j \in 1 .. Len(e) :
       i < j => /\ Pair(Apply(hessian, e[i].direction), e[j].direction) = Zero
                /\ Pair(e[j].derivative, e[i].direction) = Zero
  /\ \A i \in 1 .. Len(e), h \in Vec(n) :
       (\A j \in 1 .. i : Pair(h, e[j].direction) = Zero)
         => Pair(h, Apply(inverse, e[i].derivative)) = Zero
  /\ \A i \in 1 .. Len(e) - 1 : Follows(hessian, e[i], e[i + 1].derivative)

\* The derivative g was reached from the last entry and vanishes along all directions.
Reached(hessian, e, g) ==
  /\ \A i \in 1 .. Len(e) : Pair(g, e[i].direction) = Zero /\ ~IsZero(e[i].direction)
  /\ e # <<>> => Follows(hessian, e[Len(e)], g)

\* The parts of an entry and the values of the two matrices.
LEMMA EntryParts ==
  ASSUME NEW n, NEW inverse, NEW hessian, ConvexModel(n, inverse, hessian),
         NEW e \in Seq(Entries(n)), NEW i \in 1 .. Len(e)
  PROVE  /\ e[i].derivative \in Vec(n) /\ e[i].direction \in Vec(n)
         /\ Apply(hessian, e[i].direction) \in Vec(n) /\ Apply(inverse, e[i].derivative) \in Vec(n)
<1>1. e[i] \in Entries(n)
  OBVIOUS
<1>2. e[i].derivative \in Vec(n) /\ e[i].direction \in Vec(n)
  BY <1>1 DEF Entries
<1>3. QED
  BY <1>2, ApplyType DEF ConvexModel

\* A self-adjoint matrix may change sides.
LEMMA ChangeSides ==
  ASSUME NEW n \in Nat, NEW matrix \in Mat(n), SelfAdjointOn(matrix, Vec(n)),
         NEW x \in Vec(n), NEW y \in Vec(n)
  PROVE  /\ Apply(matrix, x) \in Vec(n) /\ Apply(matrix, y) \in Vec(n)
         /\ Pair(Apply(matrix, x), y) = Pair(Apply(matrix, y), x)
         /\ Pair(x, Apply(matrix, y)) = Pair(y, Apply(matrix, x))
<1>1. Apply(matrix, x) \in Vec(n) /\ Apply(matrix, y) \in Vec(n)
  BY ApplyType
<1>2. Pair(Apply(matrix, x), y) = Pair(Apply(matrix, y), x)
  BY DEF SelfAdjointOn
<1>3. Pair(x, Apply(matrix, y)) = Pair(Apply(matrix, y), x)
      /\ Pair(y, Apply(matrix, x)) = Pair(Apply(matrix, x), y)
  BY <1>1, PairSymmetric
<1>4. QED
  BY <1>1, <1>2, <1>3

\* The gradients are orthogonal.
LEMMA GradientsOrthogonal ==
  ASSUME NEW n, NEW inverse, NEW hessian, ConvexModel(n, inverse, hessian),
         NEW e \in Seq(Entries(n)), Conjugates(n, inverse, hessian, e),
         NEW g \in Vec(n), \A k \in 1 .. Len(e) : Pair(g, e[k].direction) = Zero,
         NEW i \in 1 .. Len(e)
  PROVE  /\ Pair(g, Apply(inverse, e[i].derivative)) = Zero
         /\ Pair(e[i].derivative, Apply(inverse, g)) = Zero
<1>1. \A j \in 1 .. i : Pair(g, e[j].direction) = Zero
  OBVIOUS
<1>2. Pair(g, Apply(inverse, e[i].derivative)) = Zero
  BY <1>1 DEF Conjugates
<1>3. e[i].derivative \in Vec(n)
  BY EntryParts
<1>4. Pair(e[i].derivative, Apply(inverse, g)) = Pair(g, Apply(inverse, e[i].derivative))
  BY <1>3, ChangeSides DEF ConvexModel
<1>5. QED
  BY <1>2, <1>4

\* The length of a step times the image of its direction is the change of derivative.
LEMMA StepImage ==
  ASSUME NEW n \in Nat, NEW x \in Vec(n), NEW image \in Vec(n), NEW length \in Rationals,
         NEW v \in Vec(n), Pair(x, v) = Zero
  PROVE  Pair(AddScaled(x, length, image), v) = Product(length, Pair(image, v))
<1>1. Pair(AddScaled(x, length, image), v) = Sum2(Zero, Product(length, Pair(image, v)))
  BY PairAddScaled
<1>2. Product(length, Pair(image, v)) \in Rationals
  BY PairType, FieldClosed
<1>3. QED
  BY <1>1, <1>2, Neutral

\* The new gradient is orthogonal to the images of the directions before the last.
LEMMA ImagesOrthogonal ==
  ASSUME NEW n, NEW inverse, NEW hessian, ConvexModel(n, inverse, hessian),
         NEW e \in Seq(Entries(n)), Conjugates(n, inverse, hessian, e),
         NEW g \in Vec(n), \A k \in 1 .. Len(e) : Pair(g, e[k].direction) = Zero,
         NEW i \in 1 .. Len(e) - 1
  PROVE  Pair(Apply(hessian, e[i].direction), Apply(inverse, g)) = Zero
<1>1. i \in 1 .. Len(e) /\ i + 1 \in 1 .. Len(e) /\ n \in Nat
  BY DEF ConvexModel
<1>2. PICK length \in Rationals :
        /\ length # Zero
        /\ e[i + 1].derivative = AddScaled(e[i].derivative, length, Apply(hessian, e[i].direction))
  BY DEF Conjugates, Follows
<1>3. e[i].derivative \in Vec(n) /\ Apply(hessian, e[i].direction) \in Vec(n)
  BY <1>1, EntryParts
<1>4. Apply(inverse, g) \in Vec(n)
  BY ApplyType DEF ConvexModel
<1>5. Pair(e[i].derivative, Apply(inverse, g)) = Zero
      /\ Pair(e[i + 1].derivative, Apply(inverse, g)) = Zero
  BY <1>1, GradientsOrthogonal
<1> DEFINE image == Apply(hessian, e[i].direction)
           v == Apply(inverse, g)
<1>6. Pair(e[i + 1].derivative, v) = Product(length, Pair(image, v))
  <2> HIDE DEF image, v
  <2>1. QED
    BY <1>1, <1>2, <1>3, <1>4, <1>5, StepImage DEF image, v
<1>7. Pair(image, v) \in Rationals
  BY <1>1, <1>3, <1>4, PairType
<1> HIDE DEF image, v
<1>8. Product(length, Pair(image, v)) = Zero
  BY <1>5, <1>6 DEF v
<1>9. Pair(image, v) = Zero
  BY <1>2, <1>7, <1>8, ProductSigns
<1>10. QED
  BY <1>9 DEF image, v

\* d pairs like a combination of u and w.
Combines(n, d, u, w, p, q) ==
  \A h \in Vec(n) : Pair(h, d) = Sum2(Product(p, Pair(h, u)), Product(q, Pair(h, w)))

\* A combination of the gradient with the last direction, conjugate to that one, is
\* conjugate to all of them.
LEMMA DirectionAdded ==
  ASSUME NEW n, NEW inverse, NEW hessian, ConvexModel(n, inverse, hessian),
         NEW e \in Seq(Entries(n)), Conjugates(n, inverse, hessian, e), e # <<>>,
         NEW entry \in Entries(n), Reached(hessian, e, entry.derivative),
         NEW p \in Rationals, NEW q \in Rationals, p # Zero,
         Combines(n, entry.direction, Apply(inverse, entry.derivative), e[Len(e)].direction, p, q),
         Pair(Apply(hessian, e[Len(e)].direction), entry.direction) = Zero
  PROVE  Conjugates(n, inverse, hessian, Append(e, entry))
<1> DEFINE g == entry.derivative
           d == entry.direction
           m == Len(e)
           f == Append(e, entry)
           v == Apply(inverse, g)
           last == e[m].direction
<1>1. /\ n \in Nat /\ m \in Nat /\ m > 0 /\ Len(f) = m + 1
      /\ f[m + 1] = entry /\ \A i \in 1 .. m : f[i] = e[i]
  BY DEF ConvexModel
<1>2. g \in Vec(n) /\ d \in Vec(n) /\ v \in Vec(n)
  <2>1. g \in Vec(n) /\ d \in Vec(n)
    BY DEF Entries
  <2>2. QED
    BY <2>1, ApplyType DEF ConvexModel
<1>3. m \in 1 .. m /\ last \in Vec(n) /\ \A k \in 1 .. m : Pair(g, e[k].direction) = Zero
  BY <1>1, EntryParts DEF Reached
<1>4. \A h \in Vec(n) : Pair(h, d) = Sum2(Product(p, Pair(h, v)), Product(q, Pair(h, last)))
  BY DEF Combines
<1>5. ASSUME NEW h \in Vec(n), Pair(h, last) = Zero
      PROVE  Pair(h, d) = Product(p, Pair(h, v)) /\ Pair(h, v) \in Rationals
  <2>1. Pair(h, v) \in Rationals /\ Product(p, Pair(h, v)) \in Rationals
    BY <1>1, <1>2, PairType, FieldClosed
  <2>2. Product(q, Zero) = Zero
    BY Neutral
  <2>3. QED
    BY <1>4, <1>5, <2>1, <2>2, Neutral
<1> HIDE DEF v, g, d, last, m, f
<1>6. ASSUME NEW i \in 1 .. m PROVE Pair(Apply(hessian, e[i].direction), d) = Zero
  <2>1. CASE i = m
    BY <2>1 DEF d, last, m
  <2>2. CASE i # m
    <3>1. i \in 1 .. m - 1 /\ i < m
      BY <1>1, <2>2
    <3>2. Pair(Apply(hessian, e[i].direction), v) = Zero
      BY <1>2, <1>3, <3>1, ImagesOrthogonal DEF v, m
    <3>3. Pair(Apply(hessian, e[i].direction), last) = Zero
      BY <1>3, <3>1 DEF Conjugates, last, m
    <3>4. Apply(hessian, e[i].direction) \in Vec(n)
      BY EntryParts DEF m
    <3>5. QED
      BY <1>5, <3>2, <3>3, <3>4, Neutral
  <2>3. QED
    BY <2>1, <2>2
<1>7. ASSUME NEW i \in 1 .. Len(f), NEW j \in 1 .. Len(f), i < j
      PROVE  /\ Pair(Apply(hessian, f[i].direction), f[j].direction) = Zero
             /\ Pair(f[j].derivative, f[i].direction) = Zero
  <2>1. i \in 1 .. m /\ f[i] = e[i]
    BY <1>1, <1>7
  <2>2. CASE j = m + 1
    BY <1>1, <1>3, <1>6, <2>1, <2>2 DEF g, d
  <2>3. CASE j # m + 1
    <3>1. j \in 1 .. m /\ f[j] = e[j]
      BY <1>1, <2>3
    <3>2. QED
      BY <1>7, <2>1, <3>1 DEF Conjugates, m
  <2>4. QED
    BY <2>2, <2>3
<1>8. ASSUME NEW i \in 1 .. Len(f), NEW h \in Vec(n),
             \A j \in 1 .. i : Pair(h, f[j].direction) = Zero
      PROVE  Pair(h, Apply(inverse, f[i].derivative)) = Zero
  <2>1. CASE i = m + 1
    <3>1. Pair(h, last) = Zero /\ Pair(h, d) = Zero
      BY <1>1, <1>3, <1>8, <2>1 DEF last, d
    <3>2. Product(p, Pair(h, v)) = Zero /\ Pair(h, v) \in Rationals
      BY <1>5, <3>1
    <3>3. Pair(h, v) = Zero
      BY <3>2, ProductSigns
    <3>4. QED
      BY <1>1, <2>1, <3>3 DEF v, g
  <2>2. CASE i # m + 1
    <3>1. i \in 1 .. m /\ f[i] = e[i]
      BY <1>1, <2>2
    <3>2. \A j \in 1 .. i : Pair(h, e[j].direction) = Zero
      BY <1>1, <1>8, <3>1
    <3>3. QED
      BY <3>1, <3>2 DEF Conjugates, m
  <2>3. QED
    BY <2>1, <2>2
<1>9. ASSUME NEW i \in 1 .. Len(f) - 1 PROVE Follows(hessian, f[i], f[i + 1].derivative)
  <2>1. i \in 1 .. m /\ f[i] = e[i]
    BY <1>1
  <2>2. CASE i = m
    BY <1>1, <2>1, <2>2 DEF Reached, g, m
  <2>3. CASE i # m
    <3>1. i \in 1 .. m - 1 /\ f[i + 1] = e[i + 1]
      BY <1>1, <2>1, <2>3
    <3>2. QED
      BY <2>1, <3>1 DEF Conjugates, m
  <2>4. QED
    BY <2>2, <2>3
<1>10. QED
  BY <1>7, <1>8, <1>9 DEF Conjugates, f

\* A family may start with any direction that spans the gradient.
LEMMA DirectionStarted ==
  ASSUME NEW n, NEW inverse, NEW hessian, NEW entry,
         \A h \in Vec(n) : Pair(h, entry.direction) = Zero
                             => Pair(h, Apply(inverse, entry.derivative)) = Zero
  PROVE  Conjugates(n, inverse, hessian, <<entry>>)
<1> DEFINE e == <<entry>>
<1>1. Len(e) = 1 /\ e[1] = entry
  OBVIOUS
<1> HIDE DEF e
<1>2. QED
  BY <1>1 DEF Conjugates, e

\* The exact step along the last direction leaves a derivative that vanishes along all.
LEMMA StepReaches ==
  ASSUME NEW n, NEW inverse, NEW hessian, ConvexModel(n, inverse, hessian),
         NEW e \in Seq(Entries(n)), Conjugates(n, inverse, hessian, e), e # <<>>,
         \A i \in 1 .. Len(e) : ~IsZero(e[i].direction),
         NEW length \in Rationals, length # Zero, NEW g \in Vec(n),
         g = AddScaled(e[Len(e)].derivative, length, Apply(hessian, e[Len(e)].direction)),
         Pair(g, e[Len(e)].direction) = Zero
  PROVE  Reached(hessian, e, g)
<1> DEFINE m == Len(e)
<1>1. m \in 1 .. m /\ m \in Nat /\ n \in Nat
  BY DEF ConvexModel
<1> HIDE DEF m
<1>2. ASSUME NEW i \in 1 .. m PROVE Pair(g, e[i].direction) = Zero
  <2>1. CASE i = m
    BY <2>1 DEF m
  <2>2. CASE i # m
    <3>1. i < m
      BY <1>1, <2>2
    <3>2. Pair(Apply(hessian, e[i].direction), e[m].direction) = Zero
          /\ Pair(e[m].derivative, e[i].direction) = Zero
      BY <1>1, <3>1 DEF Conjugates, m
    <3>3. /\ e[i].direction \in Vec(n) /\ e[m].direction \in Vec(n) /\ e[m].derivative \in Vec(n)
          /\ Apply(hessian, e[m].direction) \in Vec(n)
      BY <1>1, EntryParts DEF m
    <3>4. Pair(Apply(hessian, e[m].direction), e[i].direction) = Zero
      BY <3>2, <3>3, ChangeSides DEF ConvexModel
    <3>5. Pair(g, e[i].direction) = Product(length, Zero)
      BY <1>1, <3>2, <3>3, <3>4, StepImage DEF m
    <3>6. QED
      BY <3>5, Neutral
  <2>3. QED
    BY <2>1, <2>2
<1>3. Follows(hessian, e[m], g)
  BY DEF Follows, m
<1>4. QED
  BY <1>2, <1>3 DEF Reached, m

\* As many directions as coefficients end at the minimiser.
LEMMA DirectionsEnd ==
  ASSUME NEW n, NEW inverse, NEW hessian, ConvexModel(n, inverse, hessian),
         NEW e \in Seq(Entries(n)),
         \A i, j \in 1 .. Len(e) :
           i < j => Pair(Apply(hessian, e[i].direction), e[j].direction) = Zero,
         NEW g \in Vec(n),
         \A i \in 1 .. Len(e) : Pair(g, e[i].direction) = Zero /\ ~IsZero(e[i].direction),
         Len(e) >= n
  PROVE  IsZero(g)
<1>1. SUFFICES ASSUME ~IsZero(g) PROVE FALSE
  OBVIOUS
<1> DEFINE v == [i \in 1 .. n + 1 |-> IF i = n + 1 THEN Apply(inverse, g) ELSE e[i].direction]
           w == [i \in 1 .. n + 1 |-> IF i = n + 1 THEN g ELSE Apply(hessian, e[i].direction)]
<1>2. n \in Nat /\ Apply(inverse, g) \in Vec(n) /\ \A i \in 1 .. n : i \in 1 .. Len(e)
  BY ApplyType DEF ConvexModel
<1>3. ASSUME NEW i \in 1 .. n
      PROVE  /\ e[i].direction \in Vec(n) /\ Apply(hessian, e[i].direction) \in Vec(n)
             /\ ~IsZero(e[i].direction) /\ Pair(g, e[i].direction) = Zero
  BY <1>2, EntryParts
<1>4. /\ \A i \in 1 .. n : v[i] = e[i].direction /\ w[i] = Apply(hessian, e[i].direction)
      /\ v[n + 1] = Apply(inverse, g) /\ w[n + 1] = g
  BY <1>2
<1>5. v \in [1 .. n + 1 -> Vec(n)] /\ w \in [1 .. n + 1 -> Vec(n)]
  BY <1>2, <1>3
<1> HIDE DEF v, w
<1>6. ASSUME NEW i \in 1 .. n + 1 PROVE Pair(w[i], v[i]) # Zero
  <2>1. CASE i = n + 1
    <3>1. Positive(Pair(Apply(inverse, g), g))
      BY <1>1 DEF ConvexModel, PositiveOn
    <3>2. Pair(g, Apply(inverse, g)) = Pair(Apply(inverse, g), g)
          /\ Pair(g, Apply(inverse, g)) \in Rationals
      BY <1>2, PairSymmetric, PairType
    <3>3. QED
      BY <1>4, <2>1, <3>1, <3>2, Signs
  <2>2. CASE i # n + 1
    <3>1. i \in 1 .. n
      BY <1>2, <2>2
    <3>2. Positive(Pair(Apply(hessian, e[i].direction), e[i].direction))
      BY <1>3, <3>1 DEF ConvexModel, PositiveOn
    <3>3. Pair(Apply(hessian, e[i].direction), e[i].direction) \in Rationals
      BY <1>2, <1>3, <3>1, PairType
    <3>4. QED
      BY <1>4, <3>1, <3>2, <3>3, Signs
  <2>3. QED
    BY <2>1, <2>2
<1>7. ASSUME NEW i \in 1 .. n + 1, NEW j \in 1 .. i - 1 PROVE Pair(w[i], v[j]) = Zero
  <2>1. j \in 1 .. n /\ j < i
    BY <1>2
  <2>2. CASE i = n + 1
    BY <1>3, <1>4, <2>1, <2>2
  <2>3. CASE i # n + 1
    <3>1. i \in 1 .. n
      BY <1>2, <2>3
    <3>2. Pair(Apply(hessian, e[j].direction), e[i].direction) = Zero
      BY <1>2, <2>1, <3>1
    <3>3. Pair(Apply(hessian, e[i].direction), e[j].direction) = Zero
      BY <1>3, <2>1, <3>1, <3>2, ChangeSides DEF ConvexModel
    <3>4. QED
      BY <1>4, <2>1, <3>1, <3>3
  <2>4. QED
    BY <2>2, <2>3
<1>8. QED
  BY <1>2, <1>5, <1>6, <1>7, Independence

-----------------------------------------------------------------------------
(* The exact search on a quadratic.                                        *)

\* Iterate and derivative follow from an entry by one step along its direction.
Along(hessian, entry, x, g) ==
  \E length \in Rationals :
    /\ length # Zero
    /\ x = AddScaled(entry.control, length, entry.direction)
    /\ g = AddScaled(entry.derivative, length, Apply(hessian, entry.direction))

Quadratic == problem.quadratic /\ policy.kind # "newton"

\* The trail is a family of conjugate directions that leads to the iterate.
Searching ==
  Quadratic =>
    /\ \A hessian \in problem.hessians :
         /\ Conjugates(Size, problem.inverse, hessian, trail)
         /\ \A i \in 1 .. Len(trail) - 1 :
              Along(hessian, trail[i], trail[i + 1].control, trail[i + 1].derivative)
         /\ phase = "asking" =>
              /\ Reached(hessian, trail, derivative)
              /\ trail # <<>> => Along(hessian, trail[Len(trail)], control, derivative)
    /\ phase = "asking" /\ trail # <<>> => problem.hessians # {}
    /\ phase = "moving" =>
         /\ trail # <<>>
         /\ trail[Len(trail)] = [control |-> control, derivative |-> derivative,
                                 direction |-> answer.direction]
         /\ \A i \in 1 .. Len(trail) : ~IsZero(trail[i].direction)

\* The Hessian of a quadratic and its metric.
LEMMA QuadraticIsConvex ==
  ASSUME Elliptic, OneHessian, Inv, problem.quadratic, NEW hessian \in problem.hessians
  PROVE  /\ ConvexModel(Size, problem.inverse, hessian)
         /\ \A other \in problem.hessians : other = hessian
<1>1. problem \in Problems
  BY DEF Inv, Shape
<1>2. Size \in Nat /\ problem.inverse \in Mat(Size) /\ hessian \in Mat(Size)
  BY <1>1, Layout
<1>3. EllipticOn(problem, Vec(Size)) /\ OneHessianOn(problem, Vec(Size))
  BY <1>1 DEF Elliptic, OneHessian, Size
<1>4. QED
  BY <1>2, <1>3 DEF EllipticOn, OneHessianOn, ConvexModel

\* A vector along which a derivative does not vanish is not zero.
LEMMA SlopeMoves ==
  ASSUME NEW n \in Nat, NEW x \in Vec(n), NEW d \in Vec(n), Positive(Negated(Pair(x, d)))
  PROVE  ~IsZero(d)
<1>1. SUFFICES ASSUME IsZero(d) PROVE FALSE
  OBVIOUS
<1>2. Pair(d, x) = Zero /\ Pair(x, d) = Pair(d, x)
  BY <1>1, PairZero, PairSymmetric
<1>3. QED
  BY <1>2, Signs, ZeroIs

\* The new direction of a search that goes on with its history.
GoesOn(d) ==
  /\ trail # <<>>
  /\ \A hessian \in problem.hessians :
       /\ Pair(Apply(hessian, trail[Len(trail)].direction), d) = Zero
       /\ \E p, q \in Rationals :
            p # Zero /\ Combines(Size, d, Gradient, trail[Len(trail)].direction, p, q)

\* A call that restarts with the gradient or goes on with the history keeps the trail
\* a family of conjugate directions.
LEMMA ReturnSearches ==
  ASSUME Elliptic, OneHessian, Inv, Searching, Quadratic, phase = "asking", calls < Calls,
         NEW d \in Vec(Size), NEW restarted, NEW solves \in Nat, NEW reports \in 0 .. solves,
         NEW actions, Return(d, restarted, solves, reports, actions),
         IF restarted THEN d = Opposite(Gradient) ELSE GoesOn(d)
  PROVE  Searching'
<1> DEFINE entry == [control |-> control, derivative |-> derivative, direction |-> d]
<1>1. /\ problem' = problem /\ policy' = policy /\ control' = control /\ derivative' = derivative
      /\ Size' = Size /\ phase' # "asking" /\ answer'.direction = d
      /\ phase' = "moving" => Positive(Negated(Pair(derivative, d)))
  BY DEF Return, iterate, LoopHead, Size
<1>2. trail' = IF restarted THEN <<entry>> ELSE Append(trail, entry)
  BY DEF Return
<1>3. entry \in Entries(Size) /\ entry.control = control /\ entry.derivative = derivative
      /\ entry.direction = d /\ entry = [control |-> control', derivative |-> derivative',
                                         direction |-> answer'.direction]
  BY <1>1 DEF Entries, Inv, Shape
<1> HIDE DEF entry
<1>4. trail \in Seq(Entries(Size)) /\ Size \in Nat /\ derivative \in Vec(Size)
      /\ Gradient \in Vec(Size) /\ Gradient = Apply(problem.inverse, derivative)
  BY GradientType DEF Inv, Ledger, Gradient, Riesz
<1>5. /\ Len(trail) \in Nat /\ Len(trail') \in Nat /\ Len(trail') > 0 /\ trail' # <<>>
      /\ trail'[Len(trail')] = entry
      /\ restarted => Len(trail') = 1
      /\ ~restarted => /\ Len(trail') = Len(trail) + 1
                       /\ \A i \in 1 .. Len(trail) : trail'[i] = trail[i]
  BY <1>2, <1>3, <1>4
<1>6. ASSUME NEW hessian \in problem.hessians
      PROVE  Conjugates(Size, problem.inverse, hessian, trail')
  <2>1. ConvexModel(Size, problem.inverse, hessian)
    BY <1>6, QuadraticIsConvex DEF Quadratic
  <2>2. Conjugates(Size, problem.inverse, hessian, trail) /\ Reached(hessian, trail, derivative)
    BY <1>6 DEF Searching
  <2>3. CASE restarted
    <3>1. ASSUME NEW h \in Vec(Size), Pair(h, entry.direction) = Zero
          PROVE  Pair(h, Apply(problem.inverse, entry.derivative)) = Zero
      <4>1. Pair(h, Opposite(Gradient)) = Negated(Pair(h, Gradient)) /\ Pair(h, Gradient) \in Rationals
        BY <1>4, PairOpposite, PairType
      <4>2. Pair(h, Gradient) = Zero
        BY <1>3, <2>3, <3>1, <4>1, Signs
      <4>3. QED
        BY <1>3, <1>4, <4>2
    <3>2. QED
      BY <1>2, <2>3, <3>1, DirectionStarted
  <2>4. CASE ~restarted
    <3>1. trail # <<>> /\ Pair(Apply(hessian, trail[Len(trail)].direction), d) = Zero
      BY <2>4 DEF GoesOn
    <3>2. PICK p \in Rationals, q \in Rationals :
            p # Zero /\ Combines(Size, d, Gradient, trail[Len(trail)].direction, p, q)
      BY <2>4 DEF GoesOn
    <3>3. Conjugates(Size, problem.inverse, hessian, Append(trail, entry))
      BY <1>3, <1>4, <2>1, <2>2, <3>1, <3>2, DirectionAdded
    <3>4. QED
      BY <1>2, <2>4, <3>3
  <2>5. QED
    BY <2>3, <2>4
<1>7. ASSUME NEW hessian \in problem.hessians, NEW i \in 1 .. Len(trail') - 1
      PROVE  Along(hessian, trail'[i], trail'[i + 1].control, trail'[i + 1].derivative)
  <2>1. ~restarted /\ i \in 1 .. Len(trail) /\ trail'[i] = trail[i]
    BY <1>5
  <2>2. CASE i = Len(trail)
    <3>1. trail # <<>> /\ trail'[i + 1] = entry
      BY <1>4, <1>5, <2>1, <2>2
    <3>2. Along(hessian, trail[i], control, derivative)
      BY <1>7, <2>2, <3>1 DEF Searching
    <3>3. QED
      BY <1>3, <2>1, <3>1, <3>2
  <2>3. CASE i # Len(trail)
    <3>1. i \in 1 .. Len(trail) - 1 /\ trail'[i + 1] = trail[i + 1]
      BY <1>5, <2>1, <2>3
    <3>2. QED
      BY <1>7, <2>1, <3>1 DEF Searching
  <2>4. QED
    BY <2>2, <2>3
<1>8. ASSUME phase' = "moving", NEW i \in 1 .. Len(trail') PROVE ~IsZero(trail'[i].direction)
  <2>1. CASE i = Len(trail')
    <3>1. ~IsZero(d)
      BY <1>1, <1>4, <1>8, SlopeMoves
    <3>2. QED
      BY <1>3, <1>5, <2>1, <3>1
  <2>2. CASE i # Len(trail')
    <3>1. i \in 1 .. Len(trail) /\ trail'[i] = trail[i] /\ trail # <<>>
      BY <1>4, <1>5, <2>2
    <3>2. PICK hessian \in problem.hessians : TRUE
      BY <3>1 DEF Searching
    <3>3. Reached(hessian, trail, derivative)
      BY DEF Searching
    <3>4. QED
      BY <3>1, <3>3 DEF Reached
  <2>3. QED
    BY <2>1, <2>2
<1>9. Quadratic' /\ ~(phase' = "asking")
  BY <1>1 DEF Quadratic
<1>10. trail'[Len(trail')] = [control |-> control', derivative |-> derivative',
                              direction |-> answer'.direction]
  BY <1>3, <1>5
<1>11. \A hessian \in problem'.hessians :
         /\ Conjugates(Size', problem'.inverse, hessian, trail')
         /\ \A i \in 1 .. Len(trail') - 1 :
              Along(hessian, trail'[i], trail'[i + 1].control, trail'[i + 1].derivative)
  BY <1>1, <1>6, <1>7
<1>12. QED
  BY <1>5, <1>8, <1>9, <1>10, <1>11 DEF Searching

\* The exact step takes a length that is not zero.
LEMMA ExactLength ==
  ASSUME Elliptic, Inv, phase = "moving", ExactStep
  PROVE  \E hessian \in problem.hessians, length \in Rationals :
           /\ length # Zero
           /\ control' = AddScaled(control, length, answer.direction)
           /\ derivative' = AddScaled(derivative, length, Apply(hessian, answer.direction))
<1> DEFINE d == answer.direction
           slope == answer.slope
<1>1. /\ Size \in Nat /\ derivative \in Vec(Size) /\ d \in Vec(Size) /\ slope = Pair(derivative, d)
      /\ Positive(Negated(slope)) /\ ~IsZero(d) /\ problem \in Problems /\ problem.quadratic
  BY GradientType, DescentMoves DEF Inv, Answered, ExactStep
<1>2. PICK hessian \in problem.hessians :
        /\ control' = AddScaled(control, Quotient(Negated(slope), Pair(Apply(hessian, d), d)), d)
        /\ derivative' = AddScaled(derivative, Quotient(Negated(slope), Pair(Apply(hessian, d), d)),
                                   Apply(hessian, d))
  BY DEF ExactStep
<1> DEFINE curvature == Pair(Apply(hessian, d), d)
<1>3. hessian \in Mat(Size) /\ PositiveOn(hessian, Vec(Size))
  BY <1>1, Layout DEF Elliptic, EllipticOn, Size
<1>4. Apply(hessian, d) \in Vec(Size) /\ Positive(curvature)
  BY <1>1, <1>3, ApplyType DEF PositiveOn
<1>5. curvature \in Rationals /\ slope \in Rationals /\ Negated(slope) \in Rationals
  BY <1>1, <1>4, PairType, Closed
<1> HIDE DEF curvature
<1>6. Quotient(Negated(slope), curvature) \in Rationals /\ Quotient(Negated(slope), curvature) # Zero
  BY <1>1, <1>4, <1>5, QuotientSigns, Signs
<1>7. QED
  BY <1>2, <1>6 DEF curvature

\* The line search keeps the family and reaches the next derivative.
LEMMA MoveSearches ==
  ASSUME Elliptic, OneHessian, Inv, Searching, Quadratic, Move
  PROVE  Searching'
<1>1. /\ phase = "moving" /\ phase' = "asking" /\ ExactStep
      /\ UNCHANGED <<problem, policy, trail, Size>>
  BY DEF Move, Quadratic, InexactStep, Size
<1>2. PICK hessian \in problem.hessians, length \in Rationals :
        /\ length # Zero
        /\ control' = AddScaled(control, length, answer.direction)
        /\ derivative' = AddScaled(derivative, length, Apply(hessian, answer.direction))
  BY <1>1, ExactLength
<1>3. ConvexModel(Size, problem.inverse, hessian) /\ \A other \in problem.hessians : other = hessian
  BY QuadraticIsConvex DEF Quadratic
<1> DEFINE last == trail[Len(trail)]
<1>4. /\ trail # <<>> /\ \A i \in 1 .. Len(trail) : ~IsZero(trail[i].direction)
      /\ last = [control |-> control, derivative |-> derivative, direction |-> answer.direction]
  BY <1>1 DEF Searching
<1>5. last.control = control /\ last.derivative = derivative /\ last.direction = answer.direction
  BY <1>4
<1>6. derivative' \in Vec(Size) /\ Pair(derivative', last.direction) = Zero
  BY <1>1, <1>5, ExactStepResult
<1>7. trail \in Seq(Entries(Size)) /\ Conjugates(Size, problem.inverse, hessian, trail)
  BY DEF Searching, Inv, Ledger
<1>8. Along(hessian, last, control', derivative')
  BY <1>2, <1>5 DEF Along
<1>9. Reached(hessian, trail, derivative')
  BY <1>2, <1>3, <1>4, <1>5, <1>6, <1>7, StepReaches
<1>10. QED
  BY <1>1, <1>3, <1>7, <1>8, <1>9 DEF Searching

-----------------------------------------------------------------------------
(* The conjugate gradient recurrences on a quadratic.                      *)

\* The remembered record is the last entry of the trail, and its derivative falls
\* along its direction as fast as along the gradient.
Matching ==
  policy.kind = "nonlinear_cg" =>
    /\ previous = <<>> <=> trail = <<>>
    /\ previous # <<>> =>
         /\ previous[1].derivative = trail[Len(trail)].derivative
         /\ previous[1].direction = trail[Len(trail)].direction
         /\ problem.quadratic => Pair(previous[1].derivative, previous[1].direction)
                                   = Negated(Denominator(previous[1]))

\* A step that leaves the slope along d unchanged is along a conjugate direction.
LEMMA SameSlope ==
  ASSUME NEW n \in Nat, NEW x \in Vec(n), NEW image \in Vec(n), NEW d \in Vec(n),
         NEW length \in Rationals, length # Zero,
         Pair(AddScaled(x, length, image), d) = Pair(x, d)
  PROVE  Pair(image, d) = Zero
<1> DEFINE a == Pair(x, d)
           c == Pair(image, d)
           b == Product(length, c)
<1>1. a \in Rationals /\ c \in Rationals /\ b \in Rationals
  BY PairType, FieldClosed
<1>2. Sum2(a, b) = a
  BY PairAddScaled
<1> HIDE DEF a, b, c
<1>3. /\ Negated(a) \in Rationals /\ Sum2(a, Negated(a)) = Zero
      /\ Sum2(Negated(a), a) = Zero /\ Sum2(Zero, b) = b
  BY <1>1, Neutral, SumCommutes, Closed
<1>4. Sum2(Negated(a), Sum2(a, b)) = Sum2(Sum2(Negated(a), a), b)
  BY <1>1, <1>3, SumAssociates
<1>5. b = Zero
  BY <1>2, <1>3, <1>4
<1>6. c = Zero
  BY <1>1, <1>5, ProductSigns DEF b
<1>7. QED
  BY <1>6 DEF c

\* After an exact search every update has the squared norm of the gradient on top.
LEMMA NumeratorIs ==
  ASSUME Elliptic, OneHessian, Inv, Searching, Matching, phase = "asking",
         policy.kind = "nonlinear_cg", problem.quadratic, previous # <<>>
  PROVE  /\ Pair(previous[1].derivative, Gradient) = Zero
         /\ Numerator(previous[1]) = Pair(derivative, Gradient)
<1>1. Quadratic /\ trail # <<>>
  BY DEF Quadratic, Matching
<1>2. PICK hessian \in problem.hessians : TRUE
  BY <1>1 DEF Searching
<1>3. Conjugates(Size, problem.inverse, hessian, trail) /\ Reached(hessian, trail, derivative)
  BY <1>1 DEF Searching
<1>4. ConvexModel(Size, problem.inverse, hessian)
  BY QuadraticIsConvex
<1>5. Size \in Nat /\ derivative \in Vec(Size) /\ Gradient \in Vec(Size)
      /\ Gradient = Apply(problem.inverse, derivative) /\ trail \in Seq(Entries(Size))
  BY GradientType DEF Inv, Ledger, Gradient, Riesz
<1>6. Len(trail) \in 1 .. Len(trail)
  BY <1>1, <1>5
<1>7. Pair(trail[Len(trail)].derivative, Gradient) = Zero
  BY <1>3, <1>4, <1>5, <1>6, GradientsOrthogonal DEF Reached
<1>8. Pair(previous[1].derivative, Gradient) = Zero
  BY <1>7 DEF Matching
<1>9. Pair(derivative, Gradient) \in Rationals /\ Negated(Zero) = Zero
  BY <1>5, PairType, Signs, ZeroIs
<1>10. Difference(Pair(derivative, Gradient), Zero) = Pair(derivative, Gradient)
  BY <1>9, Neutral DEF Difference
<1>11. QED
  BY <1>8, <1>10 DEF Numerator

\* The recurrence goes on along a conjugate direction.
LEMMA ConjugateGoesOn ==
  ASSUME Elliptic, OneHessian, Inv, Searching, Matching, phase = "asking",
         policy.kind = "nonlinear_cg", problem.quadratic, ~Refreshes, ~Rejects(previous[1])
  PROVE  GoesOn(Conjugate(previous[1]))
<1> DEFINE old == previous[1]
           beta == Quotient(Numerator(old), Denominator(old))
           d == Conjugate(old)
           last == trail[Len(trail)]
           down == Opposite(Gradient)
<1>1. Quadratic /\ trail # <<>> /\ previous # <<>> /\ ~TooFlat(Denominator(old))
  BY DEF Quadratic, Matching, Refreshes, Restarts, Rejects
<1>2. Size \in Nat /\ derivative \in Vec(Size) /\ Gradient \in Vec(Size) /\ down \in Vec(Size)
      /\ old.derivative \in Vec(Size) /\ old.direction \in Vec(Size)
      /\ beta \in Rationals /\ d \in Vec(Size)
  BY <1>1, GradientType, RememberedParts, ConjugateType DEF Inv, Orthogonal
<1>3. last.derivative = old.derivative /\ last.direction = old.direction
      /\ Pair(old.derivative, old.direction) = Negated(Denominator(old))
      /\ Pair(derivative, old.direction) = Zero
  BY <1>1 DEF Matching, Inv, Orthogonal
<1>4. Numerator(old) \in Rationals /\ Denominator(old) \in Rationals /\ Denominator(old) # Zero
  BY <1>1, NumeratorType, Flatness, Signs
<1>5. Pair(old.derivative, Gradient) = Zero /\ Numerator(old) = Pair(derivative, Gradient)
  BY <1>1, NumeratorIs
<1>6. Product(beta, Denominator(old)) = Numerator(old)
  BY <1>4, QuotientProduct
<1>7. d = AddScaled(down, beta, old.direction)
  BY DEF Conjugate
<1> HIDE DEF d, beta, old, last
<1>8. ASSUME NEW h \in Vec(Size)
      PROVE  Pair(h, d) = Sum2(Negated(Pair(h, Gradient)), Product(beta, Pair(h, old.direction)))
  BY <1>2, <1>7, PairAddScaledRight, PairOpposite
<1>9. Pair(derivative, d) = Pair(old.derivative, d)
  <2> DEFINE norm == Pair(derivative, Gradient)
  <2>1. norm \in Rationals /\ Negated(norm) \in Rationals /\ Product(beta, Zero) = Zero
        /\ Negated(Zero) = Zero
    BY <1>2, PairType, Closed, Neutral, Signs
  <2>2. Pair(derivative, d) = Negated(norm)
    BY <1>2, <1>3, <1>8, <2>1, Neutral
  <2>3. Product(beta, Negated(Denominator(old))) = Negated(norm)
    BY <1>2, <1>4, <1>5, <1>6, NegatedProduct
  <2>4. Pair(old.derivative, d) = Sum2(Negated(Zero), Negated(norm))
    BY <1>2, <1>3, <1>5, <1>8, <2>3
  <2>5. QED
    BY <2>1, <2>2, <2>4, Neutral
<1>10. ASSUME NEW hessian \in problem.hessians
       PROVE  Pair(Apply(hessian, last.direction), d) = Zero
  <2>1. PICK length \in Rationals :
          length # Zero /\ derivative = AddScaled(last.derivative, length, Apply(hessian, last.direction))
    BY <1>1 DEF Searching, Along, last
  <2>2. Apply(hessian, last.direction) \in Vec(Size)
    BY <1>2, <1>3, QuadraticIsConvex, ApplyType DEF ConvexModel
  <2>3. QED
    BY <1>2, <1>3, <1>9, <2>1, <2>2, SameSlope
<1>11. Combines(Size, d, Gradient, last.direction, Minus1, beta)
  <2>1. ASSUME NEW h \in Vec(Size)
        PROVE  Pair(h, d) = Sum2(Product(Minus1, Pair(h, Gradient)), Product(beta, Pair(h, last.direction)))
    <3>1. Product(Minus1, Pair(h, Gradient)) = Negated(Pair(h, Gradient))
      BY <1>2, PairType, Neutral
    <3>2. QED
      BY <1>3, <1>8, <3>1
  <2>2. QED
    BY <2>1 DEF Combines
<1>12. Minus1 \in Rationals /\ Minus1 # Zero
  <2>1. Minus1 \in Rationals
    BY Neutral, ZeroIs
  <2>2. Product(Minus1, One) = Negated(One) /\ Product(Zero, One) = Zero /\ Negated(One) # Zero
    BY OneIs, Neutral, Signs DEF One, Zero
  <2>3. QED
    BY <2>1, <2>2
<1>13. \E p, q \in Rationals : p # Zero /\ Combines(Size, d, Gradient, last.direction, p, q)
  <2>1. beta \in Rationals
    BY <1>2
  <2>2. QED
    BY <1>11, <1>12, <2>1, Zenon
<1>14. GoesOn(d)
  BY <1>1, <1>10, <1>13 DEF GoesOn, last
<1>15. QED
  BY <1>14 DEF d, old

\* What a call that returns remembers is the last entry of the trail.
LEMMA KeptMatches ==
  ASSUME Inv, Matching, phase = "asking", policy.kind = "nonlinear_cg",
         NEW d \in Vec(Size), NEW restarted, Keep(d, restarted),
         problem.quadratic => Pair(derivative, d) = Negated(Pair(derivative, Gradient))
  PROVE  Matching'
<1> DEFINE entry == [control |-> control, derivative |-> derivative, direction |-> d]
           old == [control |-> control, derivative |-> derivative,
                   gradient |-> Gradient, direction |-> d]
<1>1. /\ previous' = <<old>> /\ trail' = IF restarted THEN <<entry>> ELSE Append(trail, entry)
      /\ UNCHANGED <<problem, policy>>
  BY DEF Keep, Return, iterate
<1>2. entry.derivative = derivative /\ entry.direction = d
      /\ old.derivative = derivative /\ old.direction = d /\ old.gradient = Gradient
  OBVIOUS
<1> HIDE DEF entry, old
<1>3. trail \in Seq(Entries(Size)) /\ entry \in Entries(Size)
  BY GradientType DEF Inv, Ledger, Entries, entry
<1>4. trail' # <<>> /\ trail'[Len(trail')] = entry /\ previous' # <<>> /\ previous'[1] = old
  BY <1>1, <1>3
<1>5. Denominator(old) = Pair(derivative, Gradient)
  BY <1>2 DEF Denominator
<1>6. Denominator(previous'[1]) = Denominator(old)
  BY <1>4
<1>7. QED
  BY <1>1, <1>2, <1>4, <1>5, <1>6 DEF Matching, Denominator

\* The slope along a conjugate direction is that along the gradient.
LEMMA ConjugateSlope ==
  ASSUME Inv, phase = "asking", policy.kind = "nonlinear_cg", problem.quadratic,
         ~Refreshes, ~Rejects(previous[1])
  PROVE  Pair(derivative, Conjugate(previous[1])) = Negated(Pair(derivative, Gradient))
<1> DEFINE direction == previous[1].direction
           beta == Quotient(Numerator(previous[1]), Denominator(previous[1]))
           down == Opposite(Gradient)
<1>1. direction \in Vec(Size) /\ Pair(derivative, direction) = Zero
  BY DEF Inv, Orthogonal, Refreshes
<1>2. Size \in Nat /\ down \in Vec(Size) /\ derivative \in Vec(Size) /\ beta \in Rationals
      /\ Gradient \in Vec(Size)
  BY GradientType, ConjugateType DEF Inv
<1>3. Conjugate(previous[1]) = AddScaled(down, beta, direction)
  BY DEF Conjugate
<1> HIDE DEF direction, beta
<1>4. Pair(derivative, AddScaled(down, beta, direction))
        = Sum2(Pair(derivative, down), Product(beta, Pair(derivative, direction)))
  BY <1>1, <1>2, PairAddScaledRight
<1>5. Pair(derivative, down) \in Rationals /\ Product(beta, Zero) = Zero
      /\ Pair(derivative, down) = Negated(Pair(derivative, Gradient))
  BY <1>2, PairType, Neutral, PairOpposite
<1>6. QED
  BY <1>1, <1>3, <1>4, <1>5, Neutral

\* A call of the nonlinear conjugate gradient policy keeps the family and the record.
LEMMA ConjugateGradientSearches ==
  ASSUME Elliptic, OneHessian, Inv, Searching, Matching, ConjugateGradient
  PROVE  Searching' /\ Matching'
<1>1. phase = "asking" /\ calls < Calls /\ policy.kind = "nonlinear_cg"
  BY DEF ConjugateGradient, Asked
<1>2. Opposite(Gradient) \in Vec(Size) /\ Size \in Nat /\ derivative \in Vec(Size)
      /\ Gradient \in Vec(Size)
  BY GradientType DEF Inv
<1>3. Pair(derivative, Opposite(Gradient)) = Negated(Pair(derivative, Gradient))
  BY <1>2, PairOpposite
<1>4. ASSUME Throw(1) PROVE Searching' /\ Matching'
  <2>1. phase' = "contract_error" /\ UNCHANGED <<problem, policy, trail, previous, Size>>
    BY <1>4 DEF Throw, iterate, Size
  <2>2. Searching'
    BY <1>1, <2>1 DEF Searching, Quadratic
  <2>3. Matching'
    BY <2>1 DEF Matching, Denominator
  <2>4. QED
    BY <2>2, <2>3
<1>5. ASSUME NEW d \in Vec(Size), NEW restarted, Keep(d, restarted),
             IF restarted THEN d = Opposite(Gradient) ELSE problem.quadratic => GoesOn(d),
             problem.quadratic => Pair(derivative, d) = Negated(Pair(derivative, Gradient))
      PROVE  Searching' /\ Matching'
  <2>1. Return(d, restarted, 1, 1, 0) /\ 1 \in Nat /\ 1 \in 0 .. 1
    BY <1>5 DEF Keep
  <2>2. Matching'
    BY <1>1, <1>5, KeptMatches
  <2>3. CASE Quadratic
    BY <1>1, <1>5, <2>1, <2>2, <2>3, ReturnSearches DEF Quadratic
  <2>4. CASE ~Quadratic
    <3>1. UNCHANGED <<problem, policy>>
      BY <2>1 DEF Return, iterate
    <3>2. QED
      BY <2>2, <2>4, <3>1 DEF Searching, Quadratic
  <2>5. QED
    BY <2>3, <2>4
<1>6. CASE ~Refreshes /\ Rejects(previous[1])
  BY <1>4, <1>6 DEF ConjugateGradient
<1>7. CASE ~(~Refreshes /\ Rejects(previous[1]))
  <2>1. Proposed \in Vec(Size)
    BY <1>1, <1>2, <1>7, ConjugateType DEF Proposed
  <2>2. IF Refreshes THEN Proposed = Opposite(Gradient) ELSE problem.quadratic => GoesOn(Proposed)
    BY <1>1, <1>7, ConjugateGoesOn DEF Proposed
  <2>3. problem.quadratic => Pair(derivative, Proposed) = Negated(Pair(derivative, Gradient))
    BY <1>1, <1>3, <1>7, ConjugateSlope DEF Proposed
  <2>4. CASE Keep(Proposed, Refreshes)
    BY <1>5, <2>1, <2>2, <2>3, <2>4
  <2>5. CASE Keep(Opposite(Gradient), TRUE)
    BY <1>2, <1>3, <1>5, <2>5
  <2>6. QED
    BY <1>4, <1>7, <2>4, <2>5 DEF ConjugateGradient
<1>8. QED
  BY <1>6, <1>7

-----------------------------------------------------------------------------
(* The quasi-Newton directions on a quadratic.                             *)

\* The change over a step is the step times what it went along.
LEMMA ChangeOverStep ==
  ASSUME NEW n \in Nat, NEW x \in Vec(n), NEW d \in Vec(n), NEW h \in Vec(n),
         NEW length \in Rationals
  PROVE  /\ Pair(Subtracted(AddScaled(x, length, d), x), h) = Product(length, Pair(d, h))
         /\ Pair(h, Subtracted(AddScaled(x, length, d), x)) = Product(length, Pair(h, d))
<1> DEFINE a == Pair(x, h)
           b == Product(length, Pair(d, h))
           y == AddScaled(x, length, d)
           c == Subtracted(y, x)
<1>1. a \in Rationals /\ b \in Rationals /\ Pair(d, h) = Pair(h, d)
  BY PairType, FieldClosed, PairSymmetric
<1>2. y \in Vec(n) /\ Pair(y, h) = Sum2(a, b)
  <2>1. y \in Vec(n)
    BY CombinationTypes
  <2>2. Pair(y, h) = Sum2(a, b)
    BY PairAddScaled
  <2>3. QED
    BY <2>1, <2>2
<1> HIDE DEF y
<1>3. c \in Vec(n) /\ Pair(c, h) = Difference(Pair(y, h), a) /\ Pair(c, h) = Pair(h, c)
  BY <1>2, PairSubtracted, SubtractedType, PairSymmetric
<1> HIDE DEF a, b, c
<1>4. Negated(a) \in Rationals /\ Sum2(a, b) = Sum2(b, a) /\ Sum2(a, Negated(a)) = Zero
      /\ Sum2(b, Zero) = b
  BY <1>1, Closed, SumCommutes, Neutral
<1>5. Sum2(Sum2(b, a), Negated(a)) = Sum2(b, Sum2(a, Negated(a)))
  BY <1>1, <1>4, SumAssociates
<1>6. Difference(Sum2(a, b), a) = b
  BY <1>4, <1>5 DEF Difference
<1>7. Pair(c, h) = b /\ Pair(h, c) = b
  BY <1>2, <1>3, <1>6
<1>8. QED
  BY <1>1, <1>7 DEF b, c, y

\* Zero divided by a number that is not zero.
LEMMA ZeroQuotient ==
  ASSUME NEW q \in Rationals, q # Zero
  PROVE  Quotient(Zero, q) = Zero
<1>1. Quotient(Zero, q) \in Rationals /\ Product(Quotient(Zero, q), q) = Zero
  BY ZeroIs, Closed, QuotientProduct
<1>2. QED
  BY <1>1, ProductSigns

\* The pairs are those of steps along the newest directions of the trail.
StepsAlong(hessian, pairs) ==
  /\ Len(pairs) \in 1 .. Len(trail)
  /\ \A j \in 1 .. Len(pairs) : \E length \in Rationals :
       /\ length # Zero
       /\ \A h \in Vec(Size) :
            /\ Pair(pairs[j].y, h)
                 = Product(length, Pair(Apply(hessian, trail[Len(trail) - Len(pairs) + j].direction), h))
            /\ Pair(h, pairs[j].s)
                 = Product(length, Pair(h, trail[Len(trail) - Len(pairs) + j].direction))

\* The newest secants of a quadratic are steps along the directions.
LEMMA SecantsAlong ==
  ASSUME Elliptic, OneHessian, Inv, Searching, Quadratic, phase = "asking", trail # <<>>,
         NEW hessian \in problem.hessians, NEW pairs, pairs # <<>>, pairs \in Seq(Pairs(Size)),
         NEW d, Records(pairs, Append(trail, [control |-> control, derivative |-> derivative,
                                              direction |-> d]))
  PROVE  StepsAlong(hessian, pairs)
<1> DEFINE entry == [control |-> control, derivative |-> derivative, direction |-> d]
           entries == Append(trail, entry)
           m == Len(trail)
           k == Len(pairs)
<1>1. trail \in Seq(Entries(Size)) /\ m \in Nat /\ m > 0 /\ k \in Nat /\ k > 0 /\ Size \in Nat
  BY GradientType DEF Inv, Ledger
<1>2. entry.control = control /\ entry.derivative = derivative
  OBVIOUS
<1> HIDE DEF entry
<1>3. Len(entries) = m + 1 /\ entries[m + 1] = entry /\ \A i \in 1 .. m : entries[i] = trail[i]
  BY <1>1
<1>4. Records(pairs, entries)
  BY DEF entry
<1> HIDE DEF entries
<1>5. Len(entries) - 1 = m
  BY <1>1, <1>3
<1>6. k = Depth(m) /\ \A j \in 1 .. k : IsSecant(pairs[j], entries, m - k + j)
  BY <1>4, <1>5 DEF Records
<1>7. policy.memory \in Nat
  BY PolicyAssumption DEF Inv, Shape
<1>8. k \in 1 .. m
  BY <1>1, <1>6, <1>7 DEF Depth
<1> HIDE DEF m, k
<1>9. ASSUME NEW j \in 1 .. k
      PROVE  \E length \in Rationals :
               /\ length # Zero
               /\ \A h \in Vec(Size) :
                    /\ Pair(pairs[j].y, h) = Product(length, Pair(Apply(hessian, trail[m - k + j].direction), h))
                    /\ Pair(h, pairs[j].s) = Product(length, Pair(h, trail[m - k + j].direction))
  <2> DEFINE i == m - k + j
  <2>1. i \in 1 .. m
    BY <1>1, <1>8
  <2>2. IsSecant(pairs[j], entries, i)
    BY <1>6
  <2> HIDE DEF i
  <2>3. entries[i] = trail[i]
    BY <1>3, <2>1
  <2>4. Along(hessian, trail[i], entries[i + 1].control, entries[i + 1].derivative)
    <3>1. CASE i = m
      BY <1>2, <1>3, <3>1 DEF Searching, m
    <3>2. CASE i # m
      <4>1. i \in 1 .. m - 1 /\ i + 1 \in 1 .. m
        BY <1>1, <2>1, <3>2
      <4>2. QED
        BY <1>3, <4>1 DEF Searching, m
    <3>3. QED
      BY <3>1, <3>2
  <2>5. PICK length \in Rationals :
          /\ length # Zero
          /\ entries[i + 1].control = AddScaled(trail[i].control, length, trail[i].direction)
          /\ entries[i + 1].derivative
               = AddScaled(trail[i].derivative, length, Apply(hessian, trail[i].direction))
    BY <2>4 DEF Along
  <2>6. trail[i] \in Entries(Size)
    BY <1>1, <2>1 DEF m
  <2>7. trail[i].control \in Vec(Size) /\ trail[i].derivative \in Vec(Size)
        /\ trail[i].direction \in Vec(Size)
    BY <2>6 DEF Entries
  <2>8. Apply(hessian, trail[i].direction) \in Vec(Size)
    BY <1>1, <2>7, QuadraticIsConvex, ApplyType DEF Quadratic, ConvexModel
  <2>9. pairs[j].s = Subtracted(AddScaled(trail[i].control, length, trail[i].direction), trail[i].control)
        /\ pairs[j].y = Subtracted(AddScaled(trail[i].derivative, length,
                                             Apply(hessian, trail[i].direction)), trail[i].derivative)
    BY <2>2, <2>3, <2>5 DEF IsSecant
  <2>10. ASSUME NEW h \in Vec(Size)
         PROVE  /\ Pair(pairs[j].y, h) = Product(length, Pair(Apply(hessian, trail[i].direction), h))
                /\ Pair(h, pairs[j].s) = Product(length, Pair(h, trail[i].direction))
    <3>1. Pair(pairs[j].y, h) = Product(length, Pair(Apply(hessian, trail[i].direction), h))
      BY <1>1, <2>7, <2>8, <2>9, ChangeOverStep
    <3>2. Pair(h, pairs[j].s) = Product(length, Pair(h, trail[i].direction))
      BY <1>1, <2>7, <2>9, ChangeOverStep
    <3>3. QED
      BY <3>1, <3>2
  <2>11. QED
    BY <2>5, <2>10 DEF i
<1>10. QED
  BY <1>8, <1>9 DEF StepsAlong, m, k

\* The first loop leaves the derivative as it is: it vanishes along every step.
LEMMA FirstLoopIdles ==
  ASSUME Elliptic, OneHessian, Inv, Searching, Quadratic, phase = "asking",
         NEW hessian \in problem.hessians, NEW pairs \in Seq(Pairs(Size)), StepsAlong(hessian, pairs),
         NEW q, FirstLoop(q, pairs, derivative, Size)
  PROVE  q[1] = derivative /\ \A j \in 1 .. Len(pairs) : Alpha(q, pairs, j) = Zero
<1> DEFINE k == Len(pairs)
           m == Len(trail)
<1>1. Size \in Nat /\ derivative \in Vec(Size) /\ k \in Nat /\ m \in Nat /\ k \in 1 .. m
  BY GradientType DEF Inv, StepsAlong, Ledger
<1>2. \A i \in 1 .. m : Pair(derivative, trail[i].direction) = Zero
  BY DEF Searching, Reached
<1>3. ASSUME NEW j \in 1 .. k, q[j + 1] = derivative
      PROVE  Alpha(q, pairs, j) = Zero /\ q[j] = derivative
  <2>1. PICK length \in Rationals : \A h \in Vec(Size) :
          Pair(h, pairs[j].s) = Product(length, Pair(h, trail[m - k + j].direction))
    BY DEF StepsAlong
  <2>2. m - k + j \in 1 .. m
    BY <1>1
  <2>3. Pair(derivative, pairs[j].s) = Zero
    <3>1. Pair(derivative, trail[m - k + j].direction) = Zero
      BY <1>2, <2>2
    <3>2. Pair(derivative, pairs[j].s) = Product(length, Zero)
      BY <1>1, <2>1, <3>1
    <3>3. QED
      BY <3>2, Neutral
  <2>4. pairs[j].curvature \in Rationals /\ pairs[j].curvature # Zero /\ pairs[j].y \in Vec(Size)
    BY <1>1, PairParts
  <2>5. Alpha(q, pairs, j) = Zero
    BY <1>3, <2>3, <2>4, ZeroQuotient DEF Alpha
  <2>6. Negated(Zero) = Zero
    BY ZeroIs, Signs
  <2>7. q[j] = AddScaled(derivative, Zero, pairs[j].y)
    BY <1>3, <2>5, <2>6 DEF FirstLoop
  <2>8. QED
    BY <1>1, <2>4, <2>5, <2>7, ZeroIs, AddNothing
<1> DEFINE T == {i \in 0 .. k : q[k + 1 - i] = derivative}
<1>4. 0 \in T
  BY <1>1 DEF FirstLoop
<1>5. ASSUME NEW i \in 1 .. k, i - 1 \in T PROVE i \in T
  <2>1. k + 1 - i \in 1 .. k /\ k + 1 - (i - 1) = (k + 1 - i) + 1 /\ i \in 0 .. k
    BY <1>1
  <2>2. q[(k + 1 - i) + 1] = derivative
    BY <1>5, <2>1
  <2>3. q[k + 1 - i] = derivative
    BY <1>3, <2>1, <2>2
  <2>4. QED
    BY <2>1, <2>3
<1> HIDE DEF T
<1>6. 0 .. k \subseteq T
  BY <1>1, <1>4, <1>5, IntervalInduction
<1>7. ASSUME NEW j \in 1 .. k + 1 PROVE q[j] = derivative
  <2>1. k + 1 - j \in T /\ k + 1 - (k + 1 - j) = j
    BY <1>1, <1>6
  <2>2. QED
    BY <2>1 DEF T
<1>8. ASSUME NEW j \in 1 .. k PROVE Alpha(q, pairs, j) = Zero
  BY <1>1, <1>3, <1>7
<1>9. QED
  BY <1>1, <1>7, <1>8

\* The second loop adds a multiple of the newest step only, and what it leaves is
\* orthogonal to the change of derivative over that step.
LEMMA SecondLoopCorrects ==
  ASSUME Elliptic, OneHessian, Inv, Searching, Quadratic, phase = "asking",
         NEW hessian \in problem.hessians, NEW pairs \in Seq(Pairs(Size)), StepsAlong(hessian, pairs),
         NEW q, FirstLoop(q, pairs, derivative, Size), NEW z, SecondLoop(z, q, pairs, Size)
  PROVE  LET k == Len(pairs)
         IN  /\ z[k] \in Vec(Size) /\ Pair(pairs[k].y, z[k]) = Zero
             /\ \E weight \in Rationals :
                  z[k] = AddScaled(Scaled(pairs[k].scale, Gradient), weight, pairs[k].s)
<1> DEFINE k == Len(pairs)
           m == Len(trail)
           start == Scaled(pairs[k].scale, Gradient)
<1>1. /\ Size \in Nat /\ derivative \in Vec(Size) /\ Gradient \in Vec(Size)
      /\ Gradient = Apply(problem.inverse, derivative)
      /\ k \in Nat /\ m \in Nat /\ k \in 1 .. m /\ k \in 1 .. k /\ trail \in Seq(Entries(Size))
  BY GradientType DEF Inv, StepsAlong, Ledger, Gradient, Riesz
<1>2. q[1] = derivative /\ \A j \in 1 .. k : Alpha(q, pairs, j) = Zero
  BY FirstLoopIdles
<1>3. \A j \in 1 .. k :
        /\ pairs[j].s \in Vec(Size) /\ pairs[j].y \in Vec(Size)
        /\ pairs[j].curvature \in Rationals /\ pairs[j].curvature # Zero
        /\ pairs[j].scale \in Rationals /\ pairs[j].curvature = Pair(pairs[j].y, pairs[j].s)
  BY <1>1, PairParts
<1>4. start \in Vec(Size) /\ z[0] = start
  <2>1. start \in Vec(Size)
    BY <1>1, <1>3, CombinationTypes
  <2>2. QED
    BY <1>2, <2>1 DEF SecondLoop, Gradient
<1> HIDE DEF start
<1>5. ASSUME NEW j \in 1 .. k - 1 PROVE Pair(pairs[j].y, start) = Zero
  <2> DEFINE i == m - k + j
  <2>1. i \in 1 .. m - 1 /\ j \in 1 .. k
    BY <1>1
  <2>2. PICK length \in Rationals : \A h \in Vec(Size) :
          Pair(pairs[j].y, h) = Product(length, Pair(Apply(hessian, trail[i].direction), h))
    BY <2>1 DEF StepsAlong
  <2> HIDE DEF i
  <2>3. ConvexModel(Size, problem.inverse, hessian)
    BY QuadraticIsConvex DEF Quadratic
  <2>4. Conjugates(Size, problem.inverse, hessian, trail)
        /\ \A e \in 1 .. m : Pair(derivative, trail[e].direction) = Zero
    BY DEF Searching, Reached
  <2>5. Pair(Apply(hessian, trail[i].direction), Gradient) = Zero
    BY <1>1, <2>1, <2>3, <2>4, ImagesOrthogonal
  <2>6. Pair(pairs[j].y, Gradient) = Zero
    BY <1>1, <2>2, <2>5, Neutral
  <2>7. Pair(pairs[j].y, Scaled(pairs[k].scale, Gradient)) = Product(pairs[k].scale, Zero)
    BY <1>1, <1>3, <2>1, <2>6, PairScaled
  <2>8. QED
    BY <1>1, <1>3, <2>7, Neutral DEF start
<1>6. ASSUME NEW j \in 1 .. k
      PROVE  z[j] = AddScaled(z[j - 1], Difference(Zero, Beta(z, pairs, j)), pairs[j].s)
  BY <1>2 DEF SecondLoop
<1> DEFINE T == {i \in 0 .. k : i < k => z[i] = start}
<1>7. 0 \in T
  BY <1>1, <1>4
<1>8. ASSUME NEW j \in 1 .. k, j - 1 \in T PROVE j \in T
  <2>1. CASE j = k
    BY <1>1, <2>1
  <2>2. CASE j # k
    <3>1. j \in 1 .. k - 1 /\ j - 1 < k /\ z[j - 1] = start /\ j \in 0 .. k
      BY <1>1, <1>8, <2>2
    <3>2. Beta(z, pairs, j) = Zero
      BY <1>3, <1>5, <3>1, ZeroQuotient DEF Beta
    <3>3. Difference(Zero, Zero) = Zero
      BY ZeroIs, Neutral
    <3>4. z[j] = AddScaled(start, Zero, pairs[j].s)
      BY <1>6, <3>1, <3>2, <3>3
    <3>5. z[j] = start
      BY <1>1, <1>3, <1>4, <3>4, ZeroIs, AddNothing
    <3>6. QED
      BY <3>1, <3>5
  <2>3. QED
    BY <2>1, <2>2
<1> HIDE DEF T
<1>9. 0 .. k \subseteq T
  BY <1>1, <1>7, <1>8, IntervalInduction
<1>10. z[k - 1] = start
  <2>1. k - 1 \in 0 .. k /\ k - 1 < k
    BY <1>1
  <2>2. QED
    BY <1>9, <2>1 DEF T
<1> DEFINE y == pairs[k].y
           s == pairs[k].s
           c == pairs[k].curvature
           beta == Quotient(Pair(y, start), c)
           weight == Difference(Zero, beta)
<1>11. y \in Vec(Size) /\ s \in Vec(Size) /\ c \in Rationals /\ c # Zero /\ c = Pair(y, s)
  BY <1>1, <1>3
<1>12. z[k] = AddScaled(start, weight, s)
  BY <1>1, <1>6, <1>10 DEF Beta
<1> HIDE DEF y, s, c
<1>13. Pair(y, start) \in Rationals /\ beta \in Rationals /\ weight \in Rationals
       /\ weight = Negated(beta) /\ Product(beta, c) = Pair(y, start)
  <2>1. Pair(y, start) \in Rationals
    BY <1>1, <1>4, <1>11, PairType
  <2>2. beta \in Rationals /\ Product(beta, c) = Pair(y, start)
    BY <1>11, <2>1, Closed, QuotientProduct
  <2> HIDE DEF beta
  <2>3. Negated(beta) \in Rationals /\ weight = Negated(beta)
    BY <2>2, Closed, Neutral DEF Difference
  <2>4. QED
    BY <2>1, <2>2, <2>3 DEF beta
<1> HIDE DEF beta, weight
<1>14. Pair(y, z[k]) = Sum2(Pair(y, start), Product(weight, c))
  BY <1>1, <1>4, <1>11, <1>12, <1>13, PairAddScaledRight
<1>15. Product(weight, c) = Negated(Pair(y, start))
  BY <1>11, <1>13, NegatedProduct
<1>16. Pair(y, z[k]) = Zero
  BY <1>13, <1>14, <1>15, Neutral
<1>17. z[k] \in Vec(Size)
  BY <1>1 DEF SecondLoop
<1>18. \E w \in Rationals : z[k] = AddScaled(Scaled(pairs[k].scale, Gradient), w, pairs[k].s)
  BY <1>12, <1>13 DEF start, s
<1>19. QED
  BY <1>16, <1>17, <1>18 DEF y

\* The direction of the two-loop recursion is conjugate to the last one.
LEMMA LoopGoesOn ==
  ASSUME Elliptic, OneHessian, Inv, Searching, Quadratic, phase = "asking", trail # <<>>,
         NEW pairs, pairs # <<>>, pairs \in Seq(Pairs(Size)),
         NEW e, Records(pairs, Append(trail, [control |-> control, derivative |-> derivative,
                                              direction |-> e]))
  PROVE  GoesOn(Opposite(TwoLoop(pairs, derivative)))
<1> DEFINE k == Len(pairs)
           m == Len(trail)
           last == trail[m].direction
           scale == pairs[k].scale
           d == Opposite(TwoLoop(pairs, derivative))
<1>1. PICK hessian \in problem.hessians : TRUE
  BY DEF Searching
<1>2. StepsAlong(hessian, pairs)
  BY SecantsAlong
<1>3. /\ Size \in Nat /\ derivative \in Vec(Size) /\ Gradient \in Vec(Size) /\ problem \in Problems
      /\ k \in 1 .. k /\ m - k + k = m /\ m \in 1 .. m /\ trail \in Seq(Entries(Size))
  <2>1. /\ Size \in Nat /\ derivative \in Vec(Size) /\ Gradient \in Vec(Size) /\ problem \in Problems
        /\ trail \in Seq(Entries(Size))
    BY GradientType DEF Inv, Ledger
  <2>2. k \in Nat /\ m \in Nat /\ k \in 1 .. m
    BY <1>2, <2>1 DEF StepsAlong
  <2>3. QED
    BY <2>1, <2>2
<1>4. PICK q, z : /\ FirstLoop(q, pairs, derivative, Size) /\ SecondLoop(z, q, pairs, Size)
                  /\ TwoLoop(pairs, derivative) = z[k]
  BY <1>3, TwoLoopRuns
<1>5. PICK weight \in Rationals :
        /\ z[k] \in Vec(Size) /\ Pair(pairs[k].y, z[k]) = Zero
        /\ z[k] = AddScaled(Scaled(scale, Gradient), weight, pairs[k].s)
  BY <1>2, <1>4, SecondLoopCorrects
<1>6. PICK length \in Rationals :
        /\ length # Zero
        /\ \A h \in Vec(Size) :
             /\ Pair(pairs[k].y, h) = Product(length, Pair(Apply(hessian, last), h))
             /\ Pair(h, pairs[k].s) = Product(length, Pair(h, last))
  BY <1>2, <1>3 DEF StepsAlong
<1>7. pairs[k].s \in Vec(Size) /\ pairs[k].y \in Vec(Size) /\ scale \in Rationals /\ Positive(scale)
  BY <1>3, PairParts
<1>8. last \in Vec(Size) /\ Apply(hessian, last) \in Vec(Size)
      /\ \A other \in problem.hessians : other = hessian
  <2>1. trail[m] \in Entries(Size)
    BY <1>3
  <2>2. last \in Vec(Size)
    BY <2>1 DEF Entries
  <2>3. ConvexModel(Size, problem.inverse, hessian) /\ \A other \in problem.hessians : other = hessian
    BY QuadraticIsConvex DEF Quadratic
  <2>4. QED
    BY <2>2, <2>3, ApplyType DEF ConvexModel
<1>9. d = Opposite(z[k])
  BY <1>4
<1> HIDE DEF d, last, scale, k, m
<1>10. d \in Vec(Size) /\ Pair(pairs[k].y, d) = Zero
  <2>1. d \in Vec(Size)
    BY <1>3, <1>5, <1>9, OppositeType
  <2>2. Pair(pairs[k].y, d) = Negated(Zero)
    BY <1>3, <1>5, <1>7, <1>9, PairOpposite
  <2>3. QED
    BY <2>1, <2>2, ZeroIs, Signs
<1>11. Pair(Apply(hessian, last), d) = Zero
  <2>1. Pair(Apply(hessian, last), d) \in Rationals
    BY <1>3, <1>8, <1>10, PairType
  <2>2. Product(length, Pair(Apply(hessian, last), d)) = Zero
    BY <1>6, <1>10
  <2>3. QED
    BY <1>6, <2>1, <2>2, ProductSigns
<1> DEFINE p == Negated(scale)
           w == Negated(Product(weight, length))
<1>12. p \in Rationals /\ p # Zero /\ w \in Rationals
  <2>1. p \in Rationals /\ p # Zero
    BY <1>7, Signs, Closed
  <2>2. Product(weight, length) \in Rationals
    BY FieldClosed
  <2>3. QED
    BY <2>1, <2>2, Closed
<1>13. ASSUME NEW h \in Vec(Size)
       PROVE  Pair(h, d) = Sum2(Product(p, Pair(h, Gradient)), Product(w, Pair(h, last)))
  <2> DEFINE a == Pair(h, Gradient)
             b == Pair(h, last)
             ahead == Product(scale, a)
             aside == Product(weight, Product(length, b))
  <2>1. a \in Rationals /\ b \in Rationals
    BY <1>3, <1>8, PairType
  <2>2. Pair(h, Scaled(scale, Gradient)) = ahead /\ Scaled(scale, Gradient) \in Vec(Size)
    BY <1>3, <1>7, PairScaled, CombinationTypes
  <2>3. Pair(h, pairs[k].s) = Product(length, b)
    BY <1>6
  <2>4. Pair(h, z[k]) = Sum2(ahead, aside)
    BY <1>3, <1>5, <1>7, <2>2, <2>3, PairAddScaledRight
  <2>5. Pair(h, d) = Negated(Sum2(ahead, aside))
    BY <1>3, <1>5, <1>9, <2>4, PairOpposite
  <2> HIDE DEF a, b
  <2>6. ahead \in Rationals /\ Product(length, b) \in Rationals /\ aside \in Rationals
        /\ Product(weight, length) \in Rationals
    BY <1>7, <2>1, FieldClosed
  <2>7. aside = Product(Product(weight, length), b)
    BY <2>1, ProductAssociates
  <2>8. Negated(ahead) = Product(p, a) /\ Negated(aside) = Product(w, b)
    BY <1>7, <2>1, <2>6, <2>7, NegatedProduct
  <2>9. Negated(Sum2(ahead, aside)) = Sum2(Negated(ahead), Negated(aside))
    BY <2>6, NegatedSum
  <2>10. QED
    BY <2>5, <2>8, <2>9 DEF a, b
<1> HIDE DEF p, w
<1>14. Combines(Size, d, Gradient, last, p, w)
  BY <1>13 DEF Combines
<1>15. \A other \in problem.hessians :
         /\ Pair(Apply(other, last), d) = Zero
         /\ \E a, b \in Rationals : a # Zero /\ Combines(Size, d, Gradient, last, a, b)
  BY <1>8, <1>11, <1>12, <1>14
<1>16. GoesOn(d)
  BY <1>15 DEF GoesOn, last, m
<1>17. QED
  BY <1>16 DEF d

\* The pairs the two policies go on with may be kept.
LEMMA MemoryPairs ==
  ASSUME Inv, previous # <<>>, ~SecantFails, NEW pairs,
         \/ policy.kind = "limited_memory_bfgs" /\ pairs = Limited
         \/ policy.kind = "full_bfgs" /\ pairs = Append(history, NewPair)
  PROVE  pairs \in Seq(Pairs(Size)) /\ pairs # <<>>
<1>1. NewPair \in Pairs(Size) /\ history \in Seq(Pairs(Size)) /\ Len(history) \in Nat
  BY NewPairType DEF Inv, Remembered
<1>2. policy.memory \in Nat \ {0}
  BY PolicyAssumption DEF Inv, Shape
<1>3. ASSUME NEW kept \in Seq(Pairs(Size))
      PROVE  Append(kept, NewPair) \in Seq(Pairs(Size)) /\ Append(kept, NewPair) # <<>>
  <2>1. Len(Append(kept, NewPair)) = Len(kept) + 1 /\ Len(kept) \in Nat
        /\ Append(kept, NewPair) \in Seq(Pairs(Size))
    BY <1>1
  <2>2. QED
    BY <2>1
<1>4. Len(history) = policy.memory => Tail(history) \in Seq(Pairs(Size))
  BY <1>1, <1>2
<1>5. QED
  BY <1>1, <1>3, <1>4 DEF Limited

\* A quasi-Newton call keeps the family of conjugate directions.
LEMMA QuasiNewtonSearches ==
  ASSUME Elliptic, OneHessian, Inv, Recorded, Searching, Quadratic, phase = "asking", calls < Calls,
         policy.kind \in QuasiNewtonKinds, NEW pairs, QuasiNewton(pairs),
         \/ policy.kind = "limited_memory_bfgs" /\ pairs = Limited
         \/ policy.kind = "full_bfgs" /\ pairs = Append(history, NewPair)
  PROVE  Searching'
<1>1. Opposite(Gradient) \in Vec(Size) /\ Size \in Nat /\ derivative \in Vec(Size)
      /\ problem \in Problems
  BY GradientType DEF Inv
<1>2. 1 \in Nat /\ 2 \in Nat /\ 1 \in 0 .. 1 /\ 1 \in 0 .. 2 /\ 2 \in 0 .. 2
  OBVIOUS
<1>3. ASSUME NEW solves \in {1, 2}, Return(Opposite(Gradient), TRUE, solves, 1, 0)
      PROVE  Searching'
  <2>1. solves \in Nat /\ 1 \in 0 .. solves
    BY <1>2
  <2>2. QED
    BY <1>1, <1>3, <2>1, ReturnSearches
<1>4. CASE previous = <<>>
  BY <1>3, <1>4 DEF QuasiNewton, FirstQuasiNewton
<1>5. CASE previous # <<>> /\ SecantFails
  BY <1>3, <1>5 DEF QuasiNewton, Drop
<1>6. CASE previous # <<>> /\ ~SecantFails
  <2> DEFINE d == Opposite(TwoLoop(pairs, derivative))
  <2>1. pairs \in Seq(Pairs(Size)) /\ pairs # <<>>
    BY <1>6, MemoryPairs
  <2>2. d \in Vec(Size)
    BY <1>1, <2>1, TwoLoopAscends, OppositeType
  <2>3. trail # <<>>
    BY <1>6 DEF Recorded
  <2>4. GoesOn(d)
    <3>1. Records(pairs, Append(trail, [control |-> control, derivative |-> derivative,
                                        direction |-> d]))
      BY <1>6, MemoryRecords
    <3>2. QED
      BY <2>1, <2>3, <3>1, LoopGoesOn
  <2>5. Return(d, FALSE, 2, 2, 0) \/ Drop(2)
    BY <1>6 DEF QuasiNewton
  <2> HIDE DEF d
  <2>6. CASE Return(d, FALSE, 2, 2, 0)
    BY <1>2, <2>2, <2>4, <2>6, ReturnSearches
  <2>7. CASE Drop(2)
    BY <1>3, <2>7 DEF Drop
  <2>8. QED
    BY <2>5, <2>6, <2>7
<1>7. QED
  BY <1>4, <1>5, <1>6

-----------------------------------------------------------------------------
(* Termination on a quadratic.                                             *)

\* Nothing but a step along a direction changes the family.
LEMMA SearchRests ==
  ASSUME UNCHANGED <<problem, policy>>, Searching, ~Quadratic
  PROVE  Searching'
BY DEF Searching, Quadratic

\* Every step keeps the family of conjugate directions and the remembered record.
LEMMA SearchStep ==
  ASSUME Elliptic, OneHessian, Inv, Recorded, Searching, Matching, [Next]_vars
  PROVE  Searching' /\ Matching'
<1>1. CASE SteepestDescent
  <2>1. /\ phase = "asking" /\ calls < Calls /\ policy.kind = "steepest_descent"
        /\ Return(Opposite(Gradient), TRUE, 1, 1, 0)
    BY <1>1 DEF SteepestDescent, Asked
  <2>2. Opposite(Gradient) \in Vec(Size) /\ 1 \in Nat /\ 1 \in 0 .. 1
        /\ UNCHANGED <<problem, policy>>
    BY <2>1, GradientType DEF Inv, Return, iterate
  <2>3. Searching'
    <3>1. CASE Quadratic
      BY <2>1, <2>2, <3>1, ReturnSearches
    <3>2. CASE ~Quadratic
      BY <2>2, <3>2, SearchRests
    <3>3. QED
      BY <3>1, <3>2
  <2>4. QED
    BY <2>1, <2>2, <2>3 DEF Matching
<1>2. CASE ConjugateGradient
  BY <1>2, ConjugateGradientSearches
<1>3. ASSUME phase = "asking", calls < Calls, NEW pairs, QuasiNewton(pairs),
             \/ policy.kind = "limited_memory_bfgs" /\ pairs = Limited
             \/ policy.kind = "full_bfgs" /\ pairs = Append(history, NewPair)
      PROVE  Searching' /\ Matching'
  <2>1. policy.kind \in QuasiNewtonKinds /\ policy.kind # "nonlinear_cg"
    BY <1>3 DEF QuasiNewtonKinds
  <2>2. UNCHANGED <<problem, policy>>
    BY <1>3 DEF QuasiNewton, FirstQuasiNewton, Drop, Return, iterate
  <2>3. Searching'
    <3>1. CASE Quadratic
      BY <1>3, <2>1, <3>1, QuasiNewtonSearches
    <3>2. CASE ~Quadratic
      BY <2>2, <3>2, SearchRests
    <3>3. QED
      BY <3>1, <3>2
  <2>4. QED
    BY <2>1, <2>2, <2>3 DEF Matching
<1>4. CASE LimitedMemoryBfgs
  BY <1>3, <1>4 DEF LimitedMemoryBfgs, Asked
<1>5. CASE FullBfgs
  BY <1>3, <1>5 DEF FullBfgs, Asked
<1>6. CASE Newton
  <2>1. policy.kind = "newton" /\ UNCHANGED <<problem, policy>>
    BY <1>6 DEF Newton, Asked, Throw, Return, iterate
  <2>2. QED
    BY <2>1, SearchRests DEF Matching, Quadratic
<1>7. CASE Move
  <2>1. UNCHANGED <<problem, policy, previous, trail>>
    BY <1>7 DEF Move
  <2>2. Matching'
    BY <2>1 DEF Matching, Denominator
  <2>3. Searching'
    BY <1>7, <2>1, MoveSearches, SearchRests
  <2>4. QED
    BY <2>2, <2>3
<1>8. CASE UNCHANGED vars
  <2>1. UNCHANGED <<problem, policy, phase, control, derivative, previous, answer, trail, Size>>
    BY <1>8 DEF vars, Size
  <2>2. Matching'
    BY <2>1 DEF Matching, Denominator
  <2>3. Searching'
    BY <2>1 DEF Searching, Quadratic
  <2>4. QED
    BY <2>2, <2>3
<1>9. QED
  BY <1>1, <1>2, <1>4, <1>5, <1>6, <1>7, <1>8 DEF Next

\* Short of the restart interval the recurrences go on and descend.
LEMMA RecurrenceGoesOn ==
  ASSUME Elliptic, OneHessian, Inv, Searching, Matching, problem.quadratic,
         phase = "asking", policy.kind = "nonlinear_cg", previous # <<>>,
         sinceRestart < (IF policy.interval = 0 THEN Len(control) ELSE policy.interval),
         ~AtMost(Denominator(previous[1]), CurvatureTolerance), ~Stationary
  PROVE  /\ ~Refreshes /\ ~Rejects(previous[1])
         /\ Positive(Negated(Pair(derivative, Proposed)))
<1>1. ~Periodically
  <2>1. policy.interval \in Nat /\ sinceRestart \in Nat /\ Len(control) \in Nat
    BY PolicyAssumption DEF Inv, Shape, Restarted, Ledger, Vec
  <2>2. QED
    BY <2>1 DEF Periodically, RestartInterval
<1>2. ~TooFlat(Denominator(previous[1]))
  BY NumeratorType, Flatness
<1>3. Positive(Numerator(previous[1]))
  <2>1. derivative \in Vec(Size) /\ problem \in Problems
    BY GradientType DEF Inv
  <2>2. Positive(Pair(derivative, Gradient))
    BY <2>1, GradientAscends DEF Stationary, Gradient
  <2>3. QED
    BY <2>2, NumeratorIs
<1>4. ~Refreshes /\ ~Rejects(previous[1])
  BY <1>1, <1>2, <1>3 DEF Refreshes, Restarts, Rejects
<1>5. Positive(Negated(Pair(derivative, Proposed)))
  BY <1>4, ConjugateDescends DEF Proposed, Stationary
<1>6. QED
  BY <1>4, <1>5

\* As many directions as coefficients leave nothing to minimise.
LEMMA SearchEnds ==
  ASSUME Elliptic, OneHessian, Inv, Searching, Quadratic,
         phase = "asking", Len(trail) >= Len(control)
  PROVE  Stationary
<1>1. Size \in Nat /\ derivative \in Vec(Size) /\ Len(control) = Size
      /\ trail \in Seq(Entries(Size))
  BY GradientType, VecLen DEF Inv, Ledger
<1>2. CASE trail = <<>>
  <2>1. Size = 0
    BY <1>1, <1>2
  <2>2. QED
    BY <1>1, <2>1, VecLen DEF Stationary, IsZero
<1>3. CASE trail # <<>>
  <2>1. PICK hessian \in problem.hessians : TRUE
    BY <1>3 DEF Searching
  <2>2. ConvexModel(Size, problem.inverse, hessian)
    BY QuadraticIsConvex DEF Quadratic
  <2>3. Conjugates(Size, problem.inverse, hessian, trail) /\ Reached(hessian, trail, derivative)
    BY DEF Searching
  <2>4. QED
    BY <1>1, <2>2, <2>3, DirectionsEnd DEF Stationary, Conjugates, Reached
<1>4. QED
  BY <1>2, <1>3

\* On a quadratic with one self-adjoint Hessian and the exact search, every policy but
\* Newton searches along conjugate directions and stops after as many as there are
\* coefficients; the recurrences neither restart nor throw before that.
THEOREM ConjugateTermination ==
  ASSUME Elliptic, OneHessian
  PROVE  Spec => [](policy.kind # "newton" => QuadraticTermination)
<1> DEFINE Searched == Recorded /\ Looped /\ Searching /\ Matching
<1>1. Init => Searched
  <2>1. SUFFICES ASSUME Init PROVE Searched
    OBVIOUS
  <2>2. trail = <<>> /\ previous = <<>> /\ history = <<>> /\ phase = "asking"
    BY <2>1 DEF Init
  <2>3. Recorded /\ Looped /\ Matching
    BY <2>2 DEF Recorded, Looped, Matching
  <2>4. Searching
    BY <2>2 DEF Searching, Conjugates, Reached
  <2>5. QED
    BY <2>2, <2>3, <2>4
<1>2. Inv /\ Searched /\ [Next]_vars => Searched'
  <2>1. SUFFICES ASSUME Inv, Searched, [Next]_vars PROVE Searched'
    OBVIOUS
  <2>2. Recorded' /\ Looped'
    BY <2>1, RecordedStep
  <2>3. Searching' /\ Matching'
    BY <2>1, SearchStep
  <2>4. QED
    BY <2>2, <2>3
<1>3. Inv /\ Searched => (policy.kind # "newton" => QuadraticTermination)
  <2>1. SUFFICES ASSUME Inv, Searched, policy.kind # "newton", problem.quadratic
                 PROVE  QuadraticTermination
    BY DEF QuadraticTermination
  <2>2. Quadratic
    BY <2>1 DEF Quadratic
  <2>3. ASSUME NEW i \in 1 .. Len(trail), NEW j \in 1 .. Len(trail), i < j,
               NEW hessian \in problem.hessians
        PROVE  Pair(Apply(hessian, trail[i].direction), trail[j].direction) = Zero
    BY <2>1, <2>2, <2>3 DEF Searching, Conjugates
  <2>4. phase = "asking" /\ Len(trail) >= Len(control) => Stationary
    BY <2>1, <2>2, SearchEnds
  <2>5. /\ phase = "asking" /\ policy.kind = "nonlinear_cg" /\ previous # <<>>
        /\ sinceRestart < (IF policy.interval = 0 THEN Len(control) ELSE policy.interval)
        /\ ~AtMost(Denominator(previous[1]), CurvatureTolerance) /\ ~Stationary
        => /\ ~Refreshes /\ ~Rejects(previous[1])
           /\ Positive(Negated(Pair(derivative, Proposed)))
    BY <2>1, RecurrenceGoesOn
  <2>6. QED
    BY <2>1, <2>3, <2>4, <2>5 DEF QuadraticTermination
<1> HIDE DEF Searched
<1>4. QED
  BY <1>1, <1>2, <1>3, Invariance, PTL DEF Spec

-----------------------------------------------------------------------------
(* Newton's inner iteration on a convex model.                             *)

\* One iteration leaves a residual that vanishes along the directions so far.
LEMMA IterationReaches ==
  ASSUME NEW n, NEW inverse, NEW hessian, ConvexModel(n, inverse, hessian),
         NEW e \in Seq(Entries(n)), Conjugates(n, inverse, hessian, e), e # <<>>,
         \A i \in 1 .. Len(e) : ~IsZero(e[i].direction),
         NEW r, NEW p, NEW pairing \in Rationals, r = e[Len(e)].derivative, p = e[Len(e)].direction,
         Positive(pairing), Pair(r, p) = pairing,
         NEW step, step = Quotient(pairing, Pair(Apply(hessian, p), p))
  PROVE  /\ step \in Rationals /\ Positive(step)
         /\ AddScaled(r, Negated(step), Apply(hessian, p)) \in Vec(n)
         /\ Reached(hessian, e, AddScaled(r, Negated(step), Apply(hessian, p)))
<1> DEFINE image == Apply(hessian, p)
           curvature == Pair(image, p)
           length == Negated(step)
           residual == AddScaled(r, length, image)
<1>1. Len(e) \in 1 .. Len(e) /\ n \in Nat
  BY DEF ConvexModel
<1>2. r \in Vec(n) /\ p \in Vec(n) /\ image \in Vec(n) /\ ~IsZero(p)
  BY <1>1, EntryParts
<1>3. curvature \in Rationals /\ Positive(curvature)
  BY <1>1, <1>2, PairType DEF ConvexModel, PositiveOn
<1> HIDE DEF curvature
<1>4. step \in Rationals /\ Positive(step) /\ Product(step, curvature) = pairing
  BY <1>3, QuotientSigns, QuotientProduct, Signs DEF curvature
<1>5. length \in Rationals /\ length # Zero /\ Product(length, curvature) = Negated(pairing)
  BY <1>3, <1>4, Closed, Signs, NegatedProduct
<1> HIDE DEF length
<1>6. residual \in Vec(n)
  BY <1>1, <1>2, <1>5, CombinationTypes
<1>7. Pair(residual, p) = Sum2(pairing, Product(length, curvature))
  BY <1>1, <1>2, <1>5, PairAddScaled DEF curvature
<1>8. Pair(residual, p) = Zero
  BY <1>5, <1>7, Neutral
<1>9. Reached(hessian, e, residual)
  BY <1>5, <1>6, <1>8, StepReaches
<1>10. QED
  BY <1>4, <1>6, <1>9 DEF length

\* The next search direction is conjugate to the earlier ones.
LEMMA IterationGoesOn ==
  ASSUME NEW n, NEW inverse, NEW hessian, ConvexModel(n, inverse, hessian),
         NEW e \in Seq(Entries(n)), Conjugates(n, inverse, hessian, e), e # <<>>,
         NEW pairing \in Rationals, Positive(pairing),
         Pair(e[Len(e)].derivative, e[Len(e)].direction) = pairing,
         NEW r \in Vec(n), Reached(hessian, e, r), NEW norm, norm = Pair(r, Apply(inverse, r)),
         NEW p, p = AddScaled(Apply(inverse, r), Quotient(norm, pairing), e[Len(e)].direction),
         NEW c \in Vec(n)
  PROVE  /\ p \in Vec(n) /\ norm \in Rationals /\ Pair(r, p) = norm
         /\ Conjugates(n, inverse, hessian,
                       Append(e, [control |-> c, derivative |-> r, direction |-> p]))
<1> DEFINE last == e[Len(e)].direction
           former == e[Len(e)].derivative
           gradient == Apply(inverse, r)
           beta == Quotient(norm, pairing)
           entry == [control |-> c, derivative |-> r, direction |-> p]
<1>1. Len(e) \in 1 .. Len(e) /\ n \in Nat
  BY DEF ConvexModel
<1>2. last \in Vec(n) /\ former \in Vec(n) /\ gradient \in Vec(n) /\ Apply(hessian, last) \in Vec(n)
  BY <1>1, EntryParts, ApplyType DEF ConvexModel
<1>3. norm \in Rationals
  BY <1>1, <1>2, PairType
<1>4. beta \in Rationals /\ Product(beta, pairing) = norm
  BY <1>3, Closed, QuotientProduct, Signs
<1>5. Pair(r, last) = Zero /\ Pair(former, gradient) = Zero
  <2>1. \A k \in 1 .. Len(e) : Pair(r, e[k].direction) = Zero
    BY DEF Reached
  <2>2. QED
    BY <1>1, <2>1, GradientsOrthogonal
<1> HIDE DEF last, former, gradient, beta
<1>6. p = AddScaled(gradient, beta, last)
  BY DEF gradient, beta, last
<1>7. p \in Vec(n)
  <2>1. AddScaled(gradient, beta, last) \in Vec(n)
    BY <1>1, <1>2, <1>4, CombinationTypes
  <2>2. QED
    BY <1>6, <2>1
<1>8. ASSUME NEW h \in Vec(n)
      PROVE  Pair(h, p) = Sum2(Pair(h, gradient), Product(beta, Pair(h, last)))
  BY <1>1, <1>2, <1>4, <1>6, PairAddScaledRight
<1>9. Pair(r, p) = norm
  BY <1>3, <1>4, <1>5, <1>8, Neutral DEF gradient
<1>10. Pair(former, p) = norm
  <2>1. Pair(former, last) = pairing
    BY DEF former, last
  <2>2. Pair(former, p) = Sum2(Zero, norm)
    BY <1>2, <1>4, <1>5, <1>8, <2>1
  <2>3. QED
    BY <1>3, <2>2, Neutral
<1>11. Pair(Apply(hessian, last), p) = Zero
  <2>1. PICK length \in Rationals : length # Zero /\ r = AddScaled(former, length, Apply(hessian, last))
    BY DEF Reached, Follows, former, last
  <2>2. QED
    BY <1>1, <1>2, <1>7, <1>9, <1>10, <2>1, SameSlope
<1>12. Combines(n, p, gradient, last, One, beta)
  <2>1. ASSUME NEW h \in Vec(n)
        PROVE  Pair(h, p) = Sum2(Product(One, Pair(h, gradient)), Product(beta, Pair(h, last)))
    <3>1. Product(One, Pair(h, gradient)) = Pair(h, gradient)
      BY <1>1, <1>2, PairType, Neutral
    <3>2. QED
      BY <1>8, <3>1
  <2>2. QED
    BY <2>1 DEF Combines
<1>13. One \in Rationals /\ One # Zero
  BY OneIs DEF One, Zero
<1>14. entry \in Entries(n) /\ entry.derivative = r /\ entry.direction = p
  BY <1>7 DEF Entries
<1> HIDE DEF entry
<1>15. Conjugates(n, inverse, hessian, Append(e, entry))
  <2>1. Combines(n, entry.direction, Apply(inverse, entry.derivative), e[Len(e)].direction, One, beta)
    BY <1>12, <1>14 DEF gradient, last
  <2>2. Pair(Apply(hessian, e[Len(e)].direction), entry.direction) = Zero
    BY <1>11, <1>14 DEF last
  <2>3. QED
    BY <1>4, <1>13, <1>14, <2>1, <2>2, DirectionAdded
<1>16. QED
  BY <1>3, <1>7, <1>9, <1>15 DEF entry

\* The residual is what the direction so far leaves of the derivative.
Balances(hessian, x, r) ==
  \A h \in Vec(Size) :
    Sum2(Pair(derivative, h), Pair(Apply(hessian, x), h)) = Negated(Pair(r, h))

\* x lies in the span of the directions.
Spans(e, x) ==
  \A h \in Vec(Size) :
    (\A i \in 1 .. Len(e) : Pair(h, e[i].direction) = Zero) => Pair(h, x) = Zero

\* An iteration keeps the balance.
LEMMA BalanceStep ==
  ASSUME NEW hessian \in Mat(Size), Size \in Nat, derivative \in Vec(Size),
         NEW x \in Vec(Size), NEW p \in Vec(Size), NEW r \in Vec(Size), NEW step \in Rationals,
         Balances(hessian, x, r)
  PROVE  Balances(hessian, AddScaled(x, step, p),
                  AddScaled(r, Negated(step), Apply(hessian, p)))
<1> DEFINE image == Apply(hessian, p)
           former == Apply(hessian, x)
           new == Apply(hessian, AddScaled(x, step, p))
           residual == AddScaled(r, Negated(step), image)
<1>1. image \in Vec(Size) /\ former \in Vec(Size) /\ Negated(step) \in Rationals
      /\ new = AddScaled(former, step, image)
  BY ApplyType, ApplyAddScaled, Closed
<1> HIDE DEF image, former, new
<1>2. ASSUME NEW h \in Vec(Size)
      PROVE  Sum2(Pair(derivative, h), Pair(new, h)) = Negated(Pair(residual, h))
  <2> DEFINE a == Pair(derivative, h)
             b == Pair(former, h)
             k == Pair(image, h)
             c == Product(step, k)
             q == Pair(r, h)
  <2>1. a \in Rationals /\ b \in Rationals /\ k \in Rationals /\ q \in Rationals
    BY <1>1, PairType
  <2>2. Pair(new, h) = Sum2(b, c) /\ Pair(residual, h) = Sum2(q, Product(Negated(step), k))
    BY <1>1, PairAddScaled
  <2>3. Sum2(a, b) = Negated(q)
    BY DEF Balances, former
  <2> HIDE DEF a, b, k, q
  <2>4. c \in Rationals /\ Product(Negated(step), k) = Negated(c)
    BY <2>1, FieldClosed, NegatedProduct
  <2> HIDE DEF c
  <2>5. Sum2(a, Sum2(b, c)) = Sum2(Negated(q), c)
    BY <2>1, <2>3, <2>4, SumAssociates
  <2>6. Negated(c) \in Rationals /\ Negated(Negated(c)) = c
    BY <2>4, Closed, Signs
  <2>7. Negated(Sum2(q, Negated(c))) = Sum2(Negated(q), c)
    BY <2>1, <2>6, NegatedSum
  <2>8. QED
    BY <2>2, <2>4, <2>5, <2>7 DEF a
<1>3. QED
  BY <1>2 DEF Balances, new, image

\* An iteration's direction stays in the span.
LEMMA SpanStep ==
  ASSUME Size \in Nat, NEW e \in Seq(Entries(Size)), NEW entry \in Entries(Size),
         NEW x \in Vec(Size), NEW step \in Rationals, Spans(e, x)
  PROVE  Spans(Append(e, entry), AddScaled(x, step, entry.direction))
<1> DEFINE m == Len(e)
           f == Append(e, entry)
           p == entry.direction
<1>1. m \in Nat /\ Len(f) = m + 1 /\ f[m + 1] = entry /\ \A i \in 1 .. m : f[i] = e[i]
  OBVIOUS
<1>2. p \in Vec(Size)
  BY DEF Entries
<1> HIDE DEF f, m
<1>3. ASSUME NEW h \in Vec(Size), \A i \in 1 .. Len(f) : Pair(h, f[i].direction) = Zero
      PROVE  Pair(h, AddScaled(x, step, p)) = Zero
  <2>1. Pair(h, p) = Zero /\ \A i \in 1 .. m : Pair(h, e[i].direction) = Zero
    <3>1. m + 1 \in 1 .. Len(f) /\ \A i \in 1 .. m : i \in 1 .. Len(f)
      BY <1>1
    <3>2. QED
      BY <1>1, <1>3, <3>1
  <2>2. Pair(h, x) = Zero
    BY <2>1 DEF Spans, m
  <2>3. Pair(h, AddScaled(x, step, p)) = Sum2(Zero, Product(step, Zero))
    BY <1>2, <2>1, <2>2, PairAddScaledRight
  <2>4. QED
    BY <2>3, Neutral, ZeroIs
<1>4. QED
  BY <1>3 DEF Spans, f

\* The derivative falls along a search direction as fast as the residual does.
LEMMA SearchDescends ==
  ASSUME NEW inverse, NEW hessian, ConvexModel(Size, inverse, hessian), derivative \in Vec(Size),
         NEW e \in Seq(Entries(Size)), NEW entry \in Entries(Size),
         Conjugates(Size, inverse, hessian, Append(e, entry)),
         NEW x \in Vec(Size), Balances(hessian, x, entry.derivative), Spans(e, x)
  PROVE  Pair(derivative, entry.direction) = Negated(Pair(entry.derivative, entry.direction))
<1> DEFINE m == Len(e)
           f == Append(e, entry)
           p == entry.direction
<1>1. m \in Nat /\ Len(f) = m + 1 /\ f[m + 1] = entry /\ \A i \in 1 .. m : f[i] = e[i]
  OBVIOUS
<1>2. p \in Vec(Size) /\ Size \in Nat /\ hessian \in Mat(Size)
  BY DEF Entries, ConvexModel
<1>3. Apply(hessian, p) \in Vec(Size) /\ Apply(hessian, x) \in Vec(Size)
  BY <1>2, ApplyType
<1>4. ASSUME NEW i \in 1 .. m PROVE Pair(Apply(hessian, p), e[i].direction) = Zero
  <2>1. i \in 1 .. Len(f) /\ m + 1 \in 1 .. Len(f) /\ i < m + 1
    BY <1>1
  <2>2. Pair(Apply(hessian, f[i].direction), f[m + 1].direction) = Zero
    BY <2>1 DEF Conjugates
  <2>3. Pair(Apply(hessian, e[i].direction), p) = Zero /\ e[i].direction \in Vec(Size)
    BY <1>1, <2>2, EntryParts
  <2>4. QED
    BY <1>2, <2>3, ChangeSides DEF ConvexModel
<1>5. Pair(Apply(hessian, p), x) = Zero
  BY <1>3, <1>4 DEF Spans
<1>6. Pair(Apply(hessian, x), p) = Zero
  BY <1>2, <1>5, ChangeSides DEF ConvexModel
<1>7. Sum2(Pair(derivative, p), Pair(Apply(hessian, x), p)) = Negated(Pair(entry.derivative, p))
  BY <1>2 DEF Balances
<1>8. Pair(derivative, p) \in Rationals
  BY <1>2, PairType
<1>9. QED
  BY <1>6, <1>7, <1>8, Neutral

-----------------------------------------------------------------------------
(* What Newton's inner iteration solves.                                   *)

\* The searches so far, the residual they leave and the direction they build.
Passed(hessian, e, state) ==
  /\ Len(e) = state.count
  /\ Conjugates(Size, problem.inverse, hessian, e)
  /\ Reached(hessian, e, state.residual)
  /\ Balances(hessian, state.direction, state.residual)
  /\ Spans(e, state.direction)
  /\ IF state.count = 0 THEN Pair(derivative, state.direction) = Zero
     ELSE Positive(Negated(Pair(derivative, state.direction)))

Entering(state) ==
  [control |-> control, derivative |-> state.residual, direction |-> state.search]

\* The search of a running iteration goes on with the family.
Ready(hessian, e, state) ==
  /\ Conjugates(Size, problem.inverse, hessian, Append(e, Entering(state)))
  /\ Pair(state.residual, state.search) = state.pairing
  /\ state.count < InnerLimit

\* The curvature of some direction is below the tolerance.
Weak(hessian) ==
  \E x \in Vec(Size) :
    ~IsZero(x) /\ AtMost(Pair(Apply(hessian, x), x), Product(CurvatureTolerance, SquaredNorm(x)))

\* What each state of the inner iteration promises.
Solved(hessian, state) ==
  /\ state.status = "threw" => InnerLimit < Size \/ Weak(hessian)
  /\ state.status = "converged" =>
       /\ AtMost(Pair(state.residual, Riesz(state.residual)), TargetNorm)
       /\ state.count = 0 => IsZero(derivative)
  /\ state.status # "threw" =>
       \E e \in Seq(Entries(Size)) :
         /\ Passed(hessian, e, state)
         /\ state.status = "running" => Ready(hessian, e, state)

\* The outcomes of an iteration.
LEMMA InnerStepFields ==
  ASSUME NEW hessian, NEW state \in InnerStates(Size),
         NEW image, image = Apply(hessian, state.search),
         NEW step, step = Quotient(state.pairing, Pair(image, state.search)),
         NEW direction, direction = AddScaled(state.direction, step, state.search),
         NEW residual, residual = AddScaled(state.residual, Negated(step), image),
         NEW norm, norm = Pair(residual, Riesz(residual)),
         NEW next, next = InnerStep(state, hessian), state.status = "running"
  PROVE  \/ /\ next.status = "threw"
            /\ AtMost(Pair(image, state.search), Product(CurvatureTolerance, SquaredNorm(state.search)))
         \/ /\ next.direction = direction /\ next.residual = residual /\ next.count = state.count + 1
            /\ \/ next.status = "converged" /\ AtMost(norm, TargetNorm)
               \/ next.status = "threw" /\ ~AtMost(norm, TargetNorm) /\ state.count + 1 = InnerLimit
               \/ /\ next.status = "running" /\ state.count + 1 # InnerLimit /\ next.pairing = norm
                  /\ next.search = AddScaled(Riesz(residual), Quotient(norm, state.pairing), state.search)
<1> DEFINE advanced == [state EXCEPT !.direction = direction, !.residual = residual,
                                     !.count = state.count + 1]
           flat == AtMost(Pair(image, state.search), Product(CurvatureTolerance, SquaredNorm(state.search)))
           search == AddScaled(Riesz(residual), Quotient(norm, state.pairing), state.search)
<1>1. state \in [direction : Vec(Size), residual : Vec(Size), search : Vec(Size),
                 pairing : Rationals, count : Nat, status : {"running", "converged", "threw"}]
  BY DEF InnerStates
<1>2. next = IF flat THEN [state EXCEPT !.status = "threw"]
             ELSE IF AtMost(norm, TargetNorm) THEN [advanced EXCEPT !.status = "converged"]
             ELSE IF advanced.count = InnerLimit THEN [advanced EXCEPT !.status = "threw"]
             ELSE [advanced EXCEPT !.search = search, !.pairing = norm]
  BY <1>1 DEF InnerStep
<1>3. CASE flat
  BY <1>1, <1>2, <1>3
<1>4. CASE ~flat
  <2> HIDE DEF flat, search
  <2>1. advanced.count = state.count + 1 /\ advanced.status = "running"
    BY <1>1
  <2>2. CASE AtMost(norm, TargetNorm)
    <3>1. next = [advanced EXCEPT !.status = "converged"]
      BY <1>2, <1>4, <2>2
    <3>2. /\ next.status = "converged" /\ next.direction = direction /\ next.residual = residual
          /\ next.count = state.count + 1
      BY <1>1, <3>1
    <3>3. QED
      BY <2>2, <3>2
  <2>3. CASE ~AtMost(norm, TargetNorm) /\ state.count + 1 = InnerLimit
    <3>1. next = [advanced EXCEPT !.status = "threw"]
      BY <1>2, <1>4, <2>1, <2>3
    <3>2. /\ next.status = "threw" /\ next.direction = direction /\ next.residual = residual
          /\ next.count = state.count + 1
      BY <1>1, <3>1
    <3>3. QED
      BY <2>3, <3>2
  <2>4. CASE ~AtMost(norm, TargetNorm) /\ state.count + 1 # InnerLimit
    <3>1. next = [advanced EXCEPT !.search = search, !.pairing = norm]
      BY <1>2, <1>4, <2>1, <2>4
    <3>2. /\ next.status = "running" /\ next.direction = direction /\ next.residual = residual
          /\ next.count = state.count + 1 /\ next.pairing = norm /\ next.search = search
      BY <1>1, <3>1
    <3>3. QED
      BY <2>4, <3>2 DEF search
  <2>5. QED
    BY <2>2, <2>3, <2>4
<1>5. QED
  BY <1>3, <1>4

\* No search yet: the residual is the derivative, the first search its gradient.
LEMMA InnerStartSolves ==
  ASSUME Elliptic, Inv, NEW hessian, ConvexModel(Size, problem.inverse, hessian)
  PROVE  Solved(hessian, InnerStart)
<1> DEFINE residual == Opposite(derivative)
           gradient == Riesz(residual)
           pairing == Pair(residual, gradient)
           zero == [i \in DOMAIN derivative |-> Zero]
           e == <<>>
<1>1. Size \in Nat /\ derivative \in Vec(Size) /\ problem \in Problems /\ hessian \in Mat(Size)
      /\ control \in Vec(Size) /\ DOMAIN derivative = 1 .. Size
  BY GradientType, VecLen DEF Inv, Shape, ConvexModel
<1>2. residual \in Vec(Size) /\ zero \in Vec(Size) /\ IsZero(zero)
  <2>1. residual \in Vec(Size)
    BY <1>1, OppositeType
  <2>2. zero \in Vec(Size) /\ IsZero(zero)
    BY <1>1, ZeroIs DEF Vec, IsZero
  <2>3. QED
    BY <2>1, <2>2
<1>3. gradient \in Vec(Size)
  BY <1>1, <1>2, MetricTypes
<1>4. pairing \in Rationals
  BY <1>1, <1>2, <1>3, PairType
<1>5. gradient = Apply(problem.inverse, residual)
  BY DEF Riesz
<1>6. ASSUME NEW h \in Vec(Size)
      PROVE  /\ Pair(h, zero) = Zero
             /\ Sum2(Pair(derivative, h), Pair(Apply(hessian, zero), h)) = Negated(Pair(residual, h))
  <2>1. Pair(h, zero) = Zero
    BY <1>1, <1>2, PairZero, PairSymmetric
  <2>2. Pair(Apply(hessian, zero), h) = Zero
    <3>1. Apply(hessian, zero) \in Vec(Size) /\ IsZero(Apply(hessian, zero))
      BY <1>1, <1>2, ApplyType, ApplyZero
    <3>2. QED
      BY <1>1, <3>1, PairZero
  <2>3. Pair(derivative, h) \in Rationals /\ Pair(residual, h) = Negated(Pair(derivative, h))
    BY <1>1, PairType, PairOpposite
  <2>4. QED
    BY <2>1, <2>2, <2>3, Neutral, Signs
<1>7. ASSUME ~Positive(pairing) PROVE IsZero(derivative) /\ pairing = Zero
  <2>1. IsZero(residual)
    BY <1>1, <1>2, <1>7, GradientAscends
  <2>2. ASSUME NEW i \in 1 .. Size PROVE derivative[i] = Zero
    <3>1. derivative[i] \in Rationals /\ Minus1 \in Rationals
      BY <1>1, ZeroIs, Neutral DEF Vec
    <3>2. residual[i] = Product(Minus1, derivative[i]) /\ DOMAIN residual = 1 .. Size
      BY <1>1 DEF Opposite, Scaled
    <3>3. residual[i] = Zero
      BY <2>1, <3>2 DEF IsZero
    <3>4. Negated(derivative[i]) = Zero
      BY <3>1, <3>2, <3>3, Neutral
    <3>5. QED
      BY <3>1, <3>4, Signs
  <2>3. pairing = Zero
    BY <1>1, <1>2, <1>3, <2>1, PairZero
  <2>4. QED
    BY <1>1, <2>2, <2>3 DEF IsZero
<1>8. InnerStart = [direction |-> zero, residual |-> residual, search |-> gradient,
                    pairing |-> pairing, count |-> 0,
                    status |-> IF Positive(pairing) THEN "running" ELSE "converged"]
  BY DEF InnerStart
<1>9. TargetNorm \in Rationals /\ Positive(TargetNorm)
  BY InnerStartType
<1> HIDE DEF zero, residual, gradient, pairing
<1>10. Passed(hessian, e, InnerStart)
  <2>1. Conjugates(Size, problem.inverse, hessian, e) /\ Reached(hessian, e, InnerStart.residual)
    BY DEF Conjugates, Reached
  <2>2. Balances(hessian, InnerStart.direction, InnerStart.residual)
    BY <1>6, <1>8 DEF Balances
  <2>3. Spans(e, InnerStart.direction) /\ Pair(derivative, InnerStart.direction) = Zero
    BY <1>1, <1>6, <1>8 DEF Spans
  <2>4. Len(e) = InnerStart.count /\ InnerStart.count = 0
    BY <1>8
  <2>5. QED
    BY <2>1, <2>2, <2>3, <2>4 DEF Passed
<1>11. Ready(hessian, e, InnerStart)
  <2> DEFINE entry == Entering(InnerStart)
  <2>1. entry.derivative = residual /\ entry.direction = gradient
    BY <1>8 DEF Entering
  <2> HIDE DEF entry
  <2>2. ASSUME NEW h \in Vec(Size), Pair(h, entry.direction) = Zero
        PROVE  Pair(h, Apply(problem.inverse, entry.derivative)) = Zero
    BY <1>5, <2>1, <2>2
  <2>3. Conjugates(Size, problem.inverse, hessian, <<entry>>)
    BY <2>2, DirectionStarted
  <2>4. Append(e, entry) = <<entry>>
    OBVIOUS
  <2>5. Pair(InnerStart.residual, InnerStart.search) = InnerStart.pairing /\ InnerStart.count = 0
    BY <1>8 DEF pairing
  <2>6. 0 < InnerLimit
    BY ToleranceAssumption
  <2>7. QED
    BY <2>3, <2>4, <2>5, <2>6 DEF Ready, entry
<1>12. InnerStart.status = "converged" =>
         /\ AtMost(Pair(InnerStart.residual, Riesz(InnerStart.residual)), TargetNorm)
         /\ IsZero(derivative)
  <2>1. SUFFICES ASSUME InnerStart.status = "converged"
                 PROVE  /\ AtMost(pairing, TargetNorm)
                        /\ IsZero(derivative)
    BY <1>8 DEF pairing, gradient
  <2>2. IsZero(derivative) /\ pairing = Zero
    BY <1>7, <1>8, <2>1
  <2>3. AtMost(Zero, TargetNorm)
    BY <1>9, ZeroIs, AboveNonNegative, Signs DEF Positive, Zero
  <2>4. QED
    BY <2>2, <2>3
<1>13. InnerStart.status # "threw" /\ e \in Seq(Entries(Size))
  BY <1>8
<1>14. QED
  BY <1>10, <1>11, <1>12, <1>13 DEF Solved

\* An iteration of a convex model keeps what its state promises.
LEMMA InnerStepSolves ==
  ASSUME Elliptic, Inv, NEW hessian \in problem.hessians, ConvexModel(Size, problem.inverse, hessian),
         NEW state \in InnerStates(Size), state.status = "running", Solved(hessian, state)
  PROVE  Solved(hessian, InnerStep(state, hessian))
<1> DEFINE r == state.residual
           p == state.search
           pairing == state.pairing
           image == Apply(hessian, p)
           step == Quotient(pairing, Pair(image, p))
           direction == AddScaled(state.direction, step, p)
           residual == AddScaled(r, Negated(step), image)
           norm == Pair(residual, Riesz(residual))
           next == InnerStep(state, hessian)
           entry == Entering(state)
<1>1. PICK e \in Seq(Entries(Size)) : Passed(hessian, e, state) /\ Ready(hessian, e, state)
  BY DEF Solved
<1> DEFINE f == Append(e, entry)
<1>2. /\ r \in Vec(Size) /\ p \in Vec(Size) /\ state.direction \in Vec(Size)
      /\ pairing \in Rationals /\ Positive(pairing) /\ state.count \in Nat
  BY DEF InnerStates
<1>3. Size \in Nat /\ derivative \in Vec(Size) /\ control \in Vec(Size) /\ hessian \in Mat(Size)
      /\ problem \in Problems
  BY GradientType DEF Inv, Shape, ConvexModel
<1>4. Pair(r, p) = pairing /\ state.count < InnerLimit /\ InnerLimit \in Nat
  BY <1>1, ToleranceAssumption DEF Ready
<1>5. entry \in Entries(Size) /\ entry.derivative = r /\ entry.direction = p
  BY <1>2, <1>3 DEF Entries, Entering
<1>6. ~IsZero(p)
  <2>1. ASSUME IsZero(p) PROVE pairing = Zero
    BY <1>2, <1>3, <1>4, <2>1, PairZero, PairSymmetric
  <2>2. QED
    BY <1>2, <2>1, Signs
<1> HIDE DEF entry
<1>7. /\ f \in Seq(Entries(Size)) /\ f # <<>> /\ Len(f) = Len(e) + 1 /\ f[Len(f)] = entry
      /\ \A i \in 1 .. Len(e) : f[i] = e[i]
  BY <1>5
<1>8. Conjugates(Size, problem.inverse, hessian, f)
  BY <1>1 DEF Ready, entry
<1> HIDE DEF f
<1>9. \A i \in 1 .. Len(f) : ~IsZero(f[i].direction)
  <2>1. ASSUME NEW i \in 1 .. Len(f) PROVE ~IsZero(f[i].direction)
    <3>1. CASE i = Len(f)
      BY <1>5, <1>6, <1>7, <3>1
    <3>2. CASE i # Len(f)
      <4>1. i \in 1 .. Len(e)
        BY <1>1, <1>7, <3>2
      <4>2. QED
        BY <1>1, <1>7, <4>1 DEF Passed, Reached
    <3>3. QED
      BY <3>1, <3>2
  <2>2. QED
    BY <2>1
<1>10. step \in Rationals /\ Positive(step) /\ residual \in Vec(Size)
       /\ Reached(hessian, f, residual)
  BY <1>2, <1>4, <1>5, <1>7, <1>8, <1>9, IterationReaches
<1>11. Balances(hessian, direction, residual)
  BY <1>1, <1>2, <1>3, <1>10, BalanceStep DEF Passed
<1>12. Spans(f, direction)
  BY <1>1, <1>2, <1>3, <1>5, <1>10, SpanStep DEF Passed, f
<1>13. Positive(Negated(Pair(derivative, direction)))
  <2> DEFINE a == Negated(Pair(derivative, state.direction))
             b == Product(step, pairing)
  <2>1. Balances(hessian, state.direction, entry.derivative) /\ Spans(e, state.direction)
    BY <1>1, <1>5 DEF Passed
  <2>2. Pair(derivative, entry.direction) = Negated(Pair(entry.derivative, entry.direction))
    BY <1>2, <1>3, <1>5, <1>8, <2>1, SearchDescends DEF f
  <2>3. Pair(derivative, p) = Negated(pairing)
    BY <1>4, <1>5, <2>2
  <2>4. Pair(derivative, direction) = Sum2(Pair(derivative, state.direction),
                                           Product(step, Pair(derivative, p)))
    BY <1>2, <1>3, <1>10, PairAddScaledRight
  <2>5. Pair(derivative, state.direction) \in Rationals
    BY <1>2, <1>3, PairType
  <2> DEFINE c == Pair(derivative, state.direction)
  <2>6. a \in Rationals /\ NonNegative(a)
    <3>1. a \in Rationals
      BY <2>5, Closed
    <3>2. CASE state.count = 0
      <4>1. a = Negated(Zero)
        BY <1>1, <3>2 DEF Passed
      <4>2. QED
        BY <3>1, <4>1, ZeroIs, Signs
    <3>3. CASE state.count # 0
      BY <1>1, <3>1, <3>3, Signs DEF Passed
    <3>4. QED
      BY <3>1, <3>2, <3>3
  <2>7. b \in Rationals /\ Positive(b) /\ NonNegative(b)
    BY <1>2, <1>10, Closed, ProductSigns, Signs
  <2>8. Product(step, Pair(derivative, p)) = Negated(b) /\ Negated(b) \in Rationals
        /\ Negated(Negated(b)) = b
    <3>1. Product(step, Negated(pairing)) = Negated(b)
      <4> HIDE DEF step, pairing
      <4>1. QED
        BY <1>2, <1>10, NegatedProduct
    <3>2. QED
      BY <2>3, <2>7, <3>1, Closed, Signs
  <2> HIDE DEF b, c
  <2>9. Pair(derivative, direction) = Sum2(c, Negated(b))
    BY <2>4, <2>8 DEF c
  <2>10. Negated(Sum2(c, Negated(b))) = Sum2(Negated(c), b)
    BY <2>5, <2>8, NegatedSum DEF c
  <2>11. Positive(Sum2(a, b))
    BY <2>6, <2>7, SumSigns
  <2>12. QED
    BY <2>9, <2>10, <2>11 DEF c
<1>14. \/ /\ next.status = "threw"
          /\ AtMost(Pair(image, p), Product(CurvatureTolerance, SquaredNorm(p)))
       \/ /\ next.direction = direction /\ next.residual = residual /\ next.count = state.count + 1
          /\ \/ next.status = "converged" /\ AtMost(norm, TargetNorm)
             \/ next.status = "threw" /\ ~AtMost(norm, TargetNorm) /\ state.count + 1 = InnerLimit
             \/ /\ next.status = "running" /\ state.count + 1 # InnerLimit /\ next.pairing = norm
                /\ next.search = AddScaled(Riesz(residual), Quotient(norm, pairing), p)
  BY InnerStepFields
<1> DEFINE weak == AtMost(Pair(image, p), Product(CurvatureTolerance, SquaredNorm(p)))
           search == AddScaled(Riesz(residual), Quotient(norm, pairing), p)
<1>15. weak => Weak(hessian)
  BY <1>2, <1>6 DEF Weak
<1>16. Len(e) = state.count
  BY <1>1 DEF Passed
<1>17. Riesz(residual) = Apply(problem.inverse, residual)
  BY DEF Riesz
<1>18. Pair(residual, search) = norm
       /\ Conjugates(Size, problem.inverse, hessian,
                     Append(f, [control |-> control, derivative |-> residual, direction |-> search]))
  <2>1. Pair(f[Len(f)].derivative, f[Len(f)].direction) = pairing /\ f[Len(f)].direction = p
    BY <1>4, <1>5, <1>7
  <2> HIDE DEF residual, pairing, p
  <2>2. norm = Pair(residual, Apply(problem.inverse, residual))
        /\ search = AddScaled(Apply(problem.inverse, residual), Quotient(norm, pairing),
                              f[Len(f)].direction)
    BY <1>17, <2>1
  <2> HIDE DEF norm, search
  <2>3. QED
    BY <1>2, <1>3, <1>7, <1>8, <1>10, <2>1, <2>2, IterationGoesOn
<1> HIDE DEF next, direction, residual, weak, search, norm
<1>19. CASE next.status = "threw" /\ weak
  BY <1>15, <1>19 DEF Solved, next
<1>20. CASE next.status = "threw" /\ ~AtMost(norm, TargetNorm) /\ state.count + 1 = InnerLimit
  <2>1. ASSUME InnerLimit >= Size PROVE FALSE
    <3>1. \A i \in 1 .. Len(f) : Pair(residual, f[i].direction) = Zero
      BY <1>10 DEF Reached
    <3>2. \A i, j \in 1 .. Len(f) :
            i < j => Pair(Apply(hessian, f[i].direction), f[j].direction) = Zero
      BY <1>8 DEF Conjugates
    <3>3. Len(f) >= Size
      BY <1>3, <1>7, <1>16, <1>20, <2>1
    <3>4. IsZero(residual)
      BY <1>7, <1>9, <1>10, <3>1, <3>2, <3>3, DirectionsEnd
    <3>5. Riesz(residual) \in Vec(Size)
      BY <1>3, <1>10, MetricTypes
    <3>6. norm = Zero
      BY <1>3, <1>10, <3>4, <3>5, PairZero DEF norm
    <3>7. TargetNorm \in Rationals /\ NonNegative(TargetNorm)
      BY InnerStartType, Signs
    <3>8. Positive(Zero)
      BY <1>20, <3>6, <3>7, ZeroIs, AboveNonNegative
    <3>9. QED
      BY <3>8, ZeroIs, Signs
  <2>2. InnerLimit < Size
    BY <1>3, <1>4, <2>1
  <2>3. QED
    BY <1>20, <2>2 DEF Solved, next
<1>21. CASE /\ next.direction = direction /\ next.residual = residual /\ next.count = state.count + 1
            /\ next.status # "threw"
            /\ \/ next.status = "converged" /\ AtMost(norm, TargetNorm)
               \/ /\ next.status = "running" /\ state.count + 1 # InnerLimit /\ next.pairing = norm
                  /\ next.search = search
  <2>1. next.count # 0 /\ Len(f) = next.count
    BY <1>2, <1>7, <1>16, <1>21
  <2>2. Passed(hessian, f, next)
    BY <1>8, <1>10, <1>11, <1>12, <1>13, <1>21, <2>1 DEF Passed
  <2>3. next.status = "running" => Ready(hessian, f, next)
    <3>1. SUFFICES ASSUME next.status = "running" PROVE Ready(hessian, f, next)
      OBVIOUS
    <3>2. next.pairing = norm /\ next.search = search /\ next.residual = residual
          /\ next.count < InnerLimit
      BY <1>2, <1>4, <1>21, <3>1
    <3>3. Entering(next) = [control |-> control, derivative |-> residual, direction |-> search]
      BY <3>2 DEF Entering
    <3>4. QED
      BY <1>18, <3>2, <3>3 DEF Ready
  <2>4. next.status = "converged" =>
          AtMost(Pair(next.residual, Riesz(next.residual)), TargetNorm)
    BY <1>21 DEF norm
  <2>5. QED
    BY <1>7, <1>21, <2>1, <2>2, <2>3, <2>4 DEF Solved, next
<1>22. QED
  BY <1>14, <1>19, <1>20, <1>21 DEF weak, search, next, direction, residual, norm

\* So the whole iteration does, and it does not stop while it is still running.
LEMMA InnerSolves ==
  ASSUME Elliptic, Inv, NEW hessian \in problem.hessians, ConvexModel(Size, problem.inverse, hessian)
  PROVE  Solved(hessian, Inner(hessian)) /\ Inner(hessian).status # "running"
<1>1. PICK inner : Iterating(inner, hessian) /\ Inner(hessian) = inner[InnerLimit]
  BY InnerRuns
<1>2. InnerLimit \in Nat /\ InnerLimit \in 0 .. InnerLimit
  BY ToleranceAssumption
<1>3. \A i \in 0 .. InnerLimit : inner[i] \in InnerStates(Size)
  BY <1>1 DEF Iterating
<1> DEFINE T == {k \in 0 .. InnerLimit :
                   Solved(hessian, inner[k]) /\ (inner[k].status = "running" => inner[k].count = k)}
<1>4. 0 \in T
  <2>1. inner[0] = InnerStart /\ InnerStart.count = 0
    BY <1>1 DEF Iterating, InnerStart
  <2>2. QED
    BY <1>2, <2>1, InnerStartSolves
<1>5. ASSUME NEW i \in 1 .. InnerLimit, i - 1 \in T PROVE i \in T
  <2> DEFINE state == inner[i - 1]
  <2>1. i - 1 \in 0 .. InnerLimit /\ Solved(hessian, state)
        /\ (state.status = "running" => state.count = i - 1)
    BY <1>5
  <2>2. inner[i] = IF state.status # "running" THEN state ELSE InnerStep(state, hessian)
    BY <1>1 DEF Iterating
  <2>3. state \in InnerStates(Size)
    BY <1>3, <2>1
  <2> HIDE DEF state
  <2>4. CASE state.status # "running"
    BY <2>1, <2>2, <2>4
  <2>5. CASE state.status = "running"
    <3>1. inner[i] = InnerStep(state, hessian) /\ Solved(hessian, inner[i])
      BY <2>1, <2>2, <2>3, <2>5, InnerStepSolves
    <3>2. inner[i].status = "running" => inner[i].count = state.count + 1
      BY <2>3, <2>5, <3>1, InnerStepFields
    <3>3. QED
      BY <1>2, <2>1, <2>5, <3>1, <3>2
  <2>6. QED
    BY <2>4, <2>5
<1> HIDE DEF T
<1>6. InnerLimit \in T
  BY <1>2, <1>4, <1>5, IntervalInduction
<1>7. Solved(hessian, inner[InnerLimit])
      /\ (inner[InnerLimit].status = "running" => inner[InnerLimit].count = InnerLimit)
  BY <1>6 DEF T
<1>8. ASSUME inner[InnerLimit].status = "running" PROVE FALSE
  <2>1. inner[InnerLimit].count < InnerLimit
    BY <1>7, <1>8 DEF Solved, Ready
  <2>2. QED
    BY <1>2, <1>7, <1>8, <2>1
<1>9. QED
  BY <1>1, <1>7, <1>8

-----------------------------------------------------------------------------
(* Newton.                                                                 *)

\* The norm of a covector does not see its sign.
LEMMA OppositeNorm ==
  ASSUME Elliptic, problem \in Problems, NEW x \in Vec(Size), NEW y \in Vec(Size),
         \A h \in Vec(Size) : Pair(x, h) = Negated(Pair(y, h))
  PROVE  Pair(x, Riesz(x)) = Pair(y, Riesz(y))
<1>1. Size \in Nat /\ problem.inverse \in Mat(Size)
  BY Layout
<1>2. Riesz(x) \in Vec(Size) /\ Riesz(y) \in Vec(Size)
  BY MetricTypes
<1>3. SelfAdjointOn(problem.inverse, Vec(Size))
  BY DEF Elliptic, EllipticOn, Size
<1>4. Pair(y, Riesz(x)) = Pair(x, Riesz(y))
  BY <1>1, <1>3, ChangeSides DEF Riesz
<1>5. Pair(x, Riesz(x)) = Negated(Pair(y, Riesz(x))) /\ Pair(x, Riesz(y)) = Negated(Pair(y, Riesz(y)))
  BY <1>2
<1>6. Pair(y, Riesz(y)) \in Rationals
  BY <1>1, <1>2, PairType
<1>7. QED
  BY <1>4, <1>5, <1>6, Signs

\* The derivative x is within the inner tolerances of the derivative start.
Within(x, start) ==
  AtMost(Pair(x, Riesz(x)),
         Larger(InnerAbsolute, Product(InnerRelative, Pair(start, Riesz(start)))))

\* What Newton's direction is for a convex model: it descends as steeply as the model
\* curves along it, and a full step leaves a derivative within the inner tolerances.
LEMMA NewtonAnswer ==
  ASSUME Elliptic, Inv, NEW hessian \in problem.hessians, ConvexModel(Size, problem.inverse, hessian),
         Inner(hessian).status # "threw", NEW d, d = Inner(hessian).direction
  PROVE  /\ d \in Vec(Size)
         /\ Pair(Apply(hessian, d), d) = Negated(Pair(derivative, d))
         /\ ~Positive(Pair(derivative, d))
         /\ ~Stationary => Positive(Negated(Pair(derivative, d)))
         /\ Within(AddScaled(derivative, One, Apply(hessian, d)), derivative)
<1> DEFINE state == Inner(hessian)
           r == state.residual
           image == Apply(hessian, d)
           next == AddScaled(derivative, One, image)
<1>1. state \in InnerStates(Size) /\ state.status # "running" /\ Solved(hessian, state)
  BY InnerType, InnerSolves
<1> HIDE DEF state
<1>2. state.status = "converged" /\ r \in Vec(Size) /\ state.direction = d /\ d \in Vec(Size)
      /\ state.status # "threw"
  <2>1. state.direction = d /\ state.status # "threw"
    BY DEF state
  <2>2. QED
    BY <1>1, <2>1 DEF InnerStates
<1>3. PICK e \in Seq(Entries(Size)) : Passed(hessian, e, state)
  BY <1>1, <1>2 DEF Solved
<1>4. AtMost(Pair(r, Riesz(r)), TargetNorm) /\ (state.count = 0 => IsZero(derivative))
  BY <1>1, <1>2 DEF Solved
<1>5. Size \in Nat /\ derivative \in Vec(Size) /\ problem \in Problems /\ hessian \in Mat(Size)
  BY GradientType DEF Inv, ConvexModel
<1>6. image \in Vec(Size)
  BY <1>2, <1>5, ApplyType
<1>7. \A h \in Vec(Size) : Sum2(Pair(derivative, h), Pair(image, h)) = Negated(Pair(r, h))
  BY <1>2, <1>3 DEF Passed, Balances
<1> HIDE DEF image, r
<1>8. Pair(r, d) = Zero
  <2>1. \A i \in 1 .. Len(e) : Pair(r, e[i].direction) = Zero
    BY <1>3 DEF Passed, Reached, r
  <2>2. Spans(e, d)
    BY <1>2, <1>3 DEF Passed
  <2>3. QED
    BY <1>2, <2>1, <2>2 DEF Spans
<1>9. Pair(image, d) = Negated(Pair(derivative, d))
  <2> DEFINE a == Pair(derivative, d)
             b == Pair(image, d)
  <2>1. a \in Rationals /\ b \in Rationals
    BY <1>2, <1>5, <1>6, PairType
  <2>2. Sum2(a, b) = Zero
    <3>1. Sum2(a, b) = Negated(Zero)
      BY <1>2, <1>7, <1>8
    <3>2. QED
      BY <3>1, ZeroIs, Signs
  <2> HIDE DEF a, b
  <2>3. Negated(a) \in Rationals /\ Sum2(Negated(a), a) = Zero
    <3>1. Negated(a) \in Rationals
      BY <2>1, Closed
    <3>2. Sum2(Negated(a), a) = Sum2(a, Negated(a))
      BY <2>1, <3>1, SumCommutes
    <3>3. QED
      BY <2>1, <3>1, <3>2, Neutral
  <2>4. Sum2(Sum2(Negated(a), a), b) = Sum2(Negated(a), Sum2(a, b))
    BY <2>1, <2>3, SumAssociates
  <2>5. b = Negated(a)
    BY <2>1, <2>2, <2>3, <2>4, Neutral
  <2>6. QED
    BY <2>5 DEF a, b
<1>10. ~Stationary => Positive(Negated(Pair(derivative, d)))
  BY <1>2, <1>3, <1>4 DEF Passed, Stationary
<1>11. ~Positive(Pair(derivative, d))
  <2>1. Pair(derivative, d) \in Rationals
    BY <1>2, <1>5, PairType
  <2>2. CASE Stationary
    <3>1. Pair(derivative, d) = Zero
      BY <1>2, <1>5, <2>2, PairZero DEF Stationary
    <3>2. QED
      BY <2>1, <3>1, Signs
  <2>3. CASE ~Stationary
    <3>1. Negated(Pair(derivative, d)) \in Rationals
          /\ Negated(Negated(Pair(derivative, d))) = Pair(derivative, d)
      BY <2>1, Closed, Signs
    <3>2. QED
      BY <1>10, <2>3, <3>1, Signs
  <2>4. QED
    BY <2>2, <2>3
<1>12. Within(next, derivative)
  <2>1. next \in Vec(Size)
    BY <1>5, <1>6, OneIs, CombinationTypes
  <2>2. ASSUME NEW h \in Vec(Size) PROVE Pair(next, h) = Negated(Pair(r, h))
    <3>1. Pair(next, h) = Sum2(Pair(derivative, h), Product(One, Pair(image, h)))
      BY <1>5, <1>6, OneIs, PairAddScaled
    <3>2. Product(One, Pair(image, h)) = Pair(image, h)
      BY <1>5, <1>6, PairType, Neutral
    <3>3. QED
      BY <1>7, <3>1, <3>2
  <2>3. Pair(next, Riesz(next)) = Pair(r, Riesz(r))
    <3> HIDE DEF next
    <3>1. r \in Vec(Size)
      BY <1>2 DEF r
    <3>2. QED
      BY <1>5, <2>1, <2>2, <3>1, OppositeNorm
  <2>4. InnerStart.pairing = Pair(derivative, Riesz(derivative))
    <3> DEFINE o == Opposite(derivative)
    <3>1. InnerStart.pairing = Pair(o, Riesz(o)) /\ o \in Vec(Size)
      BY <1>5, OppositeType DEF InnerStart
    <3>2. \A h \in Vec(Size) : Pair(o, h) = Negated(Pair(derivative, h))
      BY <1>5, PairOpposite
    <3> HIDE DEF o
    <3>3. QED
      BY <1>5, <3>1, <3>2, OppositeNorm
  <2>5. QED
    BY <1>4, <2>3, <2>4 DEF Within, TargetNorm
<1>13. QED
  BY <1>2, <1>9, <1>10, <1>11, <1>12 DEF image

\* Newton on a quadratic keeps one entry, whose direction solves within the tolerances.
Stepping ==
  problem.quadratic /\ policy.kind = "newton" =>
    /\ Len(trail) <= 1
    /\ phase = "moving" =>
         /\ Len(trail) = 1
         /\ trail[1].derivative = derivative /\ trail[1].direction = answer.direction
         /\ \A hessian \in problem.hessians :
              /\ Pair(Apply(hessian, answer.direction), answer.direction) = Negated(answer.slope)
              /\ Within(AddScaled(derivative, One, Apply(hessian, answer.direction)), derivative)
    /\ phase = "asking" /\ calls > 0 => trail # <<>>
    /\ phase = "asking" /\ trail # <<>> =>
         /\ Within(derivative, trail[1].derivative)
         /\ ~IsZero(trail[1].direction) /\ Pair(derivative, trail[1].direction) = Zero
         /\ problem.hessians # {}

\* A call of Newton's policy keeps it.
LEMMA NewtonSteps ==
  ASSUME Elliptic, OneHessian, Inv, Stepping, Newton
  PROVE  Stepping'
<1>1. phase = "asking" /\ calls < Calls /\ policy.kind = "newton"
  BY DEF Newton, Asked
<1>2. PICK hessian \in problem.hessians :
        IF Inner(hessian).status = "threw" \/ Positive(Pair(derivative, Inner(hessian).direction))
        THEN Throw(2 + Inner(hessian).count)
        ELSE Return(Inner(hessian).direction, TRUE, 2 + Inner(hessian).count,
                    2 + Inner(hessian).count, Inner(hessian).count)
  BY DEF Newton
<1> DEFINE result == Inner(hessian)
           d == result.direction
           entry == [control |-> control, derivative |-> derivative, direction |-> d]
<1>3. CASE result.status = "threw" \/ Positive(Pair(derivative, d))
  <2>1. phase' = "contract_error" /\ UNCHANGED <<problem, policy, trail>>
    BY <1>2, <1>3 DEF Throw, iterate
  <2>2. QED
    BY <2>1 DEF Stepping
<1>4. CASE ~(result.status = "threw" \/ Positive(Pair(derivative, d)))
  <2>1. Return(d, TRUE, 2 + result.count, 2 + result.count, result.count)
    BY <1>2, <1>4
  <2> HIDE DEF result, d
  <2>2. /\ answer'.direction = d /\ answer'.slope = Pair(derivative, d) /\ trail' = <<entry>>
        /\ UNCHANGED <<problem, policy, derivative>> /\ phase' # "asking"
    BY <2>1 DEF Return, iterate, LoopHead
  <2>3. Len(trail') = 1 /\ trail'[1].derivative = derivative /\ trail'[1].direction = d
    BY <2>2
  <2> HIDE DEF entry
  <2>4. ASSUME problem.quadratic, NEW other \in problem.hessians
        PROVE  /\ Pair(Apply(other, d), d) = Negated(Pair(derivative, d))
               /\ Within(AddScaled(derivative, One, Apply(other, d)), derivative)
    <3>1. ConvexModel(Size, problem.inverse, hessian) /\ other = hessian
      BY <2>4, QuadraticIsConvex
    <3>2. Inner(hessian).status # "threw" /\ d = Inner(hessian).direction
      BY <1>4 DEF result, d
    <3>3. QED
      BY <3>1, <3>2, NewtonAnswer
  <2>5. ASSUME problem.quadratic, NEW other \in problem'.hessians
        PROVE  /\ Pair(Apply(other, answer'.direction), answer'.direction) = Negated(answer'.slope)
               /\ Within(AddScaled(derivative, One, Apply(other, answer.direction)), derivative)'
    BY <2>2, <2>4, <2>5 DEF Within, Riesz
  <2>6. QED
    BY <2>2, <2>3, <2>5 DEF Stepping, Within, Riesz
<1>5. QED
  BY <1>3, <1>4

\* The exact search takes the full step.
LEMMA FullStep ==
  ASSUME Elliptic, OneHessian, Inv, Stepping, Move, problem.quadratic, policy.kind = "newton"
  PROVE  \E hessian \in problem.hessians :
           derivative' = AddScaled(derivative, One, Apply(hessian, answer.direction))
<1> DEFINE d == answer.direction
           slope == answer.slope
           c == Negated(slope)
<1>1. phase = "moving" /\ ExactStep
  BY DEF Move, InexactStep
<1>2. PICK hessian \in problem.hessians :
        derivative' = AddScaled(derivative, Quotient(c, Pair(Apply(hessian, d), d)), Apply(hessian, d))
  BY <1>1 DEF ExactStep
<1>3. Pair(Apply(hessian, d), d) = c
  BY <1>1 DEF Stepping
<1>4. c \in Rationals /\ Positive(c)
  BY <1>1, Closed DEF Inv, Answered
<1> HIDE DEF c
<1>5. Quotient(c, c) = One
  <2> DEFINE q == Quotient(c, c)
  <2>1. q \in Rationals /\ Product(q, c) = c /\ c # Zero
    BY <1>4, QuotientSigns, QuotientProduct, Signs
  <2> HIDE DEF q
  <2>2. Minus1 \in Rationals /\ Product(One, c) = c /\ Negated(c) \in Rationals
        /\ Sum2(c, Negated(c)) = Zero
    BY <1>4, Neutral, Closed
  <2>3. Negated(One) \in Rationals /\ Product(Negated(One), c) = Negated(c)
    BY <1>4, <2>2, OneIs, Closed, NegatedProduct
  <2>4. Difference(q, One) \in Rationals
    BY <2>1, OneIs, Closed
  <2>5. Product(Sum2(q, Negated(One)), c) = Sum2(Product(q, c), Product(Negated(One), c))
    BY <1>4, <2>1, <2>3, DistributesRight
  <2>6. Product(Difference(q, One), c) = Zero
    BY <2>1, <2>2, <2>3, <2>5 DEF Difference
  <2>7. Difference(q, One) = Zero
    BY <1>4, <2>1, <2>4, <2>6, ProductSigns
  <2>8. Sum2(Difference(q, One), One) = q
    BY <2>1, OneIs, AtMostSign
  <2>9. QED
    BY <2>7, <2>8, OneIs, Neutral DEF q
<1>6. QED
  BY <1>2, <1>3, <1>5

\* The line search ends within the inner tolerances.
LEMMA MoveSteps ==
  ASSUME Elliptic, OneHessian, Inv, Stepping, Move
  PROVE  Stepping'
<1>1. SUFFICES ASSUME problem.quadratic, policy.kind = "newton" PROVE Stepping'
  BY DEF Stepping, Move
<1>2. /\ phase = "moving" /\ phase' = "asking" /\ ExactStep
      /\ UNCHANGED <<problem, policy, trail, calls>>
  BY <1>1 DEF Move, InexactStep
<1>3. PICK hessian \in problem.hessians :
        derivative' = AddScaled(derivative, One, Apply(hessian, answer.direction))
  BY <1>1, FullStep
<1>4. /\ Len(trail) = 1 /\ trail[1].derivative = derivative /\ trail[1].direction = answer.direction
      /\ Within(AddScaled(derivative, One, Apply(hessian, answer.direction)), derivative)
  BY <1>1, <1>2 DEF Stepping
<1>5. ~IsZero(answer.direction) /\ Pair(derivative', answer.direction) = Zero
  BY <1>2, DescentMoves, ExactStepResult
<1>6. Within(derivative', derivative)
  BY <1>3, <1>4
<1>7. trail # <<>> /\ problem.hessians # {}
  BY <1>4
<1>8. Within(derivative, trail[1].derivative)'
  BY <1>2, <1>4, <1>6 DEF Within, Riesz
<1>9. QED
  BY <1>2, <1>4, <1>5, <1>7, <1>8 DEF Stepping

\* Every step keeps it.
LEMMA SteppingStep ==
  ASSUME Elliptic, OneHessian, Inv, Stepping, [Next]_vars
  PROVE  Stepping'
<1>1. CASE SteepestDescent \/ ConjugateGradient \/ LimitedMemoryBfgs \/ FullBfgs
  <2>1. policy.kind # "newton" /\ UNCHANGED policy
    BY <1>1 DEF SteepestDescent, ConjugateGradient, LimitedMemoryBfgs, FullBfgs, Asked, Keep,
                QuasiNewton, FirstQuasiNewton, Drop, Return, Throw, iterate
  <2>2. QED
    BY <2>1 DEF Stepping
<1>2. CASE Newton
  BY <1>2, NewtonSteps
<1>3. CASE Move
  BY <1>3, MoveSteps
<1>4. CASE UNCHANGED vars
  BY <1>4 DEF vars, Stepping, Within, Riesz
<1>5. QED
  BY <1>1, <1>2, <1>3, <1>4 DEF Next

\* Newton's step on a quadratic has what the property asks of it.
LEMMA NewtonEnds ==
  ASSUME Elliptic, OneHessian, Inv, Stepping, problem.quadratic, policy.kind = "newton"
  PROVE  QuadraticTermination
<1>1. Size \in Nat /\ derivative \in Vec(Size) /\ Len(control) = Size
      /\ trail \in Seq(Entries(Size)) /\ Len(trail) <= 1 /\ calls \in Nat
  BY GradientType, VecLen DEF Inv, Ledger, Stepping
<1>2. \A i, j \in 1 .. Len(trail) : ~(i < j)
  BY <1>1
<1>3. ASSUME phase = "asking", Len(trail) >= Len(control) PROVE Stationary
  <2>1. CASE trail = <<>>
    <3>1. Size = 0
      BY <1>1, <1>3, <2>1
    <3>2. QED
      BY <1>1, <3>1, VecLen DEF Stationary, IsZero
  <2>2. CASE trail # <<>>
    <3>1. PICK hessian \in problem.hessians : TRUE
      BY <1>3, <2>2 DEF Stepping
    <3>2. ConvexModel(Size, problem.inverse, hessian)
      BY QuadraticIsConvex
    <3>3. Len(trail) = 1
      <4>1. trail \in Seq(Entries(Size)) /\ Len(trail) <= 1
        BY <1>1
      <4>2. Len(trail) \in Nat /\ Len(trail) # 0
        BY <2>2, <4>1
      <4>3. QED
        BY <4>1, <4>2
    <3>4. \A i \in 1 .. Len(trail) :
            Pair(derivative, trail[i].direction) = Zero /\ ~IsZero(trail[i].direction)
      BY <1>3, <2>2, <3>3 DEF Stepping
    <3>5. QED
      BY <1>1, <1>2, <1>3, <3>2, <3>4, DirectionsEnd DEF Stationary
  <2>3. QED
    BY <2>1, <2>2
<1>4. phase = "asking" /\ calls > 0 => Within(derivative, trail[1].derivative)
  BY DEF Stepping
<1>5. QED
  BY <1>2, <1>3, <1>4 DEF QuadraticTermination, Within, Gradient

-----------------------------------------------------------------------------
(* The theorems on quadratics and on Newton.                               *)

\* On a quadratic with one self-adjoint Hessian and the exact search, every policy
\* searches along conjugate directions, needs no more of them than there are
\* coefficients, the recurrences neither restart nor throw before that, and one step
\* of Newton comes within the tolerances of its inner iteration.
THEOREM Termination ==
  ASSUME Elliptic, OneHessian
  PROVE  Spec => []QuadraticTermination
<1>1. Init => Stepping
  <2>1. SUFFICES ASSUME Init PROVE Stepping
    OBVIOUS
  <2>2. trail = <<>> /\ phase = "asking" /\ calls = 0
    BY <2>1 DEF Init
  <2>3. QED
    BY <2>2 DEF Stepping
<1>2. Inv /\ Stepping /\ [Next]_vars => Stepping'
  BY SteppingStep
<1>3. Inv /\ Stepping /\ (policy.kind # "newton" => QuadraticTermination) => QuadraticTermination
  <2>1. SUFFICES ASSUME Inv, Stepping, policy.kind = "newton" PROVE QuadraticTermination
    OBVIOUS
  <2>2. CASE problem.quadratic
    BY <2>1, <2>2, NewtonEnds
  <2>3. CASE ~problem.quadratic
    BY <2>3 DEF QuadraticTermination
  <2>4. QED
    BY <2>2, <2>3
<1>4. QED
  BY <1>1, <1>2, <1>3, Invariance, ConjugateTermination, PTL DEF Spec

\* A matrix without weak directions is coercive.
LEMMA StrongIsConvex ==
  ASSUME Elliptic, problem \in Problems, NEW hessian \in problem.hessians, ~Weak(hessian),
         SelfAdjointOn(hessian, Vec(Size))
  PROVE  ConvexModel(Size, problem.inverse, hessian)
<1>1. Size \in Nat /\ problem.inverse \in Mat(Size) /\ problem.metric \in Mat(Size) /\ hessian \in Mat(Size)
  BY Layout
<1>2. PositiveOn(problem.inverse, Vec(Size)) /\ SelfAdjointOn(problem.inverse, Vec(Size))
      /\ PositiveOn(problem.metric, Vec(Size))
  BY DEF Elliptic, EllipticOn, Size
<1>3. ASSUME NEW x \in Vec(Size), ~IsZero(x) PROVE Positive(Pair(Apply(hessian, x), x))
  <2> DEFINE norm == SquaredNorm(x)
             curvature == Pair(Apply(hessian, x), x)
  <2>1. curvature \in Rationals /\ norm \in Rationals
    <3>1. Apply(hessian, x) \in Vec(Size) /\ norm \in Rationals
      BY <1>1, ApplyType, MetricTypes
    <3>2. QED
      BY <1>1, <3>1, PairType
  <2>2. NonNegative(norm)
    <3>1. Positive(norm)
      BY <1>2, <1>3 DEF PositiveOn, SquaredNorm
    <3>2. QED
      BY <2>1, <3>1, Signs
  <2>3. ~AtMost(curvature, Product(CurvatureTolerance, norm))
    BY <1>3 DEF Weak
  <2> HIDE DEF norm, curvature
  <2>4. CurvatureTolerance \in Rationals /\ NonNegative(CurvatureTolerance)
    BY ToleranceAssumption, Signs
  <2>5. Product(CurvatureTolerance, norm) \in Rationals
        /\ NonNegative(Product(CurvatureTolerance, norm))
    BY <2>1, <2>2, <2>4, Closed, ProductSigns
  <2>6. Positive(curvature)
    BY <2>1, <2>3, <2>5, AboveNonNegative
  <2>7. QED
    BY <2>6 DEF curvature
<1>4. QED
  BY <1>1, <1>2, <1>3 DEF ConvexModel, PositiveOn

\* Why Newton may end a solve: too few inner iterations for the size, a Hessian that is
\* not self-adjoint, or one with a direction of curvature below the tolerance.
NewtonContract ==
  policy.kind = "newton" /\ phase = "contract_error" =>
    \E hessian \in problem.hessians :
      InnerLimit < Size \/ ~SelfAdjointOn(hessian, Vec(Size)) \/ Weak(hessian)

\* Newton's call keeps it.
LEMMA NewtonKeepsContract ==
  ASSUME Elliptic, Inv, Newton
  PROVE  NewtonContract'
<1>1. phase = "asking" /\ calls < Calls /\ policy.kind = "newton"
  BY DEF Newton, Asked
<1>2. PICK hessian \in problem.hessians :
        IF Inner(hessian).status = "threw" \/ Positive(Pair(derivative, Inner(hessian).direction))
        THEN Throw(2 + Inner(hessian).count)
        ELSE Return(Inner(hessian).direction, TRUE, 2 + Inner(hessian).count,
                    2 + Inner(hessian).count, Inner(hessian).count)
  BY DEF Newton
<1> DEFINE bad == InnerLimit < Size \/ ~SelfAdjointOn(hessian, Vec(Size)) \/ Weak(hessian)
<1>3. UNCHANGED <<problem, policy, Size>>
  BY <1>2 DEF Throw, Return, iterate, Size
<1>4. bad => NewtonContract'
  <2>1. SUFFICES ASSUME bad PROVE NewtonContract'
    OBVIOUS
  <2>2. InnerLimit < Size' \/ ~SelfAdjointOn(hessian, Vec(Size')) \/ Weak(hessian)'
    BY <1>3, <2>1 DEF Weak, SquaredNorm
  <2>3. QED
    BY <1>3, <2>2 DEF NewtonContract
<1>5. CASE ~bad
  <2> DEFINE result == Inner(hessian)
             d == result.direction
  <2>1. ConvexModel(Size, problem.inverse, hessian) /\ Shape /\ Ledger
    BY <1>5, StrongIsConvex DEF Inv, Shape
  <2>2. result \in InnerStates(Size) /\ Solved(hessian, result) /\ result.status # "threw"
    <3>1. result \in InnerStates(Size) /\ Solved(hessian, result)
      BY <2>1, InnerType, InnerSolves
    <3>2. QED
      BY <1>5, <3>1 DEF Solved
  <2>3. /\ d \in Vec(Size) /\ ~Positive(Pair(derivative, d))
        /\ ~Stationary => Positive(Negated(Pair(derivative, d)))
    BY <2>1, <2>2, NewtonAnswer
  <2>4. Return(d, TRUE, 2 + result.count, 2 + result.count, result.count)
    BY <1>2, <2>2, <2>3
  <2>5. result.count \in Nat
    BY <2>2 DEF InnerStates
  <2> HIDE DEF result, d
  <2>6. 2 + result.count \in Nat /\ 2 + result.count \in 0 .. 2 + result.count
    BY <2>5
  <2>7. phase' = "contract_error" =>
          ~Positive(Negated(Pair(derivative, d))) /\ ~IsZero(derivative)
    BY <1>1, <2>1, <2>3, <2>4, <2>6, Returned
  <2>8. phase' # "contract_error"
    BY <2>3, <2>7 DEF Stationary
  <2>9. QED
    BY <2>8 DEF NewtonContract
<1>6. QED
  BY <1>4, <1>5

\* On a Hessian that is self-adjoint and coercive above the curvature tolerance, with
\* as many inner iterations as there are coefficients, Newton never ends a solve with
\* an exception, whatever model the outer search moves on.
THEOREM NewtonEndsByContract ==
  ASSUME Elliptic
  PROVE  Spec => []NewtonContract
<1>1. Init => NewtonContract
  <2>1. SUFFICES ASSUME Init PROVE NewtonContract
    OBVIOUS
  <2>2. phase = "asking"
    BY <2>1 DEF Init
  <2>3. QED
    BY <2>2 DEF NewtonContract
<1>2. Inv /\ NewtonContract /\ [Next]_vars => NewtonContract'
  <2>1. SUFFICES ASSUME Inv, NewtonContract, [Next]_vars PROVE NewtonContract'
    OBVIOUS
  <2>2. CASE SteepestDescent \/ ConjugateGradient \/ LimitedMemoryBfgs \/ FullBfgs
    <3>1. policy.kind # "newton" /\ UNCHANGED policy
      BY <2>2 DEF SteepestDescent, ConjugateGradient, LimitedMemoryBfgs, FullBfgs, Asked, Keep,
                  QuasiNewton, FirstQuasiNewton, Drop, Return, Throw, iterate
    <3>2. QED
      BY <3>1 DEF NewtonContract
  <2>3. CASE Newton
    BY <2>1, <2>3, NewtonKeepsContract
  <2>4. CASE Move
    <3>1. phase' = "asking"
      BY <2>4 DEF Move
    <3>2. QED
      BY <3>1 DEF NewtonContract
  <2>5. CASE UNCHANGED vars
    <3>1. UNCHANGED <<problem, policy, phase, Size>>
      BY <2>5 DEF vars, Size
    <3>2. QED
      BY <2>1, <3>1 DEF NewtonContract, Weak, SquaredNorm
  <2>6. QED
    BY <2>1, <2>2, <2>3, <2>4, <2>5 DEF Next
<1>3. QED
  BY <1>1, <1>2, Invariance, PTL DEF Spec
=============================================================================
