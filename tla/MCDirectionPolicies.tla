------------------------- MODULE MCDirectionPolicies -------------------------
\* Quadratics in two and three coefficients with two metrics, and arbitrary
\* models on a small grid with a Hessian that may be indefinite.
EXTENDS DirectionPolicies

Identity(n) == [i \in 1 .. n |-> [j \in 1 .. n |-> IF i = j THEN 1 ELSE 0]]
Sheared == <<<<1, -1>>, <<-1, 2>>>>
ShearedInverse == <<<<2, 1>>, <<1, 1>>>>

\* The derivatives are those at the origin.
Problem(quadratic, metric, inverse, hessians, derivatives) ==
  [quadratic |-> quadratic, metric |-> WholeMatrix(metric),
   inverse |-> WholeMatrix(inverse), hessians |-> {WholeMatrix(h) : h \in hessians},
   starts |-> {[control |-> [i \in DOMAIN v |-> Zero], derivative |-> Whole(v)] : v \in derivatives}]

MCProblems ==
  {Problem(TRUE, Identity(2), Identity(2), {Identity(2)}, {<<0, 0>>, <<1, -1>>}),
   Problem(TRUE, Identity(2), Identity(2), {<<<<1, 1>>, <<1, 2>>>>}, {<<1, 0>>, <<1, 2>>}),
   Problem(TRUE, Sheared, ShearedInverse, {<<<<1, 0>>, <<0, 2>>>>}, {<<-1, 2>>, <<1, -1>>}),
   Problem(TRUE, Identity(3), Identity(3),
           {<<<<1, 1, 0>>, <<1, 2, 1>>, <<0, 1, 2>>>>}, {<<1, 0, 0>>}),
   Problem(FALSE, Sheared, ShearedInverse, {Identity(2), <<<<1, 0>>, <<0, -1>>>>},
           {<<0, 0>>, <<1, 0>>, <<1, -1>>, <<-1, -2>>})}

\* The sampled problems are elliptic, and the quadratics have one self-adjoint Hessian,
\* on the vectors with coefficients -1, 0 and 1.
ASSUME EllipticAssumption ==
  \A p \in MCProblems :
    LET sample == [1 .. Len(p.metric) -> {Rat(x, 1) : x \in -1 .. 1}]
    IN  EllipticOn(p, sample) /\ OneHessianOn(p, sample)

MCPolicies ==
  {p \in [kind : Kinds, update : Updates, interval : {0, 1, 2}, memory : {1, 2}, scaling : Scalings] :
     /\ p.kind = "nonlinear_cg" <=> p.update # "none"
     /\ p.kind = "limited_memory_bfgs" <=> p.scaling # "none"
     /\ p.kind # "nonlinear_cg" => p.interval = 0
     /\ p.kind # "limited_memory_bfgs" => p.memory = 1}

MCControls == {Whole(<<x, y>>) : x \in -2 .. 2, y \in -2 .. 2}
MCDerivatives == {Whole(v) : v \in {<<0, 0>>, <<1, 0>>, <<-1, 1>>, <<0, -1>>, <<2, 1>>}}
MCCurvatureTolerance == Rat(1, 50)
MCSquaredTolerance == Rat(1, 400)
MCInnerAbsolute == Rat(1, 1000)
MCInnerRelative == Rat(1, 1000)
=============================================================================
