--------------------------- MODULE MCReducedSearch ---------------------------
\* Every line search, stopping criterion, projection and target that goes
\* together; steps 4, 2, 1 with a floor of 2 for Armijo; gradients that vanish,
\* are within the tolerance and large; a slope that asks for more decrease than
\* any and one that asks for a little.
EXTENDS ReducedSearch

MCSlopes == {-6, -2, 1}
MCNorms == {0, 1, 4}
MCCosts == {[metric |-> 1, hessian |-> 0, reset |-> 0],
            [metric |-> 3, hessian |-> 1, reset |-> 1]}
MCPolicies == {p \in [criterion : Criteria, search : Searches, projected : BOOLEAN,
                      target : {NoTarget, 0}] :
                 p.projected => p.search # "exact_quadratic"}
=============================================================================
