------------------------------- MODULE MCPDAS -------------------------------
\* Two coefficients with different boxes and Riesz weights.  A free solve gives
\* 1 or 3: coefficient 1 lands inside its box or above it, coefficient 2 below
\* its box or on its upper bound.
EXTENDS PDAS

MCLower == [i \in Controls |-> IF i = 1 THEN 0 ELSE 2]
MCUpper == [i \in Controls |-> IF i = 1 THEN 2 ELSE 3]
MCRiesz == [i \in Controls |-> i]
MCForces == {-2, 0, 1}
=============================================================================
