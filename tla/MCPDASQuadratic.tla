--------------------------- MODULE MCPDASQuadratic ---------------------------
\* H = [2, h; h, 2] with h = -1, 0, 1; the box is [0, 6] x [-6, 0].
EXTENDS PDASQuadratic

MCLower == [i \in Controls |-> IF i = 1 THEN 0 ELSE -6]
MCUpper == [i \in Controls |-> IF i = 1 THEN 6 ELSE 0]
MCRiesz == [i \in Controls |-> 1]
MCCouplings == {-1, 0, 1}
MCLoads == {-24, -12, -6, 0, 6, 12, 24}
MCControlValues == {-6, 0, 6}
MCForces == {-12, 0, 12}
=============================================================================
