---------------------------- MODULE MCTrustRegion ----------------------------
\* Four objective values, gradients that are zero, tiny, small or large, and
\* predictions that make the ratio reject, shrink, keep and expand.
EXTENDS TrustRegion

MCObjectives == 0 .. 3
MCNorms == {0, 1, 4}
MCPredictions == {1, 2, 3, 5}
MCAllCriteria == {"automatic", "gradient_norm", "relative_gradient_norm",
                  "objective_change", "step_norm"}
=============================================================================
