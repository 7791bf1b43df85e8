------------------------------ MODULE MCRunSet -------------------------------
\* Two invocations of a plan whose first combination depends on its second; the
\* named slot is the first automatic number.
EXTENDS RunSet

MCPlan == <<"quasi", "steepest">>
MCReferences == {"steepest"}
MCCoordinate == [a \in {"quasi", "steepest"} |-> "beta"]
MCSlot == "001"
MCNumbered == <<"001", "002", "003">>

\* The pairs that can meet in one directory, and one that cannot.
MCKinds == {<<"reproduction", "reproduction">>, <<"slot", "slot">>,
            <<"slot", "next">>, <<"next", "slot">>}
MCPolicies == {<<TRUE, TRUE>>, <<TRUE, FALSE>>}
MCMatched == {<<TRUE, TRUE>>}
=============================================================================
