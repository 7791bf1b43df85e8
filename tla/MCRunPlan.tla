------------------------------ MODULE MCRunPlan ------------------------------
(* Parameter files one or two edits away from the tracked B1 and B2 files. *)
EXTENDS RunPlan, TLC

Steepest == <<"steepest">>
Limited == <<"l", "bfgs">>
Full == <<"bfgs">>
Nothing == [x \in {} |-> NoValue]
NoEntries == [x \in {} |-> 0]

B1 == [benchmark |-> "b1",
       matrix |-> "method" :> <<Steepest, Limited>> @@ "regularisation" :> <<<<"1">>, <<"2">>>>,
       selection |-> Nothing, excluded |-> <<>>, method |-> NoValue,
       forcing |-> <<<<"half">>>>,
       definitions |-> [a \in {"forcing"} \cup Standard |->
                          IF a = "forcing" THEN {<<"half">>} ELSE {}],
       solver |-> "iterations" :> 2 @@ "reductions" :> 1,
       policies |-> Limited :> ("trials" :> 1),
       target |-> "none", reference |-> Steepest]

Matrix(f, axis, values) == [f EXCEPT !.matrix = (axis :> values) @@ @]
Without(f, axis) ==
  [f EXCEPT !.matrix = [a \in DOMAIN @ \ {axis} |-> @[a]],
            !.definitions = [a \in DOMAIN @ |-> IF a = axis THEN {} ELSE @[a]]]
Exclusion(m, r) == <<<<"method", m>>, <<"regularisation", r>>>>

B1Matrices == {B1, Without(B1, "regularisation"), Matrix(B1, "forcing", <<<<"half">>>>)}
  \cup {Matrix(B1, "method", ms) : ms \in {<<Steepest, Full>>, <<Steepest, Steepest>>, <<>>}}
  \cup {Matrix(B1, "regularisation", rs) : rs \in {<<<<"x">>>>, <<<<"1">>, <<"/">>>>}}
B1Selections == {[B1 EXCEPT !.selection = s] :
  s \in {"method" :> <<Limited>>, "method" :> <<Limited, Steepest>>, "regularisation" :> <<<<"3">>>>,
         "method" :> <<>> @@ "regularisation" :> <<<<"2">>, <<"1">>>>}}
B1Exclusions == {[B1 EXCEPT !.excluded = e] :
  e \in {<<Exclusion(Steepest, <<"2">>)>>, <<Exclusion(Steepest, <<"2">>), Exclusion(Limited, <<"1">>)>>,
         <<Exclusion(Steepest, <<"2">>), Exclusion(Steepest, <<"2">>)>>,
         <<Exclusion(Steepest, <<"3">>)>>, <<<<<<"method", Steepest>>>>>>,
         <<Exclusion(Steepest, <<"1">>) \o <<<<"method", Limited>>>>>>}}
B1Solvers == {[B1 EXCEPT !.solver = s, !.policies = p] :
  s \in {"iterations" :> 2 @@ "trials" :> 2, "iterations" :> 2 @@ "trials" :> 1 @@ "reductions" :> 1,
         "reductions" :> 3},
  p \in {NoEntries, Limited :> ("reductions" :> 3 @@ "iterations" :> 1), Limited :> ("reductions" :> 0),
         Steepest :> ("reductions" :> 2 @@ "trials" :> 1), Full :> ("trials" :> 1)}}
B1Targets == {[B1 EXCEPT !.target = "match", !.reference = m] : m \in {Steepest, Full, <<"newton">>, NoValue}}
B1Others == {[B1 EXCEPT !.benchmark = "unregistered"], [B1 EXCEPT !.benchmark = "unknown"],
             [B1 EXCEPT !.forcing = <<>>]}

B2 == [B1 EXCEPT !.benchmark = "b2", !.method = Full,
       !.matrix = "observation-region" :> <<<<"wings">>, <<"wings", "full">>>>
                    @@ "target-profile" :> <<<<"flat">>, <<"steep">>>>,
       !.definitions = [a \in {"forcing"} \cup Standard |->
          IF a = "forcing" THEN {<<"half">>}
          ELSE IF a = "target-profile" THEN {<<"flat">>, <<"steep">>}
          ELSE {<<"wings">>, <<"wings", "full">>}],
       !.policies = Full :> ("curvature" :> 0)]

B2Files == {B2, Without(B2, "target-profile"),
            Matrix(B2, "regularisation", <<<<"1">>, <<"x">>>>),
            Matrix(B2, "target-profile", <<<<"full", "flat">>, <<"flat">>>>),
            [Matrix(B2, "target-profile", <<<<"full", "flat">>, <<"flat">>>>) EXCEPT
               !.definitions["target-profile"] = {<<"full", "flat">>, <<"flat">>}],
            Matrix(B2, "forcing", <<<<"half">>>>),
            [Matrix(B2, "forcing", <<<<"half">>>>) EXCEPT !.forcing = <<>>],
            [B2 EXCEPT !.selection = "forcing" :> <<<<"none">>>> @@ "target-profile" :> <<<<"steep">>>>],
            [B2 EXCEPT !.policies = NoEntries], [B2 EXCEPT !.method = Limited],
            [B2 EXCEPT !.definitions["target-profile"] = {<<"flat">>}],
            [Without(Without(B2, "target-profile"), "observation-region") EXCEPT
               !.matrix = "regularisation" :> <<<<"1">>>>]}

MCFiles == UNION {B1Matrices, B1Selections, B1Exclusions, B1Solvers, B1Targets, B1Others, B2Files}
MCCommandLines == {<<>>, <<<<"method", <<Limited>>>>>>,
  <<<<"method", <<Steepest>>>>, <<"method", <<Limited, Steepest>>>>>>,
  <<<<"regularisation", <<<<"2">>>>>>>>, <<<<"regularisation", <<<<"3">>>>>>>>,
  <<<<"method", <<Limited, Limited>>>>>>, <<<<"target-profile", <<<<"flat">>>>>>>>}
MCNumerals == {<<"1">>, <<"2">>, <<"3">>}
==============================================================================
