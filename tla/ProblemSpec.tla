---------------------------- MODULE ProblemSpec ----------------------------
(***************************************************************************)
(* The semantic problem graph of include/nmopt/semantic/v1/types.hpp: a    *)
(* ProblemSpec is a record of component vectors (sequences here), whose    *)
(* ports name other components by identifier.  Identifiers and enumerators *)
(* keep the source's names; "" is the empty identifier and "unspecified"   *)
(* the default enumerator.  Labels are left out except for the set of      *)
(* components that lack one, and a policy's description except for whether *)
(* it is empty.  An enumeration of which only one value is registered is a *)
(* member of the selection's set `chosen` when it carries that value.      *)
(***************************************************************************)
EXTENDS Sequences, Naturals, FiniteSets, SequencesExt

\* The vectors of a ProblemSpec, in the order of its members.
ComponentKinds ==
  {"regions", "spaces", "pairings", "variables", "data", "transformations",
   "residual_terms", "equations", "observations", "losses", "metrics",
   "constraints", "requirement_policies"}

(***************************************************************************)
(* One constructor per component, with the members in the source's order.  *)
(***************************************************************************)
Region(id, kind, full, boundaryIds, materialIds, points) ==
  [id |-> id, kind |-> kind, full |-> full, boundary_ids |-> boundaryIds,
   material_ids |-> materialIds, points |-> points]

\* A physical coordinate: how many components, where, and whether each of
\* them is finite.  A coordinate with a NaN equals no coordinate.
Coordinate(dimension, at, finite) ==
  [dimension |-> dimension, at |-> at, finite |-> finite]

ShapedSpace(id, region, topology, role, scalar, dimension) ==
  [id |-> id, region |-> region, topology |-> topology, role |-> role,
   scalar |-> scalar, dimension |-> dimension]

Space(id, region, topology, role) ==
  ShapedSpace(id, region, topology, role, TRUE, 0)

Pairing(id, primal, covector) ==
  [id |-> id, primal |-> primal, covector |-> covector]

Variable(id, role, space, transform) ==
  [id |-> id, role |-> role, space |-> space, transform |-> transform]

Datum(id, kind, role, space) ==
  [id |-> id, kind |-> kind, role |-> role, space |-> space]

Transformation(id, kind, input, output, fixedData, control) ==
  [id |-> id, kind |-> kind, input |-> input, output |-> output,
   fixed_data |-> fixedData, control |-> control]

Term(id, kind, equation, variables, data, region) ==
  [id |-> id, kind |-> kind, equation |-> equation, variables |-> variables,
   data |-> data, region |-> region]

Equation(id, testSpace, testPairing, terms) ==
  [id |-> id, test_space |-> testSpace, test_pairing |-> testPairing,
   terms |-> terms]

Observation(id, kind, input, region, output, pairing, data) ==
  [id |-> id, kind |-> kind, input |-> input, region |-> region,
   output |-> output, pairing |-> pairing, data |-> data]

Loss(id, kind, observation, data, pairing) ==
  [id |-> id, kind |-> kind, observation |-> observation, data |-> data,
   pairing |-> pairing]

Metric(id, kind, variable, pairing) ==
  [id |-> id, kind |-> kind, variable |-> variable, pairing |-> pairing]

Constraint(id, kind, variable, lower, upper) ==
  [id |-> id, kind |-> kind, variable |-> variable, lower |-> lower,
   upper |-> upper]

\* The typed selections a policy may carry are a function from their kinds.
NoSelection == [kind \in {} |-> {}]

Policy(id, subject, kind, status, scope, region) ==
  [id |-> id, subject |-> subject, kind |-> kind, status |-> status,
   scope |-> scope, region |-> region, described |-> TRUE,
   selections |-> NoSelection]

\* The three ways the library states a policy.
Discrete(id, subject, kind, region) ==
  Policy(id, subject, kind, "selected_discrete_realisation",
         "discrete_compilation", region)
DiscreteAndContinuous(id, subject, kind, region) ==
  Policy(id, subject, kind, "selected_discrete_realisation", "both", region)
Assumed(id, subject, kind, region) ==
  Policy(id, subject, kind, "user_assumed", "continuous_semantics", region)

\* A policy that carries the typed selection `selection` of kind `kind`.
Typed(policy, kind, selection) ==
  [policy EXCEPT !.selections =
     [k \in DOMAIN policy.selections \cup {kind} |->
        IF k = kind THEN selection ELSE policy.selections[k]]]

Formulation(id, kind, provenance, state, control, equation, metric, constraint) ==
  [id |-> id, kind |-> kind, provenance |-> provenance, state |-> state,
   control |-> control, equation |-> equation, metric |-> metric,
   constraint |-> constraint]

(***************************************************************************)
(* The types of a ProblemSpec that the compiler of the program enforces:   *)
(* its components are vectors, its boundary ids unsigned integers, and the *)
(* kinds of the transformations, of the observations and of the metrics    *)
(* are of their enumerations.  What an author may get wrong is left open,  *)
(* but no identifier is the "?" that stands below for a lookup that found  *)
(* nothing.                                                                *)
(***************************************************************************)
Vector(components) ==
  /\ Len(components) \in Nat
  /\ DOMAIN components = 1 .. Len(components)

TransformationKinds ==
  {"unspecified", "fixed_dirichlet_reconstruction", "dirichlet_control_lifting"}

ObservedKinds ==
  {"unspecified", "volume_restriction", "h1_state_restriction",
   "boundary_trace", "boundary_restriction", "weighted_boundary_trace",
   "point_sensor", "normal_flux"}

MetricKinds == {"unspecified", "l2", "hhalf", "h1", "hminus1"}

Graph(p) ==
  /\ \A kind \in ComponentKinds :
       /\ Vector(p[kind])
       /\ \A i \in DOMAIN p[kind] : p[kind][i].id # "?"
  /\ \A i \in DOMAIN p.transformations :
       p.transformations[i].kind \in TransformationKinds
  /\ \A i \in DOMAIN p.observations :
       /\ p.observations[i].kind \in ObservedKinds
       /\ Vector(p.observations[i].data)
  /\ \A i \in DOMAIN p.metrics : p.metrics[i].kind \in MetricKinds
  /\ \A i \in DOMAIN p.residual_terms : Vector(p.residual_terms[i].data)
  /\ \A i \in DOMAIN p.regions : p.regions[i].boundary_ids \in Seq(Nat)

(***************************************************************************)
(* Finding a component.  The indexes of the validator and of the resolved  *)
(* view keep the first component of an identifier, as find_if does.        *)
(***************************************************************************)
Ids(components) == {components[i].id : i \in DOMAIN components} \ {""}

Has(components, id) == id \in Ids(components)

\* What a lookup that finds nothing returns: the end iterator, which the code
\* tests before it reads a member.  Here its members match nothing.
Absent ==
  [id |-> "?", kind |-> "?", role |-> "?", region |-> "?", space |-> "?",
   topology |-> "?", primal |-> "?", covector |-> "?", scalar |-> FALSE,
   dimension |-> 0, input |-> "?", output |-> "?", equation |-> "?",
   variable |-> "?", status |-> "?", scope |-> "?", boundary_ids |-> <<>>,
   points |-> <<>>, terms |-> <<>>, data |-> <<>>, full |-> FALSE,
   described |-> FALSE, selections |-> NoSelection, transform |-> "",
   test_space |-> "?", test_pairing |-> "?", pairing |-> "?",
   observation |-> "?", subject |-> "?"]

First(components, Test(_)) ==
  LET i == SelectInSeq(components, Test)
  IN  IF i = 0 THEN Absent ELSE components[i]

At(components, id) == First(components, LAMBDA c : c.id = id /\ id # "")

Present(component) == component.id # "?"

Some(components, Test(_)) == \E i \in DOMAIN components : Test(components[i])

(***************************************************************************)
(* Edits of a graph, as the library's deltas and a problem's author make   *)
(* them: component_by_id and remove_component_by_id find the component by  *)
(* its identifier, which the library's graphs declare once.                *)
(***************************************************************************)
Put(kind, id, component) ==
  [edit |-> "put", kind |-> kind, id |-> id, by |-> component]
Set(kind, id, member, value) ==
  [edit |-> "set", kind |-> kind, id |-> id, member |-> member, by |-> value]
Add(kind, component) == [edit |-> "add", kind |-> kind, by |-> component]
Drop(kind, id) == [edit |-> "drop", kind |-> kind, id |-> id]
All(kind, components) == [edit |-> "all", kind |-> kind, by |-> components]

Edited(problem, e) ==
  LET old == problem[e.kind]
      At1(i) == old[i].id = e.id
  IN  CASE e.edit = "put" ->
             [problem EXCEPT ![e.kind] =
                [i \in DOMAIN old |-> IF At1(i) THEN e.by ELSE old[i]]]
        [] e.edit = "set" ->
             [problem EXCEPT ![e.kind] =
                [i \in DOMAIN old |->
                   IF At1(i) THEN [old[i] EXCEPT ![e.member] = e.by]
                   ELSE old[i]]]
        [] e.edit = "add"    -> [problem EXCEPT ![e.kind] = Append(old, e.by)]
        [] e.edit = "drop"   -> [problem EXCEPT ![e.kind] =
                                   SelectSeq(old, LAMBDA c : c.id # e.id)]
        [] e.edit = "all"    -> [problem EXCEPT ![e.kind] = e.by]

Delta(problem, edits) == FoldLeft(Edited, problem, edits)
=============================================================================
