------------------------- MODULE SemanticValidation -------------------------
(***************************************************************************)
(* The structural half of SemanticValidator                                *)
(* (include/nmopt/semantic/v1/detail/validation_detail.hpp, lines 13 to    *)
(* 1824).  Each validate_* function is an operator from the problem to the *)
(* set of diagnostics it adds: what it is about, its category and its      *)
(* capability.  The report is a vector in the code; nothing reads its      *)
(* order, and a problem is valid when it is empty.                         *)
(***************************************************************************)
EXTENDS ProblemSpec

Structural(fault, id, capability) ==
  IF fault THEN {<<"structural", id, capability>>} ELSE {}
Analytical(fault, id, capability) ==
  IF fault THEN {<<"analytical_policy", id, capability>>} ELSE {}

\* The union of what a check reports for each component of a vector.
ForEach(components, Check(_)) ==
  UNION {Check(components[i]) : i \in DOMAIN components}

(***************************************************************************)
(* Identity, labels and required enumerators.                              *)
(***************************************************************************)
\* A component without an identifier is reported under its kind's name, and
\* it enters no index.
Indexed(components, kind) ==
  UNION {Structural(components[i].id = "", kind, "stable_component_identity")
         \cup Structural(/\ components[i].id # ""
                         /\ \E j \in 1..(i - 1) :
                              components[j].id = components[i].id,
                         components[i].id, "unique_component_identity")
         : i \in DOMAIN components}

Labelled(p, components) ==
  ForEach(components, LAMBDA c :
    Structural(c.id \in p.unlabelled, c.id, "human_readable_label"))

IndexFaults(p) ==
  Structural(p.id = "", "problem", "stable_problem_identity")
  \cup UNION {Indexed(p[kind], kind) : kind \in ComponentKinds}
  \cup UNION {Labelled(p, p[kind]) :
              kind \in ComponentKinds \ {"requirement_policies"}}

\* The members of each component that must not keep their default.
RequiredMembers(kind) ==
  CASE kind \in {"pairings", "equations"} -> {}
    [] kind = "spaces"    -> {"topology", "role"}
    [] kind = "variables" -> {"role"}
    [] kind = "data"      -> {"kind", "role"}
    [] kind = "requirement_policies" -> {"kind", "status", "scope"}
    [] OTHER -> {"kind"}

Unspecified(components, kind) ==
  UNION {Structural(components[i][member] = "unspecified", components[i].id,
                    member)
         : i \in DOMAIN components, member \in RequiredMembers(kind)}

EnumFaults(p) ==
  UNION {Unspecified(p[kind], kind) : kind \in ComponentKinds}
  \cup UNION {Structural(p.formulation[member] = "unspecified",
                         p.formulation.id, member)
              : member \in {"kind", "provenance"}}

(***************************************************************************)
(* Regions, spaces, pairings, variables.                                   *)
(***************************************************************************)
PointFaults(r) ==
  LET points == r.points
      sized == {i \in DOMAIN points : points[i].dimension > 0}
  IN  Structural(\/ r.full \/ r.boundary_ids # <<>> \/ r.material_ids # <<>>,
                 r.id, "point_set_region_geometry")
      \cup Structural(points = <<>>, r.id, "point_set_coordinates")
      \cup Structural(\/ sized # DOMAIN points
                      \/ \E i, j \in sized :
                           points[i].dimension # points[j].dimension,
                      r.id, "point_coordinate_dimension")
      \cup Structural(\E i \in DOMAIN points : ~points[i].finite,
                      r.id, "finite_point_coordinates")
      \cup Structural(\E i, j \in DOMAIN points :
                        i < j /\ points[i] = points[j] /\ points[i].finite,
                      r.id, "unique_point_coordinates")

RegionChecks(r) ==
  Structural(r.kind # "point_set" /\ r.points # <<>>, r.id,
             "non_point_region_has_no_coordinates")
  \cup Structural(r.kind = "volume" /\ r.boundary_ids # <<>>, r.id,
                  "volume_region_has_no_boundary_ids")
  \cup Structural(r.kind = "volume" /\ r.full /\ r.material_ids # <<>>, r.id,
                  "full_volume_region_has_no_material_ids")
  \cup Structural(r.kind = "boundary" /\ r.full, r.id,
                  "boundary_region_is_not_full_domain")
  \cup Structural(r.kind = "boundary" /\ r.boundary_ids = <<>>, r.id,
                  "boundary_region_ids")
  \cup Structural(r.kind = "boundary" /\ r.material_ids # <<>>, r.id,
                  "boundary_region_has_no_material_ids")
  \cup (IF r.kind = "point_set" THEN PointFaults(r) ELSE {})
RegionFaults(p) == ForEach(p.regions, LAMBDA r : RegionChecks(r))

SpaceFaults(p) == ForEach(p.spaces, LAMBDA s :
  Structural(~Has(p.regions, s.region), s.id, "space_region_port")
  \cup Structural(~s.scalar /\ s.role # "data", s.id, "scalar_field_shape"))

PairingFaults(p) == ForEach(p.pairings, LAMBDA c :
  LET declared == Has(p.spaces, c.primal) /\ Has(p.spaces, c.covector)
  IN  Structural(~declared, c.id, "pairing_space_ports")
      \cup Structural(declared /\ c.primal # c.covector, c.id,
                      "pairing_primal_covector_space"))

\* pairing_matches_space, false of a pairing that is not declared.
PairingMatches(p, pairing, space) ==
  LET c == At(p.pairings, pairing)
  IN  Present(c) /\ c.primal = space /\ c.covector = space

VariableChecks(p, v) ==
  LET space == At(p.spaces, v.space)
      transformation == At(p.transformations, v.transform)
  IN  Structural(~Present(space), v.id, "variable_space_port")
      \cup Structural(/\ Present(space)
                      /\ v.role \in {"state", "control", "parameter"}
                      /\ space.role # v.role,
                      v.id, "variable_space_role")
      \cup Structural(v.transform # "" /\ ~Present(transformation), v.id,
                      "physical_field_transformation")
      \cup Structural(/\ v.transform # ""
                      /\ Present(transformation)
                      /\ \/ transformation.input # v.id
                         \/ transformation.output # v.space,
                      v.id, "physical_field_transformation_ports")
VariableFaults(p) == ForEach(p.variables, LAMBDA v : VariableChecks(p, v))

(***************************************************************************)
(* Data and the coefficients of the general scalar operator.               *)
(***************************************************************************)
CoefficientShape ==
  [role \in {"diffusion", "conservative_transport", "advective_transport",
             "reaction", "robin_coefficient", "robin_source",
             "natural_boundary_source"} |->
     CASE role = "diffusion" -> {"scalar_constant", "tensor_function"}
       [] role = "reaction"  -> {"scalar_constant", "function"}
       [] role \in {"conservative_transport", "advective_transport"} ->
            {"vector_function"}
       [] OTHER -> {"function"}]

CoefficientRoles == DOMAIN CoefficientShape
BoundaryCoefficientRoles ==
  {"robin_coefficient", "robin_source", "natural_boundary_source"}

\* Faulty variant: the space of a datum is never looked up.
DataFaultsUnported(p) == ForEach(p.data, LAMBDA d :
  Structural(/\ d.role \in CoefficientRoles
             /\ d.kind \notin CoefficientShape[d.role],
             d.id, "coefficient_data_shape")
  \cup Structural(d.role = "observation_weight" /\ d.kind # "function", d.id,
                  "observation_weight_data_shape"))
DataChecks(p, d) ==
  Structural(d.space # "" /\ ~Has(p.spaces, d.space), d.id,
             "data_space_port")
  \cup Structural(/\ d.role \in CoefficientRoles
                  /\ d.kind \notin CoefficientShape[d.role],
                  d.id, "coefficient_data_shape")
  \cup Structural(d.role = "observation_weight" /\ d.kind # "function", d.id,
                  "observation_weight_data_shape")
DataFaults(p) == ForEach(p.data, LAMBDA d : DataChecks(p, d))

UsesTensorDiffusion(p) ==
  Some(p.residual_terms, LAMBDA t : t.kind = "tensor_diffusion")

\* The index's full volume region.  With several, the one the hash table
\* meets first: any of them.
FullVolumes(p) ==
  {r \in Ids(p.regions) : /\ At(p.regions, r).kind = "volume"
                          /\ At(p.regions, r).full}

LOCAL TermForRole(p, role) ==
  First(p.residual_terms, LAMBDA t :
    \E i \in DOMAIN t.data : At(p.data, t.data[i]).role = role)

LOCAL CoefficientFaults(p, d, fullVolume) ==
  LET space == At(p.spaces, d.space)
      scalar == d.role \in BoundaryCoefficientRoles \cup {"reaction"}
      shaped == space.role = "data" /\ space.scalar = scalar
      onBoundary == d.role \in BoundaryCoefficientRoles
      region == TermForRole(p, d.role).region
      placed == IF onBoundary
                THEN Has(p.regions, region) /\ space.region = region
                ELSE space.region = fullVolume
      topology == IF d.role \in {"robin_source", "natural_boundary_source"}
                  THEN "l2" ELSE "bounded_function"
  IN  Structural(d.space = "", d.id, "coefficient_data_space")
      \cup Structural(Present(space) /\ ~shaped, d.id,
                      "coefficient_data_space_shape")
      \cup Structural(Present(space) /\ shaped /\ ~placed, d.id,
                      IF onBoundary THEN "boundary_coefficient_region"
                      ELSE "volume_coefficient_region")
      \cup Structural(/\ Present(space) /\ shaped /\ placed
                      /\ space.topology # topology,
                      d.id, "coefficient_data_space_topology")

GeneralScalarFaults(p, fullVolume) ==
  IF ~UsesTensorDiffusion(p) THEN {}
  ELSE UNION {LET d == At(p.data, id)
              IN  IF d.role \in CoefficientRoles
                  THEN CoefficientFaults(p, d, fullVolume) ELSE {}
              : id \in Ids(p.data)}

(***************************************************************************)
(* Transformations and equations.                                          *)
(***************************************************************************)
TransformationChecks(p, t) ==
  LET input == At(p.variables, t.input)
      output == At(p.spaces, t.output)
      lifting == At(p.data, t.fixed_data)
      fixes == /\ lifting.kind = "function"
               /\ lifting.role = "fixed_dirichlet_lifting"
      statePorts == input.role = "state" /\ output.role = "state"
      uses == {i \in DOMAIN p.variables : p.variables[i].transform = t.id}
  IN  Structural(/\ t.kind = "fixed_dirichlet_reconstruction"
                 /\ ~(statePorts /\ fixes /\ t.control = ""),
                 t.id, "fixed_dirichlet_reconstruction_ports")
      \cup Structural(/\ t.kind = "fixed_dirichlet_reconstruction"
                      /\ Present(lifting) /\ lifting.space # t.output,
                      t.id, "fixed_dirichlet_lifting_space")
      \cup Structural(/\ t.kind = "dirichlet_control_lifting"
                      /\ ~(/\ statePorts
                           /\ At(p.variables, t.control).role = "control"
                           /\ \/ t.fixed_data = ""
                              \/ fixes /\ lifting.space = t.output),
                      t.id, "dirichlet_control_lifting_ports")
      \cup Structural(/\ Present(input) /\ Present(output)
                      /\ input.space # t.output,
                      t.id, "physical_field_reconstruction_space")
      \cup Structural(Cardinality(uses) # 1, t.id,
                      "physical_field_transformation_output")
TransformationFaults(p) ==
  ForEach(p.transformations, LAMBDA t : TransformationChecks(p, t))

\* One residual-term edge of an equation.
EdgeChecks(p, e, id) ==
  LET term == At(p.residual_terms, id)
  IN  Structural(~Present(term), e.id, "equation_residual_term_port")
      \cup Structural(Present(term) /\ term.equation # e.id, id,
                      "residual_term_target_equation")

EquationChecks(p, e) ==
  LET space == At(p.spaces, e.test_space)
  IN  Structural(~Present(space), e.id, "equation_test_space")
      \cup Structural(Present(space) /\ space.role # "test", e.id,
                      "equation_test_space_role")
      \cup Structural(~PairingMatches(p, e.test_pairing, e.test_space), e.id,
                      "equation_test_pairing")
      \cup Structural(~IsInjective(e.terms), e.id,
                      "unique_equation_residual_term_edges")
      \cup UNION {EdgeChecks(p, e, e.terms[i]) : i \in DOMAIN e.terms}
EquationFaults(p) == ForEach(p.equations, LAMBDA e : EquationChecks(p, e))

(***************************************************************************)
(* Residual terms.                                                         *)
(***************************************************************************)
\* The inputs a term kind takes: the roles of its variables, the roles of its
\* data, and whether it names a region ("any" where the signature is silent).
TermSignature ==
  LET Takes(variables, data, region) ==
        [variables |-> variables, data |-> data, region |-> region]
      state == {"state"}
  IN  [diffusion_reaction     |-> Takes(state, {"diffusion", "reaction"}, "any"),
       tensor_diffusion       |-> Takes(state, {"diffusion"}, "none"),
       conservative_transport |->
         Takes(state, {"conservative_transport"}, "none"),
       advective_transport    |->
         Takes(state, {"advective_transport"}, "none"),
       reaction               |-> Takes(state, {"reaction"}, "none"),
       parameter_diffusion_reaction |->
         Takes({"state", "parameter"}, {"reaction"}, "any"),
       laplacian              |-> Takes(state, {}, "none"),
       transposition_laplacian |-> Takes(state, {}, "none"),
       dirichlet_transposition_control |-> Takes({"control"}, {}, "named"),
       volume_source          |-> Takes({}, {"forcing"}, "any"),
       volume_control         |-> Takes({"control"}, {}, "none"),
       neumann_control        |-> Takes({"control"}, {}, "named"),
       robin_bilinear         |-> Takes(state, {"robin_coefficient"}, "named"),
       robin_source           |-> Takes({}, {"robin_source"}, "named"),
       natural_boundary_source |->
         Takes({}, {"natural_boundary_source"}, "named")]

HasRole(components, ids, role) ==
  \E i \in DOMAIN ids : At(components, ids[i]).role = role

SignatureHolds(p, t) ==
  LET takes == TermSignature[t.kind]
  IN  /\ t.kind \in DOMAIN TermSignature
      /\ Len(t.variables) = Cardinality(takes.variables)
      /\ Len(t.data) = Cardinality(takes.data)
      /\ \A role \in takes.variables : HasRole(p.variables, t.variables, role)
      /\ \A role \in takes.data : HasRole(p.data, t.data, role)
      /\ takes.region = "none" => t.region = ""
      /\ takes.region = "named" => t.region # ""

BoundaryTerms ==
  {"neumann_control", "dirichlet_transposition_control", "robin_bilinear",
   "robin_source", "natural_boundary_source"}
BoundaryControlTerms == {"neumann_control", "dirichlet_transposition_control"}

BoundaryTermFaults(p, t) ==
  LET control == IF Len(t.variables) = 1 THEN At(p.variables, t.variables[1])
                 ELSE Absent
      controlSpace == At(p.spaces, control.space)
  IN  Structural(At(p.regions, t.region).kind # "boundary", t.id,
                 "boundary_term_region")
      \cup Structural(/\ t.kind \in BoundaryControlTerms
                      /\ \/ ~Present(controlSpace)
                         \/ controlSpace.region # t.region,
                      t.id, "boundary_control_space_region")

TermChecks(p, t) ==
  LET equation == At(p.equations, t.equation)
  IN  Structural(~Present(equation), t.id, "residual_term_target_equation")
      \cup Structural(Present(equation) /\ t.id \notin Range(equation.terms),
                      t.id, "residual_term_equation_membership")
      \cup Structural(~(Range(t.variables) \subseteq Ids(p.variables)), t.id,
                      "residual_term_variable_port")
      \cup Structural(~(Range(t.data) \subseteq Ids(p.data)), t.id,
                      "residual_term_data_port")
      \cup Structural(~SignatureHolds(p, t), t.id, "residual_term_signature")
      \cup (IF t.kind \in BoundaryTerms THEN BoundaryTermFaults(p, t)
            ELSE Structural(t.region # "", t.id,
                            "volume_term_has_no_boundary_region"))
TermFaults(p) == ForEach(p.residual_terms, LAMBDA t : TermChecks(p, t))

(***************************************************************************)
(* Natural boundary sources stay off the fixed Dirichlet boundary.  The    *)
(* fixed region is the one of the FIRST fixed-Dirichlet policy of the      *)
(* state, whatever its status; failing one, that of the first boundary     *)
(* partition which carries a typed selection.                              *)
(***************************************************************************)
FixedRegion(p) ==
  LET fixed == First(p.requirement_policies, LAMBDA c :
                 c.subject = p.formulation.state /\ c.kind = "fixed_dirichlet")
      partition == First(p.requirement_policies, LAMBDA c :
                     /\ c.subject = p.formulation.state
                     /\ c.kind = "boundary_partition"
                     /\ "boundary" \in DOMAIN c.selections)
  IN  IF Present(fixed) THEN fixed.region
      ELSE IF Present(partition) THEN partition.selections["boundary"].fixed
      ELSE ""

Overlap(one, other) ==
  \/ one.id = other.id
  \/ Range(one.boundary_ids) \cap Range(other.boundary_ids) # {}

NaturalSourceTermFaults(p, t) ==
  LET datum == At(p.data, t.data[1])
      space == At(p.spaces, datum.space)
      shaped == space.role = "data" /\ space.scalar
      fixed == At(p.regions, FixedRegion(p))
      source == At(p.regions, t.region)
  IN  Structural(/\ Present(datum)
                 /\ datum.space = "" \/ (Present(space) /\ ~shaped),
                 datum.id, "natural_boundary_source_data_space")
      \cup Structural(shaped /\ space.topology # "l2", datum.id,
                      "natural_boundary_source_trace_pairing")
      \cup Structural(shaped /\ space.region # t.region, datum.id,
                      "natural_boundary_source_region")
      \cup Structural(/\ shaped /\ Present(fixed) /\ Present(source)
                      /\ Overlap(source, fixed),
                      t.id, "natural_boundary_source_fixed_overlap")

NaturalSourceFaults(p) == ForEach(p.residual_terms, LAMBDA t :
  IF t.kind = "natural_boundary_source" /\ Len(t.data) = 1
  THEN NaturalSourceTermFaults(p, t) ELSE {})

(***************************************************************************)
(* Observations and losses.                                                *)
(***************************************************************************)
StateObservations ==
  {"boundary_trace", "weighted_boundary_trace", "normal_flux"}

ObservedRegionKind(kind) ==
  CASE kind \in StateObservations \cup {"boundary_restriction"} -> "boundary"
    [] kind = "point_sensor" -> "point_set"
    [] OTHER -> "volume"

InputFaults(p, o) ==
  LET input == At(p.variables, o.input)
      h1 == o.kind = "h1_state_restriction"
  IN  Structural(~Present(input), o.id, "observation_input_port")
      \cup Structural(h1 /\ input.role # "state", o.id,
                      "h1_state_restriction_state_input")
      \cup Structural(/\ h1 /\ input.role = "state"
                      /\ At(p.spaces, input.space).topology # "h1",
                      o.id, "h1_state_restriction_input_topology")
      \cup Structural(o.kind \in StateObservations /\ input.role # "state",
                      o.id, "boundary_trace_state_input")
      \cup Structural(/\ o.kind = "boundary_restriction"
                      /\ input.role # "control",
                      o.id, "boundary_restriction_control_input")
      \cup Structural(o.kind = "point_sensor" /\ input.role # "state", o.id,
                      "point_sensor_state_input")

OutputFaults(p, o) ==
  LET output == At(p.spaces, o.output)
      placed == output.role = "observation" /\ output.region = o.region
  IN  Structural(~Present(output), o.id, "observation_output_space")
      \cup Structural(Present(output) /\ output.role # "observation", o.id,
                      "observation_output_space_role")
      \cup Structural(/\ output.role = "observation"
                      /\ output.region # o.region,
                      o.id, "observation_output_region")
      \cup Structural(/\ placed
                      /\ o.kind = "h1_state_restriction"
                      /\ output.topology # "h1",
                      o.id, "h1_state_restriction_output_topology")
      \cup Structural(/\ o.kind = "point_sensor" /\ Present(output)
                      /\ \/ output.topology # "l2"
                         \/ output.dimension #
                              Len(At(p.regions, o.region).points),
                      o.id, "point_sensor_output_dimension")
      \cup Structural(~PairingMatches(p, o.pairing, o.output), o.id,
                      "observation_output_pairing")

WeightFaults(p, o) ==
  LET weight == At(p.data, o.data[1])
      typed == weight.role = "observation_weight" /\ weight.kind = "function"
  IN  IF o.kind # "weighted_boundary_trace"
      THEN Structural(o.data # <<>>, o.id, "observation_data_signature")
      ELSE IF Len(o.data) # 1
      THEN Structural(TRUE, o.id, "weighted_boundary_trace_data_port")
      ELSE Structural(~Present(weight), o.id, "observation_data_port")
           \cup Structural(Present(weight) /\ ~typed, o.id,
                           "weighted_boundary_trace_data_signature")
           \cup Structural(typed /\ weight.space # o.output, o.id,
                           "weighted_boundary_trace_weight_space")

ObservationChecks(p, o) ==
  LET region == At(p.regions, o.region)
  IN  Structural(~Present(region), o.id, "observation_region_port")
      \cup Structural(/\ Present(region)
                      /\ region.kind # ObservedRegionKind(o.kind),
                      o.id, "observation_region_kind")
      \cup InputFaults(p, o)
      \cup OutputFaults(p, o)
      \cup WeightFaults(p, o)
ObservationFaults(p) ==
  ForEach(p.observations, LAMBDA o : ObservationChecks(p, o))

LossDataRole(kind) ==
  CASE kind = "quadratic_tracking" -> "desired_state"
    [] kind \in {"quadratic_control_regularisation",
                 "quadratic_hhalf_control_regularisation",
                 "quadratic_h1_control_regularisation",
                 "quadratic_parameter_regularisation"} ->
         "regularisation_weight"
    [] OTHER -> "no role"

LossChecks(p, l) ==
  LET observation == At(p.observations, l.observation)
      datum == At(p.data, l.data)
  IN  Structural(~Present(observation), l.id, "loss_observation_port")
      \cup Structural(~Present(datum), l.id, "loss_data_port")
      \cup Structural(\/ ~Present(observation)
                      \/ ~PairingMatches(p, l.pairing, observation.output),
                      l.id, "loss_pairing")
      \cup Structural(Present(datum) /\ datum.role # LossDataRole(l.kind),
                      l.id, "loss_data_role")
      \cup Structural(/\ l.kind = "quadratic_hhalf_control_regularisation"
                      /\ Present(observation)
                      /\ At(p.spaces, observation.output).topology # "hhalf",
                      l.id, "hhalf_control_regularisation_topology")
      \cup Structural(/\ l.kind = "quadratic_tracking"
                      /\ Present(observation) /\ Present(datum)
                      /\ datum.space # observation.output,
                      l.id, "tracking_target_observation_space")
LossFaults(p) == ForEach(p.losses, LAMBDA l : LossChecks(p, l))

(***************************************************************************)
(* Metrics, constraints, the regions of the policies.                      *)
(***************************************************************************)
DecisionRoles == {"control", "parameter"}

MetricChecks(p, m) ==
  LET variable == At(p.variables, m.variable)
      paired == /\ Present(variable)
                /\ PairingMatches(p, m.pairing, variable.space)
  IN  Structural(~Present(variable), m.id, "metric_variable_port")
      \cup Structural(~paired, m.id, "metric_pairing")
      \cup Structural(paired /\ variable.role \notin DecisionRoles, m.id,
                      "metric_decision_variable")
MetricFaults(p) == ForEach(p.metrics, LAMBDA m : MetricChecks(p, m))

ConstraintChecks(p, c) ==
  LET variable == At(p.variables, c.variable)
      region == At(p.regions, At(p.spaces, variable.space).region)
      lower == At(p.data, c.lower)
      upper == At(p.data, c.upper)
      facewise == c.kind = "facewise_box"
      bound == IF facewise THEN "facewise_bound" ELSE "cellwise_bound"
      declared == Present(lower) /\ Present(upper)
  IN  Structural(~Present(variable), c.id, "constraint_variable_port")
      \cup Structural(Present(variable) /\ variable.role \notin DecisionRoles,
                      c.id, "constraint_decision_variable")
      \cup Structural(/\ variable.role \in DecisionRoles
                      /\ region.kind # (IF facewise THEN "boundary"
                                        ELSE "volume"),
                      c.id, "constraint_control_region")
      \cup Structural(~declared, c.id, "constraint_bound_data_ports")
      \cup Structural(/\ declared
                      /\ \/ lower.role # "lower_bound"
                         \/ upper.role # "upper_bound"
                         \/ {lower.kind, upper.kind} # {bound},
                      c.id, "constraint_bound_data")
      \cup Structural(/\ Present(variable) /\ declared
                      /\ {lower.space, upper.space} # {variable.space},
                      c.id, "constraint_bound_data_space")
ConstraintFaults(p) == ForEach(p.constraints, LAMBDA c : ConstraintChecks(p, c))

PolicyRegionFaults(p) == ForEach(p.requirement_policies, LAMBDA c :
  Structural(c.region # "" /\ ~Has(p.regions, c.region), c.id,
             "requirement_policy_region"))

(***************************************************************************)
(* The supplied optimise-then-discretise declaration.                      *)
(***************************************************************************)
LOCAL BlockFaults(p, b, role) ==
  LET id == IF b.id = "" THEN "supplied_otd" ELSE b.id
      Needed(member) == Structural(b[member] = "", id, member)
  IN  UNION {Needed(member) : member \in
               {"id", "variable", "residual", "runtime_variable",
                "runtime_residual"}}
      \cup UNION {Structural(stage \notin b.provenance, id, stage) :
                  stage \in {"discretisation", "action"}}
      \cup Structural(~b.labelled, id, "supplied_otd_block_label")
      \cup Structural(b.role # role, id, "supplied_otd_block_role")
      \cup Structural(~Has(p.spaces, b.variable_space), id,
                      "supplied_otd_variable_space")
      \cup Structural(~Has(p.spaces, b.residual_space), id,
                      "supplied_otd_residual_space")
      \cup Structural(~PairingMatches(p, b.trial, b.variable_space), id,
                      "supplied_otd_trial_pairing")
      \cup Structural(~PairingMatches(p, b.test, b.residual_space), id,
                      "supplied_otd_test_pairing")

LOCAL DeclarationFaults(p, d) ==
  LET f == p.formulation
      state == At(p.variables, d.state)
      control == At(p.variables, d.control)
      blocks == <<d.state_block, d.adjoint_block, d.stationarity_block>>
      Distinct(member) == Cardinality({blocks[i][member] : i \in 1..3}) = 3
  IN  Structural(d.id = "", "supplied_otd", "declaration_identity")
      \cup Structural(d.state # f.state, d.id, "supplied_otd_state_variable")
      \cup Structural(d.control # f.control, d.id,
                      "supplied_otd_control_variable")
      \cup Structural(d.adjoint \in {"", d.state, d.control}, d.id,
                      "supplied_otd_adjoint_variable")
      \cup BlockFaults(p, d.state_block, "state")
      \cup BlockFaults(p, d.adjoint_block, "adjoint")
      \cup BlockFaults(p, d.stationarity_block, "control_stationarity")
      \cup Structural(d.state_block.variable # d.state, d.state_block.id,
                      "supplied_otd_state_block_variable")
      \cup Structural(d.state_block.residual # f.equation, d.state_block.id,
                      "supplied_otd_state_block_residual")
      \cup Structural(d.adjoint_block.variable # d.adjoint,
                      d.adjoint_block.id, "supplied_otd_adjoint_block_variable")
      \cup Structural(d.stationarity_block.variable # d.control,
                      d.stationarity_block.id,
                      "supplied_otd_stationarity_variable")
      \cup Structural(/\ Present(state)
                      /\ d.state_block.variable_space # state.space,
                      d.state_block.id, "supplied_otd_state_space")
      \cup Structural(/\ Present(control)
                      /\ d.stationarity_block.variable_space # control.space,
                      d.stationarity_block.id, "supplied_otd_control_space")
      \cup Structural(~Has(p.equations, d.state_block.residual),
                      d.state_block.id, "supplied_otd_state_equation")
      \cup Structural(\/ ~Distinct("runtime_variable")
                      \/ ~Distinct("runtime_residual"),
                      d.id, "supplied_otd_runtime_layout_identifiers")
      \cup UNION {Structural(d[member] = "unspecified", d.id, member) :
                  member \in {"convention", "conversion", "comparison"}}
      \cup Structural(d.provenance # {"value", "jvp", "vjp", "solve"}, d.id,
                      "supplied_otd_action_provenance")
      \cup Structural(~d.evidence, d.id, "supplied_otd_comparison_evidence")

OTDFaults(p) ==
  LET supplied == p.formulation.provenance = "supplied_otd"
  IN  Structural(~supplied /\ p.otd # <<>>, p.formulation.id,
                 "unselected_supplied_otd_declaration")
      \cup Structural(supplied /\ p.otd = <<>>, p.formulation.id,
                      "supplied_otd_declaration")
      \cup (IF supplied /\ p.otd # <<>> THEN DeclarationFaults(p, p.otd[1])
            ELSE {})

(***************************************************************************)
(* The formulation.                                                        *)
(***************************************************************************)
FormulationFaults(p) ==
  LET f == p.formulation
      control == At(p.variables, f.control)
      metric == At(p.metrics, f.metric)
      constraint == At(p.constraints, f.constraint)
  IN  Structural(f.id = "", "formulation", "stable_component_identity")
      \cup Structural(/\ f.provenance = "supplied_otd"
                      /\ f.kind # "all_at_once",
                      f.id, "supplied_otd_execution_shape")
      \cup Structural(At(p.variables, f.state).role # "state", f.id,
                      "formulation_state_variable")
      \cup Structural(control.role \notin DecisionRoles, f.id,
                      "formulation_decision_variable")
      \cup Structural(~Has(p.equations, f.equation), f.id,
                      "formulation_equation")
      \cup Structural(~Present(metric), f.id, "formulation_metric")
      \cup Structural(/\ Present(metric) /\ Present(control)
                      /\ metric.variable # f.control,
                      f.id, "formulation_metric_variable")
      \cup Structural(f.constraint # "" /\ ~Present(constraint), f.id,
                      "formulation_constraint")
      \cup Structural(/\ Present(constraint) /\ Present(control)
                      /\ constraint.variable # f.control,
                      f.id, "formulation_constraint_variable")

\* The first part of SemanticValidator::validate: everything but
\* validate_policies.
StructuralReport(p, fullVolume) ==
  IndexFaults(p) \cup EnumFaults(p) \cup RegionFaults(p) \cup SpaceFaults(p)
  \cup PairingFaults(p) \cup VariableFaults(p) \cup DataFaults(p)
  \cup GeneralScalarFaults(p, fullVolume) \cup TransformationFaults(p)
  \cup EquationFaults(p) \cup TermFaults(p) \cup NaturalSourceFaults(p)
  \cup ObservationFaults(p) \cup LossFaults(p) \cup MetricFaults(p)
  \cup ConstraintFaults(p) \cup PolicyRegionFaults(p) \cup OTDFaults(p)
  \cup FormulationFaults(p)
=============================================================================
