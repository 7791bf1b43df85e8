-------------------------- MODULE SemanticPolicies --------------------------
(***************************************************************************)
(* SemanticValidator::validate_policies                                    *)
(* (include/nmopt/semantic/v1/detail/validation_detail.hpp, lines 1827 to  *)
(* 3401): the cross-cutting analytical and discrete requirement policies   *)
(* of a problem, and the typed selections that realise them.  Together     *)
(* with the structural half it is SemanticValidator::validate.             *)
(***************************************************************************)
EXTENDS SemanticValidation

(***************************************************************************)
(* Finding a policy.  Every search takes the first match in the order the  *)
(* policies are declared; most look at the status only afterwards.         *)
(***************************************************************************)
PolicyOf(p, subject, kind) ==
  First(p.requirement_policies, LAMBDA c :
    c.subject = subject /\ c.kind = kind)

SelectedPolicy(p, subject, kind) ==
  First(p.requirement_policies, LAMBDA c :
    /\ c.subject = subject
    /\ c.kind = kind
    /\ c.status = "selected_discrete_realisation")

HasPolicy(p, subject, kind) == Present(SelectedPolicy(p, subject, kind))

HasExactPolicy(p, subject, kind, status, scope) ==
  Some(p.requirement_policies, LAMBDA c :
    /\ c.subject = subject /\ c.kind = kind
    /\ c.status = status /\ c.scope = scope)

AssumptionDeclared(p, subject, kind) ==
  Some(p.requirement_policies, LAMBDA c :
    /\ c.subject = subject /\ c.kind = kind
    /\ c.status \in {"provided", "user_assumed"}
    /\ c.described)

RegularityAssumed(p) ==
  Some(p.requirement_policies, LAMBDA c :
    /\ c.subject = p.formulation.equation
    /\ c.kind = "domain_regularity"
    /\ c.status = "user_assumed"
    /\ c.described)

Carries(policy, kind) == kind \in DOMAIN policy.selections

IsBoundaryRegion(p, id) ==
  LET region == At(p.regions, id)
  IN  region.kind = "boundary" /\ region.boundary_ids # <<>>

Topology(p, space) == At(p.spaces, space).topology

\* The first of a list of <<fault, category, capability>> that applies, as a
\* chain of checks with early returns reports it.
FirstFault(id, checks) ==
  LET hit == SelectInSeq(checks, LAMBDA c : c[1])
  IN  IF hit = 0 THEN {} ELSE {<<checks[hit][2], id, checks[hit][3]>>}

(***************************************************************************)
(* The boundary identifiers of a normal flux and of the fixed data.        *)
(***************************************************************************)
BoundaryIdFaults(p) ==
  LET fixedPolicy == SelectedPolicy(p, p.formulation.state, "fixed_dirichlet")
      fixed == At(p.regions, fixedPolicy.region)
      observed == {i \in DOMAIN p.observations :
                     p.observations[i].kind \in {"point_sensor", "normal_flux"}}
      Repeats(region) == ~IsInjective(region.boundary_ids)
      FluxFaults(o) ==
        LET flux == At(p.regions, o.region)
        IN  Structural(Repeats(flux), flux.id, "p53_normal_flux_boundary_ids")
            \cup Structural(/\ Present(fixed)
                            /\ ~(Range(flux.boundary_ids)
                                   \subseteq Range(fixed.boundary_ids)),
                            o.id, "normal_flux_fixed_boundary_subset")
  IN  IF observed = {} \/ ~Present(fixedPolicy) THEN {}
      ELSE Structural(Repeats(fixed), fixed.id,
                      "p53_fixed_dirichlet_boundary_ids")
           \cup UNION {FluxFaults(p.observations[i]) :
                       i \in {j \in observed :
                                p.observations[j].kind = "normal_flux"}}

(***************************************************************************)
(* The typed transposition selection.                                      *)
(***************************************************************************)
\* residual_data_id: the first datum of a role among the diffusion-reaction
\* terms, "" for the normalised Laplacian.
ResidualDatum(p, role) ==
  LET terms == SelectSeq(p.residual_terms,
                         LAMBDA t : t.kind = "diffusion_reaction")
      ports == FlattenSeq([i \in DOMAIN terms |-> terms[i].data])
      i == SelectInSeq(ports, LAMBDA d : At(p.data, d).role = role)
  IN  IF i = 0 THEN "" ELSE ports[i]

LOCAL Equivalent(p, s) ==
  LET Discretely(id, kind) ==
        Some(p.requirement_policies, LAMBDA c :
          /\ c.id = id /\ c.kind = kind
          /\ c.status = "selected_discrete_realisation"
          /\ c.scope = "discrete_compilation")
  IN  /\ Topology(p, s.parent) = "l2"
      /\ Topology(p, s.trace) = "hhalf"
      /\ s.equivalence # "" /\ s.conormal # ""
      /\ Discretely(s.equivalence, "conforming_trace_subspace")
      /\ Discretely(s.conormal, "conormal_flux")
      /\ s.equivalent = "conforming_lifting_variational_equivalence"

TranspositionSelectionFaults(p, c, expected, requireEquivalence) ==
  LET s == c.selections["transposition"]
      regularity ==
        Some(p.requirement_policies, LAMBDA r :
          /\ r.id = s.regularity /\ r.kind = "domain_regularity"
          /\ r.status = "user_assumed" /\ r.described)
      bound == /\ s.id = c.id /\ s.equation = c.subject
               /\ Topology(p, s.strong) = "h2"
      isomorphic == /\ s.isomorphism = "dirichlet_laplacian_isomorphism"
                    /\ "operator" \in s.chosen
      observation == At(p.observations, expected)
  IN  IF ~Carries(c, "transposition")
      THEN Analytical(TRUE, c.subject, "transposition_strong_space")
      ELSE IF ~bound
      THEN Structural(TRUE, c.subject, "transposition_strong_space")
      ELSE IF ~isomorphic
      THEN Structural(TRUE, c.subject, "transposition_isomorphism")
      ELSE Structural(s.diffusion # ResidualDatum(p, "diffusion"), c.subject,
                      "transposition_diffusion_data")
           \cup Structural(s.reaction # ResidualDatum(p, "reaction"),
                           c.subject, "transposition_reaction_data")
           \cup FirstFault(c.subject,
             <<<<{Topology(p, s.range), Topology(p, s.codomain)} # {"l2"},
                 "structural", "transposition_residual_codomain">>,
               <<Topology(p, s.multiplier) # "l2",
                 "structural", "transposition_multiplier_space">>,
               <<\/ s.observation # expected
                 \/ ~Present(observation)
                 \/ ~Has(p.spaces, s.source)
                 \/ s.source # observation.output,
                 "structural", "transposition_observation_source">>,
               <<~regularity,
                 "analytical_policy", "transposition_domain_regularity">>,
               <<s.discrete = "unspecified",
                 "analytical_policy", "transposition_discrete_realisation">>,
               <<requireEquivalence /\ ~Equivalent(p, s),
                 "structural", "transposition_equivalence">>>>)

(***************************************************************************)
(* One realisation makes the state unique.                                 *)
(***************************************************************************)
UniquenessKinds ==
  {"fixed_dirichlet", "controlled_dirichlet", "mean_zero_multiplier"}

UniquenessFaults(p) == ForEach(p.variables, LAMBDA v :
  LET chosen == {k \in UniquenessKinds : HasPolicy(p, v.id, k)}
  IN  IF v.role # "state" THEN {}
      ELSE Analytical(chosen = {}, v.id, "state_uniqueness_realisation")
           \cup Structural(Cardinality(chosen) > 1, v.id,
                           "state_uniqueness_policy_conflict"))

(***************************************************************************)
(* The very weak (transposition) formulation of a Dirichlet control.  The  *)
(* selection checked is that of the first policy NAMED                     *)
(* "transposition_formulation" on the equation.                            *)
(***************************************************************************)
TranspositionFaults(p) ==
  LET f == p.formulation
      action == Some(p.residual_terms,
                     LAMBDA t : t.kind = "transposition_laplacian")
      control == Some(p.residual_terms,
                      LAMBDA t : t.kind = "dirichlet_transposition_control")
      state == At(p.variables, f.state)
      spaces == <<state.space, At(p.variables, f.control).space,
                  At(p.equations, f.equation).test_space>>
      regular == HasExactPolicy(p, f.equation, "domain_regularity",
                                "user_assumed", "continuous_semantics")
      Discretely(subject, kind) ==
        HasExactPolicy(p, subject, kind, "selected_discrete_realisation",
                       "discrete_compilation")
      subspace == Discretely(f.control, "conforming_trace_subspace")
      conormal == Discretely(f.equation, "conormal_flux")
      named == First(p.requirement_policies, LAMBDA c :
                 /\ c.id = "transposition_formulation"
                 /\ c.subject = f.equation)
  IN  IF ~action /\ ~control THEN {}
      ELSE Structural(\/ ~action \/ ~control
                      \/ [i \in 1..3 |-> Topology(p, spaces[i])] #
                           <<"l2", "l2", "h2">>,
                      f.equation, "transposition_space_topologies")
           \cup Structural(state.transform # "", state.id,
                           "transposition_physical_state")
           \cup Analytical(~HasExactPolicy(p, f.equation,
                              "transposition_formulation", "provided",
                              "continuous_semantics"),
                           f.equation, "transposition_formulation_policy")
           \cup Analytical(~regular, f.equation,
                           "transposition_domain_regularity")
           \cup Analytical(~Has(p.variables, f.control) \/ ~subspace,
                           f.control, "transposition_conforming_trace_subspace")
           \cup Analytical(~conormal, f.equation,
                           "transposition_conormal_policy")
           \cup (IF /\ named.status = "provided"
                    /\ named.scope = "continuous_semantics"
                    /\ regular /\ subspace /\ conormal
                 THEN TranspositionSelectionFaults(p, named,
                        "control_boundary_restriction", TRUE)
                 ELSE {})

(***************************************************************************)
(* The realisations of the three non-L2 metrics.                           *)
(***************************************************************************)
SearchSpace(p, m) == At(p.variables, m.variable).space

HhalfMetricFaults(p, m) ==
  LET policy == SelectedPolicy(p, m.id, "fractional_trace_realisation")
      s == policy.selections["fractional_metric"]
      registered ==
        /\ s.id = policy.id /\ s.metric = m.id
        /\ s.space = SearchSpace(p, m)
        /\ Topology(p, s.volume) = "h1"
        /\ s.trace_inclusion = "control_trace_inclusion"
        /\ s.volume_operator = "volume_mass_plus_stiffness"
        /\ s.apply = "minimum_h1_extension"
        /\ s.inverse = "full_volume_operator_inverse"
        /\ s.solve = "control_metric_solve"
        /\ s.chosen = {"operator", "apply", "inverse"}
  IN  Structural(Topology(p, SearchSpace(p, m)) # "hhalf", m.id,
                 "hhalf_metric_search_space")
      \cup (IF ~Present(policy)
            THEN Analytical(TRUE, m.id, "hhalf_metric_realisation_policy")
            ELSE IF ~Carries(policy, "fractional_metric")
            THEN Analytical(TRUE, m.id, "hhalf_metric_realisation_selection")
            ELSE Structural(~registered, m.id,
                            "hhalf_metric_realisation_selection"))

LOCAL H1MetricFaults(p, m) ==
  LET region == At(p.regions, At(p.spaces, SearchSpace(p, m)).region)
      policy == SelectedPolicy(p, m.id, "tangential_gradient_realisation")
      s == policy.selections["boundary_h1_metric"]
      registered ==
        /\ s.id = policy.id /\ s.metric = m.id
        /\ s.space = SearchSpace(p, m)
        /\ s.region = region.id
        /\ s.chosen = {"operator", "tangential_gradient", "nullspace"}
  IN  IF region.kind # "boundary" THEN {}
      ELSE IF ~Present(policy)
      THEN Analytical(TRUE, m.id, "boundary_h1_metric_tangential_policy")
      ELSE IF ~Carries(policy, "boundary_h1_metric")
      THEN Analytical(TRUE, m.id, "boundary_h1_metric_realisation_selection")
      ELSE Structural(~registered, m.id,
                      "boundary_h1_metric_realisation_selection")

LOCAL Hminus1SelectionFaults(p, m, policy, boundary) ==
  LET s == policy.selections["hminus1_metric"]
      space == SearchSpace(p, m)
  IN  Structural(~(/\ s.id = "hminus1_metric_mass_laplacian_inverse_mass"
                   /\ s.metric = m.id
                   /\ Has(p.variables, m.variable)
                   /\ s.primal = space /\ s.dual = space
                   /\ Has(p.pairings, m.pairing)
                   /\ s.mass = m.pairing /\ s.laplacian = m.pairing
                   /\ "operator" \in s.chosen),
                 m.id, "hminus1_metric_operator")
      \cup Structural("inverse" \notin s.chosen, m.id,
                      "hminus1_metric_inverse")
      \cup Structural("nullspace" \notin s.chosen, m.id,
                      "hminus1_metric_nullspace")
      \cup Structural(\/ s.laplacian_solve #
                           "control_metric_solve.laplacian_inverse"
                      \/ s.mass_solve # "control_metric_solve.mass_inverse",
                      m.id, "hminus1_metric_solve_policy")
      \cup Structural(Present(boundary) /\ s.fixed # boundary.region, m.id,
                      "hminus1_control_boundary")

LOCAL Hminus1MetricFaults(p, m) ==
  LET boundary == SelectedPolicy(p, m.variable, "fixed_dirichlet")
      policy == PolicyOf(p, m.id, "metric_realisation")
  IN  Structural(Topology(p, SearchSpace(p, m)) # "h1", m.id,
                 "hminus1_metric_search_space")
      \cup Analytical(~Present(boundary), m.id,
                      "hminus1_metric_boundary_policy")
      \cup Structural(/\ Present(boundary)
                      /\ ~IsBoundaryRegion(p, boundary.region),
                      m.id, "hminus1_metric_dirichlet_region")
      \cup (IF /\ policy.status = "selected_discrete_realisation"
               /\ policy.scope = "discrete_compilation"
               /\ Carries(policy, "hminus1_metric")
            THEN Hminus1SelectionFaults(p, m, policy, boundary)
            ELSE Analytical(TRUE, m.id, "hminus1_metric_realisation"))

MetricPolicyFaults(p) == ForEach(p.metrics, LAMBDA m :
  CASE m.kind = "hhalf"   -> HhalfMetricFaults(p, m)
    [] m.kind = "h1"      -> H1MetricFaults(p, m)
    [] m.kind = "hminus1" -> Hminus1MetricFaults(p, m)
    [] OTHER              -> {})

(***************************************************************************)
(* A continuous control shares the fixed boundary of the state.            *)
(***************************************************************************)
ContinuousControlFaults(p) ==
  LET control == At(p.variables, p.formulation.control)
      applies ==
        \/ HasPolicy(p, p.formulation.metric, "metric_realisation")
        \/ /\ Topology(p, control.space) = "h1"
           /\ Some(p.observations, LAMBDA o : o.kind = "h1_state_restriction")
      policy == PolicyOf(p, control.id, "fixed_dirichlet")
      statePolicy == SelectedPolicy(p, p.formulation.state, "fixed_dirichlet")
      selected == /\ policy.status = "selected_discrete_realisation"
                  /\ policy.scope = "both"
  IN  IF ~applies \/ ~Present(control) THEN {}
      ELSE IF ~selected
      THEN Analytical(TRUE, control.id, "continuous_control_boundary_policy")
      ELSE Structural(~IsBoundaryRegion(p, policy.region), control.id,
                      "continuous_control_boundary_region")
           \cup Structural(/\ Present(statePolicy)
                           /\ policy.region # statePolicy.region,
                           control.id, "continuous_control_boundary_match")

(***************************************************************************)
(* A partial Dirichlet boundary.  It is recognised by two NAMES: of a      *)
(* policy, or of a region.                                                 *)
(***************************************************************************)
PartialDirichletContext(p) ==
  \/ Has(p.requirement_policies, "partial_dirichlet_boundary_partition")
  \/ Has(p.regions, "fixed_dirichlet_boundary")

PartialDirichletFaults(p) ==
  LET state == p.formulation.state
      policy == First(p.requirement_policies, LAMBDA c :
                  /\ c.id = "partial_dirichlet_boundary_partition"
                  /\ c.kind = "boundary_partition")
      interface == First(p.requirement_policies, LAMBDA c :
                     /\ c.id = "partial_dirichlet_interface_policy"
                     /\ c.subject = "dirichlet_control_lifting")
      s == policy.selections["partial_boundary"]
      selected == /\ policy.status = "selected_discrete_realisation"
                  /\ policy.scope = "both"
                  /\ Carries(policy, "partial_boundary")
      partitions ==
        /\ s.id = policy.id /\ s.subject = state
        /\ s.transformation = "dirichlet_control_lifting"
        /\ IsBoundaryRegion(p, s.fixed)
        /\ IsBoundaryRegion(p, s.controlled)
        /\ s.fixed # s.controlled
        /\ s.intends = {"complete_exterior", "disjoint_regions"}
  IN  IF ~PartialDirichletContext(p) THEN {}
      ELSE (IF ~selected
            THEN Analytical(TRUE, state, "partial_dirichlet_partition_policy")
            ELSE IF ~partitions
            THEN Structural(TRUE, state, "partial_dirichlet_partition_policy")
            ELSE Structural(s.chosen # {"interface", "trace", "hanging"},
                            state, "partial_dirichlet_interface_selection"))
           \cup Analytical(
                  ~(/\ interface.status = "selected_discrete_realisation"
                    /\ interface.scope = "discrete_compilation"
                    /\ interface.region = "control_boundary"),
                  "dirichlet_control_lifting",
                  "partial_dirichlet_interface_selection")

(***************************************************************************)
(* Target and observation data.                                            *)
(***************************************************************************)
H1TargetFaults(p) == ForEach(p.observations, LAMBDA o :
  LET policy == PolicyOf(p, "desired_state", "target_data_membership")
      s == policy.selections["h1_target"]
      fixed == First(p.requirement_policies, LAMBDA c :
                 /\ c.subject = p.formulation.state
                 /\ c.kind \in {"fixed_dirichlet", "controlled_dirichlet"})
      member == /\ s.id = policy.id /\ s.data = "desired_state"
                /\ s.observation_space = o.output
                /\ Topology(p, o.output) = "h1"
                /\ "regularity" \in s.chosen
      zeroTrace == /\ Present(fixed) /\ s.fixed = fixed.region
                   /\ IsBoundaryRegion(p, s.fixed)
                   /\ "trace" \in s.chosen
  IN  IF o.kind # "h1_state_restriction" THEN {}
      ELSE IF ~(/\ policy.status = "user_assumed"
                /\ policy.scope = "continuous_semantics"
                /\ Carries(policy, "h1_target"))
      THEN Analytical(TRUE, "desired_state", "h1_target_space_membership")
      ELSE FirstFault("desired_state",
             <<<<~member, "structural", "h1_target_space_membership">>,
               <<~zeroTrace, "structural", "h1_target_zero_trace">>>>))

DataPolicyFaults(p) ==
  ForEach(p.data, LAMBDA d :
    Analytical(/\ d.role \in {"desired_state", "observation_weight"}
               /\ ~HasPolicy(p, d.id, "analytic_quadrature_evaluation"),
               d.id, "data_rule")
    \cup Analytical(/\ d.role = "observation_weight"
                    /\ ~AssumptionDeclared(p, d.id, "coefficient_regularity"),
                    d.id, "observation_weight_boundedness"))
  \cup ForEach(p.losses, LAMBDA l :
    LET observation == At(p.observations, l.observation)
        datum == At(p.data, l.data)
        policy == SelectedPolicy(p, datum.id, "analytic_quadrature_evaluation")
    IN  Structural(/\ l.kind = "quadratic_tracking"
                   /\ Present(observation) /\ datum.role = "desired_state"
                   /\ Present(policy) /\ policy.region # observation.region,
                   l.id, "tracking_target_data_region"))

BoundPolicyFaults(p) == ForEach(p.constraints, LAMBDA c :
  Analytical(~HasPolicy(p, c.id, IF c.kind = "facewise_box"
                                 THEN "discrete_facewise_bounds"
                                 ELSE "discrete_cellwise_bounds"),
             c.id, "bound_realisation"))

(***************************************************************************)
(* Observations of points, traces and fluxes.                              *)
(***************************************************************************)
LOCAL PointSensorFaults(p, o) ==
  LET policy == PolicyOf(p, p.formulation.equation,
                         "transposition_formulation")
      provided == /\ policy.status = "provided"
                  /\ policy.scope = "continuous_semantics"
  IN  Analytical(~HasPolicy(p, o.id, "analytic_quadrature_evaluation"), o.id,
                 "point_sensor_evaluation_policy")
      \cup (IF provided
            THEN TranspositionSelectionFaults(p, policy, o.id, FALSE)
            ELSE Analytical(TRUE, p.formulation.equation,
                            "point_sensor_transposition_policy"))
      \cup Analytical(~RegularityAssumed(p), p.formulation.equation,
                      "point_sensor_domain_regularity")

LOCAL TraceSelectionFaults(p, o, s) ==
  Structural(~(/\ s.id = "weighted_state_boundary_trace_fe_qgauss"
               /\ Has(p.variables, o.input)
               /\ s.source = At(p.variables, o.input).space
               /\ s.output = o.output
               /\ s.region = o.region
               /\ o.data = <<s.weight>>
               /\ s.pairing = o.pairing),
             o.id, "weighted_trace_realisation")
  \cup UNION {Structural(rule \notin s.chosen, o.id, rule) :
              rule \in {"trace", "quadrature", "weight", "pairing",
                        "transpose"}}

LOCAL BoundaryTraceFaults(p, o) ==
  LET policy == SelectedPolicy(p, o.id, "boundary_trace")
      weighted == o.kind = "weighted_boundary_trace"
  IN  IF ~Present(policy)
      THEN Analytical(TRUE, o.id, "boundary_trace_realisation")
      ELSE IF policy.region # o.region
      THEN Structural(TRUE, o.id, "boundary_trace_region")
      ELSE IF ~weighted THEN {}
      ELSE IF /\ policy.scope = "discrete_compilation"
              /\ Carries(policy, "trace")
      THEN TraceSelectionFaults(p, o, policy.selections["trace"])
      ELSE Analytical(TRUE, o.id, "weighted_trace_realisation")

\* The evaluation of a weight must be on the region of its trace.
LOCAL WeightRegionFaults(p, o) ==
  LET policy == SelectedPolicy(p, o.data[1], "analytic_quadrature_evaluation")
  IN  IF Len(o.data) # 1 THEN {}
      ELSE Structural(Present(policy) /\ policy.region # o.region, o.id,
                      "weighted_boundary_trace_data_region")

LOCAL NormalFluxFaults(p, o) ==
  LET Selected(kind, missing, misplaced) ==
        LET policy == SelectedPolicy(p, o.id, kind)
        IN  Analytical(~Present(policy), o.id, missing)
            \cup Structural(Present(policy) /\ policy.region # o.region, o.id,
                            misplaced)
      provided == First(p.requirement_policies, LAMBDA c :
                    /\ c.subject = p.formulation.equation
                    /\ c.kind = "transposition_formulation"
                    /\ c.status = "provided"
                    /\ c.scope = "continuous_semantics")
  IN  Selected("conormal_flux", "normal_flux_orientation_policy",
               "normal_flux_orientation_region")
      \cup Selected("analytic_quadrature_evaluation",
                    "normal_flux_evaluation_policy",
                    "normal_flux_evaluation_region")
      \cup (IF Present(provided)
            THEN TranspositionSelectionFaults(p, provided, o.id, FALSE)
            ELSE Analytical(TRUE, p.formulation.equation,
                            "normal_flux_transposition_policy"))
      \cup Analytical(~RegularityAssumed(p), p.formulation.equation,
                      "normal_flux_domain_regularity")

ObservationPolicyFaults(p) == ForEach(p.observations, LAMBDA o :
  CASE o.kind = "point_sensor"   -> PointSensorFaults(p, o)
    [] o.kind = "boundary_trace" -> BoundaryTraceFaults(p, o)
    [] o.kind = "weighted_boundary_trace" ->
         BoundaryTraceFaults(p, o) \cup WeightRegionFaults(p, o)
    [] o.kind = "normal_flux"    -> NormalFluxFaults(p, o)
    [] OTHER                     -> {})

(***************************************************************************)
(* The general scalar operator: its assumptions, and a boundary partition  *)
(* that agrees with the state's fixed policy and with the Robin term.      *)
(***************************************************************************)
LOCAL PartitionSelectionFaults(p, state, policy) ==
  LET s == policy.selections["boundary"]
      fixed == PolicyOf(p, state, "fixed_dirichlet")
      robin == First(p.residual_terms, LAMBDA t : t.kind = "robin_bilinear")
      Part(fault, capability) == Structural(fault, policy.id, capability)
  IN  Part(s.id = "" \/ s.subject # state \/ s.id # policy.id,
           "boundary_partition_selection")
      \cup Part(\/ ~IsBoundaryRegion(p, s.fixed)
                \/ ~IsBoundaryRegion(p, s.robin),
                "boundary_partition_region")
      \cup Part(~Present(fixed) \/ s.fixed # fixed.region,
                "boundary_partition_fixed_region")
      \cup Part(~Present(robin) \/ s.robin # robin.region,
                "boundary_partition_robin_region")
      \cup Part(s.neumann # <<>>, "boundary_partition_neumann_role")
      \cup Part(s.inflow # <<>>, "transport_inflow_region")
      \cup Part(~IsBoundaryRegion(p, s.outflow) \/ s.outflow # s.robin,
                "transport_outflow_region")
      \cup Part(s.conormal # "diffusion_minus_transport",
                "conormal_flux_form")
      \cup Part(s.normal # "outward", "conormal_flux_orientation")
      \cup Part("trace" \notin s.chosen, "robin_trace_realisation")
      \cup Part("face_quadrature" \notin s.chosen, "robin_face_quadrature")

LOCAL PartitionFaults(p, state) ==
  LET policy == PolicyOf(p, state, "boundary_partition")
  IN  IF ~Present(policy)
      THEN Analytical(TRUE, state, "scalar_boundary_partition_policy")
      ELSE Analytical(policy.status # "selected_discrete_realisation",
                      policy.id, "boundary_partition_policy_status")
           \cup Analytical(policy.scope # "both", policy.id,
                           "boundary_partition_policy_scope")
           \cup (IF Carries(policy, "boundary")
                 THEN PartitionSelectionFaults(p, state, policy)
                 ELSE Structural(TRUE, policy.id,
                                 "boundary_partition_selection"))

TensorDiffusionFaults(p) ==
  LET term == First(p.residual_terms, LAMBDA t : t.kind = "tensor_diffusion")
      datum == IF term.data = <<>> THEN "" ELSE term.data[1]
      state == First(p.variables, LAMBDA v : v.role = "state")
  IN  IF ~Present(term) THEN {}
      ELSE Analytical(~AssumptionDeclared(p, datum, "uniform_ellipticity"),
                      datum, "uniform_ellipticity_assumption")
           \cup Analytical(~AssumptionDeclared(p, term.equation,
                                               "coefficient_regularity"),
                           term.equation,
                           "scalar_coefficient_regularity_assumption")
           \cup Analytical(~AssumptionDeclared(p, term.equation, "coercivity"),
                           term.equation, "scalar_coercivity_assumption")
           \cup (IF Present(state) THEN PartitionFaults(p, state.id) ELSE {})

(***************************************************************************)
(* The realisation of a Neumann control.                                   *)
(***************************************************************************)
NeumannSelectionFaults(p, t, policy) ==
  LET f == p.formulation
      s == policy.selections["neumann_control"]
      control == At(p.variables, f.control)
      space == At(p.spaces, s.space)
      metric == At(p.metrics, s.metric)
      box == At(p.constraints, f.constraint)
  IN  Structural(~(/\ s.id = policy.id
                   /\ Present(control) /\ s.control = f.control
                   /\ Present(space) /\ s.space = control.space
                   /\ space.role = "control" /\ space.topology = "l2"),
                 t.id, "neumann_control_realisation_ports")
      \cup Structural(\/ s.region # t.region
                      \/ s.region # policy.region
                      \/ Present(space) /\ space.region # s.region,
                      t.id, "neumann_control_realisation_boundary")
      \cup Structural(~(/\ metric.kind = "l2"
                        /\ s.metric = f.metric
                        /\ metric.variable = s.control),
                      t.id, "neumann_control_realisation_metric")
      \cup Analytical(s.discretisation = "unspecified", t.id,
                      "neumann_control_discrete_realisation")
      \cup Structural(/\ s.discretisation = "continuous_nodal_trace"
                      /\ box.kind = "facewise_box",
                      box.id, "continuous_neumann_control_facewise_box")

NeumannTermFaults(p, t) ==
  LET policy == SelectedPolicy(p, t.id, "boundary_trace")
  IN  IF t.kind # "neumann_control" THEN {}
      ELSE IF ~Present(policy)
      THEN Analytical(TRUE, t.id, "neumann_control_trace_realisation")
      ELSE Structural(policy.region # t.region, t.id,
                      "neumann_control_trace_region")
           \cup (IF Carries(policy, "neumann_control")
                 THEN NeumannSelectionFaults(p, t, policy)
                 ELSE Analytical(TRUE, t.id,
                                 "neumann_control_discrete_realisation"))

NeumannControlFaults(p) ==
  ForEach(p.residual_terms, LAMBDA t : NeumannTermFaults(p, t))

PolicyReport(p) ==
  BoundaryIdFaults(p) \cup UniquenessFaults(p) \cup TranspositionFaults(p)
  \cup MetricPolicyFaults(p) \cup ContinuousControlFaults(p)
  \cup PartialDirichletFaults(p) \cup H1TargetFaults(p)
  \cup DataPolicyFaults(p) \cup BoundPolicyFaults(p)
  \cup ObservationPolicyFaults(p) \cup TensorDiffusionFaults(p)
  \cup NeumannControlFaults(p)

(***************************************************************************)
(* SemanticValidator::validate.  A report depends on the order in which    *)
(* the hash table of regions is walked only when several are full volumes. *)
(***************************************************************************)
Reports(p) ==
  LET volumes == FullVolumes(p)
      policies == PolicyReport(p)
  IN  {StructuralReport(p, v) \cup policies :
       v \in IF volumes = {} THEN {"no full volume"} ELSE volumes}

Valid(p) == Reports(p) = {{}}
=============================================================================
