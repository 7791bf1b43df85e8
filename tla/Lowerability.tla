--------------------------- MODULE Lowerability ---------------------------
(***************************************************************************)
(* What the deal.II compiler refuses before it builds anything: the stages *)
(* of DealiiCompiler::compile_impl that validate the request of a valid    *)
(* problem (include/nmopt/compiler/v1/dealii_compiler.hpp).  A diagnostic  *)
(* is named by its required capability; its component and wording are left *)
(* out.  The lowerer tables of DealiiCapabilityRegistry accept every kind  *)
(* the semantic layer defines.                                             *)
(***************************************************************************)
EXTENDS CompilationRequest

Need(held, capability) == IF held THEN {} ELSE {capability}

IsBoundary(region) == region.kind = "boundary" /\ region.boundary_ids # <<>>

\* Faulty variant: the regions are told apart by name, not by their faces.
DisjointByName(one, other) == one.id # other.id
Disjoint(one, other) ==
  Range(one.boundary_ids) \cap Range(other.boundary_ids) = {}

FormsPartition(fixed, controlled) ==
  IsBoundary(fixed) /\ IsBoundary(controlled) /\ Disjoint(fixed, controlled)

FixedRegionOf(p, r)      == At(p.regions, r.fixed_region)
ControlledRegionOf(p, r) == At(p.regions, r.control_region)
RobinRegionOf(p, r)      == At(p.regions, r.robin_region)
TrackingRegionOf(p, r)   == At(p.regions, r.tracking_region)

\* Tracking on the full volume; a region that was not found is not full.
TracksDomain(p, r) == TrackingRegionOf(p, r).full

(***************************************************************************)
(* validate_lowerability: the combinations of features, one group each.    *)
(***************************************************************************)
H1ObservationNeeds(p, r) ==
  Need(TracksDomain(p, r), "h1_state_observation_full_domain")
  \cup Need(~(\/ r.fixed_reconstruction
              \/ /\ r.dirichlet_control
                 /\ r.registration # "h1_tracking_hhalf_control"
              \/ r.neumann \/ r.h1_regularisation
              \/ r.coefficient_identification \/ r.general_scalar),
            "h1_state_observation_registered_combination")

GeneralScalarNeeds(p, r) ==
  LET robin == RobinRegionOf(p, r)
      fixed == FixedRegionOf(p, r)
  IN  Need(IsBoundary(robin), "robin_boundary_ids")
      \cup Need(/\ Present(robin)
                /\ FirstTerm(p, "robin_source").region = robin.id,
                "shared_robin_boundary_region")
      \cup Need(Disjoint(fixed, robin), "scalar_boundary_partition_overlap")
      \cup Need(~(\/ r.fixed_reconstruction \/ r.neumann \/ r.mean_zero
                  \/ r.h1_regularisation \/ r.coefficient_identification
                  \/ r.dirichlet_control),
                "general_scalar_registered_combination")
      \cup Need(TracksDomain(p, r), "general_scalar_full_domain_tracking")

MeanZeroNeeds(p, r) ==
  LET region == At(p.regions, r.mean_zero_region)
  IN  Need(r.neumann, "pure_neumann_registered_residual")
      \cup Need(region.kind = "volume" /\ region.full,
                "pure_neumann_mean_constraint_region")
      \cup Need(~Present(FixedRegionOf(p, r)),
                "pure_neumann_without_fixed_dirichlet")

\* Faulty variant: what the loss may be combined with is not checked.
H1RegularisationNeedsSpaceOnly(p, r) ==
  Need(Topology(p, Control(p).space) = "h1", "h1_continuous_control_space")
  \cup Need(p.formulation.constraint = "",
            "continuous_control_box_constraint")
H1RegularisationNeeds(p, r) ==
  Need(Topology(p, Control(p).space) = "h1", "h1_continuous_control_space")
  \cup Need(p.formulation.constraint = "",
            "continuous_control_box_constraint")
  \cup Need(~(r.fixed_reconstruction \/ r.neumann \/ r.dirichlet_control),
            "h1_regularisation_registered_combination")
  \cup Need(TracksDomain(p, r), "h1_regularisation_full_domain_tracking")

H1MetricNeeds(r) ==
  Need(r.metric = "h1" => \/ r.h1_regularisation
                          \/ r.normalized_dirichlet /\ r.h1_loss,
       "h1_metric_registered_control_space")

Hminus1Needs(p, r) ==
  Need(~r.h1_regularisation, "hminus1_metric_l2_control_loss")
  \cup Need(r.h1_state_observation, "hminus1_metric_energy_observation")
  \cup Need(p.formulation.constraint = "", "hminus1_metric_constraint")
  \cup Need(~(\/ r.fixed_reconstruction \/ r.neumann \/ r.dirichlet_control
              \/ r.mean_zero \/ r.coefficient_identification
              \/ r.general_scalar),
            "hminus1_metric_registered_combination")
  \cup Need(TracksDomain(p, r), "hminus1_metric_full_domain_tracking")

ContinuousControlNeeds(p, r) ==
  Need(TracksDomain(p, r), "continuous_control_full_domain_tracking")
  \cup Need(p.formulation.constraint = "",
            "continuous_control_box_constraint")
  \cup Need(~(\/ r.fixed_reconstruction \/ r.neumann \/ r.dirichlet_control
              \/ r.mean_zero \/ r.coefficient_identification
              \/ r.general_scalar),
            "continuous_control_registered_combination")

CoefficientNeeds(p, r) ==
  Need(/\ Control(p).role = "parameter"
       /\ Topology(p, Control(p).space) = "l2",
       "cellwise_parameter_space")
  \cup Need(p.formulation.constraint # "", "positive_parameter_constraint")
  \cup Need(~(\/ r.fixed_reconstruction \/ r.neumann \/ r.h1_regularisation
              \/ r.dirichlet_control),
            "coefficient_identification_registered_combination")
  \cup Need(TracksDomain(p, r),
            "coefficient_identification_full_domain_tracking")

DirichletNeeds(p, r) ==
  LET controlled == ControlledRegionOf(p, r)
      fixed == FixedRegionOf(p, r)
      space == At(p.spaces, Control(p).space)
      topology == IF r.l2_dirichlet THEN "l2"
                  ELSE IF r.metric = "hhalf" THEN "hhalf" ELSE "h1"
  IN  Need(IsBoundary(controlled), "controlled_dirichlet_boundary_ids")
      \cup Need(/\ Control(p).role = "control"
                /\ space.topology = topology
                /\ Present(controlled) /\ space.region = controlled.id,
                "dirichlet_nodal_trace_control_space")
      \cup Need(p.formulation.constraint = "",
                "dirichlet_control_box_constraint")
      \cup Need(~(\/ r.fixed_reconstruction \/ r.neumann
                  \/ r.h1_regularisation \/ r.coefficient_identification),
                "dirichlet_control_registered_combination")
      \cup Need(~(r.normalized_dirichlet /\ r.partial_dirichlet),
                "normalized_dirichlet_complete_boundary")
      \cup Need(r.hhalf_loss => r.metric = "hhalf",
                "hhalf_loss_metric_realisation")
      \cup (IF ~r.partial_dirichlet THEN {}
            ELSE Need(IsBoundary(fixed), "partial_dirichlet_fixed_boundary")
                 \cup Need(FormsPartition(fixed, controlled),
                           "partial_dirichlet_boundary_partition")
                 \cup Need(Selects(r, "partial_boundary"),
                           "partial_dirichlet_interface_policy"))
      \cup Need(TracksDomain(p, r), "dirichlet_control_full_domain_tracking")

NeumannNeeds(p, r) ==
  LET controlled == ControlledRegionOf(p, r)
      fixed == FixedRegionOf(p, r)
      tracking == TrackingRegionOf(p, r)
  IN  Need(IsBoundary(controlled), "neumann_control_boundary_ids")
      \cup (IF r.neumann_convection
            THEN Need(/\ tracking.kind = "volume" /\ ~tracking.full
                      /\ tracking.material_ids # <<>>,
                      "neumann_convection_subdomain_region")
            ELSE Need(IsBoundary(tracking), "boundary_tracking_region"))
      \cup Need(Disjoint(controlled, fixed),
                "neumann_control_dirichlet_overlap")
      \cup Need(\/ ~r.neumann_convection
                \/ ~Present(controlled) \/ ~Present(fixed)
                \/ FormsPartition(fixed, controlled),
                "neumann_convection_boundary_partition")

CombinationNeeds(p, r) ==
  LET When(used, needs) == IF used THEN needs ELSE {}
  IN  Need(Cardinality({i \in DOMAIN p.regions :
                          /\ p.regions[i].kind = "volume"
                          /\ p.regions[i].full}) = 1,
           "single_full_volume_region")
      \cup Need(\/ r.mean_zero \/ r.dirichlet_control
                \/ IsBoundary(FixedRegionOf(p, r)),
                "fixed_dirichlet_boundary_ids")
      \cup When(r.h1_state_observation, H1ObservationNeeds(p, r))
      \cup When(r.general_scalar, GeneralScalarNeeds(p, r))
      \cup When(r.mean_zero, MeanZeroNeeds(p, r))
      \cup When(r.h1_regularisation, H1RegularisationNeeds(p, r))
      \cup H1MetricNeeds(r)
      \cup When(r.metric = "hminus1", Hminus1Needs(p, r))
      \cup When(r.continuous_control, ContinuousControlNeeds(p, r))
      \cup When(r.coefficient_identification, CoefficientNeeds(p, r))
      \cup When(r.dirichlet_control, DirichletNeeds(p, r))
      \cup Need(r.weighted_trace => r.neumann /\ ~r.mean_zero,
                "weighted_boundary_trace_registered_combination")
      \cup When(r.neumann, NeumannNeeds(p, r))

(***************************************************************************)
(* validate_registered_graph: which residual terms, data, losses,          *)
(* observations and box the target needs.  Terms named in "once" must be   *)
(* declared once, those in "never" must not; only a closed signature       *)
(* counts the terms it does not name.                                      *)
(***************************************************************************)
Signature(once, never, closed) ==
  [once |-> once, never |-> never, closed |-> closed]

RegisteredTerms(r) ==
  LET natural == IF r.natural_source THEN {"natural_boundary_source"} ELSE {}
  IN  IF r.general_scalar
      THEN Signature({"tensor_diffusion", "conservative_transport",
                      "advective_transport", "reaction", "volume_source",
                      "volume_control", "robin_bilinear", "robin_source"},
                     {}, TRUE)
      ELSE IF r.coefficient_identification
      THEN Signature({"parameter_diffusion_reaction", "volume_source"},
                     {"diffusion_reaction", "volume_control",
                      "neumann_control"}, FALSE)
      ELSE IF r.neumann_convection
      THEN Signature({"diffusion_reaction", "conservative_transport",
                      "volume_source", "neumann_control"} \cup natural,
                     {"volume_control"}, TRUE)
      ELSE IF r.neumann
      THEN Signature({"diffusion_reaction", "volume_source",
                      "neumann_control"} \cup natural,
                     {"volume_control"}, FALSE)
      ELSE IF r.l2_dirichlet
      THEN Signature({"transposition_laplacian", "volume_source",
                      "dirichlet_transposition_control"}, {}, TRUE)
      ELSE IF r.normalized_dirichlet
      THEN Signature({"laplacian", "volume_source"}, {}, TRUE)
      ELSE IF r.dirichlet_control
      THEN Signature({"diffusion_reaction", "volume_source"},
                     {"volume_control", "neumann_control"}, FALSE)
      ELSE Signature({"diffusion_reaction", "volume_source",
                      "volume_control"},
                     {"neumann_control", "natural_boundary_source"}, FALSE)

Matches(terms, signature) ==
  LET Count(kind) == Cardinality({i \in DOMAIN terms : terms[i].kind = kind})
  IN  /\ \A kind \in signature.once : Count(kind) = 1
      /\ \A kind \in signature.never : Count(kind) = 0
      /\ signature.closed => Len(terms) = Cardinality(signature.once)

CountData(p, role) ==
  Cardinality({i \in DOMAIN p.data : p.data[i].role = role})

DataComplete(p, r) ==
  LET Declares(roles, n) == \A role \in roles : CountData(p, role) = n
      If(condition) == IF condition THEN 1 ELSE 0
  IN  /\ Declares({"forcing", "desired_state", "regularisation_weight"}, 1)
      /\ CountData(p, "observation_weight") = If(r.weighted_trace)
      /\ CountData(p, "natural_boundary_source") =
           If(r.neumann /\ r.natural_source)
      /\ IF NormalizedLaplacian(r)
         THEN Declares({"diffusion", "reaction"}, 0)
         ELSE IF r.general_scalar THEN Declares(GeneralScalarRoles, 1)
         ELSE IF r.neumann_convection
         THEN Declares({"diffusion", "reaction", "conservative_transport"}, 1)
         ELSE /\ CountData(p, "reaction") = 1
              /\ CountData(p, "diffusion") =
                   If(~r.coefficient_identification)

LossesComplete(p, r) ==
  LET Count(kind) == Cardinality({i \in DOMAIN p.losses :
                                    p.losses[i].kind = kind})
      control == IF r.coefficient_identification
                 THEN "quadratic_parameter_regularisation"
                 ELSE IF r.hhalf_loss
                 THEN "quadratic_hhalf_control_regularisation"
                 ELSE IF r.h1_loss
                 THEN "quadratic_h1_control_regularisation"
                 ELSE "quadratic_control_regularisation"
  IN  /\ Len(p.losses) = 2
      /\ Count("quadratic_tracking") = 1
      /\ Count(control) = 1

\* Two observations, one of the state and one of the decision.
ObservationPair(p, r) ==
  LET OnState(kinds) ==
        First(p.observations, LAMBDA o :
          o.kind \in kinds /\ o.input = p.formulation.state)
      OfKind(kind) == First(p.observations, LAMBDA o : o.kind = kind)
      onDecision == First(p.observations, LAMBDA o :
                      /\ o.kind = "volume_restriction"
                      /\ o.input = p.formulation.control)
  IN  IF r.neumann
      THEN <<OfKind(IF r.neumann_convection THEN "volume_restriction"
                    ELSE IF r.weighted_trace THEN "weighted_boundary_trace"
                    ELSE "boundary_trace"),
             OfKind("boundary_restriction")>>
      ELSE IF r.dirichlet_control
      THEN <<OnState({"volume_restriction", "h1_state_restriction"}),
             OfKind("boundary_restriction")>>
      ELSE IF r.normal_flux THEN <<OnState({"normal_flux"}), onDecision>>
      ELSE <<OnState({"point_sensor"}), onDecision>>

LOCAL PolicyDeclared(p, subject, kind, scope) ==
  HasExactPolicy(p, subject, kind, "selected_discrete_realisation", scope)

\* The policies that a normal flux or a point sensor needs besides its pair.
WeakObservationNeeds(p, r) ==
  LET observed == First(p.observations, LAMBDA o :
                    o.kind = IF r.normal_flux THEN "normal_flux"
                             ELSE "point_sensor")
      realised == IF r.normal_flux THEN "fe_q_normal_flux_very_weak"
                  ELSE "fe_q_point_sensor_very_weak"
  IN  Need(r.normal_flux =>
             PolicyDeclared(p, observed.id, "conormal_flux", "both"),
           "normal_flux_orientation_policy")
      \cup Need(PolicyDeclared(p, observed.id,
                               "analytic_quadrature_evaluation",
                               "discrete_compilation"),
                "observation_evaluation_policy")
      \cup Need(/\ Selects(r, "transposition")
                /\ r.selections["transposition"].discrete = realised,
                "observation_transposition_policy")

PairNeeds(p, r) ==
  LET pair == ObservationPair(p, r)
      RegionOf(i) == At(p.regions, pair[i].region)
      observes ==
        CASE r.neumann_convection ->
               /\ RegionOf(1).kind = "volume" /\ ~RegionOf(1).full
               /\ RegionOf(1).material_ids # <<>>
          [] \/ r.neumann /\ ~r.neumann_convection
             \/ r.normal_flux /\ ~r.neumann /\ ~r.dirichlet_control ->
               IsBoundary(RegionOf(1))
          [] r.dirichlet_control /\ ~r.neumann -> RegionOf(1).full
          [] OTHER -> /\ RegionOf(1).kind = "point_set"
                      /\ RegionOf(1).points # <<>>
      restricts ==
        IF r.neumann \/ r.dirichlet_control
        THEN /\ Present(ControlledRegionOf(p, r))
             /\ RegionOf(2).id = r.control_region
        ELSE RegionOf(2).full
  IN  Need(/\ Len(p.observations) = 2
           /\ Present(pair[1]) /\ Present(pair[2]),
           "complete_observation_set")
      \cup Need(Present(pair[1]) => observes, "state_observation_region")
      \cup Need(Present(pair[2]) => restricts, "control_observation_region")
      \cup (IF r.neumann \/ r.dirichlet_control THEN {}
            ELSE WeakObservationNeeds(p, r))

VolumeObservationNeeds(p, o) ==
  LET region == At(p.regions, o.region)
      state == o.input = p.formulation.state
  IN  IF region.kind # "volume" THEN {"volume_observation_region"}
      ELSE IF region.full THEN {}
      ELSE IF ~state THEN {"full_domain_nonstate_observation"}
      ELSE Need(region.material_ids # <<>>, "material_subdomain_observation")

ObservationNeeds(p, r) ==
  IF r.neumann \/ r.dirichlet_control \/ r.normal_flux \/ r.point_sensor
  THEN PairNeeds(p, r)
  ELSE UNION {VolumeObservationNeeds(p, p.observations[i]) :
              i \in DOMAIN p.observations}

ParameterNeeds(p) ==
  LET observed == First(p.observations, LAMBDA o :
                    /\ o.kind = "volume_restriction"
                    /\ o.input = p.formulation.control)
      loss == First(p.losses, LAMBDA l :
                l.kind = "quadratic_parameter_regularisation")
  IN  Need(SelectedMetric(p).kind = "l2", "parameter_l2_metric")
      \cup Need(/\ SelectedMetric(p).variable = p.formulation.control
                /\ Present(observed) /\ Present(loss)
                /\ loss.observation = observed.id,
                "registered_parameter_observation_metric_loss")

BoxNeeds(p, r) ==
  LET box == p.formulation.constraint
  IN  IF box = "" THEN Need(p.constraints = <<>>, "selected_constraint_port")
      ELSE Need(/\ Len(p.constraints) = 1
                /\ CountData(p, "lower_bound") = 1
                /\ CountData(p, "upper_bound") = 1,
                "complete_box_data_set")
           \cup Need(At(p.constraints, box).kind =
                       IF r.neumann THEN "facewise_box" ELSE "cellwise_box",
                     "control_layout_constraint_realisation")

GraphNeeds(p, r) ==
  Need(Matches(p.residual_terms, RegisteredTerms(r)),
       "complete_residual_term_set")
  \cup Need(DataComplete(p, r), "complete_data_set")
  \cup Need(LossesComplete(p, r), "complete_registered_loss_set")
  \cup Need(Len(p.metrics) = 1, "selected_registered_metric")
  \cup (IF r.coefficient_identification THEN ParameterNeeds(p) ELSE {})
  \cup ObservationNeeds(p, r)
  \cup BoxNeeds(p, r)

(***************************************************************************)
(* The formulation, and the product asked of it.                           *)
(***************************************************************************)
IsReducedDTO(p) == /\ p.formulation.kind = "reduced_dto"
                   /\ p.formulation.provenance = "dto"
IsSuppliedOTD(p) == /\ p.formulation.kind = "all_at_once"
                    /\ p.formulation.provenance = "supplied_otd"

FormulationNeeds(p) ==
  Need(IsReducedDTO(p) \/ IsSuppliedOTD(p), "reduced_dto_formulation")
  \cup Need(Len(p.variables) = 2 /\ Len(p.equations) = 1,
            "one_state_one_decision_one_equation")
  \cup Need(\/ p.formulation.constraint = ""
            \/ At(p.constraints, p.formulation.constraint).kind \in
                 {"cellwise_box", "facewise_box"},
            "l2_coefficientwise_projected_gradient")

SuppliedOTDNeeds(p, r, product) ==
  LET d == p.otd[1]
      Spaces(block) == <<block.variable_space, block.residual_space,
                         block.trial, block.test>>
  IN  IF ~IsSuppliedOTD(p) THEN {}
      ELSE IF p.otd = <<>> THEN {"supplied_otd_declaration"}
      ELSE Need(r.family = "direct_volume", "supplied_otd_scalar_target")
           \cup Need(p.formulation.constraint = "" \/ product = "pdas",
                     "supplied_otd_equality_only")
           \cup Need(Spaces(d.state_block) =
                       <<"state_space", "state_test_space",
                         "state_pairing", "state_test_pairing">>,
                     "supplied_otd_state_block")
           \cup Need(Spaces(d.adjoint_block) =
                       <<"state_test_space", "state_test_space",
                         "state_test_pairing", "state_test_pairing">>,
                     "supplied_otd_adjoint_space")
           \cup Need(Spaces(d.stationarity_block) =
                       <<"control_space", "control_space",
                         "control_pairing", "control_pairing">>,
                     "supplied_otd_stationarity_space")
           \cup Need(/\ d.convention = "framework_adjoint"
                     /\ d.conversion = "identity",
                     "supplied_otd_multiplier_conversion")

RegistrationNeeds(r) ==
  Need(r.dirichlet_control => r.registration # "none",
       "section_5_11_registered_signature")

\* The solver policies of a primal-dual active-set product are taken as the
\* registered ones.
ProductNeeds(p, r, product) ==
  LET unboxed == p.formulation.constraint = ""
      canonical ==
        \/ /\ p.id = "scalar_diffusion_reaction_fixed_dirichlet"
           /\ AssembledV1Target(r) /\ IsReducedDTO(p) /\ unboxed
        \/ /\ p.id = "scalar_diffusion_reaction_volume_control"
           /\ r.family = "direct_volume" /\ IsSuppliedOTD(p) /\ unboxed
  IN  CASE product = "pdas" ->
             Need(/\ r.family = "direct_volume"
                  /\ IsReducedDTO(p) \/ IsSuppliedOTD(p)
                  /\ At(p.constraints, p.formulation.constraint).kind =
                       "cellwise_box",
                  "compiled_pdas_cellwise_box")
             \cup Need(r.metric \notin {"h1", "hhalf", "hminus1"},
                       "compiled_pdas_metric_realisation")
        [] product = "quadratic_kkt" ->
             Need(canonical, "compiled_quadratic_kkt")
        [] OTHER -> {}

(***************************************************************************)
(* The typed selections of the request must be the registered ones.        *)
(***************************************************************************)
SelectionNeeds(p, r) ==
  LET s == r.selections
      target == s["h1_target"]
      transposition == s["transposition"]
      expected == IF r.point_sensor THEN "fe_q_point_sensor_very_weak"
                  ELSE IF r.normal_flux THEN "fe_q_normal_flux_very_weak"
                  ELSE "conforming_nodal_lifting_equivalence"
      ConstantOf(role) == ResidualDatum(p, role)
      stateBoundary == IF r.dirichlet_control THEN r.control_region
                       ELSE r.fixed_region
      When(used, kind, needs) ==
        IF ~used THEN {} ELSE IF ~Selects(r, kind) THEN {kind} ELSE needs
  IN  When(r.h1_state_observation, "h1_target",
           Need(/\ target.data = "desired_state"
                /\ target.observation_space = "state_observation_space"
                /\ "regularity" \in target.chosen,
                "h1_target_space_membership")
           \cup Need(/\ target.fixed = stateBoundary
                     /\ "trace" \in target.chosen,
                     "h1_target_zero_trace"))
      \cup When(r.point_sensor \/ r.normal_flux \/ r.l2_dirichlet,
                "transposition",
                Need("operator" \in transposition.chosen,
                     "transposition_operator_realisation")
                \cup Need(/\ transposition.isomorphism =
                               "dirichlet_laplacian_isomorphism"
                          /\ transposition.equation = p.formulation.equation,
                          "transposition_isomorphism")
                \cup Need(transposition.diffusion = ConstantOf("diffusion"),
                          "transposition_diffusion_data")
                \cup Need(transposition.reaction = ConstantOf("reaction"),
                          "transposition_reaction_data")
                \cup Need(\/ ~r.point_sensor /\ ~r.normal_flux
                          \/ transposition.observation = "state_observation",
                          "transposition_observation_source")
                \cup Need(transposition.discrete = expected,
                          "transposition_discrete_realisation"))
      \cup When(r.partial_dirichlet, "partial_boundary",
                Need(s["partial_boundary"].chosen =
                       {"interface", "trace", "hanging"},
                     "partial_dirichlet_interface_selection"))
      \cup When(r.metric = "hhalf", "fractional_metric",
                Need(/\ "operator" \in s["fractional_metric"].chosen
                     /\ s["fractional_metric"].apply = "minimum_h1_extension"
                     /\ s["fractional_metric"].inverse =
                          "full_volume_operator_inverse",
                     "hhalf_metric_realisation_selection"))
      \cup When(r.registration = "h1_control", "boundary_h1_metric",
                Need(s["boundary_h1_metric"].chosen =
                       {"operator", "tangential_gradient", "nullspace"},
                     "boundary_h1_metric_realisation_selection"))

(***************************************************************************)
(* The first return of compile_impl.  The execution mode and the solver    *)
(* parameters of the discretisation policy are taken as registered.        *)
(***************************************************************************)
LoweringNeeds(p, r, product) ==
  CombinationNeeds(p, r) \cup GraphNeeds(p, r) \cup FormulationNeeds(p)
  \cup SuppliedOTDNeeds(p, r, product) \cup RegistrationNeeds(r)
  \cup ProductNeeds(p, r, product)
=============================================================================
