--------------------------- MODULE ProblemLibrary ---------------------------
(***************************************************************************)
(* The factories of include/nmopt/semantic/v1/problem_library.hpp.  A      *)
(* factory builds a base graph or applies a delta to the graph of another  *)
(* factory.  The order of each vector is the source's.                     *)
(***************************************************************************)
EXTENDS ProblemSpec

LOCAL Volume == Region("domain", "volume", TRUE, <<>>, <<>>, <<>>)
LOCAL Boundary(id, boundaryIds) ==
  Region(id, "boundary", FALSE, boundaryIds, <<>>, <<>>)
LOCAL Self(id, space) == Pairing(id, space, space)

ReducedDTO(control, metric, constraint) ==
  Formulation("reduced_dto", "reduced_dto", "dto", "state", control,
              "state_equation", metric, constraint)

Blank ==
  [id |-> "", unlabelled |-> {}, regions |-> <<>>, spaces |-> <<>>,
   pairings |-> <<>>, variables |-> <<>>, data |-> <<>>,
   transformations |-> <<>>, residual_terms |-> <<>>, equations |-> <<>>,
   observations |-> <<>>, losses |-> <<>>, metrics |-> <<>>,
   constraints |-> <<>>, requirement_policies |-> <<>>,
   formulation |-> ReducedDTO("control", "control_l2_metric", ""),
   otd |-> <<>>]

\* The box both control graphs may carry: two bounds, a constraint and the
\* policy that realises it.
WithBox(problem, shape, region) ==
  [Delta(problem,
     <<Add("data", Datum("lower_bound", shape \o "_bound", "lower_bound",
                         "control_space")),
       Add("data", Datum("upper_bound", shape \o "_bound", "upper_bound",
                         "control_space")),
       Add("constraints", Constraint("control_box", shape \o "_box",
                                     "control", "lower_bound",
                                     "upper_bound")),
       Add("requirement_policies",
           Discrete("control_box_policy", "control_box",
                    "discrete_" \o shape \o "_bounds", region))>>)
   EXCEPT !.formulation.constraint = "control_box"]

(***************************************************************************)
(* The base graph: volume control of a scalar diffusion-reaction equation. *)
(***************************************************************************)
LOCAL UnboxedScalar ==
  [Blank EXCEPT
   !.id = "scalar_diffusion_reaction_volume_control",
   !.regions = <<Volume, Boundary("dirichlet_boundary", <<0>>)>>,
   !.spaces = <<Space("state_space", "domain", "h1", "state"),
                Space("state_test_space", "domain", "h1", "test"),
                Space("control_space", "domain", "l2", "control"),
                Space("state_observation_space", "domain", "l2",
                      "observation"),
                Space("control_observation_space", "domain", "l2",
                      "observation")>>,
   !.pairings = <<Self("state_pairing", "state_space"),
                  Self("state_test_pairing", "state_test_space"),
                  Self("control_pairing", "control_space"),
                  Self("state_observation_pairing",
                       "state_observation_space"),
                  Self("control_observation_pairing",
                       "control_observation_space")>>,
   !.variables = <<Variable("state", "state", "state_space", ""),
                   Variable("control", "control", "control_space", "")>>,
   !.data = <<Datum("forcing", "function", "forcing", "state_test_space"),
              Datum("desired_state", "function", "desired_state",
                    "state_observation_space"),
              Datum("diffusion", "scalar_constant", "diffusion", ""),
              Datum("reaction", "scalar_constant", "reaction", ""),
              Datum("regularisation_weight", "scalar_constant",
                    "regularisation_weight", "")>>,
   !.residual_terms =
      <<Term("diffusion_reaction", "diffusion_reaction", "state_equation",
             <<"state">>, <<"diffusion", "reaction">>, ""),
        Term("volume_source", "volume_source", "state_equation", <<>>,
             <<"forcing">>, ""),
        Term("volume_control", "volume_control", "state_equation",
             <<"control">>, <<>>, "")>>,
   !.equations = <<Equation("state_equation", "state_test_space",
                            "state_test_pairing",
                            <<"diffusion_reaction", "volume_source",
                              "volume_control">>)>>,
   !.observations =
      <<Observation("state_observation", "volume_restriction", "state",
                    "domain", "state_observation_space",
                    "state_observation_pairing", <<>>),
        Observation("control_observation", "volume_restriction", "control",
                    "domain", "control_observation_space",
                    "control_observation_pairing", <<>>)>>,
   !.losses = <<Loss("state_tracking", "quadratic_tracking",
                     "state_observation", "desired_state",
                     "state_observation_pairing"),
                Loss("control_regularisation",
                     "quadratic_control_regularisation",
                     "control_observation", "regularisation_weight",
                     "control_observation_pairing")>>,
   !.metrics = <<Metric("control_l2_metric", "l2", "control",
                        "control_pairing")>>,
   !.requirement_policies =
      <<Discrete("state_fixed_dirichlet", "state", "fixed_dirichlet",
                 "dirichlet_boundary"),
        Discrete("desired_state_quadrature_policy", "desired_state",
                 "analytic_quadrature_evaluation", "domain")>>]

ScalarDiffusionReaction(boxed) ==
  IF boxed THEN WithBox(UnboxedScalar, "cellwise", "domain")
  ELSE UnboxedScalar

(***************************************************************************)
(* The supplied optimality system: an all-at-once formulation of the base  *)
(* graph with a declaration of its three blocks.                           *)
(***************************************************************************)
Block(id, role, variable, residual, variableSpace, residualSpace, runtimeVariable, runtimeResidual, trial, test) ==
  [id |-> id, labelled |-> TRUE, role |-> role, variable |-> variable,
   residual |-> residual, variable_space |-> variableSpace,
   residual_space |-> residualSpace, runtime_variable |-> runtimeVariable,
   runtime_residual |-> runtimeResidual, trial |-> trial, test |-> test,
   provenance |-> {"discretisation", "action"}]

SuppliedOTD(boxed) ==
  [ScalarDiffusionReaction(boxed) EXCEPT
   !.formulation.id = "supplied_otd",
   !.formulation.kind = "all_at_once",
   !.formulation.provenance = "supplied_otd",
   !.otd = <<[id |-> "canonical_scalar_supplied_otd", state |-> "state",
              adjoint |-> "adjoint", control |-> "control",
              state_block |->
                Block("state_block", "state", "state", "state_equation",
                      "state_space", "state_test_space", "state",
                      "state_equation", "state_pairing",
                      "state_test_pairing"),
              adjoint_block |->
                Block("adjoint_block", "adjoint", "adjoint",
                      "adjoint_equation", "state_test_space",
                      "state_test_space", "state_test", "adjoint_equation",
                      "state_test_pairing", "state_test_pairing"),
              stationarity_block |->
                Block("control_stationarity_block", "control_stationarity",
                      "control", "control_stationarity", "control_space",
                      "control_space", "control", "control_stationarity",
                      "control_pairing", "control_pairing"),
              convention |-> "framework_adjoint", conversion |-> "identity",
              provenance |-> {"value", "jvp", "vjp", "solve"},
              comparison |-> "equivalent_under_declared_conversion",
              evidence |-> TRUE]>>]

(***************************************************************************)
(* Tensor diffusion, two transports, a reaction and a Robin boundary.      *)
(***************************************************************************)
BoundarySelection(id, fixed, robin, neumann, outflow, transport) ==
  [id |-> id, subject |-> "state", fixed |-> fixed, robin |-> robin,
   neumann |-> neumann, inflow |-> <<>>, outflow |-> outflow,
   conormal |-> "diffusion_minus_transport", normal |-> "outward",
   transport |-> transport, chosen |-> {"trace", "face_quadrature"}]

LOCAL Coefficient(id, region, scalar) ==
  ShapedSpace(id, region, "bounded_function", "data", scalar, 0)

LOCAL StateTerm(id, datum, region) ==
  Term(id, id, "state_equation", <<"state">>, <<datum>>, region)

GeneralScalar(fixedIds, robinIds, boxed) ==
  [Delta(ScalarDiffusionReaction(boxed),
   <<Set("regions", "dirichlet_boundary", "boundary_ids", fixedIds),
     Add("regions", Boundary("robin_boundary", robinIds)),
     Add("spaces", Coefficient("diffusion_data_space", "domain", FALSE)),
     Add("spaces", Coefficient("conservative_transport_data_space", "domain",
                               FALSE)),
     Add("spaces", Coefficient("advective_transport_data_space", "domain",
                               FALSE)),
     Add("spaces", Coefficient("reaction_data_space", "domain", TRUE)),
     Add("spaces", Coefficient("robin_coefficient_data_space",
                               "robin_boundary", TRUE)),
     Add("spaces", Space("robin_source_data_space", "robin_boundary", "l2",
                         "data")),
     Put("data", "diffusion", Datum("diffusion_tensor", "tensor_function",
                                    "diffusion", "diffusion_data_space")),
     Put("data", "reaction", Datum("reaction", "function", "reaction",
                                   "reaction_data_space")),
     Add("data", Datum("conservative_transport", "vector_function",
                       "conservative_transport",
                       "conservative_transport_data_space")),
     Add("data", Datum("advective_transport", "vector_function",
                       "advective_transport",
                       "advective_transport_data_space")),
     Add("data", Datum("robin_coefficient", "function", "robin_coefficient",
                       "robin_coefficient_data_space")),
     Add("data", Datum("robin_source", "function", "robin_source",
                       "robin_source_data_space")),
     Put("residual_terms", "diffusion_reaction",
         StateTerm("tensor_diffusion", "diffusion_tensor", "")),
     Add("residual_terms", StateTerm("conservative_transport",
                                     "conservative_transport", "")),
     Add("residual_terms", StateTerm("advective_transport",
                                     "advective_transport", "")),
     Add("residual_terms", StateTerm("reaction", "reaction", "")),
     Add("residual_terms", StateTerm("robin_bilinear", "robin_coefficient",
                                     "robin_boundary")),
     Add("residual_terms", Term("robin_source", "robin_source",
                                "state_equation", <<>>, <<"robin_source">>,
                                "robin_boundary")),
     Set("equations", "state_equation", "terms",
         <<"tensor_diffusion", "conservative_transport",
           "advective_transport", "reaction", "volume_source",
           "volume_control", "robin_bilinear", "robin_source">>),
     Add("requirement_policies",
         Assumed("uniform_ellipticity_assumption", "diffusion_tensor",
                 "uniform_ellipticity", "domain")),
     Add("requirement_policies",
         Assumed("coefficient_regularity_assumption", "state_equation",
                 "coefficient_regularity", "domain")),
     Add("requirement_policies",
         Assumed("coercivity_assumption", "state_equation", "coercivity",
                 "domain")),
     Add("requirement_policies",
         Typed(DiscreteAndContinuous("scalar_boundary_partition", "state",
                                     "boundary_partition", ""),
               "boundary",
               BoundarySelection("scalar_boundary_partition",
                                 "dirichlet_boundary", "robin_boundary",
                                 <<>>, "robin_boundary", "unspecified"))),
     Add("requirement_policies",
         DiscreteAndContinuous("conormal_flux_convention", "robin_bilinear",
                               "conormal_flux", "robin_boundary")),
     Add("requirement_policies",
         Discrete("robin_trace_policy", "robin_bilinear", "boundary_trace",
                  "robin_boundary")),
     Add("requirement_policies",
         DiscreteAndContinuous("transport_boundary_trace",
                               "conservative_transport",
                               "transport_boundary_trace",
                               "robin_boundary"))>>)
   EXCEPT !.id = "general_scalar_elliptic_robin_volume_control"]

(***************************************************************************)
(* Other observations of the state.                                        *)
(***************************************************************************)
MaterialSubdomain(material) ==
  <<Add("regions", Region("observation_subdomain", "volume", FALSE, <<>>,
                          <<material>>, <<>>)),
    Set("spaces", "state_observation_space", "region",
        "observation_subdomain"),
    Set("observations", "state_observation", "region",
        "observation_subdomain"),
    Set("requirement_policies", "desired_state_quadrature_policy", "region",
        "observation_subdomain")>>

SubdomainTracking(material, boxed) ==
  [Delta(ScalarDiffusionReaction(boxed), MaterialSubdomain(material))
   EXCEPT !.id = "scalar_diffusion_reaction_subdomain_tracking"]

LOCAL TranspositionSpaces ==
  <<Add("spaces", Space("transposition_strong_space", "domain", "h2",
                        "auxiliary")),
    Add("spaces", Space("transposition_range_space", "domain", "l2",
                        "auxiliary")),
    Add("spaces", Space("transposition_residual_space", "domain", "l2",
                        "auxiliary")),
    Add("spaces", Space("transposition_multiplier_space", "domain", "l2",
                        "auxiliary"))>>

\* The transposition selection of the two strong observations: no conforming
\* parent, trace subspace, equivalence or conormal policy.
LOCAL StrongTransposition(policy, regularity, discrete) ==
  [id |-> policy, equation |-> "state_equation",
   strong |-> "transposition_strong_space",
   range |-> "transposition_range_space",
   isomorphism |-> "dirichlet_laplacian_isomorphism",
   diffusion |-> "diffusion", reaction |-> "reaction",
   codomain |-> "transposition_residual_space",
   multiplier |-> "transposition_multiplier_space",
   observation |-> "state_observation",
   source |-> "state_observation_space", regularity |-> regularity,
   parent |-> "", trace |-> "", equivalence |-> "", conormal |-> "",
   chosen |-> {"operator"}, discrete |-> discrete, equivalent |-> "none"]

LOCAL StrongObservation(kind, region, target, policy, regularity, evaluation, discrete, dimension) ==
  <<Put("spaces", "state_observation_space",
        ShapedSpace("state_observation_space", region, "l2", "observation",
                    TRUE, dimension)),
    Put("observations", "state_observation",
        Observation("state_observation", kind, "state", region,
                    "state_observation_space", "state_observation_pairing",
                    <<>>)),
    Put("requirement_policies", "desired_state_quadrature_policy",
        Discrete(target, "desired_state", "analytic_quadrature_evaluation",
                 region)),
    Add("requirement_policies",
        Typed(Policy(policy, "state_equation", "transposition_formulation",
                     "provided", "continuous_semantics", "domain"),
              "transposition",
              StrongTransposition(policy, regularity, discrete))),
    Add("requirement_policies",
        Assumed(regularity, "state_equation", "domain_regularity",
                "domain")),
    Add("requirement_policies",
        Discrete(evaluation, "state_observation",
                 "analytic_quadrature_evaluation", region))>>

PointSensor(coordinates, fixedIds) ==
  [Delta(ScalarDiffusionReaction(FALSE),
   <<Set("regions", "dirichlet_boundary", "boundary_ids", fixedIds),
     Add("regions", Region("point_sensor_region", "point_set", FALSE, <<>>,
                           <<>>, coordinates))>>
   \o TranspositionSpaces
   \o StrongObservation("point_sensor", "point_sensor_region",
                        "desired_state_point_evaluation_policy",
                        "point_sensor_transposition_policy",
                        "point_sensor_domain_regularity",
                        "point_sensor_evaluation_policy",
                        "fe_q_point_sensor_very_weak", Len(coordinates)))
   EXCEPT !.id = "scalar_diffusion_reaction_point_sensor"]

\* The source adds the orientation policy before the transposition policy;
\* they are of different kinds, so their order is not observed.
NormalFlux(fluxIds, fixedIds) ==
  [Delta(ScalarDiffusionReaction(FALSE),
   <<Set("regions", "dirichlet_boundary", "boundary_ids", fixedIds),
     Add("regions", Boundary("normal_flux_boundary", fluxIds)),
     Add("requirement_policies",
         DiscreteAndContinuous("normal_flux_orientation_policy",
                               "state_observation", "conormal_flux",
                               "normal_flux_boundary"))>>
   \o TranspositionSpaces
   \o StrongObservation("normal_flux", "normal_flux_boundary",
                        "desired_state_normal_flux_evaluation",
                        "normal_flux_transposition_policy",
                        "normal_flux_domain_regularity",
                        "normal_flux_evaluation_policy",
                        "fe_q_normal_flux_very_weak", 0))
   EXCEPT !.id = "scalar_diffusion_reaction_normal_flux"]

H1Tracking(fixedRegion) ==
  <<Put("spaces", "state_observation_space",
        Space("state_observation_space", "domain", "h1", "observation")),
    Put("observations", "state_observation",
        Observation("state_observation", "h1_state_restriction", "state",
                    "domain", "state_observation_space",
                    "state_observation_pairing", <<>>)),
    Add("requirement_policies",
        Typed(Assumed("h1_target_data_membership", "desired_state",
                      "target_data_membership", fixedRegion),
              "h1_target",
              [id |-> "h1_target_data_membership", data |-> "desired_state",
               observation_space |-> "state_observation_space",
               fixed |-> fixedRegion,
               chosen |-> {"regularity", "trace"}]))>>

H1StateTracking ==
  [Delta(ScalarDiffusionReaction(FALSE), H1Tracking("dirichlet_boundary"))
   EXCEPT !.id = "scalar_diffusion_reaction_h1_state_tracking"]

(***************************************************************************)
(* Other control spaces and search metrics.                                *)
(***************************************************************************)
HomogeneousContinuousControl ==
  <<Set("spaces", "control_space", "topology", "h1"),
    Add("requirement_policies",
        DiscreteAndContinuous("control_homogeneous_dirichlet_policy",
                              "control", "fixed_dirichlet",
                              "dirichlet_boundary"))>>

ContinuousControl ==
  [Delta(ScalarDiffusionReaction(FALSE), HomogeneousContinuousControl)
   EXCEPT !.id =
     "scalar_diffusion_reaction_l2_state_tracking_continuous_control"]

L2MetricH1Tracking ==
  [Delta(H1StateTracking, HomogeneousContinuousControl) EXCEPT !.id =
     "scalar_diffusion_reaction_h1_tracking_continuous_control_l2_metric"]

Hminus1Metric ==
  [Delta(L2MetricH1Tracking,
   <<Put("metrics", "control_l2_metric",
         Metric("control_hminus1_metric", "hminus1", "control",
                "control_pairing")),
     Add("requirement_policies",
         Typed(Discrete("hminus1_metric_realisation",
                        "control_hminus1_metric", "metric_realisation",
                        "dirichlet_boundary"),
               "hminus1_metric",
               [id |-> "hminus1_metric_mass_laplacian_inverse_mass",
                metric |-> "control_hminus1_metric",
                primal |-> "control_space", dual |-> "control_space",
                mass |-> "control_pairing", laplacian |-> "control_pairing",
                fixed |-> "dirichlet_boundary",
                laplacian_solve |-> "control_metric_solve.laplacian_inverse",
                mass_solve |-> "control_metric_solve.mass_inverse",
                chosen |-> {"operator", "inverse", "nullspace"}]))>>)
   EXCEPT !.formulation.metric = "control_hminus1_metric",
          !.id = "scalar_diffusion_reaction_h1_tracking_hminus1_metric"]

H1Regularised ==
  [Delta(ScalarDiffusionReaction(FALSE),
   <<Set("spaces", "control_space", "topology", "h1"),
     Set("spaces", "control_observation_space", "topology", "h1"),
     Put("losses", "control_regularisation",
         Loss("control_h1_regularisation",
              "quadratic_h1_control_regularisation", "control_observation",
              "regularisation_weight", "control_observation_pairing"))>>)
   EXCEPT !.id = "scalar_diffusion_reaction_h1_control_regularisation"]

H1Metric ==
  [Delta(H1Regularised,
   <<Put("metrics", "control_l2_metric",
         Metric("control_h1_metric", "h1", "control", "control_pairing"))>>)
   EXCEPT !.formulation.metric = "control_h1_metric",
          !.id = "scalar_diffusion_reaction_h1_control_metric"]

(***************************************************************************)
(* A diffusion coefficient as the decision variable.                       *)
(***************************************************************************)
CoefficientIdentification ==
  [Delta(ScalarDiffusionReaction(FALSE),
   <<Put("spaces", "control_space",
         Space("parameter_space", "domain", "l2", "parameter")),
     Put("spaces", "control_observation_space",
         Space("parameter_observation_space", "domain", "l2",
               "observation")),
     Put("pairings", "control_pairing",
         Self("parameter_pairing", "parameter_space")),
     Put("pairings", "control_observation_pairing",
         Self("parameter_observation_pairing",
              "parameter_observation_space")),
     Put("variables", "control",
         Variable("diffusion_parameter", "parameter", "parameter_space",
                  "")),
     Drop("data", "diffusion"),
     Add("data", Datum("parameter_lower_bound", "cellwise_bound",
                       "lower_bound", "parameter_space")),
     Add("data", Datum("parameter_upper_bound", "cellwise_bound",
                       "upper_bound", "parameter_space")),
     Put("residual_terms", "diffusion_reaction",
         Term("parameter_diffusion_reaction", "parameter_diffusion_reaction",
              "state_equation", <<"state", "diffusion_parameter">>,
              <<"reaction">>, "")),
     Drop("residual_terms", "volume_control"),
     Set("equations", "state_equation", "terms",
         <<"parameter_diffusion_reaction", "volume_source">>),
     Put("observations", "control_observation",
         Observation("parameter_observation", "volume_restriction",
                     "diffusion_parameter", "domain",
                     "parameter_observation_space",
                     "parameter_observation_pairing", <<>>)),
     Put("losses", "control_regularisation",
         Loss("parameter_regularisation",
              "quadratic_parameter_regularisation", "parameter_observation",
              "regularisation_weight", "parameter_observation_pairing")),
     Put("metrics", "control_l2_metric",
         Metric("parameter_l2_metric", "l2", "diffusion_parameter",
                "parameter_pairing")),
     All("constraints",
         <<Constraint("parameter_box", "cellwise_box", "diffusion_parameter",
                      "parameter_lower_bound", "parameter_upper_bound")>>),
     Add("requirement_policies",
         Discrete("parameter_positive_box_policy", "parameter_box",
                  "discrete_cellwise_bounds", "domain"))>>)
   EXCEPT !.formulation.control = "diffusion_parameter",
          !.formulation.metric = "parameter_l2_metric",
          !.formulation.constraint = "parameter_box",
          !.id = "scalar_diffusion_reaction_coefficient_identification"]

(***************************************************************************)
(* Neumann boundary control: its own base graph, which shares the state    *)
(* components and the data of the volume graph.                            *)
(***************************************************************************)
NeumannControl(boxed, discretisation) ==
  LET graph ==
        Delta(ScalarDiffusionReaction(FALSE),
        <<Add("regions", Boundary("control_boundary", <<1>>)),
          Add("regions", Boundary("observation_boundary", <<2>>)),
          Set("spaces", "control_space", "region", "control_boundary"),
          Set("spaces", "state_observation_space", "region",
              "observation_boundary"),
          Set("spaces", "control_observation_space", "region",
              "control_boundary"),
          Put("residual_terms", "volume_control",
              Term("neumann_control", "neumann_control", "state_equation",
                   <<"control">>, <<>>, "control_boundary")),
          Set("equations", "state_equation", "terms",
              <<"diffusion_reaction", "volume_source", "neumann_control">>),
          All("observations",
              <<Observation("state_boundary_trace", "boundary_trace",
                            "state", "observation_boundary",
                            "state_observation_space",
                            "state_observation_pairing", <<>>),
                Observation("control_boundary_restriction",
                            "boundary_restriction", "control",
                            "control_boundary", "control_observation_space",
                            "control_observation_pairing", <<>>)>>),
          Set("losses", "state_tracking", "observation",
              "state_boundary_trace"),
          Set("losses", "control_regularisation", "observation",
              "control_boundary_restriction"),
          All("requirement_policies",
              <<Discrete("state_fixed_dirichlet", "state",
                         "fixed_dirichlet", "dirichlet_boundary"),
                Typed(Discrete("neumann_control_trace_policy",
                               "neumann_control", "boundary_trace",
                               "control_boundary"),
                      "neumann_control",
                      [id |-> "neumann_control_trace_policy",
                       control |-> "control", space |-> "control_space",
                       region |-> "control_boundary",
                       metric |-> "control_l2_metric",
                       discretisation |-> discretisation]),
                Discrete("state_boundary_trace_policy",
                         "state_boundary_trace", "boundary_trace",
                         "observation_boundary"),
                Discrete("desired_state_quadrature_policy", "desired_state",
                         "analytic_quadrature_evaluation",
                         "observation_boundary")>>)>>)
      named == [graph EXCEPT !.id =
                  "scalar_diffusion_reaction_neumann_boundary_control"]
  IN  IF boxed THEN WithBox(named, "facewise", "control_boundary")
      ELSE named

NeumannConvection(material, boxed, discretisation) ==
  [Delta(NeumannControl(boxed, discretisation),
   <<Drop("regions", "observation_boundary"),
     Add("regions", Region("observation_subdomain", "volume", FALSE, <<>>,
                           <<material>>, <<>>)),
     Set("spaces", "state_observation_space", "region",
         "observation_subdomain"),
     Put("observations", "state_boundary_trace",
         Observation("state_subdomain_restriction", "volume_restriction",
                     "state", "observation_subdomain",
                     "state_observation_space", "state_observation_pairing",
                     <<>>)),
     Set("losses", "state_tracking", "observation",
         "state_subdomain_restriction"),
     Put("requirement_policies", "state_boundary_trace_policy",
         Discrete("state_subdomain_restriction_policy",
                  "state_subdomain_restriction",
                  "analytic_quadrature_evaluation",
                  "observation_subdomain")),
     Set("requirement_policies", "desired_state_quadrature_policy",
         "region", "observation_subdomain"),
     Add("data", Datum("conservative_transport", "vector_function",
                       "conservative_transport", "")),
     Add("residual_terms", StateTerm("conservative_transport",
                                     "conservative_transport", "")),
     Set("equations", "state_equation", "terms",
         <<"diffusion_reaction", "conservative_transport", "volume_source",
           "neumann_control">>),
     Add("requirement_policies",
         Assumed("convection_coercivity_assumption", "state_equation",
                 "coercivity", "domain")),
     Add("requirement_policies",
         Assumed("convection_regularity_assumption",
                 "conservative_transport", "coefficient_regularity",
                 "domain")),
     Add("requirement_policies",
         Assumed("convection_neumann_sign_assumption",
                 "conservative_transport", "transport_boundary_trace",
                 "control_boundary")),
     Add("requirement_policies",
         Typed(DiscreteAndContinuous("neumann_convection_partition", "state",
                                     "boundary_partition", ""),
               "boundary",
               BoundarySelection("neumann_convection_partition",
                                 "dirichlet_boundary", "",
                                 <<"control_boundary">>, "",
                                 "total_conormal")))>>)
   EXCEPT !.id = "scalar_convection_neumann_subdomain_control"]

WeightedTrace(boxed) ==
  [Delta(NeumannControl(boxed, "facewise_constant"),
   <<Put("observations", "state_boundary_trace",
         Observation("weighted_state_boundary_trace",
                     "weighted_boundary_trace", "state",
                     "observation_boundary", "state_observation_space",
                     "state_observation_pairing", <<"boundary_weight">>)),
     Set("losses", "state_tracking", "observation",
         "weighted_state_boundary_trace"),
     Add("data", Datum("boundary_weight", "function", "observation_weight",
                       "state_observation_space")),
     Add("requirement_policies",
         Discrete("boundary_weight_quadrature_policy", "boundary_weight",
                  "analytic_quadrature_evaluation",
                  "observation_boundary")),
     Add("requirement_policies",
         Assumed("boundary_weight_boundedness", "boundary_weight",
                 "coefficient_regularity", "observation_boundary")),
     Put("requirement_policies", "state_boundary_trace_policy",
         Typed(Discrete("state_boundary_trace_policy",
                        "weighted_state_boundary_trace", "boundary_trace",
                        "observation_boundary"),
               "trace",
               [id |-> "weighted_state_boundary_trace_fe_qgauss",
                source |-> "state_space",
                output |-> "state_observation_space",
                region |-> "observation_boundary",
                weight |-> "boundary_weight",
                pairing |-> "state_observation_pairing",
                chosen |-> {"trace", "quadrature", "weight", "pairing",
                            "transpose"}]))>>)
   EXCEPT !.id = "scalar_diffusion_reaction_weighted_boundary_trace_control"]

PureNeumann ==
  [Delta(NeumannControl(FALSE, "facewise_constant"),
   <<All("regions", <<Volume, Boundary("control_boundary", <<0>>),
                      Boundary("observation_boundary", <<0>>)>>),
     Put("requirement_policies", "state_fixed_dirichlet",
         Discrete("state_mean_zero_gauge", "state", "mean_zero_multiplier",
                  "domain"))>>)
   EXCEPT !.id = "scalar_diffusion_pure_neumann_boundary_control"]

(***************************************************************************)
(* Dirichlet data: fixed, controlled, and both.                            *)
(***************************************************************************)
FixedReconstruction ==
  <<Add("data", Datum("fixed_dirichlet_data", "function",
                      "fixed_dirichlet_lifting", "state_space")),
    All("transformations",
        <<Transformation("fixed_dirichlet_reconstruction",
                         "fixed_dirichlet_reconstruction", "state",
                         "state_space", "fixed_dirichlet_data", "")>>),
    Set("variables", "state", "transform", "fixed_dirichlet_reconstruction")>>

FixedDirichlet(boxed) ==
  [Delta(ScalarDiffusionReaction(boxed), FixedReconstruction)
   EXCEPT !.id = "scalar_diffusion_reaction_fixed_dirichlet"]

LOCAL BoundaryControlSpaces(control, observed) ==
  <<Put("spaces", "control_space",
        Space("control_space", "control_boundary", control, "control")),
    Put("spaces", "control_observation_space",
        Space("control_observation_space", "control_boundary", observed,
              "observation"))>>

LOCAL ControlLoss(kind) ==
  Put("losses", "control_regularisation",
      Loss("control_regularisation", kind, "control_boundary_restriction",
           "regularisation_weight", "control_observation_pairing"))

DirichletControl ==
  [Delta(ScalarDiffusionReaction(FALSE),
   <<Put("regions", "dirichlet_boundary",
         Boundary("control_boundary", <<0>>))>>
   \o BoundaryControlSpaces("h1", "h1") \o
   <<Set("variables", "state", "transform", "dirichlet_control_lifting"),
     Drop("residual_terms", "volume_control"),
     Set("equations", "state_equation", "terms",
         <<"diffusion_reaction", "volume_source">>),
     Put("observations", "control_observation",
         Observation("control_boundary_restriction", "boundary_restriction",
                     "control", "control_boundary",
                     "control_observation_space",
                     "control_observation_pairing", <<>>)),
     ControlLoss("quadratic_control_regularisation"),
     All("transformations",
         <<Transformation("dirichlet_control_lifting",
                          "dirichlet_control_lifting", "state",
                          "state_space", "", "control")>>),
     Put("requirement_policies", "state_fixed_dirichlet",
         Discrete("state_controlled_dirichlet", "state",
                  "controlled_dirichlet", "control_boundary"))>>)
   EXCEPT !.id = "scalar_diffusion_reaction_dirichlet_control"]

LOCAL NormalizedLaplace ==
  <<Drop("data", "diffusion"), Drop("data", "reaction"),
    Add("spaces", Space("forcing_space", "domain", "l2", "data")),
    Set("data", "forcing", "space", "forcing_space"),
    Put("residual_terms", "diffusion_reaction",
        Term("laplacian", "laplacian", "state_equation", <<"state">>, <<>>,
             "")),
    Set("equations", "state_equation", "terms",
        <<"laplacian", "volume_source">>),
    Set("requirement_policies", "state_controlled_dirichlet", "scope",
        "both")>>

LOCAL BoundaryMetric(old, id, kind, policy) ==
  <<Put("metrics", old, Metric(id, kind, "control", "control_pairing")),
    Add("requirement_policies", policy)>>

LOCAL DiscreteConormal ==
  Discrete("discrete_conormal_policy", "state_equation", "conormal_flux",
           "control_boundary")

FractionalTrace(metric, region) ==
  Typed(Discrete("control_hhalf_metric_realisation", metric,
                 "fractional_trace_realisation", region),
        "fractional_metric",
        [id |-> "control_hhalf_metric_realisation", metric |-> metric,
         space |-> "control_space", volume |-> "state_space",
         trace_inclusion |-> "control_trace_inclusion",
         volume_operator |-> "volume_mass_plus_stiffness",
         apply |-> "minimum_h1_extension",
         inverse |-> "full_volume_operator_inverse",
         solve |-> "control_metric_solve",
         chosen |-> {"operator", "apply", "inverse"}])

HhalfDirichlet ==
  [Delta(DirichletControl,
   NormalizedLaplace
   \o BoundaryControlSpaces("hhalf", "hhalf")
   \o <<ControlLoss("quadratic_hhalf_control_regularisation")>>
   \o BoundaryMetric("control_l2_metric", "control_hhalf_metric", "hhalf",
                     FractionalTrace("control_hhalf_metric",
                                     "control_boundary"))
   \o <<Add("requirement_policies", DiscreteConormal)>>)
   EXCEPT !.formulation.metric = "control_hhalf_metric",
          !.id = "hhalf_dirichlet_laplace_control"]

H1TrackingHhalfDirichlet ==
  [Delta(HhalfDirichlet,
   H1Tracking("control_boundary")
   \o <<Set("spaces", "control_observation_space", "topology", "l2"),
        ControlLoss("quadratic_control_regularisation")>>)
   EXCEPT !.id = "h1_tracking_hhalf_dirichlet_laplace_control"]

H1Dirichlet ==
  [Delta(HhalfDirichlet,
   BoundaryControlSpaces("h1", "h1")
   \o <<ControlLoss("quadratic_h1_control_regularisation"),
        Drop("requirement_policies", "control_hhalf_metric_realisation")>>
   \o BoundaryMetric("control_hhalf_metric", "control_h1_metric", "h1",
        Typed(Discrete("control_h1_metric_realisation", "control_h1_metric",
                       "tangential_gradient_realisation",
                       "control_boundary"),
              "boundary_h1_metric",
              [id |-> "control_h1_metric_realisation",
               metric |-> "control_h1_metric", space |-> "control_space",
               region |-> "control_boundary",
               chosen |-> {"operator", "tangential_gradient",
                           "nullspace"}])))
   EXCEPT !.formulation.metric = "control_h1_metric",
          !.id = "h1_dirichlet_laplace_control"]

L2Dirichlet ==
  [Delta(DirichletControl,
   <<Set("spaces", "state_space", "topology", "l2"),
     Set("spaces", "state_test_space", "topology", "h2")>>
   \o BoundaryControlSpaces("l2", "l2")
   \o <<Add("spaces", Space("forcing_space", "domain", "l2", "data"))>>
   \o TranspositionSpaces
   \o <<Add("spaces", Space("transposition_trace_space", "control_boundary",
                            "hhalf", "auxiliary")),
        Set("data", "forcing", "space", "forcing_space"),
        Drop("data", "diffusion"), Drop("data", "reaction"),
        Set("variables", "state", "transform", ""),
        All("transformations", <<>>),
        All("residual_terms",
            <<Term("transposition_state_action", "transposition_laplacian",
                   "state_equation", <<"state">>, <<>>, ""),
              Term("volume_source", "volume_source", "state_equation", <<>>,
                   <<"forcing">>, ""),
              Term("dirichlet_transposition_control",
                   "dirichlet_transposition_control", "state_equation",
                   <<"control">>, <<>>, "control_boundary")>>),
        Set("equations", "state_equation", "terms",
            <<"transposition_state_action", "volume_source",
              "dirichlet_transposition_control">>),
        All("requirement_policies",
            <<DiscreteAndContinuous("state_controlled_dirichlet", "state",
                                    "controlled_dirichlet",
                                    "control_boundary"),
              Typed(Policy("transposition_formulation", "state_equation",
                           "transposition_formulation", "provided",
                           "continuous_semantics", "domain"),
                    "transposition",
                    [StrongTransposition("transposition_formulation",
                       "transposition_domain_regularity",
                       "conforming_nodal_lifting_equivalence")
                     EXCEPT !.strong = "state_test_space",
                            !.diffusion = "", !.reaction = "",
                            !.observation = "control_boundary_restriction",
                            !.source = "control_observation_space",
                            !.parent = "control_space",
                            !.trace = "transposition_trace_space",
                            !.equivalence = "conforming_trace_subspace",
                            !.conormal = "discrete_conormal_policy",
                            !.equivalent =
                              "conforming_lifting_variational_equivalence"]),
              Assumed("transposition_domain_regularity", "state_equation",
                      "domain_regularity", "domain"),
              Discrete("conforming_trace_subspace", "control",
                       "conforming_trace_subspace", "control_boundary"),
              DiscreteConormal,
              Discrete("desired_state_quadrature_policy", "desired_state",
                       "analytic_quadrature_evaluation", "domain")>>)>>)
   EXCEPT !.id = "l2_dirichlet_laplace_control"]

PartialDirichlet ==
  [Delta(DirichletControl,
   <<Set("regions", "control_boundary", "boundary_ids", <<1>>),
     Add("regions", Boundary("fixed_dirichlet_boundary", <<0>>)),
     Add("data", Datum("fixed_dirichlet_data", "function",
                       "fixed_dirichlet_lifting", "state_space")),
     Set("transformations", "dirichlet_control_lifting", "fixed_data",
         "fixed_dirichlet_data"),
     Add("requirement_policies",
         Discrete("state_fixed_dirichlet", "dirichlet_control_lifting",
                  "fixed_dirichlet", "fixed_dirichlet_boundary")),
     Add("requirement_policies",
         Typed(DiscreteAndContinuous("partial_dirichlet_boundary_partition",
                                     "state", "boundary_partition", ""),
               "partial_boundary",
               [id |-> "partial_dirichlet_boundary_partition",
                subject |-> "state",
                transformation |-> "dirichlet_control_lifting",
                fixed |-> "fixed_dirichlet_boundary",
                controlled |-> "control_boundary",
                intends |-> {"complete_exterior", "disjoint_regions"},
                chosen |-> {"interface", "trace", "hanging"}])),
     Add("requirement_policies",
         Discrete("partial_dirichlet_interface_policy",
                  "dirichlet_control_lifting", "controlled_dirichlet",
                  "control_boundary"))>>)
   EXCEPT !.id = "scalar_diffusion_reaction_partial_dirichlet_control"]
=============================================================================
