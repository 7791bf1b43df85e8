------------------------- MODULE TargetRealisation -------------------------
(***************************************************************************)
(* What the deal.II compiler does with a problem it can lower: the scalar  *)
(* lowering plan (dealii_scalar_plan.hpp), the checks of the bound data    *)
(* and of the mesh, and the executable model that compile_impl builds      *)
(* (dealii_compiler.hpp; the requirements of the models' constructors are  *)
(* in the dealii_*.hpp files next to it).                                  *)
(*                                                                         *)
(* given is what the application binds: the set of optional data ports,    *)
(* the box (none, cellwise or facewise) and whether the reaction constant  *)
(* is zero.  The bound values themselves are admissible.  mesh keeps of a  *)
(* triangulation what the checks read: the identifiers on its exterior     *)
(* faces, its materials, its cells, the hanging nodes, its dimension and   *)
(* the positions inside it.                                                *)
(***************************************************************************)
EXTENDS Lowerability

Bindings(ports, box, zeroReaction) ==
  [ports |-> ports, box |-> box, zero_reaction |-> zeroReaction]

Mesh(faces, materials, cells, hanging, dimension, inside) ==
  [faces |-> faces, materials |-> materials, cells |-> cells,
   hanging |-> hanging, dimension |-> dimension, inside |-> inside]

BoundaryIds(region) == Range(region.boundary_ids)

Requires(r, port) == \E b \in r.data_bindings : b[1] = port

(***************************************************************************)
(* The scalar lowering plan.                                               *)
(***************************************************************************)
ScalarLowerers ==
  [residual_terms |->
     {"diffusion_reaction", "tensor_diffusion", "conservative_transport",
      "advective_transport", "reaction", "volume_source", "volume_control",
      "robin_bilinear", "robin_source", "natural_boundary_source"},
   observations |-> {"volume_restriction", "h1_state_restriction",
                     "point_sensor", "normal_flux"},
   losses |-> {"quadratic_tracking", "quadratic_control_regularisation"},
   metrics |-> {"l2"},
   constraints |-> {"cellwise_box"},
   transformations |-> {"fixed_dirichlet_reconstruction"}]

EquationTerms(p) ==
  LET equation == At(p.equations, p.formulation.equation)
  IN  [i \in DOMAIN equation.terms |-> At(p.residual_terms,
                                          equation.terms[i])]

\* The FIRST boundary partition of the state, whatever its status.
PlanSelection(p) ==
  LET policy == PolicyOf(p, p.formulation.state, "boundary_partition")
  IN  IF Carries(policy, "boundary") THEN policy.selections["boundary"]
      ELSE [fixed |-> "", robin |-> ""]

StateFixedPolicies(p) ==
  {i \in DOMAIN p.requirement_policies :
     /\ p.requirement_policies[i].subject = p.formulation.state
     /\ p.requirement_policies[i].kind = "fixed_dirichlet"}

\* The plan takes EVERY fixed-Dirichlet policy of the state.
PlanFixedIds(p, r) ==
  IF r.general_scalar THEN BoundaryIds(At(p.regions, PlanSelection(p).fixed))
  ELSE UNION {BoundaryIds(At(p.regions, p.requirement_policies[i].region)) :
              i \in StateFixedPolicies(p)}

PlanRobinIds(p) == BoundaryIds(At(p.regions, PlanSelection(p).robin))

\* The resolved view has no entry for such a region and throws.
PlanThrows(p, r) ==
  \E i \in IF r.general_scalar THEN {} ELSE StateFixedPolicies(p) :
    ~Has(p.regions, p.requirement_policies[i].region)

PlanNeeds(p, r) ==
  LET Lowered(components, kind) ==
        \A i \in DOMAIN components : components[i].kind \in ScalarLowerers[kind]
  IN  Need(Lowered(EquationTerms(p), "residual_terms"),
           "scalar_residual_component_lowerer")
      \cup Need(r.general_scalar => PlanSelection(p).fixed # "",
                "scalar_boundary_selection")
      \cup Need(Lowered(p.observations, "observations"),
                "scalar_observation_component_lowerer")
      \cup Need(Lowered(p.losses, "losses"), "scalar_loss_component_lowerer")
      \cup Need(Lowered(<<SelectedMetric(p)>>, "metrics"),
                "scalar_metric_component_lowerer")
      \cup Need(\/ p.formulation.constraint = ""
                \/ Lowered(<<At(p.constraints, p.formulation.constraint)>>,
                           "constraints"),
                "scalar_constraint_component_lowerer")
      \cup Need(\/ State(p).transform = ""
                \/ Lowered(<<PhysicalField(p)>>, "transformations"),
                "scalar_transformation_component_lowerer")
      \cup Need(PlanFixedIds(p, r) # {}, "scalar_fixed_dirichlet_plan")

ScalarTarget(r) == AssembledV1Target(r) \/ r.family = "direct_volume"

(***************************************************************************)
(* The bound data, checked together with the typed selections, the plan    *)
(* and the shape of the cells.                                             *)
(***************************************************************************)
DataNeeds(p, r, given) ==
  LET Bound(port) == port \in given.ports
      Exactly(port, used, missing, superfluous) ==
        Need(used => Bound(port), missing)
        \cup Need(Bound(port) => used, superfluous)
      fixed == Requires(r, "fixed_dirichlet_data")
  IN  Exactly("weighted_trace", Requires(r, "observation_weight"),
              "weighted_boundary_trace_data_binding",
              "selected_weighted_boundary_trace")
      \cup Need(r.weighted_trace => Selects(r, "trace"),
                "weighted_trace_realisation_request")
      \cup Need(r.metric = "hminus1" => Selects(r, "hminus1_metric"),
                "hminus1_metric_realisation_request")
      \cup Need(\/ NormalizedLaplacian(r) \/ r.coefficient_identification
                \/ r.general_scalar \/ Bound("diffusion"),
                "diffusion_data_binding")
      \cup Exactly("general_scalar", r.general_scalar,
                   "general_scalar_coefficient_bindings",
                   "selected_general_scalar_target")
      \cup Exactly("natural_boundary_source", r.natural_source,
                   "natural_boundary_source_data_binding",
                   "selected_natural_boundary_source")
      \cup Exactly("conservative_transport",
                   /\ "conservative_transport" \in TermKinds(p)
                   /\ ~r.general_scalar,
                   "conservative_transport_data_binding",
                   "selected_neumann_convection_target")
      \cup Need(fixed => Bound("fixed_dirichlet_data"),
                "fixed_dirichlet_data_binding")
      \cup Need(Bound("fixed_dirichlet_data") =>
                  \/ fixed \/ r.fixed_reconstruction \/ r.partial_dirichlet,
                "selected_fixed_dirichlet_reconstruction")
      \cup Need(r.mean_zero => given.zero_reaction,
                "pure_neumann_zero_reaction")
      \cup Need(~(r.mean_zero /\ r.fixed_reconstruction),
                "pure_neumann_without_fixed_reconstruction")

BoundNeeds(p, r, given) ==
  LET constrained == p.formulation.constraint # ""
  IN  Need(constrained =>
             given.box = (IF r.neumann THEN "facewise" ELSE "cellwise"),
           "bound_data_binding")
      \cup Need(~(r.neumann /\ given.box = "cellwise"),
                "cellwise_bounds_for_boundary_control")
      \cup Need(~(~r.neumann /\ given.box = "facewise"),
                "facewise_bounds_for_volume_control")
      \cup Need(given.box # "none" => constrained, "unselected_bound_data")

CellNeeds(r, mesh) ==
  Need(mesh.cells # "none", "nonempty_triangulation")
  \cup Need(mesh.cells # "mixed", "uniform_reference_cell_family")
  \cup Need(mesh.cells = "simplex" =>
              r.h1_regularisation \/ r.continuous_control \/ r.neumann,
            "simplex_registered_target")

SensorNeeds(p, r, mesh) ==
  LET points == IF r.point_sensor THEN Range(TrackingRegionOf(p, r).points)
                ELSE {}
      Fits(point) == point.dimension = mesh.dimension
  IN  Need(\A point \in points : Fits(point),
           "point_sensor_coordinate_dimension")
      \cup Need(\A point \in points : Fits(point) => point.at \in mesh.inside,
                "point_sensor_inside_mesh")

BindingNeeds(p, r, given, mesh) ==
  SelectionNeeds(p, r)
  \cup (IF ScalarTarget(r) THEN PlanNeeds(p, r) ELSE {})
  \cup CellNeeds(r, mesh) \cup SensorNeeds(p, r, mesh)
  \cup DataNeeds(p, r, given) \cup BoundNeeds(p, r, given)

(***************************************************************************)
(* The mesh.                                                               *)
(***************************************************************************)
OnMesh(mesh, ids) == ids \subseteq mesh.faces

CompleteExterior(mesh, ids) == mesh.faces # {} /\ mesh.faces \subseteq ids

CompletePartition(mesh, parts) ==
  /\ CompleteExterior(mesh, UNION {parts[i] : i \in DOMAIN parts})
  /\ \A i, j \in DOMAIN parts : i # j => parts[i] \cap parts[j] = {}

\* The ids handed to the checks and to every model but the scalar ones.
FixedIds(p, r) ==
  IF r.general_scalar THEN PlanFixedIds(p, r)
  ELSE IF r.partial_dirichlet
  THEN BoundaryIds(At(p.regions, r.selections["partial_boundary"].fixed))
  ELSE IF r.mean_zero \/ r.dirichlet_control THEN {}
  ELSE BoundaryIds(FixedRegionOf(p, r))

DirichletIds(p, r) ==
  IF r.mean_zero THEN {}
  ELSE IF r.dirichlet_control THEN BoundaryIds(ControlledRegionOf(p, r))
  ELSE FixedIds(p, r)

OutflowRegion(p, r) ==
  IF Selects(r, "boundary") THEN r.selections["boundary"].outflow ELSE ""

ConvectionNeeds(p, r, mesh) ==
  LET outflow == At(p.regions, OutflowRegion(p, r))
      controlled == BoundaryIds(ControlledRegionOf(p, r))
  IN  Need(\/ OutflowRegion(p, r) = ""
           \/ IsBoundary(outflow) /\ OnMesh(mesh, BoundaryIds(outflow)),
           "neumann_convection_outflow_boundary_presence")
      \cup Need(CompletePartition(mesh, <<DirichletIds(p, r), controlled,
                                          BoundaryIds(outflow)>>),
                "complete_neumann_convection_boundary_partition")
      \cup Need(Range(TrackingRegionOf(p, r).material_ids)
                  \subseteq mesh.materials,
                "subdomain_observation_material_presence")

NeumannMeshNeeds(p, r, mesh) ==
  LET Present1(region) == OnMesh(mesh, BoundaryIds(region))
  IN  Need(Present1(ControlledRegionOf(p, r)),
           "neumann_control_boundary_presence")
      \cup Need(r.natural_source =>
                  Present1(At(p.regions, r.natural_source_region)),
                "natural_boundary_source_boundary_presence")
      \cup (IF r.neumann_convection THEN ConvectionNeeds(p, r, mesh)
            ELSE Need(Present1(TrackingRegionOf(p, r)),
                      "boundary_observation_presence"))

ContinuousMeshNeeds(p, r, mesh) ==
  LET control == BoundaryIds(At(p.regions, r.continuous_control_region))
  IN  Need(CompleteExterior(mesh, control),
           "continuous_control_complete_boundary")
      \cup Need(CompleteExterior(mesh, DirichletIds(p, r)),
                "continuous_state_complete_boundary")
      \cup Need(control = DirichletIds(p, r),
                "continuous_control_boundary_match")

DirichletMeshNeeds(p, r, mesh) ==
  IF r.partial_dirichlet
  THEN Need(/\ OnMesh(mesh, FixedIds(p, r))
            /\ OnMesh(mesh, DirichletIds(p, r))
            /\ CompletePartition(mesh, <<FixedIds(p, r), DirichletIds(p, r)>>),
            "complete_partial_dirichlet_boundary_partition")
  ELSE Need(CompleteExterior(mesh, DirichletIds(p, r)),
            "complete_dirichlet_control_boundary")

\* The Dirichlet targets are checked only on a mesh that passes the others.
MeshNeeds(p, r, mesh) ==
  LET When(used, needs) == IF used THEN needs ELSE {}
      needs ==
        Need(r.point_sensor \/ r.normal_flux =>
               CompleteExterior(mesh, FixedIds(p, r)),
             "p53_complete_fixed_dirichlet_boundary")
        \cup Need(~mesh.hanging, "conforming_mesh_without_hanging_nodes")
        \cup Need(\/ r.mean_zero \/ r.dirichlet_control
                  \/ OnMesh(mesh, DirichletIds(p, r)),
                  "fixed_dirichlet_boundary_presence")
        \cup When(r.general_scalar,
                  Need(OnMesh(mesh, PlanRobinIds(p)),
                       "robin_boundary_presence")
                  \cup Need(CompletePartition(mesh, <<DirichletIds(p, r),
                                                      PlanRobinIds(p)>>),
                            "complete_scalar_boundary_partition"))
        \cup When(r.normal_flux,
                  Need(OnMesh(mesh, BoundaryIds(TrackingRegionOf(p, r))),
                       "normal_flux_boundary_presence"))
        \cup When(r.neumann, NeumannMeshNeeds(p, r, mesh))
        \cup When(r.continuous_control, ContinuousMeshNeeds(p, r, mesh))
  IN  IF needs # {} THEN needs
      ELSE When(r.dirichlet_control, DirichletMeshNeeds(p, r, mesh))

(***************************************************************************)
(* The executable model, chosen by a chain of its own.                     *)
(***************************************************************************)
Model(r) ==
  IF r.neumann THEN "neumann_boundary"
  ELSE IF r.dirichlet_control THEN "dirichlet_lifting"
  ELSE IF r.h1_regularisation \/ r.continuous_control
  THEN "continuous_control"
  ELSE IF r.coefficient_identification THEN "coefficient_identification"
  ELSE IF ScalarTarget(r) THEN "scalar_components"
  ELSE "none"

\* What the chosen model assembles: residual terms, the observation of the
\* state, the loss of the control, the search metric and the regions' ids.
Realisation(p, r) ==
  LET model == Model(r)
      h1h == r.registration = "h1_tracking_hhalf_control"
      realised(terms, observation, loss, metric, fixed, controlled) ==
        [model |-> model, terms |-> terms, observation |-> observation,
         control_loss |-> loss, metric |-> metric, fixed |-> fixed,
         controlled |-> controlled]
      Optional(used, term) == IF used THEN {term} ELSE {}
  IN  CASE model = "neumann_boundary" ->
             realised({"diffusion_reaction", "volume_source",
                       "neumann_control"}
                      \cup Optional(r.neumann_convection,
                                    "conservative_transport")
                      \cup Optional(r.natural_source,
                                    "natural_boundary_source"),
                      IF r.neumann_convection THEN "volume_restriction"
                      ELSE IF r.weighted_trace THEN "weighted_boundary_trace"
                      ELSE "boundary_trace",
                      "quadratic_control_regularisation", "l2",
                      DirichletIds(p, r),
                      BoundaryIds(ControlledRegionOf(p, r)))
        [] model = "dirichlet_lifting" ->
             realised(IF r.l2_dirichlet
                      THEN {"transposition_laplacian", "volume_source",
                            "dirichlet_transposition_control"}
                      ELSE IF r.normalized_dirichlet
                      THEN {"laplacian", "volume_source"}
                      ELSE {"diffusion_reaction", "volume_source"},
                      IF h1h THEN "h1_state_restriction"
                      ELSE "volume_restriction",
                      CASE r.registration = "hhalf_control" ->
                             "quadratic_hhalf_control_regularisation"
                        [] r.registration = "h1_control" ->
                             "quadratic_h1_control_regularisation"
                        [] OTHER -> "quadratic_control_regularisation",
                      CASE r.registration = "hhalf_control" \/ h1h -> "hhalf"
                        [] r.registration = "h1_control" -> "h1"
                        [] OTHER -> "l2",
                      FixedIds(p, r), DirichletIds(p, r))
        [] model = "continuous_control" ->
             realised({"diffusion_reaction", "volume_source",
                       "volume_control"},
                      IF r.h1_state_observation THEN "h1_state_restriction"
                      ELSE "volume_restriction",
                      IF r.h1_regularisation
                      THEN "quadratic_h1_control_regularisation"
                      ELSE "quadratic_control_regularisation",
                      IF r.metric \in {"hminus1", "h1"} THEN r.metric
                      ELSE "l2",
                      DirichletIds(p, r), {})
        [] model = "coefficient_identification" ->
             realised({"parameter_diffusion_reaction", "volume_source"},
                      "volume_restriction",
                      "quadratic_parameter_regularisation", "l2",
                      DirichletIds(p, r), {})
        [] OTHER ->
             realised({t.kind : t \in Range(EquationTerms(p))},
                      IF r.point_sensor THEN "point_sensor"
                      ELSE IF r.normal_flux THEN "normal_flux"
                      ELSE IF r.h1_state_observation
                      THEN "h1_state_restriction" ELSE "volume_restriction",
                      "quadratic_control_regularisation", "l2",
                      PlanFixedIds(p, r), {})

(***************************************************************************)
(* Contract errors: what the constructors require and no earlier check     *)
(* established for every problem that comes this far.                      *)
(***************************************************************************)
ScalarThrows(p, r, given) ==
  LET terms == EquationTerms(p)
      kinds == IF r.general_scalar
               THEN {"tensor_diffusion", "conservative_transport",
                     "advective_transport", "reaction", "volume_source",
                     "volume_control", "robin_bilinear", "robin_source"}
               ELSE {"diffusion_reaction", "volume_source", "volume_control"}
      reconstructs == r.fixed_reconstruction
      selection == PlanSelection(p)
  IN  \/ Len(terms) # Cardinality(kinds)
      \/ {t.kind : t \in Range(terms)} # kinds
      \/ IF r.general_scalar
         THEN \/ reconstructs
              \/ selection.outflow # selection.robin
              \/ selection.neumann # <<>> \/ selection.inflow # <<>>
              \/ selection.conormal # "diffusion_minus_transport"
              \/ selection.normal # "outward"
              \/ \E t \in Range(terms) :
                   /\ t.kind \in {"robin_bilinear", "robin_source"}
                   /\ t.region # selection.robin
         ELSE reconstructs # ("fixed_dirichlet_data" \in given.ports)

NeumannThrows(p, r) ==
  \/ ~r.mean_zero /\ DirichletIds(p, r) = {}
  \/ r.weighted_trace /\ r.neumann_convection
  \/ /\ Selects(r, "boundary")
     /\ r.selections["boundary"].transport = "ordinary_normal_minus_transport"
     /\ ~r.neumann_convection
  \/ /\ p.formulation.constraint # ""
     /\ Selects(r, "neumann_control")
     /\ r.selections["neumann_control"].discretisation =
          "continuous_nodal_trace"

ModelThrows(p, r, given) ==
  \/ ~Present(TrackingRegionOf(p, r))
  \/ CASE Model(r) = "scalar_components" -> ScalarThrows(p, r, given)
       [] Model(r) = "neumann_boundary" -> NeumannThrows(p, r)
       [] Model(r) = "dirichlet_lifting" ->
            (FixedIds(p, r) # {}) # ("fixed_dirichlet_data" \in given.ports)
       [] Model(r) = "continuous_control" ->
            \/ DirichletIds(p, r) = {}
            \/ r.metric = "hminus1" /\ ~r.continuous_control
       [] Model(r) = "coefficient_identification" -> DirichletIds(p, r) = {}
       [] OTHER -> TRUE
=============================================================================
