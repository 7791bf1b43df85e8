------------------------ MODULE CompilationRequest ------------------------
(***************************************************************************)
(* The closed request that the deal.II compiler derives from a validated   *)
(* problem before it lowers anything                                       *)
(* (include/nmopt/compiler/v1/dealii_compiler.hpp: resolve_compilation_    *)
(* request, resolve_dirichlet_control_registration and                     *)
(* close_compilation_request).  "r" is that request.                       *)
(***************************************************************************)
EXTENDS SemanticPolicies

TermKinds(p) == {p.residual_terms[i].kind : i \in DOMAIN p.residual_terms}
ObservationKinds(p) == {p.observations[i].kind : i \in DOMAIN p.observations}
LossKinds(p) == {p.losses[i].kind : i \in DOMAIN p.losses}

Control(p) == At(p.variables, p.formulation.control)
State(p)   == At(p.variables, p.formulation.state)
SelectedMetric(p) == At(p.metrics, p.formulation.metric)

\* The transformation that gives the state its physical field.
PhysicalField(p) == At(p.transformations, State(p).transform)

FirstTerm(p, kind) == First(p.residual_terms, LAMBDA t : t.kind = kind)

(***************************************************************************)
(* The typed selections.  Each is taken from the LAST policy that may      *)
(* carry it, whatever that policy's status; most whatever its subject.     *)
(***************************************************************************)
SelectionSource(p) ==
  LET weighted == First(p.observations,
                        LAMBDA o : o.kind = "weighted_boundary_trace")
      From(kind) == [kind |-> kind, subjects |-> {}]
      FromSubject(kind, subject) == [kind |-> kind, subjects |-> {subject}]
  IN  [trace              |-> FromSubject("boundary_trace", weighted.id),
       neumann_control    |-> From("boundary_trace"),
       hminus1_metric     |-> FromSubject("metric_realisation",
                                          p.formulation.metric),
       transposition      |-> From("transposition_formulation"),
       partial_boundary   |-> From("boundary_partition"),
       boundary           |-> FromSubject("boundary_partition",
                                          p.formulation.state),
       fractional_metric  |-> From("fractional_trace_realisation"),
       boundary_h1_metric |-> From("tangential_gradient_realisation"),
       h1_target          |-> FromSubject("target_data_membership",
                                          "desired_state")]

Selections(p) ==
  LET source == SelectionSource(p)
      Supplies(c, k) ==
        /\ Carries(c, k)
        /\ c.kind = source[k].kind
        /\ source[k].subjects \subseteq {c.subject}
        /\ k = "trace" => c.selections["trace"].weight # ""
      Position(k) == SelectLastInSeq(p.requirement_policies,
                                     LAMBDA c : Supplies(c, k))
  IN  [k \in {s \in DOMAIN source : Position(s) # 0} |->
         p.requirement_policies[Position(k)].selections[k]]

Selects(r, kind) == kind \in DOMAIN r.selections

(***************************************************************************)
(* The data the compiler must be given, one binding request per port.      *)
(***************************************************************************)
LOCAL FirstDatum(p, ports, role) ==
  LET i == SelectInSeq(ports, LAMBDA d : At(p.data, d).role = role)
  IN  IF i = 0 THEN {} ELSE {ports[i]}

LOCAL TermPorts(p, kinds) ==
  LET terms == SelectSeq(p.residual_terms, LAMBDA t : t.kind \in kinds)
  IN  FlattenSeq([i \in DOMAIN terms |-> terms[i].data])

GeneralScalarRoles ==
  {"diffusion", "conservative_transport", "advective_transport", "reaction",
   "robin_coefficient", "robin_source"}

DataBindings(p) ==
  LET OfRoles(ports, roles) ==
        {d \in Range(ports) : At(p.data, d).role \in roles}
      weights == OfRoles(FlattenSeq([i \in DOMAIN p.observations |->
                                       p.observations[i].data]),
                         {"observation_weight"})
      fixed == SelectSeq(p.transformations,
                         LAMBDA t : t.fixed_data # "")
      general == "tensor_diffusion" \in TermKinds(p)
      Port(port, data) == {<<port, d>> : d \in data \ {""}}
  IN  Port("forcing",
           FirstDatum(p, TermPorts(p, {"volume_source"}), "forcing"))
      \cup Port("desired_state",
                FirstDatum(p, [i \in DOMAIN p.losses |-> p.losses[i].data],
                           "desired_state"))
      \cup Port("fixed_dirichlet_data",
                IF fixed = <<>> THEN {} ELSE {fixed[1].fixed_data})
      \cup Port("observation_weight", weights)
      \cup Port("general_scalar_data",
                IF general
                THEN OfRoles(TermPorts(p, TermKinds(p)), GeneralScalarRoles)
                ELSE {})
      \cup Port("natural_boundary_source",
                OfRoles(TermPorts(p, {"natural_boundary_source"}),
                        {"natural_boundary_source"}))
      \cup Port("conservative_transport_data",
                FirstDatum(p, TermPorts(p, {"conservative_transport"}),
                           "conservative_transport"))

(***************************************************************************)
(* What a problem uses.                                                    *)
(***************************************************************************)
UsesLifting(p) == PhysicalField(p).kind = "dirichlet_control_lifting"

UsesTransposition(p) ==
  TermKinds(p) \cap {"transposition_laplacian",
                     "dirichlet_transposition_control"} # {}

UsesDirichletControl(p) == UsesLifting(p) \/ UsesTransposition(p)

UsesPartialLifting(p) == UsesLifting(p) /\ PhysicalField(p).fixed_data # ""

UsesContinuousControl(p) ==
  /\ Present(Control(p))
  /\ Topology(p, Control(p).space) = "h1"
  /\ HasPolicy(p, p.formulation.control, "fixed_dirichlet")

TrackingRegion(p) ==
  LET loss == First(p.losses, LAMBDA l : l.kind = "quadratic_tracking")
      observation == IF Present(loss) THEN At(p.observations, loss.observation)
                     ELSE Absent
  IN  At(p.regions, observation.region)

(***************************************************************************)
(* The registered Dirichlet-control compositions.                          *)
(***************************************************************************)
ResidualSignature(p, kinds) ==
  LET equation == At(p.equations, p.formulation.equation)
      terms == [i \in DOMAIN equation.terms |->
                  At(p.residual_terms, equation.terms[i])]
  IN  /\ Len(p.residual_terms) = Cardinality(kinds)
      /\ Len(p.equations) = 1
      /\ Len(equation.terms) = Cardinality(kinds)
      /\ \A i \in DOMAIN terms : /\ terms[i].equation = equation.id
                                 /\ terms[i].kind \in kinds
      /\ TermKinds(p) = kinds

LOCAL FractionalMatches(p, r) ==
  LET s == r.selections["fractional_metric"]
  IN  /\ Selects(r, "fractional_metric")
      /\ s.metric = p.formulation.metric
      /\ s.space = Control(p).space
      /\ s.volume = State(p).space
      /\ "operator" \in s.chosen
      /\ s.apply = "minimum_h1_extension"
      /\ s.inverse = "full_volume_operator_inverse"

LOCAL BoundaryH1Matches(p, r, controlled) ==
  LET s == r.selections["boundary_h1_metric"]
  IN  /\ Selects(r, "boundary_h1_metric")
      /\ s.metric = p.formulation.metric
      /\ s.space = Control(p).space
      /\ s.region = controlled.id
      /\ s.chosen = {"operator", "tangential_gradient", "nullspace"}

LOCAL TranspositionMatches(p, r, equation, observation) ==
  LET s == r.selections["transposition"]
  IN  /\ Selects(r, "transposition")
      /\ s.equation = equation.id
      /\ s.strong = equation.test_space
      /\ s.observation = observation.id
      /\ s.source = observation.output
      /\ s.parent = Control(p).space
      /\ "" \notin {s.trace, s.equivalence, s.conormal}
      /\ "operator" \in s.chosen
      /\ s.discrete = "conforming_nodal_lifting_equivalence"
      /\ s.equivalent = "conforming_lifting_variational_equivalence"
      /\ Topology(p, s.trace) = "hhalf"

LOCAL PartialMatches(p, r, lifting, controlled) ==
  LET s == r.selections["partial_boundary"]
  IN  /\ Selects(r, "partial_boundary")
      /\ s.transformation = lifting.id
      /\ s.controlled = controlled.id
      /\ s.intends = {"complete_exterior", "disjoint_regions"}
      /\ s.chosen = {"interface", "trace", "hanging"}
      /\ At(p.regions, s.fixed).kind = "boundary"

LOCAL TargetMatches(r, tracking, observation, controlled) ==
  LET s == r.selections["h1_target"]
  IN  /\ Selects(r, "h1_target")
      /\ s.data = tracking.data
      /\ s.observation_space = observation.output
      /\ s.fixed = controlled.id
      /\ s.chosen = {"regularity", "trace"}

\* Topologies of the control and of its observation, kind of the state's
\* observation, of the control's loss and of the metric.
LiftingSignature ==
  [nodal_l2 |-> <<"h1", "h1", "volume_restriction",
                  "quadratic_control_regularisation", "l2">>,
   hhalf_control |-> <<"hhalf", "hhalf", "volume_restriction",
                       "quadratic_hhalf_control_regularisation", "hhalf">>,
   h1_tracking_hhalf_control |->
     <<"hhalf", "l2", "h1_state_restriction",
       "quadratic_control_regularisation", "hhalf">>,
   h1_control |-> <<"h1", "h1", "volume_restriction",
                    "quadratic_h1_control_regularisation", "h1">>]

\* The observations and losses that a registered composition is made of.
ObservedState(p) == First(p.observations, LAMBDA o :
  /\ o.input = State(p).id
  /\ o.kind \in {"volume_restriction", "h1_state_restriction"})
RestrictedControl(p) == First(p.observations, LAMBDA o :
  o.input = Control(p).id /\ o.kind = "boundary_restriction")
TrackingLoss(p) == First(p.losses, LAMBDA l :
  l.kind = "quadratic_tracking" /\ l.observation = ObservedState(p).id)
RegularisedControl(p) == First(p.losses, LAMBDA l :
  l.kind # "quadratic_tracking" /\ l.observation = RestrictedControl(p).id)

DirichletRegistration(p, r) ==
  LET f == p.formulation
      state == State(p)
      control == Control(p)
      equation == At(p.equations, f.equation)
      policy == SelectedPolicy(p, f.state, "controlled_dirichlet")
      controlled == At(p.regions, policy.region)
      SpaceRegion(space) == At(p.spaces, space).region
      domain == SpaceRegion(state.space)
      observed == ObservedState(p)
      restricted == RestrictedControl(p)
      tracking == TrackingLoss(p)
      regularised == RegularisedControl(p)
      metric == SelectedMetric(p)
      SelfPaired(pairing, space) == PairingMatches(p, pairing, space)
      closed ==
        /\ state.role = "state" /\ control.role = "control"
        /\ f.constraint = "" /\ p.constraints = <<>>
        /\ Len(p.observations) = 2 /\ Len(p.losses) = 2
        /\ Len(p.metrics) = 1
        /\ Present(policy) /\ IsBoundaryRegion(p, policy.region)
        /\ SpaceRegion(equation.test_space) = domain
        /\ At(p.regions, domain).full
        /\ observed.region = domain
        /\ restricted.region = controlled.id
        /\ SpaceRegion(observed.output) = domain
        /\ SpaceRegion(restricted.output) = controlled.id
        /\ SpaceRegion(control.space) = controlled.id
        /\ Present(tracking) /\ Present(regularised)
        /\ tracking.pairing = observed.pairing
        /\ regularised.pairing = restricted.pairing
        /\ metric.variable = control.id
        /\ SelfPaired(observed.pairing, observed.output)
        /\ SelfPaired(restricted.pairing, restricted.output)
        /\ SelfPaired(metric.pairing, control.space)
      lifting == PhysicalField(p)
      partial == UsesPartialLifting(p)
      lifts ==
        /\ Len(p.transformations) = 1
        /\ lifting.kind = "dirichlet_control_lifting"
        /\ lifting.input = state.id /\ lifting.output = state.space
        /\ lifting.control = control.id
        /\ IF partial THEN PartialMatches(p, r, lifting, controlled)
           ELSE ~Selects(r, "partial_boundary")
        /\ Topology(p, state.space) = "h1"
        /\ Topology(p, equation.test_space) = "h1"
      signature == <<Topology(p, control.space),
                     Topology(p, restricted.output),
                     observed.kind, regularised.kind, metric.kind>>
      Normalized(name) ==
        /\ lifts /\ ~partial
        /\ ResidualSignature(p, {"laplacian", "volume_source"})
        /\ signature = LiftingSignature[name]
      transposed ==
        /\ p.transformations = <<>> /\ state.transform = ""
        /\ <<Topology(p, state.space), Topology(p, equation.test_space),
             Topology(p, control.space), Topology(p, restricted.output),
             Topology(p, observed.output)>> = <<"l2", "h2", "l2", "l2", "l2">>
        /\ metric.kind = "l2"
        /\ regularised.kind = "quadratic_control_regularisation"
        /\ ResidualSignature(p, {"transposition_laplacian", "volume_source",
                                 "dirichlet_transposition_control"})
        /\ TranspositionMatches(p, r, equation, restricted)
  IN  IF ~UsesDirichletControl(p) \/ ~closed THEN "none"
      ELSE IF UsesTransposition(p)
      THEN IF transposed THEN "l2_transposition" ELSE "none"
      ELSE
      CASE /\ lifts
           /\ ResidualSignature(p, {"diffusion_reaction", "volume_source"})
           /\ signature = LiftingSignature.nodal_l2 ->
             IF partial THEN "partial_nodal_l2" ELSE "complete_nodal_l2"
        [] Normalized("hhalf_control") /\ FractionalMatches(p, r) ->
             "hhalf_control"
        [] /\ Normalized("h1_tracking_hhalf_control")
           /\ FractionalMatches(p, r)
           /\ TargetMatches(r, tracking, observed, controlled) ->
             "h1_tracking_hhalf_control"
        [] /\ Normalized("h1_control")
           /\ BoundaryH1Matches(p, r, controlled) -> "h1_control"
        [] OTHER -> "none"

(***************************************************************************)
(* close_compilation_request: the regions the target acts on, and its      *)
(* family.                                                                 *)
(***************************************************************************)
FixedBoundary(p) ==
  First(p.requirement_policies, LAMBDA c :
    /\ c.kind = "fixed_dirichlet"
    /\ c.status = "selected_discrete_realisation"
    /\ \/ c.subject = p.formulation.state
       \/ UsesPartialLifting(p) /\ c.subject = "dirichlet_control_lifting").region

ControlBoundary(p, r) ==
  LET controlled == SelectedPolicy(p, p.formulation.state,
                                   "controlled_dirichlet")
      neumann == FirstTerm(p, "neumann_control")
  IN  IF UsesPartialLifting(p) /\ Selects(r, "partial_boundary")
         /\ r.selections["partial_boundary"].controlled # ""
      THEN r.selections["partial_boundary"].controlled
      ELSE IF UsesDirichletControl(p) /\ Present(controlled)
      THEN controlled.region
      ELSE At(p.regions, neumann.region).id

AssembledV1Target(r) ==
  /\ ~r.neumann /\ ~r.h1_regularisation /\ ~r.continuous_control
  /\ ~r.coefficient_identification /\ ~r.dirichlet_control
  /\ \/ r.fixed_reconstruction \/ r.subdomain_observation \/ r.general_scalar
     \/ r.h1_state_observation \/ r.point_sensor \/ r.normal_flux

DirichletFamily ==
  [none |-> "unresolved",
   complete_nodal_l2 |-> "dirichlet_control",
   partial_nodal_l2 |-> "dirichlet_control",
   l2_transposition |-> "l2_dirichlet_transposition",
   hhalf_control |-> "hhalf_dirichlet_control",
   h1_tracking_hhalf_control |-> "h1_tracking_hhalf_dirichlet_control",
   h1_control |-> "h1_dirichlet_control"]

\* Faulty variant: the control space is looked at before the metric.
VolumeFamilyBySpace(r) ==
  IF r.h1_regularisation
  THEN IF r.metric = "h1" THEN "h1_control_h1_metric"
       ELSE "h1_control_l2_metric"
  ELSE IF r.continuous_control THEN "continuous_control_l2_metric"
  ELSE IF r.metric = "hminus1" THEN "hminus1_control_metric"
  ELSE "assembled_volume"
VolumeFamily(r) ==
  IF r.metric = "hminus1" THEN "hminus1_control_metric"
  ELSE IF r.h1_regularisation
  THEN IF r.metric = "h1" THEN "h1_control_h1_metric"
       ELSE "h1_control_l2_metric"
  ELSE IF r.continuous_control THEN "continuous_control_l2_metric"
  ELSE IF r.point_sensor THEN "point_sensor"
  ELSE IF r.normal_flux THEN "normal_flux"
  ELSE IF ~AssembledV1Target(r) THEN "direct_volume"
  ELSE IF r.general_scalar THEN "general_scalar_robin"
  ELSE "assembled_volume"

TargetFamily(r) ==
  IF r.mean_zero THEN "pure_neumann"
  ELSE IF r.weighted_trace THEN "weighted_boundary_trace"
  ELSE IF r.neumann THEN "neumann_boundary"
  ELSE IF r.dirichlet_control THEN DirichletFamily[r.registration]
  ELSE IF r.coefficient_identification THEN "coefficient_identification"
  ELSE VolumeFamily(r)

LOCAL NaturalSourceData(p) ==
  SelectSeq(TermPorts(p, {"natural_boundary_source"}), LAMBDA d :
    At(p.data, d).role = "natural_boundary_source")

\* The region of the LAST fixed-Dirichlet policy selected for the control.
LOCAL ContinuousControlRegion(p) ==
  LET last == SelectLastInSeq(p.requirement_policies, LAMBDA c :
                /\ c.subject = p.formulation.control
                /\ c.kind = "fixed_dirichlet"
                /\ c.status = "selected_discrete_realisation")
  IN  IF last = 0 THEN "" ELSE p.requirement_policies[last].region

\* The request's own facts about the problem, read under its selections.
RequestFacts(p, selected) ==
  LET terms == TermKinds(p)
      observations == ObservationKinds(p)
      tracking == TrackingRegion(p)
  IN  [selections |-> selected.selections,
       data_bindings |-> DataBindings(p),
       registration |-> DirichletRegistration(p, selected),
       fixed_reconstruction |->
         PhysicalField(p).kind = "fixed_dirichlet_reconstruction",
       dirichlet_control |-> UsesDirichletControl(p),
       l2_dirichlet |-> UsesTransposition(p),
       normalized_dirichlet |-> UsesLifting(p) /\ "laplacian" \in terms,
       partial_dirichlet |-> UsesPartialLifting(p),
       neumann |-> "neumann_control" \in terms,
       neumann_convection |->
         {"neumann_control", "conservative_transport"} \subseteq terms,
       natural_source |-> "natural_boundary_source" \in terms,
       natural_source_data |-> NaturalSourceData(p),
       mean_zero |->
         HasPolicy(p, p.formulation.state, "mean_zero_multiplier"),
       h1_loss |-> "quadratic_h1_control_regularisation" \in LossKinds(p),
       hhalf_loss |->
         "quadratic_hhalf_control_regularisation" \in LossKinds(p),
       metric |-> SelectedMetric(p).kind,
       continuous_control |-> UsesContinuousControl(p),
       coefficient_identification |->
         "parameter_diffusion_reaction" \in terms,
       general_scalar |-> "tensor_diffusion" \in terms,
       h1_state_observation |-> "h1_state_restriction" \in observations,
       weighted_trace |-> "weighted_boundary_trace" \in observations,
       point_sensor |-> "point_sensor" \in observations,
       normal_flux |-> "normal_flux" \in observations,
       subdomain_observation |-> Present(tracking) /\ ~tracking.full,
       tracking_region |-> tracking.id,
       robin_region |->
         At(p.regions, FirstTerm(p, "robin_bilinear").region).id,
       natural_source_region |->
         FirstTerm(p, "natural_boundary_source").region,
       mean_zero_region |->
         SelectedPolicy(p, p.formulation.state,
                        "mean_zero_multiplier").region,
       fixed_region |-> FixedBoundary(p),
       continuous_control_region |-> ContinuousControlRegion(p),
       control_region |-> ControlBoundary(p, selected)]

\* A request with one more member.
With(r, member, value) ==
  [m \in DOMAIN r \cup {member} |-> IF m = member THEN value ELSE r[m]]

WithRegularisation(r) ==
  With(r, "h1_regularisation", r.h1_loss /\ ~r.dirichlet_control)

WithFamily(r) == With(r, "family", TargetFamily(r))

Request(p) ==
  WithFamily(WithRegularisation(
    RequestFacts(p, [selections |-> Selections(p)])))

\* A normalised Laplacian takes no diffusion and no reaction constant.
NormalizedLaplacian(r) == r.l2_dirichlet \/ r.normalized_dirichlet
=============================================================================
