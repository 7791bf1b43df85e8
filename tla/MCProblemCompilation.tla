----------------------- MODULE MCProblemCompilation -----------------------
(***************************************************************************)
(* The inputs of ProblemCompilation: every graph of the problem library    *)
(* with the data and the mesh it asks for, and what an author may make of  *)
(* one.                                                                    *)
(***************************************************************************)
EXTENDS ProblemCompilation, ProblemLibrary

(***************************************************************************)
(* The data and the mesh that fit a problem.                               *)
(***************************************************************************)
DataPorts ==
  [observation_weight |-> "weighted_trace",
   natural_boundary_source |-> "natural_boundary_source",
   conservative_transport |-> "conservative_transport",
   fixed_dirichlet_lifting |-> "fixed_dirichlet_data",
   diffusion |-> "diffusion"]

Fitting(p) ==
  LET roles == {p.data[i].role : i \in DOMAIN p.data} \cap DOMAIN DataPorts
      box == At(p.constraints, p.formulation.constraint).kind
      RegionIds(member) ==
        UNION {Range(p.regions[i][member]) : i \in DOMAIN p.regions}
  IN  [problem |-> p,
       given |-> Bindings(IF UsesTensorDiffusion(p) THEN {"general_scalar"}
                          ELSE {DataPorts[role] : role \in roles},
                          CASE box = "cellwise_box" -> "cellwise"
                            [] box = "facewise_box" -> "facewise"
                            [] OTHER -> "none",
                          HasPolicy(p, p.formulation.state,
                                    "mean_zero_multiplier")),
       mesh |-> Mesh(RegionIds("boundary_ids"), RegionIds("material_ids"),
                     "hypercube", FALSE, 1, 1..2),
       product |-> IF p.otd # <<>> /\ p.formulation.constraint # ""
                   THEN "pdas" ELSE "reduced_dto"]

Points == <<Coordinate(1, 1, TRUE), Coordinate(1, 2, TRUE)>>

Graphs ==
  {ScalarDiffusionReaction(FALSE), ScalarDiffusionReaction(TRUE),
   SuppliedOTD(TRUE), GeneralScalar(<<1>>, <<2, 3>>, FALSE),
   SubdomainTracking(1, FALSE), PointSensor(Points, <<1>>),
   NormalFlux(<<1>>, <<1, 2>>), H1StateTracking, ContinuousControl,
   L2MetricH1Tracking, Hminus1Metric, H1Regularised, H1Metric,
   CoefficientIdentification, NeumannControl(TRUE, "facewise_constant"),
   NeumannControl(FALSE, "continuous_nodal_trace"),
   NeumannConvection(1, FALSE, "facewise_constant"), WeightedTrace(FALSE),
   PureNeumann, FixedDirichlet(FALSE), DirichletControl, HhalfDirichlet,
   H1TrackingHhalfDirichlet, H1Dirichlet, L2Dirichlet, PartialDirichlet}

LibraryInputs == {Fitting(p) : p \in Graphs}

(***************************************************************************)
(* Compositions: a feature of one graph put onto another.                  *)
(***************************************************************************)
WithTerm(p, term, edits) ==
  Delta(p, edits \o
    <<Add("residual_terms", term),
      Set("equations", "state_equation", "terms",
          Append(At(p.equations, "state_equation").terms, term.id))>>)

\* A term of the state that takes one datum, declared with it.
StateTermWith(p, kind, datum, region) ==
  WithTerm(p, Term("extra_" \o kind, kind, "state_equation",
                   IF kind = "natural_boundary_source" THEN <<>>
                   ELSE <<"state">>, <<datum.id>>, region),
           <<Add("data", datum)>>)

BoundarySource(p, region) ==
  Delta(StateTermWith(p, "natural_boundary_source",
                      Datum("natural_source", "function",
                            "natural_boundary_source", "natural_space"),
                      region),
        <<Add("spaces", Space("natural_space", region, "l2", "data"))>>)

ExtraTerms(p, boundaries) ==
  {WithTerm(p, Term("extra_reaction", "reaction", "state_equation",
                    <<"state">>, <<"reaction">>, ""), <<>>),
   StateTermWith(p, "conservative_transport",
                 Datum("extra_wind", "vector_function",
                       "conservative_transport", ""), "")}
  \cup {BoundarySource(p, b) : b \in boundaries}

ControlLossOf(p) ==
  First(p.losses, LAMBDA l : l.kind # "quadratic_tracking").id

\* Another search space: topologies of the control and of its observation,
\* the kinds of its loss and of the metric, a policy for the metric.
ControlIn(p, topology, loss, metric, policies) ==
  Delta(p, <<Set("spaces", "control_space", "topology", topology),
             Set("spaces", "control_observation_space", "topology",
                 topology),
             Set("losses", ControlLossOf(p), "kind", loss),
             Set("metrics", p.formulation.metric, "kind", metric)>>
           \o policies)

SearchSpaces(p, boundaries) ==
  {ControlIn(p, "h1", "quadratic_h1_control_regularisation", metric, <<>>) :
     metric \in {"l2", "h1"}}
  \cup {ControlIn(p, "hhalf", loss, "hhalf",
                  <<Add("requirement_policies",
                        FractionalTrace(p.formulation.metric, b))>>) :
          b \in boundaries,
          loss \in {"quadratic_hhalf_control_regularisation",
                    "quadratic_control_regularisation"}}

\* Another objective: a second observation, of the state or of the control; a
\* loss of another observation; an H1/2 loss in the space of the control.
Observing(p, variable) ==
  Delta(p, <<Add("spaces", Space("second_space", "domain", "l2",
                                 "observation")),
             Add("pairings", Pairing("second_pairing", "second_space",
                                     "second_space")),
             Add("observations",
                 Observation("second_observation", "volume_restriction",
                             variable, "domain", "second_space",
                             "second_pairing", <<>>))>>)

Repointed(p, loss, observation) ==
  LET observed == At(p.observations, observation)
  IN  Delta(p, <<Set("losses", loss, "observation", observation),
                 Set("losses", loss, "pairing", observed.pairing)>>
               \o IF At(p.losses, loss).kind = "quadratic_tracking"
                  THEN <<Set("data", At(p.losses, loss).data, "space",
                             observed.output),
                         Set("requirement_policies",
                             "desired_state_quadrature_policy", "region",
                             observed.region)>>
                  ELSE <<>>)

Objectives(p) ==
  {Observing(p, variable) :
     variable \in IF Has(p.observations, "second_observation") THEN {}
                  ELSE {p.formulation.state, p.formulation.control}}
  \cup {Repointed(p, loss, observation) :
          loss \in Ids(p.losses), observation \in Ids(p.observations)}
  \cup {Delta(p, <<Set("spaces", "control_observation_space", "topology",
                       "hhalf"),
                   Set("losses", ControlLossOf(p), "kind",
                       "quadratic_hhalf_control_regularisation")>>)}

\* Other conditions on the boundary of the state, stated after its own or
\* before them.
StatePolicies(p, boundaries) ==
  LET Declared(policy) == Delta(p, <<Add("requirement_policies", policy)>>)
      Preceded(policy) == Delta(p, <<All("requirement_policies",
                                         <<policy>> \o p.requirement_policies)>>)
      AssumedOn(b) == Assumed("another_fixed", "state", "fixed_dirichlet", b)
  IN  {Declared(AssumedOn(b)) : b \in boundaries \cup {""}}
      \cup {Preceded(AssumedOn(b)) : b \in boundaries}
      \cup {Declared(Discrete("another_fixed", "state", "fixed_dirichlet",
                              b)) : b \in boundaries}
      \cup {Declared(Discrete("gauge", "state", "mean_zero_multiplier",
                              "domain"))}

Regions(p, boundaries) ==
  {Delta(p, <<Set("regions", b, "boundary_ids", ids)>>) :
     b \in boundaries, ids \in {<<0>>, <<1>>, <<0, 1>>}}
  \cup {Delta(p, <<Add("regions", Region("outer_boundary", "boundary", FALSE,
                                         <<3>>, <<>>, <<>>))>>)}

Compositions(p) ==
  LET boundaries == {r \in Ids(p.regions) :
                       At(p.regions, r).kind = "boundary"}
  IN  ExtraTerms(p, boundaries)
      \cup SearchSpaces(p, boundaries)
      \cup Objectives(p)
      \cup StatePolicies(p, boundaries)
      \cup Regions(p, boundaries)
      \cup {Delta(p, H1Tracking(b)) : b \in boundaries}
      \cup {Delta(p, HomogeneousContinuousControl),
            Delta(p, MaterialSubdomain(1)),
            Delta(p, FixedReconstruction),
            WithBox(p, "cellwise", "domain")}
      \cup {WithBox(p, "facewise", b) : b \in boundaries}

\* A slip: a component left out, a port that names nothing.
Mistakes(p) ==
  {Delta(p, <<Drop(kind, id)>>) :
     <<kind, id>> \in UNION {{kind} \X Ids(p[kind]) : kind \in ComponentKinds}}
  \cup UNION {{Delta(p, <<Set(port.kind, id, port.member, "missing")>>) :
               id \in Ids(p[port.kind])} : port \in Ports}

\* The same problem with other data, or on another mesh.
Rebound(from) ==
  {[from EXCEPT !.given.ports =
      IF port \in @ THEN @ \ {port} ELSE @ \cup {port}] :
     port \in Range(DataPorts)}
  \cup {[from EXCEPT !.given.box = box] :
          box \in {"none", "cellwise", "facewise"}}
  \cup {[from EXCEPT !.mesh.faces = faces] :
          faces \in {from.mesh.faces \cup {4}}
                    \cup {from.mesh.faces \ {f} : f \in from.mesh.faces}}
  \cup {[from EXCEPT !.mesh.materials = {}],
        [from EXCEPT !.mesh.hanging = TRUE],
        [from EXCEPT !.mesh.inside = {1}]}
  \cup {[from EXCEPT !.mesh.cells = cells] :
          cells \in {"none", "simplex", "mixed"}}

Changed(from) ==
  {Fitting(p) : p \in Compositions(from.problem)} \cup Rebound(from)

Mistaken(from) == {Fitting(p) : p \in Mistakes(from.problem)}

\* The library's graphs and what is made of them have the program's types.
ASSUME AuthoringTyped ==
  \A from \in LibraryInputs :
    /\ Graph(from.problem)
    /\ \A to \in Changed(from) \cup Mistaken(from) : Graph(to.problem)
=============================================================================
