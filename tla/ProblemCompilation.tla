------------------------- MODULE ProblemCompilation -------------------------
(***************************************************************************)
(* An author composes a semantic problem from the library's graphs and     *)
(* hands it, with its data, a mesh and the product it wants, to            *)
(* DealiiCompiler::compile                                                 *)
(* (include/nmopt/compiler/v1/dealii_compiler.hpp).                        *)
(*                                                                         *)
(* Library is the set of inputs an author starts from, Changes(input) what *)
(* one composition, rebinding or remeshing can make of an input, and       *)
(* Slips(input) what one mistake can: all three belong to the caller.      *)
(* MaxChanges bounds the changes; a slip is made on a library input.       *)
(***************************************************************************)
EXTENDS TargetRealisation

CONSTANTS Library, Changes(_), Slips(_), MaxChanges

VARIABLES
  input,    \* [problem, given, mesh, product]: the arguments of compile
  changes,  \* how many edits the author made
  result    \* what compile returned

vars == <<input, changes, result>>

(***************************************************************************)
(* The result of a compilation: how it ended, the request it closed and    *)
(* the model it built.  A refusal carries its diagnostics.                 *)
(***************************************************************************)
Result(outcome, diagnostics, request, realised) ==
  [outcome |-> outcome, diagnostics |-> diagnostics, request |-> request,
   realised |-> realised]

NotCompiled == Result("none", {}, <<>>, <<>>)
Refused(outcome, diagnostics, request) ==
  Result(outcome, diagnostics, request, <<>>)

\* A stage of the compilation stops it on its first diagnostics.
Stage(needs, outcome, r, next) ==
  IF needs # {} THEN Refused(outcome, needs, r) ELSE next

\* compile_impl: one early return per stage, in the source's order; "r" is the
\* request of p.  A model or a plan that throws leaves no result at all.
CompileImpl(p, r, given, mesh, product, report) ==
  Stage(report, "invalid", <<>>,
  Stage(LoweringNeeds(p, r, product), "unlowerable", r,
  IF ScalarTarget(r) /\ PlanThrows(p, r) THEN Refused("throws", {}, r) ELSE
  Stage(BindingNeeds(p, r, given, mesh), "unbound", r,
  Stage(MeshNeeds(p, r, mesh), "unrealisable", r,
  IF ModelThrows(p, r, given) THEN Refused("throws", {}, r) ELSE
  Result("compiled", {}, r, Realisation(p, r))))))

(***************************************************************************)
(* The steps.                                                              *)
(***************************************************************************)
Init ==
  /\ input \in Library
  /\ changes = 0
  /\ result = NotCompiled

Author ==
  /\ result = NotCompiled
  /\ changes < MaxChanges
  /\ input' \in Changes(input)
  /\ changes' = changes + 1
  /\ UNCHANGED result

Slip ==
  /\ result = NotCompiled
  /\ changes = 0
  /\ input' \in Slips(input)
  /\ changes' = MaxChanges
  /\ UNCHANGED result

Compile ==
  /\ result = NotCompiled
  /\ \E report \in Reports(input.problem) :
       result' = CompileImpl(input.problem, Request(input.problem), input.given,
                             input.mesh, input.product, report)
  /\ UNCHANGED <<input, changes>>

Next == Author \/ Slip \/ Compile

Spec == Init /\ [][Next]_vars

Compiled == result.outcome = "compiled"

(***************************************************************************)
(* The ports of a graph: member of a component, and where it points.       *)
(***************************************************************************)
Port(kind, member, target, optional) ==
  [kind |-> kind, member |-> member, target |-> target, optional |-> optional]

Ports ==
  {Port("spaces", "region", "regions", FALSE),
   Port("pairings", "primal", "spaces", FALSE),
   Port("pairings", "covector", "spaces", FALSE),
   Port("variables", "space", "spaces", FALSE),
   Port("variables", "transform", "transformations", TRUE),
   Port("data", "space", "spaces", TRUE),
   Port("transformations", "input", "variables", FALSE),
   Port("transformations", "output", "spaces", FALSE),
   Port("transformations", "fixed_data", "data", TRUE),
   Port("transformations", "control", "variables", TRUE),
   Port("residual_terms", "equation", "equations", FALSE),
   Port("residual_terms", "region", "regions", TRUE),
   Port("equations", "test_space", "spaces", FALSE),
   Port("equations", "test_pairing", "pairings", FALSE),
   Port("observations", "input", "variables", FALSE),
   Port("observations", "region", "regions", FALSE),
   Port("observations", "output", "spaces", FALSE),
   Port("observations", "pairing", "pairings", FALSE),
   Port("losses", "observation", "observations", FALSE),
   Port("losses", "data", "data", FALSE),
   Port("losses", "pairing", "pairings", FALSE),
   Port("metrics", "variable", "variables", FALSE),
   Port("metrics", "pairing", "pairings", FALSE),
   Port("constraints", "variable", "variables", FALSE),
   Port("constraints", "lower", "data", FALSE),
   Port("constraints", "upper", "data", FALSE),
   Port("requirement_policies", "region", "regions", TRUE)}

PortLists ==
  {Port("residual_terms", "variables", "variables", FALSE),
   Port("residual_terms", "data", "data", FALSE),
   Port("equations", "terms", "residual_terms", FALSE),
   Port("observations", "data", "data", FALSE)}

\* A closed graph has one component per identifier, no port that points nowhere,
\* and no term and equation that disagree about belonging together.
Closed(p) ==
  /\ \A kind \in ComponentKinds :
       IsInjective([i \in DOMAIN p[kind] |-> p[kind][i].id])
  /\ \A port \in Ports : \A i \in DOMAIN p[port.kind] :
       \/ p[port.kind][i][port.member] \in Ids(p[port.target])
       \/ port.optional /\ p[port.kind][i][port.member] = ""
  /\ \A port \in PortLists : \A i \in DOMAIN p[port.kind] :
       Range(p[port.kind][i][port.member]) \subseteq Ids(p[port.target])
  /\ \A i \in DOMAIN p.residual_terms, j \in DOMAIN p.equations :
       p.residual_terms[i].equation = p.equations[j].id
         <=> p.residual_terms[i].id \in Range(p.equations[j].terms)

\* A validated graph is closed: resolved_problem.hpp calls its view "a
\* validated, closed semantic graph with every stable ID resolved once", and
\* the compiler reads it through lookups that throw.
PortsResolve == result.outcome \in {"none", "invalid"} \/ Closed(input.problem)

\* The family that the request records (and the plan reports) comes from one
\* chain of conditions, the model from another in another order.  On every
\* problem that compiles the two chains agree: each family is realised by its
\* own model, with the observation or the metric it is named for.
FamilyModel ==
  [pure_neumann |-> "neumann_boundary",
   weighted_boundary_trace |-> "neumann_boundary",
   neumann_boundary |-> "neumann_boundary",
   dirichlet_control |-> "dirichlet_lifting",
   l2_dirichlet_transposition |-> "dirichlet_lifting",
   hhalf_dirichlet_control |-> "dirichlet_lifting",
   h1_tracking_hhalf_dirichlet_control |-> "dirichlet_lifting",
   h1_dirichlet_control |-> "dirichlet_lifting",
   coefficient_identification |-> "coefficient_identification",
   hminus1_control_metric |-> "continuous_control",
   h1_control_h1_metric |-> "continuous_control",
   h1_control_l2_metric |-> "continuous_control",
   continuous_control_l2_metric |-> "continuous_control",
   point_sensor |-> "scalar_components",
   normal_flux |-> "scalar_components",
   direct_volume |-> "scalar_components",
   general_scalar_robin |-> "scalar_components",
   assembled_volume |-> "scalar_components"]

FamilyNamesModel == Compiled =>
  LET family == result.request.family
      realised == result.realised
  IN  /\ family \in DOMAIN FamilyModel
      /\ realised.model = FamilyModel[family]
      /\ family = "pure_neumann" => realised.fixed = {}
      /\ realised.observation \in {"weighted_boundary_trace", "point_sensor",
                                   "normal_flux"}
           => realised.observation = family
      /\ realised.metric = "hminus1" <=> family = "hminus1_control_metric"
      /\ realised.metric = "hhalf" <=>
           family \in {"hhalf_dirichlet_control",
                       "h1_tracking_hhalf_dirichlet_control"}

\* The targets whose observations are not counted and matched with the losses:
\* each observation is looked at alone, or a pair is looked up by its kinds.
UnmatchedModels == {"neumann_boundary", "continuous_control",
                    "scalar_components"}

\* The tracking loss observes the state, through its only observation.
TracksOneObservation(p, tracking) ==
  \A i \in DOMAIN p.observations :
    p.observations[i].input = p.formulation.state
      <=> p.observations[i].id = tracking.observation

\* A compiled model minimises what the graph declares: the observation and
\* the loss of the decision that it assembles, and the metric it searches in,
\* are those of the graph's own components.  Each model hard-codes its own,
\* so this rests on what three stages together refuse.  Two things no stage
\* refuses, and there the model is that of a nearby problem: an unmatched
\* target may track another observation than the one of the state, and a
\* Neumann or continuous control may ask for an H1/2 loss.
ObjectiveRealised == Compiled =>
  LET p == input.problem
      realised == result.realised
      tracking == First(p.losses, LAMBDA l : l.kind = "quadratic_tracking")
      other == First(p.losses, LAMBDA l : l.kind # "quadratic_tracking")
      tracked == At(p.observations, tracking.observation)
      regularised == At(p.observations, other.observation)
  IN  /\ \/ realised.observation = tracked.kind
         \/ /\ realised.model \in UnmatchedModels
            /\ ~TracksOneObservation(p, tracking)
      /\ realised.model = "dirichlet_lifting"
           => tracked.input = p.formulation.state
      /\ realised.model \in {"dirichlet_lifting", "coefficient_identification"}
           => regularised.input = p.formulation.control
      /\ \/ LossKinds(p) = {"quadratic_tracking", realised.control_loss}
         \/ /\ realised.model \in {"neumann_boundary", "continuous_control"}
            /\ result.request.hhalf_loss
      /\ realised.metric = SelectedMetric(p).kind

\* The regions of the boundary sources that a compiled model assembles.
BoundarySources(p, realised) ==
  {p.residual_terms[i].region :
   i \in {j \in DOMAIN p.residual_terms :
            p.residual_terms[j].kind \in
              {"natural_boundary_source", "robin_source"} \cap realised.terms}}

OffFixed(p, realised) ==
  \A id \in BoundarySources(p, realised) :
    BoundaryIds(At(p.regions, id)) \cap realised.fixed = {}

\* The boundary of a compiled problem: no face is both fixed and controlled;
\* the controlled faces are on the mesh, or the whole exterior is controlled;
\* no boundary source acts where the state is fixed, as long as the validator
\* compared it with the region that the compiler fixes; and the state is
\* pinned, by a fixed face that exists, by a control of the whole exterior or
\* by a gauge.  Regions, policies, the plan and the mesh each know a part.
FacesHaveOneRole == Compiled =>
  LET p == input.problem
      r == result.request
      realised == result.realised
      faces == input.mesh.faces
      everywhere == realised.model = "dirichlet_lifting"
                    /\ faces \subseteq realised.controlled
  IN  /\ realised.fixed \cap realised.controlled = {}
      /\ realised.controlled \subseteq faces \/ everywhere
      /\ \/ r.neumann /\ FixedRegion(p) # r.fixed_region
         \/ OffFixed(p, realised)
      /\ realised.fixed \cap faces = {} => r.mean_zero \/ everywhere

\* dealii_capabilities.hpp promises that the compiler "never falls back to a
\* nearby term": a compiled model assembles every residual term declared.
TermsRealised == Compiled =>
  TermKinds(input.problem) \subseteq result.realised.terms
=============================================================================
