---------------------- MODULE ProblemCompilationProofs ----------------------
(***************************************************************************)
(* What the structural half of the validation guarantees of every graph,   *)
(* and with it that the ports of a compiled problem resolve.  The argument *)
(* follows the validator: an index without faults has one component per    *)
(* identifier (Indexing), so that a lookup that finds something found a    *)
(* component of the identifier it was given (Found) and each check that    *)
(* reports nothing establishes the ports it read (the lemmas named         *)
(* ...Ports).  ReportClosed collects them.                                 *)
(*                                                                         *)
(* Then what the stages of the compiler guarantee of a compiled problem:   *)
(* the request is closed over its own facts (RequestCloses), what compiles *)
(* has passed every stage (CompiledPasses), and of the features that one   *)
(* chain of conditions reads for the family and another for the model the  *)
(* combination stage leaves none on which they differ (FamilyIsModel).     *)
(* FacesByModel follows the faces of each model through the regions, the   *)
(* validator, the plan and the mesh.  ObjectiveByModel follows the two     *)
(* losses (TwoLosses) to the observations they name (LossObserves), to     *)
(* what the validator checked of these and to what each model assembles.   *)
(***************************************************************************)
EXTENDS ProblemCompilation, FiniteSetTheorems, TLAPS

\* A vector with one component per identifier, and none without.
Identified(components) ==
  /\ Vector(components)
  /\ \A i \in DOMAIN components : components[i].id # ""
  /\ \A i, j \in DOMAIN components : components[i].id = components[j].id => i = j

\* The lookup by identifier.
LEMMA Lookup ==
  ASSUME NEW components, Identified(components), NEW k \in DOMAIN components
  PROVE  At(components, components[k].id) = components[k]
<1> DEFINE id == components[k].id
           I == {i \in 1 .. Len(components) : components[i].id = id /\ id # ""}
<1> HIDE DEF id, I
<1>0. k \in 1 .. Len(components) /\ Len(components) \in Nat
  BY DEF Identified, Vector
<1>1. I = {k}
  BY <1>0 DEF I, id, Identified, Vector
<1>2. Min({k}) = k
  <2>1. \A x \in {k} : x = k /\ \A y \in {k} : x =< y
    BY <1>0
  <2>2. QED
    BY <2>1 DEF Min
<1>3. SelectInSeq(components, LAMBDA c : c.id = id /\ id # "") = k
  BY <1>1, <1>2 DEF SelectInSeq, I
<1>4. k # 0
  BY <1>0
<1>5. QED
  BY <1>3, <1>4 DEF At, First, id

\* The lookup of an identifier that no component has.
LEMMA LookupFails ==
  ASSUME NEW components, Identified(components), NEW id, id \notin Ids(components)
  PROVE  At(components, id) = Absent
<1> DEFINE I == {i \in 1 .. Len(components) : components[i].id = id /\ id # ""}
<1>1. I = {}
  BY DEF Identified, Vector, Ids
<1>2. SelectInSeq(components, LAMBDA c : c.id = id /\ id # "") = 0
  BY <1>1 DEF SelectInSeq
<1>3. QED
  BY <1>2 DEF At, First

\* What is found has the identifier it was looked up by.
LEMMA Found ==
  ASSUME NEW components, Identified(components), NEW id,
         LET c == At(components, id)
         IN  Present(c) \/ c.role # "?" \/ c.kind # "?"
  PROVE  id \in Ids(components)
<1>1. Absent.id = "?" /\ Absent.role = "?" /\ Absent.kind = "?"
  BY DEF Absent
<1>2. QED
  BY <1>1, LookupFails DEF Present

-----------------------------------------------------------------------------
(* The ports, component by component: each lemma says what a vector whose  *)
(* checks report nothing refers to.                                        *)

Indexes(p) == \A kind \in ComponentKinds : Identified(p[kind])

\* A graph without index faults has one component per identifier.
LEMMA Indexing ==
  ASSUME NEW p, Graph(p), IndexFaults(p) = {}
  PROVE  Indexes(p)
<1>1. SUFFICES ASSUME NEW kind \in ComponentKinds PROVE Identified(p[kind])
  BY DEF Indexes
<1> DEFINE components == p[kind]
<1>2. Indexed(components, kind) = {}
  BY DEF IndexFaults
<1>3. Vector(components)
  BY DEF Graph
<1> HIDE DEF components
<1>4. ASSUME NEW i \in DOMAIN components PROVE components[i].id # ""
  <2>1. SUFFICES ASSUME components[i].id = "" PROVE FALSE
    OBVIOUS
  <2>2. <<"structural", kind, "stable_component_identity">> \in Indexed(components, kind)
    BY <2>1 DEF Indexed, Structural
  <2>3. QED
    BY <1>2, <2>2
<1>5. ASSUME NEW i \in DOMAIN components, NEW j \in DOMAIN components,
             components[i].id = components[j].id, j < i
      PROVE  FALSE
  <2>0. i \in 1 .. Len(components) /\ j \in 1 .. Len(components) /\ Len(components) \in Nat
    BY <1>3 DEF Vector
  <2>1. j \in 1 .. (i - 1)
    BY <1>5, <2>0
  <2>11. components[i].id # ""
    BY <1>4
  <2>2. <<"structural", components[i].id, "unique_component_identity">>
          \in Indexed(components, kind)
    BY <1>5, <2>1, <2>11 DEF Indexed, Structural
  <2>3. QED
    BY <1>2, <2>2
<1>6. ASSUME NEW i \in DOMAIN components, NEW j \in DOMAIN components,
             components[i].id = components[j].id
      PROVE  i = j
  <2>1. i \in Nat /\ j \in Nat
    BY <1>3 DEF Vector
  <2>2. QED
    BY <1>5, <1>6, <2>1
<1>7. Identified(components)
  BY <1>3, <1>4, <1>6 DEF Identified
<1>8. QED
  BY <1>7 DEF components

\* A check that reports nothing found no fault.
LEMMA Quiet ==
  ASSUME NEW fault \in BOOLEAN, NEW id, NEW capability,
         Structural(fault, id, capability) = {}
  PROVE  ~fault
BY DEF Structural

\* A space lives on a region of the graph (validate_spaces).
LEMMA SpacePorts ==
  ASSUME NEW p, SpaceFaults(p) = {}, NEW i \in DOMAIN p.spaces
  PROVE  p.spaces[i].region \in Ids(p.regions)
<1>1. Structural(~Has(p.regions, p.spaces[i].region), p.spaces[i].id, "space_region_port") = {}
  BY DEF SpaceFaults, ForEach
<1>2. QED
  BY <1>1, Quiet DEF Has

\* A pairing joins two spaces of the graph (validate_pairings).
LEMMA PairingPorts ==
  ASSUME NEW p, PairingFaults(p) = {}, NEW i \in DOMAIN p.pairings
  PROVE  {p.pairings[i].primal, p.pairings[i].covector} \subseteq Ids(p.spaces)
<1> DEFINE c == p.pairings[i]
<1>1. Structural(~(Has(p.spaces, c.primal) /\ Has(p.spaces, c.covector)), c.id,
                 "pairing_space_ports") = {}
  BY DEF PairingFaults, ForEach
<1>2. QED
  BY <1>1, Quiet DEF Has

\* A pairing that matches a space is one of the graph's.
LEMMA PairingFound ==
  ASSUME NEW p, Indexes(p), NEW pairing, NEW space, PairingMatches(p, pairing, space)
  PROVE  pairing \in Ids(p.pairings)
<1>1. Identified(p.pairings)
  BY DEF Indexes, ComponentKinds
<1>2. QED
  BY <1>1, Found DEF PairingMatches

\* A variable has a space, and a transformation if it names one
\* (validate_variables).
LEMMA VariablePorts ==
  ASSUME NEW p, Indexes(p), VariableFaults(p) = {}, NEW i \in DOMAIN p.variables
  PROVE  /\ p.variables[i].space \in Ids(p.spaces)
         /\ p.variables[i].transform \in Ids(p.transformations) \cup {""}
<1> DEFINE v == p.variables[i]
<1>00. VariableChecks(p, v) = {}
  BY DEF VariableFaults, ForEach
<1>0. Identified(p.spaces) /\ Identified(p.transformations)
  BY DEF Indexes, ComponentKinds
<1>1. Structural(~Present(At(p.spaces, v.space)), v.id, "variable_space_port") = {}
  BY <1>00 DEF VariableChecks
<1>2. Structural(v.transform # "" /\ ~Present(At(p.transformations, v.transform)), v.id,
                 "physical_field_transformation") = {}
  BY <1>00 DEF VariableChecks
<1>3. /\ Present(At(p.spaces, v.space))
      /\ v.transform # "" => Present(At(p.transformations, v.transform))
  BY <1>1, <1>2, Quiet
<1>4. QED
  BY <1>0, <1>3, Found

\* A datum has a space if it names one (validate_data).
LEMMA DataPorts ==
  ASSUME NEW p, DataFaults(p) = {}, NEW i \in DOMAIN p.data
  PROVE  p.data[i].space \in Ids(p.spaces) \cup {""}
<1> DEFINE d == p.data[i]
<1>00. DataChecks(p, d) = {}
  BY DEF DataFaults, ForEach
<1>1. Structural(d.space # "" /\ ~Has(p.spaces, d.space), d.id, "data_space_port") = {}
  BY <1>00 DEF DataChecks
<1>2. QED
  BY <1>1, Quiet DEF Has

\* A transformation of either kind has its input, its output and the ports its
\* kind asks for (validate_transformations); the default kind is refused before.
LEMMA TransformationPorts ==
  ASSUME NEW p, Indexes(p), TransformationFaults(p) = {}, EnumFaults(p) = {},
         NEW i \in DOMAIN p.transformations,
         p.transformations[i].kind \in TransformationKinds
  PROVE  LET t == p.transformations[i]
         IN  /\ t.input \in Ids(p.variables)
             /\ t.output \in Ids(p.spaces)
             /\ t.fixed_data \in Ids(p.data) \cup {""}
             /\ t.control \in Ids(p.variables) \cup {""}
<1> DEFINE t == p.transformations[i]
           from == At(p.variables, t.input)
           to == At(p.spaces, t.output)
           lifting == At(p.data, t.fixed_data)
           control == At(p.variables, t.control)
           fixes == lifting.kind = "function" /\ lifting.role = "fixed_dirichlet_lifting"
           statePorts == from.role = "state" /\ to.role = "state"
<1>00. TransformationChecks(p, t) = {}
  BY DEF TransformationFaults, ForEach
<1>0. Identified(p.spaces) /\ Identified(p.variables) /\ Identified(p.data)
  BY DEF Indexes, ComponentKinds
<1>1. Structural(/\ t.kind = "fixed_dirichlet_reconstruction"
                 /\ ~(statePorts /\ fixes /\ t.control = ""),
                 t.id, "fixed_dirichlet_reconstruction_ports") = {}
  BY <1>00 DEF TransformationChecks
<1>2. Structural(/\ t.kind = "dirichlet_control_lifting"
                 /\ ~(/\ statePorts
                      /\ control.role = "control"
                      /\ t.fixed_data = "" \/ (fixes /\ lifting.space = t.output)),
                 t.id, "dirichlet_control_lifting_ports") = {}
  BY <1>00 DEF TransformationChecks
<1>3. t.kind # "unspecified"
  <2>1. Structural(t.kind = "unspecified", t.id, "kind") = {}
    <3>1. "transformations" \in ComponentKinds
      BY DEF ComponentKinds
    <3>2. Unspecified(p["transformations"], "transformations") = {}
      BY <3>1 DEF EnumFaults
    <3>3. "kind" \in RequiredMembers("transformations")
      BY DEF RequiredMembers
    <3>4. QED
      BY <3>2, <3>3 DEF Unspecified
  <2>2. QED
    BY <2>1, Quiet
<1>4. \/ statePorts /\ fixes /\ t.control = ""
      \/ statePorts /\ control.role = "control" /\ (t.fixed_data = "" \/ fixes)
  BY <1>1, <1>2, <1>3, Quiet DEF TransformationKinds
<1> HIDE DEF t
<1>5. from.role # "?" /\ to.role # "?"
  BY <1>4
<1>6. t.fixed_data = "" \/ lifting.role # "?"
  BY <1>4
<1>7. t.control = "" \/ control.role # "?"
  BY <1>4
<1>8. t.input \in Ids(p.variables) /\ t.output \in Ids(p.spaces)
  BY <1>0, <1>5, Found
<1>9. t.fixed_data \in Ids(p.data) \cup {""} /\ t.control \in Ids(p.variables) \cup {""}
  BY <1>0, <1>6, <1>7, Found
<1>10. QED
  BY <1>8, <1>9 DEF t

\* An equation has its test space, its pairing and its terms, which name it back
\* (validate_equations).
LEMMA EquationPorts ==
  ASSUME NEW p, Indexes(p), EquationFaults(p) = {}, NEW i \in DOMAIN p.equations
  PROVE  LET e == p.equations[i]
         IN  /\ e.test_space \in Ids(p.spaces)
             /\ e.test_pairing \in Ids(p.pairings)
             /\ \A k \in DOMAIN e.terms :
                  /\ e.terms[k] \in Ids(p.residual_terms)
                  /\ At(p.residual_terms, e.terms[k]).equation = e.id
<1> DEFINE e == p.equations[i]
<1>1. EquationChecks(p, e) = {}
  BY DEF EquationFaults, ForEach
<1>2. Identified(p.spaces) /\ Identified(p.residual_terms)
  BY DEF Indexes, ComponentKinds
<1> HIDE DEF e
<1>3. Structural(~Present(At(p.spaces, e.test_space)), e.id, "equation_test_space") = {}
  BY <1>1 DEF EquationChecks
<1>4. Structural(~PairingMatches(p, e.test_pairing, e.test_space), e.id,
                 "equation_test_pairing") = {}
  BY <1>1 DEF EquationChecks
<1>5. Present(At(p.spaces, e.test_space))
  BY <1>3, Quiet DEF Present
<1>6. PairingMatches(p, e.test_pairing, e.test_space)
  BY <1>4, Quiet DEF PairingMatches
<1>7. ASSUME NEW k \in DOMAIN e.terms
      PROVE  /\ e.terms[k] \in Ids(p.residual_terms)
             /\ At(p.residual_terms, e.terms[k]).equation = e.id
  <2> DEFINE term == At(p.residual_terms, e.terms[k])
  <2>1. EdgeChecks(p, e, e.terms[k]) = {}
    BY <1>1 DEF EquationChecks
  <2>2. /\ Structural(~Present(term), e.id, "equation_residual_term_port") = {}
        /\ Structural(Present(term) /\ term.equation # e.id, e.terms[k],
                      "residual_term_target_equation") = {}
    BY <2>1 DEF EdgeChecks
  <2>3. Present(term)
    BY <2>2, Quiet DEF Present
  <2>4. term.equation = e.id
    BY <2>2, <2>3, Quiet
  <2>5. QED
    BY <1>2, <2>3, <2>4, Found
<1>8. QED
  BY <1>2, <1>5, <1>6, <1>7, Found, PairingFound DEF e

\* A term has an equation which lists it, its variables, its data and its region
\* (validate_terms).
LEMMA ResidualTermPorts ==
  ASSUME NEW p, Indexes(p), TermFaults(p) = {}, NEW i \in DOMAIN p.residual_terms
  PROVE  /\ p.residual_terms[i].equation \in Ids(p.equations)
         /\ p.residual_terms[i].id \in Range(At(p.equations, p.residual_terms[i].equation).terms)
         /\ Range(p.residual_terms[i].variables) \subseteq Ids(p.variables)
         /\ Range(p.residual_terms[i].data) \subseteq Ids(p.data)
         /\ p.residual_terms[i].region \in Ids(p.regions) \cup {""}
<1> DEFINE t == p.residual_terms[i]
           target == At(p.equations, t.equation)
<1>1. TermChecks(p, t) = {}
  BY DEF TermFaults, ForEach
<1>2. Identified(p.equations) /\ Identified(p.regions)
  BY DEF Indexes, ComponentKinds
<1> HIDE DEF t
<1>3. /\ Structural(~Present(target), t.id, "residual_term_target_equation") = {}
      /\ Structural(Present(target) /\ t.id \notin Range(target.terms), t.id,
                    "residual_term_equation_membership") = {}
      /\ Structural(~(Range(t.variables) \subseteq Ids(p.variables)), t.id,
                    "residual_term_variable_port") = {}
      /\ Structural(~(Range(t.data) \subseteq Ids(p.data)), t.id,
                    "residual_term_data_port") = {}
  BY <1>1 DEF TermChecks
<1>4. Present(target)
  BY <1>3, Quiet DEF Present
<1>5. t.id \in Range(target.terms)
  BY <1>3, <1>4, Quiet
<1>6. Range(t.variables) \subseteq Ids(p.variables) /\ Range(t.data) \subseteq Ids(p.data)
  BY <1>3, Quiet
<1>7. t.region \in Ids(p.regions) \cup {""}
  <2>1. CASE t.kind \in BoundaryTerms
    <3>1. BoundaryTermFaults(p, t) = {}
      BY <1>1, <2>1 DEF TermChecks
    <3>2. Structural(At(p.regions, t.region).kind # "boundary", t.id,
                     "boundary_term_region") = {}
      BY <3>1 DEF BoundaryTermFaults
    <3>3. At(p.regions, t.region).kind = "boundary"
      BY <3>2, Quiet
    <3>4. QED
      BY <1>2, <3>3, Found
  <2>2. CASE t.kind \notin BoundaryTerms
    <3>1. Structural(t.region # "", t.id, "volume_term_has_no_boundary_region") = {}
      BY <1>1, <2>2 DEF TermChecks
    <3>2. QED
      BY <3>1, Quiet
  <2>3. QED
    BY <2>1, <2>2
<1>8. t.equation \in Ids(p.equations)
  BY <1>2, <1>4, Found
<1>9. QED
  BY <1>5, <1>6, <1>7, <1>8 DEF t

\* An observation has its input, region, output and pairing, and its weight if it
\* takes one (validate_observations).
LEMMA ObservationPorts ==
  ASSUME NEW p, Indexes(p), ObservationFaults(p) = {}, NEW i \in DOMAIN p.observations,
         Vector(p.observations[i].data)
  PROVE  LET o == p.observations[i]
         IN  /\ o.input \in Ids(p.variables)
             /\ o.region \in Ids(p.regions)
             /\ o.output \in Ids(p.spaces)
             /\ o.pairing \in Ids(p.pairings)
             /\ Range(o.data) \subseteq Ids(p.data)
<1> DEFINE o == p.observations[i]
<1>1. ObservationChecks(p, o) = {}
  BY DEF ObservationFaults, ForEach
<1>2. /\ Identified(p.variables) /\ Identified(p.regions) /\ Identified(p.spaces)
      /\ Identified(p.data)
  BY DEF Indexes, ComponentKinds
<1>3. Vector(o.data)
  OBVIOUS
<1> HIDE DEF o
<1>4. /\ Structural(~Present(At(p.regions, o.region)), o.id, "observation_region_port") = {}
      /\ InputFaults(p, o) = {} /\ OutputFaults(p, o) = {} /\ WeightFaults(p, o) = {}
  BY <1>1 DEF ObservationChecks
<1>5. Structural(~Present(At(p.variables, o.input)), o.id, "observation_input_port") = {}
  BY <1>4 DEF InputFaults
<1>6. /\ Structural(~Present(At(p.spaces, o.output)), o.id, "observation_output_space") = {}
      /\ Structural(~PairingMatches(p, o.pairing, o.output), o.id,
                    "observation_output_pairing") = {}
  BY <1>4 DEF OutputFaults
<1>7. /\ Present(At(p.regions, o.region)) /\ Present(At(p.variables, o.input))
      /\ Present(At(p.spaces, o.output))
  BY <1>4, <1>5, <1>6, Quiet DEF Present
<1>8. PairingMatches(p, o.pairing, o.output)
  BY <1>6, Quiet DEF PairingMatches
<1>9. Range(o.data) \subseteq Ids(p.data)
  <2>1. CASE o.kind # "weighted_boundary_trace"
    <3>1. Structural(o.data # <<>>, o.id, "observation_data_signature") = {}
      BY <1>4, <2>1 DEF WeightFaults
    <3>2. o.data = <<>>
      BY <3>1, Quiet
    <3>3. QED
      BY <3>2 DEF Range
  <2>2. CASE o.kind = "weighted_boundary_trace" /\ Len(o.data) # 1
    <3>1. Structural(TRUE, o.id, "weighted_boundary_trace_data_port") = {}
      BY <1>4, <2>2 DEF WeightFaults
    <3>2. QED
      BY <3>1, Quiet
  <2>3. CASE o.kind = "weighted_boundary_trace" /\ Len(o.data) = 1
    <3>1. Structural(~Present(At(p.data, o.data[1])), o.id, "observation_data_port") = {}
      BY <1>4, <2>3 DEF WeightFaults
    <3>2. Present(At(p.data, o.data[1]))
      BY <3>1, Quiet DEF Present
    <3>3. o.data[1] \in Ids(p.data)
      BY <1>2, <3>2, Found
    <3>4. DOMAIN o.data = {1}
      BY <1>3, <2>3 DEF Vector
    <3>5. QED
      BY <3>3, <3>4 DEF Range
  <2>4. QED
    BY <2>1, <2>2, <2>3
<1>10. QED
  BY <1>2, <1>7, <1>8, <1>9, Found, PairingFound DEF o

\* A loss has its observation, its datum and its pairing (validate_losses).
LEMMA LossPorts ==
  ASSUME NEW p, Indexes(p), LossFaults(p) = {}, NEW i \in DOMAIN p.losses
  PROVE  LET l == p.losses[i]
         IN  /\ l.observation \in Ids(p.observations)
             /\ l.data \in Ids(p.data)
             /\ l.pairing \in Ids(p.pairings)
<1> DEFINE l == p.losses[i]
           observation == At(p.observations, l.observation)
<1>1. LossChecks(p, l) = {}
  BY DEF LossFaults, ForEach
<1>2. Identified(p.observations) /\ Identified(p.data)
  BY DEF Indexes, ComponentKinds
<1> HIDE DEF l
<1>3. /\ Structural(~Present(observation), l.id, "loss_observation_port") = {}
      /\ Structural(~Present(At(p.data, l.data)), l.id, "loss_data_port") = {}
      /\ Structural(\/ ~Present(observation)
                    \/ ~PairingMatches(p, l.pairing, observation.output),
                    l.id, "loss_pairing") = {}
  BY <1>1 DEF LossChecks
<1>4. Present(observation) /\ Present(At(p.data, l.data))
  BY <1>3, Quiet DEF Present
<1>5. PairingMatches(p, l.pairing, observation.output)
  BY <1>3, <1>4, Quiet DEF PairingMatches
<1>6. QED
  BY <1>2, <1>4, <1>5, Found, PairingFound DEF l

\* A metric has its variable and its pairing (validate_metrics).
LEMMA MetricPorts ==
  ASSUME NEW p, Indexes(p), MetricFaults(p) = {}, NEW i \in DOMAIN p.metrics
  PROVE  /\ p.metrics[i].variable \in Ids(p.variables)
         /\ p.metrics[i].pairing \in Ids(p.pairings)
<1> DEFINE m == p.metrics[i]
           variable == At(p.variables, m.variable)
           paired == Present(variable) /\ PairingMatches(p, m.pairing, variable.space)
<1>1. MetricChecks(p, m) = {}
  BY DEF MetricFaults, ForEach
<1>2. Identified(p.variables)
  BY DEF Indexes, ComponentKinds
<1> HIDE DEF m
<1>3. Structural(~paired, m.id, "metric_pairing") = {}
  BY <1>1 DEF MetricChecks
<1>4. paired
  BY <1>3, Quiet DEF Present, PairingMatches
<1>5. QED
  BY <1>2, <1>4, Found, PairingFound DEF m

\* A box has its variable and its two bounds (validate_constraints).
LEMMA ConstraintPorts ==
  ASSUME NEW p, Indexes(p), ConstraintFaults(p) = {}, NEW i \in DOMAIN p.constraints
  PROVE  /\ p.constraints[i].variable \in Ids(p.variables)
         /\ {p.constraints[i].lower, p.constraints[i].upper} \subseteq Ids(p.data)
<1> DEFINE c == p.constraints[i]
           declared == Present(At(p.data, c.lower)) /\ Present(At(p.data, c.upper))
<1>1. ConstraintChecks(p, c) = {}
  BY DEF ConstraintFaults, ForEach
<1>2. Identified(p.variables) /\ Identified(p.data)
  BY DEF Indexes, ComponentKinds
<1> HIDE DEF c
<1>3. /\ Structural(~Present(At(p.variables, c.variable)), c.id,
                    "constraint_variable_port") = {}
      /\ Structural(~declared, c.id, "constraint_bound_data_ports") = {}
  BY <1>1 DEF ConstraintChecks
<1>4. Present(At(p.variables, c.variable)) /\ declared
  BY <1>3, Quiet DEF Present
<1>5. QED
  BY <1>2, <1>4, Found DEF c

\* A policy has a region if it names one (validate_policy_regions).
LEMMA PolicyPorts ==
  ASSUME NEW p, PolicyRegionFaults(p) = {}, NEW i \in DOMAIN p.requirement_policies
  PROVE  p.requirement_policies[i].region \in Ids(p.regions) \cup {""}
<1> DEFINE c == p.requirement_policies[i]
<1>1. Structural(c.region # "" /\ ~Has(p.regions, c.region), c.id,
                 "requirement_policy_region") = {}
  BY DEF PolicyRegionFaults, ForEach
<1>2. QED
  BY <1>1, Quiet DEF Has

\* The terms and the equations of a graph say the same of who belongs to whom.
LEMMA Membership ==
  ASSUME NEW p, Indexes(p), EquationFaults(p) = {}, TermFaults(p) = {},
         NEW i \in DOMAIN p.residual_terms, NEW j \in DOMAIN p.equations
  PROVE  p.residual_terms[i].equation = p.equations[j].id
           <=> p.residual_terms[i].id \in Range(p.equations[j].terms)
<1> DEFINE t == p.residual_terms[i]
           e == p.equations[j]
<1>1. Identified(p.equations) /\ Identified(p.residual_terms)
  BY DEF Indexes, ComponentKinds
<1>2. At(p.equations, e.id) = e /\ At(p.residual_terms, t.id) = t
  BY <1>1, Lookup
<1>3. ASSUME t.equation = e.id PROVE t.id \in Range(e.terms)
  BY <1>2, <1>3, ResidualTermPorts
<1>4. ASSUME t.id \in Range(e.terms) PROVE t.equation = e.id
  <2>1. PICK k \in DOMAIN e.terms : e.terms[k] = t.id
    BY <1>4 DEF Range
  <2>2. At(p.residual_terms, e.terms[k]).equation = e.id
    BY EquationPorts
  <2>3. QED
    BY <1>2, <2>1, <2>2
<1>5. QED
  BY <1>3, <1>4

-----------------------------------------------------------------------------
(* A graph that the structural half passes is closed.                      *)

Resolved(p, kind, member, target, optional) ==
  \A i \in DOMAIN p[kind] :
    \/ p[kind][i][member] \in Ids(p[target])
    \/ optional /\ p[kind][i][member] = ""

AllResolved(p, kind, member, target) ==
  \A i \in DOMAIN p[kind] : Range(p[kind][i][member]) \subseteq Ids(p[target])

\* No fault of a graph and no hash order of its regions hides an open port.
LEMMA ReportClosed ==
  ASSUME NEW p, Graph(p), NEW fullVolume, StructuralReport(p, fullVolume) = {}
  PROVE  Closed(p)
<1>1. /\ IndexFaults(p) = {} /\ EnumFaults(p) = {} /\ SpaceFaults(p) = {}
      /\ PairingFaults(p) = {} /\ VariableFaults(p) = {} /\ DataFaults(p) = {}
      /\ TransformationFaults(p) = {} /\ EquationFaults(p) = {} /\ TermFaults(p) = {}
      /\ ObservationFaults(p) = {} /\ LossFaults(p) = {} /\ MetricFaults(p) = {}
      /\ ConstraintFaults(p) = {} /\ PolicyRegionFaults(p) = {}
  BY DEF StructuralReport
<1>2. Indexes(p)
  BY <1>1, Indexing
<1>3. \A kind \in ComponentKinds :
        IsInjective([i \in DOMAIN p[kind] |-> p[kind][i].id])
  BY <1>2 DEF Indexes, Identified, IsInjective
<1>4. /\ \A i \in DOMAIN p.transformations :
           p.transformations[i].kind \in TransformationKinds
      /\ \A i \in DOMAIN p.observations : Vector(p.observations[i].data)
  BY DEF Graph
<1>5. /\ Resolved(p, "spaces", "region", "regions", FALSE)
      /\ Resolved(p, "pairings", "primal", "spaces", FALSE)
      /\ Resolved(p, "pairings", "covector", "spaces", FALSE)
      /\ Resolved(p, "variables", "space", "spaces", FALSE)
      /\ Resolved(p, "variables", "transform", "transformations", TRUE)
      /\ Resolved(p, "data", "space", "spaces", TRUE)
  BY <1>1, <1>2, SpacePorts, PairingPorts, VariablePorts, DataPorts DEF Resolved
<1>6. /\ Resolved(p, "transformations", "input", "variables", FALSE)
      /\ Resolved(p, "transformations", "output", "spaces", FALSE)
      /\ Resolved(p, "transformations", "fixed_data", "data", TRUE)
      /\ Resolved(p, "transformations", "control", "variables", TRUE)
  BY <1>1, <1>2, <1>4, TransformationPorts DEF Resolved
<1>7. /\ Resolved(p, "residual_terms", "equation", "equations", FALSE)
      /\ Resolved(p, "residual_terms", "region", "regions", TRUE)
      /\ AllResolved(p, "residual_terms", "variables", "variables")
      /\ AllResolved(p, "residual_terms", "data", "data")
  BY <1>1, <1>2, ResidualTermPorts DEF Resolved, AllResolved
<1>8. /\ Resolved(p, "equations", "test_space", "spaces", FALSE)
      /\ Resolved(p, "equations", "test_pairing", "pairings", FALSE)
      /\ AllResolved(p, "equations", "terms", "residual_terms")
  BY <1>1, <1>2, EquationPorts DEF Resolved, AllResolved, Range
<1>9. /\ Resolved(p, "observations", "input", "variables", FALSE)
      /\ Resolved(p, "observations", "region", "regions", FALSE)
      /\ Resolved(p, "observations", "output", "spaces", FALSE)
      /\ Resolved(p, "observations", "pairing", "pairings", FALSE)
      /\ AllResolved(p, "observations", "data", "data")
  BY <1>1, <1>2, <1>4, ObservationPorts DEF Resolved, AllResolved
<1>10. /\ Resolved(p, "losses", "observation", "observations", FALSE)
       /\ Resolved(p, "losses", "data", "data", FALSE)
       /\ Resolved(p, "losses", "pairing", "pairings", FALSE)
       /\ Resolved(p, "metrics", "variable", "variables", FALSE)
       /\ Resolved(p, "metrics", "pairing", "pairings", FALSE)
  BY <1>1, <1>2, LossPorts, MetricPorts DEF Resolved
<1>11. /\ Resolved(p, "constraints", "variable", "variables", FALSE)
       /\ Resolved(p, "constraints", "lower", "data", FALSE)
       /\ Resolved(p, "constraints", "upper", "data", FALSE)
       /\ Resolved(p, "requirement_policies", "region", "regions", TRUE)
  BY <1>1, <1>2, ConstraintPorts, PolicyPorts DEF Resolved
<1>12. \A port \in Ports :
         Resolved(p, port.kind, port.member, port.target, port.optional)
  <2> DEFINE Good(port) ==
               Resolved(p, port.kind, port.member, port.target, port.optional)
  <2>1. ASSUME NEW kind, NEW member, NEW target, NEW optional,
               Resolved(p, kind, member, target, optional)
        PROVE  Good(Port(kind, member, target, optional))
    BY <2>1 DEF Port
  <2> HIDE DEF Good
  <2>2. /\ Good(Port("spaces", "region", "regions", FALSE))
        /\ Good(Port("pairings", "primal", "spaces", FALSE))
        /\ Good(Port("pairings", "covector", "spaces", FALSE))
        /\ Good(Port("variables", "space", "spaces", FALSE))
        /\ Good(Port("variables", "transform", "transformations", TRUE))
        /\ Good(Port("data", "space", "spaces", TRUE))
    BY <1>5, <2>1
  <2>3. /\ Good(Port("transformations", "input", "variables", FALSE))
        /\ Good(Port("transformations", "output", "spaces", FALSE))
        /\ Good(Port("transformations", "fixed_data", "data", TRUE))
        /\ Good(Port("transformations", "control", "variables", TRUE))
    BY <1>6, <2>1
  <2>4. /\ Good(Port("residual_terms", "equation", "equations", FALSE))
        /\ Good(Port("residual_terms", "region", "regions", TRUE))
    BY <1>7, <2>1
  <2>5. /\ Good(Port("equations", "test_space", "spaces", FALSE))
        /\ Good(Port("equations", "test_pairing", "pairings", FALSE))
    BY <1>8, <2>1
  <2>6. /\ Good(Port("observations", "input", "variables", FALSE))
        /\ Good(Port("observations", "region", "regions", FALSE))
        /\ Good(Port("observations", "output", "spaces", FALSE))
        /\ Good(Port("observations", "pairing", "pairings", FALSE))
    BY <1>9, <2>1
  <2>7. /\ Good(Port("losses", "observation", "observations", FALSE))
        /\ Good(Port("losses", "data", "data", FALSE))
        /\ Good(Port("losses", "pairing", "pairings", FALSE))
        /\ Good(Port("metrics", "variable", "variables", FALSE))
        /\ Good(Port("metrics", "pairing", "pairings", FALSE))
    BY <1>10, <2>1
  <2>8. /\ Good(Port("constraints", "variable", "variables", FALSE))
        /\ Good(Port("constraints", "lower", "data", FALSE))
        /\ Good(Port("constraints", "upper", "data", FALSE))
        /\ Good(Port("requirement_policies", "region", "regions", TRUE))
    BY <1>11, <2>1
  <2>9. \A port \in Ports : Good(port)
    BY <2>2, <2>3, <2>4, <2>5, <2>6, <2>7, <2>8, Zenon DEF Ports
  <2>10. QED
    BY <2>9 DEF Good
<1>13. \A port \in PortLists : AllResolved(p, port.kind, port.member, port.target)
  BY <1>7, <1>8, <1>9 DEF PortLists, Port
<1>14. QED
  BY <1>1, <1>2, <1>3, <1>12, <1>13, Membership DEF Closed, Resolved, AllResolved

-----------------------------------------------------------------------------
(* The compilation.                                                        *)

\* A compilation that gets past the validation started from an empty report.
LEMMA CompiledValid ==
  ASSUME NEW p, NEW r, NEW given, NEW mesh, NEW product, NEW report,
         CompileImpl(p, r, given, mesh, product, report).outcome # "invalid"
  PROVE  report = {}
BY DEF CompileImpl, Stage, Refused, Result

\* Authoring: every input of the library, and all that a change or a slip makes
\* of one, has a problem of the program's types.
Authoring ==
  /\ \A i \in Library : Graph(i.problem)
  /\ \A from, to : Graph(from.problem) /\ to \in Changes(from) \cup Slips(from)
                     => Graph(to.problem)

\* The invariant: the problem has its types, and its ports resolve once the
\* validation is passed.
Sound == Graph(input.problem) /\ PortsResolve

\* For every library of graphs and every way to change them: past the validation,
\* every identifier that the graph mentions names one component of the right kind,
\* so no lookup of the compiler's (`.at`, which throws) can miss.
THEOREM PortsCorrect ==
  ASSUME Authoring
  PROVE  Spec => []PortsResolve
<1>1. Init => Sound
  BY Authoring DEF Init, Sound, Authoring, PortsResolve, NotCompiled, Result
<1>2. Sound /\ [Next]_vars => Sound'
  <2> SUFFICES ASSUME Sound, [Next]_vars PROVE Sound'
    OBVIOUS
  <2>1. CASE Author
    BY <2>1, Authoring DEF Author, Sound, Authoring, PortsResolve, NotCompiled, Result
  <2>2. CASE Slip
    BY <2>2, Authoring DEF Slip, Sound, Authoring, PortsResolve, NotCompiled, Result
  <2>3. CASE Compile
    <3>1. PICK report \in Reports(input.problem) :
            result' = CompileImpl(input.problem, Request(input.problem), input.given,
                                  input.mesh, input.product, report)
      BY <2>3 DEF Compile
    <3>2. UNCHANGED input /\ Graph(input.problem)
      BY <2>3 DEF Compile, Sound
    <3>3. CASE result'.outcome = "invalid"
      BY <3>2, <3>3 DEF Sound, PortsResolve
    <3>4. CASE result'.outcome # "invalid"
      <4>1. report = {}
        BY <3>1, <3>4, CompiledValid
      <4>2. PICK fullVolume : StructuralReport(input.problem, fullVolume) = {}
        BY <3>1, <4>1 DEF Reports
      <4>3. Closed(input.problem)
        BY <3>2, <4>2, ReportClosed
      <4>4. QED
        BY <3>2, <4>3 DEF Sound, PortsResolve
    <3>5. QED
      BY <3>3, <3>4
  <2>4. CASE UNCHANGED vars
    BY <2>4 DEF vars, Sound, PortsResolve
  <2>5. QED
    BY <2>1, <2>2, <2>3, <2>4 DEF Next
<1>3. Sound => PortsResolve
  BY DEF Sound
<1>4. QED
  BY <1>1, <1>2, <1>3, PTL DEF Spec

-----------------------------------------------------------------------------
(* The request.                                                            *)

\* The members of the request that its family and its model are read from.
Recorded == {"registration", "dirichlet_control", "neumann", "mean_zero", "metric",
             "continuous_control", "coefficient_identification", "weighted_trace",
             "general_scalar", "fixed_reconstruction", "subdomain_observation",
             "h1_state_observation", "point_sensor", "normal_flux", "h1_loss",
             "partial_dirichlet", "fixed_region", "control_region", "tracking_region"}

\* What the request says of the problem, member by member.
Describes(p, selected, r) ==
  /\ r.metric = SelectedMetric(p).kind
  /\ r.registration = DirichletRegistration(p, selected)
  /\ r.dirichlet_control = UsesDirichletControl(p)
  /\ r.partial_dirichlet = UsesPartialLifting(p)
  /\ r.fixed_region = FixedBoundary(p)
  /\ r.neumann = ("neumann_control" \in TermKinds(p))
  /\ r.continuous_control = UsesContinuousControl(p)
  /\ r.h1_state_observation = ("h1_state_restriction" \in ObservationKinds(p))
  /\ r.point_sensor = ("point_sensor" \in ObservationKinds(p))
  /\ r.normal_flux = ("normal_flux" \in ObservationKinds(p))
  /\ r.tracking_region = TrackingRegion(p).id

Described == {"metric", "registration", "dirichlet_control", "partial_dirichlet",
              "fixed_region", "neumann", "continuous_control", "h1_state_observation",
              "point_sensor", "normal_flux", "tracking_region"}

\* The facts are recorded under their names, before the family and the loss of
\* the gradient are added.
LEMMA FactsDomain ==
  ASSUME NEW p, NEW selected
  PROVE  LET facts == RequestFacts(p, selected)
         IN  /\ Recorded \subseteq DOMAIN facts
             /\ "family" \notin DOMAIN facts
             /\ "h1_regularisation" \notin DOMAIN facts
             /\ Describes(p, selected, facts)
BY DEF RequestFacts, Recorded, Describes

\* Whatever the composition, it has one of the registered names, or none.
LEMMA Registrations ==
  ASSUME NEW p, NEW r
  PROVE  DirichletRegistration(p, r) \in DOMAIN DirichletFamily
BY DEF DirichletRegistration, DirichletFamily

\* The family depends on the recorded members only.
LEMMA SameFamily ==
  ASSUME NEW r, NEW s, \A m \in Recorded \cup {"h1_regularisation"} : s[m] = r[m]
  PROVE  TargetFamily(s) = TargetFamily(r)
BY DEF Recorded, TargetFamily, VolumeFamily, AssembledV1Target

\* What the request says of itself.
Closes(p, r) ==
  /\ r.family = TargetFamily(r)
  /\ r.registration \in DOMAIN DirichletFamily
  /\ Describes(p, [selections |-> Selections(p)], r)
  /\ r.h1_regularisation = (r.h1_loss /\ ~r.dirichlet_control)

\* The members added last leave the recorded ones alone.
LEMMA RequestCloses ==
  ASSUME NEW p
  PROVE  Closes(p, Request(p))
<1> DEFINE selected == [selections |-> Selections(p)]
           facts == RequestFacts(p, selected)
           regularised == WithRegularisation(facts)
           r == WithFamily(regularised)
<1>1. /\ Recorded \subseteq DOMAIN facts
      /\ "family" \notin DOMAIN facts
      /\ "h1_regularisation" \notin DOMAIN facts
      /\ Describes(p, selected, facts)
      /\ facts.registration \in DOMAIN DirichletFamily
  <2>1. Describes(p, selected, facts)
    BY FactsDomain
  <2>2. facts.registration \in DOMAIN DirichletFamily
    BY <2>1, Registrations DEF Describes
  <2>3. QED
    BY <2>1, <2>2, FactsDomain
<1>11. Recorded \cap {"family", "h1_regularisation"} = {}
  BY DEF Recorded
<1> HIDE DEF facts, selected
<1> DEFINE h1 == facts.h1_loss /\ ~facts.dirichlet_control
           family == TargetFamily(regularised)
<1>12. regularised = With(facts, "h1_regularisation", h1)
  BY DEF WithRegularisation
<1>13. r = With(regularised, "family", family)
  BY DEF WithFamily
<1> HIDE DEF h1, regularised, family, r
<1>2. /\ Recorded \cup {"h1_regularisation"} \subseteq DOMAIN regularised
      /\ regularised["h1_regularisation"] = h1
      /\ \A m \in Recorded : regularised[m] = facts[m]
      /\ "family" \notin DOMAIN regularised
  <2>1. /\ regularised["h1_regularisation"] = h1
        /\ \A m \in DOMAIN facts \ {"h1_regularisation"} : regularised[m] = facts[m]
        /\ DOMAIN regularised = DOMAIN facts \cup {"h1_regularisation"}
    BY <1>12 DEF With
  <2>2. QED
    BY <1>1, <1>11, <2>1
<1>3. /\ r["family"] = family
      /\ \A m \in Recorded \cup {"h1_regularisation"} : r[m] = regularised[m]
  <2>1. /\ r["family"] = family
        /\ \A m \in DOMAIN regularised \ {"family"} : r[m] = regularised[m]
    BY <1>13 DEF With
  <2>2. QED
    BY <1>2, <1>11, <2>1
<1>4. TargetFamily(r) = family
  BY <1>3, SameFamily DEF family
<1>5. \A m \in Recorded : r[m] = facts[m]
  BY <1>2, <1>3
<1>6. Described \cup {"registration", "h1_loss", "dirichlet_control"} \subseteq Recorded
  BY DEF Recorded, Described
<1>61. \A m \in Described \cup {"registration", "h1_loss", "dirichlet_control"} :
         r[m] = facts[m]
  BY <1>5, <1>6
<1>62. Describes(p, selected, r)
  BY <1>1, <1>61 DEF Describes, Described
<1>63. r["h1_regularisation"] = h1
  BY <1>2, <1>3
<1>64. r["family"] = TargetFamily(r)
  BY <1>3, <1>4
<1>65. r["registration"] \in DOMAIN DirichletFamily
  BY <1>1, <1>61
<1>7. Closes(p, r)
  BY <1>61, <1>62, <1>63, <1>64, <1>65 DEF Closes, h1, selected
<1>8. QED
  BY <1>7 DEF Request, r, regularised, facts, selected

-----------------------------------------------------------------------------
(* The stages.                                                             *)

\* A problem that compiles has passed every stage.
Passes(p, r, given, mesh, product) ==
  /\ LoweringNeeds(p, r, product) = {}
  /\ ~(ScalarTarget(r) /\ PlanThrows(p, r))
  /\ BindingNeeds(p, r, given, mesh) = {}
  /\ MeshNeeds(p, r, mesh) = {}
  /\ ~ModelThrows(p, r, given)

\* Each stage hands on only what it needs nothing of.
LEMMA CompiledPasses ==
  ASSUME NEW p, NEW r, NEW given, NEW mesh, NEW product, NEW report,
         CompileImpl(p, r, given, mesh, product, report).outcome = "compiled"
  PROVE  /\ report = {}
         /\ Passes(p, r, given, mesh, product)
         /\ CompileImpl(p, r, given, mesh, product, report)
              = Result("compiled", {}, r, Realisation(p, r))
BY DEF CompileImpl, Stage, Refused, Result, Passes

\* What the combination stage leaves of the features of a request.
Combined(p, r) ==
  /\ r.mean_zero => r.neumann
  /\ r.weighted_trace => r.neumann /\ ~r.mean_zero
  /\ r.h1_regularisation => ~r.fixed_reconstruction /\ ~r.neumann /\ ~r.dirichlet_control
  /\ r.continuous_control =>
       ~r.neumann /\ ~r.dirichlet_control /\ ~r.coefficient_identification
  /\ r.coefficient_identification =>
       ~r.neumann /\ ~r.h1_regularisation /\ ~r.dirichlet_control
  /\ r.dirichlet_control => ~r.neumann /\ ~r.h1_regularisation
  /\ r.metric = "hminus1" =>
       /\ ~r.h1_regularisation /\ r.h1_state_observation
       /\ ~r.neumann /\ ~r.dirichlet_control /\ ~r.coefficient_identification
  /\ r.general_scalar => ~r.neumann /\ ~r.dirichlet_control

\* Feature by feature, from the group of checks of the feature.
LEMMA Combinations ==
  ASSUME NEW p, NEW r, CombinationNeeds(p, r) = {}
  PROVE  Combined(p, r)
<1>1. ASSUME r.mean_zero PROVE r.neumann
  <2>1. MeanZeroNeeds(p, r) = {}
    BY <1>1 DEF CombinationNeeds
  <2>2. QED
    BY <2>1 DEF MeanZeroNeeds, Need
<1>2. r.weighted_trace => r.neumann /\ ~r.mean_zero
  BY DEF CombinationNeeds, Need
<1>3. ASSUME r.h1_regularisation
      PROVE  ~r.fixed_reconstruction /\ ~r.neumann /\ ~r.dirichlet_control
  <2>1. H1RegularisationNeeds(p, r) = {}
    BY <1>3 DEF CombinationNeeds
  <2>2. QED
    BY <2>1 DEF H1RegularisationNeeds, Need
<1>4. ASSUME r.continuous_control
      PROVE  ~r.neumann /\ ~r.dirichlet_control /\ ~r.coefficient_identification
  <2>1. ContinuousControlNeeds(p, r) = {}
    BY <1>4 DEF CombinationNeeds
  <2>2. QED
    BY <2>1 DEF ContinuousControlNeeds, Need
<1>5. ASSUME r.coefficient_identification
      PROVE  ~r.neumann /\ ~r.h1_regularisation /\ ~r.dirichlet_control
  <2>1. CoefficientNeeds(p, r) = {}
    BY <1>5 DEF CombinationNeeds
  <2>2. QED
    BY <2>1 DEF CoefficientNeeds, Need
<1>6. ASSUME r.dirichlet_control PROVE ~r.neumann /\ ~r.h1_regularisation
  <2>1. DirichletNeeds(p, r) = {}
    BY <1>6 DEF CombinationNeeds
  <2>2. QED
    BY <2>1 DEF DirichletNeeds, Need
<1>7. ASSUME r.metric = "hminus1"
      PROVE  /\ ~r.h1_regularisation /\ r.h1_state_observation
             /\ ~r.neumann /\ ~r.dirichlet_control /\ ~r.coefficient_identification
  <2>1. Hminus1Needs(p, r) = {}
    BY <1>7 DEF CombinationNeeds
  <2>2. QED
    BY <2>1 DEF Hminus1Needs, Need
<1>8. ASSUME r.general_scalar PROVE ~r.neumann /\ ~r.dirichlet_control
  <2>1. GeneralScalarNeeds(p, r) = {}
    BY <1>8 DEF CombinationNeeds
  <2>2. QED
    BY <2>1 DEF GeneralScalarNeeds, Need
<1>9. QED
  BY <1>1, <1>2, <1>3, <1>4, <1>5, <1>6, <1>7, <1>8 DEF Combined

\* A compiled problem has a model, and a scalar one searches in the L2 metric.
LEMMA Modelled ==
  ASSUME NEW p, NEW r, NEW given, NEW mesh, NEW product, Closes(p, r),
         Passes(p, r, given, mesh, product)
  PROVE  /\ Model(r) # "none"
         /\ ScalarTarget(r) => r.metric = "l2"
         /\ r.dirichlet_control => r.registration # "none"
<1>1. Model(r) # "none"
  BY DEF Passes, ModelThrows
<1>2. ASSUME ScalarTarget(r) PROVE r.metric = "l2"
  <2>1. PlanNeeds(p, r) = {}
    BY <1>2 DEF Passes, BindingNeeds
  <2>2. \A i \in DOMAIN <<SelectedMetric(p)>> :
          <<SelectedMetric(p)>>[i].kind \in ScalarLowerers["metrics"]
    BY <2>1 DEF PlanNeeds, Need
  <2>3. SelectedMetric(p).kind \in {"l2"}
    BY <2>2 DEF ScalarLowerers
  <2>4. QED
    BY <2>3 DEF Closes, Describes
<1>3. RegistrationNeeds(r) = {}
  BY DEF Passes, LoweringNeeds
<1>4. r.dirichlet_control => r.registration # "none"
  BY <1>3 DEF RegistrationNeeds, Need
<1>5. QED
  BY <1>1, <1>2, <1>4

\* FamilyNamesModel of a problem and its request.
NamesModel(p, r) ==
  LET realised == Realisation(p, r)
  IN  /\ r.family \in DOMAIN FamilyModel
      /\ realised.model = FamilyModel[r.family]
      /\ r.family = "pure_neumann" => realised.fixed = {}
      /\ realised.observation \in {"weighted_boundary_trace", "point_sensor", "normal_flux"}
           => realised.observation = r.family
      /\ realised.metric = "hminus1" <=> r.family = "hminus1_control_metric"
      /\ realised.metric = "hhalf" <=>
           r.family \in {"hhalf_dirichlet_control", "h1_tracking_hhalf_dirichlet_control"}

\* The two chains of conditions agree on what passed the stages.
LEMMA FamilyIsModel ==
  ASSUME NEW p, NEW r, NEW given, NEW mesh, NEW product, Closes(p, r),
         Passes(p, r, given, mesh, product)
  PROVE  NamesModel(p, r)
<1>1. Combined(p, r)
  <2>1. CombinationNeeds(p, r) = {}
    BY DEF Passes, LoweringNeeds
  <2>2. QED
    BY <2>1, Combinations
<1>2. /\ Model(r) # "none"
      /\ ScalarTarget(r) => r.metric = "l2"
      /\ r.dirichlet_control => r.registration # "none"
  BY Modelled
<1>3. r.family = TargetFamily(r)
  BY DEF Closes
<1>4. CASE Model(r) = "neumann_boundary"
  <2>1. r.neumann /\ ~r.dirichlet_control
    BY <1>1, <1>4 DEF Model, Combined
  <2>2. r.family = IF r.mean_zero THEN "pure_neumann"
                   ELSE IF r.weighted_trace THEN "weighted_boundary_trace" ELSE "neumann_boundary"
    BY <1>3, <2>1 DEF TargetFamily
  <2>3. r.weighted_trace => ~r.mean_zero
    BY <1>1 DEF Combined
  <2>4. r.mean_zero => DirichletIds(p, r) = {}
    BY DEF DirichletIds
  <2>5. QED
    BY <1>4, <2>2, <2>3, <2>4 DEF NamesModel, Realisation, FamilyModel
<1>5. CASE Model(r) = "dirichlet_lifting"
  <2>1. /\ r.dirichlet_control /\ ~r.neumann /\ ~r.mean_zero /\ ~r.weighted_trace
    BY <1>1, <1>5 DEF Model, Combined
  <2>2. r.family = DirichletFamily[r.registration]
    BY <1>3, <2>1 DEF TargetFamily
  <2>3. r.registration \in DOMAIN DirichletFamily \ {"none"}
    BY <1>2, <2>1 DEF Closes
  <2>4. QED
    BY <1>5, <2>2, <2>3 DEF NamesModel, Realisation, FamilyModel, DirichletFamily
<1>6. CASE Model(r) \in {"continuous_control", "coefficient_identification", "scalar_components"}
  <2>1. ~r.neumann /\ ~r.dirichlet_control /\ ~r.mean_zero /\ ~r.weighted_trace
    BY <1>1, <1>6 DEF Model, Combined
  <2>2. r.family = IF r.coefficient_identification THEN "coefficient_identification"
                   ELSE VolumeFamily(r)
    BY <1>3, <2>1 DEF TargetFamily
  <2>3. CASE Model(r) = "continuous_control"
    <3>1. /\ r.h1_regularisation \/ r.continuous_control
          /\ ~r.coefficient_identification
      BY <1>1, <2>1, <2>3 DEF Model, Combined
    <3>2. QED
      BY <2>2, <2>3, <3>1 DEF NamesModel, Realisation, FamilyModel, VolumeFamily
  <2>4. CASE Model(r) = "coefficient_identification"
    <3>1. r.coefficient_identification
      BY <2>1, <2>4 DEF Model
    <3>2. QED
      BY <2>2, <2>4, <3>1 DEF NamesModel, Realisation, FamilyModel
  <2>5. CASE Model(r) = "scalar_components"
    <3>1. /\ ~r.h1_regularisation /\ ~r.continuous_control /\ ~r.coefficient_identification
          /\ ScalarTarget(r)
      BY <2>1, <2>5 DEF Model
    <3>2. r.metric = "l2"
      BY <1>2, <3>1
    <3>3. r.family = IF r.point_sensor THEN "point_sensor"
                     ELSE IF r.normal_flux THEN "normal_flux"
                     ELSE IF ~AssembledV1Target(r) THEN "direct_volume"
                     ELSE IF r.general_scalar THEN "general_scalar_robin"
                     ELSE "assembled_volume"
      BY <2>2, <3>1, <3>2 DEF VolumeFamily
    <3>4. QED
      BY <2>5, <3>3 DEF NamesModel, Realisation, FamilyModel
  <2>6. QED
    BY <1>6, <2>3, <2>4, <2>5
<1>7. QED
  BY <1>2, <1>4, <1>5, <1>6 DEF Model

-----------------------------------------------------------------------------
\* Where a result comes from.
Derived ==
  \/ result = NotCompiled
  \/ \E report \in Reports(input.problem) :
       result = CompileImpl(input.problem, Request(input.problem), input.given,
                            input.mesh, input.product, report)

\* The request of a result is that of the problem, the result the answer to the input.
LEMMA Derivation == Spec => []Derived
<1>1. Init => Derived
  BY DEF Init, Derived
<1>2. Derived /\ [Next]_vars => Derived'
  BY DEF Derived, Next, Author, Slip, Compile, vars
<1>3. QED
  BY <1>1, <1>2, PTL DEF Spec

\* A compiled result is the realisation of its input, which passed every stage.
LEMMA CompiledInput ==
  ASSUME Derived, Compiled
  PROVE  /\ {} \in Reports(input.problem)
         /\ Closes(input.problem, Request(input.problem))
         /\ Passes(input.problem, Request(input.problem), input.given, input.mesh, input.product)
         /\ result.request = Request(input.problem)
         /\ result.realised = Realisation(input.problem, Request(input.problem))
<1>1. result # NotCompiled
  BY DEF Compiled, NotCompiled, Result
<1>2. PICK report \in Reports(input.problem) :
        result = CompileImpl(input.problem, Request(input.problem), input.given,
                             input.mesh, input.product, report)
  BY <1>1 DEF Derived
<1>3. /\ report = {}
      /\ Passes(input.problem, Request(input.problem), input.given, input.mesh, input.product)
      /\ result = Result("compiled", {}, Request(input.problem),
                         Realisation(input.problem, Request(input.problem)))
  BY <1>2, CompiledPasses DEF Compiled
<1>4. QED
  BY <1>2, <1>3, RequestCloses DEF Result

\* Whatever the library and the authors make: on every problem that compiles the
\* family of the request names the model that is built.
THEOREM FamilyCorrect == Spec => []FamilyNamesModel
<1>1. Derived => FamilyNamesModel
  <2>1. SUFFICES ASSUME Derived, Compiled PROVE FamilyNamesModel
    BY DEF FamilyNamesModel
  <2>2. NamesModel(input.problem, Request(input.problem))
    BY <2>1, CompiledInput, FamilyIsModel
  <2>3. QED
    BY <2>1, <2>2, CompiledInput DEF FamilyNamesModel, NamesModel
<1>2. QED
  BY <1>1, Derivation, PTL

-----------------------------------------------------------------------------
(* The boundary.                                                           *)

\* A lookup that found a component found it under its own identifier.
LEMMA FoundAt ==
  ASSUME NEW components, Identified(components), NEW id,
         LET c == At(components, id)
         IN  Present(c) \/ c.role # "?" \/ c.kind # "?"
  PROVE  \E i \in DOMAIN components : components[i].id = id /\ At(components, id) = components[i]
<1>1. id \in Ids(components)
  BY Found
<1>2. PICK i \in DOMAIN components : components[i].id = id
  BY <1>1 DEF Ids
<1>3. At(components, components[i].id) = components[i]
  BY Lookup
<1>4. QED
  BY <1>2, <1>3

\* A boundary region is found, and has faces.
LEMMA BoundaryFound ==
  ASSUME NEW p, Graph(p), Indexes(p), NEW id, At(p.regions, id).kind = "boundary"
  PROVE  /\ Present(At(p.regions, id))
         /\ id # "?"
         /\ IsBoundary(At(p.regions, id)) => BoundaryIds(At(p.regions, id)) # {}
<1>0. Identified(p.regions) /\ "regions" \in ComponentKinds
  BY DEF Indexes, ComponentKinds
<1>1. PICK i \in DOMAIN p.regions : p.regions[i].id = id /\ At(p.regions, id) = p.regions[i]
  BY <1>0, FoundAt
<1>2. p.regions[i].id # "?" /\ p.regions[i].boundary_ids \in Seq(Nat)
  BY <1>0 DEF Graph
<1>3. ASSUME p.regions[i].boundary_ids # <<>> PROVE Range(p.regions[i].boundary_ids) # {}
  <2>1. 1 \in DOMAIN p.regions[i].boundary_ids
    BY <1>2, <1>3
  <2>2. QED
    BY <2>1 DEF Range
<1>4. QED
  BY <1>1, <1>2, <1>3 DEF Present, IsBoundary, BoundaryIds

\* The validator keeps a natural source off the region it takes for the fixed one.
LEMMA SourceChecked ==
  ASSUME NEW p, Graph(p), Indexes(p), TermFaults(p) = {}, NaturalSourceFaults(p) = {},
         DataFaults(p) = {},
         NEW i \in DOMAIN p.residual_terms,
         p.residual_terms[i].kind = "natural_boundary_source",
         At(p.regions, FixedRegion(p)).kind = "boundary"
  PROVE  BoundaryIds(At(p.regions, p.residual_terms[i].region))
           \cap BoundaryIds(At(p.regions, FixedRegion(p))) = {}
<1> DEFINE t == p.residual_terms[i]
           datum == At(p.data, t.data[1])
           space == At(p.spaces, datum.space)
           shaped == space.role = "data" /\ space.scalar
           fixed == At(p.regions, FixedRegion(p))
           source == At(p.regions, t.region)
<1>0. /\ Identified(p.regions) /\ Identified(p.data) /\ Identified(p.spaces)
      /\ {"regions", "data", "spaces"} \subseteq ComponentKinds
  BY DEF Indexes, ComponentKinds
<1>1. TermChecks(p, t) = {}
  BY DEF TermFaults, ForEach
<1>2. Len(t.data) = 1
  <2>1. SignatureHolds(p, t)
    <3>1. Structural(~SignatureHolds(p, t), t.id, "residual_term_signature") = {}
      BY <1>1 DEF TermChecks
    <3>2. QED
      BY <3>1, Quiet DEF SignatureHolds
  <2>2. TermSignature[t.kind].data = {"natural_boundary_source"}
    BY DEF TermSignature
  <2>3. Len(t.data) = Cardinality({"natural_boundary_source"})
    BY <2>1, <2>2 DEF SignatureHolds
  <2>4. QED
    BY <2>3, FS_Singleton
<1>3. t.data[1] \in Ids(p.data)
  <2>1. Vector(t.data)
    BY DEF Graph
  <2>2. 1 \in DOMAIN t.data
    BY <1>2, <2>1 DEF Vector
  <2>3. Range(t.data) \subseteq Ids(p.data)
    BY ResidualTermPorts
  <2>4. QED
    BY <2>2, <2>3 DEF Range
<1>4. PICK k \in DOMAIN p.data : p.data[k].id = t.data[1] /\ datum = p.data[k]
  <2>1. PICK k \in DOMAIN p.data : p.data[k].id = t.data[1]
    BY <1>3 DEF Ids
  <2>2. QED
    BY <1>0, <2>1, Lookup
<1>5. NaturalSourceTermFaults(p, t) = {}
  BY <1>2 DEF NaturalSourceFaults, ForEach
<1>6. /\ Structural(/\ Present(datum)
                    /\ datum.space = "" \/ (Present(space) /\ ~shaped),
                    datum.id, "natural_boundary_source_data_space") = {}
      /\ Structural(/\ shaped /\ Present(fixed) /\ Present(source)
                    /\ Overlap(source, fixed),
                    t.id, "natural_boundary_source_fixed_overlap") = {}
  BY <1>5 DEF NaturalSourceTermFaults
<1>7. Present(datum)
  BY <1>0, <1>4 DEF Graph, Present
<1>8. shaped
  <2>1. datum.space # "" /\ (Present(space) => shaped)
    BY <1>6, <1>7, Quiet
  <2>2. datum.space \in Ids(p.spaces)
    <3>1. p.data[k].space \in Ids(p.spaces) \cup {""}
      BY DataPorts
    <3>2. QED
      BY <1>4, <2>1, <3>1
  <2>3. PICK j \in DOMAIN p.spaces : p.spaces[j].id = datum.space
    BY <2>2 DEF Ids
  <2>4. space = p.spaces[j]
    BY <1>0, <2>3, Lookup
  <2>5. Present(space)
    BY <1>0, <2>4 DEF Graph, Present
  <2>6. QED
    BY <2>1, <2>5
<1>9. Present(fixed)
  BY BoundaryFound
<1>10. Present(source)
  <2>1. BoundaryTermFaults(p, t) = {}
    BY <1>1 DEF TermChecks, BoundaryTerms
  <2>2. Structural(source.kind # "boundary", t.id, "boundary_term_region") = {}
    BY <2>1 DEF BoundaryTermFaults
  <2>3. source.kind = "boundary"
    BY <2>2, Quiet
  <2>4. QED
    BY <2>3, BoundaryFound
<1>11. ~Overlap(source, fixed)
  BY <1>6, <1>8, <1>9, <1>10, Quiet DEF Overlap
<1>12. QED
  BY <1>11 DEF Overlap, BoundaryIds

\* A graph that some walk of its regions finds no structural fault in.
Validated(p) == Graph(p) /\ \E fullVolume : StructuralReport(p, fullVolume) = {}

\* FacesHaveOneRole of a problem, its request and a mesh.
OneRole(p, r, mesh) ==
  LET realised == Realisation(p, r)
      everywhere == realised.model = "dirichlet_lifting"
                    /\ mesh.faces \subseteq realised.controlled
  IN  /\ realised.fixed \cap realised.controlled = {}
      /\ realised.controlled \subseteq mesh.faces \/ everywhere
      /\ \/ r.neumann /\ FixedRegion(p) # r.fixed_region
         \/ OffFixed(p, realised)
      /\ realised.fixed \cap mesh.faces = {} => r.mean_zero \/ everywhere

\* What the combination and the mesh stages say of the fixed faces.
LEMMA FixedChecked ==
  ASSUME NEW p, NEW r, NEW given, NEW mesh, NEW product, Closes(p, r),
         Passes(p, r, given, mesh, product)
  PROVE  /\ r.partial_dirichlet => r.dirichlet_control
         /\ \/ r.mean_zero \/ r.dirichlet_control
            \/ /\ IsBoundary(FixedRegionOf(p, r))
               /\ DirichletIds(p, r) \subseteq mesh.faces
         /\ r.neumann => NeumannNeeds(p, r) = {} /\ NeumannMeshNeeds(p, r, mesh) = {}
         /\ r.dirichlet_control => DirichletMeshNeeds(p, r, mesh) = {}
<1>1. r.partial_dirichlet => r.dirichlet_control
  BY DEF Closes, Describes, UsesPartialLifting, UsesDirichletControl
<1>2. CombinationNeeds(p, r) = {} /\ MeshNeeds(p, r, mesh) = {}
  BY DEF Passes, LoweringNeeds
<1>3. r.mean_zero \/ r.dirichlet_control \/ IsBoundary(FixedRegionOf(p, r))
  BY <1>2 DEF CombinationNeeds, Need
<1>4. r.mean_zero \/ r.dirichlet_control \/ OnMesh(mesh, DirichletIds(p, r))
  BY <1>2 DEF MeshNeeds, Need
<1>5. r.neumann => NeumannNeeds(p, r) = {}
  BY <1>2 DEF CombinationNeeds
<1>6. r.neumann => NeumannMeshNeeds(p, r, mesh) = {}
  BY <1>2 DEF MeshNeeds
<1>7. r.dirichlet_control => DirichletMeshNeeds(p, r, mesh) = {}
  BY <1>2 DEF MeshNeeds
<1>8. QED
  BY <1>1, <1>3, <1>4, <1>5, <1>6, <1>7 DEF OnMesh

\* A flux control: the registered overlap checks, and the validator's of the
\* natural source.
LEMMA NeumannFaces ==
  ASSUME NEW p, NEW r, NEW given, NEW mesh, NEW product, Closes(p, r),
         Passes(p, r, given, mesh, product), Validated(p), r.neumann
  PROVE  OneRole(p, r, mesh)
<1> DEFINE realised == Realisation(p, r)
           fixed == BoundaryIds(FixedRegionOf(p, r))
           controlled == BoundaryIds(ControlledRegionOf(p, r))
<1>1. ~r.dirichlet_control /\ ~r.general_scalar /\ ~r.partial_dirichlet
  <2>1. Combined(p, r)
    BY Combinations DEF Passes, LoweringNeeds
  <2>2. QED
    BY <2>1, FixedChecked DEF Combined
<1>2. realised.fixed = DirichletIds(p, r) /\ realised.controlled = controlled
      /\ realised.terms \subseteq {"diffusion_reaction", "volume_source", "neumann_control",
                                   "conservative_transport", "natural_boundary_source"}
      /\ Model(r) = "neumann_boundary"
  BY DEF Realisation, Model
<1>3. DirichletIds(p, r) = IF r.mean_zero THEN {} ELSE fixed
  BY <1>1 DEF DirichletIds, FixedIds
<1>4. fixed \cap controlled = {}
  <2>1. NeumannNeeds(p, r) = {}
    BY FixedChecked
  <2>2. Disjoint(ControlledRegionOf(p, r), FixedRegionOf(p, r))
    BY <2>1 DEF NeumannNeeds, Need
  <2>3. QED
    BY <2>2 DEF Disjoint, BoundaryIds
<1>5. controlled \subseteq mesh.faces
  <2>1. NeumannMeshNeeds(p, r, mesh) = {}
    BY FixedChecked
  <2>2. QED
    BY <2>1 DEF NeumannMeshNeeds, Need, OnMesh
<1>6. ~r.mean_zero => fixed # {} /\ fixed \subseteq mesh.faces
  <2>1. ~NeumannThrows(p, r)
    BY <1>2 DEF Passes, ModelThrows
  <2>2. QED
    BY <1>1, <1>3, <2>1, FixedChecked DEF NeumannThrows
<1>7. ASSUME FixedRegion(p) = r.fixed_region PROVE OffFixed(p, realised)
  <2>1. CASE r.mean_zero
    BY <1>2, <1>3, <2>1 DEF OffFixed
  <2>2. CASE ~r.mean_zero
    <3>1. At(p.regions, FixedRegion(p)) = FixedRegionOf(p, r)
      BY <1>7 DEF FixedRegionOf
    <3>2. FixedRegionOf(p, r).kind = "boundary"
      BY <1>1, <2>2, FixedChecked DEF IsBoundary
    <3>3. PICK fullVolume : StructuralReport(p, fullVolume) = {}
      BY DEF Validated
    <3>4. /\ Graph(p) /\ Indexes(p) /\ TermFaults(p) = {} /\ NaturalSourceFaults(p) = {}
          /\ DataFaults(p) = {}
      BY <3>3, Indexing DEF Validated, StructuralReport
    <3>5. ASSUME NEW id \in BoundarySources(p, realised)
          PROVE  BoundaryIds(At(p.regions, id)) \cap realised.fixed = {}
      <4>1. PICK i \in DOMAIN p.residual_terms :
              /\ p.residual_terms[i].region = id
              /\ p.residual_terms[i].kind = "natural_boundary_source"
        BY <1>2 DEF BoundarySources
      <4>2. BoundaryIds(At(p.regions, id)) \cap fixed = {}
        BY <3>1, <3>2, <3>4, <4>1, SourceChecked
      <4>3. QED
        BY <1>2, <1>3, <2>2, <4>2
    <3>6. QED
      BY <3>5 DEF OffFixed
  <2>3. QED
    BY <2>1, <2>2
<1>8. QED
  BY <1>2, <1>3, <1>4, <1>5, <1>6, <1>7 DEF OneRole

\* A Dirichlet control: the partition of the exterior, or the whole of it.
LEMMA DirichletFaces ==
  ASSUME NEW p, NEW r, NEW given, NEW mesh, NEW product, Closes(p, r),
         Passes(p, r, given, mesh, product), Model(r) = "dirichlet_lifting"
  PROVE  OneRole(p, r, mesh)
<1> DEFINE realised == Realisation(p, r)
           F == FixedIds(p, r)
           D == DirichletIds(p, r)
<1>1. r.dirichlet_control /\ ~r.neumann /\ ~r.general_scalar /\ ~r.mean_zero
  <2>1. Combined(p, r)
    BY Combinations DEF Passes, LoweringNeeds
  <2>2. QED
    BY <2>1 DEF Combined, Model
<1>2. /\ realised.fixed = F /\ realised.controlled = D
      /\ realised.model = "dirichlet_lifting"
      /\ realised.terms \cap {"natural_boundary_source", "robin_source"} = {}
  BY DEF Realisation
<1>3. DirichletMeshNeeds(p, r, mesh) = {}
  BY <1>1, FixedChecked
<1>4. OffFixed(p, realised)
  BY <1>2 DEF OffFixed, BoundarySources
<1>5. CASE r.partial_dirichlet
  <2>1. OnMesh(mesh, D) /\ CompletePartition(mesh, <<F, D>>)
    BY <1>3, <1>5 DEF DirichletMeshNeeds, Need
  <2> HIDE DEF F, D
  <2>2. F \cap D = {}
    <3>1. \A i, j \in DOMAIN <<F, D>> : i # j => <<F, D>>[i] \cap <<F, D>>[j] = {}
      BY <2>1 DEF CompletePartition
    <3>2. QED
      BY <3>1
  <2>3. mesh.faces \subseteq F \cup D
    <3>1. mesh.faces \subseteq UNION {<<F, D>>[i] : i \in DOMAIN <<F, D>>}
      BY <2>1 DEF CompletePartition, CompleteExterior
    <3>2. QED
      BY <3>1
  <2>4. D \subseteq mesh.faces
    BY <2>1 DEF OnMesh
  <2>5. QED
    BY <1>2, <1>4, <2>2, <2>3, <2>4 DEF OneRole
<1>6. CASE ~r.partial_dirichlet
  <2>1. mesh.faces \subseteq D
    BY <1>3, <1>6 DEF DirichletMeshNeeds, Need, CompleteExterior
  <2>2. F = {}
    BY <1>1, <1>6 DEF FixedIds
  <2>3. QED
    BY <1>2, <1>4, <2>1, <2>2 DEF OneRole
<1>7. QED
  BY <1>5, <1>6

\* A control in the volume: the constructors refuse a state that is fixed nowhere.
LEMMA VolumeFaces ==
  ASSUME NEW p, NEW r, NEW given, NEW mesh, NEW product, Closes(p, r),
         Passes(p, r, given, mesh, product),
         Model(r) \in {"continuous_control", "coefficient_identification"}
  PROVE  OneRole(p, r, mesh)
<1> DEFINE realised == Realisation(p, r)
<1>1. ~r.dirichlet_control /\ ~r.neumann /\ ~r.mean_zero
  <2>1. Combined(p, r)
    BY Combinations DEF Passes, LoweringNeeds
  <2>2. QED
    BY <2>1 DEF Combined, Model
<1>2. /\ realised.fixed = DirichletIds(p, r) /\ realised.controlled = {}
      /\ realised.terms \cap {"natural_boundary_source", "robin_source"} = {}
  BY DEF Realisation
<1>3. DirichletIds(p, r) # {}
  BY DEF Passes, ModelThrows
<1>4. DirichletIds(p, r) \subseteq mesh.faces
  BY <1>1, FixedChecked
<1>5. OffFixed(p, realised)
  BY <1>2 DEF OffFixed, BoundarySources
<1>6. QED
  BY <1>2, <1>3, <1>4, <1>5 DEF OneRole

\* A registered term is declared once.
LEMMA DeclaredOnce ==
  ASSUME NEW terms, Vector(terms), NEW signature, Matches(terms, signature),
         NEW kind \in signature.once,
         NEW i \in DOMAIN terms, NEW j \in DOMAIN terms,
         terms[i].kind = kind, terms[j].kind = kind
  PROVE  i = j
<1> DEFINE I == {k \in DOMAIN terms : terms[k].kind = kind}
<1>1. Cardinality(I) = 1
  BY DEF Matches
<1>2. IsFiniteSet(I)
  <2>1. DOMAIN terms = 1 .. Len(terms) /\ Len(terms) \in Nat
    BY DEF Vector
  <2>2. IsFiniteSet(1 .. Len(terms))
    BY <2>1, FS_Interval
  <2>3. QED
    BY <2>1, <2>2, FS_Subset
<1>3. i \in I /\ j \in I
  OBVIOUS
<1> HIDE DEF I
<1>4. PICK x : I = {x}
  BY <1>1, <1>2, FS_Singleton
<1>5. QED
  BY <1>3, <1>4

\* The general scalar problem: its Robin source is on the Robin faces of the
\* selection, which partition the exterior with the fixed ones.
LEMMA RobinFaces ==
  ASSUME NEW p, NEW r, NEW given, NEW mesh, NEW product, Closes(p, r),
         Passes(p, r, given, mesh, product), Validated(p),
         r.general_scalar, Model(r) = "scalar_components"
  PROVE  OneRole(p, r, mesh)
<1> DEFINE realised == Realisation(p, r)
           fixed == PlanFixedIds(p, r)
           robin == PlanRobinIds(p)
<1>1. ~r.dirichlet_control /\ ~r.neumann /\ ~r.mean_zero /\ ScalarTarget(r)
  <2>1. Combined(p, r)
    BY Combinations DEF Passes, LoweringNeeds
  <2>2. QED
    BY <2>1 DEF Combined, Model
<1>2. /\ realised.fixed = fixed /\ realised.controlled = {}
      /\ realised.terms = {t.kind : t \in Range(EquationTerms(p))}
  BY DEF Realisation
<1>3. DirichletIds(p, r) = fixed
  BY <1>1 DEF DirichletIds, FixedIds
<1>4. fixed # {} /\ fixed \subseteq mesh.faces
  <2>1. PlanNeeds(p, r) = {}
    BY <1>1 DEF Passes, BindingNeeds
  <2>2. fixed # {}
    BY <2>1 DEF PlanNeeds, Need
  <2>3. QED
    BY <1>1, <1>3, <2>2, FixedChecked
<1>5. fixed \cap robin = {}
  <2>1. MeshNeeds(p, r, mesh) = {}
    BY DEF Passes
  <2>2. CompletePartition(mesh, <<DirichletIds(p, r), robin>>)
    BY <2>1 DEF MeshNeeds, Need
  <2> HIDE DEF robin, fixed
  <2>3. \A i, j \in DOMAIN <<fixed, robin>> :
          i # j => <<fixed, robin>>[i] \cap <<fixed, robin>>[j] = {}
    BY <1>3, <2>2 DEF CompletePartition
  <2>4. QED
    BY <2>3
<1>6. ~ScalarThrows(p, r, given)
  BY DEF Passes, ModelThrows
<1>7. PICK fullVolume : StructuralReport(p, fullVolume) = {}
  BY DEF Validated
<1>8. Graph(p) /\ Identified(p.residual_terms)
  BY <1>7, Indexing DEF Validated, StructuralReport, Indexes, ComponentKinds
<1>9. ASSUME NEW j \in DOMAIN p.residual_terms,
             p.residual_terms[j].kind \in {"natural_boundary_source", "robin_source"},
             p.residual_terms[j].kind \in realised.terms
      PROVE  p.residual_terms[j].region = PlanSelection(p).robin
  <2> DEFINE equation == At(p.equations, p.formulation.equation)
  <2>1. p.residual_terms[j].kind = "robin_source"
    BY <1>2, <1>6, <1>9 DEF ScalarThrows
  <2>2. PICK k \in DOMAIN EquationTerms(p) : EquationTerms(p)[k].kind = "robin_source"
    BY <1>2, <1>9, <2>1 DEF Range
  <2>3. EquationTerms(p)[k] = At(p.residual_terms, equation.terms[k])
    BY DEF EquationTerms
  <2>4. PICK m \in DOMAIN p.residual_terms : EquationTerms(p)[k] = p.residual_terms[m]
    BY <1>8, <2>2, <2>3, FoundAt
  <2>5. Matches(p.residual_terms, RegisteredTerms(r))
    BY DEF Passes, LoweringNeeds, GraphNeeds, Need
  <2>6. "robin_source" \in RegisteredTerms(r).once
    BY DEF RegisteredTerms, Signature
  <2>7. Vector(p.residual_terms)
    BY <1>8 DEF Identified
  <2>8. j = m
    BY <2>1, <2>2, <2>4, <2>5, <2>6, <2>7, DeclaredOnce
  <2>9. EquationTerms(p)[k].region = PlanSelection(p).robin
    BY <1>6, <2>2 DEF ScalarThrows, Range
  <2>10. QED
    BY <2>4, <2>8, <2>9
<1>10. OffFixed(p, realised)
  <2>1. ASSUME NEW id \in BoundarySources(p, realised)
        PROVE  BoundaryIds(At(p.regions, id)) \cap realised.fixed = {}
    <3>1. id = PlanSelection(p).robin
      BY <1>9 DEF BoundarySources
    <3>2. QED
      BY <1>2, <1>5, <3>1 DEF PlanRobinIds
  <2>2. QED
    BY <2>1 DEF OffFixed
<1>11. QED
  BY <1>1, <1>2, <1>4, <1>10 DEF OneRole

\* The first component that passes a test is one of those that do.
LEMMA MinOf ==
  ASSUME NEW I \in SUBSET Nat, I # {}
  PROVE  Min(I) \in I
<1>1. PICK n \in I : \A m \in I : <<m, n>> \notin OpToRel(<, Nat)
  BY NatLessThanWellFounded, WFMin, Zenon
<1>2. ASSUME NEW m \in I PROVE n =< m
  <2>1. <<m, n>> \notin OpToRel(<, Nat)
    BY <1>1
  <2>2. ~(m < n)
    BY <2>1, Zenon DEF OpToRel
  <2>3. QED
    BY <2>2
<1>3. QED
  BY <1>2 DEF Min

\* What the request fixes when the state is not lifted: the region of a policy that
\* the plan takes too.
LEMMA FixedByPolicy ==
  ASSUME NEW p, Vector(p.requirement_policies), ~UsesPartialLifting(p),
         FixedBoundary(p) # "?"
  PROVE  \E i \in StateFixedPolicies(p) : p.requirement_policies[i].region = FixedBoundary(p)
<1> DEFINE policies == p.requirement_policies
           I == {i \in 1 .. Len(policies) :
                   /\ policies[i].kind = "fixed_dirichlet"
                   /\ policies[i].status = "selected_discrete_realisation"
                   /\ \/ policies[i].subject = p.formulation.state
                      \/ UsesPartialLifting(p)
                         /\ policies[i].subject = "dirichlet_control_lifting"}
           first == IF I # {} THEN Min(I) ELSE 0
<1>1. FixedBoundary(p) = (IF first = 0 THEN Absent ELSE policies[first]).region
  BY DEF FixedBoundary, First, SelectInSeq
<1>2. I # {}
  <2>1. Absent.region = "?"
    BY DEF Absent
  <2>2. QED
    BY <1>1, <2>1
<1>3. I \subseteq 1 .. Len(policies) /\ 1 .. Len(policies) = DOMAIN policies
      /\ Len(policies) \in Nat
  BY DEF Vector
<1>4. first \in I
  <2> HIDE DEF I
  <2>1. I \in SUBSET Nat
    BY <1>3
  <2>2. QED
    BY <1>2, <2>1, MinOf
<1>5. first # 0
  <2> HIDE DEF I, first
  <2>1. QED
    BY <1>3, <1>4
<1>6. FixedBoundary(p) = policies[first].region
  BY <1>1, <1>5
<1>7. first \in StateFixedPolicies(p)
  <2> HIDE DEF first
  <2>1. QED
    BY <1>3, <1>4 DEF StateFixedPolicies
<1>8. QED
  BY <1>6, <1>7

\* The other scalar problems: the region that the request records is among those
\* that the plan fixes.
LEMMA ScalarFaces ==
  ASSUME NEW p, NEW r, NEW given, NEW mesh, NEW product, Closes(p, r),
         Passes(p, r, given, mesh, product), Validated(p),
         ~r.general_scalar, Model(r) = "scalar_components"
  PROVE  OneRole(p, r, mesh)
<1> DEFINE realised == Realisation(p, r)
           region == FixedRegionOf(p, r)
<1>1. ~r.dirichlet_control /\ ~r.neumann /\ ~r.mean_zero /\ ~r.partial_dirichlet
  <2>1. Combined(p, r)
    BY Combinations DEF Passes, LoweringNeeds
  <2>2. QED
    BY <2>1, FixedChecked DEF Combined, Model
<1>2. /\ realised.fixed = PlanFixedIds(p, r) /\ realised.controlled = {}
      /\ realised.terms = {t.kind : t \in Range(EquationTerms(p))}
  BY DEF Realisation
<1>3. realised.terms = {"diffusion_reaction", "volume_source", "volume_control"}
  <2>1. ~ScalarThrows(p, r, given)
    BY DEF Passes, ModelThrows
  <2>2. QED
    BY <1>2, <2>1 DEF ScalarThrows
<1>4. OffFixed(p, realised)
  BY <1>3 DEF OffFixed, BoundarySources
<1>5. IsBoundary(region) /\ BoundaryIds(region) \subseteq mesh.faces
  <2>1. DirichletIds(p, r) = BoundaryIds(region)
    BY <1>1 DEF DirichletIds, FixedIds
  <2>2. QED
    BY <1>1, <2>1, FixedChecked
<1>6. r.fixed_region # "?" /\ BoundaryIds(region) # {}
  <2>1. PICK fullVolume : StructuralReport(p, fullVolume) = {}
    BY DEF Validated
  <2>2. Graph(p) /\ Indexes(p)
    BY <2>1, Indexing DEF Validated, StructuralReport
  <2>3. QED
    BY <1>5, <2>2, BoundaryFound DEF FixedRegionOf, IsBoundary
<1>7. PICK i \in StateFixedPolicies(p) : p.requirement_policies[i].region = r.fixed_region
  <2>1. ~UsesPartialLifting(p) /\ r.fixed_region = FixedBoundary(p)
    BY <1>1 DEF Closes, Describes
  <2>2. Vector(p.requirement_policies)
    BY DEF Validated, Graph, ComponentKinds
  <2>3. QED
    BY <1>6, <2>1, <2>2, FixedByPolicy
<1>8. BoundaryIds(region) \subseteq PlanFixedIds(p, r)
  BY <1>7 DEF PlanFixedIds, FixedRegionOf
<1>9. QED
  BY <1>1, <1>2, <1>4, <1>5, <1>6, <1>8 DEF OneRole

\* What passed every stage, by the model that realises it.
LEMMA FacesByModel ==
  ASSUME NEW p, NEW r, NEW given, NEW mesh, NEW product, Closes(p, r),
         Passes(p, r, given, mesh, product), Validated(p)
  PROVE  OneRole(p, r, mesh)
<1>1. Model(r) # "none"
  BY Modelled
<1>2. CASE Model(r) = "neumann_boundary"
  <2>1. r.neumann
    BY <1>2 DEF Model
  <2>2. QED
    BY <2>1, NeumannFaces
<1>3. CASE Model(r) = "dirichlet_lifting"
  BY <1>3, DirichletFaces
<1>4. CASE Model(r) \in {"continuous_control", "coefficient_identification"}
  BY <1>4, VolumeFaces
<1>5. CASE Model(r) = "scalar_components"
  BY <1>5, RobinFaces, ScalarFaces
<1>6. QED
  BY <1>1, <1>2, <1>3, <1>4, <1>5 DEF Model

\* So for every compiled problem of the program's types.
LEMMA CompiledFaces ==
  ASSUME Derived, Compiled, Graph(input.problem)
  PROVE  OneRole(input.problem, Request(input.problem), input.mesh)
<1>1. {} \in Reports(input.problem)
  BY CompiledInput
<1>2. Validated(input.problem)
  BY <1>1 DEF Reports, Validated
<1>3. QED
  BY <1>2, CompiledInput, FacesByModel

\* On every problem of the program's types that compiles: no face is fixed and
\* controlled, the controlled faces exist, the state is pinned, and a boundary source
\* acts off the fixed faces as long as validator and compiler agree on which those are.
THEOREM FacesCorrect ==
  ASSUME Authoring
  PROVE  Spec => []FacesHaveOneRole
<1>1. Init => Graph(input.problem)
  BY Authoring DEF Init, Authoring
<1>2. Graph(input.problem) /\ [Next]_vars => Graph(input.problem)'
  BY Authoring DEF Authoring, Next, Author, Slip, Compile, vars
<1>3. Derived /\ Graph(input.problem) => FacesHaveOneRole
  <2>1. SUFFICES ASSUME Derived, Graph(input.problem), Compiled PROVE FacesHaveOneRole
    BY DEF FacesHaveOneRole
  <2>2. OneRole(input.problem, Request(input.problem), input.mesh)
    BY <2>1, CompiledFaces
  <2>3. QED
    BY <2>1, <2>2, CompiledInput DEF FacesHaveOneRole, OneRole
<1>4. QED
  BY <1>1, <1>2, <1>3, Derivation, PTL DEF Spec

-----------------------------------------------------------------------------
(* The objective.                                                          *)

\* The component at the least of some positions.
FirstIn(components, I) ==
  LET i == IF I # {} THEN Min(I) ELSE 0
  IN  IF i = 0 THEN Absent ELSE components[i]

\* A search finds nothing, or a component that passes its test.
LEMMA FirstFound ==
  ASSUME NEW components, Vector(components), NEW I \in SUBSET (1 .. Len(components))
  PROVE  \/ I = {} /\ FirstIn(components, I) = Absent
         \/ \E i \in I : FirstIn(components, I) = components[i]
<1>1. CASE I = {}
  BY <1>1 DEF FirstIn
<1>2. CASE I # {}
  <2>1. I \in SUBSET Nat
    BY DEF Vector
  <2>2. Min(I) \in I
    BY <1>2, <2>1, MinOf
  <2>3. Min(I) # 0
    BY <2>2
  <2>4. FirstIn(components, I) = components[Min(I)]
    BY <1>2, <2>3 DEF FirstIn
  <2>5. QED
    BY <2>2, <2>4
<1>3. QED
  BY <1>1, <1>2

LEMMA FirstOnly ==
  ASSUME NEW components, Vector(components), NEW k \in DOMAIN components
  PROVE  FirstIn(components, {k}) = components[k]
<1>1. {k} \in SUBSET (1 .. Len(components))
  BY DEF Vector
<1>2. QED
  BY <1>1, FirstFound

\* Which kind of regularisation the losses must be completed with.
ControlLoss(r) ==
  IF r.coefficient_identification THEN "quadratic_parameter_regularisation"
  ELSE IF r.hhalf_loss THEN "quadratic_hhalf_control_regularisation"
  ELSE IF r.h1_loss THEN "quadratic_h1_control_regularisation"
  ELSE "quadratic_control_regularisation"

\* The two losses of a problem that passed: where each of them is.
Weighs(p, r, t, o) ==
  /\ DOMAIN p.losses = {t, o} /\ t # o
  /\ p.losses[t].kind = "quadratic_tracking"
  /\ p.losses[o].kind = ControlLoss(r)
  /\ First(p.losses, LAMBDA l : l.kind = "quadratic_tracking") = p.losses[t]
  /\ First(p.losses, LAMBDA l : l.kind # "quadratic_tracking") = p.losses[o]

\* One loss tracks, the other regularises.
LEMMA TwoLosses ==
  ASSUME NEW p, NEW r, Vector(p.losses), LossesComplete(p, r)
  PROVE  \E t, o \in DOMAIN p.losses : Weighs(p, r, t, o)
<1> DEFINE losses == p.losses
           T == {i \in DOMAIN losses : losses[i].kind = "quadratic_tracking"}
           O == {i \in DOMAIN losses : losses[i].kind = ControlLoss(r)}
<1>1. /\ Len(losses) = 2
      /\ Cardinality(T) = 1 /\ Cardinality(O) = 1
  BY DEF LossesComplete, ControlLoss
<1>2. DOMAIN losses = {1, 2} /\ DOMAIN losses = 1 .. Len(losses)
  BY <1>1 DEF Vector
<1>3. ControlLoss(r) # "quadratic_tracking"
  BY DEF ControlLoss
<1>4. IsFiniteSet(T) /\ IsFiniteSet(O)
  <2>1. Len(losses) \in Nat
    BY DEF Vector
  <2>2. IsFiniteSet(1 .. Len(losses))
    BY <2>1, FS_Interval
  <2>3. QED
    BY <1>2, <2>2, FS_Subset
<1>5. PICK t : T = {t}
  <2> HIDE DEF T
  <2>1. QED
    BY <1>1, <1>4, FS_Singleton
<1>6. PICK o : O = {o}
  <2> HIDE DEF O
  <2>1. QED
    BY <1>1, <1>4, FS_Singleton
<1>7. /\ t \in DOMAIN losses /\ losses[t].kind = "quadratic_tracking"
      /\ o \in DOMAIN losses /\ losses[o].kind = ControlLoss(r)
  BY <1>5, <1>6
<1>8. t # o /\ DOMAIN losses = {t, o}
  BY <1>2, <1>3, <1>7
<1>9. First(losses, LAMBDA l : l.kind = "quadratic_tracking") = losses[t]
  <2> DEFINE I == {i \in 1 .. Len(losses) : losses[i].kind = "quadratic_tracking"}
  <2>1. I = {t}
    BY <1>2, <1>5
  <2>2. First(losses, LAMBDA l : l.kind = "quadratic_tracking") = FirstIn(losses, I)
    BY DEF First, SelectInSeq, FirstIn
  <2> HIDE DEF I
  <2>3. FirstIn(losses, I) = losses[t]
    BY <1>7, <2>1, FirstOnly
  <2>4. QED
    BY <2>2, <2>3
<1>10. First(losses, LAMBDA l : l.kind # "quadratic_tracking") = losses[o]
  <2> DEFINE I == {i \in 1 .. Len(losses) : losses[i].kind # "quadratic_tracking"}
  <2>1. I = {o}
    BY <1>2, <1>3, <1>7, <1>8
  <2>2. First(losses, LAMBDA l : l.kind # "quadratic_tracking") = FirstIn(losses, I)
    BY DEF First, SelectInSeq, FirstIn
  <2> HIDE DEF I
  <2>3. FirstIn(losses, I) = losses[o]
    BY <1>7, <2>1, FirstOnly
  <2>4. QED
    BY <2>2, <2>3
<1>11. QED
  BY <1>7, <1>8, <1>9, <1>10 DEF Weighs

-----------------------------------------------------------------------------
\* A problem in which both halves of the validation find no fault.
Accepted(p) ==
  /\ Graph(p)
  /\ \E fullVolume : StructuralReport(p, fullVolume) = {}
  /\ PolicyReport(p) = {}

\* What the validator checks of an observation.
ObservationChecked(p, o) ==
  /\ o.id # "?"
  /\ o.kind \in ObservedKinds \ {"unspecified"}
  /\ Present(At(p.regions, o.region))
  /\ At(p.regions, o.region).kind = ObservedRegionKind(o.kind)
  /\ o.kind \in StateObservations \cup {"h1_state_restriction", "point_sensor"}
       => At(p.variables, o.input).role = "state"
  /\ o.kind = "boundary_restriction" => At(p.variables, o.input).role = "control"
  /\ o.kind = "h1_state_restriction" => Topology(p, o.output) = "h1"

LEMMA CheckedObservation ==
  ASSUME NEW p, Graph(p), Indexes(p), EnumFaults(p) = {}, ObservationFaults(p) = {},
         NEW i \in DOMAIN p.observations
  PROVE  ObservationChecked(p, p.observations[i])
<1> DEFINE o == p.observations[i]
           entry == At(p.variables, o.input)
           output == At(p.spaces, o.output)
           region == At(p.regions, o.region)
<1>1. ObservationChecks(p, o) = {}
  BY DEF ObservationFaults, ForEach
<1>2. "observations" \in ComponentKinds
  BY DEF ComponentKinds
<1>3. o.id # "?" /\ o.kind \in ObservedKinds
  BY <1>2 DEF Graph
<1>4. o.kind # "unspecified"
  <2>1. Unspecified(p["observations"], "observations") = {}
    BY <1>2 DEF EnumFaults
  <2>2. "kind" \in RequiredMembers("observations")
    BY DEF RequiredMembers
  <2>3. Structural(o.kind = "unspecified", o.id, "kind") = {}
    BY <2>1, <2>2 DEF Unspecified
  <2>4. QED
    BY <2>3, Quiet
<1> HIDE DEF o
<1>5. /\ Structural(~Present(region), o.id, "observation_region_port") = {}
      /\ Structural(/\ Present(region) /\ region.kind # ObservedRegionKind(o.kind),
                    o.id, "observation_region_kind") = {}
      /\ InputFaults(p, o) = {} /\ OutputFaults(p, o) = {}
  BY <1>1 DEF ObservationChecks
<1>6. Present(region) /\ region.kind = ObservedRegionKind(o.kind)
  <2>1. Present(region)
    BY <1>5, Quiet DEF Present
  <2>2. ~(Present(region) /\ region.kind # ObservedRegionKind(o.kind))
    BY <1>5, Quiet
  <2>3. QED
    BY <2>1, <2>2
<1>7. ASSUME o.kind \in StateObservations \cup {"h1_state_restriction", "point_sensor"}
      PROVE  entry.role = "state"
  <2>1. /\ Structural(o.kind = "h1_state_restriction" /\ entry.role # "state", o.id,
                      "h1_state_restriction_state_input") = {}
        /\ Structural(o.kind \in StateObservations /\ entry.role # "state", o.id,
                      "boundary_trace_state_input") = {}
        /\ Structural(o.kind = "point_sensor" /\ entry.role # "state", o.id,
                      "point_sensor_state_input") = {}
    BY <1>5 DEF InputFaults
  <2>2. QED
    BY <1>7, <2>1, Quiet
<1>8. o.kind = "boundary_restriction" => entry.role = "control"
  <2>1. Structural(o.kind = "boundary_restriction" /\ entry.role # "control", o.id,
                   "boundary_restriction_control_input") = {}
    BY <1>5 DEF InputFaults
  <2>2. QED
    BY <2>1, Quiet
<1>9. ASSUME o.kind = "h1_state_restriction" PROVE Topology(p, o.output) = "h1"
  <2>1. /\ Structural(~Present(output), o.id, "observation_output_space") = {}
        /\ Structural(Present(output) /\ output.role # "observation", o.id,
                      "observation_output_space_role") = {}
        /\ Structural(/\ output.role = "observation" /\ output.region # o.region,
                      o.id, "observation_output_region") = {}
        /\ Structural(/\ output.role = "observation" /\ output.region = o.region
                      /\ o.kind = "h1_state_restriction" /\ output.topology # "h1",
                      o.id, "h1_state_restriction_output_topology") = {}
    BY <1>5 DEF OutputFaults
  <2>2. Present(output)
    BY <2>1, Quiet DEF Present
  <2>3. output.role = "observation"
    BY <2>1, <2>2, Quiet
  <2>4. output.region = o.region
    BY <2>1, <2>3, Quiet
  <2>5. output.topology = "h1"
    BY <1>9, <2>1, <2>3, <2>4, Quiet
  <2>6. QED
    BY <2>5 DEF Topology
<1>10. ObservationChecked(p, o)
  BY <1>3, <1>4, <1>6, <1>7, <1>8, <1>9 DEF ObservationChecked
<1>11. QED
  BY <1>10 DEF o

\* What the validator establishes of the parts of an objective.
Checked(p) ==
  /\ \A kind \in {"regions", "spaces", "variables", "observations", "losses", "metrics"} :
       Identified(p[kind])
  /\ \A i \in DOMAIN p.observations : ObservationChecked(p, p.observations[i])
  /\ \A i \in DOMAIN p.losses :
       p.losses[i].id # "?" /\ p.losses[i].observation \in Ids(p.observations)
  /\ \A i \in DOMAIN p.regions :
       p.regions[i].kind \in {"boundary", "point_set"} => ~p.regions[i].full
  /\ State(p).role = "state" /\ Control(p).role \in DecisionRoles
  /\ Present(SelectedMetric(p))
  /\ SelectedMetric(p).kind \in MetricKinds \ {"unspecified"}
  /\ SelectedMetric(p).variable = p.formulation.control

\* A region of the boundary or of points is not the full domain.
LEMMA PartialRegions ==
  ASSUME NEW p, RegionFaults(p) = {}, NEW i \in DOMAIN p.regions,
         p.regions[i].kind \in {"boundary", "point_set"}
  PROVE  ~p.regions[i].full
<1> DEFINE r == p.regions[i]
<1>0. RegionChecks(r) = {}
  BY DEF RegionFaults, ForEach
<1> HIDE DEF r
<1>1. Structural(r.kind = "boundary" /\ r.full, r.id,
                 "boundary_region_is_not_full_domain") = {}
  BY <1>0 DEF RegionChecks
<1>10. r.kind = "point_set" => PointFaults(r) = {}
  BY <1>0 DEF RegionChecks
<1>2. ASSUME r.kind = "boundary" PROVE ~r.full
  BY <1>1, <1>2, Quiet
<1>3. ASSUME r.kind = "point_set" PROVE ~r.full
  <2>1. Structural(r.full \/ r.boundary_ids # <<>> \/ r.material_ids # <<>>, r.id,
                   "point_set_region_geometry") = {}
    BY <1>10, <1>3 DEF PointFaults
  <2>2. QED
    BY <2>1, Quiet
<1>4. QED
  BY <1>2, <1>3 DEF r

LEMMA CheckedProblem ==
  ASSUME NEW p, Accepted(p)
  PROVE  Checked(p)
<1>1. PICK fullVolume : StructuralReport(p, fullVolume) = {}
  BY DEF Accepted
<1>2. /\ Graph(p) /\ IndexFaults(p) = {} /\ EnumFaults(p) = {} /\ RegionFaults(p) = {}
      /\ ObservationFaults(p) = {} /\ LossFaults(p) = {} /\ FormulationFaults(p) = {}
  BY <1>1 DEF Accepted, StructuralReport
<1>3. Indexes(p)
  BY <1>2, Indexing
<1>4. \A kind \in {"regions", "spaces", "variables", "observations", "losses", "metrics"} :
        kind \in ComponentKinds /\ Identified(p[kind])
  BY <1>3 DEF Indexes, ComponentKinds
<1>5. \A i \in DOMAIN p.observations : ObservationChecked(p, p.observations[i])
  BY <1>2, <1>3, CheckedObservation
<1>6. \A i \in DOMAIN p.losses :
        p.losses[i].id # "?" /\ p.losses[i].observation \in Ids(p.observations)
  BY <1>2, <1>3, <1>4, LossPorts DEF Graph
<1>7. \A i \in DOMAIN p.regions :
        p.regions[i].kind \in {"boundary", "point_set"} => ~p.regions[i].full
  BY <1>2, PartialRegions
<1> DEFINE f == p.formulation
           metric == At(p.metrics, f.metric)
           control == At(p.variables, f.control)
<1>8. /\ Structural(At(p.variables, f.state).role # "state", f.id,
                    "formulation_state_variable") = {}
      /\ Structural(control.role \notin DecisionRoles, f.id,
                    "formulation_decision_variable") = {}
      /\ Structural(~Present(metric), f.id, "formulation_metric") = {}
      /\ Structural(/\ Present(metric) /\ Present(control) /\ metric.variable # f.control,
                    f.id, "formulation_metric_variable") = {}
  BY <1>2 DEF FormulationFaults
<1>9. At(p.variables, f.state).role = "state" /\ control.role \in DecisionRoles
  BY <1>8, Quiet
<1>10. Present(metric)
  BY <1>8, Quiet DEF Present
<1>11. Present(control)
  <2>1. control.role # "?"
    BY <1>9 DEF DecisionRoles
  <2>2. PICK k \in DOMAIN p.variables : control = p.variables[k]
    BY <1>4, <2>1, FoundAt
  <2>3. QED
    BY <1>2, <1>4, <2>2 DEF Graph, Present
<1>12. metric.variable = f.control
  BY <1>8, <1>10, <1>11, Quiet
<1>13. metric.kind \in MetricKinds \ {"unspecified"}
  <2>1. PICK k \in DOMAIN p.metrics : metric = p.metrics[k]
    BY <1>4, <1>10, FoundAt
  <2>2. p.metrics[k].kind \in MetricKinds
    BY <1>2 DEF Graph
  <2>3. p.metrics[k].kind # "unspecified"
    <3>1. Unspecified(p["metrics"], "metrics") = {}
      BY <1>2, <1>4 DEF EnumFaults
    <3>2. "kind" \in RequiredMembers("metrics")
      BY DEF RequiredMembers
    <3>3. Structural(p.metrics[k].kind = "unspecified", p.metrics[k].id, "kind") = {}
      BY <3>1, <3>2 DEF Unspecified
    <3>4. QED
      BY <3>3, Quiet
  <2>4. QED
    BY <2>1, <2>2, <2>3
<1>14. QED
  BY <1>4, <1>5, <1>6, <1>7, <1>9, <1>10, <1>12, <1>13
  DEF Checked, State, Control, SelectedMetric

\* A problem of one state and one decision: the variables of a role are the selected.
LEMMA SelectedVariables ==
  ASSUME NEW p, Checked(p), Len(p.variables) = 2, NEW id
  PROVE  /\ State(p).id = p.formulation.state /\ Control(p).id = p.formulation.control
         /\ p.formulation.state # p.formulation.control
         /\ At(p.variables, id).role = "state" => id = p.formulation.state
         /\ At(p.variables, id).role = "control" => id = p.formulation.control
<1> DEFINE variables == p.variables
<1>0. Identified(variables) /\ DOMAIN variables = 1 .. 2
  BY DEF Checked, Identified, Vector
<1>1. PICK s \in DOMAIN variables : variables[s].id = p.formulation.state
                                    /\ At(variables, p.formulation.state) = variables[s]
  BY <1>0, FoundAt DEF Checked, State
<1>2. PICK c \in DOMAIN variables : variables[c].id = p.formulation.control
                                    /\ At(variables, p.formulation.control) = variables[c]
  <2>1. At(variables, p.formulation.control).role # "?"
    BY DEF Checked, Control, DecisionRoles
  <2>2. QED
    BY <1>0, <2>1, FoundAt
<1>3. variables[s].role = "state" /\ variables[c].role \in {"control", "parameter"}
  BY <1>1, <1>2 DEF Checked, State, Control, DecisionRoles
<1>4. \A i \in DOMAIN variables : i = s \/ i = c
  BY <1>0, <1>1, <1>2, <1>3
<1>5. ASSUME At(variables, id).role \in {"state", "control"}
      PROVE  \E i \in DOMAIN variables : variables[i].id = id /\ At(variables, id) = variables[i]
  BY <1>0, <1>5, FoundAt
<1>6. QED
  BY <1>1, <1>2, <1>3, <1>4, <1>5, <1>0 DEF State, Control, Identified

\* The observation of a loss is one of the problem's.
LEMMA LossObserves ==
  ASSUME NEW p, Checked(p), NEW i \in DOMAIN p.losses
  PROVE  \E k \in DOMAIN p.observations :
           /\ p.observations[k].id = p.losses[i].observation
           /\ At(p.observations, p.losses[i].observation) = p.observations[k]
<1>1. PICK k \in DOMAIN p.observations : p.observations[k].id = p.losses[i].observation
  BY DEF Checked, Ids
<1>2. QED
  BY <1>1, Lookup DEF Checked

\* ObjectiveRealised of a problem and its request.
Minimises(p, r) ==
  LET realised == Realisation(p, r)
      tracking == First(p.losses, LAMBDA l : l.kind = "quadratic_tracking")
      other == First(p.losses, LAMBDA l : l.kind # "quadratic_tracking")
      tracked == At(p.observations, tracking.observation)
      regularised == At(p.observations, other.observation)
  IN  /\ \/ realised.observation = tracked.kind
         \/ realised.model \in UnmatchedModels /\ ~TracksOneObservation(p, tracking)
      /\ realised.model = "dirichlet_lifting" => tracked.input = p.formulation.state
      /\ realised.model \in {"dirichlet_lifting", "coefficient_identification"}
           => regularised.input = p.formulation.control
      /\ \/ LossKinds(p) = {"quadratic_tracking", realised.control_loss}
         \/ realised.model \in {"neumann_boundary", "continuous_control"} /\ r.hhalf_loss
      /\ realised.metric = SelectedMetric(p).kind

\* The same of its two losses, where they are known.
MinimisesBy(p, r, t, o) ==
  LET realised == Realisation(p, r)
      tracked == At(p.observations, p.losses[t].observation)
      regularised == At(p.observations, p.losses[o].observation)
  IN  /\ \/ realised.observation = tracked.kind
         \/ realised.model \in UnmatchedModels /\ ~TracksOneObservation(p, p.losses[t])
      /\ realised.model = "dirichlet_lifting" => tracked.input = p.formulation.state
      /\ realised.model \in {"dirichlet_lifting", "coefficient_identification"}
           => regularised.input = p.formulation.control
      /\ \/ realised.control_loss = ControlLoss(r)
         \/ realised.model \in {"neumann_boundary", "continuous_control"} /\ r.hhalf_loss
      /\ realised.metric = SelectedMetric(p).kind

LEMMA ByTheLosses ==
  ASSUME NEW p, NEW r, NEW t \in DOMAIN p.losses, NEW o \in DOMAIN p.losses,
         Weighs(p, r, t, o), MinimisesBy(p, r, t, o)
  PROVE  Minimises(p, r)
<1>1. LossKinds(p) = {"quadratic_tracking", ControlLoss(r)}
  BY DEF Weighs, LossKinds
<1>2. /\ First(p.losses, LAMBDA l : l.kind = "quadratic_tracking") = p.losses[t]
      /\ First(p.losses, LAMBDA l : l.kind # "quadratic_tracking") = p.losses[o]
  BY DEF Weighs
<1>3. QED
  BY <1>1, <1>2 DEF Minimises, MinimisesBy

\* What the lemmas below assume of a problem that is accepted and passed.
Admitted(p, r, t, o) ==
  /\ Checked(p) /\ PolicyReport(p) = {} /\ Len(p.variables) = 2
  /\ CombinationNeeds(p, r) = {} /\ GraphNeeds(p, r) = {}
  /\ Closes(p, r)
  /\ t \in DOMAIN p.losses /\ o \in DOMAIN p.losses /\ Weighs(p, r, t, o)

\* An observation of the full domain is one of the two kinds in the volume.
LEMMA VolumeTracking ==
  ASSUME NEW p, NEW r, NEW t, NEW o, Admitted(p, r, t, o), TracksDomain(p, r)
  PROVE  At(p.observations, p.losses[t].observation).kind
           \in {"volume_restriction", "h1_state_restriction"}
<1> DEFINE tracked == At(p.observations, p.losses[t].observation)
<1>1. Checked(p) /\ t \in DOMAIN p.losses
  BY DEF Admitted
<1>2. PICK k \in DOMAIN p.observations : tracked = p.observations[k]
  BY <1>1, LossObserves
<1>3. ObservationChecked(p, tracked)
  BY <1>1, <1>2 DEF Checked
<1>4. Present(p.losses[t])
  BY <1>1 DEF Checked, Present
<1>5. TrackingRegion(p) = At(p.regions, tracked.region)
  BY <1>4 DEF TrackingRegion, Admitted, Weighs
<1>6. Identified(p.regions)
  BY <1>1 DEF Checked
<1>7. Present(At(p.regions, tracked.region))
  BY <1>3 DEF ObservationChecked
<1>8. PICK m \in DOMAIN p.regions : At(p.regions, tracked.region) = p.regions[m]
  BY <1>6, <1>7, FoundAt
<1>9. TrackingRegionOf(p, r) = p.regions[m]
  <2>1. r.tracking_region = p.regions[m].id
    BY <1>5, <1>8 DEF Admitted, Closes, Describes
  <2>2. QED
    BY <1>6, <2>1, Lookup DEF TrackingRegionOf
<1>10. p.regions[m].kind \notin {"boundary", "point_set"}
  BY <1>1, <1>9 DEF Checked, TracksDomain
<1>11. ObservedRegionKind(tracked.kind) \notin {"boundary", "point_set"}
  BY <1>3, <1>8, <1>10 DEF ObservationChecked
<1>12. QED
  BY <1>3, <1>11 DEF ObservationChecked, ObservedRegionKind, ObservedKinds, StateObservations

\* The H1 observation is of the state, so it is tracked if only one of the state is.
LEMMA H1Tracked ==
  ASSUME NEW p, NEW r, NEW t, NEW o, Admitted(p, r, t, o), r.h1_state_observation,
         TracksOneObservation(p, p.losses[t])
  PROVE  At(p.observations, p.losses[t].observation).kind = "h1_state_restriction"
<1>1. Checked(p) /\ Len(p.variables) = 2 /\ Identified(p.observations)
  BY DEF Admitted, Checked
<1>2. PICK k \in DOMAIN p.observations : p.observations[k].kind = "h1_state_restriction"
  BY DEF Admitted, Closes, Describes, ObservationKinds
<1>3. p.observations[k].input = p.formulation.state
  <2>1. At(p.variables, p.observations[k].input).role = "state"
    BY <1>1, <1>2 DEF Checked, ObservationChecked
  <2>2. QED
    BY <1>1, <2>1, SelectedVariables
<1>4. p.observations[k].id = p.losses[t].observation
  BY <1>3 DEF TracksOneObservation
<1>5. At(p.observations, p.losses[t].observation) = p.observations[k]
  BY <1>1, <1>4, Lookup
<1>6. QED
  BY <1>2, <1>5

\* Without one, none is.
LEMMA H1Untracked ==
  ASSUME NEW p, NEW r, NEW t, NEW o, Admitted(p, r, t, o), ~r.h1_state_observation
  PROVE  At(p.observations, p.losses[t].observation).kind # "h1_state_restriction"
<1>1. Checked(p) /\ t \in DOMAIN p.losses
  BY DEF Admitted
<1>2. PICK k \in DOMAIN p.observations :
        At(p.observations, p.losses[t].observation) = p.observations[k]
  BY <1>1, LossObserves
<1>3. "h1_state_restriction" \notin ObservationKinds(p)
  BY DEF Admitted, Closes, Describes
<1>4. QED
  BY <1>2, <1>3 DEF ObservationKinds

\* A search space of the topology H1 has no H1/2 metric.
LEMMA HhalfSpace ==
  ASSUME NEW p, NEW r, NEW t, NEW o, Admitted(p, r, t, o),
         SelectedMetric(p).kind = "hhalf"
  PROVE  Topology(p, Control(p).space) = "hhalf"
<1> DEFINE m == SelectedMetric(p)
<1>1. PICK k \in DOMAIN p.metrics : SelectedMetric(p) = p.metrics[k]
  BY FoundAt DEF Admitted, Checked, SelectedMetric
<1>2. HhalfMetricFaults(p, p.metrics[k]) = {}
  BY <1>1 DEF Admitted, PolicyReport, MetricPolicyFaults, ForEach
<1>3. Structural(Topology(p, SearchSpace(p, m)) # "hhalf", m.id,
                 "hhalf_metric_search_space") = {}
  BY <1>1, <1>2 DEF HhalfMetricFaults
<1>4. Topology(p, SearchSpace(p, m)) = "hhalf"
  BY <1>3, Quiet
<1>5. QED
  BY <1>4 DEF SearchSpace, Control, Admitted, Checked

\* Which features a model rules out.
LEMMA ModelFeatures ==
  ASSUME NEW p, NEW r, NEW t, NEW o, Admitted(p, r, t, o)
  PROVE  /\ Model(r) = "neumann_boundary" => r.neumann
         /\ r.neumann => ~r.dirichlet_control /\ ~r.h1_loss /\ ~r.coefficient_identification
         /\ Model(r) = "dirichlet_lifting" => r.dirichlet_control
         /\ Model(r) = "continuous_control" =>
              /\ r.h1_regularisation \/ r.continuous_control
              /\ ~r.coefficient_identification
              /\ r.h1_loss <=> r.h1_regularisation
         /\ Model(r) = "coefficient_identification" =>
              r.coefficient_identification /\ ~r.neumann /\ ~r.dirichlet_control
         /\ Model(r) = "scalar_components" =>
              ~r.neumann /\ ~r.dirichlet_control /\ ScalarTarget(r)
<1>1. Combined(p, r)
  BY Combinations DEF Admitted
<1>2. r.h1_regularisation = (r.h1_loss /\ ~r.dirichlet_control)
  BY DEF Admitted, Closes
<1>3. QED
  BY <1>1, <1>2 DEF Model, Combined

\* A control of the topology H1: what the checks of its features leave.
LEMMA ContinuousObjective ==
  ASSUME NEW p, NEW r, NEW t, NEW o, Admitted(p, r, t, o), Model(r) = "continuous_control"
  PROVE  MinimisesBy(p, r, t, o)
<1> DEFINE realised == Realisation(p, r)
           tracked == At(p.observations, p.losses[t].observation)
<1>1. /\ r.h1_regularisation \/ r.continuous_control
      /\ ~r.coefficient_identification
      /\ r.h1_loss <=> r.h1_regularisation
  BY ModelFeatures
<1>2. /\ realised.model = "continuous_control"
      /\ realised.observation = IF r.h1_state_observation THEN "h1_state_restriction"
                                ELSE "volume_restriction"
      /\ realised.control_loss = IF r.h1_regularisation
                                 THEN "quadratic_h1_control_regularisation"
                                 ELSE "quadratic_control_regularisation"
      /\ realised.metric = IF r.metric \in {"hminus1", "h1"} THEN r.metric ELSE "l2"
  BY DEF Realisation
<1>3. TracksDomain(p, r) /\ Topology(p, Control(p).space) = "h1"
  <2>1. CombinationNeeds(p, r) = {}
    BY DEF Admitted
  <2>2. CASE r.h1_regularisation
    <3>1. H1RegularisationNeeds(p, r) = {}
      BY <2>1, <2>2 DEF CombinationNeeds
    <3>2. QED
      BY <3>1 DEF H1RegularisationNeeds, Need
  <2>3. CASE r.continuous_control
    <3>1. ContinuousControlNeeds(p, r) = {}
      BY <2>1, <2>3 DEF CombinationNeeds
    <3>2. UsesContinuousControl(p)
      BY <2>3 DEF Admitted, Closes, Describes
    <3>3. QED
      BY <3>1, <3>2 DEF ContinuousControlNeeds, Need, UsesContinuousControl
  <2>4. QED
    BY <1>1, <2>2, <2>3
<1>4. \/ realised.observation = tracked.kind
      \/ ~TracksOneObservation(p, p.losses[t])
  BY <1>2, <1>3, VolumeTracking, H1Tracked, H1Untracked
<1>5. \/ realised.control_loss = ControlLoss(r)
      \/ r.hhalf_loss
  BY <1>1, <1>2 DEF ControlLoss
<1>6. realised.metric = SelectedMetric(p).kind
  <2>1. SelectedMetric(p).kind \in {"l2", "hhalf", "h1", "hminus1"}
    BY DEF Admitted, Checked, MetricKinds
  <2>2. SelectedMetric(p).kind # "hhalf"
    BY <1>3, HhalfSpace
  <2>3. r.metric = SelectedMetric(p).kind
    BY DEF Admitted, Closes, Describes
  <2>4. QED
    BY <1>2, <2>1, <2>2, <2>3
<1>7. QED
  BY <1>2, <1>4, <1>5, <1>6 DEF MinimisesBy, UnmatchedModels

\* A search by component: the identifier leads back to what was found.
LEMMA FoundBack ==
  ASSUME NEW components, Identified(components), NEW I \in SUBSET (1 .. Len(components)),
         Present(FirstIn(components, I))
  PROVE  \E i \in I : /\ FirstIn(components, I) = components[i]
                      /\ At(components, components[i].id) = components[i]
<1>0. Vector(components)
  BY DEF Identified
<1>01. ~Present(Absent)
  BY DEF Present, Absent
<1>1. PICK i \in I : FirstIn(components, I) = components[i]
  BY <1>0, <1>01, FirstFound
<1>2. i \in DOMAIN components
  BY DEF Identified, Vector
<1>3. QED
  BY <1>1, <1>2, Lookup

\* A coefficient: its own checks tie the loss to the observation of the parameter.
LEMMA CoefficientObjective ==
  ASSUME NEW p, NEW r, NEW t, NEW o, Admitted(p, r, t, o),
         Model(r) = "coefficient_identification"
  PROVE  MinimisesBy(p, r, t, o)
<1> DEFINE realised == Realisation(p, r)
           tracked == At(p.observations, p.losses[t].observation)
           regularised == At(p.observations, p.losses[o].observation)
           observed == First(p.observations, LAMBDA c :
                         /\ c.kind = "volume_restriction"
                         /\ c.input = p.formulation.control)
           loss == First(p.losses, LAMBDA l :
                     l.kind = "quadratic_parameter_regularisation")
<1>1. r.coefficient_identification
  BY ModelFeatures
<1>2. /\ realised.model = "coefficient_identification"
      /\ realised.observation = "volume_restriction"
      /\ realised.control_loss = "quadratic_parameter_regularisation"
      /\ realised.metric = "l2"
  BY DEF Realisation
<1>3. CombinationNeeds(p, r) = {} /\ ParameterNeeds(p) = {}
  BY <1>1 DEF Admitted, GraphNeeds
<1>4. TracksDomain(p, r)
  <2>1. CoefficientNeeds(p, r) = {}
    BY <1>1, <1>3 DEF CombinationNeeds
  <2>2. QED
    BY <2>1 DEF CoefficientNeeds, Need
<1>5. ~r.h1_state_observation
  <2>1. SUFFICES ASSUME r.h1_state_observation PROVE FALSE
    OBVIOUS
  <2>2. H1ObservationNeeds(p, r) = {}
    BY <1>3, <2>1 DEF CombinationNeeds
  <2>3. QED
    BY <1>1, <2>2 DEF H1ObservationNeeds, Need
<1>6. realised.observation = tracked.kind
  BY <1>2, <1>4, <1>5, VolumeTracking, H1Untracked
<1>7. realised.control_loss = ControlLoss(r)
  BY <1>1, <1>2 DEF ControlLoss
<1>8. /\ SelectedMetric(p).kind = "l2"
      /\ Present(observed) /\ Present(loss) /\ loss.observation = observed.id
  BY <1>3 DEF ParameterNeeds, Need
<1>9. loss = p.losses[o]
  <2> DEFINE I == {i \in 1 .. Len(p.losses) :
                     p.losses[i].kind = "quadratic_parameter_regularisation"}
  <2>1. loss = FirstIn(p.losses, I)
    BY DEF First, SelectInSeq, FirstIn
  <2>2. Vector(p.losses)
    BY DEF Admitted, Checked, Identified
  <2>3. I = {o}
    BY <1>1, <2>2 DEF Admitted, Weighs, ControlLoss, Vector
  <2>4. QED
    BY <2>1, <2>2, <2>3, FirstOnly DEF Admitted
<1>10. regularised.input = p.formulation.control
  <2> DEFINE I == {i \in 1 .. Len(p.observations) :
                     /\ p.observations[i].kind = "volume_restriction"
                     /\ p.observations[i].input = p.formulation.control}
  <2>1. observed = FirstIn(p.observations, I)
    BY DEF First, SelectInSeq, FirstIn
  <2>2. Identified(p.observations)
    BY DEF Admitted, Checked
  <2>3. PICK i \in I : /\ observed = p.observations[i]
                       /\ At(p.observations, p.observations[i].id) = p.observations[i]
    <3> HIDE DEF observed, I
    <3>1. I \in SUBSET (1 .. Len(p.observations))
      BY DEF I
    <3>2. QED
      BY <1>8, <2>1, <2>2, <3>1, FoundBack
  <2>4. regularised = p.observations[i]
    BY <1>8, <1>9, <2>3
  <2>5. QED
    BY <2>3, <2>4
<1>11. QED
  BY <1>2, <1>6, <1>7, <1>8, <1>10 DEF MinimisesBy

\* The place of a component that was found, in a pair.
LEMMA PairPlaces ==
  ASSUME NEW components, Vector(components), Len(components) = 2,
         NEW i \in DOMAIN components, NEW j \in DOMAIN components, i # j
  PROVE  \A k \in DOMAIN components : k = i \/ k = j
BY DEF Vector

\* The loss that observes the state, in a pair of which the other observes the control.
LEMMA PairTracked ==
  ASSUME NEW p, NEW r, NEW t, NEW o, Admitted(p, r, t, o), Len(p.observations) = 2,
         NEW i \in DOMAIN p.observations, NEW j \in DOMAIN p.observations, i # j,
         p.observations[j].input = p.formulation.control,
         TracksOneObservation(p, p.losses[t])
  PROVE  At(p.observations, p.losses[t].observation) = p.observations[i]
<1>1. Checked(p) /\ Vector(p.observations) /\ t \in DOMAIN p.losses
  BY DEF Admitted, Checked, Identified
<1>2. PICK k \in DOMAIN p.observations :
        /\ p.observations[k].id = p.losses[t].observation
        /\ At(p.observations, p.losses[t].observation) = p.observations[k]
  BY <1>1, LossObserves
<1>3. p.observations[k].input = p.formulation.state
  BY <1>2 DEF TracksOneObservation
<1>4. p.formulation.state # p.formulation.control
  BY <1>1, SelectedVariables DEF Admitted
<1>5. k # j
  BY <1>3, <1>4
<1>6. k = i
  BY <1>1, <1>5, PairPlaces
<1>7. QED
  BY <1>2, <1>6

\* A Neumann control: the pair of observations, and the selection of the control.
LEMMA NeumannObjective ==
  ASSUME NEW p, NEW r, NEW t, NEW o, Admitted(p, r, t, o), Model(r) = "neumann_boundary"
  PROVE  MinimisesBy(p, r, t, o)
<1> DEFINE realised == Realisation(p, r)
           tracked == At(p.observations, p.losses[t].observation)
           kind == IF r.neumann_convection THEN "volume_restriction"
                   ELSE IF r.weighted_trace THEN "weighted_boundary_trace"
                   ELSE "boundary_trace"
           onState == First(p.observations, LAMBDA c : c.kind = kind)
           onControl == First(p.observations, LAMBDA c : c.kind = "boundary_restriction")
<1>1. r.neumann /\ ~r.h1_loss /\ ~r.coefficient_identification
  BY ModelFeatures
<1>2. /\ realised.model = "neumann_boundary"
      /\ realised.observation = kind
      /\ realised.control_loss = "quadratic_control_regularisation"
      /\ realised.metric = "l2"
  BY DEF Realisation
<1>3. /\ Len(p.observations) = 2
      /\ Present(ObservationPair(p, r)[1]) /\ Present(ObservationPair(p, r)[2])
  <2>1. PairNeeds(p, r) = {}
    BY <1>1 DEF Admitted, GraphNeeds, ObservationNeeds
  <2>2. QED
    BY <2>1 DEF PairNeeds, Need
<1>4. ObservationPair(p, r)[1] = onState /\ ObservationPair(p, r)[2] = onControl
  BY <1>1 DEF ObservationPair
<1>5. Identified(p.observations)
  BY DEF Admitted, Checked
<1>6. PICK i \in DOMAIN p.observations : p.observations[i].kind = kind
  <2> DEFINE I == {i \in 1 .. Len(p.observations) : p.observations[i].kind = kind}
  <2>1. onState = FirstIn(p.observations, I)
    BY DEF First, SelectInSeq, FirstIn
  <2> HIDE DEF onState
  <2>2. I \in SUBSET (1 .. Len(p.observations)) /\ I \subseteq DOMAIN p.observations
    BY <1>5 DEF Identified, Vector
  <2>3. \A i \in I : p.observations[i].kind = kind
    OBVIOUS
  <2> HIDE DEF I
  <2>4. QED
    BY <1>3, <1>4, <1>5, <2>1, <2>2, <2>3, FoundBack
<1>7. PICK j \in DOMAIN p.observations : p.observations[j].kind = "boundary_restriction"
  <2> DEFINE I == {n \in 1 .. Len(p.observations) :
                     p.observations[n].kind = "boundary_restriction"}
  <2>1. onControl = FirstIn(p.observations, I)
    BY DEF First, SelectInSeq, FirstIn
  <2> HIDE DEF onControl
  <2>2. I \in SUBSET (1 .. Len(p.observations)) /\ I \subseteq DOMAIN p.observations
    BY <1>5 DEF Identified, Vector
  <2>3. \A n \in I : p.observations[n].kind = "boundary_restriction"
    OBVIOUS
  <2> HIDE DEF I
  <2>4. QED
    BY <1>3, <1>4, <1>5, <2>1, <2>2, <2>3, FoundBack
<1>8. p.observations[j].input = p.formulation.control
  <2>1. At(p.variables, p.observations[j].input).role = "control"
    BY <1>7 DEF Admitted, Checked, ObservationChecked
  <2>2. QED
    BY <2>1, SelectedVariables DEF Admitted
<1>9. \/ realised.observation = tracked.kind
      \/ ~TracksOneObservation(p, p.losses[t])
  BY <1>2, <1>3, <1>6, <1>7, <1>8, PairTracked
<1>10. \/ realised.control_loss = ControlLoss(r)
       \/ r.hhalf_loss
  BY <1>1, <1>2 DEF ControlLoss
<1>11. SelectedMetric(p).kind = "l2"
  <2>1. PICK k \in DOMAIN p.residual_terms : p.residual_terms[k].kind = "neumann_control"
    BY <1>1 DEF Admitted, Closes, Describes, TermKinds
  <2> DEFINE term == p.residual_terms[k]
             policy == SelectedPolicy(p, term.id, "boundary_trace")
             s == policy.selections["neumann_control"]
             metric == At(p.metrics, s.metric)
  <2>2. NeumannTermFaults(p, term) = {}
    BY <2>1 DEF Admitted, PolicyReport, NeumannControlFaults, ForEach
  <2> HIDE DEF term
  <2>3. term.kind = "neumann_control"
    BY <2>1 DEF term
  <2>4. NeumannSelectionFaults(p, term, policy) = {}
    BY <2>2, <2>3 DEF NeumannTermFaults, Analytical
  <2>5. Structural(~(/\ metric.kind = "l2"
                     /\ s.metric = p.formulation.metric
                     /\ metric.variable = s.control),
                   term.id, "neumann_control_realisation_metric") = {}
    BY <2>4 DEF NeumannSelectionFaults
  <2>6. metric.kind = "l2" /\ s.metric = p.formulation.metric
    BY <2>5, Quiet
  <2>7. QED
    BY <2>6 DEF SelectedMetric
<1>12. QED
  BY <1>2, <1>9, <1>10, <1>11 DEF MinimisesBy, UnmatchedModels

\* A control in the volume: the plan lowers few kinds, and a sensor or a flux
\* comes in a pair.
LEMMA ScalarObjective ==
  ASSUME NEW p, NEW r, NEW t, NEW o, NEW given, NEW mesh, NEW product,
         Admitted(p, r, t, o), Passes(p, r, given, mesh, product),
         Model(r) = "scalar_components"
  PROVE  MinimisesBy(p, r, t, o)
<1> DEFINE realised == Realisation(p, r)
           tracked == At(p.observations, p.losses[t].observation)
<1>1. ~r.neumann /\ ~r.dirichlet_control /\ ScalarTarget(r)
  BY ModelFeatures
<1>2. /\ realised.model = "scalar_components"
      /\ realised.observation = IF r.point_sensor THEN "point_sensor"
                                ELSE IF r.normal_flux THEN "normal_flux"
                                ELSE IF r.h1_state_observation THEN "h1_state_restriction"
                                ELSE "volume_restriction"
      /\ realised.control_loss = "quadratic_control_regularisation"
      /\ realised.metric = "l2"
  BY DEF Realisation
<1>3. PlanNeeds(p, r) = {}
  BY <1>1 DEF Passes, BindingNeeds
<1>4. /\ \A i \in DOMAIN p.observations :
           p.observations[i].kind \in ScalarLowerers["observations"]
      /\ \A i \in DOMAIN p.losses : p.losses[i].kind \in ScalarLowerers["losses"]
      /\ \A i \in DOMAIN <<SelectedMetric(p)>> :
           <<SelectedMetric(p)>>[i].kind \in ScalarLowerers["metrics"]
  BY <1>3 DEF PlanNeeds, Need
<1>5. realised.control_loss = ControlLoss(r)
  <2>1. p.losses[o].kind \in {"quadratic_tracking", "quadratic_control_regularisation"}
    BY <1>4 DEF ScalarLowerers, Admitted
  <2>2. QED
    BY <1>2, <2>1 DEF Admitted, Weighs, ControlLoss
<1>6. SelectedMetric(p).kind = "l2"
  <2>1. SelectedMetric(p).kind \in {"l2"}
    BY <1>4 DEF ScalarLowerers
  <2>2. QED
    BY <2>1
<1>7. Identified(p.observations) /\ Checked(p)
  BY DEF Admitted, Checked
<1>8. CASE r.point_sensor \/ r.normal_flux
  <2> DEFINE kind == IF r.normal_flux THEN "normal_flux" ELSE "point_sensor"
             onState == First(p.observations, LAMBDA c :
                          c.kind \in {kind} /\ c.input = p.formulation.state)
             onControl == First(p.observations, LAMBDA c :
                            /\ c.kind = "volume_restriction"
                            /\ c.input = p.formulation.control)
  <2>1. /\ Len(p.observations) = 2
        /\ Present(ObservationPair(p, r)[1]) /\ Present(ObservationPair(p, r)[2])
    <3>1. PairNeeds(p, r) = {}
      BY <1>8 DEF Admitted, GraphNeeds, ObservationNeeds
    <3>2. QED
      BY <3>1 DEF PairNeeds, Need
  <2>2. ObservationPair(p, r)[1] = onState /\ ObservationPair(p, r)[2] = onControl
    <3>1. CASE r.normal_flux
      BY <1>1, <3>1 DEF ObservationPair
    <3>2. CASE ~r.normal_flux
      BY <1>1, <3>2 DEF ObservationPair
    <3>3. QED
      BY <3>1, <3>2
  <2>3. PICK i \in DOMAIN p.observations : p.observations[i].kind = kind
    <3> DEFINE I == {i \in 1 .. Len(p.observations) :
                       /\ p.observations[i].kind \in {kind}
                       /\ p.observations[i].input = p.formulation.state}
    <3>1. onState = FirstIn(p.observations, I)
      BY DEF First, SelectInSeq, FirstIn
    <3> HIDE DEF onState
    <3>2. I \in SUBSET (1 .. Len(p.observations)) /\ I \subseteq DOMAIN p.observations
      BY <1>7 DEF Identified, Vector
    <3>3. \A i \in I : p.observations[i].kind = kind
      OBVIOUS
    <3> HIDE DEF I
    <3>4. QED
      BY <1>7, <2>1, <2>2, <3>1, <3>2, <3>3, FoundBack
  <2>4. PICK j \in DOMAIN p.observations :
          /\ p.observations[j].kind = "volume_restriction"
          /\ p.observations[j].input = p.formulation.control
    <3> DEFINE I == {n \in 1 .. Len(p.observations) :
                       /\ p.observations[n].kind = "volume_restriction"
                       /\ p.observations[n].input = p.formulation.control}
    <3>1. onControl = FirstIn(p.observations, I)
      BY DEF First, SelectInSeq, FirstIn
    <3> HIDE DEF onControl
    <3>2. I \in SUBSET (1 .. Len(p.observations)) /\ I \subseteq DOMAIN p.observations
      BY <1>7 DEF Identified, Vector
    <3>3. \A n \in I : /\ p.observations[n].kind = "volume_restriction"
                       /\ p.observations[n].input = p.formulation.control
      OBVIOUS
    <3> HIDE DEF I
    <3>4. QED
      BY <1>7, <2>1, <2>2, <3>1, <3>2, <3>3, FoundBack
  <2>5. i # j
    BY <2>3, <2>4
  <2>6. realised.observation = kind
    <3>1. \A k \in DOMAIN p.observations : k = i \/ k = j
      <4>1. Vector(p.observations) /\ Len(p.observations) = 2
        BY <1>7, <2>1 DEF Identified
      <4> HIDE DEF onState, onControl
      <4>2. QED
        BY <4>1, <2>5, PairPlaces
    <3>2. r.normal_flux => "point_sensor" \notin ObservationKinds(p)
      BY <2>3, <2>4, <3>1 DEF ObservationKinds
    <3>3. r.normal_flux => ~r.point_sensor
      BY <3>2 DEF Admitted, Closes, Describes
    <3>4. QED
      BY <1>2, <1>8, <3>3
  <2>7. TracksOneObservation(p, p.losses[t]) => tracked = p.observations[i]
    BY <2>1, <2>4, <2>5, PairTracked
  <2>8. QED
    BY <1>2, <1>5, <1>6, <2>3, <2>6, <2>7 DEF MinimisesBy, UnmatchedModels
<1>9. CASE ~r.point_sensor /\ ~r.normal_flux
  <2>1. PICK k \in DOMAIN p.observations : tracked = p.observations[k]
    BY <1>7, LossObserves DEF Admitted
  <2>2. tracked.kind \in {"volume_restriction", "h1_state_restriction"}
    <3>1. tracked.kind \in ObservationKinds(p)
      BY <2>1 DEF ObservationKinds
    <3>2. tracked.kind \in {"volume_restriction", "h1_state_restriction", "point_sensor",
                            "normal_flux"}
      BY <1>4, <2>1 DEF ScalarLowerers
    <3>3. QED
      BY <1>9, <3>1, <3>2 DEF Admitted, Closes, Describes
  <2>3. \/ realised.observation = tracked.kind
        \/ ~TracksOneObservation(p, p.losses[t])
    BY <1>2, <1>9, <2>2, H1Tracked, H1Untracked
  <2>4. QED
    BY <1>2, <1>5, <1>6, <2>3 DEF MinimisesBy, UnmatchedModels
<1>10. QED
  BY <1>8, <1>9

\* What a registered composition fixes of its observation, loss and metric.
Registered(p, name) ==
  LET kinds == <<ObservedState(p).kind, RegularisedControl(p).kind,
                 SelectedMetric(p).kind>>
  IN  /\ Present(TrackingLoss(p)) /\ Present(RegularisedControl(p))
      /\ name = "l2_transposition" =>
           /\ Topology(p, ObservedState(p).output) = "l2"
           /\ RegularisedControl(p).kind = "quadratic_control_regularisation"
           /\ SelectedMetric(p).kind = "l2"
      /\ name \in {"complete_nodal_l2", "partial_nodal_l2"} =>
           kinds = <<"volume_restriction", "quadratic_control_regularisation", "l2">>
      /\ name = "hhalf_control" =>
           kinds = <<"volume_restriction", "quadratic_hhalf_control_regularisation",
                     "hhalf">>
      /\ name = "h1_tracking_hhalf_control" =>
           kinds = <<"h1_state_restriction", "quadratic_control_regularisation", "hhalf">>
      /\ name = "h1_control" =>
           kinds = <<"volume_restriction", "quadratic_h1_control_regularisation", "h1">>

\* A composition that is registered under a name has what the name stands for.
LEMMA RegisteredComposition ==
  ASSUME NEW p, NEW selected, DirichletRegistration(p, selected) # "none"
  PROVE  Registered(p, DirichletRegistration(p, selected))
<1> DEFINE name == DirichletRegistration(p, selected)
<1>1. Present(TrackingLoss(p)) /\ Present(RegularisedControl(p))
  <2>1. ASSUME ~(Present(TrackingLoss(p)) /\ Present(RegularisedControl(p)))
        PROVE  DirichletRegistration(p, selected) = "none"
    BY <2>1 DEF DirichletRegistration
  <2>2. QED
    BY <2>1
<1>2. name = "l2_transposition" =>
        /\ Topology(p, ObservedState(p).output) = "l2"
        /\ RegularisedControl(p).kind = "quadratic_control_regularisation"
        /\ SelectedMetric(p).kind = "l2"
  BY DEF DirichletRegistration
<1>3. name \in {"complete_nodal_l2", "partial_nodal_l2"} =>
        /\ ObservedState(p).kind = "volume_restriction"
        /\ RegularisedControl(p).kind = "quadratic_control_regularisation"
        /\ SelectedMetric(p).kind = "l2"
  BY DEF DirichletRegistration, LiftingSignature
<1>4. name = "hhalf_control" =>
        /\ ObservedState(p).kind = "volume_restriction"
        /\ RegularisedControl(p).kind = "quadratic_hhalf_control_regularisation"
        /\ SelectedMetric(p).kind = "hhalf"
  BY DEF DirichletRegistration, LiftingSignature
<1>5. name = "h1_tracking_hhalf_control" =>
        /\ ObservedState(p).kind = "h1_state_restriction"
        /\ RegularisedControl(p).kind = "quadratic_control_regularisation"
        /\ SelectedMetric(p).kind = "hhalf"
  BY DEF DirichletRegistration, LiftingSignature
<1>6. name = "h1_control" =>
        /\ ObservedState(p).kind = "volume_restriction"
        /\ RegularisedControl(p).kind = "quadratic_h1_control_regularisation"
        /\ SelectedMetric(p).kind = "h1"
  BY DEF DirichletRegistration, LiftingSignature
<1> HIDE DEF name
<1>7. QED
  BY <1>1, <1>2, <1>3, <1>4, <1>5, <1>6 DEF Registered, name

\* A Dirichlet control: the registration ties each loss to the field it observes.
LEMMA DirichletObjective ==
  ASSUME NEW p, NEW r, NEW t, NEW o, Admitted(p, r, t, o), r.registration # "none",
         Model(r) = "dirichlet_lifting"
  PROVE  MinimisesBy(p, r, t, o)
<1> DEFINE name == r.registration
           realised == Realisation(p, r)
           tracked == At(p.observations, p.losses[t].observation)
           regularised == At(p.observations, p.losses[o].observation)
<1>1. /\ realised.model = "dirichlet_lifting"
      /\ realised.observation = IF name = "h1_tracking_hhalf_control"
                                THEN "h1_state_restriction" ELSE "volume_restriction"
      /\ name = "hhalf_control" =>
           /\ realised.control_loss = "quadratic_hhalf_control_regularisation"
           /\ realised.metric = "hhalf"
      /\ name = "h1_control" =>
           /\ realised.control_loss = "quadratic_h1_control_regularisation"
           /\ realised.metric = "h1"
      /\ name \notin {"hhalf_control", "h1_control"} =>
           realised.control_loss = "quadratic_control_regularisation"
      /\ name = "h1_tracking_hhalf_control" => realised.metric = "hhalf"
      /\ name \notin {"hhalf_control", "h1_control", "h1_tracking_hhalf_control"} =>
           realised.metric = "l2"
  BY DEF Realisation
<1>2. Registered(p, name)
  BY RegisteredComposition DEF Admitted, Closes, Describes
<1>3. name \in DOMAIN DirichletFamily
  BY DEF Admitted, Closes
<1>4. /\ Identified(p.observations) /\ Checked(p) /\ Len(p.variables) = 2
      /\ t \in DOMAIN p.losses /\ o \in DOMAIN p.losses
      /\ Vector(p.losses) /\ DOMAIN p.losses = {t, o}
      /\ p.losses[t].kind = "quadratic_tracking"
      /\ p.losses[o].kind = ControlLoss(r) /\ p.losses[o].kind # "quadratic_tracking"
  BY DEF Admitted, Checked, Identified, Weighs, ControlLoss
<1>5. TrackingLoss(p) = p.losses[t] /\ p.losses[t].observation = ObservedState(p).id
  <2> DEFINE I == {i \in 1 .. Len(p.losses) :
                     /\ p.losses[i].kind = "quadratic_tracking"
                     /\ p.losses[i].observation = ObservedState(p).id}
  <2>1. TrackingLoss(p) = FirstIn(p.losses, I)
    BY DEF TrackingLoss, First, SelectInSeq, FirstIn
  <2>2. I \in SUBSET (1 .. Len(p.losses)) /\ I \subseteq {t}
    BY <1>4 DEF Vector
  <2>3. \A i \in I : p.losses[i].observation = ObservedState(p).id
    OBVIOUS
  <2> HIDE DEF I
  <2>4. ~Present(Absent)
    BY DEF Present, Absent
  <2>5. QED
    BY <1>2, <1>4, <2>1, <2>2, <2>3, <2>4, FirstFound DEF Registered
<1>6. RegularisedControl(p) = p.losses[o]
      /\ p.losses[o].observation = RestrictedControl(p).id
  <2> DEFINE I == {i \in 1 .. Len(p.losses) :
                     /\ p.losses[i].kind # "quadratic_tracking"
                     /\ p.losses[i].observation = RestrictedControl(p).id}
  <2>1. RegularisedControl(p) = FirstIn(p.losses, I)
    BY DEF RegularisedControl, First, SelectInSeq, FirstIn
  <2>2. I \in SUBSET (1 .. Len(p.losses)) /\ I \subseteq {o}
    BY <1>4 DEF Vector
  <2>3. \A i \in I : p.losses[i].observation = RestrictedControl(p).id
    OBVIOUS
  <2> HIDE DEF I
  <2>4. ~Present(Absent)
    BY DEF Present, Absent
  <2>5. QED
    BY <1>2, <1>4, <2>1, <2>2, <2>3, <2>4, FirstFound DEF Registered
<1>7. Present(ObservedState(p)) /\ Present(RestrictedControl(p))
  <2>1. PICK i \in DOMAIN p.observations : p.observations[i].id = p.losses[t].observation
    BY <1>4, LossObserves
  <2>2. PICK j \in DOMAIN p.observations : p.observations[j].id = p.losses[o].observation
    BY <1>4, LossObserves
  <2>3. p.observations[i].id # "?" /\ p.observations[j].id # "?"
    BY <1>4 DEF Checked, ObservationChecked
  <2>4. QED
    BY <1>5, <1>6, <2>1, <2>2, <2>3 DEF Present
<1>8. /\ tracked = ObservedState(p) /\ tracked.input = p.formulation.state
      /\ tracked.kind \in {"volume_restriction", "h1_state_restriction"}
  <2> DEFINE I == {i \in 1 .. Len(p.observations) :
                     /\ p.observations[i].input = State(p).id
                     /\ p.observations[i].kind \in {"volume_restriction",
                                                    "h1_state_restriction"}}
  <2>1. ObservedState(p) = FirstIn(p.observations, I)
    BY DEF ObservedState, First, SelectInSeq, FirstIn
  <2>2. I \in SUBSET (1 .. Len(p.observations))
    OBVIOUS
  <2>3. \A i \in I : /\ p.observations[i].input = State(p).id
                     /\ p.observations[i].kind \in {"volume_restriction",
                                                    "h1_state_restriction"}
    OBVIOUS
  <2> HIDE DEF I
  <2>4. \E i \in I : /\ ObservedState(p) = p.observations[i]
                     /\ At(p.observations, p.observations[i].id) = p.observations[i]
    BY <1>4, <1>7, <2>1, <2>2, FoundBack
  <2>5. State(p).id = p.formulation.state
    BY <1>4, SelectedVariables
  <2>6. QED
    BY <1>5, <2>3, <2>4, <2>5
<1>9. regularised.input = p.formulation.control
  <2> DEFINE I == {i \in 1 .. Len(p.observations) :
                     /\ p.observations[i].input = Control(p).id
                     /\ p.observations[i].kind = "boundary_restriction"}
  <2>1. RestrictedControl(p) = FirstIn(p.observations, I)
    BY DEF RestrictedControl, First, SelectInSeq, FirstIn
  <2>2. I \in SUBSET (1 .. Len(p.observations))
    OBVIOUS
  <2>3. \A i \in I : p.observations[i].input = Control(p).id
    OBVIOUS
  <2> HIDE DEF I
  <2>4. \E i \in I : /\ RestrictedControl(p) = p.observations[i]
                     /\ At(p.observations, p.observations[i].id) = p.observations[i]
    BY <1>4, <1>7, <2>1, <2>2, FoundBack
  <2>5. Control(p).id = p.formulation.control
    BY <1>4, SelectedVariables
  <2>6. QED
    BY <1>6, <2>3, <2>4, <2>5
<1>10. ASSUME name = "l2_transposition" PROVE tracked.kind = "volume_restriction"
  <2>1. Topology(p, tracked.output) = "l2"
    BY <1>2, <1>8, <1>10 DEF Registered
  <2>2. PICK k \in DOMAIN p.observations : tracked = p.observations[k]
    BY <1>4, LossObserves
  <2>3. tracked.kind = "h1_state_restriction" => Topology(p, tracked.output) = "h1"
    BY <1>4, <2>2 DEF Checked, ObservationChecked
  <2>4. QED
    BY <1>8, <2>1, <2>3
<1>11. /\ realised.observation = tracked.kind
       /\ realised.control_loss = p.losses[o].kind
       /\ realised.metric = SelectedMetric(p).kind
  <2>1. name \in {"complete_nodal_l2", "partial_nodal_l2", "l2_transposition",
                  "hhalf_control", "h1_tracking_hhalf_control", "h1_control"}
    BY <1>3 DEF DirichletFamily
  <2> HIDE DEF name, realised, tracked
  <2>2. CASE name = "l2_transposition"
    BY <1>1, <1>2, <1>6, <1>10, <2>2 DEF Registered
  <2>3. CASE name \in {"complete_nodal_l2", "partial_nodal_l2"}
    BY <1>1, <1>2, <1>6, <1>8, <2>3 DEF Registered
  <2>4. CASE name = "hhalf_control"
    BY <1>1, <1>2, <1>6, <1>8, <2>4 DEF Registered
  <2>5. CASE name = "h1_tracking_hhalf_control"
    BY <1>1, <1>2, <1>6, <1>8, <2>5 DEF Registered
  <2>6. CASE name = "h1_control"
    BY <1>1, <1>2, <1>6, <1>8, <2>6 DEF Registered
  <2>7. QED
    BY <2>1, <2>2, <2>3, <2>4, <2>5, <2>6
<1>12. QED
  BY <1>1, <1>4, <1>8, <1>9, <1>11 DEF MinimisesBy

\* What passed every stage, by the model that realises it.
LEMMA ObjectiveByModel ==
  ASSUME NEW p, NEW r, NEW given, NEW mesh, NEW product, Accepted(p), Closes(p, r),
         Passes(p, r, given, mesh, product)
  PROVE  Minimises(p, r)
<1>1. Checked(p) /\ Vector(p.losses)
  BY CheckedProblem DEF Checked, Identified
<1>2. CombinationNeeds(p, r) = {} /\ GraphNeeds(p, r) = {} /\ FormulationNeeds(p) = {}
  BY DEF Passes, LoweringNeeds
<1>3. LossesComplete(p, r)
  BY <1>2 DEF GraphNeeds, Need
<1>4. Len(p.variables) = 2
  BY <1>2 DEF FormulationNeeds, Need
<1>5. PICK t \in DOMAIN p.losses, o \in DOMAIN p.losses : Weighs(p, r, t, o)
  BY <1>1, <1>3, TwoLosses
<1>6. Admitted(p, r, t, o)
  BY <1>1, <1>2, <1>4, <1>5 DEF Admitted, Accepted
<1>7. Model(r) # "none" /\ (r.dirichlet_control => r.registration # "none")
  BY Modelled
<1>8. MinimisesBy(p, r, t, o)
  <2>1. CASE Model(r) = "neumann_boundary"
    BY <1>6, <2>1, NeumannObjective
  <2>2. CASE Model(r) = "dirichlet_lifting"
    BY <1>6, <1>7, <2>2, ModelFeatures, DirichletObjective
  <2>3. CASE Model(r) = "continuous_control"
    BY <1>6, <2>3, ContinuousObjective
  <2>4. CASE Model(r) = "coefficient_identification"
    BY <1>6, <2>4, CoefficientObjective
  <2>5. CASE Model(r) = "scalar_components"
    BY <1>6, <2>5, ScalarObjective
  <2>6. QED
    BY <1>7, <2>1, <2>2, <2>3, <2>4, <2>5 DEF Model
<1>9. QED
  BY <1>5, <1>8, ByTheLosses

\* So for every compiled problem of the program's types.
LEMMA CompiledObjective ==
  ASSUME Derived, Compiled, Graph(input.problem)
  PROVE  Minimises(input.problem, Request(input.problem))
<1>1. {} \in Reports(input.problem)
  BY CompiledInput
<1>2. Accepted(input.problem)
  BY <1>1 DEF Reports, Accepted
<1>3. QED
  BY <1>2, CompiledInput, ObjectiveByModel

\* On every problem of the program's types that compiles, the model minimises what the
\* graph declares: its observation, its loss of the decision and its metric are those of
\* the graph, but for an observation that no check matches with the tracking loss and for
\* an H1/2 loss of a Neumann or a continuous control.
THEOREM ObjectiveCorrect ==
  ASSUME Authoring
  PROVE  Spec => []ObjectiveRealised
<1>1. Init => Graph(input.problem)
  BY Authoring DEF Init, Authoring
<1>2. Graph(input.problem) /\ [Next]_vars => Graph(input.problem)'
  BY Authoring DEF Authoring, Next, Author, Slip, Compile, vars
<1>3. Derived /\ Graph(input.problem) => ObjectiveRealised
  <2>1. SUFFICES ASSUME Derived, Graph(input.problem), Compiled PROVE ObjectiveRealised
    BY DEF ObjectiveRealised
  <2>2. Minimises(input.problem, Request(input.problem))
    BY <2>1, CompiledObjective
  <2>3. QED
    BY <2>1, <2>2, CompiledInput DEF ObjectiveRealised, Minimises
<1>4. QED
  BY <1>1, <1>2, <1>3, Derivation, PTL DEF Spec
=============================================================================
