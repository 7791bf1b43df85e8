------------------------------- MODULE RunPlan -------------------------------
(***************************************************************************)
(* From a parameter file and the command line to a run set: apps/          *)
(* nmopt-runner/parameter_files.hpp reads the file, run_set_plan.hpp and   *)
(* the B1/B2 coordinates of chapter6_execution.hpp turn it into a plan     *)
(* with one artifact per combination, main.cc records it, and              *)
(* parameter_binding.hpp with benchmark_binders.hpp bind one combination   *)
(* after the other.  Somebody may edit the parameter file meanwhile.       *)
(*                                                                         *)
(* A value is a sequence of words, the parts of a name between its dashes, *)
(* so that joining names is concatenation.  Numbers, definitions and       *)
(* patterns are abstracted to whether they parse.                          *)
(***************************************************************************)
EXTENDS Naturals, Sequences, SequencesExt

CONSTANTS
  Files,          \* the contents the parameter file may have
  CommandLines,   \* the sequences of --select filters, <<axis, values>> pairs
  Numerals,       \* the values that parse as a number
  MaxUnsigned,    \* std::numeric_limits<unsigned int>::max()
  Edits           \* how often the file may change

\* Entries with a number: absent, or negative when the text does not parse.
Absent == 0 - 1
NoValue == <<>>
Standard == {"observation-region", "target-profile"}

\* The members of a parameter file.
Members == {"benchmark", "matrix", "selection", "excluded", "method", "forcing",
            "definitions", "solver", "policies", "target", "reference"}

\* A value of an axis, and what is listed for some axes.
Value == Seq(STRING)
Lists(entries) == entries \in [DOMAIN entries -> Seq(Value)] /\ DOMAIN entries \subseteq STRING

ASSUME PlanAssumption ==
  /\ MaxUnsigned \in Nat \ {0} /\ Edits \in Nat
  /\ CommandLines \subseteq Seq(STRING \X Seq(Value))
  /\ \A f \in Files : /\ DOMAIN f = Members
                      /\ f.benchmark \in {"b1", "b2", "unregistered", "unknown"}
                      /\ Lists(f.matrix) /\ Lists(f.selection)
                      /\ f.excluded \in Seq(Seq(STRING \X Value))

VARIABLES
  disk,       \* what the parameter file holds
  edits,      \* how often it changed so far
  cli,        \* the filters of the command line
  stage,      \* what the runner does next, or how it ended
  file,       \* ParameterFile: what was read, with its hash
  plan,       \* RunSetPlan, and the artifact paths
  snapshot,   \* parameters.prm of the run directory
  manifest,   \* the configuration run-manifest.json records
  bound       \* what became of each combination, in execution order

vars == <<disk, edits, cli, stage, file, plan, snapshot, manifest, bound>>

-----------------------------------------------------------------------------
(* Reading a parameter file *)

\* The axes an adapter declares, in registry order; an id with the prefix of a
\* benchmark finds the adapter although it is not registered.
AdapterAxes == [b1 |-> <<"method", "regularisation">>,
                unregistered |-> <<"method", "regularisation">>,
                b2 |-> <<"regularisation", "forcing", "observation-region", "target-profile">>]

Declared(f) == Range(AdapterAxes[f.benchmark])
Entry(entries, name) == IF name \in DOMAIN entries THEN entries[name] ELSE Absent
Values(f, axis) == IF axis \in DOMAIN f.matrix THEN f.matrix[axis] ELSE NoValue
\* The members of a set, in the order of a sequence.
Only(s, members) ==
  FlattenSeq([i \in DOMAIN s |-> IF s[i] \in members THEN <<s[i]>> ELSE <<>>])
Axes(f) == Only(AdapterAxes[f.benchmark], {a \in DOMAIN f.matrix : f.matrix[a] # NoValue})

\* The methods whose policies may be written: those of the axis where the adapter
\* has one, else the selected method.
PolicyMethods(f) ==
  IF "method" \in Declared(f) THEN Range(Values(f, "method")) ELSE {f.method} \ {NoValue}

\* The IDs whose definitions belong to the file; forcing alone can also be direct.
Catalogued(f) == IF f.benchmark = "b2" THEN {"forcing"} \cup Standard ELSE {"forcing"}
Direct(f, axis) == IF axis = "forcing" THEN f.forcing ELSE NoValue
DefinitionsClash(f, axis) ==
  \/ Direct(f, axis) # NoValue /\ Values(f, axis) # NoValue
  \/ Len(Direct(f, axis)) > 1
  \/ ~IsInjective(Values(f, axis))
DefinitionsUndeclared(f, axis) ==
  ~(f.definitions[axis] \subseteq Range(Direct(f, axis) \o Values(f, axis)))

ExclusionAxes(exclusion) == {pair[1] : pair \in Range(exclusion)}
ExclusionValue(exclusion, axis) ==
  LET i == CHOOSE i \in DOMAIN exclusion : exclusion[i][1] = axis IN exclusion[i][2]
AsCombination(exclusion) ==
  [axis \in ExclusionAxes(exclusion) |-> ExclusionValue(exclusion, axis)]
\* Faulty variant: the values of an exclusion are not looked up.
ExclusionFailsByAxes(f, exclusion) ==
  \/ Cardinality(ExclusionAxes(exclusion)) # Len(exclusion)
  \/ ExclusionAxes(exclusion) # Range(Axes(f))
\* What parse_excluded_combinations refuses.
ExclusionFails(f, exclusion) ==
  \/ Cardinality(ExclusionAxes(exclusion)) # Len(exclusion)
  \/ ExclusionAxes(exclusion) # Range(Axes(f))
  \/ \E axis \in ExclusionAxes(exclusion) :
       ExclusionValue(exclusion, axis) \notin Range(Values(f, axis))
Excluded(f) == {AsCombination(e) : e \in Range(f.excluded)}

\* What the three parses of read_parameter_file and its own checks refuse.
ReadFails(f) ==
  \/ f.benchmark = "unknown"
  \/ ~((DOMAIN f.matrix \cup DOMAIN f.selection) \subseteq Declared(f))
  \/ ~(DOMAIN f.policies \subseteq PolicyMethods(f))
  \/ \E axis \in Catalogued(f) :
       DefinitionsClash(f, axis) \/ DefinitionsUndeclared(f, axis)
  \/ \E axis \in DOMAIN f.matrix : ~IsInjective(f.matrix[axis])
  \/ Axes(f) = <<>>
  \/ \E e \in Range(f.excluded) : ExclusionFails(f, e)
  \/ Cardinality(Excluded(f)) # Len(f.excluded)

-----------------------------------------------------------------------------
(* The combinations *)

\* The selection the file keeps: nonempty, and for an axis the matrix declares.
\* What it says of another axis is dropped without a word.
FileSelection(f) ==
  [axis \in {a \in DOMAIN f.selection : f.selection[a] # NoValue /\ a \in Range(Axes(f))}
     |-> f.selection[axis]]

\* One more axis, or another value of it.
With(chosen, axis, value) ==
  [a \in DOMAIN chosen \cup {axis} |-> IF a = axis THEN value ELSE chosen[a]]
\* The filters of the command line replace the selection of the file, the last one
\* of an axis those before it.
Effective(f, filters) ==
  FoldLeft(LAMBDA chosen, filter : With(chosen, filter[1], filter[2]),
           FileSelection(f), filters)

Allowed(f, filters) ==
  LET chosen == Effective(f, filters)
  IN  [axis \in Range(Axes(f)) |-> IF axis \in DOMAIN chosen THEN chosen[axis] ELSE Values(f, axis)]

\* Faulty variant: the new axis varies slowest.
ExpandOuter(partials, axis, values) ==
  FlattenSeq([j \in DOMAIN values |->
    [i \in DOMAIN partials |-> With(partials[i], axis, values[j])]])
\* One axis of the nested product: every partial combination with every value.
Expand(partials, axis, values) ==
  FlattenSeq([i \in DOMAIN partials |->
    [j \in DOMAIN values |-> With(partials[i], axis, values[j])]])

\* The nested loops over all axes.
Product(axes, allowed) ==
  FoldLeft(LAMBDA partials, axis : Expand(partials, axis, allowed[axis]), <<<<>>>>, axes)
Combinations(f, filters) ==
  LET product == Product(Axes(f), Allowed(f, filters))
  IN  Only(product, Range(product) \ Excluded(f))

SelectionFails(f, filters) ==
  \/ \E i \in DOMAIN filters : filters[i][1] \notin Range(Axes(f))
  \/ \E axis \in Range(Axes(f)) :
       LET values == Allowed(f, filters)[axis]
       IN  \/ values = NoValue \/ ~IsInjective(values)
           \/ ~(Range(values) \subseteq Range(Values(f, axis)))

-----------------------------------------------------------------------------
(* The plan *)

\* reduced_method_capability_registry; B1 has no slug for the last one.
Slugs == {<<"steepest">>, <<"l", "bfgs">>}
RegisteredMethods == Slugs \cup {<<"bfgs">>}

DefaultComponents(f, c) == [i \in DOMAIN Axes(f) |-> <<Axes(f)[i]>> \o c[Axes(f)[i]]]
\* The artifact_coordinate_components of a benchmark.
Components(f, c) ==
  IF f.benchmark = "b1" THEN <<c["method"], <<"beta">> \o c["regularisation"]>>
  ELSE IF Range(Axes(f)) = Standard
  THEN <<c["observation-region"] \o c["target-profile"]>>
  ELSE DefaultComponents(f, c)

\* A component must be a single name.
Unsafe(component) == component = NoValue \/ "/" \in Range(component)

\* Faulty variant: the planner does not look at the methods.
UnplaceableAnyMethod(f, c) ==
  \/ f.benchmark = "b1" /\ DOMAIN c # {"method", "regularisation"}
  \/ \E component \in Range(Components(f, c)) : Unsafe(component)
\* What the planner of a benchmark refuses of one combination.
Unplaceable(f, c) ==
  \/ /\ f.benchmark = "b1"
     /\ \/ DOMAIN c # {"method", "regularisation"}
        \/ c["method"] \notin Slugs
        \/ c["regularisation"] \notin Numerals
  \/ \E component \in Range(Components(f, c)) : Unsafe(component)

\* validate_run_set_plan, which the plan passes through once more.
PlanInvalid(f, combinations) ==
  LET complete(c) == /\ DOMAIN c = Range(Axes(f))
                     /\ \A axis \in DOMAIN c : c[axis] \in Range(Values(f, axis))
  IN  \/ Axes(f) = <<>> \/ ~IsInjective(Axes(f))
      \/ \E axis \in Range(Axes(f)) : Values(f, axis) = NoValue \/ ~IsInjective(Values(f, axis))
      \/ \E c \in Excluded(f) : ~complete(c)
      \/ combinations = <<>>
      \/ \E c \in Range(combinations) : ~complete(c)

Paths(f, combinations) == [i \in DOMAIN combinations |-> Components(f, combinations[i])]

PlanFails(f, filters) ==
  \/ f.benchmark = "unregistered"
  \/ SelectionFails(f, filters)
  \/ LET combinations == Combinations(f, filters)
     IN  \/ combinations = <<>>
         \/ PlanInvalid(f, combinations)
         \/ \E c \in Range(combinations) : Unplaceable(f, c)
         \/ ~IsInjective(Paths(f, combinations))

NoPlan == [combinations |-> <<>>, paths |-> <<>>]
Plan(f, filters) == [combinations |-> Combinations(f, filters),
                     paths |-> Paths(f, Combinations(f, filters))]

-----------------------------------------------------------------------------
(* Preparing a run *)

NoFile == [benchmark |-> "unread"]
NoManifest == [status |-> "absent"]

Init ==
  /\ disk \in Files /\ cli \in CommandLines
  /\ edits = 0 /\ stage = "called"
  /\ file = NoFile /\ snapshot = NoFile
  /\ plan = NoPlan /\ manifest = NoManifest /\ bound = <<>>

\* Somebody saves another parameter file under the same name.
Edit ==
  /\ edits < Edits
  /\ edits' = edits + 1
  /\ disk' \in Files \ {disk}
  /\ UNCHANGED <<cli, stage, file, plan, snapshot, manifest, bound>>

\* read_parameter_file: one read, whose text is parsed three times and hashed.
Read ==
  /\ stage = "called"
  /\ IF ReadFails(disk) THEN stage' = "refused" /\ UNCHANGED file
                        ELSE stage' = "read" /\ file' = disk
  /\ UNCHANGED <<disk, edits, cli, plan, snapshot, manifest, bound>>

\* The rest of prepare_run.  Run kind, build profile, slot and style profile, which
\* may end the call as well, belong to the choice of the directory.
Prepare ==
  /\ stage = "read"
  /\ IF PlanFails(file, cli)
     THEN stage' = "refused" /\ UNCHANGED plan
     ELSE /\ plan' = Plan(file, cli)
          /\ stage' \in {"prepared", "refused"}
  /\ UNCHANGED <<disk, edits, cli, file, snapshot, manifest, bound>>

\* snapshot_configuration copies the parameter file as it is now.
Snapshot ==
  /\ stage = "prepared"
  /\ stage' = "snapshotted"
  /\ snapshot' = disk
  /\ UNCHANGED <<disk, edits, cli, file, plan, manifest, bound>>

\* Faulty variant: what the file selects comes last.
JoinSelectionReversed(f, filters) ==
  LET chosen == FileSelection(f)
      kept == Only(Axes(f), DOMAIN chosen)
  IN  filters \o [i \in DOMAIN kept |-> <<kept[i], chosen[kept[i]]>>]
\* join_selection lists what the file selects, then what the command line selects.
JoinSelection(f, filters) ==
  LET chosen == FileSelection(f)
      kept == Only(Axes(f), DOMAIN chosen)
  IN  [i \in DOMAIN kept |-> <<kept[i], chosen[kept[i]]>>] \o filters

\* Faulty variant: the hash of the snapshot is recorded.
RecordOfSnapshot(f, filters) ==
  [status |-> "running", hash |-> snapshot, selection |-> JoinSelection(f, filters),
   resolved |-> plan.combinations, inventory |-> plan.paths]
\* The configuration in the manifest; a content stands for its hash.
Record(f, filters) ==
  [status |-> "running", hash |-> f, selection |-> JoinSelection(f, filters),
   resolved |-> plan.combinations, inventory |-> plan.paths]

\* The constructor of RunSetManifest.  run_b1 looks up the reference method before
\* its loop: an unknown one ends the invocation.
ReferenceUnknown(f) ==
  f.benchmark = "b1" /\ f.target = "match" /\ f.reference \notin RegisteredMethods
Open ==
  /\ stage = "snapshotted"
  /\ manifest' = Record(file, cli)
  /\ stage' = IF ReferenceUnknown(file) THEN "abandoned" ELSE "executing"
  /\ UNCHANGED <<disk, edits, cli, file, plan, snapshot, bound>>

-----------------------------------------------------------------------------
(* Binding one combination *)

\* Solver/<entry>, unless the policy of the method has its own.
Policy(f, method, name) ==
  IF method \in DOMAIN f.policies THEN Entry(f.policies[method], name) ELSE Absent
Resolved(f, method, name) ==
  IF Policy(f, method, name) # Absent THEN Policy(f, method, name) ELSE Entry(f.solver, name)

Unsigned(value) == value \in 0 .. MaxUnsigned
NotBound == [maximumIterations |-> 0, trials |-> 0, bound |-> FALSE]

\* Faulty variant: each of the two entries is resolved by itself.
LimitEntryAlone(f, method, name) == Resolved(f, method, name)
\* The two ways to limit a line search come from one level: the policy of the
\* method, as soon as it has one of them.
LimitEntry(f, method, name) ==
  IF Policy(f, method, "trials") # Absent \/ Policy(f, method, "reductions") # Absent
  THEN Policy(f, method, name) ELSE Entry(f.solver, name)

\* Zero stands for the default of SolverOptions.
TrialsOf(trials, reductions) ==
  IF reductions # Absent THEN reductions + 1 ELSE IF trials # Absent THEN trials ELSE 0
\* Faulty variant: the largest number of reductions is accepted.
LimitsFailUnbounded(trials, reductions) ==
  \/ trials # Absent /\ reductions # Absent
  \/ trials # Absent /\ ~Unsigned(trials)
  \/ reductions # Absent /\ ~Unsigned(reductions)
LimitsFail(trials, reductions) ==
  \/ trials # Absent /\ reductions # Absent
  \/ trials # Absent /\ ~Unsigned(trials)
  \/ reductions # Absent /\ (~Unsigned(reductions) \/ reductions = MaxUnsigned)

\* apply_solver_options, with the curvature tolerance full BFGS needs.
SolverOptions(f, method) ==
  LET trials == LimitEntry(f, method, "trials")
      reductions == LimitEntry(f, method, "reductions")
      iterations == Resolved(f, method, "iterations")
  IN  IF \/ ~Unsigned(iterations) \/ LimitsFail(trials, reductions)
         \/ method = <<"bfgs">> /\ Policy(f, method, "curvature") < 0
      THEN NotBound
      ELSE [maximumIterations |-> iterations, trials |-> TrialsOf(trials, reductions),
            bound |-> TRUE]

\* bind_b1_scenario and bind_b2_scenario; a definition without entries has no kind.
Forcing(f, c) == IF "forcing" \in DOMAIN c THEN <<c["forcing"]>> ELSE f.forcing
ForcingUndefined(f, c) ==
  Forcing(f, c) = NoValue \/ ~(Range(Forcing(f, c)) \subseteq f.definitions["forcing"])
BindB1(f, c) == IF ForcingUndefined(f, c) THEN NotBound ELSE SolverOptions(f, c["method"])
BindB2(f, c) ==
  IF \/ f.method # <<"bfgs">> \/ ForcingUndefined(f, c)
     \/ \E axis \in Standard : ~(Range(Values(f, axis)) \subseteq f.definitions[axis])
     \/ "regularisation" \in DOMAIN c /\ c["regularisation"] \notin Numerals
  THEN NotBound ELSE SolverOptions(f, f.method)
BindOne(f, c) == IF f.benchmark = "b1" THEN BindB1(f, c) ELSE BindB2(f, c)

\* Outside the try block of run_b2: no artifact fails here, the invocation does.
AxesMissing(f) == f.benchmark = "b2" /\ ~(Standard \subseteq Range(Axes(f)))

Bind ==
  /\ stage = "executing"
  /\ IF AxesMissing(file)
     THEN stage' = "abandoned" /\ UNCHANGED bound
     ELSE LET c == plan.combinations[Len(bound) + 1]
          IN  /\ bound' = Append(bound, BindOne(file, c))
              /\ stage' = IF Len(bound') = Len(plan.combinations) THEN "executed" ELSE stage
  /\ UNCHANGED <<disk, edits, cli, file, plan, snapshot, manifest>>

Next == Edit \/ Read \/ Prepare \/ Snapshot \/ Open \/ Bind

Spec == Init /\ [][Next]_vars

-----------------------------------------------------------------------------
(* Properties *)

Stages == {"called", "read", "refused", "prepared", "snapshotted", "executing",
           "abandoned", "executed"}
Opened == stage \in {"executing", "abandoned", "executed"}
Planned == stage \in {"prepared", "snapshotted"} \/ Opened

\* Every variable has its type, and no combination is bound before it is planned.
TypeOK ==
  /\ disk \in Files /\ edits \in 0 .. Edits /\ cli \in CommandLines /\ stage \in Stages
  /\ file \in Files \cup {NoFile} /\ snapshot \in Files \cup {NoFile}
  /\ Len(plan.paths) = Len(plan.combinations) /\ Len(bound) <= Len(plan.combinations)
  /\ \A i \in DOMAIN bound : /\ bound[i].maximumIterations \in 0 .. MaxUnsigned
                             /\ bound[i].trials \in 0 .. MaxUnsigned
                             /\ bound[i].bound \in BOOLEAN
  /\ manifest # NoManifest <=> Opened

\* The plan holds exactly the declared, selected and not excluded combinations, each
\* once, in the order of the axes and of the values as they were selected.
CombinationsComplete == Planned =>
  LET axes == Axes(file)
      values == Allowed(file, cli)
      all == plan.combinations
      Rank(c, k) == CHOOSE i \in DOMAIN values[axes[k]] : values[axes[k]][i] = c[axes[k]]
      Before(c, d) == \E k \in DOMAIN axes : /\ Rank(c, k) < Rank(d, k)
                                             /\ \A l \in 1 .. k - 1 : Rank(c, l) = Rank(d, l)
  IN  /\ Range(all) = {c \in [Range(axes) -> UNION {Range(values[a]) : a \in Range(axes)}] :
                         /\ \A a \in Range(axes) : c[a] \in Range(values[a])
                         /\ c \notin Excluded(file)}
      /\ \A i, j \in DOMAIN all : i < j => Before(all[i], all[j])

\* What the manifest records belongs to one content of the parameter file, also when
\* the file changes while the run is prepared: hash, combinations, inventory and the
\* options every artifact is bound with.
ManifestIsOneContent == Opened =>
  /\ manifest.resolved = Combinations(manifest.hash, cli)
  /\ manifest.inventory = Paths(manifest.hash, manifest.resolved)
  /\ \A i \in DOMAIN bound : bound[i] = BindOne(manifest.hash, manifest.resolved[i])

\* The recorded selection, given back as --select filters in its order, resolves to
\* the recorded combinations.
SelectionReplays == Opened =>
  /\ ~SelectionFails(file, manifest.selection)
  /\ Combinations(file, manifest.selection) = manifest.resolved

\* validate_run_set_plan never refuses what the reader and the expansion let through.
ValidationAgrees ==
  stage = "read" /\ file.benchmark # "unregistered" /\ ~SelectionFails(file, cli)
    /\ Combinations(file, cli) # <<>>
  => ~PlanInvalid(file, Combinations(file, cli))

\* Once the manifest is open only two faults of a configuration can end the run
\* without sealing it, a reference method nobody registered and a missing B2 axis;
\* every other one was refused before, or is the failure of a single artifact.
OnlyKnownGapsAbandon == Opened =>
  /\ stage = "abandoned" => ReferenceUnknown(file) \/ AxesMissing(file)
  /\ \A c \in Range(plan.combinations) :
       file.benchmark = "b1" => c["method"] \in Slugs /\ c["regularisation"] \in Numerals

\* The limit of a line search never mixes the levels and never wraps: with a policy of
\* its own, a method is bound as if the global limits were not there, and one more trial
\* than reductions is never zero trials.
WithoutGlobalLimits(f) ==
  [f EXCEPT !.solver = [n \in DOMAIN @ \ {"trials", "reductions"} |-> @[n]]]
LimitFromOneLevel == \A i \in DOMAIN bound :
  LET c == plan.combinations[i]
      method == IF file.benchmark = "b1" THEN c["method"] ELSE file.method
      own == \E n \in {"trials", "reductions"} : Policy(file, method, n) # Absent
      reductions == IF own THEN Policy(file, method, "reductions")
                    ELSE Entry(file.solver, "reductions")
  IN  /\ own => bound[i] = BindOne(WithoutGlobalLimits(file), c)
      /\ bound[i].bound /\ reductions # Absent => bound[i].trials > reductions
=============================================================================
