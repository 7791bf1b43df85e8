# A verification of nmopt in TLA+

nmopt solves PDE-constrained optimisation problems. An application states a
problem as a graph of typed components, a validator and a compiler turn the
graph into finite-element operators, a solver of the library works on them, and
a runner executes whole sets of such solves from a parameter file and keeps
their artifacts on disk. This directory models the parts whose *control* decides
whether an answer may be believed: the active-set solver, the two descent
solvers with their direction policies, the validator and the deciding half of
the compiler, and the runner from the parameter file to the directory it leaves
behind.

Paths below are relative to the repository's root, those of headers to
`include/nmopt/`.

## 1. The system

| Component | State it keeps | Operations | What makes it hard |
|---|---|---|---|
| **Primal-dual active-set solver** `contract/pdas.hpp` | current point and box multiplier, active set, iteration reports | `solve()`: classify, build the restricted subproblem, call the KKT solver, recover the multiplier, report, stop | the KKT solver is a callback that may be inaccurate or fail; active sets may cycle; the answer, its report and its active set are read at different places |
| **Box complementarity** `contract/complementarity.hpp` | none (values) | bounds, Riesz conversion, classification, restriction, prolongation | order of branches at a bound, fixed coefficients |
| **Trust-region solver** `solvers/reduced_trust_region.hpp` | current evaluation, radius, trial counter, four work counters, histories, iteration records | `solve()`: stopping tests, subproblem, trial, accept or reject, audit of the result | nested loops with eight exits; counters read as differences of snapshots; an audit that can throw a finished solve away |
| **Line-search solver** `solvers/reduced_gradient.hpp`, `reduced_line_search.hpp` | as above, step length, trial log | `solve()`: stopping tests, direction, five line searches, projection, audit | the same, and tests whose order matters at the iteration cap, NaN objectives |
| **Direction policies** `solvers/reduced_search.hpp` | previous gradient and direction, L-BFGS and BFGS pairs, counters of restarts and resets | one call of `next()` per iteration | a history that must match the accepted iterates; restarts and fallbacks that must leave a descent direction; requirements that end a solve |
| **Reduced DTO** `contract/reduced_dto.hpp`, `reduced_hessian.hpp` | evaluation and lifetime tokens | `evaluate`, `evaluate_value`, `augment_derivative`, Hessian products | a value used after its service changed |
| **Semantic problem model and validation** `semantic/v1` | none (values) | compose a graph from the library's deltas; `SemanticValidator::validate` | some two hundred independent checks that must together leave no port unresolved; searches that take the first or the last match; a verdict that may depend on a hash table's order |
| **deal.II compiler** `compiler/v1` | the closed request, the plan, the model | `DealiiCompiler::compile`: request, capabilities, plan, bindings, mesh, model | the family, the request, the plan, the mesh check and the model each know a part; what one stage lets through another must realise |
| **Run-set plan, parameter files** `apps/nmopt-runner/parameter_files.hpp`, `run_set_plan.hpp`, `parameter_binding.hpp`, ... | what was read, its hash, the plan | read, expand, select, validate, record, bind | the file may change between two readings; two selections that override each other; two validations that must agree; limits from two levels |
| **Runner** `apps/nmopt-runner/*` | manifest records, reference objectives, exit flag; on disk: snapshots, manifest, artifacts, traces | choose a directory, snapshot, open the manifest, execute, record, seal | killed processes, failing and silently lost writes, overlapping invocations, reused directories |
| **Report, postprocessing** `tools/` | none | read a run directory | leftovers of earlier runs, torn manifests |
| **Quadratic KKT, supplied OTD** `contract/quadratic_kkt*.hpp`, `supplied_otd*.hpp` | none | assemble and solve first-order systems | signs and adjoints, evaluation order |
| **deal.II services, applications, Step-4 examples, build tools** | handles of deal.II | numerical kernels, rendering | floating-point data |

How they interact: the runner *calls* application code, which *calls* the
validator, the compiler and a solver; a solver *calls back* into the reduced
problem (evaluations, Hessian products), into a direction policy or into the KKT
solver; the runner and the readers in `tools/` share nothing but the *file
system*. Everything inside one process is sequential. Concurrency enters between
processes (two invocations, an invocation and a kill, an invocation and somebody
who edits its parameter file), asynchrony nowhere else. Errors are exceptions:
`require(...)` throws, the runner catches per artifact; the validator and the
compiler return diagnostics.

What correctness means, per component:

- *active sets*: `converged` is only ever said of a first-order point; a stable
  active set is exactly complementary; what is returned is what was reported;
  the loop ends; on strictly convex programs it ends at the minimiser.
- *descent solvers*: accepted iterates improve; at most `maximum_iterations`;
  the call ends whatever the objective returns; the audit never discards a
  finished solve; the work counters count; a stationary iterate is returned and
  never thrown.
- *direction policies*: a policy ends a solve only where its contract says so;
  the matrix-free recursion is the matrix update of the pairs that are kept;
  conjugate directions end an exact quadratic search in the dimension.
- *validation and compiler*: past the validation every port resolves; whatever
  compiles gets the model of its family, minimises the objective the graph
  declares and gives every boundary face one role.
- *parameter files*: the plan holds exactly the combinations the file and the
  command line describe; one content of the file governs hash, inventory and
  options; the recorded selection reproduces the plan.
- *runner*: every artifact gets one verdict; exit status, manifest and entries
  agree; what the report shows belongs to the run it names; development runs
  are not overwritten; dependents run after their references.

## 2. Modules

| Module | Models | Proofs |
|---|---|---|
| `PDAS` | `PDASSolverT::solve` with the complementarity it uses | `PDASProofs` |
| `PDASQuadratic` | the same loop with exact KKT solves of two-coefficient QPs | |
| `BoxSolve` | *abstract*: one call, one answer, converged means first order | |
| `TrustRegion` | `ReducedTrustRegionSolverT::solve` | `TrustRegionProofs` |
| `ReducedSearch` | `ReducedGradientSolverT::solve` and the line searches | `ReducedSearchProofs` |
| `DescentSearch` | *abstract*: a capped sequence of improving iterates that ends | |
| `DirectionPolicies` | the five direction policies and their histories | `DirectionPoliciesProofs` |
| `RationalVectors` | the arithmetic of coefficient blocks, in exact rationals | `RationalVectorsProofs` |
| `ProblemSpec` | the problem graph: components, lookups, edits | |
| `ProblemLibrary` | every factory and delta of `problem_library.hpp` | |
| `SemanticValidation` | the structural half of the validator | |
| `SemanticPolicies` | `validate_policies`, and with it the whole report | |
| `CompilationRequest` | the closed request: selections, family, bindings | |
| `Lowerability` | the capability and structure checks of the request | |
| `TargetRealisation` | plan, binding and mesh checks, the model that is built | |
| `ProblemCompilation` | an author, and `compile_impl` over all of these | `ProblemCompilationProofs` |
| `RunPlan` | from a parameter file and a command line to bound combinations | `RunPlanProofs` |
| `RunSet` | runner invocations, the file system, the report | `RunSetProofs` |
| `RunLedger` | *abstract*: one verdict per inventory entry, then sealed | |

`PDAS` implements `BoxSolve`; `TrustRegion` and `ReducedSearch` both implement
`DescentSearch`, each with its own meaning of "better"; `RunSet` implements
`RunLedger`. `PDASQuadratic` composes the loop of `PDAS` with a concrete KKT
solver. The semantic modules form one chain, each extending the one before:
`ProblemSpec`, `SemanticValidation`, `SemanticPolicies`, `CompilationRequest`,
`Lowerability`, `TargetRealisation`, `ProblemCompilation`.

The runner and the solvers are deliberately not composed state by state: to the
runner a solve is one step that succeeds or throws (it catches `std::exception`
around all of it), which is just what `BoxSolve` and `DescentSearch` promise, so
the refinements are where the modules meet. In the same way `ReducedSearch`
keeps an oracle for its direction, and `DirectionPolicies` says what the
policies answer; `RunSet` starts from any validated plan, and `RunPlan` says
which plans there are.

Operators whose comment begins with *Faulty variant* are plausible mistakes in
the definition that follows them; no specification uses them. Each property was
seen to fail when the definition is replaced by its faulty variant, so no
property is true for a trivial reason.

### PDAS

One action per stretch of `solve()` between two exits. `Begin` is the entry:
the feasibility requirement, then the first classification. `Iterate` is a
whole loop body: the restricted problem (`Restrictable`, `KKTSolutions`), then
`Step`: multiplier recovery, the next active set, the report, the decision and
the assignment of `current`. `Throw` is any `require` of the body. The code
appends to histories that nobody reads inside the loop; the model keeps the last
report and their number.

- Coefficients are integers and the Riesz map is a positive diagonal, which
  `serial_pdas.hpp` requires. Tolerances are positive reals in the code; in the
  integer unit, 0 stands for one below the unit.
- The KKT callback is described by what `solve` looks at. Declared convergence
  bounds the residuals of the *restricted* system only. A failed solve may
  return anything.
- The stationarity norm is compared squared.

### PDASQuadratic

`Exact(sel)` is the solution of the product that `make_active_product` builds,
with the fixed coefficients moved to the right-hand side. Loads and couplings
are chosen initially and scaled so that every solution is an integer.

### TrustRegion and ReducedSearch

`Evaluate` is the first evaluation; `Outer` is the head of the outer loop from
the metric gradient to the first trial, with the stopping tests in the code's
order (`HeadReason`); `Accept` and `Reject` are one trial each, with the tests
that follow (`TailReason`); `Throw` any requirement. `Finish` is `result()`,
which audits the records and throws when they disagree. Objective values,
gradient norms, slopes and predicted reductions come from an oracle: nothing
about the function is assumed, so infinities and NaN occur anywhere. Ratios,
fractions and factors are integers over a common unit. The iterations inside a
truncated CG subproblem are abstracted to their costs and exits.

In `ReducedSearch` a policy record holds the stopping criterion, the line
search, whether the projected variant runs and the objective target; a NaN is a
model value that `Same` treats as the code's `==` does.

### DirectionPolicies

One action per kind of policy is one call of `next()` with the tests that
follow it in the outer loop: steepest descent; nonlinear conjugate gradients
with Polak-Ribiere+, Fletcher-Reeves or the classical quadratic recurrence and
their restarts; limited-memory and full BFGS with curvature test, reset and
fallback; Newton with its inner conjugate gradients. `Move` is the line search.
Two kinds of model answer it: quadratics that an exact search minimises along
the ray, and an *arbitrary* model, which may put any derivative at any point of
the ray, so that curvature may be wrong and gradients may vanish.

- Doubles are exact rationals. Rounding is left out, which is what makes the
  algebraic statements (`TwoLoopIsBFGS`, `QuadraticTermination`) exact ones;
  in the program they hold up to rounding.
- `trail` records the iterates since the last reset. It is there for the
  properties, no action reads it.
- `QuadraticTermination` counts directions since the last restart, not calls: a
  recurrence restarts when the earlier gradient is below the curvature tolerance,
  a quasi-Newton policy resets when the curvature of its last step is, and then
  the count begins anew (that they restart for no other reason is its third part
  and `FallbackOnlyWhenStationary`). For the same reason Newton's step is promised
  the tolerances of the inner iteration and not an exact minimiser. A statement
  without these reservations holds on the problems of the run and is false for
  other tolerances.

### The semantic modules

A graph is a record of vectors of components, whose ports are identifiers.
Labels are left out except for *which* components lack one; a diagnostic is
what it is about, its category and its capability. Enumerations of which the
code registers one value only are kept as membership of that value in a set
`chosen`. The library's factories are translated with their deltas, in the
order in which they apply them.

The validator is one operator per `validate_*` function, from the graph to the
diagnostics it adds. Nothing reads their order, so they are sets. One thing is
not a function of the graph: with several full volumes, the one that is found
depends on the order in which a hash table is walked; `Reports` therefore is
the *set* of reports a graph can get.

`CompilationRequest` is the request the compiler closes (which typed selection
it takes from which policy, the family, the bindings it will ask for),
`Lowerability` its refusals, `TargetRealisation` the scalar plan, the checks of
the bound data and the mesh, the choice of the model with the requirements of
its constructor, and what that model assembles: terms, observation, loss,
metric, fixed and controlled faces. `CompileImpl` puts the stages in the order
of `compile_impl`, each with its early return; an exception ends the
compilation without a result. The lowerer tables hold every kind the semantic
layer defines, so registering is taken as done. Bound values are taken to be
admissible. Of a mesh the model keeps what the checks read: identifiers on its
exterior faces, materials, kinds of cells, hanging nodes, dimension, positions.

`ProblemCompilation` adds an author: a few changes (`Changes`) or one slip
(`Slips`) are made to an input of `Library` before it is compiled.

### RunPlan

`Read` is `read_parameter_file` with everything it refuses; `Prepare` the plan
(selection, expansion, exclusion, paths, the planner's refusals); `Snapshot`
copies the file as it is *then*; `Open` writes the manifest; `Bind` binds one
combination. `Edit` is somebody else saving the file at any moment.

- A value is a sequence of words (the parts of a name between dashes), so
  joining names is concatenation and two paths may coincide.
- A content stands for its hash. Numbers, definitions and patterns are
  abstracted to whether they parse; unsigned limits keep their range, with
  `MaxUnsigned` in the place of the largest one.

### RunSet

`Runs` are processes. `Resolve` chooses the directory, `Snapshot` creates it,
`Open` writes the manifest; then, per combination, `Solve`, `WriteArtifact`,
`WriteTrace` and `RecordSuccess` or `RecordFailure`; `Finalize` seals. Each
step contains at most one change of the file system, so a `Kill` between two
steps, or in the middle of a write, is every crash that can be told apart.
A write has four outcomes (`Writes`): complete, refused when the file is opened,
cut short with an error, and lost without one. The report of
`tools/chapter6_report.py` is the operator `Reported`: what it lists as `ok` at
this moment.

The stable sort by "is a reference" is defined by where it puts each
combination (`Rank`: one more than the number of those before it), which is
what the proofs can speak about. `NextDirectory` looks for a number that no
directory has; the code counts on without limit, the model up to the numbers
in `Numbered`.

`Overlap` says whether a second invocation may start before the first ended.
The passing run says no, which is how `tools/run_chapter6.sh` calls the runner;
what happens otherwise is a finding.

## 3. Runs

| Run | Shows | Bounds |
|---|---|---|
| `pdas` | type, `ConvergedIsFirstOrder`, `StableSetIsExact`, `AnswerIsReported`, `ImplementsBoxSolve` | two coefficients with boxes [0,2] and [2,3] and Riesz weights 1, 2; every start; every KKT answer over two values and three forces; cap 3; tolerances 1 and a KKT solver that is off by 2 |
| `pdas_quadratic` | `FindsMinimiser` | couplings -1, 0, 1, all loads, box [0,6]x[-6,0], every start and multiplier, cap 5 |
| `trust_region` | type, `AuditNeverFails`, `WorkAccounted`, `ModelNeedsGradient`, `RadiusFollowsModel`, `ImplementsDescentSearch` | objectives 0..3 and not finite; norms 0, 1, 4; predictions on both sides of each threshold; radii from 1 to 8; two iterates, three trials, every criterion, both subproblems |
| `reduced_search` | type, `AuditRefusesOnlyNaN`, `StationaryReturns`, `WorkAccounted`, `LogExplainsSteps`, `ImplementsDescentSearch` | objectives 0..2, infinite, NaN; steps 4, 2, 1 with floor 2; two iterates, three trials; every criterion, line search, projection, target |
| `direction_policies` | type, `PolicyEndsSolveByContract`, `FallbackOnlyWhenStationary`, `TwoLoopIsBFGS`, `QuadraticTermination` | four quadratics in two and three coefficients under two metrics, one arbitrary model with an indefinite Hessian among its two; every policy, restart interval 0..2, memory 1 and 2, both scalings; four calls, three inner iterations |
| `problem_compilation` | `PortsResolve`, `FamilyNamesModel`, `ObjectiveRealised`, `FacesHaveOneRole` | the library's 26 graphs with fitting data and mesh, every graph two changes or one slip away from one of them; a change is another term, search space, boundary condition or region, a second observation, a loss that observes something else, an H1/2 loss, other data, another mesh |
| `run_plan` | type, `CombinationsComplete`, `ManifestIsOneContent`, `SelectionReplays`, `ValidationAgrees`, `OnlyKnownGapsAbandon`, `LimitFromOneLevel` | files one or two edits away from the tracked B1 and B2 files, seven command lines, one edit of the file at any moment, largest unsigned 3 |
| `run_set` | type, `ReportIsOwn`, `ReferencesDecideFirst`, `ExitMatchesManifest`, `DevelopmentKept`, `ImplementsLedger` | two invocations, one after the other, of a plan with a dependent artifact before its reference; every pair of kinds that can meet in one directory |
| `trust_region_zero`, `run_set_flush`, `run_set_overlap`, `problem_terms` | the four findings of section 6 | as above, one constant changed or another property checked |

Why the bounds suffice. `pdas`: the properties speak of one coefficient at a
time or of one iteration, and two coefficients give every pair of labels, so an
active set may be wrong on one coefficient and right on the other; three
iterations reach a stable set, a cycle of two and the cap. The descent solvers:
properties relate neighbouring records, which two accepted iterates have; three
trials separate "first", "between" and "last", and the smallest radius and
floor are reached within them. `direction_policies`: with four calls a history
of memory 2 overflows once, every restart interval passes, and three
coefficients are one more than the recurrences can hide; the metric that is not
the identity tells a Riesz representative from a derivative. `run_plan`: one
edit is enough to make two readings differ, and there is no third; each file
breaks one rule of the reader, the planner or the binder, and the command lines
override, repeat, miss and contradict what it selects. `problem_compilation`: a
stage is deceived by two features that it considers separately, which two
changes provide. (The same properties were also checked once with three changes
on seven of the graphs, which gave 311102 states and nothing new.) `run_set`: a
directory can be wrong because of *one* earlier invocation, and a plan of two
has an artifact that depends, one that is depended upon, and an order that must
be changed. The proofs of section 5 remove the bounds where they exist.

Every bound is a CONSTANT: `MaximumIterations`, `MaximumTrials`,
`MaximumSubproblemIterations`, `InnerLimit`, `Calls`, `MaxChanges`, `Edits`,
`Numbered` and the input sets. The iteration and trial limits are the program's
own parameters, so nothing is cut off that the program would do.

Runs check for deadlock, except where the system really stops: after the last
call of a policy, the one compilation of an author, the execution of a plan
(`CHECK_DEADLOCK FALSE` in their configurations).

## 4. Fairness and liveness

The solvers are sequential loops in one thread: unless a callback hangs, the
next step is taken. `WF_vars` of the loop's actions says just that, and nothing
about which outcome a callback chooses. Under it the refinements show that each
call *ends*, in `FindsMinimiser` with the minimiser. In `RunSet` each
invocation has weak fairness on its own steps, because every solver it calls
has an iteration limit; `Kill` has none, so no property relies on a crash
happening or not. `DirectionPolicies`, `RunPlan` and `ProblemCompilation` state
no liveness: their steps are calls that return, and what ends the loops around
them is shown in `ReducedSearch` and `RunSet`.

## 5. Proofs

TLAPS proves the following from the constants' named assumptions, for any
number of coefficients, any limits, any oracle values, any file and command
line, any plan, any number of invocations, any library of graphs:

| Theorem | States |
|---|---|
| `PDASProofs!TypeCorrect` | `TypeOK` |
| `PDASProofs!ConvergedCorrect` | `ConvergedIsFirstOrder` |
| `PDASProofs!StableSetCorrect` | `StableSetIsExact` |
| `PDASProofs!AnswerCorrect` | `AnswerIsReported` |
| `PDASProofs!InequalityCorrect` | `SolvesInequality`: a stable set solves the variational inequality of the box |
| `PDASProofs!ImplementsPromise` | safety half of `ImplementsBoxSolve` |
| `TrustRegionProofs!TypeCorrect` | `TypeOK` |
| `TrustRegionProofs!AuditCorrect` | `AuditNeverFails`, if `AcceptanceThreshold > 0` |
| `TrustRegionProofs!ModelCorrect` | `ModelNeedsGradient` |
| `TrustRegionProofs!RadiusCorrect` | `RadiusFollowsModel` |
| `TrustRegionProofs!WorkCorrect` | `WorkAccounted` |
| `TrustRegionProofs!ImplementsPromise` | safety half of `ImplementsDescentSearch`, if `AcceptanceThreshold > 0` |
| `ReducedSearchProofs!TypeCorrect` | `TypeOK` |
| `ReducedSearchProofs!AuditCorrect` | `AuditRefusesOnlyNaN` |
| `ReducedSearchProofs!StationaryCorrect` | `StationaryReturns` |
| `ReducedSearchProofs!WorkCorrect` | `WorkAccounted` |
| `ReducedSearchProofs!LogCorrect` | `LogExplainsSteps`, if `MinimumStep > 0` |
| `ReducedSearchProofs!ImplementsPromise` | safety half of `ImplementsDescentSearch` |
| `DirectionPoliciesProofs!Invariance` | the inductive invariant `Inv`, if `Elliptic` |
| `DirectionPoliciesProofs!Types` | `TypeOK`, and `BlocksFit`: every block in the layout of its problem, every stored pair of positive curvature; if `Elliptic` |
| `DirectionPoliciesProofs!EndsByContract` | `Contract`, and with it `PolicyEndsSolveByContract` of every policy but Newton, if `Elliptic` |
| `DirectionPoliciesProofs!FallbackAtStationary` | `FallbackOnlyWhenStationary`, if `Elliptic` |
| `DirectionPoliciesProofs!TwoLoopIdentity` | `TwoLoopIsBFGS`, if `Elliptic` |
| `DirectionPoliciesProofs!Termination` | `QuadraticTermination`, if `Elliptic` and `OneHessian` |
| `DirectionPoliciesProofs!NewtonEndsByContract` | `NewtonContract`: why Newton may throw, if `Elliptic` |
| `RunSetProofs!TypeCorrect` | `TypeOK` |
| `RunSetProofs!ReferencesCorrect` | `ReferencesDecideFirst` |
| `RunSetProofs!ExitCorrect` | `ExitMatchesManifest` |
| `RunSetProofs!ReportCorrect` | `ReportIsOwn`, if `~Overlap` |
| `RunSetProofs!DevelopmentCorrect` | `DevelopmentKept`, if `~Overlap` |
| `RunSetProofs!ImplementsPromise` | safety half of `ImplementsLedger` |
| `RunPlanProofs!ManifestCorrect` | `ManifestIsOneContent` |
| `RunPlanProofs!GapsCorrect` | `OnlyKnownGapsAbandon` |
| `RunPlanProofs!LimitsCorrect` | `LimitFromOneLevel` |
| `RunPlanProofs!TypeCorrect` | `TypeOK` |
| `RunPlanProofs!CompleteCorrect` | `CombinationsComplete` |
| `RunPlanProofs!ReplayCorrect` | `SelectionReplays` |
| `RunPlanProofs!ValidationCorrect` | `ValidationAgrees` |
| `ProblemCompilationProofs!PortsCorrect` | `PortsResolve`, if authors make graphs (`Authoring`) |
| `ProblemCompilationProofs!FamilyCorrect` | `FamilyNamesModel` |
| `ProblemCompilationProofs!FacesCorrect` | `FacesHaveOneRole`, if `Authoring` |
| `ProblemCompilationProofs!ObjectiveCorrect` | `ObjectiveRealised`, if `Authoring` |

*Active sets.* None of the properties is inductive: each speaks of the finished
state, while what makes it true is that point, multiplier, active set and
report come from the same loop body. `Linked` states that; it is inductive
together with `TypeOK`. `StableSetCorrect` then rests on `ConfirmedLabel`: if
classifying the recovered multiplier gives back the label it was recovered
with, the multiplier has that label's sign, which needs a proper interval,
`C > 0` and a positive Riesz weight (`ScaleSign`).
`InequalityCorrect` says what a stable set is good for: when its KKT solve
converged, no admissible change of any coefficient has a negative first-order
effect, but for the solve's tolerance times the width of the interval. For a
convex objective with exact solves that is minimality. It needs no proper
interval (`ConfirmedSign` gives the signs by the *labels*, not by the branches of
the dual residual), and one more invariant, `Balanced`: on the free coefficients
a converged solve leaves no more than its tolerance.

*Trust region.* The audit is a statement over all records, so the invariant
`Recorded` carries it through the run: histories and records have matching
lengths, the last objective is the current one, and `Audit` holds of what has
been recorded so far. `AuditAppendRecord` extends it by one record;
`AcceptedReduction` gives the strict decrease, from
`AcceptanceThreshold > 0`. Without that assumption the theorem is false, and the
run `trust_region_zero` shows it.

*Line search.* `Recorded` plays the same part, with one difference: an initial
objective that is not a number never compares equal to itself, so the audit is
promised only when the first objective is a number. `AcceptedImproves` says what
each line search accepts, `HeadDecides` what the stopping tests leave over when
the descent requirement is reached; `StationaryCorrect` needs both the order of
those tests and every criterion's own guard.

*Work.* `WorkAccounted` adds up differences, and the counters run ahead of the
records while an iteration is under way. `Accounted` therefore says by how much
in each state (relative to `Baseline`, the total of the last record), and
`Counted` that each record's work is the difference of its neighbours' totals.
Both descent solvers are proved along this line.

*Trial log.* `LogCorrect` is about the Armijo policy. `Explained` says it of the
log as it stands: the steps of one iteration only shrink and none is below
`MinimumStep`, only the last trial of an iteration is accepted, and there are as
many accepted entries as records. It is not inductive alone: `Behind` adds that,
while a trial is under way, the trials logged so far belong to earlier iterations
or were refused at a longer step. `MinimumStep > 0` is the promise of
`SolverOptions` and is what makes the floor mean something.

*Run set.* `ReferencesCorrect` needs to know what a stable sort does without an
induction over it: `RankBijection` shows that `Rank` puts the combinations into
places one to one, `OrderCorrect` that the references come first and that
nothing is lost. `Progress` and `Decided` then say that exactly the entries
before the position have a verdict. `ExitCorrect` rests on three conditions that
only hold together: `Honest` (a sealed manifest says of itself what its
entries say), `Blamed` (the flag of the loop is down only when an entry shows why
or recording it threw) and `Sealed` (who exits normally leaves a manifest that
says so). Without overlap more is true: `Sequential`
(at most one invocation is under way), `Owned` and `Files` (whose work each file
is), `Kept` and `Unused` (a development directory that exists is not chosen
again); `ReportCorrect` and `DevelopmentCorrect` follow from these, for any number
of invocations with any failing writes and kills. With overlap they are false,
which the run `run_set_overlap` shows.

*Direction policies.* The properties are about sums, products and quotients over
a history, so `RationalVectorsProofs` first makes a field of the pairs in lowest
terms (with a gcd that TLC can evaluate, whose existence and uniqueness is
shown through least elements of sets of naturals) and a vector space with a
bilinear form of the blocks. `Elliptic` says that a metric is a scalar product
and the Hessians of a quadratic are positive definite, for *all* vectors; the
configuration's own problems satisfy it on a grid of vectors
(`EllipticAssumption`). `Inv` then says that answers, previous iterate, secant
pairs and trail belong together: the pairs are the differences of the trail,
each has positive curvature, and after an exact search the previous direction
is orthogonal to the current derivative. Descent follows for each update from
that orthogonality, for the quasi-Newton policies from
`SecondLoopStep`: by induction over the pairs the recursion applies a matrix
that stays positive definite, which also settles the fallback. `EndsByContract`
collects what remains: only the classical recurrence throws, either at a
stationary iterate (also at the minimiser of a quadratic, because the direction
is asked for before the stopping tests) or in a call that uses its history, and
then on a quadratic only if the squared gradient of that history is at most the
curvature tolerance.
`TwoLoopIdentity` shows that each further pair of the recursion is the rank-two
update of the matrix before it.

*Termination on a quadratic.* One family of directions stands behind all the
policies. `Conjugates` says of it that the directions are conjugate, that each
derivative vanishes along the earlier directions, and that each gradient lies in
the span of the directions up to its own; the last part is stated without spans,
as "what vanishes along the directions vanishes along the gradient".
`DirectionAdded` extends the family by any combination of the new gradient and
the last direction that is conjugate to the last one. What remains is to show
that each policy returns such a combination: the recurrences, because their
coefficient makes it conjugate once the gradients are orthogonal (`NumeratorIs`,
`ConjugateGoesOn`); L-BFGS and BFGS, because with an exact search the first loop
finds nothing to subtract (`FirstLoopIdles`) and the second corrects along the
last step only (`SecondLoopCorrects`), whatever the memory and the scaling.
`Searching` carries the family along the trail and is inductive with `Inv` and
`Recorded`. That as many conjugate directions as coefficients leave nothing to
minimise (`DirectionsEnd`) is the dimension argument: more orthogonal pairings
than coefficients cannot be (`Independence`, from Gaussian elimination over the
rationals, `KernelExists`).

*Newton.* Its inner iteration builds the same family in a nested loop.
`InnerRuns` unrolls the recursive function into its states, `Solved` is the
invariant over them: beside the family, the residual is what the direction so
far leaves of the derivative (`Balances`), and the direction lies in the span of
the searches (`Spans`), so that it descends strictly faster with each iteration
(`SearchDescends`). The loop ends converged unless a direction is weak or the
limit is below the dimension, again by `DirectionsEnd`; that is
`NewtonEndsByContract`, for any model that the outer search moves on. On a
quadratic the direction found descends as steeply as the model curves along it,
so the exact step has length one and lands where the inner iteration stopped
(`FullStep`, `MoveSteps`).

`OneHessian` (a quadratic has one Hessian, self-adjoint) is what "quadratic"
means; like `Elliptic` it is sampled on the configuration's problems.

*Parameter file.* `Settled` ties each stage to the later ones: the plan is that of
the file that was read, passed the reader and the planner and has fitting
lengths and types, the manifest records that file, and each bound combination
was bound from both. The folds over axes and filters are unrolled into functions
of their intermediate results (`Unrolled`, `PartialProducts`, `Applied`), so that
an induction over an interval of positions (`Grid`, `Earlier`) says what they
hold: `CompleteCorrect` that the products are the declared combinations in
order, `ReplayCorrect` that a prefix of the recorded filters leaves the
selection of the file as it was recorded.

*Ports.* The argument follows the validator. An index without faults has one
component per identifier (`Indexing`), so that a lookup that finds something
found a component of the identifier it was given (`Found`), and each check that
reports nothing establishes the ports it read (one lemma per kind of component).
`ReportClosed` collects them, `CompiledValid` adds that nothing passes the
validation with a diagnostic. `Authoring` says of the library and of what authors
make of it only what the C++ types say (`Graph`); the configuration's own library
satisfies it by `AuthoringTyped`.

*Family.* A result that compiled passed every stage (`CompiledPasses`) on a
request that is closed over its own facts (`RequestCloses`, `Closes`). What the
combination stage leaves of the features is `Combined`; on it the chain for the
family and the chain for the model agree (`FamilyIsModel`). No assumption is
needed, not even typed graphs.

*Faces.* One argument per model (`FacesByModel`): the Neumann and Dirichlet
models through the disjointness the compiler checks, the scalar one through the
least fixed-Dirichlet policy, which both the validator and the compiler look for
under different conditions; the exception in `FacesHaveOneRole` is exactly the
case where they find different ones.

*Objective.* A completed loss set is one tracking loss and one other
(`TwoLosses`), each observes a component of the graph (`LossObserves`), and the
validator has checked that component's kind against its region and its input
(`CheckedObservation`). From there it is one argument per model: the tracked
region is the domain (`VolumeTracking`), the features name every kind of
observation (`H1Tracked`, `H1Untracked`), the pair of observations leaves no
third (`PairTracked`), the registered composition fixes both losses
(`RegisteredComposition`), the parameter's own checks tie its loss. TLC found
the two exceptions in `ObjectiveRealised`; with them the statement is proved for
every graph of the program's types.

The refinement theorems prove the safety half of each refinement,
`Spec => Promise!Init /\ [][Promise!Next]_...`.

Only model-checked: all liveness (fairness and ENABLED are out of the prover's
reach), hence `FindsMinimiser` and the `<>` half of the refinements; the Newton
part of `PolicyEndsSolveByContract`, which is stronger than `NewtonContract`
because the checked problems have neither weak directions nor more coefficients
than inner iterations. Every other invariant of a run is stated by a theorem.

## 6. Findings

1. **A zero acceptance threshold can lose a solve** (`trust_region_zero`):
   `validate_parameters` admits it, a step without reduction is accepted, and
   the closing audit demands a positive one (`solvers/reduced_trust_region.hpp:873`).
2. **Exit 0 without evidence** (`run_set_flush`): streams are tested before they
   are flushed and closed (`apps/nmopt-runner/chapter6_execution.hpp:564`,
   `run_lifecycle.hpp:660`).
3. **Overlapping development runs** (`run_set_overlap`): the directory is looked
   up and created in two steps (`run_lifecycle.hpp:356`), so two invocations may
   share a slot, which `docs/reference/application-execution.md:526` excludes.
4. **Terms that are left out** (`problem_terms`): a graph with one more
   registered residual term closes as its family does and the model assembles
   the family's terms only (`compiler/v1/dealii_compiler.hpp:3854`), although the
   compiler "never falls back to a nearby term"
   (`compiler/v1/dealii_capabilities.hpp:7`).

Met while modelling, faithful in the modules and not the subject of a run:

- A coefficient whose bounds coincide never lets the active-set loop converge:
  the dual residual judges it by its first branch (`contract/pdas.hpp:845`),
  where `docs/manual/concepts/08-complementarity-and-pdas.md:1474` needs no
  further change.
- Objective-change stopping compares the *absolute* change
  (`solvers/reduced_gradient.hpp:412`); `docs/reference/optimization.md:309`
  speaks of the reduction, so a large accepted increase does not stop.
- The classical conjugate-gradient recurrence throws at an exact minimiser,
  where the others return (`solvers/reduced_search.hpp`, the denominator's
  requirement).
- B2's axes are looked at after the manifest is open and outside the `try` of
  the loop (`chapter6_execution.hpp:769`), and so is B1's reference method: the
  manifest stays at `running`. `OnlyKnownGapsAbandon` says that these two are
  all.
- The manifest's hash is of the content that was read, `parameters.prm` of the
  content when it was copied (`main.cc:233`).
- A `--select` replaces the file's selection of that axis;
  `docs/reference/parameter-files.md:623` calls it narrowing.
- `parameter_unsigned` converts before it compares (`parameter_files.hpp:242`).
- A `--run-slot` is ignored for a reproduction file.
- The validator compares a boundary source with the region of the *first*
  fixed-Dirichlet policy of the state, whatever its status
  (`semantic/v1/detail/validation_detail.hpp:890`); the compiler fixes that of
  the first *selected* one (`compiler/v1/dealii_compiler.hpp:2846`). With an
  assumed policy on another boundary before it, a source on the fixed boundary
  compiles, although `tests/semantic/semantic_v1_contract.cc:686` refuses the
  overlap. `FacesHaveOneRole` excepts this case and no other.
- Of two policies that carry the same typed selection the compiler takes the
  last (`dealii_compiler.hpp:403`), the validator the first.
- Outside Dirichlet control and coefficients no check ties an observation to the
  loss it belongs to: volume observations are looked at one by one for their
  region (`dealii_compiler.hpp:4389`), and the scalar model tracks in H1 as soon
  as any observation is an `h1_state_restriction`
  (`compiler/v1/dealii_fixed_dirichlet.hpp:182`), whatever the tracking loss
  observes. A graph with a second observation may so compile to a model that
  tracks another one than its loss names.
- An H1/2 control loss is matched with its metric for Dirichlet targets only
  (`dealii_compiler.hpp:3727`), while every target accepts it as a complete loss
  set (`dealii_compiler.hpp:4019`): Neumann and continuous controls then assemble
  the L2 regularisation. Of unsupported combinations
  `docs/planning/implementation-roadmap.md:271` says that they "must not quietly
  fall back to a nearby but different mathematical problem". `ObjectiveRealised`
  excepts these two cases and no other.
- Tracking on a material subdomain compiles although no cell has the material
  (`dealii_compiler.hpp:1359`).
- With two full volumes the verdict depends on the hash table's order
  (`semantic/v1/detail/validation_detail.hpp:545`).

## 7. What is not modelled

- *Floating-point arithmetic*: rounding, underflow and conditioning. Where the
  code tests for their consequences the model throws nondeterministically;
  `DirectionPolicies` computes exactly.
- *Evaluation and lifetime tokens of the reduced DTO*: the check is an equality
  of shared pointers at the head of each call, and the misuse it guards against
  is a call in the wrong order by code outside the library.
- *Supplied optimise-then-discretise at run time*: the declaration is validated
  in `SemanticValidation`; its execution pairs values of user callbacks and has
  no control beyond the checks.
- *Layouts, metrics, linear algebra, deal.II services*: immutable values and
  kernels on floating-point data. The requirements of their constructors are
  assumptions on the constants or the `Throw` actions.
- *Numerical assembly of the models*: `TargetRealisation` models which terms,
  observation, loss, metric and faces a model gets, not how it integrates them.
- *Parameter binding*: methods and line-search limits are bound as the code
  does; the other numbers of a binder are copied or refused one by one.
- *Applications, artifact text, plots, tables, the postprocessor's walk over a
  directory tree, Step-4 examples, build scripts*: rendering and glue.

## 8. Plan

Done so far, in this order: active sets, trust region, line search, runner, each
with its abstract specification; direction policies; parameter files and plans;
the semantic model with its library and validation; the compiler's decisions.
Proofs for all of them.

Next, in order of worth:

1. An abstract specification of `RunPlan` joined to `RunSet`: the inventory of a
   ledger as the plan of the file that its manifest names, over several
   invocations (`main.cc:232`), and the postprocessor's walk over leftovers
   (`tools/nmopt_postprocess/pipeline.py:654`).
2. From the variational inequality to the minimiser of every convex quadratic
   program, in any number of coefficients (today `InequalityCorrect` in general
   and `FindsMinimiser` on instances).
3. `QuadraticKKT`: signs and adjoints of the first-order system, against a
   reference definition on small integer data.
4. `ReducedDTO`: evaluation and lifetime tokens, if services become shared
   between solves.
