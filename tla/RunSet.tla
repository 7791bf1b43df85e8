------------------------------- MODULE RunSet --------------------------------
(***************************************************************************)
(* The runner of apps/nmopt-runner: invocations that choose a run          *)
(* directory, snapshot their configuration, open a manifest with the whole *)
(* inventory, execute one artifact after the other (chapter6_execution),   *)
(* record each, and seal the manifest; and the two readers of a run        *)
(* directory, the report and the postprocessor.                            *)
(*                                                                         *)
(* An invocation is a process; what survives it is the file system.  Every *)
(* file is rewritten in place: opening it may be refused, writing may stop *)
(* half way with an error the code sees, or lose the tail without one,     *)
(* because the stream is tested before it is closed.  A process may be     *)
(* killed at any point.                                                    *)
(***************************************************************************)
EXTENDS Naturals, FiniteSets, Sequences, SequencesExt

CONSTANTS
  Runs,         \* invocations, as positive numbers
  Kinds,        \* what the runs may be: functions from Runs to the three kinds
  Policies,     \* which of them match a reference: functions from Runs to BOOLEAN
  Plan,         \* the resolved combinations, in matrix order
  References,   \* the artifacts of the objective-target reference method
  Coordinate,   \* artifact -> its regularisation
  Slot,         \* the directory a named development run asks for
  Numbered,     \* development/001, 002, ... in that order
  Overlap       \* may two invocations run at the same time?

Artifacts == Range(Plan)
Authoritative == "authoritative"
Directories == {Authoritative, Slot} \cup Range(Numbered)
Nobody == 0

ASSUME RunSetAssumption ==
  /\ Runs \subseteq Nat \ {Nobody}
  /\ Kinds \subseteq [Runs -> {"reproduction", "slot", "next"}]
  /\ Policies \subseteq [Runs -> BOOLEAN]
  /\ Plan \in Seq(Artifacts) \ {<<>>} /\ IsInjective(Plan)
  /\ References \subseteq Artifacts /\ Artifacts \subseteq DOMAIN Coordinate
  /\ Numbered \in Seq(Range(Numbered))
  /\ Slot # Authoritative /\ Authoritative \notin Range(Numbered)
  /\ Overlap \in BOOLEAN

VARIABLES
  kind,         \* of each run: "reproduction", "slot" or "next"
  matched,      \* of each run: is the objective target policy match-reference-method?
  pc,           \* of each run: what it does next, or how it ended
  directory,    \* of each run: its run directory, once resolved
  position,     \* of each run: the index of the combination it executes
  records,      \* of each run: records_, artifact -> status with the kind of error
  succeeded,    \* of each run: all_artifacts_succeeded
  references,   \* of each run: the coordinates in objective_references
  exists,       \* the directories that exist
  manifest,     \* directory -> run-manifest.json
  document,     \* directory -> artifact -> artifact.kv
  trace         \* directory -> artifact -> the run that wrote solver-trace.csv

vars == <<kind, matched, pc, directory, position, records, succeeded,
          references, exists, manifest, document, trace>>
choices == <<kind, matched>>
memory == <<records, succeeded, references>>
files == <<document, trace>>

Ended == {"exit0", "exit1", "exit2", "killed"}
Pending == [a \in Artifacts |-> "pending"]
NoFile == [by |-> Nobody, whole |-> FALSE]

-----------------------------------------------------------------------------
(* Writing a file *)

Writes == {"written", "lost", "cut", "refused"}
Raises(w) == w \in {"cut", "refused"}

\* What the file holds after the write w of content new over content old.
After(w, old, new, damaged) ==
  CASE w = "written" -> new
    [] w = "refused" -> old
    [] OTHER         -> damaged

\* RunSetManifest::write: the torn file is no JSON document.
Torn(r) == [by |-> r, status |-> "torn", entries |-> Pending]
\* Faulty variant: an artifact without its reference is not counted as failed.
StatusOfExceptions(entries) ==
  IF \E a \in Artifacts : entries[a] = "failed" THEN "failed" ELSE "complete"
Status(entries) == IF \E a \in Artifacts : entries[a] \in {"failed", "unmatched"}
                   THEN "failed" ELSE "complete"
Save(r, w, status, entries) ==
  manifest' = [manifest EXCEPT ![directory[r]] =
    After(w, @, [by |-> r, status |-> status, entries |-> entries], Torn(r))]

Goto(r, next) == pc' = [pc EXCEPT ![r] = next]

-----------------------------------------------------------------------------
(* Opening a run set *)

Init ==
  /\ kind \in Kinds /\ matched \in Policies
  /\ pc = [r \in Runs |-> "called"]
  /\ directory = [r \in Runs |-> Authoritative]
  /\ position = [r \in Runs |-> 1]
  /\ records = [r \in Runs |-> Pending]
  /\ succeeded = [r \in Runs |-> TRUE]
  /\ references = [r \in Runs |-> {}]
  /\ exists = {}
  /\ manifest = [d \in Directories |-> [by |-> Nobody, status |-> "absent", entries |-> Pending]]
  /\ document = [d \in Directories |-> [a \in Artifacts |-> NoFile]]
  /\ trace = [d \in Directories |-> [a \in Artifacts |-> Nobody]]

\* next_development_directory: the first number no directory has.  Numbered bounds
\* the numbers.
NumbersLeft == \E i \in DOMAIN Numbered : Numbered[i] \notin exists
NextDirectory ==
  Numbered[CHOOSE i \in DOMAIN Numbered :
    Numbered[i] \notin exists /\ \A j \in 1 .. i - 1 : Numbered[j] \in exists]

Candidate(r) ==
  CASE kind[r] = "reproduction" -> Authoritative
    [] kind[r] = "slot"         -> Slot
    [] kind[r] = "next"         -> NextDirectory

\* The schedule: without Overlap an invocation starts when those before it ended.
MayStart(r) == Overlap \/ \A q \in Runs : q < r => pc[q] \in Ended

\* Faulty variant: a used slot is not refused.
ResolveReusing(r) ==
  /\ pc[r] = "called" /\ MayStart(r)
  /\ Goto(r, "resolved")
  /\ directory' = [directory EXCEPT ![r] = Candidate(r)]
  /\ UNCHANGED <<choices, position, memory, exists, manifest, files>>

\* prepare_run: a bad parameter file or a used slot ends the call; nothing is
\* created yet.
Resolve(r) ==
  /\ pc[r] = "called" /\ MayStart(r)
  /\ \/ Goto(r, "exit2") /\ UNCHANGED directory
     \/ /\ ~(kind[r] = "slot" /\ Slot \in exists)
        /\ kind[r] = "next" => NumbersLeft
        /\ Goto(r, "resolved")
        /\ directory' = [directory EXCEPT ![r] = Candidate(r)]
  /\ UNCHANGED <<choices, position, memory, exists, manifest, files>>

\* snapshot_configuration: creates the directory before it writes the snapshots.
Snapshot(r) ==
  /\ pc[r] = "resolved"
  /\ exists' = exists \cup {directory[r]}
  /\ pc' \in {[pc EXCEPT ![r] = next] : next \in {"snapshotted", "exit2"}}
  /\ UNCHANGED <<choices, directory, position, memory, manifest, files>>

\* Faulty variant: the constructor does not write the manifest.
OpenUnsaved(r) ==
  /\ pc[r] = "snapshotted"
  /\ Goto(r, "solving")
  /\ UNCHANGED <<choices, directory, position, memory, exists, manifest, files>>

\* The manifest constructor.
Open(r) ==
  /\ pc[r] = "snapshotted"
  /\ \E w \in Writes : /\ Save(r, w, "running", records[r])
                       /\ Goto(r, IF Raises(w) THEN "exit2" ELSE "solving")
  /\ UNCHANGED <<choices, directory, position, memory, exists, files>>

-----------------------------------------------------------------------------
(* Executing the artifacts: the loop of run_b1; run_b2 is the unmatched case *)

IsReference(a) == a \in References
\* The stable sort by "is a reference": which combinations come before the i-th, and
\* where that leaves it.
Precedes(j, i) ==
  IF IsReference(Plan[j]) = IsReference(Plan[i]) THEN j < i ELSE IsReference(Plan[j])
Rank(i) == 1 + Cardinality({j \in DOMAIN Plan : Precedes(j, i)})
ReferenceFirst == [k \in DOMAIN Plan |-> Plan[CHOOSE i \in DOMAIN Plan : Rank(i) = k]]
\* Faulty variant: the combinations stay in matrix order.
OrderUnsorted(r) == Plan
Order(r) == IF matched[r] THEN ReferenceFirst ELSE Plan

Current(r) == Order(r)[position[r]]
LacksReference(r) ==
  /\ matched[r] /\ ~IsReference(Current(r))
  /\ Coordinate[Current(r)] \notin references[r]

\* Binding, compiling, solving and rendering: all that happens before a file is
\* written.  The error an exception leaves is kept in records by RecordFailure.
Solve(r) ==
  /\ pc[r] = "solving"
  /\ IF LacksReference(r)
     THEN Goto(r, "unmatched")
     ELSE Goto(r, "failed") \/ Goto(r, "solved")
  /\ UNCHANGED <<choices, directory, position, memory, exists, manifest, files>>

WriteArtifact(r) ==
  /\ pc[r] = "solved"
  /\ \E w \in Writes :
       /\ document' = [document EXCEPT ![directory[r]][Current(r)] =
            After(w, @, [by |-> r, whole |-> TRUE], [by |-> r, whole |-> FALSE])]
       /\ Goto(r, IF Raises(w) THEN "failed" ELSE "written")
  /\ UNCHANGED <<choices, directory, position, memory, exists, manifest, trace>>

WriteTrace(r) ==
  /\ pc[r] = "written"
  /\ \E w \in Writes :
       /\ trace' = [trace EXCEPT ![directory[r]][Current(r)] = After(w, @, r, r)]
       /\ Goto(r, IF Raises(w) THEN "failed" ELSE "traced")
  /\ UNCHANGED <<choices, directory, position, memory, exists, manifest, document>>

\* Faulty variant: the loop runs one combination too far.
AdvanceBeyond(r) ==
  /\ position' = [position EXCEPT ![r] = @ + 1]
  /\ Goto(r, IF position[r] > Len(Plan) THEN "executed" ELSE "solving")

\* The next combination, or the end of the loop.
Advance(r) ==
  /\ position' = [position EXCEPT ![r] = @ + 1]
  /\ Goto(r, IF position[r] = Len(Plan) THEN "executed" ELSE "solving")

Marked(r, status) == [records[r] EXCEPT ![Current(r)] = status]

\* record_success, then the objective of a reference that stopped at its tolerance
\* (reference_reached_stopping_tolerance) is kept.  An exception after the record
\* was updated lands in the handler that records a failure.
RecordSuccess(r) ==
  /\ pc[r] = "traced"
  /\ records' = [records EXCEPT ![r] = Marked(r, "ok")]
  /\ \E w \in Writes, stopped \in BOOLEAN :
       LET stores == stopped /\ matched[r] /\ IsReference(Current(r))
       IN  /\ Save(r, w, "running", Marked(r, "ok"))
           /\ \/ /\ Raises(w) \/ stores
                 /\ Goto(r, "failed")
                 /\ UNCHANGED <<position, references>>
              \/ /\ ~Raises(w)
                 /\ Advance(r)
                 /\ references' = [references EXCEPT ![r] =
                      IF stores THEN @ \cup {Coordinate[Current(r)]} ELSE @]
  /\ UNCHANGED <<choices, directory, succeeded, exists, files>>

\* Faulty variant: a failure overwrites what is already recorded.
RecordFailureAgain(r) ==
  /\ pc[r] \in {"failed", "unmatched"}
  /\ succeeded' = [succeeded EXCEPT ![r] = FALSE]
  /\ records' = [records EXCEPT ![r] = Marked(r, pc[r])]
  /\ \E w \in Writes :
       /\ Save(r, w, "running", Marked(r, pc[r]))
       /\ IF Raises(w) THEN Goto(r, "exit2") /\ UNCHANGED position
                       ELSE Advance(r)
  /\ UNCHANGED <<choices, directory, references, exists, files>>

\* The handler: record_failure refuses an artifact that is already recorded, and
\* what it throws ends the whole invocation.
RecordFailure(r) ==
  /\ pc[r] \in {"failed", "unmatched"}
  /\ succeeded' = [succeeded EXCEPT ![r] = FALSE]
  /\ IF records[r][Current(r)] # "pending"
     THEN Goto(r, "exit2") /\ UNCHANGED <<position, records, manifest>>
     ELSE /\ records' = [records EXCEPT ![r] = Marked(r, pc[r])]
          /\ \E w \in Writes :
               /\ Save(r, w, "running", Marked(r, pc[r]))
               /\ IF Raises(w) THEN Goto(r, "exit2") /\ UNCHANGED position
                               ELSE Advance(r)
  /\ UNCHANGED <<choices, directory, references, exists, files>>

-----------------------------------------------------------------------------
(* Sealing *)

\* finalize: what is still pending was not executed.
Finalized(entries) == [a \in Artifacts |-> IF entries[a] = "pending" THEN "failed" ELSE entries[a]]

Finalize(r) ==
  /\ pc[r] = "executed"
  /\ records' = [records EXCEPT ![r] = Finalized(@)]
  /\ LET status == Status(Finalized(records[r]))
     IN  \E w \in Writes :
           /\ Save(r, w, status, Finalized(records[r]))
           /\ Goto(r, IF Raises(w) THEN "exit2"
                      ELSE IF status = "complete" /\ succeeded[r] THEN "exit0" ELSE "exit1")
  /\ UNCHANGED <<choices, directory, position, succeeded, references, exists, files>>

\* The process is killed between two steps, or inside the write it was about to do.
Kill(r) ==
  /\ pc[r] \notin Ended \cup {"called"}
  /\ Goto(r, "killed")
  /\ \/ UNCHANGED <<manifest, files>>
     \/ /\ pc[r] \in {"snapshotted", "traced", "failed", "unmatched", "executed"}
        /\ pc[r] \in {"failed", "unmatched"} => records[r][Current(r)] = "pending"
        /\ Save(r, "cut", "running", Pending)
        /\ UNCHANGED files
     \/ /\ pc[r] = "solved"
        /\ document' = [document EXCEPT ![directory[r]][Current(r)] = [by |-> r, whole |-> FALSE]]
        /\ UNCHANGED <<manifest, trace>>
     \/ /\ pc[r] = "written"
        /\ trace' = [trace EXCEPT ![directory[r]][Current(r)] = r]
        /\ UNCHANGED <<manifest, document>>
  /\ UNCHANGED <<choices, directory, position, memory, exists>>

Step(r) ==
  \/ Resolve(r) \/ Snapshot(r) \/ Open(r)
  \/ Solve(r) \/ WriteArtifact(r) \/ WriteTrace(r)
  \/ RecordSuccess(r) \/ RecordFailure(r) \/ Finalize(r)

Done == (\A r \in Runs : pc[r] \in Ended) /\ UNCHANGED vars

Next == (\E r \in Runs : Step(r) \/ Kill(r)) \/ Done

\* Every call of a step returns: solvers have iteration limits.
Spec == Init /\ [][Next]_vars /\ \A r \in Runs : WF_vars(Step(r))
-----------------------------------------------------------------------------
(* The readers of a run directory *)

Readable(d) == manifest[d].status \in {"running", "complete", "failed"}
Found(d) == {a \in Artifacts : document[d][a].by # Nobody}

\* chapter6_report: what it lists as ok.  It follows the manifest, refuses a torn
\* one, and searches the directory when there is none.
Reported(d) ==
  CASE manifest[d].status = "absent" -> Found(d)
    [] manifest[d].status = "torn"   -> {}
    [] OTHER -> {a \in Found(d) : manifest[d].entries[a] = "ok"}

\* What it lists as missing: ok in the manifest, without a file.
Missing(d) == {a \in Artifacts \ Found(d) : Readable(d) /\ manifest[d].entries[a] = "ok"}

-----------------------------------------------------------------------------
(* Properties *)

Places == {"called", "resolved", "snapshotted", "solving", "solved", "written", "traced",
           "failed", "unmatched", "executed"} \cup Ended
Entries == [Artifacts -> {"pending", "ok", "failed", "unmatched"}]

\* Every variable has its type; an invocation inside the loop has a combination.
TypeOK ==
  /\ kind \in Kinds /\ matched \in Policies
  /\ pc \in [Runs -> Places]
  /\ directory \in [Runs -> Directories]
  /\ position \in [Runs -> 1 .. Len(Plan) + 1]
  /\ \A r \in Runs : pc[r] \in {"solving", "solved", "written", "traced", "failed", "unmatched"}
                      => position[r] \in DOMAIN Plan
  /\ succeeded \in [Runs -> BOOLEAN]
  /\ records \in [Runs -> Entries]
  /\ references \in [Runs -> SUBSET Range(Coordinate)]
  /\ exists \subseteq Directories
  /\ manifest \in [Directories ->
       [by : Runs \cup {Nobody}, entries : Entries,
        status : {"absent", "torn", "running", "complete", "failed"}]]
  /\ document \in [Directories -> [Artifacts -> [by : Runs \cup {Nobody}, whole : BOOLEAN]]]
  /\ trace \in [Directories -> [Artifacts -> Runs \cup {Nobody}]]

\* Whatever the report shows as ok in any directory at any moment was written, with
\* its trace, by the invocation whose manifest it reads -- never left over from an
\* earlier reproduction run, whatever was killed or failed in between.
ReportIsOwn == \A d \in Directories :
  /\ Missing(d) = {}
  /\ \A a \in Reported(d) : document[d][a].by = manifest[d].by /\ trace[d][a] = manifest[d].by

\* A dependent artifact is refused for want of a reference only when its reference
\* was executed before it and gave none; and one that is ok had a reference.
ReferencesDecideFirst == \A r \in Runs : matched[r] => \A a \in Artifacts \ References :
  LET own == {b \in References : Coordinate[b] = Coordinate[a]}
  IN  /\ records[r][a] = "unmatched" => \A b \in own : records[r][b] # "pending"
      /\ records[r][a] = "ok" => \E b \in own : records[r][b] = "ok"

\* The exit status, the sealed manifest and its entries tell the same story.
ExitMatchesManifest == \A r \in Runs :
  LET m == manifest[directory[r]]
  IN  m.by = r /\ Readable(directory[r]) =>
        /\ pc[r] = "exit0" => m.status = "complete"
        /\ pc[r] = "exit1" => m.status = "failed"
        /\ m.status = "complete" => \A a \in Artifacts : m.entries[a] = "ok"
        /\ m.status = "failed" => \E a \in Artifacts : m.entries[a] \in {"failed", "unmatched"}

\* "It does not overwrite an existing run": once a development directory holds the
\* manifest of an invocation, no other invocation writes one there.
DevelopmentKept == [][\A d \in Directories \ {Authoritative} :
                        manifest[d].by # Nobody => manifest'[d].by = manifest[d].by]_vars

\* An invocation that exits with 0 leaves a readable manifest and whole artifacts.
SuccessLeavesEvidence == \A r \in Runs :
  pc[r] = "exit0" /\ manifest[directory[r]].by = r =>
    /\ Readable(directory[r])
    /\ \A a \in Artifacts : document[directory[r]][a].whole

-----------------------------------------------------------------------------
(* What the run set promises *)

Stage(r) ==
  CASE pc[r] \in {"called", "resolved", "snapshotted"} -> "unopened"
    [] pc[r] = "exit0" -> "complete"
    [] pc[r] = "exit1" -> "failed"
    [] pc[r] \in {"exit2", "killed"} -> "abandoned"
    [] OTHER -> "open"

Verdict(status) == IF status \in {"failed", "unmatched"} THEN "error" ELSE status

Ledger == INSTANCE RunLedger WITH
  stage <- [r \in Runs |-> Stage(r)],
  ledger <- [r \in Runs |-> [a \in Artifacts |-> Verdict(records[r][a])]]

\* record_success, record_failure and finalize keep the promise of the inventory:
\* one verdict per artifact, none invented at the end, and every run set ends.
ImplementsLedger == Ledger!Spec
=============================================================================
