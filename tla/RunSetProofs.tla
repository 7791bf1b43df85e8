---------------------------- MODULE RunSetProofs -----------------------------
(***************************************************************************)
(* Proofs about the runner for any plan, any references, any number of     *)
(* invocations and every outcome of every write.                           *)
(***************************************************************************)
EXTENDS RunSet, FiniteSetTheorems, TLAPS

-----------------------------------------------------------------------------
(* Lemmas about the order of execution.                                    *)

\* The combinations of the plan, numbered from 1.
LEMMA PlanType ==
  /\ Len(Plan) \in Nat \ {0} /\ DOMAIN Plan = 1 .. Len(Plan)
  /\ \A i \in DOMAIN Plan : Plan[i] \in Artifacts
  /\ \A a \in Artifacts : \E i \in DOMAIN Plan : Plan[i] = a
  /\ \A i, j \in DOMAIN Plan : Plan[i] = Plan[j] => i = j
<1>1. Plan \in Seq(Artifacts) /\ Plan # <<>>
  BY RunSetAssumption
<1>2. /\ Len(Plan) \in Nat \ {0} /\ DOMAIN Plan = 1 .. Len(Plan)
      /\ \A i \in DOMAIN Plan : Plan[i] \in Artifacts
  BY <1>1
<1>3. \A a \in Artifacts : \E i \in DOMAIN Plan : Plan[i] = a
  BY DEF Artifacts, Range
<1>4. \A i, j \in DOMAIN Plan : Plan[i] = Plan[j] => i = j
  BY RunSetAssumption DEF IsInjective
<1>5. QED
  BY <1>2, <1>3, <1>4

\* Ranks keep the order of the stable sort.
LEMMA RankOrder ==
  ASSUME NEW i \in DOMAIN Plan, NEW j \in DOMAIN Plan
  PROVE  /\ Rank(i) \in DOMAIN Plan
         /\ Precedes(j, i) => Rank(j) < Rank(i)
<1> DEFINE Before(k) == {l \in DOMAIN Plan : Precedes(l, k)}
<1>1. \A k \in DOMAIN Plan : ~Precedes(k, k) /\ k \in Int
  BY PlanType DEF Precedes
<1>2. IsFiniteSet(DOMAIN Plan) /\ Cardinality(DOMAIN Plan) = Len(Plan)
  <2>1. DOMAIN Plan = 1 .. Len(Plan) /\ Len(Plan) \in Nat \ {0}
    BY PlanType
  <2>2. /\ IsFiniteSet(1 .. Len(Plan))
        /\ Cardinality(1 .. Len(Plan)) = IF 1 > Len(Plan) THEN 0 ELSE Len(Plan) - 1 + 1
    BY <2>1, FS_Interval
  <2>3. QED
    BY <2>1, <2>2
<1>3. \A k \in DOMAIN Plan : /\ IsFiniteSet(Before(k)) /\ Cardinality(Before(k)) \in Nat
                             /\ Cardinality(Before(k)) <= Len(Plan) - 1
  <2> TAKE k \in DOMAIN Plan
  <2>1. /\ IsFiniteSet(DOMAIN Plan \ {k}) /\ Cardinality(DOMAIN Plan \ {k}) = Len(Plan) - 1
    BY <1>2, FS_RemoveElement
  <2>2. Before(k) \in SUBSET (DOMAIN Plan \ {k})
    BY <1>1
  <2>3. IsFiniteSet(Before(k)) /\ Cardinality(Before(k)) <= Cardinality(DOMAIN Plan \ {k})
    BY <2>1, <2>2, FS_Subset
  <2>4. QED
    BY <2>1, <2>3, FS_CardinalityType
<1>0. \A k : Rank(k) = 1 + Cardinality(Before(k))
  BY DEF Rank
<1> HIDE DEF Before
<1>4. Rank(i) \in DOMAIN Plan
  BY <1>0, <1>3, PlanType
<1>5. ASSUME Precedes(j, i) PROVE Rank(j) < Rank(i)
  <2> USE DEF Before
  <2>0. \A l \in DOMAIN Plan : Precedes(l, j) => Precedes(l, i)
    BY <1>1, <1>5 DEF Precedes, IsReference
  <2>1. Before(j) \in SUBSET Before(i)
    BY <2>0
  <2>2. j \in Before(i) /\ j \notin Before(j)
    BY <1>1, <1>5
  <2>3. /\ Cardinality(Before(j)) <= Cardinality(Before(i))
        /\ Cardinality(Before(j)) # Cardinality(Before(i))
    BY <1>3, <2>1, <2>2, FS_Subset
  <2> HIDE DEF Before
  <2>4. QED
    BY <1>0, <1>3, <2>3
<1>6. QED
  BY <1>4, <1>5

\* Every place of the order belongs to exactly one combination.
LEMMA RankBijection ==
  /\ \A k \in DOMAIN Plan : \E i \in DOMAIN Plan : Rank(i) = k
  /\ \A i, j \in DOMAIN Plan : Rank(i) = Rank(j) => i = j
<1>1. \A i, j \in DOMAIN Plan : i # j => Precedes(i, j) \/ Precedes(j, i)
  BY PlanType DEF Precedes, IsReference
<1>2. \A i, j \in DOMAIN Plan : Rank(i) = Rank(j) => i = j
  <2> SUFFICES ASSUME NEW i \in DOMAIN Plan, NEW j \in DOMAIN Plan, Rank(i) = Rank(j), i # j
               PROVE  FALSE
    OBVIOUS
  <2>1. Rank(i) \in Int /\ Rank(j) \in Int
    BY RankOrder, PlanType
  <2>2. Rank(i) < Rank(j) \/ Rank(j) < Rank(i)
    BY <1>1, RankOrder
  <2>3. QED
    BY <2>1, <2>2
<1> DEFINE rank == [i \in DOMAIN Plan |-> Rank(i)]
<1>3. rank \in [DOMAIN Plan -> DOMAIN Plan]
  BY RankOrder
<1>4. rank \in Injection(DOMAIN Plan, DOMAIN Plan)
  BY <1>2, <1>3 DEF Injection, IsInjective
<1>5. IsFiniteSet(DOMAIN Plan)
  BY FS_Interval, PlanType
<1>6. rank \in Surjection(DOMAIN Plan, DOMAIN Plan)
  BY <1>4, <1>5, FS_Injection
<1>7. \A k \in DOMAIN Plan : \E i \in DOMAIN Plan : Rank(i) = k
  BY <1>6 DEF Surjection
<1>8. QED
  BY <1>2, <1>7

\* The stable sort keeps every combination and puts the references first.
LEMMA ReferenceFirstCorrect ==
  /\ DOMAIN ReferenceFirst = DOMAIN Plan
  /\ \A i \in DOMAIN Plan : Rank(i) \in DOMAIN Plan /\ ReferenceFirst[Rank(i)] = Plan[i]
  /\ \A k \in DOMAIN Plan : \E i \in DOMAIN Plan : Rank(i) = k /\ ReferenceFirst[k] = Plan[i]
<1>1. DOMAIN ReferenceFirst = DOMAIN Plan
  BY DEF ReferenceFirst
<1>2. \A k \in DOMAIN Plan : \E i \in DOMAIN Plan : Rank(i) = k /\ ReferenceFirst[k] = Plan[i]
  BY RankBijection DEF ReferenceFirst
<1>3. \A i \in DOMAIN Plan : Rank(i) \in DOMAIN Plan /\ ReferenceFirst[Rank(i)] = Plan[i]
  BY <1>2, RankBijection, RankOrder
<1>4. QED
  BY <1>1, <1>2, <1>3

\* An invocation executes every artifact once, and with a matched objective the
\* references before all others.
LEMMA OrderCorrect ==
  ASSUME NEW r \in Runs
  PROVE  /\ DOMAIN Order(r) = DOMAIN Plan
         /\ \A k \in DOMAIN Plan : Order(r)[k] \in Artifacts
         /\ \A k, l \in DOMAIN Plan : Order(r)[k] = Order(r)[l] => k = l
         /\ \A a \in Artifacts : \E k \in DOMAIN Plan : Order(r)[k] = a
         /\ matched[r] => \A k \in DOMAIN Plan, b \in References :
              Order(r)[k] \notin References => \E l \in 1 .. k - 1 : Order(r)[l] = b
<1>1. CASE ~matched[r]
  BY <1>1, PlanType DEF Order
<1>2. CASE matched[r]
  <2>1. Order(r) = ReferenceFirst
    BY <1>2 DEF Order
  <2>2. \A k \in DOMAIN Plan : ReferenceFirst[k] \in Artifacts
    BY ReferenceFirstCorrect, PlanType
  <2>3. \A k, l \in DOMAIN Plan : ReferenceFirst[k] = ReferenceFirst[l] => k = l
    BY ReferenceFirstCorrect, PlanType
  <2>4. \A a \in Artifacts : \E k \in DOMAIN Plan : ReferenceFirst[k] = a
    BY ReferenceFirstCorrect, PlanType
  <2>5. ASSUME NEW k \in DOMAIN Plan, NEW b \in References, ReferenceFirst[k] \notin References
        PROVE  \E l \in 1 .. k - 1 : ReferenceFirst[l] = b
    <3>1. PICK i \in DOMAIN Plan : Rank(i) = k /\ ReferenceFirst[k] = Plan[i]
      BY ReferenceFirstCorrect
    <3>2. PICK j \in DOMAIN Plan : Plan[j] = b
      BY PlanType, RunSetAssumption
    <3>3. Precedes(j, i)
      BY <2>5, <3>1, <3>2 DEF Precedes, IsReference
    <3>4. Rank(j) < k /\ Rank(j) \in DOMAIN Plan
      BY <3>1, <3>3, RankOrder
    <3>5. Rank(j) \in 1 .. k - 1
      BY <3>4, PlanType
    <3>6. ReferenceFirst[Rank(j)] = b
      BY <3>2, ReferenceFirstCorrect
    <3>7. QED
      BY <3>5, <3>6
  <2>6. QED
    BY <1>2, <2>1, <2>2, <2>3, <2>4, <2>5, ReferenceFirstCorrect
<1>3. QED
  BY <1>1, <1>2

-----------------------------------------------------------------------------
(* Types.                                                                  *)

Statuses == {"absent", "torn", "running", "complete", "failed"}
Manifests == [by : Runs \cup {Nobody}, entries : Entries, status : Statuses]
Loop == {"solving", "solved", "written", "traced", "failed", "unmatched"}
Active == Loop \cup {"executed"}

LEMMA PendingType == Pending \in Entries
BY DEF Pending, Entries

\* What a write of the manifest leaves: the old one, a torn one or the new one in
\* the directory of its run, and every other manifest as it was.
Rewritten(r, status, entries) ==
  /\ DOMAIN manifest' = Directories
  /\ \A d \in Directories \ {directory[r]} : manifest'[d] = manifest[d]
  /\ \/ manifest'[directory[r]] = manifest[directory[r]]
     \/ manifest'[directory[r]] = Torn(r)
     \/ manifest'[directory[r]] = [by |-> r, status |-> status, entries |-> entries]

LEMMA SaveCases ==
  ASSUME NEW r \in Runs, NEW w \in Writes, NEW status \in Statuses, NEW entries \in Entries,
         Save(r, w, status, entries),
         manifest \in [Directories -> Manifests], directory[r] \in Directories
  PROVE  /\ Rewritten(r, status, entries)
         /\ ~Raises(w) => manifest'[directory[r]] \in
              {Torn(r), [by |-> r, status |-> status, entries |-> entries]}
<1> DEFINE new == [by |-> r, status |-> status, entries |-> entries]
<1>1. manifest' = [manifest EXCEPT ![directory[r]] = After(w, @, new, Torn(r))]
  BY DEF Save
<1>2. /\ After(w, manifest[directory[r]], new, Torn(r)) \in {manifest[directory[r]], Torn(r), new}
      /\ ~Raises(w) => After(w, manifest[directory[r]], new, Torn(r)) \in {Torn(r), new}
  BY DEF After, Raises, Writes
<1> HIDE DEF new
<1>3. manifest'[directory[r]] = After(w, manifest[directory[r]], new, Torn(r))
  BY <1>1
<1>4. QED
  BY <1>1, <1>2, <1>3 DEF Rewritten, new

LEMMA SaveType ==
  ASSUME NEW r \in Runs, NEW w \in Writes, NEW status \in Statuses, NEW entries \in Entries,
         Save(r, w, status, entries),
         manifest \in [Directories -> Manifests], directory[r] \in Directories
  PROVE  manifest' \in [Directories -> Manifests]
<1>1. [by |-> r, status |-> status, entries |-> entries] \in Manifests
  BY DEF Manifests
<1>2. Torn(r) \in Manifests
  BY PendingType DEF Manifests, Torn, Statuses
<1>3. manifest' = [manifest EXCEPT ![directory[r]] =
                     After(w, @, [by |-> r, status |-> status, entries |-> entries], Torn(r))]
  BY DEF Save
<1>4. QED
  BY <1>1, <1>2, <1>3 DEF After

LEMMA InitTypes == Init => TypeOK
<1> SUFFICES ASSUME Init PROVE TypeOK
  OBVIOUS
<1>1. Authoritative \in Directories /\ Slot \in Directories
  BY DEF Directories
<1>2. position \in [Runs -> 1 .. Len(Plan) + 1]
  BY PlanType DEF Init
<1>3. manifest \in [Directories -> Manifests]
  BY PendingType DEF Init, Manifests, Statuses
<1>4. records \in [Runs -> Entries]
  BY PendingType DEF Init
<1>5. document \in [Directories -> [Artifacts -> [by : Runs \cup {Nobody}, whole : BOOLEAN]]]
  BY DEF Init, NoFile
<1>6. QED
  BY <1>1, <1>2, <1>3, <1>4, <1>5 DEF Init, TypeOK, Places, Manifests, Statuses

\* A nonempty set of numbers has a least element.
LEMMA LeastNumber ==
  ASSUME NEW T, T \subseteq Nat, T # {}
  PROVE  \E m \in T : \A n \in T : ~(n < m)
<1>1. \E m \in T : \A n \in T : <<n, m>> \notin OpToRel(<, Nat)
  BY NatLessThanWellFounded, WFMin, Zenon
<1>2. \A m, n \in Nat : n < m => <<n, m>> \in OpToRel(<, Nat)
  BY Zenon DEF OpToRel
<1>3. QED
  BY <1>1, <1>2

\* The directory that prepare_run resolves is one of the known ones, and the
\* next development directory is unused.
LEMMA CandidateType ==
  ASSUME NEW r \in Runs, TypeOK, kind[r] = "next" => NumbersLeft
  PROVE  /\ Candidate(r) \in Directories
         /\ kind[r] = "next" => Candidate(r) \notin exists
         /\ kind[r] = "slot" => Candidate(r) = Slot
         /\ kind[r] = "reproduction" => Candidate(r) = Authoritative
<1>1. kind[r] \in {"reproduction", "slot", "next"}
  BY RunSetAssumption DEF TypeOK
<1>2. CASE kind[r] = "next"
  <2> DEFINE Free == {n \in DOMAIN Numbered : Numbered[n] \notin exists}
  <2>1. /\ DOMAIN Numbered \subseteq Nat
        /\ \A n \in DOMAIN Numbered : Numbered[n] \in Range(Numbered) /\ 1 .. n - 1 \subseteq DOMAIN Numbered
    BY RunSetAssumption DEF Range
  <2>2. \E m \in Free : \A n \in Free : ~(n < m)
    <3>1. Free \subseteq Nat /\ Free # {}
      BY <1>2, <2>1 DEF NumbersLeft
    <3>2. QED
      BY <3>1, LeastNumber
  <2>3. \E m \in DOMAIN Numbered :
          Numbered[m] \notin exists /\ \A n \in 1 .. m - 1 : Numbered[n] \in exists
    <3>1. PICK m \in Free : \A n \in Free : ~(n < m)
      BY <2>2
    <3>2. \A n \in 1 .. m - 1 : n \in DOMAIN Numbered /\ n < m
      BY <2>1, <3>1
    <3>3. QED
      BY <3>1, <3>2
  <2>4. NextDirectory \in Range(Numbered) /\ NextDirectory \notin exists
    BY <2>1, <2>3 DEF NextDirectory
  <2>5. QED
    BY <1>2, <2>4 DEF Candidate, Directories
<1>3. QED
  BY <1>1, <1>2 DEF Candidate, Directories

\* Advance leaves the loop after the last combination.
LEMMA AdvanceType ==
  ASSUME NEW r \in Runs, TypeOK, Advance(r), position[r] \in DOMAIN Plan
  PROVE  /\ position' \in [Runs -> 1 .. Len(Plan) + 1] /\ pc' \in [Runs -> Places]
         /\ \/ pc'[r] = "executed" /\ position[r] = Len(Plan)
            \/ pc'[r] = "solving" /\ position[r] # Len(Plan)
         /\ position'[r] = position[r] + 1
         /\ position[r] # Len(Plan) => position'[r] \in DOMAIN Plan
         /\ \A q \in Runs \ {r} : pc'[q] = pc[q] /\ position'[q] = position[q]
BY PlanType DEF Advance, Goto, TypeOK, Places

LEMMA CurrentType ==
  ASSUME NEW r \in Runs, TypeOK, pc[r] \in Loop
  PROVE  Current(r) \in Artifacts /\ position[r] \in DOMAIN Plan
<1>1. position[r] \in DOMAIN Plan
  BY DEF TypeOK, Loop
<1>2. QED
  BY <1>1, OrderCorrect DEF Current

LEMMA MarkedType ==
  ASSUME NEW r \in Runs, TypeOK, NEW status \in {"ok", "failed", "unmatched"}
  PROVE  Marked(r, status) \in Entries
BY DEF Marked, TypeOK, Entries

LEMMA StatusType ==
  ASSUME NEW entries \in Entries
  PROVE  /\ Status(entries) \in {"complete", "failed"}
         /\ Finalized(entries) \in [Artifacts -> {"ok", "failed", "unmatched"}]
         /\ Finalized(entries) \in Entries
BY DEF Status, Finalized, Entries

\* The variables of the loop, but for the manifest.
LEMMA LoopTypes ==
  ASSUME TypeOK, NEW r \in Runs, NEW next \in Places \ Loop, Goto(r, next)
  PROVE  /\ pc' \in [Runs -> Places]
         /\ \A q \in Runs : pc'[q] \in Loop => pc[q] \in Loop /\ position[q] \in DOMAIN Plan
BY DEF TypeOK, Goto, Loop

LEMMA TypeInLoop ==
  ASSUME TypeOK, NEW r \in Runs, NEW next \in Loop, Goto(r, next), pc[r] \in Loop
  PROVE  /\ pc' \in [Runs -> Places]
         /\ \A q \in Runs : pc'[q] \in Loop => position[q] \in DOMAIN Plan
BY DEF TypeOK, Goto, Loop, Places

\* An invocation that has not opened its manifest has decided nothing.
Unopened == {"called", "resolved", "snapshotted"}
Fresh == \A r \in Runs : pc[r] \in Unopened =>
  position[r] = 1 /\ records[r] = Pending /\ succeeded[r] /\ references[r] = {}

LEMMA WriteArtifactType ==
  ASSUME TypeOK, NEW r \in Runs, WriteArtifact(r)
  PROVE  TypeOK'
<1>1. pc[r] \in Loop /\ Current(r) \in Artifacts /\ directory[r] \in Directories
  BY CurrentType DEF WriteArtifact, Loop, TypeOK
<1>2. PICK w \in Writes :
        /\ document' = [document EXCEPT ![directory[r]][Current(r)] =
             After(w, @, [by |-> r, whole |-> TRUE], [by |-> r, whole |-> FALSE])]
        /\ Goto(r, IF Raises(w) THEN "failed" ELSE "written")
  BY DEF WriteArtifact
<1>3. pc' \in [Runs -> Places] /\ \A q \in Runs : pc'[q] \in Loop => position[q] \in DOMAIN Plan
  BY <1>1, <1>2, TypeInLoop DEF Loop
<1>4. document' \in [Directories -> [Artifacts -> [by : Runs \cup {Nobody}, whole : BOOLEAN]]]
  BY <1>1, <1>2 DEF TypeOK, After
<1>5. QED
  BY <1>3, <1>4 DEF TypeOK, WriteArtifact, choices, memory, Loop

LEMMA WriteTraceType ==
  ASSUME TypeOK, NEW r \in Runs, WriteTrace(r)
  PROVE  TypeOK'
<1>1. pc[r] \in Loop /\ Current(r) \in Artifacts /\ directory[r] \in Directories
  BY CurrentType DEF WriteTrace, Loop, TypeOK
<1>2. PICK w \in Writes :
        /\ trace' = [trace EXCEPT ![directory[r]][Current(r)] = After(w, @, r, r)]
        /\ Goto(r, IF Raises(w) THEN "failed" ELSE "traced")
  BY DEF WriteTrace
<1>3. pc' \in [Runs -> Places] /\ \A q \in Runs : pc'[q] \in Loop => position[q] \in DOMAIN Plan
  BY <1>1, <1>2, TypeInLoop DEF Loop
<1>4. trace' \in [Directories -> [Artifacts -> Runs \cup {Nobody}]]
  BY <1>1, <1>2 DEF TypeOK, After
<1>5. QED
  BY <1>3, <1>4 DEF TypeOK, WriteTrace, choices, memory, Loop

LEMMA AdvanceLoop ==
  ASSUME TypeOK, NEW r \in Runs, pc[r] \in Loop, Advance(r)
  PROVE  /\ position' \in [Runs -> 1 .. Len(Plan) + 1] /\ pc' \in [Runs -> Places]
         /\ \A q \in Runs : pc'[q] \in Loop => position'[q] \in DOMAIN Plan
<1>1. position[r] \in DOMAIN Plan
  BY CurrentType
<1>2. QED
  BY <1>1, AdvanceType DEF TypeOK, Loop

LEMMA RecordSuccessType ==
  ASSUME TypeOK, NEW r \in Runs, RecordSuccess(r)
  PROVE  TypeOK'
<1>1. pc[r] \in Loop /\ Current(r) \in Artifacts /\ directory[r] \in Directories
  BY CurrentType DEF RecordSuccess, Loop, TypeOK
<1>2. Marked(r, "ok") \in Entries
  BY MarkedType
<1>3. records' \in [Runs -> Entries]
  BY <1>2 DEF RecordSuccess, TypeOK
<1>4. manifest' \in [Directories -> Manifests]
  <2>1. PICK w \in Writes : Save(r, w, "running", Marked(r, "ok"))
    BY DEF RecordSuccess
  <2>2. QED
    BY <1>1, <1>2, <2>1, SaveType DEF TypeOK, Manifests, Statuses
<1>5. /\ position' \in [Runs -> 1 .. Len(Plan) + 1] /\ pc' \in [Runs -> Places]
      /\ \A q \in Runs : pc'[q] \in Loop => position'[q] \in DOMAIN Plan
  <2>1. (Goto(r, "failed") /\ UNCHANGED position) \/ Advance(r)
    BY DEF RecordSuccess
  <2>2. CASE Goto(r, "failed") /\ UNCHANGED position
    BY <1>1, <2>2, TypeInLoop DEF Loop, TypeOK
  <2>3. QED
    BY <1>1, <2>1, <2>2, AdvanceLoop
<1>6. references' \in [Runs -> SUBSET Range(Coordinate)]
  <2>1. Coordinate[Current(r)] \in Range(Coordinate)
    BY <1>1, RunSetAssumption DEF Range
  <2>2. \/ references' = references
        \/ references' = [references EXCEPT ![r] = @ \cup {Coordinate[Current(r)]}]
        \/ references' = [references EXCEPT ![r] = @]
    BY DEF RecordSuccess
  <2>3. QED
    BY <2>1, <2>2 DEF TypeOK
<1>7. QED
  BY <1>3, <1>4, <1>5, <1>6 DEF TypeOK, RecordSuccess, choices, files, Loop, Manifests, Statuses

LEMMA RecordFailureType ==
  ASSUME TypeOK, NEW r \in Runs, RecordFailure(r)
  PROVE  TypeOK'
<1>1. pc[r] \in Loop /\ Current(r) \in Artifacts /\ directory[r] \in Directories
  BY CurrentType DEF RecordFailure, Loop, TypeOK
<1>2. Marked(r, pc[r]) \in Entries
  BY MarkedType DEF RecordFailure
<1>3. records' \in [Runs -> Entries]
  BY <1>2 DEF RecordFailure, TypeOK
<1>4. manifest' \in [Directories -> Manifests]
  <2>1. CASE UNCHANGED manifest
    BY <2>1 DEF TypeOK, Manifests, Statuses
  <2>2. CASE \E w \in Writes : Save(r, w, "running", Marked(r, pc[r]))
    BY <1>1, <1>2, <2>2, SaveType DEF TypeOK, Manifests, Statuses
  <2>3. QED
    BY <2>1, <2>2 DEF RecordFailure
<1>5. /\ position' \in [Runs -> 1 .. Len(Plan) + 1] /\ pc' \in [Runs -> Places]
      /\ \A q \in Runs : pc'[q] \in Loop => position'[q] \in DOMAIN Plan
  <2>1. (Goto(r, "exit2") /\ UNCHANGED position) \/ Advance(r)
    BY DEF RecordFailure
  <2>2. CASE Goto(r, "exit2") /\ UNCHANGED position
    BY <2>2, LoopTypes DEF Loop, TypeOK, Places, Ended
  <2>3. QED
    BY <1>1, <2>1, <2>2, AdvanceLoop
<1>6. QED
  BY <1>3, <1>4, <1>5 DEF TypeOK, RecordFailure, choices, files, Loop, Manifests, Statuses

LEMMA FinalizeType ==
  ASSUME TypeOK, NEW r \in Runs, Finalize(r)
  PROVE  TypeOK'
<1>1. directory[r] \in Directories /\ records[r] \in Entries
  BY DEF TypeOK
<1>2. /\ Status(Finalized(records[r])) \in Statuses /\ Finalized(records[r]) \in Entries
  BY <1>1, StatusType DEF Statuses
<1>3. records' \in [Runs -> Entries]
  BY <1>2 DEF Finalize, TypeOK
<1>4. manifest' \in [Directories -> Manifests]
  <2>1. PICK w \in Writes : Save(r, w, Status(Finalized(records[r])), Finalized(records[r]))
    BY DEF Finalize
  <2>2. QED
    BY <1>1, <1>2, <2>1, SaveType DEF TypeOK, Manifests, Statuses
<1>5. \E next \in Ended : Goto(r, next)
  BY DEF Finalize, Ended
<1>6. /\ pc' \in [Runs -> Places]
      /\ \A q \in Runs : pc'[q] \in Loop => pc[q] \in Loop /\ position[q] \in DOMAIN Plan
  BY <1>5, LoopTypes DEF Loop, Places, Ended
<1>7. QED
  BY <1>3, <1>4, <1>6 DEF TypeOK, Finalize, choices, files, Loop, Manifests, Statuses

LEMMA KillType ==
  ASSUME TypeOK, NEW r \in Runs, Kill(r)
  PROVE  TypeOK'
<1>1. directory[r] \in Directories
  BY DEF TypeOK
<1>2. /\ pc' \in [Runs -> Places]
      /\ \A q \in Runs : pc'[q] \in Loop => pc[q] \in Loop /\ position[q] \in DOMAIN Plan
  BY LoopTypes DEF Kill, Loop, Places, Ended
<1>3. manifest' \in [Directories -> Manifests]
  <2>1. CASE UNCHANGED manifest
    BY <2>1 DEF TypeOK, Manifests, Statuses
  <2>2. CASE Save(r, "cut", "running", Pending)
    BY <1>1, <2>2, PendingType, SaveType DEF TypeOK, Manifests, Statuses, Writes
  <2>3. QED
    BY <2>1, <2>2 DEF Kill
<1>4. document' \in [Directories -> [Artifacts -> [by : Runs \cup {Nobody}, whole : BOOLEAN]]]
  <2>1. CASE document' = [document EXCEPT ![directory[r]][Current(r)] = [by |-> r, whole |-> FALSE]]
    BY <1>1, <2>1 DEF TypeOK
  <2>2. CASE UNCHANGED document
    BY <2>2 DEF TypeOK
  <2>3. QED
    BY <2>1, <2>2 DEF Kill, files
<1>5. trace' \in [Directories -> [Artifacts -> Runs \cup {Nobody}]]
  <2>1. CASE trace' = [trace EXCEPT ![directory[r]][Current(r)] = r]
    BY <1>1, <2>1 DEF TypeOK
  <2>2. CASE UNCHANGED trace
    BY <2>2 DEF TypeOK
  <2>3. QED
    BY <2>1, <2>2 DEF Kill, files
<1>6. QED
  BY <1>2, <1>3, <1>4, <1>5 DEF TypeOK, Kill, choices, memory, Loop, Manifests, Statuses

LEMMA OpeningType ==
  ASSUME TypeOK, Fresh, NEW r \in Runs, Resolve(r) \/ Snapshot(r) \/ Open(r) \/ Solve(r)
  PROVE  TypeOK'
<1>1. directory[r] \in Directories /\ records[r] \in Entries
  BY DEF TypeOK
<1>2. CASE Resolve(r)
  <2>1. directory' \in [Runs -> Directories]
    BY <1>2, CandidateType DEF Resolve, TypeOK
  <2>2. QED
    BY <1>2, <2>1, LoopTypes
    DEF Resolve, TypeOK, choices, memory, files, Loop, Places, Ended
<1>3. CASE Snapshot(r)
  BY <1>1, <1>3 DEF Snapshot, TypeOK, choices, memory, files, Loop, Places, Ended
<1>4. CASE Open(r)
  <2>1. PICK w \in Writes : /\ Save(r, w, "running", records[r])
                            /\ Goto(r, IF Raises(w) THEN "exit2" ELSE "solving")
    BY <1>4 DEF Open
  <2>2. manifest' \in [Directories -> Manifests]
    BY <1>1, <2>1, SaveType DEF TypeOK, Manifests, Statuses
  <2>3. position[r] \in DOMAIN Plan
    BY <1>4, PlanType DEF Fresh, Unopened, Open
  <2>4. QED
    BY <1>4, <2>1, <2>2, <2>3
    DEF Open, Goto, TypeOK, choices, memory, files, Loop, Places, Ended, Manifests, Statuses
<1>5. CASE Solve(r)
  <2>1. /\ pc[r] \in Loop /\ \E next \in Loop : Goto(r, next)
    BY <1>5 DEF Solve, Loop
  <2>2. pc' \in [Runs -> Places] /\ \A q \in Runs : pc'[q] \in Loop => position[q] \in DOMAIN Plan
    BY <2>1, TypeInLoop
  <2>3. QED
    BY <1>5, <2>2 DEF Solve, TypeOK, choices, memory, files, Loop
<1>6. QED
  BY <1>2, <1>3, <1>4, <1>5


\* A step belongs to one invocation.  It leaves the memory of the others alone,
\* and every choice; the only manifest it may touch is the one in its directory.
LEMMA Locality ==
  ASSUME TypeOK, NEW r \in Runs, Step(r) \/ Kill(r)
  PROVE  /\ pc[r] \notin Ended
         /\ kind' = kind /\ matched' = matched
         /\ \A q \in Runs \ {r} :
              /\ pc'[q] = pc[q] /\ directory'[q] = directory[q]
              /\ position'[q] = position[q] /\ records'[q] = records[q]
              /\ succeeded'[q] = succeeded[q] /\ references'[q] = references[q]
<1> USE DEF TypeOK, choices, memory, Goto, Advance, Ended
<1>1. CASE Resolve(r) \/ Snapshot(r) \/ Open(r) \/ Solve(r)
  BY <1>1 DEF Resolve, Snapshot, Open, Solve
<1>2. CASE WriteArtifact(r) \/ WriteTrace(r)
  BY <1>2 DEF WriteArtifact, WriteTrace
<1>3. CASE RecordSuccess(r)
  BY <1>3 DEF RecordSuccess
<1>4. CASE RecordFailure(r)
  BY <1>4 DEF RecordFailure
<1>5. CASE Finalize(r) \/ Kill(r)
  BY <1>5 DEF Finalize, Kill
<1>6. QED
  BY <1>1, <1>2, <1>3, <1>4, <1>5 DEF Step

LEMMA FreshStep ==
  ASSUME TypeOK, Fresh, [Next]_vars
  PROVE  Fresh'
<1>1. CASE UNCHANGED vars
  BY <1>1 DEF vars, Fresh
<1>2. ASSUME NEW r \in Runs, Step(r) \/ Kill(r) PROVE Fresh'
  <2>1. \A q \in Runs \ {r} :
          /\ pc'[q] = pc[q] /\ position'[q] = position[q] /\ records'[q] = records[q]
          /\ succeeded'[q] = succeeded[q] /\ references'[q] = references[q]
    BY <1>2, Locality
  <2>2. CASE Resolve(r) \/ Snapshot(r)
    BY <2>1, <2>2 DEF Fresh, Unopened, Resolve, Snapshot, memory
  <2>3. CASE ~(Resolve(r) \/ Snapshot(r))
    <3>1. pc'[r] \notin Unopened
      <4> USE DEF TypeOK, Unopened
      <4>1. CASE Open(r) \/ Solve(r) \/ WriteArtifact(r) \/ WriteTrace(r)
        BY <4>1 DEF Open, Solve, WriteArtifact, WriteTrace, Goto
      <4>2. CASE RecordSuccess(r) \/ RecordFailure(r)
        BY <4>2 DEF RecordSuccess, RecordFailure, Advance, Goto
      <4>3. CASE Finalize(r) \/ Kill(r)
        BY <4>3 DEF Finalize, Kill, Goto
      <4>4. QED
        BY <1>2, <2>3, <4>1, <4>2, <4>3 DEF Step
    <3>2. QED
      BY <2>1, <3>1 DEF Fresh
  <2>4. QED
    BY <2>2, <2>3
<1>3. QED
  BY <1>1, <1>2 DEF Next, Done

LEMMA InitFresh == Init => Fresh
BY DEF Init, Fresh

LEMMA TypeStep ==
  ASSUME TypeOK, Fresh, [Next]_vars
  PROVE  TypeOK'
<1>1. CASE UNCHANGED vars
  BY <1>1 DEF vars, TypeOK
<1>2. ASSUME NEW r \in Runs, Step(r) \/ Kill(r) PROVE TypeOK'
  BY <1>2, OpeningType, WriteArtifactType, WriteTraceType, RecordSuccessType,
     RecordFailureType, FinalizeType, KillType DEF Step
<1>3. QED
  BY <1>1, <1>2 DEF Next, Done

LEMMA Typed == Spec => [](TypeOK /\ Fresh)
<1>1. Init => TypeOK /\ Fresh
  BY InitTypes, InitFresh
<1>2. TypeOK /\ Fresh /\ [Next]_vars => (TypeOK /\ Fresh)'
  BY TypeStep, FreshStep
<1>3. QED
  BY <1>1, <1>2, PTL DEF Spec

\* Type correctness: in particular the loop of run_b1 never runs past the plan.
THEOREM TypeCorrect == Spec => []TypeOK
<1>1. TypeOK /\ Fresh => TypeOK
  OBVIOUS
<1>2. QED
  BY <1>1, Typed, PTL

-----------------------------------------------------------------------------
(* The loop decides the artifacts in the order of execution.               *)

\* What an invocation has recorded: everything before its position, nothing
\* after it, and the current artifact only if recording itself failed.
Progress == \A r \in Runs :
  /\ pc[r] \in Loop => \A k \in DOMAIN Plan :
       /\ k < position[r] => records[r][Order(r)[k]] # "pending"
       /\ k > position[r] => records[r][Order(r)[k]] = "pending"
  /\ pc[r] \in Loop \ {"failed"} => records[r][Current(r)] = "pending"
  /\ pc[r] = "executed" => \A a \in Artifacts : records[r][a] # "pending"

\* What Progress says of one invocation, about the values of its variables.
Decided(r, at, recorded, place) ==
  /\ place \in Loop => \A k \in DOMAIN Plan :
       /\ k < at => recorded[Order(r)[k]] # "pending"
       /\ k > at => recorded[Order(r)[k]] = "pending"
  /\ place \in Loop \ {"failed"} => recorded[Order(r)[at]] = "pending"
  /\ place = "executed" => \A a \in Artifacts : recorded[a] # "pending"

LEMMA ProgressIsDecided ==
  Progress <=> \A r \in Runs : Decided(r, position[r], records[r], pc[r])
BY DEF Progress, Decided, Current

\* Deciding the current artifact and advancing keeps the order.
LEMMA AdvanceDecides ==
  ASSUME TypeOK, NEW r \in Runs, pc[r] \in Loop, Advance(r),
         Decided(r, position[r], records[r], pc[r]),
         NEW status \in {"ok", "failed", "unmatched"}
  PROVE  Decided(r, position'[r], Marked(r, status), pc'[r])
<1> DEFINE p == position[r]
           order == Order(r)
           new == Marked(r, status)
<1>1. /\ p \in DOMAIN Plan /\ Current(r) = order[p] /\ Current(r) \in Artifacts
      /\ DOMAIN Plan = 1 .. Len(Plan) /\ Len(Plan) \in Nat
  BY CurrentType, PlanType DEF Current
<1>2. /\ DOMAIN Plan = DOMAIN order
      /\ \A k \in DOMAIN Plan : order[k] \in Artifacts
      /\ \A k, l \in DOMAIN Plan : order[k] = order[l] => k = l
      /\ \A a \in Artifacts : \E k \in DOMAIN Plan : order[k] = a
  BY OrderCorrect
<1>3. /\ new[order[p]] = status
      /\ \A k \in DOMAIN Plan \ {p} : new[order[k]] = records[r][order[k]]
  BY <1>1, <1>2 DEF Marked, TypeOK, Entries
<1>4. /\ position'[r] = p + 1
      /\ \/ pc'[r] = "executed" /\ p = Len(Plan)
         \/ pc'[r] = "solving" /\ p # Len(Plan)
      /\ p # Len(Plan) => p + 1 \in DOMAIN Plan
  BY <1>1, AdvanceType
<1>5. \A k \in DOMAIN Plan : /\ k < p => records[r][order[k]] # "pending"
                             /\ k > p => records[r][order[k]] = "pending"
  BY DEF Decided
<1> HIDE DEF new, order
<1>6. \A k \in DOMAIN Plan : /\ k < p + 1 => new[order[k]] # "pending"
                             /\ k > p => new[order[k]] = "pending"
  <2> TAKE k \in DOMAIN Plan
  <2>1. k = p \/ k < p \/ k > p
    BY <1>1
  <2>2. QED
    BY <1>1, <1>3, <1>5, <2>1
<1>7. CASE pc'[r] = "executed"
  <2>1. \A k \in DOMAIN Plan : new[order[k]] # "pending"
    BY <1>1, <1>4, <1>6, <1>7
  <2>2. \A a \in Artifacts : new[a] # "pending"
    BY <1>2, <2>1
  <2>3. QED
    BY <1>7, <2>2 DEF Decided, Loop, new
<1>8. CASE pc'[r] = "solving"
  <2>1. p + 1 \in DOMAIN Plan /\ p + 1 > p
    BY <1>1, <1>4, <1>8
  <2>2. \A k \in DOMAIN Plan : k > p + 1 => k > p
    BY <1>1
  <2>3. QED
    BY <1>4, <1>6, <1>8, <2>1, <2>2 DEF Decided, Loop, new, order
<1>9. QED
  BY <1>4, <1>7, <1>8

LEMMA ProgressStep ==
  ASSUME TypeOK, Fresh, Progress, [Next]_vars
  PROVE  Progress'
<1>1. CASE UNCHANGED vars
  BY <1>1 DEF vars, Progress, Current, Order
<1>2. ASSUME NEW r \in Runs, Step(r) \/ Kill(r) PROVE Progress'
  <2>1. /\ \A q \in Runs : Order(q)' = Order(q)
        /\ \A q \in Runs \ {r} :
             pc'[q] = pc[q] /\ position'[q] = position[q] /\ records'[q] = records[q]
    BY <1>2, Locality DEF Order
  <2>2. Decided(r, position[r], records[r], pc[r])
    BY ProgressIsDecided
  <2>3. Decided(r, position'[r], records'[r], pc'[r])
    <3>1. ASSUME UNCHANGED position, UNCHANGED records, pc[r] \in Loop, pc'[r] \in Loop,
                 pc[r] = "failed" => pc'[r] = "failed"
          PROVE  Decided(r, position'[r], records'[r], pc'[r])
      BY <2>2, <3>1 DEF Decided, Loop
    <3>2. CASE Resolve(r) \/ Snapshot(r) \/ Kill(r)
      <4>1. pc'[r] \notin Loop \cup {"executed"}
        BY <3>2 DEF Resolve, Snapshot, Kill, Goto, TypeOK, Loop
      <4>2. QED
        BY <4>1 DEF Decided
    <3>3. CASE Open(r)
      <4>1. position[r] = 1 /\ records[r] = Pending
        BY <3>3 DEF Open, Fresh, Unopened
      <4>2. \A k \in DOMAIN Plan : Order(r)[k] \in Artifacts /\ ~(k < 1) /\ 1 \in DOMAIN Plan
        BY OrderCorrect, PlanType
      <4>3. pc'[r] \in {"exit2", "solving"} /\ UNCHANGED <<position, records>>
        BY <3>3 DEF Open, Goto, TypeOK, memory
      <4>4. QED
        BY <4>1, <4>2, <4>3, PlanType DEF Decided, Pending, Loop
    <3>4. CASE Solve(r) \/ WriteArtifact(r) \/ WriteTrace(r)
      <4>1. /\ UNCHANGED position /\ UNCHANGED records /\ pc[r] \in Loop \ {"failed"}
            /\ pc'[r] \in Loop
        BY <3>4 DEF Solve, WriteArtifact, WriteTrace, Goto, TypeOK, memory, Loop
      <4>2. QED
        BY <3>1, <4>1
    <3>5. CASE RecordSuccess(r)
      <4>1. records'[r] = Marked(r, "ok") /\ pc[r] = "traced" /\ pc[r] \in Loop
        BY <3>5 DEF RecordSuccess, TypeOK, Loop
      <4>2. CASE Advance(r)
        BY <2>2, <4>1, <4>2, AdvanceDecides
      <4>3. CASE Goto(r, "failed") /\ UNCHANGED position
        <5>1. pc'[r] = "failed" /\ position'[r] = position[r]
          BY <4>3 DEF Goto, TypeOK
        <5>2. position[r] \in DOMAIN Plan /\ Current(r) = Order(r)[position[r]]
          BY <4>1, CurrentType DEF Current
        <5>3. \A k \in DOMAIN Plan \ {position[r]} :
                records'[r][Order(r)[k]] = records[r][Order(r)[k]]
          BY <4>1, <5>2, OrderCorrect DEF Marked, TypeOK, Entries
        <5>4. QED
          BY <2>2, <4>1, <5>1, <5>2, <5>3, PlanType DEF Decided, Loop
      <4>4. QED
        BY <3>5, <4>2, <4>3 DEF RecordSuccess
    <3>6. CASE RecordFailure(r)
      <4>1. pc[r] \in Loop /\ pc[r] \in {"failed", "unmatched"}
        BY <3>6 DEF RecordFailure, Loop
      <4>2. CASE Advance(r)
        <5>1. records'[r] = Marked(r, pc[r])
          <6>1. pc'[r] \in {"executed", "solving"}
            BY <4>2 DEF Advance, Goto, TypeOK
          <6>2. ~Goto(r, "exit2")
            BY <6>1 DEF Goto, TypeOK
          <6>3. QED
            BY <3>6, <6>2 DEF RecordFailure, TypeOK
        <5>2. QED
          BY <2>2, <4>1, <4>2, <5>1, AdvanceDecides
      <4>3. CASE Goto(r, "exit2")
        BY <4>3 DEF Goto, TypeOK, Decided, Loop
      <4>4. QED
        BY <3>6, <4>2, <4>3 DEF RecordFailure
    <3>7. CASE Finalize(r)
      <4>1. pc'[r] \in Ended
        BY <3>7 DEF Finalize, Goto, TypeOK, Ended
      <4>2. QED
        BY <4>1 DEF Decided, Loop, Ended
    <3>8. QED
      BY <1>2, <3>2, <3>3, <3>4, <3>5, <3>6, <3>7 DEF Step
  <2>4. \A q \in Runs : Decided(q, position[q], records[q], pc[q])'
    <3>1. \A q \in Runs : Decided(q, position'[q], records'[q], pc'[q])
      BY <2>1, <2>3, ProgressIsDecided
    <3>2. QED
      BY <2>1, <3>1 DEF Decided
  <2>5. \A q \in Runs : Current(q)' = Order(q)'[position'[q]]
    BY DEF Current
  <2>6. QED
    BY <2>4, <2>5 DEF Progress, Decided
<1>3. QED
  BY <1>1, <1>2 DEF Next, Done

LEMMA InitProgress == Init => Progress
BY DEF Init, Progress, Loop

-----------------------------------------------------------------------------
(* The references.                                                         *)

\* A matched objective that is kept is that of a reference that succeeded, and
\* only an artifact that has one is solved.
Held == \A r \in Runs :
  /\ \A c \in references[r] : \E b \in References :
       Coordinate[b] = c /\ records[r][b] = "ok"
  /\ pc[r] \in {"solved", "written", "traced"} => ~LacksReference(r)

\* No step takes a verdict back.
LEMMA VerdictsStay ==
  ASSUME TypeOK, Fresh, Progress, [Next]_vars, NEW r \in Runs, NEW a \in Artifacts
  PROVE  /\ records[r][a] = "ok" => records'[r][a] = "ok"
         /\ records[r][a] # "pending" => records'[r][a] # "pending"
<1>1. CASE UNCHANGED vars
  BY <1>1 DEF vars
<1>2. ASSUME NEW q \in Runs, Step(q) \/ Kill(q), q # r
      PROVE  records'[r] = records[r]
  BY <1>2, Locality
<1>3. CASE Step(r) \/ Kill(r)
  <2>1. CASE UNCHANGED records
    BY <2>1
  <2>2. CASE RecordSuccess(r)
    <3>1. records[r][Current(r)] = "pending" /\ records' = [records EXCEPT ![r] = Marked(r, "ok")]
      BY <2>2 DEF RecordSuccess, Progress, Loop
    <3>2. QED
      BY <3>1 DEF Marked, TypeOK, Entries
  <2>3. CASE RecordFailure(r)
    BY <2>3 DEF RecordFailure, Marked, TypeOK, Entries
  <2>4. CASE Finalize(r)
    BY <2>4 DEF Finalize, Finalized, TypeOK, Entries
  <2>5. QED
    BY <1>3, <2>1, <2>2, <2>3, <2>4
    DEF Step, Kill, Resolve, Snapshot, Open, Solve, WriteArtifact, WriteTrace, memory
<1>4. QED
  BY <1>1, <1>2, <1>3 DEF Next, Done

LEMMA HeldStep ==
  ASSUME TypeOK, Fresh, Progress, Held, [Next]_vars
  PROVE  Held'
<1>1. CASE UNCHANGED vars
  BY <1>1 DEF vars, Held, LacksReference, Current, Order
<1>2. ASSUME NEW r \in Runs, Step(r) \/ Kill(r) PROVE Held'
  <2> USE <1>2
  <2>1. /\ matched' = matched
        /\ \A q \in Runs \ {r} :
             /\ pc'[q] = pc[q] /\ position'[q] = position[q] /\ records'[q] = records[q]
             /\ references'[q] = references[q]
    BY Locality
  <2>2. \A c \in references'[r] : \E b \in References :
          Coordinate[b] = c /\ records'[r][b] = "ok"
    <3>1. \A c \in references[r] : \E b \in References :
            Coordinate[b] = c /\ records'[r][b] = "ok"
      BY VerdictsStay, RunSetAssumption DEF Held
    <3>2. CASE UNCHANGED references
      BY <3>1, <3>2
    <3>3. CASE RecordSuccess(r)
      <4>1. /\ pc[r] \in Loop /\ Current(r) \in Artifacts
            /\ records' = [records EXCEPT ![r] = Marked(r, "ok")]
        BY <3>3, CurrentType DEF RecordSuccess, Loop
      <4>2. records'[r][Current(r)] = "ok"
        BY <4>1 DEF Marked, TypeOK, Entries
      <4>3. \/ references' = references
            \/ references' = [references EXCEPT ![r] = @]
            \/ /\ references' = [references EXCEPT ![r] = @ \cup {Coordinate[Current(r)]}]
               /\ Current(r) \in References
        BY <3>3 DEF RecordSuccess, IsReference
      <4>4. references[r] \subseteq Range(Coordinate)
        BY DEF TypeOK
      <4>5. \/ references'[r] = references[r]
            \/ references'[r] = references[r] \cup {Coordinate[Current(r)]} /\ Current(r) \in References
        BY <4>3 DEF TypeOK
      <4>6. QED
        BY <3>1, <4>2, <4>5
    <3>4. QED
      BY <3>2, <3>3 DEF Step, Kill, Resolve, Snapshot, Open, Solve, WriteArtifact, WriteTrace,
         RecordFailure, Finalize, memory
  <2>3. pc'[r] \in {"solved", "written", "traced"} => ~LacksReference(r)'
    <3> SUFFICES ASSUME pc'[r] \in {"solved", "written", "traced"} PROVE ~LacksReference(r)'
      OBVIOUS
    <3>1. ~(Resolve(r) \/ Snapshot(r) \/ Open(r) \/ Finalize(r) \/ Kill(r))
      BY DEF Resolve, Snapshot, Open, Finalize, Kill, Goto, TypeOK
    <3>2. ~(RecordSuccess(r) \/ RecordFailure(r))
      BY DEF RecordSuccess, RecordFailure, Advance, Goto, TypeOK
    <3>3. Solve(r) \/ WriteArtifact(r) \/ WriteTrace(r)
      BY <3>1, <3>2 DEF Step
    <3>4. ~LacksReference(r)
      BY <3>3 DEF Solve, WriteArtifact, WriteTrace, Held, Goto, TypeOK
    <3>5. position' = position /\ references' = references /\ matched' = matched
      BY <3>3 DEF Solve, WriteArtifact, WriteTrace, memory, choices
    <3>6. QED
      BY <3>4, <3>5 DEF LacksReference, Current, Order
  <2>4. \A q \in Runs \ {r} : LacksReference(q)' <=> LacksReference(q)
    BY <2>1 DEF LacksReference, Current, Order
  <2>5. QED
    BY <2>1, <2>2, <2>3, <2>4 DEF Held
<1>3. QED
  BY <1>1, <1>2 DEF Next, Done

LEMMA InitHeld == Init => Held
BY DEF Init, Held

LEMMA ReferencesStep ==
  ASSUME TypeOK, Fresh, Progress, Held, ReferencesDecideFirst, [Next]_vars
  PROVE  ReferencesDecideFirst'
<1>1. CASE UNCHANGED vars
  BY <1>1 DEF vars, ReferencesDecideFirst
<1>2. ASSUME NEW r \in Runs, Step(r) \/ Kill(r) PROVE ReferencesDecideFirst'
  <2> USE <1>2
  <2>1. matched' = matched /\ \A q \in Runs \ {r} : records'[q] = records[q]
    BY Locality
  <2>2. ASSUME matched[r], NEW a \in Artifacts \ References
        PROVE  LET own == {b \in References : Coordinate[b] = Coordinate[a]}
               IN  /\ records'[r][a] = "unmatched" => \A b \in own : records'[r][b] # "pending"
                   /\ records'[r][a] = "ok" => \E b \in own : records'[r][b] = "ok"
    <3> USE <2>2
    <3>1. CASE records'[r][a] = records[r][a]
      <4>1. \A b \in References : /\ records[r][b] # "pending" => records'[r][b] # "pending"
                                  /\ records[r][b] = "ok" => records'[r][b] = "ok"
        BY VerdictsStay, RunSetAssumption
      <4>2. QED
        BY <3>1, <4>1 DEF ReferencesDecideFirst
    <3>2. CASE RecordSuccess(r) /\ records'[r][a] # records[r][a]
      <4>1. a = Current(r) /\ records'[r][a] = "ok"
        BY <3>2 DEF RecordSuccess, Marked, TypeOK, Entries
      <4>2. Coordinate[a] \in references[r]
        BY <3>2, <4>1 DEF RecordSuccess, Held, LacksReference, IsReference
      <4>3. PICK b \in References : Coordinate[b] = Coordinate[a] /\ records[r][b] = "ok"
        BY <4>2 DEF Held
      <4>4. records'[r][b] = "ok"
        BY <4>3, VerdictsStay, RunSetAssumption
      <4>5. QED
        BY <4>1, <4>3, <4>4
    <3>3. CASE RecordFailure(r) /\ records'[r][a] # records[r][a]
      <4>1. a = Current(r) /\ records'[r][a] \in {"failed", "unmatched"} /\ pc[r] \in Loop
        BY <3>3 DEF RecordFailure, Marked, TypeOK, Entries, Loop
      <4>2. \A b \in References : records'[r][b] # "pending"
        <5> TAKE b \in References
        <5>1. position[r] \in DOMAIN Plan /\ Order(r)[position[r]] \notin References
          BY <4>1, CurrentType DEF Current
        <5>2. PICK l \in 1 .. position[r] - 1 : Order(r)[l] = b
          BY <5>1, OrderCorrect
        <5>3. l \in DOMAIN Plan /\ l < position[r]
          BY <5>1, <5>2, PlanType
        <5>4. records[r][b] # "pending"
          BY <4>1, <5>2, <5>3 DEF Progress
        <5>5. QED
          BY <5>4, VerdictsStay, RunSetAssumption
      <4>3. QED
        BY <4>1, <4>2
    <3>4. CASE Finalize(r) /\ records'[r][a] # records[r][a]
      <4>1. records'[r][a] = "failed"
        BY <3>4 DEF Finalize, Finalized, TypeOK, Entries
      <4>2. QED
        BY <4>1
    <3>5. QED
      BY <3>1, <3>2, <3>3, <3>4
      DEF Step, Kill, Resolve, Snapshot, Open, Solve, WriteArtifact, WriteTrace, memory
  <2>3. QED
    BY <2>1, <2>2 DEF ReferencesDecideFirst
<1>3. QED
  BY <1>1, <1>2 DEF Next, Done

LEMMA InitReferences == Init => ReferencesDecideFirst
BY RunSetAssumption DEF Init, ReferencesDecideFirst, Pending

\* What the loop knows of its own work.
LoopKnows == TypeOK /\ Fresh /\ Progress /\ Held

LEMMA LoopCorrect == Spec => []LoopKnows
<1>1. Init => LoopKnows
  BY InitTypes, InitFresh, InitProgress, InitHeld DEF LoopKnows
<1>2. LoopKnows /\ [Next]_vars => LoopKnows'
  BY TypeStep, FreshStep, ProgressStep, HeldStep DEF LoopKnows
<1>3. QED
  BY <1>1, <1>2, PTL DEF Spec

\* No dependent artifact is refused before its references were decided, and none
\* succeeds without one: the stable sort of the combinations and the map of the
\* kept objectives together, for any plan and any references.
THEOREM ReferencesCorrect == Spec => []ReferencesDecideFirst
<1>1. LoopKnows /\ ReferencesDecideFirst /\ [Next]_vars => ReferencesDecideFirst'
  BY ReferencesStep DEF LoopKnows
<1>2. QED
  BY <1>1, InitReferences, LoopCorrect, PTL DEF Spec

-----------------------------------------------------------------------------
(* The exit status and the manifest.                                       *)

\* A sealed manifest says of itself what its entries say.
HonestManifest(m) ==
  /\ m.status = "complete" => \A a \in Artifacts : m.entries[a] = "ok"
  /\ m.status = "failed" => \E a \in Artifacts : m.entries[a] \in {"failed", "unmatched"}
Honest == \A d \in Directories : HonestManifest(manifest[d])

\* The flag of the loop is down only when an entry shows why, or recording it threw.
Blamed == \A r \in Runs :
  \/ succeeded[r]
  \/ pc[r] = "exit2"
  \/ \E a \in Artifacts : records[r][a] \in {"failed", "unmatched"}

\* Who exits normally leaves the manifest that says so, if it can be read.
Sealed == \A r \in Runs :
  LET m == manifest[directory[r]]
  IN  m.by = r /\ Readable(directory[r]) =>
        /\ pc[r] = "exit0" => m.status = "complete"
        /\ pc[r] = "exit1" => m.status = "failed"

\* What a step of r may leave in a manifest.
LEMMA ManifestStep ==
  ASSUME TypeOK, NEW r \in Runs, Step(r) \/ Kill(r)
  PROVE  /\ \A d \in Directories \ {directory[r]} : manifest'[d] = manifest[d]
         /\ \/ manifest'[directory[r]] = manifest[directory[r]]
            \/ manifest'[directory[r]] = Torn(r)
            \/ /\ manifest'[directory[r]].by = r
               /\ manifest'[directory[r]].entries = records'[r]
               /\ \/ ~Finalize(r) /\ manifest'[directory[r]].status = "running"
                  \/ /\ Finalize(r)
                     /\ manifest'[directory[r]].status = Status(Finalized(records[r]))
                     /\ records'[r] = Finalized(records[r])
<1>1. manifest \in [Directories -> Manifests] /\ directory[r] \in Directories
  BY DEF TypeOK, Manifests, Statuses
<1>2. CASE UNCHANGED manifest
  BY <1>2
<1>3. CASE Open(r)
  <2>1. PICK w \in Writes : Save(r, w, "running", records[r])
    BY <1>3 DEF Open
  <2>2. records' = records /\ ~Finalize(r)
    BY <1>3 DEF Open, Finalize, memory
  <2>3. records[r] \in Entries
    BY DEF TypeOK
  <2>4. Rewritten(r, "running", records[r])
    BY <1>1, <2>1, <2>3, SaveCases DEF Statuses
  <2>5. QED
    BY <2>2, <2>4 DEF Rewritten
<1>4. CASE RecordSuccess(r)
  <2>1. PICK w \in Writes : Save(r, w, "running", Marked(r, "ok"))
    BY <1>4 DEF RecordSuccess
  <2>2. records'[r] = Marked(r, "ok") /\ ~Finalize(r)
    BY <1>4 DEF RecordSuccess, Finalize, TypeOK
  <2>3. Marked(r, "ok") \in Entries
    BY MarkedType
  <2>4. Rewritten(r, "running", Marked(r, "ok"))
    BY <1>1, <2>1, <2>3, SaveCases DEF Statuses
  <2>5. QED
    BY <2>2, <2>4 DEF Rewritten
<1>5. CASE RecordFailure(r) /\ ~UNCHANGED manifest
  <2>1. PICK w \in Writes : Save(r, w, "running", Marked(r, pc[r]))
    BY <1>5 DEF RecordFailure
  <2>2. records'[r] = Marked(r, pc[r]) /\ ~Finalize(r)
    BY <1>5 DEF RecordFailure, Finalize, TypeOK
  <2>3. Marked(r, pc[r]) \in Entries
    BY <1>5, MarkedType DEF RecordFailure
  <2>4. Rewritten(r, "running", Marked(r, pc[r]))
    BY <1>1, <2>1, <2>3, SaveCases DEF Statuses
  <2>5. QED
    BY <2>2, <2>4 DEF Rewritten
<1>6. CASE Finalize(r)
  <2>1. PICK w \in Writes : Save(r, w, Status(Finalized(records[r])), Finalized(records[r]))
    BY <1>6 DEF Finalize
  <2>2. records'[r] = Finalized(records[r])
    BY <1>6 DEF Finalize, TypeOK
  <2>3. /\ Status(Finalized(records[r])) \in Statuses
        /\ Finalized(records[r]) \in Entries
    BY StatusType DEF TypeOK, Statuses
  <2>4. Rewritten(r, Status(Finalized(records[r])), Finalized(records[r]))
    BY <1>1, <2>1, <2>3, SaveCases DEF Statuses
  <2>5. QED
    BY <2>2, <2>4, <1>6 DEF Rewritten
<1>7. CASE Kill(r) /\ ~UNCHANGED manifest
  <2>1. Save(r, "cut", "running", Pending)
    BY <1>7 DEF Kill
  <2>2. manifest' = [manifest EXCEPT ![directory[r]] = Torn(r)]
    BY <2>1 DEF Save, After
  <2>3. QED
    BY <1>1, <2>2
<1>8. QED
  BY <1>2, <1>3, <1>4, <1>5, <1>6, <1>7
  DEF Step, Resolve, Snapshot, Solve, WriteArtifact, WriteTrace, files

\* The status that finalize computes fits the entries it writes.
LEMMA StatusHonest ==
  ASSUME NEW entries \in Entries
  PROVE  /\ Status(Finalized(entries)) = "complete"
              => \A a \in Artifacts : Finalized(entries)[a] = "ok"
         /\ Status(Finalized(entries)) = "failed"
              => \E a \in Artifacts : Finalized(entries)[a] \in {"failed", "unmatched"}
BY StatusType DEF Status

LEMMA HonestStep ==
  ASSUME TypeOK, Honest, [Next]_vars
  PROVE  Honest'
<1>1. CASE UNCHANGED vars
  BY <1>1 DEF vars, Honest, HonestManifest
<1>2. ASSUME NEW r \in Runs, Step(r) \/ Kill(r) PROVE Honest'
  <2>1. HonestManifest(Torn(r))
    BY DEF HonestManifest, Torn
  <2>2. records[r] \in Entries
    BY DEF TypeOK
  <2>3. HonestManifest(manifest'[directory[r]]) \/ manifest'[directory[r]] = manifest[directory[r]]
    BY <1>2, <2>1, <2>2, ManifestStep, StatusHonest DEF HonestManifest
  <2>4. QED
    BY <1>2, <2>3, ManifestStep DEF Honest, HonestManifest
<1>3. QED
  BY <1>1, <1>2 DEF Next, Done

LEMMA BlamedStep ==
  ASSUME TypeOK, Fresh, Progress, Blamed, [Next]_vars
  PROVE  Blamed'
<1>1. CASE UNCHANGED vars
  BY <1>1 DEF vars, Blamed
<1>2. ASSUME NEW r \in Runs, Step(r) \/ Kill(r) PROVE Blamed'
  <2> USE <1>2
  <2>1. /\ pc[r] \notin Ended
        /\ \A q \in Runs \ {r} :
             pc'[q] = pc[q] /\ succeeded'[q] = succeeded[q] /\ records'[q] = records[q]
    BY Locality
  <2>2. \/ succeeded[r]
        \/ \E a \in Artifacts : records[r][a] \in {"failed", "unmatched"}
    BY <2>1 DEF Blamed, Ended
  <2>3. \/ succeeded'[r]
        \/ pc'[r] = "exit2"
        \/ \E a \in Artifacts : records'[r][a] \in {"failed", "unmatched"}
    <3>1. CASE UNCHANGED <<records, succeeded>>
      BY <2>2, <3>1
    <3>2. CASE RecordSuccess(r)
      <4>1. /\ records[r][Current(r)] = "pending" /\ succeeded' = succeeded
            /\ records' = [records EXCEPT ![r] = Marked(r, "ok")]
        BY <3>2 DEF RecordSuccess, Progress, Loop
      <4>2. \A a \in Artifacts : records[r][a] # "pending" => records'[r][a] = records[r][a]
        BY <4>1 DEF Marked, TypeOK, Entries
      <4>3. QED
        BY <2>2, <4>1, <4>2
    <3>3. CASE RecordFailure(r)
      <4>1. Current(r) \in Artifacts /\ pc[r] \in {"failed", "unmatched"}
        BY <3>3, CurrentType DEF RecordFailure, Loop
      <4>2. CASE records[r][Current(r)] # "pending"
        BY <3>3, <4>2 DEF RecordFailure, Goto, TypeOK
      <4>3. CASE records[r][Current(r)] = "pending"
        <5>1. records' = [records EXCEPT ![r] = Marked(r, pc[r])]
          BY <3>3, <4>3 DEF RecordFailure
        <5>2. records'[r][Current(r)] = pc[r]
          BY <4>1, <5>1 DEF Marked, TypeOK, Entries
        <5>3. QED
          BY <4>1, <5>2
      <4>4. QED
        BY <4>2, <4>3
    <3>4. CASE Finalize(r)
      <4>1. /\ succeeded' = succeeded
            /\ \A a \in Artifacts : records[r][a] # "pending" => records'[r][a] = records[r][a]
        BY <3>4 DEF Finalize, Finalized, TypeOK, Entries
      <4>2. QED
        BY <2>2, <4>1
    <3>5. QED
      BY <3>1, <3>2, <3>3, <3>4
      DEF Step, Kill, Resolve, Snapshot, Open, Solve, WriteArtifact, WriteTrace, memory
  <2>4. QED
    BY <2>1, <2>3 DEF Blamed
<1>3. QED
  BY <1>1, <1>2 DEF Next, Done

LEMMA SealedStep ==
  ASSUME TypeOK, Blamed, Sealed, [Next]_vars
  PROVE  Sealed'
<1>1. CASE UNCHANGED vars
  BY <1>1 DEF vars, Sealed, Readable
<1>2. ASSUME NEW r \in Runs, Step(r) \/ Kill(r) PROVE Sealed'
  <2> USE <1>2
  <2>1. ASSUME NEW q \in Runs \ {r}
        PROVE  /\ pc'[q] = pc[q] /\ directory'[q] = directory[q]
               /\ \/ manifest'[directory[q]] = manifest[directory[q]]
                  \/ manifest'[directory[q]].by # q
    <3>1. pc'[q] = pc[q] /\ directory'[q] = directory[q]
      BY Locality
    <3>2. Torn(r).by = r /\ directory[q] \in Directories
      BY DEF TypeOK, Torn
    <3>3. \/ manifest'[directory[q]] = manifest[directory[q]]
          \/ manifest'[directory[q]].by = r
      BY <3>2, ManifestStep
    <3>4. QED
      BY <3>1, <3>3
  <2>2. CASE Finalize(r)
    <3> DEFINE status == Status(Finalized(records[r]))
    <3>1. directory' = directory /\ directory[r] \in Directories /\ records[r] \in Entries
      BY <2>2 DEF Finalize, TypeOK
    <3>2. status \in {"complete", "failed"}
      BY <3>1, StatusType
    <3>3. PICK w \in Writes :
            /\ Save(r, w, status, Finalized(records[r]))
            /\ Goto(r, IF Raises(w) THEN "exit2"
                       ELSE IF status = "complete" /\ succeeded[r] THEN "exit0" ELSE "exit1")
      BY <2>2 DEF Finalize
    <3>4. CASE Raises(w)
      BY <2>1, <3>1, <3>3, <3>4 DEF Sealed, Readable, Goto, TypeOK
    <3>5. CASE ~Raises(w)
      <4>1. \/ manifest'[directory[r]].status = status
            \/ manifest'[directory[r]].status = "torn"
        <5>1. manifest \in [Directories -> Manifests]
          BY DEF TypeOK, Manifests, Statuses
        <5>2. manifest'[directory[r]] \in
                {[by |-> r, status |-> status, entries |-> Finalized(records[r])], Torn(r)}
          BY <3>1, <3>2, <3>3, <3>5, <5>1, SaveCases, StatusType DEF Statuses
        <5>3. QED
          BY <5>2 DEF Torn
      <4>2. status = "complete" => succeeded[r]
        <5>1. ASSUME NEW a \in Artifacts, records[r][a] \in {"failed", "unmatched"}
              PROVE  status = "failed"
          BY <3>1, <5>1 DEF Status, Finalized
        <5>2. pc[r] = "executed"
          BY <2>2 DEF Finalize
        <5>3. QED
          BY <5>1, <5>2 DEF Blamed
      <4>3. /\ pc'[r] = "exit0" => status = "complete"
            /\ pc'[r] = "exit1" => status = "failed"
        BY <3>2, <3>3, <3>5, <4>2 DEF Goto, TypeOK
      <4>4. QED
        BY <2>1, <3>1, <4>1, <4>3 DEF Sealed, Readable
    <3>6. QED
      BY <3>4, <3>5
  <2>3. CASE ~Finalize(r)
    <3>1. pc'[r] \notin {"exit0", "exit1"}
      <4> USE DEF Goto, TypeOK
      <4>1. CASE Resolve(r) \/ Snapshot(r) \/ Open(r) \/ Solve(r)
        BY <4>1 DEF Resolve, Snapshot, Open, Solve
      <4>2. CASE WriteArtifact(r) \/ WriteTrace(r) \/ Kill(r)
        BY <4>2 DEF WriteArtifact, WriteTrace, Kill
      <4>3. CASE RecordSuccess(r) \/ RecordFailure(r)
        BY <4>3 DEF RecordSuccess, RecordFailure, Advance
      <4>4. QED
        BY <2>3, <4>1, <4>2, <4>3 DEF Step
    <3>2. QED
      BY <2>1, <3>1 DEF Sealed, Readable
  <2>4. QED
    BY <2>2, <2>3
<1>3. QED
  BY <1>1, <1>2 DEF Next, Done

Story == Honest /\ Blamed /\ Sealed

LEMMA StoryCorrect == Spec => []Story
<1>1. Init => Story
  BY DEF Init, Story, Honest, HonestManifest, Blamed, Sealed, Readable
<1>2. LoopKnows /\ Story /\ [Next]_vars => Story'
  BY HonestStep, BlamedStep, SealedStep DEF LoopKnows, Story
<1>3. QED
  BY <1>1, <1>2, LoopCorrect, PTL DEF Spec

\* The exit status, the sealed manifest and its entries agree, whatever is killed,
\* refused or lost on the way and however many invocations share a directory.
THEOREM ExitCorrect == Spec => []ExitMatchesManifest
<1>1. LoopKnows /\ Story => ExitMatchesManifest
  BY DEF LoopKnows, TypeOK, Story, Honest, HonestManifest, Sealed, ExitMatchesManifest
<1>2. QED
  BY <1>1, StoryCorrect, LoopCorrect, PTL

-----------------------------------------------------------------------------
(* The promise of the inventory.                                           *)

stageOf == [r \in Runs |-> Stage(r)]
ledgerOf == [r \in Runs |-> [a \in Artifacts |-> Verdict(records[r][a])]]

\* One step changes one line of the abstract ledger.
LEMMA LedgerFrame ==
  ASSUME TypeOK, NEW r \in Runs, Step(r) \/ Kill(r)
  PROVE  /\ stageOf' = [stageOf EXCEPT ![r] = Stage(r)']
         /\ records' = records => ledgerOf' = ledgerOf
         /\ ledgerOf' = [ledgerOf EXCEPT ![r] = [a \in Artifacts |-> Verdict(records'[r][a])]]
<1>1. \A q \in Runs \ {r} : pc'[q] = pc[q] /\ records'[q] = records[q]
  BY Locality
<1>2. \A q \in Runs \ {r} : Stage(q)' = Stage(q)
  BY <1>1 DEF Stage
<1>3. QED
  BY <1>1, <1>2 DEF stageOf, ledgerOf

\* Marking the current artifact is one decision of the abstract ledger.
LEMMA MarkDecides ==
  ASSUME TypeOK, NEW r \in Runs, Step(r) \/ Kill(r), pc[r] \in Loop,
         records[r][Current(r)] = "pending", NEW status \in {"ok", "failed", "unmatched"},
         records'[r] = Marked(r, status),
         Stage(r)' \in {"open", "abandoned"}
  PROVE  Ledger!Decide(r, Current(r))
<1>1. Current(r) \in Artifacts
  BY CurrentType
<1>2. Stage(r) = "open" /\ stageOf[r] = "open" /\ Runs = DOMAIN stageOf
  BY DEF Stage, stageOf, Loop
<1>3. Verdict(status) \in {"ok", "error"} /\ Verdict("pending") = "pending"
  BY DEF Verdict
<1>4. ledgerOf' = [ledgerOf EXCEPT ![r][Current(r)] = Verdict(status)]
  <2>1. \A a \in Artifacts : Marked(r, status)[a] =
          IF a = Current(r) THEN status ELSE records[r][a]
    BY DEF Marked, TypeOK, Entries
  <2>2. ledgerOf' = [ledgerOf EXCEPT ![r] = [a \in Artifacts |-> Verdict(records'[r][a])]]
    BY LedgerFrame
  <2>3. [a \in Artifacts |-> Verdict(records'[r][a])]
          = [ledgerOf[r] EXCEPT ![Current(r)] = Verdict(status)]
    BY <1>1, <2>1 DEF ledgerOf
  <2>4. QED
    BY <2>2, <2>3
<1>5. stageOf' \in {stageOf, [stageOf EXCEPT ![r] = "abandoned"]}
  <2>1. stageOf' = [stageOf EXCEPT ![r] = Stage(r)']
    BY LedgerFrame
  <2>2. [stageOf EXCEPT ![r] = "open"] = stageOf
    BY <1>2 DEF stageOf
  <2>3. QED
    BY <2>1, <2>2
<1>6. ledgerOf[r][Current(r)] = "pending"
  BY <1>1, <1>3 DEF ledgerOf
<1>7. QED
  BY <1>2, <1>3, <1>4, <1>5, <1>6 DEF Ledger!Decide, stageOf, ledgerOf

LEMMA LedgerStep ==
  ASSUME LoopKnows, Story, [Next]_vars
  PROVE  [Ledger!Next]_<<stageOf, ledgerOf>>
<1> USE DEF LoopKnows
<1>1. CASE UNCHANGED vars
  <2>1. \A r \in Runs : Stage(r)' = Stage(r)
    BY <1>1 DEF vars, Stage
  <2>2. QED
    BY <1>1, <2>1 DEF vars, stageOf, ledgerOf
<1>2. ASSUME NEW r \in Runs, Step(r) \/ Kill(r) PROVE [Ledger!Next]_<<stageOf, ledgerOf>>
  <2> USE <1>2
  <2>0. stageOf' = [stageOf EXCEPT ![r] = Stage(r)'] /\ DOMAIN stageOf = Runs
    BY LedgerFrame DEF stageOf
  <2>1. ASSUME records' = records, Stage(r)' = Stage(r)
        PROVE  UNCHANGED <<stageOf, ledgerOf>>
    BY <2>0, <2>1, LedgerFrame DEF stageOf
  <2>2. ASSUME records' = records, Stage(r) \in {"unopened", "open"}, Stage(r)' = "abandoned"
        PROVE  Ledger!Abandon(r)
    <3>1. ledgerOf' = ledgerOf /\ stageOf[r] = Stage(r)
      BY <2>2, LedgerFrame DEF stageOf
    <3>2. QED
      BY <2>0, <2>2, <3>1 DEF Ledger!Abandon, stageOf, ledgerOf
  <2>3. CASE Resolve(r) \/ Snapshot(r)
    <3>1. records' = records /\ Stage(r) = "unopened" /\ Stage(r)' \in {"unopened", "abandoned"}
      BY <2>3 DEF Resolve, Snapshot, Goto, TypeOK, memory, Stage
    <3>2. QED
      BY <2>1, <2>2, <3>1 DEF Ledger!Next
  <2>4. CASE Open(r)
    <3>1. records' = records /\ Stage(r) = "unopened" /\ Stage(r)' \in {"open", "abandoned"}
      BY <2>4 DEF Open, Goto, TypeOK, memory, Stage
    <3>2. CASE Stage(r)' = "open"
      <4>1. ledgerOf' = ledgerOf /\ stageOf[r] = "unopened"
        BY <3>1, LedgerFrame DEF stageOf
      <4>2. Ledger!Open(r)
        BY <2>0, <3>2, <4>1 DEF Ledger!Open, stageOf, ledgerOf
      <4>3. QED
        BY <4>2 DEF Ledger!Next
    <3>3. QED
      BY <2>2, <3>1, <3>2 DEF Ledger!Next
  <2>5. CASE Solve(r) \/ WriteArtifact(r) \/ WriteTrace(r)
    <3>1. records' = records /\ Stage(r) = "open" /\ Stage(r)' = "open"
      BY <2>5 DEF Solve, WriteArtifact, WriteTrace, Goto, TypeOK, memory, Stage
    <3>2. QED
      BY <2>1, <3>1
  <2>6. CASE RecordSuccess(r)
    <3>1. /\ pc[r] \in Loop /\ records[r][Current(r)] = "pending"
          /\ records'[r] = Marked(r, "ok")
      BY <2>6 DEF RecordSuccess, Progress, Loop, TypeOK
    <3>2. Stage(r)' = "open"
      BY <2>6 DEF RecordSuccess, Advance, Goto, TypeOK, Stage
    <3>3. Ledger!Decide(r, Current(r)) /\ Current(r) \in Artifacts
      BY <3>1, <3>2, MarkDecides, CurrentType
    <3>4. QED
      BY <3>3 DEF Ledger!Next
  <2>7. CASE RecordFailure(r)
    <3>1. /\ pc[r] \in Loop /\ pc[r] \in {"failed", "unmatched"}
          /\ Stage(r) = "open" /\ Stage(r)' \in {"open", "abandoned"}
      BY <2>7 DEF RecordFailure, Advance, Goto, TypeOK, Loop, Stage
    <3>2. CASE records[r][Current(r)] # "pending"
      <4>1. records' = records /\ Stage(r)' = "abandoned"
        BY <2>7, <3>2 DEF RecordFailure, Goto, TypeOK, Stage
      <4>2. QED
        BY <2>2, <3>1, <4>1 DEF Ledger!Next
    <3>3. CASE records[r][Current(r)] = "pending"
      <4>1. records'[r] = Marked(r, pc[r])
        BY <2>7, <3>3 DEF RecordFailure, TypeOK
      <4>2. Ledger!Decide(r, Current(r)) /\ Current(r) \in Artifacts
        BY <3>1, <3>3, <4>1, MarkDecides, CurrentType
      <4>3. QED
        BY <4>2 DEF Ledger!Next
    <3>4. QED
      BY <3>2, <3>3
  <2>8. CASE Finalize(r)
    <3>1. \A a \in Artifacts : records[r][a] # "pending"
      BY <2>8 DEF Finalize, Progress
    <3>2. Finalized(records[r]) = records[r]
      BY <3>1 DEF Finalized, TypeOK, Entries
    <3>3. records' = records
      BY <2>8, <3>2 DEF Finalize, TypeOK
    <3>4. /\ Stage(r) = "open"
          /\ \/ pc'[r] = "exit2"
             \/ pc'[r] = "exit0" /\ Status(records[r]) = "complete"
             \/ pc'[r] = "exit1" /\ ~(Status(records[r]) = "complete" /\ succeeded[r])
      BY <2>8, <3>2 DEF Finalize, Goto, TypeOK, Stage
    <3>5. CASE pc'[r] = "exit2"
      BY <2>2, <3>3, <3>4, <3>5 DEF Stage, Ledger!Next
    <3>6. CASE pc'[r] \in {"exit0", "exit1"}
      <4>1. (\A a \in Artifacts : records[r][a] = "ok") <=> pc'[r] = "exit0"
        <5>1. Status(records[r]) = "complete" => \A a \in Artifacts : records[r][a] = "ok"
          BY <3>1 DEF Status, TypeOK, Entries
        <5>2. (\A a \in Artifacts : records[r][a] = "ok") => Status(records[r]) = "complete" /\ succeeded[r]
          <6>1. pc[r] = "executed"
            BY <2>8 DEF Finalize
          <6>2. QED
            BY <6>1 DEF Status, Story, Blamed
        <5>3. QED
          BY <3>4, <3>6, <5>1, <5>2
      <4>2. \A a \in Artifacts : /\ ledgerOf[r][a] # "pending"
                                 /\ ledgerOf[r][a] = "ok" <=> records[r][a] = "ok"
        BY <3>1 DEF ledgerOf, Verdict, TypeOK, Entries
      <4>3. ledgerOf' = ledgerOf /\ stageOf[r] = "open"
        BY <3>3, <3>4, LedgerFrame DEF stageOf
      <4>4. Stage(r)' = IF \A a \in Artifacts : ledgerOf[r][a] = "ok" THEN "complete" ELSE "failed"
        BY <3>6, <4>1, <4>2 DEF Stage
      <4>5. Ledger!Seal(r)
        BY <2>0, <4>2, <4>3, <4>4 DEF Ledger!Seal, stageOf, ledgerOf
      <4>6. QED
        BY <4>5 DEF Ledger!Next
    <3>7. QED
      BY <3>4, <3>5, <3>6
  <2>9. CASE Kill(r)
    <3>1. /\ records' = records /\ Stage(r)' = "abandoned"
          /\ Stage(r) \in {"unopened", "open"}
      BY <2>9 DEF Kill, Goto, TypeOK, memory, Stage, Ended
    <3>2. QED
      BY <2>2, <3>1 DEF Ledger!Next
  <2>10. QED
    BY <2>3, <2>4, <2>5, <2>6, <2>7, <2>8, <2>9 DEF Step
<1>3. QED
  BY <1>1, <1>2 DEF Next, Done

\* The safety half of the promise: every entry is decided at most once, while the
\* run is open; a run is sealed only when all entries are decided, and as complete
\* exactly when all of them are ok.
THEOREM ImplementsPromise ==
  Spec => /\ Ledger!Init
          /\ [][Ledger!Next]_<<[r \in Runs |-> Stage(r)],
                [r \in Runs |-> [a \in Artifacts |-> Verdict(records[r][a])]]>>
<1>1. Init => Ledger!Init
  BY DEF Init, Ledger!Init, Stage, Verdict, Pending
<1>2. LoopKnows /\ Story /\ [Next]_vars
        => [Ledger!Next]_<<[r \in Runs |-> Stage(r)],
              [r \in Runs |-> [a \in Artifacts |-> Verdict(records[r][a])]]>>
  BY LedgerStep DEF stageOf, ledgerOf
<1>3. QED
  BY <1>1, <1>2, LoopCorrect, StoryCorrect, PTL DEF Spec

-----------------------------------------------------------------------------
(* One invocation at a time.                                               *)

\* Who has started finds every earlier invocation ended.
Sequential == \A r, q \in Runs : q < r /\ pc[r] # "called" => pc[q] \in Ended

\* The invocation inside a directory owns its manifest.
Owned == \A r \in Runs : pc[r] \in Active =>
  /\ manifest[directory[r]].by = r
  /\ manifest[directory[r]].status # "absent"

\* While an invocation moves, those before it have ended and those after it have
\* not started.
LEMMA Alone ==
  ASSUME ~Overlap, TypeOK, Sequential, NEW r \in Runs, Step(r) \/ Kill(r), NEW q \in Runs \ {r}
  PROVE  /\ pc'[q] = pc[q] /\ directory'[q] = directory[q] /\ records'[q] = records[q]
         /\ q < r => pc[q] \in Ended
         /\ r < q => pc[q] = "called"
         /\ q < r \/ r < q
         /\ pc[q] \in Ended \cup {"called"}
<1>1. /\ pc[r] \notin Ended
      /\ pc'[q] = pc[q] /\ directory'[q] = directory[q] /\ records'[q] = records[q]
  BY Locality
<1>2. q < r \/ r < q
  BY RunSetAssumption
<1>3. ASSUME q < r PROVE pc[q] \in Ended
  <2>1. CASE pc[r] = "called"
    <3>1. Resolve(r)
      BY <2>1 DEF Step, Kill, Snapshot, Open, Solve, WriteArtifact, WriteTrace, RecordSuccess,
         RecordFailure, Finalize
    <3>2. QED
      BY <1>3, <3>1 DEF Resolve, MayStart
  <2>2. QED
    BY <1>3, <2>1 DEF Sequential
<1>4. ASSUME r < q PROVE pc[q] = "called"
  BY <1>1, <1>4 DEF Sequential
<1>5. QED
  BY <1>1, <1>2, <1>3, <1>4

LEMMA SequentialStep ==
  ASSUME ~Overlap, TypeOK, Sequential, [Next]_vars
  PROVE  Sequential'
<1>1. CASE UNCHANGED vars
  BY <1>1 DEF vars, Sequential
<1>2. ASSUME NEW r \in Runs, Step(r) \/ Kill(r) PROVE Sequential'
  <2>1. pc[r] \notin Ended
    BY <1>2, Locality
  <2>2. \A q \in Runs \ {r} : /\ pc'[q] = pc[q]
                              /\ q < r => pc[q] \in Ended
                              /\ r < q => pc[q] = "called"
    BY <1>2, Alone
  <2>3. \A q \in Runs : ~(q < q)
    BY RunSetAssumption
  <2>4. ASSUME NEW p \in Runs, NEW q \in Runs, q < p, pc'[p] # "called"
        PROVE  pc'[q] \in Ended
    <3>1. CASE p = r
      BY <2>2, <2>3, <2>4, <3>1
    <3>2. CASE p # r /\ q = r
      BY <2>2, <2>4, <3>2
    <3>3. CASE p # r /\ q # r
      BY <2>2, <2>4, <3>3 DEF Sequential
    <3>4. QED
      BY <3>1, <3>2, <3>3
  <2>5. QED
    BY <2>4 DEF Sequential
<1>3. QED
  BY <1>1, <1>2 DEF Next, Done

\* What an invocation outside its directory's files leaves alone.
LEMMA OutsideLeaves ==
  ASSUME TypeOK, NEW r \in Runs, Step(r) \/ Kill(r), pc[r] \notin Active
  PROVE  /\ document' = document /\ trace' = trace
         /\ pc[r] # "snapshotted" => manifest' = manifest
BY DEF Step, Kill, Resolve, Snapshot, Open, Solve, WriteArtifact, WriteTrace, RecordSuccess,
   RecordFailure, Finalize, files, Active, Loop

\* In the directory: it stays, and an active invocation was snapshotted or active.
LEMMA DirectoryStays ==
  ASSUME TypeOK, NEW r \in Runs, Step(r) \/ Kill(r), pc[r] # "called"
  PROVE  /\ directory' = directory
         /\ pc'[r] \in Active => pc[r] \in Active \cup {"snapshotted"}
<1> USE DEF Active, Loop, Goto, TypeOK
<1>1. CASE Snapshot(r) \/ Open(r) \/ Solve(r) \/ WriteArtifact(r) \/ WriteTrace(r)
  BY <1>1 DEF Snapshot, Open, Solve, WriteArtifact, WriteTrace
<1>2. CASE RecordSuccess(r) \/ RecordFailure(r)
  BY <1>2 DEF RecordSuccess, RecordFailure
<1>3. CASE Finalize(r) \/ Kill(r)
  BY <1>3 DEF Finalize, Kill
<1>4. QED
  BY <1>1, <1>2, <1>3 DEF Step, Resolve

LEMMA OwnedStep ==
  ASSUME ~Overlap, TypeOK, Sequential, Owned, [Next]_vars
  PROVE  Owned'
<1>1. CASE UNCHANGED vars
  BY <1>1 DEF vars, Owned
<1>2. ASSUME NEW r \in Runs, Step(r) \/ Kill(r) PROVE Owned'
  <2> USE <1>2
  <2>1. \A q \in Runs \ {r} : pc'[q] \notin Active
    BY Alone DEF Active, Loop, Ended
  <2>2. ASSUME pc'[r] \in Active
        PROVE  /\ manifest'[directory'[r]].by = r
               /\ manifest'[directory'[r]].status # "absent"
    <3> USE <2>2
    <3>1. pc[r] # "called"
      BY DEF Step, Kill, Resolve, Snapshot, Open, Solve, WriteArtifact, WriteTrace, RecordSuccess,
         RecordFailure, Finalize, Goto, TypeOK, Active, Loop
    <3>2. directory' = directory /\ pc[r] \in Active \cup {"snapshotted"}
      BY <3>1, DirectoryStays
    <3>3. directory[r] \in Directories /\ records[r] \in Entries
      BY DEF TypeOK
    <3>4. CASE pc[r] \in Active
      <4>1. /\ Torn(r).by = r /\ Torn(r).status # "absent"
            /\ Status(Finalized(records[r])) # "absent"
        BY <3>3, StatusType DEF Torn
      <4>2. QED
        BY <3>2, <3>4, <4>1, ManifestStep DEF Owned
    <3>5. CASE pc[r] = "snapshotted"
      <4>1. Open(r)
        BY <3>5 DEF Step, Kill, Resolve, Snapshot, Solve, WriteArtifact, WriteTrace, RecordSuccess,
           RecordFailure, Finalize, Goto, TypeOK, Active, Loop
      <4>2. PICK w \in Writes : /\ Save(r, w, "running", records[r])
                                /\ Goto(r, IF Raises(w) THEN "exit2" ELSE "solving")
        BY <4>1 DEF Open
      <4>3. ~Raises(w)
        BY <4>2 DEF Goto, TypeOK, Active, Loop
      <4>4. manifest \in [Directories -> Manifests]
        BY DEF TypeOK, Manifests, Statuses
      <4>5. manifest'[directory[r]] \in
              {Torn(r), [by |-> r, status |-> "running", entries |-> records[r]]}
        BY <3>3, <4>2, <4>3, <4>4, SaveCases DEF Statuses
      <4>6. QED
        BY <3>2, <4>5 DEF Torn
    <3>6. QED
      BY <3>2, <3>4, <3>5
  <2>3. QED
    BY <2>1, <2>2 DEF Owned
<1>3. QED
  BY <1>1, <1>2 DEF Next, Done

\* What is recorded as ok lies, with its trace, in the directory of its run.
Files == \A r \in Runs : pc[r] \in Active =>
  LET d == directory[r]
  IN  /\ \A a \in Artifacts : records[r][a] = "ok" => document[d][a].by = r /\ trace[d][a] = r
      /\ pc[r] \in {"written", "traced"} => document[d][Current(r)].by = r
      /\ pc[r] = "traced" => trace[d][Current(r)] = r

\* What any manifest calls ok lies, with its trace, beside it; and a directory
\* without a manifest has no artifact.
Kept == \A d \in Directories, a \in Artifacts :
  /\ manifest[d].entries[a] = "ok" =>
       /\ manifest[d].by # Nobody
       /\ document[d][a].by = manifest[d].by /\ trace[d][a] = manifest[d].by
  /\ manifest[d].status = "absent" => document[d][a].by = Nobody

\* What a step of r may do to the artifacts.
LEMMA DocumentStep ==
  ASSUME TypeOK, NEW r \in Runs, Step(r) \/ Kill(r), NEW d \in Directories, NEW a \in Artifacts
  PROVE  /\ \/ document'[d][a] = document[d][a]
            \/ d = directory[r] /\ document'[d][a].by = r /\ pc[r] \in Active
         /\ \/ trace'[d][a] = trace[d][a]
            \/ d = directory[r] /\ trace'[d][a] = r /\ pc[r] \in Active
<1> USE DEF TypeOK, Active, Loop
<1>1. CASE UNCHANGED files
  BY <1>1 DEF files
<1>2. CASE WriteArtifact(r)
  <2>1. PICK w \in Writes : document' = [document EXCEPT ![directory[r]][Current(r)] =
          After(w, @, [by |-> r, whole |-> TRUE], [by |-> r, whole |-> FALSE])]
    BY <1>2 DEF WriteArtifact
  <2>2. pc[r] \in Active /\ trace' = trace
    BY <1>2 DEF WriteArtifact
  <2>3. QED
    BY <2>1, <2>2 DEF After
<1>3. CASE WriteTrace(r)
  <2>1. PICK w \in Writes :
          trace' = [trace EXCEPT ![directory[r]][Current(r)] = After(w, @, r, r)]
    BY <1>3 DEF WriteTrace
  <2>2. pc[r] \in Active /\ document' = document
    BY <1>3 DEF WriteTrace
  <2>3. QED
    BY <2>1, <2>2 DEF After
<1>4. CASE Kill(r) /\ ~UNCHANGED files
  <2>1. \/ /\ pc[r] = "solved" /\ trace' = trace
           /\ document' = [document EXCEPT ![directory[r]][Current(r)] = [by |-> r, whole |-> FALSE]]
        \/ /\ pc[r] = "written" /\ document' = document
           /\ trace' = [trace EXCEPT ![directory[r]][Current(r)] = r]
    BY <1>4 DEF Kill
  <2>2. CASE document' = [document EXCEPT ![directory[r]][Current(r)] = [by |-> r, whole |-> FALSE]]
    BY <2>1, <2>2
  <2>3. CASE trace' = [trace EXCEPT ![directory[r]][Current(r)] = r]
    BY <2>1, <2>3
  <2>4. QED
    BY <2>1, <2>2, <2>3
<1>5. QED
  BY <1>1, <1>2, <1>3, <1>4
  DEF Step, Resolve, Snapshot, Open, Solve, RecordSuccess, RecordFailure, Finalize

LEMMA FilesAfter ==
  ASSUME TypeOK, Files, NEW r \in Runs, Step(r) \/ Kill(r), pc[r] \in Active,
         NEW a \in Artifacts, records'[r][a] = "ok"
  PROVE  document'[directory[r]][a].by = r /\ trace'[directory[r]][a] = r
<1>1. directory[r] \in Directories
  BY DEF TypeOK
<1>2. CASE records[r][a] = "ok"
  BY <1>1, <1>2, DocumentStep DEF Files
<1>3. CASE records[r][a] # "ok"
  <2>1. RecordSuccess(r) /\ a = Current(r)
    <3>1. CASE RecordSuccess(r)
      BY <1>3, <3>1 DEF RecordSuccess, Marked, TypeOK, Entries
    <3>2. CASE RecordFailure(r)
      BY <1>3, <3>2 DEF RecordFailure, Marked, TypeOK, Entries
    <3>3. CASE Finalize(r)
      BY <1>3, <3>3 DEF Finalize, Finalized, TypeOK, Entries
    <3>4. QED
      BY <1>3, <3>1, <3>2, <3>3
      DEF Step, Kill, Resolve, Snapshot, Open, Solve, WriteArtifact, WriteTrace, memory
  <2>2. pc[r] = "traced"
    BY <2>1 DEF RecordSuccess
  <2>3. QED
    BY <1>1, <2>1, <2>2, DocumentStep DEF Files
<1>4. QED
  BY <1>2, <1>3

LEMMA FilesStep ==
  ASSUME ~Overlap, TypeOK, Fresh, Sequential, Files, [Next]_vars
  PROVE  Files'
<1>1. CASE UNCHANGED vars
  BY <1>1 DEF vars, Files, Current, Order
<1>2. ASSUME NEW r \in Runs, Step(r) \/ Kill(r) PROVE Files'
  <2> USE <1>2
  <2>1. \A q \in Runs \ {r} : pc'[q] \notin Active
    BY Alone DEF Active, Loop, Ended
  <2>2. ASSUME pc'[r] \in Active
        PROVE  LET d == directory'[r]
               IN  /\ \A a \in Artifacts : records'[r][a] = "ok" =>
                        document'[d][a].by = r /\ trace'[d][a] = r
                   /\ pc'[r] \in {"written", "traced"} => document'[d][Current(r)'].by = r
                   /\ pc'[r] = "traced" => trace'[d][Current(r)'] = r
    <3> USE <2>2
    <3>1. pc[r] # "called"
      BY DEF Step, Kill, Resolve, Snapshot, Open, Solve, WriteArtifact, WriteTrace, RecordSuccess,
         RecordFailure, Finalize, Goto, TypeOK, Active, Loop
    <3>2. directory' = directory /\ pc[r] \in Active \cup {"snapshotted"}
      BY <3>1, DirectoryStays
    <3>3. CASE pc[r] = "snapshotted"
      <4>1. Open(r)
        BY <3>3 DEF Step, Kill, Resolve, Snapshot, Solve, WriteArtifact, WriteTrace, RecordSuccess,
           RecordFailure, Finalize, Goto, TypeOK, Active, Loop
      <4>2. records'[r] = Pending /\ pc'[r] \in {"exit2", "solving"}
        BY <4>1 DEF Open, Fresh, Unopened, Goto, TypeOK, memory
      <4>3. QED
        BY <4>2 DEF Pending
    <3>4. CASE pc[r] \in Active
      <4>1. \A a \in Artifacts : records'[r][a] = "ok" =>
              document'[directory[r]][a].by = r /\ trace'[directory[r]][a] = r
        BY <3>4, FilesAfter
      <4>2. CASE pc'[r] \notin {"written", "traced"}
        BY <3>2, <4>1, <4>2
      <4>3. CASE pc'[r] \in {"written", "traced"}
        <5>1. WriteArtifact(r) \/ WriteTrace(r)
          BY <4>3 DEF Step, Kill, Resolve, Snapshot, Open, Solve, RecordSuccess, RecordFailure,
             Finalize, Advance, Goto, TypeOK
        <5>2. /\ Current(r)' = Current(r) /\ Current(r) \in Artifacts /\ directory[r] \in Directories
          BY <5>1, CurrentType
          DEF WriteArtifact, WriteTrace, Current, Order, choices, Loop, TypeOK
        <5>3. CASE WriteArtifact(r)
          <6>1. PICK w \in Writes :
                  /\ document' = [document EXCEPT ![directory[r]][Current(r)] =
                       After(w, @, [by |-> r, whole |-> TRUE], [by |-> r, whole |-> FALSE])]
                  /\ Goto(r, IF Raises(w) THEN "failed" ELSE "written")
            BY <5>3 DEF WriteArtifact
          <6>2. ~Raises(w) /\ pc'[r] = "written"
            BY <4>3, <6>1 DEF Goto, TypeOK
          <6>3. document'[directory[r]][Current(r)].by = r
            BY <5>2, <6>1, <6>2 DEF After, Raises, Writes, TypeOK
          <6>4. QED
            BY <3>2, <4>1, <5>2, <6>2, <6>3
        <5>4. CASE WriteTrace(r)
          <6>1. PICK w \in Writes :
                  /\ trace' = [trace EXCEPT ![directory[r]][Current(r)] = After(w, @, r, r)]
                  /\ Goto(r, IF Raises(w) THEN "failed" ELSE "traced")
            BY <5>4 DEF WriteTrace
          <6>2. ~Raises(w) /\ pc[r] = "written" /\ document' = document
            BY <4>3, <5>4, <6>1 DEF Goto, TypeOK, WriteTrace
          <6>3. trace'[directory[r]][Current(r)] = r
            BY <5>2, <6>1, <6>2 DEF After, Raises, Writes, TypeOK
          <6>4. document[directory[r]][Current(r)].by = r
            BY <3>4, <6>2 DEF Files
          <6>5. QED
            BY <3>2, <4>1, <5>2, <6>2, <6>3, <6>4
        <5>5. QED
          BY <5>1, <5>3, <5>4
      <4>4. QED
        BY <4>2, <4>3
    <3>5. QED
      BY <3>2, <3>3, <3>4
  <2>3. QED
    BY <2>1, <2>2 DEF Files
<1>3. QED
  BY <1>1, <1>2 DEF Next, Done

LEMMA KeptStep ==
  ASSUME TypeOK, Fresh, Owned, Files, Kept, [Next]_vars
  PROVE  Kept'
<1>1. CASE UNCHANGED vars
  BY <1>1 DEF vars, Kept
<1>2. ASSUME NEW r \in Runs, Step(r) \/ Kill(r) PROVE Kept'
  <2> USE <1>2
  <2>1. ASSUME NEW d \in Directories, NEW a \in Artifacts
        PROVE  /\ manifest'[d].entries[a] = "ok" =>
                    /\ manifest'[d].by # Nobody
                    /\ document'[d][a].by = manifest'[d].by /\ trace'[d][a] = manifest'[d].by
               /\ manifest'[d].status = "absent" => document'[d][a].by = Nobody
    <3>1. CASE d # directory[r]
      <4>1. /\ manifest'[d] = manifest[d] /\ document'[d][a] = document[d][a]
            /\ trace'[d][a] = trace[d][a]
        BY <3>1, ManifestStep, DocumentStep
      <4>2. QED
        BY <4>1 DEF Kept
    <3>2. CASE d = directory[r]
      <4>1. r # Nobody /\ records[r] \in Entries
        BY RunSetAssumption DEF TypeOK
      <4>2. CASE manifest'[d] = manifest[d]
        <5>1. pc[r] \in Active => manifest[d].by = r /\ manifest[d].status # "absent"
          BY <3>2 DEF Owned
        <5>2. QED
          BY <3>2, <4>2, <5>1, DocumentStep DEF Kept
      <4>3. CASE manifest'[d] = Torn(r)
        BY <4>3 DEF Torn, Pending
      <4>4. CASE /\ manifest'[d].by = r /\ manifest'[d].entries = records'[r]
                 /\ manifest'[d].status # "absent"
        <5>1. CASE pc[r] \in Active
          BY <3>2, <4>1, <4>4, <5>1, FilesAfter
        <5>2. CASE pc[r] \notin Active
          <6>1. pc[r] = "snapshotted" \/ manifest' = manifest
            BY <5>2, OutsideLeaves
          <6>2. CASE pc[r] = "snapshotted"
            <7>1. records'[r] = Pending
              BY <6>2 DEF Step, Kill, Resolve, Snapshot, Open, Solve, WriteArtifact, WriteTrace,
                 RecordSuccess, RecordFailure, Finalize, memory, Fresh, Unopened
            <7>2. QED
              BY <4>4, <7>1 DEF Pending
          <6>3. QED
            BY <4>2, <6>1, <6>2
        <5>3. QED
          BY <5>1, <5>2
      <4>5. Status(Finalized(records[r])) # "absent"
        BY <4>1, StatusType
      <4>6. QED
        BY <3>2, <4>2, <4>3, <4>4, <4>5, ManifestStep
    <3>3. QED
      BY <3>1, <3>2
  <2>2. QED
    BY <2>1 DEF Kept
<1>3. QED
  BY <1>1, <1>2 DEF Next, Done

-----------------------------------------------------------------------------
(* Development directories.                                                *)

\* A directory that does not exist holds no manifest, and an invocation that has
\* chosen a development directory finds none there.
Unused ==
  /\ \A d \in Directories \ exists : manifest[d].by = Nobody
  /\ \A r \in Runs : pc[r] \in Active \cup {"snapshotted"} => directory[r] \in exists
  /\ \A r \in Runs : pc[r] \in {"resolved", "snapshotted"} /\ directory[r] # Authoritative
       => manifest[directory[r]].by = Nobody

LEMMA UnusedStep ==
  ASSUME ~Overlap, TypeOK, Sequential, Unused, [Next]_vars
  PROVE  Unused'
<1>1. CASE UNCHANGED vars
  BY <1>1 DEF vars, Unused
<1>2. ASSUME NEW r \in Runs, Step(r) \/ Kill(r) PROVE Unused'
  <2> USE <1>2
  <2>1. ASSUME NEW q \in Runs \ {r}
        PROVE  pc'[q] \notin Active \cup {"resolved", "snapshotted"}
    BY Alone DEF Active, Loop, Ended
  <2>2. exists \subseteq exists'
    BY DEF Step, Kill, Resolve, Snapshot, Open, Solve, WriteArtifact, WriteTrace, RecordSuccess,
       RecordFailure, Finalize
  <2>3. CASE Resolve(r)
    <3>1. /\ pc'[r] \in {"exit2", "resolved"} /\ manifest' = manifest /\ exists' = exists
          /\ pc'[r] = "resolved" =>
               /\ directory'[r] = Candidate(r)
               /\ ~(kind[r] = "slot" /\ Slot \in exists)
               /\ kind[r] = "next" => NumbersLeft
      BY <2>3 DEF Resolve, Goto, TypeOK
    <3>2. kind[r] \in {"reproduction", "slot", "next"}
      BY RunSetAssumption DEF TypeOK
    <3>3. pc'[r] = "resolved" =>
            directory'[r] = Authoritative \/ directory'[r] \in Directories \ exists
      BY <3>1, <3>2, CandidateType
    <3>4. QED
      BY <2>1, <3>1, <3>3 DEF Unused, Active, Loop
  <2>4. CASE Snapshot(r)
    <3>1. /\ pc'[r] \in {"exit2", "snapshotted"} /\ manifest' = manifest /\ directory' = directory
          /\ exists' = exists \cup {directory[r]} /\ pc[r] = "resolved"
      BY <2>4 DEF Snapshot, TypeOK
    <3>2. QED
      BY <2>1, <3>1 DEF Unused, Active, Loop
  <2>5. CASE ~(Resolve(r) \/ Snapshot(r))
    <3>1. pc[r] # "called" /\ exists' = exists
      BY <2>5 DEF Step, Kill, Open, Solve, WriteArtifact, WriteTrace, RecordSuccess,
         RecordFailure, Finalize
    <3>2. directory' = directory /\ (pc'[r] \in Active => pc[r] \in Active \cup {"snapshotted"})
      BY <3>1, DirectoryStays
    <3>3. pc'[r] \notin {"resolved", "snapshotted"}
      BY <2>5 DEF Step, Kill, Open, Solve, WriteArtifact, WriteTrace, RecordSuccess,
         RecordFailure, Finalize, Advance, Goto, TypeOK
    <3>4. manifest' # manifest => directory[r] \in exists
      BY OutsideLeaves DEF Unused
    <3>5. \A d \in Directories \ exists : manifest'[d] = manifest[d]
      BY <3>4, ManifestStep
    <3>6. QED
      BY <2>1, <3>1, <3>2, <3>3, <3>5 DEF Unused
  <2>6. QED
    BY <2>3, <2>4, <2>5
<1>3. QED
  BY <1>1, <1>2 DEF Next, Done

\* The invariant of invocations that do not overlap.
InTurn == Sequential /\ Owned /\ Files /\ Kept /\ Unused

LEMMA InTurnCorrect == ASSUME ~Overlap PROVE Spec => []InTurn
<1>1. Init => InTurn
  BY DEF Init, InTurn, Sequential, Owned, Files, Kept, Unused, NoFile, Pending, Active, Loop
<1>2. LoopKnows /\ InTurn /\ [Next]_vars => InTurn'
  BY SequentialStep, OwnedStep, FilesStep, KeptStep, UnusedStep DEF LoopKnows, InTurn
<1>3. QED
  BY <1>1, <1>2, LoopCorrect, PTL DEF Spec

\* What the report shows is the work of the run whose manifest it reads, after any
\* number of invocations, of any kinds, in the same directory.
THEOREM ReportCorrect == ASSUME ~Overlap PROVE Spec => []ReportIsOwn
<1>1. InTurn => ReportIsOwn
  BY DEF InTurn, Kept, ReportIsOwn, Reported, Missing, Found, Readable
<1>2. QED
  BY <1>1, InTurnCorrect, PTL

\* No invocation writes a manifest where another one wrote one, but in the
\* authoritative directory.
THEOREM DevelopmentCorrect == ASSUME ~Overlap PROVE Spec => DevelopmentKept
<1> DEFINE Keeps == \A d \in Directories \ {Authoritative} :
              manifest[d].by # Nobody => manifest'[d].by = manifest[d].by
<1>1. LoopKnows /\ InTurn /\ [Next]_vars => [Keeps]_vars
  <2> SUFFICES ASSUME LoopKnows, InTurn, NEW r \in Runs, Step(r) \/ Kill(r),
                      NEW d \in Directories \ {Authoritative}, manifest[d].by # Nobody
               PROVE  manifest'[d].by = manifest[d].by
    BY DEF Next, Done
  <2> USE DEF LoopKnows
  <2>1. CASE manifest'[d] = manifest[d]
    BY <2>1
  <2>2. CASE manifest'[d] # manifest[d]
    <3>1. d = directory[r] /\ Torn(r).by = r
      BY <2>2, ManifestStep DEF Torn
    <3>2. manifest'[d].by = r
      BY <2>2, <3>1, ManifestStep
    <3>3. pc[r] \in Active
      BY <2>2, <3>1, OutsideLeaves DEF InTurn, Unused
    <3>4. QED
      BY <3>1, <3>2, <3>3 DEF InTurn, Owned
  <2>3. QED
    BY <2>1, <2>2
<1>2. QED
  BY <1>1, LoopCorrect, InTurnCorrect, PTL DEF Spec, DevelopmentKept

=============================================================================
