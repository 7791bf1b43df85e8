---------------------------- MODULE RunPlanProofs ----------------------------
(***************************************************************************)
(* That one content of the parameter file governs a run, and that its plan *)
(* is what the file and the command line say.  The invariant Settled ties  *)
(* what is decided at one stage to what the later ones use: the file was   *)
(* let through by the reader, the plan is that of the file and passed the  *)
(* planner, the manifest records both, and every bound combination was     *)
(* bound from them.  What remains is about operators: FoldLeft over axes   *)
(* and filters is unrolled into the function of its intermediate results,  *)
(* along which Grid and Applied are shown by induction over intervals.     *)
(***************************************************************************)
EXTENDS RunPlan, TLAPS

\* Induction over intervals and sets, and recursion over a finite interval.
Data == INSTANCE RationalVectorsProofs

-----------------------------------------------------------------------------
(* Sequences of sequences.                                                 *)

\* The prefixes of the flattened sequence.
Unrolled(g, ss, T) ==
  /\ g \in [0 .. Len(ss) -> Seq(T)] /\ g[0] = <<>>
  /\ \A i \in 1 .. Len(ss) : g[i] = g[i - 1] \o ss[i]

\* The recursion of FlattenSeq has a solution, whose last prefix is the result.
LEMMA FlattenPrefixes ==
  ASSUME NEW T, NEW ss \in Seq(Seq(T))
  PROVE  \E g : Unrolled(g, ss, T) /\ FlattenSeq(ss) = g[Len(ss)]
<1> DEFINE n == Len(ss)
           V == Seq(T)
           step == [x \in (1 .. n) \X V |-> x[2] \o ss[x[1]]]
           Equation(h) == h = [i \in 1 .. n |-> IF i = 1 THEN ss[i] ELSE h[i - 1] \o ss[i]]
           flatten == CHOOSE h : Equation(h)
<1>1. n = Len(ss) /\ n \in Nat /\ ss \in [1 .. n -> V]
  OBVIOUS
<1>2. <<>> \in V /\ \A u, v \in V : u \o v \in V /\ <<>> \o v = v
  OBVIOUS
<1>3. n = 0 => ss = <<>>
  OBVIOUS
<1> HIDE DEF n, V
<1>4. CASE n = 0
  <2>1. ss = <<>> /\ FlattenSeq(ss) = ss
    BY <1>1, <1>4, <1>3 DEF FlattenSeq
  <2>2. Unrolled([i \in 0 .. 0 |-> <<>>], ss, T)
    BY <1>2, <2>1 DEF Unrolled, V
  <2>3. QED
    BY <2>1, <2>2
<1>5. CASE n # 0
  <2>1. FlattenSeq(ss) = flatten[n]
    BY <1>1, <1>5 DEF FlattenSeq, n
  <2>2. \E h : Equation(h)
    <3>1. \A i \in 1 .. n, v \in V : step[<<i, v>>] = v \o ss[i] /\ v \o ss[i] \in V
      BY <1>1, <1>2
    <3> HIDE DEF step
    <3>2. Data!IsStep(step, V, n)
      BY <3>1 DEF Data!IsStep
    <3>3. PICK h : Data!Iterates(h, V, n, <<>>, step)
      BY <1>1, <1>2, <3>2, Data!FiniteRecursion
    <3>4. h \in [0 .. n -> V] /\ h[0] = <<>> /\ \A i \in 1 .. n : h[i] = h[i - 1] \o ss[i]
      <4>1. h \in [0 .. n -> V] /\ h[0] = <<>> /\ \A i \in 1 .. n : h[i] = step[<<i, h[i - 1]>>]
        BY <3>3 DEF Data!Iterates
      <4>2. ASSUME NEW i \in 1 .. n PROVE h[i - 1] \in V
        <5>1. i - 1 \in 0 .. n
          BY <1>1
        <5>2. QED
          BY <4>1, <5>1
      <4>3. QED
        BY <3>1, <4>1, <4>2
    <3> DEFINE k == [i \in 1 .. n |-> h[i]]
    <3>5. ASSUME NEW i \in 1 .. n
          PROVE  k[i] = IF i = 1 THEN ss[i] ELSE k[i - 1] \o ss[i]
      <4>1. CASE i = 1
        <5>1. ss[1] \in V /\ 1 \in 1 .. n /\ 1 - 1 = 0
          BY <1>1, <4>1
        <5>2. h[1] = h[0] \o ss[1]
          BY <3>4, <5>1
        <5>3. QED
          BY <1>2, <3>4, <4>1, <5>1, <5>2
      <4>2. CASE i # 1
        <5>1. i - 1 \in 1 .. n
          BY <1>1, <4>2
        <5>2. QED
          BY <3>4, <4>2, <5>1
      <4>3. QED
        BY <4>1, <4>2
    <3>6. Equation(k)
      BY <3>5
    <3>7. QED
      BY <3>6
  <2>3. Equation(flatten)
    <3> HIDE DEF Equation
    <3>1. QED
      BY <2>2
  <2> HIDE DEF flatten
  <2> DEFINE g == [i \in 0 .. n |-> IF i = 0 THEN <<>> ELSE flatten[i]]
  <2>4. \A i \in 1 .. n : flatten[i] = IF i = 1 THEN ss[i] ELSE flatten[i - 1] \o ss[i]
    BY <2>3, Zenon
  <2>5. ASSUME NEW i \in 1 .. n PROVE g[i] = g[i - 1] \o ss[i]
    <3>1. CASE i = 1
      <4>1. ss[1] \in V /\ g[0] = <<>> /\ g[1] = flatten[1] /\ flatten[1] = ss[1]
        BY <1>1, <2>4, <3>1
      <4>2. <<>> \o ss[1] = ss[1] /\ 1 - 1 = 0
        BY <1>2, <4>1
      <4>3. QED
        BY <3>1, <4>1, <4>2
    <3>2. CASE i # 1
      <4>1. i - 1 \in 1 .. n /\ i - 1 # 0 /\ i # 0 /\ i - 1 \in 0 .. n /\ i \in 0 .. n
        BY <1>1, <3>2
      <4>2. QED
        BY <2>4, <3>2, <4>1
    <3>3. QED
      BY <3>1, <3>2
  <2> DEFINE I == {i \in 0 .. n : g[i] \in V}
  <2>6. 0 .. n \subseteq I
    <3>1. 0 \in I
      BY <1>1, <1>2
    <3>2. \A i \in 1 .. n : i - 1 \in I => i \in I
      <4> SUFFICES ASSUME NEW i \in 1 .. n, i - 1 \in I PROVE i \in I
        OBVIOUS
      <4>1. g[i - 1] \in V /\ ss[i] \in V
        BY <1>1, <1>2
      <4> HIDE DEF g
      <4>2. g[i] \in V
        BY <1>2, <2>5, <4>1
      <4>3. QED
        BY <4>2
    <3> HIDE DEF I
    <3>3. QED
      BY <1>1, <3>1, <3>2, Data!IntervalInduction
  <2>7. g \in [0 .. n -> V] /\ g[0] = <<>> /\ g[n] = flatten[n]
    BY <1>1, <1>5, <2>6
  <2>8. QED
    BY <1>1, <2>1, <2>5, <2>7 DEF Unrolled, V
<1>6. QED
  BY <1>4, <1>5

\* F holds what is in the blocks of ss, block after block.
Flattens(F, ss) ==
  /\ \A i \in DOMAIN F : \E a \in DOMAIN ss : \E p \in DOMAIN ss[a] : F[i] = ss[a][p]
  /\ \A a \in DOMAIN ss : \A p \in DOMAIN ss[a] : \E i \in DOMAIN F : F[i] = ss[a][p]
  /\ \A i, j \in DOMAIN F : i < j =>
       \E a, b \in DOMAIN ss : \E p \in DOMAIN ss[a], q \in DOMAIN ss[b] :
         F[i] = ss[a][p] /\ F[j] = ss[b][q] /\ (a < b \/ (a = b /\ p < q))

\* One more block.
LEMMA FlattensMore ==
  ASSUME NEW T, NEW n \in Nat, NEW ss \in [1 .. n + 1 -> Seq(T)], NEW F \in Seq(T),
         Flattens(F, [i \in 1 .. n |-> ss[i]])
  PROVE  Flattens(F \o ss[n + 1], ss)
<1> DEFINE before == [i \in 1 .. n |-> ss[i]]
           last == ss[n + 1]
           G == F \o last
           m == Len(F)
<1>1. last \in Seq(T) /\ DOMAIN ss = 1 .. n + 1 /\ n + 1 \in 1 .. n + 1
  OBVIOUS
<1>2. /\ DOMAIN F = 1 .. m /\ DOMAIN last = 1 .. Len(last) /\ DOMAIN G = 1 .. m + Len(last)
      /\ m \in Nat /\ Len(last) \in Nat
  BY <1>1
<1>3. \A i \in 1 .. m : G[i] = F[i]
  BY <1>1
<1>4. \A p \in 1 .. Len(last) : G[m + p] = last[p] /\ m + p \in DOMAIN G
  BY <1>1
<1>5. ASSUME NEW i \in DOMAIN G, i \notin 1 .. m
      PROVE  i - m \in 1 .. Len(last) /\ G[i] = last[i - m]
  <2>1. i - m \in 1 .. Len(last) /\ m + (i - m) = i
    BY <1>2, <1>5
  <2>2. QED
    BY <1>4, <2>1
<1>6. DOMAIN before = 1 .. n /\ \A a \in 1 .. n : before[a] = ss[a] /\ a \in DOMAIN ss
  OBVIOUS
<1>7. Flattens(F, before)
  OBVIOUS
<1> HIDE DEF before, last, G, m
<1>8. ASSUME NEW i \in DOMAIN G
      PROVE  \E a \in DOMAIN ss : \E p \in DOMAIN ss[a] : G[i] = ss[a][p]
  <2>1. CASE i \in 1 .. m
    <3>1. PICK a \in DOMAIN before : \E p \in DOMAIN before[a] : F[i] = before[a][p]
      BY <1>2, <1>7, <2>1 DEF Flattens
    <3>2. QED
      BY <1>3, <1>6, <2>1, <3>1
  <2>2. CASE i \notin 1 .. m
    BY <1>1, <1>2, <1>5, <2>2 DEF last
  <2>3. QED
    BY <2>1, <2>2
<1>9. ASSUME NEW a \in DOMAIN ss, NEW p \in DOMAIN ss[a]
      PROVE  \E i \in DOMAIN G : G[i] = ss[a][p]
  <2>1. CASE a = n + 1
    BY <1>2, <1>4, <2>1 DEF last
  <2>2. CASE a # n + 1
    <3>1. a \in 1 .. n
      BY <1>1, <2>2
    <3>2. PICK i \in DOMAIN F : F[i] = before[a][p]
      BY <1>6, <1>7, <3>1 DEF Flattens
    <3>3. i \in DOMAIN G
      BY <1>2
    <3>4. QED
      BY <1>2, <1>3, <1>6, <3>1, <3>2, <3>3
  <2>3. QED
    BY <2>1, <2>2
<1>10. ASSUME NEW i \in DOMAIN G, NEW j \in DOMAIN G, i < j
      PROVE  \E a, b \in DOMAIN ss : \E p \in DOMAIN ss[a], q \in DOMAIN ss[b] :
               G[i] = ss[a][p] /\ G[j] = ss[b][q] /\ (a < b \/ (a = b /\ p < q))
  <2>1. CASE j \in 1 .. m
    <3>1. i \in 1 .. m
      BY <1>2, <1>10, <2>1
    <3>2. i \in DOMAIN F /\ j \in DOMAIN F
      BY <1>2, <2>1, <3>1
    <3>3. PICK a \in DOMAIN before, b \in DOMAIN before :
            \E p \in DOMAIN before[a], q \in DOMAIN before[b] :
              F[i] = before[a][p] /\ F[j] = before[b][q] /\ (a < b \/ (a = b /\ p < q))
      BY <1>10, <1>7, <3>2 DEF Flattens
    <3>4. QED
      BY <1>3, <1>6, <2>1, <3>1, <3>3
  <2>2. CASE j \notin 1 .. m /\ i \in 1 .. m
    <3>1. PICK a \in DOMAIN before : \E p \in DOMAIN before[a] : F[i] = before[a][p]
      BY <1>2, <1>7, <2>2 DEF Flattens
    <3>2. a < n + 1 /\ a \in DOMAIN ss /\ before[a] = ss[a]
      BY <1>6, <3>1
    <3>3. G[j] = ss[n + 1][j - m] /\ j - m \in DOMAIN ss[n + 1]
      BY <1>2, <1>5, <2>2 DEF last
    <3>4. QED
      BY <1>1, <1>3, <2>2, <3>1, <3>2, <3>3
  <2>3. CASE i \notin 1 .. m /\ j \notin 1 .. m
    <3>1. /\ G[i] = ss[n + 1][i - m] /\ i - m \in DOMAIN ss[n + 1]
          /\ G[j] = ss[n + 1][j - m] /\ j - m \in DOMAIN ss[n + 1]
      BY <1>2, <1>5, <2>3 DEF last
    <3>2. i - m < j - m
      BY <1>2, <1>10
    <3>3. QED
      BY <1>1, <3>1, <3>2
  <2>4. CASE i \notin 1 .. m /\ j \in 1 .. m
    BY <1>2, <1>10, <2>4
  <2>5. QED
    BY <2>1, <2>2, <2>3, <2>4
<1>11. Flattens(G, ss)
  BY <1>8, <1>9, <1>10 DEF Flattens
<1>12. QED
  BY <1>11 DEF G, last

\* FlattenSeq lists the members of the blocks, block after block.
LEMMA FlattenIs ==
  ASSUME NEW T, NEW ss \in Seq(Seq(T))
  PROVE  FlattenSeq(ss) \in Seq(T) /\ Flattens(FlattenSeq(ss), ss)
<1> DEFINE n == Len(ss)
           upto(k) == [i \in 1 .. k |-> ss[i]]
<1>1. PICK g : Unrolled(g, ss, T) /\ FlattenSeq(ss) = g[n]
  BY FlattenPrefixes
<1>2. /\ n \in Nat /\ ss \in [1 .. n -> Seq(T)] /\ g \in [0 .. n -> Seq(T)] /\ g[0] = <<>>
      /\ \A i \in 1 .. n : g[i] = g[i - 1] \o ss[i]
  <2>1. n \in Nat /\ ss \in [1 .. n -> Seq(T)]
    OBVIOUS
  <2>2. QED
    BY <1>1, <2>1 DEF Unrolled
<1> DEFINE I == {k \in 0 .. n : Flattens(g[k], upto(k))}
<1>3. 0 \in I
  <2>1. g[0] = <<>> /\ DOMAIN upto(0) = {} /\ 0 \in 0 .. n
    BY <1>2
  <2>2. Flattens(<<>>, upto(0))
    BY <2>1 DEF Flattens
  <2>3. QED
    BY <2>1, <2>2
<1>4. ASSUME NEW i \in 1 .. n, i - 1 \in I PROVE i \in I
  <2> DEFINE k == i - 1
             new == [l \in 1 .. k + 1 |-> ss[l]]
  <2>1. k \in Nat /\ k + 1 = i /\ k \in 0 .. n /\ i \in 0 .. n
    BY <1>2
  <2>2. g[k] \in Seq(T) /\ g[i] = g[k] \o ss[i]
    BY <1>2, <2>1
  <2>3. new \in [1 .. k + 1 -> Seq(T)] /\ new[k + 1] = ss[i] /\ new = upto(i)
    BY <1>2, <2>1
  <2>4. [l \in 1 .. k |-> new[l]] = upto(k)
    BY <1>2, <2>1
  <2>5. Flattens(g[k], [l \in 1 .. k |-> new[l]])
    BY <1>4, <2>4
  <2> HIDE DEF k, new, upto
  <2>6. Flattens(g[k] \o new[k + 1], new)
    BY <2>1, <2>2, <2>3, <2>5, FlattensMore
  <2>7. QED
    BY <2>1, <2>2, <2>3, <2>6
<1>5. n \in I
  <2> HIDE DEF I
  <2>1. 0 .. n \subseteq I
    BY <1>2, <1>3, <1>4, Data!IntervalInduction
  <2>2. QED
    BY <1>2, <2>1
<1>6. upto(n) = ss
  BY <1>2
<1>7. QED
  BY <1>1, <1>2, <1>5, <1>6

-----------------------------------------------------------------------------
(* What Only keeps.                                                        *)

\* kept holds the members of a set, in the order of s.
Keeps(kept, s, members) ==
  /\ Range(kept) = Range(s) \cap members
  /\ \A i, j \in DOMAIN kept : i < j =>
       \E k, l \in DOMAIN s : k < l /\ kept[i] = s[k] /\ kept[j] = s[l]

\* Only keeps the members of a set, in the order of the sequence.
LEMMA OnlyIs ==
  ASSUME NEW T, NEW s \in Seq(T), NEW members
  PROVE  Only(s, members) \in Seq(T) /\ Keeps(Only(s, members), s, members)
<1> DEFINE ss == [i \in DOMAIN s |-> IF s[i] \in members THEN <<s[i]>> ELSE <<>>]
           F == FlattenSeq(ss)
<1>1. ss \in Seq(Seq(T))
  <2>1. s \in [1 .. Len(s) -> T] /\ Len(s) \in Nat
    OBVIOUS
  <2>2. \A i \in 1 .. Len(s) : <<s[i]>> \in Seq(T) /\ <<>> \in Seq(T)
    BY <2>1
  <2>3. ss \in [1 .. Len(s) -> Seq(T)]
    BY <2>1, <2>2
  <2>4. QED
    BY <2>1, <2>3
<1>2. \A a \in DOMAIN ss : \A p \in DOMAIN ss[a] :
        a \in DOMAIN s /\ p = 1 /\ ss[a][p] = s[a] /\ s[a] \in members
  OBVIOUS
<1>3. \A a \in DOMAIN s : s[a] \in members =>
        a \in DOMAIN ss /\ 1 \in DOMAIN ss[a] /\ ss[a][1] = s[a]
  OBVIOUS
<1>4. Only(s, members) = F
  BY DEF Only
<1> HIDE DEF ss, F
<1>5. F \in Seq(T) /\ Flattens(F, ss)
  BY <1>1, FlattenIs DEF F
<1>6. Range(F) = Range(s) \cap members
  <2>1. \A i \in DOMAIN F : \E a \in DOMAIN s : F[i] = s[a] /\ s[a] \in members
    BY <1>2, <1>5 DEF Flattens
  <2>2. \A a \in DOMAIN s : s[a] \in members => \E i \in DOMAIN F : F[i] = s[a]
    BY <1>3, <1>5 DEF Flattens
  <2>3. QED
    BY <2>1, <2>2 DEF Range
<1>7. ASSUME NEW i \in DOMAIN F, NEW j \in DOMAIN F, i < j
      PROVE  \E k, l \in DOMAIN s : k < l /\ F[i] = s[k] /\ F[j] = s[l]
  <2>1. PICK a \in DOMAIN ss, b \in DOMAIN ss : \E p \in DOMAIN ss[a], q \in DOMAIN ss[b] :
          F[i] = ss[a][p] /\ F[j] = ss[b][q] /\ (a < b \/ (a = b /\ p < q))
    BY <1>5, <1>7 DEF Flattens
  <2>2. PICK p \in DOMAIN ss[a], q \in DOMAIN ss[b] :
          F[i] = ss[a][p] /\ F[j] = ss[b][q] /\ (a < b \/ (a = b /\ p < q))
    BY <2>1
  <2>3. p = 1 /\ q = 1 /\ a \in DOMAIN s /\ b \in DOMAIN s /\ F[i] = s[a] /\ F[j] = s[b]
    BY <1>2, <2>2
  <2>4. QED
    BY <2>2, <2>3
<1>8. QED
  BY <1>4, <1>5, <1>6, <1>7 DEF Keeps

\* Nothing is kept twice that was not there twice.
LEMMA KeepsInjective ==
  ASSUME NEW T, NEW s \in Seq(T), IsInjective(s), NEW kept \in Seq(T), NEW members,
         Keeps(kept, s, members)
  PROVE  IsInjective(kept)
<1>1. ASSUME NEW i \in DOMAIN kept, NEW j \in DOMAIN kept, i < j PROVE kept[i] # kept[j]
  <2>1. PICK k \in DOMAIN s, l \in DOMAIN s : k < l /\ kept[i] = s[k] /\ kept[j] = s[l]
    BY <1>1 DEF Keeps
  <2>2. k \in Nat /\ l \in Nat
    OBVIOUS
  <2>3. QED
    BY <2>1, <2>2 DEF IsInjective
<1>2. \A i, j \in DOMAIN kept : i \in Nat /\ j \in Nat
  OBVIOUS
<1>3. \A i, j \in DOMAIN kept : i = j \/ i < j \/ j < i
  BY <1>2
<1>4. QED
  BY <1>1, <1>3 DEF IsInjective

-----------------------------------------------------------------------------
(* The fold over the axes.                                                 *)

\* The equation of the recursion under FoldLeft, with a step that Product uses.
ProductEquation(it, n, axes, allowed) ==
  it = [s \in SUBSET (1 .. n) |->
          IF s = {} THEN <<<<>>>>
          ELSE Expand(it[s \ {Max(s)}], axes[Max(s)], allowed[axes[Max(s)]])]

\* The largest number of a set of the first ones that has the last one.
LEMMA MaxIs ==
  ASSUME NEW n \in Nat, NEW s \in SUBSET (1 .. n), n \in s
  PROVE  Max(s) = n
<1>1. \A x \in s : x \in Nat /\ x <= n
  OBVIOUS
<1>2. \A x \in s : (\A y \in s : x >= y) => x = n
  BY <1>1
<1>3. \A y \in s : n >= y
  BY <1>1
<1>4. QED
  BY <1>2, <1>3 DEF Max

\* The recursion has a solution.
LEMMA ProductSolution ==
  ASSUME NEW n \in Nat, NEW axes, NEW allowed
  PROVE  \E it : ProductEquation(it, n, axes, allowed)
<1> DEFINE I == {k \in 0 .. n : \E it : ProductEquation(it, k, axes, allowed)}
<1>1. 0 \in I
  <2>1. SUBSET (1 .. 0) = {{}}
    OBVIOUS
  <2> DEFINE it == [s \in SUBSET (1 .. 0) |-> <<<<>>>>]
  <2>2. it = [s \in SUBSET (1 .. 0) |->
          IF s = {} THEN <<<<>>>>
          ELSE Expand(it[s \ {Max(s)}], axes[Max(s)], allowed[axes[Max(s)]])]
    BY <2>1
  <2>3. ProductEquation(it, 0, axes, allowed)
    BY <2>2 DEF ProductEquation
  <2>4. QED
    BY <2>3
<1>2. ASSUME NEW i \in 1 .. n, i - 1 \in I PROVE i \in I
  <2> DEFINE Step(t, k) == Expand(t, axes[k], allowed[axes[k]])
  <2>1. PICK it : ProductEquation(it, i - 1, axes, allowed)
    BY <1>2
  <2>2. it = [s \in SUBSET (1 .. i - 1) |->
               IF s = {} THEN <<<<>>>> ELSE Step(it[s \ {Max(s)}], Max(s))]
    BY <2>1 DEF ProductEquation
  <2> DEFINE g == [s \in SUBSET (1 .. i) |->
                     IF i \in s THEN Step(it[s \ {i}], i) ELSE it[s]]
  <2> HIDE DEF Step
  <2>3. ASSUME NEW s \in SUBSET (1 .. i)
        PROVE  g[s] = IF s = {} THEN <<<<>>>> ELSE Step(g[s \ {Max(s)}], Max(s))
    <3>1. CASE i \in s
      <4>1. Max(s) = i
        BY <3>1, MaxIs
      <4>2. s \ {i} \in SUBSET (1 .. i) /\ i \notin s \ {i} /\ s # {}
        BY <3>1
      <4>3. g[s \ {i}] = it[s \ {i}]
        BY <4>2
      <4>4. g[s] = Step(it[s \ {i}], i)
        BY <3>1
      <4> HIDE DEF g
      <4>5. QED
        BY <4>1, <4>2, <4>3, <4>4
    <3>2. CASE i \notin s
      <4>1. s \in SUBSET (1 .. i - 1)
        BY <3>2
      <4>2. s \ {Max(s)} \in SUBSET (1 .. i) /\ i \notin s \ {Max(s)}
        BY <3>2
      <4>3. g[s] = it[s] /\ g[s \ {Max(s)}] = it[s \ {Max(s)}]
        BY <3>2, <4>2
      <4>4. it[s] = IF s = {} THEN <<<<>>>> ELSE Step(it[s \ {Max(s)}], Max(s))
        BY <2>2, <4>1
      <4> HIDE DEF g
      <4>5. QED
        BY <4>3, <4>4
    <3>3. QED
      BY <3>1, <3>2
  <2>4. g = [s \in SUBSET (1 .. i) |->
               IF s = {} THEN <<<<>>>> ELSE Step(g[s \ {Max(s)}], Max(s))]
    <3> HIDE DEF g
    <3>1. g = [s \in SUBSET (1 .. i) |-> g[s]]
      BY DEF g
    <3>2. QED
      BY <2>3, <3>1, Zenon
  <2> HIDE DEF g
  <2>5. ProductEquation(g, i, axes, allowed)
    BY <2>4 DEF ProductEquation, Step
  <2>6. QED
    BY <2>5
<1>3. n \in I
  <2> HIDE DEF I
  <2>1. 0 .. n \subseteq I
    BY <1>1, <1>2, Data!IntervalInduction
  <2>2. QED
    BY <2>1
<1>4. QED
  BY <1>3

\* The partial products, axis by axis.
PartialProducts(h, n, axes, allowed) ==
  /\ h[0] = <<<<>>>> /\ h[n] = Product(axes, allowed)
  /\ \A i \in 1 .. n : h[i] = Expand(h[i - 1], axes[i], allowed[axes[i]])

\* They exist.
LEMMA ProductUnrolled ==
  ASSUME NEW n \in Nat, NEW axes, DOMAIN axes = 1 .. n, NEW allowed
  PROVE  \E h : PartialProducts(h, n, axes, allowed)
<1> DEFINE Equation(it) == ProductEquation(it, n, axes, allowed)
           iter == CHOOSE it : Equation(it)
           h == [i \in 0 .. n |-> iter[1 .. i]]
<1>1. Product(axes, allowed) = iter[1 .. n]
  BY DEF Product, FoldLeft, MapThenFoldSet, ProductEquation
<1>2. Equation(iter)
  <2> HIDE DEF Equation
  <2>1. \E it : Equation(it)
    BY ProductSolution DEF Equation
  <2>2. QED
    BY <2>1
<1> HIDE DEF iter
<1>3. \A s \in SUBSET (1 .. n) :
        iter[s] = IF s = {} THEN <<<<>>>>
                  ELSE Expand(iter[s \ {Max(s)}], axes[Max(s)], allowed[axes[Max(s)]])
  BY <1>2 DEF ProductEquation
<1>4. h[0] = <<<<>>>> /\ h[n] = Product(axes, allowed)
  <2>1. 1 .. 0 = {}
    OBVIOUS
  <2>2. iter[1 .. 0] = <<<<>>>>
    BY <1>3, <2>1
  <2>3. QED
    BY <1>1, <2>2
<1>5. ASSUME NEW i \in 1 .. n PROVE h[i] = Expand(h[i - 1], axes[i], allowed[axes[i]])
  <2>1. 1 .. i \in SUBSET (1 .. n) /\ i \in 1 .. i /\ i \in Nat
    OBVIOUS
  <2>2. Max(1 .. i) = i
    BY <2>1, MaxIs
  <2>3. (1 .. i) \ {i} = 1 .. i - 1
    OBVIOUS
  <2>4. iter[1 .. i] = Expand(iter[1 .. i - 1], axes[i], allowed[axes[i]])
    BY <1>3, <2>1, <2>2, <2>3
  <2>5. QED
    BY <2>4
<1>6. PartialProducts(h, n, axes, allowed)
  BY <1>4, <1>5 DEF PartialProducts
<1>7. QED
  BY <1>6

-----------------------------------------------------------------------------
(* Combinations of axes and values.                                        *)

\* E lists every partial combination with every value of one more axis, in order.
Extends(E, partials, axis, values) ==
  /\ \A i \in DOMAIN E : \E a \in DOMAIN partials, p \in DOMAIN values :
       E[i] = With(partials[a], axis, values[p])
  /\ \A a \in DOMAIN partials, p \in DOMAIN values : \E i \in DOMAIN E :
       E[i] = With(partials[a], axis, values[p])
  /\ \A i, j \in DOMAIN E : i < j =>
       \E a, b \in DOMAIN partials, p, q \in DOMAIN values :
         /\ E[i] = With(partials[a], axis, values[p]) /\ E[j] = With(partials[b], axis, values[q])
         /\ a < b \/ (a = b /\ p < q)

\* Expand does.
LEMMA ExpandIs ==
  ASSUME NEW A, NEW axis, NEW W, NEW partials \in Seq([A -> W]), NEW values \in Seq(W)
  PROVE  /\ Expand(partials, axis, values) \in Seq([A \cup {axis} -> W])
         /\ Extends(Expand(partials, axis, values), partials, axis, values)
<1> DEFINE E == Expand(partials, axis, values)
           new(a, p) == With(partials[a], axis, values[p])
           T == [A \cup {axis} -> W]
           ss == [a \in DOMAIN partials |-> [p \in DOMAIN values |-> new(a, p)]]
<1>1. \A a \in DOMAIN partials, p \in DOMAIN values : new(a, p) \in T
  <2>1. \A a \in DOMAIN partials : partials[a] \in [A -> W]
    OBVIOUS
  <2>2. \A p \in DOMAIN values : values[p] \in W
    OBVIOUS
  <2>3. QED
    BY <2>1, <2>2 DEF With
<1>2. E = FlattenSeq(ss)
  BY DEF Expand
<1>3. /\ DOMAIN ss = DOMAIN partials
      /\ \A a \in DOMAIN partials : DOMAIN ss[a] = DOMAIN values
      /\ \A a \in DOMAIN partials : \A p \in DOMAIN values : ss[a][p] = new(a, p)
  OBVIOUS
<1>4. ss \in Seq(Seq(T))
  <2> DEFINE n == Len(partials)
             m == Len(values)
  <2>1. n \in Nat /\ m \in Nat /\ DOMAIN partials = 1 .. n /\ DOMAIN values = 1 .. m
    OBVIOUS
  <2> HIDE DEF n, m, T, new
  <2>2. ASSUME NEW a \in 1 .. n PROVE [p \in 1 .. m |-> new(a, p)] \in Seq(T)
    <3>1. [p \in 1 .. m |-> new(a, p)] \in [1 .. m -> T]
      BY <1>1, <2>1
    <3>2. QED
      BY <2>1, <3>1
  <2>3. ss = [a \in 1 .. n |-> [p \in 1 .. m |-> new(a, p)]]
    BY <2>1
  <2>4. QED
    BY <2>1, <2>2, <2>3
<1> HIDE DEF E, ss, T, new
<1>5. E \in Seq(T) /\ Flattens(E, ss)
  BY <1>2, <1>4, FlattenIs
<1>6. \A i \in DOMAIN E : \E a \in DOMAIN partials, p \in DOMAIN values : E[i] = new(a, p)
  BY <1>3, <1>5 DEF Flattens
<1>7. \A a \in DOMAIN partials, p \in DOMAIN values : \E i \in DOMAIN E : E[i] = new(a, p)
  BY <1>3, <1>5 DEF Flattens
<1>8. ASSUME NEW i \in DOMAIN E, NEW j \in DOMAIN E, i < j
      PROVE  \E a, b \in DOMAIN partials, p, q \in DOMAIN values :
               E[i] = new(a, p) /\ E[j] = new(b, q) /\ (a < b \/ (a = b /\ p < q))
  <2>1. PICK a \in DOMAIN ss, b \in DOMAIN ss : \E p \in DOMAIN ss[a], q \in DOMAIN ss[b] :
          E[i] = ss[a][p] /\ E[j] = ss[b][q] /\ (a < b \/ (a = b /\ p < q))
    BY <1>5, <1>8 DEF Flattens
  <2>2. QED
    BY <1>3, <2>1
<1>9. QED
  BY <1>5, <1>6, <1>7, <1>8 DEF E, T, new, Extends

\* The first n axes; where a combination's value stands among the values of an axis;
\* whether it comes before another one, by the first axis in which they differ.
Taken(axes, n) == {axes[l] : l \in 1 .. n}
Place(values, c, axis) == CHOOSE i \in DOMAIN values[axis] : values[axis][i] = c[axis]
Earlier(axes, values, n, c, d) ==
  \E k \in 1 .. n :
    /\ Place(values, c, axes[k]) < Place(values, d, axes[k])
    /\ \A l \in 1 .. k - 1 : Place(values, c, axes[l]) = Place(values, d, axes[l])
\* P lists the combinations of the first n axes, each once, in their order.
Grid(P, axes, values, n) ==
  /\ P \in Seq([Taken(axes, n) -> Value])
  /\ \A i \in DOMAIN P : \A l \in 1 .. n : P[i][axes[l]] \in Range(values[axes[l]])
  /\ \A c \in [Taken(axes, n) -> Value] :
       (\A l \in 1 .. n : c[axes[l]] \in Range(values[axes[l]])) => \E i \in DOMAIN P : P[i] = c
  /\ \A i, j \in DOMAIN P : i < j => Earlier(axes, values, n, P[i], P[j])

\* No axis: the empty combination.
LEMMA GridBegins == ASSUME NEW axes, NEW values PROVE Grid(<<<<>>>>, axes, values, 0)
<1>1. Taken(axes, 0) = {} /\ 1 .. 0 = {}
  BY DEF Taken
<1>2. \A c \in [{} -> Value] : c = <<>>
  OBVIOUS
<1>3. <<>> \in [{} -> Value]
  OBVIOUS
<1>4. <<<<>>>> \in Seq([{} -> Value]) /\ DOMAIN <<<<>>>> = {1} /\ <<<<>>>>[1] = <<>>
  BY <1>3
<1>5. QED
  BY <1>1, <1>2, <1>4 DEF Grid

\* The place of a value in a list without repetitions.
LEMMA PlaceIs ==
  ASSUME NEW values, NEW c, NEW axis, IsInjective(values[axis]),
         NEW p \in DOMAIN values[axis], c[axis] = values[axis][p]
  PROVE  Place(values, c, axis) = p
<1>1. \A i \in DOMAIN values[axis] : values[axis][i] = c[axis] => i = p
  BY DEF IsInjective
<1>2. QED
  BY <1>1 DEF Place

\* One more axis keeps the list complete and in order.
LEMMA GridGrows ==
  ASSUME NEW n \in Nat, NEW axes, IsInjective(axes), DOMAIN axes = 1 .. n, NEW k \in 1 .. n,
         NEW values, values[axes[k]] \in Seq(Value), IsInjective(values[axes[k]]),
         NEW P, Grid(P, axes, values, k - 1)
  PROVE  Grid(Expand(P, axes[k], values[axes[k]]), axes, values, k)
<1> DEFINE x == axes[k]
           vs == values[x]
           E == Expand(P, x, vs)
           A == Taken(axes, k - 1)
           new(a, p) == With(P[a], x, vs[p])
<1>1. /\ P \in Seq([A -> Value])
      /\ \A i \in DOMAIN P : \A l \in 1 .. k - 1 : P[i][axes[l]] \in Range(values[axes[l]])
      /\ \A c \in [A -> Value] :
           (\A l \in 1 .. k - 1 : c[axes[l]] \in Range(values[axes[l]]))
             => \E i \in DOMAIN P : P[i] = c
      /\ \A i, j \in DOMAIN P : i < j => Earlier(axes, values, k - 1, P[i], P[j])
  BY DEF Grid
<1>2. \A l \in 1 .. k - 1 : axes[l] \in A /\ axes[l] # x /\ l \in 1 .. k /\ l # k
  BY DEF Taken, IsInjective
<1>3. Taken(axes, k) = A \cup {x} /\ k \in 1 .. k /\ x \notin A
  <2>1. \A l \in 1 .. k : l = k \/ l \in 1 .. k - 1
    OBVIOUS
  <2>2. k \in 1 .. k /\ 1 .. k - 1 \subseteq 1 .. k
    OBVIOUS
  <2>3. Taken(axes, k) = A \cup {x}
    BY <2>1, <2>2 DEF Taken
  <2>4. x \notin A
    BY <1>2 DEF Taken
  <2>5. QED
    BY <2>2, <2>3, <2>4
<1>4. vs \in Seq(Value) /\ IsInjective(vs)
  OBVIOUS
<1> HIDE DEF x, vs, E, A, new
<1>5. /\ E \in Seq([A \cup {x} -> Value])
      /\ \A i \in DOMAIN E : \E a \in DOMAIN P, p \in DOMAIN vs : E[i] = new(a, p)
      /\ \A a \in DOMAIN P, p \in DOMAIN vs : \E i \in DOMAIN E : E[i] = new(a, p)
      /\ \A i, j \in DOMAIN E : i < j =>
           \E a, b \in DOMAIN P, p, q \in DOMAIN vs :
             E[i] = new(a, p) /\ E[j] = new(b, q) /\ (a < b \/ (a = b /\ p < q))
  <2>1. E \in Seq([A \cup {x} -> Value]) /\ Extends(E, P, x, vs)
    BY <1>1, <1>4, ExpandIs DEF E
  <2>2. QED
    BY <2>1 DEF Extends, new
<1>6. \A a \in DOMAIN P : P[a] \in [A -> Value]
  BY <1>1
<1>7. \A a \in DOMAIN P, p \in DOMAIN vs :
        /\ new(a, p)[x] = vs[p]
        /\ \A l \in 1 .. k - 1 : new(a, p)[axes[l]] = P[a][axes[l]]
  BY <1>2, <1>6 DEF new, With
<1>8. \A a \in DOMAIN P, p \in DOMAIN vs :
        /\ Place(values, new(a, p), x) = p
        /\ \A l \in 1 .. k - 1 : Place(values, new(a, p), axes[l]) = Place(values, P[a], axes[l])
  <2> SUFFICES ASSUME NEW a \in DOMAIN P, NEW p \in DOMAIN vs
               PROVE  /\ Place(values, new(a, p), x) = p
                      /\ \A l \in 1 .. k - 1 :
                           Place(values, new(a, p), axes[l]) = Place(values, P[a], axes[l])
    OBVIOUS
  <2> DEFINE c == new(a, p)
  <2>1. c[x] = values[x][p] /\ p \in DOMAIN values[x] /\ IsInjective(values[x])
    BY <1>4, <1>7 DEF vs
  <2>2. \A l \in 1 .. k - 1 : c[axes[l]] = P[a][axes[l]]
    BY <1>7
  <2> HIDE DEF c
  <2>3. Place(values, c, x) = p
    BY <2>1, PlaceIs
  <2>4. \A l \in 1 .. k - 1 : Place(values, c, axes[l]) = Place(values, P[a], axes[l])
    BY <2>2 DEF Place
  <2>5. QED
    BY <2>3, <2>4 DEF c
<1>9. ASSUME NEW i \in DOMAIN E, NEW l \in 1 .. k
      PROVE  E[i][axes[l]] \in Range(values[axes[l]])
  <2>1. PICK a \in DOMAIN P, p \in DOMAIN vs : E[i] = new(a, p)
    BY <1>5
  <2>2. CASE l = k
    BY <1>7, <2>1, <2>2 DEF Range, vs, x
  <2>3. CASE l # k
    <3>1. l \in 1 .. k - 1
      BY <2>3
    <3>2. QED
      BY <1>1, <1>7, <2>1, <3>1
  <2>4. QED
    BY <2>2, <2>3
<1>10. ASSUME NEW c \in [A \cup {x} -> Value],
              \A l \in 1 .. k : c[axes[l]] \in Range(values[axes[l]])
       PROVE  \E i \in DOMAIN E : E[i] = c
  <2> DEFINE d == [axis \in A |-> c[axis]]
  <2>1. d \in [A -> Value]
    OBVIOUS
  <2>2. \A l \in 1 .. k - 1 : d[axes[l]] \in Range(values[axes[l]])
    BY <1>2, <1>10
  <2>3. PICK a \in DOMAIN P : P[a] = d
    BY <1>1, <2>1, <2>2
  <2>4. PICK p \in DOMAIN vs : vs[p] = c[x]
    BY <1>3, <1>10 DEF Range, vs, x
  <2>5. new(a, p) = c
    BY <1>3, <2>3, <2>4 DEF new, With
  <2>6. QED
    BY <1>5, <2>5
<1>11. ASSUME NEW i \in DOMAIN E, NEW j \in DOMAIN E, i < j
       PROVE  Earlier(axes, values, k, E[i], E[j])
  <2>1. PICK a \in DOMAIN P, b \in DOMAIN P, p \in DOMAIN vs, q \in DOMAIN vs :
          E[i] = new(a, p) /\ E[j] = new(b, q) /\ (a < b \/ (a = b /\ p < q))
    BY <1>5, <1>11
  <2>2. CASE a < b
    <3>1. Earlier(axes, values, k - 1, P[a], P[b])
      BY <1>1, <2>2
    <3>2. PICK m \in 1 .. k - 1 :
            /\ Place(values, P[a], axes[m]) < Place(values, P[b], axes[m])
            /\ \A l \in 1 .. m - 1 : Place(values, P[a], axes[l]) = Place(values, P[b], axes[l])
      BY <3>1 DEF Earlier
    <3>3. m \in 1 .. k /\ \A l \in 1 .. m - 1 : l \in 1 .. k - 1
      OBVIOUS
    <3>4. Place(values, E[i], axes[m]) < Place(values, E[j], axes[m])
      BY <1>8, <2>1, <3>2
    <3>5. \A l \in 1 .. m - 1 : Place(values, E[i], axes[l]) = Place(values, E[j], axes[l])
      BY <1>8, <2>1, <3>2, <3>3
    <3>6. QED
      BY <3>3, <3>4, <3>5 DEF Earlier
  <2>3. CASE a = b /\ p < q
    <3>1. Place(values, E[i], axes[k]) < Place(values, E[j], axes[k])
      BY <1>8, <2>1, <2>3 DEF x
    <3>2. \A l \in 1 .. k - 1 : Place(values, E[i], axes[l]) = Place(values, E[j], axes[l])
      BY <1>8, <2>1, <2>3
    <3>3. QED
      BY <1>3, <3>1, <3>2 DEF Earlier
  <2>4. QED
    BY <2>1, <2>2, <2>3
<1>12. Grid(E, axes, values, k)
  BY <1>3, <1>5, <1>9, <1>10, <1>11 DEF Grid
<1>13. QED
  BY <1>12 DEF E, vs, x

\* The whole product lists every combination of the axes, each once, in their order.
LEMMA ProductIs ==
  ASSUME NEW n \in Nat, NEW axes, IsInjective(axes), DOMAIN axes = 1 .. n, NEW values,
         \A k \in 1 .. n : values[axes[k]] \in Seq(Value) /\ IsInjective(values[axes[k]])
  PROVE  Grid(Product(axes, values), axes, values, n)
<1>1. PICK h : PartialProducts(h, n, axes, values)
  BY ProductUnrolled
<1>2. /\ h[0] = <<<<>>>> /\ h[n] = Product(axes, values)
      /\ \A i \in 1 .. n : h[i] = Expand(h[i - 1], axes[i], values[axes[i]])
  BY <1>1 DEF PartialProducts
<1> DEFINE I == {k \in 0 .. n : Grid(h[k], axes, values, k)}
<1>3. 0 \in I
  BY <1>2, GridBegins
<1>4. ASSUME NEW k \in 1 .. n, k - 1 \in I PROVE k \in I
  <2>1. Grid(h[k - 1], axes, values, k - 1)
    BY <1>4
  <2>2. Grid(Expand(h[k - 1], axes[k], values[axes[k]]), axes, values, k)
    BY <2>1, GridGrows
  <2>3. QED
    BY <1>2, <2>2
<1>5. n \in I
  <2> HIDE DEF I
  <2>1. 0 .. n \subseteq I
    BY <1>3, <1>4, Data!IntervalInduction
  <2>2. QED
    BY <2>1
<1>6. QED
  BY <1>5, <1>2

-----------------------------------------------------------------------------
(* The fold over the filters.                                              *)

\* The equation of the recursion under FoldLeft, with the step of Effective.
EffectiveEquation(it, n, base, filters) ==
  it = [s \in SUBSET (1 .. n) |->
          IF s = {} THEN base
          ELSE With(it[s \ {Max(s)}], filters[Max(s)][1], filters[Max(s)][2])]

\* The recursion has a solution.
LEMMA EffectiveSolution ==
  ASSUME NEW n \in Nat, NEW base, NEW filters
  PROVE  \E it : EffectiveEquation(it, n, base, filters)
<1> DEFINE I == {k \in 0 .. n : \E it : EffectiveEquation(it, k, base, filters)}
<1>1. 0 \in I
  <2>1. SUBSET (1 .. 0) = {{}}
    OBVIOUS
  <2> DEFINE it == [s \in SUBSET (1 .. 0) |-> base]
  <2>2. it = [s \in SUBSET (1 .. 0) |->
          IF s = {} THEN base
          ELSE With(it[s \ {Max(s)}], filters[Max(s)][1], filters[Max(s)][2])]
    BY <2>1
  <2>3. EffectiveEquation(it, 0, base, filters)
    BY <2>2 DEF EffectiveEquation
  <2>4. QED
    BY <2>3
<1>2. ASSUME NEW i \in 1 .. n, i - 1 \in I PROVE i \in I
  <2> DEFINE Step(t, k) == With(t, filters[k][1], filters[k][2])
  <2>1. PICK it : EffectiveEquation(it, i - 1, base, filters)
    BY <1>2
  <2>2. it = [s \in SUBSET (1 .. i - 1) |->
               IF s = {} THEN base ELSE Step(it[s \ {Max(s)}], Max(s))]
    BY <2>1 DEF EffectiveEquation
  <2> DEFINE g == [s \in SUBSET (1 .. i) |->
                     IF i \in s THEN Step(it[s \ {i}], i) ELSE it[s]]
  <2> HIDE DEF Step
  <2>3. ASSUME NEW s \in SUBSET (1 .. i)
        PROVE  g[s] = IF s = {} THEN base ELSE Step(g[s \ {Max(s)}], Max(s))
    <3>1. CASE i \in s
      <4>1. Max(s) = i
        BY <3>1, MaxIs
      <4>2. s \ {i} \in SUBSET (1 .. i) /\ i \notin s \ {i} /\ s # {}
        BY <3>1
      <4>3. g[s \ {i}] = it[s \ {i}]
        BY <4>2
      <4>4. g[s] = Step(it[s \ {i}], i)
        BY <3>1
      <4> HIDE DEF g
      <4>5. QED
        BY <4>1, <4>2, <4>3, <4>4
    <3>2. CASE i \notin s
      <4>1. s \in SUBSET (1 .. i - 1)
        BY <3>2
      <4>2. s \ {Max(s)} \in SUBSET (1 .. i) /\ i \notin s \ {Max(s)}
        BY <3>2
      <4>3. g[s] = it[s] /\ g[s \ {Max(s)}] = it[s \ {Max(s)}]
        BY <3>2, <4>2
      <4>4. it[s] = IF s = {} THEN base ELSE Step(it[s \ {Max(s)}], Max(s))
        BY <2>2, <4>1
      <4> HIDE DEF g
      <4>5. QED
        BY <4>3, <4>4
    <3>3. QED
      BY <3>1, <3>2
  <2>4. g = [s \in SUBSET (1 .. i) |->
               IF s = {} THEN base ELSE Step(g[s \ {Max(s)}], Max(s))]
    <3> HIDE DEF g
    <3>1. g = [s \in SUBSET (1 .. i) |-> g[s]]
      BY DEF g
    <3>2. QED
      BY <2>3, <3>1, Zenon
  <2> HIDE DEF g
  <2>5. EffectiveEquation(g, i, base, filters)
    BY <2>4 DEF EffectiveEquation, Step
  <2>6. QED
    BY <2>5
<1>3. n \in I
  <2> HIDE DEF I
  <2>1. 0 .. n \subseteq I
    BY <1>1, <1>2, Data!IntervalInduction
  <2>2. QED
    BY <2>1
<1>4. QED
  BY <1>3

\* The selection after each filter.
Applied(h, n, f, filters) ==
  /\ h[0] = FileSelection(f) /\ h[n] = Effective(f, filters)
  /\ \A i \in 1 .. n : h[i] = With(h[i - 1], filters[i][1], filters[i][2])

\* They exist.
LEMMA EffectiveUnrolled ==
  ASSUME NEW n \in Nat, NEW f, NEW filters, DOMAIN filters = 1 .. n
  PROVE  \E h : Applied(h, n, f, filters)
<1> DEFINE base == FileSelection(f)
           Equation(it) == EffectiveEquation(it, n, base, filters)
           iter == CHOOSE it : Equation(it)
           h == [i \in 0 .. n |-> iter[1 .. i]]
<1>1. Effective(f, filters) = iter[1 .. n]
  BY DEF Effective, FoldLeft, MapThenFoldSet, EffectiveEquation
<1>2. Equation(iter)
  <2> HIDE DEF Equation
  <2>1. \E it : Equation(it)
    BY EffectiveSolution DEF Equation
  <2>2. QED
    BY <2>1
<1> HIDE DEF iter, base
<1>3. \A s \in SUBSET (1 .. n) :
        iter[s] = IF s = {} THEN base
                  ELSE With(iter[s \ {Max(s)}], filters[Max(s)][1], filters[Max(s)][2])
  BY <1>2 DEF EffectiveEquation
<1>4. h[0] = base /\ h[n] = Effective(f, filters)
  <2>1. 1 .. 0 = {}
    OBVIOUS
  <2>2. iter[1 .. 0] = base
    BY <1>3, <2>1
  <2>3. QED
    BY <1>1, <2>2
<1>5. ASSUME NEW i \in 1 .. n PROVE h[i] = With(h[i - 1], filters[i][1], filters[i][2])
  <2>1. 1 .. i \in SUBSET (1 .. n) /\ i \in 1 .. i /\ i \in Nat
    OBVIOUS
  <2>2. Max(1 .. i) = i
    BY <2>1, MaxIs
  <2>3. (1 .. i) \ {i} = 1 .. i - 1
    OBVIOUS
  <2>4. iter[1 .. i] = With(iter[1 .. i - 1], filters[i][1], filters[i][2])
    BY <1>3, <2>1, <2>2, <2>3
  <2>5. QED
    BY <2>4
<1>6. Applied(h, n, f, filters)
  BY <1>4, <1>5 DEF Applied, base
<1>7. QED
  BY <1>6

-----------------------------------------------------------------------------
(* What the reader lets through.                                           *)

\* The axes a file has values for, each once.
LEMMA AxesIs ==
  ASSUME NEW f \in Files, f.benchmark # "unknown"
  PROVE  /\ Axes(f) \in Seq(Declared(f)) /\ IsInjective(Axes(f))
         /\ Range(Axes(f)) = {a \in Declared(f) \cap DOMAIN f.matrix : f.matrix[a] # NoValue}
         /\ \A a \in Range(Axes(f)) :
              Values(f, a) = f.matrix[a] /\ f.matrix[a] \in Seq(Value) /\ f.matrix[a] # NoValue
<1> DEFINE b == f.benchmark
           all == AdapterAxes[b]
           with == {a \in DOMAIN f.matrix : f.matrix[a] # NoValue}
<1>1. b \in {"b1", "b2", "unregistered"} /\ f.matrix \in [DOMAIN f.matrix -> Seq(Value)]
  BY PlanAssumption DEF Lists
<1>2. all \in Seq(Range(all)) /\ IsInjective(all)
  <2> DEFINE two == <<"method", "regularisation">>
             four == <<"regularisation", "forcing", "observation-region", "target-profile">>
  <2>1. all = two \/ all = four
    BY <1>1 DEF AdapterAxes
  <2>2. two \in Seq(Range(two)) /\ four \in Seq(Range(four))
    BY DEF Range
  <2>3. IsInjective(two)
    BY DEF IsInjective
  <2>4. /\ DOMAIN four = {1, 2, 3, 4} /\ four[1] = "regularisation" /\ four[2] = "forcing"
        /\ four[3] = "observation-region" /\ four[4] = "target-profile"
    OBVIOUS
  <2> HIDE DEF two, four
  <2>5. IsInjective(four)
    BY <2>4 DEF IsInjective
  <2>6. QED
    BY <2>1, <2>2, <2>3, <2>5
<1>3. Axes(f) = Only(all, with)
  BY DEF Axes
<1>4. Declared(f) = Range(all)
  BY DEF Declared
<1> HIDE DEF all, with
<1>5. Axes(f) \in Seq(Declared(f)) /\ Keeps(Axes(f), all, with)
  BY <1>2, <1>3, <1>4, OnlyIs
<1>6. IsInjective(Axes(f))
  BY <1>2, <1>4, <1>5, KeepsInjective
<1>7. Range(Axes(f)) = Range(all) \cap with
  BY <1>5 DEF Keeps
<1>8. \A a \in with : Values(f, a) = f.matrix[a] /\ f.matrix[a] \in Seq(Value) /\ f.matrix[a] # NoValue
  BY <1>1 DEF with, Values
<1>9. QED
  BY <1>4, <1>5, <1>6, <1>7, <1>8 DEF with

\* Whatever is selected of an axis is a list of values.
LEMMA AllowedIs ==
  ASSUME NEW f \in Files, f.benchmark # "unknown", NEW filters \in Seq(STRING \X Seq(Value))
  PROVE  Allowed(f, filters) \in [Range(Axes(f)) -> Seq(Value)]
<1> DEFINE n == Len(filters)
           Good(c) == \A a \in DOMAIN c : c[a] \in Seq(Value)
<1>1. n \in Nat /\ DOMAIN filters = 1 .. n
      /\ \A i \in 1 .. n : filters[i][2] \in Seq(Value)
  OBVIOUS
<1> HIDE DEF n
<1>2. PICK h : Applied(h, n, f, filters)
  BY <1>1, EffectiveUnrolled
<1>3. Good(FileSelection(f))
  BY PlanAssumption DEF FileSelection, Lists
<1> DEFINE I == {k \in 0 .. n : Good(h[k])}
<1>4. 0 \in I
  BY <1>1, <1>2, <1>3 DEF Applied
<1>5. ASSUME NEW k \in 1 .. n, k - 1 \in I PROVE k \in I
  <2>1. Good(h[k - 1]) /\ h[k] = With(h[k - 1], filters[k][1], filters[k][2])
    BY <1>2, <1>5 DEF Applied
  <2>2. Good(h[k])
    BY <1>1, <2>1 DEF With
  <2>3. QED
    BY <1>1, <2>2
<1>6. Good(Effective(f, filters))
  <2> HIDE DEF I, Good
  <2>1. 0 .. n \subseteq I
    BY <1>1, <1>4, <1>5, Data!IntervalInduction
  <2>2. Good(h[n])
    BY <1>1, <2>1 DEF I
  <2>3. QED
    BY <1>2, <2>2 DEF Applied
<1>7. \A a \in Range(Axes(f)) : Values(f, a) \in Seq(Value)
  BY AxesIs
<1>8. QED
  BY <1>6, <1>7 DEF Allowed

-----------------------------------------------------------------------------
(* The combinations of a plan.                                             *)

\* A file and filters that the reader and the selection let through.
Accepted(f, filters) ==
  /\ f \in Files /\ filters \in CommandLines
  /\ ~ReadFails(f) /\ ~SelectionFails(f, filters)

\* The values of every axis are a list without repetitions of values of the file.
LEMMA AcceptedValues ==
  ASSUME NEW f, NEW filters, Accepted(f, filters)
  PROVE  \A a \in Range(Axes(f)) :
           /\ Allowed(f, filters)[a] \in Seq(Value) /\ IsInjective(Allowed(f, filters)[a])
           /\ Range(Allowed(f, filters)[a]) \subseteq Range(Values(f, a))
<1>1. f \in Files /\ f.benchmark # "unknown" /\ filters \in Seq(STRING \X Seq(Value))
  BY PlanAssumption DEF Accepted, ReadFails
<1>2. Allowed(f, filters) \in [Range(Axes(f)) -> Seq(Value)]
  BY <1>1, AllowedIs
<1>3. \A a \in Range(Axes(f)) :
        /\ IsInjective(Allowed(f, filters)[a])
        /\ Range(Allowed(f, filters)[a]) \subseteq Range(Values(f, a))
  BY DEF Accepted, SelectionFails
<1>4. QED
  BY <1>2, <1>3

\* A list of the selected combinations that are not excluded, in their order.
Planning(f, filters, all) ==
  /\ all \in Seq([Range(Axes(f)) -> Value])
  /\ Range(all) = {c \in [Range(Axes(f)) -> Value] :
                     /\ \A a \in Range(Axes(f)) : c[a] \in Range(Allowed(f, filters)[a])
                     /\ c \notin Excluded(f)}
  /\ \A i, j \in DOMAIN all :
       i < j => Earlier(Axes(f), Allowed(f, filters), Len(Axes(f)), all[i], all[j])

\* The plan lists the selected combinations that are not excluded, in their order.
LEMMA CombinationsAre ==
  ASSUME NEW f, NEW filters, Accepted(f, filters)
  PROVE  Planning(f, filters, Combinations(f, filters))
<1> DEFINE axes == Axes(f)
           values == Allowed(f, filters)
           all == Combinations(f, filters)
           product == Product(axes, values)
           n == Len(axes)
           T == [Range(axes) -> Value]
<1>1. axes \in Seq(Declared(f)) /\ IsInjective(axes)
  BY AxesIs DEF Accepted, ReadFails
<1>2. n \in Nat /\ DOMAIN axes = 1 .. n /\ \A k \in 1 .. n : axes[k] \in Range(axes)
  BY <1>1 DEF Range
<1>3. \A k \in 1 .. n : values[axes[k]] \in Seq(Value) /\ IsInjective(values[axes[k]])
  BY <1>2, AcceptedValues
<1>4. all = Only(product, Range(product) \ Excluded(f))
  BY DEF Combinations
<1>5. Taken(axes, n) = Range(axes)
  BY <1>2 DEF Taken, Range
<1> HIDE DEF axes, values, all, product, n
<1>6. Grid(product, axes, values, n)
  BY <1>1, <1>2, <1>3, ProductIs DEF product
<1>7. /\ product \in Seq(T)
      /\ \A i \in DOMAIN product : \A l \in 1 .. n : product[i][axes[l]] \in Range(values[axes[l]])
      /\ \A c \in T : (\A l \in 1 .. n : c[axes[l]] \in Range(values[axes[l]]))
                      => \E i \in DOMAIN product : product[i] = c
      /\ \A i, j \in DOMAIN product : i < j => Earlier(axes, values, n, product[i], product[j])
  BY <1>5, <1>6 DEF Grid
<1>8. \A c : (\A l \in 1 .. n : c[axes[l]] \in Range(values[axes[l]]))
             <=> (\A a \in Range(axes) : c[a] \in Range(values[a]))
  <2>1. Range(axes) = {axes[l] : l \in 1 .. n}
    BY <1>2 DEF Range
  <2>2. QED
    BY <2>1
<1> HIDE DEF T
<1>9. /\ all \in Seq(T) /\ Keeps(all, product, Range(product) \ Excluded(f))
  BY <1>4, <1>7, OnlyIs
<1>10. Range(all) = Range(product) \ Excluded(f)
  BY <1>9 DEF Keeps
<1>11. \A c : c \in Range(product) <=>
               c \in T /\ \A a \in Range(axes) : c[a] \in Range(values[a])
  <2>1. \A i \in DOMAIN product : product[i] \in T
    BY <1>7
  <2>2. \A i \in DOMAIN product : \A a \in Range(axes) : product[i][a] \in Range(values[a])
    BY <1>7, <1>8
  <2>3. ASSUME NEW c \in T, \A a \in Range(axes) : c[a] \in Range(values[a])
        PROVE  \E i \in DOMAIN product : product[i] = c
    <3>1. \A l \in 1 .. n : c[axes[l]] \in Range(values[axes[l]])
      BY <1>8, <2>3
    <3>2. QED
      BY <1>7, <3>1
  <2>4. Range(product) = {product[i] : i \in DOMAIN product}
    BY DEF Range
  <2>5. QED
    BY <2>1, <2>2, <2>3, <2>4
<1>12. Range(all) = {c \in T : /\ \A a \in Range(axes) : c[a] \in Range(values[a])
                               /\ c \notin Excluded(f)}
  BY <1>10, <1>11
<1>13. ASSUME NEW i \in DOMAIN all, NEW j \in DOMAIN all, i < j
       PROVE  Earlier(axes, values, n, all[i], all[j])
  <2>1. PICK k \in DOMAIN product, l \in DOMAIN product :
          k < l /\ all[i] = product[k] /\ all[j] = product[l]
    BY <1>9, <1>13 DEF Keeps
  <2>2. QED
    BY <1>7, <2>1
<1>14. QED
  BY <1>9, <1>12, <1>13 DEF axes, values, all, n, T, Planning

-----------------------------------------------------------------------------
(* The recorded selection.                                                 *)

\* The filters of the manifest leave the selection that the command line alone left.
LEMMA ReplayedSelection ==
  ASSUME NEW f \in Files, ~ReadFails(f), NEW filters \in Seq(STRING \X Seq(Value))
  PROVE  /\ Effective(f, JoinSelection(f, filters)) = Effective(f, filters)
         /\ \A i \in DOMAIN JoinSelection(f, filters) :
              \/ JoinSelection(f, filters)[i][1] \in Range(Axes(f))
              \/ \E j \in DOMAIN filters : JoinSelection(f, filters)[i] = filters[j]
<1> DEFINE base == FileSelection(f)
           kept == Only(Axes(f), DOMAIN base)
           again == [i \in DOMAIN kept |-> <<kept[i], base[kept[i]]>>]
           all == JoinSelection(f, filters)
           n == Len(kept)
           m == Len(filters)
<1>1. all = again \o filters
  BY DEF JoinSelection
<1>2. base = [a \in DOMAIN base |-> base[a]] /\ DOMAIN base \subseteq Range(Axes(f))
  BY DEF FileSelection
<1>3. kept \in Seq(Declared(f)) /\ Keeps(kept, Axes(f), DOMAIN base)
  <2>1. Axes(f) \in Seq(Declared(f))
    BY AxesIs DEF ReadFails
  <2> HIDE DEF base
  <2>2. QED
    BY <2>1, OnlyIs
<1>4. n \in Nat /\ DOMAIN kept = 1 .. n /\ \A i \in 1 .. n : kept[i] \in DOMAIN base
  <2>1. n \in Nat /\ DOMAIN kept = 1 .. n
    BY <1>3
  <2>2. Range(kept) \subseteq DOMAIN base
    BY <1>3 DEF Keeps
  <2> HIDE DEF kept, base, n
  <2>3. QED
    BY <2>1, <2>2 DEF Range
<1>5. m \in Nat /\ DOMAIN filters = 1 .. m
  OBVIOUS
<1> HIDE DEF base, kept, n, m
<1>6. again \in Seq({<<kept[i], base[kept[i]]>> : i \in 1 .. n}) /\ Len(again) = n
  <2> DEFINE new(i) == <<kept[i], base[kept[i]]>>
             A == {new(i) : i \in 1 .. n}
  <2>1. again = [i \in 1 .. n |-> new(i)]
    BY <1>4
  <2> HIDE DEF new, again
  <2>2. again \in [1 .. n -> A]
    BY <2>1
  <2> HIDE DEF A
  <2>3. again \in Seq(A) /\ Len(again) = n
    BY <1>4, <2>2
  <2>4. QED
    BY <2>3 DEF A, new
<1>7. /\ DOMAIN all = 1 .. n + m
      /\ \A i \in 1 .. n : all[i] = <<kept[i], base[kept[i]]>>
      /\ \A i \in 1 .. m : all[n + i] = filters[i]
  <2> DEFINE A == {<<kept[i], base[kept[i]]>> : i \in 1 .. n} \cup (STRING \X Seq(Value))
  <2>1. again \in Seq(A) /\ filters \in Seq(A)
    <3> HIDE DEF again
    <3>1. QED
      BY <1>6
  <2>2. \A i \in 1 .. n : again[i] = <<kept[i], base[kept[i]]>>
    BY <1>4
  <2> HIDE DEF A, again, all
  <2>3. Len(all) = n + m /\ DOMAIN all = 1 .. n + m
    BY <1>1, <1>4, <1>5, <1>6, <2>1 DEF m
  <2>4. \A i \in 1 .. n : all[i] = again[i]
    BY <1>1, <1>4, <1>5, <1>6, <2>1 DEF m
  <2>5. \A i \in 1 .. m : all[n + i] = filters[i]
    BY <1>1, <1>4, <1>5, <1>6, <2>1 DEF m
  <2>6. QED
    BY <2>2, <2>3, <2>4, <2>5
<1> HIDE DEF all, again
<1>8. PICK h : Applied(h, n + m, f, all)
  <2>1. n + m \in Nat /\ DOMAIN all = 1 .. (n + m)
    BY <1>4, <1>5, <1>7
  <2>2. QED
    BY <2>1, EffectiveUnrolled
<1>9. PICK g : Applied(g, m, f, filters)
  BY <1>5, EffectiveUnrolled
<1>10. h[n] = base
  <2> DEFINE I == {k \in 0 .. n : h[k] = base}
  <2>1. 0 \in I
    BY <1>4, <1>8 DEF Applied, base
  <2>2. ASSUME NEW k \in 1 .. n, k - 1 \in I PROVE k \in I
    <3>1. k \in 1 .. n + m
      BY <1>4, <1>5
    <3>2. h[k] = With(h[k - 1], all[k][1], all[k][2])
      BY <1>8, <3>1 DEF Applied
    <3>3. h[k] = With(base, kept[k], base[kept[k]])
      BY <1>7, <2>2, <3>2
    <3>4. With(base, kept[k], base[kept[k]]) = base
      <4>1. kept[k] \in DOMAIN base
        BY <1>4
      <4>2. With(base, kept[k], base[kept[k]]) = [a \in DOMAIN base |-> base[a]]
        BY <4>1 DEF With
      <4>3. QED
        BY <1>2, <4>2
    <3>5. QED
      BY <3>3, <3>4
  <2> HIDE DEF I
  <2>3. 0 .. n \subseteq I
    BY <1>4, <2>1, <2>2, Data!IntervalInduction
  <2>4. QED
    BY <1>4, <2>3 DEF I
<1>11. h[n + m] = g[m]
  <2> DEFINE I == {k \in 0 .. m : h[n + k] = g[k]}
  <2>1. 0 \in I
    BY <1>4, <1>5, <1>9, <1>10 DEF Applied, base
  <2>2. ASSUME NEW k \in 1 .. m, k - 1 \in I PROVE k \in I
    <3>1. n + k \in 1 .. n + m /\ (n + k) - 1 = n + (k - 1)
      BY <1>4, <1>5
    <3>2. h[n + k] = With(h[(n + k) - 1], all[n + k][1], all[n + k][2])
      BY <1>8, <3>1 DEF Applied
    <3>3. g[k] = With(g[k - 1], filters[k][1], filters[k][2])
      BY <1>9 DEF Applied
    <3>4. h[n + (k - 1)] = g[k - 1] /\ all[n + k] = filters[k]
      BY <1>7, <2>2
    <3>5. QED
      BY <3>1, <3>2, <3>3, <3>4
  <2> HIDE DEF I
  <2>3. 0 .. m \subseteq I
    BY <1>5, <2>1, <2>2, Data!IntervalInduction
  <2>4. QED
    BY <1>5, <2>3 DEF I
<1>12. Effective(f, all) = Effective(f, filters)
  BY <1>8, <1>9, <1>11 DEF Applied
<1>13. ASSUME NEW i \in DOMAIN all
       PROVE  all[i][1] \in Range(Axes(f)) \/ \E j \in DOMAIN filters : all[i] = filters[j]
  <2>1. CASE i \in 1 .. n
    <3>1. all[i][1] = kept[i]
      BY <1>7, <2>1
    <3>2. QED
      BY <1>2, <1>4, <2>1, <3>1
  <2>2. CASE i \notin 1 .. n
    <3>1. i - n \in 1 .. m /\ n + (i - n) = i
      BY <1>4, <1>5, <1>7, <2>2
    <3>2. all[i] = filters[i - n]
      BY <1>7, <3>1
    <3>3. QED
      BY <1>5, <3>1, <3>2
  <2>3. QED
    BY <2>1, <2>2
<1>14. QED
  BY <1>12, <1>13 DEF all

\* Given back on the command line, the recorded selection fails nowhere and selects
\* the same combinations.
LEMMA ReplayIs ==
  ASSUME NEW f, NEW filters, Accepted(f, filters)
  PROVE  /\ ~SelectionFails(f, JoinSelection(f, filters))
         /\ Combinations(f, JoinSelection(f, filters)) = Combinations(f, filters)
<1> DEFINE all == JoinSelection(f, filters)
<1>1. f \in Files /\ ~ReadFails(f) /\ filters \in Seq(STRING \X Seq(Value))
  BY PlanAssumption DEF Accepted
<1>2. /\ Effective(f, all) = Effective(f, filters)
      /\ \A i \in DOMAIN all : \/ all[i][1] \in Range(Axes(f))
                               \/ \E j \in DOMAIN filters : all[i] = filters[j]
  BY <1>1, ReplayedSelection
<1> HIDE DEF all
<1>3. Allowed(f, all) = Allowed(f, filters)
  BY <1>2 DEF Allowed
<1>4. Combinations(f, all) = Combinations(f, filters)
  BY <1>3, Zenon DEF Combinations
<1>5. \A j \in DOMAIN filters : filters[j][1] \in Range(Axes(f))
  BY DEF Accepted, SelectionFails
<1>6. \A i \in DOMAIN all : all[i][1] \in Range(Axes(f))
  BY <1>2, <1>5
<1>7. ~SelectionFails(f, all)
  BY <1>3, <1>6 DEF Accepted, SelectionFails
<1>8. QED
  BY <1>4, <1>7 DEF all

-----------------------------------------------------------------------------
(* The validation of a plan.                                               *)

\* validate_run_set_plan finds nothing in what the reader and the selection let
\* through.
LEMMA ExpansionIsValid ==
  ASSUME NEW f, NEW filters, Accepted(f, filters), Combinations(f, filters) # <<>>
  PROVE  ~PlanInvalid(f, Combinations(f, filters))
<1> DEFINE all == Combinations(f, filters)
           axes == Axes(f)
           Complete(c) == /\ DOMAIN c = Range(axes)
                          /\ \A a \in DOMAIN c : c[a] \in Range(Values(f, a))
<1>1. f \in Files /\ f.benchmark # "unknown" /\ ~ReadFails(f)
  BY DEF Accepted, ReadFails
<1>2. /\ IsInjective(axes)
      /\ \A a \in Range(axes) : a \in DOMAIN f.matrix
           /\ Values(f, a) = f.matrix[a] /\ Values(f, a) # NoValue
  BY <1>1, AxesIs
<1>3. axes # <<>> /\ \A a \in Range(axes) : IsInjective(Values(f, a))
  BY <1>1, <1>2 DEF ReadFails
<1>4. ASSUME NEW c \in Excluded(f) PROVE Complete(c)
  <2>1. PICK e \in Range(f.excluded) : c = AsCombination(e)
    BY DEF Excluded
  <2>2. ~ExclusionFails(f, e)
    BY <1>1 DEF ReadFails
  <2>3. /\ ExclusionAxes(e) = Range(axes)
        /\ \A a \in ExclusionAxes(e) : ExclusionValue(e, a) \in Range(Values(f, a))
    BY <2>2 DEF ExclusionFails
  <2>4. c = [a \in ExclusionAxes(e) |-> ExclusionValue(e, a)]
    BY <2>1 DEF AsCombination
  <2> HIDE DEF axes
  <2>5. QED
    BY <2>3, <2>4
<1>5. ASSUME NEW c \in Range(all) PROVE Complete(c)
  <2>1. c \in [Range(axes) -> Value] /\ \A a \in Range(axes) : c[a] \in Range(Allowed(f, filters)[a])
    <3>1. Planning(f, filters, all)
      BY CombinationsAre
    <3> HIDE DEF all
    <3>2. QED
      BY <3>1 DEF Planning
  <2>2. \A a \in Range(axes) : Range(Allowed(f, filters)[a]) \subseteq Range(Values(f, a))
    BY AcceptedValues
  <2> HIDE DEF axes
  <2>3. QED
    BY <2>1, <2>2
<1> HIDE DEF all
<1>6. QED
  BY <1>2, <1>3, <1>4, <1>5 DEF PlanInvalid, all

-----------------------------------------------------------------------------
(* Binding.                                                                *)

\* What becomes of a combination.
BoundType ==
  [maximumIterations : 0 .. MaxUnsigned, trials : 0 .. MaxUnsigned, bound : BOOLEAN]

\* Whatever a combination is bound to is in range.
LEMMA OptionsType ==
  ASSUME NEW f, NEW method
  PROVE  /\ SolverOptions(f, method) \in BoundType
         /\ LET o == SolverOptions(f, method)
                trials == LimitEntry(f, method, "trials")
                reductions == LimitEntry(f, method, "reductions")
            IN  o.bound => /\ o.trials = TrialsOf(trials, reductions)
                           /\ reductions # Absent => reductions \in 0 .. MaxUnsigned
<1> DEFINE trials == LimitEntry(f, method, "trials")
           reductions == LimitEntry(f, method, "reductions")
           iterations == Resolved(f, method, "iterations")
           good == /\ Unsigned(iterations) /\ ~LimitsFail(trials, reductions)
                   /\ ~(method = <<"bfgs">> /\ Policy(f, method, "curvature") < 0)
<1>1. CASE ~good
  <2>1. SolverOptions(f, method) = NotBound
    BY <1>1 DEF SolverOptions
  <2>2. QED
    BY <2>1, PlanAssumption DEF NotBound, BoundType
<1>2. CASE good
  <2>1. SolverOptions(f, method) =
          [maximumIterations |-> iterations, trials |-> TrialsOf(trials, reductions),
           bound |-> TRUE]
    BY <1>2 DEF SolverOptions
  <2> HIDE DEF trials, reductions, iterations
  <2>2. iterations \in 0 .. MaxUnsigned
    BY <1>2, PlanAssumption DEF Unsigned
  <2>3. reductions # Absent => reductions \in 0 .. MaxUnsigned
    BY <1>2 DEF LimitsFail, Unsigned
  <2>4. TrialsOf(trials, reductions) \in 0 .. MaxUnsigned
    BY <1>2, <2>3, PlanAssumption DEF TrialsOf, LimitsFail, Unsigned
  <2>5. QED
    BY <2>1, <2>2, <2>3, <2>4 DEF BoundType, trials, reductions
<1>3. QED
  BY <1>1, <1>2

\* What binding one combination gives is in range.
LEMMA BindType ==
  ASSUME NEW f, NEW c
  PROVE  BindOne(f, c) \in BoundType
<1>1. NotBound \in BoundType
  BY PlanAssumption DEF NotBound, BoundType
<1>2. QED
  BY <1>1, OptionsType DEF BindOne, BindB1, BindB2

-----------------------------------------------------------------------------
(* The invariant.                                                          *)

Settled ==
  /\ disk \in Files /\ edits \in 0 .. Edits /\ cli \in CommandLines /\ stage \in Stages
  /\ file \in Files \cup {NoFile} /\ snapshot \in Files \cup {NoFile}
  /\ stage \notin {"called", "refused"} => file \in Files /\ ~ReadFails(file)
  /\ bound \in Seq(BoundType)
  /\ Planned => plan = Plan(file, cli) /\ ~PlanFails(file, cli)
  /\ Len(plan.paths) = Len(plan.combinations)
  /\ Len(bound) <= Len(plan.combinations)
  /\ stage = "executing" => Len(bound) < Len(plan.combinations)
  /\ ~Opened => bound = <<>> /\ manifest = NoManifest
  /\ Opened => /\ manifest = Record(file, cli)
               /\ \A i \in DOMAIN bound : bound[i] = BindOne(file, plan.combinations[i])
  /\ stage = "abandoned" => ReferenceUnknown(file) \/ AxesMissing(file)

\* A plan that passes the planner is of an accepted file and command line; it has a
\* combination, and an artifact path for each.
LEMMA PlanIs ==
  ASSUME NEW f \in Files, ~ReadFails(f), NEW filters \in CommandLines, ~PlanFails(f, filters)
  PROVE  /\ Accepted(f, filters)
         /\ Plan(f, filters).combinations = Combinations(f, filters)
         /\ Plan(f, filters).paths = Paths(f, Combinations(f, filters))
         /\ Len(Plan(f, filters).paths) = Len(Plan(f, filters).combinations)
         /\ Len(Plan(f, filters).combinations) \in Nat \ {0}
<1> DEFINE all == Combinations(f, filters)
<1>1. Accepted(f, filters)
  BY DEF PlanFails, Accepted
<1>2. all # <<>>
  BY DEF PlanFails
<1>3. all \in Seq([Range(Axes(f)) -> Value])
  BY <1>1, CombinationsAre DEF Planning
<1>4. Plan(f, filters).combinations = all /\ Plan(f, filters).paths = Paths(f, all)
  BY DEF Plan
<1> HIDE DEF all
<1>5. Len(all) \in Nat \ {0} /\ DOMAIN all = 1 .. Len(all)
  BY <1>2, <1>3
<1>6. Paths(f, all) = [i \in 1 .. Len(all) |-> Components(f, all[i])]
  BY <1>5 DEF Paths
<1>7. Len(Paths(f, all)) = Len(all)
  BY <1>5, <1>6
<1>8. QED
  BY <1>1, <1>4, <1>5, <1>7 DEF all

\* Settled holds at the start and every step preserves it.
LEMMA SettledHolds == Spec => []Settled
<1>1. Init => Settled
  <2> SUFFICES ASSUME Init PROVE Settled
    OBVIOUS
  <2>1. plan.paths = <<>> /\ plan.combinations = <<>> /\ bound = <<>> /\ 0 \in 0 .. Edits
    BY PlanAssumption DEF Init, NoPlan
  <2>2. bound \in Seq(BoundType) /\ Len(bound) = 0 /\ Len(plan.paths) = 0
        /\ Len(plan.combinations) = 0
    BY <2>1
  <2>3. QED
    BY <2>1, <2>2 DEF Init, Settled, Stages, Planned, Opened
<1>2. Settled /\ [Next]_vars => Settled'
  <2> SUFFICES ASSUME Settled, [Next]_vars PROVE Settled'
    OBVIOUS
  <2>1. CASE Edit
    <3>1. edits' \in 0 .. Edits
      BY <2>1, PlanAssumption DEF Edit, Settled
    <3>2. disk' \in Files /\ UNCHANGED <<cli, stage, file, plan, snapshot, manifest, bound>>
      BY <2>1 DEF Edit
    <3>3. QED
      BY <3>1, <3>2 DEF Settled, Planned, Opened, Record, ReferenceUnknown, AxesMissing
  <2>2. CASE Read
    BY <2>2 DEF Read, Settled, Stages, Planned, Opened
  <2>3. CASE Prepare
    <3>1. stage = "read" /\ file \in Files /\ ~ReadFails(file) /\ bound = <<>>
          /\ manifest = NoManifest
          /\ UNCHANGED <<disk, edits, cli, file, snapshot, manifest, bound>>
      BY <2>3 DEF Prepare, Settled, Opened
    <3>2. CASE PlanFails(file, cli)
      <4>1. stage' = "refused" /\ plan' = plan
        BY <2>3, <3>2 DEF Prepare
      <4>2. QED
        BY <3>1, <4>1 DEF Settled, Stages, Planned, Opened
    <3>3. CASE ~PlanFails(file, cli)
      <4>1. stage' \in {"prepared", "refused"} /\ plan' = Plan(file, cli)
        BY <2>3, <3>3 DEF Prepare
      <4>2. /\ Len(plan'.paths) = Len(plan'.combinations)
            /\ Len(plan'.combinations) \in Nat
        BY <3>1, <3>3, <4>1, PlanIs DEF Settled
      <4>3. Len(bound') = 0
        BY <3>1
      <4>4. QED
        BY <3>1, <3>3, <4>1, <4>2, <4>3 DEF Settled, Stages, Planned, Opened
    <3>4. QED
      BY <3>2, <3>3
  <2>4. CASE Snapshot
    BY <2>4 DEF Snapshot, Settled, Stages, Planned, Opened
  <2>5. CASE Open
    <3>1. /\ stage = "snapshotted" /\ file \in Files /\ ~ReadFails(file) /\ cli \in CommandLines
          /\ plan = Plan(file, cli) /\ ~PlanFails(file, cli) /\ bound = <<>>
          /\ manifest' = Record(file, cli)
          /\ UNCHANGED <<disk, edits, cli, file, plan, snapshot, bound>>
      BY <2>5 DEF Open, Settled, Planned, Opened
    <3>2. Len(plan.combinations) \in Nat \ {0}
      BY <3>1, PlanIs
    <3>3. Len(bound) = 0 /\ Len(bound) < Len(plan.combinations) /\ DOMAIN bound = {}
      BY <3>1, <3>2
    <3>4. Record(file, cli)' = Record(file, cli)
      BY <3>1 DEF Record
    <3>5. stage' \in {"executing", "abandoned"}
          /\ (stage' = "abandoned" => ReferenceUnknown(file))
      BY <2>5 DEF Open
    <3>6. Opened' /\ Planned'
      BY <3>5 DEF Opened, Planned
    <3>7. ReferenceUnknown(file)' <=> ReferenceUnknown(file)
      BY <3>1 DEF ReferenceUnknown
    <3>8. QED
      BY <3>1, <3>3, <3>4, <3>5, <3>6, <3>7 DEF Settled, Stages
  <2>6. CASE Bind
    <3> DEFINE c == plan.combinations[Len(bound) + 1]
    <3>1. /\ stage = "executing" /\ Len(bound) < Len(plan.combinations)
          /\ UNCHANGED <<disk, edits, cli, file, plan, snapshot, manifest>>
          /\ Record(file, cli)' = Record(file, cli)
      BY <2>6 DEF Bind, Settled, Record
    <3>2. Opened /\ Planned
      BY <3>1 DEF Opened, Planned
    <3>3. CASE AxesMissing(file)
      BY <2>6, <3>1, <3>2, <3>3 DEF Bind, Settled, Stages, Planned, Opened
    <3>4. CASE ~AxesMissing(file)
      <4>1. bound' = Append(bound, BindOne(file, c))
        BY <2>6, <3>4 DEF Bind
      <4>2. stage' = IF Len(bound') = Len(plan.combinations) THEN "executed" ELSE "executing"
        BY <2>6, <3>1, <3>4 DEF Bind
      <4>3. bound \in Seq(BoundType) /\ BindOne(file, c) \in BoundType
        BY BindType DEF Settled
      <4>4. bound' \in Seq(BoundType)
        BY <4>1, <4>3
      <4>5. Len(bound') = Len(bound) + 1
        BY <4>1, <4>3
      <4>6. /\ Len(bound') <= Len(plan.combinations)
            /\ stage' = "executing" => Len(bound') < Len(plan.combinations)
        <5>1. Len(bound) \in Nat
          BY <4>3
        <5>2. Len(plan.combinations) \in Nat
          BY <3>2, PlanIs DEF Settled, Opened
        <5>3. QED
          BY <3>1, <4>2, <4>5, <5>1, <5>2
      <4>7. \A i \in DOMAIN bound' : bound'[i] = BindOne(file, plan.combinations[i])
        <5> DEFINE x == BindOne(file, c)
        <5>1. \A i \in DOMAIN bound : bound[i] = BindOne(file, plan.combinations[i])
          BY <3>2 DEF Settled
        <5>2. x = BindOne(file, plan.combinations[Len(bound) + 1])
          OBVIOUS
        <5> HIDE DEF x
        <5>3. /\ DOMAIN bound' = DOMAIN bound \cup {Len(bound) + 1}
              /\ \A i \in DOMAIN bound : bound'[i] = bound[i]
              /\ bound'[Len(bound) + 1] = x
          BY <4>1, <4>3 DEF x
        <5>4. QED
          BY <5>1, <5>2, <5>3
      <4>8. Opened' /\ Planned' /\ stage' \in Stages /\ stage' # "abandoned"
        BY <4>2 DEF Opened, Planned, Stages
      <4>9. QED
        BY <3>1, <3>2, <4>4, <4>6, <4>7, <4>8 DEF Settled, Opened
    <3>5. QED
      BY <3>3, <3>4
  <2>7. CASE UNCHANGED vars
    BY <2>7 DEF vars, Settled, Stages, Planned, Opened, Record, ReferenceUnknown, AxesMissing
  <2>8. QED
    BY <2>1, <2>2, <2>3, <2>4, <2>5, <2>6, <2>7 DEF Next
<1>3. QED
  BY <1>1, <1>2, PTL DEF Spec

-----------------------------------------------------------------------------
(* The properties.                                                         *)

\* Whatever the file becomes while a run is prepared, the manifest's hash, its
\* combinations, its inventory and the options of every artifact belong to the
\* content that was read (main.cc, prepare_run and execute).
THEOREM ManifestCorrect == Spec => []ManifestIsOneContent
<1>1. Settled => ManifestIsOneContent
  BY DEF Settled, ManifestIsOneContent, Planned, Opened, Plan, Record
<1>2. QED
  BY <1>1, SettledHolds, PTL

\* For every file and every command line: an opened run is abandoned only for an
\* unknown reference method or a missing B2 axis, and every B1 combination it
\* executes has a method with a slug and a regularisation that is a number.
THEOREM GapsCorrect == Spec => []OnlyKnownGapsAbandon
<1>1. Settled => OnlyKnownGapsAbandon
  <2> SUFFICES ASSUME Settled, Opened PROVE OnlyKnownGapsAbandon
    BY DEF OnlyKnownGapsAbandon
  <2>1. plan.combinations = Combinations(file, cli) /\ ~PlanFails(file, cli)
    BY DEF Settled, Planned, Plan
  <2>2. \A c \in Range(plan.combinations) : ~Unplaceable(file, c)
    BY <2>1 DEF PlanFails
  <2>3. \A c \in Range(plan.combinations) :
          file.benchmark = "b1" => c["method"] \in Slugs /\ c["regularisation"] \in Numerals
    BY <2>2 DEF Unplaceable
  <2>4. QED
    BY <2>3 DEF OnlyKnownGapsAbandon, Settled
<1>2. QED
  BY <1>1, SettledHolds, PTL

\* A method whose policy limits the line search is bound as if the global limits
\* were not there.
LEMMA OwnLevel ==
  ASSUME NEW f \in Files, NEW method,
         \E n \in {"trials", "reductions"} : Policy(f, method, n) # Absent
  PROVE  SolverOptions(WithoutGlobalLimits(f), method) = SolverOptions(f, method)
<1> DEFINE g == WithoutGlobalLimits(f)
<1>1. g.policies = f.policies
  BY PlanAssumption DEF WithoutGlobalLimits, Members
<1>2. g.solver = [n \in DOMAIN f.solver \ {"trials", "reductions"} |-> f.solver[n]]
  BY PlanAssumption DEF WithoutGlobalLimits, Members
<1> HIDE DEF g
<1>3. \A name : Policy(g, method, name) = Policy(f, method, name)
  BY <1>1 DEF Policy
<1>4. Entry(g.solver, "iterations") = Entry(f.solver, "iterations")
  BY <1>2 DEF Entry
<1>5. Resolved(g, method, "iterations") = Resolved(f, method, "iterations")
  BY <1>3, <1>4 DEF Resolved
<1>6. \A name : LimitEntry(g, method, name) = LimitEntry(f, method, name)
  BY <1>3 DEF LimitEntry
<1>7. /\ LimitEntry(g, method, "trials") = LimitEntry(f, method, "trials")
      /\ LimitEntry(g, method, "reductions") = LimitEntry(f, method, "reductions")
      /\ Policy(g, method, "curvature") = Policy(f, method, "curvature")
  BY <1>3, <1>6
<1>8. SolverOptions(g, method) = SolverOptions(f, method)
  BY <1>5, <1>7, Zenon DEF SolverOptions
<1>9. QED
  BY <1>8 DEF g

\* For every file: the limit of a line search comes from one level, and one more
\* trial than reductions is never zero trials.
THEOREM LimitsCorrect == Spec => []LimitFromOneLevel
<1>1. Settled => LimitFromOneLevel
  <2> SUFFICES ASSUME Settled, NEW i \in DOMAIN bound
               PROVE  LET c == plan.combinations[i]
                          method == IF file.benchmark = "b1" THEN c["method"]
                                    ELSE file.method
                          own == \E n \in {"trials", "reductions"} :
                                   Policy(file, method, n) # Absent
                          reductions == IF own THEN Policy(file, method, "reductions")
                                        ELSE Entry(file.solver, "reductions")
                      IN  /\ own => bound[i] = BindOne(WithoutGlobalLimits(file), c)
                          /\ bound[i].bound /\ reductions # Absent
                               => bound[i].trials > reductions
    BY DEF LimitFromOneLevel
  <2> DEFINE c == plan.combinations[i]
             method == IF file.benchmark = "b1" THEN c["method"] ELSE file.method
             own == \E n \in {"trials", "reductions"} : Policy(file, method, n) # Absent
             reductions == IF own THEN Policy(file, method, "reductions")
                           ELSE Entry(file.solver, "reductions")
             g == WithoutGlobalLimits(file)
  <2>1. Opened
    BY DEF Settled
  <2>2. bound[i] = BindOne(file, c) /\ file \in Files
    BY <2>1 DEF Settled, Opened
  <2>3. bound[i] \in {NotBound, SolverOptions(file, method)}
    BY <2>2 DEF BindOne, BindB1, BindB2
  <2>4. reductions = LimitEntry(file, method, "reductions")
    BY DEF LimitEntry
  <2>5. ASSUME own PROVE bound[i] = BindOne(g, c)
    <3>1. SolverOptions(g, method) = SolverOptions(file, method)
      BY <2>2, <2>5, OwnLevel
    <3>2. /\ g.benchmark = file.benchmark /\ g.method = file.method
          /\ g.forcing = file.forcing /\ g.definitions = file.definitions
          /\ g.matrix = file.matrix
      BY <2>2, PlanAssumption DEF WithoutGlobalLimits, Members
    <3> HIDE DEF g, c
    <3>3. ForcingUndefined(g, c) <=> ForcingUndefined(file, c)
      BY <3>2 DEF ForcingUndefined, Forcing
    <3>4. \A axis : Values(g, axis) = Values(file, axis)
      BY <3>2 DEF Values
    <3>5. CASE file.benchmark = "b1"
      BY <2>2, <3>1, <3>2, <3>3, <3>5 DEF BindOne, BindB1
    <3>6. CASE file.benchmark # "b1"
      BY <2>2, <3>1, <3>2, <3>3, <3>4, <3>6 DEF BindOne, BindB2
    <3>7. QED
      BY <3>5, <3>6
  <2>6. ASSUME bound[i].bound, reductions # Absent PROVE bound[i].trials > reductions
    <3>1. bound[i] = SolverOptions(file, method)
      BY <2>3, <2>6 DEF NotBound
    <3> HIDE DEF method, reductions
    <3>2. /\ bound[i].trials = TrialsOf(LimitEntry(file, method, "trials"), reductions)
          /\ reductions \in 0 .. MaxUnsigned
      BY <2>4, <2>6, <3>1, OptionsType
    <3>3. QED
      BY <2>6, <3>2, PlanAssumption DEF TrialsOf
  <2>7. QED
    BY <2>5, <2>6
<1>2. QED
  BY <1>1, SettledHolds, PTL
\* Every variable keeps its type, whatever the file and the command line: the limits
\* of a bound combination fit into an unsigned int, and no combination is bound that
\* was not planned.
THEOREM TypeCorrect == Spec => []TypeOK
<1>1. Settled => TypeOK
  <2> SUFFICES ASSUME Settled PROVE TypeOK
    OBVIOUS
  <2>1. \A i \in DOMAIN bound : bound[i] \in BoundType
    BY DEF Settled
  <2>2. \A i \in DOMAIN bound : /\ bound[i].maximumIterations \in 0 .. MaxUnsigned
                                /\ bound[i].trials \in 0 .. MaxUnsigned
                                /\ bound[i].bound \in BOOLEAN
    BY <2>1 DEF BoundType
  <2>3. manifest # NoManifest <=> Opened
    BY DEF Settled, Record, NoManifest
  <2>4. QED
    BY <2>2, <2>3 DEF Settled, TypeOK
<1>2. QED
  BY <1>1, SettledHolds, PTL

\* The nested loops over the axes list exactly the declared, selected and not excluded
\* combinations, each once and in the order of the axes and of the selected values,
\* for any number of axes and values (parameter_files.hpp, expand_combinations).
THEOREM CompleteCorrect == Spec => []CombinationsComplete
<1>1. Settled => CombinationsComplete
  <2> SUFFICES ASSUME Settled, Planned PROVE CombinationsComplete
    BY DEF CombinationsComplete
  <2> DEFINE axes == Axes(file)
             values == Allowed(file, cli)
             all == plan.combinations
             Rank(c, k) == CHOOSE i \in DOMAIN values[axes[k]] :
                             values[axes[k]][i] = c[axes[k]]
             Before(c, d) == \E k \in DOMAIN axes :
                               /\ Rank(c, k) < Rank(d, k)
                               /\ \A l \in 1 .. k - 1 : Rank(c, l) = Rank(d, l)
  <2>1. file \in Files /\ ~ReadFails(file) /\ cli \in CommandLines
        /\ plan = Plan(file, cli) /\ ~PlanFails(file, cli)
    BY DEF Settled, Planned, Opened
  <2>2. Accepted(file, cli) /\ all = Combinations(file, cli)
    BY <2>1, PlanIs
  <2>3. Planning(file, cli, all)
    BY <2>2, CombinationsAre
  <2>4. DOMAIN axes = 1 .. Len(axes)
    BY <2>1, AxesIs DEF ReadFails
  <2> HIDE DEF all
  <2>5. /\ Range(all) = {c \in [Range(axes) -> Value] :
                          /\ \A a \in Range(axes) : c[a] \in Range(values[a])
                          /\ c \notin Excluded(file)}
        /\ \A i, j \in DOMAIN all : i < j => Earlier(axes, values, Len(axes), all[i], all[j])
    BY <2>3 DEF Planning
  <2>6. \A a \in Range(axes) : Range(values[a]) \subseteq Value
    <3>1. \A a \in Range(axes) : values[a] \in Seq(Value)
      BY <2>2, AcceptedValues
    <3> HIDE DEF axes, values
    <3>2. QED
      BY <3>1 DEF Range
  <2>7. \A c, d : Earlier(axes, values, Len(axes), c, d) => Before(c, d)
    <3>1. \A c, k : Place(values, c, axes[k]) = Rank(c, k)
      BY DEF Place
    <3> HIDE DEF axes, values, Rank
    <3>2. QED
      BY <2>4, <3>1 DEF Earlier
  <2>8. Range(all) = {c \in [Range(axes) -> UNION {Range(values[a]) : a \in Range(axes)}] :
                         /\ \A a \in Range(axes) : c[a] \in Range(values[a])
                         /\ c \notin Excluded(file)}
    <3> DEFINE V == UNION {Range(values[a]) : a \in Range(axes)}
    <3> HIDE DEF axes, values
    <3>1. V \subseteq Value
      BY <2>6
    <3>2. \A c \in [Range(axes) -> Value] :
            (\A a \in Range(axes) : c[a] \in Range(values[a])) => c \in [Range(axes) -> V]
      OBVIOUS
    <3> HIDE DEF V
    <3>3. \A c \in [Range(axes) -> V] : c \in [Range(axes) -> Value]
      BY <3>1
    <3>4. Range(all) = {c \in [Range(axes) -> V] :
                         /\ \A a \in Range(axes) : c[a] \in Range(values[a])
                         /\ c \notin Excluded(file)}
      BY <2>5, <3>2, <3>3
    <3>5. QED
      BY <3>4 DEF V
  <2>9. \A i, j \in DOMAIN all : i < j => Before(all[i], all[j])
    <3> HIDE DEF Before
    <3>1. QED
      BY <2>5, <2>7
  <2>10. QED
    BY <2>8, <2>9, Zenon DEF CombinationsComplete, all
<1>2. QED
  BY <1>1, SettledHolds, PTL

\* The validation a plan passes through once more (run_set_plan.hpp) refuses nothing
\* that the reader and the selection let through, for every file and command line.
THEOREM ValidationCorrect == Spec => []ValidationAgrees
<1>1. Settled => ValidationAgrees
  <2> SUFFICES ASSUME Settled, stage = "read", ~SelectionFails(file, cli),
                      Combinations(file, cli) # <<>>
               PROVE  ~PlanInvalid(file, Combinations(file, cli))
    BY DEF ValidationAgrees
  <2>1. Accepted(file, cli)
    BY DEF Settled, Accepted
  <2>2. QED
    BY <2>1, ExpansionIsValid
<1>2. QED
  BY <1>1, SettledHolds, PTL

\* The selection a manifest records (main.cc, join_selection), given back as filters,
\* resolves to the recorded combinations, for every file and command line.
THEOREM ReplayCorrect == Spec => []SelectionReplays
<1>1. Settled => SelectionReplays
  <2> SUFFICES ASSUME Settled, Opened PROVE SelectionReplays
    BY DEF SelectionReplays
  <2>1. file \in Files /\ ~ReadFails(file) /\ cli \in CommandLines
        /\ plan = Plan(file, cli) /\ ~PlanFails(file, cli) /\ manifest = Record(file, cli)
    BY DEF Settled, Planned, Opened
  <2>2. Accepted(file, cli) /\ plan.combinations = Combinations(file, cli)
    BY <2>1, PlanIs
  <2>3. /\ manifest.selection = JoinSelection(file, cli)
        /\ manifest.resolved = plan.combinations
    BY <2>1 DEF Record
  <2>4. QED
    BY <2>2, <2>3, ReplayIs DEF SelectionReplays
<1>2. QED
  BY <1>1, SettledHolds, PTL
=============================================================================
