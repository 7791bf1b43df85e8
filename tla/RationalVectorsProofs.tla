------------------------ MODULE RationalVectorsProofs ------------------------
(***************************************************************************)
(* The rationals of RationalVectors are an ordered field and their blocks a *)
(* vector space with a symmetric bilinear pairing, for every size.  The    *)
(* library's induction theorems take a predicate as a parameter; here the  *)
(* induction is over a set of naturals, by its least member.               *)
(***************************************************************************)
EXTENDS RationalVectors, FiniteSets, WellFoundedInduction, TLAPS

-----------------------------------------------------------------------------
(* Induction over data, for sets instead of predicates.                    *)

\* A set of naturals that has a member has a least one.
LEMMA LeastNatural ==
  ASSUME NEW T \in SUBSET Nat, T # {}
  PROVE  \E m \in T : \A k \in T : m <= k
<1>1. PICK m \in T : \A k \in T : <<k, m>> \notin OpToRel(<, Nat)
  BY NatLessThanWellFounded, WFMin
<1>2. ASSUME NEW k \in T PROVE m <= k
  <2>1. <<k, m>> \notin OpToRel(<, Nat)
    BY <1>1
  <2>2. ~(k < m)
    BY <2>1 DEF OpToRel
  <2>3. QED
    BY <2>2
<1>3. QED
  BY <1>2

\* A set with zero and with the successor of each member is all of Nat.
LEMMA SetInduction ==
  ASSUME NEW T \in SUBSET Nat, 0 \in T, \A n \in T : n + 1 \in T
  PROVE  T = Nat
<1>1. SUFFICES ASSUME Nat \ T # {} PROVE FALSE
  OBVIOUS
<1>2. PICK m \in Nat \ T : \A k \in Nat \ T : m <= k
  BY <1>1, LeastNatural
<1>3. m - 1 \in T
  BY <1>2
<1>4. QED
  BY <1>2, <1>3

\* The same within an interval.
LEMMA IntervalInduction ==
  ASSUME NEW n \in Nat, NEW T, 0 \in T, \A i \in 1 .. n : i - 1 \in T => i \in T
  PROVE  0 .. n \subseteq T
<1> DEFINE U == {k \in Nat : k <= n => k \in T}
<1>1. 0 \in U
  OBVIOUS
<1>2. ASSUME NEW k \in U PROVE k + 1 \in U
  <2>1. k + 1 <= n => k + 1 \in 1 .. n /\ (k + 1) - 1 = k /\ k \in T
    OBVIOUS
  <2>2. QED
    BY <2>1
<1>3. U \subseteq Nat
  OBVIOUS
<1> HIDE DEF U
<1>4. U = Nat
  BY <1>1, <1>2, <1>3, SetInduction
<1>5. QED
  BY <1>4 DEF U

-----------------------------------------------------------------------------
(* Greatest common divisors.                                               *)

Divides(g, n) == \E k \in Int : n = g * k

\* The common divisor that is a combination of the two numbers.
IsGcd(g, a, b) ==
  /\ g \in Nat /\ Divides(g, a) /\ Divides(g, b)
  /\ \E x, y \in Int : g = x * a + y * b

\* A common divisor that is a combination of the two numbers is their greatest.
LEMMA GcdIntro ==
  ASSUME NEW g \in Nat, NEW k \in Int, NEW l \in Int, NEW x \in Int, NEW y \in Int,
         g = x * (g * k) + y * (g * l)
  PROVE  IsGcd(g, g * k, g * l)
BY DEF IsGcd, Divides

\* Every number divides zero.
LEMMA GcdOfZero == \A a \in Nat : IsGcd(a, a, 0)
<1>1. TAKE a \in Nat
<1>2. \E k \in Int : a = a * k
  <2>1. WITNESS 1 \in Int
  <2>2. QED
    OBVIOUS
<1>3. \E k \in Int : 0 = a * k
  <2>1. WITNESS 0 \in Int
  <2>2. QED
    OBVIOUS
<1>4. \E x, y \in Int : a = x * a + y * 0
  <2>1. WITNESS 1 \in Int, 0 \in Int
  <2>2. QED
    OBVIOUS
<1>5. QED
  BY <1>2, <1>3, <1>4 DEF IsGcd, Divides

\* A combination of two numbers that is one makes them coprime.
LEMMA GcdOne ==
  ASSUME NEW a \in Int, NEW b \in Int, \E x, y \in Int : 1 = x * a + y * b
  PROVE  IsGcd(1, a, b)
<1>1. a = 1 * a /\ b = 1 * b
  OBVIOUS
<1>2. PICK x \in Int, y \in Int : 1 = x * (1 * a) + y * (1 * b)
  BY <1>1
<1>3. IsGcd(1, 1 * a, 1 * b)
  BY <1>2, GcdIntro
<1>4. QED
  BY <1>1, <1>3

\* Two such numbers divide one another.
LEMMA GcdUnique ==
  ASSUME NEW a \in Int, NEW b \in Int, NEW g, NEW h, IsGcd(g, a, b), IsGcd(h, a, b)
  PROVE  g = h
<1>0. g \in Nat /\ h \in Nat
  BY DEF IsGcd
<1>1. ASSUME NEW u \in Nat, NEW v \in Nat, IsGcd(u, a, b), IsGcd(v, a, b)
      PROVE  \E k \in Int : u = v * k
  <2>1. PICK x \in Int, y \in Int : u = x * a + y * b
    BY <1>1 DEF IsGcd
  <2>2. PICK m \in Int, n \in Int : a = v * m /\ b = v * n
    BY <1>1 DEF IsGcd, Divides
  <2>3. u = v * (x * m + y * n)
    BY <2>1, <2>2
  <2>4. QED
    BY <2>3
<1>2. PICK k \in Int, l \in Int : g = h * k /\ h = g * l
  BY <1>0, <1>1
<1>3. g = g * (l * k)
  BY <1>0, <1>2
<1>4. g = 0 \/ l * k = 1
  <2>1. ASSUME NEW u \in Int, g = g * u PROVE g = 0 \/ u = 1
    BY <1>0, <2>1
  <2>2. QED
    BY <1>3, <2>1
<1>5. CASE g = 0
  BY <1>0, <1>2, <1>5
<1>6. CASE g # 0
  <2>1. h # 0
    BY <1>0, <1>2, <1>6
  <2>2. k > 0 /\ l > 0
    BY <1>0, <1>2, <1>6, <2>1
  <2>3. l = 1
    BY <1>4, <1>6, <2>2
  <2>4. QED
    BY <1>0, <1>2, <2>3
<1>7. QED
  BY <1>5, <1>6

\* The Euclidean step keeps it.
LEMMA GcdStep ==
  ASSUME NEW a \in Nat, NEW b \in Nat, b # 0, NEW g, IsGcd(g, b, a % b)
  PROVE  IsGcd(g, a, b)
<1>1. a = b * (a \div b) + (a % b) /\ a \div b \in Int /\ a % b \in Int
  OBVIOUS
<1> DEFINE d == a \div b
           r == a % b
<1>2. d \in Int /\ r \in Int /\ a = b * d + r
  BY <1>1
<1>3. g \in Nat
  BY DEF IsGcd
<1>4. PICK m \in Int, n \in Int : b = g * m /\ r = g * n
  BY DEF IsGcd, Divides
<1>5. PICK x \in Int, y \in Int : g = x * b + y * r
  BY DEF IsGcd
<1> HIDE DEF d, r
<1>6. a = g * (m * d + n)
  BY <1>2, <1>3, <1>4
<1>7. g = y * a + (x - y * d) * b
  BY <1>2, <1>3, <1>5
<1>8. Divides(g, a) /\ Divides(g, b)
  <2>1. m * d + n \in Int
    BY <1>2
  <2>2. QED
    BY <1>4, <1>6, <2>1 DEF Divides
<1>9. x - y * d \in Int
  BY <1>2
<1>10. QED
  BY <1>3, <1>7, <1>8, <1>9 DEF IsGcd

\* Every pair of naturals has one.
LEMMA GcdExists == \A a, b \in Nat : \E g \in Nat : IsGcd(g, a, b)
<1> DEFINE T == {b \in Nat : \E a \in Nat : \A g \in Nat : ~IsGcd(g, a, b)}
<1>1. SUFFICES ASSUME T # {} PROVE FALSE
  OBVIOUS
<1>2. PICK b \in T : \A k \in T : b <= k
  BY <1>1, LeastNatural
<1>3. PICK a \in Nat : \A g \in Nat : ~IsGcd(g, a, b)
  OBVIOUS
<1>4. b # 0
  BY <1>3, GcdOfZero
<1>5. a % b \in Nat /\ a % b < b
  BY <1>4
<1>6. a % b \notin T
  BY <1>2, <1>5
<1>7. PICK g \in Nat : IsGcd(g, b, a % b)
  BY <1>5, <1>6
<1>8. QED
  BY <1>3, <1>4, <1>7, GcdStep

\* The recursive function is well defined.
LEMMA GcdDef ==
  ASSUME NEW a \in Nat, NEW b \in Nat
  PROVE  Gcd[<<a, b>>] = IF b = 0 THEN a ELSE Gcd[<<b, a % b>>]
<1> DEFINE w == [p \in Nat \X Nat |-> CHOOSE g \in Nat : IsGcd(g, p[1], p[2])]
<1>1. ASSUME NEW m \in Nat, NEW n \in Nat
      PROVE  IsGcd(w[<<m, n>>], m, n)
  BY GcdExists
<1>2. ASSUME NEW m \in Nat, NEW n \in Nat
      PROVE  w[<<m, n>>] = IF n = 0 THEN m ELSE w[<<n, m % n>>]
  <2>1. CASE n = 0
    <3>2. IsGcd(m, m, 0)
      BY GcdOfZero
    <3>3. IsGcd(w[<<m, n>>], m, 0)
      BY <1>1, <2>1
    <3> HIDE DEF w
    <3>4. w[<<m, n>>] = m
      BY <3>2, <3>3, GcdUnique
    <3>5. QED
      BY <2>1, <3>4
  <2>2. CASE n # 0
    <3>1. m % n \in Nat
      BY <2>2
    <3>2. IsGcd(w[<<n, m % n>>], n, m % n)
      BY <1>1, <3>1
    <3>3. IsGcd(w[<<m, n>>], m, n)
      BY <1>1
    <3> HIDE DEF w
    <3>4. IsGcd(w[<<n, m % n>>], m, n)
      BY <2>2, <3>1, <3>2, GcdStep
    <3>5. w[<<m, n>>] = w[<<n, m % n>>]
      BY <3>3, <3>4, GcdUnique
    <3>6. QED
      BY <2>2, <3>5
  <2>3. QED
    BY <2>1, <2>2
<1>3. w = [p \in Nat \X Nat |-> IF p[2] = 0 THEN p[1] ELSE w[<<p[2], p[1] % p[2]>>]]
  <2>1. w = [p \in Nat \X Nat |-> w[p]]
    OBVIOUS
  <2> HIDE DEF w
  <2>2. ASSUME NEW p \in Nat \X Nat
        PROVE  w[p] = IF p[2] = 0 THEN p[1] ELSE w[<<p[2], p[1] % p[2]>>]
    BY <1>2
  <2>3. QED
    BY <2>1, <2>2
<1> HIDE DEF w
<1>4. Gcd = [p \in Nat \X Nat |-> IF p[2] = 0 THEN p[1] ELSE Gcd[<<p[2], p[1] % p[2]>>]]
  BY <1>3 DEF Gcd
<1>5. QED
  BY <1>4

\* Euclid's recursion computes the greatest common divisor.
LEMMA GcdCorrect == \A a, b \in Nat : IsGcd(Gcd[<<a, b>>], a, b)
<1> DEFINE T == {b \in Nat : \E a \in Nat : ~IsGcd(Gcd[<<a, b>>], a, b)}
<1>1. SUFFICES ASSUME T # {} PROVE FALSE
  OBVIOUS
<1>2. PICK b \in T : \A k \in T : b <= k
  BY <1>1, LeastNatural
<1>3. PICK a \in Nat : ~IsGcd(Gcd[<<a, b>>], a, b)
  OBVIOUS
<1>4. CASE b = 0
  BY <1>3, <1>4, GcdDef, GcdOfZero
<1>5. CASE b # 0
  <2>1. a % b \in Nat /\ a % b < b
    BY <1>5
  <2>2. a % b \notin T
    BY <1>2, <2>1
  <2>3. IsGcd(Gcd[<<b, a % b>>], b, a % b)
    BY <2>1, <2>2
  <2>4. IsGcd(Gcd[<<b, a % b>>], a, b)
    BY <1>5, <2>3, GcdStep
  <2>5. QED
    BY <1>3, <1>5, <2>4, GcdDef
<1>6. QED
  BY <1>4, <1>5

-----------------------------------------------------------------------------
(* Rationals as reduced fractions.                                         *)

\* The numerator and denominator of a rational are coprime, by a combination of them.
LEMMA RationalParts ==
  ASSUME NEW r
  PROVE  r \in Rationals <=>
           /\ r = <<r[1], r[2]>> /\ r[1] \in Int /\ r[2] \in Nat /\ r[2] # 0
           /\ \E x, y \in Int : 1 = x * r[1] + y * r[2]
<1>1. ASSUME NEW n \in Int, NEW d \in Nat, d # 0
      PROVE  Gcd[<<Magnitude(n), d>>] = 1 <=> \E x, y \in Int : 1 = x * n + y * d
  <2> DEFINE m == Magnitude(n)
  <2>1. m \in Nat /\ (m = n \/ m = -n)
    BY DEF Magnitude
  <2> HIDE DEF m
  <2>2. IsGcd(Gcd[<<m, d>>], m, d)
    BY <2>1, GcdCorrect
  <2>3. ASSUME NEW x \in Int, NEW y \in Int, 1 = x * n + y * d
        PROVE  \E u, v \in Int : 1 = u * m + v * d
    <3>1. CASE m = n
      BY <2>3, <3>1
    <3>2. CASE m = -n
      <4>1. 1 = (-x) * m + y * d /\ -x \in Int
        BY <2>1, <2>3, <3>2
      <4>2. QED
        BY <4>1
    <3>3. QED
      BY <2>1, <3>1, <3>2
  <2>4. ASSUME NEW x \in Int, NEW y \in Int, 1 = x * m + y * d
        PROVE  \E u, v \in Int : 1 = u * n + v * d
    <3>1. CASE m = n
      BY <2>4, <3>1
    <3>2. CASE m = -n
      <4>1. 1 = (-x) * n + y * d /\ -x \in Int
        BY <2>1, <2>4, <3>2
      <4>2. QED
        BY <4>1
    <3>3. QED
      BY <2>1, <3>1, <3>2
  <2>5. ASSUME \E u, v \in Int : 1 = u * m + v * d PROVE IsGcd(1, m, d)
    BY <2>1, <2>5, GcdOne
  <2>6. Gcd[<<m, d>>] = 1 => \E u, v \in Int : 1 = u * m + v * d
    BY <2>2 DEF IsGcd
  <2>7. (\E u, v \in Int : 1 = u * m + v * d) => Gcd[<<m, d>>] = 1
    BY <2>1, <2>2, <2>5, GcdUnique
  <2>8. QED
    BY <2>3, <2>4, <2>6, <2>7 DEF m
<1>2. r \in Rationals <=> /\ r \in Int \X (Nat \ {0})
                          /\ Gcd[<<Magnitude(r[1]), r[2]>>] = 1
  BY DEF Rationals
<1>3. r \in Int \X (Nat \ {0}) <=>
        r = <<r[1], r[2]>> /\ r[1] \in Int /\ r[2] \in Nat /\ r[2] # 0
  OBVIOUS
<1>4. QED
  BY <1>1, <1>2, <1>3

\* r is the fraction n / d.
Is(r, n, d) == r \in Rationals /\ r[1] * d = n * r[2]

\* Rat reduces a fraction.
LEMMA RatIs ==
  ASSUME NEW n \in Int, NEW d \in Int, d # 0
  PROVE  Is(Rat(n, d), n, d)
<1> DEFINE a == Magnitude(n)
           b == Magnitude(d)
           g == Gcd[<<a, b>>]
           s == IF d < 0 THEN -1 ELSE 1
<1>1. a \in Nat /\ b \in Nat /\ b # 0 /\ s \in {-1, 1} /\ s * d = b /\ (a = n \/ a = -n)
  BY DEF Magnitude
<1>2. IsGcd(g, a, b)
  BY <1>1, GcdCorrect
<1>3. Rat(n, d) = <<(s * n) \div g, (s * d) \div g>>
  BY DEF Rat
<1> HIDE DEF a, b, g, s
<1>4. PICK k \in Int, l \in Int : a = g * k /\ b = g * l
  BY <1>2 DEF IsGcd, Divides
<1>5. PICK x \in Int, y \in Int : g = x * a + y * b
  BY <1>2 DEF IsGcd
<1>6. g \in Nat /\ g # 0
  BY <1>1, <1>2, <1>4 DEF IsGcd
<1>7. l > 0
  BY <1>1, <1>4, <1>6
<1>8. PICK t \in {-1, 1} : s * n = g * (t * k)
  <2>1. s * n = a \/ s * n = -a
    BY <1>1
  <2>2. s * n = g * (1 * k) \/ s * n = g * (-1 * k)
    BY <1>4, <1>6, <2>1
  <2>3. QED
    BY <2>2
<1>9. Rat(n, d) = <<t * k, l>>
  <2>1. ASSUME NEW u \in Int PROVE (g * u) \div g = u
    BY <1>6
  <2>2. QED
    BY <1>1, <1>3, <1>4, <1>8, <2>1
<1>10. \E u, v \in Int : 1 = u * (t * k) + v * l
  <2>1. g * 1 = g * (x * k + y * l)
    BY <1>4, <1>5, <1>6
  <2>2. ASSUME NEW u \in Int, g * 1 = g * u PROVE u = 1
    BY <1>6, <2>2
  <2>3. 1 = x * k + y * l
    BY <2>1, <2>2
  <2>4. 1 = (x * t) * (t * k) + y * l /\ x * t \in Int
    BY <2>3
  <2>5. QED
    BY <2>4
<1>11. Rat(n, d) \in Rationals
  BY <1>7, <1>9, <1>10, RationalParts
<1>12. (t * k) * d = n * l
  <2>1. g * ((t * k) * d) = g * (n * l)
    <3>1. g * ((t * k) * d) = s * n * d
      BY <1>1, <1>6, <1>8
    <3>2. s * n * d = n * b
      BY <1>1
    <3>3. QED
      BY <1>4, <1>6, <3>1, <3>2
  <2>2. ASSUME NEW u \in Int, NEW v \in Int, g * u = g * v PROVE u = v
    BY <1>6, <2>2
  <2>3. QED
    BY <2>1, <2>2
<1>13. QED
  BY <1>9, <1>11, <1>12 DEF Is

\* Equal fractions are equal rationals.
LEMMA SameFraction ==
  ASSUME NEW p \in Rationals, NEW q \in Rationals, p[1] * q[2] = q[1] * p[2]
  PROVE  p = q
<1>1. /\ p = <<p[1], p[2]>> /\ p[1] \in Int /\ p[2] \in Nat /\ p[2] # 0
      /\ q = <<q[1], q[2]>> /\ q[1] \in Int /\ q[2] \in Nat /\ q[2] # 0
  BY RationalParts
<1>2. ASSUME NEW a \in Int, NEW b \in Nat, NEW c \in Int, NEW d \in Nat, a * d = c * b,
             \E x, y \in Int : 1 = x * a + y * b
      PROVE  \E k \in Int : d = b * k
  <2>1. PICK x \in Int, y \in Int : 1 = x * a + y * b
    BY <1>2
  <2>2. d = d * (x * a + y * b)
    BY <2>1
  <2>3. d = b * (x * c + y * d)
    <3>1. d * (x * a + y * b) = x * (a * d) + y * b * d
      OBVIOUS
    <3>2. x * (c * b) + y * b * d = b * (x * c + y * d)
      OBVIOUS
    <3>3. QED
      BY <1>2, <2>2, <3>1, <3>2
  <2>4. QED
    BY <2>3
<1>3. \E k \in Int : q[2] = p[2] * k
  BY <1>1, <1>2, RationalParts
<1>4. \E k \in Int : p[2] = q[2] * k
  BY <1>1, <1>2, RationalParts
<1>5. ASSUME NEW u \in Nat, NEW v \in Nat, u # 0, v # 0, NEW k \in Int, NEW l \in Int,
             u = v * k, v = u * l
      PROVE  u = v
  <2>1. k > 0 /\ l > 0
    BY <1>5
  <2>2. u >= v /\ v >= u
    BY <1>5, <2>1
  <2>3. QED
    BY <2>2
<1>6. p[2] = q[2]
  BY <1>1, <1>3, <1>4, <1>5
<1>7. p[1] = q[1]
  BY <1>1, <1>6
<1>8. QED
  BY <1>1, <1>6, <1>7

-----------------------------------------------------------------------------
(* Rationals are an ordered field.                                         *)

\* An equality of integers may be divided by a number that is not zero.
LEMMA Cancel ==
  ASSUME NEW a \in Int, NEW b \in Int, NEW c \in Int, c # 0, c * a = c * b
  PROVE  a = b
OBVIOUS

\* The integers have no zero divisors.
LEMMA NonZero == \A a, b \in Int : a # 0 /\ b # 0 => a * b \in Int /\ a * b # 0
OBVIOUS

\* Rationals in lowest terms of equal fractions are equal.
LEMMA SameIs ==
  ASSUME NEW p, NEW q, NEW a \in Int, NEW b \in Int, NEW c \in Int, NEW d \in Int,
         b # 0, d # 0, Is(p, a, b), Is(q, c, d), a * d = c * b
  PROVE  p = q
<1>1. /\ p \in Rationals /\ p[1] \in Int /\ p[2] \in Int /\ p[1] * b = a * p[2]
      /\ q \in Rationals /\ q[1] \in Int /\ q[2] \in Int /\ q[1] * d = c * q[2]
  BY RationalParts DEF Is
<1> DEFINE u == p[1] * q[2]
           v == q[1] * p[2]
<1>2. b * d # 0 /\ b * d \in Int
  BY NonZero
<1>3. (b * d) * (p[1] * q[2]) = (p[1] * b) * d * q[2]
  BY <1>1
<1>4. (a * p[2]) * d * q[2] = (c * b) * p[2] * q[2]
  <2>1. (a * p[2]) * d * q[2] = (a * d) * p[2] * q[2]
    BY <1>1
  <2>2. QED
    BY <2>1
<1>5. (c * b) * p[2] * q[2] = (q[1] * d) * b * p[2]
  BY <1>1
<1>6. (q[1] * d) * b * p[2] = (b * d) * (q[1] * p[2])
  BY <1>1
<1>7. (b * d) * u = (b * d) * v /\ u \in Int /\ v \in Int
  BY <1>1, <1>3, <1>4, <1>5, <1>6
<1> HIDE DEF u, v
<1>8. u = v
  BY <1>2, <1>7, Cancel
<1>9. QED
  BY <1>1, <1>8, SameFraction DEF u, v

\* The same rational as another fraction.
LEMMA Rescaled ==
  ASSUME NEW p, NEW a \in Int, NEW b \in Int, NEW c \in Int, NEW d \in Int,
         b # 0, Is(p, a, b), a * d = c * b
  PROVE  Is(p, c, d)
<1>1. p \in Rationals /\ p[1] \in Int /\ p[2] \in Int /\ p[1] * b = a * p[2]
  BY RationalParts DEF Is
<1>2. b * (p[1] * d) = (p[1] * b) * d
  BY <1>1
<1>3. (a * p[2]) * d = (a * d) * p[2]
  BY <1>1
<1>4. (c * b) * p[2] = b * (c * p[2])
  BY <1>1
<1> DEFINE u == p[1] * d
           v == c * p[2]
<1>5. b * u = b * v /\ u \in Int /\ v \in Int
  BY <1>1, <1>2, <1>3, <1>4
<1> HIDE DEF u, v
<1>6. u = v
  BY <1>5, Cancel
<1>7. QED
  BY <1>1, <1>6 DEF Is, u, v

\* A rational is in the lowest terms of itself.
LEMMA OwnFraction ==
  ASSUME NEW p \in Rationals
  PROVE  p[1] \in Int /\ p[2] \in Int /\ p[2] > 0 /\ Is(p, p[1], p[2])
BY RationalParts DEF Is

\* Sum2 adds fractions, though it divides by the common divisor first.
LEMMA SumIs ==
  ASSUME NEW p \in Rationals, NEW q \in Rationals
  PROVE  Is(Sum2(p, q), p[1] * q[2] + q[1] * p[2], p[2] * q[2])
<1> DEFINE g == Gcd[<<p[2], q[2]>>]
<1>1. /\ p[1] \in Int /\ p[2] \in Nat /\ p[2] # 0
      /\ q[1] \in Int /\ q[2] \in Nat /\ q[2] # 0
  BY RationalParts
<1>2. IsGcd(g, p[2], q[2])
  BY <1>1, GcdCorrect
<1>3. Sum2(p, q) = Rat(p[1] * (q[2] \div g) + q[1] * (p[2] \div g), p[2] * (q[2] \div g))
  BY DEF Sum2
<1> HIDE DEF g
<1>4. PICK k \in Int, l \in Int : p[2] = g * k /\ q[2] = g * l
  BY <1>2 DEF IsGcd, Divides
<1>5. g \in Nat /\ g # 0
  BY <1>1, <1>2, <1>4 DEF IsGcd
<1>6. p[2] \div g = k /\ q[2] \div g = l /\ l # 0
  BY <1>1, <1>4, <1>5
<1> DEFINE n == p[1] * l + q[1] * k
           d == p[2] * l
<1>7. n \in Int /\ d \in Int /\ d # 0
  BY <1>1, <1>6, NonZero
<1>8. Is(Sum2(p, q), n, d)
  BY <1>3, <1>6, <1>7, RatIs
<1>9. n * (p[2] * q[2]) = (p[1] * q[2] + q[1] * p[2]) * d
  <2>1. \A a, b, c, e, h, i \in Int :
          (a * i + c * h) * ((e * h) * (e * i)) = (a * (e * i) + c * (e * h)) * ((e * h) * i)
    OBVIOUS
  <2>2. QED
    BY <1>1, <1>4, <1>5, <2>1
<1>10. p[2] * q[2] \in Int /\ p[1] * q[2] + q[1] * p[2] \in Int
  BY <1>1
<1> HIDE DEF n, d
<1>11. QED
  BY <1>7, <1>8, <1>9, <1>10, Rescaled

\* Product multiplies fractions.
LEMMA ProductIs ==
  ASSUME NEW p \in Rationals, NEW q \in Rationals
  PROVE  Is(Product(p, q), p[1] * q[1], p[2] * q[2])
<1>1. /\ p[1] \in Int /\ p[2] \in Int /\ p[2] # 0
      /\ q[1] \in Int /\ q[2] \in Int /\ q[2] # 0
  BY RationalParts
<1> DEFINE n == p[1] * q[1]
           d == p[2] * q[2]
<1>2. /\ n \in Int
      /\ d \in Int /\ d # 0
  <2>1. n \in Int
    BY <1>1
  <2>2. d \in Int /\ d # 0
    BY <1>1, NonZero
  <2>3. QED
    BY <2>1, <2>2
<1>3. Product(p, q) = Rat(n, d)
  BY DEF Product
<1> HIDE DEF n, d
<1>4. Is(Product(p, q), n, d)
  BY <1>2, <1>3, RatIs
<1>5. QED
  BY <1>4 DEF n, d

\* Negated changes the sign of the numerator.
LEMMA NegatedIs ==
  ASSUME NEW p \in Rationals
  PROVE  Is(Negated(p), -p[1], p[2])
<1>1. p[1] \in Int /\ p[2] \in Nat /\ p[2] # 0
  BY RationalParts
<1>2. PICK x \in Int, y \in Int : 1 = x * p[1] + y * p[2]
  BY RationalParts
<1>3. 1 = (-x) * (-p[1]) + y * p[2] /\ -x \in Int /\ -p[1] \in Int
  BY <1>1, <1>2
<1>4. Negated(p) = <<-p[1], p[2]>>
  BY DEF Negated
<1>5. Negated(p) \in Rationals
  BY <1>1, <1>3, <1>4, RationalParts
<1>6. QED
  BY <1>4, <1>5 DEF Is

\* Zero is in lowest terms.
LEMMA ZeroIs == Zero \in Rationals
<1>1. \E x, y \in Int : 1 = x * 0 + y * 1
  <2>1. WITNESS 0 \in Int, 1 \in Int
  <2>2. QED
    OBVIOUS
<1> DEFINE z == Zero
<1>2. z = <<0, 1>> /\ z[1] = 0 /\ z[2] = 1
  BY DEF Zero
<1> HIDE DEF z
<1>3. \E x, y \in Int : 1 = x * z[1] + y * z[2]
  BY <1>1, <1>2
<1>4. z = <<z[1], z[2]>> /\ z[1] \in Int /\ z[2] \in Nat /\ z[2] # 0
  BY <1>2
<1>5. z \in Rationals
  BY <1>3, <1>4, RationalParts
<1>6. QED
  BY <1>5 DEF z

\* One is in lowest terms.
LEMMA OneIs == One \in Rationals
<1>1. \E x, y \in Int : 1 = x * 1 + y * 1
  <2>1. WITNESS 0 \in Int, 1 \in Int
  <2>2. QED
    OBVIOUS
<1> DEFINE z == One
<1>2. z = <<1, 1>> /\ z[1] = 1 /\ z[2] = 1
  BY DEF One
<1> HIDE DEF z
<1>3. \E x, y \in Int : 1 = x * z[1] + y * z[2]
  BY <1>1, <1>2
<1>4. z = <<z[1], z[2]>> /\ z[1] \in Int /\ z[2] \in Nat /\ z[2] # 0
  BY <1>2
<1>5. z \in Rationals
  BY <1>3, <1>4, RationalParts
<1>6. QED
  BY <1>5 DEF z

\* Inverted swaps numerator and denominator.
LEMMA InvertedIs ==
  ASSUME NEW p \in Rationals, p # Zero
  PROVE  p[1] # 0 /\ Is(Inverted(p), p[2], p[1])
<1>1. p[1] \in Int /\ p[2] \in Nat /\ p[2] # 0
  BY RationalParts
<1>3. p[1] # 0
  BY <1>1, ZeroIs, SameFraction DEF Zero
<1>4. QED
  BY <1>1, <1>3, RatIs DEF Inverted

\* The operations on fractions, whatever fractions the arguments are.
LEMMA SumOf ==
  ASSUME NEW p, NEW q, NEW a \in Int, NEW b \in Int, NEW c \in Int, NEW d \in Int,
         b # 0, d # 0, Is(p, a, b), Is(q, c, d)
  PROVE  b * d # 0 /\ Is(Sum2(p, q), a * d + c * b, b * d)
<1>1. /\ p \in Rationals /\ p[1] \in Int /\ p[2] \in Int /\ p[2] # 0 /\ p[1] * b = a * p[2]
      /\ q \in Rationals /\ q[1] \in Int /\ q[2] \in Int /\ q[2] # 0 /\ q[1] * d = c * q[2]
  BY RationalParts DEF Is
<1> DEFINE n == p[1] * q[2] + q[1] * p[2]
           m == p[2] * q[2]
<1>2. n \in Int /\ m \in Int /\ m # 0 /\ b * d # 0 /\ b * d \in Int /\ a * d + c * b \in Int
  <2>1. p[1] \in Int /\ p[2] \in Int /\ q[1] \in Int /\ q[2] \in Int /\ p[2] # 0 /\ q[2] # 0
    BY <1>1
  <2>2. m \in Int /\ m # 0
    BY <2>1, NonZero
  <2>3. n \in Int /\ a * d + c * b \in Int
    BY <2>1
  <2>4. b * d \in Int /\ b * d # 0
    BY NonZero
  <2>5. QED
    BY <2>2, <2>3, <2>4
<1>3. Is(Sum2(p, q), n, m)
  BY <1>1, SumIs
<1>4. n * (b * d) = (a * d + c * b) * m
  <2>1. n * (b * d) = (p[1] * b) * (q[2] * d) + (q[1] * d) * (p[2] * b)
    BY <1>1
  <2>2. (a * p[2]) * (q[2] * d) + (c * q[2]) * (p[2] * b) = (a * d + c * b) * m
    BY <1>1
  <2>3. QED
    BY <1>1, <2>1, <2>2
<1> HIDE DEF n, m
<1>5. QED
  BY <1>2, <1>3, <1>4, Rescaled

\* The product of two reduced fractions.
LEMMA ProductOf ==
  ASSUME NEW p, NEW q, NEW a \in Int, NEW b \in Int, NEW c \in Int, NEW d \in Int,
         b # 0, d # 0, Is(p, a, b), Is(q, c, d)
  PROVE  b * d # 0 /\ Is(Product(p, q), a * c, b * d)
<1>1. /\ p \in Rationals /\ p[1] \in Int /\ p[2] \in Int /\ p[2] # 0 /\ p[1] * b = a * p[2]
      /\ q \in Rationals /\ q[1] \in Int /\ q[2] \in Int /\ q[2] # 0 /\ q[1] * d = c * q[2]
  BY RationalParts DEF Is
<1> DEFINE n == p[1] * q[1]
           m == p[2] * q[2]
<1>2. n \in Int /\ m \in Int /\ m # 0 /\ b * d # 0 /\ b * d \in Int /\ a * c \in Int
  <2>1. p[1] \in Int /\ p[2] \in Int /\ q[1] \in Int /\ q[2] \in Int /\ p[2] # 0 /\ q[2] # 0
    BY <1>1
  <2>2. m \in Int /\ m # 0
    BY <2>1, NonZero
  <2>3. n \in Int /\ a * c \in Int
    BY <2>1
  <2>4. b * d \in Int /\ b * d # 0
    BY NonZero
  <2>5. QED
    BY <2>2, <2>3, <2>4
<1>3. Is(Product(p, q), n, m)
  BY <1>1, ProductIs
<1>4. n * (b * d) = (a * c) * m
  <2>1. n * (b * d) = (p[1] * b) * (q[1] * d)
    BY <1>1
  <2>2. (a * p[2]) * (c * q[2]) = (a * c) * m
    BY <1>1
  <2>3. QED
    BY <1>1, <2>1, <2>2
<1> HIDE DEF n, m
<1>5. QED
  BY <1>2, <1>3, <1>4, Rescaled

\* The operations stay among the rationals.
LEMMA Closed ==
  /\ Zero \in Rationals /\ One \in Rationals
  /\ \A p, q \in Rationals : Sum2(p, q) \in Rationals /\ Product(p, q) \in Rationals
                             /\ Difference(p, q) \in Rationals
  /\ \A p \in Rationals : Negated(p) \in Rationals
  /\ \A p, q \in Rationals : q # Zero => Inverted(q) \in Rationals /\ Quotient(p, q) \in Rationals
<1>1. \A p, q \in Rationals : Sum2(p, q) \in Rationals /\ Product(p, q) \in Rationals
  BY SumIs, ProductIs DEF Is
<1>2. \A p \in Rationals : Negated(p) \in Rationals
  BY NegatedIs DEF Is
<1>3. \A p, q \in Rationals : Difference(p, q) \in Rationals
  BY <1>1, <1>2 DEF Difference
<1>4. \A q \in Rationals : q # Zero => Inverted(q) \in Rationals
  BY InvertedIs DEF Is
<1>5. \A p, q \in Rationals : q # Zero => Quotient(p, q) \in Rationals
  BY <1>1, <1>4 DEF Quotient
<1>6. QED
  BY <1>1, <1>2, <1>3, <1>4, <1>5, ZeroIs, OneIs

\* Sums and products alone: the instance the lemmas below need most.
LEMMA FieldClosed ==
  \A p, q \in Rationals : Sum2(p, q) \in Rationals /\ Product(p, q) \in Rationals
BY Closed

\* Sums commute.
LEMMA SumCommutes == \A p, q \in Rationals : Sum2(p, q) = Sum2(q, p)
<1>1. TAKE p, q \in Rationals
<1>2. /\ p[1] \in Int /\ p[2] \in Int /\ q[1] \in Int /\ q[2] \in Int
      /\ p[2] # 0 /\ q[2] # 0
  BY RationalParts
<1> DEFINE n == p[1] * q[2] + q[1] * p[2]
           d == p[2] * q[2]
<1>3. n \in Int /\ d \in Int /\ d # 0
  <2>1. d \in Int /\ d # 0
    BY <1>2, NonZero
  <2>2. n \in Int
    BY <1>2
  <2>3. QED
    BY <2>1, <2>2
<1>4. Is(Sum2(p, q), n, d)
  BY SumIs
<1>5. n = q[1] * p[2] + p[1] * q[2] /\ d = q[2] * p[2]
  BY <1>2
<1> HIDE DEF n, d
<1>6. Is(Sum2(q, p), n, d)
  BY <1>5, SumIs
<1>7. QED
  BY <1>3, <1>4, <1>6, SameIs

\* Products commute.
LEMMA ProductCommutes == \A p, q \in Rationals : Product(p, q) = Product(q, p)
<1>1. TAKE p, q \in Rationals
<1>2. /\ p[1] \in Int /\ p[2] \in Int /\ q[1] \in Int /\ q[2] \in Int
      /\ p[2] # 0 /\ q[2] # 0
  BY RationalParts
<1> DEFINE n == p[1] * q[1]
           d == p[2] * q[2]
<1>3. n \in Int /\ d \in Int /\ d # 0
  <2>1. d \in Int /\ d # 0
    BY <1>2, NonZero
  <2>2. n \in Int
    BY <1>2
  <2>3. QED
    BY <2>1, <2>2
<1>4. Is(Product(p, q), n, d)
  BY ProductIs
<1>5. n = q[1] * p[1] /\ d = q[2] * p[2]
  BY <1>2
<1> HIDE DEF n, d
<1>6. Is(Product(q, p), n, d)
  BY <1>5, ProductIs
<1>7. QED
  BY <1>3, <1>4, <1>6, SameIs

\* Sums associate.
LEMMA SumAssociates ==
  \A p, q, r \in Rationals : Sum2(Sum2(p, q), r) = Sum2(p, Sum2(q, r))
<1>1. TAKE p, q, r \in Rationals
<1>2. PICK a \in Int, b \in Int, c \in Int, d \in Int, e \in Int, f \in Int :
        b # 0 /\ d # 0 /\ f # 0 /\ Is(p, a, b) /\ Is(q, c, d) /\ Is(r, e, f)
  BY OwnFraction
<1>3. /\ b * d # 0 /\ b * d \in Int /\ Is(Sum2(p, q), a * d + c * b, b * d)
      /\ d * f # 0 /\ d * f \in Int /\ Is(Sum2(q, r), c * f + e * d, d * f)
      /\ a * d + c * b \in Int /\ c * f + e * d \in Int
  BY <1>2, SumOf
<1> DEFINE x == a * d + c * b
           y == c * f + e * d
           u == b * d
           v == d * f
<1>4. x \in Int /\ y \in Int /\ u \in Int /\ v \in Int /\ u # 0 /\ v # 0
      /\ Is(Sum2(p, q), x, u) /\ Is(Sum2(q, r), y, v)
  BY <1>3
<1>5. (x * f + e * u) * (b * v) = (a * v + y * b) * (u * f)
  OBVIOUS
<1> HIDE DEF x, y, u, v
<1>6. /\ u * f # 0 /\ Is(Sum2(Sum2(p, q), r), x * f + e * u, u * f)
      /\ b * v # 0 /\ Is(Sum2(p, Sum2(q, r)), a * v + y * b, b * v)
  BY <1>2, <1>4, SumOf
<1>7. x * f + e * u \in Int /\ u * f \in Int /\ a * v + y * b \in Int /\ b * v \in Int
  BY <1>4
<1>8. QED
  BY <1>5, <1>6, <1>7, SameIs

\* Products associate.
LEMMA ProductAssociates ==
  \A p, q, r \in Rationals : Product(Product(p, q), r) = Product(p, Product(q, r))
<1>1. TAKE p, q, r \in Rationals
<1>2. PICK a \in Int, b \in Int, c \in Int, d \in Int, e \in Int, f \in Int :
        b # 0 /\ d # 0 /\ f # 0 /\ Is(p, a, b) /\ Is(q, c, d) /\ Is(r, e, f)
  BY OwnFraction
<1> DEFINE x == a * c
           y == c * e
           u == b * d
           v == d * f
<1>4. x \in Int /\ y \in Int /\ u \in Int /\ v \in Int /\ u # 0 /\ v # 0
      /\ Is(Product(p, q), x, u) /\ Is(Product(q, r), y, v)
  BY <1>2, ProductOf
<1>5. (x * e) * (b * v) = (a * y) * (u * f)
  OBVIOUS
<1> HIDE DEF x, y, u, v
<1>6. /\ u * f # 0 /\ Is(Product(Product(p, q), r), x * e, u * f)
      /\ b * v # 0 /\ Is(Product(p, Product(q, r)), a * y, b * v)
  BY <1>2, <1>4, ProductOf
<1>7. x * e \in Int /\ u * f \in Int /\ a * y \in Int /\ b * v \in Int
  BY <1>4
<1>8. QED
  BY <1>5, <1>6, <1>7, SameIs

\* Products distribute over sums.
LEMMA Distributes ==
  \A p, q, r \in Rationals :
    Product(p, Sum2(q, r)) = Sum2(Product(p, q), Product(p, r))
<1>1. TAKE p, q, r \in Rationals
<1>2. PICK a \in Int, b \in Int, c \in Int, d \in Int, e \in Int, f \in Int :
        b # 0 /\ d # 0 /\ f # 0 /\ Is(p, a, b) /\ Is(q, c, d) /\ Is(r, e, f)
  BY OwnFraction
<1> DEFINE x == a * c
           y == a * e
           u == b * d
           v == b * f
           s == c * f + e * d
           w == d * f
<1>4. /\ x \in Int /\ y \in Int /\ u \in Int /\ v \in Int /\ s \in Int /\ w \in Int
      /\ u # 0 /\ v # 0 /\ w # 0
      /\ Is(Product(p, q), x, u) /\ Is(Product(p, r), y, v) /\ Is(Sum2(q, r), s, w)
  BY <1>2, ProductOf, SumOf
<1>5. (a * s) * (u * v) = (x * v + y * u) * (b * w)
  OBVIOUS
<1> HIDE DEF x, y, u, v, s, w
<1>6. /\ b * w # 0 /\ Is(Product(p, Sum2(q, r)), a * s, b * w)
      /\ u * v # 0 /\ Is(Sum2(Product(p, q), Product(p, r)), x * v + y * u, u * v)
  BY <1>2, <1>4, ProductOf, SumOf
<1>7. a * s \in Int /\ b * w \in Int /\ x * v + y * u \in Int /\ u * v \in Int
  BY <1>4
<1>8. QED
  BY <1>5, <1>6, <1>7, SameIs

\* Zero and one are neutral, and a negated rational is the opposite one.
LEMMA Neutral ==
  ASSUME NEW p \in Rationals
  PROVE  /\ Sum2(p, Zero) = p /\ Sum2(Zero, p) = p
         /\ Product(p, One) = p /\ Product(One, p) = p
         /\ Product(p, Zero) = Zero /\ Product(Zero, p) = Zero
         /\ Sum2(p, Negated(p)) = Zero /\ Difference(p, p) = Zero
         /\ Product(Minus1, p) = Negated(p) /\ Minus1 \in Rationals
<1>1. PICK a \in Int, b \in Int : b # 0 /\ Is(p, a, b)
  BY OwnFraction
<1>2. Is(Zero, 0, 1) /\ Is(One, 1, 1) /\ Is(Minus1, -1, 1)
  <2>1. Is(Zero, 0, 1) /\ Is(One, 1, 1)
    BY ZeroIs, OneIs DEF Is, Zero, One
  <2>2. QED
    BY <2>1, RatIs DEF Minus1
<1>3. Sum2(p, Zero) = p
  <2>1. Is(Sum2(p, Zero), a * 1 + 0 * b, b * 1) /\ b * 1 # 0
    BY <1>1, <1>2, SumOf
  <2>2. QED
    BY <1>1, <2>1, SameIs
<1>4. Product(p, One) = p
  <2>1. Is(Product(p, One), a * 1, b * 1) /\ b * 1 # 0
    BY <1>1, <1>2, ProductOf
  <2>2. QED
    BY <1>1, <2>1, SameIs
<1>5. Product(p, Zero) = Zero
  <2>1. Is(Product(p, Zero), a * 0, b * 1) /\ b * 1 # 0
    BY <1>1, <1>2, ProductOf
  <2>2. QED
    BY <1>1, <1>2, <2>1, SameIs
<1>6. Is(Negated(p), -a, b)
  <2>1. Is(Negated(p), -p[1], p[2]) /\ p[1] \in Int /\ p[2] \in Int /\ p[2] # 0
    BY NegatedIs, OwnFraction
  <2>2. p[1] * b = a * p[2]
    BY <1>1 DEF Is
  <2>3. (-p[1]) * b = (-a) * p[2] /\ -p[1] \in Int /\ -a \in Int
    BY <2>1, <2>2
  <2>4. QED
    BY <2>1, <2>3, Rescaled
<1>7. Sum2(p, Negated(p)) = Zero
  <2>1. Is(Sum2(p, Negated(p)), a * b + (-a) * b, b * b) /\ b * b # 0
    BY <1>1, <1>6, SumOf
  <2>2. a * b + (-a) * b = 0 /\ b * b \in Int
    OBVIOUS
  <2>3. Is(Sum2(p, Negated(p)), 0, b * b)
    BY <2>1, <2>2
  <2>4. QED
    BY <1>2, <2>1, <2>2, <2>3, SameIs
<1>8. Product(Minus1, p) = Negated(p)
  <2>1. Is(Product(Minus1, p), (-1) * a, 1 * b) /\ 1 * b # 0
    BY <1>1, <1>2, ProductOf
  <2>2. QED
    BY <1>1, <1>6, <2>1, SameIs
<1>9. Minus1 \in Rationals
  BY <1>2 DEF Is
<1>10. QED
  BY <1>3, <1>4, <1>5, <1>7, <1>8, <1>9, SumCommutes, ProductCommutes, ZeroIs, OneIs
     DEF Difference

\* A quotient times the divisor is the dividend.
LEMMA QuotientProduct ==
  ASSUME NEW p \in Rationals, NEW q \in Rationals, q # Zero
  PROVE  Product(Quotient(p, q), q) = p
<1>1. /\ q[1] \in Int /\ q[2] \in Int /\ q[1] # 0 /\ q[2] # 0
      /\ Is(Inverted(q), q[2], q[1]) /\ Is(q, q[1], q[2])
  BY InvertedIs, OwnFraction
<1> DEFINE a == q[1]
           b == q[2]
<1>2. a \in Int /\ b \in Int /\ a # 0 /\ b # 0 /\ Is(Inverted(q), b, a) /\ Is(q, a, b)
  BY <1>1
<1> HIDE DEF a, b
<1>3. Is(Product(Inverted(q), q), b * a, a * b) /\ a * b # 0
  BY <1>2, ProductOf
<1>4. Product(Inverted(q), q) = One
  <2>1. Is(One, 1, 1)
    BY OneIs DEF Is, One
  <2>2. (b * a) * 1 = 1 * (a * b) /\ b * a \in Int /\ a * b \in Int
    BY <1>2
  <2>3. QED
    BY <1>3, <2>1, <2>2, SameIs
<1>5. QED
  BY <1>4, Closed, ProductAssociates, Neutral DEF Quotient

-----------------------------------------------------------------------------
(* Signs.                                                                  *)

NonNegative(p) == p[1] >= 0

\* A reduced fraction has the sign of any of its fractions.
LEMMA SignOf ==
  ASSUME NEW p, NEW a \in Int, NEW b \in Int, b > 0, Is(p, a, b)
  PROVE  /\ Positive(p) <=> a > 0
         /\ NonNegative(p) <=> a >= 0
         /\ p = Zero <=> a = 0
<1>1. p \in Rationals /\ p[1] \in Int /\ p[2] \in Int /\ p[2] > 0 /\ p[1] * b = a * p[2]
  BY OwnFraction DEF Is
<1>2. ASSUME NEW x \in Int, NEW y \in Int, y > 0, x * b = a * y
      PROVE  (x > 0 <=> a > 0) /\ (x >= 0 <=> a >= 0) /\ (x = 0 <=> a = 0)
  <2>1. x > 0 => a > 0
    <3>1. x > 0 => x * b > 0
      OBVIOUS
    <3>2. a <= 0 => a * y <= 0
      BY <1>2
    <3>3. QED
      BY <1>2, <3>1, <3>2
  <2>2. a > 0 => x > 0
    <3>1. a > 0 => a * y > 0
      BY <1>2
    <3>2. x <= 0 => x * b <= 0
      OBVIOUS
    <3>3. QED
      BY <1>2, <3>1, <3>2
  <2>3. x < 0 => a < 0
    <3>1. x < 0 => x * b < 0
      OBVIOUS
    <3>2. a >= 0 => a * y >= 0
      BY <1>2
    <3>3. QED
      BY <1>2, <3>1, <3>2
  <2>4. a < 0 => x < 0
    <3>1. a < 0 => a * y < 0
      BY <1>2
    <3>2. x >= 0 => x * b >= 0
      OBVIOUS
    <3>3. QED
      BY <1>2, <3>1, <3>2
  <2>5. QED
    BY <2>1, <2>2, <2>3, <2>4
<1>3. p = Zero <=> p[1] = 0
  <2>1. Zero \in Rationals /\ Zero[1] = 0 /\ Zero[2] = 1
    BY ZeroIs DEF Zero
  <2>2. p[1] = 0 => p[1] * Zero[2] = Zero[1] * p[2]
    BY <1>1, <2>1
  <2>3. QED
    BY <1>1, <2>1, <2>2, SameFraction
<1>4. QED
  BY <1>1, <1>2, <1>3 DEF Positive, NonNegative

\* Every rational is zero, positive or negative.
LEMMA Signs ==
  ASSUME NEW p \in Rationals
  PROVE  /\ p = Zero \/ Positive(p) \/ Positive(Negated(p))
         /\ NonNegative(p) <=> p = Zero \/ Positive(p)
         /\ NonNegative(p) <=> ~Positive(Negated(p))
         /\ Positive(p) => p # Zero /\ ~Positive(Negated(p))
         /\ Negated(p) = Zero <=> p = Zero
         /\ Negated(Negated(p)) = p
<1>1. p[1] \in Int /\ p[2] \in Int /\ p[2] > 0 /\ Is(p, p[1], p[2]) /\ -p[1] \in Int
  BY OwnFraction
<1>2. Is(Negated(p), -p[1], p[2])
  BY NegatedIs
<1>3. /\ Positive(p) <=> p[1] > 0
      /\ NonNegative(p) <=> p[1] >= 0
      /\ p = Zero <=> p[1] = 0
  BY <1>1, SignOf
<1>4. /\ Positive(Negated(p)) <=> -p[1] > 0
      /\ Negated(p) = Zero <=> -p[1] = 0
  BY <1>1, <1>2, SignOf
<1>5. Negated(Negated(p)) = p
  <2>1. p = <<p[1], p[2]>>
    BY RationalParts
  <2>2. -(-p[1]) = p[1]
    BY <1>1
  <2>3. QED
    BY <2>1, <2>2 DEF Negated
<1>6. QED
  BY <1>1, <1>3, <1>4, <1>5

\* Sums keep signs.
LEMMA SumSigns ==
  ASSUME NEW p \in Rationals, NEW q \in Rationals, NonNegative(p), NonNegative(q)
  PROVE  /\ NonNegative(Sum2(p, q))
         /\ Positive(p) \/ Positive(q) => Positive(Sum2(p, q))
<1> DEFINE a == p[1]
           b == p[2]
           c == q[1]
           d == q[2]
<1>1. /\ a \in Int /\ b \in Int /\ b > 0 /\ a >= 0
      /\ c \in Int /\ d \in Int /\ d > 0 /\ c >= 0
      /\ Positive(p) <=> a > 0
      /\ Positive(q) <=> c > 0
      /\ Is(Sum2(p, q), a * d + c * b, b * d)
  BY OwnFraction, SumIs DEF Positive, NonNegative
<1> HIDE DEF a, b, c, d
<1>2. /\ a * d >= 0 /\ c * b >= 0 /\ b * d > 0
      /\ a > 0 => a * d > 0
      /\ c > 0 => c * b > 0
      /\ a * d \in Int /\ c * b \in Int /\ b * d \in Int
  BY <1>1
<1> DEFINE n == a * d
           m == c * b
           e == b * d
<1>3. Is(Sum2(p, q), n + m, e) /\ e > 0 /\ e \in Int /\ n + m \in Int
  BY <1>1, <1>2
<1>4. n \in Int /\ m \in Int /\ n >= 0 /\ m >= 0 /\ (a > 0 => n > 0) /\ (c > 0 => m > 0)
  BY <1>2
<1> HIDE DEF n, m, e
<1>5. (Positive(Sum2(p, q)) <=> n + m > 0) /\ (NonNegative(Sum2(p, q)) <=> n + m >= 0)
  BY <1>3, SignOf
<1>6. QED
  BY <1>1, <1>4, <1>5

\* Products keep signs, and squares are not negative.
LEMMA ProductSigns ==
  ASSUME NEW p \in Rationals, NEW q \in Rationals
  PROVE  /\ NonNegative(p) /\ NonNegative(q) => NonNegative(Product(p, q))
         /\ Positive(p) /\ Positive(q) => Positive(Product(p, q))
         /\ Product(p, q) = Zero <=> p = Zero \/ q = Zero
         /\ NonNegative(Product(p, p))
         /\ p # Zero => Positive(Product(p, p))
<1> DEFINE a == p[1]
           b == p[2]
           c == q[1]
           d == q[2]
<1>1. /\ a \in Int /\ b \in Int /\ b > 0 /\ c \in Int /\ d \in Int /\ d > 0
      /\ Is(p, a, b) /\ Is(q, c, d)
      /\ Is(Product(p, q), a * c, b * d) /\ Is(Product(p, p), a * a, b * b)
  BY OwnFraction, ProductIs
<1> HIDE DEF a, b, c, d
<1>2. /\ Positive(p) <=> a > 0
      /\ Positive(q) <=> c > 0
      /\ NonNegative(p) <=> a >= 0
      /\ NonNegative(q) <=> c >= 0
      /\ p = Zero <=> a = 0
      /\ q = Zero <=> c = 0
  BY <1>1, SignOf
<1> DEFINE m == a * c
           n == b * d
           s == a * a
           t == b * b
<1>3. n \in Int /\ n > 0 /\ t \in Int /\ t > 0
  BY <1>1
<1>4. /\ m \in Int /\ s \in Int /\ s >= 0
      /\ a # 0 => s > 0
      /\ a >= 0 /\ c >= 0 => m >= 0
      /\ a > 0 /\ c > 0 => m > 0
      /\ a = 0 \/ c = 0 => m = 0
  BY <1>1
<1>5. m = 0 => a = 0 \/ c = 0
  BY <1>1, NonZero
<1>6. Is(Product(p, q), m, n) /\ Is(Product(p, p), s, t)
  BY <1>1
<1> HIDE DEF m, n, s, t
<1>7. /\ Positive(Product(p, q)) <=> m > 0
      /\ NonNegative(Product(p, q)) <=> m >= 0
      /\ Product(p, q) = Zero <=> m = 0
      /\ Positive(Product(p, p)) <=> s > 0
      /\ NonNegative(Product(p, p)) <=> s >= 0
  BY <1>3, <1>4, <1>6, SignOf
<1>8. QED
  BY <1>2, <1>4, <1>5, <1>7

\* A comparison is the sign of a difference.
LEMMA AtMostSign ==
  ASSUME NEW p \in Rationals, NEW q \in Rationals
  PROVE  /\ AtMost(p, q) <=> ~Positive(Difference(p, q))
         /\ Sum2(Difference(p, q), q) = p
<1>1. Difference(p, q)[1] \in Int
  BY Closed, OwnFraction
<1>2. Sum2(Negated(q), q) = Zero
  BY Neutral, Closed, SumCommutes
<1>3. AtMost(p, q) <=> ~Positive(Difference(p, q))
  BY <1>1 DEF AtMost, Positive
<1>4. Sum2(Difference(p, q), q) = Sum2(p, Sum2(Negated(q), q))
  BY Closed, SumAssociates DEF Difference
<1>5. QED
  BY <1>2, <1>3, <1>4, Neutral

\* What is more than a number that is not negative is positive.
LEMMA AboveNonNegative ==
  ASSUME NEW p \in Rationals, NEW q \in Rationals, NonNegative(q), ~AtMost(p, q)
  PROVE  Positive(p)
BY AtMostSign, SumSigns, Signs, Closed

\* A sign may be taken out of a product.
LEMMA NegatedProduct ==
  ASSUME NEW p \in Rationals, NEW q \in Rationals
  PROVE  /\ Product(Negated(p), q) = Negated(Product(p, q))
         /\ Product(p, Negated(q)) = Negated(Product(p, q))
<1>1. ASSUME NEW u \in Rationals, NEW v \in Rationals
      PROVE  Product(Negated(u), v) = Negated(Product(u, v))
  <2>1. Minus1 \in Rationals /\ Product(u, v) \in Rationals
    BY Neutral, FieldClosed
  <2>2. Negated(u) = Product(Minus1, u) /\ Negated(Product(u, v)) = Product(Minus1, Product(u, v))
    BY <2>1, Neutral
  <2>3. QED
    BY <2>1, <2>2, ProductAssociates
<1>2. Product(p, Negated(q)) = Product(Negated(q), p) /\ Product(q, p) = Product(p, q)
  BY Closed, ProductCommutes
<1>3. QED
  BY <1>1, <1>2

\* The negative of a sum.
LEMMA NegatedSum ==
  ASSUME NEW p \in Rationals, NEW q \in Rationals
  PROVE  Negated(Sum2(p, q)) = Sum2(Negated(p), Negated(q))
<1>1. Minus1 \in Rationals /\ Sum2(p, q) \in Rationals
  BY Neutral, FieldClosed
<1>2. Negated(Sum2(p, q)) = Product(Minus1, Sum2(p, q))
  BY <1>1, Neutral
<1>3. Negated(p) = Product(Minus1, p) /\ Negated(q) = Product(Minus1, q)
  BY Neutral
<1>4. QED
  BY <1>1, <1>2, <1>3, Distributes

\* Products distribute over sums from the right.
LEMMA DistributesRight ==
  \A p, q, r \in Rationals :
    Product(Sum2(q, r), p) = Sum2(Product(q, p), Product(r, p))
<1>1. TAKE p, q, r \in Rationals
<1>2. Product(Sum2(q, r), p) = Product(p, Sum2(q, r))
  BY FieldClosed, ProductCommutes
<1>3. Product(q, p) = Product(p, q) /\ Product(r, p) = Product(p, r)
  BY ProductCommutes
<1>4. QED
  BY <1>2, <1>3, Distributes

\* (p q) r = (p r) q
LEMMA ProductSwap ==
  ASSUME NEW p \in Rationals, NEW q \in Rationals, NEW r \in Rationals
  PROVE  Product(Product(p, q), r) = Product(Product(p, r), q)
<1>1. Product(Product(p, q), r) = Product(p, Product(q, r))
      /\ Product(Product(p, r), q) = Product(p, Product(r, q))
  BY ProductAssociates
<1>2. Product(q, r) = Product(r, q)
  BY ProductCommutes
<1>3. QED
  BY <1>1, <1>2

AllRational(m, w, k, a, b, e, f) == {m, w, k, a, b, e, f} \subseteq Rationals

\* m + (w a b - (e b + a f) k)
Entry(m, w, k, a, b, e, f) ==
  Sum2(m, Difference(Product(w, Product(a, b)), Product(Sum2(Product(e, b), Product(a, f)), k)))

\* The same, collected in b and f.
Collected(m, w, k, a, b, e, f) ==
  Sum2(Sum2(m, Product(Difference(Product(w, a), Product(e, k)), b)),
       Product(Negated(Product(a, k)), f))

\* An entry of the BFGS update, collected as the two columns it adds.
LEMMA RankTwo ==
  ASSUME NEW m, NEW w, NEW k, NEW a, NEW b, NEW e, NEW f, AllRational(m, w, k, a, b, e, f)
  PROVE  Entry(m, w, k, a, b, e, f) = Collected(m, w, k, a, b, e, f)
<1>0. /\ m \in Rationals /\ w \in Rationals /\ k \in Rationals /\ a \in Rationals
      /\ b \in Rationals /\ e \in Rationals /\ f \in Rationals
  BY DEF AllRational
<1> DEFINE x == Product(w, Product(a, b))
           y == Product(Product(e, b), k)
           z == Product(Product(a, f), k)
<1>1. /\ Product(a, b) \in Rationals /\ Product(e, b) \in Rationals /\ Product(a, f) \in Rationals
      /\ Product(w, a) \in Rationals /\ Product(e, k) \in Rationals /\ Product(a, k) \in Rationals
  BY <1>0, FieldClosed
<1>2. x \in Rationals /\ y \in Rationals /\ z \in Rationals
  BY <1>0, <1>1, FieldClosed
<1>3. Product(Sum2(Product(e, b), Product(a, f)), k) = Sum2(y, z)
  BY <1>0, <1>1, DistributesRight
<1>4. Product(Difference(Product(w, a), Product(e, k)), b) = Sum2(x, Negated(y))
  <2>1. Negated(Product(e, k)) \in Rationals
    BY <1>1, Closed
  <2>2. Product(Sum2(Product(w, a), Negated(Product(e, k))), b)
          = Sum2(Product(Product(w, a), b), Product(Negated(Product(e, k)), b))
    BY <1>0, <1>1, <2>1, DistributesRight
  <2>3. Product(Product(w, a), b) = x
    BY <1>0, ProductAssociates
  <2>4. Product(Negated(Product(e, k)), b) = Negated(Product(Product(e, k), b))
    BY <1>0, <1>1, NegatedProduct
  <2>5. Product(Product(e, k), b) = y
    BY <1>0, ProductSwap
  <2>6. QED
    BY <2>2, <2>3, <2>4, <2>5 DEF Difference
<1>5. Product(Negated(Product(a, k)), f) = Negated(z)
  <2>1. Product(Negated(Product(a, k)), f) = Negated(Product(Product(a, k), f))
    BY <1>0, <1>1, NegatedProduct
  <2>2. Product(Product(a, k), f) = z
    BY <1>0, ProductSwap
  <2>3. QED
    BY <2>1, <2>2
<1> HIDE DEF x, y, z
<1>6. Negated(y) \in Rationals /\ Negated(z) \in Rationals /\ Sum2(x, Negated(y)) \in Rationals
      /\ Sum2(Negated(y), Negated(z)) \in Rationals
  BY <1>2, Closed
<1>7. Sum2(m, Sum2(x, Sum2(Negated(y), Negated(z))))
        = Sum2(Sum2(m, Sum2(x, Negated(y))), Negated(z))
  <2>1. Sum2(x, Sum2(Negated(y), Negated(z))) = Sum2(Sum2(x, Negated(y)), Negated(z))
    BY <1>2, <1>6, SumAssociates
  <2>2. Sum2(m, Sum2(Sum2(x, Negated(y)), Negated(z)))
          = Sum2(Sum2(m, Sum2(x, Negated(y))), Negated(z))
    BY <1>0, <1>6, SumAssociates
  <2>3. QED
    BY <2>1, <2>2
<1>8. Difference(x, Sum2(y, z)) = Sum2(x, Sum2(Negated(y), Negated(z)))
  BY <1>2, NegatedSum DEF Difference
<1>9. QED
  BY <1>3, <1>4, <1>5, <1>7, <1>8 DEF x, Entry, Collected

\* The same, with the two pairs (a, e) and (p, r) exchanged.
LEMMA RankTwoSymmetric ==
  ASSUME NEW m, NEW w, NEW k, NEW a, NEW p, NEW e, NEW r, AllRational(m, w, k, a, p, e, r)
  PROVE  Collected(m, w, k, a, p, e, r) = Collected(m, w, k, p, a, r, e)
<1>1. AllRational(m, w, k, a, p, e, r) /\ AllRational(m, w, k, p, a, r, e)
  BY DEF AllRational
<1>2. /\ Entry(m, w, k, a, p, e, r) = Collected(m, w, k, a, p, e, r)
      /\ Entry(m, w, k, p, a, r, e) = Collected(m, w, k, p, a, r, e)
  BY <1>1, RankTwo
<1>3. a \in Rationals /\ p \in Rationals /\ e \in Rationals /\ r \in Rationals
  BY DEF AllRational
<1>4. /\ Product(a, p) = Product(p, a) /\ Product(e, p) = Product(p, e)
      /\ Product(a, r) = Product(r, a)
      /\ Sum2(Product(p, e), Product(r, a)) = Sum2(Product(r, a), Product(p, e))
  BY <1>3, ProductCommutes, FieldClosed, SumCommutes
<1>5. Entry(m, w, k, a, p, e, r) = Entry(m, w, k, p, a, r, e)
  BY <1>4 DEF Entry
<1>6. QED
  BY <1>2, <1>5

\* The quotient of two positive numbers is positive.
LEMMA QuotientSigns ==
  ASSUME NEW p \in Rationals, NEW q \in Rationals, Positive(p), Positive(q)
  PROVE  Quotient(p, q) \in Rationals /\ Positive(Quotient(p, q))
<1> DEFINE r == Quotient(p, q)
<1>1. q # Zero
  BY Signs
<1>2. r \in Rationals /\ Product(r, q) = p
  BY <1>1, Closed, QuotientProduct
<1> HIDE DEF r
<1>3. r # Zero
  BY <1>2, ProductSigns, Signs
<1>4. ASSUME Positive(Negated(r)) PROVE FALSE
  <2>1. Positive(Product(Negated(r), q))
    BY <1>2, <1>4, Closed, ProductSigns
  <2>2. Product(Negated(r), q) = Negated(p)
    BY <1>2, NegatedProduct
  <2>3. QED
    BY <2>1, <2>2, Signs
<1>5. Positive(r)
  BY <1>2, <1>3, <1>4, Signs
<1>6. QED
  BY <1>2, <1>5 DEF r

\* What is at least a positive number is positive.
LEMMA AtLeastPositive ==
  ASSUME NEW p \in Rationals, NEW q \in Rationals, Positive(p), AtMost(p, q)
  PROVE  Positive(q)
<1> DEFINE d == Difference(p, q)
<1>1. d \in Rationals /\ ~Positive(d) /\ Sum2(d, q) = p
  BY AtMostSign, Closed
<1> HIDE DEF d
<1>2. ASSUME ~Positive(q) PROVE FALSE
  <2>1. NonNegative(Negated(d)) /\ NonNegative(Negated(q)) /\ NonNegative(p)
        /\ Negated(d) \in Rationals /\ Negated(q) \in Rationals
    BY <1>1, <1>2, Closed, Signs
  <2>2. Sum2(p, Negated(q)) = d
    <3>1. Sum2(q, Negated(q)) = Zero
      BY Neutral
    <3>2. Sum2(Sum2(d, q), Negated(q)) = Sum2(d, Sum2(q, Negated(q)))
      BY <1>1, <2>1, SumAssociates
    <3>3. Sum2(d, Zero) = d
      BY <1>1, Neutral
    <3>4. QED
      BY <1>1, <3>1, <3>2, <3>3
  <2>3. Positive(Sum2(p, Negated(q)))
    BY <2>1, SumSigns
  <2>4. QED
    BY <1>1, <2>2, <2>3
<1>3. QED
  BY <1>2

\* The larger of two numbers, the first of them positive.
LEMMA LargerPositive ==
  ASSUME NEW p \in Rationals, NEW q \in Rationals, Positive(p)
  PROVE  Larger(p, q) \in Rationals /\ Positive(Larger(p, q))
BY AtLeastPositive DEF Larger

-----------------------------------------------------------------------------
(* Recursion over an interval.                                             *)

\* A step computes the next value from its index and the value before it.
IsStep(step, V, n) == \A i \in 1 .. n, v \in V : step[<<i, v>>] \in V
Iterates(f, V, n, base, step) ==
  /\ f \in [0 .. n -> V] /\ f[0] = base
  /\ \A i \in 1 .. n : f[i] = step[<<i, f[i - 1]>>]

\* A function may be defined by its first value and by a step.
LEMMA FiniteRecursion ==
  ASSUME NEW V, NEW n \in Nat, NEW base \in V, NEW step, IsStep(step, V, n)
  PROVE  \E f : Iterates(f, V, n, base, step)
<1> DEFINE T == {k \in Nat : k <= n => \E f : Iterates(f, V, k, base, step)}
<1>1. 0 \in T
  <2>1. Iterates([i \in 0 .. 0 |-> base], V, 0, base, step)
    BY DEF Iterates
  <2>2. QED
    BY <2>1
<1>2. ASSUME NEW k \in T PROVE k + 1 \in T
  <2>1. SUFFICES ASSUME k + 1 <= n PROVE \E f : Iterates(f, V, k + 1, base, step)
    OBVIOUS
  <2>2. PICK f : Iterates(f, V, k, base, step)
    BY <2>1
  <2> DEFINE g == [i \in 0 .. k + 1 |-> IF i <= k THEN f[i] ELSE step[<<k + 1, f[k]>>]]
  <2>3. f \in [0 .. k -> V] /\ step[<<k + 1, f[k]>>] \in V
    BY <2>1, <2>2 DEF Iterates, IsStep
  <2>4. g \in [0 .. k + 1 -> V]
    BY <2>3
  <2>5. \A i \in 0 .. k : g[i] = f[i]
    OBVIOUS
  <2>6. g[k + 1] = step[<<k + 1, f[k]>>]
    OBVIOUS
  <2> HIDE DEF g
  <2>7. g[0] = base
    BY <2>2, <2>5 DEF Iterates
  <2>8. ASSUME NEW i \in 1 .. k + 1 PROVE g[i] = step[<<i, g[i - 1]>>]
    <3>1. CASE i = k + 1
      BY <2>5, <2>6, <3>1
    <3>2. CASE i # k + 1
      <4>1. i \in 1 .. k /\ i - 1 \in 0 .. k /\ i \in 0 .. k
        BY <3>2
      <4>2. QED
        BY <2>2, <2>5, <4>1 DEF Iterates
    <3>3. QED
      BY <3>1, <3>2
  <2>9. Iterates(g, V, k + 1, base, step)
    BY <2>4, <2>7, <2>8 DEF Iterates
  <2>10. QED
    BY <2>9
<1>3. T \subseteq Nat
  OBVIOUS
<1> HIDE DEF T
<1>4. T = Nat
  BY <1>1, <1>2, <1>3, SetInduction
<1>5. n \in T
  BY <1>4
<1>6. QED
  BY <1>5 DEF T

-----------------------------------------------------------------------------
(* Pairings.                                                               *)

\* s holds the partial sums of a pairing.
Sums(s, x, y, n) ==
  /\ s \in [0 .. n -> Rationals] /\ s[0] = Zero
  /\ \A i \in 1 .. n : s[i] = Sum2(s[i - 1], Product(x[i], y[i]))

\* The length and the domain of a block.
LEMMA VecLen == ASSUME NEW n \in Nat, NEW x \in Vec(n) PROVE Len(x) = n /\ DOMAIN x = 1 .. n
  BY DEF Vec

\* A block is a sequence.
LEMMA VecSeq ==
  ASSUME NEW n \in Nat, NEW x \in Vec(n)
  PROVE  x \in Seq(Rationals)
BY DEF Vec

\* Two sequences of partial sums are the same.
LEMMA SumsUnique ==
  ASSUME NEW n \in Nat, NEW x, NEW y, NEW s, NEW t, Sums(s, x, y, n), Sums(t, x, y, n)
  PROVE  s = t
<1> DEFINE T == {k \in 0 .. n : s[k] = t[k]}
<1>1. 0 \in T
  BY DEF Sums
<1>2. ASSUME NEW i \in 1 .. n, i - 1 \in T PROVE i \in T
  BY <1>2 DEF Sums
<1> HIDE DEF T
<1>3. 0 .. n \subseteq T
  BY <1>1, <1>2, IntervalInduction
<1>4. \A k \in 0 .. n : s[k] = t[k]
  BY <1>3 DEF T
<1>5. QED
  BY <1>4 DEF Sums

\* Every pairing has its partial sums.
LEMMA PairSums ==
  ASSUME NEW n \in Nat, NEW x \in Vec(n), NEW y \in Vec(n)
  PROVE  \E s : Sums(s, x, y, n) /\ Pair(x, y) = s[n]
<1> DEFINE step == [p \in (1 .. n) \X Rationals |-> Sum2(p[2], Product(x[p[1]], y[p[1]]))]
           Equation(s) == s = [i \in 0 .. n |->
                                 IF i = 0 THEN Zero ELSE Sum2(s[i - 1], Product(x[i], y[i]))]
<1>1. \A i \in 1 .. n, v \in Rationals : step[<<i, v>>] = Sum2(v, Product(x[i], y[i]))
  OBVIOUS
<1> HIDE DEF step
<1>2. IsStep(step, Rationals, n)
  BY <1>1, FieldClosed DEF IsStep, Vec
<1>3. PICK f : Iterates(f, Rationals, n, Zero, step)
  BY <1>2, ZeroIs, FiniteRecursion
<1>4. Equation(f)
  <2>1. ASSUME NEW i \in 0 .. n
        PROVE  f[i] = IF i = 0 THEN Zero ELSE Sum2(f[i - 1], Product(x[i], y[i]))
    <3>1. CASE i = 0
      BY <1>3, <3>1 DEF Iterates
    <3>2. CASE i # 0
      <4>1. i \in 1 .. n /\ f[i - 1] \in Rationals
        BY <1>3, <3>2 DEF Iterates
      <4>2. QED
        BY <1>1, <1>3, <3>2, <4>1 DEF Iterates
    <3>3. QED
      BY <3>1, <3>2
  <2>2. f = [i \in 0 .. n |-> f[i]]
    BY <1>3 DEF Iterates
  <2>3. QED
    BY <2>1, <2>2
<1> DEFINE sum == CHOOSE s : Equation(s)
<1>5. Equation(sum)
  BY <1>4
<1>6. Pair(x, y) = sum[n]
  BY VecLen DEF Pair
<1> HIDE DEF sum
<1>7. sum = [i \in 0 .. n |-> IF i = 0 THEN Zero ELSE Sum2(sum[i - 1], Product(x[i], y[i]))]
  BY <1>5
<1>8. sum[0] = Zero /\ \A i \in 1 .. n : sum[i] = Sum2(sum[i - 1], Product(x[i], y[i]))
  BY <1>7
<1>9. \A i \in 0 .. n : sum[i] \in Rationals
  <2> DEFINE T == {k \in 0 .. n : sum[k] \in Rationals}
  <2>1. 0 \in T
    BY <1>8, ZeroIs
  <2>2. ASSUME NEW i \in 1 .. n, i - 1 \in T PROVE i \in T
    BY <1>8, <2>2, FieldClosed DEF Vec
  <2> HIDE DEF T
  <2>3. 0 .. n \subseteq T
    BY <2>1, <2>2, IntervalInduction
  <2>4. QED
    BY <2>3 DEF T
<1>10. Sums(sum, x, y, n)
  <2>1. sum \in [0 .. n -> Rationals]
    BY <1>7, <1>9
  <2>2. QED
    BY <1>8, <2>1 DEF Sums
<1>11. QED
  BY <1>6, <1>10

\* A pairing is the last of its partial sums.
LEMMA PairIs ==
  ASSUME NEW n \in Nat, NEW x \in Vec(n), NEW y \in Vec(n), NEW s, Sums(s, x, y, n)
  PROVE  Pair(x, y) = s[n]
BY PairSums, SumsUnique

\* The pairing of two blocks is a rational.
LEMMA PairType ==
  ASSUME NEW n \in Nat, NEW x \in Vec(n), NEW y \in Vec(n)
  PROVE  Pair(x, y) \in Rationals
BY PairSums DEF Sums

\* The pairing is symmetric.
LEMMA PairSymmetric ==
  ASSUME NEW n \in Nat, NEW x \in Vec(n), NEW y \in Vec(n)
  PROVE  Pair(x, y) = Pair(y, x)
<1>1. PICK s : Sums(s, x, y, n) /\ Pair(x, y) = s[n]
  BY PairSums
<1>2. \A i \in 1 .. n : Product(x[i], y[i]) = Product(y[i], x[i])
  BY ProductCommutes DEF Vec
<1>3. Sums(s, y, x, n)
  BY <1>1, <1>2 DEF Sums
<1>4. QED
  BY <1>1, <1>3, PairIs

\* A vector of zeros pairs to zero.
LEMMA PairZero ==
  ASSUME NEW n \in Nat, NEW x \in Vec(n), NEW y \in Vec(n), IsZero(x)
  PROVE  Pair(x, y) = Zero
<1> DEFINE s == [i \in 0 .. n |-> Zero]
<1>1. \A i \in 1 .. n : Product(x[i], y[i]) = Zero
  BY Neutral, VecLen DEF IsZero, Vec
<1>2. Sum2(Zero, Zero) = Zero
  BY Neutral, ZeroIs
<1>3. Sums(s, x, y, n)
  BY <1>1, <1>2, ZeroIs DEF Sums
<1>4. QED
  BY <1>3, PairIs

-----------------------------------------------------------------------------
(* Combinations of vectors.                                                *)

\* Sums and multiples of blocks are blocks of the same size.
LEMMA CombinationTypes ==
  ASSUME NEW n \in Nat, NEW x \in Vec(n), NEW y \in Vec(n), NEW a \in Rationals
  PROVE  /\ AddScaled(x, a, y) \in Vec(n) /\ Scaled(a, x) \in Vec(n)
         /\ Subtracted(x, y) \in Vec(n) /\ Opposite(x) \in Vec(n)
<1>1. \A c \in Rationals : AddScaled(x, c, y) \in Vec(n) /\ Scaled(c, x) \in Vec(n)
  BY VecLen, FieldClosed DEF AddScaled, Scaled, Vec
<1>2. Minus1 \in Rationals
  BY Neutral, ZeroIs
<1>3. QED
  BY <1>1, <1>2 DEF Subtracted, Opposite

\* So is the opposite of a block,
LEMMA OppositeType ==
  ASSUME NEW n \in Nat, NEW x \in Vec(n)
  PROVE  Opposite(x) \in Vec(n)
<1>1. Minus1 \in Rationals
  BY Neutral, ZeroIs
<1>2. Opposite(x) \in Vec(n)
  BY <1>1, CombinationTypes
<1>3. QED
  BY <1>2

\* and the difference of two.
LEMMA SubtractedType ==
  ASSUME NEW n \in Nat, NEW x \in Vec(n), NEW y \in Vec(n)
  PROVE  Subtracted(x, y) \in Vec(n)
<1>1. Minus1 \in Rationals
  BY Neutral, ZeroIs
<1>2. Subtracted(x, y) \in Vec(n)
  BY <1>1, CombinationTypes
<1>3. QED
  BY <1>2

\* (w + x) + (y + z) = (w + y) + (x + z)
LEMMA Exchange ==
  ASSUME NEW w \in Rationals, NEW x \in Rationals, NEW y \in Rationals, NEW z \in Rationals
  PROVE  Sum2(Sum2(w, x), Sum2(y, z)) = Sum2(Sum2(w, y), Sum2(x, z))
<1>1. \A p, q \in Rationals : Sum2(p, q) \in Rationals
  BY FieldClosed
<1>2. Sum2(Sum2(w, x), Sum2(y, z)) = Sum2(w, Sum2(x, Sum2(y, z)))
  BY <1>1, SumAssociates
<1>3. Sum2(Sum2(w, y), Sum2(x, z)) = Sum2(w, Sum2(y, Sum2(x, z)))
  BY <1>1, SumAssociates
<1>4. Sum2(x, Sum2(y, z)) = Sum2(Sum2(x, y), z) /\ Sum2(y, Sum2(x, z)) = Sum2(Sum2(y, x), z)
  BY SumAssociates
<1>5. Sum2(x, y) = Sum2(y, x)
  BY SumCommutes
<1>6. QED
  BY <1>2, <1>3, <1>4, <1>5

\* The pairing is linear in its first argument.
LEMMA PairAddScaled ==
  ASSUME NEW n \in Nat, NEW x \in Vec(n), NEW y \in Vec(n), NEW z \in Vec(n),
         NEW a \in Rationals
  PROVE  Pair(AddScaled(x, a, y), z) = Sum2(Pair(x, z), Product(a, Pair(y, z)))
<1>1. PICK s : Sums(s, x, z, n) /\ Pair(x, z) = s[n]
  BY PairSums
<1>2. PICK t : Sums(t, y, z, n) /\ Pair(y, z) = t[n]
  BY PairSums
<1> DEFINE v == AddScaled(x, a, y)
           u == [i \in 0 .. n |-> Sum2(s[i], Product(a, t[i]))]
<1>3. v \in Vec(n) /\ \A i \in 1 .. n : v[i] = Sum2(x[i], Product(a, y[i]))
  BY CombinationTypes, VecLen DEF AddScaled
<1>4. u \in [0 .. n -> Rationals] /\ \A i \in 0 .. n : u[i] = Sum2(s[i], Product(a, t[i]))
  BY <1>1, <1>2, FieldClosed DEF Sums
<1> HIDE DEF u, v
<1>5. u[0] = Zero
  BY <1>1, <1>2, <1>4, Neutral, ZeroIs DEF Sums
<1>6. ASSUME NEW i \in 1 .. n PROVE u[i] = Sum2(u[i - 1], Product(v[i], z[i]))
  <2> DEFINE b == s[i - 1]
             c == t[i - 1]
             d == Product(x[i], z[i])
             e == Product(y[i], z[i])
  <2>1. /\ x[i] \in Rationals /\ y[i] \in Rationals /\ z[i] \in Rationals
        /\ i - 1 \in 0 .. n /\ i \in 0 .. n
    BY DEF Vec
  <2>2. b \in Rationals /\ c \in Rationals /\ d \in Rationals /\ e \in Rationals
    BY <1>1, <1>2, <2>1, FieldClosed DEF Sums
  <2>3. s[i] = Sum2(b, d) /\ t[i] = Sum2(c, e)
    BY <1>1, <1>2 DEF Sums
  <2>4. Product(v[i], z[i]) = Sum2(d, Product(a, e))
    <3>1. Product(y[i], a) \in Rationals /\ Product(a, y[i]) \in Rationals
      BY <2>1, FieldClosed
    <3>2. Product(v[i], z[i]) = Product(z[i], Sum2(x[i], Product(a, y[i])))
      BY <1>3, <2>1, <3>1, FieldClosed, ProductCommutes
    <3>3. Product(z[i], Sum2(x[i], Product(a, y[i])))
            = Sum2(Product(z[i], x[i]), Product(z[i], Product(a, y[i])))
      BY <2>1, <3>1, Distributes
    <3>4. Product(z[i], x[i]) = d /\ Product(z[i], Product(a, y[i])) = Product(Product(a, y[i]), z[i])
      BY <2>1, <3>1, ProductCommutes
    <3>5. Product(Product(a, y[i]), z[i]) = Product(a, e)
      BY <2>1, ProductAssociates
    <3>6. QED
      BY <3>2, <3>3, <3>4, <3>5
  <2> HIDE DEF b, c, d, e
  <2>5. Product(a, Sum2(c, e)) = Sum2(Product(a, c), Product(a, e))
    BY <2>2, Distributes
  <2>6. Product(a, c) \in Rationals /\ Product(a, e) \in Rationals
    BY <2>2, FieldClosed
  <2>7. Sum2(Sum2(b, d), Sum2(Product(a, c), Product(a, e)))
          = Sum2(Sum2(b, Product(a, c)), Sum2(d, Product(a, e)))
    BY <2>2, <2>6, Exchange
  <2>8. u[i - 1] = Sum2(b, Product(a, c)) /\ u[i] = Sum2(s[i], Product(a, t[i]))
    BY <1>4, <2>1 DEF b, c
  <2>9. QED
    BY <2>3, <2>4, <2>5, <2>7, <2>8
<1>7. Sums(u, v, z, n)
  BY <1>4, <1>5, <1>6 DEF Sums
<1>8. Pair(v, z) = u[n]
  BY <1>3, <1>7, PairIs
<1>9. QED
  BY <1>1, <1>2, <1>4, <1>8 DEF v

\* Adding nothing.
LEMMA AddNothing ==
  ASSUME NEW n \in Nat, NEW x \in Vec(n), NEW y \in Vec(n), NEW a \in Rationals
  PROVE  /\ AddScaled(x, Zero, y) = x
         /\ IsZero(y) => AddScaled(x, a, y) = x
         /\ IsZero(x) => AddScaled(x, a, y) = Scaled(a, y)
<1>1. /\ \A i \in 1 .. n : x[i] \in Rationals /\ y[i] \in Rationals
      /\ DOMAIN x = 1 .. n /\ DOMAIN y = 1 .. n
      /\ x = [i \in 1 .. n |-> x[i]]
  BY DEF Vec
<1>2. AddScaled(x, Zero, y) = x
  <2>1. \A i \in 1 .. n : Sum2(x[i], Product(Zero, y[i])) = x[i]
    BY <1>1, Neutral
  <2>2. QED
    BY <1>1, <2>1 DEF AddScaled
<1>3. ASSUME IsZero(y) PROVE AddScaled(x, a, y) = x
  <2>1. \A i \in 1 .. n : y[i] = Zero
    BY <1>1, <1>3 DEF IsZero
  <2>2. \A i \in 1 .. n : Sum2(x[i], Product(a, y[i])) = x[i]
    BY <1>1, <2>1, Neutral
  <2>3. QED
    BY <1>1, <2>2 DEF AddScaled
<1>4. ASSUME IsZero(x) PROVE AddScaled(x, a, y) = Scaled(a, y)
  <2>1. \A i \in 1 .. n : x[i] = Zero
    BY <1>1, <1>4 DEF IsZero
  <2>2. \A i \in 1 .. n : Sum2(x[i], Product(a, y[i])) = Product(a, y[i])
    BY <1>1, <2>1, Neutral, FieldClosed
  <2>3. QED
    BY <1>1, <2>2 DEF AddScaled, Scaled
<1>5. QED
  BY <1>2, <1>3, <1>4

\* The pairing is linear in its second argument too.
LEMMA PairAddScaledRight ==
  ASSUME NEW n \in Nat, NEW x \in Vec(n), NEW y \in Vec(n), NEW z \in Vec(n),
         NEW a \in Rationals
  PROVE  Pair(z, AddScaled(x, a, y)) = Sum2(Pair(z, x), Product(a, Pair(z, y)))
<1>1. AddScaled(x, a, y) \in Vec(n)
  BY CombinationTypes
<1>2. Pair(z, AddScaled(x, a, y)) = Pair(AddScaled(x, a, y), z)
  BY <1>1, PairSymmetric
<1>3. Pair(z, x) = Pair(x, z) /\ Pair(z, y) = Pair(y, z)
  BY PairSymmetric
<1>4. QED
  BY <1>2, <1>3, PairAddScaled

\* A factor may be taken out of a pairing.
LEMMA PairScaled ==
  ASSUME NEW n \in Nat, NEW x \in Vec(n), NEW y \in Vec(n), NEW a \in Rationals
  PROVE  /\ Pair(Scaled(a, x), y) = Product(a, Pair(x, y))
         /\ Pair(y, Scaled(a, x)) = Product(a, Pair(y, x))
<1> DEFINE zero == [i \in 1 .. n |-> Zero]
<1>1. zero \in Vec(n) /\ IsZero(zero)
  BY ZeroIs DEF Vec, IsZero
<1> HIDE DEF zero
<1>2. Scaled(a, x) = AddScaled(zero, a, x)
  BY <1>1, AddNothing
<1>3. Pair(Scaled(a, x), y) = Sum2(Pair(zero, y), Product(a, Pair(x, y)))
  BY <1>1, <1>2, PairAddScaled
<1>4. Pair(zero, y) = Zero /\ Product(a, Pair(x, y)) \in Rationals
  BY <1>1, PairZero, PairType, FieldClosed
<1>5. Pair(Scaled(a, x), y) = Product(a, Pair(x, y))
  BY <1>3, <1>4, Neutral
<1>6. Scaled(a, x) \in Vec(n)
  BY CombinationTypes
<1>7. Pair(y, Scaled(a, x)) = Pair(Scaled(a, x), y) /\ Pair(y, x) = Pair(x, y)
  BY <1>6, PairSymmetric
<1>8. QED
  BY <1>5, <1>7

\* So may the sign.
LEMMA PairOpposite ==
  ASSUME NEW n \in Nat, NEW x \in Vec(n), NEW y \in Vec(n)
  PROVE  /\ Pair(Opposite(x), y) = Negated(Pair(x, y))
         /\ Pair(y, Opposite(x)) = Negated(Pair(y, x))
<1>1. Minus1 \in Rationals
  BY Neutral, ZeroIs
<1>2. Pair(x, y) \in Rationals /\ Pair(y, x) \in Rationals
  BY PairType
<1>3. Product(Minus1, Pair(x, y)) = Negated(Pair(x, y))
  BY <1>2, Neutral
<1>4. Product(Minus1, Pair(y, x)) = Negated(Pair(y, x))
  BY <1>2, Neutral
<1>5. QED
  BY <1>1, <1>3, <1>4, PairScaled DEF Opposite

\* The pairing with a difference.
LEMMA PairSubtracted ==
  ASSUME NEW n \in Nat, NEW x \in Vec(n), NEW y \in Vec(n), NEW z \in Vec(n)
  PROVE  /\ Pair(Subtracted(x, y), z) = Difference(Pair(x, z), Pair(y, z))
         /\ Pair(z, Subtracted(x, y)) = Difference(Pair(z, x), Pair(z, y))
<1>1. Minus1 \in Rationals
  BY Neutral, ZeroIs
<1>2. Pair(y, z) \in Rationals /\ Pair(z, y) \in Rationals
  BY PairType
<1>3. Product(Minus1, Pair(y, z)) = Negated(Pair(y, z))
  BY <1>2, Neutral
<1>4. Product(Minus1, Pair(z, y)) = Negated(Pair(z, y))
  BY <1>2, Neutral
<1>5. Pair(Subtracted(x, y), z) = Difference(Pair(x, z), Pair(y, z))
  BY <1>1, <1>3, PairAddScaled DEF Subtracted, Difference
<1>6. Pair(z, Subtracted(x, y)) = Difference(Pair(z, x), Pair(z, y))
  BY <1>1, <1>4, PairAddScaledRight DEF Subtracted, Difference
<1>7. QED
  BY <1>5, <1>6

-----------------------------------------------------------------------------
(* Matrices.                                                               *)

\* A matrix maps blocks to blocks.
LEMMA ApplyType ==
  ASSUME NEW n \in Nat, NEW matrix \in Mat(n), NEW x \in Vec(n)
  PROVE  Apply(matrix, x) \in Vec(n)
<1>1. \A i \in 1 .. n : matrix[i] \in Vec(n)
  BY DEF Mat
<1>2. \A i \in 1 .. n : Pair(matrix[i], x) \in Rationals
  BY <1>1, PairType
<1>3. QED
  BY <1>2 DEF Mat, Apply, Vec

\* A matrix maps zero to zero.
LEMMA ApplyZero ==
  ASSUME NEW n \in Nat, NEW matrix \in Mat(n), NEW x \in Vec(n), IsZero(x)
  PROVE  IsZero(Apply(matrix, x))
<1>1. \A i \in 1 .. n : matrix[i] \in Vec(n)
  BY DEF Mat
<1>2. \A i \in 1 .. n : Pair(matrix[i], x) = Zero
  BY <1>1, PairZero, PairSymmetric
<1>3. QED
  BY <1>2 DEF Mat, Apply, IsZero

\* A matrix acts linearly.
LEMMA ApplyAddScaled ==
  ASSUME NEW n \in Nat, NEW matrix \in Mat(n), NEW x \in Vec(n), NEW y \in Vec(n),
         NEW a \in Rationals
  PROVE  Apply(matrix, AddScaled(x, a, y)) = AddScaled(Apply(matrix, x), a, Apply(matrix, y))
<1>1. DOMAIN matrix = 1 .. n /\ \A i \in 1 .. n : matrix[i] \in Vec(n)
  BY DEF Mat
<1>2. \A i \in 1 .. n :
        Pair(matrix[i], AddScaled(x, a, y)) = Sum2(Pair(matrix[i], x), Product(a, Pair(matrix[i], y)))
  BY <1>1, PairAddScaledRight
<1>3. \A v : Apply(matrix, v) = [i \in 1 .. n |-> Pair(matrix[i], v)]
  BY <1>1 DEF Apply
<1>4. AddScaled(Apply(matrix, x), a, Apply(matrix, y))
        = [i \in 1 .. n |-> Sum2(Pair(matrix[i], x), Product(a, Pair(matrix[i], y)))]
  BY <1>3 DEF AddScaled
<1>5. QED
  BY <1>2, <1>3, <1>4

\* A matrix maps multiples to multiples.
LEMMA ApplyScaled ==
  ASSUME NEW n \in Nat, NEW matrix \in Mat(n), NEW x \in Vec(n), NEW a \in Rationals
  PROVE  Apply(matrix, Scaled(a, x)) = Scaled(a, Apply(matrix, x))
<1>1. DOMAIN matrix = 1 .. n /\ \A i \in 1 .. n : matrix[i] \in Vec(n)
  BY DEF Mat
<1>2. \A i \in 1 .. n : Pair(matrix[i], Scaled(a, x)) = Product(a, Pair(matrix[i], x))
  BY <1>1, PairScaled
<1>3. \A v : Apply(matrix, v) = [i \in 1 .. n |-> Pair(matrix[i], v)]
  BY <1>1 DEF Apply
<1>4. Scaled(a, Apply(matrix, x)) = [i \in 1 .. n |-> Product(a, Pair(matrix[i], x))]
  BY <1>3 DEF Scaled
<1>5. QED
  BY <1>2, <1>3, <1>4

\* A matrix whose rows are scaled.
LEMMA ApplyScaledRows ==
  ASSUME NEW n \in Nat, NEW matrix \in Mat(n), NEW x \in Vec(n), NEW a \in Rationals
  PROVE  /\ [k \in DOMAIN matrix |-> Scaled(a, matrix[k])] \in Mat(n)
         /\ Apply([k \in DOMAIN matrix |-> Scaled(a, matrix[k])], x) = Scaled(a, Apply(matrix, x))
<1> DEFINE scaled == [k \in DOMAIN matrix |-> Scaled(a, matrix[k])]
<1>1. DOMAIN matrix = 1 .. n /\ \A k \in 1 .. n : matrix[k] \in Vec(n)
  BY DEF Mat
<1>2. \A k \in 1 .. n : Scaled(a, matrix[k]) \in Vec(n)
  BY <1>1, CombinationTypes
<1>3. scaled \in Mat(n)
  BY <1>1, <1>2 DEF Mat
<1>4. \A k \in 1 .. n : scaled[k] = Scaled(a, matrix[k])
  BY <1>1
<1> HIDE DEF scaled
<1>5. \A k \in 1 .. n : Pair(scaled[k], x) = Product(a, Pair(matrix[k], x))
  BY <1>1, <1>4, PairScaled
<1>6. Apply(scaled, x) = [k \in 1 .. n |-> Pair(scaled[k], x)]
  BY <1>3 DEF Apply, Mat
<1>7. Scaled(a, Apply(matrix, x)) = [k \in 1 .. n |-> Product(a, Pair(matrix[k], x))]
  BY <1>1 DEF Apply, Scaled
<1>8. QED
  BY <1>3, <1>5, <1>6, <1>7 DEF scaled

\* The order in which two vectors are added does not matter.
LEMMA AddScaledSwap ==
  ASSUME NEW n \in Nat, NEW x \in Vec(n), NEW y \in Vec(n), NEW z \in Vec(n),
         NEW a \in Rationals, NEW b \in Rationals
  PROVE  AddScaled(AddScaled(x, a, y), b, z) = AddScaled(AddScaled(x, b, z), a, y)
<1>1. /\ \A i \in 1 .. n : x[i] \in Rationals /\ y[i] \in Rationals /\ z[i] \in Rationals
      /\ DOMAIN x = 1 .. n
  BY DEF Vec
<1>2. ASSUME NEW p \in Rationals, NEW q \in Rationals, NEW r \in Rationals
      PROVE  Sum2(Sum2(p, q), r) = Sum2(Sum2(p, r), q)
  <2>1. Sum2(Sum2(p, q), r) = Sum2(p, Sum2(q, r)) /\ Sum2(Sum2(p, r), q) = Sum2(p, Sum2(r, q))
    BY SumAssociates
  <2>2. Sum2(q, r) = Sum2(r, q)
    BY SumCommutes
  <2>3. QED
    BY <2>1, <2>2
<1>3. ASSUME NEW i \in 1 .. n
      PROVE  Sum2(Sum2(x[i], Product(a, y[i])), Product(b, z[i]))
               = Sum2(Sum2(x[i], Product(b, z[i])), Product(a, y[i]))
  <2>1. Product(a, y[i]) \in Rationals /\ Product(b, z[i]) \in Rationals /\ x[i] \in Rationals
    BY <1>1, FieldClosed
  <2>2. QED
    BY <1>2, <2>1
<1>4. \A u, c, v : AddScaled(AddScaled(x, u, v), c, y)
        = [i \in 1 .. n |-> Sum2(Sum2(x[i], Product(u, v[i])), Product(c, y[i]))]
  BY <1>1 DEF AddScaled
<1>5. \A u, c, v : AddScaled(AddScaled(x, u, v), c, z)
        = [i \in 1 .. n |-> Sum2(Sum2(x[i], Product(u, v[i])), Product(c, z[i]))]
  BY <1>1 DEF AddScaled
<1>6. QED
  BY <1>3, <1>4, <1>5

-----------------------------------------------------------------------------
(* Dimension: more vectors than coefficients depend on each other.          *)

\* A block without its last coefficient, and with one more.
Shortened(x, n) == [i \in 1 .. n |-> x[i]]
Extended(x, n, a) == [i \in 1 .. n + 1 |-> IF i = n + 1 THEN a ELSE x[i]]

\* Blocks may be shortened and extended.
LEMMA ShortenedType ==
  ASSUME NEW n \in Nat
  PROVE  /\ \A x \in Vec(n + 1) : Shortened(x, n) \in Vec(n) /\ x[n + 1] \in Rationals
         /\ \A x \in Vec(n), a \in Rationals :
              /\ Extended(x, n, a) \in Vec(n + 1) /\ Shortened(Extended(x, n, a), n) = x
              /\ Extended(x, n, a)[n + 1] = a
BY DEF Shortened, Extended, Vec

\* The last coefficients may be taken out of a pairing.
LEMMA PairLast ==
  ASSUME NEW n \in Nat, NEW x \in Vec(n + 1), NEW y \in Vec(n + 1)
  PROVE  Pair(x, y) = Sum2(Pair(Shortened(x, n), Shortened(y, n)), Product(x[n + 1], y[n + 1]))
<1>1. PICK s : Sums(s, x, y, n + 1) /\ Pair(x, y) = s[n + 1]
  BY PairSums
<1> DEFINE t == [i \in 0 .. n |-> s[i]]
<1>2. Sums(t, Shortened(x, n), Shortened(y, n), n)
  <2>1. t \in [0 .. n -> Rationals] /\ t[0] = Zero
    BY <1>1 DEF Sums
  <2>2. ASSUME NEW i \in 1 .. n
        PROVE  t[i] = Sum2(t[i - 1], Product(Shortened(x, n)[i], Shortened(y, n)[i]))
    <3>1. i \in 1 .. n + 1 /\ i \in 0 .. n /\ i - 1 \in 0 .. n
      OBVIOUS
    <3>2. s[i] = Sum2(s[i - 1], Product(x[i], y[i]))
      BY <1>1, <3>1 DEF Sums
    <3>3. QED
      BY <3>1, <3>2 DEF Shortened
  <2>3. QED
    BY <2>1, <2>2 DEF Sums
<1>3. Pair(Shortened(x, n), Shortened(y, n)) = t[n]
  BY <1>2, ShortenedType, PairIs
<1>4. s[n + 1] = Sum2(s[n], Product(x[n + 1], y[n + 1]))
  <2>1. n + 1 \in 1 .. n + 1 /\ (n + 1) - 1 = n
    OBVIOUS
  <2>2. QED
    BY <1>1, <2>1 DEF Sums
<1>5. QED
  BY <1>1, <1>3, <1>4

\* b * -(a / q) = -(b / q) * a
LEMMA QuotientSwap ==
  ASSUME NEW a \in Rationals, NEW b \in Rationals, NEW q \in Rationals, q # Zero
  PROVE  /\ Negated(Quotient(a, q)) \in Rationals /\ Negated(Quotient(b, q)) \in Rationals
         /\ Product(b, Negated(Quotient(a, q))) = Product(Negated(Quotient(b, q)), a)
         /\ Sum2(a, Product(q, Negated(Quotient(a, q)))) = Zero
<1> DEFINE k == Inverted(q)
           u == Quotient(a, q)
           v == Quotient(b, q)
<1>1. k \in Rationals /\ u \in Rationals /\ v \in Rationals
      /\ Negated(u) \in Rationals /\ Negated(v) \in Rationals
  BY Closed
<1>2. u = Product(a, k) /\ v = Product(b, k)
  BY DEF Quotient
<1>3. Product(u, q) = a
  BY QuotientProduct
<1> HIDE DEF k, u, v
<1>4. Product(b, u) = Product(v, a)
  <2>1. Product(b, Product(k, a)) = Product(Product(b, k), a)
    BY <1>1, ProductAssociates
  <2>2. Product(k, a) = Product(a, k)
    BY <1>1, ProductCommutes
  <2>3. QED
    BY <1>2, <2>1, <2>2
<1>5. Product(b, Negated(u)) = Negated(Product(b, u))
      /\ Product(Negated(v), a) = Negated(Product(v, a))
  BY <1>1, NegatedProduct
<1>6. Product(q, Negated(u)) = Negated(a)
  <2>1. Product(q, Negated(u)) = Negated(Product(q, u)) /\ Product(q, u) = Product(u, q)
    BY <1>1, NegatedProduct, ProductCommutes
  <2>2. QED
    BY <1>3, <2>1
<1>7. Sum2(a, Negated(a)) = Zero
  BY Neutral
<1>8. QED
  BY <1>1, <1>4, <1>5, <1>6, <1>7 DEF u, v

\* m equations in m + 1 unknowns have a solution that is not zero.
Underdetermined(m) ==
  \A rows \in [1 .. m -> Vec(m + 1)] :
    \E x \in Vec(m + 1) : ~IsZero(x) /\ \A i \in 1 .. m : Pair(rows[i], x) = Zero

\* One equation fewer, one unknown fewer: the last unknown is eliminated.
LEMMA Elimination ==
  ASSUME NEW m \in Nat, Underdetermined(m)
  PROVE  Underdetermined(m + 1)
<1> DEFINE n == m + 1
<1>1. SUFFICES ASSUME NEW rows \in [1 .. n -> Vec(n + 1)]
               PROVE  \E x \in Vec(n + 1) : ~IsZero(x) /\ \A i \in 1 .. n : Pair(rows[i], x) = Zero
  BY DEF Underdetermined
<1>2. n \in Nat /\ n = m + 1
  OBVIOUS
<1> HIDE DEF n
<1>3. \A i \in 1 .. n : /\ rows[i] \in Vec(n + 1) /\ Shortened(rows[i], n) \in Vec(n)
                        /\ rows[i][n + 1] \in Rationals
  BY <1>2, ShortenedType
<1>4. CASE \A i \in 1 .. n : rows[i][n + 1] = Zero
  <2> DEFINE zero == [i \in 1 .. n |-> Zero]
             x == Extended(zero, n, One)
  <2>1. zero \in Vec(n) /\ IsZero(zero)
    BY ZeroIs DEF Vec, IsZero
  <2> HIDE DEF zero
  <2>2. x \in Vec(n + 1) /\ Shortened(x, n) = zero /\ x[n + 1] = One
    BY <1>2, <2>1, ShortenedType, OneIs
  <2> HIDE DEF x
  <2>3. ~IsZero(x)
    <3>1. n + 1 \in DOMAIN x /\ One # Zero
      BY <1>2, <2>2, VecLen DEF One, Zero
    <3>2. QED
      BY <2>2, <3>1 DEF IsZero
  <2>4. ASSUME NEW i \in 1 .. n PROVE Pair(rows[i], x) = Zero
    <3>1. Pair(rows[i], x) = Sum2(Pair(Shortened(rows[i], n), Shortened(x, n)),
                                  Product(rows[i][n + 1], x[n + 1]))
      BY <1>2, <1>3, <2>2, PairLast
    <3>2. Pair(Shortened(rows[i], n), zero) = Zero
      <4>1. Pair(zero, Shortened(rows[i], n)) = Zero
        BY <1>2, <1>3, <2>1, PairZero
      <4>2. QED
        BY <1>2, <1>3, <2>1, <4>1, PairSymmetric
    <3>3. Product(Zero, One) = Zero /\ Sum2(Zero, Zero) = Zero
      BY Neutral, ZeroIs, OneIs
    <3>4. QED
      BY <1>4, <2>2, <3>1, <3>2, <3>3
  <2>5. QED
    BY <2>2, <2>3, <2>4
<1>5. CASE \E i \in 1 .. n : rows[i][n + 1] # Zero
  <2>1. PICK p \in 1 .. n : rows[p][n + 1] # Zero
    BY <1>5
  <2> DEFINE pivot == rows[p][n + 1]
             other(i) == IF i = p THEN n ELSE i
             factor(k) == Negated(Quotient(rows[k][n + 1], pivot))
             reduced(k) == AddScaled(Shortened(rows[k], n), factor(k), Shortened(rows[p], n))
             less == [i \in 1 .. m |-> reduced(other(i))]
  <2>2. pivot \in Rationals /\ pivot # Zero
    BY <1>3, <2>1
  <2> HIDE DEF pivot
  <2>3. \A i \in 1 .. m : other(i) \in 1 .. n
    BY <1>2
  <2>4. ASSUME NEW k \in 1 .. n PROVE reduced(k) \in Vec(n) /\ factor(k) \in Rationals
    <3>1. factor(k) \in Rationals
      BY <1>3, <2>2, QuotientSwap
    <3> HIDE DEF factor
    <3>2. QED
      BY <1>2, <1>3, <3>1, CombinationTypes
  <2>5. less \in [1 .. m -> Vec(m + 1)] /\ \A i \in 1 .. m : less[i] = reduced(other(i))
    <3> HIDE DEF reduced, other
    <3>1. QED
      BY <1>2, <2>3, <2>4
  <2> HIDE DEF less
  <2>6. PICK z \in Vec(m + 1) : ~IsZero(z) /\ \A i \in 1 .. m : Pair(less[i], z) = Zero
    BY <2>5 DEF Underdetermined
  <2>7. ASSUME NEW k \in 1 .. n, k # p PROVE Pair(reduced(k), z) = Zero
    <3>1. CASE k = n
      <4>1. p \in 1 .. m /\ other(p) = k
        BY <1>2, <2>7, <3>1
      <4>2. QED
        BY <2>5, <2>6, <4>1
    <3>2. CASE k # n
      <4>1. k \in 1 .. m /\ other(k) = k
        BY <1>2, <2>7, <3>2
      <4>2. QED
        BY <2>5, <2>6, <4>1
    <3>3. QED
      BY <3>1, <3>2
  <2> HIDE DEF other
  <2> DEFINE a == Pair(Shortened(rows[p], n), z)
             last == Negated(Quotient(a, pivot))
             x == Extended(z, n, last)
  <2>8. z \in Vec(n) /\ a \in Rationals /\ last \in Rationals
    <3>1. z \in Vec(n)
      BY <1>2
    <3>2. a \in Rationals
      BY <1>2, <1>3, <3>1, PairType
    <3> HIDE DEF a
    <3>3. QED
      BY <2>2, <3>1, <3>2, QuotientSwap
  <2>9. Sum2(a, Product(pivot, last)) = Zero
        /\ \A b \in Rationals : Product(b, last) = Product(Negated(Quotient(b, pivot)), a)
    <3> HIDE DEF a
    <3>1. QED
      BY <2>2, <2>8, QuotientSwap
  <2> HIDE DEF last
  <2>10. x \in Vec(n + 1) /\ Shortened(x, n) = z /\ x[n + 1] = last
    BY <1>2, <2>8, ShortenedType
  <2>11. ~IsZero(x)
    <3>1. PICK j \in DOMAIN z : z[j] # Zero
      BY <2>6 DEF IsZero
    <3>2. j \in 1 .. n /\ j \in DOMAIN x /\ x[j] = z[j]
      BY <1>2, <2>8, <3>1 DEF Vec, Extended
    <3>3. QED
      BY <3>1, <3>2 DEF IsZero
  <2> HIDE DEF x
  <2>12. ASSUME NEW i \in 1 .. n PROVE Pair(rows[i], x) = Zero
    <3>1. Pair(rows[i], x) = Sum2(Pair(Shortened(rows[i], n), z), Product(rows[i][n + 1], last))
      BY <1>2, <1>3, <2>10, PairLast
    <3>2. CASE i = p
      BY <2>9, <3>1, <3>2 DEF pivot
    <3>3. CASE i # p
      <4>1. Pair(reduced(i), z) = Zero
        BY <2>7, <3>3
      <4>2. factor(i) \in Rationals
        BY <2>4
      <4>3. Product(rows[i][n + 1], last) = Product(factor(i), a)
        BY <1>3, <2>9
      <4> HIDE DEF factor
      <4>4. Pair(reduced(i), z) = Sum2(Pair(Shortened(rows[i], n), z), Product(factor(i), a))
        BY <1>2, <1>3, <2>8, <4>2, PairAddScaled
      <4>5. QED
        BY <3>1, <4>1, <4>3, <4>4
    <3>4. QED
      BY <3>2, <3>3
  <2>13. QED
    BY <2>10, <2>11, <2>12
<1>6. QED
  BY <1>4, <1>5

\* So it is for every m.
LEMMA KernelExists == \A m \in Nat : Underdetermined(m)
<1> DEFINE T == {m \in Nat : Underdetermined(m)}
<1>1. 0 \in T
  <2> DEFINE x == [i \in 1 .. 1 |-> One]
  <2>1. x \in Vec(0 + 1) /\ ~IsZero(x)
    BY OneIs DEF Vec, IsZero, One, Zero
  <2>2. QED
    BY <2>1 DEF Underdetermined
<1>2. \A m \in T : m + 1 \in T
  BY Elimination
<1> HIDE DEF T
<1>3. T \subseteq Nat
  BY DEF T
<1>4. T = Nat
  BY <1>1, <1>2, <1>3, SetInduction
<1>5. QED
  BY <1>4 DEF T

\* A combination that vanishes coefficient by coefficient vanishes in every pairing.
LEMMA CombinationVanishes ==
  ASSUME NEW n \in Nat, NEW k \in Nat, NEW v \in [1 .. k -> Vec(n)], NEW c \in Vec(k), NEW g \in Vec(n),
         \A i \in 1 .. n : Pair([j \in 1 .. k |-> v[j][i]], c) = Zero
  PROVE  Pair([j \in 1 .. k |-> Pair(g, v[j])], c) = Zero
<1> DEFINE S(j) == CHOOSE s : Sums(s, g, v[j], n) /\ Pair(g, v[j]) = s[n]
           partial(l) == [j \in 1 .. k |-> S(j)[l]]
           row(i) == [j \in 1 .. k |-> v[j][i]]
           T == {l \in 0 .. n : Pair(partial(l), c) = Zero}
<1>1. \A j \in 1 .. k : v[j] \in Vec(n)
  OBVIOUS
<1>2. \A j \in 1 .. k : Sums(S(j), g, v[j], n) /\ Pair(g, v[j]) = S(j)[n]
  <2>1. ASSUME NEW j \in 1 .. k
        PROVE  \E s : Sums(s, g, v[j], n) /\ Pair(g, v[j]) = s[n]
    BY <1>1, PairSums
  <2>2. QED
    BY <2>1
<1> HIDE DEF S
<1>3. \A l \in 0 .. n : partial(l) \in Vec(k)
  BY <1>2 DEF Sums, Vec
<1>4. \A i \in 1 .. n : row(i) \in Vec(k)
  BY <1>1 DEF Vec
<1>5. 0 \in T
  <2>1. IsZero(partial(0))
    BY <1>2 DEF Sums, IsZero
  <2>2. Pair(partial(0), c) = Zero
    BY <1>3, <2>1, PairZero
  <2>3. QED
    BY <2>2
<1>6. ASSUME NEW i \in 1 .. n, i - 1 \in T PROVE i \in T
  <2>1. i - 1 \in 0 .. n /\ i \in 0 .. n /\ g[i] \in Rationals
    BY DEF Vec
  <2>2. partial(i) = AddScaled(partial(i - 1), g[i], row(i))
    <3>1. \A j \in 1 .. k : S(j)[i] = Sum2(S(j)[i - 1], Product(g[i], v[j][i]))
      BY <1>2 DEF Sums
    <3>2. QED
      BY <3>1 DEF AddScaled
  <2>3. partial(i - 1) \in Vec(k) /\ row(i) \in Vec(k) /\ Pair(row(i), c) = Zero
        /\ Pair(partial(i - 1), c) = Zero
    BY <1>3, <1>4, <1>6, <2>1
  <2> HIDE DEF partial, row
  <2>4. Pair(partial(i), c) = Sum2(Pair(partial(i - 1), c), Product(g[i], Pair(row(i), c)))
    BY <2>1, <2>2, <2>3, PairAddScaled
  <2>5. Product(g[i], Zero) = Zero /\ Sum2(Zero, Zero) = Zero
    BY <2>1, Neutral, ZeroIs
  <2>6. QED
    BY <2>1, <2>3, <2>4, <2>5
<1> HIDE DEF T
<1>7. 0 .. n \subseteq T
  BY <1>5, <1>6, IntervalInduction
<1>8. Pair(partial(n), c) = Zero
  BY <1>7 DEF T
<1>9. partial(n) = [j \in 1 .. k |-> Pair(g, v[j])]
  BY <1>2
<1>10. QED
  BY <1>8, <1>9

\* A pairing with a single term.
LEMMA PairSingle ==
  ASSUME NEW k \in Nat, NEW x \in Vec(k), NEW c \in Vec(k), NEW i \in 1 .. k,
         \A j \in 1 .. k : j # i => x[j] = Zero \/ c[j] = Zero
  PROVE  Pair(x, c) = Product(x[i], c[i])
<1> DEFINE term == Product(x[i], c[i])
           s == [l \in 0 .. k |-> IF l < i THEN Zero ELSE term]
<1>1. \A j \in 1 .. k : x[j] \in Rationals /\ c[j] \in Rationals
  BY DEF Vec
<1>2. term \in Rationals
  BY <1>1, FieldClosed
<1> HIDE DEF term
<1>3. ASSUME NEW l \in 1 .. k PROVE s[l] = Sum2(s[l - 1], Product(x[l], c[l]))
  <2>1. CASE l = i
    <3>1. s[l] = term /\ s[l - 1] = Zero
      BY <2>1
    <3>2. Sum2(Zero, term) = term
      BY <1>2, Neutral
    <3>3. QED
      BY <2>1, <3>1, <3>2 DEF term
  <2>2. CASE l # i
    <3>1. Product(x[l], c[l]) = Zero
      BY <1>1, <2>2, Neutral
    <3>2. s[l] = s[l - 1] /\ s[l] \in Rationals
      BY <1>2, <2>2, ZeroIs
    <3>3. Sum2(s[l], Zero) = s[l]
      BY <3>2, Neutral
    <3>4. QED
      BY <3>1, <3>2, <3>3
  <2>3. QED
    BY <2>1, <2>2
<1>4. s \in [0 .. k -> Rationals] /\ s[0] = Zero
  BY <1>2, ZeroIs
<1>5. s[k] = term
  OBVIOUS
<1> HIDE DEF s
<1>6. Sums(s, x, c, k)
  BY <1>3, <1>4 DEF Sums
<1>7. QED
  BY <1>5, <1>6, PairIs DEF term

\* There are no more vectors than coefficients that a triangular system of covectors
\* tells apart.
LEMMA Independence ==
  ASSUME NEW n \in Nat, NEW v \in [1 .. n + 1 -> Vec(n)], NEW w \in [1 .. n + 1 -> Vec(n)],
         \A i \in 1 .. n + 1 : Pair(w[i], v[i]) # Zero,
         \A i \in 1 .. n + 1 : \A j \in 1 .. i - 1 : Pair(w[i], v[j]) = Zero
  PROVE  FALSE
<1> DEFINE rows == [i \in 1 .. n |-> [j \in 1 .. n + 1 |-> v[j][i]]]
<1>1. \A j \in 1 .. n + 1 : v[j] \in Vec(n) /\ w[j] \in Vec(n)
  OBVIOUS
<1>2. rows \in [1 .. n -> Vec(n + 1)]
  BY <1>1 DEF Vec
<1>3. \A i \in 1 .. n : rows[i] = [j \in 1 .. n + 1 |-> v[j][i]]
  OBVIOUS
<1> HIDE DEF rows
<1>4. PICK c \in Vec(n + 1) : ~IsZero(c) /\ \A i \in 1 .. n : Pair(rows[i], c) = Zero
  BY <1>2, KernelExists DEF Underdetermined
<1>5. ASSUME NEW g \in Vec(n) PROVE Pair([j \in 1 .. n + 1 |-> Pair(g, v[j])], c) = Zero
  <2>1. \A i \in 1 .. n : Pair([j \in 1 .. n + 1 |-> v[j][i]], c) = Zero
    BY <1>3, <1>4
  <2>2. n + 1 \in Nat
    OBVIOUS
  <2>3. QED
    BY <2>1, <2>2, CombinationVanishes
<1> DEFINE N == {k \in Nat : k <= n /\ c[n + 1 - k] # Zero}
<1>6. N # {}
  <2>1. PICK j \in 1 .. n + 1 : c[j] # Zero
    BY <1>4 DEF IsZero, Vec
  <2>2. n + 1 - j \in N
    BY <2>1
  <2>3. QED
    BY <2>2
<1>7. PICK m \in N : \A k \in N : m <= k
  BY <1>6, LeastNatural
<1> DEFINE i == n + 1 - m
<1>8. i \in 1 .. n + 1 /\ c[i] # Zero
  BY <1>7
<1>9. ASSUME NEW j \in 1 .. n + 1, j > i PROVE c[j] = Zero
  <2>1. n + 1 - j \in Nat /\ n + 1 - j <= n /\ n + 1 - j < m /\ n + 1 - (n + 1 - j) = j
    BY <1>7, <1>9
  <2>2. n + 1 - j \notin N
    <3>1. m \in Nat /\ \A k \in N : m <= k
      BY <1>7
    <3> HIDE DEF N
    <3>2. QED
      BY <2>1, <3>1
  <2>3. QED
    BY <2>1, <2>2
<1> HIDE DEF i, N
<1> DEFINE x == [j \in 1 .. n + 1 |-> Pair(w[i], v[j])]
<1>10. x \in Vec(n + 1)
  <2>1. \A j \in 1 .. n + 1 : Pair(w[i], v[j]) \in Rationals
    BY <1>1, <1>8, PairType
  <2>2. QED
    BY <2>1 DEF Vec
<1>11. \A j \in 1 .. n + 1 : j # i => x[j] = Zero \/ c[j] = Zero
  <2>1. \A j \in 1 .. n + 1 : j # i => j \in 1 .. i - 1 \/ j > i
    BY <1>8
  <2>2. QED
    BY <1>8, <1>9, <2>1
<1>12. Pair(x, c) = Zero
  BY <1>1, <1>5, <1>8
<1>13. x[i] # Zero /\ x[i] \in Rationals /\ c[i] \in Rationals
  BY <1>8, <1>10 DEF Vec
<1> HIDE DEF x
<1>14. Pair(x, c) = Product(x[i], c[i])
  BY <1>8, <1>10, <1>11, PairSingle
<1>15. QED
  BY <1>8, <1>12, <1>13, <1>14, ProductSigns
=============================================================================
