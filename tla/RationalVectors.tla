--------------------------- MODULE RationalVectors ---------------------------
(***************************************************************************)
(* The arithmetic the direction policies do on blocks of coefficients:     *)
(* pairing, scaling and adding.  A double is an exact rational, a sequence *)
(* <<numerator, denominator>> in lowest terms with a positive denominator; *)
(* a block is a sequence of rationals.  Rounding is not modelled.          *)
(***************************************************************************)
EXTENDS Integers, Sequences

Magnitude(n) == IF n < 0 THEN -n ELSE n
Gcd[p \in Nat \X Nat] == IF p[2] = 0 THEN p[1] ELSE Gcd[<<p[2], p[1] % p[2]>>]

Rat(n, d) ==
  LET g == Gcd[<<Magnitude(n), Magnitude(d)>>]
      s == IF d < 0 THEN -1 ELSE 1
  IN  <<(s * n) \div g, (s * d) \div g>>

Zero == <<0, 1>>
One == <<1, 1>>
Rationals == {r \in Int \X (Nat \ {0}) : Gcd[<<Magnitude(r[1]), r[2]>>] = 1}

\* By the least common denominator, to stay within TLC's integers.
Sum2(p, q) ==
  LET g == Gcd[<<p[2], q[2]>>]
  IN  Rat(p[1] * (q[2] \div g) + q[1] * (p[2] \div g), p[2] * (q[2] \div g))
Product(p, q) == Rat(p[1] * q[1], p[2] * q[2])
Inverted(p) == Rat(p[2], p[1])
Quotient(p, q) == Product(p, Inverted(q))
Negated(p) == <<-p[1], p[2]>>
Difference(p, q) == Sum2(p, Negated(q))
Positive(p) == p[1] > 0
AtMost(p, q) == Difference(p, q)[1] <= 0
Larger(p, q) == IF AtMost(p, q) THEN q ELSE p

\* pair: the sum of the products of the coefficients.
Pair(x, y) ==
  LET sum[i \in 0 .. Len(x)] ==
        IF i = 0 THEN Zero ELSE Sum2(sum[i - 1], Product(x[i], y[i]))
  IN  sum[Len(x)]
Scaled(factor, x) == [i \in DOMAIN x |-> Product(factor, x[i])]
\* x + factor * y
AddScaled(x, factor, y) == [i \in DOMAIN x |-> Sum2(x[i], Product(factor, y[i]))]
Minus1 == Rat(-1, 1)
Subtracted(x, y) == AddScaled(x, Minus1, y)
Opposite(x) == Scaled(Minus1, x)
IsZero(x) == \A i \in DOMAIN x : x[i] = Zero

\* A matrix is a sequence of rows.
Vec(n) == [1 .. n -> Rationals]
Mat(n) == [1 .. n -> Vec(n)]
Apply(matrix, x) == [i \in DOMAIN matrix |-> Pair(matrix[i], x)]
Whole(ints) == [i \in DOMAIN ints |-> Rat(ints[i], 1)]
WholeMatrix(rows) == [i \in DOMAIN rows |-> Whole(rows[i])]
=============================================================================
