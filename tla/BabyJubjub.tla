----------------------------- MODULE BabyJubjub -----------------------------
(***************************************************************************)
(* Points of a twisted Edwards curve A x^2 + y^2 = 1 + D x^2 y^2 in        *)
(* projective coordinates (crypto/babyjubjub.rs of crates/tornadocash/     *)
(* core), with the code's A and D over any prime field.                    *)
(***************************************************************************)
EXTENDS Integers, Sequences

CONSTANTS
  Q,      \* the field's prime
  L,      \* the prime order of the subgroup: a curve has 8 * L points
  WIDTH   \* the bits of a scalar

A == 168700 % Q
D == 168696 % Q

Fr == 0..(Q - 1)
Times(a, b) == (a * b) % Q
Minus(a, b) == (a - b) % Q
Square(a) == Times(a, a)
Inverses == [z \in Fr \ {0} |-> CHOOSE w \in Fr : Times(z, w) = 1]

TwoTo[n \in 0..WIDTH] == IF n = 0 THEN 1 ELSE 2 * TwoTo[n - 1]

OnCurve(x, y) == (Times(A, Square(x)) + Square(y)) % Q = (1 + Times(D, Times(Square(x), Square(y)))) % Q
Points == {p \in {[x |-> x, y |-> y] : x, y \in Fr} : OnCurve(p.x, p.y)}

\* Fr is a field of odd characteristic, A has a root in it and D has none.
ASSUME CurveAssumption ==
  /\ Q \in Nat /\ Q % 2 = 1
  /\ \A z \in Fr \ {0} : \E w \in Fr : Times(z, w) = 1
  /\ \E r \in Fr \ {0} : Square(r) = A
  /\ \A r \in Fr : Square(r) # D
ASSUME ScalarAssumption == L \in Nat /\ L > 8 /\ WIDTH \in Nat /\ L < TwoTo[WIDTH]
-----------------------------------------------------------------------------
Identity == [x |-> 0, y |-> 1]
Projective(p) == [x |-> p.x, y |-> p.y, z |-> 1]

Affine(p) ==
  IF p.z = 0 THEN [x |-> 0, y |-> 0]
  ELSE [x |-> Times(p.x, Inverses[p.z]), y |-> Times(p.y, Inverses[p.z])]

\* add, by the formulas add-2008-bbjlp.
Cross(p, q, c, dxy) == (Times(p.x + p.y, q.x + q.y) - c - dxy) % Q
Add(p, q) ==
  LET a == Times(p.z, q.z)
      b == Square(a)
      c == Times(p.x, q.x)
      dxy == Times(p.y, q.y)
      e == Times(Times(D, c), dxy)
      f == Minus(b, e)
      g == (b + e) % Q
  IN  [x |-> Times(Times(a, f), Cross(p, q, c, dxy)),
       y |-> Times(Times(a, g), Minus(dxy, Times(A, c))),
       z |-> Times(f, g)]

\* mul_scalar: double and add, over the bits of the scalar's magnitude.
Magnitude(n) == IF n < 0 THEN -n ELSE n
Bits(n) ==
  CHOOSE i \in 0..WIDTH : TwoTo[i] > Magnitude(n) /\ \A j \in 0..(i - 1) : TwoTo[j] <= Magnitude(n)
TestBit(n, i) == (Magnitude(n) \div TwoTo[i]) % 2 = 1
MulScalar(p, n) ==
  LET step[i \in 0..WIDTH] ==
        IF i = 0 THEN [r |-> Projective(Identity), exp |-> Projective(p)]
        ELSE LET s == step[i - 1]
             IN  [r |-> IF TestBit(n, i - 1) THEN Add(s.r, s.exp) ELSE s.r,
                  exp |-> Add(s.exp, s.exp)]
  IN  Affine(step[Bits(n)].r)
-----------------------------------------------------------------------------
\* The group law in affine coordinates.
PointSum(p, q) ==
  LET t == Times(D, Times(Times(p.x, q.x), Times(p.y, q.y)))
  IN  [x |-> Times(Times(p.x, q.y) + Times(p.y, q.x), Inverses[(1 + t) % Q]),
       y |-> Times(Minus(Times(p.y, q.y), Times(A, Times(p.x, q.x))), Inverses[Minus(1, t)])]

\* p + ... + p, n times.
Multiple(p, n) == LET m[i \in 0..n] == IF i = 0 THEN Identity ELSE PointSum(m[i - 1], p) IN m[n]

\* The points whose order divides L are a group: that the sum is associative is what
\* the theory of the curve says.
InSubgroup(p) == MulScalar(p, L) = Identity
Subgroup == {p \in Points : InSubgroup(p)}
ASSUME SubgroupAssumption ==
  /\ \A p, q \in Subgroup : PointSum(p, q) \in Subgroup
  /\ \A p, q, r \in Subgroup : PointSum(PointSum(p, q), r) = PointSum(p, PointSum(q, r))

\* Any two points of the curve are added without an exception, however they are
\* scaled: the third coordinate is never zero, so that affine never answers with its
\* makeshift point, and the sum is that of the group law (add, affine).
AddIsComplete ==
  \A p, q \in Points :
    LET scaled == [x |-> Times(2, q.x), y |-> Times(2, q.y), z |-> 2]
        sum == Add(Projective(p), scaled)
    IN  sum.z # 0 /\ Affine(sum) = PointSum(p, q)

\* A point times a scalar is the point added up that often, up to and beyond the
\* order of the subgroup (mul_scalar).
MulScalarIsRepeatedAdd ==
  \A p \in Points : \A n \in {0, 1, 2, 3, 8, L - 1, L, L + 1} : MulScalar(p, n) = Multiple(p, n)
=============================================================================
