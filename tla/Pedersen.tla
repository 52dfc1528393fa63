------------------------------ MODULE Pedersen ------------------------------
(***************************************************************************)
(* The hash of a note's secrets (crypto/pedersen.rs of crates/tornadocash/ *)
(* core): the bits are cut into segments, a segment into windows, and each *)
(* segment's signed scalar multiplies a base point of its own.  Windows,   *)
(* segments and the field are small here, and Blake-256 is any sequence of *)
(* candidates.                                                             *)
(*                                                                         *)
(* A definition D_Suffix is D with a plausible bug.                        *)
(***************************************************************************)
EXTENDS BabyJubjub, SequencesExt

CONSTANTS
  WINDOW_SIZE,
  N_WINDOWS_PER_SEGMENT,
  Candidates,   \* what Blake-256 gives for each segment: [y, sign], in order
  NoPoint

BITS_PER_SEGMENT == WINDOW_SIZE * N_WINDOWS_PER_SEGMENT

\* The next window is this far up, to leave room for the sign.
Exponent == WINDOW_SIZE + 1

ASSUME PedersenAssumption ==
  /\ WINDOW_SIZE \in Nat \ {0, 1} /\ N_WINDOWS_PER_SEGMENT \in Nat \ {0}
  /\ Candidates \in Seq(Seq([y : Nat, sign : BOOLEAN])) /\ NoPoint \notin [x : Fr, y : Fr]
  /\ Exponent * N_WINDOWS_PER_SEGMENT <= WIDTH /\ TwoTo[Exponent * N_WINDOWS_PER_SEGMENT] <= 2 * L

Bitstrings(n) == [1..n -> BOOLEAN]
-----------------------------------------------------------------------------
(* Base points. *)

\* Which of its two roots the field's sqrt returns is its own affair.
Roots(v) == {r \in Fr : Square(r) = v}
Sqrt(v) == CHOOSE r \in Roots(v) : r % 2 = 1 \/ r = 0

\* unpack_point: the root at most half the field is taken, and the sign applied.
Normal(x) == IF x > Q \div 2 THEN Q - x ELSE x
UnpackPoint(buff) ==
  LET y2 == Square(buff.y)
      divisor == Minus(A, Times(D, y2))
      x2 == Times(Minus(1, y2), Inverses[divisor])
      x == Normal(Sqrt(x2))
  IN  IF buff.y >= Q \/ divisor = 0 THEN NoPoint
      ELSE IF Roots(x2) = {} THEN NoPoint
      ELSE [x |-> IF buff.sign THEN Minus(0, x) ELSE x, y |-> buff.y]

\* compute_base_point: the first candidate that is a point, times the cofactor.
Usable(s, i) ==
  /\ UnpackPoint(Candidates[s][i]) # NoPoint
  /\ InSubgroup(MulScalar(UnpackPoint(Candidates[s][i]), 8))
ComputeBasePoint(s) ==
  LET first == CHOOSE i \in DOMAIN Candidates[s] : Usable(s, i) /\ \A j \in 1..(i - 1) : ~ Usable(s, j)
  IN  MulScalar(UnpackPoint(Candidates[s][first]), 8)
BasePoint == [s \in DOMAIN Candidates |-> ComputeBasePoint(s)]

\* Each search ends.
ASSUME SearchAssumption == \A s \in DOMAIN Candidates : \E i \in DOMAIN Candidates[s] : Usable(s, i)
-----------------------------------------------------------------------------
(* Scalars and the hash. *)

\* segment_scalar: missing bits count as zeros, missing windows not at all.
Bit(bits, i) == i <= Len(bits) /\ bits[i]
Window(bits, at) ==
  LET acc[b \in 0..(WINDOW_SIZE - 1)] ==
        IF b = 0 THEN 1 ELSE acc[b - 1] + (IF Bit(bits, at + b) THEN TwoTo[b - 1] ELSE 0)
  IN  IF Bit(bits, at + WINDOW_SIZE) THEN -acc[WINDOW_SIZE - 1] ELSE acc[WINDOW_SIZE - 1]
SegmentScalar(bits) ==
  LET sum[w \in 0..N_WINDOWS_PER_SEGMENT] ==
        IF w = 0 THEN 0
        ELSE IF WINDOW_SIZE * (w - 1) >= Len(bits) THEN sum[w - 1]
        ELSE sum[w - 1] + Window(bits, WINDOW_SIZE * (w - 1)) * TwoTo[Exponent * (w - 1)]
  IN  sum[N_WINDOWS_PER_SEGMENT]

\* A negative scalar is lifted by the order of the subgroup.
Lifted_Dropped(scalar) == scalar
Lifted(scalar) == IF scalar < 0 THEN scalar + L ELSE scalar

Segments(len) == (IF len = 0 THEN 0 ELSE len - 1) \div BITS_PER_SEGMENT + 1
Segment(bits, s) ==
  SubSeq(bits, (s - 1) * BITS_PER_SEGMENT + 1,
         IF s * BITS_PER_SEGMENT < Len(bits) THEN s * BITS_PER_SEGMENT ELSE Len(bits))

Contribution(bits, s) == MulScalar(BasePoint[s], Lifted(SegmentScalar(Segment(bits, s))))

PedersenPoint(bits) ==
  LET acc[s \in 0..Segments(Len(bits))] ==
        IF s = 0 THEN Identity
        ELSE Affine(Add(Projective(acc[s - 1]), Projective(Contribution(bits, s))))
  IN  acc[Segments(Len(bits))]
PedersenHash(bits) == PedersenPoint(bits).x
-----------------------------------------------------------------------------
\* A compressed point is the point of the curve with that y, on the side of the sign,
\* whichever root the field returns; there is none exactly if no point has that y
\* (unpack_point).
UnpackIsInverse ==
  \A y \in 0..(2 * Q - 1), sign \in BOOLEAN :
    LET p == UnpackPoint([y |-> y, sign |-> sign])
    IN  IF p = NoPoint THEN ~ \E q \in Points : q.y = y
        ELSE p \in Points /\ p.y = y /\ (p.x # 0 => (p.x > Q \div 2 <=> sign))

\* Two segments of the same length with different bits have different points: the
\* exponent leaves room for the sign, and the scalars stay within the subgroup's order
\* (segment_scalar: "so that the signed-magnitude encoding is injective").
SegmentsInjective ==
  \A n \in 0..BITS_PER_SEGMENT : \A b, c \in Bitstrings(n) :
    b # c => MulScalar(BasePoint[1], Lifted(SegmentScalar(b))) # MulScalar(BasePoint[1], Lifted(SegmentScalar(c)))

\* The hash is the x of a sum of signed multiples of the base points, one for each
\* window there is, however the bits end within a window or a segment (pedersen_hash).
MaxBits == BITS_PER_SEGMENT * (Len(Candidates) - 1) + 1
WindowPoint(bits, w) ==
  LET at == WINDOW_SIZE * w
      \* the window's bits from the highest down, but for the sign
      value[k \in 0..(WINDOW_SIZE - 1)] ==
        IF k = 0 THEN 0 ELSE 2 * value[k - 1] + (IF Bit(bits, at + WINDOW_SIZE - k) THEN 1 ELSE 0)
      magnitude == 1 + value[WINDOW_SIZE - 1]
      signed == IF Bit(bits, at + WINDOW_SIZE) THEN -magnitude ELSE magnitude
      place == TwoTo[Exponent * (w % N_WINDOWS_PER_SEGMENT)]
  IN  Multiple(BasePoint[w \div N_WINDOWS_PER_SEGMENT + 1], (signed * place) % L)
PedersenReference(bits) ==
  LET windows == (Len(bits) + WINDOW_SIZE - 1) \div WINDOW_SIZE
      sum[w \in 0..windows] == IF w = 0 THEN Identity ELSE PointSum(sum[w - 1], WindowPoint(bits, w - 1))
  IN  sum[windows].x
PedersenIsReference ==
  \A n \in 0..MaxBits : \A bits \in Bitstrings(n) : PedersenHash(bits) = PedersenReference(bits)
=============================================================================
