----------------------------- MODULE MimcSponge -----------------------------
(***************************************************************************)
(* The hash of two children of the pool's Merkle tree: a Feistel network   *)
(* of MiMC rounds used as a sponge (crypto/mimc.rs of                      *)
(* crates/tornadocash/core), over any prime field and any round constants. *)
(*                                                                         *)
(* A definition D_Suffix is D with a plausible bug.                        *)
(***************************************************************************)
EXTENDS Naturals, SequencesExt

CONSTANTS
  P,   \* the field's prime
  C    \* the round constants (CONSTANTS)

Elements == 0..(P - 1)

ASSUME SpongeAssumption ==
  /\ P \in Nat \ {0, 1}
  /\ C \in Seq(Elements) /\ Len(C) >= 2 /\ C[1] = 0
-----------------------------------------------------------------------------
Pow5(t) ==
  LET t2 == (t * t) % P
  IN  (((t2 * t2) % P) * t) % P

\* Half a round: what is added to the right half.
Added(s, t) == (s[2] + Pow5(t % P)) % P

\* A round that swaps the halves, and the last one, which does not.
Round(s, t) == <<Added(s, t), s[1]>>
LastRound_Swapped(s, t) == Round(s, t)
LastRound(s, t) == <<s[1], Added(s, t)>>

\* hash: the first round takes no constant.
MimcHash(xl, xr, k) ==
  LET first == Round(<<xl, xr>>, xl + k)
      inner == FoldLeft(LAMBDA s, c : Round(s, s[1] + k + c), first, SubSeq(C, 2, Len(C) - 1))
  IN  LastRound(inner, inner[1] + k + C[Len(C)])

\* multi_hash: the state after all elements were taken in, and the outputs.
Absorbed(arr, key) ==
  FoldLeft(LAMBDA s, e : MimcHash((s[1] + e) % P, s[2], key), <<0, 0>>, arr)
MultiHash(arr, key, numOutputs) ==
  LET state[i \in 1..numOutputs] ==
        IF i = 1 THEN Absorbed(arr, key) ELSE MimcHash(state[i - 1][1], state[i - 1][2], key)
  IN  [i \in 1..numOutputs |-> state[i][1]]

MimcSpongeHash(left, right) == MultiHash(<<left, right>>, 0, 1)[1]
-----------------------------------------------------------------------------
\* The halves of all rounds are one sequence: each is the one before the last plus
\* the fifth power of the last, the key and the round's constant.
Halves(xl, xr, k) ==
  LET x[i \in 0..(Len(C) + 1)] ==
        IF i = 0 THEN xr ELSE IF i = 1 THEN xl
        ELSE LET t == x[i - 1] + k + C[i - 1] IN (x[i - 2] + t * t * t * t * t) % P
  IN  x

\* Hashing two children, by the recurrence: the left one, then its result and the
\* right one (multi_hash).
ReferenceHash(xl, xr, k) == <<Halves(xl, xr, k)[Len(C)], Halves(xl, xr, k)[Len(C) + 1]>>
SpongeReference(left, right) ==
  LET once == ReferenceHash(left, 0, 0)
  IN  ReferenceHash((once[1] + right) % P, once[2], 0)[1]

\* Every key permutes the pairs, so that a row of children is never lost before it is
\* cut to one element (hash).
MimcPermutes ==
  \A k \in Elements : {MimcHash(s[1], s[2], k) : s \in Elements \X Elements} = Elements \X Elements
=============================================================================
