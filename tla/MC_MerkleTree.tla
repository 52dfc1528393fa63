----------------------------- MODULE MC_MerkleTree -----------------------------
(***************************************************************************)
(* Small instances of MerkleTree with a symbolic hash: the hash of a row   *)
(* is the row itself, so that different rows have different hashes.  Its   *)
(* nodes' values are those of MimcSponge over a field of 37 elements.      *)
(* What holds of the hashes and the curve for every input is assumed, so   *)
(* that TLC evaluates it.                                                  *)
(***************************************************************************)
EXTENDS JsTree, Pedersen

CONSTANT Leaf

Row_(children) == children

Leaves == {Zero, Leaf}
\* The trees of each height over Leaves, as nested rows.
Trees[l \in 0..Depth] == IF l = 0 THEN Leaves ELSE [1..Arity -> Trees[l - 1]]

\* Batches shorter and longer than a row, and one that fills the tree.
Lengths == {0, 1, 3, Capacity}
SomeBatches == {<<>>} \cup {[k \in 1..n |-> Leaf] : n \in Lengths \ {0}}
                 \cup {<<Zero>>, <<Leaf, Zero>>, <<Zero, Zero, Leaf>>}

\* Leaves are the digests four, for no leaf, and nine.
LeafOf_(element) == IF element = ZeroDigest THEN Zero ELSE Leaf
TextOf(leaf) == FromField(IF leaf = Zero THEN ZeroDigest ELSE 9)

\* Texts without 0x, with half a byte or a character that is no digit, a byte short or
\* long, and of words beyond the field, whose residue is four.
BadTexts ==
  {Text(FALSE, Digits(<<9>>)), Text(TRUE, <<0, 0, 1>>), Text(TRUE, <<0, 0, 1, RADIX>>),
   Text(TRUE, <<0, 1>>), Text(TRUE, <<0, 0, 0, 0, 0, 1>>), Text(TRUE, Digits(<<41>>))}
BadStarts ==
  {Number(-1), Number(U32_MAX + 1), Number(U32_MAX + 2), Fraction, NonFinite, BigInt(0), Undefined}
Call(from, commitments) == [from |-> from, commitments |-> commitments]
SomeCalls ==
  {Call(Number(n), [k \in DOMAIN batch |-> TextOf(batch[k])]) :
     n \in 0..(Capacity + 1), batch \in SomeBatches}
    \cup {Call(from, <<TextOf(Leaf)>>) : from \in BadStarts}
    \cup {Call(Number(0), <<text>>) : text \in BadTexts}
    \cup {Call(Number(1), <<TextOf(Leaf), text>>) : text \in BadTexts}

\* Deposits and withdrawals, some cut, mined at no known block or at one that is no
\* bigint of its width, of leaves beyond 32 bits (19 is 3 in four bits), and logs of
\* other contracts.
Input(topics, data, block) ==
  [topics |-> topics, data |-> Text(TRUE, Digits(data)), blockNumber |-> block]
Topics(words) == [k \in DOMAIN words |-> FromField(words[k])]
SomeLogs ==
  {Input(Topics(<<DepositTopic, 9>>), <<index, 1>>, BigInt(1)) : index \in {0, 3, 19}}
    \cup {Input(Topics(<<DepositTopic, 41>>), <<1, 1>>, BigInt(1)),
          Input(Topics(<<DepositTopic, 9>>), <<1>>, BigInt(1)),
          Input(Topics(<<DepositTopic, 5, 5, 5, 5>>), <<1, 1>>, BigInt(1))}
    \cup {Input(Topics(<<DepositTopic, 9>>), <<1, 1>>, block) :
            block \in {BigInt(U64_MAX + 1), Number(2), Undefined, Null}}
    \cup {Input(Topics(<<WithdrawalTopic, 5>>), <<1, nullifierHash, 2>>, BigInt(3)) :
            nullifierHash \in {9, 41}}
    \cup {Input(<<>>, <<1>>, Undefined), Input(Topics(<<5, 5>>), <<1, 1>>, BigInt(1))}

\* Five rounds, the first and last with no constant, as in mimc_constants.rs.
RoundConstants == <<0, 3, 7, 2, 0>>

\* For each segment candidates that are no points, that have no sign to lose, and
\* that are points.
Blake(y, sign) == [y |-> y, sign |-> sign]
BlakeOutputs ==
  << <<Blake(500, FALSE), Blake(3, TRUE), Blake(4, TRUE), Blake(5, FALSE), Blake(6, FALSE)>>,
     <<Blake(12, TRUE), Blake(13, TRUE), Blake(14, FALSE), Blake(15, FALSE), Blake(17, FALSE)>>,
     <<Blake(30, FALSE), Blake(31, TRUE), Blake(32, FALSE), Blake(33, FALSE), Blake(37, FALSE)>> >>

\* The rows are their own hashes.
ASSUME HashFacts == CollisionFree
ASSUME SpongeFacts == MimcPermutes
ASSUME CurveFacts == AddIsComplete /\ MulScalarIsRepeatedAdd
ASSUME PedersenFacts == UnpackIsInverse /\ SegmentsInjective /\ PedersenIsReference
===============================================================================
