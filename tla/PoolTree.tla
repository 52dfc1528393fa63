------------------------------ MODULE PoolTree ------------------------------
(***************************************************************************)
(* A pool's Merkle tree beside the tree its contract keeps: the client     *)
(* splices batches of commitments into MerkleTree and hashes them with     *)
(* MimcSponge (merkle_tree.rs of crates/tornadocash/core); the contract,   *)
(* MerkleTreeWithHistory, inserts one commitment after the other and       *)
(* stores only the last left node of each level.                           *)
(*                                                                         *)
(* MerkleTree's nodes are symbolic here, the rows of their children.  From *)
(* the values of the leaves a Digests function gives each its value in the *)
(* field.                                                                  *)
(***************************************************************************)
EXTENDS MerkleTree, MimcSponge

CONSTANT
  ZeroDigest    \* TornadoHasher::zero

ASSUME PoolTreeAssumption == Arity = 2 /\ ZeroDigest \in Elements

\* A node is the row of its children.
ASSUME SymbolicAssumption ==
  \A l \in 1..Depth : Hashes[l] = [1..Arity -> Hashes[l - 1]] /\ \A row \in Hashes[l] : Hash(row) = row

\* TornadoHasher::hash, over all pairs.
HashedPairs == [pair \in Elements \X Elements |-> MimcSpongeHash(pair[1], pair[2])]

\* The values that leaves may have, and for each the values of all nodes.
Values == {value \in [Hashes[0] -> Elements] : value[Zero] = ZeroDigest}
DigestsFor(value) ==
  LET at[l \in 0..Depth] ==
        IF l = 0 THEN value
        ELSE LET below == at[l - 1]
             IN  [row \in Hashes[l] |-> HashedPairs[<<below[row[1]], below[row[2]]>>]]
  IN  at
Digests == [value \in Values |-> DigestsFor(value)]
-----------------------------------------------------------------------------
(* The contract. *)

\* hashLeftRight: two rounds of the sponge, written as a recurrence.
Reference == [pair \in Elements \X Elements |-> SpongeReference(pair[1], pair[2])]

ContractZeros ==
  LET zero[l \in 0..Depth] == IF l = 0 THEN ZeroDigest ELSE Reference[<<zero[l - 1], zero[l - 1]>>]
  IN  zero

\* _insert: at each level the new node is the left one of its pair, and is stored, or
\* the right one of the stored node.
ContractInsert(filled, index, leaf) ==
  LET at == Ancestors(index)
      LeftOf(l) == at[l] % 2 = 0
      up[l \in 0..Depth] ==
        IF l = 0 THEN leaf
        ELSE IF LeftOf(l - 1) THEN Reference[<<up[l - 1], ContractZeros[l - 1]>>]
        ELSE Reference[<<filled[l - 1], up[l - 1]>>]
  IN  [filled |-> [l \in 0..(Depth - 1) |-> IF LeftOf(l) THEN up[l] ELSE filled[l]],
       root |-> up[Depth]]

ContractRoot(leaves) ==
  LET after[n \in 0..Len(leaves)] ==
        IF n = 0 THEN [filled |-> [l \in 0..(Depth - 1) |-> ContractZeros[l]], root |-> ZeroDigest]
        ELSE ContractInsert(after[n - 1].filled, n - 1, leaves[n])
  IN  after[Len(leaves)].root
-----------------------------------------------------------------------------
\* Whatever batches the client spliced, overwriting some, its root is the root the
\* contract computes from the same commitments one at a time, hash for hash: a proof
\* made against it is made against a root the pool knows (TornadoHasher, splice).
RootIsContracts ==
  Idle /\ nodes[0] # <<>> =>
    \A value \in Values :
      Digests[value][Depth][Root] = ContractRoot([k \in DOMAIN nodes[0] |-> value[nodes[0][k]]])
==============================================================================
