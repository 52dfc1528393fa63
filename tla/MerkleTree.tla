------------------------------ MODULE MerkleTree ------------------------------
(***************************************************************************)
(* The fixed-depth Merkle tree of crates/merkle-tree: one vector of nodes  *)
(* per level, brought up to date by `splice`, which overwrites or appends  *)
(* leaves and rehashes, level by level, the parents they may have changed. *)
(* Nodes past the end of a level are empty subtrees.                       *)
(*                                                                         *)
(* `new` and `splice` are loops over the levels: a step is one iteration.  *)
(* Both own the tree while they run, so nothing reads it in between, and   *)
(* what holds of the tree is stated for when it is Idle.  Hash is any      *)
(* function; positions count from 1 where the code counts from 0.          *)
(*                                                                         *)
(* A definition D_Suffix is D with a plausible bug, used by no action.     *)
(***************************************************************************)
EXTENDS Integers, Sequences

CONSTANTS
  Depth, Arity,
  Zero,        \* the empty leaf
  Hash(_),     \* of Arity children
  Hashes,      \* the values a node of each level may have
  Batches      \* the leaves a caller may splice in at once

ASSUME ShapeAssumption == Depth \in Nat /\ Arity \in Nat \ {0, 1}

ASSUME HashAssumption ==
  /\ Zero \in Hashes[0]
  /\ \A l \in 1..Depth : \A row \in [1..Arity -> Hashes[l - 1]] : Hash(row) \in Hashes[l]

ASSUME BatchAssumption == Batches \subseteq Seq(Hashes[0])

VARIABLES
  nodes,       \* nodes[0] holds the leaves, nodes[l] the hashes at level l
  zeros,       \* the hash of an empty subtree of each level, from level 0
  level,       \* the level a splice is about to hash, 0 when there is none
  start, stop  \* what the splice has changed in the level below, stop exclusive

vars == <<nodes, zeros, level, start, stop>>

-----------------------------------------------------------------------------
AtLeast(a, b) == IF a < b THEN b ELSE a

\* Arity to the power of a number of levels.
Power[n \in 0..Depth] == IF n = 0 THEN 1 ELSE Arity * Power[n - 1]
Capacity == Power[Depth]

CeilDiv_RoundedDown(n) == n \div Arity
CeilDiv(n) == (n + Arity - 1) \div Arity

\* The node at a position of a level, an empty subtree past its end.
Node(l, k) == IF k \in DOMAIN nodes[l] THEN nodes[l][k] ELSE zeros[l + 1]

\* The children of the node at position k of level l + 1.
Row(l, k) == [j \in 1..Arity |-> Node(l, (k - 1) * Arity + j)]

Root == Node(Depth, 1)

\* The tree has been built and no splice is under way.
Built == Len(zeros) = Depth + 1
Idle == Built /\ level = 0

Init ==
  /\ nodes = [l \in 0..Depth |-> <<>>]
  /\ zeros = <<Zero>>
  /\ level = 0
  /\ start = 0
  /\ stop = 0

\* zero_hashes: the empty subtree of the next level.
PushZero ==
  /\ ~ Built
  /\ zeros' = Append(zeros, Hash([j \in 1..Arity |-> zeros[Len(zeros)]]))
  /\ UNCHANGED <<nodes, level, start, stop>>

\* Leaves from `index` on are overwritten, the level grows when they reach
\* past its end.
Overwritten(index, batch) ==
  [k \in 1..AtLeast(index + Len(batch), Len(nodes[0])) |->
     IF k \in (index + 1)..(index + Len(batch)) THEN batch[k - index] ELSE nodes[0][k]]

\* The caller's leaves start within the tree or right behind it, and fit.
Fits(index, batch) ==
  index <= Len(nodes[0]) /\ index + Len(batch) <= Capacity

Splice(index, batch) ==
  /\ Idle
  /\ batch # <<>>
  /\ Fits(index, batch)
  /\ nodes' = [nodes EXCEPT ![0] = Overwritten(index, batch)]
  /\ level' = IF Depth = 0 THEN 0 ELSE 1
  /\ start' = index
  /\ stop' = index + Len(batch)
  /\ UNCHANGED zeros

\* No leaves, an index out of bounds or a full tree: nothing changes.
Refuse(index, batch) ==
  /\ Idle
  /\ batch = <<>> \/ ~ Fits(index, batch)
  /\ UNCHANGED vars

\* One round of splice: hash the parents of what changed in the level below.
Rehashed_NothingAdded(l, from, to) ==
  [k \in 1..Len(nodes[l]) |->
     IF k \in (from + 1)..to THEN Hash(Row(l - 1, k)) ELSE nodes[l][k]]
Rehashed(l, from, to) ==
  [k \in 1..AtLeast(to, Len(nodes[l])) |->
     IF k \in (from + 1)..to THEN Hash(Row(l - 1, k)) ELSE Node(l, k)]

HashLevel ==
  /\ level > 0
  /\ start' = start \div Arity
  /\ stop' = CeilDiv(stop)
  /\ nodes' = [nodes EXCEPT ![level] = Rehashed(level, start', stop')]
  /\ level' = IF level = Depth THEN 0 ELSE level + 1
  /\ UNCHANGED zeros

Next ==
  \/ PushZero
  \/ \E index \in 0..(Len(nodes[0]) + 1), batch \in Batches :
       Splice(index, batch) \/ Refuse(index, batch)
  \/ HashLevel

Spec == Init /\ [][Next]_vars
-----------------------------------------------------------------------------
\* proof: the row of children at each level of the way up from a leaf, and the
\* place of the way in each row.  Both are numbered from level 0.
Ancestors(index) ==
  LET at[l \in 0..Depth] == IF l = 0 THEN index ELSE at[l - 1] \div Arity IN at
Ancestor(index, l) == Ancestors(index)[l]
Siblings_OfTheNode(index) == [l \in 0..(Depth - 1) |-> Row(l, Ancestor(index, l) + 1)]
Siblings(index) == [l \in 0..(Depth - 1) |-> Row(l, Ancestor(index, l + 1) + 1)]
Proof(index) ==
  [leaf |-> nodes[0][index + 1],
   siblings |-> Siblings(index),
   path |-> [l \in 0..(Depth - 1) |-> Ancestor(index, l) % Arity],
   root |-> Root]

\* verify: hash the leaf up along the path.
Verify(proof) ==
  LET hash[l \in 0..Depth] ==
        IF l = 0 THEN proof.leaf
        ELSE Hash([proof.siblings[l - 1] EXCEPT ![proof.path[l - 1] + 1] = hash[l - 1]])
  IN  hash[Depth] = proof.root

\* leaf_proof proves the first leaf that is equal.
FirstWith(leaf) ==
  CHOOSE k \in DOMAIN nodes[0] :
    nodes[0][k] = leaf /\ \A j \in 1..(k - 1) : nodes[0][j] # leaf
LeafProof(leaf) == Proof(FirstWith(leaf) - 1)
-----------------------------------------------------------------------------
\* Every node has a value of its level, and a level holds a parent for each
\* Arity nodes of the level below, the levels still to be hashed excepted.
TypeOK ==
  /\ DOMAIN nodes = 0..Depth
  /\ \A l \in 0..Depth : nodes[l] \in Seq(Hashes[l])
  /\ zeros \in Seq(UNION {Hashes[l] : l \in 0..Depth})
  /\ Len(zeros) \in 1..(Depth + 1)
  /\ \A l \in 1..Len(zeros) : zeros[l] \in Hashes[l - 1]
  /\ level \in 0..Depth /\ start \in Nat /\ stop \in Nat
  /\ \A l \in 1..Depth :
       level = 0 \/ l < level => Len(nodes[l]) = CeilDiv(Len(nodes[l - 1]))

\* After any sequence of splices, aligned to Arity or not, every node is the
\* hash of its children, those beyond the end of a level included, which are
\* the hashes of empty rows (splice's incremental update).
HashesChildren ==
  Idle => \A l \in 1..Depth : \A k \in 1..Capacity : Node(l, k) = Hash(Row(l - 1, k))

\* The proof of a leaf verifies, and so does that of the first leaf equal to it.
ProvesItsLeaf(index) ==
  LET proof == Proof(index)
      first == LeafProof(nodes[0][index + 1])
  IN  Verify(proof) /\ Verify(first) /\ first.leaf = proof.leaf

\* With another leaf in its place it does not.
ProvesNoOther(index) ==
  \A leaf \in Hashes[0] \ {nodes[0][index + 1]} : ~ Verify([Proof(index) EXCEPT !.leaf = leaf])

\* The proof of every leaf verifies, that of a leaf looked up by value too, and
\* none does for another leaf in its place (proof, leaf_proof, verify).
ProofsVerify ==
  Idle => \A index \in 0..(Len(nodes[0]) - 1) : ProvesItsLeaf(index) /\ ProvesNoOther(index)

\* No two rows of a level have the same hash.
CollisionFree ==
  \A l \in 1..Depth : \A r, s \in [1..Arity -> Hashes[l - 1]] : Hash(r) = Hash(s) => r = s
===============================================================================
