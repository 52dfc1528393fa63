--------------------------- MODULE JsTreeProofs ---------------------------
(***************************************************************************)
(* Proofs about MerkleTree, for every depth, arity, hash function and      *)
(* sequence of splices: the incremental update leaves every node the hash  *)
(* of its children, and the proof of every leaf verifies for that leaf     *)
(* alone.  They rest on the assumptions of MerkleTree and cite no other.   *)
(*                                                                         *)
(* Then about MimcSponge and PoolTree, for every field and all round       *)
(* constants: the sponge is the recurrence that the pool's contract        *)
(* computes, and the client's root is the contract's.                      *)
(*                                                                         *)
(* Last about JsTree, for every width and all arguments: its tree is a     *)
(* MerkleTree, and a call takes what was passed or throws.                 *)
(***************************************************************************)
EXTENDS JsTree, SequenceTheorems, WellFoundedInduction, TLAPS

\* The place of a leaf's ancestor one level up.
LEMMA DivBounds ==
  ASSUME NEW x \in Nat
  PROVE  /\ x \div Arity \in Nat
         /\ (x \div Arity) * Arity <= x
         /\ x < (x \div Arity) * Arity + Arity
BY ShapeAssumption

\* Multiplying by the arity keeps the order and tells neighbours apart.
LEMMA ArityTimes ==
  ASSUME NEW x \in Nat, NEW y \in Nat
  PROVE  /\ x * Arity \in Nat
         /\ x <= y => x * Arity <= y * Arity
         /\ (x + 1) * Arity = x * Arity + Arity
BY ShapeAssumption

\* The number of rows it takes to hold x children.
LEMMA CeilDivBounds ==
  ASSUME NEW x \in Nat
  PROVE  /\ CeilDiv(x) \in Nat
         /\ x <= CeilDiv(x) * Arity
         /\ CeilDiv(x) * Arity < x + Arity
<1>1. x + Arity - 1 \in Nat
  BY ShapeAssumption
<1>2. QED BY <1>1, DivBounds, ShapeAssumption DEF CeilDiv

\* More children need no fewer rows, and a child's row is not behind the rows
\* of all children up to a later one.
LEMMA CeilDivMonotone ==
  ASSUME NEW x \in Nat, NEW y \in Nat, x <= y
  PROVE  CeilDiv(x) <= CeilDiv(y) /\ x \div Arity <= CeilDiv(y)
<1>1. ASSUME NEW c \in Nat, c * Arity < x + Arity, NEW d \in Nat, y <= d * Arity
      PROVE  c <= d
  <2>1. SUFFICES ASSUME d + 1 <= c PROVE FALSE
    BY <1>1
  <2>2. /\ (d + 1) * Arity <= c * Arity /\ (d + 1) * Arity = d * Arity + Arity
        /\ d * Arity \in Nat /\ c * Arity \in Nat
    BY <2>1, ArityTimes
  <2>3. QED BY <1>1, <2>2, ShapeAssumption
<1>2. CeilDiv(y) \in Nat /\ y <= CeilDiv(y) * Arity
  BY CeilDivBounds
<1>3. CeilDiv(x) \in Nat /\ CeilDiv(x) * Arity < x + Arity
  BY CeilDivBounds
<1>4. x \div Arity \in Nat /\ (x \div Arity) * Arity < x + Arity
  <2>1. x \div Arity \in Nat /\ (x \div Arity) * Arity <= x
    BY DivBounds
  <2>2. (x \div Arity) * Arity \in Nat
    BY <2>1, ArityTimes
  <2>3. QED BY <2>1, <2>2, ShapeAssumption
<1>5. QED BY <1>1, <1>2, <1>3, <1>4

\* The rows needed for the longer of two sequences of children.
LEMMA CeilDivLonger ==
  ASSUME NEW x \in Nat, NEW y \in Nat
  PROVE  CeilDiv(AtLeast(x, y)) = AtLeast(CeilDiv(x), CeilDiv(y))
BY CeilDivMonotone, CeilDivBounds DEF AtLeast

\* A row that is not among those of the children changed has none of them.
LEMMA RowUntouched ==
  ASSUME NEW a \in Nat, NEW b \in Nat, NEW k \in Nat \ {0}, NEW j \in 1..Arity,
         k <= a \div Arity \/ k > CeilDiv(b)
  PROVE  LET p == (k - 1) * Arity + j
         IN  p \in Nat \ {0} /\ (p <= a \/ p > b)
<1> DEFINE q == a \div Arity  c == CeilDiv(b)  p == (k - 1) * Arity + j
<1>1. q \in Nat /\ q * Arity <= a /\ c \in Nat /\ b <= c * Arity
  BY DivBounds, CeilDivBounds
<1>2. k - 1 \in Nat /\ (k - 1) * Arity \in Nat /\ k * Arity = (k - 1) * Arity + Arity
      /\ k * Arity \in Nat /\ q * Arity \in Nat /\ c * Arity \in Nat
  <2>1. k - 1 \in Nat /\ (k - 1) + 1 = k
    OBVIOUS
  <2>2. QED BY <2>1, <1>1, ArityTimes
<1>3. p \in Nat \ {0} /\ p <= k * Arity /\ p > (k - 1) * Arity
  BY <1>2, ShapeAssumption
<1>4. CASE k <= q
  <2>1. k * Arity <= q * Arity
    BY <1>4, <1>1, ArityTimes
  <2>2. QED BY <2>1, <1>1, <1>2, <1>3
<1>5. CASE k > c
  <2>1. c * Arity <= (k - 1) * Arity
    BY <1>5, <1>1, <1>2, ArityTimes
  <2>2. QED BY <2>1, <1>1, <1>2, <1>3
<1>6. QED BY <1>4, <1>5
-----------------------------------------------------------------------------
\* The stored parents of level l - 1 are the hashes of their rows, those of the
\* positions in `apart` excepted.
Hashed(l, apart) ==
  \A k \in 1..Len(nodes[l]) : k \in apart \/ nodes[l][k] = Hash(Row(l - 1, k))

\* A level that fits the one below.
Settled(l) ==
  /\ Len(nodes[l]) = CeilDiv(Len(nodes[l - 1]))
  /\ Hashed(l, {})

\* The level a splice is about to hash: it lacks the parents of what changed.
Unsettled(l) ==
  /\ start < stop /\ stop <= Len(nodes[l - 1])
  /\ start \div Arity <= Len(nodes[l])
  /\ AtLeast(CeilDiv(stop), Len(nodes[l])) = CeilDiv(Len(nodes[l - 1]))
  /\ Hashed(l, (start \div Arity + 1)..CeilDiv(stop))

\* Each empty subtree is the hash of a row of the next smaller ones.
ZerosHashed ==
  /\ zeros \in Seq(UNION {Hashes[l] : l \in 0..Depth})
  /\ Len(zeros) \in 1..(Depth + 1)
  /\ \A l \in 1..Len(zeros) : zeros[l] \in Hashes[l - 1]
  /\ \A l \in 1..(Len(zeros) - 1) : zeros[l + 1] = Hash([j \in 1..Arity |-> zeros[l]])

NodesTyped ==
  /\ nodes = [l \in 0..Depth |-> nodes[l]]
  /\ \A l \in 0..Depth : nodes[l] \in Seq(Hashes[l])

\* The inductive invariant: the level that a splice is about to hash is the
\* only one that does not fit the level below.
IInv ==
  /\ ZerosHashed
  /\ NodesTyped
  /\ level \in 0..Depth /\ start \in Nat /\ stop \in Nat
  /\ ~ Built => level = 0 /\ \A l \in 0..Depth : nodes[l] = <<>>
  /\ \A l \in 1..Depth : IF l = level THEN Unsettled(l) ELSE Settled(l)

\* Nodes and rows have values of their levels.
LEMMA RowTyped ==
  ASSUME IInv, Built, NEW l \in 0..Depth, NEW k \in Nat \ {0}
  PROVE  /\ Node(l, k) \in Hashes[l]
         /\ Row(l, k) \in [1..Arity -> Hashes[l]]
         /\ l < Depth => Hash(Row(l, k)) \in Hashes[l + 1]
<1>1. \A p \in Nat \ {0} : Node(l, p) \in Hashes[l]
  <2> TAKE p \in Nat \ {0}
  <2>1. nodes[l] \in Seq(Hashes[l]) /\ zeros[l + 1] \in Hashes[l]
    <3>1. nodes[l] \in Seq(Hashes[l])
      BY DEF IInv, NodesTyped
    <3>2. l + 1 \in 1..Len(zeros) /\ (l + 1) - 1 = l
      BY ShapeAssumption DEF Built
    <3>3. zeros[l + 1] \in Hashes[(l + 1) - 1]
      BY <3>2 DEF IInv, ZerosHashed
    <3>4. QED BY <3>1, <3>2, <3>3
  <2>2. QED BY <2>1, ElementOfSeq, LenProperties DEF Node
<1>2. Row(l, k) \in [1..Arity -> Hashes[l]]
  <2>1. \A j \in 1..Arity : (k - 1) * Arity + j \in Nat \ {0}
    BY ArityTimes, ShapeAssumption
  <2>2. QED BY <2>1, <1>1 DEF Row
<1>3. l < Depth => Hash(Row(l, k)) \in Hashes[l + 1]
  BY <1>2, HashAssumption, ShapeAssumption
<1>4. QED BY <1>1, <1>2, <1>3

\* After a step that changes level l in the positions from..to alone, which
\* meet its old end, and no other level, the level above lacks the parents of
\* these positions and nothing else.
LEMMA ChangedBelow ==
  ASSUME IInv, Built, NEW l \in 0..Depth, l < Depth,
         NEW from \in Nat, NEW to \in Nat, from < to, from <= Len(nodes[l]),
         Settled(l + 1),
         NEW s \in Seq(Hashes[l]), Len(s) = AtLeast(to, Len(nodes[l])),
         \A k \in 1..Len(s) : k \notin (from + 1)..to => s[k] = nodes[l][k],
         nodes' = [nodes EXCEPT ![l] = s], zeros' = zeros,
         start' = from, stop' = to
  PROVE  Unsettled(l + 1)'
<1> DEFINE old == nodes[l]  up == nodes[l + 1]
<1>1. /\ old \in Seq(Hashes[l]) /\ up \in Seq(Hashes[l + 1])
      /\ nodes'[l] = s /\ nodes'[l + 1] = up
      /\ Len(old) \in Nat /\ Len(up) \in Nat /\ Len(s) \in Nat
      /\ DOMAIN old = 1..Len(old) /\ DOMAIN s = 1..Len(s)
      /\ l + 1 \in 0..Depth /\ (l + 1) - 1 = l
  <2>1. l + 1 \in 0..Depth /\ (l + 1) - 1 = l /\ l + 1 # l
    BY ShapeAssumption
  <2>2. DOMAIN nodes = 0..Depth
    BY DEF IInv, NodesTyped
  <2>3. nodes'[l] = s /\ nodes'[l + 1] = up
    BY <2>1, <2>2
  <2>4. old \in Seq(Hashes[l]) /\ up \in Seq(Hashes[l + 1])
    BY <2>1 DEF IInv, NodesTyped
  <2>5. QED BY <2>1, <2>3, <2>4, LenProperties
<1>2. from < to /\ to <= Len(s)
  BY <1>1 DEF AtLeast
<1>3. Len(up) = CeilDiv(Len(old))
  BY <1>1 DEF Settled
<1>4. from \div Arity <= Len(up)
  BY <1>1, <1>3, CeilDivMonotone
<1>5. AtLeast(CeilDiv(to), Len(up)) = CeilDiv(Len(s))
  BY <1>1, <1>3, CeilDivLonger
<1>6. ASSUME NEW k \in 1..Len(up), k \notin (from \div Arity + 1)..CeilDiv(to)
      PROVE  up[k] = Hash(Row(l, k)')
  <2>1. k \in Nat \ {0} /\ (k <= from \div Arity \/ k > CeilDiv(to))
    <3>1. from \div Arity \in Nat /\ CeilDiv(to) \in Nat
      BY DivBounds, CeilDivBounds
    <3>2. QED BY <1>1, <1>6, <3>1
  <2>2. ASSUME NEW j \in 1..Arity
        PROVE  Node(l, (k - 1) * Arity + j)' = Node(l, (k - 1) * Arity + j)
    <3> DEFINE p == (k - 1) * Arity + j
    <3>1. p \in Nat \ {0} /\ (p <= from \/ p > to)
      BY <2>1, RowUntouched
    <3>2. p \in 1..Len(s) <=> p \in 1..Len(old)
      BY <3>1, <1>1, SMTT(30) DEF AtLeast
    <3>3. p \in 1..Len(s) => s[p] = old[p]
      BY <3>1, SMTT(30)
    <3>4. QED BY <3>2, <3>3, <1>1 DEF Node
  <2>3. Row(l, k)' = Row(l, k)
    BY <2>2 DEF Row
  <2>4. up[k] = Hash(Row(l, k))
    BY <1>1 DEF Settled, Hashed
  <2>5. QED BY <2>3, <2>4
<1>7. QED BY <1>1, <1>2, <1>4, <1>5, <1>6 DEF Unsettled, Hashed

\* A level that fits the one below still does when neither of them changes.
LEMMA SettledStays ==
  ASSUME NEW l \in 1..Depth, Settled(l), zeros' = zeros,
         nodes'[l] = nodes[l], nodes'[l - 1] = nodes[l - 1]
  PROVE  Settled(l)'
<1>1. \A k : Row(l - 1, k)' = Row(l - 1, k)
  BY DEF Row, Node
<1>2. QED BY <1>1 DEF Settled, Hashed

\* An empty level holds no parents.
LEMMA EmptySettled ==
  ASSUME NEW l \in 1..Depth, nodes[l] = <<>>, nodes[l - 1] = <<>>
  PROVE  Settled(l)
<1>1. Len(nodes[l]) = 0 /\ Len(nodes[l - 1]) = 0
  BY EmptySeq
<1>2. CeilDiv(0) = 0
  <2>1. CeilDiv(0) \in Nat /\ CeilDiv(0) * Arity < 0 + Arity
    BY CeilDivBounds
  <2>2. CeilDiv(0) >= 1 => 1 * Arity <= CeilDiv(0) * Arity
    BY <2>1, ArityTimes
  <2>3. QED BY <2>1, <2>2, ShapeAssumption
<1>3. QED BY <1>1, <1>2 DEF Settled, Hashed

\* The new tree, before its first empty subtree is hashed.
LEMMA InitIInv == Init => IInv
<1> SUFFICES ASSUME Init PROVE IInv
  OBVIOUS
<1>1. ZerosHashed
  <2>1. zeros = <<Zero>> /\ Zero \in Hashes[0] /\ 0 \in 0..Depth
    BY HashAssumption, ShapeAssumption DEF Init
  <2>2. Zero \in UNION {Hashes[l] : l \in 0..Depth}
    BY <2>1
  <2>3. QED BY <2>1, <2>2, ShapeAssumption DEF ZerosHashed
<1>2. NodesTyped
  BY EmptySeq DEF Init, NodesTyped
<1>3. \A l \in 1..Depth : Settled(l) /\ l # level
  <2> TAKE l \in 1..Depth
  <2>1. nodes[l] = <<>> /\ nodes[l - 1] = <<>> /\ l # level
    BY ShapeAssumption DEF Init
  <2>2. QED BY <2>1, EmptySettled
<1>4. QED BY <1>1, <1>2, <1>3, ShapeAssumption DEF Init, IInv

\* Building the empty subtrees touches no node.
LEMMA PushZeroStep ==
  ASSUME IInv, PushZero
  PROVE  IInv'
<1> DEFINE n == Len(zeros)
           z == Hash([j \in 1..Arity |-> zeros[n]])
<1>1. /\ zeros \in Seq(UNION {Hashes[l] : l \in 0..Depth}) /\ n \in 1..Depth
      /\ zeros[n] \in Hashes[n - 1] /\ zeros' = Append(zeros, z)
  BY ShapeAssumption DEF IInv, ZerosHashed, PushZero, Built
<1>2. z \in Hashes[n] /\ z \in UNION {Hashes[l] : l \in 0..Depth}
  <2>1. [j \in 1..Arity |-> zeros[n]] \in [1..Arity -> Hashes[n - 1]]
    BY <1>1
  <2>2. z \in Hashes[n]
    BY <1>1, <2>1, HashAssumption
  <2>3. QED BY <1>1, <2>2, ShapeAssumption
<1>3. ZerosHashed'
  <2>1. /\ zeros' \in Seq(UNION {Hashes[l] : l \in 0..Depth}) /\ Len(zeros') = n + 1
        /\ zeros'[n + 1] = z
        /\ \A l \in 1..n : zeros'[l] = zeros[l]
    BY <1>1, <1>2, AppendProperties, LenProperties
  <2>2. \A l \in 1..n : zeros[l] \in Hashes[l - 1]
    BY DEF IInv, ZerosHashed
  <2>3. \A l \in 1..(n + 1) : zeros'[l] \in Hashes[l - 1]
    BY <1>1, <1>2, <2>1, <2>2
  <2>4. \A l \in 1..n : zeros'[l + 1] = Hash([j \in 1..Arity |-> zeros'[l]])
    <3> TAKE l \in 1..n
    <3>1. zeros'[l] = zeros[l]
      BY <2>1
    <3>2. CASE l = n
      BY <3>1, <3>2, <2>1
    <3>3. CASE l # n
      <4>1. l \in 1..(n - 1) /\ l + 1 \in 1..n
        BY <3>3, <1>1
      <4>2. zeros[l + 1] = Hash([j \in 1..Arity |-> zeros[l]])
        BY <4>1 DEF IInv, ZerosHashed
      <4>3. QED BY <4>1, <4>2, <3>1, <2>1
    <3>4. QED BY <3>2, <3>3
  <2>5. Len(zeros') \in 1..(Depth + 1) /\ Len(zeros') - 1 = n
    BY <1>1, <2>1, ShapeAssumption
  <2>6. QED BY <2>1, <2>3, <2>4, <2>5 DEF ZerosHashed
<1>4. level = 0 /\ level' = 0 /\ nodes' = nodes /\ \A l \in 0..Depth : nodes[l] = <<>>
  BY DEF IInv, PushZero
<1>5. \A l \in 1..Depth : Settled(l)'
  <2> TAKE l \in 1..Depth
  <2>1. Settled(l) /\ nodes[l] = <<>>
    BY <1>4, ShapeAssumption DEF IInv
  <2>2. Len(nodes[l]) = 0
    BY <2>1, EmptySeq
  <2>3. QED BY <1>4, <2>1, <2>2 DEF Settled, Hashed
<1>6. QED BY <1>3, <1>4, <1>5, ShapeAssumption DEF IInv, NodesTyped, PushZero

\* Overwriting and appending leaves leaves the first level to be hashed.
LEMMA SpliceStep ==
  ASSUME IInv, NEW index \in 0..(Len(nodes[0]) + 1), NEW batch \in Batches,
         Splice(index, batch)
  PROVE  IInv'
<1> DEFINE s == Overwritten(index, batch)
           old == nodes[0]
           to == index + Len(batch)
<1>1. /\ old \in Seq(Hashes[0]) /\ Len(old) \in Nat /\ DOMAIN old = 1..Len(old)
      /\ \A k \in 1..Len(old) : old[k] \in Hashes[0]
      /\ 0 \in 0..Depth /\ DOMAIN nodes = 0..Depth
  <2>1. old \in Seq(Hashes[0]) /\ 0 \in 0..Depth /\ DOMAIN nodes = 0..Depth
    BY ShapeAssumption DEF IInv, NodesTyped
  <2>2. QED BY <2>1, LenProperties, ElementOfSeq
<1>2. /\ batch \in Seq(Hashes[0]) /\ Len(batch) \in Nat \ {0}
      /\ \A k \in 1..Len(batch) : batch[k] \in Hashes[0]
  BY BatchAssumption, LenProperties, EmptySeq, ElementOfSeq DEF Splice
<1>3. index \in Nat /\ index <= Len(old) /\ to \in Nat /\ index < to
  BY <1>1, <1>2 DEF Splice, Fits
<1>4. /\ s \in Seq(Hashes[0])
      /\ Len(s) = AtLeast(to, Len(old))
      /\ \A k \in 1..Len(s) : k \notin (index + 1)..to => s[k] = old[k]
  <2> DEFINE n == AtLeast(to, Len(old))
             e(k) == IF k \in (index + 1)..to THEN batch[k - index] ELSE old[k]
  <2>1. n \in Nat
    BY <1>1, <1>3 DEF AtLeast
  <2>2. \A k \in 1..n : e(k) \in Hashes[0]
    <3> TAKE k \in 1..n
    <3>1. CASE k \in (index + 1)..to
      <4>1. k - index \in 1..Len(batch)
        BY <3>1, <1>2, <1>3
      <4>2. QED BY <3>1, <4>1, <1>2
    <3>2. CASE k \notin (index + 1)..to
      <4>1. k \in 1..Len(old)
        BY <3>2, <1>1, <1>3 DEF AtLeast
      <4>2. QED BY <3>2, <4>1, <1>1
    <3>3. QED BY <3>1, <3>2
  <2>3. s = [k \in 1..n |-> e(k)]
    BY DEF Overwritten
  <2> HIDE DEF e, n
  <2>4. s \in Seq(Hashes[0]) /\ Len(s) = n
    <3>1. s \in Seq(Hashes[0]) /\ DOMAIN s = 1..n
      BY <2>1, <2>2, <2>3
    <3>2. QED BY <3>1, <2>1, LenProperties
  <2>5. QED BY <2>3, <2>4 DEF n, e
<1>5. /\ nodes' = [nodes EXCEPT ![0] = s] /\ zeros' = zeros
      /\ start' = index /\ stop' = to /\ level = 0 /\ Built
      /\ level' = IF Depth = 0 THEN 0 ELSE 1
  BY DEF Splice, Idle
<1> HIDE DEF s, to
<1>6. NodesTyped'
  BY <1>1, <1>4, <1>5 DEF IInv, NodesTyped
<1>7. ASSUME NEW l \in 1..Depth, l # level'
      PROVE  Settled(l)'
  <2>1. Depth # 0 /\ l # 1 /\ l - 1 \in 0..Depth /\ l - 1 # 0
    BY <1>5, <1>7, ShapeAssumption
  <2>2. Settled(l) /\ nodes'[l] = nodes[l] /\ nodes'[l - 1] = nodes[l - 1]
    BY <2>1, <1>1, <1>5 DEF IInv
  <2>3. QED BY <2>2, <1>5, SettledStays
<1>8. ASSUME Depth # 0
      PROVE  Unsettled(1)'
  <2>1. 0 < Depth /\ Settled(0 + 1) /\ 0 + 1 = 1
    BY <1>5, <1>8, ShapeAssumption DEF IInv
  <2>2. Unsettled(0 + 1)'
    BY <2>1, <1>1, <1>3, <1>4, <1>5, ChangedBelow
  <2>3. QED BY <2>1, <2>2
<1>9. ZerosHashed' /\ Built'
  BY <1>5 DEF IInv, ZerosHashed, Built
<1>10. QED
  BY <1>3, <1>5, <1>6, <1>7, <1>8, <1>9, ShapeAssumption DEF IInv

\* Hashing one level settles it and leaves the next one to be hashed.
LEMMA HashLevelStep ==
  ASSUME IInv, HashLevel, NEW l \in 1..Depth, level = l
  PROVE  IInv'
<1> DEFINE from == start \div Arity
           to == CeilDiv(stop)
           s == Rehashed(l, from, to)
           old == nodes[l]
<1>1. /\ l \in 1..Depth /\ l \in 0..Depth /\ l - 1 \in 0..Depth /\ Built /\ Unsettled(l)
      /\ start \in Nat /\ stop \in Nat /\ DOMAIN nodes = 0..Depth
  BY ShapeAssumption DEF IInv, HashLevel, NodesTyped
<1>2. /\ nodes' = [nodes EXCEPT ![l] = s] /\ zeros' = zeros
      /\ start' = from /\ stop' = to
      /\ level' = IF l = Depth THEN 0 ELSE l + 1
  BY DEF HashLevel
<1>3. /\ old \in Seq(Hashes[l]) /\ Len(old) \in Nat /\ DOMAIN old = 1..Len(old)
  <2>1. old \in Seq(Hashes[l])
    BY <1>1 DEF IInv, NodesTyped
  <2>2. QED BY <2>1, LenProperties
<1>4. from \in Nat /\ to \in Nat /\ from < to
  <2>1. /\ from \in Nat /\ from * Arity <= start /\ to \in Nat /\ stop <= to * Arity
        /\ start < stop
    BY <1>1, DivBounds, CeilDivBounds DEF Unsettled
  <2>2. /\ to <= from => to * Arity <= from * Arity
        /\ to * Arity \in Nat /\ from * Arity \in Nat
    BY <2>1, ArityTimes
  <2>3. QED BY <2>1, <2>2, <1>1
<1>5. from <= Len(old) /\ AtLeast(to, Len(old)) = CeilDiv(Len(nodes[l - 1]))
  BY <1>1 DEF Unsettled
<1>6. /\ s \in Seq(Hashes[l])
      /\ Len(s) = AtLeast(to, Len(old))
      /\ \A k \in 1..Len(s) :
           s[k] = IF k \in (from + 1)..to THEN Hash(Row(l - 1, k)) ELSE Node(l, k)
  <2> DEFINE n == AtLeast(to, Len(old))
             e(k) == IF k \in (from + 1)..to THEN Hash(Row(l - 1, k)) ELSE Node(l, k)
  <2>1. n \in Nat
    BY <1>3, <1>4 DEF AtLeast
  <2>2. \A k \in 1..n : e(k) \in Hashes[l]
    <3> TAKE k \in 1..n
    <3>1. k \in Nat \ {0} /\ l - 1 < Depth /\ (l - 1) + 1 = l
      BY <1>1, <2>1, ShapeAssumption
    <3>2. Node(l, k) \in Hashes[l] /\ Hash(Row(l - 1, k)) \in Hashes[l]
      BY <1>1, <3>1, RowTyped
    <3>3. QED BY <3>2
  <2>3. s = [k \in 1..n |-> e(k)]
    BY DEF Rehashed
  <2> HIDE DEF e, n
  <2>4. s \in Seq(Hashes[l]) /\ Len(s) = n
    <3>1. s \in Seq(Hashes[l]) /\ DOMAIN s = 1..n
      BY <2>1, <2>2, <2>3
    <3>2. QED BY <3>1, <2>1, LenProperties
  <2>5. QED BY <2>3, <2>4 DEF n, e
<1> HIDE DEF s, from, to
<1>7. \A k \in 1..Len(s) : k \notin (from + 1)..to => k \in 1..Len(old) /\ s[k] = old[k]
  <2> SUFFICES ASSUME NEW k \in 1..Len(s), k \notin (from + 1)..to
               PROVE  k \in 1..Len(old) /\ s[k] = old[k]
    OBVIOUS
  <2>1. k \in 1..Len(old)
    BY <1>3, <1>4, <1>5, <1>6 DEF AtLeast
  <2>2. QED BY <2>1, <1>3, <1>6 DEF Node
<1>8. NodesTyped'
  BY <1>1, <1>2, <1>6 DEF IInv, NodesTyped
<1>9. /\ nodes'[l] = s
      /\ \A m \in 0..Depth : m # l => nodes'[m] = nodes[m]
  BY <1>1, <1>2
<1>10. Settled(l)'
  <2>1. nodes'[l - 1] = nodes[l - 1]
    BY <1>1, <1>9
  <2>2. \A k : Row(l - 1, k)' = Row(l - 1, k)
    BY <2>1, <1>2 DEF Row, Node
  <2>3. \A k \in 1..Len(s) : s[k] = Hash(Row(l - 1, k))
    BY <1>1, <1>6, <1>7 DEF Unsettled, Hashed, from, to
  <2>4. QED BY <2>1, <2>2, <2>3, <1>5, <1>6, <1>9 DEF Settled, Hashed
<1>11. ASSUME NEW m \in 1..Depth, m # l, m # l + 1
       PROVE  Settled(m)'
  <2>1. m \in 0..Depth /\ m - 1 \in 0..Depth /\ m - 1 # l
    BY <1>11, <1>1, ShapeAssumption
  <2>2. Settled(m)
    BY <1>11 DEF IInv
  <2>3. QED BY <2>1, <2>2, <1>2, <1>9, <1>11, SettledStays
<1>12. ASSUME l # Depth
       PROVE  Unsettled(l + 1)'
  <2>1. l < Depth /\ l + 1 \in 1..Depth /\ l + 1 # l
    BY <1>12, <1>1, ShapeAssumption
  <2>2. Settled(l + 1)
    BY <2>1 DEF IInv
  <2>3. \A k \in 1..Len(s) : k \notin (from + 1)..to => s[k] = nodes[l][k]
    BY <1>7
  <2>4. /\ IInv /\ Built /\ l \in 0..Depth /\ l < Depth
        /\ from \in Nat /\ to \in Nat /\ from < to /\ from <= Len(nodes[l])
    BY <2>1, <1>1, <1>4, <1>5
  <2>5. /\ s \in Seq(Hashes[l]) /\ Len(s) = AtLeast(to, Len(nodes[l]))
        /\ nodes' = [nodes EXCEPT ![l] = s] /\ zeros' = zeros
        /\ start' = from /\ stop' = to
    BY <1>2, <1>6
  <2>6. QED
    BY ONLY <2>2, <2>3, <2>4, <2>5, ChangedBelow
<1>13. ZerosHashed' /\ Built'
  BY <1>1, <1>2 DEF IInv, ZerosHashed, Built
<1>14. level' \in 0..Depth /\ start' \in Nat /\ stop' \in Nat
  BY <1>1, <1>2, <1>4, ShapeAssumption
<1>15. \A m \in 1..Depth : IF m = level' THEN Unsettled(m)' ELSE Settled(m)'
  <2> TAKE m \in 1..Depth
  <2>1. CASE m = l
    BY <2>1, <1>2, <1>10, <1>1
  <2>2. CASE m = l + 1 /\ m # l
    <3>1. l # Depth /\ level' = l + 1
      BY <2>2, <1>1, <1>2, ShapeAssumption
    <3>2. QED BY <2>2, <3>1, <1>12
  <2>3. CASE m # l /\ m # l + 1
    <3>1. m # level'
      BY <2>3, <1>2, <1>1, ShapeAssumption
    <3>2. QED BY <2>3, <3>1, <1>11
  <2>4. QED BY <2>1, <2>2, <2>3
<1>16. QED BY <1>8, <1>13, <1>14, <1>15 DEF IInv
\* A step that changes nothing.
LEMMA StutterStep ==
  ASSUME IInv, UNCHANGED vars
  PROVE  IInv'
<1>1. UNCHANGED <<nodes, zeros, level, start, stop>>
  BY DEF vars
<1>2. \A l, k : Row(l, k)' = Row(l, k)
  BY <1>1 DEF Row, Node
<1>3. \A l, apart : Hashed(l, apart) => Hashed(l, apart)'
  BY <1>1, <1>2 DEF Hashed
<1>4. \A l \in 1..Depth : Settled(l) => Settled(l)'
  BY <1>1, <1>3 DEF Settled
<1>5. \A l \in 1..Depth : Unsettled(l) => Unsettled(l)'
  BY <1>1, <1>3 DEF Unsettled
<1>6. ZerosHashed' /\ NodesTyped' /\ (Built' <=> Built)
  BY <1>1 DEF IInv, ZerosHashed, NodesTyped, Built
<1>7. QED BY <1>1, <1>4, <1>5, <1>6 DEF IInv

LEMMA StepIInv == IInv /\ [Next]_vars => IInv'
<1> SUFFICES ASSUME IInv, [Next]_vars PROVE IInv'
  OBVIOUS
<1>1. CASE UNCHANGED vars
  BY <1>1, StutterStep
<1>2. CASE PushZero
  BY <1>2, PushZeroStep
<1>3. CASE HashLevel
  <2>1. level \in 1..Depth
    BY <1>3 DEF HashLevel, IInv
  <2>2. QED BY <1>3, <2>1, HashLevelStep
<1>4. ASSUME NEW index \in 0..(Len(nodes[0]) + 1), NEW batch \in Batches,
             Splice(index, batch) \/ Refuse(index, batch)
      PROVE  IInv'
  BY <1>4, SpliceStep, StutterStep DEF Refuse
<1>5. QED BY <1>1, <1>2, <1>3, <1>4 DEF Next
-----------------------------------------------------------------------------
\* Throughout building and splicing, the level a splice is about to hash is the
\* only one that does not fit the level below.
THEOREM Invariance == Spec => []IInv
BY InitIInv, StepIInv, PTL DEF Spec

\* The types, and the lengths of the levels (nodes: Vec<Vec<E>>).
THEOREM TypeCorrect == Spec => []TypeOK
<1>1. IInv => TypeOK
  <2> SUFFICES ASSUME IInv PROVE TypeOK
    OBVIOUS
  <2>1. DOMAIN nodes = 0..Depth /\ \A l \in 0..Depth : nodes[l] \in Seq(Hashes[l])
    BY DEF IInv, NodesTyped
  <2>2. \A l \in 1..Depth :
          level = 0 \/ l < level => Len(nodes[l]) = CeilDiv(Len(nodes[l - 1]))
    BY DEF IInv, Settled
  <2>3. QED BY <2>1, <2>2 DEF IInv, ZerosHashed, TypeOK
<1>2. QED BY Invariance, <1>1, PTL

\* Every node of a tree at rest, stored or not, is the hash of its children.
LEMMA EveryNodeHashed ==
  ASSUME IInv, Idle, NEW l \in 1..Depth, NEW k \in Nat \ {0}
  PROVE  Node(l, k) = Hash(Row(l - 1, k))
<1>1. k \in Nat \ {0} /\ Built /\ l # level
  BY DEF Idle
<1>2. Settled(l)
  BY <1>1 DEF IInv
<1>3. /\ nodes[l] \in Seq(Hashes[l]) /\ nodes[l - 1] \in Seq(Hashes[l - 1])
      /\ l \in 0..Depth /\ l - 1 \in 0..Depth
  BY ShapeAssumption DEF IInv, NodesTyped
<1>4. /\ Len(nodes[l]) \in Nat /\ DOMAIN nodes[l] = 1..Len(nodes[l])
      /\ Len(nodes[l - 1]) \in Nat /\ DOMAIN nodes[l - 1] = 1..Len(nodes[l - 1])
  BY <1>3, LenProperties
<1>5. CASE k <= Len(nodes[l])
  BY <1>1, <1>2, <1>4, <1>5 DEF Settled, Hashed, Node
<1>6. CASE k > Len(nodes[l])
  <2>1. k > CeilDiv(Len(nodes[l - 1]))
    BY <1>2, <1>6 DEF Settled
  <2>2. ASSUME NEW j \in 1..Arity
        PROVE  Node(l - 1, (k - 1) * Arity + j) = zeros[l]
    <3>1. (k - 1) * Arity + j > Len(nodes[l - 1])
      <4>1. 0 \in Nat
        OBVIOUS
      <4>2. LET p == (k - 1) * Arity + j
            IN  p \in Nat \ {0} /\ (p <= 0 \/ p > Len(nodes[l - 1]))
        BY <4>1, <1>1, <1>4, <2>1, RowUntouched
      <4>3. QED BY <4>2
    <3>2. QED BY <3>1, <1>4 DEF Node
  <2>3. Row(l - 1, k) = [j \in 1..Arity |-> zeros[l]]
    BY <2>2 DEF Row
  <2>4. Node(l, k) = zeros[l + 1]
    BY <1>4, <1>6 DEF Node
  <2>5. l \in 1..(Len(zeros) - 1)
    BY <1>1, ShapeAssumption DEF Built
  <2>6. QED BY <2>3, <2>4, <2>5 DEF IInv, ZerosHashed
<1>7. QED BY <1>1, <1>4, <1>5, <1>6

-----------------------------------------------------------------------------
(* Recursion over the levels. *)

\* The order of the natural numbers is well-founded.
NatLess == {p \in Nat \X Nat : p[1] < p[2]}
LEMMA NatLessWF == IsWellFoundedOn(NatLess, Nat)
<1>1. OpToRel(<, Nat) = NatLess
  BY DEF OpToRel, NatLess
<1> QED BY <1>1, NatLessThanWellFounded

\* A set of natural numbers has a least element: what the proofs by induction below
\* take the first counterexample from.
LEMMA LeastNat ==
  ASSUME NEW T \in SUBSET Nat, T # {}
  PROVE  \E n \in T : \A m \in T : n <= m
<1>1. \E n \in T : \A m \in T : ~ (<<m, n>> \in NatLess)
  <2> HIDE DEF NatLess
  <2> QED BY NatLessWF, WFMin
<1>2. PICK n \in T : \A m \in T : ~ (<<m, n>> \in NatLess)
  BY <1>1
<1>3. ASSUME NEW m \in T PROVE n <= m
  <2>1. <<m, n>> \notin NatLess
    BY <1>2
  <2>2. m < n => <<m, n>> \in NatLess
    BY DEF NatLess
  <2>3. QED BY <2>1, <2>2
<1>4. QED BY <1>3

\* A recursion over the levels has a solution.
Solves(f, d, V, a, step) ==
  /\ f \in [0..d -> V]
  /\ f[0] = a
  /\ \A l \in 1..d : f[l] = step[l][f[l - 1]]

LEMMA Recursion ==
  ASSUME NEW V, NEW a \in V, NEW d \in Nat, NEW step \in [1..d -> [V -> V]]
  PROVE  \E f : Solves(f, d, V, a, step)
<1> DEFINE T == {n \in 0..d : ~ \E f : Solves(f, n, V, a, step)}
<1>1. SUFFICES ASSUME T # {} PROVE FALSE
  <2>1. T = {} => \A n \in 0..d : \E f : Solves(f, n, V, a, step)
    OBVIOUS
  <2>2. d \in 0..d
    OBVIOUS
  <2>3. QED BY <2>1, <2>2
<1>2. PICK n \in T : \A m \in T : n <= m
  <2>1. T \in SUBSET Nat
    OBVIOUS
  <2> HIDE DEF T
  <2>2. QED BY <1>1, <2>1, LeastNat
<1>3. CASE n = 0
  <2>1. Solves([l \in 0..0 |-> a], 0, V, a, step)
    BY DEF Solves
  <2>2. QED BY <2>1, <1>3, <1>2
<1>4. CASE n # 0
  <2>1. n - 1 \in 0..d /\ n \in 1..d /\ n - 1 \notin T
    BY <1>2, <1>4
  <2>2. PICK f : Solves(f, n - 1, V, a, step)
    BY <2>1
  <2> DEFINE g == [l \in 0..n |-> IF l < n THEN f[l] ELSE step[n][f[n - 1]]]
  <2>3. f[n - 1] \in V /\ step[n] \in [V -> V]
    BY <2>1, <2>2 DEF Solves
  <2>4. g \in [0..n -> V]
    BY <2>1, <2>2, <2>3 DEF Solves
  <2>5. g[0] = a
    BY <2>1, <2>2 DEF Solves
  <2>6. ASSUME NEW l \in 1..n PROVE g[l] = step[l][g[l - 1]]
    BY <2>1, <2>2 DEF Solves
  <2>7. Solves(g, n, V, a, step)
    <3> HIDE DEF g
    <3> QED BY <2>4, <2>5, <2>6 DEF Solves
  <2>8. QED BY <2>7, <1>2
<1>5. QED BY <1>3, <1>4

\* Functions that agree at 0, and at a level when they do at the one below, agree.
LEMMA SameByLevel ==
  ASSUME NEW d \in Nat, NEW f, NEW g,
         f[0] = g[0], \A l \in 1..d : f[l - 1] = g[l - 1] => f[l] = g[l]
  PROVE  \A l \in 0..d : f[l] = g[l]
<1> DEFINE T == {n \in 0..d : f[n] # g[n]}
<1>1. SUFFICES ASSUME T # {} PROVE FALSE
  <2>1. T = {} => \A n \in 0..d : f[n] = g[n]
    OBVIOUS
  <2>2. QED BY <2>1
<1>2. PICK n \in T : \A m \in T : n <= m
  <2>1. T \in SUBSET Nat
    OBVIOUS
  <2> HIDE DEF T
  <2>2. QED BY <1>1, <2>1, LeastNat
<1>3. n \in 1..d /\ n - 1 \in 0..d /\ n - 1 \notin T
  BY <1>2
<1>4. QED BY <1>2, <1>3

\* Two functions begin alike, and agree at a level where they do below it.
Follow(f, g, d) == f[0] = g[0] /\ \A l \in 1..d : f[l - 1] = g[l - 1] => f[l] = g[l]

Alike(f, g, d) == \A l \in 0..d : f[l] = g[l]

\* Then they are alike: the fact above, without a quantifier for a prover to unfold.
LEMMA FollowAlike ==
  ASSUME NEW d \in Nat, NEW f, NEW g, Follow(f, g, d)
  PROVE  Alike(f, g, d)
<1>1. f[0] = g[0] /\ \A l \in 1..d : f[l - 1] = g[l - 1] => f[l] = g[l]
  BY DEF Follow
<1> QED BY <1>1, SameByLevel DEF Alike

\* The powers of a number, and what is proved of them.
PowerOf(b, d) == CHOOSE f : f = [n \in 0..d |-> IF n = 0 THEN 1 ELSE b * f[n - 1]]
ArePowers(f, b, d) ==
  /\ f \in [0..d -> Nat]
  /\ f[0] = 1
  /\ \A l \in 1..d : f[l] = b * f[l - 1]

LEMMA PowersOf ==
  ASSUME NEW b \in Nat, NEW d \in Nat
  PROVE  ArePowers(PowerOf(b, d), b, d)
<1> DEFINE power == PowerOf(b, d)
           step == [l \in 1..d |-> [x \in Nat |-> b * x]]
           Eq(f) == f = [n \in 0..d |-> IF n = 0 THEN 1 ELSE b * f[n - 1]]
<1>1. step \in [1..d -> [Nat -> Nat]]
  OBVIOUS
<1>2. PICK f : Solves(f, d, Nat, 1, step)
  <2> HIDE DEF step
  <2> QED BY <1>1, Recursion
<1>3. \A l \in 1..d : f[l] = b * f[l - 1]
  <2> TAKE l \in 1..d
  <2>1. f[l - 1] \in Nat
    BY <1>2 DEF Solves
  <2>2. step[l] = [x \in Nat |-> b * x]
    OBVIOUS
  <2>3. f[l] = step[l][f[l - 1]]
    BY <1>2 DEF Solves
  <2>4. QED BY <2>1, <2>2, <2>3
<1>4. Eq(f)
  <2>1. \A n \in 0..d : f[n] = IF n = 0 THEN 1 ELSE b * f[n - 1]
    BY <1>2, <1>3 DEF Solves
  <2>2. f = [n \in 0..d |-> f[n]]
    BY <1>2 DEF Solves
  <2>3. QED BY <2>1, <2>2
<1>5. power = CHOOSE g : Eq(g)
  BY DEF PowerOf
<1>6. Eq(power)
  <2> HIDE DEF Eq
  <2> QED BY <1>4, <1>5
<1>7. \A n \in 0..d : power[n] = f[n]
  <2>1. f[0] = 1 /\ 0 \in 0..d /\ d \in Nat
    BY <1>2 DEF Solves
  <2>2. power[0] = 1
    BY <1>6, <2>1
  <2>3. \A n \in 1..d : power[n] = b * power[n - 1]
    BY <1>6, <2>1
  <2>4. \A n \in 1..d : power[n - 1] = f[n - 1] => power[n] = f[n]
    BY <1>3, <2>3
  <2> HIDE DEF Eq, step
  <2>5. QED BY <2>1, <2>2, <2>4, SameByLevel
<1>8. power = [n \in 0..d |-> power[n]]
  BY <1>6
<1>9. power[0] = 1 /\ \A n \in 1..d : power[n] = b * power[n - 1]
  <2>1. \A n \in 0..d : power[n] = IF n = 0 THEN 1 ELSE b * power[n - 1]
    BY <1>6
  <2> HIDE DEF Eq
  <2>2. QED BY <2>1
<1>10. \A n \in 0..d : power[n] \in Nat
  BY <1>2, <1>7 DEF Solves
<1> HIDE DEF Eq, step
<1>11. QED BY <1>8, <1>9, <1>10 DEF ArePowers

\* The power of the arity at each level.
LEMMA Powers ==
  /\ Power \in [0..Depth -> Nat]
  /\ Power[0] = 1
  /\ \A l \in 1..Depth : Power[l] = Arity * Power[l - 1]
<1>1. Power = PowerOf(Arity, Depth)
  BY DEF Power, PowerOf
<1>2. ArePowers(PowerOf(Arity, Depth), Arity, Depth)
  BY PowersOf, ShapeAssumption
<1>3. QED BY <1>1, <1>2 DEF ArePowers

\* The place of a leaf's ancestor at each level, and that of its own parent.
LEMMA AncestorAt ==
  ASSUME NEW index \in Nat
  PROVE  /\ Ancestor(index, 0) = index
         /\ \A l \in 0..Depth : Ancestor(index, l) \in Nat
         /\ \A l \in 1..Depth : Ancestor(index, l) = Ancestor(index, l - 1) \div Arity
<1> DEFINE step == [l \in 1..Depth |-> [x \in Nat |-> x \div Arity]]
           Eq(f) == f = [l \in 0..Depth |-> IF l = 0 THEN index ELSE f[l - 1] \div Arity]
           at == Ancestors(index)
<1>1. step \in [1..Depth -> [Nat -> Nat]]
  BY ShapeAssumption
<1>2. PICK f : Solves(f, Depth, Nat, index, step)
  <2> HIDE DEF step
  <2> QED BY <1>1, Recursion, ShapeAssumption
<1>3. \A l \in 1..Depth : f[l] = f[l - 1] \div Arity
  <2> TAKE l \in 1..Depth
  <2>1. f[l - 1] \in Nat
    BY <1>2, ShapeAssumption DEF Solves
  <2>2. step[l] = [x \in Nat |-> x \div Arity]
    OBVIOUS
  <2>3. f[l] = step[l][f[l - 1]]
    BY <1>2 DEF Solves
  <2>4. QED BY <2>1, <2>2, <2>3
<1>4. Eq(f)
  <2>1. \A l \in 0..Depth : f[l] = IF l = 0 THEN index ELSE f[l - 1] \div Arity
    BY <1>2, <1>3 DEF Solves
  <2>2. f = [l \in 0..Depth |-> f[l]]
    BY <1>2 DEF Solves
  <2>3. QED BY <2>1, <2>2
<1>5. at = CHOOSE g : Eq(g)
  BY DEF Ancestors
<1>6. Eq(at)
  <2> HIDE DEF Eq, at
  <2> QED BY <1>4, <1>5
<1>7. at[0] = index /\ \A l \in 1..Depth : at[l] = at[l - 1] \div Arity
  <2> HIDE DEF at
  <2>1. \A l \in 0..Depth : at[l] = IF l = 0 THEN index ELSE at[l - 1] \div Arity
    BY <1>6
  <2> HIDE DEF Eq
  <2>2. QED BY <2>1, ShapeAssumption
<1>8. \A l \in 0..Depth : at[l] = f[l]
  <2>1. f[0] = index
    BY <1>2 DEF Solves
  <2>2. \A l \in 1..Depth : at[l - 1] = f[l - 1] => at[l] = f[l]
    BY <1>3, <1>7
  <2> HIDE DEF Eq, step, at
  <2>3. QED BY <2>1, <2>2, <1>7, SameByLevel, ShapeAssumption
<1>9. \A l \in 0..Depth : at[l] \in Nat
  BY <1>2, <1>8 DEF Solves
<1> HIDE DEF Eq, step
<1>10. QED BY <1>7, <1>9, ShapeAssumption DEF Ancestor

\* The ancestors of a leaf that fits are in the tree, and the last one is its root.
LEMMA AncestorFits ==
  ASSUME NEW index \in Nat, index < Capacity
  PROVE  Ancestor(index, Depth) = 0
<1> DEFINE T == {l \in 0..Depth : ~ Ancestor(index, l) < Power[Depth - l]}
<1>1. \A l \in 0..Depth : Ancestor(index, l) < Power[Depth - l]
  <2>1. SUFFICES ASSUME T # {} PROVE FALSE
    OBVIOUS
  <2>2. PICK n \in T : \A m \in T : n <= m
    <3>1. T \in SUBSET Nat
      OBVIOUS
    <3> HIDE DEF T
    <3>2. QED BY <2>1, <3>1, LeastNat
  <2>3. n # 0
    BY <2>2, AncestorAt, ShapeAssumption DEF Capacity
  <2>4. n \in 1..Depth /\ n - 1 \in 0..Depth /\ n - 1 \notin T
    <3>1. n \in 1..Depth /\ n - 1 \in 0..Depth /\ n - 1 < n
      BY <2>2, <2>3, ShapeAssumption
    <3> HIDE DEF T
    <3>2. QED BY <2>2, <3>1
  <2> DEFINE a == Ancestor(index, n - 1)
             p == Power[Depth - n]
  <2>5. a \in Nat /\ p \in Nat /\ a < Arity * p
    <3>1. Depth - n \in 0..Depth /\ Depth - (n - 1) \in 1..Depth /\ Depth - (n - 1) - 1 = Depth - n
      BY <2>4, ShapeAssumption
    <3>2. p \in Nat /\ Power[Depth - (n - 1)] = Arity * p
      BY <3>1, Powers
    <3>3. QED BY <3>2, <2>4, AncestorAt
  <2>6. a \div Arity < p
    <3> HIDE DEF a, p
    <3>1. a \div Arity \in Nat /\ (a \div Arity) * Arity <= a
      BY <2>5, DivBounds
    <3>2. p <= a \div Arity => p * Arity <= (a \div Arity) * Arity
      BY <2>5, <3>1, ArityTimes
    <3>3. p * Arity \in Nat /\ (a \div Arity) * Arity \in Nat /\ p * Arity = Arity * p
      BY <2>5, <3>1, ArityTimes, ShapeAssumption
    <3>4. QED BY <2>5, <3>1, <3>2, <3>3
  <2>7. Ancestor(index, n) = a \div Arity
    BY <2>4, AncestorAt
  <2>8. QED BY <2>2, <2>6, <2>7
<1>2. QED BY <1>1, AncestorAt, Powers, ShapeAssumption

-----------------------------------------------------------------------------
\* The row of a proof at a level with a value on the way.
Placed(proof, l, x) == [proof.siblings[l - 1] EXCEPT ![proof.path[l - 1] + 1] = x]

\* A proof with a leaf and rows of the levels' values, whose way stays within the rows.
ProofTyped(proof) ==
  /\ proof.leaf \in Hashes[0]
  /\ \A l \in 1..Depth : /\ proof.siblings[l - 1] \in [1..Arity -> Hashes[l - 1]]
                         /\ proof.path[l - 1] \in 0..(Arity - 1)

\* The values on the way up from a proof's leaf.
Climbs(f, proof) ==
  /\ \A l \in 0..Depth : f[l] \in Hashes[l]
  /\ f[0] = proof.leaf
  /\ \A l \in 1..Depth : f[l] = Hash(Placed(proof, l, f[l - 1]))

LEMMA PlacedTyped ==
  ASSUME NEW proof, ProofTyped(proof), NEW l \in 1..Depth, NEW x \in Hashes[l - 1]
  PROVE  /\ Placed(proof, l, x) \in [1..Arity -> Hashes[l - 1]]
         /\ Placed(proof, l, x)[proof.path[l - 1] + 1] = x
         /\ Hash(Placed(proof, l, x)) \in Hashes[l]
<1>1. /\ proof.siblings[l - 1] \in [1..Arity -> Hashes[l - 1]]
      /\ proof.path[l - 1] + 1 \in 1..Arity
  BY ShapeAssumption DEF ProofTyped
<1>2. Placed(proof, l, x) \in [1..Arity -> Hashes[l - 1]] /\ Placed(proof, l, x)[proof.path[l - 1] + 1] = x
  BY <1>1 DEF Placed
<1>3. QED BY <1>2, HashAssumption

\* A verification climbs, and compares the last value with the root.
LEMMA VerifyClimbs ==
  ASSUME NEW proof, ProofTyped(proof)
  PROVE  \E f : Climbs(f, proof) /\ (Verify(proof) <=> f[Depth] = proof.root)
<1> DEFINE V == UNION {Hashes[l] : l \in 0..Depth}
           step == [l \in 1..Depth |-> [x \in V |->
                      IF x \in Hashes[l - 1] THEN Hash(Placed(proof, l, x)) ELSE x]]
           Eq(f) == f = [l \in 0..Depth |->
                      IF l = 0 THEN proof.leaf
                      ELSE Hash([proof.siblings[l - 1] EXCEPT ![proof.path[l - 1] + 1] = f[l - 1]])]
           hash == CHOOSE f : Eq(f)
<1>1. \A l \in 0..Depth : Hashes[l] \subseteq V
  OBVIOUS
<1>2. step \in [1..Depth -> [V -> V]]
  <2> SUFFICES ASSUME NEW l \in 1..Depth, NEW x \in V
               PROVE  (IF x \in Hashes[l - 1] THEN Hash(Placed(proof, l, x)) ELSE x) \in V
    OBVIOUS
  <2>1. l \in 0..Depth
    OBVIOUS
  <2> HIDE DEF V
  <2>2. QED BY <2>1, <1>1, PlacedTyped
<1>3. PICK f : Solves(f, Depth, V, proof.leaf, step)
  <2>1. proof.leaf \in V
    <3>1. 0 \in 0..Depth
      BY ShapeAssumption
    <3> HIDE DEF V
    <3>2. QED BY <1>1, <3>1 DEF ProofTyped
  <2> HIDE DEF step, V
  <2>2. QED BY <1>2, <2>1, Recursion, ShapeAssumption
<1>4. \A l \in 1..Depth :
        f[l - 1] \in Hashes[l - 1] => f[l] = Hash(Placed(proof, l, f[l - 1])) /\ f[l] \in Hashes[l]
  <2> SUFFICES ASSUME NEW l \in 1..Depth, f[l - 1] \in Hashes[l - 1]
               PROVE  f[l] = Hash(Placed(proof, l, f[l - 1])) /\ f[l] \in Hashes[l]
    OBVIOUS
  <2>1. f[l - 1] \in V
    <3>1. l - 1 \in 0..Depth
      BY ShapeAssumption
    <3> HIDE DEF V
    <3>2. QED BY <3>1, <1>1
  <2>2. f[l] = step[l][f[l - 1]]
    BY <1>3 DEF Solves
  <2>3. f[l] = Hash(Placed(proof, l, f[l - 1]))
    <3> HIDE DEF V
    <3>1. QED BY <2>1, <2>2
  <2> HIDE DEF step
  <2>4. QED BY <2>3, PlacedTyped
<1>5. \A l \in 0..Depth : f[l] \in Hashes[l]
  <2> DEFINE T == {l \in 0..Depth : f[l] \notin Hashes[l]}
  <2>1. SUFFICES ASSUME T # {} PROVE FALSE
    OBVIOUS
  <2>2. PICK n \in T : \A m \in T : n <= m
    <3>1. T \in SUBSET Nat
      OBVIOUS
    <3> HIDE DEF T
    <3>2. QED BY <2>1, <3>1, LeastNat
  <2>3. n # 0
    BY <2>2, <1>3 DEF Solves, ProofTyped
  <2>4. n \in 1..Depth /\ n - 1 \in 0..Depth /\ n - 1 \notin T
    <3>1. n \in 1..Depth /\ n - 1 \in 0..Depth /\ n - 1 < n
      BY <2>2, <2>3, ShapeAssumption
    <3> HIDE DEF T
    <3>2. QED BY <2>2, <3>1
  <2>5. f[n - 1] \in Hashes[n - 1]
    BY <2>4
  <2>6. f[n] \in Hashes[n]
    BY <2>4, <2>5, <1>4
  <2>7. QED BY <2>2, <2>6
<1>6. Climbs(f, proof)
  <2>1. f[0] = proof.leaf
    BY <1>3 DEF Solves
  <2> HIDE DEF step, V
  <2>2. \A l \in 1..Depth : l - 1 \in 0..Depth
    BY ShapeAssumption
  <2>3. QED BY <2>2, <1>4, <1>5, <2>1, <2>2 DEF Climbs
<1>7. Eq(f)
  <2>1. \A l \in 0..Depth : f[l] =
          IF l = 0 THEN proof.leaf
          ELSE Hash([proof.siblings[l - 1] EXCEPT ![proof.path[l - 1] + 1] = f[l - 1]])
    BY <1>6 DEF Climbs, Placed
  <2>2. f = [l \in 0..Depth |-> f[l]]
    BY <1>3 DEF Solves
  <2>3. QED BY <2>1, <2>2
<1>8. Eq(hash)
  <2> HIDE DEF Eq
  <2> QED BY <1>7
<1>9. Verify(proof) <=> hash[Depth] = proof.root
  BY DEF Verify
<1>10. hash[0] = proof.leaf /\ \A l \in 1..Depth : hash[l] = Hash(Placed(proof, l, hash[l - 1]))
  <2> HIDE DEF hash
  <2>1. \A l \in 0..Depth : hash[l] =
          IF l = 0 THEN proof.leaf
          ELSE Hash([proof.siblings[l - 1] EXCEPT ![proof.path[l - 1] + 1] = hash[l - 1]])
    BY <1>8
  <2> HIDE DEF Eq
  <2>2. hash[0] = proof.leaf
    <3>1. 0 \in 0..Depth
      BY ShapeAssumption
    <3>2. QED BY <2>1, <3>1
  <2>3. ASSUME NEW l \in 1..Depth PROVE hash[l] = Hash(Placed(proof, l, hash[l - 1]))
    <3>1. l \in 0..Depth /\ l # 0
      BY ShapeAssumption
    <3>2. QED BY <2>1, <3>1 DEF Placed
  <2>4. QED BY <2>2, <2>3
<1>11. \A l \in 0..Depth : hash[l] = f[l]
  <2> HIDE DEF hash
  <2>1. hash[0] = f[0] /\ \A l \in 1..Depth : hash[l - 1] = f[l - 1] => hash[l] = f[l]
    BY <1>6, <1>10 DEF Climbs
  <2>2. QED BY <2>1, SameByLevel, ShapeAssumption
<1>12. hash[Depth] = f[Depth]
  <2> HIDE DEF hash
  <2>1. QED BY <1>11, ShapeAssumption
<1> HIDE DEF hash
<1>13. QED BY <1>6, <1>9, <1>12

\* Two proofs that differ in their leaf alone, climb to different values.
LEMMA ClimbsApart ==
  ASSUME CollisionFree, NEW p, ProofTyped(p), NEW q, ProofTyped(q),
         q.siblings = p.siblings, q.path = p.path, q.leaf # p.leaf,
         NEW f, Climbs(f, p), NEW g, Climbs(g, q)
  PROVE  f[Depth] # g[Depth]
<1> DEFINE T == {l \in 0..Depth : f[l] = g[l]}
<1>1. T = {}
  <2>1. SUFFICES ASSUME T # {} PROVE FALSE
    OBVIOUS
  <2>2. PICK n \in T : \A m \in T : n <= m
    <3>1. T \in SUBSET Nat
      OBVIOUS
    <3> HIDE DEF T
    <3>2. QED BY <2>1, <3>1, LeastNat
  <2>3. n # 0
    BY <2>2 DEF Climbs
  <2>4. n \in 1..Depth /\ n - 1 \in 0..Depth /\ n - 1 \notin T
    <3>1. n \in 1..Depth /\ n - 1 \in 0..Depth /\ n - 1 < n
      BY <2>2, <2>3, ShapeAssumption
    <3> HIDE DEF T
    <3>2. QED BY <2>2, <3>1
  <2> DEFINE r == Placed(p, n, f[n - 1])  s == Placed(q, n, g[n - 1])
  <2>5. f[n - 1] \in Hashes[n - 1] /\ g[n - 1] \in Hashes[n - 1]
    BY <2>4 DEF Climbs
  <2>6. /\ r \in [1..Arity -> Hashes[n - 1]] /\ r[p.path[n - 1] + 1] = f[n - 1]
        /\ s \in [1..Arity -> Hashes[n - 1]] /\ s[p.path[n - 1] + 1] = g[n - 1]
    BY <2>4, <2>5, PlacedTyped
  <2>7. Hash(r) = Hash(s)
    <3>1. f[n] = Hash(r) /\ g[n] = Hash(s)
      BY <2>4 DEF Climbs
    <3>2. f[n] = g[n]
      BY <2>2
    <3>3. QED BY <3>1, <3>2
  <2>8. r = s
    <3> HIDE DEF r, s
    <3>1. QED BY <2>4, <2>6, <2>7 DEF CollisionFree
  <2>9. QED BY <2>4, <2>6, <2>8
<1>2. Depth \in 0..Depth
  BY ShapeAssumption
<1>3. QED BY <1>1, <1>2
-----------------------------------------------------------------------------
\* Between two splices the tree is a Merkle tree of its leaves: every node of
\* it, stored or not, is the hash of its children.
THEOREM HashesChildrenHolds == Spec => []HashesChildren
<1>1. IInv => HashesChildren
  <2>1. \A k \in 1..Capacity : k \in Nat \ {0}
    BY Powers, ShapeAssumption DEF Capacity
  <2>2. QED BY <2>1, EveryNodeHashed DEF HashesChildren
<1>2. QED BY Invariance, <1>1, PTL

\* A splice does not fill the tree beyond its capacity.
LeavesFit == Len(nodes[0]) <= Capacity

THEOREM NeverOverfull == Spec => []LeavesFit
<1>1. Init => LeavesFit
  <2> SUFFICES ASSUME Init PROVE Len(nodes[0]) <= Capacity
    BY DEF LeavesFit
  <2>1. nodes[0] = <<>> /\ Len(nodes[0]) = 0
    BY ShapeAssumption, EmptySeq DEF Init
  <2>2. Capacity \in Nat
    BY Powers, ShapeAssumption DEF Capacity
  <2>3. QED BY <2>1, <2>2
<1>2. IInv /\ IInv' /\ LeavesFit /\ [Next]_vars => LeavesFit'
  <2> SUFFICES ASSUME IInv, IInv', LeavesFit, [Next]_vars PROVE LeavesFit'
    OBVIOUS
  <2>1. nodes'[0] = nodes[0] => LeavesFit'
    BY DEF LeavesFit
  <2>2. CASE PushZero \/ UNCHANGED vars
    BY <2>1, <2>2 DEF PushZero, vars
  <2>3. CASE HashLevel
    <3>1. level # 0 /\ DOMAIN nodes = 0..Depth
      BY <2>3 DEF HashLevel, IInv, NodesTyped
    <3>2. nodes'[0] = nodes[0]
      BY <2>3, <3>1, ShapeAssumption DEF HashLevel
    <3>3. QED BY <2>1, <3>2
  <2>4. ASSUME NEW index \in 0..(Len(nodes[0]) + 1), NEW batch \in Batches, Splice(index, batch)
        PROVE  LeavesFit'
    <3> DEFINE n == AtLeast(index + Len(batch), Len(nodes[0]))
    <3>1. 0 \in 0..Depth /\ DOMAIN nodes = 0..Depth
      BY ShapeAssumption DEF IInv, NodesTyped
    <3>2. /\ nodes[0] \in Seq(Hashes[0]) /\ nodes'[0] \in Seq(Hashes[0])
          /\ batch \in Seq(Hashes[0])
      BY <3>1, BatchAssumption DEF IInv, NodesTyped
    <3>3. Len(nodes[0]) \in Nat /\ Len(batch) \in Nat
      BY <3>2, LenProperties
    <3>4. n \in Nat /\ n <= Capacity
      BY <3>3, <2>4 DEF AtLeast, LeavesFit, Splice, Fits
    <3>5. nodes'[0] = Overwritten(index, batch)
      BY <3>1, <2>4 DEF Splice
    <3>6. DOMAIN nodes'[0] = 1..n
      BY <3>5 DEF Overwritten
    <3>7. Len(nodes'[0]) = n
      <4> HIDE DEF n
      <4>1. QED BY <3>2, <3>4, <3>6, LenProperties
    <3>8. QED BY <3>4, <3>7, Powers, ShapeAssumption DEF LeavesFit, Capacity
  <2>5. ASSUME NEW index \in 0..(Len(nodes[0]) + 1), NEW batch \in Batches, Refuse(index, batch)
        PROVE  LeavesFit'
    BY <2>1, <2>5 DEF Refuse, vars
  <2>6. QED BY <2>2, <2>3, <2>4, <2>5 DEF Next
<1>3. QED BY Invariance, <1>1, <1>2, PTL DEF Spec

\* The values on the way up from a leaf are the nodes above it.
LEMMA ProofClimbs ==
  ASSUME IInv, Idle, LeavesFit, NEW index \in 0..(Len(nodes[0]) - 1)
  PROVE  /\ ProofTyped(Proof(index))
         /\ \A f : Climbs(f, Proof(index)) => f[Depth] = Proof(index).root
<1> DEFINE p == Proof(index)
           place(l) == Ancestor(index, l) + 1
           node == [l \in 0..Depth |-> Node(l, place(l))]
<1>1. /\ Built /\ 0 \in 0..Depth /\ Depth \in 0..Depth
      /\ index \in Nat /\ Len(nodes[0]) \in Nat /\ DOMAIN nodes[0] = 1..Len(nodes[0])
  <2>1. 0 \in 0..Depth /\ Depth \in 0..Depth
    BY ShapeAssumption
  <2>2. nodes[0] \in Seq(Hashes[0])
    BY <2>1 DEF IInv, NodesTyped
  <2>3. QED BY <2>1, <2>2, LenProperties DEF Idle
<1>2. \A l \in 0..Depth : place(l) \in Nat \ {0}
  <2>1. \A l \in 0..Depth : Ancestor(index, l) \in Nat
    BY <1>1, AncestorAt
  <2>2. QED BY <2>1
<1>3. p.leaf = node[0] /\ p.leaf \in Hashes[0]
  <2>1. p.leaf = nodes[0][index + 1]
    BY DEF Proof
  <2>2. place(0) = index + 1
    BY <1>1, AncestorAt
  <2>3. node[0] = Node(0, index + 1)
    BY <1>1, <2>2
  <2>4. p.leaf = Node(0, index + 1)
    BY <1>1, <2>1 DEF Node
  <2>5. index + 1 \in Nat \ {0}
    BY <1>1
  <2> HIDE DEF p, node
  <2>6. QED BY <1>1, <2>3, <2>4, <2>5, RowTyped
<1>4. ASSUME NEW l \in 1..Depth
      PROVE  /\ p.siblings[l - 1] = Row(l - 1, place(l))
             /\ p.path[l - 1] = Ancestor(index, l - 1) % Arity
             /\ p.path[l - 1] \in 0..(Arity - 1)
             /\ p.siblings[l - 1] \in [1..Arity -> Hashes[l - 1]]
             /\ p.siblings[l - 1][p.path[l - 1] + 1] = node[l - 1]
             /\ node[l] = Hash(p.siblings[l - 1])
  <2>1. l \in 0..Depth /\ l - 1 \in 0..Depth /\ l - 1 \in 0..(Depth - 1) /\ (l - 1) + 1 = l
    BY ShapeAssumption
  <2>2. p.siblings[l - 1] = Row(l - 1, place(l))
    BY <2>1 DEF Proof, Siblings
  <2>3. p.path[l - 1] = Ancestor(index, l - 1) % Arity
    BY <2>1 DEF Proof
  <2> DEFINE a == Ancestor(index, l - 1)
  <2>4. a \in Nat /\ Ancestor(index, l) = a \div Arity
    BY <1>1, <2>1, AncestorAt
  <2> HIDE DEF a, p
  <2>5. /\ a % Arity \in 0..(Arity - 1)
        /\ a = (a \div Arity) * Arity + (a % Arity)
        /\ a \div Arity \in Nat
        /\ (a \div Arity) * Arity \in Nat
    <3>1. a \div Arity \in Nat /\ (a \div Arity) * Arity \in Nat
      BY <2>4, DivBounds, ArityTimes
    <3>2. QED BY <2>4, <3>1, ShapeAssumption
  <2>6. Row(l - 1, place(l)) \in [1..Arity -> Hashes[l - 1]]
    BY <1>1, <1>2, <2>1, RowTyped
  <2>7. Row(l - 1, place(l))[(a % Arity) + 1] = node[l - 1]
    <3>1. (a % Arity) + 1 \in 1..Arity
      BY <2>4, ShapeAssumption
    <3>2. Row(l - 1, place(l))[(a % Arity) + 1] = Node(l - 1, (place(l) - 1) * Arity + ((a % Arity) + 1))
      BY <3>1 DEF Row
    <3>3. place(l) - 1 = a \div Arity
      BY <2>4, <2>5
    <3>4. (place(l) - 1) * Arity + ((a % Arity) + 1) = a + 1
      BY <2>4, <2>5, <3>3, ShapeAssumption
    <3>5. node[l - 1] = Node(l - 1, a + 1)
      BY <2>1 DEF a
    <3>6. QED BY <3>2, <3>4, <3>5
  <2>8. node[l] = Hash(Row(l - 1, place(l)))
    <3>1. node[l] = Node(l, place(l))
      BY <2>1
    <3> HIDE DEF node
    <3>2. QED BY <3>1, <1>2, <2>1, EveryNodeHashed
  <2>9. QED BY <2>2, <2>3, <2>5, <2>6, <2>7, <2>8 DEF a
<1>5. ProofTyped(p)
  <2> HIDE DEF p, node, place
  <2> QED BY <1>3, <1>4 DEF ProofTyped
<1>6. p.root = node[Depth]
  <2>1. Ancestor(index, Depth) = 0
    <3>1. Capacity \in Nat
      BY Powers, ShapeAssumption DEF Capacity
    <3>2. index < Capacity
      BY <1>1, <3>1 DEF LeavesFit
    <3>3. QED BY <1>1, <3>2, AncestorFits
  <2>2. node[Depth] = Node(Depth, 1)
    BY <1>1, <2>1
  <2>3. QED BY <2>2 DEF Proof, Root
<1>7. ASSUME NEW f, Climbs(f, p)
      PROVE  f[Depth] = p.root
  <2>1. f[0] = node[0]
    BY <1>3, <1>7 DEF Climbs
  <2>2. ASSUME NEW l \in 1..Depth, f[l - 1] = node[l - 1]
        PROVE  f[l] = node[l]
    <3> HIDE DEF p, node, place
    <3>1. Placed(p, l, node[l - 1]) = p.siblings[l - 1]
      BY <1>4, ShapeAssumption DEF Placed
    <3>2. f[l] = Hash(Placed(p, l, f[l - 1]))
      BY <1>7 DEF Climbs
    <3>3. QED BY <2>2, <3>1, <3>2, <1>4
  <2> HIDE DEF p, node, place
  <2>3. \A l \in 0..Depth : f[l] = node[l]
    <3>1. \A l \in 1..Depth : f[l - 1] = node[l - 1] => f[l] = node[l]
      BY <2>2
    <3>2. PICK g : g = node
      OBVIOUS
    <3>3. f[0] = g[0] /\ \A l \in 1..Depth : f[l - 1] = g[l - 1] => f[l] = g[l]
      BY <2>1, <3>1, <3>2
    <3>4. \A l \in 0..Depth : f[l] = g[l]
      <4>1. Depth \in Nat
        BY ShapeAssumption
      <4>2. QED
        <5>1. Follow(f, g, Depth)
          BY <3>3 DEF Follow
        <5>2. Alike(f, g, Depth)
          BY ONLY <4>1, <5>1, FollowAlike
        <5> QED BY <5>2 DEF Alike
    <3>5. QED BY <3>2, <3>4
  <2>4. QED BY <2>3, <1>1, <1>6
<1> HIDE DEF p
<1>8. QED BY <1>5, <1>7 DEF p

\* A leaf looked up by value is found where it is first.
LEMMA FirstFound ==
  ASSUME IInv, Idle, NEW index \in 0..(Len(nodes[0]) - 1)
  PROVE  LET first == FirstWith(nodes[0][index + 1]) - 1
         IN  /\ first \in 0..(Len(nodes[0]) - 1)
             /\ nodes[0][first + 1] = nodes[0][index + 1]
<1> DEFINE leaf == nodes[0][index + 1]
           T == {k \in DOMAIN nodes[0] : nodes[0][k] = leaf}
           IsFirst(k) == nodes[0][k] = leaf /\ \A j \in 1..(k - 1) : nodes[0][j] # leaf
<1>1. DOMAIN nodes[0] = 1..Len(nodes[0]) /\ Len(nodes[0]) \in Nat
  <2>1. nodes[0] \in Seq(Hashes[0])
    BY ShapeAssumption DEF IInv, NodesTyped
  <2>2. QED BY <2>1, LenProperties
<1>2. \E k \in DOMAIN nodes[0] : IsFirst(k)
  <2>1. T \in SUBSET Nat /\ index + 1 \in T
    BY <1>1
  <2>2. PICK n \in T : \A m \in T : n <= m
    <3> HIDE DEF T
    <3>1. QED BY <2>1, LeastNat
  <2>3. n \in DOMAIN nodes[0] /\ nodes[0][n] = leaf /\ n \in 1..Len(nodes[0])
    BY <1>1, <2>2
  <2>4. ASSUME NEW j \in 1..(n - 1) PROVE nodes[0][j] # leaf
    <3>1. j \in DOMAIN nodes[0] /\ ~ (n <= j)
      BY <1>1, <2>3
    <3>2. j \notin T
      BY <2>2, <3>1
    <3>3. QED BY <3>1, <3>2
  <2> HIDE DEF T, leaf
  <2>5. QED BY <2>3, <2>4
<1>3. FirstWith(leaf) = CHOOSE k \in DOMAIN nodes[0] : IsFirst(k)
  BY DEF FirstWith
<1>4. FirstWith(leaf) \in DOMAIN nodes[0] /\ IsFirst(FirstWith(leaf))
  <2> HIDE DEF IsFirst, leaf
  <2>1. QED BY <1>2, <1>3
<1> HIDE DEF leaf
<1>5. /\ FirstWith(leaf) - 1 \in 0..(Len(nodes[0]) - 1)
      /\ nodes[0][(FirstWith(leaf) - 1) + 1] = leaf
  BY <1>1, <1>4
<1>6. QED BY <1>5 DEF leaf

\* The proof of a leaf verifies.
LEMMA ProofVerifies ==
  ASSUME IInv, Idle, LeavesFit, NEW index \in 0..(Len(nodes[0]) - 1)
  PROVE  Verify(Proof(index))
<1> DEFINE p == Proof(index)
<1>1. ProofTyped(p) /\ \A f : Climbs(f, p) => f[Depth] = p.root
  BY ProofClimbs
<1> HIDE DEF p
<1>2. PICK f : Climbs(f, p) /\ (Verify(p) <=> f[Depth] = p.root)
  BY <1>1, VerifyClimbs
<1>3. QED BY <1>1, <1>2 DEF p

\* Whatever the hash, between two splices the proof of every leaf verifies, and so does
\* the proof of a leaf that is looked up by its value (proof, leaf_proof, verify).
THEOREM OwnProofsVerify ==
  Spec => [](Idle => \A index \in 0..(Len(nodes[0]) - 1) : ProvesItsLeaf(index))
<1>1. ASSUME IInv, LeavesFit, Idle, NEW index \in 0..(Len(nodes[0]) - 1)
      PROVE  ProvesItsLeaf(index)
  <2> DEFINE first == FirstWith(nodes[0][index + 1]) - 1
  <2>1. first \in 0..(Len(nodes[0]) - 1) /\ nodes[0][first + 1] = nodes[0][index + 1]
    BY <1>1, FirstFound
  <2>2. LeafProof(nodes[0][index + 1]) = Proof(first)
    BY DEF LeafProof
  <2> HIDE DEF first
  <2>3. Verify(Proof(index)) /\ Verify(Proof(first))
    BY <1>1, <2>1, ProofVerifies
  <2>4. Proof(first).leaf = Proof(index).leaf
    BY <2>1 DEF Proof
  <2>5. QED BY <2>2, <2>3, <2>4 DEF ProvesItsLeaf
<1>2. IInv /\ LeavesFit => (Idle => \A index \in 0..(Len(nodes[0]) - 1) : ProvesItsLeaf(index))
  BY <1>1
<1>3. QED BY Invariance, NeverOverfull, <1>2, PTL

\* With a hash without collisions, no proof verifies for another leaf in its place: the
\* values on the two ways up differ at every level (verify).
THEOREM ProofsVerifyHolds ==
  ASSUME CollisionFree
  PROVE  Spec => []ProofsVerify
<1>1. ASSUME IInv, LeavesFit, Idle, NEW index \in 0..(Len(nodes[0]) - 1)
      PROVE  ProvesNoOther(index)
  <2> SUFFICES ASSUME NEW leaf \in Hashes[0] \ {nodes[0][index + 1]}
               PROVE  ~ Verify([Proof(index) EXCEPT !.leaf = leaf])
    BY DEF ProvesNoOther
  <2> DEFINE p == Proof(index)  q == [p EXCEPT !.leaf = leaf]
  <2>1. ProofTyped(p) /\ \A f : Climbs(f, p) => f[Depth] = p.root
    BY <1>1, ProofClimbs
  <2>2. q.siblings = p.siblings /\ q.path = p.path /\ q.root = p.root /\ q.leaf = leaf /\ q.leaf # p.leaf
    BY DEF Proof
  <2> HIDE DEF p, q
  <2>3. ProofTyped(q)
    BY <2>1, <2>2 DEF ProofTyped
  <2>4. PICK f : Climbs(f, p)
    BY <2>1, VerifyClimbs
  <2>5. PICK g : Climbs(g, q) /\ (Verify(q) <=> g[Depth] = q.root)
    BY <2>3, VerifyClimbs
  <2>6. f[Depth] # g[Depth]
    BY <2>1, <2>2, <2>3, <2>4, <2>5, CollisionFree, ClimbsApart
  <2>7. ~ Verify(q)
    BY <2>1, <2>2, <2>4, <2>5, <2>6
  <2>8. QED BY <2>7 DEF p, q
<1>2. ASSUME IInv, LeavesFit,
             Idle => \A index \in 0..(Len(nodes[0]) - 1) : ProvesItsLeaf(index)
      PROVE  ProofsVerify
  BY <1>1, <1>2 DEF ProofsVerify
<1>3. QED BY Invariance, NeverOverfull, OwnProofsVerify, <1>2, PTL
-----------------------------------------------------------------------------
(* The sponge. *)

LEMMA ModBounds ==
  ASSUME NEW a \in Nat, NEW p \in Nat \ {0}
  PROVE  /\ a \div p \in Nat /\ a % p \in 0..(p - 1)
         /\ a = p * (a \div p) + (a % p)
OBVIOUS

\* A number is determined by its quotient and its rest.
LEMMA DivUnique ==
  ASSUME NEW p \in Nat \ {0}, NEW w \in Nat, NEW v \in 0..(p - 1)
  PROVE  (p * w + v) \div p = w /\ (p * w + v) % p = v
<1> DEFINE a == p * w + v  q == a \div p  r == a % p
<1>1. p * w \in Nat
  OBVIOUS
<1>2. a \in Nat
  BY <1>1
<1>3. q \in Nat /\ r \in 0..(p - 1) /\ a = p * q + r
  BY <1>2, ModBounds
<1>4. p * w + v = p * q + r
  BY <1>3
<1> HIDE DEF a, q
<1>5. \A x, y \in Nat : x < y => p * x + p <= p * y
  <2>1. \A x, d \in Nat : p * (x + 1 + d) = p * x + p + p * d /\ p * d >= 0
    OBVIOUS
  <2>2. \A x, y \in Nat : x < y => y - x - 1 \in Nat /\ y = x + 1 + (y - x - 1)
    OBVIOUS
  <2>3. \A x \in Nat : p * x \in Nat
    OBVIOUS
  <2> QED
    BY <2>1, <2>2, <2>3
<1>6. q = w
  <2> HIDE DEF r
  <2>1. p * w \in Nat /\ p * q \in Nat
    BY <1>3
  <2>2. ~ (q < w) /\ ~ (w < q)
    BY <1>3, <1>4, <1>5, <2>1
  <2> QED
    BY <1>3, <2>2
<1> QED
  BY <1>1, <1>3, <1>4, <1>6 DEF a, q, r

LEMMA ModUnique ==
  ASSUME NEW p \in Nat \ {0}, NEW w \in Nat, NEW v \in 0..(p - 1)
  PROVE  (p * w + v) % p = v
BY DivUnique

LEMMA ModPlus ==
  ASSUME NEW p \in Nat \ {0}, NEW a \in Nat, NEW b \in Nat
  PROVE  (a + (b % p)) % p = (a + b) % p
<1> DEFINE c == a + (b % p)
<1>1. b \div p \in Nat /\ b % p \in Nat /\ b = p * (b \div p) + (b % p)
  BY ModBounds
<1>2. c \in Nat /\ c \div p \in Nat /\ c % p \in 0..(p - 1) /\ c = p * (c \div p) + (c % p)
  <2>1. c \in Nat
    BY <1>1
  <2> HIDE DEF c
  <2> QED BY <2>1, ModBounds
<1>3. a + b = p * ((b \div p) + (c \div p)) + (c % p)
  <2> HIDE DEF c
  <2>1. a + b = p * (b \div p) + c
    BY <1>1 DEF c
  <2>2. p * ((b \div p) + (c \div p)) = p * (b \div p) + p * (c \div p)
    BY <1>1, <1>2
  <2>3. p * (b \div p) \in Nat /\ p * (c \div p) \in Nat
    BY <1>1, <1>2
  <2> QED
    BY <1>2, <2>1, <2>2, <2>3
<1>4. (b \div p) + (c \div p) \in Nat
  BY <1>1, <1>2
<1> HIDE DEF c
<1>5. (a + b) % p = c % p
  BY <1>2, <1>3, <1>4, ModUnique
<1> QED
  BY <1>5 DEF c

LEMMA ModTimes ==
  ASSUME NEW p \in Nat \ {0}, NEW a \in Nat, NEW b \in Nat
  PROVE  ((a % p) * b) % p = (a * b) % p
<1> DEFINE c == (a % p) * b
<1>1. a \div p \in Nat /\ a % p \in Nat /\ a = p * (a \div p) + (a % p)
  BY ModBounds
<1>2. \A x, y \in Nat : x * y \in Nat
  OBVIOUS
<1>3. c \in Nat /\ (a \div p) * b \in Nat
  BY <1>1, <1>2
<1>4. c \div p \in Nat /\ c % p \in 0..(p - 1) /\ c = p * (c \div p) + (c % p)
  BY <1>3, ModBounds
<1>5. a * b = p * ((a \div p) * b) + c
  <2>1. \A x, y, z \in Nat : (p * x + y) * z = p * (x * z) + y * z
    OBVIOUS
  <2> QED
    BY <1>1, <2>1
<1>6. a * b = p * ((a \div p) * b + (c \div p)) + (c % p)
  <2> HIDE DEF c
  <2>1. p * ((a \div p) * b + (c \div p)) = p * ((a \div p) * b) + p * (c \div p)
    BY <1>3, <1>4
  <2>2. p * ((a \div p) * b) \in Nat /\ p * (c \div p) \in Nat
    BY <1>2, <1>3, <1>4
  <2> QED
    BY <1>4, <1>5, <2>1, <2>2
<1>7. (a \div p) * b + (c \div p) \in Nat
  BY <1>3, <1>4
<1> HIDE DEF c
<1>8. (a * b) % p = c % p
  BY <1>4, <1>6, <1>7, ModUnique
<1> QED
  BY <1>8 DEF c

\* Pow5 is the fifth power, reduced on the way.
LEMMA Pow5Is ==
  ASSUME NEW t \in Nat
  PROVE  /\ Pow5(t % P) \in Nat
         /\ Pow5(t % P) = (t * t * t * t * t) % P
<1>0. P \in Nat \ {0}
  BY SpongeAssumption
<1> DEFINE r == t % P
           r2 == (r * r) % P
           r4 == (r2 * r2) % P
<1>1. r \in Nat /\ \A x, y \in Nat : x * y \in Nat
  BY <1>0, ModBounds
<1>2. r * r \in Nat /\ t * t \in Nat /\ t * t * t * t \in Nat
  BY <1>1
<1>3. r2 \in Nat
  BY <1>0, <1>2, ModBounds
<1>4. r4 \in Nat
  BY <1>0, <1>1, <1>3, ModBounds
<1>5. r2 = (t * t) % P
  <2>1. (r * r) % P = (t * r) % P
    BY <1>0, <1>1, ModTimes
  <2>2. (r * t) % P = (t * t) % P
    BY <1>0, ModTimes
  <2>3. t * r = r * t
    BY <1>1
  <2> QED
    BY <2>1, <2>2, <2>3
<1>6. r4 = (t * t * t * t) % P
  <2> DEFINE s == t * t
  <2>0. s \in Nat
    BY <1>2
  <2>1. (r2 * r2) % P = (s * r2) % P
    <3> HIDE DEF s, r2
    <3>1. r2 = s % P
      BY <1>5 DEF s
    <3> QED
      BY <1>0, <1>3, <2>0, <3>1, ModTimes
  <2>2. (r2 * s) % P = (s * s) % P
    <3> HIDE DEF s, r2
    <3>1. r2 = s % P
      BY <1>5 DEF s
    <3> QED
      BY <1>0, <2>0, <3>1, ModTimes
  <2>3. s * r2 = r2 * s
    <3> HIDE DEF s, r2
    <3> QED BY <1>3, <2>0
  <2>4. s * s = t * t * t * t
    OBVIOUS
  <2> QED
    BY <2>1, <2>2, <2>3, <2>4
<1>7. (r4 * r) % P = (t * t * t * t * t) % P
  <2> DEFINE s == t * t * t * t
  <2>0. s \in Nat
    BY <1>2
  <2>1. (r4 * r) % P = (s * r) % P
    <3> HIDE DEF s, r4, r
    <3>1. r4 = s % P
      BY <1>6 DEF s
    <3> QED
      BY <1>0, <1>1, <2>0, <3>1, ModTimes
  <2>2. (r * s) % P = (t * s) % P
    <3> HIDE DEF s
    <3> QED
      BY <1>0, <2>0, ModTimes
  <2>3. s * r = r * s /\ t * s = s * t
    <3> HIDE DEF s, r
    <3> QED BY <1>1, <2>0
  <2> QED
    BY <2>1, <2>2, <2>3
<1>8. Pow5(r) = (r4 * r) % P
  BY DEF Pow5
<1>9. (r4 * r) % P \in Nat
  <2>1. r4 * r \in Nat
    <3> HIDE DEF r4, r
    <3> QED BY <1>1, <1>4
  <2> HIDE DEF r4, r
  <2> QED BY <1>0, <2>1, ModBounds
<1> QED
  BY <1>7, <1>8, <1>9

-----------------------------------------------------------------------------
(* Folds. *)

LEMMA MaxOf ==
  ASSUME NEW n \in Nat \ {0}
  PROVE  Max(1..n) = n /\ (1..n) \ {n} = 1..(n - 1)
<1>1. n \in 1..n /\ \A y \in 1..n : n >= y
  OBVIOUS
<1>2. \A x \in 1..n : (\A y \in 1..n : x >= y) => x = n
  OBVIOUS
<1>3. Max(1..n) = n
  BY <1>1, <1>2 DEF Max
<1> QED
  BY <1>3

\* A non-empty set of positions has a last one.
LEMMA MaxIsLast ==
  ASSUME NEW n \in Nat, NEW s \in SUBSET (1..n), s # {}
  PROVE  Max(s) \in s /\ \A y \in s : Max(s) >= y
<1> DEFINE T == {n - y : y \in s}
<1>1. T \in SUBSET Nat /\ T # {}
  <2>1. \A y \in s : y \in 1..n /\ n - y \in Nat
    OBVIOUS
  <2> QED BY <2>1
<1>2. PICK t \in T : \A u \in T : t <= u
  <2> HIDE DEF T
  <2> QED BY <1>1, LeastNat
<1>3. PICK x \in s : t = n - x
  BY <1>2
<1>4. \A y \in s : x >= y
  <2> TAKE y \in s
  <2>1. n - y \in T /\ t <= n - y
    BY <1>2
  <2>2. x \in 1..n /\ y \in 1..n
    OBVIOUS
  <2> QED
    BY <1>3, <2>1, <2>2
<1> QED
  BY <1>3, <1>4 DEF Max

\* What a fold is defined by: a function over the sets of positions that takes the
\* last one in last.
FoldsTo(f, n, V, base, step) ==
  /\ f \in [SUBSET (1..n) -> V]
  /\ f[{}] = base
  /\ \A s \in SUBSET (1..n) : s # {} => f[s] = step[Max(s)][f[s \ {Max(s)}]]

LEMMA FoldExists ==
  ASSUME NEW V, NEW base \in V, NEW d \in Nat, NEW step \in [1..d -> [V -> V]]
  PROVE  \E f : FoldsTo(f, d, V, base, step)
<1> DEFINE T == {n \in 0..d : ~ \E f : FoldsTo(f, n, V, base, step)}
<1>1. SUFFICES ASSUME T # {} PROVE FALSE
  <2>1. T = {} => \A n \in 0..d : \E f : FoldsTo(f, n, V, base, step)
    OBVIOUS
  <2>2. d \in 0..d
    OBVIOUS
  <2>3. QED BY <2>1, <2>2
<1>2. PICK n \in T : \A m \in T : n <= m
  <2>1. T \in SUBSET Nat
    OBVIOUS
  <2> HIDE DEF T
  <2>2. QED BY <1>1, <2>1, LeastNat
<1>3. CASE n = 0
  <2> DEFINE g == [s \in {{}} |-> base]
  <2>1. SUBSET (1..0) = {{}}
    OBVIOUS
  <2>2. FoldsTo(g, 0, V, base, step)
    BY <2>1 DEF FoldsTo
  <2>3. QED BY <2>2, <1>3, <1>2
<1>4. CASE n # 0
  <2>1. n - 1 \in 0..d /\ n \in 1..d /\ n - 1 \notin T
    BY <1>2, <1>4
  <2>2. PICK f : FoldsTo(f, n - 1, V, base, step)
    BY <2>1
  <2> DEFINE g == [s \in SUBSET (1..n) |-> IF n \in s THEN step[n][f[s \ {n}]] ELSE f[s]]
  <2>3. /\ \A s \in SUBSET (1..n) : s \ {n} \in SUBSET (1..(n - 1))
        /\ \A s \in SUBSET (1..n) : n \notin s => s \in SUBSET (1..(n - 1)) /\ s \ {n} = s
    BY <2>1
  <2>4. g \in [SUBSET (1..n) -> V]
    <3>1. ASSUME NEW s \in SUBSET (1..n) PROVE g[s] \in V
      <4>1. f[s \ {n}] \in V /\ (n \notin s => f[s] \in V)
        BY <2>2, <2>3 DEF FoldsTo
      <4>2. step[n] \in [V -> V]
        BY <2>1
      <4> QED
        BY <4>1, <4>2
    <3> QED
      BY <3>1
  <2>5. g[{}] = base
    BY <2>2 DEF FoldsTo
  <2>6. ASSUME NEW s \in SUBSET (1..n), s # {}
        PROVE  g[s] = step[Max(s)][g[s \ {Max(s)}]]
    <3>1. Max(s) \in s /\ Max(s) \in 1..n /\ \A y \in s : Max(s) >= y
      <4>1. n \in Nat
        BY <2>1
      <4> HIDE DEF g
      <4>2. Max(s) \in s /\ \A y \in s : Max(s) >= y
        BY <2>6, <4>1, MaxIsLast
      <4> QED BY <4>2
    <3>2. CASE n \in s
      <4>1. Max(s) = n
        BY <3>1, <3>2
      <4>2. g[s \ {n}] = f[s \ {n}]
        BY <2>3
      <4> QED
        BY <3>2, <4>1, <4>2
    <3>3. CASE n \notin s
      <4>1. s \in SUBSET (1..(n - 1)) /\ s \ {Max(s)} \in SUBSET (1..n) /\ n \notin s \ {Max(s)}
        BY <2>3, <3>3
      <4>2. g[s] = f[s] /\ g[s \ {Max(s)}] = f[s \ {Max(s)}]
        BY <3>3, <4>1
      <4>3. f[s] = step[Max(s)][f[s \ {Max(s)}]]
        BY <2>2, <2>6, <4>1 DEF FoldsTo
      <4> QED
        BY <4>2, <4>3
    <3> QED
      BY <3>2, <3>3
  <2>7. FoldsTo(g, n, V, base, step)
    <3> HIDE DEF g
    <3> QED BY <2>4, <2>5, <2>6 DEF FoldsTo
  <2>8. QED BY <2>7, <1>2
<1>5. QED BY <1>3, <1>4

LEMMA SpongeConstants == /\ Len(C) \in Nat /\ Len(C) >= 2 /\ C[1] = 0 /\ P \in Nat \ {0}
                   /\ \A i \in 1..Len(C) : C[i] \in Nat
BY SpongeAssumption DEF Elements

\* What the next half is.
Fifth(t) == t * t * t * t * t
NextHalf(a, b, k, c) == (a + Fifth(b + k + c)) % P

LEMMA NextHalfTyped ==
  ASSUME NEW a \in Nat, NEW b \in Nat, NEW k \in Nat, NEW c \in Nat
  PROVE  NextHalf(a, b, k, c) \in 0..(P - 1) /\ NextHalf(a, b, k, c) \in Nat
<1> DEFINE t == b + k + c
           w == a + Fifth(t)
<1>1. t \in Nat
  OBVIOUS
<1>2. \A x, y \in Nat : x * y \in Nat
  OBVIOUS
<1>3. Fifth(t) \in Nat
  <2> HIDE DEF t
  <2> QED BY <1>1, <1>2 DEF Fifth
<1>4. w \in Nat
  <2> HIDE DEF t
  <2> QED BY <1>3
<1>5. w % P \in 0..(P - 1) /\ w % P \in Nat
  <2>1. P \in Nat \ {0}
    BY SpongeConstants
  <2> HIDE DEF w
  <2>2. w % P \in 0..(P - 1)
    BY <1>4, <2>1, ModBounds
  <2> QED BY <2>1, <2>2
<1> QED BY <1>5 DEF NextHalf

\* The halves are defined, by the two before them.
Chained(x, xl, xr, k) ==
  /\ \A i \in 0..(Len(C) + 1) : x[i] \in Nat
  /\ x[0] = xr /\ x[1] = xl
  /\ \A i \in 2..(Len(C) + 1) : x[i] = NextHalf(x[i - 2], x[i - 1], k, C[i - 1])

LEMMA HalvesIs ==
  ASSUME NEW xl \in Nat, NEW xr \in Nat, NEW k \in Nat
  PROVE  Chained(Halves(xl, xr, k), xl, xr, k)
<1> DEFINE n == Len(C)
           V == Nat \X Nat
           step == [i \in 1..n |-> [s \in V |-> <<NextHalf(s[2], s[1], k, C[i]), s[1]>>]]
           Eq(f) == f = [i \in 0..(n + 1) |->
                           IF i = 0 THEN xr ELSE IF i = 1 THEN xl
                           ELSE NextHalf(f[i - 2], f[i - 1], k, C[i - 1])]
           x == Halves(xl, xr, k)
<1> SUFFICES /\ \A i \in 0..(n + 1) : x[i] \in Nat
             /\ x[0] = xr /\ x[1] = xl
             /\ \A i \in 2..(n + 1) : x[i] = NextHalf(x[i - 2], x[i - 1], k, C[i - 1])
  BY DEF Chained
<1>0. n \in Nat /\ n >= 2
  BY SpongeConstants
<1>6. x = CHOOSE g : Eq(g)
  BY DEF Halves, NextHalf, Fifth
<1> HIDE DEF x
<1>1. \A i \in 1..n, s \in V : step[i] = [u \in V |-> <<NextHalf(u[2], u[1], k, C[i]), u[1]>>]
                              /\ <<NextHalf(s[2], s[1], k, C[i]), s[1]>> \in V
  <2> TAKE i \in 1..n, s \in V
  <2>1. s[1] \in Nat /\ s[2] \in Nat /\ C[i] \in Nat
    BY SpongeConstants
  <2>2. NextHalf(s[2], s[1], k, C[i]) \in Nat
    BY <2>1, NextHalfTyped
  <2> QED BY <2>1, <2>2
<1>2. step \in [1..n -> [V -> V]]
  <2>1. ASSUME NEW i \in 1..n PROVE [u \in V |-> <<NextHalf(u[2], u[1], k, C[i]), u[1]>>] \in [V -> V]
    <3> HIDE DEF V
    <3> QED BY <1>1
  <2> HIDE DEF V
  <2> QED BY <2>1
<1>3. PICK p : Solves(p, n, V, <<xl, xr>>, step)
  <2> HIDE DEF step
  <2>1. <<xl, xr>> \in V
    OBVIOUS
  <2> HIDE DEF V, n
  <2> QED BY <1>0, <1>2, <2>1, Recursion
<1>4. /\ p[0] = <<xl, xr>> /\ \A i \in 0..n : p[i] \in V
      /\ \A i \in 1..n : p[i] = <<NextHalf(p[i - 1][2], p[i - 1][1], k, C[i]), p[i - 1][1]>>
  <2>1. p \in [0..n -> V] /\ p[0] = <<xl, xr>> /\ \A i \in 1..n : p[i] = step[i][p[i - 1]]
    BY <1>3 DEF Solves
  <2>2. ASSUME NEW i \in 1..n
        PROVE  p[i] = <<NextHalf(p[i - 1][2], p[i - 1][1], k, C[i]), p[i - 1][1]>>
    <3>0. i - 1 \in 0..n
      BY <1>0
    <3> HIDE DEF V
    <3>1. p[i - 1] \in V
      BY <2>1, <3>0
    <3>2. step[i] = [u \in V |-> <<NextHalf(u[2], u[1], k, C[i]), u[1]>>]
      BY <1>1, <3>1
    <3>3. p[i] = step[i][p[i - 1]]
      BY <2>1
    <3> HIDE DEF step
    <3> QED BY <3>1, <3>2, <3>3
  <2> HIDE DEF V, step
  <2> QED BY <2>1, <2>2
<1> DEFINE f == [i \in 0..(n + 1) |-> IF i = 0 THEN xr ELSE p[i - 1][1]]
<1> HIDE DEF step
<1>5. Eq(f)
  <2>1. ASSUME NEW i \in 2..(n + 1)
        PROVE  f[i] = NextHalf(f[i - 2], f[i - 1], k, C[i - 1])
    <3>1. i - 1 \in 1..n /\ f[i] = p[i - 1][1] /\ f[i - 1] = p[i - 2][1]
      BY <1>0
    <3>2. f[i - 2] = p[i - 2][2]
      <4>1. CASE i = 2
        BY <1>4, <4>1, <1>0
      <4>2. CASE i # 2
        <5>1. i - 2 \in 1..n /\ f[i - 2] = p[i - 3][1] /\ (i - 2) - 1 = i - 3
          BY <4>2, <1>0
        <5>2. p[i - 2] = <<NextHalf(p[(i - 2) - 1][2], p[(i - 2) - 1][1], k, C[i - 2]), p[(i - 2) - 1][1]>>
          BY <1>4, <5>1
        <5> QED BY <5>1, <5>2
      <4> QED BY <4>1, <4>2
    <3>3. p[i - 1] = <<NextHalf(p[(i - 1) - 1][2], p[(i - 1) - 1][1], k, C[i - 1]), p[(i - 1) - 1][1]>>
      BY <1>4, <3>1
    <3>4. (i - 1) - 1 = i - 2
      OBVIOUS
    <3> HIDE DEF f
    <3> QED BY <3>1, <3>2, <3>3, <3>4
  <2>2. f[0] = xr /\ f[1] = xl
    BY <1>4, <1>0
  <2>3. \A i \in 0..(n + 1) : i = 0 \/ i = 1 \/ i \in 2..(n + 1)
    BY <1>0
  <2>4. f = [i \in 0..(n + 1) |-> f[i]]
    OBVIOUS
  <2> HIDE DEF f
  <2> QED BY <2>1, <2>2, <2>3, <2>4
<1>7. Eq(x)
  <2> HIDE DEF Eq, f
  <2> QED BY <1>5, <1>6
<1>8. /\ x[0] = xr /\ x[1] = xl
      /\ \A i \in 2..(n + 1) : x[i] = NextHalf(x[i - 2], x[i - 1], k, C[i - 1])
  <2>1. \A i \in 0..(n + 1) : x[i] = IF i = 0 THEN xr ELSE IF i = 1 THEN xl
                                     ELSE NextHalf(x[i - 2], x[i - 1], k, C[i - 1])
    BY <1>7
  <2> HIDE DEF Eq
  <2>2. 0 \in 0..(n + 1) /\ 1 \in 0..(n + 1) /\ \A i \in 2..(n + 1) : i \in 0..(n + 1) /\ i # 0 /\ i # 1
    BY <1>0
  <2> QED BY <2>1, <2>2
<1> HIDE DEF Eq
<1>9. \A i \in 0..(n + 1) : x[i] \in Nat
  <2> DEFINE T == {i \in 0..(n + 1) : x[i] \notin Nat}
  <2> SUFFICES ASSUME T # {} PROVE FALSE
    OBVIOUS
  <2>1. PICK i \in T : \A j \in T : i <= j
    <3>1. T \in SUBSET Nat
      BY <1>0
    <3> HIDE DEF T
    <3> QED BY <3>1, LeastNat
  <2>2. i \in 2..(n + 1) /\ i - 1 \notin T /\ i - 2 \notin T
    BY <1>0, <1>8, <2>1, SMTT(30)
  <2>3. x[i - 1] \in Nat /\ x[i - 2] \in Nat /\ C[i - 1] \in Nat
    BY <2>2, <1>0, SpongeConstants
  <2>4. x[i] = NextHalf(x[i - 2], x[i - 1], k, C[i - 1])
    BY <1>8, <2>2
  <2>5. x[i] \in Nat
    <3>1. NextHalf(x[i - 2], x[i - 1], k, C[i - 1]) \in Nat
      BY <2>3, NextHalfTyped
    <3> QED BY <2>4, <3>1
  <2> QED BY <2>1, <2>5
<1> QED BY <1>8, <1>9

Pairs == Nat \X Nat

\* A round, in terms of the halves.
RoundFits(a, b, k, c) ==
  /\ Round(<<b, a>>, b + k + c) = <<NextHalf(a, b, k, c), b>>
  /\ LastRound(<<b, a>>, b + k + c) = <<b, NextHalf(a, b, k, c)>>

LEMMA RoundIs ==
  ASSUME NEW a \in Nat, NEW b \in Nat, NEW k \in Nat, NEW c \in Nat
  PROVE  RoundFits(a, b, k, c)
<1> DEFINE t == b + k + c
<1>1. t \in Nat /\ P \in Nat \ {0}
  BY SpongeConstants
<1>2. Pow5(t % P) = Fifth(t) % P
  <2> HIDE DEF t
  <2> QED BY <1>1, Pow5Is DEF Fifth
<1>3. Fifth(t) \in Nat
  <2> HIDE DEF t
  <2>1. \A x, y \in Nat : x * y \in Nat
    OBVIOUS
  <2> QED BY <1>1, <2>1 DEF Fifth
<1>4. (a + (Fifth(t) % P)) % P = (a + Fifth(t)) % P
  <2> HIDE DEF t
  <2> QED BY <1>1, <1>3, ModPlus
<1>5. Added(<<b, a>>, t) = NextHalf(a, b, k, c)
  BY <1>2, <1>4 DEF Added, NextHalf
<1> QED
  BY <1>5 DEF RoundFits, Round, LastRound

\* The rounds in between, one after the other.
LEMMA InnerIs ==
  ASSUME NEW xl \in Nat, NEW xr \in Nat, NEW k \in Nat
  PROVE  LET x == Halves(xl, xr, k)
         IN  FoldLeft(LAMBDA s, c : Round(s, s[1] + k + c),
                      Round(<<xl, xr>>, xl + k), SubSeq(C, 2, Len(C) - 1))
               = <<x[Len(C)], x[Len(C) - 1]>>
<1> DEFINE n == Len(C)
           d == n - 2
           x == Halves(xl, xr, k)
           first == Round(<<xl, xr>>, xl + k)
           seq == SubSeq(C, 2, n - 1)
           y == [m \in 0..d |-> <<x[m + 2], x[m + 1]>>]
           step == [m \in 1..d |-> [s \in Pairs |-> <<NextHalf(s[2], s[1], k, C[m + 1]), s[1]>>]]
           Eq(f) == f = [s \in SUBSET (DOMAIN seq) |->
                           IF s = {} THEN first
                           ELSE Round(f[s \ {Max(s)}], f[s \ {Max(s)}][1] + k + seq[Max(s)])]
           inner == FoldLeft(LAMBDA s, c : Round(s, s[1] + k + c), first, seq)
<1> SUFFICES inner = <<x[n], x[n - 1]>>
  OBVIOUS
<1>1. inner = (CHOOSE f : Eq(f))[DOMAIN seq]
  BY DEF FoldLeft, MapThenFoldSet
<1> HIDE DEF inner
<1>2. /\ d \in Nat /\ n \in Nat /\ n >= 2 /\ C \in Seq(Elements) /\ C[1] = 0
      /\ \A i \in 1..n : C[i] \in Nat
  BY SpongeConstants, SpongeAssumption
<1>3. DOMAIN seq = 1..d /\ \A m \in 1..d : seq[m] = C[m + 1] /\ C[m + 1] \in Nat
  <2>1. \A i \in 2..(n - 1) : C[i] \in Elements
    BY <1>2
  <2>2. /\ Len(seq) = d /\ seq \in Seq(Elements)
        /\ \A m \in 1..d : seq[m] = C[m + 1]
    <3> HIDE DEF seq
    <3>1. 2 \in Int /\ n - 1 \in Int
      BY <1>2
    <3>2. /\ seq \in Seq(Elements)
          /\ Len(seq) = IF 2 <= n - 1 THEN (n - 1) - 2 + 1 ELSE 0
          /\ \A m \in 1..((n - 1) - 2 + 1) : seq[m] = C[2 + m - 1]
      BY <2>1, <3>1, SubSeqProperties DEF seq
    <3>3. (n - 1) - 2 + 1 = d /\ \A m \in 1..d : 2 + m - 1 = m + 1
      BY <1>2
    <3>4. Len(seq) = d
      <4>1. Len(seq) = IF 2 <= n - 1 THEN (n - 1) - 2 + 1 ELSE 0
        BY <3>2
      <4>2. n \in Nat /\ n >= 2
        BY <1>2
      <4> HIDE DEF n
      <4>3. CASE n = 2
        BY <4>1, <4>3
      <4>4. CASE n > 2
        BY <4>1, <4>2, <4>4
      <4> QED BY <4>2, <4>3, <4>4
    <3>5. \A m \in 1..d : seq[m] = C[m + 1]
      <4> HIDE DEF d
      <4> QED BY <3>2, <3>3
    <3> QED BY <3>2, <3>4, <3>5
  <2>3. DOMAIN seq = 1..d
    BY <2>2
  <2> QED BY <1>2, <2>2, <2>3
<1> HIDE DEF seq
<1>4. /\ \A i \in 0..(n + 1) : x[i] \in Nat
      /\ x[0] = xr /\ x[1] = xl
      /\ \A i \in 2..(n + 1) : x[i] = NextHalf(x[i - 2], x[i - 1], k, C[i - 1])
  <2>1. Chained(x, xl, xr, k)
    BY HalvesIs
  <2> HIDE DEF x
  <2> QED BY <2>1 DEF Chained
<1> HIDE DEF x
<1>5. first = <<x[2], x[1]>>
  <2>1. x[2] = NextHalf(x[0], x[1], k, C[1])
    <3>1. 2 \in 2..(n + 1) /\ 2 - 2 = 0 /\ 2 - 1 = 1
      BY <1>2
    <3> QED BY <1>4, <3>1
  <2>2. xl + k = xl + k + 0
    OBVIOUS
  <2>3. Round(<<xl, xr>>, xl + k + 0) = <<NextHalf(xr, xl, k, 0), xl>>
    <3>1. 0 \in Nat
      OBVIOUS
    <3> HIDE DEF Eq, step, y, first
    <3>2. RoundFits(xr, xl, k, 0)
      BY <3>1, RoundIs
    <3> QED BY <3>2 DEF RoundFits
  <2> QED BY <1>2, <1>4, <2>1, <2>2, <2>3
<1>6. \A m \in 0..d : x[m + 2] \in Nat /\ x[m + 1] \in Nat /\ y[m] \in Pairs
  BY <1>2, <1>4 DEF Pairs
<1>7. \A m \in 1..d : \A s \in Pairs :
        /\ <<NextHalf(s[2], s[1], k, C[m + 1]), s[1]>> \in Pairs
        /\ step[m][s] = <<NextHalf(s[2], s[1], k, C[m + 1]), s[1]>>
        /\ Round(s, s[1] + k + seq[m]) = <<NextHalf(s[2], s[1], k, C[m + 1]), s[1]>>
  <2> TAKE m \in 1..d
  <2> TAKE s \in Pairs
  <2>1. s[1] \in Nat /\ s[2] \in Nat /\ s = <<s[1], s[2]>> /\ C[m + 1] \in Nat /\ seq[m] = C[m + 1]
    <3> HIDE DEF d
    <3> QED BY <1>3 DEF Pairs
  <2>2. NextHalf(s[2], s[1], k, C[m + 1]) \in Nat
    BY <2>1, NextHalfTyped
  <2>3. Round(<<s[1], s[2]>>, s[1] + k + C[m + 1]) = <<NextHalf(s[2], s[1], k, C[m + 1]), s[1]>>
    <3>1. RoundFits(s[2], s[1], k, C[m + 1])
      BY <2>1, RoundIs
    <3> QED BY <3>1 DEF RoundFits
  <2>4. <<NextHalf(s[2], s[1], k, C[m + 1]), s[1]>> \in Pairs
    BY <2>1, <2>2 DEF Pairs
  <2> HIDE DEF d
  <2> QED BY <2>1, <2>3, <2>4
<1>8. step \in [1..d -> [Pairs -> Pairs]]
  <2> SUFFICES ASSUME NEW m \in 1..d
               PROVE  [s \in Pairs |-> <<NextHalf(s[2], s[1], k, C[m + 1]), s[1]>>] \in [Pairs -> Pairs]
    <3> HIDE DEF d
    <3> QED OBVIOUS
  <2> QED BY <1>7
<1>9. PICK f : FoldsTo(f, d, Pairs, y[0], step)
  <2> HIDE DEF step, y
  <2>1. y[0] \in Pairs
    BY <1>2, <1>6
  <2> QED BY <1>2, <1>8, <2>1, FoldExists
<1>10. Eq(f)
  <2>1. /\ f \in [SUBSET (1..d) -> Pairs] /\ f[{}] = y[0]
        /\ \A s \in SUBSET (1..d) : s # {} => f[s] = step[Max(s)][f[s \ {Max(s)}]]
    BY <1>9 DEF FoldsTo
  <2>2. f[{}] = first
    BY <1>2, <1>5, <2>1
  <2> HIDE DEF step, y
  <2>3. ASSUME NEW s \in SUBSET (1..d), s # {}
        PROVE  f[s] = Round(f[s \ {Max(s)}], f[s \ {Max(s)}][1] + k + seq[Max(s)])
    <3>1. Max(s) \in 1..d
      BY <1>2, <2>3, MaxIsLast
    <3>2. f[s \ {Max(s)}] \in Pairs
      BY <2>1
    <3> QED BY <1>7, <2>1, <2>3, <3>1, <3>2
  <2> HIDE DEF first
  <2> QED BY <1>3, <2>1, <2>2, <2>3
<1>11. PICK h : Eq(h) /\ inner = h[DOMAIN seq]
  <2> HIDE DEF Eq
  <2> QED BY <1>1, <1>10
<1> DEFINE g == [m \in 0..d |-> h[1..m]]
<1>12. g[0] = y[0]
  <2>1. 1..0 = {}
    OBVIOUS
  <2>2. h[{}] = first
    BY <1>11
  <2> QED BY <1>2, <1>5, <2>1, <2>2
<1>13. ASSUME NEW m \in 1..d, g[m - 1] = y[m - 1]
       PROVE  g[m] = y[m]
  <2>1. /\ m \in Nat \ {0} /\ m - 1 \in 0..d /\ m \in 0..d
        /\ (m - 1) + 2 = m + 1 /\ (m - 1) + 1 = m
    BY <1>2
  <2>2. Max(1..m) = m /\ (1..m) \ {m} = 1..(m - 1) /\ 1..m # {} /\ 1..m \in SUBSET (1..d)
    <3>1. Max(1..m) = m /\ (1..m) \ {m} = 1..(m - 1)
      BY <2>1, MaxOf
    <3>2. m \in 1..m
      BY <2>1
    <3>3. \A i \in 1..m : i \in 1..d
      BY <1>2
    <3> QED BY <3>1, <3>2, <3>3
  <2>3. h[1..m] = Round(h[1..(m - 1)], h[1..(m - 1)][1] + k + seq[m])
    <3>1. \A s \in SUBSET (1..d) : s # {} =>
            h[s] = Round(h[s \ {Max(s)}], h[s \ {Max(s)}][1] + k + seq[Max(s)])
      BY <1>3, <1>11
    <3> HIDE DEF Eq, d
    <3>2. h[1..m] = Round(h[(1..m) \ {Max(1..m)}], h[(1..m) \ {Max(1..m)}][1] + k + seq[Max(1..m)])
      BY <2>2, <3>1
    <3> QED BY <2>2, <3>2
  <2>4. h[1..(m - 1)] = <<x[m + 1], x[m]>>
    BY <1>13, <2>1
  <2>5. <<x[m + 1], x[m]>> \in Pairs
    BY <1>6, <2>1
  <2>6. h[1..m] = <<NextHalf(x[m], x[m + 1], k, C[m + 1]), x[m + 1]>>
    BY <1>7, <2>3, <2>4, <2>5
  <2>7. x[m + 2] = NextHalf(x[m], x[m + 1], k, C[m + 1])
    <3>1. m + 2 \in 2..(n + 1) /\ (m + 2) - 2 = m /\ (m + 2) - 1 = m + 1
      BY <1>2
    <3> QED BY <1>4, <3>1
  <2> QED BY <2>1, <2>6, <2>7
<1>14. g[d] = y[d]
  <2>1. \A m \in 1..d : g[m - 1] = y[m - 1] => g[m] = y[m]
    BY <1>13
  <2>3. d \in Nat
    BY <1>2
  <2> HIDE DEF g, y, d
  <2>2. \A m \in 0..d : g[m] = y[m]
    BY <2>3, <1>12, <2>1, SameByLevel
  <2> QED BY <1>2, <2>2
<1> QED
  <2>1. d + 2 = n /\ d + 1 = n - 1 /\ d \in 0..d
    BY <1>2
  <2> QED BY <1>3, <1>11, <1>14, <2>1

\* The hash of a state is its last two halves.
LEMMA MimcHashIs ==
  ASSUME NEW xl \in Nat, NEW xr \in Nat, NEW k \in Nat
  PROVE  /\ MimcHash(xl, xr, k) = ReferenceHash(xl, xr, k)
         /\ ReferenceHash(xl, xr, k) \in Pairs
         /\ ReferenceHash(xl, xr, k)[1] \in Elements
<1> DEFINE n == Len(C)
           x == Halves(xl, xr, k)
           inner == FoldLeft(LAMBDA s, c : Round(s, s[1] + k + c),
                             Round(<<xl, xr>>, xl + k), SubSeq(C, 2, Len(C) - 1))
<1>1. /\ n \in Nat /\ n >= 2 /\ \A i \in 1..n : C[i] \in Nat
  BY SpongeConstants
<1>2. MimcHash(xl, xr, k) = LastRound(inner, inner[1] + k + C[n])
  BY DEF MimcHash
<1>3. inner = <<x[n], x[n - 1]>>
  BY InnerIs
<1>4. /\ \A i \in 0..(n + 1) : x[i] \in Nat
      /\ \A i \in 2..(n + 1) : x[i] = NextHalf(x[i - 2], x[i - 1], k, C[i - 1])
  <2>1. Chained(x, xl, xr, k)
    BY HalvesIs
  <2> HIDE DEF x
  <2> QED BY <2>1 DEF Chained
<1>5. ReferenceHash(xl, xr, k) = <<x[n], x[n + 1]>>
  BY DEF ReferenceHash
<1> HIDE DEF x, inner
<1>6. /\ x[n] \in Nat /\ x[n - 1] \in Nat /\ x[n + 1] \in Nat /\ x[n - 2] \in Nat
      /\ C[n] \in Nat /\ C[n - 1] \in Nat
  BY <1>1, <1>4
<1>7. x[n + 1] = NextHalf(x[n - 1], x[n], k, C[n]) /\ x[n] = NextHalf(x[n - 2], x[n - 1], k, C[n - 1])
  <2>1. n + 1 \in 2..(n + 1) /\ (n + 1) - 2 = n - 1 /\ (n + 1) - 1 = n /\ n \in 2..(n + 1)
    BY <1>1
  <2> QED BY <1>4, <2>1
<1>8. LastRound(<<x[n], x[n - 1]>>, x[n] + k + C[n]) = <<x[n], NextHalf(x[n - 1], x[n], k, C[n])>>
  <2>1. RoundFits(x[n - 1], x[n], k, C[n])
    BY <1>6, RoundIs
  <2> QED BY <2>1 DEF RoundFits
<1>9. x[n] \in Elements
  <2>1. NextHalf(x[n - 2], x[n - 1], k, C[n - 1]) \in 0..(P - 1)
    BY <1>6, NextHalfTyped
  <2> QED BY <1>7, <2>1 DEF Elements
<1> QED
  BY <1>2, <1>3, <1>5, <1>6, <1>7, <1>8, <1>9 DEF Pairs

LEMMA AbsorbedIs ==
  ASSUME NEW left \in Elements, NEW right \in Elements
  PROVE  LET once == ReferenceHash(left, 0, 0)
         IN  Absorbed(<<left, right>>, 0) = ReferenceHash((once[1] + right) % P, once[2], 0)
<1> DEFINE once == ReferenceHash(left, 0, 0)
           twice == ReferenceHash((once[1] + right) % P, once[2], 0)
           seq == <<left, right>>
           step == [m \in 1..2 |-> [s \in Pairs |-> ReferenceHash((s[1] + seq[m]) % P, s[2], 0)]]
           zero == <<0, 0>>
           Eq(f) == f = [s \in SUBSET (DOMAIN seq) |->
                           IF s = {} THEN zero
                           ELSE MimcHash((f[s \ {Max(s)}][1] + seq[Max(s)]) % P, f[s \ {Max(s)}][2], 0)]
           all == Absorbed(seq, 0)
<1> SUFFICES all = twice
  OBVIOUS
<1>1. all = (CHOOSE f : Eq(f))[DOMAIN seq]
  BY DEF Absorbed, FoldLeft, MapThenFoldSet
<1> HIDE DEF all
<1>2. P \in Nat \ {0} /\ left \in Nat /\ right \in Nat
  BY SpongeConstants DEF Elements
<1>3. DOMAIN seq = 1..2 /\ seq[1] = left /\ seq[2] = right /\ \A m \in 1..2 : seq[m] \in Nat
  BY <1>2
<1> HIDE DEF seq
<1>4. \A m \in 1..2 : \A s \in Pairs :
        /\ ReferenceHash((s[1] + seq[m]) % P, s[2], 0) \in Pairs
        /\ step[m][s] = ReferenceHash((s[1] + seq[m]) % P, s[2], 0)
        /\ MimcHash((s[1] + seq[m]) % P, s[2], 0) = ReferenceHash((s[1] + seq[m]) % P, s[2], 0)
  <2> TAKE m \in 1..2
  <2> TAKE s \in Pairs
  <2> DEFINE sum == s[1] + seq[m]
             xl == sum % P
  <2>1. sum \in Nat /\ s[2] \in Nat /\ 0 \in Nat
    BY <1>3 DEF Pairs
  <2>2. xl \in Nat
    <3>1. sum % P \in 0..(P - 1)
      <4> HIDE DEF sum
      <4> QED BY <1>2, <2>1, ModBounds
    <3> HIDE DEF sum
    <3> QED BY <1>2, <3>1
  <2>3. MimcHash(xl, s[2], 0) = ReferenceHash(xl, s[2], 0) /\ ReferenceHash(xl, s[2], 0) \in Pairs
    <3> HIDE DEF xl
    <3> QED BY <2>1, <2>2, MimcHashIs
  <2> QED BY <2>3
<1>5. step \in [1..2 -> [Pairs -> Pairs]]
  <2> SUFFICES ASSUME NEW m \in 1..2
               PROVE  [s \in Pairs |-> ReferenceHash((s[1] + seq[m]) % P, s[2], 0)] \in [Pairs -> Pairs]
    OBVIOUS
  <2> QED BY <1>4
<1>6. zero \in Pairs
  BY DEF Pairs
<1> HIDE DEF zero
<1>7. PICK f : FoldsTo(f, 2, Pairs, zero, step)
  <2> HIDE DEF step
  <2>1. 2 \in Nat
    OBVIOUS
  <2> QED BY <1>5, <1>6, <2>1, FoldExists
<1>8. Eq(f)
  <2>1. /\ f \in [SUBSET (1..2) -> Pairs] /\ f[{}] = zero
        /\ \A s \in SUBSET (1..2) : s # {} => f[s] = step[Max(s)][f[s \ {Max(s)}]]
    BY <1>7 DEF FoldsTo
  <2> HIDE DEF step
  <2>2. ASSUME NEW s \in SUBSET (1..2), s # {}
        PROVE  f[s] = MimcHash((f[s \ {Max(s)}][1] + seq[Max(s)]) % P, f[s \ {Max(s)}][2], 0)
    <3>1. Max(s) \in 1..2
      <4>1. 2 \in Nat
        OBVIOUS
      <4> QED BY <2>2, <4>1, MaxIsLast
    <3>2. f[s \ {Max(s)}] \in Pairs
      BY <2>1
    <3> QED BY <1>4, <2>1, <2>2, <3>1, <3>2, ZenonT(60)
  <2> QED BY <1>3, <2>1, <2>2
<1>9. PICK h : Eq(h) /\ all = h[DOMAIN seq]
  <2> HIDE DEF Eq
  <2> QED BY <1>1, <1>8
<1>10. \A m \in {1, 2} : h[1..m] = MimcHash((h[1..(m - 1)][1] + seq[m]) % P, h[1..(m - 1)][2], 0)
  <2> TAKE m \in {1, 2}
  <2>1. m \in Nat \ {0} /\ m \in 1..m /\ \A i \in 1..m : i \in 1..2
    OBVIOUS
  <2>2. Max(1..m) = m /\ (1..m) \ {m} = 1..(m - 1)
    BY <2>1, MaxOf
  <2>3. 1..m \in SUBSET (1..2) /\ 1..m # {}
    BY <2>1
  <2>4. ASSUME NEW s \in SUBSET (1..2), s # {}
        PROVE  h[s] = MimcHash((h[s \ {Max(s)}][1] + seq[Max(s)]) % P, h[s \ {Max(s)}][2], 0)
    BY <1>3, <1>9, <2>4
  <2> HIDE DEF Eq, step
  <2>5. h[1..m] = MimcHash((h[(1..m) \ {Max(1..m)}][1] + seq[Max(1..m)]) % P, h[(1..m) \ {Max(1..m)}][2], 0)
    BY <2>3, <2>4
  <2> QED BY <2>2, <2>5
<1>11. h[1..0] = <<0, 0>>
  <2>1. 1..0 = {}
    OBVIOUS
  <2> QED BY <1>3, <1>9, <2>1 DEF zero
<1> HIDE DEF Eq
<1>12. h[1..1] = once
  <2>1. (0 + left) % P = left
    <3>1. P * 0 + left = 0 + left /\ left \in 0..(P - 1)
      BY <1>2 DEF Elements
    <3>2. (P * 0 + left) % P = left
      <4>1. 0 \in Nat
        OBVIOUS
      <4> QED BY <1>2, <3>1, <4>1, ModUnique
    <3> QED BY <3>1, <3>2
  <2>2. h[1..1] = MimcHash((h[1..0][1] + seq[1]) % P, h[1..0][2], 0)
    <3>1. 1 - 1 = 0 /\ 1 \in {1, 2}
      OBVIOUS
    <3> QED BY <1>10, <3>1
  <2>3. h[1..0][1] = 0 /\ h[1..0][2] = 0
    BY <1>11
  <2>4. h[1..1] = MimcHash(left, 0, 0)
    BY <1>3, <2>1, <2>2, <2>3
  <2>5. 0 \in Nat
    OBVIOUS
  <2> QED BY <1>2, <2>4, <2>5, MimcHashIs
<1>13. h[1..2] = MimcHash((once[1] + right) % P, once[2], 0)
  <2>1. 2 - 1 = 1 /\ 2 \in {1, 2}
    OBVIOUS
  <2> HIDE DEF once
  <2> QED BY <1>3, <1>10, <1>12, <2>1
<1>14. MimcHash((once[1] + right) % P, once[2], 0) = twice
  <2>1. once \in Pairs
    <3>1. 0 \in Nat
      OBVIOUS
    <3> QED BY <1>2, <3>1, MimcHashIs
  <2> HIDE DEF once
  <2>2. 2 \in 1..2 /\ seq[2] = right
    BY <1>3
  <2> QED BY <1>4, <2>1, <2>2
<1> QED
  BY <1>3, <1>9, <1>13, <1>14

LEMMA ReferenceTyped ==
  ASSUME NEW left \in Elements, NEW right \in Elements
  PROVE  SpongeReference(left, right) \in Elements
<1> DEFINE once == ReferenceHash(left, 0, 0)
           xl == (once[1] + right) % P
<1>1. P \in Nat \ {0} /\ left \in Nat /\ right \in Nat /\ 0 \in Nat
  BY SpongeConstants DEF Elements
<1>2. once[1] \in Nat /\ once[2] \in Nat
  <2>1. once \in Pairs
    BY <1>1, MimcHashIs
  <2> HIDE DEF once
  <2> QED BY <2>1 DEF Pairs
<1> HIDE DEF once
<1>3. xl \in Nat
  <2> DEFINE sum == once[1] + right
  <2>1. sum \in Nat
    BY <1>1, <1>2
  <2> HIDE DEF sum
  <2>2. sum % P \in 0..(P - 1)
    BY <1>1, <2>1, ModBounds
  <2>3. sum % P \in Nat
    BY <1>1, <2>2
  <2> QED BY <2>3 DEF sum
<1>4. ReferenceHash(xl, once[2], 0)[1] \in Elements
  <2> HIDE DEF xl
  <2> QED BY <1>1, <1>2, <1>3, MimcHashIs
<1> QED BY <1>4 DEF SpongeReference, once

\* Whatever the prime and the constants, the sponge is the hash of the recurrence that
\* the contract computes, two rounds of one sequence of halves (mimc_sponge_hash).
THEOREM SpongeIsReference ==
  ASSUME NEW left \in Elements, NEW right \in Elements
  PROVE  MimcSpongeHash(left, right) = SpongeReference(left, right)
<1> DEFINE once == ReferenceHash(left, 0, 0)
           twice == ReferenceHash((once[1] + right) % P, once[2], 0)
           taken == Absorbed(<<left, right>>, 0)
           Eq(f) == f = [i \in 1..1 |-> IF i = 1 THEN taken ELSE MimcHash(f[i - 1][1], f[i - 1][2], 0)]
           state == CHOOSE f : Eq(f)
<1>1. MultiHash(<<left, right>>, 0, 1) = [i \in 1..1 |-> state[i][1]]
  BY DEF MultiHash
<1>2. taken = twice
  BY AbsorbedIs
<1> HIDE DEF taken, twice
<1>3. Eq([i \in 1..1 |-> taken])
  OBVIOUS
<1>4. Eq(state)
  <2> HIDE DEF Eq
  <2> QED BY <1>3
<1>5. state[1] = taken
  <2> HIDE DEF state
  <2> QED BY <1>4
<1> HIDE DEF state
<1> QED
  BY <1>1, <1>2, <1>5 DEF MimcSpongeHash, SpongeReference, twice
-----------------------------------------------------------------------------
(* The tree over a row of leaves without end. *)

\* Hashing any two elements gives one, and the contract's is the client's hash.
LEMMA SameHash ==
  /\ HashedPairs = Reference
  /\ \A a, b \in Elements : HashedPairs[<<a, b>>] \in Elements
<1>1. \A pair \in Elements \X Elements :
        /\ MimcSpongeHash(pair[1], pair[2]) = SpongeReference(pair[1], pair[2])
        /\ MimcSpongeHash(pair[1], pair[2]) \in Elements
  BY SpongeIsReference, ReferenceTyped
<1> QED
  BY <1>1 DEF HashedPairs, Reference

\* A pair of nodes makes the node above.
Above(below) == [i \in Nat |-> HashedPairs[<<below[2 * i], below[2 * i + 1]>>]]
Levels == [Nat -> Elements]

LEMMA AboveTyped ==
  ASSUME NEW below \in Levels
  PROVE  Above(below) \in Levels
<1>1. ASSUME NEW i \in Nat PROVE HashedPairs[<<below[2 * i], below[2 * i + 1]>>] \in Elements
  <2>1. 2 * i \in Nat /\ 2 * i + 1 \in Nat
    OBVIOUS
  <2>2. below[2 * i] \in Elements /\ below[2 * i + 1] \in Elements
    BY <2>1 DEF Levels
  <2> QED BY <2>2, SameHash
<1> QED BY <1>1 DEF Above, Levels

\* The nodes of all levels over a row of leaves without end.
IsTree(t, leaves) ==
  /\ t \in [0..Depth -> Levels]
  /\ t[0] = leaves
  /\ \A l \in 1..Depth : t[l] = Above(t[l - 1])

LEMMA TreeExists ==
  ASSUME NEW leaves \in Levels
  PROVE  \E t : IsTree(t, leaves)
<1> DEFINE step == [l \in 1..Depth |-> [below \in Levels |-> Above(below)]]
<1>1. step \in [1..Depth -> [Levels -> Levels]]
  BY AboveTyped
<1>2. PICK t : Solves(t, Depth, Levels, leaves, step)
  <2> HIDE DEF step
  <2> QED BY <1>1, ShapeAssumption, Recursion
<1>3. t \in [0..Depth -> Levels] /\ t[0] = leaves /\ \A l \in 1..Depth : t[l] = step[l][t[l - 1]]
  BY <1>2 DEF Solves
<1>4. \A l \in 1..Depth : t[l - 1] \in Levels
  BY <1>3, ShapeAssumption
<1> QED BY <1>3, <1>4 DEF IsTree

LEMMA TreeUnique ==
  ASSUME NEW leaves, NEW s, IsTree(s, leaves), NEW t, IsTree(t, leaves)
  PROVE  s[Depth] = t[Depth]
<1>1. s[0] = t[0] /\ \A l \in 1..Depth : s[l - 1] = t[l - 1] => s[l] = t[l]
  BY DEF IsTree
<1>2. \A l \in 0..Depth : s[l] = t[l]
  BY <1>1, ShapeAssumption, SameByLevel
<1> QED BY <1>2, ShapeAssumption

-----------------------------------------------------------------------------
(* The contract. *)

LEMMA ContractZerosIs ==
  /\ ContractZeros[0] = ZeroDigest
  /\ \A l \in 0..Depth : ContractZeros[l] \in Elements
  /\ \A l \in 1..Depth : ContractZeros[l] = HashedPairs[<<ContractZeros[l - 1], ContractZeros[l - 1]>>]
<1> DEFINE step == [l \in 1..Depth |-> [z \in Elements |-> HashedPairs[<<z, z>>]]]
           Eq(f) == f = [l \in 0..Depth |-> IF l = 0 THEN ZeroDigest ELSE Reference[<<f[l - 1], f[l - 1]>>]]
           zero == ContractZeros
<1>1. zero = CHOOSE f : Eq(f)
  BY DEF ContractZeros
<1> HIDE DEF zero
<1> SUFFICES /\ zero[0] = ZeroDigest
             /\ \A l \in 0..Depth : zero[l] \in Elements
             /\ \A l \in 1..Depth : zero[l] = HashedPairs[<<zero[l - 1], zero[l - 1]>>]
  BY DEF zero
<1>2. step \in [1..Depth -> [Elements -> Elements]]
  BY SameHash
<1>3. PICK p : Solves(p, Depth, Elements, ZeroDigest, step)
  <2> HIDE DEF step
  <2> QED BY <1>2, ShapeAssumption, PoolTreeAssumption, Recursion
<1>4. p \in [0..Depth -> Elements] /\ p[0] = ZeroDigest /\ \A l \in 1..Depth : p[l] = step[l][p[l - 1]]
  BY <1>3 DEF Solves
<1>5. \A l \in 1..Depth : p[l] = HashedPairs[<<p[l - 1], p[l - 1]>>]
  <2> TAKE l \in 1..Depth
  <2>1. p[l - 1] \in Elements
    BY <1>4, ShapeAssumption
  <2> QED BY <1>4, <2>1
<1> HIDE DEF step
<1>6. Eq(p)
  <2>1. \A l \in 0..Depth : p[l] = IF l = 0 THEN ZeroDigest ELSE Reference[<<p[l - 1], p[l - 1]>>]
    <3> TAKE l \in 0..Depth
    <3>1. l = 0 \/ l \in 1..Depth
      BY ShapeAssumption
    <3> QED BY <1>4, <1>5, <3>1, SameHash
  <2> QED BY <1>4, <2>1
<1>7. Eq(zero)
  <2> HIDE DEF Eq
  <2> QED BY <1>1, <1>6
<1>8. zero[0] = ZeroDigest /\ \A l \in 1..Depth : zero[l] = HashedPairs[<<zero[l - 1], zero[l - 1]>>]
  <2>1. \A l \in 0..Depth : zero[l] = IF l = 0 THEN ZeroDigest ELSE HashedPairs[<<zero[l - 1], zero[l - 1]>>]
    BY <1>7, SameHash
  <2>2. 0 \in 0..Depth /\ \A l \in 1..Depth : l \in 0..Depth /\ l # 0
    BY ShapeAssumption
  <2> HIDE DEF Eq
  <2> QED BY <2>1, <2>2
<1>9. \A l \in 0..Depth : zero[l] = p[l]
  <2>1. \A l \in 1..Depth : zero[l - 1] = p[l - 1] => zero[l] = p[l]
    BY <1>5, <1>8
  <2> HIDE DEF Eq
  <2>2. zero[0] = p[0]
    BY <1>4, <1>8
  <2> QED BY <2>1, <2>2, ShapeAssumption, SameByLevel
<1> QED BY <1>4, <1>8, <1>9

\* The nodes on the way up from a leaf that is inserted.
Climbed(up, filled, index, leaf) ==
  /\ up \in [0..Depth -> Elements]
  /\ up[0] = leaf
  /\ \A l \in 1..Depth :
       up[l] = IF Ancestor(index, l - 1) % 2 = 0 THEN HashedPairs[<<up[l - 1], ContractZeros[l - 1]>>]
               ELSE HashedPairs[<<filled[l - 1], up[l - 1]>>]

\* What it stores of them.
NowStored(up, filled, index) ==
  [l \in 0..(Depth - 1) |-> IF Ancestor(index, l) % 2 = 0 THEN up[l] ELSE filled[l]]

LEMMA InsertIs ==
  ASSUME NEW filled \in [0..(Depth - 1) -> Elements], NEW index \in Nat, NEW leaf \in Elements
  PROVE  \E up : /\ Climbed(up, filled, index, leaf)
                 /\ ContractInsert(filled, index, leaf)
                      = [filled |-> NowStored(up, filled, index), root |-> up[Depth]]
<1> DEFINE LeftOf(l) == Ancestor(index, l) % 2 = 0
           step == [l \in 1..Depth |-> [x \in Elements |->
                      IF LeftOf(l - 1) THEN HashedPairs[<<x, ContractZeros[l - 1]>>]
                      ELSE HashedPairs[<<filled[l - 1], x>>]]]
           Eq(f) == f = [l \in 0..Depth |->
                           IF l = 0 THEN leaf
                           ELSE IF LeftOf(l - 1) THEN Reference[<<f[l - 1], ContractZeros[l - 1]>>]
                           ELSE Reference[<<filled[l - 1], f[l - 1]>>]]
           up == CHOOSE f : Eq(f)
<1>1. ContractInsert(filled, index, leaf)
        = [filled |-> [l \in 0..(Depth - 1) |-> IF LeftOf(l) THEN up[l] ELSE filled[l]], root |-> up[Depth]]
  BY DEF ContractInsert, Ancestor
<1> HIDE DEF LeftOf
<1>2. step \in [1..Depth -> [Elements -> Elements]]
  <2>1. ASSUME NEW l \in 1..Depth, NEW x \in Elements
        PROVE  /\ HashedPairs[<<x, ContractZeros[l - 1]>>] \in Elements
               /\ HashedPairs[<<filled[l - 1], x>>] \in Elements
    <3>1. l - 1 \in 0..Depth /\ l - 1 \in 0..(Depth - 1)
      BY ShapeAssumption
    <3>2. ContractZeros[l - 1] \in Elements /\ filled[l - 1] \in Elements
      BY <3>1, ContractZerosIs
    <3> QED BY <3>2, SameHash
  <2> QED BY <2>1
<1>3. PICK p : Solves(p, Depth, Elements, leaf, step)
  <2> HIDE DEF step
  <2> QED BY <1>2, ShapeAssumption, Recursion
<1>4. p \in [0..Depth -> Elements] /\ p[0] = leaf /\ \A l \in 1..Depth : p[l] = step[l][p[l - 1]]
  BY <1>3 DEF Solves
<1>5. \A l \in 1..Depth :
        p[l] = IF LeftOf(l - 1) THEN HashedPairs[<<p[l - 1], ContractZeros[l - 1]>>]
               ELSE HashedPairs[<<filled[l - 1], p[l - 1]>>]
  <2> TAKE l \in 1..Depth
  <2>1. p[l - 1] \in Elements
    BY <1>4, ShapeAssumption
  <2> QED BY <1>4, <2>1
<1> HIDE DEF step
<1>6. Eq(p)
  <2>1. \A l \in 0..Depth : p[l] = IF l = 0 THEN leaf
                           ELSE IF LeftOf(l - 1) THEN Reference[<<p[l - 1], ContractZeros[l - 1]>>]
                           ELSE Reference[<<filled[l - 1], p[l - 1]>>]
    <3> TAKE l \in 0..Depth
    <3>1. l = 0 \/ l \in 1..Depth
      BY ShapeAssumption
    <3> QED BY <1>4, <1>5, <3>1, SameHash
  <2> QED BY <1>4, <2>1
<1>7. Eq(up)
  <2> HIDE DEF Eq
  <2> QED BY <1>6
<1> HIDE DEF up
<1>8. /\ up[0] = leaf
      /\ \A l \in 1..Depth :
           up[l] = IF LeftOf(l - 1) THEN HashedPairs[<<up[l - 1], ContractZeros[l - 1]>>]
                   ELSE HashedPairs[<<filled[l - 1], up[l - 1]>>]
  <2>1. \A l \in 0..Depth : up[l] = IF l = 0 THEN leaf
                           ELSE IF LeftOf(l - 1) THEN HashedPairs[<<up[l - 1], ContractZeros[l - 1]>>]
                           ELSE HashedPairs[<<filled[l - 1], up[l - 1]>>]
    BY <1>7, SameHash
  <2>2. 0 \in 0..Depth /\ \A l \in 1..Depth : l \in 0..Depth /\ l # 0
    BY ShapeAssumption
  <2> HIDE DEF Eq
  <2> QED BY <2>1, <2>2
<1>9. \A l \in 0..Depth : up[l] = p[l]
  <2>1. \A l \in 1..Depth : up[l - 1] = p[l - 1] => up[l] = p[l]
    BY <1>5, <1>8
  <2> HIDE DEF Eq
  <2>2. up[0] = p[0]
    BY <1>4, <1>8
  <2> QED BY <2>1, <2>2, ShapeAssumption, SameByLevel
<1>10. up \in [0..Depth -> Elements]
  <2>1. up = [l \in 0..Depth |-> up[l]]
    BY <1>7
  <2> HIDE DEF Eq
  <2> QED BY <1>4, <1>9, <2>1
<1>11. Climbed(up, filled, index, leaf)
  <2> HIDE DEF Eq
  <2> QED BY <1>8, <1>10 DEF Climbed, LeftOf
<1> HIDE DEF Eq
<1> QED BY <1>1, <1>11 DEF NowStored, LeftOf

LEMMA AncestorsOfPool ==
  ASSUME NEW index \in Nat
  PROVE  /\ Ancestor(index, 0) = index
         /\ \A l \in 0..Depth : Ancestor(index, l) \in Nat
         /\ \A l \in 1..Depth : Ancestor(index, l) = Ancestor(index, l - 1) \div 2
BY AncestorAt, PoolTreeAssumption

\* From one leaf to the next the way up stays or moves on by one, at every level.
LEMMA AncestorOfNext ==
  ASSUME NEW index \in Nat, NEW l \in 0..Depth
  PROVE  \/ Ancestor(index + 1, l) = Ancestor(index, l)
         \/ Ancestor(index + 1, l) = Ancestor(index, l) + 1
<1> DEFINE a(i) == Ancestor(index, i)
           b(i) == Ancestor(index + 1, i)
           T == {i \in 0..Depth : ~ (b(i) = a(i) \/ b(i) = a(i) + 1)}
<1>0. index + 1 \in Nat /\ Depth \in Nat
  BY ShapeAssumption
<1>1. /\ a(0) = index /\ b(0) = index + 1
      /\ \A i \in 0..Depth : a(i) \in Nat /\ b(i) \in Nat
      /\ \A i \in 1..Depth : a(i) = a(i - 1) \div 2 /\ b(i) = b(i - 1) \div 2
  BY <1>0, AncestorsOfPool
<1> HIDE DEF a, b
<1>2. SUFFICES ASSUME T # {} PROVE FALSE
  BY DEF a, b
<1>3. PICK n \in T : \A m \in T : n <= m
  <2>1. T \in SUBSET Nat
    BY <1>0
  <2> HIDE DEF T
  <2> QED BY <1>2, <2>1, LeastNat
<1>4. n \in 1..Depth /\ n - 1 \in 0..Depth /\ n - 1 \notin T
  BY <1>0, <1>1, <1>3
<1>5. b(n - 1) = a(n - 1) \/ b(n - 1) = a(n - 1) + 1
  BY <1>4
<1>6. \A x \in Nat : (x + 1) \div 2 = x \div 2 \/ (x + 1) \div 2 = (x \div 2) + 1
  OBVIOUS
<1>7. a(n - 1) \in Nat /\ a(n) = a(n - 1) \div 2 /\ b(n) = b(n - 1) \div 2
  BY <1>1, <1>4
<1>8. b(n) = a(n) \/ b(n) = a(n) + 1
  BY <1>5, <1>6, <1>7
<1> QED BY <1>3, <1>8

\* The leaves' values once some were inserted.
LeavesUpTo(leaves, n) == [i \in Nat |-> IF i < n THEN leaves[i + 1] ELSE ZeroDigest]

LEMMA LeavesUpToTyped ==
  ASSUME NEW leaves \in Seq(Elements), NEW n \in 0..Len(leaves)
  PROVE  LeavesUpTo(leaves, n) \in Levels
<1>1. ASSUME NEW i \in Nat, i < n PROVE leaves[i + 1] \in Elements
  <2>1. i + 1 \in 1..Len(leaves)
    BY <1>1
  <2> QED BY <2>1
<1> QED BY <1>1, PoolTreeAssumption DEF LeavesUpTo, Levels

\* A leaf that is inserted changes only the nodes above it, and those to their right
\* are empty.
LEMMA InsertIsLocal ==
  ASSUME NEW leaves \in Seq(Elements), NEW n \in 0..(Len(leaves) - 1),
         NEW s, IsTree(s, LeavesUpTo(leaves, n)),
         NEW t, IsTree(t, LeavesUpTo(leaves, n + 1)),
         NEW l \in 0..Depth
  PROVE  /\ \A i \in Nat \ {Ancestor(n, l)} : t[l][i] = s[l][i]
         /\ \A i \in Nat : i > Ancestor(n, l) => t[l][i] = ContractZeros[l]
<1> DEFINE a(m) == Ancestor(n, m)
           Local(m) == /\ \A i \in Nat \ {a(m)} : t[m][i] = s[m][i]
                       /\ \A i \in Nat : i > a(m) => t[m][i] = ContractZeros[m]
           T == {m \in 0..Depth : ~ Local(m)}
<1>0. n \in Nat /\ Depth \in Nat
  BY ShapeAssumption
<1>1. /\ a(0) = n
      /\ \A m \in 0..Depth : a(m) \in Nat
      /\ \A m \in 1..Depth : a(m) = a(m - 1) \div 2
  BY <1>0, AncestorsOfPool
<1> HIDE DEF a
<1>2. SUFFICES ASSUME T # {} PROVE FALSE
  BY DEF a
<1>3. PICK m \in T : \A k \in T : m <= k
  <2>1. T \in SUBSET Nat
    BY <1>0
  <2> HIDE DEF T
  <2> QED BY <1>2, <2>1, LeastNat
<1>4. Local(0)
  <2>1. s[0] = LeavesUpTo(leaves, n) /\ t[0] = LeavesUpTo(leaves, n + 1)
    BY DEF IsTree
  <2>2. \A i \in Nat \ {n} : t[0][i] = s[0][i]
    BY <1>0, <2>1 DEF LeavesUpTo
  <2>3. \A i \in Nat : i > n => t[0][i] = ZeroDigest
    BY <1>0, <2>1 DEF LeavesUpTo
  <2> QED BY <1>1, <2>2, <2>3, ContractZerosIs
<1>5. m \in 1..Depth /\ m - 1 \in 0..Depth /\ Local(m - 1)
  <2>1. m # 0 /\ m \in 0..Depth
    BY <1>3, <1>4
  <2>2. m - 1 \in 0..Depth /\ m - 1 \notin T
    BY <1>0, <1>3, <2>1
  <2> HIDE DEF Local
  <2> QED BY <1>0, <2>1, <2>2
<1>6. a(m - 1) \in Nat /\ a(m) = a(m - 1) \div 2
  BY <1>1, <1>5
<1>7. \A i \in Nat : /\ t[m][i] = HashedPairs[<<t[m - 1][2 * i], t[m - 1][2 * i + 1]>>]
                     /\ s[m][i] = HashedPairs[<<s[m - 1][2 * i], s[m - 1][2 * i + 1]>>]
  <2>1. t[m] = Above(t[m - 1]) /\ s[m] = Above(s[m - 1])
    BY <1>5 DEF IsTree
  <2> QED BY <2>1 DEF Above
<1>8. ASSUME NEW i \in Nat \ {a(m)}
      PROVE  t[m][i] = s[m][i]
  <2>1. 2 * i \in Nat \ {a(m - 1)} /\ 2 * i + 1 \in Nat \ {a(m - 1)}
    BY <1>6, <1>8, SMTT(30)
  <2>2. t[m - 1][2 * i] = s[m - 1][2 * i] /\ t[m - 1][2 * i + 1] = s[m - 1][2 * i + 1]
    BY <1>5, <2>1
  <2> HIDE DEF Local
  <2>3. i \in Nat
    OBVIOUS
  <2> QED BY <1>7, <2>2, <2>3
<1>9. ASSUME NEW i \in Nat, i > a(m)
      PROVE  t[m][i] = ContractZeros[m]
  <2>1. 2 * i \in Nat /\ 2 * i + 1 \in Nat /\ 2 * i > a(m - 1) /\ 2 * i + 1 > a(m - 1)
    BY <1>6, <1>9
  <2>2. t[m - 1][2 * i] = ContractZeros[m - 1] /\ t[m - 1][2 * i + 1] = ContractZeros[m - 1]
    BY <1>5, <2>1
  <2> QED BY <1>5, <1>7, <2>2, ContractZerosIs
<1>10. Local(m)
  BY <1>8, <1>9
<1> QED BY <1>3, <1>10

\* The way up that the contract computes is the tree's, when it stores the left
\* neighbours that the way passes.
Stores(filled, t, index) ==
  \A l \in 0..(Depth - 1) :
    Ancestor(index, l) % 2 = 1 => filled[l] = t[l][Ancestor(index, l) - 1]

LEMMA WayUp ==
  ASSUME NEW leaves \in Seq(Elements), NEW n \in 0..(Len(leaves) - 1),
         NEW s, IsTree(s, LeavesUpTo(leaves, n)),
         NEW t, IsTree(t, LeavesUpTo(leaves, n + 1)),
         NEW filled, Stores(filled, s, n),
         NEW up, Climbed(up, filled, n, leaves[n + 1])
  PROVE  \A l \in 0..Depth : up[l] = t[l][Ancestor(n, l)]
<1> DEFINE a(m) == Ancestor(n, m)
           way == [l \in 0..Depth |-> t[l][a(l)]]
<1>0. n \in Nat /\ Depth \in Nat
  BY ShapeAssumption
<1>1. /\ a(0) = n
      /\ \A m \in 0..Depth : a(m) \in Nat
      /\ \A m \in 1..Depth : a(m) = a(m - 1) \div 2
  BY <1>0, AncestorsOfPool
<1>2. up[0] = way[0]
  <2>1. t[0][n] = leaves[n + 1]
    BY <1>0 DEF IsTree, LeavesUpTo
  <2>2. up[0] = leaves[n + 1]
    BY DEF Climbed
  <2>3. way[0] = t[0][n]
    <3>1. 0 \in 0..Depth
      BY <1>0
    <3> HIDE DEF a
    <3> QED BY <1>1, <3>1
  <2> QED BY <2>1, <2>2, <2>3
<1>3. ASSUME NEW l \in 1..Depth, up[l - 1] = way[l - 1]
      PROVE  up[l] = way[l]
  <2> HIDE DEF a
  <2>1. l - 1 \in 0..Depth /\ l \in 0..Depth /\ l - 1 \in 0..(Depth - 1)
    BY <1>0
  <2>2. a(l - 1) \in Nat /\ a(l) \in Nat /\ a(l) = a(l - 1) \div 2
    BY <1>1, <2>1
  <2>3. t[l][a(l)] = HashedPairs[<<t[l - 1][2 * a(l)], t[l - 1][2 * a(l) + 1]>>]
    <3>1. t[l] = Above(t[l - 1])
      BY DEF IsTree
    <3> QED BY <2>2, <3>1 DEF Above
  <2>4. up[l - 1] = t[l - 1][a(l - 1)]
    BY <1>3, <2>1
  <2>5. CASE a(l - 1) % 2 = 0
    <3>1. 2 * a(l) = a(l - 1) /\ 2 * a(l) + 1 \in Nat /\ 2 * a(l) + 1 > a(l - 1)
      BY <2>2, <2>5, SMTT(30)
    <3>2. t[l - 1][2 * a(l) + 1] = ContractZeros[l - 1]
      BY <2>1, <3>1, InsertIsLocal DEF a
    <3>3. up[l] = HashedPairs[<<up[l - 1], ContractZeros[l - 1]>>]
      BY <2>5 DEF Climbed, a
    <3> QED BY <2>1, <2>3, <2>4, <3>1, <3>2, <3>3
  <2>6. CASE a(l - 1) % 2 = 1
    <3>1. 2 * a(l) = a(l - 1) - 1 /\ 2 * a(l) + 1 = a(l - 1) /\ a(l - 1) - 1 \in Nat \ {a(l - 1)}
      BY <2>2, <2>6, SMTT(30)
    <3>2. t[l - 1][a(l - 1) - 1] = s[l - 1][a(l - 1) - 1]
      BY <2>1, <3>1, InsertIsLocal DEF a
    <3>3. filled[l - 1] = s[l - 1][a(l - 1) - 1]
      BY <2>1, <2>6 DEF Stores, a
    <3>4. up[l] = HashedPairs[<<filled[l - 1], up[l - 1]>>]
      <4>1. ~ a(l - 1) % 2 = 0
        BY <2>6
      <4> QED BY <4>1 DEF Climbed, a
    <3> QED BY <2>1, <2>3, <2>4, <3>1, <3>2, <3>3, <3>4
  <2> QED BY <2>2, <2>5, <2>6
<1>4. \A l \in 0..Depth : up[l] = way[l]
  <2>1. \A l \in 1..Depth : up[l - 1] = way[l - 1] => up[l] = way[l]
    BY <1>3
  <2>2. Depth \in Nat
    BY <1>0
  <2> HIDE DEF way, a
  <2> QED
    <3>1. Follow(up, way, Depth)
      BY <1>2, <2>1 DEF Follow
    <3>2. Alike(up, way, Depth)
      BY ONLY <2>2, <3>1, FollowAlike
    <3> QED BY <3>2 DEF Alike
<1> QED BY <1>4

\* An insertion stores what the next one needs.
LEMMA StoresNext ==
  ASSUME NEW leaves \in Seq(Elements), NEW n \in 0..(Len(leaves) - 1),
         NEW s, IsTree(s, LeavesUpTo(leaves, n)),
         NEW t, IsTree(t, LeavesUpTo(leaves, n + 1)),
         NEW filled, Stores(filled, s, n),
         NEW up, Climbed(up, filled, n, leaves[n + 1])
  PROVE  Stores(NowStored(up, filled, n), t, n + 1)
<1> SUFFICES ASSUME NEW l \in 0..(Depth - 1), Ancestor(n + 1, l) % 2 = 1
             PROVE  (IF Ancestor(n, l) % 2 = 0 THEN up[l] ELSE filled[l]) = t[l][Ancestor(n + 1, l) - 1]
  BY DEF Stores, NowStored
<1>1. l \in 0..Depth /\ n \in Nat /\ n + 1 \in Nat
  BY ShapeAssumption
<1>2. Ancestor(n, l) \in Nat /\ Ancestor(n + 1, l) \in Nat
  BY <1>1, AncestorsOfPool
<1>3. Ancestor(n + 1, l) = Ancestor(n, l) \/ Ancestor(n + 1, l) = Ancestor(n, l) + 1
  BY <1>1, AncestorOfNext
<1>4. CASE Ancestor(n, l) % 2 = 0
  <2>1. Ancestor(n + 1, l) - 1 = Ancestor(n, l)
    BY <1>2, <1>3, <1>4
  <2>2. up[l] = t[l][Ancestor(n, l)]
    BY <1>1, WayUp
  <2> QED BY <1>4, <2>1, <2>2
<1>5. CASE Ancestor(n, l) % 2 # 0
  <2>1. /\ Ancestor(n + 1, l) = Ancestor(n, l) /\ Ancestor(n, l) % 2 = 1
        /\ Ancestor(n, l) - 1 \in Nat \ {Ancestor(n, l)}
    BY <1>2, <1>3, <1>5, SMTT(30)
  <2>2. filled[l] = s[l][Ancestor(n, l) - 1]
    BY <2>1 DEF Stores
  <2>3. t[l][Ancestor(n, l) - 1] = s[l][Ancestor(n, l) - 1]
    BY <1>1, <2>1, InsertIsLocal
  <2> QED BY <1>5, <2>1, <2>2, <2>3
<1> QED BY <1>4, <1>5

LEMMA AncestorOfFirst ==
  ASSUME NEW l \in 0..Depth
  PROVE  Ancestor(0, l) = 0
<1> DEFINE f == [m \in 0..Depth |-> Ancestor(0, m)]
           g == [m \in 0..Depth |-> 0]
<1>0. 0 \in Nat /\ Depth \in Nat
  BY ShapeAssumption
<1>1. /\ Ancestor(0, 0) = 0
      /\ \A m \in 1..Depth : Ancestor(0, m) = Ancestor(0, m - 1) \div 2
  BY <1>0, AncestorsOfPool
<1>2. f[0] = g[0] /\ \A m \in 1..Depth : f[m - 1] = g[m - 1] => f[m] = g[m]
  <2>1. ASSUME NEW m \in 1..Depth, f[m - 1] = g[m - 1] PROVE f[m] = g[m]
    <3>1. m \in 0..Depth /\ m - 1 \in 0..Depth
      BY <1>0
    <3>2. Ancestor(0, m - 1) = 0
      BY <2>1, <3>1
    <3>3. Ancestor(0, m) = 0
      BY <1>1, <3>2
    <3> QED BY <3>1, <3>3
  <2>2. 0 \in 0..Depth
    BY <1>0
  <2> QED BY <1>1, <2>1, <2>2
<1>3. \A m \in 0..Depth : f[m] = g[m]
  <2> HIDE DEF f, g
  <2> QED BY <1>0, <1>2, SameByLevel
<1> QED BY <1>3

ContractStates == [filled : [0..(Depth - 1) -> Elements], root : Elements]

LEMMA InsertTyped ==
  ASSUME NEW s \in ContractStates, NEW index \in Nat, NEW leaf \in Elements
  PROVE  ContractInsert(s.filled, index, leaf) \in ContractStates
<1>1. s.filled \in [0..(Depth - 1) -> Elements]
  BY DEF ContractStates
<1>2. PICK up : /\ Climbed(up, s.filled, index, leaf)
                /\ ContractInsert(s.filled, index, leaf)
                     = [filled |-> NowStored(up, s.filled, index), root |-> up[Depth]]
  BY <1>1, InsertIs
<1>3. up \in [0..Depth -> Elements] /\ Depth \in 0..Depth /\ \A l \in 0..(Depth - 1) : l \in 0..Depth
  <2>1. Climbed(up, s.filled, index, leaf)
    BY <1>2
  <2>2. up \in [0..Depth -> Elements]
    BY <2>1 DEF Climbed
  <2> QED BY <2>2, ShapeAssumption
<1>4. \A l \in 0..(Depth - 1) : up[l] \in Elements /\ s.filled[l] \in Elements
  BY <1>1, <1>3
<1> DEFINE filled == NowStored(up, s.filled, index)
<1>5. filled \in [0..(Depth - 1) -> Elements]
  BY <1>4 DEF NowStored
<1>6. up[Depth] \in Elements
  BY <1>3
<1>7. ContractInsert(s.filled, index, leaf) = [filled |-> filled, root |-> up[Depth]]
  BY <1>2
<1> HIDE DEF filled
<1> QED BY <1>5, <1>6, <1>7 DEF ContractStates

\* The contract after each insertion.
Inserted(after, leaves) ==
  /\ \A n \in 0..Len(leaves) : after[n] \in ContractStates
  /\ \A n \in 1..Len(leaves) : after[n] = ContractInsert(after[n - 1].filled, n - 1, leaves[n])
  /\ ContractRoot(leaves) = after[Len(leaves)].root

LEMMA ContractRootIs ==
  ASSUME NEW leaves \in Seq(Elements)
  PROVE  \E after : Inserted(after, leaves)
<1> DEFINE N == Len(leaves)
           first == [filled |-> [l \in 0..(Depth - 1) |-> ContractZeros[l]], root |-> ZeroDigest]
           step == [n \in 1..N |-> [s \in ContractStates |-> ContractInsert(s.filled, n - 1, leaves[n])]]
           Eq(f) == f = [n \in 0..N |->
                           IF n = 0 THEN first ELSE ContractInsert(f[n - 1].filled, n - 1, leaves[n])]
           after == CHOOSE f : Eq(f)
<1>1. ContractRoot(leaves) = after[N].root
  BY DEF ContractRoot
<1>2. N \in Nat /\ \A n \in 1..N : leaves[n] \in Elements /\ n - 1 \in Nat
  OBVIOUS
<1>3. first \in ContractStates
  <2>1. \A l \in 0..(Depth - 1) : ContractZeros[l] \in Elements
    BY ContractZerosIs, ShapeAssumption
  <2> QED BY <2>1, PoolTreeAssumption DEF ContractStates
<1> HIDE DEF first, N
<1>4. step \in [1..N -> [ContractStates -> ContractStates]]
  BY <1>2, InsertTyped
<1>5. PICK p : Solves(p, N, ContractStates, first, step)
  <2> HIDE DEF step
  <2> QED BY <1>2, <1>3, <1>4, Recursion
<1>6. p \in [0..N -> ContractStates] /\ p[0] = first /\ \A n \in 1..N : p[n] = step[n][p[n - 1]]
  BY <1>5 DEF Solves
<1>7. \A n \in 1..N : p[n] = ContractInsert(p[n - 1].filled, n - 1, leaves[n])
  <2> TAKE n \in 1..N
  <2>1. p[n - 1] \in ContractStates
    BY <1>2, <1>6
  <2> QED BY <1>6, <2>1
<1> HIDE DEF step
<1>8. Eq(p)
  <2>1. \A n \in 0..N :
          p[n] = IF n = 0 THEN first ELSE ContractInsert(p[n - 1].filled, n - 1, leaves[n])
    <3> TAKE n \in 0..N
    <3>1. n = 0 \/ n \in 1..N
      BY <1>2
    <3> QED BY <1>6, <1>7, <3>1
  <2> QED BY <1>6, <2>1
<1>9. Eq(after)
  <2> HIDE DEF Eq
  <2> QED BY <1>8
<1> HIDE DEF after
<1>10. /\ after[0] = first
       /\ \A n \in 1..N : after[n] = ContractInsert(after[n - 1].filled, n - 1, leaves[n])
  <2>1. \A n \in 0..N :
          after[n] = IF n = 0 THEN first ELSE ContractInsert(after[n - 1].filled, n - 1, leaves[n])
    BY <1>9
  <2>2. 0 \in 0..N /\ \A n \in 1..N : n \in 0..N /\ n # 0
    BY <1>2
  <2> HIDE DEF Eq
  <2> QED BY <2>1, <2>2
<1> HIDE DEF Eq
<1>11. \A n \in 0..N : after[n] = p[n]
  <2>1. \A n \in 1..N : after[n - 1] = p[n - 1] => after[n] = p[n]
    BY <1>7, <1>10
  <2>2. after[0] = p[0]
    BY <1>6, <1>10
  <2> QED
    <3>1. Follow(after, p, N)
      BY <2>1, <2>2 DEF Follow
    <3>2. Alike(after, p, N)
      BY ONLY <1>2, <3>1, FollowAlike
    <3> QED BY <3>2 DEF Alike
<1>12. \A n \in 0..N : after[n] \in ContractStates
  BY <1>6, <1>11
<1> QED BY <1>1, <1>10, <1>12 DEF Inserted, N

\* The contract's root is that of the tree over the leaves.
LEMMA ContractRootIsTrees ==
  ASSUME NEW leaves \in Seq(Elements), Len(leaves) # 0, Len(leaves) <= Capacity,
         NEW t, IsTree(t, LeavesUpTo(leaves, Len(leaves)))
  PROVE  ContractRoot(leaves) = t[Depth][0]
<1> DEFINE N == Len(leaves)
<1>0. N \in Nat /\ N > 0 /\ Depth \in Nat /\ Depth \in 0..Depth /\ Capacity \in Nat
  BY ShapeAssumption, Powers DEF Capacity
<1>1. PICK after : Inserted(after, leaves)
  BY ContractRootIs
<1> DEFINE Right(n, tree) ==
             /\ Stores(after[n].filled, tree, n)
             /\ n > 0 => after[n].root = tree[Depth][0]
           T == {n \in 0..N : \E tree : IsTree(tree, LeavesUpTo(leaves, n)) /\ ~ Right(n, tree)}
<1>2. \A tree : Right(0, tree)
  <2>1. \A l \in 0..(Depth - 1) : Ancestor(0, l) = 0
    BY <1>0, AncestorOfFirst
  <2> QED BY <2>1 DEF Stores
<1>3. ASSUME NEW n \in 0..(N - 1), n \notin T,
             NEW tree, IsTree(tree, LeavesUpTo(leaves, n + 1))
      PROVE  Right(n + 1, tree)
  <2>1. /\ n \in 0..N /\ n \in Nat /\ n + 1 \in 1..N /\ (n + 1) - 1 = n /\ n < Capacity
    BY <1>0
  <2>2. PICK s : IsTree(s, LeavesUpTo(leaves, n))
    BY <2>1, LeavesUpToTyped, TreeExists
  <2>3. Stores(after[n].filled, s, n)
    BY <1>3, <2>1, <2>2
  <2> HIDE DEF T, Right
  <2>4. after[n] \in ContractStates /\ after[n + 1] = ContractInsert(after[n].filled, n, leaves[n + 1])
    BY <1>1, <2>1 DEF Inserted
  <2>5. after[n].filled \in [0..(Depth - 1) -> Elements] /\ leaves[n + 1] \in Elements
    BY <2>1, <2>4 DEF ContractStates
  <2>6. PICK up : /\ Climbed(up, after[n].filled, n, leaves[n + 1])
                  /\ ContractInsert(after[n].filled, n, leaves[n + 1])
                       = [filled |-> NowStored(up, after[n].filled, n), root |-> up[Depth]]
    BY <2>1, <2>5, InsertIs
  <2>7. Stores(NowStored(up, after[n].filled, n), tree, n + 1)
    BY <1>3, <2>2, <2>3, <2>6, StoresNext
  <2>8. up[Depth] = tree[Depth][0]
    <3>1. \A l \in 0..Depth : up[l] = tree[l][Ancestor(n, l)]
      BY <1>3, <2>2, <2>3, <2>6, WayUp
    <3>2. Ancestor(n, Depth) = 0
      BY <2>1, AncestorFits
    <3> QED BY <1>0, <3>1, <3>2
  <2> QED BY <2>4, <2>6, <2>7, <2>8 DEF Right
<1>4. T = {}
  <2> SUFFICES ASSUME T # {} PROVE FALSE
    OBVIOUS
  <2>1. PICK k \in T : \A m \in T : k <= m
    <3>1. T \in SUBSET Nat
      BY <1>0
    <3> HIDE DEF T
    <3> QED BY <3>1, LeastNat
  <2>2. PICK tree : IsTree(tree, LeavesUpTo(leaves, k)) /\ ~ Right(k, tree)
    BY <2>1
  <2>3. k # 0 /\ k \in 0..N
    BY <1>2, <2>1, <2>2
  <2> HIDE DEF T, Right
  <2> DEFINE n == k - 1
  <2>4. n \in 0..(N - 1) /\ n \notin T /\ n + 1 = k
    BY <1>0, <2>1, <2>3
  <2> HIDE DEF n
  <2>5. IsTree(tree, LeavesUpTo(leaves, n + 1))
    BY <2>2, <2>4
  <2>6. Right(n + 1, tree)
    BY <1>3, <2>4, <2>5
  <2> QED BY <2>2, <2>4, <2>6
<1>5. Right(N, t)
  <2>1. N \in 0..N
    BY <1>0
  <2> HIDE DEF Right
  <2> QED BY <1>4, <2>1
<1> QED BY <1>0, <1>1, <1>5 DEF Inserted
-----------------------------------------------------------------------------
(* The client. *)

\* The values of all nodes follow from those of the leaves.
DigestsFit(d, value) ==
  /\ \A l \in 0..Depth : d[l] \in [Hashes[l] -> Elements]
  /\ d[0] = value
  /\ \A l \in 1..Depth : \A row \in Hashes[l] :
       d[l][row] = HashedPairs[<<d[l - 1][row[1]], d[l - 1][row[2]]>>]

LEMMA Children ==
  ASSUME NEW l \in 1..Depth, NEW row \in Hashes[l]
  PROVE  row[1] \in Hashes[l - 1] /\ row[2] \in Hashes[l - 1]
<1>1. row \in [1..2 -> Hashes[l - 1]]
  BY SymbolicAssumption, PoolTreeAssumption
<1> QED BY <1>1

LEMMA DigestsAre ==
  ASSUME NEW value \in Values
  PROVE  DigestsFit(Digests[value], value)
<1> DEFINE Typed(l) == [Hashes[l] -> Elements]
           V == UNION {Typed(l) : l \in 0..Depth}
           Level(l, below) == [row \in Hashes[l] |-> HashedPairs[<<below[row[1]], below[row[2]]>>]]
           step == [l \in 1..Depth |-> [f \in V |-> IF f \in Typed(l - 1) THEN Level(l, f) ELSE value]]
           Eq(f) == f = [l \in 0..Depth |-> IF l = 0 THEN value ELSE Level(l, f[l - 1])]
           d == DigestsFor(value)
<1>0. /\ 0 \in 0..Depth /\ Depth \in Nat
      /\ \A l \in 1..Depth : l \in 0..Depth /\ l - 1 \in 0..Depth /\ l # 0
  BY ShapeAssumption
<1>1. d = CHOOSE f : Eq(f)
  BY DEF DigestsFor
<1> HIDE DEF d
<1>2. value \in Typed(0) /\ value \in V
  BY <1>0 DEF Values
<1>3. \A l \in 1..Depth : \A f \in Typed(l - 1) : Level(l, f) \in Typed(l)
  <2> TAKE l \in 1..Depth
  <2> TAKE f \in Typed(l - 1)
  <2>1. ASSUME NEW row \in Hashes[l] PROVE HashedPairs[<<f[row[1]], f[row[2]]>>] \in Elements
    <3>1. row[1] \in Hashes[l - 1] /\ row[2] \in Hashes[l - 1]
      BY Children
    <3>2. f[row[1]] \in Elements /\ f[row[2]] \in Elements
      BY <3>1
    <3> QED BY <3>2, SameHash
  <2> QED BY <2>1
<1> HIDE DEF Level
<1>4. step \in [1..Depth -> [V -> V]]
  <2>1. ASSUME NEW l \in 1..Depth, NEW f \in V
        PROVE  (IF f \in Typed(l - 1) THEN Level(l, f) ELSE value) \in V
    <3>1. f \in Typed(l - 1) => Level(l, f) \in Typed(l)
      BY <1>3
    <3>2. \A x : x \in Typed(l) => x \in V
      BY <1>0
    <3> HIDE DEF Typed, V
    <3> QED BY <1>2, <3>1, <3>2
  <2> HIDE DEF V, Typed
  <2> QED BY <2>1
<1>5. PICK p : Solves(p, Depth, V, value, step)
  <2> HIDE DEF step, V
  <2> QED BY <1>0, <1>2, <1>4, Recursion
<1>6. p \in [0..Depth -> V] /\ p[0] = value /\ \A l \in 1..Depth : p[l] = step[l][p[l - 1]]
  BY <1>5 DEF Solves
<1> HIDE DEF Typed, V
<1>7. \A l \in 1..Depth : p[l - 1] \in Typed(l - 1) => p[l] = Level(l, p[l - 1])
  <2> TAKE l \in 1..Depth
  <2>1. p[l - 1] \in V
    BY <1>0, <1>6
  <2> QED BY <1>6, <2>1
<1> HIDE DEF step
<1>8. \A l \in 0..Depth : p[l] \in Typed(l)
  <2> DEFINE T == {l \in 0..Depth : p[l] \notin Typed(l)}
  <2> SUFFICES ASSUME T # {} PROVE FALSE
    OBVIOUS
  <2>1. PICK n \in T : \A m \in T : n <= m
    <3>1. T \in SUBSET Nat
      BY <1>0
    <3> HIDE DEF T
    <3> QED BY <3>1, LeastNat
  <2>2. n \in 1..Depth /\ n - 1 \in 0..Depth /\ n - 1 \notin T
    BY <1>0, <1>2, <1>6, <2>1
  <2>3. p[n - 1] \in Typed(n - 1)
    BY <2>2
  <2>4. p[n] \in Typed(n)
    BY <1>3, <1>7, <2>2, <2>3
  <2> QED BY <2>1, <2>4
<1>9. \A l \in 1..Depth : p[l] = Level(l, p[l - 1])
  BY <1>0, <1>7, <1>8
<1>10. Eq(p)
  <2>1. \A l \in 0..Depth : p[l] = IF l = 0 THEN value ELSE Level(l, p[l - 1])
    <3> TAKE l \in 0..Depth
    <3>1. l = 0 \/ l \in 1..Depth
      BY <1>0
    <3> QED BY <1>6, <1>9, <3>1
  <2> QED BY <1>6, <2>1
<1>11. Eq(d)
  <2> HIDE DEF Eq
  <2> QED BY <1>1, <1>10
<1>12. d[0] = value /\ \A l \in 1..Depth : d[l] = Level(l, d[l - 1])
  <2>1. \A l \in 0..Depth : d[l] = IF l = 0 THEN value ELSE Level(l, d[l - 1])
    BY <1>11
  <2> HIDE DEF Eq
  <2> QED BY <1>0, <2>1
<1> HIDE DEF Eq
<1>13. \A l \in 0..Depth : d[l] = p[l]
  <2>1. \A l \in 1..Depth : d[l - 1] = p[l - 1] => d[l] = p[l]
    BY <1>9, <1>12
  <2>2. d[0] = p[0]
    BY <1>6, <1>12
  <2> QED BY <1>0, <2>1, <2>2, SameByLevel
<1>14. \A l \in 0..Depth : d[l] \in [Hashes[l] -> Elements]
  BY <1>8, <1>13 DEF Typed
<1>15. \A l \in 1..Depth : \A row \in Hashes[l] :
         d[l][row] = HashedPairs[<<d[l - 1][row[1]], d[l - 1][row[2]]>>]
  <2> TAKE l \in 1..Depth
  <2>1. d[l] = Level(l, d[l - 1])
    BY <1>12
  <2> QED BY <2>1 DEF Level
<1>16. Digests[value] = d
  BY DEF Digests, d
<1> QED BY <1>12, <1>14, <1>15, <1>16 DEF DigestsFit

\* The client's root is that of the tree over its leaves' values.
ValuesOf(value) == [k \in DOMAIN nodes[0] |-> value[nodes[0][k]]]

LEMMA ValuesTyped ==
  ASSUME IInv, NEW value \in Values
  PROVE  /\ ValuesOf(value) \in Seq(Elements)
         /\ Len(ValuesOf(value)) = Len(nodes[0])
         /\ Len(nodes[0]) \in Nat
         /\ \A k \in 1..Len(nodes[0]) : ValuesOf(value)[k] = value[nodes[0][k]]
<1>1. /\ DOMAIN nodes[0] = 1..Len(nodes[0]) /\ Len(nodes[0]) \in Nat
      /\ \A k \in 1..Len(nodes[0]) : nodes[0][k] \in Hashes[0]
  BY ShapeAssumption DEF IInv, NodesTyped
<1>2. value \in [Hashes[0] -> Elements]
  BY DEF Values
<1>3. ValuesOf(value) \in [1..Len(nodes[0]) -> Elements]
  BY <1>1, <1>2 DEF ValuesOf
<1>4. ValuesOf(value) \in Seq(Elements) /\ Len(ValuesOf(value)) = Len(nodes[0])
  BY <1>1, <1>3
<1> QED BY <1>1, <1>4 DEF ValuesOf

LEMMA ClientRootIsTrees ==
  ASSUME IInv, Idle, zeros[1] = Zero, NEW value \in Values,
         NEW t, IsTree(t, LeavesUpTo(ValuesOf(value), Len(nodes[0])))
  PROVE  Digests[value][Depth][Root] = t[Depth][0]
<1> DEFINE d == Digests[value]
           s == [l \in 0..Depth |-> [i \in Nat |-> d[l][Node(l, i + 1)]]]
<1>0. Built /\ Depth \in Nat /\ Depth \in 0..Depth /\ 0 \in 0..Depth
  BY ShapeAssumption DEF Idle
<1>1. DigestsFit(d, value)
  BY DigestsAre
<1> HIDE DEF d
<1>2. \A l \in 0..Depth : d[l] \in [Hashes[l] -> Elements]
  BY <1>1 DEF DigestsFit
<1>3. \A l \in 0..Depth : \A i \in Nat : Node(l, i + 1) \in Hashes[l] /\ d[l][Node(l, i + 1)] \in Elements
  <2> TAKE l \in 0..Depth
  <2> TAKE i \in Nat
  <2>1. i + 1 \in Nat \ {0}
    OBVIOUS
  <2>2. Node(l, i + 1) \in Hashes[l]
    BY <1>0, <2>1, RowTyped
  <2> QED BY <1>2, <2>2
<1>4. s \in [0..Depth -> Levels]
  BY <1>3 DEF Levels
<1>5. s[0] = LeavesUpTo(ValuesOf(value), Len(nodes[0]))
  <2>1. /\ DOMAIN nodes[0] = 1..Len(nodes[0]) /\ Len(nodes[0]) \in Nat
    BY <1>0 DEF IInv, NodesTyped
  <2>2. ASSUME NEW i \in Nat
        PROVE  d[0][Node(0, i + 1)] = IF i < Len(nodes[0]) THEN ValuesOf(value)[i + 1] ELSE ZeroDigest
    <3>1. d[0] = value
      BY <1>1 DEF DigestsFit
    <3>2. CASE i < Len(nodes[0])
      <4>1. i + 1 \in DOMAIN nodes[0]
        BY <2>1, <3>2
      <4>2. Node(0, i + 1) = nodes[0][i + 1]
        BY <4>1 DEF Node
      <4> QED BY <3>1, <3>2, <4>1, <4>2 DEF ValuesOf
    <3>3. CASE ~ (i < Len(nodes[0]))
      <4>1. i + 1 \notin DOMAIN nodes[0]
        BY <2>1, <3>3
      <4>2. Node(0, i + 1) = Zero
        BY <4>1 DEF Node
      <4>3. value[Zero] = ZeroDigest
        BY DEF Values
      <4> QED BY <3>1, <3>3, <4>2, <4>3
    <3> QED BY <3>2, <3>3
  <2>3. s[0] = [i \in Nat |-> d[0][Node(0, i + 1)]]
    BY <1>0
  <2> QED BY <2>2, <2>3 DEF LeavesUpTo
<1>6. ASSUME NEW l \in 1..Depth
      PROVE  s[l] = Above(s[l - 1])
  <2>1. l \in 0..Depth /\ l - 1 \in 0..Depth
    BY <1>0
  <2>2. ASSUME NEW i \in Nat
        PROVE  d[l][Node(l, i + 1)]
                 = HashedPairs[<<d[l - 1][Node(l - 1, 2 * i + 1)], d[l - 1][Node(l - 1, (2 * i + 1) + 1)]>>]
    <3> DEFINE row == Row(l - 1, i + 1)
    <3>1. i + 1 \in Nat \ {0}
      OBVIOUS
    <3>2. Node(l, i + 1) = Hash(row)
      BY <3>1, EveryNodeHashed
    <3>3. row \in Hashes[l]
      <4>1. row \in [1..Arity -> Hashes[l - 1]]
        BY <1>0, <2>1, <3>1, RowTyped
      <4> HIDE DEF row
      <4> QED BY <4>1, SymbolicAssumption
    <3>4. row[1] = Node(l - 1, 2 * i + 1) /\ row[2] = Node(l - 1, (2 * i + 1) + 1)
      <4>1. ((i + 1) - 1) * 2 + 1 = 2 * i + 1 /\ ((i + 1) - 1) * 2 + 2 = (2 * i + 1) + 1
        OBVIOUS
      <4>2. row[1] = Node(l - 1, ((i + 1) - 1) * 2 + 1) /\ row[2] = Node(l - 1, ((i + 1) - 1) * 2 + 2)
        BY PoolTreeAssumption DEF Row
      <4> QED BY <4>1, <4>2
    <3> HIDE DEF row
    <3>5. Hash(row) = row
      BY <3>3, SymbolicAssumption
    <3>6. d[l][row] = HashedPairs[<<d[l - 1][row[1]], d[l - 1][row[2]]>>]
      BY <1>1, <3>3 DEF DigestsFit
    <3> QED BY <3>2, <3>4, <3>5, <3>6
  <2>3. /\ s[l] = [i \in Nat |-> d[l][Node(l, i + 1)]]
        /\ \A i \in Nat : s[l - 1][i] = d[l - 1][Node(l - 1, i + 1)]
    BY <2>1
  <2> HIDE DEF s
  <2>4. ASSUME NEW i \in Nat
        PROVE  d[l][Node(l, i + 1)] = HashedPairs[<<s[l - 1][2 * i], s[l - 1][2 * i + 1]>>]
    <3>1. 2 * i \in Nat /\ 2 * i + 1 \in Nat
      OBVIOUS
    <3>2. /\ s[l - 1][2 * i] = d[l - 1][Node(l - 1, 2 * i + 1)]
          /\ s[l - 1][2 * i + 1] = d[l - 1][Node(l - 1, (2 * i + 1) + 1)]
      BY <2>3, <3>1
    <3> QED BY <2>2, <3>2
  <2> QED BY <2>3, <2>4 DEF Above
<1>7. IsTree(s, LeavesUpTo(ValuesOf(value), Len(nodes[0])))
  <2> HIDE DEF s
  <2> QED BY <1>4, <1>5, <1>6 DEF IsTree
<1>8. s[Depth] = t[Depth]
  <2> HIDE DEF s
  <2> QED BY <1>7, TreeUnique
<1>9. s[Depth][0] = d[Depth][Node(Depth, 0 + 1)]
  BY <1>0
<1> QED
  <2>1. 0 + 1 = 1
    OBVIOUS
  <2> QED BY <1>8, <1>9, <2>1 DEF Root, d

\* The smallest empty subtree is the empty leaf.
ZeroFirst == zeros[1] = Zero

LEMMA ZerosBegin == Spec => []ZeroFirst
<1>1. Init => ZeroFirst
  BY DEF Init, ZeroFirst
<1>2. ASSUME IInv, ZeroFirst, [Next]_vars PROVE ZeroFirst'
  <2>1. zeros' = zeros \/ PushZero
    BY <1>2 DEF Next, Splice, Refuse, HashLevel, vars
  <2>2. CASE PushZero
    <3>1. zeros \in Seq(UNION {Hashes[l] : l \in 0..Depth}) /\ Len(zeros) \in Nat /\ Len(zeros) >= 1
      BY <1>2, ShapeAssumption DEF IInv, ZerosHashed
    <3>2. PICK z : zeros' = Append(zeros, z)
      BY <2>2 DEF PushZero
    <3>3. zeros'[1] = zeros[1]
      BY <3>1, <3>2
    <3> QED BY <1>2, <3>3 DEF ZeroFirst
  <2> QED BY <1>2, <2>1, <2>2 DEF ZeroFirst
<1> QED BY <1>1, <1>2, Invariance, PTL DEF Spec

\* Whatever batches were spliced, overwriting some leaves, the client's root is the one
\* the contract computes from the same commitments one at a time, for every depth,
\* field, round constants and values of the leaves (TornadoHasher, splice).
THEOREM RootIsContractsHolds == Spec => []RootIsContracts
<1>1. ASSUME IInv, LeavesFit, ZeroFirst PROVE RootIsContracts
  <2> SUFFICES ASSUME Idle, nodes[0] # <<>>, NEW value \in Values
               PROVE  Digests[value][Depth][Root] = ContractRoot(ValuesOf(value))
    BY DEF RootIsContracts, ValuesOf
  <2> DEFINE leaves == ValuesOf(value)
  <2>1. leaves \in Seq(Elements) /\ Len(leaves) = Len(nodes[0]) /\ Len(nodes[0]) \in Nat
    BY <1>1, ValuesTyped
  <2>2. Len(leaves) # 0 /\ Len(leaves) <= Capacity
    <3>1. nodes[0] \in Seq(Hashes[0])
      BY <1>1, ShapeAssumption DEF IInv, NodesTyped
    <3>2. Len(nodes[0]) # 0
      BY <3>1, EmptySeq
    <3> QED BY <1>1, <2>1, <3>2 DEF LeavesFit
  <2> HIDE DEF leaves
  <2>3. Len(leaves) \in 0..Len(leaves)
    BY <2>1
  <2>4. PICK t : IsTree(t, LeavesUpTo(leaves, Len(leaves)))
    BY <2>1, <2>3, LeavesUpToTyped, TreeExists
  <2>5. ContractRoot(leaves) = t[Depth][0]
    BY <2>1, <2>2, <2>4, ContractRootIsTrees
  <2>6. Digests[value][Depth][Root] = t[Depth][0]
    <3>1. IsTree(t, LeavesUpTo(ValuesOf(value), Len(nodes[0])))
      BY <2>1, <2>4 DEF leaves
    <3> QED BY <1>1, <3>1, ClientRootIsTrees DEF ZeroFirst
  <2> QED BY <2>5, <2>6 DEF leaves
<1> QED BY <1>1, Invariance, NeverOverfull, ZerosBegin, PTL
-----------------------------------------------------------------------------
(* The bindings. *)

\* Whatever JavaScript passes, its tree is a Merkle tree: a splice that throws
\* stutters, and one that does not is a splice or a refusal of the core's.
LEMMA DecodedTyped ==
  ASSUME NEW S, NEW texts \in Seq(S), Decoded(texts) # Thrown
  PROVE  /\ Decoded(texts) \in Seq(Elements)
         /\ DOMAIN Decoded(texts) = DOMAIN texts
         /\ \A k \in DOMAIN texts : Decoded(texts)[k] = ToField(texts[k])
<1> DEFINE elements == [k \in DOMAIN texts |-> ToField(texts[k])]
<1>1. DOMAIN texts = 1..Len(texts) /\ Len(texts) \in Nat
  OBVIOUS
<1>2. elements \in Seq({ToField(texts[k]) : k \in DOMAIN texts}) /\ Len(elements) = Len(texts)
  BY <1>1
<1>3. Decoded(texts) = elements /\ ~ Contains(elements, Thrown)
  BY DEF Decoded
<1>4. \A k \in DOMAIN texts : elements[k] # Thrown
  BY <1>1, <1>2, <1>3 DEF Contains
<1>5. \A k \in DOMAIN texts : elements[k] \in Elements
  BY <1>4 DEF ToField
<1>6. elements \in Seq(Elements)
  BY <1>1, <1>5
<1> QED
  BY <1>3, <1>6

LEMMA JsSpliceIsSplice ==
  ASSUME NEW from, NEW texts, IInv, JsSplice(from, texts),
         Decoded(texts) # Thrown => BatchOf(Decoded(texts)) \in Batches
  PROVE  [Next]_vars
<1> DEFINE index == ToU32(from)
           batch == BatchOf(Decoded(texts))
<1>1. CASE index = Thrown \/ Decoded(texts) = Thrown
  BY <1>1 DEF JsSplice, Throw
<1>2. CASE index # Thrown /\ Decoded(texts) # Thrown
  <2>1. index \in Nat /\ batch \in Batches
    BY <1>2, WidthAssumption DEF ToU32
  <2>2. Splice(index, batch) \/ Refuse(index, batch)
    BY <1>2 DEF JsSplice
  <2> HIDE DEF index, batch
  <2>3. CASE Refuse(index, batch)
    BY <2>3 DEF Refuse
  <2>4. CASE Splice(index, batch)
    <3>1. Len(nodes[0]) \in Nat
      <4>1. nodes[0] \in Seq(Hashes[0])
        BY ShapeAssumption DEF IInv, NodesTyped
      <4> QED BY <4>1
    <3>2. index <= Len(nodes[0])
      BY <2>4 DEF Splice, Fits
    <3>3. index \in 0..(Len(nodes[0]) + 1)
      BY <2>1, <3>1, <3>2
    <3> QED BY <2>1, <2>4, <3>3 DEF Next
  <2> QED BY <2>2, <2>3, <2>4
<1> QED BY <1>1, <1>2

\* What a deposit decoded from a log says, and the log it came from.
WordsOf(input) == [k \in DOMAIN input.topics |-> ToWord(input.topics[k])]
DecodedFrom(event, input) ==
  /\ Len(WordsOf(input)) = 2
  /\ WordsOf(input)[1] = DepositTopic
  /\ WordsOf(input)[2] \in Elements
  /\ event.commitment = FromField(WordsOf(input)[2])
  /\ event.leafIndex = Number(DataWord([data |-> ToBytes(input.data)], 1) % (U32_MAX + 1))

LEMMA DepositIs ==
  ASSUME NEW input, IsDeposit(DecodeEvent(input))
  PROVE  DecodedFrom(DecodeEvent(input), input)
<1> DEFINE topics == WordsOf(input)
           data == ToBytes(input.data)
           log == IntoLog(input)
           event == SyncEventOf(log)
           decoded == DecodeEvent(input)
<1>1. decoded \notin {Thrown, Undefined} /\ decoded.kind = "deposit"
  BY DEF IsDeposit
<1>2. log # Thrown
  BY <1>1 DEF DecodeEvent
<1>3. log.topics = topics /\ log.data = data
  BY <1>2 DEF IntoLog, WordsOf
<1>4. event \notin {Thrown, Undefined}
  BY <1>1, <1>2 DEF DecodeEvent
<1>5. event.kind = "deposit"
  BY <1>1, <1>2, <1>4 DEF DecodeEvent
<1>6. /\ decoded.commitment = FromField(event.commitment)
      /\ decoded.leafIndex = Number(event.leafIndex)
  BY <1>2, <1>4, <1>5 DEF DecodeEvent
<1> HIDE DEF decoded
<1>7. /\ log.topics[1] = DepositTopic /\ Len(log.topics) = 2 /\ log.topics[2] \in Elements
      /\ event.commitment = log.topics[2] /\ event.leafIndex = LeafIndex(log)
  <2> HIDE DEF log
  <2> QED BY <1>4, <1>5 DEF SyncEventOf
<1>8. LeafIndex(log) = DataWord([data |-> data], 1) % (U32_MAX + 1)
  <2> HIDE DEF log, data
  <2> QED BY <1>3 DEF LeafIndex, DataWord
<1> QED
  BY <1>3, <1>6, <1>7, <1>8 DEF DecodedFrom, decoded

\* A deposit's log is decoded to a deposit or to an Error.
LEMMA DepositOrThrown ==
  ASSUME NEW input, Len(WordsOf(input)) = 2, WordsOf(input)[1] = DepositTopic,
         DecodeEvent(input) # Thrown
  PROVE  IsDeposit(DecodeEvent(input))
<1> DEFINE log == IntoLog(input)
           event == SyncEventOf(log)
<1>1. log # Thrown /\ event # Thrown
  BY DEF DecodeEvent
<1>2. log.topics = WordsOf(input)
  BY <1>1 DEF IntoLog, WordsOf
<1>3. log.topics # <<>>
  BY <1>2
<1>4. event = [kind |-> "deposit", commitment |-> log.topics[2],
               leafIndex |-> LeafIndex(log), block |-> log.block]
  <2> HIDE DEF log
  <2> QED BY <1>1, <1>2, <1>3 DEF SyncEventOf
<1>5. event # Undefined
  <2>1. "kind" \in DOMAIN event /\ "kind" \notin DOMAIN Undefined
    BY <1>4 DEF Undefined
  <2> QED BY <2>1
<1>6. DecodeEvent(input) =
        [kind |-> "deposit", commitment |-> FromField(event.commitment),
         leafIndex |-> Number(event.leafIndex), blockNumber |-> BigInt(event.block)]
  <2>1. event.kind = "deposit"
    BY <1>4
  <2> QED BY <1>1, <1>5, <2>1 DEF DecodeEvent
<1>7. DecodeEvent(input).kind = "deposit" /\ DecodeEvent(input) # Undefined
  <2> DEFINE decoded == DecodeEvent(input)
  <2>1. "kind" \in DOMAIN decoded /\ "kind" \notin DOMAIN Undefined /\ decoded.kind = "deposit"
    BY <1>6 DEF Undefined
  <2> QED BY <2>1
<1> QED
  BY <1>7 DEF IsDeposit

LEMMA SpliceEventIsSplice ==
  ASSUME NEW input, IInv, SpliceEvent(input)
  PROVE  [Next]_vars
<1> DEFINE event == DecodeEvent(input)
           texts == <<event.commitment>>
<1>1. CASE IsDeposit(event) /\ JsSplice(event.leafIndex, texts)
  <2>1. Decoded(texts) # Thrown => BatchOf(Decoded(texts)) \in Batches
    <3> SUFFICES ASSUME Decoded(texts) # Thrown PROVE BatchOf(Decoded(texts)) \in Batches
      OBVIOUS
    <3>1. texts \in Seq({event.commitment}) /\ DOMAIN texts = {1}
      OBVIOUS
    <3>2. Decoded(texts) \in Seq(Elements) /\ DOMAIN Decoded(texts) = {1}
      <4> HIDE DEF texts
      <4> QED BY <3>1, DecodedTyped
    <3>3. Decoded(texts) = <<Decoded(texts)[1]>> /\ Decoded(texts)[1] \in Elements
      <4> HIDE DEF texts
      <4> QED BY <3>2
    <3> HIDE DEF texts
    <3> QED BY <3>3, CallAssumption
  <2> HIDE DEF texts
  <2> QED BY <1>1, <2>1, JsSpliceIsSplice
<1>2. CASE UNCHANGED vars
  BY <1>2
<1> QED
  BY <1>1, <1>2 DEF SpliceEvent

LEMMA JsNextIsNext ==
  ASSUME IInv, [JsNext]_jsVars
  PROVE  [Next]_vars
<1>1. ASSUME NEW call \in Calls, JsSplice(call.from, call.commitments) PROVE [Next]_vars
  BY <1>1, CallAssumption, JsSpliceIsSplice
<1>2. ASSUME NEW input \in Logs, SpliceEvent(input) PROVE [Next]_vars
  BY <1>2, SpliceEventIsSplice
<1>3. CASE Catch
  BY <1>3 DEF Catch
<1>4. CASE PushZero \/ HashLevel
  BY <1>4 DEF Next
<1>5. CASE UNCHANGED jsVars
  BY <1>5 DEF jsVars
<1> QED
  BY <1>1, <1>2, <1>3, <1>4, <1>5 DEF JsNext

\* The tree in JavaScript's hands is a Merkle tree: whatever it is passed, every step
\* of a binding is a splice or a refusal of the core's tree, or leaves it alone.
THEOREM JsTreeIsMerkleTree == JsSpec => Spec
<1>1. JsInit => Init
  BY DEF JsInit
<1>2. Init => IInv
  BY InitIInv
<1>3. IInv /\ [Next]_vars => IInv'
  BY StepIInv
<1>4. IInv /\ [JsNext]_jsVars => [Next]_vars
  BY JsNextIsNext
<1> QED
  BY <1>1, <1>2, <1>3, <1>4, PTL DEF JsSpec, Spec

\* The rows of PoolTree are their own hashes.
LEMMA RowsDoNotCollide == CollisionFree
<1> SUFFICES ASSUME NEW l \in 1..Depth, NEW r \in [1..Arity -> Hashes[l - 1]],
                    NEW s \in [1..Arity -> Hashes[l - 1]], Hash(r) = Hash(s)
             PROVE  r = s
  BY DEF CollisionFree
<1>1. Hash(r) = r /\ Hash(s) = s
  BY SymbolicAssumption
<1> QED BY <1>1

\* So what holds of every Merkle tree holds of JavaScript's, whatever it passes and
\* however often it throws: the nodes are the hashes of their children, the proof of
\* every leaf verifies for that leaf alone, and the root is the contract's.
THEOREM JsInvariants ==
  JsSpec => [](TypeOK /\ HashesChildren /\ ProofsVerify /\ RootIsContracts)
<1>1. Spec => []ProofsVerify
  BY RowsDoNotCollide, ProofsVerifyHolds
<1> QED
  BY <1>1, JsTreeIsMerkleTree, TypeCorrect, HashesChildrenHolds, RootIsContractsHolds, PTL

-----------------------------------------------------------------------------
(* Positional notation. *)

NDigits == 2 * WORD_BYTES

LEMMA Weights ==
  /\ NDigits \in Nat \ {0}
  /\ Weight[0] = 1
  /\ \A n \in 0..NDigits : Weight[n] \in Nat \ {0}
  /\ \A n \in 1..NDigits : Weight[n] = RADIX * Weight[n - 1]
<1>1. NDigits \in Nat \ {0} /\ RADIX \in Nat /\ RADIX > 0
  BY WidthAssumption DEF NDigits
<1>2. Weight = PowerOf(RADIX, NDigits)
  BY DEF Weight, PowerOf, NDigits
<1>3. ArePowers(Weight, RADIX, NDigits)
  BY <1>1, <1>2, PowersOf
<1>4. /\ \A n \in 0..NDigits : Weight[n] \in Nat
      /\ Weight[0] = 1
      /\ \A n \in 1..NDigits : Weight[n] = RADIX * Weight[n - 1]
  BY <1>3 DEF ArePowers
<1>5. \A n \in 0..NDigits : Weight[n] # 0
  <2> DEFINE T == {n \in 0..NDigits : Weight[n] = 0}
  <2> SUFFICES ASSUME T # {} PROVE FALSE
    OBVIOUS
  <2>1. PICK n \in T : \A m \in T : n <= m
    <3>1. T \in SUBSET Nat
      BY <1>1
    <3> HIDE DEF T
    <3> QED BY <3>1, LeastNat
  <2>2. n \in 1..NDigits /\ n - 1 \in 0..NDigits /\ n - 1 \notin T
    BY <1>1, <1>4, <2>1
  <2>3. Weight[n - 1] \in Nat \ {0} /\ RADIX * Weight[n - 1] = 0
    BY <1>4, <2>1, <2>2
  <2>4. \A x \in Nat \ {0} : RADIX * x # 0
    BY <1>1
  <2> QED BY <2>3, <2>4
<1> QED
  BY <1>1, <1>4, <1>5

\* Dividing twice is dividing by the product.
LEMMA DivTwice ==
  ASSUME NEW n \in Nat, NEW a \in Nat \ {0}, NEW b \in Nat \ {0}
  PROVE  n \div (b * a) = (n \div a) \div b
<1> DEFINE q == n \div a  r == n % a  s == q \div b  t == q % b
           rest == a * t + r
<1>1. q \in Nat /\ r \in 0..(a - 1) /\ n = a * q + r
  BY ModBounds
<1> HIDE DEF q, r
<1>2. s \in Nat /\ t \in 0..(b - 1) /\ q = b * s + t
  BY <1>1, ModBounds
<1> HIDE DEF s, t
<1>3. n = (b * a) * s + rest
  <2>1. a * (b * s + t) = (b * a) * s + a * t
    BY <1>2
  <2> QED BY <1>1, <1>2, <2>1
<1>4. rest \in 0..(b * a - 1)
  <2>1. a * t \in Nat /\ a * t + a <= a * b
    <3>1. \A x, d \in Nat : a * (x + 1 + d) = a * x + a + a * d /\ a * d >= 0
      OBVIOUS
    <3>2. b - t - 1 \in Nat /\ b = t + 1 + (b - t - 1)
      BY <1>2
    <3>3. a * b = a * t + a + a * (b - t - 1) /\ a * (b - t - 1) >= 0
      BY <1>2, <3>1, <3>2
    <3>4. a * t \in Nat /\ a * (b - t - 1) \in Nat
      BY <1>2, <3>2
    <3> QED BY <3>3, <3>4
  <2>2. a * b = b * a /\ b * a \in Nat
    OBVIOUS
  <2> QED BY <1>1, <2>1, <2>2
<1> HIDE DEF rest
<1>5. b * a \in Nat \ {0}
  OBVIOUS
<1>6. n \div (b * a) = s
  BY <1>2, <1>3, <1>4, <1>5, DivUnique
<1> QED
  BY <1>6 DEF q, s

\* What is left of a number without its last digits.
LEMMA Quotients ==
  ASSUME NEW n \in Nat
  PROVE  /\ n \div Weight[0] = n
         /\ \A j \in 0..NDigits : n \div Weight[j] \in Nat
         /\ \A j \in 1..NDigits : n \div Weight[j] = (n \div Weight[j - 1]) \div RADIX
<1>1. n \div Weight[0] = n
  BY Weights
<1>2. \A j \in 0..NDigits : n \div Weight[j] \in Nat
  BY Weights, ModBounds
<1>3. ASSUME NEW j \in 1..NDigits
      PROVE  n \div Weight[j] = (n \div Weight[j - 1]) \div RADIX
  <2>1. Weight[j] = RADIX * Weight[j - 1]
    BY Weights
  <2>2. j - 1 \in 0..NDigits
    BY Weights
  <2>3. RADIX \in Nat \ {0} /\ Weight[j - 1] \in Nat \ {0}
    BY <2>2, Weights, WidthAssumption
  <2>4. n \div (RADIX * Weight[j - 1]) = (n \div Weight[j - 1]) \div RADIX
    BY <2>3, DivTwice
  <2> QED BY <2>1, <2>4
<1> QED
  BY <1>1, <1>2, <1>3

\* The numbers that the first digits write.
DigitStrings == [1..NDigits -> 0..(RADIX - 1)]
Writes(h, d) ==
  /\ h \in [0..NDigits -> Nat]
  /\ h[0] = 0
  /\ \A i \in 1..NDigits : h[i] = RADIX * h[i - 1] + d[i]

LEMMA WritesExists ==
  ASSUME NEW d \in DigitStrings
  PROVE  \E h : Writes(h, d)
<1> DEFINE step == [l \in 1..NDigits |-> [x \in Nat |-> RADIX * x + d[l]]]
<1>1. RADIX \in Nat /\ NDigits \in Nat /\ \A l \in 1..NDigits : d[l] \in Nat
  BY Weights, WidthAssumption DEF DigitStrings
<1>2. step \in [1..NDigits -> [Nat -> Nat]]
  BY <1>1
<1>3. PICK h : Solves(h, NDigits, Nat, 0, step)
  <2>1. 0 \in Nat
    OBVIOUS
  <2> HIDE DEF step
  <2> QED BY <1>1, <1>2, <2>1, Recursion
<1>4. ASSUME NEW i \in 1..NDigits PROVE h[i] = RADIX * h[i - 1] + d[i]
  <2>1. h[i - 1] \in Nat
    BY <1>1, <1>3 DEF Solves
  <2>2. step[i] = [x \in Nat |-> RADIX * x + d[i]]
    OBVIOUS
  <2>3. h[i] = step[i][h[i - 1]]
    BY <1>3 DEF Solves
  <2> HIDE DEF step
  <2> QED BY <2>1, <2>2, <2>3
<1> HIDE DEF step
<1> QED
  BY <1>3, <1>4 DEF Solves, Writes

\* A digit of a number.
DigitOf(n, k) == (n \div Weight[NDigits - k]) % RADIX
DigitsOf(n) == [k \in 1..NDigits |-> DigitOf(n, k)]

LEMMA DigitsOfTyped ==
  ASSUME NEW n \in Nat
  PROVE  DigitsOf(n) \in DigitStrings
<1> SUFFICES ASSUME NEW k \in 1..NDigits PROVE DigitOf(n, k) \in 0..(RADIX - 1)
  BY DEF DigitsOf, DigitStrings
<1>1. NDigits - k \in 0..NDigits
  BY Weights
<1>2. n \div Weight[NDigits - k] \in Nat
  BY <1>1, Quotients
<1> QED
  BY <1>2, ModBounds, WidthAssumption DEF DigitOf

\* Digits that write a number are its digits.
LEMMA WrittenDigits ==
  ASSUME NEW d \in DigitStrings, NEW h, Writes(h, d)
  PROVE  DigitsOf(h[NDigits]) = d
<1> DEFINE n == h[NDigits]
           q == [j \in 0..NDigits |-> n \div Weight[j]]
           g == [j \in 0..NDigits |-> h[NDigits - j]]
<1>1. NDigits \in Nat \ {0} /\ RADIX \in Nat \ {0}
  BY Weights, WidthAssumption
<1>2. n \in Nat
  BY <1>1 DEF Writes
<1>3. \A i \in 1..NDigits :
        /\ h[i - 1] \in Nat /\ d[i] \in 0..(RADIX - 1)
        /\ h[i] = RADIX * h[i - 1] + d[i]
  <2> TAKE i \in 1..NDigits
  <2>1. i - 1 \in 0..NDigits
    BY <1>1
  <2>2. h[i - 1] \in Nat
    BY <2>1 DEF Writes
  <2>3. d[i] \in 0..(RADIX - 1)
    BY DEF DigitStrings
  <2>4. h[i] = RADIX * h[i - 1] + d[i]
    BY DEF Writes
  <2> QED BY <2>2, <2>3, <2>4
<1>4. \A i \in 1..NDigits : h[i] \div RADIX = h[i - 1] /\ h[i] % RADIX = d[i]
  <2> TAKE i \in 1..NDigits
  <2>1. /\ (RADIX * h[i - 1] + d[i]) \div RADIX = h[i - 1]
        /\ (RADIX * h[i - 1] + d[i]) % RADIX = d[i]
    BY <1>1, <1>3, DivUnique
  <2> QED BY <1>3, <2>1
<1>5. \A j \in 0..NDigits : q[j] = g[j]
  <2>1. q[0] = g[0]
    BY <1>1, <1>2, Quotients
  <2>2. ASSUME NEW j \in 1..NDigits, q[j - 1] = g[j - 1] PROVE q[j] = g[j]
    <3>1. q[j] = q[j - 1] \div RADIX
      <4>1. n \div Weight[j] = (n \div Weight[j - 1]) \div RADIX
        <5> HIDE DEF n
        <5> QED BY <1>2, Quotients
      <4>2. j - 1 \in 0..NDigits
        BY <1>1
      <4> HIDE DEF n
      <4> QED BY <4>1, <4>2
    <3>2. NDigits - j + 1 \in 1..NDigits /\ j - 1 \in 0..NDigits
      BY <1>1
    <3>3. h[NDigits - j + 1] \div RADIX = h[(NDigits - j + 1) - 1]
      <4> DEFINE i == NDigits - j + 1
      <4>1. i \in 1..NDigits
        BY <3>2
      <4> HIDE DEF i
      <4>2. h[i] \div RADIX = h[i - 1]
        BY <1>4, <4>1
      <4> QED BY <4>2 DEF i
    <3>4. (NDigits - j + 1) - 1 = NDigits - j /\ NDigits - (j - 1) = NDigits - j + 1
      BY <1>1
    <3>5. g[j - 1] = h[NDigits - j + 1] /\ g[j] = h[NDigits - j]
      BY <3>2, <3>4
    <3> HIDE DEF q, g
    <3> QED BY <2>2, <3>1, <3>3, <3>4, <3>5
  <2> HIDE DEF q, g
  <2> QED BY <1>1, <2>1, <2>2, SameByLevel
<1>6. ASSUME NEW k \in 1..NDigits PROVE DigitOf(n, k) = d[k]
  <2>1. NDigits - k \in 0..NDigits /\ NDigits - (NDigits - k) = k
    BY <1>1
  <2>2. n \div Weight[NDigits - k] = h[NDigits - (NDigits - k)]
    <3>1. q[NDigits - k] = g[NDigits - k]
      <4> HIDE DEF q, g
      <4> QED BY <1>5, <2>1
    <3> HIDE DEF n
    <3> QED BY <2>1, <3>1
  <2>3. n \div Weight[NDigits - k] = h[k]
    BY <2>1, <2>2
  <2> HIDE DEF n
  <2> QED BY <1>4, <2>3 DEF DigitOf
<1>7. d = [k \in 1..NDigits |-> d[k]]
  BY DEF DigitStrings
<1> HIDE DEF n
<1> QED
  BY <1>6, <1>7 DEF DigitsOf, n

\* The digits of a number that is not too large write it.
LEMMA DigitsWrite ==
  ASSUME NEW n \in Nat, n < Weight[NDigits], NEW h, Writes(h, DigitsOf(n))
  PROVE  h[NDigits] = n
<1> DEFINE g == [i \in 0..NDigits |-> n \div Weight[NDigits - i]]
<1>1. NDigits \in Nat \ {0} /\ RADIX \in Nat \ {0}
  BY Weights, WidthAssumption
<1>2. h[0] = g[0]
  <2>1. NDigits - 0 = NDigits /\ 0 \in 0..NDigits /\ NDigits \in 0..NDigits
    BY <1>1
  <2>2. g[0] = n \div Weight[NDigits]
    BY <2>1
  <2>3. Weight[NDigits] \in Nat \ {0}
    BY <2>1, Weights
  <2>4. n \div Weight[NDigits] = 0
    <3> DEFINE w == Weight[NDigits]
    <3>1. w * 0 + n = n /\ n \in 0..(w - 1) /\ 0 \in Nat /\ w \in Nat \ {0}
      BY <2>3
    <3> HIDE DEF w
    <3>2. (w * 0 + n) \div w = 0
      BY <3>1, DivUnique
    <3> QED BY <3>1, <3>2 DEF w
  <2> QED BY <2>2, <2>4 DEF Writes
<1>3. ASSUME NEW i \in 1..NDigits, h[i - 1] = g[i - 1] PROVE h[i] = g[i]
  <2> DEFINE j == NDigits - i + 1
             q == n \div Weight[j - 1]
  <2>1. j \in 1..NDigits /\ j - 1 \in 0..NDigits /\ i - 1 \in 0..NDigits /\ i \in 0..NDigits
    BY <1>1
  <2>2. j - 1 = NDigits - i /\ j = NDigits - (i - 1)
    BY <1>1
  <2>3. g[i] = q /\ g[i - 1] = n \div Weight[j]
    BY <2>1, <2>2
  <2> HIDE DEF j
  <2>4. q \in Nat /\ n \div Weight[j] = q \div RADIX
    BY <2>1, Quotients
  <2>5. DigitsOf(n)[i] = q % RADIX
    BY <2>2 DEF DigitsOf, DigitOf
  <2> HIDE DEF g, q
  <2>6. h[i] = RADIX * (q \div RADIX) + (q % RADIX)
    <3>1. h[i] = RADIX * h[i - 1] + DigitsOf(n)[i]
      BY DEF Writes
    <3> QED BY <1>3, <2>3, <2>4, <2>5, <3>1
  <2>7. q = RADIX * (q \div RADIX) + (q % RADIX)
    BY <1>1, <2>4, ModBounds
  <2> QED BY <2>3, <2>6, <2>7
<1>4. h[NDigits] = g[NDigits]
  <2>1. NDigits \in 0..NDigits
    BY <1>1
  <2> HIDE DEF g
  <2> QED BY <1>1, <1>2, <1>3, <2>1, SameByLevel
<1>5. g[NDigits] = n
  <2>1. NDigits - NDigits = 0 /\ NDigits \in 0..NDigits
    BY <1>1
  <2>2. g[NDigits] = n \div Weight[0]
    BY <2>1
  <2> QED BY <2>2, Quotients
<1> QED
  BY <1>4, <1>5

-----------------------------------------------------------------------------
\* Two digits make a byte.
Paired(bytes, d) ==
  /\ bytes \in Seq(Nat) /\ Len(bytes) = WORD_BYTES
  /\ \A k \in 1..WORD_BYTES : bytes[k] = RADIX * d[2 * k - 1] + d[2 * k]

\* The word of the bytes is the number that their digits write.
LEMMA BigEndianIs ==
  ASSUME NEW d \in DigitStrings, NEW h, Writes(h, d), NEW bytes, Paired(bytes, d)
  PROVE  BigEndian(bytes) = h[NDigits]
<1> DEFINE W == WORD_BYTES
           next(x, m) == RADIX * RADIX * x + bytes[m]
           step == [m \in 1..W |-> [x \in Nat |-> next(x, m)]]
           Eq(f) == f = [s \in SUBSET (DOMAIN bytes) |->
                           IF s = {} THEN 0 ELSE next(f[s \ {Max(s)}], Max(s))]
           all == BigEndian(bytes)
<1>1. all = (CHOOSE f : Eq(f))[DOMAIN bytes]
  BY DEF BigEndian, FoldLeft, MapThenFoldSet
<1> HIDE DEF all
<1>2. W \in Nat \ {0} /\ RADIX \in Nat /\ NDigits = 2 * W
  BY WidthAssumption DEF NDigits
<1>3. DOMAIN bytes = 1..W /\ \A m \in 1..W : bytes[m] \in Nat
  BY <1>2 DEF Paired
<1>4. \A m \in 1..W : \A x \in Nat : next(x, m) \in Nat
  <2> TAKE m \in 1..W
  <2> TAKE x \in Nat
  <2>1. RADIX * RADIX * x \in Nat /\ bytes[m] \in Nat
    BY <1>2, <1>3
  <2> QED BY <2>1
<1> HIDE DEF next
<1>5. step \in [1..W -> [Nat -> Nat]]
  BY <1>4
<1>6. PICK f : FoldsTo(f, W, Nat, 0, step)
  <2> HIDE DEF step, W
  <2>1. 0 \in Nat
    OBVIOUS
  <2> QED BY <1>2, <1>5, <2>1, FoldExists
<1>7. Eq(f)
  <2>1. /\ f \in [SUBSET (1..W) -> Nat] /\ f[{}] = 0
        /\ \A s \in SUBSET (1..W) : s # {} => f[s] = step[Max(s)][f[s \ {Max(s)}]]
    BY <1>6 DEF FoldsTo
  <2>2. ASSUME NEW s \in SUBSET (1..W), s # {} PROVE f[s] = next(f[s \ {Max(s)}], Max(s))
    <3>1. Max(s) \in 1..W
      <4>1. Max(s) \in s
        BY <1>2, <2>2, MaxIsLast
      <4> QED BY <4>1
    <3>2. f[s \ {Max(s)}] \in Nat
      BY <2>1
    <3>3. step[Max(s)] = [x \in Nat |-> next(x, Max(s))]
      BY <3>1
    <3> HIDE DEF step
    <3> QED BY <2>1, <2>2, <3>2, <3>3
  <2> HIDE DEF step
  <2> QED BY <1>3, <2>1, <2>2
<1>8. PICK g : Eq(g) /\ all = g[DOMAIN bytes]
  <2> HIDE DEF Eq
  <2> QED BY <1>1, <1>7
<1>9. g[{}] = 0
  BY <1>3, <1>8
<1>10. \A m \in 1..W : g[1..m] = next(g[1..(m - 1)], m)
  <2> TAKE m \in 1..W
  <2>1. m \in Nat \ {0} /\ 1..m \in SUBSET (1..W) /\ 1..m # {}
    BY <1>2
  <2>2. Max(1..m) = m /\ (1..m) \ {m} = 1..(m - 1)
    BY <2>1, MaxOf
  <2>3. ASSUME NEW s \in SUBSET (1..W), s # {} PROVE g[s] = next(g[s \ {Max(s)}], Max(s))
    BY <1>3, <1>8, <2>3
  <2> HIDE DEF Eq
  <2>4. g[1..m] = next(g[(1..m) \ {Max(1..m)}], Max(1..m))
    BY <2>1, <2>3
  <2> QED BY <2>2, <2>4
<1> HIDE DEF Eq, step
<1> DEFINE F == [k \in 0..W |-> g[1..k]]
           G == [k \in 0..W |-> h[2 * k]]
<1>11. F[0] = G[0]
  <2>1. 1..0 = {} /\ 2 * 0 = 0 /\ 0 \in 0..W
    BY <1>2
  <2>2. F[0] = 0
    BY <1>9, <2>1
  <2> QED BY <2>1, <2>2 DEF Writes
<1>12. ASSUME NEW k \in 1..W, F[k - 1] = G[k - 1] PROVE F[k] = G[k]
  <2> DEFINE i == 2 * k
             j == 2 * k - 1
             x == h[2 * k - 2]
  <2>1. /\ i \in 1..NDigits /\ j \in 1..NDigits /\ i - 1 = j /\ j - 1 = 2 * k - 2
        /\ 2 * k - 2 \in 0..NDigits /\ 2 * (k - 1) = 2 * k - 2
        /\ k \in 0..W /\ k - 1 \in 0..W
    BY <1>2
  <2> HIDE DEF i, j
  <2>2. h[i] = RADIX * h[i - 1] + d[i] /\ h[j] = RADIX * h[j - 1] + d[j]
    BY <2>1 DEF Writes
  <2>3. h[i] = RADIX * (RADIX * x + d[j]) + d[i]
    BY <2>1, <2>2
  <2>4. x \in Nat /\ d[i] \in Nat /\ d[j] \in Nat
    <3>1. d[i] \in 0..(RADIX - 1) /\ d[j] \in 0..(RADIX - 1)
      BY <2>1 DEF DigitStrings
    <3>2. d[i] \in Nat /\ d[j] \in Nat
      BY <1>2, <3>1
    <3>3. x \in Nat
      <4> DEFINE m == 2 * k - 2
      <4>1. m \in 0..NDigits
        BY <2>1
      <4> HIDE DEF m
      <4>2. h[m] \in Nat
        BY <4>1 DEF Writes
      <4> QED BY <4>2 DEF m
    <3> QED BY <3>2, <3>3
  <2> HIDE DEF x
  <2>5. RADIX * (RADIX * x + d[j]) + d[i] = RADIX * RADIX * x + (RADIX * d[j] + d[i])
    BY <1>2, <2>4
  <2>6. bytes[k] = RADIX * d[j] + d[i]
    BY DEF Paired, i, j
  <2>7. g[1..k] = next(g[1..(k - 1)], k)
    BY <1>10
  <2>8. g[1..(k - 1)] = x
    <3>1. F[k - 1] = g[1..(k - 1)] /\ G[k - 1] = h[2 * (k - 1)]
      BY <2>1
    <3> QED BY <1>12, <2>1, <3>1 DEF x
  <2>9. g[1..k] = RADIX * RADIX * x + (RADIX * d[j] + d[i])
    BY <2>6, <2>7, <2>8 DEF next
  <2>10. F[k] = g[1..k] /\ G[k] = h[i]
    BY <2>1 DEF i
  <2> QED BY <2>3, <2>5, <2>9, <2>10
<1>13. F[W] = G[W]
  <2> HIDE DEF F, G, W
  <2> QED BY <1>2, <1>11, <1>12, SameByLevel
<1>14. W \in 0..W /\ F[W] = g[1..W] /\ G[W] = h[NDigits]
  BY <1>2
<1> QED
  BY <1>3, <1>8, <1>13, <1>14 DEF all

\* The digits that FromField writes.
LEMMA DigitsIs ==
  ASSUME NEW n
  PROVE  Digits(<<n>>) = DigitsOf(n)
<1> DEFINE seqs == [w \in DOMAIN <<n>> |-> [k \in 1..NDigits |-> DigitOf(<<n>>[w], k)]]
           Eq(f) == f = [i \in 1..Len(seqs) |-> IF i = 1 THEN seqs[i] ELSE f[i - 1] \o seqs[i]]
<1>1. Digits(<<n>>) = FlattenSeq(seqs)
  BY DEF Digits, NDigits, DigitOf
<1>2. DOMAIN seqs = 1..1 /\ Len(seqs) = 1 /\ seqs[1] = DigitsOf(n)
  BY DEF DigitsOf
<1> HIDE DEF seqs
<1>3. FlattenSeq(seqs) = (CHOOSE f : Eq(f))[Len(seqs)]
  BY <1>2 DEF FlattenSeq
<1>4. Eq([i \in 1..1 |-> seqs[1]])
  BY <1>2
<1>5. PICK f : Eq(f) /\ FlattenSeq(seqs) = f[Len(seqs)]
  <2> HIDE DEF Eq
  <2> QED BY <1>3, <1>4
<1>6. f[1] = seqs[1]
  BY <1>2, <1>5
<1> QED
  BY <1>1, <1>2, <1>5, <1>6

\* A text is the element it is the canonical text of, and no other text is.
THEOREM FieldWritten ==
  ASSUME NEW text \in Texts, NEW e \in Elements
  PROVE  ToField(text) = e <=> FromField(e) = text
<1> DEFINE d == text.digits
           bytes == [k \in 1..(Len(d) \div 2) |-> RADIX * d[2 * k - 1] + d[2 * k]]
           plain == text.prefixed /\ Len(d) % 2 = 0 /\ ~ Contains(d, RADIX)
<1>1. /\ RADIX \in Nat \ {0, 1} /\ WORD_BYTES \in Nat \ {0} /\ NDigits = 2 * WORD_BYTES
      /\ e \in Nat /\ P \in Nat /\ e < P /\ P <= Weight[NDigits] /\ Weight[NDigits] \in Nat
  <2>1. P \in Nat /\ e \in Nat /\ e < P
    BY SpongeConstants DEF Elements
  <2> QED BY <2>1, WidthAssumption, Weights DEF NDigits
<1>2. text = [prefixed |-> text.prefixed, digits |-> d] /\ text.prefixed \in BOOLEAN
      /\ d \in Seq(0..RADIX) /\ Len(d) \in Nat /\ DOMAIN d = 1..Len(d)
  BY DEF Texts
<1>3. ASSUME NEW i \in 1..Len(d) PROVE d[i] \in 0..RADIX
  <2>1. d \in Seq(0..RADIX)
    BY <1>2
  <2> HIDE DEF d
  <2> QED BY <2>1, ElementOfSeq
<1>4. FromField(e) = [prefixed |-> TRUE, digits |-> DigitsOf(e)]
  BY DigitsIs DEF FromField, Text
<1>5. DigitsOf(e) \in DigitStrings
  BY <1>1, DigitsOfTyped
<1>6. ToBytes(text) = IF plain THEN bytes ELSE Thrown
  BY DEF ToBytes
<1>7. bytes \in Seq(Nat) /\ Len(bytes) = Len(d) \div 2
  <2> DEFINE m == Len(d) \div 2
             byte(k) == RADIX * d[2 * k - 1] + d[2 * k]
  <2>1. m \in Nat
    BY <1>2
  <2>2. ASSUME NEW k \in 1..m PROVE byte(k) \in Nat
    <3> DEFINE i == 2 * k - 1
               j == 2 * k
    <3>1. i \in 1..Len(d) /\ j \in 1..Len(d)
      BY <1>2
    <3> HIDE DEF i, j, d
    <3>2. d[i] \in 0..RADIX /\ d[j] \in 0..RADIX
      BY <1>3, <3>1
    <3>3. \A x, y \in 0..RADIX : RADIX * x + y \in Nat
      BY <1>1
    <3>4. RADIX * d[i] + d[j] \in Nat
      BY <3>2, <3>3
    <3> QED BY <3>4 DEF i, j
  <2>3. bytes = [k \in 1..m |-> byte(k)]
    OBVIOUS
  <2> HIDE DEF byte, bytes
  <2>4. bytes \in Seq(Nat) /\ Len(bytes) = m
    <3> HIDE DEF m
    <3> QED BY <2>1, <2>2, <2>3
  <2> QED BY <2>4
<1>8. plain /\ Len(bytes) = WORD_BYTES => d \in DigitStrings /\ Paired(bytes, d)
  <2> SUFFICES ASSUME plain, Len(bytes) = WORD_BYTES PROVE d \in DigitStrings /\ Paired(bytes, d)
    OBVIOUS
  <2>1. Len(d) = NDigits
    <3> DEFINE n == Len(d)
    <3>1. n \in Nat /\ n % 2 = 0 /\ n \div 2 = WORD_BYTES
      BY <1>2, <1>7
    <3> HIDE DEF n
    <3>2. n = 2 * WORD_BYTES
      BY <3>1
    <3> QED BY <1>1, <3>2 DEF n
  <2>2. \A k \in 1..NDigits : d[k] \in 0..(RADIX - 1)
    <3> TAKE k \in 1..NDigits
    <3>1. d[k] # RADIX /\ d[k] \in 0..RADIX
      BY <1>3, <2>1 DEF Contains
    <3> HIDE DEF d
    <3> QED BY <1>1, <3>1
  <2>3. d = [k \in 1..NDigits |-> d[k]]
    BY <1>2, <2>1
  <2>4. d \in DigitStrings
    <3> HIDE DEF d
    <3> QED BY <2>2, <2>3 DEF DigitStrings
  <2>5. Len(d) \div 2 = WORD_BYTES
    BY <1>7
  <2>6. \A k \in 1..WORD_BYTES : bytes[k] = RADIX * d[2 * k - 1] + d[2 * k]
    BY <2>5
  <2> HIDE DEF bytes
  <2> QED BY <1>7, <2>4, <2>6 DEF Paired
<1> HIDE DEF bytes
<1>9. ASSUME plain, Len(bytes) = WORD_BYTES
      PROVE  BigEndian(bytes) = e <=> d = DigitsOf(e)
  <2>1. d \in DigitStrings /\ Paired(bytes, d)
    BY <1>8, <1>9
  <2> HIDE DEF d
  <2>2. PICK h : Writes(h, d)
    BY <2>1, WritesExists
  <2>3. BigEndian(bytes) = h[NDigits]
    BY <2>1, <2>2, BigEndianIs
  <2>4. DigitsOf(h[NDigits]) = d
    BY <2>1, <2>2, WrittenDigits
  <2>5. ASSUME d = DigitsOf(e) PROVE h[NDigits] = e
    <3>1. Writes(h, DigitsOf(e)) /\ e < Weight[NDigits]
      BY <1>1, <2>2, <2>5
    <3> QED BY <1>1, <3>1, DigitsWrite
  <2> QED BY <2>3, <2>4, <2>5
<1>10. ASSUME ToField(text) = e PROVE FromField(e) = text
  <2>1. Thrown \notin Elements
    BY ThrownAssumption, <1>1 DEF Elements
  <2>2. ToWord(text) \in Elements /\ ToWord(text) = e
    BY <1>10, <2>1 DEF ToField
  <2>3. ToBytes(text) # Thrown /\ Len(ToBytes(text)) = WORD_BYTES /\ BigEndian(ToBytes(text)) = e
    BY <2>1, <2>2 DEF ToWord
  <2>4. plain /\ ToBytes(text) = bytes
    BY <1>6, <2>3
  <2>5. d = DigitsOf(e)
    BY <1>9, <2>3, <2>4
  <2> QED BY <1>2, <1>4, <2>4, <2>5
<1>11. ASSUME FromField(e) = text PROVE ToField(text) = e
  <2>1. text.prefixed /\ d = DigitsOf(e)
    BY <1>4, <1>11
  <2>2. d \in DigitStrings
    BY <1>5, <2>1
  <2>3. Len(d) = NDigits /\ \A k \in 1..Len(d) : d[k] # RADIX
    <3> HIDE DEF d
    <3>1. DOMAIN d = 1..NDigits /\ \A k \in 1..NDigits : d[k] \in 0..(RADIX - 1)
      BY <2>2 DEF DigitStrings
    <3>2. Len(d) = NDigits
      BY <1>1, <1>2, <3>1
    <3>3. RADIX \notin 0..(RADIX - 1)
      BY <1>1
    <3> QED BY <3>1, <3>2, <3>3
  <2>4. plain /\ Len(bytes) = WORD_BYTES
    <3>1. Len(d) % 2 = 0 /\ Len(d) \div 2 = WORD_BYTES
      BY <1>1, <2>3
    <3> QED BY <1>7, <2>1, <2>3, <3>1 DEF Contains
  <2>5. BigEndian(bytes) = e
    BY <1>9, <2>1, <2>4
  <2>6. ToBytes(text) = bytes /\ bytes # Thrown
    BY <1>6, <1>7, <2>4, ThrownAssumption
  <2> QED BY <2>4, <2>5, <2>6 DEF ToWord, ToField
<1> QED
  BY <1>10, <1>11

-----------------------------------------------------------------------------
(* What a call means. *)

LEMMA ThrownIsNoElement == Thrown \notin Elements
<1>1. Elements \subseteq Nat
  BY SpongeConstants DEF Elements
<1> QED BY <1>1, ThrownAssumption

\* An element is read from its canonical text alone.
LEMMA WrittenIs ==
  ASSUME NEW texts \in Seq(Texts), NEW k \in DOMAIN texts
  PROVE  Written(texts)[k] = {e \in Elements : ToField(texts[k]) = e}
<1>1. texts[k] \in Texts
  BY ElementOfSeq
<1>2. \A e \in Elements : FromField(e) = texts[k] <=> ToField(texts[k]) = e
  BY <1>1, FieldWritten
<1>3. Written(texts)[k] = {e \in Elements : FromField(e) = texts[k]}
  BY DEF Written, Canonical
<1> QED BY <1>2, <1>3

LEMMA WrittenAll ==
  ASSUME NEW texts \in Seq(Texts)
  PROVE  Decoded(texts) # Thrown <=> \A elements \in Range(Written(texts)) : elements # {}
<1>1. DOMAIN Written(texts) = DOMAIN texts /\ DOMAIN texts = 1..Len(texts) /\ Len(texts) \in Nat
  BY DEF Written
<1>2. (\A elements \in Range(Written(texts)) : elements # {})
        <=> \A k \in DOMAIN texts : ToField(texts[k]) \in Elements
  <2>1. ASSUME NEW k \in DOMAIN texts
        PROVE  Written(texts)[k] # {} <=> ToField(texts[k]) \in Elements
    BY WrittenIs
  <2>2. (\A elements \in Range(Written(texts)) : elements # {})
          <=> \A k \in DOMAIN texts : Written(texts)[k] # {}
    BY <1>1 DEF Range
  <2> QED BY <2>1, <2>2
<1>3. ASSUME Decoded(texts) # Thrown
      PROVE  \A k \in DOMAIN texts : ToField(texts[k]) \in Elements
  <2>1. /\ Decoded(texts) \in Seq(Elements) /\ DOMAIN Decoded(texts) = DOMAIN texts
        /\ \A k \in DOMAIN texts : Decoded(texts)[k] = ToField(texts[k])
    BY <1>3, DecodedTyped
  <2>2. ASSUME NEW k \in DOMAIN texts PROVE Decoded(texts)[k] \in Elements
    <3>1. k \in 1..Len(Decoded(texts))
      BY <2>1
    <3> QED BY <2>1, <3>1, ElementOfSeq
  <2> QED BY <2>1, <2>2
<1>4. ASSUME \A k \in DOMAIN texts : ToField(texts[k]) \in Elements
      PROVE  Decoded(texts) # Thrown
  <2> DEFINE elements == [k \in DOMAIN texts |-> ToField(texts[k])]
  <2>1. Elements \subseteq Nat
    BY SpongeConstants DEF Elements
  <2>2. elements \in Seq(Nat) /\ Len(elements) = Len(texts)
    <3>1. \A k \in 1..Len(texts) : elements[k] \in Nat
      BY <1>1, <1>4, <2>1
    <3>2. elements = [k \in 1..Len(texts) |-> elements[k]]
      BY <1>1
    <3> HIDE DEF elements
    <3> QED BY <1>1, <3>1, <3>2
  <2>3. ~ Contains(elements, Thrown)
    BY <1>1, <1>4, <2>2, ThrownIsNoElement DEF Contains
  <2>4. Decoded(texts) = elements
    BY <2>3 DEF Decoded
  <2> QED BY <2>2, <2>4, ThrownAssumption
<1> QED
  BY <1>2, <1>3, <1>4

\* A call is meant when nothing in it throws and its leaves fit.
LEMMA MeantIs ==
  ASSUME NEW from, NEW texts \in Seq(Texts)
  PROVE  IsMeant(from, texts) <=>
           /\ ToU32(from) # Thrown /\ Decoded(texts) # Thrown
           /\ texts # <<>> => Fits(ToU32(from), texts)
<1>1. Thrown \notin 0..U32_MAX
  BY ThrownAssumption, WidthAssumption
<1>2. ToU32(from) # Thrown <=> from.type = "number" /\ from.value \in 0..U32_MAX
  BY <1>1 DEF ToU32
<1>3. ToU32(from) # Thrown => ToU32(from) = from.value
  BY DEF ToU32
<1> QED
  BY <1>2, <1>3, WrittenAll DEF IsMeant, Fits

LEMMA CallSplices ==
  ASSUME IInv, NEW from, NEW texts \in Seq(Texts), JsSplice(from, texts)
  PROVE  SpliceOf(from, texts)
<1> DEFINE index == ToU32(from)
           elements == Decoded(texts)
           batch == BatchOf(elements)
<1>1. MayCall
  BY DEF JsSplice
<1>2. CASE index = Thrown \/ elements = Thrown
  <2>1. Throw
    BY <1>2 DEF JsSplice
  <2>2. ~ IsMeant(from, texts)
    BY <1>2, MeantIs
  <2> QED BY <2>1, <2>2 DEF SpliceOf, Throw, vars
<1>3. CASE index # Thrown /\ elements # Thrown
  <2>1. /\ thrown' = (batch # <<>> /\ ~ Fits(index, batch))
        /\ Splice(index, batch) \/ Refuse(index, batch)
    BY <1>3 DEF JsSplice
  <2>2. /\ elements \in Seq(Elements) /\ DOMAIN elements = DOMAIN texts
        /\ \A k \in DOMAIN texts : elements[k] = ToField(texts[k])
    BY <1>3, DecodedTyped
  <2>3. index \in Nat /\ index = from.value
    BY <1>3, WidthAssumption DEF ToU32
  <2> HIDE DEF index, elements
  <2>4. /\ Len(texts) \in Nat /\ DOMAIN texts = 1..Len(texts)
        /\ DOMAIN batch = DOMAIN texts /\ Len(batch) = Len(texts)
        /\ \A k \in DOMAIN texts : batch[k] = LeafOf(ToField(texts[k]))
        /\ batch = <<>> <=> texts = <<>>
    <3>1. Len(texts) \in Nat /\ DOMAIN texts = 1..Len(texts)
      OBVIOUS
    <3>2. /\ DOMAIN batch = DOMAIN texts
          /\ \A k \in DOMAIN texts : batch[k] = LeafOf(ToField(texts[k]))
          /\ batch \in Seq({LeafOf(e) : e \in Elements})
      BY <2>2 DEF BatchOf
    <3> HIDE DEF batch
    <3>3. Len(batch) = Len(texts)
      BY <3>1, <3>2
    <3> QED BY <3>1, <3>2, <3>3
  <2> HIDE DEF batch
  <2>5. Fits(index, batch) <=> Fits(index, texts)
    BY <2>4 DEF Fits
  <2>6. IsMeant(from, texts) <=> (texts # <<>> => Fits(index, texts))
    BY <1>3, MeantIs DEF index, elements
  <2>7. CASE texts = <<>>
    <3>1. ~ thrown' /\ Refuse(index, batch)
      BY <2>1, <2>4, <2>7 DEF Splice
    <3>2. nodes' = nodes
      BY <3>1 DEF Refuse, vars
    <3> QED BY <2>6, <2>7, <3>1, <3>2 DEF SpliceOf
  <2>8. CASE texts # <<>> /\ ~ Fits(index, texts)
    <3>1. thrown' /\ Refuse(index, batch)
      BY <2>1, <2>4, <2>5, <2>8 DEF Splice
    <3>2. nodes' = nodes
      BY <3>1 DEF Refuse, vars
    <3> QED BY <2>6, <2>8, <3>1, <3>2 DEF SpliceOf
  <2>9. CASE texts # <<>> /\ Fits(index, texts)
    <3>1. ~ thrown' /\ Splice(index, batch)
      BY <2>1, <2>4, <2>5, <2>9 DEF Refuse
    <3>2. nodes'[0] = Overwritten(index, batch)
      <4>1. nodes = [l \in 0..Depth |-> nodes[l]] /\ 0 \in 0..Depth
        BY ShapeAssumption DEF IInv, NodesTyped
      <4>2. nodes' = [nodes EXCEPT ![0] = Overwritten(index, batch)]
        BY <3>1 DEF Splice
      <4> QED BY <4>1, <4>2
    <3>3. Overwritten(index, batch) = Meant(from.value, texts)
      <4>1. ASSUME NEW k \in (index + 1)..(index + Len(texts))
            PROVE  batch[k - index] = LeafOf(CHOOSE e \in Written(texts)[k - index] : TRUE)
        <5> DEFINE j == k - index
        <5>1. j \in DOMAIN texts
          BY <2>3, <2>4, SMTT(30)
        <5> HIDE DEF j
        <5>2. ToField(texts[j]) \in Elements
          <6>1. j \in 1..Len(elements)
            BY <2>2, <5>1
          <6>2. elements[j] \in Elements
            BY <2>2, <6>1, ElementOfSeq
          <6> QED BY <2>2, <5>1, <6>2
        <5>3. Written(texts)[j] = {ToField(texts[j])}
          BY <5>1, <5>2, WrittenIs
        <5>4. (CHOOSE e \in Written(texts)[j] : TRUE) = ToField(texts[j])
          BY <5>3
        <5>5. batch[j] = LeafOf(CHOOSE e \in Written(texts)[j] : TRUE)
          BY <2>4, <5>1, <5>4
        <5> QED BY <5>5 DEF j
      <4>2. Len(batch) = Len(texts) /\ from.value = index
        BY <2>3, <2>4
      <4> QED BY <4>1, <4>2, ZenonT(60) DEF Overwritten, Meant
    <3>4. texts # <<>> /\ IsMeant(from, texts)
      BY <2>6, <2>9
    <3> QED BY <3>1, <3>2, <3>3, <3>4 DEF SpliceOf
  <2> QED BY <2>7, <2>8, <2>9
<1> QED
  BY <1>2, <1>3

LEMMA EventSplices ==
  ASSUME IInv, NEW input \in Logs, SpliceEvent(input)
  PROVE  IF Len(WordsOf(input)) = 2 /\ WordsOf(input)[1] = DepositTopic
            /\ DecodeEvent(input) # Thrown
         THEN SpliceOf(Number(DataWord([data |-> ToBytes(input.data)], 1) % (U32_MAX + 1)),
                       <<input.topics[2]>>)
         ELSE UNCHANGED nodes
<1> DEFINE event == DecodeEvent(input)
           first == DataWord([data |-> ToBytes(input.data)], 1) % (U32_MAX + 1)
<1>1. CASE IsDeposit(event)
  <2>1. JsSplice(event.leafIndex, <<event.commitment>>)
    BY <1>1 DEF SpliceEvent
  <2>2. DecodedFrom(event, input)
    BY <1>1, DepositIs
  <2>3. event # Thrown
    BY <1>1 DEF IsDeposit
  <2> HIDE DEF event
  <2>4. /\ Len(WordsOf(input)) = 2 /\ WordsOf(input)[1] = DepositTopic
        /\ WordsOf(input)[2] \in Elements
        /\ event.commitment = FromField(WordsOf(input)[2]) /\ event.leafIndex = Number(first)
    BY <2>2 DEF DecodedFrom
  <2>5. input.topics \in Seq(Texts) /\ 2 \in 1..Len(input.topics)
        /\ WordsOf(input)[2] = ToWord(input.topics[2])
    <3>1. input.topics \in Seq(Texts)
      BY CallAssumption
    <3>2. Len(WordsOf(input)) = Len(input.topics)
      BY <3>1 DEF WordsOf
    <3> QED BY <2>4, <3>1, <3>2 DEF WordsOf
  <2>6. input.topics[2] \in Texts
    BY <2>5, ElementOfSeq
  <2>7. event.commitment = input.topics[2]
    <3>1. ToField(input.topics[2]) = ToWord(input.topics[2]) /\ ToWord(input.topics[2]) \in Elements
      BY <2>4, <2>5 DEF ToField
    <3>2. FromField(ToWord(input.topics[2])) = input.topics[2]
      BY <2>6, <3>1, FieldWritten
    <3> QED BY <2>4, <2>5, <3>2
  <2>8. <<input.topics[2]>> \in Seq(Texts)
    BY <2>6
  <2>9. JsSplice(Number(first), <<input.topics[2]>>)
    BY <2>1, <2>4, <2>7
  <2> HIDE DEF first
  <2>10. SpliceOf(Number(first), <<input.topics[2]>>)
    BY <2>8, <2>9, CallSplices
  <2> QED BY <2>3, <2>4, <2>10 DEF event, first
<1>2. CASE ~ IsDeposit(event)
  <2>1. UNCHANGED nodes
    BY <1>2 DEF SpliceEvent, vars
  <2>2. ~ (Len(WordsOf(input)) = 2 /\ WordsOf(input)[1] = DepositTopic /\ event # Thrown)
    BY <1>2, DepositOrThrown
  <2> QED BY <2>1, <2>2
<1> QED
  BY <1>1, <1>2

\* A call takes what JavaScript passed or throws and leaves the tree as it was: no
\* number is coerced, no commitment reduced, no part of a batch taken.  So does the
\* log of a deposit, whose index is the low bits of its first word.
THEOREM SplicesWhatWasPassedHolds == JsSpec => SplicesWhatWasPassed
<1> DEFINE Taken ==
      /\ \A call \in Calls :
           JsSplice(call.from, call.commitments) => SpliceOf(call.from, call.commitments)
      /\ \A input \in Logs : SpliceEvent(input) =>
           LET topics == [k \in DOMAIN input.topics |-> ToWord(input.topics[k])]
           IN  IF Len(topics) = 2 /\ topics[1] = DepositTopic /\ DecodeEvent(input) # Thrown
               THEN SpliceOf(Number(DataWord([data |-> ToBytes(input.data)], 1) % (U32_MAX + 1)),
                       <<input.topics[2]>>)
               ELSE UNCHANGED nodes
<1>1. IInv /\ [JsNext]_jsVars => [Taken]_jsVars
  <2> SUFFICES ASSUME IInv PROVE Taken
    OBVIOUS
  <2>1. ASSUME NEW call \in Calls, JsSplice(call.from, call.commitments)
        PROVE  SpliceOf(call.from, call.commitments)
    BY <2>1, CallAssumption, CallSplices
  <2>2. ASSUME NEW input \in Logs, SpliceEvent(input)
        PROVE  LET topics == [k \in DOMAIN input.topics |-> ToWord(input.topics[k])]
               IN  IF Len(topics) = 2 /\ topics[1] = DepositTopic /\ DecodeEvent(input) # Thrown
                   THEN SpliceOf(Number(DataWord([data |-> ToBytes(input.data)], 1) % (U32_MAX + 1)),
                                 <<input.topics[2]>>)
                   ELSE UNCHANGED nodes
    BY <2>2, EventSplices DEF WordsOf
  <2> QED BY <2>1, <2>2
<1>2. JsSpec => []IInv
  BY JsTreeIsMerkleTree, Invariance, PTL
<1> QED
  BY <1>1, <1>2, PTL DEF JsSpec, SplicesWhatWasPassed
=============================================================================
