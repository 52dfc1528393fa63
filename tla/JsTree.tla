------------------------------- MODULE JsTree -------------------------------
(***************************************************************************)
(* A Merkle tree in the hands of JavaScript (crates/tornadocash/wasm): a   *)
(* caller splices commitments written in hex at an index that is a number, *)
(* and decodes logs and splices the deposits among them.  Every argument   *)
(* is converted before the core's tree is touched, and an error of the     *)
(* conversion or of the core is thrown.                                    *)
(***************************************************************************)
EXTENDS PoolTree, JsValues

CONSTANTS
  Calls,                \* the arguments callers pass to `splice`
  Logs,                 \* and to `decodeEvent`
  DepositTopic, WithdrawalTopic,
  None,
  LeafOf(_)             \* the leaf of a field element

BatchOf(elements) == [k \in DOMAIN elements |-> LeafOf(elements[k])]

\* decode_commitments: all of them or an error.
Decoded(texts) ==
  LET elements == [k \in DOMAIN texts |-> ToField(texts[k])]
  IN  IF Contains(elements, Thrown) THEN Thrown ELSE elements

\* Texts of any kind are passed, and Batches has the leaves that they write.
ASSUME CallAssumption ==
  /\ \A call \in Calls :
       /\ call.commitments \in Seq(Texts)
       /\ Decoded(call.commitments) # Thrown => BatchOf(Decoded(call.commitments)) \in Batches
  /\ \A input \in Logs : input.topics \in Seq(Texts)
  /\ \A e \in Elements : BatchOf(<<e>>) \in Batches

VARIABLE thrown         \* the last call threw an Error, not yet caught
jsVars == <<vars, thrown>>

-----------------------------------------------------------------------------
MayCall == Idle /\ ~ thrown
Throw == thrown' = TRUE /\ UNCHANGED vars

\* MerkleTree.splice; no leaves are no error, wherever they go.
JsSplice(from, texts) ==
  LET index == ToU32(from)
      elements == Decoded(texts)
      batch == BatchOf(elements)
  IN  /\ MayCall
      /\ \/ (index = Thrown \/ elements = Thrown) /\ Throw
         \/ /\ index # Thrown /\ elements # Thrown
            /\ thrown' = (batch # <<>> /\ ~ Fits(index, batch))
            /\ Splice(index, batch) \/ Refuse(index, batch)
-----------------------------------------------------------------------------
\* LogInput::into_log
IntoLog(input) ==
  LET topics == [k \in DOMAIN input.topics |-> ToWord(input.topics[k])]
      block == IF input.blockNumber = Undefined THEN None ELSE ToU64(input.blockNumber)
      data == ToBytes(input.data)
  IN  IF Contains(topics, Thrown) \/ data = Thrown \/ Len(topics) > 4 \/ block = Thrown
      THEN Thrown
      ELSE [topics |-> topics, data |-> data, block |-> block]

DataWord(log, k) == BigEndian(SubSeq(log.data, (k - 1) * WORD_BYTES + 1, k * WORD_BYTES))

\* Solidity's uint32 is decoded without validation: of the word its low bits are kept.
LeafIndex(log) == DataWord(log, 1) % (U32_MAX + 1)

\* SyncEvent::try_from(&Log).  A deposit's data are the leaf's index and a time, a
\* withdrawal's the recipient, the nullifier hash and the fee.
SyncEventOf(log) ==
  LET words == Len(log.data) \div WORD_BYTES
      shaped(data) == Len(log.topics) = 2 /\ words >= data
  IN  IF log.topics = <<>> \/ log.topics[1] \notin {DepositTopic, WithdrawalTopic} THEN Undefined
      ELSE IF log.block = None THEN Thrown
      ELSE IF log.topics[1] = DepositTopic
      THEN IF shaped(2) /\ log.topics[2] \in Elements
           THEN [kind |-> "deposit", commitment |-> log.topics[2],
                 leafIndex |-> LeafIndex(log), block |-> log.block]
           ELSE Thrown
      ELSE IF shaped(3) /\ DataWord(log, 2) \in Elements
           THEN [kind |-> "withdrawal", nullifierHash |-> DataWord(log, 2), block |-> log.block]
           ELSE Thrown

\* decode_event, as a plain object, Undefined or an Error.
DecodeEvent(input) ==
  LET log == IntoLog(input)
      event == IF log = Thrown THEN Thrown ELSE SyncEventOf(log)
  IN  IF event \in {Thrown, Undefined} THEN event
      ELSE IF event.kind = "deposit"
      THEN [kind |-> "deposit", commitment |-> FromField(event.commitment),
            leafIndex |-> Number(event.leafIndex), blockNumber |-> BigInt(event.block)]
      ELSE [kind |-> "withdrawal", nullifierHash |-> FromField(event.nullifierHash),
            blockNumber |-> BigInt(event.block)]

IsDeposit(event) == IF event \in {Thrown, Undefined} THEN FALSE ELSE event.kind = "deposit"

\* A caller splices a decoded deposit where it belongs.
SpliceEvent(input) ==
  LET event == DecodeEvent(input)
  IN  \/ IsDeposit(event) /\ JsSplice(event.leafIndex, <<event.commitment>>)
      \/ ~ IsDeposit(event) /\ MayCall /\ thrown' = (event = Thrown) /\ UNCHANGED vars

Catch == thrown /\ thrown' = FALSE /\ UNCHANGED vars
-----------------------------------------------------------------------------
JsInit == Init /\ thrown = FALSE

JsNext ==
  \/ \E call \in Calls : JsSplice(call.from, call.commitments)
  \/ \E input \in Logs : SpliceEvent(input)
  \/ Catch
  \/ (PushZero \/ HashLevel) /\ UNCHANGED thrown

JsSpec == JsInit /\ [][JsNext]_jsVars
-----------------------------------------------------------------------------
\* The elements that texts write, each in the one way of `0x` and all its bytes.
Canonical == [e \in Elements |-> FromField(e)]
Written(texts) == [k \in DOMAIN texts |-> {e \in Elements : Canonical[e] = texts[k]}]
Meant(index, texts) ==
  [k \in 1..AtLeast(index + Len(texts), Len(nodes[0])) |->
     IF k \in (index + 1)..(index + Len(texts))
     THEN LeafOf(CHOOSE e \in Written(texts)[k - index] : TRUE) ELSE nodes[0][k]]
IsMeant(from, texts) ==
  /\ from.type = "number" /\ from.value \in 0..U32_MAX
  /\ \A elements \in Range(Written(texts)) : elements # {}
  /\ texts # <<>> => from.value <= Len(nodes[0]) /\ from.value + Len(texts) <= Capacity

SpliceOf(from, texts) ==
  IF IsMeant(from, texts)
  THEN ~ thrown' /\ nodes'[0] = IF texts = <<>> THEN nodes[0] ELSE Meant(from.value, texts)
  ELSE thrown' /\ UNCHANGED nodes

\* The leaves a caller passes are the leaves the tree gets, at the index it passes,
\* and no other leaf changes; or an Error is thrown and the tree is as it was: no
\* number is coerced, no commitment reduced, and no part of a batch taken
\* (merkle_tree.rs: "The complete batch is validated before any mutation").  The
\* commitment of a deposit's log goes likewise to the index that the low bits of the
\* log's first word write: what stands above them, which no pool writes, is lost.
SplicesWhatWasPassed ==
  [][/\ \A call \in Calls :
          JsSplice(call.from, call.commitments) => SpliceOf(call.from, call.commitments)
     /\ \A input \in Logs : SpliceEvent(input) =>
          LET topics == [k \in DOMAIN input.topics |-> ToWord(input.topics[k])]
          IN  IF Len(topics) = 2 /\ topics[1] = DepositTopic /\ DecodeEvent(input) # Thrown
              THEN SpliceOf(Number(DataWord([data |-> ToBytes(input.data)], 1) % (U32_MAX + 1)),
                            <<input.topics[2]>>)
              ELSE UNCHANGED nodes]_jsVars
=============================================================================
