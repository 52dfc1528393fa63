-------------------------- MODULE RelayedWithdrawal --------------------------
(***************************************************************************)
(* A note's way from the pool it was written down for to the relayer that  *)
(* spends it: it is deposited, read back from its text, its withdrawal is  *)
(* paid for at a quote and proved against the pool's tree (deposit.rs,     *)
(* withdrawal.rs of crates/tornadocash/core and the inputs of the          *)
(* circuit), and RelayerClient hands the proven withdrawal to a relayer,   *)
(* whose job lands if the pool takes the call.                             *)
(*                                                                         *)
(* The pool contract, the text's alteration on its way and the relayer are *)
(* not the code's.  A definition D_Suffix is D with a plausible bug.       *)
(***************************************************************************)
EXTENDS RelayerClient, RelayerQuote, Pedersen

CONSTANTS
  Backups,        \* the notes written down, with their pools
  Withdrawn,      \* those that are withdrawn
  RelayerStatuses, GasPrices, Refunds,
  RelayedQuotes,  \* the withdrawals that are handed to a relayer, by pool and quote
  RootHistory,    \* the roots the pool remembers
  MaxDeposits     \* bound on the deposits of others after a proof was made

\* Those to whom a withdrawal may pay.
Addresses == {"recipient", "zero"} \cup {status.rewardAccount : status \in RelayerStatuses}

\* A note is written down for a pool with a denomination below WORD.
ASSUME BackupsAssumption ==
  /\ \A b \in Backups :
       /\ b.note \in Notes
       /\ b.pool # NoPool
       /\ b.pool.chainId \in Nat /\ b.pool.asset.native \in BOOLEAN /\ b.pool.asset.decimals \in Nat
       /\ IsNumeral(b.pool.amountWei)
       /\ Units(b.pool) \in 0..(WORD - 1)
  /\ NoPool \notin Range(POOLS)
  /\ RootHistory \in Nat /\ MaxDeposits \in Nat
  /\ None \notin {"none", "InvalidFormat", "InvalidChainId", "InvalidHex"}
  /\ None \notin Int /\ None \notin Seq(Int \cup Addresses)

\* "Pools are uniquely defined by their chain_id, asset symbol, and amount" (pool.rs).
ASSUME UniquePools ==
  \A b \in Backups, p \in Range(POOLS) :
    p.chainId = b.pool.chainId /\ Symbol(p) = Symbol(b.pool) /\ Amount(p) = Amount(b.pool) => p = b.pool

\* What is a u128, a u64 or an amount of the catalogue does not overflow a U256 in the
\* formula for a chain's own currency.
ASSUME WidthsAssumption ==
  /\ GasPrices \subseteq Nat /\ Refunds \subseteq 0..(WORD - 1)
  /\ \A status \in RelayerStatuses :
       /\ status.serviceFee \in Int
       /\ \A symbol \in DOMAIN status.ethPrices : status.ethPrices[symbol] \in Nat
  /\ \A pool \in Range(POOLS) :
       /\ Units(pool) \in 0..(WORD - 1) /\ Scale(pool) \in 1..(WORD - 1)
       /\ \A status \in RelayerStatuses, gasPrice \in GasPrices :
            Expense(gasPrice) + FeePercent(status, pool) < WORD

VARIABLES
  stage,      \* how far the note has come
  backup,     \* the note and the pool it was written down for
  allowance,  \* what the pool may take of the depositor's tokens
  leaf,       \* the commitment the deposit put into the pool's tree
  deposits,   \* the deposits of others since the proof was made
  imported,   \* the error of reading the text, and the note and pool it names
  payer,      \* the payer of the withdrawal, with the quote's error
  quoted,     \* what the quote was made from
  proven      \* the error of proving, the withdrawal and its proof

wvars == <<stage, backup, allowance, leaf, deposits, imported, payer, quoted, proven>>

NoPayer == Payer("zero", 0, 0)
Unproven == [error |-> None, root |-> 0, proof |-> None]
Unread == [error |-> None, note |-> None, pool |-> NoPool]

WithdrawalInit ==
  /\ Init
  /\ stage = "written" /\ backup \in Backups
  /\ allowance = 0 /\ leaf = None /\ deposits = 0
  /\ imported = Unread
  /\ payer = NoPayer /\ quoted = None
  /\ proven = Unproven
-----------------------------------------------------------------------------
(* Notes. *)

Hashed == [bits \in UNION {{Preimage(note), note.nullifier} : note \in Notes} |-> PedersenHash(bits)]
Commitment(note) == Hashed[Preimage(note)]
NullifierHash(note) == Hashed[note.nullifier]

\* Blake-256 gives a base point for every segment of a note.
ASSUME SegmentsAssumption == Segments(2 * SECRET_BITS) <= Len(Candidates)
-----------------------------------------------------------------------------
(* Deposit. *)

\* approval, for a pool of tokens.
Approval(pool) == [target |-> pool.asset.address, spender |-> pool.address, amount |-> Units(pool)]

\* call
DepositCall(pool, note) ==
  [target |-> pool.address,
   value |-> IF pool.asset.native THEN Units(pool) ELSE 0,
   commitment |-> Commitment(note)]

\* The contract: a pool takes its denomination, from the call or from the depositor.
TakesDeposit(pool, call) ==
  /\ call.target = pool.address
  /\ IF pool.asset.native THEN call.value = Units(pool)
     ELSE call.value = 0 /\ allowance >= Units(pool)

Approve ==
  /\ stage = "written" /\ ~ backup.pool.asset.native
  /\ stage' = "approved"
  /\ allowance' = IF Approval(backup.pool).spender = backup.pool.address
                  THEN Approval(backup.pool).amount ELSE 0
  /\ UNCHANGED <<backup, leaf, deposits, imported, payer, quoted, proven>>

Deposit ==
  /\ stage = (IF backup.pool.asset.native THEN "written" ELSE "approved")
  /\ stage' = "deposited"
  /\ LET call == DepositCall(backup.pool, backup.note)
     IN  leaf' = IF TakesDeposit(backup.pool, call) THEN call.commitment ELSE None
  /\ UNCHANGED <<backup, allowance, deposits, imported, payer, quoted, proven>>
-----------------------------------------------------------------------------
(* The note's text, as it comes back to the wallet. *)

WrittenDown == Display(FromPool(backup.note, backup.pool))

\* With its 0x or without.
Copies(text) == {text, [text EXCEPT !.prefixed = FALSE]}
\* With other hex digits, as many as there were: the text has no checksum.
Miscopies(text) == {[text EXCEPT !.bits = Preimage(note)] : note \in Notes} \ {text}
\* With the chain, the symbol or the amount of other pools, garbled, or cut.
Chains == {pool.chainId : pool \in Range(POOLS)}
Symbols == {Symbol(pool) : pool \in Range(POOLS)}
Amounts == {Amount(pool) : pool \in Range(POOLS)}
Alterations(text) ==
  {[text EXCEPT !.chainId = chain] : chain \in (Chains \cup {Garbled}) \ {text.chainId}}
    \cup {[text EXCEPT !.symbol = symbol] : symbol \in Symbols \ {text.symbol}}
    \cup {[text EXCEPT !.amount = amount] : amount \in (Amounts \cup {Append(text.amount, 0)}) \ {text.amount}}
    \cup {[text EXCEPT !.tag = "typhoon"], [text EXCEPT !.bits = Front(@)], [text EXCEPT !.bits = Garbled],
          [text EXCEPT !.parts = 6], [text EXCEPT !.parts = 4]}

\* from_str, and from_note with what it read.
Read(text) ==
  IF ParseError(text) # "none" THEN [Unread EXCEPT !.error = ParseError(text)]
  ELSE [error |-> "none", note |-> FromStr(text).note, pool |-> FromNote(FromStr(text))]

\* What has become of the text is the stage: imported, miscopied or altered.
Import(text, became) ==
  /\ stage = "deposited"
  /\ stage' = became
  /\ imported' = Read(text)
  /\ UNCHANGED <<backup, allowance, leaf, deposits, payer, quoted, proven>>
-----------------------------------------------------------------------------
(* The payer. *)

MayWithdraw == stage = "imported" /\ backup \in Withdrawn /\ imported.pool # NoPool

\* new: the recipient submits the withdrawal.
PayNobody ==
  /\ MayWithdraw
  /\ stage' = "paid"
  /\ UNCHANGED <<backup, allowance, leaf, deposits, imported, payer, quoted, proven>>

\* Relayer::quote and with_payer.
PayRelayer(status, gasPrice, refund) ==
  /\ MayWithdraw
  /\ payer' = Quote(status, imported.pool, gasPrice, refund)
  /\ quoted' = [status |-> status, gasPrice |-> gasPrice, refund |-> refund]
  /\ stage' = IF payer'.error = "none" THEN "paid" ELSE "refused"
  /\ UNCHANGED <<backup, allowance, leaf, deposits, imported, proven>>
-----------------------------------------------------------------------------
(* The proof. *)

CircuitInputs(merkleProof) ==
  [root |-> merkleProof.root, nullifierHash |-> NullifierHash(imported.note), recipient |-> "recipient",
   relayer |-> payer.address, fee |-> payer.fee, refund |-> payer.refund,
   nullifier |-> imported.note.nullifier, secret |-> imported.note.secret, path |-> merkleProof.path]

\* as_signals: the numbers are elements of the field; addresses always are.
AreSignals(inputs) == {inputs.root, inputs.nullifierHash, inputs.fee, inputs.refund} \subseteq Fr

CircuitHash == [bits \in DOMAIN Hashed |-> PedersenReference(bits)]

\* The circuit: the note's commitment is below the root along the path.
HasWitness(inputs, merkleProof) ==
  /\ inputs.nullifierHash = CircuitHash[inputs.nullifier]
  /\ CircuitHash[inputs.nullifier \o inputs.secret] = merkleProof.leaf
  /\ inputs.path = "path"

PublicInputs(inputs) == <<inputs.root, inputs.nullifierHash, inputs.recipient, inputs.relayer, inputs.fee, inputs.refund>>

\* prove
RefundError_Dropped(pool) == FALSE
RefundError(pool) == pool.asset.native /\ payer.refund # 0

ProofError(merkleProof) ==
  IF RefundError(imported.pool) THEN "NonzeroRefundForNativeAsset"
  ELSE IF merkleProof.leaf # Commitment(imported.note) THEN "ProofLeafMismatch"
  ELSE IF ~ AreSignals(CircuitInputs(merkleProof)) THEN "ToField"
  ELSE IF ~ HasWitness(CircuitInputs(merkleProof), merkleProof) THEN "Circuit" ELSE "none"

\* The proof of a leaf the session's tree has; others deposit after the proof.
MerkleProofs ==
  IF leaf = None THEN {} ELSE [leaf : {leaf, (leaf + 1) % Q}, path : {"path", "other path"}, root : {0}]

Prove(merkleProof) ==
  /\ stage = "paid"
  /\ stage' = "proven"
  /\ proven' = [error |-> ProofError(merkleProof), root |-> merkleProof.root,
                proof |-> IF ProofError(merkleProof) = "none"
                          THEN PublicInputs(CircuitInputs(merkleProof)) ELSE None]
  /\ UNCHANGED <<backup, allowance, leaf, deposits, imported, payer, quoted>>
-----------------------------------------------------------------------------
(* The withdrawal. *)

\* into_solidity_proof: the elements in the order of the verifier's precompile.
SolidityProof(proof) ==
  [elements |-> <<"a.x", "a.y", "b.x.c1", "b.x.c0", "b.y.c1", "b.y.c0", "c.x", "c.y">>, of |-> proof]

\* call, and the same withdrawal as a relayer is asked for it and submits it.
Arguments == <<proven.root, NullifierHash(imported.note), "recipient", payer.address, payer.fee, payer.refund>>
Call == [target |-> imported.pool.address, value |-> payer.refund,
         proof |-> SolidityProof(proven.proof), args |-> Arguments]
WithdrawRequest == [contract |-> imported.pool.address, proof |-> SolidityProof(proven.proof), args |-> Arguments]
RelayerCall(request) ==
  [target |-> request.contract, value |-> request.args[6], proof |-> request.proof, args |-> request.args]

\* The contract's withdraw.
KnownRoot(root) == root + RootHistory > deposits
Verifies(proof, args) ==
  /\ proof.elements = <<"a.x", "a.y", "b.x.c1", "b.x.c0", "b.y.c1", "b.y.c0", "c.x", "c.y">>
  /\ proof.of = args
TakesWithdrawal(pool, call) ==
  /\ call.target = pool.address
  /\ call.args[5] <= Units(pool)
  /\ KnownRoot(call.args[1])
  /\ Verifies(call.proof, call.args)
  /\ IF pool.asset.native THEN call.value = 0 /\ call.args[6] = 0 ELSE call.value = call.args[6]

\* A deposit of another makes a new root, and the pool forgets its oldest.
OthersDeposit ==
  /\ stage = "proven" /\ proven.error = "none"
  /\ deposits < MaxDeposits
  /\ deposits' = deposits + 1
  /\ UNCHANGED <<stage, backup, allowance, leaf, imported, payer, quoted, proven>>

\* RelayerClient with this withdrawal: a job lands when the pool takes its call.
Relayed == stage = "proven" /\ proven.error = "none" /\ <<imported.pool.address, quoted>> \in RelayedQuotes
Relay ==
  /\ Relayed
  /\ Next
  /\ landed' # landed => TakesWithdrawal(backup.pool, RelayerCall(WithdrawRequest))

WithdrawalNext ==
  \/ /\ \/ Approve \/ Deposit
        \/ \E text \in Copies(WrittenDown) : Import(text, "imported")
        \/ \E text \in Miscopies(WrittenDown) : Import(text, "miscopied")
        \/ \E text \in Alterations(WrittenDown) : Import(text, "altered")
        \/ PayNobody
        \/ \E status \in RelayerStatuses, gasPrice \in GasPrices, refund \in Refunds :
             PayRelayer(status, gasPrice, refund)
        \/ \E merkleProof \in MerkleProofs : Prove(merkleProof)
        \/ OthersDeposit
     /\ UNCHANGED vars
  \/ Relay /\ UNCHANGED wvars

WithdrawalSpec == WithdrawalInit /\ [][WithdrawalNext]_<<vars, wvars>> /\ Fairness
-----------------------------------------------------------------------------
\* Every variable has its type, and what was read is a note with its pool.
WithdrawalTypeOK ==
  /\ TypeOK
  /\ stage \in {"written", "approved", "deposited", "imported", "miscopied", "altered",
                "paid", "refused", "proven"}
  /\ backup \in Backups
  /\ allowance \in 0..(WORD - 1) /\ leaf \in Fr \cup {None} /\ deposits \in 0..MaxDeposits
  /\ imported.error = "none" => imported.note \in Notes /\ imported.pool \in Range(POOLS) \cup {NoPool}
  /\ imported.error # "none" => imported.pool = NoPool
  /\ payer.fee \in 0..(WORD - 1) /\ payer.refund \in 0..(WORD - 1)
  /\ proven.error = "none" <=> proven.proof # None

\* What a backup's own text gives: its note, and its pool if the catalogue has it.
Found(b) ==
  [error |-> "none", note |-> b.note, pool |-> IF b.pool \in Range(POOLS) THEN b.pool ELSE NoPool]

\* A note's text, with its 0x or without, gives the note and the pool it was written
\* for.  Of the hex digits nothing is checked but their number: with others, another
\* note of the same pool is read.  A text altered elsewhere is refused, or gives the
\* note with another pool or none.  The amount by which a text names its pool is exact,
\* however many decimals the asset has (Display, from_str, from_note, format_amount).
FindsItsPool ==
  /\ WritesAmount(Amount(backup.pool), backup.pool.amountWei, backup.pool.asset.decimals)
  /\ stage \in {"imported", "paid", "refused", "proven"} => imported = Found(backup)
  /\ stage = "miscopied" =>
       \E note \in Notes \ {backup.note} : imported = [Found(backup) EXCEPT !.note = note]
  /\ stage = "altered" =>
       imported.error # "none" \/ (imported.note = backup.note /\ imported.pool # backup.pool)

\* A commitment and a nullifier hash are the Pedersen hashes of the circuit, a sum over
\* all windows, for every note (commitment, nullifier_hash, pedersen_hash).
CommitmentIsReference ==
  /\ Commitment(backup.note) = CircuitHash[Preimage(backup.note)]
  /\ NullifierHash(backup.note) = CircuitHash[backup.note.nullifier]

\* The fee of a quote pays for the gas, the refund and the relayer's share, without
\* wrapping; a quote is refused as overflowing only when a sum or product of the
\* formula is beyond a word (quote).
QuoteCovers ==
  quoted # None =>
    LET q == quoted
        owed == (Expense(q.gasPrice) + q.refund) * Scale(imported.pool)
        price == q.status.ethPrices[Symbol(imported.pool)]
    IN  /\ payer.error = "none" => IsFee(payer.fee, q.status, imported.pool, q.gasPrice, q.refund)
        /\ payer.error = "QuoteOverflow" =>
             owed >= WORD \/ owed \div price + FeePercent(q.status, imported.pool) >= WORD

\* A deposit that was sent is taken; and the pool takes a withdrawal that was proved,
\* sent by the recipient or by a relayer, unless the deposits of others made it forget
\* the root, or the fee is more than the note ("Outdated proofs are rejected by the
\* contract", prove).
Withdrawable ==
  /\ stage \notin {"written", "approved"} => leaf = Commitment(backup.note)
  /\ stage = "proven" /\ proven.error = "none" =>
       LET taken == deposits < RootHistory /\ payer.fee <= Units(backup.pool)
       IN  /\ TakesWithdrawal(backup.pool, Call) <=> taken
           /\ TakesWithdrawal(backup.pool, RelayerCall(WithdrawRequest)) <=> taken
==============================================================================
