--------------------------- MODULE KeychainRecovery ---------------------------
(***************************************************************************)
(* A wallet that derives its notes from a keychain and keeps none of them: *)
(* recovery.rs of crates/tornadocash/keychain finds them again in the      *)
(* pools' events, and proposes the nonce of the next one.  Deposits are    *)
(* sent, mined or dropped, and synced pool by pool, in snapshots of any    *)
(* size; the wallet loses its snapshots when it restarts.                  *)
(*                                                                         *)
(* Hashes are injective: a note stands for its commitment and its          *)
(* nullifier hash.  Other wallets' notes match none of these and are left  *)
(* out.  A definition D_Suffix is D with a plausible bug.                  *)
(***************************************************************************)
EXTENDS Integers, SequencesExt

CONSTANTS
  Pools,        \* descriptions of pools: [chain, address, variant]
  GapLimit,     \* nonces without a deposit after which a scan gives up
  MaxSkip,      \* nonces a wallet may leave out
  Settles,      \* the wallet waits for its deposits before it asks for a nonce
  MaxDeposits,  \* bound on the deposits
  MaxBatches,   \* bound on the snapshots kept
  MaxNonce,     \* bound on the scan
  None

ASSUME WalletAssumption ==
  /\ GapLimit \in Nat \ {0} /\ MaxSkip \in 0..(GapLimit - 1)
  /\ Settles \in BOOLEAN
  /\ MaxDeposits \in Nat /\ MaxBatches \in Nat /\ MaxNonce \in Nat
  /\ None \notin Nat

VARIABLES
  log,        \* the pools' events, in order: [kind, contract, note]
  pending,    \* the deposits sent and not mined: [contract, note]
  batches,    \* the snapshots synced: [pool, events]
  synced,     \* how much of the log each pool is synced to
  scan,       \* the recovery in progress
  proposed    \* the nonce the last next_nonce returned, not used yet

vars == <<log, pending, batches, synced, scan, proposed>>
-----------------------------------------------------------------------------
\* A contract may have several descriptions, which differ in their paymaster or
\* their provenance.  The same address may be in use on several chains.
Contract(pool) == <<pool.chain, pool.address>>

\* notes: one signature per nonce and chain, mixed with the pool's address.
Note(nonce, pool) == [nonce |-> nonce, chain |-> pool.chain, address |-> pool.address]

Deposit(contract, note) == [kind |-> "deposit", contract |-> contract, note |-> note]
Withdrawal(contract, note) == [kind |-> "withdrawal", contract |-> contract, note |-> note]

Deposited == {e.note : e \in {x \in ToSet(log) : x.kind = "deposit"}}
Spent == {e.note : e \in {x \in ToSet(log) : x.kind = "withdrawal"}}
Sent == {tx.note : tx \in pending}

NoScan == [phase |-> "idle"]

Init ==
  /\ log = <<>>
  /\ pending = {}
  /\ batches = <<>>
  /\ synced = [pool \in Pools |-> 0]
  /\ scan = NoScan
  /\ proposed = None

\* The wallet deposits a note of the proposed nonce, or of one a little later.
Send(pool, skip) ==
  /\ proposed # None
  /\ Cardinality(Deposited) + Cardinality(pending) < MaxDeposits
  /\ pending' = pending \cup {[contract |-> Contract(pool), note |-> Note(proposed + skip, pool)]}
  /\ proposed' = None
  /\ UNCHANGED <<log, batches, synced, scan>>

\* The contract accepts a commitment once.
Accept(tx) ==
  /\ Deposit(tx.contract, tx.note) \notin ToSet(log)
  /\ log' = Append(log, Deposit(tx.contract, tx.note))
  /\ pending' = pending \ {tx}
  /\ UNCHANGED <<batches, synced, scan, proposed>>

\* A deposit reverts, or is never mined.
Drop(tx) ==
  /\ pending' = pending \ {tx}
  /\ UNCHANGED <<log, batches, synced, scan, proposed>>

Withdraw(pool, note) ==
  /\ Deposit(Contract(pool), note) \in ToSet(log)
  /\ note \notin Spent
  /\ log' = Append(log, Withdrawal(Contract(pool), note))
  /\ UNCHANGED <<pending, batches, synced, scan, proposed>>

\* The wallet syncs a pool up to some point of the log.
Sync(pool, to) ==
  /\ Len(batches) < MaxBatches
  /\ to > synced[pool]
  /\ batches' = Append(batches,
       [pool |-> pool, events |-> {e \in ToSet(SubSeq(log, synced[pool] + 1, to)) :
                                      e.contract = Contract(pool)}])
  /\ synced' = [synced EXCEPT ![pool] = to]
  /\ UNCHANGED <<log, pending, scan, proposed>>

\* The wallet starts again with nothing but its keychain.
Restart ==
  /\ batches # <<>> \/ scan # NoScan
  /\ batches' = <<>>
  /\ synced' = [pool \in Pools |-> 0]
  /\ scan' = NoScan
  /\ proposed' = None
  /\ UNCHANGED <<log, pending>>
-----------------------------------------------------------------------------
\* index: the events of each pool description, of all its batches.
Indexed_LastBatch ==
  [pool \in {b.pool : b \in ToSet(batches)} |->
     SelectSeq(batches, LAMBDA b : b.pool = pool)
       [Len(SelectSeq(batches, LAMBDA b : b.pool = pool))].events]
Indexed ==
  [pool \in {b.pool : b \in ToSet(batches)} |->
     UNION {b.events : b \in {x \in ToSet(batches) : x.pool = pool}}]

HasEvent(events, kind, note) == \E e \in events : e.kind = kind /\ e.note = note

\* Every deposit the wallet sent is in a batch, or will never be mined.
Settled ==
  /\ pending = {}
  /\ \A note \in Deposited : \E b \in ToSet(batches) : HasEvent(b.events, "deposit", note)

StartScan ==
  /\ scan = NoScan
  /\ Settles => Settled
  /\ scan' = [phase |-> "scanning", indexes |-> Indexed, nonce |-> 0, misses |-> 0,
              recovered |-> {}, last |-> None]
  /\ proposed' = None
  /\ UNCHANGED <<log, pending, batches, synced>>

Exhausted_Early == scan.misses >= GapLimit - 1
Exhausted_Late == scan.misses > GapLimit
Exhausted == scan.misses >= GapLimit

Missed_InTotal(found) == IF found = {} THEN scan.misses + 1 ELSE scan.misses
Missed(found) == IF found = {} THEN scan.misses + 1 ELSE 0

\* One nonce, in every pool: those where its note was deposited.  The notes
\* are recovered in the order of their nonces; `last` is that of the last one.
Found(nonce) ==
  {pool \in DOMAIN scan.indexes : HasEvent(scan.indexes[pool], "deposit", Note(nonce, pool))}

RecoveredNote(nonce, pool) ==
  [pool |-> pool, nonce |-> nonce,
   spent |-> HasEvent(scan.indexes[pool], "withdrawal", Note(nonce, pool))]

ScanNonce ==
  /\ scan # NoScan
  /\ ~ Exhausted
  /\ scan.nonce <= MaxNonce
  /\ LET found == Found(scan.nonce)
     IN  scan' = [phase |-> "scanning", indexes |-> scan.indexes, nonce |-> scan.nonce + 1,
                  misses |-> Missed(found),
                  recovered |-> scan.recovered \cup
                    {RecoveredNote(scan.nonce, pool) : pool \in found},
                  last |-> IF found = {} THEN scan.last ELSE scan.nonce]
  /\ UNCHANGED <<log, pending, batches, synced, proposed>>

\* next_nonce: one past the last note recovered.
NextNonce_Same == IF scan.last = None THEN 0 ELSE scan.last
NextNonce == IF scan.last = None THEN 0 ELSE scan.last + 1

EndScan ==
  /\ scan # NoScan
  /\ Exhausted
  /\ proposed' = NextNonce
  /\ scan' = NoScan
  /\ UNCHANGED <<log, pending, batches, synced>>

\* The signer fails, and the recovery with it.
SignerFails ==
  /\ scan # NoScan
  /\ ~ Exhausted
  /\ DOMAIN scan.indexes # {}
  /\ scan' = NoScan
  /\ UNCHANGED <<log, pending, batches, synced, proposed>>

Next ==
  \/ \E pool \in Pools, skip \in 0..MaxSkip : Send(pool, skip)
  \/ \E tx \in pending : Accept(tx) \/ Drop(tx)
  \/ \E pool \in Pools, note \in Deposited : Withdraw(pool, note)
  \/ \E pool \in Pools, to \in 1..Len(log) : Sync(pool, to)
  \/ Restart
  \/ StartScan \/ ScanNonce \/ EndScan \/ SignerFails

\* A scan goes on as long as the signer answers.
Fairness == WF_vars(ScanNonce \/ EndScan)

Spec == Init /\ [][Next]_vars /\ Fairness
-----------------------------------------------------------------------------
Notes == [nonce : Nat, chain : {p.chain : p \in Pools}, address : {p.address : p \in Pools}]
PoolEvents == [kind : {"deposit", "withdrawal"}, contract : {Contract(p) : p \in Pools}, note : Notes]

\* Every variable has its type; a scan never counts past its gap limit.
TypeOK ==
  /\ log \in Seq(PoolEvents)
  /\ pending \subseteq [contract : {Contract(p) : p \in Pools}, note : Notes]
  /\ batches \in Seq([pool : Pools, events : SUBSET PoolEvents])
  /\ \A b \in ToSet(batches) : b.events \subseteq ToSet(log)
  /\ synced \in [Pools -> 0..Len(log)]
  /\ scan # NoScan => scan.nonce \in Nat /\ scan.misses \in 0..GapLimit
  /\ proposed \in Nat \cup {None}

Returns == scan # NoScan /\ Exhausted

Events == UNION {scan.indexes[pool] : pool \in DOMAIN scan.indexes}

\* A note is recovered as spent if its withdrawal is in any of the batches
\* (recovery.rs: "Batches for the same pool are combined").
SpentNoticed ==
  Returns => \A r \in scan.recovered :
    r.spent = HasEvent(Events, "withdrawal", Note(r.nonce, r.pool))

\* recover returns every note whose deposit is in the batches, once, and spent
\* exactly if its withdrawal is in one of them, however the events were split
\* into batches and whichever nonces were left out.
RecoversExactly ==
  /\ Returns =>
       /\ {Note(r.nonce, r.pool) : r \in scan.recovered}
            = {e.note : e \in {x \in Events : x.kind = "deposit"}}
       /\ \A r, s \in scan.recovered : Note(r.nonce, r.pool) = Note(s.nonce, s.pool) => r = s
  /\ SpentNoticed

\* The nonce proposed is past every nonce the wallet has used, in any pool
\* (keychain/README.md: "one past the highest nonce used in any pool").
NonceUnused ==
  proposed # None => \A note \in Deposited \cup Sent : note.nonce < proposed

\* No deposit in flight repeats a commitment that its contract already has,
\* and would be rejected.
DepositsAccepted ==
  \A tx \in pending : Deposit(tx.contract, tx.note) \notin ToSet(log)
===============================================================================
