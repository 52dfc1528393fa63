------------------------ MODULE KeychainRecoveryProofs ------------------------
(***************************************************************************)
(* A wallet that waits for its deposits before it asks for a nonce never   *)
(* uses one twice, for every set of pools, every gap limit and every       *)
(* order of deposits, snapshots, scans and restarts, as long as it leaves  *)
(* out fewer nonces than the gap limit.                                    *)
(***************************************************************************)
EXTENDS KeychainRecovery, TLAPS

\* Every window of GapLimit nonces below a note's holds that of a deposit.
Gapless == \A note \in Deposited \cup Sent : \A k \in 0..note.nonce :
             k < GapLimit \/ \E d \in Deposited : k - GapLimit <= d.nonce /\ d.nonce < k

\* At most one deposit is in flight, and none while the wallet has a nonce or
\* looks for one; its nonce is past those of the deposits mined.
OneInFlight ==
  /\ (proposed # None \/ scan # NoScan) => pending = {}
  /\ scan # NoScan => proposed = None
  /\ \A tx, u \in pending : tx = u
  /\ \A tx \in pending, d \in Deposited : d.nonce < tx.note.nonce

\* The nonce proposed follows that of a deposit, if any, and all of them.
ProposedFollows ==
  proposed # None =>
    /\ proposed = 0 \/ \E d \in Deposited : d.nonce = proposed - 1
    /\ \A d \in Deposited : d.nonce < proposed

\* A scan has looked at the deposits of all nonces below its own, and counts
\* the nonces since the last one found.
ScanFollows ==
  scan # NoScan =>
    /\ scan = [phase |-> "scanning", indexes |-> scan.indexes, nonce |-> scan.nonce,
               misses |-> scan.misses, recovered |-> scan.recovered, last |-> scan.last]
    /\ scan.nonce \in Nat
    /\ scan.misses \in Nat
    /\ scan.last \in Nat \cup {None}
    /\ scan.last = None => scan.misses = scan.nonce
    /\ scan.last # None => /\ scan.nonce = scan.last + scan.misses + 1
                           /\ \E d \in Deposited : d.nonce = scan.last
    /\ \A d \in Deposited : d.nonce < scan.nonce => scan.last # None /\ d.nonce <= scan.last

\* Every deposit is in the index of a pool that derives its note, and no index
\* has a deposit that was not mined.
IndexesComplete ==
  scan # NoScan =>
    /\ DOMAIN scan.indexes \subseteq Pools
    /\ \A pool \in DOMAIN scan.indexes : scan.indexes[pool] \subseteq ToSet(log)
    /\ \A d \in Deposited : \E pool \in DOMAIN scan.indexes :
         HasEvent(scan.indexes[pool], "deposit", d) /\ d = Note(d.nonce, pool)

\* The indexes are of a pool's own events, and a scan has recovered what was deposited of
\* the nonces below its own, and nothing else.
RecoveredFollows ==
  scan # NoScan =>
    /\ \A pool \in DOMAIN scan.indexes : \A e \in scan.indexes[pool] : e.contract = Contract(pool)
    /\ \A r \in scan.recovered :
         /\ r.nonce \in 0..(scan.nonce - 1)
         /\ r.pool \in Found(r.nonce)
         /\ r = RecoveredNote(r.nonce, r.pool)
    /\ \A n \in 0..(scan.nonce - 1) : \A pool \in Found(n) : RecoveredNote(n, pool) \in scan.recovered

\* A pool's events are of notes that the pool derives.
NotesOfPools ==
  /\ \A e \in ToSet(log) :
       \A pool \in Pools : e.contract = Contract(pool) => e.note = Note(e.note.nonce, pool)
  /\ \A tx \in pending : \A pool \in Pools :
       tx.contract = Contract(pool) => tx.note = Note(tx.note.nonce, pool)
  /\ \A b \in ToSet(batches) : \A e \in b.events : e.contract = Contract(b.pool)

Inv ==
  /\ TypeOK
  /\ Gapless
  /\ OneInFlight
  /\ ProposedFollows
  /\ ScanFollows
  /\ IndexesComplete
  /\ RecoveredFollows
  /\ NotesOfPools

-----------------------------------------------------------------------------
\* The elements of an appended sequence.
LEMMA AppendSet ==
  ASSUME NEW S, NEW s \in Seq(S), NEW e \in S
  PROVE  /\ ToSet(Append(s, e)) = ToSet(s) \cup {e}
         /\ Append(s, e) \in Seq(S)
         /\ Len(Append(s, e)) = Len(s) + 1
<1> DEFINE t == Append(s, e)
<1>1. t \in Seq(S) /\ Len(t) = Len(s) + 1 /\ DOMAIN t = 1..(Len(s) + 1) /\ DOMAIN s = 1..Len(s)
      /\ Len(s) \in Nat
  OBVIOUS
<1>2. \A i \in 1..Len(s) : t[i] = s[i]
  OBVIOUS
<1>3. t[Len(s) + 1] = e
  OBVIOUS
<1> HIDE DEF t
<1>4. {t[i] : i \in DOMAIN t} = {s[i] : i \in DOMAIN s} \cup {e}
  <2>1. \A i \in DOMAIN t : i \in DOMAIN s \/ i = Len(s) + 1
    BY <1>1
  <2>2. DOMAIN s \subseteq DOMAIN t /\ Len(s) + 1 \in DOMAIN t
    BY <1>1
  <2> QED
    BY <2>1, <2>2, <1>1, <1>2, <1>3
<1> QED
  BY <1>1, <1>4 DEF ToSet, t

\* What is in the log stays there: only the notes of a new event are new.
LEMMA LogGrows ==
  ASSUME TypeOK, NEW e \in PoolEvents, log' = Append(log, e)
  PROVE  /\ ToSet(log)' = ToSet(log) \cup {e}
         /\ log' \in Seq(PoolEvents)
         /\ Len(log') = Len(log) + 1
         /\ e.kind = "deposit" => Deposited' = Deposited \cup {e.note}
         /\ e.kind = "withdrawal" => Deposited' = Deposited
<1>1. ToSet(log)' = ToSet(log) \cup {e} /\ log' \in Seq(PoolEvents) /\ Len(log') = Len(log) + 1
  BY AppendSet DEF TypeOK
<1>2. Deposited' = {x.note : x \in {y \in ToSet(log) \cup {e} : y.kind = "deposit"}}
  BY <1>1 DEF Deposited
<1> QED
  BY <1>1, <1>2 DEF Deposited

\* The elements of a sequence over a set are in the set.
LEMMA ElementsInSet ==
  ASSUME NEW S, NEW s \in Seq(S)
  PROVE  \A e \in ToSet(s) : e \in S
BY DEF ToSet

\* The elements of a part of a sequence are among its own.
LEMMA SubSeqSet ==
  ASSUME NEW S, NEW s \in Seq(S), NEW a \in Nat, a >= 1, NEW b \in 0..Len(s)
  PROVE  ToSet(SubSeq(s, a, b)) \subseteq ToSet(s)
<1> DEFINE t == SubSeq(s, a, b)
<1>1. \A i \in DOMAIN t : a + i - 1 \in DOMAIN s /\ t[i] = s[a + i - 1]
  OBVIOUS
<1> QED
  BY <1>1 DEF ToSet

\* The notes deposited are notes of the pools, in the log.
LEMMA DepositedNotes ==
  ASSUME TypeOK
  PROVE  /\ Deposited \subseteq Notes
         /\ Sent \subseteq Notes
         /\ \A e \in ToSet(log) : e \in PoolEvents
         /\ \A n \in Notes : n.nonce \in Nat
<1>1. \A e \in ToSet(log) : e \in PoolEvents
  BY DEF TypeOK, ToSet
<1>2. \A e \in PoolEvents : e.note \in Notes
  BY DEF PoolEvents
<1>3. Deposited \subseteq Notes
  BY <1>1, <1>2 DEF Deposited
<1>4. \A tx \in pending : tx.note \in Notes
  BY DEF TypeOK
<1>5. Sent \subseteq Notes
  BY <1>4 DEF Sent
<1>6. \A n \in Notes : n.nonce \in Nat
  BY DEF Notes
<1> QED
  BY <1>1, <1>3, <1>5, <1>6

\* What a scan has found and recovered depends on nothing but the scan.
LEMMA RecoveredKept ==
  ASSUME RecoveredFollows, UNCHANGED scan
  PROVE  RecoveredFollows'
<1>1. \A n : Found(n)' = Found(n)
  BY DEF Found
<1>2. \A n, pool : RecoveredNote(n, pool)' = RecoveredNote(n, pool)
  BY DEF RecoveredNote
<1> QED
  BY <1>1, <1>2 DEF RecoveredFollows

\* Initially nothing was deposited, sent, synced or proposed.
LEMMA InitInv == Init => Inv
<1> SUFFICES ASSUME Init PROVE Inv
  OBVIOUS
<1>1. ToSet(log) = {} /\ ToSet(batches) = {} /\ Len(log) = 0
  BY DEF Init, ToSet
<1>2. Deposited = {} /\ Sent = {}
  BY <1>1 DEF Init, Deposited, Sent
<1>3. TypeOK
  BY <1>1 DEF Init, TypeOK
<1> QED
  BY <1>1, <1>2, <1>3 DEF Init, Inv, Gapless, OneInFlight, ProposedFollows, ScanFollows,
     IndexesComplete, RecoveredFollows, NotesOfPools

\* A deposit of the proposed nonce, or of one less than GapLimit later, follows
\* all others and leaves no gap as long as GapLimit.
LEMMA SendInv ==
  ASSUME Inv, Settles, NEW pool \in Pools, NEW skip \in 0..MaxSkip, Send(pool, skip)
  PROVE  Inv'
<1> DEFINE note == Note(proposed + skip, pool)
           tx == [contract |-> Contract(pool), note |-> note]
<1>1. proposed \in Nat /\ skip \in Nat /\ skip < GapLimit /\ GapLimit \in Nat
  BY WalletAssumption DEF Send, Inv, TypeOK
<1>2. note \in Notes /\ note.nonce = proposed + skip
  BY <1>1 DEF Note, Notes
<1>3. pending = {} /\ scan = NoScan
  BY DEF Inv, OneInFlight, Send
<1>4. pending' = {tx} /\ Sent' = {note} /\ Deposited' = Deposited
  BY <1>3 DEF Send, Sent, Deposited
<1>5. TypeOK'
  BY <1>2, <1>4 DEF Send, Inv, TypeOK
<1>6. Gapless'
  <2> SUFFICES ASSUME NEW k \in 0..note.nonce
               PROVE k < GapLimit \/ \E d \in Deposited : k - GapLimit <= d.nonce /\ d.nonce < k
    BY <1>4 DEF Inv, Gapless
  <2>1. CASE proposed = 0
    BY <2>1, <1>1, <1>2
  <2>2. CASE proposed # 0
    <3> PICK d \in Deposited : d.nonce = proposed - 1
      BY <2>2 DEF Inv, ProposedFollows, Send
    <3>1. CASE k < proposed
      <4>1. k \in 0..d.nonce
        BY <3>1, <1>1, <1>2
      <4> QED
        BY <4>1 DEF Inv, Gapless
    <3>2. CASE k >= proposed
      BY <3>2, <1>1, <1>2
    <3> QED
      BY <3>1, <3>2, <1>1, <1>2
  <2> QED
    BY <2>1, <2>2
<1>7. OneInFlight'
  <2>1. \A d \in Deposited : d.nonce < proposed + skip
    BY <1>1, DepositedNotes DEF Inv, ProposedFollows, Send
  <2> QED
    BY <1>2, <1>3, <1>4, <2>1 DEF Send, OneInFlight
<1>8. ProposedFollows' /\ ScanFollows' /\ IndexesComplete' /\ RecoveredFollows'
  BY <1>3 DEF Send, ProposedFollows, ScanFollows, IndexesComplete, RecoveredFollows
<1>9. NotesOfPools'
  <2>1. \A p \in Pools : tx.contract = Contract(p) => tx.note = Note(tx.note.nonce, p)
    BY <1>2 DEF Note, Contract
  <2> QED
    BY <1>4, <2>1 DEF Send, Inv, NotesOfPools
<1> QED
  BY <1>5, <1>6, <1>7, <1>8, <1>9 DEF Inv

\* A deposit that is mined was the only one in flight: its nonce is past those
\* of all others.
LEMMA AcceptInv ==
  ASSUME Inv, Settles, NEW tx \in pending, Accept(tx)
  PROVE  Inv'
<1> DEFINE e == Deposit(tx.contract, tx.note)
<1>1. e \in PoolEvents /\ e.kind = "deposit" /\ e.note = tx.note /\ tx.note \in Notes
      /\ e.contract = tx.contract
  BY DEF Inv, TypeOK, Deposit, PoolEvents
<1>2. /\ ToSet(log)' = ToSet(log) \cup {e}
      /\ log' \in Seq(PoolEvents)
      /\ Len(log') = Len(log) + 1
      /\ Deposited' = Deposited \cup {tx.note}
  BY <1>1, LogGrows DEF Accept, Inv
<1>3. pending' = {} /\ Sent' = {} /\ tx.note \in Sent
  BY DEF Accept, Inv, OneInFlight, Sent
<1>4. proposed = None /\ scan = NoScan
  BY DEF Inv, OneInFlight
<1>5. TypeOK'
  <2>1. synced \in [Pools -> 0..(Len(log) + 1)]
    BY DEF Inv, TypeOK
  <2> QED
    BY <1>2, <1>3, <1>4, <2>1 DEF Accept, Inv, TypeOK
<1>6. Gapless'
  BY <1>2, <1>3 DEF Inv, Gapless
<1>7. OneInFlight' /\ ProposedFollows' /\ ScanFollows' /\ IndexesComplete' /\ RecoveredFollows'
  BY <1>3, <1>4 DEF Accept, OneInFlight, ProposedFollows, ScanFollows, IndexesComplete, RecoveredFollows
<1>8. NotesOfPools'
  BY <1>1, <1>2, <1>3 DEF Accept, Inv, NotesOfPools
<1> QED
  BY <1>5, <1>6, <1>7, <1>8 DEF Inv

\* A deposit that is dropped leaves those mined as they are.
LEMMA DropInv ==
  ASSUME Inv, NEW tx \in pending, Drop(tx)
  PROVE  Inv'
<1>1. pending' \subseteq pending /\ Sent' \subseteq Sent /\ Deposited' = Deposited
  BY DEF Drop, Sent, Deposited
<1>2. RecoveredFollows'
  BY RecoveredKept DEF Drop, Inv
<1> QED
  BY <1>1, <1>2 DEF Drop, Inv, TypeOK, Gapless, OneInFlight, ProposedFollows, ScanFollows, IndexesComplete,
     NotesOfPools

\* A withdrawal adds to the log, and leaves the deposits as they are.
LEMMA WithdrawInv ==
  ASSUME Inv, NEW pool \in Pools, NEW note \in Deposited, Withdraw(pool, note)
  PROVE  Inv'
<1> DEFINE e == Withdrawal(Contract(pool), note)
<1>1. e \in PoolEvents /\ e.kind = "withdrawal"
  BY DepositedNotes DEF Inv, Withdrawal, PoolEvents
<1>2. /\ ToSet(log)' = ToSet(log) \cup {e}
      /\ log' \in Seq(PoolEvents)
      /\ Len(log') = Len(log) + 1
      /\ Deposited' = Deposited
  BY <1>1, LogGrows DEF Withdraw, Inv
<1>3. Sent' = Sent
  BY DEF Withdraw, Sent
<1>4. TypeOK'
  <2>1. synced \in [Pools -> 0..(Len(log) + 1)]
    BY DEF Inv, TypeOK
  <2> QED
    BY <1>2, <2>1 DEF Withdraw, Inv, TypeOK
<1>5. Gapless' /\ OneInFlight' /\ ProposedFollows' /\ ScanFollows'
  BY <1>2, <1>3 DEF Withdraw, Inv, Gapless, OneInFlight, ProposedFollows, ScanFollows
<1>6. IndexesComplete' /\ RecoveredFollows'
  BY <1>2, RecoveredKept DEF Withdraw, Inv, IndexesComplete
<1>7. NotesOfPools'
  <2>1. PICK x \in ToSet(log) : x.contract = Contract(pool) /\ x.note = note
    BY DEF Withdraw, Deposit
  <2>2. \A p \in Pools : x.contract = Contract(p) => x.note = Note(x.note.nonce, p)
    BY DEF Inv, NotesOfPools
  <2>3. e.contract = Contract(pool) /\ e.note = note
    BY DEF Withdrawal
  <2> HIDE DEF e
  <2>4. \A p \in Pools : e.contract = Contract(p) => e.note = Note(e.note.nonce, p)
    BY <2>1, <2>2, <2>3
  <2> QED
    BY <1>2, <2>4 DEF Withdraw, Inv, NotesOfPools
<1> QED
  BY <1>4, <1>5, <1>6, <1>7 DEF Inv

\* A snapshot holds events of the log, of its own pool.
LEMMA SyncInv ==
  ASSUME Inv, NEW pool \in Pools, NEW to \in 1..Len(log), Sync(pool, to)
  PROVE  Inv'
<1> DEFINE events == {e \in ToSet(SubSeq(log, synced[pool] + 1, to)) : e.contract = Contract(pool)}
           batch == [pool |-> pool, events |-> events]
           Batch == [pool : Pools, events : SUBSET PoolEvents]
<1>1. synced[pool] \in Nat /\ log \in Seq(PoolEvents) /\ to \in 0..Len(log) /\ to \in Nat
  BY DEF Inv, TypeOK
<1>2. events \subseteq ToSet(log)
  BY <1>1, SubSeqSet
<1>3. batch \in Batch
  BY <1>2, DepositedNotes DEF Inv
<1>4. batches \in Seq(Batch) /\ batches' = Append(batches, batch)
  BY DEF Sync, Inv, TypeOK
<1> HIDE DEF batch, Batch
<1>5. ToSet(batches)' = ToSet(batches) \cup {batch} /\ batches' \in Seq(Batch)
  BY <1>3, <1>4, AppendSet
<1>6. batch.pool = pool /\ batch.events = events
  BY DEF batch
<1>7. Deposited' = Deposited /\ Sent' = Sent
  BY DEF Sync, Deposited, Sent
<1>8. synced' \in [Pools -> 0..Len(log)]
  BY <1>1 DEF Sync, Inv, TypeOK
<1>9. TypeOK'
  BY <1>2, <1>5, <1>6, <1>8 DEF Sync, Inv, TypeOK, Batch
<1>10. Gapless' /\ OneInFlight' /\ ProposedFollows' /\ ScanFollows' /\ IndexesComplete'
       /\ RecoveredFollows'
  BY <1>7, RecoveredKept DEF Sync, Inv, Gapless, OneInFlight, ProposedFollows, ScanFollows, IndexesComplete
<1>11. NotesOfPools'
  BY <1>5, <1>6 DEF Sync, Inv, NotesOfPools
<1> QED
  BY <1>9, <1>10, <1>11 DEF Inv

\* A restart forgets the snapshots, the scan and the nonce.
LEMMA RestartInv ==
  ASSUME Inv, Restart
  PROVE  Inv'
<1>1. ToSet(batches)' = {}
  BY DEF Restart, ToSet
<1>2. Deposited' = Deposited /\ Sent' = Sent
  BY DEF Restart, Deposited, Sent
<1>3. synced' \in [Pools -> 0..Len(log)]
  BY DEF Restart, Inv, TypeOK
<1> QED
  BY <1>1, <1>2, <1>3 DEF Restart, Inv, TypeOK, Gapless, OneInFlight, ProposedFollows, ScanFollows,
     IndexesComplete, RecoveredFollows, NotesOfPools

\* A scan begins when every deposit is in a batch, and so in an index.
LEMMA StartScanInv ==
  ASSUME Inv, Settles, StartScan
  PROVE  Inv'
<1>1. Deposited' = Deposited /\ Sent' = Sent /\ pending = {}
  BY DEF StartScan, Deposited, Sent, Settled
<1>2. /\ scan' # NoScan /\ scan'.nonce = 0 /\ scan'.misses = 0 /\ scan'.last = None
      /\ scan'.indexes = Indexed
  BY DEF StartScan, NoScan
<1>3. \A b \in ToSet(batches) : b.pool \in Pools /\ b.events \subseteq ToSet(log)
  <2>1. batches \in Seq([pool : Pools, events : SUBSET PoolEvents])
    BY DEF Inv, TypeOK
  <2>2. \A b \in ToSet(batches) : b \in [pool : Pools, events : SUBSET PoolEvents]
    BY <2>1, ElementsInSet
  <2> QED
    BY <2>2 DEF Inv, TypeOK
<1>4. /\ DOMAIN Indexed \subseteq Pools
      /\ \A pool \in DOMAIN Indexed : Indexed[pool] \subseteq ToSet(log)
      /\ \A b \in ToSet(batches) : b.pool \in DOMAIN Indexed /\ b.events \subseteq Indexed[b.pool]
  BY <1>3 DEF Indexed
<1>5. \A d \in Deposited : \E pool \in DOMAIN Indexed :
        HasEvent(Indexed[pool], "deposit", d) /\ d = Note(d.nonce, pool)
  <2> TAKE d \in Deposited
  <2>1. PICK b \in ToSet(batches) : HasEvent(b.events, "deposit", d)
    BY DEF StartScan, Settled
  <2>2. PICK e \in b.events : e.kind = "deposit" /\ e.note = d
    BY <2>1 DEF HasEvent
  <2>3. e \in ToSet(log) /\ e.contract = Contract(b.pool) /\ b.pool \in Pools
    BY <1>3 DEF Inv, NotesOfPools
  <2>4. d = Note(d.nonce, b.pool)
    BY <2>2, <2>3 DEF Inv, NotesOfPools
  <2>5. HasEvent(Indexed[b.pool], "deposit", d) /\ b.pool \in DOMAIN Indexed
    BY <1>4, <2>2 DEF HasEvent
  <2> QED
    BY <2>4, <2>5
<1>6. TypeOK'
  BY <1>2, WalletAssumption DEF StartScan, Inv, TypeOK
<1>7. IndexesComplete' /\ RecoveredFollows'
  <2>1. \A pool \in DOMAIN Indexed : \A e \in Indexed[pool] : e.contract = Contract(pool)
    BY DEF Indexed, Inv, NotesOfPools
  <2>2. scan'.recovered = {} /\ 0..(scan'.nonce - 1) = {}
    BY <1>2 DEF StartScan
  <2>3. RecoveredFollows'
    BY <1>2, <2>1, <2>2 DEF RecoveredFollows
  <2> QED
    BY <1>1, <1>2, <1>4, <1>5, <2>3 DEF StartScan, IndexesComplete
<1>8. ScanFollows'
  BY <1>1, <1>2, DepositedNotes DEF StartScan, Inv, ScanFollows
<1>9. Gapless' /\ OneInFlight' /\ ProposedFollows' /\ NotesOfPools'
  BY <1>1 DEF StartScan, Inv, Gapless, OneInFlight, ProposedFollows, NotesOfPools
<1> QED
  BY <1>6, <1>7, <1>8, <1>9 DEF Inv

\* A nonce is found exactly if a deposit has it.
LEMMA FoundDeposits ==
  ASSUME Inv, scan # NoScan
  PROVE  Found(scan.nonce) # {} <=> \E d \in Deposited : d.nonce = scan.nonce
<1>1. ASSUME NEW pool \in Found(scan.nonce)
      PROVE  \E d \in Deposited : d.nonce = scan.nonce
  <2> PICK e \in scan.indexes[pool] : e.kind = "deposit" /\ e.note = Note(scan.nonce, pool)
    BY DEF Found, HasEvent
  <2>1. e \in ToSet(log)
    BY DEF Found, Inv, IndexesComplete
  <2>2. e.note \in Deposited /\ e.note.nonce = scan.nonce
    BY <2>1 DEF Deposited, Note
  <2> QED
    BY <2>2
<1>2. ASSUME NEW d \in Deposited, d.nonce = scan.nonce
      PROVE  Found(scan.nonce) # {}
  <2> PICK pool \in DOMAIN scan.indexes :
         HasEvent(scan.indexes[pool], "deposit", d) /\ d = Note(d.nonce, pool)
    BY DEF Inv, IndexesComplete
  <2>1. pool \in Found(scan.nonce)
    BY <1>2 DEF Found
  <2> QED
    BY <2>1
<1> QED
  BY <1>1, <1>2

\* A nonce that is found becomes the last one; one that is not is one more missed.
LEMMA ScanNonceInv ==
  ASSUME Inv, ScanNonce
  PROVE  Inv'
<1>1. scan # NoScan /\ Deposited' = Deposited /\ Sent' = Sent
  BY DEF ScanNonce, Deposited, Sent
<1>2. /\ scan'.nonce = scan.nonce + 1
      /\ scan'.misses = Missed(Found(scan.nonce))
      /\ scan'.last = IF Found(scan.nonce) = {} THEN scan.last ELSE scan.nonce
      /\ scan'.indexes = scan.indexes
      /\ scan' # NoScan
  BY DEF ScanNonce, NoScan
<1>3. /\ scan.nonce \in Nat /\ scan.misses \in Nat /\ scan.misses < GapLimit /\ GapLimit \in Nat
      /\ scan.last \in Nat \cup {None}
  BY <1>1, WalletAssumption DEF ScanNonce, Exhausted, Inv, TypeOK, ScanFollows
<1>4. scan' = [phase |-> "scanning", indexes |-> scan'.indexes, nonce |-> scan'.nonce,
               misses |-> scan'.misses, recovered |-> scan'.recovered, last |-> scan'.last]
  BY DEF ScanNonce
<1>5. ScanFollows'
  <2>1. CASE Found(scan.nonce) = {}
    <3>1. scan'.misses = scan.misses + 1 /\ scan'.last = scan.last
      BY <1>2, <2>1 DEF Missed
    <3>2. \A d \in Deposited : d.nonce # scan.nonce
      BY <1>1, <2>1, FoundDeposits
    <3>3. \A d \in Deposited : d.nonce < scan.nonce + 1 => d.nonce < scan.nonce
      BY <1>3, <3>2, DepositedNotes DEF Inv
    <3> QED
      BY <1>1, <1>2, <1>3, <1>4, <3>1, <3>3 DEF Inv, ScanFollows
  <2>2. CASE Found(scan.nonce) # {}
    <3>1. scan'.misses = 0 /\ scan'.last = scan.nonce
      BY <1>2, <2>2 DEF Missed
    <3>2. \E d \in Deposited : d.nonce = scan.nonce
      BY <1>1, <2>2, FoundDeposits
    <3>3. \A d \in Deposited : d.nonce < scan.nonce + 1 => d.nonce <= scan.nonce
      BY <1>3, DepositedNotes DEF Inv
    <3>4. scan.nonce # None
      BY <1>3, WalletAssumption
    <3> QED
      BY <1>1, <1>2, <1>3, <1>4, <3>1, <3>2, <3>3, <3>4 DEF ScanFollows
  <2> QED
    BY <2>1, <2>2
<1>6. TypeOK'
  <2>1. scan'.misses \in 0..GapLimit /\ scan'.nonce \in Nat
    BY <1>2, <1>3 DEF Missed
  <2> QED
    BY <2>1 DEF ScanNonce, Inv, TypeOK
<1>7. Gapless' /\ OneInFlight' /\ ProposedFollows' /\ IndexesComplete' /\ NotesOfPools'
  BY <1>1, <1>2 DEF ScanNonce, Inv, Gapless, OneInFlight, ProposedFollows, IndexesComplete, NotesOfPools
<1>8. RecoveredFollows'
  <2> DEFINE new == {RecoveredNote(scan.nonce, pool) : pool \in Found(scan.nonce)}
  <2>1. \A n : Found(n)' = Found(n)
    BY <1>2 DEF Found
  <2>2. \A n, pool : RecoveredNote(n, pool)' = RecoveredNote(n, pool)
    BY <1>2 DEF RecoveredNote
  <2>3. scan'.recovered = scan.recovered \cup new
    BY DEF ScanNonce
  <2>4. \A r \in new : /\ r.nonce = scan.nonce
                       /\ r.pool \in Found(r.nonce)
                       /\ r = RecoveredNote(r.nonce, r.pool)
    BY DEF RecoveredNote
  <2>5. \A n \in 0..scan.nonce : n \in 0..(scan.nonce - 1) \/ n = scan.nonce
    BY <1>3
  <2>6. 0..(scan'.nonce - 1) = 0..scan.nonce /\ scan.nonce \in 0..scan.nonce
        /\ 0..(scan.nonce - 1) \subseteq 0..scan.nonce
    BY <1>2, <1>3
  <2>7. \A pool \in Found(scan.nonce) : RecoveredNote(scan.nonce, pool) \in new
    OBVIOUS
  <2> HIDE DEF new
  <2>8. \A r \in scan'.recovered : /\ r.nonce \in 0..(scan'.nonce - 1)
                                   /\ r.pool \in Found(r.nonce)
                                   /\ r = RecoveredNote(r.nonce, r.pool)
    BY <1>1, <2>3, <2>4, <2>6 DEF Inv, RecoveredFollows
  <2>9. \A n \in 0..(scan'.nonce - 1) : \A pool \in Found(n) : RecoveredNote(n, pool) \in scan'.recovered
    BY <1>1, <2>3, <2>5, <2>6, <2>7 DEF Inv, RecoveredFollows
  <2>10. \A pool \in DOMAIN scan'.indexes : \A e \in scan'.indexes[pool] : e.contract = Contract(pool)
    BY <1>1, <1>2 DEF Inv, RecoveredFollows
  <2> QED
    BY <2>1, <2>2, <2>8, <2>9, <2>10 DEF RecoveredFollows
<1> QED
  BY <1>5, <1>6, <1>7, <1>8 DEF Inv

\* When GapLimit nonces were missed in a row, no deposit has a later one.
LEMMA NoneBeyond ==
  ASSUME Inv, scan # NoScan, Exhausted
  PROVE  \A d \in Deposited : scan.last # None /\ d.nonce <= scan.last
<1> SUFFICES ASSUME NEW d \in Deposited, d.nonce >= scan.nonce PROVE FALSE
  BY DepositedNotes DEF Inv, ScanFollows
<1>1. scan.nonce \in Nat /\ scan.misses \in Nat /\ GapLimit \in Nat /\ scan.misses >= GapLimit
      /\ d.nonce \in Nat
  BY DepositedNotes, WalletAssumption DEF Inv, ScanFollows, Exhausted
<1>2. scan.nonce \in 0..d.nonce /\ scan.nonce >= GapLimit
  BY <1>1 DEF Inv, ScanFollows
<1> PICK c \in Deposited : scan.nonce - GapLimit <= c.nonce /\ c.nonce < scan.nonce
  BY <1>1, <1>2 DEF Inv, Gapless
<1>3. scan.last # None /\ c.nonce <= scan.last /\ scan.last \in Nat
      /\ scan.nonce = scan.last + scan.misses + 1
  BY DEF Inv, ScanFollows
<1>4. c.nonce \in Nat
  BY DepositedNotes DEF Inv
<1> QED
  BY <1>1, <1>3, <1>4

\* The nonce after the last one recovered is past all those deposited.
LEMMA EndScanInv ==
  ASSUME Inv, EndScan
  PROVE  Inv'
<1>1. scan # NoScan /\ Deposited' = Deposited /\ Sent' = Sent /\ scan' = NoScan
  BY DEF EndScan, Deposited, Sent
<1>2. \A d \in Deposited : scan.last # None /\ d.nonce <= scan.last /\ d.nonce \in Nat
  BY NoneBeyond, DepositedNotes DEF EndScan, Inv
<1>3. CASE scan.last = None
  <2>1. Deposited = {} /\ proposed' = 0
    BY <1>2, <1>3 DEF EndScan, NextNonce
  <2> QED
    BY <1>1, <2>1 DEF EndScan, Inv, TypeOK, Gapless, OneInFlight, ProposedFollows, ScanFollows,
       IndexesComplete, RecoveredFollows, NotesOfPools
<1>4. CASE scan.last # None
  <2>1. scan.last \in Nat /\ \E d \in Deposited : d.nonce = scan.last
    BY <1>1, <1>4 DEF Inv, ScanFollows
  <2>2. proposed' = scan.last + 1
    BY <1>4 DEF EndScan, NextNonce
  <2>3. \A d \in Deposited : d.nonce < proposed'
    BY <1>2, <2>1, <2>2
  <2>4. ProposedFollows'
    BY <1>1, <2>1, <2>2, <2>3 DEF ProposedFollows
  <2>5. TypeOK' /\ Gapless' /\ OneInFlight' /\ ScanFollows' /\ IndexesComplete' /\ RecoveredFollows'
        /\ NotesOfPools'
    BY <1>1, <2>1, <2>2 DEF EndScan, Inv, TypeOK, Gapless, OneInFlight, ScanFollows, IndexesComplete,
       RecoveredFollows, NotesOfPools
  <2> QED
    BY <2>4, <2>5 DEF Inv
<1> QED
  BY <1>3, <1>4

\* A signer that fails ends the scan, and nothing else changes.
LEMMA SignerFailsInv ==
  ASSUME Inv, SignerFails
  PROVE  Inv'
<1>1. Deposited' = Deposited /\ Sent' = Sent /\ scan' = NoScan
  BY DEF SignerFails, Deposited, Sent
<1> QED
  BY <1>1 DEF SignerFails, Inv, TypeOK, Gapless, OneInFlight, ProposedFollows, ScanFollows,
     IndexesComplete, RecoveredFollows, NotesOfPools

\* Every step of a wallet that settles keeps the invariant.
LEMMA NextInv == Settles /\ Inv /\ [Next]_vars => Inv'
<1> SUFFICES ASSUME Settles, Inv, [Next]_vars PROVE Inv'
  OBVIOUS
<1>1. ASSUME NEW pool \in Pools, NEW skip \in 0..MaxSkip, Send(pool, skip) PROVE Inv'
  BY <1>1, SendInv
<1>2. ASSUME NEW tx \in pending, Accept(tx) PROVE Inv'
  BY <1>2, AcceptInv
<1>3. ASSUME NEW tx \in pending, Drop(tx) PROVE Inv'
  BY <1>3, DropInv
<1>4. ASSUME NEW pool \in Pools, NEW note \in Deposited, Withdraw(pool, note) PROVE Inv'
  BY <1>4, WithdrawInv
<1>5. ASSUME NEW pool \in Pools, NEW to \in 1..Len(log), Sync(pool, to) PROVE Inv'
  BY <1>5, SyncInv
<1>6. CASE UNCHANGED vars
  <2>1. Deposited' = Deposited /\ Sent' = Sent
    BY <1>6 DEF vars, Deposited, Sent
  <2> QED
    BY <1>6, <2>1, RecoveredKept DEF vars, Inv, TypeOK, Gapless, OneInFlight, ProposedFollows,
       ScanFollows, IndexesComplete, NotesOfPools
<1> QED
  BY <1>1, <1>2, <1>3, <1>4, <1>5, <1>6, RestartInv, StartScanInv, ScanNonceInv, EndScanInv,
     SignerFailsInv DEF Next

-----------------------------------------------------------------------------
\* The invariant holds in every state that a wallet which settles can reach.
THEOREM Invariance == ASSUME Settles PROVE Spec => []Inv
<1>1. Init => Inv
  BY InitInv
<1>2. Inv /\ [Next]_vars => Inv'
  BY NextInv
<1> QED
  BY <1>1, <1>2, PTL DEF Spec

\* Every variable has its type, for every set of pools and every gap limit.
THEOREM TypeCorrect == ASSUME Settles PROVE Spec => []TypeOK
<1>1. Inv => TypeOK
  BY DEF Inv
<1> QED
  BY <1>1, Invariance, PTL

\* A wallet that settles never has a nonce proposed that one of its notes has.
THEOREM NonceUnusedHolds == ASSUME Settles PROVE Spec => []NonceUnused
<1>1. Inv => NonceUnused
  <2> SUFFICES ASSUME Inv, proposed # None PROVE \A note \in Deposited \cup Sent : note.nonce < proposed
    BY DEF NonceUnused
  <2>1. Sent = {}
    BY DEF Inv, OneInFlight, Sent
  <2> QED
    BY <2>1 DEF Inv, ProposedFollows
<1> QED
  BY <1>1, Invariance, PTL

\* A wallet that settles never sends a deposit that its contract has already.
THEOREM DepositsAcceptedHolds == ASSUME Settles PROVE Spec => []DepositsAccepted
<1>1. Inv => DepositsAccepted
  <2> SUFFICES ASSUME Inv, NEW tx \in pending, Deposit(tx.contract, tx.note) \in ToSet(log) PROVE FALSE
    BY DEF DepositsAccepted
  <2>1. tx.note \in Deposited /\ tx.note \in Sent
    BY DEF Deposit, Deposited, Sent
  <2>2. tx.note.nonce \in Nat
    BY <2>1, DepositedNotes DEF Inv
  <2> QED
    BY <2>1, <2>2 DEF Inv, OneInFlight
<1> QED
  BY <1>1, Invariance, PTL

\* No contract is described by two pools, as in a wallet that adds none to the catalog's.
OneDescription == \A p, q \in Pools : Contract(p) = Contract(q) => p = q

\* What an index holds: notes of its pool, and among them no deposit that is not mined.
LEMMA IndexedNotes ==
  ASSUME Inv, scan # NoScan, NEW pool \in DOMAIN scan.indexes, NEW e \in scan.indexes[pool]
  PROVE  /\ pool \in Pools
         /\ e.contract = Contract(pool)
         /\ e.note = Note(e.note.nonce, pool)
         /\ e.note.nonce \in Nat
         /\ e.kind = "deposit" => e.note \in Deposited
<1>1. pool \in Pools /\ e \in ToSet(log) /\ e.contract = Contract(pool)
  BY DEF Inv, IndexesComplete, RecoveredFollows
<1>2. e.note = Note(e.note.nonce, pool)
  BY <1>1 DEF Inv, NotesOfPools
<1>3. e.note.nonce \in Nat
  BY <1>1, DepositedNotes DEF Inv, PoolEvents, Notes
<1> QED
  BY <1>1, <1>2, <1>3 DEF Deposited

\* When the scan gives up, the notes it has recovered are those of the deposits it was
\* given, even if a contract has several descriptions.
LEMMA RecoversAll ==
  ASSUME Inv, Returns
  PROVE  {Note(r.nonce, r.pool) : r \in scan.recovered} = {e.note : e \in {x \in Events : x.kind = "deposit"}}
<1>1. scan # NoScan /\ scan.nonce \in Nat
  BY DEF Returns, Inv, ScanFollows
<1>2. ASSUME NEW r \in scan.recovered
      PROVE  \E x \in Events : x.kind = "deposit" /\ x.note = Note(r.nonce, r.pool)
  <2>1. r.pool \in Found(r.nonce)
    BY <1>1 DEF Inv, RecoveredFollows
  <2>2. PICK x \in scan.indexes[r.pool] : x.kind = "deposit" /\ x.note = Note(r.nonce, r.pool)
    BY <2>1 DEF Found, HasEvent
  <2> QED
    BY <2>1, <2>2 DEF Events, Found
<1>3. ASSUME NEW x \in Events, x.kind = "deposit"
      PROVE  \E r \in scan.recovered : x.note = Note(r.nonce, r.pool)
  <2>1. PICK pool \in DOMAIN scan.indexes : x \in scan.indexes[pool]
    BY DEF Events
  <2>2. x.note = Note(x.note.nonce, pool) /\ x.note.nonce \in Nat /\ x.note \in Deposited
    BY <1>1, <1>3, <2>1, IndexedNotes
  <2>3. x.note.nonce \in 0..(scan.nonce - 1)
    <3>1. scan.last # None /\ x.note.nonce <= scan.last
      BY <1>1, <2>2, NoneBeyond DEF Returns
    <3>2. scan.last \in Nat /\ scan.misses \in Nat /\ scan.nonce = scan.last + scan.misses + 1
      BY <1>1, <3>1 DEF Inv, ScanFollows
    <3> QED
      BY <2>2, <3>1, <3>2
  <2>4. pool \in Found(x.note.nonce)
    BY <1>3, <2>1, <2>2 DEF Found, HasEvent
  <2>5. RecoveredNote(x.note.nonce, pool) \in scan.recovered
    BY <1>1, <2>3, <2>4 DEF Inv, RecoveredFollows
  <2>6. RecoveredNote(x.note.nonce, pool).nonce = x.note.nonce /\ RecoveredNote(x.note.nonce, pool).pool = pool
    BY DEF RecoveredNote
  <2> QED
    BY <2>2, <2>5, <2>6
<1> QED
  BY <1>2, <1>3

\* A note is of one pool and one nonce, where no contract has two descriptions.
LEMMA OneNote ==
  ASSUME OneDescription, NEW p \in Pools, NEW q \in Pools, NEW n, NEW m, Note(n, p) = Note(m, q)
  PROVE  n = m /\ p = q
<1>1. n = m /\ p.chain = q.chain /\ p.address = q.address
  BY DEF Note
<1> QED
  BY <1>1 DEF OneDescription, Contract

\* recover returns every note whose deposit is in the batches, once, and spent exactly if
\* its withdrawal is in one of them, for a wallet that settles and describes each contract
\* once; for one that describes a contract twice, KeychainVariants shows it does not.
THEOREM RecoversExactlyHolds == ASSUME Settles, OneDescription PROVE Spec => []RecoversExactly
<1>1. Inv => RecoversExactly
  <2> SUFFICES ASSUME Inv, Returns PROVE RecoversExactly
    BY DEF RecoversExactly, SpentNoticed
  <2>1. scan # NoScan
    BY DEF Returns
  <2>2. \A r \in scan.recovered : /\ r.pool \in DOMAIN scan.indexes
                                  /\ r.pool \in Pools
                                  /\ r = RecoveredNote(r.nonce, r.pool)
    BY <2>1 DEF Inv, RecoveredFollows, IndexesComplete, Found
  <2>3. ASSUME NEW r \in scan.recovered, NEW s \in scan.recovered,
               Note(r.nonce, r.pool) = Note(s.nonce, s.pool)
        PROVE  r = s
    <3>1. r.nonce = s.nonce /\ r.pool = s.pool
      BY <2>2, <2>3, OneNote
    <3>2. r = RecoveredNote(r.nonce, r.pool) /\ s = RecoveredNote(s.nonce, s.pool)
      BY <2>2
    <3> QED
      BY <3>1, <3>2
  <2>4. ASSUME NEW r \in scan.recovered
        PROVE  r.spent = HasEvent(Events, "withdrawal", Note(r.nonce, r.pool))
    <3>1. r.spent = HasEvent(scan.indexes[r.pool], "withdrawal", Note(r.nonce, r.pool))
      <4>1. r = RecoveredNote(r.nonce, r.pool)
        BY <2>2
      <4>2. RecoveredNote(r.nonce, r.pool).spent
              = HasEvent(scan.indexes[r.pool], "withdrawal", Note(r.nonce, r.pool))
        BY DEF RecoveredNote
      <4> QED
        BY <4>1, <4>2
    <3>2. ASSUME NEW e \in Events, e.kind = "withdrawal", e.note = Note(r.nonce, r.pool)
          PROVE  e \in scan.indexes[r.pool]
      <4>1. PICK pool \in DOMAIN scan.indexes : e \in scan.indexes[pool]
        BY DEF Events
      <4>2. pool \in Pools /\ e.note = Note(e.note.nonce, pool)
        BY <2>1, <4>1, IndexedNotes
      <4>3. pool = r.pool
        BY <2>2, <3>2, <4>2, OneNote
      <4> QED
        BY <4>1, <4>3
    <3>3. scan.indexes[r.pool] \subseteq Events
      BY <2>2 DEF Events
    <3>4. HasEvent(Events, "withdrawal", Note(r.nonce, r.pool))
            = HasEvent(scan.indexes[r.pool], "withdrawal", Note(r.nonce, r.pool))
      BY <3>2, <3>3 DEF HasEvent
    <3> QED
      BY <3>1, <3>4
  <2> QED
    BY RecoversAll, <2>3, <2>4 DEF RecoversExactly, SpentNoticed
<1> QED
  BY <1>1, Invariance, PTL
===============================================================================
