# kohaku-rs: specifications, model checks and proofs

TLA+ specifications of the kohaku-rs workspace (`crates/`), checked with TLC on
small instances and, where it matters most, proved with TLAPS for every value
of the constants. A definition carries the name of the code it models where
TLA+ allows it; `PROJECT.json` maps each one to its source lines.

## The system

kohaku-rs lets a wallet use privacy protocols, Tornado Cash first. A wallet
session runs like this: a *syncer* fetches the pool's deposits and withdrawals
as a *snapshot* of a block range; the *Merkle tree* of commitments is brought up
to date with it; the *keychain* finds the wallet's own notes in it; a *note* is
turned into a withdrawal proof against the tree's root; the withdrawal goes to
the chain through a *relayer* or as an ERC-4337 user operation through a
*paymaster* and a *bundler*. Most components are single-threaded and keep little
state; what is hard is what lies between two awaits, between two requests, and
between the session's copy of the chain and the chain itself.

| Component | Code | State | Operations | Hard about it | Correct when |
|---|---|---|---|---|---|
| Streamed event query | `rpc-provider/src/events/streamed.rs` | chunk futures in flight, next chunk's size, shared pause and delay | resolve range, start chunk, request, split, back off, deliver | concurrent chunks answered in any order, splits and retries that overlap | blocks come out in order, each once, or one error ends the stream |
| Merkle tree | `merkle-tree/src/{lib,proof}.rs` | one vector of nodes per level | `splice`, `insert`, `root`, `proof`, `verify` | incremental update at unaligned places, padding, a refused splice | every stored node is the hash of its children, root and proofs are those of the leaves |
| Pool events, snapshots | `tornadocash/core/src/{event,merkle_tree}.rs` | a snapshot of events for a block range | decode, `Snapshot::new`, `splice_events` | contiguity is checked inside a snapshot only | the spliced tree holds the pool's leaves |
| Syncers | `tornadocash/syncer/src/{lib,rpc,remote}.rs`, `saga/` | none between calls (a cursor held by the caller) | `sync` by RPC, from a remote cache, from Saga snapshots | head moves between requests, a cache republished between two requests, partial coverage | consecutive snapshots join without gap, and hold every event of their range |
| Keychain, recovery | `tornadocash/keychain/src/{keychain,recovery}.rs` | notes are derived, none stored | `notes`, `note`, `recover`, `next_nonce` | reorganised or stale snapshots, gaps in the nonces, several batches of one pool | recovers exactly the notes of the keys, proposes an unused nonce |
| Relayer client | `tornadocash/relayer/src/{lib,status,wire}.rs` | a job id per withdrawal | `quote`, `withdraw`, `check`, `await_confirmation` | the relayer and the chain answer independently and disagree | reports a withdrawal confirmed only when spent, never stops early on a live job |
| Paymaster | `tornadocash/paymaster/src/lib.rs` | none | `with_tornado_paymaster`, `estimate_fee`, `verifier_override` | a fee that must cover a cost measured with the fee itself | the withdrawal pays for its gas |
| User operations, bundler | `userop-kit/src/**` | a user operation under construction | build, estimate gas, sign, send, wait for receipt | estimates and receipts that are not there yet, a signature made before the gas is final | the signed operation is the one sent |
| RPC client over Tor | `tor-rpc/src/lib.rs` | an isolation token and a connection pool per group | `connect`, `isolated`, `clone`, `rpc_client`, `request`, connecting a stream | idle connections that outlive the value they were dialled for, cancelled requests, isolated clients of clones | two groups never share a circuit, a request reaches its endpoint |
| Notes, deposits, withdrawals | `tornadocash/core/src/{note,deposit,withdrawal,pool,asset}` | none | write and read a note, find its pool, `approval`, `call`, `with_payer`, `prove` | decimals, texts that were altered, a proof that ages, one order of arguments in four places | a note finds its pool, and the contracts take what was proved |
| Relayer quote | `tornadocash/relayer/src/status.rs` | none | `supports`, `quote` | overflow of 256-bit sums and products, zero prices | the fee pays for gas, refund and share, or an error |
| Hashes, curve, circuit wrapper | `tornadocash/core/src/crypto`, `tornadocash/circuit` | none | MiMC sponge, Baby Jubjub, Pedersen, `prove`'s inputs | windows and segments, lifting a point, the sign of a scalar | equal to what contract and circuit compute |
| WebAssembly bindings | `tornadocash/wasm` | a Merkle tree behind a handle | numbers, bigints and hex to Rust and back, the tree's and events' functions | numbers that are no index, half-converted arguments | takes what was passed or throws and changes nothing |
| Test infrastructure | `fork-kit/` | child processes | spawn a bundler, a relayer stack, drop them | ports that are taken, two spawns side by side, cancellation between two children | a bundler is the test's own, a spawn ends, nothing is left running |

## Modules and the code they model

| Module | Models | State | Actions |
|---|---|---|---|
| `OrderedQuery` | what a log query promises: the blocks of a range in order, each once, or one error | range, cursor, output | resolve, deliver, end |
| `StreamedEvent` | `rpc-provider/src/events/streamed.rs` | `chunks` (the futures of the `FuturesOrdered`, each with its stack of ranges to fetch), `cursor`, `size`, `paused`, `delay`, `out` | `ResolveFrom/To/Fail`, `StartChunk`, `Begin`, `Wake`, `Succeed`, `RateLimited`, `Split`, `Abandon`, `Deliver`, `DeliverError`, `Finish`, `Tick` |
| `MerkleTree` | `merkle-tree/src/{lib,proof}.rs` | `nodes`, one sequence per level, `zeros`, the level a splice is at | `PushZero`, `Splice`, `Refuse`, `HashLevel`; `Root`, `Proof`, `LeafProof`, `Verify` as operators |
| `PoolSession` | what a session is promised: the blocks it was answered for are known, nothing else, and nothing is forgotten | chain, cursor, leaves, nullifiers | `Learn`, `LearnTorn`, `Refuse`, `StartOver` |
| `PoolSync` | `tornadocash/syncer/src/**`, `core/src/{event,merkle_tree}.rs` | chain, publishers, the call under way, the session's leaves, nullifiers and cursor | `Call`, `RpcHead`, `RpcLogs`, `RemoteDeposits`, `RemoteWithdrawals`, `SagaManifest`, `SagaChunk`, `SagaEnd`, `Fail`; `Mine`, `PublishCache`, `WriteHot`, `ListHot`, `Seal`, `Rewind` outside |
| `KeychainRecovery` | `tornadocash/keychain/src/{keychain,recovery}.rs`, `core/src/deposit.rs` | pool events, deposits in flight, batches, the scan under way, the proposed nonce | `StartScan`, `ScanNonce`, `EndScan`, `SignerFails`, `Send`; `Accept`, `Drop`, `Withdraw`, `Sync`, `Restart` outside |
| `PoolNotes` | `core/src/{pool,asset,note}` | none | operators: the catalogue, `Amount`, `Display`, `ParseError`, `FromStr`, `FromNote` |
| `RelayerQuote` | `relayer/src/status.rs` | none | operators: `Supports`, `Quote` with every checked product and sum |
| `RelayedWithdrawal` | `core/src/{deposit,withdrawal}.rs`, `circuit/src`; composes `RelayerClient`, `RelayerQuote`, `PoolNotes` and `Pedersen` | the note's stage, its allowance, leaf, payer, quote and proof, and the client's state | `Approve`, `Deposit`, `Import`, `PayNobody`, `PayRelayer`, `Prove`, `Relay` (a step of the client); `OthersDeposit` outside |
| `MimcSponge`, `BabyJubjub`, `Pedersen` | `core/src/crypto` | none | operators: the hashes and the curve over a small field, each beside a reference definition; proved equal to it |
| `PoolTree` | the tree as the pool's contract builds it, over `MerkleTree` and `MimcSponge` | that of `MerkleTree` | the contract's root by repeated insertion |
| `JsValues`, `JsTree` | `tornadocash/wasm/src/{bigint,hex,merkle_tree,events}.rs` over `PoolTree` | that of `MerkleTree`, and whether the last call threw | `JsSplice`, `SpliceEvent` (of what `DecodeEvent` gave), `Catch` |
| `RelayerClient` | `tornadocash/relayer/src/lib.rs` | the relayer's jobs, what landed, the check under way, the clock | `Submit`, `Accepted`, `SubmitFails`, `Await`, `JobStatus`, `IsSpent`, `Conclude`, `GiveUp`, `Sleep`, `Wake`; `Work`, `Land`, `Tick` outside |
| `SponsoredOperation` | `tornadocash/paymaster/src/lib.rs`, `userop-kit/src/**` | market, account, deposits of others, the operation under construction, the two answers of an estimate, the bundler's queue, the clock | one per await of building, estimating, quoting, proving, signing, sending and polling; `MarketMoves`, `OwnerSends`, `OthersDeposit`, `Include` outside |
| `IsolatedSessions` | what isolation promises: sessions that keep to circuits of their own | sessions, the circuits each has used | open, send |
| `TorIsolation` | `tor-rpc/src/lib.rs` | the values held, the tokens and pools made, requests, connections and circuits | `Connect`, `Isolated`, `Clone`, `RpcClient`, `Drop`, `Issue`, `Dial`, `Respond`, `Collect`; `Checkout`, `Close`, `GiveUp`, `Abort` outside |
| `ForkKit` | `fork-kit/src/{alto,relayer}.rs` | each spawn's phase, attempt and children, killed and orphaned processes | one per await of the two spawns, `End`; `Start`, `Crash`, `Die` outside |

An await is where the code lets others run, so an action is the code between two
awaits; two requests that the code joins (`try_join!`, `join!`) are answered by
two actions in either order. What is not in the repository (the chain, the
provider, publishers, the relayer, the bundler, the market, time) is marked
external in `PROJECT.json` and does whatever the code must be ready for. Hashes,
fields, notes and logs are model values or numbers; JSON, ABI encoding, stream
keys and logging are left out. Proofs are in `StreamedEventProofs`,
`JsTreeProofs` (which begins with those of `MerkleTree`, `MimcSponge` and `PoolTree`),
`PoolSyncProofs`, `KeychainRecoveryProofs`,
`RelayedWithdrawalProofs` (which begins with those of `RelayerClient`),
`SponsoredOperationProofs`, `TorIsolationProofs` and `ForkKitProofs`. A definition `D_Suffix` beside `D` is `D` with a bug such
as the code might have; `PROJECT.json` names the property that each one breaks.

Some choices that the source does not show at once:

- `StreamedEvent` keeps a chunk's work as a stack of ranges: `query_chunk` calls
  itself on the two halves, one after the other, so that what remains is a stack.
  A block stands for its logs. `OrderedQuery` is its abstract specification,
  refined by `out` and the end of the stream.
- `MerkleTree` makes one action of each level of a splice, so that the invariant
  can say what holds between two levels; a splice is not interleaved with
  another, since the code holds the tree exclusively.
- `PoolSync` has one session that calls one syncer at a time, the cursor being
  what the caller passes as the next range. The session splices an answer whole.
  Its variable `torn` records that a call has read the remote cache's two files
  at different ages, the only way found in which honest sources leave a gap. Its
  abstract specification `PoolSession` has the same variables without publishers and
  calls: an answer adds the blocks it names, all at once.
- `PoolSync` selects from a log by the places of what is selected (`Selected`), not
  by the recursive `SelectSeq`, so that it can be reasoned about; a log is an event
  or a reference to one that was decoded.
- `RelayedWithdrawal` takes an amount as its decimal digits, a symbol or amount as
  free of dashes (a note's text is split at them), and a secret as a few bits. What
  becomes of a text is in three sets: `Copies` (with its `0x` or without),
  `Miscopies` (other hex digits, as many: the format has no checksum, so another note
  is read) and `Alterations` of every other part. The pool's contract is modelled from the calls the code makes to it.
- `JsTree` throws before the tree is touched; a splice of no leaves is no error
  wherever it goes, as in the code. A log's data are decoded without validation
  (`event.rs` uses alloy's `decode_log`), so a deposit's index is the low 32 bits of
  its word (`LeafIndex`); a pool writes none above them.
- In `TorIsolation` the field `group` records what the caller was promised; the
  code has tokens and pools only. Circuits and the reuse of connections are what
  Arti and hyper promise: a circuit of the client's token, one request at a time
  on a connection, connections kept apart by scheme and authority.
- `ForkKit`: a relayer's waits look at ports, not at processes, so a spawn beside
  another stack may be told "ready" by the other's redis or server. `ReadyIsOwn`
  therefore speaks of a stack that has its ports to itself; the bundler's wait
  reads its own child's output and needs no such condition.
- `KeychainRecovery`'s constant `Settles` says that the wallet asks for a nonce
  only when all its deposits are mined or dropped, and synced. The code does not
  enforce it; without it the same nonce is proposed twice, as one would expect.
- `SponsoredOperation` states what the contracts require in `Valid`, and what the
  entry point charges in `RequiredPrefund`, apart from the code's own sum. The
  operation carries the root of the Merkle proof that the caller passed, from a tree
  that may be behind, to both settings of the paymaster's data; deposits of others
  make the pool forget it (`KnownRoot`).

## Runs

| Run | Module, properties | Instance | Shows |
|---|---|---|---|
| `streamed_event` | `StreamedEvent`: `TypeOK`, `SlotsSpaced`, `PauseBounded`, `ChunksNeverGrow`, `ImplementsOrderedQuery`, `StreamEnds` | chunks of 4 blocks, two at a time, one retry, heads 1 and 10, ranges with and without `latest`, a provider that may name a delay | the stream is an ordered query (order, completeness and the one error at the end follow), is paced, and ends |
| `streamed_event_reset` | `SuccessResetsDelay`, violated | chunks of one block, one at a time | a success after an elapsed pause keeps the doubled delay |
| `merkle_tree` | `JsTree`: `TypeOK`, `HashesChildren`, `ProofsVerify`, `RootIsContracts`, `SplicesWhatWasPassed` | a binary tree of 8 leaves, filled from JavaScript by arguments of all kinds and by logs, one of them with an index beyond a `u32`; an injective hash for the nodes, and the sponge over a field of 37 elements for the contract's root | root and proofs are those of the leaves after any splices, the root is the contract's, and a call takes what it was passed or throws |
| `pool_sync` | `PoolSync`: `TypeOK`, `CoveredUnlessTorn`, `RefusedOnlyIfTorn`, `ImplementsPoolSession`, `CatchesUp` | 2 blocks after the pool's own, of up to 4 logs, all three syncers mixed | nothing wrong is ever held and nothing forgotten, what was answered for is there, nothing is refused, and the session catches up, unless the cache was read torn |
| `pool_sync_remote_race` | `CursorCovered`, violated | the remote cache alone | a range that names blocks of which only one file was fetched |
| `keychain_recovery` | `KeychainRecovery`: `TypeOK`, `RecoversExactly`, `NonceUnused`, `DepositsAccepted` | two chains, gap limit 2, two deposits | recovery is exact, nonces are new |
| `keychain_variants` | `SpentNoticed`, violated | one pool described twice | batches of one pool are not combined |
| `relayed_withdrawal` | `RelayedWithdrawal`: `WithdrawalTypeOK`, `ConfirmedByChain`, `FindsItsPool`, `CommitmentIsReference`, `QuoteCovers`, `Withdrawable`, `LandedIsReported`, `AwaitEnds` | a note for every pool of the catalogue and for nine with odd decimals, every note for one pool; two that are withdrawn, three that are relayed, twice at most, by a relayer that lies | from text to landing: the note finds its pool, from its text copied, miscopied or altered, the fee covers, the contracts take what was proved, only the chain confirms |
| `relayer_hangs` | `RelayerClient`: `SpentEndsCheck`, violated | a relayer that need not answer | a check waits for both answers |
| `sponsored_operation` | `SponsoredOperation`: `TypeOK`, `SponsoredIsValid`, `SeenInTime`, `OperationEnds` | two operations, three pools, two prices and rates, estimates with and without paymaster limits, a deposit of another that makes a pool forget its root | the fee fits what is signed, the contracts accept what nothing has overtaken, and the wait ends in time |
| `tor_isolation` | `TorIsolation`: `TypeOK`, `Unlinkable`, `ReachesEndpoint`, `ImplementsSessions` | three groups, two each of values, requests, connections and circuits, an https URL without and an http one with a port | groups keep to their circuits, which is what `IsolatedSessions` promises |
| `fork_kit` | `ForkKit`: `TypeOK`, `ReadyIsOwn`, `SpawnEnds`, `NothingLeft` | two spawns side by side of four, two attempts, other listeners on two ports | a bundler is the test's own, a spawn ends, no process is left |

The bounds are the smallest at which the hard cases occur: a chunk of four blocks
splits twice; two chunks can finish out of order and disagree on the size; one
retry lets a range be rate limited, back off, split and run out; a tree of three
levels has a splice that is unaligned at two of them and a full one that refuses;
two blocks after the first let a cache or hot chunk be rewritten between two
requests and the session be both behind and ahead (the race needs one more, since
an event must be in the older file too); two deposits on two chains give a gap and
a reused nonce if there is one; two jobs give a second submission of a landed
note; a timeout of two pauses and an answer lets an operation land before, during
and after the last poll; three groups with two names let a group's values be gone
while its connection waits idle; two attempts give a stack the second port of its
neighbour. What the bounds cannot show is proved for any bound where the theorems
below say so.

Widths and fields are scaled, with the code's boundaries kept in their order.
`RelayedWithdrawal` has words of 12 bits (`WORD` 4096), secrets of 3 bits, a field
of 409 elements with a subgroup of prime order 47, windows of 2 bits and 2 to a
segment (so that a commitment spans two segments), gas of 5 units, decimals divided by 6 and a pool that remembers 2 roots of which others can make
it forget. Prices, gas prices and refunds are chosen on both sides of every
overflow of the formula. `JsTree` has digits of base 4 and words of two bytes, a
`u32` up to 15, a `u64` up to 31 and the field of 37 elements below the largest
word, 255. In `SponsoredOperation` a pool remembers one root, and others deposit
once, into the native pool. The curve keeps the code's coefficients; the facts
that hold of hashes and curve for every input (the sponge permutes, addition is
complete, `mul_scalar` is repeated addition, unpacking inverts packing, segments
are injective, the Pedersen hash is the reference sum) are assumptions of
`MC_MerkleTree`, which TLC evaluates over all points and bit strings of the small
field before the run starts.

Deadlock is checked except where the system really may stop: a relayed withdrawal
once its jobs are used up, tests that have all ended (`fork_kit`), and a program
that has dropped its Tor clients after the last group. The other models stutter
at their end by a step of the code or of the world around it.

### Findings

- `streamed_event_reset`: the documentation of the stream's configuration says a
  success resets the pause; `succeeded` does so only when no pause is on record,
  and an elapsed one stays on record until a later `claim_slot` clears it.
- `pool_sync_remote_race`: the remote syncer takes the end of its range from both
  of its files, which two requests fetch; published anew in between, the range
  names blocks whose deposits the snapshot lacks. Nothing wrong is ever held
  (`ViewSound`): the gap is refused later, when the next deposit is spliced.
- `keychain_variants`: batches are combined when their pools are equal in every
  field, where the documentation of `Pool` says what makes a pool unique.
- `relayer_hangs`: `check` joins its two requests, so it does not exit early on
  "spent", as its comment says, when the relayer does not answer.
- Read, but without a run: `tornadocash/wasm/docs/custom-pools.md` passes a custom pool's paymaster
  as an object with an address and an adapter, where the constructor in
  `tornadocash/wasm/src/pool.rs` takes one hex string.

## Fairness

- `StreamedEvent`: weak fairness of `Next`. The stream is polled as long as the
  consumer wants items, and every request is answered in some way; that is the
  one assumption on the provider, and the stream itself has no timeout.
- `PoolSync`: weak fairness of the step of the call under way (every await ends).
  `CatchesUp` further assumes strong fairness of an unbounded RPC call, of a
  provider that names the chain's head, and of its logs: the session calls again
  and again, and the provider neither fails nor lags every time.
- `KeychainRecovery`: weak fairness of the scan's own steps, a loop without awaits
  other than the signer's. No property of a run rests on it.
- `RelayerClient`: weak fairness of time, of the wallet's task and of the
  provider's answer, and of the relayer's only if `Responsive`; the code sets no
  request timeout, which is what `relayer_hangs` is about. `RelayedWithdrawal` has
  the same fairness and no more: nobody need deposit, pay or prove.
- `SponsoredOperation`: weak fairness of the wallet's task and of time; a poll is
  answered within `Latency`, an assumption on the bundler since the client sets no
  timeout. Nothing is assumed of the bundler's including an operation.
- `ForkKit`: weak fairness of every spawn's steps (a spawn is polled and its
  deadlines pass), of the end of a test that has its instance, and of the death of
  a killed process. A test need not be cancelled, and a child need not start.
- `TorIsolation`, `MerkleTree` and `JsTree` have safety properties only and state
  no fairness.

## Proofs

The theorems hold for every value of the constants under the named assumptions
of the modules (`ConfigAssumption`, `ProviderAssumption`, `ShapeAssumption`,
`HashAssumption`, `BatchAssumption`, `SpongeAssumption`, `PoolTreeAssumption`,
`SymbolicAssumption`, `WidthAssumption`, `ThrownAssumption`, `CallAssumption`,
`BoundsAssumption`, `WalletAssumption`, `RelayerAssumption`, `NotesAssumption`,
`QuoteAssumption`, `BackupsAssumption`, `UniquePools`, `WidthsAssumption`,
`SegmentsAssumption`, `CurveAssumption`, `ScalarAssumption`,
`SubgroupAssumption`, `PedersenAssumption`, `SearchAssumption`,
`SponsoredAssumption`, `TorAssumption`, `KitAssumption`, and `NoneAssumption`, by which None is no number, name or record
that it stands in for), all evaluated by TLC on the runs' instances. A hypothesis
that only one theorem needs is in its statement. They are listed in
`PROJECT.json`; the argument of each:

- **StreamedEvent** (`Invariance`). `DeliveredPrefix` is not inductive: what is
  delivered next is what the oldest chunk has collected, and that is right only
  if its collected blocks and its remaining ranges partition it. `IInv` adds that
  the chunks lie end to end from the delivered prefix to the cursor
  (`ChunksTile`), inside the range, each of them partitioned by its work
  (`WorkPartition`), and that a stream that is done has no chunk left. A step
  either replaces one chunk by another of the same bounds (one lemma for all of
  `query_chunk`), appends a chunk, or removes the oldest. From it follow the
  prefix, completeness, the place of the error, and, step by step, that the
  stream implements `OrderedQuery`. Chunk size and concurrency of zero are
  included (the code raises both to one), as is any number of retries.
- **StreamedEvent, pacing**. `SlotsSpaced` is inductive because it speaks of the
  shared pause too: every claimed slot lies a stagger before it, a claim takes
  the pause for its slot and moves it a stagger on, and a further rate limit only
  moves it outwards. `ChunksNeverGrow`: the size only shrinks, and every chunk but
  the range's last was started with a size at least today's.
- **StreamedEvent, the pause** (`PauseBounded`, whatever delays the provider names
  as long as there is a longest one, `HintsBounded`: they are durations of 64
  bits). `PaceInv` says that every wait, and the shared pause, is no longer than
  the longest pause a rate limit can apply, or lies one stagger behind the wait of
  another request. Following these links from a wait that is too long would visit
  more waiting requests than there are at once, by the pigeonhole.
- **MerkleTree**. Throughout building and splicing, the level about to be hashed
  is the only one that does not fit the level below, and only between `start` and
  `stop`; a completed splice leaves none. It is proved for every depth, arity,
  set of batches and hash (typed by level), so `HashesChildren` does not rest on
  the symbolic hash of the run.
- **MerkleTree, proofs of leaves** (`OwnProofsVerify`, `ProofsVerify`). The
  verifier climbs by a recursive function; that each level's value is the node
  above is shown by taking the least level at which it is not. So between two
  splices every leaf's own proof verifies, and so does the proof of a leaf looked
  up by its value, whatever the hash. That no *other* leaf verifies in its place
  needs a hash without collisions (`CollisionFree`, a hypothesis of the theorem
  that TLC evaluates of the run's hash): the values on the two ways up then differ
  at every level.
- **MimcSponge** (`SpongeIsReference`). The code reduces after every product and
  keeps two halves that it swaps; the contract's recurrence takes fifth powers of
  whole numbers. That reducing early changes nothing is arithmetic on quotients
  and rests; that the fold over the round constants runs through the recurrence's
  halves is shown along the constants, one more round at a time.
- **PoolTree** (`RootIsContracts`). Both sides are compared with the tree over the
  leaves' values followed by empty ones without end. The client's nodes are such a
  tree, since every node, stored or not, is the hash of its children
  (`HashesChildren`). The contract never sees a tree: it keeps one left node of
  each level. The invariant of its insertions is that a level holds the left
  neighbour of the next leaf's ancestor whenever that ancestor is a right child;
  it holds because an insertion changes no node but the leaf's ancestors, leaves
  all to their right empty, and from a leaf to the next an ancestor stays or
  moves on by one. Nodes are the rows of their children here
  (`SymbolicAssumption`), so that one tree stands for all values of its leaves.
  The proofs about `MerkleTree` stand in the same module but cite neither this
  assumption nor `PoolTreeAssumption`.
- **JsTree** (`JsTreeIsMerkleTree`, `SplicesWhatWasPassed`). A call that throws in a
  conversion stutters for the core's tree; one that does not is a splice or a
  refusal of the leaves it decoded, which `Batches` has (`CallAssumption`). So
  everything above holds of the tree in JavaScript's hands (`JsInvariants`), whose
  hash has no collisions by `SymbolicAssumption`. That the leaves are the ones the
  caller wrote needs the positional notation both ways (`FieldWritten`, for every
  radix and width): bytes of two digits, taken in from the first, are the number
  that the digits write; a number's digits are what is left of it when it is divided
  by the radix again and again; and a number below the field's prime has none
  beyond the word. An Error is taken to be no number and no sequence
  (`ThrownAssumption`).
- **KeychainRecovery**, of a wallet with `Settles`. `Inv` says that the nonces of
  a pool's deposits have no gap as long as the limit, that one deposit is in
  flight at most, that a scan in progress knows every deposit below its nonce,
  and that batches hold all there is once settled. Hence a scan that has missed
  as often as the limit allows has passed every deposit. `RecoversExactly` adds
  that a scan has recovered exactly what was deposited below its nonce
  (`RecoveredFollows`). It is proved where no contract is described by two pools
  (`OneDescription`); `keychain_variants` shows that the wallet needs it.
- **PoolSync** (`TypeOK`, `ViewSound`, `CoveredUnlessTorn`, `RefusedOnlyIfTorn`,
  `ImplementsPoolSession`).
  Every answer is a selection from the chain's log, by kind and by blocks, of one
  or several files. Selections are given by the places they select, and the lemmas
  on them (of an append, a concatenation, a selection of a selection) are proved by
  induction on the sequence, the least counterexample again. `SyncInv` says that
  the session's leaves are the pool's first deposits in order, that deposits are
  numbered as they come, that caches and chunks hold what the chain had when they
  were made, and that a call under way has joined its files' events up to where it
  is. Splicing such an answer keeps the leaves a prefix, and covers the blocks
  answered for, if the answer starts no later than the leaves end. It always does,
  but for a call that read the remote cache's two files at different ages: that is
  the only premise of the proof that can fail, and `torn` records it. With that
  invariant each answer is a step of `PoolSession` (`AnswerIsStep`): the leaves become
  the pool's first, as many as before the block the answer names or as were known, if
  that is more; every other step but a mined block and a new start stutters there.
- **RelayerClient**. An answer of the chain was true when given, "spent" stays
  true, and an answer to a check that began after the landing is "spent" or an
  error. The relayer's own reports occur in no part of it.
- **RelayedWithdrawal**. Every step is a step of `RelayerClient` or leaves its
  variables alone, so the composition implements the client and inherits its
  theorems (`ImplementsClient`, `WithdrawalConfirmedByChain`,
  `WithdrawalReported`). `ProofFitsCall` is what joins the circuit's inputs, the
  call and the relayer's request: the invariant says that the proven arguments are
  still those of the note and the payer, and that a pool of native currency has no
  refund.
- **RelayedWithdrawal, amounts and texts** (`AmountIsExact`, `FindsItsPool`). The
  text of an amount is its digits with a point, trimmed of zeros and of the point;
  the proof follows the place of the last digit that is not zero, through the three
  shapes the text can take (no point, a whole part before it, a single zero before
  it). Texts of one number of decimals then differ when amounts do. A copy of a
  text, with its `0x` or without, gives its note; one with other hex digits gives
  another, since they have no checksum, of the same pool; one altered elsewhere
  either keeps the note's bits or is refused, and what it reads names the pool no
  longer. The text itself leads to the first pool of the catalogue with its hints,
  which is the note's own by `UniquePools`, the source's "uniquely defined by their
  chain_id, asset symbol, and amount", which TLC evaluates on all 31 pools.
- **RelayedWithdrawal, from deposit to withdrawal** (`WithdrawalInv`, hence
  `QuoteCovers`, `Withdrawable`, `WithdrawalTypeOK`). `Withdrawable` compares what
  the contract checks with what four steps left behind: the invariant carries the
  commitment from the deposit, the note and pool from the text, the payer from the
  quote, and the arguments from the proof. The formula of the quote is arithmetic on
  products and quotients; that the branch for a chain's own currency does not wrap
  is what `WidthsAssumption` says of the types and the catalogue, since the code
  multiplies unchecked there.
- **RelayedWithdrawal, the curve** (`AddIsCompleteHolds`, `UnpackIsInverseHolds`).
  Field arithmetic is arithmetic on whole numbers up to congruence modulo the
  prime. A sum of two points has an exception only if the product of their four
  coordinates, times `D`, is 1 or -1; with `A` a square, `D` would then be a
  square too, which `CurveAssumption` denies. So the third coordinate of a sum is
  never zero, `affine` never answers with its makeshift point, and projective points
  stand for points however they are scaled. For the same reason the divisor of `unpack_point` is
  never zero.
- **RelayedWithdrawal, the Pedersen hash** (`PedersenHashIs`, hence
  `PedersenIsReferenceHolds` and `CommitmentIsReferenceHolds`). Double-and-add is
  repeated addition in any group of points; that the subgroup is one, above all
  that its sum is associative, is `SubgroupAssumption`, the theory of the curve,
  which TLC evaluates on the small one. Multiples come round after the order, so a
  negative scalar lifted by it is the same multiple. A window read from its lowest
  bit upward is the digit that the reference reads from the highest down; what
  windows add to a segment's scalar stays within the order of the subgroup, which
  is what `PedersenAssumption` says of the sizes; and a segment's multiple is the
  sum of its windows', whether or not the last segment or window is full. That a
  commitment is an element of the field, which the type of a leaf needs, is part
  of the theorem and no longer assumed.
- **SponsoredOperation**. `FeeFits` is decided two awaits before it matters. The
  invariant carries the quote together with the gas and the price it was made
  for, through proving, signing, sending and waiting; the rest is the arithmetic
  of the buffer. That what was signed is still what is sent, and carries the real
  proof and the root of the caller's Merkle proof, is the rest of what `Valid`
  requires: an operation that nothing has overtaken, its root remembered by the pool,
  is accepted (`SponsoredIsValidHolds`). There the proof corrected the
  property. The buffer is rounded down, so for a cost below 100 units it is nothing
  and any rise of the rate is uncovered; from 100 units on it covers a rise by half
  its nominal hundredth, whatever the two roundings of the quote do
  (`BufferCoversRise`). `NotOvertaken` now says both. For the wait, a landing lies
  at most a pause after the request that missed it, and a request made after a
  landing is answered with it: hence `SeenInTime`, and the clock's bound in
  `TypeOK`.
- **TorIsolation**. `Unlinkable` is not inductive: what a circuit carries next
  depends on the pool of an idle connection, which may have outlived the value it
  was dialled for. `IInv` says that group, token and pool are one number
  throughout, that the circuit of every open connection was built for the pool
  that holds it and leads to the endpoint of its URL, that a connection in use is
  lent to one request, and that a circuit has carried only the group it was built
  for. A checkout is then a `Send` of `IsolatedSessions`, a new group an `Open`,
  and every other step a stutter.
- **ForkKit**. That a port has one listener concerns all that a spawn may have left
  behind: what an attempt killed still holds its port while the attempt after it
  runs one port further. No step but `Start` gives a process a port, and none
  moves a process to another (`StraysOrUp`), so it is enough that a start finds
  its port free. A bundler's marker line comes from the child itself; a relayer
  stack that nobody else disturbs is ready by its own server and redis because
  what answers on its ports is alive and the two ports differ from each other and
  from 0, which an unbound process has. `NoOrphans` is the safety half of
  `NothingLeft`: every child is dropped with `kill_on_drop`.

The theorems of `DeliveredPrefix`, `WorkPartition`, completeness and the place of
the error of the stream, of `FeeFits`, and of `RelayerClient`'s types stand by
themselves: no run lists those formulas, since `ImplementsOrderedQuery`,
`SponsoredIsValid` and `WithdrawalTypeOK` are checked, which contain or imply them.

Model-checked only: every liveness property (`StreamEnds`, `CatchesUp`,
`AwaitEnds`, `OperationEnds`, `SpawnEnds`, `NothingLeft`), since liveness under
fairness is beyond the prover. Of the facts that `MC_MerkleTree` assumes of hashes
and curve, `MimcPermutes`, `SegmentsInjective` and `MulScalarIsRepeatedAdd` are
evaluated over the small field only: that the sponge permutes is a property of its
exponent, distinct scalars have distinct points by the order of the base point, and
off the subgroup nothing says that the sum is associative.

What a recursive function computes is proved nonetheless where it is needed. The
library's induction theorems take an operator as a parameter and cannot be cited;
but that a set of natural numbers has a least element can, and the least
counterexample to a statement about all levels or lengths contradicts its step.

## Plan

Done, in this order:

1. `StreamedEvent` over `OrderedQuery`, with proofs.
2. `MerkleTree`, with proofs.
3. `PoolSync`, composing the syncers, snapshots and the session's tree, over
   `PoolSession`; with proofs.
4. `KeychainRecovery` and `RelayerClient`, with proofs.
5. `SponsoredOperation`: paymaster, user operation, bundler; with proofs.
6. `TorIsolation` over `IsolatedSessions`, with proofs and the refinement.
7. `RelayedWithdrawal`: notes, catalogue, quote, proof and call, composed with
   `RelayerClient`; with the proof that it implements it.
8. `MimcSponge`, `BabyJubjub`, `Pedersen` and `PoolTree`: the hashes, and the tree
   as the contract builds it; with proofs, those of the curve and the Pedersen hash
   in `RelayedWithdrawalProofs`.
9. `ForkKit`, with proofs.
10. `JsValues` and `JsTree`: the bindings' conversions before the tree; with proofs.

Left: the remaining conversions of the bindings, should they come to do more than
pass on.

## Not modelled

- Within notes and withdrawals: `prove_dummy` (in `SponsoredOperation` it is a
  proof no contract takes), `is_spent_array`, `is_known_root` and the verifier's
  address, which pass a call on, serialisation, and a pool's deployment block,
  paymaster and provenance.
- Within the hashes: Blake-256, whose outputs are candidates chosen for the
  small curve, the values of the round constants, the circuit and its proofs,
  which are a relation between inputs and a tuple.
- Within the bindings: getters, the proof's wrappers, and the constructors and
  calls of pools, assets, notes, quotes and the remote syncer. They convert by
  the functions that `JsValues` models and pass on.
- Within `fork-kit`: Anvil, the deployment of contracts onto the fork, and the
  end-to-end tests, which are sequences of calls to the above.
- User operations: factories, operations without a sponsor, the older simple
  account, the calls an operation makes.
- Throughout: reorganisations (the code takes blocks for final and has no block
  hashes to tell), a provider that answers a log query from a node that is behind
  the one that named the head, requests that are never answered other than the
  relayer's, JSON, ABI and URL encoding, TLS and HTTP headers. Block numbers,
  gas limits and times are natural numbers, far below the widths the code gives
  them, except in the quote and the bindings, where overflow is modelled.
