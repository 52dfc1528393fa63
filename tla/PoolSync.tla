------------------------------- MODULE PoolSync -------------------------------
(***************************************************************************)
(* A wallet session that keeps a pool's Merkle tree and spent notes up to  *)
(* date with the syncers of crates/tornadocash/syncer: by JSON-RPC         *)
(* (rpc.rs), from a cache of two files (remote.rs) and from the chunks of  *)
(* a Saga manifest (saga/).  Each call awaits several answers, and the     *)
(* chain, the cache and the manifest move on between them.  A snapshot is  *)
(* validated (core/src/event.rs) and spliced (core/src/merkle_tree.rs) in  *)
(* the step that receives the last answer.                                 *)
(*                                                                         *)
(* A deposit stands for its commitment by its leaf index.  The logs of a   *)
(* block range are received in one step: StreamedEvent delivers all of     *)
(* them in order or fails.  Chain, cache and publisher are honest, and     *)
(* blocks are final.  A definition D_Suffix is D with a plausible bug.     *)
(***************************************************************************)
EXTENDS Integers, FiniteSetsExt, SequencesExt

CONSTANTS
  MaxHead,      \* the chain stops here
  Deployed,     \* the block that created the pool
  BlockLogs,    \* what a block may hold: sequences of kinds of logs
  Sources,      \* the syncers the session uses
  ToBlocks,     \* the bounds it asks for, exclusive
  MaxBlock      \* the largest block number, which stands for no bound

Kinds == {"deposit", "withdrawal", "other"}

ASSUME BoundsAssumption ==
  /\ MaxHead \in Nat /\ Deployed \in 0..MaxHead
  /\ MaxBlock > MaxHead /\ MaxBlock \in ToBlocks
  /\ ToBlocks \subseteq Nat
  /\ BlockLogs \subseteq Seq(Kinds)
  /\ Sources \subseteq {"rpc", "remote", "saga"}

VARIABLES
  head, log,          \* the chain: its latest block, the pool's logs in order
  cached,             \* the block up to which the cache's files are published
  sealed, hot,        \* the ends of Saga's sealed chunks and of its hot head file
  manifest,           \* the chunks Saga's manifest lists, the hot head last
  call,               \* the syncer call in progress
  cursor,             \* the session's next block to ask for
  leaves, spent,      \* the session's tree, and the withdrawals it knows of
  refused,            \* the last snapshot did not validate or did not fit
  torn                \* a call has read the cache's two files at different ages

chainVars == <<head, log>>
sagaVars == <<sealed, hot, manifest>>
sessionVars == <<cursor, leaves, spent, refused, torn>>
vars == <<head, log, cached, sealed, hot, manifest, call, cursor, leaves, spent, refused,
          torn>>

-----------------------------------------------------------------------------
AtLeast(a, b) == IF a < b THEN b ELSE a
AtMost(a, b) == IF a < b THEN a ELSE b

\* A log of the pool's contract, and a chunk in Saga's manifest: the blocks
\* from..to - 1 (`hot`: those of the head file) and the digest of their logs.
Event == [kind : Kinds, block : Nat, leaf : Nat]
Ref == [from : Nat, to : Nat, hot : BOOLEAN, digest : Seq(Event)]

Idle == [phase |-> "idle"]

\* The members of `keep` in a sequence, in order (a recursive function: the
\* provers cannot look into SelectSeq).
Selected(s, keep) ==
  LET upTo[n \in 0..Len(s)] ==
        IF n = 0 THEN <<>>
        ELSE IF s[n] \in keep THEN Append(upTo[n - 1], s[n])
        ELSE upTo[n - 1]
  IN  upTo[Len(s)]

\* The logs of the blocks from..to - 1, in order, and those of one kind.
Within(events, from, to) ==
  Selected(events, {e \in Event : from <= e.block /\ e.block < to})
OfKind(events, kind) == Selected(events, {e \in Event : e.kind = kind})

\* A log of an unknown kind is skipped when it is decoded.
Decoded(events) == Selected(events, {e \in Event : e.kind # "other"})

LeafIndices(events) ==
  LET deposits == OfKind(events, "deposit") IN [k \in DOMAIN deposits |-> deposits[k].leaf]
Nullifiers(events) == {e.leaf : e \in ToSet(OfKind(events, "withdrawal"))}

\* Snapshot::new: events within the range, deposits with consecutive leaves.
SnapshotValid(from, to, events) ==
  /\ \A e \in ToSet(events) : from <= e.block /\ e.block < to
  /\ LET indices == LeafIndices(events)
     IN  \A k \in 2..Len(indices) : indices[k] = indices[k - 1] + 1

\* splice_events: the deposits go where the first one belongs, which must not
\* be past the end of the tree.  MerkleTree shows what a splice does.
EmptyLeaf == -1
SplicedAt_Cut(index, batch) ==
  [k \in 1..(index + Len(batch)) |-> IF k > index THEN batch[k - index] ELSE leaves[k]]
SplicedAt(index, batch) ==
  [k \in 1..AtLeast(index + Len(batch), Len(leaves)) |->
     IF k \in (index + 1)..(index + Len(batch)) THEN batch[k - index]
     ELSE IF k \in DOMAIN leaves THEN leaves[k] ELSE EmptyLeaf]
Spliced_FromOne(events) ==
  LET indices == LeafIndices(events)
  IN  IF indices = <<>> THEN leaves ELSE SplicedAt(indices[1] + 1, indices)
Spliced(events) ==
  LET indices == LeafIndices(events)
  IN  IF indices = <<>> THEN leaves ELSE SplicedAt(indices[1], indices)
Spliceable_Anywhere(events) == TRUE
Spliceable(events) ==
  LET indices == LeafIndices(events) IN indices # <<>> => indices[1] <= Len(leaves)

\* A syncer answers with the events of from..to - 1.  The session splices them
\* and goes on from `to`, or learns that they do not fit.
Answer(from, to, events) ==
  /\ call' = Idle
  /\ IF SnapshotValid(from, to, events) /\ Spliceable(events)
     THEN /\ leaves' = Spliced(events)
          /\ spent' = spent \cup Nullifiers(events)
          /\ cursor' = to
          /\ refused' = FALSE
     ELSE /\ refused' = TRUE
          /\ UNCHANGED <<leaves, spent, cursor>>
-----------------------------------------------------------------------------
Init ==
  /\ head = Deployed
  /\ log = <<>>
  /\ cached = 0
  /\ sealed = Deployed
  /\ hot = Deployed
  /\ manifest = <<>>
  /\ call = Idle
  /\ cursor = 0
  /\ leaves = <<>>
  /\ spent = {}
  /\ refused = FALSE
  /\ torn = FALSE

\* A block with some of the pool's logs.  A note is withdrawn after its deposit.
Numbered(kinds) ==
  LET before(kind, k) ==
        Len(OfKind(log, kind)) + Len(Selected(SubSeq(kinds, 1, k - 1), {kind}))
  IN  [k \in DOMAIN kinds |->
         [kind |-> kinds[k], block |-> head + 1, leaf |-> before(kinds[k], k)]]

Mine(kinds) ==
  /\ head < MaxHead
  /\ head' = head + 1
  /\ log' = log \o Numbered(kinds)
  /\ Len(OfKind(log', "withdrawal")) <= Len(OfKind(log', "deposit"))
  /\ UNCHANGED <<cached, sagaVars, call, sessionVars>>

\* The cache's two files are published anew, both at once.
PublishCache ==
  /\ "remote" \in Sources
  /\ cached < head
  /\ cached' = head
  /\ UNCHANGED <<chainVars, sagaVars, call, sessionVars>>

\* Saga rewrites its hot head file, or seals it, and then its manifest.
ChunkRef(from, to, isHot) ==
  [from |-> from, to |-> to, hot |-> isHot, digest |-> Within(log, from, to)]

WriteHot ==
  /\ "saga" \in Sources
  /\ hot <= head
  /\ hot' = head + 1
  /\ UNCHANGED <<chainVars, cached, sealed, manifest, call, sessionVars>>

Sealed(refs) == Selected(refs, {ref \in Ref : ~ ref.hot})

ListHot ==
  /\ hot > sealed
  /\ manifest' = Append(Sealed(manifest), ChunkRef(sealed, hot, TRUE))
  /\ UNCHANGED <<chainVars, cached, sealed, hot, call, sessionVars>>

Seal ==
  /\ hot > sealed
  /\ manifest' = Append(Sealed(manifest), ChunkRef(sealed, hot, FALSE))
  /\ sealed' = hot
  /\ UNCHANGED <<chainVars, cached, hot, call, sessionVars>>
-----------------------------------------------------------------------------
\* The session calls a syncer for the blocks it does not have yet.
Call(source, to) ==
  /\ call = Idle
  /\ call' = [phase |-> source, from |-> AtLeast(cursor, Deployed), to |-> to]
  /\ UNCHANGED <<chainVars, cached, sagaVars, sessionVars>>

\* The session starts over with the tree it has.
Rewind ==
  /\ call = Idle
  /\ cursor > 0
  /\ cursor' = 0
  /\ UNCHANGED <<chainVars, cached, sagaVars, call, leaves, spent, refused, torn>>

\* Any await may fail, and the call with it.
Fail ==
  /\ call # Idle
  /\ call' = Idle
  /\ UNCHANGED <<chainVars, cached, sagaVars, sessionVars>>

\* What a source that ends before block `stop` can serve of the call.
ServedTo(stop) == AtLeast(AtMost(call.to, stop), call.from)

\* RpcSyncer::block_range.  The provider may be behind the chain.  An empty
\* range is answered without asking for logs.
RpcStop_LatestExcluded(latest) == latest
RpcStop(latest) == latest + 1
RpcHead(latest) ==
  /\ call.phase = "rpc"
  /\ LET to == ServedTo(RpcStop(latest))
     IN  IF to <= call.from
         THEN Answer(call.from, to, <<>>)
         ELSE /\ call' = [call EXCEPT !.phase = "rpc_logs", !.to = to]
              /\ UNCHANGED <<cursor, leaves, spent, refused>>
  /\ UNCHANGED <<chainVars, cached, sagaVars, torn>>

\* The provider answers the log query from to_block inclusive.
QueriedTo_Exclusive == call.to - 1
QueriedTo == call.to
RpcLogs ==
  /\ call.phase = "rpc_logs"
  /\ \E events \in {Decoded(Within(log, call.from, QueriedTo))} :
       Answer(call.from, call.to, events)
  /\ UNCHANGED <<chainVars, cached, sagaVars, torn>>

\* RemoteSyncer: the deposits file, then the withdrawals file.
RemoteDeposits ==
  /\ call.phase = "remote"
  /\ call' = [phase |-> "remote_withdrawals", from |-> call.from, to |-> call.to,
              cached |-> cached, deposits |-> OfKind(Within(log, 0, cached + 1), "deposit")]
  /\ UNCHANGED <<chainVars, cached, sagaVars, sessionVars>>

LatestBlock(events) == Max({e.block : e \in ToSet(events)} \cup {0})

RemoteWithdrawals ==
  /\ call.phase = "remote_withdrawals"
  /\ LET withdrawals == OfKind(Within(log, 0, cached + 1), "withdrawal")
         to == ServedTo(LatestBlock(call.deposits \o withdrawals) + 1)
     IN  Answer(call.from, to, Within(call.deposits, call.from, to)
                                 \o Within(withdrawals, call.from, to))
  /\ torn' = (torn \/ call.cached # cached)
  /\ UNCHANGED <<chainVars, cached, sagaVars>>

\* SagaSyncer: the manifest, then every chunk that overlaps the range.
LastBlock == IF manifest = <<>> THEN Deployed ELSE Last(manifest).to
Overlapping_LastBlock(ref, from, to) == ref.from < to - 1 /\ ref.to > from
Overlapping(ref, from, to) == ref.from < to /\ ref.to > from

SagaManifest ==
  /\ call.phase = "saga"
  /\ LET to == ServedTo(LastBlock)
     IN  call' = [phase |-> "saga_chunks", from |-> call.from, to |-> to,
                  refs |-> Selected(manifest, {ref \in Ref : Overlapping(ref, call.from, to)}),
                  events |-> <<>>]
  /\ UNCHANGED <<chainVars, cached, sagaVars, sessionVars>>

\* The bytes a chunk's file holds now: sealed files stay, the hot head's is
\* rewritten in place.
FileOf(ref) == IF ref.hot THEN Within(log, sealed, hot) ELSE ref.digest

\* verify_and_decompress_chunk: the digest is that of the file's contents.
Verified_Unchecked(ref) == TRUE
Verified(ref) == FileOf(ref) = ref.digest

\* parse_chunk_events: the file is in order and within the chunk's range.
Parsed(ref) == \A e \in ToSet(FileOf(ref)) : ref.from <= e.block /\ e.block < ref.to

SagaChunk ==
  /\ call.phase = "saga_chunks"
  /\ call.refs # <<>>
  /\ LET ref == Head(call.refs)
     IN  /\ Verified(ref) /\ Parsed(ref)
         /\ call' = [call EXCEPT !.refs = Tail(@),
                      !.events = @ \o Decoded(Within(FileOf(ref), call.from, call.to))]
  /\ UNCHANGED <<chainVars, cached, sagaVars, sessionVars>>

SagaEnd ==
  /\ call.phase = "saga_chunks"
  /\ call.refs = <<>>
  /\ Answer(call.from, call.to, call.events)
  /\ UNCHANGED <<chainVars, cached, sagaVars, torn>>

CallStep ==
  \/ Fail
  \/ \E latest \in {head - 1, head} : RpcHead(latest)
  \/ RpcLogs
  \/ RemoteDeposits \/ RemoteWithdrawals
  \/ SagaManifest \/ SagaChunk \/ SagaEnd

Next ==
  \/ \E kinds \in BlockLogs : Mine(kinds)
  \/ PublishCache \/ WriteHot \/ ListHot \/ Seal
  \/ \E source \in Sources, to \in ToBlocks : Call(source, to)
  \/ Rewind
  \/ CallStep

\* Every await ends, in an answer or in a failure.  The session keeps calling
\* the RPC syncer without a bound, and the provider does not fail, or lag
\* behind the chain, every time.
Fairness ==
  /\ WF_vars(CallStep)
  /\ SF_vars(Call("rpc", MaxBlock))
  /\ SF_vars(RpcHead(head) /\ call.to = MaxBlock)
  /\ SF_vars(RpcLogs /\ call.to > head)

Spec == Init /\ [][Next]_vars /\ Fairness
-----------------------------------------------------------------------------
Deposits(to) == OfKind(Within(log, 0, to), "deposit")
Withdrawn(to) == Nullifiers(Within(log, 0, to))

\* Every variable has its type.
TypeOK ==
  /\ head \in Deployed..MaxHead
  /\ Range(log) \subseteq [kind : Kinds, block : (Deployed + 1)..head, leaf : Nat]
  /\ cached \in 0..head
  /\ sealed \in Deployed..hot /\ hot \in Deployed..(head + 1)
  /\ call.phase \in {"idle", "rpc", "rpc_logs", "remote", "remote_withdrawals", "saga",
                      "saga_chunks"}
  /\ cursor \in 0..(MaxHead + 1)
  /\ Range(leaves) \subseteq Nat
  /\ spent \subseteq Nat
  /\ refused \in BOOLEAN /\ torn \in BOOLEAN

\* The session's leaves are the pool's first deposits, each in its place, and
\* the notes it takes for spent are spent, whatever calls failed or overlapped
\* and wherever it starts over.
ViewSound ==
  /\ \E n \in 0..Len(OfKind(log, "deposit")) : leaves = [k \in 1..n |-> k - 1]
  /\ spent \subseteq Withdrawn(head + 1)

\* The session has every deposit and every withdrawal of the blocks it has been
\* answered for: a snapshot holds the events of the whole range it names
\* (event.rs: "events emitted by a pool within a given block range").
CursorCovered ==
  /\ cursor <= head + 1
  /\ Len(leaves) >= Len(Deposits(cursor))
  /\ Withdrawn(cursor) \subseteq spent

\* As long as no call has read the two files of the remote cache at different
\* ages, any mix of the three syncers covers what it was answered for.
CoveredUnlessTorn == ~ torn => CursorCovered

\* Snapshots of honest sources follow on from each other: none has a gap or
\* starts past the end of the tree (Snapshot::new, splice), in any mix of the
\* syncers, unless a call has read a cache that was being published.
RefusedOnlyIfTorn == refused => torn

\* The session by its view and the chain alone.
Session == INSTANCE PoolSession

\* Whatever syncers answer, fail or are overtaken, the session is PoolSession: each
\* answer adds just what the blocks it names hold and forgets nothing, also where it
\* repeats blocks or ends before what an earlier one knew (sync, Snapshot::new, splice).
ImplementsPoolSession == Session!Spec

\* The chain stops growing at MaxHead or before: from then on the session
\* covers all of it, again and again, whichever calls fail and however often it
\* starts over (rpc.rs: block_range stops after the latest block).  Once it has
\* read a cache that was being published it may miss deposits, and be refused
\* every later one.
CatchesUp == []<>(cursor > head \/ torn)
===============================================================================
