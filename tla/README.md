# A TLA+ model of oteldb/storage

`oteldb/storage` is a Go library that stores OpenTelemetry signals as immutable
columnar parts in an object backend, with a write-ahead log for what has not been
flushed yet, and a cluster mode in which the owners of a shard replicate, mirror and
repair one another. This directory models the parts of it whose correctness depends on
what a test hardly reaches: the order of concurrent steps, writes whose outcome is
unknown, crashes and restarts, stale views, boundaries of formats and of counters.

Contents: [1 the system](#1-the-system), [2 the modules](#2-the-modules),
[3 the runs](#3-the-runs), [4 fairness](#4-fairness), [5 the proofs](#5-the-proofs),
[6 what is only model-checked](#6-what-is-only-model-checked),
[7 what each module leaves out](#7-what-each-module-leaves-out),
[8 disagreements](#8-where-code-and-comments-disagree),
[9 not modelled](#9-not-modelled).

## 1. The system

A write goes facade, admission, engine. Under the writer lock a record engine logs the
stream's identity if the stream has no buffer, logs the records, and adds them to the
head. A **flush** detaches the head and seals the log under the lock, writes parts off
it, commits the bucket index and then removes the segments. A **merge** pins a snapshot
of the parts, drops what retention emptied, rewrites a run of the rest and commits the
swap. A **commit** is a compare-and-swap on the version of the index object last seen;
losing it means rebasing on the winner, and an answer that is lost leaves the outcome
unknown. **Recovery** reads the index, deletes what it does not name, sets the log's
generation and replays the segments above the watermark.

In a cluster a shard has owners. The first of them is its **primary** while it holds a
claim in etcd, bound to a lease it must keep alive and stops trusting before it can have
run out. Where the owners share an object store they commit the same index object, and
the claim's term fences a displaced one. Where they keep private backends the primary
replicates rows, the others mirror its parts, and a read is taken from one owner unless
it knows that it is short. Parts that are lost become **wants**, which a repair pass
satisfies from any owner's parts by the blocks they descend from.

## 2. The modules

| part | code | module | state and actions |
|---|---|---|---|
| record engine | `recordengine/{engine,append,flush,head,index,maintenance,reclaim,retention}.go` | `RecordEngine` | log frames, index and writes in flight (`limbo`), head, detached buffers, part list, retiring parts, index bookkeeping (`indexed`, `removals`, `foreign`, `pending`); one action per append step, flush phase, merge phase, reclaim, crash, recovery |
| record merge | `recordengine/merge*.go`, `compact.go` | `RecordMerge` | one merge from selection to commit: memory grants, cursors and heap, per-bucket writers, retry after disorder |
| record reads | `recordengine/{engine,fetch*,limitscan,granule,...}.go` | `RecordFetch` | a fetch plans under the lock and decodes off it, beside append, flush, merge, reclaim |
| profile symbols | `recordengine/sidestore.go`, `signal/profile/` | `SideStore` | the symbol accumulator, its snapshot in a flush, sidecars, a replica; the five content-addressed tables |
| metrics engine | `engine/` | `MetricsEngine`, `MergeLadder` | one series' samples in head, flush, parts, recent tier; what a merge selects |
| decode budget, block cache | `engine/budget.go`, `engine/blockcache.go`, `query/fetch/scope.go` | `DecodeBudget`, `BlockCache` | admission of decoded bytes; sharing, eviction and reuse of decoded buffers |
| write-ahead log | `wal/` | `Wal` | segments on a disk that tears writes, fails to sync and loses power |
| memory pool | `internal/memlimit/pool.go` | `MemPool` | the queue of merges waiting for bytes |
| file backend | `backend/file/` | `FileBackend` | files, temporary files, directories and what of them is on the disk |
| parts | `block/` | `BlockColumn`, `BlockPart`, `DictColumn` | columns of frames and granules, manifest, marks, publication order; columns rewritten from decoded granules |
| codecs | `encoding/chunk/`, `encoding/bitstream/`, `pool` | `BitStream`, `NumberCodecs`, `BytesCodec`, `ByteIntMap` | number and byte columns written and read back; the interning map |
| data model | `otlp/`, `signal/` | `Otlp`, `SpanRecords` | requests decoded from the wire against the pdata conversion; spans numbered and stored |
| bucket index | `backend/bucketindex/` | `IndexCodec`, `Repairs` | the index object's operations and byte format, versions 1 to 8, and its block intervals; the algebra of what holds what (in `Repairs`) |
| shared index | `recordengine/index.go`, `internal/indexcommit/` | `SharedIndex` | several replicas' engines on one prefix: claim, load, commit (check, build, swap, rebase), establish, flush, merge, reclaim, restart |
| claims | `cluster/etcd/`, `cluster_fence.go` | `Ownership`, `Claim` | leases, fence windows, claims, rejoin, shutdown; `Claim` is the abstract specification |
| replication and reads | `cluster.go`, `cluster_completeness.go`, `cluster_bootstrap.go`, `cluster/replica` | `Shard` | writes and their quorum, mirroring, gaps, restart, failover, a read |
| mirroring | `cluster/partsync/` | `PartSync` | a pass step by step, beside flush, merge, expiry, takeover and power loss |
| repair | `internal/repair/`, `*/repair.go`, `*/wants.go` | `Repairs` | wants, holes, passes, commits, merges and mirroring between |
| remote reads | `cluster/`, `cluster.go` | `RemoteRead` | push-down, request and answer codecs, serving, folding of the shards |
| fan-out | `query/fetch/{merge,mergeiter}.go` | `FetchMerge` | the k-way merge of children |

`MCRecordEngine`, `MCSharedIndex`, `MCOwnership`, `MCShard` instantiate one component
each. `MCNode`, `MCCluster`, `MCStore` and `MCLive` hold several: the variable
`which` says which component a behaviour runs, and the slots `v1`, `v2`, ... hold that
component's variables, so that one run asks one question of a group of components that
do not interact. A property of such a module is a conjunction of its components'
properties, each guarded by `which`. The proof modules extend the component's module:
`RecordEngineProofs`, `RecordEngineDurability`, `SharedIndexProofs`, `SharedIndexRows`,
`SharedIndexHandoff`, `SharedIndexNames`, `OwnershipProofs`, `ShardProofs`.

The modules meet where one's assumption is another's theorem: `SharedIndex` takes claims
as `Claim` gives them, and `Ownership` is shown to implement `Claim`; `RecordEngine` and
`MetricsEngine` take the log as keeping what it acknowledged, which `Wal` checks, and the
objects as durable once written, which `FileBackend` checks; `Repairs` takes the interval
operations as set operations, which `IndexCodec` checks the code's intervals to be.

## 3. The runs

| run | question | bounds, and why they are enough |
|---|---|---|
| `record_core` | Is anything acknowledged lost or hidden before it expires, anything named deleted, anything returned twice anew; does a merge, drop or reclaim hide what a fetch returned, a lone writer take its own part for a rival's, the watermark fall back? | two batches, two part prefixes, three generations: a flush that aborts or crashes, one that follows it, a merge and a retention drop beside it, an unconfirmed commit that lands late; one batch that the disk may refuse and retention may expire, one stream that rejects |
| `record_exactly_once` | *(violation)* Is a replay exactly-once? | as `record_core`, nothing expires |
| `shared_faults` | Two replicas, handoffs, a lost answer that lands late, a restart: no rows named twice, nothing named missing, no displaced commit, generations rise, no rows dropped, no watermark slot lowered | two nodes, two parts, two tenures, one lost answer, one restart, two attempts |
| `shared_carry` | *(violation)* Does the load that establishes a tenure bring merged inputs back? | three tenures, one lost answer |
| `ownership_claim` | Is a term that a node reads backed by etcd, and is the protocol a `Claim`? | two nodes, three leases, TTL 3, margin 1, one fault |
| `ownership_live` | Does the one primary the rings agree on end up with the claim? | two nodes, two leases, one fault, one ring change |
| `node` | file backend, log, memory pool, decode budget, metrics engine, merge ladder | two directories and keys under two processes and three operations, or one process and five; three records and four segments; four callers; three timestamps and three parts |
| `shard` | Is an answer of one owner whole, or known to be short? | three small shards: two owners of four nodes and two rows, with two crashes or losses and one lost request or answer; three owners, the default replication factor, and one row, with the same faults; two owners and a third row that is late, with one fault. A replica that comes back without its head, a primary that falls over before it has mirrored, a quorum that leaves one owner out, a late row that a refresh drops |
| `shard_gap` | *(violation)* Does a gap close only on parts that hold what was lost? | two owners, three rows, one crash |
| `cluster` | repair and index format, mirroring, remote reads, fan-out; OTLP batches, spans, encodings, interning, block cache | three flushes, five parts, one loss, one pass; eight rows over two shards under every combination of operation, matchers and conditions; three children; small words and bytes, every group, window, unit and overflow boundary of them; messages with fields in both orders, repeated and damaged |
| `store` | parts, dictionary columns, record merge, record fetch, profile symbols | five rows in granules of two, every kind of column and writer; six appended granules with a generation counter that wraps at three; layouts with disorder; four rows in three filter modes |
| `liveness` | Does an acknowledged batch end up committed, a kept claim end up established, a waiting caller answered? | two batches, two faults; two nodes, two tenures, one lost answer; three callers; three reads, two of them of one query |

What each group property of the three portfolio runs says is in the comment above it;
each is the conjunction of these component properties:
`FilesDurable` (what was reported done survives a power cut, a directory remembered as
durable is), `LogDurable` (`AckedKept`, `PromisedKept`, `NoResurrection`, `TailOnly`),
`PoolServes` (bytes conserved, no idle bytes, in order; for the budget: bytes accounted,
no read left waiting for nothing or for its own query), `SamplesKept` (kept, resolvable,
freshest value wins, recent tier covers, no late admission), `MergesConverge`;
`LineageSound` (rows named once, nothing forgotten; an index reads back as saved, has one
form, its intervals are sets, what is saved is sound), `MirrorSound`, `RemoteExact`,
`FanOutExact`, `BatchesFaithful`, `SpansFaithful`, `EncodingsExact` (columns decode to
what was encoded, lookups find what was interned, a cached block a reader looks at is not
overwritten); `PartsExact`, `DictExact`, `MergeExact`, `MergeWithinMemory`, `FetchExact`,
`SymbolsResolve`. Where the code does less than it says, the component's
property is stated with exactly the exception that section 8 describes, and its comment
names it; the rest of the behaviours is judged in full.

The `node` run takes the two callers, and the two keys, of the file backend as symmetric
(`Alike`); the other components do not mention them.

Deadlock checking is off where a bounded input runs out (every part written, every batch
sent); the progress properties say what must not stop.

## 4. Fairness

* `liveness`, record engine: weak fairness of the flush and of the merge loop and of
  recovery. Each is one goroutine of the maintenance worker, started again on every tick
  (`storage.go`), and none waits for another outside the locks, which are released in the
  same step. Faults are bounded (`MaxFaults`), because a store that fails for ever commits
  nothing. The merge's rewriting is left out of this run: republishing is what commits an
  unconfirmed part.
* `liveness`, shared index: weak fairness of `Progress(n)`, a node's loop. Losing the
  claim is not fair, nor is a late write.
* `liveness`, pool: weak fairness of waking a granted caller and of a holder's release
  (`defer` in the callers). Cancelling is not fair. Decode budget: weak fairness of the
  steps that wait for nothing, and of the timer `acquire` starts while it waits.
* `ownership_live`: weak fairness of each process, of the clock and of etcd's expiry.

## 5. The proofs

All theorems hold for every value of the constants that satisfies the named assumptions
of the modules (types and bounds; `FenceType`: answers of etcd are noticed within the
fence margin). Each follows from an inductive invariant that TLC has checked on an
instance first.

**Record engine, safety** (`RecordEngineProofs`). `TypeCorrect`, `NamedPresentHolds`,
`NoForeignHolds`, `WatermarkNeverFallsBack` from `SafeInv`. `NamedPresent` alone is not
inductive: a part about to be deleted may be one that a write in flight names. `SafeInv`
therefore speaks of the *candidates*, the stored index and every write that may still
land: what they name is accounted for in the engine's bookkeeping (`AccountInv`), minted
(`MintedInv`), apart from everything that may be deleted (`ApartInv`) and present
(`PresentInv`); their watermarks lie below every frame still to be written (`EpochInv`).
`Unduplicated` (`NoNewDuplicates`) and `ReadableStays` (`StaysReadable`), both with
retention at work, add `WorkInv`: a flush has dealt every detached batch to exactly one
output or still has it, a merge every batch of its sources to exactly one output, has it
left, or cut it off as expired.

**Record engine, durability** (`RecordEngineDurability`). `NothingLost` and
`AlwaysReadable` for `Expirable = {}`, from `DurableInv`: every candidate index, and the
parts in memory from which the next is built, recover every acknowledged batch *and* know
every stream whose identity the next append would not log again; past the sealed segment
lies everything that neither parts nor detached buffers hold (`TailInv`). With retention
the statement would have to say when a batch may go, which is what `StaysReadable` says.

**Shared index** (four modules, each extending the one before).
`SharedIndexProofs`: `SharedTypes`, `GenerationsRise`, `DisplacedNeverCommits`. A node at
the stored version knows its generation (`KnowInv`), a candidate is one version above what
its builder knew (`CasInv`), and whatever may land carries a tenure not below the last
one that landed (`BuildInv`, `LimboInv`, `WriteInv`).
`SharedIndexRows`: `NothingIsDropped`, fenced or not. Rows are compared, not names:
`RowsAt` follows what an engine indexed and removed into what its commit will hold, and
`Keeps` says the same of every write that may still land.
`SharedIndexHandoff`: `SlotsNeverFall`, for `Clustered`. A node is never behind its own
slot, and where it is ahead, it has a flushed part that only it can commit (`Ahead`), so
that no write of another can have overtaken it. The assumption is needed: without a claim
a restart's write that lands late lowers the slot, and TLC shows it.
`SharedIndexNames`: `NamedOnce` and `NamedIsPresent`, for `Clustered` and until an answer
of the store has been lost (`lost = 0`; a restart's own write may still land late). A
tenure leaves its marks on one node only (`MarkInv`); the holder's parts are the stored
index's and its own unconfirmed ones (`Synced`); what a node has written and no index
names is in nobody else's reach, neither to name nor to delete (`OwnAt`). The condition
is needed: `shared_carry` shows the counterexample after a lost answer at three tenures.

**Ownership** (`OwnershipProofs`). `OwnershipTypes`; `ClaimBackedHolds`: a node inside its
fence window that reads a term is the claim's owner under that revision, from
`LeaseInv` (a lease is one node's), `FenceInv` (the window closes no later than the lease),
`HeldInv` (while its lease lives, what a node recorded is the claim) and `TermInv`;
`ImplementsClaim`: under the same invariant every step of the protocol is a step of `Claim`
or leaves its variables alone.

**Shard** (`ShardProofs`). `AnswersWhole`, for any ring, any timestamps and any number of
faults: an answer given as complete holds every acknowledged row that is newer than all
written before it, aside from the rows the answering owner cannot know of: those that
never reached it, those it lost without a record (`blind`), and those it lost after the
read was planned (`read.miss`). `blind` holds rows, not nodes: what an owner had when a
write made its engine anew, and what it still misses when its gap closes early; every
other row that reached it must be in the answer. The primary keeps every on-time row
written (`KeepInv`), and what an index names has none missing before its newest (`Down`); of
the on-time rows that reached it an owner holds each, owes it, or knows of a gap that
begins before it, but for the blind ones (`CoverInv`); `ReadInv` ties a read's plan to the
gap it was planned on. Late rows are left out because a refresh drops them by their time
(section 8, 6), rows that never reached an owner because a quorum of three leaves one out
(8, 10), and the blind ones because of 8.5 and 8.7.

A few facts need a least element; where they do, they rest on the well-foundedness of the
natural numbers, not on induction over data.

## 6. What is only model-checked

* `EventuallyCommitted`, `EventuallyEstablished`, `Answered`, `Settles`: liveness.
* `NoOverlap` and `NamedPresent` of the shared index after a lost answer: at two tenures
  they hold (`shared_faults`), at three they do not (section 8).
* The properties of the `node`, `cluster` and `store` runs. Most are about what recursive definitions compute (codecs, heaps, ladders, lineage), for
  every input, which needs an induction over data that the prover cannot do.

## 7. What each module leaves out

* **RecordEngine**: an index write in flight may land after a crash but not after the
  restart; a commit is atomic with the rebase that precedes it (`SharedIndex` takes it
  apart); one life never reloads its parts, so a merge's sources are live when it
  publishes. Trimming of the removal list, wants and holes, tenures, admission by
  retention, the side store are elsewhere or left out.
* **SharedIndex**: log, head, retention, wants, the orphan sweep; versions are counters; a
  restart frees the claim.
* **Ownership**: one shard; time in ticks, as what is left of each lease and window; one
  waiting call per node; a ring view is a Boolean; the node that closes has stopped its
  maintenance. A claim whose grant was answered to a fenced caller is tracked by nobody
  until its lease ends: `Settles` exempts it.
* **Shard**: a fixed ring, one series, one read at a time, flush and mirror atomic; a node
  fenced by a failed index load, the first case of `canAnswer`, is left out, as are such
  loads. A node that owns nothing of the shard only asks.
* **PartSync**: two nodes, merges with one output, tombstones never trimmed (the code keeps
  4096), no erasure-coded keep filter, no forced pass, one step for a repair, a part is
  wanted after one miss instead of three, power fails during passes only.
* **Repairs**: one other owner, atomic commits of one tenure, fetch mode uniform per pass.
  Lineage ages out one claim at a time.
* **RemoteRead**: frames are token sequences; limits only where the code pushes them;
  hedging between owners is in `Shard`.
* **FetchMerge**: the concurrent pulls of one `Next` are one step. A child that cannot be
  opened, and `closeAll` after it (`query/fetch/merge.go:87`), are left out.
* **MetricsEngine**: one series; commits atomic with three outcomes; a merge's commit that
  landed unconfirmed is in `RecordEngine`.
* **MergeLadder**: forced rewrites are those retention asks for, paced by `retention.Due` in
  the background and not otherwise; rewrites for downsampling, recompression or precision,
  and the idle rounds that a forced call skips, are left out.
* **RecordMerge**: a row is one byte; recompression, retention pacing and sidecars left
  out; reloads only between phases; the other merges take or return all their memory at
  once.
* **RecordFetch**: one reader, one cell per row under three filter modes, filters without
  false positives except a missing one, budget in rows.
* **SideStore**: hashes do not collide; one stream; a replica applies a
  frame in the primary's step or loses it; one read at a time, at the owner or at the
  replica; table versions left out.
* **BlockColumn**, **BlockPart**, **DictColumn**: tokens for bytes, checksums that find any
  damage, one column, `Narrow` and `GenWrap` for the limits 256 and 2^32. Resident-byte
  accounting, pooled scratch and checks across columns are left out.
* **Wal**: one generation (`RecordEngine` has them); frames for bytes.
* **FileBackend**: a prefix that is synced is a leaf directory; deferred deletes promise
  nothing; no delete overlaps another, or an operation on its own key (`Free`, see 8.19).
* **DecodeBudget**: the release counter is a flag per waiter; a disabled budget left out.
* **BlockCache**: a buffer and its entry have one identity; which pooled buffer fits is left
  open; `evictPrefix` is one step.
* **NumberCodecs**, **BytesCodec**, **ByteIntMap**, **BitStream**: small bytes and words,
  hashes given by a table, damage is truncation.
* **IndexCodec**: a varint is one number of the stream, names are number
  sequences, `MaxN` stands for 2^64 - 1, one number of an object is changed. Aging of the
  catalog and trimming of wants and holes by containment are in `Repairs`.
* **Otlp**, **SpanRecords**: byte strings are small numbers, a hash is its input.

## 8. Where code and comments disagree

Three runs state what a comment says and show that the code does otherwise:
`record_exactly_once` (`recordengine/index.go:792` against `engine.go:980` and
`wal/segment.go:209`), `shared_carry` (`recordengine/index.go:645` against `:988`), which
breaks `NamedPresent` too, and `shard_gap` (item 5). The rest was met while modelling; where a
property would fail, the item says which one and what it exempts:

1. A metrics merge's output goes behind all remaining parts (`engine/reclaim.go:36`,
   `engine/maintenance.go:108`), though its sources need not be adjacent and a flush may have
   published meanwhile: an older value of a timestamp then beats a later one.
   `engine/engine.go:689` says that the freshest wins. `FreshestWins` exempts the timestamps of
   such outputs (`jumped`).
2. `engine/recent.go:17` says recent tier, detached buffers and head together cover the time
   since `recentMin`; after a restart, with samples flushed before it, they do not.
   `RecentCovers` judges the timestamps appended or replayed in this life (`lived`).
3. `collectMany` emits "each timestamp once" (`engine/engine.go:1210`); two samples of one
   timestamp inside one run are both emitted. `FreshestWins` then asks that the freshest is
   among them.
4. `head.trimBelowCovered` (`engine/head.go:375`) compacts times and values, not the weights
   beside them.
5. `closeCoveredGaps` (`cluster_completeness.go:249`) also closes a gap on a part flushed before
   the crash and mirrored after it; the comments at `:28` and `:222` take a newer part to carry
   what was lost. Run `shard_gap` shows it; `WholeAnswers` exempts the rows missed (`blind`).
6. A replica's refresh drops "samples a primary has already flushed (covered by a part)"
   (`engine/index.go:844`); it drops by time, a late sample no part holds included.
   `WholeAnswers` judges rows newer than all before them (`OnTime`).
7. An engine created on first use (`storage.go:1280`) records no gap, so an owner that comes
   back with nothing on its disk, and is then written to, answers without what it had (`blind`).
8. `gapGuarded` is decided before the fetch; a gap noticed in between is not seen (`read.miss`).
9. A demoted primary that restarts with an old log records no gap; the ring of `Shard` is
   fixed, so this is outside it.
10. With three owners, a quorum write that one of them missed can be read short from that one
    (`reached`).
11. A mirroring pass that runs beside the owner's own commits (one of a notification, or the
    maintenance loop's beside a pressure flush, `storage.go:1503`) installs its index over a newer one
    (`cluster/partsync/partsync.go:592`, `:878`). `InstallSupersedes` shows that there is no other
    way, and `NamedBacked` and `RowsNamed` exempt the parts of the commits undone (`undone`).
12. `recordengine/engine.go:714` trims to the limit before the second pass (`:732`);
    `query/fetch/fetch.go:97` says that filtering happens first. `LimitSuperset` counts better rows
    before the second pass.
13. `expBuckets` promises ascending bounds with cumulative counts
    (`otlp/otlpdecode/histogram.go:519`); with two non-empty negative buckets they descend.
    `BucketsCumulative` exempts the order of two negative bounds, not their counts.
14. An all-zero id of a log, a span, a link or a profile is kept by `otlpdecode` and dropped by
    `pdataconv`; `otlp/otlpdecode/ids.go:18` says the two are indistinguishable. The inputs of the
    `cluster` run have such ids, and `Indistinguishable` compares them as absent ones.
15. `nearestDelta` (`encoding/chunk/decimal.go:293`) truncates every delta against the exact
    previous value, so the error adds up along a group; `encoding/ARCH.md:42` admits it.
16. `encoding/chunk/decimal.go:15` gives exponent and precision in the opposite order of the code.
17. `DictMerger.Build` after `Scatter` with nothing appended returns ids into an empty table
    (`encoding/chunk/dictmerge.go:234`); no caller does that.
18. `DecodeBudget.abandon` removes a cancelled waiter without waking the next
    (`engine/budget.go:146`); the next release or the timer does.
19. `removeEmptyDir` forgets a directory before it removes it (`backend/file/file.go:478`): a delete
    that overlaps another one, a write of its own key or a `SyncPrefix` of its directory, can leave
    a directory remembered as durable that is not; `dircache.go:8` says it never is. `Free` keeps
    such overlaps out of `FileBackend`; without it both of its properties fail.
20. A replica's resolver reads a deleted part's sidecars as empty (`sidestore.go:82`), since its
    pins do not hold the owner's deletes. `ReadResolves` exempts the rows of a part deleted under
    a replica's read, and no others.
21. `signal/trace/records.go:19` gives the nested-set numbers as deciding descent; spans of one
    trace that share an id share the numbers of the one the walk met first, and may so lie inside
    an ancestor of the other only. `NumbersNest` decides descent exactly where the ids of a trace differ.

## 9. Not modelled

The facade's scheduling and admission, the query languages, the S3 client and the read
caches before it, erasure coding, rebalancing of a ring in change, observability. Their
state is not read back by what is modelled, or is I/O.
