# A TLA+ model of AlliDB

AlliDB is a distributed entity store (vectors, graph edges and text chunks per
entity) written in Go. This directory holds TLA+ modules for its core, TLC
configurations that check them on small instances, and TLAPS proofs.
`PROJECT.json` lists the components, the runs, the definition-to-source map,
the mutants that show each property can fail, the findings, the hazards and the
theorems.

## 1. Inventory of the system

| Component | Source | State | Operations | Hard behaviour |
|---|---|---|---|---|
| Write-ahead log | `core/storage/wal` | numbered files, current file and size, request channel, `closed` | `New`, `Append`, writer goroutine, rotation, `Close`, `Replay` | partial writes, crashes, Append/Close race, failed rotation |
| Memtable and storage service | `core/storage/memtable`, `cmd/allidbd/storage_service.go` | copy-on-write map of rows, flush mutex, SSTable directory | `PutEntity`, `FlushMemtable`, `ReplicaWrite`, `GetEntity`, `ReplicaRead`, `RangeScan`, replay at startup | puts during a flush, failed flushes, log order against memtable order, reads during a flush |
| SSTable format | `core/storage/sstable` | one immutable file | `Writer`, `Reader.Get`, `MergeReader` | truncated files, non-contiguous rows |
| Compaction | `core/storage/compaction`, `core/storage/engine.go` | job queue, workers, bandwidth budget, files | `checkAndSchedule`, `enqueueJob`, `processJob`, `Compact`, `Stop` | the same file in two jobs, crash between rename and delete, which version survives |
| Ring | `core/cluster/ring` | sorted virtual nodes | `AddNode`, `RemoveNode`, `GetOwners`, `Rebalance` | wrap-around, fewer nodes than replicas |
| Gossip | `core/cluster/gossip`, `TCPTransport` of `main.go` | endpoint states (generation, version, status) | SYN, ACK, ACK2, heartbeat, `checkDeadNodes` | lost and reordered messages, restarts, false suspicion |
| Coordinator | `core/cluster/coordinator.go`, `api/grpc/server.go` | quorum configuration | `Read`, `Write`, `UpdateConfig`, consistency override | quorums, timeouts, late answers, configuration swapped by another request |
| Hinted handoff | `core/cluster/handoff` | hints per node in memory and in one file per node | `StoreHint`, `RemoveHint`, cleanup, flush, load, replay | older hint after a newer write, crash between replay and flush, TTL |
| Read repair | `core/cluster/repair` | pending repairs, queue, workers | detector, scheduler, executor | repair racing with a newer write, duplicates |
| Anti-entropy | `core/cluster/repair/entropy` | Merkle trees, partitions, sessions | tree building and comparison, range repair, orchestrator | half-open ranges, shutdown while a session runs |
| Unified index | `core/index/unified`, `hnsw`, `graph` | HNSW graph, edge cache, entity cache, known SSTables | `Search`, `AddEntity`, `reload`, eviction | reload racing with adds, lock order, lost updates |
| Query | `core/query`, `Query` and `RangeScan` of `api/grpc/server.go` | none | ANN search, graph expansion, scoring, pages | limits, tenants filtered after the cut, pages of changing data |
| Entities | `core/entity` | one entity | `ToBytes`, `FromBytes` | values that were cut off |
| API | `api/grpc`, `api/http` | none of their own | handlers | see coordinator |
| Security | `core/security`, `core/storage/guard.go` | API keys, tenant in the context | authentication, tenant guard | tenant isolation |
| Configuration, observability, AI and LLM clients, benchmarks | `core/config`, `core/observability`, `core/ai`, `core/llm`, `benchmark` | static | loading, validation, calls to services | none of the kind a model checker reaches |

How they interact (`cmd/allidbd/main.go`). A client calls the gRPC server, which
calls the coordinator; the coordinator asks the ring for the owners of a key and
gossip for the live ones, and calls the replicas through a replica client.
`CoordinatorWithHandoff` stores hints for replicas that failed,
`CoordinatorWithRepair` gives read responses to the repair detector. The replica
side of the internal service is `StorageService.ReplicaRead`, `ReplicaWrite` and
`RangeScan`. Note that the shipped daemon wires a mock replica client, and
nothing in it calls `StorageService.PutEntity`: the model treats each component
by its own contract, as the tests of the repository do. Files couple storage,
compaction and index: flushes create `sstable-*.sst`, compaction replaces some
of them, the index and the readers list the directory.

Properties that make each component correct:

- log: an acknowledged entry survives crashes, in order; every call is answered;
- storage service: an accepted row stays readable until something newer
  replaces it; reads stay inside their tenant and range; calls end;
- compaction: no entity and no newest version is lost; files are immutable;
  readers are not disturbed; jobs end and `Stop` returns;
- ring: the owners of a key are distinct and as many as there can be;
- gossip: what a node believes of another never goes back to an older
  generation or heartbeat; live nodes end up alive everywhere;
- coordinator: an acknowledged write is on a quorum of replicas, under the
  consistency level that the request asked for;
- handoff, repair, anti-entropy: replicas converge to the newest version and an
  older value never replaces it; hints survive crashes;
- index: an added entity can be found; caches and their bookkeeping agree; no
  two goroutines wait for each other.

## 2. Plan

| Order | Module | Uses | Questions | State |
|---|---|---|---|---|
| 1 | `WAL` | | durability, order, answers, replay | model-checked, proved |
| 2 | `StorageService` | the log, by its contract | acceptance, flush windows, reads | model-checked, proved |
| 3 | `CompactionPlanner` | | tiers and plans as functions | model-checked, proved |
| 4 | `Compaction`, `VersionStore` | `CompactionPlanner` | merges, names, deletes, readers, limiter, locks; what the files promise | model-checked, refinement, proved |
| 5 | `Coordinator` | placement and liveness as inputs | quorums, configuration swap | model-checked and proved in 7 |
| 6 | `Handoff` | extends `Coordinator` | hints, their file, replays, crashes | model-checked and proved in 7 |
| 7 | `ReadRepair` | extends `Handoff`: the composed cluster | reads, repairs, what is acknowledged stays | model-checked, proved |
| 8 | `Gossip` | | monotone views, restarts, lost messages | model-checked, proved |
| 9 | `Ring`, `Pages` | `Ranks` | owners against the nearest nodes, pages of changing data | model-checked, proved |
| 10 | `SSTableFormat`, `EntityCodec`, `Merkle`, `Query` | | algorithms against reference definitions | model-checked |
| 11 | `UnifiedIndex` | extends `HNSW`, `GraphCache` | reload against adds, flushes, compactions | model-checked; the graph cache proved |

Abstract specifications: `VersionStore` (what the SSTables of a node promise),
which `Compaction` is shown to implement. Theorems of section 5 exist for the log,
the storage service, compaction and its planner, gossip, the cluster, the ring and the
pages of a scan: every state machine of the project but the index.

## 3. Modules and the code

### WAL (`core/storage/wal`)

`files` are the numbered log files as sequences of records; `synced` counts the
records of each file that are on stable storage. The writer goroutine is one
process (`writer`, `cur`, `fileOpen`, `fileSequence`, `currentSize`), every
caller of `Append` another one (`append`, `entry`, `errCh`), joined by the
bounded channel `writeCh`. `AppendCheck`, `AppendSend`, `AppendRefused` and
`AppendReturn` are the steps of `Append`: the test of `closed` and the send are
separate, as in the code. `WriterTake`, `WriterRotate`, `WritePart`,
`WriteData`, `WriterSync` and their failures are `writeEntry` and `rotateFile`:
a record is written in several writes, each of which may fail and leaves its
bytes (`Torn`). `WriterDrain` and `WriterStop` are the end of the goroutine,
whose last `Sync` is not checked. `Restart` is `New` on an existing directory
followed by `Replay`, which stops at the first bad record. `Crash` keeps what
was written; `PowerLoss` keeps the synced records, any number of the later
ones, and perhaps a torn one. `fsync` is `Config.Fsync`, chosen in `Init`.
Data is left out: a record is an entry (or `Torn`) and the offset it ends at,
which is what the size tests use, with the 12 bytes that the rotation test
counts and the 8 that a record really has.

### StorageService (`cmd/allidbd/storage_service.go`, `core/storage/memtable`)

Writers run `PutEntity` (`PutEntity`, `WalAppend` or `WalAppendFails`,
`MemtablePut`, `PutReturns` or `CallFlush`) and `FlushMemtable` (`FlushBegin`
takes the mutex and the snapshot, `FlushCreate`, `FlushClose`, `FlushReset`,
`FlushFails`), or `ReplicaWrite`, which is not logged and does not flush.
Readers run `GetEntity` and `ReplicaRead` (`GetMem`, `GetSST`) and `RangeScan`
(`ScanKeys`, `ScanGet`, `ScanSST`). A row is its entity, its tenant and its
`UpdatedAt`; sizes are numbers of rows. `PseudoTS` is what `extractRowTimestamp`
reads from the first bytes of a serialized entity: the length and the beginning
of the entity id, the same for all versions. `late` records the rows that were
put while a flush was between its snapshot and its reset. The log is taken at
its word: `wal` is what a replay would deliver if no record were torn (see the
divergences). The files are read in one step here; `Compaction` splits it.

### CompactionPlanner and Compaction (`core/storage/compaction`)

The planner is a set of functions on the sorted list of files; `sort.Slice` is not
stable, so `SortedLists` is the set of lists it may yield. `Compaction` has
the directory `dir`, the job queue, the scheduler goroutine and the callers of
`TriggerCompaction` (`planner`), the workers, `nextSeq` of the executor, the
counters of the IO limiter, `running` and the two mutexes that matter:
`jobQueueMu` is held across steps only by `GetStats` (`queueMu`), `runningMu`
by `Stop` (`Stopping`), which waits for the workers and the scheduler
(`AllStopped`). `CheckAndSchedule` makes the plan, and `EnqueueJob` queues its
jobs one by one, each under `jobQueueMu`; `TriggerCompaction` tests `running`
before and not again. A worker polls (`WorkerPolls`), takes a job
(`DequeueJob`, which also counts its bytes), waits (`Allow`), chooses a name
(`ChooseName`), reads and merges (`Merge`), renames (`Rename`) and deletes
input by input (`Delete`, where an error is ignored). The output has the time of
`Merge`, not that of `Rename`. `CompactFails` is every
error before the rename has happened. Reading all inputs in one step loses
nothing: files do not change and names are not used again, so a job that reads
all its inputs one after the other could have read them all when it began.
Around the workers are flushes, ageing files, readers that list the directory
and then go through it (`ReaderList`, `ReaderNext`), kills and power losses.
The call of `ShouldCompact` in `checkAndSchedule` is left out because it never says no when there is a plan
(`PlanImpliesShould`, proved for every list). The size of a file is the number of its
bytes (`Bytes`), those of its rows. A row is a version number with a length, `RowLen`; the
executor compares lengths because its timestamp is read from the bytes of the
id. `ExecPrefix` is the prefix that the executor uses for its files.

`VersionStore` is the abstract specification: the versions that were ever stored,
and the best rank among those that can be found. The refinement mapping takes
`born`, the versions that were in a closed file, for the former; the rank is the
length of a row, because this is what the code goes by, and the best one is that of
the longest row in a complete file under any prefix (`Longest`). A flush that closes
its file is `Store`, a power loss is `PowerLoss`, and every other step (renames,
deletes, failures, kills, readers, `Stop`) must be a stutter. That the longest row
need not be the newest, and that readers need not look for the prefix, are the
violations under `MCCompactionNewest` and `compaction_prefix`.

### Coordinator, Handoff and ReadRepair (`core/cluster`)

The three modules extend one another, because they share the replicas and
because the dispatcher of hints and the requests go through the same
`Coordinator.Write`. `Coordinator` has the configuration `cfg` that the gRPC
handlers swap (`SaveConfig`, `UpdateConfig`, `RestoreConfig`, each a step of its
own as in `server.go`), the nodes gossip calls `alive`, the `data` of the
replicas, and the calls under way. `Select`, `ReplicaWrite`, `WaitForQuorum` and
`CheckQuorum` are the steps of `Write`; the configuration is read anew in
three of them, as in the code. A replica may take the value and lose the answer,
or fail. `Handoff` adds the hint store with `hints.db`: a flush (`FlushOpen`,
`FlushWrite`, `FlushSync`, `FlushFail`) holds a read lock that others share, so
that two of them truncate and write the same file at their own offsets, and
`Loaded` is what a later start makes of the result. Hints are as old as the order in
which they were stored (`clock`), and `expired` is the youngest that time has run out
for: `Cleanup` removes those up to it, and `load` skips them. The dispatcher is its loops
(`CheckAndReplay`, `NextNode`, `LoopWakes`), one for every `Start`, which does not
ask whether the last one has ended (`Stop` waits for it for 5 seconds only), and the
goroutines of `TriggerReplay`; `MarkReplaying` to `Unmark` is a replay. `Stop` replaces the
channel it has closed, and a replay that is still at work tests the new one.
`ReadRepair` adds quorum reads, the detector (`Repairs`), the queue, the workers
and the rate limiter of the scheduler, its two mutexes (`runningMu` is held while
`sched` is `stopping`, `mu` while a `GetStats` is `held`), and the executor.
Three history variables serve the properties: `solo` (requests that had their
key to themselves: `QuietKey` when they began, with no hint of the key left in memory
or in the file), `acked` (the value such a request was acknowledged for) and
`mixed` (requests with different levels have overlapped). Values have no
order, as in the code; placement is the constant `Owners`, and `Ring` is about it.

### Gossip (`core/cluster/gossip`, `TCPTransport` of `main.go`)

`local` is the generation and heartbeat of a node itself, `view` its
`endpointStates`, `known` its peers, `net` the messages in flight, which may be
lost and overtake each other. `HandleSyn`, `HandleAck`, `HandleAck2`,
`CheckDeadNodes`, `IncrementHeartbeat`, `Restart`, `AddKnown` and `RemoveKnown`
are the handlers and methods. `transport` says what the receiver takes for the
sender: `TCPTransport` (`main.go:713`) and the mock of the tests name the node
the message is addressed to, the handlers answer to the sender; both are modelled.

### UnifiedIndex, HNSW and GraphCache (`core/index`)

`HNSW` and `GraphCache` are operators from a graph to a graph: their methods run
under the locks of the unified index. In `HNSW` a vector is a place on a line;
levels, from 1 up, are chosen by the caller of `Add`, for `randomLevel`. `UnifiedIndex` has the
SSTables `dir`, the index `idx`, the reload and the compaction under way. `StartReload` is
`shouldReload` and the glob, `ReadTable` the next file, `EndReload` the rebuild
and the time stamp; requests wait meanwhile, but flushes and compactions go
on. Files of kind `meta` are what `FlushMemtable` writes, those of kind `parts`
have the vector and edge rows that `rebuildIndexes` looks for. A compaction writes
its output (`CompactWrites`, with one row per entity, so that the vector or the edges
of an entity go), renames it later with the time of the write (`CompactRenames`) and
deletes its inputs one by one (`CompactDeletes`).

### Ring, Pages, SSTableFormat, EntityCodec, Merkle and Query

Functions of their inputs, except for the ring, which nodes join and leave, and
the scan, whose pages are steps. `Ring` checks the walk of `GetOwners` against
the nearest nodes clockwise, for every placement of the virtual nodes. The sort and
the loops that keep some elements of a slice are written by rank and not by recursion
(`Ranks`: the k-th of a set, the elements at a set of positions). `Pages` is `RangeScan`
of the gRPC server: the client comes back with the token, an offset into the sorted
keys, and keys may be stored in between.
`SSTableFormat` builds the index while rows are written, as `WriteRow` does, and
reads by it, next to damaged rows. `EntityCodec` counts in cells: a number is one,
a string its length and its elements; `ReadEdge` and `ReadChunk` find the next
offset by encoding again, as `FromBytes` does. Times are written as nanoseconds modulo
`TimeWrap` (2^64 in the code), so that the zero time comes back as another one. `Merkle` builds trees level by
level, sends them through their serialization, and repairs what the comparison
with the majority yields. `Query` has integers where the scorer has floating
point; the order of results only needs comparisons.

## 4. Runs

| Run | Shows |
|---|---|
| `wal` | acknowledged entries are on stable storage (with fsync) or written (without), in the order callers saw, from the moment the answer is sent; a replay without torn records brings everything back; every `Append` ends unless the log is closed, and `Close` ends |
| `storage` | acknowledged rows are logged; accepted rows stay stored outside a flush window; a reset comes after a complete file; calls end; reads are of the right tenant and range, and a flush in the middle does not hide rows from `GetEntity` and `RangeScan` |
| `storage_flush_race` (violation) | a row put between snapshot and reset disappears |
| `storage_newest` (violation) | `latestFromSSTables` returns the oldest version |
| `compaction` | the files implement `VersionStore`; files are immutable; readers find what no delete took from under them |
| `compaction_live` | jobs that fit the limiter end; `Stop` returns, with its two exceptions |
| `compaction_prefix` (violation) | with the daemon's configuration, compacted data is no longer found |
| `cluster` | acknowledged writes were taken by the quorum their level promises and stay on a quorum through repairs, replays, failures and crashes; quorum reads meet them; the override of the quorums ends with its request; the hint store, its size and its file agree, and replays of one node exclude each other |
| `cluster_five` (violation) | with five replicas, a repair may carry a value older than the acknowledged one |
| `cluster_live` | replays end, repairs are taken up, the scheduler's `Stop` hangs only on a `GetStats` |
| `library` | one invariant for each subject: plans, file formats, anti-entropy, queries, ring, gossip, the graphs of the index, pages of a scan, the index with its reloads; and two action properties, of the ring and of gossip |
| `gossip_discovery` (violation) | with the daemon's transport a known node is never discovered |

Every property of a passing run has a mutant in the modules: a changed
definition, in the way a plausible mistake would change the code, under which
TLC finds the property violated.

Beside these runs, further configurations reproduce what section 6 says of the code.
They are run by hand (`tlc -config MCLastWrite.cfg MCLastWrite`); TLC finds the property of
each of them violated, except in the last one, which shows that `Discovery` can hold.

| Configuration | Module | Property | Shows |
|---|---|---|---|
| `MCCompactionSwap` | `MCCompaction` | `ReaderFinds` | "Atomically swaps the old SSTables with the new one" (`executor.go:80`): a reader that listed the directory before the rename and reads it after the deletes finds neither the old rows nor the merged one |
| `MCCompactionNewest` | `MCCompaction` | `NewestKept` | "keeps newest" (`executor.go:78`): of two versions the longer one is kept, and the newer one is deleted with its file |
| `MCClusterOverlap` | `MCCluster` | `ConfigIsRestored` | "Temporarily update coordinator config" (`server.go:124`): two puts with levels of their own overlap, and the override of the first stays for good |
| `MCClusterStale` | `MCCluster` | `ReadReturnsNewest` | "If values differ, use newest" (`scripts/README.md:1362`): of two different answers a read may return the older one |
| `MCClusterReturn` | `MCCluster` | `HintsDelivered` | "replays hints when nodes come back online" (`dispatcher.go:13`): the loop has ended, and a node that is back later gets nothing |
| `MCLastWrite` | `MCLastWrite` | `LastWriteWins` | "idempotent (last-write-wins)" (`dispatcher.go:286`): the hint of a first write is replayed after the second and puts the first value back |
| `MCIndexReload` | `MCLibrary` | `ReloadIsComplete` | "Automatically reloads SSTables" (`cmd/allidbd/README.md:26`): the output of a compaction, written before a reload and renamed after it, is never loaded |
| `MCMerkleRepair` | `MCLibrary` | `RepairConverges` | "copying correct data to divergent nodes" (`entropy/executor.go:44`): the range of a divergent leaf ends at its key, and the repair leaves the key as it is |
| `MCGossipSender` | `Gossip` | `Discovery` (holds) | with a transport that names the sender every node that stays known is discovered |

### Bounds

- `wal`: two callers and three entries (a rotation, an entry that is larger
  than a file, and one after a torn record need three), `MaxFileSize` 28 so that
  two short entries fill a file, `ChanCap` 1 so that the channel is full (1000 in
  the code: only whether it is full matters), two crashes (one to tear, one to
  replay what was written after it). `Scenarios` keeps the third entry away from
  behaviours with a crash; it cuts off only crashes and new calls, which no
  fairness drives.
- `storage`: two writers, two entities, `MaxRows` 3 and `MaxSize` 1, so that every logged
  put flushes and rows wait in the memtable after a failed flush or a replica write: a
  flush with a put in its window, a second writer behind the mutex, a failed flush
  and a restart; two tenants that use the same id, and a reader under which every put
  may flush. `Scenarios` keeps the reader and the second tenant away from the crash, the
  third row and two writers at once; it cuts off only calls and crashes. The theorems of
  section 5 have no such bounds.
- `compaction`: two workers, three versions (two files and a flush beside
  them, or a file with two rows), two jobs (both on the same files), a kill, and
  a power loss or a reader. `MaxIOPS` 1 makes workers wait for each other's
  window. The constraint `Scenarios` keeps the third version away from power
  losses and readers, and from a kill when there were two jobs, and readers away
  from power losses: what they can meet (a spoilt or half-written file next to a
  job's output) happens with two versions or one job. `Uneven` makes the second version
  shorter than the first and the third as long. `compaction_live` has
  two jobs, or one next to `Stop`, `Start`, `TriggerCompaction` and `GetStats`
  (`OneJobWithCalls`), and a `MaxBandwidth` that some jobs exceed.
  `MaxJobs` bounds the
  jobs ever queued, because undeleted inputs can be compacted again without end.
- `cluster`: three nodes that own one key, two requests, two values, two hints
  (one key has them compete; `MaxHints` is reached by a third), two flushes at
  once. Every behaviour has one of the budgets of `MCCluster`, so that faults
  that matter together meet (a crash with a failing flush and an expiry; two
  changes of liveness with a triggered replay next to the loop; overlapping
  requests with two levels, or with one and a failing replica; reads with failing replicas, with
  `Stop` and `GetStats`), while not all of them are there at once. `cluster_live`
  has one request and smaller budgets, since liveness is checked on the whole
  graph. `Checks` is 1, as the loop of the dispatcher makes one round before its
  deadline. `Loops` are two in `cluster`, so that a `Start` may find the old loop still at
  work. `cluster_five` has five nodes, one request at a time, and only the
  behaviours that `FiveConstraint` names: two failures in the second write, two nodes
  that die after it, one read.
- `library`: all directories of up to 4 files (a full tier) of sizes 0 to 4, each
  old or new; two tables of up to 3 rows, one damaged; entities with up to 2
  embeddings and edges, empty strings and zero times included; trees of up to 4 keys (two
  levels and an odd leaf) and three nodes with up to 3, 3 and 2 keys; graphs of 3 entities;
  three nodes with two virtual nodes each on a ring of 6 places (a wrap-around, and
  fewer nodes than replicas); scans of 4 keys in pages of 1 or 2 with writes in
  between; two gossiping nodes, of which one restarts and beats, with 2 messages in
  flight; five vectors with `M` 2 (full lists) on two levels; a graph cache of 2
  with 3 entities (evictions); an index with 3 file writes (a flush, one during a
  reload, and a compaction of the two, with a reload between any two of its steps).
  `gossip_discovery` has the same two nodes, without lost messages: a message that is
  always lost refutes nothing.
- Symmetry is used for goroutines and only without liveness properties.

### Fairness

Weak fairness of a goroutine's next step: the Go scheduler runs every runnable
goroutine. Strong fairness where a goroutine waits for something that others
take away again: sends on `writeCh` (blocked senders are served first come first
served), `flushMu` and `jobQueueMu`, which the scheduler takes as well (a `sync.Mutex` switches to hand-off after
a waiter has waited 1 ms), and the limiter, which a worker retries every 10 ms
while seconds pass (`WindowReset` is weakly fair). In `cluster_live` the goroutines
of the dispatcher, of the flushes and of the repair workers are weakly fair:
calls of replicas have a deadline and return, and windows of the rate limiter
end. `MCClusterReturn` adds the handlers and the loop of the dispatcher, for as long as it
is there (`HandoffFairness`). For `Discovery` the gossip loop has its turn and
takes every peer again and again (strong fairness: it picks at random), and the receive
loop takes messages of every kind (`GossipFairness`). No fairness is assumed for callers, crashes, `Stop`, flushes of the memtable
or the passing of hours. Deadlock checking is
off where callers may simply stop calling or the bounds are used up.

## 5. Proofs

`StorageServiceProofs` proves for every set of writers, readers, entities and
tenants and every bound:

- `TypeCorrect`: `Spec => []TypeOK`;
- `AcknowledgedIsLogged`: `Spec => []AckedInWal`;
- `AcceptedIsStored`: `Spec => []AcceptedStored`;
- `ResetsAfterFlush`: `Spec => ResetAfterFlush`, an action property.

The assumptions are `StorageAssumption` and `NoneIsNoRow` of `StorageService`,
both on the constants.
`AcceptedStored` is not inductive. A row leaves the memtable in
`FlushReset`, so one has to know that what the memtable holds by then is either
in the file just written or late. `IInv` adds: `FlushLocked` (the mutex is held
exactly by the flushing writer, so no other flush comes in between),
`SnapshotWritten` (after the close, some complete file holds the snapshot, and
during the write the newest file does), `WindowCovered` (the memtable is the
snapshot plus late rows during a flush), `CallLogged` and `CallStored` (the row
of a call in flight is logged and stored before the call is acknowledged),
`CallHasRow`, and `DownIsQuiet` for crashes. `TypeInit`, `TypeStep`,
`LoggedStep`, `LockStep` and `StoredStep` show its parts preserved (the last with
one lemma per action that moves rows: `MemPutStep`, `FlushBeginStep`,
`FlushCreateStep`, `FlushCloseStep`, `FlushResetStep`, and `QuietStep` for the
others); `Inductive` combines them. That a replay restores what the
memtable held rests on `wal` being a function of the log, built by the same
`Put` as the memtable.

The readers come on top of that invariant:
`ReadsBelongToCaller`, `GetsFindVisible` and `ScansFindStored`. `ReadInv` says of a
call between two of its looks what it still has to find and where: a `GetEntity`
that could find a version has it from the memtable or will find it in a file
(`GetSound`), and each entity that a scan owes is in its result, in a complete file, or
still to be looked up in the memtable and there, and in the snapshot of every flush
under way (`ScanSound`, `InMem`). Rows lie under the id of their entity (`AllKeyed`).

`WALProofs`, for any callers, entries, file size and number of crashes:

- `TypeCorrect`, `AcknowledgedIsDurable` (`AckedDurable`), `LogIsOrdered`
  (`LogKeepsOrder`) and the action property `RestartReplaysAcknowledged`
  (`CleanReplay`).

The assumption is `WALAssumption`; that `None` is no request is part of it. The
invariant follows a request through channel and writer: every request is awaited by a
call of its own that has no answer yet (`RequestsAwaited`), entries of calls are apart
(`CallsApart`), and the writer is at the end of the last file, whose last record is
the one it is writing (`WriterAtEnd`). The order needs that whatever is in the log was
passed to `Append` (`WrittenStarted`): an entry that starts now is behind everything
that is acknowledged.

`GossipProofs`, for any nodes and messages: `BeliefsAreReached` (`ViewsNotAhead`) and
the action property `ViewsAreMonotonic` (`ViewsOnlyGetNewer`), from
`GossipAssumption`. The invariant extends what is claimed of views to the messages in
flight (`InFlightSound`), which may arrive after their sender has restarted; it rests
on `Newer` being a strict total order of versions (`NewerOrder`).

`HandoffProofs` is about the composed cluster, for any nodes, keys, requests, flushes,
replays and readers: `TypeCorrect` (`TypeOK`) and `HandoffIsSound` (`HandoffSound`:
`SizeAccounts`, `QuietFileLoads` and `ReplayExclusive`), from `CoordinatorAssumption`,
`HandoffAssumption` and `RepairAssumption`. In `IInv`, `StoreType` counts the hints,
`FlushType` says that an open flush writes the hints of this moment in some order of the
nodes, and that a flush that is alone has written exactly the file, `MarkSound`
that a replayer has its node marked and no other has the same one, and `Fresh` that
the store keeps no hint that has expired (a load would skip it, and `QuietFileLoads`
would fail). That a flush of
all hints loads to the same hints, in the order of each node, is a fact about
sequences of any length; `HandoffLemmas` proves it (`LoadedContents`) together with
what `Filter`, `Flatten` and `HintCount` yield. Its inductions are made over sets:
`NatSetInduction` takes the set of numbers for which a claim holds and rests on the
well-foundedness of the naturals, so that no theorem with an operator as a parameter
is needed, and `RecursionExists` shows that the recursive functions are defined.

`ClusterProofs` is about requests and their quorums: `OverridesEnd`
(`OverrideIsTemporary`) and `AcknowledgedTookQuorum` (`AckedTookQuorum`), for any
replication factor. `QuorumInv` says, as long as requests are not `mixed`: those under
way together all have the default level (`Alike`), each will put the configuration of
the start back and sees the quorums of its own level between update and restore
(`Swapped`); and whoever answered has taken the value and is counted at most once
(`CountOK`). That clients and the dispatcher are different goroutines is part of
`CoordinatorAssumption`.

On top of it, `AcknowledgedIsHeld` (`AckedHeld`) and `QuorumReadsMeet`
(`QuorumReadMeets`) are proved for `ReplicaCount <= 4`, a hypothesis of the theorems;
`cluster_five` shows that the code needs it. `HeldInv` follows the value of a write
through everything that may write its key again: hints, the lines of `hints.db`, the
copies and calls of replays (`Sources`), the queue and the workers of read repair
(`Tasks`). While a request has the key to itself (`SoloOK`) all of them are for its
value, and the replicas it counts hold it; once it is acknowledged (`AckedOK`) there is
a quorum `S` that holds the value and has answered every read under way with it
(`HeldBy`). The lemmas `HintsComeFrom`, `FileComesFrom`, `LeftComesFrom`,
`CallComesFrom`, `DataComesFrom`, `QueueComesFrom`, `WorkerComesFrom` and
`ReadComesFrom` say of each kind of state where its next value can come from; with them
`SoloStep`, `AckedKept` and `AckedBegins` are short. The one place where the number
of replicas matters is `RepairsCarry`: a value other than the acknowledged one can only
come from replicas outside `S`, at most one with up to four replicas, and one
answer is no majority of two.

`CompactionProofs`, for any workers, readers, entities, files, jobs, stops and crashes,
from `CompactionAssumption`:

- `TypeCorrect` (`TypeOK`), the action property `TablesAreImmutable`
  (`TablesImmutable`) and `ReadersFindUndisturbed` (`ReaderFindsUndisturbed`), for
  every prefix of the executor;
- `StoreIsRefined` (`StoreRefined`): `Compaction` implements `VersionStore`, for rows
  of any lengths and every prefix;
- `PlansSoundForEveryList`: `TiersPartition`, `PlanMergesSeveral` and
  `PlanImpliesShould`, which `library` checks on lists of up to 4 files, for every list.

The danger to `TablesImmutable` is that two workers, or a worker and a flush, take one
name: a worker chooses its output long before it renames, the same file may be in two
jobs, and `nextSeq` starts again from the directory after a kill. `IInv` says why this
does not happen: a file of a job is gone or complete, and when it is gone `nextSeq` has
passed its number (`JobFiles`), the number of an output is above the numbers of its
inputs and below `nextSeq` (`OutputNumbers`), a name that is chosen is free and only one
worker has it (`OutputsFree`), and no number is above the clock that flushes take
theirs from (`Numbered`). `StillThere` follows a reader through its listing.

`SInv` adds what the refinement needs. A step may delete the last file with a version,
so its length must be known to live elsewhere: files that a worker is deleting
(`Doomed`) hold no row that is longer than all rows of its entity in the other files
(`AllCovered`), and what a worker is about to rename has for each row of its inputs one
at least as long (`Replaces`). A job may find some of its inputs gone, taken by another
job on the same files, which is why both are about lengths, the order that every
`selectBestRow` respects, and not about single versions. `Fresh`
says that a version is in one flushed file only until its flush ends, so that closing it
is a `Store`. The lemmas have one step per kind of action (`DirSteps`, `WorkerMoves`:
what can happen to a file and to a worker); `StepRefines` maps `FlushClose` to `Store`,
`PowerLoss` to `PowerLoss` and everything else to a stutter.

The loops of the planner (`GroupBySizeTier`, `Keep`, `FoldLeft`) are recursive
functions. `RecursionExists` shows that they are defined, `KeepDefined` and
`TiersDefined` give their equations, and `UpToInduction` proves a claim for all
prefixes of the list: `TiersFlat` that the tiers in a row are the large files so far,
`TierOld` that no tier has more old files than the list.

`LibraryProofs` proves of the ring, for any nodes, replication factor, number of virtual
nodes and distinct hashes (`RingAssumption`), `OwnersAlwaysNearest` (`OwnersAreNearest`)
and the action property `KeysStayWithNodes` (`OnlyChangedNodeMoves`). `RInv` says that
`virtualNodes` is the list of all virtual nodes of `nodes` in the order of their hashes.
From there the walk of `GetOwners` visits hashes in the order of their distance from the
key, so that a node is met first at its nearest virtual node, and the nodes are met
in the order of their distances. What a node is to a key then depends on its own hashes
alone, and these do not change: two nodes that stay cannot change places. `NthCounts` is
the fact behind the sort and the filters: ranks number a finite set of numbers from one
to its cardinality, without a gap.

Of the scan it proves `PagesLeaveNothingOut` (`ScanSound`), for any keys and limit
(`PagesAssumption`). `PInv` says that each key of the start with a rank below the
token was returned (`CoveredSoFar`). A write keeps it because a new key only makes ranks
larger (`RankAfter`): it may push a key that was returned to the next page, which is why
pages repeat keys, but none to before the token. A page takes the keys with the ranks
from the old token to the new one (`PageIs`), and the last one ends at the number of keys.

Of the graph cache, whose methods are operators, it proves that they keep its form, for
any size and entities (`GraphAssumption`): `CacheKeepsForm` and `EdgesStayTwoSided`, the
properties `LRUGovernsMaps` and `EdgesTwoSided` that `GraphsSound` checks on three
entities. `AddEdge` puts an entity into a map before it touches it, so the list governs the
maps up to one entity in between (`GovernsBut`), and each of its halves may evict: the
second one may even take the start of the edge away, or bring back an entity that the
first one evicted, without its edges. `AddEdgeIs` shows that in both cases an entity of the
cache or an end of the edge is missing afterwards. `evicted` of the run says less, which is
enough for a cache of 2: with one place for two ends, `AddEdge` can leave the same
entity in the cache and have lost its edges.

TLC checked each of these invariants on the runs' instances before it was proved.

Only model-checked: liveness (fairness and `ENABLED` are out of the prover's
reach); the other algorithms on sequences (`SSTableFormat`, `EntityCodec`, `Merkle`,
`Query`, `HNSW`: folds and recursive operators over data); the index.

## 6. Divergences between code and documentation

Shown by the runs that expect a violation (`findings` in `PROJECT.json` quotes code
and text of each) and by the further configurations of section 4. Conditions and exceptions of passing properties are divergences too:

- `CleanReplay`: only without a torn record. A failed or interrupted write leaves
  one (`wal.go:245`), the next entries go behind it, and `Replay` stops at it.
- `AppendReturnsUnlessClosed`: an `Append` that passed the test of `closed` and
  sends after the writer has drained the channel waits for ever (`wal.go:279`);
  the comment of `Close` says that it waits for pending writes.
- `JobEnds`, `StopReturns`: twice the size of a job above `MaxBandwidth`
  (100 MB) is never allowed (`manager.go:109`), and `Stop` waits for the worker;
  `GetStats` takes `jobQueueMu` and then `runningMu` (`manager.go:364`), `Stop`
  holds `runningMu` and waits for a worker (`dequeueJob`) or the scheduler
  (`enqueueJob`) that needs `jobQueueMu`, while a test
  (`manager_test.go:429`) says "Should not panic or deadlock".
- `ReaderFindsUndisturbed`: inputs are deleted one by one (`executor.go:191`), so
  that a reader with an older listing misses an entity in the "Atomic Swap" of
  the overview (`MCCompactionSwap`).
- `StoreRefined`: the longest row is kept, which need not be the newest
  (`executor.go:279`, `MCCompactionNewest`), under a prefix that the daemon's readers do
  not look for (`compaction_prefix`), and with a `PowerLoss` that may take versions away, because the output is not synced
  before the inputs go (`executor.go:180`).
- `AckedTookQuorum`, `OverrideIsTemporary`: not for requests that overlap while one
  has a level of its own. They share one configuration (`server.go:126`): a
  write may run under the quorum of another, and the later restore may bring
  an override back for good (`MCClusterOverlap`).
- `AckedHeld`: only with up to four replicas. The majority of the detector is one of
  the replicas that were asked (`detector.go:86`): with five, two that missed a write
  are a majority of three answers, and the repair takes the write from the third
  (`cluster_five`). And only if no hint of an older write of the key was left. A hint is
  replayed to all replicas (`dispatcher.go:289`) and overwrites newer values
  (`MCLastWrite`). This
  includes hints that are only in `hints.db`: one that was delivered and removed comes
  back when the process dies before the flush in the background has rewritten the file.
- `QuorumReadMeets`: the acknowledged value is among the answers, but the read
  returns the most frequent one, any of them on a tie (`coordinator.go:304`, `MCClusterStale`).
- `QuietFileLoads`: only if the last flush had the file to itself. Flushes share a
  read lock (`store.go:378`) and truncate and write the same file.
- `ReplayEnds`: the loop looks once and ends (`dispatcher.go:153`); hints for a
  node that is back later stay until `TriggerReplay` or the next start
  (`MCClusterReturn`).
- `StopHangsOnlyOnStats`: the repair scheduler has the lock order of the
  compaction manager (`scheduler.go:265`).
- `Discovery`: only with a transport that names the sender, which the repository does
  not have. The answer to a SYN goes back to the node that answers
  (`gossip_discovery`); `AddressedDiscoversNobody` in `GossipProofs` proves, for any
  nodes, that no node hears of another. Nothing in the daemon calls
  `IncrementHeartbeat` either.
- `IndexConsistent`: a reload forgets what was only in memory, and the rows that
  `FlushMemtable` writes have no vector or edge rows to be indexed
  (`unified_index.go:205`). `ReloadMissesNothing`: not a file that appears between the
  glob and the end of a reload, or after it with an older time, as the output of a
  compaction may (`raced`, `MCIndexReload`).
- `RepairKeepsMajority`: no harm is done, but the range of a leaf ends at its own key and
  range reads leave the end out (`merkle.go:82`), so that nothing is repaired
  (`MCMerkleRepair`).
- `RoundTrips`: times more than 2^63 nanoseconds from 1970 come back as other times, the
  zero time (`entity.go:329`) among them.
- `SearchFindsSomething`: a node finds itself for sure only while no list is full;
  later ones may have no link back (`hnsw.go:250`).
- `ResultsAreTenantsBest`: results are cut to `k` before they are filtered by tenant
  (`server.go:251`), so that a tenant may get fewer than it has.
- `EdgesTwoSided`: not after an eviction, after which `RemoveEntity` leaves edges.

Seen while modelling and not stated as properties: the log and the memtable may
order two concurrent puts differently (`storage_service.go:65` and `:73`);
`ReplicaWrite` and the replay never flush a full memtable
(`storage_service.go:304`); tiers compare with an average, so that their files
may differ by more than a factor of two (`planner.go:178`); the output of a job
is numbered above newer files that were not part of it (`executor.go:107`) and
rows of two tenants with the same id are merged into one (`executor.go:224`);
the daemon's tree and range providers always answer for the
local node, so that a repair finds nothing to do; the `Stop` of the orchestrator
closes a channel that `TriggerRepair` may be sending on; a gossiped
`sstable_version` comes out of JSON as a float and is not an integer any more.

## 7. Not modelled

Assumptions about what lies outside of the modules:

- a write of a replica whose answer is lost takes effect before the call returns
  (`Coordinator`): one that is delayed beyond the deadline of its call and takes effect
  later is left out;
- the directory entry of a new log file is durable, although `wal.go:166` does not sync
  the directory: `PowerLoss` of `WAL` keeps the names of files;
- hashes do not collide: of Merkle leaves, whose data is a key, a zero byte and a value
  (`merkle.go:246`; keys without zero bytes), of entity ids in the unified index, and of
  virtual nodes on the ring;
- `Start` of the dispatcher is called when `Stop` has returned, so that no loop gets a
  channel that is about to be replaced;
- flushes and compactions use the prefix that the unified index looks for, which in the
  daemon only flushes do (`compaction_prefix`).

Left out:

- The orchestrator of anti-entropy: its loops call `ComparePartition` and
  `RepairRanges` for one partition after the other, which `Merkle` has.
- The locks of the HNSW shards: `AddEntity` holds the write lock of the unified
  index, and nothing else adds.
- `Traverse` of the graph cache, `GetOutputPath` of the executor: only tests call
  them.
- The application state of gossip, and its choice of peers at random.
- Floating point: distances are places on a line, scores are integers.
- HTTP conversion, generated code, configuration, security set-up,
  observability, AI and LLM clients and benchmarks keep no state that several
  steps could bring out of order; `PROJECT.json` gives the reason for each.
