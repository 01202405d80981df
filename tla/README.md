# A TLA+ model of LazyLog (Erwin)

LazyLog is a shared log. A client's append is durable as soon as the replicas
of the *durability log* have it; only later does the *consensus log* bind it to
its position, move it to the *shards* and make it readable. This directory
models that path in TLA+, checks it with TLC and proves its safety properties with TLAPS.
Paths below are relative to `src/`, the root of the repository.

## 1. Inventory

| Part | Source | State | Operations |
|---|---|---|---|
| Client library | `src/client/lazylog_cli.cc`, `src/dur_log/dur_log_erpc_cli.cc` | `client_id_`, `seq_`, RPC tokens, `pending_reqs_` per replica | `AppendEntryAll`, `AppendEntryQuorum`, `AppendEntry`, `ReadEntry`, `SpecReadEntry`, `GetTail` |
| Durability log, primary | `src/dur_log/dur_log_flat.cc` | ring `mem_rg_raw_`, `sequencer_`, `indexer_`, the two watermarks, `idx_to_seq_`, `idx_lk_` | `AppendEntry`, `waitForPlace`, `SpecReadEntry` |
| Durability log, backup | `src/dur_log/dur_log_flat.cc`, `dur_log.cc` | the same ring, `reqid_to_seq_map_`, `pending_entries_`, `lk_` | `AppendEntry`, `delEntriesBackup` |
| RDMA client of the primary | `src/dur_log/dur_log_flat_cli.cc` | local memory region | `getUnorderedRange`, `FetchUnorderedEntries`, `ProcessFetchedEntries`, `DeleteOrderedEntriesAsync` |
| Consensus log | `src/cons_log/cons_log.cc` | `buffers_[2]`, a round per thread, `fetch_begin`, `max_ordered_idx_` | `fetch`, `store`, `fetchAndStore` |
| Backend | `src/cons_log/storage/naive_backend.cc`, `shard_client.cc` | tokens of calls | `AppendBatch` (striping), `UpdateGlobalIdx`, `ReadEntry` |
| Shard server | `src/cons_log/storage/shard_server.cc` | `entries_cache_set_`, data files, `replicated_index_`, `global_index_`, `cache_rw_lock_`, `cache_write_cv_` | `AppendBatchHandler`, `ReplicateBatchHandler`, `UpdateGlobalIdxHandler`, `ReadEntryHandler` |
| Shard server without cache | `src/cons_log/storage/shard_server_wo_opt.cc` | `gsn_to_file_offset_map_`, `num_entries_`, `cache_size_`, `replicated_index_`, data files | `AppendBatchHandler`, `ReplicateBatchHandler`, `ReadEntryHandler` |
| Corfu build | `lazylog_cli.cc`, `shard_server.cc`, `dur_log.cc` under `CORFU` | `gsn_`, `entries_fd_set_`, `cache_size_atomic_`, `entry_size_`, data files | `GetGSN`, `AppendEntryHandler`, `ReadEntryHandler` |
| Key-value application | `src/app/ll_kv.cc` | `kv_store_`, `next_idx_` | `InsertHandler`, `playlog` |
| Serialisation | `src/rpc/log_entry.cc` | none | `Serializer`, `MultiDeserializerMaxSize`, ... |
| Others | `src/utils`, `src/benchmark`, Kafka backend, scripts | | section 7 |

How an entry travels: a client sends it to every replica and waits for all
answers. On the primary a worker thread waits for place, takes a position under
`idx_lk_`, writes the entry into the ring and sets its flag. The fetch thread of
the consensus log reads the ring with one-sided RDMA, without the primary's CPU,
and takes the flagged entries in order. The store thread stripes the batch over
the shards, waits for them (each shard replicates to its backups before it
answers), deletes the batch from the durability log (an RDMA write of the
watermarks on the primary, an RPC on each backup), and then announces the new
readable end to every shard. Readers of a shard sleep until their entry is there.
A client that cannot wait for that asks the primary for the entry
(`SpecReadEntry`). In the Corfu build there is no lazy path: a client takes a
number from the primary and writes the entry itself to every copy of its shard.

What is hard here: remote reads of memory that threads write; the check-then-act
of `waitForPlace`; a ring that wraps; backups that hold the entries in another
order; the two-buffer pipeline with its condition variables; reads that race
with replication and announcements; reads of the ring without any lock, while it
is lapped; files that one thread creates and another closes. `PROJECT.json` lists each hazard at its line
with the properties that guard it.

What makes each part correct:
- primary: unordered entries fit into the ring and stay intact; the consensus
  log gets each entry once, whole and in index order; appends do not wait forever;
- backup: an entry that is not ordered is still held; no space is freed while it
  is written; calls return;
- consensus log: nothing is deleted before it is stored, nothing is announced
  before it is stored everywhere; every entry becomes readable;
- shard: a read returns the entry asked for, replicated and announced;
- speculative read: what it returns is the entry asked for, whole, or an error;
- Corfu: a number that was acknowledged is on every copy, no file with entries is
  cut, no descriptor is used after it was closed;
- the whole: appends take their places between call and return in one log, nothing
  acknowledged is lost, readers are handed that log in order.

## 2. Modules

| Module | Models | Composes |
|---|---|---|
| `DurLogFlat` | the primary's ring word by word, the append threads, the RDMA fetch and the watermark write | abstracts the consensus log as a queue of at most `NumBuffers` batches |
| `DurLogFlatProofs` | theorems about `DurLogFlat` and `SpecRead` | extends them |
| `DurLogBackup` | clients, the primary's order, the backup's append and `delEntriesBackup`, the delete calls | |
| `ConsensusLog` | the fetch and store threads, the buffers, the striping, the calls to replicas and shards | implements `BatchQueue` |
| `BatchQueue` | abstract: a bounded queue of batches, filled and deleted in order | |
| `ShardServer` | one shard: primary, backups, data files, read threads | |
| `SpecRead` | `SpecReadEntry` and the map from index to place | extends `DurLogFlat` |
| `ShardServerUnoptimized` | one shard without cache: offsets, data files, backup, read threads | |
| `Corfu` | the Corfu build: clients, numbers, the threads and files of the shard servers | |
| `LazyLog` | clients, replicas, the loop `fetchAndStore` and the shards together | reduces each component to what its own module shows |
| `KVStore` | the key-value server on that log | extends `LazyLog`, implements `SharedLog` |
| `SharedLog` | abstract: a log that appends enter between call and return, delivered in order | |
| `MCDurLogFlat`, `MCSpecRead`, `MCDurLogBackup` | symmetry sets for TLC | |
| `DurLogBackupProofs`, `ConsensusLogProofs`, `ShardServerProofs`, `ShardServerUnoptimizedProofs`, `CorfuProofs`, `KVStoreProofs` | theorems about the module each is named after | each extends it |
| `StripeTheorems` | arithmetic of striping: which indexes share a stripe, a shard, a file | used by the proofs of `DurLogFlat`, `ConsensusLog`, both shard servers and `Corfu` |

Some definitions stand next to a *faulty variant* of the same shape (named as such
in its comment). The specifications do not use it; it is the mutant with which
`PROJECT.json` shows that a property can fail.

`ConsensusLog => BatchQueue` is what `DurLogFlat` assumes of its consumer: there,
`FetchRange` needs a free buffer and `DeleteOrderedEntries` deletes the oldest
batch. In the code a buffer becomes free a little later than the deletion of its
batch; `DurLogFlat` allows the earlier moment, so it has more behaviours.

### DurLogFlat

The memory is a function from addresses to words. An entry of size *n* takes *n*
words: word 0 is the metadata with the index and the size, word 1 the flag, the
rest data. A word remembers which entry and which part of it was stored last, so
a stale word is told from a new one. Memory nobody wrote, or data read as
metadata, reads as any size and any flag. The safe region behind the ring takes
the overflow of an entry that starts near its end. `AppendEntry` is split where
another thread or the RDMA reader can see a difference: reading the sequencer,
reading the watermark, entering the critical section (flag cleared), leaving it
(indexer and sequencer advanced), serialising, setting the flag, copying the
overflow. An RDMA read is a sequence of cache-line reads, in address order, each
atomic. Stores of a thread become visible in program order (x86), which is what
the code relies on where it says `todo: <memory barrier>`.

### SpecRead

Adds `idx_to_seq_`, which the critical section of `AppendEntry` fills, and one
reader. Every load of shared state in `SpecReadEntry` is a step (the limit, the
tail, the map, the sequencer, the index in the entry), and `Deserializer` copies
word by word. The test for a too small index is the unsigned expression of the
code: it refuses every index until the log is long enough. The ring size is no
multiple of the entry size, so entries overflow into the safe region. A
fetch has no limit in the run and reads the ring as one line, since the reads here
are those of the primary itself; what the consensus log frees lets appends lap the
ring under the reader. The
properties are about reads that are not *overtaken*: `NotOvertaken` says that
appends since the comparison stayed inside the reserve. The code offers no
more: a read that sleeps while the ring is lapped returns words of other entries.
`SpecReadFinds` allows -1 ("has been GCed") only while the log is young (`LongLog` is
false) or for an entry whose mapping or place the next appends may take (`InReach` is
false); `UnorderedIsRead`, which the header and the unit test ask for, is the fourth
finding of section 4.

### DurLogBackup

Every entry takes one unit, because the order of entries and not their size
matters here. `gc` is the delete call with its locals; `LookUp`, `PurgePending`,
`LockRing`, `ScanEntry`, `UnlockRing` and `AdvanceWatermark` are the pieces of
`delEntriesBackup` between which appends can run. `operator[]` of the C++ maps is
modelled as it is: it reads, and inserts, 0 for a missing key. A scan that meets
memory nobody wrote waits: the region is a fresh mapping, so its flags are 0.
Clients have one request under way and distinct ids.

### ConsensusLog and BatchQueue

Entries are their indexes. The mutex of a buffer is the field `lock`, a wait on
`cv_empty_` is `fetcher.pc = "wait"` (ended by the notification, or spuriously), a
wait on `cv_full_` is `storer.pc = "wait"` (ended by the notification or by the
timeout of `wait_for`). `calls` holds the RPCs the store thread waits for; they
are handled in any order. `HandleAppend` is a whole `AppendBatchHandler`, whose
steps `ShardServer` has.

### ShardServer

Every critical section of `cache_rw_lock_` is one step, since none of them waits
while it holds the lock. The server thread handles one batch at a time (the
consensus log waits for its answer). `Preloads` are the lengths the log in the data
files may have when the server starts, anywhere in a stripe, with
`shard.replicated_index` and `shard.global_index` set accordingly; the indexes of a new
log start at 0. `entries_fd_set` maps a stripe to what its descriptor is: "rdwr" for a
file the server created, "rdonly" for a small one that `loadFromDiskToCache` kept open
(it compares bytes with a number of entries, hence `EntryBytes`), "stdin" for the 0 that
`addToEntryCache` is left with or that `operator[]` inserts, "closed" after
`writeFromCacheToDisk`, which erases nothing. Only a write through "rdwr" reaches the file. A
close through `end()` is undefined, and closes nothing or any descriptor of the map.
`start` is a history variable: the length of the log in the files at the start.

### ShardServerUnoptimized

Entries have lengths here, and a file is a sequence of words, because this server
works out where an entry ends from the offset of the next one. `ProcessAndBuildMap`
is the function of that name; `Loaded` and `Extended` are what `loadFromDiskToCache`
and `processEntriesAndBuildMap` make of a file and of a batch. `copy` is the backup,
which runs the same function. There is one backup (section 4) and data files end
at a stripe boundary when the server starts.

### Corfu

A file is the set of slots written. `FindFile` (shared lock), `CreateFile`
(exclusive lock, second look), `PWrite`, `CountEntry`, `NotFull`/`Full` and `CloseFile`
are the pieces of `AppendEntryHandler` between which other threads run; descriptors
are numbers that the next `open` reuses. `strays` records entries written to
descriptor 0 by a thread that lost the race for the creation (section 4).

### LazyLog, KVStore and SharedLog

An append or a delete call is one step on a replica, a backend call one step on a
shard; what happens inside them is in the other modules. Clients of
`QuorumClients` use `AppendEntryQuorum` (with `pending_reqs_`) or the serial
`AppendEntry`, the others `AppendEntryAll`. The consensus log is the loop
`fetchAndStore`; `ConsensusLog` has the pipelined form. `DeleteOn` lets a backup free
any part of what `delEntriesBackup` would count as ordered, which covers every
outcome of `DurLogBackup`, the finding about first entries included.
The playlog thread of `KVStore` asks for the ordered tail and replays the entries up
to it. The refinement maps the primary's log to the abstract log: an append takes
its place when the primary handles it. `delivered` is what the playlog thread read.

## 3. Runs

| Run | What it shows | Bounds |
|---|---|---|
| `ring` | more than one lap of the ring, entries that end exactly at its end: entries stay intact, the fetch returns them in order and whole, both watermarks name the same entry; appends return and entries get ordered | 2 threads, 4-word entries, 16-word ring, reserve 8, fetch limit 7 (cuts entries), 5 appends |
| `spec_read` | the reserve of `waitForPlace` is enough; speculative reads are right and, in a log that is long enough, find what is written | 2 threads, 3-word entries, 11-word ring (entries cross the end), reserve 6, 5 appends |
| `spec_read_young` | **violation**: in a young log an entry that is written and not ordered is answered -1 | as `spec_read` |
| `ring_straddle` | **violation**: an entry across the end of the ring is fetched with stale words | 18-word ring |
| `backup` | what a backup keeps and frees; delete calls return | 2 clients, 2 requests each, ring of 3 |
| `backup_first` | **violation**: the first entry of a client is dropped | 2 clients, 2 requests |
| `backup_stall` | **violation**: a slow backup stops freeing space | ring of 2 entries |
| `pipeline` | safety, liveness and refinement of the consensus log | 2 shards, stripes of 2 x 2, 10 entries, batches up to 9 |
| `lazylog` | the system with clients and key-value server implements `SharedLog`; what is acknowledged is durable; the replay catches up | 2 clients (one of each kind), 1 backup, 2 shards, 1 key, no append begins in a log of 2 entries |
| `shard` | reads are safe and answered, data files and backups follow | 2 readers, 2 backups, shard 1 of 2, stripes of 3, 2-byte entries, a log of 0, 2, 4 or 6 entries on disk (none, 1, 2 or all 3 entries of the stripe), up to 8 |
| `wo_opt` | offsets are those of the file, reads are exact, replicated and answered | 2 readers, stripes of 3, entries of 1 or 2 words, new log or one full stripe on disk |
| `corfu` | descriptors, files and acknowledgements under racing threads; reads; appends return | 2 clients, 2 copies, 2 shards, stripes of 2, 5 numbers |

Why the bounds are enough: in the ring runs each thread appends on both laps, the
reserve is the smallest the assumption allows, and the fetch limit is no multiple
of the entry size. With two clients, the orders of primary and backup differ in
every way two requests can, and an entry is left by one call, met by the next and
purged. In `pipeline` a batch begins and ends anywhere in a stripe and covers up to
three stripes, and each buffer is used several times. In `lazylog` the bound is on
the log when a call starts, so calls that overlap make it longer; a client
appends twice, batches span both shards, and the queues of pending tokens see a
call that leaves tokens behind and one that finds them. In `corfu` five numbers fill
the stripe of both shards and open the next one, with both clients in the same stripe.
In `shard` a stripe found with 1 entry is a small file and one found with 2 is not, a batch
completes either at once or in two steps, before or after a reader has loaded it, and
the next stripe is created.
`CHECK_DEADLOCK FALSE` stands in the durability-log runs, `spec_read` and `lazylog`:
when no client appends, nothing has to happen there. Symmetry over threads or
clients is used only in runs without liveness properties.

`UnorderedIntact` is checked with entries that divide the ring. With others, the
copy of an overflow can be delayed past the deletion of its entry and overwrite
the next lap: the same cause as the violation of `ring_straddle`. The proofs of
section 6 name that condition (`AllInOnePiece`). The copy itself (`CopyTail`, the
second half of `FinishWrite`) is taken in `spec_read` and `ring_straddle`, whose
entries cross the end of the ring.

## 4. Findings

1. `src/dur_log/dur_log_flat.cc:156`: the flag is set before the overflow is copied.
2. `src/dur_log/dur_log_flat.cc:262`: a client missing from the batch reads as 0, and
   its unordered first entry is dropped by the backup.
3. `src/dur_log/dur_log_flat.cc:229`: a request that is not mapped yet counts as place
   0, and a backup that is slower than the delete calls stops freeing its ring.
4. `src/dur_log/dur_log_flat.cc:197`: `indexer - idx_map_elem_cnt_ + 64` is unsigned. Until
   the log has almost `idx_map_elem_cnt_` entries it wraps, and every `SpecReadEntry` is
   answered -1 (`TooLow` of `SpecRead`). `src/client/lazylog_cli.h:43` says -1 is for an entry
   that has been garbage collected, and `tst/flat_log_test.cc:265` expects to find the
   unordered entries of a log of 20.

Read in the code while modelling it, without a run of their own:

- `src/cons_log/storage/shard_server.cc:346`: the two indexes start as 0, so entry 0 passes
  the test for "safe to read" before it is replicated and announced. `LaterReadIsSafe`
  and `LaterReadIsReplicated` show that it is the only entry served too early.
- `src/rpc/log_entry.cc`, `Deserializer`: the size is loaded before the flag is tested, so
  a speculative read of an entry that is being written can see the flag of the entry
  and the size of what lay there before. `SpecReadIsRight` is about entries whose
  append was over when the read began.
- `src/dur_log/erpc_dl_transport.cc:112` (`GetTail`): the durable and the ordered
  tail are two loads; together they may never have been true.
- `src/cons_log/storage/shard_server.cc:526-539` (Corfu): a thread that finds, on its second
  look, that another one created the file keeps `fd` 0, writes to standard input and
  acknowledges. `AckedIsWritten` and `ClosedStaysClosed` name these entries (`strays`).
- `src/cons_log/storage/shard_server.cc:276` (Corfu): the result of `pread` is not compared
  with the length asked for; a read past the end answers with what the buffer held.
- `src/cons_log/storage/shard_server.cc:57` (Corfu): the background `fsync` takes the newest
  descriptor only, outside the lock.
- `src/cons_log/storage/shard_server.cc:485`, `shard_server_wo_opt.cc:263`: after a restart, an
  append to a partly filled stripe loads it and leaves the descriptor 0, and the write
  at `shard_server.cc:507` does not reach the file; nor do the next ones, through 0 or
  through the read-only descriptor of `:609`, although `:606` means to "keep fd open". The batch
  that completes the stripe may close through `end()` (`:581`). `CacheIsOnDisk` has this as its
  exception, and shows that no other stripe is affected.
- `src/cons_log/storage/shard_server_wo_opt.cc:139`: the vector of tokens is not reserved
  (`shard_server.cc:179` does it), so with two backups the first token moves while the
  RPC layer has its address; and this server registers no handler for
  `UPDATE_GLBL_IDX`, so it does not hold reads back until they are announced.
- `src/cons_log/storage/naive_backend.cc:160`: a missing entry is not told from an empty one.
- `src/cons_log/storage/kafka_backend.cc:23`: the loop leaves out the last entry of a batch.
- `src/app/ll_kv.cc:127` reads `kv_store_` while the playlog thread writes it, without a lock;
  `ll_kv.cc:104` handles inserts inside a loop that itself runs the event loop.

## 5. Fairness

Every thread is run by the operating system (weak fairness of its steps), RPCs
and RDMA operations complete (eRPC retransmits; the code waits without a
timeout), and locks are not withheld forever. Clients need not append or read,
the consensus log need not send to a shard in `ShardServer`, and a wait on a
condition variable is ended for sure only by a notification or, for `wait_for`, by
its timeout. In `KVStore` clients poll, replicas handle requests, the consensus log
and the playlog thread run, each a loop of a thread of its own; nobody has to
insert. In `Corfu` a server thread that has an entry goes on. The reader lock of the
shard could starve its writer under an endless stream of reads; the shard modules have no such starvation, since their
critical sections are single steps.

## 6. Proofs

`DurLogFlatProofs` proves, for every finite set of threads, every set of sizes up
to `MaxSize`, every ring, reserve, cache line and fetch limit that satisfy the
assumptions of `DurLogFlat` (the main one: the reserve holds one largest entry per
thread):

- `TypeCorrect`: `Spec => []TypeOK`
- `RingNeverOverrun`: `Spec => []UnorderedFitsRing`
- `WatermarkOnlyAdvances`: `Spec => WatermarkAdvances`

The comment in `waitForPlace` argues that K waiting threads need K entries of
reserve. That is no invariant: a thread compares a sequencer that may be stale
by any number of appends, while others have read newer values. The inductive
invariant makes the argument precise. `RoomInv` says, for every limit *x* that
`waitForPlace` would refuse: the words claimed past *x*, plus one largest entry
for each thread that read the sequencer at or below *x* and has not claimed yet,
are at most one largest entry per thread. A thread that reads a sequencer above
*x* fails the test; one that read it below pays for its entry when it claims.
`ThreadInv` ties the value a thread compared to the watermark (which only grows,
by `QueueInv`), `FetchInv` keeps the fetch between `fetch_begin` and the
sequencer. `Inductive` is `Spec => []IInv` with the conjunction of the four and
`TypeOK`; each is proved action by action.

`UnorderedFitsRing`, the invariant of the second theorem, is checked by `spec_read`
with the smallest reserve and entries of one size (the theorem is for any sizes), and `WatermarkAdvances` by `ring`.

What the ring holds is the second part of the module:

- `AppendedStaysIntact`: `Spec /\ []AllInOnePiece => []UnorderedIntact`
- `FetchIsInOrder`: `Spec /\ []AllInOnePiece => []FetchedInOrder`
- `WatermarksNameOneEntry`: `Spec /\ []AllInOnePiece => []WatermarksAgree`
- `OneSizeRing`: if `OneSizeFits`, then `Spec` implies all three without a condition.

`AllInOnePiece` says that no entry of the log is cut by the end of the ring and no
metadata by the end of a cache line. It is a condition on the behaviour, and it is
needed: `ring_straddle` violates `FetchedInOrder` without it (first finding), and torn
metadata is not something the code guards against. It is not empty: with entries of
one size that divides the ring, and a line that is a multiple of that size or the
other way round (`OneSizeFits`; `src/client/benchmarking/append_bench.cc` appends
entries of one size), it is an invariant (`OneSizeInOnePiece`). The sequence numbers are
then multiples of the size, which is the invariant `OneSizeInv`.

`RingInv` is the inductive invariant. `LogInv` says that entries lie one behind the
other, from 0 to the sequencer; `WriterInv` that a thread between its critical
section and its flag writes an entry of the log that nobody else writes and that has
not been fetched; `MemInv` that the flag of such an entry is 0 from the moment it
enters the log, which is what makes the remote reader stop in front of it, and that
all other entries not deleted are whole. The remote read is not atomic, so what it
has read is of several moments: `WordsInv` says that if the flag it found was set,
the words after it, read later, are those of the finished entry (which stays, since
it cannot be deleted before it is fetched). `TakenInv` and `BatchInv` carry this through
parsing and into the batches and the watermarks. That threads do not disturb each
other's words rests on the first part: words that are not deleted are less than a
lap apart, so their places differ (`LiveDistinct`), and a thread that may claim has
room for a largest entry (`RoomToClaim`).

The third part is about speculative reads, which read the ring without a lock and may
look at entries already deleted:

- `ReadsTheRing`: `SpecReadSpec => Spec`, a reader changes nothing in the ring
- `SpecReadIsRightThm`: `SpecReadSpec /\ []AllInOnePiece => SpecReadIsRight`
- `SpecReadFindsThm`: `SpecReadSpec /\ []AllInOnePiece => SpecReadFinds`
- `OneSizeSpecRead`: both without the condition, if `OneSizeFits`.

`LapInv` extends `UnorderedIntact` to deleted entries: one stays whole until an append
claims its place on the next lap. `IdxInv` says that an index is mapped to its entry
until its mapping is reused, one append before the index is that old: the critical
section writes the map before it advances the indexer. `ReadInv` follows the locals of
the read from load to load: what passed the test for a low index keeps its mapping
for `IdxSlack` more appends, what passed the test of the sequencer is out of reach of
the reserve, and the words copied are the first ones of the entry. What fails the
first of these tests is in a young log or has a mapping that is about to be reused,
what fails the second has a place that is: that is all `SpecReadFinds` allows. The parts of this
invariant are checked by TLC on instances in one piece; the run `spec_read` covers
entries across the end of the ring, which the theorems leave out.

The other modules are laid out in the same way: a conjunction `IInv` of named parts,
one lemma per action (and per part, where the action disturbs several), the theorem
`Invariance` (`Spec => []IInv`), and one theorem per property. Each assumes only the
named ASSUME of the module it is about, unless said otherwise here. Each `IInv` also
holds on the instance of the module's run, checked with TLC.

**ConsensusLogProofs**, for every number of shards, stripe, set of replicas and batch
size: `TypeOKThm`, `PlacedForReadThm`, `DeletedIsStoredThm`, `GlobalIsStoredThm`, and
`ImplementsQueueSteps` (`Spec => Queue!SafeSpec`). The properties speak of what a
shard holds, but whether it is safe to delete depends on which buffer a thread is
about to look at. `BufInv` supplies that: the rounds and program counters of the two
threads determine which buffers are full, which entries each holds and that the
batches are adjacent; this is the argument that two flags, two locks and two condition
variables make a queue, and the refinement follows from it. `FetchInv` says that the
fetch thread has an empty buffer, `StoreInv` which calls the store thread can be waiting
for at each of its steps, and `DeleteInv` how far each replica has deleted and each
shard was told. `ShardInv` says that the entries below its frontier, and no others, are
on a shard; within a stripe the frontier differs from shard to shard, depending on
whether its call is still under way.

**DurLogBackupProofs**, for every finite set of clients, number of requests and ring:
`TypeOKThm`, `FreedWasWrittenThm`, `LaterUnorderedIsHeldThm`, `PendingLeftRingThm`. The
delete call compares request numbers of the batch it was given with those of a ring
in another order, across several critical sections. `SentInv` and `OrderInv` say that
a client's requests are in the primary's order one after the other, none missing, so
that the largest number of a client in a batch speaks for all before it. `MapInv` and
`CallInv` bound what the call took from the map and keep it behind the entries that are
written; `PlaceInv` says that an append has its entry at its place and alone sets the
flag; `OnceInv` that the ring has every request once; `PendingInv` that an entry the
scan has passed is pending, ordered, or the first of its client.
`LaterUnorderedIsHeld` excludes the first request of a client because of the second
finding of section 4.

**ShardServerProofs**, for every number of readers and backups, every striping and
every log found in the data files: `LaterReadIsSafeThm`, `BackupsFollowThm` and
`CacheIsOnDiskThm`.
`CacheInv` and `CopyInv` give every replica a level: each of its stripes, from memory
or else from its file, holds exactly the shard's entries below that level. `ServerInv`
ties the levels to the batch under way: a backup is at its beginning or at its end.
`IndexInv` keeps the replicated index below the lowest level and the global one within
what was announced, and `ReadInv` says the same of an entry that was read. The third
theorem adds `DiskInv`: a stripe that is not full has a descriptor open for writing, and
a file that is not in memory is full, unless it was partly filled at the start; the
stripe of such a file never has that descriptor. The undefined close through `end()`
could break the first part for another stripe, but then every other stripe in memory is
full (`OthersFull`). The exception for partly filled files is part of the property, and is
what the code does (section 4, `shard_server.cc:485`).

**ShardServerUnoptimizedProofs**, for every striping, all lengths of the entries, any
number of readers and every cut of the log into batches: `ReadIsExactThm`,
`MapIsOfFileThm` and `LaterReadIsReplicatedThm`. This server works out where an entry
ends from the offset of the next one, and its files grow by concatenation. `Laid` says
of words that they are a run of the shard's entries, each at its offset with its own
length, and that every word belongs to one; it is shown of a serialised batch, of a
file, and of a file with a batch behind it, and from it follow the map
`processEntriesAndBuildMap` makes, the number of entries it counts and the words a
read takes out. That a batch of any length is laid out takes an induction, which is
done with the least length that would not be (`LeastExists`). `StoreInv` says that a
store holds the shard's entries up to a level, each file `Laid`, and that what is in
memory of a stripe is what loading its file would give. `InvAt(f)` ties the levels of
primary and backup to the batch under way, which starts at entry `f`; the invariant is
that there is such an `f`. `ReplicatedInv` and `ReadsInv` say that what is served, entry
0 apart, lies below `f`.

**CorfuProofs**, for every set of clients, number of copies and shards and every
stripe: `FdIsMineThm`, `AckedIsWrittenThm`, `ClosedStaysClosedThm` and the action property
`WrittenIsReadThm`. A thread uses its descriptor outside the lock, so that it is
still open when it writes follows from counting: `FileInv` says that the count of an
open file is the number of entries whose threads passed `CountEntry`, so the count
cannot be full while a thread of the stripe has yet to write, and that a closed
file is complete. It also gives each open file a descriptor of its own. `UniqueInv`
says that a number is given once; `SlotInv` that a file holds the slots of exactly the
entries that were written and are not stray; `ThreadInv` that the file of a thread's
stripe exists, and that a thread about to close it has seen the stripe complete;
`AckedInv` that an acknowledged append has left the last server. `ReadInv` carries
"written" from the beginning of a read to its end.

**KVStoreProofs**, for every set of clients and keys, every finite set of
backups and every number of shards: `AckedIsDurableThm`, `ToldTailIsStoredThm`, `StoreIsReplayThm`,
`PendingStaysShortThm` and `ImplementsSharedLogThm`, that the composed system implements
the abstract shared log. `PlaceInv` and `LogInv` say that the entries of a client lie in
the primary's log in their order, none missing, and that the entry of a call is there
once the primary has answered; `CallInv` when a request can be in flight or complete;
`ClInv` that what the consensus log deletes and announces is stored. `HeldInv` is the
core: a backup holds what it has answered until a shard has stored it, whether the
primary has placed it or not; `AckedIsDurable` alone says nothing about entries that
a backup has and the primary does not. `PendingInv` says that a token an earlier call
left behind is at the front of its queue, and `PlayInv` that the playlog thread has
read a prefix of the ordered log.
`AckedIsDurable` leaves out a client's first request, as `LaterUnorderedIsHeld` does.
The refinement maps the beginning and the end of an append to `Call` and `Return`, the
primary's handling of it to `TakePlace`, a read of the playlog thread to `Deliver`, and
every other step to stuttering.

Every invariant and every action property that a run checks is stated by a theorem.
Only model-checked are the liveness properties (`AppendReturns`, `EntriesGetOrdered`,
`CallReturns`, `EntriesBecomeReadable`, `EntriesGetPlayed`, `ReadReturns`,
`ReplicatedIsRead`) and of the refinement of `BatchQueue` the fairness (`Spec => Queue!Spec`
is checked by `pipeline`, the part without fairness is proved): liveness under fairness
is out of the prover's reach.

The theorems about the ring and about speculative reads speak of behaviours in which
entries lie in one piece. For others, `RingNeverOverrun` is proved, and what entries
across the end do to a speculative read is checked by `spec_read` only.

## 7. Not modelled

- Connection set-up, views (`view_` never changes), metrics, logging and shutdown.
- `wait=false` of the ring; the background `fsync`, which changes no modelled state.
- The hash-map log of `dur_log.cc`, except `GetGSN`: the flat log overrides the rest in
  every program.
- `OrderEntry`, the `FetchUnorderedEntries` RPC and `GetGSNBatch`, which nothing calls;
  `ReadBatchHandler` of the shard and the handlers of the consensus log, which
  nothing registers or serves.
- Restarts of processes, which the transports do not support while peers run: only
  the start of a shard on existing data files is modelled.
- Calls of the file system that fail: the handlers log and go on, so that an open that
  fails at `shard_server.cc:490` or, in the Corfu build, `:530` acknowledges entries that
  are in no file.
- On the backup, threads that pass `waitForPlace` together: `DurLogBackup` claims in the
  step of the test, and the race is in `DurLogFlat`.
- Torn metadata of entries whose header lies on two cache lines.
- Lookups of the key-value server: they change nothing, and race with the replay.
- The Kafka backend (no program is built with it), rate limiter, timer, properties,
  benchmarks and scripts.

eRPC, the RDMA library and the condition variables are external and modelled
from their use. Messages are not lost or repeated: eRPC delivers once and the code
has no retries of its own.

## 8. Plan

Done: the ring, speculative reads, the backup, the pipeline with its refinement, both
shard servers, the Corfu build, the composition with the client library and the
key-value server; and proofs of every safety property that is checked.

What could follow:

1. a ring whose entries may cross its end, with the flag set after the copy of the
   overflow: the order that would remove the first finding, and with it the condition
   of the theorems about the ring;
2. `CacheIsOnDisk` without its exception, once the code opens the file of a stripe that is
   found partly filled for writing (section 4);
3. reads of the cached shard server at the level of words, as in
   `ShardServerUnoptimized`.
