---------------------------- MODULE ShardServer ----------------------------
(***************************************************************************)
(* One shard (class ShardServer): its primary, whose server thread stores  *)
(* and replicates the batches of the consensus log, its backups, and the   *)
(* read threads of the primary, which hold a read back until its entry is  *)
(* stored, replicated and part of the readable log.                        *)
(*                                                                         *)
(* Every critical section of cache_rw_lock_ is one step: none of them      *)
(* waits, except in cache_write_cv_.wait, which releases the lock.  A      *)
(* notification that follows a critical section is part of its step: the   *)
(* readers that come to wait in between have seen what it tells them, and  *)
(* a wait may end without reason anyway.                                   *)
(***************************************************************************)
EXTENDS Integers, Sequences, FiniteSets

CONSTANTS
    Readers,      \* the read threads (read_server_func)
    Backups,      \* backups_
    ShardNum,     \* shard_num_
    ShardId,      \* shard_id_
    StripeUnit,   \* stripe_unit_size_: entries in a data file
    EntryBytes,   \* bytes of an entry in a data file
    Preloads,     \* lengths the log in the data files may have at the start
    MaxLen        \* bound: length of the log

ASSUME ShardAssumption ==
    /\ IsFiniteSet(Readers) /\ IsFiniteSet(Backups)
    /\ ShardNum \in Nat \ {0} /\ StripeUnit \in Nat \ {0} /\ EntryBytes \in Nat \ {0}
    /\ ShardId \in 0..(ShardNum - 1)
    /\ MaxLen \in Nat /\ Preloads \subseteq 0..MaxLen

VARIABLES
    server,             \* the server thread: where it is, the batch, its base
    tokens,             \* the backups that have not answered
    next,               \* consensus log: next index for this shard
    stable_gp,          \* consensus log: last index announced, -1 for none
    entries_cache_set,  \* base index to the entries in memory (partial)
    entries_fd_set,     \* base index to what its descriptor is (partial)
    files,              \* the data files: base index to entries (partial)
    start,              \* history: length of the log in the files at the start
    copies,             \* the caches of the backups
    replicated_index,   \* replicated_index_
    global_index,       \* global_index_
    reader,             \* where each read thread is
    idx,                \* the index it was asked for
    result              \* what it answered last: a set of at most one entry

cacheVars == <<entries_cache_set, entries_fd_set>>
storeVars == <<cacheVars, files, start>>
readVars  == <<reader, idx, result>>
\* What the read threads look at and do not change.
shardVars == <<server, tokens, next, stable_gp, files, start, copies,
               replicated_index, global_index>>
vars == <<shardVars, cacheVars, readVars>>

BigStripe == StripeUnit * ShardNum
BaseIdx(i) == (i \div BigStripe) * BigStripe
OwnIdxs == {i \in 0..(MaxLen - 1) : i % ShardNum = ShardId}

MinOf(a, b) == IF a <= b THEN a ELSE b
MaxOf(a, b) == IF a >= b THEN a ELSE b

\* A partial map with v at base.
Put(map, base, v) == [b \in DOMAIN map \cup {base} |-> IF b = base THEN v ELSE map[b]]

\* A partial map from base indexes to sequences, with the entries es at base.
AppendAt(map, base, es) ==
    [b \in DOMAIN map \cup {base} |->
        (IF b \in DOMAIN map THEN map[b] ELSE <<>>) \o (IF b = base THEN es ELSE <<>>)]

\* The entries of this shard below len, as data files.
FilesOf(len) ==
    LET own == {i \in OwnIdxs : i < len} IN
    [b \in {BaseIdx(i) : i \in own} |->
        [k \in 1..Cardinality({i \in own : BaseIdx(i) = b}) |-> b + ShardId + (k - 1) * ShardNum]]

\* The first index of this shard from i on.
OwnFrom(i) == CHOOSE j \in i..(i + ShardNum - 1) : j % ShardNum = ShardId

Init ==
    \E len \in Preloads :
        /\ server = [pc |-> "idle", batch |-> <<>>, base |-> 0]
        /\ tokens = {}
        /\ next = OwnFrom(len)
        /\ stable_gp = len - 1
        /\ entries_cache_set = <<>>
        /\ entries_fd_set = <<>>
        /\ start = len
        /\ files = FilesOf(len)
        /\ copies = [b \in Backups |-> FilesOf(len)]
        /\ replicated_index = MaxOf(len - 1, 0)
        /\ global_index = MaxOf(len - 1, 0)
        /\ reader = [r \in Readers |-> "idle"]
        /\ idx = [r \in Readers |-> ShardId]
        /\ result = [r \in Readers |-> {}]

\* A faulty variant of Notified: one waiting reader is woken, as by notify_one.
OneNotified ==
    LET waiting == {r \in Readers : reader[r] = "wait"} IN
    IF waiting = {} THEN reader
    ELSE [reader EXCEPT ![CHOOSE r \in waiting : TRUE] = "lock"]

\* cache_write_cv_.notify_all().
Notified == [r \in Readers |-> IF reader[r] = "wait" THEN "lock" ELSE reader[r]]

-----------------------------------------------------------------------------
(* AppendBatchHandler *)

\* A batch of the consensus log arrives, the next entries of this shard in
\* one stripe, and is sent on to the backups.
AppendBatch ==
    /\ server.pc = "idle"
    /\ next < MaxLen
    /\ \E n \in 1..StripeUnit :
          LET last == next + (n - 1) * ShardNum IN
          /\ last < MinOf(BaseIdx(next) + BigStripe, MaxLen)
          /\ server' = [pc |-> "addToEntryCache", base |-> BaseIdx(next),
                        batch |-> [k \in 1..n |-> next + (k - 1) * ShardNum]]
          /\ next' = last + ShardNum
    /\ tokens' = Backups
    /\ UNCHANGED <<stable_gp, storeVars, copies, replicated_index, global_index, readVars>>

\* What a backup holds after the batch.
Replicated(copy) == AppendAt(copy, server.base, server.batch)

\* ReplicateBatchHandler of a backup.
ReplicateBatch(b) ==
    /\ b \in tokens
    /\ copies' = [copies EXCEPT ![b] = Replicated(@)]
    /\ tokens' = tokens \ {b}
    /\ UNCHANGED <<server, next, stable_gp, storeVars, replicated_index, global_index, readVars>>

-----------------------------------------------------------------------------
(* The data files.  A descriptor is "rdwr" or "rdonly" as its file was       *)
(* opened, "closed", or "stdin" when it is 0 and not that of a data file.    *)
(* Only a write through "rdwr" reaches the file.                             *)

\* The condition to keep a loaded file open compares its bytes with a number
\* of entries.
SmallFile(stripe) == Len(files[stripe]) * EntryBytes < StripeUnit

\* loadFromDiskToCache: memory takes what the file holds; the descriptor of a
\* small file is kept, and it is open for reading.
LoadedCache(stripe) == Put(entries_cache_set, stripe, files[stripe])
LoadedFds(stripe) ==
    IF SmallFile(stripe) THEN Put(entries_fd_set, stripe, "rdonly") ELSE entries_fd_set

\* A faulty variant of FullAt: the file is closed one entry too early.
FullEarly(n) == n + 1 >= StripeUnit

\* The data file is complete, and writeFromCacheToDisk closes it.
FullAt(n) == n >= StripeUnit

\* writeFromCacheToDisk: the descriptor is closed and stays in the map.  If
\* there is none, what end() points at is closed: no descriptor, or any.
WriteFromCacheToDisk(fds, base) ==
    IF base \in DOMAIN fds THEN {Put(fds, base, "closed")}
    ELSE {fds} \cup {Put(fds, b, "closed") : b \in DOMAIN fds}

\* addToEntryCache: a stripe that is not in memory is loaded from its file, fd
\* staying 0, or its file is created; for one in memory operator[] finds the
\* descriptor or makes it 0.  The entries go to memory and to that descriptor.
AddToEntryCache ==
    LET base   == server.base
        known  == base \in DOMAIN entries_cache_set
        onDisk == base \in DOMAIN files
        fds    == IF known THEN IF base \in DOMAIN entries_fd_set THEN entries_fd_set
                                ELSE Put(entries_fd_set, base, "stdin")
                  ELSE IF onDisk THEN LoadedFds(base) ELSE Put(entries_fd_set, base, "rdwr")
        fd     == IF ~known /\ onDisk THEN "stdin" ELSE fds[base]
        cache  == IF ~known /\ onDisk THEN LoadedCache(base) ELSE entries_cache_set
        added  == AppendAt(cache, base, server.batch)
    IN
    /\ server.pc = "addToEntryCache"
    /\ entries_cache_set' = added
    /\ files' = IF fd = "rdwr" THEN AppendAt(files, base, server.batch) ELSE files
    /\ entries_fd_set' \in IF FullAt(Len(added[base])) THEN WriteFromCacheToDisk(fds, base)
                                                     ELSE {fds}
    /\ server' = [server EXCEPT !.pc = "waitForBackups"]
    /\ UNCHANGED <<tokens, next, stable_gp, start, copies, replicated_index, global_index, readVars>>

allRPCCompleted == tokens = {}

\* All backups have answered: replicated_index_ moves and the call is answered.
SetReplicated ==
    LET stored == entries_cache_set[server.base] IN
    /\ server.pc = "waitForBackups"
    /\ allRPCCompleted
    /\ replicated_index' = stored[Len(stored)]
    /\ reader' = Notified
    /\ server' = [server EXCEPT !.pc = "idle"]
    /\ UNCHANGED <<tokens, next, stable_gp, storeVars, copies, global_index, idx, result>>

\* UpdateGlobalIdxHandler.  The consensus log announces the end of a batch
\* once every shard has answered: an index before the next of this shard.
UpdateGlobalIdx ==
    /\ server.pc = "idle"
    /\ \E g \in MaxOf(stable_gp + 1, next - ShardNum)..(MinOf(next, MaxLen) - 1) :
          /\ stable_gp' = g
          /\ global_index' = g
    /\ reader' = Notified
    /\ UNCHANGED <<server, tokens, next, storeVars, copies, replicated_index, idx, result>>

-----------------------------------------------------------------------------
(* ReadEntryHandler, run by read thread r *)

Goto(r, from, to) == reader[r] = from /\ reader' = [reader EXCEPT ![r] = to]

\* A read request for an entry of this shard.
ReadEntry(r) ==
    /\ Goto(r, "idle", "lock")
    /\ \E i \in OwnIdxs : idx' = [idx EXCEPT ![r] = i]
    /\ result' = [result EXCEPT ![r] = {}]
    /\ UNCHANGED <<shardVars, cacheVars>>

LocalCacheIdx(i) == (i - BaseIdx(i)) \div ShardNum

\* A faulty variant of MayRead: global_index_ is not looked at.
MayReadUnordered(i) ==
    /\ LocalCacheIdx(i) < Len(entries_cache_set[BaseIdx(i)])
    /\ i <= replicated_index

\* The entry is there and "safe to read".
MayRead(i) ==
    /\ LocalCacheIdx(i) < Len(entries_cache_set[BaseIdx(i)])
    /\ i <= replicated_index
    /\ i <= global_index

\* The loop under the shared lock: answers, waits, or goes to load the stripe.
CheckCache(r) ==
    LET stripe == BaseIdx(idx[r]) IN
    /\ \/ /\ stripe \notin DOMAIN entries_cache_set
          /\ Goto(r, "lock", "load")
          /\ UNCHANGED result
       \/ /\ stripe \in DOMAIN entries_cache_set
          /\ ~MayRead(idx[r])
          /\ Goto(r, "lock", "wait")
          /\ UNCHANGED result
       \/ /\ stripe \in DOMAIN entries_cache_set
          /\ MayRead(idx[r])
          /\ Goto(r, "lock", "idle")
          /\ result' = [result EXCEPT
                          ![r] = {entries_cache_set[stripe][LocalCacheIdx(idx[r]) + 1]}]
    /\ UNCHANGED <<shardVars, cacheVars, idx>>

\* A faulty variant of Loadable: the stripe is not looked for again, and
\* loaded over what other threads have put in memory since.
LoadableAgain(stripe) == stripe \in DOMAIN files

\* The stripe is only in its data file.
Loadable(stripe) == stripe \notin DOMAIN entries_cache_set /\ stripe \in DOMAIN files

\* Under the exclusive lock: looks again, and loads the stripe if it is only
\* in its data file.
LoadFromDiskToCache(r) ==
    LET stripe == BaseIdx(idx[r]) IN
    /\ reader[r] = "load"
    /\ IF Loadable(stripe)
       THEN /\ entries_cache_set' = LoadedCache(stripe)
            /\ entries_fd_set' = LoadedFds(stripe)
            /\ reader' = [Notified EXCEPT ![r] = "relock"]
       ELSE /\ reader' = [reader EXCEPT ![r] = "relock"]
            /\ UNCHANGED cacheVars
    /\ UNCHANGED <<shardVars, idx, result>>

\* Under the shared lock again: still no stripe, so it waits.
Relock(r) ==
    /\ IF BaseIdx(idx[r]) \in DOMAIN entries_cache_set
       THEN Goto(r, "relock", "lock") ELSE Goto(r, "relock", "wait")
    /\ UNCHANGED <<shardVars, cacheVars, idx, result>>

\* A wait on a condition variable may also end without a notification.
SpuriousWake(r) ==
    /\ Goto(r, "wait", "lock")
    /\ UNCHANGED <<shardVars, cacheVars, idx, result>>

-----------------------------------------------------------------------------
ServerStep == AddToEntryCache \/ SetReplicated \/ UpdateGlobalIdx \/ AppendBatch
ReadStep(r) == CheckCache(r) \/ LoadFromDiskToCache(r) \/ Relock(r)

Next ==
    \/ ServerStep
    \/ \E b \in Backups : ReplicateBatch(b)
    \/ \E r \in Readers : ReadEntry(r) \/ ReadStep(r) \/ SpuriousWake(r)

Spec == Init /\ [][Next]_vars

\* Started calls are finished, and every read thread runs when it can; the
\* lock is not withheld forever from who wants it.  The consensus log need
\* not send anything, and only a notification is sure to end a wait.
Fairness ==
    /\ WF_vars(AddToEntryCache) /\ WF_vars(SetReplicated)
    /\ \A b \in Backups : WF_vars(ReplicateBatch(b))
    /\ \A r \in Readers : WF_vars(ReadStep(r))

FairSpec == Spec /\ Fairness

-----------------------------------------------------------------------------
(* Properties *)

OnBackup(b, i) ==
    LET stripe == BaseIdx(i) IN
    stripe \in DOMAIN copies[b] /\ i \in {copies[b][stripe][k] : k \in DOMAIN copies[b][stripe]}

\* An answered read: the entry asked for, "safe to read": it is on every
\* backup, and the consensus log has announced that the log is ordered and
\* stored up to it.
SafeRead(r) ==
    result[r] # {} =>
        /\ result[r] = {idx[r]}
        /\ idx[r] <= stable_gp
        /\ \A b \in Backups : OnBackup(b, idx[r])

\* ReadEntryHandler never answers before its entry is safe to read, apart from
\* entry 0: replicated_index_ and global_index_ start as 0, which cannot be
\* told from "entry 0 is replicated".
LaterReadIsSafe == \A r \in Readers : idx[r] > 0 => SafeRead(r)

\* The data file of the stripe was there at the start, and not complete.
PartlyFilled(b) ==
    b \in DOMAIN FilesOf(start) /\ Len(FilesOf(start)[b]) < StripeUnit

\* The entries es are the first ones of fs.
Begins(es, fs) == \A k \in DOMAIN es : k \in DOMAIN fs /\ es[k] = fs[k]

\* addToEntryCache and writeFromCacheToDisk: what the primary has in memory it
\* has in its data files too, also across the batch that completes a file and
\* closes it.  The exception is a stripe whose file was found partly filled at
\* the start: it is loaded, and batches for it are written to descriptor 0 or to
\* one that is open for reading.  Its file then only holds the first entries of
\* the stripe.
CacheIsOnDisk ==
    \A b \in DOMAIN entries_cache_set :
        /\ b \in DOMAIN files
        /\ IF PartlyFilled(b) THEN Begins(files[b], entries_cache_set[b])
                              ELSE files[b] = entries_cache_set[b]

\* The answer to AppendBatch: once the server is idle, everything it has in
\* memory is on every backup, at the same place.
BackupsFollow ==
    server.pc = "idle" =>
        \A b \in Backups, s \in DOMAIN entries_cache_set :
            s \in DOMAIN copies[b] /\ copies[b][s] = entries_cache_set[s]

\* A read of an announced entry is answered, whether it came before or after
\* the announcement: no reader sleeps through the notification it needs.
ReadReturns ==
    \A r \in Readers :
        reader[r] # "idle" /\ idx[r] <= stable_gp ~> reader[r] = "idle"

=============================================================================
