----------------------- MODULE ShardServerUnoptimized -----------------------
(***************************************************************************)
(* The shard server without the entry cache (ShardServerUnoptimized, the   *)
(* program shardsvr_wo_opt): it keeps in memory where each entry starts in *)
(* its data file, works out the length of an entry from the start of the   *)
(* next one, and answers every read from the file.                         *)
(*                                                                         *)
(* An entry is a sequence of words <<index, position>>, as Serializer      *)
(* writes it; a batch and a data file are entries one after the other.     *)
(* Critical sections of cache_rw_lock_ are single steps, and a             *)
(* notification belongs to the section before it.                          *)
(*                                                                         *)
(* There is one backup: the tokens of two would be moved by the vector     *)
(* that holds them while the RPC layer has their addresses.  The data      *)
(* files found at the start hold whole stripes: a stripe that is loaded    *)
(* to be appended to has no descriptor.                                    *)
(***************************************************************************)
EXTENDS Integers, Sequences, FiniteSets, SequencesExt

CONSTANTS
    Readers,      \* the read threads (read_server_func)
    ShardNum,     \* shard_num_
    ShardId,      \* shard_id_
    StripeUnit,   \* stripe_unit_size_: entries in a data file
    Sizes,        \* lengths of an entry, in words
    Preloads,     \* lengths the log in the data files may have at the start
    MaxLen        \* bound: length of the log

BigStripe == StripeUnit * ShardNum

ASSUME UnoptimizedAssumption ==
    /\ IsFiniteSet(Readers) /\ ShardNum \in Nat \ {0} /\ StripeUnit \in Nat \ {0}
    /\ ShardId \in 0..(ShardNum - 1) /\ MaxLen \in Nat
    /\ Sizes \subseteq Nat \ {0} /\ Sizes # {}
    /\ \A len \in Preloads : len \in 0..MaxLen /\ len % BigStripe = 0

VARIABLES
    server,             \* the server thread: where it is, the batch, its base
    token,              \* the backup has not answered yet
    next,               \* consensus log: next index for this shard
    sizes,              \* history: index to length of the entries sent
    store,              \* the primary: stripes in memory, open files, files
    copy,               \* the same of the backup
    replicated_index,   \* replicated_index_
    reader,             \* where each read thread is
    idx,                \* the index it was asked for
    result              \* what it answered last: words

readVars  == <<reader, idx, result>>
\* What the read threads look at and do not change.
shardVars == <<server, token, next, sizes, copy, replicated_index>>
vars == <<shardVars, store, readVars>>

BaseIdx(i) == (i \div BigStripe) * BigStripe
OwnIdxs == {i \in 0..(MaxLen - 1) : i % ShardNum = ShardId}
LocalCacheIdx(i) == (i - BaseIdx(i)) \div ShardNum
MaxOf(a, b) == IF a >= b THEN a ELSE b

\* Serializer and MultiSerializer.
Image(i, n) == [p \in 1..n |-> <<i, p>>]
Images(is, size) == FlattenSeq([k \in DOMAIN is |-> Image(is[k], size[is[k]])])
NumOf(words) == Cardinality({p \in DOMAIN words : words[p][2] = 1})

\* A faulty variant: offsets count from the start of the batch.
BuildMapOfBatch(words, from) ==
    [i \in {w[1] : w \in Range(words)} |-> SelectInSeq(words, LAMBDA w : w = <<i, 1>>) - 1]

\* Where the entries of "words" start when they are put at offset "from".
ProcessAndBuildMap(words, from) ==
    [i \in {w[1] : w \in Range(words)} |-> from + SelectInSeq(words, LAMBDA w : w = <<i, 1>>) - 1]

Put(map, k, v) == [b \in DOMAIN map \cup {k} |-> IF b = k THEN v ELSE map[b]]
NoStripe == [offset |-> <<>>, cache_size |-> 0, num_entries |-> 0]

\* loadFromDiskToCache: what a file says of its stripe.
Loaded(words) ==
    [offset |-> ProcessAndBuildMap(words, 0), cache_size |-> Len(words),
     num_entries |-> NumOf(words)]

\* The stripe s after a batch: what a file gets, memory knows.
Extended(s, words) ==
    LET added == ProcessAndBuildMap(words, s.cache_size) IN
    [offset |-> [i \in DOMAIN s.offset \cup DOMAIN added |->
                    IF i \in DOMAIN added THEN added[i] ELSE s.offset[i]],
     cache_size |-> s.cache_size + Len(words),
     num_entries |-> s.num_entries + NumOf(words)]

\* The data file is complete, and is closed by writeFromCacheToDisk.
FullAt(n) == n >= StripeUnit

\* processEntriesAndBuildMap and the close of a full file, in store st.
ProcessEntries(st, base, words) ==
    LET known  == base \in DOMAIN st.stripes
        onDisk == base \in DOMAIN st.files
        before == IF known THEN st.stripes[base]
                  ELSE IF onDisk THEN Loaded(st.files[base]) ELSE NoStripe
        after  == Extended(before, words)
        open   == IF known \/ onDisk THEN st.open ELSE st.open \cup {base}
        file   == IF onDisk THEN st.files[base] ELSE <<>>
    IN [stripes |-> Put(st.stripes, base, after),
        open    |-> IF FullAt(after.num_entries) THEN open \ {base} ELSE open,
        files   |-> IF base \in open THEN Put(st.files, base, file \o words) ELSE st.files]

-----------------------------------------------------------------------------
\* The entries of this shard below len.
OwnBelow(len) == {i \in OwnIdxs : i < len}
OwnFrom(i) == CHOOSE j \in i..(i + ShardNum - 1) : j % ShardNum = ShardId
StoreOf(len, size) ==
    [stripes |-> <<>>, open |-> {},
     files |-> [b \in {BaseIdx(i) : i \in OwnBelow(len)} |->
                  Images([k \in 1..StripeUnit |-> b + ShardId + (k - 1) * ShardNum], size)]]

Init ==
    \E len \in Preloads : \E size \in [OwnBelow(len) -> Sizes] :
        /\ server = [pc |-> "idle", batch |-> <<>>, base |-> 0]
        /\ token = FALSE
        /\ next = OwnFrom(len)
        /\ sizes = size
        /\ store = StoreOf(len, size) /\ copy = StoreOf(len, size)
        /\ replicated_index = MaxOf(len - 1, 0)
        /\ reader = [r \in Readers |-> "idle"]
        /\ idx = [r \in Readers |-> ShardId]
        /\ result = [r \in Readers |-> <<>>]

\* A faulty variant of Notified: nobody is woken.
NotNotified == reader

\* cache_write_cv_.notify_all().
Notified == [r \in Readers |-> IF reader[r] = "wait" THEN "lock" ELSE reader[r]]

-----------------------------------------------------------------------------
(* AppendBatchHandler, and ReplicateBatchHandler of the backup *)

\* A batch, the next entries of this shard in one stripe, is sent on.
AppendBatch ==
    /\ server.pc = "idle"
    /\ \E n \in 1..StripeUnit :
          LET is == [k \in 1..n |-> next + (k - 1) * ShardNum] IN
          /\ is[n] < MaxLen /\ BaseIdx(is[n]) = BaseIdx(next)
          /\ \E size \in [Range(is) -> Sizes] :
                /\ server' = [pc |-> "process", base |-> BaseIdx(next), batch |-> Images(is, size)]
                /\ sizes' = [i \in DOMAIN sizes \cup Range(is) |->
                                IF i \in Range(is) THEN size[i] ELSE sizes[i]]
          /\ next' = is[n] + ShardNum
    /\ token' = TRUE
    /\ UNCHANGED <<store, copy, replicated_index, readVars>>

ReplicateBatch ==
    /\ token
    /\ copy' = ProcessEntries(copy, server.base, server.batch)
    /\ token' = FALSE
    /\ UNCHANGED <<server, next, sizes, store, replicated_index, readVars>>

ProcessEntriesAndBuildMap ==
    /\ server.pc = "process"
    /\ store' = ProcessEntries(store, server.base, server.batch)
    /\ server' = [server EXCEPT !.pc = "waitForBackup"]
    /\ UNCHANGED <<token, next, sizes, copy, replicated_index, readVars>>

\* A faulty variant of allRPCCompleted: the backup is not waited for.
NoneAwaited == TRUE

allRPCCompleted == ~token

\* The last entry of the stripe in memory is replicated.
SetReplicated ==
    /\ server.pc = "waitForBackup"
    /\ allRPCCompleted
    /\ replicated_index' = CHOOSE i \in DOMAIN store.stripes[server.base].offset :
                              \A j \in DOMAIN store.stripes[server.base].offset : j <= i
    /\ reader' = Notified
    /\ server' = [server EXCEPT !.pc = "idle"]
    /\ UNCHANGED <<token, next, sizes, store, copy, idx, result>>

-----------------------------------------------------------------------------
(* ReadEntryHandler, run by read thread r *)

Goto(r, from, to) == reader[r] = from /\ reader' = [reader EXCEPT ![r] = to]

ReadEntry(r) ==
    /\ Goto(r, "idle", "lock")
    /\ \E i \in OwnIdxs : idx' = [idx EXCEPT ![r] = i]
    /\ result' = [result EXCEPT ![r] = <<>>]
    /\ UNCHANGED <<shardVars, store>>

MayRead(i) ==
    /\ LocalCacheIdx(i) < store.stripes[BaseIdx(i)].num_entries
    /\ i <= replicated_index

\* A faulty variant of LengthOf: the next entry is sought at the next index.
LengthToNextIdx(s, i) ==
    IF i + 1 \in DOMAIN s.offset THEN s.offset[i + 1] - s.offset[i]
    ELSE s.cache_size - s.offset[i]

\* The entry ends where the next of the shard starts, or with the file.
LengthOf(s, i) ==
    IF i + ShardNum \in DOMAIN s.offset THEN s.offset[i + ShardNum] - s.offset[i]
    ELSE s.cache_size - s.offset[i]

\* What the file of store st holds where stripe s has entry i.
readEntryFromDisk(st, s, i) ==
    SubSeq(st.files[BaseIdx(i)], s.offset[i] + 1, s.offset[i] + LengthOf(s, i))

\* The loop under the shared lock: answers from the file, waits, or goes to
\* load the stripe.
CheckCache(r) ==
    LET base == BaseIdx(idx[r]) IN
    /\ \/ /\ base \notin DOMAIN store.stripes
          /\ Goto(r, "lock", "load")
          /\ UNCHANGED result
       \/ /\ base \in DOMAIN store.stripes
          /\ ~MayRead(idx[r])
          /\ Goto(r, "lock", "wait")
          /\ UNCHANGED result
       \/ /\ base \in DOMAIN store.stripes
          /\ MayRead(idx[r])
          /\ Goto(r, "lock", "idle")
          /\ result' = [result EXCEPT ![r] =
                            readEntryFromDisk(store, store.stripes[base], idx[r])]
    /\ UNCHANGED <<shardVars, store, idx>>

\* Under the exclusive lock: looks again, and loads a stripe that is only in
\* its data file.
LoadFromDiskToCache(r) ==
    LET base == BaseIdx(idx[r]) IN
    /\ reader[r] = "load"
    /\ IF base \in DOMAIN store.files \ DOMAIN store.stripes
       THEN /\ store' = [store EXCEPT !.stripes = Put(@, base, Loaded(store.files[base]))]
            /\ reader' = [Notified EXCEPT ![r] = "relock"]
       ELSE /\ reader' = [reader EXCEPT ![r] = "relock"]
            /\ UNCHANGED store
    /\ UNCHANGED <<shardVars, idx, result>>

\* Under the shared lock again: still no stripe, so it waits.
Relock(r) ==
    /\ IF BaseIdx(idx[r]) \in DOMAIN store.stripes
       THEN Goto(r, "relock", "lock") ELSE Goto(r, "relock", "wait")
    /\ UNCHANGED <<shardVars, store, idx, result>>

\* A wait on a condition variable may also end without a notification.
SpuriousWake(r) ==
    /\ Goto(r, "wait", "lock")
    /\ UNCHANGED <<shardVars, store, idx, result>>

-----------------------------------------------------------------------------
ReadStep(r) == CheckCache(r) \/ LoadFromDiskToCache(r) \/ Relock(r)

Next ==
    \/ AppendBatch \/ ReplicateBatch \/ ProcessEntriesAndBuildMap \/ SetReplicated
    \/ \E r \in Readers : ReadEntry(r) \/ ReadStep(r) \/ SpuriousWake(r)

Spec == Init /\ [][Next]_vars

\* Started calls are finished, and every read thread runs when it can.  The
\* consensus log need not send anything, and only a notification is sure to
\* end a wait.
FairSpec ==
    /\ Spec
    /\ WF_vars(ReplicateBatch) /\ WF_vars(ProcessEntriesAndBuildMap) /\ WF_vars(SetReplicated)
    /\ \A r \in Readers : WF_vars(ReadStep(r))

-----------------------------------------------------------------------------
(* Properties *)

\* A read answers with the entry it was asked for, whole, and nothing of its
\* neighbours, wherever the batches that brought them ended.
ReadIsExact ==
    \A r \in Readers : result[r] # <<>> => result[r] = Image(idx[r], sizes[idx[r]])

\* Except for entry 0, which replicated_index_ cannot tell from none, an entry
\* that has been read is on the backup, at the place where the backup, as the
\* primary of tomorrow, would look for it.
LaterReadIsReplicated ==
    \A r \in Readers : result[r] # <<>> /\ idx[r] > 0 =>
        LET s == Loaded(copy.files[BaseIdx(idx[r])]) IN
        /\ BaseIdx(idx[r]) \in DOMAIN copy.files
        /\ idx[r] \in DOMAIN s.offset
        /\ readEntryFromDisk(copy, s, idx[r]) = result[r]

\* What the servers know of a stripe is what they would find in its data file
\* after a restart, however the file grew.
MapIsOfFile ==
    \A st \in {store, copy} : \A b \in DOMAIN st.stripes :
        b \in DOMAIN st.files /\ st.stripes[b] = Loaded(st.files[b])

\* A read of a replicated entry is answered, whether it came before or after
\* the batch: no reader sleeps through the notification it needs.
ReplicatedIsRead ==
    \A r \in Readers :
        reader[r] # "idle" /\ idx[r] <= replicated_index /\ idx[r] \in DOMAIN sizes
            ~> reader[r] = "idle"

=============================================================================
