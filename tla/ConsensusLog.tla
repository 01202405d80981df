---------------------------- MODULE ConsensusLog ----------------------------
(***************************************************************************)
(* The consensus log (class ConsensusLog, pipelined) and the storage it    *)
(* feeds (NaiveBackend).  A fetch thread takes batches from the primary of *)
(* the durability log; a store thread stripes each batch over the shards,  *)
(* deletes it from all the replicas of the durability log, and then tells  *)
(* every shard how far the log is readable.  The threads share two buffers *)
(* that they use in turn, each with a mutex, a flag empty_ and two         *)
(* condition variables.                                                    *)
(*                                                                         *)
(* An entry is its log index.  DurLogFlat models how a fetch gets the next *)
(* entries out of the primary's ring, DurLogBackup what a delete does on a *)
(* backup, and ShardServer how a shard stores, replicates and reads.       *)
(***************************************************************************)
EXTENDS Integers, Sequences, FiniteSets

CONSTANTS
    Replicas,     \* the replicas of the durability log (dur_cli_)
    Primary,      \* the one that entries are fetched from (pri_dur_cli_)
    ShardNum,     \* shard_num_
    StripeUnit,   \* stripe_unit_size_: entries of one shard in a data file
    MaxBatch,     \* entries of a fetch at most (max_fetch_size_)
    MaxLen        \* bound: entries appended to the log

ASSUME ConsensusLogAssumption ==
    /\ IsFiniteSet(Replicas)
    /\ Primary \in Replicas
    /\ ShardNum \in Nat \ {0} /\ StripeUnit \in Nat \ {0}
    /\ MaxBatch \in Nat /\ MaxLen \in Nat

VARIABLES
    tail,         \* primary: entries complete in the ring, indexes 0..tail-1
    deleted,      \* replica: index after the last batch it was told to delete
    buffers,      \* buffers_: the holder of lock_, empty_ and entries_buf_
    fetcher,      \* the fetch thread: where it is, its round
    fetch_begin,  \* fetch: index of the next entry to fetch
    storer,       \* the store thread: where it is, its round, its locals
    calls,        \* RPCs and RDMA writes the store thread waits for
    max_ordered_idx,   \* end of the last batch that is on the shards
    entries_cache_set, \* shard: base index to entries
    global_index       \* shard: global_index_

clVars    == <<buffers, fetcher, fetch_begin, storer, calls, max_ordered_idx>>
shardVars == <<entries_cache_set, global_index>>
vars      == <<tail, deleted, clVars, shardVars>>

Shards == 0..(ShardNum - 1)
BigStripe == StripeUnit * ShardNum
BaseIdx(idx) == (idx \div BigStripe) * BigStripe
Bases == {BaseIdx(idx) : idx \in 0..MaxLen}

MinOf(a, b) == IF a <= b THEN a ELSE b
MaxOf(a, b) == IF a >= b THEN a ELSE b

Init ==
    /\ tail = 0
    /\ deleted = [r \in Replicas |-> 0]
    /\ buffers = [b \in {0, 1} |-> [lock |-> "none", empty |-> TRUE, entries |-> <<>>]]
    /\ fetcher = [pc |-> "lock", round |-> 0]
    /\ fetch_begin = 0
    /\ storer = [pc |-> "lock", round |-> 0, base |-> 0, last |-> 0]
    /\ calls = {}
    /\ max_ordered_idx = 0
    /\ entries_cache_set = [s \in Shards |-> [b \in Bases |-> <<>>]]
    /\ global_index = [s \in Shards |-> 0]

\* Clients append an entry to the durability log (DurLogFlat).
AppendEntry ==
    /\ tail < MaxLen
    /\ tail' = tail + 1
    /\ UNCHANGED <<deleted, clVars, shardVars>>

-----------------------------------------------------------------------------
(* The fetch thread *)

FetchBuf == fetcher.round % 2

\* The buffer can take a batch, and a faulty test that does not look.
AnyBuffer == TRUE
MayFill == buffers[FetchBuf].empty

\* Locks the buffer of this round; while it is full, waits on cv_empty_,
\* which releases the lock.
LockToFetch ==
    /\ fetcher.pc = "lock"
    /\ buffers[FetchBuf].lock = "none"
    /\ IF MayFill
       THEN /\ fetcher' = [fetcher EXCEPT !.pc = "fetch"]
            /\ buffers' = [buffers EXCEPT ![FetchBuf].lock = "fetch"]
       ELSE /\ fetcher' = [fetcher EXCEPT !.pc = "wait"]
            /\ UNCHANGED buffers
    /\ UNCHANGED <<tail, deleted, fetch_begin, storer, calls, max_ordered_idx, shardVars>>

\* A wait on a condition variable may also end without a notification.
SpuriousWake ==
    /\ fetcher.pc = "wait"
    /\ fetcher' = [fetcher EXCEPT !.pc = "lock"]
    /\ UNCHANGED <<tail, deleted, buffers, fetch_begin, storer, calls,
                   max_ordered_idx, shardVars>>

\* Where FetchUnorderedEntries begins to read.
FetchFrom == MaxOf(deleted[Primary], fetch_begin)

\* fetch_len = 0: returns and is called again.
FetchNothing ==
    /\ fetcher.pc = "fetch"
    /\ fetch_begin >= tail
    /\ fetcher' = [fetcher EXCEPT !.pc = "lock"]
    /\ buffers' = [buffers EXCEPT ![FetchBuf].lock = "none"]
    /\ UNCHANGED <<tail, deleted, fetch_begin, storer, calls, max_ordered_idx, shardVars>>

\* Puts the entries it finds into the buffer, wakes the store thread, and
\* goes on with the other buffer.
FetchEntries ==
    /\ fetcher.pc = "fetch"
    /\ fetch_begin < tail
    /\ \E n \in 1..MinOf(MaxBatch, tail - FetchFrom) :
          /\ buffers' = [buffers EXCEPT
                           ![FetchBuf].entries = @ \o [k \in 1..n |-> FetchFrom + k - 1],
                           ![FetchBuf].empty = FALSE,
                           ![FetchBuf].lock = "none"]
          /\ fetch_begin' = fetch_begin + n
    /\ fetcher' = [pc |-> "lock", round |-> fetcher.round + 1]
    /\ storer' = IF storer.pc = "wait" /\ storer.round % 2 = FetchBuf
                 THEN [storer EXCEPT !.pc = "lock"] ELSE storer
    /\ UNCHANGED <<tail, deleted, calls, max_ordered_idx, shardVars>>

-----------------------------------------------------------------------------
(* The store thread *)

StoreBuf == storer.round % 2
Batch    == buffers[StoreBuf].entries
StartIdx == Batch[1]
EndIdx   == Batch[Len(Batch)]

\* Locks the buffer of this round; while it is empty, waits on cv_full_.
LockToStore ==
    /\ storer.pc = "lock"
    /\ buffers[StoreBuf].lock = "none"
    /\ IF buffers[StoreBuf].empty
       THEN /\ storer' = [storer EXCEPT !.pc = "wait"]
            /\ UNCHANGED buffers
       ELSE /\ storer' = [storer EXCEPT !.pc = "append", !.base = BaseIdx(StartIdx)]
            /\ buffers' = [buffers EXCEPT ![StoreBuf].lock = "store"]
    /\ UNCHANGED <<tail, deleted, fetcher, fetch_begin, calls, max_ordered_idx, shardVars>>

\* wait_for gives up after a second and looks again.
WaitTimeout ==
    /\ storer.pc = "wait"
    /\ storer' = [storer EXCEPT !.pc = "lock"]
    /\ UNCHANGED <<tail, deleted, buffers, fetcher, fetch_begin, calls,
                   max_ordered_idx, shardVars>>

\* The shard that gets the entries from "first" on, and a faulty choice that
\* takes every batch to begin with an entry of shard 0.
ShardInTurn(first, from) == first - from
ShardFor(first, from) == first % ShardNum

\* AppendBatch, one stripe: the entries from StartIdx to EndIdx between base
\* and the next base go to the shards in turn, those of a shard in one call.
StripeCalls(base) ==
    LET from == MaxOf(base, StartIdx)
        to   == MinOf(base + BigStripe - 1, EndIdx)
        Part(first) == [k \in 1..((to - first) \div ShardNum + 1) |->
                          Batch[first - StartIdx + (k - 1) * ShardNum + 1]]
    IN  {[op |-> "append", to |-> ShardFor(first, from), arg |-> Part(first)] :
           first \in from..MinOf(from + ShardNum - 1, to)}

SendStripe ==
    /\ storer.pc = "append"
    /\ calls' = StripeCalls(storer.base)
    /\ storer' = [storer EXCEPT !.pc = "waitForAllShards"]
    /\ UNCHANGED <<tail, deleted, buffers, fetcher, fetch_begin, max_ordered_idx, shardVars>>

\* A faulty variant of MoreStripes: the last stripe is left out.
MoreStripesButLast == storer.base + BigStripe < BaseIdx(EndIdx)

MoreStripes == storer.base + BigStripe <= BaseIdx(EndIdx)

NextStripe ==
    /\ storer.pc = "waitForAllShards"
    /\ calls = {}
    /\ MoreStripes
    /\ storer' = [storer EXCEPT !.pc = "append", !.base = @ + BigStripe]
    /\ UNCHANGED <<tail, deleted, buffers, fetcher, fetch_begin, calls,
                   max_ordered_idx, shardVars>>

\* Every shard has answered, and a faulty variant that does not wait.
NoneAwaited == TRUE
allRPCCompleted == calls = {}

\* The batch is stored: ProcessFetchedEntries and DeleteOrderedEntriesAsync
\* for every replica.
DeleteOrderedEntries ==
    /\ storer.pc = "waitForAllShards"
    /\ allRPCCompleted
    /\ ~MoreStripes
    /\ max_ordered_idx' = EndIdx
    /\ calls' = calls \cup {[op |-> "delete", to |-> r, arg |-> EndIdx + 1] : r \in Replicas}
    /\ storer' = [storer EXCEPT !.pc = "allDeletionCompleted", !.last = EndIdx]
    /\ UNCHANGED <<tail, deleted, buffers, fetcher, fetch_begin, shardVars>>

UpdateCalls == {[op |-> "update", to |-> s, arg |-> storer.last] : s \in Shards}

\* The fetch thread after the notification on cv_empty_, and without one.
NotNotified == fetcher
Notified == IF fetcher.pc = "wait" /\ FetchBuf = StoreBuf
            THEN [fetcher EXCEPT !.pc = "lock"] ELSE fetcher

\* The buffer after the round, and a faulty one that is empty in name only.
Unclear(buf) == [buf EXCEPT !.empty = TRUE]
Cleared(buf) == [buf EXCEPT !.entries = <<>>, !.empty = TRUE]

\* All deletions are done: clears the buffer, notifies the fetch thread, which
\* gets the lock only when this round is over, and calls UpdateGlobalIdx.
UpdateGlobalIdx ==
    /\ storer.pc = "allDeletionCompleted"
    /\ calls = {}
    /\ buffers' = [buffers EXCEPT ![StoreBuf] = Cleared(@)]
    /\ fetcher' = Notified
    /\ calls' = UpdateCalls
    /\ storer' = [storer EXCEPT !.pc = "update"]
    /\ UNCHANGED <<tail, deleted, fetch_begin, max_ordered_idx, shardVars>>

\* Every shard has answered: releases the lock, the other buffer is next.
StoreReturn ==
    /\ storer.pc = "update"
    /\ calls = {}
    /\ buffers' = [buffers EXCEPT ![StoreBuf].lock = "none"]
    /\ storer' = [storer EXCEPT !.pc = "lock", !.round = @ + 1]
    /\ UNCHANGED <<tail, deleted, fetcher, fetch_begin, calls, max_ordered_idx, shardVars>>

-----------------------------------------------------------------------------
(* What the calls do *)

\* AppendBatchHandler of a shard: the entries go behind those of the stripe
\* that the first one belongs to.
HandleAppend(c) ==
    /\ c.op = "append"
    /\ entries_cache_set' = [entries_cache_set EXCEPT ![c.to][BaseIdx(c.arg[1])] = @ \o c.arg]
    /\ calls' = calls \ {c}
    /\ UNCHANGED <<tail, deleted, buffers, fetcher, fetch_begin, storer,
                   max_ordered_idx, global_index>>

\* The RDMA write to the primary, or the delete call of a backup.
HandleDelete(c) ==
    /\ c.op = "delete"
    /\ deleted' = [deleted EXCEPT ![c.to] = c.arg]
    /\ calls' = calls \ {c}
    /\ UNCHANGED <<tail, buffers, fetcher, fetch_begin, storer, max_ordered_idx, shardVars>>

\* UpdateGlobalIdxHandler of a shard.
HandleUpdate(c) ==
    /\ c.op = "update"
    /\ global_index' = [global_index EXCEPT ![c.to] = c.arg]
    /\ calls' = calls \ {c}
    /\ UNCHANGED <<tail, deleted, buffers, fetcher, fetch_begin, storer,
                   max_ordered_idx, entries_cache_set>>

-----------------------------------------------------------------------------
FetchStep == LockToFetch \/ FetchNothing \/ FetchEntries

StoreStep ==
    \/ LockToStore
    \/ WaitTimeout
    \/ SendStripe
    \/ NextStripe
    \/ DeleteOrderedEntries
    \/ UpdateGlobalIdx
    \/ StoreReturn

HandleCall == \E c \in calls : HandleAppend(c) \/ HandleDelete(c) \/ HandleUpdate(c)

Next == AppendEntry \/ FetchStep \/ SpuriousWake \/ StoreStep \/ HandleCall

Spec == Init /\ [][Next]_vars

\* Both threads run, and calls are answered.  Nobody has to append, and a
\* thread that waits without a timeout is only woken by a notification.
Fairness == WF_vars(FetchStep) /\ WF_vars(StoreStep) /\ WF_vars(HandleCall)

FairSpec == Spec /\ Fairness

-----------------------------------------------------------------------------
(* Properties *)

Calls ==
    [op : {"append"}, to : Shards, arg : Seq(Nat) \ {<<>>}]
        \cup [op : {"delete"}, to : Replicas, arg : Nat]
        \cup [op : {"update"}, to : Shards, arg : Nat]

\* Every variable of the pipeline and of the shards has its type; a buffer is
\* marked empty exactly when it holds no entries.
TypeOK ==
    /\ tail \in Nat
    /\ deleted \in [Replicas -> Nat]
    /\ buffers \in [{0, 1} -> [lock : {"none", "fetch", "store"}, empty : BOOLEAN,
                               entries : Seq(Nat)]]
    /\ \A b \in {0, 1} : buffers[b].empty <=> buffers[b].entries = <<>>
    /\ fetcher \in [pc : {"lock", "wait", "fetch"}, round : Nat]
    /\ fetch_begin \in Nat
    /\ storer \in [pc : {"lock", "wait", "append", "waitForAllShards",
                         "allDeletionCompleted", "update"},
                   round : Nat, base : Nat, last : Nat]
    /\ calls \subseteq Calls
    /\ max_ordered_idx \in Nat
    /\ entries_cache_set \in [Shards -> [Bases -> Seq(Nat)]]
    /\ global_index \in [Shards -> Nat]

\* ReadEntryHandler looks for entry idx on shard idx % shard_num_, in the
\* stripe of idx, at place (idx - base_idx) / shard_num_.
IsAt(s, b, k, idx) ==
    s = idx % ShardNum /\ b = BaseIdx(idx) /\ k = (idx - b) \div ShardNum + 1

\* AppendBatch puts every entry where a read looks for it, once, wherever
\* batches begin and end and however the answers of the shards interleave
\* ("here we assume the rpc only sends entries for the same stripe unit").
PlacedForRead ==
    \A s \in Shards, b \in Bases :
        \A k \in DOMAIN entries_cache_set[s][b] : IsAt(s, b, k, entries_cache_set[s][b][k])

Stored(idx) ==
    LET stripe == entries_cache_set[idx % ShardNum][BaseIdx(idx)]
        k      == (idx - BaseIdx(idx)) \div ShardNum + 1
    IN  k \in DOMAIN stripe /\ stripe[k] = idx

\* No replica of the durability log deletes an entry that is not on its shard.
DeletedIsStored ==
    \A r \in Replicas : \A idx \in 0..(deleted[r] - 1) : Stored(idx)

\* A shard that reads up to global_index_ finds a log without holes: all the
\* entries up to there are on their shards, and gone from the durability log.
GlobalIsStored ==
    \A s \in Shards : global_index[s] > 0 =>
        \A idx \in 0..global_index[s] :
            Stored(idx) /\ \A r \in Replicas : idx < deleted[r]

\* An entry of the durability log becomes readable on its shard: no thread
\* waits for a notification that never comes.
EntriesBecomeReadable ==
    \A idx \in 0..(MaxLen - 1) :
        tail > idx ~> Stored(idx) /\ \A s \in Shards : global_index[s] >= idx

\* The batch under way in the store thread, until the primary deletes it.
OldestRound ==
    IF \/ storer.pc = "update"
       \/ /\ storer.pc = "allDeletionCompleted"
          /\ \A c \in calls : c.to # Primary
    THEN storer.round + 1 ELSE storer.round

BatchIn(round) ==
    LET es == buffers[round % 2].entries IN [first |-> es[1], last |-> es[Len(es)]]

Queue == INSTANCE BatchQueue WITH
    Capacity <- 2,
    next_idx <- fetch_begin,
    ordered_idx <- deleted[Primary],
    batches <- [k \in 1..(fetcher.round - OldestRound) |-> BatchIn(OldestRound + k - 1)]

\* Two threads and two buffers behave as one queue of at most two batches,
\* filled and deleted in order, in which no batch stays forever.
ImplementsBatchQueue == Queue!Spec

=============================================================================
