------------------------------- MODULE KVStore ------------------------------
(***************************************************************************)
(* A key-value server on LazyLog (class KVTransport).  Its server threads  *)
(* append an entry for every insert and answer once it is durable; its     *)
(* playlog thread asks for the ordered tail, reads the entries up to it    *)
(* from the shards and applies them to kv_store_, which reads look at.     *)
(* Data are keys: an entry stands for the value its insert gave the key.   *)
(***************************************************************************)
EXTENDS LazyLog

VARIABLES
    kv_store,     \* key to the entry whose value it has, a partial function
    next_idx,     \* the index the playlog thread begins its next round with
    tail,         \* the ordered tail it was told
    i,            \* the index it reads next in this round
    delivered     \* history: the entries it has read

kvVars == <<kv_store, next_idx, tail, i, delivered>>

KVInit ==
    /\ Init
    /\ kv_store = <<>>
    /\ next_idx = 0 /\ tail = 0 /\ i = 0
    /\ delivered = <<>>

\* InsertHandler of a server thread, or another client of the log.
Insert(c) ==
    /\ \E key \in Data : AppendEntryAll(c, key) \/ AppendEntryQuorum(c, key)
                         \/ AppendEntry(c, key)
    /\ UNCHANGED kvVars

\* The first index of the next round, and a faulty variant that is late by one.
RoundFromLate == IF tail = next_idx THEN tail ELSE tail + 1
RoundFrom == tail

\* GetNumDurEntryHandler on the primary.
OrderedTail == ordered_idx_watermk

\* The round is over: GetTail, of which only the ordered tail is used.
GetTail ==
    /\ i >= tail
    /\ next_idx' = RoundFrom
    /\ i' = RoundFrom
    /\ tail' = OrderedTail
    /\ tail' > tail
    /\ UNCHANGED <<vars, kv_store, delivered>>

\* kv_store_[key] = value, and a faulty variant that keeps an older value.
Emplace(e) == [k \in DOMAIN kv_store \cup {e.data} |->
                 IF k \in DOMAIN kv_store THEN kv_store[k] ELSE e]
Assign(e) == [k \in DOMAIN kv_store \cup {e.data} |->
                IF k = e.data THEN e ELSE kv_store[k]]

\* ReadEntry at the shard of the index, which answers once it may, and the
\* insert of the entry's key.
PlayEntry ==
    LET e == plog[i + 1] IN
    /\ i < tail
    /\ Readable(i)
    /\ kv_store' = Assign(e)
    /\ delivered' = Append(delivered, e)
    /\ i' = i + 1
    /\ UNCHANGED <<vars, next_idx, tail>>

PlayStep == GetTail \/ PlayEntry

\* The steps of the log leave the server alone.
ClientSteps == (\E c \in Clients : ClientStep(c)) /\ UNCHANGED kvVars
ReplicaSteps == (\E r \in Replicas, c \in Clients : AppendOn(r, c)) /\ UNCHANGED kvVars
ClSteps == ClStep /\ UNCHANGED kvVars

Next == (\E c \in Clients : Insert(c)) \/ ClientSteps \/ ReplicaSteps \/ ClSteps
        \/ PlayStep

Spec == KVInit /\ [][Next]_<<vars, kvVars>>

\* Requests arrive and are handled, clients poll, the consensus log and the
\* playlog thread run; nobody has to insert.
Fairness ==
    /\ WF_<<vars, kvVars>>(ClientSteps)
    /\ WF_<<vars, kvVars>>(ReplicaSteps)
    /\ WF_<<vars, kvVars>>(ClSteps)
    /\ WF_<<vars, kvVars>>(PlayStep)

FairSpec == Spec /\ Fairness

-----------------------------------------------------------------------------
(* Properties *)

\* The primary has handled the append that client c has under way.
Placed(c) == \E k \in DOMAIN plog : plog[k] = Current(c)

Storage == UNION {stored[s] : s \in Shards}

\* An append that has returned survives the loss of all replicas but one: its
\* entry is on every replica of the durability log until a shard has stored
\* it, although the consensus log deletes entries while clients append.  The
\* first entry of each client is left out (see DurLogBackup).
AckedIsDurable ==
    \A c \in Clients : \A n \in 1..(seq_[c] - (IF call[c] = NoCall THEN 1 ELSE 2)) :
        \E k \in DOMAIN plog :
            /\ plog[k].client_id = c /\ plog[k].client_seq = n
            /\ \/ k - 1 \in Storage
               \/ k > ordered_idx_watermk /\ \A b \in Backups : plog[k] \in held[b]

\* The ordered tail, "index of the newest ordered entry + 1": whoever is told
\* it finds every index below it on its shard, although the primary learns
\* the tail before the shards learn what they may serve.
ToldTailIsStored == \A k \in 0..(tail - 1) : k \in stored[ShardOf(k)]

\* The value of each key is that of the last insert of it in the part of the
\* log that was played, whatever is appended and deleted meanwhile.
StoreIsReplay ==
    \A k \in DOMAIN kv_store :
        \E j \in 1..i : /\ plog[j] = kv_store[k]
                        /\ \A l \in (j + 1)..i : plog[l].data # k

\* CheckPendingReq keeps up: between two calls at most one token is left in
\* the queue of a replica, so that the queues never grow.
PendingStaysShort ==
    \A c \in Clients, r \in Replicas :
        Len(pending_reqs[c][r]) <= IF call[c].mode = "quorum" THEN 2 ELSE 1

\* Every entry that has an index, so every insert that has been answered, is
\* eventually played.
EntriesGetPlayed ==
    \A n \in 1..MaxLen : (Len(plog) >= n) ~> (Len(delivered) >= n)

\* The whole system is a shared log: appends take their places in one order
\* that agrees with the order of calls that do not overlap, and the playlog
\* thread is handed exactly that log.
AbstractLog == INSTANCE SharedLog WITH
    log <- plog,
    delivered <- delivered,
    calls <- [c \in Clients |->
                IF call[c] = NoCall THEN <<>>
                ELSE <<IF Placed(c) THEN "placed" ELSE "called",
                       Current(c)>>]
ImplementsSharedLog == AbstractLog!Spec

=============================================================================
