------------------------------- MODULE LazyLog ------------------------------
(***************************************************************************)
(* The whole of LazyLog in its default mode: clients that append to every  *)
(* replica of the durability log (class LazyLogClient), the primary, which *)
(* gives indexes, its backups, the consensus log, which moves entries to   *)
(* the shards in one loop (ConsensusLog::fetchAndStore), and the shards.   *)
(*                                                                         *)
(* Each component is reduced to what its own module shows it to do: an     *)
(* append or a delete call is one step on a replica (DurLogFlat,           *)
(* DurLogBackup), and a call of the backend is one step on each shard      *)
(* (ConsensusLog has the stripes, ShardServer the replication).  The steps *)
(* of different servers and clients come in any order.                     *)
(***************************************************************************)
EXTENDS Integers, Sequences, FiniteSets

CONSTANTS
    Clients,        \* LazyLogClient objects
    QuorumClients,  \* those that use AppendEntryQuorum or AppendEntry,
                    \* where the others use AppendEntryAll
    Backups,        \* the replicas other than the primary
    ShardNum,       \* the number of shards (shard.num)
    Data,           \* what clients append
    MaxLen          \* bound: no append starts once the log is so long

Primary  == "primary"

ASSUME LazyLogAssumption ==
    /\ QuorumClients \subseteq Clients
    /\ IsFiniteSet(Backups) /\ Primary \notin Backups
    /\ ShardNum \in Nat \ {0}
    /\ MaxLen \in Nat

VARIABLES
    seq_,           \* client: its next client_seq
    call,           \* client: its call under way, with the replicas to send to
    pending_reqs,   \* client: per replica, the tokens CheckPendingReq looks at
    flight,         \* append requests on their way to a replica
    complete,       \* the tokens of current calls that are complete
    plog,           \* primary: the entries by index
    ordered_idx_watermk,  \* primary: the first index not deleted
    held,           \* backups: the entries that are not deleted
    cl,             \* consensus log: step, batch and servers still to answer
    stored,         \* shards: the indexes that a shard has stored
    global_index    \* shards: the last index announced, at first 0

clientVars == <<seq_, call, pending_reqs>>
logVars    == <<plog, ordered_idx_watermk, held>>
shardVars  == <<stored, global_index>>
vars == <<clientVars, flight, complete, logVars, cl, shardVars>>

Replicas == Backups \cup {Primary}
Shards   == 0..(ShardNum - 1)
Entries  == [client_id : Clients, client_seq : 0..MaxLen, data : Data]

NoCall  == [mode |-> "none", data |-> "none", unsent |-> {}]
ClIdle  == [step |-> "fetch", lo |-> 0, hi |-> 0, todo |-> {}]
LogOf(s) == {plog[i] : i \in s}

Init ==
    /\ seq_ = [c \in Clients |-> 0]
    /\ call = [c \in Clients |-> NoCall]
    /\ pending_reqs = [c \in Clients |-> [r \in Replicas |-> <<>>]]
    /\ flight = {} /\ complete = {}
    /\ plog = <<>> /\ ordered_idx_watermk = 0
    /\ held = [b \in Backups |-> {}]
    /\ cl = ClIdle
    /\ stored = [s \in Shards |-> {}]
    /\ global_index = [s \in Shards |-> 0]

-----------------------------------------------------------------------------
(* LazyLogClient *)

\* constructLogEntry: the entry of the call a client has under way.
Current(c) == [client_id |-> c, client_seq |-> seq_[c] - 1, data |-> call[c].data]

\* A call of an append function, which sends to every replica in "to" and
\* keeps the others for later.
Start(c, mode, d, to) ==
    /\ call[c] = NoCall
    /\ Len(plog) < MaxLen
    /\ seq_' = [seq_ EXCEPT ![c] = @ + 1]
    /\ call' = [call EXCEPT ![c] = [mode |-> mode, data |-> d,
                                    unsent |-> Replicas \ to]]
    /\ flight' = flight \cup (to \X {c})
    /\ UNCHANGED <<complete, logVars, cl, shardVars>>

AppendEntryAll(c, d) ==
    /\ c \notin QuorumClients
    /\ Start(c, "all", d, Replicas)
    /\ UNCHANGED pending_reqs

AppendEntryQuorum(c, d) ==
    /\ c \in QuorumClients
    /\ Start(c, "quorum", d, Replicas)
    /\ pending_reqs' = [pending_reqs EXCEPT
                          ![c] = [r \in Replicas |-> Append(@[r], seq_[c])]]

\* AppendEntry sends to the replicas one after the other, in a random order,
\* and waits for each answer.
AppendEntry(c, d) ==
    /\ c \in QuorumClients
    /\ \E r \in Replicas : Start(c, "serial", d, {r})
    /\ UNCHANGED pending_reqs

Waits(c) == \E r \in Replicas : <<r, c>> \in flight

AppendToNext(c) ==
    /\ call[c].mode = "serial"
    /\ ~Waits(c)
    /\ \E r \in call[c].unsent :
          /\ flight' = flight \cup {<<r, c>>}
          /\ call' = [call EXCEPT ![c].unsent = @ \ {r}]
    /\ UNCHANGED <<seq_, pending_reqs, complete, logVars, cl, shardVars>>

\* Faulty variants of the tests below: one answer short, and only one.
quorumWithoutPrimary(c) ==
    Cardinality(complete \cap (Replicas \X {c})) + 1 >= Cardinality(Replicas)
anyCompleted(c) == \E r \in Replicas : <<r, c>> \in complete

\* The number of replicas, so that a quorum is all of them.
maj_threshold == Cardinality(Replicas)

quorumCompleted(c) ==
    /\ <<Primary, c>> \in complete
    /\ Cardinality(complete \cap (Replicas \X {c})) >= maj_threshold
allCompleted(c) == \A r \in Replicas : <<r, c>> \in complete

Return(c) ==
    /\ call' = [call EXCEPT ![c] = NoCall]
    /\ complete' = complete \ (Replicas \X {c})

AppendReturn(c) ==
    /\ call[c].mode \in {"all", "serial"} /\ allCompleted(c)
    /\ Return(c)
    /\ UNCHANGED <<seq_, pending_reqs, flight, logVars, cl, shardVars>>

\* Whether the token at the front of a queue was complete when CheckPendingReq
\* looked: one of an earlier call was, one of this call may have been.  The
\* faulty variant waits for the front to be of this call.
PoppedIfCurrent(c, r, seen) == r \in seen /\ Head(pending_reqs[c][r]) = seq_[c] - 1
Popped(c, r, seen) == r \in seen \/ Head(pending_reqs[c][r]) < seq_[c] - 1

\* A round of AppendEntryQuorum: CheckPendingReq on the queue of each replica,
\* then the test for the quorum.  Answers come in between.
PollQuorum(c) ==
    /\ call[c].mode = "quorum"
    /\ \E seen \in SUBSET {r \in Replicas : <<r, c>> \in complete} :
          pending_reqs' = [pending_reqs EXCEPT ![c] =
              [r \in Replicas |-> IF @[r] # <<>> /\ Popped(c, r, seen)
                                  THEN Tail(@[r]) ELSE @[r]]]
    /\ IF quorumCompleted(c) THEN Return(c) ELSE UNCHANGED <<call, complete>>
    /\ UNCHANGED <<seq_, flight, logVars, cl, shardVars>>

-----------------------------------------------------------------------------
(* The durability log: AppendEntryHandler on a replica *)

AppendOn(r, c) ==
    /\ <<r, c>> \in flight
    /\ flight' = flight \ {<<r, c>>}
    /\ complete' = complete \cup {<<r, c>>}
    /\ IF r = Primary
       THEN plog' = Append(plog, Current(c)) /\ UNCHANGED held
       ELSE held' = [held EXCEPT ![r] = @ \cup {Current(c)}] /\ UNCHANGED plog
    /\ UNCHANGED <<clientVars, ordered_idx_watermk, cl, shardVars>>

-----------------------------------------------------------------------------
(* The consensus log: fetchAndStore *)

\* A call to every server in "servers"; the loop goes on once all answered.
Answered(server, next, servers) ==
    cl' = IF cl.todo = {server} THEN [cl EXCEPT !.step = next, !.todo = servers]
                                ELSE [cl EXCEPT !.todo = @ \ {server}]

\* The entries of a batch that go to a shard, and a faulty variant whose loop
\* ends one too early.
ShardOf(i) == i % ShardNum
BatchButLast(s) == {i \in cl.lo..(cl.hi - 2) : ShardOf(i) = s}
BatchOn(s) == {i \in cl.lo..(cl.hi - 1) : ShardOf(i) = s}

\* FetchUnorderedEntries: the entries from the watermark on, up to the limit
\* of a fetch or to one that is being written.
Fetch ==
    /\ cl.step = "fetch"
    /\ \E hi \in (ordered_idx_watermk + 1)..Len(plog) :
          cl' = [step |-> "append", lo |-> ordered_idx_watermk, hi |-> hi,
                 todo |-> {ShardOf(i) : i \in ordered_idx_watermk..(hi - 1)}]
    /\ UNCHANGED <<clientVars, flight, complete, logVars, shardVars>>

AppendBatchOn(s) ==
    /\ cl.step = "append" /\ s \in cl.todo
    /\ stored' = [stored EXCEPT ![s] = @ \cup BatchOn(s)]
    /\ Answered(s, "delete", Replicas)
    /\ UNCHANGED <<clientVars, flight, complete, logVars, global_index>>

\* delEntriesBackup counts an entry as ordered when its client's largest
\* client_seq of the batch (0 for a client that has none) reaches it, and
\* frees some of those it holds; the watermark of the primary covers the batch.
OrderedBy(e, batch) ==
    \/ e.client_seq = 0
    \/ \E o \in batch : o.client_id = e.client_id /\ o.client_seq >= e.client_seq

DeleteOn(r) ==
    /\ cl.step = "delete" /\ r \in cl.todo
    /\ IF r = Primary
       THEN ordered_idx_watermk' = cl.hi /\ UNCHANGED held
       ELSE /\ \E D \in SUBSET {e \in held[r] : OrderedBy(e, LogOf((cl.lo + 1)..cl.hi))} :
                  held' = [held EXCEPT ![r] = @ \ D]
            /\ UNCHANGED ordered_idx_watermk
    /\ Answered(r, "announce", Shards)
    /\ UNCHANGED <<clientVars, flight, complete, plog, shardVars>>

UpdateGlobalIdxOn(s) ==
    /\ cl.step = "announce" /\ s \in cl.todo
    /\ global_index' = [global_index EXCEPT ![s] = cl.hi - 1]
    /\ IF cl.todo = {s} THEN cl' = ClIdle ELSE cl' = [cl EXCEPT !.todo = @ \ {s}]
    /\ UNCHANGED <<clientVars, flight, complete, logVars, stored>>

\* A shard answers the read of an index, with the entry it has there.
Readable(i) == i \in stored[ShardOf(i)] /\ i <= global_index[ShardOf(i)]

-----------------------------------------------------------------------------
ClientStep(c) ==
    \/ AppendToNext(c)
    \/ AppendReturn(c)
    \/ PollQuorum(c)

ClStep ==
    \/ Fetch
    \/ \E s \in Shards : AppendBatchOn(s) \/ UpdateGlobalIdxOn(s)
    \/ \E r \in Replicas : DeleteOn(r)

=============================================================================
