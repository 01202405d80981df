---------------------------- MODULE DurLogBackup ----------------------------
(***************************************************************************)
(* A backup replica of the durability log: AppendEntry with the map from   *)
(* request ids to places, and delEntriesBackup, which deletes the entries  *)
(* of an ordered batch although they lie here in another order than on the *)
(* primary.  Around it, what drives it: clients that send each entry to    *)
(* both replicas and wait for both answers (AppendEntryAll), the order the *)
(* primary gives, and the consensus log, which for each batch sends the    *)
(* largest client_seq of every client in it (ProcessFetchedEntries) and    *)
(* waits for the answer before it sends the next (ConsensusLog::store).    *)
(*                                                                         *)
(* Every entry takes one unit of the ring, so that sequence numbers, log   *)
(* indexes and places in blog coincide; DurLogFlat models the words of the *)
(* ring.  A client has one request under way, handled by a thread of its   *)
(* own on each replica.                                                    *)
(***************************************************************************)
EXTENDS Integers, Sequences, FiniteSets, Functions

CONSTANTS
    Clients,      \* client ids (never 0, which ProcessFetchedEntries erases)
    MaxReqs,      \* bound: requests per client
    RingRoom      \* entries waitForPlace lets into the ring of the backup

ASSUME BackupAssumption ==
    /\ IsFiniteSet(Clients)
    /\ MaxReqs \in Nat
    /\ RingRoom \in Nat \ {0}

VARIABLES
    seq_,         \* client: the client_seq of its next request
    plog,         \* primary: the request ids in the order of their indexes
    ordered,      \* consensus log: how many of them are in a batch so far
    thread,       \* backup: where the thread of each client's request is
    place,        \* backup: the local "seq" of that thread
    blog,         \* backup: the entries by sequence number, with their flag
    ordered_watermk,   \* backup: first sequence number not deleted
    lk,           \* backup: the holders of lk_
    reqid_to_seq_map,  \* backup: request id to sequence number (partial)
    pending_entries,   \* backup: entries moved out of the ring, not ordered
    gc            \* the delete call: its step, its argument and its locals

clientVars == <<seq_, plog>>
appendVars == <<thread, place, blog>>
vars == <<clientVars, ordered, appendVars, ordered_watermk, lk,
          reqid_to_seq_map, pending_entries, gc>>

ReqIds == Clients \X (0..(MaxReqs - 1))

\* The request a client has under way is the one before its next.
Current(c) == <<c, seq_[c] - 1>>
OnPrimary(rid) == rid \in Range(plog)
OrderedIds == {plog[i] : i \in 1..ordered}

\* What operator[] of a C++ map reads: 0 for a key that is not there.
At(map, key) == IF key \in DOMAIN map THEN map[key] ELSE 0
Put(map, key, value) ==
    [k \in DOMAIN map \cup {key} |-> IF k = key THEN value ELSE map[k]]
Without(map, key) == [k \in DOMAIN map \ {key} |-> map[k]]
MaxOrZero(S) == IF S = {} THEN 0 ELSE CHOOSE m \in S : \A n \in S : n <= m

NoCall == [step |-> "idle", ids |-> {}, maxOf |-> <<>>, max_seq |-> 0, s |-> 0]

Init ==
    /\ seq_ = [c \in Clients |-> 0]
    /\ plog = <<>>
    /\ ordered = 0
    /\ thread = [c \in Clients |-> "idle"]
    /\ place = [c \in Clients |-> 0]
    /\ blog = <<>>
    /\ ordered_watermk = 0
    /\ lk = {}
    /\ reqid_to_seq_map = <<>>
    /\ pending_entries = {}
    /\ gc = NoCall

-----------------------------------------------------------------------------
(* Clients and the primary *)

\* AppendEntryAll: a client sends its next entry to both replicas once both
\* have answered the one before.
AppendEntryAll(c) ==
    /\ seq_[c] < MaxReqs
    /\ thread[c] = "idle"
    /\ seq_[c] > 0 => OnPrimary(Current(c))
    /\ seq_' = [seq_ EXCEPT ![c] = @ + 1]
    /\ thread' = [thread EXCEPT ![c] = "sent"]
    /\ UNCHANGED <<plog, ordered, place, blog, ordered_watermk, lk,
                   reqid_to_seq_map, pending_entries, gc>>

\* The primary appends the entry; DurLogFlat has the steps.
PrimaryAppend(c) ==
    /\ seq_[c] > 0
    /\ ~OnPrimary(Current(c))
    /\ plog' = Append(plog, Current(c))
    /\ UNCHANGED <<seq_, ordered, appendVars, ordered_watermk, lk,
                   reqid_to_seq_map, pending_entries, gc>>

-----------------------------------------------------------------------------
(* AppendEntry on the backup *)

\* The request arrives, waitForPlace lets it through, and the critical
\* section of idx_lk_ gives it a place, with its flag cleared.  The test and the
\* claim are one step here: DurLogFlat has threads that pass the test together.
Claim(c) ==
    /\ thread[c] = "sent"
    /\ Len(blog) - ordered_watermk < RingRoom
    /\ thread' = [thread EXCEPT ![c] = "claimed"]
    /\ place' = [place EXCEPT ![c] = Len(blog)]
    /\ blog' = Append(blog, [rid |-> Current(c), flag |-> 0])
    /\ UNCHANGED <<clientVars, ordered, ordered_watermk, lk, reqid_to_seq_map,
                   pending_entries, gc>>

\* Serializer and SetFlag(1); no lock is held.
SetFlag(c) ==
    /\ thread[c] = "claimed"
    /\ thread' = [thread EXCEPT ![c] = "flagged"]
    /\ blog' = [blog EXCEPT ![place[c] + 1].flag = 1]
    /\ UNCHANGED <<clientVars, ordered, place, ordered_watermk, lk,
                   reqid_to_seq_map, pending_entries, gc>>

\* reqid_to_seq_map_[reqid] = seq under lk_; the append answers.
MapReqId(c) ==
    /\ thread[c] = "flagged"
    /\ lk = {}
    /\ thread' = [thread EXCEPT ![c] = "idle"]
    /\ reqid_to_seq_map' = Put(reqid_to_seq_map, Current(c), place[c])
    /\ UNCHANGED <<clientVars, ordered, place, blog, ordered_watermk, lk,
                   pending_entries, gc>>

-----------------------------------------------------------------------------
(* delEntriesBackup, called by the consensus log *)

\* ProcessFetchedEntries: the largest client_seq of each client of a batch.
MaxSeqIds(batch) ==
    {rid \in batch : \A r \in batch : r[1] = rid[1] => r[2] <= rid[2]}

\* The consensus log has stored the next batch, some entries that follow on
\* the primary, and calls the backup.
DeleteOrderedEntries ==
    /\ gc.step = "idle"
    /\ \E n \in (ordered + 1)..Len(plog) :
          /\ ordered' = n
          /\ gc' = [NoCall EXCEPT
                      !.step = "lookUp",
                      !.ids = MaxSeqIds({plog[i] : i \in (ordered + 1)..n})]
    /\ UNCHANGED <<clientVars, appendVars, ordered_watermk, lk,
                   reqid_to_seq_map, pending_entries>>

\* Under lk_: the largest place of the ids.  An id that is not mapped counts
\* as place 0, and operator[] maps it there.
LookUp ==
    /\ gc.step = "lookUp"
    /\ lk = {}
    /\ gc' = [gc EXCEPT
                !.step = "purge",
                !.maxOf = [c \in {rid[1] : rid \in gc.ids} |->
                             CHOOSE q \in 0..MaxReqs : <<c, q>> \in gc.ids],
                !.max_seq = MaxOrZero({At(reqid_to_seq_map, rid) : rid \in gc.ids})]
    /\ reqid_to_seq_map' = [rid \in DOMAIN reqid_to_seq_map \cup gc.ids |->
                              At(reqid_to_seq_map, rid)]
    /\ UNCHANGED <<clientVars, ordered, appendVars, ordered_watermk, lk,
                   pending_entries>>

\* The pending entries the batch covers go.
PurgePending ==
    /\ gc.step = "purge"
    /\ pending_entries' = {rid \in pending_entries : rid[2] > At(gc.maxOf, rid[1])}
    /\ gc' = [gc EXCEPT !.step = "lock"]
    /\ UNCHANGED <<clientVars, ordered, appendVars, ordered_watermk, lk,
                   reqid_to_seq_map>>

LockRing ==
    /\ gc.step = "lock"
    /\ lk = {}
    /\ lk' = {"gc"}
    /\ gc' = [gc EXCEPT !.step = "loop", !.s = ordered_watermk]
    /\ UNCHANGED <<clientVars, ordered, appendVars, ordered_watermk,
                   reqid_to_seq_map, pending_entries>>

\* The client's part of the batch does not reach the entry, and a faulty
\* variant that is off by one.
NotCoveredOffByOne(rid) == rid[2] > At(gc.maxOf, rid[1]) + 1
NotCovered(rid) == rid[2] > At(gc.maxOf, rid[1])

\* GetFlagFromBuf of the entry at s, and a faulty variant that does not look.
Unchecked(s)  == TRUE
IsFlagged(s) == blog[s + 1].flag = 1

\* One round of the loop: waits, lk_ held, until the entry at s is flagged;
\* then drops it, or keeps it as pending when its client's part of the batch
\* does not reach it.
ScanEntry ==
    /\ gc.step = "loop"
    /\ gc.s <= gc.max_seq
    /\ gc.s < Len(blog)
    /\ IsFlagged(gc.s)
    /\ LET rid == blog[gc.s + 1].rid IN
          /\ pending_entries' = IF NotCovered(rid) THEN pending_entries \cup {rid}
                                                   ELSE pending_entries
          /\ reqid_to_seq_map' = Without(reqid_to_seq_map, rid)
    /\ gc' = [gc EXCEPT !.s = @ + 1]
    /\ UNCHANGED <<clientVars, ordered, appendVars, ordered_watermk, lk>>

\* The end of the scope of the lock_guard, and a faulty variant that keeps lk_.
Kept     == lk
Released == {}

\* The loop is past max_seq: lk_ is released.
UnlockRing ==
    /\ gc.step = "loop"
    /\ gc.s > gc.max_seq
    /\ lk' = Released
    /\ gc' = [gc EXCEPT !.step = "advance"]
    /\ UNCHANGED <<clientVars, ordered, appendVars, ordered_watermk,
                   reqid_to_seq_map, pending_entries>>

\* The first place not freed, and faulty variants: one too far, or none freed.
FreedOneMore == gc.s + 1
FreedNone    == ordered_watermk
FreedTo      == gc.s

\* The space is freed, and the call answers.
AdvanceWatermark ==
    /\ gc.step = "advance"
    /\ ordered_watermk' = FreedTo
    /\ gc' = NoCall
    /\ UNCHANGED <<clientVars, ordered, appendVars, lk, reqid_to_seq_map,
                   pending_entries>>

-----------------------------------------------------------------------------
AppendStep(c) == PrimaryAppend(c) \/ Claim(c) \/ SetFlag(c) \/ MapReqId(c)

CallStep == LookUp \/ PurgePending \/ LockRing \/ ScanEntry \/ UnlockRing
            \/ AdvanceWatermark

Next ==
    \/ \E c \in Clients : AppendEntryAll(c) \/ AppendStep(c)
    \/ DeleteOrderedEntries
    \/ CallStep

Spec == Init /\ [][Next]_vars

\* RPCs arrive and every thread runs; a client may stop appending.  Nothing
\* more is asked of lk_: the calls that compete for it are finitely many.
Fairness ==
    /\ \A c \in Clients : /\ WF_vars(PrimaryAppend(c))
                          /\ WF_vars(Claim(c)) /\ WF_vars(SetFlag(c))
                          /\ WF_vars(MapReqId(c))
    /\ WF_vars(DeleteOrderedEntries)
    /\ WF_vars(CallStep)

FairSpec == Spec /\ Fairness

-----------------------------------------------------------------------------
(* Properties *)

\* The variables of the clients, of the backup and of the delete call have
\* their types.
TypeOK ==
    /\ seq_ \in [Clients -> 0..MaxReqs]
    /\ plog \in Seq(ReqIds)
    /\ ordered \in 0..Len(plog)
    /\ thread \in [Clients -> {"idle", "sent", "claimed", "flagged"}]
    /\ place \in [Clients -> Nat]
    /\ blog \in Seq([rid : ReqIds, flag : {0, 1}])
    /\ ordered_watermk \in 0..Len(blog)
    /\ lk \in SUBSET {"gc"}
    /\ DOMAIN reqid_to_seq_map \subseteq ReqIds
    /\ pending_entries \subseteq ReqIds
    /\ gc.step \in {"idle", "lookUp", "purge", "lock", "loop", "advance"}
    /\ gc.ids \subseteq ReqIds
    /\ gc.max_seq \in Nat /\ gc.s \in Nat

\* The entries the backup still holds: in the ring, or set aside.
InRing == {blog[i].rid : i \in (ordered_watermk + 1)..Len(blog)}
Held   == InRing \cup pending_entries

\* The entries that reached the backup and that no batch contains.
Unordered == {blog[i].rid : i \in 1..Len(blog)} \ OrderedIds

\* delEntriesBackup deletes what the batch ordered and keeps the rest: an
\* entry that reached the backup and is not ordered is still held there,
\* whatever lies before and behind it in the ring.
UnorderedIsHeld == Unordered \subseteq Held

\* The same, apart from the first entry of each client, whose client_seq is
\* what a client missing from the batch reads as.
LaterUnorderedIsHeld == \A rid \in Unordered : rid[2] > 0 => rid \in Held

\* Space is only freed when its entry has been written: no thread is still
\* serialising an entry whose place the next lap may take.
FreedWasWritten ==
    /\ \A i \in 1..ordered_watermk : blog[i].flag = 1
    /\ \A c \in Clients : thread[c] = "claimed" => place[c] >= ordered_watermk

\* Every entry held as pending left the ring for good, and is held once.
PendingLeftRing ==
    gc.step = "idle" => pending_entries \cap InRing = {}

\* A delete call always answers: the wait for a flag, with lk_ held, ends.
CallReturns == (gc.step = "lookUp") ~> (gc.step = "idle")

\* An append that reached the backup is answered: waiting for the flags keeps
\* the watermark of the backup from lagging until it has no place left.
AppendReturns == \A c \in Clients : (thread[c] = "sent") ~> (thread[c] = "idle")

=============================================================================
