-------------------------------- MODULE Corfu -------------------------------
(***************************************************************************)
(* The Corfu build of the repository (CORFU): a client asks the primary of *)
(* the durability log for the next global sequence number and writes its   *)
(* entry to the shard of that number, on one server after the other        *)
(* (LazyLogClient::AppendEntryAll).  The threads of a shard server write   *)
(* entries straight to the file of their stripe, which the first of them   *)
(* creates and the last one closes.                                        *)
(*                                                                         *)
(* A file is the set of the slots written in it.  File descriptors are     *)
(* numbers that are used again once they are closed; 0 is standard input,  *)
(* the value of "fd" in a thread that found the file created by another    *)
(* one just before it: its entry does not reach the file.                  *)
(***************************************************************************)
EXTENDS Integers, FiniteSets

CONSTANTS
    Clients,      \* each with a thread of its own on every server
    Copies,       \* servers of a shard: the primary is 1, backups follow
    ShardNum,     \* the number of shards (shard.num)
    StripeUnit,   \* the entries of a file (stripe_unit_size_)
    MaxGSN        \* bound: sequence numbers given

ASSUME CorfuAssumption ==
    /\ Copies \in Nat \ {0} /\ ShardNum \in Nat \ {0}
    /\ StripeUnit \in Nat \ {0} /\ MaxGSN \in Nat

Servers == (1..Copies) \X (0..(ShardNum - 1))

VARIABLES
    gsn,            \* primary of the durability log: gsn_
    cli,            \* client: its entry, the server it is at and its thread
    entries_fd_set, \* server: the open files, base_idx to descriptor
    cache_size,     \* server: base_idx to entries counted (cache_size_atomic_)
    entry_size,     \* server: whether entry_size_ is set
    files,          \* server: base_idx to the slots written
    strays,         \* server: history, the numbers written to descriptor 0
    acked,          \* history: the numbers whose append has returned
    rd              \* a read of an entry at the primary of its shard

serverVars == <<entries_fd_set, cache_size, entry_size, files, strays>>
vars == <<gsn, cli, serverVars, acked, rd>>

BigStripe   == StripeUnit * ShardNum
Base(idx)   == (idx \div BigStripe) * BigStripe
Slot(idx)   == (idx - Base(idx)) \div ShardNum
Primary(idx) == <<1, idx % ShardNum>>

\* Maps from base_idx.
At(map, k)      == IF k \in DOMAIN map THEN map[k] ELSE 0
Put(map, k, v)  == [b \in DOMAIN map \cup {k} |-> IF b = k THEN v ELSE map[b]]
Erase(map, k)   == [b \in DOMAIN map \ {k} |-> map[b]]
OnFile(s, idx)  == Base(idx) \in DOMAIN files[s] /\ Slot(idx) \in files[s][Base(idx)]

Idle == [step |-> "idle", idx |-> 0, at |-> 0, fd |-> 0]
NoRead == [step |-> "idle", idx |-> 0, written |-> FALSE, ret |-> "none"]

Init ==
    /\ gsn = 0
    /\ cli = [c \in Clients |-> Idle]
    /\ entries_fd_set = [s \in Servers |-> <<>>]
    /\ cache_size = [s \in Servers |-> <<>>]
    /\ entry_size = [s \in Servers |-> FALSE]
    /\ files = [s \in Servers |-> <<>>]
    /\ strays = [s \in Servers |-> {}]
    /\ acked = {}
    /\ rd = NoRead

-----------------------------------------------------------------------------
(* AppendEntryAll of client c, and the thread that serves it *)

ServerOf(c) == <<cli[c].at, cli[c].idx % ShardNum>>
BaseOf(c)   == Base(cli[c].idx)
Goto(c, from, to) == cli[c].step = from /\ cli' = [cli EXCEPT ![c].step = to]

\* fetch_add on gsn_.
FetchAdd(batchSize) == gsn' = gsn + batchSize

\* The client has its number, and the first server gets the entry.
GetGSN(c) ==
    /\ cli[c].step = "idle"
    /\ gsn < MaxGSN
    /\ FetchAdd(1)
    /\ cli' = [cli EXCEPT ![c] = [step |-> "find", idx |-> gsn, at |-> 1, fd |-> 0]]
    /\ UNCHANGED <<serverVars, acked, rd>>

\* The steps of a thread once it has a descriptor, and a faulty order that
\* counts the entry first.
CountFirst(step) == CASE step = "file" -> "count" [] step = "count" -> "write"
                      [] step = "write" -> "check"
Then(step) == CASE step = "file" -> "write" [] step = "write" -> "count"
                [] step = "count" -> "check"

\* addToEntryCacheAsync, with the shared lock: the file of the stripe is open.
FindFile(c) ==
    /\ cli[c].step = "find"
    /\ IF BaseOf(c) \in DOMAIN entries_fd_set[ServerOf(c)]
       THEN cli' = [cli EXCEPT ![c].step = Then("file"),
                               ![c].fd = entries_fd_set[ServerOf(c)][BaseOf(c)]]
       ELSE cli' = [cli EXCEPT ![c].step = "create"]
    /\ UNCHANGED <<gsn, serverVars, acked, rd>>

\* The lowest descriptor that is free.
NewFd(s) ==
    LET used == {entries_fd_set[s][b] : b \in DOMAIN entries_fd_set[s]} IN
    CHOOSE n \in 1..(Cardinality(used) + 1) :
        n \notin used /\ \A m \in 1..(n - 1) : m \in used

\* The second look for the file, and a faulty variant that leaves it out.
NoSecondLook(s, base) == TRUE
StillMissing(s, base) == base \notin DOMAIN entries_fd_set[s]

\* With the exclusive lock: the file is created (and cut to nothing if it was
\* there) unless another thread was faster, in which case fd stays 0.  The open
\* succeeds.
CreateFile(c) ==
    LET s == ServerOf(c) IN
    /\ cli[c].step = "create"
    /\ IF StillMissing(s, BaseOf(c))
       THEN /\ cache_size' = [cache_size EXCEPT ![s] = Put(@, BaseOf(c), 0)]
            /\ files' = [files EXCEPT ![s] = Put(@, BaseOf(c), {})]
            /\ entries_fd_set' = [entries_fd_set EXCEPT ![s] = Put(@, BaseOf(c), NewFd(s))]
            /\ cli' = [cli EXCEPT ![c].step = Then("file"), ![c].fd = NewFd(s)]
       ELSE /\ cli' = [cli EXCEPT ![c].step = Then("file")]
            /\ UNCHANGED <<cache_size, files, entries_fd_set>>
    /\ UNCHANGED <<gsn, entry_size, strays, acked, rd>>

\* pwrite, to whatever file the descriptor stands for now.
PWrite(c) ==
    LET s == ServerOf(c)
        open == {b \in DOMAIN entries_fd_set[s] : entries_fd_set[s][b] = cli[c].fd} IN
    /\ Goto(c, "write", Then("write"))
    /\ files' = [files EXCEPT ![s] =
                   [b \in DOMAIN @ |-> IF b \in open THEN @[b] \cup {Slot(cli[c].idx)} ELSE @[b]]]
    /\ strays' = [strays EXCEPT ![s] = IF cli[c].fd = 0 THEN @ \cup {cli[c].idx} ELSE @]
    /\ UNCHANGED <<gsn, entries_fd_set, cache_size, entry_size, acked, rd>>

\* entry_size_ is set by the first write, then the entry is counted.
CountEntry(c) ==
    LET s == ServerOf(c) IN
    /\ Goto(c, "count", Then("count"))
    /\ entry_size' = [entry_size EXCEPT ![s] = TRUE]
    /\ cache_size' = [cache_size EXCEPT ![s] = Put(@, BaseOf(c), At(@, BaseOf(c)) + 1)]
    /\ UNCHANGED <<gsn, entries_fd_set, files, strays, acked, rd>>

\* The server answers; the client goes on to the next copy or returns.
Answer(c) ==
    IF cli[c].at < Copies
    THEN /\ cli' = [cli EXCEPT ![c].at = @ + 1, ![c].step = "find", ![c].fd = 0]
         /\ UNCHANGED acked
    ELSE /\ cli' = [cli EXCEPT ![c] = Idle]
         /\ acked' = acked \cup {cli[c].idx}

\* AppendEntryHandler: a stripe that is not full leaves its file open (the
\* count of a stripe that was closed meanwhile is made anew, and is 0) ...
NotFull(c) ==
    /\ cli[c].step = "check"
    /\ At(cache_size[ServerOf(c)], BaseOf(c)) < StripeUnit
    /\ Answer(c)
    /\ UNCHANGED <<gsn, serverVars, rd>>

Full(c) ==
    /\ Goto(c, "check", "close")
    /\ At(cache_size[ServerOf(c)], BaseOf(c)) >= StripeUnit
    /\ UNCHANGED <<gsn, serverVars, acked, rd>>

\* The thread goes on even when the file is not open any more, and a faulty
\* variant that returns without an answer.
AtOpenFile(c) == cli[c].step = "close" /\ BaseOf(c) \in DOMAIN entries_fd_set[ServerOf(c)]
AtFile(c) == cli[c].step = "close"

\* ... and writeFromCacheToDisk closes it, with the exclusive lock, unless the
\* thread of another entry has.
CloseFile(c) ==
    LET s == ServerOf(c) IN
    /\ AtFile(c)
    /\ IF BaseOf(c) \in DOMAIN entries_fd_set[s]
       THEN /\ entries_fd_set' = [entries_fd_set EXCEPT ![s] = Erase(@, BaseOf(c))]
            /\ cache_size' = [cache_size EXCEPT ![s] = Erase(@, BaseOf(c))]
       ELSE UNCHANGED <<entries_fd_set, cache_size>>
    /\ Answer(c)
    /\ UNCHANGED <<gsn, entry_size, files, strays, rd>>

-----------------------------------------------------------------------------
(* ReadEntryHandler of the primary *)

\* The slot that is read, and a faulty variant that counts all shards.
SlotOfAll(idx) == idx - Base(idx)
ReadSlot(idx) == Slot(idx)

\* pread of a file of set "slots".  A slot that was skipped reads as zeroes
\* and is no entry.  At the end of the file, or before entry_size_ is set,
\* pread leaves in the buffer of the response what it held before.
PRead(slots) ==
    LET n == ReadSlot(rd.idx)
        short == ~entry_size[Primary(rd.idx)] \/ \A m \in slots : m < n IN
    rd' = [NoRead EXCEPT !.ret = IF short THEN "leftover"
                                 ELSE IF n \in slots THEN "entry" ELSE "noent"]

ReadEntry ==
    /\ rd.step = "idle"
    /\ \E idx \in 0..(MaxGSN - 1) :
          rd' = [step |-> "look", idx |-> idx, ret |-> "none",
                 written |-> OnFile(Primary(idx), idx) /\ entry_size[Primary(idx)]]
    /\ UNCHANGED <<gsn, cli, serverVars, acked>>

\* An open file is read with the shared lock held, another one without it.
Look ==
    LET s == Primary(rd.idx) IN
    /\ rd.step = "look"
    /\ IF Base(rd.idx) \in DOMAIN entries_fd_set[s]
       THEN PRead(files[s][Base(rd.idx)])
       ELSE rd' = [rd EXCEPT !.step = "open"]
    /\ UNCHANGED <<gsn, cli, serverVars, acked>>

OpenClosed ==
    LET s == Primary(rd.idx) IN
    /\ rd.step = "open"
    /\ IF Base(rd.idx) \in DOMAIN files[s]
       THEN PRead(files[s][Base(rd.idx)])
       ELSE rd' = [NoRead EXCEPT !.ret = "noent"]
    /\ UNCHANGED <<gsn, cli, serverVars, acked>>

-----------------------------------------------------------------------------
ThreadStep(c) == FindFile(c) \/ CreateFile(c) \/ PWrite(c) \/ CountEntry(c)
                 \/ NotFull(c) \/ Full(c) \/ CloseFile(c)

Next ==
    \/ \E c \in Clients : GetGSN(c) \/ ThreadStep(c)
    \/ ReadEntry \/ Look \/ OpenClosed

Spec == Init /\ [][Next]_vars

\* Every thread runs, so that an append that has a number goes on.
FairSpec == Spec /\ \A c \in Clients : WF_vars(ThreadStep(c))

-----------------------------------------------------------------------------
(* Properties *)

\* A thread writes its entry to the file of its stripe or, having lost the
\* race for its creation, to none: a descriptor is never closed, nor used for
\* another file, while a thread holds it.
FdIsMine ==
    \A c \in Clients :
        cli[c].step = "write" /\ cli[c].fd # 0 =>
            /\ BaseOf(c) \in DOMAIN entries_fd_set[ServerOf(c)]
            /\ entries_fd_set[ServerOf(c)][BaseOf(c)] = cli[c].fd

\* An append that has returned is in the file of its stripe on every copy of
\* its shard, whoever creates and closes that file meanwhile, apart from those
\* that lost the race for its creation.
AckedIsWritten ==
    \A idx \in acked : \A k \in 1..Copies :
        LET s == <<k, idx % ShardNum>> IN OnFile(s, idx) \/ idx \in strays[s]

\* A file is closed only when every entry of its stripe has been written, or
\* has gone to descriptor 0 instead: nobody opens, and so cuts, it again.
ClosedStaysClosed ==
    \A s \in Servers : \A b \in DOMAIN files[s] :
        b \notin DOMAIN entries_fd_set[s] =>
            Cardinality(files[s][b]) + Cardinality({x \in strays[s] : Base(x) = b})
                = StripeUnit

\* A read finds an entry that was written before it began, although the file
\* may be closed between the look for its descriptor and the read.
WrittenIsRead ==
    [][rd.step # "idle" /\ rd'.step = "idle" /\ rd.written => rd'.ret = "entry"]_rd

\* Every sequence number that was given ends up acknowledged: no number stays
\* a hole because of the threads that create and close files.
AppendReturns ==
    \A c \in Clients : (cli[c].step = "find") ~> (cli[c].step = "idle")

=============================================================================
