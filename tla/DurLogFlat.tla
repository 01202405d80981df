----------------------------- MODULE DurLogFlat -----------------------------
(***************************************************************************)
(* The primary replica of the durability log (class DurabilityLogFlat):    *)
(* a ring of memory that the eRPC worker threads append entries to         *)
(* (AppendEntry), and that the consensus log drains over one-sided RDMA    *)
(* (class DurabilityLogFlatCli): it READs the words between its own        *)
(* position and the sequencer, deserialises the complete entries it finds, *)
(* and later WRITEs the ordered watermarks, which frees their space.       *)
(*                                                                         *)
(* Memory is modelled word by word.  An entry of size n covers n words:    *)
(* word 0 is the metadata (ids, index, size), word 1 holds the flag, the   *)
(* others are its data.  A sequence number is a word count that only       *)
(* grows; it lives at word "seq % RgSize" of the ring.  Behind the ring    *)
(* lies the safe region, where an entry that starts near the end of the    *)
(* ring overflows before its tail is copied to the start of the ring.      *)
(*                                                                         *)
(* The stores of one thread become visible in program order (x86-TSO, no   *)
(* reordering by the compiler across the calls between them), and an RDMA  *)
(* READ returns the cache lines of a range in increasing address order,    *)
(* each one as it is at some moment during the read.                       *)
(***************************************************************************)
EXTENDS Integers, Sequences, FiniteSets

CONSTANTS
    Threads,      \* the eRPC worker threads of the replica
    Sizes,        \* the sizes, in words, of the entries clients append
    MaxSize,      \* the size of the largest entry
    RgSize,       \* the size of the ring in words (rg_size_)
    Slack,        \* the reserve kept by waitForPlace (PAGE_SIZE << 6)
    LineSize,     \* the words of a cache line, which RDMA reads atomically
    MaxFetch,     \* cons_log.max_fetch_size in words, 0 for no limit
    NumBuffers,   \* batches fetched and not yet deleted (ConsensusLog::buffers_)
    SeqBound      \* bound: no append starts once the sequencer is here

\* The words of an entry's metadata (MetaDataSize()).
MetaDataSize == 2

ASSUME ThreadsAssumption == IsFiniteSet(Threads)

ASSUME SizesAssumption ==
    /\ MaxSize \in Nat
    /\ Sizes \subseteq MetaDataSize..MaxSize

ASSUME RingAssumption ==
    /\ RgSize \in Nat \ {0}
    /\ Slack \in Nat /\ Slack < RgSize
    /\ LineSize \in Nat \ {0}
    /\ MaxFetch \in Nat
    /\ NumBuffers \in Nat
    /\ SeqBound \in Nat

\* The comment in waitForPlace: the reserve has room for one entry per thread.
ASSUME SlackAssumption == Cardinality(Threads) * MaxSize <= Slack

VARIABLES
    mem,          \* mem_rg_raw_: the ring and the safe region behind it
    sequencer,    \* sequence number of the next entry
    indexer,      \* log index of the next entry
    ordered_watermk,      \* sequence number of the first entry not deleted
    ordered_idx_watermk,  \* log index of the first entry not deleted
    idx_lk,       \* the holders of idx_lk_: {} or one thread
    pc,           \* where each thread is in AppendEntry
    req,          \* the locals of AppendEntry: the entry of each thread
    cur,          \* the sequencer as last read in waitForPlace, per thread
    fetch_begin,  \* ConsensusLog::fetch: where the next fetch begins
    cl,           \* the fetch under way: phase, begin, end, words read, offset
    es,           \* the entries deserialised from the words read
    batches,      \* fetched batches whose deletion is still to come
    log,          \* history: the entries in the order the sequencer gave them
    fetched       \* history: what the consensus log was handed, in order

ringVars  == <<mem, sequencer, indexer, ordered_watermk, ordered_idx_watermk>>
threadVars == <<idx_lk, pc, req, cur>>
clVars    == <<fetch_begin, cl, es, batches>>
vars      == <<ringVars, threadVars, clVars, log, fetched>>

-----------------------------------------------------------------------------
(* Words of memory *)

Entry   == [seq : Nat, size : Nat, idx : Nat]
NoEntry == [seq |-> 0, size |-> 0, idx |-> 0]

\* A word: the part p of entry e, where part 1 is the flag f.  Part -1 is
\* memory nobody wrote (posix_memalign does not clear it).  Metadata holds the
\* size of an entry.
Word     == {w \in [e : Entry, p : Int, f : {0, 1}] :
               w.p = 0 => w.e.size \in Sizes}
RawWord  == [e |-> NoEntry, p |-> -1, f |-> 0]
FlagWord(f) == [e |-> NoEntry, p |-> 1, f |-> f]
EntryWord(e, p) ==
    IF p = 1 THEN FlagWord(0) ELSE [e |-> e, p |-> p, f |-> 0]

Address == 0..(RgSize + MaxSize - 1)

\* A word read as metadata or as a flag is what was stored there only if it
\* is one; any other bits read as some size and some flag.
SizesIn(w) == IF w.p = 0 THEN {w.e.size} ELSE Sizes
FlagsIn(w) == IF w.p = 1 THEN {w.f} ELSE {0, 1}

Offset(seq) == seq % RgSize
MinOf(a, b) == IF a <= b THEN a ELSE b
MaxOf(a, b) == IF a >= b THEN a ELSE b

\* The consensus log between two fetches.
NoFetch == [phase |-> "idle", begin |-> 0, end |-> 0, words |-> <<>>, offset |-> 0]

-----------------------------------------------------------------------------
Init ==
    /\ mem = [a \in Address |-> RawWord]
    /\ sequencer = 0 /\ indexer = 0
    /\ ordered_watermk = 0 /\ ordered_idx_watermk = 0
    /\ idx_lk = {}
    /\ pc = [t \in Threads |-> "idle"]
    /\ req = [t \in Threads |-> NoEntry]
    /\ cur = [t \in Threads |-> 0]
    /\ fetch_begin = 0
    /\ cl = NoFetch
    /\ es = <<>>
    /\ batches = <<>>
    /\ log = <<>>
    /\ fetched = <<>>

-----------------------------------------------------------------------------
(* AppendEntry, run by thread t *)

Goto(t, from, to) == pc[t] = from /\ pc' = [pc EXCEPT ![t] = to]

\* The handler of an append request: an entry of some size arrives.
AppendEntry(t) ==
    /\ sequencer < SeqBound
    /\ Goto(t, "idle", "waitForPlace")
    /\ \E n \in Sizes :
          req' = [req EXCEPT ![t] = [seq |-> 0, size |-> n, idx |-> 0]]
    /\ UNCHANGED <<ringVars, idx_lk, cur, clVars, log, fetched>>

\* waitForPlace reads the sequencer first ...
ReadSequencer(t) ==
    /\ Goto(t, "waitForPlace", "readWatermark")
    /\ cur' = [cur EXCEPT ![t] = sequencer]
    /\ UNCHANGED <<ringVars, idx_lk, req, clVars, log, fetched>>

\* A faulty variant of HasPlace: no reserve for the other threads.
HasPlaceNoSlack(seq, n, wm) == seq + n >= wm /\ seq + n - wm < RgSize

\* ... and the watermark later.  The difference is unsigned: when the
\* watermark has passed the sequence number read, it wraps to a huge value,
\* and the thread waits for another round.
HasPlace(seq, n, wm) == seq + n >= wm /\ seq + n - wm < RgSize - Slack

ReadWatermark(t) ==
    /\ IF HasPlace(cur[t], req[t].size, ordered_watermk)
       THEN Goto(t, "readWatermark", "lock")
       ELSE Goto(t, "readWatermark", "waitForPlace")
    /\ UNCHANGED <<ringVars, idx_lk, req, cur, clVars, log, fetched>>

\* A faulty variant of Claim: the flag of an earlier lap is left alone.
ClaimNoFlagReset(t) ==
    /\ idx_lk = {}
    /\ idx_lk' = {t}
    /\ Goto(t, "lock", "claimed")
    /\ req' = [req EXCEPT ![t].seq = sequencer, ![t].idx = indexer]
    /\ UNCHANGED <<ringVars, cur, clVars, log, fetched>>

\* Enters the critical section of idx_lk_: picks the entry's place and
\* clears its flag there.
Claim(t) ==
    /\ idx_lk = {}
    /\ idx_lk' = {t}
    /\ Goto(t, "lock", "claimed")
    /\ req' = [req EXCEPT ![t].seq = sequencer, ![t].idx = indexer]
    /\ mem' = [mem EXCEPT ![Offset(sequencer) + 1] = FlagWord(0)]
    /\ UNCHANGED <<sequencer, indexer, ordered_watermk, ordered_idx_watermk,
                   cur, clVars, log, fetched>>

\* A faulty variant of Publish: idx_lk_ is never released.
PublishKeepsLock(t) ==
    /\ Goto(t, "claimed", "serialize")
    /\ indexer' = indexer + 1
    /\ sequencer' = sequencer + req[t].size
    /\ log' = Append(log, req[t])
    /\ UNCHANGED <<mem, ordered_watermk, ordered_idx_watermk, idx_lk, req, cur,
                   clVars, fetched>>

\* Leaves the critical section: the indexer, then the sequencer, advance.
Publish(t) ==
    /\ Goto(t, "claimed", "serialize")
    /\ indexer' = indexer + 1
    /\ sequencer' = sequencer + req[t].size
    /\ idx_lk' = {}
    /\ log' = Append(log, req[t])
    /\ UNCHANGED <<mem, ordered_watermk, ordered_idx_watermk, req, cur,
                   clVars, fetched>>

\* A faulty variant of Serialize: the bytes after the metadata stay behind.
SerializeMetaOnly(t) ==
    LET o == Offset(req[t].seq) IN
    /\ Goto(t, "serialize", "setFlag")
    /\ mem' = [mem EXCEPT ![o] = EntryWord(req[t], 0)]
    /\ UNCHANGED <<sequencer, indexer, ordered_watermk, ordered_idx_watermk,
                   idx_lk, req, cur, clVars, log, fetched>>

\* Serializer: the whole entry, its flag still 0, as if the ring went on.
Serialize(t) ==
    LET o == Offset(req[t].seq) IN
    /\ Goto(t, "serialize", "setFlag")
    /\ mem' = [a \in Address |->
                 IF a \in o..(o + req[t].size - 1)
                 THEN EntryWord(req[t], a - o) ELSE mem[a]]
    /\ UNCHANGED <<sequencer, indexer, ordered_watermk, ordered_idx_watermk,
                   idx_lk, req, cur, clVars, log, fetched>>

SetFlag(t) ==
    /\ IF Offset(req[t].seq) + req[t].size > RgSize
       THEN Goto(t, "setFlag", "copyTail")
       ELSE Goto(t, "setFlag", "idle")
    /\ mem' = [mem EXCEPT ![Offset(req[t].seq) + 1] = FlagWord(1)]
    /\ UNCHANGED <<sequencer, indexer, ordered_watermk, ordered_idx_watermk,
                   idx_lk, req, cur, clVars, log, fetched>>

\* The memcpy of the words that overflowed the ring to its start.
CopyTail(t) ==
    LET over == Offset(req[t].seq) + req[t].size - RgSize IN
    /\ Goto(t, "copyTail", "idle")
    /\ mem' = [a \in Address |-> IF a < over THEN mem[a + RgSize] ELSE mem[a]]
    /\ UNCHANGED <<sequencer, indexer, ordered_watermk, ordered_idx_watermk,
                   idx_lk, req, cur, clVars, log, fetched>>

\* What a thread does once its entry is serialised, with no lock held: the
\* flag first, then the copy, which only an entry that overflowed needs.
FinishWrite(t) ==
    /\ pc[t] \in {"setFlag", "copyTail"}
    /\ SetFlag(t) \/ CopyTail(t)

-----------------------------------------------------------------------------
(* The consensus log *)

\* getUnorderedRange and the choice of the range to read.  With nothing to
\* read the fetch returns 0 and the consensus log calls it again.
FetchRange ==
    LET begin == MaxOf(ordered_watermk, fetch_begin)
        end   == IF MaxFetch > 0 THEN MinOf(sequencer, begin + MaxFetch)
                                 ELSE sequencer IN
    /\ cl.phase = "idle"
    /\ Len(batches) < NumBuffers
    /\ fetch_begin < sequencer
    /\ Offset(begin) # Offset(end)
    /\ cl' = [phase |-> "read", begin |-> begin, end |-> end,
              words |-> <<>>, offset |-> 0]
    /\ UNCHANGED <<ringVars, threadVars, fetch_begin, es, batches, log, fetched>>

\* The next cache line of qp_->read or, across the end of the ring, of
\* readTwoPlaces: from ReadAt to the end of its line, of the ring or of the
\* range, whichever comes first.
ReadAt  == cl.begin + Len(cl.words)
LineLen == MinOf(MinOf(LineSize - (Offset(ReadAt) % LineSize),
                       RgSize - Offset(ReadAt)), cl.end - ReadAt)

ReadLine ==
    /\ cl.phase = "read"
    /\ cl' = [cl EXCEPT
                !.words = @ \o [k \in 1..LineLen |-> mem[Offset(ReadAt) + k - 1]],
                !.phase = IF ReadAt + LineLen = cl.end THEN "parse" ELSE "read"]
    /\ UNCHANGED <<ringVars, threadVars, fetch_begin, es, batches, log, fetched>>

Rest == (cl.end - cl.begin) - cl.offset

\* A faulty variant of DeserializeOne: the flag is not looked at.
DeserializeUnflagged ==
    /\ cl.phase = "parse"
    /\ Rest >= MetaDataSize
    /\ \E n \in SizesIn(cl.words[cl.offset + 1]) :
          /\ n <= Rest
          /\ es' = Append(es, SubSeq(cl.words, cl.offset + 1, cl.offset + n))
          /\ cl' = [cl EXCEPT !.offset = @ + n]
    /\ UNCHANGED <<ringVars, threadVars, fetch_begin, batches, log, fetched>>

\* A faulty variant of DeserializeOne: the entry need not be whole.
DeserializeCut ==
    /\ cl.phase = "parse"
    /\ Rest >= MetaDataSize
    /\ \E n \in SizesIn(cl.words[cl.offset + 1]) :
          /\ \E f \in FlagsIn(cl.words[cl.offset + 2]) : f # 0
          /\ es' = Append(es, SubSeq(cl.words, cl.offset + 1,
                                    MinOf(cl.offset + n, Len(cl.words))))
          /\ cl' = [cl EXCEPT !.offset = @ + n]
    /\ UNCHANGED <<ringVars, threadVars, fetch_begin, batches, log, fetched>>

\* One round of MultiDeserializerMaxSize: a whole entry whose flag is set.
DeserializeOne ==
    /\ cl.phase = "parse"
    /\ Rest >= MetaDataSize
    /\ \E n \in SizesIn(cl.words[cl.offset + 1]) :
          /\ n <= Rest
          /\ \E f \in FlagsIn(cl.words[cl.offset + 2]) : f # 0
          /\ es' = Append(es, SubSeq(cl.words, cl.offset + 1, cl.offset + n))
          /\ cl' = [cl EXCEPT !.offset = @ + n]
    /\ UNCHANGED <<ringVars, threadVars, fetch_begin, batches, log, fetched>>

\* The rest holds no complete entry, or one whose flag is not set.
NoEntryLeft ==
    Rest >= MetaDataSize =>
        \/ \E n \in SizesIn(cl.words[cl.offset + 1]) : Rest < n
        \/ 0 \in FlagsIn(cl.words[cl.offset + 2])

\* A faulty variant of BatchEnd: the end of the range that was read.
BatchEndOfRange == [seq |-> cl.end, idx |-> es[Len(es)][1].e.idx + 1]

\* A faulty variant of BatchEnd: the index of the last entry itself.
BatchEndLastIdx == [seq |-> cl.begin + cl.offset, idx |-> es[Len(es)][1].e.idx]

\* ProcessFetchedEntries on the primary: the end of the batch, and the index
\* after that of its last entry.
BatchEnd == [seq |-> cl.begin + cl.offset, idx |-> es[Len(es)][1].e.idx + 1]

\* The fetch returns: with entries it moves fetch_begin, hands the batch to
\* the store thread, and a later fetch goes on behind it.
FetchReturn ==
    /\ cl.phase = "parse"
    /\ NoEntryLeft
    /\ cl' = NoFetch
    /\ es' = <<>>
    /\ fetched' = fetched \o es
    /\ IF es = <<>>
       THEN UNCHANGED <<fetch_begin, batches>>
       ELSE /\ fetch_begin' = fetch_begin + cl.offset
            /\ batches' = Append(batches, BatchEnd)
    /\ UNCHANGED <<ringVars, threadVars, log>>

\* DeleteOrderedEntries(Async) on the primary: the RDMA WRITE of both
\* watermarks, once the oldest batch is stored.
DeleteOrderedEntries ==
    /\ batches # <<>>
    /\ ordered_watermk' = Head(batches).seq
    /\ ordered_idx_watermk' = Head(batches).idx
    /\ batches' = Tail(batches)
    /\ UNCHANGED <<mem, sequencer, indexer, threadVars, fetch_begin, cl, es,
                   log, fetched>>

-----------------------------------------------------------------------------
ThreadStep(t) ==
    \/ ReadSequencer(t)
    \/ ReadWatermark(t)
    \/ Claim(t)
    \/ Publish(t)
    \/ Serialize(t)
    \/ FinishWrite(t)

FetchStep == FetchRange \/ ReadLine \/ DeserializeOne \/ FetchReturn

Next ==
    \/ \E t \in Threads : AppendEntry(t) \/ ThreadStep(t)
    \/ FetchStep
    \/ DeleteOrderedEntries

Spec == Init /\ [][Next]_vars

\* The operating system runs every worker thread and both threads of the
\* consensus log; clients need not append anything.
Fairness ==
    /\ \A t \in Threads : WF_vars(ThreadStep(t))
    /\ WF_vars(FetchStep)
    /\ WF_vars(DeleteOrderedEntries)

FairSpec == Spec /\ Fairness

-----------------------------------------------------------------------------
(* Properties *)

Phases == {"idle", "waitForPlace", "readWatermark", "lock", "claimed",
           "serialize", "setFlag", "copyTail"}

\* Every variable of the ring, of the append threads and of the fetch has its
\* type; a fetch never parses past the words it asked for.
TypeOK ==
    /\ mem \in [Address -> Word]
    /\ sequencer \in Nat /\ indexer \in Nat
    /\ ordered_watermk \in Nat /\ ordered_idx_watermk \in Nat
    /\ idx_lk \in SUBSET Threads
    /\ pc \in [Threads -> Phases]
    /\ req \in [Threads -> Entry]
    /\ cur \in [Threads -> Nat]
    /\ fetch_begin \in Nat
    /\ cl \in [phase : {"idle", "read", "parse"}, begin : Nat, end : Nat,
               words : Seq(Word), offset : Nat]
    /\ cl.phase = "parse" => cl.offset <= Len(cl.words)
    /\ es \in Seq(Seq(Word) \ {<<>>})
    /\ batches \in Seq([seq : Nat, idx : Nat])
    /\ log \in Seq(Entry)
    /\ fetched \in Seq(Seq(Word))

\* waitForPlace: however many threads leave the wait together, and however
\* stale the sequencer each of them compared, the entries that are not yet
\* deleted never take more than the ring.
UnorderedFitsRing == sequencer - ordered_watermk <= RgSize

\* The words of entry e, flag set, as AppendEntry leaves them.
WordsOf(e) == [k \in 1..e.size |->
                 IF k = 2 THEN FlagWord(1) ELSE EntryWord(e, k - 1)]

BeingWritten(e) ==
    \E t \in Threads : pc[t] \in {"serialize", "setFlag", "copyTail"} /\ req[t] = e

\* AppendEntry has returned for an entry that is not yet deleted: the entry is
\* in the ring, whole, at its place and flagged, whatever other threads, laps
\* of the ring and deletions do meanwhile.
UnorderedIntact ==
    \A i \in DOMAIN log :
        log[i].seq >= ordered_watermk /\ ~BeingWritten(log[i]) =>
            \A k \in 1..log[i].size :
                mem[Offset(log[i].seq + k - 1)] = WordsOf(log[i])[k]

\* FetchUnorderedEntries hands the consensus log the entries in the order of
\* their indexes, none skipped or repeated, each with the words its append
\* wrote ("entry has been written to memory"), although it reads the ring
\* while threads write to it.
FetchedInOrder ==
    /\ Len(fetched) <= Len(log)
    /\ \A i \in DOMAIN fetched : fetched[i] = WordsOf(log[i])

\* The two watermarks that DeleteOrderedEntries writes name the same entry:
\* the one with index ordered_idx_watermk starts at ordered_watermk.
WatermarksAgree ==
    /\ ordered_idx_watermk <= Len(log)
    /\ ordered_watermk = IF ordered_idx_watermk < Len(log)
                         THEN log[ordered_idx_watermk + 1].seq ELSE fetch_begin

\* Space is only ever freed forwards, and only up to what was fetched.
WatermarkAdvances ==
    [][/\ ordered_watermk <= ordered_watermk'
       /\ ordered_watermk' <= fetch_begin]_vars

\* A thread that waits for place gets it, and its append returns.
AppendReturns ==
    \A t \in Threads : pc[t] = "waitForPlace" ~> pc[t] = "idle"

\* Every entry with an index is eventually fetched and deleted.
EntriesGetOrdered ==
    \A i \in 1..(SeqBound \div MetaDataSize) : Len(log) >= i ~> ordered_idx_watermk >= i

=============================================================================
