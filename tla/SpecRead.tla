------------------------------ MODULE SpecRead ------------------------------
(***************************************************************************)
(* Speculative reads (LazyLogClient::SpecReadEntry): a client asks the     *)
(* primary of the durability log for the entry of an index that need not   *)
(* be ordered yet.  The handler looks the index up in idx_to_seq_, which   *)
(* AppendEntry fills, and copies the entry from the ring.  It takes no     *)
(* lock: threads append, and lap the ring, while it looks.                 *)
(*                                                                         *)
(* The ring, its threads and the consensus log are those of DurLogFlat.    *)
(***************************************************************************)
EXTENDS DurLogFlat

CONSTANTS
    IdxSlack      \* the oldest mappings SpecReadEntry keeps away from (64)

ASSUME IdxSlackAssumption == IdxSlack \in Nat

\* One mapping for each entry of the smallest size (min_entry_size).
IdxMapElemCnt == RgSize \div MetaDataSize

VARIABLES
    idx_to_seq,   \* sequence numbers by index modulo IdxMapElemCnt
    rd            \* the read: step, index, locals, words copied and answer

specVars == <<idx_to_seq, rd>>

NoRead == [step |-> "idle", idx |-> 0, seq |-> 0, cur_seq |-> 0, words |-> <<>>,
           ret |-> 0, from |-> 0, written |-> FALSE]

SpecInit ==
    /\ Init
    /\ idx_to_seq = [i \in 0..(IdxMapElemCnt - 1) |-> 0]
    /\ rd = NoRead

\* The mapping an index goes to, and a faulty variant: once it is advanced.
IdxSlotAfter == (indexer + 1) % IdxMapElemCnt
IdxSlot == indexer % IdxMapElemCnt

\* AppendEntry, whose critical section also maps the index.
MapIdx(t) ==
    /\ Claim(t)
    /\ idx_to_seq' = [idx_to_seq EXCEPT ![IdxSlot] = sequencer]
    /\ UNCHANGED rd

OtherStep ==
    /\ \/ \E t \in Threads :
             \/ AppendEntry(t) \/ ReadSequencer(t) \/ ReadWatermark(t)
             \/ Publish(t) \/ Serialize(t) \/ FinishWrite(t)
       \/ FetchStep
       \/ DeleteOrderedEntries
    /\ UNCHANGED specVars

-----------------------------------------------------------------------------
(* SpecReadEntry *)

\* A step of the read, which ends with an answer or goes on at "next".
Return(v, words) == rd' = [NoRead EXCEPT !.ret = v, !.words = words]
Answer(v) == Return(v, <<>>)
GoOn(next, r) == rd' = [r EXCEPT !.step = next]

\* The call of a client, for an index that it may have been told or not.
SpecRead ==
    /\ rd.step = "idle"
    /\ \E i \in 0..indexer :
          rd' = [NoRead EXCEPT
                   !.step = "tooLow", !.idx = i, !.from = indexer,
                   !.written = i < Len(log) /\ ~BeingWritten(log[i + 1])]
    /\ UNCHANGED <<vars, idx_to_seq>>

\* idx <= indexer - idx_map_elem_cnt_ + 64, unsigned: while the log is
\* shorter than that, the right side is negative and wraps, and every index
\* is too low.
TooLow(idx) ==
    \/ indexer + IdxSlack < IdxMapElemCnt
    \/ idx <= indexer + IdxSlack - IdxMapElemCnt

CheckTooLow ==
    /\ rd.step = "tooLow"
    /\ IF TooLow(rd.idx) THEN Answer(-1) ELSE GoOn("tooHigh", [rd EXCEPT !.from = indexer])
    /\ UNCHANGED <<vars, idx_to_seq>>

CheckTooHigh ==
    /\ rd.step = "tooHigh"
    /\ IF rd.idx >= indexer THEN Answer(-2) ELSE GoOn("mapped", rd)
    /\ UNCHANGED <<vars, idx_to_seq>>

LookUpSeq ==
    /\ rd.step = "mapped"
    /\ GoOn("lapped", [rd EXCEPT !.seq = idx_to_seq[rd.idx % IdxMapElemCnt]])
    /\ UNCHANGED <<vars, idx_to_seq>>

\* The next lap is about to reach the entry, and a faulty variant that keeps
\* no distance.  Nothing is asked before the sequencer has passed the ring.
NearlyLappedBare(seq) == sequencer > RgSize /\ seq <= sequencer - RgSize
NearlyLapped(seq) == sequencer > RgSize /\ seq <= sequencer - RgSize + Slack

CheckLapped ==
    /\ rd.step = "lapped"
    /\ IF NearlyLapped(rd.seq) THEN Answer(-1)
                               ELSE GoOn("idx", [rd EXCEPT !.cur_seq = sequencer])
    /\ UNCHANGED <<vars, idx_to_seq>>

\* GetIdx: words that are not metadata hold any index.
CheckIdx ==
    LET w == mem[Offset(rd.seq)] IN
    /\ rd.step = "idx"
    /\ \/ (w.p = 0 => w.e.idx # rd.idx) /\ Answer(0)
       \/ (w.p = 0 => w.e.idx = rd.idx) /\ GoOn("copy", rd)
    /\ UNCHANGED <<vars, idx_to_seq>>

\* Deserializer: the metadata, then the flag, then the data, word by word.
\* With the flag 0 it gives up; with the last word it returns the size.
CopyWord ==
    LET n == Len(rd.words)
        w == mem[Offset(rd.seq) + n]
        r == [rd EXCEPT !.words = Append(@, w)] IN
    /\ rd.step = "copy"
    /\ \/ n = 1 /\ 0 \in FlagsIn(w) /\ Answer(0)
       \/ /\ n = 1 => 1 \in FlagsIn(w)
          /\ \E size \in SizesIn(r.words[1]) :
                IF n + 1 >= size THEN Return(size, r.words) ELSE rd' = r
    /\ UNCHANGED <<vars, idx_to_seq>>

ReadStep == CheckTooLow \/ CheckTooHigh \/ LookUpSeq \/ CheckLapped
            \/ CheckIdx \/ CopyWord

SpecNext == (\E t \in Threads : MapIdx(t)) \/ OtherStep \/ SpecRead \/ ReadStep

SpecReadSpec == SpecInit /\ [][SpecNext]_<<vars, specVars>>

-----------------------------------------------------------------------------
(* Properties *)

\* Since the read compared the sequencer, appends have stayed inside the
\* reserve it keeps, or have not come round to the entry at all; and the
\* mapping of its index is not one of those reused since.
NotOvertaken ==
    /\ \/ rd.cur_seq > RgSize /\ sequencer + MetaDataSize <= rd.cur_seq + Slack
       \/ sequencer + MetaDataSize <= log[rd.idx + 1].seq + RgSize
    /\ indexer <= rd.from + IdxSlack

\* The step that ends a read of an entry whose append was over when the read
\* began (Deserializer loads the size before the flag), and which was not
\* overtaken.
Returns == rd.step # "idle" /\ rd'.step = "idle" /\ rd.written /\ NotOvertaken

\* A positive answer is the entry of the index that was asked for, every word
\* as its append wrote it ("a valid entry is read"), although threads append
\* and the ring wraps while the handler copies it.
SpecReadIsRight ==
    [][Returns /\ rd'.ret > 0 => rd'.words = WordsOf(log[rd.idx + 1])]_rd

\* The log is longer than the map but for the oldest mappings, so that the
\* unsigned limit of TooLow has not wrapped.
LongLog == indexer + IdxSlack >= IdxMapElemCnt

\* Entry i is not among the oldest: neither its mapping nor its place in the
\* ring is one that the next appends may take.
InReach(i) ==
    /\ indexer + IdxSlack < i + IdxMapElemCnt
    /\ sequencer > RgSize => sequencer + Slack < log[i + 1].seq + RgSize

\* An entry that was written before the read began is found: "entry is invalid"
\* is only for one still being written or overtaken, "exceeds the max idx" is
\* never said of it, and "has been GCed" is, once the log is long enough, only
\* said of the oldest entries, although mappings and places are reused
\* meanwhile.
SpecReadFinds ==
    [][Returns => \/ rd'.ret > 0
                  \/ rd'.ret = -1 /\ ~(LongLog /\ InReach(rd.idx))]_rd

\* Answer -1 is for an index "smaller than the minimum unordered idx (entry has
\* been GCed)" (lazylog_cli.h), and an unordered entry is read ("> 0",
\* TestSpecRead of flat_log_test.cc).  Young logs violate it.
UnorderedIsRead == [][Returns /\ rd.idx >= ordered_idx_watermk => rd'.ret > 0]_rd

=============================================================================
