-------------------------- MODULE DurLogFlatProofs --------------------------
(***************************************************************************)
(* Proofs about DurLogFlat, and about SpecRead on top of it, for every     *)
(* number of threads, every set of entry sizes and every ring that keeps   *)
(* the reserve waitForPlace asks for.  The first part shows that the ring  *)
(* is never overrun (IInv).  The second follows the words of every entry   *)
(* through the ring into the consensus log (RingInv), and the third into   *)
(* the answer of a speculative read (SpecReadInv), as long as no entry is  *)
(* cut by the end of the ring, and no metadata by the end of a cache line. *)
(***************************************************************************)
EXTENDS SpecRead, StripeTheorems, FiniteSetTheorems, SequenceTheorems, TLAPS

-----------------------------------------------------------------------------
(* The inductive invariant *)

\* The locals of AppendEntry: from its start on, the size is one a client
\* sends; inside the critical section the entry's place is the sequencer.
ThreadInv ==
    \A t \in Threads :
        /\ pc[t] # "idle" => req[t].size \in Sizes
        /\ pc[t] = "claimed" => idx_lk = {t} /\ req[t].seq = sequencer
        /\ pc[t] \in {"readWatermark", "lock", "claimed"} => cur[t] <= sequencer
        /\ pc[t] \in {"lock", "claimed"} =>
              cur[t] < ordered_watermk + (RgSize - Slack)

\* The fetch under way starts where the last one ended and stays below the
\* sequencer.
FetchInv ==
    /\ fetch_begin <= sequencer
    /\ cl.phase = "idle" => es = <<>>
    /\ cl.phase # "idle" => cl.begin = fetch_begin /\ cl.end <= sequencer
    /\ cl.phase = "read" => /\ cl.begin + Len(cl.words) < cl.end
                            /\ cl.offset = 0
                            /\ es = <<>>
    /\ cl.phase = "parse" => /\ cl.begin + Len(cl.words) = cl.end
                             /\ cl.offset <= Len(cl.words)

\* The batches to delete end one after the other between the watermark and
\* the next fetch.
QueueInv ==
    /\ ordered_watermk <= fetch_begin
    /\ \A i \in 1..Len(batches) :
          /\ ordered_watermk <= batches[i].seq
          /\ batches[i].seq <= fetch_begin
          /\ \A j \in i..Len(batches) : batches[i].seq <= batches[j].seq

\* The threads that read the sequencer when it was at most x, and have not
\* yet advanced it.
Exposed(x) ==
    {t \in Threads : /\ pc[t] \in {"readWatermark", "lock", "claimed"}
                     /\ cur[t] <= x}

\* Every word past a limit x that waitForPlace would refuse is paid for by a
\* thread that read the sequencer before it passed x, and each such thread
\* pays for one entry.
RoomInv ==
    \A x \in Int :
        x >= ordered_watermk + (RgSize - Slack) /\ x <= sequencer =>
            (sequencer - x) + MaxSize * Cardinality(Exposed(x))
                <= MaxSize * Cardinality(Threads)

IInv == TypeOK /\ ThreadInv /\ FetchInv /\ QueueInv /\ RoomInv

-----------------------------------------------------------------------------
(* Facts about words, offsets and finite sets of threads *)

USE SizesAssumption, RingAssumption DEF MetaDataSize

\* The size of an entry covers its metadata and has a bound.
LEMMA SizeBounds ==
    ASSUME NEW n \in Sizes
    PROVE  n \in Nat /\ 2 <= n /\ n <= MaxSize
OBVIOUS

\* Appending a member of a set to a sequence over it.
LEMMA AppendTyped ==
    ASSUME NEW S, NEW s \in Seq(S), NEW x \in S
    PROVE  /\ Append(s, x) \in Seq(S)
           /\ Len(Append(s, x)) = Len(s) + 1
           /\ \A i \in 1..Len(s) : Append(s, x)[i] = s[i]
           /\ Append(s, x)[Len(s) + 1] = x
OBVIOUS

\* Offset maps every sequence number into the ring.
LEMMA OffsetInRing ==
    ASSUME NEW s \in Nat
    PROVE  Offset(s) \in Nat /\ Offset(s) < RgSize
BY DEF Offset

\* What AppendEntry stores are words: the flag and the parts of an entry.
LEMMA StoredWords ==
    /\ RawWord \in Word
    /\ \A f \in {0, 1} : FlagWord(f) \in Word
    /\ \A e \in Entry, p \in Int : e.size \in Sizes => EntryWord(e, p) \in Word
<1>1. NoEntry \in Entry
  BY DEF NoEntry, Entry
<1>2. RawWord \in Word
  BY <1>1 DEF RawWord, Word
<1>3. \A f \in {0, 1} : FlagWord(f) \in Word
  BY <1>1 DEF FlagWord, Word
<1>4. ASSUME NEW e \in Entry, NEW p \in Int, e.size \in Sizes
      PROVE  EntryWord(e, p) \in Word
  BY <1>3, <1>4 DEF EntryWord, Word
<1> QED
  BY <1>2, <1>3, <1>4

\* A word read as metadata yields the size of an entry.
LEMMA SizesInWord ==
    ASSUME NEW w \in Word
    PROVE  SizesIn(w) \subseteq Sizes
BY DEF SizesIn, Word

\* The exposed threads are finitely many, and no more than all threads.
LEMMA ExposedCard ==
    ASSUME NEW S \in SUBSET Threads
    PROVE  /\ IsFiniteSet(S)
           /\ Cardinality(S) \in Nat
           /\ Cardinality(Threads) \in Nat
           /\ Cardinality(S) <= Cardinality(Threads)
BY ThreadsAssumption, FS_Subset, FS_CardinalityType

\* One thread less leaves room for one entry more.
LEMMA OneEntryLess ==
    ASSUME NEW k \in Nat, NEW m \in Nat, k + 1 <= m
    PROVE  MaxSize * k + MaxSize <= MaxSize * m
<1>1. MaxSize * k + MaxSize = MaxSize * (k + 1)
  OBVIOUS
<1>2. \A c \in Nat, p \in Nat, q \in Nat : p <= q => c * p <= c * q
  OBVIOUS
<1> QED
  BY <1>1, <1>2

\* A stretch of memory inside the ring, read as a sequence, holds words.
LEMMA LineOfWords ==
    ASSUME NEW m \in [Address -> Word], NEW o \in Nat, NEW n \in Nat,
           o + n <= RgSize
    PROVE  /\ [k \in 1..n |-> m[o + k - 1]] \in Seq(Word)
           /\ Len([k \in 1..n |-> m[o + k - 1]]) = n
<1>1. \A k \in 1..n : o + k - 1 \in Address
  BY DEF Address
<1>2. \A k \in 1..n : m[o + k - 1] \in Word
  BY <1>1
<1> DEFINE W == Word
<1>3. \A k \in 1..n : m[o + k - 1] \in W
  BY <1>2
<1> HIDE DEF W
<1> QED
  BY <1>3 DEF W

\* A stretch of a sequence, and its elements.
LEMMA StretchOf ==
    ASSUME NEW W, NEW s \in Seq(W), NEW o \in Nat, NEW n \in Nat, 1 <= n, o + n <= Len(s)
    PROVE  /\ Len(SubSeq(s, o + 1, o + n)) = n
           /\ SubSeq(s, o + 1, o + n) \in Seq(W)
           /\ SubSeq(s, o + 1, o + n) = [k \in 1..n |-> s[o + k]]
<1>1. PICK a \in Nat : a = o + 1
  OBVIOUS
<1>2. PICK b \in Nat : b = o + n
  OBVIOUS
<1>3. \A i \in a..b : s[i] \in W
  BY <1>1, <1>2
<1>4. /\ SubSeq(s, a, b) \in Seq(W)
      /\ Len(SubSeq(s, a, b)) = IF a <= b THEN b - a + 1 ELSE 0
      /\ \A i \in 1..(b - a + 1) : SubSeq(s, a, b)[i] = s[a + i - 1]
  BY <1>3, SubSeqProperties
<1>5. a <= b /\ b - a + 1 = n /\ \A i \in 1..n : a + i - 1 = o + i
  BY <1>1, <1>2
<1>6. \A k \in 1..n : SubSeq(s, a, b)[k] = s[o + k]
  BY <1>4, <1>5
<1>7. Len(SubSeq(s, a, b)) = n
  BY <1>4, <1>5
<1>8. SubSeq(s, a, b) = [k \in 1..n |-> SubSeq(s, a, b)[k]]
  <2>1. PICK u \in Seq(W) : u = SubSeq(s, a, b)
    BY <1>4
  <2>2. Len(u) = n
    BY <1>7, <2>1
  <2>3. u = [k \in 1..n |-> u[k]]
    BY <2>2
  <2> QED
    BY <2>1, <2>3, Zenon
<1>9. SubSeq(s, a, b) = [k \in 1..n |-> s[o + k]]
  BY <1>6, <1>8, Zenon
<1> QED
  BY <1>1, <1>2, <1>4, <1>7, <1>9, Zenon

\* A non-empty stretch of a sequence is a non-empty sequence.
LEMMA SubSeqNonEmpty ==
    ASSUME NEW W, NEW s \in Seq(W), NEW i \in Nat, NEW n \in Nat,
           1 <= n, i + n <= Len(s)
    PROVE  SubSeq(s, i + 1, i + n) \in Seq(W) \ {<<>>}
<1>1. /\ SubSeq(s, i + 1, i + n) \in Seq(W)
      /\ Len(SubSeq(s, i + 1, i + n)) = n
  BY StretchOf
<1> QED
  BY <1>1

-----------------------------------------------------------------------------
(* Type correctness, step by step *)

\* The steps of an append keep every variable in its type.
LEMMA ThreadType ==
    ASSUME TypeOK, ThreadInv, NEW t \in Threads,
           AppendEntry(t) \/ ThreadStep(t)
    PROVE  TypeOK'
<1> USE DEF TypeOK, Goto, ringVars, threadVars, clVars
<1>1. CASE AppendEntry(t)
  <2>1. PICK n \in Sizes :
          req' = [req EXCEPT ![t] = [seq |-> 0, size |-> n, idx |-> 0]]
    BY <1>1 DEF AppendEntry
  <2>2. [seq |-> 0, size |-> n, idx |-> 0] \in Entry
    BY DEF Entry
  <2>3. req' \in [Threads -> Entry] /\ pc' \in [Threads -> Phases]
    BY <1>1, <2>1, <2>2 DEF AppendEntry, Phases
  <2> QED
    BY <1>1, <2>3 DEF AppendEntry
<1>2. CASE ReadSequencer(t)
  BY <1>2 DEF ReadSequencer, Phases
<1>3. CASE ReadWatermark(t)
  BY <1>3 DEF ReadWatermark, Phases
<1>4. CASE Claim(t)
  <2>1. mem' \in [Address -> Word]
    BY <1>4, StoredWords DEF Claim
  <2>2. req' \in [Threads -> Entry]
    BY <1>4 DEF Claim, Entry
  <2>3. pc' \in [Threads -> Phases] /\ idx_lk' \in SUBSET Threads
    BY <1>4 DEF Claim, Phases
  <2> QED
    BY <1>4, <2>1, <2>2, <2>3 DEF Claim
<1>5. CASE Publish(t)
  <2>1. req[t] \in Entry /\ req[t].size \in Nat
    BY DEF Entry
  <2>2. log' \in Seq(Entry)
    BY <1>5, <2>1 DEF Publish
  <2>3. sequencer' \in Nat /\ indexer' \in Nat
    BY <1>5, <2>1 DEF Publish
  <2>4. pc' \in [Threads -> Phases] /\ idx_lk' \in SUBSET Threads
    BY <1>5 DEF Publish, Phases
  <2> QED
    BY <1>5, <2>2, <2>3, <2>4 DEF Publish
<1>6. CASE Serialize(t)
  <2> DEFINE o == Offset(req[t].seq)
  <2>1. req[t] \in Entry /\ req[t].size \in Sizes /\ o \in Nat
    BY <1>6, OffsetInRing DEF Serialize, ThreadInv, Entry
  <2>2. \A a \in Address : a - o \in Int
    BY <2>1 DEF Address
  <2>3. mem' \in [Address -> Word]
    BY <1>6, <2>1, <2>2, StoredWords DEF Serialize
  <2>4. pc' \in [Threads -> Phases]
    BY <1>6 DEF Serialize, Phases
  <2> QED
    BY <1>6, <2>3, <2>4 DEF Serialize
<1>7. CASE SetFlag(t)
  <2>1. mem' \in [Address -> Word]
    BY <1>7, StoredWords DEF SetFlag
  <2>2. pc' \in [Threads -> Phases]
    BY <1>7 DEF SetFlag, Phases
  <2> QED
    BY <1>7, <2>1, <2>2 DEF SetFlag
<1>8. CASE CopyTail(t)
  <2> DEFINE o == Offset(req[t].seq)
  <2> DEFINE over == o + req[t].size - RgSize
  <2>1. req[t].size \in Sizes /\ o \in Nat /\ o < RgSize
    BY <1>8, OffsetInRing DEF CopyTail, ThreadInv, Entry
  <2>2. over \in Int /\ over <= MaxSize
    <3>1. req[t].size \in Nat /\ req[t].size <= MaxSize
      BY <2>1, SizeBounds
    <3> HIDE DEF o
    <3> QED
      BY <2>1, <3>1, SMTT(30)
  <2> HIDE DEF over
  <2>3. \A a \in Address : a < over => a + RgSize \in Address
    BY <2>2 DEF Address
  <2>4. mem' = [a \in Address |-> IF a < over THEN mem[a + RgSize] ELSE mem[a]]
    BY <1>8 DEF CopyTail, over
  <2>5. mem' \in [Address -> Word]
    BY <2>3, <2>4
  <2>6. pc' \in [Threads -> Phases]
    BY <1>8 DEF CopyTail, Phases
  <2> QED
    BY <1>8, <2>5, <2>6 DEF CopyTail
<1> QED
  BY <1>1, <1>2, <1>3, <1>4, <1>5, <1>6, <1>7, <1>8 DEF ThreadStep, FinishWrite

\* The fields of the fetch under way, each with its type.
LEMMA FetchFields ==
    ASSUME TypeOK
    PROVE  /\ cl.phase \in {"idle", "read", "parse"}
           /\ cl.begin \in Nat /\ cl.end \in Nat /\ cl.offset \in Nat
           /\ cl.words \in Seq(Word) /\ Len(cl.words) \in Nat
           /\ fetch_begin \in Nat /\ sequencer \in Nat /\ ordered_watermk \in Nat
BY DEF TypeOK

\* A line that RDMA reads lies inside the ring, is not empty, and does not go
\* past the end of the range.
LEMMA LineInRing ==
    ASSUME TypeOK, FetchInv, cl.phase = "read"
    PROVE  /\ ReadAt \in Nat /\ Offset(ReadAt) \in Nat
           /\ LineLen \in Nat /\ LineLen >= 1
           /\ Offset(ReadAt) + LineLen <= RgSize
           /\ ReadAt + LineLen <= cl.end
<1>1. ReadAt \in Nat /\ cl.end \in Nat /\ ReadAt < cl.end
  BY FetchFields DEF ReadAt, FetchInv
<1>2. Offset(ReadAt) \in Nat /\ Offset(ReadAt) < RgSize
  BY <1>1, OffsetInRing
<1>3. Offset(ReadAt) % LineSize \in 0..(LineSize - 1)
  BY <1>2
<1> QED
  BY <1>1, <1>2, <1>3 DEF LineLen, MinOf

\* A line read is a sequence of words.
LEMMA ReadLineWords ==
    ASSUME TypeOK, FetchInv, ReadLine
    PROVE  /\ cl'.words \in Seq(Word)
           /\ Len(cl'.words) = Len(cl.words) + LineLen
           /\ cl' = [cl EXCEPT !.words = cl'.words, !.phase = cl'.phase]
           /\ cl'.begin = cl.begin /\ cl'.end = cl.end /\ cl'.offset = cl.offset
           /\ cl'.phase = IF ReadAt + LineLen = cl.end THEN "parse" ELSE "read"
<1> DEFINE line == [k \in 1..LineLen |-> mem[Offset(ReadAt) + k - 1]]
<1>1. cl.phase = "read" /\ mem \in [Address -> Word]
  BY DEF ReadLine, TypeOK
<1>2. line \in Seq(Word) /\ Len(line) = LineLen
  BY <1>1, LineInRing, LineOfWords
<1>3. cl' = [cl EXCEPT !.words = cl.words \o line,
                       !.phase = IF ReadAt + LineLen = cl.end THEN "parse" ELSE "read"]
  BY DEF ReadLine
<1> HIDE DEF line
<1>4. /\ cl.words \o line \in Seq(Word)
      /\ Len(cl.words \o line) = Len(cl.words) + LineLen
  BY <1>2, FetchFields, ConcatProperties
<1>5. /\ cl'.words = cl.words \o line
      /\ cl'.phase = IF ReadAt + LineLen = cl.end THEN "parse" ELSE "read"
      /\ cl' = [cl EXCEPT !.words = cl'.words, !.phase = cl'.phase]
      /\ cl'.begin = cl.begin /\ cl'.end = cl.end /\ cl'.offset = cl.offset
  BY <1>3 DEF TypeOK
<1> QED
  BY <1>4, <1>5

\* An entry deserialised is a non-empty sequence of words inside the range.
LEMMA DeserializeWords ==
    ASSUME TypeOK, FetchInv, DeserializeOne
    PROVE  \E n \in Nat :
              /\ n >= 2
              /\ cl.offset + n <= Len(cl.words)
              /\ es' = Append(es, SubSeq(cl.words, cl.offset + 1, cl.offset + n))
              /\ SubSeq(cl.words, cl.offset + 1, cl.offset + n) \in Seq(Word) \ {<<>>}
              /\ cl' = [cl EXCEPT !.offset = cl.offset + n]
<1> DEFINE w == cl.words[cl.offset + 1]
<1>1. cl.phase = "parse" /\ Rest >= 2
  BY DEF DeserializeOne
<1>2. Rest = Len(cl.words) - cl.offset
  BY <1>1, FetchFields DEF FetchInv, Rest
<1>3. cl.offset + 1 \in 1..Len(cl.words)
  BY <1>1, <1>2, FetchFields
<1>4. w \in Word
  BY <1>3, FetchFields, ElementOfSeq
<1>5. PICK n \in SizesIn(w) :
        /\ n <= Rest
        /\ es' = Append(es, SubSeq(cl.words, cl.offset + 1, cl.offset + n))
        /\ cl' = [cl EXCEPT !.offset = cl.offset + n]
  BY DEF DeserializeOne
<1>6. n \in Nat /\ n >= 2
  <2>1. SizesIn(w) \subseteq Sizes
    BY <1>4, SizesInWord
  <2> QED
    BY <1>5, <2>1, SizeBounds
<1>7. cl.offset + n <= Len(cl.words)
  <2>1. n <= Len(cl.words) - cl.offset
    BY <1>2, <1>5
  <2>2. cl.offset \in Nat /\ Len(cl.words) \in Nat
    BY FetchFields
  <2> HIDE DEF w
  <2> QED
    BY <1>6, <2>1, <2>2
<1>8. SubSeq(cl.words, cl.offset + 1, cl.offset + n) \in Seq(Word) \ {<<>>}
  <2>1. /\ cl.words \in Seq(Word) /\ cl.offset \in Nat
        /\ 1 <= n /\ cl.offset + n <= Len(cl.words)
    BY <1>6, <1>7, FetchFields
  <2> QED
    BY <1>6, <2>1, SubSeqNonEmpty
<1> QED
  BY <1>5, <1>6, <1>7, <1>8

\* ProcessFetchedEntries names the end of the batch and the next index.
LEMMA BatchEndType ==
    ASSUME TypeOK, es # <<>>
    PROVE  /\ BatchEnd \in [seq : Nat, idx : Nat]
           /\ BatchEnd.seq = cl.begin + cl.offset
<1>1. es \in Seq(Seq(Word) \ {<<>>}) /\ Len(es) \in 1..Len(es)
  BY DEF TypeOK
<1>2. es[Len(es)] \in Seq(Word) \ {<<>>}
  BY <1>1, ElementOfSeq
<1>3. 1 \in 1..Len(es[Len(es)])
  BY <1>2
<1>4. es[Len(es)][1] \in Word
  BY <1>2, <1>3, ElementOfSeq
<1>5. es[Len(es)][1].e.idx \in Nat
  BY <1>4 DEF Word, Entry
<1> QED
  BY <1>5, FetchFields, SMTT(30) DEF BatchEnd

\* The steps of the consensus log keep every variable in its type.
LEMMA FetchType ==
    ASSUME TypeOK, FetchInv, FetchStep \/ DeleteOrderedEntries
    PROVE  TypeOK'
<1>1. CASE FetchRange
  <2> DEFINE begin == MaxOf(ordered_watermk, fetch_begin)
  <2> DEFINE end == IF MaxFetch > 0 THEN MinOf(sequencer, begin + MaxFetch)
                                    ELSE sequencer
  <2>1. begin \in Nat /\ end \in Nat
    BY FetchFields DEF MaxOf, MinOf
  <2>2. cl' = [phase |-> "read", begin |-> begin, end |-> end,
               words |-> <<>>, offset |-> 0]
    BY <1>1 DEF FetchRange
  <2> HIDE DEF begin, end
  <2> QED
    BY <1>1, <2>1, <2>2, SMTT(30) DEF FetchRange, TypeOK, ringVars, threadVars
<1>2. CASE ReadLine
  <2>1. cl'.offset <= Len(cl'.words)
    BY <1>2, ReadLineWords, FetchFields, LineInRing, SMTT(30) DEF FetchInv, ReadLine
  <2>2. cl' \in [phase : {"idle", "read", "parse"}, begin : Nat, end : Nat,
                 words : Seq(Word), offset : Nat]
    BY <1>2, ReadLineWords DEF TypeOK
  <2> QED
    BY <1>2, <2>1, <2>2 DEF ReadLine, TypeOK, ringVars, threadVars
<1>3. CASE DeserializeOne
  <2>1. PICK n \in Nat :
          /\ n >= 2
          /\ cl.offset + n <= Len(cl.words)
          /\ es' = Append(es, SubSeq(cl.words, cl.offset + 1, cl.offset + n))
          /\ SubSeq(cl.words, cl.offset + 1, cl.offset + n) \in Seq(Word) \ {<<>>}
          /\ cl' = [cl EXCEPT !.offset = cl.offset + n]
    BY <1>3, DeserializeWords
  <2>2. es' \in Seq(Seq(Word) \ {<<>>})
    <3> DEFINE D == Seq(Word) \ {<<>>}
    <3>1. es \in Seq(D) /\ SubSeq(cl.words, cl.offset + 1, cl.offset + n) \in D
      BY <2>1 DEF TypeOK
    <3> HIDE DEF D
    <3>2. es' \in Seq(D)
      BY <2>1, <3>1, AppendTyped
    <3> QED
      BY <3>2 DEF D
  <2>3. cl' \in [phase : {"idle", "read", "parse"}, begin : Nat, end : Nat,
                 words : Seq(Word), offset : Nat]
    <3>1. cl \in [phase : {"idle", "read", "parse"}, begin : Nat, end : Nat,
                  words : Seq(Word), offset : Nat]
      BY DEF TypeOK
    <3>2. cl.offset + n \in Nat
      BY FetchFields
    <3>3. cl' = [cl EXCEPT !.offset = cl.offset + n]
      BY <2>1
    <3> QED
      BY <3>1, <3>2, <3>3
  <2>4. cl'.words = cl.words /\ cl'.offset <= Len(cl'.words)
    BY <2>1, FetchFields DEF TypeOK
  <2> QED
    BY <1>3, <2>2, <2>3, <2>4 DEF DeserializeOne, TypeOK, ringVars, threadVars
<1>4. CASE FetchReturn
  <2>1. NoFetch \in [phase : {"idle", "read", "parse"}, begin : Nat, end : Nat,
                     words : Seq(Word), offset : Nat]
    BY DEF NoFetch
  <2>2. fetched' \in Seq(Seq(Word))
    <3>1. es \in Seq(Seq(Word)) /\ fetched \in Seq(Seq(Word))
      BY SeqMonotonic DEF TypeOK
    <3> QED
      BY <1>4, <3>1, ConcatProperties DEF FetchReturn
  <2>3. fetch_begin' \in Nat
    BY <1>4, FetchFields DEF FetchReturn
  <2>4. batches' \in Seq([seq : Nat, idx : Nat])
    <3>1. batches \in Seq([seq : Nat, idx : Nat])
      BY DEF TypeOK
    <3>2. CASE es = <<>>
      BY <1>4, <3>1, <3>2 DEF FetchReturn
    <3>3. CASE es # <<>>
      <4>1. BatchEnd \in [seq : Nat, idx : Nat] /\ batches' = Append(batches, BatchEnd)
        BY <1>4, <3>3, BatchEndType DEF FetchReturn
      <4> QED
        BY <3>1, <4>1, AppendTyped
    <3> QED
      BY <3>2, <3>3
  <2>5. es' \in Seq(Seq(Word) \ {<<>>})
    BY <1>4, EmptySeq DEF FetchReturn
  <2>6. cl' = NoFetch /\ NoFetch.phase = "idle"
    BY <1>4 DEF FetchReturn, NoFetch
  <2> QED
    BY <1>4, <2>1, <2>2, <2>3, <2>4, <2>5, <2>6
    DEF FetchReturn, TypeOK, ringVars, threadVars
<1>5. CASE DeleteOrderedEntries
  <2>1. Head(batches) \in [seq : Nat, idx : Nat]
        /\ Tail(batches) \in Seq([seq : Nat, idx : Nat])
    BY <1>5, HeadTailProperties DEF DeleteOrderedEntries, TypeOK
  <2>2. ordered_watermk' \in Nat /\ ordered_idx_watermk' \in Nat
    BY <1>5, <2>1 DEF DeleteOrderedEntries
  <2> QED
    BY <1>5, <2>1, <2>2 DEF DeleteOrderedEntries, TypeOK, threadVars
<1> QED
  BY <1>1, <1>2, <1>3, <1>4, <1>5 DEF FetchStep

\* Every batch to delete has a sequence number for its end.
LEMMA BatchSeq ==
    ASSUME TypeOK, NEW i \in 1..Len(batches)
    PROVE  batches[i].seq \in Nat
<1>1. batches[i] \in [seq : Nat, idx : Nat]
  BY ElementOfSeq DEF TypeOK
<1> QED
  BY <1>1

-----------------------------------------------------------------------------
(* The queue of batches: deletions only move the watermark forwards *)

\* Every step keeps the batches sorted between the watermark and fetch_begin,
\* and the watermark only grows.
LEMMA QueueStep ==
    ASSUME IInv, [Next]_vars
    PROVE  /\ QueueInv'
           /\ ordered_watermk <= ordered_watermk'
           /\ ordered_watermk' <= fetch_begin
<1> USE DEF IInv
<1>0. /\ ordered_watermk \in Nat /\ fetch_begin \in Nat
      /\ batches \in Seq([seq : Nat, idx : Nat]) /\ Len(batches) \in Nat
      /\ ordered_watermk <= fetch_begin
  BY DEF TypeOK, QueueInv
<1>1. CASE UNCHANGED <<ordered_watermk, fetch_begin, batches>>
  BY <1>0, <1>1 DEF QueueInv
<1>2. CASE FetchReturn
  <2>1. CASE es = <<>>
    BY <1>0, <1>2, <2>1 DEF FetchReturn, ringVars, QueueInv
  <2>2. CASE es # <<>>
    <3>1. /\ fetch_begin' = fetch_begin + cl.offset
          /\ batches' = Append(batches, BatchEnd)
          /\ ordered_watermk' = ordered_watermk
          /\ cl.phase = "parse"
      BY <1>2, <2>2 DEF FetchReturn, ringVars
    <3>2. /\ BatchEnd \in [seq : Nat, idx : Nat]
          /\ BatchEnd.seq = fetch_begin' /\ cl.offset \in Nat
      BY <2>2, <3>1, BatchEndType, FetchFields DEF FetchInv
    <3> DEFINE b == BatchEnd
    <3>3. b \in [seq : Nat, idx : Nat] /\ b.seq = fetch_begin' /\ batches' = Append(batches, b)
      BY <3>1, <3>2
    <3> HIDE DEF b
    <3>4. /\ Len(batches') = Len(batches) + 1
          /\ \A i \in 1..Len(batches) : batches'[i] = batches[i]
          /\ batches'[Len(batches) + 1] = b
      BY <1>0, <3>3, AppendTyped
    <3>5. \A i \in 1..Len(batches) : batches[i].seq \in Nat
      BY BatchSeq
    <3>6. /\ fetch_begin' \in Nat /\ fetch_begin <= fetch_begin'
          /\ ordered_watermk' = ordered_watermk
      BY <1>0, <3>1, <3>2
    <3>7. ASSUME NEW i \in 1..Len(batches')
          PROVE  /\ ordered_watermk <= batches'[i].seq
                 /\ batches'[i].seq <= fetch_begin'
                 /\ \A j \in i..Len(batches') : batches'[i].seq <= batches'[j].seq
      <4>1. CASE i = Len(batches) + 1
        BY <1>0, <3>3, <3>4, <3>6, <4>1
      <4>2. CASE i \in 1..Len(batches)
        <5>1. /\ batches'[i] = batches[i] /\ batches[i].seq \in Nat
              /\ ordered_watermk <= batches[i].seq
              /\ batches[i].seq <= fetch_begin
              /\ \A j \in i..Len(batches) : batches[i].seq <= batches[j].seq
          BY <3>4, <3>5, <4>2 DEF QueueInv
        <5>2. ASSUME NEW j \in i..Len(batches')
              PROVE  batches'[i].seq <= batches'[j].seq
          <6>1. CASE j = Len(batches) + 1
            BY <1>0, <3>3, <3>4, <3>6, <5>1, <6>1
          <6>2. CASE j \in i..Len(batches)
            <7>1. j \in 1..Len(batches)
              BY <1>0, <4>2, <6>2
            <7> QED
              BY <3>4, <5>1, <6>2, <7>1
          <6> QED
            BY <1>0, <3>4, <4>2, <6>1, <6>2
        <5> QED
          BY <1>0, <3>6, <5>1, <5>2
      <4> QED
        BY <1>0, <3>4, <4>1, <4>2
    <3> QED
      BY <1>0, <3>6, <3>7, SMTT(30) DEF QueueInv
  <2> QED
    BY <2>1, <2>2
<1>3. CASE DeleteOrderedEntries
  <2>1. /\ batches # <<>> /\ batches' = Tail(batches)
        /\ ordered_watermk' = Head(batches).seq /\ fetch_begin' = fetch_begin
    BY <1>3 DEF DeleteOrderedEntries
  <2>2. /\ Len(batches) >= 1 /\ Head(batches) = batches[1]
        /\ Len(batches') = Len(batches) - 1
        /\ \A i \in 1..Len(batches') : batches'[i] = batches[i + 1]
    BY <1>0, <2>1, HeadTailProperties
  <2>3. \A i \in 1..Len(batches) : batches[i].seq \in Nat
    BY BatchSeq
  <2> QED
    BY <1>0, <2>1, <2>2, <2>3 DEF QueueInv
<1>4. ASSUME NEW t \in Threads, AppendEntry(t) \/ ThreadStep(t)
      PROVE  UNCHANGED <<ordered_watermk, fetch_begin, batches>>
  BY <1>4 DEF ThreadStep, FinishWrite, AppendEntry, ReadSequencer, ReadWatermark, Claim, Publish,
     Serialize, SetFlag, CopyTail, ringVars, clVars
<1>5. CASE FetchRange \/ ReadLine \/ DeserializeOne \/ UNCHANGED vars
  <2>1. UNCHANGED <<ordered_watermk, fetch_begin, batches>>
    BY <1>5 DEF FetchRange, ReadLine, DeserializeOne, ringVars, vars, clVars
  <2> QED
    BY <1>1, <2>1
<1> QED
  BY <1>1, <1>2, <1>3, <1>4, <1>5 DEF Next, FetchStep

-----------------------------------------------------------------------------
(* The fetch under way *)

\* Every step keeps the fetch between fetch_begin and the sequencer.
LEMMA FetchInvStep ==
    ASSUME IInv, [Next]_vars
    PROVE  FetchInv'
<1> USE DEF IInv
<1>1. CASE FetchRange
  <2> DEFINE begin == MaxOf(ordered_watermk, fetch_begin)
  <2> DEFINE end == IF MaxFetch > 0 THEN MinOf(sequencer, begin + MaxFetch)
                                    ELSE sequencer
  <2>1. begin = fetch_begin /\ fetch_begin < sequencer
    BY <1>1, FetchFields DEF FetchRange, QueueInv, MaxOf
  <2>2. end \in Nat /\ begin < end /\ end <= sequencer
    BY <2>1, FetchFields DEF MinOf
  <2>3. /\ cl' = [phase |-> "read", begin |-> begin, end |-> end,
                  words |-> <<>>, offset |-> 0]
        /\ UNCHANGED <<fetch_begin, sequencer, es>>
        /\ es = <<>>
    BY <1>1 DEF FetchRange, FetchInv, ringVars
  <2> HIDE DEF begin, end
  <2> QED
    BY <2>1, <2>2, <2>3, FetchFields DEF FetchInv
<1>2. CASE ReadLine
  <2>1. /\ cl.phase = "read" /\ UNCHANGED <<fetch_begin, sequencer, es>>
        /\ es = <<>> /\ cl.offset = 0
    BY <1>2 DEF ReadLine, FetchInv, ringVars
  <2>2. /\ cl'.begin = cl.begin /\ cl'.end = cl.end /\ cl'.offset = cl.offset
        /\ Len(cl'.words) = Len(cl.words) + LineLen
        /\ cl'.phase = IF ReadAt + LineLen = cl.end THEN "parse" ELSE "read"
    BY <1>2, ReadLineWords
  <2> QED
    <3>1. /\ LineLen \in Nat /\ ReadAt = cl.begin + Len(cl.words)
          /\ ReadAt + LineLen <= cl.end
      BY <2>1, LineInRing DEF ReadAt
    <3>2. /\ fetch_begin <= sequencer
          /\ cl.begin = fetch_begin /\ cl.end <= sequencer
      BY <2>1 DEF FetchInv
    <3>3. /\ cl'.phase = "read" => cl'.begin + Len(cl'.words) < cl'.end
          /\ cl'.phase = "parse" => cl'.begin + Len(cl'.words) = cl'.end
          /\ cl'.phase # "idle" /\ cl'.offset <= Len(cl'.words)
      BY <2>1, <2>2, <3>1, FetchFields, SMTT(30)
    <3> QED
      BY <2>1, <2>2, <3>2, <3>3 DEF FetchInv
<1>3. CASE DeserializeOne
  <2>1. PICK n \in Nat :
          /\ cl.offset + n <= Len(cl.words)
          /\ cl' = [cl EXCEPT !.offset = cl.offset + n]
    BY <1>3, DeserializeWords
  <2>2. cl.phase = "parse" /\ UNCHANGED <<fetch_begin, sequencer>>
    BY <1>3 DEF DeserializeOne, ringVars
  <2>3. /\ cl'.phase = cl.phase /\ cl'.begin = cl.begin /\ cl'.end = cl.end
        /\ cl'.words = cl.words /\ cl'.offset = cl.offset + n
    BY <2>1 DEF TypeOK
  <2> QED
    BY <2>1, <2>2, <2>3, FetchFields DEF FetchInv
<1>4. CASE FetchReturn
  <2>1. /\ cl.phase = "parse" /\ cl' = NoFetch /\ es' = <<>>
        /\ sequencer' = sequencer
        /\ fetch_begin' = fetch_begin \/ fetch_begin' = fetch_begin + cl.offset
    BY <1>4 DEF FetchReturn, ringVars
  <2>2. fetch_begin + cl.offset <= sequencer
    BY <2>1, FetchFields DEF FetchInv
  <2>3. cl'.phase = "idle"
    BY <2>1 DEF NoFetch
  <2>4. fetch_begin' <= sequencer'
    BY <2>1, <2>2, FetchFields DEF FetchInv
  <2> QED
    BY <2>1, <2>3, <2>4 DEF FetchInv
<1>5. CASE UNCHANGED <<fetch_begin, cl, es>> /\ sequencer' \in Nat /\ sequencer <= sequencer'
  BY <1>5, FetchFields DEF FetchInv
<1>6. CASE DeleteOrderedEntries \/ UNCHANGED vars
  <2>1. UNCHANGED <<fetch_begin, cl, es, sequencer>>
    BY <1>6 DEF DeleteOrderedEntries, vars, clVars, ringVars
  <2> QED
    BY <1>5, <2>1, FetchFields
<1>7. ASSUME NEW t \in Threads, AppendEntry(t) \/ ThreadStep(t)
      PROVE  UNCHANGED <<fetch_begin, cl, es>> /\ sequencer' \in Nat /\ sequencer <= sequencer'
  <2>1. UNCHANGED <<fetch_begin, cl, es>>
    BY <1>7 DEF ThreadStep, FinishWrite, AppendEntry, ReadSequencer, ReadWatermark, Claim, Publish,
       Serialize, SetFlag, CopyTail, clVars
  <2>2. CASE Publish(t)
    BY <2>1, <2>2, FetchFields, SMTT(30) DEF Publish, TypeOK, Entry
  <2>3. CASE ~Publish(t)
    BY <1>7, <2>1, <2>3, FetchFields DEF ThreadStep, FinishWrite, AppendEntry, ReadSequencer,
       ReadWatermark, Claim, Serialize, SetFlag, CopyTail, ringVars
  <2> QED
    BY <2>2, <2>3
<1> QED
  BY <1>1, <1>2, <1>3, <1>4, <1>5, <1>6, <1>7 DEF Next, FetchStep

-----------------------------------------------------------------------------
(* The append threads *)

\* Every step keeps what each thread knows about its entry: the place it
\* claimed, and the limit its entry passed.
LEMMA ThreadInvStep ==
    ASSUME IInv, [Next]_vars
    PROVE  ThreadInv'
<1> USE DEF IInv
<1>0. /\ ordered_watermk \in Nat /\ ordered_watermk' \in Nat
      /\ ordered_watermk <= ordered_watermk'
      /\ sequencer \in Nat /\ cur \in [Threads -> Nat]
      /\ req \in [Threads -> Entry] /\ pc \in [Threads -> Phases]
  <2>1. ordered_watermk' \in Nat
    BY ThreadType, FetchType DEF Next, TypeOK, vars, ringVars
  <2> QED
    BY <2>1, QueueStep DEF TypeOK
<1>1. CASE UNCHANGED <<pc, req, cur, idx_lk, sequencer>>
  BY <1>0, <1>1 DEF ThreadInv
<1>2. ASSUME NEW t \in Threads, AppendEntry(t) \/ ThreadStep(t)
      PROVE  ThreadInv'
  <2> SUFFICES ASSUME NEW u \in Threads
               PROVE  /\ pc'[u] # "idle" => req'[u].size \in Sizes
                      /\ pc'[u] = "claimed" => idx_lk' = {u} /\ req'[u].seq = sequencer'
                      /\ pc'[u] \in {"readWatermark", "lock", "claimed"} =>
                            cur'[u] <= sequencer'
                      /\ pc'[u] \in {"lock", "claimed"} =>
                            cur'[u] < ordered_watermk' + (RgSize - Slack)
    BY DEF ThreadInv
  <2>0. /\ cur[u] \in Nat /\ req[u].size \in Nat /\ cur[t] \in Nat /\ req[t].size \in Nat
    BY <1>0 DEF Entry
  <2> USE DEF Goto, ringVars, ThreadInv
  <2>1. CASE AppendEntry(t)
    BY <1>0, <2>0, <2>1 DEF AppendEntry
  <2>2. CASE ReadSequencer(t)
    BY <1>0, <2>0, <2>2 DEF ReadSequencer
  <2>3. CASE ReadWatermark(t)
    BY <1>0, <2>0, <2>3, SizeBounds DEF ReadWatermark, HasPlace
  <2>4. CASE Claim(t)
    BY <1>0, <2>0, <2>4 DEF Claim
  <2>5. CASE Publish(t)
    <3>1. /\ pc[t] = "claimed" /\ pc' = [pc EXCEPT ![t] = "serialize"]
          /\ sequencer' = sequencer + req[t].size
          /\ UNCHANGED <<req, cur, ordered_watermk>>
      BY <2>5 DEF Publish
    <3>2. sequencer' >= sequencer /\ sequencer' \in Nat
      BY <1>0, <2>0, <3>1
    <3>3. pc'[u] # "claimed"
      <4>1. CASE u = t
        BY <1>0, <3>1, <4>1
      <4>2. CASE u # t
        BY <1>0, <3>1, <4>2
      <4> QED
        BY <4>1, <4>2
    <3>4. CASE u = t
      BY <1>0, <3>1, <3>4
    <3>5. CASE u # t
      <4>1. pc'[u] = pc[u] /\ cur'[u] = cur[u] /\ req'[u] = req[u]
        BY <1>0, <3>1, <3>5
      <4> QED
        BY <1>0, <2>0, <3>1, <3>2, <3>3, <4>1
    <3> QED
      BY <3>4, <3>5
  <2>6. CASE Serialize(t) \/ SetFlag(t) \/ CopyTail(t)
    BY <1>0, <2>0, <2>6 DEF Serialize, SetFlag, CopyTail
  <2> QED
    BY <1>2, <2>1, <2>2, <2>3, <2>4, <2>5, <2>6 DEF ThreadStep, FinishWrite
<1>3. CASE FetchStep \/ DeleteOrderedEntries \/ UNCHANGED vars
  <2>1. UNCHANGED <<pc, req, cur, idx_lk, sequencer>>
    BY <1>3 DEF FetchStep, FetchRange, ReadLine, DeserializeOne, FetchReturn,
       DeleteOrderedEntries, vars, ringVars, threadVars
  <2> QED
    BY <1>1, <2>1
<1> QED
  BY <1>2, <1>3 DEF Next

-----------------------------------------------------------------------------
(* The room left by waitForPlace *)

\* The step exposes a new thread only to the sequencer's present value.
ExposesOnlyAtEnd ==
    \A x \in Int :
        x <= sequencer /\ x >= ordered_watermk + (RgSize - Slack) =>
            Exposed(x)' \subseteq Exposed(x) \/ x = sequencer

\* A step that publishes nothing leaves the room there was.
LEMMA RoomShrinks ==
    ASSUME IInv, ordered_watermk' \in Nat, ordered_watermk <= ordered_watermk',
           sequencer' = sequencer, ExposesOnlyAtEnd
    PROVE  RoomInv'
<1> SUFFICES ASSUME NEW x \in Int,
                    x >= ordered_watermk' + (RgSize - Slack), x <= sequencer'
             PROVE  (sequencer' - x) + MaxSize * Cardinality(Exposed(x)')
                       <= MaxSize * Cardinality(Threads)
  BY DEF RoomInv
<1>0. /\ sequencer \in Nat /\ ordered_watermk \in Nat
      /\ sequencer' = sequencer /\ x <= sequencer
      /\ x >= ordered_watermk + (RgSize - Slack)
  <2>1. sequencer \in Nat /\ ordered_watermk \in Nat
    BY DEF IInv, TypeOK
  <2>2. \A a \in Nat, b \in Nat :
          a <= b /\ x >= b + (RgSize - Slack) => x >= a + (RgSize - Slack)
    OBVIOUS
  <2> QED
    BY <2>1, <2>2
<1>1. Exposed(x)' \in SUBSET Threads /\ Exposed(x) \in SUBSET Threads
  BY DEF Exposed
<1> DEFINE k == Cardinality(Exposed(x)')
           m == Cardinality(Exposed(x))
           n == Cardinality(Threads)
<1>2. k \in Nat /\ m \in Nat /\ n \in Nat /\ k <= n
  BY <1>1, ExposedCard
<1>4. CASE x = sequencer
  <2> HIDE DEF k, n
  <2>1. MaxSize * k <= MaxSize * n
    BY <1>2
  <2>2. sequencer' - x = 0 /\ MaxSize * k \in Int
    BY <1>0, <1>2, <1>4
  <2>3. (sequencer' - x) + MaxSize * k <= MaxSize * n
    BY <2>1, <2>2
  <2> QED
    BY <2>3 DEF k, n
<1>5. CASE Exposed(x)' \subseteq Exposed(x)
  <2>1. k <= m
    BY <1>1, <1>5, ExposedCard, FS_Subset
  <2>2. (sequencer - x) + MaxSize * m <= MaxSize * n
    BY <1>0 DEF IInv, RoomInv
  <2> HIDE DEF k, m, n
  <2>3. MaxSize * k <= MaxSize * m
    BY <1>2, <2>1
  <2>4. MaxSize * k \in Int /\ MaxSize * m \in Int /\ MaxSize * n \in Int
    BY <1>2
  <2>5. (sequencer - x) + MaxSize * k <= MaxSize * n
    BY <1>0, <2>2, <2>3, <2>4
  <2> QED
    BY <2>5 DEF k, n
<1> QED
  BY <1>0, <1>4, <1>5 DEF ExposesOnlyAtEnd

\* Publishing spends the entry of one exposed thread.
LEMMA RoomPublish ==
    ASSUME IInv, NEW t \in Threads, Publish(t)
    PROVE  RoomInv'
<1> SUFFICES ASSUME NEW x \in Int,
                    x >= ordered_watermk' + (RgSize - Slack), x <= sequencer'
             PROVE  (sequencer' - x) + MaxSize * Cardinality(Exposed(x)')
                       <= MaxSize * Cardinality(Threads)
  BY DEF RoomInv
<1> DEFINE E == Exposed(x)
           F == Exposed(x)'
           k == Cardinality(F)
           n == Cardinality(Threads)
<1>1. /\ pc[t] = "claimed" /\ pc' = [pc EXCEPT ![t] = "serialize"]
      /\ sequencer' = sequencer + req[t].size
      /\ ordered_watermk' = ordered_watermk /\ cur' = cur
  BY DEF Publish, Goto
<1>2. /\ sequencer \in Nat /\ ordered_watermk \in Nat
      /\ pc \in [Threads -> Phases] /\ cur \in [Threads -> Nat]
  BY DEF IInv, TypeOK
<1>3. req[t].size \in Nat /\ req[t].size <= MaxSize
  BY <1>1, SizeBounds DEF IInv, ThreadInv
<1>4. t \notin F /\ F \subseteq E /\ F \subseteq Threads \ {t}
  BY <1>1, <1>2 DEF Exposed
<1>5. cur[t] <= x /\ t \in E
  BY <1>1, <1>2 DEF IInv, ThreadInv, Exposed
<1>6. E \in SUBSET Threads
  BY DEF Exposed
<1>7. k \in Nat /\ n \in Nat /\ k + 1 <= n
  <2>1. IsFiniteSet(Threads) /\ n \in Nat
    BY ThreadsAssumption, FS_CardinalityType
  <2>2. /\ IsFiniteSet(Threads \ {t})
        /\ Cardinality(Threads \ {t}) = n - 1
    BY <2>1, FS_RemoveElement
  <2>3. k <= n - 1 /\ k \in Nat
    BY <1>4, <2>2, FS_Subset, FS_CardinalityType
  <2> QED
    BY <2>1, <2>3
<1>8. CASE x <= sequencer
  <2> DEFINE m == Cardinality(E)
  <2>1. m \in Nat /\ k + 1 <= m
    <3>1. IsFiniteSet(E) /\ m \in Nat
      BY <1>6, ExposedCard
    <3>2. IsFiniteSet(E \ {t}) /\ Cardinality(E \ {t}) = m - 1
      BY <1>5, <3>1, FS_RemoveElement
    <3>3. F \subseteq E \ {t}
      BY <1>4
    <3>4. k <= m - 1
      BY <3>2, <3>3, FS_Subset
    <3> QED
      BY <1>7, <3>1, <3>4
  <2>2. (sequencer - x) + MaxSize * m <= MaxSize * n
    BY <1>1, <1>8 DEF IInv, RoomInv
  <2> HIDE DEF k, m, n, E, F
  <2>3. MaxSize * k + MaxSize <= MaxSize * m
    BY <1>7, <2>1, OneEntryLess
  <2>4. MaxSize * k \in Int /\ MaxSize * m \in Int /\ MaxSize * n \in Int
    BY <1>7, <2>1
  <2>5. (sequencer' - x) + MaxSize * k <= MaxSize * n
    BY <1>1, <1>2, <1>3, <2>2, <2>3, <2>4
  <2> QED
    BY <2>5 DEF k, n, F
<1>9. CASE x > sequencer
  <2> HIDE DEF k, n, E, F
  <2>1. MaxSize * k + MaxSize <= MaxSize * n
    BY <1>7, OneEntryLess
  <2>2. MaxSize * k \in Int /\ MaxSize * n \in Int
    BY <1>7
  <2>3. (sequencer' - x) + MaxSize * k <= MaxSize * n
    BY <1>1, <1>2, <1>3, <1>9, <2>1, <2>2
  <2> QED
    BY <2>3 DEF k, n, F
<1> QED
  BY <1>2, <1>8, <1>9

\* Every step leaves room for the entries of the threads still exposed.
LEMMA RoomStep ==
    ASSUME IInv, [Next]_vars
    PROVE  RoomInv'
<1>0. /\ ordered_watermk' \in Nat /\ ordered_watermk <= ordered_watermk'
      /\ sequencer \in Nat
      /\ pc \in [Threads -> Phases] /\ cur \in [Threads -> Nat]
  <2>1. ordered_watermk' \in Nat
    BY ThreadType, FetchType DEF Next, IInv, TypeOK, vars, ringVars
  <2> QED
    BY <2>1, QueueStep DEF IInv, TypeOK
<1>1. CASE UNCHANGED <<sequencer, pc, cur>>
  <2>1. ExposesOnlyAtEnd
    BY <1>1 DEF ExposesOnlyAtEnd, Exposed
  <2> QED
    BY <1>0, <1>1, <2>1, RoomShrinks
<1>2. ASSUME NEW t \in Threads, AppendEntry(t) \/ ThreadStep(t)
      PROVE  RoomInv'
  <2>1. CASE Publish(t)
    BY <2>1, RoomPublish
  <2>2. CASE ReadSequencer(t)
    <3>1. sequencer' = sequencer
      BY <2>2 DEF ReadSequencer, ringVars
    <3>2. /\ pc' = [pc EXCEPT ![t] = "readWatermark"]
          /\ cur' = [cur EXCEPT ![t] = sequencer]
      BY <2>2 DEF ReadSequencer, Goto
    <3>3. ASSUME NEW x \in Int, x <= sequencer, x # sequencer
          PROVE  Exposed(x)' \subseteq Exposed(x)
      BY <1>0, <3>2, <3>3 DEF Exposed
    <3>4. ExposesOnlyAtEnd
      BY <3>3 DEF ExposesOnlyAtEnd
    <3> QED
      BY <1>0, <3>1, <3>4, RoomShrinks
  <2>3. CASE AppendEntry(t) \/ ReadWatermark(t) \/ Claim(t) \/ Serialize(t)
             \/ SetFlag(t) \/ CopyTail(t)
    <3>1. sequencer' = sequencer /\ cur' = cur
      BY <2>3 DEF AppendEntry, ReadWatermark, Claim, Serialize, SetFlag, CopyTail, ringVars
    <3>2. /\ \A u \in Threads : u # t => pc'[u] = pc[u]
          /\ pc'[t] \in {"readWatermark", "lock", "claimed"} =>
                pc[t] \in {"readWatermark", "lock", "claimed"}
      BY <1>0, <2>3 DEF AppendEntry, ReadWatermark, Claim, Serialize, SetFlag, CopyTail, Goto
    <3>3. ExposesOnlyAtEnd
      BY <3>1, <3>2 DEF ExposesOnlyAtEnd, Exposed
    <3> QED
      BY <1>0, <3>1, <3>3, RoomShrinks
  <2> QED
    BY <1>2, <2>1, <2>2, <2>3 DEF ThreadStep, FinishWrite
<1>3. CASE FetchStep \/ DeleteOrderedEntries \/ UNCHANGED vars
  <2>1. UNCHANGED <<sequencer, pc, cur>>
    BY <1>3 DEF FetchStep, FetchRange, ReadLine, DeserializeOne, FetchReturn,
       DeleteOrderedEntries, vars, ringVars, threadVars
  <2> QED
    BY <1>1, <2>1
<1> QED
  BY <1>2, <1>3 DEF Next

-----------------------------------------------------------------------------
(* The theorems *)

\* The log starts empty, with nothing exposed.
LEMMA InitIInv == Init => IInv
<1> SUFFICES ASSUME Init PROVE IInv
  OBVIOUS
<1> USE DEF Init
<1>1. TypeOK
  <2>1. mem \in [Address -> Word]
    BY StoredWords
  <2>2. NoEntry \in Entry
    BY DEF NoEntry, Entry
  <2>3. NoFetch \in [phase : {"idle", "read", "parse"}, begin : Nat, end : Nat,
                     words : Seq(Word), offset : Nat]
        /\ NoFetch.phase = "idle"
    BY DEF NoFetch
  <2> QED
    BY <2>1, <2>2, <2>3, EmptySeq DEF TypeOK, Phases
<1>2. ThreadInv
  BY DEF ThreadInv
<1>3. FetchInv
  BY DEF FetchInv, NoFetch
<1>4. QueueInv
  BY DEF QueueInv
<1>5. RoomInv
  <2>1. \A x \in Int : ~(x >= ordered_watermk + (RgSize - Slack) /\ x <= sequencer)
    OBVIOUS
  <2> QED
    BY <2>1 DEF RoomInv
<1> QED
  BY <1>1, <1>2, <1>3, <1>4, <1>5 DEF IInv

\* Every step keeps the inductive invariant.
LEMMA NextIInv == IInv /\ [Next]_vars => IInv'
<1> SUFFICES ASSUME IInv, [Next]_vars PROVE IInv'
  OBVIOUS
<1>1. TypeOK'
  <2>1. CASE UNCHANGED vars
    BY <2>1 DEF IInv, TypeOK, vars, ringVars, threadVars, clVars
  <2> QED
    BY <2>1, ThreadType, FetchType DEF IInv, Next
<1> QED
  BY <1>1, ThreadInvStep, FetchInvStep, QueueStep, RoomStep DEF IInv

\* The inductive invariant holds in every reachable state.
THEOREM Inductive == Spec => []IInv
  BY InitIInv, NextIInv, PTL DEF Spec

\* Every variable of the ring, of the append threads and of the fetch has its
\* type, and a fetch never parses past the words it read.
THEOREM TypeCorrect == Spec => []TypeOK
<1>1. IInv => TypeOK
  BY DEF IInv
<1> QED
  BY <1>1, Inductive, PTL

\* Entries that are not deleted take at most one lap.
LEMMA RoomIsEnough ==
    ASSUME IInv
    PROVE  UnorderedFitsRing
<1> DEFINE x == ordered_watermk + (RgSize - Slack)
           m == Cardinality(Exposed(x))
           n == Cardinality(Threads)
<1>1. sequencer \in Nat /\ ordered_watermk \in Nat
  BY DEF IInv, TypeOK
<1>2. CASE sequencer < x
  BY <1>1, <1>2 DEF UnorderedFitsRing
<1>3. CASE sequencer >= x
  <2>1. (sequencer - x) + MaxSize * m <= MaxSize * n
    BY <1>1, <1>3 DEF IInv, RoomInv
  <2>2. m \in Nat /\ n \in Nat
    BY ExposedCard DEF Exposed
  <2>3. n * MaxSize <= Slack
    BY SlackAssumption
  <2> HIDE DEF m, n
  <2>4. MaxSize * m >= 0 /\ MaxSize * m \in Int /\ MaxSize * n = n * MaxSize
    BY <2>2
  <2>5. sequencer - x <= Slack
    BY <1>1, <2>1, <2>2, <2>3, <2>4
  <2> QED
    BY <1>1, <2>5 DEF UnorderedFitsRing
<1> QED
  BY <1>1, <1>2, <1>3

\* waitForPlace keeps its promise: whatever number of threads leave the wait
\* together, the unordered entries fit in the ring, so that no append ever
\* overwrites an entry that is not yet ordered.
THEOREM RingNeverOverrun == Spec => []UnorderedFitsRing
<1>1. IInv => UnorderedFitsRing
  BY RoomIsEnough
<1> QED
  BY <1>1, Inductive, PTL

\* DeleteOrderedEntries only ever frees space forwards, and only what the
\* consensus log has fetched.
THEOREM WatermarkOnlyAdvances == Spec => WatermarkAdvances
<1>1. IInv /\ [Next]_vars =>
        [ordered_watermk <= ordered_watermk' /\ ordered_watermk' <= fetch_begin]_vars
  BY QueueStep
<1> QED
  BY <1>1, Inductive, PTL DEF Spec, WatermarkAdvances

-----------------------------------------------------------------------------
(* The invariant of the ring *)

\* An entry lies in the ring in one piece, and its metadata on one line.
InOnePiece(e) ==
    /\ Offset(e.seq) + e.size <= RgSize
    /\ (Offset(e.seq) % LineSize) + MetaDataSize <= LineSize

AllInOnePiece == \A i \in 1..Len(log) : InOnePiece(log[i])

\* Where the i-th entry starts, or will start.
Start(i) == IF i <= Len(log) THEN log[i].seq ELSE sequencer

\* The entries of the log lie one behind the other.
LogInv ==
    /\ indexer = Len(log) /\ Start(1) = 0
    /\ \A i \in 1..Len(log) :
          /\ log[i].idx = i - 1 /\ log[i].size \in Sizes
          /\ Start(i + 1) = log[i].seq + log[i].size
          /\ \A j \in (i + 1)..(Len(log) + 1) : log[i].seq + log[i].size <= Start(j)

\* The entries the consensus log has, also from the fetch under way.
Taken == Len(fetched) + Len(es)
Writing(t) == pc[t] \in {"serialize", "setFlag"}

\* What a thread writes is in the log once, and not taken.
WriterInv ==
    \A t \in Threads :
        /\ pc[t] # "copyTail"
        /\ pc[t] = "claimed" => req[t].idx = indexer
        /\ Writing(t) =>
              /\ req[t].idx \in Taken..(Len(log) - 1)
              /\ log[req[t].idx + 1] = req[t]
              /\ \A u \in Threads : Writing(u) /\ req[u] = req[t] => u = t

\* The word of the ring for a sequence number.
Cell(s) == mem[Offset(s)]

\* The flag of an entry is 0 from before it is in the log until it is written.
MemInv ==
    /\ \A t \in Threads :
          /\ pc[t] \in {"claimed", "serialize"} => mem[Offset(req[t].seq) + 1] = FlagWord(0)
          /\ pc[t] = "setFlag" =>
                \A k \in 1..req[t].size : Cell(req[t].seq + k - 1) = EntryWord(req[t], k - 1)
    /\ UnorderedIntact

\* The metadata of an entry is read in one go; if that found its flag, the
\* words that follow it are those of the entry.
WordsInv ==
    /\ cl.phase = "read" => \A i \in 1..Len(log) : log[i].seq + 1 # ReadAt
    /\ cl.phase # "idle" =>
          \A i \in (Len(fetched) + 1)..Len(log) :
              log[i].seq + 2 <= ReadAt =>
                  LET at == log[i].seq - cl.begin IN
                  \/ cl.words[at + 2] = FlagWord(0)
                  \/ /\ ~BeingWritten(log[i])
                     /\ \A k \in 1..log[i].size :
                           at + k <= Len(cl.words) => cl.words[at + k] = WordsOf(log[i])[k]

\* What was taken are the first entries of the log.
TakenInv ==
    /\ Taken <= Len(log)
    /\ fetch_begin = Start(Len(fetched) + 1)
    /\ cl.phase = "parse" => cl.begin + cl.offset = Start(Taken + 1)
    /\ \A i \in 1..Len(fetched) : fetched[i] = WordsOf(log[i])
    /\ \A i \in 1..Len(es) : es[i] = WordsOf(log[Len(fetched) + i])

\* A batch ends where the entry of its index starts, and so does what was deleted.
BatchInv ==
    /\ ordered_idx_watermk <= Len(fetched)
    /\ ordered_watermk = Start(ordered_idx_watermk + 1)
    /\ \A j \in 1..Len(batches) :
          /\ batches[j].idx \in 1..Len(fetched)
          /\ batches[j].seq = Start(batches[j].idx + 1)

RingInv == LogInv /\ WriterInv /\ MemInv /\ WordsInv /\ TakenInv /\ BatchInv

-----------------------------------------------------------------------------
(* Places in the ring *)

\* Two sequence numbers less than a lap apart have different places.
LEMMA PlacesApart ==
    ASSUME NEW a \in Nat, NEW b \in Nat, a < b, b < a + RgSize
    PROVE  Offset(a) # Offset(b)
<1>1. a \in a..(a + RgSize - 1) /\ b \in a..(a + RgSize - 1) /\ RgSize \in Nat \ {0}
  OBVIOUS
<1>2. a % RgSize = b % RgSize => a = b
  BY <1>1, SameResidue, Zenon
<1> QED
  BY <1>2 DEF Offset

\* Up to the end of the ring, the place grows with the sequence number.
LEMMA SameLap ==
    ASSUME NEW a \in Nat, NEW n \in Nat, Offset(a) + n < RgSize
    PROVE  Offset(a + n) = Offset(a) + n
<1> DEFINE q == a \div RgSize
           r == a % RgSize
<1>1. q \in Nat /\ r \in 0..(RgSize - 1) /\ a = RgSize * q + r
  BY DivMod
<1>2. r + n < RgSize
  BY DEF Offset
<1> HIDE DEF q, r
<1>3. a + n = RgSize * q + (r + n) /\ r + n \in 0..(RgSize - 1)
  BY <1>1, <1>2
<1>4. (RgSize * q + (r + n)) % RgSize = r + n
  BY <1>1, <1>3, Quotient
<1> QED
  BY <1>3, <1>4 DEF Offset, r

\* An entry that lies in one piece has its words one behind the other.
LEMMA PiecePlaces ==
    ASSUME NEW e \in Entry, InOnePiece(e), NEW k \in 1..e.size
    PROVE  /\ e.seq + k - 1 \in Nat /\ Offset(e.seq) \in Nat
           /\ Offset(e.seq + k - 1) = Offset(e.seq) + k - 1
           /\ Offset(e.seq) + k - 1 < RgSize
           /\ Offset(e.seq) + k - 1 \in Address
<1>1. e.seq \in Nat /\ e.size \in Nat
  BY DEF Entry
<1>2. Offset(e.seq) \in Nat /\ Offset(e.seq) + e.size <= RgSize
  BY <1>1, OffsetInRing DEF InOnePiece
<1> DEFINE n == k - 1
           o == Offset(e.seq)
<1>3. n \in Nat /\ k = n + 1 /\ n < e.size
  BY <1>1
<1> HIDE DEF n
<1>4. o + n < RgSize
  BY <1>1, <1>2, <1>3
<1>5. Offset(e.seq + n) = o + n
  BY <1>1, <1>3, <1>4, SameLap
<1>6. e.seq + k - 1 = e.seq + n /\ o + k - 1 = o + n
  BY <1>1, <1>2, <1>3
<1> QED
  BY <1>1, <1>2, <1>3, <1>4, <1>5, <1>6 DEF Address

\* A thread that may claim a place has room for the largest entry.
LEMMA RoomToClaim ==
    ASSUME IInv, NEW t \in Threads, pc[t] \in {"lock", "claimed"}
    PROVE  sequencer + MaxSize <= ordered_watermk + RgSize
<1> DEFINE x == ordered_watermk + (RgSize - Slack)
           m == Cardinality(Exposed(x))
           n == Cardinality(Threads)
<1>1. sequencer \in Nat /\ ordered_watermk \in Nat /\ cur[t] \in Nat
  BY DEF IInv, TypeOK
<1>2. t \in Exposed(x)
  BY <1>1 DEF Exposed, IInv, ThreadInv
<1>3. m \in Nat /\ n \in Nat /\ m >= 1 /\ n >= m
  <2>1. Exposed(x) \in SUBSET Threads
    BY DEF Exposed
  <2>2. IsFiniteSet(Exposed(x)) /\ m \in Nat /\ n \in Nat /\ m <= n
    BY <2>1, ExposedCard
  <2>3. m # 0
    BY <1>2, <2>2, FS_EmptySet
  <2> QED
    BY <2>2, <2>3
<1>4. n * MaxSize <= Slack
  BY SlackAssumption
<1> HIDE DEF m, n
<1>5. MaxSize * n = n * MaxSize /\ MaxSize * 1 <= MaxSize * m /\ MaxSize * m <= MaxSize * n
      /\ MaxSize * n \in Int /\ MaxSize * m \in Int
  BY <1>3
<1>6. CASE sequencer < x
  <2>1. MaxSize <= Slack
    BY <1>4, <1>5
  <2> QED
    BY <1>1, <1>6, <2>1
<1>7. CASE sequencer >= x
  <2>1. (sequencer - x) + MaxSize * m <= MaxSize * n
    BY <1>1, <1>7 DEF IInv, RoomInv, m, n
  <2> QED
    BY <1>1, <1>4, <1>5, <1>7, <2>1
<1> QED
  BY <1>1, <1>6, <1>7

-----------------------------------------------------------------------------
(* The log *)

\* An entry of the log with the bounds of its place.
LEMMA EntryFacts ==
    ASSUME TypeOK, LogInv, NEW i \in 1..Len(log)
    PROVE  /\ log[i] \in Entry /\ log[i].seq \in Nat /\ log[i].idx = i - 1
           /\ log[i].size \in Nat /\ log[i].size \in Sizes
           /\ 2 <= log[i].size /\ log[i].size <= MaxSize
           /\ log[i].seq + log[i].size <= sequencer
           /\ Start(i) = log[i].seq /\ Start(i + 1) = log[i].seq + log[i].size
<1>1. log \in Seq(Entry) /\ sequencer \in Nat /\ Len(log) \in Nat
  BY DEF TypeOK
<1>2. log[i] \in Entry
  BY <1>1, ElementOfSeq
<1>3. log[i].seq \in Nat /\ log[i].size \in Nat
  BY <1>2 DEF Entry
<1>4. log[i].idx = i - 1 /\ log[i].size \in Sizes /\ Start(i + 1) = log[i].seq + log[i].size
  BY DEF LogInv
<1>5. Start(Len(log) + 1) = sequencer
  BY <1>1 DEF Start
<1>6. log[i].seq + log[i].size <= Start(Len(log) + 1)
  BY <1>1 DEF LogInv
<1>7. Start(i) = log[i].seq
  BY DEF Start
<1> QED
  BY <1>2, <1>3, <1>4, <1>5, <1>6, <1>7, SizeBounds

\* Starts are numbers up to the sequencer, and grow.
LEMMA StartFacts ==
    ASSUME TypeOK, LogInv, NEW i \in 1..(Len(log) + 1)
    PROVE  /\ Start(i) \in Nat /\ Start(i) <= sequencer
           /\ \A j \in i..(Len(log) + 1) : Start(i) <= Start(j)
           /\ \A j \in (i + 1)..(Len(log) + 1) : Start(i) + 2 <= Start(j)
<1>1. sequencer \in Nat /\ Len(log) \in Nat
  BY DEF TypeOK
<1>2. CASE i = Len(log) + 1
  BY <1>1, <1>2 DEF Start
<1>3. CASE i \in 1..Len(log)
  <2>1. /\ Start(i) = log[i].seq /\ log[i].seq \in Nat /\ log[i].size \in Nat /\ 2 <= log[i].size
        /\ log[i].seq + log[i].size <= sequencer
    BY <1>3, EntryFacts
  <2>2. ASSUME NEW j \in (i + 1)..(Len(log) + 1)
        PROVE  Start(j) \in Nat /\ log[i].seq + log[i].size <= Start(j)
    <3>1. log[i].seq + log[i].size <= Start(j)
      BY <1>3 DEF LogInv
    <3>2. CASE j = Len(log) + 1
      BY <1>1, <3>1, <3>2 DEF Start
    <3>3. CASE j \in 1..Len(log)
      BY <3>1, <3>3, EntryFacts
    <3> QED
      BY <1>1, <1>3, <3>2, <3>3
  <2>3. ASSUME NEW j \in (i + 1)..(Len(log) + 1) PROVE Start(i) + 2 <= Start(j)
    BY <2>1, <2>2
  <2>4. ASSUME NEW j \in i..(Len(log) + 1) PROVE Start(i) <= Start(j)
    <3>1. CASE j = i
      BY <2>1, <3>1
    <3>2. CASE j \in (i + 1)..(Len(log) + 1)
      <4> DEFINE a == Start(i)
                 b == Start(j)
      <4>1. a \in Nat /\ b \in Nat /\ a + 2 <= b
        BY <2>1, <2>2, <2>3, <3>2
      <4> HIDE DEF a, b
      <4>2. a <= b
        BY <4>1
      <4> QED
        BY <4>2 DEF a, b
    <3> QED
      BY <1>1, <1>3, <3>1, <3>2
  <2>5. Start(i) \in Nat /\ Start(i) <= sequencer
    BY <1>1, <2>1
  <2> QED
    BY <2>3, <2>4, <2>5, Zenon
<1> QED
  BY <1>1, <1>2, <1>3

\* Where there is an entry, the largest has metadata.
LEMMA LargestIsEntry ==
    ASSUME NEW n \in Sizes
    PROVE  MaxSize >= 2
BY SizeBounds

\* A sequence number whose word is not free to be written again.
Live(s) == s \in Nat /\ ordered_watermk <= s /\ s < sequencer

\* Live words have places of their own.
LEMMA LiveDistinct ==
    ASSUME IInv, NEW s, NEW u, Live(s), Live(u), Offset(s) = Offset(u)
    PROVE  s = u
<1>1. s \in Nat /\ u \in Nat /\ ordered_watermk \in Nat /\ sequencer \in Nat
  BY DEF Live, IInv, TypeOK
<1>2. sequencer <= ordered_watermk + RgSize
  BY <1>1, RoomIsEnough DEF UnorderedFitsRing
<1>3. s < u + RgSize /\ u < s + RgSize
  BY <1>1, <1>2 DEF Live
<1>4. CASE s < u
  BY <1>1, <1>3, <1>4, PlacesApart
<1>5. CASE u < s
  BY <1>1, <1>3, <1>5, PlacesApart
<1> QED
  BY <1>1, <1>4, <1>5

\* The flag that Claim clears is not the place of a live word.
LEMMA ClaimedApart ==
    ASSUME IInv, NEW t \in Threads, pc[t] \in {"lock", "claimed"}, NEW s, Live(s)
    PROVE  Offset(s) # Offset(sequencer) + 1
<1>1. s \in Nat /\ ordered_watermk \in Nat /\ sequencer \in Nat
  BY DEF Live, IInv, TypeOK
<1>2. Offset(s) \in Nat /\ Offset(s) < RgSize /\ Offset(sequencer) \in Nat
  BY <1>1, OffsetInRing
<1>3. MaxSize >= 2
  BY LargestIsEntry DEF IInv, ThreadInv
<1>4. sequencer + 1 < s + RgSize /\ s < sequencer + 1
  BY <1>1, <1>3, RoomToClaim DEF Live
<1>5. CASE Offset(sequencer) + 1 < RgSize
  <2>1. Offset(sequencer + 1) = Offset(sequencer) + 1
    BY <1>1, <1>5, SameLap
  <2>2. Offset(s) # Offset(sequencer + 1)
    BY <1>1, <1>4, PlacesApart
  <2> QED
    BY <2>1, <2>2
<1>6. CASE ~(Offset(sequencer) + 1 < RgSize)
  BY <1>2, <1>6
<1> QED
  BY <1>5, <1>6

\* Deleted entries are fetched, and lie below the rest of the log.
LEMMA EntryIsLive ==
    ASSUME IInv, RingInv, NEW i \in 1..Len(log), i > Len(fetched) \/ log[i].seq >= ordered_watermk
    PROVE  /\ ordered_watermk <= log[i].seq
           /\ \A k \in 1..log[i].size : Live(log[i].seq + k - 1)
<1>1. TypeOK /\ LogInv /\ ordered_watermk \in Nat /\ sequencer \in Nat
  BY DEF IInv, RingInv, TypeOK
<1>2. ordered_watermk <= log[i].seq
  <2>1. CASE i > Len(fetched)
    <3> DEFINE d == ordered_idx_watermk + 1
    <3>1. /\ ordered_idx_watermk \in Nat /\ Len(fetched) \in Nat /\ Len(log) \in Nat
          /\ ordered_idx_watermk <= Len(fetched) /\ ordered_watermk = Start(d)
      BY DEF IInv, RingInv, BatchInv, TypeOK
    <3>2. d \in 1..(Len(log) + 1) /\ i \in d..(Len(log) + 1)
      BY <2>1, <3>1
    <3>3. Start(d) <= Start(i)
      BY <1>1, <3>2, StartFacts
    <3> QED
      BY <1>1, <3>1, <3>3, EntryFacts
  <2> QED
    BY <2>1
<1>3. /\ log[i].seq \in Nat /\ log[i].size \in Nat /\ log[i].seq + log[i].size <= sequencer
  BY <1>1, EntryFacts
<1>4. ASSUME NEW k \in 1..log[i].size PROVE Live(log[i].seq + k - 1)
  BY <1>1, <1>2, <1>3 DEF Live
<1> QED
  BY <1>2, <1>4

\* The entry that a thread writes: in the log, not fetched, in one piece.
LEMMA WriterFacts ==
    ASSUME IInv, RingInv, AllInOnePiece, NEW t \in Threads, Writing(t)
    PROVE  /\ req[t] \in Entry /\ req[t].seq \in Nat /\ req[t].size \in Nat /\ req[t].size >= 2
           /\ req[t].idx + 1 \in 1..Len(log) /\ log[req[t].idx + 1] = req[t]
           /\ req[t].idx + 1 > Taken /\ req[t].idx + 1 > Len(fetched)
           /\ InOnePiece(req[t])
           /\ ordered_watermk <= req[t].seq
           /\ \A k \in 1..req[t].size : Live(req[t].seq + k - 1)
<1>1. /\ TypeOK /\ LogInv /\ req[t] \in Entry /\ Len(log) \in Nat /\ Len(fetched) \in Nat
      /\ Len(es) \in Nat
  BY DEF IInv, RingInv, TypeOK
<1>2. req[t].idx \in Nat /\ req[t].idx \in Taken..(Len(log) - 1) /\ log[req[t].idx + 1] = req[t]
  BY <1>1 DEF RingInv, WriterInv, Entry
<1>3. Taken \in Nat /\ Len(fetched) <= Taken
  BY <1>1 DEF Taken
<1> DEFINE i == req[t].idx + 1
<1>4. i \in 1..Len(log) /\ i > Taken /\ i > Len(fetched) /\ log[i] = req[t]
  BY <1>1, <1>2, <1>3
<1> HIDE DEF i
<1>5. ordered_watermk <= log[i].seq /\ \A k \in 1..log[i].size : Live(log[i].seq + k - 1)
  BY <1>4, EntryIsLive
<1>6. log[i].seq \in Nat /\ log[i].size \in Nat /\ log[i].size >= 2
  BY <1>1, <1>4, EntryFacts
<1>7. InOnePiece(log[i])
  BY <1>4 DEF AllInOnePiece
<1> QED
  BY <1>1, <1>4, <1>5, <1>6, <1>7 DEF i

\* Only writing threads are between log and flag.
LEMMA WriterIs ==
    ASSUME WriterInv, NEW e
    PROVE  BeingWritten(e) <=> \E t \in Threads : Writing(t) /\ req[t] = e
BY DEF WriterInv, BeingWritten, Writing

-----------------------------------------------------------------------------
(* What steps leave alone *)

\* The places in the log do not move.
LEMMA StartKept ==
    ASSUME UNCHANGED <<log, sequencer>>
    PROVE  \A i \in Nat : Start(i)' = Start(i)
BY DEF Start

\* Steps of append threads other than Publish leave the log and the consensus
\* log alone.
LEMMA ThreadFrame ==
    ASSUME RingInv,
           UNCHANGED <<sequencer, indexer, ordered_watermk, ordered_idx_watermk, clVars, log, fetched>>
    PROVE  LogInv' /\ TakenInv' /\ BatchInv' /\ Taken' = Taken
<1>1. LogInv'
  BY DEF RingInv, LogInv, Start
<1>2. TakenInv'
  BY DEF RingInv, TakenInv, Taken, Start, WordsOf, clVars
<1>3. BatchInv'
  BY DEF RingInv, BatchInv, Start, clVars
<1>4. Taken' = Taken
  BY DEF Taken, clVars
<1> QED
  BY <1>1, <1>2, <1>3, <1>4

\* Lengths are numbers.
LEMMA LenFacts ==
    ASSUME TypeOK
    PROVE  /\ Len(log) \in Nat /\ Len(fetched) \in Nat /\ Len(es) \in Nat
           /\ Len(batches) \in Nat /\ Len(cl.words) \in Nat /\ DOMAIN log = 1..Len(log)
BY DEF TypeOK

\* The words that were read stay, and so does what they say about an entry,
\* unless a thread starts to write it.
LEMMA WordsFrame ==
    ASSUME TypeOK, RingInv, UNCHANGED <<cl, log, fetched>>,
           \A i \in 1..Len(log) : BeingWritten(log[i])' => BeingWritten(log[i])
    PROVE  WordsInv'
<1>1. ReadAt' = ReadAt /\ WordsInv
  BY DEF ReadAt, RingInv
<1>2. cl'.phase = "read" => \A i \in 1..Len(log') : log'[i].seq + 1 # ReadAt'
  BY <1>1 DEF WordsInv
<1>3. ASSUME cl'.phase # "idle", NEW i \in (Len(fetched') + 1)..Len(log'), log'[i].seq + 2 <= ReadAt'
      PROVE  LET at == log'[i].seq - cl'.begin IN
             \/ cl'.words[at + 2] = FlagWord(0)
             \/ /\ ~BeingWritten(log[i])'
                /\ \A k \in 1..(log'[i].size) :
                      at + k <= Len(cl'.words) => cl'.words[at + k] = WordsOf(log'[i])[k]
  <2>1. i \in (Len(fetched) + 1)..Len(log) /\ i \in 1..Len(log)
    BY <1>3, LenFacts
  <2>2. LET at == log[i].seq - cl.begin IN
             \/ cl.words[at + 2] = FlagWord(0)
             \/ /\ ~BeingWritten(log[i])
                /\ \A k \in 1..log[i].size :
                      at + k <= Len(cl.words) => cl.words[at + k] = WordsOf(log[i])[k]
    BY <1>1, <1>3, <2>1 DEF WordsInv
  <2>3. BeingWritten(log[i])' => BeingWritten(log[i])
    BY <2>1
  <2> QED
    BY <2>2, <2>3
<1> QED
  BY <1>2, <1>3 DEF WordsInv, WordsOf

-----------------------------------------------------------------------------
(* The steps of an append *)

Quiet == {"idle", "waitForPlace", "readWatermark", "lock"}

\* Before its critical section an append touches nothing that others see.
LEMMA QuietStep ==
    ASSUME IInv, RingInv, NEW t \in Threads,
           AppendEntry(t) \/ ReadSequencer(t) \/ ReadWatermark(t)
    PROVE  RingInv'
<1>1. /\ UNCHANGED <<mem, sequencer, indexer, ordered_watermk, ordered_idx_watermk, clVars, log, fetched>>
      /\ pc[t] \in Quiet /\ pc'[t] \in Quiet
      /\ \A u \in Threads : u # t => pc'[u] = pc[u] /\ req'[u] = req[u]
  BY DEF AppendEntry, ReadSequencer, ReadWatermark, Goto, ringVars, Quiet, IInv, TypeOK
<1>2. LogInv' /\ TakenInv' /\ BatchInv' /\ Taken' = Taken
  BY <1>1, ThreadFrame
<1>3. \A u \in Threads : pc'[u] \notin Quiet => u # t /\ pc'[u] = pc[u] /\ req'[u] = req[u]
  BY <1>1
<1>4. WriterInv'
  BY <1>1, <1>2, <1>3 DEF RingInv, WriterInv, Writing, Quiet
<1>5. ASSUME NEW e PROVE BeingWritten(e)' <=> BeingWritten(e)
  BY <1>1 DEF BeingWritten, Quiet
<1>6. WordsInv'
  <2>1. UNCHANGED <<cl, log, fetched>>
    BY <1>1 DEF clVars
  <2> QED
    BY <1>5, <2>1, WordsFrame DEF IInv
<1>7. UnorderedIntact'
  BY <1>1, <1>5 DEF RingInv, MemInv, UnorderedIntact, WordsOf
<1>8. MemInv'
  BY <1>1, <1>3, <1>7 DEF RingInv, MemInv, Cell, Quiet
<1> QED
  BY <1>2, <1>4, <1>6, <1>8 DEF RingInv

\* Entering the critical section clears a flag in free space only.
LEMMA ClaimRing ==
    ASSUME IInv, RingInv, AllInOnePiece, NEW t \in Threads, Claim(t)
    PROVE  RingInv'
<1> DEFINE a == Offset(sequencer) + 1
<1>1. /\ UNCHANGED <<sequencer, indexer, ordered_watermk, ordered_idx_watermk, clVars, log, fetched>>
      /\ idx_lk = {} /\ pc[t] = "lock" /\ pc' = [pc EXCEPT ![t] = "claimed"]
      /\ req' = [req EXCEPT ![t].seq = sequencer, ![t].idx = indexer]
      /\ mem' = [mem EXCEPT ![a] = FlagWord(0)]
  BY DEF Claim, Goto
<1>2. /\ mem \in [Address -> Word] /\ pc \in [Threads -> Phases] /\ req \in [Threads -> Entry]
      /\ sequencer \in Nat /\ TypeOK /\ LogInv
  BY DEF IInv, TypeOK, RingInv
<1>3. /\ pc'[t] = "claimed" /\ req'[t].seq = sequencer /\ req'[t].idx = indexer
      /\ \A u \in Threads : u # t => pc'[u] = pc[u] /\ req'[u] = req[u]
  BY <1>1, <1>2 DEF Entry
<1>4. a \in Address
  <2>1. Offset(sequencer) \in Nat /\ Offset(sequencer) < RgSize
    BY <1>2, OffsetInRing
  <2>2. req[t].size \in Sizes
    BY <1>1 DEF IInv, ThreadInv
  <2>3. MaxSize >= 2
    BY <2>2, LargestIsEntry
  <2> QED
    BY <2>1, <2>3 DEF Address
<1>5. ASSUME NEW s, Live(s) PROVE mem'[Offset(s)] = mem[Offset(s)]
  <2>1. Offset(s) # a
    BY <1>1, <1>5, ClaimedApart
  <2>2. Offset(s) \in Address
    <3>1. Offset(s) \in Nat /\ Offset(s) < RgSize
      BY <1>5, OffsetInRing DEF Live
    <3> QED
      BY <3>1 DEF Address
  <2> QED
    BY <1>1, <1>2, <2>1, <2>2
<1> HIDE DEF a
<1>6. LogInv' /\ TakenInv' /\ BatchInv' /\ Taken' = Taken
  BY <1>1, ThreadFrame
<1>7. ASSUME NEW u \in Threads, pc'[u] # "idle", u # t
      PROVE  pc'[u] = pc[u] /\ req'[u] = req[u] /\ pc[u] # "claimed"
  BY <1>1, <1>3, <1>7 DEF IInv, ThreadInv
<1>8. WriterInv'
  <2>1. ASSUME NEW u \in Threads, pc'[u] \in {"serialize", "setFlag", "copyTail"}
        PROVE  u # t /\ pc'[u] = pc[u] /\ req'[u] = req[u]
    BY <1>3, <1>7, <2>1
  <2>2. ASSUME NEW u \in Threads, pc'[u] = "claimed" PROVE u = t
    BY <1>7, <2>2
  <2>3. ASSUME NEW u \in Threads PROVE pc'[u] # "copyTail" /\ (pc'[u] = "claimed" => req'[u].idx = indexer')
    BY <1>1, <1>3, <2>1, <2>2 DEF RingInv, WriterInv
  <2>4. ASSUME NEW u \in Threads, Writing(u)'
        PROVE  /\ req'[u].idx \in Taken'..(Len(log') - 1) /\ log'[req'[u].idx + 1] = req'[u]
               /\ \A v \in Threads : Writing(v)' /\ req'[v] = req'[u] => v = u
    <3>1. Writing(u) /\ req'[u] = req[u]
      BY <2>1, <2>4 DEF Writing
    <3>2. req[u].idx \in Taken..(Len(log) - 1) /\ log[req[u].idx + 1] = req[u]
      BY <3>1 DEF RingInv, WriterInv
    <3>3. ASSUME NEW v \in Threads, Writing(v)', req'[v] = req'[u] PROVE v = u
      <4>1. Writing(v) /\ req'[v] = req[v]
        BY <2>1, <3>3 DEF Writing
      <4> QED
        BY <3>1, <3>3, <4>1 DEF RingInv, WriterInv
    <3> QED
      BY <1>1, <1>6, <3>1, <3>2, <3>3
  <2> QED
    BY <2>3, <2>4 DEF WriterInv
<1>9. ASSUME NEW e PROVE BeingWritten(e)' <=> BeingWritten(e)
  BY <1>1, <1>3 DEF BeingWritten
<1>10. WordsInv'
  <2>1. UNCHANGED <<cl, log, fetched>>
    BY <1>1 DEF clVars
  <2> QED
    BY <1>9, <2>1, WordsFrame DEF IInv
<1>11. UnorderedIntact'
  <2> SUFFICES ASSUME NEW i \in DOMAIN log', log'[i].seq >= ordered_watermk', ~BeingWritten(log[i])',
                      NEW k \in 1..(log'[i].size)
               PROVE  mem'[Offset(log'[i].seq + k - 1)] = WordsOf(log'[i])[k]
    BY DEF UnorderedIntact, WordsOf, Offset
  <2>0. /\ i \in 1..Len(log) /\ log'[i] = log[i] /\ log[i].seq >= ordered_watermk
        /\ ~BeingWritten(log[i]) /\ k \in 1..log[i].size
    BY <1>1, <1>2, <1>9, LenFacts
  <2>1. mem[Offset(log[i].seq + k - 1)] = WordsOf(log[i])[k]
    BY <1>2, <2>0, LenFacts DEF RingInv, MemInv, UnorderedIntact
  <2>2. Live(log[i].seq + k - 1)
    BY <2>0, EntryIsLive
  <2> QED
    BY <1>5, <2>0, <2>1, <2>2
<1>12. ASSUME NEW u \in Threads, pc'[u] \in {"claimed", "serialize"}
       PROVE  mem'[Offset(req'[u].seq) + 1] = FlagWord(0)
  <2>1. CASE u = t
    BY <1>1, <1>2, <1>3, <1>4, <2>1 DEF a
  <2>2. CASE u # t
    <3>1. Writing(u) /\ pc[u] = "serialize" /\ req'[u] = req[u]
      BY <1>7, <1>12, <2>2 DEF Writing
    <3>2. /\ req[u] \in Entry /\ InOnePiece(req[u]) /\ req[u].seq \in Nat /\ 2 \in 1..req[u].size
          /\ Live(req[u].seq + 2 - 1)
      BY <3>1, WriterFacts
    <3>3. Offset(req[u].seq + 2 - 1) = Offset(req[u].seq) + 2 - 1 /\ Offset(req[u].seq) \in Nat
      BY <3>2, PiecePlaces
    <3>4. mem[Offset(req[u].seq) + 1] = FlagWord(0)
      BY <3>1 DEF RingInv, MemInv
    <3>5. Offset(req[u].seq) + 1 = Offset(req[u].seq + 2 - 1)
      BY <3>3
    <3> QED
      BY <1>5, <3>1, <3>2, <3>4, <3>5
  <2> QED
    BY <2>1, <2>2
<1>13. ASSUME NEW u \in Threads, pc'[u] = "setFlag", NEW k \in 1..(req'[u].size)
       PROVE  mem'[Offset(req'[u].seq + k - 1)] = EntryWord(req'[u], k - 1)
  <2>1. Writing(u) /\ pc[u] = "setFlag" /\ req'[u] = req[u]
    BY <1>3, <1>7, <1>13 DEF Writing
  <2>2. Live(req[u].seq + k - 1)
    BY <1>13, <2>1, WriterFacts
  <2>3. mem[Offset(req[u].seq + k - 1)] = EntryWord(req[u], k - 1)
    BY <1>13, <2>1 DEF RingInv, MemInv, Cell
  <2> QED
    BY <1>5, <2>1, <2>2, <2>3
<1>14. MemInv'
  BY <1>11, <1>12, <1>13 DEF MemInv, Cell, Offset, EntryWord, FlagWord
<1> QED
  BY <1>6, <1>8, <1>10, <1>14 DEF RingInv

\* Leaving the critical section adds an entry to the log behind all others.
LEMMA PublishRing ==
    ASSUME IInv, RingInv, AllInOnePiece, NEW t \in Threads, Publish(t)
    PROVE  RingInv'
<1>n. PICK n \in Nat : n = Len(log)
  BY LenFacts DEF IInv
<1> DEFINE e == req[t]
<1>1. /\ UNCHANGED <<mem, ordered_watermk, ordered_idx_watermk, clVars, fetched, req>>
      /\ pc[t] = "claimed" /\ pc' = [pc EXCEPT ![t] = "serialize"]
      /\ log' = Append(log, e) /\ sequencer' = sequencer + e.size /\ indexer' = indexer + 1
  BY DEF Publish, Goto
<1>2. /\ TypeOK /\ LogInv /\ pc \in [Threads -> Phases] /\ log \in Seq(Entry)
      /\ e \in Entry /\ e.size \in Nat /\ e.seq \in Nat /\ sequencer \in Nat /\ n \in Nat
  BY DEF IInv, TypeOK, RingInv, Entry
<1>3. e.seq = sequencer /\ e.idx = indexer /\ e.idx = n /\ e.size \in Sizes /\ e.size >= 2
  <2>1. e.seq = sequencer /\ e.size \in Sizes
    BY <1>1 DEF IInv, ThreadInv
  <2>2. e.idx = indexer /\ indexer = n
    BY <1>1, <1>n DEF RingInv, WriterInv, LogInv
  <2> QED
    BY <2>1, <2>2, SizeBounds
<1>4. /\ pc'[t] = "serialize" /\ \A u \in Threads : u # t => pc'[u] = pc[u]
      /\ \A u \in Threads : pc'[u] # "claimed"
  <2>1. pc'[t] = "serialize" /\ \A u \in Threads : u # t => pc'[u] = pc[u]
    BY <1>1, <1>2
  <2>2. \A u \in Threads : u # t => pc[u] # "claimed"
    BY <1>1 DEF IInv, ThreadInv
  <2> QED
    BY <2>1, <2>2
<1>5. /\ Len(log') = n + 1 /\ log'[n + 1] = e
      /\ \A i \in 1..n : log'[i] = log[i]
  BY <1>1, <1>2, <1>n, AppendTyped
<1> HIDE DEF e
<1>6. /\ \A i \in 1..(n + 1) : Start(i)' = Start(i)
      /\ Start(n + 2)' = sequencer + e.size /\ Start(n + 1) = sequencer
  <2>1. ASSUME NEW i \in 1..n PROVE Start(i)' = Start(i)
    BY <1>n, <1>2, <1>5 DEF Start
  <2>2. Start(n + 1)' = e.seq /\ Start(n + 1) = sequencer
    BY <1>n, <1>2, <1>5 DEF Start
  <2>3. Start(n + 2)' = sequencer + e.size
    BY <1>n, <1>1, <1>2, <1>5 DEF Start
  <2> QED
    BY <1>2, <1>3, <2>1, <2>2, <2>3
<1>7. LogInv'
  <2>1. indexer' = Len(log') /\ Start(1)' = 0
    BY <1>n, <1>1, <1>2, <1>3, <1>5, <1>6 DEF LogInv
  <2>2. ASSUME NEW i \in 1..(n + 1)
        PROVE  /\ log'[i].idx = i - 1 /\ log'[i].size \in Sizes
               /\ Start(i + 1)' = log'[i].seq + log'[i].size
               /\ \A j \in (i + 1)..(n + 2) : log'[i].seq + log'[i].size <= Start(j)'
    <3>1. CASE i = n + 1
      BY <1>2, <1>3, <1>5, <1>6, <3>1
    <3>2. CASE i \in 1..n
      <4>1. /\ log'[i] = log[i] /\ log[i].idx = i - 1 /\ log[i].size \in Sizes
            /\ log[i].seq \in Nat /\ log[i].size \in Nat
            /\ log[i].seq + log[i].size <= sequencer
            /\ Start(i + 1) = log[i].seq + log[i].size
        BY <1>n, <1>2, <1>5, <3>2, EntryFacts
      <4>2. Start(i + 1)' = Start(i + 1)
        BY <1>2, <1>6, <3>2
      <4>3. ASSUME NEW j \in (i + 1)..(n + 2) PROVE log[i].seq + log[i].size <= Start(j)'
        <5>1. CASE j = n + 2
          BY <1>2, <1>6, <4>1, <5>1
        <5>2. CASE j \in (i + 1)..(n + 1)
          <6>1. log[i].seq + log[i].size <= Start(j)
            BY <1>n, <3>2, <5>2 DEF RingInv, LogInv
          <6>2. Start(j)' = Start(j)
            BY <1>2, <1>6, <3>2, <5>2
          <6> QED
            BY <6>1, <6>2
        <5> QED
          BY <1>2, <5>1, <5>2
      <4> QED
        BY <4>1, <4>2, <4>3
    <3> QED
      BY <1>2, <3>1, <3>2
  <2> QED
    BY <1>2, <1>5, <2>1, <2>2 DEF LogInv
<1>8. Taken' = Taken /\ Taken \in Nat /\ Taken <= n /\ Len(fetched) \in Nat /\ Len(fetched) <= n
      /\ Len(es) \in Nat /\ Len(fetched) + Len(es) = Taken
  BY <1>n, <1>1, <1>2, LenFacts DEF Taken, clVars, RingInv, TakenInv
<1>9. TakenInv'
  <2>1. \A i \in 1..Len(fetched) : log'[i] = log[i] /\ fetched[i] = WordsOf(log[i])
    BY <1>n, <1>2, <1>5, <1>8 DEF RingInv, TakenInv
  <2>2. \A i \in 1..Len(es) : log'[Len(fetched) + i] = log[Len(fetched) + i]
                              /\ es[i] = WordsOf(log[Len(fetched) + i])
    BY <1>n, <1>2, <1>5, <1>8 DEF RingInv, TakenInv
  <2>3. fetch_begin = Start(Len(fetched) + 1)'
    BY <1>1, <1>2, <1>6, <1>8 DEF RingInv, TakenInv
  <2>4. cl.phase = "parse" => cl.begin + cl.offset = Start(Taken + 1)'
    <3>1. Start(Taken + 1)' = Start(Taken + 1)
      BY <1>2, <1>6, <1>8
    <3> QED
      BY <1>1, <1>2, <1>6, <1>8, <3>1 DEF RingInv, TakenInv
  <2>5. Taken' <= Len(log') /\ cl' = cl /\ es' = es /\ fetched' = fetched /\ fetch_begin' = fetch_begin
    BY <1>1, <1>2, <1>5, <1>8 DEF clVars
  <2>6. /\ \A i \in 1..Len(fetched') : fetched'[i] = WordsOf(log'[i])
        /\ \A i \in 1..Len(es') : es'[i] = WordsOf(log'[Len(fetched') + i])
    BY <2>1, <2>2, <2>5
  <2> QED
    BY <2>3, <2>4, <2>5, <2>6 DEF TakenInv, WordsOf
<1>10. BatchInv'
  <2>1. /\ ordered_idx_watermk \in Nat /\ ordered_idx_watermk <= Len(fetched)
        /\ ordered_watermk = Start(ordered_idx_watermk + 1)
    BY <1>2 DEF TypeOK, RingInv, BatchInv
  <2>2. Start(ordered_idx_watermk + 1)' = Start(ordered_idx_watermk + 1)
    BY <1>1, <1>2, <1>6, <1>8, <2>1
  <2>3. ASSUME NEW j \in 1..Len(batches)
        PROVE  batches[j].idx \in 1..Len(fetched) /\ batches[j].seq = Start(batches[j].idx + 1)'
    <3>1. batches[j].idx \in 1..Len(fetched) /\ batches[j].seq = Start(batches[j].idx + 1)
      BY DEF RingInv, BatchInv
    <3>2. batches' = batches
      BY <1>1 DEF clVars
    <3>3. Start(batches[j].idx + 1)' = Start(batches[j].idx + 1)
      BY <1>2, <1>6, <1>8, <3>1, <3>2
    <3> QED
      BY <3>1, <3>3
  <2> QED
    BY <1>1, <2>1, <2>2, <2>3 DEF BatchInv, clVars
<1>11. \A i \in 1..n : log[i] # e
  BY <1>n, <1>2, <1>3, EntryFacts
<1>12. ASSUME NEW i \in 1..n PROVE BeingWritten(log[i])' <=> BeingWritten(log[i])
  <2>1. log'[i] = log[i] /\ log[i] # req[t] /\ req' = req
    BY <1>1, <1>5, <1>11 DEF e
  <2> QED
    BY <1>1, <1>4, <2>1 DEF BeingWritten
<1>13. WriterInv'
  <2>1. ASSUME NEW u \in Threads, Writing(u)', u # t
        PROVE  /\ Writing(u) /\ req[u].idx \in Taken..(n - 1) /\ log[req[u].idx + 1] = req[u]
               /\ req[u] # e
    <3>1. Writing(u)
      BY <1>4, <2>1 DEF Writing
    <3>2. req[u].idx \in Taken..(n - 1) /\ log[req[u].idx + 1] = req[u]
      BY <1>n, <3>1 DEF RingInv, WriterInv
    <3>3. req[u].idx # n
      BY <1>2, <1>8, <3>2
    <3> QED
      BY <1>3, <3>1, <3>2, <3>3
  <2>2. ASSUME NEW u \in Threads PROVE pc'[u] # "copyTail"
    BY <1>4 DEF RingInv, WriterInv
  <2>3. ASSUME NEW u \in Threads, Writing(u)'
        PROVE  req'[u].idx \in Taken'..(Len(log') - 1) /\ log'[req'[u].idx + 1] = req'[u]
    <3>1. CASE u = t
      BY <1>1, <1>2, <1>3, <1>5, <1>8, <3>1 DEF e
    <3>2. CASE u # t
      <4>1. req[u].idx \in Taken..(n - 1) /\ log[req[u].idx + 1] = req[u]
        BY <2>1, <2>3, <3>2
      <4>2. req[u].idx + 1 \in 1..n
        BY <1>2, <1>8, <4>1
      <4> QED
        BY <1>1, <1>2, <1>5, <1>8, <4>1, <4>2
    <3> QED
      BY <3>1, <3>2
  <2>4. ASSUME NEW u \in Threads, Writing(u)', NEW v \in Threads, Writing(v)', req'[v] = req'[u]
        PROVE  v = u
    <3>1. CASE u = t
      BY <1>1, <2>1, <2>4, <3>1 DEF e
    <3>2. CASE v = t
      BY <1>1, <2>1, <2>4, <3>2 DEF e
    <3>3. CASE u # t /\ v # t
      BY <1>1, <2>1, <2>4, <3>3 DEF RingInv, WriterInv
    <3> QED
      BY <3>1, <3>2, <3>3
  <2> QED
    BY <1>4, <2>2, <2>3, <2>4 DEF WriterInv
<1>14. MemInv'
  <2>1. UnorderedIntact'
    <3> SUFFICES ASSUME NEW i \in DOMAIN log', log'[i].seq >= ordered_watermk',
                        ~BeingWritten(log[i])', NEW k \in 1..(log'[i].size)
                 PROVE  mem'[Offset(log'[i].seq + k - 1)] = WordsOf(log'[i])[k]
      BY DEF UnorderedIntact, WordsOf, Offset
    <3>1. i \in 1..(n + 1)
      BY <1>1, <1>2, <1>5, AppendTyped
    <3>2. CASE i = n + 1
      <4>1. BeingWritten(log[i])'
        BY <1>1, <1>4, <1>5, <3>2 DEF BeingWritten, e
      <4> QED
        BY <4>1
    <3>3. CASE i \in 1..n
      BY <1>n, <1>1, <1>2, <1>5, <1>12, <3>3, LenFacts DEF RingInv, MemInv, UnorderedIntact
    <3> QED
      BY <1>2, <3>1, <3>2, <3>3
  <2>2. ASSUME NEW u \in Threads
        PROVE  /\ pc'[u] \in {"claimed", "serialize"} => mem'[Offset(req'[u].seq) + 1] = FlagWord(0)
               /\ pc'[u] = "setFlag" =>
                     \A k \in 1..(req'[u].size) : mem'[Offset(req'[u].seq + k - 1)] = EntryWord(req'[u], k - 1)
    BY <1>1, <1>4 DEF RingInv, MemInv, Cell
  <2> QED
    BY <2>1, <2>2 DEF MemInv, Cell, Offset, EntryWord, FlagWord
<1>15. WordsInv'
  <2>1. /\ cl' = cl /\ ReadAt' = ReadAt /\ ReadAt \in Nat
        /\ cl.phase # "idle" => ReadAt <= sequencer
        /\ cl.phase = "read" => ReadAt < sequencer
    <3>1. cl' = cl /\ cl.begin \in Nat /\ cl.end \in Nat /\ Len(cl.words) \in Nat
      BY <1>1, <1>2, FetchFields DEF clVars
    <3>2. cl.phase # "idle" => cl.end <= sequencer
      BY DEF IInv, FetchInv
    <3>3. cl.phase = "read" => cl.begin + Len(cl.words) < cl.end
      BY DEF IInv, FetchInv
    <3>4. cl.phase = "parse" => cl.begin + Len(cl.words) = cl.end
      BY DEF IInv, FetchInv
    <3>5. cl.phase \in {"idle", "read", "parse"}
      BY <1>2, FetchFields
    <3> QED
      BY <1>2, <3>1, <3>2, <3>3, <3>4, <3>5 DEF ReadAt
  <2>2. ASSUME cl'.phase = "read", NEW i \in 1..Len(log') PROVE log'[i].seq + 1 # ReadAt'
    <3>1. CASE i = n + 1
      BY <1>2, <1>3, <1>5, <2>1, <2>2, <3>1
    <3>2. CASE i \in 1..n
      BY <1>n, <1>5, <2>1, <2>2, <3>2 DEF RingInv, WordsInv
    <3> QED
      BY <1>2, <1>5, <3>1, <3>2
  <2>3. ASSUME cl'.phase # "idle", NEW i \in (Len(fetched') + 1)..Len(log'), log'[i].seq + 2 <= ReadAt'
        PROVE  LET at == log'[i].seq - cl'.begin IN
             \/ cl'.words[at + 2] = FlagWord(0)
             \/ /\ ~BeingWritten(log[i])'
                /\ \A k \in 1..(log'[i].size) :
                      at + k <= Len(cl'.words) => cl'.words[at + k] = WordsOf(log'[i])[k]
    <3>1. i # n + 1
      BY <1>2, <1>3, <1>5, <2>1, <2>3
    <3>2. i \in (Len(fetched) + 1)..n /\ i \in 1..n /\ log'[i] = log[i]
      BY <1>1, <1>2, <1>5, <1>8, <2>3, <3>1
    <3>3. LET at == log[i].seq - cl.begin IN
             \/ cl.words[at + 2] = FlagWord(0)
             \/ /\ ~BeingWritten(log[i])
                /\ \A k \in 1..log[i].size :
                      at + k <= Len(cl.words) => cl.words[at + k] = WordsOf(log[i])[k]
      BY <1>n, <2>1, <2>3, <3>2 DEF RingInv, WordsInv
    <3>4. BeingWritten(log[i])' <=> BeingWritten(log[i])
      BY <1>12, <3>2
    <3> QED
      BY <2>1, <3>2, <3>3, <3>4
  <2> QED
    BY <2>2, <2>3 DEF WordsInv, WordsOf
<1> QED
  BY <1>7, <1>9, <1>10, <1>13, <1>14, <1>15 DEF RingInv

\* The words of two entries of the log are different ones.
LEMMA EntriesApart ==
    ASSUME TypeOK, LogInv, NEW i \in 1..Len(log), NEW j \in 1..Len(log), i # j,
           NEW k \in 1..log[i].size
    PROVE  log[i].seq + k - 1 \notin log[j].seq..(log[j].seq + log[j].size - 1)
<1>1. /\ log[i].seq \in Nat /\ log[i].size \in Nat /\ Start(i) = log[i].seq
      /\ log[j].seq \in Nat /\ log[j].size \in Nat /\ Start(j) = log[j].seq
      /\ Len(log) \in Nat
  BY EntryFacts, LenFacts
<1>2. CASE i < j
  <2>0. j \in (i + 1)..(Len(log) + 1)
    BY <1>1, <1>2
  <2>1. log[i].seq + log[i].size <= Start(j)
    BY <2>0 DEF LogInv
  <2> QED
    BY <1>1, <2>1
<1>3. CASE j < i
  <2>1. log[j].seq + log[j].size <= Start(i)
    BY <1>1, <1>3 DEF LogInv
  <2> QED
    BY <1>1, <2>1
<1> QED
  BY <1>2, <1>3

\* A place among the words of an entry is that of one of them.
LEMMA InPiece ==
    ASSUME NEW o \in Nat, NEW n \in Nat, NEW x \in Nat, x \in o..(o + n - 1)
    PROVE  \E k \in 1..n : x = o + k - 1
<1>1. x - o + 1 \in 1..n /\ x = o + (x - o + 1) - 1
  OBVIOUS
<1> QED
  BY <1>1

\* A write into the words of a thread's own entry, which leaves that entry
\* serialized, or whole and flagged, harms no other entry.
LEMMA WriteFrame ==
    ASSUME IInv, RingInv, AllInOnePiece, NEW t \in Threads, Writing(t),
           UNCHANGED <<sequencer, indexer, ordered_watermk, ordered_idx_watermk, req, clVars, log, fetched>>,
           NEW p \in {"setFlag", "idle"}, pc' = [pc EXCEPT ![t] = p],
           \A x \in Address : x \notin Offset(req[t].seq)..(Offset(req[t].seq) + req[t].size - 1)
                                 => mem'[x] = mem[x],
           p = "setFlag" => \A k \in 1..req[t].size :
                               mem'[Offset(req[t].seq) + k - 1] = EntryWord(req[t], k - 1),
           p = "idle" => \A k \in 1..req[t].size :
                               mem'[Offset(req[t].seq) + k - 1] = WordsOf(req[t])[k]
    PROVE  RingInv'
<1>1. TypeOK /\ LogInv /\ pc \in [Threads -> Phases] /\ MemInv /\ WriterInv /\ UnorderedIntact
  BY DEF IInv, TypeOK, RingInv, MemInv
<1>2. pc'[t] = p /\ \A u \in Threads : u # t => pc'[u] = pc[u]
  BY <1>1
<1>3. /\ req[t] \in Entry /\ req[t].seq \in Nat /\ req[t].size \in Nat /\ req[t].size >= 2
      /\ req[t].idx + 1 \in 1..Len(log) /\ log[req[t].idx + 1] = req[t]
      /\ InOnePiece(req[t]) /\ \A k \in 1..req[t].size : Live(req[t].seq + k - 1)
  BY WriterFacts
<1>4. LogInv' /\ TakenInv' /\ BatchInv' /\ Taken' = Taken
  BY ThreadFrame
<1>5. ASSUME NEW u \in Threads, Writing(u)' PROVE Writing(u)
  BY <1>2, <1>5 DEF Writing
<1>6. WriterInv'
  <2>1. ASSUME NEW u \in Threads PROVE pc'[u] # "copyTail" /\ (pc'[u] = "claimed" => req'[u].idx = indexer')
    BY <1>1, <1>2 DEF WriterInv
  <2>2. ASSUME NEW u \in Threads, Writing(u)'
        PROVE  /\ req'[u].idx \in Taken'..(Len(log') - 1) /\ log'[req'[u].idx + 1] = req'[u]
               /\ \A v \in Threads : Writing(v)' /\ req'[v] = req'[u] => v = u
    BY <1>1, <1>4, <1>5, <2>2 DEF WriterInv
  <2> QED
    BY <2>1, <2>2 DEF WriterInv
<1>7. ASSUME NEW e, BeingWritten(e)' PROVE BeingWritten(e)
  BY <1>2, <1>7 DEF BeingWritten, Writing
<1>8. WordsInv'
  <2>1. UNCHANGED <<cl, log, fetched>>
    BY DEF clVars
  <2>2. \A i \in 1..Len(log) : BeingWritten(log[i])' => BeingWritten(log[i])
    BY <1>7, <2>1 DEF BeingWritten
  <2> QED
    BY <1>1, <2>1, <2>2, WordsFrame
<1>9. ASSUME NEW s, Live(s), s \notin req[t].seq..(req[t].seq + req[t].size - 1)
      PROVE  mem'[Offset(s)] = mem[Offset(s)]
  <2>1. s \in Nat /\ Offset(s) \in Nat /\ Offset(s) < RgSize /\ Offset(s) \in Address
    <3>1. s \in Nat
      BY <1>9 DEF Live
    <3>2. Offset(s) \in Nat /\ Offset(s) < RgSize
      BY <3>1, OffsetInRing
    <3> QED
      BY <3>1, <3>2 DEF Address
  <2>2. ASSUME Offset(s) \in Offset(req[t].seq)..(Offset(req[t].seq) + req[t].size - 1) PROVE FALSE
    <3>0. Offset(req[t].seq) \in Nat
      BY <1>3, OffsetInRing
    <3>1. PICK k \in 1..req[t].size : Offset(s) = Offset(req[t].seq) + k - 1
      <4> DEFINE o == Offset(req[t].seq)
                 n == req[t].size
                 x == Offset(s)
      <4>1. o \in Nat /\ n \in Nat /\ x \in Nat /\ x \in o..(o + n - 1)
        BY <1>3, <2>1, <2>2, <3>0
      <4> HIDE DEF o, n, x
      <4>2. \E k \in 1..n : x = o + k - 1
        BY <4>1, InPiece
      <4> QED
        BY <4>2 DEF o, n, x
    <3>2. Offset(req[t].seq + k - 1) = Offset(req[t].seq) + k - 1
      BY <1>3, PiecePlaces
    <3>3. s = req[t].seq + k - 1
      <4>1. Live(req[t].seq + k - 1)
        BY <1>3
      <4>2. Offset(s) = Offset(req[t].seq + k - 1)
        BY <3>1, <3>2
      <4> QED
        BY <1>9, <4>1, <4>2, LiveDistinct
    <3>4. s \in req[t].seq..(req[t].seq + req[t].size - 1)
      BY <1>3, <3>3
    <3> QED
      BY <1>9, <3>4
  <2> QED
    BY <2>1, <2>2
<1>10. ASSUME NEW i \in 1..Len(log), log[i] # req[t], NEW k \in 1..log[i].size,
              Live(log[i].seq + k - 1)
       PROVE  mem'[Offset(log[i].seq + k - 1)] = mem[Offset(log[i].seq + k - 1)]
  <2> DEFINE j == req[t].idx + 1
  <2>1. j \in 1..Len(log) /\ i # j /\ log[j] = req[t]
    BY <1>3, <1>10
  <2> HIDE DEF j
  <2>2. log[i].seq + k - 1 \notin log[j].seq..(log[j].seq + log[j].size - 1)
    BY <1>1, <1>10, <2>1, EntriesApart
  <2> QED
    BY <1>9, <1>10, <2>1, <2>2
<1>11. UnorderedIntact'
  <2> SUFFICES ASSUME NEW i \in DOMAIN log', log'[i].seq >= ordered_watermk', ~BeingWritten(log[i])',
                      NEW k \in 1..(log'[i].size)
               PROVE  mem'[Offset(log'[i].seq + k - 1)] = WordsOf(log'[i])[k]
    BY DEF UnorderedIntact, WordsOf, Offset
  <2>0. /\ i \in 1..Len(log) /\ log'[i] = log[i] /\ log[i].seq >= ordered_watermk
        /\ k \in 1..log[i].size /\ i \in DOMAIN log
    BY <1>1, LenFacts
  <2>1. CASE log[i] = req[t]
    <3>1. p = "idle"
      BY <1>2, <2>0, <2>1 DEF BeingWritten
    <3>2. Offset(req[t].seq + k - 1) = Offset(req[t].seq) + k - 1
      BY <1>3, <2>0, <2>1, PiecePlaces
    <3> QED
      BY <2>0, <2>1, <3>1, <3>2
  <2>2. CASE log[i] # req[t]
    <3>1. ~BeingWritten(log[i])
      BY <1>2, <2>0, <2>2 DEF BeingWritten
    <3>2. mem[Offset(log[i].seq + k - 1)] = WordsOf(log[i])[k]
      BY <1>1, <2>0, <3>1 DEF UnorderedIntact
    <3>3. Live(log[i].seq + k - 1)
      BY <2>0, EntryIsLive
    <3> QED
      BY <1>10, <2>0, <2>2, <3>2, <3>3
  <2> QED
    BY <2>1, <2>2
<1>12. ASSUME NEW u \in Threads, Writing(u), u # t, NEW k \in 1..req[u].size
       PROVE  /\ mem'[Offset(req[u].seq + k - 1)] = mem[Offset(req[u].seq + k - 1)]
              /\ Offset(req[u].seq + k - 1) = Offset(req[u].seq) + k - 1
  <2> DEFINE j == req[u].idx + 1
  <2>1. /\ j \in 1..Len(log) /\ log[j] = req[u] /\ Live(req[u].seq + k - 1)
        /\ req[u] \in Entry /\ InOnePiece(req[u])
    BY <1>12, WriterFacts
  <2>2. req[u] # req[t]
    BY <1>1, <1>12 DEF WriterInv
  <2> HIDE DEF j
  <2>3. mem'[Offset(log[j].seq + k - 1)] = mem[Offset(log[j].seq + k - 1)]
    BY <1>10, <1>12, <2>1, <2>2
  <2>4. Offset(req[u].seq + k - 1) = Offset(req[u].seq) + k - 1
    BY <1>12, <2>1, PiecePlaces
  <2> QED
    BY <2>1, <2>3, <2>4
<1>13. ASSUME NEW u \in Threads, pc'[u] \in {"claimed", "serialize"}
       PROVE  mem'[Offset(req'[u].seq) + 1] = FlagWord(0)
  <2>0. u # t /\ pc[u] = pc'[u] /\ mem[Offset(req[u].seq) + 1] = FlagWord(0)
    BY <1>1, <1>2, <1>13 DEF MemInv
  <2>1. CASE pc[u] = "serialize"
    <3>1. Writing(u)
      BY <2>1 DEF Writing
    <3>2. req[u].seq \in Nat /\ 2 \in 1..req[u].size
      BY <3>1, WriterFacts
    <3>3. /\ mem'[Offset(req[u].seq + 2 - 1)] = mem[Offset(req[u].seq + 2 - 1)]
          /\ Offset(req[u].seq + 2 - 1) = Offset(req[u].seq) + 2 - 1
      BY <1>12, <2>0, <3>1, <3>2
    <3>4. Offset(req[u].seq) + 2 - 1 = Offset(req[u].seq) + 1
      BY <3>2, OffsetInRing
    <3> QED
      BY <2>0, <3>3, <3>4
  <2>2. CASE pc[u] = "claimed"
    <3>1. req[u].seq = sequencer /\ req[u].size \in Sizes /\ sequencer \in Nat
      BY <1>1, <2>2 DEF IInv, ThreadInv, TypeOK
    <3>2. MaxSize >= 2
      BY <3>1, LargestIsEntry
    <3>3. Offset(sequencer) \in Nat /\ Offset(sequencer) < RgSize
      BY <3>1, OffsetInRing
    <3>4. Offset(sequencer) + 1 \in Address
      BY <3>2, <3>3 DEF Address
    <3>5. ASSUME Offset(sequencer) + 1 \in Offset(req[t].seq)..(Offset(req[t].seq) + req[t].size - 1)
          PROVE FALSE
      <4> DEFINE o == Offset(req[t].seq)
                 n == req[t].size
                 x == Offset(sequencer) + 1
      <4>0. o \in Nat /\ n \in Nat
        BY <1>3, OffsetInRing
      <4>a. x \in Nat
        BY <3>3
      <4>b. x \in o..(o + n - 1)
        BY <3>5
      <4> HIDE DEF o, n, x
      <4>c. \E k \in 1..n : x = o + k - 1
        BY <4>0, <4>a, <4>b, InPiece
      <4>1. PICK k \in 1..req[t].size : Offset(sequencer) + 1 = Offset(req[t].seq) + k - 1
        BY <4>c DEF o, n, x
      <4>2. Offset(req[t].seq + k - 1) = Offset(req[t].seq) + k - 1
        BY <1>3, PiecePlaces
      <4>3. Offset(req[t].seq + k - 1) # Offset(sequencer) + 1
        BY <1>3, <2>2, ClaimedApart
      <4> QED
        BY <4>1, <4>2, <4>3
    <3>6. mem'[Offset(sequencer) + 1] = mem[Offset(sequencer) + 1]
      BY <3>4, <3>5
    <3> QED
      BY <2>0, <3>1, <3>6
  <2> QED
    BY <1>13, <2>0, <2>1, <2>2
<1>14. ASSUME NEW u \in Threads, pc'[u] = "setFlag", NEW k \in 1..(req'[u].size)
       PROVE  mem'[Offset(req'[u].seq + k - 1)] = EntryWord(req'[u], k - 1)
  <2>1. CASE u = t
    <3>1. p = "setFlag"
      BY <1>2, <1>14, <2>1
    <3>2. Offset(req[t].seq + k - 1) = Offset(req[t].seq) + k - 1
      BY <1>3, <1>14, <2>1, PiecePlaces
    <3> QED
      BY <1>14, <2>1, <3>1, <3>2
  <2>2. CASE u # t
    <3>1. pc[u] = "setFlag" /\ Writing(u)
      BY <1>2, <1>14, <2>2 DEF Writing
    <3>2. mem[Offset(req[u].seq + k - 1)] = EntryWord(req[u], k - 1)
      BY <1>1, <1>14, <3>1 DEF MemInv, Cell
    <3> QED
      BY <1>12, <1>14, <2>2, <3>1, <3>2
  <2> QED
    BY <2>1, <2>2
<1>15. MemInv'
  BY <1>11, <1>13, <1>14 DEF MemInv, Cell, Offset, EntryWord, FlagWord
<1> QED
  BY <1>4, <1>6, <1>8, <1>15 DEF RingInv

\* The words of an entry go to its own place.
LEMMA SerializeRing ==
    ASSUME IInv, RingInv, AllInOnePiece, NEW t \in Threads, Serialize(t)
    PROVE  RingInv'
<1> DEFINE o == Offset(req[t].seq)
<1>1. /\ UNCHANGED <<sequencer, indexer, ordered_watermk, ordered_idx_watermk, req, clVars, log, fetched>>
      /\ pc[t] = "serialize" /\ pc' = [pc EXCEPT ![t] = "setFlag"]
      /\ mem' = [a \in Address |->
                 IF a \in o..(o + req[t].size - 1) THEN EntryWord(req[t], a - o) ELSE mem[a]]
  BY DEF Serialize, Goto
<1>2. Writing(t)
  BY <1>1 DEF Writing
<1>3. /\ req[t] \in Entry /\ InOnePiece(req[t]) /\ req[t].seq \in Nat /\ req[t].size \in Nat
  BY <1>2, WriterFacts
<1>4. ASSUME NEW k \in 1..req[t].size PROVE mem'[o + k - 1] = EntryWord(req[t], k - 1)
  <2>1. o \in Nat /\ o + k - 1 \in Address
    BY <1>3, PiecePlaces
  <2>2. o + k - 1 \in o..(o + req[t].size - 1) /\ (o + k - 1) - o = k - 1
    BY <1>3, <2>1
  <2> HIDE DEF o
  <2> QED
    BY <1>1, <2>1, <2>2
<1>5. \A x \in Address : x \notin o..(o + req[t].size - 1) => mem'[x] = mem[x]
  BY <1>1
<1> QED
  BY <1>1, <1>2, <1>4, <1>5, WriteFrame

\* The flag goes behind the metadata, and makes the entry whole.
LEMMA SetFlagRing ==
    ASSUME IInv, RingInv, AllInOnePiece, NEW t \in Threads, SetFlag(t)
    PROVE  RingInv'
<1> DEFINE o == Offset(req[t].seq)
<1>1. /\ UNCHANGED <<sequencer, indexer, ordered_watermk, ordered_idx_watermk, req, clVars, log, fetched>>
      /\ pc[t] = "setFlag"
      /\ mem' = [mem EXCEPT ![o + 1] = FlagWord(1)]
      /\ o + req[t].size <= RgSize => pc' = [pc EXCEPT ![t] = "idle"]
  <2>1. o \in Nat /\ req[t].size \in Nat
    BY OffsetInRing DEF IInv, TypeOK, Entry
  <2> QED
    BY <2>1 DEF SetFlag, Goto
<1>2. Writing(t)
  BY <1>1 DEF Writing
<1>3. /\ req[t] \in Entry /\ InOnePiece(req[t]) /\ req[t].seq \in Nat /\ req[t].size \in Nat
      /\ req[t].size >= 2
  BY <1>2, WriterFacts
<1>4. pc' = [pc EXCEPT ![t] = "idle"]
  BY <1>1, <1>3 DEF InOnePiece
<1>5. mem \in [Address -> Word]
  BY DEF IInv, TypeOK
<1>6. ASSUME NEW k \in 1..req[t].size PROVE mem'[o + k - 1] = WordsOf(req[t])[k]
  <2>1. /\ o \in Nat /\ o + k - 1 \in Address
        /\ Offset(req[t].seq + k - 1) = o + k - 1
    BY <1>3, PiecePlaces
  <2>2. mem[o + k - 1] = EntryWord(req[t], k - 1)
    BY <1>1, <2>1 DEF RingInv, MemInv, Cell
  <2>3. WordsOf(req[t])[k] = IF k = 2 THEN FlagWord(1) ELSE EntryWord(req[t], k - 1)
    BY DEF WordsOf
  <2>4. o + k - 1 = o + 1 <=> k = 2
    BY <1>3, <2>1
  <2> HIDE DEF o
  <2> QED
    BY <1>1, <1>5, <2>1, <2>2, <2>3, <2>4
<1>7. ASSUME NEW x \in Address, x \notin o..(o + req[t].size - 1) PROVE mem'[x] = mem[x]
  <2>1. o \in Nat
    BY <1>3, OffsetInRing
  <2> HIDE DEF o
  <2>2. x # o + 1
    BY <1>3, <1>7, <2>1
  <2> QED
    BY <1>1, <1>5, <2>2
<1> QED
  BY <1>1, <1>2, <1>4, <1>6, <1>7, WriteFrame

-----------------------------------------------------------------------------
(* The steps of a fetch *)

\* The consensus log leaves the log and the ring alone.
LEMMA FetchFrame ==
    ASSUME RingInv, UNCHANGED <<ringVars, threadVars, log>>
    PROVE  /\ LogInv' /\ MemInv'
           /\ Taken' = Taken => WriterInv'
           /\ \A i \in Nat : Start(i)' = Start(i)
<1>1. /\ UNCHANGED <<mem, sequencer, indexer, ordered_watermk, ordered_idx_watermk>>
      /\ UNCHANGED <<pc, req, log>>
  BY DEF ringVars, threadVars
<1>2. LogInv'
  BY <1>1 DEF RingInv, LogInv, Start
<1>3. MemInv'
  <2>1. ASSUME NEW e PROVE BeingWritten(e)' <=> BeingWritten(e)
    BY <1>1 DEF BeingWritten
  <2>2. UnorderedIntact'
    <3>1. UnorderedIntact
      BY DEF RingInv, MemInv
    <3>2. ASSUME NEW i \in DOMAIN log', log'[i].seq >= ordered_watermk', ~BeingWritten(log[i])',
                 NEW k \in 1..(log'[i].size)
          PROVE  mem'[Offset(log'[i].seq + k - 1)] = WordsOf(log'[i])[k]
      BY <1>1, <2>1, <3>1, <3>2 DEF UnorderedIntact
    <3> QED
      BY <3>2 DEF UnorderedIntact
  <2> QED
    BY <1>1, <2>2 DEF RingInv, MemInv, Cell
<1>4. Taken' = Taken => WriterInv'
  BY <1>1 DEF RingInv, WriterInv, Writing
<1>5. \A i \in Nat : Start(i)' = Start(i)
  BY <1>1, StartKept
<1> QED
  BY <1>2, <1>3, <1>4, <1>5

\* The watermark and the next fetch are starts of entries of the log.
LEMMA FetchPlaces ==
    ASSUME IInv, RingInv
    PROVE  /\ TypeOK /\ LogInv
           /\ Len(log) \in Nat /\ Len(fetched) \in Nat /\ Len(es) \in Nat /\ Taken \in Nat
           /\ Taken = Len(fetched) + Len(es) /\ Taken <= Len(log)
           /\ fetch_begin = Start(Len(fetched) + 1)
           /\ \A i \in (Len(fetched) + 1)..Len(log) : fetch_begin <= log[i].seq
<1>1. TypeOK /\ LogInv /\ Len(log) \in Nat /\ Len(fetched) \in Nat /\ Len(es) \in Nat
  BY LenFacts DEF IInv, RingInv
<1>2. /\ Taken \in Nat /\ Taken = Len(fetched) + Len(es) /\ Taken <= Len(log)
      /\ fetch_begin = Start(Len(fetched) + 1)
  BY <1>1 DEF Taken, RingInv, TakenInv
<1>3. ASSUME NEW i \in (Len(fetched) + 1)..Len(log) PROVE fetch_begin <= log[i].seq
  <2> DEFINE d == Len(fetched) + 1
  <2>1. d \in 1..(Len(log) + 1) /\ i \in d..(Len(log) + 1) /\ i \in 1..Len(log)
    BY <1>1, <1>2
  <2>2. Start(d) <= Start(i)
    BY <1>1, <2>1, StartFacts
  <2> QED
    BY <1>1, <1>2, <2>1, <2>2, EntryFacts
<1> QED
  BY <1>1, <1>2, <1>3

\* A fetch starts with the first entry that was not fetched.
LEMMA FetchRangeRing ==
    ASSUME IInv, RingInv, FetchRange
    PROVE  RingInv'
<1>1. /\ UNCHANGED <<ringVars, threadVars, fetch_begin, es, batches, log, fetched>>
      /\ cl'.phase = "read" /\ cl'.begin = fetch_begin /\ cl'.words = <<>>
  <2>1. ordered_watermk <= fetch_begin /\ ordered_watermk \in Nat /\ fetch_begin \in Nat
    BY FetchFields DEF IInv, QueueInv
  <2>2. MaxOf(ordered_watermk, fetch_begin) = fetch_begin
    BY <2>1 DEF MaxOf
  <2> QED
    BY <2>2 DEF FetchRange
<1>2. /\ TypeOK /\ LogInv /\ Len(log) \in Nat /\ Len(fetched) \in Nat
      /\ Len(fetched) <= Len(log) /\ fetch_begin = Start(Len(fetched) + 1)
      /\ \A i \in (Len(fetched) + 1)..Len(log) : fetch_begin <= log[i].seq
  BY FetchPlaces
<1>3. fetch_begin \in Nat /\ cl'.begin + Len(cl'.words) = fetch_begin
  BY <1>1, <1>2, FetchFields
<1>4. LogInv' /\ MemInv' /\ WriterInv'
  BY <1>1, FetchFrame DEF Taken
<1>5. TakenInv'
  <2>1. UNCHANGED <<log, sequencer, fetched, es, fetch_begin>>
    BY <1>1 DEF ringVars
  <2>2. /\ Taken <= Len(log) /\ Taken' = Taken
        /\ \A i \in 1..Len(fetched) : fetched[i] = WordsOf(log[i])
        /\ \A i \in 1..Len(es) : es[i] = WordsOf(log[Len(fetched) + i])
    BY <2>1 DEF RingInv, TakenInv, Taken
  <2>3. fetch_begin' = Start(Len(fetched) + 1)'
    BY <1>2, <2>1 DEF Start
  <2> QED
    BY <1>1, <2>1, <2>2, <2>3 DEF TakenInv, WordsOf
<1>6. BatchInv'
  BY <1>1 DEF RingInv, BatchInv, Start, ringVars
<1>7. ASSUME NEW i \in 1..Len(log) PROVE log[i].seq + 1 # fetch_begin
  <2> DEFINE d == Len(fetched) + 1
  <2>1. log[i].seq \in Nat /\ Start(i) = log[i].seq /\ d \in 1..(Len(log) + 1)
    BY <1>2, EntryFacts
  <2>2. CASE i < d
    <3>1. i \in 1..(Len(log) + 1) /\ d \in (i + 1)..(Len(log) + 1)
      BY <1>2, <2>1, <2>2
    <3>2. Start(i) + 2 <= Start(d)
      BY <1>2, <3>1, StartFacts
    <3> QED
      BY <1>2, <1>3, <2>1, <3>2
  <2>3. CASE i >= d
    BY <1>2, <1>3, <2>1, <2>3
  <2> QED
    BY <1>2, <2>2, <2>3
<1>8. ASSUME NEW i \in (Len(fetched) + 1)..Len(log) PROVE ~(log[i].seq + 2 <= fetch_begin)
  BY <1>2, <1>3, EntryFacts
<1>9. WordsInv'
  BY <1>1, <1>3, <1>7, <1>8 DEF WordsInv, ReadAt
<1> QED
  BY <1>4, <1>5, <1>6, <1>9 DEF RingInv

\* A line that is not the last of the range ends where a line or the ring does.
LEMMA LineEnds ==
    ASSUME TypeOK, FetchInv, cl.phase = "read", ReadAt + LineLen # cl.end
    PROVE  \/ (Offset(ReadAt) + LineLen - 1) % LineSize = LineSize - 1
           \/ Offset(ReadAt) + LineLen = RgSize
<1> DEFINE o == Offset(ReadAt)
           q == o \div LineSize
           r == o % LineSize
<1>1. ReadAt \in Nat /\ o \in Nat /\ o < RgSize /\ cl.end \in Nat /\ LineLen \in Nat
  BY LineInRing, OffsetInRing, FetchFields
<1>2. q \in Nat /\ r \in 0..(LineSize - 1) /\ o = LineSize * q + r
  BY <1>1, DivMod
<1> HIDE DEF q, r
<1>3. LineLen = MinOf(MinOf(LineSize - r, RgSize - o), cl.end - ReadAt)
  BY DEF LineLen, r
<1>4. LineLen # cl.end - ReadAt
  BY <1>1
<1> HIDE DEF o
<1>5. LineLen = LineSize - r \/ LineLen = RgSize - o
  BY <1>1, <1>2, <1>3, <1>4 DEF MinOf
<1>6. CASE LineLen = RgSize - o
  BY <1>1, <1>6 DEF o
<1>7. CASE LineLen = LineSize - r
  <2>1. o + LineLen - 1 = LineSize * q + (LineSize - 1) /\ LineSize - 1 \in 0..(LineSize - 1)
    BY <1>1, <1>2, <1>7
  <2>2. (LineSize * q + (LineSize - 1)) % LineSize = LineSize - 1
    BY <1>2, <2>1, Quotient
  <2> QED
    BY <2>1, <2>2 DEF o
<1> QED
  BY <1>5, <1>6, <1>7

\* The words of a line are those at its sequence numbers.
LEMMA LineWords ==
    ASSUME TypeOK, FetchInv, ReadLine, NEW k \in 1..(Len(cl.words) + LineLen)
    PROVE  /\ k <= Len(cl.words) => cl'.words[k] = cl.words[k]
           /\ k > Len(cl.words) => cl'.words[k] = mem[Offset(cl.begin + k - 1)]
<1> DEFINE line == [j \in 1..LineLen |-> mem[Offset(ReadAt) + j - 1]]
<1>1. cl.phase = "read" /\ mem \in [Address -> Word]
  BY DEF ReadLine, TypeOK
<1>2. /\ ReadAt \in Nat /\ Offset(ReadAt) \in Nat /\ LineLen \in Nat
      /\ Offset(ReadAt) + LineLen <= RgSize
  BY <1>1, LineInRing
<1>3. line \in Seq(Word) /\ Len(line) = LineLen
  BY <1>1, <1>2, LineOfWords
<1>4. cl'.words = cl.words \o line
  BY DEF ReadLine, TypeOK
<1>5. cl.words \in Seq(Word) /\ Len(cl.words) \in Nat /\ cl.begin \in Nat
  BY FetchFields
<1>6. CASE k <= Len(cl.words)
  <2> HIDE DEF line
  <2>1. (cl.words \o line)[k] = cl.words[k]
    BY <1>3, <1>5, <1>6, ConcatProperties
  <2> QED
    BY <1>4, <1>5, <1>6, <2>1
<1>7. CASE k > Len(cl.words)
  <2> DEFINE j == k - Len(cl.words)
  <2>1. j \in 1..LineLen /\ j - 1 \in Nat /\ k = Len(cl.words) + j
    BY <1>2, <1>5, <1>7
  <2>2. line[j] = mem[Offset(ReadAt) + j - 1]
    BY <2>1
  <2> HIDE DEF line, j
  <2>3. (cl.words \o line)[k] = line[j]
    BY <1>2, <1>3, <1>5, <1>7, <2>1, ConcatProperties DEF j
  <2>4. Offset(ReadAt + (j - 1)) = Offset(ReadAt) + (j - 1)
    <3>1. Offset(ReadAt) + (j - 1) < RgSize
      BY <1>2, <2>1
    <3> QED
      BY <1>2, <2>1, <3>1, SameLap
  <2>5. ReadAt + (j - 1) = cl.begin + k - 1 /\ Offset(ReadAt) + (j - 1) = Offset(ReadAt) + j - 1
    BY <1>2, <1>5, <2>1 DEF ReadAt
  <2> QED
    BY <1>4, <1>5, <1>7, <2>2, <2>3, <2>4, <2>5
<1> QED
  BY <1>5, <1>6, <1>7

\* While an entry is written, its flag is 0 in the ring.
LEMMA FlagOfWritten ==
    ASSUME IInv, RingInv, AllInOnePiece, NEW i \in 1..Len(log), BeingWritten(log[i])
    PROVE  mem[Offset(log[i].seq + 2 - 1)] = FlagWord(0)
<1>1. PICK t \in Threads : Writing(t) /\ req[t] = log[i]
  BY WriterIs DEF RingInv
<1>2. /\ req[t] \in Entry /\ InOnePiece(req[t]) /\ req[t].seq \in Nat /\ 2 \in 1..req[t].size
  BY <1>1, WriterFacts
<1>3. CASE pc[t] = "serialize"
  <2>1. Offset(req[t].seq + 2 - 1) = Offset(req[t].seq) + 2 - 1 /\ Offset(req[t].seq) \in Nat
    BY <1>2, PiecePlaces
  <2>2. Offset(req[t].seq) + 2 - 1 = Offset(req[t].seq) + 1
    BY <2>1
  <2>3. mem[Offset(req[t].seq) + 1] = FlagWord(0)
    BY <1>3 DEF RingInv, MemInv
  <2> QED
    BY <1>1, <2>1, <2>2, <2>3
<1>4. CASE pc[t] = "setFlag"
  <2>1. mem[Offset(req[t].seq + 2 - 1)] = EntryWord(req[t], 2 - 1)
    BY <1>2, <1>4 DEF RingInv, MemInv, Cell
  <2>2. EntryWord(req[t], 2 - 1) = FlagWord(0)
    BY DEF EntryWord
  <2> QED
    BY <1>1, <2>1, <2>2
<1> QED
  BY <1>1, <1>3, <1>4 DEF Writing

\* An entry that is not being written and not fetched is whole in the ring.
LEMMA WholeInRing ==
    ASSUME IInv, RingInv, NEW i \in 1..Len(log), i > Len(fetched), ~BeingWritten(log[i]),
           NEW k \in 1..log[i].size
    PROVE  mem[Offset(log[i].seq + k - 1)] = WordsOf(log[i])[k]
<1>1. ordered_watermk <= log[i].seq
  BY EntryIsLive
<1>2. log[i].seq \in Nat /\ ordered_watermk \in Nat /\ i \in DOMAIN log
  BY EntryFacts, LenFacts DEF IInv, RingInv, TypeOK
<1>3. log[i].seq >= ordered_watermk
  BY <1>1, <1>2
<1> QED
  BY <1>2, <1>3 DEF RingInv, MemInv, UnorderedIntact

\* A line brings the metadata of an entry with its flag, or none of it; what
\* follows a flag is what was written.
LEMMA ReadLineRing ==
    ASSUME IInv, RingInv, AllInOnePiece, ReadLine
    PROVE  RingInv'
<1> DEFINE n == Len(cl.words)
           L == LineLen
<1>1. /\ UNCHANGED <<ringVars, threadVars, fetch_begin, es, batches, log, fetched>>
      /\ cl.phase = "read"
  BY DEF ReadLine
<1>2. /\ TypeOK /\ LogInv /\ FetchInv /\ Len(log) \in Nat /\ Len(fetched) \in Nat
      /\ fetch_begin = Start(Len(fetched) + 1)
      /\ \A i \in (Len(fetched) + 1)..Len(log) : fetch_begin <= log[i].seq
  BY FetchPlaces DEF IInv
<1>3. /\ es = <<>> /\ cl.begin = fetch_begin /\ cl.offset = 0 /\ cl.begin \in Nat
      /\ cl.end \in Nat /\ n \in Nat
  BY <1>1, <1>2, FetchFields DEF FetchInv
<1>4. /\ ReadAt \in Nat /\ Offset(ReadAt) \in Nat /\ L \in Nat /\ L >= 1 /\ ReadAt = cl.begin + n
      /\ Offset(ReadAt) + L <= RgSize
  BY <1>1, <1>2, LineInRing DEF ReadAt
<1>5. /\ Len(cl'.words) = n + L /\ cl'.begin = cl.begin /\ cl'.offset = 0
      /\ cl'.phase = IF ReadAt + L = cl.end THEN "parse" ELSE "read"
  BY <1>2, <1>3, ReadLineWords
<1>6. \A k \in 1..(n + L) : /\ k <= n => cl'.words[k] = cl.words[k]
                            /\ k > n => cl'.words[k] = mem[Offset(cl.begin + k - 1)]
  BY <1>2, LineWords
<1>7. ReadAt' = ReadAt + L
  BY <1>3, <1>4, <1>5 DEF ReadAt
<1> HIDE DEF n, L
<1>8. LogInv' /\ MemInv' /\ WriterInv'
  BY <1>1, FetchFrame DEF Taken
<1>9. TakenInv'
  <2>1. UNCHANGED <<log, sequencer, fetched, es, fetch_begin>>
    BY <1>1 DEF ringVars
  <2>2. cl'.begin + cl'.offset = fetch_begin /\ Len(fetched) + Len(es) + 1 = Len(fetched) + 1
    BY <1>2, <1>3, <1>5
  <2>3. /\ Taken <= Len(log) /\ Taken = Len(fetched) + Len(es)
        /\ \A i \in 1..Len(fetched) : fetched[i] = WordsOf(log[i])
        /\ \A i \in 1..Len(es) : es[i] = WordsOf(log[Len(fetched) + i])
    BY DEF RingInv, TakenInv, Taken
  <2> QED
    BY <1>2, <2>1, <2>2, <2>3 DEF TakenInv, Taken, Start, WordsOf
<1>10. BatchInv'
  BY <1>1 DEF RingInv, BatchInv, Start, ringVars
<1>11. ASSUME cl'.phase = "read", NEW i \in 1..Len(log) PROVE log[i].seq + 1 # ReadAt + L
  <2> SUFFICES ASSUME log[i].seq + 1 = ReadAt + L PROVE FALSE
    OBVIOUS
  <2>1. log[i].seq \in Nat /\ log[i].size \in Nat /\ log[i].size >= 2 /\ InOnePiece(log[i])
    BY <1>2, EntryFacts DEF AllInOnePiece
  <2>2. log[i].seq = ReadAt + (L - 1) /\ L - 1 \in Nat
    <3> DEFINE s == log[i].seq
               r == ReadAt
    <3>1. s \in Nat /\ r \in Nat /\ s + 1 = r + L /\ L \in Nat /\ L >= 1
      BY <1>4, <2>1
    <3> HIDE DEF s, r
    <3>2. s = r + (L - 1) /\ L - 1 \in Nat
      BY <3>1
    <3> QED
      BY <3>2 DEF s, r
  <2>3. Offset(ReadAt + (L - 1)) = Offset(ReadAt) + (L - 1)
    BY <1>4, <2>2, SameLap
  <2>4. Offset(log[i].seq) = Offset(ReadAt) + L - 1
    BY <1>4, <2>2, <2>3
  <2>5. ReadAt + L # cl.end
    BY <1>5, <1>11
  <2>6. CASE (Offset(ReadAt) + L - 1) % LineSize = LineSize - 1
    <3>1. Offset(log[i].seq) % LineSize = LineSize - 1
      BY <2>4, <2>6
    <3>2. (Offset(log[i].seq) % LineSize) + 2 <= LineSize
      BY <2>1 DEF InOnePiece
    <3> QED
      BY <3>1, <3>2
  <2>7. CASE Offset(ReadAt) + L = RgSize
    <3>1. Offset(log[i].seq) + log[i].size <= RgSize
      BY <2>1 DEF InOnePiece
    <3> QED
      BY <1>4, <2>1, <2>4, <2>7, <3>1
  <2> QED
    BY <1>1, <1>2, <2>5, <2>6, <2>7, LineEnds DEF L
<1>12. ASSUME NEW i \in (Len(fetched) + 1)..Len(log), log[i].seq + 2 <= ReadAt + L,
              NEW at, at = log[i].seq - cl.begin
       PROVE  \/ cl'.words[at + 2] = FlagWord(0)
              \/ /\ ~BeingWritten(log[i])
                 /\ \A k \in 1..log[i].size :
                       at + k <= n + L => cl'.words[at + k] = WordsOf(log[i])[k]
  <2>1. /\ i \in 1..Len(log) /\ i > Len(fetched) /\ log[i].seq \in Nat /\ log[i].size \in Nat
        /\ log[i].size >= 2
    BY <1>2, EntryFacts
  <2> DEFINE s == log[i].seq
             b == cl.begin
             m == log[i].size
  <2>a. /\ s \in Nat /\ b \in Nat /\ m \in Nat /\ m >= 2 /\ n \in Nat /\ L \in Nat
        /\ b <= s /\ at = s - b
    BY <1>2, <1>3, <1>4, <1>12, <2>1
  <2>b. ReadAt = b + n /\ s + 2 <= b + n + L
    BY <1>4, <1>12
  <2> HIDE DEF s, b, m
  <2>2. at \in Nat /\ s = b + at /\ at + 2 <= n + L
    BY <2>a, <2>b
  <2>3. ASSUME ~BeingWritten(log[i]), NEW k \in 1..log[i].size, at + k <= n + L, at + k > n
        PROVE  cl'.words[at + k] = WordsOf(log[i])[k]
    <3>0. k \in 1..m
      BY DEF m
    <3>1. at + k \in 1..(n + L) /\ b + (at + k) - 1 = s + k - 1
      BY <2>a, <2>2, <2>3, <3>0
    <3>2. mem[Offset(log[i].seq + k - 1)] = WordsOf(log[i])[k]
      BY <2>1, <2>3, WholeInRing
    <3> QED
      BY <1>6, <2>3, <3>1, <3>2 DEF s, b
  <2>4. CASE log[i].seq + 2 <= ReadAt
    <3>1. \/ cl.words[at + 2] = FlagWord(0)
          \/ /\ ~BeingWritten(log[i])
             /\ \A k \in 1..log[i].size : at + k <= n => cl.words[at + k] = WordsOf(log[i])[k]
      BY <1>1, <1>12, <2>4 DEF RingInv, WordsInv, n
    <3>a. s + 2 <= b + n
      BY <2>b, <2>4 DEF s
    <3>2. at + 2 <= n /\ at + 2 \in 1..(n + L)
      BY <2>a, <2>2, <3>a
    <3>3. CASE cl.words[at + 2] = FlagWord(0)
      BY <1>6, <3>2, <3>3
    <3>4. CASE /\ ~BeingWritten(log[i])
               /\ \A k \in 1..log[i].size : at + k <= n => cl.words[at + k] = WordsOf(log[i])[k]
      <4>1. ASSUME NEW k \in 1..log[i].size, at + k <= n + L
            PROVE  cl'.words[at + k] = WordsOf(log[i])[k]
        <5>1. CASE at + k > n
          BY <2>3, <3>4, <4>1, <5>1
        <5>2. CASE at + k <= n
          <6>1. at + k \in 1..(n + L)
            BY <2>a, <2>2, <4>1 DEF m
          <6> QED
            BY <1>6, <3>4, <5>2, <6>1
        <5> QED
          BY <2>a, <2>2, <4>1, <5>1, <5>2 DEF m
      <4> QED
        BY <3>4, <4>1
    <3> QED
      BY <3>1, <3>3, <3>4
  <2>5. CASE ~(log[i].seq + 2 <= ReadAt)
    <3>1. log[i].seq >= ReadAt
      <4>1. log[i].seq + 1 # ReadAt
        BY <1>1, <2>1 DEF RingInv, WordsInv
      <4> QED
        BY <1>4, <2>1, <2>5, <4>1
    <3>2. at >= n
      BY <2>a, <2>b, <2>2, <3>1 DEF s
    <3>3. CASE BeingWritten(log[i])
      <4>1. mem[Offset(log[i].seq + 2 - 1)] = FlagWord(0)
        BY <2>1, <3>3, FlagOfWritten
      <4>2. at + 2 \in 1..(n + L) /\ at + 2 > n /\ b + (at + 2) - 1 = s + 2 - 1
        BY <2>a, <2>2, <3>2
      <4> QED
        BY <1>6, <4>1, <4>2 DEF s, b
    <3>4. CASE ~BeingWritten(log[i])
      <4>1. \A k \in 1..log[i].size : at + k > n
        BY <2>a, <2>2, <3>2 DEF m
      <4> QED
        BY <2>3, <3>4, <4>1
    <3> QED
      BY <3>3, <3>4
  <2> QED
    BY <2>4, <2>5
<1>13. WordsInv'
  <2>1. log' = log /\ fetched' = fetched
    BY <1>1
  <2>2. \A i \in 1..Len(log) : BeingWritten(log[i])' <=> BeingWritten(log[i])
    BY <1>1 DEF BeingWritten, threadVars
  <2>3. cl'.phase = "read" => \A i \in 1..Len(log') : log'[i].seq + 1 # ReadAt'
    BY <1>7, <1>11, <2>1
  <2>4. ASSUME NEW i \in (Len(fetched') + 1)..Len(log'), log'[i].seq + 2 <= ReadAt'
        PROVE  LET at == log'[i].seq - cl'.begin IN
             \/ cl'.words[at + 2] = FlagWord(0)
             \/ /\ ~BeingWritten(log[i])'
                /\ \A k \in 1..(log'[i].size) :
                      at + k <= Len(cl'.words) => cl'.words[at + k] = WordsOf(log'[i])[k]
    <3>0. i \in (Len(fetched) + 1)..Len(log) /\ i \in 1..Len(log) /\ log'[i] = log[i]
          /\ log[i].seq + 2 <= ReadAt + L
      BY <1>2, <1>7, <2>1, <2>4
    <3> DEFINE at == log[i].seq - cl.begin
    <3>1. \/ cl'.words[at + 2] = FlagWord(0)
          \/ /\ ~BeingWritten(log[i])
             /\ \A k \in 1..log[i].size :
                   at + k <= n + L => cl'.words[at + k] = WordsOf(log[i])[k]
      BY <1>12, <3>0
    <3>2. BeingWritten(log[i])' <=> BeingWritten(log[i])
      BY <2>2, <3>0
    <3> QED
      BY <1>5, <3>0, <3>1, <3>2
  <2> QED
    BY <2>3, <2>4 DEF WordsInv, WordsOf
<1> QED
  BY <1>8, <1>9, <1>10, <1>13 DEF RingInv

\* What is deserialised is the next entry of the log, as its append wrote it.
LEMMA DeserializeRing ==
    ASSUME IInv, RingInv, DeserializeOne
    PROVE  RingInv'
<1>0. PICK i \in Nat : i = Taken + 1
  BY FetchPlaces
<1> DEFINE o == cl.offset
           b == cl.begin
           w == cl.words
           s == log[i].seq
<1>1. /\ UNCHANGED <<ringVars, threadVars, fetch_begin, batches, log, fetched>>
      /\ cl.phase = "parse" /\ Rest >= 2
  BY DEF DeserializeOne
<1>2. /\ TypeOK /\ LogInv /\ FetchInv /\ Len(log) \in Nat /\ Len(fetched) \in Nat /\ Len(es) \in Nat
      /\ Taken \in Nat /\ Taken = Len(fetched) + Len(es) /\ Taken <= Len(log)
      /\ \A j \in (Len(fetched) + 1)..Len(log) : fetch_begin <= log[j].seq
  BY FetchPlaces DEF IInv
<1>3. /\ b \in Nat /\ o \in Nat /\ Len(w) \in Nat /\ w \in Seq(Word) /\ sequencer \in Nat
      /\ cl.end \in Nat /\ cl.end = b + Len(w) /\ cl.end <= sequencer /\ ReadAt = cl.end
      /\ es \in Seq(Seq(Word) \ {<<>>})
  BY <1>1, <1>2, FetchFields DEF FetchInv, ReadAt, TypeOK
<1>4. o + 2 <= Len(w) /\ Rest = Len(w) - o
  BY <1>1, <1>3 DEF Rest
<1>5. i \in 1..Len(log) /\ i \in (Len(fetched) + 1)..Len(log) /\ s = b + o
  <2>1. b + o = Start(i)
    BY <1>0, <1>1 DEF RingInv, TakenInv
  <2>2. b + o < sequencer
    BY <1>3, <1>4
  <2>3. i <= Len(log)
    BY <1>2, <1>3, <2>1, <2>2 DEF Start
  <2> QED
    BY <1>0, <1>2, <2>1, <2>3 DEF Start
<1>6. PICK n \in SizesIn(w[o + 1]) :
        /\ n <= Rest
        /\ \E f \in FlagsIn(w[o + 2]) : f # 0
        /\ es' = Append(es, SubSeq(w, o + 1, o + n))
        /\ cl' = [cl EXCEPT !.offset = o + n]
  BY DEF DeserializeOne
<1>7. /\ log[i] \in Entry /\ s \in Nat /\ log[i].size \in Nat /\ log[i].size \in Sizes /\ log[i].size >= 2
      /\ log[i].idx = Taken /\ Start(i + 1) = s + log[i].size
  BY <1>0, <1>2, <1>5, EntryFacts
<1>8. w[o + 2] # FlagWord(0)
  BY <1>6 DEF FlagsIn, FlagWord
<1>9. /\ ~BeingWritten(log[i])
      /\ \A k \in 1..log[i].size : o + k <= Len(w) => w[o + k] = WordsOf(log[i])[k]
  <2>0. /\ b \in Nat /\ o \in Nat /\ Len(w) \in Nat /\ ReadAt = b + Len(w) /\ o + 2 <= Len(w)
        /\ s = b + o
    BY <1>3, <1>4, <1>5
  <2> HIDE DEF o, b, w, s
  <2>1. s + 2 <= ReadAt /\ s - b = o
    BY <2>0
  <2> USE DEF o, b, w, s
  <2>2. cl.phase # "idle"
    BY <1>1
  <2> QED
    BY <1>5, <1>8, <2>1, <2>2 DEF RingInv, WordsInv
<1>10. n = log[i].size
  <2>1. w[o + 1] = WordsOf(log[i])[1]
    <3>1. 1 \in 1..log[i].size
      BY <1>7
    <3>2. o + 1 <= Len(w)
      BY <1>3, <1>4
    <3> HIDE DEF o, w
    <3> QED
      BY <1>9, <3>1, <3>2
  <2>2. WordsOf(log[i])[1] = EntryWord(log[i], 1 - 1)
    BY <1>7 DEF WordsOf
  <2>3. SizesIn(w[o + 1]) = {log[i].size}
    BY <2>1, <2>2 DEF EntryWord, SizesIn
  <2> QED
    BY <1>6, <2>3
<1> HIDE DEF o, b, w, s
<1>11. SubSeq(w, o + 1, o + n) = WordsOf(log[i])
  <2>1. n \in Nat /\ n >= 2 /\ o + n <= Len(w)
    <3>1. o \in Nat /\ Len(w) \in Nat /\ n \in Nat /\ n >= 2
      BY <1>3, <1>7, <1>10
    <3>2. n <= Len(w) - o
      BY <1>4, <1>6
    <3> QED
      BY <3>1, <3>2
  <2>a. w \in Seq(Word) /\ o \in Nat /\ n \in Nat /\ 1 <= n /\ o + n <= Len(w)
    BY <1>3, <2>1
  <2>2. SubSeq(w, o + 1, o + n) = [k \in 1..n |-> w[o + k]]
    <3>1. \A W : w \in Seq(W) => SubSeq(w, o + 1, o + n) = [k \in 1..n |-> w[o + k]]
      BY <2>a, StretchOf
    <3> QED
      BY <2>a, <3>1
  <2>3. \A k \in 1..n : w[o + k] = WordsOf(log[i])[k]
    <3>1. ASSUME NEW k \in 1..n PROVE o + k <= Len(w)
      BY <1>3, <2>1
    <3> QED
      BY <1>9, <1>10, <3>1
  <2>4. WordsOf(log[i]) = [k \in 1..n |-> WordsOf(log[i])[k]]
    BY <1>10 DEF WordsOf
  <2>5. [k \in 1..n |-> w[o + k]] = [k \in 1..n |-> WordsOf(log[i])[k]]
    BY <2>3, Zenon
  <2> QED
    BY <2>2, <2>4, <2>5, Zenon
<1>12. /\ Len(es') = Len(es) + 1 /\ es'[Len(es) + 1] = WordsOf(log[i])
       /\ \A j \in 1..Len(es) : es'[j] = es[j]
  <2>1. es' = Append(es, WordsOf(log[i]))
    BY <1>6, <1>11
  <2>2. WordsOf(log[i]) \in Seq(Word) \ {<<>>}
    <3>1. SubSeq(w, o + 1, o + n) \in Seq(Word) \ {<<>>}
      <4>1. o \in Nat /\ Len(w) \in Nat /\ n \in Nat /\ n >= 2
        BY <1>3, <1>7, <1>10
      <4>2. n <= Len(w) - o
        BY <1>4, <1>6
      <4>3. 1 <= n /\ o + n <= Len(w)
        BY <4>1, <4>2
      <4> QED
        BY <1>3, <4>1, <4>3, SubSeqNonEmpty
    <3> QED
      BY <1>11, <3>1
  <2> QED
    BY <1>3, <2>1, <2>2, AppendTyped
<1>13. /\ cl'.phase = "parse" /\ cl'.begin = b /\ cl'.words = w /\ cl'.offset = o + n
       /\ cl'.end = cl.end
  BY <1>1, <1>2, <1>6 DEF TypeOK, b, w
<1>14. Taken' = i /\ Taken' = Len(fetched') + Len(es')
  BY <1>0, <1>1, <1>2, <1>12 DEF Taken
<1>15. LogInv' /\ MemInv' /\ \A j \in Nat : Start(j)' = Start(j)
  BY <1>1, FetchFrame
<1>16. WriterInv'
  <2>1. UNCHANGED <<pc, req, log, indexer>>
    BY <1>1 DEF threadVars, ringVars
  <2>2. ASSUME NEW t \in Threads, Writing(t) PROVE req[t].idx \in i..(Len(log) - 1)
    <3>1. req[t].idx \in Taken..(Len(log) - 1) /\ log[req[t].idx + 1] = req[t]
      BY <2>2 DEF RingInv, WriterInv
    <3>2. req[t].idx # Taken
      <4>1. req[t].idx = Taken => BeingWritten(log[i])
        BY <1>0, <2>2, <3>1 DEF BeingWritten, Writing
      <4> QED
        BY <1>9, <4>1
    <3> QED
      BY <1>0, <1>2, <3>1, <3>2
  <2> QED
    BY <1>14, <2>1, <2>2 DEF RingInv, WriterInv, Writing
<1>17. TakenInv'
  <2>1. Taken' <= Len(log') /\ fetched' = fetched /\ log' = log /\ fetch_begin' = fetch_begin
    BY <1>1, <1>2, <1>5, <1>14
  <2>2. fetch_begin' = Start(Len(fetched) + 1)'
    BY <1>1 DEF RingInv, TakenInv, Start, ringVars
  <2>3. cl'.begin + cl'.offset = Start(Taken + 1)'
    <3>1. cl'.begin + cl'.offset = Start(i + 1)
      BY <1>3, <1>5, <1>7, <1>10, <1>13
    <3> QED
      BY <1>1, <1>14, <3>1 DEF Start, ringVars
  <2>4. \A j \in 1..Len(fetched') : fetched'[j] = WordsOf(log'[j])
    BY <2>1 DEF RingInv, TakenInv
  <2>5. ASSUME NEW j \in 1..Len(es') PROVE es'[j] = WordsOf(log'[Len(fetched') + j])
    <3>1. CASE j = Len(es) + 1
      <4>1. Len(fetched) + j = i
        BY <1>0, <1>2, <3>1
      <4> QED
        BY <1>12, <2>1, <3>1, <4>1
    <3>2. CASE j \in 1..Len(es)
      BY <1>12, <2>1, <3>2 DEF RingInv, TakenInv
    <3> QED
      BY <1>2, <1>12, <3>1, <3>2
  <2> QED
    BY <2>1, <2>2, <2>3, <2>4, <2>5 DEF TakenInv, WordsOf
<1>18. BatchInv'
  BY <1>1 DEF RingInv, BatchInv, Start, ringVars
<1>19. WordsInv'
  <2>1. /\ log' = log /\ fetched' = fetched /\ ReadAt' = ReadAt /\ cl'.words = cl.words
        /\ cl'.begin = cl.begin
    BY <1>1, <1>13 DEF ReadAt, b, w
  <2>2. \A j \in 1..Len(log) : BeingWritten(log[j])' <=> BeingWritten(log[j])
    BY <1>1 DEF BeingWritten, threadVars
  <2>3. ASSUME NEW j \in (Len(fetched') + 1)..Len(log'), log'[j].seq + 2 <= ReadAt'
        PROVE  LET at == log'[j].seq - cl'.begin IN
             \/ cl'.words[at + 2] = FlagWord(0)
             \/ /\ ~BeingWritten(log[j])'
                /\ \A k \in 1..(log'[j].size) :
                      at + k <= Len(cl'.words) => cl'.words[at + k] = WordsOf(log'[j])[k]
    <3>1. j \in (Len(fetched) + 1)..Len(log) /\ j \in 1..Len(log) /\ log[j].seq + 2 <= ReadAt
      BY <1>2, <2>1, <2>3
    <3>2. LET at == log[j].seq - cl.begin IN
             \/ cl.words[at + 2] = FlagWord(0)
             \/ /\ ~BeingWritten(log[j])
                /\ \A k \in 1..log[j].size :
                      at + k <= Len(cl.words) => cl.words[at + k] = WordsOf(log[j])[k]
      BY <1>1, <3>1 DEF RingInv, WordsInv
    <3>3. BeingWritten(log[j])' <=> BeingWritten(log[j])
      BY <2>2, <3>1
    <3> QED
      BY <2>1, <3>2, <3>3
  <2> QED
    BY <1>13, <2>3 DEF WordsInv, WordsOf
<1> QED
  BY <1>15, <1>16, <1>17, <1>18, <1>19 DEF RingInv

\* A fetch hands over what it deserialised, and its batch ends behind it.
LEMMA FetchReturnRing ==
    ASSUME IInv, RingInv, FetchReturn
    PROVE  RingInv'
<1>0. PICK m \in Nat : m = Taken
  BY FetchPlaces
<1>1. /\ UNCHANGED <<ringVars, threadVars, log>>
      /\ cl.phase = "parse" /\ cl'.phase = "idle" /\ es' = <<>> /\ fetched' = fetched \o es
      /\ IF es = <<>> THEN UNCHANGED <<fetch_begin, batches>>
         ELSE /\ fetch_begin' = fetch_begin + cl.offset
              /\ batches' = Append(batches, BatchEnd)
  BY DEF FetchReturn, NoFetch
<1>2. /\ TypeOK /\ LogInv /\ FetchInv /\ Len(log) \in Nat /\ Len(fetched) \in Nat /\ Len(es) \in Nat
      /\ m = Len(fetched) + Len(es) /\ m <= Len(log) /\ fetch_begin = Start(Len(fetched) + 1)
  BY <1>0, FetchPlaces DEF IInv
<1>3. /\ fetched \in Seq(Seq(Word)) /\ es \in Seq(Seq(Word)) /\ batches \in Seq([seq : Nat, idx : Nat])
      /\ Len(batches) \in Nat
  BY <1>2 DEF TypeOK
<1>4. /\ Len(fetched') = m
      /\ \A i \in 1..Len(fetched) : fetched'[i] = fetched[i]
      /\ \A i \in 1..Len(es) : fetched'[Len(fetched) + i] = es[i]
  <2>1. Len(fetched \o es) = Len(fetched) + Len(es)
    BY <1>3, ConcatProperties
  <2>2. ASSUME NEW i \in 1..Len(fetched) PROVE (fetched \o es)[i] = fetched[i]
    BY <1>2, <1>3, ConcatProperties
  <2>3. ASSUME NEW i \in 1..Len(es) PROVE (fetched \o es)[Len(fetched) + i] = es[i]
    <3>1. (fetched \o es)[Len(fetched) + i] = es[(Len(fetched) + i) - Len(fetched)]
      BY <1>2, <1>3, ConcatProperties
    <3>2. (Len(fetched) + i) - Len(fetched) = i
      BY <1>2
    <3> QED
      BY <3>1, <3>2
  <2> QED
    BY <1>1, <1>2, <2>1, <2>2, <2>3
<1>5. Len(es') = 0 /\ Taken' = m /\ Taken' = Taken
  BY <1>0, <1>1, <1>4 DEF Taken
<1>6. LogInv' /\ MemInv' /\ WriterInv' /\ \A i \in Nat : Start(i)' = Start(i)
  BY <1>1, <1>5, FetchFrame
<1>7. fetch_begin' = Start(m + 1)
  <2>1. CASE es = <<>>
    <3>1. m = Len(fetched)
      BY <1>2, <2>1
    <3> QED
      BY <1>1, <1>2, <2>1, <3>1
  <2>2. CASE es # <<>>
    <3>1. cl.begin = fetch_begin /\ cl.begin + cl.offset = Start(m + 1)
      BY <1>0, <1>1, <1>2 DEF FetchInv, RingInv, TakenInv
    <3> QED
      BY <1>1, <2>2, <3>1
  <2> QED
    BY <2>1, <2>2
<1>8. TakenInv'
  <2>1. UNCHANGED <<log, sequencer>>
    BY <1>1 DEF ringVars
  <2>2. fetch_begin' = Start(Len(fetched) + 1)'
    BY <1>4, <1>7, <2>1 DEF Start
  <2>3. ASSUME NEW i \in 1..Len(fetched') PROVE fetched'[i] = WordsOf(log'[i])
    <3>1. CASE i \in 1..Len(fetched)
      BY <1>4, <2>1, <3>1 DEF RingInv, TakenInv
    <3>2. CASE i > Len(fetched)
      <4> DEFINE j == i - Len(fetched)
      <4>1. j \in 1..Len(es) /\ i = Len(fetched) + j
        BY <1>2, <1>4, <3>2
      <4> HIDE DEF j
      <4>2. es[j] = WordsOf(log[Len(fetched) + j])
        BY <4>1 DEF RingInv, TakenInv
      <4> QED
        BY <1>4, <2>1, <4>1, <4>2
    <3> QED
      BY <1>2, <1>4, <3>1, <3>2
  <2> QED
    BY <1>1, <1>2, <1>5, <2>1, <2>2, <2>3 DEF TakenInv, WordsOf
<1>9. BatchInv'
  <2>1. /\ UNCHANGED <<log, sequencer, ordered_watermk, ordered_idx_watermk>>
        /\ ordered_idx_watermk \in Nat
    BY <1>1, <1>2 DEF ringVars, TypeOK
  <2>2. Len(fetched) <= Len(fetched') /\ Len(fetched') \in Nat
    BY <1>2, <1>4
  <2>3. ordered_idx_watermk' <= Len(fetched') /\ ordered_watermk' = Start(ordered_idx_watermk + 1)'
    BY <1>2, <2>1, <2>2 DEF RingInv, BatchInv, Start
  <2>4. ASSUME NEW j \in 1..Len(batches)
        PROVE  batches[j].idx \in 1..m /\ batches[j].seq = Start(batches[j].idx + 1)
    BY <1>2, <1>4, <2>2 DEF RingInv, BatchInv
  <2>5. ASSUME NEW j \in 1..Len(batches')
        PROVE  batches'[j].idx \in 1..m /\ batches'[j].seq = Start(batches'[j].idx + 1)
    <3>1. CASE es = <<>>
      BY <1>1, <2>4, <3>1
    <3>2. CASE es # <<>>
      <4>1. BatchEnd \in [seq : Nat, idx : Nat]
        BY <1>2, <3>2, BatchEndType
      <4>2. /\ Len(batches') = Len(batches) + 1 /\ batches'[Len(batches) + 1] = BatchEnd
            /\ \A k \in 1..Len(batches) : batches'[k] = batches[k]
        <5> DEFINE B == BatchEnd
                   T == [seq : Nat, idx : Nat]
        <5>1. batches' = Append(batches, B) /\ B \in T /\ batches \in Seq(T)
          BY <1>1, <1>3, <3>2, <4>1
        <5> HIDE DEF B, T
        <5>2. /\ Len(batches') = Len(batches) + 1 /\ batches'[Len(batches) + 1] = B
              /\ \A k \in 1..Len(batches) : batches'[k] = batches[k]
          BY <5>1, AppendTyped
        <5> QED
          BY <5>2 DEF B
      <4>3. BatchEnd.seq = Start(m + 1) /\ BatchEnd.idx = m /\ m \in 1..m
        <5>1. Len(es) \in 1..Len(es) /\ m \in 1..Len(log) /\ Len(fetched) + Len(es) = m
          <6>1. Len(es) # 0
            BY <1>3, <3>2
          <6> QED
            BY <1>2, <6>1
        <5>2. es[Len(es)] = WordsOf(log[m])
          BY <5>1 DEF RingInv, TakenInv
        <5>3. log[m].idx = m - 1 /\ log[m].size \in Nat /\ log[m].size >= 2
          BY <1>2, <5>1, EntryFacts
        <5>4. WordsOf(log[m])[1] = EntryWord(log[m], 1 - 1)
          BY <5>3 DEF WordsOf
        <5>5. EntryWord(log[m], 1 - 1).e = log[m]
          BY DEF EntryWord
        <5>6. es[Len(es)][1].e.idx + 1 = m
          BY <1>0, <5>2, <5>3, <5>4, <5>5
        <5>7. cl.begin + cl.offset = Start(m + 1)
          BY <1>0, <1>1 DEF RingInv, TakenInv
        <5> QED
          BY <5>1, <5>6, <5>7 DEF BatchEnd
      <4>4. CASE j = Len(batches) + 1
        BY <4>2, <4>3, <4>4
      <4>5. CASE j \in 1..Len(batches)
        BY <2>4, <4>2, <4>5
      <4> QED
        BY <1>3, <4>2, <4>4, <4>5
    <3> QED
      BY <3>1, <3>2
  <2> QED
    BY <1>4, <2>1, <2>3, <2>5 DEF BatchInv, Start
<1>10. WordsInv'
  BY <1>1 DEF WordsInv
<1> QED
  BY <1>6, <1>8, <1>9, <1>10 DEF RingInv

\* Deleting frees the entries of a batch, and nothing that was not fetched.
LEMMA DeleteRing ==
    ASSUME IInv, RingInv, DeleteOrderedEntries
    PROVE  RingInv'
<1>1. /\ UNCHANGED <<mem, sequencer, indexer, pc, req, fetch_begin, cl, es, log, fetched>>
      /\ batches # <<>> /\ batches' = Tail(batches)
      /\ ordered_watermk' = Head(batches).seq /\ ordered_idx_watermk' = Head(batches).idx
  BY DEF DeleteOrderedEntries, threadVars
<1>2. /\ TypeOK /\ LogInv /\ batches \in Seq([seq : Nat, idx : Nat]) /\ Len(batches) \in Nat
      /\ ordered_watermk \in Nat /\ Len(fetched) \in Nat
  BY DEF IInv, RingInv, TypeOK
<1>3. /\ Len(batches) >= 1 /\ Len(batches') = Len(batches) - 1 /\ Head(batches) = batches[1]
      /\ \A j \in 1..Len(batches') : batches'[j] = batches[j + 1]
  BY <1>1, <1>2
<1>4. 1 \in 1..Len(batches)
  BY <1>2, <1>3
<1>5. /\ batches[1].idx \in 1..Len(fetched) /\ batches[1].seq = Start(batches[1].idx + 1)
      /\ ordered_watermk <= batches[1].seq /\ batches[1].seq \in Nat
  <2>1. batches[1].idx \in 1..Len(fetched) /\ batches[1].seq = Start(batches[1].idx + 1)
    BY <1>4 DEF RingInv, BatchInv
  <2>2. ordered_watermk <= batches[1].seq
    BY <1>4 DEF IInv, QueueInv
  <2>3. batches[1] \in [seq : Nat, idx : Nat]
    BY <1>2, <1>4, ElementOfSeq
  <2> QED
    BY <2>1, <2>2, <2>3
<1>6. LogInv'
  BY <1>1 DEF RingInv, LogInv, Start
<1>7. WriterInv'
  BY <1>1 DEF RingInv, WriterInv, Writing, Taken
<1>8. MemInv'
  <2>1. ASSUME NEW e PROVE BeingWritten(e)' <=> BeingWritten(e)
    BY <1>1 DEF BeingWritten
  <2>2. UnorderedIntact'
    <3> SUFFICES ASSUME NEW i \in DOMAIN log', log'[i].seq >= ordered_watermk', ~BeingWritten(log[i])',
                        NEW k \in 1..(log'[i].size)
                 PROVE  mem'[Offset(log'[i].seq + k - 1)] = WordsOf(log'[i])[k]
      BY DEF UnorderedIntact, WordsOf, Offset
    <3>1. i \in DOMAIN log /\ log'[i] = log[i] /\ i \in 1..Len(log)
      BY <1>1, <1>2, LenFacts
    <3>2. log[i].seq \in Nat
      BY <1>2, <3>1, EntryFacts
    <3>3. log[i].seq >= ordered_watermk
      BY <1>1, <1>2, <1>3, <1>5, <3>1, <3>2
    <3>4. ~BeingWritten(log[i])
      BY <1>1 DEF BeingWritten
    <3> QED
      BY <1>1, <3>1, <3>3, <3>4 DEF RingInv, MemInv, UnorderedIntact
  <2> QED
    BY <1>1, <2>2 DEF RingInv, MemInv, Cell
<1>9. WordsInv'
  <2>1. \A i \in 1..Len(log) : BeingWritten(log[i])' => BeingWritten(log[i])
    BY <1>1 DEF BeingWritten
  <2> QED
    BY <1>1, <1>2, <2>1, WordsFrame
<1>10. TakenInv'
  BY <1>1 DEF RingInv, TakenInv, Taken, Start, WordsOf
<1>11. BatchInv'
  <2>1. ordered_idx_watermk' <= Len(fetched') /\ ordered_watermk' = Start(ordered_idx_watermk + 1)'
    BY <1>1, <1>2, <1>3, <1>5 DEF Start
  <2>2. ASSUME NEW j \in 1..Len(batches')
        PROVE  batches'[j].idx \in 1..Len(fetched) /\ batches'[j].seq = Start(batches'[j].idx + 1)
    <3>1. j + 1 \in 1..Len(batches)
      BY <1>2, <1>3
    <3> QED
      BY <1>3, <3>1 DEF RingInv, BatchInv
  <2> QED
    BY <1>1, <2>1, <2>2 DEF BatchInv, Start
<1> QED
  BY <1>6, <1>7, <1>8, <1>9, <1>10, <1>11 DEF RingInv

-----------------------------------------------------------------------------
(* The theorems about the ring *)

\* The ring starts empty.
LEMMA InitRing == Init => RingInv
<1> SUFFICES ASSUME Init PROVE RingInv
  OBVIOUS
<1>1. /\ Len(log) = 0 /\ Len(fetched) = 0 /\ Len(es) = 0 /\ Len(batches) = 0
      /\ sequencer = 0 /\ indexer = 0 /\ ordered_watermk = 0 /\ ordered_idx_watermk = 0
      /\ fetch_begin = 0 /\ cl.phase = "idle"
      /\ \A t \in Threads : pc[t] = "idle"
  BY DEF Init, NoFetch
<1>2. LogInv /\ WriterInv /\ WordsInv /\ TakenInv /\ BatchInv
  BY <1>1 DEF LogInv, WriterInv, Writing, WordsInv, TakenInv, Taken, BatchInv, Start
<1>3. MemInv
  BY <1>1 DEF Init, MemInv, UnorderedIntact
<1> QED
  BY <1>2, <1>3 DEF RingInv

\* Every step keeps the invariant of the ring, as long as entries lie in one piece.
LEMMA NextRing == IInv /\ RingInv /\ AllInOnePiece /\ [Next]_vars => RingInv'
<1> SUFFICES ASSUME IInv, RingInv, AllInOnePiece, [Next]_vars PROVE RingInv'
  OBVIOUS
<1>1. ASSUME NEW t \in Threads, AppendEntry(t) \/ ThreadStep(t) PROVE RingInv'
  <2>1. CASE AppendEntry(t) \/ ReadSequencer(t) \/ ReadWatermark(t)
    BY <2>1, QuietStep
  <2>2. CASE Claim(t)
    BY <2>2, ClaimRing
  <2>3. CASE Publish(t)
    BY <2>3, PublishRing
  <2>4. CASE Serialize(t)
    BY <2>4, SerializeRing
  <2>5. CASE SetFlag(t)
    BY <2>5, SetFlagRing
  <2>6. CASE CopyTail(t)
    BY <2>6 DEF CopyTail, Goto, RingInv, WriterInv
  <2> QED
    BY <1>1, <2>1, <2>2, <2>3, <2>4, <2>5, <2>6 DEF ThreadStep, FinishWrite
<1>2. CASE FetchStep
  BY <1>2, FetchRangeRing, ReadLineRing, DeserializeRing, FetchReturnRing DEF FetchStep
<1>3. CASE DeleteOrderedEntries
  BY <1>3, DeleteRing
<1>4. CASE UNCHANGED vars
  <2>1. /\ UNCHANGED <<ringVars, threadVars, log>>
        /\ UNCHANGED <<cl, es, batches, fetched, fetch_begin, sequencer, ordered_watermk, ordered_idx_watermk>>
    BY <1>4 DEF vars, ringVars, clVars
  <2>2. LogInv' /\ MemInv' /\ WriterInv'
    BY <2>1, FetchFrame DEF Taken
  <2>3. TakenInv' /\ BatchInv'
    BY <2>1 DEF RingInv, TakenInv, BatchInv, Taken, Start, WordsOf
  <2>4. WordsInv'
    <3>1. \A i \in 1..Len(log) : BeingWritten(log[i])' => BeingWritten(log[i])
      BY <2>1 DEF BeingWritten, threadVars
    <3> QED
      BY <2>1, <3>1, WordsFrame DEF IInv
  <2> QED
    BY <2>2, <2>3, <2>4 DEF RingInv
<1> QED
  BY <1>1, <1>2, <1>3, <1>4 DEF Next

\* The invariant of the ring holds as long as every entry lies in one piece.
THEOREM RingInductive == Spec /\ []AllInOnePiece => []RingInv
BY Inductive, InitRing, NextRing, PTL DEF Spec

\* What an append wrote stays whole and flagged in the ring until it is deleted.
THEOREM AppendedStaysIntact == Spec /\ []AllInOnePiece => []UnorderedIntact
<1>1. RingInv => UnorderedIntact
  BY DEF RingInv, MemInv
<1> QED
  BY <1>1, RingInductive, PTL

\* The consensus log gets the entries of the log in order, as they were written.
THEOREM FetchIsInOrder == Spec /\ []AllInOnePiece => []FetchedInOrder
<1>1. IInv /\ RingInv => FetchedInOrder
  <2> SUFFICES ASSUME IInv, RingInv PROVE FetchedInOrder
    OBVIOUS
  <2>1. Len(fetched) <= Len(log)
    BY FetchPlaces
  <2>2. DOMAIN fetched = 1..Len(fetched)
    BY DEF IInv, TypeOK
  <2> QED
    BY <2>1, <2>2 DEF RingInv, TakenInv, FetchedInOrder
<1> QED
  BY <1>1, Inductive, RingInductive, PTL

\* Both watermarks name the same entry.
THEOREM WatermarksNameOneEntry == Spec /\ []AllInOnePiece => []WatermarksAgree
<1>1. IInv /\ RingInv => WatermarksAgree
  <2> SUFFICES ASSUME IInv, RingInv PROVE WatermarksAgree
    OBVIOUS
  <2>1. /\ Len(log) \in Nat /\ Len(fetched) \in Nat /\ Len(fetched) <= Len(log)
        /\ fetch_begin = Start(Len(fetched) + 1) /\ ordered_idx_watermk \in Nat
    BY FetchPlaces DEF TypeOK
  <2>2. ordered_idx_watermk <= Len(fetched) /\ ordered_watermk = Start(ordered_idx_watermk + 1)
    BY DEF RingInv, BatchInv
  <2>3. CASE ordered_idx_watermk < Len(log)
    BY <2>1, <2>2, <2>3 DEF WatermarksAgree, Start
  <2>4. CASE ordered_idx_watermk = Len(log)
    <3>1. Len(fetched) = Len(log)
      BY <2>1, <2>2, <2>4
    <3> QED
      BY <2>1, <2>2, <2>4, <3>1 DEF WatermarksAgree
  <2> QED
    BY <2>1, <2>2, <2>3, <2>4
<1> QED
  BY <1>1, Inductive, RingInductive, PTL

-----------------------------------------------------------------------------
(* The invariant of a speculative read *)

USE IdxSlackAssumption

\* The words of an entry, flag set, are at its place.
Whole(e) == \A k \in 1..e.size : Cell(e.seq + k - 1) = WordsOf(e)[k]

\* A deleted entry is whole until an append claims its place on the next lap.
LapInv ==
    \A i \in 1..Len(log) :
        log[i].seq < ordered_watermk /\ sequencer + 2 <= log[i].seq + RgSize => Whole(log[i])

\* An index is mapped to its entry as long as no append has reused the mapping.
IdxInv ==
    /\ idx_to_seq \in [0..(IdxMapElemCnt - 1) -> Nat]
    /\ \A i \in 0..(Len(log) - 1) :
          Len(log) < i + IdxMapElemCnt => idx_to_seq[i % IdxMapElemCnt] = log[i + 1].seq
    /\ \A t \in Threads : pc[t] = "claimed" => idx_to_seq[IdxSlot] = sequencer

ReadSteps == {"idle", "tooLow", "tooHigh", "mapped", "lapped", "idx", "copy"}

Locals == [step : ReadSteps, idx : Nat, seq : Nat, cur_seq : Nat, words : Seq(Word),
           ret : Int, from : Nat, written : BOOLEAN]

\* The locals have their types, the index is in the log once the map is asked,
\* and copying stays inside of memory.
ReadType ==
    /\ rd \in Locals
    /\ rd.step \in {"mapped", "lapped", "idx", "copy"} => rd.idx < Len(log)
    /\ rd.step \notin {"idle", "copy"} => rd.words = <<>>
    /\ rd.step = "copy" => Len(rd.words) < MaxSize

\* The entry that is asked for.
Target == log[rd.idx + 1]

\* What the locals of a read say of an entry that was written before it: the
\* place that was looked up is that of the entry, the entry is out of reach of
\* the reserve, and the words copied so far are its first ones.
ReadInv ==
    rd.step # "idle" /\ rd.written =>
        /\ rd.idx < Len(log) /\ ~BeingWritten(Target)
        /\ rd.step # "tooLow" => rd.from + IdxSlack < rd.idx + IdxMapElemCnt
        /\ rd.step \in {"lapped", "idx", "copy"} /\ indexer <= rd.from + IdxSlack =>
              rd.seq = Target.seq
        /\ rd.step \in {"idx", "copy"} /\ rd.cur_seq > RgSize =>
              rd.cur_seq + Slack < rd.seq + RgSize
        /\ rd.step = "copy" /\ NotOvertaken =>
              /\ Len(rd.words) < Target.size
              /\ \A k \in 1..Len(rd.words) : rd.words[k] = WordsOf(Target)[k]

SpecReadInv == LapInv /\ IdxInv /\ ReadType /\ ReadInv

-----------------------------------------------------------------------------
(* The steps of the ring *)

\* A step of SpecRead is one of the ring, or leaves the ring alone.
LEMMA RingStep == [SpecNext]_<<vars, specVars>> => [Next]_vars
<1> SUFFICES ASSUME [SpecNext]_<<vars, specVars>> PROVE [Next]_vars
  OBVIOUS
<1>1. CASE \E t \in Threads : MapIdx(t)
  BY <1>1 DEF MapIdx, Next, ThreadStep, FinishWrite
<1>2. CASE OtherStep
  BY <1>2 DEF OtherStep, Next, ThreadStep, FinishWrite
<1>3. CASE SpecRead
  BY <1>3 DEF SpecRead
<1>4. CASE ReadStep
  BY <1>4 DEF ReadStep, CheckTooLow, CheckTooHigh, LookUpSeq, CheckLapped, CheckIdx, CopyWord
<1>5. CASE UNCHANGED <<vars, specVars>>
  BY <1>5
<1> QED
  BY <1>1, <1>2, <1>3, <1>4, <1>5 DEF SpecNext

\* An entry that was fetched is not being written.
LEMMA FetchedIsWritten ==
    ASSUME IInv, RingInv, AllInOnePiece, NEW i \in 1..Len(log), log[i].seq < fetch_begin
    PROVE  ~BeingWritten(log[i])
<1> SUFFICES ASSUME NEW t \in Threads, Writing(t), req[t] = log[i] PROVE FALSE
  BY WriterIs DEF RingInv
<1>1. /\ Len(log) \in Nat /\ Len(fetched) \in Nat
      /\ \A j \in (Len(fetched) + 1)..Len(log) : fetch_begin <= log[j].seq
  BY FetchPlaces
<1>2. PICK j \in 1..Len(log) : log[j] = req[t] /\ j > Len(fetched)
  BY WriterFacts
<1>3. fetch_begin <= log[j].seq
  BY <1>1, <1>2
<1>4. log[i].seq \in Nat /\ fetch_begin \in Nat
  BY EntryFacts DEF IInv, RingInv, TypeOK
<1> QED
  BY <1>2, <1>3, <1>4

\* An entry whose append is over stays so.
LEMMA WrittenStays ==
    ASSUME IInv, RingInv, AllInOnePiece, [Next]_vars, NEW i \in 1..Len(log), ~BeingWritten(log[i])
    PROVE  log'[i] = log[i] /\ ~BeingWritten(log[i])'
<1>0. /\ TypeOK /\ LogInv /\ WriterInv /\ log \in Seq(Entry) /\ Len(log) \in Nat
      /\ pc \in [Threads -> Phases] /\ req \in [Threads -> Entry]
  BY DEF IInv, RingInv, TypeOK
<1>1. ASSUME NEW t \in Threads, Publish(t) PROVE log'[i] = log[i] /\ ~BeingWritten(log[i])'
  <2>1. /\ pc[t] = "claimed" /\ pc' = [pc EXCEPT ![t] = "serialize"] /\ req' = req
        /\ log' = Append(log, req[t])
    BY <1>1 DEF Publish, Goto
  <2>2. log'[i] = log[i]
    BY <1>0, <2>1, AppendTyped
  <2>3. req[t].idx = Len(log) /\ log[i].idx = i - 1
    BY <1>0, <2>1, EntryFacts DEF WriterInv, LogInv
  <2>4. req[t] # log[i]
    BY <1>0, <2>3
  <2>5. \A u \in Threads : u # t => pc'[u] = pc[u]
    BY <1>0, <2>1
  <2> QED
    BY <2>1, <2>2, <2>4, <2>5 DEF BeingWritten
<1>2. ASSUME NEW t \in Threads,
             \/ AppendEntry(t) \/ ReadSequencer(t) \/ ReadWatermark(t) \/ Claim(t)
             \/ Serialize(t) \/ SetFlag(t) \/ CopyTail(t)
      PROVE  log'[i] = log[i] /\ ~BeingWritten(log[i])'
  <2>1. /\ log' = log /\ pc' \in [Threads -> Phases] /\ \A u \in Threads : u # t => pc'[u] = pc[u] /\ req'[u] = req[u]
        /\ pc'[t] \in {"serialize", "setFlag", "copyTail"} =>
              pc[t] \in {"serialize", "setFlag", "copyTail"} /\ req'[t] = req[t]
    BY <1>0, <1>2 DEF AppendEntry, ReadSequencer, ReadWatermark, Claim, Serialize, SetFlag, CopyTail, Goto, Phases
  <2> QED
    BY <2>1 DEF BeingWritten
<1>3. CASE UNCHANGED <<pc, req, log>>
  BY <1>3 DEF BeingWritten
<1>4. CASE FetchStep \/ DeleteOrderedEntries \/ UNCHANGED vars
  <2>1. UNCHANGED <<pc, req, log>>
    BY <1>4 DEF FetchStep, FetchRange, ReadLine, DeserializeOne, FetchReturn, DeleteOrderedEntries,
       vars, threadVars
  <2> QED
    BY <1>3, <2>1
<1> QED
  BY <1>1, <1>2, <1>4 DEF Next, ThreadStep, FinishWrite

\* The log and its counters only grow.
LEMMA OnlyGrows ==
    ASSUME IInv, RingInv, [Next]_vars
    PROVE  sequencer <= sequencer' /\ indexer <= indexer' /\ Len(log) <= Len(log')
<1>0. /\ sequencer \in Nat /\ indexer \in Nat /\ log \in Seq(Entry) /\ Len(log) \in Nat
      /\ req \in [Threads -> Entry]
  BY DEF IInv, TypeOK
<1>1. ASSUME NEW t \in Threads, Publish(t)
      PROVE  sequencer <= sequencer' /\ indexer <= indexer' /\ Len(log) <= Len(log')
  <2>1. req[t] \in Entry /\ req[t].size \in Nat /\ log' = Append(log, req[t])
    BY <1>0, <1>1 DEF Entry, Publish
  <2>2. Len(log') = Len(log) + 1
    BY <1>0, <2>1, AppendTyped
  <2> QED
    BY <1>0, <1>1, <2>1, <2>2 DEF Publish
<1>2. CASE UNCHANGED <<sequencer, indexer, log>>
  BY <1>0, <1>2
<1> QED
  BY <1>1, <1>2 DEF Next, ThreadStep, FinishWrite, AppendEntry, ReadSequencer, ReadWatermark, Claim, Serialize,
     SetFlag, CopyTail, FetchStep, FetchRange, ReadLine, DeserializeOne, FetchReturn,
     DeleteOrderedEntries, vars, ringVars

-----------------------------------------------------------------------------
(* Whole entries *)

\* An entry that is not being written is whole until its place is claimed again.
LEMMA StillWhole ==
    ASSUME IInv, RingInv, AllInOnePiece, LapInv, NEW i \in 1..Len(log), ~BeingWritten(log[i]),
           sequencer + 2 <= log[i].seq + RgSize
    PROVE  \A k \in 1..log[i].size : mem[Offset(log[i].seq) + k - 1] = WordsOf(log[i])[k]
<1>a. TypeOK /\ LogInv /\ UnorderedIntact /\ InOnePiece(log[i])
  BY DEF IInv, RingInv, MemInv, AllInOnePiece
<1>0. /\ DOMAIN log = 1..Len(log) /\ ordered_watermk \in Nat
      /\ log[i] \in Entry /\ log[i].seq \in Nat
  BY <1>a, EntryFacts, LenFacts DEF TypeOK
<1>1. log[i].seq >= ordered_watermk => Whole(log[i])
  BY <1>a, <1>0 DEF UnorderedIntact, Whole, Cell
<1>2. log[i].seq < ordered_watermk => Whole(log[i])
  BY DEF LapInv
<1>3. Whole(log[i])
  BY <1>0, <1>1, <1>2
<1>4. ASSUME NEW k \in 1..log[i].size
      PROVE  mem[Offset(log[i].seq) + k - 1] = WordsOf(log[i])[k]
  <2>1. Offset(log[i].seq + k - 1) = Offset(log[i].seq) + k - 1
    BY <1>a, <1>0, PiecePlaces
  <2> QED
    BY <1>3, <2>1 DEF Whole, Cell
<1> QED
  BY <1>4

\* A deleted entry that stays whole: a step that leaves the places of its words.
LEMMA LapKept ==
    ASSUME IInv, LapInv, UNCHANGED <<sequencer, ordered_watermk, log>>,
           \A i \in 1..Len(log) :
              log[i].seq < ordered_watermk /\ sequencer + 2 <= log[i].seq + RgSize =>
                 \A k \in 1..log[i].size :
                    mem'[Offset(log[i].seq + k - 1)] = mem[Offset(log[i].seq + k - 1)]
    PROVE  LapInv'
<1>1. ASSUME NEW i \in 1..Len(log'), log'[i].seq < ordered_watermk', sequencer' + 2 <= log'[i].seq + RgSize,
             NEW k \in 1..(log'[i].size)
      PROVE  mem'[Offset(log'[i].seq + k - 1)] = WordsOf(log'[i])[k]
  <2>1. /\ i \in 1..Len(log) /\ k \in 1..log[i].size /\ log'[i] = log[i]
        /\ log[i].seq < ordered_watermk /\ sequencer + 2 <= log[i].seq + RgSize
    BY <1>1
  <2>2. mem[Offset(log[i].seq + k - 1)] = WordsOf(log[i])[k]
    BY <2>1 DEF LapInv, Whole, Cell
  <2> QED
    BY <2>1, <2>2
<1> QED
  BY <1>1 DEF LapInv, Whole, Cell, WordsOf, Offset, EntryWord, FlagWord

\* An append that claims a place or writes its entry stays clear of them.
LEMMA LapStep ==
    ASSUME IInv, RingInv, AllInOnePiece, LapInv, [Next]_vars
    PROVE  LapInv'
<1>0. /\ TypeOK /\ LogInv /\ WriterInv /\ log \in Seq(Entry) /\ Len(log) \in Nat /\ sequencer \in Nat
      /\ ordered_watermk \in Nat /\ mem \in [Address -> Word] /\ req \in [Threads -> Entry]
      /\ DOMAIN log = 1..Len(log)
  BY LenFacts DEF IInv, RingInv, TypeOK
<1>a. ASSUME NEW i \in 1..Len(log), NEW k \in 1..log[i].size
      PROVE  /\ log[i].seq + k - 1 \in Nat /\ log[i].seq \in Nat
             /\ log[i].seq <= log[i].seq + k - 1 /\ log[i].seq + k - 1 < sequencer
             /\ Offset(log[i].seq + k - 1) \in Nat /\ Offset(log[i].seq + k - 1) < RgSize
             /\ Offset(log[i].seq + k - 1) \in Address
  <2>1. log[i].seq \in Nat /\ log[i].size \in Nat /\ log[i].seq + log[i].size <= sequencer
    BY <1>0, EntryFacts
  <2>2. /\ log[i].seq + k - 1 \in Nat
        /\ log[i].seq <= log[i].seq + k - 1 /\ log[i].seq + k - 1 < sequencer
    BY <1>0, <2>1
  <2>3. Offset(log[i].seq + k - 1) \in Nat /\ Offset(log[i].seq + k - 1) < RgSize
    BY <2>2, OffsetInRing
  <2>4. Offset(log[i].seq + k - 1) \in Address
    BY <2>3 DEF Address
  <2> QED
    BY <2>1, <2>2, <2>3, <2>4
<1>1. ASSUME NEW t \in Threads, Claim(t) PROVE LapInv'
  <2>1. /\ UNCHANGED <<sequencer, ordered_watermk, log>> /\ pc[t] = "lock"
        /\ mem' = [mem EXCEPT ![Offset(sequencer) + 1] = FlagWord(0)]
    BY <1>1 DEF Claim, Goto
  <2>2. ASSUME NEW i \in 1..Len(log), sequencer + 2 <= log[i].seq + RgSize, NEW k \in 1..log[i].size
        PROVE  mem'[Offset(log[i].seq + k - 1)] = mem[Offset(log[i].seq + k - 1)]
    <3>s. PICK s \in Nat : s = log[i].seq + k - 1
      BY <1>a
    <3>1. s < sequencer + 1 /\ sequencer + 1 < s + RgSize /\ sequencer + 1 \in Nat
      BY <1>0, <1>a, <2>2, <3>s
    <3>2. Offset(s) # Offset(sequencer + 1)
      BY <3>1, PlacesApart
    <3>3. Offset(sequencer) \in Nat /\ Offset(s) \in Nat /\ Offset(s) < RgSize /\ Offset(s) \in Address
      BY <1>0, <1>a, <3>s, OffsetInRing
    <3>4. Offset(s) # Offset(sequencer) + 1
      <4>1. CASE Offset(sequencer) + 1 < RgSize
        BY <1>0, <3>2, <4>1, SameLap
      <4> QED
        BY <3>3, <4>1
    <3>5. mem'[Offset(s)] = mem[Offset(s)]
      BY <1>0, <2>1, <3>3, <3>4
    <3> QED
      BY <3>5, <3>s
  <2> QED
    BY <2>1, <2>2, LapKept
<1>2. ASSUME NEW t \in Threads, Writing(t), UNCHANGED <<sequencer, ordered_watermk, log>>,
             \A x \in Address : x \notin Offset(req[t].seq)..(Offset(req[t].seq) + req[t].size - 1)
                                   => mem'[x] = mem[x]
      PROVE  LapInv'
  <2>0. /\ req[t] \in Entry /\ req[t].seq \in Nat /\ req[t].size \in Nat /\ InOnePiece(req[t])
        /\ ordered_watermk <= req[t].seq
        /\ \A m \in 1..req[t].size : Live(req[t].seq + m - 1)
    BY <1>2, WriterFacts
  <2>1. ASSUME NEW i \in 1..Len(log), log[i].seq < ordered_watermk,
               sequencer + 2 <= log[i].seq + RgSize, NEW k \in 1..log[i].size
        PROVE  mem'[Offset(log[i].seq + k - 1)] = mem[Offset(log[i].seq + k - 1)]
    <3>s. PICK s \in Nat : s = log[i].seq + k - 1
      BY <1>a
    <3>1. /\ log[i].seq \in Nat /\ log[i].seq <= s /\ s < sequencer
          /\ Offset(s) \in Nat /\ Offset(s) < RgSize /\ Offset(s) \in Address
      BY <1>a, <3>s
    <3>b. s < ordered_watermk
      <4>1. PICK d \in 1..(Len(log) + 1) : ordered_watermk = Start(d)
        <5>1. /\ ordered_idx_watermk \in Nat /\ ordered_idx_watermk <= Len(fetched)
              /\ ordered_watermk = Start(ordered_idx_watermk + 1)
          BY DEF IInv, TypeOK, RingInv, BatchInv
        <5>a. Len(fetched) \in Nat /\ Len(es) \in Nat /\ Len(fetched) + Len(es) <= Len(log)
          BY FetchPlaces
        <5>2. ordered_idx_watermk + 1 \in 1..(Len(log) + 1)
          BY <1>0, <5>1, <5>a
        <5> QED
          BY <5>1, <5>2
      <4>2. d > i
        <5> SUFFICES ASSUME d <= i PROVE FALSE
          BY <1>0
        <5>1. i \in d..(Len(log) + 1)
          BY <1>0
        <5>a. \A j \in d..(Len(log) + 1) : Start(d) <= Start(j)
          BY <1>0, StartFacts
        <5>2. Start(d) <= Start(i)
          BY <5>1, <5>a
        <5> QED
          <6>1. Start(i) = log[i].seq
            BY <1>0, EntryFacts
          <6> QED
            BY <1>0, <2>1, <3>1, <4>1, <5>2, <6>1
      <4>3. log[i].seq + log[i].size <= Start(d)
        BY <1>0, <4>2 DEF LogInv
      <4>4. log[i].size \in Nat
        BY <1>0, EntryFacts
      <4> QED
        BY <1>0, <3>1, <3>s, <4>1, <4>3, <4>4
    <3>2. ASSUME Offset(s) \in Offset(req[t].seq)..(Offset(req[t].seq) + req[t].size - 1) PROVE FALSE
      <4> DEFINE o == Offset(req[t].seq)
                 n == req[t].size
                 x == Offset(s)
      <4>1. o \in Nat /\ n \in Nat /\ x \in Nat /\ x \in o..(o + n - 1)
        BY <2>0, <3>1, <3>2, OffsetInRing
      <4> HIDE DEF o, n, x
      <4>2. \E m \in 1..n : x = o + m - 1
        BY <4>1, InPiece
      <4>3. PICK m \in 1..req[t].size : Offset(s) = Offset(req[t].seq) + m - 1
        BY <4>2 DEF o, n, x
      <4>p. PICK p \in Nat : p = req[t].seq + m - 1
        BY <2>0, PiecePlaces
      <4>4. Offset(p) = Offset(req[t].seq) + m - 1
        BY <2>0, <4>p, PiecePlaces
      <4>5. Live(p)
        BY <2>0, <4>p
      <4>6. s < p /\ p < s + RgSize
        BY <1>0, <2>1, <3>1, <3>b, <4>5 DEF Live
      <4> QED
        BY <4>3, <4>4, <4>6, PlacesApart
    <3>3. mem'[Offset(s)] = mem[Offset(s)]
      BY <1>2, <3>1, <3>2
    <3> QED
      BY <3>3, <3>s
  <2> QED
    BY <1>2, <2>1, LapKept
<1>3. ASSUME NEW t \in Threads, Serialize(t) PROVE LapInv'
  <2>1. /\ Writing(t) /\ UNCHANGED <<sequencer, ordered_watermk, log>>
        /\ \A x \in Address : x \notin Offset(req[t].seq)..(Offset(req[t].seq) + req[t].size - 1)
                                   => mem'[x] = mem[x]
    BY <1>3 DEF Serialize, Goto, Writing
  <2> QED
    BY <1>2, <2>1
<1>4. ASSUME NEW t \in Threads, SetFlag(t) PROVE LapInv'
  <2>1. /\ Writing(t) /\ UNCHANGED <<sequencer, ordered_watermk, log>>
        /\ mem' = [mem EXCEPT ![Offset(req[t].seq) + 1] = FlagWord(1)]
    BY <1>4 DEF SetFlag, Goto, Writing
  <2>2. ASSUME NEW x \in Address, x \notin Offset(req[t].seq)..(Offset(req[t].seq) + req[t].size - 1)
        PROVE  mem'[x] = mem[x]
    <3>1. req[t].seq \in Nat /\ req[t].size \in Nat /\ req[t].size >= 2
      BY <2>1, WriterFacts
    <3>2. Offset(req[t].seq) \in Nat
      BY <3>1, OffsetInRing
    <3>3. x # Offset(req[t].seq) + 1
      BY <2>2, <3>1, <3>2
    <3> QED
      BY <1>0, <2>1, <3>3
  <2> QED
    BY <1>2, <2>1, <2>2
<1>5. ASSUME NEW t \in Threads, Publish(t) PROVE LapInv'
  <2>1. /\ UNCHANGED <<mem, ordered_watermk>> /\ pc[t] = "claimed" /\ log' = Append(log, req[t])
        /\ sequencer' = sequencer + req[t].size
    BY <1>5 DEF Publish, Goto
  <2>2. /\ req[t] \in Entry /\ req[t].size \in Nat /\ req[t].seq = sequencer
        /\ ordered_watermk <= sequencer
    BY <1>0, <2>1 DEF Entry, IInv, ThreadInv, QueueInv, FetchInv, TypeOK
  <2>3. /\ Len(log') = Len(log) + 1 /\ log'[Len(log) + 1] = req[t]
        /\ \A i \in 1..Len(log) : log'[i] = log[i]
    BY <1>0, <2>1, <2>2, AppendTyped
  <2>4. ASSUME NEW i \in 1..Len(log'), log'[i].seq < ordered_watermk',
               sequencer' + 2 <= log'[i].seq + RgSize
        PROVE  Whole(log[i])'
    <3>1. CASE i = Len(log) + 1
      BY <1>0, <2>1, <2>2, <2>3, <2>4, <3>1
    <3>2. CASE i \in 1..Len(log)
      <4>1. log'[i] = log[i] /\ log[i].seq \in Nat
        BY <1>0, <2>3, <3>2, EntryFacts
      <4>2. log[i].seq < ordered_watermk /\ sequencer + 2 <= log[i].seq + RgSize
        BY <1>0, <2>1, <2>2, <2>4, <4>1
      <4>3. Whole(log[i])
        BY <3>2, <4>2 DEF LapInv
      <4> QED
        BY <2>1, <4>1, <4>3 DEF Whole, Cell, WordsOf, Offset, EntryWord, FlagWord
    <3> QED
      BY <1>0, <2>3, <3>1, <3>2
  <2> QED
    BY <2>4 DEF LapInv
<1>6. CASE DeleteOrderedEntries
  <2>1. UNCHANGED <<mem, sequencer, log>> /\ ordered_watermk' = Head(batches).seq /\ batches # <<>>
    BY <1>6 DEF DeleteOrderedEntries
  <2>2. Head(batches).seq <= fetch_begin /\ fetch_begin \in Nat /\ Head(batches).seq \in Nat
    <3>1. batches \in Seq([seq : Nat, idx : Nat]) /\ fetch_begin \in Nat
      BY DEF IInv, TypeOK
    <3> DEFINE B == [seq : Nat, idx : Nat]
    <3>2. batches \in Seq(B)
      BY <3>1
    <3> HIDE DEF B
    <3>3. 1 \in 1..Len(batches) /\ Head(batches) = batches[1] /\ batches[1] \in B
      BY <2>1, <3>2
    <3>4. batches[1].seq \in Nat
      BY <3>3 DEF B
    <3> QED
      BY <3>1, <3>3, <3>4 DEF IInv, QueueInv
  <2>3. ASSUME NEW i \in 1..Len(log), log[i].seq < Head(batches).seq,
               sequencer + 2 <= log[i].seq + RgSize
        PROVE  Whole(log[i])
    <3>1. log[i].seq \in Nat
      BY <1>0, EntryFacts
    <3>2. CASE log[i].seq < ordered_watermk
      BY <2>3, <3>2 DEF LapInv
    <3>3. CASE log[i].seq >= ordered_watermk
      <4>1. ~BeingWritten(log[i])
        BY <2>2, <2>3, <3>1, FetchedIsWritten
      <4> QED
        BY <1>0, <3>3, <4>1 DEF RingInv, MemInv, UnorderedIntact, Whole, Cell
    <3> QED
      BY <1>0, <3>1, <3>2, <3>3
  <2>4. ASSUME NEW i \in 1..Len(log'), log'[i].seq < ordered_watermk', sequencer' + 2 <= log'[i].seq + RgSize
        PROVE  Whole(log[i])'
    <3>1. Whole(log[i]) /\ log'[i] = log[i]
      BY <2>1, <2>3, <2>4
    <3> QED
      BY <2>1, <3>1 DEF Whole, Cell, WordsOf, Offset, EntryWord, FlagWord
  <2> QED
    BY <2>4 DEF LapInv
<1>7. CASE UNCHANGED <<mem, sequencer, ordered_watermk, log>>
  BY <1>7 DEF LapInv, Whole, Cell, WordsOf, Offset, EntryWord, FlagWord
<1>8. ASSUME NEW t \in Threads, CopyTail(t) PROVE LapInv'
  BY <1>0, <1>8 DEF CopyTail, Goto, WriterInv
<1>9. ASSUME NEW t \in Threads, AppendEntry(t) \/ ReadSequencer(t) \/ ReadWatermark(t) PROVE LapInv'
  BY <1>7, <1>9 DEF AppendEntry, ReadSequencer, ReadWatermark, ringVars
<1>10. CASE FetchStep \/ UNCHANGED vars
  BY <1>7, <1>10 DEF FetchStep, FetchRange, ReadLine, DeserializeOne, FetchReturn, vars, ringVars
<1> QED
  BY <1>1, <1>3, <1>4, <1>5, <1>6, <1>8, <1>9, <1>10 DEF Next, ThreadStep, FinishWrite

-----------------------------------------------------------------------------
(* The map from indexes to places *)

\* The size of the map.
LEMMA MapSize ==
    /\ IdxMapElemCnt \in Nat
    /\ RgSize >= 2 => IdxMapElemCnt >= 1
<1> DEFINE q == RgSize \div 2
           r == RgSize % 2
<1>1. q \in Nat /\ r \in 0..(2 - 1) /\ RgSize = 2 * q + r
  BY DivMod
<1> HIDE DEF q, r
<1>2. RgSize >= 2 => q >= 1
  BY <1>1
<1> QED
  BY <1>1, <1>2 DEF IdxMapElemCnt, q

\* The critical section maps the index of its entry, and no index of one of
\* the IdxMapElemCnt - 1 entries before it.
LEMMA IdxStep ==
    ASSUME IInv, RingInv, IdxInv, [SpecNext]_<<vars, specVars>>
    PROVE  IdxInv'
<1> DEFINE c == IdxMapElemCnt
<1>0. /\ log \in Seq(Entry) /\ Len(log) \in Nat /\ sequencer \in Nat /\ indexer = Len(log)
      /\ pc \in [Threads -> Phases] /\ req \in [Threads -> Entry]
      /\ idx_to_seq \in [0..(c - 1) -> Nat]
  BY DEF IInv, RingInv, TypeOK, LogInv, IdxInv
<1>c. c \in Nat
  BY MapSize
<1>1. ASSUME NEW t \in Threads, MapIdx(t) PROVE IdxInv'
  <2>1. /\ pc[t] = "lock" /\ UNCHANGED <<sequencer, indexer, log>>
        /\ idx_to_seq' = [idx_to_seq EXCEPT ![indexer % c] = sequencer]
    BY <1>1 DEF MapIdx, Claim, Goto, IdxSlot
  <2>2. c \in Nat \ {0}
    <3>1. MaxSize >= 2
      BY <2>1, LargestIsEntry DEF IInv, ThreadInv
    <3>2. sequencer + MaxSize <= ordered_watermk + RgSize
      BY <2>1, RoomToClaim
    <3>3. ordered_watermk \in Nat /\ fetch_begin \in Nat /\ ordered_watermk <= fetch_begin
          /\ fetch_begin <= sequencer
      BY DEF IInv, TypeOK, QueueInv, FetchInv
    <3>4. RgSize >= 2
      BY <1>0, <3>1, <3>2, <3>3
    <3> QED
      BY <3>4, MapSize
  <2> HIDE DEF c
  <2>3. \A i \in Nat : i % c \in 0..(c - 1)
    BY <2>2, DivMod
  <2>4. /\ idx_to_seq' \in [0..(c - 1) -> Nat]
        /\ idx_to_seq'[indexer % c] = sequencer
        /\ \A x \in 0..(c - 1) : x # indexer % c => idx_to_seq'[x] = idx_to_seq[x]
    BY <1>0, <2>1, <2>3
  <2>5. ASSUME NEW i \in 0..(Len(log) - 1), Len(log) < i + c
        PROVE  idx_to_seq'[i % c] = log[i + 1].seq
    <3>1. i \in i..(i + c - 1) /\ indexer \in i..(i + c - 1) /\ i # indexer /\ i \in Nat
      BY <1>0, <2>2, <2>5
    <3>2. i % c # indexer % c
      BY <2>2, <3>1, SameResidue
    <3>3. idx_to_seq[i % c] = log[i + 1].seq
      BY <2>5 DEF IdxInv, c
    <3> QED
      BY <2>3, <2>4, <3>1, <3>2, <3>3
  <2> QED
    BY <2>1, <2>4, <2>5 DEF IdxInv, IdxSlot, c
<1>2. ASSUME NEW t \in Threads, Publish(t), UNCHANGED specVars PROVE IdxInv'
  <2>1. /\ pc[t] = "claimed" /\ pc' = [pc EXCEPT ![t] = "serialize"] /\ log' = Append(log, req[t])
        /\ idx_to_seq' = idx_to_seq /\ idx_lk = {t} /\ req[t].seq = sequencer
        /\ idx_to_seq[indexer % c] = sequencer
    BY <1>2 DEF Publish, Goto, specVars, IInv, ThreadInv, IdxInv, IdxSlot
  <2>2. /\ Len(log') = Len(log) + 1 /\ log'[Len(log) + 1] = req[t]
        /\ \A i \in 1..Len(log) : log'[i] = log[i]
    BY <1>0, <2>1, AppendTyped
  <2>3. ASSUME NEW u \in Threads PROVE pc'[u] # "claimed"
    <3>1. CASE u = t
      BY <1>0, <2>1, <3>1
    <3>2. CASE u # t
      <4>1. pc[u] # "claimed"
        BY <2>1, <3>2 DEF IInv, ThreadInv
      <4> QED
        BY <1>0, <2>1, <3>2, <4>1
    <3> QED
      BY <3>1, <3>2
  <2> HIDE DEF c
  <2>4. ASSUME NEW i \in 0..(Len(log') - 1), Len(log') < i + c
        PROVE  idx_to_seq'[i % c] = log'[i + 1].seq
    <3>1. CASE i = Len(log)
      BY <1>0, <2>1, <2>2, <3>1
    <3>2. CASE i \in 0..(Len(log) - 1)
      <4>1. Len(log) < i + c /\ i + 1 \in 1..Len(log)
        BY <1>0, <1>c, <2>2, <2>4, <3>2
      <4>2. idx_to_seq[i % c] = log[i + 1].seq
        BY <3>2, <4>1 DEF IdxInv, c
      <4> QED
        BY <2>1, <2>2, <4>1, <4>2
    <3> QED
      BY <1>0, <2>2, <2>4, <3>1, <3>2
  <2> QED
    BY <1>0, <2>1, <2>3, <2>4 DEF IdxInv, c
<1>3. ASSUME UNCHANGED <<sequencer, indexer, log, idx_to_seq>>,
             \A u \in Threads : pc'[u] = "claimed" => pc[u] = "claimed"
      PROVE  IdxInv'
  BY <1>3 DEF IdxInv, IdxSlot
<1>4. ASSUME NEW t \in Threads, UNCHANGED specVars,
             \/ AppendEntry(t) \/ ReadSequencer(t) \/ ReadWatermark(t)
             \/ Serialize(t) \/ SetFlag(t) \/ CopyTail(t)
      PROVE  IdxInv'
  <2>1. /\ UNCHANGED <<sequencer, indexer, log, idx_to_seq>>
        /\ \A u \in Threads : pc'[u] = "claimed" => pc[u] = "claimed"
    BY <1>0, <1>4 DEF AppendEntry, ReadSequencer, ReadWatermark, Serialize, SetFlag, CopyTail, Goto,
       ringVars, specVars
  <2> QED
    BY <1>3, <2>1
<1>5. CASE (FetchStep \/ DeleteOrderedEntries) /\ UNCHANGED specVars
  <2>1. UNCHANGED <<sequencer, indexer, log, idx_to_seq, pc>>
    BY <1>5 DEF FetchStep, FetchRange, ReadLine, DeserializeOne, FetchReturn, DeleteOrderedEntries,
       ringVars, threadVars, specVars
  <2> QED
    BY <1>3, <2>1
<1>6. CASE UNCHANGED <<vars, idx_to_seq>>
  BY <1>3, <1>6 DEF vars, ringVars, threadVars
<1>7. CASE OtherStep
  BY <1>2, <1>4, <1>5, <1>7 DEF OtherStep, FinishWrite
<1>8. CASE SpecRead \/ ReadStep \/ UNCHANGED <<vars, specVars>>
  BY <1>6, <1>8 DEF SpecRead, ReadStep, CheckTooLow, CheckTooHigh, LookUpSeq, CheckLapped, CheckIdx,
     CopyWord, specVars
<1> QED
  BY <1>1, <1>7, <1>8 DEF SpecNext

-----------------------------------------------------------------------------
(* The steps of a read *)

\* The locals of a read.
LEMMA ReadFields ==
    ASSUME ReadType
    PROVE  /\ rd.step \in ReadSteps /\ rd.idx \in Nat /\ rd.seq \in Nat /\ rd.cur_seq \in Nat
           /\ rd.words \in Seq(Word) /\ Len(rd.words) \in Nat /\ rd.from \in Nat
           /\ rd.written \in BOOLEAN
<1>1. rd.words \in Seq(Word)
  BY DEF ReadType, Locals
<1>2. Len(rd.words) \in Nat
  BY <1>1
<1> QED
  BY <1>1, <1>2 DEF ReadType, Locals

\* Where there is an entry, there is a ring for it, and a map.
LEMMA AnEntry ==
    ASSUME IInv, RingInv, AllInOnePiece, NEW i \in 1..Len(log)
    PROVE  RgSize >= 2 /\ MaxSize >= 2 /\ IdxMapElemCnt \in Nat \ {0}
<1>1. TypeOK /\ LogInv /\ InOnePiece(log[i])
  BY DEF IInv, RingInv, AllInOnePiece
<1>2. log[i].seq \in Nat /\ log[i].size \in Nat /\ 2 <= log[i].size /\ log[i].size <= MaxSize
  BY <1>1, EntryFacts
<1>3. Offset(log[i].seq) \in Nat
  BY <1>2, OffsetInRing
<1>4. RgSize >= 2 /\ MaxSize >= 2
  BY <1>1, <1>2, <1>3 DEF InOnePiece
<1> QED
  BY <1>4, MapSize

\* While a read is not overtaken, it looks at the whole entry it asks for.
LEMMA Visible ==
    ASSUME IInv, RingInv, AllInOnePiece, LapInv, ReadType, ReadInv, rd.written,
           rd.step \in {"idx", "copy"}, NotOvertaken
    PROVE  /\ Target \in Entry /\ Target.idx = rd.idx /\ Target.size \in Sizes
           /\ Target.size \in Nat /\ 2 <= Target.size /\ Target.size <= MaxSize
           /\ \A k \in 1..Target.size : mem[Offset(rd.seq) + k - 1] = WordsOf(Target)[k]
<1>i. PICK i \in Nat : i = rd.idx + 1
  BY ReadFields
<1>1. /\ TypeOK /\ LogInv /\ sequencer \in Nat /\ Len(log) \in Nat
      /\ rd.idx \in Nat /\ rd.seq \in Nat /\ rd.cur_seq \in Nat
  BY ReadFields DEF IInv, RingInv, TypeOK
<1>2. /\ rd.idx < Len(log) /\ ~BeingWritten(Target) /\ rd.seq = Target.seq
      /\ rd.cur_seq > RgSize => rd.cur_seq + Slack < rd.seq + RgSize
  BY DEF ReadInv, NotOvertaken
<1>3. i \in 1..Len(log) /\ Target = log[i] /\ i - 1 = rd.idx
  BY <1>i, <1>1, <1>2 DEF Target
<1>4. /\ log[i] \in Entry /\ log[i].idx = i - 1 /\ log[i].size \in Sizes
      /\ log[i].size \in Nat /\ 2 <= log[i].size /\ log[i].size <= MaxSize
  BY <1>1, <1>3, EntryFacts
<1>5. sequencer + 2 <= log[i].seq + RgSize
  <2>1. \/ rd.cur_seq > RgSize /\ sequencer + 2 <= rd.cur_seq + Slack
        \/ sequencer + 2 <= Target.seq + RgSize
    BY DEF NotOvertaken, Target
  <2> QED
    BY <1>1, <1>2, <1>3, <2>1
<1>6. \A k \in 1..log[i].size : mem[Offset(log[i].seq) + k - 1] = WordsOf(log[i])[k]
  BY <1>2, <1>3, <1>5, StillWhole
<1> QED
  BY <1>2, <1>3, <1>4, <1>6

\* Appends and the consensus log leave a read alone.
LEMMA ReadKept ==
    ASSUME IInv, RingInv, AllInOnePiece, ReadType, ReadInv, [Next]_vars, rd' = rd
    PROVE  ReadType' /\ ReadInv'
<1>i. PICK i \in Nat : i = rd.idx + 1
  BY ReadFields
<1>1. /\ sequencer \in Nat /\ indexer \in Nat /\ Len(log) \in Nat
      /\ rd.idx \in Nat /\ rd.seq \in Nat /\ rd.cur_seq \in Nat /\ rd.from \in Nat
  BY ReadFields, LenFacts DEF IInv, TypeOK
<1>2. sequencer <= sequencer' /\ indexer <= indexer' /\ Len(log) <= Len(log')
  BY OnlyGrows
<1>3. sequencer' \in Nat /\ indexer' \in Nat /\ Len(log') \in Nat
  <2>1. IInv'
    BY NextIInv
  <2> QED
    BY <2>1 DEF IInv, TypeOK
<1>4. ReadType'
  BY <1>1, <1>2, <1>3 DEF ReadType
<1>5. ASSUME rd.step # "idle", rd.written
      PROVE  /\ rd.idx < Len(log') /\ ~BeingWritten(log[i])' /\ log'[i] = log[i] /\ log[i] = Target
             /\ i \in 1..Len(log)
  <2>1. rd.idx < Len(log) /\ ~BeingWritten(Target)
    BY <1>5 DEF ReadInv
  <2>2. i \in 1..Len(log) /\ log[i] = Target
    BY <1>i, <1>1, <2>1 DEF Target
  <2> QED
    BY <1>1, <1>2, <1>3, <2>1, <2>2, WrittenStays
<1>6. ASSUME rd.step # "idle", rd.written, NotOvertaken' PROVE NotOvertaken
  <2>1. log'[i] = log[i] /\ log[i].seq \in Nat
    <3>1. i \in 1..Len(log) /\ log'[i] = log[i] /\ TypeOK /\ LogInv
      BY <1>5, <1>6 DEF IInv, RingInv
    <3> QED
      BY <3>1, EntryFacts
  <2>2. /\ \/ rd.cur_seq > RgSize /\ sequencer' + 2 <= rd.cur_seq + Slack
           \/ sequencer' + 2 <= log'[i].seq + RgSize
        /\ indexer' <= rd.from + IdxSlack
    BY <1>i, <1>6 DEF NotOvertaken
  <2>3. indexer <= rd.from + IdxSlack
    BY <1>1, <1>2, <1>3, <2>2
  <2>4. ASSUME NEW x \in Nat, sequencer' + 2 <= x PROVE sequencer + 2 <= x
    <3>1. PICK a \in Nat : a = sequencer
      BY <1>1
    <3>2. PICK b \in Nat : b = sequencer'
      BY <1>3
    <3>3. a <= b /\ b + 2 <= x
      BY <1>2, <2>4, <3>1, <3>2
    <3>4. a + 2 <= x
      BY <3>3
    <3> QED
      BY <3>1, <3>4
  <2>5. \/ rd.cur_seq > RgSize /\ sequencer + 2 <= rd.cur_seq + Slack
        \/ sequencer + 2 <= log[i].seq + RgSize
    <3>1. rd.cur_seq + Slack \in Nat /\ log[i].seq + RgSize \in Nat
      BY <1>1, <2>1
    <3> QED
      BY <2>1, <2>2, <2>4, <3>1
  <2> QED
    BY <1>i, <2>3, <2>5 DEF NotOvertaken
<1>7. ASSUME rd.step # "idle", rd.written PROVE Target' = Target /\ ~BeingWritten(Target)'
  BY <1>i, <1>5, <1>7 DEF Target, BeingWritten
<1>8. ReadInv'
  <2> SUFFICES ASSUME rd'.step # "idle", rd'.written
      PROVE /\ rd'.idx < Len(log') /\ ~BeingWritten(Target)'
            /\ rd'.step # "tooLow" => rd'.from + IdxSlack < rd'.idx + IdxMapElemCnt
            /\ rd'.step \in {"lapped", "idx", "copy"} /\ indexer' <= rd'.from + IdxSlack =>
                  rd'.seq = Target'.seq
            /\ rd'.step \in {"idx", "copy"} /\ rd'.cur_seq > RgSize =>
                  rd'.cur_seq + Slack < rd'.seq + RgSize
            /\ rd'.step = "copy" /\ NotOvertaken' =>
                  /\ Len(rd'.words) < Target'.size
                  /\ \A k \in 1..Len(rd'.words) : rd'.words[k] = WordsOf(Target')[k]
    BY DEF ReadInv
  <2>1. rd.step # "idle" /\ rd.written
    OBVIOUS
  <2>2. Target' = Target /\ ~BeingWritten(Target)' /\ rd'.idx < Len(log')
    BY <1>5, <1>7, <2>1
  <2>3. indexer' <= rd.from + IdxSlack => indexer <= rd.from + IdxSlack
    BY <1>1, <1>2, <1>3
  <2>4. NotOvertaken' => NotOvertaken
    BY <1>6, <2>1
  <2> QED
    BY <2>1, <2>2, <2>3, <2>4 DEF ReadInv
<1> QED
  BY <1>4, <1>8

\* A step of a read keeps the invariant if its new locals are as it says.
LEMMA ReadMoves ==
    ASSUME UNCHANGED vars,
           rd'.step # "idle" /\ rd'.written =>
              /\ rd'.idx < Len(log) /\ ~BeingWritten(log[rd'.idx + 1])
              /\ rd'.step # "tooLow" => rd'.from + IdxSlack < rd'.idx + IdxMapElemCnt
              /\ rd'.step \in {"lapped", "idx", "copy"} /\ indexer <= rd'.from + IdxSlack =>
                    rd'.seq = log[rd'.idx + 1].seq
              /\ rd'.step \in {"idx", "copy"} /\ rd'.cur_seq > RgSize =>
                    rd'.cur_seq + Slack < rd'.seq + RgSize
              /\ rd'.step = "copy" /\ NotOvertaken' =>
                    /\ Len(rd'.words) < log[rd'.idx + 1].size
                    /\ \A k \in 1..Len(rd'.words) : rd'.words[k] = WordsOf(log[rd'.idx + 1])[k]
    PROVE  ReadInv'
<1>1. UNCHANGED <<mem, sequencer, indexer, pc, req, log>>
  BY DEF vars, ringVars, threadVars
<1>2. Target' = log[rd'.idx + 1] /\ BeingWritten(Target)' = BeingWritten(log[rd'.idx + 1])
  BY <1>1 DEF Target, BeingWritten
<1> QED
  BY <1>1, <1>2 DEF ReadInv

\* The end of a read.
LEMMA ReadEnds ==
    ASSUME NEW v \in Int, NEW ws \in Seq(Word), Return(v, ws)
    PROVE  ReadType' /\ ReadInv' /\ rd'.step = "idle" /\ rd'.ret = v /\ rd'.words = ws
<1>1. /\ rd'.step = "idle" /\ rd'.ret = v /\ rd'.words = ws
      /\ rd' = [step |-> "idle", idx |-> 0, seq |-> 0, cur_seq |-> 0, words |-> ws,
                ret |-> v, from |-> 0, written |-> FALSE]
  BY DEF Return, NoRead
<1> DEFINE W == Seq(Word)
<1>2. ws \in W
  OBVIOUS
<1> HIDE DEF W
<1>3. rd' \in [step : ReadSteps, idx : Nat, seq : Nat, cur_seq : Nat, words : W,
                ret : Int, from : Nat, written : BOOLEAN]
  BY <1>1, <1>2 DEF ReadSteps
<1>4. ReadType'
  BY <1>1, <1>3 DEF ReadType, Locals, W, Word, Entry
<1>5. ReadInv'
  BY <1>1 DEF ReadInv
<1> QED
  BY <1>1, <1>4, <1>5

\* The end of a read without an entry.
LEMMA ReadAnswers ==
    ASSUME NEW v \in Int, Answer(v)
    PROVE  ReadType' /\ ReadInv' /\ rd'.step = "idle" /\ rd'.ret = v
<1>1. Return(v, <<>>) /\ <<>> \in Seq(Word)
  BY DEF Answer
<1> QED
  BY <1>1, ReadEnds

\* The call of a client.
LEMMA SpecReadStep ==
    ASSUME IInv, RingInv, ReadType, SpecRead
    PROVE  ReadType' /\ ReadInv'
<1>1. PICK i \in 0..indexer :
         rd' = [NoRead EXCEPT !.step = "tooLow", !.idx = i, !.from = indexer,
                              !.written = i < Len(log) /\ ~BeingWritten(log[i + 1])]
  BY DEF SpecRead
<1>2. indexer \in Nat /\ UNCHANGED vars
  BY DEF IInv, TypeOK, SpecRead
<1>w. PICK b \in BOOLEAN : b = (i < Len(log) /\ ~BeingWritten(log[i + 1]))
  OBVIOUS
<1>3. rd' = [step |-> "tooLow", idx |-> i, seq |-> 0, cur_seq |-> 0, words |-> <<>>,
             ret |-> 0, from |-> indexer, written |-> b]
  BY <1>1, <1>w DEF NoRead
<1>4. ReadType'
  <2> DEFINE W == Seq(Word)
  <2>1. <<>> \in W
    OBVIOUS
  <2> HIDE DEF W
  <2>2. rd' \in [step : ReadSteps, idx : Nat, seq : Nat, cur_seq : Nat, words : W,
                  ret : Int, from : Nat, written : BOOLEAN]
    BY <1>2, <1>3, <2>1 DEF ReadSteps
  <2> QED
    BY <1>3, <2>2 DEF ReadType, Locals, W, Word, Entry
<1>5. rd'.step = "tooLow" /\ rd'.idx = i /\ (rd'.written => i < Len(log) /\ ~BeingWritten(log[i + 1]))
  BY <1>3, <1>w
<1>6. ReadInv'
  BY <1>2, <1>5, ReadMoves
<1> QED
  BY <1>4, <1>6

\* A read that goes on does so with the locals it is given.
LEMMA ReadGoesOn ==
    ASSUME NEW r \in Locals, NEW next \in ReadSteps, GoOn(next, r)
    PROVE  /\ rd' \in Locals /\ rd'.step = next /\ rd'.idx = r.idx /\ rd'.seq = r.seq
           /\ rd'.cur_seq = r.cur_seq /\ rd'.words = r.words /\ rd'.from = r.from
           /\ rd'.written = r.written
<1> DEFINE W == Seq(Word)
<1>1. r \in [step : ReadSteps, idx : Nat, seq : Nat, cur_seq : Nat, words : W,
             ret : Int, from : Nat, written : BOOLEAN]
  BY DEF Locals
<1> HIDE DEF W
<1>2. rd' = [r EXCEPT !.step = next]
  BY DEF GoOn
<1>3. rd' \in [step : ReadSteps, idx : Nat, seq : Nat, cur_seq : Nat, words : W,
               ret : Int, from : Nat, written : BOOLEAN]
  BY <1>1, <1>2
<1>4. rd' \in Locals
  BY <1>3 DEF Locals, W
<1> QED
  BY <1>1, <1>2, <1>4

\* A step of a read that leaves the log alone has locals of that type.
LEMMA LocalsTyped ==
    ASSUME log' = log, rd' \in Locals,
           rd'.step \in {"mapped", "lapped", "idx", "copy"} => rd'.idx < Len(log),
           rd'.step \notin {"idle", "copy"} => rd'.words = <<>>,
           rd'.step = "copy" => Len(rd'.words) < MaxSize
    PROVE  ReadType'
BY DEF ReadType, Locals, Word, Entry

\* The log is young, or the entry asked for is one of the oldest.
TooOld == ~(LongLog /\ InReach(rd.idx))

\* An index that passes the test has its mapping for another IdxSlack appends,
\* and one that does not is too old.
LEMMA CheckTooLowStep ==
    ASSUME IInv, RingInv, ReadType, ReadInv, CheckTooLow
    PROVE  ReadType' /\ ReadInv' /\ (rd'.step = "idle" => rd'.ret = -1 /\ TooOld)
<1>1. CASE TooLow(rd.idx)
  <2>1. Answer(-1)
    BY <1>1 DEF CheckTooLow
  <2>2. ReadType' /\ ReadInv' /\ rd'.step = "idle" /\ rd'.ret = -1
    BY <2>1, ReadAnswers
  <2>3. indexer \in Nat /\ rd.idx \in Nat /\ IdxMapElemCnt \in Nat
    BY ReadFields, MapSize DEF IInv, TypeOK
  <2>4. CASE indexer + IdxSlack < IdxMapElemCnt
    BY IdxSlackAssumption, <2>2, <2>3, <2>4 DEF TooOld, LongLog
  <2>5. CASE rd.idx <= indexer + IdxSlack - IdxMapElemCnt
    <3>1. ~(indexer + IdxSlack < rd.idx + IdxMapElemCnt)
      BY IdxSlackAssumption, <2>3, <2>5
    <3> QED
      BY <2>2, <3>1 DEF TooOld, InReach
  <2> QED
    BY <1>1, <2>2, <2>4, <2>5 DEF TooLow
<1>2. CASE ~TooLow(rd.idx)
  <2> DEFINE r == [rd EXCEPT !.from = indexer]
  <2>0. /\ indexer \in Nat /\ rd.step = "tooLow" /\ rd \in Locals /\ UNCHANGED vars /\ log' = log
        /\ rd.words = <<>> /\ rd.idx \in Nat /\ IdxMapElemCnt \in Nat
    BY ReadFields, MapSize DEF IInv, TypeOK, ReadType, Locals, CheckTooLow, vars
  <2>1. GoOn("tooHigh", r) /\ "tooHigh" \in ReadSteps
    BY <1>2 DEF CheckTooLow, ReadSteps
  <2>2. r \in Locals /\ r.idx = rd.idx /\ r.from = indexer /\ r.words = rd.words /\ r.written = rd.written
    <3> DEFINE W == Seq(Word)
    <3>1. rd \in [step : ReadSteps, idx : Nat, seq : Nat, cur_seq : Nat, words : W,
                  ret : Int, from : Nat, written : BOOLEAN]
      BY <2>0 DEF Locals
    <3> HIDE DEF W
    <3>2. r \in [step : ReadSteps, idx : Nat, seq : Nat, cur_seq : Nat, words : W,
                 ret : Int, from : Nat, written : BOOLEAN]
      BY <2>0, <3>1
    <3>3. r \in Locals
      BY <3>2 DEF Locals, W
    <3> QED
      BY <3>1, <3>3
  <2> HIDE DEF r
  <2>3. /\ rd' \in Locals /\ rd'.step = "tooHigh" /\ rd'.idx = rd.idx /\ rd'.from = indexer
        /\ rd'.words = <<>> /\ rd'.written = rd.written
    BY <2>0, <2>1, <2>2, ReadGoesOn
  <2>4. ReadType'
    BY <2>0, <2>3, LocalsTyped
  <2>5. indexer + IdxSlack < rd.idx + IdxMapElemCnt
    <3>1. ~(indexer + IdxSlack < IdxMapElemCnt) /\ ~(rd.idx <= indexer + IdxSlack - IdxMapElemCnt)
      BY <1>2 DEF TooLow
    <3> QED
      BY <2>0, <3>1
  <2>6. rd.written => rd.idx < Len(log) /\ ~BeingWritten(log[rd.idx + 1])
    BY <2>0 DEF ReadInv, Target
  <2>7. ReadInv'
    BY <2>0, <2>3, <2>5, <2>6, ReadMoves
  <2> QED
    BY <2>3, <2>4, <2>7
<1> QED
  BY <1>1, <1>2

\* An entry that was written is not beyond the tail.
LEMMA CheckTooHighStep ==
    ASSUME IInv, RingInv, ReadType, ReadInv, CheckTooHigh
    PROVE  /\ ReadType' /\ ReadInv'
           /\ rd'.step = "idle" => rd'.ret = -2 /\ ~rd.written
<1>0. /\ indexer = Len(log) /\ Len(log) \in Nat /\ rd.step = "tooHigh" /\ rd \in Locals
      /\ UNCHANGED vars /\ log' = log /\ rd.words = <<>> /\ rd.idx \in Nat
  BY ReadFields, LenFacts DEF IInv, RingInv, LogInv, ReadType, Locals, CheckTooHigh, vars
<1>1. /\ rd.written => rd.idx < Len(log) /\ ~BeingWritten(log[rd.idx + 1])
      /\ rd.written => rd.from + IdxSlack < rd.idx + IdxMapElemCnt
  BY <1>0 DEF ReadInv, Target
<1>2. CASE rd.idx >= indexer
  <2>1. Answer(-2)
    BY <1>2 DEF CheckTooHigh
  <2>2. ReadType' /\ ReadInv' /\ rd'.step = "idle" /\ rd'.ret = -2
    BY <2>1, ReadAnswers
  <2>3. ~rd.written
    BY <1>0, <1>1, <1>2
  <2> QED
    BY <2>2, <2>3
<1>3. CASE ~(rd.idx >= indexer)
  <2>1. GoOn("mapped", rd) /\ "mapped" \in ReadSteps
    BY <1>3 DEF CheckTooHigh, ReadSteps
  <2>2. /\ rd' \in Locals /\ rd'.step = "mapped" /\ rd'.idx = rd.idx /\ rd'.from = rd.from
        /\ rd'.words = <<>> /\ rd'.written = rd.written
    BY <1>0, <2>1, ReadGoesOn
  <2>3. rd.idx < Len(log)
    BY <1>0, <1>3
  <2>4. ReadType'
    BY <1>0, <2>2, <2>3, LocalsTyped
  <2>5. ReadInv'
    BY <1>0, <1>1, <2>2, ReadMoves
  <2> QED
    BY <2>2, <2>4, <2>5
<1> QED
  BY <1>2, <1>3

\* The place found in the map is that of the entry, if its mapping was not reused.
LEMMA LookUpSeqStep ==
    ASSUME IInv, RingInv, AllInOnePiece, IdxInv, ReadType, ReadInv, LookUpSeq
    PROVE  ReadType' /\ ReadInv' /\ rd'.step # "idle"
<1> DEFINE q == idx_to_seq[rd.idx % IdxMapElemCnt]
           r == [rd EXCEPT !.seq = q]
<1>0. /\ indexer = Len(log) /\ Len(log) \in Nat /\ rd.step = "mapped" /\ rd \in Locals
      /\ UNCHANGED vars /\ log' = log /\ rd.words = <<>> /\ rd.idx \in Nat /\ rd.from \in Nat
      /\ rd.idx < Len(log)
  BY ReadFields, LenFacts DEF IInv, RingInv, LogInv, ReadType, Locals, LookUpSeq, vars
<1>1. /\ rd.written => ~BeingWritten(log[rd.idx + 1])
      /\ rd.written => rd.from + IdxSlack < rd.idx + IdxMapElemCnt
  BY <1>0 DEF ReadInv, Target
<1>2. IdxMapElemCnt \in Nat \ {0} /\ rd.idx \in 0..(Len(log) - 1)
  <2>1. rd.idx + 1 \in 1..Len(log)
    BY <1>0
  <2> QED
    BY <1>0, <2>1, AnEntry
<1>3. q \in Nat
  <2>1. rd.idx % IdxMapElemCnt \in 0..(IdxMapElemCnt - 1)
    BY <1>0, <1>2, DivMod
  <2> QED
    BY <2>1 DEF IdxInv
<1>4. rd.written /\ indexer <= rd.from + IdxSlack => q = log[rd.idx + 1].seq
  <2> SUFFICES ASSUME rd.written, indexer <= rd.from + IdxSlack PROVE q = log[rd.idx + 1].seq
    OBVIOUS
  <2>1. Len(log) < rd.idx + IdxMapElemCnt
    BY <1>0, <1>1, <1>2
  <2> QED
    BY <1>2, <2>1 DEF IdxInv
<1> HIDE DEF q
<1>5. GoOn("lapped", r) /\ "lapped" \in ReadSteps
  BY DEF LookUpSeq, ReadSteps, q
<1>6. /\ r \in Locals /\ r.idx = rd.idx /\ r.from = rd.from /\ r.words = rd.words
      /\ r.written = rd.written /\ r.seq = q
  <2> DEFINE W == Seq(Word)
  <2>1. rd \in [step : ReadSteps, idx : Nat, seq : Nat, cur_seq : Nat, words : W,
                ret : Int, from : Nat, written : BOOLEAN]
    BY <1>0 DEF Locals
  <2> HIDE DEF W
  <2>2. r \in [step : ReadSteps, idx : Nat, seq : Nat, cur_seq : Nat, words : W,
               ret : Int, from : Nat, written : BOOLEAN]
    BY <1>3, <2>1
  <2>3. r \in Locals
    BY <2>2 DEF Locals, W
  <2> QED
    BY <2>1, <2>3
<1> HIDE DEF r
<1>7. /\ rd' \in Locals /\ rd'.step = "lapped" /\ rd'.idx = rd.idx /\ rd'.from = rd.from
      /\ rd'.words = <<>> /\ rd'.written = rd.written /\ rd'.seq = q
  BY <1>0, <1>5, <1>6, ReadGoesOn
<1>8. ReadType'
  BY <1>0, <1>7, LocalsTyped
<1>9. ReadInv'
  BY <1>0, <1>1, <1>4, <1>7, ReadMoves
<1> QED
  BY <1>7, <1>8, <1>9

\* An entry that passes the test is out of reach of the reserve, and one that
\* does not is too old, unless the read was overtaken.
LEMMA CheckLappedStep ==
    ASSUME IInv, RingInv, ReadType, ReadInv, CheckLapped
    PROVE  /\ ReadType' /\ ReadInv'
           /\ rd'.step = "idle" => rd'.ret = -1 /\ (rd.written /\ NotOvertaken => TooOld)
<1>1. CASE NearlyLapped(rd.seq)
  <2>1. Answer(-1)
    BY <1>1 DEF CheckLapped
  <2>2. ReadType' /\ ReadInv' /\ rd'.step = "idle" /\ rd'.ret = -1
    BY <2>1, ReadAnswers
  <2>3. ASSUME rd.written, NotOvertaken PROVE TooOld
    <3>1. rd.step = "lapped" /\ indexer <= rd.from + IdxSlack
      BY <2>3 DEF CheckLapped, NotOvertaken
    <3>2. rd.seq = log[rd.idx + 1].seq
      BY <2>3, <3>1 DEF ReadInv, Target
    <3>3. sequencer \in Nat /\ rd.seq \in Nat
      BY ReadFields DEF IInv, TypeOK
    <3>4. sequencer > RgSize /\ ~(sequencer + Slack < rd.seq + RgSize)
      BY <1>1, <3>3 DEF NearlyLapped
    <3> QED
      BY <3>2, <3>4 DEF TooOld, InReach
  <2> QED
    BY <2>2, <2>3
<1>2. CASE ~NearlyLapped(rd.seq)
  <2> DEFINE r == [rd EXCEPT !.cur_seq = sequencer]
  <2>0. /\ sequencer \in Nat /\ rd.step = "lapped" /\ rd \in Locals /\ UNCHANGED vars /\ log' = log
        /\ rd.words = <<>> /\ rd.idx < Len(log) /\ rd.seq \in Nat
    BY ReadFields DEF IInv, TypeOK, ReadType, Locals, CheckLapped, vars
  <2>1. GoOn("idx", r) /\ "idx" \in ReadSteps
    BY <1>2 DEF CheckLapped, ReadSteps
  <2>2. /\ r \in Locals /\ r.idx = rd.idx /\ r.from = rd.from /\ r.words = rd.words
        /\ r.written = rd.written /\ r.seq = rd.seq /\ r.cur_seq = sequencer
    <3> DEFINE W == Seq(Word)
    <3>1. rd \in [step : ReadSteps, idx : Nat, seq : Nat, cur_seq : Nat, words : W,
                  ret : Int, from : Nat, written : BOOLEAN]
      BY <2>0 DEF Locals
    <3> HIDE DEF W
    <3>2. r \in [step : ReadSteps, idx : Nat, seq : Nat, cur_seq : Nat, words : W,
                 ret : Int, from : Nat, written : BOOLEAN]
      BY <2>0, <3>1
    <3>3. r \in Locals
      BY <3>2 DEF Locals, W
    <3> QED
      BY <3>1, <3>3
  <2> HIDE DEF r
  <2>3. /\ rd' \in Locals /\ rd'.step = "idx" /\ rd'.idx = rd.idx /\ rd'.from = rd.from
        /\ rd'.words = <<>> /\ rd'.written = rd.written /\ rd'.seq = rd.seq /\ rd'.cur_seq = sequencer
    BY <2>0, <2>1, <2>2, ReadGoesOn
  <2>4. ReadType'
    BY <2>0, <2>3, LocalsTyped
  <2>5. sequencer > RgSize => sequencer + Slack < rd.seq + RgSize
    <3>1. sequencer > RgSize => ~(rd.seq <= sequencer - RgSize + Slack)
      BY <1>2 DEF NearlyLapped
    <3> QED
      BY <2>0, <3>1
  <2>6. /\ rd.written => ~BeingWritten(log[rd.idx + 1])
        /\ rd.written => rd.from + IdxSlack < rd.idx + IdxMapElemCnt
        /\ rd.written /\ indexer <= rd.from + IdxSlack => rd.seq = log[rd.idx + 1].seq
    BY <2>0 DEF ReadInv, Target
  <2>7. ReadInv'
    BY <2>0, <2>3, <2>5, <2>6, ReadMoves
  <2> QED
    BY <2>3, <2>4, <2>7
<1> QED
  BY <1>1, <1>2

\* The first two words of an entry: its metadata and its flag.
LEMMA FirstWords ==
    ASSUME NEW e \in Entry, e.size \in Nat, 2 <= e.size
    PROVE  /\ WordsOf(e)[1] = [e |-> e, p |-> 0, f |-> 0]
           /\ WordsOf(e)[2] = [e |-> NoEntry, p |-> 1, f |-> 1]
<1>1. 1 \in 1..e.size /\ 2 \in 1..e.size
  OBVIOUS
<1> QED
  BY <1>1 DEF WordsOf, EntryWord, FlagWord

\* The entry found has the index, unless the read was overtaken.
LEMMA CheckIdxStep ==
    ASSUME IInv, RingInv, AllInOnePiece, LapInv, ReadType, ReadInv, CheckIdx
    PROVE  /\ ReadType' /\ ReadInv'
           /\ rd'.step = "idle" => rd'.ret = 0 /\ ~(rd.written /\ NotOvertaken)
<1>0. /\ rd.step = "idx" /\ rd \in Locals /\ UNCHANGED vars /\ log' = log /\ rd.words = <<>>
      /\ rd.idx < Len(log) /\ rd.idx \in Nat /\ Len(log) \in Nat
  BY ReadFields, LenFacts DEF IInv, ReadType, Locals, CheckIdx, vars
<1>1. MaxSize >= 2
  <2>1. rd.idx + 1 \in 1..Len(log)
    BY <1>0
  <2> QED
    BY <2>1, AnEntry
<1> DEFINE w == mem[Offset(rd.seq)]
<1>2. CASE (w.p = 0 => w.e.idx # rd.idx) /\ Answer(0)
  <2>1. ReadType' /\ ReadInv' /\ rd'.step = "idle" /\ rd'.ret = 0
    BY <1>2, ReadAnswers
  <2>2. ASSUME rd.written, NotOvertaken PROVE FALSE
    <3>1. /\ Target \in Entry /\ Target.idx = rd.idx /\ Target.size \in Nat /\ 2 <= Target.size
          /\ \A k \in 1..Target.size : mem[Offset(rd.seq) + k - 1] = WordsOf(Target)[k]
      BY <1>0, <2>2, Visible
    <3>a. Offset(rd.seq) \in Nat
      BY ReadFields, OffsetInRing
    <3>2. Offset(rd.seq) + 1 - 1 = Offset(rd.seq) /\ 1 \in 1..Target.size
      BY <3>1, <3>a
    <3>3. w = WordsOf(Target)[1]
      BY <3>1, <3>2
    <3>4. WordsOf(Target)[1] = [e |-> Target, p |-> 0, f |-> 0]
      BY <3>1, FirstWords
    <3>5. w.p = 0 /\ w.e = Target
      BY <3>3, <3>4
    <3> QED
      BY <1>2, <3>1, <3>5
  <2> QED
    BY <2>1, <2>2
<1>3. CASE GoOn("copy", rd)
  <2>1. "copy" \in ReadSteps
    BY DEF ReadSteps
  <2>2. /\ rd' \in Locals /\ rd'.step = "copy" /\ rd'.idx = rd.idx /\ rd'.from = rd.from
        /\ rd'.words = <<>> /\ rd'.written = rd.written /\ rd'.seq = rd.seq
        /\ rd'.cur_seq = rd.cur_seq
    BY <1>0, <1>3, <2>1, ReadGoesOn
  <2>3. ReadType'
    BY <1>0, <1>1, <2>2, LocalsTyped
  <2>4. /\ rd.written => ~BeingWritten(log[rd.idx + 1])
        /\ rd.written => rd.from + IdxSlack < rd.idx + IdxMapElemCnt
        /\ rd.written /\ indexer <= rd.from + IdxSlack => rd.seq = log[rd.idx + 1].seq
        /\ rd.written /\ rd.cur_seq > RgSize => rd.cur_seq + Slack < rd.seq + RgSize
    BY <1>0 DEF ReadInv, Target
  <2>5. log[rd.idx + 1].size \in Nat /\ 2 <= log[rd.idx + 1].size
    <3>i. PICK i \in Nat : i = rd.idx + 1
      BY <1>0
    <3>j. i \in 1..Len(log)
      BY <1>0, <3>i
    <3>0. TypeOK /\ LogInv
      BY DEF IInv, RingInv
    <3>1. log[i].size \in Nat /\ 2 <= log[i].size
      BY <3>j, <3>0, EntryFacts
    <3> QED
      BY <3>i, <3>1
  <2>6. Len(rd'.words) < log[rd'.idx + 1].size /\ 1..Len(rd'.words) = {}
    BY <2>2, <2>5
  <2>7. ReadInv'
    BY <1>0, <2>2, <2>4, <2>6, ReadMoves
  <2> QED
    BY <2>2, <2>3, <2>7
<1> QED
  BY <1>2, <1>3 DEF CheckIdx

\* The next word is copied; unless the read was overtaken it is the next one
\* of the entry, the flag is found set, and the last word ends the read.
LEMMA CopyWordStep ==
    ASSUME IInv, RingInv, AllInOnePiece, LapInv, ReadType, ReadInv, CopyWord
    PROVE  /\ ReadType' /\ ReadInv'
           /\ rd'.step = "idle" /\ rd.written /\ NotOvertaken =>
                 rd'.ret \in Sizes /\ rd'.words = WordsOf(Target)
<1>n. PICK n \in Nat : n = Len(rd.words)
  BY ReadFields
<1>0. /\ rd.step = "copy" /\ rd \in Locals /\ UNCHANGED vars /\ log' = log
      /\ rd.idx < Len(log) /\ n < MaxSize /\ rd.words \in Seq(Word) /\ rd.seq \in Nat
      /\ mem \in [Address -> Word]
  BY <1>n, ReadFields DEF IInv, TypeOK, ReadType, Locals, CopyWord, vars
<1>o. Offset(rd.seq) \in Nat /\ Offset(rd.seq) + n \in Address
  <2>1. Offset(rd.seq) \in Nat /\ Offset(rd.seq) < RgSize
    BY <1>0, OffsetInRing
  <2> QED
    BY <1>0, <2>1 DEF Address
<1>w. PICK w \in Word : w = mem[Offset(rd.seq) + n]
  BY <1>0, <1>o
<1>s. PICK ws \in Seq(Word) : ws = Append(rd.words, w)
  BY <1>0, AppendTyped
<1>1. /\ Len(ws) = n + 1 /\ ws[n + 1] = w /\ \A k \in 1..n : ws[k] = rd.words[k]
  BY <1>0, <1>n, <1>s, AppendTyped
<1>2. ws[1] \in Word
  <2>1. 1 \in 1..Len(ws)
    BY <1>1
  <2> QED
    BY <2>1, ElementOfSeq
<1> DEFINE r == [rd EXCEPT !.words = ws]
<1>3. /\ r \in Locals /\ r.step = "copy" /\ r.idx = rd.idx /\ r.from = rd.from /\ r.words = ws
      /\ r.written = rd.written /\ r.seq = rd.seq /\ r.cur_seq = rd.cur_seq
  <2> DEFINE W == Seq(Word)
  <2>1. /\ ws \in W
        /\ rd \in [step : ReadSteps, idx : Nat, seq : Nat, cur_seq : Nat, words : W,
                   ret : Int, from : Nat, written : BOOLEAN]
    BY <1>0 DEF Locals
  <2> HIDE DEF W
  <2>2. r \in [step : ReadSteps, idx : Nat, seq : Nat, cur_seq : Nat, words : W,
               ret : Int, from : Nat, written : BOOLEAN]
    BY <2>1
  <2>3. r \in Locals
    BY <2>2 DEF Locals, W
  <2> QED
    BY <1>0, <2>1, <2>3
<1>4. \/ n = 1 /\ 0 \in FlagsIn(w) /\ Answer(0)
      \/ /\ n = 1 => 1 \in FlagsIn(w)
         /\ \E size \in SizesIn(ws[1]) : IF n + 1 >= size THEN Return(size, ws) ELSE rd' = r
  <2>1. r.words = ws
    BY <1>3
  <2> QED
    BY <1>n, <1>w, <1>s, <2>1 DEF CopyWord
<1> HIDE DEF r
<1>5. ASSUME rd.written, NotOvertaken
      PROVE  /\ Target.size \in Nat /\ n < Target.size
             /\ \A k \in 1..(n + 1) : ws[k] = WordsOf(Target)[k]
             /\ SizesIn(ws[1]) = {Target.size} /\ Target.size \in Sizes
             /\ n = 1 => 0 \notin FlagsIn(w)
  <2>1. /\ Target \in Entry /\ Target.size \in Nat /\ 2 <= Target.size /\ Target.size \in Sizes
        /\ \A k \in 1..Target.size : mem[Offset(rd.seq) + k - 1] = WordsOf(Target)[k]
    BY <1>0, <1>5, Visible
  <2>2. n < Target.size /\ \A k \in 1..n : rd.words[k] = WordsOf(Target)[k]
    BY <1>n, <1>0, <1>5 DEF ReadInv
  <2>3. w = WordsOf(Target)[n + 1]
    <3>1. n + 1 \in 1..Target.size /\ Offset(rd.seq) + (n + 1) - 1 = Offset(rd.seq) + n
      BY <1>o, <2>1, <2>2
    <3> QED
      BY <1>w, <2>1, <3>1
  <2>4. ASSUME NEW k \in 1..(n + 1) PROVE ws[k] = WordsOf(Target)[k]
    <3>1. CASE k = n + 1
      BY <1>1, <2>3, <3>1
    <3>2. CASE k \in 1..n
      BY <1>1, <2>2, <3>2
    <3> QED
      BY <3>1, <3>2
  <2>5. /\ WordsOf(Target)[1] = [e |-> Target, p |-> 0, f |-> 0]
        /\ WordsOf(Target)[2] = [e |-> NoEntry, p |-> 1, f |-> 1]
    BY <2>1, FirstWords
  <2>6. ws[1] = [e |-> Target, p |-> 0, f |-> 0]
    BY <2>4, <2>5
  <2>7. SizesIn(ws[1]) = {Target.size}
    BY <2>6 DEF SizesIn
  <2>8. n = 1 => 0 \notin FlagsIn(w)
    BY <2>3, <2>5 DEF FlagsIn
  <2> QED
    BY <2>1, <2>2, <2>4, <2>7, <2>8
<1>6. CASE n = 1 /\ 0 \in FlagsIn(w) /\ Answer(0)
  <2>1. ReadType' /\ ReadInv' /\ rd'.step = "idle"
    BY <1>6, ReadAnswers
  <2> QED
    BY <1>5, <1>6, <2>1
<1>7. ASSUME NEW size \in SizesIn(ws[1]), n + 1 >= size, Return(size, ws)
      PROVE  /\ ReadType' /\ ReadInv'
             /\ rd'.step = "idle" /\ rd.written /\ NotOvertaken =>
                   rd'.ret \in Sizes /\ rd'.words = WordsOf(Target)
  <2>0. size \in Sizes
    BY <1>2, SizesInWord
  <2>1. size \in Sizes /\ size \in Int
    BY <2>0, SizeBounds
  <2>2. ReadType' /\ ReadInv' /\ rd'.ret = size /\ rd'.words = ws
    BY <1>7, <2>1, ReadEnds
  <2>3. ASSUME rd.written, NotOvertaken PROVE ws = WordsOf(Target)
    <3>1. size = Target.size /\ n + 1 = Target.size
      BY <1>5, <1>7, <2>3
    <3>2. \A k \in 1..(n + 1) : ws[k] = WordsOf(Target)[k]
      BY <1>5, <2>3
    <3>3. ws = [k \in 1..(n + 1) |-> ws[k]]
      BY <1>1
    <3>4. WordsOf(Target) = [k \in 1..(n + 1) |-> WordsOf(Target)[k]]
      BY <3>1 DEF WordsOf
    <3> QED
      BY <3>2, <3>3, <3>4, Zenon
  <2> QED
    BY <2>1, <2>2, <2>3
<1>8. ASSUME NEW size \in SizesIn(ws[1]), ~(n + 1 >= size), rd' = r
      PROVE  ReadType' /\ ReadInv' /\ rd'.step # "idle"
  <2>0. size \in Sizes
    BY <1>2, SizesInWord
  <2>1. size \in Nat /\ size <= MaxSize
    BY <2>0, SizeBounds
  <2>2. /\ rd' \in Locals /\ rd'.step = "copy" /\ rd'.idx = rd.idx /\ rd'.from = rd.from
        /\ rd'.words = ws /\ rd'.written = rd.written /\ rd'.seq = rd.seq
        /\ rd'.cur_seq = rd.cur_seq
    BY <1>3, <1>8
  <2>3. Len(rd'.words) < MaxSize
    BY <1>1, <1>8, <2>1, <2>2
  <2>4. ReadType'
    BY <1>0, <2>2, <2>3, LocalsTyped
  <2>5. NotOvertaken' <=> NotOvertaken
    <3>1. UNCHANGED <<sequencer, indexer, log>>
      BY <1>0 DEF vars, ringVars
    <3> QED
      BY <2>2, <3>1 DEF NotOvertaken
  <2>6. rd.written /\ NotOvertaken =>
           Len(ws) < Target.size /\ \A k \in 1..Len(ws) : ws[k] = WordsOf(Target)[k]
    <3> SUFFICES ASSUME rd.written, NotOvertaken
                 PROVE  Len(ws) < Target.size /\ \A k \in 1..Len(ws) : ws[k] = WordsOf(Target)[k]
      OBVIOUS
    <3>1. size = Target.size /\ \A k \in 1..(n + 1) : ws[k] = WordsOf(Target)[k]
      BY <1>5
    <3>2. Len(ws) < Target.size
      BY <1>1, <1>8, <2>1, <3>1
    <3> QED
      BY <1>1, <3>1, <3>2
  <2>7. /\ rd.written => ~BeingWritten(log[rd.idx + 1])
        /\ rd.written => rd.from + IdxSlack < rd.idx + IdxMapElemCnt
        /\ rd.written /\ indexer <= rd.from + IdxSlack => rd.seq = log[rd.idx + 1].seq
        /\ rd.written /\ rd.cur_seq > RgSize => rd.cur_seq + Slack < rd.seq + RgSize
    BY <1>0 DEF ReadInv, Target
  <2>8. ReadInv'
    <3>1. log[rd'.idx + 1] = Target
      BY <2>2 DEF Target
    <3> QED
      BY <1>0, <2>2, <2>5, <2>6, <2>7, <3>1, ReadMoves
  <2> QED
    BY <2>2, <2>4, <2>8
<1> QED
  BY <1>4, <1>6, <1>7, <1>8

-----------------------------------------------------------------------------
(* What a read returns *)

\* Nothing is mapped, and nobody reads.
LEMMA SpecReadInit == SpecInit => SpecReadInv
<1> SUFFICES ASSUME SpecInit PROVE SpecReadInv
  OBVIOUS
<1>1. /\ log = <<>> /\ rd = NoRead /\ pc = [t \in Threads |-> "idle"]
      /\ idx_to_seq = [i \in 0..(IdxMapElemCnt - 1) |-> 0]
  BY DEF SpecInit, Init
<1>2. LapInv
  BY <1>1 DEF LapInv
<1>3. IdxInv
  BY <1>1 DEF IdxInv
<1>4. ReadType
  BY <1>1 DEF ReadType, Locals, NoRead, ReadSteps
<1>5. ReadInv
  BY <1>1 DEF ReadInv, NoRead
<1> QED
  BY <1>2, <1>3, <1>4, <1>5 DEF SpecReadInv

\* What the end of a read may say of an entry that was written before it.
EndsRight ==
    Returns => /\ rd'.ret > 0 \/ (rd'.ret = -1 /\ TooOld)
               /\ rd'.ret > 0 => rd'.words = WordsOf(Target)

\* Every step keeps the invariant, and the step that ends a read is right.
LEMMA SpecReadNext ==
    ASSUME IInv, RingInv, AllInOnePiece, SpecReadInv, [SpecNext]_<<vars, specVars>>
    PROVE  SpecReadInv' /\ (rd' # rd => EndsRight)
<1>0. LapInv /\ IdxInv /\ ReadType /\ ReadInv
  BY DEF SpecReadInv
<1>1. [Next]_vars
  BY RingStep
<1>2. LapInv' /\ IdxInv'
  BY <1>0, <1>1, LapStep, IdxStep
<1>3. CASE rd' = rd
  BY <1>0, <1>1, <1>2, <1>3, ReadKept DEF SpecReadInv
<1>4. CASE SpecRead
  <2>1. ReadType' /\ ReadInv'
    BY <1>0, <1>4, SpecReadStep
  <2>2. ~Returns
    BY <1>4 DEF SpecRead, Returns
  <2> QED
    BY <1>2, <2>1, <2>2 DEF SpecReadInv, EndsRight
<1>5. CASE CheckTooLow
  <2>1. ReadType' /\ ReadInv' /\ (rd'.step = "idle" => rd'.ret = -1 /\ TooOld)
    BY <1>0, <1>5, CheckTooLowStep
  <2> QED
    BY <1>2, <2>1 DEF SpecReadInv, EndsRight, Returns
<1>6. CASE CheckTooHigh
  <2>1. ReadType' /\ ReadInv' /\ (rd'.step = "idle" => rd'.ret = -2 /\ ~rd.written)
    BY <1>0, <1>6, CheckTooHighStep
  <2> QED
    BY <1>2, <2>1 DEF SpecReadInv, EndsRight, Returns
<1>7. CASE LookUpSeq
  <2>1. ReadType' /\ ReadInv' /\ rd'.step # "idle"
    BY <1>0, <1>7, LookUpSeqStep
  <2> QED
    BY <1>2, <2>1 DEF SpecReadInv, EndsRight, Returns
<1>8. CASE CheckLapped
  <2>1. /\ ReadType' /\ ReadInv'
        /\ rd'.step = "idle" => rd'.ret = -1 /\ (rd.written /\ NotOvertaken => TooOld)
    BY <1>0, <1>8, CheckLappedStep
  <2> QED
    BY <1>2, <2>1 DEF SpecReadInv, EndsRight, Returns
<1>9. CASE CheckIdx
  <2>1. /\ ReadType' /\ ReadInv'
        /\ rd'.step = "idle" => rd'.ret = 0 /\ ~(rd.written /\ NotOvertaken)
    BY <1>0, <1>9, CheckIdxStep
  <2> QED
    BY <1>2, <2>1 DEF SpecReadInv, EndsRight, Returns
<1>10. CASE CopyWord
  <2>1. /\ ReadType' /\ ReadInv'
        /\ rd'.step = "idle" /\ rd.written /\ NotOvertaken =>
              rd'.ret \in Sizes /\ rd'.words = WordsOf(Target)
    BY <1>0, <1>10, CopyWordStep
  <2>2. ASSUME NEW n \in Sizes PROVE n > 0
    BY SizeBounds
  <2> QED
    BY <1>2, <2>1, <2>2 DEF SpecReadInv, EndsRight, Returns
<1> QED
  BY <1>3, <1>4, <1>5, <1>6, <1>7, <1>8, <1>9, <1>10
     DEF SpecNext, MapIdx, OtherStep, ReadStep, specVars

\* Speculative reads run on the ring of DurLogFlat, and change nothing in it.
THEOREM ReadsTheRing == SpecReadSpec => Spec
<1>1. SpecInit => Init
  BY DEF SpecInit
<1> QED
  BY <1>1, RingStep, PTL DEF SpecReadSpec, Spec

\* The invariants of the ring and of the read, as long as entries lie in one piece.
LEMMA SpecReadInductive == SpecReadSpec /\ []AllInOnePiece => [](IInv /\ RingInv /\ SpecReadInv)
<1>1. SpecReadSpec => Spec
  BY ReadsTheRing
<1>2. IInv /\ RingInv /\ AllInOnePiece /\ SpecReadInv /\ [SpecNext]_<<vars, specVars>> => SpecReadInv'
  BY SpecReadNext
<1> QED
  BY <1>1, <1>2, SpecReadInit, Inductive, RingInductive, PTL DEF SpecReadSpec

\* A speculative read that was not overtaken returns the entry asked for, every
\* word as its append wrote it.
THEOREM SpecReadIsRightThm == SpecReadSpec /\ []AllInOnePiece => SpecReadIsRight
<1>1. IInv /\ RingInv /\ AllInOnePiece /\ SpecReadInv /\ [SpecNext]_<<vars, specVars>>
         => [Returns /\ rd'.ret > 0 => rd'.words = WordsOf(log[rd.idx + 1])]_rd
  BY SpecReadNext DEF EndsRight, Target
<1> QED
  BY <1>1, SpecReadInductive, PTL DEF SpecReadSpec, SpecReadIsRight

\* And it finds an entry that was written before it began; it takes it for
\* collected only while the log is young, or if it is one of the oldest.
THEOREM SpecReadFindsThm == SpecReadSpec /\ []AllInOnePiece => SpecReadFinds
<1>1. IInv /\ RingInv /\ AllInOnePiece /\ SpecReadInv /\ [SpecNext]_<<vars, specVars>>
         => [Returns => \/ rd'.ret > 0
                        \/ rd'.ret = -1 /\ ~(LongLog /\ InReach(rd.idx))]_rd
  BY SpecReadNext DEF EndsRight, TooOld
<1> QED
  BY <1>1, SpecReadInductive, PTL DEF SpecReadSpec, SpecReadFinds

-----------------------------------------------------------------------------
(* Entries of one size *)

\* All entries have one size, the ring is a multiple of it, and so is a line
\* or the other way round.
OneSizeFits ==
    \A n \in Sizes :
        /\ Sizes = {n} /\ RgSize % n = 0
        /\ LineSize % n = 0 \/ (n % LineSize = 0 /\ LineSize >= MetaDataSize)

OneSizeInv ==
    \A n \in Sizes :
        /\ sequencer % n = 0
        /\ \A i \in 1..Len(log) : log[i].seq % n = 0

\* The sizes of the entries of the log.
LogSizes == \A i \in 1..Len(log) : log[i].size \in Sizes

\* The rest of a multiple is a multiple.
LEMMA RestOfMultiple ==
    ASSUME NEW n \in Nat \ {0}, NEW m \in Nat \ {0}, NEW a \in Nat, m % n = 0, a % n = 0
    PROVE  (a % m) % n = 0
<1> DEFINE q == a \div m
           r == a % m
           p == m \div n
<1>1. q \in Nat /\ r \in 0..(m - 1) /\ a = m * q + r
  BY DivMod
<1>2. p \in Nat /\ m = n * p + (m % n)
  BY DivMod
<1> HIDE DEF q, r, p
<1>3. m = n * p /\ r \in Nat /\ q * p \in Nat
  BY <1>1, <1>2
<1>4. m * q = (q * p) * n
  BY <1>1, <1>2, <1>3
<1>5. a = r + (q * p) * n
  BY <1>1, <1>3, <1>4
<1>6. (r + (q * p) * n) % n = r % n
  BY <1>3, AddSteps
<1> QED
  BY <1>5, <1>6 DEF r

\* A multiple of a multiple.
LEMMA MultipleOfMultiple ==
    ASSUME NEW n \in Nat \ {0}, NEW m \in Nat \ {0}, NEW a \in Nat, m % n = 0, a % m = 0
    PROVE  a % n = 0
<1> DEFINE q == a \div m
           p == m \div n
<1>1. q \in Nat /\ a = m * q + (a % m)
  BY DivMod
<1>2. p \in Nat /\ m = n * p + (m % n)
  BY DivMod
<1> HIDE DEF q, p
<1>3. m = n * p /\ a = m * q /\ q * p \in Nat
  BY <1>1, <1>2
<1>4. a = 0 + (q * p) * n
  BY <1>1, <1>2, <1>3
<1>5. (0 + (q * p) * n) % n = 0 % n
  BY <1>3, AddSteps
<1> QED
  BY <1>4, <1>5

\* An entry that starts at a multiple of that size lies in one piece.
LEMMA MultipleInOnePiece ==
    ASSUME OneSizeFits, NEW e \in Entry, e.size \in Sizes, e.seq % e.size = 0
    PROVE  InOnePiece(e)
<1> DEFINE n == e.size
           o == Offset(e.seq)
<1>1. /\ n \in Nat \ {0} /\ n >= 2 /\ e.seq \in Nat /\ e.seq % n = 0 /\ RgSize % n = 0
      /\ LineSize % n = 0 \/ (n % LineSize = 0 /\ LineSize >= 2)
  BY SizeBounds DEF Entry, OneSizeFits
<1>2. o \in Nat /\ o < RgSize
  BY <1>1, OffsetInRing
<1>3. o % n = 0
  BY <1>1, RestOfMultiple DEF Offset
<1> HIDE DEF n, o
<1>4. o + n <= RgSize
  BY <1>1, <1>2, <1>3, TurnsApart
<1>5. (o % LineSize) + 2 <= LineSize
  <2>1. CASE LineSize % n = 0
    <3> DEFINE r == o % LineSize
    <3>1. r \in 0..(LineSize - 1)
      BY <1>2, DivMod
    <3>2. r % n = 0
      BY <1>1, <1>2, <1>3, <2>1, RestOfMultiple
    <3> HIDE DEF r
    <3>a. r \in Nat /\ r < LineSize /\ LineSize \in Nat
      BY <3>1
    <3>3. r + n <= LineSize
      BY <1>1, <2>1, <3>2, <3>a, TurnsApart
    <3>4. r + 2 <= LineSize
      BY <1>1, <3>1, <3>3
    <3> QED
      BY <3>4 DEF r
  <2>2. CASE n % LineSize = 0 /\ LineSize >= 2
    <3>1. o % LineSize = 0
      BY <1>1, <1>2, <1>3, <2>2, MultipleOfMultiple
    <3> QED
      BY <2>2, <3>1
  <2> QED
    BY <1>1, <2>1, <2>2
<1> QED
  BY <1>4, <1>5 DEF InOnePiece, n, o

\* With entries of one size, every entry lies in one piece.
LEMMA OneSizeStep ==
    ASSUME OneSizeFits, IInv, OneSizeInv, LogSizes, [Next]_vars
    PROVE  OneSizeInv' /\ LogSizes'
<1>1. CASE UNCHANGED <<sequencer, log>>
  BY <1>1 DEF OneSizeInv, LogSizes
<1>2. ASSUME NEW t \in Threads, Publish(t) PROVE OneSizeInv' /\ LogSizes'
  <2>1. /\ pc[t] = "claimed" /\ log' = Append(log, req[t]) /\ sequencer' = sequencer + req[t].size
    BY <1>2 DEF Publish, Goto
  <2>2. /\ req[t] \in Entry /\ log \in Seq(Entry) /\ sequencer \in Nat /\ Len(log) \in Nat
        /\ req[t].seq = sequencer /\ req[t].size \in Sizes
    BY <2>1 DEF IInv, TypeOK, ThreadInv
  <2>3. /\ Len(log') = Len(log) + 1 /\ log'[Len(log) + 1] = req[t]
        /\ \A i \in 1..Len(log) : log'[i] = log[i]
    BY <2>1, <2>2, AppendTyped
  <2>4. ASSUME NEW n \in Sizes PROVE req[t].size = n /\ (sequencer + n) % n = 0
    <3>1. req[t].size = n /\ n \in Nat \ {0} /\ sequencer % n = 0
      BY <2>2, SizeBounds DEF OneSizeFits, OneSizeInv
    <3>2. \A m \in Nat : (sequencer + m * n) % n = sequencer % n
      BY <2>2, <3>1, AddSteps
    <3>3. (sequencer + 1 * n) % n = sequencer % n
      BY <3>2
    <3>4. sequencer + 1 * n = sequencer + n
      BY <2>2, <3>1
    <3> QED
      BY <3>1, <3>3, <3>4
  <2>5. ASSUME NEW i \in 1..Len(log')
        PROVE  log'[i].size \in Sizes /\ \A n \in Sizes : log'[i].seq % n = 0
    <3>1. CASE i \in 1..Len(log)
      BY <2>3, <3>1 DEF LogSizes, OneSizeInv
    <3>2. CASE i = Len(log) + 1
      BY <2>2, <2>3, <3>2 DEF OneSizeInv
    <3> QED
      BY <2>2, <2>3, <3>1, <3>2
  <2> QED
    BY <2>1, <2>4, <2>5 DEF OneSizeInv, LogSizes
<1> QED
  BY <1>1, <1>2 DEF Next, ThreadStep, FinishWrite, AppendEntry, ReadSequencer, ReadWatermark, Claim, Serialize,
     SetFlag, CopyTail, FetchStep, FetchRange, ReadLine, DeserializeOne, FetchReturn,
     DeleteOrderedEntries, vars, ringVars

\* With entries of one size the hypothesis of the theorems is no hypothesis.
LEMMA OneSizeInOnePiece ==
    ASSUME OneSizeFits
    PROVE  Spec => []AllInOnePiece
<1>1. Init => OneSizeInv /\ LogSizes
  <2>1. ASSUME NEW n \in Sizes PROVE 0 % n = 0
    <3>1. n \in Nat \ {0}
      BY SizeBounds
    <3> QED
      BY <3>1
  <2> QED
    BY <2>1 DEF Init, OneSizeInv, LogSizes
<1>2. IInv /\ OneSizeInv /\ LogSizes /\ [Next]_vars => OneSizeInv' /\ LogSizes'
  BY OneSizeStep
<1>3. IInv /\ OneSizeInv /\ LogSizes => AllInOnePiece
  <2> SUFFICES ASSUME IInv, OneSizeInv, LogSizes, NEW i \in 1..Len(log) PROVE InOnePiece(log[i])
    BY DEF AllInOnePiece
  <2>1. log[i] \in Entry
    BY ElementOfSeq DEF IInv, TypeOK
  <2>2. log[i].size \in Sizes /\ log[i].seq % log[i].size = 0
    BY DEF OneSizeInv, LogSizes
  <2> QED
    BY <2>1, <2>2, MultipleInOnePiece
<1> QED
  BY <1>1, <1>2, <1>3, Inductive, PTL DEF Spec

\* For clients that append entries of one size, which divides the ring and fits
\* the lines, nothing is needed but the specification: entries stay intact,
\* are fetched in order, and the watermarks agree.
THEOREM OneSizeRing ==
    ASSUME OneSizeFits
    PROVE  Spec => [](UnorderedIntact /\ FetchedInOrder /\ WatermarksAgree)
<1>1. Spec => []AllInOnePiece
  BY OneSizeInOnePiece
<1> QED
  BY <1>1, AppendedStaysIntact, FetchIsInOrder, WatermarksNameOneEntry, PTL

\* And speculative reads are right and find what was written.
THEOREM OneSizeSpecRead ==
    ASSUME OneSizeFits
    PROVE  SpecReadSpec => SpecReadIsRight /\ SpecReadFinds
<1>1. Spec => []AllInOnePiece
  BY OneSizeInOnePiece
<1> QED
  BY <1>1, ReadsTheRing, SpecReadIsRightThm, SpecReadFindsThm, PTL

=============================================================================
