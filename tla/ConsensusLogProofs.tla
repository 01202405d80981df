------------------------- MODULE ConsensusLogProofs -------------------------
(***************************************************************************)
(* Proofs about the pipelined consensus log, for every number of replicas, *)
(* shards, entries of a stripe and of a batch: every entry gets to the     *)
(* place where a read looks for it, no entry is deleted or announced       *)
(* before it is on its shard, and the two threads with their two buffers   *)
(* take the steps of a queue of two batches.                               *)
(***************************************************************************)
EXTENDS ConsensusLog, StripeTheorems, SequenceTheorems

-----------------------------------------------------------------------------
(* The inductive invariant *)

\* The oldest round whose batch is not deleted everywhere, and its buffer.
Round == IF storer.pc = "update" THEN storer.round + 1 ELSE storer.round
This  == Round % 2
Other == (Round + 1) % 2

\* Buffer b holds the entries from lo to hi - 1.
Holds(b, lo, hi) ==
    /\ lo < hi
    /\ buffers[b].entries = [k \in 1..(hi - lo) |-> lo + k - 1]

\* The entries below Done have left the durability log; those below Mid are
\* in the oldest batch, and the ones from there to fetch_begin in the other.
Done == IF fetcher.round = Round THEN fetch_begin ELSE buffers[This].entries[1]
Mid  == Done + Len(buffers[This].entries)

\* The rounds of the two threads say what the buffers hold.
BufInv ==
    /\ fetcher.round \in {Round, Round + 1, Round + 2}
    /\ Done \in Nat
    /\ fetcher.round = Round =>
          buffers[This].entries = <<>> /\ buffers[Other].entries = <<>>
    /\ fetcher.round = Round + 1 =>
          Holds(This, Done, fetch_begin) /\ buffers[Other].entries = <<>>
    /\ fetcher.round = Round + 2 =>
          Holds(This, Done, Mid) /\ Holds(Other, Mid, fetch_begin)

\* The fetch thread has an empty buffer, and fetches what is there.
FetchInv ==
    /\ fetcher.pc = "fetch" => buffers[FetchBuf].entries = <<>>
    /\ fetch_begin <= tail /\ tail <= MaxLen

\* The stripe that the store thread is at.
From == MaxOf(storer.base, Done)
To   == MinOf(storer.base + BigStripe, Mid)

\* The calls for that stripe: for each shard the entries from its first on.
PartFrom(first) == [k \in 1..((To - 1 - first) \div ShardNum + 1) |->
                       first + (k - 1) * ShardNum]
AppendCall(first) == [op |-> "append", to |-> first % ShardNum, arg |-> PartFrom(first)]

\* What the store thread waits for in each of its states.
StoreInv ==
    /\ storer.pc \in {"append", "waitForAllShards", "allDeletionCompleted"} =>
          fetcher.round # Round
    /\ storer.pc \in {"append", "waitForAllShards"} =>
          /\ BaseIdx(storer.base) = storer.base
          /\ storer.base < Mid /\ Done < storer.base + BigStripe
    /\ storer.pc \in {"lock", "wait", "append"} => calls = {}
    /\ storer.pc = "waitForAllShards" =>
          calls \subseteq {AppendCall(first) : first \in From..MinOf(From + ShardNum - 1, To - 1)}
    /\ storer.pc = "allDeletionCompleted" =>
          /\ storer.last = Mid - 1
          /\ calls \subseteq {[op |-> "delete", to |-> r, arg |-> Mid] : r \in Replicas}
    /\ storer.pc = "update" => storer.last = Done - 1 /\ calls \subseteq UpdateCalls

\* The entries below the frontier of a shard, and no others, are on it.
Frontier(s) ==
    CASE storer.pc = "append" -> From
      [] storer.pc = "waitForAllShards" -> IF \E c \in calls : c.to = s THEN From ELSE To
      [] storer.pc = "allDeletionCompleted" -> Mid
      [] OTHER -> Done

ShardInv ==
    /\ PlacedForRead
    /\ \A idx \in 0..(MaxLen - 1) : Stored(idx) <=> idx < Frontier(idx % ShardNum)

\* How far each replica has deleted, and what each shard was told.
DeleteInv ==
    /\ \A r \in Replicas :
          deleted[r] = IF /\ storer.pc = "allDeletionCompleted"
                          /\ \A c \in calls : c.to # r
                       THEN Mid ELSE Done
    /\ \A s \in Shards : global_index[s] = 0 \/ global_index[s] < Done

IInv == TypeOK /\ BufInv /\ FetchInv /\ StoreInv /\ ShardInv /\ DeleteInv

-----------------------------------------------------------------------------
(* Stripes *)

USE ConsensusLogAssumption

\* Where a read looks for an entry.
Pos(idx) == (idx - BaseIdx(idx)) \div ShardNum + 1

\* An index is a base, a place in the stripe and a shard ...
LEMMA IdxParts ==
    ASSUME NEW i \in Nat
    PROVE  /\ \E q \in Nat : BaseIdx(i) = q * BigStripe
           /\ BaseIdx(i) \in Nat /\ BaseIdx(i) <= i /\ i < BaseIdx(i) + BigStripe
           /\ Pos(i) \in 1..StripeUnit /\ i % ShardNum \in Shards
           /\ i = BaseIdx(i) + (Pos(i) - 1) * ShardNum + (i % ShardNum)
<1>0. ShardNum \in Nat \ {0} /\ StripeUnit \in Nat \ {0}
  BY ConsensusLogAssumption
<1>1. PICK q \in Nat, p \in 0..(StripeUnit - 1), s \in 0..(ShardNum - 1) :
         i = q * (StripeUnit * ShardNum) + p * ShardNum + s
  BY <1>0, Coordinates, Zenon
<1> DEFINE b == q * (StripeUnit * ShardNum)
<1>2. b \in Nat
  OBVIOUS
<1>3. /\ i \div (StripeUnit * ShardNum) = q /\ i % ShardNum = s /\ (i - b) \div ShardNum = p
      /\ b <= i /\ i < b + StripeUnit * ShardNum
  BY <1>1, IndexOf
<1>4. BaseIdx(i) = b
  BY <1>3 DEF BaseIdx, BigStripe
<1>5. Pos(i) = p + 1
  BY <1>3, <1>4 DEF Pos
<1>6. (Pos(i) - 1) * ShardNum = p * ShardNum
  BY <1>5
<1>7. i = BaseIdx(i) + (Pos(i) - 1) * ShardNum + (i % ShardNum)
  BY <1>1, <1>3, <1>4, <1>6
<1>8. BaseIdx(i) = q * BigStripe /\ BigStripe = StripeUnit * ShardNum
  BY <1>4 DEF BigStripe
<1>9. Pos(i) \in 1..StripeUnit /\ i % ShardNum \in Shards
  BY <1>3, <1>5 DEF Shards
<1>10. BaseIdx(i) \in Nat /\ BaseIdx(i) <= i /\ i < BaseIdx(i) + BigStripe
  BY <1>2, <1>3, <1>4, <1>8
<1> QED
  BY <1>7, <1>8, <1>9, <1>10

\* ... and each of these triples is one index.
LEMMA PartsIdx ==
    ASSUME NEW b \in Nat, BaseIdx(b) = b, NEW k \in 1..StripeUnit, NEW s \in Shards,
           NEW i, i = b + (k - 1) * ShardNum + s
    PROVE  i \in Nat /\ BaseIdx(i) = b /\ Pos(i) = k /\ i % ShardNum = s
<1>1. PICK q \in Nat : b = q * BigStripe
  BY IdxParts
<1> DEFINE p == k - 1
<1>2. p \in 0..(StripeUnit - 1) /\ k = p + 1
  OBVIOUS
<1> HIDE DEF p
<1>3. /\ i \in Nat /\ i \div (StripeUnit * ShardNum) = q /\ i % ShardNum = s
      /\ (i - b) \div ShardNum = p
  BY <1>1, <1>2, IndexOf DEF BigStripe, Shards, p
<1>4. BaseIdx(i) = b
  BY <1>1, <1>3 DEF BaseIdx, BigStripe
<1> QED
  BY <1>2, <1>3, <1>4 DEF Pos

\* The bases are the multiples of the stripe.
LEMMA BaseFacts ==
    /\ BigStripe \in Nat \ {0}
    /\ \A q \in Nat : BaseIdx(q * BigStripe) = q * BigStripe
    /\ \A i \in Nat : BaseIdx(BaseIdx(i)) = BaseIdx(i)
<1>1. BigStripe \in Nat \ {0}
  BY DEF BigStripe
<1>2. ASSUME NEW q \in Nat PROVE BaseIdx(q * BigStripe) = q * BigStripe
  <2>1. q * BigStripe = BigStripe * q + 0 /\ 0 \in 0..(BigStripe - 1)
    BY <1>1
  <2>2. (q * BigStripe) \div BigStripe = q
    BY <1>1, <2>1, Quotient
  <2> QED
    BY <2>2 DEF BaseIdx
<1>3. ASSUME NEW i \in Nat PROVE BaseIdx(BaseIdx(i)) = BaseIdx(i)
  BY <1>2, IdxParts
<1> QED
  BY <1>1, <1>2, <1>3

\* The indexes of a stripe, and the next stripe.
LEMMA StripeOf ==
    ASSUME NEW b \in Nat, BaseIdx(b) = b, NEW i \in Nat
    PROVE  /\ b <= i /\ i < b + BigStripe => BaseIdx(i) = b
           /\ b <= i => b <= BaseIdx(i)
           /\ b + BigStripe <= i => b + BigStripe <= BaseIdx(i)
           /\ b + BigStripe \in Nat /\ BaseIdx(b + BigStripe) = b + BigStripe
<1>1. BigStripe \in Nat \ {0}
  BY BaseFacts
<1>2. PICK q \in Nat : b = q * BigStripe
  BY IdxParts
<1>3. PICK p \in Nat : BaseIdx(i) = p * BigStripe
  BY IdxParts
<1>4. p * BigStripe <= i /\ i < p * BigStripe + BigStripe
  BY <1>3, IdxParts
<1>5. q * BigStripe + BigStripe = (q + 1) * BigStripe /\ p * BigStripe + BigStripe = (p + 1) * BigStripe
  BY <1>1
<1>6. \A x, y \in Nat : x * BigStripe < y * BigStripe => x < y
  <2> SUFFICES ASSUME NEW x \in Nat, NEW y \in Nat, y <= x PROVE y * BigStripe <= x * BigStripe
    BY <1>1
  <2> QED
    BY <1>1
<1>7. \A x, y \in Nat : x <= y => x * BigStripe <= y * BigStripe
  BY <1>1
<1>8. b <= i => q <= p
  <2> SUFFICES ASSUME b <= i PROVE q < p + 1
    OBVIOUS
  <2>1. q * BigStripe < (p + 1) * BigStripe
    BY <1>1, <1>2, <1>4, <1>5
  <2> QED
    BY <1>6, <2>1
<1>9. i < b + BigStripe => p <= q
  <2> SUFFICES ASSUME i < b + BigStripe PROVE p < q + 1
    OBVIOUS
  <2>1. p * BigStripe < (q + 1) * BigStripe
    BY <1>1, <1>2, <1>4, <1>5
  <2> QED
    BY <1>6, <2>1
<1>10. b + BigStripe <= i => q + 1 <= p
  <2> SUFFICES ASSUME b + BigStripe <= i PROVE q + 1 < p + 1
    OBVIOUS
  <2>1. (q + 1) * BigStripe < (p + 1) * BigStripe
    BY <1>1, <1>2, <1>4, <1>5
  <2> QED
    BY <1>6, <2>1
<1>11. b <= i /\ i < b + BigStripe => BaseIdx(i) = b
  BY <1>2, <1>3, <1>8, <1>9
<1>12. b <= i => b <= BaseIdx(i)
  BY <1>2, <1>3, <1>7, <1>8
<1>13. b + BigStripe <= i => b + BigStripe <= BaseIdx(i)
  BY <1>2, <1>3, <1>5, <1>7, <1>10
<1>14. b + BigStripe \in Nat /\ BaseIdx(b + BigStripe) = b + BigStripe
  <2>1. b + BigStripe = (q + 1) * BigStripe /\ q + 1 \in Nat
    BY <1>2, <1>5
  <2>2. BaseIdx((q + 1) * BigStripe) = (q + 1) * BigStripe
    BY <2>1, BaseFacts
  <2>3. b + BigStripe \in Nat
    BY <1>1
  <2> QED
    BY <2>1, <2>2, <2>3
<1> QED
  BY <1>11, <1>12, <1>13, <1>14

-----------------------------------------------------------------------------
(* What the buffers hold *)

\* A sequence that is given as a function has the length it shows.
LEMMA LenOf ==
    ASSUME NEW S, NEW es \in Seq(S), NEW n \in Nat, DOMAIN es = 1..n
    PROVE  Len(es) = n
<1>1. Len(es) \in Nat /\ DOMAIN es = 1..Len(es)
  BY LenProperties
<1>2. \A m \in Nat : (1..m = 1..n) => m = n
  <2> SUFFICES ASSUME NEW m \in Nat, 1..m = 1..n, m # n PROVE FALSE
    OBVIOUS
  <2>1. m < n => n \in 1..n /\ n \notin 1..m
    OBVIOUS
  <2>2. n < m => m \in 1..m /\ m \notin 1..n
    OBVIOUS
  <2> QED
    BY <2>1, <2>2
<1> QED
  BY <1>1, <1>2

\* The rounds, the buffers and their entries, one by one.
LEMMA Types ==
    ASSUME TypeOK
    PROVE  /\ storer.round \in Nat /\ fetcher.round \in Nat /\ fetch_begin \in Nat
           /\ storer.base \in Nat /\ storer.last \in Nat
           /\ Round \in Nat /\ This \in {0, 1} /\ Other \in {0, 1} /\ This # Other
           /\ FetchBuf \in {0, 1} /\ StoreBuf \in {0, 1}
           /\ fetcher.round = Round => FetchBuf = This
           /\ fetcher.round = Round + 1 => FetchBuf = Other
           /\ fetcher.round = Round + 2 => FetchBuf = This
           /\ storer.pc # "update" => StoreBuf = This
           /\ \A b \in {0, 1} : buffers[b].entries \in Seq(Nat)
<1>1. storer.round \in Nat /\ fetcher.round \in Nat /\ fetch_begin \in Nat
      /\ storer.base \in Nat /\ storer.last \in Nat
  BY DEF TypeOK
<1>2. Round \in Nat
  BY <1>1 DEF Round
<1>3. \A n \in Nat : n % 2 \in {0, 1} /\ n % 2 # (n + 1) % 2 /\ n % 2 = (n + 2) % 2
  OBVIOUS
<1>4. \A b \in {0, 1} : buffers[b].entries \in Seq(Nat)
  BY DEF TypeOK
<1>5. storer.pc # "update" => StoreBuf = This
  BY DEF StoreBuf, This, Round
<1>6. /\ This \in {0, 1} /\ This # Other /\ FetchBuf \in {0, 1} /\ StoreBuf \in {0, 1}
      /\ This = (Round + 2) % 2
  BY <1>1, <1>2, <1>3 DEF This, Other, FetchBuf, StoreBuf
<1>7. Other \in {0, 1}
  <2>1. Round + 1 \in Nat
    BY <1>2
  <2> QED
    BY <2>1, <1>3 DEF Other
<1>8. /\ fetcher.round = Round => FetchBuf = This
      /\ fetcher.round = Round + 1 => FetchBuf = Other
      /\ fetcher.round = Round + 2 => FetchBuf = This
  BY <1>6 DEF FetchBuf, This, Other
<1> QED
  BY <1>1, <1>2, <1>4, <1>5, <1>6, <1>7, <1>8

\* A buffer that holds an interval.
LEMMA HeldEntries ==
    ASSUME TypeOK, NEW b \in {0, 1}, NEW lo \in Nat, NEW hi \in Nat, Holds(b, lo, hi)
    PROVE  /\ buffers[b].entries # <<>> /\ Len(buffers[b].entries) = hi - lo
           /\ buffers[b].entries[1] = lo
           /\ \A k \in 1..(hi - lo) : buffers[b].entries[k] = lo + k - 1
           /\ buffers[b].entries[hi - lo] = hi - 1
<1> DEFINE es == buffers[b].entries
<1>1. es \in Seq(Nat) /\ es = [k \in 1..(hi - lo) |-> lo + k - 1] /\ lo < hi
  BY Types DEF Holds
<1>2. hi - lo \in Nat /\ DOMAIN es = 1..(hi - lo)
  BY <1>1
<1> HIDE DEF es
<1>3. Len(es) = hi - lo
  BY <1>1, <1>2, LenOf
<1>4. /\ 1 \in 1..(hi - lo) /\ hi - lo \in 1..(hi - lo)
      /\ lo + 1 - 1 = lo /\ lo + (hi - lo) - 1 = hi - 1
  BY <1>1, <1>2
<1>5. \A k \in 1..(hi - lo) : es[k] = lo + k - 1
  BY <1>1
<1>6. es # <<>>
  BY <1>3, <1>4, EmptySeq
<1> QED
  BY <1>3, <1>4, <1>5, <1>6 DEF es

\* The oldest batch and what is fetched after it.
LEMMA BatchFacts ==
    ASSUME TypeOK, BufInv
    PROVE  /\ Done \in Nat /\ Mid \in Nat /\ Done <= Mid /\ Mid <= fetch_begin
           /\ fetcher.round # Round => Done < Mid /\ Holds(This, Done, Mid)
           /\ fetcher.round = Round => Done = fetch_begin
           /\ fetcher.round = Round + 1 => Mid = fetch_begin
<1> DEFINE es == buffers[This].entries
<1>0. /\ This \in {0, 1} /\ Other \in {0, 1} /\ fetch_begin \in Nat /\ es \in Seq(Nat)
      /\ buffers[Other].entries \in Seq(Nat) /\ Len(es) \in Nat
  BY Types, LenProperties
<1>1. CASE fetcher.round = Round
  <2>1. es = <<>> /\ Len(es) = 0
    BY <1>1, EmptySeq DEF BufInv
  <2>2. Done = fetch_begin /\ Mid = fetch_begin
    BY <1>0, <1>1, <2>1 DEF Done, Mid
  <2>3. fetcher.round # Round + 1
    BY <1>1, Types
  <2> QED
    BY <1>0, <1>1, <2>2, <2>3
<1>2. CASE fetcher.round = Round + 1
  <2>1. Done = es[1] /\ Holds(This, Done, fetch_begin) /\ fetcher.round # Round
    BY <1>2, Types DEF BufInv, Done
  <2>2. Done \in Nat
    BY DEF BufInv
  <2>3. Len(es) = fetch_begin - Done
    BY <1>0, <2>1, <2>2, HeldEntries
  <2>4. Mid = fetch_begin
    BY <1>0, <2>2, <2>3 DEF Mid
  <2> QED
    BY <1>0, <1>2, <2>1, <2>2, <2>4 DEF Holds
<1>3. CASE fetcher.round = Round + 2
  <2>1. /\ Done = es[1] /\ Holds(This, Done, Mid) /\ Holds(Other, Mid, fetch_begin)
        /\ fetcher.round # Round /\ fetcher.round # Round + 1
    BY <1>3, Types DEF BufInv, Done
  <2>2. Done < Mid /\ Mid < fetch_begin
    BY <2>1 DEF Holds
  <2>3. Done \in Nat /\ Mid \in Nat
    BY <1>0 DEF BufInv, Mid
  <2> QED
    BY <1>0, <1>3, <2>1, <2>2, <2>3
<1> QED
  BY <1>1, <1>2, <1>3 DEF BufInv

-----------------------------------------------------------------------------
(* The initial state *)

\* With both buffers empty and nothing fetched or stored the invariant holds.
LEMMA InitIInv == Init => IInv
<1> SUFFICES ASSUME Init PROVE IInv
  OBVIOUS
<1> USE DEF Init
<1>0. Primary \in Replicas /\ <<>> \in Seq(Nat) /\ Len(<<>>) = 0 /\ DOMAIN (<<>>) = {}
  BY EmptySeq
<1>1. TypeOK
  BY <1>0 DEF TypeOK
<1>2. Round = 0 /\ Done = 0
  BY DEF Round, Done
<1>3. /\ \A b \in {0, 1} : buffers[b].entries = <<>>
      /\ This \in {0, 1} /\ Other \in {0, 1}
  BY <1>1, Types
<1>4. BufInv /\ FetchInv
  BY <1>2, <1>3 DEF BufInv, FetchInv
<1>5. StoreInv /\ DeleteInv
  BY <1>2 DEF StoreInv, DeleteInv
<1>6. ShardInv
  <2>1. \A s \in Shards, b \in Bases : entries_cache_set[s][b] = <<>>
    OBVIOUS
  <2>2. \A idx \in 0..(MaxLen - 1) : idx % ShardNum \in Shards /\ BaseIdx(idx) \in Bases
    BY IdxParts DEF Bases
  <2>3. PlacedForRead
    BY <1>0, <2>1 DEF PlacedForRead
  <2>4. \A idx \in 0..(MaxLen - 1) : ~Stored(idx)
    BY <1>0, <2>1, <2>2 DEF Stored
  <2>5. \A s : Frontier(s) = 0
    BY <1>2 DEF Frontier
  <2> QED
    BY <2>3, <2>4, <2>5 DEF ShardInv
<1> QED
  BY <1>1, <1>4, <1>5, <1>6 DEF IInv

-----------------------------------------------------------------------------
(* Steps that leave the batches alone *)

\* The batches depend on what is in the buffers, not on locks and states.
LEMMA SameBatches ==
    ASSUME TypeOK, BufInv, fetcher'.round = fetcher.round, fetch_begin' = fetch_begin,
           Round' = Round, \A b \in {0, 1} : buffers'[b].entries = buffers[b].entries
    PROVE  BufInv' /\ Done' = Done /\ Mid' = Mid /\ This' = This /\ FetchBuf' = FetchBuf
<1>1. This' = This /\ Other' = Other /\ This \in {0, 1} /\ Other \in {0, 1}
  BY Types DEF This, Other
<1>2. buffers'[This].entries = buffers[This].entries /\ buffers'[Other].entries = buffers[Other].entries
  BY <1>1
<1>3. Done' = Done
  BY <1>1, <1>2 DEF Done
<1>4. Mid' = Mid
  BY <1>1, <1>2, <1>3 DEF Mid
<1>5. BufInv'
  BY <1>1, <1>2, <1>3, <1>4 DEF BufInv, Holds
<1> QED
  BY <1>1, <1>3, <1>4, <1>5 DEF FetchBuf

\* What the store thread, the shards and the replicas do depends on them only.
LEMMA SameStore ==
    ASSUME StoreInv, ShardInv, DeleteInv, Done' = Done, Mid' = Mid \/ fetcher.round = Round,
           Round' = Round, fetcher'.round = Round' => fetcher.round = Round,
           storer' = storer, calls' = calls,
           deleted' = deleted, entries_cache_set' = entries_cache_set, global_index' = global_index
    PROVE  StoreInv' /\ ShardInv' /\ DeleteInv'
<1>1. storer.pc \in {"append", "waitForAllShards", "allDeletionCompleted"} => Mid' = Mid
  BY DEF StoreInv
<1>2. Mid' = Mid => From' = From /\ To' = To
  BY DEF From, To
<1>3. From' = From
  BY DEF From
<1>4. Mid' = Mid => \A first : AppendCall(first)' = AppendCall(first)
  BY <1>2 DEF AppendCall, PartFrom
<1>5. StoreInv'
  <2>1. storer.pc \in {"append", "waitForAllShards", "allDeletionCompleted"} =>
          fetcher'.round # Round'
    BY DEF StoreInv
  <2>2. storer.pc = "waitForAllShards" =>
          calls \subseteq {AppendCall(first)' : first \in From'..MinOf(From' + ShardNum - 1, To' - 1)}
    BY <1>1, <1>2, <1>4 DEF StoreInv
  <2>3. UpdateCalls' = UpdateCalls
    BY DEF UpdateCalls
  <2> QED
    BY <1>1, <2>1, <2>2, <2>3 DEF StoreInv
<1>6. \A s : Frontier(s)' = Frontier(s)
  BY <1>1, <1>2 DEF Frontier
<1>7. ShardInv'
  BY <1>6 DEF ShardInv, PlacedForRead, Stored
<1>8. DeleteInv'
  BY <1>1 DEF DeleteInv
<1> QED
  BY <1>5, <1>7, <1>8

\* A client appends.
LEMMA AppendEntryStep ==
    ASSUME IInv, AppendEntry
    PROVE  IInv'
<1>1. TypeOK /\ BufInv /\ FetchInv /\ StoreInv /\ ShardInv /\ DeleteInv
  BY DEF IInv
<1>2. tail < MaxLen /\ tail' = tail + 1 /\ UNCHANGED <<deleted, clVars, shardVars>>
  BY DEF AppendEntry
<1>3. UNCHANGED <<deleted, buffers, fetcher, fetch_begin, storer, calls, max_ordered_idx,
                  entries_cache_set, global_index>>
  BY <1>2 DEF clVars, shardVars
<1>4. TypeOK'
  BY <1>1, <1>2, <1>3 DEF TypeOK
<1>5. Round' = Round
  BY <1>3 DEF Round
<1>6. BufInv' /\ Done' = Done /\ Mid' = Mid /\ FetchBuf' = FetchBuf
  BY <1>1, <1>3, <1>5, SameBatches
<1>7. FetchInv'
  <2>1. tail \in Nat /\ fetch_begin \in Nat
    BY <1>1 DEF TypeOK
  <2> QED
    BY <1>1, <1>2, <1>3, <1>6, <2>1 DEF FetchInv
<1>8. StoreInv' /\ ShardInv' /\ DeleteInv'
  BY <1>1, <1>3, <1>5, <1>6, SameStore
<1> QED
  BY <1>4, <1>6, <1>7, <1>8 DEF IInv

\* The fetch thread takes or leaves a lock, waits or wakes up.
LEMMA FetchLockStep ==
    ASSUME IInv, LockToFetch \/ SpuriousWake \/ FetchNothing
    PROVE  IInv'
<1>1. TypeOK /\ BufInv /\ FetchInv /\ StoreInv /\ ShardInv /\ DeleteInv
  BY DEF IInv
<1>2. UNCHANGED <<tail, deleted, fetch_begin, storer, calls, max_ordered_idx,
                  entries_cache_set, global_index>>
  BY DEF LockToFetch, SpuriousWake, FetchNothing, shardVars
<1>3. FetchBuf \in {0, 1} /\ fetcher.round \in Nat
  BY <1>1, Types
<1>4. /\ buffers' \in [{0, 1} -> [lock : {"none", "fetch", "store"}, empty : BOOLEAN,
                                  entries : Seq(Nat)]]
      /\ \A b \in {0, 1} : /\ buffers'[b].entries = buffers[b].entries
                           /\ buffers'[b].empty = buffers[b].empty
      /\ fetcher' \in [pc : {"lock", "wait", "fetch"}, round : Nat]
      /\ fetcher'.round = fetcher.round
      /\ fetcher'.pc = "fetch" => buffers[FetchBuf].empty
  <2>1. CASE LockToFetch
    <3>1. CASE MayFill
      <4>1. /\ fetcher' = [fetcher EXCEPT !.pc = "fetch"]
            /\ buffers' = [buffers EXCEPT ![FetchBuf].lock = "fetch"]
        BY <2>1, <3>1 DEF LockToFetch
      <4>2. fetcher \in [pc : {"lock", "wait", "fetch"}, round : Nat]
        BY <1>1 DEF TypeOK
      <4>3. /\ fetcher' \in [pc : {"lock", "wait", "fetch"}, round : Nat]
            /\ fetcher'.round = fetcher.round
        BY <4>1, <4>2
      <4>4. /\ buffers' \in [{0, 1} -> [lock : {"none", "fetch", "store"}, empty : BOOLEAN,
                                  entries : Seq(Nat)]]
            /\ \A b \in {0, 1} : /\ buffers'[b].entries = buffers[b].entries
                                 /\ buffers'[b].empty = buffers[b].empty
        BY <1>1, <1>3, <4>1 DEF TypeOK
      <4>5. buffers[FetchBuf].empty
        BY <3>1 DEF MayFill
      <4> QED
        BY <4>3, <4>4, <4>5
    <3>2. CASE ~MayFill
      BY <1>1, <1>3, <2>1, <3>2 DEF LockToFetch, TypeOK
    <3> QED
      BY <3>1, <3>2
  <2>2. CASE SpuriousWake
    BY <1>1, <1>3, <2>2 DEF SpuriousWake, TypeOK
  <2>3. CASE FetchNothing
    BY <1>1, <1>3, <2>3 DEF FetchNothing, TypeOK
  <2> QED
    BY <2>1, <2>2, <2>3
<1>5. TypeOK'
  BY <1>1, <1>2, <1>4 DEF TypeOK
<1>6. Round' = Round
  BY <1>2 DEF Round
<1>7. BufInv' /\ Done' = Done /\ Mid' = Mid /\ FetchBuf' = FetchBuf
  BY <1>1, <1>2, <1>4, <1>6, SameBatches
<1>8. FetchInv'
  BY <1>1, <1>2, <1>3, <1>4, <1>7 DEF FetchInv, TypeOK
<1>9. StoreInv' /\ ShardInv' /\ DeleteInv'
  BY <1>1, <1>2, <1>4, <1>6, <1>7, SameStore
<1> QED
  BY <1>5, <1>7, <1>8, <1>9 DEF IInv

-----------------------------------------------------------------------------
(* A batch is fetched *)

\* The fetch begins where the last one ended, also if the primary has deleted
\* batches meanwhile.
LEMMA FetchFromIs == ASSUME IInv PROVE FetchFrom = fetch_begin
<1>1. deleted[Primary] \in {Done, Mid}
  BY DEF IInv, DeleteInv
<1>2. Done \in Nat /\ Mid \in Nat /\ Done <= Mid /\ Mid <= fetch_begin /\ fetch_begin \in Nat
  BY BatchFacts, Types DEF IInv
<1> QED
  BY <1>1, <1>2 DEF FetchFrom, MaxOf

\* What a fetch does: n entries are put into an empty buffer.
LEMMA FetchEffect ==
    ASSUME IInv, FetchEntries
    PROVE  /\ fetcher.pc = "fetch" /\ fetcher' = [pc |-> "lock", round |-> fetcher.round + 1]
           /\ storer' = IF storer.pc = "wait" /\ storer.round % 2 = FetchBuf
                        THEN [storer EXCEPT !.pc = "lock"] ELSE storer
           /\ UNCHANGED <<tail, deleted, calls, max_ordered_idx, entries_cache_set, global_index>>
           /\ buffers' \in [{0, 1} -> [lock : {"none", "fetch", "store"}, empty : BOOLEAN,
                                       entries : Seq(Nat)]]
           /\ buffers'[FetchBuf].empty = FALSE /\ buffers'[FetchBuf].entries # <<>>
           /\ \A b \in {0, 1} \ {FetchBuf} : buffers'[b] = buffers[b]
           /\ fetcher.round # Round + 2
           /\ \E n \in Nat :
                 /\ n >= 1 /\ n <= MaxBatch /\ fetch_begin + n <= tail
                 /\ fetch_begin' = fetch_begin + n
                 /\ buffers'[FetchBuf].entries = [k \in 1..n |-> fetch_begin + k - 1]
<1>1. TypeOK /\ BufInv /\ FetchInv /\ StoreInv /\ ShardInv /\ DeleteInv
  BY DEF IInv
<1> DEFINE lo == fetch_begin
<1>2. PICK n \in 1..MinOf(MaxBatch, tail - lo) :
        /\ buffers' = [buffers EXCEPT
                         ![FetchBuf].entries = @ \o [k \in 1..n |-> lo + k - 1],
                         ![FetchBuf].empty = FALSE,
                         ![FetchBuf].lock = "none"]
        /\ fetch_begin' = lo + n
  BY FetchFromIs DEF FetchEntries
<1>3. /\ fetcher.pc = "fetch" /\ fetcher' = [pc |-> "lock", round |-> fetcher.round + 1]
      /\ storer' = IF storer.pc = "wait" /\ storer.round % 2 = FetchBuf
                   THEN [storer EXCEPT !.pc = "lock"] ELSE storer
      /\ UNCHANGED <<tail, deleted, calls, max_ordered_idx, entries_cache_set, global_index>>
  BY DEF FetchEntries, shardVars
<1>4. /\ fetcher.round \in Nat /\ Round \in Nat /\ This \in {0, 1} /\ Other \in {0, 1}
      /\ This # Other /\ FetchBuf \in {0, 1} /\ lo \in Nat
      /\ fetcher.round = Round => FetchBuf = This
      /\ fetcher.round = Round + 1 => FetchBuf = Other
      /\ fetcher.round = Round + 2 => FetchBuf = This
  BY <1>1, Types
<1>5. n \in Nat /\ n >= 1 /\ n <= MaxBatch /\ lo + n <= tail
  BY <1>1 DEF TypeOK, MinOf
<1> DEFINE es == [k \in 1..n |-> lo + k - 1]
           hi == lo + n
<1>6. es \in Seq(Nat) /\ es # <<>>
  <2>1. \A k \in 1..n : lo + k - 1 \in Nat
    BY <1>4, <1>5
  <2>2. es \in Seq(Nat)
    BY <2>1, <1>5, IsASeq
  <2>3. DOMAIN es = 1..n /\ 1 \in 1..n
    BY <1>5
  <2>4. DOMAIN (<<>>) = {}
    BY EmptySeq
  <2> QED
    BY <2>2, <2>3, <2>4
<1>7. <<>> \o es = es
  BY <1>6, ConcatEmptySeq
<1>8. buffers[FetchBuf].entries = <<>>
  BY <1>1, <1>3 DEF FetchInv
<1> HIDE DEF es
<1>9. /\ buffers'[FetchBuf].entries = es /\ buffers'[FetchBuf].empty = FALSE
      /\ buffers'[FetchBuf].lock = "none"
      /\ \A b \in {0, 1} \ {FetchBuf} : buffers'[b] = buffers[b]
      /\ buffers' \in [{0, 1} -> [lock : {"none", "fetch", "store"}, empty : BOOLEAN,
                                  entries : Seq(Nat)]]
  <2>1. buffers \in [{0, 1} -> [lock : {"none", "fetch", "store"}, empty : BOOLEAN,
                                 entries : Seq(Nat)]]
    BY <1>1 DEF TypeOK
  <2>2. buffers' = [buffers EXCEPT ![FetchBuf].entries = @ \o es,
                                   ![FetchBuf].empty = FALSE,
                                   ![FetchBuf].lock = "none"]
    BY <1>2, Zenon DEF es
  <2>3. buffers[FetchBuf].entries \o es = es
    BY <1>7, <1>8
  <2>4. /\ buffers'[FetchBuf].entries = buffers[FetchBuf].entries \o es
        /\ buffers'[FetchBuf].empty = FALSE /\ buffers'[FetchBuf].lock = "none"
    BY <1>4, <2>1, <2>2
  <2>5. \A b \in {0, 1} \ {FetchBuf} : buffers'[b] = buffers[b]
    BY <1>4, <2>1, <2>2
  <2>6. buffers[FetchBuf].entries \o es \in Seq(Nat)
    BY <1>6, <2>3
  <2>7. buffers' \in [{0, 1} -> [lock : {"none", "fetch", "store"}, empty : BOOLEAN,
                                 entries : Seq(Nat)]]
    BY <1>4, <2>1, <2>2, <2>6
  <2> QED
    BY <2>3, <2>4, <2>5, <2>7
<1>10. fetcher.round # Round + 2
  <2>1. Holds(This, Done, Mid) => buffers[This].entries # <<>>
    BY <1>1, <1>4, BatchFacts, HeldEntries
  <2> QED
    BY <1>1, <1>4, <1>8, <2>1 DEF BufInv
<1>11. \E m \in Nat :
         /\ m >= 1 /\ m <= MaxBatch /\ fetch_begin + m <= tail
         /\ fetch_begin' = fetch_begin + m
         /\ buffers'[FetchBuf].entries = [k \in 1..m |-> fetch_begin + k - 1]
  <2>1. fetch_begin' = lo + n
    BY <1>2
  <2>2. buffers'[FetchBuf].entries = [k \in 1..n |-> fetch_begin + k - 1]
    BY <1>9, Zenon DEF es
  <2> QED
    BY <1>5, <2>1, <2>2, Zenon
<1> QED
  BY <1>3, <1>6, <1>9, <1>10, <1>11, Zenon

\* A batch is fetched, and the store thread notified.
LEMMA FetchEntriesStep ==
    ASSUME IInv, FetchEntries
    PROVE  IInv'
<1>1. TypeOK /\ BufInv /\ FetchInv /\ StoreInv /\ ShardInv /\ DeleteInv
  BY DEF IInv
<1> DEFINE lo == fetch_begin
<1>2. PICK n \in Nat :
         /\ n >= 1 /\ n <= MaxBatch /\ fetch_begin + n <= tail
         /\ fetch_begin' = fetch_begin + n
         /\ buffers'[FetchBuf].entries = [k \in 1..n |-> fetch_begin + k - 1]
  BY FetchEffect
<1>3. /\ fetcher.pc = "fetch" /\ fetcher' = [pc |-> "lock", round |-> fetcher.round + 1]
      /\ storer' = IF storer.pc = "wait" /\ storer.round % 2 = FetchBuf
                   THEN [storer EXCEPT !.pc = "lock"] ELSE storer
      /\ UNCHANGED <<tail, deleted, calls, max_ordered_idx, entries_cache_set, global_index>>
  BY FetchEffect
<1>4. /\ fetcher.round \in Nat /\ Round \in Nat /\ This \in {0, 1} /\ Other \in {0, 1}
      /\ This # Other /\ FetchBuf \in {0, 1} /\ lo \in Nat
      /\ fetcher.round = Round => FetchBuf = This
      /\ fetcher.round = Round + 1 => FetchBuf = Other
      /\ fetcher.round = Round + 2 => FetchBuf = This
  BY <1>1, Types
<1>5. n \in Nat /\ n >= 1 /\ lo + n <= tail
  BY <1>2
<1> DEFINE es == [k \in 1..n |-> lo + k - 1]
           hi == lo + n
<1>9. /\ buffers'[FetchBuf].entries = es /\ buffers'[FetchBuf].empty = FALSE /\ es # <<>>
      /\ \A b \in {0, 1} \ {FetchBuf} : buffers'[b] = buffers[b]
      /\ buffers' \in [{0, 1} -> [lock : {"none", "fetch", "store"}, empty : BOOLEAN,
                                  entries : Seq(Nat)]]
  <2>1. buffers'[FetchBuf].entries = es
    BY <1>2, Zenon
  <2> QED
    BY <2>1, FetchEffect, Zenon
<1> HIDE DEF es
<1>10. /\ fetcher'.round = fetcher.round + 1 /\ fetcher'.pc = "lock"
       /\ storer'.round = storer.round /\ storer'.base = storer.base /\ storer'.last = storer.last
       /\ storer'.pc = storer.pc \/ (storer.pc = "wait" /\ storer'.pc = "lock")
       /\ storer' \in [pc : {"lock", "wait", "append", "waitForAllShards",
                             "allDeletionCompleted", "update"},
                       round : Nat, base : Nat, last : Nat]
  BY <1>1, <1>3 DEF TypeOK
<1>11. TypeOK'
  <2>1. \A b \in {0, 1} : buffers'[b].empty <=> buffers'[b].entries = <<>>
    <3> SUFFICES ASSUME NEW b \in {0, 1} PROVE buffers'[b].empty <=> buffers'[b].entries = <<>>
      OBVIOUS
    <3>1. CASE b = FetchBuf
      BY <1>9, <3>1
    <3>2. CASE b # FetchBuf
      BY <1>1, <1>9, <3>2 DEF TypeOK
    <3> QED
      BY <3>1, <3>2
  <2>2. fetcher' \in [pc : {"lock", "wait", "fetch"}, round : Nat] /\ fetch_begin' \in Nat
    <3>1. fetcher' = [pc |-> "lock", round |-> fetcher.round + 1] /\ fetch_begin' = lo + n
      BY <1>2, <1>3
    <3> QED
      BY <1>4, <1>5, <3>1
  <2>3. Calls' = Calls /\ Shards' = Shards /\ Bases' = Bases
    BY DEF Calls, Shards, Bases
  <2>4. /\ tail' \in Nat /\ deleted' \in [Replicas -> Nat] /\ calls' \subseteq Calls
        /\ max_ordered_idx' \in Nat /\ entries_cache_set' \in [Shards -> [Bases -> Seq(Nat)]]
        /\ global_index' \in [Shards -> Nat]
    BY <1>1, <1>3 DEF TypeOK
  <2> QED
    BY <1>9, <1>10, <2>1, <2>2, <2>3, <2>4 DEF TypeOK
<1>12. Round' = Round /\ This' = This /\ Other' = Other
  BY <1>10 DEF Round, This, Other
<1>13. fetcher.round # Round + 2
  BY FetchEffect
<1>14. Done \in Nat /\ Done <= lo /\ Mid \in Nat
  BY <1>1, <1>4, BatchFacts
<1>15. es[1] = lo /\ hi > lo /\ hi - lo = n
  <2>1. 1 \in 1..n /\ lo + 1 - 1 = lo
    BY <1>4, <1>5
  <2>2. es[1] = lo
    BY <2>1 DEF es
  <2> QED
    BY <2>2, <1>4, <1>5
<1>16. BufInv' /\ Done' = Done /\ (Mid' = Mid \/ fetcher.round = Round)
  <2>1. CASE fetcher.round = Round
    <3>1. fetcher'.round = Round + 1 /\ fetcher'.round # Round
      BY <1>4, <1>10, <2>1
    <3>2. FetchBuf = This /\ buffers'[This].entries = es /\ buffers'[Other] = buffers[Other]
      BY <1>4, <1>9, <2>1
    <3>3. Done = lo
      BY <1>1, <2>1, BatchFacts
    <3>4. Done' = Done
      BY <1>12, <1>15, <3>1, <3>2, <3>3 DEF Done
    <3>5. Holds(This, Done, fetch_begin)'
      BY <1>2, <1>12, <1>15, <3>2, <3>3, <3>4 DEF Holds, es
    <3>6. buffers'[Other].entries = <<>>
      BY <1>1, <2>1, <3>2 DEF BufInv
    <3>7. fetcher'.round # Round' + 2
      BY <1>4, <1>12, <3>1
    <3> QED
      BY <1>12, <1>14, <2>1, <3>1, <3>4, <3>5, <3>6, <3>7 DEF BufInv
  <2>2. CASE fetcher.round = Round + 1
    <3>1. fetcher'.round = Round + 2 /\ fetcher'.round # Round /\ fetcher'.round # Round + 1
          /\ fetcher.round # Round
      BY <1>4, <1>10, <2>2
    <3>2. FetchBuf = Other /\ buffers'[Other].entries = es /\ buffers'[This] = buffers[This]
      BY <1>4, <1>9, <2>2
    <3>3. Mid = lo /\ Holds(This, Done, Mid)
      BY <1>1, <2>2, <3>1, BatchFacts
    <3>4. Done' = Done
      BY <1>12, <3>1, <3>2 DEF Done
    <3>5. Mid' = Mid
      BY <1>12, <3>2, <3>4 DEF Mid
    <3>6. Holds(This, Done, Mid)'
      BY <1>12, <3>2, <3>3, <3>4, <3>5 DEF Holds
    <3>7. Holds(Other, Mid, fetch_begin)'
      BY <1>2, <1>12, <1>15, <3>2, <3>3, <3>5 DEF Holds, es
    <3> QED
      BY <1>12, <1>14, <3>1, <3>4, <3>5, <3>6, <3>7 DEF BufInv
  <2> QED
    BY <1>1, <1>13, <2>1, <2>2 DEF BufInv
<1>17. FetchInv'
  BY <1>1, <1>2, <1>3, <1>5, <1>10 DEF FetchInv
<1>18. fetcher'.round # Round'
  BY <1>1, <1>4, <1>10, <1>12 DEF BufInv
<1>19. StoreInv' /\ ShardInv' /\ DeleteInv'
  <2>1. CASE storer' = storer
    BY <1>1, <1>3, <1>12, <1>16, <1>18, <2>1, SameStore
  <2>2. CASE storer.pc = "wait" /\ storer'.pc = "lock"
    <3>1. StoreInv'
      BY <1>1, <1>3, <2>2 DEF StoreInv
    <3>2. \A s : Frontier(s)' = Frontier(s)
      BY <1>16, <2>2 DEF Frontier
    <3>3. ShardInv'
      BY <1>1, <1>3, <3>2 DEF ShardInv, PlacedForRead, Stored
    <3>4. DeleteInv'
      BY <1>1, <1>3, <1>16, <2>2 DEF DeleteInv
    <3> QED
      BY <3>1, <3>3, <3>4
  <2> QED
    BY <1>3, <1>10, <2>1, <2>2
<1> QED
  BY <1>11, <1>16, <1>17, <1>19 DEF IInv

-----------------------------------------------------------------------------
(* The store thread takes a batch *)

\* The types after a step that leaves the durability log and the shards alone.
LEMMA StoreTypes ==
    ASSUME TypeOK, UNCHANGED <<tail, deleted, fetch_begin, entries_cache_set, global_index>>,
           fetcher' \in [pc : {"lock", "wait", "fetch"}, round : Nat],
           buffers' \in [{0, 1} -> [lock : {"none", "fetch", "store"}, empty : BOOLEAN,
                                    entries : Seq(Nat)]],
           \A b \in {0, 1} : buffers'[b].empty <=> buffers'[b].entries = <<>>,
           storer' \in [pc : {"lock", "wait", "append", "waitForAllShards",
                              "allDeletionCompleted", "update"},
                        round : Nat, base : Nat, last : Nat],
           calls' \subseteq Calls, max_ordered_idx' \in Nat
    PROVE  TypeOK'
<1>1. Calls' = Calls /\ Shards' = Shards /\ Bases' = Bases
  BY DEF Calls, Shards, Bases
<1>2. /\ tail' \in Nat /\ deleted' \in [Replicas -> Nat] /\ fetch_begin' \in Nat
      /\ entries_cache_set' \in [Shards -> [Bases -> Seq(Nat)]]
      /\ global_index' \in [Shards -> Nat]
  BY DEF TypeOK
<1> QED
  BY <1>1, <1>2 DEF TypeOK

\* The store thread finds no batch and waits, or looks again.
LEMMA WaitStep ==
    ASSUME IInv, WaitTimeout \/ (LockToStore /\ buffers[StoreBuf].empty)
    PROVE  IInv'
<1>1. TypeOK /\ BufInv /\ FetchInv /\ StoreInv /\ ShardInv /\ DeleteInv
  BY DEF IInv
<1>2. UNCHANGED <<tail, deleted, buffers, fetcher, fetch_begin, calls, max_ordered_idx,
                  entries_cache_set, global_index>>
  BY DEF WaitTimeout, LockToStore, shardVars
<1>3. storer \in [pc : {"lock", "wait", "append", "waitForAllShards",
                        "allDeletionCompleted", "update"},
                  round : Nat, base : Nat, last : Nat]
  BY <1>1 DEF TypeOK
<1>4. /\ storer.pc \in {"lock", "wait"} /\ storer'.pc \in {"lock", "wait"}
      /\ storer'.round = storer.round
      /\ storer' \in [pc : {"lock", "wait", "append", "waitForAllShards",
                            "allDeletionCompleted", "update"},
                      round : Nat, base : Nat, last : Nat]
  <2>1. CASE WaitTimeout
    BY <1>3, <2>1 DEF WaitTimeout
  <2>2. CASE LockToStore /\ buffers[StoreBuf].empty
    BY <1>3, <2>2 DEF LockToStore
  <2> QED
    BY <2>1, <2>2
<1>5. TypeOK'
  BY <1>1, <1>2, <1>4, StoreTypes DEF TypeOK
<1>6. Round' = Round
  BY <1>4 DEF Round
<1>7. BufInv' /\ Done' = Done /\ Mid' = Mid /\ FetchBuf' = FetchBuf
  BY <1>1, <1>2, <1>6, SameBatches
<1>8. FetchInv'
  BY <1>1, <1>2, <1>7 DEF FetchInv
<1>9. StoreInv'
  BY <1>1, <1>2, <1>4 DEF StoreInv
<1>10. \A s : Frontier(s)' = Frontier(s)
  BY <1>4, <1>7 DEF Frontier
<1>11. ShardInv'
  BY <1>1, <1>2, <1>10 DEF ShardInv, PlacedForRead, Stored
<1>12. DeleteInv'
  BY <1>1, <1>2, <1>4, <1>7 DEF DeleteInv
<1> QED
  BY <1>5, <1>7, <1>8, <1>9, <1>11, <1>12 DEF IInv

\* It finds one, locks it and begins with the stripe of its first entry.
LEMMA LockToStoreStep ==
    ASSUME IInv, LockToStore, ~buffers[StoreBuf].empty
    PROVE  IInv'
<1>1. TypeOK /\ BufInv /\ FetchInv /\ StoreInv /\ ShardInv /\ DeleteInv
  BY DEF IInv
<1>2. /\ storer.pc = "lock"
      /\ storer' = [storer EXCEPT !.pc = "append", !.base = BaseIdx(StartIdx)]
      /\ buffers' = [buffers EXCEPT ![StoreBuf].lock = "store"]
      /\ UNCHANGED <<tail, deleted, fetcher, fetch_begin, calls, max_ordered_idx,
                     entries_cache_set, global_index>>
  BY DEF LockToStore, shardVars
<1>3. StoreBuf = This /\ This \in {0, 1} /\ Round \in Nat
  BY <1>1, <1>2, Types
<1>4. fetcher.round # Round
  <2>1. buffers[This].entries # <<>>
    BY <1>1, <1>3 DEF TypeOK
  <2> QED
    BY <1>1, <2>1 DEF BufInv
<1>5. Holds(This, Done, Mid) /\ Done \in Nat /\ Mid \in Nat /\ Done < Mid
  BY <1>1, <1>4, BatchFacts
<1>6. StartIdx = Done
  BY <1>1, <1>3, <1>5, HeldEntries DEF StartIdx, Batch
<1>7. /\ BaseIdx(Done) \in Nat /\ BaseIdx(Done) <= Done /\ Done < BaseIdx(Done) + BigStripe
      /\ BaseIdx(BaseIdx(Done)) = BaseIdx(Done)
  BY <1>5, IdxParts, BaseFacts
<1>8. storer \in [pc : {"lock", "wait", "append", "waitForAllShards",
                        "allDeletionCompleted", "update"},
                  round : Nat, base : Nat, last : Nat]
  BY <1>1 DEF TypeOK
<1>9. /\ storer' \in [pc : {"lock", "wait", "append", "waitForAllShards",
                            "allDeletionCompleted", "update"},
                      round : Nat, base : Nat, last : Nat]
      /\ storer'.pc = "append" /\ storer'.base = BaseIdx(Done) /\ storer'.round = storer.round
  BY <1>2, <1>6, <1>7, <1>8
<1>10. /\ buffers' \in [{0, 1} -> [lock : {"none", "fetch", "store"}, empty : BOOLEAN,
                                   entries : Seq(Nat)]]
       /\ \A b \in {0, 1} : buffers'[b].entries = buffers[b].entries
                            /\ buffers'[b].empty = buffers[b].empty
  BY <1>1, <1>2, <1>3 DEF TypeOK
<1>11. TypeOK'
  <2>1. \A b \in {0, 1} : buffers'[b].empty <=> buffers'[b].entries = <<>>
    BY <1>1, <1>10 DEF TypeOK
  <2>2. fetcher' \in [pc : {"lock", "wait", "fetch"}, round : Nat]
    BY <1>1, <1>2 DEF TypeOK
  <2>3. calls' \subseteq Calls /\ max_ordered_idx' \in Nat
    BY <1>1, <1>2 DEF TypeOK
  <2> QED
    BY <1>1, <1>2, <1>9, <1>10, <2>1, <2>2, <2>3, StoreTypes
<1>12. Round' = Round
  BY <1>2, <1>9 DEF Round
<1>13. BufInv' /\ Done' = Done /\ Mid' = Mid /\ FetchBuf' = FetchBuf
  BY <1>1, <1>2, <1>10, <1>12, SameBatches
<1>14. FetchInv'
  <2>1. FetchBuf \in {0, 1}
    BY <1>1, Types
  <2> QED
    BY <1>1, <1>2, <1>10, <1>13, <2>1 DEF FetchInv
<1>15. From' = Done
  BY <1>5, <1>7, <1>9, <1>13 DEF From, MaxOf
<1>16. BaseIdx(storer.base)' = BaseIdx(Done) /\ BigStripe' = BigStripe
  BY <1>7, <1>9 DEF BaseIdx, BigStripe
<1>17. StoreInv'
  <2>1. storer'.base < Mid' /\ Done' < storer'.base + BigStripe
    BY <1>5, <1>7, <1>9, <1>13, BaseFacts
  <2>2. calls' = {}
    BY <1>1, <1>2 DEF StoreInv
  <2> QED
    BY <1>2, <1>4, <1>9, <1>12, <1>16, <2>1, <2>2 DEF StoreInv
<1>18. \A s : Frontier(s)' = Frontier(s)
  BY <1>2, <1>9, <1>15 DEF Frontier
<1>19. ShardInv'
  BY <1>1, <1>2, <1>18 DEF ShardInv, PlacedForRead, Stored
<1>20. DeleteInv'
  BY <1>1, <1>2, <1>9, <1>13 DEF DeleteInv
<1> QED
  BY <1>11, <1>13, <1>14, <1>17, <1>19, <1>20 DEF IInv

-----------------------------------------------------------------------------
(* The store thread sends a stripe *)

\* The part of the batch that is in the stripe at hand.
LEMMA StripeFacts ==
    ASSUME IInv, storer.pc \in {"append", "waitForAllShards"}
    PROVE  /\ fetcher.round # Round /\ Holds(This, Done, Mid) /\ This \in {0, 1} /\ StoreBuf = This
           /\ Done \in Nat /\ Mid \in Nat /\ From \in Nat /\ To \in Nat
           /\ storer.base \in Nat /\ BaseIdx(storer.base) = storer.base
           /\ Done <= From /\ storer.base <= From /\ From < To
           /\ To <= Mid /\ To <= storer.base + BigStripe /\ Mid <= MaxLen
           /\ StartIdx = Done /\ EndIdx = Mid - 1
           /\ \A idx \in From..(To - 1) : BaseIdx(idx) = storer.base
<1>1. TypeOK /\ BufInv /\ FetchInv /\ StoreInv
  BY DEF IInv
<1>2. /\ fetcher.round # Round /\ BaseIdx(storer.base) = storer.base
      /\ storer.base < Mid /\ Done < storer.base + BigStripe
  BY <1>1 DEF StoreInv
<1>3. /\ Done \in Nat /\ Mid \in Nat /\ Done < Mid /\ Holds(This, Done, Mid)
      /\ Mid <= fetch_begin
  BY <1>1, <1>2, BatchFacts
<1>4. storer.base \in Nat /\ fetch_begin \in Nat /\ This \in {0, 1} /\ StoreBuf = This
  BY <1>1, Types
<1>5. BigStripe \in Nat \ {0}
  BY BaseFacts
<1>6. /\ From \in Nat /\ To \in Nat /\ Done <= From /\ storer.base <= From /\ From < To
      /\ To <= Mid /\ To <= storer.base + BigStripe
  BY <1>2, <1>3, <1>4, <1>5 DEF From, To, MaxOf, MinOf
<1>7. Mid <= MaxLen
  <2>1. tail \in Nat
    BY <1>1 DEF TypeOK
  <2> QED
    BY <1>1, <1>3, <1>4, <2>1 DEF FetchInv
<1>8. StartIdx = Done /\ EndIdx = Mid - 1
  <2> DEFINE lo == Done
             hi == Mid
             b  == This
             es == buffers[b].entries
  <2>0. TypeOK /\ b \in {0, 1} /\ lo \in Nat /\ hi \in Nat /\ Holds(b, lo, hi)
    BY <1>1, <1>3, <1>4
  <2> HIDE DEF lo, hi, b
  <2>1. es[1] = lo /\ es[hi - lo] = hi - 1
    <3>2. es[1] = lo
      BY <2>0, HeldEntries
    <3>3. \A k \in 1..(hi - lo) : es[k] = lo + k - 1
      BY <2>0, HeldEntries
    <3>4. hi - lo \in 1..(hi - lo) /\ lo + (hi - lo) - 1 = hi - 1
      BY <2>0 DEF Holds
    <3>5. es[hi - lo] = hi - 1
      BY <3>3, <3>4
    <3> QED
      BY <3>2, <3>5
  <2>2. Len(buffers[This].entries) = Mid - Done
    <3>1. Len(buffers[This].entries) \in Nat
      BY <1>1, <1>4, Types, LenProperties
    <3> QED
      BY <1>3, <3>1 DEF Mid
  <2>3. buffers[This].entries[1] = Done /\ buffers[This].entries[Mid - Done] = Mid - 1
    BY <2>1 DEF lo, hi, b
  <2> QED
    BY <1>4, <2>2, <2>3 DEF StartIdx, EndIdx, Batch
<1>9. \A idx \in From..(To - 1) : BaseIdx(idx) = storer.base
  <2> SUFFICES ASSUME NEW idx \in From..(To - 1) PROVE BaseIdx(idx) = storer.base
    OBVIOUS
  <2>1. idx \in Nat /\ storer.base <= idx /\ idx < storer.base + BigStripe
    BY <1>4, <1>5, <1>6
  <2> QED
    BY <1>2, <1>4, <2>1, StripeOf
<1> QED
  BY <1>2, <1>3, <1>4, <1>6, <1>7, <1>8, <1>9

\* The entries that one call carries.
LEMMA PartFacts ==
    ASSUME NEW f \in Nat, NEW t \in Nat, f < t, NEW es,
           es = [k \in 1..((t - 1 - f) \div ShardNum + 1) |-> f + (k - 1) * ShardNum]
    PROVE  /\ es \in Seq(Nat) /\ es # <<>> /\ Len(es) = (t - 1 - f) \div ShardNum + 1
           /\ es[1] = f
           /\ \A k \in 1..Len(es) : /\ es[k] = f + (k - 1) * ShardNum
                                    /\ (k - 1) * ShardNum \in Nat /\ es[k] \in f..(t - 1)
<1> DEFINE d == t - 1 - f
           n == d \div ShardNum + 1
<1>1. d \in Nat
  OBVIOUS
<1>2. d \div ShardNum \in Nat
  BY <1>1, DivMod
<1>3. n \in Nat /\ n >= 1 /\ DOMAIN es = 1..n /\ 1 \in 1..n
  BY <1>2
<1>4. ASSUME NEW k \in 1..n
      PROVE  /\ es[k] = f + (k - 1) * ShardNum /\ (k - 1) * ShardNum \in Nat
             /\ es[k] \in f..(t - 1)
  <2>1. k - 1 \in Nat /\ k - 1 <= d \div ShardNum
    BY <1>2, <1>4
  <2>2. (k - 1) * ShardNum <= d
    BY <1>1, <2>1, StepsBelow
  <2>3. (k - 1) * ShardNum \in Nat
    BY <2>1
  <2>4. es[k] = f + (k - 1) * ShardNum
    BY <1>4
  <2> QED
    BY <2>2, <2>3, <2>4
<1> HIDE DEF n
<1>5. es \in Seq(Nat)
  <2>1. es = [k \in 1..n |-> es[k]]
    BY <1>3
  <2>2. \A k \in 1..n : es[k] \in Nat
    BY <1>4
  <2> QED
    BY <1>3, <2>1, <2>2, IsASeq
<1>6. Len(es) = n
  BY <1>3, <1>5, LenOf
<1>7. es # <<>>
  <2>1. Len(<<>>) = 0
    BY EmptySeq
  <2>2. n # 0
    BY <1>3
  <2> QED
    BY <1>6, <2>1, <2>2, Zenon
<1>8. es[1] = f
  <2>1. es[1] = f + (1 - 1) * ShardNum
    BY <1>3, <1>4
  <2>2. (1 - 1) * ShardNum = 0
    OBVIOUS
  <2> QED
    BY <2>1, <2>2
<1> QED
  BY <1>4, <1>5, <1>6, <1>7, <1>8 DEF n

\* The calls are those of the invariant.
LEMMA StripeCallsAre ==
    ASSUME IInv, storer.pc = "append"
    PROVE  StripeCalls(storer.base) =
             {AppendCall(first) : first \in From..MinOf(From + ShardNum - 1, To - 1)}
<1>1. /\ Holds(This, Done, Mid) /\ This \in {0, 1} /\ StoreBuf = This
      /\ Done \in Nat /\ Mid \in Nat /\ From \in Nat /\ To \in Nat /\ storer.base \in Nat
      /\ Done <= From /\ From < To /\ To <= Mid /\ StartIdx = Done /\ EndIdx = Mid - 1
  BY StripeFacts
<1>2. BigStripe \in Nat
  BY BaseFacts
<1>3. MaxOf(storer.base, StartIdx) = From
  BY <1>1 DEF From
<1>4. MinOf(storer.base + BigStripe - 1, EndIdx) = To - 1
  BY <1>1, <1>2 DEF To, MinOf
<1>5. \A k \in 1..(Mid - Done) : Batch[k] = Done + k - 1
  BY <1>1, HeldEntries DEF Batch, IInv
<1>6. ASSUME NEW first \in From..MinOf(From + ShardNum - 1, To - 1)
      PROVE  [k \in 1..((To - 1 - first) \div ShardNum + 1) |->
                Batch[first - StartIdx + (k - 1) * ShardNum + 1]] = PartFrom(first)
  <2>1. first \in Nat /\ Done <= first /\ first < To
    BY <1>1 DEF MinOf
  <2> DEFINE d == To - 1 - first
  <2>2. d \in Nat
    BY <1>1, <2>1
  <2>20. d \div ShardNum \in Nat
    BY <2>2, DivMod
  <2>3. ASSUME NEW k \in 1..(d \div ShardNum + 1)
        PROVE  Batch[first - StartIdx + (k - 1) * ShardNum + 1] = first + (k - 1) * ShardNum
    <3>1. k - 1 \in Nat /\ k - 1 <= d \div ShardNum
      BY <2>20, <2>3
    <3>2. (k - 1) * ShardNum <= d /\ (k - 1) * ShardNum \in Nat
      BY <2>2, <3>1, StepsBelow
    <3> DEFINE m == (k - 1) * ShardNum
    <3>3. m \in Nat /\ m <= To - 1 - first
      BY <3>2
    <3> HIDE DEF m
    <3>4. /\ first - Done + m + 1 \in 1..(Mid - Done)
          /\ Done + (first - Done + m + 1) - 1 = first + m
      BY <1>1, <2>1, <3>3
    <3>5. Batch[first - Done + m + 1] = first + m
      BY <1>5, <3>4
    <3> QED
      BY <1>1, <3>5 DEF m
  <2> QED
    BY <2>3 DEF PartFrom
<1>7. StripeCalls(storer.base) =
        {[op |-> "append", to |-> first % ShardNum,
          arg |-> [k \in 1..((To - 1 - first) \div ShardNum + 1) |->
                     Batch[first - StartIdx + (k - 1) * ShardNum + 1]]] :
           first \in From..MinOf(From + ShardNum - 1, To - 1)}
  BY <1>3, <1>4, Zenon DEF StripeCalls, ShardFor
<1>8. \A first \in From..MinOf(From + ShardNum - 1, To - 1) :
        [op |-> "append", to |-> first % ShardNum,
          arg |-> [k \in 1..((To - 1 - first) \div ShardNum + 1) |->
                     Batch[first - StartIdx + (k - 1) * ShardNum + 1]]] = AppendCall(first)
  BY <1>6 DEF AppendCall
<1> QED
  BY <1>7, <1>8, Zenon

\* One of these calls, in terms of its first entry.
LEMMA CallFacts ==
    ASSUME IInv, storer.pc \in {"append", "waitForAllShards"},
           NEW first \in From..MinOf(From + ShardNum - 1, To - 1)
    PROVE  /\ first \in From..(From + ShardNum - 1) /\ first \in From..(To - 1) /\ first \in Nat
           /\ first % ShardNum \in Shards
           /\ PartFrom(first) \in Seq(Nat) /\ PartFrom(first) # <<>> /\ PartFrom(first)[1] = first
           /\ Len(PartFrom(first)) = (To - 1 - first) \div ShardNum + 1
           /\ \A k \in 1..Len(PartFrom(first)) :
                 /\ PartFrom(first)[k] = first + (k - 1) * ShardNum
                 /\ (k - 1) * ShardNum \in Nat /\ PartFrom(first)[k] \in first..(To - 1)
           /\ AppendCall(first) \in Calls
<1>1. From \in Nat /\ To \in Nat /\ From < To
  BY StripeFacts
<1>2. /\ first \in From..(From + ShardNum - 1) /\ first \in From..(To - 1) /\ first \in Nat
      /\ first < To
  BY <1>1 DEF MinOf
<1>3. first % ShardNum \in Shards
  BY <1>2, IdxParts
<1>4. /\ PartFrom(first) \in Seq(Nat) /\ PartFrom(first) # <<>> /\ PartFrom(first)[1] = first
      /\ Len(PartFrom(first)) = (To - 1 - first) \div ShardNum + 1
      /\ \A k \in 1..Len(PartFrom(first)) :
            /\ PartFrom(first)[k] = first + (k - 1) * ShardNum
            /\ (k - 1) * ShardNum \in Nat /\ PartFrom(first)[k] \in first..(To - 1)
  <2> DEFINE es == PartFrom(first)
  <2>1. es = [k \in 1..((To - 1 - first) \div ShardNum + 1) |-> first + (k - 1) * ShardNum]
    BY DEF PartFrom
  <2> HIDE DEF es
  <2> DEFINE t == To
  <2>3. t \in Nat /\ first < t /\ first \in Nat
    BY <1>1, <1>2
  <2>4. es = [k \in 1..((t - 1 - first) \div ShardNum + 1) |-> first + (k - 1) * ShardNum]
    BY <2>1
  <2> HIDE DEF t
  <2>5. /\ es \in Seq(Nat) /\ es # <<>> /\ Len(es) = (t - 1 - first) \div ShardNum + 1
        /\ es[1] = first
        /\ \A k \in 1..Len(es) : /\ es[k] = first + (k - 1) * ShardNum
                                 /\ (k - 1) * ShardNum \in Nat /\ es[k] \in first..(t - 1)
    BY <2>3, <2>4, PartFacts
  <2>2. /\ es \in Seq(Nat) /\ es # <<>> /\ Len(es) = (To - 1 - first) \div ShardNum + 1
        /\ es[1] = first
        /\ \A k \in 1..Len(es) : /\ es[k] = first + (k - 1) * ShardNum
                                 /\ (k - 1) * ShardNum \in Nat /\ es[k] \in first..(To - 1)
    BY <2>5 DEF t
  <2> QED
    BY <2>2, Zenon DEF es
<1>5. AppendCall(first) \in Calls
  BY <1>3, <1>4 DEF AppendCall, Calls
<1> QED
  BY <1>2, <1>3, <1>4, <1>5

\* A stripe is sent, one call to each shard that gets entries of it.
LEMMA SendStripeStep ==
    ASSUME IInv, SendStripe
    PROVE  IInv'
<1>1. TypeOK /\ BufInv /\ FetchInv /\ StoreInv /\ ShardInv /\ DeleteInv
  BY DEF IInv
<1>2. /\ storer.pc = "append" /\ calls' = StripeCalls(storer.base)
      /\ storer' = [storer EXCEPT !.pc = "waitForAllShards"]
      /\ UNCHANGED <<tail, deleted, buffers, fetcher, fetch_begin, max_ordered_idx,
                     entries_cache_set, global_index>>
  BY DEF SendStripe, shardVars
<1> DEFINE Firsts == From..MinOf(From + ShardNum - 1, To - 1)
<1>3. calls' = {AppendCall(first) : first \in Firsts}
  BY <1>2, StripeCallsAre
<1>4. /\ fetcher.round # Round /\ From \in Nat /\ To \in Nat /\ From < To
      /\ BaseIdx(storer.base) = storer.base
  BY <1>2, StripeFacts
<1>5. /\ storer'.pc = "waitForAllShards" /\ storer'.round = storer.round
      /\ storer'.base = storer.base
      /\ storer' \in [pc : {"lock", "wait", "append", "waitForAllShards",
                            "allDeletionCompleted", "update"},
                      round : Nat, base : Nat, last : Nat]
  BY <1>1, <1>2 DEF TypeOK
<1>6. TypeOK'
  <2>1. calls' \subseteq Calls
    BY <1>2, <1>3, CallFacts
  <2> QED
    BY <1>1, <1>2, <1>5, <2>1, StoreTypes DEF TypeOK
<1>7. Round' = Round
  BY <1>2, <1>5 DEF Round
<1>8. BufInv' /\ Done' = Done /\ Mid' = Mid /\ FetchBuf' = FetchBuf
  BY <1>1, <1>2, <1>7, SameBatches
<1>9. FetchInv'
  BY <1>1, <1>2, <1>8 DEF FetchInv
<1>10. From' = From /\ To' = To
  BY <1>5, <1>8 DEF From, To
<1>11. \A first : AppendCall(first)' = AppendCall(first)
  BY <1>10 DEF AppendCall, PartFrom
<1>12. StoreInv'
  <2>1. /\ BaseIdx(storer.base)' = storer'.base /\ fetcher'.round # Round'
        /\ storer'.base < Mid' /\ Done' < storer'.base + BigStripe
    BY <1>1, <1>2, <1>4, <1>5, <1>7, <1>8 DEF StoreInv, BaseIdx
  <2>2. calls' \subseteq {AppendCall(first)' : first \in From'..MinOf(From' + ShardNum - 1, To' - 1)}
    BY <1>3, <1>10, <1>11
  <2> QED
    BY <1>5, <2>1, <2>2 DEF StoreInv
<1>13. ASSUME NEW idx \in 0..(MaxLen - 1)
       PROVE  Stored(idx)' <=> idx < Frontier(idx % ShardNum)'
  <2> DEFINE s == idx % ShardNum
  <2>1. Stored(idx)' <=> idx < From
    <3>1. Frontier(s) = From
      BY <1>2 DEF Frontier
    <3>2. Stored(idx)' = Stored(idx)
      BY <1>2 DEF Stored
    <3> QED
      BY <1>1, <3>1, <3>2 DEF ShardInv
  <2>2. CASE \E c \in calls' : c.to = s
    BY <1>5, <1>10, <2>1, <2>2 DEF Frontier
  <2>3. CASE ~\E c \in calls' : c.to = s
    <3>1. ~(From <= idx /\ idx < To)
      <4> SUFFICES ASSUME From <= idx, idx < To PROVE FALSE
        OBVIOUS
      <4>0. idx \in Nat /\ From \in Nat /\ From <= idx
        BY <1>4
      <4>1. PICK f \in From..(From + ShardNum - 1) : f <= idx /\ f % ShardNum = idx % ShardNum
        BY <4>0, FirstInTurn
      <4>2. f \in Firsts
        BY <1>4, <4>1 DEF MinOf
      <4>3. AppendCall(f) \in calls' /\ AppendCall(f).to = s
        BY <1>3, <4>1, <4>2 DEF AppendCall
      <4> QED
        BY <2>3, <4>3
    <3>2. Frontier(s)' = To
      BY <1>5, <1>10, <2>3 DEF Frontier
    <3> QED
      BY <1>4, <2>1, <3>1, <3>2
  <2> QED
    BY <2>2, <2>3
<1>14. ShardInv'
  BY <1>1, <1>2, <1>13 DEF ShardInv, PlacedForRead
<1>15. DeleteInv'
  BY <1>1, <1>2, <1>5, <1>8 DEF DeleteInv
<1> QED
  BY <1>6, <1>8, <1>9, <1>12, <1>14, <1>15 DEF IInv

\* All shards have answered, and the batch goes on in the next stripe.
LEMMA NextStripeStep ==
    ASSUME IInv, NextStripe
    PROVE  IInv'
<1>1. TypeOK /\ BufInv /\ FetchInv /\ StoreInv /\ ShardInv /\ DeleteInv
  BY DEF IInv
<1>2. /\ storer.pc = "waitForAllShards" /\ calls = {} /\ MoreStripes
      /\ storer' = [storer EXCEPT !.pc = "append", !.base = @ + BigStripe]
      /\ UNCHANGED <<tail, deleted, buffers, fetcher, fetch_begin, calls, max_ordered_idx,
                     entries_cache_set, global_index>>
  BY DEF NextStripe, shardVars
<1>3. /\ fetcher.round # Round /\ Done \in Nat /\ Mid \in Nat /\ EndIdx = Mid - 1
      /\ From \in Nat /\ To \in Nat /\ storer.base \in Nat /\ Done <= From /\ From < To
      /\ To <= Mid /\ BaseIdx(storer.base) = storer.base
  BY <1>2, StripeFacts
<1>4. Done < storer.base + BigStripe
  BY <1>1, <1>2 DEF StoreInv
<1> DEFINE base == storer.base + BigStripe
<1>5. BigStripe \in Nat \ {0} /\ base \in Nat /\ BaseIdx(base) = base
  BY <1>3, BaseFacts, StripeOf
<1>6. base <= Mid - 1
  <2>1. Mid - 1 \in Nat
    BY <1>3
  <2>2. BaseIdx(Mid - 1) <= Mid - 1 /\ BaseIdx(Mid - 1) \in Nat
    BY <2>1, IdxParts
  <2>3. base <= BaseIdx(Mid - 1)
    BY <1>2, <1>3 DEF MoreStripes
  <2> QED
    BY <1>5, <2>1, <2>2, <2>3
<1>7. To = base
  BY <1>3, <1>5, <1>6 DEF To, MinOf
<1>8. /\ storer'.pc = "append" /\ storer'.round = storer.round /\ storer'.base = base
      /\ storer' \in [pc : {"lock", "wait", "append", "waitForAllShards",
                            "allDeletionCompleted", "update"},
                      round : Nat, base : Nat, last : Nat]
  BY <1>1, <1>2, <1>5 DEF TypeOK
<1> HIDE DEF base
<1>9. TypeOK'
  BY <1>1, <1>2, <1>8, StoreTypes DEF TypeOK
<1>10. Round' = Round
  BY <1>2, <1>8 DEF Round
<1>11. BufInv' /\ Done' = Done /\ Mid' = Mid /\ FetchBuf' = FetchBuf
  BY <1>1, <1>2, <1>10, SameBatches
<1>12. FetchInv'
  BY <1>1, <1>2, <1>11 DEF FetchInv
<1>13. Done < base
  BY <1>4 DEF base
<1>14. From' = To
  BY <1>3, <1>5, <1>7, <1>8, <1>11, <1>13 DEF From, MaxOf
<1>15. StoreInv'
  <2>1. BaseIdx(storer.base)' = BaseIdx(base)
    BY <1>8 DEF BaseIdx
  <2>2. base < Mid /\ Done < base + BigStripe
    BY <1>3, <1>5, <1>6, <1>13
  <2> QED
    BY <1>2, <1>3, <1>5, <1>8, <1>10, <1>11, <2>1, <2>2 DEF StoreInv
<1>16. \A s : Frontier(s)' = Frontier(s)
  BY <1>2, <1>8, <1>14 DEF Frontier
<1>17. ShardInv'
  BY <1>1, <1>2, <1>16 DEF ShardInv, PlacedForRead, Stored
<1>18. DeleteInv'
  BY <1>1, <1>2, <1>8, <1>11 DEF DeleteInv
<1> QED
  BY <1>9, <1>11, <1>12, <1>15, <1>17, <1>18 DEF IInv

-----------------------------------------------------------------------------
(* The batch is deleted and announced *)

\* All its stripes are on the shards: the replicas are told to delete it.
LEMMA DeleteOrderedEntriesStep ==
    ASSUME IInv, DeleteOrderedEntries
    PROVE  IInv'
<1>1. TypeOK /\ BufInv /\ FetchInv /\ StoreInv /\ ShardInv /\ DeleteInv
  BY DEF IInv
<1>2. /\ storer.pc = "waitForAllShards" /\ calls = {} /\ ~MoreStripes
      /\ max_ordered_idx' = EndIdx
      /\ calls' = calls \cup {[op |-> "delete", to |-> r, arg |-> EndIdx + 1] : r \in Replicas}
      /\ storer' = [storer EXCEPT !.pc = "allDeletionCompleted", !.last = EndIdx]
      /\ UNCHANGED <<tail, deleted, buffers, fetcher, fetch_begin, entries_cache_set, global_index>>
  BY DEF DeleteOrderedEntries, shardVars, allRPCCompleted
<1>3. /\ fetcher.round # Round /\ Done \in Nat /\ Mid \in Nat /\ EndIdx = Mid - 1
      /\ From \in Nat /\ To \in Nat /\ storer.base \in Nat /\ Done <= From /\ From < To
      /\ To <= Mid /\ BaseIdx(storer.base) = storer.base
  BY <1>2, StripeFacts
<1>4. Mid - 1 \in Nat /\ Mid - 1 + 1 = Mid
  BY <1>3
<1>5. To = Mid
  <2>1. ~(storer.base + BigStripe <= BaseIdx(Mid - 1))
    BY <1>2, <1>3 DEF MoreStripes
  <2>2. ~(storer.base + BigStripe <= Mid - 1)
    BY <1>3, <1>4, <2>1, StripeOf
  <2>3. BigStripe \in Nat
    BY BaseFacts
  <2> QED
    BY <1>3, <2>2, <2>3 DEF To, MinOf
<1>6. calls' = {[op |-> "delete", to |-> r, arg |-> Mid] : r \in Replicas}
  BY <1>2, <1>3, <1>4
<1>7. /\ storer'.pc = "allDeletionCompleted" /\ storer'.round = storer.round
      /\ storer'.last = Mid - 1
      /\ storer' \in [pc : {"lock", "wait", "append", "waitForAllShards",
                            "allDeletionCompleted", "update"},
                      round : Nat, base : Nat, last : Nat]
  BY <1>1, <1>2, <1>3, <1>4 DEF TypeOK
<1>8. TypeOK'
  <2>1. calls' \subseteq Calls
    BY <1>3, <1>6 DEF Calls
  <2>2. max_ordered_idx' \in Nat
    BY <1>2, <1>3, <1>4
  <2> QED
    BY <1>1, <1>2, <1>7, <2>1, <2>2, StoreTypes DEF TypeOK
<1>9. Round' = Round
  BY <1>2, <1>7 DEF Round
<1>10. BufInv' /\ Done' = Done /\ Mid' = Mid /\ FetchBuf' = FetchBuf
  BY <1>1, <1>2, <1>9, SameBatches
<1>11. FetchInv'
  BY <1>1, <1>2, <1>10 DEF FetchInv
<1>12. StoreInv'
  BY <1>2, <1>3, <1>6, <1>7, <1>9, <1>10 DEF StoreInv
<1>13. \A s : Frontier(s)' = Frontier(s)
  BY <1>2, <1>5, <1>7, <1>10 DEF Frontier
<1>14. ShardInv'
  BY <1>1, <1>2, <1>13 DEF ShardInv, PlacedForRead, Stored
<1>15. DeleteInv'
  <2>1. \A r \in Replicas : deleted'[r] = Done
    BY <1>1, <1>2 DEF DeleteInv
  <2>2. ASSUME NEW r \in Replicas PROVE \E c \in calls' : c.to = r
    <3> DEFINE c == [op |-> "delete", to |-> r, arg |-> Mid]
    <3>1. c \in calls' /\ c.to = r
      BY <1>6
    <3> QED
      BY <3>1
  <2> QED
    BY <1>1, <1>2, <1>10, <2>1, <2>2 DEF DeleteInv
<1> QED
  BY <1>8, <1>10, <1>11, <1>12, <1>14, <1>15 DEF IInv

\* The replicas have deleted it: the shards are told that it can be read.
LEMMA UpdateGlobalIdxStep ==
    ASSUME IInv, UpdateGlobalIdx
    PROVE  IInv'
<1>1. TypeOK /\ BufInv /\ FetchInv /\ StoreInv /\ ShardInv /\ DeleteInv
  BY DEF IInv
<1>2. /\ storer.pc = "allDeletionCompleted" /\ calls = {}
      /\ buffers' = [buffers EXCEPT ![StoreBuf] = Cleared(@)]
      /\ fetcher' = Notified /\ calls' = UpdateCalls
      /\ storer' = [storer EXCEPT !.pc = "update"]
      /\ UNCHANGED <<tail, deleted, fetch_begin, max_ordered_idx, entries_cache_set, global_index>>
  BY DEF UpdateGlobalIdx, shardVars
<1>3. /\ Round \in Nat /\ This \in {0, 1} /\ Other \in {0, 1} /\ This # Other /\ StoreBuf = This
      /\ FetchBuf \in {0, 1} /\ storer.last \in Nat /\ fetch_begin \in Nat /\ storer.round \in Nat
  BY <1>1, <1>2, Types
<1>4. fetcher.round # Round /\ storer.last = Mid - 1
  BY <1>1, <1>2 DEF StoreInv
<1>5. Done \in Nat /\ Mid \in Nat /\ Done < Mid /\ Mid <= fetch_begin
  BY <1>1, <1>4, BatchFacts
<1>6. /\ storer'.pc = "update" /\ storer'.round = storer.round /\ storer'.last = storer.last
      /\ storer' \in [pc : {"lock", "wait", "append", "waitForAllShards",
                            "allDeletionCompleted", "update"},
                      round : Nat, base : Nat, last : Nat]
  BY <1>1, <1>2 DEF TypeOK
<1>7. /\ buffers' \in [{0, 1} -> [lock : {"none", "fetch", "store"}, empty : BOOLEAN,
                                  entries : Seq(Nat)]]
      /\ buffers'[This].entries = <<>> /\ buffers'[This].empty = TRUE
      /\ \A b \in {0, 1} \ {This} : buffers'[b] = buffers[b]
  <2>1. buffers \in [{0, 1} -> [lock : {"none", "fetch", "store"}, empty : BOOLEAN,
                                entries : Seq(Nat)]]
    BY <1>1 DEF TypeOK
  <2> DEFINE cb == Cleared(buffers[This])
  <2>2. buffers' = [buffers EXCEPT ![This] = cb]
    BY <1>2, <1>3
  <2>3. <<>> \in Seq(Nat)
    BY EmptySeq
  <2>4. /\ cb \in [lock : {"none", "fetch", "store"}, empty : BOOLEAN, entries : Seq(Nat)]
        /\ cb.entries = <<>> /\ cb.empty = TRUE
    BY <1>3, <2>1, <2>3 DEF Cleared
  <2> HIDE DEF cb
  <2> QED
    BY <1>3, <2>1, <2>2, <2>4
<1>8. /\ fetcher' \in [pc : {"lock", "wait", "fetch"}, round : Nat]
      /\ fetcher'.round = fetcher.round /\ (fetcher'.pc = "fetch" => fetcher.pc = "fetch")
  <2>1. fetcher \in [pc : {"lock", "wait", "fetch"}, round : Nat]
    BY <1>1 DEF TypeOK
  <2>2. fetcher' = fetcher \/ fetcher' = [fetcher EXCEPT !.pc = "lock"]
    BY <1>2 DEF Notified
  <2> QED
    BY <2>1, <2>2
<1>9. UpdateCalls \subseteq Calls /\ UpdateCalls' = UpdateCalls
  BY <1>3, <1>6 DEF UpdateCalls, Calls
<1>10. TypeOK'
  <2>1. \A b \in {0, 1} : buffers'[b].empty <=> buffers'[b].entries = <<>>
    <3> SUFFICES ASSUME NEW b \in {0, 1} PROVE buffers'[b].empty <=> buffers'[b].entries = <<>>
      OBVIOUS
    <3>1. CASE b = This
      BY <1>7, <3>1
    <3>2. CASE b # This
      BY <1>1, <1>7, <3>2 DEF TypeOK
    <3> QED
      BY <3>1, <3>2
  <2>2. calls' \subseteq Calls /\ max_ordered_idx' \in Nat
    BY <1>1, <1>2, <1>9 DEF TypeOK
  <2> QED
    BY <1>1, <1>2, <1>6, <1>7, <1>8, <2>1, <2>2, StoreTypes
<1>11. Round' = Round + 1 /\ This' = Other /\ Other' = This
  <2>1. Round = storer.round /\ Round' = storer.round + 1
    BY <1>2, <1>6 DEF Round
  <2>2. \A n \in Nat : (n + 1 + 1) % 2 = n % 2
    OBVIOUS
  <2> QED
    BY <1>3, <2>1, <2>2 DEF This, Other
<1>12. BufInv' /\ Done' = Mid
  <2>1. CASE fetcher.round = Round + 1
    <3>1. Mid = fetch_begin /\ buffers[Other].entries = <<>>
      BY <1>1, <2>1, BatchFacts DEF BufInv
    <3>2. Done' = Mid
      BY <1>2, <1>8, <1>11, <2>1, <3>1 DEF Done
    <3>3. buffers'[Other].entries = <<>>
      BY <1>3, <1>7, <3>1
    <3>4. fetcher'.round = Round' /\ fetcher'.round # Round' + 1 /\ fetcher'.round # Round' + 2
      BY <1>3, <1>8, <1>11, <2>1
    <3> QED
      BY <1>5, <1>7, <1>11, <3>2, <3>3, <3>4 DEF BufInv
  <2>2. CASE fetcher.round = Round + 2
    <3>1. Holds(Other, Mid, fetch_begin)
      BY <1>1, <2>2 DEF BufInv
    <3>2. buffers[Other].entries[1] = Mid
      BY <1>1, <1>3, <1>5, <3>1, HeldEntries
    <3>3. buffers'[Other].entries = buffers[Other].entries
      BY <1>3, <1>7
    <3>4. fetcher'.round = Round' + 1 /\ fetcher'.round # Round' /\ fetcher'.round # Round' + 2
      BY <1>3, <1>8, <1>11, <2>2
    <3>5. Done' = Mid
      BY <1>11, <3>2, <3>3, <3>4 DEF Done
    <3>6. Holds(This, Done, fetch_begin)'
      BY <1>2, <1>11, <3>1, <3>3, <3>5 DEF Holds
    <3> QED
      BY <1>5, <1>7, <1>11, <3>4, <3>5, <3>6 DEF BufInv
  <2> QED
    BY <1>1, <1>4, <2>1, <2>2 DEF BufInv
<1>13. FetchInv'
  <2>1. FetchBuf' = FetchBuf
    BY <1>8 DEF FetchBuf
  <2>2. fetcher'.pc = "fetch" => buffers'[FetchBuf].entries = <<>>
    BY <1>1, <1>3, <1>7, <1>8 DEF FetchInv
  <2> QED
    BY <1>1, <1>2, <2>1, <2>2 DEF FetchInv
<1>14. StoreInv'
  BY <1>2, <1>4, <1>6, <1>9, <1>12 DEF StoreInv
<1>15. \A s : Frontier(s)' = Frontier(s)
  BY <1>2, <1>6, <1>12 DEF Frontier
<1>16. ShardInv'
  BY <1>1, <1>2, <1>15 DEF ShardInv, PlacedForRead, Stored
<1>17. DeleteInv'
  <2>1. \A r \in Replicas : deleted'[r] = Mid
    BY <1>1, <1>2 DEF DeleteInv
  <2>2. \A s \in Shards : global_index'[s] = 0 \/ global_index'[s] < Mid
    <3>1. \A s \in Shards : global_index[s] \in Nat
      BY <1>1 DEF TypeOK
    <3> QED
      BY <1>1, <1>2, <1>5, <3>1 DEF DeleteInv
  <2> QED
    BY <1>6, <1>12, <2>1, <2>2 DEF DeleteInv
<1> QED
  BY <1>10, <1>12, <1>13, <1>14, <1>16, <1>17 DEF IInv

\* The shards have answered: the store thread leaves the buffer.
LEMMA StoreReturnStep ==
    ASSUME IInv, StoreReturn
    PROVE  IInv'
<1>1. TypeOK /\ BufInv /\ FetchInv /\ StoreInv /\ ShardInv /\ DeleteInv
  BY DEF IInv
<1>2. /\ storer.pc = "update" /\ calls = {}
      /\ buffers' = [buffers EXCEPT ![StoreBuf].lock = "none"]
      /\ storer' = [storer EXCEPT !.pc = "lock", !.round = @ + 1]
      /\ UNCHANGED <<tail, deleted, fetcher, fetch_begin, calls, max_ordered_idx,
                     entries_cache_set, global_index>>
  BY DEF StoreReturn, shardVars
<1>3. StoreBuf \in {0, 1} /\ storer.round \in Nat /\ FetchBuf \in {0, 1}
  BY <1>1, Types
<1>4. /\ storer'.pc = "lock" /\ storer'.round = storer.round + 1
      /\ storer' \in [pc : {"lock", "wait", "append", "waitForAllShards",
                            "allDeletionCompleted", "update"},
                      round : Nat, base : Nat, last : Nat]
  <2>1. storer \in [pc : {"lock", "wait", "append", "waitForAllShards",
                          "allDeletionCompleted", "update"},
                    round : Nat, base : Nat, last : Nat]
    BY <1>1 DEF TypeOK
  <2>2. storer' = [storer EXCEPT !.pc = "lock", !.round = storer.round + 1]
    BY <1>2
  <2>3. storer.round + 1 \in Nat
    BY <1>3
  <2> QED
    BY <2>1, <2>2, <2>3
<1>5. /\ buffers' \in [{0, 1} -> [lock : {"none", "fetch", "store"}, empty : BOOLEAN,
                                   entries : Seq(Nat)]]
      /\ \A b \in {0, 1} : buffers'[b].entries = buffers[b].entries
                           /\ buffers'[b].empty = buffers[b].empty
  BY <1>1, <1>2, <1>3 DEF TypeOK
<1>6. TypeOK'
  <2>1. \A b \in {0, 1} : buffers'[b].empty <=> buffers'[b].entries = <<>>
    BY <1>1, <1>5 DEF TypeOK
  <2>2. /\ fetcher' \in [pc : {"lock", "wait", "fetch"}, round : Nat]
        /\ calls' \subseteq Calls /\ max_ordered_idx' \in Nat
    BY <1>1, <1>2 DEF TypeOK
  <2> QED
    BY <1>1, <1>2, <1>4, <1>5, <2>1, <2>2, StoreTypes
<1>7. Round' = Round
  BY <1>2, <1>4 DEF Round
<1>8. BufInv' /\ Done' = Done /\ Mid' = Mid /\ FetchBuf' = FetchBuf
  BY <1>1, <1>2, <1>5, <1>7, SameBatches
<1>9. FetchInv'
  BY <1>1, <1>2, <1>3, <1>5, <1>8 DEF FetchInv
<1>10. StoreInv'
  BY <1>2, <1>4 DEF StoreInv
<1>11. \A s : Frontier(s)' = Frontier(s)
  BY <1>2, <1>4, <1>8 DEF Frontier
<1>12. ShardInv'
  BY <1>1, <1>2, <1>11 DEF ShardInv, PlacedForRead, Stored
<1>13. DeleteInv'
  BY <1>1, <1>2, <1>4, <1>8 DEF DeleteInv
<1> QED
  BY <1>6, <1>8, <1>9, <1>10, <1>12, <1>13 DEF IInv

-----------------------------------------------------------------------------
(* The calls are handled *)

\* An entry is on its shard iff the stripe is long enough.
LEMMA PlacedPos ==
    ASSUME NEW idx \in Nat, NEW S \in Seq(Nat),
           \A k \in DOMAIN S : IsAt(idx % ShardNum, BaseIdx(idx), k, S[k])
    PROVE  (Pos(idx) \in DOMAIN S /\ S[Pos(idx)] = idx) <=> Pos(idx) <= Len(S)
<1> DEFINE p == Pos(idx)
           b == BaseIdx(idx)
           s == idx % ShardNum
<1>1. DOMAIN S = 1..Len(S) /\ Len(S) \in Nat
  BY LenProperties
<1>2. p \in Nat /\ p >= 1 /\ b \in Nat /\ idx = b + (p - 1) * ShardNum + s
  <2>1. /\ Pos(idx) \in 1..StripeUnit /\ BaseIdx(idx) \in Nat
        /\ idx = BaseIdx(idx) + (Pos(idx) - 1) * ShardNum + (idx % ShardNum)
    BY IdxParts
  <2>2. p \in 1..StripeUnit
    BY <2>1
  <2> HIDE DEF p
  <2>3. p \in Nat /\ p >= 1
    BY <2>2
  <2> QED
    BY <2>1, <2>3, Zenon DEF p
<1>3. p \in DOMAIN S <=> p <= Len(S)
  BY <1>1, <1>2
<1>4. ASSUME p \in DOMAIN S PROVE S[p] = idx
  <2> DEFINE e == S[p]
  <2>1. e \in Nat
    BY <1>4, ElementOfSeq, <1>1
  <2>2. e % ShardNum = s /\ BaseIdx(e) = b /\ p = Pos(e)
    BY <1>4 DEF IsAt, Pos
  <2>3. e = BaseIdx(e) + (Pos(e) - 1) * ShardNum + (e % ShardNum)
    BY <2>1, IdxParts
  <2> HIDE DEF e, p, b, s
  <2>4. e = b + (p - 1) * ShardNum + s
    BY <2>2, <2>3
  <2>5. e = idx
    BY <1>2, <2>4
  <2> QED
    BY <2>5 DEF e
<1> QED
  BY <1>3, <1>4

\* The places of the entries that follow in turn.
LEMMA PosStep ==
    ASSUME NEW i \in Nat, NEW m \in Nat, BaseIdx(i + m * ShardNum) = BaseIdx(i)
    PROVE  (i + m * ShardNum) % ShardNum = i % ShardNum /\ Pos(i + m * ShardNum) = Pos(i) + m
<1> DEFINE b == BaseIdx(i)
           d == i - b
<1>1. b \in Nat /\ b <= i
  BY IdxParts
<1>2. d \in Nat
  BY <1>1
<1>4. (d + m * ShardNum) \div ShardNum = d \div ShardNum + m
  BY <1>2, AddSteps
<1>5. (i + m * ShardNum) % ShardNum = i % ShardNum
  BY AddSteps
<1>6. d \div ShardNum \in Nat
  BY <1>2, DivMod
<1>7. Pos(i) = d \div ShardNum + 1
  BY DEF Pos
<1>8. Pos(i + m * ShardNum) = (d + m * ShardNum) \div ShardNum + 1
  <2> DEFINE j == i + m * ShardNum
  <2>0. BaseIdx(j) = b
    BY Zenon
  <2>1. j - b = d + m * ShardNum
    BY <1>1
  <2> HIDE DEF j, d, b
  <2>2. Pos(j) = (d + m * ShardNum) \div ShardNum + 1
    BY <2>0, <2>1 DEF Pos
  <2> QED
    BY <2>2 DEF j
<1> HIDE DEF d, b
<1>9. Pos(i + m * ShardNum) = Pos(i) + m
  BY <1>4, <1>6, <1>7, <1>8
<1> QED
  BY <1>5, <1>9

\* What is stored, by the frontier of the shard.
LEMMA StoredUpTo ==
    ASSUME IInv, NEW idx \in 0..(MaxLen - 1)
    PROVE  /\ idx \in Nat /\ idx % ShardNum \in Shards /\ BaseIdx(idx) \in Bases
           /\ Pos(idx) <= Len(entries_cache_set[idx % ShardNum][BaseIdx(idx)])
                 <=> idx < Frontier(idx % ShardNum)
<1> DEFINE S == entries_cache_set[idx % ShardNum][BaseIdx(idx)]
<1>1. idx \in Nat /\ idx \in 0..MaxLen
  OBVIOUS
<1>2. idx % ShardNum \in Shards /\ BaseIdx(idx) \in Bases
  BY <1>1, IdxParts DEF Bases
<1>3. S \in Seq(Nat)
  BY <1>2 DEF IInv, TypeOK
<1>4. \A k \in DOMAIN S : IsAt(idx % ShardNum, BaseIdx(idx), k, S[k])
  BY <1>2 DEF IInv, ShardInv, PlacedForRead
<1>5. Stored(idx) <=> (Pos(idx) \in DOMAIN S /\ S[Pos(idx)] = idx)
  BY DEF Stored, Pos
<1> HIDE DEF S
<1>6. (Pos(idx) \in DOMAIN S /\ S[Pos(idx)] = idx) <=> Pos(idx) <= Len(S)
  BY <1>1, <1>3, <1>4, PlacedPos
<1>7. Stored(idx) <=> idx < Frontier(idx % ShardNum)
  BY DEF IInv, ShardInv
<1>8. Pos(idx) <= Len(S) <=> idx < Frontier(idx % ShardNum)
  BY <1>5, <1>6, <1>7, Zenon
<1> QED
  BY <1>1, <1>2, <1>8 DEF S

\* The first entry of a call goes right behind what is in the stripe.
LEMMA NextPlace ==
    ASSUME IInv, storer.pc = "waitForAllShards",
           NEW first \in From..MinOf(From + ShardNum - 1, To - 1), AppendCall(first) \in calls
    PROVE  /\ BaseIdx(first) = storer.base /\ storer.base \in Bases
           /\ Pos(first) = Len(entries_cache_set[first % ShardNum][storer.base]) + 1
<1>1. /\ From \in Nat /\ To \in Nat /\ Done \in Nat /\ Mid \in Nat /\ To <= Mid /\ Mid <= MaxLen
      /\ storer.base \in Nat /\ BaseIdx(storer.base) = storer.base
      /\ \A idx \in From..(To - 1) : BaseIdx(idx) = storer.base
  BY StripeFacts
<1>2. first \in From..(From + ShardNum - 1) /\ first \in From..(To - 1) /\ first \in Nat
  BY CallFacts
<1>3. first \in 0..(MaxLen - 1) /\ BaseIdx(first) = storer.base
  BY <1>1, <1>2
<1> DEFINE s == first % ShardNum
           S == entries_cache_set[s][storer.base]
<1>4. Frontier(s) = From
  <2>1. AppendCall(first).to = s
    BY DEF AppendCall
  <2> QED
    BY <2>1 DEF Frontier
<1>5. storer.base \in Bases /\ s \in Shards /\ ~(Pos(first) <= Len(S))
  BY <1>1, <1>2, <1>3, <1>4, StoredUpTo
<1>6. S \in Seq(Nat) /\ Len(S) \in Nat
  BY <1>5, LenProperties DEF IInv, TypeOK
<1>7. Pos(first) \in 1..StripeUnit /\ first = storer.base + (Pos(first) - 1) * ShardNum + s
  BY <1>2, <1>3, IdxParts
<1>8. Pos(first) - 1 <= Len(S)
  <2>1. CASE Pos(first) = 1
    BY <1>6, <2>1
  <2>2. CASE Pos(first) # 1
    <3> DEFINE p == Pos(first) - 1
               i == storer.base + (p - 1) * ShardNum + s
    <3>1. p \in 1..StripeUnit
      BY <1>7, <2>2
    <3>2. i \in Nat /\ BaseIdx(i) = storer.base /\ Pos(i) = p /\ i % ShardNum = s
      <4> DEFINE b == storer.base
      <4>1. b \in Nat /\ BaseIdx(b) = b /\ s \in Shards /\ i = b + (p - 1) * ShardNum + s
        BY <1>1, <1>5
      <4> HIDE DEF b, s, p, i
      <4>2. i \in Nat /\ BaseIdx(i) = b /\ Pos(i) = p /\ i % ShardNum = s
        BY <3>1, <4>1, PartsIdx
      <4> QED
        BY <4>2 DEF b
    <3>3. i = first - ShardNum
      <4>1. s \in Nat
        BY <1>5 DEF Shards
      <4>2. (p - 1) * ShardNum = p * ShardNum - ShardNum
        BY <3>1
      <4>3. p * ShardNum \in Nat
        BY <3>1
      <4>4. first = storer.base + p * ShardNum + s
        BY <1>7
      <4> HIDE DEF s, p
      <4> QED
        BY <1>1, <4>1, <4>2, <4>3, <4>4
    <3> HIDE DEF i, p, s
    <3>4. i \in 0..(MaxLen - 1) /\ i < From
      BY <1>1, <1>2, <1>3, <3>2, <3>3
    <3>5. Pos(i) <= Len(entries_cache_set[i % ShardNum][BaseIdx(i)])
             <=> i < Frontier(i % ShardNum)
      BY <3>4, StoredUpTo
    <3> QED
      BY <1>4, <3>2, <3>4, <3>5 DEF p, s
  <2> QED
    BY <2>1, <2>2
<1>9. Pos(first) = Len(S) + 1
  <2>1. \A p, n \in Nat : ~(p <= n) /\ p - 1 <= n => p = n + 1
    OBVIOUS
  <2>2. Pos(first) \in Nat
    BY <1>7
  <2> HIDE DEF S
  <2> QED
    BY <1>5, <1>6, <1>8, <2>1, <2>2
<1> QED
  BY <1>3, <1>5, <1>9

\* Which entries the stripe has room for when the call is handled.
LEMMA LastPlace ==
    ASSUME NEW first \in Nat, NEW t \in Nat, first < t, NEW idx \in Nat, NEW n \in Nat,
           BaseIdx(idx) = BaseIdx(first), idx % ShardNum = first % ShardNum,
           n = Pos(first) - 1 + ((t - 1 - first) \div ShardNum + 1)
    PROVE  Pos(idx) <= n <=> idx < t
<1> DEFINE d == t - 1 - first
           q == d \div ShardNum
           z == Pos(idx) - Pos(first)
<1>1. d \in Nat
  OBVIOUS
<1>2. q \in Nat
  BY <1>1, DivMod
<1>3. Pos(idx) \in Int /\ Pos(first) \in Int
  <2>1. Pos(idx) \in 1..StripeUnit /\ Pos(first) \in 1..StripeUnit
    BY IdxParts
  <2> QED
    BY <2>1
<1>4. z * ShardNum = idx - first
  <2>1. /\ idx = BaseIdx(idx) + (Pos(idx) - 1) * ShardNum + (idx % ShardNum)
        /\ first = BaseIdx(first) + (Pos(first) - 1) * ShardNum + (first % ShardNum)
        /\ BaseIdx(first) \in Nat /\ first % ShardNum \in Shards
    BY IdxParts
  <2>2. first % ShardNum \in Int
    BY <2>1 DEF Shards
  <2>3. z * ShardNum = (Pos(idx) - 1) * ShardNum - (Pos(first) - 1) * ShardNum
    BY <1>3
  <2> DEFINE x == (Pos(idx) - 1) * ShardNum
             y == (Pos(first) - 1) * ShardNum
             b == BaseIdx(first)
             s == first % ShardNum
  <2>4. x \in Int /\ y \in Int /\ b \in Int /\ s \in Int /\ idx = b + x + s /\ first = b + y + s
    BY <1>3, <2>1, <2>2
  <2> HIDE DEF x, y, b, s, z
  <2>5. z * ShardNum = x - y
    BY <2>3 DEF x, y
  <2> QED
    BY <2>4, <2>5
<1>5. z \in Int
  BY <1>3
<1>6. z <= q <=> z * ShardNum <= d
  BY <1>1, <1>5, StepsBelow
<1>7. z * ShardNum <= d <=> idx < t
  BY <1>4
<1>8. Pos(idx) <= n <=> z <= q
  BY <1>2, <1>3
<1> QED
  BY <1>6, <1>7, <1>8, Zenon

\* A shard takes the entries of a call.
LEMMA HandleAppendStep ==
    ASSUME IInv, NEW c \in calls, HandleAppend(c)
    PROVE  IInv'
<1>1. TypeOK /\ BufInv /\ FetchInv /\ StoreInv /\ ShardInv /\ DeleteInv
  BY DEF IInv
<1>2. /\ c.op = "append" /\ calls' = calls \ {c}
      /\ entries_cache_set' = [entries_cache_set EXCEPT ![c.to][BaseIdx(c.arg[1])] = @ \o c.arg]
      /\ UNCHANGED <<tail, deleted, buffers, fetcher, fetch_begin, storer,
                     max_ordered_idx, global_index>>
  BY DEF HandleAppend
<1>3. storer.pc = "waitForAllShards"
  <2>1. storer.pc \in {"lock", "wait", "append", "waitForAllShards",
                       "allDeletionCompleted", "update"}
    BY <1>1 DEF TypeOK
  <2>2. storer.pc \notin {"lock", "wait", "append"}
    BY <1>1 DEF StoreInv
  <2>3. storer.pc # "allDeletionCompleted"
    BY <1>1, <1>2 DEF StoreInv
  <2>4. storer.pc # "update"
    BY <1>1, <1>2 DEF StoreInv, UpdateCalls
  <2> QED
    BY <2>1, <2>2, <2>3, <2>4
<1> DEFINE Firsts == From..MinOf(From + ShardNum - 1, To - 1)
<1>4. calls \subseteq {AppendCall(f) : f \in Firsts}
  BY <1>1, <1>3 DEF StoreInv
<1>5. PICK first \in Firsts : c = AppendCall(first)
  BY <1>4
<1> DEFINE s == first % ShardNum
           b == storer.base
           S == entries_cache_set[s][b]
           es == PartFrom(first)
           T == S \o es
<1>6. /\ first \in From..(From + ShardNum - 1) /\ first \in From..(To - 1) /\ first \in Nat
      /\ s \in Shards /\ es \in Seq(Nat) /\ es[1] = first
      /\ Len(es) = (To - 1 - first) \div ShardNum + 1
      /\ \A k \in 1..Len(es) : /\ es[k] = first + (k - 1) * ShardNum
                               /\ (k - 1) * ShardNum \in Nat /\ es[k] \in first..(To - 1)
  BY <1>3, CallFacts
<1>7. /\ From \in Nat /\ To \in Nat /\ From < To /\ To <= Mid /\ Mid <= MaxLen /\ Mid \in Nat
      /\ b \in Nat /\ \A idx \in From..(To - 1) : BaseIdx(idx) = b
  BY <1>3, StripeFacts
<1>8. BaseIdx(first) = b /\ b \in Bases /\ Pos(first) = Len(S) + 1
  BY <1>3, <1>5, NextPlace
<1>9. c.to = s /\ c.arg = es
  BY <1>5 DEF AppendCall
<1>10. S \in Seq(Nat)
  BY <1>1, <1>6, <1>8 DEF TypeOK
<1>11. /\ T \in Seq(Nat) /\ Len(T) = Len(S) + Len(es) /\ Len(S) \in Nat /\ Len(es) \in Nat
       /\ DOMAIN T = 1..Len(T) /\ DOMAIN S = 1..Len(S)
       /\ \A k \in 1..(Len(S) + Len(es)) : T[k] = IF k <= Len(S) THEN S[k] ELSE es[k - Len(S)]
  <2> HIDE DEF S, es
  <2>1. /\ T \in Seq(Nat) /\ Len(T) = Len(S) + Len(es)
        /\ \A k \in 1..(Len(S) + Len(es)) : T[k] = IF k <= Len(S) THEN S[k] ELSE es[k - Len(S)]
    BY <1>6, <1>10, ConcatProperties
  <2> HIDE DEF T
  <2>2. /\ Len(S) \in Nat /\ Len(es) \in Nat /\ DOMAIN T = 1..Len(T) /\ DOMAIN S = 1..Len(S)
    BY <1>6, <1>10, <2>1, LenProperties
  <2> QED
    BY <2>1, <2>2
<1> HIDE DEF s, b, S, es, T
<1>12. entries_cache_set' = [entries_cache_set EXCEPT ![s][b] = T]
  <2>1. BaseIdx(c.arg[1]) = b
    BY <1>6, <1>8, <1>9
  <2>2. entries_cache_set' = [entries_cache_set EXCEPT ![s][b] = @ \o es]
    BY <1>2, <1>9, <2>1
  <2>3. entries_cache_set \in [Shards -> [Bases -> Seq(Nat)]]
    BY <1>1 DEF TypeOK
  <2> QED
    BY <1>6, <1>8, <2>2, <2>3 DEF T, S
<1>13. /\ entries_cache_set' \in [Shards -> [Bases -> Seq(Nat)]]
       /\ entries_cache_set'[s][b] = T
       /\ \A s2 \in Shards, b2 \in Bases :
             s2 # s \/ b2 # b => entries_cache_set'[s2][b2] = entries_cache_set[s2][b2]
  <2>1. entries_cache_set \in [Shards -> [Bases -> Seq(Nat)]]
    BY <1>1 DEF TypeOK
  <2> QED
    BY <1>6, <1>8, <1>11, <1>12, <2>1
<1>14. TypeOK'
  <2>1. Calls' = Calls /\ Shards' = Shards /\ Bases' = Bases
    BY DEF Calls, Shards, Bases
  <2> QED
    BY <1>1, <1>2, <1>13, <2>1 DEF TypeOK
<1>15. \A k \in DOMAIN T : IsAt(s, b, k, T[k])
  <2> SUFFICES ASSUME NEW k \in DOMAIN T PROVE IsAt(s, b, k, T[k])
    OBVIOUS
  <2>1. k \in 1..(Len(S) + Len(es)) /\ k \in Nat
    BY <1>11
  <2>2. CASE k <= Len(S)
    <3>1. T[k] = S[k] /\ k \in DOMAIN S
      BY <1>11, <2>1, <2>2
    <3>2. IsAt(s, b, k, S[k])
      BY <1>1, <1>6, <1>8, <3>1 DEF ShardInv, PlacedForRead, S
    <3> QED
      BY <3>1, <3>2
  <2>3. CASE ~(k <= Len(S))
    <3> DEFINE j == k - Len(S)
               m == j - 1
               e == first + m * ShardNum
    <3>1. j \in 1..Len(es) /\ T[k] = es[j] /\ m \in Nat
      BY <1>11, <2>1, <2>3
    <3>2. T[k] = e /\ es[j] \in first..(To - 1)
      BY <1>6, <3>1
    <3>3. e \in From..(To - 1)
      BY <1>6, <1>7, <3>1, <3>2
    <3>4. BaseIdx(e) = b
      BY <1>7, <3>3
    <3>5. e % ShardNum = first % ShardNum /\ Pos(e) = Pos(first) + m
      <4> HIDE DEF m
      <4>1. BaseIdx(first + m * ShardNum) = BaseIdx(first)
        BY <1>8, <3>4, Zenon
      <4>2. /\ (first + m * ShardNum) % ShardNum = first % ShardNum
            /\ Pos(first + m * ShardNum) = Pos(first) + m
        BY <1>6, <3>1, <4>1, PosStep, Zenon
      <4> QED
        BY <4>2, Zenon
    <3>6. Pos(e) = k
      <4>1. \A x, y \in Nat : y + 1 + (x - y - 1) = x
        OBVIOUS
      <4> QED
        BY <1>8, <1>11, <2>1, <3>5, <4>1
    <3> HIDE DEF e
    <3> QED
      BY <3>2, <3>4, <3>5, <3>6 DEF IsAt, Pos, s
  <2> QED
    BY <2>2, <2>3
<1>16. PlacedForRead'
  <2> SUFFICES ASSUME NEW s2 \in Shards, NEW b2 \in Bases,
                      NEW k \in DOMAIN entries_cache_set'[s2][b2]
               PROVE  IsAt(s2, b2, k, entries_cache_set'[s2][b2][k])
    BY DEF PlacedForRead, IsAt, BaseIdx, BigStripe, Shards, Bases
  <2>1. CASE s2 = s /\ b2 = b
    BY <1>13, <1>15, <2>1
  <2>2. CASE s2 # s \/ b2 # b
    BY <1>1, <1>13, <2>2 DEF ShardInv, PlacedForRead
  <2> QED
    BY <2>1, <2>2
<1>17. Round' = Round
  BY <1>2 DEF Round
<1>18. BufInv' /\ Done' = Done /\ Mid' = Mid /\ FetchBuf' = FetchBuf
  BY <1>1, <1>2, <1>17, SameBatches
<1>19. FetchInv'
  BY <1>1, <1>2, <1>18 DEF FetchInv
<1>20. From' = From /\ To' = To
  BY <1>2, <1>18 DEF From, To
<1>21. StoreInv'
  <2>1. \A f : AppendCall(f)' = AppendCall(f)
    BY <1>20 DEF AppendCall, PartFrom
  <2>2. calls' \subseteq {AppendCall(f)' : f \in From'..MinOf(From' + ShardNum - 1, To' - 1)}
    BY <1>2, <1>4, <1>20, <2>1
  <2>3. /\ fetcher'.round # Round' /\ BaseIdx(storer.base)' = storer'.base
        /\ storer'.base < Mid' /\ Done' < storer'.base + BigStripe
    BY <1>1, <1>2, <1>3, <1>17, <1>18 DEF StoreInv, BaseIdx
  <2> QED
    BY <1>2, <1>3, <2>2, <2>3 DEF StoreInv
<1>22. ASSUME NEW x \in calls, x.to = s PROVE x = c
  <2>1. PICK f \in Firsts : x = AppendCall(f)
    BY <1>4
  <2>2. f \in From..(From + ShardNum - 1) /\ f % ShardNum = s
    BY <1>3, <1>22, <2>1, CallFacts DEF AppendCall
  <2>3. f = first
    BY <1>6, <1>7, <2>2, SameResidue DEF s
  <2> QED
    BY <1>5, <2>1, <2>3
<1>23. Frontier(s) = From /\ Frontier(s)' = To
  <2>1. \E x \in calls : x.to = s
    BY <1>9
  <2>2. ~\E x \in calls' : x.to = s
    BY <1>2, <1>22
  <2> QED
    BY <1>2, <1>3, <1>20, <2>1, <2>2 DEF Frontier
<1>24. ASSUME NEW s2, s2 # s PROVE Frontier(s2)' = Frontier(s2)
  <2>1. (\E x \in calls' : x.to = s2) <=> (\E x \in calls : x.to = s2)
    BY <1>2, <1>9, <1>24
  <2> QED
    BY <1>2, <1>3, <1>20, <2>1 DEF Frontier
<1>25. ASSUME NEW idx \in 0..(MaxLen - 1)
       PROVE  Stored(idx)' <=> idx < Frontier(idx % ShardNum)'
  <2>1. idx \in Nat /\ idx % ShardNum \in Shards /\ BaseIdx(idx) \in Bases
    BY StoredUpTo
  <2>2. Stored(idx) <=> idx < Frontier(idx % ShardNum)
    BY <1>1 DEF ShardInv
  <2>3. CASE idx % ShardNum # s
    <3>1. Stored(idx)' <=> Stored(idx)
      BY <1>13, <2>1, <2>3 DEF Stored, BaseIdx, BigStripe
    <3> QED
      BY <1>24, <2>2, <2>3, <3>1
  <2>4. CASE idx % ShardNum = s /\ BaseIdx(idx) # b
    <3>1. Stored(idx)' <=> Stored(idx)
      BY <1>13, <2>1, <2>4 DEF Stored, BaseIdx, BigStripe
    <3>2. idx \notin From..(To - 1)
      BY <1>7, <2>4
    <3>3. idx < From <=> idx < To
      BY <1>7, <2>1, <3>2
    <3> QED
      BY <1>23, <2>2, <2>4, <3>1, <3>3
  <2>5. CASE idx % ShardNum = s /\ BaseIdx(idx) = b
    <3>1. Stored(idx)' <=> (Pos(idx) \in DOMAIN T /\ T[Pos(idx)] = idx)
      BY <1>13, <2>5 DEF Stored, Pos, BaseIdx, BigStripe
    <3>2. (Pos(idx) \in DOMAIN T /\ T[Pos(idx)] = idx) <=> Pos(idx) <= Len(T)
      BY <1>11, <1>15, <2>1, <2>5, PlacedPos
    <3>3. Len(T) = Pos(first) - 1 + ((To - 1 - first) \div ShardNum + 1) /\ Len(T) \in Nat
      BY <1>6, <1>8, <1>11
    <3>4. first < To
      BY <1>6, <1>7
    <3>5. Pos(idx) <= Len(T) <=> idx < To
      BY <1>6, <1>7, <1>8, <2>1, <2>5, <3>3, <3>4, LastPlace DEF s
    <3> QED
      BY <1>23, <2>5, <3>1, <3>2, <3>5
  <2> QED
    BY <2>3, <2>4, <2>5
<1>26. ShardInv'
  BY <1>16, <1>25 DEF ShardInv
<1>27. DeleteInv'
  BY <1>1, <1>2, <1>3, <1>18 DEF DeleteInv
<1> QED
  BY <1>14, <1>18, <1>19, <1>21, <1>26, <1>27 DEF IInv

\* A call of the durability log or of UpdateGlobalIdx is answered.
LEMMA HandleOtherStep ==
    ASSUME IInv, NEW c \in calls, HandleDelete(c) \/ HandleUpdate(c)
    PROVE  IInv'
<1>1. TypeOK /\ BufInv /\ FetchInv /\ StoreInv /\ ShardInv /\ DeleteInv
  BY DEF IInv
<1>2. /\ c.op \in {"delete", "update"} /\ calls' = calls \ {c}
      /\ UNCHANGED <<tail, buffers, fetcher, fetch_begin, storer, max_ordered_idx,
                     entries_cache_set>>
      /\ c.op = "delete" => /\ deleted' = [deleted EXCEPT ![c.to] = c.arg]
                            /\ UNCHANGED global_index
      /\ c.op = "update" => /\ global_index' = [global_index EXCEPT ![c.to] = c.arg]
                            /\ UNCHANGED deleted
  BY DEF HandleDelete, HandleUpdate, shardVars
<1>3. /\ c.op = "delete" => storer.pc = "allDeletionCompleted"
      /\ c.op = "update" => storer.pc = "update"
  <2>1. storer.pc \in {"lock", "wait", "append", "waitForAllShards",
                       "allDeletionCompleted", "update"}
    BY <1>1 DEF TypeOK
  <2>2. storer.pc \notin {"lock", "wait", "append"}
    BY <1>1 DEF StoreInv
  <2>3. storer.pc = "waitForAllShards" => c.op = "append"
    BY <1>1 DEF StoreInv, AppendCall
  <2>4. storer.pc = "allDeletionCompleted" => c.op = "delete"
    BY <1>1 DEF StoreInv
  <2>5. storer.pc = "update" => c.op = "update"
    BY <1>1 DEF StoreInv, UpdateCalls
  <2> QED
    BY <1>2, <2>1, <2>2, <2>3, <2>4, <2>5
<1>4. Done \in Nat /\ Mid \in Nat /\ Done <= Mid
  BY <1>1, BatchFacts
<1>5. c.op = "delete" => c.to \in Replicas /\ c.arg = Mid /\ c = [op |-> "delete", to |-> c.to, arg |-> Mid]
  BY <1>1, <1>3 DEF StoreInv
<1>6. c.op = "update" => c.to \in Shards /\ c.arg = storer.last /\ storer.last = Done - 1
  BY <1>1, <1>3 DEF StoreInv, UpdateCalls
<1>7. storer.last \in Nat
  BY <1>1, Types
<1>8. TypeOK'
  <2>1. deleted' \in [Replicas -> Nat]
    BY <1>1, <1>2, <1>4, <1>5 DEF TypeOK
  <2>2. global_index' \in [Shards -> Nat]
    BY <1>1, <1>2, <1>6, <1>7 DEF TypeOK
  <2>3. Calls' = Calls /\ Shards' = Shards /\ Bases' = Bases
    BY DEF Calls, Shards, Bases
  <2> QED
    BY <1>1, <1>2, <2>1, <2>2, <2>3 DEF TypeOK
<1>9. Round' = Round
  BY <1>2 DEF Round
<1>10. BufInv' /\ Done' = Done /\ Mid' = Mid /\ FetchBuf' = FetchBuf
  BY <1>1, <1>2, <1>9, SameBatches
<1>11. FetchInv'
  BY <1>1, <1>2, <1>10 DEF FetchInv
<1>12. storer.pc \in {"allDeletionCompleted", "update"}
  BY <1>2, <1>3
<1>13. StoreInv'
  <2>1. UpdateCalls' = UpdateCalls
    BY <1>2 DEF UpdateCalls
  <2> QED
    BY <1>1, <1>2, <1>9, <1>10, <1>12, <2>1 DEF StoreInv
<1>14. \A s : Frontier(s)' = Frontier(s)
  BY <1>2, <1>10, <1>12 DEF Frontier
<1>15. ShardInv'
  BY <1>1, <1>2, <1>14 DEF ShardInv, PlacedForRead, Stored
<1>16. DeleteInv'
  <2>1. CASE c.op = "delete"
    <3>1. storer.pc = "allDeletionCompleted" /\ deleted' = [deleted EXCEPT ![c.to] = Mid]
      BY <1>2, <1>3, <1>5, <2>1
    <3>2. ASSUME NEW x \in calls, x.to = c.to PROVE x = c
      <4>1. x = [op |-> "delete", to |-> x.to, arg |-> Mid]
        BY <1>1, <3>1 DEF StoreInv
      <4> QED
        BY <1>5, <2>1, <3>2, <4>1
    <3>3. ASSUME NEW r \in Replicas
          PROVE  deleted'[r] = IF \A x \in calls' : x.to # r THEN Mid ELSE Done
      <4>1. CASE r = c.to
        <5>1. \A x \in calls' : x.to # r
          BY <1>2, <3>2, <4>1
        <5>2. deleted'[r] = Mid
          BY <1>1, <3>1, <4>1 DEF TypeOK
        <5> QED
          BY <5>1, <5>2
      <4>2. CASE r # c.to
        <5>1. (\A x \in calls' : x.to # r) <=> (\A x \in calls : x.to # r)
          BY <1>2, <4>2
        <5>2. deleted'[r] = deleted[r]
          BY <1>1, <3>1, <4>2 DEF TypeOK
        <5>3. deleted[r] = IF \A x \in calls : x.to # r THEN Mid ELSE Done
          BY <1>1, <3>1 DEF DeleteInv
        <5> QED
          BY <5>1, <5>2, <5>3
      <4> QED
        BY <4>1, <4>2
    <3>4. \A s \in Shards : global_index'[s] = 0 \/ global_index'[s] < Done'
      BY <1>1, <1>2, <1>10, <2>1 DEF DeleteInv
    <3> QED
      BY <1>2, <1>10, <3>1, <3>3, <3>4 DEF DeleteInv
  <2>2. CASE c.op = "update"
    <3>1. storer.pc = "update" /\ global_index' = [global_index EXCEPT ![c.to] = Done - 1]
      BY <1>2, <1>3, <1>6, <2>2
    <3>2. ASSUME NEW s \in Shards PROVE global_index'[s] = 0 \/ global_index'[s] < Done
      <4>1. CASE s = c.to
        <5>1. global_index'[s] = Done - 1
          BY <1>1, <3>1, <4>1 DEF TypeOK
        <5> QED
          BY <1>4, <5>1
      <4>2. CASE s # c.to
        <5>1. global_index'[s] = global_index[s]
          BY <1>1, <3>1, <4>2 DEF TypeOK
        <5> QED
          BY <1>1, <5>1 DEF DeleteInv
      <4> QED
        BY <4>1, <4>2
    <3>3. \A r \in Replicas : deleted'[r] = Done
      BY <1>1, <1>2, <2>2, <3>1 DEF DeleteInv
    <3> QED
      BY <1>2, <1>10, <3>1, <3>2, <3>3 DEF DeleteInv
  <2> QED
    BY <1>2, <2>1, <2>2
<1> QED
  BY <1>8, <1>10, <1>11, <1>13, <1>15, <1>16 DEF IInv

-----------------------------------------------------------------------------
(* The theorems *)

\* Every step of the two threads, of the clients and of the handlers keeps the
\* invariant.
LEMMA NextIInv == IInv /\ [Next]_vars => IInv'
<1> SUFFICES ASSUME IInv, [Next]_vars PROVE IInv'
  OBVIOUS
<1>1. CASE UNCHANGED vars
  <2>1. UNCHANGED <<tail, deleted, buffers, fetcher, fetch_begin, storer, calls,
                    max_ordered_idx, entries_cache_set, global_index>>
    BY <1>1 DEF vars, clVars, shardVars
  <2>2. TypeOK /\ BufInv /\ FetchInv /\ StoreInv /\ ShardInv /\ DeleteInv
    BY DEF IInv
  <2>3. TypeOK'
    BY <2>1, <2>2 DEF TypeOK, Calls, Shards, Bases
  <2>4. Round' = Round
    BY <2>1 DEF Round
  <2>5. BufInv' /\ Done' = Done /\ Mid' = Mid /\ FetchBuf' = FetchBuf
    BY <2>1, <2>2, <2>4, SameBatches
  <2>6. FetchInv'
    BY <2>1, <2>2, <2>5 DEF FetchInv
  <2>7. StoreInv' /\ ShardInv' /\ DeleteInv'
    BY <2>1, <2>2, <2>4, <2>5, SameStore
  <2> QED
    BY <2>3, <2>5, <2>6, <2>7 DEF IInv
<1>2. CASE AppendEntry
  BY <1>2, AppendEntryStep
<1>3. CASE FetchStep \/ SpuriousWake
  BY <1>3, FetchLockStep, FetchEntriesStep DEF FetchStep
<1>4. CASE StoreStep
  BY <1>4, WaitStep, LockToStoreStep, SendStripeStep, NextStripeStep,
     DeleteOrderedEntriesStep, UpdateGlobalIdxStep, StoreReturnStep DEF StoreStep
<1>5. CASE HandleCall
  BY <1>5, HandleAppendStep, HandleOtherStep DEF HandleCall
<1> QED
  BY <1>1, <1>2, <1>3, <1>4, <1>5 DEF Next

\* The invariant holds in every behaviour of the pipeline.
THEOREM Invariance == Spec => []IInv
  BY InitIInv, NextIInv, PTL DEF Spec

\* The variables keep their types, and the flag empty_ of a buffer is right.
THEOREM TypeOKThm == Spec => []TypeOK
<1>1. IInv => TypeOK
  BY DEF IInv
<1> QED
  BY <1>1, Invariance, PTL

\* AppendBatch puts every entry where ReadEntryHandler looks for it.
THEOREM PlacedForReadThm == Spec => []PlacedForRead
<1>1. IInv => PlacedForRead
  BY DEF IInv, ShardInv
<1> QED
  BY <1>1, Invariance, PTL

\* The entries below Done are stored.
LEMMA DoneIsStored ==
    ASSUME IInv
    PROVE  /\ Done \in Nat /\ Done <= MaxLen
           /\ \A r \in Replicas : deleted[r] \in Nat /\ Done <= deleted[r]
           /\ \A idx \in Nat : idx < Done => Stored(idx)
           /\ \A r \in Replicas, idx \in Nat : idx < deleted[r] => Stored(idx)
<1>1. TypeOK /\ BufInv /\ FetchInv /\ StoreInv /\ ShardInv /\ DeleteInv
  BY DEF IInv
<1>2. /\ Done \in Nat /\ Mid \in Nat /\ Done <= Mid /\ Mid <= fetch_begin
      /\ fetch_begin \in Nat
  BY <1>1, BatchFacts, Types
<1>3. Mid <= MaxLen
  <2>1. tail \in Nat
    BY <1>1 DEF TypeOK
  <2> QED
    BY <1>1, <1>2, <2>1 DEF FetchInv
<1>4. \A s : Done <= Frontier(s) /\ Frontier(s) \in Nat
  <2> SUFFICES ASSUME NEW s PROVE Done <= Frontier(s) /\ Frontier(s) \in Nat
    OBVIOUS
  <2>1. CASE storer.pc \in {"append", "waitForAllShards"}
    <3>1. Done <= From /\ From < To /\ From \in Nat /\ To \in Nat
      BY <2>1, StripeFacts
    <3> QED
      BY <1>2, <2>1, <3>1 DEF Frontier
  <2>2. CASE storer.pc \notin {"append", "waitForAllShards"}
    BY <1>2, <2>2 DEF Frontier
  <2> QED
    BY <2>1, <2>2
<1>5. ASSUME NEW idx \in Nat, idx < Done PROVE Stored(idx)
  <2>1. idx \in 0..(MaxLen - 1)
    BY <1>2, <1>3, <1>5
  <2>2. idx < Frontier(idx % ShardNum)
    BY <1>2, <1>4, <1>5
  <2> QED
    BY <1>1, <2>1, <2>2 DEF ShardInv
<1>6. ASSUME NEW r \in Replicas
      PROVE  /\ deleted[r] \in Nat /\ Done <= deleted[r]
             /\ \A idx \in Nat : idx < deleted[r] => Stored(idx)
  <2>1. CASE deleted[r] = Done
    BY <1>2, <1>5, <2>1
  <2>2. CASE deleted[r] = Mid /\ storer.pc = "allDeletionCompleted"
    <3>1. ASSUME NEW idx \in Nat, idx < Mid PROVE Stored(idx)
      <4>1. idx \in 0..(MaxLen - 1) /\ idx < Frontier(idx % ShardNum)
        BY <1>2, <1>3, <2>2, <3>1 DEF Frontier
      <4> QED
        BY <1>1, <4>1 DEF ShardInv
    <3> QED
      BY <1>2, <2>2, <3>1
  <2> QED
    BY <1>1, <2>1, <2>2 DEF DeleteInv
<1> QED
  BY <1>2, <1>3, <1>5, <1>6

\* A replica deletes an entry only when it is on its shard: the store thread
\* sends no delete before all the shards have answered.
THEOREM DeletedIsStoredThm == Spec => []DeletedIsStored
<1>1. IInv => DeletedIsStored
  <2> SUFFICES ASSUME IInv, NEW r \in Replicas, NEW idx \in 0..(deleted[r] - 1) PROVE Stored(idx)
    BY DEF DeletedIsStored
  <2>1. deleted[r] \in Nat
    BY DoneIsStored
  <2>2. idx \in Nat /\ idx < deleted[r]
    BY <2>1
  <2> QED
    BY <2>2, DoneIsStored
<1> QED
  BY <1>1, Invariance, PTL

\* All that a shard may read is stored, and gone from every replica.
THEOREM GlobalIsStoredThm == Spec => []GlobalIsStored
<1>1. IInv => GlobalIsStored
  <2> SUFFICES ASSUME IInv, NEW s \in Shards, global_index[s] > 0, NEW idx \in 0..global_index[s]
               PROVE  Stored(idx) /\ \A r \in Replicas : idx < deleted[r]
    BY DEF GlobalIsStored
  <2>1. global_index[s] \in Nat /\ (global_index[s] = 0 \/ global_index[s] < Done)
    BY DEF IInv, TypeOK, DeleteInv
  <2>2. Done \in Nat /\ \A r \in Replicas : deleted[r] \in Nat /\ Done <= deleted[r]
    BY DoneIsStored
  <2>3. idx \in Nat /\ idx < Done
    BY <2>1, <2>2
  <2>4. Stored(idx)
    BY <2>3, DoneIsStored
  <2>5. \A r \in Replicas : idx < deleted[r]
    BY <2>2, <2>3
  <2> QED
    BY <2>4, <2>5
<1> QED
  BY <1>1, Invariance, PTL

-----------------------------------------------------------------------------
(* The queue of batches *)

\* The batches that the refinement mapping sees, and what they are made of.
QBatches  == [k \in 1..(fetcher.round - OldestRound) |-> BatchIn(OldestRound + k - 1)]
BatchOf(es) == [first |-> es[1], last |-> es[Len(es)]]
Intervals == [first : Nat, last : Nat]

\* The batch of a round is the interval that its buffer holds.
LEMMA HeldBatch ==
    ASSUME NEW es \in Seq(Nat), NEW lo \in Nat, NEW n \in Nat, n >= 1,
           es = [k \in 1..n |-> lo + k - 1]
    PROVE  /\ es[1] = lo /\ es[Len(es)] = lo + n - 1 /\ Len(es) = n
           /\ [first |-> es[1], last |-> es[Len(es)]] = [first |-> lo, last |-> lo + n - 1]
           /\ [first |-> lo, last |-> lo + n - 1] \in Intervals
<1>1. DOMAIN es = 1..n
  OBVIOUS
<1>2. Len(es) = n
  BY <1>1, LenOf
<1>3. 1 \in 1..n /\ n \in 1..n /\ lo + 1 - 1 = lo /\ lo + n - 1 \in Nat
  OBVIOUS
<1>4. es[1] = lo /\ es[n] = lo + n - 1
  BY <1>3
<1> QED
  BY <1>2, <1>3, <1>4 DEF Intervals

\* The batches of the last two rounds of the fetch thread are the two halves
\* of what is fetched and not yet stored.
LEMMA RoundBatches ==
    ASSUME IInv
    PROVE  /\ fetcher.round # Round =>
                /\ BatchIn(Round) = [first |-> Done, last |-> Mid - 1]
                /\ BatchIn(Round) \in Intervals
           /\ fetcher.round = Round + 2 => BatchIn(Round + 1) \in Intervals
<1>1. TypeOK /\ BufInv
  BY DEF IInv
<1>2. /\ This \in {0, 1} /\ Other \in {0, 1} /\ fetch_begin \in Nat
      /\ buffers[This].entries \in Seq(Nat) /\ buffers[Other].entries \in Seq(Nat)
  BY <1>1, Types
<1>3. Done \in Nat /\ Mid \in Nat /\ Mid <= fetch_begin
  BY <1>1, BatchFacts
<1>4. ASSUME fetcher.round # Round
      PROVE  /\ BatchIn(Round) = [first |-> Done, last |-> Mid - 1]
             /\ BatchIn(Round) \in Intervals
  <2> DEFINE es == buffers[This].entries
             n  == Mid - Done
  <2>1. Done < Mid /\ es = [k \in 1..n |-> Done + k - 1]
    BY <1>1, <1>4, BatchFacts DEF Holds
  <2>2. n \in Nat /\ n >= 1
    BY <1>3, <2>1
  <2>6. Done + n - 1 = Mid - 1
    BY <1>3, <2>1
  <2>3. BatchIn(Round) = [first |-> es[1], last |-> es[Len(es)]]
    BY DEF BatchIn, This
  <2> HIDE DEF es, n
  <2>4. es \in Seq(Nat)
    BY <1>2 DEF es
  <2>5. /\ [first |-> es[1], last |-> es[Len(es)]] = [first |-> Done, last |-> Done + n - 1]
        /\ [first |-> Done, last |-> Done + n - 1] \in Intervals
    BY <1>3, <2>1, <2>2, <2>4, HeldBatch
  <2> QED
    BY <2>3, <2>5, <2>6
<1>5. ASSUME fetcher.round = Round + 2 PROVE BatchIn(Round + 1) \in Intervals
  <2> DEFINE es == buffers[Other].entries
             n  == fetch_begin - Mid
  <2>1. Mid < fetch_begin /\ es = [k \in 1..n |-> Mid + k - 1]
    BY <1>1, <1>5 DEF BufInv, Holds
  <2>2. n \in Nat /\ n >= 1
    BY <1>2, <1>3, <2>1
  <2>3. BatchIn(Round + 1) = [first |-> es[1], last |-> es[Len(es)]]
    BY Zenon DEF BatchIn, Other
  <2> HIDE DEF es, n
  <2>4. es \in Seq(Nat)
    BY <1>2 DEF es
  <2>5. /\ [first |-> es[1], last |-> es[Len(es)]] = [first |-> Mid, last |-> Mid + n - 1]
        /\ [first |-> Mid, last |-> Mid + n - 1] \in Intervals
    BY <1>3, <2>1, <2>2, <2>4, HeldBatch
  <2> QED
    BY <2>3, <2>5
<1> QED
  BY <1>4, <1>5

\* The queue holds the rounds from the oldest one to that of the fetch thread.
LEMMA QueueFacts ==
    ASSUME IInv
    PROVE  /\ OldestRound \in Nat /\ fetcher.round \in Nat /\ Round \in Nat
           /\ OldestRound \in {Round, Round + 1} /\ OldestRound <= fetcher.round
           /\ fetcher.round <= Round + 2 /\ Round <= fetcher.round
           /\ \A r \in Nat : OldestRound <= r /\ r < fetcher.round => BatchIn(r) \in Intervals
<1>1. TypeOK /\ BufInv /\ StoreInv
  BY DEF IInv
<1>2. Round \in Nat /\ storer.round \in Nat /\ fetcher.round \in Nat
  BY <1>1, Types
<1>3. fetcher.round \in {Round, Round + 1, Round + 2}
  BY <1>1 DEF BufInv
<1>4. \/ OldestRound = Round
      \/ OldestRound = Round + 1 /\ fetcher.round # Round
  BY <1>1 DEF OldestRound, Round, StoreInv
<1>5. /\ OldestRound \in Nat /\ OldestRound <= fetcher.round /\ Round <= fetcher.round
      /\ fetcher.round <= Round + 2 /\ OldestRound \in {Round, Round + 1}
  BY <1>2, <1>3, <1>4
<1>6. ASSUME NEW r \in Nat, OldestRound <= r, r < fetcher.round PROVE BatchIn(r) \in Intervals
  <2>1. \/ r = Round /\ fetcher.round # Round
        \/ r = Round + 1 /\ fetcher.round = Round + 2
    BY <1>2, <1>3, <1>4, <1>6
  <2> QED
    BY <2>1, RoundBatches
<1> QED
  BY <1>2, <1>5, <1>6

\* A sequence given by its length and its elements.
LEMMA SeqOf ==
    ASSUME NEW S, NEW n \in Nat, NEW q, q = [k \in 1..n |-> q[k]], \A k \in 1..n : q[k] \in S
    PROVE  q \in Seq(S) /\ Len(q) = n
<1>1. q \in Seq(S)
  BY IsASeq
<1>2. DOMAIN q = 1..n
  OBVIOUS
<1> QED
  BY <1>1, <1>2, LenOf

\* A function on 1..(hi - lo) into the batches is a queue of hi - lo batches.
LEMMA QueueIsSeq ==
    ASSUME NEW lo \in Nat, NEW hi \in Nat, lo <= hi, NEW q,
           q = [k \in 1..(hi - lo) |-> q[k]], \A k \in 1..(hi - lo) : q[k] \in Intervals
    PROVE  q \in Seq(Intervals) /\ Len(q) = hi - lo
<1>1. hi - lo \in Nat
  OBVIOUS
<1> QED
  BY <1>1, SeqOf

\* The queue of the refinement mapping holds the batches of the rounds from
\* the oldest one that is not deleted up to the last one fetched.
LEMMA QueueSeq ==
    ASSUME IInv
    PROVE  /\ QBatches \in Seq(Intervals) /\ Len(QBatches) = fetcher.round - OldestRound
           /\ \A k \in 1..(fetcher.round - OldestRound) :
                 QBatches[k] = BatchIn(OldestRound + k - 1)
<1> DEFINE lo == OldestRound
           hi == fetcher.round
<1>1. lo \in Nat /\ hi \in Nat /\ lo <= hi
  BY QueueFacts
<1>2. QBatches = [k \in 1..(hi - lo) |-> BatchIn(lo + k - 1)]
  BY DEF QBatches
<1>3. ASSUME NEW k \in 1..(hi - lo) PROVE BatchIn(lo + k - 1) \in Intervals
  <2>1. lo + k - 1 \in Nat /\ lo <= lo + k - 1 /\ lo + k - 1 < hi
    BY <1>1
  <2> QED
    BY <2>1, QueueFacts
<1> HIDE DEF lo, hi
<1>4. /\ QBatches = [k \in 1..(hi - lo) |-> QBatches[k]]
      /\ \A k \in 1..(hi - lo) : QBatches[k] = BatchIn(lo + k - 1)
  BY <1>2
<1>5. \A k \in 1..(hi - lo) : QBatches[k] \in Intervals
  BY <1>3, <1>4
<1>6. QBatches \in Seq(Intervals) /\ Len(QBatches) = hi - lo
  BY <1>1, <1>4, <1>5, QueueIsSeq
<1> QED
  BY <1>4, <1>6 DEF lo, hi

\* A step that keeps the rounds and the batches between them keeps the queue.
LEMMA SameQueue ==
    ASSUME IInv, fetcher'.round = fetcher.round, OldestRound' = OldestRound,
           \A r \in Nat : OldestRound <= r /\ r < fetcher.round =>
              buffers'[r % 2].entries = buffers[r % 2].entries
    PROVE  QBatches' = QBatches
<1>1. OldestRound \in Nat /\ fetcher.round \in Nat
  BY QueueFacts
<1>2. ASSUME NEW k \in 1..(fetcher.round - OldestRound)
      PROVE  BatchIn(OldestRound + k - 1)' = BatchIn(OldestRound + k - 1)
  <2> DEFINE r == OldestRound + k - 1
  <2>1. r \in Nat /\ OldestRound <= r /\ r < fetcher.round /\ r' = r
    BY <1>1
  <2> HIDE DEF r
  <2>2. buffers'[r % 2].entries = buffers[r % 2].entries
    BY <2>1
  <2>3. BatchIn(r)' = BatchIn(r)
    BY <2>1, <2>2 DEF BatchIn
  <2> QED
    BY <2>3 DEF r
<1> QED
  BY <1>2 DEF QBatches

\* The queue after a step, from the rounds and the buffers after it.
LEMMA QueueAfter ==
    ASSUME NEW lo \in Nat, NEW hi \in Nat, fetcher'.round = hi, OldestRound' = lo
    PROVE  /\ QBatches' = [k \in 1..(hi - lo) |-> QBatches'[k]]
           /\ \A k \in 1..(hi - lo) :
                 QBatches'[k] = BatchOf(buffers'[(lo + k - 1) % 2].entries)
<1>1. QBatches' = [k \in 1..(fetcher'.round - OldestRound') |->
                     BatchOf(buffers'[(OldestRound' + k - 1) % 2].entries)]
  BY Zenon DEF QBatches, BatchIn, BatchOf
<1>2. fetcher'.round - OldestRound' = hi - lo
  OBVIOUS
<1>3. QBatches' = [k \in 1..(hi - lo) |->
                     BatchOf(buffers'[(OldestRound' + k - 1) % 2].entries)]
  BY <1>1, <1>2, Zenon
<1>4. ASSUME NEW k \in 1..(hi - lo)
      PROVE  QBatches'[k] = BatchOf(buffers'[(lo + k - 1) % 2].entries)
  <2>1. QBatches'[k] = BatchOf(buffers'[(OldestRound' + k - 1) % 2].entries)
    BY <1>3, Zenon
  <2> QED
    BY <2>1, Zenon
<1>5. QBatches' = [k \in 1..(hi - lo) |-> QBatches'[k]]
  BY <1>3, Zenon
<1> QED
  BY <1>4, <1>5, Zenon

\* A fetch adds a batch to the queue.
LEMMA FetchIsTake ==
    ASSUME IInv, FetchEntries
    PROVE  Queue!Take
<1>1. PICK n \in Nat :
         /\ n >= 1 /\ n <= MaxBatch
         /\ fetch_begin' = fetch_begin + n
         /\ buffers'[FetchBuf].entries = [k \in 1..n |-> fetch_begin + k - 1]
  BY FetchEffect
<1>2. /\ fetcher' = [pc |-> "lock", round |-> fetcher.round + 1] /\ deleted' = deleted
      /\ calls' = calls /\ fetcher.round # Round + 2
      /\ \A b \in {0, 1} \ {FetchBuf} : buffers'[b] = buffers[b]
      /\ storer' = IF storer.pc = "wait" /\ storer.round % 2 = FetchBuf
                   THEN [storer EXCEPT !.pc = "lock"] ELSE storer
  BY FetchEffect
<1>3. /\ OldestRound \in Nat /\ fetcher.round \in Nat /\ Round \in Nat
      /\ OldestRound \in {Round, Round + 1} /\ OldestRound <= fetcher.round
      /\ fetcher.round <= Round + 1
  BY <1>2, QueueFacts
<1>4. OldestRound' = OldestRound
  <2>1. storer'.round = storer.round
        /\ (storer'.pc = storer.pc \/ (storer.pc = "wait" /\ storer'.pc = "lock"))
    BY <1>2 DEF IInv, TypeOK
  <2> QED
    BY <1>2, <2>1 DEF OldestRound
<1>5. FetchBuf \in {0, 1} /\ fetch_begin \in Nat
  BY Types DEF IInv
<1> DEFINE e == [first |-> fetch_begin, last |-> fetch_begin + n - 1]
           lo == OldestRound
           hi == fetcher.round
<1>6. BatchOf(buffers'[hi % 2].entries) = e /\ e \in Intervals
  <2> DEFINE es == buffers'[FetchBuf].entries
  <2>1. es \in Seq(Nat)
    BY <1>5, FetchEffect
  <2>2. es = [k \in 1..n |-> fetch_begin + k - 1]
    BY <1>1
  <2> DEFINE b == fetch_begin
  <2>6. b \in Nat /\ n \in Nat /\ n >= 1 /\ es = [k \in 1..n |-> b + k - 1]
    BY <1>1, <1>5, <2>2
  <2> HIDE DEF es, b
  <2>7. /\ [first |-> es[1], last |-> es[Len(es)]] = [first |-> b, last |-> b + n - 1]
        /\ [first |-> b, last |-> b + n - 1] \in Intervals
    <3>1. es[1] = b /\ es[Len(es)] = b + n - 1
      BY <2>1, <2>6, HeldBatch
    <3>2. b + n - 1 \in Nat
      BY <2>6
    <3> QED
      BY <2>6, <3>1, <3>2, Zenon DEF Intervals
  <2>3. BatchOf(es) = e /\ e \in Intervals
    BY <2>7 DEF b, BatchOf
  <2>4. FetchBuf = hi % 2
    BY DEF FetchBuf
  <2>5. BatchOf(buffers'[FetchBuf].entries) = e /\ e \in Intervals
    BY <2>3 DEF es
  <2> HIDE DEF e, hi
  <2> QED
    BY <2>4, <2>5, Zenon
<1>7. /\ QBatches' = [k \in 1..(hi + 1 - lo) |-> QBatches'[k]]
      /\ \A k \in 1..(hi + 1 - lo) :
            QBatches'[k] = BatchOf(buffers'[(lo + k - 1) % 2].entries)
  <2> DEFINE h == hi + 1
  <2>1. fetcher'.round = h /\ OldestRound' = lo /\ lo \in Nat /\ h \in Nat
    BY <1>2, <1>3, <1>4
  <2> HIDE DEF lo, h
  <2>2. /\ QBatches' = [k \in 1..(h - lo) |-> QBatches'[k]]
        /\ \A k \in 1..(h - lo) : QBatches'[k] = BatchOf(buffers'[(lo + k - 1) % 2].entries)
    BY <2>1, QueueAfter, Zenon
  <2>3. h - lo = hi + 1 - lo
    BY <1>3, <2>1 DEF h
  <2> HIDE DEF hi
  <2> QED
    BY <2>2, <2>3
<1>8. /\ QBatches \in Seq(Intervals) /\ Len(QBatches) = hi - lo
      /\ \A k \in 1..(hi - lo) : QBatches[k] = BatchIn(lo + k - 1)
  BY QueueSeq
<1> HIDE DEF lo, hi, e
<1>9. lo \in Nat /\ hi \in Nat /\ lo <= hi /\ hi - lo \in {0, 1}
  BY <1>3 DEF lo, hi
<1>10. ASSUME NEW k \in 1..(hi - lo) PROVE QBatches'[k] = QBatches[k]
  <2>1. k = 1 /\ hi = lo + 1 /\ lo + k - 1 = lo /\ k \in 1..(hi + 1 - lo)
    BY <1>9, <1>10
  <2>2. lo % 2 \in {0, 1} /\ lo % 2 # FetchBuf
    BY <1>9, <2>1 DEF FetchBuf, hi
  <2>3. buffers'[lo % 2] = buffers[lo % 2]
    BY <1>2, <2>2
  <2>4. QBatches'[k] = BatchOf(buffers'[lo % 2].entries)
    BY <1>7, <2>1
  <2>5. QBatches[k] = BatchOf(buffers[lo % 2].entries)
    BY <1>8, <2>1 DEF BatchIn, BatchOf
  <2> QED
    BY <2>3, <2>4, <2>5
<1>11. QBatches'[hi - lo + 1] = e
  <2>1. hi - lo + 1 \in 1..(hi + 1 - lo) /\ lo + (hi - lo + 1) - 1 = hi
    BY <1>9
  <2> QED
    BY <1>6, <1>7, <2>1 DEF hi
<1>12. QBatches' = Append(QBatches, e)
  <2> DEFINE q == QBatches
             p == QBatches'
             m == hi - lo
  <2>1. m \in Nat /\ q \in Seq(Intervals) /\ Len(q) = m /\ e \in Intervals
    BY <1>6, <1>8, <1>9 DEF hi
  <2>2. p = [k \in 1..(m + 1) |-> p[k]]
    <3>1. hi + 1 - lo = m + 1
      BY <1>9
    <3> QED
      BY <1>7, <3>1
  <2>3. \A k \in 1..m : p[k] = q[k]
    BY <1>10
  <2>4. p[m + 1] = e
    BY <1>11
  <2> HIDE DEF p, q, m
  <2>5. /\ Append(q, e) \in Seq(Intervals) /\ Len(Append(q, e)) = m + 1
        /\ \A k \in 1..m : Append(q, e)[k] = q[k]
        /\ Append(q, e)[m + 1] = e
    BY <2>1, AppendProperties
  <2>6. \A k \in 1..m : q[k] \in Intervals
    BY <2>1, ElementOfSeq
  <2>7. \A k \in 1..(m + 1) : k \in 1..m \/ k = m + 1
    BY <2>1
  <2>8. p \in Seq(Intervals) /\ Len(p) = m + 1
    <3>1. m + 1 \in Nat /\ \A k \in 1..(m + 1) : p[k] \in Intervals
      BY <2>1, <2>3, <2>4, <2>6, <2>7
    <3> QED
      BY <2>2, <3>1, SeqOf
  <2>9. \A k \in 1..(m + 1) : p[k] = Append(q, e)[k]
    BY <2>3, <2>4, <2>5, <2>7
  <2> QED
    BY <2>5, <2>8, <2>9, SeqEqual DEF p, q
<1>13. n \in 1..MaxBatch /\ Len(QBatches) < 2
  BY <1>1, <1>8, <1>9
<1> QED
  BY <1>1, <1>2, <1>12, <1>13 DEF Queue!Take, QBatches, e

\* The primary deletes the oldest batch.
LEMMA PrimaryIsDelete ==
    ASSUME IInv, NEW c \in calls, HandleDelete(c), c.to = Primary
    PROVE  Queue!Delete
<1>1. TypeOK /\ BufInv /\ StoreInv
  BY DEF IInv
<1>2. /\ c.op = "delete" /\ deleted' = [deleted EXCEPT ![Primary] = c.arg]
      /\ calls' = calls \ {c}
      /\ UNCHANGED <<buffers, fetcher, fetch_begin, storer>>
  BY DEF HandleDelete
<1>3. storer.pc = "allDeletionCompleted"
  <2>1. storer.pc \in {"lock", "wait", "append", "waitForAllShards",
                       "allDeletionCompleted", "update"}
    BY <1>1 DEF TypeOK
  <2>2. storer.pc \notin {"lock", "wait", "append"}
    BY <1>1 DEF StoreInv
  <2>3. storer.pc = "waitForAllShards" => c.op = "append"
    BY <1>1 DEF StoreInv, AppendCall
  <2>4. storer.pc = "update" => c.op = "update"
    BY <1>1 DEF StoreInv, UpdateCalls
  <2> QED
    BY <1>2, <2>1, <2>2, <2>3, <2>4
<1>4. /\ fetcher.round # Round /\ calls \subseteq {[op |-> "delete", to |-> r, arg |-> Mid] : r \in Replicas}
  BY <1>1, <1>3 DEF StoreInv
<1>5. deleted'[Primary] = Mid
  BY <1>1, <1>2, <1>4 DEF TypeOK
<1>6. OldestRound = Round /\ OldestRound' = Round + 1
  <2>1. \A x \in calls' : x.to # Primary
    <3> SUFFICES ASSUME NEW x \in calls, x.to = Primary PROVE x = c
      BY <1>2
    <3>1. /\ x = [op |-> "delete", to |-> x.to, arg |-> Mid]
          /\ c = [op |-> "delete", to |-> c.to, arg |-> Mid]
      BY <1>4
    <3> QED
      BY <3>1
  <2>2. Round = storer.round
    BY <1>3 DEF Round
  <2>3. OldestRound = storer.round
    BY <1>3 DEF OldestRound
  <2>4. OldestRound' = storer.round + 1
    BY <1>2, <1>3, <2>1 DEF OldestRound
  <2> QED
    BY <2>2, <2>3, <2>4
<1> DEFINE lo == Round
           l1 == lo + 1
           hi == fetcher.round
           q  == QBatches
           p  == QBatches'
<1>7. lo \in Nat /\ hi \in Nat /\ l1 \in Nat /\ l1 <= hi /\ l1 = lo + 1
  BY <1>4, QueueFacts
<1>8. /\ q \in Seq(Intervals) /\ Len(q) = hi - lo
      /\ \A k \in 1..(hi - lo) : q[k] = BatchIn(lo + k - 1)
  BY <1>6, QueueSeq
<1>9. /\ p = [k \in 1..(hi - l1) |-> p[k]]
      /\ \A k \in 1..(hi - l1) : p[k] = BatchOf(buffers'[(l1 + k - 1) % 2].entries)
  <2>1. fetcher'.round = hi /\ OldestRound' = l1
    BY <1>2, <1>6
  <2> HIDE DEF l1, hi
  <2> QED
    BY <1>7, <2>1, QueueAfter
<1>10. BatchIn(Round) = [first |-> Done, last |-> Mid - 1] /\ Mid \in Nat
  BY <1>1, <1>4, RoundBatches, BatchFacts
<1> HIDE DEF lo, l1, hi, q, p
<1>11. /\ q # <<>> /\ Tail(q) \in Seq(Intervals) /\ Len(Tail(q)) = hi - l1
       /\ \A k \in 1..(hi - l1) : Tail(q)[k] = q[k + 1]
  <2>1. hi - lo >= 1 /\ hi - lo - 1 = hi - l1
    BY <1>7
  <2>2. q # <<>>
    BY <1>8, <2>1, EmptySeq
  <2> QED
    BY <1>8, <2>1, <2>2, HeadTailProperties
<1>12. ASSUME NEW k \in 1..(hi - l1) PROVE p[k] = q[k + 1]
  <2>1. k + 1 \in 1..(hi - lo) /\ lo + (k + 1) - 1 = l1 + k - 1
    BY <1>7
  <2>2. q[k + 1] = BatchIn(l1 + k - 1)
    BY <1>8, <2>1
  <2>3. BatchIn(l1 + k - 1) = BatchOf(buffers[(l1 + k - 1) % 2].entries)
    BY Zenon DEF BatchIn, BatchOf
  <2>4. p[k] = BatchOf(buffers[(l1 + k - 1) % 2].entries)
    BY <1>2, <1>9
  <2> QED
    BY <2>2, <2>3, <2>4
<1>13. p = Tail(q)
  <2> DEFINE n == hi - l1
  <2>1. n \in Nat
    BY <1>7
  <2>2. /\ p = [k \in 1..n |-> p[k]] /\ Tail(q) \in Seq(Intervals) /\ Len(Tail(q)) = n
        /\ \A k \in 1..n : p[k] = Tail(q)[k]
    BY <1>9, <1>11, <1>12
  <2> HIDE DEF n
  <2>3. \A k \in 1..n : Tail(q)[k] \in Intervals
    BY <2>2, ElementOfSeq
  <2>4. \A k \in 1..n : p[k] \in Intervals
    BY <2>2, <2>3
  <2>5. p \in Seq(Intervals) /\ Len(p) = n
    BY <2>1, <2>2, <2>4, SeqOf
  <2> QED
    BY <2>2, <2>5, SeqEqual
<1>14. Head(q).last + 1 = Mid
  <2>1. 1 \in 1..(hi - lo) /\ lo + 1 - 1 = lo
    BY <1>7
  <2>2. q[1] = [first |-> Done, last |-> Mid - 1]
    BY <1>8, <1>10, <2>1 DEF lo
  <2>3. Head(q) = q[1]
    BY <1>8, <1>11
  <2> QED
    BY <1>10, <2>2, <2>3
<1> QED
  BY <1>2, <1>5, <1>11, <1>13, <1>14 DEF Queue!Delete, QBatches, q, p

\* Every step is a step of the queue or leaves it alone.
LEMMA NextIsQueueStep ==
    ASSUME IInv, [Next]_vars
    PROVE  Queue!Next \/ UNCHANGED <<fetch_begin, deleted[Primary], QBatches>>
<1>1. TypeOK /\ BufInv /\ StoreInv
  BY DEF IInv
<1> DEFINE Same == /\ fetch_begin' = fetch_begin /\ deleted' = deleted
                   /\ fetcher'.round = fetcher.round
                   /\ \A b \in {0, 1} : buffers'[b].entries = buffers[b].entries
<1>2. ASSUME Same, OldestRound' = OldestRound
      PROVE  UNCHANGED <<fetch_begin, deleted[Primary], QBatches>>
  <2>1. \A r \in Nat : r % 2 \in {0, 1}
    OBVIOUS
  <2>2. QBatches' = QBatches
    BY <1>2, <2>1, SameQueue
  <2> QED
    BY <1>2, <2>2
<1>3. /\ StoreBuf \in {0, 1} /\ FetchBuf \in {0, 1} /\ storer.round \in Nat
  BY <1>1, Types
<1>4. CASE UNCHANGED vars \/ AppendEntry \/ SpuriousWake
  <2>1. UNCHANGED <<deleted, buffers, fetch_begin, storer, calls>> /\ fetcher'.round = fetcher.round
    BY <1>1, <1>4 DEF vars, AppendEntry, SpuriousWake, clVars, TypeOK
  <2>2. OldestRound' = OldestRound
    BY <2>1 DEF OldestRound
  <2> QED
    BY <1>2, <2>1, <2>2
<1>5. CASE LockToFetch \/ FetchNothing
  <2>1. UNCHANGED <<deleted, fetch_begin, storer, calls>>
    BY <1>5 DEF LockToFetch, FetchNothing
  <2>2. OldestRound' = OldestRound
    BY <2>1 DEF OldestRound
  <2>3. fetcher'.round = fetcher.round
    BY <1>1, <1>5 DEF LockToFetch, FetchNothing, TypeOK
  <2>4. \A b \in {0, 1} : buffers'[b].entries = buffers[b].entries
    BY <1>1, <1>3, <1>5 DEF LockToFetch, FetchNothing, TypeOK
  <2> QED
    BY <1>2, <2>1, <2>2, <2>3, <2>4
<1>6. CASE FetchEntries
  BY <1>6, FetchIsTake DEF Queue!Next
<1>7. CASE StoreStep
  <2>1. CASE UpdateGlobalIdx
    <3>1. /\ storer.pc = "allDeletionCompleted" /\ calls = {}
          /\ buffers' = [buffers EXCEPT ![StoreBuf] = Cleared(@)] /\ fetcher' = Notified
          /\ storer' = [storer EXCEPT !.pc = "update"]
          /\ UNCHANGED <<deleted, fetch_begin>>
      BY <2>1 DEF UpdateGlobalIdx
    <3>2. OldestRound = storer.round + 1 /\ OldestRound' = storer.round + 1
      BY <1>1, <3>1 DEF OldestRound, TypeOK
    <3>3. fetcher'.round = fetcher.round
      BY <1>1, <3>1 DEF Notified, TypeOK
    <3>4. Round = storer.round /\ fetcher.round <= Round + 2 /\ fetcher.round \in Nat
      BY <3>1, QueueFacts DEF Round
    <3>5. ASSUME NEW r \in Nat, OldestRound <= r, r < fetcher.round
          PROVE  buffers'[r % 2].entries = buffers[r % 2].entries
      <4>1. r = storer.round + 1
        BY <1>3, <3>2, <3>4, <3>5
      <4>2. r % 2 \in {0, 1} /\ r % 2 # StoreBuf
        BY <1>3, <4>1 DEF StoreBuf
      <4> QED
        BY <1>1, <3>1, <4>2 DEF TypeOK
    <3>6. QBatches' = QBatches
      BY <3>2, <3>3, <3>5, SameQueue
    <3> QED
      BY <3>1, <3>6
  <2>2. CASE StoreReturn
    <3>1. /\ storer.pc = "update"
          /\ buffers' = [buffers EXCEPT ![StoreBuf].lock = "none"]
          /\ storer' = [storer EXCEPT !.pc = "lock", !.round = @ + 1]
          /\ UNCHANGED <<deleted, fetcher, fetch_begin>>
      BY <2>2 DEF StoreReturn
    <3>2. storer'.pc = "lock" /\ storer'.round = storer.round + 1
      BY <1>1, <3>1 DEF TypeOK
    <3>3. OldestRound' = OldestRound
      BY <3>1, <3>2 DEF OldestRound
    <3>4. \A b \in {0, 1} : buffers'[b].entries = buffers[b].entries
      BY <1>1, <1>3, <3>1 DEF TypeOK
    <3> QED
      BY <1>2, <3>1, <3>3, <3>4
  <2>3. CASE DeleteOrderedEntries
    <3>1. /\ storer.pc = "waitForAllShards"
          /\ calls' = calls \cup {[op |-> "delete", to |-> r, arg |-> EndIdx + 1] : r \in Replicas}
          /\ storer' = [storer EXCEPT !.pc = "allDeletionCompleted", !.last = EndIdx]
          /\ UNCHANGED <<deleted, buffers, fetcher, fetch_begin>>
      BY <2>3 DEF DeleteOrderedEntries
    <3> DEFINE d == [op |-> "delete", to |-> Primary, arg |-> EndIdx + 1]
    <3>2. d \in calls' /\ d.to = Primary
      BY <3>1
    <3>3. storer'.pc = "allDeletionCompleted" /\ storer'.round = storer.round
      BY <1>1, <3>1 DEF TypeOK
    <3> HIDE DEF d
    <3>4. OldestRound' = OldestRound
      BY <3>1, <3>2, <3>3 DEF OldestRound
    <3> QED
      BY <1>2, <3>1, <3>4
  <2>4. CASE LockToStore \/ WaitTimeout \/ SendStripe \/ NextStripe
    <3>1. /\ storer.pc \notin {"update", "allDeletionCompleted"}
          /\ storer'.pc \notin {"update", "allDeletionCompleted"}
          /\ storer'.round = storer.round /\ UNCHANGED <<deleted, fetcher, fetch_begin>>
      <4>1. CASE LockToStore
        <5>1. /\ storer.pc = "lock" /\ UNCHANGED <<deleted, fetcher, fetch_begin>>
              /\ \/ storer' = [storer EXCEPT !.pc = "wait"]
                 \/ storer' = [storer EXCEPT !.pc = "append", !.base = BaseIdx(StartIdx)]
          BY <4>1 DEF LockToStore
        <5>2. storer'.pc \in {"wait", "append"} /\ storer'.round = storer.round
          BY <1>1, <5>1 DEF TypeOK
        <5> QED
          BY <5>1, <5>2
      <4>2. CASE WaitTimeout \/ SendStripe \/ NextStripe
        BY <1>1, <4>2 DEF WaitTimeout, SendStripe, NextStripe, TypeOK
      <4> QED
        BY <2>4, <4>1, <4>2
    <3>2. OldestRound' = OldestRound
      BY <3>1 DEF OldestRound
    <3>3. \A b \in {0, 1} : buffers'[b].entries = buffers[b].entries
      <4>1. buffers' = buffers \/ buffers' = [buffers EXCEPT ![StoreBuf].lock = "store"]
        BY <2>4 DEF LockToStore, WaitTimeout, SendStripe, NextStripe
      <4>2. CASE buffers' = buffers
        BY <4>2
      <4>3. CASE buffers' = [buffers EXCEPT ![StoreBuf].lock = "store"]
        BY <1>1, <1>3, <4>3 DEF TypeOK
      <4> QED
        BY <4>1, <4>2, <4>3
    <3> QED
      BY <1>2, <3>1, <3>2, <3>3
  <2> QED
    BY <1>7, <2>1, <2>2, <2>3, <2>4 DEF StoreStep
<1>8. CASE HandleCall
  <2>1. PICK c \in calls : HandleAppend(c) \/ HandleDelete(c) \/ HandleUpdate(c)
    BY <1>8 DEF HandleCall
  <2>2. CASE HandleDelete(c) /\ c.to = Primary
    BY <2>2, PrimaryIsDelete DEF Queue!Next
  <2>3. CASE ~(HandleDelete(c) /\ c.to = Primary)
    <3>1. /\ UNCHANGED <<buffers, fetcher, fetch_begin, storer>> /\ calls' = calls \ {c}
          /\ deleted' = deleted \/ (deleted' = [deleted EXCEPT ![c.to] = c.arg] /\ c.to # Primary)
      BY <2>1, <2>3 DEF HandleAppend, HandleDelete, HandleUpdate
    <3>2. deleted'[Primary] = deleted[Primary]
      BY <1>1, <3>1 DEF TypeOK
    <3>3. OldestRound' = OldestRound
      <4>1. CASE storer.pc = "allDeletionCompleted"
        <5>1. c.op = "delete"
          BY <1>1, <4>1 DEF StoreInv
        <5>2. c.to # Primary
          BY <2>1, <2>3, <5>1 DEF HandleAppend, HandleUpdate
        <5>3. (\A x \in calls' : x.to # Primary) <=> (\A x \in calls : x.to # Primary)
          BY <3>1, <5>2
        <5> QED
          BY <3>1, <5>3 DEF OldestRound
      <4>2. CASE storer.pc # "allDeletionCompleted"
        BY <3>1, <4>2 DEF OldestRound
      <4> QED
        BY <4>1, <4>2
    <3>4. QBatches' = QBatches
      BY <3>1, <3>3, SameQueue
    <3> QED
      BY <3>1, <3>2, <3>4
  <2> QED
    BY <2>2, <2>3
<1> QED
  BY <1>4, <1>5, <1>6, <1>7, <1>8 DEF Next, FetchStep

\* Two threads, two buffers and their locks take the steps of one queue of at
\* most two batches, which are deleted in the order in which they are fetched.
THEOREM ImplementsQueueSteps == Spec => Queue!SafeSpec
<1>1. Init => Queue!Init
  <2> SUFFICES ASSUME Init PROVE Queue!Init
    OBVIOUS
  <2>1. fetch_begin = 0 /\ deleted[Primary] = 0 /\ fetcher.round = 0 /\ OldestRound = 0
    BY DEF Init, OldestRound
  <2>2. QBatches = <<>>
    BY <2>1 DEF QBatches
  <2> QED
    BY <2>1, <2>2 DEF Queue!Init, QBatches
<1>2. IInv /\ [Next]_vars => [Queue!Next]_<<fetch_begin, deleted[Primary], QBatches>>
  BY NextIsQueueStep
<1> QED
  BY <1>1, <1>2, Invariance, PTL DEF Spec, Queue!SafeSpec, Queue!vars, QBatches

=============================================================================
