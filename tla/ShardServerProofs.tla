------------------------- MODULE ShardServerProofs --------------------------
(***************************************************************************)
(* Proofs about a shard, for every number of readers and backups, every    *)
(* striping and every log in the data files at the start: a read is        *)
(* answered only when its entry is safe, the backups follow the primary,   *)
(* and the primary has on disk what it has in memory.                      *)
(***************************************************************************)
EXTENDS ShardServer, StripeTheorems, FiniteSetTheorems, SequenceTheorems

-----------------------------------------------------------------------------
(* The inductive invariant *)

Own(i)    == i \in Nat /\ i % ShardNum = ShardId
IsBase(b) == b \in Nat /\ b % BigStripe = 0

\* The k-th entry of the stripe at b, and the stripe with its first l entries.
Pos(b, k) == b + ShardId + (k - 1) * ShardNum
Row(b, l) == [k \in 1..l |-> Pos(b, k)]

\* The stripe at b has l entries when the log has all its entries below n.
Cut(b, l, n)   == \A k \in 1..StripeUnit : k <= l <=> Pos(b, k) < n
Holds(es, b, n) == \E l \in 1..StripeUnit : es = Row(b, l) /\ Cut(b, l, n)

\* The map has the entries of this shard below n and nothing else.
MapOK(map, n) ==
    /\ \A b \in DOMAIN map : IsBase(b) /\ Holds(map[b], b, n)
    /\ \A i \in Nat : Own(i) /\ i < n => BaseIdx(i) \in DOMAIN map

\* What the primary has of a stripe: in memory, or else in its data file.
Known ==
    [b \in DOMAIN entries_cache_set \cup DOMAIN files |->
        IF b \in DOMAIN entries_cache_set THEN entries_cache_set[b] ELSE files[b]]

\* How far the log has come everywhere, at the primary and at a backup.
Start      == server.batch[1]
Everywhere == IF server.pc = "idle" THEN next ELSE Start
AtPrimary  == IF server.pc = "addToEntryCache" THEN Start ELSE next
AtBackup(b) == IF b \in tokens THEN Start ELSE next

Pcs == {"idle", "addToEntryCache", "waitForBackups"}

\* A batch of n entries from the p-th of its stripe on.
BatchIs(p, n) ==
    /\ p + n <= StripeUnit + 1
    /\ server.batch = [k \in 1..n |-> Pos(server.base, p + k - 1)]
    /\ next = Pos(server.base, p + n)

\* The batch under way ends where the log of this shard ends.
ServerInv ==
    /\ server = [pc |-> server.pc, batch |-> server.batch, base |-> server.base]
    /\ server.pc \in Pcs /\ Own(next)
    /\ tokens \subseteq Backups /\ (server.pc = "idle" => tokens = {})
    /\ server.pc # "idle" =>
          IsBase(server.base) /\ \E p, n \in 1..StripeUnit : BatchIs(p, n)
    /\ server.pc = "waitForBackups" => server.base \in DOMAIN entries_cache_set

CacheInv == MapOK(Known, AtPrimary)

CopyInv == DOMAIN copies = Backups /\ \A b \in Backups : MapOK(copies[b], AtBackup(b))

\* The two indexes, apart from the 0 they start with.
IndexInv ==
    /\ replicated_index \in Int /\ global_index \in Int /\ stable_gp \in Int
    /\ replicated_index > 0 => replicated_index < Everywhere
    /\ global_index > 0 => global_index <= stable_gp

\* An entry that was read is announced, and everywhere.
ReadInv ==
    /\ DOMAIN idx = Readers /\ DOMAIN result = Readers
    /\ \A r \in Readers :
          /\ Own(idx[r])
          /\ result[r] # {} /\ idx[r] > 0 =>
                result[r] = {idx[r]} /\ idx[r] <= stable_gp /\ idx[r] < Everywhere

IInv == ServerInv /\ CacheInv /\ CopyInv /\ IndexInv /\ ReadInv

\* A stripe that is not full has its file open for writing, unless the file was
\* partly filled at the start; then it never is.  A file that is not in memory
\* is full, or as it was at the start.
DiskInv ==
    /\ CacheIsOnDisk
    /\ \A b \in DOMAIN entries_cache_set :
          Len(entries_cache_set[b]) < StripeUnit /\ ~PartlyFilled(b) =>
              b \in DOMAIN entries_fd_set /\ entries_fd_set[b] = "rdwr"
    /\ \A b \in DOMAIN entries_fd_set : PartlyFilled(b) => entries_fd_set[b] # "rdwr"
    /\ \A b : PartlyFilled(b) => b \in DOMAIN files
    /\ \A b \in DOMAIN files \ DOMAIN entries_cache_set :
          PartlyFilled(b) \/ Len(files[b]) = StripeUnit
    /\ \A b \in DOMAIN files : files[b] \in Seq(Int)

-----------------------------------------------------------------------------
(* Positions *)

\* The constants as the lemmas on striping take them.
LEMMA Constants ==
    /\ ShardNum \in Nat \ {0} /\ StripeUnit \in Nat \ {0} /\ ShardId \in 0..(ShardNum - 1)
    /\ BigStripe \in Nat \ {0} /\ BigStripe = StripeUnit * ShardNum
<1>1. ShardNum \in Nat \ {0} /\ StripeUnit \in Nat \ {0} /\ ShardId \in 0..(ShardNum - 1)
  BY ShardAssumption
<1>2. ASSUME NEW a \in Nat \ {0}, NEW b \in Nat \ {0} PROVE a * b \in Nat \ {0}
  OBVIOUS
<1> QED
  BY <1>1, <1>2 DEF BigStripe

\* Positions in a stripe are a turn of the shards apart.
LEMMA PosNext ==
    ASSUME NEW b \in Nat, NEW k \in Nat, NEW m \in Int
    PROVE  Pos(b, k) + m * ShardNum = Pos(b, k + m) /\ Pos(b, k) \in Int
<1>1. ShardNum \in Nat /\ ShardId \in Nat
  BY Constants
<1>2. (k - 1) * ShardNum + m * ShardNum = ((k + m) - 1) * ShardNum
  BY <1>1
<1>3. (k - 1) * ShardNum \in Int /\ m * ShardNum \in Int
  BY <1>1
<1> QED
  BY <1>1, <1>2, <1>3 DEF Pos

\* Positions are in the order of the entries.
LEMMA PosOrder ==
    ASSUME NEW b \in Nat, NEW k \in Nat, NEW j \in Nat
    PROVE  Pos(b, k) < Pos(b, j) <=> k < j
<1>1. ASSUME NEW d \in Nat \ {0}, NEW a \in Nat PROVE Pos(b, a) < Pos(b, a + d)
  <2>1. d * ShardNum \in Nat \ {0}
    BY Constants
  <2>2. Pos(b, a) + d * ShardNum = Pos(b, a + d) /\ Pos(b, a) \in Int
    BY PosNext
  <2> QED
    BY <2>1, <2>2
<1>2. ASSUME k < j PROVE Pos(b, k) < Pos(b, j)
  <2>1. j - k \in Nat \ {0} /\ j = k + (j - k)
    BY <1>2
  <2>2. Pos(b, k) < Pos(b, k + (j - k))
    BY <1>1, <2>1
  <2> QED
    BY <2>1, <2>2
<1>3. ASSUME j < k PROVE Pos(b, j) < Pos(b, k)
  <2>1. k - j \in Nat \ {0} /\ k = j + (k - j)
    BY <1>3
  <2>2. Pos(b, j) < Pos(b, j + (k - j))
    BY <1>1, <2>1
  <2> QED
    BY <2>1, <2>2
<1>4. Pos(b, j) \in Int /\ Pos(b, k) \in Int
  BY PosNext, 0 \in Int
<1> QED
  BY <1>2, <1>3, <1>4

\* A position is an index of this shard, in its stripe and at its place.
LEMMA PosFacts ==
    ASSUME NEW b, IsBase(b), NEW k \in 1..StripeUnit
    PROVE  /\ Own(Pos(b, k)) /\ BaseIdx(Pos(b, k)) = b /\ LocalCacheIdx(Pos(b, k)) = k - 1
           /\ b <= Pos(b, k) /\ Pos(b, k) < b + BigStripe
<1>1. BigStripe \in Nat \ {0} /\ ShardNum \in Nat \ {0} /\ StripeUnit \in Nat \ {0}
  BY Constants
<1>2. PICK q \in Nat : b = q * (StripeUnit * ShardNum) /\ b = q * BigStripe
  <2>1. b \div BigStripe \in Nat /\ b = BigStripe * (b \div BigStripe) + (b % BigStripe)
    BY <1>1, DivMod DEF IsBase
  <2>2. b = (b \div BigStripe) * BigStripe
    BY <1>1, <2>1 DEF IsBase
  <2> QED
    BY <2>1, <2>2 DEF BigStripe
<1>3. PICK p, i : p = k - 1 /\ i = Pos(b, k)
  OBVIOUS
<1>4. p \in 0..(StripeUnit - 1) /\ i = b + p * ShardNum + ShardId
  <2>1. p * ShardNum \in Int /\ ShardId \in Int /\ b \in Int
    BY <1>1, <1>3, Constants DEF IsBase
  <2> QED
    BY <1>1, <1>3, <2>1 DEF Pos
<1>5. /\ i \in Nat /\ i \div (StripeUnit * ShardNum) = q /\ i % ShardNum = ShardId
      /\ (i - b) \div ShardNum = p /\ b <= i /\ i < b + StripeUnit * ShardNum
  BY <1>2, <1>4, Constants, IndexOf
<1>6. BaseIdx(i) = b
  BY <1>2, <1>5 DEF BaseIdx, BigStripe
<1> QED
  BY <1>3, <1>5, <1>6, Constants DEF Own, LocalCacheIdx

\* The position behind the last one is the first index of this shard behind
\* the stripe.
LEMMA PosOwn ==
    ASSUME NEW b, IsBase(b), NEW k \in 1..(StripeUnit + 1)
    PROVE  Own(Pos(b, k))
<1>1. StripeUnit \in Nat \ {0} /\ ShardNum \in Nat \ {0}
  BY Constants
<1>2. 1 \in 1..StripeUnit /\ k \in Nat /\ k - 1 \in Nat
  BY <1>1
<1>3. Own(Pos(b, 1))
  BY <1>2, PosFacts
<1>4. Pos(b, 1) + (k - 1) * ShardNum = Pos(b, k)
  <2>1. Pos(b, 1) + (k - 1) * ShardNum = Pos(b, 1 + (k - 1))
    BY <1>2, PosNext DEF IsBase
  <2> QED
    BY <1>2, <2>1
<1>5. (Pos(b, 1) + (k - 1) * ShardNum) % ShardNum = Pos(b, 1) % ShardNum
  <2>1. PICK m, i : m = k - 1 /\ i = Pos(b, 1)
    OBVIOUS
  <2>2. m \in Nat /\ i \in Nat
    BY <1>2, <1>3, <2>1 DEF Own
  <2>3. (i + m * ShardNum) % ShardNum = i % ShardNum
    BY <1>1, <2>2, AddSteps
  <2> QED
    BY <2>1, <2>3
<1>6. (k - 1) * ShardNum \in Nat
  BY <1>1, <1>2
<1> QED
  BY <1>3, <1>4, <1>5, <1>6 DEF Own

\* Every index of this shard is a position.
LEMMA OwnIsPos ==
    ASSUME NEW i, Own(i)
    PROVE  /\ IsBase(BaseIdx(i))
           /\ \E k \in 1..StripeUnit : i = Pos(BaseIdx(i), k) /\ LocalCacheIdx(i) = k - 1
<1>0. ShardNum \in Nat \ {0} /\ StripeUnit \in Nat \ {0} /\ i \in Nat
  BY Constants DEF Own
<1>1. PICK q \in Nat, p \in 0..(StripeUnit - 1), h \in 0..(ShardNum - 1) :
         i = q * (StripeUnit * ShardNum) + p * ShardNum + h
  BY <1>0, Coordinates, Zenon
<1>2. PICK b : b = q * (StripeUnit * ShardNum) /\ i = b + p * ShardNum + h
  BY <1>1
<1>3. /\ i \div (StripeUnit * ShardNum) = q /\ i % ShardNum = h
      /\ (i - b) \div ShardNum = p
  <2>1. ShardNum \in Nat \ {0} /\ StripeUnit \in Nat \ {0}
    BY Constants
  <2> QED
    BY <1>2, <2>1, IndexOf
<1>4. h = ShardId /\ BaseIdx(i) = b
  BY <1>2, <1>3 DEF Own, BaseIdx, BigStripe
<1>5. b \in Nat /\ b % BigStripe = 0
  <2>1. BigStripe \in Nat \ {0} /\ 0 \in 0..(BigStripe - 1)
    BY Constants
  <2>2. (BigStripe * q + 0) % BigStripe = 0
    BY <2>1, Quotient
  <2>3. BigStripe * q + 0 = b /\ b \in Nat
    BY <1>2, <2>1, Constants
  <2> QED
    BY <2>2, <2>3
<1>6. p + 1 \in 1..StripeUnit /\ i = Pos(b, p + 1) /\ LocalCacheIdx(i) = (p + 1) - 1
  <2>1. p \in Nat /\ p + 1 \in 1..StripeUnit /\ (p + 1) - 1 = p
    BY Constants
  <2>2. p * ShardNum \in Int /\ ShardId \in Int
    BY <2>1, Constants
  <2> QED
    BY <1>1, <1>2, <1>3, <1>4, <1>5, <2>1, <2>2 DEF Pos, LocalCacheIdx
<1> QED
  BY <1>4, <1>5, <1>6 DEF IsBase

-----------------------------------------------------------------------------
(* Stripes, and what a batch adds to them *)

\* A batch in the stripe at b leaves the other stripes as complete as they are.
LEMMA OtherCut ==
    ASSUME NEW a, NEW b, IsBase(a), IsBase(b), a # b,
           NEW p \in 1..StripeUnit, NEW n \in 1..StripeUnit, p + n <= StripeUnit + 1,
           NEW k \in 1..StripeUnit
    PROVE  Pos(a, k) < Pos(b, p) <=> Pos(a, k) < Pos(b, p + n)
<1>1. StripeUnit \in Nat /\ ShardNum \in Nat \ {0} /\ BigStripe \in Nat \ {0} /\ b \in Nat
  BY Constants DEF IsBase
<1>2. p + n \in 1..(StripeUnit + 1) /\ p + n - 1 \in 1..StripeUnit /\ p \in Nat /\ p + n \in Nat
  BY <1>1
<1>3. PICK i, s, e, z : i = Pos(a, k) /\ s = Pos(b, p) /\ e = Pos(b, p + n) /\ z = Pos(b, p + n - 1)
  OBVIOUS
<1>4. Own(i) /\ Own(s) /\ Own(e) /\ BaseIdx(i) = a /\ b <= s /\ z < b + BigStripe /\ Own(z)
  BY <1>2, <1>3, PosFacts, PosOwn
<1>5. z + ShardNum = e
  <2>1. z + 1 * ShardNum = Pos(b, (p + n - 1) + 1)
    BY <1>1, <1>2, <1>3, PosNext
  <2> QED
    BY <1>1, <1>2, <1>3, <2>1
<1>6. s < e
  BY <1>1, <1>2, <1>3, PosOrder
<1>7. ASSUME s <= i, i < e PROVE FALSE
  <2>1. i + ShardNum <= e
    BY <1>1, <1>4, <1>7, OwnGap DEF Own
  <2>2. i \in b..(b + BigStripe - 1)
    BY <1>1, <1>4, <1>5, <1>7, <2>1 DEF Own
  <2>3. (i \div BigStripe) * BigStripe = b
    BY <1>1, <2>2, InTurn DEF IsBase
  <2> QED
    BY <1>4, <2>3 DEF BaseIdx
<1> QED
  BY <1>3, <1>4, <1>6, <1>7 DEF Own

\* A stripe that is cut before its p-th entry has p - 1 of them.
LEMMA CutAt ==
    ASSUME NEW b, IsBase(b), NEW p \in 1..(StripeUnit + 1), NEW l \in 0..StripeUnit
    PROVE  Cut(b, l, Pos(b, p)) <=> l = p - 1
<1>1. StripeUnit \in Nat /\ b \in Nat
  BY Constants DEF IsBase
<1>2. \A k \in 1..StripeUnit : Pos(b, k) < Pos(b, p) <=> k < p
  BY <1>1, PosOrder
<1>3. Cut(b, l, Pos(b, p)) <=> \A k \in 1..StripeUnit : k <= l <=> k < p
  BY <1>2 DEF Cut
<1>4. ASSUME \A k \in 1..StripeUnit : k <= l <=> k < p PROVE l = p - 1
  <2>1. CASE l >= p
    <3>1. l \in 1..StripeUnit
      BY <1>1, <2>1
    <3> QED
      BY <1>1, <1>4, <2>1, <3>1
  <2>2. CASE l < p - 1
    <3>1. l + 1 \in 1..StripeUnit
      BY <1>1, <2>2
    <3>2. l + 1 < p
      BY <1>1, <2>2
    <3>3. l + 1 <= l
      BY <1>4, <3>1, <3>2
    <3> QED
      BY <1>1, <3>3
  <2> QED
    BY <1>1, <2>1, <2>2
<1> QED
  BY <1>1, <1>3, <1>4

\* A stripe is a sequence.
LEMMA RowSeq ==
    ASSUME NEW b \in Nat, NEW l \in Nat
    PROVE  Row(b, l) \in Seq(Int) /\ Len(Row(b, l)) = l /\ \A k \in 1..l : Row(b, l)[k] = Pos(b, k)
<1>1. \A k \in 1..l : Pos(b, k) \in Int
  <2>1. \A k \in 1..l : k \in Nat
    OBVIOUS
  <2> QED
    BY <2>1, PosNext, 0 \in Int
<1> QED
  BY <1>1 DEF Row

\* Entries that follow a stripe make it longer.
LEMMA RowAppend ==
    ASSUME NEW b \in Nat, NEW p \in Nat \ {0}, NEW n \in Nat
    PROVE  Row(b, p - 1) \o [k \in 1..n |-> Pos(b, p + k - 1)] = Row(b, p + n - 1)
<1> DEFINE s == Row(b, p - 1)
           t == [k \in 1..n |-> Pos(b, p + k - 1)]
           u == Row(b, p + n - 1)
<1>1. Len(s) = p - 1 /\ Len(t) = n /\ Len(u) = p + n - 1
  BY DEF Row
<1>2. \A k \in 1..(p - 1) : s[k] = Pos(b, k)
  BY DEF Row
<1>3. \A k \in 1..n : t[k] = Pos(b, p + k - 1)
  OBVIOUS
<1>4. \A k \in 1..(p + n - 1) : u[k] = Pos(b, k)
  BY DEF Row
<1>5. s \in Seq(Int) /\ t \in Seq(Int) /\ u \in Seq(Int)
  <2>1. s \in Seq(Int) /\ u \in Seq(Int)
    <3>1. p - 1 \in Nat /\ p + n - 1 \in Nat
      OBVIOUS
    <3> QED
      BY <3>1, RowSeq
  <2>2. \A k \in 1..n : Pos(b, p + k - 1) \in Int
    <3>1. \A k \in 1..n : p + k - 1 \in Nat
      OBVIOUS
    <3> QED
      BY <3>1, PosNext, 0 \in Int
  <2> QED
    BY <2>1, <2>2
<1> HIDE DEF s, t, u
<1>6. Len(s \o t) = Len(u)
  <2>1. Len(s \o t) = Len(s) + Len(t)
    BY <1>5
  <2> QED
    BY <1>1, <2>1
<1>7. ASSUME NEW k \in 1..Len(u) PROVE (s \o t)[k] = u[k]
  <2>1. CASE k <= p - 1
    BY <1>1, <1>2, <1>4, <1>5, <2>1
  <2>2. CASE k > p - 1
    <3>1. k - (p - 1) \in 1..n /\ p + (k - (p - 1)) - 1 = k
      BY <1>1, <2>2
    <3>2. (s \o t)[k] = t[k - (p - 1)]
      BY <1>1, <1>5, <2>2
    <3>3. t[k - (p - 1)] = Pos(b, p + (k - (p - 1)) - 1)
      BY <1>3, <3>1
    <3> QED
      BY <1>1, <1>4, <3>1, <3>2, <3>3
  <2> QED
    BY <1>1, <2>1, <2>2
<1>8. s \o t = u
  <2>1. s \o t \in Seq(Int)
    BY <1>5
  <2> QED
    BY <1>5, <1>6, <1>7, <2>1, SeqEqual
<1> QED
  BY <1>8 DEF s, t, u

\* AppendAt adds entries at one base.
LEMMA AppendAtFacts ==
    ASSUME NEW map, NEW base, NEW es
    PROVE  /\ DOMAIN AppendAt(map, base, es) = DOMAIN map \cup {base}
           /\ \A b \in DOMAIN map : b # base => AppendAt(map, base, es)[b] = map[b] \o <<>>
           /\ base \in DOMAIN map => AppendAt(map, base, es)[base] = map[base] \o es
           /\ base \notin DOMAIN map => AppendAt(map, base, es)[base] = <<>> \o es
BY DEF AppendAt

\* Stripes are sequences, so that adding nothing leaves them alone.
LEMMA HoldsSeq ==
    ASSUME NEW es, NEW b, IsBase(b), NEW n, Holds(es, b, n)
    PROVE  es \in Seq(Int) /\ es \o <<>> = es /\ <<>> \o es = es
<1>1. PICK l \in 1..StripeUnit : es = Row(b, l)
  BY DEF Holds
<1>2. l \in Nat /\ b \in Nat
  BY Constants DEF IsBase
<1>3. es \in Seq(Int)
  BY <1>1, <1>2, RowSeq
<1> QED
  BY <1>3

\* A batch takes a map from its first entry to its end.
LEMMA MapAppend ==
    ASSUME NEW map, NEW base, IsBase(base), NEW p \in 1..StripeUnit, NEW n \in 1..StripeUnit,
           p + n <= StripeUnit + 1, NEW es, es = [k \in 1..n |-> Pos(base, p + k - 1)],
           MapOK(map, Pos(base, p))
    PROVE  MapOK(AppendAt(map, base, es), Pos(base, p + n))
<1>1. /\ StripeUnit \in Nat \ {0} /\ p \in Nat \ {0} /\ n \in Nat /\ base \in Nat
      /\ p + n \in 1..(StripeUnit + 1) /\ p + n - 1 \in 1..StripeUnit /\ p \in 1..(StripeUnit + 1)
      /\ p + n \in Nat
  BY Constants DEF IsBase
<1>2. PICK new : new = AppendAt(map, base, es)
  OBVIOUS
<1>3. /\ DOMAIN new = DOMAIN map \cup {base}
      /\ \A b \in DOMAIN map : b # base => new[b] = map[b] \o <<>>
      /\ base \in DOMAIN map => new[base] = map[base] \o es
      /\ base \notin DOMAIN map => new[base] = <<>> \o es
  BY <1>2 DEF AppendAt
<1>4. ASSUME NEW b \in DOMAIN map, b # base
      PROVE  IsBase(b) /\ Holds(new[b], b, Pos(base, p + n))
  <2>1. IsBase(b) /\ Holds(map[b], b, Pos(base, p))
    BY DEF MapOK
  <2>2. new[b] = map[b]
    BY <1>3, <1>4, <2>1, HoldsSeq
  <2>3. \A k \in 1..StripeUnit : Pos(b, k) < Pos(base, p) <=> Pos(b, k) < Pos(base, p + n)
    BY <1>4, <2>1, OtherCut
  <2> QED
    BY <2>1, <2>2, <2>3 DEF Holds, Cut
<1>5. Holds(new[base], base, Pos(base, p + n))
  <2>1. Cut(base, p + n - 1, Pos(base, p + n))
    <3>1. p + n - 1 \in 0..StripeUnit
      BY <1>1
    <3> QED
      BY <1>1, <3>1, CutAt
  <2>2. Row(base, p - 1) \o es = Row(base, p + n - 1)
    BY <1>1, RowAppend
  <2>3. CASE base \in DOMAIN map
    <3>1. PICK l \in 1..StripeUnit : map[base] = Row(base, l) /\ Cut(base, l, Pos(base, p))
      BY <2>3 DEF MapOK, Holds
    <3>2. l \in 0..StripeUnit
      BY <1>1
    <3>3. l = p - 1
      BY <1>1, <3>1, <3>2, CutAt
    <3>4. new[base] = Row(base, p + n - 1)
      BY <1>3, <2>2, <2>3, <3>1, <3>3
    <3> QED
      BY <1>1, <2>1, <3>4 DEF Holds
  <2>4. CASE base \notin DOMAIN map
    <3>1. p = 1
      <4>1. CASE p # 1
        <5>1. 1 \in 1..StripeUnit /\ 1 \in Nat /\ 1 < p
          BY <1>1, <4>1
        <5>2. Own(Pos(base, 1)) /\ BaseIdx(Pos(base, 1)) = base
          BY <5>1, PosFacts
        <5>3. Pos(base, 1) < Pos(base, p)
          BY <1>1, <5>1, PosOrder
        <5>4. base \in DOMAIN map
          BY <5>2, <5>3 DEF MapOK, Own
        <5> QED
          BY <2>4, <5>4
      <4> QED
        BY <4>1
    <3>2. Row(base, p - 1) = <<>>
      BY <3>1 DEF Row
    <3>3. new[base] = Row(base, p + n - 1)
      BY <1>3, <2>2, <2>4, <3>2
    <3> QED
      BY <1>1, <2>1, <3>3 DEF Holds
  <2> QED
    BY <2>3, <2>4
<1>6. ASSUME NEW i \in Nat, Own(i), i < Pos(base, p + n)
      PROVE  BaseIdx(i) \in DOMAIN new
  <2>1. CASE BaseIdx(i) = base
    BY <1>3, <2>1
  <2>2. CASE BaseIdx(i) # base
    <3>1. PICK k \in 1..StripeUnit : i = Pos(BaseIdx(i), k) /\ IsBase(BaseIdx(i))
      BY <1>6, OwnIsPos
    <3>2. PICK a : a = BaseIdx(i)
      OBVIOUS
    <3>3. Pos(a, k) < Pos(base, p)
      BY <1>6, <2>2, <3>1, <3>2, OtherCut
    <3>4. BaseIdx(i) \in DOMAIN map
      BY <1>6, <3>1, <3>2, <3>3 DEF MapOK
    <3> QED
      BY <1>3, <3>4
  <2> QED
    BY <2>1, <2>2
<1>7. MapOK(new, Pos(base, p + n))
  BY <1>3, <1>4, <1>5, <1>6 DEF MapOK
<1> QED
  BY <1>2, <1>7

\* The batch under way.
LEMMA BatchFacts ==
    ASSUME ServerInv, server.pc # "idle"
    PROVE  \E p, n \in 1..StripeUnit :
              /\ IsBase(server.base) /\ BatchIs(p, n) /\ p + n <= StripeUnit + 1
              /\ Start = Pos(server.base, p) /\ next = Pos(server.base, p + n)
              /\ Start < next /\ Own(Start) /\ Own(next)
<1>1. PICK p, n \in 1..StripeUnit : IsBase(server.base) /\ BatchIs(p, n)
  BY DEF ServerInv
<1>2. p \in Nat /\ n \in Nat /\ 1 \in 1..n /\ p + 1 - 1 = p /\ p < p + n /\ p + n \in Nat
  BY Constants
<1>3. Start = Pos(server.base, p)
  <2>1. server.batch[1] = Pos(server.base, p + 1 - 1)
    BY <1>1, <1>2 DEF BatchIs
  <2> QED
    BY <1>2, <2>1 DEF Start
<1>4. next = Pos(server.base, p + n) /\ p + n <= StripeUnit + 1
  BY <1>1 DEF BatchIs
<1>5. Start < next
  BY <1>1, <1>2, <1>3, <1>4, PosOrder DEF IsBase
<1>6. Own(Start) /\ Own(next)
  BY <1>1, <1>3, PosFacts DEF ServerInv
<1> QED
  BY <1>1, <1>3, <1>4, <1>5, <1>6

-----------------------------------------------------------------------------
(* The data files at the start *)

\* The first index of this shard from a length on.
LEMMA OwnFromFacts ==
    ASSUME NEW len \in Nat
    PROVE  /\ Own(OwnFrom(len)) /\ len <= OwnFrom(len)
           /\ \A i : Own(i) /\ i < OwnFrom(len) => i < len
<1>1. ShardNum \in Nat \ {0} /\ ShardId \in 0..(ShardNum - 1)
  BY Constants
<1>2. \E j \in len..(len + ShardNum - 1) : j % ShardNum = ShardId
  <2>1. PICK i : i = ShardNum * len + ShardId
    OBVIOUS
  <2>2. i % ShardNum = ShardId
    BY <1>1, <2>1, Quotient
  <2>3. i \in Nat /\ len <= i
    <3>1. ShardNum * len \in Nat /\ len <= ShardNum * len
      BY <1>1
    <3> QED
      BY <1>1, <2>1, <3>1
  <2> QED
    BY <1>1, <2>2, <2>3, FirstInTurn
<1>3. PICK n : n = OwnFrom(len)
  OBVIOUS
<1>4. n \in len..(len + ShardNum - 1) /\ n % ShardNum = ShardId
  BY <1>2, <1>3 DEF OwnFrom
<1>5. ASSUME NEW i, Own(i), i < n, ~(i < len) PROVE FALSE
  <2>1. i \in len..(len + ShardNum - 1) /\ i % ShardNum = n % ShardNum
    BY <1>1, <1>4, <1>5 DEF Own
  <2>2. i = n
    BY <1>1, <1>4, <2>1, SameResidue
  <2> QED
    BY <1>4, <1>5, <2>2
<1> QED
  BY <1>1, <1>3, <1>4, <1>5 DEF Own

\* A stripe that has an entry before n is cut by n somewhere.
LEMMA CutExists ==
    ASSUME NEW n, Own(n), NEW b, IsBase(b), NEW j \in 1..StripeUnit, Pos(b, j) < n
    PROVE  \E l \in 1..StripeUnit : Cut(b, l, n)
<1>1. BigStripe \in Nat \ {0} /\ StripeUnit \in Nat \ {0} /\ b \in Nat
  BY Constants DEF IsBase
<1>2. PICK m \in 1..StripeUnit : n = Pos(BaseIdx(n), m) /\ IsBase(BaseIdx(n))
  BY OwnIsPos
<1>3. PICK a : a = BaseIdx(n)
  OBVIOUS
<1>4. a \in Nat /\ a <= n /\ n < a + BigStripe /\ n \in Nat
  BY <1>2, <1>3, PosFacts DEF IsBase, Own
<1>5. CASE a = b
  <2>1. j < m
    BY <1>1, <1>2, <1>3, <1>5, PosOrder
  <2>2. m - 1 \in 1..StripeUnit /\ m \in 1..(StripeUnit + 1) /\ m - 1 \in 0..StripeUnit
    BY <1>1, <2>1
  <2>3. Cut(b, m - 1, Pos(b, m))
    BY <2>2, CutAt
  <2> QED
    BY <1>2, <1>3, <1>5, <2>2, <2>3
<1>6. CASE a # b
  <2>1. b <= Pos(b, j) /\ Pos(b, j) \in Nat
    BY PosFacts DEF Own
  <2>2. ~(a < b)
    <3>1. ASSUME a < b PROVE a + BigStripe <= b
      BY <1>1, <1>2, <1>3, <1>4, <3>1, TurnsApart DEF IsBase
    <3> QED
      BY <1>1, <1>4, <2>1, <3>1
  <2>3. b + BigStripe <= a
    <3>1. b < a
      BY <1>1, <1>4, <1>6, <2>2
    <3> QED
      BY <1>1, <1>2, <1>3, <1>4, <3>1, TurnsApart DEF IsBase
  <2>4. \A k \in 1..StripeUnit : Pos(b, k) < n
    <3>1. \A k \in 1..StripeUnit : Pos(b, k) \in Nat /\ Pos(b, k) < b + BigStripe
      BY PosFacts DEF Own
    <3> QED
      BY <1>1, <1>4, <2>3, <3>1
  <2>5. Cut(b, StripeUnit, n) /\ StripeUnit \in 1..StripeUnit
    BY <1>1, <2>4 DEF Cut
  <2> QED
    BY <2>5
<1> QED
  BY <1>5, <1>6

\* The data files of a log hold exactly its entries.
LEMMA FilesOfOK ==
    ASSUME NEW len \in 0..MaxLen
    PROVE  MapOK(FilesOf(len), OwnFrom(len))
<1> DEFINE own == {i \in OwnIdxs : i < len}
<1>1. len \in Nat /\ MaxLen \in Nat /\ StripeUnit \in Nat \ {0}
  BY ShardAssumption
<1>2. \A i : i \in own <=> Own(i) /\ i < len
  BY <1>1 DEF OwnIdxs, Own
<1>3. PICK n : n = OwnFrom(len)
  OBVIOUS
<1>4. /\ Own(n) /\ len <= n /\ n \in Nat
      /\ \A i : Own(i) => (i < n <=> i < len)
  <2>1. Own(n) /\ len <= n /\ \A i : Own(i) /\ i < n => i < len
    BY <1>1, <1>3, OwnFromFacts
  <2> QED
    BY <1>1, <2>1 DEF Own
<1>5. /\ DOMAIN FilesOf(len) = {BaseIdx(i) : i \in own}
      /\ \A b \in DOMAIN FilesOf(len) :
            FilesOf(len)[b] = Row(b, Cardinality({i \in own : BaseIdx(i) = b}))
  BY DEF FilesOf, Row, Pos
<1> HIDE DEF own
<1>6. ASSUME NEW b \in DOMAIN FilesOf(len)
      PROVE  IsBase(b) /\ Holds(FilesOf(len)[b], b, n)
  <2>1. PICK i \in own : b = BaseIdx(i)
    BY <1>5
  <2>2. Own(i) /\ i < n
    BY <1>2, <1>4
  <2>3. IsBase(b) /\ \E k \in 1..StripeUnit : i = Pos(b, k)
    BY <2>1, <2>2, OwnIsPos
  <2>4. PICK l \in 1..StripeUnit : Cut(b, l, n)
    BY <1>4, <2>2, <2>3, CutExists
  <2> DEFINE S == {x \in own : BaseIdx(x) = b}
             f == [k \in 1..l |-> Pos(b, k)]
  <2>5. l \in Nat /\ \A k \in 1..l : k \in 1..StripeUnit
    BY <1>1
  <2>6. ASSUME NEW k \in 1..l PROVE Pos(b, k) \in S
    <3>1. Own(Pos(b, k)) /\ BaseIdx(Pos(b, k)) = b
      BY <2>3, <2>5, PosFacts
    <3>2. Pos(b, k) < n
      BY <2>4, <2>5 DEF Cut
    <3> QED
      BY <1>2, <1>4, <3>1, <3>2
  <2>7. ASSUME NEW x \in S PROVE \E k \in 1..l : f[k] = x
    <3>1. Own(x) /\ BaseIdx(x) = b /\ x < n
      BY <1>2, <1>4
    <3>2. PICK k \in 1..StripeUnit : x = Pos(b, k)
      BY <3>1, OwnIsPos
    <3>3. k <= l
      BY <2>4, <3>1, <3>2 DEF Cut
    <3>4. k \in 1..l
      BY <2>5, <3>3
    <3> QED
      BY <3>2, <3>4
  <2>8. f \in [1..l -> S]
    BY <2>6
  <2>9. \A k, m \in 1..l : f[k] = f[m] => k = m
    <3>1. b \in Nat /\ \A k \in 1..l : k \in Nat
      BY <2>3 DEF IsBase
    <3>2. \A k, m \in 1..l : (Pos(b, k) < Pos(b, m) <=> k < m) /\ Pos(b, k) \in Int
      BY <3>1, PosOrder, PosNext, 0 \in Int
    <3> QED
      BY <3>1, <3>2
  <2>10. f \in Injection(1..l, S) /\ f \in Surjection(1..l, S)
    BY <2>7, <2>8, <2>9 DEF Injection, IsInjective, Surjection
  <2>11. IsFiniteSet(1..l) /\ Cardinality(1..l) = l
    <3>1. /\ IsFiniteSet(1..l)
          /\ Cardinality(1..l) = IF 1 > l THEN 0 ELSE l - 1 + 1
      BY <2>5, FS_Interval
    <3> QED
      BY <2>5, <3>1
  <2> HIDE DEF S, f
  <2>12. IsFiniteSet(S)
    BY <2>10, <2>11, FS_Surjection
  <2>13. Cardinality(S) = l
    BY <2>10, <2>11, <2>12, FS_Injection
  <2>14. FilesOf(len)[b] = Row(b, l)
    BY <1>5, <2>13 DEF S
  <2> QED
    BY <2>3, <2>4, <2>14 DEF Holds
<1>7. \A i \in Nat : Own(i) /\ i < n => BaseIdx(i) \in DOMAIN FilesOf(len)
  BY <1>2, <1>4, <1>5
<1>8. MapOK(FilesOf(len), n)
  BY <1>6, <1>7 DEF MapOK
<1> QED
  BY <1>3, <1>8

\* A shard that starts with its data files satisfies the invariant.
LEMMA InitIInv == Init => IInv
<1> SUFFICES ASSUME Init PROVE IInv
  OBVIOUS
<1>1. PICK len \in Preloads :
        /\ server = [pc |-> "idle", batch |-> <<>>, base |-> 0]
        /\ tokens = {}
        /\ next = OwnFrom(len)
        /\ stable_gp = len - 1
        /\ entries_cache_set = <<>>
        /\ files = FilesOf(len)
        /\ copies = [b \in Backups |-> FilesOf(len)]
        /\ replicated_index = MaxOf(len - 1, 0)
        /\ global_index = MaxOf(len - 1, 0)
        /\ idx = [r \in Readers |-> ShardId]
        /\ result = [r \in Readers |-> {}]
  BY DEF Init
<1>2. len \in 0..MaxLen /\ len \in Nat
  BY ShardAssumption
<1>3. Own(next) /\ len <= next /\ MapOK(FilesOf(len), next)
  BY <1>1, <1>2, OwnFromFacts, FilesOfOK
<1>4. server.pc = "idle" /\ Everywhere = next /\ AtPrimary = next /\ \A b : AtBackup(b) = next
  BY <1>1 DEF Everywhere, AtPrimary, AtBackup
<1>5. ServerInv
  BY <1>1, <1>3, <1>4 DEF ServerInv, Pcs
<1>6. CacheInv
  <2>1. DOMAIN Known = DOMAIN FilesOf(len) /\ \A b \in DOMAIN FilesOf(len) : Known[b] = FilesOf(len)[b]
    BY <1>1 DEF Known
  <2> QED
    BY <1>3, <1>4, <2>1 DEF CacheInv, MapOK
<1>7. CopyInv
  BY <1>1, <1>3, <1>4 DEF CopyInv
<1>8. IndexInv
  BY <1>1, <1>2, <1>3, <1>4 DEF IndexInv, MaxOf, Own
<1>9. ReadInv
  <2>1. Own(ShardId)
    <3>1. ShardNum \in Nat \ {0} /\ ShardId \in 0..(ShardNum - 1)
      BY Constants
    <3>2. (ShardNum * 0 + ShardId) % ShardNum = ShardId
      BY <3>1, Quotient, 0 \in Nat
    <3> QED
      BY <3>1, <3>2 DEF Own
  <2> QED
    BY <1>1, <2>1 DEF ReadInv
<1> QED
  BY <1>5, <1>6, <1>7, <1>8, <1>9 DEF IInv

-----------------------------------------------------------------------------
(* Steps of the server thread and of the backups *)

\* The reads that were answered stay so while the log only moves on.
LEMMA ReadsSame ==
    ASSUME IInv, idx' = idx, result' = result, Everywhere' \in Int, stable_gp' \in Int,
           Everywhere \in Int, Everywhere <= Everywhere', stable_gp <= stable_gp'
    PROVE  ReadInv'
<1>1. ReadInv /\ stable_gp \in Int
  BY DEF IInv, IndexInv
<1>2. \A r \in Readers : idx[r] \in Int
  BY <1>1 DEF ReadInv, Own
<1> QED
  BY <1>1, <1>2 DEF ReadInv, Own

\* The three levels are indexes of this shard, Everywhere the lowest.
LEMMA Levels ==
    ASSUME ServerInv
    PROVE  /\ Everywhere \in Int /\ AtPrimary \in Int /\ Everywhere <= AtPrimary
           /\ \A b : AtBackup(b) \in Int /\ Everywhere <= AtBackup(b)
           /\ next \in Int /\ Everywhere <= next
<1>1. next \in Int
  BY DEF ServerInv, Own
<1>2. CASE server.pc = "idle"
  <2>1. Everywhere = next /\ AtPrimary = next /\ \A b : AtBackup(b) = next
    BY <1>2 DEF Everywhere, AtPrimary, AtBackup, ServerInv
  <2> QED
    BY <1>1, <2>1
<1>3. CASE server.pc # "idle"
  <2>1. Start < next /\ Start \in Int
    BY <1>3, BatchFacts DEF Own
  <2>2. Everywhere = Start /\ AtPrimary \in {Start, next} /\ \A b : AtBackup(b) \in {Start, next}
    BY <1>3 DEF Everywhere, AtPrimary, AtBackup
  <2> QED
    BY <1>1, <2>1, <2>2
<1> QED
  BY <1>2, <1>3

\* A batch arrives: it begins where the log of this shard ended.
LEMMA AppendBatchKeeps ==
    ASSUME IInv, AppendBatch
    PROVE  IInv'
<1>1. PICK m \in 1..StripeUnit :
        /\ next + (m - 1) * ShardNum < MinOf(BaseIdx(next) + BigStripe, MaxLen)
        /\ server' = [pc |-> "addToEntryCache", base |-> BaseIdx(next),
                      batch |-> [k \in 1..m |-> next + (k - 1) * ShardNum]]
        /\ next' = next + (m - 1) * ShardNum + ShardNum
  BY DEF AppendBatch
<1>2. /\ server.pc = "idle" /\ tokens' = Backups /\ stable_gp' = stable_gp
      /\ entries_cache_set' = entries_cache_set /\ files' = files /\ copies' = copies
      /\ replicated_index' = replicated_index /\ global_index' = global_index
      /\ idx' = idx /\ result' = result
  BY DEF AppendBatch, storeVars, cacheVars, readVars
<1>3. ServerInv /\ Own(next) /\ tokens = {}
  BY <1>2 DEF IInv, ServerInv
<1>4. PICK b, p : /\ b = BaseIdx(next) /\ IsBase(b) /\ p \in 1..StripeUnit /\ next = Pos(b, p)
  BY <1>3, OwnIsPos
<1>5. /\ ShardNum \in Nat \ {0} /\ StripeUnit \in Nat \ {0} /\ b \in Nat /\ p \in Nat /\ m \in Nat
      /\ BigStripe \in Nat /\ MaxLen \in Nat
  BY <1>4, Constants, ShardAssumption DEF IsBase
<1>6. \A k \in 1..m : next + (k - 1) * ShardNum = Pos(b, p + k - 1)
  <2>1. ASSUME NEW k \in 1..m PROVE next + (k - 1) * ShardNum = Pos(b, p + k - 1)
    <3>1. PICK d \in Int : d = k - 1 /\ p + d = p + k - 1
      BY <1>5
    <3>2. b \in Nat /\ p \in Nat
      BY <1>5
    <3>3. Pos(b, p) + d * ShardNum = Pos(b, p + d)
      BY <3>2, PosNext
    <3> QED
      BY <1>4, <3>1, <3>3
  <2> QED
    BY <2>1
<1>7. p + m <= StripeUnit + 1
  <2>1. Pos(b, p + m - 1) < b + BigStripe
    <3>1. m \in 1..m /\ next + (m - 1) * ShardNum = Pos(b, p + m - 1)
      BY <1>5, <1>6
    <3>2. next + (m - 1) * ShardNum < b + BigStripe
      <4>1. next + (m - 1) * ShardNum \in Int
        BY <1>3, <1>5 DEF Own
      <4>2. next + (m - 1) * ShardNum < MinOf(b + BigStripe, MaxLen)
        BY <1>1, <1>4
      <4> QED
        BY <1>5, <4>1, <4>2 DEF MinOf
    <3> QED
      BY <3>1, <3>2
  <2>2. ASSUME p + m > StripeUnit + 1 PROVE FALSE
    <3>1. StripeUnit + 1 \in Nat /\ p + m - 1 \in Nat /\ ~(p + m - 1 < StripeUnit + 1)
      BY <1>5, <2>2
    <3>2. Pos(b, StripeUnit + 1) = b + BigStripe + ShardId
      <4>1. (StripeUnit + 1) - 1 = StripeUnit /\ StripeUnit * ShardNum = BigStripe
        BY <1>5, Constants
      <4>2. Pos(b, StripeUnit + 1) = b + ShardId + BigStripe
        BY <4>1 DEF Pos
      <4> QED
        BY <1>5, <4>2, Constants
    <3>3. ~(Pos(b, p + m - 1) < Pos(b, StripeUnit + 1))
      BY <1>5, <3>1, PosOrder
    <3>4. Pos(b, p + m - 1) \in Int /\ Pos(b, StripeUnit + 1) \in Int /\ ShardId \in Nat
      BY <1>5, <3>1, PosNext, Constants, 0 \in Int
    <3> QED
      BY <1>5, <2>1, <3>2, <3>3, <3>4
  <2> QED
    BY <1>5, <2>2
<1>8. next' = Pos(b, p + m)
  <2>1. next' = next + m * ShardNum
    <3>1. (m - 1) * ShardNum + ShardNum = m * ShardNum
      BY <1>5
    <3>2. (m - 1) * ShardNum \in Int /\ next \in Int
      BY <1>3, <1>5 DEF Own
    <3> QED
      BY <1>1, <1>5, <3>1, <3>2
  <2> QED
    BY <1>4, <1>5, <2>1, PosNext
<1>9. /\ server'.pc = "addToEntryCache" /\ server'.base = b
      /\ server'.batch = [k \in 1..m |-> Pos(b, p + k - 1)]
      /\ server' = [pc |-> server'.pc, batch |-> server'.batch, base |-> server'.base]
  BY <1>1, <1>4, <1>6
<1>10. ServerInv'
  <2>1. Own(Pos(b, p + m))
    <3>1. p + m \in 1..(StripeUnit + 1)
      BY <1>5, <1>7
    <3> QED
      BY <1>4, <3>1, PosOwn
  <2>2. Own(next)' /\ IsBase(server.base)' /\ BatchIs(p, m)'
    BY <1>4, <1>7, <1>8, <1>9, <2>1 DEF Own, IsBase, BatchIs, Pos, BigStripe
  <2> QED
    BY <1>2, <1>4, <1>9, <2>2 DEF ServerInv, Pcs
<1>11. Start' = next
  <2>1. 1 \in 1..m /\ p + 1 - 1 = p
    BY <1>5
  <2> QED
    BY <1>4, <1>9, <2>1 DEF Start
<1>12. /\ Everywhere' = next /\ Everywhere = next /\ AtPrimary' = next /\ AtPrimary = next
       /\ \A c \in Backups : AtBackup(c)' = next /\ AtBackup(c) = next
  BY <1>2, <1>3, <1>9, <1>11 DEF Everywhere, AtPrimary, AtBackup
<1>13. CacheInv'
  BY <1>2, <1>12 DEF IInv, CacheInv, MapOK, Known, Holds, Cut
<1>14. CopyInv'
  BY <1>2, <1>12 DEF IInv, CopyInv, MapOK, Holds, Cut
<1>15. IndexInv'
  BY <1>2, <1>12 DEF IInv, IndexInv
<1>16. ReadInv'
  BY <1>2, <1>3, <1>12, ReadsSame DEF Own, IInv, IndexInv
<1> QED
  BY <1>10, <1>13, <1>14, <1>15, <1>16 DEF IInv

\* A backup takes the batch.
LEMMA ReplicateBatchKeeps ==
    ASSUME IInv, NEW c \in Backups, ReplicateBatch(c)
    PROVE  IInv'
<1>1. /\ c \in tokens /\ tokens' = tokens \ {c} /\ server' = server /\ next' = next
      /\ copies' = [copies EXCEPT ![c] = AppendAt(@, server.base, server.batch)]
      /\ stable_gp' = stable_gp
      /\ entries_cache_set' = entries_cache_set /\ files' = files
      /\ replicated_index' = replicated_index /\ global_index' = global_index
      /\ idx' = idx /\ result' = result
  BY DEF ReplicateBatch, Replicated, storeVars, cacheVars, readVars
<1>2. ServerInv /\ server.pc # "idle"
  BY <1>1 DEF IInv, ServerInv
<1>3. PICK p, n \in 1..StripeUnit :
              /\ IsBase(server.base) /\ BatchIs(p, n) /\ p + n <= StripeUnit + 1
              /\ Start = Pos(server.base, p) /\ next = Pos(server.base, p + n)
  BY <1>2, BatchFacts
<1>4. PICK base, es : base = server.base /\ es = server.batch
  OBVIOUS
<1>5. Start' = Start /\ AtPrimary' = AtPrimary /\ Everywhere' = Everywhere
  BY <1>1 DEF Start, AtPrimary, Everywhere
<1>6. /\ \A d \in Backups : d # c => AtBackup(d)' = AtBackup(d)
      /\ AtBackup(c) = Start /\ AtBackup(c)' = next
  BY <1>1, <1>5 DEF AtBackup
<1>7. DOMAIN copies = Backups /\ \A d \in Backups : MapOK(copies[d], AtBackup(d))
  BY DEF IInv, CopyInv
<1>8. MapOK(AppendAt(copies[c], base, es), next)
  <2>1. es = [k \in 1..n |-> Pos(base, p + k - 1)] /\ IsBase(base) /\ MapOK(copies[c], Pos(base, p))
    BY <1>3, <1>4, <1>6, <1>7 DEF BatchIs
  <2>2. MapOK(AppendAt(copies[c], base, es), Pos(base, p + n))
    BY <1>3, <2>1, MapAppend
  <2> QED
    BY <1>3, <1>4, <2>2
<1>9. CopyInv'
  <2>1. /\ DOMAIN copies' = Backups /\ copies'[c] = AppendAt(copies[c], base, es)
        /\ \A d \in Backups : d # c => copies'[d] = copies[d]
    BY <1>1, <1>4, <1>7
  <2>2. ASSUME NEW d \in Backups PROVE MapOK(copies'[d], AtBackup(d)')
    BY <1>6, <1>7, <1>8, <2>1
  <2>3. \A d \in Backups : MapOK(copies[d], AtBackup(d))' <=> MapOK(copies'[d], AtBackup(d)')
    BY DEF MapOK, Holds, Cut
  <2> QED
    BY <2>1, <2>2, <2>3 DEF CopyInv
<1>10. ServerInv'
  BY <1>1, <1>2 DEF ServerInv, BatchIs, Own, IsBase
<1>11. CacheInv'
  BY <1>1, <1>5 DEF IInv, CacheInv, MapOK, Known, Holds, Cut
<1>12. IndexInv'
  BY <1>1, <1>5 DEF IInv, IndexInv
<1>13. ReadInv'
  BY <1>1, <1>2, <1>5, Levels, ReadsSame DEF IInv, IndexInv
<1> QED
  BY <1>9, <1>10, <1>11, <1>12, <1>13 DEF IInv

\* The primary takes the batch: what it has of the stripe, in memory or in its
\* data file, is followed by the batch, and no other stripe changes.
LEMMA KnownAppends ==
    ASSUME IInv, AddToEntryCache
    PROVE  /\ Known' = AppendAt(Known, server.base, server.batch)
           /\ server.base \in DOMAIN entries_cache_set'
<1>1. PICK base, es, cache : base = server.base /\ es = server.batch /\ cache = entries_cache_set
  OBVIOUS
<1>2. PICK loaded :
        loaded = IF base \notin DOMAIN cache /\ base \in DOMAIN files
                 THEN Put(cache, base, files[base]) ELSE cache
  OBVIOUS
<1>3. entries_cache_set' = AppendAt(loaded, base, es)
  BY <1>1, <1>2 DEF AddToEntryCache, LoadedCache
<1>4. files' = files \/ files' = AppendAt(files, base, es)
  BY <1>1 DEF AddToEntryCache
<1>5. /\ DOMAIN Known = DOMAIN cache \cup DOMAIN files
      /\ \A b \in DOMAIN Known : IsBase(b) /\ Known[b] \in Seq(Int)
      /\ \A b \in DOMAIN cache : Known[b] = cache[b]
      /\ \A b \in DOMAIN files \ DOMAIN cache : Known[b] = files[b]
  <2>1. /\ DOMAIN Known = DOMAIN cache \cup DOMAIN files
        /\ \A b \in DOMAIN cache : Known[b] = cache[b]
        /\ \A b \in DOMAIN files \ DOMAIN cache : Known[b] = files[b]
    BY <1>1 DEF Known
  <2>2. \A b \in DOMAIN Known : IsBase(b) /\ Holds(Known[b], b, AtPrimary)
    BY DEF IInv, CacheInv, MapOK
  <2> QED
    BY <2>1, <2>2, HoldsSeq
<1>6. \A b \in DOMAIN Known : Known[b] \o <<>> = Known[b] /\ <<>> \o Known[b] = Known[b]
  BY <1>5
<1>7. /\ \A b \in DOMAIN cache : b # base => b \in DOMAIN loaded /\ loaded[b] = cache[b]
      /\ \A b \in DOMAIN loaded : b = base \/ b \in DOMAIN cache
      /\ base \in DOMAIN loaded <=> base \in DOMAIN Known
      /\ base \in DOMAIN Known => loaded[base] = Known[base]
  <2>1. CASE base \notin DOMAIN cache /\ base \in DOMAIN files
    <3>1. loaded = Put(cache, base, files[base])
      BY <1>2, <2>1
    <3>2. /\ DOMAIN loaded = DOMAIN cache \cup {base}
          /\ \A b \in DOMAIN cache : b # base => loaded[b] = cache[b]
          /\ loaded[base] = files[base]
      BY <2>1, <3>1 DEF Put
    <3> QED
      BY <1>5, <1>6, <2>1, <3>2
  <2>2. CASE ~(base \notin DOMAIN cache /\ base \in DOMAIN files)
    <3>1. loaded = cache
      BY <1>2, <2>2
    <3> QED
      BY <1>5, <2>2, <3>1
  <2> QED
    BY <2>1, <2>2
<1>8. /\ DOMAIN entries_cache_set' = DOMAIN loaded \cup {base}
      /\ \A b \in DOMAIN loaded : b # base => entries_cache_set'[b] = loaded[b] \o <<>>
      /\ base \in DOMAIN loaded => entries_cache_set'[base] = loaded[base] \o es
      /\ base \notin DOMAIN loaded => entries_cache_set'[base] = <<>> \o es
  BY <1>3 DEF AppendAt
<1>9. /\ DOMAIN files \subseteq DOMAIN files' /\ DOMAIN files' \subseteq DOMAIN files \cup {base}
      /\ \A b \in DOMAIN files : b # base => files'[b] = files[b] \/ files'[b] = files[b] \o <<>>
  <2>1. CASE files' = files
    BY <2>1
  <2>2. CASE files' = AppendAt(files, base, es)
    BY <2>2 DEF AppendAt
  <2> QED
    BY <1>4, <2>1, <2>2
<1>10. PICK new : new = AppendAt(Known, base, es)
  OBVIOUS
<1>11. /\ DOMAIN new = DOMAIN Known \cup {base}
       /\ \A b \in DOMAIN Known : b # base => new[b] = Known[b] \o <<>>
       /\ base \in DOMAIN Known => new[base] = Known[base] \o es
       /\ base \notin DOMAIN Known => new[base] = <<>> \o es
       /\ new = [b \in DOMAIN new |-> new[b]]
  BY <1>10 DEF AppendAt
<1>12. /\ Known' = [b \in DOMAIN Known' |-> Known'[b]]
       /\ DOMAIN Known' = DOMAIN entries_cache_set' \cup DOMAIN files'
       /\ \A b \in DOMAIN entries_cache_set' : Known'[b] = entries_cache_set'[b]
       /\ \A b \in DOMAIN files' \ DOMAIN entries_cache_set' : Known'[b] = files'[b]
  BY DEF Known
<1>13. DOMAIN Known' = DOMAIN new
  BY <1>5, <1>7, <1>8, <1>9, <1>11, <1>12
<1>14. Known'[base] = new[base]
  BY <1>7, <1>8, <1>11, <1>12
<1>15. ASSUME NEW b \in DOMAIN new, b # base PROVE Known'[b] = new[b]
  <2>1. b \in DOMAIN Known /\ new[b] = Known[b]
    BY <1>6, <1>11, <1>15
  <2>2. CASE b \in DOMAIN cache
    BY <1>5, <1>6, <1>7, <1>8, <1>12, <1>15, <2>1, <2>2
  <2>3. CASE b \notin DOMAIN cache
    <3>1. b \in DOMAIN files /\ b \notin DOMAIN entries_cache_set'
      BY <1>5, <1>7, <1>8, <1>15, <2>1, <2>3
    <3>2. Known[b] = files[b] /\ files[b] \o <<>> = files[b]
      BY <1>5, <1>6, <2>1, <2>3, <3>1
    <3> QED
      BY <1>9, <1>12, <1>15, <2>1, <3>1, <3>2
  <2> QED
    BY <2>2, <2>3
<1>16. Known' = new
  BY <1>11, <1>12, <1>13, <1>14, <1>15
<1> QED
  BY <1>1, <1>8, <1>10, <1>16

\* The primary adds the batch to its memory and its file.
LEMMA AddToEntryCacheKeeps ==
    ASSUME IInv, AddToEntryCache
    PROVE  IInv'
<1>1. /\ server.pc = "addToEntryCache" /\ server' = [server EXCEPT !.pc = "waitForBackups"]
      /\ tokens' = tokens /\ next' = next /\ stable_gp' = stable_gp /\ copies' = copies
      /\ replicated_index' = replicated_index /\ global_index' = global_index
      /\ idx' = idx /\ result' = result
  BY DEF AddToEntryCache, readVars
<1>2. ServerInv /\ server.pc # "idle"
  BY <1>1 DEF IInv
<1>3. /\ server'.pc = "waitForBackups" /\ server'.base = server.base /\ server'.batch = server.batch
      /\ server' = [pc |-> server'.pc, batch |-> server'.batch, base |-> server'.base]
  BY <1>1, <1>2 DEF ServerInv
<1>4. /\ Start' = Start /\ Everywhere' = Everywhere
      /\ AtPrimary = Start /\ AtPrimary' = next /\ \A b : AtBackup(b)' = AtBackup(b)
  BY <1>1, <1>3 DEF Start, Everywhere, AtPrimary, AtBackup
<1>5. ServerInv'
  <2>1. \A p, n \in 1..StripeUnit : BatchIs(p, n) => BatchIs(p, n)'
    BY <1>1, <1>3 DEF BatchIs
  <2>2. server.base \in DOMAIN entries_cache_set'
    BY KnownAppends
  <2> QED
    BY <1>1, <1>2, <1>3, <2>1, <2>2 DEF ServerInv, Pcs, Own, IsBase
<1>6. PICK p, n \in 1..StripeUnit :
              /\ IsBase(server.base) /\ BatchIs(p, n) /\ p + n <= StripeUnit + 1
              /\ Start = Pos(server.base, p) /\ next = Pos(server.base, p + n)
  BY <1>2, BatchFacts
<1>7. PICK base, es : base = server.base /\ es = server.batch
  OBVIOUS
<1>8. MapOK(AppendAt(Known, base, es), next)
  <2>1. es = [k \in 1..n |-> Pos(base, p + k - 1)] /\ IsBase(base) /\ MapOK(Known, Pos(base, p))
    BY <1>4, <1>6, <1>7 DEF BatchIs, IInv, CacheInv
  <2>2. MapOK(AppendAt(Known, base, es), Pos(base, p + n))
    BY <1>6, <2>1, MapAppend
  <2> QED
    BY <1>6, <1>7, <2>2
<1>9. CacheInv'
  <2>1. MapOK(Known', next)
    BY <1>7, <1>8, KnownAppends
  <2>2. MapOK(Known, AtPrimary)' <=> MapOK(Known', next)
    BY <1>4 DEF MapOK, Holds, Cut
  <2> QED
    BY <2>1, <2>2 DEF CacheInv
<1>10. CopyInv'
  BY <1>1, <1>4 DEF IInv, CopyInv, MapOK, Holds, Cut
<1>11. IndexInv'
  BY <1>1, <1>4 DEF IInv, IndexInv
<1>12. ReadInv'
  BY <1>1, <1>2, <1>4, Levels, ReadsSame DEF IInv, IndexInv
<1> QED
  BY <1>5, <1>9, <1>10, <1>11, <1>12 DEF IInv

\* All backups have answered: the log is everywhere.
LEMMA SetReplicatedKeeps ==
    ASSUME IInv, SetReplicated
    PROVE  IInv'
<1>1. /\ server.pc = "waitForBackups" /\ server' = [server EXCEPT !.pc = "idle"] /\ tokens = {}
      /\ tokens' = tokens /\ next' = next /\ stable_gp' = stable_gp /\ copies' = copies
      /\ entries_cache_set' = entries_cache_set /\ files' = files
      /\ global_index' = global_index /\ idx' = idx /\ result' = result
      /\ replicated_index' = entries_cache_set[server.base][Len(entries_cache_set[server.base])]
  BY DEF SetReplicated, allRPCCompleted, storeVars, cacheVars
<1>2. ServerInv /\ server.pc # "idle"
  BY <1>1 DEF IInv
<1>3. /\ server'.pc = "idle"
      /\ server' = [pc |-> server'.pc, batch |-> server'.batch, base |-> server'.base]
  BY <1>1, <1>2 DEF ServerInv
<1>4. /\ Everywhere' = next /\ AtPrimary = next /\ AtPrimary' = next
      /\ \A b : AtBackup(b)' = next /\ AtBackup(b) = next
  BY <1>1, <1>3 DEF Everywhere, AtPrimary, AtBackup
<1>5. ServerInv'
  BY <1>1, <1>2, <1>3 DEF ServerInv, Pcs, Own
<1>6. replicated_index' \in Int /\ replicated_index' < next
  <2>1. PICK base : base = server.base
    OBVIOUS
  <2>2. base \in DOMAIN entries_cache_set
    BY <1>1, <1>2, <2>1 DEF ServerInv
  <2>3. IsBase(base) /\ Holds(entries_cache_set[base], base, next)
    <3>1. base \in DOMAIN Known /\ Known[base] = entries_cache_set[base]
      BY <2>2 DEF Known
    <3> QED
      BY <1>4, <3>1 DEF IInv, CacheInv, MapOK
  <2>4. PICK l \in 1..StripeUnit : entries_cache_set[base] = Row(base, l) /\ Cut(base, l, next)
    BY <2>3 DEF Holds
  <2>5. l \in Nat /\ l \in 1..l /\ base \in Nat
    BY <2>3, Constants DEF IsBase
  <2>6. replicated_index' = Pos(base, l)
    BY <1>1, <2>1, <2>4, <2>5, RowSeq
  <2>7. Pos(base, l) < next
    BY <2>4, <2>5 DEF Cut
  <2> QED
    BY <2>5, <2>6, <2>7, PosNext, 0 \in Int
<1>7. CacheInv'
  BY <1>1, <1>4 DEF IInv, CacheInv, MapOK, Known, Holds, Cut
<1>8. CopyInv'
  BY <1>1, <1>4 DEF IInv, CopyInv, MapOK, Holds, Cut
<1>9. IndexInv'
  BY <1>1, <1>4, <1>6 DEF IInv, IndexInv
<1>10. ReadInv'
  <2>1. Everywhere \in Int /\ next \in Int /\ Everywhere <= next
    BY <1>2, Levels
  <2> QED
    BY <1>1, <1>4, <2>1, ReadsSame DEF IInv, IndexInv
<1> QED
  BY <1>5, <1>7, <1>8, <1>9, <1>10 DEF IInv

\* The consensus log announces an index.
LEMMA UpdateGlobalIdxKeeps ==
    ASSUME IInv, UpdateGlobalIdx
    PROVE  IInv'
<1>1. /\ server' = server
      /\ tokens' = tokens /\ next' = next /\ copies' = copies
      /\ entries_cache_set' = entries_cache_set /\ files' = files
      /\ replicated_index' = replicated_index /\ idx' = idx /\ result' = result
  BY DEF UpdateGlobalIdx, storeVars, cacheVars
<1>2. ServerInv /\ stable_gp \in Int /\ next \in Int
  BY DEF IInv, IndexInv, ServerInv, Own
<1>3. stable_gp' \in Int /\ global_index' = stable_gp' /\ stable_gp <= stable_gp'
  <2>1. PICK g \in MaxOf(stable_gp + 1, next - ShardNum)..(MinOf(next, MaxLen) - 1) :
           stable_gp' = g /\ global_index' = g
    BY DEF UpdateGlobalIdx
  <2>2. MaxOf(stable_gp + 1, next - ShardNum) \in Int /\ stable_gp + 1 <= MaxOf(stable_gp + 1, next - ShardNum)
    BY <1>2, Constants DEF MaxOf
  <2>3. g \in Int /\ MaxOf(stable_gp + 1, next - ShardNum) <= g
    OBVIOUS
  <2> QED
    BY <1>2, <2>1, <2>2, <2>3
<1>4. /\ Everywhere' = Everywhere /\ AtPrimary' = AtPrimary /\ \A b : AtBackup(b)' = AtBackup(b)
  BY <1>1 DEF Everywhere, AtPrimary, AtBackup, Start
<1>5. ServerInv'
  BY <1>1, <1>2 DEF ServerInv, BatchIs, Own, IsBase
<1>6. CacheInv' /\ CopyInv'
  BY <1>1, <1>4 DEF IInv, CacheInv, CopyInv, MapOK, Known, Holds, Cut
<1>7. IndexInv'
  BY <1>1, <1>3, <1>4 DEF IInv, IndexInv
<1>8. ReadInv'
  BY <1>1, <1>2, <1>3, <1>4, Levels, ReadsSame
<1> QED
  BY <1>5, <1>6, <1>7, <1>8 DEF IInv

-----------------------------------------------------------------------------
(* Steps of the read threads *)

\* A step that leaves the shard alone, apart from what is loaded into memory,
\* keeps everything but what reads know.
LEMMA ShardSame ==
    ASSUME IInv, UNCHANGED shardVars, Known' = Known, ReadInv',
           DOMAIN entries_cache_set \subseteq DOMAIN entries_cache_set'
    PROVE  IInv'
<1>1. /\ server' = server /\ tokens' = tokens /\ next' = next /\ stable_gp' = stable_gp
      /\ copies' = copies /\ replicated_index' = replicated_index /\ global_index' = global_index
  BY DEF shardVars
<1>2. /\ Everywhere' = Everywhere /\ AtPrimary' = AtPrimary /\ \A b : AtBackup(b)' = AtBackup(b)
  BY <1>1 DEF Everywhere, AtPrimary, AtBackup, Start
<1>3. ServerInv'
  BY <1>1 DEF IInv, ServerInv, BatchIs, Own, IsBase
<1>4. CacheInv'
  <2>1. MapOK(Known, AtPrimary)' <=> MapOK(Known', AtPrimary')
    BY DEF MapOK, Holds, Cut
  <2> QED
    BY <1>2, <2>1 DEF IInv, CacheInv
<1>5. CopyInv' /\ IndexInv'
  BY <1>1, <1>2 DEF IInv, CopyInv, IndexInv, MapOK, Holds, Cut
<1> QED
  BY <1>3, <1>4, <1>5 DEF IInv

\* The levels do not move when the shard is left alone.
LEMMA EverywhereSame == UNCHANGED shardVars => Everywhere' = Everywhere /\ stable_gp' = stable_gp
BY DEF shardVars, Everywhere, Start

\* A step that changes only where a read thread is.
LEMMA OnlyReader ==
    ASSUME IInv, UNCHANGED <<shardVars, entries_cache_set, idx, result>>
    PROVE  IInv'
<1>1. UNCHANGED shardVars /\ entries_cache_set' = entries_cache_set /\ idx' = idx /\ result' = result
  OBVIOUS
<1>2. Known' = Known
  BY <1>1 DEF Known, shardVars
<1>3. ReadInv'
  BY <1>1, EverywhereSame DEF IInv, ReadInv
<1> QED
  BY <1>1, <1>2, <1>3, ShardSame

\* A read begins.
LEMMA ReadEntryKeeps ==
    ASSUME IInv, NEW r \in Readers, ReadEntry(r)
    PROVE  IInv'
<1>1. /\ UNCHANGED shardVars /\ entries_cache_set' = entries_cache_set
      /\ result' = [result EXCEPT ![r] = {}]
  BY DEF ReadEntry, cacheVars
<1>2. PICK i \in OwnIdxs : idx' = [idx EXCEPT ![r] = i]
  BY DEF ReadEntry
<1>3. Own(i)
  BY ShardAssumption DEF OwnIdxs, Own
<1>4. Known' = Known
  BY <1>1 DEF Known, shardVars
<1>5. ReadInv /\ Everywhere' = Everywhere /\ stable_gp' = stable_gp
  BY <1>1, EverywhereSame DEF IInv
<1>6. /\ DOMAIN idx' = Readers /\ DOMAIN result' = Readers /\ idx'[r] = i /\ result'[r] = {}
      /\ \A d \in Readers : d # r => idx'[d] = idx[d] /\ result'[d] = result[d]
  BY <1>1, <1>2, <1>5 DEF ReadInv
<1>7. ASSUME NEW d \in Readers
      PROVE  /\ Own(idx'[d])
             /\ result'[d] # {} /\ idx'[d] > 0 =>
                   result'[d] = {idx'[d]} /\ idx'[d] <= stable_gp' /\ idx'[d] < Everywhere'
  BY <1>3, <1>5, <1>6 DEF ReadInv
<1>8. ReadInv'
  BY <1>6, <1>7 DEF ReadInv, Own
<1> QED
  BY <1>1, <1>4, <1>8, ShardSame

\* An entry that may be read, and is not entry 0, is the one asked for, is
\* announced and everywhere.
LEMMA MayReadIsSafe ==
    ASSUME IInv, NEW i, Own(i), BaseIdx(i) \in DOMAIN entries_cache_set, MayRead(i), i > 0
    PROVE  /\ entries_cache_set[BaseIdx(i)][LocalCacheIdx(i) + 1] = i
           /\ i <= stable_gp /\ i < Everywhere
<1>1. PICK b : b = BaseIdx(i)
  OBVIOUS
<1>2. PICK k \in 1..StripeUnit : i = Pos(b, k) /\ LocalCacheIdx(i) = k - 1 /\ IsBase(b)
  BY <1>1, OwnIsPos
<1>3. Holds(entries_cache_set[b], b, AtPrimary)
  <2>1. b \in DOMAIN Known /\ Known[b] = entries_cache_set[b]
    BY <1>1 DEF Known
  <2> QED
    BY <2>1 DEF IInv, CacheInv, MapOK
<1>4. PICK l \in 1..StripeUnit : entries_cache_set[b] = Row(b, l)
  BY <1>3 DEF Holds
<1>5. l \in Nat /\ k \in Nat /\ b \in Nat
  BY <1>2, Constants DEF IsBase
<1>6. Len(entries_cache_set[b]) = l /\ \A j \in 1..l : entries_cache_set[b][j] = Pos(b, j)
  BY <1>4, <1>5, RowSeq
<1>7. k \in 1..l
  <2>1. k - 1 < l
    BY <1>1, <1>2, <1>6 DEF MayRead
  <2> QED
    BY <1>5, <2>1
<1>8. (k - 1) + 1 = k
  BY <1>5
<1>9. entries_cache_set[b][LocalCacheIdx(i) + 1] = i
  BY <1>2, <1>6, <1>7, <1>8
<1>10. i <= replicated_index /\ i <= global_index /\ i \in Int
  BY DEF MayRead, Own
<1>11. i <= stable_gp /\ i < Everywhere
  <2>1. Everywhere \in Int /\ IndexInv
    BY Levels DEF IInv
  <2> QED
    BY <1>10, <2>1 DEF IndexInv
<1> QED
  BY <1>1, <1>9, <1>11

\* The loop under the shared lock answers only what may be read.
LEMMA CheckCacheKeeps ==
    ASSUME IInv, NEW r \in Readers, CheckCache(r)
    PROVE  IInv'
<1>1. UNCHANGED shardVars /\ entries_cache_set' = entries_cache_set /\ idx' = idx
  BY DEF CheckCache, cacheVars
<1>2. PICK i, stripe : i = idx[r] /\ stripe = BaseIdx(i)
  OBVIOUS
<1>3. \/ result' = result
      \/ /\ stripe \in DOMAIN entries_cache_set /\ MayRead(i)
         /\ result' = [result EXCEPT ![r] = {entries_cache_set[stripe][LocalCacheIdx(i) + 1]}]
  BY <1>2 DEF CheckCache
<1>4. CASE result' = result
  BY <1>1, <1>4, OnlyReader
<1>5. CASE /\ stripe \in DOMAIN entries_cache_set /\ MayRead(i)
           /\ result' = [result EXCEPT ![r] = {entries_cache_set[stripe][LocalCacheIdx(i) + 1]}]
  <2>1. Known' = Known
    BY <1>1 DEF Known, shardVars
  <2>2. ReadInv /\ Everywhere' = Everywhere /\ stable_gp' = stable_gp
    BY <1>1, EverywhereSame DEF IInv
  <2>3. Own(i)
    BY <1>2, <2>2 DEF ReadInv
  <2>4. i > 0 => /\ entries_cache_set[stripe][LocalCacheIdx(i) + 1] = i
                 /\ i <= stable_gp /\ i < Everywhere
    BY <1>2, <1>5, <2>3, MayReadIsSafe
  <2>5. /\ DOMAIN result' = Readers /\ DOMAIN idx = Readers
        /\ result'[r] = {entries_cache_set[stripe][LocalCacheIdx(i) + 1]}
        /\ \A d \in Readers : d # r => result'[d] = result[d]
    BY <1>5, <2>2 DEF ReadInv
  <2>6. ASSUME NEW d \in Readers
        PROVE  /\ Own(idx[d])
               /\ result'[d] # {} /\ idx[d] > 0 =>
                     result'[d] = {idx[d]} /\ idx[d] <= stable_gp /\ idx[d] < Everywhere
    <3>1. CASE d = r
      BY <1>2, <2>3, <2>4, <2>5, <3>1
    <3>2. CASE d # r
      BY <2>2, <2>5, <3>2 DEF ReadInv
    <3> QED
      BY <3>1, <3>2
  <2>7. ReadInv'
    BY <1>1, <2>2, <2>5, <2>6 DEF ReadInv, Own
  <2> QED
    BY <1>1, <2>1, <2>7, ShardSame
<1> QED
  BY <1>3, <1>4, <1>5

\* A stripe that is loaded is the one in the data file.
LEMMA LoadKeeps ==
    ASSUME IInv, NEW r \in Readers, LoadFromDiskToCache(r)
    PROVE  IInv'
<1>1. UNCHANGED shardVars /\ idx' = idx /\ result' = result /\ files' = files
  BY DEF LoadFromDiskToCache, shardVars
<1>2. PICK stripe : stripe = BaseIdx(idx[r])
  OBVIOUS
<1>3. \/ entries_cache_set' = entries_cache_set
      \/ /\ stripe \notin DOMAIN entries_cache_set /\ stripe \in DOMAIN files
         /\ entries_cache_set' = Put(entries_cache_set, stripe, files[stripe])
  BY <1>2 DEF LoadFromDiskToCache, Loadable, LoadedCache, cacheVars
<1>4. CASE entries_cache_set' = entries_cache_set
  BY <1>1, <1>4, OnlyReader
<1>5. CASE /\ stripe \notin DOMAIN entries_cache_set /\ stripe \in DOMAIN files
           /\ entries_cache_set' = Put(entries_cache_set, stripe, files[stripe])
  <2>1. /\ DOMAIN Known = DOMAIN entries_cache_set \cup DOMAIN files
        /\ \A b \in DOMAIN entries_cache_set : Known[b] = entries_cache_set[b]
        /\ \A b \in DOMAIN files \ DOMAIN entries_cache_set : Known[b] = files[b]
        /\ Known = [b \in DOMAIN Known |-> Known[b]]
    BY DEF Known
  <2>2. /\ DOMAIN entries_cache_set' = DOMAIN entries_cache_set \cup {stripe}
        /\ \A b \in DOMAIN entries_cache_set : entries_cache_set'[b] = entries_cache_set[b]
        /\ entries_cache_set'[stripe] = files[stripe]
    BY <1>5 DEF Put
  <2>3. /\ DOMAIN Known' = DOMAIN entries_cache_set' \cup DOMAIN files
        /\ \A b \in DOMAIN entries_cache_set' : Known'[b] = entries_cache_set'[b]
        /\ \A b \in DOMAIN files \ DOMAIN entries_cache_set' : Known'[b] = files[b]
        /\ Known' = [b \in DOMAIN Known' |-> Known'[b]]
    BY <1>1 DEF Known
  <2>4. DOMAIN Known' = DOMAIN Known
    BY <1>5, <2>1, <2>2, <2>3
  <2>5. ASSUME NEW b \in DOMAIN Known PROVE Known'[b] = Known[b]
    <3>1. CASE b \in DOMAIN entries_cache_set
      BY <2>1, <2>2, <2>3, <3>1
    <3>2. CASE b = stripe
      BY <1>5, <2>1, <2>2, <2>3, <3>2
    <3>3. CASE b \notin DOMAIN entries_cache_set /\ b # stripe
      BY <2>1, <2>2, <2>3, <3>3
    <3> QED
      BY <3>1, <3>2, <3>3
  <2>6. Known' = Known
    BY <2>1, <2>3, <2>4, <2>5
  <2>7. ReadInv'
    BY <1>1, EverywhereSame DEF IInv, ReadInv
  <2> QED
    BY <1>1, <2>2, <2>6, <2>7, ShardSame
<1> QED
  BY <1>3, <1>4, <1>5

\* Every step keeps the invariant.
LEMMA NextKeeps == IInv /\ [Next]_vars => IInv'
<1> SUFFICES ASSUME IInv, [Next]_vars PROVE IInv'
  OBVIOUS
<1>1. CASE UNCHANGED vars
  BY <1>1, OnlyReader DEF vars, cacheVars, readVars
<1>2. CASE ServerStep
  BY <1>2, AppendBatchKeeps, AddToEntryCacheKeeps, SetReplicatedKeeps, UpdateGlobalIdxKeeps
     DEF ServerStep
<1>3. ASSUME NEW b \in Backups, ReplicateBatch(b) PROVE IInv'
  BY <1>3, ReplicateBatchKeeps
<1>4. ASSUME NEW r \in Readers, ReadEntry(r) PROVE IInv'
  BY <1>4, ReadEntryKeeps
<1>5. ASSUME NEW r \in Readers, ReadStep(r) PROVE IInv'
  <2>1. CASE CheckCache(r)
    BY <2>1, CheckCacheKeeps
  <2>2. CASE LoadFromDiskToCache(r)
    BY <2>2, LoadKeeps
  <2>3. CASE Relock(r)
    BY <2>3, OnlyReader DEF Relock, cacheVars
  <2> QED
    BY <1>5, <2>1, <2>2, <2>3 DEF ReadStep
<1>6. ASSUME NEW r \in Readers, SpuriousWake(r) PROVE IInv'
  BY <1>6, OnlyReader DEF SpuriousWake, cacheVars
<1> QED
  BY <1>1, <1>2, <1>3, <1>4, <1>5, <1>6 DEF Next

-----------------------------------------------------------------------------
(* The theorems *)

\* The invariant holds in every reachable state.
THEOREM Invariance == Spec => []IInv
BY InitIInv, NextKeeps, PTL DEF Spec

\* ReadEntryHandler: whatever batches, announcements and loads from disk run
\* beside it, an entry other than entry 0 is answered only when it is announced
\* and on every backup, and the answer is that entry.
THEOREM LaterReadIsSafeThm == Spec => []LaterReadIsSafe
<1>1. IInv => LaterReadIsSafe
  <2> SUFFICES ASSUME IInv, NEW r \in Readers, idx[r] > 0, result[r] # {}
               PROVE  /\ result[r] = {idx[r]} /\ idx[r] <= stable_gp
                      /\ \A c \in Backups : OnBackup(c, idx[r])
    BY DEF LaterReadIsSafe, SafeRead
  <2>1. Own(idx[r]) /\ result[r] = {idx[r]} /\ idx[r] <= stable_gp /\ idx[r] < Everywhere
    BY DEF IInv, ReadInv
  <2>2. PICK i, b : i = idx[r] /\ b = BaseIdx(i)
    OBVIOUS
  <2>3. ASSUME NEW c \in Backups PROVE OnBackup(c, i)
    <3>1. i < AtBackup(c) /\ Own(i) /\ i \in Nat
      <4>1. Everywhere <= AtBackup(c) /\ Everywhere \in Int /\ AtBackup(c) \in Int
        BY Levels DEF IInv
      <4> QED
        BY <2>1, <2>2, <4>1 DEF Own
    <3>2. MapOK(copies[c], AtBackup(c))
      BY DEF IInv, CopyInv
    <3>3. b \in DOMAIN copies[c] /\ Holds(copies[c][b], b, AtBackup(c))
      BY <2>2, <3>1, <3>2 DEF MapOK
    <3>4. PICK k \in 1..StripeUnit : i = Pos(b, k) /\ IsBase(b)
      BY <2>2, <3>1, OwnIsPos
    <3>5. PICK l \in 1..StripeUnit : copies[c][b] = Row(b, l) /\ Cut(b, l, AtBackup(c))
      BY <3>3 DEF Holds
    <3>6. k <= l /\ l \in Nat /\ k \in Nat
      BY <3>1, <3>4, <3>5, Constants DEF Cut
    <3>7. k \in DOMAIN copies[c][b] /\ copies[c][b][k] = i
      BY <3>4, <3>5, <3>6 DEF Row
    <3> QED
      BY <2>2, <3>3, <3>7 DEF OnBackup
  <2> QED
    BY <2>1, <2>2, <2>3
<1> QED
  BY Invariance, <1>1, PTL

\* AppendBatchHandler: when it has answered, every stripe the primary has in
\* memory, however it came there, is on every backup, entry for entry.
THEOREM BackupsFollowThm == Spec => []BackupsFollow
<1>1. IInv => BackupsFollow
  <2> SUFFICES ASSUME IInv, server.pc = "idle", NEW c \in Backups,
                      NEW s \in DOMAIN entries_cache_set
               PROVE  s \in DOMAIN copies[c] /\ copies[c][s] = entries_cache_set[s]
    BY DEF BackupsFollow
  <2>1. AtPrimary = next /\ AtBackup(c) = next
    BY DEF IInv, ServerInv, AtPrimary, AtBackup
  <2>2. IsBase(s) /\ Holds(entries_cache_set[s], s, next)
    <3>1. s \in DOMAIN Known /\ Known[s] = entries_cache_set[s]
      BY DEF Known
    <3> QED
      BY <2>1, <3>1 DEF IInv, CacheInv, MapOK
  <2>3. MapOK(copies[c], next)
    BY <2>1 DEF IInv, CopyInv
  <2>4. PICK l \in 1..StripeUnit : entries_cache_set[s] = Row(s, l) /\ Cut(s, l, next)
    BY <2>2 DEF Holds
  <2>5. StripeUnit \in Nat \ {0} /\ l \in Nat /\ 1 \in 1..StripeUnit /\ 1 <= l
    BY Constants
  <2>6. Own(Pos(s, 1)) /\ BaseIdx(Pos(s, 1)) = s /\ Pos(s, 1) < next
    BY <2>2, <2>4, <2>5, PosFacts DEF Cut
  <2>7. s \in DOMAIN copies[c]
    BY <2>3, <2>6 DEF MapOK, Own
  <2>8. PICK m \in 1..StripeUnit : copies[c][s] = Row(s, m) /\ Cut(s, m, next)
    BY <2>3, <2>7 DEF MapOK, Holds
  <2>9. m = l
    <3>1. m \in Nat /\ m \in 1..StripeUnit /\ l \in 1..StripeUnit
      BY <2>5
    <3>2. m <= l /\ l <= m
      BY <2>4, <2>8, <3>1 DEF Cut
    <3> QED
      BY <2>5, <3>1, <3>2
  <2> QED
    BY <2>4, <2>7, <2>8, <2>9
<1> QED
  BY Invariance, <1>1, PTL

-----------------------------------------------------------------------------
(* The data files *)

\* Stripes in memory are sequences.
LEMMA StripeSeqs ==
    ASSUME IInv, NEW b \in DOMAIN entries_cache_set
    PROVE  entries_cache_set[b] \in Seq(Int)
<1>1. b \in DOMAIN Known /\ Known[b] = entries_cache_set[b]
  BY DEF Known
<1>2. IsBase(b) /\ Holds(Known[b], b, AtPrimary)
  BY <1>1 DEF IInv, CacheInv, MapOK
<1> QED
  BY <1>1, <1>2, HoldsSeq

\* Which files were partly filled at the start does not change.
LEMMA PartlySame ==
    ASSUME start' = start, NEW b
    PROVE  PartlyFilled(b)' <=> PartlyFilled(b)
BY DEF PartlyFilled

\* At the start every file holds a whole stripe or is partly filled.
LEMMA InitDisk ==
    ASSUME Init
    PROVE  DiskInv
<1>1. PICK len \in Preloads :
        /\ entries_cache_set = <<>> /\ entries_fd_set = <<>>
        /\ start = len /\ files = FilesOf(len)
  BY DEF Init
<1>2. len \in 0..MaxLen /\ StripeUnit \in Nat \ {0} /\ MapOK(files, OwnFrom(len))
  BY <1>1, ShardAssumption, FilesOfOK
<1>3. ASSUME NEW b \in DOMAIN files 
      PROVE  files[b] \in Seq(Int) /\ Len(files[b]) \in Nat /\ Len(files[b]) <= StripeUnit
  <2>1. IsBase(b) /\ b \in Nat
    BY <1>2 DEF MapOK, IsBase
  <2>2. PICK l \in 1..StripeUnit : files[b] = Row(b, l)
    BY <1>2 DEF MapOK, Holds
  <2>3. l \in Nat /\ l <= StripeUnit
    BY <1>2
  <2> QED
    BY <2>1, <2>2, <2>3, RowSeq
<1>4. \A b : PartlyFilled(b) <=> b \in DOMAIN files /\ Len(files[b]) < StripeUnit
  BY <1>1 DEF PartlyFilled
<1>5. DOMAIN entries_cache_set = {} /\ DOMAIN entries_fd_set = {}
  BY <1>1
<1>6. ASSUME NEW b \in DOMAIN files PROVE PartlyFilled(b) \/ Len(files[b]) = StripeUnit
  BY <1>2, <1>3, <1>4
<1> QED
  BY <1>3, <1>4, <1>5, <1>6 DEF DiskInv, CacheIsOnDisk

\* When a batch goes to the stripe at base, every other stripe in memory is full.
LEMMA OthersFull ==
    ASSUME NEW base, IsBase(base), NEW p \in 1..StripeUnit,
           NEW b, IsBase(b), b # base, NEW es, Holds(es, b, Pos(base, p))
    PROVE  Len(es) = StripeUnit
<1>1. PICK l \in 1..StripeUnit : es = Row(b, l) /\ Cut(b, l, Pos(base, p))
  BY DEF Holds
<1>2. StripeUnit \in Nat \ {0} /\ BigStripe \in Nat \ {0} /\ b \in Nat /\ base \in Nat /\ l \in Nat
  BY Constants DEF IsBase
<1>3. 1 \in 1..StripeUnit /\ StripeUnit \in 1..StripeUnit /\ 1 <= l
  BY <1>2
<1>4. PICK f, z, i : f = Pos(b, 1) /\ z = Pos(b, StripeUnit) /\ i = Pos(base, p)
  OBVIOUS
<1>5. /\ f \in Nat /\ z \in Nat /\ i \in Nat
      /\ b <= f /\ z < b + BigStripe /\ base <= i /\ i < base + BigStripe
  BY <1>3, <1>4, PosFacts DEF Own
<1>6. f < i
  BY <1>1, <1>3, <1>4 DEF Cut
<1>7. ~(base < b)
  <2>1. ASSUME base < b PROVE base + BigStripe <= b
    BY <1>2, <2>1, TurnsApart DEF IsBase
  <2> QED
    BY <1>2, <1>5, <1>6, <2>1
<1>8. b + BigStripe <= base
  <2>1. b < base
    BY <1>2, <1>7
  <2> QED
    BY <1>2, <2>1, TurnsApart DEF IsBase
<1>9. z < i
  BY <1>2, <1>5, <1>8
<1>10. l = StripeUnit
  BY <1>1, <1>2, <1>3, <1>4, <1>9 DEF Cut
<1> QED
  BY <1>1, <1>2, <1>10, RowSeq

\* When a batch is added, its stripe is not full, and the others in memory are.
LEMMA BatchStripe ==
    ASSUME IInv, server.pc = "addToEntryCache", NEW base, base = server.base
    PROVE  /\ base \in DOMAIN Known => Len(Known[base]) < StripeUnit
           /\ \A b \in DOMAIN Known : b # base => Len(Known[b]) = StripeUnit
<1>1. PICK p \in 1..StripeUnit : IsBase(base) /\ Start = Pos(base, p)
  BY BatchFacts DEF IInv
<1>2. StripeUnit \in Nat \ {0} /\ p \in Nat /\ p \in 1..(StripeUnit + 1) /\ base \in Nat
  BY <1>1, Constants DEF IsBase
<1>3. AtPrimary = Pos(base, p)
  BY <1>1 DEF AtPrimary
<1>4. \A b \in DOMAIN Known : IsBase(b) /\ Holds(Known[b], b, Pos(base, p))
  BY <1>3 DEF IInv, CacheInv, MapOK
<1>5. ASSUME base \in DOMAIN Known PROVE Len(Known[base]) < StripeUnit
  <2>1. PICK l \in 1..StripeUnit : Known[base] = Row(base, l) /\ Cut(base, l, Pos(base, p))
    BY <1>4, <1>5 DEF Holds
  <2>2. l \in 0..StripeUnit /\ l \in Nat
    BY <1>2
  <2>3. l = p - 1
    <3>1. Cut(base, l, Pos(base, p)) <=> l = p - 1
      BY <1>1, <1>2, <2>2, CutAt
    <3> QED
      BY <2>1, <3>1
  <2>4. Len(Known[base]) = l
    <3>1. base \in Nat /\ l \in Nat
      BY <1>2, <2>2
    <3>2. Len(Row(base, l)) = l
      BY <3>1, RowSeq
    <3> QED
      BY <2>1, <3>2
  <2> QED
    BY <1>2, <2>3, <2>4
<1>6. ASSUME NEW b \in DOMAIN Known, b # base PROVE Len(Known[b]) = StripeUnit
  BY <1>1, <1>4, <1>6, OthersFull
<1> QED
  BY <1>5, <1>6

\* writeFromCacheToDisk closes descriptors and opens none.
LEMMA ClosesOnly ==
    ASSUME NEW fds, NEW base, NEW new \in WriteFromCacheToDisk(fds, base)
    PROVE  \A b \in DOMAIN new : b \in DOMAIN fds /\ new[b] \in {fds[b], "closed"}
<1>1. ASSUME NEW c \in DOMAIN fds, new = Put(fds, c, "closed")
      PROVE  \A b \in DOMAIN new : b \in DOMAIN fds /\ new[b] \in {fds[b], "closed"}
  BY <1>1 DEF Put
<1>2. new = fds \/ \E c \in DOMAIN fds : new = Put(fds, c, "closed")
  BY DEF WriteFromCacheToDisk
<1> QED
  BY <1>1, <1>2

\* The batch is a sequence.
LEMMA BatchSeq ==
    ASSUME IInv, server.pc = "addToEntryCache"
    PROVE  server.batch \in Seq(Int)
<1>1. PICK p, n \in 1..StripeUnit : IsBase(server.base) /\ BatchIs(p, n)
  BY BatchFacts DEF IInv
<1>2. PICK base : base = server.base
  OBVIOUS
<1>3. /\ server.batch = [k \in 1..n |-> Pos(base, p + k - 1)]
      /\ n \in Nat /\ p \in Nat /\ 1 <= p /\ base \in Nat
  BY <1>1, <1>2, Constants DEF BatchIs, IsBase
<1>4. \A k \in 1..n : p + k - 1 \in Nat
  BY <1>3
<1>5. \A k \in 1..n : Pos(base, p + k - 1) \in Int
  BY <1>3, <1>4, PosNext, 0 \in Int
<1> QED
  BY <1>3, <1>5

\* What addToEntryCache does with the stripe of the batch, fds being the
\* descriptors before a full file is closed: the file takes the batch through a
\* descriptor that is open for writing, unless the file was partly filled at
\* the start; then it stays as it is.
Written(base, fds) ==
    /\ base \in DOMAIN entries_cache_set' /\ base \in DOMAIN files'
    /\ PartlyFilled(base) =>
          /\ files' = files /\ (base \in DOMAIN fds => fds[base] # "rdwr")
          /\ Begins(files[base], entries_cache_set'[base])
    /\ ~PartlyFilled(base) =>
          /\ files' = AppendAt(files, base, server.batch)
          /\ files'[base] = entries_cache_set'[base]
          /\ base \in DOMAIN fds /\ fds[base] = "rdwr"

\* The descriptors of the other stripes are left alone.
OthersKept(base, fds) ==
    \A b \in DOMAIN fds : b # base => b \in DOMAIN entries_fd_set /\ fds[b] = entries_fd_set[b]

\* A batch goes to memory and to the file.
LEMMA BatchWritten ==
    ASSUME IInv, DiskInv, AddToEntryCache
    PROVE  \E fds :
              /\ Written(server.base, fds) /\ OthersKept(server.base, fds)
              /\ entries_fd_set' \in IF FullAt(Len(entries_cache_set'[server.base]))
                                     THEN WriteFromCacheToDisk(fds, server.base) ELSE {fds}
<1>1. PICK base, es : base = server.base /\ es = server.batch
  OBVIOUS
<1>2. PICK fds :
        fds = IF base \in DOMAIN entries_cache_set
              THEN IF base \in DOMAIN entries_fd_set THEN entries_fd_set
                   ELSE Put(entries_fd_set, base, "stdin")
              ELSE IF base \in DOMAIN files THEN LoadedFds(base) ELSE Put(entries_fd_set, base, "rdwr")
  OBVIOUS
<1>3. PICK fd : fd = IF base \notin DOMAIN entries_cache_set /\ base \in DOMAIN files
                     THEN "stdin" ELSE fds[base]
  OBVIOUS
<1>4. PICK cache : cache = IF base \notin DOMAIN entries_cache_set /\ base \in DOMAIN files
                           THEN Put(entries_cache_set, base, files[base]) ELSE entries_cache_set
  OBVIOUS
<1>5. /\ server.pc = "addToEntryCache"
      /\ entries_cache_set' = AppendAt(cache, base, es)
      /\ files' = IF fd = "rdwr" THEN AppendAt(files, base, es) ELSE files
      /\ entries_fd_set' \in IF FullAt(Len(entries_cache_set'[base]))
                             THEN WriteFromCacheToDisk(fds, base) ELSE {fds}
  BY <1>1, <1>2, <1>3, <1>4 DEF AddToEntryCache, LoadedCache
<1>6. es \in Seq(Int) /\ StripeUnit \in Nat
  BY <1>1, <1>5, BatchSeq, Constants
<1>7. /\ base \in DOMAIN entries_cache_set => Len(entries_cache_set[base]) < StripeUnit
      /\ base \in DOMAIN files \ DOMAIN entries_cache_set => Len(files[base]) < StripeUnit
  <2>1. base \in DOMAIN Known => Len(Known[base]) < StripeUnit
    BY <1>1, <1>5, BatchStripe
  <2>2. /\ base \in DOMAIN entries_cache_set =>
              base \in DOMAIN Known /\ Known[base] = entries_cache_set[base]
        /\ base \in DOMAIN files \ DOMAIN entries_cache_set =>
              base \in DOMAIN Known /\ Known[base] = files[base]
    BY DEF Known
  <2> QED
    BY <2>1, <2>2
<1>8. /\ DOMAIN entries_cache_set' = DOMAIN cache \cup {base}
      /\ base \in DOMAIN cache => entries_cache_set'[base] = cache[base] \o es
      /\ base \notin DOMAIN cache => entries_cache_set'[base] = <<>> \o es
  BY <1>5 DEF AppendAt
<1>9. CASE base \in DOMAIN entries_cache_set
  <2>1. /\ cache = entries_cache_set /\ fd = fds[base]
        /\ fds = IF base \in DOMAIN entries_fd_set THEN entries_fd_set
                 ELSE Put(entries_fd_set, base, "stdin")
    BY <1>2, <1>3, <1>4, <1>9
  <2>2. PICK c, f : c = entries_cache_set[base] /\ f = files[base]
    OBVIOUS
  <2>3. /\ c \in Seq(Int) /\ Len(c) < StripeUnit /\ base \in DOMAIN files
        /\ IF PartlyFilled(base) THEN Begins(f, c) ELSE f = c
    BY <1>7, <1>9, <2>2, StripeSeqs DEF DiskInv, CacheIsOnDisk
  <2>4. entries_cache_set'[base] = c \o es
    BY <1>8, <1>9, <2>1, <2>2
  <2>5. OthersKept(base, fds)
    BY <2>1 DEF OthersKept, Put
  <2>6. CASE PartlyFilled(base)
    <3>1. base \in DOMAIN fds /\ fds[base] # "rdwr"
      <4>1. CASE base \in DOMAIN entries_fd_set
        BY <2>1, <2>6, <4>1 DEF DiskInv
      <4>2. CASE base \notin DOMAIN entries_fd_set
        BY <2>1, <4>2 DEF Put
      <4> QED
        BY <4>1, <4>2
    <3>2. files' = files
      BY <1>5, <2>1, <3>1
    <3>3. Begins(f, c \o es)
      BY <1>6, <2>3, <2>6 DEF Begins
    <3>4. Written(base, fds)
      BY <1>8, <2>2, <2>3, <2>4, <2>6, <3>1, <3>2, <3>3 DEF Written
    <3> QED
      BY <1>1, <1>5, <2>5, <3>4
  <2>7. CASE ~PartlyFilled(base)
    <3>1. base \in DOMAIN entries_fd_set /\ entries_fd_set[base] = "rdwr"
      BY <1>9, <2>2, <2>3, <2>7 DEF DiskInv
    <3>2. base \in DOMAIN fds /\ fds[base] = "rdwr" /\ files' = AppendAt(files, base, es)
      BY <1>5, <2>1, <3>1
    <3>3. base \in DOMAIN files' /\ files'[base] = c \o es
      BY <2>2, <2>3, <2>7, <3>2 DEF AppendAt
    <3>4. Written(base, fds)
      BY <1>1, <1>8, <2>4, <2>7, <3>2, <3>3 DEF Written
    <3> QED
      BY <1>1, <1>5, <2>5, <3>4
  <2> QED
    BY <2>6, <2>7
<1>10. CASE base \notin DOMAIN entries_cache_set /\ base \in DOMAIN files
  <2>1. /\ cache = Put(entries_cache_set, base, files[base]) /\ fd = "stdin"
        /\ fds = LoadedFds(base)
    BY <1>2, <1>3, <1>4, <1>10
  <2>2. PICK f : f = files[base]
    OBVIOUS
  <2>3. f \in Seq(Int) /\ PartlyFilled(base)
    BY <1>6, <1>7, <1>10, <2>2 DEF DiskInv
  <2>4. base \in DOMAIN cache /\ cache[base] = f
    BY <2>1, <2>2 DEF Put
  <2>5. entries_cache_set'[base] = f \o es /\ base \in DOMAIN entries_cache_set' /\ files' = files
    BY <1>5, <1>8, <2>1, <2>4
  <2>6. fds = entries_fd_set \/ fds = Put(entries_fd_set, base, "rdonly")
    BY <2>1 DEF LoadedFds
  <2>7. OthersKept(base, fds)
    BY <2>6 DEF OthersKept, Put
  <2>8. base \in DOMAIN fds => fds[base] # "rdwr"
    <3>1. CASE fds = entries_fd_set
      BY <2>3, <3>1 DEF DiskInv
    <3>2. CASE fds = Put(entries_fd_set, base, "rdonly")
      BY <3>2 DEF Put
    <3> QED
      BY <2>6, <3>1, <3>2
  <2>9. Begins(f, f \o es)
    BY <1>6, <2>3 DEF Begins
  <2>10. Written(base, fds)
    BY <1>10, <2>2, <2>3, <2>5, <2>8, <2>9 DEF Written
  <2> QED
    BY <1>1, <1>5, <2>7, <2>10
<1>11. CASE base \notin DOMAIN entries_cache_set /\ base \notin DOMAIN files
  <2>1. /\ cache = entries_cache_set /\ fd = fds[base]
        /\ fds = Put(entries_fd_set, base, "rdwr")
    BY <1>2, <1>3, <1>4, <1>11
  <2>2. base \in DOMAIN fds /\ fds[base] = "rdwr" /\ OthersKept(base, fds)
    BY <2>1 DEF OthersKept, Put
  <2>3. ~PartlyFilled(base)
    BY <1>11 DEF DiskInv
  <2>4. files' = AppendAt(files, base, es)
    BY <1>5, <2>1, <2>2
  <2>5. base \in DOMAIN files' /\ files'[base] = <<>> \o es
    BY <1>11, <2>4 DEF AppendAt
  <2>6. Written(base, fds)
    BY <1>1, <1>8, <1>11, <2>1, <2>2, <2>3, <2>4, <2>5 DEF Written
  <2> QED
    BY <1>1, <1>5, <2>2, <2>6
<1> QED
  BY <1>9, <1>10, <1>11

\* The other stripes: memory and file do not change.
LEMMA OthersSame ==
    ASSUME IInv, DiskInv, AddToEntryCache, NEW base, base = server.base
    PROVE  /\ DOMAIN entries_cache_set' = DOMAIN entries_cache_set \cup {base}
           /\ DOMAIN files' \subseteq DOMAIN files \cup {base} /\ DOMAIN files \subseteq DOMAIN files'
           /\ \A b \in DOMAIN entries_cache_set : b # base => entries_cache_set'[b] = entries_cache_set[b]
           /\ \A b \in DOMAIN files : b # base => files'[b] = files[b]
<1>1. PICK es : es = server.batch
  OBVIOUS
<1>2. PICK cache : cache = IF base \notin DOMAIN entries_cache_set /\ base \in DOMAIN files
                           THEN Put(entries_cache_set, base, files[base]) ELSE entries_cache_set
  OBVIOUS
<1>3. /\ entries_cache_set' = AppendAt(cache, base, es)
      /\ files' = files \/ files' = AppendAt(files, base, es)
  BY <1>1, <1>2 DEF AddToEntryCache, LoadedCache
<1>4. /\ DOMAIN cache \subseteq DOMAIN entries_cache_set \cup {base}
      /\ DOMAIN entries_cache_set \subseteq DOMAIN cache
      /\ \A b \in DOMAIN entries_cache_set : b # base => cache[b] = entries_cache_set[b]
  BY <1>2 DEF Put
<1>5. /\ DOMAIN entries_cache_set' = DOMAIN cache \cup {base}
      /\ \A b \in DOMAIN cache : b # base => entries_cache_set'[b] = cache[b] \o <<>>
  BY <1>3 DEF AppendAt
<1>6. /\ DOMAIN files' \subseteq DOMAIN files \cup {base} /\ DOMAIN files \subseteq DOMAIN files'
      /\ \A b \in DOMAIN files : b # base => files'[b] = files[b] \/ files'[b] = files[b] \o <<>>
  <2>1. CASE files' = files
    BY <2>1
  <2>2. CASE files' = AppendAt(files, base, es)
    BY <2>2 DEF AppendAt
  <2> QED
    BY <1>3, <2>1, <2>2
<1>7. ASSUME NEW b \in DOMAIN entries_cache_set, b # base
      PROVE  entries_cache_set'[b] = entries_cache_set[b]
  BY <1>4, <1>5, <1>7, StripeSeqs
<1>8. ASSUME NEW b \in DOMAIN files, b # base PROVE files'[b] = files[b]
  <2>1. files[b] \in Seq(Int)
    BY DEF DiskInv
  <2>2. files[b] \o <<>> = files[b]
    BY <2>1
  <2> QED
    BY <1>6, <1>8, <2>2
<1> QED
  BY <1>4, <1>5, <1>6, <1>7, <1>8

\* Adding a batch keeps memory and files in step.
LEMMA AddToEntryCacheDisk ==
    ASSUME IInv, DiskInv, AddToEntryCache
    PROVE  DiskInv'
<1>1. PICK base : base = server.base
  OBVIOUS
<1>2. PICK fds :
        /\ Written(base, fds) /\ OthersKept(base, fds)
        /\ entries_fd_set' \in IF FullAt(Len(entries_cache_set'[base]))
                               THEN WriteFromCacheToDisk(fds, base) ELSE {fds}
  BY <1>1, BatchWritten
<1>3. /\ DOMAIN entries_cache_set' = DOMAIN entries_cache_set \cup {base}
      /\ DOMAIN files' \subseteq DOMAIN files \cup {base} /\ DOMAIN files \subseteq DOMAIN files'
      /\ \A b \in DOMAIN entries_cache_set : b # base => entries_cache_set'[b] = entries_cache_set[b]
      /\ \A b \in DOMAIN files : b # base => files'[b] = files[b]
  BY <1>1, OthersSame
<1>4. /\ base \in DOMAIN entries_cache_set' /\ base \in DOMAIN files'
      /\ PartlyFilled(base) => files' = files /\ Begins(files'[base], entries_cache_set'[base])
      /\ ~PartlyFilled(base) => files'[base] = entries_cache_set'[base]
      /\ PartlyFilled(base) /\ base \in DOMAIN fds => fds[base] # "rdwr"
      /\ ~PartlyFilled(base) => base \in DOMAIN fds /\ fds[base] = "rdwr"
  BY <1>2 DEF Written
<1>5. start' = start /\ server.pc = "addToEntryCache" /\ StripeUnit \in Nat
  BY Constants DEF AddToEntryCache
<1>6. \A b : PartlyFilled(b)' <=> PartlyFilled(b)
  BY <1>5, PartlySame
<1>7. entries_cache_set'[base] \in Seq(Int)
  <2>1. IInv'
    BY AddToEntryCacheKeeps
  <2>2. base \in DOMAIN Known' /\ Known'[base] = entries_cache_set'[base]
    BY <1>4 DEF Known
  <2>3. MapOK(Known, AtPrimary)'
    BY <2>1 DEF IInv, CacheInv
  <2>4. PICK l \in 1..StripeUnit : Known'[base] = Row(base, l) /\ base \in Nat
    BY <2>2, <2>3 DEF MapOK, Holds, IsBase
  <2>5. l \in Nat
    BY <1>5
  <2> QED
    BY <2>2, <2>4, <2>5, RowSeq
<1>8. CacheIsOnDisk'
  <2>1. ASSUME NEW b \in DOMAIN entries_cache_set'
        PROVE  /\ b \in DOMAIN files'
               /\ IF PartlyFilled(b) THEN Begins(files'[b], entries_cache_set'[b])
                                     ELSE files'[b] = entries_cache_set'[b]
    <3>1. CASE b = base
      BY <1>4, <3>1
    <3>2. CASE b # base
      <4>1. b \in DOMAIN entries_cache_set
        BY <1>3, <3>2
      <4>2. /\ b \in DOMAIN files
            /\ IF PartlyFilled(b) THEN Begins(files[b], entries_cache_set[b])
                                  ELSE files[b] = entries_cache_set[b]
        BY <4>1 DEF DiskInv, CacheIsOnDisk
      <4>3. b \in DOMAIN files' /\ files'[b] = files[b] /\ entries_cache_set'[b] = entries_cache_set[b]
        BY <1>3, <3>2, <4>1, <4>2
      <4> QED
        BY <4>2, <4>3
    <3> QED
      BY <3>1, <3>2
  <2> QED
    BY <1>6, <2>1 DEF CacheIsOnDisk, Begins
<1>9. ASSUME NEW b \in DOMAIN entries_cache_set', Len(entries_cache_set'[b]) < StripeUnit,
             ~PartlyFilled(b)
      PROVE  b \in DOMAIN entries_fd_set' /\ entries_fd_set'[b] = "rdwr"
  <2>1. CASE b = base
    <3>1. Len(entries_cache_set'[base]) \in Nat
      BY <1>7
    <3>2. ~FullAt(Len(entries_cache_set'[base]))
      BY <1>5, <1>9, <2>1, <3>1 DEF FullAt
    <3>3. entries_fd_set' = fds
      BY <1>2, <3>2
    <3> QED
      BY <1>4, <1>9, <2>1, <3>3
  <2>2. CASE b # base
    <3>1. b \in DOMAIN entries_cache_set /\ entries_cache_set'[b] = entries_cache_set[b]
      BY <1>3, <2>2
    <3>2. b \in DOMAIN Known /\ Known[b] = entries_cache_set[b]
      BY <3>1 DEF Known
    <3>3. Len(Known[b]) = StripeUnit
      BY <1>1, <1>5, <2>2, <3>2, BatchStripe
    <3> QED
      BY <1>5, <1>9, <3>1, <3>2, <3>3
  <2> QED
    BY <2>1, <2>2
<1>10. ASSUME NEW b \in DOMAIN entries_fd_set', PartlyFilled(b) PROVE entries_fd_set'[b] # "rdwr"
  <2>1. b \in DOMAIN fds /\ entries_fd_set'[b] \in {fds[b], "closed"}
    <3>1. CASE entries_fd_set' = fds
      BY <3>1
    <3>2. CASE entries_fd_set' \in WriteFromCacheToDisk(fds, base)
      BY <3>2, ClosesOnly
    <3> QED
      BY <1>2, <3>1, <3>2
  <2>2. fds[b] # "rdwr"
    <3>1. CASE b = base
      BY <1>4, <1>10, <2>1, <3>1
    <3>2. CASE b # base
      BY <1>2, <1>10, <2>1, <3>2 DEF OthersKept, DiskInv
    <3> QED
      BY <3>1, <3>2
  <2> QED
    BY <2>1, <2>2
<1>11. ASSUME NEW b, PartlyFilled(b) PROVE b \in DOMAIN files'
  BY <1>3, <1>11 DEF DiskInv
<1>12. ASSUME NEW b \in DOMAIN files' \ DOMAIN entries_cache_set'
       PROVE  PartlyFilled(b) \/ Len(files'[b]) = StripeUnit
  <2>1. b # base /\ b \in DOMAIN files \ DOMAIN entries_cache_set
    BY <1>3
  <2>2. files'[b] = files[b]
    BY <1>3, <2>1
  <2> QED
    BY <2>1, <2>2 DEF DiskInv
<1>13. ASSUME NEW b \in DOMAIN files' PROVE files'[b] \in Seq(Int)
  <2>1. CASE b # base
    <3>1. b \in DOMAIN files /\ files'[b] = files[b]
      BY <1>3, <2>1
    <3> QED
      BY <3>1 DEF DiskInv
  <2>2. CASE b = base /\ PartlyFilled(base)
    BY <1>4, <2>2 DEF DiskInv
  <2>3. CASE b = base /\ ~PartlyFilled(base)
    BY <1>4, <1>7, <2>3
  <2> QED
    BY <2>1, <2>2, <2>3
<1> QED
  BY <1>6, <1>8, <1>9, <1>10, <1>11, <1>12, <1>13 DEF DiskInv

\* Loading a stripe from its file makes memory the same as the file.
LEMMA LoadDisk ==
    ASSUME IInv, DiskInv, NEW r \in Readers, LoadFromDiskToCache(r)
    PROVE  DiskInv'
<1>1. files' = files /\ start' = start
  BY DEF LoadFromDiskToCache, shardVars
<1>2. \A b : PartlyFilled(b)' <=> PartlyFilled(b)
  BY <1>1, PartlySame
<1>3. PICK stripe : stripe = BaseIdx(idx[r])
  OBVIOUS
<1>4. \/ entries_cache_set' = entries_cache_set /\ entries_fd_set' = entries_fd_set
      \/ /\ stripe \notin DOMAIN entries_cache_set /\ stripe \in DOMAIN files
         /\ entries_cache_set' = Put(entries_cache_set, stripe, files[stripe])
         /\ entries_fd_set' = LoadedFds(stripe)
  BY <1>3 DEF LoadFromDiskToCache, Loadable, LoadedCache, cacheVars
<1>5. CASE entries_cache_set' = entries_cache_set /\ entries_fd_set' = entries_fd_set
  BY <1>1, <1>2, <1>5 DEF DiskInv, CacheIsOnDisk, Begins
<1>6. CASE /\ stripe \notin DOMAIN entries_cache_set /\ stripe \in DOMAIN files
           /\ entries_cache_set' = Put(entries_cache_set, stripe, files[stripe])
           /\ entries_fd_set' = LoadedFds(stripe)
  <2>1. /\ DOMAIN entries_cache_set' = DOMAIN entries_cache_set \cup {stripe}
        /\ \A b \in DOMAIN entries_cache_set : entries_cache_set'[b] = entries_cache_set[b]
        /\ entries_cache_set'[stripe] = files[stripe]
    BY <1>6 DEF Put
  <2>2. entries_fd_set' = entries_fd_set \/ entries_fd_set' = Put(entries_fd_set, stripe, "rdonly")
    BY <1>6 DEF LoadedFds
  <2>3. /\ DOMAIN entries_fd_set \subseteq DOMAIN entries_fd_set'
        /\ \A b \in DOMAIN entries_fd_set' :
              \/ b \in DOMAIN entries_fd_set /\ entries_fd_set'[b] = entries_fd_set[b]
              \/ b = stripe /\ entries_fd_set'[b] = "rdonly"
    BY <2>2 DEF Put
  <2>4. PartlyFilled(stripe) \/ Len(files[stripe]) = StripeUnit
    BY <1>6 DEF DiskInv
  <2>5. Begins(files[stripe], files[stripe])
    BY DEF Begins
  <2>6. CacheIsOnDisk'
    <3>1. ASSUME NEW b \in DOMAIN entries_cache_set'
          PROVE  /\ b \in DOMAIN files
                 /\ IF PartlyFilled(b) THEN Begins(files[b], entries_cache_set'[b])
                                       ELSE files[b] = entries_cache_set'[b]
      <4>1. CASE b = stripe
        BY <1>6, <2>1, <2>5, <4>1
      <4>2. CASE b # stripe
        BY <2>1, <4>2 DEF DiskInv, CacheIsOnDisk
      <4> QED
        BY <4>1, <4>2
    <3> QED
      BY <1>1, <1>2, <3>1 DEF CacheIsOnDisk, Begins
  <2>7. ASSUME NEW b \in DOMAIN entries_cache_set', Len(entries_cache_set'[b]) < StripeUnit,
               ~PartlyFilled(b)
        PROVE  b \in DOMAIN entries_fd_set' /\ entries_fd_set'[b] = "rdwr"
    <3>1. b # stripe
      BY <2>1, <2>4, <2>7, Constants
    <3>2. b \in DOMAIN entries_fd_set /\ entries_fd_set[b] = "rdwr"
      BY <2>1, <2>7, <3>1 DEF DiskInv
    <3> QED
      BY <2>3, <3>1, <3>2
  <2>8. ASSUME NEW b \in DOMAIN entries_fd_set', PartlyFilled(b) PROVE entries_fd_set'[b] # "rdwr"
    BY <2>3, <2>8 DEF DiskInv
  <2>9. /\ \A b : PartlyFilled(b) => b \in DOMAIN files
        /\ \A b \in DOMAIN files \ DOMAIN entries_cache_set' :
              PartlyFilled(b) \/ Len(files[b]) = StripeUnit
        /\ \A b \in DOMAIN files : files[b] \in Seq(Int)
    BY <2>1 DEF DiskInv
  <2> QED
    BY <1>1, <1>2, <2>6, <2>7, <2>8, <2>9 DEF DiskInv
<1> QED
  BY <1>4, <1>5, <1>6

\* Every step keeps memory and files in step.
LEMMA NextDisk == IInv /\ DiskInv /\ [Next]_vars => DiskInv'
<1> SUFFICES ASSUME IInv, DiskInv, [Next]_vars PROVE DiskInv'
  OBVIOUS
<1>1. ASSUME entries_cache_set' = entries_cache_set, files' = files,
             entries_fd_set' = entries_fd_set, start' = start
      PROVE  DiskInv'
  <2>1. \A b : PartlyFilled(b)' <=> PartlyFilled(b)
    BY <1>1, PartlySame
  <2> QED
    BY <1>1, <2>1 DEF DiskInv, CacheIsOnDisk, Begins
<1>2. CASE AddToEntryCache
  BY <1>2, AddToEntryCacheDisk
<1>3. ASSUME NEW r \in Readers, LoadFromDiskToCache(r) PROVE DiskInv'
  BY <1>3, LoadDisk
<1>4. CASE SetReplicated \/ UpdateGlobalIdx \/ AppendBatch
  BY <1>1, <1>4 DEF SetReplicated, UpdateGlobalIdx, AppendBatch, storeVars, cacheVars
<1>5. CASE \E b \in Backups : ReplicateBatch(b)
  BY <1>1, <1>5 DEF ReplicateBatch, storeVars, cacheVars
<1>6. CASE \E r \in Readers : ReadEntry(r) \/ CheckCache(r) \/ Relock(r) \/ SpuriousWake(r)
  BY <1>1, <1>6 DEF ReadEntry, CheckCache, Relock, SpuriousWake, shardVars, cacheVars
<1>7. CASE UNCHANGED vars
  BY <1>1, <1>7 DEF vars, shardVars, cacheVars
<1> QED
  BY <1>2, <1>3, <1>4, <1>5, <1>6, <1>7 DEF Next, ServerStep, ReadStep

\* addToEntryCache, writeFromCacheToDisk and loadFromDiskToCache: whatever log
\* the shard starts with, what the primary has in memory it has in its files,
\* also across the batch that completes a file and closes it; only the file that
\* was partly filled at the start holds no more than the first entries of its
\* stripe.
THEOREM CacheIsOnDiskThm == Spec => []CacheIsOnDisk
<1>1. Init => DiskInv
  BY InitDisk
<1>2. DiskInv => CacheIsOnDisk
  BY DEF DiskInv
<1> QED
  BY Invariance, NextDisk, <1>1, <1>2, PTL DEF Spec

=============================================================================
