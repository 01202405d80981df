-------------------- MODULE ShardServerUnoptimizedProofs --------------------
(***************************************************************************)
(* The shard server without the cache finds every entry where it looks for *)
(* it, for every striping, all lengths of the entries and every cut of the *)
(* log into batches.                                                       *)
(*                                                                         *)
(* "Laid" says what MultiSerializer makes of a run of entries: words, with *)
(* an offset for each entry.  It holds of a batch, of a file, and of a     *)
(* file with a batch behind it, and from it follow the map that            *)
(* processEntriesAndBuildMap builds, the number of entries it counts and   *)
(* the words a read takes out.  The invariant says of each store how much  *)
(* of the log it holds, in terms of where the batch under way begins.      *)
(***************************************************************************)
EXTENDS ShardServerUnoptimized, StripeTheorems, FiniteSetTheorems, SequenceTheorems,
        WellFoundedInduction, TLAPS

-----------------------------------------------------------------------------
(* Words laid out one entry behind the other *)

\* The k-th entry of the shard from entry f on.
At(f, k) == f + (k - 1) * ShardNum

Words == Seq(Nat \X Nat)

\* w holds n entries from f on, each with its length, the k-th at off[k].
Laid(w, f, n, off, size) ==
    /\ w \in Words
    /\ off \in [1..(n + 1) -> Nat] /\ off[1] = 0 /\ off[n + 1] = Len(w)
    /\ \A k \in 1..n :
          /\ size[At(f, k)] \in Nat \ {0} /\ off[k + 1] = off[k] + size[At(f, k)]
          /\ \A j \in (k + 1)..(n + 1) : off[k + 1] <= off[j]
          /\ \A p \in 1..size[At(f, k)] : w[off[k] + p] = <<At(f, k), p>>
    /\ \A q \in 1..Len(w) : \E k \in 1..n : q \in (off[k] + 1)..off[k + 1]

\* What the lemmas need of the constants.
LEMMA Consts ==
    /\ ShardNum \in Nat \ {0} /\ StripeUnit \in Nat \ {0} /\ ShardId \in 0..(ShardNum - 1)
BY UnoptimizedAssumption

USE Consts

\* The entries of the shard are steps of ShardNum apart.
LEMMA AtFacts ==
    ASSUME NEW f \in Nat, NEW k \in Nat \ {0}
    PROVE  /\ At(f, k) \in Nat /\ f <= At(f, k) /\ At(f, 1) = f /\ At(f, k + 1) = At(f, k) + ShardNum
           /\ \A m \in Nat \ {0} : At(At(f, k), m) = At(f, k + m - 1)
<1> DEFINE d == (k - 1) * ShardNum
<1>1. d \in Nat /\ (1 - 1) * ShardNum = 0 /\ ((k + 1) - 1) * ShardNum = d + ShardNum
  OBVIOUS
<1>2. ASSUME NEW m \in Nat \ {0} PROVE ((k + m - 1) - 1) * ShardNum = d + (m - 1) * ShardNum
  OBVIOUS
<1>3. ASSUME NEW m \in Nat \ {0} PROVE At(At(f, k), m) = At(f, k + m - 1)
  <2>1. (m - 1) * ShardNum \in Nat
    OBVIOUS
  <2> QED
    BY <1>1, <1>2, <2>1 DEF At
<1> QED
  BY <1>1, <1>3 DEF At

\* Later entries have larger indexes.
LEMMA AtGrows ==
    ASSUME NEW f \in Nat, NEW j \in Nat \ {0}, NEW k \in Nat \ {0}, j < k
    PROVE  At(f, j) + ShardNum <= At(f, k)
<1>1. \A c \in Nat, x \in Nat, y \in Nat : x + 1 <= y => x * c + c <= y * c
  OBVIOUS
<1>2. (j - 1) * ShardNum + ShardNum <= (k - 1) * ShardNum
  BY <1>1
<1>3. (j - 1) * ShardNum \in Nat /\ (k - 1) * ShardNum \in Nat
  OBVIOUS
<1> QED
  BY <1>2, <1>3 DEF At

\* Different entries have different indexes.
LEMMA AtInjective ==
    ASSUME NEW f \in Nat, NEW j \in Nat \ {0}, NEW k \in Nat \ {0}, At(f, j) = At(f, k)
    PROVE  j = k
<1>1. At(f, j) \in Nat /\ At(f, k) \in Nat
  BY AtFacts
<1>2. ~(j < k)
  BY <1>1, AtGrows
<1>3. ~(k < j)
  BY <1>1, AtGrows
<1> QED
  BY <1>2, <1>3

\* Offsets up to an entry and past it.
LEMMA OffGrows ==
    ASSUME NEW w, NEW f \in Nat, NEW n \in Nat, NEW off, NEW size, Laid(w, f, n, off, size),
           NEW k \in 1..n
    PROVE  /\ k \in 1..(n + 1) /\ k + 1 \in 1..(n + 1)
           /\ off[k] \in Nat /\ off[k + 1] \in Nat /\ off[k] < off[k + 1] /\ off[k + 1] <= Len(w)
           /\ size[At(f, k)] \in Nat \ {0} /\ off[k + 1] = off[k] + size[At(f, k)]
           /\ Len(w) \in Nat /\ At(f, k) \in Nat
<1>1. off \in [1..(n + 1) -> Nat] /\ off[n + 1] = Len(w) /\ w \in Words
  BY DEF Laid
<1>2. k \in 1..(n + 1) /\ k + 1 \in 1..(n + 1) /\ n + 1 \in (k + 1)..(n + 1)
  OBVIOUS
<1>3. /\ size[At(f, k)] \in Nat \ {0} /\ off[k + 1] = off[k] + size[At(f, k)]
      /\ \A j \in (k + 1)..(n + 1) : off[k + 1] <= off[j]
  BY DEF Laid
<1>4. off[k] \in Nat /\ off[k + 1] \in Nat
  BY <1>1, <1>2
<1>5. off[k + 1] <= Len(w)
  BY <1>1, <1>2, <1>3
<1>6. Len(w) \in Nat
  BY <1>1 DEF Words
<1>7. At(f, k) \in Nat
  <2>1. k \in Nat \ {0}
    OBVIOUS
  <2> QED
    BY <2>1, AtFacts
<1>8. off[k] < off[k + 1]
  BY <1>3, <1>4
<1> QED
  BY <1>2, <1>3, <1>4, <1>5, <1>6, <1>7, <1>8

\* One entry by itself.
LEMMA LaidOne ==
    ASSUME NEW f \in Nat, NEW size, size[f] \in Nat \ {0}
    PROVE  Laid(Image(f, size[f]), f, 1, [k \in 1..2 |-> IF k = 1 THEN 0 ELSE size[f]], size)
<1> DEFINE m == size[f]
           w == Image(f, m)
           off == [k \in 1..2 |-> IF k = 1 THEN 0 ELSE m]
<1>1. m \in Nat \ {0} /\ At(f, 1) = f
  BY AtFacts
<1> HIDE DEF m
<1>2. w \in Words /\ Len(w) = m /\ \A p \in 1..m : w[p] = <<f, p>>
  BY <1>1 DEF Image, Words
<1> HIDE DEF w
<1>3. off \in [1..(1 + 1) -> Nat] /\ off[1] = 0 /\ off[1 + 1] = m
  BY <1>1
<1> HIDE DEF off
<1>4. ASSUME NEW k \in 1..1
      PROVE  /\ size[At(f, k)] \in Nat \ {0} /\ off[k + 1] = off[k] + size[At(f, k)]
             /\ \A j \in (k + 1)..(1 + 1) : off[k + 1] <= off[j]
             /\ \A p \in 1..size[At(f, k)] : w[off[k] + p] = <<At(f, k), p>>
  <2>1. k = 1 /\ size[At(f, k)] = m
    BY <1>1 DEF m
  <2>2. \A p \in 1..m : w[off[1] + p] = <<f, p>>
    BY <1>1, <1>2, <1>3
  <2> QED
    BY <1>1, <1>2, <1>3, <2>1, <2>2
<1>5. ASSUME NEW q \in 1..Len(w) PROVE \E k \in 1..1 : q \in (off[k] + 1)..off[k + 1]
  <2>1. q \in (off[1] + 1)..off[1 + 1]
    BY <1>1, <1>2, <1>3
  <2> QED
    BY <2>1
<1>6. Laid(w, f, 1, off, size)
  BY <1>2, <1>3, <1>4, <1>5 DEF Laid
<1> QED
  BY <1>6 DEF w, off, m

\* The words of a sequence of two stretches.
LEMMA WordsConcat ==
    ASSUME NEW w \in Words, NEW v \in Words
    PROVE  /\ w \o v \in Words /\ Len(w) \in Nat /\ Len(v) \in Nat
           /\ Len(w \o v) = Len(w) + Len(v)
           /\ \A q \in 1..Len(w) : (w \o v)[q] = w[q]
           /\ \A q \in 1..Len(v) : (w \o v)[Len(w) + q] = v[q]
<1>1. w \o v \in Words /\ Len(w) \in Nat /\ Len(v) \in Nat /\ Len(w \o v) = Len(w) + Len(v)
  BY ConcatProperties DEF Words
<1>2. ASSUME NEW q \in 1..Len(w) PROVE (w \o v)[q] = w[q]
  BY <1>1, ConcatProperties DEF Words
<1>3. ASSUME NEW q \in 1..Len(v) PROVE (w \o v)[Len(w) + q] = v[q]
  <2>1. (w \o v)[Len(w) + q] = v[(Len(w) + q) - Len(w)]
    BY <1>1, ConcatProperties DEF Words
  <2>2. (Len(w) + q) - Len(w) = q
    BY <1>1
  <2> QED
    BY <2>1, <2>2
<1> QED
  BY <1>1, <1>2, <1>3

\* A word of an entry that ends by a.
LEMMA WithinEntry ==
    ASSUME NEW c \in Nat, NEW z \in Nat, NEW a \in Nat, c + z <= a, NEW p \in 1..z
    PROVE  c + p \in 1..a
OBVIOUS

\* The offsets of two stretches, one behind the other.
OffConcat(off, n, off2, m) ==
    [k \in 1..(n + m + 1) |-> IF k <= n + 1 THEN off[k] ELSE off[n + 1] + off2[k - n]]

\* Entries laid out behind others, the first of them next to the last of those.
LEMMA LaidConcat ==
    ASSUME NEW f \in Nat, NEW size,
           NEW w, NEW n \in Nat, NEW off, Laid(w, f, n, off, size),
           NEW v, NEW m \in Nat, NEW off2, Laid(v, At(f, n + 1), m, off2, size)
    PROVE  Laid(w \o v, f, n + m, OffConcat(off, n, off2, m), size)
<1> DEFINE g == At(f, n + 1)
           x == w \o v
           a == Len(w)
           b == Len(v)
           o == OffConcat(off, n, off2, m)
<1>1. /\ w \in Words /\ v \in Words /\ off \in [1..(n + 1) -> Nat] /\ off2 \in [1..(m + 1) -> Nat]
      /\ off[1] = 0 /\ off[n + 1] = a /\ off2[1] = 0 /\ off2[m + 1] = b
  BY DEF Laid
<1>2. /\ x \in Words /\ a \in Nat /\ b \in Nat /\ Len(x) = a + b
      /\ \A q \in 1..a : x[q] = w[q]
      /\ \A q \in 1..b : x[a + q] = v[q]
  BY <1>1, WordsConcat
<1>3. g \in Nat /\ \A j \in 1..m : At(g, j) = At(f, n + j)
  <2>1. g \in Nat
    BY AtFacts
  <2>2. ASSUME NEW j \in 1..m PROVE At(g, j) = At(f, n + j)
    <3>1. j \in Nat \ {0} /\ n + 1 \in Nat \ {0} /\ (n + 1) + j - 1 = n + j
      OBVIOUS
    <3> QED
      BY <3>1, AtFacts
  <2> QED
    BY <2>1, <2>2
<1>4. \A k \in 1..(n + 1) : o[k] = off[k]
  BY <1>1 DEF OffConcat
<1>5. ASSUME NEW j \in 1..(m + 1) PROVE o[n + j] = a + off2[j]
  <2>1. n + j \in 1..(n + m + 1) /\ (n + j) - n = j
    OBVIOUS
  <2>2. CASE j = 1
    BY <1>1, <1>2, <1>4, <2>2
  <2>3. CASE j > 1
    <3>1. ~(n + j <= n + 1)
      BY <2>3
    <3> QED
      BY <1>1, <2>1, <3>1 DEF OffConcat
  <2> QED
    BY <2>2, <2>3
<1>6. o \in [1..(n + m + 1) -> Nat]
  <2>1. ASSUME NEW k \in 1..(n + m + 1) PROVE o[k] \in Nat
    <3>1. CASE k <= n + 1
      BY <1>1, <1>4, <3>1
    <3>2. CASE k > n + 1
      <4>1. k - n \in 1..(m + 1) /\ n + (k - n) = k
        BY <3>2
      <4>2. o[k] = a + off2[k - n] /\ off2[k - n] \in Nat
        BY <1>1, <1>5, <4>1
      <4> QED
        BY <1>2, <4>2
    <3> QED
      BY <3>1, <3>2
  <2>2. o = [k \in 1..(n + m + 1) |-> o[k]]
    BY DEF OffConcat
  <2> HIDE DEF o
  <2> QED
    BY <2>1, <2>2
<1>7. o[1] = 0 /\ o[n + m + 1] = Len(x)
  <2>1. m + 1 \in 1..(m + 1) /\ n + (m + 1) = n + m + 1 /\ 1 \in 1..(n + 1)
    OBVIOUS
  <2> QED
    BY <1>1, <1>2, <1>4, <1>5, <2>1
<1> HIDE DEF o, x, a, b, g
<1>8. ASSUME NEW k \in 1..n
      PROVE  /\ size[At(f, k)] \in Nat \ {0} /\ o[k + 1] = o[k] + size[At(f, k)]
             /\ \A j \in (k + 1)..(n + m + 1) : o[k + 1] <= o[j]
             /\ \A p \in 1..size[At(f, k)] : x[o[k] + p] = <<At(f, k), p>>
  <2>1. /\ off[k] \in Nat /\ off[k + 1] \in Nat /\ off[k + 1] <= a
        /\ size[At(f, k)] \in Nat \ {0} /\ off[k + 1] = off[k] + size[At(f, k)]
        /\ \A p \in 1..size[At(f, k)] : w[off[k] + p] = <<At(f, k), p>>
        /\ \A j \in (k + 1)..(n + 1) : off[k + 1] <= off[j]
    <3>1. /\ k \in 1..(n + 1) /\ k + 1 \in 1..(n + 1)
          /\ off[k] \in Nat /\ off[k + 1] \in Nat /\ off[k] < off[k + 1] /\ off[k + 1] <= Len(w)
          /\ size[At(f, k)] \in Nat \ {0} /\ off[k + 1] = off[k] + size[At(f, k)]
          /\ Len(w) \in Nat /\ At(f, k) \in Nat
      BY OffGrows, Zenon
    <3>2. /\ \A p \in 1..size[At(f, k)] : w[off[k] + p] = <<At(f, k), p>>
          /\ \A j \in (k + 1)..(n + 1) : off[k + 1] <= off[j]
      BY DEF Laid
    <3> QED
      BY <3>1, <3>2 DEF a
  <2>2. k \in 1..(n + 1) /\ k + 1 \in 1..(n + 1) /\ o[k] = off[k] /\ o[k + 1] = off[k + 1]
    BY <1>4
  <2>3. ASSUME NEW j \in (k + 1)..(n + m + 1) PROVE o[k + 1] <= o[j]
    <3>1. CASE j <= n + 1
      BY <1>4, <2>1, <2>2, <3>1
    <3>2. CASE j > n + 1
      <4>1. j - n \in 1..(m + 1) /\ n + (j - n) = j
        BY <3>2
      <4>2. o[j] = a + off2[j - n] /\ off2[j - n] \in Nat
        BY <1>1, <1>5, <4>1
      <4> QED
        BY <1>2, <2>1, <2>2, <4>2
    <3> QED
      BY <3>1, <3>2
  <2>4. ASSUME NEW p \in 1..size[At(f, k)] PROVE x[o[k] + p] = <<At(f, k), p>>
    <3>0. off[k] \in Nat /\ size[At(f, k)] \in Nat /\ off[k] + size[At(f, k)] <= a
      BY <2>1
    <3>1. off[k] + p \in 1..a
      BY <1>2, <3>0, WithinEntry
    <3> QED
      BY <1>2, <2>1, <2>2, <3>1
  <2> QED
    BY <2>1, <2>2, <2>3, <2>4
<1>9. ASSUME NEW i \in 1..m
      PROVE  /\ size[At(f, n + i)] \in Nat \ {0} /\ o[n + i + 1] = o[n + i] + size[At(f, n + i)]
             /\ \A j \in (n + i + 1)..(n + m + 1) : o[n + i + 1] <= o[j]
             /\ \A p \in 1..size[At(f, n + i)] : x[o[n + i] + p] = <<At(f, n + i), p>>
  <2>0. Laid(v, g, m, off2, size)
    BY DEF g
  <2>1. /\ off2[i] \in Nat /\ off2[i + 1] \in Nat /\ off2[i + 1] <= b
        /\ size[At(g, i)] \in Nat \ {0} /\ off2[i + 1] = off2[i] + size[At(g, i)]
        /\ \A p \in 1..size[At(g, i)] : v[off2[i] + p] = <<At(g, i), p>>
        /\ \A j \in (i + 1)..(m + 1) : off2[i + 1] <= off2[j]
    <3>1. /\ i \in 1..(m + 1) /\ i + 1 \in 1..(m + 1)
          /\ off2[i] \in Nat /\ off2[i + 1] \in Nat /\ off2[i] < off2[i + 1] /\ off2[i + 1] <= Len(v)
          /\ size[At(g, i)] \in Nat \ {0} /\ off2[i + 1] = off2[i] + size[At(g, i)]
          /\ Len(v) \in Nat /\ At(g, i) \in Nat
      BY <1>3, <2>0, OffGrows, Zenon
    <3>2. /\ \A p \in 1..size[At(g, i)] : v[off2[i] + p] = <<At(g, i), p>>
          /\ \A j \in (i + 1)..(m + 1) : off2[i + 1] <= off2[j]
      BY <2>0 DEF Laid
    <3> QED
      BY <3>1, <3>2 DEF b
  <2>2. At(g, i) = At(f, n + i)
    BY <1>3
  <2>3. o[n + i] = a + off2[i] /\ o[n + i + 1] = a + off2[i + 1]
    <3>1. i \in 1..(m + 1) /\ i + 1 \in 1..(m + 1) /\ n + (i + 1) = n + i + 1
      OBVIOUS
    <3> QED
      BY <1>5, <3>1
  <2>4. ASSUME NEW j \in (n + i + 1)..(n + m + 1) PROVE o[n + i + 1] <= o[j]
    <3>1. j - n \in (i + 1)..(m + 1) /\ j - n \in 1..(m + 1) /\ n + (j - n) = j
      OBVIOUS
    <3>2. o[j] = a + off2[j - n] /\ off2[j - n] \in Nat /\ off2[i + 1] <= off2[j - n]
      BY <1>1, <1>5, <2>1, <3>1
    <3> QED
      BY <1>2, <2>1, <2>3, <3>2
  <2>5. ASSUME NEW p \in 1..size[At(f, n + i)] PROVE x[o[n + i] + p] = <<At(f, n + i), p>>
    <3>0. off2[i] \in Nat /\ size[At(f, n + i)] \in Nat /\ off2[i] + size[At(f, n + i)] <= b
      BY <2>1, <2>2
    <3>1. off2[i] + p \in 1..b /\ o[n + i] + p = a + (off2[i] + p)
      <4>1. off2[i] + p \in 1..b
        BY <1>2, <3>0, WithinEntry
      <4>2. (a + off2[i]) + p = a + (off2[i] + p)
        BY <1>2, <3>0
      <4> QED
        BY <2>3, <4>1, <4>2
    <3>2. v[off2[i] + p] = <<At(f, n + i), p>>
      BY <2>1, <2>2
    <3> QED
      BY <1>2, <3>1, <3>2
  <2>6. o[n + i + 1] = o[n + i] + size[At(f, n + i)]
    <3>1. off2[i] \in Nat /\ size[At(f, n + i)] \in Nat /\ off2[i + 1] = off2[i] + size[At(f, n + i)]
      BY <2>1, <2>2
    <3> QED
      BY <1>2, <2>3, <3>1
  <2> QED
    BY <2>1, <2>2, <2>4, <2>5, <2>6
<1>10. ASSUME NEW k \in 1..(n + m)
       PROVE  /\ size[At(f, k)] \in Nat \ {0} /\ o[k + 1] = o[k] + size[At(f, k)]
              /\ \A j \in (k + 1)..(n + m + 1) : o[k + 1] <= o[j]
              /\ \A p \in 1..size[At(f, k)] : x[o[k] + p] = <<At(f, k), p>>
  <2>1. CASE k <= n
    BY <1>8, <2>1
  <2>2. CASE k > n
    <3>1. k - n \in 1..m /\ n + (k - n) = k
      BY <2>2
    <3> QED
      BY <1>9, <3>1
  <2> QED
    BY <2>1, <2>2
<1>11. ASSUME NEW q \in 1..Len(x) PROVE \E k \in 1..(n + m) : q \in (o[k] + 1)..o[k + 1]
  <2>1. CASE q <= a
    <3>1. q \in 1..a
      BY <1>2, <2>1
    <3>2. PICK k \in 1..n : q \in (off[k] + 1)..off[k + 1]
      BY <3>1 DEF Laid, a
    <3>3. k \in 1..(n + m) /\ k \in 1..(n + 1) /\ k + 1 \in 1..(n + 1)
      OBVIOUS
    <3> QED
      BY <1>4, <3>2, <3>3
  <2>2. CASE q > a
    <3>1. q - a \in 1..b /\ q \in Nat
      BY <1>2, <2>2
    <3>2. PICK i \in 1..m : q - a \in (off2[i] + 1)..off2[i + 1]
      BY <3>1 DEF Laid, b
    <3>3. i \in 1..(m + 1) /\ i + 1 \in 1..(m + 1) /\ n + i \in 1..(n + m) /\ n + (i + 1) = (n + i) + 1
      OBVIOUS
    <3>4. off2[i] \in Nat /\ off2[i + 1] \in Nat /\ o[n + i] = a + off2[i] /\ o[(n + i) + 1] = a + off2[i + 1]
      BY <1>1, <1>5, <3>3
    <3>5. q \in (o[n + i] + 1)..o[(n + i) + 1]
      <4> DEFINE c == off2[i]
                 d == off2[i + 1]
      <4>1. c \in Nat /\ d \in Nat /\ a \in Nat /\ q - a \in (c + 1)..d
        BY <1>2, <3>2, <3>4
      <4> HIDE DEF c, d
      <4>2. q \in (a + c + 1)..(a + d)
        BY <3>1, <4>1
      <4> QED
        BY <3>4, <4>2 DEF c, d
    <3> QED
      BY <3>3, <3>5
  <2>3. q \in Nat
    BY <1>2
  <2> QED
    BY <1>2, <2>1, <2>2, <2>3
<1>12. Laid(x, f, n + m, o, size)
  BY <1>2, <1>6, <1>7, <1>10, <1>11 DEF Laid
<1> QED
  BY <1>12 DEF x, o

\* A set of numbers that is not empty has a least one.
LEMMA LeastExists ==
    ASSUME NEW S, S \subseteq Nat, S # {}
    PROVE  \E m \in S : \A x \in S : m <= x
<1> DEFINE R == OpToRel(<, Nat)
<1>1. IsWellFoundedOn(R, Nat)
  BY NatLessThanWellFounded, Zenon
<1>2. ASSUME NEW y \in Nat, NEW z \in Nat, ~(<<y, z>> \in R) PROVE z <= y
  BY <1>2 DEF OpToRel
<1> HIDE DEF R
<1>3. PICK m \in S : \A x \in S : ~(<<x, m>> \in R)
  BY <1>1, WFMin, Zenon
<1>4. \A x \in S : m <= x
  BY <1>2, <1>3
<1> QED
  BY <1>4

\* The sequences of s one behind the other, up to the i-th.
Joined(g, s, n) == g = [i \in 1..n |-> IF i = 1 THEN s[i] ELSE g[i - 1] \o s[i]]

\* There is such a function for every length.
LEMMA JoinedExists ==
    ASSUME NEW s, NEW n \in Nat
    PROVE  \E g : Joined(g, s, n)
<1> DEFINE S == {k \in Nat : ~ \E g : Joined(g, s, k)}
<1> SUFFICES ASSUME S # {} PROVE FALSE
  OBVIOUS
<1>1. S \subseteq Nat
  OBVIOUS
<1>2. PICK k \in S : \A x \in S : k <= x
  <2> HIDE DEF S
  <2> QED
    BY <1>1, LeastExists
<1>3. k \in Nat /\ ~ \E g : Joined(g, s, k)
  OBVIOUS
<1>4. CASE k = 0
  <2> DEFINE g == [i \in 1..0 |-> s[i]]
  <2>1. Joined(g, s, 0)
    BY DEF Joined
  <2> QED
    BY <1>3, <1>4, <2>1
<1>5. CASE k # 0
  <2>0. k - 1 \in Nat
    BY <1>3, <1>5
  <2>1. k - 1 \notin S
    BY <1>2, <1>3, <2>0
  <2>2. PICK h : Joined(h, s, k - 1)
    BY <2>0, <2>1
  <2> DEFINE g == [i \in 1..k |-> IF i < k THEN h[i] ELSE IF i = 1 THEN s[i] ELSE h[i - 1] \o s[i]]
  <2>3. ASSUME NEW i \in 1..k
        PROVE  g[i] = IF i = 1 THEN s[i] ELSE g[i - 1] \o s[i]
    <3>1. CASE i < k
      <4>1. i \in 1..(k - 1) /\ g[i] = h[i]
        BY <1>3, <3>1
      <4>2. h[i] = IF i = 1 THEN s[i] ELSE h[i - 1] \o s[i]
        BY <2>2, <4>1 DEF Joined
      <4>3. i # 1 => i - 1 \in 1..k /\ i - 1 < k
        BY <1>3, <3>1
      <4>4. i # 1 => g[i - 1] = h[i - 1]
        BY <4>3
      <4> HIDE DEF g
      <4> QED
        BY <4>1, <4>2, <4>4
    <3>2. CASE i = k
      <4>1. g[i] = IF i = 1 THEN s[i] ELSE h[i - 1] \o s[i]
        BY <1>3, <3>2
      <4>2. i # 1 => i - 1 \in 1..k /\ i - 1 < k
        BY <1>3, <3>2
      <4>3. i # 1 => g[i - 1] = h[i - 1]
        BY <4>2
      <4> HIDE DEF g
      <4> QED
        BY <4>1, <4>3
    <3> QED
      BY <1>3, <3>1, <3>2
  <2>4. g = [i \in 1..k |-> g[i]]
    OBVIOUS
  <2> HIDE DEF g
  <2>5. Joined(g, s, k)
    BY <2>3, <2>4 DEF Joined
  <2> QED
    BY <1>3, <2>5
<1> QED
  BY <1>4, <1>5

\* FlattenSeq is such a function at the last place.
LEMMA FlattenIsJoined ==
    ASSUME NEW s, Len(s) \in Nat \ {0}
    PROVE  \E g : Joined(g, s, Len(s)) /\ FlattenSeq(s) = g[Len(s)]
<1> DEFINE g == CHOOSE h : h = [i \in 1..Len(s) |-> IF i = 1 THEN s[i] ELSE h[i - 1] \o s[i]]
<1>1. FlattenSeq(s) = g[Len(s)]
  BY DEF FlattenSeq
<1>2. \E h : h = [i \in 1..Len(s) |-> IF i = 1 THEN s[i] ELSE h[i - 1] \o s[i]]
  BY JoinedExists DEF Joined
<1>3. g = [i \in 1..Len(s) |-> IF i = 1 THEN s[i] ELSE g[i - 1] \o s[i]]
  BY <1>2
<1> HIDE DEF g
<1> QED
  BY <1>1, <1>3 DEF Joined

\* MultiSerializer lays entries out one behind the other.
LEMMA LaidImages ==
    ASSUME NEW f \in Nat, NEW n \in Nat \ {0}, NEW size,
           \A k \in 1..n : size[At(f, k)] \in Nat \ {0}
    PROVE  \E off : Laid(Images([k \in 1..n |-> At(f, k)], size), f, n, off, size)
<1> DEFINE s == [k \in 1..n |-> Image(At(f, k), size[At(f, k)])]
<1>1. Images([k \in 1..n |-> At(f, k)], size) = FlattenSeq(s)
  <2> DEFINE is == [k \in 1..n |-> At(f, k)]
  <2>1. [k \in DOMAIN is |-> Image(is[k], size[is[k]])] = s
    OBVIOUS
  <2> QED
    BY <2>1 DEF Images
<1>2. Len(s) = n /\ \A k \in 1..n : s[k] = Image(At(f, k), size[At(f, k)])
  OBVIOUS
<1> HIDE DEF s
<1>3. PICK g : Joined(g, s, n) /\ FlattenSeq(s) = g[n]
  BY <1>2, FlattenIsJoined
<1>4. \A k \in 1..n : g[k] = IF k = 1 THEN s[k] ELSE g[k - 1] \o s[k]
  BY <1>3 DEF Joined
<1> DEFINE S == {k \in 1..n : ~ \E off : Laid(g[k], f, k, off, size)}
<1>5. S = {}
  <2> SUFFICES ASSUME S # {} PROVE FALSE
    OBVIOUS
  <2>1. S \subseteq Nat
    OBVIOUS
  <2>2. PICK k \in S : \A x \in S : k <= x
    <3> HIDE DEF S
    <3> QED
      BY <2>1, LeastExists
  <2>3. k \in 1..n /\ k \in Nat \ {0} /\ ~ \E off : Laid(g[k], f, k, off, size)
    OBVIOUS
  <2>4. At(f, k) \in Nat /\ size[At(f, k)] \in Nat \ {0} /\ At(f, 1) = f
    BY <2>3, AtFacts
  <2> DEFINE one == [j \in 1..2 |-> IF j = 1 THEN 0 ELSE size[At(f, k)]]
  <2>5. Laid(s[k], At(f, k), 1, one, size)
    <3> DEFINE h == At(f, k)
    <3>1. h \in Nat /\ size[h] \in Nat \ {0}
      BY <2>4
    <3> HIDE DEF h
    <3>2. Laid(Image(h, size[h]), h, 1, [j \in 1..2 |-> IF j = 1 THEN 0 ELSE size[h]], size)
      BY <3>1, LaidOne
    <3> QED
      BY <1>2, <2>3, <3>2 DEF h
  <2> HIDE DEF one, S
  <2>6. CASE k = 1
    BY <1>4, <2>3, <2>4, <2>5, <2>6
  <2>7. CASE k # 1
    <3> DEFINE j == k - 1
    <3>1. j \in 1..n /\ j \in Nat /\ k = j + 1
      BY <2>3, <2>7
    <3>2. j \notin S
      <4>1. ~(k <= j)
        BY <3>1
      <4> QED
        BY <2>2, <4>1
    <3>3. g[k] = g[j] \o s[k]
      BY <1>4, <2>3, <2>7
    <3> HIDE DEF j
    <3>4. PICK off : Laid(g[j], f, j, off, size)
      BY <3>1, <3>2 DEF S
    <3>5. Laid(g[j] \o s[k], f, j + 1, OffConcat(off, j, one, 1), size)
      BY <2>5, <3>1, <3>4, LaidConcat
    <3> QED
      BY <2>3, <3>1, <3>3, <3>5
  <2> QED
    BY <2>6, <2>7
<1>6. n \in 1..n
  OBVIOUS
<1>7. \E off : Laid(g[n], f, n, off, size)
  BY <1>5, <1>6
<1> QED
  BY <1>1, <1>3, <1>7

\* Word q of w is a word of the k-th entry.
OfEntry(w, f, off, size, q, k) ==
    \E p \in 1..size[At(f, k)] : off[k] \in Nat /\ q = off[k] + p /\ w[q] = <<At(f, k), p>>

\* Where ProcessAndBuildMap finds entry i.
Found(w, i) == SelectInSeq(w, LAMBDA x : x = <<i, 1>>)

\* Every word belongs to an entry.
LEMMA LaidWord ==
    ASSUME NEW w, NEW f \in Nat, NEW n \in Nat, NEW off, NEW size, Laid(w, f, n, off, size),
           NEW q \in 1..Len(w)
    PROVE  \E k \in 1..n : OfEntry(w, f, off, size, q, k)
<1>1. PICK k \in 1..n : q \in (off[k] + 1)..off[k + 1]
  BY DEF Laid
<1>2. /\ k \in 1..(n + 1) /\ k + 1 \in 1..(n + 1)
      /\ off[k] \in Nat /\ off[k + 1] \in Nat /\ off[k] < off[k + 1] /\ off[k + 1] <= Len(w)
      /\ size[At(f, k)] \in Nat \ {0} /\ off[k + 1] = off[k] + size[At(f, k)]
      /\ Len(w) \in Nat /\ At(f, k) \in Nat
  BY OffGrows, Zenon
<1>3. \A p \in 1..size[At(f, k)] : w[off[k] + p] = <<At(f, k), p>>
  BY DEF Laid
<1> DEFINE c == off[k]
           z == size[At(f, k)]
<1>4. c \in Nat /\ z \in Nat /\ q \in (c + 1)..(c + z) /\ \A p \in 1..z : w[c + p] = <<At(f, k), p>>
  BY <1>1, <1>2, <1>3
<1> HIDE DEF c, z
<1>5. q - c \in 1..z /\ c + (q - c) = q
  BY <1>4
<1>6. w[q] = <<At(f, k), q - c>>
  BY <1>4, <1>5
<1> QED
  BY <1>4, <1>5, <1>6 DEF c, z, OfEntry

\* The first word of an entry is where the entry starts, and nowhere else.
LEMMA LaidFirst ==
    ASSUME NEW w, NEW f \in Nat, NEW n \in Nat, NEW off, NEW size, Laid(w, f, n, off, size),
           NEW k \in 1..n
    PROVE  /\ off[k] \in Nat /\ off[k] + 1 \in 1..Len(w) /\ w[off[k] + 1] = <<At(f, k), 1>>
           /\ \A q \in 1..Len(w) : w[q] = <<At(f, k), 1>> => q = off[k] + 1
<1>1. /\ k \in 1..(n + 1) /\ k + 1 \in 1..(n + 1)
      /\ off[k] \in Nat /\ off[k + 1] \in Nat /\ off[k] < off[k + 1] /\ off[k + 1] <= Len(w)
      /\ size[At(f, k)] \in Nat \ {0} /\ off[k + 1] = off[k] + size[At(f, k)]
      /\ Len(w) \in Nat /\ At(f, k) \in Nat
  BY OffGrows, Zenon
<1>2. \A p \in 1..size[At(f, k)] : w[off[k] + p] = <<At(f, k), p>>
  BY DEF Laid
<1>3. 1 \in 1..size[At(f, k)]
  BY <1>1
<1>4. w[off[k] + 1] = <<At(f, k), 1>> /\ off[k] + 1 \in 1..Len(w)
  BY <1>1, <1>2, <1>3
<1>5. ASSUME NEW q \in 1..Len(w), w[q] = <<At(f, k), 1>> PROVE q = off[k] + 1
  <2>1. PICK j \in 1..n : OfEntry(w, f, off, size, q, j)
    BY LaidWord
  <2>2. PICK p \in 1..size[At(f, j)] : q = off[j] + p /\ w[q] = <<At(f, j), p>>
    BY <2>1 DEF OfEntry
  <2>3. At(f, j) = At(f, k) /\ p = 1
    BY <1>5, <2>2
  <2>4. j = k
    BY <2>3, AtInjective
  <2> QED
    BY <2>2, <2>3, <2>4
<1> QED
  BY <1>1, <1>4, <1>5

\* The indexes found in the words are those of the entries.
LEMMA LaidIndexes ==
    ASSUME NEW w, NEW f \in Nat, NEW n \in Nat, NEW off, NEW size, Laid(w, f, n, off, size)
    PROVE  {x[1] : x \in Range(w)} = {At(f, k) : k \in 1..n}
<1>0. w \in Words /\ Len(w) \in Nat /\ DOMAIN w = 1..Len(w)
  BY DEF Laid, Words
<1>1. ASSUME NEW x \in Range(w) PROVE x[1] \in {At(f, k) : k \in 1..n}
  <2>1. PICK q \in 1..Len(w) : x = w[q]
    BY <1>0 DEF Range
  <2>2. PICK k \in 1..n : OfEntry(w, f, off, size, q, k)
    BY LaidWord
  <2>3. PICK p : w[q] = <<At(f, k), p>>
    BY <2>2 DEF OfEntry
  <2> QED
    BY <2>1, <2>3
<1>2. ASSUME NEW k \in 1..n PROVE \E x \in Range(w) : x[1] = At(f, k)
  <2>1. off[k] + 1 \in 1..Len(w) /\ w[off[k] + 1] = <<At(f, k), 1>>
    BY LaidFirst
  <2>2. w[off[k] + 1] \in Range(w)
    BY <1>0, <2>1 DEF Range
  <2> QED
    BY <2>1, <2>2
<1> QED
  BY <1>1, <1>2

\* SelectInSeq finds where an entry starts.
LEMMA LaidSelect ==
    ASSUME NEW w, NEW f \in Nat, NEW n \in Nat, NEW off, NEW size, Laid(w, f, n, off, size),
           NEW k \in 1..n
    PROVE  Found(w, At(f, k)) = off[k] + 1
<1> DEFINE I == {q \in 1..Len(w) : w[q] = <<At(f, k), 1>>}
<1>1. off[k] \in Nat /\ off[k] + 1 \in I /\ \A q \in I : q = off[k] + 1
  <2>1. off[k] \in Nat /\ off[k] + 1 \in 1..Len(w) /\ w[off[k] + 1] = <<At(f, k), 1>>
    BY LaidFirst
  <2>2. \A q \in 1..Len(w) : w[q] = <<At(f, k), 1>> => q = off[k] + 1
    BY LaidFirst
  <2> QED
    BY <2>1, <2>2
<1>2. Found(w, At(f, k)) = IF I # {} THEN Min(I) ELSE 0
  BY DEF SelectInSeq, Found
<1> HIDE DEF I
<1>3. Min(I) = off[k] + 1
  <2>1. I = {off[k] + 1}
    BY <1>1
  <2>2. off[k] + 1 <= off[k] + 1
    BY <1>1
  <2> QED
    BY <2>1, <2>2 DEF Min
<1> QED
  BY <1>1, <1>2, <1>3

\* map says where n entries from f on start, counted from "from".
IsMap(map, f, n, off, from) ==
    /\ map = [i \in {At(f, k) : k \in 1..n} |-> map[i]]
    /\ DOMAIN map = {At(f, k) : k \in 1..n}
    /\ \A k \in 1..n : map[At(f, k)] = from + off[k]

\* The map of the offsets.
LEMMA LaidMap ==
    ASSUME NEW w, NEW f \in Nat, NEW n \in Nat, NEW off, NEW size, Laid(w, f, n, off, size),
           NEW from \in Nat
    PROVE  IsMap(ProcessAndBuildMap(w, from), f, n, off, from)
<1> DEFINE D == {x[1] : x \in Range(w)}
           m == ProcessAndBuildMap(w, from)
<1>1. D = {At(f, k) : k \in 1..n}
  BY LaidIndexes
<1>2. m = [i \in D |-> from + Found(w, i) - 1]
  BY DEF ProcessAndBuildMap, Found
<1>4. ASSUME NEW k \in 1..n PROVE Found(w, At(f, k)) = off[k] + 1
  BY LaidSelect
<1> HIDE DEF D
<1>3. ASSUME NEW k \in 1..n PROVE m[At(f, k)] = from + off[k]
  <2>1. m[At(f, k)] = from + Found(w, At(f, k)) - 1
    BY <1>1, <1>2
  <2>2. Found(w, At(f, k)) = off[k] + 1
    BY <1>4
  <2>3. off[k] \in Nat
    BY LaidFirst
  <2> QED
    BY <2>1, <2>2, <2>3
<1> HIDE DEF m
<1> QED
  BY <1>1, <1>2, <1>3 DEF m, IsMap

\* As many entries are counted as were laid out.
LEMMA LaidNum ==
    ASSUME NEW w, NEW f \in Nat, NEW n \in Nat, NEW off, NEW size, Laid(w, f, n, off, size)
    PROVE  NumOf(w) = n
<1> DEFINE T == {q \in DOMAIN w : w[q][2] = 1}
           g == [k \in 1..n |-> off[k] + 1]
<1>0. DOMAIN w = 1..Len(w) /\ w \in Words
  BY DEF Laid, Words
<1>1. ASSUME NEW k \in 1..n PROVE g[k] \in T
  <2>1. off[k] + 1 \in 1..Len(w) /\ w[off[k] + 1] = <<At(f, k), 1>>
    BY LaidFirst
  <2> QED
    BY <1>0, <2>1
<1>2. ASSUME NEW j \in 1..n, NEW k \in 1..n, g[j] = g[k] PROVE j = k
  <2>1. w[off[k] + 1] = <<At(f, k), 1>> /\ w[off[j] + 1] = <<At(f, j), 1>>
    BY LaidFirst
  <2>2. At(f, j) = At(f, k)
    BY <1>2, <2>1
  <2> QED
    BY <2>2, AtInjective
<1>3. ASSUME NEW q \in T PROVE \E k \in 1..n : g[k] = q
  <2>1. q \in 1..Len(w) /\ w[q][2] = 1
    BY <1>0
  <2>2. PICK k \in 1..n : OfEntry(w, f, off, size, q, k)
    BY <2>1, LaidWord
  <2>3. q = off[k] + 1
    BY <2>1, <2>2 DEF OfEntry
  <2> QED
    BY <2>3
<1>4. g = [k \in 1..n |-> g[k]]
  OBVIOUS
<1> HIDE DEF g, T
<1>5. g \in Bijection(1..n, T)
  <2>1. g \in [1..n -> T]
    BY <1>1, <1>4
  <2>2. IsInjective(g)
    BY <1>2, <2>1 DEF IsInjective
  <2> QED
    BY <1>3, <2>1, <2>2 DEF Bijection, Injection, Surjection
<1>6. Cardinality(T) = n
  <2>1. ExistsBijection(1..n, T)
    BY <1>5 DEF ExistsBijection
  <2> QED
    BY <2>1, FS_CountingElements
<1> QED
  BY <1>6 DEF NumOf, T

\* s is the stripe of a file of len words.
IsStripe(s, f, n, off, len) ==
    /\ s = [offset |-> s.offset, cache_size |-> len, num_entries |-> n]
    /\ IsMap(s.offset, f, n, off, 0)

\* What loadFromDiskToCache finds in a file.
LEMMA LaidLoaded ==
    ASSUME NEW w, NEW f \in Nat, NEW n \in Nat, NEW off, NEW size, Laid(w, f, n, off, size)
    PROVE  IsStripe(Loaded(w), f, n, off, Len(w))
<1> DEFINE m == ProcessAndBuildMap(w, 0)
<1>1. IsMap(m, f, n, off, 0)
  <2>1. 0 \in Nat
    OBVIOUS
  <2> QED
    BY <2>1, LaidMap
<1>2. NumOf(w) = n
  BY LaidNum
<1>3. Loaded(w) = [offset |-> m, cache_size |-> Len(w), num_entries |-> n]
  BY <1>2 DEF Loaded
<1> HIDE DEF m
<1> QED
  BY <1>1, <1>3 DEF IsStripe

\* Two maps of the same entries are equal.
LEMMA SameMap ==
    ASSUME NEW map, NEW map2, NEW f, NEW n, NEW off, NEW from,
           IsMap(map, f, n, off, from), IsMap(map2, f, n, off, from)
    PROVE  map = map2
<1>1. ASSUME NEW i \in {At(f, k) : k \in 1..n} PROVE map[i] = map2[i]
  BY DEF IsMap
<1> QED
  BY <1>1 DEF IsMap

\* A stripe that starts with a batch is what its file says.
LEMMA ExtendedNew ==
    ASSUME NEW w, NEW f \in Nat, NEW n \in Nat, NEW off, NEW size, Laid(w, f, n, off, size)
    PROVE  Extended(NoStripe, w) = Loaded(w)
<1> DEFINE m == ProcessAndBuildMap(w, 0)
<1>1. m = [i \in {At(f, k) : k \in 1..n} |-> m[i]]
  <2>1. IsMap(m, f, n, off, 0)
    <3>1. 0 \in Nat
      OBVIOUS
    <3> QED
      BY <3>1, LaidMap
  <2> QED
    BY <2>1 DEF IsMap
<1>2. NumOf(w) = n /\ Len(w) \in Nat
  <2>1. Len(w) \in Nat
    BY DEF Laid, Words
  <2> QED
    BY <2>1, LaidNum
<1>3. NoStripe.cache_size = 0 /\ NoStripe.num_entries = 0 /\ NoStripe.offset = <<>>
  BY DEF NoStripe
<1> HIDE DEF m
<1>4. Extended(NoStripe, w) =
         [offset |-> [i \in DOMAIN NoStripe.offset \cup DOMAIN m |->
                        IF i \in DOMAIN m THEN m[i] ELSE NoStripe.offset[i]],
          cache_size |-> 0 + Len(w), num_entries |-> 0 + NumOf(w)]
  BY <1>3 DEF Extended, m
<1>5. [i \in DOMAIN NoStripe.offset \cup DOMAIN m |->
                        IF i \in DOMAIN m THEN m[i] ELSE NoStripe.offset[i]] = m
  <2>1. DOMAIN NoStripe.offset = {}
    BY <1>3
  <2>2. DOMAIN NoStripe.offset \cup DOMAIN m = DOMAIN m
    BY <2>1
  <2>3. m = [i \in DOMAIN m |-> m[i]]
    BY <1>1
  <2> QED
    BY <2>2, <2>3
<1> QED
  BY <1>2, <1>4, <1>5 DEF Loaded, m

\* A stripe that goes on with a batch is what its file, grown by it, says.
LEMMA ExtendedOld ==
    ASSUME NEW f \in Nat, NEW size,
           NEW w, NEW n \in Nat, NEW off, Laid(w, f, n, off, size),
           NEW v, NEW m \in Nat, NEW off2, Laid(v, At(f, n + 1), m, off2, size)
    PROVE  Extended(Loaded(w), v) = Loaded(w \o v)
<1> DEFINE g == At(f, n + 1)
           o == OffConcat(off, n, off2, m)
           x == w \o v
           s == Loaded(w).offset
           a == ProcessAndBuildMap(v, Len(w))
           t == Loaded(x).offset
<1>1. Laid(x, f, n + m, o, size)
  BY LaidConcat
<1>2. w \in Words /\ v \in Words /\ Len(w) \in Nat /\ off[n + 1] = Len(w) /\ off \in [1..(n + 1) -> Nat]
  BY DEF Laid, Words
<1>3. IsStripe(Loaded(w), f, n, off, Len(w))
  BY LaidLoaded
<1>4. g \in Nat /\ \A j \in 1..m : At(g, j) = At(f, n + j)
  <2>1. g \in Nat
    BY AtFacts
  <2>2. ASSUME NEW j \in 1..m PROVE At(g, j) = At(f, n + j)
    <3>1. j \in Nat \ {0} /\ n + 1 \in Nat \ {0} /\ (n + 1) + j - 1 = n + j
      OBVIOUS
    <3> QED
      BY <3>1, AtFacts
  <2> QED
    BY <2>1, <2>2
<1>5. IsMap(a, g, m, off2, Len(w))
  BY <1>2, <1>4, LaidMap
<1>6. NumOf(v) = m
  BY <1>4, LaidNum
<1>7. IsStripe(Loaded(x), f, n + m, o, Len(x))
  <2>1. n + m \in Nat
    OBVIOUS
  <2> HIDE DEF x, o
  <2> QED
    BY <1>1, <2>1, LaidLoaded
<1>8. Len(x) = Len(w) + Len(v)
  BY <1>2, WordsConcat
<1>9. /\ \A k \in 1..n : o[k] = off[k] /\ off[k] \in Nat
      /\ \A j \in 1..m : o[n + j] = Len(w) + off2[j] /\ off2[j] \in Nat
  <2>1. ASSUME NEW k \in 1..n PROVE o[k] = off[k] /\ off[k] \in Nat
    BY <1>2 DEF OffConcat
  <2>2. ASSUME NEW j \in 1..m PROVE o[n + j] = Len(w) + off2[j] /\ off2[j] \in Nat
    <3>1. n + j \in 1..(n + m + 1) /\ (n + j) - n = j /\ j \in 1..(m + 1)
      OBVIOUS
    <3>4. off2 \in [1..(m + 1) -> Nat]
      BY DEF Laid
    <3>2. CASE j = 1
      <4>1. off2[1] = 0
        BY DEF Laid
      <4>2. o[n + j] = off[n + 1]
        BY <3>1, <3>2 DEF OffConcat
      <4> QED
        BY <1>2, <3>2, <4>1, <4>2
    <3>3. CASE j > 1
      <4>1. ~(n + j <= n + 1)
        BY <3>3
      <4>2. off2[j] \in Nat
        BY <3>1, <3>4
      <4> QED
        BY <1>2, <3>1, <4>1, <4>2 DEF OffConcat
    <3> QED
      BY <3>2, <3>3
  <2> QED
    BY <2>1, <2>2
<1> DEFINE u == [i \in DOMAIN s \cup DOMAIN a |-> IF i \in DOMAIN a THEN a[i] ELSE s[i]]
<1>10. Extended(Loaded(w), v) =
         [offset |-> u, cache_size |-> Len(w) + Len(v), num_entries |-> n + m]
  <2>1. Loaded(w).cache_size = Len(w) /\ Loaded(w).num_entries = n
    BY <1>3 DEF IsStripe
  <2> QED
    BY <1>6, <2>1 DEF Extended
<1>11. Loaded(x) = [offset |-> t, cache_size |-> Len(x), num_entries |-> n + m]
  BY <1>7 DEF IsStripe
<1>15. IsMap(s, f, n, off, 0) /\ IsMap(t, f, n + m, o, 0)
  BY <1>3, <1>7 DEF IsStripe
<1> HIDE DEF g, o, x, s, a, t
<1>12. DOMAIN s \cup DOMAIN a = {At(f, k) : k \in 1..(n + m)}
  <2>1. DOMAIN a = {At(g, k) : k \in 1..m} /\ DOMAIN s = {At(f, k) : k \in 1..n}
    BY <1>5, <1>15 DEF IsMap
  <2>2. ASSUME NEW k \in 1..(n + m) PROVE At(f, k) \in DOMAIN s \cup DOMAIN a
    <3>1. CASE k <= n
      BY <2>1, <3>1
    <3>2. CASE k > n
      <4>1. k - n \in 1..m /\ n + (k - n) = k
        BY <3>2
      <4>2. At(g, k - n) = At(f, k)
        BY <1>4, <4>1
      <4> QED
        BY <2>1, <4>1, <4>2
    <3> QED
      BY <3>1, <3>2
  <2>3. \A k \in 1..n : At(f, k) \in {At(f, j) : j \in 1..(n + m)}
    OBVIOUS
  <2>4. \A k \in 1..m : At(g, k) \in {At(f, j) : j \in 1..(n + m)}
    <3>1. \A k \in 1..m : n + k \in 1..(n + m)
      OBVIOUS
    <3> QED
      BY <1>4, <3>1
  <2> QED
    BY <2>1, <2>2, <2>3, <2>4
<1>13. ASSUME NEW k \in 1..(n + m) PROVE u[At(f, k)] = 0 + o[k]
  <2> DEFINE i == At(f, k)
  <2>1. i \in DOMAIN s \cup DOMAIN a
    BY <1>12
  <2>2. CASE k <= n
    <3>1. k \in 1..n
      BY <2>2
    <3>2. i \notin DOMAIN a
      <4> SUFFICES ASSUME i \in DOMAIN a PROVE FALSE
        OBVIOUS
      <4>1. PICK j \in 1..m : i = At(g, j)
        BY <1>5 DEF IsMap
      <4>2. At(f, n + j) = At(f, k) /\ n + j \in Nat \ {0} /\ k \in Nat \ {0}
        BY <1>4, <4>1
      <4>3. n + j = k
        BY <4>2, AtInjective
      <4> QED
        BY <3>1, <4>3
    <3>3. u[i] = s[i]
      BY <2>1, <3>2
    <3>4. s[i] = 0 + off[k]
      BY <1>15, <3>1 DEF IsMap
    <3> QED
      BY <1>9, <3>1, <3>3, <3>4
  <2>3. CASE k > n
    <3>1. k - n \in 1..m /\ n + (k - n) = k
      BY <2>3
    <3>2. i = At(g, k - n)
      BY <1>4, <3>1
    <3>3. i \in DOMAIN a /\ a[i] = Len(w) + off2[k - n]
      BY <1>5, <3>1, <3>2 DEF IsMap
    <3>4. u[i] = a[i]
      BY <2>1, <3>3
    <3>5. Len(w) + off2[k - n] = o[k] /\ o[k] \in Nat
      <4>1. o[n + (k - n)] = Len(w) + off2[k - n] /\ off2[k - n] \in Nat
        BY <1>9, <3>1
      <4> QED
        BY <1>2, <3>1, <4>1
    <3> HIDE DEF u
    <3> QED
      BY <3>3, <3>4, <3>5
  <2> QED
    BY <2>2, <2>3
<1>14. u = t
  <2>1. u = [i \in {At(f, k) : k \in 1..(n + m)} |-> u[i]]
    BY <1>12
  <2> HIDE DEF u
  <2>2. IsMap(u, f, n + m, o, 0)
    BY <1>13, <2>1 DEF IsMap
  <2> QED
    BY <1>15, <2>2, SameMap
<1> QED
  BY <1>8, <1>10, <1>11, <1>14 DEF x

\* The z words of w behind c are entry i.
EntryAt(w, c, z, i) == \A p \in 1..z : w[c + p] = <<i, p>>

\* A stretch of a sequence.
LEMMA SubSeqIs ==
    ASSUME NEW w \in Words, NEW c \in Nat, NEW z \in Nat \ {0}, c + z <= Len(w), NEW i,
           EntryAt(w, c, z, i)
    PROVE  SubSeq(w, c + 1, c + z) = Image(i, z)
<1>1. Len(w) \in Nat /\ \A q \in 1..Len(w) : w[q] \in Nat \X Nat
  BY DEF Words
<1>2. \A q \in (c + 1)..(c + z) : w[q] \in Nat \X Nat
  BY <1>1
<1> DEFINE s == SubSeq(w, c + 1, c + z)
<1>3. c + 1 \in Int /\ c + z \in Int /\ c + 1 <= c + z /\ (c + z) - (c + 1) + 1 = z
  OBVIOUS
<1>4. /\ s \in Seq(Nat \X Nat) /\ Len(s) = (c + z) - (c + 1) + 1
      /\ \A q \in 1..((c + z) - (c + 1) + 1) : s[q] = w[(c + 1) + q - 1]
  BY <1>2, <1>3, SubSeqProperties
<1> HIDE DEF s
<1>5. Len(s) = z /\ \A q \in 1..z : s[q] = w[(c + 1) + q - 1]
  BY <1>3, <1>4
<1>6. ASSUME NEW q \in 1..z PROVE s[q] = <<i, q>>
  <2>1. (c + 1) + q - 1 = c + q
    OBVIOUS
  <2> QED
    BY <1>5, <2>1 DEF EntryAt
<1>7. s = [q \in 1..z |-> s[q]]
  BY <1>4, <1>5
<1>8. s = [q \in 1..z |-> <<i, q>>]
  BY <1>6, <1>7
<1> QED
  BY <1>8 DEF s, Image

\* An entry is read at its offset with its length, and is the whole entry.
LEMMA LaidRead ==
    ASSUME NEW w, NEW f \in Nat, NEW n \in Nat, NEW off, NEW size, Laid(w, f, n, off, size),
           NEW k \in 1..n, NEW i, i = At(f, k)
    PROVE  /\ i \in DOMAIN Loaded(w).offset
           /\ SubSeq(w, Loaded(w).offset[i] + 1, Loaded(w).offset[i] + LengthOf(Loaded(w), i))
                = Image(i, size[i])
<1> DEFINE s == Loaded(w)
           c == off[k]
           z == size[i]
<1>1. IsStripe(s, f, n, off, Len(w))
  BY LaidLoaded
<1> HIDE DEF s
<1>2. /\ DOMAIN s.offset = {At(f, j) : j \in 1..n}
      /\ \A j \in 1..n : s.offset[At(f, j)] = 0 + off[j]
      /\ s.cache_size = Len(w)
  <2>1. IsMap(s.offset, f, n, off, 0) /\ s.cache_size = Len(w)
    BY <1>1 DEF IsStripe
  <2> QED
    BY <2>1 DEF IsMap
<1>3. /\ k \in 1..(n + 1) /\ k + 1 \in 1..(n + 1)
      /\ off[k] \in Nat /\ off[k + 1] \in Nat /\ off[k] < off[k + 1] /\ off[k + 1] <= Len(w)
      /\ size[At(f, k)] \in Nat \ {0} /\ off[k + 1] = off[k] + size[At(f, k)]
      /\ Len(w) \in Nat /\ At(f, k) \in Nat
  BY OffGrows, Zenon
<1>4. c \in Nat /\ z \in Nat \ {0} /\ c + z <= Len(w) /\ s.offset[i] = c /\ off[k + 1] = c + z
  BY <1>2, <1>3
<1>5. w \in Words /\ \A p \in 1..z : w[c + p] = <<i, p>>
  BY DEF Laid
<1>6. LengthOf(s, i) = z
  <2>1. i + ShardNum = At(f, k + 1)
    BY AtFacts
  <2>2. CASE k < n
    <3>1. k + 1 \in 1..n
      BY <2>2
    <3>2. i + ShardNum \in DOMAIN s.offset /\ s.offset[i + ShardNum] = 0 + off[k + 1]
      BY <1>2, <2>1, <3>1
    <3>3. s.offset[i + ShardNum] = c + z
      BY <1>4, <3>2
    <3> HIDE DEF c, z
    <3> QED
      BY <1>4, <3>2, <3>3 DEF LengthOf
  <2>3. CASE k = n
    <3>1. i + ShardNum \notin DOMAIN s.offset
      <4> SUFFICES ASSUME i + ShardNum \in DOMAIN s.offset PROVE FALSE
        OBVIOUS
      <4>1. PICK j \in 1..n : i + ShardNum = At(f, j)
        BY <1>2
      <4>2. j = k + 1
        BY <2>1, <4>1, AtInjective
      <4> QED
        BY <2>3, <4>2
    <3>2. s.cache_size = c + z
      <4>1. off[n + 1] = Len(w)
        BY DEF Laid
      <4> QED
        BY <1>2, <1>4, <2>3, <4>1
    <3> HIDE DEF c, z
    <3> QED
      BY <1>4, <3>1, <3>2 DEF LengthOf
  <2> QED
    BY <2>2, <2>3
<1>7. SubSeq(w, c + 1, c + z) = Image(i, z)
  <2> HIDE DEF c, z
  <2>1. c \in Nat /\ z \in Nat \ {0} /\ c + z <= Len(w) /\ w \in Words
    BY <1>4, <1>5
  <2>2. EntryAt(w, c, z, i)
    BY <1>5 DEF EntryAt
  <2> QED
    BY <2>1, <2>2, SubSeqIs
<1>8. i \in DOMAIN s.offset
  BY <1>2
<1> QED
  BY <1>4, <1>6, <1>7, <1>8 DEF s

-----------------------------------------------------------------------------
(* The places of the shard *)

\* Indexes of this shard.
Own(i) == i \in Nat /\ i % ShardNum = ShardId

\* First indexes of stripes.
Bases == {q * BigStripe : q \in Nat}

\* The stripe is not empty.
LEMMA BigStripeIs == BigStripe \in Nat \ {0}
BY DEF BigStripe

\* i is the place p of shard s in stripe q, which starts at b.
Parts(i, q, p, s, b) == b = q * (StripeUnit * ShardNum) /\ i = b + p * ShardNum + s

\* An index made of a stripe, a place and a shard.
LEMMA IndexParts ==
    ASSUME NEW q \in Nat, NEW p \in 0..(StripeUnit - 1), NEW s \in 0..(ShardNum - 1), NEW b, NEW i,
           Parts(i, q, p, s, b)
    PROVE  /\ i \in Nat /\ i \div (StripeUnit * ShardNum) = q /\ i % ShardNum = s
           /\ (i - b) \div ShardNum = p /\ b <= i /\ i < b + StripeUnit * ShardNum
<1>1. ShardNum \in Nat \ {0} /\ StripeUnit \in Nat \ {0}
  BY Consts
<1>2. b = q * (StripeUnit * ShardNum) /\ i = b + p * ShardNum + s
  BY DEF Parts
<1> QED
  BY <1>1, <1>2, IndexOf

\* An index of the shard is one of the places of its stripe.
LEMMA OwnPlace ==
    ASSUME NEW i, Own(i)
    PROVE  /\ BaseIdx(i) \in Bases /\ BaseIdx(i) \in Nat
           /\ LocalCacheIdx(i) \in 0..(StripeUnit - 1)
           /\ i = At(BaseIdx(i) + ShardId, LocalCacheIdx(i) + 1)
<1>1. PICK q \in Nat, p \in 0..(StripeUnit - 1), s \in 0..(ShardNum - 1) :
          i = q * (StripeUnit * ShardNum) + p * ShardNum + s
  BY Coordinates DEF Own
<1>2. PICK b : b = q * (StripeUnit * ShardNum) /\ i = b + p * ShardNum + s
  BY <1>1
<1>3. b \in Nat /\ b = q * BigStripe
  BY <1>2 DEF BigStripe
<1>4. /\ i \div (StripeUnit * ShardNum) = q /\ i % ShardNum = s
      /\ (i - b) \div ShardNum = p
  <2>1. Parts(i, q, p, s, b)
    BY <1>2 DEF Parts
  <2> QED
    BY <2>1, IndexParts
<1>5. BaseIdx(i) = b /\ s = ShardId
  BY <1>3, <1>4 DEF BaseIdx, BigStripe, Own
<1>6. LocalCacheIdx(i) = p
  BY <1>4, <1>5 DEF LocalCacheIdx
<1>7. p \in Nat /\ p * ShardNum \in Nat /\ (p + 1) - 1 = p
  OBVIOUS
<1>8. i = (b + ShardId) + ((p + 1) - 1) * ShardNum
  BY <1>2, <1>3, <1>5, <1>7
<1> QED
  BY <1>3, <1>5, <1>6, <1>8 DEF At, Bases

\* A place of a stripe is an index of the shard, and of that stripe.
LEMMA PlaceOwn ==
    ASSUME NEW b \in Bases, NEW k \in 1..StripeUnit, NEW i, i = At(b + ShardId, k)
    PROVE  Own(i) /\ BaseIdx(i) = b /\ LocalCacheIdx(i) = k - 1
<1>1. PICK q \in Nat : b = q * BigStripe
  BY DEF Bases
<1>2. b = q * (StripeUnit * ShardNum) /\ b \in Nat
  BY <1>1 DEF BigStripe
<1>3. PICK p \in 0..(StripeUnit - 1) : p = k - 1
  OBVIOUS
<1>4. i = b + p * ShardNum + ShardId
  <2>1. p * ShardNum \in Nat
    OBVIOUS
  <2> QED
    BY <1>2, <1>3, <2>1 DEF At
<1>5. /\ i \in Nat /\ i \div (StripeUnit * ShardNum) = q /\ i % ShardNum = ShardId
      /\ (i - b) \div ShardNum = p
  <2>1. PICK s \in 0..(ShardNum - 1) : s = ShardId
    BY Consts
  <2>2. Parts(i, q, p, s, b)
    BY <1>2, <1>4, <2>1 DEF Parts
  <2>3. /\ i \in Nat /\ i \div (StripeUnit * ShardNum) = q /\ i % ShardNum = s
        /\ (i - b) \div ShardNum = p /\ b <= i /\ i < b + StripeUnit * ShardNum
    BY <2>2, IndexParts
  <2> QED
    BY <2>1, <2>3
<1>6. BaseIdx(i) = b
  BY <1>1, <1>5 DEF BaseIdx, BigStripe
<1> QED
  BY <1>3, <1>5, <1>6 DEF LocalCacheIdx, Own

\* Stripes are numbers, a whole stripe apart.
LEMMA BaseFacts ==
    ASSUME NEW b \in Bases
    PROVE  /\ b \in Nat /\ b + ShardId \in Nat /\ Own(b + ShardId)
           /\ At(b + ShardId, StripeUnit + 1) = b + ShardId + BigStripe
           /\ \A c \in Bases : b < c => b + BigStripe <= c
<1>1. b \in Nat
  BY DEF Bases, BigStripe
<1>2. b + ShardId \in Nat
  BY <1>1
<1>3. At(b + ShardId, 1) = b + ShardId
  BY <1>2, AtFacts
<1>4. Own(b + ShardId)
  <2>1. 1 \in 1..StripeUnit
    OBVIOUS
  <2> QED
    BY <1>3, <2>1, PlaceOwn
<1>5. At(b + ShardId, StripeUnit + 1) = b + ShardId + BigStripe
  <2>1. ((StripeUnit + 1) - 1) * ShardNum = BigStripe
    BY DEF BigStripe
  <2> QED
    BY <2>1 DEF At
<1>6. ASSUME NEW c \in Bases, b < c PROVE b + BigStripe <= c
  <2>1. PICK q \in Nat : b = q * BigStripe
    BY DEF Bases
  <2>2. PICK p \in Nat : c = p * BigStripe
    BY DEF Bases
  <2>3. q < p
    <3> SUFFICES ASSUME p <= q PROVE FALSE
      OBVIOUS
    <3>1. \A x \in Nat : p * x <= q * x
      OBVIOUS
    <3> QED
      BY <1>1, <1>6, <2>1, <2>2, <3>1, BigStripeIs
  <2>4. \A x \in Nat : q * x + x <= p * x
    <3>1. \A x \in Nat : (q + 1) * x <= p * x /\ (q + 1) * x = q * x + x
      BY <2>3
    <3> QED
      BY <3>1
  <2> QED
    BY <2>1, <2>2, <2>4, BigStripeIs
<1> QED
  BY <1>1, <1>2, <1>4, <1>5, <1>6

\* Later entries of the shard.
LEMMA OwnAt ==
    ASSUME NEW f, Own(f), NEW k \in Nat \ {0}
    PROVE  Own(At(f, k))
<1>1. (f + (k - 1) * ShardNum) % ShardNum = f % ShardNum
  <2>1. k - 1 \in Nat /\ f \in Nat
    BY DEF Own
  <2> QED
    BY <2>1, AddSteps
<1>2. At(f, k) \in Nat
  BY AtFacts DEF Own
<1> QED
  BY <1>1, <1>2 DEF At, Own

\* In the order of the places.
LEMMA AtOrder ==
    ASSUME NEW f \in Nat, NEW j \in Nat \ {0}, NEW k \in Nat \ {0}
    PROVE  /\ At(f, j) \in Nat /\ At(f, k) \in Nat
           /\ At(f, j) < At(f, k) <=> j < k
           /\ At(f, j) <= At(f, k) <=> j <= k
<1>1. At(f, j) \in Nat /\ At(f, k) \in Nat
  BY AtFacts
<1>2. j < k => At(f, j) + ShardNum <= At(f, k)
  BY AtGrows
<1>3. k < j => At(f, k) + ShardNum <= At(f, j)
  BY AtGrows
<1> QED
  BY <1>1, <1>2, <1>3

-----------------------------------------------------------------------------
(* The invariant of a store *)

\* The file of stripe b holds its first n entries: all of them, or those below
\* e, and then it is open and its stripe in memory.
FileHolds(st, b, n, off, e, size) ==
    /\ n \in 1..StripeUnit
    /\ Laid(st.files[b], b + ShardId, n, off, size)
    /\ At(b + ShardId, n + 1) <= e
    /\ n < StripeUnit => e = At(b + ShardId, n + 1) /\ b \in st.open /\ b \in DOMAIN st.stripes

\* Store st has the entries of the shard below e, and knows what is in its files.
StoreInv(st, e, size) ==
    /\ st = [stripes |-> st.stripes, open |-> st.open, files |-> st.files]
    /\ \A b \in DOMAIN st.files : b \in Bases /\ \E n, off : FileHolds(st, b, n, off, e, size)
    /\ \A b \in Bases : b + ShardId < e => b \in DOMAIN st.files
    /\ \A b \in DOMAIN st.stripes : b \in DOMAIN st.files /\ st.stripes[b] = Loaded(st.files[b])

\* The batch: m entries from f on, in one stripe.
BatchInv(words, base, f, m, off, e, size) ==
    /\ Own(f) /\ m \in 1..StripeUnit /\ e = At(f, m + 1)
    /\ base = BaseIdx(f) /\ BaseIdx(At(f, m)) = base
    /\ Laid(words, f, m, off, size)

\* The same with other lengths for other entries.
LEMMA StoreSize ==
    ASSUME NEW st, NEW e \in Nat, NEW size, StoreInv(st, e, size),
           NEW size2, \A i \in Nat : Own(i) /\ i < e => size2[i] = size[i]
    PROVE  StoreInv(st, e, size2)
<1>1. ASSUME NEW b \in DOMAIN st.files PROVE b \in Bases /\ \E n, off : FileHolds(st, b, n, off, e, size2)
  <2>1. b \in Bases
    BY DEF StoreInv
  <2>2. PICK n, off : FileHolds(st, b, n, off, e, size)
    BY DEF StoreInv
  <2>3. n \in 1..StripeUnit /\ At(b + ShardId, n + 1) <= e
    BY <2>2 DEF FileHolds
  <2>4. b + ShardId \in Nat
    BY <2>1, BaseFacts
  <2>5. ASSUME NEW k \in 1..n PROVE size2[At(b + ShardId, k)] = size[At(b + ShardId, k)]
    <3>1. k \in 1..StripeUnit /\ k \in Nat \ {0} /\ n + 1 \in Nat \ {0} /\ k < n + 1
      BY <2>3
    <3>2. Own(At(b + ShardId, k))
      BY <2>1, <3>1, PlaceOwn
    <3>3. At(b + ShardId, k) \in Nat /\ At(b + ShardId, n + 1) \in Nat
      BY <2>4, <3>1, AtOrder
    <3>4. At(b + ShardId, k) < At(b + ShardId, n + 1)
      BY <2>4, <3>1, AtOrder
    <3>5. At(b + ShardId, k) < e
      BY <2>3, <3>3, <3>4
    <3> QED
      BY <3>2, <3>3, <3>5
  <2>6. Laid(st.files[b], b + ShardId, n, off, size)
    BY <2>2 DEF FileHolds
  <2>7. Laid(st.files[b], b + ShardId, n, off, size2)
    BY <2>5, <2>6 DEF Laid
  <2>8. FileHolds(st, b, n, off, e, size2)
    BY <2>2, <2>7 DEF FileHolds
  <2> QED
    BY <2>1, <2>8
<1> QED
  BY <1>1 DEF StoreInv

\* A stripe loaded from its file is what the file says.
LEMMA StoreLoad ==
    ASSUME NEW st, NEW e \in Nat, NEW size, StoreInv(st, e, size),
           NEW base \in DOMAIN st.files
    PROVE  StoreInv([st EXCEPT !.stripes = Put(st.stripes, base, Loaded(st.files[base]))], e, size)
<1> DEFINE m == Put(st.stripes, base, Loaded(st.files[base]))
<1>1. PICK t : t = [st EXCEPT !.stripes = m]
  OBVIOUS
<1>2. st = [stripes |-> st.stripes, open |-> st.open, files |-> st.files]
  BY DEF StoreInv
<1>3. DOMAIN m = DOMAIN st.stripes \cup {base}
  BY DEF Put
<1>4. \A b \in DOMAIN m : m[b] = IF b = base THEN Loaded(st.files[base]) ELSE st.stripes[b]
  BY DEF Put
<1> HIDE DEF m
<1>5. t = [stripes |-> m, open |-> st.open, files |-> st.files]
  BY <1>1, <1>2
<1>6. t.stripes = m /\ t.open = st.open /\ t.files = st.files
  BY <1>5
<1>7. ASSUME NEW b \in DOMAIN t.files PROVE b \in Bases /\ \E n, off : FileHolds(t, b, n, off, e, size)
  <2>1. b \in Bases /\ \E n, off : FileHolds(st, b, n, off, e, size)
    BY <1>6 DEF StoreInv
  <2>2. PICK n, off : FileHolds(st, b, n, off, e, size)
    BY <2>1
  <2>3. FileHolds(t, b, n, off, e, size)
    BY <1>3, <1>6, <2>2 DEF FileHolds
  <2> QED
    BY <2>1, <2>3
<1>8. \A b \in DOMAIN t.stripes : b \in DOMAIN t.files /\ t.stripes[b] = Loaded(t.files[b])
  BY <1>3, <1>4, <1>6 DEF StoreInv
<1>9. \A b \in Bases : b + ShardId < e => b \in DOMAIN t.files
  BY <1>6 DEF StoreInv
<1>10. t = [stripes |-> t.stripes, open |-> t.open, files |-> t.files]
  BY <1>5, <1>6
<1>11. StoreInv(t, e, size)
  BY <1>7, <1>8, <1>9, <1>10 DEF StoreInv
<1> QED
  BY <1>1, <1>11 DEF m

\* An entry below e is in the file of its stripe; one that the stripe counts is
\* below e; and a read of it finds it whole.
LEMMA StoreRead ==
    ASSUME NEW st, NEW e \in Nat, NEW size, StoreInv(st, e, size), NEW i, Own(i),
           \/ i < e
           \/ /\ BaseIdx(i) \in DOMAIN st.files
              /\ LocalCacheIdx(i) < Loaded(st.files[BaseIdx(i)]).num_entries
    PROVE  /\ i < e /\ BaseIdx(i) \in DOMAIN st.files
           /\ i \in DOMAIN Loaded(st.files[BaseIdx(i)]).offset
           /\ readEntryFromDisk(st, Loaded(st.files[BaseIdx(i)]), i) = Image(i, size[i])
<1>1. /\ BaseIdx(i) \in Bases /\ BaseIdx(i) \in Nat
      /\ LocalCacheIdx(i) \in 0..(StripeUnit - 1)
      /\ i = At(BaseIdx(i) + ShardId, LocalCacheIdx(i) + 1)
  BY OwnPlace
<1>2. PICK b, p : b = BaseIdx(i) /\ p = LocalCacheIdx(i)
  OBVIOUS
<1>3. b \in Bases /\ b + ShardId \in Nat /\ p \in 0..(StripeUnit - 1) /\ i = At(b + ShardId, p + 1)
  BY <1>1, <1>2, BaseFacts
<1>4. b \in DOMAIN st.files
  <2>1. CASE i < e
    <3>1. b + ShardId <= i /\ i \in Nat
      BY <1>3, AtFacts
    <3>2. b + ShardId < e
      BY <1>3, <2>1, <3>1
    <3> QED
      BY <1>3, <3>2 DEF StoreInv
  <2>2. CASE BaseIdx(i) \in DOMAIN st.files
    BY <1>2, <2>2
  <2> QED
    BY <2>1, <2>2
<1>5. PICK n, off : FileHolds(st, b, n, off, e, size)
  BY <1>4 DEF StoreInv
<1>6. /\ n \in 1..StripeUnit /\ Laid(st.files[b], b + ShardId, n, off, size)
      /\ At(b + ShardId, n + 1) <= e /\ (n < StripeUnit => e = At(b + ShardId, n + 1))
  BY <1>5 DEF FileHolds
<1>7. n \in Nat /\ n + 1 \in Nat \ {0} /\ p + 1 \in Nat \ {0}
  BY <1>3, <1>6
<1>8. p + 1 \in 1..n
  <2>1. CASE i < e
    <3>1. CASE n < StripeUnit
      <4>1. At(b + ShardId, p + 1) < At(b + ShardId, n + 1)
        BY <1>3, <1>6, <2>1, <3>1
      <4>2. p + 1 < n + 1
        BY <1>3, <1>7, <4>1, AtOrder
      <4> QED
        BY <1>3, <1>6, <4>2
    <3>2. CASE n = StripeUnit
      BY <1>3, <3>2
    <3> QED
      BY <1>6, <3>1, <3>2
  <2>2. CASE LocalCacheIdx(i) < Loaded(st.files[BaseIdx(i)]).num_entries
    <3>1. IsStripe(Loaded(st.files[b]), b + ShardId, n, off, Len(st.files[b]))
      BY <1>3, <1>6, <1>7, LaidLoaded
    <3>2. Loaded(st.files[b]).num_entries = n
      BY <3>1 DEF IsStripe
    <3>3. p < n
      BY <1>2, <2>2, <3>2
    <3> QED
      BY <1>3, <1>6, <3>3
  <2> QED
    BY <2>1, <2>2
<1>9. i < e
  <2>1. p + 1 < n + 1
    BY <1>7, <1>8
  <2>2. At(b + ShardId, p + 1) < At(b + ShardId, n + 1)
    BY <1>3, <1>7, <2>1, AtOrder
  <2>3. At(b + ShardId, p + 1) \in Nat /\ At(b + ShardId, n + 1) \in Nat
    BY <1>3, <1>7, AtOrder
  <2> QED
    BY <1>3, <1>6, <2>2, <2>3
<1>10. PICK w : w = st.files[b]
  OBVIOUS
<1>11. PICK k \in 1..n : k = p + 1
  BY <1>8
<1>12. /\ i \in DOMAIN Loaded(w).offset
       /\ SubSeq(w, Loaded(w).offset[i] + 1, Loaded(w).offset[i] + LengthOf(Loaded(w), i))
            = Image(i, size[i])
  <2>1. i = At(b + ShardId, k) /\ Laid(w, b + ShardId, n, off, size)
    BY <1>3, <1>6, <1>10, <1>11
  <2>2. PICK f \in Nat : f = b + ShardId
    BY <1>3
  <2>3. i = At(f, k) /\ Laid(w, f, n, off, size)
    BY <2>1, <2>2
  <2> QED
    BY <1>7, <2>3, LaidRead
<1>13. readEntryFromDisk(st, Loaded(w), i) = Image(i, size[i])
  BY <1>2, <1>10, <1>12 DEF readEntryFromDisk
<1> QED
  BY <1>2, <1>4, <1>9, <1>10, <1>12, <1>13

\* What ProcessEntries makes of a store: the stripe, now n entries from f on.
LEMMA ProcessedIs ==
    ASSUME NEW st, NEW f, NEW size, StoreInv(st, f, size),
           NEW words, NEW base, NEW m, NEW off, NEW e, BatchInv(words, base, f, m, off, e, size)
    PROVE  \E w, n, off2 :
             /\ base \in Bases /\ n \in 1..StripeUnit /\ Laid(w, base + ShardId, n, off2, size)
             /\ e = At(base + ShardId, n + 1) /\ base + ShardId <= f /\ f <= e
             /\ ProcessEntries(st, base, words).stripes = Put(st.stripes, base, Loaded(w))
             /\ ProcessEntries(st, base, words).files = Put(st.files, base, w)
             /\ ProcessEntries(st, base, words).open \cup {base} = st.open \cup {base}
             /\ n < StripeUnit => base \in ProcessEntries(st, base, words).open
<1>1. /\ Own(f) /\ m \in 1..StripeUnit /\ e = At(f, m + 1) /\ base = BaseIdx(f)
      /\ BaseIdx(At(f, m)) = base /\ Laid(words, f, m, off, size)
  BY DEF BatchInv
<1>2. PICK p : p = LocalCacheIdx(f)
  OBVIOUS
<1>3. base \in Bases /\ base \in Nat /\ p \in 0..(StripeUnit - 1) /\ f = At(base + ShardId, p + 1)
  BY <1>1, <1>2, OwnPlace
<1>4. PICK g \in Nat : g = base + ShardId
  BY <1>3
<1>5. f = At(g, p + 1) /\ f \in Nat /\ m \in Nat \ {0} /\ p + 1 \in Nat \ {0} /\ g <= f
  BY <1>1, <1>3, <1>4, AtFacts
<1>6. At(f, m) = At(g, p + m) /\ e = At(g, p + m + 1) /\ p + m \in Nat \ {0} /\ f <= e /\ e \in Nat
  <2>1. (p + 1) + m - 1 = p + m /\ (p + 1) + (m + 1) - 1 = p + m + 1 /\ m + 1 \in Nat \ {0}
    BY <1>3, <1>5
  <2>2. At(At(g, p + 1), m) = At(g, (p + 1) + m - 1)
    BY <1>5, AtFacts
  <2>3. At(At(g, p + 1), m + 1) = At(g, (p + 1) + (m + 1) - 1)
    BY <1>5, <2>1, AtFacts
  <2>4. f <= At(f, m + 1) /\ At(f, m + 1) \in Nat
    BY <1>5, <2>1, AtFacts
  <2>5. p + m \in Nat \ {0}
    BY <1>3, <1>5
  <2> QED
    BY <1>1, <1>5, <2>1, <2>2, <2>3, <2>4, <2>5
<1>7. p + m \in 1..StripeUnit
  <2>1. Own(At(f, m))
    BY <1>1, <1>5, OwnAt
  <2>2. PICK p2 : p2 = LocalCacheIdx(At(f, m))
    OBVIOUS
  <2>3. p2 \in 0..(StripeUnit - 1) /\ At(f, m) = At(base + ShardId, p2 + 1)
    BY <1>1, <2>1, <2>2, OwnPlace
  <2>4. At(g, p + m) = At(g, p2 + 1) /\ p2 + 1 \in Nat \ {0}
    BY <1>4, <1>6, <2>3
  <2>5. p + m = p2 + 1
    BY <1>6, <2>4, AtInjective
  <2> QED
    BY <1>6, <2>3, <2>5
<1> DEFINE known == base \in DOMAIN st.stripes
           onDisk == base \in DOMAIN st.files
           before == IF known THEN st.stripes[base] ELSE IF onDisk THEN Loaded(st.files[base]) ELSE NoStripe
           after == Extended(before, words)
           open == IF known \/ onDisk THEN st.open ELSE st.open \cup {base}
           file == IF onDisk THEN st.files[base] ELSE <<>>
           new == ProcessEntries(st, base, words)
<1>8. /\ new.stripes = Put(st.stripes, base, after)
      /\ new.open = IF FullAt(after.num_entries) THEN open \ {base} ELSE open
      /\ new.files = IF base \in open THEN Put(st.files, base, file \o words) ELSE st.files
  BY DEF ProcessEntries
<1> SUFFICES ASSUME TRUE
             PROVE  \E w, off2 :
                       /\ Laid(w, g, p + m, off2, size) /\ after = Loaded(w) /\ w = file \o words
                       /\ base \in open /\ open \cup {base} = st.open \cup {base}
  <2>1. PICK w, off2 :
            /\ Laid(w, g, p + m, off2, size) /\ after = Loaded(w) /\ w = file \o words
            /\ base \in open /\ open \cup {base} = st.open \cup {base}
    OBVIOUS
  <2>2. IsStripe(Loaded(w), g, p + m, off2, Len(w))
    <3>1. p + m \in Nat
      BY <1>6
    <3> QED
      BY <2>1, <3>1, LaidLoaded
  <2>3. after.num_entries = p + m
    BY <2>1, <2>2 DEF IsStripe
  <2> HIDE DEF after, open, file, new, before, known, onDisk
  <2>4. p + m < StripeUnit => ~FullAt(after.num_entries)
    BY <1>7, <2>3 DEF FullAt
  <2>5. new.stripes = Put(st.stripes, base, Loaded(w)) /\ new.files = Put(st.files, base, w)
    BY <1>8, <2>1
  <2>6. new.open \cup {base} = st.open \cup {base}
    BY <1>8, <2>1
  <2>7. p + m < StripeUnit => base \in new.open
    BY <1>8, <2>1, <2>4
  <2>8. Laid(w, base + ShardId, p + m, off2, size) /\ e = At(base + ShardId, p + m + 1) /\ base + ShardId <= f
    BY <1>4, <1>5, <1>6, <2>1
  <2>9. new = ProcessEntries(st, base, words)
    BY DEF new
  <2> QED
    BY <1>3, <1>6, <1>7, <2>5, <2>6, <2>7, <2>8, <2>9
<1>9. CASE p = 0
  <2>1. f = g
    BY <1>5, <1>9, AtFacts
  <2>2. base \notin DOMAIN st.files
    <3> SUFFICES ASSUME base \in DOMAIN st.files PROVE FALSE
      OBVIOUS
    <3>1. PICK n, o : FileHolds(st, base, n, o, f, size)
      BY DEF StoreInv
    <3>2. n \in 1..StripeUnit /\ At(g, n + 1) <= f
      BY <1>4, <3>1 DEF FileHolds
    <3>3. 1 \in Nat \ {0} /\ n + 1 \in Nat \ {0} /\ 1 < n + 1 /\ At(g, 1) = g
      BY <3>2, AtFacts
    <3>4. At(g, 1) < At(g, n + 1) /\ At(g, n + 1) \in Nat
      BY <3>3, AtOrder
    <3> QED
      BY <2>1, <3>2, <3>3, <3>4
  <2>3. base \notin DOMAIN st.stripes
    BY <2>2 DEF StoreInv
  <2>4. before = NoStripe /\ open = st.open \cup {base} /\ file = <<>>
    BY <2>2, <2>3
  <2>5. <<>> \o words = words
    <3>1. words \in Seq(Nat \X Nat)
      BY <1>1 DEF Laid, Words
    <3> QED
      BY <3>1, ConcatEmptySeq
  <2>6. Extended(NoStripe, words) = Loaded(words)
    BY <1>1, <1>5, ExtendedNew
  <2>7. Laid(words, g, p + m, off, size)
    <3>1. p + m = m
      BY <1>5, <1>9
    <3> QED
      BY <1>1, <2>1, <3>1
  <2> QED
    BY <2>4, <2>5, <2>6, <2>7
<1>10. CASE p # 0
  <2>1. base \in DOMAIN st.files
    <3>1. 1 \in Nat \ {0} /\ 1 < p + 1 /\ At(g, 1) = g
      BY <1>3, <1>10, AtFacts
    <3>2. At(g, 1) < At(g, p + 1)
      BY <1>5, <3>1, AtOrder
    <3>3. base + ShardId < f
      BY <1>4, <1>5, <3>1, <3>2
    <3> QED
      BY <1>3, <3>3 DEF StoreInv
  <2>2. PICK n, o : FileHolds(st, base, n, o, f, size)
    BY <2>1 DEF StoreInv
  <2>3. /\ n \in 1..StripeUnit /\ Laid(st.files[base], g, n, o, size) /\ At(g, n + 1) <= f
        /\ n < StripeUnit => f = At(g, n + 1) /\ base \in st.open /\ base \in DOMAIN st.stripes
    BY <1>4, <2>2 DEF FileHolds
  <2>4. n + 1 \in Nat \ {0} /\ n \in Nat
    BY <2>3
  <2>5. n + 1 <= p + 1
    <3>1. At(g, n + 1) <= At(g, p + 1)
      BY <1>5, <2>3
    <3> QED
      BY <1>5, <2>4, <3>1, AtOrder
  <2>6. n < StripeUnit
    BY <1>3, <2>4, <2>5
  <2>7. n = p
    <3>1. At(g, n + 1) = At(g, p + 1)
      BY <1>5, <2>3, <2>6
    <3>2. n + 1 = p + 1
      BY <1>5, <2>4, <3>1, AtInjective
    <3> QED
      BY <1>3, <2>4, <3>2
  <2>8. st.stripes[base] = Loaded(st.files[base])
    BY <2>3, <2>6 DEF StoreInv
  <2>9. before = Loaded(st.files[base]) /\ open = st.open /\ file = st.files[base] /\ base \in st.open
    BY <2>1, <2>3, <2>6, <2>8
  <2>10. PICK w0 : w0 = st.files[base]
    OBVIOUS
  <2>11. Laid(w0, g, p, o, size) /\ Laid(words, At(g, p + 1), m, off, size) /\ p \in Nat /\ m \in Nat
    BY <1>1, <1>5, <2>3, <2>4, <2>7, <2>10
  <2>12. Extended(Loaded(w0), words) = Loaded(w0 \o words)
    BY <2>11, ExtendedOld
  <2>13. Laid(w0 \o words, g, p + m, OffConcat(o, p, off, m), size)
    BY <2>11, LaidConcat
  <2> HIDE DEF before, open, file
  <2>14. after = Loaded(w0 \o words) /\ w0 \o words = file \o words /\ base \in open /\ open = st.open
    BY <2>9, <2>10, <2>12
  <2> QED
    BY <2>13, <2>14
<1> QED
  BY <1>3, <1>9, <1>10

\* ProcessEntries brings a store from f to the end of the batch.
LEMMA ProcessStep ==
    ASSUME NEW st, NEW f, NEW size, StoreInv(st, f, size),
           NEW words, NEW base, NEW m, NEW off, NEW e, BatchInv(words, base, f, m, off, e, size),
           NEW new, new = ProcessEntries(st, base, words)
    PROVE  /\ StoreInv(new, e, size) /\ base \in DOMAIN new.stripes
           /\ f \in Nat /\ e \in Nat /\ f <= e
<1>1. PICK w, n, off2 :
         /\ base \in Bases /\ n \in 1..StripeUnit /\ Laid(w, base + ShardId, n, off2, size)
         /\ e = At(base + ShardId, n + 1) /\ base + ShardId <= f /\ f <= e
         /\ new.stripes = Put(st.stripes, base, Loaded(w))
         /\ new.files = Put(st.files, base, w)
         /\ new.open \cup {base} = st.open \cup {base}
         /\ n < StripeUnit => base \in new.open
  BY ProcessedIs
<1>2. new = [stripes |-> new.stripes, open |-> new.open, files |-> new.files]
  BY DEF ProcessEntries
<1>3. /\ DOMAIN new.stripes = DOMAIN st.stripes \cup {base} /\ DOMAIN new.files = DOMAIN st.files \cup {base}
      /\ \A b \in DOMAIN new.stripes : new.stripes[b] = IF b = base THEN Loaded(w) ELSE st.stripes[b]
      /\ \A b \in DOMAIN new.files : new.files[b] = IF b = base THEN w ELSE st.files[b]
  BY <1>1 DEF Put
<1>4. base = BaseIdx(f) /\ f \in Nat
  BY DEF BatchInv, Own
<1>5. base \in Nat /\ base + ShardId \in Nat /\ n + 1 \in Nat \ {0} /\ e \in Nat
  <2>1. base \in Nat /\ base + ShardId \in Nat
    BY <1>1, BaseFacts
  <2>2. n + 1 \in Nat \ {0}
    BY <1>1
  <2> QED
    BY <1>1, <2>1, <2>2, AtFacts
<1>6. ASSUME NEW b \in DOMAIN new.files PROVE b \in Bases /\ \E k, o : FileHolds(new, b, k, o, e, size)
  <2>1. CASE b = base
    <3>1. new.files[base] = w /\ base \in DOMAIN new.stripes
      BY <1>3
    <3>2. At(base + ShardId, n + 1) <= e
      BY <1>1, <1>5
    <3>3. FileHolds(new, base, n, off2, e, size)
      BY <1>1, <3>1, <3>2 DEF FileHolds
    <3> QED
      BY <1>1, <2>1, <3>3
  <2>2. CASE b # base
    <3>1. b \in DOMAIN st.files /\ new.files[b] = st.files[b]
      BY <1>3, <2>2
    <3>2. b \in Bases
      BY <3>1 DEF StoreInv
    <3>3. PICK k, o : FileHolds(st, b, k, o, f, size)
      BY <3>1 DEF StoreInv
    <3>4. /\ k \in 1..StripeUnit /\ Laid(st.files[b], b + ShardId, k, o, size) /\ At(b + ShardId, k + 1) <= f
          /\ k < StripeUnit => f = At(b + ShardId, k + 1)
      BY <3>3 DEF FileHolds
    <3>5. ~(k < StripeUnit)
      <4> SUFFICES ASSUME k < StripeUnit PROVE FALSE
        OBVIOUS
      <4>1. k + 1 \in 1..StripeUnit /\ f = At(b + ShardId, k + 1)
        BY <3>4
      <4>2. BaseIdx(f) = b
        BY <3>2, <4>1, PlaceOwn
      <4> QED
        BY <1>4, <2>2, <4>2
    <3>6. At(b + ShardId, k + 1) <= e
      <4>1. b + ShardId \in Nat /\ k + 1 \in Nat \ {0}
        BY <3>2, <3>4, BaseFacts
      <4>2. At(b + ShardId, k + 1) \in Nat
        BY <4>1, AtFacts
      <4> QED
        BY <1>1, <1>4, <1>5, <3>4, <4>2
    <3>7. FileHolds(new, b, k, o, e, size)
      BY <3>1, <3>4, <3>5, <3>6 DEF FileHolds
    <3> QED
      BY <3>2, <3>7
  <2> QED
    BY <2>1, <2>2
<1>7. ASSUME NEW b \in Bases, b + ShardId < e PROVE b \in DOMAIN new.files
  <2>0. b \in Nat /\ BigStripe \in Nat
    BY BaseFacts, BigStripeIs
  <2>1. e <= base + ShardId + BigStripe
    <3>1. At(base + ShardId, StripeUnit + 1) = base + ShardId + BigStripe
      BY <1>1, BaseFacts
    <3>2. n + 1 <= StripeUnit + 1 /\ StripeUnit + 1 \in Nat \ {0}
      BY <1>1
    <3>3. At(base + ShardId, n + 1) <= At(base + ShardId, StripeUnit + 1)
      BY <1>5, <3>2, AtOrder
    <3> QED
      BY <1>1, <3>1, <3>3
  <2>2. ~(base < b)
    <3> SUFFICES ASSUME base < b PROVE FALSE
      OBVIOUS
    <3>1. base + BigStripe <= b
      BY <1>1, BaseFacts
    <3> QED
      BY <1>5, <1>7, <2>0, <2>1, <3>1
  <2>3. CASE b = base
    BY <1>3, <2>3
  <2>4. CASE b < base
    <3>1. b + ShardId < f
      BY <1>1, <1>4, <1>5, <2>0, <2>4
    <3>2. b \in DOMAIN st.files
      BY <3>1 DEF StoreInv
    <3> QED
      BY <1>3, <3>2
  <2> QED
    BY <1>5, <2>0, <2>2, <2>3, <2>4
<1>8. ASSUME NEW b \in DOMAIN new.stripes
      PROVE  b \in DOMAIN new.files /\ new.stripes[b] = Loaded(new.files[b])
  <2>1. CASE b = base
    BY <1>3, <2>1
  <2>2. CASE b # base
    <3>1. b \in DOMAIN st.stripes
      BY <1>3, <2>2
    <3>2. b \in DOMAIN st.files /\ st.stripes[b] = Loaded(st.files[b])
      BY <3>1 DEF StoreInv
    <3> QED
      BY <1>3, <2>2, <3>2
  <2> QED
    BY <2>1, <2>2
<1>9. StoreInv(new, e, size)
  BY <1>2, <1>6, <1>7, <1>8 DEF StoreInv
<1> QED
  BY <1>1, <1>3, <1>4, <1>5, <1>9

-----------------------------------------------------------------------------
(* The invariant of the server *)

\* The server thread: all entries below f were replicated, those from f up to
\* next are its batch.
ServerInv(f) ==
    /\ Own(f) /\ Own(next) /\ f <= next /\ token \in BOOLEAN
    /\ server = [pc |-> server.pc, batch |-> server.batch, base |-> server.base]
    /\ server.pc \in {"idle", "process", "waitForBackup"}
    /\ server.pc = "idle" => f = next /\ token = FALSE
    /\ server.pc # "idle" => \E m, off : BatchInv(server.batch, server.base, f, m, off, next, sizes)
    /\ server.pc = "waitForBackup" => server.base \in DOMAIN store.stripes

\* The lengths known are those of the entries sent.
SizesInv == DOMAIN sizes = {i \in Nat : Own(i) /\ i < next}

\* How far each store has got.
StoresInv(f) ==
    /\ StoreInv(store, IF server.pc = "process" THEN f ELSE next, sizes)
    /\ StoreInv(copy, IF token THEN f ELSE next, sizes)

\* Apart from entry 0, what replicated_index_ covers was replicated.
ReplicatedInv(f) ==
    /\ replicated_index \in Nat
    /\ \A i \in Nat : Own(i) /\ 0 < i /\ i <= replicated_index => i < f

\* A result is the entry it was asked for, and that was replicated.
ReadsInv(f) ==
    /\ idx = [r \in Readers |-> idx[r]] /\ result = [r \in Readers |-> result[r]]
    /\ \A r \in Readers :
          /\ Own(idx[r])
          /\ result[r] # <<>> =>
                /\ idx[r] < next /\ result[r] = Image(idx[r], sizes[idx[r]])
                /\ idx[r] > 0 => idx[r] < f

\* The invariant: f is where the batch under way begins.
InvAt(f) == ServerInv(f) /\ SizesInv /\ StoresInv(f) /\ ReplicatedInv(f) /\ ReadsInv(f)
Inv == \E f \in Nat : InvAt(f)

\* Two indexes of the shard are whole steps apart.
LEMMA OwnIsAt ==
    ASSUME NEW a, NEW i, Own(a), Own(i), a <= i
    PROVE  \E k \in Nat \ {0} : i = At(a, k)
<1>1. PICK p \in Nat : a = ShardNum * p + ShardId
  <2>1. a \in Nat /\ a % ShardNum = ShardId
    BY DEF Own
  <2> QED
    BY <2>1, DivMod
<1>2. PICK q \in Nat : i = ShardNum * q + ShardId
  <2>1. i \in Nat /\ i % ShardNum = ShardId
    BY DEF Own
  <2> QED
    BY <2>1, DivMod
<1>3. p <= q
  <2> SUFFICES ASSUME q + 1 <= p PROVE FALSE
    OBVIOUS
  <2>1. ShardNum * (q + 1) <= ShardNum * p
    OBVIOUS
  <2>2. ShardNum * (q + 1) = ShardNum * q + ShardNum
    OBVIOUS
  <2>3. ShardNum * p \in Nat /\ ShardNum * q \in Nat
    OBVIOUS
  <2> QED
    BY <1>1, <1>2, <2>1, <2>2, <2>3
<1> DEFINE k == (q - p) + 1
<1>4. k \in Nat \ {0} /\ (k - 1) * ShardNum = ShardNum * q - ShardNum * p
  BY <1>3
<1>5. i = At(a, k)
  <2> HIDE DEF k
  <2>1. ShardNum * p \in Nat /\ ShardNum * q \in Nat
    OBVIOUS
  <2> QED
    BY <1>1, <1>2, <1>4, <2>1 DEF At
<1> QED
  BY <1>4, <1>5

\* Where the log goes on after the entries found at the start.
LEMMA PreloadedNext ==
    ASSUME NEW len \in Preloads
    PROVE  /\ len \in Nat /\ len \in Bases /\ OwnFrom(len) = len + ShardId /\ Own(len + ShardId)
           /\ OwnBelow(len) = {i \in Nat : Own(i) /\ i < len + ShardId}
<1>1. len \in 0..MaxLen /\ MaxLen \in Nat /\ len % BigStripe = 0 /\ len \in Nat
  BY UnoptimizedAssumption
<1>2. len \in Bases
  <2>1. PICK q \in Nat : len = BigStripe * q
    <3>1. len \div BigStripe \in Nat /\ len = BigStripe * (len \div BigStripe) + (len % BigStripe)
      BY <1>1, BigStripeIs, DivMod
    <3>2. BigStripe * (len \div BigStripe) \in Nat
      BY <3>1, BigStripeIs
    <3> QED
      BY <1>1, <3>1, <3>2
  <2>2. BigStripe * q = q * BigStripe
    BY BigStripeIs
  <2> QED
    BY <2>1, <2>2 DEF Bases
<1>3. Own(len + ShardId)
  BY <1>2, BaseFacts
<1>4. ASSUME NEW j \in len..(len + ShardNum - 1), j % ShardNum = ShardId PROVE j = len + ShardId
  <2>1. len + ShardId \in len..(len + ShardNum - 1) /\ (len + ShardId) % ShardNum = j % ShardNum
    BY <1>1, <1>3, <1>4 DEF Own
  <2> QED
    BY <1>1, <2>1, SameResidue
<1>5. OwnFrom(len) = len + ShardId
  <2>1. len + ShardId \in len..(len + ShardNum - 1) /\ (len + ShardId) % ShardNum = ShardId
    BY <1>1, <1>3 DEF Own
  <2> QED
    BY <1>4, <2>1 DEF OwnFrom
<1>6. ASSUME NEW i \in Nat, Own(i), i < len + ShardId PROVE i \in OwnBelow(len)
  <2>1. i < len
    <3> SUFFICES ASSUME len <= i PROVE FALSE
      BY <1>1
    <3>1. i \in len..(len + ShardNum - 1) /\ i % ShardNum = ShardId
      BY <1>1, <1>6 DEF Own
    <3> QED
      BY <1>1, <1>4, <1>6, <3>1
  <2> QED
    BY <1>1, <1>6, <2>1 DEF Own, OwnBelow, OwnIdxs
<1>7. ASSUME NEW i \in OwnBelow(len) PROVE i \in Nat /\ Own(i) /\ i < len + ShardId
  BY <1>1 DEF Own, OwnBelow, OwnIdxs
<1> QED
  BY <1>1, <1>2, <1>3, <1>5, <1>6, <1>7

\* The entries before a stripe that is the end of the log found at the start.
LEMMA PreloadedPlaces ==
    ASSUME NEW len \in Preloads, NEW b \in Bases, b < len
    PROVE  /\ len \in Bases /\ b + BigStripe <= len
           /\ \A k \in 1..StripeUnit : At(b + ShardId, k) \in OwnBelow(len)
<1>1. len \in 0..MaxLen /\ MaxLen \in Nat /\ len % BigStripe = 0
  BY UnoptimizedAssumption
<1>2. len \in Bases
  BY PreloadedNext
<1>3. b \in Nat /\ b + ShardId \in Nat /\ b + BigStripe <= len /\ BigStripe \in Nat
  BY <1>2, BaseFacts, BigStripeIs
<1>4. ASSUME NEW k \in 1..StripeUnit PROVE At(b + ShardId, k) \in OwnBelow(len)
  <2>1. Own(At(b + ShardId, k))
    BY PlaceOwn
  <2>2. At(b + ShardId, StripeUnit + 1) = b + ShardId + BigStripe
    BY BaseFacts
  <2>3. At(b + ShardId, k) + ShardNum <= At(b + ShardId, StripeUnit + 1)
    BY <1>3, AtGrows
  <2>4. At(b + ShardId, k) \in Nat
    BY <2>1 DEF Own
  <2>5. At(b + ShardId, k) < len
    BY <1>1, <1>3, <2>2, <2>3, <2>4
  <2> QED
    BY <1>1, <2>1, <2>4, <2>5 DEF Own, OwnBelow, OwnIdxs
<1> QED
  BY <1>2, <1>3, <1>4

\* The data files found at the start hold whole stripes.
LEMMA StoreOfInv ==
    ASSUME NEW len \in Preloads, NEW size \in [OwnBelow(len) -> Sizes]
    PROVE  StoreInv(StoreOf(len, size), len + ShardId, size)
<1> DEFINE D == {BaseIdx(i) : i \in OwnBelow(len)}
           F(b) == Images([k \in 1..StripeUnit |-> b + ShardId + (k - 1) * ShardNum], size)
<1>1. PICK st : st = StoreOf(len, size)
  OBVIOUS
<1>2. st = [stripes |-> <<>>, open |-> {}, files |-> [b \in D |-> F(b)]]
  BY <1>1 DEF StoreOf
<1>3. DOMAIN st.stripes = {} /\ DOMAIN st.files = D /\ \A b \in D : st.files[b] = F(b)
  BY <1>2
<1>4. st = [stripes |-> st.stripes, open |-> st.open, files |-> st.files]
  BY <1>2
<1>5. len \in Nat /\ len \in Bases
  BY PreloadedNext
<1>6. ASSUME NEW b \in D PROVE b \in Bases /\ b < len
  <2>1. PICK i \in OwnBelow(len) : b = BaseIdx(i)
    OBVIOUS
  <2>2. Own(i) /\ i < len /\ i \in Nat
    BY <1>5, PreloadedNext DEF OwnBelow, OwnIdxs, Own
  <2>3. /\ BaseIdx(i) \in Bases /\ BaseIdx(i) \in Nat /\ LocalCacheIdx(i) \in 0..(StripeUnit - 1)
        /\ i = At(BaseIdx(i) + ShardId, LocalCacheIdx(i) + 1)
    BY <2>2, OwnPlace
  <2>4. b + ShardId <= i /\ b \in Nat
    <3>1. b + ShardId \in Nat /\ LocalCacheIdx(i) + 1 \in Nat \ {0}
      BY <2>1, <2>3
    <3> QED
      BY <2>1, <2>3, <3>1, AtFacts
  <2> QED
    BY <1>5, <2>1, <2>2, <2>3, <2>4
<1>7. ASSUME NEW b \in Bases, b < len PROVE b \in D
  <2>1. 1 \in 1..StripeUnit /\ b + ShardId \in Nat
    BY BaseFacts
  <2>2. At(b + ShardId, 1) \in OwnBelow(len)
    BY <1>7, <2>1, PreloadedPlaces
  <2>3. BaseIdx(At(b + ShardId, 1)) = b
    BY <2>1, PlaceOwn
  <2> QED
    BY <2>2, <2>3
<1>8. ASSUME NEW b \in D PROVE \E n, off : FileHolds(st, b, n, off, len + ShardId, size)
  <2>1. b \in Bases /\ b < len /\ b + ShardId \in Nat /\ b \in Nat
    BY <1>6, BaseFacts
  <2>2. \A k \in 1..StripeUnit : At(b + ShardId, k) \in OwnBelow(len)
    BY <2>1, PreloadedPlaces
  <2>3. \A k \in 1..StripeUnit : size[At(b + ShardId, k)] \in Nat \ {0}
    BY <2>2, UnoptimizedAssumption
  <2>4. F(b) = Images([k \in 1..StripeUnit |-> At(b + ShardId, k)], size)
    BY DEF At
  <2>5. PICK off : Laid(F(b), b + ShardId, StripeUnit, off, size)
    BY <2>1, <2>3, <2>4, LaidImages
  <2>6. At(b + ShardId, StripeUnit + 1) = b + ShardId + BigStripe /\ b + BigStripe <= len /\ BigStripe \in Nat
    BY <2>1, BaseFacts, PreloadedPlaces, BigStripeIs
  <2>7. At(b + ShardId, StripeUnit + 1) <= len + ShardId
    BY <1>5, <2>1, <2>6
  <2>8. st.files[b] = F(b)
    BY <1>3
  <2> HIDE DEF F
  <2>9. FileHolds(st, b, StripeUnit, off, len + ShardId, size)
    BY <2>5, <2>7, <2>8 DEF FileHolds
  <2> QED
    BY <2>9
<1>9. ASSUME NEW b \in Bases, b + ShardId < len + ShardId PROVE b \in DOMAIN st.files
  <2>1. b < len
    <3>1. b \in Nat
      BY BaseFacts
    <3> QED
      BY <1>5, <1>9, <3>1
  <2> QED
    BY <1>3, <1>7, <2>1
<1> HIDE DEF D, F
<1>10. StoreInv(st, len + ShardId, size)
  BY <1>3, <1>4, <1>6, <1>8, <1>9 DEF StoreInv
<1> QED
  BY <1>1, <1>10

\* The initial states satisfy the invariant.
LEMMA InitInv == Init => Inv
<1> SUFFICES ASSUME Init PROVE Inv
  OBVIOUS
<1>1. PICK len \in Preloads : \E size \in [OwnBelow(len) -> Sizes] :
        /\ server = [pc |-> "idle", batch |-> <<>>, base |-> 0]
        /\ token = FALSE
        /\ next = OwnFrom(len)
        /\ sizes = size
        /\ store = StoreOf(len, size) /\ copy = StoreOf(len, size)
        /\ replicated_index = MaxOf(len - 1, 0)
        /\ idx = [r \in Readers |-> ShardId]
        /\ result = [r \in Readers |-> <<>>]
  BY DEF Init
<1>2. PICK size \in [OwnBelow(len) -> Sizes] :
        /\ server = [pc |-> "idle", batch |-> <<>>, base |-> 0]
        /\ token = FALSE
        /\ next = OwnFrom(len)
        /\ sizes = size
        /\ store = StoreOf(len, size) /\ copy = StoreOf(len, size)
        /\ replicated_index = MaxOf(len - 1, 0)
        /\ idx = [r \in Readers |-> ShardId]
        /\ result = [r \in Readers |-> <<>>]
  BY <1>1
<1>3. /\ len \in Nat /\ len \in Bases /\ OwnFrom(len) = len + ShardId /\ Own(len + ShardId)
      /\ OwnBelow(len) = {i \in Nat : Own(i) /\ i < len + ShardId}
  BY PreloadedNext
<1>4. PICK f \in Nat : f = len + ShardId /\ next = f /\ Own(f)
  BY <1>2, <1>3
<1>5. ServerInv(f)
  <2>1. f <= next
    BY <1>4
  <2> QED
    BY <1>2, <1>4, <2>1 DEF ServerInv
<1>6. SizesInv
  BY <1>2, <1>3, <1>4 DEF SizesInv
<1>7. StoresInv(f)
  <2>1. StoreInv(StoreOf(len, size), len + ShardId, size)
    BY StoreOfInv
  <2> QED
    BY <1>2, <1>4, <2>1 DEF StoresInv
<1>8. ReplicatedInv(f)
  <2>1. replicated_index \in Nat /\ (replicated_index = 0 \/ replicated_index < len)
    BY <1>2, <1>3 DEF MaxOf
  <2> QED
    BY <1>3, <1>4, <2>1 DEF ReplicatedInv
<1>9. ReadsInv(f)
  <2>1. Own(ShardId)
    <3>1. ShardId \in Nat /\ ShardId % ShardNum = ShardId
      OBVIOUS
    <3> QED
      BY <3>1 DEF Own
  <2> QED
    BY <1>2, <2>1 DEF ReadsInv
<1> QED
  BY <1>5, <1>6, <1>7, <1>8, <1>9 DEF Inv, InvAt

\* A batch is laid out behind the log.
LEMMA AppendBatchInv ==
    ASSUME NEW f \in Nat, InvAt(f), AppendBatch
    PROVE  InvAt(f)'
<1>1. PICK n \in 1..StripeUnit :
          LET is == [k \in 1..n |-> next + (k - 1) * ShardNum] IN
          /\ is[n] < MaxLen /\ BaseIdx(is[n]) = BaseIdx(next)
          /\ \E size \in [Range(is) -> Sizes] :
                /\ server' = [pc |-> "process", base |-> BaseIdx(next), batch |-> Images(is, size)]
                /\ sizes' = [i \in DOMAIN sizes \cup Range(is) |->
                                IF i \in Range(is) THEN size[i] ELSE sizes[i]]
          /\ next' = is[n] + ShardNum
  BY DEF AppendBatch
<1>2. PICK is : is = [k \in 1..n |-> At(next, k)]
  OBVIOUS
<1>3. is = [k \in 1..n |-> next + (k - 1) * ShardNum]
  BY <1>2 DEF At
<1>4. PICK size \in [Range(is) -> Sizes] :
          /\ server' = [pc |-> "process", base |-> BaseIdx(next), batch |-> Images(is, size)]
          /\ sizes' = [i \in DOMAIN sizes \cup Range(is) |->
                          IF i \in Range(is) THEN size[i] ELSE sizes[i]]
  BY <1>1, <1>3
<1>5. BaseIdx(is[n]) = BaseIdx(next) /\ next' = is[n] + ShardNum
  BY <1>1, <1>3
<1>6. /\ server.pc = "idle" /\ token' = TRUE
      /\ UNCHANGED <<store, copy, replicated_index, idx, result>>
  BY DEF AppendBatch, readVars
<1>7. f = next /\ Own(f) /\ n \in Nat \ {0} /\ n + 1 \in Nat \ {0} /\ next \in Nat
  BY <1>6 DEF InvAt, ServerInv
<1>8. /\ Range(is) = {At(f, k) : k \in 1..n} /\ is[n] = At(f, n)
      /\ \A k \in 1..n : At(f, k) \in Range(is)
  <2>1. DOMAIN is = 1..n /\ \A k \in 1..n : is[k] = At(f, k)
    BY <1>2, <1>7
  <2>2. n \in 1..n
    BY <1>7
  <2> QED
    BY <2>1, <2>2 DEF Range
<1>9. next' = At(f, n + 1) /\ BaseIdx(At(f, n)) = BaseIdx(f) /\ Own(next') /\ next' \in Nat /\ f <= next'
  <2>1. At(f, n + 1) = At(f, n) + ShardNum
    BY <1>7, AtFacts
  <2>2. Own(At(f, n + 1))
    BY <1>7, OwnAt
  <2>3. f <= At(f, n + 1) /\ At(f, n + 1) \in Nat
    BY <1>7, AtFacts
  <2> QED
    BY <1>5, <1>7, <1>8, <2>1, <2>2, <2>3
<1>10. \A k \in 1..n : sizes'[At(f, k)] = size[At(f, k)] /\ size[At(f, k)] \in Nat \ {0}
  <2>1. \A i \in Range(is) : sizes'[i] = size[i]
    BY <1>4
  <2>2. \A i \in Range(is) : size[i] \in Nat \ {0}
    BY UnoptimizedAssumption
  <2> QED
    BY <1>8, <2>1, <2>2
<1>11. PICK off : Laid(server.batch', f, n, off, sizes')
  <2>1. \E off : Laid(Images([k \in 1..n |-> At(f, k)], size), f, n, off, size)
    BY <1>7, <1>10, LaidImages
  <2>2. PICK off : Laid(Images([k \in 1..n |-> At(f, k)], size), f, n, off, size)
    BY <2>1
  <2>3. PICK w : w = Images([k \in 1..n |-> At(f, k)], size)
    OBVIOUS
  <2>4. Laid(w, f, n, off, sizes')
    BY <1>10, <2>2, <2>3 DEF Laid
  <2>5. server.batch' = w
    BY <1>2, <1>4, <1>7, <2>3
  <2> QED
    BY <2>4, <2>5
<1>12. BatchInv(server.batch', server.base', f, n, off, next', sizes')
  BY <1>4, <1>7, <1>9, <1>11 DEF BatchInv
<1>13. ServerInv(f)'
  <2>1. server' = [pc |-> server.pc', batch |-> server.batch', base |-> server.base'] /\ server.pc' = "process"
    BY <1>4
  <2> QED
    BY <1>6, <1>7, <1>9, <1>12, <2>1 DEF ServerInv
<1>14. ASSUME NEW i \in Nat, Own(i), i < next PROVE i \in DOMAIN sizes /\ sizes'[i] = sizes[i]
  <2>1. i \in DOMAIN sizes
    BY <1>14 DEF InvAt, SizesInv
  <2>2. i \notin Range(is)
    <3> SUFFICES ASSUME i \in Range(is) PROVE FALSE
      OBVIOUS
    <3>1. PICK k \in 1..n : i = At(f, k)
      BY <1>8
    <3>2. f <= At(f, k)
      BY <1>7, AtFacts
    <3> QED
      BY <1>7, <1>14, <3>1, <3>2
  <2> QED
    BY <1>4, <2>1, <2>2
<1>15. SizesInv'
  <2>1. DOMAIN sizes' = DOMAIN sizes \cup Range(is)
    BY <1>4
  <2>2. DOMAIN sizes = {i \in Nat : Own(i) /\ i < next}
    BY DEF InvAt, SizesInv
  <2>3. ASSUME NEW i \in DOMAIN sizes' PROVE i \in Nat /\ Own(i) /\ i < next'
    <3>1. CASE i \in DOMAIN sizes
      BY <1>7, <1>9, <2>2, <3>1
    <3>2. CASE i \in Range(is)
      <4>1. PICK k \in 1..n : i = At(f, k)
        BY <1>8, <3>2
      <4>2. k \in Nat \ {0} /\ k < n + 1
        BY <1>7
      <4>3. Own(i) /\ i \in Nat
        BY <1>7, <4>1, <4>2, OwnAt DEF Own
      <4>4. At(f, k) < At(f, n + 1)
        BY <1>7, <4>2, AtOrder
      <4> QED
        BY <1>9, <4>1, <4>3, <4>4
    <3> QED
      BY <2>1, <3>1, <3>2
  <2>4. ASSUME NEW i \in Nat, Own(i), i < next' PROVE i \in DOMAIN sizes'
    <3>1. CASE i < next
      BY <2>1, <2>2, <2>4, <3>1
    <3>2. CASE f <= i
      <4>1. PICK k \in Nat \ {0} : i = At(f, k)
        BY <1>7, <2>4, <3>2, OwnIsAt
      <4>2. At(f, k) < At(f, n + 1)
        BY <1>9, <2>4, <4>1
      <4>3. k < n + 1
        BY <1>7, <4>2, AtOrder
      <4>4. k \in 1..n
        BY <1>7, <4>3
      <4> QED
        BY <1>8, <2>1, <4>1, <4>4
    <3> QED
      BY <1>7, <3>1, <3>2
  <2> QED
    BY <2>3, <2>4 DEF SizesInv
<1>16. StoresInv(f)'
  <2>1. StoreInv(store, next, sizes) /\ StoreInv(copy, next, sizes)
    BY <1>6, <1>7 DEF InvAt, StoresInv, ServerInv
  <2>2. \A i \in Nat : Own(i) /\ i < next => sizes'[i] = sizes[i]
    BY <1>14
  <2>3. PICK a, b, e, s, s2 : a = store /\ b = copy /\ e = next /\ e \in Nat /\ s = sizes /\ s2 = sizes'
    BY <1>7
  <2>4. StoreInv(a, e, s) /\ StoreInv(b, e, s) /\ \A i \in Nat : Own(i) /\ i < e => s2[i] = s[i]
    BY <2>1, <2>2, <2>3
  <2>5. StoreInv(a, e, s2) /\ StoreInv(b, e, s2)
    BY <2>3, <2>4, StoreSize
  <2>6. store' = a /\ copy' = b /\ f = e /\ sizes' = s2
    BY <1>6, <1>7, <2>3
  <2>7. server.pc' = "process" /\ token' = TRUE
    BY <1>4, <1>6
  <2> QED
    BY <2>5, <2>6, <2>7 DEF StoresInv
<1>17. ReplicatedInv(f)'
  BY <1>6 DEF InvAt, ReplicatedInv
<1>18. ReadsInv(f)'
  <2>1. ASSUME NEW r \in Readers, result[r] # <<>>
        PROVE  /\ idx[r] < next' /\ result[r] = Image(idx[r], sizes'[idx[r]])
               /\ idx[r] > 0 => idx[r] < f
    <3>1. /\ Own(idx[r]) /\ idx[r] < next /\ result[r] = Image(idx[r], sizes[idx[r]])
          /\ idx[r] > 0 => idx[r] < f
      BY <2>1 DEF InvAt, ReadsInv
    <3>2. sizes'[idx[r]] = sizes[idx[r]] /\ idx[r] \in Nat
      BY <1>14, <3>1 DEF Own
    <3> QED
      BY <1>7, <1>9, <3>1, <3>2
  <2> QED
    BY <1>6, <2>1 DEF InvAt, ReadsInv
<1> QED
  BY <1>13, <1>15, <1>16, <1>17, <1>18 DEF InvAt

\* The backup stores the batch.
LEMMA ReplicateBatchInv ==
    ASSUME NEW f \in Nat, InvAt(f), ReplicateBatch
    PROVE  InvAt(f)'
<1>1. /\ token /\ copy' = ProcessEntries(copy, server.base, server.batch) /\ token' = FALSE
      /\ UNCHANGED <<server, next, sizes, store, replicated_index, idx, result>>
  BY DEF ReplicateBatch, readVars
<1>2. server.pc # "idle"
  BY <1>1 DEF InvAt, ServerInv
<1>3. PICK m, off : BatchInv(server.batch, server.base, f, m, off, next, sizes)
  BY <1>2 DEF InvAt, ServerInv
<1>4. StoreInv(copy, f, sizes)
  BY <1>1 DEF InvAt, StoresInv
<1>5. PICK st, w, b, e, s, new :
          /\ st = copy /\ w = server.batch /\ b = server.base /\ e = next /\ s = sizes
          /\ new = copy'
  OBVIOUS
<1>6. StoreInv(st, f, s) /\ BatchInv(w, b, f, m, off, e, s) /\ new = ProcessEntries(st, b, w)
  BY <1>1, <1>3, <1>4, <1>5
<1>7. StoreInv(new, e, s)
  BY <1>6, ProcessStep
<1>8. StoresInv(f)'
  BY <1>1, <1>5, <1>7 DEF InvAt, StoresInv
<1>9. ServerInv(f)'
  BY <1>1, <1>2 DEF InvAt, ServerInv
<1>10. SizesInv' /\ ReplicatedInv(f)' /\ ReadsInv(f)'
  BY <1>1 DEF InvAt, SizesInv, ReplicatedInv, ReadsInv
<1> QED
  BY <1>8, <1>9, <1>10 DEF InvAt

\* The primary stores the batch.
LEMMA ProcessEntriesInv ==
    ASSUME NEW f \in Nat, InvAt(f), ProcessEntriesAndBuildMap
    PROVE  InvAt(f)'
<1>1. /\ server.pc = "process" /\ store' = ProcessEntries(store, server.base, server.batch)
      /\ server' = [server EXCEPT !.pc = "waitForBackup"]
      /\ UNCHANGED <<token, next, sizes, copy, replicated_index, idx, result>>
  BY DEF ProcessEntriesAndBuildMap, readVars
<1>2. server = [pc |-> server.pc, batch |-> server.batch, base |-> server.base]
  BY DEF InvAt, ServerInv
<1>3. PICK m, off : BatchInv(server.batch, server.base, f, m, off, next, sizes)
  BY <1>1 DEF InvAt, ServerInv
<1>4. StoreInv(store, f, sizes)
  BY <1>1 DEF InvAt, StoresInv
<1>5. PICK st, w, b, e, s, new :
          /\ st = store /\ w = server.batch /\ b = server.base /\ e = next /\ s = sizes
          /\ new = store'
  OBVIOUS
<1>6. StoreInv(st, f, s) /\ BatchInv(w, b, f, m, off, e, s) /\ new = ProcessEntries(st, b, w)
  BY <1>1, <1>3, <1>4, <1>5
<1>7. StoreInv(new, e, s) /\ b \in DOMAIN new.stripes
  BY <1>6, ProcessStep
<1>8. server' = [pc |-> "waitForBackup", batch |-> w, base |-> b]
  BY <1>1, <1>2, <1>5
<1>9. server.pc' = "waitForBackup" /\ server.batch' = w /\ server.base' = b
  BY <1>8
<1>10. StoresInv(f)'
  BY <1>1, <1>5, <1>7, <1>9 DEF InvAt, StoresInv
<1>11. ServerInv(f)'
  <2>1. BatchInv(server.batch', server.base', f, m, off, next', sizes')
    BY <1>1, <1>5, <1>6, <1>9
  <2>2. server.base' \in DOMAIN store'.stripes
    BY <1>5, <1>7, <1>9
  <2>3. server' = [pc |-> server.pc', batch |-> server.batch', base |-> server.base']
    BY <1>8, <1>9
  <2> QED
    BY <1>1, <1>9, <2>1, <2>2, <2>3 DEF InvAt, ServerInv
<1>12. SizesInv' /\ ReplicatedInv(f)' /\ ReadsInv(f)'
  BY <1>1 DEF InvAt, SizesInv, ReplicatedInv, ReadsInv
<1> QED
  BY <1>10, <1>11, <1>12 DEF InvAt

\* The last entry of a stripe in memory is below the end of its store.
LEMMA LastOfStripe ==
    ASSUME NEW st, NEW e \in Nat, NEW size, StoreInv(st, e, size), NEW b \in DOMAIN st.stripes,
           NEW last, last = CHOOSE i \in DOMAIN st.stripes[b].offset :
                                \A j \in DOMAIN st.stripes[b].offset : j <= i
    PROVE  last \in Nat /\ last < e
<1>1. b \in DOMAIN st.files /\ st.stripes[b] = Loaded(st.files[b])
  BY DEF StoreInv
<1>2. b \in Bases /\ \E n, off : FileHolds(st, b, n, off, e, size)
  BY <1>1 DEF StoreInv
<1>3. PICK n, off : FileHolds(st, b, n, off, e, size)
  BY <1>2
<1>4. PICK g \in Nat : g = b + ShardId
  BY <1>2, BaseFacts
<1>5. n \in 1..StripeUnit /\ n \in Nat \ {0} /\ Laid(st.files[b], g, n, off, size) /\ At(g, n + 1) <= e
  BY <1>3, <1>4 DEF FileHolds
<1>6. IsStripe(Loaded(st.files[b]), g, n, off, Len(st.files[b]))
  BY <1>5, LaidLoaded
<1> DEFINE D == DOMAIN st.stripes[b].offset
<1>7. D = {At(g, k) : k \in 1..n}
  BY <1>1, <1>6 DEF IsStripe, IsMap
<1>8. At(g, n) \in D /\ \A j \in D : j <= At(g, n)
  <2>1. n \in 1..n
    BY <1>5
  <2>2. ASSUME NEW k \in 1..n PROVE At(g, k) <= At(g, n)
    <3>1. k \in Nat \ {0} /\ k <= n
      BY <1>5
    <3> QED
      BY <1>5, <3>1, AtOrder
  <2> QED
    BY <1>7, <2>1, <2>2
<1>9. last \in D
  <2> HIDE DEF D
  <2>1. last = CHOOSE i \in D : \A j \in D : j <= i
    BY DEF D
  <2> QED
    BY <1>8, <2>1
<1>10. PICK k \in 1..n : last = At(g, k)
  BY <1>7, <1>9
<1>11. At(g, k) < At(g, n + 1) /\ At(g, k) \in Nat /\ At(g, n + 1) \in Nat
  <2>1. k \in Nat \ {0} /\ n + 1 \in Nat \ {0} /\ k < n + 1
    BY <1>5
  <2> QED
    BY <2>1, AtOrder
<1>12. At(g, k) < e
  <2>1. \A x \in Nat, y \in Nat : x < y /\ y <= e => x < e
    OBVIOUS
  <2> QED
    BY <1>5, <1>11, <2>1
<1> QED
  BY <1>10, <1>11, <1>12

\* The batch is replicated: the next one begins where it ends.
LEMMA SetReplicatedInv ==
    ASSUME NEW f \in Nat, InvAt(f), SetReplicated, NEW g \in Nat, g = next
    PROVE  InvAt(g)'
<1>1. /\ server.pc = "waitForBackup" /\ ~token
      /\ replicated_index' = CHOOSE i \in DOMAIN store.stripes[server.base].offset :
                              \A j \in DOMAIN store.stripes[server.base].offset : j <= i
      /\ server' = [server EXCEPT !.pc = "idle"]
      /\ UNCHANGED <<token, next, sizes, store, copy, idx, result>>
  BY DEF SetReplicated, allRPCCompleted
<1>2. server = [pc |-> server.pc, batch |-> server.batch, base |-> server.base]
  BY DEF InvAt, ServerInv
<1>3. server.pc' = "idle" /\ server' = [pc |-> server.pc', batch |-> server.batch', base |-> server.base']
  BY <1>1, <1>2
<1>4. f <= g /\ Own(g) /\ token \in BOOLEAN
  BY DEF InvAt, ServerInv
<1>5. ServerInv(g)'
  BY <1>1, <1>3, <1>4 DEF ServerInv
<1>6. SizesInv'
  BY <1>1 DEF InvAt, SizesInv
<1>7. StoreInv(store, g, sizes) /\ StoreInv(copy, g, sizes)
  BY <1>1 DEF InvAt, StoresInv
<1>8. StoresInv(g)'
  BY <1>1, <1>3, <1>7 DEF StoresInv
<1>9. ReplicatedInv(g)'
  <2>1. server.base \in DOMAIN store.stripes
    BY <1>1 DEF InvAt, ServerInv
  <2>2. PICK st, b, s, last : st = store /\ b = server.base /\ s = sizes /\ last = replicated_index'
    OBVIOUS
  <2>3. /\ StoreInv(st, g, s) /\ b \in DOMAIN st.stripes
        /\ last = CHOOSE i \in DOMAIN st.stripes[b].offset :
                     \A j \in DOMAIN st.stripes[b].offset : j <= i
    BY <1>1, <1>7, <2>1, <2>2
  <2>4. last \in Nat /\ last < g
    BY <2>3, LastOfStripe
  <2> QED
    BY <2>2, <2>4 DEF ReplicatedInv
<1>10. ReadsInv(g)'
  <2>1. ASSUME NEW r \in Readers PROVE Own(idx[r])
    BY DEF InvAt, ReadsInv
  <2>2. ASSUME NEW r \in Readers, result[r] # <<>>
        PROVE  idx[r] < g /\ result[r] = Image(idx[r], sizes[idx[r]])
    BY <2>2 DEF InvAt, ReadsInv
  <2> QED
    BY <1>1, <2>1, <2>2 DEF InvAt, ReadsInv
<1> QED
  BY <1>5, <1>6, <1>8, <1>9, <1>10 DEF InvAt

\* A read begins.
LEMMA ReadEntryInv ==
    ASSUME NEW f \in Nat, InvAt(f), NEW r \in Readers, ReadEntry(r)
    PROVE  InvAt(f)'
<1>1. PICK i \in OwnIdxs : idx' = [idx EXCEPT ![r] = i]
  BY DEF ReadEntry
<1>2. /\ result' = [result EXCEPT ![r] = <<>>]
      /\ UNCHANGED <<server, token, next, sizes, copy, replicated_index, store>>
  BY DEF ReadEntry, shardVars
<1>3. ServerInv(f)' /\ SizesInv' /\ StoresInv(f)' /\ ReplicatedInv(f)'
  BY <1>2 DEF InvAt, ServerInv, SizesInv, StoresInv, ReplicatedInv
<1>4. Own(i)
  BY UnoptimizedAssumption DEF OwnIdxs, Own
<1>5. idx = [x \in Readers |-> idx[x]] /\ result = [x \in Readers |-> result[x]]
  BY DEF InvAt, ReadsInv
<1>6. idx' = [x \in Readers |-> IF x = r THEN i ELSE idx[x]]
  BY <1>1, <1>5
<1>7. result' = [x \in Readers |-> IF x = r THEN <<>> ELSE result[x]]
  BY <1>2, <1>5
<1>8. ASSUME NEW x \in Readers
      PROVE  /\ Own(idx'[x])
             /\ result'[x] # <<>> =>
                   /\ idx'[x] < next /\ result'[x] = Image(idx'[x], sizes[idx'[x]])
                   /\ idx'[x] > 0 => idx'[x] < f
  <2>1. CASE x = r
    BY <1>4, <1>6, <1>7, <2>1
  <2>2. CASE x # r
    <3>1. idx'[x] = idx[x] /\ result'[x] = result[x]
      BY <1>6, <1>7, <2>2
    <3> QED
      BY <3>1 DEF InvAt, ReadsInv
  <2> QED
    BY <2>1, <2>2
<1>9. idx' = [x \in Readers |-> idx'[x]] /\ result' = [x \in Readers |-> result'[x]]
  BY <1>6, <1>7
<1>10. ReadsInv(f)'
  BY <1>2, <1>8, <1>9 DEF ReadsInv
<1> QED
  BY <1>3, <1>10 DEF InvAt

\* An answer from the file is the entry, and it was replicated.
LEMMA AnswerInv ==
    ASSUME NEW f \in Nat, InvAt(f), NEW r \in Readers,
           BaseIdx(idx[r]) \in DOMAIN store.stripes, MayRead(idx[r])
    PROVE  /\ idx[r] < next
           /\ readEntryFromDisk(store, store.stripes[BaseIdx(idx[r])], idx[r]) = Image(idx[r], sizes[idx[r]])
           /\ idx[r] > 0 => idx[r] < f
<1>1. PICK i, st, s, b : i = idx[r] /\ st = store /\ s = sizes /\ b = BaseIdx(i)
  OBVIOUS
<1>2. Own(i) /\ i \in Nat
  BY <1>1 DEF InvAt, ReadsInv, Own
<1>3. f <= next /\ next \in Nat
  BY DEF InvAt, ServerInv, Own
<1>4. PICK e \in Nat : StoreInv(st, e, s) /\ e <= next
  <2>1. CASE server.pc = "process"
    BY <1>1, <1>3, <2>1 DEF InvAt, StoresInv
  <2>2. CASE server.pc # "process"
    <3>1. StoreInv(st, next, s) /\ next <= next
      BY <1>1, <1>3, <2>2 DEF InvAt, StoresInv
    <3> QED
      BY <1>3, <3>1
  <2> QED
    BY <2>1, <2>2
<1>5. b \in DOMAIN st.stripes /\ LocalCacheIdx(i) < st.stripes[b].num_entries /\ i <= replicated_index
  BY <1>1 DEF MayRead
<1>6. b \in DOMAIN st.files /\ st.stripes[b] = Loaded(st.files[b])
  BY <1>4, <1>5 DEF StoreInv
<1>7. BaseIdx(i) \in DOMAIN st.files /\ LocalCacheIdx(i) < Loaded(st.files[BaseIdx(i)]).num_entries
  BY <1>1, <1>5, <1>6
<1>8. i < e /\ readEntryFromDisk(st, Loaded(st.files[BaseIdx(i)]), i) = Image(i, s[i])
  BY <1>2, <1>4, <1>7, StoreRead
<1>9. readEntryFromDisk(st, st.stripes[b], i) = Image(i, s[i])
  BY <1>1, <1>6, <1>8
<1>10. i < next
  BY <1>2, <1>3, <1>4, <1>8
<1>11. i > 0 => i < f
  BY <1>2, <1>5 DEF InvAt, ReplicatedInv
<1> QED
  BY <1>1, <1>9, <1>10, <1>11

\* The loop under the shared lock.
LEMMA CheckCacheInv ==
    ASSUME NEW f \in Nat, InvAt(f), NEW r \in Readers, CheckCache(r)
    PROVE  InvAt(f)'
<1>1. /\ UNCHANGED <<server, token, next, sizes, copy, replicated_index, store, idx>>
      /\ \/ UNCHANGED result
         \/ /\ BaseIdx(idx[r]) \in DOMAIN store.stripes /\ MayRead(idx[r])
            /\ result' = [result EXCEPT ![r] =
                             readEntryFromDisk(store, store.stripes[BaseIdx(idx[r])], idx[r])]
  BY DEF CheckCache, shardVars
<1>2. ServerInv(f)' /\ SizesInv' /\ StoresInv(f)' /\ ReplicatedInv(f)'
  BY <1>1 DEF InvAt, ServerInv, SizesInv, StoresInv, ReplicatedInv
<1>3. ReadsInv(f)'
  <2>1. CASE UNCHANGED result
    BY <1>1, <2>1 DEF InvAt, ReadsInv
  <2>2. CASE /\ BaseIdx(idx[r]) \in DOMAIN store.stripes /\ MayRead(idx[r])
             /\ result' = [result EXCEPT ![r] =
                             readEntryFromDisk(store, store.stripes[BaseIdx(idx[r])], idx[r])]
    <3>1. /\ idx[r] < next
          /\ readEntryFromDisk(store, store.stripes[BaseIdx(idx[r])], idx[r]) = Image(idx[r], sizes[idx[r]])
          /\ idx[r] > 0 => idx[r] < f
      BY <2>2, AnswerInv
    <3>2. result = [x \in Readers |-> result[x]]
      BY DEF InvAt, ReadsInv
    <3>3. result' = [x \in Readers |-> IF x = r THEN Image(idx[r], sizes[idx[r]]) ELSE result[x]]
      BY <2>2, <3>1, <3>2
    <3>4. ASSUME NEW x \in Readers, result'[x] # <<>>
          PROVE  /\ idx[x] < next /\ result'[x] = Image(idx[x], sizes[idx[x]])
                 /\ idx[x] > 0 => idx[x] < f
      <4>1. CASE x = r
        BY <3>1, <3>3, <4>1
      <4>2. CASE x # r
        <5>1. result'[x] = result[x]
          BY <3>3, <4>2
        <5> QED
          BY <3>4, <5>1 DEF InvAt, ReadsInv
      <4> QED
        BY <4>1, <4>2
    <3>5. result' = [x \in Readers |-> result'[x]]
      BY <3>3
    <3>6. idx = [x \in Readers |-> idx[x]] /\ \A x \in Readers : Own(idx[x])
      BY DEF InvAt, ReadsInv
    <3> QED
      BY <1>1, <3>4, <3>5, <3>6 DEF ReadsInv
  <2> QED
    BY <1>1, <2>1, <2>2
<1> QED
  BY <1>2, <1>3 DEF InvAt

\* A stripe is loaded from its file.
LEMMA LoadInv ==
    ASSUME NEW f \in Nat, InvAt(f), NEW r \in Readers, LoadFromDiskToCache(r)
    PROVE  InvAt(f)'
<1>1. /\ UNCHANGED <<server, token, next, sizes, copy, replicated_index, idx, result>>
      /\ \/ UNCHANGED store
         \/ /\ BaseIdx(idx[r]) \in DOMAIN store.files
            /\ store' = [store EXCEPT !.stripes =
                            Put(store.stripes, BaseIdx(idx[r]), Loaded(store.files[BaseIdx(idx[r])]))]
  BY DEF LoadFromDiskToCache, shardVars
<1>2. SizesInv' /\ ReplicatedInv(f)' /\ ReadsInv(f)'
  BY <1>1 DEF InvAt, SizesInv, ReplicatedInv, ReadsInv
<1>3. CASE UNCHANGED store
  <2>1. ServerInv(f)' /\ StoresInv(f)'
    BY <1>1, <1>3 DEF InvAt, ServerInv, StoresInv
  <2> QED
    BY <1>2, <2>1 DEF InvAt
<1>4. CASE /\ BaseIdx(idx[r]) \in DOMAIN store.files
           /\ store' = [store EXCEPT !.stripes =
                            Put(store.stripes, BaseIdx(idx[r]), Loaded(store.files[BaseIdx(idx[r])]))]
  <2>1. PICK st, b, e, s, new :
            /\ st = store /\ b = BaseIdx(idx[r]) /\ s = sizes /\ new = store'
            /\ e = IF server.pc = "process" THEN f ELSE next
    OBVIOUS
  <2>2. e \in Nat /\ StoreInv(st, e, s)
    BY <2>1 DEF InvAt, StoresInv, ServerInv, Own
  <2>3. b \in DOMAIN st.files /\ new = [st EXCEPT !.stripes = Put(st.stripes, b, Loaded(st.files[b]))]
    BY <1>4, <2>1
  <2>4. StoreInv(new, e, s)
    BY <2>2, <2>3, StoreLoad
  <2>5. DOMAIN st.stripes \subseteq DOMAIN new.stripes
    <3>1. st = [stripes |-> st.stripes, open |-> st.open, files |-> st.files]
      BY <2>2 DEF StoreInv
    <3>2. new.stripes = Put(st.stripes, b, Loaded(st.files[b]))
      BY <2>3, <3>1
    <3> QED
      BY <3>2 DEF Put
  <2>6. ServerInv(f)'
    BY <1>1, <2>1, <2>5 DEF InvAt, ServerInv
  <2>7. StoresInv(f)'
    BY <1>1, <2>1, <2>4 DEF InvAt, StoresInv
  <2> QED
    BY <1>2, <2>6, <2>7 DEF InvAt
<1> QED
  BY <1>1, <1>3, <1>4

\* Steps that change nothing the invariant speaks of.
LEMMA IdleInv ==
    ASSUME NEW f \in Nat, InvAt(f),
           UNCHANGED <<server, token, next, sizes, copy, replicated_index, store, idx, result>>
    PROVE  InvAt(f)'
<1>1. ServerInv(f)' /\ SizesInv'
  BY DEF InvAt, ServerInv, SizesInv
<1>2. StoresInv(f)' /\ ReplicatedInv(f)' /\ ReadsInv(f)'
  BY DEF InvAt, StoresInv, ReplicatedInv, ReadsInv
<1> QED
  BY <1>1, <1>2 DEF InvAt

\* Every step keeps the invariant.
LEMMA NextInv == Inv /\ [Next]_vars => Inv'
<1> SUFFICES ASSUME Inv, [Next]_vars PROVE Inv'
  OBVIOUS
<1>1. PICK f \in Nat : InvAt(f)
  BY DEF Inv
<1>2. (\E g \in Nat : InvAt(g)') => Inv'
  BY DEF Inv
<1>3. CASE AppendBatch
  BY <1>1, <1>2, <1>3, AppendBatchInv
<1>4. CASE ReplicateBatch
  BY <1>1, <1>2, <1>4, ReplicateBatchInv
<1>5. CASE ProcessEntriesAndBuildMap
  BY <1>1, <1>2, <1>5, ProcessEntriesInv
<1>6. CASE SetReplicated
  <2>1. PICK g \in Nat : g = next
    BY <1>1 DEF InvAt, ServerInv, Own
  <2> QED
    BY <1>1, <1>2, <1>6, <2>1, SetReplicatedInv
<1>7. CASE \E r \in Readers : ReadEntry(r)
  BY <1>1, <1>2, <1>7, ReadEntryInv
<1>8. CASE \E r \in Readers : CheckCache(r)
  BY <1>1, <1>2, <1>8, CheckCacheInv
<1>9. CASE \E r \in Readers : LoadFromDiskToCache(r)
  BY <1>1, <1>2, <1>9, LoadInv
<1>10. CASE \E r \in Readers : Relock(r) \/ SpuriousWake(r)
  <2>1. UNCHANGED <<server, token, next, sizes, copy, replicated_index, store, idx, result>>
    BY <1>10 DEF Relock, SpuriousWake, shardVars
  <2> QED
    BY <1>1, <1>2, <2>1, IdleInv
<1>11. CASE UNCHANGED vars
  <2>1. UNCHANGED <<server, token, next, sizes, copy, replicated_index, store, idx, result>>
    BY <1>11 DEF vars, shardVars, readVars
  <2> QED
    BY <1>1, <1>2, <2>1, IdleInv
<1> QED
  BY <1>3, <1>4, <1>5, <1>6, <1>7, <1>8, <1>9, <1>10, <1>11 DEF Next, ReadStep

\* The invariant holds throughout.
THEOREM Inductive == Spec => []Inv
BY InitInv, NextInv, PTL DEF Spec

\* A read is answered with the entry it asked for, whole and nothing else, for
\* every striping, all lengths of the entries and every cut into batches.
THEOREM ReadIsExactThm == Spec => []ReadIsExact
<1>1. Inv => ReadIsExact
  BY DEF Inv, InvAt, ReadsInv, ReadIsExact
<1> QED
  BY <1>1, Inductive, PTL

\* What primary and backup know of a stripe is what its data file says.
THEOREM MapIsOfFileThm == Spec => []MapIsOfFile
<1>1. Inv => MapIsOfFile
  BY DEF Inv, InvAt, StoresInv, StoreInv, MapIsOfFile
<1> QED
  BY <1>1, Inductive, PTL

\* An entry other than entry 0 that has been read is on the backup, where the
\* backup would look for it.
THEOREM LaterReadIsReplicatedThm == Spec => []LaterReadIsReplicated
<1>1. Inv => LaterReadIsReplicated
  <2> SUFFICES ASSUME Inv, NEW r \in Readers, result[r] # <<>>, idx[r] > 0
               PROVE  /\ BaseIdx(idx[r]) \in DOMAIN copy.files
                      /\ idx[r] \in DOMAIN Loaded(copy.files[BaseIdx(idx[r])]).offset
                      /\ readEntryFromDisk(copy, Loaded(copy.files[BaseIdx(idx[r])]), idx[r]) = result[r]
    BY DEF LaterReadIsReplicated
  <2>1. PICK f \in Nat : InvAt(f)
    BY DEF Inv
  <2>2. PICK i, st, s : i = idx[r] /\ st = copy /\ s = sizes
    OBVIOUS
  <2>3. Own(i) /\ i \in Nat /\ i < f /\ result[r] = Image(i, s[i])
    BY <2>1, <2>2 DEF InvAt, ReadsInv, Own
  <2>4. PICK e \in Nat : StoreInv(st, e, s) /\ i < e
    <3>1. f <= next /\ next \in Nat
      BY <2>1 DEF InvAt, ServerInv, Own
    <3>2. i < next
      BY <2>3, <3>1
    <3>3. CASE token
      BY <2>1, <2>2, <2>3, <3>3 DEF InvAt, StoresInv
    <3>4. CASE ~token
      BY <2>1, <2>2, <3>1, <3>2, <3>4 DEF InvAt, StoresInv
    <3> QED
      BY <3>3, <3>4
  <2>5. /\ BaseIdx(i) \in DOMAIN st.files
        /\ i \in DOMAIN Loaded(st.files[BaseIdx(i)]).offset
        /\ readEntryFromDisk(st, Loaded(st.files[BaseIdx(i)]), i) = Image(i, s[i])
    BY <2>3, <2>4, StoreRead
  <2> QED
    BY <2>2, <2>3, <2>5
<1> QED
  BY <1>1, Inductive, PTL

=============================================================================
