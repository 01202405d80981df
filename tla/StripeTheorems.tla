---------------------------- MODULE StripeTheorems --------------------------
(***************************************************************************)
(* The arithmetic of striping: an index is a stripe of u * n entries, a    *)
(* place in it and one of n shards.  n is shard_num_, u stripe_unit_size_. *)
(***************************************************************************)
EXTENDS Integers, TLAPS

\* Quotient and remainder of an index.
LEMMA DivMod ==
    ASSUME NEW a \in Nat, NEW n \in Nat \ {0}
    PROVE  /\ a \div n \in Nat /\ (a % n) \in 0..(n - 1)
           /\ a = n * (a \div n) + (a % n)
<1>1. a = n * (a \div n) + (a % n)
  OBVIOUS
<1>2. (a % n) \in 0..(n - 1)
  OBVIOUS
<1>3. a \div n \in Nat
  OBVIOUS
<1> QED
  BY <1>1, <1>2, <1>3

\* They are determined by the index.
LEMMA Quotient ==
    ASSUME NEW n \in Nat \ {0}, NEW q \in Nat, NEW r \in 0..(n - 1)
    PROVE  (n * q + r) \div n = q /\ (n * q + r) % n = r
OBVIOUS

\* How many steps of n fit below a number.
LEMMA StepsBelow ==
    ASSUME NEW a \in Nat, NEW n \in Nat \ {0}, NEW z \in Int
    PROVE  z <= a \div n <=> z * n <= a
<1> DEFINE q == a \div n
           r == a % n
<1>1. q \in Nat /\ r \in 0..(n - 1) /\ a = n * q + r
  BY DivMod
<1> HIDE DEF q, r
<1>2. ASSUME z <= q PROVE z * n <= a
  <2>1. z * n <= q * n
    BY <1>1, <1>2
  <2> QED
    BY <1>1, <2>1
<1>3. ASSUME ~(z <= q) PROVE ~(z * n <= a)
  <2>1. (q + 1) * n <= z * n
    BY <1>1, <1>3
  <2>2. (q + 1) * n = n * q + n
    BY <1>1
  <2> QED
    BY <1>1, <2>1, <2>2
<1> QED
  BY <1>2, <1>3 DEF q

\* The stripe, place and shard of an index.
LEMMA Coordinates ==
    ASSUME NEW n \in Nat \ {0}, NEW u \in Nat \ {0}, NEW i \in Nat
    PROVE  \E q \in Nat, p \in 0..(u - 1), s \in 0..(n - 1) : i = q * (u * n) + p * n + s
<1> DEFINE m == i \div n
           s == i % n
           q == m \div u
           p == m % u
<1>1. m \in Nat /\ s \in 0..(n - 1) /\ i = n * m + s
  BY DivMod
<1>2. q \in Nat /\ p \in 0..(u - 1) /\ m = u * q + p
  BY <1>1, DivMod
<1> HIDE DEF m, s, q, p
<1>3. n * (u * q + p) = q * (u * n) + p * n
  BY <1>2
<1>4. i = q * (u * n) + p * n + s
  BY <1>1, <1>2, <1>3
<1> QED
  BY <1>1, <1>2, <1>4

\* The index with these coordinates has them.
LEMMA IndexOf ==
    ASSUME NEW n \in Nat \ {0}, NEW u \in Nat \ {0},
           NEW q \in Nat, NEW p \in 0..(u - 1), NEW s \in 0..(n - 1), NEW b, NEW i,
           b = q * (u * n), i = b + p * n + s
    PROVE  /\ i \in Nat /\ i \div (u * n) = q /\ i % n = s /\ (i - b) \div n = p
           /\ b <= i /\ i < b + u * n
<1>0. u * n \in Nat \ {0} /\ q * u + p \in Nat /\ b \in Nat
  OBVIOUS
<1>1. p * n + s \in 0..(u * n - 1)
  <2>1. p * n + s \in Nat
    OBVIOUS
  <2>2. (p + 1) * n <= u * n
    OBVIOUS
  <2>3. (p + 1) * n = p * n + n
    OBVIOUS
  <2> QED
    BY <2>1, <2>2, <2>3, <1>0
<1>2. i = (u * n) * q + (p * n + s)
  OBVIOUS
<1>3. i \div (u * n) = q
  BY <1>0, <1>1, <1>2, Quotient
<1>4. i = n * (q * u + p) + s
  OBVIOUS
<1>5. i % n = s
  BY <1>0, <1>4, Quotient
<1>6. i - b = n * p + s
  OBVIOUS
<1>7. (i - b) \div n = p
  BY <1>6, Quotient
<1>8. i \in Nat /\ b <= i /\ i < b + u * n
  BY <1>0, <1>1
<1> QED
  BY <1>3, <1>5, <1>7, <1>8

\* Two indexes less than n apart on the same shard are the same.
LEMMA SameResidue ==
    ASSUME NEW n \in Nat \ {0}, NEW a \in Nat, NEW i \in a..(a + n - 1), NEW j \in a..(a + n - 1),
           i % n = j % n
    PROVE  i = j
<1> DEFINE p == i \div n
           q == j \div n
           r == i % n
<1>1. p \in Nat /\ q \in Nat /\ r \in 0..(n - 1) /\ i = n * p + r /\ j = n * q + r
  <2>1. i \in Nat /\ j \in Nat
    OBVIOUS
  <2>2. p \in Nat /\ r \in 0..(n - 1) /\ i = n * p + r
    BY <2>1, DivMod
  <2>3. q \in Nat /\ j = n * q + (j % n)
    BY <2>1, DivMod
  <2> QED
    BY <2>2, <2>3
<1> HIDE DEF p, q, r
<1>2. ~(p < q)
  <2> SUFFICES ASSUME p + 1 <= q PROVE FALSE
    BY <1>1
  <2>1. n * (p + 1) <= n * q
    BY <1>1
  <2>2. n * (p + 1) = n * p + n
    BY <1>1
  <2> QED
    BY <1>1, <2>1, <2>2
<1>3. ~(q < p)
  <2> SUFFICES ASSUME q + 1 <= p PROVE FALSE
    BY <1>1
  <2>1. n * (q + 1) <= n * p
    BY <1>1
  <2>2. n * (q + 1) = n * q + n
    BY <1>1
  <2> QED
    BY <1>1, <2>1, <2>2
<1> QED
  BY <1>1, <1>2, <1>3

\* Adding steps of n does not change the shard, and adds to the place.
LEMMA AddSteps ==
    ASSUME NEW n \in Nat \ {0}, NEW a \in Nat, NEW m \in Nat
    PROVE  (a + m * n) % n = a % n /\ (a + m * n) \div n = a \div n + m
<1> DEFINE q == a \div n
           r == a % n
<1>1. q \in Nat /\ r \in 0..(n - 1) /\ a = n * q + r
  BY DivMod
<1> HIDE DEF q, r
<1>2. a + m * n = n * (q + m) + r /\ q + m \in Nat
  BY <1>1
<1>3. (n * (q + m) + r) \div n = q + m /\ (n * (q + m) + r) % n = r
  BY <1>1, <1>2, Quotient
<1> QED
  BY <1>2, <1>3 DEF q, r

\* Among the n indexes from a on there is one of the shard of i, not after i.
LEMMA FirstInTurn ==
    ASSUME NEW n \in Nat \ {0}, NEW a \in Nat, NEW i \in Nat, a <= i
    PROVE  \E f \in a..(a + n - 1) : f <= i /\ f % n = i % n
<1> DEFINE d == i - a
           q == d \div n
           r == d % n
<1>1. d \in Nat
  OBVIOUS
<1>2. q \in Nat /\ r \in 0..(n - 1) /\ d = n * q + r
  BY <1>1, DivMod
<1>3. i = a + d
  OBVIOUS
<1> HIDE DEF d, q, r
<1>4. i = (a + r) + q * n /\ a + r \in Nat
  BY <1>2, <1>3
<1>5. n * q \in Nat
  BY <1>2
<1>6. a + r \in a..(a + n - 1) /\ a + r <= i
  BY <1>2, <1>3, <1>5
<1>7. ((a + r) + q * n) % n = (a + r) % n
  BY <1>2, <1>4, AddSteps
<1> QED
  BY <1>4, <1>6, <1>7

\* What lies in the turn of n indexes at a multiple b of n is rounded down to b.
LEMMA InTurn ==
    ASSUME NEW n \in Nat \ {0}, NEW b \in Nat, b % n = 0, NEW i \in b..(b + n - 1)
    PROVE  i \in Nat /\ (i \div n) * n = b
<1> DEFINE q == b \div n
           r == i - b
<1>1. q \in Nat /\ b = n * q
  <2>1. b \div n \in Nat /\ b = n * (b \div n) + (b % n)
    BY DivMod
  <2> QED
    BY <2>1
<1>2. i \in Nat /\ r \in 0..(n - 1) /\ i = b + r
  OBVIOUS
<1> HIDE DEF q, r
<1>3. i = n * q + r
  BY <1>1, <1>2
<1>4. i \div n = q
  BY <1>1, <1>2, <1>3, Quotient
<1> QED
  BY <1>1, <1>2, <1>4

\* Two indexes of a shard are a turn apart.
LEMMA OwnGap ==
    ASSUME NEW n \in Nat \ {0}, NEW i \in Nat, NEW j \in Nat, i % n = j % n, i < j
    PROVE  i + n <= j
<1>1. CASE j < i + n
  <2>1. i \in i..(i + n - 1) /\ j \in i..(i + n - 1)
    BY <1>1
  <2>2. i = j
    BY <2>1, SameResidue
  <2> QED
    BY <2>2
<1> QED
  BY <1>1

\* Two multiples of n are a turn apart.
LEMMA TurnsApart ==
    ASSUME NEW n \in Nat \ {0}, NEW a \in Nat, NEW b \in Nat, a % n = 0, b % n = 0, a < b
    PROVE  a + n <= b
BY OwnGap

=============================================================================
