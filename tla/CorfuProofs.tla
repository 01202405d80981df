---------------------------- MODULE CorfuProofs -----------------------------
(***************************************************************************)
(* Proofs about the Corfu build, for every number of clients, copies,      *)
(* shards and entries in a file: the file of a stripe is created once and  *)
(* closed after all its entries, whichever threads do it.                  *)
(***************************************************************************)
EXTENDS Corfu, StripeTheorems, FiniteSetTheorems

-----------------------------------------------------------------------------
(* The inductive invariant *)

Steps == {"idle", "find", "create", "write", "count", "check", "close"}
Busy(c) == cli[c].step # "idle"

\* Client c has come to some steps on server s, or has left it.
Reached(c, s, steps) ==
    \/ cli[c].at > s[1]
    \/ cli[c].at = s[1] /\ cli[c].step \in steps

\* The numbers whose append is past what precedes these steps on server s.
Past(s, steps) ==
    {i \in 0..(gsn - 1) :
        /\ i % ShardNum = s[2]
        /\ \A c \in Clients : Busy(c) /\ cli[c].idx = i => Reached(c, s, steps)}

Written(s) == Past(s, {"count", "check", "close"})
Counted(s) == Past(s, {"check", "close"})
In(S, b)   == {i \in S : Base(i) = b}

\* The numbers that belong to the file at b of a server.
Stripe(s, b) == {i \in b..(b + BigStripe - 1) : i % ShardNum = s[2]}
Complete(s, b) == Stripe(s, b) \subseteq Counted(s)

TypeInv ==
    /\ gsn \in Nat
    /\ cli \in [Clients -> [step : Steps, idx : Nat, at : Nat, fd : Nat]]
    /\ \A c \in Clients : Busy(c) => cli[c].idx < gsn /\ cli[c].at \in 1..Copies
    /\ DOMAIN entries_fd_set = Servers /\ DOMAIN cache_size = Servers
    /\ DOMAIN entry_size = Servers /\ DOMAIN files = Servers /\ DOMAIN strays = Servers

\* A sequence number is given once.
UniqueInv ==
    \A c, d \in Clients : Busy(c) /\ Busy(d) /\ cli[c].idx = cli[d].idx => c = d

\* The file of a thread's stripe exists from the moment the thread has looked
\* for it twice; a thread that closes it has seen its stripe complete.
ThreadInv ==
    \A c \in Clients :
        /\ cli[c].step \in {"find", "create"} => cli[c].fd = 0
        /\ cli[c].step \in {"write", "count", "check", "close"} =>
              BaseOf(c) \in DOMAIN files[ServerOf(c)]
        /\ cli[c].step = "close" => Complete(ServerOf(c), BaseOf(c))

\* Open files have descriptors of their own and a count; a file that is not
\* open any more is complete.
FileOK(s) ==
    /\ IsFiniteSet(DOMAIN entries_fd_set[s])
    /\ DOMAIN entries_fd_set[s] \subseteq DOMAIN files[s]
    /\ DOMAIN cache_size[s] = DOMAIN entries_fd_set[s]
    /\ \A b \in DOMAIN entries_fd_set[s] :
          /\ entries_fd_set[s][b] \in Nat \ {0}
          /\ cache_size[s][b] = Cardinality(In(Counted(s), b))
    /\ \A a, b \in DOMAIN entries_fd_set[s] :
          entries_fd_set[s][a] = entries_fd_set[s][b] => a = b
    /\ \A b \in DOMAIN files[s] :
          /\ b \in Nat /\ b % BigStripe = 0
          /\ b \notin DOMAIN entries_fd_set[s] => Complete(s, b)

\* A file holds the slots of what was written and did not go astray.
SlotsOK(s) ==
    /\ strays[s] \subseteq Written(s)
    /\ \A i \in Written(s) : Base(i) \in DOMAIN files[s]
    /\ \A b \in DOMAIN files[s] :
          files[s][b] = {Slot(i) : i \in In(Written(s) \ strays[s], b)}

FileInv == \A s \in Servers : FileOK(s)
SlotInv == \A s \in Servers : SlotsOK(s)

\* An append that has returned has left the last server.
AckedInv == \A i \in acked : i \in 0..(gsn - 1) /\ \A c \in Clients : Busy(c) => cli[c].idx # i

\* A read that began after its entry was written still finds it.
ReadInv ==
    /\ rd = [step |-> rd.step, idx |-> rd.idx, written |-> rd.written, ret |-> rd.ret]
    /\ rd.step # "idle" =>
          /\ rd.idx \in Nat
          /\ rd.written = TRUE => /\ OnFile(Primary(rd.idx), rd.idx)
                                  /\ entry_size[Primary(rd.idx)] = TRUE

IInv == /\ TypeInv /\ UniqueInv /\ ThreadInv /\ FileInv
        /\ SlotInv /\ AckedInv /\ FdIsMine /\ ReadInv

-----------------------------------------------------------------------------
(* Stripes and slots *)

\* The constants as the lemmas on striping take them.
LEMMA Constants ==
    /\ ShardNum \in Nat \ {0} /\ StripeUnit \in Nat \ {0} /\ Copies \in Nat \ {0}
    /\ BigStripe \in Nat \ {0} /\ BigStripe = StripeUnit * ShardNum
<1>1. /\ ShardNum \in Nat \ {0} /\ StripeUnit \in Nat \ {0} /\ Copies \in Nat \ {0}
  BY CorfuAssumption
<1>2. ASSUME NEW a \in Nat \ {0}, NEW b \in Nat \ {0} PROVE a * b \in Nat \ {0}
  OBVIOUS
<1> QED
  BY <1>1, <1>2 DEF BigStripe

\* The number with given parts.
LEMMA OfParts ==
    ASSUME NEW q \in Nat, NEW p \in 0..(StripeUnit - 1), NEW h \in 0..(ShardNum - 1), NEW i,
           i = q * BigStripe + p * ShardNum + h
    PROVE  /\ i \in Nat /\ Base(i) = q * BigStripe /\ Slot(i) = p /\ i % ShardNum = h
           /\ q * BigStripe <= i /\ i < q * BigStripe + BigStripe
<1> DEFINE b == q * (StripeUnit * ShardNum)
<1>1. i = b + p * ShardNum + h /\ b = q * (StripeUnit * ShardNum) /\ b = q * BigStripe
  BY Constants
<1> HIDE DEF b
<1>2. /\ i \in Nat /\ i \div (StripeUnit * ShardNum) = q /\ i % ShardNum = h
      /\ (i - b) \div ShardNum = p
      /\ b <= i /\ i < b + StripeUnit * ShardNum
  BY <1>1, Constants, IndexOf
<1>3. Base(i) = b
  BY <1>1, <1>2, Constants DEF Base
<1>4. Slot(i) = p
  BY <1>2, <1>3 DEF Slot
<1> QED
  BY <1>1, <1>2, <1>3, <1>4, Constants

\* A number is a stripe, a slot in its file and a shard.
LEMMA PartsOf ==
    ASSUME NEW i \in Nat
    PROVE  \E q \in Nat, p \in 0..(StripeUnit - 1), h \in 0..(ShardNum - 1) :
              /\ i = q * BigStripe + p * ShardNum + h
              /\ Base(i) = q * BigStripe /\ Slot(i) = p /\ i % ShardNum = h
<1>0. ShardNum \in Nat \ {0} /\ StripeUnit \in Nat \ {0}
  BY Constants
<1>1. PICK q \in Nat, p \in 0..(StripeUnit - 1), h \in 0..(ShardNum - 1) :
         i = q * (StripeUnit * ShardNum) + p * ShardNum + h
  BY <1>0, Coordinates, Zenon
<1>2. i = q * BigStripe + p * ShardNum + h
  BY <1>1 DEF BigStripe
<1>3. Base(i) = q * BigStripe /\ Slot(i) = p /\ i % ShardNum = h
  BY <1>2, OfParts
<1> QED
  BY <1>2, <1>3

\* A number lies in the stripe of its base, which begins a stripe.
LEMMA BaseFacts ==
    ASSUME NEW i \in Nat
    PROVE  /\ Base(i) \in Nat /\ Base(i) % BigStripe = 0 /\ Slot(i) \in 0..(StripeUnit - 1)
           /\ i \in Base(i)..(Base(i) + BigStripe - 1)
           /\ (i % ShardNum) \in 0..(ShardNum - 1)
<1>1. PICK q \in Nat, p \in 0..(StripeUnit - 1), h \in 0..(ShardNum - 1) :
              /\ i = q * BigStripe + p * ShardNum + h
              /\ Base(i) = q * BigStripe /\ Slot(i) = p /\ i % ShardNum = h
  BY PartsOf
<1>2. q * BigStripe <= i /\ i < q * BigStripe + BigStripe
  BY <1>1, OfParts
<1>3. q * BigStripe \in Nat /\ BigStripe \in Nat \ {0}
  BY Constants
<1>4. (BigStripe * q + 0) % BigStripe = 0 /\ BigStripe * q + 0 = q * BigStripe
  <2>1. 0 \in 0..(BigStripe - 1)
    BY <1>3
  <2> QED
    BY <1>3, <2>1, Quotient
<1> QED
  BY <1>1, <1>2, <1>3, <1>4

\* What lies in the stripe at b has b as its base.
LEMMA InStripe ==
    ASSUME NEW b \in Nat, b % BigStripe = 0, NEW i \in b..(b + BigStripe - 1)
    PROVE  i \in Nat /\ Base(i) = b
<1>1. BigStripe \in Nat \ {0}
  BY Constants
<1>2. i \in Nat /\ (i \div BigStripe) * BigStripe = b
  BY <1>1, InTurn
<1> QED
  BY <1>2 DEF Base

\* Two numbers of a shard with the same base and slot are the same.
LEMMA SlotInjective ==
    ASSUME NEW i \in Nat, NEW j \in Nat, i % ShardNum = j % ShardNum,
           Base(i) = Base(j), Slot(i) = Slot(j)
    PROVE  i = j
<1>1. PICK q \in Nat, p \in 0..(StripeUnit - 1), h \in 0..(ShardNum - 1) :
              /\ i = q * BigStripe + p * ShardNum + h
              /\ Base(i) = q * BigStripe /\ Slot(i) = p /\ i % ShardNum = h
  BY PartsOf
<1>2. PICK r \in Nat, o \in 0..(StripeUnit - 1), g \in 0..(ShardNum - 1) :
              /\ j = r * BigStripe + o * ShardNum + g
              /\ Base(j) = r * BigStripe /\ Slot(j) = o /\ j % ShardNum = g
  BY PartsOf
<1> QED
  BY <1>1, <1>2

\* The file of a stripe has room for exactly its numbers.
LEMMA StripeCard ==
    ASSUME NEW s \in Servers, NEW b \in Nat, b % BigStripe = 0
    PROVE  IsFiniteSet(Stripe(s, b)) /\ Cardinality(Stripe(s, b)) = StripeUnit
<1> DEFINE S == Stripe(s, b)
           T == 0..(StripeUnit - 1)
           f == [i \in S |-> Slot(i)]
<1>1. s[2] \in 0..(ShardNum - 1)
  BY DEF Servers
<1>2. ASSUME NEW i \in S
      PROVE  /\ i \in Nat /\ Base(i) = b /\ i % ShardNum = s[2]
             /\ Slot(i) \in T
  BY InStripe, BaseFacts DEF Stripe
<1>3. ASSUME NEW p \in T PROVE \E i \in S : Slot(i) = p
  <2> DEFINE q == b \div BigStripe
             i == q * BigStripe + p * ShardNum + s[2]
  <2>1. q \in Nat /\ b = q * BigStripe
    <3>1. /\ b \div BigStripe \in Nat
          /\ b = BigStripe * (b \div BigStripe) + (b % BigStripe)
      BY Constants, DivMod
    <3> QED
      BY <3>1, Constants
  <2> HIDE DEF q
  <2>2. i = q * BigStripe + p * ShardNum + s[2]
    OBVIOUS
  <2> HIDE DEF i
  <2>3. /\ i \in Nat /\ Slot(i) = p /\ i % ShardNum = s[2]
        /\ q * BigStripe <= i /\ i < q * BigStripe + BigStripe
    BY <1>1, <2>1, <2>2, OfParts
  <2>4. i \in b..(b + BigStripe - 1)
    BY <2>1, <2>3, Constants
  <2> QED
    BY <2>3, <2>4 DEF Stripe
<1>4. f \in Injection(S, T)
  <2>1. f \in [S -> T]
    BY <1>2
  <2>2. \A i, j \in S : f[i] = f[j] => i = j
    BY <1>2, SlotInjective
  <2> QED
    BY <2>1, <2>2 DEF Injection, IsInjective
<1>5. f \in Surjection(S, T)
  <2>1. f \in [S -> T]
    BY <1>2
  <2>2. \A p \in T : \E i \in S : f[i] = p
    BY <1>3
  <2> QED
    BY <2>1, <2>2 DEF Surjection
<1>6. IsFiniteSet(T) /\ Cardinality(T) = StripeUnit
  <2>1. /\ IsFiniteSet(0..(StripeUnit - 1))
        /\ Cardinality(0..(StripeUnit - 1))
              = IF 0 > StripeUnit - 1 THEN 0 ELSE (StripeUnit - 1) - 0 + 1
    <3>1. 0 \in Int /\ StripeUnit - 1 \in Int
      BY Constants
    <3> QED
      BY <3>1, FS_Interval
  <2> QED
    BY <2>1, Constants
<1> HIDE DEF f, S, T
<1>7. IsFiniteSet(S) /\ Cardinality(S) = Cardinality(T)
  BY <1>4, <1>5, <1>6, FS_Injection
<1> QED
  BY <1>6, <1>7 DEF S

-----------------------------------------------------------------------------
(* Numbers, clients and the sets of numbers past a step *)

CliType == [step : Steps, idx : Nat, at : Nat, fd : Nat]

\* A busy client is at a server of the shard of its number.
LEMMA BusyFacts ==
    ASSUME TypeInv, NEW c \in Clients, Busy(c)
    PROVE  /\ cli[c].idx \in 0..(gsn - 1) /\ cli[c].idx \in Nat /\ cli[c].at \in 1..Copies
           /\ ServerOf(c) \in Servers
           /\ ServerOf(c)[1] = cli[c].at /\ ServerOf(c)[2] = cli[c].idx % ShardNum
           /\ BaseOf(c) \in Nat /\ BaseOf(c) % BigStripe = 0
           /\ cli[c].idx \in Stripe(ServerOf(c), BaseOf(c))
<1>1. cli[c].idx \in Nat /\ cli[c].idx < gsn /\ cli[c].at \in 1..Copies /\ gsn \in Nat
  BY DEF TypeInv
<1>2. /\ Base(cli[c].idx) \in Nat /\ Base(cli[c].idx) % BigStripe = 0
      /\ cli[c].idx \in Base(cli[c].idx)..(Base(cli[c].idx) + BigStripe - 1)
      /\ (cli[c].idx % ShardNum) \in 0..(ShardNum - 1)
  BY <1>1, BaseFacts
<1>3. /\ ServerOf(c) \in Servers
      /\ ServerOf(c)[1] = cli[c].at /\ ServerOf(c)[2] = cli[c].idx % ShardNum
  BY <1>1, <1>2 DEF ServerOf, Servers
<1>4. cli[c].idx \in Stripe(ServerOf(c), BaseOf(c))
  BY <1>2, <1>3 DEF Stripe, BaseOf
<1> QED
  BY <1>1, <1>2, <1>3, <1>4 DEF BaseOf

\* A number whose client has not come to those steps is not past them.
LEMMA NotPast ==
    ASSUME TypeInv, NEW c \in Clients, Busy(c), NEW steps, cli[c].step \notin steps
    PROVE  cli[c].idx \notin Past(ServerOf(c), steps)
<1>1. ServerOf(c)[1] = cli[c].at /\ cli[c].at \in 1..Copies
  BY BusyFacts
<1>2. cli[c].at \in Nat
  BY <1>1
<1> QED
  BY <1>1, <1>2 DEF Past, Reached

\* The members of Past are numbers of the shard.
LEMMA PastFacts ==
    ASSUME TypeInv, NEW s, NEW steps
    PROVE  /\ \A i \in Past(s, steps) : i \in Nat /\ i < gsn /\ i % ShardNum = s[2]
           /\ IsFiniteSet(Past(s, steps))
           /\ \A b : IsFiniteSet(In(Past(s, steps), b))
<1>1. gsn \in Nat
  BY DEF TypeInv
<1>2. IsFiniteSet(0..(gsn - 1))
  BY <1>1, FS_Interval
<1>3. Past(s, steps) \subseteq 0..(gsn - 1)
  BY DEF Past
<1>4. IsFiniteSet(Past(s, steps))
  BY <1>2, <1>3, FS_Subset
<1>5. \A b : IsFiniteSet(In(Past(s, steps), b))
  BY <1>4, FS_Subset DEF In
<1>6. \A i \in Past(s, steps) : i \in Nat /\ i < gsn /\ i % ShardNum = s[2]
  BY <1>1 DEF Past
<1> QED
  BY <1>4, <1>5, <1>6

\* What is counted is written.
LEMMA CountedIsWritten ==
    ASSUME NEW s
    PROVE  Counted(s) \subseteq Written(s)
BY DEF Counted, Written, Past, Reached

\* A thread that moves on at its server takes its number past the step it
\* has done, there and nowhere else.
LEMMA MoveOn ==
    ASSUME TypeInv, UniqueInv, NEW c \in Clients, Busy(c), gsn' = gsn,
           \A d \in Clients : d # c => cli'[d] = cli[d],
           cli'[c].step # "idle", cli'[c].idx = cli[c].idx, cli'[c].at = cli[c].at,
           NEW s \in Servers, NEW steps
    PROVE  /\ s # ServerOf(c) \/ (cli[c].step \in steps <=> cli'[c].step \in steps) =>
                 Past(s, steps)' = Past(s, steps)
           /\ s = ServerOf(c) /\ cli[c].step \notin steps /\ cli'[c].step \in steps =>
                 Past(s, steps)' = Past(s, steps) \cup {cli[c].idx}
<1> DEFINE idx == cli[c].idx
<1>1. /\ idx \in 0..(gsn - 1) /\ cli[c].at \in Nat
      /\ ServerOf(c) = <<cli[c].at, idx % ShardNum>>
      /\ s = <<s[1], s[2]>> /\ s[1] \in Nat
  <2>1. cli[c].at \in 1..Copies /\ idx \in 0..(gsn - 1) /\ Copies \in Nat
    BY BusyFacts, Constants
  <2>2. s = <<s[1], s[2]>> /\ s[1] \in 1..Copies
    BY DEF Servers
  <2> QED
    BY <2>1, <2>2 DEF ServerOf
<1>2. ASSUME NEW d \in Clients, d # c
      PROVE  /\ Busy(d)' <=> Busy(d)
             /\ Reached(d, s, steps)' <=> Reached(d, s, steps)
             /\ cli'[d].idx = cli[d].idx
             /\ Busy(d) => cli[d].idx # idx
  BY <1>2 DEF UniqueInv, Busy, Reached
<1>3. Busy(c)' /\ cli'[c].idx = idx
  BY DEF Busy
<1>4. ASSUME NEW i, i # idx
      PROVE  i \in Past(s, steps)' <=> i \in Past(s, steps)
  BY <1>2, <1>3, <1>4 DEF Past
<1>5. /\ idx \in Past(s, steps) <=> idx % ShardNum = s[2] /\ Reached(c, s, steps)
      /\ idx \in Past(s, steps)' <=> idx % ShardNum = s[2] /\ Reached(c, s, steps)'
  <2>1. ASSUME idx % ShardNum = s[2], Reached(c, s, steps) PROVE idx \in Past(s, steps)
    BY <1>1, <1>2, <2>1 DEF Past
  <2>2. ASSUME idx % ShardNum = s[2], Reached(c, s, steps)' PROVE idx \in Past(s, steps)'
    BY <1>1, <1>2, <2>2 DEF Past
  <2>3. ASSUME idx \in Past(s, steps) PROVE idx % ShardNum = s[2] /\ Reached(c, s, steps)
    BY <2>3 DEF Past
  <2>4. ASSUME idx \in Past(s, steps)' PROVE idx % ShardNum = s[2] /\ Reached(c, s, steps)'
    BY <1>3, <2>4 DEF Past
  <2> QED
    BY <2>1, <2>2, <2>3, <2>4
<1>6. ASSUME s # ServerOf(c) \/ (cli[c].step \in steps <=> cli'[c].step \in steps)
      PROVE  idx \in Past(s, steps)' <=> idx \in Past(s, steps)
  <2>1. CASE cli[c].step \in steps <=> cli'[c].step \in steps
    BY <1>5, <2>1 DEF Reached
  <2>2. CASE s # ServerOf(c)
    <3>1. cli[c].at # s[1] \/ idx % ShardNum # s[2]
      BY <1>1, <2>2
    <3>2. CASE idx % ShardNum # s[2]
      BY <1>5, <3>2
    <3>3. CASE cli[c].at # s[1]
      <4>1. Reached(c, s, steps)' <=> Reached(c, s, steps)
        BY <3>3 DEF Reached
      <4> QED
        BY <1>5, <4>1
    <3> QED
      BY <3>1, <3>2, <3>3
  <2> QED
    BY <1>6, <2>1, <2>2
<1>7. ASSUME s = ServerOf(c), cli'[c].step \in steps
      PROVE  idx \in Past(s, steps)'
  BY <1>1, <1>5, <1>7 DEF Reached
<1> HIDE DEF idx
<1>8. ASSUME idx \in Past(s, steps)' <=> idx \in Past(s, steps)
      PROVE  Past(s, steps)' = Past(s, steps)
  BY <1>4, <1>8
<1>9. ASSUME idx \in Past(s, steps)'
      PROVE  Past(s, steps)' = Past(s, steps) \cup {idx}
  BY <1>4, <1>9
<1>10. ASSUME s # ServerOf(c) \/ (cli[c].step \in steps <=> cli'[c].step \in steps)
       PROVE  Past(s, steps)' = Past(s, steps)
  BY <1>6, <1>8, <1>10
<1>11. ASSUME s = ServerOf(c), cli'[c].step \in steps
       PROVE  Past(s, steps)' = Past(s, steps) \cup {idx}
  BY <1>7, <1>9, <1>11
<1> QED
  BY <1>10, <1>11 DEF idx

\* The answer of a server changes nothing about who is past a step on any
\* server, whether the client goes on to the next copy or returns.
LEMMA AnswerOn ==
    ASSUME TypeInv, UniqueInv, NEW c \in Clients, cli[c].step \in {"check", "close"},
           gsn' = gsn, Answer(c), NEW s \in Servers, NEW steps,
           {"check", "close"} \subseteq steps, "find" \notin steps
    PROVE  Past(s, steps)' = Past(s, steps)
<1> DEFINE idx == cli[c].idx
<1>1. /\ idx \in 0..(gsn - 1) /\ cli[c].at \in 1..Copies /\ Busy(c)
      /\ s[1] \in 1..Copies /\ Copies \in Nat
  BY BusyFacts, Constants DEF Servers, Busy
<1>2. cli \in [Clients -> CliType]
  BY DEF TypeInv, CliType
<1>3. \A d \in Clients : d # c => cli'[d] = cli[d]
  BY <1>2 DEF Answer
<1>4. ASSUME NEW d \in Clients, d # c, Busy(d)
      PROVE  cli[d].idx # idx
  BY <1>1, <1>4 DEF UniqueInv
<1>5. ASSUME NEW i, i # idx
      PROVE  i \in Past(s, steps)' <=> i \in Past(s, steps)
  <2>1. cli'[c].step = "idle" \/ cli'[c].idx = idx
    BY <1>2 DEF Answer, CliType, Idle
  <2> QED
    BY <1>3, <1>5, <2>1 DEF Past, Busy, Reached
<1>6. idx \in Past(s, steps) <=>
         idx % ShardNum = s[2] /\ (cli[c].at > s[1] \/ cli[c].at = s[1])
  BY <1>1, <1>4 DEF Past, Busy, Reached
<1>7. idx \in Past(s, steps)' <=>
         idx % ShardNum = s[2] /\ (cli[c].at > s[1] \/ cli[c].at = s[1])
  <2>1. CASE cli[c].at < Copies
    <3>1. cli'[c].at = cli[c].at + 1 /\ cli'[c].step = "find" /\ cli'[c].idx = idx
      BY <1>2, <2>1 DEF Answer, CliType
    <3>2. idx \in Past(s, steps)' <=> idx % ShardNum = s[2] /\ cli[c].at + 1 > s[1]
      <4>1. "find" \notin steps
        OBVIOUS
      <4>2. Busy(c)' /\ (Reached(c, s, steps)' <=> cli[c].at + 1 > s[1])
        BY <3>1, <4>1 DEF Reached, Busy
      <4>3. \A d \in Clients : d # c /\ Busy(d)' => cli'[d].idx # idx
        BY <1>3, <1>4 DEF Busy
      <4>4. ASSUME idx % ShardNum = s[2], Reached(c, s, steps)' PROVE idx \in Past(s, steps)'
        BY <1>1, <4>3, <4>4 DEF Past
      <4>5. ASSUME idx \in Past(s, steps)' PROVE idx % ShardNum = s[2] /\ Reached(c, s, steps)'
        BY <3>1, <4>2, <4>5 DEF Past
      <4> QED
        BY <4>2, <4>4, <4>5
    <3>3. cli[c].at + 1 > s[1] <=> (cli[c].at > s[1] \/ cli[c].at = s[1])
      BY <1>1
    <3> QED
      BY <3>2, <3>3
  <2>2. CASE ~(cli[c].at < Copies)
    <3>1. cli'[c].step = "idle"
      BY <1>2, <2>2 DEF Answer, Idle
    <3>2. idx \in Past(s, steps)' <=> idx % ShardNum = s[2]
      BY <1>1, <1>3, <1>4, <3>1 DEF Past, Busy, Reached
    <3>3. cli[c].at > s[1] \/ cli[c].at = s[1]
      BY <1>1, <2>2
    <3> QED
      BY <3>2, <3>3
  <2> QED
    BY <2>1, <2>2
<1> HIDE DEF idx
<1> QED
  BY <1>5, <1>6, <1>7

\* A number that has just been given is past no step.
LEMMA GetOn ==
    ASSUME TypeInv, NEW c \in Clients, cli[c].step = "idle", gsn' = gsn + 1,
           \A d \in Clients : d # c => cli'[d] = cli[d],
           cli'[c].step = "find", cli'[c].idx = gsn, cli'[c].at = 1,
           NEW s \in Servers, NEW steps, "find" \notin steps
    PROVE  Past(s, steps)' = Past(s, steps)
<1>1. gsn \in Nat /\ s[1] \in Nat \ {0}
  BY Constants DEF TypeInv, Servers
<1>2. gsn \notin Past(s, steps)'
  <2>1. ~(1 > s[1])
    BY <1>1
  <2> QED
    BY <2>1 DEF Past, Busy, Reached
<1>3. gsn \notin Past(s, steps)
  BY <1>1 DEF Past
<1>4. ASSUME NEW i, i # gsn
      PROVE  i \in Past(s, steps)' <=> i \in Past(s, steps)
  <2>1. i \in 0..(gsn' - 1) <=> i \in 0..(gsn - 1)
    BY <1>1, <1>4
  <2> QED
    BY <1>4, <2>1 DEF Past, Busy, Reached
<1> QED
  BY <1>2, <1>3, <1>4

-----------------------------------------------------------------------------
(* What steps leave alone *)

\* The parts of TypeInv, one by one.
LEMMA Types ==
    ASSUME TypeInv
    PROVE  /\ gsn \in Nat /\ cli \in [Clients -> CliType]
           /\ \A c \in Clients : /\ cli[c].step \in Steps /\ cli[c].idx \in Nat
                                 /\ cli[c].at \in Nat /\ cli[c].fd \in Nat
           /\ DOMAIN entries_fd_set = Servers /\ DOMAIN cache_size = Servers
           /\ DOMAIN entry_size = Servers /\ DOMAIN files = Servers /\ DOMAIN strays = Servers
BY DEF TypeInv, CliType

\* The order of the steps of a thread.
LEMMA ThenIs == Then("file") = "write" /\ Then("write") = "count" /\ Then("count") = "check"
BY DEF Then

\* The files of a server stay as they are when nothing is written to them or
\* counted.
LEMMA ServerSame ==
    ASSUME IInv, NEW s \in Servers,
           entries_fd_set'[s] = entries_fd_set[s], cache_size'[s] = cache_size[s],
           files'[s] = files[s], strays'[s] = strays[s],
           Written(s)' = Written(s), Counted(s)' = Counted(s)
    PROVE  FileOK(s)' /\ SlotsOK(s)'
<1>1. FileOK(s) /\ SlotsOK(s)
  BY DEF IInv, FileInv, SlotInv
<1>2. \A b : Complete(s, b)' <=> Complete(s, b)
  BY DEF Complete, Stripe
<1>3. FileOK(s)'
  BY <1>1, <1>2 DEF FileOK
<1>4. SlotsOK(s)'
  BY <1>1 DEF SlotsOK
<1> QED
  BY <1>3, <1>4

\* The same for all servers.
LEMMA FilesSame ==
    ASSUME IInv, UNCHANGED serverVars,
           \A s \in Servers : Written(s)' = Written(s) /\ Counted(s)' = Counted(s)
    PROVE  FileInv' /\ SlotInv'
BY ServerSame DEF serverVars, FileInv, SlotInv

\* A read under way still finds its entry when files only grow.
LEMMA ReadSame ==
    ASSUME IInv, rd' = rd,
           \A s \in Servers :
              /\ entry_size[s] = TRUE => entry_size'[s] = TRUE
              /\ \A b \in DOMAIN files[s] :
                    b \in DOMAIN files'[s] /\ files[s][b] \subseteq files'[s][b]
    PROVE  ReadInv'
<1> SUFFICES ASSUME rd.step # "idle"
             PROVE  /\ rd.idx \in Nat
                    /\ rd.written = TRUE => /\ OnFile(Primary(rd.idx), rd.idx)'
                                            /\ entry_size'[Primary(rd.idx)] = TRUE
  BY DEF IInv, ReadInv, Primary
<1>1. PICK i, s : i = rd.idx /\ s = Primary(i)
  OBVIOUS
<1>2. i \in Nat /\ (rd.written = TRUE => OnFile(s, i) /\ entry_size[s] = TRUE)
  BY <1>1 DEF IInv, ReadInv
<1>3. s \in Servers
  <2>1. (i % ShardNum) \in 0..(ShardNum - 1) /\ 1 \in 1..Copies
    BY <1>2, BaseFacts, Constants
  <2> QED
    BY <1>1, <2>1 DEF Primary, Servers
<1>4. rd.written = TRUE => OnFile(s, i)'
  BY <1>2, <1>3 DEF OnFile
<1>5. OnFile(Primary(rd.idx), rd.idx)' <=> OnFile(s, i)'
  BY <1>1 DEF OnFile, Primary
<1> QED
  BY <1>1, <1>2, <1>3, <1>4, <1>5

\* The threads of the other clients keep what they know when no file
\* disappears and no number is counted less.
LEMMA OtherThreads ==
    ASSUME IInv, NEW c, NEW d \in Clients, d # c, cli'[d] = cli[d],
           \A s \in Servers : /\ DOMAIN files[s] \subseteq DOMAIN files'[s]
                              /\ Counted(s) \subseteq Counted(s)'
    PROVE  /\ cli'[d].step \in {"find", "create"} => cli'[d].fd = 0
           /\ cli'[d].step \in {"write", "count", "check", "close"} =>
                 BaseOf(d)' \in DOMAIN files'[ServerOf(d)']
           /\ cli'[d].step = "close" => Complete(ServerOf(d), BaseOf(d))'
<1>1. PICK s, b : s = ServerOf(d) /\ b = BaseOf(d)
  OBVIOUS
<1>2. s = ServerOf(d)' /\ b = BaseOf(d)'
  BY <1>1 DEF ServerOf, BaseOf
<1>3. cli[d].step \in {"write", "count", "check", "close"} => s \in Servers
  BY <1>1, BusyFacts DEF IInv, Busy
<1>4. ThreadInv
  BY DEF IInv
<1>5. cli[d].step \in {"write", "count", "check", "close"} => b \in DOMAIN files'[s]
  BY <1>1, <1>3, <1>4 DEF ThreadInv
<1>6. cli[d].step = "close" => Complete(s, b)'
  <2>1. cli[d].step = "close" => Complete(s, b)
    BY <1>1, <1>4 DEF ThreadInv
  <2> QED
    BY <1>3, <2>1 DEF Complete, Stripe
<1>7. Complete(ServerOf(d), BaseOf(d))' <=> Complete(s, b)'
  BY <1>1, <1>2 DEF Complete, Stripe, Counted, Past, Reached
<1> QED
  BY <1>2, <1>4, <1>5, <1>6, <1>7 DEF ThreadInv

\* A thread that moves on keeps the numbers as they are given.
LEMMA NumbersSame ==
    ASSUME IInv, NEW c \in Clients, Busy(c), gsn' = gsn, acked' = acked,
           cli' \in [Clients -> CliType],
           \A d \in Clients : d # c => cli'[d] = cli[d],
           cli'[c].step # "idle", cli'[c].idx = cli[c].idx, cli'[c].at = cli[c].at,
           DOMAIN entries_fd_set' = Servers, DOMAIN cache_size' = Servers,
           DOMAIN entry_size' = Servers, DOMAIN files' = Servers, DOMAIN strays' = Servers
    PROVE  TypeInv' /\ UniqueInv' /\ AckedInv'
<1>1. \A d \in Clients : /\ Busy(d)' <=> Busy(d)
                         /\ cli'[d].idx = cli[d].idx /\ cli'[d].at = cli[d].at
  BY DEF Busy
<1>2. TypeInv'
  BY <1>1 DEF IInv, TypeInv, CliType
<1>3. UniqueInv'
  BY <1>1 DEF IInv, UniqueInv
<1>4. AckedInv'
  BY <1>1 DEF IInv, AckedInv
<1> QED
  BY <1>2, <1>3, <1>4

\* The server and the file of a client that does not move on the server stay.
LEMMA SameServer ==
    ASSUME NEW c, NEW s, NEW b, s = ServerOf(c), b = BaseOf(c),
           cli'[c].idx = cli[c].idx, cli'[c].at = cli[c].at
    PROVE  s = ServerOf(c)' /\ b = BaseOf(c)' /\ (Complete(s, b)' <=> Complete(ServerOf(c), BaseOf(c))')
<1>1. s = ServerOf(c)' /\ b = BaseOf(c)'
  BY DEF ServerOf, BaseOf
<1> QED
  BY <1>1 DEF Complete, Stripe, Counted, Past, Reached

\* The descriptors the other threads hold stay theirs when files that are
\* open and that they write to stay open.
LEMMA OtherFds ==
    ASSUME IInv, NEW c, NEW d \in Clients, d # c, cli'[d] = cli[d],
           \A s \in Servers : \A b \in DOMAIN entries_fd_set[s] :
              /\ s = ServerOf(d) /\ b = BaseOf(d) /\ cli[d].step = "write" =>
                    /\ b \in DOMAIN entries_fd_set'[s]
                    /\ entries_fd_set'[s][b] = entries_fd_set[s][b]
    PROVE  cli'[d].step = "write" /\ cli'[d].fd # 0 =>
              /\ BaseOf(d)' \in DOMAIN entries_fd_set'[ServerOf(d)']
              /\ entries_fd_set'[ServerOf(d)'][BaseOf(d)'] = cli'[d].fd
<1>1. PICK s, b : s = ServerOf(d) /\ b = BaseOf(d)
  OBVIOUS
<1>2. s = ServerOf(d)' /\ b = BaseOf(d)'
  BY <1>1 DEF ServerOf, BaseOf
<1>3. cli[d].step = "write" => s \in Servers
  BY <1>1, BusyFacts DEF IInv, Busy
<1>4. cli[d].step = "write" /\ cli[d].fd # 0 =>
         b \in DOMAIN entries_fd_set[s] /\ entries_fd_set[s][b] = cli[d].fd
  BY <1>1 DEF IInv, FdIsMine
<1> QED
  BY <1>1, <1>2, <1>3, <1>4

-----------------------------------------------------------------------------
(* The initial state *)

\* With no number given and no file the invariant holds.
LEMMA InitIInv == Init => IInv
<1> SUFFICES ASSUME Init PROVE IInv
  OBVIOUS
<1>1. /\ gsn = 0 /\ acked = {} /\ rd.step = "idle"
      /\ rd = [step |-> rd.step, idx |-> rd.idx, written |-> rd.written, ret |-> rd.ret]
      /\ cli = [c \in Clients |-> Idle]
      /\ entries_fd_set = [s \in Servers |-> <<>>] /\ cache_size = [s \in Servers |-> <<>>]
      /\ entry_size = [s \in Servers |-> FALSE] /\ files = [s \in Servers |-> <<>>]
      /\ strays = [s \in Servers |-> {}]
  BY DEF Init, NoRead
<1>2. \A c \in Clients : cli[c].step = "idle" /\ ~Busy(c)
  BY <1>1 DEF Idle, Busy
<1>3. TypeInv
  <2>1. Idle \in CliType
    BY DEF Idle, CliType, Steps
  <2> QED
    BY <1>1, <1>2, <2>1 DEF TypeInv, CliType
<1>4. \A s \in Servers : /\ DOMAIN entries_fd_set[s] = {} /\ DOMAIN cache_size[s] = {}
                         /\ DOMAIN files[s] = {} /\ strays[s] = {}
  BY <1>1
<1>5. \A s, steps : Past(s, steps) = {}
  BY <1>1 DEF Past
<1>6. UniqueInv /\ ThreadInv /\ AckedInv /\ FdIsMine /\ ReadInv
  BY <1>1, <1>2 DEF UniqueInv, ThreadInv, AckedInv, FdIsMine, ReadInv
<1>7. FileInv
  BY <1>4, FS_EmptySet DEF FileInv, FileOK
<1>8. SlotInv
  BY <1>4, <1>5 DEF SlotInv, SlotsOK, Written
<1> QED
  BY <1>3, <1>6, <1>7, <1>8 DEF IInv

-----------------------------------------------------------------------------
(* Steps that touch no file *)

\* The client gets a number nobody has.
LEMMA GetGSNKeeps ==
    ASSUME IInv, NEW c \in Clients, GetGSN(c)
    PROVE  IInv'
<1>1. TypeInv
  BY DEF IInv
<1>2. /\ cli[c].step = "idle" /\ gsn' = gsn + 1 /\ UNCHANGED serverVars
      /\ acked' = acked /\ rd' = rd
      /\ cli' = [cli EXCEPT ![c] = [step |-> "find", idx |-> gsn, at |-> 1, fd |-> 0]]
  BY DEF GetGSN, FetchAdd
<1>3. gsn \in Nat /\ cli \in [Clients -> CliType] /\ Copies \in Nat \ {0}
  BY <1>1, Types, Constants
<1>4. /\ \A d \in Clients : d # c => cli'[d] = cli[d]
      /\ cli'[c].step = "find" /\ cli'[c].idx = gsn /\ cli'[c].at = 1 /\ cli'[c].fd = 0
      /\ cli' \in [Clients -> CliType]
  BY <1>2, <1>3 DEF CliType, Steps
<1>5. \A s \in Servers : Written(s)' = Written(s) /\ Counted(s)' = Counted(s)
  BY <1>1, <1>2, <1>4, GetOn DEF Written, Counted
<1>6. /\ Busy(c)' /\ ~Busy(c)
      /\ \A d \in Clients : d # c => (Busy(d)' <=> Busy(d)) /\ cli'[d].idx = cli[d].idx
  BY <1>2, <1>4 DEF Busy
<1>7. \A d \in Clients : Busy(d) => cli[d].idx < gsn /\ cli[d].idx \in Nat /\ cli[d].at \in 1..Copies
  BY <1>1, Types DEF TypeInv
<1>8. TypeInv'
  <2>1. \A d \in Clients : Busy(d)' => cli'[d].idx < gsn' /\ cli'[d].at \in 1..Copies
    BY <1>2, <1>3, <1>4, <1>6, <1>7
  <2> QED
    BY <1>1, <1>2, <1>3, <1>4, <2>1 DEF TypeInv, CliType, serverVars
<1>9. UniqueInv'
  <2>1. \A d \in Clients : d # c /\ Busy(d)' => cli'[d].idx # gsn
    BY <1>3, <1>6, <1>7
  <2> QED
    BY <1>4, <1>6, <2>1 DEF IInv, UniqueInv
<1>10. AckedInv'
  <2>1. \A i \in acked : i \in 0..(gsn - 1) /\ i # gsn /\ i \in 0..(gsn' - 1)
    BY <1>2, <1>3 DEF IInv, AckedInv
  <2> QED
    BY <1>2, <1>4, <1>6, <2>1 DEF IInv, AckedInv
<1>11. FileInv' /\ SlotInv'
  BY <1>2, <1>5, FilesSame
<1>12. ThreadInv'
  <2>1. \A d \in Clients : d # c =>
           /\ cli'[d].step \in {"find", "create"} => cli'[d].fd = 0
           /\ cli'[d].step \in {"write", "count", "check", "close"} =>
                 BaseOf(d)' \in DOMAIN files'[ServerOf(d)']
           /\ cli'[d].step = "close" => Complete(ServerOf(d), BaseOf(d))'
    BY <1>2, <1>4, <1>5, OtherThreads DEF serverVars
  <2> QED
    BY <1>4, <2>1 DEF ThreadInv
<1>13. FdIsMine'
  <2>1. \A d \in Clients : d # c =>
           (cli'[d].step = "write" /\ cli'[d].fd # 0 =>
              /\ BaseOf(d)' \in DOMAIN entries_fd_set'[ServerOf(d)']
              /\ entries_fd_set'[ServerOf(d)'][BaseOf(d)'] = cli'[d].fd)
    BY <1>2, <1>4, OtherFds DEF serverVars
  <2> QED
    BY <1>4, <2>1 DEF FdIsMine
<1>14. ReadInv'
  BY <1>2, ReadSame DEF serverVars
<1> QED
  BY <1>8, <1>9, <1>10, <1>11, <1>12, <1>13, <1>14 DEF IInv

\* The thread looks for its file.
LEMMA FindFileKeeps ==
    ASSUME IInv, NEW c \in Clients, FindFile(c)
    PROVE  IInv'
<1>1. TypeInv /\ UniqueInv /\ ThreadInv /\ FileInv
  BY DEF IInv
<1>2. PICK s, b : s = ServerOf(c) /\ b = BaseOf(c)
  OBVIOUS
<1>3. /\ cli[c].step = "find" /\ gsn' = gsn /\ UNCHANGED serverVars
      /\ acked' = acked /\ rd' = rd
      /\ IF b \in DOMAIN entries_fd_set[s]
         THEN cli' = [cli EXCEPT ![c].step = "write", ![c].fd = entries_fd_set[s][b]]
         ELSE cli' = [cli EXCEPT ![c].step = "create"]
  BY <1>2, ThenIs DEF FindFile
<1>4. Busy(c) /\ cli \in [Clients -> CliType] /\ s \in Servers /\ cli[c].fd = 0
  BY <1>1, <1>2, <1>3, Types, BusyFacts DEF Busy, ThreadInv
<1>5. /\ b \in DOMAIN entries_fd_set[s] => entries_fd_set[s][b] \in Nat
      /\ b \in DOMAIN entries_fd_set[s] => b \in DOMAIN files[s]
  BY <1>1, <1>4 DEF FileInv, FileOK
<1>6. /\ \A d \in Clients : d # c => cli'[d] = cli[d]
      /\ cli' \in [Clients -> CliType]
      /\ cli'[c].idx = cli[c].idx /\ cli'[c].at = cli[c].at
      /\ cli'[c].step \in {"write", "create"}
      /\ cli'[c].step = "create" => cli'[c].fd = 0
      /\ cli'[c].step = "write" => /\ b \in DOMAIN entries_fd_set[s]
                                   /\ cli'[c].fd = entries_fd_set[s][b]
  <2>1. CASE b \in DOMAIN entries_fd_set[s]
    <3>1. cli' = [cli EXCEPT ![c].step = "write", ![c].fd = entries_fd_set[s][b]]
      BY <1>3, <2>1
    <3>2. /\ cli' \in [Clients -> CliType] /\ \A d \in Clients : d # c => cli'[d] = cli[d]
          /\ cli'[c].idx = cli[c].idx /\ cli'[c].at = cli[c].at
          /\ cli'[c].step = "write" /\ cli'[c].fd = entries_fd_set[s][b]
      BY <1>4, <1>5, <2>1, <3>1 DEF CliType, Steps
    <3> QED
      BY <2>1, <3>2
  <2>2. CASE b \notin DOMAIN entries_fd_set[s]
    <3>1. cli' = [cli EXCEPT ![c].step = "create"]
      BY <1>3, <2>2
    <3>2. /\ cli' \in [Clients -> CliType] /\ \A d \in Clients : d # c => cli'[d] = cli[d]
          /\ cli'[c].idx = cli[c].idx /\ cli'[c].at = cli[c].at
          /\ cli'[c].step = "create" /\ cli'[c].fd = cli[c].fd
      BY <1>4, <3>1 DEF CliType, Steps
    <3> QED
      BY <1>4, <3>2
  <2> QED
    BY <2>1, <2>2
<1>7. \A t \in Servers : Written(t)' = Written(t) /\ Counted(t)' = Counted(t)
  BY <1>1, <1>3, <1>4, <1>6, MoveOn DEF Written, Counted
<1>8. TypeInv' /\ UniqueInv' /\ AckedInv'
  BY <1>1, <1>3, <1>4, <1>6, NumbersSame, Types DEF serverVars
<1>9. FileInv' /\ SlotInv'
  BY <1>3, <1>7, FilesSame
<1>10. s = ServerOf(c)' /\ b = BaseOf(c)'
  BY <1>2, <1>6, SameServer
<1>11. ThreadInv'
  <2>1. \A d \in Clients : d # c =>
           /\ cli'[d].step \in {"find", "create"} => cli'[d].fd = 0
           /\ cli'[d].step \in {"write", "count", "check", "close"} =>
                 BaseOf(d)' \in DOMAIN files'[ServerOf(d)']
           /\ cli'[d].step = "close" => Complete(ServerOf(d), BaseOf(d))'
    BY <1>3, <1>6, <1>7, OtherThreads DEF serverVars
  <2>2. cli'[c].step = "write" => BaseOf(c)' \in DOMAIN files'[ServerOf(c)']
    BY <1>3, <1>5, <1>6, <1>10 DEF serverVars
  <2> QED
    BY <1>6, <2>1, <2>2 DEF ThreadInv
<1>12. FdIsMine'
  <2>1. \A d \in Clients : d # c =>
           (cli'[d].step = "write" /\ cli'[d].fd # 0 =>
              /\ BaseOf(d)' \in DOMAIN entries_fd_set'[ServerOf(d)']
              /\ entries_fd_set'[ServerOf(d)'][BaseOf(d)'] = cli'[d].fd)
    <3>1. entries_fd_set' = entries_fd_set /\ \A d \in Clients : d # c => cli'[d] = cli[d]
      BY <1>3, <1>6 DEF serverVars
    <3> QED
      BY <3>1, OtherFds
  <2>2. cli'[c].step = "write" =>
              /\ BaseOf(c)' \in DOMAIN entries_fd_set'[ServerOf(c)']
              /\ entries_fd_set'[ServerOf(c)'][BaseOf(c)'] = cli'[c].fd
    BY <1>3, <1>6, <1>10 DEF serverVars
  <2> QED
    BY <2>1, <2>2 DEF FdIsMine
<1>13. ReadInv'
  BY <1>3, ReadSame DEF serverVars
<1> QED
  BY <1>8, <1>9, <1>11, <1>12, <1>13 DEF IInv

\* A count of StripeUnit says that every number of the stripe is counted.
LEMMA FullIsComplete ==
    ASSUME IInv, NEW s \in Servers, NEW b, At(cache_size[s], b) >= StripeUnit
    PROVE  Complete(s, b)
<1>1. TypeInv /\ FileInv /\ StripeUnit \in Nat \ {0}
  BY Constants DEF IInv
<1>2. b \in DOMAIN cache_size[s]
  BY <1>1 DEF At
<1>3. /\ cache_size[s][b] = Cardinality(In(Counted(s), b))
      /\ b \in Nat /\ b % BigStripe = 0
  BY <1>1, <1>2 DEF FileInv, FileOK
<1>4. Cardinality(In(Counted(s), b)) >= StripeUnit
  BY <1>2, <1>3 DEF At
<1> DEFINE S == Stripe(s, b)
           T == In(Counted(s), b)
<1>5. IsFiniteSet(S) /\ Cardinality(S) = StripeUnit
  BY <1>3, StripeCard
<1>6. T \subseteq S
  <2> SUFFICES ASSUME NEW i \in T PROVE i \in S
    OBVIOUS
  <2>1. i \in Counted(s) /\ Base(i) = b
    BY DEF In
  <2>2. i \in Nat /\ i % ShardNum = s[2]
    BY <1>1, <2>1, PastFacts DEF Counted
  <2>3. i \in Base(i)..(Base(i) + BigStripe - 1)
    BY <2>2, BaseFacts
  <2> QED
    BY <2>1, <2>2, <2>3 DEF Stripe
<1> HIDE DEF S, T
<1>7. IsFiniteSet(T) /\ Cardinality(T) <= Cardinality(S) /\ (Cardinality(S) = Cardinality(T) => S = T)
  BY <1>5, <1>6, FS_Subset
<1>8. Cardinality(T) \in Nat /\ Cardinality(T) >= StripeUnit
  BY <1>4, <1>7, FS_CardinalityType DEF T
<1>9. S = T
  BY <1>1, <1>5, <1>7, <1>8
<1> QED
  BY <1>9 DEF S, T, In, Complete

\* The thread sees that its stripe is complete.
LEMMA FullKeeps ==
    ASSUME IInv, NEW c \in Clients, Full(c)
    PROVE  IInv'
<1>1. TypeInv /\ UniqueInv /\ ThreadInv
  BY DEF IInv
<1>2. PICK s, b : s = ServerOf(c) /\ b = BaseOf(c)
  OBVIOUS
<1>3. /\ cli[c].step = "check" /\ gsn' = gsn /\ UNCHANGED serverVars
      /\ acked' = acked /\ rd' = rd /\ cli' = [cli EXCEPT ![c].step = "close"]
      /\ At(cache_size[s], b) >= StripeUnit
  BY <1>2 DEF Full, Goto
<1>4. Busy(c) /\ cli \in [Clients -> CliType] /\ s \in Servers /\ b \in DOMAIN files[s]
  BY <1>1, <1>2, <1>3, Types, BusyFacts DEF Busy, ThreadInv
<1>5. /\ \A d \in Clients : d # c => cli'[d] = cli[d]
      /\ cli' \in [Clients -> CliType]
      /\ cli'[c].idx = cli[c].idx /\ cli'[c].at = cli[c].at /\ cli'[c].step = "close"
  BY <1>3, <1>4 DEF CliType, Steps
<1>6. \A t \in Servers : Written(t)' = Written(t) /\ Counted(t)' = Counted(t)
  BY <1>1, <1>3, <1>4, <1>5, MoveOn DEF Written, Counted
<1>7. TypeInv' /\ UniqueInv' /\ AckedInv'
  BY <1>1, <1>3, <1>4, <1>5, NumbersSame, Types DEF serverVars
<1>8. FileInv' /\ SlotInv'
  BY <1>3, <1>6, FilesSame
<1>9. Complete(s, b)'
  <2>1. Complete(s, b)
    BY <1>3, <1>4, FullIsComplete
  <2> QED
    BY <1>4, <1>6, <2>1 DEF Complete, Stripe
<1>10. s = ServerOf(c)' /\ b = BaseOf(c)' /\ Complete(ServerOf(c), BaseOf(c))'
  BY <1>2, <1>5, <1>9, SameServer
<1>11. ThreadInv'
  <2>1. \A d \in Clients : d # c =>
           /\ cli'[d].step \in {"find", "create"} => cli'[d].fd = 0
           /\ cli'[d].step \in {"write", "count", "check", "close"} =>
                 BaseOf(d)' \in DOMAIN files'[ServerOf(d)']
           /\ cli'[d].step = "close" => Complete(ServerOf(d), BaseOf(d))'
    BY <1>3, <1>5, <1>6, OtherThreads DEF serverVars
  <2>2. BaseOf(c)' \in DOMAIN files'[ServerOf(c)']
    BY <1>3, <1>4, <1>10 DEF serverVars
  <2> QED
    BY <1>5, <1>10, <2>1, <2>2 DEF ThreadInv
<1>12. FdIsMine'
  <2>1. \A d \in Clients : d # c =>
           (cli'[d].step = "write" /\ cli'[d].fd # 0 =>
              /\ BaseOf(d)' \in DOMAIN entries_fd_set'[ServerOf(d)']
              /\ entries_fd_set'[ServerOf(d)'][BaseOf(d)'] = cli'[d].fd)
    BY <1>3, <1>5, OtherFds DEF serverVars
  <2> QED
    BY <1>5, <2>1 DEF FdIsMine
<1>13. ReadInv'
  BY <1>3, ReadSame DEF serverVars
<1> QED
  BY <1>7, <1>8, <1>11, <1>12, <1>13 DEF IInv

\* The server answers: the client goes on with its number, or returns and the
\* number has left all servers.
LEMMA AnswerNumbers ==
    ASSUME IInv, NEW c \in Clients, cli[c].step \in {"check", "close"}, Answer(c), gsn' = gsn,
           DOMAIN entries_fd_set' = Servers, DOMAIN cache_size' = Servers,
           DOMAIN entry_size' = Servers, DOMAIN files' = Servers, DOMAIN strays' = Servers
    PROVE  /\ TypeInv' /\ UniqueInv' /\ AckedInv'
           /\ \A d \in Clients : d # c => cli'[d] = cli[d]
           /\ cli'[c].step \in {"idle", "find"} /\ cli'[c].fd = 0
           /\ \A t \in Servers : Written(t)' = Written(t) /\ Counted(t)' = Counted(t)
<1>1. TypeInv /\ UniqueInv /\ AckedInv
  BY DEF IInv
<1>2. /\ Busy(c) /\ cli \in [Clients -> CliType] /\ gsn \in Nat /\ Copies \in Nat \ {0}
      /\ cli[c].idx \in 0..(gsn - 1) /\ cli[c].at \in 1..Copies
  BY <1>1, BusyFacts, Types, Constants DEF Busy
<1>3. /\ \A d \in Clients : d # c => cli'[d] = cli[d]
      /\ cli' \in [Clients -> CliType] /\ cli'[c].fd = 0
      /\ \/ /\ cli'[c].step = "find" /\ cli'[c].idx = cli[c].idx
            /\ cli'[c].at \in 1..Copies /\ acked' = acked
         \/ cli'[c].step = "idle" /\ acked' = acked \cup {cli[c].idx}
  <2>1. CASE cli[c].at < Copies
    <3>1. /\ cli' = [cli EXCEPT ![c].at = @ + 1, ![c].step = "find", ![c].fd = 0]
          /\ acked' = acked
      BY <2>1 DEF Answer
    <3>2. /\ cli' \in [Clients -> CliType] /\ \A d \in Clients : d # c => cli'[d] = cli[d]
          /\ cli'[c].step = "find" /\ cli'[c].idx = cli[c].idx /\ cli'[c].fd = 0
          /\ cli'[c].at = cli[c].at + 1
      BY <1>2, <3>1 DEF CliType, Steps
    <3>3. cli[c].at + 1 \in 1..Copies
      BY <1>2, <2>1
    <3> QED
      BY <3>1, <3>2, <3>3
  <2>2. CASE ~(cli[c].at < Copies)
    <3>1. cli' = [cli EXCEPT ![c] = Idle] /\ acked' = acked \cup {cli[c].idx}
      BY <2>2 DEF Answer
    <3>2. Idle \in CliType /\ Idle.step = "idle" /\ Idle.fd = 0
      BY DEF Idle, CliType, Steps
    <3> QED
      BY <1>2, <3>1, <3>2
  <2> QED
    BY <2>1, <2>2
<1>4. \A t \in Servers : Written(t)' = Written(t) /\ Counted(t)' = Counted(t)
  BY <1>1, AnswerOn DEF Written, Counted
<1>5. /\ \A d \in Clients : Busy(d)' => Busy(d) /\ cli'[d].idx = cli[d].idx
      /\ cli'[c].step = "idle" => ~Busy(c)'
  BY <1>2, <1>3 DEF Busy
<1>6. TypeInv'
  <2>1. \A d \in Clients : Busy(d)' => cli'[d].idx < gsn' /\ cli'[d].at \in 1..Copies
    BY <1>1, <1>3, <1>5 DEF TypeInv, Busy
  <2> QED
    BY <1>2, <1>3, <2>1 DEF TypeInv, CliType
<1>7. UniqueInv'
  BY <1>1, <1>5 DEF UniqueInv
<1>8. AckedInv'
  <2>1. ASSUME NEW i \in acked
        PROVE  i \in 0..(gsn' - 1) /\ \A d \in Clients : Busy(d)' => cli'[d].idx # i
    BY <1>1, <1>5 DEF AckedInv
  <2>2. ASSUME cli'[c].step = "idle"
        PROVE  \A d \in Clients : Busy(d)' => cli'[d].idx # cli[c].idx
    BY <1>1, <1>2, <1>5, <2>2 DEF UniqueInv
  <2> QED
    BY <1>2, <1>3, <2>1, <2>2 DEF AckedInv
<1> QED
  BY <1>3, <1>4, <1>6, <1>7, <1>8

\* The stripe is not complete, or was closed by another thread: the file is
\* left as it is.
LEMMA NotFullKeeps ==
    ASSUME IInv, NEW c \in Clients, NotFull(c)
    PROVE  IInv'
<1>1. /\ cli[c].step = "check" /\ gsn' = gsn /\ UNCHANGED serverVars
      /\ rd' = rd /\ Answer(c)
  BY DEF NotFull
<1>2. /\ TypeInv' /\ UniqueInv' /\ AckedInv'
      /\ \A d \in Clients : d # c => cli'[d] = cli[d]
      /\ cli'[c].step \in {"idle", "find"} /\ cli'[c].fd = 0
      /\ \A t \in Servers : Written(t)' = Written(t) /\ Counted(t)' = Counted(t)
  <2>1. /\ DOMAIN entries_fd_set' = Servers /\ DOMAIN cache_size' = Servers
        /\ DOMAIN entry_size' = Servers /\ DOMAIN files' = Servers /\ DOMAIN strays' = Servers
    BY <1>1, Types DEF IInv, serverVars
  <2> QED
    BY <1>1, <2>1, AnswerNumbers
<1>3. FileInv' /\ SlotInv'
  BY <1>1, <1>2, FilesSame
<1>4. ThreadInv'
  <2>1. \A d \in Clients : d # c =>
           /\ cli'[d].step \in {"find", "create"} => cli'[d].fd = 0
           /\ cli'[d].step \in {"write", "count", "check", "close"} =>
                 BaseOf(d)' \in DOMAIN files'[ServerOf(d)']
           /\ cli'[d].step = "close" => Complete(ServerOf(d), BaseOf(d))'
    BY <1>1, <1>2, OtherThreads DEF serverVars
  <2> QED
    BY <1>2, <2>1 DEF ThreadInv
<1>5. FdIsMine'
  <2>1. \A d \in Clients : d # c =>
           (cli'[d].step = "write" /\ cli'[d].fd # 0 =>
              /\ BaseOf(d)' \in DOMAIN entries_fd_set'[ServerOf(d)']
              /\ entries_fd_set'[ServerOf(d)'][BaseOf(d)'] = cli'[d].fd)
    BY <1>1, <1>2, OtherFds DEF serverVars
  <2> QED
    BY <1>2, <2>1 DEF FdIsMine
<1>6. ReadInv'
  BY <1>1, ReadSame DEF serverVars
<1> QED
  BY <1>2, <1>3, <1>4, <1>5, <1>6 DEF IInv

-----------------------------------------------------------------------------
(* Steps that change files *)

\* The lowest free descriptor exists and is free.
LEMMA NewFdIsFree ==
    ASSUME NEW s, IsFiniteSet(DOMAIN entries_fd_set[s])
    PROVE  /\ NewFd(s) \in Nat \ {0}
           /\ \A b \in DOMAIN entries_fd_set[s] : entries_fd_set[s][b] # NewFd(s)
<1> DEFINE D == DOMAIN entries_fd_set[s]
           used == {entries_fd_set[s][b] : b \in D}
           f == [b \in D |-> entries_fd_set[s][b]]
           m == Cardinality(used) + 1
           free == {n \in 1..m : n \notin used}
           R == OpToRel(<, Nat)
<1>1. f \in Surjection(D, used)
  <2>1. f \in [D -> used]
    OBVIOUS
  <2>2. \A u \in used : \E b \in D : f[b] = u
    OBVIOUS
  <2> QED
    BY <2>1, <2>2 DEF Surjection
<1> HIDE DEF f
<1>2. IsFiniteSet(used)
  <2>1. IsFiniteSet(D)
    OBVIOUS
  <2> HIDE DEF D, used
  <2> QED
    BY <1>1, <2>1, FS_Surjection
<1> HIDE DEF used, D
<1>3. Cardinality(used) \in Nat /\ m \in Nat /\ m > Cardinality(used)
  BY <1>2, FS_CardinalityType
<1>4. free # {}
  <2> SUFFICES ASSUME 1..m \subseteq used PROVE FALSE
    OBVIOUS
  <2>1. Cardinality(1..m) <= Cardinality(used)
    BY <1>2, FS_Subset
  <2>2. Cardinality(1..m) = m
    <3> HIDE DEF m
    <3>1. Cardinality(1..m) = IF 1 > m THEN 0 ELSE m - 1 + 1
      BY <1>3, FS_Interval
    <3> QED
      BY <1>3, <3>1
  <2> QED
    BY <1>3, <2>1, <2>2
<1>5. free \subseteq Nat
  BY <1>3
<1>6. IsWellFoundedOn(R, Nat)
  BY NatLessThanWellFounded, Zenon
<1>7. ASSUME NEW y \in Nat, NEW z \in Nat, ~(<<y, z>> \in R) PROVE z <= y
  BY <1>7 DEF OpToRel
<1> HIDE DEF R
<1>8. PICK n \in free : \A u \in free : ~(<<u, n>> \in R)
  <2> HIDE DEF free
  <2> QED
    BY <1>4, <1>5, <1>6, WFMin, Zenon
<1>9. \A u \in free : n <= u
  BY <1>5, <1>7, <1>8
<1>10. n \in 1..m /\ n \notin used /\ \A k \in 1..(n - 1) : k \in used
  <2>1. n \in 1..m /\ n \notin used
    OBVIOUS
  <2>2. ASSUME NEW k \in 1..(n - 1), k \notin used PROVE FALSE
    <3>1. k \in free
      BY <1>3, <2>1, <2>2
    <3>2. n <= k
      BY <1>9, <3>1
    <3> QED
      BY <1>3, <2>1, <3>2
  <2> QED
    BY <2>1, <2>2
<1> HIDE DEF m, free
<1>11. NewFd(s) = CHOOSE k \in 1..m : k \notin used /\ \A j \in 1..(k - 1) : j \in used
  BY DEF NewFd, used, D, m
<1>12. NewFd(s) \in 1..m /\ NewFd(s) \notin used
  BY <1>10, <1>11
<1>13. NewFd(s) \in Nat \ {0}
  BY <1>3, <1>12
<1> QED
  BY <1>12, <1>13 DEF used, D

\* A thread that has not been counted finds its file open or not created.
LEMMA NotClosed ==
    ASSUME IInv, NEW c \in Clients, cli[c].step \in {"find", "create", "write", "count"}
    PROVE  /\ ~Complete(ServerOf(c), BaseOf(c))
           /\ BaseOf(c) \in DOMAIN files[ServerOf(c)] =>
                 BaseOf(c) \in DOMAIN entries_fd_set[ServerOf(c)]
<1>1. TypeInv /\ FileInv /\ Busy(c)
  BY DEF IInv, Busy
<1>2. ServerOf(c) \in Servers /\ cli[c].idx \in Stripe(ServerOf(c), BaseOf(c))
  BY <1>1, BusyFacts
<1>3. cli[c].idx \notin Past(ServerOf(c), {"check", "close"})
  BY <1>1, NotPast
<1>4. ~Complete(ServerOf(c), BaseOf(c))
  BY <1>2, <1>3 DEF Complete, Counted
<1> QED
  BY <1>1, <1>2, <1>4 DEF FileInv, FileOK

\* The thread creates its file, unless another one has.
LEMMA CreateFileKeeps ==
    ASSUME IInv, NEW c \in Clients, CreateFile(c)
    PROVE  IInv'
<1>1. TypeInv /\ UniqueInv /\ ThreadInv /\ FileInv /\ SlotInv
  BY DEF IInv
<1>2. PICK s, b, n : s = ServerOf(c) /\ b = BaseOf(c) /\ n = NewFd(s)
  OBVIOUS
<1> DEFINE Creates ==
             /\ b \notin DOMAIN entries_fd_set[s]
             /\ cache_size' = [cache_size EXCEPT ![s] = Put(@, b, 0)]
             /\ files' = [files EXCEPT ![s] = Put(@, b, {})]
             /\ entries_fd_set' = [entries_fd_set EXCEPT ![s] = Put(@, b, n)]
             /\ cli' = [cli EXCEPT ![c].step = "write", ![c].fd = n]
           Finds ==
             /\ b \in DOMAIN entries_fd_set[s]
             /\ cli' = [cli EXCEPT ![c].step = "write"]
             /\ UNCHANGED <<cache_size, files, entries_fd_set>>
<1>3. /\ cli[c].step = "create" /\ gsn' = gsn /\ entry_size' = entry_size
      /\ strays' = strays /\ acked' = acked /\ rd' = rd
      /\ Creates \/ Finds
  BY <1>2, ThenIs DEF CreateFile, StillMissing
<1>4. /\ Busy(c) /\ cli \in [Clients -> CliType] /\ s \in Servers /\ cli[c].fd = 0
      /\ b \in Nat /\ b % BigStripe = 0
  BY <1>1, <1>2, <1>3, Types, BusyFacts DEF Busy, ThreadInv
<1>5. n \in Nat \ {0} /\ \A a \in DOMAIN entries_fd_set[s] : entries_fd_set[s][a] # n
  BY <1>1, <1>2, <1>4, NewFdIsFree DEF FileInv, FileOK
<1>6. /\ \A d \in Clients : d # c => cli'[d] = cli[d]
      /\ cli' \in [Clients -> CliType]
      /\ cli'[c].idx = cli[c].idx /\ cli'[c].at = cli[c].at /\ cli'[c].step = "write"
      /\ Creates => cli'[c].fd = n
      /\ Finds => cli'[c].fd = 0
  <2>1. CASE Creates
    <3>1. /\ \A d \in Clients : d # c => cli'[d] = cli[d]
          /\ cli' \in [Clients -> CliType]
          /\ cli'[c].idx = cli[c].idx /\ cli'[c].at = cli[c].at /\ cli'[c].step = "write"
          /\ cli'[c].fd = n
      BY <1>4, <1>5, <2>1 DEF CliType, Steps
    <3> QED
      BY <2>1, <3>1
  <2>2. CASE Finds
    <3>1. /\ \A d \in Clients : d # c => cli'[d] = cli[d]
          /\ cli' \in [Clients -> CliType]
          /\ cli'[c].idx = cli[c].idx /\ cli'[c].at = cli[c].at /\ cli'[c].step = "write"
          /\ cli'[c].fd = cli[c].fd
      BY <1>4, <2>2 DEF CliType, Steps
    <3> QED
      BY <1>4, <2>2, <3>1
  <2> QED
    BY <1>3, <2>1, <2>2
<1>7. \A t \in Servers : Written(t)' = Written(t) /\ Counted(t)' = Counted(t)
  <2>1. cli[c].step = "create"
    BY <1>3
  <2> QED
    BY <1>1, <1>3, <1>4, <1>6, <2>1, MoveOn DEF Written, Counted
<1>8. s = ServerOf(c)' /\ b = BaseOf(c)'
  BY <1>2, <1>6, SameServer
<1>9. Creates => b \notin DOMAIN files[s]
  BY <1>2, <1>3, NotClosed
<1>10. /\ DOMAIN entries_fd_set' = Servers /\ DOMAIN cache_size' = Servers
       /\ DOMAIN entry_size' = Servers /\ DOMAIN files' = Servers /\ DOMAIN strays' = Servers
       /\ \A t \in Servers : t # s => /\ entries_fd_set'[t] = entries_fd_set[t]
                                      /\ cache_size'[t] = cache_size[t]
                                      /\ files'[t] = files[t]
       /\ Finds => entries_fd_set' = entries_fd_set /\ cache_size' = cache_size /\ files' = files
       /\ Creates => /\ entries_fd_set'[s] = Put(entries_fd_set[s], b, n)
                     /\ cache_size'[s] = Put(cache_size[s], b, 0)
                     /\ files'[s] = Put(files[s], b, {})
  BY <1>1, <1>3, <1>4, Types
<1> HIDE DEF Creates, Finds
<1>11. Creates =>
         /\ DOMAIN entries_fd_set'[s] = DOMAIN entries_fd_set[s] \cup {b}
         /\ DOMAIN cache_size'[s] = DOMAIN cache_size[s] \cup {b}
         /\ DOMAIN files'[s] = DOMAIN files[s] \cup {b}
         /\ entries_fd_set'[s][b] = n /\ cache_size'[s][b] = 0 /\ files'[s][b] = {}
         /\ \A a \in DOMAIN entries_fd_set[s] : a # b => entries_fd_set'[s][a] = entries_fd_set[s][a]
         /\ \A a \in DOMAIN cache_size[s] : a # b => cache_size'[s][a] = cache_size[s][a]
         /\ \A a \in DOMAIN files[s] : a # b => files'[s][a] = files[s][a]
  BY <1>10 DEF Put
<1>12. TypeInv' /\ UniqueInv' /\ AckedInv'
  BY <1>3, <1>4, <1>6, <1>10, NumbersSame
<1>13. ASSUME NEW t \in Servers, t # s \/ Finds PROVE FileOK(t)' /\ SlotsOK(t)'
  BY <1>3, <1>7, <1>10, <1>13, ServerSame
<1>14. ASSUME Creates PROVE FileOK(s)' /\ SlotsOK(s)'
  <2>1. FileOK(s) /\ SlotsOK(s) /\ Written(s)' = Written(s) /\ Counted(s)' = Counted(s)
    BY <1>1, <1>4, <1>7 DEF FileInv, SlotInv
  <2>2. b \notin DOMAIN entries_fd_set[s] /\ b \notin DOMAIN files[s]
    BY <1>9, <1>14 DEF Creates
  <2>3. In(Counted(s), b) = {} /\ In(Written(s) \ strays[s], b) = {}
    BY <2>1, <2>2, CountedIsWritten DEF In, SlotsOK
  <2>4. \A a : Complete(s, a)' <=> Complete(s, a)
    BY <2>1 DEF Complete, Stripe
  <2>5. FileOK(s)'
    <3>1. IsFiniteSet(DOMAIN entries_fd_set'[s])
      BY <1>11, <1>14, <2>1, FS_AddElement DEF FileOK
    <3>2. /\ DOMAIN entries_fd_set'[s] \subseteq DOMAIN files'[s]
          /\ DOMAIN cache_size'[s] = DOMAIN entries_fd_set'[s]
      BY <1>11, <1>14, <2>1 DEF FileOK
    <3>3. ASSUME NEW a \in DOMAIN entries_fd_set'[s]
          PROVE  /\ entries_fd_set'[s][a] \in Nat \ {0}
                 /\ cache_size'[s][a] = Cardinality(In(Counted(s)', a))
      <4>1. CASE a = b
        BY <1>5, <1>11, <1>14, <2>1, <2>3, <4>1, FS_EmptySet
      <4>2. CASE a # b
        BY <1>11, <1>14, <2>1, <4>2 DEF FileOK
      <4> QED
        BY <4>1, <4>2
    <3>4. ASSUME NEW a \in DOMAIN entries_fd_set'[s], NEW e \in DOMAIN entries_fd_set'[s],
                 entries_fd_set'[s][a] = entries_fd_set'[s][e]
          PROVE  a = e
      BY <1>5, <1>11, <1>14, <2>1, <2>2, <3>4 DEF FileOK
    <3>5. ASSUME NEW a \in DOMAIN files'[s]
          PROVE  /\ a \in Nat /\ a % BigStripe = 0
                 /\ a \notin DOMAIN entries_fd_set'[s] => Complete(s, a)'
      BY <1>4, <1>11, <1>14, <2>1, <2>4 DEF FileOK
    <3>6. \A a : In(Counted(s)', a) = In(Counted(s), a)'
      BY DEF In, Base, BigStripe
    <3> QED
      BY <3>1, <3>2, <3>3, <3>4, <3>5, <3>6 DEF FileOK
  <2>6. SlotsOK(s)'
    <3>1. strays[s] \subseteq Written(s) /\ \A i \in Written(s) : Base(i) \in DOMAIN files'[s]
      BY <1>11, <1>14, <2>1 DEF SlotsOK
    <3>2. ASSUME NEW a \in DOMAIN files'[s]
          PROVE  files'[s][a] = {Slot(i) : i \in In(Written(s) \ strays[s], a)}
      <4>1. CASE a = b
        BY <1>11, <1>14, <2>3, <4>1
      <4>2. CASE a # b
        BY <1>11, <1>14, <2>1, <4>2 DEF SlotsOK
      <4> QED
        BY <4>1, <4>2
    <3> QED
      BY <1>3, <2>1, <3>1, <3>2 DEF SlotsOK, In
  <2> QED
    BY <2>5, <2>6
<1>15. FileInv' /\ SlotInv'
  BY <1>3, <1>13, <1>14 DEF FileInv, SlotInv
<1>16. \A t \in Servers : /\ DOMAIN files[t] \subseteq DOMAIN files'[t]
                          /\ \A a \in DOMAIN files[t] : files[t][a] = files'[t][a]
                          /\ \A a \in DOMAIN entries_fd_set[t] :
                                /\ a \in DOMAIN entries_fd_set'[t]
                                /\ entries_fd_set'[t][a] = entries_fd_set[t][a]
  <2>1. CASE Finds
    BY <1>10, <2>1
  <2>2. CASE Creates
    <3>1. b \notin DOMAIN entries_fd_set[s] /\ b \notin DOMAIN files[s]
      BY <1>9, <2>2 DEF Creates
    <3> QED
      BY <1>10, <1>11, <2>2, <3>1
  <2> QED
    BY <1>3, <2>1, <2>2
<1>17. ThreadInv'
  <2>1. \A d \in Clients : d # c =>
           /\ cli'[d].step \in {"find", "create"} => cli'[d].fd = 0
           /\ cli'[d].step \in {"write", "count", "check", "close"} =>
                 BaseOf(d)' \in DOMAIN files'[ServerOf(d)']
           /\ cli'[d].step = "close" => Complete(ServerOf(d), BaseOf(d))'
    BY <1>6, <1>7, <1>16, OtherThreads
  <2>2. b \in DOMAIN files'[s]
    <3>1. CASE Finds
      BY <1>1, <1>4, <1>10, <3>1 DEF Finds, FileInv, FileOK
    <3>2. CASE Creates
      BY <1>11, <3>2
    <3> QED
      BY <1>3, <3>1, <3>2
  <2> QED
    BY <1>6, <1>8, <2>1, <2>2 DEF ThreadInv
<1>18. FdIsMine'
  <2>1. \A d \in Clients : d # c =>
           (cli'[d].step = "write" /\ cli'[d].fd # 0 =>
              /\ BaseOf(d)' \in DOMAIN entries_fd_set'[ServerOf(d)']
              /\ entries_fd_set'[ServerOf(d)'][BaseOf(d)'] = cli'[d].fd)
    BY <1>6, <1>16, OtherFds
  <2>2. cli'[c].fd # 0 => b \in DOMAIN entries_fd_set'[s] /\ entries_fd_set'[s][b] = cli'[c].fd
    BY <1>3, <1>6, <1>11
  <2> QED
    BY <1>8, <2>1, <2>2 DEF FdIsMine
<1>19. ReadInv'
  BY <1>3, <1>16, ReadSame
<1> QED
  BY <1>12, <1>15, <1>17, <1>18, <1>19 DEF IInv

\* The thread writes to the file it holds, or to descriptor 0.
LEMMA PWriteKeeps ==
    ASSUME IInv, NEW c \in Clients, PWrite(c)
    PROVE  IInv'
<1>1. TypeInv /\ UniqueInv /\ ThreadInv /\ FileInv /\ SlotInv /\ FdIsMine
  BY DEF IInv
<1>2. PICK s, b, i, fd : s = ServerOf(c) /\ b = BaseOf(c) /\ i = cli[c].idx /\ fd = cli[c].fd
  OBVIOUS
<1> DEFINE open == {a \in DOMAIN entries_fd_set[s] : entries_fd_set[s][a] = fd}
<1>3. /\ cli[c].step = "write" /\ gsn' = gsn /\ entry_size' = entry_size
      /\ entries_fd_set' = entries_fd_set /\ cache_size' = cache_size
      /\ acked' = acked /\ rd' = rd /\ cli' = [cli EXCEPT ![c].step = "count"]
      /\ files' = [files EXCEPT ![s] =
                     [a \in DOMAIN @ |-> IF a \in open THEN @[a] \cup {Slot(i)} ELSE @[a]]]
      /\ strays' = [strays EXCEPT ![s] = IF fd = 0 THEN @ \cup {i} ELSE @]
  BY <1>2, ThenIs DEF PWrite, Goto
<1>4. /\ Busy(c) /\ cli \in [Clients -> CliType] /\ s \in Servers /\ b \in DOMAIN files[s]
      /\ i \in Nat /\ Base(i) = b /\ b \in DOMAIN entries_fd_set[s]
  <2>1. Busy(c) /\ cli \in [Clients -> CliType] /\ s \in Servers /\ i \in Nat
    BY <1>1, <1>2, <1>3, Types, BusyFacts DEF Busy
  <2>2. b \in DOMAIN files[s] /\ Base(i) = b
    BY <1>1, <1>2, <1>3 DEF ThreadInv, BaseOf
  <2> QED
    BY <1>2, <1>3, <2>1, <2>2, NotClosed
<1>5. /\ \A d \in Clients : d # c => cli'[d] = cli[d]
      /\ cli' \in [Clients -> CliType]
      /\ cli'[c].idx = cli[c].idx /\ cli'[c].at = cli[c].at /\ cli'[c].step = "count"
  BY <1>3, <1>4 DEF CliType, Steps
<1>6. /\ \A t \in Servers : Counted(t)' = Counted(t)
      /\ \A t \in Servers : t # s => Written(t)' = Written(t)
      /\ Written(s)' = Written(s) \cup {i} /\ i \notin Written(s)
  <2>1. cli[c].step = "write"
    BY <1>3
  <2>2. \A t \in Servers : Counted(t)' = Counted(t)
    BY <1>1, <1>3, <1>4, <1>5, <2>1, MoveOn DEF Counted
  <2>3. \A t \in Servers : t # s => Written(t)' = Written(t)
    BY <1>1, <1>2, <1>3, <1>4, <1>5, <2>1, MoveOn DEF Written
  <2>4. Written(s)' = Written(s) \cup {i}
    <3>1. s = ServerOf(c) /\ i = cli[c].idx /\ s \in Servers
      BY <1>2, <1>4
    <3> QED
      BY <1>1, <1>3, <1>4, <1>5, <2>1, <3>1, MoveOn DEF Written
  <2>5. i \notin Written(s)
    BY <1>1, <1>2, <1>4, <2>1, NotPast DEF Written
  <2> QED
    BY <2>2, <2>3, <2>4, <2>5
<1>7. s = ServerOf(c)' /\ b = BaseOf(c)'
  BY <1>2, <1>5, SameServer
<1>8. fd # 0 => entries_fd_set[s][b] = fd
  BY <1>1, <1>2, <1>3 DEF FdIsMine
<1>9. open = IF fd = 0 THEN {} ELSE {b}
  <2>1. FileOK(s)
    BY <1>1, <1>4 DEF FileInv
  <2> QED
    BY <1>4, <1>8, <2>1 DEF FileOK
<1> HIDE DEF open
<1>10. /\ DOMAIN files' = Servers /\ DOMAIN strays' = Servers
       /\ \A t \in Servers : t # s => files'[t] = files[t] /\ strays'[t] = strays[t]
       /\ DOMAIN files'[s] = DOMAIN files[s]
       /\ strays'[s] = IF fd = 0 THEN strays[s] \cup {i} ELSE strays[s]
       /\ \A a \in DOMAIN files[s] :
             files'[s][a] = IF a \in open THEN files[s][a] \cup {Slot(i)} ELSE files[s][a]
  BY <1>1, <1>3, <1>4, Types
<1>11. TypeInv' /\ UniqueInv' /\ AckedInv'
  <2>1. /\ DOMAIN entries_fd_set' = Servers /\ DOMAIN cache_size' = Servers
        /\ DOMAIN entry_size' = Servers
    BY <1>1, <1>3, Types
  <2> QED
    BY <1>3, <1>4, <1>5, <1>10, <2>1, NumbersSame
<1>12. ASSUME NEW t \in Servers, t # s PROVE FileOK(t)' /\ SlotsOK(t)'
  BY <1>3, <1>6, <1>10, <1>12, ServerSame
<1>13. FileOK(s)'
  <2>1. FileOK(s) /\ Counted(s)' = Counted(s)
    BY <1>1, <1>4, <1>6 DEF FileInv
  <2>2. \A a : Complete(s, a)' <=> Complete(s, a)
    BY <2>1 DEF Complete, Stripe
  <2>3. \A a : In(Counted(s), a)' = In(Counted(s), a)
    BY <2>1 DEF In
  <2> QED
    BY <1>3, <1>10, <2>1, <2>2, <2>3 DEF FileOK
<1>14. SlotsOK(s)'
  <2>1. SlotsOK(s)
    BY <1>1, <1>4 DEF SlotInv
  <2>2. strays'[s] \subseteq Written(s)'
    BY <1>6, <1>10, <2>1 DEF SlotsOK
  <2>3. \A j \in Written(s)' : Base(j) \in DOMAIN files'[s]
    BY <1>4, <1>6, <1>10, <2>1 DEF SlotsOK
  <2>4. ASSUME NEW a \in DOMAIN files[s]
        PROVE  files'[s][a] = {Slot(j) : j \in In(Written(s)' \ strays'[s], a)}
    <3>1. files[s][a] = {Slot(j) : j \in In(Written(s) \ strays[s], a)}
      BY <2>1 DEF SlotsOK
    <3>2. CASE fd = 0
      <4>1. Written(s)' \ strays'[s] = Written(s) \ strays[s]
        BY <1>6, <1>10, <3>2
      <4>2. files'[s][a] = files[s][a]
        BY <1>9, <1>10, <3>2
      <4> QED
        BY <3>1, <4>1, <4>2
    <3>3. CASE fd # 0
      <4>1. Written(s)' \ strays'[s] = (Written(s) \ strays[s]) \cup {i}
        BY <1>6, <1>10, <2>1, <3>3 DEF SlotsOK
      <4>2. CASE a = b
        <5>1. In(Written(s)' \ strays'[s], a) = In(Written(s) \ strays[s], a) \cup {i}
          BY <1>4, <4>1, <4>2 DEF In
        <5>2. files'[s][a] = files[s][a] \cup {Slot(i)}
          BY <1>9, <1>10, <3>3, <4>2
        <5> QED
          BY <3>1, <5>1, <5>2
      <4>3. CASE a # b
        <5>1. In(Written(s)' \ strays'[s], a) = In(Written(s) \ strays[s], a)
          BY <1>4, <4>1, <4>3 DEF In
        <5>2. files'[s][a] = files[s][a]
          BY <1>9, <1>10, <3>3, <4>3
        <5> QED
          BY <3>1, <5>1, <5>2
      <4> QED
        BY <4>2, <4>3
    <3> QED
      BY <3>2, <3>3
  <2> QED
    BY <1>10, <2>2, <2>3, <2>4 DEF SlotsOK, In
<1>15. FileInv' /\ SlotInv'
  BY <1>12, <1>13, <1>14 DEF FileInv, SlotInv
<1>16. \A t \in Servers : /\ DOMAIN files[t] \subseteq DOMAIN files'[t]
                          /\ \A a \in DOMAIN files[t] :
                                a \in DOMAIN files'[t] /\ files[t][a] \subseteq files'[t][a]
  BY <1>10
<1>17. ThreadInv'
  <2>1. \A d \in Clients : d # c =>
           /\ cli'[d].step \in {"find", "create"} => cli'[d].fd = 0
           /\ cli'[d].step \in {"write", "count", "check", "close"} =>
                 BaseOf(d)' \in DOMAIN files'[ServerOf(d)']
           /\ cli'[d].step = "close" => Complete(ServerOf(d), BaseOf(d))'
    BY <1>5, <1>6, <1>16, OtherThreads
  <2> QED
    BY <1>4, <1>5, <1>7, <1>10, <2>1 DEF ThreadInv
<1>18. FdIsMine'
  <2>1. \A d \in Clients : d # c =>
           (cli'[d].step = "write" /\ cli'[d].fd # 0 =>
              /\ BaseOf(d)' \in DOMAIN entries_fd_set'[ServerOf(d)']
              /\ entries_fd_set'[ServerOf(d)'][BaseOf(d)'] = cli'[d].fd)
    <3>1. entries_fd_set' = entries_fd_set
      BY <1>3
    <3> QED
      BY <1>5, <3>1, OtherFds
  <2> QED
    BY <1>5, <2>1 DEF FdIsMine
<1>19. ReadInv'
  BY <1>3, <1>16, ReadSame
<1> QED
  BY <1>11, <1>15, <1>17, <1>18, <1>19 DEF IInv

\* The thread counts its entry: the file is still open.
LEMMA CountEntryKeeps ==
    ASSUME IInv, NEW c \in Clients, CountEntry(c)
    PROVE  IInv'
<1>1. TypeInv /\ UniqueInv /\ ThreadInv /\ FileInv /\ SlotInv
  BY DEF IInv
<1>2. PICK s, b, i : s = ServerOf(c) /\ b = BaseOf(c) /\ i = cli[c].idx
  OBVIOUS
<1>3. /\ cli[c].step = "count" /\ gsn' = gsn /\ files' = files
      /\ entries_fd_set' = entries_fd_set /\ strays' = strays
      /\ acked' = acked /\ rd' = rd /\ cli' = [cli EXCEPT ![c].step = "check"]
      /\ entry_size' = [entry_size EXCEPT ![s] = TRUE]
      /\ cache_size' = [cache_size EXCEPT ![s] = Put(@, b, At(@, b) + 1)]
  BY <1>2, ThenIs DEF CountEntry, Goto
<1>4. /\ Busy(c) /\ cli \in [Clients -> CliType] /\ s \in Servers /\ b \in DOMAIN files[s]
      /\ i \in Nat /\ Base(i) = b /\ b \in DOMAIN entries_fd_set[s]
  <2>1. Busy(c) /\ cli \in [Clients -> CliType] /\ s \in Servers /\ i \in Nat
    BY <1>1, <1>2, <1>3, Types, BusyFacts DEF Busy
  <2>2. b \in DOMAIN files[s] /\ Base(i) = b
    BY <1>1, <1>2, <1>3 DEF ThreadInv, BaseOf
  <2> QED
    BY <1>2, <1>3, <2>1, <2>2, NotClosed
<1>5. /\ \A d \in Clients : d # c => cli'[d] = cli[d]
      /\ cli' \in [Clients -> CliType]
      /\ cli'[c].idx = cli[c].idx /\ cli'[c].at = cli[c].at /\ cli'[c].step = "check"
  BY <1>3, <1>4 DEF CliType, Steps
<1>6. /\ \A t \in Servers : Written(t)' = Written(t)
      /\ \A t \in Servers : t # s => Counted(t)' = Counted(t)
      /\ Counted(s)' = Counted(s) \cup {i} /\ i \notin Counted(s)
  <2>1. cli[c].step = "count"
    BY <1>3
  <2>2. \A t \in Servers : Written(t)' = Written(t)
    BY <1>1, <1>3, <1>4, <1>5, <2>1, MoveOn DEF Written
  <2>3. \A t \in Servers : t # s => Counted(t)' = Counted(t)
    BY <1>1, <1>2, <1>3, <1>4, <1>5, <2>1, MoveOn DEF Counted
  <2>4. Counted(s)' = Counted(s) \cup {i}
    <3>1. s = ServerOf(c) /\ i = cli[c].idx /\ s \in Servers
      BY <1>2, <1>4
    <3> QED
      BY <1>1, <1>3, <1>4, <1>5, <2>1, <3>1, MoveOn DEF Counted
  <2>5. i \notin Counted(s)
    BY <1>1, <1>2, <1>4, <2>1, NotPast DEF Counted
  <2> QED
    BY <2>2, <2>3, <2>4, <2>5
<1>7. s = ServerOf(c)' /\ b = BaseOf(c)'
  BY <1>2, <1>5, SameServer
<1>8. FileOK(s) /\ SlotsOK(s)
  BY <1>1, <1>4 DEF FileInv, SlotInv
<1>9. /\ DOMAIN cache_size' = Servers /\ DOMAIN entry_size' = Servers
      /\ \A t \in Servers : t # s => cache_size'[t] = cache_size[t]
      /\ \A t \in Servers : entry_size[t] = TRUE => entry_size'[t] = TRUE
      /\ cache_size'[s] = Put(cache_size[s], b, At(cache_size[s], b) + 1)
  BY <1>1, <1>3, <1>4, Types
<1>10. /\ DOMAIN cache_size'[s] = DOMAIN cache_size[s]
       /\ cache_size'[s][b] = cache_size[s][b] + 1
       /\ \A a \in DOMAIN cache_size[s] : a # b => cache_size'[s][a] = cache_size[s][a]
  <2>1. b \in DOMAIN cache_size[s]
    BY <1>4, <1>8 DEF FileOK
  <2> QED
    BY <1>9, <2>1 DEF Put, At
<1>11. TypeInv' /\ UniqueInv' /\ AckedInv'
  <2>1. /\ DOMAIN entries_fd_set' = Servers /\ DOMAIN files' = Servers
        /\ DOMAIN strays' = Servers
    BY <1>1, <1>3, Types
  <2> QED
    BY <1>3, <1>4, <1>5, <1>9, <2>1, NumbersSame
<1>12. ASSUME NEW t \in Servers, t # s PROVE FileOK(t)' /\ SlotsOK(t)'
  BY <1>3, <1>6, <1>9, <1>12, ServerSame
<1>13. FileOK(s)'
  <2>1. \A a : Complete(s, a) => Complete(s, a)'
    BY <1>6 DEF Complete, Stripe
  <2>2. ASSUME NEW a \in DOMAIN entries_fd_set[s]
        PROVE  cache_size'[s][a] = Cardinality(In(Counted(s)', a))
    <3>1. cache_size[s][a] = Cardinality(In(Counted(s), a)) /\ a \in DOMAIN cache_size[s]
      BY <1>8 DEF FileOK
    <3>2. CASE a = b
      <4>1. In(Counted(s)', a) = In(Counted(s), a) \cup {i} /\ i \notin In(Counted(s), a)
        BY <1>4, <1>6, <3>2 DEF In
      <4>2. IsFiniteSet(In(Counted(s), a))
        BY <1>1, PastFacts DEF Counted
      <4>3. Cardinality(In(Counted(s), a) \cup {i}) = Cardinality(In(Counted(s), a)) + 1
        BY <4>1, <4>2, FS_AddElement
      <4> QED
        BY <1>10, <3>1, <3>2, <4>1, <4>3
    <3>3. CASE a # b
      <4>1. In(Counted(s)', a) = In(Counted(s), a)
        BY <1>4, <1>6, <3>3 DEF In
      <4> QED
        BY <1>10, <3>1, <3>3, <4>1
    <3> QED
      BY <3>2, <3>3
  <2>3. \A a : In(Counted(s)', a) = In(Counted(s), a)'
    BY DEF In
  <2> QED
    BY <1>3, <1>8, <1>10, <2>1, <2>2, <2>3 DEF FileOK
<1>14. SlotsOK(s)'
  BY <1>3, <1>4, <1>6, <1>8 DEF SlotsOK, In
<1>15. FileInv' /\ SlotInv'
  BY <1>12, <1>13, <1>14 DEF FileInv, SlotInv
<1>16. \A t \in Servers : Counted(t) \subseteq Counted(t)'
  BY <1>6
<1>17. ThreadInv'
  <2>1. \A d \in Clients : d # c =>
           /\ cli'[d].step \in {"find", "create"} => cli'[d].fd = 0
           /\ cli'[d].step \in {"write", "count", "check", "close"} =>
                 BaseOf(d)' \in DOMAIN files'[ServerOf(d)']
           /\ cli'[d].step = "close" => Complete(ServerOf(d), BaseOf(d))'
    <3>1. files' = files
      BY <1>3
    <3> QED
      BY <1>5, <1>16, <3>1, OtherThreads
  <2> QED
    BY <1>3, <1>4, <1>5, <1>7, <2>1 DEF ThreadInv
<1>18. FdIsMine'
  <2>1. \A d \in Clients : d # c =>
           (cli'[d].step = "write" /\ cli'[d].fd # 0 =>
              /\ BaseOf(d)' \in DOMAIN entries_fd_set'[ServerOf(d)']
              /\ entries_fd_set'[ServerOf(d)'][BaseOf(d)'] = cli'[d].fd)
    <3>1. entries_fd_set' = entries_fd_set
      BY <1>3
    <3> QED
      BY <1>5, <3>1, OtherFds
  <2> QED
    BY <1>5, <2>1 DEF FdIsMine
<1>19. ReadInv'
  BY <1>3, <1>9, ReadSame
<1> QED
  BY <1>11, <1>15, <1>17, <1>18, <1>19 DEF IInv

\* The thread closes the file of a complete stripe, unless it is closed.
LEMMA CloseFileKeeps ==
    ASSUME IInv, NEW c \in Clients, CloseFile(c)
    PROVE  IInv'
<1>1. TypeInv /\ UniqueInv /\ ThreadInv /\ FileInv /\ SlotInv
  BY DEF IInv
<1>2. PICK s, b : s = ServerOf(c) /\ b = BaseOf(c)
  OBVIOUS
<1> DEFINE Closes ==
             /\ b \in DOMAIN entries_fd_set[s]
             /\ entries_fd_set' = [entries_fd_set EXCEPT ![s] = Erase(@, b)]
             /\ cache_size' = [cache_size EXCEPT ![s] = Erase(@, b)]
           Leaves == entries_fd_set' = entries_fd_set /\ cache_size' = cache_size
<1>3. /\ cli[c].step = "close" /\ gsn' = gsn /\ files' = files
      /\ entry_size' = entry_size /\ strays' = strays /\ rd' = rd /\ Answer(c)
      /\ Closes \/ Leaves
  BY <1>2 DEF CloseFile, AtFile
<1>4. Busy(c) /\ s \in Servers /\ Complete(s, b)
  BY <1>1, <1>2, <1>3, BusyFacts DEF Busy, ThreadInv
<1>5. /\ DOMAIN entries_fd_set' = Servers /\ DOMAIN cache_size' = Servers
      /\ DOMAIN entry_size' = Servers /\ DOMAIN files' = Servers /\ DOMAIN strays' = Servers
      /\ \A t \in Servers : t # s => /\ entries_fd_set'[t] = entries_fd_set[t]
                                     /\ cache_size'[t] = cache_size[t]
      /\ Closes => /\ entries_fd_set'[s] = Erase(entries_fd_set[s], b)
                   /\ cache_size'[s] = Erase(cache_size[s], b)
  BY <1>1, <1>3, <1>4, Types
<1>6. Leaves => entries_fd_set' = entries_fd_set /\ cache_size' = cache_size
  OBVIOUS
<1> HIDE DEF Closes, Leaves
<1>7. Closes =>
        /\ DOMAIN entries_fd_set'[s] = DOMAIN entries_fd_set[s] \ {b}
        /\ DOMAIN cache_size'[s] = DOMAIN cache_size[s] \ {b}
        /\ \A a \in DOMAIN entries_fd_set[s] : a # b => entries_fd_set'[s][a] = entries_fd_set[s][a]
        /\ \A a \in DOMAIN cache_size[s] : a # b => cache_size'[s][a] = cache_size[s][a]
  BY <1>5 DEF Erase
<1>8. /\ TypeInv' /\ UniqueInv' /\ AckedInv'
      /\ \A d \in Clients : d # c => cli'[d] = cli[d]
      /\ cli'[c].step \in {"idle", "find"} /\ cli'[c].fd = 0
      /\ \A t \in Servers : Written(t)' = Written(t) /\ Counted(t)' = Counted(t)
  BY <1>3, <1>5, AnswerNumbers
<1>9. ASSUME NEW t \in Servers, t # s \/ Leaves PROVE FileOK(t)' /\ SlotsOK(t)'
  BY <1>3, <1>5, <1>6, <1>8, <1>9, ServerSame
<1>10. ASSUME Closes PROVE FileOK(s)' /\ SlotsOK(s)'
  <2>1. FileOK(s) /\ SlotsOK(s) /\ Written(s)' = Written(s) /\ Counted(s)' = Counted(s)
    BY <1>1, <1>4, <1>8 DEF FileInv, SlotInv
  <2>2. \A a : Complete(s, a)' <=> Complete(s, a)
    BY <2>1 DEF Complete, Stripe
  <2>3. \A a : In(Counted(s), a)' = In(Counted(s), a)
    BY <2>1 DEF In
  <2>4. IsFiniteSet(DOMAIN entries_fd_set'[s])
    BY <1>7, <1>10, <2>1, FS_RemoveElement DEF FileOK
  <2>5. FileOK(s)'
    BY <1>3, <1>4, <1>7, <1>10, <2>1, <2>2, <2>3, <2>4 DEF FileOK
  <2>6. SlotsOK(s)'
    BY <1>3, <2>1 DEF SlotsOK, In
  <2> QED
    BY <2>5, <2>6
<1>11. FileInv' /\ SlotInv'
  BY <1>3, <1>9, <1>10 DEF FileInv, SlotInv
<1>12. ThreadInv'
  <2>1. \A d \in Clients : d # c =>
           /\ cli'[d].step \in {"find", "create"} => cli'[d].fd = 0
           /\ cli'[d].step \in {"write", "count", "check", "close"} =>
                 BaseOf(d)' \in DOMAIN files'[ServerOf(d)']
           /\ cli'[d].step = "close" => Complete(ServerOf(d), BaseOf(d))'
    BY <1>3, <1>8, OtherThreads
  <2> QED
    BY <1>8, <2>1 DEF ThreadInv
<1>13. FdIsMine'
  <2>1. ASSUME NEW d \in Clients, d # c
        PROVE  cli'[d].step = "write" /\ cli'[d].fd # 0 =>
                  /\ BaseOf(d)' \in DOMAIN entries_fd_set'[ServerOf(d)']
                  /\ entries_fd_set'[ServerOf(d)'][BaseOf(d)'] = cli'[d].fd
    <3>1. ASSUME NEW t \in Servers, NEW a \in DOMAIN entries_fd_set[t],
                 t = ServerOf(d) /\ a = BaseOf(d) /\ cli[d].step = "write"
          PROVE  /\ a \in DOMAIN entries_fd_set'[t]
                 /\ entries_fd_set'[t][a] = entries_fd_set[t][a]
      <4>1. ~Complete(t, a)
        BY <3>1, NotClosed
      <4>2. t # s \/ a # b
        BY <1>4, <4>1
      <4> QED
        BY <1>3, <1>5, <1>6, <1>7, <4>2
    <3> QED
      BY <1>8, <2>1, <3>1, OtherFds
  <2> QED
    BY <1>8, <2>1 DEF FdIsMine
<1>14. ReadInv'
  BY <1>3, ReadSame
<1> QED
  BY <1>8, <1>11, <1>12, <1>13, <1>14 DEF IInv

-----------------------------------------------------------------------------
(* Reads *)

\* A read changes nothing but itself.
LEMMA ReadLeaves ==
    ASSUME IInv, UNCHANGED <<gsn, cli, serverVars, acked>>, ReadInv'
    PROVE  IInv'
<1>1. /\ gsn' = gsn /\ cli' = cli /\ acked' = acked /\ UNCHANGED serverVars
      /\ entries_fd_set' = entries_fd_set /\ cache_size' = cache_size
      /\ entry_size' = entry_size /\ files' = files /\ strays' = strays
  BY DEF serverVars
<1>2. \A s \in Servers : Written(s)' = Written(s) /\ Counted(s)' = Counted(s)
  BY <1>1 DEF Written, Counted, Past, Reached, Busy
<1>3. FileInv' /\ SlotInv'
  BY <1>1, <1>2, FilesSame
<1>4. TypeInv' /\ UniqueInv' /\ AckedInv'
  BY <1>1 DEF IInv, TypeInv, UniqueInv, AckedInv, Busy
<1>5. ThreadInv'
  <2>1. \A s, b : Complete(s, b)' <=> Complete(s, b)
    BY <1>1 DEF Complete, Stripe, Counted, Past, Reached, Busy
  <2> QED
    BY <1>1, <2>1 DEF IInv, ThreadInv, ServerOf, BaseOf
<1>6. FdIsMine'
  BY <1>1 DEF IInv, FdIsMine, ServerOf, BaseOf
<1> QED
  BY <1>3, <1>4, <1>5, <1>6 DEF IInv

\* The end of a read.
LEMMA PReadEnds ==
    ASSUME NEW slots, PRead(slots)
    PROVE  /\ rd'.step = "idle"
           /\ rd' = [step |-> rd'.step, idx |-> rd'.idx, written |-> rd'.written, ret |-> rd'.ret]
<1>1. PICK r : rd' = [NoRead EXCEPT !.ret = r]
  BY DEF PRead
<1> QED
  BY <1>1 DEF NoRead

\* A read that begins notes whether its entry is there.
LEMMA ReadEntryKeeps ==
    ASSUME IInv, ReadEntry
    PROVE  IInv'
<1>1. PICK i \in 0..(MaxGSN - 1) :
         rd' = [step |-> "look", idx |-> i, ret |-> "none",
                written |-> OnFile(Primary(i), i) /\ entry_size[Primary(i)]]
  BY DEF ReadEntry
<1>2. i \in Nat
  BY <1>1, CorfuAssumption
<1>3. UNCHANGED <<gsn, cli, serverVars, acked>> /\ files' = files /\ entry_size' = entry_size
  BY DEF ReadEntry, serverVars
<1>4. PICK s : s = Primary(i)
  OBVIOUS
<1>5. OnFile(s, i)' <=> OnFile(s, i)
  BY <1>3 DEF OnFile
<1>6. rd'.written = TRUE => OnFile(s, i)' /\ entry_size'[s] = TRUE
  BY <1>1, <1>3, <1>4, <1>5
<1>7. rd'.idx = i /\ Primary(rd'.idx) = s
  BY <1>1, <1>4
<1>8. ReadInv'
  <2>1. OnFile(Primary(rd.idx), rd.idx)' <=> OnFile(s, i)'
    BY <1>4, <1>7 DEF OnFile, Primary
  <2>2. entry_size'[Primary(rd.idx)'] = entry_size'[s]
    BY <1>4, <1>7 DEF Primary
  <2>3. rd' = [step |-> rd'.step, idx |-> rd'.idx, written |-> rd'.written, ret |-> rd'.ret]
    BY <1>1
  <2> QED
    BY <1>2, <1>6, <1>7, <2>1, <2>2, <2>3 DEF ReadInv
<1> QED
  BY <1>3, <1>8, ReadLeaves

\* A read of an open file ends, another one goes on to open it.
LEMMA LookKeeps ==
    ASSUME IInv, Look
    PROVE  IInv'
<1>1. UNCHANGED <<gsn, cli, serverVars, acked>> /\ files' = files /\ entry_size' = entry_size
  BY DEF Look, serverVars
<1>2. CASE Base(rd.idx) \in DOMAIN entries_fd_set[Primary(rd.idx)]
  <2>1. PRead(files[Primary(rd.idx)][Base(rd.idx)])
    BY <1>2 DEF Look
  <2>2. ReadInv'
    BY <2>1, PReadEnds DEF ReadInv
  <2> QED
    BY <1>1, <2>2, ReadLeaves
<1>3. CASE Base(rd.idx) \notin DOMAIN entries_fd_set[Primary(rd.idx)]
  <2>1. rd' = [rd EXCEPT !.step = "open"] /\ rd.step # "idle"
    BY <1>3 DEF Look
  <2>2. PICK i, s : i = rd.idx /\ s = Primary(i)
    OBVIOUS
  <2>3. /\ rd = [step |-> rd.step, idx |-> rd.idx, written |-> rd.written, ret |-> rd.ret]
        /\ i \in Nat /\ (rd.written = TRUE => OnFile(s, i) /\ entry_size[s] = TRUE)
    BY <2>1, <2>2 DEF IInv, ReadInv
  <2>4. /\ rd'.idx = i /\ rd'.written = rd.written
        /\ rd' = [step |-> rd'.step, idx |-> rd'.idx, written |-> rd'.written, ret |-> rd'.ret]
    BY <2>1, <2>2, <2>3
  <2>5. OnFile(s, i)' <=> OnFile(s, i)
    BY <1>1 DEF OnFile
  <2>6. OnFile(Primary(rd.idx), rd.idx)' <=> OnFile(s, i)'
    BY <2>2, <2>4 DEF OnFile, Primary
  <2>7. entry_size'[Primary(rd.idx)'] = entry_size'[s]
    BY <2>2, <2>4 DEF Primary
  <2>8. ReadInv'
    BY <1>1, <2>3, <2>4, <2>5, <2>6, <2>7 DEF ReadInv
  <2> QED
    BY <1>1, <2>8, ReadLeaves
<1> QED
  BY <1>2, <1>3

\* The read of a file that was not open ends.
LEMMA OpenClosedKeeps ==
    ASSUME IInv, OpenClosed
    PROVE  IInv'
<1>1. UNCHANGED <<gsn, cli, serverVars, acked>>
  BY DEF OpenClosed
<1>2. CASE Base(rd.idx) \in DOMAIN files[Primary(rd.idx)]
  <2>1. PRead(files[Primary(rd.idx)][Base(rd.idx)])
    BY <1>2 DEF OpenClosed
  <2>2. ReadInv'
    BY <2>1, PReadEnds DEF ReadInv
  <2> QED
    BY <1>1, <2>2, ReadLeaves
<1>3. CASE Base(rd.idx) \notin DOMAIN files[Primary(rd.idx)]
  <2>1. rd' = [NoRead EXCEPT !.ret = "noent"]
    BY <1>3 DEF OpenClosed
  <2>2. ReadInv'
    BY <2>1 DEF ReadInv, NoRead
  <2> QED
    BY <1>1, <2>2, ReadLeaves
<1> QED
  BY <1>2, <1>3

\* Steps that change nothing.
LEMMA StutterKeeps == IInv /\ UNCHANGED vars => IInv'
<1> SUFFICES ASSUME IInv, UNCHANGED vars PROVE IInv'
  OBVIOUS
<1>1. /\ UNCHANGED <<gsn, cli, serverVars, acked>>
      /\ rd' = rd /\ files' = files /\ entry_size' = entry_size
  BY DEF vars, serverVars
<1>2. ReadInv'
  BY <1>1, ReadSame
<1> QED
  BY <1>1, <1>2, ReadLeaves

\* Every step keeps the invariant.
LEMMA NextKeeps == IInv /\ [Next]_vars => IInv'
<1> SUFFICES ASSUME IInv, [Next]_vars PROVE IInv'
  OBVIOUS
<1>1. CASE UNCHANGED vars
  BY <1>1, StutterKeeps
<1>2. ASSUME NEW c \in Clients, GetGSN(c) PROVE IInv'
  BY <1>2, GetGSNKeeps
<1>3. ASSUME NEW c \in Clients, ThreadStep(c) PROVE IInv'
  <2>1. CASE FindFile(c)
    BY <2>1, FindFileKeeps
  <2>2. CASE CreateFile(c)
    BY <2>2, CreateFileKeeps
  <2>3. CASE PWrite(c)
    BY <2>3, PWriteKeeps
  <2>4. CASE CountEntry(c)
    BY <2>4, CountEntryKeeps
  <2>5. CASE NotFull(c)
    BY <2>5, NotFullKeeps
  <2>6. CASE Full(c)
    BY <2>6, FullKeeps
  <2>7. CASE CloseFile(c)
    BY <2>7, CloseFileKeeps
  <2> QED
    BY <1>3, <2>1, <2>2, <2>3, <2>4, <2>5, <2>6, <2>7 DEF ThreadStep
<1>4. CASE ReadEntry
  BY <1>4, ReadEntryKeeps
<1>5. CASE Look
  BY <1>5, LookKeeps
<1>6. CASE OpenClosed
  BY <1>6, OpenClosedKeeps
<1> QED
  BY <1>1, <1>2, <1>3, <1>4, <1>5, <1>6 DEF Next

-----------------------------------------------------------------------------
(* The theorems *)

\* The invariant holds in every reachable state.
THEOREM Invariance == Spec => []IInv
BY InitIInv, NextKeeps, PTL DEF Spec

\* addToEntryCacheAsync: a descriptor that a thread holds for its pwrite is
\* open and stands for the file of its stripe, although the lock under which
\* it was looked up is released before the write.
THEOREM FdIsMineThm == Spec => []FdIsMine
<1>1. IInv => FdIsMine
  BY DEF IInv
<1> QED
  BY Invariance, <1>1, PTL

\* AppendEntryAll: an append that has returned is in the file of its stripe on
\* every copy, unless its thread lost the race for the creation of the file.
THEOREM AckedIsWrittenThm == Spec => []AckedIsWritten
<1>1. IInv => AckedIsWritten
  <2> SUFFICES ASSUME IInv, NEW i \in acked, NEW k \in 1..Copies
               PROVE  OnFile(<<k, i % ShardNum>>, i) \/ i \in strays[<<k, i % ShardNum>>]
    BY DEF AckedIsWritten
  <2>1. i \in 0..(gsn - 1) /\ i \in Nat /\ \A c \in Clients : Busy(c) => cli[c].idx # i
    BY DEF IInv, AckedInv, TypeInv
  <2>2. PICK s : s = <<k, i % ShardNum>>
    OBVIOUS
  <2>3. s \in Servers /\ s[2] = i % ShardNum
    BY <2>1, <2>2, BaseFacts DEF Servers
  <2>4. i \in Written(s)
    BY <2>1, <2>3 DEF Written, Past
  <2>5. SlotsOK(s)
    BY <2>3 DEF IInv, SlotInv
  <2>6. OnFile(s, i) \/ i \in strays[s]
    BY <2>4, <2>5 DEF SlotsOK, OnFile, In
  <2> QED
    BY <2>2, <2>6
<1> QED
  BY Invariance, <1>1, PTL

\* The slots of a file are as many as the numbers that were written to it.
LEMMA SlotsCard ==
    ASSUME IInv, NEW s \in Servers, NEW b \in DOMAIN files[s]
    PROVE  /\ IsFiniteSet(In(Written(s) \ strays[s], b))
           /\ Cardinality(files[s][b]) = Cardinality(In(Written(s) \ strays[s], b))
<1> DEFINE S == In(Written(s) \ strays[s], b)
           T == files[s][b]
           f == [i \in S |-> Slot(i)]
<1>1. SlotsOK(s) /\ TypeInv
  BY DEF IInv, SlotInv
<1>2. T = {Slot(i) : i \in S}
  BY <1>1 DEF SlotsOK
<1>3. \A i \in S : i \in Nat /\ Base(i) = b /\ i % ShardNum = s[2]
  BY <1>1, PastFacts DEF Written, In
<1>4. IsFiniteSet(S)
  <2>1. IsFiniteSet(In(Written(s), b))
    BY <1>1, PastFacts DEF Written
  <2>2. S \subseteq In(Written(s), b)
    BY DEF In
  <2> QED
    BY <2>1, <2>2, FS_Subset
<1>5. f \in [S -> T]
  BY <1>2
<1>6. \A i, j \in S : f[i] = f[j] => i = j
  BY <1>3, SlotInjective
<1>7. \A n \in T : \E i \in S : f[i] = n
  BY <1>2
<1> HIDE DEF f, S, T
<1>8. f \in Surjection(S, T) /\ f \in Injection(S, T)
  BY <1>5, <1>6, <1>7 DEF Surjection, Injection, IsInjective
<1>9. IsFiniteSet(T)
  BY <1>4, <1>8, FS_Surjection
<1>10. Cardinality(T) = Cardinality(S)
  BY <1>4, <1>8, <1>9, FS_Injection
<1> QED
  BY <1>4, <1>10 DEF S, T

\* writeFromCacheToDisk: the thread that closes a file has seen the count of
\* all its entries, so that each of them has been written to it or went to
\* descriptor 0, and no thread comes to open, and so to cut, the file again.
THEOREM ClosedStaysClosedThm == Spec => []ClosedStaysClosed
<1>1. IInv => ClosedStaysClosed
  <2> SUFFICES ASSUME IInv, NEW s \in Servers, NEW b \in DOMAIN files[s],
                      b \notin DOMAIN entries_fd_set[s]
               PROVE  Cardinality(files[s][b]) + Cardinality({x \in strays[s] : Base(x) = b})
                         = StripeUnit
    BY DEF ClosedStaysClosed
  <2> DEFINE W == In(Written(s), b)
             F == In(Written(s) \ strays[s], b)
             D == {x \in strays[s] : Base(x) = b}
  <2>1. TypeInv /\ FileOK(s) /\ SlotsOK(s)
    BY DEF IInv, FileInv, SlotInv
  <2>2. b \in Nat /\ b % BigStripe = 0 /\ Complete(s, b)
    BY <2>1 DEF FileOK
  <2>3. W = Stripe(s, b)
    <3>1. ASSUME NEW i \in Stripe(s, b) PROVE i \in W
      <4>1. Base(i) = b
        BY <2>2, InStripe DEF Stripe
      <4>2. i \in Written(s)
        BY <2>2, CountedIsWritten DEF Complete
      <4> QED
        BY <4>1, <4>2 DEF In
    <3>2. ASSUME NEW i \in W PROVE i \in Stripe(s, b)
      <4>1. i \in Nat /\ i % ShardNum = s[2] /\ Base(i) = b
        BY <2>1, PastFacts DEF Written, In
      <4> QED
        BY <4>1, BaseFacts DEF Stripe
    <3> QED
      BY <3>1, <3>2
  <2>4. IsFiniteSet(W) /\ Cardinality(W) = StripeUnit
    BY <2>2, <2>3, StripeCard
  <2>5. W = F \cup D /\ F \cap D = {} /\ D \subseteq W
    BY <2>1 DEF SlotsOK, In
  <2>6. IsFiniteSet(F) /\ Cardinality(files[s][b]) = Cardinality(F)
    BY SlotsCard
  <2> HIDE DEF W, F, D
  <2>7. IsFiniteSet(D)
    BY <2>4, <2>5, FS_Subset
  <2>8. Cardinality(F \cup D) = Cardinality(F) + Cardinality(D)
    <3>1. Cardinality(F \cup D) = Cardinality(F) + Cardinality(D) - Cardinality(F \cap D)
      BY <2>6, <2>7, FS_Union
    <3>2. Cardinality(F \cap D) = 0
      BY <2>5, FS_EmptySet
    <3>3. Cardinality(F) \in Nat /\ Cardinality(D) \in Nat
      BY <2>6, <2>7, FS_CardinalityType
    <3> QED
      BY <3>1, <3>2, <3>3
  <2>9. Cardinality(files[s][b]) + Cardinality(D) = StripeUnit
    BY <2>4, <2>5, <2>6, <2>8
  <2> QED
    BY <2>9 DEF D
<1> QED
  BY Invariance, <1>1, PTL

\* A read finds the slot of an entry that was there when it began.
LEMMA PReadFinds ==
    ASSUME IInv, rd.step # "idle", rd.written = TRUE,
           PRead(files[Primary(rd.idx)][Base(rd.idx)])
    PROVE  rd'.ret = "entry"
<1>1. PICK i, s, n, slots : /\ i = rd.idx /\ s = Primary(i) /\ n = Slot(i)
                            /\ slots = files[s][Base(i)]
  OBVIOUS
<1>2. i \in Nat /\ n \in slots /\ entry_size[s] = TRUE
  BY <1>1 DEF IInv, ReadInv, OnFile
<1>3. n \in Nat
  BY <1>1, <1>2, BaseFacts
<1>4. ~(~entry_size[s] \/ \A m \in slots : m < n)
  BY <1>2, <1>3
<1>5. rd' = [NoRead EXCEPT !.ret = "entry"]
  BY <1>1, <1>2, <1>4 DEF PRead, ReadSlot
<1> QED
  BY <1>5 DEF NoRead

\* ReadEntryHandler: a read finds an entry that was in its file when it began,
\* whether the file is open, is closed, or is closed between the look for its
\* descriptor and the read.
THEOREM WrittenIsReadThm == Spec => WrittenIsRead
<1> DEFINE Finds == rd.step # "idle" /\ rd'.step = "idle" /\ rd.written => rd'.ret = "entry"
<1>1. IInv /\ [Next]_vars => [Finds]_rd
  <2> SUFFICES ASSUME IInv, [Next]_vars, rd' # rd, rd.step # "idle", rd'.step = "idle", rd.written = TRUE
               PROVE  rd'.ret = "entry"
    OBVIOUS
  <2>1. Look \/ OpenClosed
    BY DEF Next, ThreadStep, GetGSN, FindFile, CreateFile, PWrite, CountEntry, NotFull,
           Full, CloseFile, ReadEntry, vars
  <2>2. CASE Look
    <3>1. rd = [step |-> rd.step, idx |-> rd.idx, written |-> rd.written, ret |-> rd.ret]
      BY DEF IInv, ReadInv
    <3>2. rd' # [rd EXCEPT !.step = "open"]
      BY <3>1
    <3>3. PRead(files[Primary(rd.idx)][Base(rd.idx)])
      BY <2>2, <3>2 DEF Look
    <3> QED
      BY <3>3, PReadFinds
  <2>3. CASE OpenClosed
    <3>1. Base(rd.idx) \in DOMAIN files[Primary(rd.idx)]
      BY DEF IInv, ReadInv, OnFile
    <3>2. PRead(files[Primary(rd.idx)][Base(rd.idx)])
      BY <2>3, <3>1 DEF OpenClosed
    <3> QED
      BY <3>2, PReadFinds
  <2> QED
    BY <2>1, <2>2, <2>3
<1> QED
  BY Invariance, <1>1, PTL DEF Spec, WrittenIsRead

=============================================================================
