---------------------------- MODULE KVStoreProofs ---------------------------
(***************************************************************************)
(* Proofs about LazyLog and the key-value server on it, for every number   *)
(* of clients, backups and shards and every length of the log: nothing     *)
(* acknowledged is lost, the ordered tail covers stored entries only, the  *)
(* store is a replay of the log, and the system implements SharedLog.      *)
(***************************************************************************)
EXTENDS KVStore, TLAPS, FiniteSetTheorems, SequenceTheorems

-----------------------------------------------------------------------------
(* The inductive invariant *)

LogEntry == [client_id : Clients, client_seq : Nat, data : Data]
Call == [mode : {"none", "all", "quorum", "serial"}, data : Data \cup {"none"},
         unsent : SUBSET Replicas]
ClState == [step : {"fetch", "append", "delete", "announce"}, lo : Nat, hi : Nat,
            todo : SUBSET (Shards \cup Replicas)]

TypeOK ==
    /\ seq_ \in [Clients -> Nat]
    /\ call \in [Clients -> Call]
    /\ pending_reqs \in [Clients -> [Replicas -> Seq(Nat)]]
    /\ flight \in SUBSET (Replicas \X Clients)
    /\ complete \in SUBSET (Replicas \X Clients)
    /\ plog \in Seq(LogEntry)
    /\ ordered_idx_watermk \in Nat
    /\ held \in [Backups -> SUBSET LogEntry]
    /\ cl \in ClState
    /\ stored \in [Shards -> SUBSET Nat]
    /\ tail \in Nat /\ i \in Nat
    /\ delivered \in Seq(LogEntry)

\* A request is in flight or complete only during a call that has sent it.
CallInv ==
    \A c \in Clients :
        /\ call[c].mode = "none" => call[c] = NoCall
        /\ call[c] # NoCall => seq_[c] >= 1 /\ call[c].data \in Data
        /\ \A r \in Replicas :
              /\ <<r, c>> \in flight =>
                    call[c] # NoCall /\ r \notin call[c].unsent /\ <<r, c>> \notin complete
              /\ <<r, c>> \in complete => call[c] # NoCall /\ r \notin call[c].unsent

\* The entries of a client lie in the log in the order of their client_seq,
\* none missing; the entry of a call is there once the primary has answered.
EarlierPlaced(c) ==
    \A n \in 0..(seq_[c] - 1) :
        \/ n = seq_[c] - 1 /\ call[c] # NoCall
        \/ \E k \in 1..Len(plog) : plog[k].client_id = c /\ plog[k].client_seq = n

NewestIsCurrent(c) ==
    \A k \in 1..Len(plog) :
        plog[k].client_id = c =>
            /\ plog[k].client_seq < seq_[c]
            /\ call[c] # NoCall /\ plog[k].client_seq = seq_[c] - 1 =>
                  plog[k] = Current(c) /\ <<Primary, c>> \in complete

PlaceInv ==
    \A c \in Clients :
        /\ EarlierPlaced(c)
        /\ <<Primary, c>> \in complete => Placed(c)
        /\ NewestIsCurrent(c)

LogInv ==
    /\ \A k \in 1..Len(plog) : plog[k].client_seq < k
    /\ \A k, l \in 1..Len(plog) :
          k < l /\ plog[k].client_id = plog[l].client_id =>
              plog[k].client_seq < plog[l].client_seq

IsStored(j) == j \in stored[ShardOf(j)]

\* The loop of the consensus log: what it deletes and announces is stored.
ClInv ==
    /\ ordered_idx_watermk <= Len(plog)
    /\ \A j \in 0..(ordered_idx_watermk - 1) : IsStored(j)
    /\ cl.step # "fetch" => cl.lo <= cl.hi /\ cl.hi <= Len(plog)
    /\ cl.step = "append" =>
          /\ ordered_idx_watermk = cl.lo
          /\ \A j \in cl.lo..(cl.hi - 1) : ShardOf(j) \in cl.todo \/ IsStored(j)
    /\ cl.step \in {"delete", "announce"} => \A j \in cl.lo..(cl.hi - 1) : IsStored(j)
    /\ cl.step = "delete" =>
          ordered_idx_watermk = IF Primary \in cl.todo THEN cl.lo ELSE cl.hi
    /\ cl.step = "announce" => ordered_idx_watermk = cl.hi

\* The backup has not answered the call that appends e.
Unanswered(e, b) ==
    /\ call[e.client_id] # NoCall
    /\ e.client_seq = seq_[e.client_id] - 1
    /\ <<b, e.client_id>> \notin complete

\* What a backup has answered it holds until a shard has stored it (the first
\* entry of a client apart), whether the primary has placed it or not.
PlacedIsHeld(b) ==
    \A k \in 1..Len(plog) :
        plog[k].client_seq >= 1 /\ ~Unanswered(plog[k], b) =>
            k - 1 \in Storage \/ plog[k] \in held[b]

HeldInv ==
    \A b \in Backups :
        /\ PlacedIsHeld(b)
        /\ \A c \in Clients :
              <<b, c>> \in complete /\ seq_[c] >= 2 => Placed(c) \/ Current(c) \in held[b]

\* A token that an earlier quorum call left behind is at the front.
QueueInv(q, c) ==
    /\ Len(q) <= IF call[c].mode = "quorum" THEN 2 ELSE 1
    /\ \A n \in 1..Len(q) : q[n] < seq_[c]
    /\ Len(q) = 2 => q[1] < seq_[c] - 1

PendingInv == \A c \in Clients, r \in Replicas : QueueInv(pending_reqs[c][r], c)

\* The playlog thread has read the first i entries of the log.
PlayInv ==
    /\ i <= tail /\ tail <= ordered_idx_watermk
    /\ Len(delivered) = i
    /\ \A j \in 1..i : delivered[j] = plog[j]

IInv == /\ TypeOK /\ CallInv /\ PlaceInv /\ LogInv /\ ClInv /\ HeldInv
        /\ PendingInv /\ PlayInv /\ StoreIsReplay

-----------------------------------------------------------------------------
(* Facts about the operators *)

USE LazyLogAssumption

\* The shard of an index is one of the shards.
LEMMA ShardType == \A j \in Nat : ShardOf(j) \in Shards
BY DEF ShardOf, Shards

\* A quorum is all replicas.
LEMMA QuorumIsAll ==
    ASSUME NEW c \in Clients, complete \in SUBSET (Replicas \X Clients), quorumCompleted(c)
    PROVE  \A r \in Replicas : <<r, c>> \in complete
<1> DEFINE all == Replicas \X {c}
           f == [r \in Replicas |-> <<r, c>>]
<1>1. IsFiniteSet(Replicas)
  BY FS_AddElement DEF Replicas
<1>2. f \in Surjection(Replicas, all)
  BY DEF Surjection
<1>3. IsFiniteSet(all) /\ Cardinality(all) <= Cardinality(Replicas)
  BY <1>1, <1>2, FS_Surjection
<1>4. complete \cap all \in SUBSET all
  OBVIOUS
<1>5. Cardinality(complete \cap all) \in Nat /\ Cardinality(all) \in Nat /\ Cardinality(Replicas) \in Nat
  BY <1>1, <1>3, <1>4, FS_Subset, FS_CardinalityType
<1>6. Cardinality(complete \cap all) <= Cardinality(all)
  BY <1>3, <1>4, FS_Subset
<1>7. Cardinality(complete \cap all) >= Cardinality(Replicas)
  BY DEF quorumCompleted, maj_threshold
<1>8. complete \cap all = all
  BY <1>3, <1>4, <1>5, <1>6, <1>7, FS_Subset
<1> QED
  BY <1>8

\* The current entry of a client that has a call under way.
LEMMA CurrentType ==
    ASSUME TypeOK, CallInv, NEW c \in Clients, call[c] # NoCall
    PROVE  /\ Current(c) \in LogEntry
           /\ Current(c).client_id = c
           /\ Current(c).client_seq = seq_[c] - 1
BY DEF TypeOK, CallInv, Current, LogEntry

\* What a log of entries looks like after an append.
LEMMA LogAppend ==
    ASSUME NEW s \in Seq(LogEntry), NEW e \in LogEntry
    PROVE  /\ Append(s, e) \in Seq(LogEntry)
           /\ Len(Append(s, e)) = Len(s) + 1
           /\ \A k \in 1..Len(s) : Append(s, e)[k] = s[k]
           /\ Append(s, e)[Len(s) + 1] = e
           /\ \A k \in 1..Len(s) : s[k] \in LogEntry
           /\ Len(s) \in Nat /\ DOMAIN s = 1..Len(s)
BY AppendProperties, ElementOfSeq, LenProperties

\* The same of a queue of tokens.
LEMMA TokenAppend ==
    ASSUME NEW q \in Seq(Nat), NEW t \in Nat
    PROVE  /\ Append(q, t) \in Seq(Nat)
           /\ Len(Append(q, t)) = Len(q) + 1
           /\ \A k \in 1..Len(q) : Append(q, t)[k] = q[k]
           /\ Append(q, t)[Len(q) + 1] = t
           /\ \A k \in 1..Len(q) : q[k] \in Nat
           /\ Len(q) \in Nat
BY AppendProperties, ElementOfSeq, LenProperties

-----------------------------------------------------------------------------
(* The initial states *)

\* Before any client or the application has done anything the invariant holds.
LEMMA InitIInv == KVInit => IInv
<1> SUFFICES ASSUME KVInit PROVE IInv
  OBVIOUS
<1> USE DEF KVInit, Init
<1>1. <<>> \in Seq(LogEntry) /\ <<>> \in Seq(Nat) /\ Len(<<>>) = 0
  BY EmptySeq
<1>2. TypeOK
  BY <1>1 DEF TypeOK, NoCall, Call, ClIdle, ClState
<1>3. CallInv /\ PlaceInv /\ LogInv
  BY <1>1, <1>2 DEF CallInv, PlaceInv, EarlierPlaced, NewestIsCurrent, LogInv, TypeOK
<1>4. ClInv /\ HeldInv
  BY <1>1 DEF ClInv, HeldInv, PlacedIsHeld, ClIdle
<1>5. PendingInv
  BY <1>1 DEF PendingInv, QueueInv
<1>6. PlayInv /\ StoreIsReplay
  BY <1>1 DEF PlayInv, StoreIsReplay
<1> QED
  BY <1>2, <1>3, <1>4, <1>5, <1>6 DEF IInv

-----------------------------------------------------------------------------
(* Steps of one client leave what concerns the others alone *)

\* What the invariant says of a client depends on its own call and on the log.
LEMMA OtherClients ==
    ASSUME IInv, NEW c \in Clients, plog' = plog,
           call'[c] = call[c], seq_'[c] = seq_[c],
           \A r \in Replicas : <<r, c>> \in complete' <=> <<r, c>> \in complete
    PROVE  /\ Current(c)' = Current(c) /\ Placed(c)' = Placed(c)
           /\ EarlierPlaced(c)'
           /\ <<Primary, c>> \in complete' => Placed(c)'
           /\ NewestIsCurrent(c)'
<1>1. Current(c)' = Current(c)
  BY DEF Current
<1>2. Placed(c)' = Placed(c)
  BY <1>1 DEF Placed
<1>3. Primary \in Replicas
  BY DEF Replicas
<1>4. PlaceInv
  BY DEF IInv
<1>5. EarlierPlaced(c)'
  BY <1>4 DEF PlaceInv, EarlierPlaced
<1>6. NewestIsCurrent(c)'
  BY <1>1, <1>3, <1>4 DEF PlaceInv, NewestIsCurrent
<1>7. <<Primary, c>> \in complete' => Placed(c)'
  BY <1>2, <1>3, <1>4 DEF PlaceInv
<1> QED
  BY <1>1, <1>2, <1>5, <1>6, <1>7

\* The types of the entries of the log and of the calls, one by one.
LEMMA Types ==
    ASSUME IInv
    PROVE  /\ Len(plog) \in Nat /\ DOMAIN plog = 1..Len(plog)
           /\ \A k \in 1..Len(plog) :
                 /\ plog[k] \in LogEntry
                 /\ plog[k].client_id \in Clients /\ plog[k].client_seq \in Nat
                 /\ plog[k].data \in Data
           /\ \A c \in Clients : seq_[c] \in Nat /\ call[c] \in Call
           /\ \A c \in Clients, r \in Replicas : pending_reqs[c][r] \in Seq(Nat)
<1>1. plog \in Seq(LogEntry)
  BY DEF IInv, TypeOK
<1>2. Len(plog) \in Nat /\ DOMAIN plog = 1..Len(plog) /\ \A k \in 1..Len(plog) : plog[k] \in LogEntry
  BY <1>1, ElementOfSeq, LenProperties
<1>3. \A e \in LogEntry : e.client_id \in Clients /\ e.client_seq \in Nat /\ e.data \in Data
  BY DEF LogEntry
<1>4. /\ \A c \in Clients : seq_[c] \in Nat /\ call[c] \in Call
      /\ \A c \in Clients, r \in Replicas : pending_reqs[c][r] \in Seq(Nat)
  BY DEF IInv, TypeOK
<1> QED
  BY <1>2, <1>3, <1>4

\* The part of the invariant that no step of a client touches.
LEMMA OtherParts ==
    ASSUME IInv, UNCHANGED <<logVars, cl, shardVars, kvVars>>
    PROVE  LogInv' /\ ClInv' /\ PlayInv' /\ StoreIsReplay'
BY DEF IInv, LogInv, ClInv, PlayInv, StoreIsReplay, IsStored, logVars, shardVars, kvVars

-----------------------------------------------------------------------------
(* The calls of clients *)

\* What a call that starts does, client by client.
LEMMA StartEffect ==
    ASSUME IInv, NEW c \in Clients, NEW mode \in {"all", "quorum", "serial"}, NEW d \in Data,
           NEW to \in SUBSET Replicas, Start(c, mode, d, to)
    PROVE  /\ call[c] = NoCall /\ call'[c] # NoCall
           /\ seq_[c] \in Nat /\ seq_'[c] = seq_[c] + 1
           /\ call'[c] = [mode |-> mode, data |-> d, unsent |-> Replicas \ to]
           /\ \A r \in Replicas : <<r, c>> \notin complete /\ <<r, c>> \notin flight
           /\ \A r \in Replicas : <<r, c>> \in flight' <=> r \in to
           /\ complete' = complete /\ plog' = plog
           /\ UNCHANGED <<logVars, cl, shardVars>>
           /\ \A b \in Clients \ {c} :
                 /\ call'[b] = call[b] /\ seq_'[b] = seq_[b]
                 /\ \A r \in Replicas : <<r, b>> \in flight' <=> <<r, b>> \in flight
<1>1. call \in [Clients -> Call] /\ seq_ \in [Clients -> Nat] /\ CallInv
  BY DEF IInv, TypeOK
<1>2. \A r \in Replicas : <<r, c>> \notin complete /\ <<r, c>> \notin flight
  BY <1>1 DEF Start, CallInv
<1>3. \A b \in Clients, r \in Replicas :
        <<r, b>> \in flight' <=> <<r, b>> \in flight \/ (b = c /\ r \in to)
  BY DEF Start
<1> QED
  BY <1>1, <1>2, <1>3 DEF Start, NoCall, logVars

\* A client starts a call: the new entry has a number of its own, nothing of
\* the call has been answered, and the queues have room for its tokens.
LEMMA StartStep ==
    ASSUME IInv, NEW c \in Clients, NEW mode \in {"all", "quorum", "serial"}, NEW d \in Data,
           NEW to \in SUBSET Replicas, Start(c, mode, d, to), UNCHANGED kvVars,
           pending_reqs' = IF mode = "quorum"
                           THEN [pending_reqs EXCEPT
                                   ![c] = [r \in Replicas |-> Append(@[r], seq_[c])]]
                           ELSE pending_reqs
    PROVE  IInv'
<1>e. /\ call[c] = NoCall /\ call'[c] # NoCall
      /\ seq_[c] \in Nat /\ seq_'[c] = seq_[c] + 1
      /\ call'[c] = [mode |-> mode, data |-> d, unsent |-> Replicas \ to]
      /\ \A r \in Replicas : <<r, c>> \notin complete /\ <<r, c>> \notin flight
      /\ \A r \in Replicas : <<r, c>> \in flight' <=> r \in to
      /\ complete' = complete /\ plog' = plog
      /\ UNCHANGED <<logVars, cl, shardVars>>
      /\ \A b \in Clients \ {c} :
            /\ call'[b] = call[b] /\ seq_'[b] = seq_[b]
            /\ \A r \in Replicas : <<r, b>> \in flight' <=> <<r, b>> \in flight
  BY StartEffect
<1>o. \A b \in Clients \ {c} :
        /\ call'[b] = call[b] /\ seq_'[b] = seq_[b]
        /\ \A r \in Replicas : <<r, b>> \in flight' <=> <<r, b>> \in flight
  BY <1>e
<1>q. \A r \in Replicas :
        /\ pending_reqs'[c][r] = IF mode = "quorum" THEN Append(pending_reqs[c][r], seq_[c])
                                 ELSE pending_reqs[c][r]
        /\ \A b \in Clients \ {c} : pending_reqs'[b][r] = pending_reqs[b][r]
  <2>1. pending_reqs \in [Clients -> [Replicas -> Seq(Nat)]]
    BY DEF IInv, TypeOK
  <2>2. CASE mode = "quorum"
    <3>1. pending_reqs' = [pending_reqs EXCEPT
                             ![c] = [r \in Replicas |-> Append(pending_reqs[c][r], seq_[c])]]
      BY <2>2
    <3> QED
      BY <2>1, <2>2, <3>1
  <2>3. CASE mode # "quorum"
    BY <2>3
  <2> QED
    BY <2>2, <2>3
<1>b. \A b \in Backups : b \in Replicas
  BY DEF Replicas
<1>1. TypeOK'
  <2>1. [mode |-> mode, data |-> d, unsent |-> Replicas \ to] \in Call
    BY DEF Call
  <2>2. call' \in [Clients -> Call] /\ seq_' \in [Clients -> Nat]
    BY <2>1 DEF IInv, TypeOK, Start
  <2>3. flight' \in SUBSET (Replicas \X Clients)
    BY DEF IInv, TypeOK, Start
  <2>4. pending_reqs' \in [Clients -> [Replicas -> Seq(Nat)]]
    <3>1. \A r \in Replicas : Append(pending_reqs[c][r], seq_[c]) \in Seq(Nat)
      BY <1>e, Types
    <3> QED
      BY <3>1 DEF IInv, TypeOK
  <2> QED
    BY <2>2, <2>3, <2>4, <1>e DEF IInv, TypeOK, logVars, shardVars, kvVars
<1>2. CallInv'
  <2> SUFFICES ASSUME NEW b \in Clients PROVE CallInv!(b)'
    BY DEF CallInv
  <2>1. CASE b # c
    BY <2>1, <1>o, <1>e DEF IInv, CallInv
  <2>2. CASE b = c
    BY <2>2, <1>e DEF NoCall
  <2> QED
    BY <2>1, <2>2
<1>3. PlaceInv'
  <2>1. \A b \in Clients \ {c} :
          /\ EarlierPlaced(b)' /\ NewestIsCurrent(b)'
          /\ <<Primary, b>> \in complete' => Placed(b)'
    BY <1>e, <1>o, OtherClients
  <2>2. EarlierPlaced(c)'
    <3>1. EarlierPlaced(c)
      BY DEF IInv, PlaceInv
    <3>e. /\ call[c] = NoCall /\ call'[c] # NoCall /\ plog' = plog
          /\ seq_[c] \in Nat /\ seq_'[c] - 1 = seq_[c]
      BY <1>e
    <3> SUFFICES ASSUME NEW n \in 0..seq_[c], n # seq_[c]
                 PROVE  \E k \in 1..Len(plog) : plog[k].client_id = c /\ plog[k].client_seq = n
      BY <3>e DEF EarlierPlaced
    <3>2. n \in 0..(seq_[c] - 1)
      BY <1>e
    <3> QED
      BY <3>e, <3>1, <3>2 DEF EarlierPlaced
  <2>3. NewestIsCurrent(c)'
    <3>1. NewestIsCurrent(c)
      BY DEF IInv, PlaceInv
    <3> SUFFICES ASSUME NEW k \in 1..Len(plog), plog[k].client_id = c
                 PROVE  plog[k].client_seq < seq_[c] + 1 /\ plog[k].client_seq # seq_[c]
      BY <1>e DEF NewestIsCurrent
    <3>2. plog[k].client_seq \in Nat
      BY Types
    <3>3. plog[k].client_seq < seq_[c]
      BY <3>1 DEF NewestIsCurrent
    <3> QED
      BY <1>e, <3>2, <3>3
  <2>4. <<Primary, c>> \notin complete'
    BY <1>e DEF Replicas
  <2> QED
    BY <2>1, <2>2, <2>3, <2>4 DEF PlaceInv
<1>4. LogInv' /\ ClInv' /\ PlayInv' /\ StoreIsReplay'
  BY <1>e, OtherParts
<1>5. HeldInv'
  <2>1. held' = held /\ Storage' = Storage
    BY <1>e DEF logVars, shardVars, Storage
  <2> SUFFICES ASSUME NEW b \in Backups
               PROVE  /\ PlacedIsHeld(b)'
                      /\ \A a \in Clients : <<b, a>> \in complete' /\ seq_'[a] >= 2 =>
                              Placed(a)' \/ Current(a)' \in held[b]
    BY <2>1 DEF HeldInv
  <2>2. ASSUME NEW k \in 1..Len(plog), ~Unanswered(plog[k], b)'
        PROVE  ~Unanswered(plog[k], b)
    BY <2>2, <1>b, <1>e, <1>o, Types DEF Unanswered
  <2>3. PlacedIsHeld(b)
    BY DEF IInv, HeldInv
  <2>4. PlacedIsHeld(b)'
    BY <1>e, <2>1, <2>2, <2>3 DEF PlacedIsHeld, Unanswered
  <2>5. ASSUME NEW a \in Clients, <<b, a>> \in complete', seq_'[a] >= 2
        PROVE  Placed(a)' \/ Current(a)' \in held[b]
    <3>1. a # c
      BY <2>5, <1>b, <1>e
    <3>2. Placed(a)' = Placed(a) /\ Current(a)' = Current(a)
      BY <3>1, <1>e, <1>o, OtherClients
    <3> QED
      BY <2>5, <3>1, <3>2, <1>e, <1>o DEF IInv, HeldInv
  <2> QED
    BY <2>4, <2>5
<1>6. PendingInv'
  <2> SUFFICES ASSUME NEW b \in Clients, NEW r \in Replicas
               PROVE  QueueInv(pending_reqs[b][r], b)'
    BY DEF PendingInv
  <2>0. QueueInv(pending_reqs[b][r], b)
    BY DEF IInv, PendingInv
  <2>1. CASE b # c
    BY <2>0, <2>1, <1>o, <1>q DEF QueueInv
  <2>2. CASE b = c
    <3> DEFINE q == pending_reqs[c][r]
    <3>1. q \in Seq(Nat) /\ Len(q) <= 1 /\ \A n \in 1..Len(q) : q[n] < seq_[c]
      BY <2>0, <2>2, <1>e, Types DEF QueueInv, NoCall
    <3>2. pending_reqs'[c][r] = IF mode = "quorum" THEN Append(q, seq_[c]) ELSE q
      BY <1>q
    <3>3. call'[c].mode = mode
      BY <1>e
    <3> HIDE DEF q
    <3>4. CASE mode = "quorum"
      <4> DEFINE p == Append(q, seq_[c])
      <4>1. /\ Len(p) = Len(q) + 1 /\ p[Len(q) + 1] = seq_[c]
            /\ \A n \in 1..Len(q) : p[n] = q[n]
            /\ Len(q) \in Nat /\ \A n \in 1..Len(q) : q[n] \in Nat
        BY <3>1, <1>e, TokenAppend
      <4>2. pending_reqs'[b][r] = p
        BY <3>2, <3>4, <2>2
      <4> HIDE DEF p
      <4>3. Len(p) <= 2 /\ \A n \in 1..Len(p) : p[n] < seq_[c] + 1
        <5> SUFFICES ASSUME NEW n \in 1..Len(p) PROVE p[n] < seq_[c] + 1
          BY <4>1, <3>1
        <5>1. CASE n \in 1..Len(q)
          BY <4>1, <3>1, <1>e, <5>1
        <5>2. CASE n = Len(q) + 1
          BY <4>1, <1>e, <5>2
        <5> QED
          BY <5>1, <5>2, <4>1
      <4>4. ASSUME Len(p) = 2 PROVE p[1] < seq_[c]
        <5>1. 1 \in 1..Len(q)
          BY <4>1, <4>4
        <5> QED
          BY <4>1, <3>1, <5>1
      <4>5. Len(p) = 2 => p[1] < seq_'[c] - 1
        BY <4>4, <1>e
      <4>6. Len(p) <= 2 /\ \A n \in 1..Len(p) : p[n] < seq_'[c]
        BY <4>3, <1>e
      <4>7. call'[c].mode = "quorum"
        BY <3>3, <3>4
      <4> QED
        BY <4>2, <4>5, <4>6, <4>7, <2>2 DEF QueueInv
    <3>5. CASE mode # "quorum"
      BY <3>1, <3>2, <3>3, <3>5, <2>2, <1>e DEF QueueInv
    <3> QED
      BY <3>4, <3>5
  <2> QED
    BY <2>1, <2>2
<1> QED
  BY <1>1, <1>2, <1>3, <1>4, <1>5, <1>6 DEF IInv

\* InsertHandler: whichever append function the client uses.
LEMMA InsertStep ==
    ASSUME IInv, NEW c \in Clients, Insert(c)
    PROVE  IInv'
<1>1. UNCHANGED kvVars
  BY DEF Insert
<1>2. PICK d \in Data : AppendEntryAll(c, d) \/ AppendEntryQuorum(c, d) \/ AppendEntry(c, d)
  BY DEF Insert
<1>3. CASE AppendEntryAll(c, d)
  <2>1. Start(c, "all", d, Replicas) /\ pending_reqs' = pending_reqs
    BY <1>3 DEF AppendEntryAll
  <2> QED
    BY <1>1, <2>1, StartStep
<1>4. CASE AppendEntryQuorum(c, d)
  <2>1. /\ Start(c, "quorum", d, Replicas)
        /\ pending_reqs' = [pending_reqs EXCEPT
                              ![c] = [r \in Replicas |-> Append(@[r], seq_[c])]]
    BY <1>4 DEF AppendEntryQuorum
  <2> QED
    BY <1>1, <2>1, StartStep
<1>5. CASE AppendEntry(c, d)
  <2>1. PICK r \in Replicas : Start(c, "serial", d, {r})
    BY <1>5 DEF AppendEntry
  <2>2. {r} \in SUBSET Replicas /\ pending_reqs' = pending_reqs
    BY <1>5 DEF AppendEntry
  <2> QED
    BY <1>1, <2>1, <2>2, StartStep
<1> QED
  BY <1>2, <1>3, <1>4, <1>5

\* Steps that change neither the log, the calls' entries nor the answers keep
\* what is said of entries, if nothing that is held or stored is dropped.
LEMMA SameEntries ==
    ASSUME IInv, seq_' = seq_, complete' = complete, plog' = plog, held' = held,
           \A s \in Shards : stored[s] \subseteq stored'[s],
           \A c \in Clients : /\ call'[c] = NoCall <=> call[c] = NoCall
                              /\ call'[c].data = call[c].data
    PROVE  PlaceInv' /\ LogInv' /\ HeldInv'
<1>1. \A c \in Clients : Current(c)' = Current(c)
  BY DEF Current
<1>2. \A c \in Clients : Placed(c)' = Placed(c)
  BY <1>1 DEF Placed
<1>3. PlaceInv /\ LogInv /\ HeldInv
  BY DEF IInv
<1>4. ASSUME NEW c \in Clients PROVE EarlierPlaced(c)'
  <2>1. EarlierPlaced(c)
    BY <1>3 DEF PlaceInv
  <2>2. call'[c] = NoCall <=> call[c] = NoCall
    OBVIOUS
  <2> QED
    BY <2>1, <2>2 DEF EarlierPlaced
<1>5. \A c \in Clients : NewestIsCurrent(c)'
  BY <1>1, <1>3 DEF PlaceInv, NewestIsCurrent
<1>6. PlaceInv'
  BY <1>2, <1>3, <1>4, <1>5 DEF PlaceInv
<1>7. Storage \subseteq Storage'
  BY DEF Storage
<1>8. ASSUME NEW b \in Backups PROVE PlacedIsHeld(b)'
  <2>1. PlacedIsHeld(b)
    BY <1>3 DEF HeldInv
  <2>2. ASSUME NEW k \in 1..Len(plog) PROVE Unanswered(plog[k], b)' <=> Unanswered(plog[k], b)
    <3>1. plog[k].client_id \in Clients
      BY Types
    <3>2. call'[plog[k].client_id] = NoCall <=> call[plog[k].client_id] = NoCall
      BY <3>1
    <3> QED
      BY <3>2 DEF Unanswered
  <2> QED
    BY <1>7, <2>1, <2>2 DEF PlacedIsHeld
<1>9. HeldInv'
  BY <1>1, <1>2, <1>3, <1>8 DEF HeldInv
<1> QED
  BY <1>3, <1>6, <1>9 DEF LogInv

\* AppendEntry goes on to its next replica.
LEMMA AppendToNextStep ==
    ASSUME IInv, NEW c \in Clients, AppendToNext(c), UNCHANGED kvVars
    PROVE  IInv'
<1>1. PICK r \in call[c].unsent : /\ flight' = flight \cup {<<r, c>>}
                                  /\ call' = [call EXCEPT ![c].unsent = @ \ {r}]
  BY DEF AppendToNext
<1>2. /\ call[c].mode = "serial"
      /\ UNCHANGED <<seq_, pending_reqs, complete, logVars, cl, shardVars>>
  BY DEF AppendToNext
<1>3. call \in [Clients -> Call] /\ flight \in SUBSET (Replicas \X Clients) /\ CallInv
  BY DEF IInv, TypeOK
<1>4. call[c] \in Call /\ r \in Replicas
  BY <1>3 DEF Call
<1>5. /\ call'[c].mode = "serial" /\ call'[c].data = call[c].data
      /\ call'[c].unsent = call[c].unsent \ {r}
      /\ call' \in [Clients -> Call]
      /\ \A b \in Clients \ {c} : call'[b] = call[b]
  BY <1>1, <1>2, <1>3, <1>4 DEF Call
<1>6. call[c] # NoCall /\ call'[c] # NoCall
  BY <1>2, <1>5 DEF NoCall
<1>7. TypeOK'
  BY <1>1, <1>2, <1>3, <1>4, <1>5 DEF IInv, TypeOK, logVars, shardVars, kvVars
<1>8. CallInv'
  <2> SUFFICES ASSUME NEW b \in Clients PROVE CallInv!(b)'
    BY DEF CallInv
  <2>1. CASE b # c
    BY <2>1, <1>1, <1>2, <1>3, <1>5 DEF CallInv
  <2>2. CASE b = c
    <3>1. seq_[c] >= 1 /\ call[c].data \in Data
      BY <1>3, <1>6 DEF CallInv
    <3>2. ASSUME NEW q \in Replicas, <<q, c>> \in flight'
          PROVE  q \notin call'[c].unsent /\ <<q, c>> \notin complete
      <4>1. CASE q = r
        BY <4>1, <1>3, <1>5 DEF CallInv
      <4>2. CASE q # r
        BY <4>2, <3>2, <1>1, <1>3, <1>5 DEF CallInv
      <4> QED
        BY <4>1, <4>2
    <3>3. ASSUME NEW q \in Replicas, <<q, c>> \in complete
          PROVE  q \notin call'[c].unsent
      BY <3>3, <1>3, <1>5 DEF CallInv
    <3> QED
      BY <2>2, <1>2, <1>5, <1>6, <3>1, <3>2, <3>3
  <2> QED
    BY <2>1, <2>2
<1>9. PlaceInv' /\ HeldInv'
  <2>1. \A b \in Clients : /\ call'[b] = NoCall <=> call[b] = NoCall
                           /\ call'[b].data = call[b].data
    BY <1>5, <1>6
  <2> QED
    BY <1>2, <2>1, SameEntries DEF logVars, shardVars
<1>10. LogInv' /\ ClInv' /\ PlayInv' /\ StoreIsReplay'
  BY <1>2, OtherParts
<1>11. PendingInv'
  <2>1. \A b \in Clients : call'[b].mode = call[b].mode
    BY <1>2, <1>5
  <2> QED
    BY <1>2, <2>1 DEF IInv, PendingInv, QueueInv
<1> QED
  BY <1>7, <1>8, <1>9, <1>10, <1>11 DEF IInv

\* A call returns once every replica has answered it: from then on its entry
\* is one of those that have to be kept.
LEMMA ReturnParts ==
    ASSUME IInv, NEW c \in Clients, call[c] # NoCall,
           \A r \in Replicas : <<r, c>> \in complete, Return(c),
           UNCHANGED <<seq_, flight, logVars, cl, shardVars>>
    PROVE  /\ CallInv' /\ PlaceInv' /\ HeldInv'
           /\ call' \in [Clients -> Call] /\ call'[c] = NoCall
           /\ \A a \in Clients \ {c} : call'[a] = call[a]
           /\ complete' \in SUBSET (Replicas \X Clients)
<1>1. call \in [Clients -> Call] /\ complete \in SUBSET (Replicas \X Clients) /\ NoCall \in Call
  BY DEF IInv, TypeOK, NoCall, Call
<1>2. /\ call' \in [Clients -> Call] /\ call'[c] = NoCall
      /\ \A a \in Clients \ {c} : call'[a] = call[a]
  BY <1>1 DEF Return
<1>3. /\ complete' \in SUBSET (Replicas \X Clients)
      /\ \A r \in Replicas : <<r, c>> \notin complete'
      /\ \A a \in Clients \ {c}, r \in Replicas : <<r, a>> \in complete' <=> <<r, a>> \in complete
  BY <1>1 DEF Return
<1>4. plog' = plog /\ held' = held /\ stored' = stored
  BY DEF logVars, shardVars
<1>5. Primary \in Replicas /\ \A b \in Backups : b \in Replicas
  BY DEF Replicas
<1>6. CallInv /\ PlaceInv /\ HeldInv
  BY DEF IInv
<1>7. \A r \in Replicas : <<r, c>> \notin flight
  BY <1>6 DEF CallInv
<1>8. CallInv'
  <2> SUFFICES ASSUME NEW a \in Clients PROVE CallInv!(a)'
    BY DEF CallInv
  <2>1. CASE a # c
    BY <2>1, <1>2, <1>3, <1>6 DEF CallInv
  <2>2. CASE a = c
    BY <2>2, <1>2, <1>3, <1>7 DEF CallInv
  <2> QED
    BY <2>1, <2>2
<1>9. \A a \in Clients \ {c} :
        /\ EarlierPlaced(a)' /\ NewestIsCurrent(a)' /\ Placed(a)' = Placed(a)
        /\ Current(a)' = Current(a)
        /\ <<Primary, a>> \in complete' => Placed(a)'
  BY <1>2, <1>3, <1>4, OtherClients
<1>10. PlaceInv'
  <2>1. EarlierPlaced(c)'
    <3>1. EarlierPlaced(c) /\ Placed(c)
      BY <1>5, <1>6 DEF PlaceInv
    <3>2. PICK p \in 1..Len(plog) : plog[p] = Current(c)
      BY <3>1, Types DEF Placed
    <3>3. plog[p].client_id = c /\ plog[p].client_seq = seq_[c] - 1
      BY <3>2 DEF Current
    <3> SUFFICES ASSUME NEW n \in 0..(seq_[c] - 1)
                 PROVE  \E k \in 1..Len(plog) : plog[k].client_id = c /\ plog[k].client_seq = n
      BY <1>4 DEF EarlierPlaced
    <3> QED
      BY <3>1, <3>3 DEF EarlierPlaced
  <2>2. NewestIsCurrent(c)'
    <3>1. NewestIsCurrent(c)
      BY <1>6 DEF PlaceInv
    <3> QED
      BY <1>2, <1>4, <3>1 DEF NewestIsCurrent
  <2> QED
    BY <1>3, <1>5, <1>9, <2>1, <2>2 DEF PlaceInv
<1>11. HeldInv'
  <2> SUFFICES ASSUME NEW b \in Backups
               PROVE  /\ PlacedIsHeld(b)'
                      /\ \A a \in Clients : <<b, a>> \in complete' /\ seq_'[a] >= 2 =>
                              Placed(a)' \/ Current(a)' \in held[b]
    BY <1>4 DEF HeldInv
  <2>1. ASSUME NEW k \in 1..Len(plog), ~Unanswered(plog[k], b)'
        PROVE  ~Unanswered(plog[k], b)
    <3>1. plog[k].client_id \in Clients /\ plog'[k] = plog[k]
      BY <1>4, Types
    <3>2. CASE plog[k].client_id = c
      BY <3>2, <1>5 DEF Unanswered
    <3>3. CASE plog[k].client_id # c
      BY <2>1, <3>1, <3>3, <1>2, <1>3, <1>5 DEF Unanswered
    <3> QED
      BY <3>2, <3>3
  <2>2. PlacedIsHeld(b) /\ Storage' = Storage
    BY <1>4, <1>6 DEF HeldInv, Storage
  <2>3. PlacedIsHeld(b)'
    BY <1>4, <2>1, <2>2 DEF PlacedIsHeld
  <2>4. ASSUME NEW a \in Clients, <<b, a>> \in complete', seq_'[a] >= 2
        PROVE  Placed(a)' \/ Current(a)' \in held[b]
    <3>1. a # c
      BY <2>4, <1>3, <1>5
    <3> QED
      BY <2>4, <3>1, <1>3, <1>5, <1>6, <1>9 DEF HeldInv
  <2> QED
    BY <2>3, <2>4
<1> QED
  BY <1>2, <1>3, <1>8, <1>10, <1>11

\* AppendEntryAll and AppendEntry return.
LEMMA AppendReturnStep ==
    ASSUME IInv, NEW c \in Clients, AppendReturn(c), UNCHANGED kvVars
    PROVE  IInv'
<1>1. /\ call[c].mode \in {"all", "serial"} /\ Return(c)
      /\ \A r \in Replicas : <<r, c>> \in complete
      /\ UNCHANGED <<seq_, pending_reqs, flight, logVars, cl, shardVars>>
  BY DEF AppendReturn, allCompleted
<1>2. call[c] # NoCall
  BY <1>1 DEF NoCall
<1>3. /\ CallInv' /\ PlaceInv' /\ HeldInv'
      /\ call' \in [Clients -> Call] /\ call'[c] = NoCall
      /\ \A a \in Clients \ {c} : call'[a] = call[a]
      /\ complete' \in SUBSET (Replicas \X Clients)
  BY <1>1, <1>2, ReturnParts
<1>4. LogInv' /\ ClInv' /\ PlayInv' /\ StoreIsReplay'
  BY <1>1, OtherParts
<1>5. TypeOK'
  BY <1>1, <1>3 DEF IInv, TypeOK, logVars, shardVars, kvVars
<1>6. PendingInv'
  <2> SUFFICES ASSUME NEW a \in Clients, NEW r \in Replicas
               PROVE  QueueInv(pending_reqs[a][r], a)'
    BY DEF PendingInv
  <2>1. QueueInv(pending_reqs[a][r], a)
    BY DEF IInv, PendingInv
  <2>2. CASE a # c
    BY <2>1, <2>2, <1>1, <1>3 DEF QueueInv
  <2>3. CASE a = c
    <3>1. call[c].mode # "quorum" /\ call'[c].mode # "quorum"
      BY <1>1, <1>3 DEF NoCall
    <3> QED
      BY <2>1, <2>3, <3>1, <1>1 DEF QueueInv
  <2> QED
    BY <2>2, <2>3
<1> QED
  BY <1>3, <1>4, <1>5, <1>6 DEF IInv

\* CheckPendingReq on one queue: a token of an earlier call goes, so that at
\* most one is left.
LEMMA PopShortens ==
    ASSUME NEW q \in Seq(Nat), NEW n \in Nat, Len(q) <= 2, \A k \in 1..Len(q) : q[k] < n,
           Len(q) = 2 => q[1] < n - 1
    PROVE  /\ q = <<>> \/ ~(Head(q) < n - 1) => Len(q) <= 1
           /\ q # <<>> => /\ Tail(q) \in Seq(Nat) /\ Len(Tail(q)) <= 1
                          /\ \A k \in 1..Len(Tail(q)) : Tail(q)[k] < n
<1>1. Len(q) \in Nat /\ (q # <<>> => Head(q) = q[1])
  BY HeadTailProperties, LenProperties
<1>2. q = <<>> \/ ~(Head(q) < n - 1) => Len(q) <= 1
  <2>1. q = <<>> => Len(q) <= 1
    BY EmptySeq
  <2>2. q # <<>> /\ ~(Head(q) < n - 1) => Len(q) # 2
    BY <1>1
  <2>3. Len(q) # 2 => Len(q) <= 1
    <3>1. \A m \in Nat : m <= 2 /\ m # 2 => m <= 1
      OBVIOUS
    <3> QED
      BY <1>1, <3>1
  <2> QED
    BY <2>1, <2>2, <2>3
<1>3. ASSUME q # <<>>
      PROVE  /\ Tail(q) \in Seq(Nat) /\ Len(Tail(q)) = Len(q) - 1
             /\ \A k \in 1..Len(Tail(q)) : Tail(q)[k] = q[k + 1]
  BY <1>3, HeadTailProperties
<1>4. ASSUME q # <<>>, NEW k \in 1..Len(Tail(q)) PROVE Tail(q)[k] < n
  BY <1>1, <1>3, <1>4
<1>5. q # <<>> => Len(Tail(q)) <= 1
  BY <1>1, <1>3
<1> QED
  BY <1>2, <1>3, <1>4, <1>5

\* A round of AppendEntryQuorum, which returns once every replica answered.
LEMMA PollQuorumStep ==
    ASSUME IInv, NEW c \in Clients, PollQuorum(c), UNCHANGED kvVars
    PROVE  IInv'
<1>1. PICK seen \in SUBSET {r \in Replicas : <<r, c>> \in complete} :
        pending_reqs' = [pending_reqs EXCEPT ![c] =
            [r \in Replicas |-> IF @[r] # <<>> /\ Popped(c, r, seen)
                                THEN Tail(@[r]) ELSE @[r]]]
  BY DEF PollQuorum
<1>2. /\ call[c].mode = "quorum"
      /\ IF quorumCompleted(c) THEN Return(c) ELSE UNCHANGED <<call, complete>>
      /\ UNCHANGED <<seq_, flight, logVars, cl, shardVars>>
  BY DEF PollQuorum
<1>3. pending_reqs \in [Clients -> [Replicas -> Seq(Nat)]]
  BY DEF IInv, TypeOK
<1>4. ASSUME NEW r \in Replicas
      PROVE  /\ pending_reqs'[c][r] \in Seq(Nat) /\ Len(pending_reqs'[c][r]) <= 1
             /\ \A k \in 1..Len(pending_reqs'[c][r]) : pending_reqs'[c][r][k] < seq_[c]
  <2> DEFINE q == pending_reqs[c][r]
  <2>1. pending_reqs'[c][r] = IF q # <<>> /\ Popped(c, r, seen) THEN Tail(q) ELSE q
    BY <1>1, <1>3
  <2>2. /\ q \in Seq(Nat) /\ seq_[c] \in Nat /\ Len(q) <= 2
        /\ \A k \in 1..Len(q) : q[k] < seq_[c]
        /\ Len(q) = 2 => q[1] < seq_[c] - 1
        /\ Head(q) < seq_[c] - 1 => Popped(c, r, seen)
    BY <1>2, Types DEF IInv, PendingInv, QueueInv, Popped
  <2> HIDE DEF q
  <2>3. /\ q = <<>> \/ ~(Head(q) < seq_[c] - 1) => Len(q) <= 1
        /\ q # <<>> => /\ Tail(q) \in Seq(Nat) /\ Len(Tail(q)) <= 1
                       /\ \A k \in 1..Len(Tail(q)) : Tail(q)[k] < seq_[c]
    BY <2>2, PopShortens
  <2>4. CASE q # <<>> /\ Popped(c, r, seen)
    <3>1. pending_reqs'[c][r] = Tail(q)
      BY <2>1, <2>4
    <3> QED
      BY <2>3, <2>4, <3>1
  <2>5. CASE ~(q # <<>> /\ Popped(c, r, seen))
    <3>1. pending_reqs'[c][r] = q
      BY <2>1, <2>5
    <3>2. q = <<>> \/ ~(Head(q) < seq_[c] - 1)
      BY <2>2, <2>5
    <3> QED
      BY <2>2, <2>3, <3>1, <3>2
  <2> QED
    BY <2>4, <2>5
<1>5. /\ pending_reqs' \in [Clients -> [Replicas -> Seq(Nat)]]
      /\ \A a \in Clients \ {c} : pending_reqs'[a] = pending_reqs[a]
  <2>1. /\ \A a \in Clients \ {c} : pending_reqs'[a] = pending_reqs[a]
        /\ DOMAIN pending_reqs'[c] = Replicas
        /\ pending_reqs' = [a \in Clients |-> pending_reqs'[a]]
    BY <1>1, <1>3
  <2>2. pending_reqs'[c] = [r \in Replicas |-> pending_reqs'[c][r]]
    BY <1>1, <1>3
  <2>3. pending_reqs'[c] \in [Replicas -> Seq(Nat)]
    BY <2>2, <1>4
  <2> QED
    BY <1>3, <2>1, <2>3
<1>6. LogInv' /\ ClInv' /\ PlayInv' /\ StoreIsReplay'
  BY <1>2, OtherParts
<1>7. /\ CallInv' /\ PlaceInv' /\ HeldInv'
      /\ call' \in [Clients -> Call]
      /\ \A a \in Clients \ {c} : call'[a] = call[a]
      /\ complete' \in SUBSET (Replicas \X Clients)
  <2>0. call \in [Clients -> Call] /\ complete \in SUBSET (Replicas \X Clients)
    BY DEF IInv, TypeOK
  <2>1. CASE quorumCompleted(c)
    <3>1. call[c] # NoCall
      BY <1>2 DEF NoCall
    <3>2. \A r \in Replicas : <<r, c>> \in complete
      BY <2>0, <2>1, QuorumIsAll
    <3>3. Return(c)
      BY <1>2, <2>1
    <3> QED
      BY <3>1, <3>2, <3>3, <1>2, ReturnParts
  <2>2. CASE ~quorumCompleted(c)
    <3>1. call' = call /\ complete' = complete
      BY <1>2, <2>2
    <3>2. PlaceInv' /\ HeldInv'
      BY <3>1, <1>2, SameEntries DEF logVars, shardVars
    <3>3. CallInv'
      BY <3>1, <1>2 DEF IInv, CallInv
    <3> QED
      BY <2>0, <3>1, <3>2, <3>3
  <2> QED
    BY <2>1, <2>2
<1>8. TypeOK'
  BY <1>2, <1>5, <1>7 DEF IInv, TypeOK, logVars, shardVars, kvVars
<1>9. PendingInv'
  <2> SUFFICES ASSUME NEW a \in Clients, NEW r \in Replicas
               PROVE  QueueInv(pending_reqs[a][r], a)'
    BY DEF PendingInv
  <2>1. CASE a # c
    <3>1. QueueInv(pending_reqs[a][r], a)
      BY DEF IInv, PendingInv
    <3> QED
      BY <2>1, <3>1, <1>2, <1>5, <1>7 DEF QueueInv
  <2>2. CASE a = c
    <3>1. Len(pending_reqs'[c][r]) \in Nat
      BY <1>4, LenProperties
    <3> QED
      BY <2>2, <3>1, <1>2, <1>4 DEF QueueInv
  <2> QED
    BY <2>1, <2>2
<1> QED
  BY <1>6, <1>7, <1>8, <1>9 DEF IInv

-----------------------------------------------------------------------------
(* Appends on the replicas *)

\* What a request that a replica handles does, client by client.
LEMMA AppendOnEffect ==
    ASSUME IInv, NEW r \in Replicas, NEW c \in Clients, AppendOn(r, c)
    PROVE  /\ call[c] # NoCall /\ seq_[c] >= 1 /\ <<r, c>> \notin complete
           /\ <<r, c>> \in complete'
           /\ \A q \in Replicas, a \in Clients :
                 <<q, a>> # <<r, c>> => (<<q, a>> \in complete' <=> <<q, a>> \in complete)
           /\ \A a \in Clients : Current(a)' = Current(a)
           /\ flight' \in SUBSET (Replicas \X Clients)
           /\ complete' \in SUBSET (Replicas \X Clients)
           /\ CallInv' /\ PendingInv'
<1>1. CallInv /\ flight \in SUBSET (Replicas \X Clients) /\ complete \in SUBSET (Replicas \X Clients)
  BY DEF IInv, TypeOK
<1>2. /\ <<r, c>> \in flight /\ seq_' = seq_ /\ call' = call /\ pending_reqs' = pending_reqs
      /\ flight' = flight \ {<<r, c>>} /\ complete' = complete \cup {<<r, c>>}
  BY DEF AppendOn, clientVars
<1>3. call[c] # NoCall /\ seq_[c] >= 1 /\ r \notin call[c].unsent /\ <<r, c>> \notin complete
  BY <1>1, <1>2 DEF CallInv
<1>4. \A a \in Clients : Current(a)' = Current(a)
  BY <1>2 DEF Current
<1>5. PendingInv'
  BY <1>2 DEF IInv, PendingInv, QueueInv
<1>6. CallInv'
  <2> SUFFICES ASSUME NEW a \in Clients PROVE CallInv!(a)'
    BY DEF CallInv
  <2>1. ASSUME NEW q \in Replicas
        PROVE  /\ <<q, a>> \in flight' => <<q, a>> \in flight /\ <<q, a>> # <<r, c>>
               /\ <<q, a>> \in complete' => <<q, a>> \in complete \/ (q = r /\ a = c)
    BY <1>2
  <2> QED
    BY <1>1, <1>2, <1>3, <2>1 DEF CallInv
<1>7. flight' \in SUBSET (Replicas \X Clients) /\ complete' \in SUBSET (Replicas \X Clients)
  BY <1>1, <1>2
<1> QED
  BY <1>2, <1>3, <1>4, <1>5, <1>6, <1>7

\* The primary gives an append its index.  That the new entry fits the order
\* of its client's entries needs the earlier ones to be in the log.
LEMMA PrimaryStep ==
    ASSUME IInv, NEW c \in Clients, AppendOn(Primary, c), UNCHANGED kvVars
    PROVE  IInv'
<1> DEFINE e == Current(c)
           n == Len(plog) + 1
<1>0. Primary \in Replicas /\ \A b \in Backups : b \in Replicas /\ b # Primary
  BY DEF Replicas
<1>1. /\ call[c] # NoCall /\ seq_[c] >= 1 /\ <<Primary, c>> \notin complete
      /\ <<Primary, c>> \in complete'
      /\ \A q \in Replicas, a \in Clients :
            <<q, a>> # <<Primary, c>> => (<<q, a>> \in complete' <=> <<q, a>> \in complete)
      /\ \A a \in Clients : Current(a)' = Current(a)
      /\ flight' \in SUBSET (Replicas \X Clients)
      /\ complete' \in SUBSET (Replicas \X Clients)
      /\ CallInv' /\ PendingInv'
  BY <1>0, AppendOnEffect
<1>2. /\ plog' = Append(plog, e) /\ held' = held /\ stored' = stored /\ cl' = cl
      /\ seq_' = seq_ /\ call' = call /\ pending_reqs' = pending_reqs
      /\ ordered_idx_watermk' = ordered_idx_watermk
      /\ kv_store' = kv_store /\ tail' = tail /\ i' = i /\ delivered' = delivered
  BY DEF AppendOn, clientVars, shardVars, kvVars
<1>3. TypeOK /\ CallInv /\ PlaceInv /\ LogInv /\ ClInv /\ HeldInv /\ PlayInv /\ StoreIsReplay
  BY DEF IInv
<1>4. e \in LogEntry /\ e.client_id = c /\ e.client_seq = seq_[c] - 1
  BY <1>1, <1>3, CurrentType
<1>5. /\ plog' \in Seq(LogEntry) /\ Len(plog') = n /\ Len(plog) \in Nat
      /\ \A k \in 1..Len(plog) : plog'[k] = plog[k]
      /\ plog'[n] = e
      /\ DOMAIN plog' = 1..n
  <2>1. plog \in Seq(LogEntry)
    BY <1>3 DEF TypeOK
  <2> HIDE DEF e
  <2>2. plog' \in Seq(LogEntry)
    BY <2>1, <1>2, <1>4, LogAppend
  <2> QED
    BY <2>1, <2>2, <1>2, <1>4, LogAppend, LenProperties
<1>6. \A k \in 1..n : k \in 1..Len(plog) \/ k = n
  BY <1>5
<1>7. TypeOK'
  BY <1>1, <1>2, <1>3, <1>5 DEF TypeOK
<1>8. \A k \in 1..Len(plog) : plog[k] # e
  BY <1>1, <1>3, <1>4 DEF PlaceInv, NewestIsCurrent
<1>9. ASSUME NEW k \in 1..Len(plog), plog[k].client_id = c PROVE plog[k].client_seq < e.client_seq
  <2>1. plog[k].client_seq \in Nat /\ seq_[c] \in Nat
    BY Types
  <2>2. plog[k].client_seq < seq_[c] /\ plog[k].client_seq # seq_[c] - 1
    BY <1>1, <1>3, <1>9 DEF PlaceInv, NewestIsCurrent
  <2> QED
    BY <2>1, <2>2, <1>4
<1>10. e.client_seq < n
  <2>1. seq_[c] \in Nat
    BY Types
  <2>2. CASE seq_[c] = 1
    BY <2>2, <1>4, <1>5
  <2>3. CASE seq_[c] >= 2
    <3>1. seq_[c] - 2 \in 0..(seq_[c] - 1) /\ seq_[c] - 2 # seq_[c] - 1
      BY <2>1, <2>3
    <3>2. EarlierPlaced(c)
      BY <1>3 DEF PlaceInv
    <3>3. PICK k \in 1..Len(plog) : plog[k].client_id = c /\ plog[k].client_seq = seq_[c] - 2
      BY <3>1, <3>2 DEF EarlierPlaced
    <3>4. plog[k].client_seq < k
      BY <1>3 DEF LogInv
    <3> QED
      BY <2>1, <3>3, <3>4, <1>4, <1>5
  <2> QED
    BY <2>1, <2>2, <2>3, <1>1
<1> HIDE DEF e, n
<1>11. \A a \in Clients : Placed(a) => Placed(a)'
  BY <1>1, <1>5, Types DEF Placed, n
<1>12. Placed(c)'
  <2>1. n \in DOMAIN plog'
    BY <1>5 DEF n
  <2> QED
    BY <1>1, <1>5, <2>1 DEF Placed, e
<1>13. PlaceInv'
  <2> SUFFICES ASSUME NEW a \in Clients
               PROVE  /\ EarlierPlaced(a)' /\ NewestIsCurrent(a)'
                      /\ <<Primary, a>> \in complete' => Placed(a)'
    BY DEF PlaceInv
  <2>1. EarlierPlaced(a)'
    <3>1. EarlierPlaced(a)
      BY <1>3 DEF PlaceInv
    <3>2. \A k \in 1..Len(plog) : k \in 1..Len(plog')
      BY <1>5 DEF n
    <3> QED
      BY <1>2, <1>5, <3>1, <3>2 DEF EarlierPlaced
  <2>2. <<Primary, a>> \in complete' => Placed(a)'
    BY <1>0, <1>1, <1>3, <1>11, <1>12 DEF PlaceInv
  <2>3. NewestIsCurrent(a)'
    <3> SUFFICES ASSUME NEW k \in 1..n, plog'[k].client_id = a
                 PROVE  /\ plog'[k].client_seq < seq_[a]
                        /\ call[a] # NoCall /\ plog'[k].client_seq = seq_[a] - 1 =>
                              plog'[k] = Current(a) /\ <<Primary, a>> \in complete'
      BY <1>1, <1>2, <1>5 DEF NewestIsCurrent
    <3>1. CASE k = n
      <4>1. seq_[c] - 1 < seq_[c]
        BY Types
      <4> QED
        BY <3>1, <4>1, <1>1, <1>4, <1>5 DEF e
    <3>2. CASE k \in 1..Len(plog)
      <4>1. NewestIsCurrent(a) /\ plog'[k] = plog[k]
        BY <3>2, <1>3, <1>5 DEF PlaceInv
      <4> QED
        BY <4>1, <3>2, <1>0, <1>1 DEF NewestIsCurrent
    <3> QED
      BY <1>6, <3>1, <3>2
  <2> QED
    BY <2>1, <2>2, <2>3
<1>14. LogInv'
  <2>1. ASSUME NEW k \in 1..n PROVE plog'[k].client_seq < k
    <3>1. CASE k = n
      BY <3>1, <1>5, <1>10
    <3>2. CASE k \in 1..Len(plog)
      BY <3>2, <1>3, <1>5 DEF LogInv
    <3> QED
      BY <1>6, <3>1, <3>2
  <2>2. ASSUME NEW k \in 1..n, NEW l \in 1..n, k < l, plog'[k].client_id = plog'[l].client_id
        PROVE  plog'[k].client_seq < plog'[l].client_seq
    <3>1. k \in 1..Len(plog)
      BY <2>2, <1>5 DEF n
    <3>2. CASE l = n
      BY <2>2, <3>1, <3>2, <1>4, <1>5, <1>9
    <3>3. CASE l \in 1..Len(plog)
      BY <2>2, <3>1, <3>3, <1>3, <1>5 DEF LogInv
    <3> QED
      BY <1>6, <3>2, <3>3
  <2> QED
    BY <2>1, <2>2, <1>5 DEF LogInv
<1>15. ClInv'
  <2>1. \A m \in Nat : m <= Len(plog) => m <= Len(plog')
    BY <1>5 DEF n
  <2>2. ordered_idx_watermk \in Nat /\ cl.hi \in Nat
    BY <1>3 DEF TypeOK, ClState
  <2>3. \A j : IsStored(j)' <=> IsStored(j)
    BY <1>2 DEF IsStored
  <2> QED
    BY <1>2, <1>3, <2>1, <2>2, <2>3 DEF ClInv
<1>16. HeldInv'
  <2> SUFFICES ASSUME NEW b \in Backups
               PROVE  /\ PlacedIsHeld(b)'
                      /\ \A a \in Clients : <<b, a>> \in complete' /\ seq_'[a] >= 2 =>
                              Placed(a)' \/ Current(a)' \in held[b]
    BY <1>2 DEF HeldInv
  <2>1. \A a \in Clients : <<b, a>> \in complete' <=> <<b, a>> \in complete
    BY <1>0, <1>1
  <2>2. \A a \in Clients : <<b, a>> \in complete' /\ seq_'[a] >= 2 =>
                               Placed(a)' \/ Current(a)' \in held[b]
    BY <2>1, <1>1, <1>2, <1>3, <1>11 DEF HeldInv
  <2>3. Storage' = Storage
    BY <1>2 DEF Storage
  <2>4. PlacedIsHeld(b)'
    <3> SUFFICES ASSUME NEW k \in 1..n, plog'[k].client_seq >= 1, ~Unanswered(plog[k], b)'
                 PROVE  k - 1 \in Storage \/ plog'[k] \in held[b]
      BY <2>3, <1>2, <1>5 DEF PlacedIsHeld
    <3>1. CASE k = n
      <4>1. <<b, c>> \in complete
        BY <3>1, <2>1, <1>1, <1>2, <1>4, <1>5 DEF Unanswered
      <4>2. seq_[c] >= 2
        BY <3>1, <1>4, <1>5, Types
      <4>3. ~Placed(c)
        BY <1>8, Types DEF Placed, e
      <4>4. e \in held[b]
        BY <4>1, <4>2, <4>3, <1>3 DEF HeldInv, e
      <4> QED
        BY <4>4, <3>1, <1>5
    <3>2. CASE k \in 1..Len(plog)
      <4>1. plog'[k] = plog[k] /\ plog[k].client_id \in Clients
        BY <3>2, <1>5, Types
      <4>2. ~Unanswered(plog[k], b)
        BY <4>1, <2>1, <1>2 DEF Unanswered
      <4>3. PlacedIsHeld(b)
        BY <1>3 DEF HeldInv
      <4> QED
        BY <3>2, <4>1, <4>2, <4>3 DEF PlacedIsHeld
    <3> QED
      BY <1>6, <3>1, <3>2
  <2> QED
    BY <2>2, <2>4
<1>17. PlayInv' /\ StoreIsReplay'
  <2>1. i \in Nat /\ tail \in Nat /\ ordered_idx_watermk \in Nat /\ i <= Len(plog)
    BY <1>3, <1>5 DEF TypeOK, PlayInv, ClInv
  <2>2. \A j \in 1..i : plog'[j] = plog[j]
    BY <2>1, <1>5
  <2>3. PlayInv'
    BY <2>2, <1>2, <1>3 DEF PlayInv
  <2>4. StoreIsReplay'
    <3>1. \A j \in 1..i : \A l \in (j + 1)..i : l \in 1..i
      BY <2>1
    <3> SUFFICES ASSUME NEW k \in DOMAIN kv_store
                 PROVE  \E j \in 1..i : /\ plog'[j] = kv_store[k]
                                        /\ \A l \in (j + 1)..i : plog'[l].data # k
      BY <1>2 DEF StoreIsReplay
    <3>2. PICK j \in 1..i : plog[j] = kv_store[k] /\ \A l \in (j + 1)..i : plog[l].data # k
      BY <1>3 DEF StoreIsReplay
    <3> QED
      BY <2>2, <3>1, <3>2
  <2> QED
    BY <2>3, <2>4
<1> QED
  BY <1>1, <1>7, <1>13, <1>14, <1>15, <1>16, <1>17 DEF IInv

\* A backup stores an append, which stays there until a shard has it.
LEMMA BackupStep ==
    ASSUME IInv, NEW r \in Backups, NEW c \in Clients, AppendOn(r, c), UNCHANGED kvVars
    PROVE  IInv'
<1>0. Primary \in Replicas /\ r \in Replicas /\ r # Primary /\ \A b \in Backups : b \in Replicas
  BY DEF Replicas
<1>1. /\ call[c] # NoCall /\ seq_[c] >= 1 /\ <<r, c>> \notin complete
      /\ <<r, c>> \in complete'
      /\ \A q \in Replicas, a \in Clients :
            <<q, a>> # <<r, c>> => (<<q, a>> \in complete' <=> <<q, a>> \in complete)
      /\ \A a \in Clients : Current(a)' = Current(a)
      /\ flight' \in SUBSET (Replicas \X Clients)
      /\ complete' \in SUBSET (Replicas \X Clients)
      /\ CallInv' /\ PendingInv'
  BY <1>0, AppendOnEffect
<1>2. /\ plog' = plog /\ held' = [held EXCEPT ![r] = @ \cup {Current(c)}] /\ stored' = stored
      /\ cl' = cl /\ seq_' = seq_ /\ call' = call /\ pending_reqs' = pending_reqs
      /\ ordered_idx_watermk' = ordered_idx_watermk
      /\ kv_store' = kv_store /\ tail' = tail /\ i' = i /\ delivered' = delivered
  BY <1>0 DEF AppendOn, clientVars, shardVars, kvVars
<1>3. TypeOK /\ CallInv /\ PlaceInv /\ LogInv /\ ClInv /\ HeldInv /\ PlayInv /\ StoreIsReplay
  BY DEF IInv
<1>4. Current(c) \in LogEntry
  BY <1>1, <1>3, CurrentType
<1>5. /\ held' \in [Backups -> SUBSET LogEntry]
      /\ \A b \in Backups : held[b] \subseteq held'[b]
      /\ Current(c) \in held'[r]
  BY <1>2, <1>3, <1>4 DEF TypeOK
<1>6. TypeOK'
  BY <1>1, <1>2, <1>3, <1>5 DEF TypeOK
<1>7. \A a \in Clients : Placed(a)' = Placed(a)
  BY <1>1, <1>2 DEF Placed
<1>8. \A a \in Clients : <<Primary, a>> \in complete' <=> <<Primary, a>> \in complete
  BY <1>0, <1>1
<1>9. PlaceInv'
  <2> SUFFICES ASSUME NEW a \in Clients PROVE EarlierPlaced(a)' /\ NewestIsCurrent(a)'
    BY <1>3, <1>7, <1>8 DEF PlaceInv
  <2>1. EarlierPlaced(a) /\ NewestIsCurrent(a)
    BY <1>3 DEF PlaceInv
  <2>2. EarlierPlaced(a)'
    BY <1>2, <2>1 DEF EarlierPlaced
  <2>3. NewestIsCurrent(a)'
    BY <1>1, <1>2, <1>8, <2>1 DEF NewestIsCurrent
  <2> QED
    BY <2>2, <2>3
<1>10. LogInv' /\ ClInv' /\ PlayInv' /\ StoreIsReplay'
  BY <1>2, <1>3 DEF LogInv, ClInv, IsStored, PlayInv, StoreIsReplay
<1>11. HeldInv'
  <2> SUFFICES ASSUME NEW b \in Backups
               PROVE  /\ PlacedIsHeld(b)'
                      /\ \A a \in Clients : <<b, a>> \in complete' /\ seq_[a] >= 2 =>
                              Placed(a)' \/ Current(a)' \in held'[b]
    BY <1>2 DEF HeldInv
  <2>1. ASSUME NEW a \in Clients, <<b, a>> \in complete', seq_[a] >= 2
        PROVE  Placed(a)' \/ Current(a)' \in held'[b]
    <3>1. CASE b = r /\ a = c
      BY <3>1, <1>1, <1>5
    <3>2. CASE ~(b = r /\ a = c)
      <4>1. <<b, a>> \in complete
        BY <2>1, <3>2, <1>0, <1>1
      <4> QED
        BY <2>1, <4>1, <1>1, <1>3, <1>5, <1>7 DEF HeldInv
    <3> QED
      BY <3>1, <3>2
  <2>2. PlacedIsHeld(b)'
    <3> SUFFICES ASSUME NEW k \in 1..Len(plog), plog[k].client_seq >= 1, ~Unanswered(plog[k], b)'
                 PROVE  k - 1 \in Storage \/ plog[k] \in held'[b]
      BY <1>2 DEF PlacedIsHeld, Storage
    <3>1. PlacedIsHeld(b) /\ plog[k].client_id \in Clients
      BY <1>3, Types DEF HeldInv
    <3>2. CASE ~Unanswered(plog[k], b)
      BY <3>1, <3>2, <1>5 DEF PlacedIsHeld
    <3>3. CASE Unanswered(plog[k], b)
      <4>1. /\ <<b, plog[k].client_id>> \notin complete /\ <<b, plog[k].client_id>> \in complete'
            /\ plog[k].client_seq = seq_[plog[k].client_id] - 1
        BY <3>3, <1>2 DEF Unanswered
      <4>2. b = r /\ plog[k].client_id = c
        BY <4>1, <3>1, <1>0, <1>1
      <4>3. plog[k] = Current(c)
        BY <4>1, <4>2, <1>1, <1>3 DEF PlaceInv, NewestIsCurrent
      <4> QED
        BY <4>2, <4>3, <1>5
    <3> QED
      BY <3>2, <3>3
  <2> QED
    BY <2>1, <2>2
<1> QED
  BY <1>1, <1>6, <1>9, <1>10, <1>11 DEF IInv

-----------------------------------------------------------------------------
(* The loop of the consensus log *)

\* Its steps leave clients and requests alone.
LEMMA LoopParts ==
    ASSUME IInv, UNCHANGED <<clientVars, flight, complete>>
    PROVE  CallInv' /\ PendingInv'
BY DEF IInv, CallInv, PendingInv, QueueInv, clientVars

\* FetchUnorderedEntries begins a batch at the watermark.
LEMMA FetchStep ==
    ASSUME IInv, Fetch, UNCHANGED kvVars
    PROVE  IInv'
<1>1. PICK hi \in (ordered_idx_watermk + 1)..Len(plog) :
        cl' = [step |-> "append", lo |-> ordered_idx_watermk, hi |-> hi,
               todo |-> {ShardOf(j) : j \in ordered_idx_watermk..(hi - 1)}]
  BY DEF Fetch
<1>2. UNCHANGED <<clientVars, flight, complete, logVars, shardVars>>
  BY DEF Fetch
<1>3. ordered_idx_watermk \in Nat /\ Len(plog) \in Nat
  BY Types DEF IInv, TypeOK
<1>4. /\ cl' \in ClState /\ cl'.step = "append" /\ cl'.lo = ordered_idx_watermk /\ cl'.hi = hi
      /\ ordered_idx_watermk <= hi /\ hi <= Len(plog)
      /\ \A j \in cl'.lo..(cl'.hi - 1) : ShardOf(j) \in cl'.todo
  BY <1>1, <1>3, ShardType DEF ClState
<1>5. TypeOK'
  BY <1>2, <1>4 DEF IInv, TypeOK, clientVars, logVars, shardVars, kvVars
<1>6. CallInv' /\ PendingInv'
  BY <1>2, LoopParts
<1>7. PlaceInv' /\ LogInv' /\ HeldInv'
  BY <1>2, SameEntries DEF clientVars, logVars, shardVars
<1>8. ClInv'
  BY <1>2, <1>4 DEF IInv, ClInv, IsStored, logVars, shardVars
<1>9. PlayInv' /\ StoreIsReplay'
  BY <1>2 DEF IInv, PlayInv, StoreIsReplay, logVars, kvVars
<1> QED
  BY <1>5, <1>6, <1>7, <1>8, <1>9 DEF IInv

\* A server answers: the others are still to, or the loop goes on.
LEMMA AnsweredEffect ==
    ASSUME cl \in ClState, NEW server, server \in cl.todo, NEW next, NEW servers,
           next \in {"delete", "announce"}, servers \subseteq Shards \cup Replicas,
           Answered(server, next, servers)
    PROVE  /\ cl' \in ClState /\ cl'.lo = cl.lo /\ cl'.hi = cl.hi
           /\ \/ cl.todo = {server} /\ cl'.step = next /\ cl'.todo = servers
              \/ cl'.step = cl.step /\ cl'.todo = cl.todo \ {server}
<1>1. CASE cl.todo = {server}
  BY <1>1 DEF ClState, Answered
<1>2. CASE cl.todo # {server}
  BY <1>2 DEF ClState, Answered
<1> QED
  BY <1>1, <1>2

\* A shard stores its part of the batch.
LEMMA AppendBatchStep ==
    ASSUME IInv, NEW s \in Shards, AppendBatchOn(s), UNCHANGED kvVars
    PROVE  IInv'
<1>1. /\ cl.step = "append" /\ s \in cl.todo
      /\ stored' = [stored EXCEPT ![s] = @ \cup BatchOn(s)]
      /\ Answered(s, "delete", Replicas)
      /\ UNCHANGED <<clientVars, flight, complete, logVars, global_index>>
  BY DEF AppendBatchOn
<1>2. TypeOK /\ ClInv
  BY DEF IInv
<1>3. cl \in ClState /\ stored \in [Shards -> SUBSET Nat]
  BY <1>2 DEF TypeOK
<1>4. cl.lo \in Nat /\ cl.hi \in Nat /\ BatchOn(s) \subseteq Nat
  BY <1>3 DEF ClState, BatchOn
<1>5. /\ stored' \in [Shards -> SUBSET Nat]
      /\ \A t \in Shards : stored[t] \subseteq stored'[t]
      /\ BatchOn(s) \subseteq stored'[s]
  BY <1>1, <1>3, <1>4
<1>6. /\ cl' \in ClState /\ cl'.lo = cl.lo /\ cl'.hi = cl.hi
      /\ \/ cl.todo = {s} /\ cl'.step = "delete" /\ cl'.todo = Replicas
         \/ cl'.step = "append" /\ cl'.todo = cl.todo \ {s}
  <2>1. Replicas \subseteq Shards \cup Replicas
    OBVIOUS
  <2>2. /\ cl' \in ClState /\ cl'.lo = cl.lo /\ cl'.hi = cl.hi
        /\ \/ cl.todo = {s} /\ cl'.step = "delete" /\ cl'.todo = Replicas
           \/ cl'.step = cl.step /\ cl'.todo = cl.todo \ {s}
    BY <1>1, <1>3, <2>1, AnsweredEffect
  <2> QED
    BY <1>1, <2>2
<1>7. TypeOK'
  BY <1>1, <1>2, <1>5, <1>6 DEF TypeOK, clientVars, logVars, kvVars
<1>8. CallInv' /\ PendingInv'
  BY <1>1, LoopParts
<1>9. PlaceInv' /\ LogInv' /\ HeldInv'
  BY <1>1, <1>5, SameEntries DEF clientVars, logVars
<1>10. \A j \in Nat : IsStored(j) => IsStored(j)'
  BY <1>5, ShardType DEF IsStored
<1>11. \A j \in cl.lo..(cl.hi - 1) : ShardOf(j) \in cl.todo \ {s} \/ IsStored(j)'
  <2> SUFFICES ASSUME NEW j \in cl.lo..(cl.hi - 1), ShardOf(j) \notin cl.todo \ {s}
               PROVE  IsStored(j)'
    OBVIOUS
  <2>1. j \in Nat
    BY <1>4
  <2>2. CASE ShardOf(j) = s
    BY <2>2, <1>5 DEF BatchOn, IsStored
  <2>3. CASE ShardOf(j) # s
    BY <2>1, <2>3, <1>1, <1>2, <1>10 DEF ClInv
  <2> QED
    BY <2>2, <2>3
<1>12. ClInv'
  <2>1. \A j \in 0..(ordered_idx_watermk - 1) : IsStored(j)'
    BY <1>2, <1>10 DEF ClInv
  <2>2. plog' = plog /\ ordered_idx_watermk' = ordered_idx_watermk /\ Primary \in Replicas
    BY <1>1 DEF logVars, Replicas
  <2>3. /\ ordered_idx_watermk <= Len(plog) /\ ordered_idx_watermk = cl.lo
        /\ cl.lo <= cl.hi /\ cl.hi <= Len(plog)
    BY <1>1, <1>2 DEF ClInv
  <2> QED
    BY <1>6, <1>11, <2>1, <2>2, <2>3 DEF ClInv
<1>13. PlayInv' /\ StoreIsReplay'
  BY <1>1 DEF IInv, PlayInv, StoreIsReplay, logVars, kvVars
<1> QED
  BY <1>7, <1>8, <1>9, <1>12, <1>13 DEF IInv

\* While a batch is deleted, all indexes up to its end are stored, and an entry
\* that delEntriesBackup may free has one of them or is a client's first.
LEMMA OrderedIsStored ==
    ASSUME IInv, cl.step = "delete", NEW e, e.client_seq # 0,
           OrderedBy(e, LogOf((cl.lo + 1)..cl.hi))
    PROVE  /\ \A j \in 0..(cl.hi - 1) : IsStored(j)
           /\ \E m \in 1..cl.hi : /\ m \in 1..Len(plog) /\ plog[m].client_id = e.client_id
                                  /\ plog[m].client_seq >= e.client_seq
<1>1. cl.lo \in Nat /\ cl.hi \in Nat /\ ordered_idx_watermk \in Nat /\ Len(plog) \in Nat
  BY Types DEF IInv, TypeOK, ClState
<1>2. /\ \A j \in 0..(ordered_idx_watermk - 1) : IsStored(j)
      /\ \A j \in cl.lo..(cl.hi - 1) : IsStored(j)
      /\ ordered_idx_watermk = cl.lo \/ ordered_idx_watermk = cl.hi
      /\ cl.hi <= Len(plog)
  BY DEF IInv, ClInv
<1>3. PICK m \in (cl.lo + 1)..cl.hi : plog[m].client_id = e.client_id
                                      /\ plog[m].client_seq >= e.client_seq
  BY DEF OrderedBy, LogOf
<1>4. m \in 1..cl.hi /\ m \in 1..Len(plog)
  BY <1>1, <1>2
<1>5. \A j \in 0..(cl.hi - 1) : IsStored(j)
  BY <1>1, <1>2
<1> QED
  BY <1>3, <1>4, <1>5

\* The primary moves its watermark over the batch, a backup frees entries.
LEMMA DeleteStep ==
    ASSUME IInv, NEW r \in Replicas, DeleteOn(r), UNCHANGED kvVars
    PROVE  IInv'
<1>0. \A b \in Backups : b # Primary
  OBVIOUS
<1>1. /\ cl.step = "delete" /\ r \in cl.todo /\ Answered(r, "announce", Shards)
      /\ UNCHANGED <<clientVars, flight, complete, plog, shardVars>>
  BY DEF DeleteOn
<1>2. /\ ordered_idx_watermk' = IF r = Primary THEN cl.hi ELSE ordered_idx_watermk
      /\ held' \in [Backups -> SUBSET LogEntry]
      /\ \A b \in Backups : /\ held'[b] \subseteq held[b]
                            /\ \A e \in held[b] \ held'[b] : OrderedBy(e, LogOf((cl.lo + 1)..cl.hi))
  <2>1. held \in [Backups -> SUBSET LogEntry]
    BY DEF IInv, TypeOK
  <2>2. CASE r = Primary
    BY <2>1, <2>2 DEF DeleteOn
  <2>3. CASE r # Primary
    <3>1. PICK D \in SUBSET {e \in held[r] : OrderedBy(e, LogOf((cl.lo + 1)..cl.hi))} :
             held' = [held EXCEPT ![r] = @ \ D]
      BY <2>3 DEF DeleteOn
    <3>2. r \in Backups /\ ordered_idx_watermk' = ordered_idx_watermk
      BY <2>3 DEF DeleteOn, Replicas
    <3> QED
      BY <2>1, <2>3, <3>1, <3>2
  <2> QED
    BY <2>2, <2>3
<1>3. TypeOK /\ PlaceInv /\ LogInv /\ ClInv /\ HeldInv /\ PlayInv /\ StoreIsReplay
  BY DEF IInv
<1>4. cl \in ClState /\ cl.lo \in Nat /\ cl.hi \in Nat /\ ordered_idx_watermk \in Nat
  BY <1>3 DEF TypeOK, ClState
<1>5. /\ cl' \in ClState /\ cl'.lo = cl.lo /\ cl'.hi = cl.hi
      /\ \/ cl.todo = {r} /\ cl'.step = "announce" /\ cl'.todo = Shards
         \/ cl'.step = "delete" /\ cl'.todo = cl.todo \ {r}
  <2>1. Shards \subseteq Shards \cup Replicas
    OBVIOUS
  <2>2. /\ cl' \in ClState /\ cl'.lo = cl.lo /\ cl'.hi = cl.hi
        /\ \/ cl.todo = {r} /\ cl'.step = "announce" /\ cl'.todo = Shards
           \/ cl'.step = cl.step /\ cl'.todo = cl.todo \ {r}
    BY <1>1, <1>4, <2>1, AnsweredEffect
  <2> QED
    BY <1>1, <2>2
<1>6. /\ \A c \in Clients : Current(c)' = Current(c) /\ Placed(c)' = Placed(c)
      /\ Storage' = Storage /\ \A j : IsStored(j)' <=> IsStored(j)
  BY <1>1 DEF Current, Placed, Storage, IsStored, clientVars, shardVars
<1>7. TypeOK'
  BY <1>1, <1>2, <1>3, <1>4, <1>5 DEF TypeOK, clientVars, shardVars, kvVars
<1>8. CallInv' /\ PendingInv'
  BY <1>1, LoopParts
<1>9. PlaceInv'
  <2>1. \A c \in Clients : EarlierPlaced(c)' /\ NewestIsCurrent(c)'
                           /\ (<<Primary, c>> \in complete' => Placed(c)')
    BY <1>1, OtherClients DEF clientVars
  <2> QED
    BY <2>1 DEF PlaceInv
<1>10. ClInv'
  <2>1. /\ \A j \in 0..(ordered_idx_watermk - 1) : IsStored(j)
        /\ \A j \in cl.lo..(cl.hi - 1) : IsStored(j)
        /\ ordered_idx_watermk = IF Primary \in cl.todo THEN cl.lo ELSE cl.hi
        /\ cl.lo <= cl.hi /\ cl.hi <= Len(plog) /\ ordered_idx_watermk <= Len(plog)
    BY <1>1, <1>3 DEF ClInv
  <2>2. \A j \in 0..(cl.hi - 1) : IsStored(j)
    BY <2>1, <1>4
  <2>3. ordered_idx_watermk' \in {ordered_idx_watermk, cl.hi}
    BY <1>2
  <2>4. \A j \in 0..(ordered_idx_watermk' - 1) : IsStored(j)
    BY <2>1, <2>2, <2>3
  <2>5. cl.todo = {r} => ordered_idx_watermk' = cl.hi
    BY <2>1, <1>2
  <2>6. cl'.todo = cl.todo \ {r} =>
           ordered_idx_watermk' = IF Primary \in cl'.todo THEN cl.lo ELSE cl.hi
    BY <2>1, <1>1, <1>2
  <2>7. plog' = plog
    BY <1>1
  <2> QED
    BY <1>5, <1>6, <2>1, <2>3, <2>4, <2>5, <2>6, <2>7 DEF ClInv
<1>11. HeldInv'
  <2> SUFFICES ASSUME NEW b \in Backups
               PROVE  /\ PlacedIsHeld(b)'
                      /\ \A a \in Clients : <<b, a>> \in complete /\ seq_[a] >= 2 =>
                              Placed(a) \/ Current(a) \in held'[b]
    BY <1>1, <1>6 DEF HeldInv, clientVars
  <2>1. PlacedIsHeld(b)'
    <3> SUFFICES ASSUME NEW k \in 1..Len(plog), plog[k].client_seq >= 1, ~Unanswered(plog[k], b)'
                 PROVE  k - 1 \in Storage \/ plog[k] \in held'[b]
      BY <1>1, <1>6 DEF PlacedIsHeld
    <3>1. k - 1 \in Storage \/ plog[k] \in held[b]
      BY <1>1, <1>3 DEF HeldInv, PlacedIsHeld, Unanswered, clientVars
    <3>2. ASSUME plog[k] \in held[b], plog[k] \notin held'[b] PROVE k - 1 \in Storage
      <4>1. PICK m \in 1..cl.hi : /\ m \in 1..Len(plog)
                                  /\ plog[m].client_id = plog[k].client_id
                                  /\ plog[m].client_seq >= plog[k].client_seq
        BY <3>2, <1>1, <1>2, OrderedIsStored
      <4>2. plog[m].client_seq \in Nat /\ plog[k].client_seq \in Nat /\ Len(plog) \in Nat
        BY <4>1, Types
      <4>3. ~(m < k)
        BY <4>1, <4>2, <1>3 DEF LogInv
      <4>4. k - 1 \in 0..(cl.hi - 1)
        BY <4>2, <4>3, <1>4
      <4>5. IsStored(k - 1)
        BY <3>2, <4>4, <1>1, <1>2, OrderedIsStored
      <4>6. ShardOf(k - 1) \in Shards
        BY <4>2, ShardType
      <4> QED
        BY <4>5, <4>6 DEF IsStored, Storage
    <3> QED
      BY <3>1, <3>2
  <2>2. ASSUME NEW a \in Clients, <<b, a>> \in complete, seq_[a] >= 2
        PROVE  Placed(a) \/ Current(a) \in held'[b]
    <3>1. Placed(a) \/ Current(a) \in held[b]
      BY <2>2, <1>3 DEF HeldInv
    <3>2. ASSUME Current(a) \in held[b], Current(a) \notin held'[b] PROVE Placed(a)
      <4>1. seq_[a] \in Nat /\ Current(a).client_id = a /\ Current(a).client_seq = seq_[a] - 1
        BY Types DEF Current
      <4>2. PICK m \in 1..Len(plog) : plog[m].client_id = a /\ plog[m].client_seq >= seq_[a] - 1
        BY <2>2, <3>2, <4>1, <1>1, <1>2, OrderedIsStored
      <4>3. plog[m].client_seq \in Nat /\ plog[m].client_seq < seq_[a] /\ m \in DOMAIN plog
        BY <4>2, <1>3, Types DEF PlaceInv, NewestIsCurrent
      <4>4. call[a] # NoCall
        <5>1. CallInv /\ b \in Replicas
          BY DEF IInv, Replicas
        <5> QED
          BY <2>2, <5>1 DEF CallInv
      <4>5. plog[m] = Current(a)
        <5>1. plog[m].client_seq = seq_[a] - 1
          BY <4>1, <4>2, <4>3
        <5>2. NewestIsCurrent(a)
          BY <1>3 DEF PlaceInv
        <5> QED
          BY <4>2, <4>4, <5>1, <5>2 DEF NewestIsCurrent
      <4> QED
        BY <4>3, <4>5 DEF Placed
    <3> QED
      BY <3>1, <3>2
  <2> QED
    BY <2>1, <2>2
<1>12. LogInv' /\ StoreIsReplay'
  BY <1>1, <1>3 DEF LogInv, StoreIsReplay, kvVars
<1>13. PlayInv'
  <2>1. tail <= ordered_idx_watermk'
    <3>1. tail <= ordered_idx_watermk /\ tail \in Nat /\ i \in Nat
      BY <1>3 DEF PlayInv, TypeOK
    <3>2. ordered_idx_watermk <= cl.hi
      BY <1>1, <1>3, <1>4 DEF ClInv
    <3> QED
      BY <3>1, <3>2, <1>2, <1>4
  <2> QED
    BY <2>1, <1>1, <1>3 DEF PlayInv, kvVars
<1> QED
  BY <1>7, <1>8, <1>9, <1>10, <1>11, <1>12, <1>13 DEF IInv

\* A shard learns the end of the batch.
LEMMA UpdateGlobalIdxStep ==
    ASSUME IInv, NEW s \in Shards, UpdateGlobalIdxOn(s), UNCHANGED kvVars
    PROVE  IInv'
<1>1. /\ cl.step = "announce" /\ s \in cl.todo
      /\ cl' = IF cl.todo = {s} THEN ClIdle ELSE [cl EXCEPT !.todo = @ \ {s}]
      /\ UNCHANGED <<clientVars, flight, complete, logVars, stored>>
  BY DEF UpdateGlobalIdxOn
<1>2. cl \in ClState
  BY DEF IInv, TypeOK
<1>3. /\ cl' \in ClState
      /\ \/ cl'.step = "fetch"
         \/ cl'.step = "announce" /\ cl'.lo = cl.lo /\ cl'.hi = cl.hi
  <2>1. CASE cl.todo = {s}
    BY <1>1, <2>1 DEF ClIdle, ClState
  <2>2. CASE cl.todo # {s}
    BY <1>1, <1>2, <2>2 DEF ClState
  <2> QED
    BY <2>1, <2>2
<1>4. TypeOK'
  BY <1>1, <1>3 DEF IInv, TypeOK, clientVars, logVars, kvVars
<1>5. CallInv' /\ PendingInv'
  BY <1>1, LoopParts
<1>6. PlaceInv' /\ LogInv' /\ HeldInv'
  BY <1>1, SameEntries DEF clientVars, logVars
<1>7. ClInv'
  BY <1>1, <1>3 DEF IInv, ClInv, IsStored, logVars
<1>8. PlayInv' /\ StoreIsReplay'
  BY <1>1 DEF IInv, PlayInv, StoreIsReplay, logVars, kvVars
<1> QED
  BY <1>4, <1>5, <1>6, <1>7, <1>8 DEF IInv

-----------------------------------------------------------------------------
(* The playlog thread *)

\* Its steps leave the log alone.
LEMMA PlayParts ==
    ASSUME IInv, UNCHANGED vars
    PROVE  CallInv' /\ PendingInv' /\ PlaceInv' /\ LogInv' /\ HeldInv' /\ ClInv'
<1>1. UNCHANGED <<clientVars, flight, complete, logVars, cl, shardVars>>
  BY DEF vars
<1>2. CallInv' /\ PendingInv'
  BY <1>1, LoopParts
<1>3. PlaceInv' /\ LogInv' /\ HeldInv'
  BY <1>1, SameEntries DEF clientVars, logVars, shardVars
<1>4. ClInv'
  BY <1>1 DEF IInv, ClInv, IsStored, logVars, shardVars
<1> QED
  BY <1>2, <1>3, <1>4

\* A new round begins where the last one ended.
LEMMA GetTailStep ==
    ASSUME IInv, GetTail
    PROVE  IInv'
<1>1. /\ i >= tail /\ i' = tail /\ tail' = ordered_idx_watermk /\ tail' > tail
      /\ kv_store' = kv_store /\ delivered' = delivered /\ UNCHANGED vars
  BY DEF GetTail, RoundFrom, OrderedTail
<1>2. TypeOK /\ PlayInv /\ StoreIsReplay
  BY DEF IInv
<1>3. tail \in Nat /\ i \in Nat /\ ordered_idx_watermk \in Nat /\ i <= tail
  BY <1>2 DEF TypeOK, PlayInv
<1>4. i' = i
  BY <1>1, <1>3
<1>5. UNCHANGED <<seq_, call, pending_reqs, flight, complete, plog, ordered_idx_watermk, held, cl, stored>>
  BY <1>1 DEF vars, clientVars, logVars, shardVars
<1>6. TypeOK'
  BY <1>1, <1>2, <1>3, <1>4, <1>5 DEF TypeOK
<1>7. PlayInv'
  BY <1>1, <1>2, <1>3, <1>4, <1>5 DEF PlayInv
<1>8. StoreIsReplay'
  BY <1>1, <1>2, <1>4, <1>5 DEF StoreIsReplay
<1> QED
  BY <1>1, <1>6, <1>7, <1>8, PlayParts DEF IInv

\* An entry is read and its key gets its value.
LEMMA PlayEntryStep ==
    ASSUME IInv, PlayEntry
    PROVE  IInv'
<1> DEFINE e == plog[i + 1]
<1>1. /\ i < tail /\ i' = i + 1 /\ tail' = tail /\ kv_store' = Assign(e)
      /\ delivered' = Append(delivered, e) /\ UNCHANGED vars
  BY DEF PlayEntry
<1>2. TypeOK /\ PlayInv /\ StoreIsReplay /\ ClInv
  BY DEF IInv
<1>3. /\ tail \in Nat /\ i \in Nat /\ ordered_idx_watermk \in Nat
      /\ tail <= ordered_idx_watermk /\ ordered_idx_watermk <= Len(plog)
      /\ delivered \in Seq(LogEntry)
  BY <1>2 DEF TypeOK, PlayInv, ClInv
<1>4. e \in LogEntry
  <2>1. i + 1 \in 1..Len(plog)
    BY <1>1, <1>3, Types
  <2> QED
    BY <2>1, Types
<1>5. UNCHANGED <<seq_, call, pending_reqs, flight, complete, plog, ordered_idx_watermk, held, cl, stored>>
  BY <1>1 DEF vars, clientVars, logVars, shardVars
<1> HIDE DEF e
<1>6. /\ delivered' \in Seq(LogEntry) /\ Len(delivered') = Len(delivered) + 1
      /\ \A j \in 1..Len(delivered) : delivered'[j] = delivered[j]
      /\ delivered'[Len(delivered) + 1] = e
  BY <1>1, <1>3, <1>4, LogAppend
<1>7. TypeOK'
  BY <1>1, <1>2, <1>3, <1>5, <1>6 DEF TypeOK
<1>8. PlayInv'
  <2>1. Len(delivered') = i + 1 /\ i + 1 <= tail
    BY <1>1, <1>2, <1>3, <1>6 DEF PlayInv
  <2>2. ASSUME NEW j \in 1..(i + 1) PROVE delivered'[j] = plog[j]
    <3>1. CASE j = i + 1
      BY <3>1, <1>2, <1>6 DEF PlayInv, e
    <3>2. CASE j \in 1..i
      BY <3>2, <1>2, <1>6 DEF PlayInv
    <3> QED
      BY <1>3, <3>1, <3>2
  <2> QED
    BY <1>1, <1>2, <1>5, <2>1, <2>2 DEF PlayInv
<1>9. StoreIsReplay'
  <2> SUFFICES ASSUME NEW k \in DOMAIN kv_store'
               PROVE  \E j \in 1..(i + 1) : /\ plog[j] = kv_store'[k]
                                            /\ \A l \in (j + 1)..(i + 1) : plog[l].data # k
    BY <1>1, <1>5 DEF StoreIsReplay
  <2>1. CASE k = e.data
    <3>1. kv_store'[k] = e
      BY <1>1, <2>1 DEF Assign
    <3>2. i + 1 \in 1..(i + 1) /\ \A l \in ((i + 1) + 1)..(i + 1) : FALSE
      BY <1>3
    <3> QED
      BY <3>1, <3>2 DEF e
  <2>2. CASE k # e.data
    <3>1. k \in DOMAIN kv_store /\ kv_store'[k] = kv_store[k]
      BY <1>1, <2>2 DEF Assign
    <3>2. PICK j \in 1..i : plog[j] = kv_store[k] /\ \A l \in (j + 1)..i : plog[l].data # k
      BY <1>2, <3>1 DEF StoreIsReplay
    <3>3. \A l \in (j + 1)..(i + 1) : l \in (j + 1)..i \/ l = i + 1
      BY <1>3
    <3>4. j \in 1..(i + 1)
      BY <1>3
    <3> QED
      BY <2>2, <3>1, <3>2, <3>3, <3>4 DEF e
  <2> QED
    BY <2>1, <2>2
<1> QED
  BY <1>1, <1>7, <1>8, <1>9, PlayParts DEF IInv

-----------------------------------------------------------------------------
(* The invariant *)

\* Every step of the system keeps the invariant.
LEMMA NextIInv == IInv /\ [Next]_<<vars, kvVars>> => IInv'
<1> SUFFICES ASSUME IInv, [Next]_<<vars, kvVars>> PROVE IInv'
  OBVIOUS
<1>1. ASSUME NEW c \in Clients, Insert(c) PROVE IInv'
  BY <1>1, InsertStep
<1>2. CASE ClientSteps
  <2>1. PICK c \in Clients : ClientStep(c)
    BY <1>2 DEF ClientSteps
  <2>2. UNCHANGED kvVars
    BY <1>2 DEF ClientSteps
  <2> QED
    BY <2>1, <2>2, AppendToNextStep, AppendReturnStep, PollQuorumStep DEF ClientStep
<1>3. CASE ReplicaSteps
  <2>1. PICK r \in Replicas, c \in Clients : AppendOn(r, c)
    BY <1>3 DEF ReplicaSteps
  <2>2. UNCHANGED kvVars
    BY <1>3 DEF ReplicaSteps
  <2>3. CASE r = Primary
    BY <2>1, <2>2, <2>3, PrimaryStep
  <2>4. CASE r \in Backups
    BY <2>1, <2>2, <2>4, BackupStep
  <2> QED
    BY <2>3, <2>4 DEF Replicas
<1>4. CASE ClSteps
  BY <1>4, FetchStep, AppendBatchStep, UpdateGlobalIdxStep, DeleteStep DEF ClSteps, ClStep
<1>5. CASE PlayStep
  BY <1>5, GetTailStep, PlayEntryStep DEF PlayStep
<1>6. CASE UNCHANGED <<vars, kvVars>>
  <2>1. UNCHANGED <<seq_, call, pending_reqs, flight, complete, plog, ordered_idx_watermk,
                    held, cl, stored, kv_store, tail, i, delivered>>
    BY <1>6 DEF vars, clientVars, logVars, shardVars, kvVars
  <2>2. TypeOK' /\ PlayInv' /\ StoreIsReplay'
    BY <2>1 DEF IInv, TypeOK, PlayInv, StoreIsReplay
  <2> QED
    BY <1>6, <2>2, PlayParts DEF IInv
<1> QED
  BY <1>1, <1>2, <1>3, <1>4, <1>5, <1>6 DEF Next

\* The invariant holds in every state of LazyLog with a key-value server.
THEOREM Invariance == Spec => []IInv
<1>1. KVInit => IInv
  BY InitIInv
<1>2. IInv /\ [Next]_<<vars, kvVars>> => IInv'
  BY NextIInv
<1> QED
  BY <1>1, <1>2, PTL DEF Spec

\* What an append that returned has put into the log is, on every replica of
\* the durability log or on a shard, safe from the loss of the others.
THEOREM AckedIsDurableThm == Spec => []AckedIsDurable
<1>1. ASSUME IInv PROVE AckedIsDurable
  <2> SUFFICES ASSUME NEW c \in Clients,
                      NEW n \in 1..(seq_[c] - (IF call[c] = NoCall THEN 1 ELSE 2))
               PROVE  \E k \in DOMAIN plog :
                         /\ plog[k].client_id = c /\ plog[k].client_seq = n
                         /\ \/ k - 1 \in Storage
                            \/ k > ordered_idx_watermk /\ \A b \in Backups : plog[k] \in held[b]
    BY DEF AckedIsDurable
  <2>1. PlaceInv /\ ClInv /\ HeldInv /\ ordered_idx_watermk \in Nat
    BY <1>1 DEF IInv, TypeOK
  <2>2. seq_[c] \in Nat
    BY <1>1, Types
  <2>3. n \in 0..(seq_[c] - 1) /\ n \in Nat /\ n >= 1 /\ (call[c] # NoCall => n # seq_[c] - 1)
    BY <2>2
  <2>4. PICK k \in 1..Len(plog) : plog[k].client_id = c /\ plog[k].client_seq = n
    BY <2>1, <2>3 DEF PlaceInv, EarlierPlaced
  <2>5. k \in DOMAIN plog /\ k \in Nat /\ k - 1 \in Nat
    BY <1>1, Types
  <2>6. \A b \in Backups : k - 1 \in Storage \/ plog[k] \in held[b]
    <3> SUFFICES ASSUME NEW b \in Backups PROVE k - 1 \in Storage \/ plog[k] \in held[b]
      OBVIOUS
    <3>1. ~Unanswered(plog[k], b)
      BY <2>3, <2>4 DEF Unanswered
    <3>2. PlacedIsHeld(b)
      BY <2>1 DEF HeldInv
    <3> QED
      BY <2>3, <2>4, <3>1, <3>2 DEF PlacedIsHeld
  <2>7. ASSUME ~(k > ordered_idx_watermk) PROVE k - 1 \in Storage
    <3>1. k - 1 \in 0..(ordered_idx_watermk - 1)
      BY <2>1, <2>5, <2>7
    <3>2. IsStored(k - 1)
      BY <2>1, <3>1 DEF ClInv
    <3> QED
      BY <2>5, <3>2, ShardType DEF IsStored, Storage
  <2> QED
    BY <2>4, <2>5, <2>6, <2>7
<1>2. IInv => AckedIsDurable
  BY <1>1
<1> QED
  BY <1>2, Invariance, PTL

\* The tail that a client is told covers entries that their shards have.
THEOREM ToldTailIsStoredThm == Spec => []ToldTailIsStored
<1>1. ASSUME IInv PROVE ToldTailIsStored
  <2>1. tail \in Nat /\ ordered_idx_watermk \in Nat /\ tail <= ordered_idx_watermk
    BY <1>1 DEF IInv, TypeOK, PlayInv
  <2>2. \A j \in 0..(ordered_idx_watermk - 1) : IsStored(j)
    BY <1>1 DEF IInv, ClInv
  <2> QED
    BY <2>1, <2>2 DEF ToldTailIsStored, IsStored
<1>2. IInv => ToldTailIsStored
  BY <1>1
<1> QED
  BY <1>2, Invariance, PTL

\* kv_store_ is a replay of the part of the log that was read.
THEOREM StoreIsReplayThm == Spec => []StoreIsReplay
<1>1. IInv => StoreIsReplay
  BY DEF IInv
<1> QED
  BY <1>1, Invariance, PTL

\* The queues of AppendEntryQuorum never hold more than one token of an
\* earlier call.
THEOREM PendingStaysShortThm == Spec => []PendingStaysShort
<1>1. IInv => PendingStaysShort
  BY DEF IInv, PendingInv, QueueInv, PendingStaysShort
<1> QED
  BY <1>1, Invariance, PTL

-----------------------------------------------------------------------------
(* The system implements a shared log *)

\* The call of a client as SharedLog sees it.
AbstractCall(c) == IF call[c] = NoCall THEN <<>>
                   ELSE <<IF Placed(c) THEN "placed" ELSE "called", Current(c)>>
AbstractCalls == [c \in Clients |-> AbstractCall(c)]

\* The shared log takes a step when a call starts ...
LEMMA CallSeen ==
    ASSUME NEW c \in Clients, call[c] = NoCall, UNCHANGED <<plog, delivered>>,
           \E e \in Entries : AbstractCalls' = [AbstractCalls EXCEPT ![c] = <<"called", e>>]
    PROVE  AbstractLog!Next
<1>1. AbstractLog!Call(c)
  BY DEF AbstractLog!Call, AbstractLog!None, AbstractCalls, AbstractCall
<1> QED
  BY <1>1 DEF AbstractLog!Next

\* ... when its entry gets an index ...
LEMMA PlaceSeen ==
    ASSUME NEW c \in Clients, call[c] # NoCall, ~Placed(c), UNCHANGED delivered,
           plog' = Append(plog, Current(c)),
           AbstractCalls' = [AbstractCalls EXCEPT ![c] = <<"placed", Current(c)>>]
    PROVE  AbstractLog!Next
<1>1. AbstractLog!TakePlace(c)
  BY DEF AbstractLog!TakePlace, AbstractLog!None, AbstractCalls, AbstractCall
<1> QED
  BY <1>1 DEF AbstractLog!Next

\* ... when it returns ...
LEMMA ReturnSeen ==
    ASSUME NEW c \in Clients, call[c] # NoCall, Placed(c), UNCHANGED <<plog, delivered>>,
           AbstractCalls' = [AbstractCalls EXCEPT ![c] = <<>>]
    PROVE  AbstractLog!Next
<1>1. AbstractLog!Return(c)
  BY DEF AbstractLog!Return, AbstractLog!None, AbstractCalls, AbstractCall
<1> QED
  BY <1>1 DEF AbstractLog!Next

\* ... and when the reader is handed an entry.
LEMMA DeliverSeen ==
    ASSUME Len(delivered) < Len(plog), UNCHANGED <<plog, AbstractCalls>>,
           delivered' = Append(delivered, plog[Len(delivered) + 1])
    PROVE  AbstractLog!Next
<1>1. AbstractLog!Deliver
  BY DEF AbstractLog!Deliver, AbstractCalls, AbstractCall
<1> QED
  BY <1>1 DEF AbstractLog!Next

\* It sees nothing of a step that leaves the log and the calls' entries alone.
LEMMA NothingSeen ==
    ASSUME plog' = plog, seq_' = seq_,
           \A c \in Clients : /\ call'[c] = NoCall <=> call[c] = NoCall
                              /\ call'[c].data = call[c].data
    PROVE  AbstractCalls' = AbstractCalls
<1>1. \A c \in Clients : Current(c)' = Current(c)
  BY DEF Current
<1>2. \A c \in Clients : Placed(c)' = Placed(c)
  BY <1>1 DEF Placed
<1>3. \A c \in Clients : AbstractCall(c)' = AbstractCall(c)
  BY <1>1, <1>2 DEF AbstractCall
<1> QED
  BY <1>3 DEF AbstractCalls

\* The steps of a client whose call alone changes.
LEMMA OneCallSeen ==
    ASSUME NEW c \in Clients, plog' = plog,
           \A a \in Clients \ {c} : call'[a] = call[a] /\ seq_'[a] = seq_[a]
    PROVE  AbstractCalls' = [AbstractCalls EXCEPT ![c] = AbstractCall(c)']
<1>1. \A a \in Clients \ {c} : Current(a)' = Current(a)
  BY DEF Current
<1>2. \A a \in Clients \ {c} : Placed(a)' = Placed(a)
  BY <1>1 DEF Placed
<1>3. \A a \in Clients \ {c} : AbstractCall(a)' = AbstractCall(a)
  BY <1>1, <1>2 DEF AbstractCall
<1>4. DOMAIN AbstractCalls = Clients /\ DOMAIN AbstractCalls' = Clients
  BY DEF AbstractCalls
<1> HIDE DEF AbstractCall
<1> QED
  BY <1>3 DEF AbstractCalls

\* The call that an insert starts is seen as a call of the shared log: its
\* entry is not in the log, and its number is below the bound.
LEMMA InsertSeen ==
    ASSUME IInv, NEW c \in Clients, Insert(c)
    PROVE  AbstractLog!Next
<1>1. PICK mode \in {"all", "quorum", "serial"}, d \in Data, to \in SUBSET Replicas :
         Start(c, mode, d, to)
  <2>1. PICK d \in Data : AppendEntryAll(c, d) \/ AppendEntryQuorum(c, d) \/ AppendEntry(c, d)
    BY DEF Insert
  <2>2. \A r \in Replicas : {r} \in SUBSET Replicas
    OBVIOUS
  <2> QED
    BY <2>1, <2>2 DEF AppendEntryAll, AppendEntryQuorum, AppendEntry
<1>2. /\ call[c] = NoCall /\ call'[c] # NoCall
      /\ seq_[c] \in Nat /\ seq_'[c] = seq_[c] + 1
      /\ call'[c] = [mode |-> mode, data |-> d, unsent |-> Replicas \ to]
      /\ plog' = plog
      /\ \A b \in Clients \ {c} : call'[b] = call[b] /\ seq_'[b] = seq_[b]
  BY <1>1, StartEffect
<1>3. delivered' = delivered /\ Len(plog) < MaxLen
  BY <1>1 DEF Insert, kvVars, Start
<1>4. PlaceInv /\ LogInv
  BY DEF IInv
<1>5. Current(c)' = [client_id |-> c, client_seq |-> seq_[c], data |-> d]
  <2>1. seq_'[c] - 1 = seq_[c] /\ call'[c].data = d
    BY <1>2
  <2> QED
    BY <2>1 DEF Current
<1>6. ~Placed(c)'
  <2> SUFFICES ASSUME NEW k \in 1..Len(plog), plog[k] = Current(c)' PROVE FALSE
    BY <1>2, Types DEF Placed
  <2>1. plog[k].client_id = c /\ plog[k].client_seq = seq_[c]
    BY <1>5
  <2>2. NewestIsCurrent(c)
    BY <1>4 DEF PlaceInv
  <2>3. plog[k].client_seq < seq_[c]
    BY <2>1, <2>2 DEF NewestIsCurrent
  <2> QED
    BY <2>1, <2>3, <1>2
<1>7. Current(c)' \in Entries
  <2>1. seq_[c] <= MaxLen
    <3>1. CASE seq_[c] = 0
      BY <3>1
    <3>2. CASE seq_[c] # 0
      <4>0. seq_[c] - 1 \in 0..(seq_[c] - 1)
        BY <1>2, <3>2
      <4>1. seq_[c] - 1 \in 0..(seq_[c] - 1) /\ EarlierPlaced(c)
        BY <1>4, <4>0 DEF PlaceInv
      <4>2. PICK k \in 1..Len(plog) : plog[k].client_seq = seq_[c] - 1
        BY <1>2, <4>1 DEF EarlierPlaced
      <4>3. plog[k].client_seq < k
        BY <1>4 DEF LogInv
      <4>4. Len(plog) \in Nat
        BY Types
      <4>5. seq_[c] - 1 < k
        BY <4>2, <4>3
      <4> QED
        BY <1>2, <1>3, <4>4, <4>5
    <3> QED
      BY <3>1, <3>2
  <2> QED
    BY <1>2, <1>5, <2>1 DEF Entries
<1>8. AbstractCall(c)' = <<"called", Current(c)'>>
  BY <1>2, <1>6 DEF AbstractCall
<1>9. AbstractCalls' = [AbstractCalls EXCEPT ![c] = <<"called", Current(c)'>>]
  BY <1>2, <1>8, OneCallSeen
<1> QED
  BY <1>2, <1>3, <1>7, <1>9, CallSeen

\* A call that returns has its entry in the log.
LEMMA ReturnIsSeen ==
    ASSUME IInv, NEW c \in Clients, call[c] # NoCall, <<Primary, c>> \in complete, Return(c),
           UNCHANGED <<seq_, plog, delivered>>
    PROVE  AbstractLog!Next
<1>1. call \in [Clients -> Call] /\ PlaceInv
  BY DEF IInv, TypeOK
<1>2. call'[c] = NoCall /\ \A a \in Clients \ {c} : call'[a] = call[a]
  BY <1>1 DEF Return
<1>3. Placed(c)
  BY <1>1 DEF PlaceInv
<1>4. AbstractCall(c)' = <<>>
  BY <1>2 DEF AbstractCall
<1>5. AbstractCalls' = [AbstractCalls EXCEPT ![c] = <<>>]
  BY <1>2, <1>4, OneCallSeen
<1> QED
  BY <1>3, <1>5, ReturnSeen

\* The primary gives the entry of a call its place, once.
LEMMA PrimaryIsSeen ==
    ASSUME IInv, NEW c \in Clients, AppendOn(Primary, c), UNCHANGED kvVars
    PROVE  AbstractLog!Next
<1>1. /\ call[c] # NoCall /\ <<Primary, c>> \notin complete
      /\ \A a \in Clients : Current(a)' = Current(a)
  BY AppendOnEffect DEF Replicas
<1>2. /\ plog' = Append(plog, Current(c)) /\ call' = call /\ delivered' = delivered
  BY DEF AppendOn, clientVars, kvVars
<1>3. TypeOK /\ CallInv /\ PlaceInv /\ plog \in Seq(LogEntry)
  BY DEF IInv, TypeOK
<1>4. Current(c) \in LogEntry /\ \A a \in Clients \ {c} : Current(a) # Current(c)
  <2>1. \A a \in Clients : Current(a).client_id = a
    BY DEF Current
  <2> QED
    BY <1>1, <1>3, <2>1, CurrentType
<1>5. /\ DOMAIN plog' = 1..(Len(plog) + 1) /\ DOMAIN plog = 1..Len(plog) /\ Len(plog) \in Nat
      /\ \A k \in 1..Len(plog) : plog'[k] = plog[k]
      /\ plog'[Len(plog) + 1] = Current(c)
  <2>1. /\ plog' \in Seq(LogEntry) /\ Len(plog') = Len(plog) + 1
        /\ DOMAIN plog = 1..Len(plog) /\ Len(plog) \in Nat
        /\ \A k \in 1..Len(plog) : plog'[k] = plog[k]
        /\ plog'[Len(plog) + 1] = Current(c)
    BY <1>2, <1>3, <1>4, LogAppend
  <2> QED
    BY <2>1, LenProperties
<1>6. ~Placed(c)
  <2> SUFFICES ASSUME NEW k \in 1..Len(plog), plog[k] = Current(c) PROVE FALSE
    BY <1>5 DEF Placed
  <2>1. plog[k].client_id = c /\ plog[k].client_seq = seq_[c] - 1
    BY DEF Current
  <2> QED
    BY <1>1, <1>3, <2>1 DEF PlaceInv, NewestIsCurrent
<1>7. Placed(c)'
  <2>1. Len(plog) + 1 \in DOMAIN plog'
    BY <1>5
  <2> QED
    BY <1>1, <1>5, <2>1 DEF Placed
<1>8. ASSUME NEW a \in Clients \ {c} PROVE Placed(a)' = Placed(a)
  <2>1. Placed(a)' => Placed(a)
    <3> SUFFICES ASSUME NEW k \in 1..(Len(plog) + 1), plog'[k] = Current(a) PROVE Placed(a)
      BY <1>1, <1>5 DEF Placed
    <3>1. k # Len(plog) + 1
      BY <1>4, <1>5
    <3>2. k \in 1..Len(plog)
      BY <1>5, <3>1
    <3> QED
      BY <1>5, <3>2 DEF Placed
  <2>2. Placed(a) => Placed(a)'
    BY <1>1, <1>5 DEF Placed
  <2>3. Placed(a) \in BOOLEAN /\ Placed(a)' \in BOOLEAN
    BY DEF Placed
  <2> QED
    BY <2>1, <2>2, <2>3
<1>9. \A a \in Clients \ {c} : AbstractCall(a)' = AbstractCall(a)
  BY <1>1, <1>2, <1>8 DEF AbstractCall
<1>10. AbstractCall(c)' = <<"placed", Current(c)>>
  BY <1>1, <1>2, <1>7 DEF AbstractCall
<1>11. AbstractCalls' = [AbstractCalls EXCEPT ![c] = <<"placed", Current(c)>>]
  BY <1>9, <1>10 DEF AbstractCalls
<1> QED
  BY <1>1, <1>2, <1>6, <1>11, PlaceSeen

\* Every step of LazyLog with the server is a step of the shared log, or one
\* that it does not see.
LEMMA NextIsSeen ==
    ASSUME IInv, [Next]_<<vars, kvVars>>
    PROVE  AbstractLog!Next \/ UNCHANGED <<plog, AbstractCalls, delivered>>
<1>1. ASSUME NEW c \in Clients, Insert(c) PROVE AbstractLog!Next
  BY <1>1, InsertSeen
<1>2. ASSUME NEW c \in Clients, AppendToNext(c), UNCHANGED kvVars
      PROVE  UNCHANGED <<plog, AbstractCalls, delivered>>
  <2>1. PICK r \in call[c].unsent : call' = [call EXCEPT ![c].unsent = @ \ {r}]
    BY <1>2 DEF AppendToNext
  <2>2. call \in [Clients -> Call] /\ call[c].mode = "serial"
    BY <1>2 DEF IInv, TypeOK, AppendToNext
  <2>3. /\ call'[c].mode = "serial" /\ call'[c].data = call[c].data
        /\ \A a \in Clients \ {c} : call'[a] = call[a]
    BY <2>1, <2>2 DEF Call
  <2>4. call[c] # NoCall /\ call'[c] # NoCall
    BY <2>2, <2>3 DEF NoCall
  <2>5. plog' = plog /\ seq_' = seq_ /\ delivered' = delivered
    BY <1>2 DEF AppendToNext, logVars, kvVars
  <2> QED
    BY <2>3, <2>4, <2>5, NothingSeen
<1>3. ASSUME NEW c \in Clients, AppendReturn(c), UNCHANGED kvVars PROVE AbstractLog!Next
  <2>1. call[c] # NoCall /\ <<Primary, c>> \in complete /\ Return(c)
    BY <1>3 DEF AppendReturn, NoCall, allCompleted, Replicas
  <2>2. UNCHANGED <<seq_, plog, delivered>>
    BY <1>3 DEF AppendReturn, logVars, kvVars
  <2> QED
    BY <2>1, <2>2, ReturnIsSeen
<1>4. ASSUME NEW c \in Clients, PollQuorum(c), UNCHANGED kvVars
      PROVE  AbstractLog!Next \/ UNCHANGED <<plog, AbstractCalls, delivered>>
  <2>1. UNCHANGED <<seq_, plog, delivered>> /\ call[c] # NoCall
    BY <1>4 DEF PollQuorum, NoCall, logVars, kvVars
  <2>2. CASE quorumCompleted(c)
    <3>1. <<Primary, c>> \in complete /\ Return(c)
      BY <1>4, <2>2 DEF PollQuorum, quorumCompleted
    <3> QED
      BY <2>1, <3>1, ReturnIsSeen
  <2>3. CASE ~quorumCompleted(c)
    <3>1. call' = call
      BY <1>4, <2>3 DEF PollQuorum
    <3> QED
      BY <2>1, <3>1, NothingSeen
  <2> QED
    BY <2>2, <2>3
<1>5. ASSUME NEW r \in Backups, NEW c \in Clients, AppendOn(r, c), UNCHANGED kvVars
      PROVE  UNCHANGED <<plog, AbstractCalls, delivered>>
  <2>1. call' = call /\ seq_' = seq_ /\ plog' = plog /\ delivered' = delivered
    BY <1>5 DEF AppendOn, clientVars, kvVars
  <2> QED
    BY <2>1, NothingSeen
<1>6. ASSUME ClSteps PROVE UNCHANGED <<plog, AbstractCalls, delivered>>
  <2>1. call' = call /\ seq_' = seq_ /\ plog' = plog /\ delivered' = delivered
    BY <1>6 DEF ClSteps, ClStep, Fetch, AppendBatchOn, UpdateGlobalIdxOn, DeleteOn,
                clientVars, logVars, kvVars
  <2> QED
    BY <2>1, NothingSeen
<1>7. ASSUME PlayStep PROVE AbstractLog!Next \/ UNCHANGED <<plog, AbstractCalls, delivered>>
  <2>1. UNCHANGED vars
    BY <1>7 DEF PlayStep, GetTail, PlayEntry
  <2>2. plog' = plog /\ AbstractCalls' = AbstractCalls
    BY <2>1, NothingSeen DEF vars, clientVars, logVars
  <2>3. CASE GetTail
    BY <2>2, <2>3 DEF GetTail
  <2>4. CASE PlayEntry
    <3>1. i < tail /\ delivered' = Append(delivered, plog[i + 1])
      BY <2>4 DEF PlayEntry
    <3>2. /\ i \in Nat /\ tail \in Nat /\ ordered_idx_watermk \in Nat /\ Len(plog) \in Nat
          /\ tail <= ordered_idx_watermk /\ ordered_idx_watermk <= Len(plog) /\ Len(delivered) = i
      BY Types DEF IInv, TypeOK, PlayInv, ClInv
    <3>3. Len(delivered) < Len(plog)
      BY <3>1, <3>2
    <3> QED
      BY <2>2, <3>1, <3>2, <3>3, DeliverSeen
  <2> QED
    BY <1>7, <2>3, <2>4 DEF PlayStep
<1>8. CASE UNCHANGED <<vars, kvVars>>
  BY <1>8, NothingSeen DEF vars, clientVars, logVars, kvVars
<1>9. CASE Next
  <2>1. CASE ClientSteps
    BY <2>1, <1>2, <1>3, <1>4 DEF ClientSteps, ClientStep
  <2>2. CASE ReplicaSteps
    <3>1. PICK r \in Replicas, c \in Clients : AppendOn(r, c)
      BY <2>2 DEF ReplicaSteps
    <3>2. UNCHANGED kvVars
      BY <2>2 DEF ReplicaSteps
    <3> QED
      BY <3>1, <3>2, <1>5, PrimaryIsSeen DEF Replicas
  <2> QED
    BY <1>1, <1>6, <1>7, <1>9, <2>1, <2>2 DEF Next
<1> QED
  BY <1>8, <1>9

\* LazyLog is a shared log: whatever its replicas, the consensus log and the
\* shards do, appends take their places in one order, each between its call
\* and its return, and the reader is handed exactly that order.
THEOREM ImplementsSharedLogThm == Spec => ImplementsSharedLog
<1>1. KVInit => AbstractLog!Init
  BY DEF KVInit, Init, AbstractLog!Init, AbstractLog!None
<1>2. ASSUME IInv, [Next]_<<vars, kvVars>>
      PROVE  [AbstractLog!Next]_<<plog, AbstractCalls, delivered>>
  BY <1>2, NextIsSeen
<1>3. IInv /\ [Next]_<<vars, kvVars>> => [AbstractLog!Next]_<<plog, AbstractCalls, delivered>>
  BY <1>2
<1> QED
  BY <1>1, <1>3, Invariance, PTL DEF Spec, ImplementsSharedLog, AbstractLog!Spec,
                                      AbstractCalls, AbstractCall

=============================================================================
