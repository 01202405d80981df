------------------------- MODULE DurLogBackupProofs -------------------------
(***************************************************************************)
(* Proofs about DurLogBackup, for every number of clients and requests and *)
(* every ring: space of the backup is freed only behind its writers, and   *)
(* what it deletes is ordered although the backup keeps another order than *)
(* the primary.                                                            *)
(***************************************************************************)
EXTENDS DurLogBackup, TLAPS, SequenceTheorems, WellFoundedInduction

-----------------------------------------------------------------------------
(* The inductive invariant *)

\* The steps of the delete call in which its position in the ring counts.
Scanning == gc.step \in {"loop", "advance"}

\* Every place before it has left the ring or is about to.
Scanned == IF Scanning THEN gc.s ELSE ordered_watermk

\* The parts of the record of the delete call.
CallRecord == gc = [step |-> gc.step, ids |-> gc.ids, maxOf |-> gc.maxOf,
                    max_seq |-> gc.max_seq, s |-> gc.s]

\* Types that TypeOK leaves open: the places of the map lie in the ring, and
\* the delete call keeps, for clients of its batch, a client_seq.
MapInv ==
    /\ \A rid \in DOMAIN reqid_to_seq_map : reqid_to_seq_map[rid] \in Nat
    /\ \A rid \in DOMAIN reqid_to_seq_map :
          reqid_to_seq_map[rid] <= Len(blog)
    /\ CallRecord

\* A client's requests reach the primary one after the other: those before
\* the one under way are there.
SentInv ==
    \A c \in Clients :
        /\ thread[c] # "idle" => seq_[c] > 0
        /\ \A q \in 0..(seq_[c] - 2) : <<c, q>> \in Range(plog)

\* The order of the primary keeps the order of each client's requests.
OrderInv ==
    \A i \in 1..Len(plog) : \A q \in 0..plog[i][2] :
        \E j \in 1..i : plog[j] = <<plog[i][1], q>>

\* An append between its critical section and its answer has its entry at its
\* place; it alone sets the flag.
PlaceInv ==
    \A c \in Clients :
        /\ thread[c] \in {"claimed", "flagged"} =>
              /\ place[c] < Len(blog)
              /\ blog[place[c] + 1].rid = Current(c)
        /\ thread[c] = "claimed" => blog[place[c] + 1].flag = 0

\* The ring has every request once, and none that is still to arrive.
OnceInv ==
    /\ \A i \in 1..Len(blog) :
          /\ blog[i].rid[2] < seq_[blog[i].rid[1]]
          /\ thread[blog[i].rid[1]] = "sent" => blog[i].rid # Current(blog[i].rid[1])
    /\ \A i, j \in 1..Len(blog) : blog[i].rid = blog[j].rid => i = j

\* The delete call is inside the ring, behind entries that are written, and
\* what it has of the batch is ordered.
CallInv ==
    /\ Scanned \in ordered_watermk..Len(blog)
    /\ \A i \in 1..Scanned : blog[i].flag = 1
    /\ gc.ids \subseteq OrderedIds
    /\ \A c \in DOMAIN gc.maxOf :
          gc.maxOf[c] \in Nat /\ <<c, gc.maxOf[c]>> \in OrderedIds

\* Pending entries come from places the scan has passed, and an entry there
\* that is not pending is ordered, or is the first of its client.
PendingInv ==
    /\ \A rid \in pending_entries : \E i \in 1..Scanned : blog[i].rid = rid
    /\ \A i \in 1..Scanned :
          \/ blog[i].rid \in pending_entries
          \/ blog[i].rid \in OrderedIds
          \/ blog[i].rid[2] = 0

IInv == /\ TypeOK /\ MapInv /\ SentInv /\ OrderInv
        /\ PlaceInv /\ OnceInv /\ CallInv /\ PendingInv

-----------------------------------------------------------------------------
(* Facts about the data the model is built from *)

\* A bounded set of naturals that is not empty has a largest element, which is
\* what the loop over the ids computes.
LEMMA LargestExists ==
    ASSUME NEW S, S \subseteq Nat, S # {}, NEW b \in Nat, \A x \in S : x <= b
    PROVE  MaxOrZero(S) \in S /\ \A n \in S : n <= MaxOrZero(S)
<1> DEFINE T == {b - x : x \in S}
           R == OpToRel(<, Nat)
<1>1. T \subseteq Nat /\ T # {}
  <2>1. \A x \in S : b - x \in Nat
    OBVIOUS
  <2>2. \E x \in S : b - x \in T
    OBVIOUS
  <2>3. T \subseteq Nat
    BY <2>1
  <2> QED
    BY <2>2, <2>3
<1>2. IsWellFoundedOn(R, Nat)
  BY NatLessThanWellFounded, Zenon
<1>3. ASSUME NEW y \in Nat, NEW z \in Nat, ~(<<y, z>> \in R) PROVE z <= y
  BY <1>3 DEF OpToRel
<1> HIDE DEF T, R
<1>4. PICK t \in T : \A u \in T : ~(<<u, t>> \in R)
  BY <1>1, <1>2, WFMin, Zenon
<1>5. \A u \in T : t <= u
  BY <1>1, <1>3, <1>4
<1>6. PICK m \in S : t = b - m
  BY DEF T
<1>7. ASSUME NEW n \in S PROVE n <= m
  <2>1. b - n \in T
    BY DEF T
  <2>2. b - m <= b - n
    BY <1>5, <1>6, <2>1
  <2> QED
    BY <2>2
<1>8. \E x \in S : \A n \in S : n <= x
  BY <1>7
<1> QED
  BY <1>8 DEF MaxOrZero

\* A request id is a client and a number.
LEMMA ReqIdParts ==
    /\ \A rid \in ReqIds : /\ rid[1] \in Clients /\ rid[2] \in 0..(MaxReqs - 1)
                           /\ rid = <<rid[1], rid[2]>>
    /\ \A c \in Clients, q \in 0..(MaxReqs - 1) : <<c, q>> \in ReqIds
    /\ \A c, q : <<c, q>>[1] = c /\ <<c, q>>[2] = q
BY DEF ReqIds

\* The types of the parts of the state that the proofs look at.
LEMMA Types ==
    ASSUME TypeOK
    PROVE  /\ \A c \in Clients : /\ seq_[c] \in 0..MaxReqs
                                 /\ thread[c] \in {"idle", "sent", "claimed", "flagged"}
                                 /\ place[c] \in Nat
           /\ DOMAIN seq_ = Clients /\ DOMAIN thread = Clients /\ DOMAIN place = Clients
           /\ Len(plog) \in Nat /\ Len(blog) \in Nat /\ ordered \in Nat
           /\ ordered <= Len(plog)
           /\ DOMAIN plog = 1..Len(plog) /\ DOMAIN blog = 1..Len(blog)
           /\ \A i \in 1..Len(plog) : plog[i] \in ReqIds
           /\ \A i \in 1..Len(blog) : /\ blog[i] \in [rid : ReqIds, flag : {0, 1}]
                                      /\ blog[i].rid \in ReqIds /\ blog[i].flag \in {0, 1}
           /\ ordered_watermk \in Nat /\ ordered_watermk <= Len(blog)
<1>1. plog \in Seq(ReqIds) /\ blog \in Seq([rid : ReqIds, flag : {0, 1}])
  BY DEF TypeOK
<1>2. /\ Len(plog) \in Nat /\ Len(blog) \in Nat
      /\ DOMAIN plog = 1..Len(plog) /\ DOMAIN blog = 1..Len(blog)
      /\ \A i \in 1..Len(plog) : plog[i] \in ReqIds
      /\ \A i \in 1..Len(blog) : blog[i] \in [rid : ReqIds, flag : {0, 1}]
  BY <1>1, LenProperties, ElementOfSeq
<1> QED
  BY <1>2 DEF TypeOK

\* A request under way has an id.
LEMMA CurrentIsReq ==
    ASSUME TypeOK, NEW c \in Clients, seq_[c] > 0
    PROVE  Current(c) \in ReqIds /\ Current(c)[1] = c /\ Current(c)[2] = seq_[c] - 1
<1>1. seq_[c] \in 0..MaxReqs
  BY Types
<1>2. MaxReqs \in Nat
  BY BackupAssumption
<1>3. seq_[c] - 1 \in 0..(MaxReqs - 1)
  BY <1>1, <1>2
<1> QED
  BY <1>3, ReqIdParts DEF Current

\* Appending keeps a sequence and what lies in it.
LEMMA AppendKeeps ==
    ASSUME NEW S, NEW q \in Seq(S), NEW e \in S, NEW r, r = Append(q, e)
    PROVE  /\ r \in Seq(S) /\ Len(r) = Len(q) + 1 /\ Len(q) \in Nat
           /\ \A i \in 1..Len(q) : r[i] = q[i]
           /\ r[Len(q) + 1] = e
           /\ DOMAIN q = 1..Len(q) /\ DOMAIN r = 1..(Len(q) + 1)
BY AppendProperties, LenProperties

\* If a request is ordered, so are those the client sent before it.
LEMMA OrderedBefore ==
    ASSUME TypeOK, OrderInv, NEW c, NEW m \in Nat, <<c, m>> \in OrderedIds,
           NEW q \in 0..m
    PROVE  <<c, q>> \in OrderedIds
<1>1. PICK i \in 1..ordered : plog[i] = <<c, m>>
  BY DEF OrderedIds
<1>2. i \in 1..Len(plog) /\ ordered \in Nat
  BY Types
<1>3. plog[i][1] = c /\ plog[i][2] = m
  BY <1>1, ReqIdParts
<1>4. PICK j \in 1..i : plog[j] = <<c, q>>
  BY <1>2, <1>3 DEF OrderInv
<1>5. j \in 1..ordered
  BY <1>2
<1> QED
  BY <1>4, <1>5 DEF OrderedIds

-----------------------------------------------------------------------------
(* The initial state *)

\* With no request sent and an empty ring the invariant holds.
LEMMA InitIInv == Init => IInv
<1> SUFFICES ASSUME Init PROVE IInv
  OBVIOUS
<1> USE BackupAssumption
<1>1. /\ plog \in Seq(ReqIds) /\ blog \in Seq([rid : ReqIds, flag : {0, 1}])
      /\ Len(plog) = 0 /\ Len(blog) = 0
  BY EmptySeq DEF Init
<1>2. DOMAIN reqid_to_seq_map = {} /\ DOMAIN gc.maxOf = {}
  BY DEF Init, NoCall
<1>3. gc.step = "idle" /\ gc.ids = {} /\ gc.max_seq = 0 /\ gc.s = 0
  BY DEF Init, NoCall
<1>4. /\ seq_ \in [Clients -> 0..MaxReqs] /\ ordered = 0
      /\ thread \in [Clients -> {"idle", "sent", "claimed", "flagged"}]
      /\ place \in [Clients -> Nat] /\ ordered_watermk = 0 /\ lk = {} /\ pending_entries = {}
      /\ \A c \in Clients : seq_[c] = 0 /\ thread[c] = "idle"
  BY DEF Init
<1>5. TypeOK
  BY <1>1, <1>2, <1>3, <1>4 DEF TypeOK
<1>6. MapInv
  BY <1>2 DEF MapInv, CallRecord, Init, NoCall
<1>7. SentInv /\ OrderInv
  BY <1>1, <1>4 DEF SentInv, OrderInv
<1>8. PlaceInv /\ OnceInv
  BY <1>1, <1>4 DEF PlaceInv, OnceInv
<1>9. Scanned = 0
  BY <1>3, <1>4 DEF Scanned, Scanning
<1>10. CallInv
  BY <1>1, <1>2, <1>3, <1>4, <1>9 DEF CallInv
<1>11. PendingInv
  BY <1>4, <1>9 DEF PendingInv
<1> QED
  BY <1>5, <1>6, <1>7, <1>8, <1>10, <1>11 DEF IInv

-----------------------------------------------------------------------------
(* What the two sides of the backup leave to each other *)

\* Steps of the delete call and of the consensus log keep what the appends
\* rely on.
LEMMA CallKeepsAppends ==
    ASSUME IInv, UNCHANGED <<clientVars, appendVars>>
    PROVE  SentInv' /\ OrderInv' /\ PlaceInv' /\ OnceInv'
<1> USE DEF clientVars, appendVars
<1>1. SentInv'
  BY DEF IInv, SentInv
<1>2. OrderInv'
  BY DEF IInv, OrderInv
<1>3. PlaceInv'
  BY DEF IInv, PlaceInv, Current
<1>4. OnceInv'
  BY DEF IInv, OnceInv, Current
<1> QED
  BY <1>1, <1>2, <1>3, <1>4

\* Steps of clients and appends keep what the delete call has done, as long
\* as the ring only grows, keeps its requests and sets flags, and what was
\* ordered stays ordered.
LEMMA AppendsKeepCall ==
    ASSUME IInv, UNCHANGED <<gc, ordered_watermk, pending_entries>>,
           OrderedIds' = OrderedIds,
           Len(blog)' \in Nat, Len(blog) <= Len(blog)',
           \A i \in 1..Len(blog) : /\ blog'[i].rid = blog[i].rid
                                   /\ blog[i].flag = 1 => blog'[i].flag = 1
    PROVE  CallInv' /\ PendingInv'
<1>1. Scanned' = Scanned
  BY DEF Scanned, Scanning
<1>2. Len(blog) \in Nat /\ ordered_watermk \in Nat
  BY Types DEF IInv
<1>3. Scanned \in ordered_watermk..Len(blog)
  BY DEF IInv, CallInv
<1>4. /\ \A i \in 1..Scanned : i \in 1..Len(blog)
      /\ Scanned \in ordered_watermk..(Len(blog)')
  BY <1>2, <1>3
<1>5. CallInv'
  <2>1. \A i \in 1..Scanned : blog'[i].flag = 1
    BY <1>4 DEF IInv, CallInv
  <2>2. gc.ids \subseteq OrderedIds
    BY DEF IInv, CallInv
  <2>3. \A c \in DOMAIN gc.maxOf :
          gc.maxOf[c] \in Nat /\ <<c, gc.maxOf[c]>> \in OrderedIds
    BY DEF IInv, CallInv
  <2> QED
    BY <1>1, <1>4, <2>1, <2>2, <2>3 DEF CallInv
<1>6. PendingInv'
  <2>1. \A i \in 1..Scanned : blog'[i].rid = blog[i].rid
    BY <1>4
  <2>2. \A rid \in pending_entries : \E i \in 1..Scanned : blog[i].rid = rid
    BY DEF IInv, PendingInv
  <2>3. \A i \in 1..Scanned : \/ blog[i].rid \in pending_entries
                              \/ blog[i].rid \in OrderedIds
                              \/ blog[i].rid[2] = 0
    BY DEF IInv, PendingInv
  <2> QED
    BY <1>1, <2>1, <2>2, <2>3 DEF PendingInv
<1> QED
  BY <1>5, <1>6

-----------------------------------------------------------------------------
(* The clients and the primary *)

\* A client sends its next request once the primary has the one before.
LEMMA AppendEntryAllKeeps ==
    ASSUME IInv, NEW c \in Clients, AppendEntryAll(c)
    PROVE  IInv'
<1>1. TypeOK /\ MaxReqs \in Nat
  BY BackupAssumption DEF IInv
<1>2. /\ seq_ \in [Clients -> 0..MaxReqs]
      /\ thread \in [Clients -> {"idle", "sent", "claimed", "flagged"}]
  BY <1>1 DEF TypeOK
<1>3. /\ UNCHANGED <<plog, ordered, place, blog, ordered_watermk, lk,
                     reqid_to_seq_map, pending_entries, gc>>
      /\ seq_[c] < MaxReqs /\ thread[c] = "idle"
      /\ seq_[c] > 0 => OnPrimary(Current(c))
      /\ seq_' = [seq_ EXCEPT ![c] = @ + 1] /\ thread' = [thread EXCEPT ![c] = "sent"]
  BY DEF AppendEntryAll
<1>4. /\ seq_' \in [Clients -> 0..MaxReqs]
      /\ thread' \in [Clients -> {"idle", "sent", "claimed", "flagged"}]
      /\ seq_'[c] = seq_[c] + 1 /\ thread'[c] = "sent" /\ seq_[c] \in Nat
      /\ \A d \in Clients : d # c => seq_'[d] = seq_[d] /\ thread'[d] = thread[d]
  BY <1>1, <1>2, <1>3
<1>5. TypeOK' /\ MapInv'
  BY <1>3, <1>4 DEF IInv, TypeOK, MapInv, CallRecord
<1>6. OrderInv' /\ OrderedIds' = OrderedIds
  BY <1>3 DEF IInv, OrderInv, OrderedIds
<1>7. SentInv'
  <2>1. ASSUME NEW q \in 0..(seq_'[c] - 2) PROVE <<c, q>> \in Range(plog)
    <3>1. CASE q = seq_[c] - 1
      BY <1>3, <1>4, <3>1 DEF OnPrimary, Current
    <3>2. CASE q # seq_[c] - 1
      BY <1>4, <3>2 DEF IInv, SentInv
    <3> QED
      BY <3>1, <3>2
  <2>2. ASSUME NEW d \in Clients, d # c
        PROVE  /\ thread'[d] # "idle" => seq_'[d] > 0
               /\ \A q \in 0..(seq_'[d] - 2) : <<d, q>> \in Range(plog)
    BY <1>4, <2>2 DEF IInv, SentInv
  <2> QED
    BY <1>3, <1>4, <2>1, <2>2 DEF SentInv
<1>8. PlaceInv'
  <2>1. ASSUME NEW d \in Clients, d # c PROVE Current(d)' = Current(d)
    BY <1>4, <2>1 DEF Current
  <2> QED
    BY <1>3, <1>4, <2>1 DEF IInv, PlaceInv
<1>9. OnceInv'
  <2>1. ASSUME NEW i \in 1..Len(blog)
        PROVE  /\ blog[i].rid[2] < seq_'[blog[i].rid[1]]
               /\ thread'[blog[i].rid[1]] = "sent" => blog[i].rid # Current(blog[i].rid[1])'
    <3> DEFINE d == blog[i].rid[1]
    <3>1. d \in Clients /\ blog[i].rid[2] \in Nat /\ blog[i].rid = <<d, blog[i].rid[2]>>
      BY <1>1, Types, ReqIdParts
    <3>2. blog[i].rid[2] < seq_[d] /\ seq_[d] \in Nat
      BY <1>1, <3>1, Types DEF IInv, OnceInv
    <3>3. CASE d = c
      BY <1>3, <1>4, <3>1, <3>2, <3>3 DEF Current
    <3>4. CASE d # c
      <4>1. Current(d)' = Current(d)
        BY <1>3, <1>4, <3>1, <3>4 DEF Current
      <4> QED
        BY <1>4, <3>1, <3>2, <3>4, <4>1 DEF IInv, OnceInv
    <3> QED
      BY <3>3, <3>4
  <2> QED
    BY <1>3, <2>1 DEF IInv, OnceInv
<1>10. CallInv' /\ PendingInv'
  <2>1. Len(blog) \in Nat
    BY <1>1, Types
  <2> QED
    BY <1>3, <1>6, <2>1, AppendsKeepCall
<1> QED
  BY <1>5, <1>6, <1>7, <1>8, <1>9, <1>10 DEF IInv

\* The primary gives the request of a client the next index.
LEMMA PrimaryAppendKeeps ==
    ASSUME IInv, NEW c \in Clients, PrimaryAppend(c)
    PROVE  IInv'
<1>1. TypeOK /\ MaxReqs \in Nat
  BY BackupAssumption DEF IInv
<1>2. /\ UNCHANGED <<seq_, ordered, thread, place, blog, ordered_watermk, lk,
                     reqid_to_seq_map, pending_entries, gc>>
      /\ seq_[c] > 0 /\ plog' = Append(plog, Current(c))
  BY DEF PrimaryAppend, appendVars
<1>3. /\ Current(c) \in ReqIds /\ Current(c) = <<c, seq_[c] - 1>>
      /\ Current(c)[1] = c /\ Current(c)[2] = seq_[c] - 1
  BY <1>1, <1>2, CurrentIsReq DEF Current
<1>4. plog \in Seq(ReqIds) /\ ordered \in Nat /\ ordered <= Len(plog) /\ Len(blog) \in Nat
      /\ seq_[c] \in Nat
  BY <1>1, Types DEF TypeOK
<1>5. /\ plog' \in Seq(ReqIds) /\ Len(plog)' = Len(plog) + 1 /\ Len(plog) \in Nat
      /\ \A i \in 1..Len(plog) : plog'[i] = plog[i]
      /\ plog'[Len(plog) + 1] = Current(c)
      /\ DOMAIN plog = 1..Len(plog) /\ DOMAIN plog' = 1..(Len(plog) + 1)
  <2> HIDE DEF Current
  <2> QED
    BY <1>2, <1>3, <1>4, AppendKeeps
<1>6. TypeOK' /\ MapInv'
  <2>1. ordered' \in 0..Len(plog')
    BY <1>2, <1>4, <1>5
  <2> QED
    BY <1>2, <1>5, <2>1 DEF IInv, TypeOK, MapInv, CallRecord
<1>7. OrderedIds' = OrderedIds
  <2>1. \A i \in 1..ordered : plog'[i] = plog[i]
    BY <1>4, <1>5
  <2> QED
    BY <1>2, <2>1 DEF OrderedIds
<1>8. SentInv'
  <2>1. ASSUME NEW rid \in Range(plog) PROVE rid \in Range(plog')
    <3>1. PICK i \in 1..Len(plog) : plog[i] = rid
      BY <1>5 DEF Range
    <3>2. i \in DOMAIN plog' /\ plog'[i] = rid
      BY <1>5, <3>1
    <3> QED
      BY <3>2 DEF Range
  <2> QED
    BY <1>2, <2>1 DEF IInv, SentInv
<1>9. OrderInv'
  <2> SUFFICES ASSUME NEW i \in 1..(Len(plog) + 1), NEW q \in 0..plog'[i][2]
               PROVE  \E j \in 1..i : plog'[j] = <<plog'[i][1], q>>
    BY <1>5 DEF OrderInv
  <2>1. CASE i \in 1..Len(plog)
    <3>1. PICK j \in 1..i : plog[j] = <<plog[i][1], q>>
      BY <1>5, <2>1 DEF IInv, OrderInv
    <3>2. j \in 1..Len(plog)
      BY <1>4, <2>1
    <3> QED
      BY <1>5, <2>1, <3>1, <3>2
  <2>2. CASE i = Len(plog) + 1
    <3>1. CASE q = seq_[c] - 1
      <4>1. i \in 1..i
        BY <1>5, <2>2
      <4> QED
        BY <1>3, <1>5, <2>2, <3>1, <4>1
    <3>2. CASE q # seq_[c] - 1
      <4>1. q \in 0..(seq_[c] - 2)
        BY <1>3, <1>4, <1>5, <2>2, <3>2
      <4>2. <<c, q>> \in Range(plog)
        BY <4>1 DEF IInv, SentInv
      <4>3. PICK j \in 1..Len(plog) : plog[j] = <<c, q>>
        BY <1>5, <4>2 DEF Range
      <4>4. j \in 1..i /\ plog'[j] = <<c, q>>
        BY <1>5, <2>2, <4>3
      <4> QED
        BY <1>3, <1>5, <2>2, <4>4
    <3> QED
      BY <3>1, <3>2
  <2> QED
    BY <1>5, <2>1, <2>2
<1>10. PlaceInv' /\ OnceInv'
  BY <1>2 DEF IInv, PlaceInv, OnceInv, Current
<1>11. CallInv' /\ PendingInv'
  BY <1>2, <1>4, <1>7, AppendsKeepCall
<1> QED
  BY <1>6, <1>8, <1>9, <1>10, <1>11 DEF IInv

-----------------------------------------------------------------------------
(* AppendEntry on the backup *)

\* A request takes the next place, with its flag cleared.
LEMMA ClaimKeeps ==
    ASSUME IInv, NEW c \in Clients, Claim(c)
    PROVE  IInv'
<1>1. TypeOK /\ MaxReqs \in Nat
  BY BackupAssumption DEF IInv
<1> DEFINE new == [rid |-> Current(c), flag |-> 0]
           n == Len(blog)
<1>2. /\ UNCHANGED <<seq_, plog, ordered, ordered_watermk, lk,
                     reqid_to_seq_map, pending_entries, gc>>
      /\ thread[c] = "sent" /\ thread' = [thread EXCEPT ![c] = "claimed"]
      /\ place' = [place EXCEPT ![c] = n] /\ blog' = Append(blog, new)
  BY DEF Claim, clientVars
<1>3. /\ seq_[c] > 0 /\ \A d \in Clients : seq_[d] \in Nat
  BY <1>1, <1>2, Types DEF IInv, SentInv
<1>4. Current(c) \in ReqIds /\ Current(c)[1] = c /\ Current(c)[2] = seq_[c] - 1
  BY <1>1, <1>3, CurrentIsReq
<1>5. blog \in Seq([rid : ReqIds, flag : {0, 1}]) /\ new \in [rid : ReqIds, flag : {0, 1}]
  BY <1>1, <1>4 DEF TypeOK
<1>6. new.rid = Current(c) /\ new.flag = 0
  OBVIOUS
<1> HIDE DEF new
<1>7. /\ blog' \in Seq([rid : ReqIds, flag : {0, 1}])
      /\ Len(blog') = n + 1 /\ n \in Nat
      /\ \A i \in 1..n : blog'[i] = blog[i]
      /\ blog'[n + 1] = new
  BY <1>2, <1>5, AppendKeeps
<1> HIDE DEF n
<1>8. /\ thread' \in [Clients -> {"idle", "sent", "claimed", "flagged"}]
      /\ place' \in [Clients -> Nat]
      /\ thread'[c] = "claimed" /\ place'[c] = n
      /\ \A d \in Clients : d # c => thread'[d] = thread[d] /\ place'[d] = place[d]
  <2>1. /\ thread \in [Clients -> {"idle", "sent", "claimed", "flagged"}]
        /\ place \in [Clients -> Nat]
    BY <1>1 DEF TypeOK
  <2> QED
    BY <1>2, <1>7, <2>1
<1>9. Len(blog) = n
  BY DEF n
<1>10. TypeOK' /\ MapInv'
  <2>1. ordered_watermk' \in 0..Len(blog')
    BY <1>1, <1>2, <1>7, <1>9 DEF TypeOK
  <2>2. TypeOK'
    BY <1>2, <1>7, <1>8, <2>1 DEF IInv, TypeOK
  <2>3. ASSUME NEW rid \in DOMAIN reqid_to_seq_map
        PROVE  reqid_to_seq_map[rid] \in Nat /\ reqid_to_seq_map[rid] <= n + 1
    BY <1>7, <1>9 DEF IInv, MapInv, CallRecord
  <2> QED
    BY <1>2, <1>7, <2>2, <2>3 DEF IInv, MapInv, CallRecord
<1>11. OrderInv' /\ OrderedIds' = OrderedIds
  BY <1>2 DEF IInv, OrderInv, OrderedIds
<1>12. SentInv'
  BY <1>2, <1>3, <1>8 DEF IInv, SentInv
<1>13. \A d \in Clients : Current(d)' = Current(d)
  BY <1>2 DEF Current
<1>14. PlaceInv'
  <2>1. ASSUME NEW d \in Clients, d # c
        PROVE  /\ thread[d] \in {"claimed", "flagged"} =>
                    /\ place[d] < n + 1
                    /\ blog'[place[d] + 1].rid = Current(d)
               /\ thread[d] = "claimed" => blog'[place[d] + 1].flag = 0
    <3>1. ASSUME thread[d] \in {"claimed", "flagged"}
          PROVE  /\ place[d] < n /\ blog[place[d] + 1].rid = Current(d)
                 /\ thread[d] = "claimed" => blog[place[d] + 1].flag = 0
      BY <1>9, <3>1 DEF IInv, PlaceInv
    <3>2. ASSUME thread[d] \in {"claimed", "flagged"}
          PROVE  place[d] + 1 \in 1..n /\ place[d] < n + 1
      BY <1>1, <1>7, <3>1, <3>2, Types
    <3> QED
      BY <1>7, <3>1, <3>2
  <2> QED
    BY <1>6, <1>7, <1>8, <1>13, <2>1 DEF PlaceInv
<1>15. OnceInv'
  <2>1. ASSUME NEW i \in 1..n
        PROVE  /\ blog[i].rid \in ReqIds /\ blog[i].rid[1] \in Clients
               /\ blog[i].rid[2] < seq_[blog[i].rid[1]]
               /\ thread[blog[i].rid[1]] = "sent" => blog[i].rid # Current(blog[i].rid[1])
    BY <1>1, <1>9, Types, ReqIdParts DEF IInv, OnceInv
  <2>2. ASSUME NEW i \in 1..n
        PROVE  blog[i].rid # new.rid
    BY <1>2, <1>4, <1>6, <2>1
  <2>3. ASSUME NEW i \in 1..(n + 1)
        PROVE  /\ blog'[i].rid[2] < seq_'[blog'[i].rid[1]]
               /\ thread'[blog'[i].rid[1]] = "sent" => blog'[i].rid # Current(blog[i].rid[1])'
    <3>1. CASE i \in 1..n
      <4> DEFINE d == blog[i].rid[1]
      <4>1. thread'[d] = "sent" => thread[d] = "sent"
        BY <1>8, <2>1, <3>1
      <4>2. d \in Clients /\ Current(blog[i].rid[1])' = Current(d)
        BY <1>2, <1>7, <2>1, <3>1 DEF Current
      <4> QED
        BY <1>2, <1>7, <2>1, <3>1, <4>1, <4>2
    <3>2. CASE i = n + 1
      <4>1. blog'[i].rid[1] = c /\ blog'[i].rid[2] = seq_[c] - 1
        BY <1>4, <1>6, <1>7, <3>2
      <4> QED
        BY <1>2, <1>3, <1>8, <4>1
    <3> QED
      BY <1>7, <3>1, <3>2
  <2>4. ASSUME NEW i \in 1..(n + 1), NEW j \in 1..(n + 1), blog'[i].rid = blog'[j].rid
        PROVE  i = j
    <3>1. CASE i \in 1..n /\ j \in 1..n
      BY <1>7, <1>9, <2>4, <3>1 DEF IInv, OnceInv
    <3>2. CASE i \in 1..n /\ j = n + 1
      BY <1>7, <2>2, <2>4, <3>2
    <3>3. CASE i = n + 1 /\ j \in 1..n
      BY <1>7, <2>2, <2>4, <3>3
    <3> QED
      BY <1>7, <3>1, <3>2, <3>3
  <2> QED
    BY <1>7, <2>3, <2>4 DEF OnceInv
<1>16. CallInv' /\ PendingInv'
  <2>1. Len(blog)' \in Nat /\ Len(blog) <= Len(blog)'
    BY <1>7, <1>9
  <2>2. \A i \in 1..Len(blog) : /\ blog'[i].rid = blog[i].rid
                                /\ blog[i].flag = 1 => blog'[i].flag = 1
    BY <1>7, <1>9
  <2> QED
    BY <1>2, <1>11, <2>1, <2>2, AppendsKeepCall
<1> QED
  BY <1>10, <1>11, <1>12, <1>14, <1>15, <1>16 DEF IInv

\* The thread that took a place, and no other, sets its flag.
LEMMA SetFlagKeeps ==
    ASSUME IInv, NEW c \in Clients, SetFlag(c)
    PROVE  IInv'
<1>1. TypeOK
  BY DEF IInv
<1> DEFINE p == place[c] + 1
<1>2. /\ UNCHANGED <<seq_, plog, ordered, place, ordered_watermk, lk,
                     reqid_to_seq_map, pending_entries, gc>>
      /\ thread[c] = "claimed" /\ thread' = [thread EXCEPT ![c] = "flagged"]
      /\ blog' = [blog EXCEPT ![p].flag = 1]
  BY DEF SetFlag, clientVars
<1>3. /\ p \in 1..Len(blog) /\ blog[p].rid = Current(c) /\ Len(blog) \in Nat
      /\ blog \in Seq([rid : ReqIds, flag : {0, 1}]) /\ DOMAIN blog = 1..Len(blog)
      /\ blog[p] \in [rid : ReqIds, flag : {0, 1}]
  <2>1. place[c] < Len(blog) /\ place[c] \in Nat /\ Len(blog) \in Nat
    BY <1>1, <1>2, Types DEF IInv, PlaceInv
  <2>2. p \in 1..Len(blog)
    BY <2>1
  <2> QED
    BY <1>1, <1>2, <2>1, <2>2, Types DEF IInv, PlaceInv, TypeOK
<1> HIDE DEF p
<1>4. blog' = [blog EXCEPT ![p] = [blog[p] EXCEPT !.flag = 1]]
  BY <1>2
<1>5. /\ [blog[p] EXCEPT !.flag = 1] \in [rid : ReqIds, flag : {0, 1}]
      /\ [blog[p] EXCEPT !.flag = 1].rid = blog[p].rid
      /\ [blog[p] EXCEPT !.flag = 1].flag = 1
  BY <1>3
<1>6. /\ blog' \in Seq([rid : ReqIds, flag : {0, 1}]) /\ Len(blog') = Len(blog)
      /\ \A i \in 1..Len(blog) : i # p => blog'[i] = blog[i]
      /\ blog'[p] = [blog[p] EXCEPT !.flag = 1]
  BY <1>3, <1>4, <1>5, ExceptSeq
<1>7. /\ \A i \in 1..Len(blog) : blog'[i].rid = blog[i].rid
      /\ \A i \in 1..Len(blog) : blog[i].flag = 1 => blog'[i].flag = 1
  BY <1>5, <1>6
<1>8. /\ thread' \in [Clients -> {"idle", "sent", "claimed", "flagged"}]
      /\ thread'[c] = "flagged"
      /\ \A d \in Clients : d # c => thread'[d] = thread[d]
  <2>1. thread \in [Clients -> {"idle", "sent", "claimed", "flagged"}]
    BY <1>1 DEF TypeOK
  <2> QED
    BY <1>2, <2>1
<1>9. TypeOK' /\ MapInv'
  BY <1>2, <1>6, <1>8 DEF IInv, TypeOK, MapInv, CallRecord
<1>10. OrderInv' /\ OrderedIds' = OrderedIds
  BY <1>2 DEF IInv, OrderInv, OrderedIds
<1>11. SentInv'
  BY <1>2, <1>8 DEF IInv, SentInv
<1>12. PlaceInv'
  <2>1. ASSUME NEW d \in Clients, thread'[d] \in {"claimed", "flagged"}
        PROVE  /\ place[d] < Len(blog) /\ blog'[place[d] + 1].rid = Current(d)
               /\ thread'[d] = "claimed" => blog'[place[d] + 1].flag = 0
    <3>1. thread[d] \in {"claimed", "flagged"}
      BY <1>2, <1>8, <2>1
    <3>2. /\ place[d] < Len(blog) /\ place[d] + 1 \in 1..Len(blog)
          /\ blog[place[d] + 1].rid = Current(d)
          /\ thread[d] = "claimed" => blog[place[d] + 1].flag = 0
      BY <1>1, <3>1, Types DEF IInv, PlaceInv
    <3>3. ASSUME d # c PROVE place[d] + 1 # p
      <4>1. Current(d) # Current(c)
        BY <3>3 DEF Current
      <4> QED
        BY <1>3, <3>2, <4>1
    <3> QED
      BY <1>6, <1>7, <1>8, <3>2, <3>3
  <2>2. \A d \in Clients : Current(d)' = Current(d)
    BY <1>2 DEF Current
  <2> QED
    BY <1>2, <1>6, <1>8, <2>1, <2>2 DEF PlaceInv
<1>13. OnceInv'
  <2>1. ASSUME NEW i \in 1..Len(blog)
        PROVE  /\ blog[i].rid[1] \in Clients
               /\ blog[i].rid[2] < seq_[blog[i].rid[1]]
               /\ thread[blog[i].rid[1]] = "sent" => blog[i].rid # Current(blog[i].rid[1])
    BY <1>1, Types, ReqIdParts DEF IInv, OnceInv
  <2>2. ASSUME NEW i \in 1..Len(blog)
        PROVE  /\ blog'[i].rid[2] < seq_'[blog'[i].rid[1]]
               /\ thread'[blog'[i].rid[1]] = "sent" => blog'[i].rid # Current(blog[i].rid[1])'
    <3>1. Current(blog[i].rid[1])' = Current(blog[i].rid[1])
      BY <1>2, <1>7 DEF Current
    <3> QED
      BY <1>2, <1>7, <1>8, <2>1, <3>1
  <2>3. \A i, j \in 1..Len(blog) : blog'[i].rid = blog'[j].rid => i = j
    BY <1>7 DEF IInv, OnceInv
  <2> QED
    BY <1>6, <2>2, <2>3 DEF OnceInv
<1>14. CallInv' /\ PendingInv'
  <2>1. Len(blog)' \in Nat /\ Len(blog) <= Len(blog)'
    BY <1>3, <1>6
  <2> QED
    BY <1>2, <1>7, <1>10, <2>1, AppendsKeepCall
<1> QED
  BY <1>9, <1>10, <1>11, <1>12, <1>13, <1>14 DEF IInv

\* The append answers once its place is in the map.
LEMMA MapReqIdKeeps ==
    ASSUME IInv, NEW c \in Clients, MapReqId(c)
    PROVE  IInv'
<1>1. TypeOK
  BY DEF IInv
<1>2. /\ UNCHANGED <<seq_, plog, ordered, place, blog, ordered_watermk, lk,
                     pending_entries, gc>>
      /\ thread[c] = "flagged" /\ thread' = [thread EXCEPT ![c] = "idle"]
      /\ reqid_to_seq_map' = Put(reqid_to_seq_map, Current(c), place[c])
  BY DEF MapReqId, clientVars
<1>3. /\ seq_[c] > 0 /\ place[c] < Len(blog) /\ place[c] \in Nat /\ Len(blog) \in Nat
  BY <1>1, <1>2, Types DEF IInv, SentInv, PlaceInv
<1>4. Current(c) \in ReqIds
  BY <1>1, <1>3, CurrentIsReq
<1>5. /\ thread' \in [Clients -> {"idle", "sent", "claimed", "flagged"}]
      /\ thread'[c] = "idle"
      /\ \A d \in Clients : d # c => thread'[d] = thread[d]
  <2>1. thread \in [Clients -> {"idle", "sent", "claimed", "flagged"}]
    BY <1>1 DEF TypeOK
  <2> QED
    BY <1>2, <2>1
<1>6. /\ DOMAIN reqid_to_seq_map' = DOMAIN reqid_to_seq_map \cup {Current(c)}
      /\ reqid_to_seq_map'[Current(c)] = place[c]
      /\ \A k \in DOMAIN reqid_to_seq_map :
            k # Current(c) => reqid_to_seq_map'[k] = reqid_to_seq_map[k]
  BY <1>2 DEF Put
<1>7. TypeOK'
  BY <1>1, <1>2, <1>4, <1>5, <1>6 DEF TypeOK
<1>8. MapInv'
  <2>1. ASSUME NEW rid \in DOMAIN reqid_to_seq_map'
        PROVE  reqid_to_seq_map'[rid] \in Nat /\ reqid_to_seq_map'[rid] <= Len(blog)
    <3>1. CASE rid = Current(c)
      BY <1>3, <1>6, <3>1
    <3>2. CASE rid # Current(c)
      BY <1>6, <3>2 DEF IInv, MapInv, CallRecord
    <3> QED
      BY <3>1, <3>2
  <2> QED
    BY <1>2, <2>1 DEF IInv, MapInv, CallRecord
<1>9. OrderInv' /\ OrderedIds' = OrderedIds
  BY <1>2 DEF IInv, OrderInv, OrderedIds
<1>10. SentInv'
  BY <1>2, <1>5 DEF IInv, SentInv
<1>11. \A d \in Clients : Current(d)' = Current(d)
  BY <1>2 DEF Current
<1>12. PlaceInv'
  BY <1>2, <1>5, <1>11 DEF IInv, PlaceInv
<1>13. OnceInv'
  <2>1. ASSUME NEW i \in 1..Len(blog)
        PROVE  /\ blog[i].rid[1] \in Clients
               /\ blog[i].rid[2] < seq_[blog[i].rid[1]]
               /\ thread[blog[i].rid[1]] = "sent" => blog[i].rid # Current(blog[i].rid[1])
    BY <1>1, Types, ReqIdParts DEF IInv, OnceInv
  <2>2. ASSUME NEW i \in 1..Len(blog)
        PROVE  thread'[blog[i].rid[1]] = "sent" => blog[i].rid # Current(blog[i].rid[1])'
    <3>1. Current(blog[i].rid[1])' = Current(blog[i].rid[1])
      BY <1>2 DEF Current
    <3> QED
      BY <1>5, <2>1, <3>1
  <2>3. \A i, j \in 1..Len(blog) : blog[i].rid = blog[j].rid => i = j
    BY DEF IInv, OnceInv
  <2> QED
    BY <1>2, <2>1, <2>2, <2>3 DEF OnceInv
<1>14. CallInv' /\ PendingInv'
  BY <1>2, <1>3, <1>9, AppendsKeepCall
<1> QED
  BY <1>7, <1>8, <1>9, <1>10, <1>12, <1>13, <1>14 DEF IInv

-----------------------------------------------------------------------------
(* delEntriesBackup *)

\* An entry that the delete call takes for covered is ordered, or is the
\* first of a client: a client that is not in the batch reads as 0.
LEMMA CoveredIsOrdered ==
    ASSUME IInv, NEW rid \in ReqIds, ~(rid[2] > At(gc.maxOf, rid[1]))
    PROVE  rid \in OrderedIds \/ rid[2] = 0
<1>1. rid[2] \in Nat /\ rid = <<rid[1], rid[2]>>
  BY ReqIdParts
<1>2. CASE rid[1] \in DOMAIN gc.maxOf
  <2>1. /\ gc.maxOf[rid[1]] \in Nat /\ <<rid[1], gc.maxOf[rid[1]]>> \in OrderedIds
        /\ At(gc.maxOf, rid[1]) = gc.maxOf[rid[1]]
    BY <1>2 DEF IInv, CallInv, At
  <2>2. rid[2] \in 0..gc.maxOf[rid[1]]
    BY <1>1, <2>1
  <2>3. <<rid[1], rid[2]>> \in OrderedIds
    BY <2>1, <2>2, OrderedBefore DEF IInv
  <2> QED
    BY <1>1, <2>3
<1>3. CASE rid[1] \notin DOMAIN gc.maxOf
  BY <1>1, <1>3 DEF At
<1> QED
  BY <1>2, <1>3

\* The consensus log calls for the next batch of the primary's order.
LEMMA DeleteOrderedEntriesKeeps ==
    ASSUME IInv, DeleteOrderedEntries
    PROVE  IInv'
<1>1. TypeOK
  BY DEF IInv
<1>2. PICK n \in (ordered + 1)..Len(plog) :
          /\ ordered' = n
          /\ gc' = [NoCall EXCEPT
                      !.step = "lookUp",
                      !.ids = MaxSeqIds({plog[i] : i \in (ordered + 1)..n})]
  BY DEF DeleteOrderedEntries
<1>3. /\ UNCHANGED <<seq_, plog, thread, place, blog, ordered_watermk, lk,
                     reqid_to_seq_map, pending_entries>>
      /\ UNCHANGED <<clientVars, appendVars>> /\ gc.step = "idle"
  BY DEF DeleteOrderedEntries, clientVars, appendVars
<1>4. /\ ordered \in Nat /\ Len(plog) \in Nat /\ n \in Nat /\ ordered < n /\ n <= Len(plog)
      /\ \A i \in 1..Len(plog) : plog[i] \in ReqIds
  BY <1>1, <1>2, Types
<1> DEFINE batch == {plog[i] : i \in (ordered + 1)..n}
<1>5. /\ gc'.step = "lookUp" /\ gc'.ids = MaxSeqIds(batch) /\ gc'.maxOf = <<>>
      /\ gc'.max_seq = 0 /\ gc'.s = 0 /\ CallRecord'
  BY <1>2 DEF NoCall, CallRecord
<1>6. OrderedIds' = {plog[i] : i \in 1..n}
  BY <1>2, <1>3 DEF OrderedIds
<1>7. gc'.ids \subseteq OrderedIds' /\ gc'.ids \subseteq ReqIds
  <2>1. MaxSeqIds(batch) \subseteq batch
    BY DEF MaxSeqIds
  <2>2. ASSUME NEW i \in (ordered + 1)..n PROVE i \in 1..n /\ i \in 1..Len(plog)
    BY <1>4
  <2>3. batch \subseteq OrderedIds' /\ batch \subseteq ReqIds
    BY <1>4, <1>6, <2>2
  <2> QED
    BY <1>5, <2>1, <2>3
<1>8. OrderedIds \subseteq OrderedIds'
  <2>1. \A i \in 1..ordered : i \in 1..n
    BY <1>4
  <2> QED
    BY <1>6, <2>1 DEF OrderedIds
<1> HIDE DEF batch
<1>9. TypeOK'
  <2>1. ordered' \in 0..Len(plog')
    BY <1>2, <1>3, <1>4
  <2> QED
    BY <1>1, <1>3, <1>5, <1>7, <2>1 DEF TypeOK
<1>10. MapInv'
  BY <1>3, <1>5 DEF IInv, MapInv, CallRecord
<1>11. Scanned = ordered_watermk /\ Scanned' = ordered_watermk
  BY <1>3, <1>5 DEF Scanned, Scanning
<1>12. CallInv'
  <2>1. DOMAIN gc'.maxOf = {}
    BY <1>5
  <2>2. /\ Scanned' \in ordered_watermk'..Len(blog')
        /\ \A i \in 1..Scanned' : blog'[i].flag = 1
    BY <1>3, <1>11 DEF IInv, CallInv
  <2> QED
    BY <1>7, <2>1, <2>2 DEF CallInv
<1>13. PendingInv'
  <2>1. \A rid \in pending_entries : \E i \in 1..Scanned : blog[i].rid = rid
    BY DEF IInv, PendingInv
  <2>2. \A i \in 1..Scanned : \/ blog[i].rid \in pending_entries
                              \/ blog[i].rid \in OrderedIds
                              \/ blog[i].rid[2] = 0
    BY DEF IInv, PendingInv
  <2> QED
    BY <1>3, <1>8, <1>11, <2>1, <2>2 DEF PendingInv
<1> QED
  BY <1>3, <1>9, <1>10, <1>12, <1>13, CallKeepsAppends DEF IInv

\* The loop over the ids: the client_seq of each client of the batch, and the
\* largest place.
LEMMA LookUpKeeps ==
    ASSUME IInv, LookUp
    PROVE  IInv'
<1>1. TypeOK /\ CallRecord /\ MaxReqs \in Nat
  BY BackupAssumption DEF IInv, MapInv, CallRecord
<1> DEFINE clients == {rid[1] : rid \in gc.ids}
           maxOf == [c \in clients |-> CHOOSE q \in 0..MaxReqs : <<c, q>> \in gc.ids]
           places == {At(reqid_to_seq_map, rid) : rid \in gc.ids}
           map == [rid \in DOMAIN reqid_to_seq_map \cup gc.ids |-> At(reqid_to_seq_map, rid)]
<1>2. /\ UNCHANGED <<seq_, plog, ordered, thread, place, blog, ordered_watermk, lk,
                     pending_entries>>
      /\ UNCHANGED <<clientVars, appendVars>> /\ gc.step = "lookUp"
      /\ reqid_to_seq_map' = map
      /\ gc' = [gc EXCEPT !.step = "purge", !.maxOf = maxOf, !.max_seq = MaxOrZero(places)]
  BY DEF LookUp, clientVars, appendVars
<1>3. /\ \A rid \in gc.ids \cup DOMAIN reqid_to_seq_map :
            At(reqid_to_seq_map, rid) \in Nat /\ At(reqid_to_seq_map, rid) <= Len(blog)
      /\ Len(blog) \in Nat
  <2>1. Len(blog) \in Nat
    BY <1>1, Types
  <2> QED
    BY <2>1 DEF IInv, MapInv, At
<1>4. MaxOrZero(places) \in Nat
  <2>1. CASE places = {}
    BY <2>1 DEF MaxOrZero
  <2>2. CASE places # {}
    <3>1. places \subseteq Nat /\ \A x \in places : x <= Len(blog)
      BY <1>3
    <3> HIDE DEF places
    <3> QED
      BY <1>3, <2>2, <3>1, LargestExists
  <2> QED
    BY <2>1, <2>2
<1>5. gc.ids \subseteq OrderedIds /\ gc.ids \subseteq ReqIds
  BY <1>1 DEF IInv, CallInv, TypeOK
<1>6. DOMAIN maxOf = clients /\ \A c \in clients : maxOf[c] \in Nat /\ <<c, maxOf[c]>> \in gc.ids
  <2>1. ASSUME NEW c \in clients
        PROVE  \E q \in 0..MaxReqs : <<c, q>> \in gc.ids
    <3>1. PICK rid \in gc.ids : c = rid[1]
      OBVIOUS
    <3>2. rid[2] \in 0..MaxReqs /\ rid = <<c, rid[2]>>
      BY <1>1, <1>5, <3>1, ReqIdParts
    <3> QED
      BY <3>2
  <2>2. ASSUME NEW c \in clients
        PROVE  maxOf[c] \in 0..MaxReqs /\ <<c, maxOf[c]>> \in gc.ids
    <3>1. maxOf[c] = CHOOSE q \in 0..MaxReqs : <<c, q>> \in gc.ids
      OBVIOUS
    <3> QED
      BY <2>1, <3>1
  <2>3. DOMAIN maxOf = clients
    OBVIOUS
  <2> HIDE DEF maxOf, clients
  <2> QED
    BY <1>1, <2>2, <2>3
<1>7. /\ DOMAIN map = DOMAIN reqid_to_seq_map \cup gc.ids
      /\ \A rid \in DOMAIN map : map[rid] \in Nat /\ map[rid] <= Len(blog)
  BY <1>3
<1> HIDE DEF maxOf, map, places, clients
<1>8. /\ gc'.step = "purge" /\ gc'.ids = gc.ids /\ gc'.maxOf = maxOf
      /\ gc'.max_seq = MaxOrZero(places) /\ gc'.s = gc.s /\ CallRecord'
  BY <1>1, <1>2 DEF CallRecord
<1>9. TypeOK'
  BY <1>1, <1>2, <1>4, <1>5, <1>7, <1>8 DEF TypeOK
<1>10. MapInv'
  BY <1>2, <1>7, <1>8 DEF MapInv, CallRecord
<1>11. Scanned = ordered_watermk /\ Scanned' = ordered_watermk
  BY <1>2, <1>8 DEF Scanned, Scanning
<1>12. OrderedIds' = OrderedIds
  BY <1>2 DEF OrderedIds
<1>13. CallInv'
  <2>1. /\ Scanned' \in ordered_watermk'..Len(blog')
        /\ \A i \in 1..Scanned' : blog'[i].flag = 1
    BY <1>2, <1>11 DEF IInv, CallInv
  <2>2. \A c \in DOMAIN maxOf : maxOf[c] \in Nat /\ <<c, maxOf[c]>> \in OrderedIds
    BY <1>5, <1>6
  <2> QED
    BY <1>5, <1>8, <1>12, <2>1, <2>2 DEF CallInv
<1>14. PendingInv'
  BY <1>2, <1>11, <1>12 DEF IInv, PendingInv
<1> QED
  BY <1>2, <1>9, <1>10, <1>13, <1>14, CallKeepsAppends DEF IInv

\* The pending entries the batch covers go.
LEMMA PurgePendingKeeps ==
    ASSUME IInv, PurgePending
    PROVE  IInv'
<1>1. TypeOK /\ CallRecord
  BY DEF IInv, MapInv, CallRecord
<1>2. /\ UNCHANGED <<seq_, plog, ordered, thread, place, blog, ordered_watermk, lk,
                     reqid_to_seq_map>>
      /\ UNCHANGED <<clientVars, appendVars>> /\ gc.step = "purge"
      /\ pending_entries' = {rid \in pending_entries : rid[2] > At(gc.maxOf, rid[1])}
      /\ gc' = [gc EXCEPT !.step = "lock"]
  BY DEF PurgePending, clientVars, appendVars
<1>3. /\ gc'.step = "lock" /\ gc'.ids = gc.ids /\ gc'.maxOf = gc.maxOf
      /\ gc'.max_seq = gc.max_seq /\ gc'.s = gc.s /\ CallRecord'
  BY <1>1, <1>2 DEF CallRecord
<1>4. TypeOK'
  BY <1>1, <1>2, <1>3 DEF TypeOK
<1>5. MapInv'
  BY <1>2, <1>3 DEF IInv, MapInv, CallRecord
<1>6. Scanned = ordered_watermk /\ Scanned' = ordered_watermk
  BY <1>2, <1>3 DEF Scanned, Scanning
<1>7. OrderedIds' = OrderedIds
  BY <1>2 DEF OrderedIds
<1>8. CallInv'
  BY <1>2, <1>3, <1>6, <1>7 DEF IInv, CallInv
<1>9. PendingInv'
  <2>1. \A rid \in pending_entries' : \E i \in 1..Scanned : blog[i].rid = rid
    BY <1>2 DEF IInv, PendingInv
  <2>2. ASSUME NEW i \in 1..Scanned
        PROVE  \/ blog[i].rid \in pending_entries'
               \/ blog[i].rid \in OrderedIds
               \/ blog[i].rid[2] = 0
    <3>1. blog[i].rid \in ReqIds
      BY <1>1, <1>6, Types
    <3>2. CASE blog[i].rid \in pending_entries \ pending_entries'
      <4>1. ~(blog[i].rid[2] > At(gc.maxOf, blog[i].rid[1]))
        BY <1>2, <3>2
      <4> QED
        BY <3>1, <4>1, CoveredIsOrdered
    <3>3. CASE blog[i].rid \notin pending_entries \ pending_entries'
      BY <3>3 DEF IInv, PendingInv
    <3> QED
      BY <3>2, <3>3
  <2> QED
    BY <1>2, <1>6, <1>7, <2>1, <2>2 DEF PendingInv
<1> QED
  BY <1>2, <1>4, <1>5, <1>8, <1>9, CallKeepsAppends DEF IInv

\* The scan starts at the watermark, with lk_ held.
LEMMA LockRingKeeps ==
    ASSUME IInv, LockRing
    PROVE  IInv'
<1>1. TypeOK /\ CallRecord /\ ordered_watermk \in Nat
  BY Types DEF IInv, MapInv, CallRecord
<1>2. /\ UNCHANGED <<seq_, plog, ordered, thread, place, blog, ordered_watermk,
                     reqid_to_seq_map, pending_entries>>
      /\ UNCHANGED <<clientVars, appendVars>> /\ gc.step = "lock" /\ lk' = {"gc"}
      /\ gc' = [gc EXCEPT !.step = "loop", !.s = ordered_watermk]
  BY DEF LockRing, clientVars, appendVars
<1>3. /\ gc'.step = "loop" /\ gc'.ids = gc.ids /\ gc'.maxOf = gc.maxOf
      /\ gc'.max_seq = gc.max_seq /\ gc'.s = ordered_watermk /\ CallRecord'
  BY <1>1, <1>2 DEF CallRecord
<1>4. TypeOK'
  BY <1>1, <1>2, <1>3 DEF TypeOK
<1>5. MapInv'
  BY <1>2, <1>3 DEF IInv, MapInv, CallRecord
<1>6. Scanned = ordered_watermk /\ Scanned' = ordered_watermk
  BY <1>2, <1>3 DEF Scanned, Scanning
<1>7. OrderedIds' = OrderedIds
  BY <1>2 DEF OrderedIds
<1>8. CallInv'
  BY <1>2, <1>3, <1>6, <1>7 DEF IInv, CallInv
<1>9. PendingInv'
  BY <1>2, <1>6, <1>7 DEF IInv, PendingInv
<1> QED
  BY <1>2, <1>4, <1>5, <1>8, <1>9, CallKeepsAppends DEF IInv

\* The scan passes an entry that is written, and keeps it as pending if the
\* batch does not cover it.
LEMMA ScanEntryKeeps ==
    ASSUME IInv, ScanEntry
    PROVE  IInv'
<1>1. TypeOK /\ CallRecord
  BY DEF IInv, MapInv, CallRecord
<1> DEFINE s == gc.s
           rid == blog[s + 1].rid
<1>2. /\ UNCHANGED <<seq_, plog, ordered, thread, place, blog, ordered_watermk, lk>>
      /\ UNCHANGED <<clientVars, appendVars>> /\ gc.step = "loop"
      /\ s < Len(blog) /\ blog[s + 1].flag = 1
      /\ pending_entries' = IF NotCovered(rid) THEN pending_entries \cup {rid}
                                               ELSE pending_entries
      /\ reqid_to_seq_map' = Without(reqid_to_seq_map, rid)
      /\ gc' = [gc EXCEPT !.s = s + 1]
  BY DEF ScanEntry, IsFlagged, clientVars, appendVars
<1>3. /\ gc'.step = "loop" /\ gc'.ids = gc.ids /\ gc'.maxOf = gc.maxOf
      /\ gc'.max_seq = gc.max_seq /\ gc'.s = s + 1 /\ CallRecord'
  BY <1>1, <1>2 DEF CallRecord
<1>4. Scanned = s /\ Scanned' = s + 1
  BY <1>2, <1>3 DEF Scanned, Scanning
<1>5. /\ s \in Nat /\ Len(blog) \in Nat /\ ordered_watermk \in Nat
      /\ s + 1 \in 1..Len(blog) /\ ordered_watermk <= s
      /\ rid \in ReqIds
  <2>1. s \in Nat /\ Len(blog) \in Nat /\ ordered_watermk \in Nat
    BY <1>1, Types DEF TypeOK
  <2>2. s + 1 \in 1..Len(blog) /\ ordered_watermk <= s
    BY <1>2, <1>4, <2>1 DEF IInv, CallInv
  <2> QED
    BY <1>1, <2>1, <2>2, Types
<1>6. /\ DOMAIN reqid_to_seq_map' \subseteq DOMAIN reqid_to_seq_map
      /\ \A k \in DOMAIN reqid_to_seq_map' : reqid_to_seq_map'[k] = reqid_to_seq_map[k]
  BY <1>2 DEF Without
<1> HIDE DEF s, rid
<1>7. TypeOK'
  <2>1. pending_entries' \subseteq ReqIds
    BY <1>1, <1>2, <1>5 DEF TypeOK
  <2> QED
    BY <1>1, <1>2, <1>3, <1>5, <1>6, <2>1 DEF TypeOK
<1>8. MapInv'
  BY <1>2, <1>3, <1>6 DEF IInv, MapInv, CallRecord
<1>9. OrderedIds' = OrderedIds
  BY <1>2 DEF OrderedIds
<1>10. \A i \in 1..(s + 1) : i \in 1..s \/ i = s + 1
  BY <1>5
<1>11. CallInv'
  <2>1. \A i \in 1..(s + 1) : blog[i].flag = 1
    BY <1>2, <1>4, <1>10 DEF IInv, CallInv
  <2>2. s + 1 \in ordered_watermk..Len(blog)
    BY <1>5
  <2>3. /\ gc.ids \subseteq OrderedIds
        /\ \A c \in DOMAIN gc.maxOf :
              gc.maxOf[c] \in Nat /\ <<c, gc.maxOf[c]>> \in OrderedIds
    BY DEF IInv, CallInv
  <2> QED
    BY <1>2, <1>3, <1>4, <1>9, <2>1, <2>2, <2>3 DEF CallInv
<1>12. PendingInv'
  <2>1. ASSUME NEW r \in pending_entries'
        PROVE  \E i \in 1..(s + 1) : blog[i].rid = r
    <3>1. CASE r \in pending_entries
      <4>1. PICK i \in 1..s : blog[i].rid = r
        BY <1>4, <3>1 DEF IInv, PendingInv
      <4>2. i \in 1..(s + 1)
        BY <1>5
      <4> QED
        BY <4>1, <4>2
    <3>2. CASE r = rid
      <4>1. s + 1 \in 1..(s + 1) /\ blog[s + 1].rid = r
        BY <1>5, <3>2 DEF rid
      <4> QED
        BY <4>1
    <3> QED
      BY <1>2, <3>1, <3>2
  <2>2. ASSUME NEW i \in 1..(s + 1)
        PROVE  \/ blog[i].rid \in pending_entries'
               \/ blog[i].rid \in OrderedIds
               \/ blog[i].rid[2] = 0
    <3>1. CASE i \in 1..s
      <4>1. pending_entries \subseteq pending_entries'
        BY <1>2
      <4> QED
        BY <1>4, <3>1, <4>1 DEF IInv, PendingInv
    <3>2. CASE i = s + 1
      <4>1. blog[i].rid = rid
        BY <3>2 DEF rid
      <4>2. CASE NotCovered(rid)
        BY <1>2, <4>1, <4>2
      <4>3. CASE ~NotCovered(rid)
        BY <1>5, <4>1, <4>3, CoveredIsOrdered DEF NotCovered
      <4> QED
        BY <4>2, <4>3
    <3> QED
      BY <1>10, <3>1, <3>2
  <2> QED
    BY <1>2, <1>4, <1>9, <2>1, <2>2 DEF PendingInv
<1> QED
  BY <1>2, <1>7, <1>8, <1>11, <1>12, CallKeepsAppends DEF IInv

\* The scan is over, and lk_ is released.
LEMMA UnlockRingKeeps ==
    ASSUME IInv, UnlockRing
    PROVE  IInv'
<1>1. TypeOK /\ CallRecord
  BY DEF IInv, MapInv, CallRecord
<1>2. /\ UNCHANGED <<seq_, plog, ordered, thread, place, blog, ordered_watermk,
                     reqid_to_seq_map, pending_entries>>
      /\ UNCHANGED <<clientVars, appendVars>> /\ gc.step = "loop" /\ lk' = {}
      /\ gc' = [gc EXCEPT !.step = "advance"]
  BY DEF UnlockRing, Released, clientVars, appendVars
<1>3. /\ gc'.step = "advance" /\ gc'.ids = gc.ids /\ gc'.maxOf = gc.maxOf
      /\ gc'.max_seq = gc.max_seq /\ gc'.s = gc.s /\ CallRecord'
  BY <1>1, <1>2 DEF CallRecord
<1>4. TypeOK'
  BY <1>1, <1>2, <1>3 DEF TypeOK
<1>5. MapInv'
  BY <1>2, <1>3 DEF IInv, MapInv, CallRecord
<1>6. Scanned = gc.s /\ Scanned' = gc.s
  BY <1>2, <1>3 DEF Scanned, Scanning
<1>7. OrderedIds' = OrderedIds
  BY <1>2 DEF OrderedIds
<1>8. CallInv'
  BY <1>2, <1>3, <1>6, <1>7 DEF IInv, CallInv
<1>9. PendingInv'
  BY <1>2, <1>6, <1>7 DEF IInv, PendingInv
<1> QED
  BY <1>2, <1>4, <1>5, <1>8, <1>9, CallKeepsAppends DEF IInv

\* The watermark moves to the end of the scan.
LEMMA AdvanceWatermarkKeeps ==
    ASSUME IInv, AdvanceWatermark
    PROVE  IInv'
<1>1. TypeOK
  BY DEF IInv
<1>2. /\ UNCHANGED <<seq_, plog, ordered, thread, place, blog, lk,
                     reqid_to_seq_map, pending_entries>>
      /\ UNCHANGED <<clientVars, appendVars>> /\ gc.step = "advance"
      /\ ordered_watermk' = gc.s /\ gc' = NoCall
  BY DEF AdvanceWatermark, FreedTo, clientVars, appendVars
<1>3. /\ gc'.step = "idle" /\ gc'.ids = {} /\ gc'.maxOf = <<>>
      /\ gc'.max_seq = 0 /\ gc'.s = 0 /\ CallRecord'
  BY <1>2 DEF CallRecord, NoCall
<1>4. Scanned = gc.s /\ Scanned' = gc.s
  BY <1>2, <1>3 DEF Scanned, Scanning
<1>5. gc.s \in 0..Len(blog)
  <2>1. /\ gc.s \in ordered_watermk..Len(blog) /\ ordered_watermk \in Nat /\ Len(blog) \in Nat
    BY <1>1, <1>4, Types DEF IInv, CallInv
  <2> QED
    BY <2>1
<1>6. TypeOK'
  BY <1>1, <1>2, <1>3, <1>5 DEF TypeOK
<1>7. MapInv'
  BY <1>2, <1>3 DEF IInv, MapInv, CallRecord
<1>8. OrderedIds' = OrderedIds
  BY <1>2 DEF OrderedIds
<1>9. CallInv'
  <2>1. gc.s \in gc.s..Len(blog) /\ DOMAIN gc'.maxOf = {}
    BY <1>3, <1>5
  <2>2. \A i \in 1..gc.s : blog[i].flag = 1
    BY <1>4 DEF IInv, CallInv
  <2> QED
    BY <1>2, <1>3, <1>4, <2>1, <2>2 DEF CallInv
<1>10. PendingInv'
  BY <1>2, <1>4, <1>8 DEF IInv, PendingInv
<1> QED
  BY <1>2, <1>6, <1>7, <1>9, <1>10, CallKeepsAppends DEF IInv

-----------------------------------------------------------------------------
(* The theorems *)

\* A step that changes nothing keeps the invariant.
LEMMA StutterKeeps ==
    ASSUME IInv, UNCHANGED vars
    PROVE  IInv'
<1> USE DEF vars, clientVars, appendVars
<1>1. Scanned' = Scanned /\ OrderedIds' = OrderedIds
  BY DEF Scanned, Scanning, OrderedIds
<1>2. TypeOK' /\ MapInv'
  BY DEF IInv, TypeOK, MapInv, CallRecord
<1>3. CallInv' /\ PendingInv'
  BY <1>1 DEF IInv, CallInv, PendingInv
<1> QED
  BY <1>2, <1>3, CallKeepsAppends DEF IInv

\* Every step of a client, of an append and of a delete call keeps the
\* invariant.
LEMMA NextKeeps ==
    ASSUME IInv, [Next]_vars
    PROVE  IInv'
<1>1. CASE UNCHANGED vars
  BY <1>1, StutterKeeps
<1>2. ASSUME NEW c \in Clients, AppendEntryAll(c) \/ AppendStep(c)
      PROVE  IInv'
  BY <1>2, AppendEntryAllKeeps, PrimaryAppendKeeps, ClaimKeeps, SetFlagKeeps,
     MapReqIdKeeps DEF AppendStep
<1>3. CASE DeleteOrderedEntries
  BY <1>3, DeleteOrderedEntriesKeeps
<1>4. CASE CallStep
  BY <1>4, LookUpKeeps, PurgePendingKeeps, LockRingKeeps, ScanEntryKeeps,
     UnlockRingKeeps, AdvanceWatermarkKeeps DEF CallStep
<1> QED
  BY <1>1, <1>2, <1>3, <1>4 DEF Next

\* The inductive invariant holds in every reachable state of the backup.
THEOREM Invariance == Spec => []IInv
<1>1. Init => IInv
  BY InitIInv
<1>2. IInv /\ [Next]_vars => IInv'
  BY NextKeeps
<1> QED
  BY <1>1, <1>2, PTL DEF Spec

\* Type correctness of the backup, the clients and the delete call, for every
\* number of clients and requests.
THEOREM TypeOKThm == Spec => []TypeOK
<1>1. IInv => TypeOK
  BY DEF IInv
<1> QED
  BY <1>1, Invariance, PTL

\* delEntriesBackup frees a place only when its entry has been serialised and
\* flagged: the wait for the flag with lk_ held protects every append that is
\* between its claim and SetFlag(1).
THEOREM FreedWasWrittenThm == Spec => []FreedWasWritten
<1>1. ASSUME IInv PROVE FreedWasWritten
  <2>1. TypeOK
    BY <1>1 DEF IInv
  <2>2. ordered_watermk \in Nat /\ Len(blog) \in Nat /\ Scanned \in ordered_watermk..Len(blog)
    BY <1>1, <2>1, Types DEF IInv, CallInv
  <2>3. \A i \in 1..ordered_watermk : i \in 1..Scanned
    BY <2>2
  <2>4. \A i \in 1..ordered_watermk : blog[i].flag = 1
    BY <1>1, <2>3 DEF IInv, CallInv
  <2>5. ASSUME NEW c \in Clients, thread[c] = "claimed", ~(place[c] >= ordered_watermk)
        PROVE  FALSE
    <3>1. place[c] + 1 \in 1..ordered_watermk
      BY <2>1, <2>2, <2>5, Types
    <3>2. blog[place[c] + 1].flag = 0
      BY <1>1, <2>5 DEF IInv, PlaceInv
    <3> QED
      BY <2>4, <3>1, <3>2
  <2> QED
    BY <2>4, <2>5 DEF FreedWasWritten
<1> QED
  BY <1>1, Invariance, PTL

\* The backup deletes only what is ordered, although it knows of a batch only
\* the largest client_seq of each client and keeps another order than the
\* primary: apart from the first entry of each client, an entry that no batch
\* contains is in the ring or pending.
THEOREM LaterUnorderedIsHeldThm == Spec => []LaterUnorderedIsHeld
<1>1. ASSUME IInv PROVE LaterUnorderedIsHeld
  <2> SUFFICES ASSUME NEW i \in 1..Len(blog), blog[i].rid \notin OrderedIds,
                      blog[i].rid[2] > 0
               PROVE  blog[i].rid \in Held
    BY DEF LaterUnorderedIsHeld, Unordered
  <2>1. /\ ordered_watermk \in Nat /\ Len(blog) \in Nat
        /\ Scanned \in ordered_watermk..Len(blog) /\ blog[i].rid[2] # 0
    BY <1>1, Types DEF IInv, CallInv
  <2>2. CASE i \in 1..Scanned
    BY <1>1, <2>1, <2>2 DEF IInv, PendingInv, Held
  <2>3. CASE i \notin 1..Scanned
    <3>1. i \in (ordered_watermk + 1)..Len(blog)
      BY <2>1, <2>3
    <3> QED
      BY <3>1 DEF Held, InRing
  <2> QED
    BY <2>2, <2>3
<1> QED
  BY <1>1, Invariance, PTL

\* Between two calls no entry is both pending and in the ring: the scan moves
\* an entry out once, and a pending entry comes from a place that is freed.
THEOREM PendingLeftRingThm == Spec => []PendingLeftRing
<1>1. ASSUME IInv PROVE PendingLeftRing
  <2> SUFFICES ASSUME gc.step = "idle", NEW rid \in pending_entries,
                      NEW j \in (ordered_watermk + 1)..Len(blog), blog[j].rid = rid
               PROVE  FALSE
    BY DEF PendingLeftRing, InRing
  <2>1. Scanned = ordered_watermk
    BY DEF Scanned, Scanning
  <2>2. PICK i \in 1..ordered_watermk : blog[i].rid = rid
    BY <1>1, <2>1 DEF IInv, PendingInv
  <2>3. /\ ordered_watermk \in Nat /\ Len(blog) \in Nat /\ ordered_watermk <= Len(blog)
    BY <1>1, Types DEF IInv
  <2>4. i \in 1..Len(blog) /\ j \in 1..Len(blog) /\ i # j
    BY <2>3
  <2> QED
    BY <1>1, <2>2, <2>4 DEF IInv, OnceInv
<1> QED
  BY <1>1, Invariance, PTL

=============================================================================
