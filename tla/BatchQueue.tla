----------------------------- MODULE BatchQueue -----------------------------
(***************************************************************************)
(* What the consensus log promises the durability log: it takes the        *)
(* entries in order, in batches, has at most Capacity batches under way,   *)
(* and deletes the batches in the order it took them.  DurLogFlat relies   *)
(* on this of its consumer, and ConsensusLog implements it with two        *)
(* threads and two buffers.                                                *)
(***************************************************************************)
EXTENDS Integers, Sequences

CONSTANTS
    Capacity,     \* batches under way at most
    MaxBatch      \* entries of a batch at most

VARIABLES
    next_idx,     \* index of the first entry not taken
    ordered_idx,  \* index of the first entry not deleted
    batches       \* the batches taken and not deleted: first and last index

vars == <<next_idx, ordered_idx, batches>>

Init ==
    /\ next_idx = 0
    /\ ordered_idx = 0
    /\ batches = <<>>

\* The next entries become a batch.
Take ==
    /\ Len(batches) < Capacity
    /\ \E n \in 1..MaxBatch :
          /\ next_idx' = next_idx + n
          /\ batches' = Append(batches, [first |-> next_idx, last |-> next_idx + n - 1])
    /\ UNCHANGED ordered_idx

\* The oldest batch is deleted.
Delete ==
    /\ batches # <<>>
    /\ ordered_idx' = Head(batches).last + 1
    /\ batches' = Tail(batches)
    /\ UNCHANGED next_idx

Next == Take \/ Delete

SafeSpec == Init /\ [][Next]_vars

\* A batch that was taken is deleted some day.
Spec == SafeSpec /\ WF_vars(Delete)

=============================================================================
