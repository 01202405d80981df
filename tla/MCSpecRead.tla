----------------------------- MODULE MCSpecRead -----------------------------
(* A small instance of SpecRead for TLC. *)
EXTENDS SpecRead, TLC

ThreadSymmetry == Permutations(Threads)

=============================================================================
