---------------------------- MODULE MCDurLogFlat ----------------------------
(* Small instances of DurLogFlat for TLC. *)
EXTENDS DurLogFlat, TLC

ThreadSymmetry == Permutations(Threads)

=============================================================================
