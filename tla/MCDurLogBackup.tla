--------------------------- MODULE MCDurLogBackup ---------------------------
(* Small instances of DurLogBackup for TLC. *)
EXTENDS DurLogBackup, TLC

ClientSymmetry == Permutations(Clients)

=============================================================================
