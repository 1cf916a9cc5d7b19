-------------------------- MODULE MCHookLedgerDisk --------------------------
(* Small instances of HookLedgerDisk for TLC. *)
EXTENDS HookLedgerDisk, TLC

ProcSymmetry == Permutations(Hook) \cup Permutations(Repairer)

=============================================================================
