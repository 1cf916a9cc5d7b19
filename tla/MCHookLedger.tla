---------------------------- MODULE MCHookLedger ----------------------------
(* Small instances of HookLedger for TLC. *)
EXTENDS HookLedger, TLC

ProcSymmetry == Permutations(Hook) \cup Permutations(Repairer)

=============================================================================
