----------------------------- MODULE MCHookLock -----------------------------
(* A small instance of HookLock for TLC. *)
EXTENDS HookLock
=============================================================================
