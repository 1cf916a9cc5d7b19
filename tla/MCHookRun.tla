----------------------------- MODULE MCHookRun ------------------------------
(* HookRun for TLC, with one decision the mapping does not know. *)
EXTENDS HookRun

AnyDecision == Known \cup {"escalate"}

=============================================================================
