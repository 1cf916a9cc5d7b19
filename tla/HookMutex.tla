----------------------------- MODULE HookMutex ------------------------------
(***************************************************************************)
(* What exclusive_hook_lock promises the code in its body: one holder at a *)
(* time; the lock comes free when the holder leaves and when it dies.      *)
(***************************************************************************)
CONSTANTS Proc,     \* every process that may hold the lock
          NoProc    \* the lock is free

VARIABLE holder

Init == holder = NoProc

Acquire(p) == holder = NoProc /\ holder' = p

Yield(p) == holder = p /\ holder' = NoProc

Next == \E p \in Proc : Acquire(p) \/ Yield(p)

Spec == Init /\ [][Next]_holder
=============================================================================
