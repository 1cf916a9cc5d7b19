--------------------------- MODULE HookLockProofs ---------------------------
(***************************************************************************)
(* Proofs about HookLock, for any sets of writers and PIDs.                *)
(***************************************************************************)
EXTENDS HookLock, TLAPS

(* LockInv holds initially and every step keeps it. *)
LEMMA LockInvInit == Init => LockInv
  BY WriterAssumption, PidAssumption
  DEF Init, LockInv, TypeOK, GuardHeld, OwnerInside, OwnerNamed, Recovering,
      OldIsSimple, Guarded, Sentinel, Absent, Location, Writer

(* Every step of a writer, of the kernel and of an operator keeps the invariant. *)
LEMMA LockInvStep == LockInv /\ [Next]_vars => LockInv'
  <1> SUFFICES ASSUME LockInv, [Next]_vars PROVE LockInv'
    OBVIOUS
  <1> USE WriterAssumption, PidAssumption
       DEF LockInv, TypeOK, GuardHeld, OwnerInside, OwnerNamed, Recovering,
           OldIsSimple, Guarded, Sentinel, Absent, Location, Writer, Goto, SetSentinel
  <1>1. ASSUME NEW p \in Writer, NEW i \in Pids, Start(p, i) PROVE LockInv'
    BY <1>1 DEF Start
  <1>2. ASSUME NEW p \in Writer, TakeGuard(p) PROVE LockInv'
    BY <1>2 DEF TakeGuard
  <1>3. ASSUME NEW p \in Writer, GuardTimeout(p) PROVE LockInv'
    BY <1>3 DEF GuardTimeout
  <1>4. ASSUME NEW p \in Writer, CreateSentinel(p) PROVE LockInv'
    BY <1>4 DEF CreateSentinel
  <1>5. ASSUME NEW p \in Writer, ReadSentinel(p) PROVE LockInv'
    <2>1. CASE sentinel.pid = NoPid
      BY <1>5, <2>1 DEF ReadSentinel
    <2>2. CASE sentinel.pid # NoPid
      <3>1. TypeOK' /\ OldIsSimple'
        <4>1. sentinel.pid \in Pids
          BY <2>2
        <4>2. /\ suspect' \in [Writer -> Pids \cup {NoPid}]
              /\ same' \in [Writer -> BOOLEAN]
          BY <1>5, <2>2, <4>1, ZenonT(30) DEF ReadSentinel
        <4> QED
          BY <1>5, <2>2, <4>2 DEF ReadSentinel
      <3>2. GuardHeld' /\ OwnerInside' /\ OwnerNamed'
        BY <1>5, <2>2 DEF ReadSentinel
      <3>3. Recovering'
        (* p records the file it sees; no other current writer has the guard *)
        BY <1>5, <2>2 DEF ReadSentinel
      <3> QED
        BY <3>1, <3>2, <3>3
    <2> QED
      BY <2>1, <2>2
  <1>6. ASSUME NEW p \in Writer, ProbeOwner(p) PROVE LockInv'
    BY <1>6 DEF ProbeOwner, PidIsDead, LivePids
  <1>7. ASSUME NEW p \in Writer, Restat(p) PROVE LockInv'
    BY <1>7 DEF Restat
  <1>8. ASSUME NEW p \in Writer, UnlinkDead(p) PROVE LockInv'
    BY <1>8 DEF UnlinkDead
  <1>9. ASSUME NEW p \in Writer, WaitSentinel(p) PROVE LockInv'
    BY <1>9 DEF WaitSentinel
  <1>10. ASSUME NEW p \in Writer, StampSentinel(p) PROVE LockInv'
    BY <1>10 DEF StampSentinel
  <1>11. ASSUME NEW p \in Writer, Release(p) PROVE LockInv'
    BY <1>11 DEF Release
  <1>12. ASSUME NEW p \in Writer, CloseGuard(p) PROVE LockInv'
    BY <1>12 DEF CloseGuard
  <1>13. ASSUME NEW p \in Writer, Exit(p) PROVE LockInv'
    BY <1>13 DEF Exit
  <1>14. ASSUME NEW p \in Writer, OldTimeout(p) PROVE LockInv'
    BY <1>14 DEF OldTimeout
  <1>15. ASSUME NEW p \in Writer, Deadline(p) PROVE LockInv'
    BY <1>15 DEF Deadline
  <1>16. ASSUME NEW p \in Writer, Die(p) PROVE LockInv'
    BY <1>16 DEF Die
  <1>17. ASSUME NEW i \in Pids, OtherStarts(i) \/ OtherExits(i) PROVE LockInv'
    BY <1>17 DEF OtherStarts, OtherExits
  <1>18. CASE OperatorClears
    BY <1>18 DEF OperatorClears
  <1>19. CASE UNCHANGED vars
    BY <1>19 DEF vars
  <1>20. QED
    BY <1>1, <1>2, <1>3, <1>4, <1>5, <1>6, <1>7, <1>8, <1>9, <1>10, <1>11, <1>12,
       <1>13, <1>14, <1>15, <1>16, <1>17, <1>18, <1>19
    DEF Next, Attempt, Leave

(* Every reachable state satisfies the inductive invariant. *)
THEOREM LockInvariant == Spec => []LockInv
  BY LockInvInit, LockInvStep, PTL DEF Spec

(* Every variable keeps its type; a writer has a PID exactly while it runs. *)
THEOREM TypeCorrect == Spec => []TypeOK
  <1>1. LockInv => TypeOK
    BY DEF LockInv
  <1> QED
    BY <1>1, LockInvariant, PTL

(* Whatever the writers, deaths and PID reuse, the body of the with          *)
(* statement runs in one process at a time.                                  *)
THEOREM MutualExclusionHolds == Spec => []MutualExclusion
  <1>1. LockInv => MutualExclusion
    BY DEF LockInv, OwnerInside, MutualExclusion
  <1> QED
    BY <1>1, LockInvariant, PTL

-----------------------------------------------------------------------------
(* Only its creator changes a sentinel whose creator lives. *)
LEMMA StealStep ==
  ASSUME LockInv, [Next]_vars,
         sentinel.on, sentinel.owner # NoProc, sentinel' # sentinel,
         sentinel'.owner # sentinel.owner
  PROVE  pc'[sentinel.owner] # pc[sentinel.owner]
  <1> DEFINE o == sentinel.owner
  <1>1. o \in Writer /\ pc[o] \in {"stamp", "cs"} /\ pc \in [Writer -> Location]
    BY DEF LockInv, TypeOK, OwnerInside, Sentinel
  <1>2. \A p \in New : pc[p] # "unlink"
    BY DEF LockInv, Recovering
  <1>3. ASSUME NEW p \in Writer, UnlinkDead(p) PROVE FALSE
    BY <1>2, <1>3 DEF UnlinkDead, LockInv, OldIsSimple, Writer
  <1>4. ASSUME NEW p \in Writer, CreateSentinel(p) PROVE FALSE
    BY <1>4 DEF CreateSentinel
  <1>5. ASSUME NEW p \in Writer, StampSentinel(p) PROVE FALSE
    BY <1>5 DEF StampSentinel, SetSentinel, LockInv, TypeOK, Sentinel
  <1>6. ASSUME NEW p \in Writer, Release(p) PROVE pc'[o] # pc[o]
    <2>1. p = o
      BY <1>6 DEF Release, LockInv, OwnerInside
    <2> QED
      BY <1>1, <1>6, <2>1 DEF Release, Goto
  <1>7. ASSUME NEW p \in Writer, Die(p) PROVE pc'[o] # pc[o]
    <2>1. p = o
      BY <1>7 DEF Die
    <2> QED
      BY <1>1, <1>7, <2>1 DEF Die, Goto
  <1>8. CASE OperatorClears
    BY <1>1, <1>8 DEF OperatorClears
  <1> QED
    BY <1>3, <1>4, <1>5, <1>6, <1>7, <1>8
    DEF Next, Attempt, Leave, vars, Start, TakeGuard, GuardTimeout, ReadSentinel,
        ProbeOwner, Restat, WaitSentinel, CloseGuard, Exit, OldTimeout, Deadline,
        OtherStarts, OtherExits

(* No step takes the sentinel away from a live owner. *)
THEOREM NoLiveStealHolds == Spec => NoLiveSteal
  <1>1. LockInv /\ [Next]_vars =>
          [sentinel.on /\ sentinel.owner # NoProc /\ sentinel' # sentinel =>
             \/ sentinel'.owner = sentinel.owner
             \/ pc'[sentinel.owner] # pc[sentinel.owner]]_vars
    BY StealStep
  <1> QED
    BY <1>1, LockInvariant, PTL DEF Spec, NoLiveSteal

-----------------------------------------------------------------------------
(* A step moves at most one writer. *)
LEMMA OneMoves ==
  ASSUME LockInv, [Next]_vars
  PROVE  \A p, q \in Writer : pc'[p] # pc[p] /\ pc'[q] # pc[q] => p = q
  <1>1. ASSUME NEW r \in Writer, NEW l, Goto(r, l)
        PROVE  \A p, q \in Writer : pc'[p] # pc[p] /\ pc'[q] # pc[q] => p = q
    BY <1>1 DEF Goto, LockInv, TypeOK
  <1>2. ASSUME NEW r \in Writer, Attempt(r) \/ Leave(r) \/ Die(r)
        PROVE  \E l : Goto(r, l)
    BY <1>2 DEF Attempt, Leave, TakeGuard, GuardTimeout, CreateSentinel,
                ReadSentinel, ProbeOwner, Restat, UnlinkDead, WaitSentinel,
                StampSentinel, Release, CloseGuard, Exit, OldTimeout, Die
  <1>3. ASSUME NEW r \in Writer, NEW i \in Pids, Start(r, i)
        PROVE  \E l : Goto(r, l)
    BY <1>3 DEF Start
  <1>4. (\E r \in Writer : \E l : Goto(r, l)) \/ pc' = pc
    BY <1>2, <1>3 DEF Next, vars, Deadline, OtherStarts, OtherExits, OperatorClears
  <1> QED
    BY <1>1, <1>4

(* The holder of the mutex is the writer in the body, when there is one. *)
HolderKnown ==
  /\ holder \in Writer \cup {NoProc}
  /\ \A p \in Writer : holder = p <=> pc[p] = "cs"

LEMMA HolderInside == LockInv => HolderKnown
  <1> SUFFICES ASSUME LockInv PROVE HolderKnown
    OBVIOUS
  <1>1. \A p, q \in Inside : p = q
    BY DEF LockInv, OwnerInside, Inside
  <1>2. CASE Inside = {}
    BY <1>2, WriterAssumption DEF HolderKnown, holder, Inside, Writer
  <1>3. CASE Inside # {}
    <2>1. PICK r \in Writer : Inside = {r}
      BY <1>1, <1>3 DEF Inside
    <2>2. holder = r
      BY <2>1 DEF holder
    <2> QED
      BY <2>1, <2>2 DEF HolderKnown, Inside
  <1> QED
    BY <1>2, <1>3

(* One step of the protocol is a step of the mutex, or leaves holder alone. *)
LEMMA MutexStep == LockInv /\ LockInv' /\ [Next]_vars => [Mutex!Next]_holder
  <1>0. LockInv' => HolderKnown'
    BY HolderInside, PTL
  <1> SUFFICES ASSUME LockInv, LockInv', [Next]_vars, holder' # holder
               PROVE  Mutex!Next
    OBVIOUS
  <1>2. \A p \in Writer : holder = p <=> pc[p] = "cs"
    BY HolderInside DEF HolderKnown
  <1>3. \A p \in Writer : holder' = p <=> pc'[p] = "cs"
    BY <1>0 DEF HolderKnown
  <1>1. holder \in Writer \cup {NoProc} /\ holder' \in Writer \cup {NoProc}
    BY <1>0, HolderInside DEF HolderKnown
  <1>4. holder = NoProc \/ holder' = NoProc
    (* no step moves two writers, so the lock is not handed over *)
    <2>1. \A p, q \in Writer : pc'[p] # pc[p] /\ pc'[q] # pc[q] => p = q
      BY OneMoves
    <2>2. SUFFICES ASSUME holder \in Writer, holder' \in Writer PROVE FALSE
      BY <1>1
    <2>3. pc[holder] = "cs" /\ pc'[holder] # "cs"
      BY <1>2, <1>3, <2>2
    <2>4. pc'[holder'] = "cs" /\ pc[holder'] # "cs"
      BY <1>2, <1>3, <2>2
    <2> QED
      BY <2>1, <2>2, <2>3, <2>4
  <1> QED
    BY <1>1, <1>4 DEF Mutex!Next, Mutex!Acquire, Mutex!Yield

(* exclusive_hook_lock is a mutex that a dying holder releases. *)
THEOREM MutexImplemented == Spec => ImplementsMutex
  <1>1. Init => Mutex!Init
    BY DEF Init, Inside, holder, Mutex!Init
  <1> QED
    BY <1>1, MutexStep, LockInvariant, PTL DEF Spec, ImplementsMutex, Mutex!Spec
=============================================================================
