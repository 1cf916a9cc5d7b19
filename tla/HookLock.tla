------------------------------ MODULE HookLock ------------------------------
(***************************************************************************)
(* The lock around the hook ledger: exclusive_hook_lock in                 *)
(* jangseung/state/file_lock.py.                                           *)
(*                                                                         *)
(* Two files guard one critical section.  hook_ledger.guard carries an     *)
(* flock: the kernel drops it when its holder's descriptor closes, process *)
(* death included.  hook_ledger.lock, the PID sentinel, exists while       *)
(* somebody owns the ledger and outlives an owner that dies.  Writers of   *)
(* release 0.1.2 (Old) know only the sentinel; today's writers (New) take  *)
(* the guard first and, under it, may remove a sentinel whose recorded     *)
(* process is dead.  A writer is a short-lived process: it starts with a   *)
(* PID no live process has, makes one attempt and exits.                   *)
(***************************************************************************)
EXTENDS FiniteSets

CONSTANTS New,      \* processes running the current exclusive_hook_lock
          Old,      \* processes running the 0.1.2 writer (sentinel only)
          Pids,     \* process identifiers the kernel hands out and reuses
          NoProc,   \* "no process": a free guard, a sentinel without a live creator
          NoPid     \* "no PID": an empty or malformed sentinel, a slot not running

ASSUME WriterAssumption == New \cap Old = {} /\ NoProc \notin New \cup Old
ASSUME PidAssumption == NoPid \notin Pids

Writer == New \cup Old

VARIABLES pc,        \* where each writer is in exclusive_hook_lock
          pid,       \* each writer's PID while it lives
          others,    \* PIDs of live processes that are not writers, zombies included
          guard,     \* the writer holding the flock on hook_ledger.guard
          sentinel,  \* hook_ledger.lock
          suspect,   \* the PID a recovering writer read from the sentinel
          same,      \* the sentinel's identity still is the one that writer recorded
          late       \* the writer's one-second deadline has passed

vars == <<pc, pid, others, guard, sentinel, suspect, same, late>>

(* The sentinel's contents are a PID, or NoPid while it is empty.  owner is  *)
(* history: its creator while that one lives and has not released it.        *)
Sentinel == [on: BOOLEAN, owner: Writer \cup {NoProc}, pid: Pids \cup {NoPid}]

Absent == [on |-> FALSE, owner |-> NoProc, pid |-> NoPid]

Location == {"off", "guard", "open", "probe", "restat", "unlink", "wait",
             "stamp", "cs", "close", "done"}

(* Every variable has its type, and a writer has a PID exactly while it runs. *)
TypeOK ==
  /\ pc \in [Writer -> Location]
  /\ pid \in [Writer -> Pids \cup {NoPid}]
  /\ others \subseteq Pids
  /\ guard \in New \cup {NoProc}
  /\ sentinel \in Sentinel
  /\ suspect \in [Writer -> Pids \cup {NoPid}]
  /\ same \in [Writer -> BOOLEAN]
  /\ late \in [Writer -> BOOLEAN]
  /\ \A p \in Writer : pid[p] = NoPid <=> pc[p] = "off"

LivePids == others \cup {pid[p] : p \in {q \in Writer : pc[q] # "off"}}

Init ==
  /\ pc = [p \in Writer |-> "off"]
  /\ pid = [p \in Writer |-> NoPid]
  /\ others \in SUBSET Pids
  /\ guard = NoProc
  /\ sentinel = Absent
  /\ suspect = [p \in Writer |-> NoPid]
  /\ same = [p \in Writer |-> FALSE]
  /\ late = [p \in Writer |-> FALSE]

-----------------------------------------------------------------------------
(* Moves of the sentinel.  Every change to the file changes the (device,     *)
(* inode, mtime, size) identity that a recovering writer compares.           *)

SetSentinel(s) ==
  /\ sentinel' = s
  /\ same' = [p \in Writer |-> FALSE]

Goto(p, l) == pc' = [pc EXCEPT ![p] = l]

(* Mutants: a finally block that unlocks what it never locked; any probe     *)
(* error taken for death; no comparison of identities; a recovery that       *)
(* leaves the file; a wait without a deadline.                               *)
GuardTimeout_Unlocks(p) ==
  /\ p \in New /\ pc[p] = "guard" /\ guard # NoProc /\ late[p]
  /\ Goto(p, "done") /\ guard' = NoProc
  /\ UNCHANGED <<pid, others, sentinel, suspect, same, late>>

PidIsDead_AnyError(i) == TRUE

Restat_NoCompare(p) ==
  /\ pc[p] = "restat" /\ Goto(p, IF sentinel.on THEN "unlink" ELSE "open")
  /\ UNCHANGED <<pid, others, guard, sentinel, suspect, same, late>>

UnlinkDead_Forgets(p) ==
  /\ pc[p] = "unlink" /\ Goto(p, "open")
  /\ UNCHANGED <<pid, others, guard, sentinel, suspect, same, late>>

WaitSentinel_NoDeadline(p) ==
  /\ pc[p] = "wait" /\ Goto(p, "open")
  /\ UNCHANGED <<pid, others, guard, sentinel, suspect, same, late>>

(* A hook process starts: it opens the guard file and computes its deadline. *)
(* A 0.1.2 writer goes straight to the sentinel.                             *)
Start(p, i) ==
  /\ pc[p] = "off"
  /\ i \notin LivePids
  /\ Goto(p, IF p \in New THEN "guard" ELSE "open")
  /\ pid' = [pid EXCEPT ![p] = i]
  /\ late' = [late EXCEPT ![p] = FALSE]
  /\ UNCHANGED <<others, guard, sentinel, suspect, same>>

(* flock(LOCK_EX | LOCK_NB) succeeds. *)
TakeGuard(p) ==
  /\ p \in New
  /\ pc[p] = "guard"
  /\ guard = NoProc
  /\ guard' = p
  /\ Goto(p, "open")
  /\ UNCHANGED <<pid, others, sentinel, suspect, same, late>>

(* The guard stayed busy past the deadline: TimeoutError; the finally block  *)
(* closes a descriptor that holds no lock.                                   *)
GuardTimeout(p) ==
  /\ p \in New
  /\ pc[p] = "guard"
  /\ guard # NoProc
  /\ late[p]
  /\ Goto(p, "done")
  /\ UNCHANGED <<pid, others, guard, sentinel, suspect, same, late>>

(* open(O_CREAT | O_EXCL) creates the sentinel, still empty. *)
CreateSentinel(p) ==
  /\ pc[p] = "open"
  /\ ~sentinel.on
  /\ SetSentinel([on |-> TRUE, owner |-> p, pid |-> NoPid])
  /\ Goto(p, "stamp")
  /\ UNCHANGED <<pid, others, guard, suspect, late>>

(* FileExistsError: _recover_dead_sentinel records the identity and reads    *)
(* the payload.  Anything but digits is nobody's PID.                        *)
ReadSentinel(p) ==
  /\ p \in New
  /\ pc[p] = "open"
  /\ sentinel.on
  /\ IF sentinel.pid # NoPid
       THEN /\ Goto(p, "probe")
            /\ suspect' = [suspect EXCEPT ![p] = sentinel.pid]
            /\ same' = [same EXCEPT ![p] = TRUE]
       ELSE /\ Goto(p, "wait")
            /\ UNCHANGED <<suspect, same>>
  /\ UNCHANGED <<pid, others, guard, sentinel, late>>

(* _pid_is_dead: only ProcessLookupError proves the owner dead. *)
PidIsDead(i) == i \notin LivePids

ProbeOwner(p) ==
  /\ pc[p] = "probe"
  /\ Goto(p, IF PidIsDead(suspect[p]) THEN "restat" ELSE "wait")
  /\ UNCHANGED <<pid, others, guard, sentinel, suspect, same, late>>

(* The second stat: gone (FileNotFoundError, so retry), replaced, or the     *)
(* same file, which may now be removed.                                      *)
Restat(p) ==
  /\ pc[p] = "restat"
  /\ Goto(p, CASE ~sentinel.on -> "open"
               [] sentinel.on /\ ~same[p] -> "wait"
               [] sentinel.on /\ same[p] -> "unlink")
  /\ UNCHANGED <<pid, others, guard, sentinel, suspect, same, late>>

UnlinkDead(p) ==
  /\ pc[p] = "unlink"
  /\ SetSentinel(Absent)
  /\ Goto(p, "open")
  /\ UNCHANGED <<pid, others, guard, suspect, late>>

(* _wait: sleep and try again, or TimeoutError once the deadline is past;    *)
(* the finally block then closes the guard and leaves the sentinel alone.    *)
WaitSentinel(p) ==
  /\ pc[p] = "wait"
  /\ IF late[p]
       THEN Goto(p, "done") /\ guard' = NoProc
       ELSE Goto(p, "open") /\ UNCHANGED guard
  /\ UNCHANGED <<pid, others, sentinel, suspect, same, late>>

(* The PID is written and the body of the with statement starts. *)
StampSentinel(p) ==
  /\ pc[p] = "stamp"
  /\ SetSentinel([sentinel EXCEPT !.pid = pid[p]])
  /\ Goto(p, "cs")
  /\ UNCHANGED <<pid, others, guard, suspect, late>>

(* The finally block unlinks the sentinel it created, without looking at it. *)
(* It runs when the body ends and when writing the PID fails or is short.    *)
Release(p) ==
  /\ pc[p] \in {"stamp", "cs"}
  /\ SetSentinel(Absent)
  /\ Goto(p, IF p \in New THEN "close" ELSE "done")
  /\ UNCHANGED <<pid, others, guard, suspect, late>>

CloseGuard(p) ==
  /\ pc[p] = "close"
  /\ guard' = NoProc
  /\ Goto(p, "done")
  /\ UNCHANGED <<pid, others, sentinel, suspect, same, late>>

(* The process answers its host and exits; its parent reaps it. *)
Exit(p) ==
  /\ pc[p] = "done"
  /\ Goto(p, "off")
  /\ pid' = [pid EXCEPT ![p] = NoPid]
  /\ UNCHANGED <<others, guard, sentinel, suspect, same, late>>

-----------------------------------------------------------------------------
(* A 0.1.2 writer that finds the sentinel waits and gives up at its own      *)
(* deadline; it never removes a file it did not create.                      *)
OldTimeout(p) ==
  /\ p \in Old
  /\ pc[p] = "open"
  /\ sentinel.on
  /\ late[p]
  /\ Goto(p, "done")
  /\ UNCHANGED <<pid, others, guard, sentinel, suspect, same, late>>

(* time.monotonic() reaches the deadline of a waiting writer. *)
Deadline(p) ==
  /\ pc[p] \in {"guard", "open", "probe", "restat", "wait"}
  /\ ~late[p]
  /\ late' = [late EXCEPT ![p] = TRUE]
  /\ UNCHANGED <<pc, pid, others, guard, sentinel, suspect, same>>

(* A writer is killed.  The kernel frees its flock; its sentinel stays, and  *)
(* its PID stays taken while the dead process is an unreaped zombie.         *)
Die(p) ==
  /\ pc[p] # "off"
  /\ Goto(p, "off")
  /\ pid' = [pid EXCEPT ![p] = NoPid]
  /\ others' \in {others, others \cup {pid[p]}}
  /\ guard' = IF guard = p THEN NoProc ELSE guard
  /\ sentinel' = IF sentinel.owner = p THEN [sentinel EXCEPT !.owner = NoProc]
                                       ELSE sentinel
  /\ UNCHANGED <<suspect, same, late>>

(* Unrelated processes come and go, and take freed PIDs. *)
OtherStarts(i) ==
  /\ i \notin LivePids
  /\ others' = others \cup {i}
  /\ UNCHANGED <<pc, pid, guard, sentinel, suspect, same, late>>

OtherExits(i) ==
  /\ i \in others
  /\ others' = others \ {i}
  /\ UNCHANGED <<pc, pid, guard, sentinel, suspect, same, late>>

(* The documentation's way out of a sentinel nobody may recover: with every  *)
(* writer stopped, an operator deletes the file.                             *)
OperatorClears ==
  /\ sentinel.on
  /\ \A p \in Writer : pc[p] = "off"
  /\ SetSentinel(Absent)
  /\ UNCHANGED <<pc, pid, others, guard, suspect, late>>

-----------------------------------------------------------------------------
(* What a writer does to get the lock, and what it does once it has it. *)
Attempt(p) ==
  \/ TakeGuard(p) \/ GuardTimeout(p)
  \/ CreateSentinel(p) \/ ReadSentinel(p) \/ ProbeOwner(p) \/ Restat(p)
  \/ UnlinkDead(p) \/ WaitSentinel(p) \/ StampSentinel(p) \/ OldTimeout(p)

Leave(p) == Release(p) \/ CloseGuard(p) \/ Exit(p)

Next ==
  \/ \E p \in Writer : Attempt(p) \/ Leave(p) \/ Deadline(p) \/ Die(p)
  \/ \E p \in Writer, i \in Pids : Start(p, i)
  \/ \E i \in Pids : OtherStarts(i) \/ OtherExits(i)
  \/ OperatorClears

Spec == Init /\ [][Next]_vars

(* The kernel keeps running a live process and its clock advances.  Nothing  *)
(* makes a hook start, a process die or an operator act, and the body of the *)
(* with statement (an fsync, say) may take for ever.  0.1.2 writers are not  *)
(* killed over and over: recovering a sentinel skips the clock, so a stream  *)
(* of them dying in the body would keep one attempt busy beyond its deadline.*)
FairSpec ==
  /\ Spec
  /\ \A p \in Writer : WF_vars(Attempt(p)) /\ WF_vars(Deadline(p))
  /\ \A p \in Old : <>[][~Die(p)]_vars

-----------------------------------------------------------------------------
(* Properties. *)

(* Two writers, of whichever release, are never both inside the with         *)
(* statement: the ledger is read, checked and extended by one at a time.     *)
MutualExclusion ==
  \A p, q \in Writer : pc[p] = "cs" /\ pc[q] = "cs" => p = q

-----------------------------------------------------------------------------
(* Why it holds: the inductive invariant.                                    *)

Guarded == {"open", "probe", "restat", "unlink", "wait", "stamp", "cs", "close"}

(* The flock covers a current writer's whole stay, from its first look at    *)
(* the sentinel to the end of the finally block.                             *)
GuardHeld == \A p \in New : pc[p] \in Guarded <=> guard = p

(* Only the creator of the present sentinel is inside, or about to be. *)
OwnerInside ==
  /\ \A p \in Writer : pc[p] \in {"stamp", "cs"} <=> sentinel.owner = p
  /\ sentinel.owner # NoProc => sentinel.on

(* A sentinel that names a PID while its creator lives names the creator's.  *)
OwnerNamed ==
  sentinel.owner # NoProc /\ sentinel.pid # NoPid => sentinel.pid = pid[sentinel.owner]

(* What a recovering writer knows: an unchanged file still names its suspect, *)
(* and after the probe that file has no live creator.                        *)
Recovering ==
  \A p \in New :
    /\ pc[p] \in {"probe", "restat"} => suspect[p] # NoPid
    /\ pc[p] \in {"probe", "restat"} /\ same[p] =>
         sentinel.on /\ sentinel.pid = suspect[p]
    /\ pc[p] = "restat" /\ same[p] => sentinel.owner = NoProc
    /\ pc[p] = "unlink" => sentinel.on /\ sentinel.owner = NoProc

OldIsSimple ==
  \A p \in Old : pc[p] \in {"off", "open", "stamp", "cs", "done"}

LockInv ==
  TypeOK /\ GuardHeld /\ OwnerInside /\ OwnerNamed /\ Recovering /\ OldIsSimple

-----------------------------------------------------------------------------
(* While a writer that created the sentinel lives, only that writer removes  *)
(* it: recovery never steals the lock of a running or PID-recycled owner     *)
(* ("active, inaccessible, reused or invalid PIDs are not treated as dead"). *)
NoLiveSteal ==
  [][sentinel.on /\ sentinel.owner # NoProc /\ sentinel' # sentinel =>
       \/ sentinel'.owner = sentinel.owner
       \/ pc'[sentinel.owner] # pc[sentinel.owner]]_vars

(* A sentinel left by a killed writer whose PID is free. *)
Stale == sentinel.on /\ sentinel.pid # NoPid /\ PidIsDead(sentinel.pid)

(* A current writer that has the guard gets rid of a stale sentinel, however *)
(* late it is: it recovers before it looks at the clock.  (The PID may be    *)
(* reused first, or the writer killed.)                                      *)
StaleSentinelRecovered ==
  \A p \in New : (pc[p] = "open" /\ Stale) ~> (~Stale \/ pc[p] = "off")

(* No attempt to lock hangs: it reaches the body, fails or dies, even behind *)
(* an owner that never lets go.                                              *)
AttemptEnds ==
  \A p \in Writer :
    pc[p] \in {"guard", "open"} ~> pc[p] \in {"cs", "close", "done", "off"}

-----------------------------------------------------------------------------
(* The ledger modules need only a mutex whose holder may die.  Whoever is in *)
(* the body holds it; two of them would be a holder the mutex does not know. *)
Inside == {p \in Writer : pc[p] = "cs"}

holder == CASE Inside = {} -> NoProc
            [] \E p \in Writer : Inside = {p} -> CHOOSE p \in Writer : Inside = {p}
            [] OTHER -> Inside

Mutex == INSTANCE HookMutex WITH Proc <- Writer

(* exclusive_hook_lock implements that mutex. *)
ImplementsMutex == Mutex!Spec
=============================================================================
