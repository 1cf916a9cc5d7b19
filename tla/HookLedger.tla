----------------------------- MODULE HookLedger -----------------------------
(***************************************************************************)
(* The hook ledger, jangseung/state/hook_ledger.py: a file of hash-chained *)
(* lines that hook processes append to and "aeg evidence repair-hooks"     *)
(* cuts back, under the lock of HookMutex (which HookLock implements).     *)
(*                                                                         *)
(* A line keeps what the chain is made of.  A record's hash covers all its *)
(* other fields, so equal hashes mean equal records: hashes are issued     *)
(* numbers, 0 being the genesis hash.  "altered" is a JSON object that no  *)
(* longer matches its own hash or format; "junk" is anything else.  In     *)
(* JSON a sequence number is an integer, or something Python finds equal   *)
(* to one: true for 1, a float such as 5.0.                                *)
(***************************************************************************)
EXTENDS Naturals, Sequences, FiniteSets, FiniteSetsExt

CONSTANTS Hook,        \* processes of "aeg hook-run", one append per activity
          Repairer,    \* processes of "aeg evidence repair-hooks"
          NoProc,      \* the lock is free
          MaxRecords,  \* bound: records ever written
          MaxFiles,    \* bound: quarantine files
          MaxEdits     \* bound: edits of the file by anything but this program

ASSUME ProcAssumption == Hook \cap Repairer = {} /\ NoProc \notin Hook \cup Repairer
ASSUME BoundAssumption == {MaxRecords, MaxFiles, MaxEdits} \subseteq Nat

Proc == Hook \cup Repairer

VARIABLES lines,       \* hook_ledger.jsonl, its non-blank lines
          torn,        \* the last line has no newline
          quarantine,  \* the quarantine files in order of creation, each a sequence of lines
          holder,      \* who has the lock
          pc,          \* where each process is
          base,        \* of the lock's holder: what its record chains onto
          kept,        \* of the lock's holder: the lines its repair keeps
          issued,      \* number of hashes computed so far, outsiders' included
          acked,       \* history: hashes of the records fsync confirmed
          tampered,    \* history: hashes of the acknowledged records outsiders destroyed
          edits,       \* history: how often outsiders changed the file
          moved        \* history: quarantine files whose lines left the ledger

file == <<lines, torn>>
vars == <<lines, torn, quarantine, holder, pc, base, kept, issued,
          acked, tampered, edits, moved>>

Genesis == 0

Number == {"int", "bool", "float"}

Line == [kind: {"decision", "repair", "altered", "junk"},
         seq: Nat, number: Number, prev: Nat, hash: Nat, names: Nat]

Junk == [kind |-> "junk", seq |-> 0, number |-> "int", prev |-> 0, hash |-> 0, names |-> 0]

NoBase == [prev |-> 0, seq |-> 0, number |-> "int"]

(* _validate_record on the record alone: format, forbidden keys, own hash. *)
Intact(l) == l.kind \in {"decision", "repair"}

Mutex == INSTANCE HookMutex

-----------------------------------------------------------------------------
(* Reading: read_hook_ledger, hook_ledger_needs_repair, _has_torn_tail.      *)

(* Every JSON object advances the expected sequence number and previous      *)
(* hash, even a damaged one; other lines do not.  Numbers are compared with  *)
(* !=, to which true is 1 and 5.0 is 5.                                      *)
Objects(ls, i) == {j \in 1..(i - 1) : ls[j].kind # "junk"}

ExpectedSeq(ls, i) == Cardinality(Objects(ls, i)) + 1

ExpectedPrev(ls, i) ==
  IF Objects(ls, i) = {} THEN Genesis ELSE ls[Max(Objects(ls, i))].hash

Readable(ls, i) ==
  Intact(ls[i]) /\ ls[i].seq = ExpectedSeq(ls, i) /\ ls[i].prev = ExpectedPrev(ls, i)

Damaged(ls) == {i \in 1..Len(ls) : ~Readable(ls, i)}

(* Mutant: a last line without its newline is not damage. *)
NeedsRepair_ForgetsTorn(ls, t) == Damaged(ls) # {}

NeedsRepair(ls, t) == Damaged(ls) # {} \/ t

(* The last line is a record whose sequence number is no integer. *)
OddTail(ls) == ls # <<>> /\ Intact(ls[Len(ls)]) /\ ls[Len(ls)].number # "int"

(* _verified_tail_record: an append is refused after a torn tail, after a    *)
(* last line that is no record by itself, and after a record whose number is *)
(* no integer; the chain behind it is not read.                              *)
Refuses(ls, t) == t \/ (ls # <<>> /\ ~Intact(ls[Len(ls)])) \/ OddTail(ls)

(* What the next record chains onto: True + 1 is an integer, 5.0 + 1 is not. *)
NextBase(ls) ==
  IF ls = <<>> THEN [prev |-> Genesis, seq |-> 1, number |-> "int"]
  ELSE LET tail == ls[Len(ls)] IN
       [prev |-> tail.hash, seq |-> tail.seq + 1,
        number |-> IF tail.number = "float" THEN "float" ELSE "int"]

(* Mutant: the first damaged line is kept. *)
KeepCount_OneMore(ls) ==
  IF Damaged(ls) # {} THEN Min(Damaged(ls)) ELSE Len(ls) - 1

(* The lines repair_hook_ledger keeps: all before the first damaged one, or, *)
(* when only the newline of the last line is missing, all but that line.     *)
KeepCount(ls) ==
  IF Damaged(ls) # {} THEN Min(Damaged(ls)) - 1 ELSE Len(ls) - 1

(* Bytes appended to a file without a final newline join its last line. *)
Glued(l) == IF torn THEN [lines EXCEPT ![Len(lines)] = Junk] ELSE Append(lines, l)

-----------------------------------------------------------------------------
Init ==
  /\ lines = <<>> /\ torn = FALSE /\ quarantine = <<>>
  /\ holder = NoProc
  /\ pc = [p \in Proc |-> "idle"]
  /\ base = NoBase
  /\ kept = <<>>
  /\ issued = 0 /\ acked = {} /\ tampered = {} /\ edits = 0 /\ moved = {}

Goto(p, l) == pc' = [pc EXCEPT ![p] = l]

(* The body of the with statement ends, its local variables with it. *)
Leave(p) ==
  /\ Goto(p, "idle")
  /\ Mutex!Yield(p)
  /\ base' = NoBase /\ kept' = <<>>

(* append_hook_decision_record enters exclusive_hook_lock; one that times    *)
(* out never gets here and is reported as a recording failure.               *)
Enter(p) ==
  /\ p \in Hook
  /\ pc[p] = "idle"
  /\ Mutex!Acquire(p)
  /\ Goto(p, "check")
  /\ UNCHANGED <<file, quarantine, base, kept, issued, acked, tampered, edits, moved>>

(* The tail check: refuse, or fix what the new record chains onto. *)
CheckTail(p) ==
  /\ pc[p] = "check"
  /\ IF Refuses(lines, torn)
       THEN Leave(p)
       ELSE /\ Goto(p, "write")
            /\ base' = NextBase(lines)
            /\ UNCHANGED <<holder, kept>>
  /\ UNCHANGED <<file, quarantine, issued, acked, tampered, edits, moved>>

(* The record p writes: a hook's decision, or the record that names the      *)
(* bytes a repair moved (the quarantine file it has just written).           *)
NewLine(p) ==
  [kind |-> IF p \in Hook THEN "decision" ELSE "repair",
   seq |-> base.seq, number |-> base.number, prev |-> base.prev, hash |-> issued + 1,
   names |-> IF p \in Hook THEN 0 ELSE Len(quarantine)]

(* _append_record: the whole line reaches the file at once. *)
Write(p) ==
  /\ pc[p] = "write"
  /\ issued < MaxRecords
  /\ lines' = Glued(NewLine(p))
  /\ torn' = FALSE
  /\ issued' = issued + 1
  /\ Goto(p, "sync")
  /\ UNCHANGED <<quarantine, holder, base, kept, acked, tampered, edits, moved>>

(* ... or a first part of it does: some bytes, or all but the newline. *)
WritePart(p) ==
  /\ pc[p] = "write"
  /\ issued < MaxRecords
  /\ lines' \in {Glued(Junk), Glued(NewLine(p))}
  /\ torn' = TRUE
  /\ issued' = issued + 1
  /\ Goto(p, "rest")
  /\ UNCHANGED <<quarantine, holder, base, kept, acked, tampered, edits, moved>>

WriteRest(p) ==
  /\ pc[p] = "rest"
  /\ lines' = [lines EXCEPT ![Len(lines)] = [NewLine(p) EXCEPT !.hash = issued]]
  /\ torn' = FALSE
  /\ Goto(p, "sync")
  /\ UNCHANGED <<quarantine, holder, base, kept, issued, acked, tampered, edits, moved>>

(* Mutant: a failed fsync takes the record back. *)
WriteFails_TakesBack(p) ==
  /\ pc[p] \in {"write", "rest", "sync"}
  /\ lines' = IF pc[p] = "sync" THEN SubSeq(lines, 1, Len(lines) - 1) ELSE lines
  /\ Leave(p)
  /\ UNCHANGED <<torn, quarantine, issued, acked, tampered, edits, moved>>

(* The write or the fsync raises: the lock is released and the caller told   *)
(* of a failure, whatever the file now holds.                                *)
WriteFails(p) ==
  /\ pc[p] \in {"write", "rest", "sync"}
  /\ Leave(p)
  /\ UNCHANGED <<file, quarantine, issued, acked, tampered, edits, moved>>

(* fsync returns: the record is acknowledged and the lock released. *)
Sync(p) ==
  /\ pc[p] = "sync"
  /\ acked' = acked \cup {issued}
  /\ Leave(p)
  /\ UNCHANGED <<file, quarantine, issued, tampered, edits, moved>>

-----------------------------------------------------------------------------
(* _cmd_evidence_repair_hooks looks before it asks, without the lock; a line *)
(* being written at that moment looks like damage.                           *)
LookForDamage(p) ==
  /\ p \in Repairer
  /\ pc[p] = "idle"
  /\ NeedsRepair(lines, torn)
  /\ Goto(p, "agreed")
  /\ UNCHANGED <<file, quarantine, holder, base, kept, issued, acked, tampered, edits, moved>>

(* The user agreed (or passed --yes) and repair_hook_ledger has the lock.    *)
EnterRepair(p) ==
  /\ pc[p] = "agreed"
  /\ Mutex!Acquire(p)
  /\ Goto(p, "repair")
  /\ UNCHANGED <<file, quarantine, base, kept, issued, acked, tampered, edits, moved>>

(* Mutant: the second look, under the lock, is left out. *)
Quarantine_TrustsFirstLook(p) ==
  /\ pc[p] = "repair" /\ lines # <<>>
  /\ Len(quarantine) < MaxFiles
  /\ LET n == KeepCount(lines) IN
       /\ quarantine' = Append(quarantine, SubSeq(lines, n + 1, Len(lines)))
       /\ kept' = SubSeq(lines, 1, n)
  /\ Goto(p, "replace")
  /\ UNCHANGED <<file, holder, base, issued, acked, tampered, edits, moved>>

(* It looks again, now under the lock, and copies everything from the first  *)
(* damaged line on into a new quarantine file.                               *)
Quarantine(p) ==
  /\ pc[p] = "repair"
  /\ NeedsRepair(lines, torn)
  /\ Len(quarantine) < MaxFiles
  /\ LET n == KeepCount(lines) IN
       /\ quarantine' = Append(quarantine, SubSeq(lines, n + 1, Len(lines)))
       /\ kept' = SubSeq(lines, 1, n)
  /\ Goto(p, "replace")
  /\ UNCHANGED <<file, holder, base, issued, acked, tampered, edits, moved>>

NothingToRepair(p) ==
  /\ pc[p] = "repair"
  /\ ~NeedsRepair(lines, torn)
  /\ Leave(p)
  /\ UNCHANGED <<file, quarantine, issued, acked, tampered, edits, moved>>

(* os.replace puts the kept lines in the ledger's place; the repair record   *)
(* follows through _append_record.                                           *)
Replace(p) ==
  /\ pc[p] = "replace"
  /\ lines' = kept
  /\ torn' = FALSE
  /\ base' = NextBase(kept)
  /\ moved' = moved \cup {Len(quarantine)}
  /\ Goto(p, "write")
  /\ UNCHANGED <<quarantine, holder, kept, issued, acked, tampered, edits>>

-----------------------------------------------------------------------------
(* A process is killed anywhere; HookLock frees the lock. *)
Die(p) ==
  /\ pc[p] # "idle"
  /\ IF holder = p THEN Leave(p)
                   ELSE Goto(p, "idle") /\ UNCHANGED <<holder, base, kept>>
  /\ UNCHANGED <<file, quarantine, issued, acked, tampered, edits, moved>>

(* Outsiders (an editor, a disk, another tool) alter a line, overwrite it,   *)
(* delete it, cut the newline off the last one, or write a record's number   *)
(* as true or as a float and make its hash match again; not while the lock   *)
(* is held, and no more than MaxEdits times.                                 *)
Altered(l) == [l EXCEPT !.kind = IF l.kind = "junk" THEN "junk" ELSE "altered"]

Overwrite(i, l) ==
  /\ lines' = [lines EXCEPT ![i] = l]
  /\ tampered' = tampered \cup ({lines[i].hash} \cap acked)
  /\ UNCHANGED torn

Renumbered(l, n) == [l EXCEPT !.number = n, !.hash = issued + 1]

Renumber(i, n) ==
  /\ Intact(lines[i])
  /\ n = "bool" => lines[i].seq = 1
  /\ issued < MaxRecords /\ issued' = issued + 1
  /\ Overwrite(i, Renumbered(lines[i], n))

Delete(i) ==
  /\ lines' = SubSeq(lines, 1, i - 1) \o SubSeq(lines, i + 1, Len(lines))
  /\ torn' = (torn /\ i # Len(lines))
  /\ tampered' = tampered \cup ({lines[i].hash} \cap acked)

CutNewline ==
  /\ lines # <<>> /\ ~torn /\ torn' = TRUE
  /\ UNCHANGED <<lines, tampered>>

Edit ==
  /\ edits < MaxEdits
  /\ holder = NoProc
  /\ edits' = edits + 1
  /\ \/ \E i \in 1..Len(lines), n \in {"bool", "float"} : Renumber(i, n)
     \/ /\ \/ \E i \in 1..Len(lines) :
                 Overwrite(i, Junk) \/ Overwrite(i, Altered(lines[i])) \/ Delete(i)
           \/ CutNewline
        /\ UNCHANGED issued
  /\ UNCHANGED <<quarantine, holder, pc, base, kept, acked, moved>>

Next ==
  \/ \E p \in Proc :
       \/ Enter(p) \/ CheckTail(p)
       \/ Write(p) \/ WritePart(p) \/ WriteRest(p) \/ WriteFails(p) \/ Sync(p)
       \/ LookForDamage(p) \/ EnterRepair(p)
       \/ Quarantine(p) \/ NothingToRepair(p) \/ Replace(p)
       \/ Die(p)
  \/ Edit

Spec == Init /\ [][Next]_vars

-----------------------------------------------------------------------------
(* Properties. *)

TypeOK ==
  /\ lines \in Seq(Line) /\ torn \in BOOLEAN
  /\ quarantine \in Seq(Seq(Line))
  /\ holder \in Proc \cup {NoProc}
  /\ pc \in [Proc -> {"idle", "check", "write", "rest", "sync",
                      "agreed", "repair", "replace"}]
  /\ base \in [prev: Nat, seq: Nat, number: Number]
  /\ kept \in Seq(Line)
  /\ issued \in 0..MaxRecords
  /\ acked \subseteq 1..MaxRecords /\ tampered \subseteq 0..MaxRecords
  /\ edits \in 0..MaxEdits /\ moved \subseteq Nat
  /\ torn => lines # <<>>

(* The lines that end in a newline. *)
Complete(ls, t) == IF t THEN SubSeq(ls, 1, Len(ls) - 1) ELSE ls

(* Whatever crashes, failed writes and repairs happened, the complete lines  *)
(* of a ledger no outsider touched are one verifying chain: checking only    *)
(* the tail before each append is enough.                                    *)
ChainHolds == edits = 0 => Damaged(Complete(lines, torn)) = {}

Holds(ls, h) == \E i \in 1..Len(ls) : Intact(ls[i]) /\ ls[i].hash = h

(* "Nothing is discarded": a record whose append was acknowledged is in the  *)
(* ledger or in a quarantine file, unless an outsider destroyed it.          *)
NothingDiscarded ==
  \A h \in acked \ tampered :
    Holds(lines, h) \/ \E k \in 1..Len(quarantine) : Holds(quarantine[k], h)

(* A repair never takes an acknowledged record out of an undamaged ledger,   *)
(* even when the look that started it met a record half written.             *)
IntactNeverMoved ==
  edits = 0 => \A h \in acked : Holds(Complete(lines, torn), h)

(* Whenever appends are refused with the advice to run repair-hooks, that    *)
(* command finds something to repair; the one exception is a last record     *)
(* whose number is no integer, which the writer alone minds.                 *)
RefusedIsRepairable ==
  Refuses(lines, torn) => NeedsRepair(lines, torn) \/ OddTail(lines)

-----------------------------------------------------------------------------
(* Why the ledger's promises hold.                                           *)

(* Inside the lock, and nowhere else, a process looks at or changes the file *)
(* on the strength of what it saw before.                                    *)
LockHeld ==
  \A p \in Proc :
    pc[p] \in {"check", "write", "rest", "sync", "repair", "replace"} <=> holder = p

(* What the holder knows at each point of _append_record. *)
Writing ==
  \A p \in Proc :
    /\ pc[p] = "write" => ~torn /\ base = NextBase(lines)
    /\ pc[p] = "rest" =>
         /\ torn /\ base = NextBase(Complete(lines, torn))
         /\ lines[Len(lines)] = Junk \/ lines[Len(lines)].hash = issued
         /\ issued > 0 /\ issued \notin acked
         /\ \A i \in 1..(Len(lines) - 1) : lines[i].hash < issued
    /\ pc[p] = "sync" =>
         issued > 0 /\ ~torn /\ lines # <<>> /\ Intact(lines[Len(lines)])
         /\ lines[Len(lines)].hash = issued

(* What it knows between writing the quarantine file and replacing the       *)
(* ledger: the two files split the ledger's lines between them.              *)
Repairing ==
  \A p \in Proc : pc[p] = "replace" =>
    \E n \in 0..Len(lines) :
      /\ kept = SubSeq(lines, 1, n)
      /\ quarantine # <<>>
      /\ quarantine[Len(quarantine)] = SubSeq(lines, n + 1, Len(lines))
      /\ edits = 0 => torn /\ n = Len(lines) - 1

(* A chain seen from the writers' side: each record numbered by its place    *)
(* and chained to its neighbour.                                             *)
Chained(ls) ==
  \A i \in 1..Len(ls) :
    /\ Intact(ls[i]) /\ ls[i].seq = i
    /\ ls[i].prev = IF i = 1 THEN Genesis ELSE ls[i - 1].hash

Numbered ==
  /\ acked \subseteq 1..issued
  /\ \A i \in 1..Len(lines) : lines[i].hash <= issued

ChainKept == edits = 0 => Chained(Complete(lines, torn))

(* The inductive invariant, with the promises NothingDiscarded and           *)
(* IntactNeverMoved in it and ChainHolds in the writers' form.               *)
LedgerInv ==
  /\ TypeOK /\ LockHeld /\ Writing /\ Repairing /\ Numbered
  /\ ChainKept /\ IntactNeverMoved /\ NothingDiscarded

-----------------------------------------------------------------------------
(* A repair that succeeds leaves a ledger that verifies and accepts the next *)
(* record, whatever the damage was; the one exception is a kept part that    *)
(* ends in a float number, which the repair's own record then continues.     *)
RepairHeals ==
  [][\A p \in Repairer :
       pc[p] = "sync" /\ acked' # acked
       => /\ ~NeedsRepair(lines', torn')
          /\ Refuses(lines', torn') => OddTail(kept)]_vars

(* "A record in the continued chain names the moved bytes": with no command  *)
(* at work, each quarantined chunk that left the ledger is named by a record.*)
MovedBytesNamed ==
  edits = 0 /\ holder = NoProc =>
    \A k \in moved :
      \E i \in 1..Len(lines) : lines[i].kind = "repair" /\ lines[i].names = k

-----------------------------------------------------------------------------
(* To whoever leaves the file alone, the ledger is an append-only log.       *)
Entries(ls) == [i \in 1..Len(ls) |-> ls[i].hash]

Log == INSTANCE HookLog WITH Id <- 1..MaxRecords,
                            log <- Entries(Complete(lines, torn)),
                            untouched <- edits = 0

ImplementsLog == Log!Spec
==============================================================================
