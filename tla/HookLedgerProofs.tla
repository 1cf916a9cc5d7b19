-------------------------- MODULE HookLedgerProofs --------------------------
(***************************************************************************)
(* Proofs about HookLedger and HookLedgerDisk, for any processes and any   *)
(* bounds.                                                                 *)
(***************************************************************************)
EXTENDS HookLedgerDisk, FiniteSetTheorems, TLAPS

(* A set of naturals below a bound has a least element. *)
LEMMA MinOfBounded ==
  ASSUME NEW k \in Nat, NEW X \in SUBSET (1..k), X # {}
  PROVE  Min(X) \in X /\ \A y \in X : Min(X) <= y
  <1> DEFINE Below(x) == X \cap 1..x
  <1> DEFINE Y == {Below(x) : x \in X}
  <1>1. IsFiniteSet(1..k)
    BY FS_Interval
  <1>2. Y \subseteq FiniteSubsetsOf(1..k)
    <2>1. \A t \in Y : t \in SUBSET (1..k)
      OBVIOUS
    <2>2. \A t \in Y : IsFiniteSet(t)
      BY <1>1, <2>1, FS_Subset
    <2> QED
      BY <2>1, <2>2 DEF FiniteSubsetsOf
  <1>3. Y # {}
    OBVIOUS
  <1>4. \E t \in Y : \A u \in Y : ~ (<<u, t>> \in StrictSubsetOrdering(1..k))
    <2> HIDE DEF Y
    <2> QED
      BY <1>2, <1>3, FS_StrictSubsetOrderingWellFounded, WFMin
  <1>5. PICK x \in X : \A u \in Y : ~ (<<u, Below(x)>> \in StrictSubsetOrdering(1..k))
    BY <1>4
  <1>6. ASSUME NEW y \in X PROVE x <= y
    <2> SUFFICES ASSUME y < x PROVE FALSE
      OBVIOUS
    <2>1. /\ Below(y) \in Y /\ Below(y) \subseteq Below(x)
          /\ x \in Below(x) /\ x \notin Below(y)
          /\ Below(x) \in SUBSET (1..k) /\ Below(y) \in SUBSET (1..k)
      OBVIOUS
    <2> QED
      BY <1>5, <2>1 DEF StrictSubsetOrdering
  <1> QED
    BY <1>6 DEF Min

(* Behind records only, the reader expects the position and the hash of the   *)
(* line before.                                                              *)
LEMMA ExpectedBehindRecords ==
  ASSUME NEW ls \in Seq(Line), NEW n \in 0..Len(ls), \A j \in 1..n : Intact(ls[j])
  PROVE  \A i \in 1..n :
           /\ ExpectedSeq(ls, i) = i
           /\ ExpectedPrev(ls, i) = IF i = 1 THEN Genesis ELSE ls[i - 1].hash
  <1> TAKE i \in 1..n
  <1>1. Objects(ls, i) = 1..(i - 1)
    BY DEF Objects, Intact
  <1>2. ExpectedSeq(ls, i) = i
    <2>1. Cardinality(1..(i - 1)) = i - 1
      BY FS_Interval, i - 1 \in Int, 1 \in Int, ~(1 > i - 1) \/ i = 1
    <2> QED
      BY <1>1, <2>1 DEF ExpectedSeq
  <1>3. ExpectedPrev(ls, i) = IF i = 1 THEN Genesis ELSE ls[i - 1].hash
    <2>1. CASE i = 1
      BY <1>1, <2>1 DEF ExpectedPrev
    <2>2. CASE i # 1
      <3>1. Max(1..(i - 1)) = i - 1
        BY <2>2 DEF Max
      <3>2. i - 1 \in 1..(i - 1)
        BY <2>2
      <3> QED
        BY <1>1, <2>2, <3>1, <3>2 DEF ExpectedPrev
    <2> QED
      BY <2>1, <2>2
  <1> QED
    BY <1>2, <1>3

(* A line that continues a chain is readable where it stands. *)
LEMMA ChainReadable ==
  ASSUME NEW ls \in Seq(Line), NEW n \in 0..Len(ls),
         \A j \in 1..n :
           /\ Intact(ls[j]) /\ ls[j].seq = j
           /\ ls[j].prev = IF j = 1 THEN Genesis ELSE ls[j - 1].hash
  PROVE  \A i \in 1..n : Readable(ls, i)
  BY ExpectedBehindRecords DEF Readable

(* Lines the reader accepts from the first on are a chain. *)
LEMMA ReadableChained ==
  ASSUME NEW ls \in Seq(Line), NEW n \in 0..Len(ls), \A i \in 1..n : Readable(ls, i)
  PROVE  Chained(SubSeq(ls, 1, n))
  <1> DEFINE cs == SubSeq(ls, 1, n)
  <1>1. Len(cs) = n /\ \A i \in 1..n : cs[i] = ls[i]
    OBVIOUS
  <1>2. \A i \in 1..n :
          /\ Intact(ls[i]) /\ ls[i].seq = i
          /\ ls[i].prev = IF i = 1 THEN Genesis ELSE ls[i - 1].hash
    BY ExpectedBehindRecords DEF Readable
  <1> HIDE DEF cs
  <1>3. Chained(cs)
    BY <1>1, <1>2 DEF Chained
  <1> QED
    BY <1>3 DEF cs

(* A chain has no damaged line: the reader finds nothing to repair in it. *)
LEMMA ChainedVerifies ==
  ASSUME NEW ls \in Seq(Line), Chained(ls)
  PROVE  Damaged(ls) = {}
  BY ChainReadable DEF Chained, Damaged

(* What a repair keeps is a part of what there is. *)
LEMMA KeepBounds ==
  ASSUME NEW ls \in Seq(Line), ls # <<>>
  PROVE  KeepCount(ls) \in 0..(Len(ls) - 1)
  <1>1. CASE Damaged(ls) = {}
    BY <1>1 DEF KeepCount
  <1>2. CASE Damaged(ls) # {}
    <2>1. Damaged(ls) \in SUBSET (1..Len(ls))
      BY DEF Damaged
    <2>2. Min(Damaged(ls)) \in 1..Len(ls)
      BY <1>2, <2>1, MinOfBounded
    <2> QED
      BY <1>2, <2>2 DEF KeepCount
  <1> QED
    BY <1>1, <1>2

(* What a repair keeps verifies. *)
LEMMA KeptVerifies ==
  ASSUME NEW ls \in Seq(Line), ls # <<>>
  PROVE  Chained(SubSeq(ls, 1, KeepCount(ls)))
  <1>1. KeepCount(ls) \in 0..Len(ls)
    BY KeepBounds
  <1>2. ASSUME NEW i \in 1..KeepCount(ls) PROVE Readable(ls, i)
    <2>1. CASE Damaged(ls) = {}
      BY <1>1, <2>1 DEF Damaged
    <2>2. CASE Damaged(ls) # {}
      <3>1. Damaged(ls) \in SUBSET (1..Len(ls))
        BY DEF Damaged
      <3>a. Len(ls) \in Nat
        OBVIOUS
      <3>b. /\ Min(Damaged(ls)) \in Damaged(ls)
            /\ \A y \in Damaged(ls) : Min(Damaged(ls)) <= y
        BY <2>2, <3>1, <3>a, MinOfBounded
      <3>2. /\ Min(Damaged(ls)) \in 1..Len(ls)
            /\ \A y \in Damaged(ls) : Min(Damaged(ls)) <= y
        BY <3>1, <3>b
      <3>3. i \in 1..Len(ls) /\ i < Min(Damaged(ls))
        BY <1>1, <2>2, <3>2 DEF KeepCount
      <3> QED
        BY <3>2, <3>3 DEF Damaged
    <2> QED
      BY <2>1, <2>2
  <1> QED
    BY <1>1, <1>2, ReadableChained

-----------------------------------------------------------------------------
(* The two parts of a file of lines are files of lines. *)

LEMMA PartTypes ==
  ASSUME NEW ls \in Seq(Line), NEW n \in 0..Len(ls)
  PROVE  /\ SubSeq(ls, 1, n) \in Seq(Line)
         /\ SubSeq(ls, n + 1, Len(ls)) \in Seq(Line)
         /\ Len(SubSeq(ls, 1, n)) = n
         /\ \A i \in 1..n : SubSeq(ls, 1, n)[i] = ls[i]
  OBVIOUS

(* A longer file with the same beginning holds every record the shorter one held. *)
LEMMA Extended ==
  ASSUME NEW ls \in Seq(Line), NEW bs \in Seq(Line), NEW l, Len(bs) = Len(ls) + 1,
         \A i \in 1..Len(ls) : bs[i] = ls[i], bs[Len(bs)] = l
  PROVE  /\ \A h : Holds(ls, h) => Holds(bs, h)
         /\ Intact(l) => Holds(bs, l.hash)
         /\ \A k : (\A i \in 1..Len(ls) : ls[i].hash <= k) /\ l.hash <= k =>
                   \A i \in 1..Len(bs) : bs[i].hash <= k
  <1>1. \A h : Holds(ls, h) => Holds(bs, h)
    BY DEF Holds
  <1>2. Intact(l) => Holds(bs, l.hash)
    BY DEF Holds
  <1>3. ASSUME NEW k, \A i \in 1..Len(ls) : ls[i].hash <= k, l.hash <= k
        PROVE  \A i \in 1..Len(bs) : bs[i].hash <= k
    BY <1>3
  <1> QED
    BY <1>1, <1>2, <1>3

(* What appending one line to the file keeps, and that it is complete lines plus one. *)
LEMMA AppendFacts ==
  ASSUME NEW ls \in Seq(Line), NEW l \in Line
  PROVE  /\ Append(ls, l) \in Seq(Line) /\ Append(ls, l) # <<>>
         /\ Complete(Append(ls, l), TRUE) = ls
         /\ Append(ls, l)[Len(Append(ls, l))] = l
         /\ \A h : Holds(ls, h) => Holds(Append(ls, l), h)
         /\ Intact(l) => Holds(Append(ls, l), l.hash)
         /\ \A k : (\A i \in 1..Len(ls) : ls[i].hash <= k) /\ l.hash <= k =>
                   \A i \in 1..Len(Append(ls, l)) : Append(ls, l)[i].hash <= k
  <1>0. Append(ls, l) \in Seq(Line)
    OBVIOUS
  <1>1. PICK bs \in Seq(Line) : bs = Append(ls, l)
    BY <1>0
  <1>2. bs # <<>> /\ Len(bs) = Len(ls) + 1 /\ bs[Len(bs)] = l
    BY <1>1
  <1>3. \A i \in 1..Len(ls) : bs[i] = ls[i]
    BY <1>1
  <1>4. Complete(bs, TRUE) = ls
    BY <1>1 DEF Complete
  <1> QED
    BY <1>1, <1>2, <1>3, <1>4, Extended

(* Finishing the last line is appending the finished line to those before. *)
LEMMA LastReplaced ==
  ASSUME NEW ls \in Seq(Line), ls # <<>>, NEW l \in Line
  PROVE  /\ Complete(ls, TRUE) \in Seq(Line)
         /\ Len(Complete(ls, TRUE)) = Len(ls) - 1
         /\ \A i \in 1..(Len(ls) - 1) : Complete(ls, TRUE)[i] = ls[i]
         /\ [ls EXCEPT ![Len(ls)] = l] = Append(Complete(ls, TRUE), l)
  <1> DEFINE parts == SubSeq(ls, 1, Len(ls) - 1)
  <1>0. Len(ls) - 1 \in 0..Len(ls)
    OBVIOUS
  <1>a. /\ parts \in Seq(Line) /\ Len(parts) = Len(ls) - 1
        /\ \A i \in 1..(Len(ls) - 1) : parts[i] = ls[i]
    BY <1>0, PartTypes
  <1>1. PICK cs \in Seq(Line) : cs = Complete(ls, TRUE) /\ cs = parts
    BY <1>a DEF Complete
  <1>2. Len(cs) = Len(ls) - 1 /\ \A i \in 1..(Len(ls) - 1) : cs[i] = ls[i]
    BY <1>1, <1>a
  <1>b. Append(cs, l) \in Seq(Line)
    OBVIOUS
  <1>3. PICK ds \in Seq(Line) : ds = Append(cs, l)
    BY <1>b
  <1>4. /\ Len(ds) = Len(ls) /\ ds[Len(ls)] = l
        /\ \A i \in 1..(Len(ls) - 1) : ds[i] = ls[i]
    BY <1>2, <1>3
  <1>5. [ls EXCEPT ![Len(ls)] = l] = ds
    BY <1>4
  <1> QED
    BY <1>1, <1>2, <1>3, <1>5

(* The next record continues the chain. *)
LEMMA ChainGrows ==
  ASSUME NEW ls \in Seq(Line), Chained(ls), NEW l \in Line, Intact(l),
         l.seq = NextBase(ls).seq, l.prev = NextBase(ls).prev
  PROVE  Chained(Append(ls, l))
  <1>1. CASE ls = <<>>
    BY <1>1 DEF Chained, NextBase
  <1>2. CASE ls # <<>>
    <2>1. ls[Len(ls)].seq = Len(ls) /\ Len(ls) \in Nat \ {0}
      BY <1>2 DEF Chained
    <2>2. l.seq = Len(ls) + 1 /\ l.prev = ls[Len(ls)].hash
      BY <1>2, <2>1 DEF NextBase
    <2> QED
      BY <2>1, <2>2 DEF Chained
  <1> QED
    BY <1>1, <1>2

(* A record in a file is in one of the parts it is cut into. *)
LEMMA SplitHolds ==
  ASSUME NEW ls \in Seq(Line), NEW n \in 0..Len(ls), NEW h, Holds(ls, h)
  PROVE  Holds(SubSeq(ls, 1, n), h) \/ Holds(SubSeq(ls, n + 1, Len(ls)), h)
  <1>1. PICK i \in 1..Len(ls) : Intact(ls[i]) /\ ls[i].hash = h
    BY DEF Holds
  <1>2. CASE i <= n
    <2>1. i \in 1..Len(SubSeq(ls, 1, n)) /\ SubSeq(ls, 1, n)[i] = ls[i]
      BY <1>2
    <2> QED
      BY <1>1, <2>1 DEF Holds
  <1>3. CASE i > n
    <2> DEFINE rs == SubSeq(ls, n + 1, Len(ls))
    <2>1. i - n \in 1..Len(rs) /\ rs[i - n] = ls[i]
      BY <1>3
    <2> HIDE DEF rs
    <2>2. Holds(rs, h)
      BY <1>1, <2>1 DEF Holds
    <2> QED
      BY <2>2 DEF rs
  <1> QED
    BY <1>2, <1>3

-----------------------------------------------------------------------------
(* The inductive invariant, action by action. *)

LEMMA LedgerInvInit == Init => LedgerInv
  <1> SUFFICES ASSUME Init PROVE LedgerInv
    OBVIOUS
  <1>1. TypeOK
    <2>1. issued \in 0..MaxRecords /\ edits \in 0..MaxEdits
      BY BoundAssumption DEF Init
    <2>2. base \in [prev: Nat, seq: Nat, number: Number]
      BY DEF Init, NoBase, Number
    <2>3. lines \in Seq(Line) /\ kept \in Seq(Line) /\ quarantine \in Seq(Seq(Line))
      BY DEF Init
    <2> QED
      BY <2>1, <2>2, <2>3 DEF Init, TypeOK
  <1>2. LockHeld /\ Writing /\ Repairing /\ Numbered
    BY ProcAssumption DEF Init, LockHeld, Writing, Repairing, Numbered, Proc
  <1>3. ChainKept
    BY DEF Init, ChainKept, Chained, Complete
  <1>4. IntactNeverMoved /\ NothingDiscarded
    BY DEF Init, IntactNeverMoved, NothingDiscarded
  <1> QED
    BY <1>1, <1>2, <1>3, <1>4 DEF LedgerInv

(* The parts that only speak of files and hashes outlive every step that     *)
(* leaves those alone.                                                       *)
LEMMA FilesKept ==
  ASSUME LedgerInv, UNCHANGED <<lines, torn, quarantine, issued, acked, tampered, edits>>
  PROVE  Numbered' /\ ChainKept' /\ IntactNeverMoved' /\ NothingDiscarded'
  BY DEF LedgerInv, Numbered, ChainKept, Chained, Complete, IntactNeverMoved,
         NothingDiscarded, Holds, Intact

(* What the holder of the lock knows is the business of no other process. *)
LEMMA OthersOutside ==
  ASSUME LedgerInv, NEW p \in Proc, holder = p
  PROVE  \A q \in Proc \ {p} : pc[q] \in {"idle", "agreed"}
  BY DEF LedgerInv, LockHeld, TypeOK

(* A process leaves the lock, by return, error or death. *)
LEMMA LeaveKeeps ==
  ASSUME LedgerInv, NEW p \in Proc, Leave(p),
         UNCHANGED <<file, quarantine, issued, acked, tampered, edits, moved>>
  PROVE  LedgerInv'
  <1>1. TypeOK'
    BY DEF LedgerInv, TypeOK, Leave, Goto, NoBase, Number, Mutex!Yield, file
  <1>2. LockHeld' /\ Writing' /\ Repairing'
    <2>1. holder = p /\ holder' = NoProc /\ pc'[p] = "idle"
      BY DEF LedgerInv, TypeOK, Leave, Goto, Mutex!Yield
    <2>2. \A q \in Proc : pc'[q] \in {"idle", "agreed"}
      BY <2>1, OthersOutside DEF LedgerInv, TypeOK, Leave, Goto
    <2> QED
      BY <2>1, <2>2, ProcAssumption DEF LockHeld, Writing, Repairing, Proc
  <1>3. Numbered' /\ ChainKept' /\ IntactNeverMoved' /\ NothingDiscarded'
    BY FilesKept DEF file
  <1> QED
    BY <1>1, <1>2, <1>3 DEF LedgerInv

(* A process takes the lock, to append or to repair. *)
LEMMA AcquireKeeps ==
  ASSUME LedgerInv, NEW p \in Proc, Mutex!Acquire(p),
         NEW l \in {"check", "repair"}, Goto(p, l),
         UNCHANGED <<file, quarantine, base, kept, issued, acked, tampered, edits, moved>>
  PROVE  LedgerInv'
  <1>1. TypeOK'
    BY DEF LedgerInv, TypeOK, Goto, Mutex!Acquire, file
  <1>2. LockHeld' /\ Writing' /\ Repairing'
    <2>1. holder = NoProc /\ holder' = p /\ pc'[p] = l
      BY DEF LedgerInv, TypeOK, Goto, Mutex!Acquire
    <2>2. \A q \in Proc \ {p} : pc'[q] \in {"idle", "agreed"}
      BY <2>1, ProcAssumption DEF LedgerInv, TypeOK, LockHeld, Goto, Proc
    <2> QED
      BY <2>1, <2>2 DEF LockHeld, Writing, Repairing
  <1>3. Numbered' /\ ChainKept' /\ IntactNeverMoved' /\ NothingDiscarded'
    BY FilesKept DEF file
  <1> QED
    BY <1>1, <1>2, <1>3 DEF LedgerInv

(* Position and previous hash the next record gets are numbers. *)
LEMMA NextBaseType ==
  ASSUME NEW ls \in Seq(Line)
  PROVE  NextBase(ls) \in [prev: Nat, seq: Nat, number: Number]
  <1>1. CASE ls = <<>>
    BY <1>1 DEF NextBase, Genesis, Number
  <1>2. CASE ls # <<>>
    <2>1. ls[Len(ls)] \in Line
      BY <1>2
    <2>2. ls[Len(ls)].hash \in Nat /\ ls[Len(ls)].seq \in Nat
      BY <2>1 DEF Line
    <2> QED
      BY <1>2, <2>2 DEF NextBase, Number
  <1> QED
    BY <1>1, <1>2

(* _verified_tail_record keeps the invariant: it refuses, or fixes what to write. *)
LEMMA CheckTailKeeps ==
  ASSUME LedgerInv, NEW p \in Proc, CheckTail(p)
  PROVE  LedgerInv'
  <1>1. CASE Refuses(lines, torn)
    BY <1>1, LeaveKeeps DEF CheckTail
  <1>2. CASE ~Refuses(lines, torn)
    <2>1. /\ Goto(p, "write") /\ base' = NextBase(lines)
          /\ UNCHANGED <<holder, kept, file, quarantine, issued, acked, tampered, edits, moved>>
          /\ pc[p] = "check" /\ ~torn
      BY <1>2 DEF CheckTail, Refuses
    <2>2. base' \in [prev: Nat, seq: Nat, number: Number]
      BY <2>1, NextBaseType DEF LedgerInv, TypeOK
    <2>3. TypeOK'
      BY <2>1, <2>2 DEF LedgerInv, TypeOK, Goto, file
    <2>4. holder = p
      BY <2>1 DEF LedgerInv, LockHeld
    <2>5. LockHeld' /\ Writing' /\ Repairing'
      BY <2>1, <2>4, OthersOutside
      DEF LedgerInv, TypeOK, LockHeld, Writing, Repairing, Goto, file, NextBase
    <2>6. Numbered' /\ ChainKept' /\ IntactNeverMoved' /\ NothingDiscarded'
      BY <2>1, FilesKept DEF file
    <2> QED
      BY <2>3, <2>5, <2>6 DEF LedgerInv
  <1> QED
    BY <1>1, <1>2

(* The record a process writes is a record, whatever its hash. *)
LEMMA NewLineType ==
  ASSUME TypeOK, NEW p \in Proc, NEW h \in Nat
  PROVE  LET l == [NewLine(p) EXCEPT !.hash = h]
         IN  l \in Line /\ Intact(l) /\ l.hash = h /\ l.seq = base.seq /\ l.prev = base.prev
             /\ l.number = base.number
  <1>1. /\ base.seq \in Nat /\ base.prev \in Nat /\ base.number \in Number
        /\ Len(quarantine) \in Nat
    BY DEF TypeOK
  <1>2. [NewLine(p) EXCEPT !.hash = h] =
          [kind |-> IF p \in Hook THEN "decision" ELSE "repair",
           seq |-> base.seq, number |-> base.number, prev |-> base.prev, hash |-> h,
           names |-> IF p \in Hook THEN 0 ELSE Len(quarantine)]
    BY DEF NewLine
  <1> QED
    BY <1>1, <1>2 DEF Line, Intact

(* The record a process starts to write is a record with a hash of its own. *)
LEMMA FreshLineType ==
  ASSUME TypeOK, NEW p \in Proc
  PROVE  /\ NewLine(p) \in Line /\ Intact(NewLine(p)) /\ NewLine(p).hash = issued + 1
         /\ NewLine(p).seq = base.seq /\ NewLine(p).prev = base.prev
         /\ NewLine(p).number = base.number
  <1>1. /\ base.seq \in Nat /\ base.prev \in Nat /\ base.number \in Number
        /\ Len(quarantine) \in Nat
    BY DEF TypeOK
  <1>2. issued + 1 \in Nat
    BY BoundAssumption DEF TypeOK
  <1> QED
    BY <1>1, <1>2 DEF NewLine, Line, Intact

(* Every line has a number for its hash. *)
LEMMA HashType ==
  ASSUME TypeOK
  PROVE  \A i \in 1..Len(lines) : lines[i] \in Line /\ lines[i].hash \in Nat
  <1>1. \A i \in 1..Len(lines) : lines[i] \in Line
    BY DEF TypeOK
  <1> QED
    BY <1>1 DEF Line

(* The whole record l is in the file, behind the complete lines. *)
LEMMA RecordKeeps ==
  ASSUME LedgerInv, NEW p \in Proc, holder = p,
         NEW l \in Line, Intact(l), l.hash = issued',
         l.seq = NextBase(Complete(lines, torn)).seq,
         l.prev = NextBase(Complete(lines, torn)).prev,
         issued' \in {issued, issued + 1}, issued' > 0, issued' <= MaxRecords,
         torn => lines[Len(lines)] = Junk \/ lines[Len(lines)].hash \notin acked,
         lines' = Append(Complete(lines, torn), l), torn' = FALSE, Goto(p, "sync"),
         UNCHANGED <<quarantine, holder, base, kept, acked, tampered, edits, moved>>
  PROVE  LedgerInv'
  <1>1. issued \in Nat /\ issued' \in 0..MaxRecords
    BY BoundAssumption DEF LedgerInv, TypeOK
  <1>2. PICK cs \in Seq(Line) : cs = Complete(lines, torn)
    BY LastReplaced DEF LedgerInv, TypeOK, Complete
  <1>3. lines' \in Seq(Line) /\ lines' # <<>> /\ lines'[Len(lines')] = l
    BY <1>2, AppendFacts
  <1>4. TypeOK'
    BY <1>1, <1>3 DEF LedgerInv, TypeOK, Goto
  <1>5. LockHeld' /\ Writing' /\ Repairing'
    <2>1. \A q \in Proc \ {p} : pc'[q] \in {"idle", "agreed"}
      BY OthersOutside DEF LedgerInv, TypeOK, Goto
    <2>2. pc'[p] = "sync" /\ holder' = p
      BY DEF LedgerInv, TypeOK, Goto
    <2>3. Writing'
      BY <1>3, <2>1, <2>2 DEF Writing, Intact
    <2> QED
      BY <2>1, <2>2, <2>3 DEF LockHeld, Repairing
  <1>6. Numbered'
    <2>1. \A i \in 1..Len(lines) : lines[i].hash <= issued'
      BY <1>1, HashType DEF LedgerInv, Numbered
    <2>2. \A i \in 1..Len(cs) : cs[i].hash <= issued'
      BY <1>2, <2>1, LastReplaced DEF Complete, LedgerInv, TypeOK
    <2>3. \A i \in 1..Len(lines') : lines'[i].hash <= issued'
      BY <1>1, <1>2, <2>2, AppendFacts
    <2>4. acked' \subseteq 1..issued'
      BY <1>1 DEF LedgerInv, Numbered
    <2> QED
      BY <2>3, <2>4 DEF Numbered
  <1>7. ChainKept'
    <2>1. edits = 0 => Chained(cs)
      BY <1>2 DEF LedgerInv, ChainKept
    <2>2. edits = 0 => Chained(Append(cs, l))
      BY <1>2, <2>1, ChainGrows
    <2> QED
      BY <1>2, <2>2 DEF ChainKept, Complete, Chained, Intact
  <1>8. IntactNeverMoved' /\ NothingDiscarded'
    <2>1. \A h : Holds(cs, h) => Holds(lines', h)
      BY <1>2, AppendFacts
    <2>2. ASSUME NEW h \in acked, Holds(lines, h) PROVE Holds(cs, h)
      <3>1. CASE ~torn
        BY <1>2, <2>2, <3>1 DEF Complete
      <3>2. CASE torn
        <4>1. PICK i \in 1..Len(lines) : Intact(lines[i]) /\ lines[i].hash = h
          BY <2>2 DEF Holds
        <4>2. i # Len(lines)
          BY <3>2, <4>1 DEF Junk, Intact
        <4>3. i \in 1..Len(cs) /\ cs[i] = lines[i]
          <5>1. cs = Complete(lines, TRUE) /\ lines \in Seq(Line) /\ lines # <<>>
            BY <1>2, <3>2 DEF Complete, LedgerInv, TypeOK
          <5>2. i \in 1..(Len(lines) - 1)
            BY <4>2
          <5> QED
            BY <5>1, <5>2, LastReplaced, HashType DEF LedgerInv
        <4> QED
          BY <4>1, <4>3 DEF Holds
      <3> QED
        BY <3>1, <3>2 DEF LedgerInv, TypeOK
    <2>3. IntactNeverMoved'
      BY <1>2, <2>1 DEF LedgerInv, IntactNeverMoved, Complete, Holds, Intact
    <2>4. NothingDiscarded'
      <3> SUFFICES ASSUME NEW h \in acked \ tampered
                   PROVE  \/ Holds(lines', h)
                          \/ \E k \in 1..Len(quarantine) : Holds(quarantine[k], h)
        BY DEF NothingDiscarded, Holds, Intact
      <3> QED
        BY <2>1, <2>2 DEF LedgerInv, NothingDiscarded
    <2> QED
      BY <2>3, <2>4
  <1> QED
    BY <1>4, <1>5, <1>6, <1>7, <1>8 DEF LedgerInv

(* A record written whole keeps the invariant. *)
LEMMA WriteKeeps ==
  ASSUME LedgerInv, NEW p \in Proc, Write(p)
  PROVE  LedgerInv'
  <1>1. holder = p /\ ~torn /\ base = NextBase(lines)
    BY DEF Write, LedgerInv, LockHeld, Writing
  <1>2. issued \in Nat /\ issued + 1 <= MaxRecords
    BY BoundAssumption DEF Write, LedgerInv, TypeOK
  <1>3. /\ NewLine(p) \in Line /\ Intact(NewLine(p)) /\ NewLine(p).hash = issued + 1
        /\ NewLine(p).seq = base.seq /\ NewLine(p).prev = base.prev
    BY FreshLineType DEF LedgerInv
  <1>4. lines' = Append(Complete(lines, torn), NewLine(p))
    BY <1>1 DEF Write, Glued, Complete
  <1>5. base = NextBase(Complete(lines, torn))
    BY <1>1 DEF Complete
  <1>6. issued' = issued + 1 /\ issued' > 0 /\ issued' <= MaxRecords
    BY <1>2 DEF Write
  <1> QED
    BY <1>1, <1>3, <1>4, <1>5, <1>6, RecordKeeps DEF Write

(* The second half of a record that took two writes keeps the invariant. *)
LEMMA WriteRestKeeps ==
  ASSUME LedgerInv, NEW p \in Proc, WriteRest(p)
  PROVE  LedgerInv'
  <1> DEFINE l == [NewLine(p) EXCEPT !.hash = issued]
  <1>1. /\ holder = p /\ torn /\ base = NextBase(Complete(lines, torn))
        /\ lines[Len(lines)] = Junk \/ lines[Len(lines)].hash \notin acked
        /\ lines \in Seq(Line) /\ lines # <<>>
    BY DEF WriteRest, LedgerInv, LockHeld, Writing, TypeOK
  <1>2. issued \in Nat /\ issued > 0 /\ issued <= MaxRecords
    BY BoundAssumption DEF WriteRest, LedgerInv, TypeOK, Writing
  <1>3. l \in Line /\ Intact(l) /\ l.hash = issued /\ l.seq = base.seq /\ l.prev = base.prev
    BY <1>2, NewLineType DEF LedgerInv
  <1>4. lines' = Append(Complete(lines, torn), l)
    BY <1>1, <1>3, LastReplaced DEF WriteRest
  <1> HIDE DEF l
  <1> QED
    BY <1>1, <1>2, <1>3, <1>4, RecordKeeps DEF WriteRest

(* A first part of a record is in the file, behind its complete lines. *)
LEMMA WritePartKeeps ==
  ASSUME LedgerInv, NEW p \in Proc, WritePart(p)
  PROVE  LedgerInv'
  <1>1. holder = p /\ ~torn /\ base = NextBase(lines) /\ lines \in Seq(Line)
    BY DEF WritePart, LedgerInv, LockHeld, Writing, TypeOK
  <1>2. issued \in Nat /\ issued' = issued + 1 /\ issued' \in 0..MaxRecords
    BY BoundAssumption DEF WritePart, LedgerInv, TypeOK
  <1>3. PICK l \in Line : lines' = Append(lines, l) /\ l.hash <= issued'
                          /\ (l = Junk \/ l.hash = issued')
    <2>1. Junk \in Line /\ Junk.hash = 0
      BY DEF Junk, Line, Number
    <2>2. NewLine(p) \in Line /\ NewLine(p).hash = issued'
      BY <1>2, FreshLineType DEF LedgerInv
    <2> QED
      BY <1>1, <1>2, <2>1, <2>2 DEF WritePart, Glued
  <1>4. torn' = TRUE
    BY DEF WritePart
  <1>5. /\ lines' \in Seq(Line) /\ lines' # <<>> /\ lines'[Len(lines')] = l
        /\ Complete(lines', torn') = lines
    BY <1>1, <1>3, <1>4, AppendFacts
  <1>6. TypeOK'
    BY <1>2, <1>4, <1>5 DEF WritePart, LedgerInv, TypeOK, Goto
  <1>7. LockHeld' /\ Writing' /\ Repairing'
    <2>1. \A q \in Proc \ {p} : pc'[q] \in {"idle", "agreed"}
      BY <1>1, OthersOutside DEF WritePart, LedgerInv, TypeOK, Goto
    <2>2. pc'[p] = "rest" /\ holder' = p
      BY <1>1 DEF WritePart, LedgerInv, TypeOK, Goto
    <2>3. issued' > 0 /\ issued' \notin acked'
      BY <1>2 DEF WritePart, LedgerInv, Numbered
    <2>4. base' = NextBase(Complete(lines', torn'))
      BY <1>1, <1>5 DEF WritePart
    <2>5. \A i \in 1..(Len(lines') - 1) : lines'[i].hash < issued'
      <3>1. Len(lines') - 1 = Len(lines) /\ \A i \in 1..Len(lines) : lines'[i] = lines[i]
        BY <1>1, <1>3
      <3>2. \A i \in 1..Len(lines) : lines[i].hash < issued'
        BY <1>2, HashType DEF LedgerInv, Numbered
      <3> QED
        BY <3>1, <3>2
    <2>6. Writing'
      BY <1>3, <1>4, <1>5, <2>1, <2>2, <2>3, <2>4, <2>5 DEF Writing
    <2> QED
      BY <2>1, <2>2, <2>6 DEF LockHeld, Repairing
  <1>8. Numbered'
    <2>1. \A i \in 1..Len(lines) : lines[i].hash <= issued'
      BY <1>2, HashType DEF LedgerInv, Numbered
    <2>2. \A i \in 1..Len(lines') : lines'[i].hash <= issued'
      BY <1>1, <1>3, <2>1, AppendFacts
    <2>3. acked' \subseteq 1..issued'
      BY <1>2 DEF WritePart, LedgerInv, Numbered
    <2> QED
      BY <2>2, <2>3 DEF Numbered
  <1>9. ChainKept' /\ IntactNeverMoved' /\ NothingDiscarded'
    <2>1. Complete(lines, torn) = lines /\ UNCHANGED <<edits, acked, tampered, quarantine>>
      BY <1>1 DEF Complete, WritePart
    <2>2. ChainKept'
      BY <1>5, <2>1 DEF LedgerInv, ChainKept, Chained, Intact
    <2>3. IntactNeverMoved'
      BY <1>5, <2>1 DEF LedgerInv, IntactNeverMoved, Holds, Intact
    <2>4. NothingDiscarded'
      <3>1. \A h : Holds(lines, h) => Holds(lines', h)
        BY <1>1, <1>3, AppendFacts
      <3> SUFFICES ASSUME NEW h \in acked \ tampered
                   PROVE  \/ Holds(lines', h)
                          \/ \E k \in 1..Len(quarantine) : Holds(quarantine[k], h)
        BY <2>1 DEF NothingDiscarded, Holds, Intact
      <3> QED
        BY <3>1 DEF LedgerInv, NothingDiscarded
    <2> QED
      BY <2>2, <2>3, <2>4
  <1> QED
    BY <1>6, <1>7, <1>8, <1>9 DEF LedgerInv

(* The record is acknowledged. *)
LEMMA SyncKeeps ==
  ASSUME LedgerInv, NEW p \in Proc, Sync(p)
  PROVE  LedgerInv'
  <1>1. /\ ~torn /\ lines # <<>> /\ Intact(lines[Len(lines)])
        /\ lines[Len(lines)].hash = issued /\ issued > 0 /\ holder = p
        /\ lines \in Seq(Line) /\ issued \in 0..MaxRecords
    BY DEF Sync, LedgerInv, Writing, LockHeld, TypeOK
  <1>2. /\ UNCHANGED <<lines, torn, quarantine, issued, tampered, edits, moved>>
        /\ acked' = acked \cup {issued}
    BY DEF Sync, file
  <1>3. issued \in 1..MaxRecords /\ issued \in 1..issued
    BY <1>1, BoundAssumption
  <1>4. TypeOK'
    BY <1>2, <1>3 DEF Sync, LedgerInv, TypeOK, Leave, Goto, NoBase, Number, Mutex!Yield
  <1>5. LockHeld' /\ Writing' /\ Repairing'
    <2>1. holder' = NoProc /\ pc'[p] = "idle"
      BY DEF Sync, LedgerInv, TypeOK, Leave, Goto, Mutex!Yield
    <2>2. \A q \in Proc : pc'[q] \in {"idle", "agreed"}
      BY <1>1, <2>1, OthersOutside DEF Sync, LedgerInv, TypeOK, Leave, Goto
    <2> QED
      BY <2>1, <2>2, ProcAssumption DEF LockHeld, Writing, Repairing, Proc
  <1>6. Numbered'
    BY <1>2, <1>3 DEF LedgerInv, Numbered
  <1>7. Holds(lines, issued)
    <2>1. Len(lines) \in 1..Len(lines)
      BY <1>1
    <2> QED
      BY <1>1, <2>1 DEF Holds
  <1>8. ChainKept'
    BY <1>2 DEF LedgerInv, ChainKept, Chained, Complete, Intact
  <1>9. IntactNeverMoved'
    <2> SUFFICES ASSUME edits = 0, NEW h \in acked \cup {issued} PROVE Holds(lines, h)
      BY <1>1, <1>2 DEF IntactNeverMoved, Complete, Holds, Intact
    <2> QED
      BY <1>1, <1>7 DEF LedgerInv, IntactNeverMoved, Complete
  <1>10. NothingDiscarded'
    <2> SUFFICES ASSUME NEW h \in (acked \cup {issued}) \ tampered
                 PROVE  \/ Holds(lines, h)
                        \/ \E k \in 1..Len(quarantine) : Holds(quarantine[k], h)
      BY <1>2 DEF NothingDiscarded, Holds, Intact
    <2> QED
      BY <1>7 DEF LedgerInv, NothingDiscarded
  <1> QED
    BY <1>4, <1>5, <1>6, <1>8, <1>9, <1>10 DEF LedgerInv

(* In a file no outsider touched a repair finds a torn last line only. *)
LEMMA OnlyTheTornLine ==
  ASSUME LedgerInv, edits = 0, NeedsRepair(lines, torn)
  PROVE  torn /\ KeepCount(lines) = Len(lines) - 1
  <1>1. lines \in Seq(Line) /\ torn \in BOOLEAN /\ (torn => lines # <<>>)
    BY DEF LedgerInv, TypeOK
  <1>2. torn
    <2> SUFFICES ASSUME ~torn PROVE FALSE
      OBVIOUS
    <2>1. Chained(lines)
      BY DEF LedgerInv, ChainKept, Complete
    <2> QED
      BY <1>1, <2>1, ChainedVerifies DEF NeedsRepair
  <1>3. Len(lines) - 1 \in 0..Len(lines) /\ lines # <<>>
    BY <1>1, <1>2
  <1>4. \A i \in 1..(Len(lines) - 1) : Readable(lines, i)
    <2>1. PICK cs \in Seq(Line) : /\ cs = Complete(lines, TRUE) /\ Len(cs) = Len(lines) - 1
                                  /\ \A i \in 1..(Len(lines) - 1) : cs[i] = lines[i]
      BY <1>1, <1>3, LastReplaced, PartTypes DEF Complete
    <2>2. Chained(cs)
      BY <1>2, <2>1 DEF LedgerInv, ChainKept, Complete
    <2>3. \A j \in 1..(Len(lines) - 1) :
            /\ Intact(lines[j]) /\ lines[j].seq = j
            /\ lines[j].prev = IF j = 1 THEN Genesis ELSE lines[j - 1].hash
      <3> TAKE j \in 1..(Len(lines) - 1)
      <3>1. j \in 1..Len(cs) /\ cs[j] = lines[j]
        BY <2>1
      <3>2. j # 1 => j - 1 \in 1..(Len(lines) - 1)
        BY <1>1
      <3>3. j # 1 => cs[j - 1] = lines[j - 1]
        BY <2>1, <3>2
      <3> QED
        BY <2>2, <3>1, <3>2, <3>3 DEF Chained
    <2> QED
      BY <1>1, <1>3, <2>3, ChainReadable
  <1>5. Damaged(lines) \subseteq {Len(lines)}
    BY <1>1, <1>3, <1>4 DEF Damaged
  <1>6. CASE Damaged(lines) = {}
    BY <1>2, <1>6 DEF KeepCount
  <1>7. CASE Damaged(lines) # {}
    <2>1. Damaged(lines) = {Len(lines)}
      BY <1>5, <1>7
    <2>2. Min({Len(lines)}) = Len(lines)
      BY <1>3 DEF Min
    <2> QED
      BY <1>2, <1>7, <2>1, <2>2 DEF KeepCount
  <1> QED
    BY <1>2, <1>6, <1>7

(* A quarantine file is added behind the ones there are. *)
LEMMA ChunkAppended ==
  ASSUME NEW S, NEW qs \in Seq(S), NEW c \in S
  PROVE  /\ Append(qs, c) \in Seq(S) /\ Append(qs, c) # <<>>
         /\ Append(qs, c)[Len(Append(qs, c))] = c
         /\ \A k \in 1..Len(qs) : k \in 1..Len(Append(qs, c)) /\ Append(qs, c)[k] = qs[k]
  OBVIOUS

(* Copying the damaged part to a quarantine file keeps the invariant. *)
LEMMA QuarantineKeeps ==
  ASSUME LedgerInv, NEW p \in Proc, Quarantine(p)
  PROVE  LedgerInv'
  <1> DEFINE n == KeepCount(lines)
             chunk == SubSeq(lines, n + 1, Len(lines))
  <1>1. /\ holder = p /\ lines \in Seq(Line) /\ NeedsRepair(lines, torn)
        /\ quarantine \in Seq(Seq(Line)) /\ (torn => lines # <<>>)
        /\ UNCHANGED <<file, holder, base, issued, acked, tampered, edits, moved>>
        /\ Goto(p, "replace")
    BY DEF Quarantine, LedgerInv, LockHeld, TypeOK
  <1>2. lines # <<>>
    BY <1>1 DEF NeedsRepair, Damaged
  <1>3. n \in 0..Len(lines)
    BY <1>1, <1>2, KeepBounds
  <1>4. chunk \in Seq(Line) /\ kept' \in Seq(Line) /\ kept' = SubSeq(lines, 1, n)
    BY <1>1, <1>3, PartTypes DEF Quarantine
  <1>5. quarantine' = Append(quarantine, chunk)
    BY DEF Quarantine
  <1>6. edits = 0 => torn /\ n = Len(lines) - 1
    BY <1>1, OnlyTheTornLine
  <1> HIDE DEF n
  <1>7. quarantine' \in Seq(Seq(Line)) /\ quarantine' # <<>>
        /\ quarantine'[Len(quarantine')] = chunk
        /\ \A k \in 1..Len(quarantine) : k \in 1..Len(quarantine') /\ quarantine'[k] = quarantine[k]
    <2> HIDE DEF chunk
    <2> QED
      BY <1>1, <1>4, <1>5, ChunkAppended
  <1>8. TypeOK'
    BY <1>1, <1>4, <1>7 DEF LedgerInv, TypeOK, Goto, file
  <1>9. LockHeld' /\ Writing' /\ Repairing'
    <2>1. \A q \in Proc \ {p} : pc'[q] \in {"idle", "agreed"}
      BY <1>1, OthersOutside DEF LedgerInv, TypeOK, Goto
    <2>2. pc'[p] = "replace" /\ holder' = p
      BY <1>1 DEF LedgerInv, TypeOK, Goto
    <2>3. Repairing'
      BY <1>1, <1>3, <1>4, <1>6, <1>7, <2>1 DEF Repairing, file
    <2> QED
      BY <2>1, <2>2, <2>3 DEF LockHeld, Writing
  <1>10. Numbered' /\ ChainKept' /\ IntactNeverMoved'
    BY <1>1 DEF LedgerInv, Numbered, ChainKept, Chained, Complete, IntactNeverMoved,
                Holds, Intact, file
  <1>11. NothingDiscarded'
    <2> SUFFICES ASSUME NEW h \in acked \ tampered
                 PROVE  \/ Holds(lines, h)
                        \/ \E k \in 1..Len(quarantine') : Holds(quarantine'[k], h)
      BY <1>1 DEF NothingDiscarded, Holds, Intact, file
    <2> QED
      BY <1>7 DEF LedgerInv, NothingDiscarded
  <1> QED
    BY <1>8, <1>9, <1>10, <1>11 DEF LedgerInv

(* Replacing the ledger by what the repair keeps: the rest is in quarantine. *)
LEMMA ReplaceKeeps ==
  ASSUME LedgerInv, NEW p \in Proc, Replace(p)
  PROVE  LedgerInv'
  <1>1. /\ holder = p /\ lines \in Seq(Line) /\ torn \in BOOLEAN
        /\ quarantine \in Seq(Seq(Line)) /\ kept \in Seq(Line)
        /\ lines' = kept /\ torn' = FALSE /\ base' = NextBase(kept)
        /\ UNCHANGED <<quarantine, holder, kept, issued, acked, tampered, edits>>
    BY DEF Replace, LedgerInv, LockHeld, TypeOK
  <1>2. PICK n \in 0..Len(lines) :
          /\ kept = SubSeq(lines, 1, n)
          /\ quarantine # <<>>
          /\ quarantine[Len(quarantine)] = SubSeq(lines, n + 1, Len(lines))
          /\ edits = 0 => torn /\ n = Len(lines) - 1
    BY DEF Replace, LedgerInv, Repairing
  <1>3. Len(kept) = n /\ \A i \in 1..n : kept[i] = lines[i]
    BY <1>1, <1>2, PartTypes
  <1>4. edits = 0 => kept = Complete(lines, torn)
    BY <1>2 DEF Complete
  <1>5. TypeOK'
    <2>1. base' \in [prev: Nat, seq: Nat, number: Number]
      BY <1>1, NextBaseType
    <2>2. moved' \subseteq Nat
      <3>1. Len(quarantine) \in Nat
        BY <1>1
      <3> QED
        BY <3>1 DEF Replace, LedgerInv, TypeOK
    <2> QED
      BY <1>1, <2>1, <2>2 DEF Replace, LedgerInv, TypeOK, Goto
  <1>6. LockHeld' /\ Writing' /\ Repairing'
    <2>1. \A q \in Proc \ {p} : pc'[q] \in {"idle", "agreed"}
      BY <1>1, OthersOutside DEF Replace, LedgerInv, TypeOK, Goto
    <2>2. pc'[p] = "write" /\ holder' = p
      BY <1>1 DEF Replace, LedgerInv, TypeOK, Goto
    <2>3. base' = NextBase(lines')
      BY <1>1
    <2>4. Writing'
      BY <1>1, <2>1, <2>2, <2>3 DEF Writing
    <2> QED
      BY <2>1, <2>2, <2>4 DEF LockHeld, Repairing
  <1>7. Numbered'
    <2>1. \A i \in 1..n : lines[i].hash <= issued
      BY DEF LedgerInv, Numbered
    <2>2. \A i \in 1..Len(kept) : kept[i].hash <= issued
      BY <1>3, <2>1
    <2> QED
      BY <1>1, <2>2 DEF LedgerInv, Numbered
  <1>8. ChainKept'
    BY <1>1, <1>4, ZenonT(30) DEF LedgerInv, ChainKept, Complete, Chained, Intact
  <1>9. IntactNeverMoved'
    BY <1>1, <1>4 DEF LedgerInv, IntactNeverMoved, Complete, Holds, Intact
  <1>10. NothingDiscarded'
    <2>0. UNCHANGED <<quarantine, acked, tampered>>
      BY <1>1
    <2> SUFFICES ASSUME NEW h \in acked \ tampered
                 PROVE  \/ Holds(lines', h)
                        \/ \E k \in 1..Len(quarantine) : Holds(quarantine[k], h)
      BY <2>0 DEF NothingDiscarded, Holds, Intact
    <2>1. CASE Holds(lines, h)
      <3>1. Holds(kept, h) \/ Holds(quarantine[Len(quarantine)], h)
        BY <1>1, <1>2, <2>1, SplitHolds
      <3>2. Len(quarantine) \in 1..Len(quarantine)
        BY <1>1, <1>2
      <3> QED
        BY <1>1, <3>1, <3>2
    <2>2. CASE \E k \in 1..Len(quarantine) : Holds(quarantine[k], h)
      BY <2>2
    <2> QED
      BY <2>1, <2>2 DEF LedgerInv, NothingDiscarded
  <1> QED
    BY <1>5, <1>6, <1>7, <1>8, <1>9, <1>10 DEF LedgerInv

(* An outside edit of one line leaves every other record where it was. *)
LEMMA Overwritten ==
  ASSUME NEW ls \in Seq(Line), NEW i \in 1..Len(ls), NEW l \in Line
  PROVE  LET bs == [ls EXCEPT ![i] = l]
         IN  /\ bs \in Seq(Line) /\ bs # <<>>
             /\ \A k : (\A j \in 1..Len(ls) : ls[j].hash <= k) /\ l.hash <= k =>
                       \A j \in 1..Len(bs) : bs[j].hash <= k
             /\ \A h : Holds(ls, h) /\ h # ls[i].hash => Holds(bs, h)
  <1>1. PICK bs \in Seq(Line) :
          /\ bs = [ls EXCEPT ![i] = l] /\ Len(bs) = Len(ls)
          /\ \A j \in 1..Len(ls) : bs[j] = IF j = i THEN l ELSE ls[j]
    <2>1. [ls EXCEPT ![i] = l] \in Seq(Line)
      OBVIOUS
    <2>2. Len([ls EXCEPT ![i] = l]) = Len(ls)
      OBVIOUS
    <2>3. \A j \in 1..Len(ls) : [ls EXCEPT ![i] = l][j] = IF j = i THEN l ELSE ls[j]
      OBVIOUS
    <2> QED
      BY <2>1, <2>2, <2>3
  <1>2. \A h : Holds(ls, h) /\ h # ls[i].hash => Holds(bs, h)
    BY <1>1 DEF Holds
  <1>3. ASSUME NEW k, \A j \in 1..Len(ls) : ls[j].hash <= k, l.hash <= k
        PROVE  \A j \in 1..Len(bs) : bs[j].hash <= k
    BY <1>1, <1>3
  <1>4. bs # <<>>
    BY <1>1
  <1> QED
    BY <1>1, <1>2, <1>3, <1>4

(* Two files of lines, one behind the other. *)
LEMMA Joined ==
  ASSUME NEW fs \in Seq(Line), NEW gs \in Seq(Line)
  PROVE  /\ fs \o gs \in Seq(Line) /\ Len(fs \o gs) = Len(fs) + Len(gs)
         /\ \A j \in 1..Len(fs) : (fs \o gs)[j] = fs[j]
         /\ \A j \in 1..Len(gs) : (fs \o gs)[Len(fs) + j] = gs[j]
  OBVIOUS

(* An outside deletion of one line leaves every other record in the file. *)
LEMMA Deleted ==
  ASSUME NEW ls \in Seq(Line), NEW i \in 1..Len(ls)
  PROVE  LET bs == SubSeq(ls, 1, i - 1) \o SubSeq(ls, i + 1, Len(ls))
         IN  /\ bs \in Seq(Line) /\ (i # Len(ls) => bs # <<>>)
             /\ \A k : (\A j \in 1..Len(ls) : ls[j].hash <= k) =>
                       \A j \in 1..Len(bs) : bs[j].hash <= k
             /\ \A h : Holds(ls, h) /\ h # ls[i].hash => Holds(bs, h)
  <1> DEFINE front == SubSeq(ls, 1, i - 1)
             back == SubSeq(ls, i + 1, Len(ls))
  <1>1. /\ front \in Seq(Line) /\ Len(front) = i - 1 /\ back \in Seq(Line)
        /\ Len(back) = Len(ls) - i
        /\ \A j \in 1..(i - 1) : front[j] = ls[j]
        /\ \A j \in 1..(Len(ls) - i) : back[j] = ls[i + j]
    OBVIOUS
  <1>2. PICK fs \in Seq(Line), gs \in Seq(Line) :
          /\ fs = front /\ gs = back /\ Len(fs) = i - 1 /\ Len(gs) = Len(ls) - i
          /\ \A j \in 1..(i - 1) : fs[j] = ls[j]
          /\ \A j \in 1..(Len(ls) - i) : gs[j] = ls[i + j]
    <2> HIDE DEF front, back
    <2> QED
      BY <1>1
  <1>4. PICK bs \in Seq(Line) :
          /\ bs = fs \o gs /\ Len(bs) = Len(ls) - 1
          /\ \A j \in 1..(i - 1) : bs[j] = ls[j]
          /\ \A j \in 1..(Len(ls) - i) : bs[(i - 1) + j] = ls[i + j]
    <2> HIDE DEF front, back
    <2>1. PICK bs \in Seq(Line) :
            /\ bs = fs \o gs /\ Len(bs) = Len(fs) + Len(gs)
            /\ \A j \in 1..Len(fs) : bs[j] = fs[j]
            /\ \A j \in 1..Len(gs) : bs[Len(fs) + j] = gs[j]
      BY Joined, ZenonT(30)
    <2>2. Len(bs) = Len(ls) - 1
      BY <1>2, <2>1
    <2>3. \A j \in 1..(i - 1) : bs[j] = ls[j]
      BY <1>2, <2>1
    <2>4. \A j \in 1..(Len(ls) - i) : bs[(i - 1) + j] = ls[i + j]
      BY <1>2, <2>1
    <2> QED
      BY <2>1, <2>2, <2>3, <2>4
  <1>5. \A j \in i..(Len(ls) - 1) : bs[j] = ls[j + 1]
    <2> TAKE j \in i..(Len(ls) - 1)
    <2>1. j - i + 1 \in 1..(Len(ls) - i) /\ (i - 1) + (j - i + 1) = j /\ i + (j - i + 1) = j + 1
      OBVIOUS
    <2> QED
      BY <1>4, <2>1
  <1>6. \A h : Holds(ls, h) /\ h # ls[i].hash => Holds(bs, h)
    <2> SUFFICES ASSUME NEW h, Holds(ls, h), h # ls[i].hash PROVE Holds(bs, h)
      OBVIOUS
    <2>1. PICK j \in 1..Len(ls) : Intact(ls[j]) /\ ls[j].hash = h
      BY DEF Holds
    <2>2. CASE j < i
      <3>1. j \in 1..Len(bs) /\ bs[j] = ls[j]
        BY <1>4, <2>2
      <3> QED
        BY <2>1, <3>1 DEF Holds
    <2>3. CASE j > i
      <3>1. j - 1 \in i..(Len(ls) - 1) /\ j - 1 \in 1..Len(bs) /\ (j - 1) + 1 = j
        BY <1>4, <2>3
      <3>2. bs[j - 1] = ls[j]
        BY <1>5, <3>1
      <3> QED
        BY <2>1, <3>1, <3>2 DEF Holds
    <2> QED
      BY <2>1, <2>2, <2>3
  <1>7. ASSUME NEW k, \A j \in 1..Len(ls) : ls[j].hash <= k
        PROVE  \A j \in 1..Len(bs) : bs[j].hash <= k
    <2> TAKE j \in 1..Len(bs)
    <2>1. CASE j < i
      <3>1. j \in 1..(i - 1) /\ j \in 1..Len(ls) /\ bs[j] = ls[j]
        BY <1>4, <2>1
      <3> QED
        BY <1>7, <3>1
    <2>2. CASE j >= i
      <3>1. j \in i..(Len(ls) - 1) /\ j + 1 \in 1..Len(ls)
        BY <1>4, <2>2
      <3> QED
        BY <1>5, <1>7, <3>1
    <2> QED
      BY <2>1, <2>2
  <1>8. i # Len(ls) => bs # <<>>
    BY <1>4
  <1> QED
    BY <1>2, <1>4, <1>6, <1>7, <1>8

(* Outsiders cannot destroy an acknowledged record without it being counted. *)
LEMMA EditKeeps ==
  ASSUME LedgerInv, Edit
  PROVE  LedgerInv'
  <1>1. /\ holder = NoProc /\ edits' = edits + 1
        /\ UNCHANGED <<quarantine, holder, pc, base, kept, acked, moved>>
    BY DEF Edit
  <1>2. /\ lines \in Seq(Line) /\ torn \in BOOLEAN /\ (torn => lines # <<>>)
        /\ tampered \subseteq 0..MaxRecords
        /\ edits \in 0..MaxEdits
    BY DEF LedgerInv, TypeOK
  <1>3. edits' \in 0..MaxEdits /\ edits' # 0 /\ issued \in Nat
    BY <1>1, <1>2, BoundAssumption DEF Edit, LedgerInv, TypeOK
  <1>4. \A i \in 1..Len(lines) :
          /\ lines[i] \in Line /\ lines[i].hash \in 0..MaxRecords
          /\ lines[i].hash <= issued
    <2>1. \A i \in 1..Len(lines) : lines[i] \in Line /\ lines[i].hash \in Nat
      BY HashType DEF LedgerInv
    <2>2. issued <= MaxRecords /\ \A i \in 1..Len(lines) : lines[i].hash <= issued
      BY BoundAssumption DEF LedgerInv, TypeOK, Numbered
    <2> QED
      BY <1>3, <2>1, <2>2, BoundAssumption
  <1> DEFINE Good(k) ==
        /\ lines' \in Seq(Line) /\ torn' \in BOOLEAN /\ (torn' => lines' # <<>>)
        /\ tampered' \subseteq 0..MaxRecords /\ tampered \subseteq tampered'
        /\ \A j \in 1..Len(lines') : lines'[j].hash <= k
        /\ \A h \in acked : Holds(lines, h) /\ h \notin tampered' => Holds(lines', h)
  <1>5. ASSUME CutNewline PROVE Good(issued)
    <2>1. lines' = lines /\ tampered' = tampered /\ torn' = TRUE /\ lines # <<>>
      BY <1>5 DEF CutNewline
    <2> QED
      BY <1>2, <1>4, <2>1
  <1>6. ASSUME NEW i \in 1..Len(lines), NEW l \in Line, NEW k \in Nat,
               issued <= k, l.hash <= k, Overwrite(i, l)
        PROVE  Good(k)
    <2>1. /\ lines' = [lines EXCEPT ![i] = l] /\ torn' = torn
          /\ tampered' = tampered \cup ({lines[i].hash} \cap acked)
      BY <1>6 DEF Overwrite
    <2>2. lines' \in Seq(Line) /\ lines' # <<>>
      BY <1>2, <2>1, Overwritten
    <2>3. \A j \in 1..Len(lines) : lines[j].hash <= k
      BY <1>3, <1>4, <1>6
    <2>4. \A j \in 1..Len(lines') : lines'[j].hash <= k
      BY <1>2, <1>6, <2>1, <2>3, Overwritten
    <2>5. \A h : Holds(lines, h) /\ h # lines[i].hash => Holds(lines', h)
      BY <1>2, <2>1, Overwritten
    <2> QED
      BY <1>2, <1>4, <2>1, <2>2, <2>4, <2>5
  <1>7. ASSUME NEW i \in 1..Len(lines), Delete(i) PROVE Good(issued)
    <2>1. /\ lines' = SubSeq(lines, 1, i - 1) \o SubSeq(lines, i + 1, Len(lines))
          /\ torn' = (torn /\ i # Len(lines))
          /\ tampered' = tampered \cup ({lines[i].hash} \cap acked)
      BY <1>7 DEF Delete
    <2>2. lines' \in Seq(Line) /\ (i # Len(lines) => lines' # <<>>)
      BY <1>2, <2>1, Deleted
    <2>3. \A j \in 1..Len(lines') : lines'[j].hash <= issued
      BY <1>2, <1>4, <2>1, Deleted
    <2>4. \A h : Holds(lines, h) /\ h # lines[i].hash => Holds(lines', h)
      BY <1>2, <2>1, Deleted
    <2> QED
      BY <1>2, <1>4, <2>1, <2>2, <2>3, <2>4
  <1>8. ASSUME NEW i \in 1..Len(lines), NEW n \in {"bool", "float"}, Renumber(i, n)
        PROVE  issued + 1 <= MaxRecords /\ issued' = issued + 1 /\ Good(issued')
    <2>1. issued < MaxRecords /\ issued' = issued + 1 /\ issued' \in Nat /\ issued <= issued'
      BY <1>3, <1>8 DEF Renumber
    <2>2. Renumbered(lines[i], n) \in Line /\ Renumbered(lines[i], n).hash = issued'
      <3>1. lines[i] \in Line /\ issued + 1 \in Nat
        BY <1>3, <1>4
      <3> QED
        BY <2>1, <3>1 DEF Renumbered, Line, Number
    <2>3. Overwrite(i, Renumbered(lines[i], n))
      BY <1>8 DEF Renumber
    <2> HIDE DEF Good
    <2> QED
      BY <1>3, <1>6, <2>1, <2>2, <2>3, BoundAssumption
  <1>9. issued' \in 0..MaxRecords /\ issued <= issued' /\ Good(issued')
    <2>1. Junk \in Line /\ Junk.hash <= issued
      BY <1>3 DEF Junk, Line, Number
    <2>2. \A i \in 1..Len(lines) : Altered(lines[i]) \in Line /\ Altered(lines[i]).hash <= issued
      BY <1>4 DEF Altered, Line
    <2>3. issued \in 0..MaxRecords
      BY DEF LedgerInv, TypeOK
    <2> HIDE DEF Good
    <2>4. ASSUME UNCHANGED issued, Good(issued) PROVE Good(issued')
      BY <2>4
    <2>5. CASE \E i \in 1..Len(lines), n \in {"bool", "float"} : Renumber(i, n)
      <3>1. issued + 1 <= MaxRecords /\ issued' = issued + 1 /\ Good(issued')
        BY <1>8, <2>5
      <3> QED
        BY <1>3, <3>1, BoundAssumption
    <2>6. CASE UNCHANGED issued
      <3>1. ~ \E i \in 1..Len(lines), n \in {"bool", "float"} : Renumber(i, n)
        BY <1>3, <1>8, <2>6
      <3>2. \/ CutNewline
            \/ \E i \in 1..Len(lines) :
                 Overwrite(i, Junk) \/ Overwrite(i, Altered(lines[i])) \/ Delete(i)
        BY <3>1 DEF Edit
      <3>3. issued <= issued
        BY <1>3
      <3>4. Good(issued)
        BY <1>3, <1>5, <1>6, <1>7, <2>1, <2>2, <3>2, <3>3
      <3> QED
        BY <1>3, <2>3, <2>6, <3>4
    <2> QED
      BY <2>5, <2>6 DEF Edit
  <1>10. TypeOK'
    BY <1>1, <1>3, <1>9 DEF LedgerInv, TypeOK
  <1>11. LockHeld' /\ Writing' /\ Repairing'
    <2>1. \A q \in Proc : pc[q] \in {"idle", "agreed"}
      BY <1>1, ProcAssumption DEF LedgerInv, TypeOK, LockHeld, Proc
    <2> QED
      BY <1>1, <2>1, ProcAssumption DEF LockHeld, Writing, Repairing, Proc
  <1>12. Numbered' /\ ChainKept' /\ IntactNeverMoved'
    <2>1. acked' \subseteq 1..issued'
      BY <1>1, <1>3, <1>9, BoundAssumption DEF LedgerInv, Numbered
    <2> QED
      BY <1>1, <1>3, <1>9, <2>1 DEF Numbered, ChainKept, IntactNeverMoved
  <1>13. NothingDiscarded'
    <2>1. UNCHANGED <<quarantine, acked>> /\ tampered \subseteq tampered'
      BY <1>1, <1>9
    <2> SUFFICES ASSUME NEW h \in acked \ tampered'
                 PROVE  \/ Holds(lines', h)
                        \/ \E k \in 1..Len(quarantine) : Holds(quarantine[k], h)
      BY <2>1 DEF NothingDiscarded, Holds, Intact
    <2> QED
      BY <1>9, <2>1 DEF LedgerInv, NothingDiscarded
  <1> QED
    BY <1>10, <1>11, <1>12, <1>13 DEF LedgerInv

(* Every step of hooks, repairs and outsiders keeps the invariant. *)
LEMMA LedgerInvStep == LedgerInv /\ [Next]_vars => LedgerInv'
  <1> SUFFICES ASSUME LedgerInv, [Next]_vars PROVE LedgerInv'
    OBVIOUS
  <1>1. ASSUME NEW p \in Proc, Enter(p) PROVE LedgerInv'
    BY <1>1, AcquireKeeps DEF Enter
  <1>2. ASSUME NEW p \in Proc, CheckTail(p) PROVE LedgerInv'
    BY <1>2, CheckTailKeeps
  <1>3. ASSUME NEW p \in Proc, Write(p) PROVE LedgerInv'
    BY <1>3, WriteKeeps
  <1>4. ASSUME NEW p \in Proc, WritePart(p) PROVE LedgerInv'
    BY <1>4, WritePartKeeps
  <1>5. ASSUME NEW p \in Proc, WriteRest(p) PROVE LedgerInv'
    BY <1>5, WriteRestKeeps
  <1>6. ASSUME NEW p \in Proc, WriteFails(p) PROVE LedgerInv'
    BY <1>6, LeaveKeeps DEF WriteFails
  <1>7. ASSUME NEW p \in Proc, Sync(p) PROVE LedgerInv'
    BY <1>7, SyncKeeps
  <1>8. ASSUME NEW p \in Proc, Goto(p, "agreed") \/ Goto(p, "idle"),
               pc[p] \in {"idle", "agreed"},
               UNCHANGED <<file, quarantine, holder, base, kept, issued, acked,
                           tampered, edits, moved>>
        PROVE  LedgerInv'
    <2>1. TypeOK'
      BY <1>8 DEF LedgerInv, TypeOK, Goto, file
    <2>2. LockHeld' /\ Writing' /\ Repairing'
      <3>1. /\ pc'[p] \in {"idle", "agreed"}
            /\ \A q \in Proc \ {p} : pc'[q] = pc[q]
        BY <1>8 DEF LedgerInv, TypeOK, Goto
      <3>2. LockHeld'
        BY <1>8, <3>1 DEF LedgerInv, LockHeld
      <3>3. Writing'
        BY <1>8, <3>1 DEF LedgerInv, Writing, NextBase, Complete, Intact, file
      <3>4. Repairing'
        BY <1>8, <3>1 DEF LedgerInv, Repairing, file
      <3> QED
        BY <3>2, <3>3, <3>4
    <2>3. Numbered' /\ ChainKept' /\ IntactNeverMoved' /\ NothingDiscarded'
      BY <1>8, FilesKept DEF file
    <2> QED
      BY <2>1, <2>2, <2>3 DEF LedgerInv
  <1>9. ASSUME NEW p \in Proc, LookForDamage(p) PROVE LedgerInv'
    BY <1>8, <1>9 DEF LookForDamage
  <1>10. ASSUME NEW p \in Proc, EnterRepair(p) PROVE LedgerInv'
    BY <1>10, AcquireKeeps DEF EnterRepair
  <1>11. ASSUME NEW p \in Proc, Quarantine(p) PROVE LedgerInv'
    BY <1>11, QuarantineKeeps
  <1>12. ASSUME NEW p \in Proc, NothingToRepair(p) PROVE LedgerInv'
    BY <1>12, LeaveKeeps DEF NothingToRepair
  <1>13. ASSUME NEW p \in Proc, Replace(p) PROVE LedgerInv'
    BY <1>13, ReplaceKeeps
  <1>14. ASSUME NEW p \in Proc, Die(p) PROVE LedgerInv'
    <2>1. CASE holder = p
      BY <1>14, <2>1, LeaveKeeps DEF Die
    <2>2. CASE holder # p
      <3>1. pc[p] \in {"idle", "agreed"}
        BY <2>2 DEF LedgerInv, LockHeld, TypeOK
      <3> QED
        BY <1>8, <1>14, <2>2, <3>1 DEF Die
    <2> QED
      BY <2>1, <2>2
  <1>15. CASE Edit
    BY <1>15, EditKeeps
  <1>16. CASE UNCHANGED vars
    <2>1. TypeOK' /\ LockHeld'
      BY <1>16 DEF LedgerInv, TypeOK, LockHeld, vars, file
    <2>2. Writing' /\ Repairing'
      BY <1>16 DEF LedgerInv, Writing, Repairing, NextBase, Complete, Intact, vars, file
    <2>3. Numbered' /\ ChainKept' /\ IntactNeverMoved' /\ NothingDiscarded'
      BY <1>16, FilesKept DEF vars, file
    <2> QED
      BY <2>1, <2>2, <2>3 DEF LedgerInv
  <1> QED
    BY <1>1, <1>2, <1>3, <1>4, <1>5, <1>6, <1>7, <1>9, <1>10, <1>11, <1>12, <1>13,
       <1>14, <1>15, <1>16 DEF Next

-----------------------------------------------------------------------------
(* Every reachable state satisfies the inductive invariant. *)
THEOREM LedgerInvariant == Spec => []LedgerInv
  BY LedgerInvInit, LedgerInvStep, PTL DEF Spec

(* Lines, quarantine files, lock and counters keep their types. *)
THEOREM LedgerTypeCorrect == Spec => []TypeOK
  <1>1. LedgerInv => TypeOK
    BY DEF LedgerInv
  <1> QED
    BY <1>1, LedgerInvariant, PTL

(* Whatever crashes, failed writes, repairs and outsiders do, a record whose *)
(* append was acknowledged is in the ledger or in a quarantine file, unless  *)
(* an outsider destroyed it.                                                 *)
THEOREM NothingDiscardedHolds == Spec => []NothingDiscarded
  <1>1. LedgerInv => NothingDiscarded
    BY DEF LedgerInv
  <1> QED
    BY <1>1, LedgerInvariant, PTL

(* A repair never takes an acknowledged record out of an undamaged ledger. *)
THEOREM IntactNeverMovedHolds == Spec => []IntactNeverMoved
  <1>1. LedgerInv => IntactNeverMoved
    BY DEF LedgerInv
  <1> QED
    BY <1>1, LedgerInvariant, PTL

(* The complete lines of a ledger no outsider touched always verify, though  *)
(* every append looks at the last line only.                                 *)
THEOREM ChainHoldsAlways == Spec => []ChainHolds
  <1>1. LedgerInv => ChainHolds
    <2> SUFFICES ASSUME LedgerInv, edits = 0
                 PROVE  Damaged(Complete(lines, torn)) = {}
      BY DEF ChainHolds
    <2>1. Complete(lines, torn) \in Seq(Line)
      BY LastReplaced DEF LedgerInv, TypeOK, Complete
    <2>2. Chained(Complete(lines, torn))
      BY DEF LedgerInv, ChainKept
    <2> QED
      BY <2>1, <2>2, ChainedVerifies
  <1> QED
    BY <1>1, LedgerInvariant, PTL

-----------------------------------------------------------------------------
(* Refinement: the complete lines are an append-only log.                    *)

LEMMA EntriesAppend ==
  ASSUME NEW ls \in Seq(Line), NEW l \in Line
  PROVE  Entries(Append(ls, l)) = Append(Entries(ls), l.hash)
  BY DEF Entries

(* A whole record behind the complete lines is one entry more. *)
LEMMA RecordsOne ==
  ASSUME NEW ls \in Seq(Line), NEW l \in Line, l.hash \in 1..MaxRecords,
         \A i \in 1..Len(ls) : ls[i].hash # l.hash,
         edits = 0, edits' = 0,
         Entries(Complete(lines, torn)) = Entries(ls),
         Entries(Complete(lines, torn))' = Entries(Append(ls, l))
  PROVE  Log!Next
  <1>1. Len(Entries(ls)) = Len(ls) /\ \A i \in 1..Len(ls) : Entries(ls)[i] = ls[i].hash
    BY DEF Entries
  <1> QED
    BY <1>1, EntriesAppend DEF Log!Next, Log!Record

(* Without outside edits every step is an append to the log, or invisible to it. *)
LEMMA LogStep ==
  ASSUME LedgerInv, edits = 0, Next, edits' = 0
  PROVE  Log!Next \/ UNCHANGED Entries(Complete(lines, torn))
  <1>1. lines \in Seq(Line) /\ torn \in BOOLEAN /\ (torn => lines # <<>>)
        /\ issued \in Nat /\ issued <= MaxRecords
    BY BoundAssumption DEF LedgerInv, TypeOK
  <1>2. ASSUME NEW p \in Proc, Write(p) PROVE Log!Next
    <2> DEFINE l == NewLine(p)
    <2>1. ~torn /\ lines' = Append(lines, l) /\ torn' = FALSE /\ issued < MaxRecords
      BY <1>2 DEF Write, Glued, LedgerInv, Writing
    <2>2. l \in Line /\ l.hash = issued + 1
      BY FreshLineType DEF LedgerInv
    <2>3. l.hash \in 1..MaxRecords /\ \A i \in 1..Len(lines) : lines[i].hash # l.hash
      BY <1>1, <2>1, <2>2, HashType, BoundAssumption DEF LedgerInv, Numbered
    <2> HIDE DEF l
    <2> QED
      BY <1>1, <2>1, <2>2, <2>3, RecordsOne DEF Complete
  <1>3. ASSUME NEW p \in Proc, WriteRest(p) PROVE Log!Next
    <2> DEFINE l == [NewLine(p) EXCEPT !.hash = issued]
    <2>1. /\ torn /\ lines' = [lines EXCEPT ![Len(lines)] = l] /\ torn' = FALSE
          /\ issued > 0 /\ \A i \in 1..(Len(lines) - 1) : lines[i].hash < issued
      BY <1>3 DEF WriteRest, LedgerInv, Writing
    <2>2. l \in Line /\ l.hash = issued
      BY <1>1, NewLineType DEF LedgerInv
    <2> HIDE DEF l
    <2>3. PICK cs \in Seq(Line) :
            /\ cs = Complete(lines, TRUE) /\ Len(cs) = Len(lines) - 1
            /\ \A i \in 1..(Len(lines) - 1) : cs[i] = lines[i]
            /\ lines' = Append(cs, l)
      BY <1>1, <2>1, <2>2, LastReplaced
    <2>4. l.hash \in 1..MaxRecords /\ \A i \in 1..Len(cs) : cs[i].hash # l.hash
      <3>1. \A i \in 1..Len(cs) : cs[i].hash < issued
        BY <2>1, <2>3
      <3> QED
        BY <1>1, <2>1, <2>2, <3>1, BoundAssumption
    <2>5. Complete(lines, torn) = cs /\ Complete(lines', torn') = Append(cs, l)
      BY <2>1, <2>3 DEF Complete
    <2> QED
      BY <2>2, <2>4, <2>5, RecordsOne
  <1>4. ASSUME NEW p \in Proc, WritePart(p) PROVE UNCHANGED Complete(lines, torn)
    <2>1. ~torn /\ torn' = TRUE
      BY <1>4 DEF WritePart, LedgerInv, Writing
    <2>2. PICK l \in Line : lines' = Append(lines, l)
      <3>1. Junk \in Line
        BY DEF Junk, Line, Number
      <3>2. NewLine(p) \in Line
        BY FreshLineType DEF LedgerInv
      <3> QED
        BY <1>4, <2>1, <3>1, <3>2 DEF WritePart, Glued
    <2>3. Complete(Append(lines, l), TRUE) = lines
      BY <1>1, AppendFacts
    <2> QED
      BY <2>1, <2>2, <2>3 DEF Complete
  <1>5. ASSUME NEW p \in Proc, Replace(p) PROVE UNCHANGED Complete(lines, torn)
    <2>1. torn /\ kept = SubSeq(lines, 1, Len(lines) - 1) /\ lines' = kept /\ torn' = FALSE
      BY <1>5 DEF Replace, LedgerInv, Repairing
    <2> QED
      BY <2>1 DEF Complete
  <1>6. ASSUME UNCHANGED <<lines, torn>> PROVE UNCHANGED Complete(lines, torn)
    BY <1>6
  <1>7. ASSUME UNCHANGED Complete(lines, torn)
        PROVE  UNCHANGED Entries(Complete(lines, torn))
    BY <1>7 DEF Entries
  <1>8. ~Edit
    BY DEF Edit, LedgerInv, TypeOK
  <1> QED
    BY <1>2, <1>3, <1>4, <1>5, <1>6, <1>7, <1>8
    DEF Next, Enter, CheckTail, WriteFails, Sync, LookForDamage, EnterRepair,
        Quarantine, NothingToRepair, Die, file

(* Outside edits are counted and never forgotten. *)
LEMMA EditsGrow ==
  ASSUME LedgerInv, Next
  PROVE  edits' = 0 => edits = 0
BY DEF LedgerInv, TypeOK, Next, Enter, CheckTail, Write, WritePart, WriteRest, WriteFails, Sync,
       LookForDamage, EnterRepair, Quarantine, NothingToRepair, Replace, Die, Edit

(* To whoever leaves the file alone, appends, crashes and repairs together   *)
(* are an append-only log of distinct records.                               *)
THEOREM LogImplemented == Spec => ImplementsLog
  <1>1. Init => Entries(Complete(lines, torn)) = <<>> /\ edits = 0
    BY DEF Init, Entries, Complete
  <1>2. Init => Log!Init
    BY <1>1 DEF Log!Init
  <1>3. LedgerInv /\ [Next]_vars => [Log!Next]_<<Entries(Complete(lines, torn)), edits = 0>>
    <2> SUFFICES ASSUME LedgerInv, [Next]_vars
                 PROVE  \/ UNCHANGED <<Entries(Complete(lines, torn)), edits = 0>>
                        \/ Log!Next
      OBVIOUS
    <2>1. CASE UNCHANGED vars
      BY <2>1 DEF vars, file
    <2>2. CASE Next /\ edits' # 0
      BY <2>2 DEF Log!Next
    <2>3. CASE Next /\ edits' = 0
      <3>1. edits = 0
        BY <2>3, EditsGrow
      <3> QED
        BY <2>3, <3>1, LogStep
    <2> QED
      BY <2>1, <2>2, <2>3
  <1> QED
    BY <1>2, <1>3, LedgerInvariant, PTL DEF Spec, ImplementsLog, Log!Spec

-----------------------------------------------------------------------------
(* Refused appends and repairs. *)

(* Whenever appends are refused with the advice to run repair-hooks, that    *)
(* command finds something to repair: a last line that is no record by       *)
(* itself is damage to the reader too, whatever stands before it.  Only a    *)
(* last record whose number is no integer is refused and may be sound.       *)
THEOREM RefusedIsAlwaysRepairable == Spec => []RefusedIsRepairable
  <1>1. LedgerInv => RefusedIsRepairable
    <2> SUFFICES ASSUME LedgerInv, lines # <<>>, ~Intact(lines[Len(lines)])
                 PROVE  Damaged(lines) # {}
      BY DEF RefusedIsRepairable, Refuses, NeedsRepair
    <2>1. Len(lines) \in 1..Len(lines)
      BY DEF LedgerInv, TypeOK
    <2> QED
      BY <2>1 DEF Damaged, Readable
  <1> QED
    BY <1>1, LedgerInvariant, PTL

(* What a repair leaves of the ledger verifies at each of its steps: the     *)
(* kept lines, the ledger they become, and that ledger with the repair       *)
(* record behind it, whose number is an integer unless the kept part ends in *)
(* one that is none.  A repair never takes the way of an append.             *)
RepairInv ==
  \A p \in Repairer :
    /\ pc[p] # "check"
    /\ pc[p] = "replace" => Chained(kept)
    /\ pc[p] \in {"write", "rest", "sync"} => Chained(Complete(lines, torn))
    /\ pc[p] \in {"write", "rest"} => base.number = "int" \/ OddTail(kept)
    /\ pc[p] = "sync" => lines[Len(lines)].number = "int" \/ OddTail(kept)

LEMMA RepairInvInit == Init => RepairInv
  BY DEF Init, RepairInv, Proc

(* A step that moves no repair onto another of those points, and leaves the  *)
(* files alone, keeps what it knows.                                         *)
LEMMA RepairUnmoved ==
  ASSUME RepairInv, UNCHANGED <<lines, torn, kept>>,
         \A q \in Repairer :
           /\ pc'[q] \in {"check", "replace", "write", "rest", "sync"} => pc'[q] = pc[q]
           /\ pc'[q] \in {"write", "rest"} => base' = base
  PROVE  RepairInv'
  BY DEF RepairInv, Chained, Complete, Intact, OddTail

(* The whole record behind a chain it was made for is a chain. *)
LEMMA RepairRecord ==
  ASSUME LedgerInv, NEW p \in Proc, NEW l \in Line, Intact(l),
         l.seq = NextBase(Complete(lines, torn)).seq,
         l.prev = NextBase(Complete(lines, torn)).prev,
         lines' = Append(Complete(lines, torn), l), torn' = FALSE,
         Chained(Complete(lines, torn))
  PROVE  Chained(Complete(lines, torn))'
  <1>1. Complete(lines, torn) \in Seq(Line)
    BY LastReplaced DEF LedgerInv, TypeOK, Complete
  <1>2. Chained(Append(Complete(lines, torn), l))
    BY <1>1, ChainGrows
  <1>3. Complete(lines', torn') = Append(Complete(lines, torn), l)
    BY DEF Complete
  <1> QED
    BY <1>2, <1>3

LEMMA RepairInvStep == LedgerInv /\ RepairInv /\ [Next]_vars => RepairInv'
  <1> SUFFICES ASSUME LedgerInv, RepairInv, [Next]_vars PROVE RepairInv'
    OBVIOUS
  <1>0. /\ lines \in Seq(Line) /\ torn \in BOOLEAN /\ (torn => lines # <<>>)
        /\ Repairer \subseteq Proc /\ DOMAIN pc = Proc
    BY DEF LedgerInv, TypeOK, Proc
  <1>L. LedgerInv'
    BY LedgerInvStep
  <1>1. ASSUME NEW p \in Proc, Leave(p) PROVE RepairInv'
    <2>1. holder' = NoProc /\ NoProc \notin Proc
      BY <1>1, ProcAssumption DEF Leave, Mutex!Yield, Proc
    <2>2. \A q \in Repairer :
            pc'[q] \notin {"check", "replace", "write", "rest", "sync"}
      BY <1>0, <1>L, <2>1 DEF LedgerInv, LockHeld
    <2> QED
      BY <2>2 DEF RepairInv
  <1>2. ASSUME NEW p \in Proc, NEW l \in {"idle", "agreed", "repair"}, Goto(p, l),
               UNCHANGED <<lines, torn, kept, base>>
        PROVE  RepairInv'
    <2>1. \A q \in Repairer :
            pc'[q] \in {"check", "replace", "write", "rest", "sync"} => pc'[q] = pc[q]
      BY <1>0, <1>2 DEF Goto
    <2> QED
      BY <1>2, <2>1, RepairUnmoved
  <1>3. ASSUME NEW p \in Hook, NEW l \in {"check", "write"}, Goto(p, l),
               holder' = p, UNCHANGED <<lines, torn, kept>>
        PROVE  RepairInv'
    <2>1. \A q \in Repairer : pc'[q] = pc[q]
      BY <1>0, <1>3, ProcAssumption DEF Goto, Proc
    <2>2. \A q \in Repairer : pc'[q] \notin {"write", "rest"}
      BY <1>0, <1>3, <1>L, ProcAssumption DEF LedgerInv, LockHeld
    <2> QED
      BY <1>3, <2>1, <2>2, RepairUnmoved
  <1>4. ASSUME NEW p \in Proc, CheckTail(p) PROVE RepairInv'
    <2>1. p \in Hook
      BY <1>4 DEF CheckTail, RepairInv, Proc
    <2>2. holder = p
      BY <1>4 DEF CheckTail, LedgerInv, LockHeld
    <2> QED
      BY <1>1, <1>3, <1>4, <2>1, <2>2 DEF CheckTail, file
  <1>5. ASSUME NEW p \in Proc, holder = p, NEW l \in {"write", "rest", "sync", "replace"},
               Goto(p, l),
               p \in Repairer =>
                 /\ l = "replace" => Chained(kept)'
                 /\ l # "replace" => Chained(Complete(lines, torn))'
                 /\ l \in {"write", "rest"} => (base.number = "int" \/ OddTail(kept))'
                 /\ l = "sync" => (lines[Len(lines)].number = "int" \/ OddTail(kept))'
        PROVE  RepairInv'
    <2>1. \A q \in Repairer \ {p} : pc'[q] \in {"idle", "agreed"}
      BY <1>0, <1>5, OthersOutside DEF Goto
    <2>2. pc'[p] = l
      BY <1>0, <1>5 DEF Goto
    <2> QED
      BY <1>5, <2>1, <2>2 DEF RepairInv
  <1>6. ASSUME NEW p \in Proc, Write(p) PROVE RepairInv'
    <2>1. holder = p /\ ~torn /\ base = NextBase(lines) /\ pc[p] = "write"
      BY <1>6 DEF Write, LedgerInv, LockHeld, Writing
    <2>2. /\ NewLine(p) \in Line /\ Intact(NewLine(p))
          /\ NewLine(p).seq = base.seq /\ NewLine(p).prev = base.prev
          /\ NewLine(p).number = base.number
      BY FreshLineType DEF LedgerInv
    <2>3. /\ Complete(lines, torn) = lines /\ lines' = Append(lines, NewLine(p))
          /\ torn' = FALSE
      BY <1>6, <2>1 DEF Write, Glued, Complete
    <2>4. p \in Repairer => Chained(Complete(lines, torn))'
      BY <2>1, <2>2, <2>3, RepairRecord DEF RepairInv
    <2>5. lines'[Len(lines')] = NewLine(p) /\ kept' = kept
      BY <1>0, <1>6, <2>2, <2>3 DEF Write
    <2>6. p \in Repairer => (lines[Len(lines)].number = "int" \/ OddTail(kept))'
      BY <2>1, <2>2, <2>5 DEF RepairInv, OddTail, Intact
    <2> QED
      BY <1>5, <1>6, <2>1, <2>4, <2>6 DEF Write
  <1>7. ASSUME NEW p \in Proc, WritePart(p) PROVE RepairInv'
    <2>1. holder = p /\ ~torn /\ torn' = TRUE /\ pc[p] = "write"
      BY <1>7 DEF WritePart, LedgerInv, LockHeld, Writing
    <2>2. PICK l \in Line : lines' = Append(lines, l)
      <3>1. Junk \in Line
        BY DEF Junk, Line, Number
      <3>2. NewLine(p) \in Line
        BY FreshLineType DEF LedgerInv
      <3> QED
        BY <1>7, <2>1, <3>1, <3>2 DEF WritePart, Glued
    <2>3. Complete(lines', torn') = lines /\ Complete(lines, torn) = lines
      BY <1>0, <2>1, <2>2, AppendFacts DEF Complete
    <2>4. p \in Repairer => Chained(Complete(lines, torn))'
      BY <2>1, <2>3 DEF RepairInv
    <2>5. p \in Repairer => (base.number = "int" \/ OddTail(kept))'
      BY <1>7, <2>1 DEF RepairInv, WritePart, OddTail, Intact
    <2> QED
      BY <1>5, <1>7, <2>1, <2>4, <2>5 DEF WritePart
  <1>8. ASSUME NEW p \in Proc, WriteRest(p) PROVE RepairInv'
    <2> DEFINE l == [NewLine(p) EXCEPT !.hash = issued]
    <2>1. holder = p /\ torn /\ base = NextBase(Complete(lines, torn)) /\ pc[p] = "rest"
      BY <1>8 DEF WriteRest, LedgerInv, LockHeld, Writing
    <2>2. /\ l \in Line /\ Intact(l) /\ l.seq = base.seq /\ l.prev = base.prev
          /\ l.number = base.number
      <3>1. issued \in Nat
        BY BoundAssumption DEF LedgerInv, TypeOK
      <3> QED
        BY <3>1, NewLineType DEF LedgerInv
    <2>3. lines' = [lines EXCEPT ![Len(lines)] = l] /\ torn' = FALSE
      BY <1>8 DEF WriteRest
    <2> HIDE DEF l
    <2>4. lines' = Append(Complete(lines, torn), l)
      BY <1>0, <2>1, <2>2, <2>3, LastReplaced
    <2>5. p \in Repairer => Chained(Complete(lines, torn))'
      BY <2>1, <2>2, <2>3, <2>4, RepairRecord DEF RepairInv
    <2>6. lines'[Len(lines')] = l /\ kept' = kept
      BY <1>0, <1>8, <2>1, <2>2, <2>3 DEF WriteRest
    <2>7. p \in Repairer => (lines[Len(lines)].number = "int" \/ OddTail(kept))'
      BY <2>1, <2>2, <2>6 DEF RepairInv, OddTail, Intact
    <2> QED
      BY <1>5, <1>8, <2>1, <2>5, <2>7 DEF WriteRest
  <1>9. ASSUME NEW p \in Proc, Quarantine(p) PROVE RepairInv'
    <2>1. holder = p
      BY <1>9 DEF Quarantine, LedgerInv, LockHeld
    <2>2. lines # <<>>
      BY <1>0, <1>9 DEF Quarantine, NeedsRepair, Damaged
    <2>3. Chained(kept)'
      BY <1>0, <1>9, <2>2, KeptVerifies DEF Quarantine
    <2> QED
      BY <1>5, <1>9, <2>1, <2>3 DEF Quarantine
  <1>10. ASSUME NEW p \in Proc, Replace(p) PROVE RepairInv'
    <2>1. holder = p /\ pc[p] = "replace"
      BY <1>10 DEF Replace, LedgerInv, LockHeld
    <2>2. p \in Repairer => Chained(Complete(lines, torn))'
      BY <1>10, <2>1 DEF RepairInv, Replace, Complete
    <2>3. kept \in Seq(Line) /\ (p \in Repairer => Chained(kept))
      BY <2>1 DEF LedgerInv, TypeOK, RepairInv
    <2>4. ASSUME p \in Repairer, NextBase(kept).number # "int" PROVE OddTail(kept)
      <3>1. kept # <<>> /\ kept[Len(kept)].number = "float"
        BY <2>4 DEF NextBase
      <3>2. Intact(kept[Len(kept)])
        BY <2>3, <2>4, <3>1 DEF Chained
      <3> QED
        BY <3>1, <3>2 DEF OddTail
    <2>5. base' = NextBase(kept) /\ kept' = kept
      BY <1>10 DEF Replace
    <2>6. p \in Repairer => (base.number = "int" \/ OddTail(kept))'
      BY <2>4, <2>5 DEF OddTail, Intact
    <2> QED
      BY <1>5, <1>10, <2>1, <2>2, <2>6 DEF Replace
  <1>11. CASE Edit
    <2>1. holder = NoProc /\ NoProc \notin Proc /\ pc' = pc
      BY <1>11, ProcAssumption DEF Edit, Proc
    <2>2. \A q \in Repairer :
            pc'[q] \notin {"check", "replace", "write", "rest", "sync"}
      BY <1>0, <1>L, <2>1 DEF LedgerInv, LockHeld
    <2> QED
      BY <2>2 DEF RepairInv
  <1>12. CASE UNCHANGED vars
    BY <1>12, RepairUnmoved DEF vars, file
  <1>13. ASSUME NEW p \in Proc,
                Enter(p) \/ WriteFails(p) \/ Sync(p) \/ LookForDamage(p)
                \/ EnterRepair(p) \/ NothingToRepair(p) \/ Die(p)
         PROVE  RepairInv'
    BY <1>1, <1>2, <1>3, <1>13
    DEF Enter, Mutex!Acquire, WriteFails, Sync, LookForDamage, EnterRepair, NothingToRepair, Die, file
  <1> QED
    BY <1>4, <1>6, <1>7, <1>8, <1>9, <1>10, <1>11, <1>12, <1>13 DEF Next

(* A repair that succeeds leaves a ledger that verifies and accepts the next *)
(* record, whatever the damage was and whatever went on around the repair,   *)
(* unless the part it keeps ends in a record whose number is no integer.     *)
THEOREM RepairAlwaysHeals == Spec => RepairHeals
  <1>1. ASSUME LedgerInv, RepairInv, [Next]_vars
        PROVE  [\A p \in Repairer :
                  pc[p] = "sync" /\ acked' # acked
                  => /\ ~NeedsRepair(lines', torn')
                     /\ Refuses(lines', torn') => OddTail(kept)]_vars
    <2> SUFFICES ASSUME Next, NEW p \in Repairer, pc[p] = "sync", acked' # acked
                 PROVE  ~NeedsRepair(lines', torn') /\ (Refuses(lines', torn') => OddTail(kept))
      BY <1>1
    <2>1. p \in Proc /\ lines \in Seq(Line)
      BY <1>1 DEF Proc, LedgerInv, TypeOK
    <2>2. PICK q \in Proc : Sync(q)
      BY <1>1 DEF Next, Enter, CheckTail, Write, WritePart, WriteRest, WriteFails,
                  LookForDamage, EnterRepair, Quarantine, NothingToRepair, Replace,
                  Die, Edit
    <2>3. lines' = lines /\ torn' = torn
      BY <2>2 DEF Sync, file
    <2>4. ~torn /\ Chained(lines)
      BY <1>1, <2>1 DEF LedgerInv, Writing, RepairInv, Complete
    <2>5. Damaged(lines) = {}
      BY <2>1, <2>4, ChainedVerifies
    <2>6. lines # <<>> => Intact(lines[Len(lines)])
      BY <2>1, <2>4 DEF Chained
    <2>7. lines[Len(lines)].number = "int" \/ OddTail(kept)
      BY <1>1, <2>1 DEF RepairInv
    <2>8. Refuses(lines, torn) => OddTail(kept)
      BY <2>4, <2>6, <2>7 DEF Refuses, OddTail
    <2> QED
      BY <2>3, <2>4, <2>5, <2>8 DEF NeedsRepair
  <1> QED
    BY <1>1, LedgerInvariant, RepairInvInit, RepairInvStep, PTL DEF Spec, RepairHeals

-----------------------------------------------------------------------------
(* Loss of power: HookLedgerDisk.  The chain and the quarantine files may    *)
(* then break, so its invariant is one of its own.                           *)

Step == {"idle", "check", "write", "rest", "sync", "agreed", "repair", "replace"}

Base == [prev: Nat, seq: Nat, number: Number]

CacheType ==
  /\ lines \in Seq(Line) /\ (torn => lines # <<>>)
  /\ quarantine \in Seq(Seq(Line)) /\ kept \in Seq(Line)
  /\ base \in Base /\ issued \in Nat
  /\ acked \subseteq 0..issued /\ moved \subseteq 1..Len(quarantine)
  /\ pc \in [Proc -> Step]

(* What the holder of the lock knows: its line is the last one, no other     *)
(* record is behind it, the chunk it cuts off has not left yet, and what it  *)
(* keeps is in the ledger.                                                   *)
Working ==
  \A p \in Proc :
    /\ pc[p] = "write" => ~torn
    /\ pc[p] = "rest" =>
         /\ lines # <<>> /\ (lines[Len(lines)] = Junk \/ lines[Len(lines)].hash = issued)
         /\ issued \notin acked
    /\ pc[p] = "sync" =>
         lines # <<>> /\ Intact(lines[Len(lines)]) /\ lines[Len(lines)].hash = issued
    /\ pc[p] = "replace" =>
         /\ quarantine # <<>> /\ Len(quarantine) \notin moved
         /\ \A h : Holds(kept, h) => Holds(lines, h)

CacheInv == CacheType /\ LockHeld /\ Working

(* What a step does to the acknowledged records: none appears, and one       *)
(* disappears by an outsider or with a repair.                               *)
Recs ==
  \A h \in acked :
    /\ Holds(lines', h) => Holds(lines, h)
    /\ Holds(lines, h) => Holds(lines', h) \/ h \in tampered' \/ moved' # moved

DiskType ==
  /\ disk.lines \in Seq(Line) /\ (disk.torn => disk.lines # <<>>)
  /\ entry.lines \in Seq(Line) /\ (entry.torn => entry.lines # <<>>)

(* A file that was stored holds every acknowledged record the ledger holds,  *)
(* and so does the file the directory leads to instead, but for the records  *)
(* acknowledged since.                                                       *)
Stored ==
  /\ synced => \A h \in acked : Holds(lines, h) => Holds(disk.lines, h)
  /\ ~linked => \A h \in acked \ late : Holds(lines, h) => Holds(entry.lines, h)

DiskInv == CacheInv /\ DiskType /\ Stored

LEMMA DiskInvInit == DiskInit => DiskInv
  <1> SUFFICES ASSUME DiskInit PROVE DiskInv
    OBVIOUS
  <1>1. CacheType
    BY DEF DiskInit, Init, CacheType, NoBase, Base, Step, Number
  <1>2. LockHeld /\ Working
    BY ProcAssumption DEF DiskInit, Init, LockHeld, Working, Proc
  <1>3. DiskType
    BY DEF DiskInit, Empty, DiskType
  <1>4. Stored
    BY DEF DiskInit, Init, Stored
  <1> QED
    BY <1>1, <1>2, <1>3, <1>4 DEF DiskInv, CacheInv

(* A record in a file with one line more was there before, or is that line. *)
LEMMA AppendGains ==
  ASSUME NEW ls \in Seq(Line), NEW l \in Line, NEW h, Holds(Append(ls, l), h)
  PROVE  Holds(ls, h) \/ (Intact(l) /\ l.hash = h)
  <1>1. PICK bs \in Seq(Line) :
          /\ bs = Append(ls, l) /\ Len(bs) = Len(ls) + 1 /\ bs[Len(bs)] = l
          /\ \A i \in 1..Len(ls) : bs[i] = ls[i]
    <2>1. Append(ls, l) \in Seq(Line) /\ Len(Append(ls, l)) = Len(ls) + 1
      OBVIOUS
    <2>2. Append(ls, l)[Len(Append(ls, l))] = l
      OBVIOUS
    <2>3. \A i \in 1..Len(ls) : Append(ls, l)[i] = ls[i]
      OBVIOUS
    <2> QED
      BY <2>1, <2>2, <2>3
  <1>2. PICK i \in 1..Len(bs) : Intact(bs[i]) /\ bs[i].hash = h
    BY <1>1 DEF Holds
  <1>3. i = Len(bs) \/ i \in 1..Len(ls)
    BY <1>1, <1>2
  <1> QED
    BY <1>1, <1>2, <1>3 DEF Holds

(* A record in a file with one line changed was there before, or is that line. *)
LEMMA OverwriteGains ==
  ASSUME NEW ls \in Seq(Line), NEW i \in 1..Len(ls), NEW l \in Line, NEW h,
         Holds([ls EXCEPT ![i] = l], h)
  PROVE  Holds(ls, h) \/ (Intact(l) /\ l.hash = h)
  <1>1. PICK bs \in Seq(Line) :
          /\ bs = [ls EXCEPT ![i] = l] /\ Len(bs) = Len(ls)
          /\ \A j \in 1..Len(ls) : bs[j] = IF j = i THEN l ELSE ls[j]
    <2>1. [ls EXCEPT ![i] = l] \in Seq(Line)
      OBVIOUS
    <2>2. Len([ls EXCEPT ![i] = l]) = Len(ls)
      OBVIOUS
    <2>3. \A j \in 1..Len(ls) : [ls EXCEPT ![i] = l][j] = IF j = i THEN l ELSE ls[j]
      OBVIOUS
    <2> QED
      BY <2>1, <2>2, <2>3
  <1>2. PICK j \in 1..Len(bs) : Intact(bs[j]) /\ bs[j].hash = h
    BY <1>1 DEF Holds
  <1> QED
    BY <1>1, <1>2 DEF Holds

(* A record in the front part of a file is in the file. *)
LEMMA FrontHolds ==
  ASSUME NEW ls \in Seq(Line), NEW n \in 0..Len(ls), NEW h, Holds(SubSeq(ls, 1, n), h)
  PROVE  Holds(ls, h)
  <1>1. PICK fs \in Seq(Line) :
          fs = SubSeq(ls, 1, n) /\ Len(fs) = n /\ \A i \in 1..n : fs[i] = ls[i]
    BY PartTypes
  <1>2. PICK i \in 1..Len(fs) : Intact(fs[i]) /\ fs[i].hash = h
    BY <1>1 DEF Holds
  <1> QED
    BY <1>1, <1>2 DEF Holds

(* The lines around a deleted one. *)
LEMMA AroundDeleted ==
  ASSUME NEW ls \in Seq(Line), NEW i \in 1..Len(ls)
  PROVE  \E fs \in Seq(Line), gs \in Seq(Line) :
           /\ fs = SubSeq(ls, 1, i - 1) /\ gs = SubSeq(ls, i + 1, Len(ls))
           /\ Len(fs) = i - 1 /\ Len(gs) = Len(ls) - i
           /\ \A j \in 1..(i - 1) : fs[j] = ls[j]
           /\ \A j \in 1..(Len(ls) - i) : gs[j] = ls[i + j]
  <1> DEFINE front == SubSeq(ls, 1, i - 1)
             back == SubSeq(ls, i + 1, Len(ls))
  <1>1. /\ front \in Seq(Line) /\ Len(front) = i - 1 /\ back \in Seq(Line)
        /\ Len(back) = Len(ls) - i
        /\ \A j \in 1..(i - 1) : front[j] = ls[j]
        /\ \A j \in 1..(Len(ls) - i) : back[j] = ls[i + j]
    OBVIOUS
  <1> HIDE DEF front, back
  <1> QED
    BY <1>1 DEF front, back

(* A record in a file with one line deleted was there before. *)
LEMMA DeleteGains ==
  ASSUME NEW ls \in Seq(Line), NEW i \in 1..Len(ls), NEW h,
         Holds(SubSeq(ls, 1, i - 1) \o SubSeq(ls, i + 1, Len(ls)), h)
  PROVE  Holds(ls, h)
  <1>2. PICK fs \in Seq(Line), gs \in Seq(Line) :
          /\ fs = SubSeq(ls, 1, i - 1) /\ gs = SubSeq(ls, i + 1, Len(ls))
          /\ Len(fs) = i - 1 /\ Len(gs) = Len(ls) - i
          /\ \A j \in 1..(i - 1) : fs[j] = ls[j]
          /\ \A j \in 1..(Len(ls) - i) : gs[j] = ls[i + j]
    BY AroundDeleted
  <1>3. PICK bs \in Seq(Line) :
          /\ bs = fs \o gs /\ Len(bs) = Len(fs) + Len(gs)
          /\ \A j \in 1..Len(fs) : bs[j] = fs[j]
          /\ \A j \in 1..Len(gs) : bs[Len(fs) + j] = gs[j]
    BY Joined, ZenonT(30)
  <1>4. Holds(bs, h)
    BY <1>2, <1>3
  <1>5. PICK j \in 1..Len(bs) : Intact(bs[j]) /\ bs[j].hash = h
    BY <1>4 DEF Holds
  <1>6. CASE j <= Len(fs)
    <2>1. j \in 1..(i - 1) /\ j \in 1..Len(fs) /\ j \in 1..Len(ls)
      BY <1>2, <1>5, <1>6
    <2> QED
      BY <1>2, <1>3, <1>5, <2>1 DEF Holds
  <1>7. CASE j > Len(fs)
    <2>1. PICK k \in 1..Len(gs) : Len(fs) + k = j
      <3>1. j \in Nat /\ Len(fs) \in Nat /\ Len(gs) \in Nat /\ j <= Len(fs) + Len(gs)
        BY <1>3, <1>5
      <3>2. j - Len(fs) \in 1..Len(gs) /\ Len(fs) + (j - Len(fs)) = j
        BY <1>7, <3>1
      <3> QED
        BY <3>2
    <2>2. bs[j] = gs[k]
      BY <1>3, <2>1
    <2>3. k \in 1..(Len(ls) - i) /\ i + k \in 1..Len(ls)
      BY <1>2, <2>1
    <2>4. gs[k] = ls[i + k]
      BY <1>2, <2>3
    <2> QED
      BY <1>5, <2>2, <2>3, <2>4 DEF Holds
  <1> QED
    BY <1>2, <1>5, <1>6, <1>7

(* The record the lock's holder writes, when it starts and when it finishes. *)
LEMMA RecordType ==
  ASSUME CacheType, NEW p \in Proc
  PROVE  /\ NewLine(p) \in Line /\ Intact(NewLine(p)) /\ NewLine(p).hash = issued + 1
         /\ [NewLine(p) EXCEPT !.hash = issued] \in Line
         /\ Intact([NewLine(p) EXCEPT !.hash = issued])
         /\ [NewLine(p) EXCEPT !.hash = issued].hash = issued
  <1>1. /\ base.seq \in Nat /\ base.prev \in Nat /\ base.number \in Number
        /\ Len(quarantine) \in Nat /\ issued \in Nat
    BY DEF CacheType, Base
  <1>2. [NewLine(p) EXCEPT !.hash = issued] =
          [kind |-> IF p \in Hook THEN "decision" ELSE "repair",
           seq |-> base.seq, number |-> base.number, prev |-> base.prev, hash |-> issued,
           names |-> IF p \in Hook THEN 0 ELSE Len(quarantine)]
    BY DEF NewLine
  <1>3. NewLine(p) \in Line /\ Intact(NewLine(p)) /\ NewLine(p).hash = issued + 1
    BY <1>1 DEF NewLine, Line, Intact
  <1> QED
    BY <1>1, <1>2, <1>3 DEF Line, Intact

(* The lock is free again: nobody knows anything any more. *)
LEMMA LockFreed ==
  ASSUME CacheInv, NEW p \in Proc, Leave(p)
  PROVE  LockHeld' /\ Working'
  <1>1. holder = p /\ holder' = NoProc /\ pc'[p] = "idle"
    BY DEF CacheInv, CacheType, Leave, Goto, Mutex!Yield
  <1>2. \A q \in Proc : pc'[q] \in {"idle", "agreed"}
    BY <1>1 DEF CacheInv, CacheType, LockHeld, Step, Leave, Goto
  <1> QED
    BY <1>1, <1>2, ProcAssumption DEF LockHeld, Working, Proc

(* The holder goes on; what it now knows is what the others need not.        *)
LEMMA HolderGoesOn ==
  ASSUME CacheInv, NEW p \in Proc, holder = p, holder' = p,
         NEW l \in {"write", "rest", "sync", "replace"}, Goto(p, l),
         l = "write" => ~torn',
         l = "rest" =>
           /\ lines' # <<>>
           /\ lines'[Len(lines')] = Junk \/ lines'[Len(lines')].hash = issued'
           /\ issued' \notin acked',
         l = "sync" => /\ lines' # <<>> /\ Intact(lines'[Len(lines')])
                       /\ lines'[Len(lines')].hash = issued',
         l = "replace" => /\ quarantine' # <<>> /\ Len(quarantine') \notin moved'
                          /\ \A h : Holds(kept', h) => Holds(lines', h)
  PROVE  LockHeld' /\ Working'
  <1>1. \A q \in Proc \ {p} : pc'[q] \in {"idle", "agreed"}
    BY DEF CacheInv, CacheType, LockHeld, Step, Goto
  <1>2. pc'[p] = l
    BY DEF CacheInv, CacheType, Goto
  <1>3. LockHeld'
    BY <1>1, <1>2 DEF LockHeld
  <1>4. Working'
    BY <1>1, <1>2 DEF Working, Intact, Holds
  <1> QED
    BY <1>3, <1>4

(* Every step of hooks, repairs and outsiders keeps the invariant and        *)
(* respects the acknowledged records.                                        *)
LEMMA CacheStep ==
  ASSUME CacheInv, Next
  PROVE  CacheInv' /\ Recs
  <1>0. /\ lines \in Seq(Line) /\ issued \in Nat
        /\ quarantine \in Seq(Seq(Line)) /\ kept \in Seq(Line)
        /\ pc \in [Proc -> Step] /\ acked \subseteq 0..issued
        /\ (torn => lines # <<>>)
    BY DEF CacheInv, CacheType
  (* Steps that leave the file, its records and the quarantine alone. *)
  <1>1. ASSUME NEW p \in Proc, NEW l \in {"idle", "agreed"}, pc[p] \in {"idle", "agreed"},
               Goto(p, l),
               UNCHANGED <<file, quarantine, holder, base, kept, issued, acked,
                           tampered, edits, moved>>
        PROVE  CacheInv' /\ Recs
    <2>1. CacheType'
      BY <1>1 DEF CacheInv, CacheType, Goto, Step, file
    <2>2. /\ pc'[p] \in {"idle", "agreed"}
          /\ \A q \in Proc \ {p} : pc'[q] = pc[q]
      BY <1>0, <1>1 DEF Goto
    <2>3. LockHeld' /\ Working'
      <3>1. LockHeld'
        BY <1>1, <2>2 DEF CacheInv, LockHeld
      <3>2. Working'
        BY <1>1, <2>2 DEF CacheInv, Working, Intact, Holds, file
      <3> QED
        BY <3>1, <3>2
    <2>4. Recs
      BY <1>1 DEF Recs, Holds, Intact, file
    <2> QED
      BY <2>1, <2>3, <2>4 DEF CacheInv
  <1>2. ASSUME NEW p \in Proc, NEW l \in {"check", "repair"}, Mutex!Acquire(p), Goto(p, l),
               UNCHANGED <<file, quarantine, base, kept, issued, acked,
                           tampered, edits, moved>>
        PROVE  CacheInv' /\ Recs
    <2>1. CacheType'
      BY <1>2 DEF CacheInv, CacheType, Goto, Step, file
    <2>2. /\ holder = NoProc /\ holder' = p /\ pc'[p] = l
          /\ \A q \in Proc \ {p} : pc'[q] = pc[q]
      BY <1>0, <1>2 DEF Goto, Mutex!Acquire
    <2>3. \A q \in Proc : pc[q] \in {"idle", "agreed"}
      BY <2>2, <1>0, ProcAssumption DEF CacheInv, LockHeld, Step, Proc
    <2>4. LockHeld' /\ Working'
      BY <2>2, <2>3 DEF LockHeld, Working
    <2>5. Recs
      BY <1>2 DEF Recs, Holds, Intact, file
    <2> QED
      BY <2>1, <2>4, <2>5 DEF CacheInv
  <1>3. ASSUME NEW p \in Proc, Leave(p),
               UNCHANGED <<file, quarantine, issued, acked, tampered, edits, moved>>
        PROVE  CacheInv' /\ Recs
    <2>1. CacheType'
      BY <1>3 DEF CacheInv, CacheType, Leave, Goto, Step, NoBase, Base, Number, file
    <2>2. Recs
      BY <1>3 DEF Recs, Holds, Intact, file
    <2> QED
      BY <1>3, <2>1, <2>2, LockFreed DEF CacheInv
  <1>4. ASSUME NEW p \in Proc, CheckTail(p) PROVE CacheInv' /\ Recs
    <2>1. CASE Refuses(lines, torn)
      BY <1>3, <1>4, <2>1 DEF CheckTail
    <2>2. CASE ~Refuses(lines, torn)
      <3>1. /\ Goto(p, "write") /\ base' = NextBase(lines) /\ pc[p] = "check" /\ ~torn
            /\ UNCHANGED <<holder, kept, file, quarantine, issued, acked, tampered,
                            edits, moved>>
        BY <1>4, <2>2 DEF CheckTail, Refuses
      <3>2. base' \in Base
        BY <1>0, <3>1, NextBaseType DEF Base
      <3>3. CacheType'
        BY <3>1, <3>2 DEF CacheInv, CacheType, Goto, Step, file
      <3>4. holder = p
        BY <3>1 DEF CacheInv, LockHeld
      <3>5. LockHeld' /\ Working'
        BY <3>1, <3>4, HolderGoesOn DEF file
      <3>6. Recs
        BY <3>1 DEF Recs, Holds, Intact, file
      <3> QED
        BY <3>3, <3>5, <3>6 DEF CacheInv
    <2> QED
      BY <2>1, <2>2
  <1>5. ASSUME NEW p \in Proc, pc[p] = "write", NEW m \in Line,
               lines' = Append(lines, m), issued' = issued + 1,
               m = Junk \/ (Intact(m) /\ m.hash = issued'), NEW l \in {"rest", "sync"},
               l = "sync" => m # Junk, Goto(p, l),
               UNCHANGED <<quarantine, holder, base, kept, acked, tampered, edits, moved>>
        PROVE  CacheInv' /\ Recs
    <2>1. /\ lines' \in Seq(Line) /\ lines' # <<>> /\ lines'[Len(lines')] = m
          /\ \A h : Holds(lines, h) => Holds(lines', h)
      BY <1>0, <1>5, AppendFacts
    <2>2. issued' \in Nat /\ acked \subseteq 0..issued' /\ issued' \notin acked
      BY <1>0, <1>5
    <2>3. CacheType'
      BY <1>5, <2>1, <2>2 DEF CacheInv, CacheType, Goto, Step
    <2>4. holder = p
      BY <1>5 DEF CacheInv, LockHeld
    <2>5. LockHeld' /\ Working'
      BY <1>5, <2>1, <2>2, <2>4, HolderGoesOn
    <2>6. Recs
      <3>1. \A h \in acked : Holds(lines', h) => Holds(lines, h)
        BY <1>0, <1>5, <2>2, AppendGains DEF Junk, Intact
      <3> QED
        BY <2>1, <3>1 DEF Recs
    <2> QED
      BY <2>3, <2>5, <2>6 DEF CacheInv
  <1>6. ASSUME NEW p \in Proc, Write(p) PROVE CacheInv' /\ Recs
    <2>1. ~torn
      BY <1>6 DEF Write, CacheInv, Working
    <2>2. /\ NewLine(p) \in Line /\ Intact(NewLine(p)) /\ NewLine(p).hash = issued + 1
      BY RecordType DEF CacheInv
    <2>3. NewLine(p) # Junk
      BY <2>2 DEF Junk, Intact
    <2>4. lines' = Append(lines, NewLine(p))
      BY <1>6, <2>1 DEF Write, Glued
    <2> QED
      BY <1>5, <1>6, <2>2, <2>3, <2>4 DEF Write
  <1>7. ASSUME NEW p \in Proc, WritePart(p) PROVE CacheInv' /\ Recs
    <2>1. ~torn
      BY <1>7 DEF WritePart, CacheInv, Working
    <2>2. /\ NewLine(p) \in Line /\ Intact(NewLine(p)) /\ NewLine(p).hash = issued + 1
      BY RecordType DEF CacheInv
    <2>3. Junk \in Line
      BY DEF Junk, Line, Number
    <2>4. lines' = Append(lines, NewLine(p)) \/ lines' = Append(lines, Junk)
      BY <1>7, <2>1 DEF WritePart, Glued
    <2> QED
      BY <1>5, <1>7, <2>2, <2>3, <2>4 DEF WritePart
  <1>8. ASSUME NEW p \in Proc, WriteRest(p) PROVE CacheInv' /\ Recs
    <2> DEFINE m == [NewLine(p) EXCEPT !.hash = issued]
    <2>1. /\ lines # <<>> /\ (lines[Len(lines)] = Junk \/ lines[Len(lines)].hash = issued)
          /\ issued \notin acked /\ holder = p /\ pc[p] = "rest"
      BY <1>8 DEF WriteRest, CacheInv, Working, LockHeld
    <2>2. m \in Line /\ Intact(m) /\ m.hash = issued
      BY RecordType DEF CacheInv
    <2>3. lines' = [lines EXCEPT ![Len(lines)] = m]
      BY <1>8 DEF WriteRest
    <2>9. /\ torn' = FALSE /\ Goto(p, "sync")
          /\ UNCHANGED <<quarantine, holder, base, kept, issued, acked, tampered, edits, moved>>
      BY <1>8 DEF WriteRest
    <2> HIDE DEF m
    <2>4. /\ lines' \in Seq(Line) /\ lines' # <<>> /\ Len(lines') = Len(lines)
          /\ lines'[Len(lines')] = m
          /\ \A i \in 1..(Len(lines) - 1) : lines'[i] = lines[i]
      BY <1>0, <2>1, <2>2, <2>3
    <2>5. CacheType'
      BY <2>4, <2>9 DEF CacheInv, CacheType, Goto, Step
    <2>6. LockHeld' /\ Working'
      <3>1. /\ holder' = p /\ lines' # <<>>
            /\ Intact(lines'[Len(lines')]) /\ lines'[Len(lines')].hash = issued'
        BY <2>1, <2>2, <2>4, <2>9
      <3>2. Goto(p, "sync") /\ holder = p
        BY <2>1, <2>9
      <3> QED
        BY <3>1, <3>2, HolderGoesOn
    <2>7. ASSUME NEW h \in acked, Holds(lines, h) PROVE Holds(lines', h)
      <3>1. PICK i \in 1..Len(lines) : Intact(lines[i]) /\ lines[i].hash = h
        BY <2>7 DEF Holds
      <3>2. i # Len(lines)
        BY <2>1, <3>1 DEF Intact, Junk
      <3>3. i \in 1..(Len(lines) - 1) /\ i \in 1..Len(lines')
        BY <1>0, <2>4, <3>2
      <3> QED
        BY <2>4, <3>1, <3>3 DEF Holds
    <2>8. Recs
      <3>1. Len(lines) \in 1..Len(lines)
        BY <1>0, <2>1
      <3>2. \A h \in acked : Holds(lines', h) => Holds(lines, h)
        <4> SUFFICES ASSUME NEW h \in acked, Holds(lines', h) PROVE Holds(lines, h)
          OBVIOUS
        <4>1. Holds([lines EXCEPT ![Len(lines)] = m], h)
          BY <2>3
        <4>2. Holds(lines, h) \/ m.hash = h
          BY <1>0, <2>2, <3>1, <4>1, OverwriteGains
        <4> QED
          BY <2>1, <2>2, <4>2
      <3> QED
        BY <2>7, <2>9, <3>2 DEF Recs
    <2> QED
      BY <2>5, <2>6, <2>8 DEF CacheInv
  <1>9. ASSUME NEW p \in Proc, Sync(p) PROVE CacheInv' /\ Recs
    <2>1. /\ lines # <<>> /\ Intact(lines[Len(lines)]) /\ lines[Len(lines)].hash = issued
      BY <1>9 DEF Sync, CacheInv, Working
    <2>2. /\ Leave(p) /\ acked' = acked \cup {issued} /\ moved' = moved
          /\ UNCHANGED <<lines, torn, quarantine, issued, tampered>>
      BY <1>9 DEF Sync, file
    <2>4. acked' \subseteq 0..issued
      BY <1>0, <2>2
    <2>5. CacheType'
      BY <1>0, <2>2, <2>4
      DEF CacheInv, CacheType, Leave, Goto, Step, NoBase, Base, Number
    <2>6. Recs
      BY <2>2 DEF Recs, Holds, Intact
    <2> QED
      BY <2>2, <2>5, <2>6, LockFreed DEF CacheInv
  <1>10. ASSUME NEW p \in Proc, Quarantine(p) PROVE CacheInv' /\ Recs
    <2> DEFINE n == KeepCount(lines)
               chunk == SubSeq(lines, n + 1, Len(lines))
    <2>1. /\ pc[p] = "repair" /\ NeedsRepair(lines, torn) /\ Goto(p, "replace")
          /\ quarantine' = Append(quarantine, chunk) /\ kept' = SubSeq(lines, 1, n)
          /\ UNCHANGED <<file, holder, base, issued, acked, tampered, edits, moved>>
      BY <1>10 DEF Quarantine
    <2>2. n \in 0..(Len(lines) - 1)
      <3>1. lines # <<>>
        BY <1>0, <2>1 DEF NeedsRepair, Damaged
      <3> QED
        BY <1>0, <3>1, KeepBounds
    <2>3. chunk \in Seq(Line) /\ kept' \in Seq(Line)
      <3> HIDE DEF n
      <3> QED
        BY <1>0, <2>1, <2>2, PartTypes
    <2> HIDE DEF n, chunk
    <2>4. /\ quarantine' \in Seq(Seq(Line)) /\ Len(quarantine') = Len(quarantine) + 1
          /\ Len(quarantine) \in Nat
      BY <1>0, <2>1, <2>3
    <2>5. moved \subseteq 1..Len(quarantine)
      BY DEF CacheInv, CacheType
    <2>6. quarantine' # <<>> /\ Len(quarantine') \notin moved' /\ moved' \subseteq 1..Len(quarantine')
      BY <2>1, <2>4, <2>5, SMTT(30)
    <2>7. CacheType'
      BY <2>1, <2>3, <2>4, <2>6 DEF CacheInv, CacheType, Goto, Step, file
    <2>8. LockHeld' /\ Working'
      <3>1. holder = p
        BY <2>1 DEF CacheInv, LockHeld
      <3>2. \A h : Holds(SubSeq(lines, 1, n), h) => Holds(lines, h)
        <4>1. n \in 0..Len(lines)
          BY <1>0, <2>2
        <4> QED
          BY <1>0, <4>1, FrontHolds
      <3>3. \A h : Holds(kept', h) => Holds(lines', h)
        <4>1. lines' = lines /\ kept' = SubSeq(lines, 1, n)
          BY <2>1 DEF file
        <4> QED
          BY <3>2, <4>1
      <3>4. /\ holder' = p /\ Goto(p, "replace")
            /\ quarantine' # <<>> /\ Len(quarantine') \notin moved'
        BY <2>1, <2>6, <3>1
      <3> QED
        BY <3>1, <3>3, <3>4, HolderGoesOn
    <2>9. Recs
      BY <2>1 DEF Recs, Holds, Intact, file
    <2> QED
      BY <2>7, <2>8, <2>9 DEF CacheInv
  <1>11. ASSUME NEW p \in Proc, Replace(p) PROVE CacheInv' /\ Recs
    <2>1. /\ pc[p] = "replace" /\ lines' = kept /\ torn' = FALSE /\ base' = NextBase(kept)
          /\ moved' = moved \cup {Len(quarantine)} /\ Goto(p, "write")
          /\ UNCHANGED <<quarantine, holder, kept, issued, acked, tampered, edits>>
      BY <1>11 DEF Replace
    <2>2. holder = p /\ Len(quarantine) \notin moved /\ quarantine # <<>>
      BY <2>1 DEF CacheInv, LockHeld, Working
    <2>3. Len(quarantine) \in 1..Len(quarantine)
      BY <1>0, <2>2
    <2>4. base' \in Base
      BY <1>0, <2>1, NextBaseType DEF Base
    <2>5. CacheType'
      BY <1>0, <2>1, <2>3, <2>4 DEF CacheInv, CacheType, Goto, Step
    <2>6. LockHeld' /\ Working'
      BY <2>1, <2>2, HolderGoesOn
    <2>7. Recs
      <3>1. moved' # moved
        BY <2>1, <2>2
      <3>2. \A h : Holds(kept, h) => Holds(lines, h)
        BY <2>1 DEF CacheInv, Working
      <3> QED
        BY <2>1, <3>1, <3>2 DEF Recs
    <2> QED
      BY <2>5, <2>6, <2>7 DEF CacheInv
  <1>12. ASSUME NEW p \in Proc, Die(p) PROVE CacheInv' /\ Recs
    <2>1. CASE holder = p
      BY <1>3, <1>12, <2>1 DEF Die
    <2>2. CASE holder # p
      <3>1. pc[p] \in {"idle", "agreed"}
        BY <1>0, <2>2 DEF CacheInv, LockHeld, Step
      <3> QED
        BY <1>1, <1>12, <2>2, <3>1 DEF Die
    <2> QED
      BY <2>1, <2>2
  <1>13. CASE Edit
    <2>1. /\ holder = NoProc
          /\ UNCHANGED <<quarantine, holder, pc, base, kept, acked, moved>>
      BY <1>13 DEF Edit
    <2> DEFINE Good == /\ lines' \in Seq(Line) /\ (torn' => lines' # <<>>)
                       /\ \A h \in acked : Holds(lines, h) =>
                                            Holds(lines', h) \/ h \in tampered'
                       /\ \A h \in acked : Holds(lines', h) => Holds(lines, h)
    <2>2. ASSUME CutNewline PROVE Good
      BY <1>0, <2>2 DEF CutNewline, Holds, Intact
    <2>3. ASSUME NEW i \in 1..Len(lines), NEW l \in Line, ~Intact(l) \/ l.hash \notin acked,
                 Overwrite(i, l)
          PROVE  Good
      <3>1. /\ lines' = [lines EXCEPT ![i] = l]
            /\ tampered' = tampered \cup ({lines[i].hash} \cap acked)
        BY <2>3 DEF Overwrite
      <3>2. lines' \in Seq(Line) /\ lines' # <<>>
        BY <1>0, <3>1, Overwritten
      <3>3. \A h : Holds(lines, h) /\ h # lines[i].hash => Holds(lines', h)
        BY <1>0, <3>1, Overwritten
      <3>4. \A h \in acked : Holds(lines', h) => Holds(lines, h)
        BY <1>0, <2>3, <3>1, OverwriteGains
      <3> QED
        BY <3>1, <3>2, <3>3, <3>4
    <2>4. ASSUME NEW i \in 1..Len(lines), Delete(i) PROVE Good
      <3>1. /\ lines' = SubSeq(lines, 1, i - 1) \o SubSeq(lines, i + 1, Len(lines))
            /\ tampered' = tampered \cup ({lines[i].hash} \cap acked)
            /\ (torn' => i # Len(lines))
        BY <2>4 DEF Delete
      <3>2. lines' \in Seq(Line) /\ (i # Len(lines) => lines' # <<>>)
        BY <1>0, <3>1, Deleted
      <3>3. \A h : Holds(lines, h) /\ h # lines[i].hash => Holds(lines', h)
        BY <1>0, <3>1, Deleted
      <3>4. \A h : Holds(lines', h) => Holds(lines, h)
        BY <1>0, <3>1, DeleteGains
      <3> QED
        BY <3>1, <3>2, <3>3, <3>4
    <2>5. \A i \in 1..Len(lines) : lines[i] \in Line
      BY <1>0
    <2>6. ASSUME NEW i \in 1..Len(lines), NEW n \in {"bool", "float"}, Renumber(i, n)
          PROVE  Good /\ issued' = issued + 1
      <3>1. Renumbered(lines[i], n) \in Line /\ Renumbered(lines[i], n).hash = issued + 1
        <4>1. lines[i] \in Line /\ issued + 1 \in Nat
          BY <1>0, <2>5
        <4> QED
          BY <4>1 DEF Renumbered, Line, Number
      <3>2. issued + 1 \notin acked
        BY <1>0
      <3>3. Overwrite(i, Renumbered(lines[i], n)) /\ issued' = issued + 1
        BY <2>6 DEF Renumber
      <3> HIDE DEF Good
      <3> QED
        BY <2>3, <3>1, <3>2, <3>3
    <2>7. Good /\ (issued' = issued \/ issued' = issued + 1)
      <3>1. Junk \in Line /\ ~Intact(Junk)
        BY DEF Junk, Line, Number, Intact
      <3>2. \A i \in 1..Len(lines) : Altered(lines[i]) \in Line /\ ~Intact(Altered(lines[i]))
        BY <2>5 DEF Altered, Line, Intact
      <3> HIDE DEF Good
      <3> QED
        BY <1>13, <2>2, <2>3, <2>4, <2>6, <3>1, <3>2 DEF Edit
    <2>8. CacheType'
      <3>1. issued' \in Nat /\ acked' \subseteq 0..issued'
        BY <1>0, <2>1, <2>7
      <3> QED
        BY <2>1, <2>7, <3>1 DEF CacheInv, CacheType
    <2>9. LockHeld' /\ Working'
      <3>1. \A q \in Proc : pc[q] \in {"idle", "agreed"}
        BY <1>0, <2>1, ProcAssumption DEF CacheInv, LockHeld, Step, Proc
      <3> QED
        BY <2>1, <3>1, ProcAssumption DEF LockHeld, Working, Proc
    <2>10. Recs
      BY <2>7 DEF Recs
    <2> QED
      BY <2>8, <2>9, <2>10 DEF CacheInv
  <1>14. ASSUME NEW p \in Proc, Enter(p) \/ EnterRepair(p) PROVE CacheInv' /\ Recs
    BY <1>2, <1>14 DEF Enter, EnterRepair
  <1>15. ASSUME NEW p \in Proc, WriteFails(p) \/ NothingToRepair(p) PROVE CacheInv' /\ Recs
    BY <1>3, <1>15 DEF WriteFails, NothingToRepair
  <1>16. ASSUME NEW p \in Proc, LookForDamage(p) PROVE CacheInv' /\ Recs
    BY <1>1, <1>16 DEF LookForDamage
  <1> QED
    BY <1>4, <1>6, <1>7, <1>8, <1>9, <1>10, <1>11, <1>12, <1>13, <1>14, <1>15, <1>16
    DEF Next

(* Only an acknowledgement adds to the acknowledged records, and it leaves   *)
(* the ledger alone.                                                         *)
LEMMA AckIsSync ==
  ASSUME Next, acked' # acked
  PROVE  lines' = lines /\ torn' = torn /\ moved' = moved
  <1>1. PICK p \in Proc : Sync(p)
    BY DEF Next, Enter, CheckTail, Write, WritePart, WriteRest, WriteFails,
           LookForDamage, EnterRepair, Quarantine, NothingToRepair, Replace, Die, Edit
  <1> QED
    BY <1>1 DEF Sync, file

(* Every outcome of a power failure holds what was stored of the file. *)
LEMMA ReturnsHold ==
  ASSUME DiskInv, NEW after \in Returns
  PROVE  /\ after.lines \in Seq(Line) /\ (after.torn => after.lines # <<>>)
         /\ synced => \A h \in acked : Holds(lines, h) => Holds(after.lines, h)
  <1>0. /\ lines \in Seq(Line) /\ disk.lines \in Seq(Line)
        /\ (torn => lines # <<>>) /\ (disk.torn => disk.lines # <<>>)
    BY DEF DiskInv, CacheInv, CacheType, DiskType
  <1>1. \/ after = disk
        \/ after.lines = lines /\ after.torn = torn
        \/ after.lines = Append(disk.lines, Junk)
    BY DEF Returns, Cached
  <1>2. PICK ds \in Seq(Line) :
          /\ ds = Append(disk.lines, Junk) /\ ds # <<>>
          /\ \A h : Holds(disk.lines, h) => Holds(ds, h)
    <2>1. PICK ls \in Seq(Line) : ls = disk.lines
      BY <1>0
    <2>2. PICK l \in Line : l = Junk
      BY DEF Junk, Line, Number
    <2>3. /\ Append(ls, l) \in Seq(Line) /\ Append(ls, l) # <<>>
          /\ \A h : Holds(ls, h) => Holds(Append(ls, l), h)
      BY AppendFacts
    <2> QED
      BY <2>1, <2>2, <2>3
  <1>3. after.lines \in Seq(Line) /\ (after.torn => after.lines # <<>>)
    BY <1>0, <1>1, <1>2
  <1>4. ASSUME synced, NEW h \in acked, Holds(lines, h) PROVE Holds(after.lines, h)
    BY <1>1, <1>2, <1>4 DEF DiskInv, Stored
  <1> QED
    BY <1>3, <1>4

(* What is stored, and what may be lost, after a step of a process. *)
LEMMA CachedStepKeeps ==
  ASSUME DiskInv, CachedStep
  PROVE  DiskInv'
  <1>1. CacheInv' /\ Recs
    BY CacheStep DEF DiskInv, CachedStep
  <1>2. /\ lines' \in Seq(Line) /\ (torn' => lines' # <<>>)
        /\ \A h \in acked : Holds(lines', h) => Holds(lines, h)
    BY <1>1 DEF CacheInv, CacheType, Recs
  <1>3. CASE Acknowledge
    <2>1. /\ disk'.lines = lines' /\ disk'.torn = torn' /\ UNCHANGED <<linked, entry>>
          /\ ~linked => late' = late \cup (acked' \ acked)
      BY <1>3 DEF Acknowledge, Cached
    <2>2. DiskType'
      BY <1>2, <2>1 DEF DiskInv, DiskType
    <2>3. \A h : Holds(lines', h) => Holds(disk'.lines, h)
      BY <2>1 DEF Holds, Intact
    <2>4. ~linked => \A h \in acked' \ late' : Holds(lines', h) => Holds(entry.lines, h)
      BY <1>2, <2>1 DEF DiskInv, Stored
    <2>5. Stored'
      BY <2>1, <2>3, <2>4 DEF Stored, Holds, Intact
    <2> QED
      BY <1>1, <2>2, <2>5 DEF DiskInv
  <1>4. CASE Displace
    <2>1. acked' = acked
      BY <1>4, AckIsSync DEF Displace, CachedStep
    <2>2. /\ disk'.lines = <<>> /\ disk'.torn = FALSE /\ synced' = FALSE
          /\ linked => entry' \in Returns
          /\ ~linked => entry' = entry
          /\ linked /\ ~synced => late' = acked
          /\ ~(linked /\ ~synced) => late' = late
      BY <1>4 DEF Displace, Empty
    <2>3. DiskType'
      BY <2>2, ReturnsHold DEF DiskInv, DiskType
    <2>4. \A h \in acked \ late' : Holds(lines', h) => Holds(entry'.lines, h)
      <3> SUFFICES ASSUME NEW h \in acked \ late', Holds(lines', h)
                   PROVE  Holds(entry'.lines, h)
        OBVIOUS
      <3>1. Holds(lines, h)
        BY <1>2
      <3>2. CASE linked /\ ~synced
        BY <2>2, <3>2
      <3>3. CASE linked /\ synced
        BY <2>2, <3>1, <3>3, ReturnsHold
      <3>4. CASE ~linked
        BY <2>2, <3>1, <3>4 DEF DiskInv, Stored
      <3> QED
        BY <3>2, <3>3, <3>4
    <2>5. Stored'
      BY <2>1, <2>2, <2>4 DEF Stored, Holds, Intact
    <2> QED
      BY <1>1, <2>3, <2>5 DEF DiskInv
  <1>5. CASE UNCHANGED <<acked, moved>> /\ UNCHANGED <<disk, linked, entry, synced, late, archived>>
    <2>1. DiskType'
      BY <1>5 DEF DiskInv, DiskType
    <2>2. /\ synced => \A h \in acked : Holds(lines', h) => Holds(disk.lines, h)
          /\ ~linked => \A h \in acked \ late : Holds(lines', h) => Holds(entry.lines, h)
      BY <1>2 DEF DiskInv, Stored
    <2>3. Stored'
      BY <1>5, <2>2 DEF Stored, Holds, Intact
    <2> QED
      BY <1>1, <2>1, <2>3 DEF DiskInv
  <1> QED
    BY <1>3, <1>4, <1>5 DEF CachedStep

(* What the page cache's variables say is unchanged when they are. *)
LEMMA CacheKept ==
  ASSUME CacheInv, UNCHANGED vars
  PROVE  CacheInv'
  <1>1. CacheType'
    BY DEF CacheInv, CacheType, vars, file
  <1>2. LockHeld'
    BY DEF CacheInv, LockHeld, vars
  <1>3. Working'
    BY DEF CacheInv, Working, Intact, Holds, vars, file
  <1> QED
    BY <1>1, <1>2, <1>3 DEF CacheInv

(* The kernel stores what the page cache holds of the files. *)
LEMMA WritebackKeeps ==
  ASSUME DiskInv, Writeback
  PROVE  DiskInv'
  <1>1. /\ disk'.lines = lines /\ disk'.torn = torn
        /\ UNCHANGED <<linked, entry, late, lines, torn, acked>>
        /\ UNCHANGED vars
    BY DEF Writeback, Cached, vars, file
  <1>2. DiskType'
    BY <1>1 DEF DiskInv, CacheInv, CacheType, DiskType
  <1>3. Stored'
    BY <1>1 DEF DiskInv, Stored, Holds, Intact
  <1> QED
    BY <1>1, <1>2, <1>3, CacheKept DEF DiskInv

(* The kernel stores the directory. *)
LEMMA StoreEntryKeeps ==
  ASSUME DiskInv, StoreEntry
  PROVE  DiskInv'
  <1>1. /\ linked' = TRUE /\ entry'.lines = <<>> /\ entry'.torn = FALSE
        /\ UNCHANGED <<disk, synced, lines, acked>>
        /\ UNCHANGED vars
    BY DEF StoreEntry, Empty, vars, file
  <1>2. DiskType'
    BY <1>1 DEF DiskInv, DiskType
  <1>3. Stored'
    BY <1>1 DEF DiskInv, Stored, Holds, Intact
  <1> QED
    BY <1>1, <1>2, <1>3, CacheKept DEF DiskInv

(* What a power failure leaves: a file of lines, with every record that was  *)
(* stored and that the directory leads to.                                   *)
LEMMA PowerLossFacts ==
  ASSUME DiskInv, PowerLoss
  PROVE  /\ lines' \in Seq(Line) /\ (torn' => lines' # <<>>)
         /\ disk'.lines = lines' /\ disk'.torn = torn'
         /\ ~linked' => lines' = <<>>
         /\ synced => \A h \in acked \ late : Holds(lines, h) => Holds(lines', h)
  <1>1. PICK after \in Returns \cup (IF linked THEN {} ELSE {entry}) :
          /\ lines' = after.lines /\ torn' = after.torn
          /\ disk' = after /\ linked' = (after # Empty)
    BY DEF PowerLoss
  <1>2. /\ after.lines \in Seq(Line) /\ (after.torn => after.lines # <<>>)
        /\ synced => \A h \in acked \ late : Holds(lines, h) => Holds(after.lines, h)
    <2>1. CASE after \in Returns
      BY <2>1, ReturnsHold
    <2>2. CASE ~linked /\ after = entry
      BY <2>2 DEF DiskInv, DiskType, Stored
    <2> QED
      BY <1>1, <2>1, <2>2
  <1>3. ~linked' => lines' = <<>>
    <2>1. ASSUME ~linked' PROVE after = Empty
      BY <1>1, <2>1
    <2>2. Empty.lines = <<>>
      BY DEF Empty
    <2> QED
      BY <1>1, <2>1, <2>2
  <1>4. disk'.lines = lines' /\ disk'.torn = torn'
    BY <1>1
  <1>5. synced => \A h \in acked \ late : Holds(lines, h) => Holds(lines', h)
    BY <1>1, <1>2 DEF Holds, Intact
  <1> QED
    BY <1>1, <1>2, <1>3, <1>4, <1>5

(* A restart begins with nobody at work and everything that is left stored. *)
LEMMA PowerLossKeeps ==
  ASSUME DiskInv, PowerLoss
  PROVE  DiskInv'
  <1>0. quarantine \in Seq(Seq(Line))
    BY DEF DiskInv, CacheInv, CacheType
  <1>1. UNCHANGED <<issued, acked, tampered, edits, moved, archived>>
        /\ pc' = [p \in Proc |-> "idle"] /\ holder' = NoProc
        /\ base' = NoBase /\ kept' = <<>>
        /\ entry'.lines = <<>> /\ entry'.torn = FALSE
    BY DEF PowerLoss, Empty
  <1>2. quarantine' \in Seq(Seq(Line)) /\ Len(quarantine') = Len(quarantine)
    <2> DEFINE q == [k \in 1..Len(quarantine) |-> IF k \in stored THEN quarantine[k] ELSE <<>>]
    <2>1. q \in Seq(Seq(Line)) /\ Len(q) = Len(quarantine)
      BY <1>0
    <2>2. quarantine' = quarantine \/ quarantine' = q
      BY DEF PowerLoss
    <2> HIDE DEF q
    <2> QED
      BY <1>0, <2>1, <2>2
  <1>3. CacheType'
    BY <1>1, <1>2, PowerLossFacts
    DEF DiskInv, CacheInv, CacheType, NoBase, Base, Number, Step
  <1>4. LockHeld' /\ Working'
    BY <1>1, ProcAssumption DEF LockHeld, Working, Proc
  <1>5. DiskType'
    BY <1>1, PowerLossFacts DEF DiskType
  <1>6. Stored'
    BY PowerLossFacts DEF Stored, Holds, Intact
  <1> QED
    BY <1>3, <1>4, <1>5, <1>6 DEF DiskInv, CacheInv

(* Every reachable state of the machine that can lose power. *)
LEMMA DiskInvariant == DiskSpec => []DiskInv
  <1>1. ASSUME DiskInv, UNCHANGED <<vars, diskVars>> PROVE DiskInv'
    <2>1. UNCHANGED vars /\ UNCHANGED <<lines, acked, disk, entry, linked, synced, late>>
      BY <1>1 DEF vars, file, diskVars
    <2>2. DiskType' /\ Stored'
      BY <1>1, <2>1 DEF DiskInv, DiskType, Stored, Holds, Intact
    <2> QED
      BY <1>1, <2>1, <2>2, CacheKept DEF DiskInv
  <1>2. DiskInv /\ [CachedStep \/ Writeback \/ StoreEntry \/ PowerLoss]_<<vars, diskVars>>
        => DiskInv'
    BY <1>1, CachedStepKeeps, WritebackKeeps, StoreEntryKeeps, PowerLossKeeps
  <1> QED
    BY <1>2, DiskInvInit, PTL DEF DiskSpec

(* A record fsync acknowledged leaves the ledger only by an outsider's hand, *)
(* by a repair that moves it to a quarantine file, or by a power failure in  *)
(* one of two windows: while a file that replaced the ledger has not been    *)
(* stored, and, for a record acknowledged since the directory's entry        *)
(* changed, until the directory has been.                                    *)
THEOREM AppendsAreDurable == DiskSpec => AppendDurable
  <1> DEFINE Lasts ==
        \A h \in acked :
          Holds(lines, h) /\ ~Holds(lines', h)
          => h \in tampered' \cup archived' \cup late \/ ~synced
  <1>1. ASSUME DiskInv, CachedStep PROVE Lasts
    <2> SUFFICES ASSUME NEW h \in acked, Holds(lines, h), ~Holds(lines', h)
                 PROVE  h \in tampered' \cup archived'
      OBVIOUS
    <2>1. h \in tampered' \/ moved' # moved
      BY <1>1, CacheStep DEF DiskInv, CachedStep, Recs
    <2>2. CASE moved' # moved
      <3>1. ~Acknowledge
        BY <1>1, <2>2, AckIsSync DEF CachedStep, Acknowledge
      <3>2. Displace
        BY <1>1, <2>2, <3>1 DEF CachedStep
      <3> QED
        BY <3>2 DEF Displace
    <2> QED
      BY <2>1, <2>2
  <1>2. ASSUME DiskInv, PowerLoss PROVE Lasts
    BY <1>2, PowerLossFacts
  <1>3. ASSUME Writeback \/ StoreEntry \/ UNCHANGED <<vars, diskVars>> PROVE lines' = lines
    BY <1>3 DEF Writeback, StoreEntry, vars, file
  <1>4. lines' = lines => Lasts
    BY DEF Holds, Intact
  <1> HIDE DEF Lasts
  <1>5. DiskInv /\ [CachedStep \/ Writeback \/ StoreEntry \/ PowerLoss]_<<vars, diskVars>>
        => [Lasts]_<<vars, diskVars>>
    BY <1>1, <1>2, <1>3, <1>4
  <1> QED
    BY <1>5, DiskInvariant, PTL DEF DiskSpec, AppendDurable, Lasts
=============================================================================
