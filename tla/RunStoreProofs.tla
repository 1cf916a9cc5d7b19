----------------------------- MODULE RunStoreProofs -----------------------------
(***************************************************************************)
(* Proofs about RunStore, for any number of runs and any number of edits.  *)
(***************************************************************************)
EXTENDS RunStore, SequenceTheorems, TLAPS

(* A run that writes a file has written those before it. *)
Written ==
  \A r \in Run :
    /\ pc[r] \in {"manifest", "evidence", "ledger", "rest", "newline", "saved"} =>
         art[r]["run"] \in Complete
    /\ pc[r] \in {"evidence", "ledger", "rest", "newline", "saved"} =>
         art[r]["manifest"] \in Complete
    /\ pc[r] \in {"ledger", "rest", "newline", "saved"} => art[r]["evidence"] \in Complete

(* A run whose line is in the ledger has left its files behind. *)
Backed(l) ==
  l.kind = "entry" =>
    /\ l.run \in Run
    /\ \A a \in Artifact : art[l.run][a] \in Complete
    /\ pc[l.run] \in {"rest", "newline", "saved", "failed"}

IInv == TypeOK /\ Written /\ \A i \in 1..Len(ledger) : Backed(ledger[i])

LEMMA Typed ==
  ASSUME TypeOK
  PROVE  /\ ledger \in Seq(Line) /\ Len(ledger) \in Nat
         /\ \A i \in 1..Len(ledger) : ledger[i] \in Line
         /\ ledger # <<>> => Len(ledger) \in 1..Len(ledger) /\ Last \in Line
         /\ torn => ledger # <<>>
         /\ art \in [Run -> [Artifact -> {"none", "part"} \cup Complete]]
         /\ pc \in [Run \cup Initer -> Saving \cup
               {"idle", "saved", "failed", "config", "write config", "look", "create"}]
         /\ pos \in [Run -> [seq: Nat, prev: Run \cup {NoRun}]]
<1>1. ledger \in Seq(Line) /\ (torn => ledger # <<>>)
  BY DEF TypeOK
<1>2. /\ Len(ledger) \in Nat /\ \A i \in 1..Len(ledger) : ledger[i] \in Line
      /\ ledger # <<>> => Len(ledger) \in 1..Len(ledger)
  BY <1>1
<1> QED
  BY <1>1, <1>2 DEF TypeOK, Last

(* What lines a step of an append leaves: the old ones, or junk for one of   *)
(* them, and the run's own.                                                  *)
LEMMA GluedLines ==
  ASSUME NEW l \in Line, ledger \in Seq(Line), torn => ledger # <<>>
  PROVE  /\ Glued(l) \in Seq(Line) /\ Glued(l) # <<>>
         /\ \A i \in 1..Len(Glued(l)) :
              Glued(l)[i] \in {l, Junk} \/ (i \in 1..Len(ledger) /\ Glued(l)[i] = ledger[i])
<1>1. Junk \in Line
  BY DEF Junk, Line
<1>2. CASE torn
  <2>1. Glued(l) = [ledger EXCEPT ![Len(ledger)] = Junk]
    BY <1>2 DEF Glued
  <2> QED
    BY <1>1, <1>2, <2>1
<1>3. CASE ~torn
  <2>1. Glued(l) = Append(ledger, l)
    BY <1>3 DEF Glued
  <2> QED
    BY <2>1
<1> QED
  BY <1>2, <1>3

LEMMA EntryTyped ==
  ASSUME TypeOK, NEW r \in Run
  PROVE  /\ Entry(r) \in Line /\ Entry(r).kind = "entry" /\ Entry(r).run = r
         /\ [Entry(r) EXCEPT !.kind = "part"] \in Line
         /\ [Entry(r) EXCEPT !.kind = "part"].kind = "part"
         /\ Junk \in Line /\ Junk.kind = "junk"
BY DEF TypeOK, Entry, Line, Junk

LEMMA InitHolds == Init => IInv
<1> SUFFICES ASSUME Init
             PROVE  IInv
  OBVIOUS
<1>1. ledger = <<>> /\ ledger \in Seq(Line) /\ Len(ledger) = 0
  BY DEF Init
<1>2. TypeOK
  <2>1. edits \in 0..MaxEdits
    BY RunAssumption DEF Init
  <2>2. pc = [p \in Run \cup Initer |-> "idle"] /\ pos = [r \in Run |-> [seq |-> 0, prev |-> NoRun]]
        /\ art = [r \in Run |-> [a \in Artifact |-> "none"]]
    BY DEF Init
  <2>3. pos \in [Run -> [seq: Nat, prev: Run \cup {NoRun}]]
    BY <2>2
  <2>4. pc \in [Run \cup Initer -> Saving \cup
            {"idle", "saved", "failed", "config", "write config", "look", "create"}]
        /\ \A r \in Run : pc[r] # "saved"
    BY <2>2
  <2>5. art \in [Run -> [Artifact -> {"none", "part"} \cup Complete]]
    BY <2>2
  <2>6. made \subseteq {"runs", "config", "ledger"} /\ torn = FALSE /\ overlapped = FALSE
        /\ split = FALSE /\ hurt = FALSE
    BY DEF Init
  <2> QED
    BY <1>1, <2>1, <2>3, <2>4, <2>5, <2>6 DEF TypeOK
<1>3. Written
  BY DEF Init, Written
<1>4. \A i \in 1..Len(ledger) : Backed(ledger[i])
  BY <1>1
<1> QED
  BY <1>2, <1>3, <1>4 DEF IInv

(* A step of one run that leaves the ledger alone, or changes lines to junk  *)
(* or to its own.                                                            *)
LEMMA SaveStep ==
  ASSUME IInv, NEW r \in Run, Save(r)
  PROVE  IInv'
<1>0. TypeOK /\ Written /\ \A i \in 1..Len(ledger) : Backed(ledger[i])
  BY DEF IInv
<1>t. /\ ledger \in Seq(Line) /\ Len(ledger) \in Nat
      /\ \A i \in 1..Len(ledger) : ledger[i] \in Line
      /\ ledger # <<>> => Len(ledger) \in 1..Len(ledger) /\ Last \in Line
      /\ torn => ledger # <<>>
      /\ art \in [Run -> [Artifact -> {"none", "part"} \cup Complete]]
      /\ pc \in [Run \cup Initer -> Saving \cup
            {"idle", "saved", "failed", "config", "write config", "look", "create"}]
      /\ pos \in [Run -> [seq: Nat, prev: Run \cup {NoRun}]]
  BY <1>0, Typed
<1>l. \A l : /\ l.kind = "entry" /\ Backed(l) /\ l.run # r
             /\ \A q \in Run \ {r} : pc'[q] = pc[q] /\ art'[q] = art[q]
             => /\ l.run \in Run
                /\ \A a \in Artifact : art'[l.run][a] \in Complete
                /\ pc'[l.run] \in {"rest", "newline", "saved", "failed"}
  BY DEF Backed
<1>1. CASE Position(r)
  <2>1. /\ pc[r] = "idle" /\ pc' \in {[pc EXCEPT ![r] = "run"], [pc EXCEPT ![r] = "failed"]}
        /\ UNCHANGED <<made, ledger, torn, art, split, edits, hurt>> /\ overlapped' \in BOOLEAN
    BY <1>0, <1>1 DEF Position, Goto, TypeOK
  <2>2. pos' \in [Run -> [seq: Nat, prev: Run \cup {NoRun}]]
    <3>1. ledger # <<>> => Last.run \in Run \cup {NoRun}
      BY <1>t DEF Line
    <3>2. Len(ledger) \in Nat
      BY <1>t
    <3>3. Len(ledger) + 1 \in Nat
      BY <3>2
    <3> DEFINE next == IF ledger = <<>> THEN [seq |-> 1, prev |-> NoRun]
                       ELSE [seq |-> Len(ledger) + 1, prev |-> Last.run]
    <3>4. next \in [seq: Nat, prev: Run \cup {NoRun}]
      BY <3>1, <3>3
    <3>5. pos' = [pos EXCEPT ![r] = next] \/ pos' = pos
      BY <1>1 DEF Position
    <3> HIDE DEF next
    <3> QED
      BY <1>t, <3>4, <3>5
  <2>3. TypeOK'
    BY <1>0, <1>t, <2>1, <2>2 DEF TypeOK, Saving
  <2>4. Written'
    BY <1>0, <1>t, <2>1 DEF Written
  <2>5. \A i \in 1..Len(ledger) : ledger[i].kind = "entry" => ledger[i].run # r
    BY <1>0, <2>1 DEF Backed
  <2>6. \A i \in 1..Len(ledger) : Backed(ledger[i])'
    BY <1>0, <1>l, <1>t, <2>1, <2>5 DEF Backed
  <2> QED
    BY <2>1, <2>3, <2>4, <2>6 DEF IInv
<1>2. ASSUME NEW a \in Artifact, WriteArtifact(r, a)
      PROVE  IInv'
  <2>1. /\ pc[r] = a /\ UNCHANGED <<made, ledger, torn, pos, overlapped, split, edits, hurt>>
        /\ \/ pc' = [pc EXCEPT ![r] = After(a)] /\ art' = [art EXCEPT ![r][a] = "whole"]
           \/ pc' = [pc EXCEPT ![r] = "failed"] /\ art' = [art EXCEPT ![r][a] = "part"]
    BY <1>2 DEF WriteArtifact, Goto, history
  <2>2. /\ a = "run" => After(a) = "manifest"
        /\ a = "manifest" => After(a) = "evidence"
        /\ a = "evidence" => After(a) = "ledger"
        /\ a \in {"run", "manifest", "evidence"}
    BY DEF After, Artifact
  <2>a. art' \in [Run -> [Artifact -> {"none", "part"} \cup Complete]]
    <3>1. \A v \in {"whole", "part"} : [art EXCEPT ![r][a] = v]
             \in [Run -> [Artifact -> {"none", "part"} \cup Complete]]
      BY <1>t DEF Complete
    <3> QED
      BY <2>1, <3>1
  <2>3. /\ pc' \in [Run \cup Initer -> Saving \cup
               {"idle", "saved", "failed", "config", "write config", "look", "create"}]
        /\ pc'[r] \in {"manifest", "evidence", "ledger", "failed"}
        /\ \A q \in Run \ {r} : pc'[q] = pc[q] /\ art'[q] = art[q]
    BY <1>t, <2>1, <2>2 DEF Saving
  <2>b. pc'[r] # "saved"
    BY <2>3
  <2>4. TypeOK'
    BY <1>0, <2>1, <2>3, <2>a, <2>b DEF TypeOK
  <2>5. Written'
    <3>1. \A q \in Run \ {r} : pc'[q] = pc[q] /\ art'[q] = art[q]
      BY <2>3
    <3>2. \/ pc'[r] = "failed"
          \/ /\ pc'[r] = After(a) /\ art'[r][a] = "whole"
             /\ \A b \in Artifact \ {a} : art'[r][b] = art[r][b]
      <4>1. art[r] \in [Artifact -> {"none", "part"} \cup Complete]
        BY <1>t
      <4>2. CASE pc' = [pc EXCEPT ![r] = After(a)] /\ art' = [art EXCEPT ![r][a] = "whole"]
        <5>1. art'[r] = [art[r] EXCEPT ![a] = "whole"]
          BY <1>t, <4>2
        <5>2. pc'[r] = After(a)
          BY <1>t, <4>2
        <5> QED
          BY <4>1, <5>1, <5>2
      <4>3. CASE pc' = [pc EXCEPT ![r] = "failed"]
        BY <1>t, <4>3
      <4> QED
        BY <2>1, <4>2, <4>3
    <3>3. CASE pc'[r] = "failed"
      BY <1>0, <3>1, <3>3 DEF Written
    <3>4. CASE /\ pc'[r] = After(a) /\ art'[r][a] = "whole"
               /\ \A b \in Artifact \ {a} : art'[r][b] = art[r][b]
      BY <1>0, <2>1, <2>2, <3>1, <3>4 DEF Written, Artifact, Complete
    <3> QED
      BY <3>2, <3>3, <3>4
  <2>6. \A i \in 1..Len(ledger) : ledger[i].kind = "entry" => ledger[i].run # r
    BY <1>0, <2>1, <2>2 DEF Backed
  <2>7. \A i \in 1..Len(ledger) : Backed(ledger[i])'
    BY <1>0, <1>l, <2>1, <2>3, <2>6 DEF Backed
  <2> QED
    BY <2>1, <2>4, <2>5, <2>7 DEF IInv
<1>3. ASSUME NEW lines \in Seq(Line), NEW l \in Line, NEW to \in {"rest", "newline", "saved"},
             lines # <<>>,
             \A i \in 1..Len(lines) :
               lines[i] \in {l, Junk} \/ (i \in 1..Len(ledger) /\ lines[i] = ledger[i]),
             l.kind = "entry" => l.run = r,
             pc[r] \in {"ledger", "rest"}, pc' = [pc EXCEPT ![r] = to], ledger' = lines,
             torn' \in BOOLEAN, split' \in BOOLEAN,
             UNCHANGED <<made, art, pos, overlapped, edits, hurt>>
      PROVE  IInv'
  <2>1. Junk.kind # "entry"
    BY DEF Junk
  <2>2. \A a \in Artifact : art[r][a] \in Complete
    BY <1>0, <1>3 DEF Written, Artifact
  <2>3. pc' \in [Run \cup Initer -> Saving \cup
               {"idle", "saved", "failed", "config", "write config", "look", "create"}]
        /\ pc'[r] = to /\ \A q \in Run \ {r} : pc'[q] = pc[q]
    BY <1>t, <1>3 DEF Saving
  <2>4. TypeOK'
    <3>1. \A q \in Run : pc'[q] = "saved" => \A a \in Artifact : art'[q][a] \in Complete
      BY <1>0, <1>3, <2>2, <2>3 DEF TypeOK, Complete
    <3> QED
      BY <1>0, <1>3, <2>3, <3>1 DEF TypeOK
  <2>5. Written'
    BY <1>0, <1>3, <2>2, <2>3 DEF Written, Artifact
  <2>6. \A i \in 1..Len(lines) : Backed(lines[i])'
    <3> SUFFICES ASSUME NEW i \in 1..Len(lines), lines[i].kind = "entry"
                 PROVE  /\ lines[i].run \in Run
                        /\ \A a \in Artifact : art[lines[i].run][a] \in Complete
                        /\ pc'[lines[i].run] \in {"rest", "newline", "saved", "failed"}
      BY <1>3 DEF Backed
    <3>1. CASE lines[i].run = r
      BY <1>3, <2>2, <2>3, <3>1
    <3>2. CASE lines[i].run # r
      <4>1. i \in 1..Len(ledger) /\ lines[i] = ledger[i]
        BY <1>3, <2>1, <3>2
      <4> QED
        BY <1>0, <1>3, <1>l, <2>3, <3>2, <4>1
    <3> QED
      BY <3>1, <3>2
  <2> QED
    BY <1>3, <2>4, <2>5, <2>6 DEF IInv
<1>e. /\ Entry(r) \in Line /\ Entry(r).kind = "entry" /\ Entry(r).run = r
      /\ [Entry(r) EXCEPT !.kind = "part"] \in Line
      /\ [Entry(r) EXCEPT !.kind = "part"].kind = "part"
      /\ Junk \in Line /\ Junk.kind = "junk"
  BY <1>0, EntryTyped
<1>g. ASSUME NEW l \in Line
      PROVE  /\ Glued(l) \in Seq(Line) /\ Glued(l) # <<>>
             /\ \A i \in 1..Len(Glued(l)) :
                  Glued(l)[i] \in {l, Junk} \/ (i \in 1..Len(ledger) /\ Glued(l)[i] = ledger[i])
  BY <1>t, GluedLines
<1>4. CASE AppendLine(r)
  <2>1. /\ pc[r] = "ledger" /\ pc' = [pc EXCEPT ![r] = "saved"] /\ ledger' = Glued(Entry(r))
        /\ torn' \in BOOLEAN /\ split' \in BOOLEAN
        /\ UNCHANGED <<made, art, pos, overlapped, edits, hurt>>
    BY <1>0, <1>4 DEF AppendLine, Goto, history, TypeOK
  <2> QED
    <3> DEFINE lines == Glued(Entry(r))
    <3>1. /\ lines \in Seq(Line) /\ lines # <<>> /\ ledger' = lines
          /\ \A i \in 1..Len(lines) :
               lines[i] \in {Entry(r), Junk} \/ (i \in 1..Len(ledger) /\ lines[i] = ledger[i])
      BY <1>e, <1>g, <2>1
    <3> HIDE DEF lines
    <3> QED
      BY <1>3, <1>e, <2>1, <3>1
<1>5. CASE AppendPart(r)
  <2>1. PICK l \in {Entry(r), [Entry(r) EXCEPT !.kind = "part"]}, to \in {"rest", "newline"} :
          /\ pc[r] = "ledger" /\ pc' = [pc EXCEPT ![r] = to] /\ ledger' = Glued(l)
          /\ torn' \in BOOLEAN /\ split' \in BOOLEAN
          /\ UNCHANGED <<made, art, pos, overlapped, edits, hurt>>
    BY <1>5 DEF AppendPart, Goto
  <2>2. l \in Line /\ (l.kind = "entry" => l.run = r)
    BY <1>e
  <2> QED
    <3> DEFINE lines == Glued(l)
    <3>1. /\ lines \in Seq(Line) /\ lines # <<>> /\ ledger' = lines
          /\ \A i \in 1..Len(lines) :
               lines[i] \in {l, Junk} \/ (i \in 1..Len(ledger) /\ lines[i] = ledger[i])
      BY <1>g, <2>1, <2>2
    <3> HIDE DEF lines
    <3> QED
      BY <1>3, <2>1, <2>2, <3>1
<1>6. CASE AppendRest(r)
  <2>1. /\ pc[r] = "rest" /\ pc' = [pc EXCEPT ![r] = "saved"]
        /\ torn' \in BOOLEAN /\ split' \in BOOLEAN
        /\ UNCHANGED <<made, art, pos, overlapped, edits, hurt>>
    BY <1>0, <1>6 DEF AppendRest, Goto, history, TypeOK
  <2>2. CASE torn /\ Last.kind = "part" /\ Last.run = r
    <3> DEFINE lines == [ledger EXCEPT ![Len(ledger)] = Entry(r)]
    <3>a. ledger \in Seq(Line) /\ Entry(r) \in Line /\ Len(ledger) \in 1..Len(ledger)
      BY <1>e, <1>t, <2>2
    <3>1. /\ lines \in Seq(Line) /\ lines # <<>> /\ Len(lines) = Len(ledger)
          /\ \A i \in 1..Len(lines) : lines[i] \in {Entry(r), ledger[i]}
      BY <3>a
    <3>2. ledger' = lines
      BY <1>6, <2>2 DEF AppendRest
    <3> HIDE DEF lines
    <3> QED
      BY <1>3, <1>e, <2>1, <3>1, <3>2
  <2>3. CASE ~(torn /\ Last.kind = "part" /\ Last.run = r)
    <3>1. ledger' = Glued(Junk)
      BY <1>6, <2>3 DEF AppendRest
    <3> QED
      BY <1>3, <1>e, <1>g, <2>1, <3>1, ZenonT(30)
  <2> QED
    BY <2>2, <2>3
<1>7. CASE AppendNewline(r) \/ Fails(r)
  <2>1. /\ \/ pc[r] = "newline" /\ pc' = [pc EXCEPT ![r] = "saved"]
           \/ pc' = [pc EXCEPT ![r] = "failed"]
        /\ torn' = FALSE \/ torn' = torn
        /\ UNCHANGED <<made, ledger, art, pos, overlapped, split, edits, hurt>>
    BY <1>7 DEF AppendNewline, Fails, Goto, history
  <2>2. pc' \in [Run \cup Initer -> Saving \cup
               {"idle", "saved", "failed", "config", "write config", "look", "create"}]
        /\ pc'[r] \in {"saved", "failed"} /\ (pc'[r] = "saved" => pc[r] = "newline")
        /\ \A q \in Run \ {r} : pc'[q] = pc[q]
    BY <1>t, <2>1
  <2>3. pc'[r] = "saved" => \A a \in Artifact : art[r][a] \in Complete
    BY <1>0, <2>2 DEF Written, Artifact
  <2>4. TypeOK'
    <3>1. \A q \in Run : pc'[q] = "saved" => \A a \in Artifact : art'[q][a] \in Complete
      BY <1>0, <2>1, <2>2, <2>3 DEF TypeOK, Complete
    <3>2. torn' \in BOOLEAN /\ (torn' => ledger' # <<>>)
      <4>1. torn \in BOOLEAN /\ (torn => ledger # <<>>) /\ ledger' = ledger
        BY <1>0, <2>1 DEF TypeOK
      <4>2. CASE torn' = FALSE
        BY <4>2
      <4>3. CASE torn' = torn
        BY <4>1, <4>3
      <4> QED
        BY <2>1, <4>2, <4>3
    <3> QED
      BY <1>0, <2>1, <2>2, <3>1, <3>2 DEF TypeOK
  <2>5. Written'
    BY <1>0, <2>1, <2>2 DEF Written
  <2>6. \A i \in 1..Len(ledger) : Backed(ledger[i])'
    BY <1>0, <2>1, <2>2 DEF Backed
  <2> QED
    BY <2>1, <2>4, <2>5, <2>6 DEF IInv
<1> QED
  BY <1>1, <1>2, <1>4, <1>5, <1>6, <1>7 DEF Save

(* aeg init touches no run; at most it leaves an empty ledger. *)
LEMMA InitStep ==
  ASSUME IInv, NEW p \in Initer, EnsureInitialized(p)
  PROVE  IInv'
<1>0. TypeOK /\ Written /\ \A i \in 1..Len(ledger) : Backed(ledger[i])
  BY DEF IInv
<1>1. /\ UNCHANGED <<art, pos, overlapped, split, edits, hurt>>
      /\ made' \subseteq {"runs", "config", "ledger"}
      /\ \E l \in {"idle", "config", "write config", "look", "create"} : pc' = [pc EXCEPT ![p] = l]
      /\ (ledger' = <<>> /\ torn' = FALSE) \/ UNCHANGED <<ledger, torn>>
  BY <1>0 DEF EnsureInitialized, MakeDirs, LookForConfig, WriteConfig, LookForLedger,
     CreateLedger, InitFails, Goto, history, TypeOK
<1>t. /\ ledger \in Seq(Line) /\ torn \in BOOLEAN /\ (torn => ledger # <<>>)
      /\ pc \in [Run \cup Initer -> Saving \cup
            {"idle", "saved", "failed", "config", "write config", "look", "create"}]
  BY <1>0 DEF TypeOK
<1>2. /\ pc' \in [Run \cup Initer -> Saving \cup
            {"idle", "saved", "failed", "config", "write config", "look", "create"}]
      /\ \A r \in Run : pc'[r] = pc[r]
  <2>1. p \notin Run
    BY RunAssumption
  <2> QED
    BY <1>t, <1>1, <2>1
<1>3. ledger' \in Seq(Line) /\ (torn' => ledger' # <<>>) /\ torn' \in BOOLEAN
  <2>1. CASE ledger' = <<>> /\ torn' = FALSE
    <3>1. ledger' \in Seq(Line)
      BY <2>1
    <3>2. torn' \in BOOLEAN /\ ~torn'
      BY <2>1
    <3> QED
      BY <3>1, <3>2
  <2>2. CASE UNCHANGED <<ledger, torn>>
    BY <1>t, <2>2
  <2> QED
    BY <1>1, <2>1, <2>2
<1>4. TypeOK'
  BY <1>0, <1>1, <1>2, <1>3 DEF TypeOK
<1>5. Written'
  BY <1>0, <1>1, <1>2 DEF Written
<1>6. \A i \in 1..Len(ledger') : ledger' = ledger
  <2>1. CASE ledger' = <<>>
    BY <2>1
  <2> QED
    BY <1>1, <2>1
<1>7. \A i \in 1..Len(ledger) : Backed(ledger[i]) => Backed(ledger[i])' \/ ledger' # ledger
  BY <1>1, <1>2 DEF Backed
<1> QED
  BY <1>0, <1>4, <1>5, <1>6, <1>7 DEF IInv

(* Without one line the others are lines there were. *)
LEMMA Deleted ==
  ASSUME NEW S, NEW s \in Seq(S), NEW i \in 1..Len(s)
  PROVE  LET t == SubSeq(s, 1, i - 1) \o SubSeq(s, i + 1, Len(s))
         IN /\ t \in Seq(S) /\ (i # Len(s) => t # <<>>)
            /\ \A k \in 1..Len(t) : \E j \in 1..Len(s) : t[k] = s[j]
<1> DEFINE u == SubSeq(s, 1, i - 1)
           v == SubSeq(s, i + 1, Len(s))
<1>1. u \in Seq(S) /\ \A k \in 1..Len(u) : u[k] = s[k] /\ k \in 1..Len(s)
  OBVIOUS
<1>2. v \in Seq(S) /\ Len(v) = Len(s) - i /\ \A k \in 1..Len(v) : v[k] = s[k + i] /\ k + i \in 1..Len(s)
  OBVIOUS
<1>3. i # Len(s) => Len(v) > 0
  BY <1>2
<1> HIDE DEF u, v
<1>4. u \o v \in Seq(S) /\ Len(u \o v) = Len(u) + Len(v)
  BY <1>1, <1>2, ConcatProperties
<1>5. \A k \in 1..(Len(u) + Len(v)) : (u \o v)[k] = IF k <= Len(u) THEN u[k] ELSE v[k - Len(u)]
  BY <1>1, <1>2, ConcatProperties
<1>6. Len(u) \in Nat /\ Len(v) \in Nat
  BY <1>1, <1>2
<1>7. ASSUME NEW k \in 1..Len(u \o v)
      PROVE  \E j \in 1..Len(s) : (u \o v)[k] = s[j]
  <2>1. k \in 1..(Len(u) + Len(v))
    BY <1>4
  <2>2. CASE k <= Len(u)
    <3>1. k \in 1..Len(u)
      BY <1>6, <2>1, <2>2
    <3> QED
      BY <1>1, <1>5, <2>1, <2>2, <3>1
  <2>3. CASE ~(k <= Len(u))
    <3>1. k - Len(u) \in 1..Len(v)
      BY <1>6, <2>1, <2>3
    <3> QED
      BY <1>2, <1>5, <2>1, <2>3, <3>1
  <2> QED
    BY <2>2, <2>3
<1>8. i # Len(s) => u \o v # <<>>
  BY <1>3, <1>4, <1>6
<1> QED
  BY <1>4, <1>7, <1>8 DEF u, v

LEMMA EditStep ==
  ASSUME IInv, Edit
  PROVE  IInv'
<1>0. TypeOK /\ Written /\ \A i \in 1..Len(ledger) : Backed(ledger[i])
  BY DEF IInv
<1>t. /\ ledger \in Seq(Line) /\ Len(ledger) \in Nat
      /\ \A i \in 1..Len(ledger) : ledger[i] \in Line
      /\ art \in [Run -> [Artifact -> {"none", "part"} \cup Complete]]
  BY <1>0, Typed
<1>f. UNCHANGED <<made, pc, pos, overlapped, split>>
  BY DEF Edit
<1>e. edits' \in 0..MaxEdits
  <2>1. edits \in 0..MaxEdits /\ edits < MaxEdits /\ edits' = edits + 1 /\ MaxEdits \in Nat
    BY <1>0, RunAssumption DEF Edit, TypeOK
  <2> QED
    BY <2>1
<1>h. hurt' \in BOOLEAN
  BY <1>0 DEF Edit, EditLine, EditArtifact, TypeOK
<1>1. ASSUME NEW i \in 1..Len(ledger), EditLine(i)
      PROVE  IInv'
  <2>1. CASE ledger' = [ledger EXCEPT ![i].kind = "altered"] /\ UNCHANGED <<torn, art>>
    <3> DEFINE altered == [ledger[i] EXCEPT !.kind = "altered"]
    <3>1. altered \in Line /\ altered.kind # "entry"
      BY <1>t DEF Line
    <3>2. ledger' = [ledger EXCEPT ![i] = altered]
      BY <2>1
    <3> HIDE DEF altered
    <3>3. /\ ledger' \in Seq(Line) /\ Len(ledger') = Len(ledger)
          /\ \A k \in 1..Len(ledger') : ledger'[k] \in {altered, ledger[k]}
      BY <1>t, <3>1, <3>2
    <3>4. torn' => ledger' # <<>>
      <4>1. ledger' # <<>>
        BY <1>t, <3>3
      <4> QED
        BY <4>1
    <3>5. TypeOK'
      BY <1>0, <1>e, <1>f, <1>h, <2>1, <3>3, <3>4 DEF TypeOK
    <3>6. Written'
      BY <1>0, <1>f, <2>1 DEF Written
    <3>7. \A k \in 1..Len(ledger') : Backed(ledger'[k])
      BY <1>0, <3>1, <3>3 DEF Backed
    <3>8. (\A k \in 1..Len(ledger) : Backed(ledger[k]))'
      BY <1>f, <2>1, <3>7 DEF Backed
    <3> QED
      BY <3>5, <3>6, <3>8 DEF IInv
  <2>2. CASE /\ ledger' = SubSeq(ledger, 1, i - 1) \o SubSeq(ledger, i + 1, Len(ledger))
             /\ torn' = (torn /\ i # Len(ledger))
             /\ UNCHANGED art
    <3>1. /\ ledger' \in Seq(Line) /\ (i # Len(ledger) => ledger' # <<>>)
          /\ \A k \in 1..Len(ledger') : \E j \in 1..Len(ledger) : ledger'[k] = ledger[j]
      BY <1>t, <2>2, Deleted
    <3>2. torn' \in BOOLEAN
      BY <2>2
    <3>4. torn' => ledger' # <<>>
      <4>1. torn' => i # Len(ledger)
        BY <2>2
      <4> QED
        BY <3>1, <4>1
    <3>5. TypeOK'
      BY <1>0, <1>e, <1>f, <1>h, <2>2, <3>1, <3>2, <3>4 DEF TypeOK
    <3>6. Written'
      BY <1>0, <1>f, <2>2 DEF Written
    <3>7. \A k \in 1..Len(ledger') : Backed(ledger'[k])
      BY <1>0, <3>1
    <3>8. (\A k \in 1..Len(ledger) : Backed(ledger[k]))'
      BY <1>f, <2>2, <3>7 DEF Backed
    <3> QED
      BY <3>5, <3>6, <3>8 DEF IInv
  <2> QED
    BY <1>1, <2>1, <2>2 DEF EditLine
<1>2. ASSUME NEW r \in Run, NEW a \in Artifact, EditArtifact(r, a)
      PROVE  IInv'
  <2>1. /\ UNCHANGED <<ledger, torn>>
        /\ \/ art' = [art EXCEPT ![r][a] = "changed"]
           \/ art' = [art EXCEPT ![r][a] = "reworded"]
    BY <1>2 DEF EditArtifact
  <2>2. art' \in [Run -> [Artifact -> {"none", "part"} \cup Complete]]
    <3>1. {"changed", "reworded"} \subseteq Complete
      BY DEF Complete
    <3> QED
      BY <1>t, <2>1, <3>1, SMTT(30)
  <2>3. \A q \in Run, b \in Artifact : art'[q][b] \in {art[q][b], "changed", "reworded"}
    BY <1>t, <2>1, SMTT(30)
  <2>4. \A q \in Run, b \in Artifact : art[q][b] \in Complete => art'[q][b] \in Complete
    BY <2>3 DEF Complete
  <2>5. \A q \in Run : pc[q] = "saved" => \A b \in Artifact : art'[q][b] \in Complete
    BY <1>0, <2>4 DEF TypeOK, Complete
  <2>6. TypeOK'
    BY <1>0, <1>e, <1>f, <1>h, <2>1, <2>2, <2>5 DEF TypeOK
  <2>7. Written'
    BY <1>0, <1>f, <2>4 DEF Written, Artifact
  <2>8. (\A i \in 1..Len(ledger) : Backed(ledger[i]))'
    BY <1>0, <1>f, <2>1, <2>4 DEF Backed
  <2> QED
    BY <2>6, <2>7, <2>8 DEF IInv
<1> QED
  BY <1>1, <1>2 DEF Edit

LEMMA StoreStep == IInv /\ [Next]_vars => IInv'
<1>1. ASSUME IInv, UNCHANGED vars
      PROVE  IInv'
  BY <1>1 DEF vars, IInv, TypeOK, Written, Backed
<1> QED
  BY <1>1, SaveStep, InitStep, EditStep DEF Next

LEMMA Invariant == Spec => []IInv
BY InitHolds, StoreStep, PTL DEF Spec

(* For any number of runs that race, fail or are killed, with any number of  *)
(* "aeg init"s and edits beside them: what ledger.jsonl lists is complete,   *)
(* because save_run writes run.json, manifest.json and evidence.json before  *)
(* the line.                                                                 *)
THEOREM StoreInvariant == Spec => []StoreInv
<1>1. IInv => StoreInv
  BY DEF IInv, StoreInv, Backed, ListedIsComplete, Complete
<1> QED
  BY <1>1, Invariant, PTL

-----------------------------------------------------------------------------
(* Runs one after the other.                                                 *)

Serial == ~overlapped /\ ~split /\ edits = 0

Sound(i) ==
  /\ ledger[i].kind = "entry" /\ Linked(ledger, i)
  /\ \A a \in Artifact : art[ledger[i].run][a] = "whole"

NextPosition == IF ledger = <<>> THEN [seq |-> 1, prev |-> NoRun]
                ELSE [seq |-> Len(ledger) + 1, prev |-> Last.run]

(* What holds as long as runs are serial: the ledger is sound, and the one   *)
(* save under way knows its end.                                             *)
SerialInv ==
  Serial =>
    /\ torn = FALSE
    /\ \A i \in 1..Len(ledger) : Sound(i)
    /\ \A q, r \in Run : pc[q] \in Saving /\ pc[r] \in Saving => q = r
    /\ \A r \in Run : pc[r] \in {"run", "manifest", "evidence", "ledger"} => pos[r] = NextPosition
    /\ \A r \in Run : pc[r] \notin {"rest", "newline"}

(* Without edits no file is altered; the one init creates no ledger that is  *)
(* there, and there is one before any save begins.                           *)
Calm ==
  /\ edits = 0 => \A r \in Run, a \in Artifact : art[r][a] \notin {"reworded", "changed"}
  /\ \A r \in Run : pc[r] # "idle" => "ledger" \in made
  /\ \A p \in Initer : pc[p] = "create" => "ledger" \notin made

LEMMA SerialInit == Init => SerialInv /\ Calm
<1> SUFFICES ASSUME Init
             PROVE  SerialInv /\ Calm
  OBVIOUS
<1>1. ledger = <<>> /\ Len(ledger) = 0 /\ torn = FALSE
  BY DEF Init
<1>2. /\ \A q \in Run \cup Initer : pc[q] = "idle"
      /\ \A r \in Run, a \in Artifact : art[r][a] = "none"
  BY DEF Init
<1>3. SerialInv
  BY <1>1, <1>2 DEF SerialInv, Saving
<1> QED
  BY <1>2, <1>3 DEF Calm

LEMMA CalmStep ==
  ASSUME IInv, Calm, [Next]_vars, \A p, q \in Initer : p = q
  PROVE  Calm'
<1>a. art \in [Run -> [Artifact -> {"none", "part"} \cup Complete]]
  BY DEF IInv, TypeOK
<1>c. pc \in [Run \cup Initer -> Saving \cup
            {"idle", "saved", "failed", "config", "write config", "look", "create"}]
  BY DEF IInv, TypeOK
<1>e. edits \in 0..MaxEdits
  BY DEF IInv, TypeOK
<1>n. edits \in Nat
  BY <1>e, RunAssumption
<1>1. ASSUME NEW r \in Run, Save(r)
      PROVE  Calm'
  <2>1. made' = made /\ edits' = edits /\ \A q \in (Run \cup Initer) \ {r} : pc'[q] = pc[q]
    BY <1>c, <1>1 DEF Save, Position, WriteArtifact, AppendLine, AppendPart, AppendRest,
       AppendNewline, Fails, Goto, history
  <2>2. pc[r] = "idle" => "ledger" \in made
    BY <1>1 DEF Save, Position, WriteArtifact, AppendLine, AppendPart, AppendRest,
       AppendNewline, Fails, Artifact, Saving
  <2>3. "ledger" \in made
    BY <2>2 DEF Calm
  <2>4. \A q \in Run, b \in Artifact : art'[q][b] \in {art[q][b], "whole", "part"}
    <3>1. CASE art' = art
      BY <3>1
    <3>2. ASSUME NEW a \in Artifact, WriteArtifact(r, a)
          PROVE  \A q \in Run, b \in Artifact : art'[q][b] \in {art[q][b], "whole", "part"}
      <4>1. \/ art' = [art EXCEPT ![r][a] = "whole"]
            \/ art' = [art EXCEPT ![r][a] = "part"]
        BY <3>2 DEF WriteArtifact
      <4> QED
        BY <1>a, <4>1
    <3> QED
      BY <1>1, <3>1, <3>2 DEF Save, Position, AppendLine, AppendPart, AppendRest, AppendNewline, Fails
  <2>5. \A p \in Initer : p # r
    BY RunAssumption
  <2> QED
    BY <2>1, <2>3, <2>4, <2>5 DEF Calm
<1>2. ASSUME NEW p \in Initer, EnsureInitialized(p)
      PROVE  Calm'
  <2>1. /\ art' = art /\ edits' = edits /\ made \subseteq made'
        /\ \A q \in (Run \cup Initer) \ {p} : pc'[q] = pc[q]
        /\ pc'[p] = "create" => "ledger" \notin made'
    BY <1>c, <1>2 DEF EnsureInitialized, MakeDirs, LookForConfig, WriteConfig, LookForLedger,
       CreateLedger, InitFails, Goto, history
  <2>2. \A r \in Run : r # p
    BY RunAssumption
  <2> QED
    BY <2>1, <2>2 DEF Calm
<1>3. CASE Edit
  <2>0. edits' = edits + 1 /\ UNCHANGED <<made, pc>>
    BY <1>3 DEF Edit
  <2>1. edits' # 0
    BY <1>n, <2>0
  <2> QED
    BY <2>0, <2>1 DEF Calm
<1>4. CASE UNCHANGED vars
  BY <1>4 DEF vars, Calm
<1> QED
  BY <1>1, <1>2, <1>3, <1>4 DEF Next

LEMMA SerialStep ==
  ASSUME IInv, Calm, SerialInv, [Next]_vars
  PROVE  SerialInv'
<1> SUFFICES ASSUME Serial'
             PROVE  /\ torn' = FALSE
                    /\ \A i \in 1..Len(ledger') : Sound(i)'
                    /\ \A q, r \in Run : pc'[q] \in Saving /\ pc'[r] \in Saving => q = r
                    /\ \A r \in Run : pc'[r] \in {"run", "manifest", "evidence", "ledger"} =>
                         pos'[r] = NextPosition'
                    /\ \A r \in Run : pc'[r] \notin {"rest", "newline"}
  BY DEF SerialInv
<1>t. TypeOK /\ Written
  BY DEF IInv
<1>l. ledger \in Seq(Line)
  BY DEF IInv, TypeOK
<1>k. Len(ledger) \in Nat
  BY <1>l
<1>a. art \in [Run -> [Artifact -> {"none", "part"} \cup Complete]]
  BY DEF IInv, TypeOK
<1>c. pc \in [Run \cup Initer -> Saving \cup
            {"idle", "saved", "failed", "config", "write config", "look", "create"}]
  BY DEF IInv, TypeOK
<1>p. pos \in [Run -> [seq: Nat, prev: Run \cup {NoRun}]]
  BY DEF IInv, TypeOK
<1>e. edits \in 0..MaxEdits
  BY DEF IInv, TypeOK
<1>n. edits \in Nat
  BY <1>e, RunAssumption
<1>b. \A i \in 1..Len(ledger) : Backed(ledger[i])
  BY DEF IInv
<1>1. CASE Edit
  <2>1. edits' = edits + 1 /\ edits' = 0
    BY <1>1 DEF Edit, Serial
  <2> QED
    BY <1>n, <2>1
<1>2. CASE UNCHANGED vars
  BY <1>2 DEF vars, SerialInv, Serial, Sound, Linked, NextPosition, Last
<1>3. ASSUME NEW p \in Initer, EnsureInitialized(p)
      PROVE  SerialInv'
  <2>1. /\ UNCHANGED <<art, pos, overlapped, split, edits>>
        /\ \A r \in Run : pc'[r] = pc[r]
    <3>1. p \notin Run
      BY RunAssumption
    <3> QED
      BY <1>3, <1>c, <3>1 DEF EnsureInitialized, MakeDirs, LookForConfig, WriteConfig,
         LookForLedger, CreateLedger, InitFails, Goto, history
  <2>2. CASE UNCHANGED <<ledger, torn>>
    <3>1. (\A i \in 1..Len(ledger) : Sound(i))' <=> \A i \in 1..Len(ledger) : Sound(i)
      BY <2>1, <2>2 DEF Sound, Linked
    <3>2. NextPosition' = NextPosition /\ (Serial' <=> Serial)
      BY <2>1, <2>2 DEF NextPosition, Last, Serial
    <3> QED
      BY <2>1, <2>2, <3>1, <3>2 DEF SerialInv
  <2>3. CASE CreateLedger(p)
    <3>1. ledger' = <<>> /\ torn' = FALSE /\ Len(ledger') = 0 /\ \A r \in Run : pc'[r] = "idle"
      BY <2>1, <2>3 DEF CreateLedger, Calm
    <3> QED
      BY <3>1 DEF SerialInv, Saving
  <2> QED
    BY <1>3, <2>2, <2>3 DEF EnsureInitialized, MakeDirs, LookForConfig, WriteConfig,
       LookForLedger, InitFails, history
<1>4. ASSUME NEW r \in Run, Save(r)
      PROVE  SerialInv'
  <2>1. Serial
    BY <1>4, <1>t DEF Save, Position, WriteArtifact, AppendLine, AppendPart, AppendRest,
       AppendNewline, Fails, history, Serial, TypeOK
  <2>2. /\ torn = FALSE
        /\ \A i \in 1..Len(ledger) : Sound(i)
        /\ \A q, s \in Run : pc[q] \in Saving /\ pc[s] \in Saving => q = s
        /\ \A s \in Run : pc[s] \in {"run", "manifest", "evidence", "ledger"} => pos[s] = NextPosition
        /\ \A s \in Run : pc[s] \notin {"rest", "newline"}
    BY <2>1 DEF SerialInv
  <2>3. CASE Position(r)
    <3>1. UNCHANGED <<ledger, torn, art>> /\ \A q \in Run \ {r} : pc'[q] = pc[q]
      BY <1>c, <2>3 DEF Position, Goto
    <3>2. (\A i \in 1..Len(ledger) : Sound(i))' /\ NextPosition' = NextPosition
      BY <2>2, <3>1 DEF Sound, Linked, NextPosition, Last
    <3>3. CASE WellFormed(ledger)
      <4>1. /\ pc'[r] = "run" /\ pos' = [pos EXCEPT ![r] = NextPosition]
            /\ \A q \in Run \ {r} : pc[q] \notin Saving
        BY <1>c, <2>3, <3>3 DEF Position, Goto, Serial, NextPosition
      <4>2. pos'[r] = NextPosition
        BY <1>p, <4>1
      <4> QED
        BY <2>2, <3>1, <3>2, <4>1, <4>2 DEF SerialInv, Saving
    <3>4. CASE ~WellFormed(ledger)
      <4>1. pc'[r] = "failed" /\ pos' = pos
        BY <1>c, <2>3, <3>4 DEF Position, Goto
      <4> QED
        BY <2>2, <3>1, <3>2, <4>1 DEF SerialInv, Saving
    <3> QED
      BY <3>3, <3>4
  <2>4. ASSUME NEW a \in Artifact, WriteArtifact(r, a)
        PROVE  SerialInv'
    <3>1. /\ UNCHANGED <<ledger, torn, pos>> /\ \A q \in Run \ {r} : pc'[q] = pc[q] /\ art'[q] = art[q]
          /\ pc[r] \in {"run", "manifest", "evidence"}
          /\ pc'[r] \in {"manifest", "evidence", "ledger", "failed"}
      BY <1>a, <1>c, <2>4 DEF WriteArtifact, After, Artifact, Goto, history
    <3>2. \A i \in 1..Len(ledger) : ledger[i].run \in Run \ {r}
      BY <1>b, <2>2, <3>1 DEF Sound, Backed
    <3>3. (\A i \in 1..Len(ledger) : Sound(i))' /\ NextPosition' = NextPosition
      BY <2>2, <3>1, <3>2 DEF Sound, Linked, NextPosition, Last
    <3> QED
      BY <2>2, <3>1, <3>3 DEF SerialInv, Saving
  <2>5. CASE AppendLine(r)
    <3>1. /\ ledger' = Append(ledger, Entry(r)) /\ torn' = FALSE /\ pc' = [pc EXCEPT ![r] = "saved"]
          /\ UNCHANGED <<art, pos>> /\ pc[r] = "ledger"
      BY <2>2, <2>5 DEF AppendLine, Glued, Goto
    <3>2. Entry(r) \in Line /\ Entry(r).kind = "entry" /\ Entry(r).run = r
      BY <1>t, EntryTyped DEF Entry
    <3>3. /\ Len(ledger') = Len(ledger) + 1 /\ ledger'[Len(ledger) + 1] = Entry(r)
          /\ \A i \in 1..Len(ledger) : ledger'[i] = ledger[i]
      BY <1>l, <3>1, <3>2
    <3>4. Entry(r).seq = Len(ledger) + 1
          /\ Entry(r).prev = IF ledger = <<>> THEN NoRun ELSE Last.run
      <4>1. pos[r] = NextPosition
        BY <2>2, <3>1
      <4>2. ledger = <<>> => Len(ledger) + 1 = 1
        BY <1>l, <1>k
      <4> QED
        BY <4>1, <4>2 DEF Entry, NextPosition
    <3>5. \A a \in Artifact : art[r][a] = "whole"
      BY <1>t, <2>1, <3>1 DEF Written, Calm, Serial, Complete, Artifact
    <3>6. \A i : i = Len(ledger) + 1 => Sound(i)'
      <4>1. ledger = <<>> <=> Len(ledger) + 1 = 1
        BY <1>l, <1>k
      <4>2. (Len(ledger) + 1) - 1 = Len(ledger) /\ (ledger # <<>> => Len(ledger) \in 1..Len(ledger))
        BY <1>l, <1>k
      <4>3. ledger # <<>> => ledger'[Len(ledger)] = Last
        BY <3>3, <4>2 DEF Last
      <4>4. /\ ledger'[Len(ledger) + 1].kind = "entry"
            /\ ledger'[Len(ledger) + 1].run = r
            /\ ledger'[Len(ledger) + 1].seq = Len(ledger) + 1
            /\ ledger'[Len(ledger) + 1].prev =
                 IF Len(ledger) + 1 = 1 THEN NoRun ELSE ledger'[(Len(ledger) + 1) - 1].run
        BY <3>2, <3>3, <3>4, <4>1, <4>2, <4>3
      <4>5. \A i : /\ ledger'[i].kind = "entry" /\ ledger'[i].run = r /\ ledger'[i].seq = i
                   /\ ledger'[i].prev = IF i = 1 THEN NoRun ELSE ledger'[i - 1].run
                   => Sound(i)'
        BY <3>1, <3>5 DEF Sound, Linked
      <4> QED
        BY <4>4, <4>5
    <3>7. \A i \in 1..Len(ledger) : Sound(i)'
      <4> TAKE i \in 1..Len(ledger)
      <4>1. i # 1 => i - 1 \in 1..Len(ledger)
        BY <1>l, <1>k
      <4> QED
        BY <2>2, <3>1, <3>3, <4>1 DEF Sound, Linked
    <3>8. (\A i \in 1..Len(ledger) : Sound(i))'
      <4>0. 1..Len(ledger') = 1..(Len(ledger) + 1)
        BY <3>3
      <4>1. \A i \in 1..(Len(ledger) + 1) : i \in 1..Len(ledger) \/ i = Len(ledger) + 1
        BY <1>l, <1>k
      <4> QED
        BY <3>6, <3>7, <4>0, <4>1
    <3>9. \A q \in Run : pc'[q] \notin Saving
      <4>1. pc[r] \in Saving /\ pc'[r] = "saved" /\ \A q \in Run \ {r} : pc'[q] = pc[q]
        BY <1>c, <3>1 DEF Saving
      <4> QED
        BY <2>2, <4>1 DEF Saving
    <3> QED
      BY <3>1, <3>8, <3>9 DEF SerialInv, Saving
  <2>6. CASE AppendPart(r) \/ AppendRest(r) \/ AppendNewline(r)
    BY <2>2, <2>6 DEF AppendPart, AppendRest, AppendNewline, Serial
  <2>7. CASE Fails(r)
    <3>1. /\ UNCHANGED <<ledger, torn, art, pos>> /\ pc'[r] = "failed"
          /\ \A q \in Run \ {r} : pc'[q] = pc[q]
      BY <1>c, <2>7 DEF Fails, Goto
    <3>2. (\A i \in 1..Len(ledger) : Sound(i))' /\ NextPosition' = NextPosition
      BY <2>2, <3>1 DEF Sound, Linked, NextPosition, Last
    <3> QED
      BY <2>2, <3>1, <3>2 DEF SerialInv, Saving
  <2> QED
    BY <1>4, <2>3, <2>4, <2>5, <2>6, <2>7 DEF Save
<1>5. SerialInv' => /\ torn' = FALSE
                    /\ \A i \in 1..Len(ledger') : Sound(i)'
                    /\ \A q, r \in Run : pc'[q] \in Saving /\ pc'[r] \in Saving => q = r
                    /\ \A r \in Run : pc'[r] \in {"run", "manifest", "evidence", "ledger"} =>
                         pos'[r] = NextPosition'
                    /\ \A r \in Run : pc'[r] \notin {"rest", "newline"}
  BY DEF SerialInv
<1> QED
  BY <1>1, <1>2, <1>3, <1>4, <1>5 DEF Next

(* With at most one "aeg init", any number of runs, one after the other and  *)
(* failing or killed anywhere but inside the append, leave a ledger that the *)
(* walk of "aeg verify" accepts: _next_ledger_position saw its last line.    *)
THEOREM SerialRunsVerify ==
  ASSUME \A p, q \in Initer : p = q
  PROVE  Spec => []SerialVerifies
<1> DEFINE J == IInv /\ Calm /\ SerialInv
<1>1. Init => J
  BY InitHolds, SerialInit
<1>2. J /\ [Next]_vars => J'
  BY StoreStep, CalmStep, SerialStep
<1>3. J => SerialVerifies
  BY DEF SerialInv, Serial, Sound, SerialVerifies, Verifies
<1> QED
  BY <1>1, <1>2, <1>3, PTL DEF Spec

-----------------------------------------------------------------------------
(* A store whose appends arrive whole and that nobody else changes.          *)

Left == ~split /\ edits = 0

(* Its lines are whole, and each run that has saved has one. *)
Whole ==
  Left => /\ torn = FALSE
          /\ \A r \in Run : pc[r] \notin {"rest", "newline"}
          /\ \A i \in 1..Len(ledger) : ledger[i].kind = "entry"
          /\ SavedIsListed

LEMMA WholeInit == Init => Whole
<1> SUFFICES ASSUME Init
             PROVE  Whole
  OBVIOUS
<1>1. ledger = <<>> /\ Len(ledger) = 0 /\ torn = FALSE /\ \A r \in Run : pc[r] = "idle"
  BY DEF Init
<1> QED
  BY <1>1 DEF Whole, SavedIsListed

(* What one step of a save does to the lines of a store left alone: nothing, *)
(* or it adds the run's own.                                                 *)
LEMMA SaveLeft ==
  ASSUME IInv, Whole, NEW r \in Run, Save(r), Left'
  PROVE  /\ Left /\ torn' = FALSE /\ \A q \in Run \ {r} : pc'[q] = pc[q]
         /\ pc'[r] \notin {"rest", "newline"}
         /\ \/ ledger' = ledger /\ pc'[r] # "saved"
            \/ ledger' = Append(ledger, Entry(r)) /\ pc[r] = "ledger"
<1>t. TypeOK
  BY DEF IInv
<1>c. pc \in [Run \cup Initer -> Saving \cup
            {"idle", "saved", "failed", "config", "write config", "look", "create"}]
  BY <1>t DEF TypeOK
<1>1. Left
  BY <1>t DEF Save, Position, WriteArtifact, AppendLine, AppendPart, AppendRest,
     AppendNewline, Fails, history, Left, TypeOK
<1>2. torn = FALSE /\ pc[r] \notin {"rest", "newline"}
  BY <1>1 DEF Whole
<1>3. CASE AppendLine(r)
  <2>1. /\ ledger' = Append(ledger, Entry(r)) /\ torn' = FALSE /\ pc[r] = "ledger"
        /\ pc' = [pc EXCEPT ![r] = "saved"]
    BY <1>2, <1>3 DEF AppendLine, Glued, Goto
  <2> QED
    BY <1>1, <1>c, <2>1
<1>4. CASE Position(r) \/ Fails(r)
  <2>1. /\ UNCHANGED <<ledger, torn>>
        /\ pc' = [pc EXCEPT ![r] = "run"] \/ pc' = [pc EXCEPT ![r] = "failed"]
    BY <1>4 DEF Position, Fails, Goto
  <2> QED
    BY <1>1, <1>2, <1>c, <2>1
<1>5. ASSUME NEW a \in Artifact, WriteArtifact(r, a)
      PROVE  /\ ledger' = ledger /\ torn' = torn /\ pc'[r] \notin {"saved", "rest", "newline"}
             /\ \A q \in Run \ {r} : pc'[q] = pc[q]
  <2>1. /\ UNCHANGED <<ledger, torn>>
        /\ pc' = [pc EXCEPT ![r] = After(a)] \/ pc' = [pc EXCEPT ![r] = "failed"]
    BY <1>5 DEF WriteArtifact, Goto
  <2>2. After(a) \in {"manifest", "evidence", "ledger"}
    BY DEF After, Artifact
  <2> QED
    BY <1>c, <2>1, <2>2
<1>6. ~AppendPart(r) /\ ~AppendRest(r) /\ ~AppendNewline(r)
  BY <1>2 DEF AppendPart, AppendRest, AppendNewline, Left
<1> QED
  BY <1>1, <1>2, <1>3, <1>4, <1>5, <1>6 DEF Save

(* "aeg init" creates no ledger a run could have written to. *)
LEMMA InitLeft ==
  ASSUME IInv, Calm, NEW p \in Initer, EnsureInitialized(p)
  PROVE  /\ UNCHANGED <<split, edits, hurt, pos, art>> /\ \A r \in Run : pc'[r] = pc[r]
         /\ \/ UNCHANGED <<ledger, torn>>
            \/ /\ ledger' = <<>> /\ torn' = FALSE /\ "ledger" \notin made
               /\ \A r \in Run : pc[r] = "idle"
<1>c. pc \in [Run \cup Initer -> Saving \cup
            {"idle", "saved", "failed", "config", "write config", "look", "create"}]
  BY DEF IInv, TypeOK
<1>1. p \notin Run
  BY RunAssumption
<1>2. CASE CreateLedger(p)
  <2>1. /\ pc[p] = "create" /\ ledger' = <<>> /\ torn' = FALSE /\ pc' = [pc EXCEPT ![p] = "idle"]
        /\ UNCHANGED <<split, edits, hurt, pos, art>>
    BY <1>2 DEF CreateLedger, Goto, history
  <2>2. "ledger" \notin made /\ \A r \in Run : pc[r] = "idle"
    BY <2>1 DEF Calm
  <2> QED
    BY <1>1, <1>c, <2>1, <2>2
<1>3. CASE MakeDirs(p) \/ LookForConfig(p) \/ WriteConfig(p) \/ LookForLedger(p) \/ InitFails(p)
  BY <1>1, <1>3, <1>c DEF MakeDirs, LookForConfig, WriteConfig, LookForLedger, InitFails, Goto, history
<1> QED
  BY <1>2, <1>3 DEF EnsureInitialized

LEMMA WholeStep ==
  ASSUME IInv, Calm, Whole, [Next]_vars
  PROVE  Whole'
<1> SUFFICES ASSUME Left'
             PROVE  /\ torn' = FALSE
                    /\ \A r \in Run : pc'[r] \notin {"rest", "newline"}
                    /\ \A i \in 1..Len(ledger') : ledger'[i].kind = "entry"
                    /\ \A r \in Run : pc'[r] = "saved" =>
                         \E i \in 1..Len(ledger') : ledger'[i].kind = "entry" /\ ledger'[i].run = r
  BY DEF Whole, SavedIsListed
<1>t. TypeOK
  BY DEF IInv
<1>l. ledger \in Seq(Line) /\ Len(ledger) \in Nat
  BY <1>t, Typed
<1>0. Left => /\ torn = FALSE
              /\ \A r \in Run : pc[r] \notin {"rest", "newline"}
              /\ \A i \in 1..Len(ledger) : ledger[i].kind = "entry"
              /\ \A r \in Run : pc[r] = "saved" =>
                   \E i \in 1..Len(ledger) : ledger[i].kind = "entry" /\ ledger[i].run = r
  BY DEF Whole, SavedIsListed, Left
<1>1. CASE Edit
  <2>1. edits \in 0..MaxEdits /\ edits' = edits + 1 /\ edits' = 0
    BY <1>1, <1>t DEF Edit, Left, TypeOK
  <2> QED
    BY <2>1, RunAssumption
<1>2. CASE UNCHANGED vars
  BY <1>0, <1>2 DEF vars, Left
<1>3. ASSUME NEW p \in Initer, EnsureInitialized(p)
      PROVE  Whole'
  <2>1. Left /\ \A r \in Run : pc'[r] = pc[r]
    BY <1>3, InitLeft DEF Left
  <2>2. CASE UNCHANGED <<ledger, torn>>
    BY <1>0, <2>1, <2>2 DEF Whole, SavedIsListed
  <2>3. CASE ledger' = <<>> /\ torn' = FALSE /\ \A r \in Run : pc[r] = "idle"
    BY <2>1, <2>3 DEF Whole, SavedIsListed
  <2> QED
    BY <1>3, <2>2, <2>3, InitLeft
<1>4. ASSUME NEW r \in Run, Save(r)
      PROVE  Whole'
  <2>1. /\ Left /\ torn' = FALSE /\ \A q \in Run \ {r} : pc'[q] = pc[q]
        /\ pc'[r] \notin {"rest", "newline"}
        /\ \/ ledger' = ledger /\ pc'[r] # "saved"
           \/ ledger' = Append(ledger, Entry(r)) /\ pc[r] = "ledger"
    BY <1>4, SaveLeft
  <2>2. CASE ledger' = ledger /\ pc'[r] # "saved"
    BY <1>0, <2>1, <2>2 DEF Whole, SavedIsListed
  <2>3. CASE ledger' = Append(ledger, Entry(r))
    <3>1. Entry(r) \in Line /\ Entry(r).kind = "entry" /\ Entry(r).run = r
      BY <1>t, EntryTyped
    <3>2. /\ Len(ledger') = Len(ledger) + 1 /\ ledger'[Len(ledger) + 1] = Entry(r)
          /\ \A i \in 1..Len(ledger) : ledger'[i] = ledger[i] /\ i \in 1..Len(ledger')
      BY <1>l, <2>3, <3>1
    <3>3. \A i \in 1..Len(ledger') : i \in 1..Len(ledger) \/ i = Len(ledger) + 1
      BY <1>l, <3>2
    <3>4. \A i \in 1..Len(ledger') : ledger'[i].kind = "entry"
      BY <1>0, <2>1, <3>1, <3>2, <3>3
    <3>5. Len(ledger) + 1 \in 1..Len(ledger')
      BY <1>l, <3>2
    <3>6. \A q \in Run \ {r} : pc'[q] = "saved" => \E i \in 1..Len(ledger') : ledger'[i].run = q
      BY <1>0, <2>1, <3>2
    <3> QED
      BY <1>0, <2>1, <3>1, <3>2, <3>4, <3>5, <3>6 DEF Whole, SavedIsListed
  <2> QED
    BY <2>1, <2>2, <2>3
<1>5. Whole' => /\ torn' = FALSE
                /\ \A r \in Run : pc'[r] \notin {"rest", "newline"}
                /\ \A i \in 1..Len(ledger') : ledger'[i].kind = "entry"
                /\ \A r \in Run : pc'[r] = "saved" =>
                     \E i \in 1..Len(ledger') : ledger'[i].kind = "entry" /\ ledger'[i].run = r
  BY DEF Whole, SavedIsListed, Left
<1> QED
  BY <1>1, <1>2, <1>3, <1>4, <1>5 DEF Next

(* With at most one "aeg init", run again and interrupted as often as it may *)
(* be, a run whose save returned stays listed: its line went in whole, and   *)
(* the init creates no ledger where there is one.                            *)
THEOREM SavedRunsStayListed ==
  ASSUME \A p, q \in Initer : p = q
  PROVE  Spec => []SavedIsListed
<1> DEFINE J == IInv /\ Calm /\ Whole
<1>1. Init => J
  BY InitHolds, SerialInit, WholeInit
<1>2. J /\ [Next]_vars => J'
  BY StoreStep, CalmStep, WholeStep
<1>3. J => SavedIsListed
  BY DEF Whole, Left, SavedIsListed
<1> QED
  BY <1>1, <1>2, <1>3, PTL DEF Spec

-----------------------------------------------------------------------------
(* Refinement: the runs the lines name are an append-only log.               *)

Listed == [i \in 1..Len(ledger) |-> ledger[i].run]

LEMMA LogStep ==
  ASSUME IInv, Calm, Whole, Next
  PROVE  \/ UNCHANGED <<Listed, Left>>
         \/ Log!Next
<1>t. TypeOK
  BY DEF IInv
<1>l. ledger \in Seq(Line) /\ Len(ledger) \in Nat
  BY <1>t, Typed
<1>b. \A i \in 1..Len(ledger) : Backed(ledger[i])
  BY DEF IInv
<1>0. ~Left' => Log!Next
  BY DEF Log!Next, Left
<1>1. ASSUME Left', NEW p \in Initer, EnsureInitialized(p)
      PROVE  UNCHANGED <<Listed, Left>>
  <2>1. Left /\ (Left' <=> Left)
    BY <1>1, InitLeft DEF Left
  <2>2. CASE ledger' = ledger
    BY <2>1, <2>2 DEF Listed
  <2>3. CASE ledger' = <<>> /\ \A r \in Run : pc[r] = "idle"
    <3>1. \A i \in 1..Len(ledger) : ledger[i].kind = "entry" /\ Backed(ledger[i])
      BY <1>b, <2>1 DEF Whole
    <3>2. \A i \in 1..Len(ledger) : FALSE
      BY <2>3, <3>1 DEF Backed
    <3>3. ledger = <<>>
      <4>1. Len(ledger) = 0
        BY <1>l, <3>2
      <4> QED
        BY <1>l, <4>1
    <3> QED
      BY <2>1, <2>3, <3>3 DEF Listed
  <2> QED
    BY <1>1, <2>2, <2>3, InitLeft
<1>2. ASSUME Left', NEW r \in Run, Save(r)
      PROVE  UNCHANGED <<Listed, Left>> \/ Log!Next
  <2>1. /\ Left
        /\ \/ ledger' = ledger
           \/ ledger' = Append(ledger, Entry(r)) /\ pc[r] = "ledger"
    BY <1>2, SaveLeft
  <2>2. CASE ledger' = ledger
    BY <1>2, <2>1, <2>2 DEF Listed, Left
  <2>3. CASE ledger' = Append(ledger, Entry(r)) /\ pc[r] = "ledger"
    <3>1. Entry(r) \in Line /\ Entry(r).run = r
      BY <1>t, EntryTyped
    <3>2. /\ Len(ledger') = Len(ledger) + 1 /\ ledger'[Len(ledger) + 1] = Entry(r)
          /\ \A i \in 1..Len(ledger) : ledger'[i] = ledger[i]
      BY <1>l, <2>3, <3>1
    <3>3. Listed' = Append(Listed, r)
      BY <1>l, <3>1, <3>2 DEF Listed
    <3>4. \A i \in 1..Len(Listed) : Listed[i] # r
      <4>1. Len(Listed) = Len(ledger) /\ \A i \in 1..Len(ledger) : Listed[i] = ledger[i].run
        BY <1>l DEF Listed
      <4>2. \A i \in 1..Len(ledger) : ledger[i].kind = "entry"
        BY <2>1 DEF Whole
      <4> QED
        BY <1>b, <2>3, <4>1, <4>2 DEF Backed
    <3> QED
      BY <1>2, <2>1, <3>3, <3>4 DEF Log!Next, Log!Record, Listed, Left
  <2> QED
    BY <2>1, <2>2, <2>3
<1>3. CASE Edit
  <2>1. edits \in 0..MaxEdits /\ edits' = edits + 1
    BY <1>3, <1>t DEF Edit, TypeOK
  <2>2. edits' # 0
    BY <2>1, RunAssumption
  <2> QED
    BY <1>0, <2>2 DEF Left
<1> QED
  BY <1>0, <1>1, <1>2, <1>3 DEF Next

(* With at most one "aeg init", saves that race, fail and take the same      *)
(* number still only append whole lines of new runs: the run ledger is the   *)
(* append-only log that the hook ledger is.                                  *)
THEOREM RunLogImplemented ==
  ASSUME \A p, q \in Initer : p = q
  PROVE  Spec => ImplementsLog
<1> DEFINE J == IInv /\ Calm /\ Whole
<1>1. Init => J
  BY InitHolds, SerialInit, WholeInit
<1>2. J /\ [Next]_vars => J'
  BY StoreStep, CalmStep, WholeStep
<1>3. Init => Log!Init
  <2>1. Init => Listed = <<>> /\ Left
    BY DEF Init, Listed, Left
  <2> QED
    BY <2>1 DEF Log!Init, Listed, Left
<1>4. J /\ [Next]_vars =>
        [Log!Next]_<<[i \in 1..Len(ledger) |-> ledger[i].run], ~split /\ edits = 0>>
  <2> SUFFICES ASSUME J, [Next]_vars
               PROVE  UNCHANGED <<Listed, Left>> \/ Log!Next
    BY DEF Listed, Left
  <2>1. CASE UNCHANGED vars
    BY <2>1 DEF vars, Listed, Left
  <2>2. CASE Next
    BY <2>2, LogStep
  <2> QED
    BY <2>1, <2>2
<1> HIDE DEF J
<1> QED
  BY <1>1, <1>2, <1>3, <1>4, PTL DEF Spec, ImplementsLog, Log!Spec

-----------------------------------------------------------------------------
(* One edit by somebody else.                                                *)

(* A line no later save can mend. *)
Bad(i) ==
  \/ ledger[i].kind \in {"altered", "junk"}
  \/ /\ ledger[i].kind = "entry"
     /\ \/ ledger[i].seq # i
        \/ \E a \in Artifact : art[ledger[i].run][a] = "changed"

HurtInv ==
  /\ edits = 0 => ~hurt
  /\ hurt => "ledger" \in made
  /\ hurt /\ edits <= 1 => \E i \in 1..Len(ledger) : Bad(i)

LEMMA BadNeverVerifies ==
  ASSUME NEW i \in 1..Len(ledger), Bad(i)
  PROVE  ~Verifies
BY DEF Bad, Verifies, Linked

(* A save leaves a bad line bad, or makes junk of it. *)
LEMMA BadStays ==
  ASSUME IInv, NEW r \in Run, Save(r), NEW i \in 1..Len(ledger), Bad(i)
  PROVE  i \in 1..Len(ledger') /\ Bad(i)'
<1>t. TypeOK
  BY DEF IInv
<1>l. ledger \in Seq(Line) /\ Len(ledger) \in Nat
  BY <1>t, Typed
<1>a. art \in [Run -> [Artifact -> {"none", "part"} \cup Complete]]
  BY <1>t DEF TypeOK
<1>b. Backed(ledger[i])
  BY DEF IInv
<1>j. Junk \in Line /\ Junk.kind = "junk"
  BY DEF Junk, Line
<1>1. ASSUME NEW l \in Line, ledger' = Glued(l), UNCHANGED art
      PROVE  i \in 1..Len(ledger') /\ Bad(i)'
  <2>1. CASE torn
    <3>1. ledger' = [ledger EXCEPT ![Len(ledger)] = Junk]
      BY <1>1, <2>1 DEF Glued
    <3>2. Len(ledger') = Len(ledger) /\ ledger'[i] \in {ledger[i], Junk}
      BY <1>l, <3>1
    <3> QED
      BY <1>1, <1>j, <3>2 DEF Bad
  <2>2. CASE ~torn
    <3>1. ledger' = Append(ledger, l)
      BY <1>1, <2>2 DEF Glued
    <3>2. Len(ledger') = Len(ledger) + 1 /\ ledger'[i] = ledger[i] /\ i \in 1..Len(ledger')
      BY <1>1, <1>l, <3>1
    <3> QED
      BY <1>1, <3>2 DEF Bad
  <2> QED
    BY <2>1, <2>2
<1>2. CASE UNCHANGED <<ledger, art>>
  BY <1>2 DEF Bad
<1>3. CASE Position(r) \/ AppendNewline(r) \/ Fails(r)
  BY <1>2, <1>3 DEF Position, AppendNewline, Fails
<1>4. ASSUME NEW a \in Artifact, WriteArtifact(r, a)
      PROVE  i \in 1..Len(ledger') /\ Bad(i)'
  <2>1. /\ ledger' = ledger /\ pc[r] = a
        /\ \/ art' = [art EXCEPT ![r][a] = "whole"]
           \/ art' = [art EXCEPT ![r][a] = "part"]
    BY <1>4 DEF WriteArtifact
  <2>2. ledger[i].kind = "entry" => ledger[i].run \in Run /\ ledger[i].run # r
    BY <1>b, <2>1 DEF Backed, Artifact
  <2>3. \A q \in Run \ {r} : art'[q] = art[q]
    BY <1>a, <2>1
  <2> QED
    BY <2>1, <2>2, <2>3 DEF Bad
<1>5. CASE AppendLine(r) \/ AppendPart(r)
  <2>1. Entry(r) \in Line /\ [Entry(r) EXCEPT !.kind = "part"] \in Line
    BY <1>t, EntryTyped
  <2>2. /\ UNCHANGED art
        /\ ledger' = Glued(Entry(r)) \/ ledger' = Glued([Entry(r) EXCEPT !.kind = "part"])
    BY <1>5 DEF AppendLine, AppendPart
  <2> QED
    BY <1>1, <2>1, <2>2
<1>6. CASE AppendRest(r)
  <2>1. CASE torn /\ Last.kind = "part" /\ Last.run = r
    <3>1. ledger' = [ledger EXCEPT ![Len(ledger)] = Entry(r)] /\ UNCHANGED art
      BY <1>6, <2>1 DEF AppendRest
    <3>2. i # Len(ledger)
      BY <2>1 DEF Bad, Last
    <3>3. Len(ledger') = Len(ledger) /\ ledger'[i] = ledger[i]
      BY <1>l, <3>1, <3>2
    <3> QED
      BY <3>1, <3>3 DEF Bad
  <2>2. CASE ~(torn /\ Last.kind = "part" /\ Last.run = r)
    <3>1. ledger' = Glued(Junk) /\ UNCHANGED art
      BY <1>6, <2>2 DEF AppendRest
    <3> QED
      BY <1>1, <1>j, <3>1
  <2> QED
    BY <2>1, <2>2
<1> QED
  BY <1>3, <1>4, <1>5, <1>6 DEF Save

(* Without one line in the middle, the next one is out of place. *)
LEMMA DeletedShifts ==
  ASSUME NEW S, NEW s \in Seq(S), NEW i \in 1..Len(s), i # Len(s)
  PROVE  LET t == SubSeq(s, 1, i - 1) \o SubSeq(s, i + 1, Len(s))
         IN i \in 1..Len(t) /\ t[i] = s[i + 1] /\ i + 1 \in 1..Len(s)
<1> DEFINE u == SubSeq(s, 1, i - 1)
           v == SubSeq(s, i + 1, Len(s))
<1>1. u \in Seq(S) /\ Len(u) = i - 1
  OBVIOUS
<1>2. v \in Seq(S) /\ Len(v) = Len(s) - i /\ 1 \in 1..Len(v) /\ v[1] = s[i + 1]
  OBVIOUS
<1>3. Len(s) \in Nat /\ i + 1 \in 1..Len(s)
  OBVIOUS
<1> HIDE DEF u, v
<1>4. Len(u \o v) = Len(u) + Len(v)
  BY <1>1, <1>2, ConcatProperties
<1>5. i \in 1..(Len(u) + Len(v)) /\ ~(i <= Len(u)) /\ i - Len(u) = 1
  BY <1>1, <1>2, <1>3
<1>6. (u \o v)[i] = v[1]
  BY <1>1, <1>2, <1>5, ConcatProperties
<1> QED
  BY <1>2, <1>3, <1>4, <1>5, <1>6 DEF u, v

LEMMA HurtStep ==
  ASSUME IInv, Calm, HurtInv, [Next]_vars
  PROVE  HurtInv'
<1>t. TypeOK
  BY DEF IInv
<1>l. ledger \in Seq(Line) /\ Len(ledger) \in Nat
  BY <1>t, Typed
<1>1. ASSUME NEW p \in Initer, EnsureInitialized(p)
      PROVE  HurtInv'
  <2>1. made \subseteq made' /\ UNCHANGED <<edits, hurt, art>>
    BY <1>1 DEF EnsureInitialized, MakeDirs, LookForConfig, WriteConfig, LookForLedger,
       CreateLedger, InitFails, history
  <2>2. hurt => ledger' = ledger
    BY <1>1, InitLeft DEF HurtInv
  <2> QED
    BY <2>1, <2>2 DEF HurtInv, Bad
<1>2. ASSUME NEW r \in Run, Save(r)
      PROVE  HurtInv'
  <2>1. UNCHANGED <<made, edits, hurt>>
    BY <1>2 DEF Save, Position, WriteArtifact, AppendLine, AppendPart, AppendRest,
       AppendNewline, Fails, history
  <2>2. \A i \in 1..Len(ledger) : Bad(i) => i \in 1..Len(ledger') /\ Bad(i)'
    BY <1>2, BadStays
  <2> QED
    BY <2>1, <2>2 DEF HurtInv
<1>3. CASE Edit
  <2>0. edits \in 0..MaxEdits /\ MaxEdits \in Nat
    BY <1>t, RunAssumption DEF TypeOK
  <2>1. edits \in Nat /\ edits' = edits + 1 /\ made' = made
    BY <1>3, <2>0 DEF Edit
  <2>2. edits' # 0 /\ (edits' <= 1 => ~hurt)
    BY <2>1 DEF HurtInv
  <2>3. Verifies => "ledger" \in made
    <3>1. ASSUME Verifies
          PROVE  "ledger" \in made
      <4>1. 1 \in 1..Len(ledger)
        BY <1>l, <3>1 DEF Verifies
      <4>2. ledger[1].kind = "entry" /\ Backed(ledger[1])
        BY <3>1, <4>1 DEF IInv, Verifies
      <4> QED
        BY <4>2 DEF Backed, Calm
    <3> QED
      BY <3>1
  <2>4. hurt' => hurt \/ Verifies
    BY <1>3 DEF Edit, EditLine, EditArtifact
  <2>5. ASSUME hurt', ~hurt
        PROVE  \E i \in 1..Len(ledger') : Bad(i)'
    <3>1. ASSUME NEW i \in 1..Len(ledger), EditLine(i)
          PROVE  \E k \in 1..Len(ledger') : Bad(k)'
      <4>1. CASE ledger' = [ledger EXCEPT ![i].kind = "altered"]
        <5>1. ledger[i] \in Line
          BY <1>l
        <5> DEFINE altered == [ledger[i] EXCEPT !.kind = "altered"]
        <5>2. altered.kind = "altered" /\ ledger' = [ledger EXCEPT ![i] = altered]
          BY <4>1, <5>1 DEF Line
        <5> HIDE DEF altered
        <5>3. Len(ledger') = Len(ledger) /\ ledger'[i] = altered
          BY <1>l, <5>2
        <5> QED
          BY <5>2, <5>3 DEF Bad
      <4>2. CASE /\ ledger' = SubSeq(ledger, 1, i - 1) \o SubSeq(ledger, i + 1, Len(ledger))
                 /\ hurt' = (hurt \/ (Verifies /\ i # Len(ledger)))
        <5>1. Verifies /\ i # Len(ledger)
          BY <2>5, <4>2
        <5>2. i \in 1..Len(ledger') /\ ledger'[i] = ledger[i + 1] /\ i + 1 \in 1..Len(ledger)
          BY <1>l, <4>2, <5>1, DeletedShifts
        <5>3. ledger[i + 1].kind = "entry" /\ ledger[i + 1].seq = i + 1 /\ i + 1 # i
          BY <5>1, <5>2 DEF Verifies, Linked
        <5> QED
          BY <5>2, <5>3 DEF Bad
      <4> QED
        BY <3>1, <4>1, <4>2 DEF EditLine
    <3>2. ASSUME NEW r \in Run, NEW a \in Artifact, EditArtifact(r, a)
          PROVE  \E k \in 1..Len(ledger') : Bad(k)'
      <4>1. PICK i \in 1..Len(ledger) : ledger[i].kind = "entry" /\ ledger[i].run = r
        BY <3>2 DEF EditArtifact
      <4>2. ledger' = ledger /\ art'[r][a] = "changed"
        <5>1. art \in [Run -> [Artifact -> {"none", "part"} \cup Complete]]
          BY <1>t DEF TypeOK
        <5>2. ledger' = ledger /\ art' = [art EXCEPT ![r][a] = "changed"]
          BY <2>5, <3>2 DEF EditArtifact
        <5> QED
          BY <5>1, <5>2
      <4> QED
        BY <4>1, <4>2 DEF Bad
    <3> QED
      BY <1>3, <3>1, <3>2 DEF Edit
  <2> QED
    BY <2>1, <2>2, <2>3, <2>4, <2>5 DEF HurtInv
<1>4. CASE UNCHANGED vars
  BY <1>4 DEF vars, HurtInv, Bad
<1> QED
  BY <1>1, <1>2, <1>3, <1>4 DEF Next

(* With at most one "aeg init", an edit that alters a line, the manifest or  *)
(* the evidence of a listed run or what its line repeats of run.json, or     *)
(* deletes a line before the last, is seen by every "aeg verify" from then   *)
(* on, for any number of runs saved, torn or failing around it and run.jsons *)
(* edited where nothing is bound: no save rewrites a line, a number or a     *)
(* file that a line names.                                                   *)
THEOREM DamageIsAlwaysSeen ==
  ASSUME \A p, q \in Initer : p = q
  PROVE  Spec => []TamperEvident
<1> DEFINE J == IInv /\ Calm /\ HurtInv
<1>1. Init => J
  <2>1. Init => HurtInv
    BY DEF Init, HurtInv
  <2> QED
    BY <2>1, InitHolds, SerialInit
<1>2. J /\ [Next]_vars => J'
  BY StoreStep, CalmStep, HurtStep
<1>3. J => TamperEvident
  BY BadNeverVerifies DEF HurtInv, TamperEvident
<1> QED
  BY <1>1, <1>2, <1>3, PTL DEF Spec
================================================================================
