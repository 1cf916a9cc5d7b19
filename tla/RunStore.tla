------------------------------ MODULE RunStore ------------------------------
(***************************************************************************)
(* The run ledger: "aeg init" (ensure_initialized) and the save_run of     *)
(* "aeg run" in jangseung/state/store.py, with the full-chain walk of      *)
(* "aeg verify" in jangseung/evidence/verify.py.                           *)
(*                                                                         *)
(* Nothing locks this store.  A save reads the whole ledger for the next   *)
(* number and previous hash, writes three files of its own directory and   *)
(* appends one line, without fsync and without cleaning up when it fails.  *)
(* A run has one line, whose chain hash covers all of it: the run stands   *)
(* for its hash.                                                           *)
(***************************************************************************)
EXTENDS Integers, Sequences, FiniteSets

CONSTANTS Run,       \* runs, each one "aeg run" with a fresh run_id
          Initer,    \* processes of "aeg init"; none if the store is ready
          NoRun,     \* the genesis hash
          MaxEdits   \* bound: changes made by anything but this program

ASSUME RunAssumption == NoRun \notin Run /\ Run \cap Initer = {} /\ MaxEdits \in Nat

VARIABLES made,        \* what exists of the store
          ledger,      \* ledger.jsonl, its non-blank lines
          torn,        \* the last line has no newline
          art,         \* each run's files
          pc,          \* where each run and each init is
          pos,         \* the ledger position each save has read
          overlapped,  \* history: two saves were under way at once
          split,       \* history: an append reached the file in two writes, or only in part
          edits,       \* history: how often outsiders changed the store
          hurt         \* history: in a store that verified, an edit altered a line, deleted
                       \* one before the last or changed what a line binds of a run's files

vars == <<made, ledger, torn, art, pc, pos, overlapped, split, edits, hurt>>
history == <<overlapped, split, edits, hurt>>

Artifact == {"run", "manifest", "evidence"}

(* "altered" keeps the numbers and hashes of its chain fields; "part" is an  *)
(* unfinished append; "junk" is no JSON object.                              *)
Line == [kind: {"entry", "altered", "part", "junk"},
         run: Run \cup {NoRun}, seq: Nat, prev: Run \cup {NoRun}]

(* Nothing hashes run.json: its line repeats run_id, risk_level and status,  *)
(* and "reworded" is a run.json whose other fields were edited.              *)
Complete == {"whole", "reworded", "changed"}

Junk == [kind |-> "junk", run |-> NoRun, seq |-> 0, prev |-> NoRun]

Saving == {"run", "manifest", "evidence", "ledger", "rest", "newline"}

TypeOK ==
  /\ made \subseteq {"runs", "config", "ledger"}
  /\ ledger \in Seq(Line) /\ torn \in BOOLEAN /\ (torn => ledger # <<>>)
  /\ art \in [Run -> [Artifact -> {"none", "part"} \cup Complete]]
  /\ pc \in [Run \cup Initer -> Saving \cup
               {"idle", "saved", "failed", "config", "write config", "look", "create"}]
  /\ pos \in [Run -> [seq: Nat, prev: Run \cup {NoRun}]]
  /\ overlapped \in BOOLEAN /\ split \in BOOLEAN /\ hurt \in BOOLEAN
  /\ edits \in 0..MaxEdits
  /\ \A r \in Run : pc[r] = "saved" => \A a \in Artifact : art[r][a] \in Complete

Init ==
  /\ made = IF Initer = {} THEN {"runs", "config", "ledger"} ELSE {}
  /\ ledger = <<>> /\ torn = FALSE
  /\ art = [r \in Run |-> [a \in Artifact |-> "none"]]
  /\ pc = [p \in Run \cup Initer |-> "idle"]
  /\ pos = [r \in Run |-> [seq |-> 0, prev |-> NoRun]]
  /\ overlapped = FALSE /\ split = FALSE /\ edits = 0 /\ hurt = FALSE

Goto(p, l) == pc' = [pc EXCEPT ![p] = l]

Last == ledger[Len(ledger)]

Entry(r) == [kind |-> "entry", run |-> r, seq |-> pos[r].seq, prev |-> pos[r].prev]

(* Bytes that start on a torn line spoil it. *)
Glued(l) == IF torn THEN [ledger EXCEPT ![Len(ledger)] = Junk] ELSE Append(ledger, l)

Linked(ls, i) == ls[i].seq = i /\ ls[i].prev = IF i = 1 THEN NoRun ELSE ls[i - 1].run

(* What _next_ledger_position accepts: JSON objects, numbered and chained.   *)
(* It recomputes no hash and does not ask for the last newline.              *)
WellFormed(ls) == \A i \in 1..Len(ls) : ls[i].kind \in {"entry", "altered"} /\ Linked(ls, i)

(* Mutant: the walk opens none of the files its lines name. *)
Verifies_NoFiles ==
  /\ ledger # <<>>
  /\ \A i \in 1..Len(ledger) : ledger[i].kind = "entry" /\ Linked(ledger, i)

(* The full-chain walk: every line is what it was when it was hashed, linked *)
(* to its neighbour and backed by a manifest and an evidence that hash to    *)
(* what it says and a run.json that does not contradict it.                  *)
Verifies ==
  /\ ledger # <<>>
  /\ \A i \in 1..Len(ledger) :
       /\ ledger[i].kind = "entry" /\ Linked(ledger, i)
       /\ \A a \in Artifact : \/ art[ledger[i].run][a] = "whole"
                              \/ a = "run" /\ art[ledger[i].run][a] = "reworded"

-----------------------------------------------------------------------------
(* save_run.  Names with an underscore are mutants: the same number twice, a *)
(* ledger written before the evidence or kept sorted, an unconditional init. *)

(* require_initialized and _next_ledger_position; a malformed ledger refuses.*)
Position_SameSeq(r) ==
  /\ pc[r] = "idle" /\ made = {"runs", "config", "ledger"}
  /\ IF WellFormed(ledger)
       THEN /\ Goto(r, "run")
            /\ pos' = [pos EXCEPT ![r] = IF ledger = <<>> THEN [seq |-> 1, prev |-> NoRun]
                                         ELSE [seq |-> Len(ledger), prev |-> Last.run]]
            /\ overlapped' = (overlapped \/ \E q \in Run \ {r} : pc[q] \in Saving)
       ELSE Goto(r, "failed") /\ UNCHANGED <<pos, overlapped>>
  /\ UNCHANGED <<made, ledger, torn, art, split, edits, hurt>>

Position(r) ==
  /\ pc[r] = "idle"
  /\ made = {"runs", "config", "ledger"}
  /\ IF WellFormed(ledger)
       THEN /\ Goto(r, "run")
            /\ pos' = [pos EXCEPT ![r] = IF ledger = <<>> THEN [seq |-> 1, prev |-> NoRun]
                                         ELSE [seq |-> Len(ledger) + 1, prev |-> Last.run]]
            /\ overlapped' = (overlapped \/ \E q \in Run \ {r} : pc[q] \in Saving)
       ELSE Goto(r, "failed") /\ UNCHANGED <<pos, overlapped>>
  /\ UNCHANGED <<made, ledger, torn, art, split, edits, hurt>>

(* run.json, then manifest.json, then evidence.json, each written in place.  *)
After_LedgerEarly(a) ==
  CASE a = "run" -> "manifest" [] a = "manifest" -> "ledger" [] a = "evidence" -> "saved"

After(a) == CASE a = "run" -> "manifest" [] a = "manifest" -> "evidence" [] a = "evidence" -> "ledger"

WriteArtifact(r, a) ==
  /\ pc[r] = a
  /\ \/ Goto(r, After(a)) /\ art' = [art EXCEPT ![r][a] = "whole"]
     \/ Goto(r, "failed") /\ art' = [art EXCEPT ![r][a] = "part"]
  /\ UNCHANGED <<made, ledger, torn, pos, history>>

AppendLine_Sorts(r) ==
  /\ pc[r] = "ledger"
  /\ LET n == Cardinality({i \in 1..Len(ledger) : ledger[i].seq < pos[r].seq})
     IN ledger' = SubSeq(ledger, 1, n) \o <<Entry(r)>> \o SubSeq(ledger, n + 1, Len(ledger))
  /\ torn' = FALSE /\ Goto(r, "saved")
  /\ UNCHANGED <<made, art, pos, history>>

(* The whole line is appended at once and save_run returns. *)
AppendLine(r) ==
  /\ pc[r] = "ledger"
  /\ ledger' = Glued(Entry(r)) /\ torn' = FALSE
  /\ Goto(r, "saved")
  /\ UNCHANGED <<made, art, pos, history>>

(* Or it takes two writes: some bytes first, or all but the newline. *)
AppendPart(r) ==
  /\ pc[r] = "ledger"
  /\ \/ ledger' = Glued([Entry(r) EXCEPT !.kind = "part"]) /\ Goto(r, "rest")
     \/ ledger' = Glued(Entry(r)) /\ Goto(r, "newline")
  /\ torn' = TRUE /\ split' = TRUE
  /\ UNCHANGED <<made, art, pos, overlapped, edits, hurt>>

AppendRest(r) ==
  /\ pc[r] = "rest"
  /\ ledger' = IF torn /\ Last.kind = "part" /\ Last.run = r
                 THEN [ledger EXCEPT ![Len(ledger)] = Entry(r)]
                 ELSE Glued(Junk)
  /\ torn' = FALSE
  /\ Goto(r, "saved")
  /\ UNCHANGED <<made, art, pos, history>>

AppendNewline(r) ==
  /\ pc[r] = "newline"
  /\ torn' = FALSE
  /\ Goto(r, "saved")
  /\ UNCHANGED <<made, ledger, art, pos, history>>

(* An exception or a kill: the files stay as they are. *)
Fails(r) ==
  /\ pc[r] \in Saving
  /\ Goto(r, "failed")
  /\ UNCHANGED <<made, ledger, torn, art, pos, history>>

-----------------------------------------------------------------------------
(* ensure_initialized: directories, then the config file if it is missing,   *)
(* then an empty ledger if it is missing.                                    *)
MakeDirs(p) ==
  /\ pc[p] = "idle"
  /\ made' = made \cup {"runs"}
  /\ Goto(p, "config")
  /\ UNCHANGED <<ledger, torn, art, pos, history>>

LookForConfig(p) ==
  /\ pc[p] = "config"
  /\ Goto(p, IF "config" \in made THEN "look" ELSE "write config")
  /\ UNCHANGED <<made, ledger, torn, art, pos, history>>

WriteConfig(p) ==
  /\ pc[p] = "write config"
  /\ made' = made \cup {"config"}
  /\ Goto(p, "look")
  /\ UNCHANGED <<ledger, torn, art, pos, history>>

LookForLedger_Always(p) ==
  /\ pc[p] = "look" /\ Goto(p, "create")
  /\ UNCHANGED <<made, ledger, torn, art, pos, history>>

LookForLedger(p) ==
  /\ pc[p] = "look"
  /\ Goto(p, IF "ledger" \in made THEN "idle" ELSE "create")
  /\ UNCHANGED <<made, ledger, torn, art, pos, history>>

(* write_text("") truncates whatever is there by now. *)
CreateLedger(p) ==
  /\ pc[p] = "create"
  /\ made' = made \cup {"ledger"}
  /\ ledger' = <<>> /\ torn' = FALSE
  /\ Goto(p, "idle")
  /\ UNCHANGED <<art, pos, history>>

(* "aeg init" is killed or fails; it may be run again. *)
InitFails(p) ==
  /\ pc[p] \notin {"idle"}
  /\ Goto(p, "idle")
  /\ UNCHANGED <<made, ledger, torn, art, pos, history>>

-----------------------------------------------------------------------------
(* Outsiders alter or delete a line, or change a file of a listed run.       *)
EditLine(i) ==
  \/ /\ ledger[i].kind = "entry"
     /\ ledger' = [ledger EXCEPT ![i].kind = "altered"]
     /\ hurt' = (hurt \/ Verifies)
     /\ UNCHANGED <<torn, art>>
  \/ /\ ledger' = SubSeq(ledger, 1, i - 1) \o SubSeq(ledger, i + 1, Len(ledger))
     /\ torn' = (torn /\ i # Len(ledger))
     /\ hurt' = (hurt \/ (Verifies /\ i # Len(ledger)))
     /\ UNCHANGED art

EditArtifact(r, a) ==
  /\ \E i \in 1..Len(ledger) : ledger[i].kind = "entry" /\ ledger[i].run = r
  /\ \/ art' = [art EXCEPT ![r][a] = "changed"] /\ hurt' = (hurt \/ Verifies)
     \/ /\ a = "run" /\ art[r][a] = "whole"
        /\ art' = [art EXCEPT ![r][a] = "reworded"] /\ UNCHANGED hurt
  /\ UNCHANGED <<ledger, torn>>

Edit ==
  /\ edits < MaxEdits /\ edits' = edits + 1
  /\ \/ \E i \in 1..Len(ledger) : EditLine(i)
     \/ \E r \in Run, a \in Artifact : EditArtifact(r, a)
  /\ UNCHANGED <<made, pc, pos, overlapped, split>>

Save(r) ==
  \/ Position(r) \/ \E a \in Artifact : WriteArtifact(r, a)
  \/ AppendLine(r) \/ AppendPart(r) \/ AppendRest(r) \/ AppendNewline(r)
  \/ Fails(r)

EnsureInitialized(p) ==
  \/ MakeDirs(p) \/ LookForConfig(p) \/ WriteConfig(p)
  \/ LookForLedger(p) \/ CreateLedger(p) \/ InitFails(p)

Next ==
  \/ \E r \in Run : Save(r)
  \/ \E p \in Initer : EnsureInitialized(p)
  \/ Edit

Spec == Init /\ [][Next]_vars

-----------------------------------------------------------------------------
(* Properties. *)

(* A reader that finds a run's line finds its three files complete, however  *)
(* saves race, fail or are killed: the line is written last.                 *)
ListedIsComplete ==
  \A i \in 1..Len(ledger) : ledger[i].kind = "entry" =>
    \A a \in Artifact : art[ledger[i].run][a] \in Complete

(* What holds at any moment: the types, and that a listed run is complete.   *)
StoreInv == TypeOK /\ ListedIsComplete

(* Runs one after the other, failing or killed anywhere but inside the       *)
(* append, leave a ledger that "aeg verify" accepts.                         *)
SerialVerifies ==
  ~overlapped /\ ~split /\ edits = 0 /\ ledger # <<>> => Verifies

(* "The hash chain detects alteration and deletion of records in the middle":*)
(* after such an edit, or one of a manifest, of an evidence or of the three  *)
(* fields of run.json a line repeats, "aeg verify" fails, whatever is saved  *)
(* later.  (The rest of run.json may be edited unseen; and a second edit can *)
(* cut off everything from the damage on: nothing says how long the ledger   *)
(* was.)                                                                     *)
TamperEvident == hurt /\ edits <= 1 => ~Verifies

(* A run whose save returned stays listed while "aeg init" runs again or is  *)
(* interrupted, if appends reach the file whole.                             *)
SavedIsListed ==
  ~split /\ edits = 0 =>
    \A r \in Run : pc[r] = "saved" =>
      \E i \in 1..Len(ledger) : ledger[i].kind = "entry" /\ ledger[i].run = r

(* Saves that race may take the same number, yet the file only ever grows by *)
(* whole lines of new runs, if appends reach it whole.                       *)
Log == INSTANCE HookLog WITH Id <- Run, log <- [i \in 1..Len(ledger) |-> ledger[i].run],
                            untouched <- ~split /\ edits = 0

ImplementsLog == Log!Spec
=============================================================================
