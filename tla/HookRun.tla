------------------------------ MODULE HookRun -------------------------------
(***************************************************************************)
(* One "aeg hook-run": jangseung/cli/entry.py and jangseung/cli/hook_run.py*)
(* from the process start to its exit code, and what the host makes of it. *)
(* Anything that can raise may raise.  The judgement itself is a choice;   *)
(* what the ledger does is HookLedger's business: an append returns after  *)
(* its fsync, or raises with or without the record in the file.            *)
(***************************************************************************)
EXTENDS Naturals

CONSTANTS Decision,   \* what the judgement may return, the four known values included
          None        \* nothing: no decision, no record, no output

Known == {"allow", "ask", "deny", "defer"}

ASSUME DecisionAssumption == Known \subseteq Decision /\ None \notin Decision

VARIABLES pc,          \* where the process is
          substrate,   \* the host it was installed for
          text,        \* what came of reading standard input
          judged,      \* hook_decision
          answer,      \* the HookRunResult
          record,      \* the permission and exit code in the hook ledger
          stdout,      \* the permission on standard output
          code,        \* the exit code
          disturbed    \* what hit the process from outside its own error handling

vars == <<pc, substrate, text, judged, answer, record, stdout, code, disturbed>>

Permission == {"allow", "ask", "deny"}

(* What a result says of itself: its fail_closed field and the reason code   *)
(* hook_decision_recording_failed.                                           *)
Note == {"fail closed", "recording failed"}

HookRunResult == [permission: Permission \cup {None}, exit: {0, 2}, notes: SUBSET Note]

LedgerRecord == [permission: Permission, exit: {0, 2}]

ASSUME NoneAssumption == None \notin LedgerRecord

NoAnswer == [permission |-> None, exit |-> 0, notes |-> {}]

Location == {"load", "arguments", "root", "stdin", "render", "record", "write",
             "explain", "entry deny", "exit", "over"}

ExitCode == {0, 2, 120, 255}    \* 120: lost output; 255 stands for death by a signal

Disturbance == {"no", "flush", "killed"}

TypeOK ==
  /\ pc \in Location
  /\ substrate \in {"claude-code", "codex"}
  /\ text \in {"none", "read", "unreadable"}
  /\ judged \in Decision \cup {None}
  /\ answer \in HookRunResult
  /\ record \in LedgerRecord \cup {None}
  /\ stdout \in Permission \cup {None}
  /\ code \in ExitCode
  /\ disturbed \in Disturbance
  /\ "fail closed" \in answer.notes => answer.permission = "deny"

Init ==
  /\ pc = "load"
  /\ substrate \in {"claude-code", "codex"}
  /\ text = "none"
  /\ judged = None
  /\ answer = NoAnswer
  /\ record = None
  /\ stdout = None
  /\ code = 0
  /\ disturbed = "no"

-----------------------------------------------------------------------------
(* Codex reads the decision from the JSON of a process that exits 0. *)
ExitFor(mapped) == IF substrate = "codex" THEN 0 ELSE mapped

Mapped == [allow |-> <<"allow", 0>>, ask |-> <<"ask", 0>>,
           deny |-> <<"deny", 2>>, defer |-> <<"ask", 0>>]

(* Codex does not enforce "ask", so ask and defer become deny there. *)
MappingFor(d) ==
  IF substrate = "codex" /\ d \in {"ask", "defer"} THEN <<"deny", 2>> ELSE Mapped[d]

DenyResult == [permission |-> "deny", exit |-> ExitFor(2), notes |-> {"fail closed"}]

(* An unmapped decision and an exception are denied, never passed on.        *)
(* (Names with an underscore are mutants: the code with a plausible mistake.)*)
ResultFor_Lenient(d) ==
  IF d \in Known THEN [permission |-> MappingFor(d)[1], exit |-> ExitFor(MappingFor(d)[2]),
                       notes |-> {}]
  ELSE [permission |-> "ask", exit |-> 0, notes |-> {}]

ResultFor(d) ==
  IF d \in Known THEN [permission |-> MappingFor(d)[1], exit |-> ExitFor(MappingFor(d)[2]),
                       notes |-> {}]
  ELSE DenyResult

(* The recorder failed: the judgement stands, the reasons say so.            *)
WithRecordingFailure_Denies(a) == [DenyResult EXCEPT !.notes = @ \cup {"recording failed"}]

WithRecordingFailure_Silent(a) == a

WithRecordingFailure(a) == [a EXCEPT !.notes = @ \cup {"recording failed"}]

-----------------------------------------------------------------------------
Goto(l) == pc' = l

(* _load_hook_main imports the hook path; the entry point denies if it cannot. *)
Load ==
  /\ pc = "load"
  /\ pc' \in {"arguments", "entry deny"}
  /\ UNCHANGED <<substrate, text, judged, answer, record, stdout, code, disturbed>>

(* argparse refuses unknown arguments by exiting with 2, if it can say so. *)
ParseArguments ==
  /\ pc = "arguments"
  /\ \/ pc' \in {"root", "entry deny"} /\ UNCHANGED code
     \/ Goto("exit") /\ code' = 2
  /\ UNCHANGED <<substrate, text, judged, answer, record, stdout, disturbed>>

(* The working directory may be gone. *)
ResolveRoot ==
  /\ pc = "root"
  /\ pc' \in {"stdin", "entry deny"}
  /\ UNCHANGED <<substrate, text, judged, answer, record, stdout, code, disturbed>>

(* Unreadable, oversized or undecodable input becomes the empty text. *)
ReadStdin ==
  /\ pc = "stdin"
  /\ text' \in {"read", "unreadable"}
  /\ Goto("render")
  /\ UNCHANGED <<substrate, judged, answer, record, stdout, code, disturbed>>

(* render_hook_response: no JSON, no object, invalid input and exceptions    *)
(* are denied before or instead of a judgement; a judgement is mapped.       *)
Render ==
  /\ pc = "render"
  /\ \/ judged' = None /\ answer' = DenyResult
     \/ \E d \in Decision : text = "read" /\ judged' = d /\ answer' = ResultFor(d)
  /\ Goto("record")
  /\ UNCHANGED <<substrate, text, record, stdout, code, disturbed>>

Recorded == [permission |-> answer.permission, exit |-> answer.exit]

(* append_hook_decision_record. *)
Record ==
  /\ pc = "record"
  /\ \/ record' = Recorded /\ UNCHANGED answer
     \/ record' \in {None, Recorded} /\ answer' = WithRecordingFailure(answer)
  /\ Goto("write")
  /\ UNCHANGED <<substrate, text, judged, stdout, code, disturbed>>

(* stdout.write fills the stream's buffer; if it raises, the process blocks  *)
(* by its exit code alone.                                                   *)
WriteStdout ==
  /\ pc = "write"
  /\ \/ stdout' = answer.permission /\ Goto("explain") /\ UNCHANGED code
     \/ Goto("exit") /\ code' = 2 /\ UNCHANGED stdout
  /\ UNCHANGED <<substrate, text, judged, answer, record, disturbed>>

(* The reason goes to stderr when the call is blocked; failures are ignored. *)
Explain ==
  /\ pc = "explain"
  /\ code' = answer.exit
  /\ Goto("exit")
  /\ UNCHANGED <<substrate, text, judged, answer, record, stdout, disturbed>>

(* entry.py's own deny; without a stream to print to, exit 2. *)
EntryDeny ==
  /\ pc = "entry deny"
  /\ \/ stdout' = "deny" /\ code' = ExitFor(2)
     \/ stdout' \in {"deny", None} /\ code' = 2
  /\ Goto("exit")
  /\ UNCHANGED <<substrate, text, judged, answer, record, disturbed>>

(* The interpreter ends and flushes its streams; if the flush fails, the     *)
(* output is lost and CPython replaces the exit code by 120.                 *)
Finalize ==
  /\ pc = "exit"
  /\ Goto("over")
  /\ \/ UNCHANGED <<stdout, code, disturbed>>
     \/ /\ stdout # None
        /\ stdout' = None /\ code' = 120 /\ disturbed' = "flush"
  /\ UNCHANGED <<substrate, text, judged, answer, record>>

(* The host's timeout or a user kills the process. *)
Kill ==
  /\ pc # "over"
  /\ Goto("over")
  /\ stdout' = None /\ code' = 255 /\ disturbed' = "killed"
  /\ UNCHANGED <<substrate, text, judged, answer, record>>

Next ==
  \/ Load \/ ParseArguments \/ ResolveRoot \/ ReadStdin \/ Render \/ Record
  \/ WriteStdout \/ Explain \/ EntryDeny \/ Finalize \/ Kill

Spec == Init /\ [][Next]_vars

(* What the host does: exit 2 blocks; exit 0 follows the JSON; any other     *)
(* exit code is a non-blocking error, and so is an ask that Codex gets.      *)
Verdict ==
  CASE code = 2 \/ (code = 0 /\ stdout = "deny") -> "blocked"
    [] code = 0 /\ stdout = "allow" -> "runs"
    [] code = 0 /\ stdout = "ask" /\ substrate = "claude-code" -> "asks the user"
    [] OTHER -> "unguarded"

-----------------------------------------------------------------------------
(* The inductive invariant: what the process has done at each point.         *)

Early ==
  pc \in {"load", "arguments", "root", "stdin", "render", "entry deny"} =>
    judged = None /\ answer = NoAnswer /\ record = None /\ stdout = None

(* The result holds what its judgement, or the lack of one, maps to. *)
Answered ==
  LET r == IF judged = None THEN DenyResult ELSE ResultFor(judged) IN
    answer.permission = r.permission /\ answer.exit = r.exit

Entered == pc \in {"record", "write", "explain"} => Answered

Shown ==
  /\ pc \in {"record", "write"} => stdout = None
  /\ pc = "explain" => stdout = answer.permission

Kept ==
  /\ record # None => record = Recorded
  /\ pc \in {"write", "explain"} => "recording failed" \in answer.notes \/ record # None

Ended ==
  pc = "exit" \/ (pc = "over" /\ disturbed = "no") =>
    \/ /\ answer = NoAnswer /\ judged = None /\ record = None
       /\ \/ stdout \in {"deny", None} /\ code = 2
          \/ stdout = "deny" /\ code = ExitFor(2)
    \/ /\ Answered /\ ("recording failed" \in answer.notes \/ record # None)
       /\ \/ stdout = None /\ code = 2
          \/ stdout = answer.permission /\ code = answer.exit

Clean == pc # "over" => disturbed = "no"

RunInv == TypeOK /\ Early /\ Entered /\ Shown /\ Kept /\ Ended /\ Clean

-----------------------------------------------------------------------------
(* Properties. *)

(* The judgement reaches the host as it was made: of a process that nobody   *)
(* killed and whose output arrived, the host runs a call without asking only *)
(* if it was judged "allow", asks only on Claude Code and only for ask and   *)
(* defer, and blocks everything else, every failure on the way included.     *)
FailClosed ==
  pc = "over" /\ disturbed = "no" =>
    /\ Verdict \in {"runs", "asks the user", "blocked"}
    /\ Verdict = "runs" => judged = "allow"
    /\ Verdict = "asks the user" => judged \in {"ask", "defer"} /\ substrate = "claude-code"

(* "A recording failure never changes the permission or the exit code":      *)
(* whatever the recorder did, the host sees what the judgement maps to.      *)
RecordingIsNeutral ==
  pc = "over" /\ disturbed = "no" /\ judged \in Known /\ stdout # None =>
    stdout = MappingFor(judged)[1] /\ code = ExitFor(MappingFor(judged)[2])

(* An answer that does not say the recording failed is in the ledger, and    *)
(* the ledger never shows another permission than the host was given.        *)
AnswerIsRecorded ==
  pc = "over" /\ disturbed = "no" /\ stdout # None /\ answer # NoAnswer =>
    /\ "recording failed" \in answer.notes \/ record # None
    /\ record # None => record.permission = stdout

(* "With no response to read, only exit 2 can block": a process that nobody  *)
(* killed never ends in a way the host takes for a non-blocking error.       *)
LostOutputBlocks ==
  pc = "over" /\ disturbed # "killed" => Verdict # "unguarded"
=============================================================================
