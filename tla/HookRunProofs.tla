--------------------------- MODULE HookRunProofs ----------------------------
(***************************************************************************)
(* Proofs about HookRun: whatever values a judgement may return, a hook    *)
(* process whose output arrives fails closed and records what it answers.  *)
(***************************************************************************)
EXTENDS HookRun, TLAPS

(* The four known decisions have an answer in both hosts' terms. *)
LEMMA MappingType ==
  ASSUME NEW d \in Known, substrate \in {"claude-code", "codex"}
  PROVE  /\ MappingFor(d)[1] \in Permission
         /\ MappingFor(d)[2] \in {0, 2}
BY DEF Known, MappingFor, Mapped, Permission

(* Every judgement, known or not, and every failure has a well-typed result. *)
LEMMA ResultType ==
  ASSUME NEW d \in Decision, substrate \in {"claude-code", "codex"}
  PROVE  /\ ResultFor(d) \in HookRunResult
         /\ ResultFor(d).permission \in Permission
         /\ "fail closed" \in ResultFor(d).notes => ResultFor(d).permission = "deny"
BY MappingType DEF ResultFor, DenyResult, ExitFor, Permission, Note, HookRunResult

(* A denial is a result for either host. *)
LEMMA DenyType ==
  ASSUME substrate \in {"claude-code", "codex"}
  PROVE  DenyResult \in HookRunResult
BY DEF DenyResult, ExitFor, Permission, Note, HookRunResult

(* A step that changes neither the judgement nor what is answered keeps the  *)
(* two in agreement.                                                         *)
LEMMA AnsweredKept ==
  ASSUME substrate' = substrate, judged' = judged,
         answer'.permission = answer.permission, answer'.exit = answer.exit
  PROVE  (Answered <=> Answered') /\ ExitFor(2)' = ExitFor(2)
<1>1. DenyResult' = DenyResult /\ ResultFor(judged)' = ResultFor(judged)
  BY DEF DenyResult, ResultFor, ExitFor, MappingFor
<1> QED
  BY <1>1 DEF Answered, ExitFor

(* The permission of a result is one of the three. *)
LEMMA AnsweredType ==
  ASSUME TypeOK, Answered
  PROVE  answer.permission \in Permission
<1>1. CASE judged = None
  BY <1>1 DEF Answered, DenyResult, Permission
<1>2. CASE judged # None
  BY <1>2, ResultType DEF Answered, TypeOK
<1> QED
  BY <1>1, <1>2

(* The invariant holds at the start and is kept by every step. *)
LEMMA RunInvInit == Init => RunInv
BY DecisionAssumption
   DEF Init, RunInv, TypeOK, Early, Entered, Shown, Kept, Ended, Clean, NoAnswer, Note,
       HookRunResult, Location, ExitCode, Disturbance

(* Every step of the hook process keeps the invariant. *)
LEMMA RunInvNext == RunInv /\ [Next]_vars => RunInv'
<1> SUFFICES ASSUME RunInv, [Next]_vars PROVE RunInv'
  OBVIOUS
<1>1. CASE Load
  <2>1. TypeOK'
    BY <1>1 DEF Load, RunInv, TypeOK, Location
  <2> QED
    BY <1>1, <2>1 DEF Load, RunInv, Early, Entered, Shown, Kept, Ended, Clean, Recorded
<1>2. CASE ParseArguments
  <2>1. TypeOK'
    <3>1. pc' \in {"root", "entry deny", "exit"}
      BY <1>2 DEF ParseArguments, Goto
    <3>2. code' \in ExitCode
      <4>1. code' = code \/ code' = 2
        BY <1>2 DEF ParseArguments
      <4>2. code \in ExitCode
        BY DEF RunInv, TypeOK
      <4> QED
        BY <4>1, <4>2 DEF ExitCode
    <3> QED
      BY <1>2, <3>1, <3>2 DEF ParseArguments, RunInv, TypeOK, Location
  <2> QED
    BY <1>2, <2>1
       DEF ParseArguments, Goto, RunInv, Early, Entered, Shown, Kept, Ended, Clean, Recorded
<1>3. CASE ResolveRoot
  <2>1. TypeOK'
    BY <1>3 DEF ResolveRoot, RunInv, TypeOK, Location
  <2> QED
    BY <1>3, <2>1 DEF ResolveRoot, RunInv, Early, Entered, Shown, Kept, Ended, Clean, Recorded
<1>4. CASE ReadStdin
  <2>1. TypeOK'
    BY <1>4 DEF ReadStdin, Goto, RunInv, TypeOK, Location
  <2> QED
    BY <1>4, <2>1 DEF ReadStdin, Goto, RunInv, Early, Entered, Shown, Kept, Ended, Clean, Recorded
<1>5. CASE Render
  <2>1. TypeOK'
    <3>1. answer' \in HookRunResult /\ judged' \in Decision \cup {None}
      BY <1>5, ResultType, DenyType DEF Render, RunInv, TypeOK
    <3>2. "fail closed" \in answer'.notes => answer'.permission = "deny"
      <4>1. CASE answer' = DenyResult
        BY <4>1 DEF DenyResult
      <4>2. CASE answer' # DenyResult
        BY <1>5, <4>2, ResultType DEF Render, RunInv, TypeOK
      <4> QED
        BY <4>1, <4>2
    <3> QED
      BY <1>5, <3>1, <3>2 DEF Render, Goto, RunInv, TypeOK, Location
  <2>2. Answered'
    BY <1>5, DecisionAssumption
       DEF Render, Answered, DenyResult, ResultFor, ExitFor, MappingFor
  <2> QED
    BY <1>5, <2>1, <2>2 DEF Render, Goto, RunInv, Early, Entered, Shown, Kept, Ended, Clean
<1>6. CASE Record
  <2>1. /\ answer'.permission = answer.permission /\ answer'.exit = answer.exit
        /\ answer' \in HookRunResult
        /\ "fail closed" \in answer'.notes <=> "fail closed" \in answer.notes
    <3>1. CASE answer' = answer
      BY <3>1 DEF RunInv, TypeOK
    <3>2. CASE answer' = WithRecordingFailure(answer)
      BY <3>2 DEF WithRecordingFailure, RunInv, TypeOK, HookRunResult, Note
    <3> QED
      BY <1>6, <3>1, <3>2 DEF Record
  <2>2. Answered /\ Answered'
    BY <1>6, <2>1, AnsweredKept DEF Record, RunInv, Entered
  <2>3. Recorded \in LedgerRecord /\ Recorded' = Recorded
    <3>1. answer.permission \in Permission
      BY <2>2, AnsweredType DEF RunInv
    <3> QED
      BY <2>1, <3>1 DEF Recorded, LedgerRecord, RunInv, TypeOK, HookRunResult
  <2>4. record' \in {None, Recorded} /\ (record' # None \/ "recording failed" \in answer'.notes)
    <3>1. CASE record' = Recorded /\ UNCHANGED answer
      BY <3>1, <2>3, NoneAssumption
    <3>2. CASE record' \in {None, Recorded} /\ answer' = WithRecordingFailure(answer)
      <4>1. answer \in HookRunResult
        BY DEF RunInv, TypeOK
      <4>2. "recording failed" \in answer'.notes
        BY <3>2, <4>1 DEF WithRecordingFailure, HookRunResult
      <4>3. CASE record' = None
        BY <4>2, <4>3
      <4>4. CASE record' = Recorded
        BY <4>2, <4>4
      <4> QED
        BY <3>2, <4>3, <4>4
    <3> QED
      BY <1>6, <3>1, <3>2 DEF Record
  <2>5. TypeOK'
    BY <1>6, <2>1, <2>3, <2>4 DEF Record, Goto, RunInv, TypeOK, Location
  <2> QED
    BY <1>6, <2>2, <2>3, <2>4, <2>5
       DEF Record, Goto, RunInv, Early, Entered, Shown, Kept, Ended, Clean
<1>7. CASE WriteStdout
  <2>1. Answered /\ Answered'
    BY <1>7, AnsweredKept DEF WriteStdout, RunInv, Entered
  <2>2. answer.permission \in Permission
    BY <2>1, AnsweredType DEF RunInv
  <2>3. pc' \in Location /\ code' \in ExitCode
    <3>1. pc' \in Location
      BY <1>7 DEF WriteStdout, Goto, Location
    <3>2. UNCHANGED code \/ code' = 2
      BY <1>7 DEF WriteStdout
    <3>3. code \in ExitCode /\ 2 \in ExitCode
      BY DEF RunInv, TypeOK, ExitCode
    <3>4. code' \in ExitCode
      BY <3>2, <3>3
    <3> QED
      BY <3>1, <3>4
  <2>4. TypeOK'
    BY <1>7, <2>2, <2>3 DEF WriteStdout, RunInv, TypeOK
  <2>5. (Early /\ Entered /\ Shown /\ Kept /\ Clean)'
    BY <1>7, <2>1 DEF WriteStdout, Goto, RunInv, Early, Entered, Shown, Kept, Clean, Recorded
  <2>6. Ended'
    BY <1>7, <2>1 DEF WriteStdout, Goto, RunInv, Shown, Kept, Ended
  <2> QED
    BY <2>4, <2>5, <2>6 DEF RunInv
<1>8. CASE Explain
  <2>1. Answered /\ Answered'
    BY <1>8, AnsweredKept DEF Explain, RunInv, Entered
  <2>2. pc' \in Location /\ code' \in ExitCode
    BY <1>8 DEF Explain, Goto, RunInv, TypeOK, Location, ExitCode, HookRunResult
  <2>3. TypeOK'
    BY <1>8, <2>2 DEF Explain, RunInv, TypeOK
  <2>4. (Early /\ Entered /\ Shown /\ Kept /\ Clean)'
    BY <1>8, <2>1 DEF Explain, Goto, RunInv, Early, Entered, Shown, Kept, Clean, Recorded
  <2>5. Ended'
    BY <1>8, <2>1 DEF Explain, Goto, RunInv, Shown, Kept, Ended
  <2> QED
    BY <2>3, <2>4, <2>5 DEF RunInv
<1>9. CASE EntryDeny
  <2>1. pc' \in Location /\ code' \in ExitCode /\ stdout' \in Permission \cup {None}
    BY <1>9 DEF EntryDeny, Goto, ExitFor, Permission, Location, ExitCode
  <2>2. TypeOK'
    BY <1>9, <2>1 DEF EntryDeny, RunInv, TypeOK
  <2> QED
    BY <1>9, <2>2
       DEF EntryDeny, Goto, RunInv, Early, Entered, Shown, Kept, Ended, Clean, Recorded, ExitFor
<1>10. CASE Finalize
  <2>1. /\ pc' \in Location /\ code' \in ExitCode /\ disturbed' \in Disturbance
        /\ stdout' \in Permission \cup {None}
    <3>1. CASE UNCHANGED <<stdout, code, disturbed>>
      BY <1>10, <3>1 DEF Finalize, Goto, RunInv, TypeOK, Location
    <3>2. CASE stdout' = None /\ code' = 120 /\ disturbed' = "flush"
      BY <1>10, <3>2 DEF Finalize, Goto, Location, ExitCode, Disturbance
    <3> QED
      BY <1>10, <3>1, <3>2 DEF Finalize
  <2>2. TypeOK'
    BY <1>10, <2>1 DEF Finalize, RunInv, TypeOK
  <2>3. (Answered <=> Answered') /\ ExitFor(2)' = ExitFor(2)
    BY <1>10, AnsweredKept DEF Finalize
  <2> QED
    BY <1>10, <2>2, <2>3
       DEF Finalize, Goto, RunInv, Early, Entered, Shown, Kept, Ended, Clean, Recorded
<1>11. CASE Kill
  <2>1. /\ pc' \in Location /\ code' \in ExitCode /\ disturbed' \in Disturbance
        /\ stdout' \in Permission \cup {None}
    BY <1>11 DEF Kill, Goto, Location, ExitCode, Disturbance
  <2>2. TypeOK'
    BY <1>11, <2>1 DEF Kill, RunInv, TypeOK
  <2> QED
    BY <1>11, <2>2 DEF Kill, Goto, RunInv, Early, Entered, Shown, Kept, Ended, Clean, Recorded
<1>12. CASE UNCHANGED vars
  <2>1. (Answered <=> Answered') /\ ExitFor(2)' = ExitFor(2)
    BY <1>12, AnsweredKept DEF vars
  <2>2. TypeOK'
    BY <1>12 DEF vars, RunInv, TypeOK
  <2> QED
    BY <1>12, <2>1, <2>2 DEF vars, RunInv, Early, Entered, Shown, Kept, Ended, Clean, Recorded
<1> QED
  BY <1>1, <1>2, <1>3, <1>4, <1>5, <1>6, <1>7, <1>8, <1>9, <1>10, <1>11, <1>12 DEF Next

(* The invariant holds in every reachable state. *)
THEOREM RunInvariant == Spec => []RunInv
BY RunInvInit, RunInvNext, PTL DEF Spec

(* A process that is over, that nobody killed and whose output arrived, has  *)
(* blocked the call unless it was judged otherwise.                          *)
LEMMA FailClosedFollows == RunInv => FailClosed
<1> SUFFICES ASSUME RunInv, pc = "over", disturbed = "no"
             PROVE  /\ Verdict \in {"runs", "asks the user", "blocked"}
                    /\ Verdict = "runs" => judged = "allow"
                    /\ Verdict = "asks the user" =>
                         judged \in {"ask", "defer"} /\ substrate = "claude-code"
  BY DEF FailClosed
<1>1. CASE code = 2 \/ (code = 0 /\ stdout = "deny")
  BY <1>1 DEF Verdict
<1>2. CASE stdout = "deny" /\ code = ExitFor(2)
  BY <1>1, <1>2 DEF ExitFor
<1>3. CASE Answered /\ stdout = answer.permission /\ code = answer.exit
  <2>1. CASE judged = None \/ judged \notin Known
    BY <1>2, <1>3, <2>1 DEF Answered, DenyResult, ResultFor
  <2>2. CASE judged # None /\ judged \in Known
    <3>1. stdout = MappingFor(judged)[1] /\ code = ExitFor(MappingFor(judged)[2])
      BY <1>3, <2>2 DEF Answered, ResultFor
    <3>2. CASE MappingFor(judged) = <<"deny", 2>>
      <4>1. stdout = "deny" /\ code = ExitFor(2)
        BY <3>1, <3>2
      <4> QED
        BY <1>2, <4>1
    <3>3. CASE judged = "allow" /\ MappingFor(judged) = <<"allow", 0>>
      BY <3>1, <3>3 DEF Verdict, ExitFor
    <3>4. CASE /\ judged \in {"ask", "defer"} /\ substrate = "claude-code"
               /\ MappingFor(judged) = <<"ask", 0>>
      BY <3>1, <3>4 DEF Verdict, ExitFor
    <3>5. substrate \in {"claude-code", "codex"}
      BY DEF RunInv, TypeOK
    <3>6. \/ MappingFor(judged) = <<"deny", 2>>
          \/ judged = "allow" /\ MappingFor(judged) = <<"allow", 0>>
          \/ /\ judged \in {"ask", "defer"} /\ substrate = "claude-code"
             /\ MappingFor(judged) = <<"ask", 0>>
      BY <2>2, <3>5 DEF MappingFor, Mapped, Known
    <3> QED
      BY <3>2, <3>3, <3>4, <3>6
  <2> QED
    BY <2>1, <2>2
<1> QED
  BY <1>1, <1>2, <1>3 DEF RunInv, Ended

(* Every failure on the way blocks: the host runs a call without asking only *)
(* when the judgement was "allow", whatever values judgements take.          *)
THEOREM FailClosedHolds == Spec => []FailClosed
BY RunInvariant, FailClosedFollows, PTL

(* What the recorder does never changes what the host sees. *)
THEOREM RecordingIsNeutralHolds == Spec => []RecordingIsNeutral
<1>1. RunInv => RecordingIsNeutral
  BY DecisionAssumption DEF RunInv, Ended, Answered, ResultFor, RecordingIsNeutral, NoAnswer
<1> QED
  BY <1>1, RunInvariant, PTL

(* An answer that reports no recording failure is in the ledger, and the     *)
(* ledger never shows another permission than the host was given.            *)
THEOREM AnswerIsRecordedHolds == Spec => []AnswerIsRecorded
<1>1. RunInv => AnswerIsRecorded
  <2> SUFFICES ASSUME RunInv, pc = "over", disturbed = "no", stdout # None, answer # NoAnswer
               PROVE  /\ "recording failed" \in answer.notes \/ record # None
                      /\ record # None => record.permission = stdout
    BY DEF AnswerIsRecorded
  <2>1. stdout = answer.permission /\ ("recording failed" \in answer.notes \/ record # None)
    BY DEF RunInv, Ended
  <2>2. record # None => record.permission = answer.permission
    BY DEF RunInv, Kept, Recorded
  <2> QED
    BY <2>1, <2>2
<1> QED
  BY <1>1, RunInvariant, PTL
=============================================================================
