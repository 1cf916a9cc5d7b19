--------------------------- MODULE RunPipelineProofs ---------------------------
(***************************************************************************)
(* Proofs about RunPipeline, for any files, roots and bounds: what the     *)
(* evidence of a run says, and that changing it shows.                     *)
(***************************************************************************)
EXTENDS RunPipeline, Integers, TLAPS

-----------------------------------------------------------------------------
(* The difference of two snapshots. *)

LEMMA DeltaEmpty ==
  ASSUME NEW before, NEW after
  PROVE  compute_mutation_delta(before, after) = {} <=> before = after
<1> DEFINE differing == (before \ after) \cup (after \ before)
           keys == {Key(e) : e \in differing}
           entries(k) == [before |-> {e \in before : Key(e) = k},
                          after |-> {e \in after : Key(e) = k}]
<1>1. differing = {} <=> before = after
  OBVIOUS
<1>2. keys = {} <=> differing = {}
  OBVIOUS
<1>3. compute_mutation_delta(before, after) = {entries(k) : k \in keys}
  BY DEF compute_mutation_delta
<1> HIDE DEF entries, keys
<1>4. {entries(k) : k \in keys} = {} <=> keys = {}
  OBVIOUS
<1> QED
  BY <1>1, <1>2, <1>3, <1>4

(* Of what appears, disappears or changes, the path is in the difference,    *)
(* and where it was renamed from.                                            *)
LEMMA DeltaPaths ==
  ASSUME NEW before \in SUBSET Entry, NEW after \in SUBSET Entry,
         NEW e \in (before \ after) \cup (after \ before)
  PROVE  {e.path, e.original_path} \ {None}
           \subseteq mutation_delta_paths(compute_mutation_delta(before, after))
<1> DEFINE d == [before |-> {f \in before : Key(f) = Key(e)},
                 after |-> {f \in after : Key(f) = Key(e)}]
<1>1. d \in compute_mutation_delta(before, after)
  BY DEF compute_mutation_delta
<1>2. e \in d.before \cup d.after
  OBVIOUS
<1> DEFINE delta == compute_mutation_delta(before, after)
           touched == UNION {x.before \cup x.after : x \in delta}
<1> HIDE DEF d, delta
<1>3. e \in touched
  BY <1>1, <1>2 DEF delta
<1> DEFINE named == UNION {{f.path, f.original_path} : f \in touched}
<1>4. mutation_delta_paths(delta) = named \ {None}
  BY DEF mutation_delta_paths
<1> HIDE DEF touched
<1>5. {e.path, e.original_path} \subseteq named
  BY <1>3
<1> HIDE DEF named
<1>6. {e.path, e.original_path} \ {None} \subseteq mutation_delta_paths(delta)
  BY <1>4, <1>5
<1> QED
  BY <1>6 DEF delta

(* It has no other paths than those of the files git lists. *)
LEMMA DeltaInPath ==
  ASSUME NEW before \in SUBSET Entry, NEW after \in SUBSET Entry
  PROVE  mutation_delta_paths(compute_mutation_delta(before, after)) \in SUBSET Path
<1> DEFINE delta == compute_mutation_delta(before, after)
           touched == UNION {x.before \cup x.after : x \in delta}
<1>1. \A x \in delta : x.before \cup x.after \subseteq Entry
  BY DEF compute_mutation_delta
<1> HIDE DEF delta
<1>2. touched \subseteq Entry
  BY <1>1
<1> DEFINE named == UNION {{f.path, f.original_path} : f \in touched}
<1>3. mutation_delta_paths(delta) = named \ {None}
  BY DEF mutation_delta_paths
<1> HIDE DEF touched
<1>4. \A f \in touched : {f.path, f.original_path} \subseteq Path \cup {None}
  BY <1>2 DEF Entry
<1>5. named \subseteq Path \cup {None}
  BY <1>4
<1> HIDE DEF named
<1>6. mutation_delta_paths(delta) \in SUBSET Path
  BY <1>3, <1>5
<1> QED
  BY <1>6 DEF delta

-----------------------------------------------------------------------------
(* The verdict. *)

(* A protected file among the judged ones, or a task of high risk, gates.    *)
LEMMA JudgedGates ==
  ASSUME NEW t \in Task, NEW files \in SUBSET Path, NEW source \in Source,
         \/ t = "high"
         \/ files \cap Protected # {} /\ source \in {"GIT_WORKING_TREE", "GIT_STAGED"}
  PROVE  Judged(t, files, source).status = "NEEDS_USER_GATE"
<1> DEFINE impact == classify_impact(files, source)
<1>1. intent_risk(t) \in Risk /\ (t = "high" => intent_risk(t) = "HIGH")
  BY DEF intent_risk, Risk
<1>2. Level["HIGH"] = 3 /\ \A r \in Risk : Level[r] \in 1..3 /\ (Level[r] > 2 => r = "HIGH")
  BY DEF Level, Risk
<1>3. impact = "HIGH" \/ intent_risk(t) = "HIGH"
  <2>1. CASE t = "high"
    BY <1>1, <2>1
  <2>2. CASE files \cap Protected # {} /\ source \in {"GIT_WORKING_TREE", "GIT_STAGED"}
    <3>1. files # {} /\ source # "NOT_CHECKED" /\ source # "NO_CHANGED_FILES"
      BY <2>2
    <3>2. classify_impact(files, source)
            = CASE files \cap Protected # {} -> "HIGH"
                [] files \subseteq Docs -> "LOW"
                [] OTHER -> "MEDIUM"
      BY <3>1 DEF classify_impact
    <3>3. files \cap Protected # {} => ~(files \subseteq Docs)
      BY PathAssumption
    <3> QED
      BY <2>2, <3>2, <3>3
  <2> QED
    BY <2>1, <2>2
<1> HIDE DEF impact
<1>4. merge_risks(intent_risk(t), impact) = "HIGH"
  BY <1>1, <1>2, <1>3 DEF merge_risks, Risk
<1> QED
  BY <1>4 DEF Judged, apply_law, impact

(* Nothing else does. *)
LEMMA GatedWhy ==
  ASSUME NEW t \in Task, NEW files \in SUBSET Path, NEW source \in Source,
         Judged(t, files, source).status = "NEEDS_USER_GATE"
  PROVE  t = "high" \/ files \cap Protected # {}
BY DEF Judged, intent_risk, classify_impact, merge_risks, apply_law, Task, Source, Risk, Level

(* The card of a gated run names the protected files it is of. *)
LEMMA JudgedCard ==
  ASSUME NEW t, NEW files, NEW source,
         Judged(t, files, source).status = "NEEDS_USER_GATE"
  PROVE  \E c \in Judged(t, files, source).card : c.protected = files \cap Protected
BY DEF Judged

LEMMA JudgedFiles ==
  ASSUME NEW t, NEW files, NEW source
  PROVE  Judged(t, files, source).changed = files
BY DEF Judged

(* Of nothing that could be looked at, no verdict is clean. *)
LEMMA UncheckedJudged ==
  ASSUME NEW t \in Task
  PROVE  Judged(t, {}, "NOT_CHECKED").status # "CLEAN_CORE"
BY DEF Judged, intent_risk, classify_impact, merge_risks, apply_law, Task, Risk, Level

(* v is the verdict on files that have every path of two lists, and where    *)
(* their differences were renamed from; if the lists are the same it is the  *)
(* first verdict.                                                            *)
VerdictOn(v, t, before, after) ==
  \E files \in SUBSET Path, source \in {"GIT_WORKING_TREE", "GIT_STAGED", "NO_CHANGED_FILES"} :
     /\ v = Judged(t, files, source)
     /\ source = "NO_CHANGED_FILES" => files = {}
     /\ {e.path : e \in before.files \cup after.files} \subseteq files
     /\ {e.original_path : e \in (before.files \ after.files)
                                  \cup (after.files \ before.files)} \ {None} \subseteq files
     /\ before.files = after.files => v = FirstVerdict(t, before)

(* The verdict on two snapshots that were taken is on every path of either.  *)
LEMMA VerdictFiles ==
  ASSUME NEW t \in Task, NEW before \in Snapshot, NEW after \in Snapshot,
         trusted_sources(before, after)
  PROVE  VerdictOn(_classification_after_mutation_boundary(t, build_mutation_boundary(before, after)),
                   t, before, after)
<1> DEFINE b == build_mutation_boundary(before, after)
           v == _classification_after_mutation_boundary(t, b)
           delta == compute_mutation_delta(before.files, after.files)
           paths == mutation_delta_paths(delta)
           first == changed_files_from_snapshot(before.files)
<1>1. before.files \in SUBSET Entry /\ after.files \in SUBSET Entry
  BY DEF Snapshot
<1>2. first \in SUBSET Path /\ first = {e.path : e \in before.files}
  BY <1>1 DEF changed_files_from_snapshot, Entry
<1>3. paths \in SUBSET Path
  BY <1>1, DeltaInPath
<1>4. /\ b.pre = before /\ b.delta = delta
      /\ b.boundary = IF delta # {} THEN "DELTA_DETECTED"
                      ELSE IF before.files # {} THEN "DIRTY_PREEXISTING" ELSE "CLEAN"
  BY DEF build_mutation_boundary
<1>5. CASE before.files # after.files
  <2>1. delta # {}
    BY <1>5, DeltaEmpty
  <2>2. v = Judged(t, first \cup paths, "GIT_WORKING_TREE")
    BY <1>4, <2>1 DEF _classification_after_mutation_boundary
  <2>3. \A e \in (before.files \ after.files) \cup (after.files \ before.files) :
          {e.path, e.original_path} \ {None} \subseteq paths
    BY <1>1, DeltaPaths
  <2>4. \A e \in before.files \cup after.files : e.path \in Path /\ e.path # None
    BY <1>1, PathAssumption DEF Entry
  <2>5. {e.path : e \in before.files \cup after.files} \subseteq first \cup paths
    BY <1>2, <2>3, <2>4
  <2>6. {e.original_path : e \in (before.files \ after.files)
                                  \cup (after.files \ before.files)} \ {None} \subseteq first \cup paths
    BY <2>3
  <2> DEFINE files == first \cup paths
  <2>7. files \in SUBSET Path
    BY <1>2, <1>3
  <2> HIDE DEF b, v, delta, paths, first, files
  <2>8. /\ v = Judged(t, files, "GIT_WORKING_TREE")
        /\ {e.path : e \in before.files \cup after.files} \subseteq files
        /\ {e.original_path : e \in (before.files \ after.files)
                                     \cup (after.files \ before.files)} \ {None} \subseteq files
    BY <2>2, <2>5, <2>6 DEF files
  <2>9. VerdictOn(v, t, before, after)
    BY <1>5, <2>7, <2>8 DEF VerdictOn
  <2> QED
    BY <2>9 DEF b, v
<1>6. CASE before.files = after.files
  <2>1. delta = {}
    BY <1>6, DeltaEmpty
  <2>2. v = FirstVerdict(t, before)
    BY <1>4, <2>1 DEF _classification_after_mutation_boundary
  <2> DEFINE source == changed_files_source_from_snapshot(before.files)
  <2>3. /\ source \in {"GIT_WORKING_TREE", "GIT_STAGED", "NO_CHANGED_FILES"}
        /\ source = "NO_CHANGED_FILES" => first = {}
    BY DEF changed_files_source_from_snapshot, changed_files_from_snapshot
  <2>4. v = Judged(t, first, source)
    BY <2>2 DEF FirstVerdict
  <2>5. /\ {e.path : e \in before.files \cup after.files} \subseteq first
        /\ {e.original_path : e \in (before.files \ after.files)
                                     \cup (after.files \ before.files)} \ {None} \subseteq first
    BY <1>2, <1>6
  <2> HIDE DEF b, v, delta, paths, first, source
  <2>6. VerdictOn(v, t, before, after)
    BY <1>2, <2>2, <2>3, <2>4, <2>5 DEF VerdictOn
  <2> QED
    BY <2>6 DEF b, v
<1> QED
  BY <1>5, <1>6

-----------------------------------------------------------------------------
(* What the evidence of a run says follows from the stages it went through.  *)

LEMMA EvidenceOfStages ==
  ASSUME TypeOK, Stages, stored # None
  PROVE  /\ task \in Task /\ pre \in Snapshot /\ packet.boundary.post \in Snapshot
         /\ original.pre = pre /\ original.post = packet.boundary.post
         /\ packet.boundary = build_mutation_boundary(pre, packet.boundary.post)
         /\ original.executor.declared = FirstVerdict(task, pre).status
         /\ original.created = packet.boundary.created
         /\ original.boundary = packet.boundary.boundary
         /\ LET v == _classification_after_mutation_boundary(task, packet.boundary)
            IN  original.changed = v.changed /\ original.status = v.status /\ original.card = v.card
         /\ original.head = packet.at.head /\ original.tree = packet.at.tree
<1>1. pc = "saved" /\ task \in Task
  BY DEF TypeOK
<1>2. /\ pre \in Snapshot
      /\ executor = execute_contract(task, FirstVerdict(task, pre).status)
      /\ packet.boundary.post \in Snapshot
      /\ packet.boundary = build_mutation_boundary(pre, packet.boundary.post)
      /\ packet.verdict = _classification_after_mutation_boundary(task, packet.boundary)
      /\ original = build_evidence_packet(task, executor, packet.boundary, packet.verdict,
                                          packet.at, options)
  BY <1>1 DEF Stages, Executed, Concluded
<1>3. packet.boundary.pre = pre
  BY <1>2 DEF build_mutation_boundary
<1>4. executor.declared = FirstVerdict(task, pre).status
  BY <1>2 DEF execute_contract
<1>5. /\ original.pre = packet.boundary.pre /\ original.post = packet.boundary.post
      /\ original.executor = executor
      /\ original.created = packet.boundary.created
      /\ original.boundary = packet.boundary.boundary
      /\ original.changed = packet.verdict.changed /\ original.status = packet.verdict.status
      /\ original.card = packet.verdict.card
      /\ original.head = packet.at.head /\ original.tree = packet.at.tree
  BY <1>2 DEF build_evidence_packet
<1> QED
  BY <1>1, <1>2, <1>3, <1>4, <1>5

(* A run that could not be looked at is not called clean. *)
LEMMA UncheckedHolds ==
  ASSUME TypeOK, Stages
  PROVE  UncheckedIsNeverClean
<1> SUFFICES ASSUME stored # None, ~BothTaken(original)
             PROVE  original.status # "CLEAN_CORE"
  BY DEF UncheckedIsNeverClean
<1>1. ~trusted_sources(pre, packet.boundary.post)
  BY EvidenceOfStages DEF BothTaken, trusted_sources
<1>2. packet.boundary.boundary = "UNTRUSTED_SNAPSHOT"
  <2>1. build_mutation_boundary(pre, packet.boundary.post).boundary = "UNTRUSTED_SNAPSHOT"
    BY <1>1 DEF build_mutation_boundary
  <2> QED
    BY <2>1, EvidenceOfStages
<1>3. original.status = Judged(task, {}, "NOT_CHECKED").status
  BY <1>2, EvidenceOfStages DEF _classification_after_mutation_boundary
<1> QED
  BY <1>3, EvidenceOfStages, UncheckedJudged

(* The files the verdict of a saved run is of. *)
LEMMA SavedVerdict ==
  ASSUME TypeOK, Stages, stored # None, BothTaken(original)
  PROVE  \E files \in SUBSET Path, source \in {"GIT_WORKING_TREE", "GIT_STAGED", "NO_CHANGED_FILES"} :
           /\ original.changed = files
           /\ original.status = Judged(task, files, source).status
           /\ original.card = Judged(task, files, source).card
           /\ source = "NO_CHANGED_FILES" => files = {}
           /\ {e.path : e \in original.pre.files \cup original.post.files} \subseteq files
           /\ {e.original_path : e \in (original.pre.files \ original.post.files)
                    \cup (original.post.files \ original.pre.files)} \ {None} \subseteq files
           /\ original.pre.files = original.post.files =>
                original.status = FirstVerdict(task, original.pre).status
<1> DEFINE after == packet.boundary.post
           b == build_mutation_boundary(pre, after)
           v == _classification_after_mutation_boundary(task, b)
<1>1. /\ task \in Task /\ pre \in Snapshot /\ after \in Snapshot
      /\ original.pre = pre /\ original.post = after
      /\ original.changed = v.changed /\ original.status = v.status /\ original.card = v.card
  BY EvidenceOfStages
<1>2. trusted_sources(pre, after)
  BY <1>1 DEF BothTaken
<1> HIDE DEF after
<1> HIDE DEF b, v
<1>3. VerdictOn(v, task, pre, after)
  BY <1>1, <1>2, VerdictFiles DEF b, v
<1>4. PICK files \in SUBSET Path, source \in {"GIT_WORKING_TREE", "GIT_STAGED", "NO_CHANGED_FILES"} :
         /\ v = Judged(task, files, source)
         /\ source = "NO_CHANGED_FILES" => files = {}
         /\ {e.path : e \in pre.files \cup after.files} \subseteq files
         /\ {e.original_path : e \in (pre.files \ after.files)
                                        \cup (after.files \ pre.files)} \ {None} \subseteq files
         /\ pre.files = after.files => v = FirstVerdict(task, pre)
  BY <1>3 DEF VerdictOn
<1>5. v.changed = files
  BY <1>4, JudgedFiles
<1> QED
  BY <1>1, <1>4, <1>5

LEMMA DirtyHolds ==
  ASSUME TypeOK, Stages
  PROVE  EveryDirtyPathIsJudged
<1> SUFFICES ASSUME stored # None, BothTaken(original)
             PROVE  LET before == original.pre.files
                        after == original.post.files
                        touched == {e.path : e \in before \cup after}
                                   \cup ({e.original_path : e \in (before \ after) \cup (after \ before)} \ {None})
                    IN /\ touched \subseteq original.changed
                       /\ touched \cap Protected # {} =>
                            original.status = "NEEDS_USER_GATE"
                            /\ \E c \in original.card : touched \cap Protected \subseteq c.protected
  BY DEF EveryDirtyPathIsJudged
<1> DEFINE before == original.pre.files
           after == original.post.files
           touched == {e.path : e \in before \cup after}
                      \cup ({e.original_path : e \in (before \ after) \cup (after \ before)} \ {None})
<1>1. PICK files \in SUBSET Path, source \in {"GIT_WORKING_TREE", "GIT_STAGED", "NO_CHANGED_FILES"} :
         /\ original.changed = files
         /\ original.status = Judged(task, files, source).status
         /\ original.card = Judged(task, files, source).card
         /\ source = "NO_CHANGED_FILES" => files = {}
         /\ touched \subseteq files
  BY SavedVerdict
<1> HIDE DEF touched
<1>2. ASSUME touched \cap Protected # {}
      PROVE  original.status = "NEEDS_USER_GATE"
             /\ \E c \in original.card : touched \cap Protected \subseteq c.protected
  <2>1. files \cap Protected # {} /\ source \in {"GIT_WORKING_TREE", "GIT_STAGED"}
    BY <1>1, <1>2
  <2>2. Judged(task, files, source).status = "NEEDS_USER_GATE"
    BY <2>1, JudgedGates DEF Source, TypeOK
  <2>3. PICK c \in original.card : c.protected = files \cap Protected
    BY <1>1, <2>2, JudgedCard
  <2>4. touched \cap Protected \subseteq c.protected
    BY <1>1, <2>3
  <2> QED
    BY <1>1, <2>2, <2>4
<1> QED
  BY <1>1, <1>2 DEF touched

LEMMA GateHolds ==
  ASSUME TypeOK, Stages
  PROVE  GateSurvivesTheRun
<1> SUFFICES ASSUME stored # None, BothTaken(original),
                    original.executor.declared = "NEEDS_USER_GATE"
             PROVE  original.status = "NEEDS_USER_GATE"
  BY DEF GateSurvivesTheRun
<1> DEFINE first == changed_files_from_snapshot(pre.files)
<1>1. /\ task \in Task /\ pre \in Snapshot /\ original.pre = pre
      /\ FirstVerdict(task, pre).status = "NEEDS_USER_GATE"
  BY EvidenceOfStages
<1>2. first \in SUBSET Path /\ first = {e.path : e \in pre.files}
  BY <1>1 DEF changed_files_from_snapshot, Snapshot, Entry
<1>3. changed_files_source_from_snapshot(pre.files) \in Source
  BY DEF changed_files_source_from_snapshot, Source
<1> HIDE DEF first
<1>4. task = "high" \/ first \cap Protected # {}
  BY <1>1, <1>2, <1>3, GatedWhy DEF FirstVerdict, first
<1>5. PICK files \in SUBSET Path, source \in {"GIT_WORKING_TREE", "GIT_STAGED", "NO_CHANGED_FILES"} :
         /\ original.status = Judged(task, files, source).status
         /\ source = "NO_CHANGED_FILES" => files = {}
         /\ {e.path : e \in original.pre.files \cup original.post.files} \subseteq files
  BY SavedVerdict
<1>6. first \subseteq files
  BY <1>1, <1>2, <1>5
<1>7. \/ task = "high"
      \/ files \cap Protected # {} /\ source \in {"GIT_WORKING_TREE", "GIT_STAGED"}
  BY <1>4, <1>5, <1>6
<1> QED
  BY <1>1, <1>5, <1>7, JudgedGates DEF Source

-----------------------------------------------------------------------------
(* The invariant, part by part.                                              *)

LEMMA StatusTyped ==
  ASSUME tree \in [File -> [state: Letters, original_path: File \cup {None}]]
  PROVE  status_porcelain \in SUBSET [path: Path, original_path: Path \cup {None},
                                      state: Letters \ {"clean"}]
BY NameAssumption DEF status_porcelain

(* What a snapshot makes of the lines it has. *)
LEMMA SnapshotTyped ==
  ASSUME partial \subseteq [path: Path, original_path: Path \cup {None}, state: Letters \ {"clean"}]
  PROVE  Taken(changed_file_snapshot) \in Snapshot
<1>1. ASSUME NEW l \in partial, NEW d \in BOOLEAN
      PROVE  [path |-> l.path, original_path |-> l.original_path, state |-> l.state, diff |-> d] \in Entry
  BY DEF Entry, Letters
<1>2. \A l \in partial : (l.path \in _tracked_diff_status) \in BOOLEAN
  OBVIOUS
<1>3. changed_file_snapshot \subseteq Entry
  BY <1>1, <1>2 DEF changed_file_snapshot
<1> QED
  BY <1>3 DEF Taken, Snapshot

LEMMA UntakenTyped == Untaken \in Snapshot
BY DEF Untaken, Snapshot

(* The user leaves aeg run and the record alone and is no longer quiet.      *)
LEMMA UserFrame ==
  ASSUME User
  PROVE  quiet' = FALSE /\ UNCHANGED <<run, store>>
BY DEF User, Edit, Stage, Restore, Rename, Commit, Prune, Move, Edited

(* aeg run leaves the world alone. *)
LEMMA RunFrame ==
  ASSUME Run
  PROVE  UNCHANGED world
BY DEF Run, ReadOptions, AskStatus, capture_pre, Execute, capture_post, Conclude, ReadGit, Ask,
       save_run, Fails

(* Whoever changes the record changes nothing else. *)
LEMMA SomebodyFrame ==
  ASSUME Somebody
  PROVE  UNCHANGED <<world, run, original>>
BY DEF Somebody, AlterEvidence, AlterManifest, AlterBoth, AlterVerdict

(* A commit that is made has a number the bound allows, and leaves the lost  *)
(* ones behind it.                                                           *)
LEMMA Grows ==
  ASSUME NEW n \in Nat, NEW h \in Nat, h >= 1, h <= n + 1, NEW g \in {h, h + 1}
  PROVE  g \in 1..((n + 1) + 1) /\ 1..(h - 1) \subseteq 1..(g - 1)
OBVIOUS

LEMMA TypeStep ==
  ASSUME TypeOK, [Next]_vars
  PROVE  TypeOK'
<1> DEFINE Tree == [File -> [state: Letters, original_path: File \cup {None}]]
<1>a. /\ tree \in Tree /\ edits \in 0..MaxEvents /\ alters \in 0..MaxAlters
      /\ head \in 1..(edits + 1) /\ lost \subseteq 1..(head - 1)
  BY DEF TypeOK
<1> HIDE DEF Tree
<1>b. MaxEvents \in Nat /\ MaxAlters \in Nat
  BY BoundAssumption
<1>0. edits \in Nat /\ alters \in Nat /\ edits <= MaxEvents /\ alters <= MaxAlters
  BY <1>a, <1>b
<1>1. head \in Nat /\ head >= 1 /\ head <= edits + 1
  BY <1>a, <1>0
<1>2. ASSUME User
      PROVE  TypeOK'
  <2>1. tree' \in Tree
    <3>1. ASSUME NEW p \in File, Edit(p)
          PROVE  tree' \in Tree
      BY <1>a, <3>1 DEF Edit, Letters, Tree
    <3>2. ASSUME NEW p \in File, Stage(p) \/ Restore(p)
          PROVE  tree' \in Tree
      BY <1>a, <3>2 DEF Tree, Stage, Restore, Clean, Line, Letters
    <3>3. ASSUME NEW p \in File, NEW q \in File, Rename(p, q)
          PROVE  tree' \in Tree
      <4>1. Line("staged", p) \in [state: Letters, original_path: File \cup {None}]
        BY DEF Line, Letters
      <4> QED
        BY <1>a, <3>3, <4>1 DEF Rename, Tree
    <3>4. CASE Commit
      <4>1. /\ Clean \in [state: Letters, original_path: File \cup {None}]
            /\ Line("unstaged", None) \in [state: Letters, original_path: File \cup {None}]
        BY DEF Clean, Line, Letters
      <4> QED
        BY <1>a, <3>4, <4>1 DEF Commit, Tree
    <3>5. CASE Prune \/ Move
      BY <1>a, <3>5 DEF Prune, Move
    <3> QED
      BY <1>2, <3>1, <3>2, <3>3, <3>4, <3>5 DEF User
  <2>2. /\ edits + alters < MaxEvents /\ edits' = edits + 1
        /\ head' \in {head, head + 1}
        /\ lost' = lost \/ \E h \in 1..(head - 1) : lost' = lost \cup {h}
        /\ root' \in Root
    BY <1>2 DEF User, Edit, Stage, Restore, Rename, Commit, Prune, Move, Edited, TypeOK
  <2>3. edits' \in 0..MaxEvents /\ head' \in 1..(edits' + 1) /\ lost' \subseteq 1..(head' - 1)
    <3>1. lost' \subseteq 1..(head - 1)
      BY <1>a, <2>2
    <3>2. head' \in 1..((edits + 1) + 1) /\ 1..(head - 1) \subseteq 1..(head' - 1)
      BY <1>0, <1>1, <2>2, Grows
    <3>3. edits + 1 \in 0..MaxEvents
      BY <1>0, <1>b, <2>2
    <3> QED
      BY <2>2, <3>1, <3>2, <3>3
  <2>4. quiet' = FALSE /\ UNCHANGED <<run, store>>
    BY <1>2, UserFrame
  <2> QED
    BY <2>1, <2>2, <2>3, <2>4 DEF TypeOK, run, store, Tree
<1>3. CASE Run
  <2>1. status_porcelain \in SUBSET [path: Path, original_path: Path \cup {None},
                                     state: Letters \ {"clean"}]
    BY StatusTyped DEF TypeOK
  <2>2. UNCHANGED world /\ alters' = alters /\ task' = task /\ options' = options /\ resealed' = resealed
    BY <1>3, RunFrame DEF Run, ReadOptions, AskStatus, capture_pre, Execute, capture_post, Conclude,
       ReadGit, Ask, save_run, Fails, store
  <2>3. /\ partial' \in {partial, status_porcelain, {}}
        /\ pc' \in {"pre status", "pre diff", "post status", "post diff",
                    "head", "tree", "dirty", "save", "saved", "failed"}
        /\ stored' # None => pc' = "saved"
    BY <1>3 DEF Run, ReadOptions, AskStatus, capture_pre, Execute, capture_post, Conclude,
       ReadGit, Ask, save_run, Fails, store, Goto, TypeOK
  <2> QED
    BY <2>1, <2>2, <2>3 DEF TypeOK, world
<1>4. CASE stored # None /\ Somebody
  <2>1. alters < MaxAlters /\ alters' = alters + 1 /\ pc = "saved" /\ resealed' \in BOOLEAN
    BY <1>4 DEF Somebody, AlterEvidence, AlterManifest, AlterBoth, AlterVerdict, Altered, Rebind, TypeOK
  <2>2. alters' \in 0..MaxAlters
    BY <1>0, <1>b, <2>1
  <2>3. UNCHANGED <<world, run>>
    BY <1>4, SomebodyFrame
  <2> QED
    BY <2>1, <2>2, <2>3 DEF TypeOK, world, run
<1>5. CASE UNCHANGED vars
  BY <1>5 DEF TypeOK, vars, world, run, store
<1> QED
  BY <1>2, <1>3, <1>4, <1>5 DEF Next

LEMMA StagesStep ==
  ASSUME TypeOK, Stages, [Next]_vars
  PROVE  Stages'
<1>1. ASSUME UNCHANGED <<run, original>>, stored' # None => stored # None
      PROVE  Stages'
  BY <1>1 DEF Stages, run
<1>2. CASE User
  BY <1>1, <1>2, UserFrame DEF store
<1>3. CASE stored # None /\ Somebody
  BY <1>1, <1>3, SomebodyFrame
<1>4. CASE UNCHANGED vars
  BY <1>1, <1>4 DEF vars, store
<1>5. pc # "saved" => stored = None
  BY DEF TypeOK
<1>6. CASE ReadOptions \/ AskStatus("pre status", "pre diff")
  BY <1>5, <1>6 DEF ReadOptions, AskStatus, Goto, Stages, Executed, Concluded, store
<1>7. CASE AskStatus("post status", "post diff")
  BY <1>5, <1>7 DEF AskStatus, Goto, Stages, Executed, Concluded, store
<1>8. CASE capture_pre
  <2>1. PICK snapshot \in Snapshot : Execute(snapshot)
    BY <1>8, SnapshotTyped, UntakenTyped DEF capture_pre, TypeOK
  <2>2. pc \in {"pre status", "pre diff"}
    BY <1>8 DEF capture_pre
  <2> QED
    BY <1>5, <2>1, <2>2 DEF Execute, Goto, Stages, Executed, Concluded, store
<1>9. CASE capture_post
  <2>1. PICK snapshot \in Snapshot : Conclude(snapshot)
    BY <1>9, SnapshotTyped, UntakenTyped DEF capture_post, TypeOK
  <2>2. pc \in {"post status", "post diff"}
    BY <1>9 DEF capture_post
  <2>3. build_mutation_boundary(pre, snapshot).post = snapshot
    BY DEF build_mutation_boundary
  <2> DEFINE b == build_mutation_boundary(pre, snapshot)
  <2>4. packet' = [boundary |-> b, at |-> [root |-> root],
                   verdict |-> _classification_after_mutation_boundary(task, b)]
    BY <2>1 DEF Conclude
  <2> HIDE DEF b
  <2>5. /\ packet' = [boundary |-> packet'.boundary, at |-> packet'.at, verdict |-> packet'.verdict]
        /\ packet'.boundary = b
        /\ packet'.verdict = _classification_after_mutation_boundary(task, b)
    BY <2>4
  <2>6. /\ pre' = pre /\ executor' = executor /\ task' = task /\ pc' = "head"
        /\ UNCHANGED store
    BY <2>1 DEF Conclude, Goto
  <2>7. pre \in Snapshot /\ executor = execute_contract(task, FirstVerdict(task, pre).status)
    BY <2>2 DEF Stages, Executed
  <2>8. b.post = snapshot
    BY <2>3 DEF b
  <2>9. packet'.boundary = build_mutation_boundary(pre, packet'.boundary.post)
    BY <2>5, <2>8 DEF b
  <2>10. stored' = None
    BY <1>5, <2>2, <2>6 DEF store
  <2> QED
    BY <2>5, <2>6, <2>7, <2>8, <2>9, <2>10 DEF Stages
<1>10. ASSUME NEW from \in {"head", "tree", "dirty"}, NEW to \in {"tree", "dirty", "save"},
              NEW f, NEW v, Ask(from, to, f, v)
       PROVE  Stages'
  <2>1. pc = from /\ pc' = to /\ UNCHANGED <<store, task, pre, executor>>
    BY <1>10 DEF Ask, Goto
  <2>2. /\ pre \in Snapshot /\ executor = execute_contract(task, FirstVerdict(task, pre).status)
        /\ packet = [boundary |-> packet.boundary, at |-> packet.at, verdict |-> packet.verdict]
        /\ packet.boundary.post \in Snapshot
        /\ packet.boundary = build_mutation_boundary(pre, packet.boundary.post)
        /\ packet.verdict = _classification_after_mutation_boundary(task, packet.boundary)
    BY <2>1 DEF Stages, Executed, Concluded
  <2>3. \E at : packet' = [packet EXCEPT !.at = at]
    BY <1>10 DEF Ask
  <2>4. /\ packet' = [boundary |-> packet'.boundary, at |-> packet'.at, verdict |-> packet'.verdict]
        /\ packet'.boundary = packet.boundary /\ packet'.verdict = packet.verdict
    BY <2>2, <2>3
  <2>5. stored' = None
    BY <1>5, <2>1 DEF store
  <2> QED
    BY <2>1, <2>2, <2>4, <2>5 DEF Stages
<1>11. CASE save_run
  <2>1. /\ pc = "save" /\ pc' = "saved"
        /\ original' = build_evidence_packet(task, executor, packet.boundary, packet.verdict,
                                             packet.at, options)
        /\ UNCHANGED <<task, options, pre, executor, packet>>
    BY <1>11 DEF save_run, Goto
  <2> QED
    BY <2>1 DEF Stages, Executed, Concluded
<1>12. CASE Fails
  BY <1>5, <1>12 DEF Fails, Goto, Stages, Executed, Concluded, store
<1>13. CASE ReadGit
  <2>1. CASE Ask("head", "tree", "head", head)
    BY <1>10, <2>1
  <2>2. CASE Ask("tree", "dirty", "tree", head)
    BY <1>10, <2>2
  <2>3. CASE Ask("dirty", "save", "is_dirty", status_porcelain # {})
    BY <1>10, <2>3
  <2> QED
    BY <1>13, <2>1, <2>2, <2>3 DEF ReadGit
<1> QED
  BY <1>2, <1>3, <1>4, <1>6, <1>7, <1>8, <1>9, <1>11, <1>12, <1>13 DEF Next, Run

(* What git lists depends on the tree alone. *)
LEMMA UnmovedStep ==
  ASSUME TypeOK, Unmoved, Stages, [Next]_vars
  PROVE  Unmoved'
<1> SUFFICES ASSUME quiet'
             PROVE  /\ pc' \in {"pre diff", "post diff"} => partial' = status_porcelain'
                    /\ pc' \in Executed => pre' \in {Untaken, Taken(Listed')}
                    /\ pc' \in Concluded => packet'.boundary.post \in {Untaken, Taken(Listed')}
                    /\ pc' \in Concluded \ {"head"} =>
                         "head" \in DOMAIN packet'.at /\ packet'.at["head"] = head'
                    /\ pc' \in Concluded \ {"head", "tree"} =>
                         "tree" \in DOMAIN packet'.at /\ packet'.at["tree"] = head'
  BY DEF Unmoved, Executed, Concluded, Untaken, Taken
<1>1. ~User
  BY UserFrame
<1>2. UNCHANGED world
  BY <1>1, RunFrame, SomebodyFrame DEF Next, vars
<1>3. quiet /\ tree' = tree /\ head' = head
  BY <1>2 DEF world
<1>4. status_porcelain' = status_porcelain /\ _tracked_diff_status' = _tracked_diff_status
  BY <1>3 DEF status_porcelain, _tracked_diff_status
<1>5. Listed' = Listed
  BY <1>4 DEF Listed
<1>6. partial = status_porcelain => changed_file_snapshot = Listed
  BY DEF changed_file_snapshot, Listed
<1>7. /\ pc \in {"pre diff", "post diff"} => partial = status_porcelain
      /\ pc \in Executed => pre \in {Untaken, Taken(Listed)}
      /\ pc \in Concluded => packet.boundary.post \in {Untaken, Taken(Listed)}
      /\ pc \in Concluded \ {"head"} => "head" \in DOMAIN packet.at /\ packet.at["head"] = head
      /\ pc \in Concluded \ {"head", "tree"} =>
           "tree" \in DOMAIN packet.at /\ packet.at["tree"] = head
  BY <1>3 DEF Unmoved
<1>8. CASE UNCHANGED run
  BY <1>3, <1>4, <1>5, <1>7, <1>8 DEF run
<1>9. CASE ReadOptions
  BY <1>9 DEF ReadOptions, Goto, Executed, Concluded
<1>10. ASSUME NEW from \in {"pre status", "post status"}, NEW to \in {"pre diff", "post diff"},
              AskStatus(from, to), from = "post status" <=> to = "post diff"
       PROVE  /\ partial' = status_porcelain /\ pre' = pre /\ pc' = to
              /\ to = "post diff" => pc \in Executed
  BY <1>10 DEF AskStatus, Goto, Executed
<1>11. CASE AskStatus("pre status", "pre diff") \/ AskStatus("post status", "post diff")
  <2>1. /\ partial' = status_porcelain /\ pre' = pre /\ pc' \in {"pre diff", "post diff"}
        /\ pc' = "post diff" => pc \in Executed
    BY <1>10, <1>11
  <2> QED
    BY <1>4, <1>5, <1>7, <2>1 DEF Executed, Concluded
<1>12. CASE capture_pre
  <2>1. pre' \in {Untaken, Taken(changed_file_snapshot)} /\ pc' = "post status"
        /\ (pc = "pre diff" \/ pre' = Untaken)
    BY <1>12 DEF capture_pre, Execute, Goto
  <2>2. pre' \in {Untaken, Taken(Listed)}
    BY <1>6, <1>7, <2>1
  <2> QED
    BY <1>5, <2>1, <2>2 DEF Concluded
<1>13. CASE capture_post
  <2>1. PICK snapshot \in {Untaken, Taken(changed_file_snapshot)} :
          Conclude(snapshot) /\ (pc = "post diff" \/ snapshot = Untaken)
    BY <1>13 DEF capture_post
  <2>2. pc \in Executed /\ pc' = "head" /\ pre' = pre
        /\ packet'.boundary = build_mutation_boundary(pre, snapshot)
    BY <1>13, <2>1 DEF capture_post, Conclude, Goto, Executed
  <2>3. build_mutation_boundary(pre, snapshot).post = snapshot
    BY DEF build_mutation_boundary
  <2>4. snapshot \in {Untaken, Taken(Listed)}
    BY <1>6, <1>7, <2>1
  <2> QED
    BY <1>5, <1>7, <2>2, <2>3, <2>4 DEF Executed, Concluded
<1>14. ASSUME NEW from \in {"head", "tree", "dirty"}, NEW to, NEW f, NEW v, Ask(from, to, f, v)
       PROVE  /\ pc = from /\ pc' = to /\ pre' = pre /\ partial' = partial
              /\ packet'.boundary = packet.boundary
              /\ DOMAIN packet'.at = DOMAIN packet.at \cup {f}
              /\ packet'.at[f] = v
              /\ \A g \in DOMAIN packet.at \ {f} : packet'.at[g] = packet.at[g]
  <2>1. pc \in Concluded /\ pc = from /\ pc' = to /\ pre' = pre /\ partial' = partial
    BY <1>14 DEF Ask, Goto, Concluded
  <2>2. packet = [boundary |-> packet.boundary, at |-> packet.at, verdict |-> packet.verdict]
    BY <2>1 DEF Stages
  <2> DEFINE at == [g \in DOMAIN packet.at \cup {f} |-> IF g = f THEN v ELSE packet.at[g]]
  <2>3. packet' = [packet EXCEPT !.at = at]
    BY <1>14 DEF Ask
  <2>4. DOMAIN at = DOMAIN packet.at \cup {f} /\ at[f] = v
        /\ \A g \in DOMAIN packet.at \ {f} : at[g] = packet.at[g]
    OBVIOUS
  <2> HIDE DEF at
  <2>5. packet'.at = at /\ packet'.boundary = packet.boundary
    BY <2>2, <2>3
  <2> QED
    BY <2>1, <2>4, <2>5
<1>15. CASE Ask("head", "tree", "head", head)
  BY <1>3, <1>5, <1>7, <1>14, <1>15, ZenonT(30) DEF Executed, Concluded
<1>16. CASE Ask("tree", "dirty", "tree", head)
  <2>1. /\ pc = "tree" /\ pc' = "dirty" /\ pre' = pre /\ packet'.boundary = packet.boundary
        /\ DOMAIN packet'.at = DOMAIN packet.at \cup {"tree"}
        /\ packet'.at["tree"] = head
        /\ \A g \in DOMAIN packet.at \ {"tree"} : packet'.at[g] = packet.at[g]
    BY <1>14, <1>16
  <2>2. /\ pre \in {Untaken, Taken(Listed)} /\ packet.boundary.post \in {Untaken, Taken(Listed)}
        /\ "head" \in DOMAIN packet.at /\ packet.at["head"] = head
    BY <1>7, <2>1 DEF Executed, Concluded
  <2>3. /\ "head" \in DOMAIN packet'.at /\ packet'.at["head"] = head'
        /\ "tree" \in DOMAIN packet'.at /\ packet'.at["tree"] = head'
    BY <1>3, <2>1, <2>2
  <2> QED
    BY <1>5, <2>1, <2>2, <2>3
<1>17. CASE Ask("dirty", "save", "is_dirty", status_porcelain # {})
  <2>1. /\ pc = "dirty" /\ pc' = "save" /\ pre' = pre /\ packet'.boundary = packet.boundary
        /\ DOMAIN packet'.at = DOMAIN packet.at \cup {"is_dirty"}
        /\ \A g \in DOMAIN packet.at \ {"is_dirty"} : packet'.at[g] = packet.at[g]
    BY <1>14, <1>17
  <2>2. /\ pre \in {Untaken, Taken(Listed)} /\ packet.boundary.post \in {Untaken, Taken(Listed)}
        /\ "head" \in DOMAIN packet.at /\ packet.at["head"] = head
        /\ "tree" \in DOMAIN packet.at /\ packet.at["tree"] = head
    BY <1>7, <2>1 DEF Executed, Concluded
  <2>3. /\ "head" \in DOMAIN packet'.at /\ packet'.at["head"] = head'
        /\ "tree" \in DOMAIN packet'.at /\ packet'.at["tree"] = head'
    BY <1>3, <2>1, <2>2
  <2> QED
    BY <1>5, <2>1, <2>2, <2>3
<1>18. CASE save_run
  BY <1>3, <1>5, <1>7, <1>18 DEF save_run, Goto, Executed, Concluded
<1>19. CASE Fails
  BY <1>19 DEF Fails, Goto, Executed, Concluded
<1>20. CASE Somebody
  BY <1>8, <1>20, SomebodyFrame
<1>21. CASE UNCHANGED vars
  BY <1>8, <1>21 DEF vars
<1> QED
  BY <1>1, <1>9, <1>11, <1>12, <1>13, <1>15, <1>16, <1>17, <1>18, <1>19, <1>20, <1>21
     DEF Next, Run, ReadGit

LEMMA SealedStep ==
  ASSUME TypeOK, Sealed, [Next]_vars
  PROVE  Sealed'
<1> SUFFICES ASSUME stored' # None
             PROVE  /\ stored' = [evidence |-> stored'.evidence, manifest |-> stored'.manifest,
                                  current_evidence_hash |-> stored'.current_evidence_hash,
                                  bound |-> stored'.bound, line |-> stored'.line]
                    /\ ~resealed' => stored'.line = LedgerLine(build_run_manifest(original'))
  BY DEF Sealed
<1> DEFINE m(e) == build_run_manifest(e)
<1>1. \A e : /\ Saved(e) = [evidence |-> e, current_evidence_hash |-> e,
                            bound |-> bind_evidence_to_manifest(m(e)), manifest |-> m(e),
                            line |-> LedgerLine(m(e))]
  BY DEF Saved
<1>2. CASE UNCHANGED store
  BY <1>2 DEF store, Sealed
<1>3. CASE save_run
  <2>1. stored' = Saved(original')
    BY <1>3 DEF save_run
  <2> HIDE DEF m
  <2>2. stored' = [evidence |-> original', current_evidence_hash |-> original',
                   bound |-> bind_evidence_to_manifest(m(original')), manifest |-> m(original'),
                   line |-> LedgerLine(m(original'))]
    BY <1>1, <2>1
  <2> QED
    BY <2>2 DEF m
<1>4. CASE stored # None /\ Somebody
  <2>1. stored = [evidence |-> stored.evidence, manifest |-> stored.manifest,
                  current_evidence_hash |-> stored.current_evidence_hash,
                  bound |-> stored.bound, line |-> stored.line]
        /\ (~resealed => stored.line = LedgerLine(build_run_manifest(original)))
    BY <1>4 DEF Sealed
  <2>2. original' = original
    BY <1>4, SomebodyFrame
  <2>3. ASSUME NEW f, AlterEvidence(f)
        PROVE  /\ stored' = [evidence |-> stored'.evidence, manifest |-> stored'.manifest,
                             current_evidence_hash |-> stored'.current_evidence_hash,
                             bound |-> stored'.bound, line |-> stored'.line]
               /\ ~resealed' => stored'.line = stored.line /\ ~resealed
    <3>1. PICK v \in Other(f), hashed \in BOOLEAN :
             LET e == [stored.evidence EXCEPT ![f] = v]
                 n == [stored.manifest EXCEPT !.current_evidence_hash = e]
             IN /\ stored' = IF hashed
                     THEN [evidence |-> e, current_evidence_hash |-> e, manifest |-> n,
                           bound |-> bind_evidence_to_manifest(n), line |-> LedgerLine(n)]
                     ELSE [stored EXCEPT !.evidence = e]
                /\ resealed' = (resealed \/ hashed)
      BY <2>3 DEF AlterEvidence
    <3> QED
      BY <2>1, <3>1
  <2>4. ASSUME NEW f, AlterManifest(f)
        PROVE  /\ stored' = [evidence |-> stored'.evidence, manifest |-> stored'.manifest,
                             current_evidence_hash |-> stored'.current_evidence_hash,
                             bound |-> stored'.bound, line |-> stored'.line]
               /\ ~resealed' => stored'.line = stored.line /\ ~resealed
    <3>1. PICK v \in Other(f), line \in BOOLEAN :
             LET n == [stored.manifest EXCEPT !.copy[f] = v,
                         !.hash = [g \in HashedFields |-> IF g = f THEN v ELSE @[g]]]
             IN /\ stored' = [stored EXCEPT !.manifest = n, !.bound.manifest = n,
                                            !.line = IF line THEN LedgerLine(n) ELSE @]
                /\ resealed' = (resealed \/ line)
      BY <2>4 DEF AlterManifest
    <3> DEFINE n == [stored.manifest EXCEPT !.copy[f] = v,
                       !.hash = [g \in HashedFields |-> IF g = f THEN v ELSE @[g]]]
    <3>2. /\ stored' = [stored EXCEPT !.manifest = n, !.bound.manifest = n,
                                      !.line = IF line THEN LedgerLine(n) ELSE @]
          /\ resealed' = (resealed \/ line)
      BY <3>1
    <3> HIDE DEF n
    <3> QED
      BY <2>1, <3>2
  <2>5. ASSUME NEW e, Rebind(e)
        PROVE  /\ stored' = [evidence |-> stored'.evidence, manifest |-> stored'.manifest,
                             current_evidence_hash |-> stored'.current_evidence_hash,
                             bound |-> stored'.bound, line |-> stored'.line]
               /\ ~resealed' => stored'.line = stored.line /\ ~resealed
    <3>1. PICK line \in BOOLEAN :
             /\ stored' = [Saved(e) EXCEPT !.line = IF line THEN @ ELSE stored.line]
             /\ resealed' = (resealed \/ line)
      BY <2>5 DEF Rebind
    <3> HIDE DEF m
    <3>2. stored' = [evidence |-> e, current_evidence_hash |-> e,
                     bound |-> bind_evidence_to_manifest(m(e)), manifest |-> m(e),
                     line |-> IF line THEN LedgerLine(m(e)) ELSE stored.line]
      BY <1>1, <3>1
    <3> QED
      BY <3>1, <3>2
  <2>6. /\ stored' = [evidence |-> stored'.evidence, manifest |-> stored'.manifest,
                      current_evidence_hash |-> stored'.current_evidence_hash,
                      bound |-> stored'.bound, line |-> stored'.line]
        /\ ~resealed' => stored'.line = stored.line /\ ~resealed
    <3>1. ASSUME NEW f, AlterBoth(f)
          PROVE  \E e : Rebind(e)
      BY <3>1 DEF AlterBoth
    <3>2. CASE AlterVerdict
      <4>1. \E e : Rebind(e)
        BY <3>2 DEF AlterVerdict
      <4> QED
        BY <2>5, <4>1
    <3> QED
      BY <1>4, <2>3, <2>4, <2>5, <3>1, <3>2 DEF Somebody
  <2> QED
    BY <2>1, <2>2, <2>6
<1>5. CASE Run /\ ~save_run
  BY <1>2, <1>5 DEF Run, ReadOptions, AskStatus, capture_pre, Execute, capture_post, Conclude,
     ReadGit, Ask, Fails
<1>6. CASE User
  BY <1>2, <1>6, UserFrame
<1>7. CASE UNCHANGED vars
  BY <1>2, <1>7 DEF vars
<1> QED
  BY <1>3, <1>4, <1>5, <1>6, <1>7 DEF Next

LEMMA InitHolds ==
  ASSUME Init
  PROVE  TypeOK /\ Stages /\ Unmoved /\ Sealed
<1> DEFINE L == [state: Letters, original_path: File \cup {None}]
<1>1. tree \in [File -> L]
  <2>1. /\ Clean \in L
        /\ \A s \in Letters, o \in File \cup {None} : Line(s, o) \in L
    BY DEF Clean, Line, Letters
  <2>2. \A p \in File : \A l \in L : [[q \in File |-> Clean] EXCEPT ![p] = l] \in [File -> L]
    BY <2>1
  <2>3. \E p \in File, s \in Letters, o \in File \cup {None} :
          tree = [[q \in File |-> Clean] EXCEPT ![p] = Line(s, o)]
    BY TrackedAssumption DEF Init, Letters
  <2> QED
    BY <2>1, <2>2, <2>3
<1>2. /\ edits \in 0..MaxEvents /\ alters \in 0..MaxAlters
      /\ head \in 1..(edits + 1) /\ lost \subseteq 1..(head - 1)
  <2>1. MaxEvents \in Nat /\ MaxAlters \in Nat
    BY BoundAssumption
  <2>2. edits = 0 /\ alters = 0 /\ head = 1 /\ lost = {}
    BY DEF Init
  <2> QED
    BY <2>1, <2>2
<1>3. TypeOK
  <2>1. /\ root = Home /\ pc = "options" /\ task \in Task
        /\ options \in [citizen_one : BOOLEAN, proposal_stub : BOOLEAN]
        /\ partial = {} /\ stored = None /\ resealed = FALSE /\ quiet = TRUE
    BY DEF Init
  <2> HIDE DEF L
  <2> QED
    BY <1>1, <1>2, <2>1, TrackedAssumption DEF TypeOK, L
<1>4. Stages /\ Unmoved /\ Sealed
  BY DEF Init, Stages, Unmoved, Sealed, Executed, Concluded
<1> QED
  BY <1>3, <1>4

-----------------------------------------------------------------------------
(* The theorems.                                                             *)

(* At any moment of aeg run (_cmd_run, capture_mutation_snapshot,            *)
(* build_mutation_boundary and save_run), whatever its user does in the work *)
(* tree meanwhile and whoever changes the record afterwards: the evidence    *)
(* saved has every name either snapshot listed, as git wrote it; it gates on *)
(* such a name that is protected and keeps the gate the executor was told    *)
(* of, and it is never clean where a snapshot failed.  For any files and any *)
(* names git writes for them, any number of changes.                         *)
THEOREM PipelineInvariant == Spec => []PipelineInv
<1> DEFINE Inv == TypeOK /\ Stages /\ Unmoved /\ Sealed
<1>1. Init => Inv
  BY InitHolds
<1>2. Inv /\ [Next]_vars => Inv'
  BY TypeStep, StagesStep, UnmovedStep, SealedStep
<1>3. Inv => PipelineInv
  BY UncheckedHolds, DirtyHolds, GateHolds DEF PipelineInv
<1> QED
  BY <1>1, <1>2, <1>3, PTL DEF Spec

(* Evidence or manifest that was changed does not pass "aeg verify"          *)
(* (_verify_ledger_chain_entry) unless a ledger line was written anew: what  *)
(* passes has every field of the packet save_run stored, and is the manifest *)
(* build_run_manifest made of it.                                            *)
THEOREM AlteredIsAlwaysSeen == Spec => []AlteredIsSeen
<1>1. PipelineInv => AlteredIsSeen
  <2> SUFFICES ASSUME Sealed, stored # None, ~resealed, Verifies
               PROVE  /\ \A f \in DOMAIN original : stored.evidence[f] = original[f]
                      /\ stored.manifest = build_run_manifest(original)
    BY DEF PipelineInv, AlteredIsSeen
  <2>1. stored.line = LedgerLine(build_run_manifest(original))
    BY DEF Sealed
  <2>2. /\ stored.line.current_evidence_hash = original
        /\ stored.line.manifest = build_run_manifest(original)
    BY <2>1 DEF LedgerLine, build_run_manifest
  <2>3. /\ stored.line.current_evidence_hash = stored.evidence
        /\ stored.line.manifest = stored.manifest
    BY DEF Verifies, verify_latest, _verify_ledger_chain_entry
  <2> QED
    BY <2>2, <2>3
<1> QED
  BY <1>1, PipelineInvariant, PTL

(* Of a run during which nobody else did anything the evidence says that its *)
(* executor created nothing, has the verdict the executor was given          *)
(* (_classification_after_mutation_boundary), and a tree that is the head's. *)
THEOREM QuietRunAlwaysKeepsItsVerdict == Spec => []QuietRunKeepsItsVerdict
<1>1. PipelineInv => QuietRunKeepsItsVerdict
  <2> SUFFICES ASSUME TypeOK, Stages, Unmoved, stored # None, quiet, BothTaken(original)
               PROVE  /\ original.created = {}
                      /\ original.boundary = IF original.pre.files = {} THEN "CLEAN"
                                             ELSE "DIRTY_PREEXISTING"
                      /\ original.status = original.executor.declared
                      /\ original.head = original.tree
    BY DEF PipelineInv, QuietRunKeepsItsVerdict
  <2> DEFINE after == packet.boundary.post
  <2>1. pc = "saved"
    BY DEF TypeOK
  <2>2. /\ pre \in {Untaken, Taken(Listed)} /\ after \in {Untaken, Taken(Listed)}
        /\ packet.at["head"] = head /\ packet.at["tree"] = head
    BY <2>1 DEF Unmoved, Executed, Concluded
  <2>3. /\ original.pre = pre /\ original.post = after
        /\ packet.boundary = build_mutation_boundary(pre, after)
        /\ original.created = packet.boundary.created
        /\ original.boundary = packet.boundary.boundary
        /\ original.executor.declared = FirstVerdict(task, pre).status
        /\ original.head = packet.at.head /\ original.tree = packet.at.tree
    BY EvidenceOfStages
  <2>4. trusted_sources(pre, after)
    BY <2>3 DEF BothTaken
  <2>5. pre = Taken(Listed) /\ after = Taken(Listed)
    BY <2>2, <2>4 DEF trusted_sources, Untaken
  <2>6. compute_mutation_delta(pre.files, after.files) = {}
    BY <2>5, DeltaEmpty
  <2>7. /\ packet.boundary.created = {}
        /\ packet.boundary.boundary = IF pre.files = {} THEN "CLEAN" ELSE "DIRTY_PREEXISTING"
    <3>1. LET b == build_mutation_boundary(pre, after)
          IN b.created = {} /\ b.boundary = IF pre.files = {} THEN "CLEAN" ELSE "DIRTY_PREEXISTING"
      BY <2>4, <2>6 DEF build_mutation_boundary
    <3> QED
      BY <2>3, <3>1
  <2> HIDE DEF after
  <2>8. original.status = FirstVerdict(task, original.pre).status
    BY <2>3, <2>5, SavedVerdict
  <2> QED
    BY <2>2, <2>3, <2>7, <2>8
<1> QED
  BY <1>1, PipelineInvariant, PTL

-----------------------------------------------------------------------------
(* What "aeg verify" accepts.                                                *)

(* A run of high risk is gated, and the files a verdict is of give the same  *)
(* verdict once more.                                                        *)
LEMMA JudgedAgain ==
  ASSUME NEW t, NEW files, NEW source
  PROVE  LET j == Judged(t, files, source)
         IN /\ j.risk = "HIGH" => j.status = "NEEDS_USER_GATE"
            /\ j.status = "NEEDS_USER_GATE" => \E c \in j.card : \A f \in DOMAIN c : c[f] = j[f]
            /\ \A c \in j.card : "protected" \in DOMAIN c
            /\ Judged(t, files, j.source) = j
<1> DEFINE j == Judged(t, files, source)
<1>1. j.risk = "HIGH" => j.status = "NEEDS_USER_GATE"
  BY DEF Judged, apply_law
<1>2. j.status = "NEEDS_USER_GATE" =>
        j.card = {[risk |-> j.risk, status |-> j.status, intent |-> j.intent,
                   impact |-> j.impact, protected |-> j.protected]}
  BY DEF Judged
<1>3. j.status # "NEEDS_USER_GATE" => j.card = {}
  BY DEF Judged
<1>4. j.source = Resolved(files, source)
  BY DEF Judged
<1>5. classify_impact(files, Resolved(files, source)) = classify_impact(files, source)
  BY DEF classify_impact, Resolved
<1>6. Resolved(files, Resolved(files, source)) = Resolved(files, source)
  BY DEF Resolved
<1>7. Judged(t, files, j.source) = j
  BY <1>4, <1>5, <1>6 DEF Judged
<1> HIDE DEF j
<1>8. LET c == [risk |-> j.risk, status |-> j.status, intent |-> j.intent,
                impact |-> j.impact, protected |-> j.protected]
      IN (\A f \in DOMAIN c : c[f] = j[f]) /\ "protected" \in DOMAIN c
  OBVIOUS
<1> QED
  BY <1>1, <1>2, <1>3, <1>7, <1>8 DEF j

(* What is bound together of a record just saved. *)
LEMMA SavedParts ==
  ASSUME NEW e
  PROVE  LET s == Saved(e)
         IN /\ s.evidence = e
            /\ \A f \in ManifestFields : s.manifest.copy[f] = e[f]
            /\ \A f \in BoundFields : s.bound.copy[f] = e[f]
            /\ _verify_ledger_chain_entry(s)
            /\ validate_evidence_binding_v1(s)
            /\ _verify_manifest_binding(s)
<1> DEFINE m == build_run_manifest(e)
           s == Saved(e)
<1>1. /\ s.evidence = e /\ s.current_evidence_hash = e /\ s.manifest = m
      /\ s.bound = bind_evidence_to_manifest(m) /\ s.line = LedgerLine(m)
  BY DEF Saved
<1>2. /\ m.current_evidence_hash = e
      /\ \A f \in ManifestFields : m.copy[f] = e[f]
      /\ \A f \in HashedFields : m.hash[f] = e[f]
  BY DEF build_run_manifest
<1>3. /\ BoundFields \subseteq ManifestFields /\ LedgerFields \subseteq ManifestFields
      /\ HashedFields \subseteq ManifestFields /\ {"root", "head", "tree"} \subseteq BoundFields
  BY DEF BoundFields, LedgerFields, HashedFields, ManifestFields
<1> HIDE DEF m, s
<1>4. s.bound.manifest = m /\ \A f \in BoundFields : s.bound.copy[f] = m.copy[f]
  BY <1>1 DEF bind_evidence_to_manifest
<1>5. /\ s.line.manifest = m /\ s.line.current_evidence_hash = m.current_evidence_hash
      /\ \A f \in LedgerFields : s.line.copy[f] = m.copy[f]
  BY <1>1 DEF LedgerLine
<1>6. _verify_ledger_chain_entry(s)
  BY <1>1, <1>2, <1>3, <1>5 DEF _verify_ledger_chain_entry
<1>7. validate_evidence_binding_v1(s) /\ _verify_manifest_binding(s)
  BY <1>1, <1>2, <1>3, <1>4 DEF validate_evidence_binding_v1, _verify_manifest_binding
<1> QED
  BY <1>1, <1>2, <1>3, <1>4, <1>6, <1>7 DEF s

(* The commits asked for are commits there were, and a record nobody changed *)
(* is the one save_run left.                                                 *)
AskedInv ==
  /\ pc \in Concluded \ {"head"} =>
       "head" \in DOMAIN packet.at /\ packet.at["head"] \in 1..head
  /\ pc \in Concluded \ {"head", "tree"} =>
       "tree" \in DOMAIN packet.at /\ packet.at["tree"] \in 1..head
  /\ stored # None /\ alters = 0 => stored = Saved(original)

LEMMA AskSets ==
  ASSUME Stages, NEW from \in {"head", "tree", "dirty"}, NEW to, NEW f, NEW v, Ask(from, to, f, v)
  PROVE  /\ pc = from /\ pc' = to /\ UNCHANGED <<head, store>>
         /\ f \in DOMAIN packet'.at /\ packet'.at[f] = v
         /\ \A g \in DOMAIN packet.at \ {f} : g \in DOMAIN packet'.at /\ packet'.at[g] = packet.at[g]
<1>1. pc = from /\ pc' = to /\ UNCHANGED <<head, store>>
  BY DEF Ask, Goto, world
<1>2. packet = [boundary |-> packet.boundary, at |-> packet.at, verdict |-> packet.verdict]
  BY <1>1 DEF Stages, Concluded
<1> DEFINE at == [g \in DOMAIN packet.at \cup {f} |-> IF g = f THEN v ELSE packet.at[g]]
<1>3. packet' = [packet EXCEPT !.at = at]
  BY DEF Ask
<1>4. DOMAIN at = DOMAIN packet.at \cup {f} /\ at[f] = v
      /\ \A g \in DOMAIN packet.at \ {f} : at[g] = packet.at[g]
  OBVIOUS
<1> HIDE DEF at
<1>5. packet'.at = at
  BY <1>2, <1>3
<1> QED
  BY <1>1, <1>4, <1>5

LEMMA AskedStep ==
  ASSUME TypeOK, Stages, AskedInv, [Next]_vars
  PROVE  AskedInv'
<1>1. head \in Nat /\ head >= 1
  <2>1. head \in 1..(edits + 1) /\ edits \in 0..MaxEvents /\ MaxEvents \in Nat
    BY BoundAssumption DEF TypeOK
  <2> QED
    BY <2>1
<1>2. ASSUME User
      PROVE  AskedInv'
  <2>1. UNCHANGED <<run, store>>
    BY <1>2, UserFrame
  <2>2. head' = head \/ head' = head + 1
    BY <1>2 DEF User, Edit, Stage, Restore, Rename, Commit, Prune, Move
  <2>3. 1..head \subseteq 1..head'
    BY <1>1, <2>2
  <2> QED
    BY <2>1, <2>3 DEF AskedInv, run, store, Concluded
<1>3. CASE UNCHANGED <<run, head>> /\ alters' = alters + 1
  <2>1. alters \in 0..MaxAlters /\ MaxAlters \in Nat
    BY BoundAssumption DEF TypeOK
  <2>2. alters' # 0
    BY <1>3, <2>1
  <2> QED
    BY <1>3, <2>2 DEF AskedInv, run, Concluded
<1>4. CASE Somebody
  <2>1. UNCHANGED <<run, head>>
    BY <1>4, SomebodyFrame DEF world
  <2>2. alters' = alters + 1
    BY <1>4 DEF Somebody, AlterEvidence, AlterManifest, AlterBoth, AlterVerdict, Altered
  <2> QED
    BY <1>3, <2>1, <2>2
<1>5. CASE UNCHANGED vars
  BY <1>5 DEF vars, world, run, store, AskedInv, Concluded
<1>6. CASE ReadOptions \/ AskStatus("pre status", "pre diff") \/ AskStatus("post status", "post diff")
           \/ capture_pre \/ capture_post \/ Fails
  <2>1. pc' \notin Concluded \ {"head"} /\ UNCHANGED store
    BY <1>6 DEF ReadOptions, AskStatus, capture_pre, Execute, capture_post, Conclude, Fails,
       Goto, Concluded
  <2>2. pc # "saved"
    BY <1>6 DEF ReadOptions, AskStatus, capture_pre, capture_post, Fails
  <2>3. stored = None
    BY <2>2 DEF TypeOK
  <2> QED
    BY <2>1, <2>3 DEF AskedInv, store, Concluded
<1>7. CASE ReadGit
  <2>1. stored = None /\ UNCHANGED store
    BY <1>7 DEF ReadGit, Ask, TypeOK
  <2>2. CASE Ask("head", "tree", "head", head)
    <3>1. /\ pc' = "tree" /\ head' = head
          /\ "head" \in DOMAIN packet'.at /\ packet'.at["head"] = head
      BY <2>2, AskSets
    <3> QED
      BY <1>1, <2>1, <3>1 DEF AskedInv, store
  <2>3. CASE Ask("tree", "dirty", "tree", head)
    <3>1. /\ pc = "tree" /\ pc' = "dirty" /\ head' = head
          /\ "tree" \in DOMAIN packet'.at /\ packet'.at["tree"] = head
          /\ \A g \in DOMAIN packet.at \ {"tree"} : g \in DOMAIN packet'.at /\ packet'.at[g] = packet.at[g]
      BY <2>3, AskSets
    <3>2. "head" \in DOMAIN packet.at /\ packet.at["head"] \in 1..head
      BY <3>1 DEF AskedInv, Concluded
    <3> QED
      BY <1>1, <2>1, <3>1, <3>2 DEF AskedInv, store
  <2>4. CASE Ask("dirty", "save", "is_dirty", status_porcelain # {})
    <3>1. /\ pc = "dirty" /\ pc' = "save" /\ head' = head
          /\ \A g \in DOMAIN packet.at \ {"is_dirty"} :
               g \in DOMAIN packet'.at /\ packet'.at[g] = packet.at[g]
      BY <2>4, AskSets
    <3>2. /\ "head" \in DOMAIN packet.at /\ packet.at["head"] \in 1..head
          /\ "tree" \in DOMAIN packet.at /\ packet.at["tree"] \in 1..head
      BY <3>1 DEF AskedInv, Concluded
    <3> QED
      BY <2>1, <3>1, <3>2 DEF AskedInv, store
  <2> QED
    BY <1>7, <2>2, <2>3, <2>4 DEF ReadGit
<1>8. CASE save_run
  <2>1. /\ pc = "save" /\ pc' = "saved" /\ UNCHANGED <<head, packet>>
        /\ stored' = Saved(original')
    BY <1>8 DEF save_run, Goto, world
  <2>2. /\ "head" \in DOMAIN packet.at /\ packet.at["head"] \in 1..head
        /\ "tree" \in DOMAIN packet.at /\ packet.at["tree"] \in 1..head
    BY <2>1 DEF AskedInv, Concluded
  <2> QED
    BY <2>1, <2>2 DEF AskedInv
<1> QED
  BY <1>2, <1>4, <1>5, <1>6, <1>7, <1>8 DEF Next, Run

(* The checks verify_latest makes of a record as it was stored. *)
LEMMA HonestVerifies ==
  ASSUME TypeOK, Stages, AskedInv, stored # None, alters = 0
  PROVE  Verifies <=> /\ BothTaken(original) /\ original.task # "blank"
                      /\ root = original.root
                      /\ {original.head, original.tree} \cap lost = {}
<1> DEFINE e == original
           b == packet.boundary
           v == packet.verdict
<1>1. pc = "saved" /\ task \in Task
  BY DEF TypeOK
<1>2. /\ executor = execute_contract(task, FirstVerdict(task, pre).status)
      /\ b = build_mutation_boundary(pre, b.post)
      /\ v = _classification_after_mutation_boundary(task, b)
      /\ e = build_evidence_packet(task, executor, b, v, packet.at, options)
      /\ options \in [citizen_one : BOOLEAN, proposal_stub : BOOLEAN]
  BY <1>1 DEF Stages, Executed, Concluded, TypeOK
<1>3. stored = Saved(e)
  BY DEF AskedInv
<1>4. packet.at["head"] \in 1..head /\ packet.at["tree"] \in 1..head
  BY <1>1 DEF AskedInv, Concluded
<1>5. \E files, source : v = Judged(task, files, source)
  BY <1>2 DEF _classification_after_mutation_boundary, FirstVerdict
<1>6. PICK files, source : v = Judged(task, files, source)
  BY <1>5
<1>7. /\ v.risk = "HIGH" => v.status = "NEEDS_USER_GATE"
      /\ v.status = "NEEDS_USER_GATE" => \E c \in v.card : \A f \in DOMAIN c : c[f] = v[f]
      /\ Judged(task, files, v.source) = v /\ v.changed = files
  BY <1>6, JudgedAgain, JudgedFiles
<1> HIDE DEF b, v, e
<1>8. /\ e.task = task /\ e.executor = executor
      /\ e.root = packet.at.root /\ e.head = packet.at.head /\ e.tree = packet.at.tree
      /\ e.pre = b.pre /\ e.post = b.post /\ e.delta = b.delta /\ e.boundary = b.boundary
      /\ e.proposal = build_citizen_one_evidence(options.citizen_one, options.proposal_stub,
                                                 v.status = "NEEDS_USER_GATE")
      /\ e.authority = "none"
  BY <1>2 DEF build_evidence_packet
<1>9. \A f \in {"changed", "source", "intent", "impact", "risk", "protected", "status", "card"} :
        e[f] = v[f]
  BY <1>2 DEF build_evidence_packet
<1>10. /\ b.pre = pre /\ b.delta = compute_mutation_delta(b.pre.files, b.post.files)
       /\ trusted_sources(b.pre, b.post) =>
            b.boundary = _expected_mutation_boundary_status(TRUE, b.pre.files, b.delta)
  <2>1. LET m == build_mutation_boundary(pre, b.post)
        IN /\ m.pre = pre /\ m.delta = compute_mutation_delta(pre.files, b.post.files)
           /\ trusted_sources(pre, b.post) =>
                m.boundary = _expected_mutation_boundary_status(TRUE, pre.files, m.delta)
    BY DEF build_mutation_boundary, _expected_mutation_boundary_status
  <2> QED
    BY <1>2, <2>1
<1>11. _expected_mutation_boundary_status(TRUE, b.pre.files, b.delta) # "UNTRUSTED_SNAPSHOT"
  BY DEF _expected_mutation_boundary_status
<1>12. /\ stored.evidence = e
       /\ \A f \in ManifestFields : stored.manifest.copy[f] = e[f]
       /\ \A f \in BoundFields : stored.bound.copy[f] = e[f]
       /\ _verify_ledger_chain_entry(stored)
       /\ validate_evidence_binding_v1(stored)
       /\ _verify_manifest_binding(stored)
  BY <1>3, SavedParts
<1>13. BothTaken(e) <=> trusted_sources(b.pre, b.post)
  BY <1>8 DEF BothTaken
<1>14. BothTaken(e) <=> validate_evidence_packet(e)
  BY <1>8, <1>10, <1>11, <1>13 DEF validate_evidence_packet, BothTaken
<1>15. _validate_citizen_one_fields(e)
  <2>1. /\ e.proposal.requested = options.citizen_one
        /\ e.proposal.present = (options.citizen_one /\ options.proposal_stub)
        /\ e.proposal.gate = (options.citizen_one /\ v.status = "NEEDS_USER_GATE")
    BY <1>8 DEF build_citizen_one_evidence
  <2> QED
    BY <1>2, <2>1 DEF _validate_citizen_one_fields
<1>16. _validate_proposal_contract_fields(e)
  <2>1. /\ e.proposal.requested = options.citizen_one
        /\ e.proposal.gate = (options.citizen_one /\ v.status = "NEEDS_USER_GATE")
    BY <1>8 DEF build_citizen_one_evidence
  <2>2. e.status = v.status /\ e.risk = v.risk
    BY <1>9
  <2> QED
    BY <1>2, <1>7, <2>1, <2>2 DEF _validate_proposal_contract_fields
<1>17. BothTaken(e) => _verify_mutation_boundary(stored)
  <2>1. stored.manifest.copy["delta"] = e.delta
    BY <1>12 DEF ManifestFields
  <2> QED
    BY <1>8, <1>10, <1>12, <1>13, <2>1 DEF _verify_mutation_boundary
<1>18. validate_completion_contract_v0(e) <=> e.task # "blank"
  <2>1. e.executor.task = e.task
    BY <1>2, <1>8 DEF execute_contract
  <2> QED
    BY <2>1 DEF validate_completion_contract_v0
<1>19. validate_user_gate_reason_card_v1(e)
  <2>1. e.risk = v.risk /\ e.status = v.status /\ e.card = v.card
    BY <1>9
  <2>2. \A c \in v.card : DOMAIN c = {"risk", "status", "intent", "impact", "protected"}
    BY <1>6 DEF Judged
  <2> QED
    BY <1>7, <1>9, <2>1, <2>2 DEF validate_user_gate_reason_card_v1
<1>20. Replayed(stored)
  <2>1. stored.manifest.copy["changed"] = v.changed /\ stored.manifest.copy["source"] = v.source
    BY <1>9, <1>12 DEF ManifestFields
  <2> QED
    BY <1>7, <1>8, <1>9, <1>12, <2>1 DEF Replayed
<1>21. stored.bound.copy["head"] = e.head /\ stored.bound.copy["tree"] = e.tree
  BY <1>12 DEF BoundFields
<1>22. e.head \in 1..head /\ e.tree \in 1..head
  BY <1>4, <1>8
<1>23. Verifies <=> /\ validate_evidence_packet(e) /\ _verify_mutation_boundary(stored)
                    /\ validate_completion_contract_v0(e)
                    /\ e.root = root
                    /\ e.head \in (1..head) \ lost /\ e.tree \in (1..head) \ lost
  BY <1>12, <1>15, <1>16, <1>19, <1>20, <1>21 DEF Verifies, verify_latest
<1> QED
  BY <1>14, <1>17, <1>18, <1>22, <1>23 DEF e

(* save_run and verify_latest agree about every run that can happen, for any *)
(* files, roots and numbers of commits: the record nobody touched verifies   *)
(* exactly when both snapshots were taken, the task was not blank, and the   *)
(* repository still is where it was and has the commits.                     *)
THEOREM HonestRunAlwaysVerifies == Spec => []HonestRunVerifies
<1> DEFINE Inv == TypeOK /\ Stages /\ Unmoved /\ Sealed /\ AskedInv
<1>1. Init => Inv
  <2>1. Init => AskedInv
    BY DEF Init, AskedInv, Concluded
  <2> QED
    BY <2>1, InitHolds
<1>2. Inv /\ [Next]_vars => Inv'
  BY TypeStep, StagesStep, UnmovedStep, SealedStep, AskedStep
<1>3. Inv => HonestRunVerifies
  BY HonestVerifies DEF HonestRunVerifies
<1> QED
  BY <1>1, <1>2, <1>3, PTL DEF Spec

-----------------------------------------------------------------------------
(* A record that was changed and made to fit again.                          *)

(* No change of the record adds a card that is not of a verdict. *)
CardsNamed(e) == "card" \in DOMAIN e /\ \A c \in e.card : "protected" \in DOMAIN c

CardInv == stored # None => CardsNamed(stored.evidence)

LEMMA CardKept ==
  ASSUME NEW e, CardsNamed(e), NEW f, NEW v, f = "card" => v = {}
  PROVE  CardsNamed([e EXCEPT ![f] = v])
BY DEF CardsNamed

LEMMA OtherCard == Other("card") \subseteq {{}}
BY DEF Other

LEMMA CardStep ==
  ASSUME TypeOK, Stages, Sealed, CardInv, [Next]_vars
  PROVE  CardInv'
<1>1. CASE UNCHANGED stored
  BY <1>1 DEF CardInv, CardsNamed
<1>2. CASE save_run
  <2>1. /\ pc = "save"
        /\ stored' = Saved(build_evidence_packet(task, executor, packet.boundary, packet.verdict,
                                                 packet.at, options))
    BY <1>2 DEF save_run
  <2> DEFINE e == build_evidence_packet(task, executor, packet.boundary, packet.verdict,
                                        packet.at, options)
  <2>2. "card" \in DOMAIN e /\ e.card = packet.verdict.card
    BY DEF build_evidence_packet
  <2>3. packet.verdict = _classification_after_mutation_boundary(task, packet.boundary)
    BY <2>1 DEF Stages, Concluded
  <2>4. \E t, files, source : packet.verdict = Judged(t, files, source)
    BY <2>3 DEF _classification_after_mutation_boundary, FirstVerdict
  <2> HIDE DEF e
  <2>5. stored'.evidence = e
    BY <2>1 DEF Saved, e
  <2>6. CardsNamed(e)
    BY <2>2, <2>4, JudgedAgain DEF CardsNamed
  <2>7. CardsNamed(stored'.evidence)
    BY <2>5, <2>6
  <2> QED
    BY <2>7 DEF CardInv, CardsNamed
<1>3. CASE stored # None /\ Somebody
  <2>1. /\ stored = [evidence |-> stored.evidence, manifest |-> stored.manifest,
                     current_evidence_hash |-> stored.current_evidence_hash,
                     bound |-> stored.bound, line |-> stored.line]
        /\ CardsNamed(stored.evidence)
    BY <1>3 DEF Sealed, CardInv
  <2>2. ASSUME NEW e, Rebind(e)
        PROVE  stored'.evidence = e
    BY <2>2 DEF Rebind, Saved
  <2>3. ASSUME NEW f, AlterEvidence(f)
        PROVE  CardsNamed(stored'.evidence)
    <3>1. PICK v \in Other(f), hashed \in BOOLEAN :
             LET e == [stored.evidence EXCEPT ![f] = v]
                 n == [stored.manifest EXCEPT !.current_evidence_hash = e]
             IN stored' = IF hashed
                  THEN [evidence |-> e, current_evidence_hash |-> e, manifest |-> n,
                        bound |-> bind_evidence_to_manifest(n), line |-> LedgerLine(n)]
                  ELSE [stored EXCEPT !.evidence = e]
      BY <2>3 DEF AlterEvidence
    <3>2. stored'.evidence = [stored.evidence EXCEPT ![f] = v]
      BY <2>1, <3>1
    <3>3. f = "card" => v = {}
      BY <3>1, OtherCard
    <3> QED
      BY <2>1, <3>2, <3>3, CardKept, SMTT(30)
  <2>4. ASSUME NEW f, AlterManifest(f)
        PROVE  CardsNamed(stored'.evidence)
    <3>1. \E n, line : stored' = [stored EXCEPT !.manifest = n, !.bound.manifest = n, !.line = line]
      BY <2>4 DEF AlterManifest
    <3>2. stored'.evidence = stored.evidence
      BY <2>1, <3>1
    <3> QED
      BY <2>1, <3>2
  <2>5. ASSUME NEW f, AlterBoth(f)
        PROVE  CardsNamed(stored'.evidence)
    <3>1. PICK v \in Other(f) : Rebind([stored.evidence EXCEPT ![f] = v])
      BY <2>5 DEF AlterBoth
    <3>2. stored'.evidence = [stored.evidence EXCEPT ![f] = v]
      BY <2>2, <3>1
    <3>3. f = "card" => v = {}
      BY <3>1, OtherCard
    <3> QED
      BY <2>1, <3>2, <3>3, CardKept
  <2>6. ASSUME AlterVerdict
        PROVE  CardsNamed(stored'.evidence)
    <3>1. PICK t \in Task, c \in {stored.evidence.changed} \cup Other("changed"),
               s \in {stored.evidence.source} \cup Other("source"),
               kept \in {{}, {"changed", "source"}} :
            LET j == Judged(t, c, s)
            IN Rebind([f \in DOMAIN stored.evidence |->
                         IF f \in DOMAIN j \ kept THEN j[f] ELSE stored.evidence[f]])
      BY <2>6, Zenon DEF AlterVerdict
    <3> DEFINE j == Judged(t, c, s)
               e == [f \in DOMAIN stored.evidence |->
                       IF f \in DOMAIN j \ kept THEN j[f] ELSE stored.evidence[f]]
    <3>a. Rebind(e)
      BY <3>1
    <3>2. stored'.evidence = e
      BY <2>2, <3>a
    <3>3. \A x \in j.card : "protected" \in DOMAIN x
      BY JudgedAgain
    <3>4. "card" \in DOMAIN e /\ e.card \in {j.card, stored.evidence.card}
      BY <2>1 DEF CardsNamed
    <3> HIDE DEF e, j
    <3>5. CardsNamed(e)
      BY <2>1, <3>3, <3>4 DEF CardsNamed
    <3> QED
      BY <3>2, <3>5
  <2>7. CardsNamed(stored'.evidence)
    BY <1>3, <2>3, <2>4, <2>5, <2>6, Zenon DEF Somebody
  <2>8. CardsNamed(stored'.evidence) => CardInv'
    BY DEF CardInv, CardsNamed
  <2> QED
    BY <2>7, <2>8
<1>4. CASE Run /\ ~save_run
  BY <1>1, <1>4 DEF Run, ReadOptions, AskStatus, capture_pre, Execute, capture_post, Conclude,
     ReadGit, Ask, Fails, store
<1>5. CASE User
  BY <1>1, <1>5, UserFrame DEF store
<1>6. CASE UNCHANGED vars
  BY <1>1, <1>6 DEF vars, store
<1> QED
  BY <1>2, <1>3, <1>4, <1>5, <1>6 DEF Next

LEMMA ConsistentHolds ==
  ASSUME CardInv
  PROVE  AcceptedIsConsistent
<1> SUFFICES ASSUME stored # None, Verifies
             PROVE  LET e == stored.evidence
                    IN /\ e.status = Judged(e.task, e.changed, e.source).status
                       /\ e.status = "NEEDS_USER_GATE" =>
                            \E c \in e.card : c.protected = e.changed \cap Protected
                       /\ e.delta = compute_mutation_delta(e.pre.files, e.post.files)
                       /\ e.proposal.gate => e.status = "NEEDS_USER_GATE"
                       /\ e.authority = "none"
  BY DEF AcceptedIsConsistent
<1> DEFINE e == stored.evidence
           r == Judged(e.task, stored.manifest.copy["changed"], stored.manifest.copy["source"])
<1>1. /\ validate_evidence_packet(e) /\ _validate_citizen_one_fields(e)
      /\ _validate_proposal_contract_fields(e) /\ _verify_manifest_binding(stored)
      /\ _verify_mutation_boundary(stored) /\ validate_user_gate_reason_card_v1(e)
      /\ Replayed(stored)
  BY DEF Verifies, verify_latest
<1>2. \A f \in {"intent", "impact", "source", "protected", "risk", "status"} : e[f] = r[f]
  BY <1>1 DEF Replayed
<1>3. /\ stored.manifest.copy["changed"] = e.changed /\ stored.manifest.copy["source"] = e.source
  BY <1>1 DEF _verify_manifest_binding, ManifestFields
<1>4. r = Judged(e.task, e.changed, e.source)
  BY <1>3
<1>5. r.protected = e.changed \cap Protected /\ (r.risk = "HIGH" => r.status = "NEEDS_USER_GATE")
  <2>1. LET j == Judged(e.task, e.changed, e.source)
        IN j.protected = e.changed \cap Protected /\ (j.risk = "HIGH" => j.status = "NEEDS_USER_GATE")
    BY DEF Judged, apply_law
  <2> HIDE DEF e, r
  <2> QED
    BY <1>4, <2>1
<1>6. e.delta = compute_mutation_delta(e.pre.files, e.post.files)
  BY <1>1 DEF _verify_mutation_boundary
<1>7. e.authority = "none"
  BY <1>1 DEF validate_evidence_packet
<1>8. \A c \in e.card : "protected" \in DOMAIN c
  BY DEF CardInv, CardsNamed
<1> HIDE DEF e, r
<1>9. e.proposal.gate => e.status = "NEEDS_USER_GATE"
  <2>1. e.proposal.requested => e.proposal.gate = (e.status = "NEEDS_USER_GATE" \/ e.risk = "HIGH")
    BY <1>1 DEF _validate_proposal_contract_fields
  <2>2. ~e.proposal.requested => ~e.proposal.gate
    BY <1>1 DEF _validate_citizen_one_fields
  <2>3. e.risk = "HIGH" => e.status = "NEEDS_USER_GATE"
    BY <1>2, <1>5
  <2> QED
    BY <2>1, <2>2, <2>3
<1>10. e.status = "NEEDS_USER_GATE" => \E c \in e.card : c.protected = e.changed \cap Protected
  <2> SUFFICES ASSUME e.status = "NEEDS_USER_GATE"
               PROVE  \E c \in e.card : c.protected = e.changed \cap Protected
    OBVIOUS
  <2>1. PICK c \in e.card : \A f \in DOMAIN c : c[f] = e[f]
    BY <1>1 DEF validate_user_gate_reason_card_v1
  <2>2. c.protected = e.protected
    BY <1>8, <2>1
  <2> QED
    BY <1>2, <1>5, <2>1, <2>2
<1>11. e.status = r.status
  BY <1>2
<1>12. e.status = Judged(e.task, e.changed, e.source).status
  BY <1>4, <1>11
<1> QED
  BY <1>6, <1>7, <1>9, <1>10, <1>12 DEF e

(* Whoever makes a record anew after any number of changes, "aeg verify"     *)
(* accepts it only with the status the law gives its task and files          *)
(* (Replayed), a card that names the protected ones, the difference of its   *)
(* own snapshots, a gate the status asks for, and no claim of authority.     *)
THEOREM AcceptedIsAlwaysConsistent == Spec => []AcceptedIsConsistent
<1> DEFINE Inv == TypeOK /\ Stages /\ Unmoved /\ Sealed /\ CardInv
<1>1. Init => Inv
  <2>1. Init => CardInv
    BY DEF Init, CardInv
  <2> QED
    BY <2>1, InitHolds
<1>2. Inv /\ [Next]_vars => Inv'
  BY TypeStep, StagesStep, UnmovedStep, SealedStep, CardStep
<1>3. Inv => AcceptedIsConsistent
  BY ConsistentHolds
<1> QED
  BY <1>1, <1>2, <1>3, PTL DEF Spec
================================================================================
