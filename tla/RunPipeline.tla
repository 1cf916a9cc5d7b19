------------------------------ MODULE RunPipeline ------------------------------
(***************************************************************************)
(* One "aeg run" (_cmd_run of cli/main.py), from the first look at the     *)
(* work tree to the saved evidence, while its user goes on working in the  *)
(* same tree, and what "aeg verify" then makes of the record, left alone   *)
(* or changed by somebody.                                                 *)
(*                                                                         *)
(* Every call of git is a step: a snapshot asks git status and then git    *)
(* diff, the packet asks for the head, its tree and git status once more.  *)
(* Saving is one step here; RunStore takes it apart.                       *)
(***************************************************************************)
EXTENDS RunEvidence

CONSTANTS
    File,         \* files of the work tree outside .aeg
    Tracked,      \* those the first commit has
    status_name,  \* what git status writes for a file: a name with a space, or one
                  \* that is not ASCII, comes in quotes, and nobody takes them off
    diff_name,    \* what git diff writes for it: a space asks for no quotes there
    Root,         \* where the repository may be
    Home,         \* where it is at first
    MaxEvents,    \* bound: changes of the work tree, commits, lost objects, moves
                  \* of the repository and changes of the record, together
    MaxAlters     \* bound: changes of the record

ASSUME TrackedAssumption == Tracked \subseteq File /\ None \notin File /\ Home \in Root
ASSUME NameAssumption ==
    /\ status_name \in [File -> Path] /\ diff_name \in [File -> Path]
    /\ \A f, g \in File : status_name[f] = status_name[g] => f = g
ASSUME BoundAssumption == {MaxEvents, MaxAlters} \subseteq Nat

VARIABLES
    tree,      \* what git status has to say of each file
    head,      \* the commit checked out; its tree has the same number
    lost,      \* commits git no longer has
    root,      \* where the repository is
    pc,        \* where aeg run is
    task, options,
    partial,   \* the lines of git status a snapshot has before git diff is asked
    pre,       \* the snapshot before the executor
    executor,  \* what the executor returned
    packet,    \* the mutation boundary, the verdict and what was read of git so far
    stored,    \* what is stored of the run
    original,  \* history: what save_run stored
    resealed,  \* history: a change of the record went with a new ledger line
    quiet,     \* history: nobody but aeg run did anything since it began
    edits, alters

world == <<tree, head, lost, root, quiet, edits>>
run == <<pc, task, options, partial, pre, executor, packet>>
store == <<stored, original, resealed, alters>>
vars == <<world, run, store>>

Letters == {"clean", "staged", "unstaged", "both", "untracked"}
Line(s, o) == [state |-> s, original_path |-> o]
Clean == Line("clean", None)

Goto(l) == pc' = l

(* At most one file differs from the first commit. *)
Init ==
    /\ tree \in {[[q \in File |-> Clean] EXCEPT ![p] = Line(s, None)] : p \in Tracked,
                   s \in {"clean", "staged", "unstaged", "both"}}
           \cup {[[q \in File |-> Clean] EXCEPT ![p] = Line(s, None)] : p \in File \ Tracked,
                   s \in {"untracked", "staged", "both"}}
           \cup {[[q \in File |-> Clean] EXCEPT ![p] = Line("staged", o)] :
                   p \in File \ Tracked, o \in Tracked}
    /\ head = 1 /\ lost = {} /\ root = Home
    /\ pc = "options" /\ task \in Task
    /\ options \in [citizen_one: BOOLEAN, proposal_stub: BOOLEAN]
    /\ partial = {} /\ pre = None /\ executor = None /\ packet = None
    /\ stored = None /\ original = None /\ resealed = FALSE
    /\ quiet = TRUE /\ edits = 0 /\ alters = 0

-----------------------------------------------------------------------------
(* The user. *)

Edited == edits + alters < MaxEvents /\ edits' = edits + 1 /\ quiet' = FALSE

RenamedAway(p) == \E q \in File : tree[q].original_path = p

(* A file is written.  One already changed in the work tree stays as git   *)
(* status has it, whatever is written.                                     *)
Edit(p) ==
    /\ ~RenamedAway(p)
    /\ tree[p].state \in {"clean", "staged"}
    /\ tree' = [tree EXCEPT ![p].state =
                  CASE tree[p].state = "staged" -> "both"
                    [] p \in Tracked -> "unstaged"
                    [] OTHER -> "untracked"]
    /\ Edited /\ UNCHANGED <<head, lost, root, run, store>>

Stage(p) ==
    /\ tree[p].state \in {"unstaged", "both", "untracked"}
    /\ tree' = [tree EXCEPT ![p].state = "staged"]
    /\ Edited /\ UNCHANGED <<head, lost, root, run, store>>

(* git restore, git rm --cached and rm: as if nothing had happened. *)
Restore(p) ==
    /\ tree[p].state # "clean"
    /\ tree' = [tree EXCEPT ![p] = Clean]
    /\ Edited /\ UNCHANGED <<head, lost, root, run, store>>

(* git mv of a file without changes to a name that is free. *)
Rename(p, q) ==
    /\ p \in Tracked /\ q \in File \ Tracked
    /\ tree[p] = Clean /\ ~RenamedAway(p) /\ tree[q] = Clean
    /\ tree' = [tree EXCEPT ![q] = Line("staged", p)]
    /\ Edited /\ UNCHANGED <<head, lost, root, run, store>>

(* No renames: the model keeps the paths of the first commit. *)
Commit ==
    /\ \E p \in File : tree[p].state = "staged"
    /\ \A p \in File : tree[p].state \in {"staged", "both"} =>
                         p \in Tracked /\ tree[p].original_path = None
    /\ tree' = [p \in File |-> CASE tree[p].state = "staged" -> Clean
                                 [] tree[p].state = "both" -> Line("unstaged", None)
                                 [] OTHER -> tree[p]]
    /\ head' = head + 1
    /\ Edited /\ UNCHANGED <<lost, root, run, store>>

(* After the run: an amended commit is pruned; the repository moves. *)
Prune ==
    /\ pc = "saved"
    /\ \E h \in 1..(head - 1) : lost' = lost \cup {h}
    /\ Edited /\ UNCHANGED <<tree, head, root, run, store>>

Move ==
    /\ pc = "saved"
    /\ root' \in Root \ {root}
    /\ Edited /\ UNCHANGED <<tree, head, lost, run, store>>

User ==
    \/ \E p \in File : Edit(p) \/ Stage(p) \/ Restore(p) \/ \E q \in File : Rename(p, q)
    \/ Commit \/ Prune \/ Move

-----------------------------------------------------------------------------
(* aeg run. *)

(* --proposal-stub without --citizen-one exits before anything is read. *)
ReadOptions ==
    /\ pc = "options"
    /\ Goto(IF options.proposal_stub /\ ~options.citizen_one THEN "failed" ELSE "pre status")
    /\ UNCHANGED <<world, store, task, options, partial, pre, executor, packet>>

(* Every file that is not clean, by the name git status writes. *)
status_porcelain ==
    LET Named(q) == IF q = None THEN None ELSE status_name[q]
    IN {[path |-> status_name[p], original_path |-> Named(tree[p].original_path),
         state |-> tree[p].state] : p \in {q \in File : tree[q].state # "clean"}}

(* git diff --name-status HEAD names what differs from the commit; of the  *)
(* lines of git status, asked before, those it names are marked.           *)
_tracked_diff_status ==
    {diff_name[p] : p \in {q \in File : tree[q].state \notin {"clean", "untracked"}}}

changed_file_snapshot ==
    {[path |-> l.path, original_path |-> l.original_path, state |-> l.state,
      diff |-> l.path \in _tracked_diff_status] : l \in partial}

AskStatus(from, to) ==
    /\ pc = from
    /\ partial' = status_porcelain
    /\ Goto(to)
    /\ UNCHANGED <<world, store, task, options, pre, executor, packet>>

(* The first verdict is what the executor is given and declares. *)
Execute(snapshot) ==
    /\ pre' = snapshot
    /\ executor' = execute_contract(task, FirstVerdict(task, snapshot).status)
    /\ partial' = {} /\ Goto("post status")
    /\ UNCHANGED <<world, store, task, options, packet>>

capture_pre ==
    \/ pc = "pre diff" /\ Execute(Taken(changed_file_snapshot))
    \/ pc \in {"pre status", "pre diff"} /\ Execute(Untaken)

(* The boundary and the final verdict follow from the second snapshot. *)
Conclude(snapshot) ==
    LET b == build_mutation_boundary(pre, snapshot)
    IN /\ packet' = [boundary |-> b, at |-> [root |-> root],
                     verdict |-> _classification_after_mutation_boundary(task, b)]
       /\ partial' = {} /\ Goto("head")
       /\ UNCHANGED <<world, store, task, options, pre, executor>>

capture_post ==
    \/ pc = "post diff" /\ Conclude(Taken(changed_file_snapshot))
    \/ pc \in {"post status", "post diff"} /\ Conclude(Untaken)

(* build_evidence_packet asks git for the head, for the head's tree and    *)
(* for what is dirty.                                                      *)
Ask(from, to, f, v) ==
    /\ pc = from
    /\ packet' = [packet EXCEPT !.at = [g \in DOMAIN @ \cup {f} |-> IF g = f THEN v ELSE @[g]]]
    /\ Goto(to)
    /\ UNCHANGED <<world, store, task, options, partial, pre, executor>>

ReadGit ==
    \/ Ask("head", "tree", "head", head)
    \/ Ask("tree", "dirty", "tree", head)
    \/ Ask("dirty", "save", "is_dirty", status_porcelain # {})

save_run ==
    LET e == build_evidence_packet(task, executor, packet.boundary, packet.verdict,
                                   packet.at, options)
    IN /\ pc = "save" /\ Goto("saved")
       /\ stored' = Saved(e) /\ original' = e
       /\ UNCHANGED <<world, resealed, alters, task, options, partial, pre, executor, packet>>

(* Outside a snapshot a failing git, and any other failure, ends the run. *)
Fails ==
    /\ pc \in {"head", "tree", "dirty", "save"}
    /\ Goto("failed")
    /\ UNCHANGED <<world, store, task, options, partial, pre, executor, packet>>

Run ==
    \/ ReadOptions
    \/ AskStatus("pre status", "pre diff") \/ capture_pre
    \/ AskStatus("post status", "post diff") \/ capture_post
    \/ ReadGit \/ save_run \/ Fails

-----------------------------------------------------------------------------
(* Somebody changes the record. *)

(* Other values of a field, of those another run could have had. *)
Other(f) ==
    LET e == stored.evidence
    IN (CASE f = "task" -> Task
          [] f = "changed" -> {{}, e.changed \ Protected, e.changed \cup Docs}
          [] f = "source" -> {e.source, "NO_CHANGED_FILES", "NOT_CHECKED"}
          [] f \in {"intent", "risk"} -> Risk
          [] f = "impact" -> Impact
          [] f = "protected" -> {{}, Protected}
          [] f = "status" -> Status
          [] f = "card" -> {{}}
          [] f \in {"pre", "post"} -> {Untaken, Taken({}), e.pre, e.post}
          [] f \in {"delta", "created"} -> {{}, e.delta}
          [] f \in {"protected_mutation", "is_dirty"} -> BOOLEAN
          [] f = "boundary" -> Boundary
          [] f \in {"head", "tree"} -> {1}
          [] f = "root" -> Root
          [] f = "authority" -> {"claimed"}
          [] f = "proposal" -> [requested: BOOLEAN, present: BOOLEAN, gate: BOOLEAN]
          [] f = "executor" -> [task: Task, declared: Status]) \ {e[f]}

Altered == alters < MaxAlters /\ edits + alters < MaxEvents /\ alters' = alters + 1 /\ pc = "saved"

(* A field of the evidence, its hash left or remade wherever it is kept;   *)
(* of the manifest with its hash; or of both with everything that binds    *)
(* them remade.  The ledger line is new or left.                           *)
AlterEvidence(f) ==
    /\ Altered
    /\ \E v \in Other(f), hashed \in BOOLEAN :
         LET e == [stored.evidence EXCEPT ![f] = v]
             m == [stored.manifest EXCEPT !.current_evidence_hash = e]
         IN /\ stored' = IF hashed
                 THEN [evidence |-> e, current_evidence_hash |-> e, manifest |-> m,
                       bound |-> bind_evidence_to_manifest(m), line |-> LedgerLine(m)]
                 ELSE [stored EXCEPT !.evidence = e]
            /\ resealed' = (resealed \/ hashed)
    /\ UNCHANGED <<world, run, original>>

AlterManifest(f) ==
    /\ Altered /\ f \in ManifestFields
    /\ \E v \in Other(f), line \in BOOLEAN :
         LET m == [stored.manifest EXCEPT !.copy[f] = v,
                     !.hash = [g \in HashedFields |-> IF g = f THEN v ELSE @[g]]]
         IN /\ stored' = [stored EXCEPT !.manifest = m, !.bound.manifest = m,
                                        !.line = IF line THEN LedgerLine(m) ELSE @]
            /\ resealed' = (resealed \/ line)
    /\ UNCHANGED <<world, run, original>>

Rebind(e) ==
    \E line \in BOOLEAN :
       /\ stored' = [Saved(e) EXCEPT !.line = IF line THEN @ ELSE stored.line]
       /\ resealed' = (resealed \/ line)

AlterBoth(f) ==
    /\ Altered
    /\ \E v \in Other(f) : Rebind([stored.evidence EXCEPT ![f] = v])
    /\ UNCHANGED <<world, run, original>>

(* The verdict on other files or another task is put in, its fields in     *)
(* agreement, with the files or without.                                   *)
AlterVerdict ==
    /\ Altered
    /\ \E t \in Task, c \in {stored.evidence.changed} \cup Other("changed"),
          s \in {stored.evidence.source} \cup Other("source"), kept \in {{}, {"changed", "source"}} :
         LET j == Judged(t, c, s)
         IN Rebind([f \in DOMAIN stored.evidence |->
                      IF f \in DOMAIN j \ kept THEN j[f] ELSE stored.evidence[f]])
    /\ UNCHANGED <<world, run, original>>

Somebody ==
    \/ \E f \in DOMAIN stored.evidence : AlterEvidence(f) \/ AlterManifest(f) \/ AlterBoth(f)
    \/ AlterVerdict

Next == Run \/ User \/ (stored # None /\ Somebody)

Spec == Init /\ [][Next]_vars

-----------------------------------------------------------------------------
(* Properties. *)

Verifies == verify_latest(stored, root, (1..head) \ lost)

BothTaken(e) == trusted_sources(e.pre, e.post)

(* The variables keep their kinds. *)
TypeOK ==
    /\ tree \in [File -> [state: Letters, original_path: File \cup {None}]]
    /\ edits \in 0..MaxEvents /\ alters \in 0..MaxAlters
    /\ head \in 1..(edits + 1) /\ lost \subseteq 1..(head - 1) /\ root \in Root
    /\ pc \in {"options", "pre status", "pre diff", "post status", "post diff",
               "head", "tree", "dirty", "save", "saved", "failed"}
    /\ task \in Task /\ options \in [citizen_one: BOOLEAN, proposal_stub: BOOLEAN]
    /\ partial \subseteq [path: Path, original_path: Path \cup {None},
                         state: Letters \ {"clean"}]
    /\ resealed \in BOOLEAN /\ quiet \in BOOLEAN
    /\ stored # None => pc = "saved"

Executed == {"post status", "post diff", "head", "tree", "dirty", "save", "saved"}
Concluded == {"head", "tree", "dirty", "save", "saved"}

(* From the executor on there is the first snapshot, and what the executor *)
(* returned is of it; from the second on there are the boundary of the two *)
(* and the verdict on it, and the evidence is of these.                    *)
Stages ==
    /\ pc \in Executed =>
         /\ pre \in Snapshot
         /\ executor = execute_contract(task, FirstVerdict(task, pre).status)
    /\ pc \in Concluded =>
         /\ packet = [boundary |-> packet.boundary, at |-> packet.at, verdict |-> packet.verdict]
         /\ packet.boundary.post \in Snapshot
         /\ packet.boundary = build_mutation_boundary(pre, packet.boundary.post)
         /\ packet.verdict = _classification_after_mutation_boundary(task, packet.boundary)
    /\ stored # None =>
         original = build_evidence_packet(task, executor, packet.boundary, packet.verdict,
                                          packet.at, options)

(* What git lists now, to a snapshot nothing comes in between of. *)
Listed ==
    {[path |-> l.path, original_path |-> l.original_path, state |-> l.state,
      diff |-> l.path \in _tracked_diff_status] : l \in status_porcelain}

(* While aeg run is alone, what it has of git is what git has. *)
Unmoved ==
    quiet =>
      /\ pc \in {"pre diff", "post diff"} => partial = status_porcelain
      /\ pc \in Executed => pre \in {Untaken, Taken(Listed)}
      /\ pc \in Concluded => packet.boundary.post \in {Untaken, Taken(Listed)}
      /\ pc \in Concluded \ {"head"} => "head" \in DOMAIN packet.at /\ packet.at["head"] = head
      /\ pc \in Concluded \ {"head", "tree"} =>
           "tree" \in DOMAIN packet.at /\ packet.at["tree"] = head

(* The ledger line has the hashes of the evidence and of the manifest      *)
(* save_run stored, until a change of the record comes with a new line.    *)
Sealed ==
    stored # None =>
      /\ stored = [evidence |-> stored.evidence, manifest |-> stored.manifest,
                   current_evidence_hash |-> stored.current_evidence_hash,
                   bound |-> stored.bound, line |-> stored.line]
      /\ ~resealed => stored.line = LedgerLine(build_run_manifest(original))

(* A record nobody touched verifies exactly when both snapshots were taken, *)
(* the task was not blank, the repository is where it was and git still    *)
(* has the commit: save_run and verify_latest agree about every run that   *)
(* can happen, changes of the tree during the run and an added proposal    *)
(* included.                                                               *)
HonestRunVerifies ==
    stored # None /\ alters = 0 =>
      (Verifies <=> /\ BothTaken(original) /\ original.task # "blank"
                    /\ root = original.root
                    /\ {original.head, original.tree} \cap lost = {})

(* A run whose work tree could not be looked at is never CLEAN_CORE, though *)
(* its executor was started on a verdict that may have said so.            *)
UncheckedIsNeverClean ==
    stored # None /\ ~BothTaken(original) => original.status # "CLEAN_CORE"

(* With both snapshots taken, every name git listed before or after the    *)
(* executor is among the changed files the verdict is of, and so is the    *)
(* name a rename that came or went in between started from; where          *)
(* is_protected_path holds of such a name, the run is gated and the card   *)
(* says it.  It is asked of the name as git wrote it: of a protected file  *)
(* that git quotes nothing here says that it gates the run.                *)
EveryDirtyPathIsJudged ==
    stored # None /\ BothTaken(original) =>
      LET before == original.pre.files
          after == original.post.files
          touched == {e.path : e \in before \cup after}
                     \cup ({e.original_path : e \in (before \ after) \cup (after \ before)} \ {None})
      IN /\ touched \subseteq original.changed
         /\ touched \cap Protected # {} =>
              original.status = "NEEDS_USER_GATE"
              /\ \E c \in original.card : touched \cap Protected \subseteq c.protected

(* The gate an executor was told of is still in the record, whatever was   *)
(* committed or restored while it ran, if both snapshots were taken.       *)
GateSurvivesTheRun ==
    stored # None /\ BothTaken(original) /\ original.executor.declared = "NEEDS_USER_GATE" =>
      original.status = "NEEDS_USER_GATE"

(* What holds at any moment of a run and of its evidence. *)
PipelineInv ==
    /\ TypeOK /\ Stages /\ Unmoved /\ Sealed
    /\ UncheckedIsNeverClean /\ EveryDirtyPathIsJudged /\ GateSurvivesTheRun

(* If nobody else did anything the executor created nothing, a tree that   *)
(* was clean is called clean, the verdict is the one the executor was      *)
(* given, and the commit and the tree recorded belong together.            *)
QuietRunKeepsItsVerdict ==
    stored # None /\ quiet /\ BothTaken(original) =>
      /\ original.created = {}
      /\ original.boundary = IF original.pre.files = {} THEN "CLEAN" ELSE "DIRTY_PREEXISTING"
      /\ original.status = original.executor.declared
      /\ original.head = original.tree

(* Without a new ledger line, evidence or manifest that was changed does   *)
(* not verify, with the hashes in them remade or not: what verifies is     *)
(* field for field the packet save_run stored and the manifest it built.   *)
AlteredIsSeen ==
    stored # None /\ ~resealed /\ Verifies =>
      /\ \A f \in DOMAIN original : stored.evidence[f] = original[f]
      /\ stored.manifest = build_run_manifest(original)

(* Even where everything was made anew, what verifies has the status the   *)
(* law gives its task and files, a card that names its protected files,    *)
(* the difference of its own snapshots, and claims no authority.           *)
AcceptedIsConsistent ==
    stored # None /\ Verifies =>
      LET e == stored.evidence
      IN /\ e.status = Judged(e.task, e.changed, e.source).status
         /\ e.status = "NEEDS_USER_GATE" => \E c \in e.card : c.protected = e.changed \cap Protected
         /\ e.delta = compute_mutation_delta(e.pre.files, e.post.files)
         /\ e.proposal.gate => e.status = "NEEDS_USER_GATE"
         /\ e.authority = "none"

=============================================================================
