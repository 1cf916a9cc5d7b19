------------------------------ MODULE RunEvidence ------------------------------
(***************************************************************************)
(* What "aeg run" records of a run and what "aeg verify" asks of the       *)
(* record: the snapshots of git status and their difference, the verdict,  *)
(* the evidence packet, the manifest and the ledger line bound to it.      *)
(*                                                                         *)
(* A hash is the value it is of.  What is constant in a packet because the *)
(* executor does nothing (actions, tools, capabilities, providers) is one  *)
(* field, authority: "none", or "claimed" by somebody who edited it.  The  *)
(* records of the writes under .aeg and the chain of the ledger have       *)
(* modules of their own.                                                   *)
(***************************************************************************)
EXTENDS Integers, FiniteSets

CONSTANTS
    Path,       \* names of files of the work tree outside .aeg, as git writes them
    Protected,  \* is_protected_path holds of them
    Docs,       \* documentation or formatting
    None

ASSUME PathAssumption ==
    Protected \subseteq Path /\ Docs \subseteq Path \ Protected /\ None \notin Path

(* A task text, as far as the rules on its words tell texts apart. *)
Task == {"high", "low", "other", "blank"}
Risk == {"LOW", "MEDIUM", "HIGH"}
Impact == Risk \cup {"NO_CHANGED_FILES", "NOT_CHECKED"}
Source == {"GIT_WORKING_TREE", "GIT_STAGED", "NO_CHANGED_FILES", "NOT_CHECKED"}
Status == {"CLEAN_CORE", "NOT_CHECKED", "NEEDS_USER_GATE"}
Boundary == {"CLEAN", "DIRTY_PREEXISTING", "DELTA_DETECTED", "UNTRUSTED_SNAPSHOT"}

-----------------------------------------------------------------------------
(* One line of git status: the two letters of a path as one state, where a *)
(* rename came from, and whether "git diff HEAD", asked later, lists it.   *)
Entry == [path: Path, original_path: Path \cup {None},
          state: {"staged", "unstaged", "both", "untracked"}, diff: BOOLEAN]

(* A snapshot that failed has no entries. *)
Snapshot == [files: SUBSET Entry, source: {"GIT_STATUS_PORCELAIN_V1", "NOT_CHECKED"}]

Taken(files) == [files |-> files, source |-> "GIT_STATUS_PORCELAIN_V1"]
Untaken == [files |-> {}, source |-> "NOT_CHECKED"]

changed_files_from_snapshot(files) == {e.path : e \in files}

changed_files_source_from_snapshot(files) ==
    CASE files = {} -> "NO_CHANGED_FILES"
      [] \E e \in files : e.state \in {"unstaged", "both", "untracked"} -> "GIT_WORKING_TREE"
      [] OTHER -> "GIT_STAGED"

Key(e) == <<e.path, e.original_path>>

(* Mutant: nothing that was listed before the run is told from what is new. *)
compute_mutation_delta_FromNothing(pre, post) == {[before |-> {}, after |-> {e}] : e \in post}

(* The entries with one key before and after, at most one each, where they *)
(* differ.                                                                 *)
compute_mutation_delta(pre, post) ==
    LET At(files, k) == {e \in files : Key(e) = k}
    IN {[before |-> At(pre, k), after |-> At(post, k)] :
          k \in {Key(e) : e \in (pre \ post) \cup (post \ pre)}}

mutation_delta_paths(delta) ==
    (UNION {{e.path, e.original_path} : e \in UNION {d.before \cup d.after : d \in delta}}) \ {None}

(* Mutant: what was dirty before hides what changed since. *)
_expected_mutation_boundary_status_Post(trusted, pre, delta) ==
    CASE ~trusted -> "UNTRUSTED_SNAPSHOT"
      [] trusted /\ pre # {} -> "DIRTY_PREEXISTING"
      [] trusted /\ pre = {} /\ delta # {} -> "DELTA_DETECTED"
      [] OTHER -> "CLEAN"

_expected_mutation_boundary_status(trusted, pre, delta) ==
    CASE ~trusted -> "UNTRUSTED_SNAPSHOT"
      [] trusted /\ delta # {} -> "DELTA_DETECTED"
      [] trusted /\ delta = {} /\ pre # {} -> "DIRTY_PREEXISTING"
      [] OTHER -> "CLEAN"

trusted_sources(pre, post) ==
    pre.source = "GIT_STATUS_PORCELAIN_V1" /\ post.source = "GIT_STATUS_PORCELAIN_V1"

build_mutation_boundary(pre, post) ==
    LET trusted == trusted_sources(pre, post)
        delta == compute_mutation_delta(pre.files, post.files)
    IN [pre |-> pre, post |-> post, delta |-> delta,
        created |-> IF trusted THEN delta ELSE {},
        protected_mutation |-> mutation_delta_paths(delta) \cap Protected # {},
        boundary |-> CASE ~trusted -> "UNTRUSTED_SNAPSHOT"
                       [] trusted /\ delta # {} -> "DELTA_DETECTED"
                       [] trusted /\ delta = {} /\ pre.files # {} -> "DIRTY_PREEXISTING"
                       [] OTHER -> "CLEAN"]

-----------------------------------------------------------------------------
(* The verdict. *)

intent_risk(task) ==
    CASE task = "high" -> "HIGH" [] task = "low" -> "LOW" [] OTHER -> "MEDIUM"

(* A source that names files where there are none becomes NO_CHANGED_FILES. *)
Resolved(files, source) ==
    IF files = {} /\ source # "NOT_CHECKED" THEN "NO_CHANGED_FILES" ELSE source

classify_impact(files, source) ==
    CASE source = "NOT_CHECKED" -> "NOT_CHECKED"
      [] source = "NO_CHANGED_FILES" /\ files # {} -> "NOT_CHECKED"
      [] source # "NOT_CHECKED" /\ files = {} -> "NO_CHANGED_FILES"
      [] OTHER -> CASE files \cap Protected # {} -> "HIGH"
                    [] files \subseteq Docs -> "LOW"
                    [] OTHER -> "MEDIUM"

Level == [LOW |-> 1, MEDIUM |-> 2, HIGH |-> 3]

merge_risks(intent, impact) ==
    IF impact \in Risk /\ Level[impact] > Level[intent] THEN impact ELSE intent

apply_law(risk, impact) ==
    CASE risk = "HIGH" -> "NEEDS_USER_GATE"
      [] risk = "LOW" /\ impact # "NOT_CHECKED" -> "CLEAN_CORE"
      [] OTHER -> "NOT_CHECKED"

(* classify_task and apply_law, with the card of a gated run. *)
Judged(task, files, source) ==
    LET intent == intent_risk(task)
        impact == classify_impact(files, source)
        risk == merge_risks(intent, impact)
        status == apply_law(risk, impact)
        protected == files \cap Protected
    IN [changed |-> files, source |-> Resolved(files, source), intent |-> intent,
        impact |-> impact, risk |-> risk, protected |-> protected, status |-> status,
        card |-> IF status = "NEEDS_USER_GATE"
                   THEN {[risk |-> risk, status |-> status, intent |-> intent,
                           impact |-> impact, protected |-> protected]}
                   ELSE {}]

(* Of a snapshot alone, before anything ran. *)
FirstVerdict(task, snapshot) ==
    Judged(task, changed_files_from_snapshot(snapshot.files),
           changed_files_source_from_snapshot(snapshot.files))

(* Mutant: the delta alone is judged, not what was dirty before. *)
_classification_after_mutation_boundary_DeltaOnly(task, b) ==
    CASE b.boundary = "UNTRUSTED_SNAPSHOT" -> Judged(task, {}, "NOT_CHECKED")
      [] b.boundary = "DELTA_DETECTED" ->
           Judged(task, mutation_delta_paths(b.delta), "GIT_WORKING_TREE")
      [] OTHER -> FirstVerdict(task, b.pre)

_classification_after_mutation_boundary(task, b) ==
    CASE b.boundary = "UNTRUSTED_SNAPSHOT" -> Judged(task, {}, "NOT_CHECKED")
      [] b.boundary = "DELTA_DETECTED" ->
           Judged(task, changed_files_from_snapshot(b.pre.files)
                          \cup mutation_delta_paths(b.delta), "GIT_WORKING_TREE")
      [] OTHER -> FirstVerdict(task, b.pre)

-----------------------------------------------------------------------------
(* Packet, manifest and ledger line. *)

(* Without the option there are no proposal fields. *)
build_citizen_one_evidence(requested, stub, gated) ==
    [requested |-> requested, present |-> requested /\ stub, gate |-> requested /\ gated]

execute_contract(task, status) == [task |-> task, declared |-> status]

build_evidence_packet(task, executor, b, verdict, at, options) ==
    [task |-> task, executor |-> executor,
     root |-> at.root, head |-> at.head, tree |-> at.tree, is_dirty |-> at.is_dirty,
     changed |-> verdict.changed, source |-> verdict.source, intent |-> verdict.intent,
     impact |-> verdict.impact, risk |-> verdict.risk, protected |-> verdict.protected,
     status |-> verdict.status, card |-> verdict.card,
     pre |-> b.pre, post |-> b.post, delta |-> b.delta, created |-> b.created,
     protected_mutation |-> b.protected_mutation, boundary |-> b.boundary,
     proposal |-> build_citizen_one_evidence(options.citizen_one, options.proposal_stub,
                                             verdict.status = "NEEDS_USER_GATE"),
     authority |-> "none"]

(* What the manifest repeats, what it also hashes, what the packet is told *)
(* of the manifest.                                                        *)
ManifestFields ==
    {"task", "root", "head", "tree", "changed", "source", "risk", "status", "pre", "post",
     "delta", "created", "protected_mutation", "boundary", "proposal", "authority"}
HashedFields == {"changed", "pre", "post", "delta", "created", "proposal", "authority"}
BoundFields == {"root", "head", "tree", "changed", "pre", "post", "delta", "authority"}
LedgerFields == {"head", "tree", "risk", "status"}

(* The hash of the whole packet, without what binds it, is in the packet,  *)
(* in the manifest and in the ledger line (build_ledger_integrity_metadata). *)
build_run_manifest(e) ==
    [copy |-> [f \in ManifestFields |-> e[f]], hash |-> [f \in HashedFields |-> e[f]],
     current_evidence_hash |-> e]

bind_evidence_to_manifest(m) == [copy |-> [f \in BoundFields |-> m.copy[f]], manifest |-> m]

LedgerLine(m) ==
    [copy |-> [f \in LedgerFields |-> m.copy[f]], manifest |-> m,
     current_evidence_hash |-> m.current_evidence_hash]

(* What save_run leaves of a packet. *)
Saved(e) ==
    LET m == build_run_manifest(e)
    IN [evidence |-> e, current_evidence_hash |-> e,
        bound |-> bind_evidence_to_manifest(m), manifest |-> m, line |-> LedgerLine(m)]

-----------------------------------------------------------------------------
(* aeg verify.  s is what is stored of the run, root where the repository  *)
(* is, readable the commits git still has.                                 *)

(* Mutant: the hashes of the evidence are compared with each other only. *)
_verify_ledger_chain_entry_NotHashed(s) ==
    /\ s.line.manifest = s.manifest
    /\ \A f \in LedgerFields : s.line.copy[f] = s.manifest.copy[f] /\ s.line.copy[f] = s.evidence[f]
    /\ {s.manifest.current_evidence_hash, s.current_evidence_hash} = {s.line.current_evidence_hash}

_verify_ledger_chain_entry(s) ==
    /\ s.line.current_evidence_hash = s.evidence
    /\ {s.manifest.current_evidence_hash, s.current_evidence_hash} = {s.line.current_evidence_hash}
    /\ s.line.manifest = s.manifest
    /\ \A f \in LedgerFields : s.line.copy[f] = s.manifest.copy[f] /\ s.line.copy[f] = s.evidence[f]

(* validate_evidence_packet, of what the model keeps. *)
validate_evidence_packet(e) ==
    /\ trusted_sources(e.pre, e.post)
    /\ e.boundary = "UNTRUSTED_SNAPSHOT" => e.status # "CLEAN_CORE"
    /\ e.authority = "none"

_validate_citizen_one_fields(e) ==
    ~e.proposal.requested => ~e.proposal.present /\ ~e.proposal.gate

_validate_proposal_contract_fields(e) ==
    e.proposal.requested => e.proposal.gate = (e.status = "NEEDS_USER_GATE" \/ e.risk = "HIGH")

validate_evidence_binding_v1(s) ==
    \A f \in {"root", "head", "tree"} : s.bound.copy[f] = s.evidence[f]

validate_completion_contract_v0(e) == e.task # "blank" /\ e.executor.task = e.task

validate_user_gate_reason_card_v1(e) ==
    e.risk = "HIGH" \/ e.status = "NEEDS_USER_GATE" =>
      \E c \in e.card : \A f \in DOMAIN c : c[f] = e[f]

_verify_manifest_binding(s) ==
    /\ s.bound.manifest = s.manifest
    /\ \A f \in ManifestFields : s.manifest.copy[f] = s.evidence[f]
    /\ \A f \in HashedFields : s.manifest.hash[f] = s.manifest.copy[f]
    /\ \A f \in BoundFields : s.bound.copy[f] = s.evidence[f]

_verify_mutation_boundary(s) ==
    LET e == s.evidence
        delta == compute_mutation_delta(e.pre.files, e.post.files)
    IN /\ e.delta = delta /\ s.manifest.copy["delta"] = delta
       /\ trusted_sources(e.pre, e.post)
       /\ e.boundary = _expected_mutation_boundary_status(TRUE, e.pre.files, delta)

(* Mutant: a gated status is taken for one. *)
Replayed_AnyGate(s) ==
    LET e == s.evidence
        r == Judged(e.task, s.manifest.copy["changed"], s.manifest.copy["source"])
    IN /\ \A f \in {"intent", "impact", "source", "protected", "risk"} : e[f] = r[f]
       /\ e.status # r.status => e.status = "NOT_CHECKED"

(* The verdict of the task on the manifest's files. *)
Replayed(s) ==
    LET e == s.evidence
        r == Judged(e.task, s.manifest.copy["changed"], s.manifest.copy["source"])
    IN \A f \in {"intent", "impact", "source", "protected", "risk", "status"} : e[f] = r[f]

verify_latest(s, root, readable) ==
    /\ _verify_ledger_chain_entry(s)
    /\ validate_evidence_packet(s.evidence)
    /\ _validate_citizen_one_fields(s.evidence) /\ _validate_proposal_contract_fields(s.evidence)
    /\ validate_evidence_binding_v1(s)
    /\ _verify_manifest_binding(s)
    /\ _verify_mutation_boundary(s)
    /\ validate_completion_contract_v0(s.evidence)
    /\ validate_user_gate_reason_card_v1(s.evidence)
    /\ s.evidence.root = root
    /\ s.bound.copy["head"] \in readable /\ s.bound.copy["tree"] \in readable
    /\ Replayed(s)

=============================================================================
