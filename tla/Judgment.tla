------------------------------ MODULE Judgment ------------------------------
(***************************************************************************)
(* The decision of the hook about one tool call:                           *)
(* judge_pretooluse_with_aeg_engine of                                     *)
(* evidence/hook_judgment_engine_alignment.py, with the mapping of the     *)
(* call, the path rules, the project policy, the law and the gates it      *)
(* collapses into allow, ask, deny or defer.                               *)
(*                                                                         *)
(* A path of a call is a name and a way of spelling it.  The rules tell    *)
(* names apart by the sets below; the file system says what a name opens   *)
(* once its links are followed.  Reading the text of a command or a patch  *)
(* into paths is not modelled: a call comes with what its parser found.    *)
(* An exception here ends the hook process, which is module HookRun.  The  *)
(* policy's patterns are bare names, which match however a path is spelled; *)
(* so do the programs of git's configuration, for the calls that matter: an *)
(* incomplete Write of one spelled with .. is deferred by the code and      *)
(* denied here.                                                             *)
(***************************************************************************)

CONSTANTS
    Places,    \* what names stand for: files, folders and links
    State,     \* the .aeg folder and what is in it
    Guard,     \* _is_guard_path: .aeg, .git, the hosts' settings
    Secret,    \* _is_builtin_secret
    Hinted,    \* names the capability gate takes for secrets
    Named,     \* build files and folders is_protected_path lists
    Docs,      \* _is_docs_or_formatting_path
    Holders,   \* folders above one of PROTECTED_PREFIXES
    Runtime,   \* what the running hook executes from
    Outside,   \* not in the project
    Home,      \* what a path the host resolves itself opens
    Words      \* first words of commands that a policy may approve

ASSUME PlacesAssumption ==
    /\ State \subseteq Guard
    /\ Home \in Outside /\ Outside \subseteq Places

ReadLike == {"Read", "Search"}
WriteLike == {"Write", "Edit", "apply_patch"}
CommandTools == {"Bash", "PowerShell"}

\* "plain" is relative, "up" is relative with .. in it, "home" is ~ or C:x.
Path == [name: Places, form: {"plain", "absolute", "up", "home"}]

\* What classify_shell_read, the extraction of targets and the danger rules
\* find in the text of a command.
Parse == [read: BOOLEAN, git: BOOLEAN, narrow: BOOLEAN, ambiguous: BOOLEAN,
          readOnly: BOOLEAN, danger: BOOLEAN, disables: BOOLEAN, plain: BOOLEAN,
          files: SUBSET Path, trees: SUBSET Path, compared: SUBSET Path, metadata: SUBSET Path,
          writes: SUBSET Path, deletes: SUBSET Path, mentions: SUBSET Places,
          word: Words]

\* folder: where the session is.  complete: the fields the tool needs are
\* there, or the patch can be read.  strays: the search pattern leaves the
\* project or selects secrets.
FileCall == [tool: ReadLike \cup WriteLike, folder: Places,
             complete: BOOLEAN, strays: BOOLEAN, paths: SUBSET Path]
CommandCall == [tool: CommandTools, folder: Places, complete: BOOLEAN, parse: Parse]
InvalidCall == [tool: {"unsupported"}]
Call == FileCall \cup CommandCall \cup InvalidCall

PolicyFile == [trusted: BOOLEAN, allow: SUBSET Places, protect: SUBSET Places, commands: SUBSET Words]

\* to: what a name opens.  beneath[f][n]: the name that n, a path from the top
\* of the project, becomes when it is taken from folder f.  guarded: folders
\* from which git finds a .git.  programs[f]: what git_program_paths finds.
World == {w \in [to: [Places -> Places], beneath: [Places -> [Places -> Places]],
                 kind: [Places -> {"file", "folder", "absent"}],
                 guarded: SUBSET Places, programs: [Places -> SUBSET Places]] :
            \A n \in Places : w.to[w.to[n]] = w.to[n]}

-----------------------------------------------------------------------------
(* classify/hook_policy.py and classify/rules.py *)

NoPolicy == [trusted |-> TRUE, allow |-> {}, protect |-> {}, commands |-> {}]

_read_policy_file(file) == IF file.trusted THEN file ELSE NoPolicy

\* Mutant: a file's own patterns take the place of git's programs.
load_hook_policy_Replaced(file, folder, w) ==
    [_read_policy_file(file) EXCEPT !.protect = IF @ = {} THEN w.programs[folder] ELSE @]

\* What git's configuration names is protected whatever the file allows.
load_hook_policy(file, folder, w) ==
    [_read_policy_file(file) EXCEPT !.protect = @ \cup w.programs[folder]]

is_secret_path(n, policy) == n \in Secret /\ n \notin policy.allow

\* Mutant: the policy is asked before the guard.
is_protected_path_AllowFirst(n, policy) ==
    n \in Guard \cup policy.protect \cup Secret \cup Named /\ n \notin policy.allow

is_protected_path(n, policy) ==
    \/ n \in Guard
    \/ n \in policy.protect
    \/ n \in Secret \cup Named /\ n \notin policy.allow

is_read_protected_path(n, policy) == n \in State \/ is_secret_path(n, policy)

-----------------------------------------------------------------------------
(* Paths *)

\* What the host opens for a path.
Opens(p, w) == IF p.form = "home" THEN Home ELSE w.to[p.name]

\* Mutant: links are not followed.
_normalize_repo_internal_path_Lexical(p, w) ==
    CASE p.form \in {"up", "home"} -> p
      [] p.name \in Outside        -> [p EXCEPT !.form = "absolute"]
      [] OTHER                     -> [p EXCEPT !.form = "plain"]

\* Mutant: links are followed in relative paths only.
_normalize_repo_internal_path_Relative(p, w) ==
    CASE p.form \in {"up", "home"}     -> p
      [] w.to[p.name] \in Outside      -> [p EXCEPT !.form = "absolute"]
      [] p.form = "absolute"           -> [p EXCEPT !.form = "plain"]
      [] OTHER                         -> [name |-> w.to[p.name], form |-> "plain"]

\* A path in the project becomes its canonical name.  One that leaves it, or
\* that spells .. or a home, keeps a form that is refused later.
_normalize_repo_internal_path(p, w) ==
    CASE p.form \in {"up", "home"}     -> p
      [] w.to[p.name] \in Outside      -> [p EXCEPT !.form = "absolute"]
      [] OTHER                         -> [name |-> w.to[p.name], form |-> "plain"]

\* What the gates find when they follow a path that was not refused: one that
\* the host resolves itself is, to them, an odd name in the project.
Resolved(p, w) == IF p.form = "home" THEN {} ELSE {w.to[p.name]}

\* The paths the mapping sees: those of a patch are only rewritten when they
\* are absolute and in the project, and are not canonical otherwise.
MappedPaths(c, w) ==
    IF c.tool = "apply_patch"
    THEN {IF p.form = "absolute" THEN _normalize_repo_internal_path(p, w) ELSE p : p \in c.paths}
    ELSE {_normalize_repo_internal_path(p, w) : p \in c.paths}

\* The paths the gates see.  An absolute target of a patch was made relative
\* to the project before; _build_request then takes it from the session's
\* folder.
_patch_target(p, c, w) ==
    LET mapped == _normalize_repo_internal_path(p, w)
    IN  IF p.form = "absolute" /\ mapped.form = "plain"
        THEN _normalize_repo_internal_path([mapped EXCEPT !.name = w.beneath[c.folder][@]], w)
        ELSE mapped

_target_paths(c, w) ==
    CASE c.tool = "Bash" -> {}
      [] c.tool = "PowerShell" ->
            IF ~c.complete \/ c.parse.ambiguous THEN {}
            ELSE {_normalize_repo_internal_path(p, w) : p \in c.parse.writes}
      [] c.tool = "apply_patch" ->
            IF c.complete THEN {_patch_target(p, c, w) : p \in c.paths} ELSE {}
      [] OTHER -> {_normalize_repo_internal_path(p, w) : p \in c.paths}

-----------------------------------------------------------------------------
(* evidence/claude_code_tool_call_mapping.py *)

_path_denial_reason(p, policy, forRead) ==
    \/ p.form # "plain"
    \/ p.name \in State
    \/ forRead /\ is_read_protected_path(p.name, policy)
    \/ ~forRead /\ is_protected_path(p.name, policy)

\* The status of the structured action candidate.
CandidateStatus(c, policy, w) ==
    LET refused == \E p \in MappedPaths(c, w) : _path_denial_reason(p, policy, c.tool \in ReadLike)
    IN  CASE c.tool = "apply_patch" ->
               IF ~c.complete \/ refused THEN "DENY_CANDIDATE" ELSE "STRUCTURED_ACTION_CANDIDATE"
          [] c.tool \in {"Read", "Search", "Write", "Edit"} ->
               IF ~c.complete THEN "HOLD_CURRENT_STATE_CANDIDATE"
               ELSE IF refused \/ c.strays THEN "DENY_CANDIDATE"
               ELSE "STRUCTURED_ACTION_CANDIDATE"
          [] OTHER ->
               IF ~c.complete THEN "HOLD_CURRENT_STATE_CANDIDATE"
               ELSE IF c.parse.danger THEN "DENY_CANDIDATE"
               ELSE IF c.tool = "PowerShell" /\ ~c.parse.ambiguous /\ c.parse.writes = {} /\ c.parse.readOnly
               THEN "STRUCTURED_ACTION_CANDIDATE"
               ELSE "HOLD_CURRENT_STATE_CANDIDATE"

-----------------------------------------------------------------------------
(* classify_task, merge_risks and law/gates.py *)

impact_risk(c, policy, w) ==
    LET targets == {p.name : p \in _target_paths(c, w)}
    IN  CASE targets = {} -> "NOT_CHECKED"
          [] \E n \in targets : IF c.tool \in ReadLike
                                THEN is_read_protected_path(n, policy)
                                ELSE is_protected_path(n, policy) -> "HIGH"
          [] OTHER -> IF targets \subseteq Docs THEN "LOW" ELSE "MEDIUM"

\* The intent texts the hook passes: "read documentation" and "update
\* documentation" are LOW, those of patches and commands MEDIUM.
intent_risk(c) == IF c.tool \in {"Read", "Search", "Write", "Edit"} THEN "LOW" ELSE "MEDIUM"

merge_risks(intent, impact) ==
    IF "HIGH" \in {intent, impact} THEN "HIGH"
    ELSE IF "MEDIUM" \in {intent, impact} THEN "MEDIUM" ELSE "LOW"

apply_law(impact, risk) ==
    IF risk = "HIGH" THEN "NEEDS_USER_GATE"
    ELSE IF impact = "NOT_CHECKED" \/ risk = "MEDIUM" THEN "NOT_CHECKED" ELSE "CLEAN_CORE"

law_status(c, policy, w) ==
    LET impact == impact_risk(c, policy, w) IN apply_law(impact, merge_risks(intent_risk(c), impact))

\* evaluate_action_capabilities for a read: the limited scope.  Paths whose
\* secrecy the policy lifts are not shown to it.
CapabilityDenies(c, policy, w) ==
    \E p \in _target_paths(c, w) :
        /\ ~(p.name \in Secret /\ ~is_secret_path(p.name, policy))
        /\ \/ p.form \in {"absolute", "up"}
           \/ ({p.name} \cup Resolved(p, w)) \cap (State \cup Secret \cup Hinted) # {}
           \/ Resolved(p, w) \cap Outside # {}

-----------------------------------------------------------------------------
(* The gates of hook_judgment_engine_alignment.py *)

_repo_boundary_denies(c, w) ==
    \E p \in _target_paths(c, w) : Resolved(p, w) \cap Outside # {}

_aeg_guard_denies(c, w) ==
    \E p \in _target_paths(c, w) : Resolved(p, w) \cap State # {}

_protected_path_gate(c, policy, w) ==
    \E p \in _target_paths(c, w) :
        IF c.tool \in ReadLike THEN is_read_protected_path(p.name, policy)
        ELSE is_protected_path(p.name, policy) \/ Resolved(p, w) \cap Runtime # {}

_classify_resolved(n, policy) ==
    IF n \in Outside                                        THEN "out_of_scope"
    ELSE IF is_secret_path(n, policy)                       THEN "secret_path"
    ELSE IF n \in State                                     THEN "protected_state_dir"
    ELSE IF is_protected_path(n, policy) \/ n \in Runtime   THEN "protected_path"
    ELSE "safe_in_repo"

\* A command may name a secret that opens something else.
_classify_command_target(p, policy, w) ==
    IF is_secret_path(p.name, policy) THEN "secret_path"
    ELSE IF p.form = "home" THEN "out_of_scope"
    ELSE _classify_resolved(w.to[p.name], policy)

\* _bash_write_delete_target_gate and _powershell_write_delete_target_gate.
\* They deny on the targets that were found, also in an ambiguous command.
_write_delete_target_gate(c, policy, w) ==
    \E p \in c.parse.writes :
        \/ _classify_command_target(p, policy, w) # "safe_in_repo"
        \/ p \in c.parse.deletes /\ w.to[p.name] \in Holders

_compares_a_directory(paths, w) ==
    /\ paths # {}
    /\ \A p \in paths : w.kind[w.to[p.name]] # "absent"
    /\ \E p \in paths : w.kind[w.to[p.name]] = "folder"

\* _readable_file_verdict, and the verdicts on a tree and on what is listed.
file_verdict(p, policy, w) ==
    LET kind == _classify_command_target(p, policy, w)
    IN  IF kind \notin {"safe_in_repo", "protected_path"} THEN kind
        ELSE IF w.kind[w.to[p.name]] = "file" THEN "readable" ELSE "not_a_regular_file"

tree_verdict(p, policy, w) ==
    LET kind == _classify_command_target(p, policy, w)
    IN  IF kind \in {"safe_in_repo", "protected_path"} THEN "readable" ELSE kind

metadata_verdict(kind) ==
    CASE kind \in {"safe_in_repo", "protected_path", "secret_path"} -> "readable"
      [] kind = "protected_state_dir"                               -> "metadata_of_state"
      [] OTHER                                                      -> kind

\* The verdicts of _shell_read_only_gate on a command of the read grammar.
ReadVerdicts(c, policy, w) ==
    {file_verdict(p, policy, w) : p \in c.parse.files}
        \cup {tree_verdict(p, policy, w) : p \in c.parse.trees \cup c.parse.compared}
        \cup {metadata_verdict(_classify_command_target(p, policy, w)) : p \in c.parse.metadata}
        \cup {metadata_verdict(_classify_resolved(w.to[c.folder], policy))}
        \cup {v \in {"directory_comparison"} : _compares_a_directory(c.parse.compared, w)}
        \cup {v \in {"unguarded_git_directory"} : c.parse.git /\ w.to[c.folder] \notin w.guarded}
        \cup {v \in {"git_output_cannot_be_narrowed"} : c.parse.git /\ ~c.parse.narrow}

Classified(c) == c.tool \in CommandTools /\ c.complete /\ c.parse.read

_shell_read_denies(c, policy, w) ==
    /\ Classified(c)
    /\ ReadVerdicts(c, policy, w) \cap {"out_of_scope", "secret_path", "protected_state_dir"} # {}

_shell_read_allows(c, policy, w) ==
    Classified(c) /\ ReadVerdicts(c, policy, w) \subseteq {"readable"}

_secret_reference_gate(c, policy) ==
    /\ ~Classified(c)
    /\ \E n \in c.parse.mentions : is_secret_path(n, policy)

_command_approved_by_policy(c, policy, w) ==
    /\ c.tool \in CommandTools /\ c.complete
    /\ c.parse.word \in policy.commands
    /\ c.parse.plain /\ ~c.parse.disables
    /\ _classify_resolved(w.to[c.folder], policy) \in {"safe_in_repo", "protected_path", "secret_path"}

_is_clearly_safe_normal_file_operation(c, policy, w) ==
    /\ c.tool \in ReadLike \cup WriteLike
    /\ CandidateStatus(c, policy, w) = "STRUCTURED_ACTION_CANDIDATE"
    /\ impact_risk(c, policy, w) \in {"LOW", "MEDIUM"}
    /\ ~_repo_boundary_denies(c, w)

-----------------------------------------------------------------------------
(* _collapse_engine_decision *)

\* Mutant: an approved command is not looked at further.
Denies_ApprovedPass(c, policy, w) ==
    /\ ~_command_approved_by_policy(c, policy, w)
    /\ \/ CandidateStatus(c, policy, w) = "DENY_CANDIDATE"
       \/ _repo_boundary_denies(c, w) \/ _aeg_guard_denies(c, w)
       \/ _protected_path_gate(c, policy, w) \/ _shell_read_denies(c, policy, w)
       \/ /\ c.tool \in CommandTools /\ c.complete
          /\ _secret_reference_gate(c, policy) \/ _write_delete_target_gate(c, policy, w)
       \/ c.tool \in ReadLike /\ CapabilityDenies(c, policy, w)
       \/ law_status(c, policy, w) = "NEEDS_USER_GATE"

Denies(c, policy, w) ==
    \/ _repo_boundary_denies(c, w)
    \/ _aeg_guard_denies(c, w)
    \/ /\ CandidateStatus(c, policy, w) = "DENY_CANDIDATE"
       /\ ~_command_approved_by_policy(c, policy, w)
    \/ _protected_path_gate(c, policy, w)
    \/ _shell_read_denies(c, policy, w)
    \/ /\ c.tool \in CommandTools /\ c.complete
       /\ _secret_reference_gate(c, policy) \/ _write_delete_target_gate(c, policy, w)
    \/ c.tool \in ReadLike /\ CapabilityDenies(c, policy, w)
    \/ law_status(c, policy, w) = "NEEDS_USER_GATE"

Allows(c, policy, w) ==
    \/ _shell_read_allows(c, policy, w)
    \/ _command_approved_by_policy(c, policy, w)
    \/ _is_clearly_safe_normal_file_operation(c, policy, w)
    \/ c.tool \in ReadLike /\ law_status(c, policy, w) = "CLEAN_CORE"

Asks(c, policy, w) ==
    c.tool \in WriteLike /\ CandidateStatus(c, policy, w) = "STRUCTURED_ACTION_CANDIDATE"

_collapse_engine_decision(c, policy, w) ==
    IF Denies(c, policy, w) THEN "DENY"
    ELSE IF Allows(c, policy, w) THEN "ALLOW"
    ELSE IF Asks(c, policy, w) THEN "ASK" ELSE "DEFER"

judge_pretooluse_with_aeg_engine(c, file, w) ==
    IF c.tool = "unsupported" THEN "DEFER"
    ELSE _collapse_engine_decision(c, load_hook_policy(file, c.folder, w), w)

=============================================================================
