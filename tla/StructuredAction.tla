--------------------------- MODULE StructuredAction ---------------------------
(***************************************************************************)
(* What an executor may propose: validate_structured_action in             *)
(* evidence/structured_actions.py and evaluate_action_capabilities in      *)
(* evidence/structured_action_capabilities.py.  Both are pure functions of *)
(* an action and, when a project is given, of where its paths lead.        *)
(*                                                                         *)
(* An action keeps its type, the capabilities it asks for in their order,  *)
(* the paths it names and the claims it makes about its own authority.     *)
(* Texts (intent, reasons, notes) are left out: a list of reasons is the   *)
(* set of the kinds of reasons in it.                                      *)
(***************************************************************************)
EXTENDS Naturals, Sequences

CONSTANTS
    Name,      \* what the paths of an action name
    Aeg,       \* names inside .aeg
    Secret,    \* is_secret_path, and secret.json
    Hinted,    \* names with a part in ENV_SECRET_TOKENS
    Claim,     \* fields in which an executor vouches for itself
    Granting,  \* the claims the capability gate looks for
    Ignorable, \* the claims the ingress adapter sets aside
    None       \* "no value"

ASSUME ClaimAssumption == Granting \subseteq Claim /\ Granting # {} /\ Ignorable \subseteq Claim

\* PATH_SEMANTIC_FIELDS has write_path, PATH_FIELDS has not; a file named in
\* any other field is no path to either.  "nested": the field is inside an
\* object of a list.  "object": the field's value is an object.
Reference == [field: {"path", "write_path", "other"},
              shape: {"value", "list", "nested", "object"},
              name: Name, form: {"relative", "absolute", "up"}]

ALLOWED_ACTION_TYPES ==
    {"PROPOSE_PATCH", "REQUEST_REPO_READ", "REQUEST_RISK_CLASSIFICATION",
     "REQUEST_EXPLANATION", "NOOP"}

FORBIDDEN_ACTION_TYPES ==
    {"WRITE_AEG_STATE", "DIRECT_STORE_WRITE", "DIRECT_LEDGER_APPEND", "WRITE_FILE",
     "RUN_COMMAND", "RAW_SHELL", "PROCESS_SPAWN", "NETWORK_REQUEST", "PROVIDER_MODEL_CALL",
     "IMPORT_MODULE", "EVAL_EXEC", "READ_ENV", "READ_SECRET", "OPEN_ARBITRARY_PATH",
     "CALL_INTERNAL_FUNCTION", "PYTHON_CODE"}

\* The capability each type of action stands for.  REQUEST_REPO_WRITE has one
\* and is neither allowed nor forbidden.
ACTION_CAPABILITY_MAPPING ==
    [PROPOSE_PATCH |-> "propose_patch", REQUEST_REPO_READ |-> "read_repo",
     REQUEST_REPO_WRITE |-> "write_repo", REQUEST_RISK_CLASSIFICATION |-> "risk_classification",
     REQUEST_EXPLANATION |-> "explanation", NOOP |-> "noop", WRITE_AEG_STATE |-> "aeg_state_write",
     DIRECT_STORE_WRITE |-> "store_sink_direct_access",
     DIRECT_LEDGER_APPEND |-> "ledger_append_direct_access", WRITE_FILE |-> "general_write_file",
     RAW_SHELL |-> "raw_shell", RUN_COMMAND |-> "run_command", PROCESS_SPAWN |-> "process_spawn",
     NETWORK_REQUEST |-> "network", PROVIDER_MODEL_CALL |-> "provider_model_call",
     READ_ENV |-> "env_read", READ_SECRET |-> "secret_read",
     OPEN_ARBITRARY_PATH |-> "open_arbitrary_path",
     CALL_INTERNAL_FUNCTION |-> "call_internal_function", IMPORT_MODULE |-> "import_module",
     EVAL_EXEC |-> "eval_exec", PYTHON_CODE |-> "python_code"]

\* The only type whose policy there is DENIED_UNTIL_EXPLICIT_GATE.
UntilExplicitGate == {"PROVIDER_MODEL_CALL"}

\* CAPABILITY_POLICY_BY_NAME of the gate, by status.
Policy ==
    [ALLOWED_UNDER_POLICY |-> {"noop", "explanation", "risk_classification", "propose_patch"},
     LIMITED |-> {"repo_target_scope", "read_repo"},
     FUTURE_GATED |-> {"provider_model_call", "write_repo", "remote_write"},
     USER_GATED |-> {"user_gate", "explicit_user_approval"},
     NOT_IMPLEMENTED |-> {"filesystem_read"},
     DENIED |-> {"raw_shell", "process_spawn", "network", "general_write_file", "write_file",
                 "run_command", "eval_exec", "import_module", "store_sink_direct_access",
                 "aeg_state_write", "direct_ledger_append", "ledger_append_direct_access",
                 "env_read", "read_env", "secret_read", "read_secret", "open_arbitrary_path",
                 "call_internal_function", "python_code"}]

KnownCapability == UNION {Policy[s] : s \in DOMAIN Policy}

\* typed: action_type is a non-empty string.  shaped: the other required fields
\* are there and have their types.  keys: the forbidden payload fields, by
\* whether the field's place in the action reads like a path of .aeg.
\* asks: some text is a request to read the environment or a secret.
\* relative: target_scope says repo_relative.  needs: capability_requirements.
\* top and inner: the claims at the top of the action and inside it.
Action == [typed: BOOLEAN, type: STRING, shaped: BOOLEAN, keys: SUBSET {"field", "aeg_field"},
           asks: BOOLEAN, relative: BOOLEAN, paths: SUBSET Reference,
           needs: Seq(STRING), top: SUBSET Claim, inner: SUBSET Claim]

\* The empty mapping.
NoAction == [typed |-> FALSE, type |-> "", shaped |-> FALSE, keys |-> {}, asks |-> FALSE,
             relative |-> FALSE, paths |-> {}, needs |-> <<>>, top |-> {}, inner |-> {}]

\* Literals are strings: TLC evaluates it, no prover has a rule for it.
ASSUME NamesAssumption == KnownCapability \cup ALLOWED_ACTION_TYPES \cup {""} \subseteq STRING

\* What the validator and the gate answer.
ValidationStatus ==
    {"VALID_STRUCTURED_ACTION", "INVALID_ACTION_SCHEMA", "FUTURE_GATE_REQUIRED",
     "FORBIDDEN_ACTION_TYPE_REJECTED", "UNKNOWN_ACTION_TYPE_REJECTED",
     "FORBIDDEN_PAYLOAD_FIELD_REJECTED"}

GateResult ==
    {"CAPABILITY_GATE_ALLOWED", "CAPABILITY_GATE_LIMITED_ALLOWED", "CAPABILITY_DENIED",
     "NOT_IMPLEMENTED_REJECTED", "UNKNOWN_CAPABILITY_REJECTED", "FUTURE_GATE_REQUIRED",
     "REPORTED_ONLY_CAPABILITY_GRANT_REJECTED", "SCOPE_LIMIT_REJECTED", "USER_GATE_REQUIRED"}

StructuredActionValidationResult ==
    [valid: BOOLEAN, status: ValidationStatus,
     reasons: SUBSET {"schema", "type", "field", "aeg_field", "path", "asks"},
     type: STRING \cup {None}]

ActionCapabilityGateResult ==
    [result: GateResult, required: Seq(STRING), schema: ValidationStatus]

ASSUME NoneAssumption ==
    None \notin ValidationStatus \cup GateResult \cup Action
                \cup StructuredActionValidationResult \cup ActionCapabilityGateResult

\* leads[n]: what Path.resolve makes of n once its links are followed.  Of links
\* that go around it raises before Python 3.13 ("loop"); from then on it gives
\* the name of one of them, here one inside ("around"; else what the name is).
\* None: no project is given, and nothing is followed.
Leads == [Name -> {"inside", "outside", "aeg", "secret", "loop", "around"}]

-----------------------------------------------------------------------------
(* structured_actions.py *)

\* Mutant: of a path it followed it only looks for .aeg and secrets.
realpath_scope_rejection_reasons_Inside(n, leads) ==
    leads # None /\ leads[n] \in {"aeg", "secret", "loop"}

realpath_scope_rejection_reasons(n, leads) ==
    leads # None /\ leads[n] \notin {"inside", "around"}

\* What both scans refuse in the text of a path.
_lexical_rejection(r) == r.form \in {"absolute", "up"} \/ r.name \in Aeg \cup Secret

_leaves_project(r, leads) ==
    _lexical_rejection(r) \/ realpath_scope_rejection_reasons(r.name, leads)

\* A text under a path field, in lists too.  Under an object the object's own
\* fields decide what is a path.
_scanned(r) == r.field \in {"path", "write_path"} /\ r.shape # "object"

_scan_forbidden_payload(a, leads) ==
    a.keys
    \cup (IF \E r \in a.paths : _scanned(r) /\ _leaves_project(r, leads) THEN {"path"} ELSE {})
    \cup (IF a.asks THEN {"asks"} ELSE {})

_result(status, reasons, type) ==
    [valid |-> status = "VALID_STRUCTURED_ACTION", status |-> status,
     reasons |-> reasons, type |-> type]

\* The first of these that applies ends the validation.
validate_structured_action(a, leads) ==
    CASE ~a.typed -> _result("INVALID_ACTION_SCHEMA", {"schema"}, None)
      [] a.typed /\ a.type \in UntilExplicitGate ->
           _result("FUTURE_GATE_REQUIRED", {"type"}, a.type)
      [] a.typed /\ a.type \in FORBIDDEN_ACTION_TYPES \ UntilExplicitGate ->
           _result("FORBIDDEN_ACTION_TYPE_REJECTED", {"type"}, a.type)
      [] a.typed /\ a.type \notin FORBIDDEN_ACTION_TYPES \cup ALLOWED_ACTION_TYPES ->
           _result("UNKNOWN_ACTION_TYPE_REJECTED", {"type"}, a.type)
      [] OTHER ->
           IF ~a.shaped THEN _result("INVALID_ACTION_SCHEMA", {"schema"}, a.type)
           ELSE IF _scan_forbidden_payload(a, leads) # {}
                THEN _result("FORBIDDEN_PAYLOAD_FIELD_REJECTED",
                             _scan_forbidden_payload(a, leads), a.type)
                ELSE _result("VALID_STRUCTURED_ACTION", {}, a.type)

-----------------------------------------------------------------------------
(* structured_action_capabilities.py *)

ACTION_DEFAULT_CAPABILITIES ==
    [NOOP |-> <<"noop">>, REQUEST_EXPLANATION |-> <<"explanation">>,
     REQUEST_RISK_CLASSIFICATION |-> <<"risk_classification">>,
     PROPOSE_PATCH |-> <<"propose_patch", "repo_target_scope">>,
     REQUEST_REPO_READ |-> <<"read_repo">>]

\* Repetitions stay: a capability is decided the same way each time.
_required_capabilities(a, type) ==
    LET names == (IF type \in DOMAIN ACTION_DEFAULT_CAPABILITIES
                  THEN ACTION_DEFAULT_CAPABILITIES[type] ELSE <<>>) \o a.needs
    IN  IF names = <<>> /\ type \in DOMAIN ACTION_CAPABILITY_MAPPING
        THEN <<ACTION_CAPABILITY_MAPPING[type]>> ELSE names

\* The types FORBIDDEN_ACTION_CAPABILITIES leaves out.
WithoutForbiddenCapability == {"OPEN_ARBITRARY_PATH", "CALL_INTERNAL_FUNCTION", "PYTHON_CODE"}

FORBIDDEN_ACTION_CAPABILITIES ==
    [t \in FORBIDDEN_ACTION_TYPES \ WithoutForbiddenCapability |->
        IF t = "DIRECT_LEDGER_APPEND" THEN "direct_ledger_append" ELSE ACTION_CAPABILITY_MAPPING[t]]

\* Every reason but a forbidden field speaks of a path or of env/secret, and so
\* does the place of a field such as payload.aeg_path.
_is_scope_rejection(reasons) == reasons \cap {"aeg_field", "path", "asks"} # {}

_gate_result(result, required, status) ==
    [result |-> result, required |-> required, schema |-> status]

_schema_rejection_result(v, required) ==
    CASE v.status = "UNKNOWN_ACTION_TYPE_REJECTED" ->
           _gate_result("UNKNOWN_CAPABILITY_REJECTED", required, v.status)
      [] v.status = "FUTURE_GATE_REQUIRED" ->
           _gate_result("FUTURE_GATE_REQUIRED", required, v.status)
      [] v.status = "FORBIDDEN_PAYLOAD_FIELD_REJECTED" /\ _is_scope_rejection(v.reasons) ->
           _gate_result("SCOPE_LIMIT_REJECTED", required, v.status)
      [] v.status = "FORBIDDEN_ACTION_TYPE_REJECTED"
         /\ v.type \in DOMAIN FORBIDDEN_ACTION_CAPABILITIES ->
           _gate_result("CAPABILITY_DENIED", <<FORBIDDEN_ACTION_CAPABILITIES[v.type]>>, v.status)
      [] OTHER -> _gate_result("CAPABILITY_DENIED", required, v.status)

\* The gate looks at the whole action, however deep.
_scan_self_report_claims(a) == (a.top \cup a.inner) \cap Granting

\* _path_values goes into lists under a path field, and into objects, but not
\* into the objects of a list; what is no text is refused.
_limited_scope_rejection_reasons(a, type, leads) ==
    \/ ~a.relative
    \/ \E r \in a.paths :
          /\ r.field = "path" /\ r.shape # "nested"
          /\ r.shape = "object" \/ r.name \in Hinted \/ _leaves_project(r, leads)
    \/ /\ type = "REQUEST_REPO_READ"
       /\ \E i \in DOMAIN a.needs : a.needs[i] \in {"env_read", "read_env", "secret_read", "read_secret"}

\* What the gate says of one capability; approved: explicit_user_gate_evidence.
_decision(c, a, type, leads, approved) ==
    CASE c \notin KnownCapability -> "UNKNOWN_CAPABILITY_REJECTED"
      [] c \in Policy.DENIED -> "CAPABILITY_DENIED"
      [] c \in Policy.NOT_IMPLEMENTED -> "NOT_IMPLEMENTED_REJECTED"
      [] c \in Policy.FUTURE_GATED -> "FUTURE_GATE_REQUIRED"
      [] c \in Policy.USER_GATED \ approved -> "USER_GATE_REQUIRED"
      [] c \in Policy.LIMITED /\ _limited_scope_rejection_reasons(a, type, leads) ->
           "SCOPE_LIMIT_REJECTED"
      [] OTHER -> "allowed"

\* The first capability that is refused decides.
evaluate_action_capabilities(a, v, leads, approved) ==
    LET required == _required_capabilities(a, v.type)
        decided == [i \in DOMAIN required |-> _decision(required[i], a, v.type, leads, approved)]
        refused == {i \in DOMAIN required : decided[i] # "allowed"}
        first == CHOOSE i \in refused : \A j \in refused : i <= j
        limited == \E i \in DOMAIN required : required[i] \in Policy.LIMITED
    IN  IF ~v.valid THEN _schema_rejection_result(v, required)
        ELSE IF _scan_self_report_claims(a) # {}
        THEN _gate_result("REPORTED_ONLY_CAPABILITY_GRANT_REJECTED", required, v.status)
        ELSE IF refused # {}
        THEN _gate_result(decided[first], required, v.status)
        ELSE _gate_result(IF limited THEN "CAPABILITY_GATE_LIMITED_ALLOWED"
                          ELSE "CAPABILITY_GATE_ALLOWED", required, v.status)

=============================================================================
