-------------------------------- MODULE Routing --------------------------------
(***************************************************************************)
(* From an executor's output to a store-adjacent candidate:                *)
(* ingest_executor_output of evidence/executor_output_ingress.py, and the  *)
(* evidence and the gate of evidence/action_decision_routing.py.           *)
(*                                                                         *)
(* A SHA-256 is modelled by what it covers, so two digests are equal when  *)
(* their materials are.                                                    *)
(***************************************************************************)
EXTENDS StructuredAction

\* direct: which of the runtime's own fields are among the fields of the output.
\* wrapped: the action is under action, structured_action or executor_action;
\* outer: the claims beside it.  A wrapped body need not be an object (None).
\* "broken" is no JSON object; "wild" is an object with values JSON has not.
Output == [kind: {"mapping", "text", "broken", "wild"},
           direct: SUBSET {"evidence", "candidate", "packet"},
           wrapped: BOOLEAN, outer: SUBSET Claim, body: Action \cup {None}]

RUNTIME_INGRESS_ADAPTER == "runtime_ingress_adapter"

\* The authority flags of a packet, all FALSE unless somebody sets them.
Authority == {"execution_allowed", "mutation_allowed", "write_authority_granted",
              "store_routing_allowed", "store_path_reachable"}

\* "unreadable" stands for every error of the JSON reader.
ParseError ==
    {"unreadable", "DIRECT_PACKET_EVIDENCE_SUBMISSION_PARSE_REJECTED",
     "DIRECT_STORE_ADJACENT_CANDIDATE_PARSE_REJECTED", "DIRECT_PACKET_SUBMISSION_PARSE_REJECTED"}

\* made: runtime_built_by_ingress.  hold and safe: live_executor_authority and
\* safe_default have their only legal value.
Packet ==
    [id: Output, hash: Output, parse: {"PARSE_OK", "PARSE_FAILED"},
     error: ParseError \cup {None},
     action: Action \cup {None}, validation: StructuredActionValidationResult \cup {None},
     capability: ActionCapabilityGateResult \cup {None},
     basis: [parse: {"PARSE_OK", "PARSE_FAILED"}, validation: ValidationStatus \cup {None},
             capability: GateResult \cup {None}, ignored: BOOLEAN],
     ignored: SUBSET ({"outer", "action"} \X Claim), flags: SUBSET Authority,
     hold: BOOLEAN, safe: BOOLEAN, creator: {RUNTIME_INGRESS_ADAPTER, "executor"}, made: BOOLEAN]

ASSUME PacketAssumption == None \notin Packet \cup ParseError

-----------------------------------------------------------------------------
(* executor_output_ingress.py *)

\* The constructor, and dataclasses.replace: made (runtime_built_by_ingress) is
\* true only for who holds the module's marker object.
ActionDecisionPacket(raw, parse, error, action, validation, capability, basis, ignored, made) ==
    [id |-> raw, hash |-> raw, parse |-> parse, error |-> error, action |-> action,
     validation |-> validation, capability |-> capability, basis |-> basis, ignored |-> ignored,
     flags |-> {}, hold |-> TRUE, safe |-> TRUE, creator |-> RUNTIME_INGRESS_ADAPTER, made |-> made]

\* Hashing a wild mapping raises out of the adapter: there is no packet.
_raw_output_hash_raises(o) == o.kind = "wild"

_packet_id(hash) == hash

_direct_submission_parse_error(o) ==
    CASE "evidence" \in o.direct -> "DIRECT_PACKET_EVIDENCE_SUBMISSION_PARSE_REJECTED"
      [] o.direct = {"candidate"} \/ o.direct = {"candidate", "packet"} ->
           "DIRECT_STORE_ADJACENT_CANDIDATE_PARSE_REJECTED"
      [] o.direct = {"packet"} -> "DIRECT_PACKET_SUBMISSION_PARSE_REJECTED"
      [] o.direct = {} -> None

_parse_raw_output(o) == o.kind \in {"mapping", "text"}

_self_report_paths_outside_action(o) ==
    IF o.wrapped THEN {"outer"} \X (o.outer \cap Ignorable) ELSE {}

_strip_top_level_self_reports(o) ==
    IF o.body = None THEN {} ELSE {"action"} \X (o.body.top \cap Ignorable)

\* Mutant: what was set aside beside a wrapped action is forgotten.
_normalize_parsed_output_Forgets(o) ==
    [action |-> IF o.body = None THEN None ELSE [o.body EXCEPT !.top = @ \ Ignorable],
     ignored |-> _strip_top_level_self_reports(o)]

\* The claims the adapter knows are taken out of the action, and kept in a list.
_normalize_parsed_output(o) ==
    [action |-> IF o.body = None THEN None ELSE [o.body EXCEPT !.top = @ \ Ignorable],
     ignored |-> _self_report_paths_outside_action(o) \cup _strip_top_level_self_reports(o)]

_decision_basis(parse, validation, capability, ignored) ==
    [parse |-> parse,
     validation |-> IF validation = None THEN None ELSE validation.status,
     capability |-> IF capability = None THEN None ELSE capability.result,
     ignored |-> ignored # {}]

\* The packet of an output that can be hashed; leads: the links at that moment.
ingest_executor_output(o, leads) ==
    LET error == IF ~_parse_raw_output(o) THEN "unreadable" ELSE _direct_submission_parse_error(o)
        read  == _normalize_parsed_output(o)
        for   == IF read.action = None THEN NoAction ELSE read.action
        valid == validate_structured_action(for, leads)
        gated == evaluate_action_capabilities(for, valid, leads, {})
    IN  IF error # None
        THEN ActionDecisionPacket(o, "PARSE_FAILED", error, None, None, None,
                 _decision_basis("PARSE_FAILED", None, None, {}), {}, TRUE)
        ELSE ActionDecisionPacket(o, "PARSE_OK", None, read.action, valid, gated,
                 _decision_basis("PARSE_OK", valid, gated, read.ignored), read.ignored, TRUE)

is_runtime_built_action_decision_packet(p) == p.made

-----------------------------------------------------------------------------
(* action_decision_routing.py: evidence *)

_ALLOWED_CANDIDATE_GATE_RESULTS ==
    {"CAPABILITY_GATE_ALLOWED", "CAPABILITY_GATE_LIMITED_ALLOWED"}

\* What a record must affirm, and what it must deny.
Duty == {"validator_enforced_routing_required", "executor_output_ingress_required",
         "structured_action_validation_required", "capability_gate_required",
         "store_path_accepts_only_runtime_owned_decision",
         "direct_action_decision_packet_submission_rejected",
         "direct_packet_evidence_submission_rejected",
         "direct_store_adjacent_candidate_submission_rejected",
         "store_adjacent_candidate_gate_metadata_only"}

Overclaim == Authority \cup
    {"raw_output_trusted_as_decision", "validated_action_forwarded_to_store",
     "raw_executor_output_reaches_store", "unvalidated_action_reaches_store",
     "denied_capability_reaches_store", "reported_only_authority_reaches_store",
     "executor_self_report_is_authority", "capability_gate_self_report_is_authority",
     "metadata_only_candidate_is_store_write", "live_executor_ready"}

\* The fields of a record that repeat the packet.
_copied(p) ==
    [id |-> p.id, creator |-> p.creator, built |-> p.made, hash |-> p.hash, parse |-> p.parse,
     error |-> p.error, action |-> p.action,
     status |-> IF p.validation = None THEN None ELSE p.validation.status,
     valid |-> p.validation # None /\ p.validation.valid,
     reasons |-> IF p.validation = None THEN {} ELSE p.validation.reasons,
     gate |-> IF p.capability = None THEN None ELSE p.capability.result,
     required |-> IF p.capability = None THEN <<>> ELSE p.capability.required,
     basis |-> p.basis, ignored |-> p.ignored, hold |-> p.hold, safe |-> p.safe]

_store_adjacent_candidate_eligible(p) ==
    /\ p.parse = "PARSE_OK"
    /\ p.validation # None /\ p.validation.valid
    /\ p.validation.status = "VALID_STRUCTURED_ACTION"
    /\ p.capability # None /\ p.capability.result \in _ALLOWED_CANDIDATE_GATE_RESULTS
    /\ p.creator = RUNTIME_INGRESS_ADAPTER /\ is_runtime_built_action_decision_packet(p)
    /\ p.ignored = {} /\ p.flags = {} /\ p.hold

\* Every field but the hash itself.
expected_action_decision_packet_evidence_hash(e) == [e EXCEPT !.digest = None]

\* current: the versions.  affirmed and claimed: the fields that are true, of
\* those that must be and of those that must not.
bind_action_decision_packet_evidence(p) ==
    LET record == [copied |-> _copied(p), current |-> TRUE,
                   owned |-> p.creator = RUNTIME_INGRESS_ADAPTER, basis_hash |-> p.basis,
                   affirmed |-> Duty, claimed |-> p.flags,
                   eligible |-> _store_adjacent_candidate_eligible(p), digest |-> None]
    IN  [record EXCEPT !.digest = expected_action_decision_packet_evidence_hash(record)]

\* The same verdict, from the record's own fields.
_expected_candidate_eligible(e) ==
    /\ e.copied.parse = "PARSE_OK"
    /\ e.copied.valid /\ e.copied.status = "VALID_STRUCTURED_ACTION"
    /\ e.copied.gate \in _ALLOWED_CANDIDATE_GATE_RESULTS
    /\ e.owned /\ e.copied.built
    /\ e.copied.ignored = {} /\ e.claimed = {} /\ e.copied.hold

\* Mutant: the record is compared with the packet's identity only.
_packet_mismatch_reasons_Identity(e, p) ==
    e.copied.id # p.id \/ e.copied.hash # p.hash

_packet_mismatch_reasons(e, p) == e.copied # _copied(p) \/ e.claimed \cap Authority # p.flags

\* What the record says of itself hangs together.
_sound(e) ==
    /\ e.eligible = _expected_candidate_eligible(e)
    /\ e.copied.valid => e.copied.status = "VALID_STRUCTURED_ACTION"
    /\ e.copied.gate \in _ALLOWED_CANDIDATE_GATE_RESULTS =>
          e.copied.status = "VALID_STRUCTURED_ACTION"

\* TRUE: accepted.  p is None when the caller has no packet.
verify_action_decision_packet_evidence(e, p) ==
    /\ e.current /\ e.affirmed = Duty /\ e.claimed = {}
    /\ e.copied.creator = RUNTIME_INGRESS_ADAPTER /\ e.owned /\ e.copied.built
    /\ e.copied.hold /\ e.copied.safe
    /\ e.copied.id = _packet_id(e.copied.hash)
    /\ _sound(e)
    /\ e.basis_hash = e.copied.basis
    /\ e.digest = expected_action_decision_packet_evidence_hash(e)
    /\ p # None /\ is_runtime_built_action_decision_packet(p)
    /\ ~_packet_mismatch_reasons(e, p)

-----------------------------------------------------------------------------
(* action_decision_routing.py: the gate *)

_gate_rejection(status) == [accepted |-> FALSE, status |-> status]

\* What is no packet is refused by the runtime's own fields among its keys: a
\* record of evidence has those of a packet, the gate's result a candidate's.
_submission_rejection(direct) ==
    _gate_rejection(
        CASE direct \cap {"evidence", "packet"} # {} -> "DIRECT_PACKET_SUBMISSION_STORE_PATH_REJECTED"
          [] direct = {"candidate"} -> "DIRECT_STORE_ADJACENT_CANDIDATE_STORE_PATH_REJECTED"
          [] direct = {} -> "RAW_EXECUTOR_OUTPUT_STORE_PATH_REJECTED")

\* The first refusal that applies.
evaluate_store_adjacent_candidate_gate(p) ==
    LET evidence == bind_action_decision_packet_evidence(p)
    IN  CASE ~verify_action_decision_packet_evidence(evidence, p) ->
               _gate_rejection("PACKET_EVIDENCE_STORE_PATH_REJECTED")
          [] OTHER ->
               IF p.parse # "PARSE_OK" \/ p.validation = None \/ ~p.validation.valid
               THEN _gate_rejection("UNVALIDATED_ACTION_STORE_PATH_REJECTED")
               ELSE IF p.capability = None
               THEN _gate_rejection("DENIED_CAPABILITY_STORE_PATH_REJECTED")
               ELSE IF p.capability.result = "REPORTED_ONLY_CAPABILITY_GRANT_REJECTED"
               THEN _gate_rejection("REPORTED_ONLY_STORE_PATH_REJECTED")
               ELSE IF p.capability.result \notin _ALLOWED_CANDIDATE_GATE_RESULTS
               THEN _gate_rejection("DENIED_CAPABILITY_STORE_PATH_REJECTED")
               ELSE IF p.ignored # {}
               THEN _gate_rejection("SELF_REPORTED_AUTHORITY_STORE_PATH_REJECTED")
               ELSE IF ~evidence.eligible
               THEN _gate_rejection("PACKET_EVIDENCE_STORE_PATH_REJECTED")
               ELSE [accepted |-> TRUE, status |-> "STORE_ADJACENT_CANDIDATE_ACCEPTED"]

=============================================================================
