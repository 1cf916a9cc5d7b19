----------------------------- MODULE ExecutorProofs -----------------------------
(***************************************************************************)
(* Proofs about what an executor can get, by what it says (Executor, from  *)
(* any outputs, links and bounds) and by what it writes (Mediation, for    *)
(* any threads, repositories, files, attempts and bounds): a candidate is  *)
(* earned, and nothing of an executor gets under .aeg.                     *)
(***************************************************************************)
EXTENDS Executor, Mediation, FiniteSetTheorems, SequenceTheorems, WellFoundedInduction, TLAPS

-----------------------------------------------------------------------------
(* What the validator and the capability gate answer. *)

(* An action is valid when its type is allowed, it is complete, and it has   *)
(* nothing the schema forbids.                                               *)
LEMMA ValidAction ==
  ASSUME NEW a \in Action, NEW leads, NEW v, v = validate_structured_action(a, leads)
  PROVE  /\ v \in StructuredActionValidationResult
         /\ v.valid <=> v.status = "VALID_STRUCTURED_ACTION"
         /\ v.valid <=> /\ a.typed /\ a.type \in ALLOWED_ACTION_TYPES /\ a.shaped
                        /\ _scan_forbidden_payload(a, leads) = {}
         /\ v.valid => v.type = a.type
<1> DEFINE Reasons == {"schema", "type", "field", "aeg_field", "path", "asks"}
<1>1. a.typed \in BOOLEAN /\ a.type \in STRING /\ a.shaped \in BOOLEAN /\ a.asks \in BOOLEAN
      /\ a.keys \subseteq {"field", "aeg_field"}
  BY DEF Action
<1>2. _scan_forbidden_payload(a, leads) \subseteq Reasons
  BY <1>1 DEF _scan_forbidden_payload
<1>3. ASSUME NEW status \in ValidationStatus, NEW reasons \in SUBSET Reasons,
             NEW type \in STRING \cup {None}, v = _result(status, reasons, type)
      PROVE  /\ v \in StructuredActionValidationResult /\ v.status = status /\ v.type = type
             /\ v.valid <=> status = "VALID_STRUCTURED_ACTION"
  <2>1. PICK b \in BOOLEAN : b = (status = "VALID_STRUCTURED_ACTION")
    OBVIOUS
  <2>2. v = [valid |-> b, status |-> status, reasons |-> reasons, type |-> type]
    BY <1>3, <2>1 DEF _result
  <2> HIDE DEF Reasons
  <2>3. v \in [valid: BOOLEAN, status: ValidationStatus, reasons: SUBSET Reasons,
               type: STRING \cup {None}]
    BY <2>2
  <2>4. v \in StructuredActionValidationResult
    BY <2>3 DEF StructuredActionValidationResult, Reasons
  <2>5. v.status = status /\ v.type = type /\ v.valid = b
    BY <2>2
  <2> QED
    BY <2>1, <2>4, <2>5
<1>4. ALLOWED_ACTION_TYPES \cap FORBIDDEN_ACTION_TYPES = {}
      /\ UntilExplicitGate \subseteq FORBIDDEN_ACTION_TYPES
  BY DEF ALLOWED_ACTION_TYPES, FORBIDDEN_ACTION_TYPES, UntilExplicitGate
<1>5. CASE ~a.typed
  <2>1. v = _result("INVALID_ACTION_SCHEMA", {"schema"}, None)
    BY <1>5 DEF validate_structured_action
  <2> QED
    BY <1>3, <1>5, <2>1 DEF ValidationStatus
<1>6. CASE a.typed /\ a.type \in UntilExplicitGate
  <2>1. v = _result("FUTURE_GATE_REQUIRED", {"type"}, a.type)
    BY <1>4, <1>6 DEF validate_structured_action
  <2> QED
    BY <1>1, <1>3, <1>4, <1>6, <2>1 DEF ValidationStatus
<1>7. CASE a.typed /\ a.type \in FORBIDDEN_ACTION_TYPES \ UntilExplicitGate
  <2>1. v = _result("FORBIDDEN_ACTION_TYPE_REJECTED", {"type"}, a.type)
    BY <1>4, <1>7 DEF validate_structured_action
  <2> QED
    BY <1>1, <1>3, <1>4, <1>7, <2>1 DEF ValidationStatus
<1>8. CASE a.typed /\ a.type \notin FORBIDDEN_ACTION_TYPES \cup ALLOWED_ACTION_TYPES
  <2>1. v = _result("UNKNOWN_ACTION_TYPE_REJECTED", {"type"}, a.type)
    BY <1>4, <1>8 DEF validate_structured_action
  <2> QED
    BY <1>1, <1>3, <1>8, <2>1 DEF ValidationStatus
<1>9. CASE a.typed /\ a.type \in ALLOWED_ACTION_TYPES
  <2>1. v = IF ~a.shaped THEN _result("INVALID_ACTION_SCHEMA", {"schema"}, a.type)
            ELSE IF _scan_forbidden_payload(a, leads) # {}
            THEN _result("FORBIDDEN_PAYLOAD_FIELD_REJECTED", _scan_forbidden_payload(a, leads), a.type)
            ELSE _result("VALID_STRUCTURED_ACTION", {}, a.type)
    BY <1>4, <1>9 DEF validate_structured_action
  <2> HIDE DEF Reasons
  <2>2. {} \in SUBSET Reasons /\ {"schema"} \in SUBSET Reasons
    BY DEF Reasons
  <2>3. CASE ~a.shaped
    BY <1>1, <1>3, <2>1, <2>2, <2>3 DEF ValidationStatus
  <2>4. CASE a.shaped /\ _scan_forbidden_payload(a, leads) # {}
    BY <1>1, <1>2, <1>3, <2>1, <2>4 DEF ValidationStatus
  <2>5. CASE a.shaped /\ _scan_forbidden_payload(a, leads) = {}
    BY <1>1, <1>3, <1>9, <2>1, <2>2, <2>5 DEF ValidationStatus
  <2> QED
    BY <2>3, <2>4, <2>5
<1> QED
  BY <1>4, <1>5, <1>6, <1>7, <1>8, <1>9

LEMMA OneOrTwo ==
  ASSUME NEW S, NEW c \in S, NEW d \in S
  PROVE  /\ <<c>> \in Seq(S) /\ Len(<<c>>) > 0
         /\ <<c, d>> \in Seq(S) /\ Len(<<c, d>>) > 0
  OBVIOUS

LEMMA MappedIsKnown ==
  ASSUME NEW t \in DOMAIN ACTION_CAPABILITY_MAPPING
  PROVE  ACTION_CAPABILITY_MAPPING[t] \in KnownCapability
BY DEF ACTION_CAPABILITY_MAPPING, KnownCapability, Policy

LEMMA DefaultCapabilities ==
  ASSUME NEW t \in ALLOWED_ACTION_TYPES
  PROVE  ACTION_DEFAULT_CAPABILITIES[t] \in Seq(STRING) /\ Len(ACTION_DEFAULT_CAPABILITIES[t]) > 0
<1>1. /\ "noop" \in STRING /\ "explanation" \in STRING /\ "risk_classification" \in STRING
      /\ "propose_patch" \in STRING /\ "repo_target_scope" \in STRING /\ "read_repo" \in STRING
  <2>1. {"noop", "explanation", "risk_classification", "propose_patch"} \subseteq KnownCapability
    BY DEF KnownCapability, Policy
  <2>2. {"repo_target_scope", "read_repo"} \subseteq KnownCapability
    BY DEF KnownCapability, Policy
  <2>3. KnownCapability \subseteq STRING
    BY NamesAssumption
  <2> QED
    BY <2>1, <2>2, <2>3
<1>2. t \in {"NOOP", "REQUEST_EXPLANATION", "REQUEST_RISK_CLASSIFICATION", "REQUEST_REPO_READ"}
      => \E c \in STRING : ACTION_DEFAULT_CAPABILITIES[t] = <<c>>
  <2>1. /\ ACTION_DEFAULT_CAPABILITIES["NOOP"] = <<"noop">>
        /\ ACTION_DEFAULT_CAPABILITIES["REQUEST_EXPLANATION"] = <<"explanation">>
        /\ ACTION_DEFAULT_CAPABILITIES["REQUEST_RISK_CLASSIFICATION"] = <<"risk_classification">>
        /\ ACTION_DEFAULT_CAPABILITIES["REQUEST_REPO_READ"] = <<"read_repo">>
    BY DEF ACTION_DEFAULT_CAPABILITIES
  <2> QED
    BY <1>1, <2>1
<1>3. t = "PROPOSE_PATCH"
      => \E c \in STRING, d \in STRING : ACTION_DEFAULT_CAPABILITIES[t] = <<c, d>>
  BY <1>1 DEF ACTION_DEFAULT_CAPABILITIES
<1> QED
  BY <1>2, <1>3, OneOrTwo DEF ALLOWED_ACTION_TYPES

(* The capabilities of an action of an allowed type: those of its type, and  *)
(* those it asks for.                                                        *)
LEMMA RequiredCapabilities ==
  ASSUME NEW a \in Action, NEW type \in STRING \cup {None}
  PROVE  /\ _required_capabilities(a, type) \in Seq(STRING)
         /\ type \in ALLOWED_ACTION_TYPES =>
              _required_capabilities(a, type) = ACTION_DEFAULT_CAPABILITIES[type] \o a.needs
<1>1. a.needs \in Seq(STRING)
  BY DEF Action
<1>2. DOMAIN ACTION_DEFAULT_CAPABILITIES = ALLOWED_ACTION_TYPES
  BY DEF ACTION_DEFAULT_CAPABILITIES, ALLOWED_ACTION_TYPES
<1>4. \A t \in DOMAIN ACTION_CAPABILITY_MAPPING : ACTION_CAPABILITY_MAPPING[t] \in STRING
  BY MappedIsKnown, NamesAssumption
<1> DEFINE own == IF type \in DOMAIN ACTION_DEFAULT_CAPABILITIES
                  THEN ACTION_DEFAULT_CAPABILITIES[type] ELSE <<>>
           names == own \o a.needs
<1>5. own \in Seq(STRING)
  BY <1>2, DefaultCapabilities, EmptySeq
<1>6. names \in Seq(STRING) /\ Len(names) = Len(own) + Len(a.needs)
  <2> HIDE DEF own
  <2> QED
    BY <1>1, <1>5, ConcatProperties
<1>7. _required_capabilities(a, type) =
        IF names = <<>> /\ type \in DOMAIN ACTION_CAPABILITY_MAPPING
        THEN <<ACTION_CAPABILITY_MAPPING[type]>> ELSE names
  BY DEF _required_capabilities
<1>8. ASSUME type \in ALLOWED_ACTION_TYPES
      PROVE  names # <<>> /\ own = ACTION_DEFAULT_CAPABILITIES[type]
  <2>1. own = ACTION_DEFAULT_CAPABILITIES[type] /\ Len(own) > 0
    BY <1>2, <1>8, DefaultCapabilities
  <2>2. Len(a.needs) \in Nat /\ Len(own) \in Nat
    BY <1>1, <1>5
  <2> HIDE DEF own, names
  <2>3. \A m \in Nat, n \in Nat : m > 0 => m + n > 0
    OBVIOUS
  <2>4. Len(own) + Len(a.needs) > 0
    BY <2>1, <2>2, <2>3
  <2>5. Len(names) > 0
    BY <1>6, <2>4
  <2> QED
    BY <2>1, <2>5, EmptySeq
<1> HIDE DEF names
<1>9. _required_capabilities(a, type) \in Seq(STRING)
  <2>1. CASE names = <<>> /\ type \in DOMAIN ACTION_CAPABILITY_MAPPING
    BY <1>4, <1>7, <2>1, OneOrTwo
  <2>2. CASE ~(names = <<>> /\ type \in DOMAIN ACTION_CAPABILITY_MAPPING)
    BY <1>6, <1>7, <2>2
  <2> QED
    BY <2>1, <2>2
<1> QED
  BY <1>7, <1>8, <1>9 DEF names

(* Every subset of the naturals that is not empty has a least element.       *)
LEMMA LeastOf ==
  ASSUME NEW S \in SUBSET Nat, S # {}
  PROVE  \E m \in S : \A n \in S : m <= n
<1>1. PICK m \in S : \A n \in S : <<n, m>> \notin OpToRel(<, Nat)
  BY NatLessThanWellFounded, WFMin
<1>2. \A n \in S : n < m => <<n, m>> \in OpToRel(<, Nat)
  BY Zenon DEF OpToRel
<1>3. \A n \in S : ~ n < m
  BY <1>1, <1>2
<1> QED
  BY <1>3

LEMMA GateResults ==
  ASSUME NEW result \in GateResult, NEW required \in Seq(STRING), NEW status \in ValidationStatus,
         NEW g, g = _gate_result(result, required, status)
  PROVE  g \in ActionCapabilityGateResult /\ g.result = result
BY DEF _gate_result, ActionCapabilityGateResult

(* An invalid action is refused.                                             *)
LEMMA InvalidIsRefused ==
  ASSUME NEW v \in StructuredActionValidationResult, NEW required \in Seq(STRING),
         NEW g, g = _schema_rejection_result(v, required)
  PROVE  /\ g \in ActionCapabilityGateResult
         /\ g.result \notin _ALLOWED_CANDIDATE_GATE_RESULTS \cup {"REPORTED_ONLY_CAPABILITY_GRANT_REJECTED"}
<1> DEFINE Refusals == {"UNKNOWN_CAPABILITY_REJECTED", "FUTURE_GATE_REQUIRED",
                        "SCOPE_LIMIT_REJECTED", "CAPABILITY_DENIED"}
<1>1. v.status \in ValidationStatus
  BY DEF StructuredActionValidationResult
<1>2. \A t \in DOMAIN FORBIDDEN_ACTION_CAPABILITIES : FORBIDDEN_ACTION_CAPABILITIES[t] \in STRING
  <2> SUFFICES ASSUME NEW t \in FORBIDDEN_ACTION_TYPES \ WithoutForbiddenCapability
               PROVE  FORBIDDEN_ACTION_CAPABILITIES[t] \in STRING
    BY DEF FORBIDDEN_ACTION_CAPABILITIES
  <2>1. FORBIDDEN_ACTION_TYPES \ WithoutForbiddenCapability \subseteq DOMAIN ACTION_CAPABILITY_MAPPING
    BY DEF FORBIDDEN_ACTION_TYPES, WithoutForbiddenCapability, ACTION_CAPABILITY_MAPPING
  <2>2. "direct_ledger_append" \in KnownCapability
    BY DEF KnownCapability, Policy
  <2>3. FORBIDDEN_ACTION_CAPABILITIES[t] \in KnownCapability
    BY <2>1, <2>2, MappedIsKnown DEF FORBIDDEN_ACTION_CAPABILITIES
  <2> QED
    BY <2>3, NamesAssumption
<1>3. PICK result \in Refusals, named \in Seq(STRING) : g = _gate_result(result, named, v.status)
  BY <1>2, OneOrTwo DEF _schema_rejection_result
<1>4. /\ result \in GateResult
      /\ result \notin _ALLOWED_CANDIDATE_GATE_RESULTS \cup {"REPORTED_ONLY_CAPABILITY_GRANT_REJECTED"}
  BY DEF GateResult, _ALLOWED_CANDIDATE_GATE_RESULTS
<1> QED
  BY <1>1, <1>3, <1>4, GateResults

(* Each capability the action requires is let through.                       *)
Permitted(a, type, leads) ==
    \A i \in DOMAIN _required_capabilities(a, type) :
        _decision(_required_capabilities(a, type)[i], a, type, leads, {}) = "allowed"

(* A valid action that makes no claim is let through when each capability it *)
(* requires is, and no other action is.  One that makes a claim is told so.  *)
LEMMA GateAllows ==
  ASSUME NEW a \in Action, NEW leads, NEW v \in StructuredActionValidationResult,
         NEW g, g = evaluate_action_capabilities(a, v, leads, {})
  PROVE  /\ g \in ActionCapabilityGateResult
         /\ g.result \in _ALLOWED_CANDIDATE_GATE_RESULTS <=>
              v.valid /\ _scan_self_report_claims(a) = {} /\ Permitted(a, v.type, leads)
         /\ g.result = "REPORTED_ONLY_CAPABILITY_GRANT_REJECTED" <=>
              v.valid /\ _scan_self_report_claims(a) # {}
<1> DEFINE required == _required_capabilities(a, v.type)
           decided == [i \in DOMAIN required |-> _decision(required[i], a, v.type, leads, {})]
           refused == {i \in DOMAIN required : decided[i] # "allowed"}
           first == CHOOSE i \in refused : \A j \in refused : i <= j
           limited == \E i \in DOMAIN required : required[i] \in Policy.LIMITED
           Refusals == {"UNKNOWN_CAPABILITY_REJECTED", "CAPABILITY_DENIED", "NOT_IMPLEMENTED_REJECTED",
                        "FUTURE_GATE_REQUIRED", "USER_GATE_REQUIRED", "SCOPE_LIMIT_REJECTED"}
<1>1. v.type \in STRING \cup {None} /\ v.status \in ValidationStatus
  BY DEF StructuredActionValidationResult
<1>2. required \in Seq(STRING)
  BY <1>1, RequiredCapabilities
<1>3. g = IF ~v.valid THEN _schema_rejection_result(v, required)
          ELSE IF _scan_self_report_claims(a) # {}
          THEN _gate_result("REPORTED_ONLY_CAPABILITY_GRANT_REJECTED", required, v.status)
          ELSE IF refused # {}
          THEN _gate_result(decided[first], required, v.status)
          ELSE _gate_result(IF limited THEN "CAPABILITY_GATE_LIMITED_ALLOWED"
                            ELSE "CAPABILITY_GATE_ALLOWED", required, v.status)
  BY DEF evaluate_action_capabilities
<1>4. \A i \in DOMAIN required : decided[i] \in Refusals \cup {"allowed"}
  BY DEF _decision
<1>5. ASSUME refused # {} PROVE decided[first] \in Refusals
  <2>1. refused \in SUBSET Nat
    BY <1>2
  <2>2. \E i \in refused : \A j \in refused : i <= j
    <3> HIDE DEF refused
    <3> QED
      BY <1>5, <2>1, LeastOf
  <2>3. first \in refused
    <3> HIDE DEF refused
    <3> QED
      BY <2>2
  <2> HIDE DEF first, Refusals
  <2> QED
    BY <1>4, <2>3
<1>6. refused = {} <=> Permitted(a, v.type, leads)
  BY DEF Permitted
<1>7. /\ Refusals \subseteq GateResult /\ Refusals \cap _ALLOWED_CANDIDATE_GATE_RESULTS = {}
      /\ "REPORTED_ONLY_CAPABILITY_GRANT_REJECTED" \notin Refusals
      /\ "REPORTED_ONLY_CAPABILITY_GRANT_REJECTED" \in GateResult \ _ALLOWED_CANDIDATE_GATE_RESULTS
      /\ _ALLOWED_CANDIDATE_GATE_RESULTS \subseteq GateResult
  BY DEF GateResult, _ALLOWED_CANDIDATE_GATE_RESULTS
<1> HIDE DEF required, decided, refused, first, limited, Refusals
<1>8. CASE ~v.valid
  BY <1>2, <1>3, <1>8, InvalidIsRefused
<1>9. CASE v.valid /\ _scan_self_report_claims(a) # {}
  BY <1>1, <1>2, <1>3, <1>7, <1>9, GateResults
<1>10. CASE v.valid /\ _scan_self_report_claims(a) = {} /\ refused # {}
  <2>1. g = _gate_result(decided[first], required, v.status) /\ decided[first] \in Refusals
    BY <1>3, <1>5, <1>10
  <2>2. g \in ActionCapabilityGateResult /\ g.result = decided[first]
    BY <1>1, <1>2, <1>7, <2>1, GateResults
  <2> QED
    BY <1>6, <1>7, <1>10, <2>1, <2>2
<1>11. CASE v.valid /\ _scan_self_report_claims(a) = {} /\ refused = {}
  <2>1. PICK result \in _ALLOWED_CANDIDATE_GATE_RESULTS : g = _gate_result(result, required, v.status)
    BY <1>3, <1>11 DEF _ALLOWED_CANDIDATE_GATE_RESULTS
  <2>2. g \in ActionCapabilityGateResult /\ g.result = result
    BY <1>1, <1>2, <1>7, <2>1, GateResults
  <2>3. result # "REPORTED_ONLY_CAPABILITY_GRANT_REJECTED"
    BY <1>7, <2>1
  <2> QED
    BY <1>6, <1>11, <2>1, <2>2, <2>3
<1> QED
  BY <1>8, <1>9, <1>10, <1>11

-----------------------------------------------------------------------------
(* What the adapter makes of an output. *)

Readable(o) == _parse_raw_output(o) /\ o.direct = {}
Proposed(o) == IF o.body = None THEN NoAction ELSE [o.body EXCEPT !.top = @ \ Ignorable]
SetAside(o) == _self_report_paths_outside_action(o) \cup _strip_top_level_self_reports(o)
Validation(o, leads) == validate_structured_action(Proposed(o), leads)
Verdict(o, leads) == evaluate_action_capabilities(Proposed(o), Validation(o, leads), leads, {})

LEMMA ProposedAction ==
  ASSUME NEW o \in Output
  PROVE  /\ Proposed(o) \in Action
         /\ o.body # None => Proposed(o) = [o.body EXCEPT !.top = o.body.top \ Ignorable]
         /\ SetAside(o) \subseteq {"outer", "action"} \X Claim
<1>1. "" \in STRING
  BY NamesAssumption
<1>2. NoAction \in Action
  BY <1>1, EmptySeq DEF NoAction, Action
<1>3. ASSUME o.body # None PROVE Proposed(o) \in Action
  <2>1. o.body \in Action
    BY <1>3 DEF Output
  <2> QED
    BY <1>3, <2>1 DEF Proposed, Action
<1>4. o.body = None \/ o.body.top \subseteq Claim
  BY DEF Output, Action
<1>5. o.outer \subseteq Claim
  BY DEF Output
<1>6. SetAside(o) \subseteq {"outer", "action"} \X Claim
  BY <1>4, <1>5 DEF SetAside, _self_report_paths_outside_action, _strip_top_level_self_reports
<1> QED
  BY <1>2, <1>3, <1>6 DEF Proposed

LEMMA JudgedOutput ==
  ASSUME NEW o \in Output, NEW leads
  PROVE  /\ Validation(o, leads) \in StructuredActionValidationResult
         /\ Verdict(o, leads) \in ActionCapabilityGateResult
BY ProposedAction, ValidAction, GateAllows DEF Validation, Verdict

(* The packet of an output, field by field.                                  *)
LEMMA PacketOf ==
  ASSUME NEW o \in Output, NEW leads, NEW p, p = ingest_executor_output(o, leads)
  PROVE  /\ p \in Packet
         /\ p.made = TRUE /\ p.creator = RUNTIME_INGRESS_ADAPTER /\ p.flags = {}
         /\ p.hold = TRUE /\ p.safe = TRUE /\ p.id = p.hash
         /\ IF Readable(o)
            THEN /\ p.parse = "PARSE_OK" /\ p.validation = Validation(o, leads)
                 /\ p.capability = Verdict(o, leads) /\ p.ignored = SetAside(o)
            ELSE p.parse = "PARSE_FAILED" /\ p.validation = None /\ p.capability = None
<1> DEFINE error == IF ~_parse_raw_output(o) THEN "unreadable" ELSE _direct_submission_parse_error(o)
           read == _normalize_parsed_output(o)
           valid == Validation(o, leads)
           gated == Verdict(o, leads)
<1>1. o.direct \subseteq {"evidence", "candidate", "packet"}
  BY DEF Output
<1>2. IF Readable(o) THEN error = None ELSE error \in ParseError /\ error # None
  <2>1. CASE ~_parse_raw_output(o)
    BY <2>1, PacketAssumption DEF Readable, ParseError
  <2>2. CASE _parse_raw_output(o)
    <3>1. \/ "evidence" \in o.direct \/ o.direct = {"candidate"} \/ o.direct = {"candidate", "packet"}
          \/ o.direct = {"packet"} \/ o.direct = {}
      BY <1>1
    <3> QED
      BY <2>2, <3>1, PacketAssumption DEF Readable, ParseError, _direct_submission_parse_error
  <2> QED
    BY <2>1, <2>2
<1>3. /\ read.action \in Action \cup {None} /\ read.ignored = SetAside(o)
      /\ Proposed(o) = IF read.action = None THEN NoAction ELSE read.action
  <2>1. CASE o.body = None
    BY <2>1 DEF _normalize_parsed_output, Proposed, SetAside
  <2>2. CASE o.body # None
    <3>1. Proposed(o) \in Action /\ Proposed(o) # None
      BY ProposedAction, NoneAssumption
    <3> QED
      BY <2>2, <3>1 DEF _normalize_parsed_output, Proposed, SetAside
  <2> QED
    BY <2>1, <2>2
<1>4. p = IF error # None
          THEN ActionDecisionPacket(o, "PARSE_FAILED", error, None, None, None,
                   _decision_basis("PARSE_FAILED", None, None, {}), {}, TRUE)
          ELSE ActionDecisionPacket(o, "PARSE_OK", None, read.action, valid, gated,
                   _decision_basis("PARSE_OK", valid, gated, read.ignored), read.ignored, TRUE)
  BY <1>3 DEF ingest_executor_output, Validation, Verdict
<1>5. /\ valid \in StructuredActionValidationResult /\ gated \in ActionCapabilityGateResult
      /\ valid # None /\ gated # None /\ SetAside(o) \subseteq {"outer", "action"} \X Claim
  BY JudgedOutput, ProposedAction, NoneAssumption
<1> HIDE DEF error, read, valid, gated
<1>6. CASE Readable(o)
  <2>1. p = ActionDecisionPacket(o, "PARSE_OK", None, read.action, valid, gated,
                _decision_basis("PARSE_OK", valid, gated, SetAside(o)), SetAside(o), TRUE)
    BY <1>2, <1>3, <1>4, <1>6
  <2>2. _decision_basis("PARSE_OK", valid, gated, SetAside(o)) \in
          [parse: {"PARSE_OK", "PARSE_FAILED"}, validation: ValidationStatus \cup {None},
           capability: GateResult \cup {None}, ignored: BOOLEAN]
    BY <1>5 DEF _decision_basis, StructuredActionValidationResult, ActionCapabilityGateResult
  <2>3. p \in Packet
    BY <1>3, <1>5, <2>1, <2>2 DEF ActionDecisionPacket, Packet, RUNTIME_INGRESS_ADAPTER
  <2> QED
    BY <1>6, <2>1, <2>3 DEF ActionDecisionPacket, valid, gated
<1>7. CASE ~Readable(o)
  <2>1. p = ActionDecisionPacket(o, "PARSE_FAILED", error, None, None, None,
                _decision_basis("PARSE_FAILED", None, None, {}), {}, TRUE)
    BY <1>2, <1>4, <1>7
  <2>2. _decision_basis("PARSE_FAILED", None, None, {}) \in
          [parse: {"PARSE_OK", "PARSE_FAILED"}, validation: ValidationStatus \cup {None},
           capability: GateResult \cup {None}, ignored: BOOLEAN]
    BY DEF _decision_basis
  <2>3. p \in Packet
    BY <1>2, <1>7, <2>1, <2>2 DEF ActionDecisionPacket, Packet, RUNTIME_INGRESS_ADAPTER
  <2> QED
    BY <1>7, <2>1, <2>3 DEF ActionDecisionPacket
<1> QED
  BY <1>6, <1>7

-----------------------------------------------------------------------------
(* The binder, the verifier and the gate. *)

(* A record of evidence has these fields, and says of two what it is.        *)
Shaped(e) ==
    /\ e = [copied |-> e.copied, current |-> e.current, owned |-> e.owned,
            basis_hash |-> e.basis_hash, affirmed |-> e.affirmed, claimed |-> e.claimed,
            eligible |-> e.eligible, digest |-> e.digest]
    /\ e.current \in BOOLEAN /\ e.owned \in BOOLEAN

(* The fields of the evidence of a packet.                                   *)
LEMMA BoundFields ==
  ASSUME NEW p, NEW e, e = bind_action_decision_packet_evidence(p)
  PROVE  /\ Shaped(e)
         /\ e.copied = _copied(p) /\ e.current = TRUE /\ e.basis_hash = p.basis
         /\ e.owned = (p.creator = RUNTIME_INGRESS_ADAPTER)
         /\ e.affirmed = Duty /\ e.claimed = p.flags
         /\ e.eligible = _store_adjacent_candidate_eligible(p)
         /\ e.digest = expected_action_decision_packet_evidence_hash(e)
<1>1. PICK owned \in BOOLEAN : owned = (p.creator = RUNTIME_INGRESS_ADAPTER)
  OBVIOUS
<1>2. PICK eligible : eligible = _store_adjacent_candidate_eligible(p)
  OBVIOUS
<1>3. PICK copied : copied = _copied(p)
  OBVIOUS
<1>4. PICK bare : bare = [copied |-> copied, current |-> TRUE, owned |-> owned,
                              basis_hash |-> p.basis, affirmed |-> Duty, claimed |-> p.flags,
                              eligible |-> eligible, digest |-> None]
  OBVIOUS
<1>5. PICK digest : digest = expected_action_decision_packet_evidence_hash(bare)
  OBVIOUS
<1>6. e = [bare EXCEPT !.digest = digest]
  BY <1>1, <1>2, <1>3, <1>4, <1>5 DEF bind_action_decision_packet_evidence
<1>7. e = [copied |-> copied, current |-> TRUE, owned |-> owned, basis_hash |-> p.basis,
           affirmed |-> Duty, claimed |-> p.flags, eligible |-> eligible, digest |-> digest]
  BY <1>4, <1>6
<1>8. /\ e.copied = copied /\ e.current = TRUE /\ e.owned = owned /\ e.basis_hash = p.basis
      /\ e.affirmed = Duty /\ e.claimed = p.flags /\ e.eligible = eligible /\ e.digest = digest
  BY <1>7
<1>9. Shaped(e)
  BY <1>7, <1>8 DEF Shaped
<1>10. digest = expected_action_decision_packet_evidence_hash(e)
  BY <1>5, <1>6 DEF expected_action_decision_packet_evidence_hash
<1> QED
  BY <1>1, <1>2, <1>3, <1>8, <1>9, <1>10

(* What the verifier recomputes from the evidence of a packet of the adapter *)
(* is what the binder computed from the packet.                              *)
LEMMA BoundVerifies ==
  ASSUME NEW o \in Output, NEW leads, NEW p, p = ingest_executor_output(o, leads),
         NEW e, e = bind_action_decision_packet_evidence(p)
  PROVE  /\ p # None
         /\ verify_action_decision_packet_evidence(e, p)
         /\ _store_adjacent_candidate_eligible(p) <=>
              /\ Readable(o) /\ Validation(o, leads).valid
              /\ Verdict(o, leads).result \in _ALLOWED_CANDIDATE_GATE_RESULTS
              /\ SetAside(o) = {}
<1> DEFINE v == Validation(o, leads)
           g == Verdict(o, leads)
<1>1. /\ p \in Packet
      /\ p.made = TRUE /\ p.creator = RUNTIME_INGRESS_ADAPTER /\ p.flags = {}
      /\ p.hold = TRUE /\ p.safe = TRUE /\ p.id = p.hash
      /\ IF Readable(o)
         THEN p.parse = "PARSE_OK" /\ p.validation = v /\ p.capability = g /\ p.ignored = SetAside(o)
         ELSE p.parse = "PARSE_FAILED" /\ p.validation = None /\ p.capability = None
  BY PacketOf, ZenonT(30)
<1>2. /\ v \in StructuredActionValidationResult /\ g \in ActionCapabilityGateResult
      /\ v # None /\ g # None
  BY JudgedOutput, NoneAssumption
<1>3. /\ v.valid <=> v.status = "VALID_STRUCTURED_ACTION"
      /\ g.result \in _ALLOWED_CANDIDATE_GATE_RESULTS => v.valid
  BY <1>2, ProposedAction, ValidAction, GateAllows DEF Validation, Verdict
<1>4. None \notin _ALLOWED_CANDIDATE_GATE_RESULTS /\ p # None
  BY <1>1, NoneAssumption, PacketAssumption DEF _ALLOWED_CANDIDATE_GATE_RESULTS, GateResult
<1> HIDE DEF v, g
<1>5. _store_adjacent_candidate_eligible(p) <=>
        /\ Readable(o) /\ v.valid /\ g.result \in _ALLOWED_CANDIDATE_GATE_RESULTS /\ SetAside(o) = {}
  BY <1>1, <1>2, <1>3 DEF _store_adjacent_candidate_eligible, is_runtime_built_action_decision_packet
<1>6. /\ e.copied = _copied(p) /\ e.current = TRUE /\ e.owned = TRUE /\ e.basis_hash = p.basis
      /\ e.affirmed = Duty /\ e.claimed = {}
      /\ e.eligible = _store_adjacent_candidate_eligible(p)
      /\ e.digest = expected_action_decision_packet_evidence_hash(e)
  BY <1>1, BoundFields
<1>7. /\ e.copied.id = p.id /\ e.copied.creator = p.creator /\ e.copied.built = p.made
      /\ e.copied.hash = p.hash /\ e.copied.parse = p.parse /\ e.copied.basis = p.basis
      /\ e.copied.ignored = p.ignored /\ e.copied.hold = p.hold /\ e.copied.safe = p.safe
      /\ e.copied.status = (IF p.validation = None THEN None ELSE p.validation.status)
      /\ e.copied.valid = (p.validation # None /\ p.validation.valid)
      /\ e.copied.gate = (IF p.capability = None THEN None ELSE p.capability.result)
  BY <1>6 DEF _copied
<1>8. e.eligible = _expected_candidate_eligible(e)
  <2>1. _expected_candidate_eligible(e) <=>
          /\ Readable(o) /\ v.valid /\ g.result \in _ALLOWED_CANDIDATE_GATE_RESULTS /\ SetAside(o) = {}
    <3>1. CASE Readable(o)
      <4>1. e.copied.parse = "PARSE_OK" /\ e.copied.ignored = SetAside(o)
        BY <1>1, <1>7, <3>1
      <4>2. e.copied.status = v.status /\ e.copied.gate = g.result
        BY <1>1, <1>2, <1>7, <3>1
      <4>3. e.copied.valid <=> v.valid
        BY <1>1, <1>2, <1>7, <3>1
      <4>4. e.owned /\ e.copied.built /\ e.claimed = {} /\ e.copied.hold
        BY <1>1, <1>6, <1>7
      <4> QED
        BY <1>3, <3>1, <4>1, <4>2, <4>3, <4>4 DEF _expected_candidate_eligible
    <3>2. CASE ~Readable(o)
      BY <1>1, <1>7, <3>2 DEF _expected_candidate_eligible
    <3> QED
      BY <3>1, <3>2
  <2>2. _expected_candidate_eligible(e) \in BOOLEAN
    BY DEF _expected_candidate_eligible
  <2>3. _store_adjacent_candidate_eligible(p) \in BOOLEAN
    BY DEF _store_adjacent_candidate_eligible
  <2>4. _expected_candidate_eligible(e) = _store_adjacent_candidate_eligible(p)
    BY <1>5, <2>1, <2>2, <2>3
  <2> QED
    BY <1>6, <2>4
<1>9. _sound(e)
  BY <1>1, <1>2, <1>3, <1>4, <1>7, <1>8, ZenonT(30) DEF _sound
<1>10. ~_packet_mismatch_reasons(e, p)
  BY <1>1, <1>6 DEF _packet_mismatch_reasons
<1>11. verify_action_decision_packet_evidence(e, p)
  BY <1>1, <1>4, <1>6, <1>7, <1>9, <1>10
  DEF verify_action_decision_packet_evidence, _packet_id, is_runtime_built_action_decision_packet
<1> QED
  BY <1>4, <1>5, <1>11 DEF v, g

(* What the gate answers a packet of the adapter.                            *)
LEMMA GateAnswer ==
  ASSUME NEW o \in Output, NEW leads, NEW p, p = ingest_executor_output(o, leads),
         NEW v, v = Validation(o, leads), NEW g, g = Verdict(o, leads)
  PROVE  evaluate_store_adjacent_candidate_gate(p) =
           IF ~Readable(o) \/ ~v.valid
           THEN _gate_rejection("UNVALIDATED_ACTION_STORE_PATH_REJECTED")
           ELSE IF g.result = "REPORTED_ONLY_CAPABILITY_GRANT_REJECTED"
           THEN _gate_rejection("REPORTED_ONLY_STORE_PATH_REJECTED")
           ELSE IF g.result \notin _ALLOWED_CANDIDATE_GATE_RESULTS
           THEN _gate_rejection("DENIED_CAPABILITY_STORE_PATH_REJECTED")
           ELSE IF SetAside(o) # {}
           THEN _gate_rejection("SELF_REPORTED_AUTHORITY_STORE_PATH_REJECTED")
           ELSE [accepted |-> TRUE, status |-> "STORE_ADJACENT_CANDIDATE_ACCEPTED"]
<1> DEFINE e == bind_action_decision_packet_evidence(p)
<1>1. IF Readable(o)
      THEN p.parse = "PARSE_OK" /\ p.validation = v /\ p.capability = g /\ p.ignored = SetAside(o)
      ELSE p.parse = "PARSE_FAILED" /\ p.validation = None /\ p.capability = None
  BY PacketOf, ZenonT(30)
<1>2. v # None /\ g # None
  BY JudgedOutput, NoneAssumption
<1>3. /\ verify_action_decision_packet_evidence(e, p)
      /\ _store_adjacent_candidate_eligible(p) <=>
           /\ Readable(o) /\ v.valid /\ g.result \in _ALLOWED_CANDIDATE_GATE_RESULTS
           /\ SetAside(o) = {}
  BY BoundVerifies
<1>4. e.eligible = _store_adjacent_candidate_eligible(p)
  BY BoundFields
<1> HIDE DEF e
<1>5. evaluate_store_adjacent_candidate_gate(p) =
        IF p.parse # "PARSE_OK" \/ p.validation = None \/ ~p.validation.valid
        THEN _gate_rejection("UNVALIDATED_ACTION_STORE_PATH_REJECTED")
        ELSE IF p.capability = None
        THEN _gate_rejection("DENIED_CAPABILITY_STORE_PATH_REJECTED")
        ELSE IF p.capability.result = "REPORTED_ONLY_CAPABILITY_GRANT_REJECTED"
        THEN _gate_rejection("REPORTED_ONLY_STORE_PATH_REJECTED")
        ELSE IF p.capability.result \notin _ALLOWED_CANDIDATE_GATE_RESULTS
        THEN _gate_rejection("DENIED_CAPABILITY_STORE_PATH_REJECTED")
        ELSE IF p.ignored # {}
        THEN _gate_rejection("SELF_REPORTED_AUTHORITY_STORE_PATH_REJECTED")
        ELSE IF ~e.eligible
        THEN _gate_rejection("PACKET_EVIDENCE_STORE_PATH_REJECTED")
        ELSE [accepted |-> TRUE, status |-> "STORE_ADJACENT_CANDIDATE_ACCEPTED"]
  BY <1>3, Zenon DEF evaluate_store_adjacent_candidate_gate, e
<1>6. CASE ~Readable(o) \/ ~v.valid
  BY <1>1, <1>5, <1>6
<1>7. CASE Readable(o) /\ v.valid
  BY <1>1, <1>2, <1>3, <1>4, <1>5, <1>7
<1> QED
  BY <1>6, <1>7

(* The gate accepts a packet of the adapter exactly when it is eligible.     *)
LEMMA GateOfPacket ==
  ASSUME NEW o \in Output, NEW leads, NEW p, p = ingest_executor_output(o, leads)
  PROVE  evaluate_store_adjacent_candidate_gate(p).accepted <=> _store_adjacent_candidate_eligible(p)
<1> DEFINE v == Validation(o, leads)
           g == Verdict(o, leads)
<1>1. _store_adjacent_candidate_eligible(p) <=>
        /\ Readable(o) /\ v.valid /\ g.result \in _ALLOWED_CANDIDATE_GATE_RESULTS
        /\ SetAside(o) = {}
  BY BoundVerifies
<1>2. evaluate_store_adjacent_candidate_gate(p) =
        IF ~Readable(o) \/ ~v.valid
        THEN _gate_rejection("UNVALIDATED_ACTION_STORE_PATH_REJECTED")
        ELSE IF g.result = "REPORTED_ONLY_CAPABILITY_GRANT_REJECTED"
        THEN _gate_rejection("REPORTED_ONLY_STORE_PATH_REJECTED")
        ELSE IF g.result \notin _ALLOWED_CANDIDATE_GATE_RESULTS
        THEN _gate_rejection("DENIED_CAPABILITY_STORE_PATH_REJECTED")
        ELSE IF SetAside(o) # {}
        THEN _gate_rejection("SELF_REPORTED_AUTHORITY_STORE_PATH_REJECTED")
        ELSE [accepted |-> TRUE, status |-> "STORE_ADJACENT_CANDIDATE_ACCEPTED"]
  BY GateAnswer
<1>3. "REPORTED_ONLY_CAPABILITY_GRANT_REJECTED" \notin _ALLOWED_CANDIDATE_GATE_RESULTS
  BY DEF _ALLOWED_CANDIDATE_GATE_RESULTS
<1>4. \A status : ~_gate_rejection(status).accepted
  BY DEF _gate_rejection
<1> HIDE DEF v, g
<1> QED
  BY <1>1, <1>2, <1>3, <1>4

-----------------------------------------------------------------------------
(* What is accepted, in the words of the output. *)

(* What is judged of an action besides its claims.                           *)
Fits(a, leads) ==
    /\ a.typed /\ a.type \in ALLOWED_ACTION_TYPES /\ a.shaped
    /\ _scan_forbidden_payload(a, leads) = {}
    /\ Permitted(a, a.type, leads)

Modest(o) ==
    /\ o.body.top \cap (Ignorable \cup Granting) = {} /\ o.body.inner \cap Granting = {}
    /\ o.wrapped => o.outer \cap Ignorable = {}

(* Claims change nothing of what is judged besides them.                     *)
LEMMA ClaimsAside ==
  ASSUME NEW a, NEW b, NEW leads,
         b.typed = a.typed, b.type = a.type, b.shaped = a.shaped, b.keys = a.keys, b.asks = a.asks,
         b.relative = a.relative, b.paths = a.paths, b.needs = a.needs
  PROVE  Fits(a, leads) <=> Fits(b, leads)
<1>1. _scan_forbidden_payload(a, leads) = _scan_forbidden_payload(b, leads)
  BY DEF _scan_forbidden_payload
<1>2. _required_capabilities(a, a.type) = _required_capabilities(b, b.type)
  BY DEF _required_capabilities
<1>3. _limited_scope_rejection_reasons(a, a.type, leads)
      <=> _limited_scope_rejection_reasons(b, b.type, leads)
  BY DEF _limited_scope_rejection_reasons
<1>4. \A c : _decision(c, a, a.type, leads, {}) = _decision(c, b, b.type, leads, {})
  BY <1>3 DEF _decision
<1> QED
  BY <1>1, <1>2, <1>4 DEF Fits, Permitted

LEMMA EmptyProduct == ASSUME NEW x, NEW T PROVE ({x} \X T = {}) <=> (T = {})
<1>1. ASSUME NEW t \in T PROVE <<x, t>> \in {x} \X T
  OBVIOUS
<1>2. T = {} => {x} \X T = {}
  OBVIOUS
<1> QED
  BY <1>1, <1>2

(* An output is accepted for a candidate exactly when it holds an action     *)
(* that fits and nothing beside or inside of it vouches for it.              *)
LEMMA AcceptedOutput ==
  ASSUME NEW o \in Output, NEW leads
  PROVE  evaluate_store_adjacent_candidate_gate(ingest_executor_output(o, leads)).accepted
         <=> Readable(o) /\ o.body # None /\ Fits(o.body, leads) /\ Modest(o)
<1> DEFINE a == Proposed(o)
           v == Validation(o, leads)
           accepted == evaluate_store_adjacent_candidate_gate(ingest_executor_output(o, leads)).accepted
<1>1. accepted <=> /\ Readable(o) /\ v.valid
                   /\ Verdict(o, leads).result \in _ALLOWED_CANDIDATE_GATE_RESULTS
                   /\ SetAside(o) = {}
  BY GateOfPacket, BoundVerifies
<1> HIDE DEF accepted
<1>2. CASE o.body = None
  <2>1. a \in Action /\ ~a.typed
    BY <1>2, ProposedAction DEF Proposed, NoAction
  <2>2. ~v.valid
    BY <2>1, ValidAction DEF Validation
  <2> QED
    BY <1>1, <1>2, <2>2 DEF accepted
<1>3. CASE o.body # None
  <2>1. a \in Action /\ o.body \in Action /\ a = [o.body EXCEPT !.top = o.body.top \ Ignorable]
    BY <1>3, ProposedAction DEF Output
  <2>2. /\ a.typed = o.body.typed /\ a.type = o.body.type /\ a.shaped = o.body.shaped
        /\ a.keys = o.body.keys /\ a.asks = o.body.asks /\ a.relative = o.body.relative
        /\ a.paths = o.body.paths /\ a.needs = o.body.needs
        /\ a.top = o.body.top \ Ignorable /\ a.inner = o.body.inner
    BY <2>1 DEF Action
  <2> HIDE DEF a
  <2>3. Fits(a, leads) <=> Fits(o.body, leads)
    BY <2>2, ClaimsAside
  <2>4. /\ v \in StructuredActionValidationResult
        /\ v.valid <=> /\ a.typed /\ a.type \in ALLOWED_ACTION_TYPES /\ a.shaped
                       /\ _scan_forbidden_payload(a, leads) = {}
        /\ v.valid => v.type = a.type
    BY <2>1, ValidAction DEF Validation, a
  <2>5. v.valid /\ Verdict(o, leads).result \in _ALLOWED_CANDIDATE_GATE_RESULTS
        <=> Fits(a, leads) /\ _scan_self_report_claims(a) = {}
    <3>1. Verdict(o, leads) = evaluate_action_capabilities(a, v, leads, {})
      BY DEF Verdict, a
    <3> HIDE DEF v
    <3>2. Verdict(o, leads).result \in _ALLOWED_CANDIDATE_GATE_RESULTS <=>
            v.valid /\ _scan_self_report_claims(a) = {} /\ Permitted(a, v.type, leads)
      BY <2>1, <2>4, <3>1, GateAllows
    <3> QED
      BY <2>4, <3>2 DEF Fits
  <2>6. _scan_self_report_claims(a) = {} /\ SetAside(o) = {} <=> Modest(o)
    <3>1. SetAside(o) = {} <=> /\ o.body.top \cap Ignorable = {}
                               /\ o.wrapped => o.outer \cap Ignorable = {}
      <4>1. _self_report_paths_outside_action(o) = {} <=> (o.wrapped => o.outer \cap Ignorable = {})
        BY EmptyProduct DEF _self_report_paths_outside_action
      <4>2. _strip_top_level_self_reports(o) = {} <=> o.body.top \cap Ignorable = {}
        BY <1>3, EmptyProduct DEF _strip_top_level_self_reports
      <4> QED
        BY <4>1, <4>2 DEF SetAside
    <3>2. _scan_self_report_claims(a) = {}
          <=> (o.body.top \ Ignorable) \cap Granting = {} /\ o.body.inner \cap Granting = {}
      BY <2>2 DEF _scan_self_report_claims
    <3> QED
      BY <3>1, <3>2 DEF Modest
  <2> HIDE DEF v
  <2> QED
    BY <1>1, <1>3, <2>3, <2>5, <2>6 DEF accepted
<1> QED
  BY <1>2, <1>3

(* A capability that is let through is an allowed or a limited one, and a    *)
(* limited one is let through for paths the gate lets through.               *)
LEMMA LetThrough ==
  ASSUME NEW c, NEW a, NEW type, NEW leads, _decision(c, a, type, leads, {}) = "allowed"
  PROVE  /\ c \in Policy.ALLOWED_UNDER_POLICY \cup Policy.LIMITED
         /\ c \in Policy.LIMITED => ~_limited_scope_rejection_reasons(a, type, leads)
<1>1. c \in KnownCapability /\ c \notin Policy.DENIED /\ c \notin Policy.NOT_IMPLEMENTED
      /\ c \notin Policy.FUTURE_GATED /\ c \notin Policy.USER_GATED
      /\ ~(c \in Policy.LIMITED /\ _limited_scope_rejection_reasons(a, type, leads))
  BY DEF _decision
<1>2. KnownCapability = Policy.ALLOWED_UNDER_POLICY \cup Policy.LIMITED \cup Policy.FUTURE_GATED
                        \cup Policy.USER_GATED \cup Policy.NOT_IMPLEMENTED \cup Policy.DENIED
  BY DEF KnownCapability, Policy
<1> QED
  BY <1>1, <1>2

LEMMA Concatenated ==
  ASSUME NEW S, NEW s \in Seq(S), NEW t \in Seq(S)
  PROVE  /\ \A i \in 1..Len(s) : i \in DOMAIN (s \o t) /\ (s \o t)[i] = s[i]
         /\ \A i \in 1..Len(t) : Len(s) + i \in DOMAIN (s \o t) /\ (s \o t)[Len(s) + i] = t[i]
<1>1. Len(s) \in Nat /\ Len(t) \in Nat
  OBVIOUS
<1>2. DOMAIN (s \o t) = 1..(Len(s) + Len(t))
  BY ConcatProperties, LenProperties
<1>3. \A i \in 1..Len(s) : i \in 1..(Len(s) + Len(t))
  BY <1>1
<1>4. \A i \in 1..Len(t) : Len(s) + i \in 1..(Len(s) + Len(t)) /\ (Len(s) + i) - Len(s) = i
                           /\ ~(Len(s) + i <= Len(s))
  BY <1>1
<1> QED
  BY <1>2, <1>3, <1>4, ConcatProperties

LEMMA FitsIsEarned ==
  ASSUME NEW o \in Output, NEW leads, Readable(o), o.body # None, Fits(o.body, leads)
  PROVE  Earned(o, leads)
<1> DEFINE a == o.body
           own == ACTION_DEFAULT_CAPABILITIES[a.type]
<1>1. /\ a \in Action /\ a.typed /\ a.type \in ALLOWED_ACTION_TYPES /\ a.shaped
      /\ _scan_forbidden_payload(a, leads) = {}
  BY DEF Fits, Output
<1>2. /\ a.type \in STRING /\ a.needs \in Seq(STRING) /\ a.paths \subseteq Reference
      /\ a.asks \in BOOLEAN /\ a.relative \in BOOLEAN
  BY <1>1 DEF Action
<1>3. a.keys = {} /\ ~a.asks /\ \A r \in a.paths : _scanned(r) => ~_leaves_project(r, leads)
  BY <1>1 DEF _scan_forbidden_payload
<1>4. ASSUME NEW r \in a.paths, _scanned(r)
      PROVE  /\ r.form = "relative" /\ r.name \notin Aeg \cup Secret
             /\ leads # None => leads[r.name] \in {"inside", "around"}
  <2>1. r.form \in {"relative", "absolute", "up"}
    BY <1>2 DEF Reference
  <2>2. ~_lexical_rejection(r) /\ ~realpath_scope_rejection_reasons(r.name, leads)
    BY <1>3, <1>4 DEF _leaves_project
  <2> QED
    BY <2>1, <2>2 DEF _lexical_rejection, realpath_scope_rejection_reasons
<1>5. _required_capabilities(a, a.type) = own \o a.needs
  BY <1>1, <1>2, RequiredCapabilities
<1>6. \A i \in DOMAIN (own \o a.needs) : _decision((own \o a.needs)[i], a, a.type, leads, {}) = "allowed"
  BY <1>5 DEF Fits, Permitted
<1>c. /\ \A i \in 1..Len(own) : i \in DOMAIN (own \o a.needs) /\ (own \o a.needs)[i] = own[i]
      /\ \A i \in 1..Len(a.needs) : /\ Len(own) + i \in DOMAIN (own \o a.needs)
                                   /\ (own \o a.needs)[Len(own) + i] = a.needs[i]
  <2>1. own \in Seq(STRING)
    BY <1>1, DefaultCapabilities
  <2> HIDE DEF own, a
  <2> QED
    BY <1>2, <2>1, Concatenated, SMTT(30)
<1>7. ASSUME NEW i \in DOMAIN a.needs
      PROVE  a.needs[i] \in Policy.ALLOWED_UNDER_POLICY \cup Policy.LIMITED
  <2>1. i \in 1..Len(a.needs)
    BY <1>2
  <2>2. Len(own) + i \in DOMAIN (own \o a.needs) /\ (own \o a.needs)[Len(own) + i] = a.needs[i]
    BY <1>c, <2>1
  <2> QED
    BY <1>6, <2>2, LetThrough
<1>8. ASSUME a.type \in {"PROPOSE_PATCH", "REQUEST_REPO_READ"}
      PROVE  ~_limited_scope_rejection_reasons(a, a.type, leads)
  <2>1. PICK i \in 1..Len(own) : own[i] \in Policy.LIMITED
    BY <1>8 DEF ACTION_DEFAULT_CAPABILITIES, Policy
  <2>2. i \in DOMAIN (own \o a.needs) /\ (own \o a.needs)[i] = own[i]
    BY <1>c
  <2> QED
    BY <1>6, <2>1, <2>2, LetThrough
<1>9. ASSUME a.type \in {"PROPOSE_PATCH", "REQUEST_REPO_READ"}
      PROVE  /\ a.relative
             /\ \A r \in a.paths : r.field = "path" /\ r.shape \in {"value", "list"} => r.name \notin Hinted
  BY <1>8, <1>9 DEF _limited_scope_rejection_reasons
<1>10. o.kind \in {"mapping", "text"} /\ o.direct = {} /\ a # None
  BY DEF Readable, _parse_raw_output
<1> HIDE DEF own
<1> QED
  BY <1>1, <1>3, <1>4, <1>7, <1>9, <1>10 DEF Earned

(* The same output without its claims is accepted too.                       *)
LEMMA SilentIsAccepted ==
  ASSUME NEW o \in Output, NEW leads, Readable(o), o.body # None, Fits(o.body, leads)
  PROVE  evaluate_store_adjacent_candidate_gate(ingest_executor_output(Silent(o), leads)).accepted
<1> DEFINE b == [o.body EXCEPT !.top = {}, !.inner = {}]
<1>1. o.body \in Action
  BY DEF Output
<1>2. b \in Action
  BY <1>1 DEF Action
<1>3. /\ b.typed = o.body.typed /\ b.type = o.body.type /\ b.shaped = o.body.shaped
      /\ b.keys = o.body.keys /\ b.asks = o.body.asks /\ b.relative = o.body.relative
      /\ b.paths = o.body.paths /\ b.needs = o.body.needs /\ b.top = {} /\ b.inner = {}
  BY <1>1 DEF Action
<1>4. Silent(o) = [o EXCEPT !.outer = {}, !.body = b]
  BY DEF Silent
<1> HIDE DEF b
<1>5. Fits(b, leads)
  BY <1>3, ClaimsAside
<1>6. /\ Silent(o) \in Output /\ Silent(o).body = b /\ Silent(o).outer = {}
      /\ Silent(o).direct = o.direct /\ Silent(o).kind = o.kind
  BY <1>2, <1>4 DEF Output
<1>7. Readable(Silent(o)) /\ Modest(Silent(o))
  BY <1>3, <1>6 DEF Readable, _parse_raw_output, Modest
<1>8. b # None
  BY <1>2, NoneAssumption
<1> QED
  BY <1>5, <1>6, <1>7, <1>8, AcceptedOutput

-----------------------------------------------------------------------------
(* Evidence in the hands of others. *)

(* Whatever field is changed.                                                *)
LEMMA ImprovedIsShaped ==
  ASSUME NEW e, Shaped(e), NEW f \in Improved(e)
  PROVE  Shaped(f) /\ Shaped([f EXCEPT !.digest = expected_action_decision_packet_evidence_hash(f)])
<1>2. Shaped(f)
  <2>1. \/ \E c : f = [e EXCEPT !.copied = c]
        \/ \E x \in BOOLEAN : f = [e EXCEPT !.owned = x]
        \/ \E x \in BOOLEAN : f = [e EXCEPT !.current = x]
        \/ \E x : f = [e EXCEPT !.eligible = x]
        \/ \E x : f = [e EXCEPT !.basis_hash = x]
        \/ \E x : f = [e EXCEPT !.claimed = x]
        \/ \E x : f = [e EXCEPT !.affirmed = x]
    BY DEF Improved
  <2> QED
    BY <2>1 DEF Shaped
<1>3. ASSUME NEW g, Shaped(g), NEW d PROVE Shaped([g EXCEPT !.digest = d])
  BY <1>3 DEF Shaped
<1> QED
  BY <1>2, <1>3

(* Evidence the verifier accepts for a packet of the adapter is the evidence *)
(* the binder makes of it.                                                   *)
LEMMA ForgedFails ==
  ASSUME NEW o \in Output, NEW leads, NEW p, p = ingest_executor_output(o, leads),
         NEW e, Shaped(e), verify_action_decision_packet_evidence(e, p)
  PROVE  e = bind_action_decision_packet_evidence(p)
<1> DEFINE b == bind_action_decision_packet_evidence(p)
<1>1. p.creator = RUNTIME_INGRESS_ADAPTER /\ p.flags = {}
  BY PacketOf
<1>2. /\ b.copied = _copied(p) /\ b.current = TRUE /\ b.basis_hash = p.basis
      /\ b.owned = (p.creator = RUNTIME_INGRESS_ADAPTER)
      /\ b.affirmed = Duty /\ b.claimed = p.flags
      /\ b.digest = expected_action_decision_packet_evidence_hash(b)
  BY BoundFields
<1>3. verify_action_decision_packet_evidence(b, p)
  BY BoundVerifies
<1>4. Shaped(b)
  BY BoundFields
<1> HIDE DEF b
<1>5. e.copied = _copied(p) /\ e.current /\ e.owned /\ e.affirmed = Duty /\ e.claimed = {}
      /\ e.basis_hash = e.copied.basis /\ e.eligible = _expected_candidate_eligible(e)
      /\ e.digest = expected_action_decision_packet_evidence_hash(e)
  BY DEF verify_action_decision_packet_evidence, _packet_mismatch_reasons, _sound
<1>6. b.eligible = _expected_candidate_eligible(b)
  BY <1>3 DEF verify_action_decision_packet_evidence, _sound
<1>7. e.current = b.current /\ e.owned = b.owned /\ e.affirmed = b.affirmed /\ e.copied = b.copied
      /\ e.claimed = b.claimed
  BY <1>1, <1>2, <1>5 DEF Shaped
<1>8. e.basis_hash = b.basis_hash
  BY <1>2, <1>5 DEF _copied
<1>9. e.eligible = b.eligible
  BY <1>5, <1>6, <1>7 DEF _expected_candidate_eligible
<1>10. expected_action_decision_packet_evidence_hash(e) = expected_action_decision_packet_evidence_hash(b)
  BY <1>4, <1>7, <1>8, <1>9 DEF expected_action_decision_packet_evidence_hash, Shaped
<1>11. e.digest = b.digest
  BY <1>2, <1>5, <1>10
<1>12. e = b
  BY <1>4, <1>7, <1>8, <1>9, <1>11 DEF Shaped
<1> QED
  BY <1>12 DEF b

(* The gate accepts no packet but the adapter's own.                         *)
LEMMA AcceptedIsMade ==
  ASSUME NEW p, evaluate_store_adjacent_candidate_gate(p).accepted
  PROVE  p.made
<1>1. ASSUME ~verify_action_decision_packet_evidence(bind_action_decision_packet_evidence(p), p)
      PROVE  ~evaluate_store_adjacent_candidate_gate(p).accepted
  <2>1. evaluate_store_adjacent_candidate_gate(p) = _gate_rejection("PACKET_EVIDENCE_STORE_PATH_REJECTED")
    BY <1>1 DEF evaluate_store_adjacent_candidate_gate
  <2> QED
    BY <2>1 DEF _gate_rejection
<1> QED
  BY <1>1 DEF verify_action_decision_packet_evidence, is_runtime_built_action_decision_packet

-----------------------------------------------------------------------------
(* Whatever is done to a packet and to evidence. *)

ExecutorInd ==
    /\ ExecutorTypeOK
    /\ packet # None => packet \in Packet
    /\ packet # None /\ packet.made => packet = ingest_executor_output(heard.output, heard.leads)
    /\ evidence # None => Shaped(evidence)
    /\ answer # None /\ answer.asked = "verify" =>
          /\ evidence # None /\ answer.given \in BOOLEAN
          /\ answer.accepted <=> verify_action_decision_packet_evidence(
                                     evidence, IF answer.given THEN packet ELSE None)
    /\ Accepted =>
          evaluate_store_adjacent_candidate_gate(
              ingest_executor_output(heard.output, heard.leads)).accepted

LEMMA ExecutorIndInit == ExecutorInit => ExecutorInd
BY MaxAlterAssumption DEF ExecutorInit, ExecutorInd, ExecutorTypeOK, Accepted

(* The properties follow. *)
LEMMA ExecutorIndImplies ==
  ASSUME ExecutorInd
  PROVE  ExecutorInv /\ AcceptedIsEarned /\ SelfReportNeverHelps
<1>1. heard # None => heard.output \in Output
  BY DEF ExecutorInd, ExecutorTypeOK
<1>2. ForgedEvidenceRejected
  <2> SUFFICES ASSUME EvidenceAccepted
               PROVE  /\ answer.given
                      /\ packet = ingest_executor_output(heard.output, heard.leads)
                      /\ evidence = bind_action_decision_packet_evidence(packet)
    BY DEF ForgedEvidenceRejected
  <2>1. /\ answer # None /\ answer.asked = "verify" /\ answer.given \in BOOLEAN
        /\ evidence # None
        /\ verify_action_decision_packet_evidence(evidence, IF answer.given THEN packet ELSE None)
    BY DEF EvidenceAccepted, ExecutorInd
  <2>2. answer.given
    BY <2>1 DEF verify_action_decision_packet_evidence
  <2>3. verify_action_decision_packet_evidence(evidence, packet)
    BY <2>1, <2>2
  <2>4. packet # None /\ packet.made
    BY <2>3 DEF verify_action_decision_packet_evidence, is_runtime_built_action_decision_packet
  <2>5. heard.output \in Output /\ packet = ingest_executor_output(heard.output, heard.leads)
    BY <1>1, <2>4 DEF ExecutorInd, ExecutorTypeOK
  <2>6. Shaped(evidence)
    BY <2>1 DEF ExecutorInd
  <2> QED
    BY <2>2, <2>3, <2>5, <2>6, ForgedFails
<1>3. HonestEvidenceAccepted
  <2> SUFFICES ASSUME answer # None, answer.asked = "verify", answer.given, packet.made,
                      evidence = bind_action_decision_packet_evidence(packet)
               PROVE  answer.accepted
    BY DEF HonestEvidenceAccepted
  <2>1. packet # None
    BY DEF ExecutorInd, ExecutorTypeOK
  <2>2. heard.output \in Output /\ packet = ingest_executor_output(heard.output, heard.leads)
    BY <1>1, <2>1 DEF ExecutorInd, ExecutorTypeOK
  <2>3. verify_action_decision_packet_evidence(evidence, packet)
    BY <2>2, BoundVerifies
  <2> QED
    BY <2>3 DEF ExecutorInd
<1>4. GateMatchesEvidence
  <2> SUFFICES ASSUME packet # None, packet.made
               PROVE  evaluate_store_adjacent_candidate_gate(packet).accepted
                      <=> bind_action_decision_packet_evidence(packet).eligible
    BY DEF GateMatchesEvidence
  <2>1. heard.output \in Output /\ packet = ingest_executor_output(heard.output, heard.leads)
    BY <1>1 DEF ExecutorInd, ExecutorTypeOK
  <2>2. bind_action_decision_packet_evidence(packet).eligible = _store_adjacent_candidate_eligible(packet)
    BY BoundFields
  <2> QED
    BY <2>1, <2>2, GateOfPacket
<1>5. ASSUME Accepted
      PROVE  /\ heard.output \in Output /\ Readable(heard.output) /\ heard.output.body # None
             /\ Fits(heard.output.body, heard.leads) /\ Modest(heard.output)
  <2>1. heard.output \in Output
    BY <1>1, <1>5 DEF ExecutorInd, ExecutorTypeOK, Accepted
  <2> QED
    BY <1>5, <2>1, AcceptedOutput DEF ExecutorInd
<1>6. AcceptedIsEarned
  BY <1>5, FitsIsEarned DEF AcceptedIsEarned
<1>7. SelfReportNeverHelps
  <2> SUFFICES ASSUME Accepted
               PROVE  /\ Modest(heard.output)
                      /\ evaluate_store_adjacent_candidate_gate(
                             ingest_executor_output(Silent(heard.output), heard.leads)).accepted
    BY DEF SelfReportNeverHelps, Modest
  <2> QED
    BY <1>5, SilentIsAccepted
<1> QED
  BY <1>2, <1>3, <1>4, <1>6, <1>7 DEF ExecutorInd, ExecutorInv

LEMMA IngestKept ==
  ASSUME ExecutorInd, NEW o \in Outputs, NEW leads \in Links \cup {None}, Ingest(o, leads)
  PROVE  ExecutorInd'
<1>1. o \in Output
  BY OutputsAssumption
<1>2. heard' = [output |-> o, leads |-> leads] /\ heard' # None
  BY HeardAssumption DEF Ingest
<1>3. heard'.output = o /\ heard'.leads = leads
  BY <1>2
<1>4. /\ heard = None /\ answer = None /\ answer' = None /\ evidence = None /\ evidence' = None
      /\ changes' = changes
  <2>1. heard = None /\ UNCHANGED <<evidence, changes, answer>>
    BY DEF Ingest
  <2> QED
    BY <2>1 DEF ExecutorInd, ExecutorTypeOK
<1>5. packet' = None \/ packet' = ingest_executor_output(o, leads)
  BY DEF Ingest
<1>6. ASSUME packet' # None
      PROVE  /\ packet' = ingest_executor_output(heard'.output, heard'.leads)
             /\ packet' \in Packet /\ packet'.made \in BOOLEAN /\ packet'.flags \subseteq Authority
  <2>1. packet' = ingest_executor_output(o, leads)
    BY <1>5, <1>6
  <2>2. packet' \in Packet /\ packet'.made = TRUE /\ packet'.flags = {}
    BY <1>1, <2>1, PacketOf
  <2> QED
    BY <1>3, <2>1, <2>2
<1>7. ExecutorTypeOK'
  BY <1>1, <1>2, <1>3, <1>4, <1>6 DEF ExecutorInd, ExecutorTypeOK
<1> QED
  BY <1>4, <1>6, <1>7 DEF ExecutorInd, Accepted

(* A packet built by hand is none of the adapter's.                          *)
LEMMA RebuildKept == ExecutorInd /\ Rebuild => ExecutorInd'
<1> SUFFICES ASSUME ExecutorInd, Rebuild PROVE ExecutorInd'
  OBVIOUS
<1>1. packet \in Packet /\ packet # None
  BY DEF ExecutorInd, Rebuild
<1>2. ASSUME NEW p \in Rewritten(packet)
      PROVE  p \in Packet
  <2> DEFINE allowed == [result |-> "CAPABILITY_GATE_ALLOWED", required |-> <<"noop">>,
                         schema |-> "VALID_STRUCTURED_ACTION"]
             valid == _result("VALID_STRUCTURED_ACTION", {}, "NOOP")
             upgraded == [packet EXCEPT !.parse = "PARSE_OK", !.validation = valid,
                                        !.capability = allowed, !.ignored = {}]
  <2>1. "NOOP" \in STRING /\ "noop" \in STRING
    <3>1. "NOOP" \in ALLOWED_ACTION_TYPES /\ "noop" \in KnownCapability
      BY DEF ALLOWED_ACTION_TYPES, KnownCapability, Policy
    <3> QED
      BY <3>1, NamesAssumption
  <2>2. allowed \in ActionCapabilityGateResult
    BY <2>1, OneOrTwo DEF ActionCapabilityGateResult, GateResult, ValidationStatus
  <2>3. valid \in StructuredActionValidationResult
    BY <2>1 DEF _result, StructuredActionValidationResult, ValidationStatus
  <2>4. p \in {packet, upgraded, [upgraded EXCEPT !.creator = "executor"],
               [upgraded EXCEPT !.flags = Authority]}
    BY DEF Rewritten
  <2> HIDE DEF allowed, valid
  <2>5. upgraded \in Packet
    BY <1>1, <2>2, <2>3 DEF Packet
  <2> HIDE DEF upgraded
  <2> QED
    BY <1>1, <2>4, <2>5 DEF Packet
<1>3. PICK p \in Rewritten(packet) : packet' = [p EXCEPT !.made = FALSE]
  BY DEF Rebuild
<1>4. packet' \in Packet /\ packet'.made = FALSE /\ packet'.flags \subseteq Authority
  BY <1>2, <1>3, ZenonT(30) DEF Packet
<1>5. answer' = None /\ UNCHANGED <<heard, evidence, changes>>
  BY DEF Rebuild
<1>6. packet' # None
  BY <1>4, PacketAssumption
<1>7. ExecutorTypeOK'
  BY <1>1, <1>4, <1>5, <1>6 DEF ExecutorInd, ExecutorTypeOK
<1> QED
  BY <1>4, <1>5, <1>7 DEF ExecutorInd, Accepted

LEMMA EvidenceKept ==
  ASSUME ExecutorInd, Bind \/ \E rehash \in BOOLEAN : AlterEvidence(rehash)
  PROVE  ExecutorInd'
<1>1. CASE Bind
  <2>1. /\ evidence = None /\ packet # None
        /\ evidence' = bind_action_decision_packet_evidence(packet)
        /\ UNCHANGED <<heard, packet, changes, answer>>
    BY <1>1 DEF Bind
  <2>2. Shaped(evidence')
    BY <2>1, BoundFields
  <2>3. ExecutorTypeOK'
    BY <2>1 DEF ExecutorInd, ExecutorTypeOK
  <2>4. ~(answer' # None /\ answer'.asked = "verify")
    BY <2>1 DEF ExecutorInd
  <2>5. Accepted' <=> Accepted
    BY <2>1 DEF Accepted
  <2> QED
    BY <2>1, <2>2, <2>3, <2>4, <2>5 DEF ExecutorInd
<1>2. ASSUME NEW rehash \in BOOLEAN, AlterEvidence(rehash) PROVE ExecutorInd'
  <2>1. /\ evidence # None /\ changes < MaxAlter /\ changes' = changes + 1 /\ answer' = None
        /\ UNCHANGED <<heard, packet>>
    BY <1>2 DEF AlterEvidence
  <2>2. Shaped(evidence)
    BY <2>1 DEF ExecutorInd
  <2>3. Shaped(evidence')
    BY <1>2, <2>2, ImprovedIsShaped DEF AlterEvidence
  <2>4. changes' \in 0..MaxAlter
    BY <2>1, MaxAlterAssumption DEF ExecutorInd, ExecutorTypeOK
  <2>5. ExecutorTypeOK'
    BY <2>1, <2>4 DEF ExecutorInd, ExecutorTypeOK
  <2> QED
    BY <2>1, <2>3, <2>5 DEF ExecutorInd, Accepted
<1> QED
  BY <1>1, <1>2

LEMMA AnswerKept ==
  ASSUME ExecutorInd, (\E given \in BOOLEAN : Check(given)) \/ Judge \/ Submit
  PROVE  ExecutorInd'
<1>1. ASSUME NEW given \in BOOLEAN, Check(given) PROVE ExecutorInd'
  <2>1. /\ evidence # None /\ UNCHANGED <<heard, packet, evidence, changes>>
        /\ answer' = [asked |-> "verify", given |-> given,
                      accepted |-> verify_action_decision_packet_evidence(
                                       evidence, IF given THEN packet ELSE None)]
    BY <1>1 DEF Check
  <2>2. PICK b : b = verify_action_decision_packet_evidence(evidence, IF given THEN packet ELSE None)
    OBVIOUS
  <2>3. answer' = [asked |-> "verify", given |-> given, accepted |-> b]
    BY <2>1, <2>2
  <2>4. answer'.asked = "verify" /\ answer'.given = given /\ answer'.accepted = b
    BY <2>3
  <2>5. ExecutorTypeOK'
    BY <2>1, <2>4 DEF ExecutorInd, ExecutorTypeOK
  <2>6. ~Accepted'
    BY <2>4 DEF Accepted
  <2> QED
    BY <2>1, <2>2, <2>4, <2>5, <2>6 DEF ExecutorInd
<1>2. ASSUME NEW result, answer' = [asked |-> "gate", result |-> result], heard # None,
             UNCHANGED <<heard, packet, evidence, changes>>,
             result.accepted => evaluate_store_adjacent_candidate_gate(
                                    ingest_executor_output(heard.output, heard.leads)).accepted
      PROVE  ExecutorInd'
  <2>1. answer'.asked = "gate" /\ answer'.result = result
    BY <1>2
  <2>2. ExecutorTypeOK'
    BY <1>2, <2>1 DEF ExecutorInd, ExecutorTypeOK
  <2>3. Accepted' => result.accepted
    BY <2>1 DEF Accepted
  <2> QED
    BY <1>2, <2>1, <2>2, <2>3 DEF ExecutorInd
<1>3. CASE Judge
  <2> DEFINE result == evaluate_store_adjacent_candidate_gate(packet)
  <2>1. /\ answer' = [asked |-> "gate", result |-> result] /\ packet # None
        /\ UNCHANGED <<heard, packet, evidence, changes>>
    BY <1>3 DEF Judge
  <2>2. heard # None
    BY <2>1 DEF ExecutorInd, ExecutorTypeOK
  <2>3. ASSUME result.accepted
        PROVE  evaluate_store_adjacent_candidate_gate(
                   ingest_executor_output(heard.output, heard.leads)).accepted
    <3>1. packet.made
      BY <2>3, AcceptedIsMade
    <3>2. packet = ingest_executor_output(heard.output, heard.leads)
      BY <2>1, <3>1 DEF ExecutorInd
    <3> QED
      BY <2>3, <3>2
  <2> HIDE DEF result
  <2> QED
    BY <1>2, <2>1, <2>2, <2>3
<1>4. CASE Submit
  <2>1. PICK direct : answer' = [asked |-> "gate", result |-> _submission_rejection(direct)]
    BY <1>4 DEF Submit
  <2>2. ~_submission_rejection(direct).accepted
    BY DEF _submission_rejection, _gate_rejection
  <2>3. heard # None /\ UNCHANGED <<heard, packet, evidence, changes>>
    BY <1>4 DEF Submit
  <2> QED
    BY <1>2, <2>1, <2>2, <2>3
<1> QED
  BY <1>1, <1>3, <1>4

LEMMA ExecutorIndStep == ExecutorInd /\ [ExecutorNext]_executorVars => ExecutorInd'
<1> SUFFICES ASSUME ExecutorInd, [ExecutorNext]_executorVars PROVE ExecutorInd'
  OBVIOUS
<1>1. CASE UNCHANGED executorVars
  BY <1>1 DEF executorVars, ExecutorInd, ExecutorTypeOK, Accepted
<1>2. CASE ExecutorNext
  BY <1>2, IngestKept, RebuildKept, EvidenceKept, AnswerKept DEF ExecutorNext
<1> QED
  BY <1>1, <1>2

(* For any outputs and links, whatever is done to packets and evidence: the  *)
(* verifier accepts the adapter's evidence of the adapter's packets and no   *)
(* other, and the gate and the evidence agree.                               *)
THEOREM ExecutorInvariant == ExecutorSpec => []ExecutorInv
  BY ExecutorIndInit, ExecutorIndStep, ExecutorIndImplies, PTL DEF ExecutorSpec

(* An accepted candidate is an action of an allowed type, complete, within   *)
(* the project and within the capabilities that are lent, as it was heard.   *)
THEOREM AcceptedIsAlwaysEarned == ExecutorSpec => []AcceptedIsEarned
  BY ExecutorIndInit, ExecutorIndStep, ExecutorIndImplies, PTL DEF ExecutorSpec

(* Accepted outputs make no claim, and none is accepted for one.             *)
THEOREM SelfReportsNeverHelp == ExecutorSpec => []SelfReportNeverHelps
  BY ExecutorIndInit, ExecutorIndStep, ExecutorIndImplies, PTL DEF ExecutorSpec

-----------------------------------------------------------------------------
(* What is in force, and what the guard lets through. *)

(* Entering a block inside keeps what is in force outside of it. *)
LEMMA InForceOutside ==
  ASSUME NEW blocks, NEW inside, NEW n \in Nat, NEW c, NEW lent, NEW more,
         \A i \in 1..n : inside[i] = blocks[i],
         lent \subseteq more, InForce(blocks, n, c, lent)
  PROVE  InForce(inside, n, c, more)
BY DEF InForce

(* A write the guard lets through is the runtime's, or of another repository,*)
(* or to a file outside of .aeg.                                             *)
LEMMA UnblockedAuthor ==
  ASSUME MediationInv, NEW p \in Thread, NEW t \in Target,
         _guard_store_write_sink(t, sink[p], active[p]) # "BLOCKED"
  PROVE  /\ Author(p, t) \in Authors
         /\ Home[t] # None => Author(p, t) # "executor"
<1>1. Author(p, t) \in Authors
  BY DEF Author, Authors
<1>2. ASSUME Home[t] # None, Author(p, t) = "executor" PROVE FALSE
  <2>1. sink[p] # None => Home[t] = sink[p].repo
    BY <1>2 DEF Author
  <2>2. decide_b1_aeg_integrity_guard(_repo_root_for_sink_target(t, sink[p]), t)
    BY <1>2, <2>1 DEF decide_b1_aeg_integrity_guard, _repo_root_for_sink_target
  <2>3. _sink_context_is_trusted_runtime(sink[p], active[p])
    BY <2>2 DEF _guard_store_write_sink
  <2>4. active[p] # None /\ active[p].repo = Home[t]
    BY <2>1, <2>3 DEF _sink_context_is_trusted_runtime, _trusted_capability_is_runtime_owned
  <2>5. InForce(open[p], Len(open[p]), active[p], made)
    BY DEF MediationInv, ActiveIsInnermost
  <2>6. PICK i \in 1..Len(open[p]) : open[p][i].trusted /\ active[p].repo = open[p][i].repo
    BY <2>4, <2>5 DEF InForce
  <2>7. i \in DOMAIN open[p]
    BY <2>6 DEF MediationInv, TypeOK
  <2>8. Author(p, t) = "runtime"
    BY <2>1, <2>4, <2>6, <2>7 DEF Author
  <2> QED
    BY <1>2, <2>8
<1> QED
  BY <1>1, <1>2

(* An attempt in the name of an executor is only let through outside of .aeg.*)
LEMMA UnblockedAttempt ==
  ASSUME NEW t \in Target,
         _guard_store_write_sink(t, Context("executor_attributed", Ours, None), None) # "BLOCKED"
  PROVE  Home[t] # Ours
<1>1. Context("executor_attributed", Ours, None) # None
      => ~_sink_context_is_trusted_runtime(Context("executor_attributed", Ours, None), None)
  BY DEF _sink_context_is_trusted_runtime, Context
<1> QED
  BY <1>1, TargetAssumption
  DEF _guard_store_write_sink, decide_b1_aeg_integrity_guard, _repo_root_for_sink_target, Context,
      _sink_context_is_trusted_runtime

-----------------------------------------------------------------------------
(* Threads. *)

LEMMA InvInit == Init => MediationInv
<1> SUFFICES ASSUME Init PROVE MediationInv
  OBVIOUS
<1>1. TypeOK
  <2>1. IsFiniteSet({})
    BY FS_EmptySet
  <2> QED
    BY <2>1, AttemptsAssumption DEF Init, TypeOK
<1>2. ActiveIsInnermost
  BY DEF Init, ActiveIsInnermost, InForce
<1>3. NoExecutorContentInAeg
  BY TargetAssumption DEF Init, NoExecutorContentInAeg
<1>4. AttemptsAreRecorded
  BY TargetAssumption DEF Init, AttemptsAreRecorded
<1> QED
  BY <1>1, <1>2, <1>3, <1>4 DEF MediationInv

(* Whoever leaves the contexts alone leaves their order alone. *)
LEMMA ContextsAlone == MediationInv /\ UNCHANGED threads => ActiveIsInnermost'
BY DEF MediationInv, threads, ActiveIsInnermost, InForce

(* One more capability, one more block with it, and what was in force is put *)
(* aside.                                                                    *)
LEMMA TrustedEntered ==
  ASSUME MediationInv, NEW p \in Thread, NEW repo \in Repo, EnterTrusted(p, repo)
  PROVE  MediationInv'
<1> DEFINE capability == [owner |-> "runtime", repo |-> repo, id |-> Cardinality(made)]
           block == [trusted |-> TRUE, repo |-> repo, sink |-> sink[p], active |-> active[p]]
           n == Len(open[p])
<1>1. /\ open[p] \in Seq(Block) /\ n \in Nat
      /\ open'[p] = Append(open[p], block) /\ Len(open'[p]) = n + 1
      /\ open'[p][n + 1] = block
      /\ \A i \in 1..n : open'[p][i] = open[p][i]
  BY DEF EnterTrusted, MediationInv, TypeOK
<1>2. /\ active'[p] = capability /\ made' = made \cup {capability}
      /\ \A q \in Thread \ {p} : open'[q] = open[q] /\ active'[q] = active[q]
  BY DEF EnterTrusted, MediationInv, TypeOK, ActiveIsInnermost
<1>3. Cardinality(made) \in Nat
  BY FS_CardinalityType DEF MediationInv, TypeOK
<1>4. capability \in Capability
  BY <1>3 DEF Capability
<1>5. ActiveIsInnermost'
  <2>1. InForce(open[p], n, active[p], made) /\ n \in Nat
    BY <1>1 DEF MediationInv, ActiveIsInnermost
  <2>2. InForce(open'[p], n, active[p], made')
    BY <1>1, <1>2, <2>1 DEF InForce
  <2>3. InForce(open'[p], n + 1, capability, made')
    BY <1>1, <1>2 DEF InForce
  <2>4. ASSUME NEW i \in 1..n, open[p][i].trusted
        PROVE  InForce(open'[p], i - 1, open[p][i].active, made')
    <3>1. InForce(open[p], i - 1, open[p][i].active, made)
      BY <1>1, <2>4 DEF MediationInv, ActiveIsInnermost
    <3>2. \A j \in 1..(i - 1) : open'[p][j] = open[p][j]
      BY <1>1
    <3> QED
      BY <1>2, <3>1, <3>2 DEF InForce
  <2>5. ASSUME NEW q \in Thread \ {p}, NEW k, NEW c, InForce(open[q], k, c, made)
        PROVE  InForce(open'[q], k, c, made')
    BY <1>2, <2>5 DEF InForce
  <2>6. ASSUME NEW q \in Thread
        PROVE  /\ InForce(open'[q], Len(open'[q]), active'[q], made')
               /\ \A i \in DOMAIN open'[q] : open'[q][i].trusted =>
                    InForce(open'[q], i - 1, open'[q][i].active, made')
    <3>1. CASE q # p
      BY <1>2, <2>5, <3>1 DEF MediationInv, ActiveIsInnermost
    <3>2. CASE q = p
      <4>1. InForce(open'[p], Len(open'[p]), active'[p], made')
        BY <1>1, <1>2, <2>3
      <4>2. ASSUME NEW i \in DOMAIN open'[p], open'[p][i].trusted
            PROVE  InForce(open'[p], i - 1, open'[p][i].active, made')
        <5>1. i \in 1..(n + 1)
          BY <1>1
        <5>2. CASE i \in 1..n
          BY <1>1, <2>4, <4>2, <5>2
        <5>3. CASE i = n + 1
          BY <1>1, <2>2, <5>3
        <5> QED
          BY <1>1, <5>1, <5>2, <5>3
      <4> QED
        BY <3>2, <4>1, <4>2
    <3> QED
      BY <3>1, <3>2
  <2> QED
    BY <2>6 DEF ActiveIsInnermost
<1>6. TypeOK'
  <2>1. IsFiniteSet(made')
    BY <1>2, FS_AddElement DEF MediationInv, TypeOK
  <2>2. active[p] \in Capability \cup {None}
    BY DEF MediationInv, TypeOK, ActiveIsInnermost, InForce
  <2>3. block \in Block /\ Context("trusted_runtime", repo, capability) \in SinkContext
    BY <1>4, <2>2 DEF MediationInv, TypeOK, Block, SinkContext, Context
  <2>4. open' \in [Thread -> Seq(Block)]
    BY <2>3 DEF EnterTrusted, MediationInv, TypeOK
  <2> QED
    BY <1>2, <1>4, <2>1, <2>3, <2>4 DEF EnterTrusted, saver, MediationInv, TypeOK
<1>7. NoExecutorContentInAeg'
  BY DEF EnterTrusted, saver, MediationInv, NoExecutorContentInAeg
<1>8. AttemptsAreRecorded'
  BY DEF EnterTrusted, saver, MediationInv, AttemptsAreRecorded
<1> QED
  BY <1>5, <1>6, <1>7, <1>8 DEF MediationInv

(* A block in the name of an executor leaves what is in force alone. *)
LEMMA ExecutorEntered ==
  ASSUME MediationInv, NEW p \in Thread, NEW repo \in Repo, EnterExecutor(p, repo)
  PROVE  MediationInv'
<1> DEFINE block == [trusted |-> FALSE, repo |-> repo, sink |-> sink[p], active |-> active[p]]
           n == Len(open[p])
<1>1. /\ open[p] \in Seq(Block) /\ n \in Nat
      /\ open'[p] = Append(open[p], block) /\ Len(open'[p]) = n + 1
      /\ open'[p][n + 1] = block
      /\ \A i \in 1..n : open'[p][i] = open[p][i]
  BY DEF EnterExecutor, MediationInv, TypeOK
<1>2. /\ UNCHANGED <<active, made>>
      /\ \A q \in Thread \ {p} : open'[q] = open[q]
  BY DEF EnterExecutor, MediationInv, TypeOK
<1>3. ActiveIsInnermost'
  <2>1. InForce(open[p], n, active[p], made)
    BY DEF MediationInv, ActiveIsInnermost
  <2>2. InForce(open'[p], n + 1, active[p], made)
    BY <1>1, <2>1, SMTT(60) DEF InForce
  <2>3. ASSUME NEW i \in DOMAIN open'[p], open'[p][i].trusted
        PROVE  InForce(open'[p], i - 1, open'[p][i].active, made)
    <3>1. i \in 1..n /\ open'[p][i] = open[p][i]
      BY <1>1, <2>3
    <3>2. InForce(open[p], i - 1, open[p][i].active, made)
      BY <1>1, <2>3, <3>1 DEF MediationInv, ActiveIsInnermost
    <3> QED
      BY <1>1, <3>1, <3>2 DEF InForce
  <2>4. ASSUME NEW q \in Thread
        PROVE  /\ InForce(open'[q], Len(open'[q]), active'[q], made')
               /\ \A i \in DOMAIN open'[q] : open'[q][i].trusted =>
                    InForce(open'[q], i - 1, open'[q][i].active, made')
    <3>1. CASE q # p
      BY <1>2, <3>1 DEF MediationInv, ActiveIsInnermost
    <3>2. CASE q = p
      BY <1>1, <1>2, <2>2, <2>3, <3>2
    <3> QED
      BY <3>1, <3>2
  <2> QED
    BY <2>4 DEF ActiveIsInnermost
<1>4. TypeOK'
  <2>1. active[p] \in Capability \cup {None}
    BY DEF MediationInv, TypeOK
  <2>2. block \in Block /\ Context("executor_attributed", repo, None) \in SinkContext
    BY <2>1 DEF MediationInv, TypeOK, Block, SinkContext, Context
  <2>3. open' \in [Thread -> Seq(Block)] /\ sink' \in [Thread -> SinkContext \cup {None}]
    BY <2>2 DEF EnterExecutor, MediationInv, TypeOK
  <2> QED
    BY <2>3 DEF EnterExecutor, saver, MediationInv, TypeOK
<1>5. NoExecutorContentInAeg'
  BY DEF EnterExecutor, saver, MediationInv, NoExecutorContentInAeg
<1>6. AttemptsAreRecorded'
  BY DEF EnterExecutor, saver, MediationInv, AttemptsAreRecorded
<1> QED
  BY <1>3, <1>4, <1>5, <1>6 DEF MediationInv

(* Leaving a block, by its end or by an exception, restores what was in force*)
(* outside of it.                                                            *)
LEMMA BlockLeft ==
  ASSUME MediationInv, NEW p \in Thread, Exit(p)
  PROVE  MediationInv'
<1> DEFINE n == Len(open[p])
           last == open[p][n]
<1>1. /\ open[p] \in Seq(Block) /\ n \in Nat /\ n >= 1 /\ last \in Block
      /\ open'[p] \in Seq(Block) /\ Len(open'[p]) = n - 1
      /\ \A i \in 1..(n - 1) : open'[p][i] = open[p][i]
  <2>1. open[p] \in Seq(Block) /\ open[p] # <<>> /\ open'[p] = SubSeq(open[p], 1, n - 1)
    BY DEF Exit, MediationInv, TypeOK
  <2>2. n \in Nat /\ n >= 1 /\ last \in Block
    BY <2>1, EmptySeq, LenProperties, ElementOfSeq
  <2> HIDE DEF n
  <2>3. n = Len(open[p])
    BY DEF n
  <2>4. Len(open'[p]) = n - 1 /\ \A i \in 1..(n - 1) : open'[p][i] = open[p][i]
    BY <2>1, <2>2, <2>3, SubSeqProperties
  <2>5. open'[p] \in Seq(Block)
    BY <2>1, <2>2, <2>3, SubSeqProperties
  <2> QED
    BY <2>1, <2>2, <2>4, <2>5
<1>2. /\ made' = made /\ active'[p] = IF last.trusted THEN last.active ELSE active[p]
      /\ \A q \in Thread \ {p} : open'[q] = open[q] /\ active'[q] = active[q]
  BY DEF Exit, MediationInv, TypeOK
<1>n. n = Len(open[p]) /\ last = open[p][n]
  OBVIOUS
<1> HIDE DEF n, last
<1>3. InForce(open'[p], n - 1, active'[p], made)
  <2>1. CASE last.trusted
    <3>1. InForce(open[p], n - 1, last.active, made)
      <4>1. n \in DOMAIN open[p] /\ open[p][n].trusted /\ last.active = open[p][n].active
        BY <1>1, <1>n, <2>1
      <4>2. InForce(open[p], n - 1, open[p][n].active, made)
        BY <4>1 DEF MediationInv, ActiveIsInnermost
      <4> QED
        BY <4>1, <4>2
    <3> QED
      BY <1>1, <1>2, <2>1, <3>1, n - 1 \in Nat, InForceOutside
  <2>2. CASE ~last.trusted
    <3>1. InForce(open[p], n, active[p], made)
      BY <1>n DEF MediationInv, ActiveIsInnermost
    <3>2. InForce(open[p], n - 1, active[p], made)
      <4>1. n \in Nat /\ n >= 1 /\ ~open[p][n].trusted /\ 1..(n - 1) \subseteq 1..n
        BY <1>1, <1>n, <2>2
      <4>2. CASE active[p] \in made /\ \E i \in 1..n :
                   /\ open[p][i].trusted /\ active[p].repo = open[p][i].repo
                   /\ \A j \in (i + 1)..n : ~open[p][j].trusted
        <5>1. PICK i \in 1..n : /\ open[p][i].trusted /\ active[p].repo = open[p][i].repo
                                /\ \A j \in (i + 1)..n : ~open[p][j].trusted
          BY <4>2
        <5>2. i # n
          BY <4>1, <5>1
        <5>3. i \in 1..(n - 1) /\ (i + 1)..(n - 1) \subseteq (i + 1)..n
          BY <4>1, <5>2
        <5> QED
          BY <4>2, <5>1, <5>3 DEF InForce
      <4>3. CASE active[p] = None /\ \A i \in 1..n : ~open[p][i].trusted
        BY <4>1, <4>3 DEF InForce
      <4> QED
        BY <3>1, <4>2, <4>3 DEF InForce
    <3> QED
      BY <1>1, <1>2, <2>2, <3>2, n - 1 \in Nat, InForceOutside
  <2> QED
    BY <2>1, <2>2
<1>4. ActiveIsInnermost'
  <2>1. ASSUME NEW i \in DOMAIN open'[p], open'[p][i].trusted
        PROVE  InForce(open'[p], i - 1, open'[p][i].active, made)
    <3>1. i \in 1..(n - 1) /\ open'[p][i] = open[p][i] /\ i \in DOMAIN open[p]
      BY <1>1, <1>n, <2>1
    <3>2. InForce(open[p], i - 1, open[p][i].active, made)
      BY <1>1, <2>1, <3>1 DEF MediationInv, ActiveIsInnermost
    <3>3. i - 1 \in Nat /\ \A j \in 1..(i - 1) : j \in 1..(n - 1)
      BY <1>1, <3>1
    <3> QED
      BY <1>1, <3>1, <3>2, <3>3, InForceOutside
  <2>2. ASSUME NEW q \in Thread
        PROVE  /\ InForce(open'[q], Len(open'[q]), active'[q], made')
               /\ \A i \in DOMAIN open'[q] : open'[q][i].trusted =>
                    InForce(open'[q], i - 1, open'[q][i].active, made')
    <3>1. CASE q # p
      BY <1>2, <3>1 DEF MediationInv, ActiveIsInnermost
    <3>2. CASE q = p
      BY <1>1, <1>2, <1>3, <2>1, <3>2
    <3> QED
      BY <3>1, <3>2
  <2> QED
    BY <2>2 DEF ActiveIsInnermost
<1>5. TypeOK'
  <2>1. open' \in [Thread -> Seq(Block)]
    BY <1>1, <1>n DEF Exit, MediationInv, TypeOK
  <2>2. sink' \in [Thread -> SinkContext \cup {None}]
    BY <1>1, <1>n DEF Exit, MediationInv, TypeOK, Block
  <2>3. active' \in [Thread -> made' \cup {None}]
    BY <1>2, <1>3 DEF InForce, Exit, MediationInv, TypeOK
  <2> QED
    BY <2>1, <2>2, <2>3 DEF Exit, saver, MediationInv, TypeOK
<1>6. NoExecutorContentInAeg'
  BY DEF Exit, saver, MediationInv, NoExecutorContentInAeg
<1>7. AttemptsAreRecorded'
  BY DEF Exit, saver, MediationInv, AttemptsAreRecorded
<1> QED
  BY <1>4, <1>5, <1>6, <1>7 DEF MediationInv

(* A context made by hand changes what the guard sees, and no capability. *)
LEMMA ContextAdopted ==
  ASSUME MediationInv, NEW p \in Thread, Adopt(p)
  PROVE  MediationInv'
<1>1. sink' \in [Thread -> SinkContext \cup {None}]
  <2>1. PICK c \in made \cup {None, [owner |-> "executor", repo |-> Ours, id |-> 0]} :
          sink' = [sink EXCEPT ![p] = Context("trusted_runtime", Ours, c)]
    BY DEF Adopt
  <2>2. Context("trusted_runtime", Ours, c) \in SinkContext
    BY TargetAssumption DEF Context, SinkContext, Capability, MediationInv, TypeOK
  <2> QED
    BY <2>1, <2>2 DEF MediationInv, TypeOK
<1>2. TypeOK'
  BY <1>1 DEF Adopt, saver, MediationInv, TypeOK
<1>3. ActiveIsInnermost'
  BY DEF Adopt, MediationInv, ActiveIsInnermost
<1>4. NoExecutorContentInAeg'
  BY DEF Adopt, saver, MediationInv, NoExecutorContentInAeg
<1>5. AttemptsAreRecorded'
  BY DEF Adopt, saver, MediationInv, AttemptsAreRecorded
<1> QED
  BY <1>2, <1>3, <1>4, <1>5 DEF MediationInv

-----------------------------------------------------------------------------
(* Writes. *)

(* What a thread or an outside program writes is no executor's under .aeg,   *)
(* and the ledger only grows.                                                *)
LEMMA Written ==
  ASSUME MediationInv, UNCHANGED threads, UNCHANGED saver,
         \/ /\ UNCHANGED ledger
            /\ \E t \in Target, a \in Authors :
                 /\ content' = [content EXCEPT ![t] = a]
                 /\ Home[t] # None => a # "executor"
         \/ /\ UNCHANGED content
            /\ \E a \in Authors \ {"executor"} : ledger' = Append(ledger, a)
  PROVE  MediationInv'
<1>1. ActiveIsInnermost'
  BY ContextsAlone
<1>4. AttemptsAreRecorded'
  <2>1. \A t \in Target : content'[t] = "attempt" => content[t] = "attempt"
    BY DEF Authors, MediationInv, TypeOK
  <2> QED
    BY <2>1 DEF saver, MediationInv, AttemptsAreRecorded
<1>2. CASE /\ UNCHANGED ledger
           /\ \E t \in Target, a \in Authors :
                 /\ content' = [content EXCEPT ![t] = a]
                 /\ Home[t] # None => a # "executor"
  <2>1. TypeOK'
    BY <1>2 DEF threads, saver, MediationInv, TypeOK
  <2>2. NoExecutorContentInAeg'
    BY <1>2 DEF Authors, MediationInv, TypeOK, NoExecutorContentInAeg
  <2> QED
    BY <1>1, <1>4, <2>1, <2>2 DEF MediationInv
<1>3. CASE /\ UNCHANGED content
           /\ \E a \in Authors \ {"executor"} : ledger' = Append(ledger, a)
  <2>1. PICK a \in Authors \ {"executor"} : ledger' = Append(ledger, a)
    BY <1>3
  <2>2. /\ ledger' \in Seq(Authors) /\ Len(ledger') = Len(ledger) + 1
        /\ \A i \in DOMAIN ledger' : ledger'[i] = IF i <= Len(ledger) THEN ledger[i] ELSE a
    BY <2>1 DEF MediationInv, TypeOK
  <2>3. seen' # None => seen' \in [exists: BOOLEAN, lines: 0..Len(ledger')]
    <3>1. 0..Len(ledger) \subseteq 0..Len(ledger')
      BY <2>2 DEF MediationInv, TypeOK
    <3> QED
      BY <3>1 DEF saver, MediationInv, TypeOK
  <2>4. TypeOK'
    BY <1>3, <2>2, <2>3 DEF threads, saver, MediationInv, TypeOK
  <2>5. NoExecutorContentInAeg'
    BY <1>3, <2>1, <2>2 DEF MediationInv, TypeOK, NoExecutorContentInAeg
  <2> QED
    BY <1>1, <1>4, <2>4, <2>5 DEF MediationInv
<1> QED
  BY <1>2, <1>3

LEMMA ThreadWrites ==
  ASSUME MediationInv, NEW p \in Thread,
         \/ \E t \in Reach : _write_json(p, t)
         \/ _append_ledger_unmediated(p)
         \/ Outside
  PROVE  MediationInv'
<1>1. ASSUME NEW t \in Reach, _write_json(p, t) PROVE MediationInv'
  <2>1. t \in Target
    BY TargetAssumption
  <2>2. Author(p, t) \in Authors /\ (Home[t] # None => Author(p, t) # "executor")
    BY <1>1, <2>1, UnblockedAuthor DEF _write_json
  <2> QED
    BY <1>1, <2>1, <2>2, Written DEF _write_json
<1>2. ASSUME _append_ledger_unmediated(p) PROVE MediationInv'
  <2>1. Omitted \in Target /\ Home[Omitted] # None
    BY TargetAssumption
  <2>2. Author(p, Omitted) \in Authors \ {"executor"}
    BY <1>2, <2>1, UnblockedAuthor DEF _append_ledger_unmediated
  <2> QED
    BY <1>2, <2>2, Written DEF _append_ledger_unmediated
<1>3. ASSUME Outside PROVE MediationInv'
  <2>1. "other" \in Authors
    BY DEF Authors
  <2>2. \A t \in Reach : t \in Target
    BY TargetAssumption
  <2> QED
    BY <1>3, <2>1, <2>2, Written DEF Outside
<1> QED
  BY <1>1, <1>2, <1>3

-----------------------------------------------------------------------------
(* save_run. *)

(* One more event; the record is not built yet.                              *)
LEMMA OneMoreEvent ==
  ASSUME MediationInv, NEW e \in Event, e.appended >= 0, seen # None,
         pc \in {"collect", "omitted", "forged"},
         events' = Append(events, e), seen' = None,
         pc' \in {"collect", "omitted", "forged", "plan"},
         pc' = "collect" => pc = "collect" /\ Len(events) + 1 # Len(asked),
         UNCHANGED <<threads, ledger, asked, record, altered>>,
         \/ UNCHANGED content
         \/ /\ e.by = "executor_attributed" /\ e.result = "UNEXPECTED"
            /\ \E t \in Target : content' = [content EXCEPT ![t] = "attempt"] /\ Home[t] # Ours
  PROVE  MediationInv'
<1>1. /\ events \in Seq(Event) /\ events' \in Seq(Event) /\ Len(events') = Len(events) + 1
      /\ Len(events) \in Nat /\ Len(asked) \in Nat
      /\ \A i \in 1..Len(events) : events'[i] = events[i]
      /\ events'[Len(events) + 1] = e
      /\ DOMAIN events = 1..Len(events) /\ DOMAIN events' = 1..(Len(events) + 1)
  BY DEF MediationInv, TypeOK
<1>2. \A i \in DOMAIN events' : events'[i].appended >= 0
  BY <1>1 DEF MediationInv, TypeOK
<1>3. pc' = "collect" => IF asked' = <<>> THEN seen' = None ELSE Len(events') < Len(asked')
  BY <1>1 DEF MediationInv, TypeOK
<1>4. content' \in [Target -> Authors \cup {None, "old", "attempt"}]
  BY DEF MediationInv, TypeOK
<1>5. TypeOK'
  BY <1>1, <1>2, <1>3, <1>4 DEF threads, MediationInv, TypeOK
<1>6. NoExecutorContentInAeg'
  BY DEF MediationInv, TypeOK, NoExecutorContentInAeg
<1>7. AttemptsAreRecorded'
  <2>1. CASE UNCHANGED content
    BY <1>1, <2>1 DEF MediationInv, AttemptsAreRecorded
  <2>2. CASE e.by = "executor_attributed" /\ e.result = "UNEXPECTED"
    <3>1. Len(events) + 1 \in DOMAIN events'
      BY <1>1
    <3> QED
      BY <1>1, <2>2, <3>1 DEF AttemptsAreRecorded
  <2> QED
    BY <2>1, <2>2
<1> QED
  BY <1>5, <1>6, <1>7, ContextsAlone DEF MediationInv

(* The event of a blocked write is one, and counts no line twice. *)
LEMMA BlockedEventType ==
  ASSUME MediationInv, seen # None, NEW name \in Sinks, NEW t \in Target,
         NEW claims \in BOOLEAN, NEW declared \in BOOLEAN
  PROVE  BlockedEvent(name, t, claims, declared) \in Event
         /\ BlockedEvent(name, t, claims, declared).appended >= 0
<1>1. seen \in [exists: BOOLEAN, lines: 0..Len(ledger)] /\ Len(ledger) \in Nat
  BY DEF MediationInv, TypeOK
<1>2. Len(ledger) - seen.lines \in Int /\ Len(ledger) - seen.lines >= 0
  BY <1>1
<1> QED
  BY <1>1, <1>2 DEF BlockedEvent, Event

LEMMA LookKept ==
  ASSUME MediationInv, Look
  PROVE  MediationInv'
<1>1. seen' \in [exists: BOOLEAN, lines: 0..Len(ledger')]
  BY DEF Look, LookFor, MediationInv, TypeOK
<1>2. TypeOK'
  BY <1>1 DEF Look, threads, MediationInv, TypeOK
<1> QED
  BY <1>2, ContextsAlone
  DEF Look, MediationInv, NoExecutorContentInAeg, AttemptsAreRecorded

(* The three kinds of attempts. *)
LEMMA AttemptKept ==
  ASSUME MediationInv,
         \/ attempt_executor_attributed_aeg_write_text
         \/ attempt_executor_omitted_declaration_aeg_write
         \/ attempt_executor_attributed_ledger_append
  PROVE  MediationInv'
<1>0. Omitted \in Target
  BY TargetAssumption
<1>1. ASSUME attempt_executor_attributed_aeg_write_text PROVE MediationInv'
  <2>1. /\ pc = "collect" /\ seen # None /\ seen' = None
        /\ pc' = IF Len(events') = Len(asked) THEN "omitted" ELSE pc
        /\ UNCHANGED <<threads, ledger, asked, record, altered>>
    BY <1>1 DEF attempt_executor_attributed_aeg_write_text
  <2>2. Turn \in Attempt
    BY <2>1 DEF Turn, MediationInv, TypeOK
  <2>3. Turn.target \in Target /\ Turn.claims \in BOOLEAN
    BY <2>2 DEF Attempt
  <2>4. CASE /\ events' = Append(events, BlockedEvent("_write_json", Turn.target, Turn.claims, TRUE))
             /\ UNCHANGED content
    <3>1. BlockedEvent("_write_json", Turn.target, Turn.claims, TRUE) \in Event
          /\ BlockedEvent("_write_json", Turn.target, Turn.claims, TRUE).appended >= 0
      BY <2>1, <2>3, BlockedEventType DEF Sinks
    <3>2. Len(events') = Len(events) + 1
      BY <2>4 DEF MediationInv, TypeOK
    <3> QED
      BY <2>1, <2>4, <3>1, <3>2, OneMoreEvent
  <2>5. CASE /\ _guard_store_write_sink(Turn.target, Context("executor_attributed", Ours, None), None)
                  # "BLOCKED"
             /\ events' = Append(events, _unblocked_sink_event(Turn.claims, TRUE))
             /\ content' = [content EXCEPT ![Turn.target] = "attempt"]
    <3>1. _unblocked_sink_event(Turn.claims, TRUE) \in Event
      BY <2>3 DEF _unblocked_sink_event, Event, Sinks
    <3>2. /\ _unblocked_sink_event(Turn.claims, TRUE).appended >= 0
          /\ _unblocked_sink_event(Turn.claims, TRUE).by = "executor_attributed"
          /\ _unblocked_sink_event(Turn.claims, TRUE).result = "UNEXPECTED"
      BY DEF _unblocked_sink_event
    <3>3. Len(events') = Len(events) + 1
      BY <2>5 DEF MediationInv, TypeOK
    <3>4. Home[Turn.target] # Ours
      BY <2>3, <2>5, UnblockedAttempt
    <3> QED
      BY <2>1, <2>3, <2>5, <3>1, <3>2, <3>3, <3>4, OneMoreEvent
  <2> QED
    BY <1>1, <2>4, <2>5 DEF attempt_executor_attributed_aeg_write_text
<1>2. ASSUME attempt_executor_omitted_declaration_aeg_write PROVE MediationInv'
  <2>1. BlockedEvent("_write_json", Omitted, FALSE, FALSE) \in Event
        /\ BlockedEvent("_write_json", Omitted, FALSE, FALSE).appended >= 0
    BY <1>0, <1>2, BlockedEventType DEF attempt_executor_omitted_declaration_aeg_write, Sinks
  <2> QED
    BY <1>2, <2>1, OneMoreEvent DEF attempt_executor_omitted_declaration_aeg_write
<1>3. ASSUME attempt_executor_attributed_ledger_append PROVE MediationInv'
  <2> DEFINE b == BlockedEvent("_append_ledger_unmediated", Omitted, TRUE, TRUE)
             e == [b EXCEPT !.exists = TRUE, !.created = FALSE]
  <2>1. b \in Event /\ b.appended >= 0
    BY <1>0, <1>3, BlockedEventType DEF attempt_executor_attributed_ledger_append, Sinks
  <2>2. e \in Event /\ e.appended >= 0
    BY <2>1 DEF Event
  <2>3. events' = Append(events, e)
    BY <1>3 DEF attempt_executor_attributed_ledger_append
  <2> HIDE DEF e
  <2> QED
    BY <1>3, <2>2, <2>3, OneMoreEvent DEF attempt_executor_attributed_ledger_append
<1> QED
  BY <1>1, <1>2, <1>3

(* The four plans make the record complete. *)
LEMMA CollectKept ==
  ASSUME MediationInv, _collect_store_write_mediation_events
  PROVE  MediationInv'
<1> DEFINE json(t) == _plan_trusted_runtime_store_write("_write_json", t)
           line == _plan_trusted_runtime_store_write("_append_ledger_unmediated", RunJson)
           planned == <<json(RunJson), json(ManifestJson), json(EvidenceJson), line>>
<1>1. ASSUME NEW name \in Sinks, NEW t
      PROVE  /\ _plan_trusted_runtime_store_write(name, t) \in Event
             /\ _plan_trusted_runtime_store_write(name, t).appended >= 0
  <2>1. CASE name = "_write_json"
    BY <2>1 DEF _plan_trusted_runtime_store_write, Event, Sinks
  <2>2. CASE name = "_append_ledger_unmediated"
    BY <2>2 DEF _plan_trusted_runtime_store_write, Event, Sinks
  <2> QED
    BY <2>1, <2>2 DEF Sinks
<1>2. /\ json(RunJson) \in Event /\ json(ManifestJson) \in Event /\ json(EvidenceJson) \in Event
      /\ line \in Event
      /\ json(RunJson).appended >= 0 /\ json(ManifestJson).appended >= 0
      /\ json(EvidenceJson).appended >= 0 /\ line.appended >= 0
  BY <1>1 DEF Sinks
<1>3. events' = events \o planned /\ record' = build_store_write_mediation_metadata(events')
  BY DEF _collect_store_write_mediation_events
<1> HIDE DEF json, line
<1>4. planned \in Seq(Event) /\ \A i \in 1..4 : planned[i].appended >= 0
  BY <1>2
<1>5. Len(planned) = 4
  OBVIOUS
<1> HIDE DEF planned
<1>6. /\ events \in Seq(Event) /\ events' \in Seq(Event) /\ Len(events) \in Nat
      /\ DOMAIN events = 1..Len(events) /\ DOMAIN events' = 1..(Len(events) + 4)
      /\ \A i \in 1..(Len(events) + 4) :
           events'[i] = IF i <= Len(events) THEN events[i] ELSE planned[i - Len(events)]
  <2>1. events \in Seq(Event) /\ Len(events) \in Nat /\ DOMAIN events = 1..Len(events)
    BY DEF MediationInv, TypeOK
  <2>2. events' \in Seq(Event) /\ Len(events') = Len(events) + 4
    <3>1. /\ events \o planned \in Seq(Event)
          /\ Len(events \o planned) = Len(events) + Len(planned)
      BY <1>4, <2>1, ConcatProperties
    <3> QED
      BY <1>3, <1>5, <3>1
  <2>3. \A i \in 1..(Len(events) + 4) :
          events'[i] = IF i <= Len(events) THEN events[i] ELSE planned[i - Len(events)]
    <3>1. \A i \in 1..(Len(events) + Len(planned)) :
            (events \o planned)[i] = IF i <= Len(events) THEN events[i] ELSE planned[i - Len(events)]
      BY <1>4, <2>1, ConcatProperties
    <3> QED
      BY <1>3, <1>5, <3>1
  <2> QED
    BY <2>1, <2>2, <2>3, LenProperties
<1>7. \A i \in DOMAIN events' : events'[i].appended >= 0
  <2> TAKE i \in DOMAIN events'
  <2>1. CASE i <= Len(events)
    BY <1>6, <2>1 DEF MediationInv, TypeOK
  <2>2. CASE i > Len(events)
    <3>1. i - Len(events) \in 1..4
      BY <1>6, <2>2
    <3> QED
      BY <1>4, <1>6, <2>2, <3>1
  <2> QED
    BY <1>6, <2>1, <2>2
<1>8. TypeOK'
  BY <1>6, <1>7 DEF _collect_store_write_mediation_events, threads, MediationInv, TypeOK
<1>9. AttemptsAreRecorded'
  <2>1. record'.events = events'
    BY <1>3 DEF build_store_write_mediation_metadata, Summed
  <2>2. \A i \in DOMAIN events : i \in DOMAIN events' /\ events'[i] = events[i]
    BY <1>6
  <2> QED
    BY <2>1, <2>2
    DEF _collect_store_write_mediation_events, threads, MediationInv, AttemptsAreRecorded
<1> QED
  BY <1>8, <1>9, ContextsAlone
  DEF _collect_store_write_mediation_events, MediationInv, NoExecutorContentInAeg

(* Its own files, the ledger, and whatever goes wrong or is done later. *)
LEMMA SavingKept ==
  ASSUME MediationInv, WriteOwn \/ AppendOwn \/ Fail \/ Alter
  PROVE  MediationInv'
<1>1. CASE WriteOwn
  <2>0. /\ DOMAIN Writes = {"run", "manifest", "evidence"}
        /\ Writes["run"].target = RunJson /\ Writes["manifest"].target = ManifestJson
        /\ Writes["evidence"].target = EvidenceJson
        /\ \A l \in DOMAIN Writes : Writes[l].next \in {"manifest", "evidence", "ledger"}
    BY DEF Writes
  <2>1. PICK t \in {RunJson, ManifestJson, EvidenceJson} :
          content' = [content EXCEPT ![t] = "saver"]
    BY <1>1, <2>0 DEF WriteOwn
  <2>2. t \in Target
    BY TargetAssumption
  <2>3. /\ pc \in {"run", "manifest", "evidence"}
        /\ pc' \in {"manifest", "evidence", "ledger"}
    BY <1>1, <2>0 DEF WriteOwn
  <2>4. TypeOK'
    BY <1>1, <2>1, <2>3 DEF WriteOwn, threads, Authors, MediationInv, TypeOK
  <2>5. NoExecutorContentInAeg' /\ AttemptsAreRecorded'
    BY <1>1, <2>1, <2>2, <2>3
    DEF WriteOwn, MediationInv, TypeOK, NoExecutorContentInAeg, AttemptsAreRecorded
  <2> QED
    BY <1>1, <2>4, <2>5, ContextsAlone DEF WriteOwn, MediationInv
<1>2. CASE AppendOwn
  <2>1. /\ ledger' \in Seq(Authors) /\ Len(ledger') = Len(ledger) + 1 /\ Len(ledger) \in Nat
        /\ \A i \in DOMAIN ledger' : ledger'[i] = IF i <= Len(ledger) THEN ledger[i] ELSE "saver"
        /\ DOMAIN ledger = 1..Len(ledger) /\ DOMAIN ledger' = 1..(Len(ledger) + 1)
    BY <1>2 DEF AppendOwn, Authors, MediationInv, TypeOK
  <2>2. 0..Len(ledger) \subseteq 0..Len(ledger')
    BY <2>1
  <2>3. seen' # None => seen' \in [exists: BOOLEAN, lines: 0..Len(ledger')]
    BY <1>2, <2>2 DEF AppendOwn, MediationInv, TypeOK
  <2>4. TypeOK'
    BY <1>2, <2>1, <2>3 DEF AppendOwn, threads, MediationInv, TypeOK
  <2>5. NoExecutorContentInAeg' /\ AttemptsAreRecorded'
    BY <1>2, <2>1 DEF AppendOwn, MediationInv, NoExecutorContentInAeg, AttemptsAreRecorded
  <2> QED
    BY <1>2, <2>4, <2>5, ContextsAlone DEF AppendOwn, MediationInv
<1>3. CASE Fail
  BY <1>3, ContextsAlone
  DEF Fail, threads, MediationInv, TypeOK, NoExecutorContentInAeg, AttemptsAreRecorded
<1>4. CASE Alter
  BY <1>4, ContextsAlone
  DEF Alter, threads, MediationInv, TypeOK, NoExecutorContentInAeg, AttemptsAreRecorded
<1> QED
  BY <1>1, <1>2, <1>3, <1>4

LEMMA InvStep == MediationInv /\ [Next]_vars => MediationInv'
<1> SUFFICES ASSUME MediationInv, [Next]_vars PROVE MediationInv'
  OBVIOUS
<1>1. CASE UNCHANGED vars
  BY <1>1, ContextsAlone
  DEF vars, threads, saver, MediationInv, TypeOK, NoExecutorContentInAeg, AttemptsAreRecorded
<1>2. ASSUME NEW p \in Thread, NEW repo \in Repo, EnterTrusted(p, repo) \/ EnterExecutor(p, repo)
      PROVE  MediationInv'
  BY <1>2, TrustedEntered, ExecutorEntered
<1>3. ASSUME NEW p \in Thread, Exit(p) \/ Adopt(p) PROVE MediationInv'
  BY <1>3, BlockLeft, ContextAdopted
<1>4. ASSUME NEW p \in Thread,
             _append_ledger_unmediated(p) \/ \E t \in Reach : _write_json(p, t)
      PROVE  MediationInv'
  BY <1>4, ThreadWrites
<1>5. CASE Outside
  <2>1. "other" \in Authors /\ \A t \in Reach : t \in Target
    BY TargetAssumption DEF Authors
  <2> QED
    BY <1>5, <2>1, Written DEF Outside
<1>6. CASE Look
  BY <1>6, LookKept
<1>7. CASE \/ attempt_executor_attributed_aeg_write_text
           \/ attempt_executor_omitted_declaration_aeg_write
           \/ attempt_executor_attributed_ledger_append
  BY <1>7, AttemptKept
<1>8. CASE _collect_store_write_mediation_events
  BY <1>8, CollectKept
<1>9. CASE WriteOwn \/ AppendOwn \/ Fail \/ Alter
  BY <1>9, SavingKept
<1> QED
  BY <1>1, <1>2, <1>3, <1>4, <1>5, <1>6, <1>7, <1>8, <1>9 DEF Next

-----------------------------------------------------------------------------
(* The theorems. *)

(* Whatever threads enter, leave, abandon and make up around the guard, what *)
(* is in force is the capability of the innermost trusted block, and nothing *)
(* of an executor is in a file under .aeg or in the ledger.                  *)
THEOREM MediationInvariant == Spec => []MediationInv
  BY InvInit, InvStep, PTL DEF Spec

(* A run during which an attempt went through is refused by the verifier as  *)
(* long as nobody changed its record.                                        *)
THEOREM AcceptedRunAlwaysWroteNothing == Spec => []AcceptedRunWroteNothing
<1>1. MediationInv => AcceptedRunWroteNothing
  <2> SUFFICES ASSUME MediationInv, Verified, ~altered,
                      NEW t \in Target, content[t] = "attempt"
               PROVE  FALSE
    BY DEF AcceptedRunWroteNothing
  <2>1. record.events = events
    BY DEF Verified, MediationInv, AttemptsAreRecorded
  <2>2. PICK i \in DOMAIN events : events[i].by = "executor_attributed"
                                   /\ events[i].result = "UNEXPECTED"
    BY DEF MediationInv, AttemptsAreRecorded
  <2>3. _event_accepted(events[i])
    BY <2>1 DEF Verified, verify_store_write_mediation_metadata
  <2> QED
    BY <2>2, <2>3 DEF _event_accepted
<1> QED
  BY <1>1, MediationInvariant, PTL


-----------------------------------------------------------------------------
(* The record of a run, altered or not. *)

SealRejected == {f \in Fixture : _fixture_rejected(_build_rejection_fixture_records, f)}

(* What nobody changes of a seal.                                            *)
SealShaped(s) ==
    /\ s = [current |-> s.current, rejected |-> s.rejected, metadata_only |-> s.metadata_only,
            claimed |-> s.claimed, bypass |-> s.bypass, created |-> s.created,
            appended |-> s.appended, write |-> s.write, ledger |-> s.ledger,
            fallback |-> s.fallback, fixtures |-> s.fixtures]
    /\ s.current = TRUE /\ s.metadata_only = accepted_gate.accepted
    /\ s.rejected \in {SealRejected, {}} /\ s.fixtures \in {_build_rejection_fixture_records, {}}

(* ... and of a record.                                                      *)
RecordShaped(m) ==
    /\ m = [current |-> m.current, claimed |-> m.claimed, guarded |-> m.guarded,
            blocked |-> m.blocked, direct |-> m.direct, created |-> m.created,
            appended |-> m.appended, allowed |-> m.allowed, omitted |-> m.omitted,
            targets |-> m.targets, attempts |-> m.attempts, result |-> m.result,
            unwired |-> m.unwired, gap |-> m.gap, seal |-> m.seal, events |-> m.events,
            digest |-> m.digest]
    /\ m.current \in BOOLEAN /\ m.blocked \in BOOLEAN
    /\ m.direct \in [Sinks -> {"BLOCKED", "NO_EXECUTOR_ATTEMPT"}] /\ m.allowed \in [Sinks -> BOOLEAN]
    /\ SealShaped(m.seal)

LEMMA BuiltSeal ==
  ASSUME NEW bypass, NEW created, NEW appended, NEW write, NEW ledgers, NEW fallback, NEW s,
         s = build_store_adjacent_runtime_seal_metadata(bypass, created, appended, write, ledgers,
                                                        fallback)
  PROVE  /\ SealShaped(s) /\ s.claimed = {} /\ s.bypass = bypass /\ s.created = created
         /\ s.appended = appended /\ s.write = write /\ s.ledger = ledgers
         /\ s.fallback = (IF fallback THEN "RECORDED" ELSE "NONE")
         /\ s.rejected = SealRejected /\ s.fixtures = _build_rejection_fixture_records
<1>1. PICK rejected : rejected = SealRejected
  OBVIOUS
<1>2. PICK fixtures : fixtures = _build_rejection_fixture_records
  OBVIOUS
<1>3. PICK metadata_only : metadata_only = accepted_gate.accepted
  OBVIOUS
<1>4. PICK mode : mode = IF fallback THEN "RECORDED" ELSE "NONE"
  OBVIOUS
<1>5. s = [current |-> TRUE, rejected |-> rejected, metadata_only |-> metadata_only, claimed |-> {},
           bypass |-> bypass, created |-> created, appended |-> appended, write |-> write,
           ledger |-> ledgers, fallback |-> mode, fixtures |-> fixtures]
  BY <1>1, <1>2, <1>3, <1>4 DEF build_store_adjacent_runtime_seal_metadata, SealRejected
<1>6. /\ s.current = TRUE /\ s.rejected = rejected /\ s.metadata_only = metadata_only
      /\ s.claimed = {} /\ s.bypass = bypass /\ s.created = created /\ s.appended = appended
      /\ s.write = write /\ s.ledger = ledgers /\ s.fallback = mode /\ s.fixtures = fixtures
  BY <1>5
<1>7. SealShaped(s)
  BY <1>1, <1>2, <1>3, <1>5, <1>6 DEF SealShaped
<1> QED
  BY <1>1, <1>2, <1>4, <1>6, <1>7

(* What a record says of the events es, field by field.                      *)
SumsUp(m, es) ==
    /\ m.current = TRUE /\ m.claimed = {} /\ m.guarded = {es[i].sink : i \in DOMAIN es}
    /\ m.blocked = AnyBlocked(es) /\ m.direct = [n \in Sinks |-> Direct(es, n)]
    /\ m.created = Created(es) /\ m.appended = Appended(es)
    /\ m.allowed = [n \in Sinks |-> Trusted(es, n) # {}]
    /\ m.omitted = OmittedRejected(es) /\ m.targets = Cardinality(Blocked(es, "_write_json"))
    /\ m.attempts = Len(es) /\ m.result = _summary_result_and_reason(es)
    /\ m.unwired = AnyUnwired(es)
    /\ m.gap = (IF AnyBlocked(es) THEN "BLOCKED" ELSE "NO_ATTEMPT")
    /\ m.seal = build_store_adjacent_runtime_seal_metadata(
                     Blocked(es, "_write_json") # {}, Created(es), Appended(es),
                     Trusted(es, "_write_json") # {},
                     Trusted(es, "_append_ledger_unmediated") # {}, AnyUnwired(es))
    /\ m.events = es

LEMMA SummedFields ==
  ASSUME NEW es, NEW m, m = Summed(es)
  PROVE  RecordShaped(m) /\ SumsUp(m, es) /\ m.digest = None
<1>1. PICK guarded : guarded = {es[i].sink : i \in DOMAIN es}
  OBVIOUS
<1>2. PICK blocked \in BOOLEAN : blocked = AnyBlocked(es)
  BY DEF AnyBlocked
<1>3. PICK direct \in [Sinks -> {"BLOCKED", "NO_EXECUTOR_ATTEMPT"}] :
        direct = [n \in Sinks |-> Direct(es, n)]
  BY DEF Direct
<1>4. PICK allowed \in [Sinks -> BOOLEAN] : allowed = [n \in Sinks |-> Trusted(es, n) # {}]
  OBVIOUS
<1>5. PICK created, appended, omitted, targets, attempts, result, unwired, gap :
        /\ created = Created(es) /\ appended = Appended(es) /\ omitted = OmittedRejected(es)
        /\ targets = Cardinality(Blocked(es, "_write_json")) /\ attempts = Len(es)
        /\ result = _summary_result_and_reason(es) /\ unwired = AnyUnwired(es)
        /\ gap = IF AnyBlocked(es) THEN "BLOCKED" ELSE "NO_ATTEMPT"
  OBVIOUS
<1>6. PICK s : s = build_store_adjacent_runtime_seal_metadata(
                       Blocked(es, "_write_json") # {}, Created(es), Appended(es),
                       Trusted(es, "_write_json") # {},
                       Trusted(es, "_append_ledger_unmediated") # {}, AnyUnwired(es))
  OBVIOUS
<1>7. SealShaped(s)
  BY <1>6, BuiltSeal
<1>8. m = [current |-> TRUE, claimed |-> {}, guarded |-> guarded, blocked |-> blocked,
           direct |-> direct, created |-> created, appended |-> appended, allowed |-> allowed,
           omitted |-> omitted, targets |-> targets, attempts |-> attempts, result |-> result,
           unwired |-> unwired, gap |-> gap, seal |-> s, events |-> es, digest |-> None]
  BY <1>1, <1>2, <1>3, <1>4, <1>5, <1>6 DEF Summed
<1>9. /\ m.current = TRUE /\ m.claimed = {} /\ m.guarded = guarded /\ m.blocked = blocked
      /\ m.direct = direct /\ m.created = created /\ m.appended = appended /\ m.allowed = allowed
      /\ m.omitted = omitted /\ m.targets = targets /\ m.attempts = attempts /\ m.result = result
      /\ m.unwired = unwired /\ m.gap = gap /\ m.seal = s /\ m.events = es /\ m.digest = None
  BY <1>8
<1>10. RecordShaped(m)
  BY <1>7, <1>8, <1>9 DEF RecordShaped
<1> QED
  BY <1>1, <1>2, <1>3, <1>4, <1>5, <1>6, <1>9, <1>10 DEF SumsUp

LEMMA FieldChanged ==
  ASSUME NEW m, RecordShaped(m), NEW x, NEW n,
         n \in {[m EXCEPT !.claimed = x], [m EXCEPT !.guarded = x], [m EXCEPT !.created = x],
                [m EXCEPT !.appended = x], [m EXCEPT !.omitted = x], [m EXCEPT !.targets = x],
                [m EXCEPT !.attempts = x], [m EXCEPT !.result = x], [m EXCEPT !.unwired = x],
                [m EXCEPT !.gap = x], [m EXCEPT !.events = x], [m EXCEPT !.digest = x]}
  PROVE  RecordShaped(n) /\ n.seal = m.seal
<1>1. PICK current, claimed, guarded, blocked, direct, created, appended, allowed, omitted, targets,
           attempts, result, unwired, gap, s, es, digest :
        /\ m = [current |-> current, claimed |-> claimed, guarded |-> guarded, blocked |-> blocked,
                direct |-> direct, created |-> created, appended |-> appended, allowed |-> allowed,
                omitted |-> omitted, targets |-> targets, attempts |-> attempts, result |-> result,
                unwired |-> unwired, gap |-> gap, seal |-> s, events |-> es, digest |-> digest]
        /\ current \in BOOLEAN /\ blocked \in BOOLEAN
        /\ direct \in [Sinks -> {"BLOCKED", "NO_EXECUTOR_ATTEMPT"}] /\ allowed \in [Sinks -> BOOLEAN]
        /\ SealShaped(s) /\ s = m.seal
  BY DEF RecordShaped
<1>2. /\ n.current = current /\ n.blocked = blocked /\ n.direct = direct /\ n.allowed = allowed
      /\ n.seal = s
  BY <1>1
<1>3. n = [current |-> n.current, claimed |-> n.claimed, guarded |-> n.guarded,
           blocked |-> n.blocked, direct |-> n.direct, created |-> n.created,
           appended |-> n.appended, allowed |-> n.allowed, omitted |-> n.omitted,
           targets |-> n.targets, attempts |-> n.attempts, result |-> n.result,
           unwired |-> n.unwired, gap |-> n.gap, seal |-> n.seal, events |-> n.events,
           digest |-> n.digest]
  BY <1>1
<1> QED
  BY <1>1, <1>2, <1>3 DEF RecordShaped

LEMMA KindKept ==
  ASSUME NEW m, RecordShaped(m), NEW b \in BOOLEAN,
         NEW d \in [Sinks -> {"BLOCKED", "NO_EXECUTOR_ATTEMPT"}], NEW a \in [Sinks -> BOOLEAN],
         NEW s, SealShaped(s), NEW n,
         n \in {[m EXCEPT !.current = b], [m EXCEPT !.blocked = b], [m EXCEPT !.direct = d],
                [m EXCEPT !.allowed = a], [m EXCEPT !.seal = s]}
  PROVE  RecordShaped(n)
<1>1. PICK current, claimed, guarded, blocked, direct, created, appended, allowed, omitted, targets,
           attempts, result, unwired, gap, seal, es, digest :
        /\ m = [current |-> current, claimed |-> claimed, guarded |-> guarded, blocked |-> blocked,
                direct |-> direct, created |-> created, appended |-> appended, allowed |-> allowed,
                omitted |-> omitted, targets |-> targets, attempts |-> attempts, result |-> result,
                unwired |-> unwired, gap |-> gap, seal |-> seal, events |-> es, digest |-> digest]
        /\ current \in BOOLEAN /\ blocked \in BOOLEAN
        /\ direct \in [Sinks -> {"BLOCKED", "NO_EXECUTOR_ATTEMPT"}] /\ allowed \in [Sinks -> BOOLEAN]
        /\ SealShaped(seal)
  BY DEF RecordShaped
<1>2. /\ n.current \in BOOLEAN /\ n.blocked \in BOOLEAN
      /\ n.direct \in [Sinks -> {"BLOCKED", "NO_EXECUTOR_ATTEMPT"}]
      /\ n.allowed \in [Sinks -> BOOLEAN] /\ SealShaped(n.seal)
  BY <1>1
<1>3. n = [current |-> n.current, claimed |-> n.claimed, guarded |-> n.guarded,
           blocked |-> n.blocked, direct |-> n.direct, created |-> n.created,
           appended |-> n.appended, allowed |-> n.allowed, omitted |-> n.omitted,
           targets |-> n.targets, attempts |-> n.attempts, result |-> n.result,
           unwired |-> n.unwired, gap |-> n.gap, seal |-> n.seal, events |-> n.events,
           digest |-> n.digest]
  BY <1>1
<1> QED
  BY <1>2, <1>3 DEF RecordShaped

LEMMA SealChanged ==
  ASSUME NEW s, SealShaped(s), NEW x, NEW r \in {SealRejected, {}},
         NEW f \in {_build_rejection_fixture_records, {}}, NEW n,
         \/ n \in {[s EXCEPT !.created = x], [s EXCEPT !.appended = x], [s EXCEPT !.fallback = x],
                   [s EXCEPT !.bypass = x], [s EXCEPT !.write = x]}
         \/ n \in {[s EXCEPT !.rejected = r], [s EXCEPT !.fixtures = f]}
  PROVE  SealShaped(n)
<1>1. PICK metadata_only : metadata_only = accepted_gate.accepted
  OBVIOUS
<1>2. PICK rejected \in {SealRejected, {}}, fixtures \in {_build_rejection_fixture_records, {}} :
        rejected = s.rejected /\ fixtures = s.fixtures
  BY DEF SealShaped
<1>3. PICK claimed, bypass, created, appended, write, ledgers, fallback :
        s = [current |-> TRUE, rejected |-> rejected, metadata_only |-> metadata_only,
             claimed |-> claimed, bypass |-> bypass, created |-> created, appended |-> appended,
             write |-> write, ledger |-> ledgers, fallback |-> fallback, fixtures |-> fixtures]
  BY <1>1, <1>2 DEF SealShaped
<1>4. /\ n.current = TRUE /\ n.metadata_only = metadata_only /\ n.rejected \in {rejected, r}
      /\ n.fixtures \in {fixtures, f}
  BY <1>3
<1>5. n = [current |-> n.current, rejected |-> n.rejected, metadata_only |-> n.metadata_only,
           claimed |-> n.claimed, bypass |-> n.bypass, created |-> n.created,
           appended |-> n.appended, write |-> n.write, ledger |-> n.ledger,
           fallback |-> n.fallback, fixtures |-> n.fixtures]
  BY <1>3
<1> QED
  BY <1>1, <1>2, <1>4, <1>5 DEF SealShaped

(* Whoever changes a record keeps its shape.                                 *)
LEMMA AlteredIsShaped ==
  ASSUME NEW m, RecordShaped(m), NEW n \in Changed(m)
  PROVE  /\ RecordShaped(n)
         /\ RecordShaped([n EXCEPT !.digest = expected_store_write_mediation_metadata_hash(n)])
<1>1. \A k, x :
        RecordShaped(k) =>
           /\ RecordShaped([k EXCEPT !.claimed = x]) /\ RecordShaped([k EXCEPT !.guarded = x])
           /\ RecordShaped([k EXCEPT !.created = x]) /\ RecordShaped([k EXCEPT !.appended = x])
           /\ RecordShaped([k EXCEPT !.omitted = x]) /\ RecordShaped([k EXCEPT !.targets = x])
           /\ RecordShaped([k EXCEPT !.attempts = x]) /\ RecordShaped([k EXCEPT !.result = x])
           /\ RecordShaped([k EXCEPT !.unwired = x]) /\ RecordShaped([k EXCEPT !.gap = x])
           /\ RecordShaped([k EXCEPT !.events = x]) /\ RecordShaped([k EXCEPT !.digest = x])
  <2>1. ASSUME NEW k, NEW x, RecordShaped(k)
        PROVE  /\ RecordShaped([k EXCEPT !.claimed = x])
               /\ RecordShaped([k EXCEPT !.guarded = x])
               /\ RecordShaped([k EXCEPT !.created = x])
    BY <2>1, FieldChanged, ZenonT(30)
  <2>2. ASSUME NEW k, NEW x, RecordShaped(k)
        PROVE  /\ RecordShaped([k EXCEPT !.appended = x])
               /\ RecordShaped([k EXCEPT !.omitted = x])
               /\ RecordShaped([k EXCEPT !.targets = x])
    BY <2>2, FieldChanged, ZenonT(30)
  <2>3. ASSUME NEW k, NEW x, RecordShaped(k)
        PROVE  /\ RecordShaped([k EXCEPT !.attempts = x])
               /\ RecordShaped([k EXCEPT !.result = x])
               /\ RecordShaped([k EXCEPT !.unwired = x])
    BY <2>3, FieldChanged, ZenonT(30)
  <2>4. ASSUME NEW k, NEW x, RecordShaped(k)
        PROVE  /\ RecordShaped([k EXCEPT !.gap = x])
               /\ RecordShaped([k EXCEPT !.events = x])
               /\ RecordShaped([k EXCEPT !.digest = x])
    BY <2>4, FieldChanged, ZenonT(30)
  <2> QED
    BY <2>1, <2>2, <2>3, <2>4, ZenonT(30)
<1>2. PICK s : s = m.seal
  OBVIOUS
<1>3. SealShaped(s)
  BY <1>2 DEF RecordShaped
<1>4. \A x :
        /\ SealShaped([s EXCEPT !.created = x]) /\ SealShaped([s EXCEPT !.appended = x])
        /\ SealShaped([s EXCEPT !.fallback = x]) /\ SealShaped([s EXCEPT !.bypass = x])
        /\ SealShaped([s EXCEPT !.write = x])
  BY <1>3, SealChanged, Zenon
<1>5. SealShaped([s EXCEPT !.rejected = {}]) /\ SealShaped([s EXCEPT !.fixtures = {}])
  BY <1>3, SealChanged, Zenon
<1>6. [t \in Sinks |-> TRUE] \in [Sinks -> BOOLEAN]
      /\ [t \in Sinks |-> "BLOCKED"] \in [Sinks -> {"BLOCKED", "NO_EXECUTOR_ATTEMPT"}]
      /\ TRUE \in BOOLEAN
  OBVIOUS
<1>7. /\ \A b \in BOOLEAN : RecordShaped([m EXCEPT !.current = b]) /\ RecordShaped([m EXCEPT !.blocked = b])
      /\ \A d \in [Sinks -> {"BLOCKED", "NO_EXECUTOR_ATTEMPT"}] : RecordShaped([m EXCEPT !.direct = d])
      /\ \A a \in [Sinks -> BOOLEAN] : RecordShaped([m EXCEPT !.allowed = a])
      /\ \A k, s2 : RecordShaped(k) /\ SealShaped(s2) => RecordShaped([k EXCEPT !.seal = s2])
  BY <1>3, <1>6, KindKept, Zenon
<1>8. /\ m.current \in BOOLEAN /\ m.blocked \in BOOLEAN
      /\ m.direct \in [Sinks -> {"BLOCKED", "NO_EXECUTOR_ATTEMPT"}]
      /\ m.allowed \in [Sinks -> BOOLEAN]
  BY DEF RecordShaped
<1>9. RecordShaped(n)
  <2>1. /\ RecordShaped([m EXCEPT !.claimed = {"tamper_proof_claimed"}])
        /\ RecordShaped([m EXCEPT !.guarded = {"_write_json"}])
        /\ RecordShaped([m EXCEPT !.created = 1 - m.created])
    BY <1>1, Zenon
  <2>2. /\ RecordShaped([m EXCEPT !.omitted = ~m.omitted])
        /\ RecordShaped([m EXCEPT !.targets = m.targets + 1])
        /\ RecordShaped([m EXCEPT !.attempts = m.attempts + 1])
        /\ RecordShaped([m EXCEPT !.unwired = ~m.unwired])
        /\ RecordShaped([m EXCEPT !.result = "BLOCKED"])
        /\ RecordShaped([m EXCEPT !.gap = "BLOCKED"])
    BY <1>1, Zenon
  <2>3. /\ RecordShaped([m EXCEPT !.events = Tail(m.events)])
        /\ RecordShaped([m EXCEPT !.events = SubSeq(m.events, 1, Len(m.events) - 1)])
        /\ RecordShaped([m EXCEPT !.events = <<>>])
    BY <1>1, Zenon
  <2>4. \A x : /\ RecordShaped([m EXCEPT !.created = x, !.seal.created = x])
              /\ RecordShaped([m EXCEPT !.appended = x, !.seal.appended = x])
    <3> TAKE x
    <3>1. /\ [m EXCEPT !.created = x, !.seal.created = x]
               = [[m EXCEPT !.created = x] EXCEPT !.seal = [s EXCEPT !.created = x]]
          /\ [m EXCEPT !.appended = x, !.seal.appended = x]
               = [[m EXCEPT !.appended = x] EXCEPT !.seal = [s EXCEPT !.appended = x]]
      BY <1>2 DEF RecordShaped
    <3>2. /\ RecordShaped([[m EXCEPT !.created = x] EXCEPT !.seal = [s EXCEPT !.created = x]])
          /\ RecordShaped([[m EXCEPT !.appended = x] EXCEPT !.seal = [s EXCEPT !.appended = x]])
      BY <1>1, <1>4, <1>7, Zenon
    <3> QED
      BY <3>1, <3>2, Zenon
  <2>5. ASSUME n = [m EXCEPT !.unwired = TRUE, !.seal.fallback = "RECORDED"]
        PROVE  RecordShaped(n)
    <3>1. n = [[m EXCEPT !.unwired = TRUE] EXCEPT !.seal = [s EXCEPT !.fallback = "RECORDED"]]
      BY <1>2, <2>5 DEF RecordShaped
    <3> QED
      BY <1>1, <1>4, <1>7, <3>1, Zenon
  <2>6. ASSUME n \in {[m EXCEPT !.seal.bypass = ~@], [m EXCEPT !.seal.write = FALSE],
                      [m EXCEPT !.seal.rejected = {}], [m EXCEPT !.seal.fixtures = {}]}
        PROVE  RecordShaped(n)
    <3>1. n \in {[m EXCEPT !.seal = [s EXCEPT !.bypass = ~@]],
                 [m EXCEPT !.seal = [s EXCEPT !.write = FALSE]],
                 [m EXCEPT !.seal = [s EXCEPT !.rejected = {}]],
                 [m EXCEPT !.seal = [s EXCEPT !.fixtures = {}]]}
      BY <1>2, <2>6
    <3>2. /\ RecordShaped([m EXCEPT !.seal = [s EXCEPT !.bypass = ~s.bypass]])
          /\ RecordShaped([m EXCEPT !.seal = [s EXCEPT !.write = FALSE]])
          /\ RecordShaped([m EXCEPT !.seal = [s EXCEPT !.rejected = {}]])
          /\ RecordShaped([m EXCEPT !.seal = [s EXCEPT !.fixtures = {}]])
      BY <1>4, <1>5, <1>7, Zenon
    <3> QED
      BY <3>1, <3>2, Zenon
  <2>7. ASSUME n \in {[m EXCEPT !.current = FALSE], [m EXCEPT !.blocked = ~@]}
        PROVE  RecordShaped(n)
    BY <1>7, <1>8, <2>7
  <2>8. ASSUME NEW t \in Sinks, NEW d \in {"BLOCKED", "NO_EXECUTOR_ATTEMPT"},
               n = [m EXCEPT !.direct[t] = d]
        PROVE  RecordShaped(n)
    <3>1. n = [m EXCEPT !.direct = [m.direct EXCEPT ![t] = d]]
      BY <2>8
    <3>2. [m.direct EXCEPT ![t] = d] \in [Sinks -> {"BLOCKED", "NO_EXECUTOR_ATTEMPT"}]
      BY <1>8
    <3> QED
      BY <1>7, <3>1, <3>2
  <2>9. ASSUME NEW t \in Sinks, n = [m EXCEPT !.allowed[t] = FALSE]
        PROVE  RecordShaped(n)
    <3>1. n = [m EXCEPT !.allowed = [m.allowed EXCEPT ![t] = FALSE]]
      BY <2>9
    <3>2. [m.allowed EXCEPT ![t] = FALSE] \in [Sinks -> BOOLEAN]
      BY <1>8
    <3> QED
      BY <1>7, <3>1, <3>2
  <2>10. \/ n \in {[m EXCEPT !.current = FALSE], [m EXCEPT !.claimed = {"tamper_proof_claimed"}],
                   [m EXCEPT !.guarded = {"_write_json"}], [m EXCEPT !.blocked = ~@],
                   [m EXCEPT !.created = 1 - @]}
         \/ n \in {[m EXCEPT !.created = 1, !.seal.created = 1], [m EXCEPT !.appended = 1, !.seal.appended = 1],
                   [m EXCEPT !.created = 0, !.seal.created = 0], [m EXCEPT !.appended = 0, !.seal.appended = 0]}
         \/ n \in {[m EXCEPT !.omitted = ~@], [m EXCEPT !.targets = @ + 1], [m EXCEPT !.attempts = @ + 1],
                   [m EXCEPT !.unwired = ~@], [m EXCEPT !.unwired = TRUE, !.seal.fallback = "RECORDED"]}
         \/ n \in {[m EXCEPT !.result = "BLOCKED"], [m EXCEPT !.gap = "BLOCKED"], [m EXCEPT !.seal.bypass = ~@],
                   [m EXCEPT !.seal.write = FALSE], [m EXCEPT !.seal.rejected = {}], [m EXCEPT !.seal.fixtures = {}]}
         \/ n \in {[m EXCEPT !.events = Tail(@)], [m EXCEPT !.events = SubSeq(@, 1, Len(@) - 1)],
                   [m EXCEPT !.events = <<>>]}
         \/ \E t \in Sinks, d \in {"BLOCKED", "NO_EXECUTOR_ATTEMPT"} : n = [m EXCEPT !.direct[t] = d]
         \/ \E t \in Sinks : n = [m EXCEPT !.allowed[t] = FALSE]
    BY DEF Changed
  <2>11. CASE \/ n \in {[m EXCEPT !.current = FALSE], [m EXCEPT !.claimed = {"tamper_proof_claimed"}],
                   [m EXCEPT !.guarded = {"_write_json"}], [m EXCEPT !.blocked = ~@],
                   [m EXCEPT !.created = 1 - @]}
    BY <2>1, <2>7, <2>11, Zenon
  <2>12. CASE n \in {[m EXCEPT !.created = 1, !.seal.created = 1], [m EXCEPT !.appended = 1, !.seal.appended = 1],
                   [m EXCEPT !.created = 0, !.seal.created = 0], [m EXCEPT !.appended = 0, !.seal.appended = 0]}
    BY <2>4, <2>12, Zenon
  <2>13. CASE n \in {[m EXCEPT !.omitted = ~@], [m EXCEPT !.targets = @ + 1], [m EXCEPT !.attempts = @ + 1],
                   [m EXCEPT !.unwired = ~@], [m EXCEPT !.unwired = TRUE, !.seal.fallback = "RECORDED"]}
    BY <2>2, <2>5, <2>13, Zenon
  <2>14. CASE n \in {[m EXCEPT !.result = "BLOCKED"], [m EXCEPT !.gap = "BLOCKED"], [m EXCEPT !.seal.bypass = ~@],
                   [m EXCEPT !.seal.write = FALSE], [m EXCEPT !.seal.rejected = {}], [m EXCEPT !.seal.fixtures = {}]}
    BY <2>2, <2>6, <2>14, Zenon
  <2>15. CASE n \in {[m EXCEPT !.events = Tail(@)], [m EXCEPT !.events = SubSeq(@, 1, Len(@) - 1)],
                   [m EXCEPT !.events = <<>>]}
    BY <2>3, <2>15, Zenon
  <2> QED
    BY <2>8, <2>9, <2>10, <2>11, <2>12, <2>13, <2>14, <2>15, Zenon
<1>10. PICK digest : digest = expected_store_write_mediation_metadata_hash(n)
  OBVIOUS
<1> QED
  BY <1>1, <1>9, <1>10


(* What an accepted record says of its events is what they say.              *)
LEMMA ShapedAccepted ==
  ASSUME NEW m, RecordShaped(m), verify_store_write_mediation_metadata(m),
         NEW b, b = Summed(m.events)
  PROVE  \A f \in DOMAIN m \ (IF AnyBlocked(m.events) THEN {"result", "digest"}
                              ELSE {"result", "blocked", "gap", "digest"}) : m[f] = b[f]
<1>1. PICK es : es = m.events
  OBVIOUS
<1>2. /\ m.current = TRUE /\ m.claimed = {} /\ m.guarded = {es[i].sink : i \in DOMAIN es}
      /\ m.targets = Cardinality(Blocked(es, "_write_json")) /\ m.attempts = Len(es)
      /\ m.created = Created(es) /\ m.seal.created = Created(es)
      /\ m.appended = Appended(es) /\ m.seal.appended = Appended(es)
      /\ \A n \in Sinks : m.direct[n] = Direct(es, n)
      /\ m.seal.bypass = (Blocked(es, "_write_json") # {})
      /\ AnyBlocked(es) => m.blocked /\ m.gap = "BLOCKED"
      /\ \A n \in Sinks : m.allowed[n] /\ Trusted(es, n) # {}
      /\ m.seal.write = (Trusted(es, "_write_json") # {})
      /\ m.seal.ledger = (Trusted(es, "_append_ledger_unmediated") # {})
      /\ m.unwired = AnyUnwired(es) /\ m.omitted = OmittedRejected(es)
  BY <1>1 DEF RecordShaped, verify_store_write_mediation_metadata, _summary_accepted
<1>3. /\ m.seal.rejected = Fixture /\ m.seal.claimed = {}
      /\ m.seal.fallback = (IF AnyUnwired(es) THEN "RECORDED" ELSE "NONE")
      /\ {r.name : r \in m.seal.fixtures} = Fixture
  BY <1>2 DEF verify_store_write_mediation_metadata, verify_store_adjacent_runtime_seal_metadata,
              _fixture_rejection_reasons
<1>4. Fixture # {}
  <2>1. <<"direct_packet_submission", None>> \in Fixture
    BY DEF Fixture
  <2> QED
    BY <2>1
<1>5. /\ b.current = TRUE /\ b.claimed = {} /\ b.guarded = {es[i].sink : i \in DOMAIN es}
      /\ b.blocked = AnyBlocked(es) /\ b.direct = [n \in Sinks |-> Direct(es, n)]
      /\ b.created = Created(es) /\ b.appended = Appended(es)
      /\ b.allowed = [n \in Sinks |-> Trusted(es, n) # {}]
      /\ b.omitted = OmittedRejected(es) /\ b.targets = Cardinality(Blocked(es, "_write_json"))
      /\ b.attempts = Len(es) /\ b.unwired = AnyUnwired(es)
      /\ b.gap = (IF AnyBlocked(es) THEN "BLOCKED" ELSE "NO_ATTEMPT")
      /\ b.seal = build_store_adjacent_runtime_seal_metadata(
                       Blocked(es, "_write_json") # {}, Created(es), Appended(es),
                       Trusted(es, "_write_json") # {},
                       Trusted(es, "_append_ledger_unmediated") # {}, AnyUnwired(es))
      /\ b.events = es
  <2>1. b = Summed(es)
    BY <1>1
  <2>2. SumsUp(b, es)
    BY <2>1, SummedFields, Zenon
  <2> QED
    BY <2>2, Zenon DEF SumsUp
<1>6. m.seal = b.seal
  <2>1. PICK s : s = m.seal
    OBVIOUS
  <2>2. PICK t : t = b.seal
    OBVIOUS
  <2>3. /\ SealShaped(t) /\ t.claimed = {} /\ t.bypass = (Blocked(es, "_write_json") # {})
        /\ t.created = Created(es) /\ t.appended = Appended(es)
        /\ t.write = (Trusted(es, "_write_json") # {})
        /\ t.ledger = (Trusted(es, "_append_ledger_unmediated") # {})
        /\ t.fallback = (IF AnyUnwired(es) THEN "RECORDED" ELSE "NONE")
        /\ t.rejected = SealRejected /\ t.fixtures = _build_rejection_fixture_records
    <3>1. PICK bypass, created, appended, write, ledgers, fallback :
            /\ bypass = (Blocked(es, "_write_json") # {}) /\ created = Created(es)
            /\ appended = Appended(es) /\ write = (Trusted(es, "_write_json") # {})
            /\ ledgers = (Trusted(es, "_append_ledger_unmediated") # {})
            /\ fallback = AnyUnwired(es)
      OBVIOUS
    <3>2. t = build_store_adjacent_runtime_seal_metadata(bypass, created, appended, write, ledgers,
                                                         fallback)
      BY <1>5, <2>2, <3>1
    <3> QED
      BY <3>1, <3>2, BuiltSeal
  <2>4. SealShaped(s)
    BY <2>1 DEF RecordShaped
  <2>5. s.current = t.current /\ s.metadata_only = t.metadata_only /\ s.claimed = t.claimed
    BY <1>3, <2>1, <2>3, <2>4 DEF SealShaped
  <2>6. s.rejected = t.rejected
    BY <1>3, <1>4, <2>1, <2>3, <2>4 DEF SealShaped
  <2>7. s.fixtures = t.fixtures
    <3>1. s.fixtures # {}
      BY <1>3, <1>4, <2>1
    <3> QED
      BY <2>3, <2>4, <3>1 DEF SealShaped
  <2>8. /\ s.bypass = t.bypass /\ s.write = t.write /\ s.ledger = t.ledger
        /\ s.created = t.created /\ s.appended = t.appended /\ s.fallback = t.fallback
    BY <1>2, <1>3, <2>1, <2>3, Zenon
  <2>9. /\ s = [current |-> s.current, rejected |-> s.rejected, metadata_only |-> s.metadata_only,
                claimed |-> s.claimed, bypass |-> s.bypass, created |-> s.created,
                appended |-> s.appended, write |-> s.write, ledger |-> s.ledger,
                fallback |-> s.fallback, fixtures |-> s.fixtures]
        /\ t = [current |-> t.current, rejected |-> t.rejected, metadata_only |-> t.metadata_only,
                claimed |-> t.claimed, bypass |-> t.bypass, created |-> t.created,
                appended |-> t.appended, write |-> t.write, ledger |-> t.ledger,
                fallback |-> t.fallback, fixtures |-> t.fixtures]
    BY <2>3, <2>4 DEF SealShaped
  <2> QED
    BY <2>1, <2>2, <2>5, <2>6, <2>7, <2>8, <2>9
<1>7. m.direct = b.direct /\ m.allowed = b.allowed
  <2>1. m.direct \in [Sinks -> {"BLOCKED", "NO_EXECUTOR_ATTEMPT"}] /\ m.allowed \in [Sinks -> BOOLEAN]
    BY DEF RecordShaped
  <2> QED
    BY <1>2, <1>5, <2>1
<1>8. AnyBlocked(es) => m.blocked = b.blocked /\ m.gap = b.gap
  <2>1. m.blocked \in BOOLEAN /\ AnyBlocked(es) \in BOOLEAN
    BY DEF RecordShaped, AnyBlocked
  <2> QED
    BY <1>2, <1>5, <2>1
<1>9. DOMAIN m = {"current", "claimed", "guarded", "blocked", "direct", "created", "appended",
                  "allowed", "omitted", "targets", "attempts", "result", "unwired", "gap", "seal",
                  "events", "digest"}
  BY DEF RecordShaped
<1>10. /\ m.current = b.current /\ m.claimed = b.claimed /\ m.guarded = b.guarded
       /\ m.created = b.created /\ m.appended = b.appended /\ m.omitted = b.omitted
       /\ m.targets = b.targets /\ m.attempts = b.attempts /\ m.unwired = b.unwired
       /\ m.events = b.events
  BY <1>1, <1>2, <1>5, Zenon
<1> QED
  BY <1>1, <1>6, <1>7, <1>8, <1>9, <1>10

(* Once there is a record, it has its shape: whoever alters it.              *)
RecordInd ==
    pc \in {"run", "manifest", "evidence", "ledger", "listed"} => RecordShaped(record)

LEMMA BuiltRecord ==
  ASSUME NEW es, NEW m, m = build_store_write_mediation_metadata(es)
  PROVE  RecordShaped(m) /\ SumsUp(m, es) /\ m = [Summed(es) EXCEPT !.digest = m.digest]
         /\ m.digest = expected_store_write_mediation_metadata_hash(m)
<1>1. PICK b : b = Summed(es)
  OBVIOUS
<1>2. RecordShaped(b) /\ SumsUp(b, es)
  BY <1>1, SummedFields, Zenon
<1>3. PICK digest : digest = expected_store_write_mediation_metadata_hash(b)
  OBVIOUS
<1>4. m = [b EXCEPT !.digest = digest]
  BY <1>1, <1>3 DEF build_store_write_mediation_metadata
<1>5. RecordShaped(m)
  BY <1>2, <1>4, FieldChanged
<1>6. /\ m.current = b.current /\ m.claimed = b.claimed /\ m.guarded = b.guarded
      /\ m.blocked = b.blocked /\ m.direct = b.direct /\ m.created = b.created
      /\ m.appended = b.appended /\ m.allowed = b.allowed /\ m.omitted = b.omitted
      /\ m.targets = b.targets /\ m.attempts = b.attempts /\ m.result = b.result
      /\ m.unwired = b.unwired /\ m.gap = b.gap /\ m.seal = b.seal /\ m.events = b.events
      /\ m.digest = digest
  BY <1>2, <1>4 DEF RecordShaped
<1>7. [m EXCEPT !.digest = None] = [b EXCEPT !.digest = None]
  BY <1>2, <1>4 DEF RecordShaped
<1> QED
  BY <1>1, <1>2, <1>3, <1>4, <1>5, <1>6, <1>7
  DEF SumsUp, expected_store_write_mediation_metadata_hash

LEMMA RecordStep ==
  RecordInd /\ [Next]_vars => RecordInd'
<1> SUFFICES ASSUME RecordInd, [Next]_vars PROVE RecordInd'
  OBVIOUS
<1>1. ASSUME UNCHANGED saver PROVE RecordInd'
  BY <1>1 DEF saver, RecordInd
<1>2. CASE _collect_store_write_mediation_events
  BY <1>2, BuiltRecord DEF _collect_store_write_mediation_events, RecordInd
<1>3. CASE Alter
  <2>1. PICK m \in Changed(record) :
          record' \in {m, [m EXCEPT !.digest = expected_store_write_mediation_metadata_hash(m)]}
    BY <1>3 DEF Alter
  <2>2. RecordShaped(record)
    BY <1>3 DEF Alter, RecordInd
  <2>3. RecordShaped(record')
    BY <2>1, <2>2, AlteredIsShaped
  <2> QED
    BY <2>3 DEF RecordInd
<1>4. CASE WriteOwn \/ AppendOwn \/ Fail
  BY <1>4 DEF WriteOwn, AppendOwn, Fail, RecordInd, Writes
<1>5. CASE Look \/ attempt_executor_attributed_aeg_write_text
           \/ attempt_executor_omitted_declaration_aeg_write
           \/ attempt_executor_attributed_ledger_append
  BY <1>5 DEF Look, attempt_executor_attributed_aeg_write_text,
     attempt_executor_omitted_declaration_aeg_write, attempt_executor_attributed_ledger_append,
     RecordInd
<1>6. ASSUME NEW p \in Thread,
             \/ \E repo \in Repo : EnterTrusted(p, repo) \/ EnterExecutor(p, repo)
             \/ Exit(p) \/ Adopt(p) \/ _append_ledger_unmediated(p)
             \/ \E t \in Reach : _write_json(p, t)
      PROVE  UNCHANGED saver
  BY <1>6 DEF EnterTrusted, EnterExecutor, Exit, Adopt, _append_ledger_unmediated, _write_json
<1>7. Outside => UNCHANGED saver
  BY DEF Outside
<1>8. UNCHANGED vars => UNCHANGED saver
  BY DEF vars
<1> QED
  BY <1>1, <1>2, <1>3, <1>4, <1>5, <1>6, <1>7, <1>8 DEF Next

(* What a verified record says beyond its events follows from its events:    *)
(* whoever changed it and took its hash again.                               *)
THEOREM AcceptedAlwaysFollows == Spec => []AcceptedFollowsFromEvents
<1>1. Init => RecordInd
  BY DEF Init, RecordInd
<1>2. RecordInd => AcceptedFollowsFromEvents
  BY ShapedAccepted DEF RecordInd, AcceptedFollowsFromEvents, Verified
<1> QED
  BY <1>1, <1>2, RecordStep, PTL DEF Spec

-----------------------------------------------------------------------------
(* What is tried on the gate when a run is saved. *)

(* The complete action, and an action that differs from it in what it asks   *)
(* for, in its form or in the claims inside of it.                           *)
Noop(shaped, c, inner) ==
    [typed |-> TRUE, type |-> "NOOP", shaped |-> shaped, keys |-> {}, asks |-> FALSE,
     relative |-> TRUE, paths |-> {}, needs |-> <<c>>, top |-> {}, inner |-> inner]

(* What is known of it.                                                      *)
PlainNoop(a, shaped, c, inner) ==
    /\ a \in Action /\ a.typed = TRUE /\ a.type = "NOOP" /\ a.shaped = shaped /\ a.top = {}
    /\ a.inner = inner /\ _scan_forbidden_payload(a, None) = {}
    /\ Permitted(a, "NOOP", None) <=> c = "noop"

LEMMA NoopActions ==
  ASSUME NEW shaped \in BOOLEAN, NEW c \in {"noop", "network"}, NEW inner \in SUBSET Claim,
         NEW a, a = Noop(shaped, c, inner)
  PROVE  PlainNoop(a, shaped, c, inner)
<1>1. "noop" \in STRING /\ "network" \in STRING /\ "NOOP" \in STRING
  <2>1. {"noop", "network"} \subseteq KnownCapability /\ "NOOP" \in ALLOWED_ACTION_TYPES
    BY DEF KnownCapability, Policy, ALLOWED_ACTION_TYPES
  <2> QED
    BY <2>1, NamesAssumption
<1>2. PICK needs \in Seq(STRING) : needs = <<c>>
  BY <1>1, OneOrTwo
<1>3. a = [typed |-> TRUE, type |-> "NOOP", shaped |-> shaped, keys |-> {}, asks |-> FALSE,
           relative |-> TRUE, paths |-> {}, needs |-> needs, top |-> {}, inner |-> inner]
  BY <1>2 DEF Noop
<1>4. /\ a.typed = TRUE /\ a.type = "NOOP" /\ a.shaped = shaped /\ a.keys = {} /\ a.asks = FALSE
      /\ a.paths = {} /\ a.needs = needs /\ a.top = {} /\ a.inner = inner
      /\ a \in Action
  <2>1. PICK yes \in BOOLEAN, no \in BOOLEAN, type \in STRING :
          yes = TRUE /\ no = FALSE /\ type = "NOOP"
    BY <1>1
  <2>2. a = [typed |-> yes, type |-> type, shaped |-> shaped, keys |-> {}, asks |-> no,
             relative |-> yes, paths |-> {}, needs |-> needs, top |-> {}, inner |-> inner]
    BY <1>3, <2>1
  <2>3. /\ a.typed = yes /\ a.type = type /\ a.shaped = shaped /\ a.keys = {} /\ a.asks = no
        /\ a.paths = {} /\ a.needs = needs /\ a.top = {} /\ a.inner = inner
    BY <2>2
  <2>4. a \in Action
    BY <2>2 DEF Action
  <2> QED
    BY <2>1, <2>3, <2>4
<1>5. a \in Action
  BY <1>4
<1>6. _scan_forbidden_payload(a, None) = {}
  BY <1>4 DEF _scan_forbidden_payload
<1>7. _required_capabilities(a, "NOOP") = <<"noop">> \o <<c>>
  <2>1. "NOOP" \in ALLOWED_ACTION_TYPES /\ ACTION_DEFAULT_CAPABILITIES["NOOP"] = <<"noop">>
    BY DEF ALLOWED_ACTION_TYPES, ACTION_DEFAULT_CAPABILITIES
  <2> QED
    BY <1>1, <1>2, <1>4, <1>5, <2>1, RequiredCapabilities, ZenonT(30)
<1>8. PICK required : required = _required_capabilities(a, "NOOP")
  OBVIOUS
<1>9. required = <<"noop", c>>
  BY <1>7, <1>8
<1>10. DOMAIN required = {1, 2} /\ required[1] = "noop" /\ required[2] = c
  BY <1>9
<1>11. /\ _decision("noop", a, "NOOP", None, {}) = "allowed"
       /\ _decision("network", a, "NOOP", None, {}) # "allowed"
  BY DEF _decision, KnownCapability, Policy
<1> QED
  BY <1>2, <1>4, <1>5, <1>6, <1>8, <1>10, <1>11 DEF Permitted, PlainNoop

(* An output that is such an action, with or without a claim beside it.      *)
NoopOutput(o, a) ==
    \/ o = Plainly(a)
    \/ \E claim \in Ignorable : o = [kind |-> "mapping", direct |-> {}, wrapped |-> TRUE,
                                     outer |-> {claim}, body |-> a]

LEMMA NoopOutputs ==
  ASSUME NEW a \in Action, a.top = {}, NEW o,
         NoopOutput(o, a)
  PROVE  /\ o \in Output /\ Readable(o) /\ o.body = a
         /\ Validation(o, None) = validate_structured_action(a, None)
         /\ Verdict(o, None) = evaluate_action_capabilities(a, Validation(o, None), None, {})
         /\ SetAside(o) = {} <=> o = Plainly(a)
<1>1. PICK wrapped \in BOOLEAN, outer \in SUBSET Ignorable :
        /\ o = [kind |-> "mapping", direct |-> {}, wrapped |-> wrapped, outer |-> outer, body |-> a]
        /\ wrapped <=> outer # {}
        /\ o = Plainly(a) <=> outer = {}
  <2>1. CASE o = Plainly(a)
    <3>1. /\ o = [kind |-> "mapping", direct |-> {}, wrapped |-> FALSE, outer |-> {}, body |-> a]
          /\ FALSE \in BOOLEAN /\ {} \in SUBSET Ignorable
      BY <2>1 DEF Plainly
    <3> QED
      BY <2>1, <3>1
  <2>2. ASSUME NEW claim \in Ignorable,
               o = [kind |-> "mapping", direct |-> {}, wrapped |-> TRUE, outer |-> {claim}, body |-> a]
        PROVE  \E wrapped \in BOOLEAN, outer \in SUBSET Ignorable :
                 /\ o = [kind |-> "mapping", direct |-> {}, wrapped |-> wrapped, outer |-> outer,
                         body |-> a]
                 /\ wrapped <=> outer # {}
                 /\ o = Plainly(a) <=> outer = {}
    <3>1. o # Plainly(a) /\ TRUE \in BOOLEAN /\ {claim} \in SUBSET Ignorable /\ {claim} # {}
      BY <2>2 DEF Plainly
    <3> QED
      BY <2>2, <3>1
  <2> QED
    BY <2>1, <2>2 DEF NoopOutput
<1>2. /\ o.kind = "mapping" /\ o.direct = {} /\ o.wrapped = wrapped /\ o.outer = outer /\ o.body = a
  BY <1>1
<1>3. o \in Output /\ Readable(o)
  BY <1>1, <1>2, ClaimAssumption DEF Output, Readable, _parse_raw_output
<1>4. a # None
  BY NoneAssumption
<1>5. Proposed(o) = a
  <2>1. Proposed(o) = [a EXCEPT !.top = a.top \ Ignorable]
    BY <1>2, <1>4 DEF Proposed
  <2>2. a.top \ Ignorable = a.top
    OBVIOUS
  <2> QED
    BY <2>1, <2>2 DEF Action
<1>6. SetAside(o) = {} <=> outer = {}
  <2>1. _strip_top_level_self_reports(o) = {}
    BY <1>2, EmptyProduct DEF _strip_top_level_self_reports
  <2>2. outer \cap Ignorable = outer
    OBVIOUS
  <2>3. _self_report_paths_outside_action(o) = {} <=> outer = {}
    <3>1. {"outer"} \X outer = {} <=> outer = {}
      BY EmptyProduct
    <3>2. _self_report_paths_outside_action(o) = IF wrapped THEN {"outer"} \X outer ELSE {}
      BY <1>2, <2>2 DEF _self_report_paths_outside_action
    <3> QED
      BY <1>1, <3>1, <3>2
  <2> QED
    BY <2>1, <2>3 DEF SetAside
<1> QED
  BY <1>1, <1>2, <1>3, <1>5, <1>6 DEF Validation, Verdict

(* What the gate answers such an output.                                     *)
NoopAnswer(shaped, c, inner, o, a) ==
    IF ~shaped THEN _gate_rejection("UNVALIDATED_ACTION_STORE_PATH_REJECTED")
    ELSE IF inner \cap Granting # {} THEN _gate_rejection("REPORTED_ONLY_STORE_PATH_REJECTED")
    ELSE IF c # "noop" THEN _gate_rejection("DENIED_CAPABILITY_STORE_PATH_REJECTED")
    ELSE IF o # Plainly(a) THEN _gate_rejection("SELF_REPORTED_AUTHORITY_STORE_PATH_REJECTED")
    ELSE [accepted |-> TRUE, status |-> "STORE_ADJACENT_CANDIDATE_ACCEPTED"]

NoopAnswered(shaped, c, inner, o, a) == Ingested(o) = NoopAnswer(shaped, c, inner, o, a)

LEMMA NoopAnswers ==
  ASSUME NEW shaped \in BOOLEAN, NEW c \in {"noop", "network"}, NEW inner \in SUBSET Claim,
         NEW a, a = Noop(shaped, c, inner), NEW o,
         NoopOutput(o, a)
  PROVE  NoopAnswered(shaped, c, inner, o, a)
<1>1. /\ a \in Action /\ a.typed = TRUE /\ a.type = "NOOP" /\ a.shaped = shaped /\ a.top = {}
      /\ a.inner = inner /\ _scan_forbidden_payload(a, None) = {}
      /\ Permitted(a, "NOOP", None) <=> c = "noop"
  <2>1. PlainNoop(a, shaped, c, inner)
    BY NoopActions, Zenon
  <2> QED
    BY <2>1, Zenon DEF PlainNoop
<1>2. PICK v : v = Validation(o, None)
  OBVIOUS
<1>3. PICK g : g = Verdict(o, None)
  OBVIOUS
<1>4. /\ o \in Output /\ Readable(o) /\ v = validate_structured_action(a, None)
      /\ g = evaluate_action_capabilities(a, v, None, {})
      /\ SetAside(o) = {} <=> o = Plainly(a)
  BY <1>1, <1>2, <1>3, NoopOutputs
<1>5. v \in StructuredActionValidationResult /\ (v.valid <=> shaped) /\ (v.valid => v.type = "NOOP")
  <2>1. "NOOP" \in ALLOWED_ACTION_TYPES
    BY DEF ALLOWED_ACTION_TYPES
  <2>2. /\ v \in StructuredActionValidationResult
        /\ v.valid <=> /\ a.typed /\ a.type \in ALLOWED_ACTION_TYPES /\ a.shaped
                       /\ _scan_forbidden_payload(a, None) = {}
        /\ v.valid => v.type = a.type
    BY <1>1, <1>4, ValidAction
  <2> QED
    BY <1>1, <2>1, <2>2
<1>6. _scan_self_report_claims(a) = inner \cap Granting
  BY <1>1 DEF _scan_self_report_claims
<1>7. /\ g.result \in _ALLOWED_CANDIDATE_GATE_RESULTS <=>
           v.valid /\ _scan_self_report_claims(a) = {} /\ Permitted(a, v.type, None)
      /\ g.result = "REPORTED_ONLY_CAPABILITY_GRANT_REJECTED" <=>
           v.valid /\ _scan_self_report_claims(a) # {}
  BY <1>1, <1>4, <1>5, GateAllows
<1>8. Ingested(o) =
        IF ~Readable(o) \/ ~v.valid
        THEN _gate_rejection("UNVALIDATED_ACTION_STORE_PATH_REJECTED")
        ELSE IF g.result = "REPORTED_ONLY_CAPABILITY_GRANT_REJECTED"
        THEN _gate_rejection("REPORTED_ONLY_STORE_PATH_REJECTED")
        ELSE IF g.result \notin _ALLOWED_CANDIDATE_GATE_RESULTS
        THEN _gate_rejection("DENIED_CAPABILITY_STORE_PATH_REJECTED")
        ELSE IF SetAside(o) # {}
        THEN _gate_rejection("SELF_REPORTED_AUTHORITY_STORE_PATH_REJECTED")
        ELSE [accepted |-> TRUE, status |-> "STORE_ADJACENT_CANDIDATE_ACCEPTED"]
  BY <1>2, <1>3, <1>4, GateAnswer DEF Ingested
<1> QED
  BY <1>1, <1>4, <1>5, <1>6, <1>7, <1>8 DEF NoopAnswer, NoopAnswered

(* Each fixture is refused, and for its own reason; the complete action is   *)
(* accepted.                                                                 *)
LEMMA FixturesRefused ==
  /\ \A f \in Fixture : /\ Tried[f].status = _EXPECTED_REJECTION_STATUSES[f]
                        /\ Tried[f].accepted = FALSE
  /\ accepted_gate.accepted = TRUE
<1>1. /\ _valid_noop_action = Noop(TRUE, "noop", {})
      /\ [_valid_noop_action EXCEPT !.shaped = FALSE] = Noop(FALSE, "noop", {})
      /\ [_valid_noop_action EXCEPT !.needs = <<"network">>] = Noop(TRUE, "network", {})
      /\ [_valid_noop_action EXCEPT !.inner = Granting] = Noop(TRUE, "noop", Granting)
  <2>1. PICK yes, no, noop, network : yes = TRUE /\ no = FALSE /\ noop = <<"noop">> /\ network = <<"network">>
    OBVIOUS
  <2>2. _valid_noop_action =
          [typed |-> yes, type |-> "NOOP", shaped |-> yes, keys |-> {}, asks |-> no,
           relative |-> yes, paths |-> {}, needs |-> noop, top |-> {}, inner |-> {}]
    BY <2>1 DEF _valid_noop_action
  <2>3. /\ [_valid_noop_action EXCEPT !.shaped = no] =
             [typed |-> yes, type |-> "NOOP", shaped |-> no, keys |-> {}, asks |-> no,
              relative |-> yes, paths |-> {}, needs |-> noop, top |-> {}, inner |-> {}]
        /\ [_valid_noop_action EXCEPT !.needs = network] =
             [typed |-> yes, type |-> "NOOP", shaped |-> yes, keys |-> {}, asks |-> no,
              relative |-> yes, paths |-> {}, needs |-> network, top |-> {}, inner |-> {}]
        /\ [_valid_noop_action EXCEPT !.inner = Granting] =
             [typed |-> yes, type |-> "NOOP", shaped |-> yes, keys |-> {}, asks |-> no,
              relative |-> yes, paths |-> {}, needs |-> noop, top |-> {}, inner |-> Granting]
    BY <2>2, SMTT(30)
  <2>4. /\ Noop(yes, "noop", {}) =
             [typed |-> yes, type |-> "NOOP", shaped |-> yes, keys |-> {}, asks |-> no,
              relative |-> yes, paths |-> {}, needs |-> noop, top |-> {}, inner |-> {}]
        /\ Noop(no, "noop", {}) =
             [typed |-> yes, type |-> "NOOP", shaped |-> no, keys |-> {}, asks |-> no,
              relative |-> yes, paths |-> {}, needs |-> noop, top |-> {}, inner |-> {}]
        /\ Noop(yes, "network", {}) =
             [typed |-> yes, type |-> "NOOP", shaped |-> yes, keys |-> {}, asks |-> no,
              relative |-> yes, paths |-> {}, needs |-> network, top |-> {}, inner |-> {}]
        /\ Noop(yes, "noop", Granting) =
             [typed |-> yes, type |-> "NOOP", shaped |-> yes, keys |-> {}, asks |-> no,
              relative |-> yes, paths |-> {}, needs |-> noop, top |-> {}, inner |-> Granting]
    BY <2>1 DEF Noop
  <2> QED
    BY <2>1, <2>2, <2>3, <2>4, Zenon
<1>2. ASSUME NEW shaped \in BOOLEAN, NEW c \in {"noop", "network"}, NEW inner \in SUBSET Claim
      PROVE  Ingested(Plainly(Noop(shaped, c, inner))) =
               NoopAnswer(shaped, c, inner, Plainly(Noop(shaped, c, inner)), Noop(shaped, c, inner))
  <2>1. PICK a : a = Noop(shaped, c, inner)
    OBVIOUS
  <2>2. PICK o : o = Plainly(a)
    OBVIOUS
  <2>3. Ingested(o) = NoopAnswer(shaped, c, inner, o, a)
    <3>1. NoopOutput(o, a)
      BY <2>2 DEF NoopOutput
    <3>2. NoopAnswered(shaped, c, inner, o, a)
      BY <2>1, <3>1, NoopAnswers, Zenon
    <3> QED
      BY <3>2, Zenon DEF NoopAnswered
  <2> QED
    BY <2>1, <2>2, <2>3
<1>3. \A status : /\ _gate_rejection(status).status = status
                  /\ _gate_rejection(status).accepted = FALSE
  BY DEF _gate_rejection
<1>4. /\ Granting \subseteq Claim /\ {} \subseteq Claim /\ TRUE \in BOOLEAN /\ FALSE \in BOOLEAN
      /\ Granting \cap Granting # {} /\ {} \cap Granting = {}
  BY ClaimAssumption
<1>5. accepted_gate.accepted = TRUE
  <2>1. accepted_gate = [accepted |-> TRUE, status |-> "STORE_ADJACENT_CANDIDATE_ACCEPTED"]
    BY <1>1, <1>2, <1>4 DEF accepted_gate, NoopAnswer
  <2> QED
    BY <2>1
<1>6. Ingested(Plainly([_valid_noop_action EXCEPT !.shaped = FALSE]))
        = _gate_rejection("UNVALIDATED_ACTION_STORE_PATH_REJECTED")
  BY <1>1, <1>2, <1>4 DEF NoopAnswer
<1>7. Ingested(Plainly([_valid_noop_action EXCEPT !.needs = <<"network">>]))
        = _gate_rejection("DENIED_CAPABILITY_STORE_PATH_REJECTED")
  BY <1>1, <1>2, <1>4 DEF NoopAnswer
<1>8. Ingested(Plainly([_valid_noop_action EXCEPT !.inner = Granting]))
        = _gate_rejection("REPORTED_ONLY_STORE_PATH_REJECTED")
  BY <1>1, <1>2, <1>4 DEF NoopAnswer
<1>9. ASSUME NEW claim \in Ignorable
      PROVE  Ingested(_self_report_packet(claim))
               = _gate_rejection("SELF_REPORTED_AUTHORITY_STORE_PATH_REJECTED")
  <2>1. PICK a : a = Noop(TRUE, "noop", {})
    OBVIOUS
  <2>2. PICK o : o = [kind |-> "mapping", direct |-> {}, wrapped |-> TRUE, outer |-> {claim}, body |-> a]
    OBVIOUS
  <2>3. o = _self_report_packet(claim) /\ o # Plainly(a)
    BY <1>1, <2>1, <2>2 DEF _self_report_packet, Plainly
  <2>4. PICK shaped \in BOOLEAN, c \in {"noop", "network"}, inner \in SUBSET Claim :
          shaped = TRUE /\ c = "noop" /\ inner = {}
    BY <1>4
  <2>5. Ingested(o) = NoopAnswer(shaped, c, inner, o, a)
    <3>1. a = Noop(shaped, c, inner)
      BY <2>1, <2>4
    <3>2. NoopOutput(o, a)
      BY <2>2 DEF NoopOutput
    <3>3. NoopAnswered(shaped, c, inner, o, a)
      BY <3>1, <3>2, NoopAnswers, Zenon
    <3> QED
      BY <3>3, Zenon DEF NoopAnswered
  <2> QED
    BY <1>4, <2>3, <2>4, <2>5 DEF NoopAnswer
<1>10. /\ _submission_rejection({"packet"})
            = _gate_rejection("DIRECT_PACKET_SUBMISSION_STORE_PATH_REJECTED")
       /\ _submission_rejection({}) = _gate_rejection("RAW_EXECUTOR_OUTPUT_STORE_PATH_REJECTED")
  BY DEF _submission_rejection
<1>11. ASSUME NEW p, p.made = FALSE
       PROVE  evaluate_store_adjacent_candidate_gate(p)
                = _gate_rejection("PACKET_EVIDENCE_STORE_PATH_REJECTED")
  <2>1. ~verify_action_decision_packet_evidence(bind_action_decision_packet_evidence(p), p)
    BY <1>11 DEF verify_action_decision_packet_evidence, is_runtime_built_action_decision_packet
  <2> QED
    BY <2>1, Zenon DEF evaluate_store_adjacent_candidate_gate
<1>12. [ingest_executor_output(Plainly(_valid_noop_action), None) EXCEPT !.made = FALSE].made = FALSE
  <2>1. PICK o : o = Plainly(_valid_noop_action)
    OBVIOUS
  <2>2. PICK p : p = ingest_executor_output(o, None)
    OBVIOUS
  <2>3. o \in Output
    <3>1. PlainNoop(_valid_noop_action, TRUE, "noop", {})
      BY <1>1, <1>4, NoopActions
    <3> QED
      BY <2>1, <3>1, NoopOutputs DEF PlainNoop, NoopOutput
  <2>4. p \in Packet
    BY <2>2, <2>3, PacketOf
  <2> QED
    BY <2>1, <2>2, <2>4 DEF Packet
<1>13. ASSUME NEW f \in Fixture
       PROVE  Tried[f].status = _EXPECTED_REJECTION_STATUSES[f] /\ Tried[f].accepted = FALSE
  <2>1. Tried[f] =
          CASE f[1] = "direct_packet_submission" ->
                 _gate_rejection("DIRECT_PACKET_SUBMISSION_STORE_PATH_REJECTED")
            [] f[1] = "executor_built_packet" -> _gate_rejection("PACKET_EVIDENCE_STORE_PATH_REJECTED")
            [] f[1] = "self_report" -> Ingested(_self_report_packet(f[2]))
            [] f[1] = "raw_store_adjacent_path" ->
                 _gate_rejection("RAW_EXECUTOR_OUTPUT_STORE_PATH_REJECTED")
            [] f[1] = "unvalidated_store_adjacent_path" ->
                 _gate_rejection("UNVALIDATED_ACTION_STORE_PATH_REJECTED")
            [] f[1] = "denied_store_adjacent_path" ->
                 _gate_rejection("DENIED_CAPABILITY_STORE_PATH_REJECTED")
            [] f[1] = "reported_only_store_adjacent_path" ->
                 _gate_rejection("REPORTED_ONLY_STORE_PATH_REJECTED")
    BY <1>6, <1>7, <1>8, <1>10, <1>11, <1>12, Zenon DEF Tried
  <2>2. \/ f[1] \in {"direct_packet_submission", "executor_built_packet", "raw_store_adjacent_path",
                     "unvalidated_store_adjacent_path", "denied_store_adjacent_path",
                     "reported_only_store_adjacent_path"}
        \/ f[1] = "self_report" /\ f[2] \in Ignorable
    BY DEF Fixture
  <2>3. Tried[f] = _gate_rejection(_EXPECTED_REJECTION_STATUSES[f])
    BY <1>9, <2>1, <2>2 DEF _EXPECTED_REJECTION_STATUSES
  <2> QED
    BY <1>3, <2>3
<1> QED
  BY <1>5, <1>13

(* So the seal of a run says that all was refused, and passes.               *)
LEMMA SealedRejections ==
  /\ SealRejected = Fixture
  /\ ~_fixture_rejection_reasons(_build_rejection_fixture_records)
<1>1. \A f \in Fixture : \E r \in _build_rejection_fixture_records :
        /\ r.name = f /\ r.actual = _EXPECTED_REJECTION_STATUSES[f] /\ ~r.accepted
  <2> TAKE f \in Fixture
  <2>1. PICK expected : expected = _EXPECTED_REJECTION_STATUSES[f]
    OBVIOUS
  <2>2. Tried[f].status = expected /\ Tried[f].accepted = FALSE
    BY <2>1, FixturesRefused
  <2>3. [name |-> f, expected |-> expected, actual |-> expected, accepted |-> FALSE]
          \in _build_rejection_fixture_records
    BY <2>1, <2>2 DEF _build_rejection_fixture_records
  <2> QED
    BY <2>1, <2>3
<1>2. ASSUME NEW r \in _build_rejection_fixture_records
      PROVE  /\ r.name \in Fixture /\ r.expected = _EXPECTED_REJECTION_STATUSES[r.name]
             /\ r.actual = r.expected /\ r.accepted = FALSE
  <2>1. PICK f \in Fixture :
          r = [name |-> f, expected |-> _EXPECTED_REJECTION_STATUSES[f], actual |-> Tried[f].status,
               accepted |-> Tried[f].accepted]
    BY DEF _build_rejection_fixture_records
  <2>2. PICK expected : expected = _EXPECTED_REJECTION_STATUSES[f]
    OBVIOUS
  <2>3. Tried[f].status = expected /\ Tried[f].accepted = FALSE
    BY <2>2, FixturesRefused
  <2>4. r = [name |-> f, expected |-> expected, actual |-> expected, accepted |-> FALSE]
    BY <2>1, <2>2, <2>3
  <2> QED
    BY <2>2, <2>4
<1>3. {r.name : r \in _build_rejection_fixture_records} = Fixture
  BY <1>1, <1>2
<1>4. SealRejected = Fixture
  BY <1>1 DEF SealRejected, _fixture_rejected
<1> QED
  BY <1>2, <1>3, <1>4 DEF _fixture_rejection_reasons

-----------------------------------------------------------------------------
(* A run nobody disturbed. *)

(* How many events the attempts and the two probes leave.                    *)
Tries == IF asked = <<>> THEN 0 ELSE Len(asked) + 2

(* The event of a blocked write, by an executor.                             *)
BlockedAt(e, name) ==
    /\ e.sink = name /\ e.by = "executor_attributed" /\ e.result = "BLOCKED"
    /\ ~e.performed /\ ~e.unwired

(* It says of its target what was not there: only if it is there now.        *)
SaysOf(e, t) == (e.exists => content[t] # None) /\ (e.created => e.exists)

(* What the i-th event is, of those the tries leave.                         *)
TryRecorded(i) ==
    /\ i <= Len(asked) /\ Home[asked[i].target] = Ours =>
          BlockedAt(events[i], "_write_json") /\ SaysOf(events[i], asked[i].target)
    /\ i <= Len(asked) => events[i].sink = "_write_json"
    /\ i = Len(asked) + 1 => BlockedAt(events[i], "_write_json") /\ SaysOf(events[i], Omitted)
    /\ i = Len(asked) + 2 =>
          /\ BlockedAt(events[i], "_append_ledger_unmediated") /\ ~events[i].created
          /\ events[i].appended # 0 => ledger # <<>> /\ ledger[1] # "saver"

(* The event of a write of save_run itself.                                  *)
PlannedAt(e, name) ==
    /\ e.sink = name /\ e.by = "trusted_runtime" /\ e.result = "TRUSTED_RUNTIME_ALLOWED"
    /\ ~e.claims /\ e.performed /\ e.owned /\ e.exists
    /\ name = "_append_ledger_unmediated" => e.appended > 0

Collected == {"run", "manifest", "evidence", "ledger", "listed"}

(* How far the events have come.                                             *)
EventsCome ==
    /\ pc = "collect" => IF asked = <<>> THEN events = <<>> ELSE Len(events) < Len(asked)
    /\ pc = "omitted" => asked # <<>> /\ Len(events) = Len(asked)
    /\ pc = "forged" => asked # <<>> /\ Len(events) = Len(asked) + 1
    /\ pc = "plan" => asked # <<>> /\ Len(events) = Len(asked) + 2

(* The last four are the plans, and the record is made of all of them.       *)
EventsCollected ==
    pc \in Collected =>
        /\ Len(events) = Tries + 4
        /\ \A i \in 1..3 : PlannedAt(events[Tries + i], "_write_json")
        /\ PlannedAt(events[Tries + 4], "_append_ledger_unmediated")
        /\ ~altered => record = build_store_write_mediation_metadata(events)

TriesRecorded == \A i \in DOMAIN events : i <= Tries => TryRecorded(i)

LastOfLedger == pc # "listed" => \A i \in DOMAIN ledger : ledger[i] # "saver"

QuietInd == EventsCome /\ EventsCollected /\ TriesRecorded /\ LastOfLedger

(* No file disappears and no line of the ledger is lost.                     *)
Growing ==
    /\ asked' = asked
    /\ \A t \in Target : content[t] # None => content'[t] # None
    /\ ledger # <<>> => ledger' # <<>> /\ ledger'[1] = ledger[1]

LEMMA Lines ==
  ASSUME MediationInv, NEW a \in Authors, ledger' = Append(ledger, a)
  PROVE  /\ ledger # <<>> => ledger' # <<>> /\ ledger'[1] = ledger[1]
         /\ a # "saver" /\ LastOfLedger => \A i \in DOMAIN ledger' : pc # "listed" => ledger'[i] # "saver"
<1>1. /\ ledger \in Seq(Authors) /\ Len(ledger) \in Nat /\ Len(ledger') = Len(ledger) + 1
      /\ DOMAIN ledger = 1..Len(ledger) /\ DOMAIN ledger' = 1..(Len(ledger) + 1)
      /\ \A i \in 1..Len(ledger) : ledger'[i] = ledger[i]
      /\ ledger'[Len(ledger) + 1] = a
  BY DEF MediationInv, TypeOK
<1>2. ledger # <<>> => 1 \in 1..Len(ledger)
  BY <1>1, EmptySeq
<1>3. ledger' # <<>>
  BY <1>1
<1> QED
  BY <1>1, <1>2, <1>3 DEF LastOfLedger

LEMMA Grows ==
  ASSUME MediationInv, [Next]_vars
  PROVE  Growing /\ (LastOfLedger => LastOfLedger')
<1>0. /\ content \in [Target -> Authors \cup {None, "old", "attempt"}]
      /\ \A a \in Authors \cup {"attempt"} : a # None
  BY TargetAssumption DEF MediationInv, TypeOK, Authors
<1>1. ASSUME UNCHANGED <<content, ledger, asked>>, pc # "listed" \/ pc' = "listed"
      PROVE  Growing /\ (LastOfLedger => LastOfLedger')
  BY <1>1 DEF Growing, LastOfLedger
<1>2. ASSUME UNCHANGED <<ledger, asked>>, pc # "listed" \/ pc' = "listed",
             NEW t, NEW a \in Authors \cup {"attempt"}, content' = [content EXCEPT ![t] = a]
      PROVE  Growing /\ (LastOfLedger => LastOfLedger')
  BY <1>0, <1>2 DEF Growing, LastOfLedger
<1>3. ASSUME UNCHANGED <<content, asked>>, pc # "listed" \/ pc' = "listed",
             NEW a \in Authors, ledger' = Append(ledger, a), a # "saver" \/ pc' = "listed"
      PROVE  Growing /\ (LastOfLedger => LastOfLedger')
  BY <1>3, Lines DEF Growing, LastOfLedger
<1>4. \A p \in Thread, t \in Target : Author(p, t) \in Authors \ {"saver"}
  BY DEF Author, Authors
<1>5. Reach \subseteq Target /\ Omitted \in Target
  BY TargetAssumption
<1>6. CASE UNCHANGED vars
  BY <1>1, <1>6 DEF vars, saver
<1>7. ASSUME NEW p \in Thread,
             (\E repo \in Repo : EnterTrusted(p, repo) \/ EnterExecutor(p, repo)) \/ Exit(p) \/ Adopt(p)
      PROVE  Growing /\ (LastOfLedger => LastOfLedger')
  BY <1>1, <1>7 DEF EnterTrusted, EnterExecutor, Exit, Adopt, saver
<1>8. ASSUME NEW p \in Thread, NEW t \in Reach, _write_json(p, t)
      PROVE  Growing /\ (LastOfLedger => LastOfLedger')
  BY <1>2, <1>4, <1>5, <1>8 DEF _write_json, saver
<1>9. ASSUME NEW p \in Thread, _append_ledger_unmediated(p)
      PROVE  Growing /\ (LastOfLedger => LastOfLedger')
  BY <1>3, <1>4, <1>5, <1>9 DEF _append_ledger_unmediated, saver
<1>10. CASE Outside
  <2>1. "other" \in Authors /\ "other" # "saver"
    BY DEF Authors
  <2> QED
    BY <1>2, <1>3, <1>10, <2>1 DEF Outside, saver
<1>11. CASE Look \/ attempt_executor_omitted_declaration_aeg_write
            \/ attempt_executor_attributed_ledger_append \/ _collect_store_write_mediation_events
  BY <1>1, <1>11 DEF Look, attempt_executor_omitted_declaration_aeg_write,
     attempt_executor_attributed_ledger_append, _collect_store_write_mediation_events
<1>12. CASE attempt_executor_attributed_aeg_write_text
  BY <1>1, <1>2, <1>12 DEF attempt_executor_attributed_aeg_write_text
<1>13. CASE WriteOwn
  <2>1. "saver" \in Authors /\ DOMAIN Writes = {"run", "manifest", "evidence"}
    BY DEF Authors, Writes
  <2> QED
    BY <1>2, <1>13, <2>1 DEF WriteOwn
<1>14. CASE AppendOwn
  <2>1. "saver" \in Authors
    BY DEF Authors
  <2> QED
    BY <1>3, <1>14, <2>1 DEF AppendOwn
<1>15. CASE Fail \/ Alter
  BY <1>1, <1>15 DEF Fail, Alter
<1> QED
  BY <1>6, <1>7, <1>8, <1>9, <1>10, <1>11, <1>12, <1>13, <1>14, <1>15 DEF Next

(* What was said of a target stays true.                                     *)
LEMMA TryKept ==
  ASSUME MediationInv, Growing, NEW i \in Nat, events'[i] = events[i], TryRecorded(i), i > 0
  PROVE  TryRecorded(i)'
<1>1. Omitted \in Target
  BY TargetAssumption
<1>2. i <= Len(asked) => asked[i].target \in Target
  <2>1. asked \in Seq(Attempt)
    BY DEF MediationInv, TypeOK
  <2>2. i <= Len(asked) => asked[i] \in Attempt
    <3>1. Len(asked) \in Nat /\ \A j \in 1..Len(asked) : asked[j] \in Attempt
      BY <2>1
    <3>2. i <= Len(asked) => i \in 1..Len(asked)
      BY <3>1
    <3> QED
      BY <3>1, <3>2
  <2>3. \A n \in Attempt : n.target \in Target
    BY DEF Attempt
  <2> QED
    BY <2>2, <2>3
<1>3. ASSUME NEW e, NEW t \in Target, SaysOf(e, t)
      PROVE  (e.exists => content'[t] # None) /\ (e.created => e.exists)
  BY <1>3 DEF Growing, SaysOf
<1> QED
  BY <1>1, <1>2, <1>3 DEF Growing, TryRecorded, SaysOf, BlockedAt

(* Another event.                                                            *)
LEMMA EventAdded ==
  ASSUME MediationInv, QuietInd, Growing, NEW e, events' = Append(events, e),
         pc = "collect" => Len(events) + 1 <= Len(asked)
                           /\ pc' = IF Len(events) + 1 = Len(asked) THEN "omitted" ELSE pc,
         pc = "omitted" => pc' = "forged",
         pc = "forged" => pc' = "plan",
         pc \in {"collect", "omitted", "forged"},
         NEW n \in Nat, n = Len(events) + 1, TryRecorded(n)'
  PROVE  EventsCome' /\ EventsCollected' /\ TriesRecorded'
<1>1. /\ Len(events) \in Nat /\ Len(events') = Len(events) + 1 /\ asked' = asked
      /\ Len(asked) \in Nat
      /\ DOMAIN events = 1..Len(events) /\ DOMAIN events' = 1..(Len(events) + 1)
      /\ \A i \in DOMAIN events : events'[i] = events[i]
      /\ asked # <<>> <=> Len(asked) > 0
  <2>1. asked \in Seq(Attempt)
    BY DEF MediationInv, TypeOK
  <2>2. asked # <<>> <=> Len(asked) > 0
    BY <2>1, EmptySeq
  <2> QED
    BY <2>1, <2>2 DEF MediationInv, TypeOK, Growing
<1>2. EventsCome'
  <2>1. CASE pc = "collect"
    BY <1>1, <2>1 DEF EventsCome
  <2>2. CASE pc = "omitted"
    BY <1>1, <2>2 DEF EventsCome, QuietInd
  <2>3. CASE pc = "forged"
    BY <1>1, <2>3 DEF EventsCome, QuietInd
  <2> QED
    BY <2>1, <2>2, <2>3
<1>3. EventsCollected'
  BY DEF EventsCollected, Collected
<1>4. Tries' = Tries
  BY <1>1 DEF Tries
<1>5. ASSUME NEW i \in DOMAIN events', i <= Tries' PROVE TryRecorded(i)'
  <2>1. CASE i \in DOMAIN events
    <3>1. TryRecorded(i)
      BY <1>4, <1>5, <2>1 DEF QuietInd, TriesRecorded
    <3>2. i \in Nat /\ i > 0 /\ events'[i] = events[i]
      BY <1>1, <2>1
    <3> QED
      BY <3>1, <3>2, TryKept
  <2>2. CASE i = n
    BY <2>2
  <2> QED
    BY <1>1, <2>1, <2>2
<1>6. TriesRecorded'
  BY <1>5 DEF TriesRecorded
<1> QED
  BY <1>2, <1>3, <1>6

(* The tries leave what is expected of them.                                 *)
LEMMA TryAdds ==
  ASSUME MediationInv, QuietInd, Growing,
         \/ attempt_executor_attributed_aeg_write_text
         \/ attempt_executor_omitted_declaration_aeg_write
         \/ attempt_executor_attributed_ledger_append
  PROVE  EventsCome' /\ EventsCollected' /\ TriesRecorded'
<1>1. Len(events) \in Nat /\ Len(asked) \in Nat /\ events \in Seq(Event)
  BY DEF MediationInv, TypeOK
<1>0. PICK n \in Nat : n = Len(events) + 1
  BY <1>1
<1>2. \A e : Append(events, e)[n] = e /\ Len(Append(events, e)) = n
  BY <1>0, <1>1
<1>3. ASSUME NEW name \in Sinks, NEW t \in Target, NEW claims, NEW declared, NEW e,
             e = BlockedEvent(name, t, claims, declared), content' = content
      PROVE  /\ BlockedAt(e, name)
             /\ e.exists => content'[t] # None
             /\ e.created => e.exists
  BY <1>3 DEF BlockedEvent, BlockedAt
<1>4. "_write_json" \in Sinks /\ "_append_ledger_unmediated" \in Sinks /\ Omitted \in Target
  BY TargetAssumption DEF Sinks
<1>5. CASE attempt_executor_attributed_aeg_write_text
  <2>0. Turn.target \in Target /\ Turn = asked[Len(events) + 1] /\ Len(events) + 1 <= Len(asked)
    <3>1. asked # <<>> /\ Len(events) < Len(asked)
      BY <1>5 DEF attempt_executor_attributed_aeg_write_text, MediationInv, TypeOK
    <3>2. Turn \in Attempt
      BY <1>1, <3>1 DEF Turn, MediationInv, TypeOK
    <3> QED
      BY <1>1, <3>1, <3>2 DEF Turn, Attempt
  <2>1. PICK guarded : guarded = _guard_store_write_sink(
                          Turn.target, Context("executor_attributed", Ours, None), None)
    OBVIOUS
  <2>2. PICK e : /\ events' = Append(events, e)
                 /\ e.sink = "_write_json"
                 /\ Home[Turn.target] = Ours =>
                       /\ BlockedAt(e, "_write_json") /\ (e.exists => content'[Turn.target] # None)
                       /\ e.created => e.exists
    <3>1. CASE guarded = "BLOCKED"
      <4>1. PICK e : e = BlockedEvent("_write_json", Turn.target, Turn.claims, TRUE)
        OBVIOUS
      <4>2. events' = Append(events, e) /\ content' = content
        BY <1>5, <2>1, <3>1, <4>1 DEF attempt_executor_attributed_aeg_write_text
      <4>3. e.sink = "_write_json"
        BY <4>1 DEF BlockedEvent
      <4>4. /\ BlockedAt(e, "_write_json") /\ (e.exists => content'[Turn.target] # None)
            /\ e.created => e.exists
        BY <1>3, <1>4, <2>0, <4>1, <4>2
      <4> QED
        BY <4>2, <4>3, <4>4, Zenon
    <3>2. CASE guarded # "BLOCKED"
      <4>1. PICK e : e = _unblocked_sink_event(Turn.claims, TRUE)
        OBVIOUS
      <4>2. events' = Append(events, e)
        BY <1>5, <2>1, <3>2, <4>1 DEF attempt_executor_attributed_aeg_write_text
      <4>3. e.sink = "_write_json"
        BY <4>1 DEF _unblocked_sink_event
      <4>4. Home[Turn.target] # Ours
        BY <2>0, <2>1, <3>2, UnblockedAttempt
      <4> QED
        BY <4>2, <4>3, <4>4
    <3> QED
      BY <3>1, <3>2
  <2>3. TryRecorded(n)'
    BY <1>0, <1>1, <1>2, <2>0, <2>2 DEF TryRecorded, Growing, SaysOf, BlockedAt
  <2>4. /\ pc = "collect"
        /\ pc' = IF Len(events) + 1 = Len(asked) THEN "omitted" ELSE pc
    BY <1>0, <1>2, <1>5, <2>2 DEF attempt_executor_attributed_aeg_write_text
  <2> QED
    BY <1>0, <2>0, <2>2, <2>3, <2>4, EventAdded
<1>6. CASE attempt_executor_omitted_declaration_aeg_write
  <2>1. PICK e : e = BlockedEvent("_write_json", Omitted, FALSE, FALSE)
    OBVIOUS
  <2>2. /\ events' = Append(events, e) /\ pc = "omitted" /\ pc' = "forged" /\ content' = content
        /\ asked' = asked /\ Len(events) = Len(asked)
    BY <1>6, <2>1 DEF attempt_executor_omitted_declaration_aeg_write, QuietInd, EventsCome
  <2>3. /\ BlockedAt(e, "_write_json") /\ (e.exists => content'[Omitted] # None)
        /\ e.created => e.exists
    BY <1>3, <1>4, <2>1, <2>2
  <2>4. TryRecorded(n)'
    <3>1. events'[n] = e
      BY <1>2, <2>2
    <3>2. n = Len(asked) + 1
      BY <1>0, <2>2
    <3> QED
      BY <1>1, <2>2, <2>3, <3>1, <3>2 DEF TryRecorded, SaysOf, BlockedAt
  <2> QED
    BY <1>0, <2>2, <2>4, EventAdded
<1>7. CASE attempt_executor_attributed_ledger_append
  <2>1. PICK b : b = BlockedEvent("_append_ledger_unmediated", Omitted, TRUE, TRUE)
    OBVIOUS
  <2>2. PICK e : e = [b EXCEPT !.exists = TRUE, !.created = FALSE]
    OBVIOUS
  <2>3. /\ events' = Append(events, e) /\ pc = "forged" /\ pc' = "plan" /\ seen # None
        /\ UNCHANGED <<content, ledger, asked>> /\ Len(events) = Len(asked) + 1
    BY <1>7, <2>1, <2>2 DEF attempt_executor_attributed_ledger_append, QuietInd, EventsCome
  <2>4. /\ BlockedAt(b, "_append_ledger_unmediated") /\ b.appended = Len(ledger) - seen.lines
        /\ b \in Event
    <3>1. BlockedAt(b, "_append_ledger_unmediated")
      BY <1>3, <1>4, <2>1, <2>3
    <3>2. b.appended = Len(ledger) - seen.lines
      BY <2>1 DEF BlockedEvent
    <3>3. b \in Event
      BY <1>4, <2>1, <2>3, BlockedEventType
    <3> QED
      BY <3>1, <3>2, <3>3
  <2>5. BlockedAt(e, "_append_ledger_unmediated") /\ ~e.created /\ e.appended = b.appended
    BY <2>2, <2>4 DEF BlockedAt, Event
  <2>6. b.appended # 0 => ledger # <<>> /\ ledger[1] # "saver"
    <3>1. seen.lines \in 0..Len(ledger) /\ ledger \in Seq(Authors) /\ Len(ledger) \in Nat
      BY <2>3 DEF MediationInv, TypeOK
    <3>2. ASSUME Len(ledger) - seen.lines # 0 PROVE 1 \in DOMAIN ledger
      BY <3>1, <3>2
    <3> QED
      BY <2>3, <2>4, <3>1, <3>2 DEF QuietInd, LastOfLedger
  <2>7. TryRecorded(n)'
    <3>1. events'[n] = e
      BY <1>2, <2>3
    <3>2. n = Len(asked) + 2
      BY <1>0, <1>1, <2>3
    <3> QED
      BY <1>1, <2>3, <2>5, <2>6, <3>1, <3>2 DEF TryRecorded, SaysOf, BlockedAt
  <2> QED
    BY <1>0, <2>3, <2>7, EventAdded
<1> QED
  BY <1>5, <1>6, <1>7

(* The plans of save_run.                                                    *)
LEMMA PlansAdded ==
  ASSUME MediationInv, QuietInd, Growing, _collect_store_write_mediation_events
  PROVE  EventsCome' /\ EventsCollected' /\ TriesRecorded'
<1>1. PICK a, b, c, d :
        /\ a = _plan_trusted_runtime_store_write("_write_json", RunJson)
        /\ b = _plan_trusted_runtime_store_write("_write_json", ManifestJson)
        /\ c = _plan_trusted_runtime_store_write("_write_json", EvidenceJson)
        /\ d = _plan_trusted_runtime_store_write("_append_ledger_unmediated", RunJson)
  OBVIOUS
<1>2. /\ PlannedAt(a, "_write_json") /\ PlannedAt(b, "_write_json") /\ PlannedAt(c, "_write_json")
      /\ PlannedAt(d, "_append_ledger_unmediated")
  <2>1. ASSUME NEW name \in Sinks, NEW t, NEW e, e = _plan_trusted_runtime_store_write(name, t)
        PROVE  PlannedAt(e, name)
    BY <2>1 DEF _plan_trusted_runtime_store_write, PlannedAt, Sinks
  <2>2. "_write_json" \in Sinks /\ "_append_ledger_unmediated" \in Sinks
    BY DEF Sinks
  <2> QED
    BY <1>1, <2>1, <2>2
<1>3. PICK planned : planned = <<a, b, c, d>>
  OBVIOUS
<1>4. /\ events' = events \o planned /\ record' = build_store_write_mediation_metadata(events')
      /\ pc' = "run"
  BY <1>1, <1>3 DEF _collect_store_write_mediation_events
<1>5. PICK S : events \in Seq(S) /\ planned \in Seq(S)
  <2>1. events \in Seq(Event \cup {a, b, c, d})
    BY DEF MediationInv, TypeOK
  <2>2. planned \in Seq(Event \cup {a, b, c, d})
    BY <1>3
  <2> QED
    BY <2>1, <2>2
<1>6. Len(planned) = 4 /\ planned[1] = a /\ planned[2] = b /\ planned[3] = c /\ planned[4] = d
  BY <1>3
<1>7. /\ Len(events) \in Nat /\ Len(events') = Len(events) + 4
      /\ DOMAIN events = 1..Len(events) /\ DOMAIN events' = 1..(Len(events) + 4)
      /\ \A i \in 1..(Len(events) + 4) :
           events'[i] = IF i <= Len(events) THEN events[i] ELSE planned[i - Len(events)]
  <2>1. /\ Len(events) \in Nat /\ DOMAIN events = 1..Len(events)
    BY DEF MediationInv, TypeOK
  <2>2. events' \in Seq(S) /\ Len(events') = Len(events) + 4
    <3>1. events \o planned \in Seq(S) /\ Len(events \o planned) = Len(events) + Len(planned)
      BY <1>5, ConcatProperties
    <3> QED
      BY <1>4, <1>6, <3>1
  <2>3. \A i \in 1..(Len(events) + 4) :
          events'[i] = IF i <= Len(events) THEN events[i] ELSE planned[i - Len(events)]
    <3>1. \A i \in 1..(Len(events) + Len(planned)) :
            (events \o planned)[i] = IF i <= Len(events) THEN events[i] ELSE planned[i - Len(events)]
      BY <1>5, ConcatProperties
    <3> QED
      BY <1>4, <1>6, <3>1
  <2> QED
    BY <2>1, <2>2, <2>3, LenProperties
<1>8. Len(events) = Tries /\ Tries' = Tries
  <2>1. Len(events) = Tries
    BY DEF _collect_store_write_mediation_events, QuietInd, EventsCome, Tries
  <2> QED
    BY <2>1 DEF Tries, Growing
<1>9. EventsCome'
  BY <1>4 DEF EventsCome
<1>10. EventsCollected'
  <2>1. PICK n \in Nat : n = Tries /\ n = Tries' /\ n = Len(events)
    BY <1>7, <1>8
  <2>2. /\ events'[n + 1] = a /\ events'[n + 2] = b /\ events'[n + 3] = c /\ events'[n + 4] = d
    BY <1>6, <1>7, <2>1
  <2>3. ASSUME NEW i \in 1..3 PROVE PlannedAt(events'[n + i], "_write_json")
    <3>1. i = 1 \/ i = 2 \/ i = 3
      OBVIOUS
    <3> QED
      BY <1>2, <2>2, <3>1
  <2>4. PlannedAt(events'[n + 4], "_append_ledger_unmediated")
    BY <1>2, <2>2
  <2> QED
    BY <1>4, <1>7, <2>1, <2>3, <2>4 DEF EventsCollected, PlannedAt
<1>11. ASSUME NEW i \in DOMAIN events', i <= Tries' PROVE TryRecorded(i)'
  <2>1. i \in Nat /\ i > 0 /\ i \in DOMAIN events /\ events'[i] = events[i] /\ i <= Tries
    BY <1>7, <1>8, <1>11
  <2>2. TryRecorded(i)
    BY <2>1 DEF QuietInd, TriesRecorded
  <2> QED
    BY <2>1, <2>2, TryKept
<1>12. TriesRecorded'
  BY <1>11 DEF TriesRecorded
<1> QED
  BY <1>9, <1>10, <1>12

LEMMA QuietInit == Init => QuietInd
BY DEF Init, QuietInd, EventsCome, EventsCollected, Collected, TriesRecorded, LastOfLedger

LEMMA QuietStep == MediationInv /\ QuietInd /\ [Next]_vars => QuietInd'
<1> SUFFICES ASSUME MediationInv, QuietInd, [Next]_vars PROVE QuietInd'
  OBVIOUS
<1>1. Growing /\ LastOfLedger'
  BY Grows DEF QuietInd
<1>2. ASSUME UNCHANGED events,
             \/ UNCHANGED <<pc, record, altered>>
             \/ pc' = "failed"
             \/ pc \in Collected /\ pc' \in Collected /\ UNCHANGED <<record, altered>>
             \/ pc \in Collected /\ pc' \in Collected /\ altered'
      PROVE  QuietInd'
  <2>1. asked' = asked /\ Tries' = Tries
    BY <1>1 DEF Growing, Tries
  <2>2. EventsCome'
    BY <1>2, <2>1 DEF QuietInd, EventsCome, Collected
  <2>3. EventsCollected'
    BY <1>2, <2>1 DEF QuietInd, EventsCollected, Collected, PlannedAt
  <2>4. ASSUME NEW i \in DOMAIN events', i <= Tries' PROVE TryRecorded(i)'
    <3>1. TryRecorded(i) /\ i \in Nat /\ i > 0 /\ events'[i] = events[i]
      BY <1>2, <2>1, <2>4 DEF QuietInd, TriesRecorded, MediationInv, TypeOK
    <3> QED
      BY <1>1, <3>1, TryKept
  <2>5. TriesRecorded'
    BY <2>4 DEF TriesRecorded
  <2> QED
    BY <1>1, <2>2, <2>3, <2>5 DEF QuietInd
<1>3. ASSUME EventsCome' /\ EventsCollected' /\ TriesRecorded' PROVE QuietInd'
  BY <1>1, <1>3 DEF QuietInd
<1>4. CASE \/ attempt_executor_attributed_aeg_write_text
           \/ attempt_executor_omitted_declaration_aeg_write
           \/ attempt_executor_attributed_ledger_append
  BY <1>1, <1>3, <1>4, TryAdds
<1>5. CASE _collect_store_write_mediation_events
  BY <1>1, <1>3, <1>5, PlansAdded
<1>6. CASE WriteOwn \/ AppendOwn
  <2>1. pc \in Collected /\ pc' \in Collected /\ UNCHANGED <<events, record, altered>>
    BY <1>6 DEF WriteOwn, AppendOwn, Writes, Collected
  <2> QED
    BY <1>2, <2>1
<1>7. CASE Fail \/ Alter
  BY <1>2, <1>7 DEF Fail, Alter, Collected
<1>8. ASSUME NEW p \in Thread,
             \/ \E repo \in Repo : EnterTrusted(p, repo) \/ EnterExecutor(p, repo)
             \/ Exit(p) \/ Adopt(p) \/ _append_ledger_unmediated(p)
             \/ \E t \in Reach : _write_json(p, t)
      PROVE  UNCHANGED saver
  BY <1>8 DEF EnterTrusted, EnterExecutor, Exit, Adopt, _append_ledger_unmediated, _write_json
<1>9. CASE Look \/ Outside \/ UNCHANGED vars \/ UNCHANGED saver
  BY <1>2, <1>9 DEF Look, Outside, vars, saver
<1> QED
  BY <1>4, <1>5, <1>6, <1>7, <1>8, <1>9 DEF Next

(* Blocked appends, at most one, that added no line.                         *)
LEMMA NothingAppended ==
  ASSUME NEW es, NEW k,
         \A i \in Blocked(es, "_append_ledger_unmediated") : i = k /\ es[i].appended = 0
  PROVE  Appended(es) = 0
<1> DEFINE S == Blocked(es, "_append_ledger_unmediated")
           Sum(it) == [s \in SUBSET S |->
                         IF s = {} THEN 0
                         ELSE _non_negative_int(es[CHOOSE x \in s : TRUE].appended)
                              + it[s \ {CHOOSE x \in s : TRUE}]]
           sum == CHOOSE it : it = Sum(it)
<1>1. ASSUME NEW s \in SUBSET S, s # {}
      PROVE  /\ s = {k} /\ (CHOOSE x \in s : TRUE) = k
             /\ _non_negative_int(es[CHOOSE x \in s : TRUE].appended) = 0
  BY <1>1 DEF _non_negative_int
<1>2. [s \in SUBSET S |-> 0] = Sum([s \in SUBSET S |-> 0])
  BY <1>1
<1>3. sum = Sum(sum)
  BY <1>2
<1>4. Appended(es) = sum[S]
  BY DEF Appended, MapThenSumSet, MapThenFoldSet
<1> HIDE DEF sum
<1>5. sum[{}] = 0
  BY <1>3
<1>6. S # {} => sum[S] = 0 + sum[{}]
  <2> SUFFICES ASSUME S # {} PROVE sum[S] = 0 + sum[{}]
    OBVIOUS
  <2>1. S \ {CHOOSE x \in S : TRUE} = {}
    BY <1>1
  <2>2. Sum(sum)[S] = _non_negative_int(es[CHOOSE x \in S : TRUE].appended)
                       + sum[S \ {CHOOSE x \in S : TRUE}]
    OBVIOUS
  <2> QED
    BY <1>1, <1>3, <2>1, <2>2
<1> QED
  BY <1>4, <1>5, <1>6

(* What a run nobody disturbed says of it is true, and verifies.             *)
LEMMA QuietVerified ==
  ASSUME MediationInv, QuietInd, pc = "listed", ~altered,
         \A i \in DOMAIN asked : Home[asked[i].target] = Ours /\ content[asked[i].target] = None,
         content[Omitted] = None, \A i \in DOMAIN ledger : ledger[i] = "saver"
  PROVE  verify_store_write_mediation_metadata(record)
<1>1. /\ Len(asked) \in Nat /\ Len(events) \in Nat /\ DOMAIN asked = 1..Len(asked)
      /\ DOMAIN events = 1..Len(events) /\ Tries \in {0, Len(asked) + 2}
      /\ (asked = <<>> <=> Len(asked) = 0)
  <2>1. asked \in Seq(Attempt) /\ events \in Seq(Event)
    BY DEF MediationInv, TypeOK
  <2> QED
    BY <2>1, EmptySeq DEF Tries
<1>2. /\ Len(events) = Tries + 4 /\ record = build_store_write_mediation_metadata(events)
      /\ \A i \in 1..3 : PlannedAt(events[Tries + i], "_write_json")
      /\ PlannedAt(events[Tries + 4], "_append_ledger_unmediated")
  BY DEF QuietInd, EventsCollected, Collected
(* An event is one of a try that left nothing, or of a plan.                 *)
<1>3. ASSUME NEW i \in DOMAIN events
      PROVE  \/ /\ i \in 1..Tries /\ ~events[i].created
                /\ \/ BlockedAt(events[i], "_write_json") /\ ~events[i].exists
                   \/ /\ BlockedAt(events[i], "_append_ledger_unmediated") /\ i = Len(asked) + 2
                      /\ events[i].appended = 0
             \/ i \in (Tries + 1)..(Tries + 3) /\ PlannedAt(events[i], "_write_json")
             \/ i = Tries + 4 /\ PlannedAt(events[i], "_append_ledger_unmediated")
  <2>1. CASE i <= Tries
    <3>1. TryRecorded(i) /\ i \in 1..Tries
      BY <1>1, <2>1 DEF QuietInd, TriesRecorded
    <3>2. CASE i <= Len(asked)
      <4>1. BlockedAt(events[i], "_write_json") /\ SaysOf(events[i], asked[i].target)
        BY <1>1, <3>1, <3>2 DEF TryRecorded
      <4>2. content[asked[i].target] = None
        BY <1>1, <3>1, <3>2
      <4> QED
        BY <3>1, <4>1, <4>2 DEF SaysOf
    <3>3. CASE i = Len(asked) + 1
      <4>1. BlockedAt(events[i], "_write_json") /\ SaysOf(events[i], Omitted)
        BY <3>1, <3>3 DEF TryRecorded
      <4> QED
        BY <3>1, <4>1 DEF SaysOf
    <3>4. CASE i = Len(asked) + 2
      <4>1. /\ BlockedAt(events[i], "_append_ledger_unmediated") /\ ~events[i].created
            /\ events[i].appended # 0 => ledger # <<>> /\ ledger[1] # "saver"
        BY <3>1, <3>4 DEF TryRecorded
      <4>2. ledger # <<>> => 1 \in DOMAIN ledger
        <5>1. ledger \in Seq(Authors)
          BY DEF MediationInv, TypeOK
        <5> QED
          BY <5>1, EmptySeq
      <4> QED
        BY <3>1, <3>4, <4>1, <4>2
    <3> QED
      BY <1>1, <2>1, <3>2, <3>3, <3>4
  <2>2. CASE i \in (Tries + 1)..(Tries + 3)
    <3>1. i - Tries \in 1..3 /\ Tries + (i - Tries) = i
      BY <1>1, <2>2
    <3>2. PlannedAt(events[Tries + (i - Tries)], "_write_json")
      BY <1>2, <3>1, Zenon
    <3> QED
      BY <2>2, <3>1, <3>2
  <2>3. CASE i = Tries + 4
    BY <1>2, <2>3
  <2> QED
    BY <1>1, <1>2, <2>1, <2>2, <2>3
<1>4. ASSUME NEW i \in DOMAIN events PROVE _event_accepted(events[i])
  <2>1. CASE BlockedAt(events[i], "_write_json") /\ ~events[i].exists /\ ~events[i].created
    BY <2>1 DEF BlockedAt, _event_accepted, Sinks
  <2>2. CASE /\ BlockedAt(events[i], "_append_ledger_unmediated") /\ ~events[i].created
             /\ events[i].appended = 0
    BY <2>2 DEF BlockedAt, _event_accepted, _non_negative_int, Sinks
  <2>3. CASE PlannedAt(events[i], "_write_json") \/ PlannedAt(events[i], "_append_ledger_unmediated")
    BY <2>3 DEF PlannedAt, _event_accepted, Sinks
  <2> QED
    BY <1>3, <1>4, <2>1, <2>2, <2>3
<1>5. Created(events) = 0
  <2>1. {i \in Blocked(events, "_write_json") : events[i].created} = {}
    BY <1>3 DEF Blocked, PlannedAt
  <2> QED
    BY <2>1, FS_EmptySet DEF Created
<1>6. Appended(events) = 0
  <2>1. PICK k : k = Len(asked) + 2
    OBVIOUS
  <2>2. \A i \in Blocked(events, "_append_ledger_unmediated") : i = k /\ events[i].appended = 0
    BY <1>3, <2>1 DEF Blocked, PlannedAt, BlockedAt
  <2> QED
    BY <2>2, NothingAppended
<1>7. /\ {events[i].sink : i \in DOMAIN events} = Sinks
      /\ \A n \in Sinks : Trusted(events, n) # {}
  <2>1. /\ Tries + 1 \in DOMAIN events /\ events[Tries + 1].sink = "_write_json"
        /\ PlannedAt(events[Tries + 1], "_write_json")
        /\ Tries + 4 \in DOMAIN events /\ events[Tries + 4].sink = "_append_ledger_unmediated"
        /\ PlannedAt(events[Tries + 4], "_append_ledger_unmediated")
    BY <1>1, <1>2 DEF PlannedAt
  <2>2. \A i \in DOMAIN events : events[i].sink \in Sinks
    BY <1>4 DEF _event_accepted
  <2>3. /\ Tries + 1 \in Trusted(events, "_write_json")
        /\ Tries + 4 \in Trusted(events, "_append_ledger_unmediated")
    BY <2>1 DEF Trusted, PlannedAt
  <2> QED
    BY <2>1, <2>2, <2>3 DEF Sinks
<1>8. PICK s : s = build_store_adjacent_runtime_seal_metadata(
                       Blocked(events, "_write_json") # {}, Created(events), Appended(events),
                       Trusted(events, "_write_json") # {},
                       Trusted(events, "_append_ledger_unmediated") # {}, AnyUnwired(events))
  OBVIOUS
<1>9. SumsUp(record, events) /\ record.digest = expected_store_write_mediation_metadata_hash(record)
  BY <1>2, BuiltRecord
<1>10. /\ SealShaped(s) /\ s.claimed = {} /\ s.bypass = (Blocked(events, "_write_json") # {})
       /\ s.created = 0 /\ s.appended = 0 /\ s.write = (Trusted(events, "_write_json") # {})
       /\ s.ledger = (Trusted(events, "_append_ledger_unmediated") # {})
       /\ s.fallback = (IF AnyUnwired(events) THEN "RECORDED" ELSE "NONE")
       /\ s.rejected = SealRejected /\ s.fixtures = _build_rejection_fixture_records
  BY <1>5, <1>6, <1>8, BuiltSeal
<1>11. record.seal = s /\ record.events = events /\ record.unwired = AnyUnwired(events)
  BY <1>8, <1>9 DEF SumsUp
<1>12. verify_store_adjacent_runtime_seal_metadata(record.seal, record.unwired)
  <2>1. s.current = TRUE /\ s.metadata_only = TRUE /\ s.rejected = Fixture
        /\ ~_fixture_rejection_reasons(s.fixtures)
    BY <1>10, SealedRejections, FixturesRefused DEF SealShaped
  <2>2. s.write = TRUE /\ s.ledger = TRUE
    BY <1>7, <1>10 DEF Sinks
  <2> QED
    BY <1>10, <1>11, <2>1, <2>2 DEF verify_store_adjacent_runtime_seal_metadata
<1>13. _summary_accepted(record)
  <2>1. /\ record.guarded = Sinks /\ record.guarded = {events[i].sink : i \in DOMAIN events}
        /\ record.targets = Cardinality(Blocked(events, "_write_json"))
        /\ record.attempts = Len(events) /\ record.created = Created(events)
        /\ record.created = 0 /\ record.appended = Appended(events) /\ record.appended = 0
        /\ record.omitted = OmittedRejected(events)
        /\ record.blocked = AnyBlocked(events)
        /\ record.gap = (IF AnyBlocked(events) THEN "BLOCKED" ELSE "NO_ATTEMPT")
    BY <1>5, <1>6, <1>7, <1>9 DEF SumsUp
  <2>2. /\ record.direct = [n \in Sinks |-> Direct(events, n)]
        /\ record.allowed = [n \in Sinks |-> Trusted(events, n) # {}]
    BY <1>9, Zenon DEF SumsUp
  <2>3. \A n \in Sinks : record.direct[n] = Direct(events, n)
    BY <2>2, Zenon
  <2>4. \A n \in Sinks : record.allowed[n] /\ Trusted(events, n) # {}
    <3>1. \A n \in Sinks : record.allowed[n] = (Trusted(events, n) # {})
      BY <2>2, Zenon
    <3> QED
      BY <1>7, <3>1
  <2>5. AnyBlocked(events) => record.blocked /\ record.gap = "BLOCKED"
    BY <2>1
  <2> QED
    BY <1>10, <1>11, <2>1, <2>3, <2>4, <2>5 DEF _summary_accepted
<1> QED
  BY <1>4, <1>9, <1>11, <1>12, <1>13 DEF SumsUp, verify_store_write_mediation_metadata

(* A run whose files and ledger nobody else touched, and whose executor asked *)
(* for files of .aeg that are not there, verifies: the sinks, the record and *)
(* the verifier agree on what a blocked attempt looks like.                  *)
THEOREM QuietRunAlwaysVerifies == Spec => []QuietRunVerifies
<1>1. MediationInv /\ QuietInd => QuietRunVerifies
  BY QuietVerified DEF QuietRunVerifies, Verified
<1>2. Init => QuietInd
  BY QuietInit
<1>3. MediationInv /\ QuietInd /\ [Next]_vars => QuietInd'
  BY QuietStep
<1> QED
  BY <1>1, <1>2, <1>3, MediationInvariant, PTL DEF Spec

=================================================================================
