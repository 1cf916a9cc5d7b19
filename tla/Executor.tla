-------------------------------- MODULE Executor --------------------------------
(***************************************************************************)
(* An executor's output on its way to a store-adjacent candidate.  The     *)
(* runtime ingests it into a packet, binds evidence of the packet, checks  *)
(* evidence against the packet and asks the gate.  In between, whoever     *)
(* holds the packet may build another one like it, and whoever holds the   *)
(* evidence may change it and compute its hash again.                      *)
(***************************************************************************)
EXTENDS Routing, FiniteSets

CONSTANTS
    Outputs, \* the outputs the executor may produce
    Links,   \* the ways the links of the project may lead
    MaxAlter \* bound: fields of the evidence that are changed

ASSUME OutputsAssumption == Outputs \subseteq Output

ASSUME MaxAlterAssumption == MaxAlter \in Nat

ASSUME HeardAssumption ==
    \A o \in Outputs, leads \in Links \cup {None} : [output |-> o, leads |-> leads] # None

VARIABLES
    heard,    \* the output ingested and where the names led then
    packet,   \* the packet in hand
    evidence, \* the record in hand
    changes,  \* fields of it that were changed
    answer    \* what was asked last about packet and evidence, and the answer

executorVars == <<heard, packet, evidence, changes, answer>>

ExecutorInit ==
    /\ heard = None /\ packet = None
    /\ evidence = None /\ changes = 0 /\ answer = None

-----------------------------------------------------------------------------

\* leads is None when no repo_root is given.  A wild output raises: the caller
\* has no packet.
Ingest(o, leads) ==
    /\ heard = None
    /\ heard' = [output |-> o, leads |-> leads]
    /\ packet' = IF _raw_output_hash_raises(o) THEN None ELSE ingest_executor_output(o, leads)
    /\ UNCHANGED <<evidence, changes, answer>>

\* What the holder of a packet may write over its fields.
Rewritten(p) ==
    LET allowed == [result |-> "CAPABILITY_GATE_ALLOWED", required |-> <<"noop">>,
                    schema |-> "VALID_STRUCTURED_ACTION"]
        valid == _result("VALID_STRUCTURED_ACTION", {}, "NOOP")
        upgraded == [p EXCEPT !.parse = "PARSE_OK", !.validation = valid, !.capability = allowed,
                              !.ignored = {}]
    IN  {p, upgraded, [upgraded EXCEPT !.creator = "executor"], [upgraded EXCEPT !.flags = Authority]}

\* ActionDecisionPacket called by hand, or dataclasses.replace: the marker is
\* an object of the adapter's module, and neither passes it.
Rebuild ==
    /\ packet # None /\ packet.made
    /\ packet' \in {[p EXCEPT !.made = FALSE] : p \in Rewritten(packet)}
    /\ answer' = None
    /\ UNCHANGED <<heard, evidence, changes>>

Bind ==
    /\ packet # None /\ evidence = None
    /\ evidence' = bind_action_decision_packet_evidence(packet)
    /\ UNCHANGED <<heard, packet, changes, answer>>

\* The record with one field changed for the better, or for another packet's.
Improved(e) ==
    {[e EXCEPT !.copied.creator = RUNTIME_INGRESS_ADAPTER], [e EXCEPT !.copied.built = TRUE],
     [e EXCEPT !.owned = TRUE], [e EXCEPT !.eligible = ~@], [e EXCEPT !.copied.parse = "PARSE_OK"],
     [e EXCEPT !.copied.status = "VALID_STRUCTURED_ACTION"], [e EXCEPT !.copied.valid = TRUE],
     [e EXCEPT !.copied.gate = "CAPABILITY_GATE_ALLOWED"], [e EXCEPT !.copied.ignored = {}],
     [e EXCEPT !.copied.action = NoAction], [e EXCEPT !.copied.id = None],
     [e EXCEPT !.copied.hash = None, !.copied.id = _packet_id(None)],
     [e EXCEPT !.basis_hash = None],
     [e EXCEPT !.claimed = Overclaim], [e EXCEPT !.claimed = {}],
     [e EXCEPT !.affirmed = @ \ {"capability_gate_required"}], [e EXCEPT !.current = FALSE]}

AlterEvidence(rehash) ==
    /\ evidence # None /\ changes < MaxAlter
    /\ \E e \in Improved(evidence) :
          evidence' = IF rehash
                      THEN [e EXCEPT !.digest = expected_action_decision_packet_evidence_hash(e)]
                      ELSE e
    /\ changes' = changes + 1
    /\ answer' = None
    /\ UNCHANGED <<heard, packet>>

\* given: whether the packet in hand is given with the evidence.
Check(given) ==
    /\ evidence # None
    /\ answer' = [asked |-> "verify", given |-> given,
                  accepted |-> verify_action_decision_packet_evidence(
                                   evidence, IF given THEN packet ELSE None)]
    /\ UNCHANGED <<heard, packet, evidence, changes>>

Judge ==
    /\ packet # None
    /\ answer' = [asked |-> "gate", result |-> evaluate_store_adjacent_candidate_gate(packet)]
    /\ UNCHANGED <<heard, packet, evidence, changes>>

\* The gate is handed a mapping: the output itself, or a record, or a result.
Submit ==
    /\ heard # None
    /\ \E direct \in {heard.output.direct, {"evidence", "packet"}, {"candidate"}} :
          answer' = [asked |-> "gate", result |-> _submission_rejection(direct)]
    /\ UNCHANGED <<heard, packet, evidence, changes>>

ExecutorNext ==
    \/ \E o \in Outputs, leads \in Links \cup {None} : Ingest(o, leads)
    \/ Rebuild
    \/ Bind
    \/ \E rehash \in BOOLEAN : AlterEvidence(rehash)
    \/ \E given \in BOOLEAN : Check(given)
    \/ Judge
    \/ Submit

ExecutorSpec == ExecutorInit /\ [][ExecutorNext]_executorVars

-----------------------------------------------------------------------------
(* Properties *)

\* The variables keep their kinds, and a packet comes from an output.
ExecutorTypeOK ==
    /\ changes \in 0..MaxAlter
    /\ heard # None => heard.output \in Output /\ heard.leads \in Links \cup {None}
    /\ packet # None => heard # None /\ packet.made \in BOOLEAN /\ packet.flags \subseteq Authority
    /\ evidence # None => packet # None
    /\ answer # None => heard # None /\ answer.asked \in {"verify", "gate"}

Accepted == answer # None /\ answer.asked = "gate" /\ answer.result.accepted
EvidenceAccepted == answer # None /\ answer.asked = "verify" /\ answer.accepted

\* What a candidate must have been, in the words of the output: an allowed type
\* of action, complete, with no field or request the schema forbids, no path
\* that leads out of the project, into .aeg or to a secret at the time of
\* ingestion (nor, where Path.resolve raises, around in a loop of links), no
\* capability beyond the allowed and the limited ones, and with those only paths
\* that hint at no secret.
Earned(o, leads) ==
    /\ o.kind \in {"mapping", "text"} /\ o.direct = {} /\ o.body # None
    /\ o.body.typed /\ o.body.type \in ALLOWED_ACTION_TYPES /\ o.body.shaped
    /\ o.body.keys = {} /\ ~o.body.asks
    /\ \A r \in o.body.paths : _scanned(r) =>
          /\ r.form = "relative" /\ r.name \notin Aeg \cup Secret
          /\ leads # None => leads[r.name] \in {"inside", "around"}
    /\ \A i \in DOMAIN o.body.needs :
          o.body.needs[i] \in Policy.ALLOWED_UNDER_POLICY \cup Policy.LIMITED
    /\ o.body.type \in {"PROPOSE_PATCH", "REQUEST_REPO_READ"} =>
          /\ o.body.relative
          /\ \A r \in o.body.paths :
                r.field = "path" /\ r.shape \in {"value", "list"} => r.name \notin Hinted

\* An accepted candidate was earned by the output the adapter heard, whatever
\* was done to the packet, to the evidence or to the links in between.
AcceptedIsEarned ==
    Accepted => Earned(heard.output, heard.leads)

\* The output without its claims.
Silent(o) ==
    [o EXCEPT !.outer = {},
              !.body = IF o.body = None THEN None ELSE [o.body EXCEPT !.top = {}, !.inner = {}]]

\* An executor gains nothing by vouching for itself: an accepted output says
\* nothing that the adapter or the capability gate would take for a claim, and
\* is accepted without what else it says.
SelfReportNeverHelps ==
    Accepted =>
        LET o == heard.output
        IN  /\ o.body.top \cap (Ignorable \cup Granting) = {} /\ o.body.inner \cap Granting = {}
            /\ o.wrapped => o.outer \cap Ignorable = {}
            /\ evaluate_store_adjacent_candidate_gate(
                   ingest_executor_output(Silent(o), heard.leads)).accepted

\* Accepted evidence is the evidence of the packet it is checked against, to
\* the last field, and that packet is the adapter's own: changing a field does
\* not pass even when every hash is computed again.
ForgedEvidenceRejected ==
    EvidenceAccepted =>
        /\ answer.given
        /\ packet = ingest_executor_output(heard.output, heard.leads)
        /\ evidence = bind_action_decision_packet_evidence(packet)

\* The builder and the verifier agree: the evidence of a packet of the adapter,
\* of a refused action and of an unreadable output too, is accepted.
HonestEvidenceAccepted ==
    /\ answer # None /\ answer.asked = "verify" /\ answer.given
    /\ packet.made /\ evidence = bind_action_decision_packet_evidence(packet)
    => answer.accepted

\* Two computations of one verdict: the gate accepts a packet of the adapter
\* exactly when the evidence bound to it calls it eligible.
GateMatchesEvidence ==
    packet # None /\ packet.made =>
        (evaluate_store_adjacent_candidate_gate(packet).accepted
         <=> bind_action_decision_packet_evidence(packet).eligible)

\* What holds of the adapter, the binder, the verifier and the gate together.
ExecutorInv == ExecutorTypeOK /\ ForgedEvidenceRejected /\ HonestEvidenceAccepted /\ GateMatchesEvidence

=============================================================================
