---------------------------------- MODULE Seal ----------------------------------
(***************************************************************************)
(* evidence/store_adjacent_runtime_seal.py: when a run is saved, the gate  *)
(* of Routing is tried on candidates it must refuse and on one it must     *)
(* accept, and what it said is recorded with what the write sinks did.     *)
(***************************************************************************)
EXTENDS Routing

\* Actions that read no path, in their complete form.
_valid_noop_action ==
    [typed |-> TRUE, type |-> "NOOP", shaped |-> TRUE, keys |-> {}, asks |-> FALSE,
     relative |-> TRUE, paths |-> {}, needs |-> <<"noop">>, top |-> {}, inner |-> {}]

Plainly(body) == [kind |-> "mapping", direct |-> {}, wrapped |-> FALSE, outer |-> {}, body |-> body]

\* No repo_root is given: nothing is followed.
Ingested(o) == evaluate_store_adjacent_candidate_gate(ingest_executor_output(o, None))

_self_report_packet(claim) ==
    [kind |-> "mapping", direct |-> {}, wrapped |-> TRUE, outer |-> {claim},
     body |-> _valid_noop_action]

\* Ten of the fixtures differ in the claim beside the action alone.
Fixture == {"direct_packet_submission", "executor_built_packet", "raw_store_adjacent_path",
            "unvalidated_store_adjacent_path", "denied_store_adjacent_path",
            "reported_only_store_adjacent_path"} \X {None}
           \cup {"self_report"} \X Ignorable

_EXPECTED_REJECTION_STATUSES ==
    [f \in Fixture |->
        CASE f[1] = "direct_packet_submission" -> "DIRECT_PACKET_SUBMISSION_STORE_PATH_REJECTED"
          [] f[1] = "executor_built_packet" -> "PACKET_EVIDENCE_STORE_PATH_REJECTED"
          [] f[1] = "self_report" -> "SELF_REPORTED_AUTHORITY_STORE_PATH_REJECTED"
          [] f[1] = "raw_store_adjacent_path" -> "RAW_EXECUTOR_OUTPUT_STORE_PATH_REJECTED"
          [] f[1] = "unvalidated_store_adjacent_path" -> "UNVALIDATED_ACTION_STORE_PATH_REJECTED"
          [] f[1] = "denied_store_adjacent_path" -> "DENIED_CAPABILITY_STORE_PATH_REJECTED"
          [] f[1] = "reported_only_store_adjacent_path" -> "REPORTED_ONLY_STORE_PATH_REJECTED"]

\* What the gate says of each candidate.
Tried ==
    LET runtime_packet == ingest_executor_output(Plainly(_valid_noop_action), None)
    IN  [f \in Fixture |->
            CASE f[1] = "direct_packet_submission" -> _submission_rejection({"packet"})
              [] f[1] = "executor_built_packet" ->
                   evaluate_store_adjacent_candidate_gate([runtime_packet EXCEPT !.made = FALSE])
              [] f[1] = "self_report" -> Ingested(_self_report_packet(f[2]))
              [] f[1] = "raw_store_adjacent_path" -> _submission_rejection({})
              [] f[1] = "unvalidated_store_adjacent_path" ->
                   Ingested(Plainly([_valid_noop_action EXCEPT !.shaped = FALSE]))
              [] f[1] = "denied_store_adjacent_path" ->
                   Ingested(Plainly([_valid_noop_action EXCEPT !.needs = <<"network">>]))
              [] f[1] = "reported_only_store_adjacent_path" ->
                   Ingested(Plainly([_valid_noop_action EXCEPT !.inner = Granting]))]

_build_rejection_fixture_records ==
    {[name |-> f, expected |-> _EXPECTED_REJECTION_STATUSES[f], actual |-> Tried[f].status,
      accepted |-> Tried[f].accepted] : f \in Fixture}

_fixture_rejected(records, f) ==
    \E r \in records : r.name = f /\ r.actual = _EXPECTED_REJECTION_STATUSES[f] /\ ~r.accepted

\* What the gate says of the complete action.
accepted_gate == Ingested(Plainly(_valid_noop_action))

\* rejected: the fixtures the record says were refused.  claimed: authority it
\* says the accepted candidate has, or success it says the sealing had.
build_store_adjacent_runtime_seal_metadata(bypass, created, appended, write, ledger, fallback) ==
    [current |-> TRUE,
     rejected |-> {f \in Fixture : _fixture_rejected(_build_rejection_fixture_records, f)},
     metadata_only |-> accepted_gate.accepted, claimed |-> {},
     bypass |-> bypass, created |-> created, appended |-> appended,
     write |-> write, ledger |-> ledger,
     fallback |-> IF fallback THEN "RECORDED" ELSE "NONE",
     fixtures |-> _build_rejection_fixture_records]

\* TRUE: there is a reason to refuse the fixtures of a record.
_fixture_rejection_reasons(fixtures) ==
    \/ {r.name : r \in fixtures} # Fixture
    \/ \E r \in fixtures :
          r.expected # _EXPECTED_REJECTION_STATUSES[r.name] \/ r.actual # r.expected \/ r.accepted

\* unwired: fallback_to_unwired of the record the seal is part of.  Whether the
\* bypass was refused is not looked at here.
verify_store_adjacent_runtime_seal_metadata(s, unwired) ==
    /\ s.current /\ s.rejected = Fixture /\ s.metadata_only /\ s.claimed = {}
    /\ s.created = 0 /\ s.appended = 0 /\ s.write /\ s.ledger
    /\ s.fallback = (IF unwired THEN "RECORDED" ELSE "NONE")
    /\ ~_fixture_rejection_reasons(s.fixtures)

=============================================================================
