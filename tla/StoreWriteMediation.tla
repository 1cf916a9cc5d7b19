--------------------------- MODULE StoreWriteMediation ---------------------------
(***************************************************************************)
(* evidence/store_write_mediation.py: what a saved run says about the      *)
(* writes under .aeg/, built from the events of the write sinks and        *)
(* verified from its own fields.                                           *)
(*                                                                         *)
(* The fields of a record that repeat a constant are one field, current;   *)
(* those that must not be true are the set claimed.                        *)
(***************************************************************************)
EXTENDS Seal, FiniteSets, FiniteSetsExt

Sinks == {"_append_ledger_unmediated", "_write_json"}

\* by: whom the runtime attributes the write to.  claims: the executor says it
\* is the trusted runtime.  declared: there was a context.  owned: its
\* capability is the runtime's.  exists, created: the target afterwards.
\* appended: entries the ledger gained meanwhile.
Event == [sink: Sinks, by: {"trusted_runtime", "executor_attributed"}, claims: BOOLEAN,
          declared: BOOLEAN, owned: BOOLEAN,
          result: {"BLOCKED", "TRUSTED_RUNTIME_ALLOWED", "OUT_OF_SCOPE_UNCHANGED", "UNEXPECTED"},
          performed: BOOLEAN, exists: BOOLEAN, created: BOOLEAN, appended: Int, unwired: BOOLEAN]

-----------------------------------------------------------------------------

Blocked(events, sink) ==
    {i \in DOMAIN events : events[i].result = "BLOCKED" /\ events[i].sink = sink}

Trusted(events, sink) ==
    {i \in DOMAIN events : /\ events[i].by = "trusted_runtime" /\ events[i].sink = sink
                           /\ events[i].result = "TRUSTED_RUNTIME_ALLOWED"}

AnyBlocked(events) == \E sink \in Sinks : Blocked(events, sink) # {}
AnyTrusted(events) == \E sink \in Sinks : Trusted(events, sink) # {}
AnyUnwired(events) == \E i \in DOMAIN events : events[i].unwired

Created(events) ==
    Cardinality({i \in Blocked(events, "_write_json") : events[i].created})

_non_negative_int(n) == IF n >= 0 THEN n ELSE 0

Appended(events) ==
    MapThenSumSet(LAMBDA i : _non_negative_int(events[i].appended),
                  Blocked(events, "_append_ledger_unmediated"))

OmittedRejected(events) ==
    \E i \in DOMAIN events : ~events[i].declared /\ events[i].result = "BLOCKED"

Direct(events, sink) == IF Blocked(events, sink) # {} THEN "BLOCKED" ELSE "NO_EXECUTOR_ATTEMPT"

_summary_result_and_reason(events) ==
    CASE AnyUnwired(events) -> "FALLBACK_TO_UNWIRED"
      [] ~AnyUnwired(events) /\ AnyBlocked(events) -> "BLOCKED"
      [] ~AnyUnwired(events) /\ ~AnyBlocked(events) ->
           IF AnyTrusted(events) THEN "TRUSTED_RUNTIME_ALLOWED" ELSE "NO_STORE_WRITE_ATTEMPT"

\* Everything but the hash, which covers it.  The seal's fields are among those
\* of the record.
expected_store_write_mediation_metadata_hash(m) == [m EXCEPT !.digest = None]

\* The record before its hash is taken.
Summed(events) ==
    [current |-> TRUE, claimed |-> {}, guarded |-> {events[i].sink : i \in DOMAIN events},
     blocked |-> AnyBlocked(events),
     direct |-> [sink \in Sinks |-> Direct(events, sink)],
     created |-> Created(events), appended |-> Appended(events),
     allowed |-> [sink \in Sinks |-> Trusted(events, sink) # {}],
     omitted |-> OmittedRejected(events),
     targets |-> Cardinality(Blocked(events, "_write_json")), attempts |-> Len(events),
     result |-> _summary_result_and_reason(events), unwired |-> AnyUnwired(events),
     gap |-> IF AnyBlocked(events) THEN "BLOCKED" ELSE "NO_ATTEMPT",
     seal |-> build_store_adjacent_runtime_seal_metadata(
                  Blocked(events, "_write_json") # {}, Created(events), Appended(events),
                  Trusted(events, "_write_json") # {},
                  Trusted(events, "_append_ledger_unmediated") # {}, AnyUnwired(events)),
     events |-> events, digest |-> None]

build_store_write_mediation_metadata(events) ==
    [Summed(events) EXCEPT
        !.digest = expected_store_write_mediation_metadata_hash(Summed(events))]

\* Mutant: what is known of the executor's writes is not asked of the others.
_event_accepted_Unexpected(e) ==
    /\ e.sink \in Sinks
    /\ e.claims => e.by = "executor_attributed"
    /\ e.by = "executor_attributed" /\ e.result = "BLOCKED" =>
          /\ ~e.performed /\ ~e.created /\ ~e.unwired
          /\ IF e.sink = "_write_json" THEN ~e.exists ELSE _non_negative_int(e.appended) = 0
    /\ e.by = "trusted_runtime" =>
          /\ e.result = "TRUSTED_RUNTIME_ALLOWED" /\ e.performed /\ e.owned /\ e.exists
          /\ e.sink = "_append_ledger_unmediated" => e.appended > 0

\* A blocked write left nothing behind; a trusted one was made.
_event_accepted(e) ==
    /\ e.sink \in Sinks
    /\ e.claims => e.by = "executor_attributed"
    /\ e.by = "executor_attributed" =>
          /\ e.result \in {"BLOCKED", "OUT_OF_SCOPE_UNCHANGED"}
          /\ e.result = "BLOCKED" =>
                /\ ~e.performed /\ ~e.created /\ ~e.unwired
                /\ IF e.sink = "_write_json" THEN ~e.exists ELSE _non_negative_int(e.appended) = 0
    /\ e.by = "trusted_runtime" =>
          /\ e.result = "TRUSTED_RUNTIME_ALLOWED" /\ e.performed /\ e.owned /\ e.exists
          /\ e.sink = "_append_ledger_unmediated" => e.appended > 0

\* Mutant: the events are not counted.
_summary_accepted_Counts(m) ==
    /\ m.guarded = Sinks /\ m.guarded = {m.events[i].sink : i \in DOMAIN m.events}
    /\ m.created = Created(m.events) /\ m.seal.created = m.created
    /\ m.appended = Appended(m.events) /\ m.seal.appended = m.appended
    /\ m.result = "BLOCKED" => m.created = 0
    /\ \A sink \in Sinks : m.direct[sink] = Direct(m.events, sink)
    /\ m.seal.bypass = (Blocked(m.events, "_write_json") # {})
    /\ AnyBlocked(m.events) => m.blocked /\ m.gap = "BLOCKED"
    /\ \A sink \in Sinks : m.allowed[sink] /\ Trusted(m.events, sink) # {}
    /\ m.seal.write = (Trusted(m.events, "_write_json") # {})
    /\ m.seal.ledger = (Trusted(m.events, "_append_ledger_unmediated") # {})
    /\ m.unwired = AnyUnwired(m.events) /\ m.omitted = OmittedRejected(m.events)

\* The record's own sums against its events.  The result is only refused when
\* it says BLOCKED beside a file that was created; blocked and gap may say more
\* than the events when the events have no blocked write.
_summary_accepted(m) ==
    /\ m.guarded = Sinks /\ m.guarded = {m.events[i].sink : i \in DOMAIN m.events}
    /\ m.targets = Cardinality(Blocked(m.events, "_write_json")) /\ m.attempts = Len(m.events)
    /\ m.created = Created(m.events) /\ m.seal.created = m.created
    /\ m.appended = Appended(m.events) /\ m.seal.appended = m.appended
    /\ m.result = "BLOCKED" => m.created = 0
    /\ \A sink \in Sinks : m.direct[sink] = Direct(m.events, sink)
    /\ m.seal.bypass = (Blocked(m.events, "_write_json") # {})
    /\ AnyBlocked(m.events) => m.blocked /\ m.gap = "BLOCKED"
    /\ \A sink \in Sinks : m.allowed[sink] /\ Trusted(m.events, sink) # {}
    /\ m.seal.write = (Trusted(m.events, "_write_json") # {})
    /\ m.seal.ledger = (Trusted(m.events, "_append_ledger_unmediated") # {})
    /\ m.unwired = AnyUnwired(m.events) /\ m.omitted = OmittedRejected(m.events)

verify_store_write_mediation_metadata(m) ==
    /\ m.current /\ m.claimed = {}
    /\ _summary_accepted(m)
    /\ \A i \in DOMAIN m.events : _event_accepted(m.events[i])
    /\ verify_store_adjacent_runtime_seal_metadata(m.seal, m.unwired)
    /\ m.digest = expected_store_write_mediation_metadata_hash(m)

=============================================================================
