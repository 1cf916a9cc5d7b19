-------------------------------- MODULE Mediation --------------------------------
(***************************************************************************)
(* Who writes under .aeg/: the sink guard of state/store.py, its two       *)
(* context variables, and save_run, which tries the writes an executor     *)
(* asked for before it makes its own.                                      *)
(*                                                                         *)
(* Threads have their own context variables.  One thread, the saver, runs  *)
(* save_run; the others enter and leave contexts as they like and write.   *)
(* Outside programs create files and append to the ledger.                 *)
(***************************************************************************)
EXTENDS StoreWriteMediation

CONSTANTS
    Thread,    \* the other threads
    Repo,      \* repositories
    Ours,      \* the one whose run is saved
    Target,    \* files
    Home,      \* Home[t]: the repository in whose .aeg a file is, None: in none
    Present,   \* the files there at first
    Omitted, RunJson, ManifestJson, EvidenceJson,  \* files of save_run
    Reach,     \* the files threads and outside programs touch
    Attempts,  \* what an executor may have asked for, sequences of attempts
    MaxOpen,   \* bound: contexts open in a thread
    MaxMade,   \* bound: capabilities
    MaxLines,  \* bound: lines in the ledger when a thread appends one
    MaxOutside \* bound: writes from outside

ASSUME TargetAssumption ==
    /\ Ours \in Repo
    /\ None \notin Repo \cup {"saver", "runtime", "executor", "foreign", "other", "attempt"}
    /\ Home \in [Target -> Repo \cup {None}]
    /\ Present \subseteq Target /\ Reach \subseteq Target
    /\ {Omitted, RunJson, ManifestJson, EvidenceJson} \subseteq {t \in Target : Home[t] = Ours} \ Present

\* An attempt: what it was aimed at, whether its author says it is the runtime.
Attempt == [target: Target, claims: BOOLEAN]

ASSUME AttemptsAssumption == Attempts \subseteq Seq(Attempt)

VARIABLES
    sink,    \* _STORE_WRITE_SINK_CONTEXT of each thread
    active,  \* _TRUSTED_STORE_WRITE_CAPABILITY_CONTEXT of each thread
    open,    \* the context managers each thread is in, with what they put back
    made,    \* the capabilities made so far
    content, \* who wrote each file
    ledger,  \* who appended each line of the ledger
    outside, \* writes from outside so far
    pc,      \* where save_run is
    asked,   \* what the executor asked for
    seen,    \* what the guard saw of the target before it decided
    events,  \* what the sinks said
    record,  \* the metadata of the run
    altered  \* somebody changed it

threads == <<sink, active, open, made>>
saver == <<pc, asked, seen, events, record, altered>>
vars == <<threads, content, ledger, outside, saver>>

Init ==
    /\ sink = [p \in Thread |-> None] /\ active = [p \in Thread |-> None]
    /\ open = [p \in Thread |-> <<>>] /\ made = {}
    /\ content = [t \in Target |-> IF t \in Present THEN "old" ELSE None]
    /\ ledger = <<>> /\ outside = 0
    /\ asked \in Attempts /\ pc = "collect"
    /\ seen = None /\ events = <<>> /\ record = None /\ altered = FALSE

-----------------------------------------------------------------------------
(* The guard *)

\* Mutant: any capability of the runtime will do, a stale one too.
_trusted_capability_is_runtime_owned_Stale(context, capability) ==
    /\ context # None /\ context.capability # None
    /\ context.capability.owner = "runtime" /\ context.capability.repo = context.repo

\* capability: the active one.  Identity: each is made with a number of its own.
_trusted_capability_is_runtime_owned(context, capability) ==
    /\ context # None /\ context.capability # None
    /\ context.capability = capability
    /\ context.capability.owner = "runtime" /\ context.capability.repo = context.repo

_sink_context_is_trusted_runtime(context, capability) ==
    /\ context # None /\ context.provenance = "trusted_runtime"
    /\ _trusted_capability_is_runtime_owned(context, capability)

\* Without a context the repository is found from the target.
_repo_root_for_sink_target(t, context) == IF context = None THEN Home[t] ELSE context.repo

\* The path is resolved: a link into .aeg is a file of .aeg.
decide_b1_aeg_integrity_guard(repo, t) == Home[t] # None /\ Home[t] = repo

\* The mediator denies every request, and what its route answers or raises
\* makes no difference: the write is blocked.
_guard_store_write_sink(t, context, capability) ==
    CASE ~decide_b1_aeg_integrity_guard(_repo_root_for_sink_target(t, context), t) ->
           "OUT_OF_SCOPE_UNCHANGED"
      [] decide_b1_aeg_integrity_guard(_repo_root_for_sink_target(t, context), t) ->
           IF _sink_context_is_trusted_runtime(context, capability)
           THEN "TRUSTED_RUNTIME_ALLOWED" ELSE "BLOCKED"

-----------------------------------------------------------------------------
(* Threads *)

Capability == [owner: {"runtime", "executor"}, repo: Repo, id: Nat]
SinkContext == [provenance: {"trusted_runtime", "executor_attributed"}, repo: Repo,
                capability: Capability \cup {None}]
Block == [trusted: BOOLEAN, repo: Repo, sink: SinkContext \cup {None},
          active: Capability \cup {None}]

Context(provenance, repo, capability) ==
    [provenance |-> provenance, repo |-> repo, capability |-> capability]

\* with _trusted_runtime_store_write_context(repo, ...)
EnterTrusted(p, repo) ==
    LET capability == [owner |-> "runtime", repo |-> repo, id |-> Cardinality(made)]
    IN  /\ Len(open[p]) < MaxOpen /\ Cardinality(made) < MaxMade
        /\ made' = made \cup {capability}
        /\ open' = [open EXCEPT ![p] = Append(@, [trusted |-> TRUE, repo |-> repo,
                                                  sink |-> sink[p], active |-> active[p]])]
        /\ sink' = [sink EXCEPT ![p] = Context("trusted_runtime", repo, capability)]
        /\ active' = [active EXCEPT ![p] = capability]
        /\ UNCHANGED <<content, ledger, outside, saver>>

\* with _executor_attributed_store_write_context(repo, ...)
EnterExecutor(p, repo) ==
    /\ Len(open[p]) < MaxOpen
    /\ open' = [open EXCEPT ![p] = Append(@, [trusted |-> FALSE, repo |-> repo,
                                              sink |-> sink[p], active |-> active[p]])]
    /\ sink' = [sink EXCEPT ![p] = Context("executor_attributed", repo, None)]
    /\ UNCHANGED <<active, made, content, ledger, outside, saver>>

\* The end of the block, or an exception out of it.
Exit(p) ==
    /\ open[p] # <<>>
    /\ LET last == open[p][Len(open[p])]
       IN  /\ sink' = [sink EXCEPT ![p] = last.sink]
           /\ active' = IF last.trusted THEN [active EXCEPT ![p] = last.active] ELSE active
    /\ open' = [open EXCEPT ![p] = SubSeq(@, 1, Len(@) - 1)]
    /\ UNCHANGED <<made, content, ledger, outside, saver>>

\* Code in the process sets the sink's context to one of its own making: with
\* no capability, with one that was lent once, or with one it made.
Adopt(p) ==
    /\ \E capability \in made \cup {None, [owner |-> "executor", repo |-> Ours, id |-> 0]} :
          sink' = [sink EXCEPT ![p] = Context("trusted_runtime", Ours, capability)]
    /\ UNCHANGED <<active, open, made, content, ledger, outside, saver>>

\* Whose write it is: the runtime's in a trusted block for the repository.
Author(p, t) ==
    CASE sink[p] # None /\ Home[t] # sink[p].repo -> "foreign"
      [] OTHER -> IF \E i \in DOMAIN open[p] : open[p][i].trusted /\ open[p][i].repo = Home[t]
                  THEN "runtime" ELSE "executor"

_write_json(p, t) ==
    /\ _guard_store_write_sink(t, sink[p], active[p]) # "BLOCKED"
    /\ content' = [content EXCEPT ![t] = Author(p, t)]
    /\ UNCHANGED <<threads, ledger, outside, saver>>

\* The ledger is in .aeg as the omitted file is.
_append_ledger_unmediated(p) ==
    /\ Len(ledger) < MaxLines
    /\ _guard_store_write_sink(Omitted, sink[p], active[p]) # "BLOCKED"
    /\ ledger' = Append(ledger, Author(p, Omitted))
    /\ UNCHANGED <<threads, content, outside, saver>>

Outside ==
    /\ outside < MaxOutside /\ outside' = outside + 1
    /\ \/ \E t \in Reach : content' = [content EXCEPT ![t] = "other"] /\ UNCHANGED ledger
       \/ ledger' = Append(ledger, "other") /\ UNCHANGED content
    /\ UNCHANGED <<threads, saver>>

-----------------------------------------------------------------------------
(* save_run *)

LookFor(t) == [exists |-> content[t] # None, lines |-> Len(ledger)]

\* The next attempt.
Turn == asked[Len(events) + 1]

\* The guard of an attempt looks at the target first.
Look ==
    /\ pc \in {"collect", "omitted", "forged"} /\ seen = None
    /\ pc = "collect" => asked # <<>>
    /\ seen' = LookFor(IF pc = "collect" THEN Turn.target ELSE Omitted)
    /\ UNCHANGED <<threads, content, ledger, outside, pc, asked, events, record, altered>>

\* The event of a write that was blocked.
BlockedEvent(name, t, claims, declared) ==
    [sink |-> name, by |-> "executor_attributed", claims |-> claims, declared |-> declared,
     owned |-> FALSE, result |-> "BLOCKED", performed |-> FALSE, exists |-> content[t] # None,
     created |-> ~seen.exists /\ content[t] # None,
     appended |-> IF name = "_write_json" THEN 0 ELSE Len(ledger) - seen.lines, unwired |-> FALSE]

\* The write of an attempt outside .aeg is made, and recorded as unexpected.
_unblocked_sink_event(claims, declared) ==
    [sink |-> "_write_json", by |-> "executor_attributed", claims |-> claims, declared |-> declared,
     owned |-> FALSE, result |-> "UNEXPECTED", performed |-> TRUE, exists |-> TRUE,
     created |-> TRUE, appended |-> 0, unwired |-> FALSE]

attempt_executor_attributed_aeg_write_text ==
    /\ pc = "collect" /\ seen # None
    /\ LET guarded == _guard_store_write_sink(
                          Turn.target, Context("executor_attributed", Ours, None), None)
       IN  IF guarded = "BLOCKED"
           THEN /\ events' = Append(events, BlockedEvent("_write_json", Turn.target, Turn.claims, TRUE))
                /\ UNCHANGED content
           ELSE /\ events' = Append(events, _unblocked_sink_event(Turn.claims, TRUE))
                /\ content' = [content EXCEPT ![Turn.target] = "attempt"]
    /\ seen' = None
    /\ pc' = IF Len(events') = Len(asked) THEN "omitted" ELSE pc
    /\ UNCHANGED <<threads, ledger, outside, asked, record, altered>>

attempt_executor_omitted_declaration_aeg_write ==
    /\ pc = "omitted" /\ seen # None
    /\ _guard_store_write_sink(Omitted, None, None) = "BLOCKED"
    /\ events' = Append(events, BlockedEvent("_write_json", Omitted, FALSE, FALSE))
    /\ seen' = None /\ pc' = "forged"
    /\ UNCHANGED <<threads, content, ledger, outside, asked, record, altered>>

attempt_executor_attributed_ledger_append ==
    /\ pc = "forged" /\ seen # None
    /\ _guard_store_write_sink(Omitted, Context("executor_attributed", Ours, None), None) = "BLOCKED"
    /\ events' = Append(events, [BlockedEvent("_append_ledger_unmediated", Omitted, TRUE, TRUE)
                                    EXCEPT !.exists = TRUE, !.created = FALSE])
    /\ seen' = None /\ pc' = "plan"
    /\ UNCHANGED <<threads, content, ledger, outside, asked, record, altered>>

\* Mutant: what exists is recorded as it is before the write.
_plan_trusted_runtime_store_write_Before(name, t) ==
    [sink |-> name, by |-> "trusted_runtime", claims |-> FALSE, declared |-> TRUE, owned |-> TRUE,
     result |-> "TRUSTED_RUNTIME_ALLOWED", performed |-> TRUE, exists |-> content[t] # None,
     created |-> IF name = "_write_json" THEN content[t] = None ELSE FALSE,
     appended |-> IF name = "_write_json" THEN 0 ELSE 1, unwired |-> FALSE]

\* Recorded before the writes are made.
_plan_trusted_runtime_store_write(name, t) ==
    [sink |-> name, by |-> "trusted_runtime", claims |-> FALSE, declared |-> TRUE, owned |-> TRUE,
     result |-> "TRUSTED_RUNTIME_ALLOWED", performed |-> TRUE, exists |-> TRUE,
     created |-> IF name = "_write_json" THEN content[t] = None ELSE FALSE,
     appended |-> IF name = "_write_json" THEN 0 ELSE 1, unwired |-> FALSE]

\* The four plans and the metadata; each looks at its own target only.
_collect_store_write_mediation_events ==
    /\ pc = "plan" \/ (pc = "collect" /\ asked = <<>>)
    /\ LET planned == <<_plan_trusted_runtime_store_write("_write_json", RunJson),
                        _plan_trusted_runtime_store_write("_write_json", ManifestJson),
                        _plan_trusted_runtime_store_write("_write_json", EvidenceJson),
                        _plan_trusted_runtime_store_write("_append_ledger_unmediated", RunJson)>>
       IN  /\ events' = events \o planned
           /\ record' = build_store_write_mediation_metadata(events')
    /\ pc' = "run"
    /\ UNCHANGED <<threads, content, ledger, outside, asked, seen, altered>>

\* One trusted block for each file, in this order.
Writes == [run |-> [target |-> RunJson, next |-> "manifest"],
           manifest |-> [target |-> ManifestJson, next |-> "evidence"],
           evidence |-> [target |-> EvidenceJson, next |-> "ledger"]]

WriteOwn ==
    /\ pc \in DOMAIN Writes
    /\ LET capability == [owner |-> "runtime", repo |-> Ours, id |-> pc]
       IN  _guard_store_write_sink(Writes[pc].target, Context("trusted_runtime", Ours, capability),
                                   capability) # "BLOCKED"
    /\ content' = [content EXCEPT ![Writes[pc].target] = "saver"]
    /\ pc' = Writes[pc].next
    /\ UNCHANGED <<threads, ledger, outside, asked, seen, events, record, altered>>

AppendOwn ==
    /\ pc = "ledger"
    /\ ledger' = Append(ledger, "saver") /\ pc' = "listed"
    /\ UNCHANGED <<threads, content, outside, asked, seen, events, record, altered>>

\* A write fails, or the process is killed: save_run does not go on.
Fail ==
    /\ pc \notin {"listed", "failed"} /\ pc' = "failed"
    /\ UNCHANGED <<threads, content, ledger, outside, asked, seen, events, record, altered>>

-----------------------------------------------------------------------------

\* The record with one field changed.
Changed(m) ==
    {[m EXCEPT !.current = FALSE], [m EXCEPT !.claimed = {"tamper_proof_claimed"}],
     [m EXCEPT !.guarded = {"_write_json"}], [m EXCEPT !.blocked = ~@], [m EXCEPT !.created = 1 - @],
     [m EXCEPT !.created = 1, !.seal.created = 1], [m EXCEPT !.appended = 1, !.seal.appended = 1],
     [m EXCEPT !.created = 0, !.seal.created = 0], [m EXCEPT !.appended = 0, !.seal.appended = 0],
     [m EXCEPT !.omitted = ~@], [m EXCEPT !.targets = @ + 1], [m EXCEPT !.attempts = @ + 1],
     [m EXCEPT !.unwired = ~@], [m EXCEPT !.unwired = TRUE, !.seal.fallback = "RECORDED"],
     [m EXCEPT !.result = "BLOCKED"], [m EXCEPT !.gap = "BLOCKED"], [m EXCEPT !.seal.bypass = ~@],
     [m EXCEPT !.seal.write = FALSE], [m EXCEPT !.seal.rejected = {}], [m EXCEPT !.seal.fixtures = {}],
     [m EXCEPT !.events = Tail(@)], [m EXCEPT !.events = SubSeq(@, 1, Len(@) - 1)],
     [m EXCEPT !.events = <<>>]}
    \cup {[m EXCEPT !.direct[s] = d] : s \in Sinks, d \in {"BLOCKED", "NO_EXECUTOR_ATTEMPT"}}
    \cup {[m EXCEPT !.allowed[s] = FALSE] : s \in Sinks}

Alter ==
    /\ pc = "listed" /\ ~altered /\ altered' = TRUE
    /\ \E m \in Changed(record) :
          record' \in {m, [m EXCEPT !.digest = expected_store_write_mediation_metadata_hash(m)]}
    /\ UNCHANGED <<threads, content, ledger, outside, pc, asked, seen, events>>

Next ==
    \/ \E p \in Thread, repo \in Repo : EnterTrusted(p, repo) \/ EnterExecutor(p, repo)
    \/ \E p \in Thread : Exit(p) \/ Adopt(p) \/ _append_ledger_unmediated(p)
    \/ \E p \in Thread, t \in Reach : _write_json(p, t)
    \/ Outside
    \/ Look
    \/ attempt_executor_attributed_aeg_write_text
    \/ attempt_executor_omitted_declaration_aeg_write
    \/ attempt_executor_attributed_ledger_append
    \/ _collect_store_write_mediation_events
    \/ WriteOwn
    \/ AppendOwn
    \/ Fail
    \/ Alter

Spec == Init /\ [][Next]_vars

-----------------------------------------------------------------------------
(* Properties *)

Authors == {"saver", "runtime", "executor", "foreign", "other"}

\* The variables keep their kinds.  A sink never counts fewer ledger lines after
\* it was tried than before: the ledger only grows.
TypeOK ==
    /\ made \subseteq Capability /\ IsFiniteSet(made)
    /\ sink \in [Thread -> SinkContext \cup {None}]
    /\ active \in [Thread -> made \cup {None}] /\ open \in [Thread -> Seq(Block)]
    /\ content \in [Target -> Authors \cup {None, "old", "attempt"}]
    /\ ledger \in Seq(Authors)
    /\ asked \in Seq(Attempt)
    /\ seen # None => seen \in [exists: BOOLEAN, lines: 0..Len(ledger)]
    /\ events \in Seq(Event) /\ \A i \in DOMAIN events : events[i].appended >= 0
    /\ pc \in {"collect", "omitted", "forged", "plan", "run", "manifest", "evidence", "ledger",
               "listed", "failed"}
    /\ pc = "collect" => IF asked = <<>> THEN seen = None ELSE Len(events) < Len(asked)

\* Nothing an executor wrote is under .aeg, and no line of the ledger is its:
\* not after a trusted block was left, nested in another, or abandoned with an
\* exception, and not with a capability that was lent once or made by hand.
\* (A context of another repository does reach it: its files are "foreign".)
NoExecutorContentInAeg ==
    /\ \A t \in Target : /\ Home[t] # None => content[t] # "executor"
                         /\ Home[t] = Ours => content[t] # "attempt"
    /\ \A i \in DOMAIN ledger : ledger[i] # "executor"

\* The capability that is in force in the first n blocks a thread is in, of
\* those that were lent.
InForce(blocks, n, capability, lent) ==
    \/ capability = None /\ \A i \in 1..n : ~blocks[i].trusted
    \/ /\ capability \in lent
       /\ \E i \in 1..n : /\ blocks[i].trusted /\ capability.repo = blocks[i].repo
                          /\ \A j \in (i + 1)..n : ~blocks[j].trusted

\* The capability in force is one made for the repository of the innermost
\* trusted block, whatever was entered and left around it, and there is none
\* outside of all of them; each block puts back what was in force before it.
ActiveIsInnermost ==
    \A p \in Thread :
        /\ InForce(open[p], Len(open[p]), active[p], made)
        /\ \A i \in DOMAIN open[p] : open[p][i].trusted =>
             InForce(open[p], i - 1, open[p][i].active, made)

\* An attempt that went through is among the events, as unexpected, and the
\* record has the events.
AttemptsAreRecorded ==
    /\ (\E t \in Target : content[t] = "attempt") =>
          \E i \in DOMAIN events : events[i].by = "executor_attributed"
                                  /\ events[i].result = "UNEXPECTED"
    /\ pc \in {"run", "manifest", "evidence", "ledger", "listed"} /\ ~altered =>
          record.events = events

\* What holds at any moment of every thread and of save_run.
MediationInv ==
    TypeOK /\ ActiveIsInnermost /\ NoExecutorContentInAeg /\ AttemptsAreRecorded

Verified == pc = "listed" /\ verify_store_write_mediation_metadata(record)

\* A run nobody disturbed verifies: the sinks and the verifier agree on what an
\* attempt at an absent file of .aeg looks like.
QuietRunVerifies ==
    /\ pc = "listed" /\ ~altered
    /\ \A i \in DOMAIN asked : Home[asked[i].target] = Ours /\ content[asked[i].target] = None
    /\ content[Omitted] = None /\ \A i \in DOMAIN ledger : ledger[i] = "saver"
    => Verified

\* What a verified record says beyond its events follows from its events, with
\* every hash computed again too.  Left out are the fields the verifier does not
\* compare: the result, and blocked and the gap in a run without a blocked write.
AcceptedFollowsFromEvents ==
    Verified =>
        \A f \in DOMAIN record \
                  (IF AnyBlocked(record.events) THEN {"result", "digest"}
                   ELSE {"result", "blocked", "gap", "digest"}) :
            record[f] = Summed(record.events)[f]

\* When an attempt went through, to a file outside .aeg or in the .aeg of
\* another repository, the run does not verify.
AcceptedRunWroteNothing ==
    Verified /\ ~altered => \A t \in Target : content[t] # "attempt"

=============================================================================
