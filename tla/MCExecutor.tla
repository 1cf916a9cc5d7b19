------------------------------ MODULE MCExecutor ------------------------------
(* Outputs for Executor: each varies a few parts of an output together. *)
EXTENDS Executor

CONSTANTS File, AegFile, SecretFile, TokenFile, Away, Loop, Loud, Quiet, Spaced

MCName == {File, AegFile, SecretFile, TokenFile, Away, Loop}

\* A link out of the project, and links that go around, in older Pythons and newer.
MCLinks ==
    {[n \in MCName |->
        CASE n = Away -> "outside" [] n = Loop -> l [] n = AegFile -> "aeg" [] n = SecretFile -> "secret" [] OTHER -> "inside"]
       : l \in {"loop", "around"}}

\* What becomes of a loop matters to an output that names it: the others are followed
\* under one kind of Python.
Told ==
    heard # None /\ heard.leads # None =>
        \/ heard.leads[Loop] = "loop"
        \/ heard.output.body # None /\ \E r \in heard.output.body.paths : r.name = Loop

Plain(type) ==
    [typed |-> TRUE, type |-> type, shaped |-> TRUE, keys |-> {}, asks |-> FALSE,
     relative |-> TRUE, paths |-> {}, needs |-> <<>>, top |-> {}, inner |-> {}]

\* Types and the capabilities asked for.
Needs == {<<>>, <<"noop">>, <<"read_repo">>, <<"network">>, <<"read_env">>, <<"user_gate">>, <<"unheard">>,
          <<"noop", "filesystem_read">>, <<"repo_target_scope", "write_repo">>}

ByType ==
    {[Plain(t) EXCEPT !.needs = n] : t \in {"NOOP", "REQUEST_REPO_READ"}, n \in Needs}
    \cup {[Plain(t) EXCEPT !.needs = n] :
            t \in {"PROPOSE_PATCH", "REQUEST_RISK_CLASSIFICATION", "REQUEST_REPO_WRITE",
                   "PROVIDER_MODEL_CALL", "WRITE_FILE", "CALL_INTERNAL_FUNCTION", "UNHEARD"},
            n \in {<<>>, <<"network">>}}

\* One path, with or without a capability that is limited to the project.
ByPath ==
    {[Plain(t) EXCEPT !.paths = {r}] :
        t \in {"NOOP", "PROPOSE_PATCH"},
        r \in {x \in Reference : /\ x.form = "relative" \/ (x.form = "up" /\ x.name = File)
                                 /\ x.field = "other" => x.shape = "value"}}
    \cup {[Plain(t) EXCEPT !.relative = FALSE] : t \in {"NOOP", "PROPOSE_PATCH"}}

\* Shape, forbidden fields and requests.
ByField ==
    {[Plain("REQUEST_REPO_READ") EXCEPT !.keys = k, !.asks = q] :
        k \in SUBSET {"field", "aeg_field"}, q \in BOOLEAN}
    \cup {[Plain(t) EXCEPT !.typed = y, !.shaped = s] :
            t \in {"NOOP", "WRITE_FILE"}, y \in BOOLEAN, s \in BOOLEAN}

ByClaim ==
    {[Plain("NOOP") EXCEPT !.top = c[1], !.inner = c[2]] :
        c \in {x \in (SUBSET Claim) \X (SUBSET Claim) : Cardinality(x[1]) + Cardinality(x[2]) < 3}}

Said(kind, direct, wrapped, outer, body) ==
    [kind |-> kind, direct |-> direct, wrapped |-> wrapped, outer |-> outer, body |-> body]

MCOutputs ==
    {Said("mapping", {}, FALSE, {}, b) : b \in ByType \cup ByPath \cup ByField \cup ByClaim}
    \cup {Said("text", {}, TRUE, c, b) :
            c \in {x \in SUBSET Claim : Cardinality(x) < 2}, b \in {None} \cup {b \in ByClaim : Cardinality(b.top) + Cardinality(b.inner) < 2}}
    \cup {Said(k, d, FALSE, {}, Plain("NOOP")) :
            k \in {"mapping", "broken", "wild"}, d \in SUBSET {"evidence", "candidate", "packet"}}

=============================================================================
