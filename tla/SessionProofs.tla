---------------------------- MODULE SessionProofs ----------------------------
(***************************************************************************)
(* Theorems about Session, for every project, policy and set of calls.     *)
(***************************************************************************)
EXTENDS Session, TLAPS

\* A path that normalisation makes plain opens the place it is given as the
\* name of, in the project.
LEMMA Normalized ==
    ASSUME NEW p \in Path, NEW w \in World,
           _normalize_repo_internal_path(p, w).form = "plain"
    PROVE  /\ p.form \in {"plain", "absolute"}
           /\ Opens(p, w) = w.to[p.name]
           /\ _normalize_repo_internal_path(p, w).name = w.to[p.name]
           /\ w.to[p.name] \in Places \ Outside
<1>1. p.form \notin {"up", "home"} /\ w.to[p.name] \notin Outside
  BY DEF _normalize_repo_internal_path, Path
<1>2. _normalize_repo_internal_path(p, w) = [name |-> w.to[p.name], form |-> "plain"]
  BY <1>1 DEF _normalize_repo_internal_path
<1>3. w.to[p.name] \in Places
  BY DEF Path, World
<1> QED
  BY <1>1, <1>2, <1>3 DEF Opens, Path

\* A read-like call with all its fields that is not denied opens nothing that is barred.
LEMMA ReadsSpare ==
    ASSUME NEW c \in FileCall, NEW policy, NEW w \in World,
           c.tool \in ReadLike, c.complete, ~Denies(c, policy, w)
    PROVE  Read(c, w) \cap ReadBarred(policy) = {}
<1>1. CandidateStatus(c, policy, w) # "DENY_CANDIDATE"
  <2>1. ~_command_approved_by_policy(c, policy, w)
    BY DEF _command_approved_by_policy, ReadLike, CommandTools
  <2> QED
    BY <2>1 DEF Denies
<1>2. ASSUME NEW p \in c.paths PROVE Opens(p, w) \notin ReadBarred(policy)
  <2> DEFINE q == _normalize_repo_internal_path(p, w)
  <2>1. ~_path_denial_reason(q, policy, TRUE)
    <3>1. MappedPaths(c, w) = {_normalize_repo_internal_path(r, w) : r \in c.paths}
      BY DEF MappedPaths, ReadLike
    <3>2. q \in MappedPaths(c, w)
      BY <3>1
    <3>3. ~ \E r \in MappedPaths(c, w) : _path_denial_reason(r, policy, c.tool \in ReadLike)
      BY <1>1 DEF CandidateStatus, ReadLike
    <3> QED
      BY <3>2, <3>3
  <2>2. q.form = "plain" /\ q.name \notin State /\ ~is_read_protected_path(q.name, policy)
    BY <2>1 DEF _path_denial_reason
  <2>3. p \in Path
    BY DEF FileCall
  <2>4. Opens(p, w) = q.name /\ q.name \notin Outside
    BY <2>2, <2>3, Normalized
  <2> QED
    BY <2>2, <2>4 DEF ReadBarred, is_read_protected_path
<1>3. ReadPaths(c) = c.paths
  BY DEF ReadPaths, ReadLike, CommandTools
<1> QED
  BY <1>2, <1>3 DEF Read

\* A write-like call with all its fields that is not denied opens nothing that
\* is barred to writing.
LEMMA WritesSpare ==
    ASSUME NEW c \in FileCall, NEW policy, NEW w \in World,
           c.tool \in WriteLike, c.complete, ~Denies(c, policy, w)
    PROVE  /\ Written(c, w) \cap WriteBarred(policy) = {}
           /\ c.tool # "apply_patch" => Written(c, w) \cap Runtime = {}
<1>1. CandidateStatus(c, policy, w) # "DENY_CANDIDATE"
  <2>1. ~_command_approved_by_policy(c, policy, w)
    BY DEF _command_approved_by_policy, WriteLike, CommandTools
  <2> QED
    BY <2>1 DEF Denies
<1>2. \A r \in MappedPaths(c, w) : ~_path_denial_reason(r, policy, FALSE)
  <2>1. (c.tool \in ReadLike) = FALSE
    BY DEF WriteLike, ReadLike
  <2>2. ~ \E r \in MappedPaths(c, w) : _path_denial_reason(r, policy, c.tool \in ReadLike)
    BY <1>1 DEF CandidateStatus, WriteLike
  <2> QED
    BY <2>1, <2>2
<1>3. ASSUME NEW p \in c.paths
      PROVE  /\ Opens(p, w) \in Places \ Outside
             /\ ~is_protected_path(Opens(p, w), policy)
             /\ c.tool # "apply_patch" => Opens(p, w) \notin Runtime
  <2> DEFINE q == _normalize_repo_internal_path(p, w)
  <2>1. p \in Path
    BY DEF FileCall
  <2>2. CASE c.tool = "apply_patch" /\ p.form # "absolute"
    <3>1. p \in MappedPaths(c, w)
      BY <2>2 DEF MappedPaths
    <3>2. p.form = "plain"
      BY <3>1, <1>2 DEF _path_denial_reason
    <3>3. q \in _target_paths(c, w)
      <4>1. _patch_target(p, c, w) = q
        BY <2>2 DEF _patch_target
      <4> QED
        BY <4>1, <2>2, c.complete DEF _target_paths
    <3>4. Opens(p, w) = w.to[p.name] /\ w.to[p.name] \in Places
      BY <2>1, <3>2 DEF Opens, Path, World
    <3>5. w.to[p.name] \notin Outside
      <4>1. SUFFICES ASSUME w.to[p.name] \in Outside PROVE FALSE
        OBVIOUS
      <4>2. q = [p EXCEPT !.form = "absolute"]
        BY <3>2, <4>1 DEF _normalize_repo_internal_path
      <4>3. Resolved(q, w) = {w.to[p.name]}
        BY <2>1, <4>2 DEF Resolved, Path
      <4>4. _repo_boundary_denies(c, w)
        BY <3>3, <4>1, <4>3 DEF _repo_boundary_denies
      <4> QED
        BY <4>4 DEF Denies
    <3>6. q = [name |-> w.to[p.name], form |-> "plain"]
      BY <3>2, <3>5 DEF _normalize_repo_internal_path
    <3>7. ~is_protected_path(q.name, policy)
      <4>1. ~_protected_path_gate(c, policy, w)
        BY DEF Denies
      <4> QED
        BY <4>1, <3>3, <2>2 DEF _protected_path_gate, ReadLike
    <3> QED
      BY <2>2, <3>4, <3>5, <3>6, <3>7
  <2>3. CASE ~(c.tool = "apply_patch" /\ p.form # "absolute")
    <3>1. q \in MappedPaths(c, w)
      BY <2>3 DEF MappedPaths
    <3>2. q.form = "plain" /\ ~is_protected_path(q.name, policy)
      BY <3>1, <1>2 DEF _path_denial_reason
    <3>3. Opens(p, w) = q.name /\ q.name \in Places \ Outside
      BY <2>1, <3>2, Normalized
    <3>4. ASSUME c.tool # "apply_patch" PROVE q.name \notin Runtime
      <4>1. q \in _target_paths(c, w)
        <5>1. c.tool \in {"Write", "Edit"}
          BY <3>4 DEF WriteLike
        <5>2. _target_paths(c, w) = {_normalize_repo_internal_path(r, w) : r \in c.paths}
          BY <5>1 DEF _target_paths
        <5> HIDE DEF q
        <5>3. \A r \in c.paths : _normalize_repo_internal_path(r, w) \in _target_paths(c, w)
          BY <5>2
        <5> QED
          BY <5>3 DEF q
      <4>2. Resolved(q, w) = {q.name}
        <5>1. q.name = w.to[p.name] /\ p.name \in Places
          BY <2>1, <3>2, Normalized DEF Path
        <5>2. w.to[q.name] = q.name
          BY <5>1 DEF World
        <5> QED
          BY <3>2, <5>2 DEF Resolved
      <4>3. c.tool \notin ReadLike
        BY DEF WriteLike, ReadLike
      <4>4. ~_protected_path_gate(c, policy, w)
        BY DEF Denies
      <4> QED
        BY <4>1, <4>2, <4>3, <4>4 DEF _protected_path_gate
    <3> QED
      BY <3>2, <3>3, <3>4
  <2> QED
    BY <2>2, <2>3
<1>4. WrittenPaths(c) = c.paths
  BY DEF WrittenPaths, WriteLike, CommandTools
<1>5. Written(c, w) = {Opens(p, w) : p \in c.paths}
  BY <1>4 DEF Written
<1>6. \A n \in Written(c, w) : n \notin WriteBarred(policy)
  <2>1. \A n : is_protected_path(n, policy) \/ n \notin Guard
    BY DEF is_protected_path
  <2> QED
    BY <1>3, <1>5, <2>1 DEF WriteBarred
<1> QED
  BY <1>3, <1>5, <1>6

\* A command that is not denied opens nothing that is barred to writing,
\* approved or not.
LEMMA CommandWritesSpare ==
    ASSUME NEW c \in CommandCall, NEW policy, NEW w \in World,
           c.complete, ~Denies(c, policy, w)
    PROVE  /\ Written(c, w) \cap WriteBarred(policy) = {}
           /\ Written(c, w) \cap Runtime = {}
<1>1. c.tool \in CommandTools
  BY DEF CommandCall
<1>2. ASSUME NEW p \in c.parse.writes
      PROVE  Opens(p, w) \notin WriteBarred(policy) \cup Runtime
  <2>1. ~_write_delete_target_gate(c, policy, w)
    BY <1>1 DEF Denies
  <2>2. _classify_command_target(p, policy, w) = "safe_in_repo"
    BY <2>1 DEF _write_delete_target_gate
  <2>3. /\ p.form # "home" /\ w.to[p.name] \notin Outside \cup Runtime
        /\ ~is_protected_path(w.to[p.name], policy)
    BY <2>2 DEF _classify_command_target, _classify_resolved
  <2> QED
    BY <2>3 DEF Opens, WriteBarred, is_protected_path
<1>3. WrittenPaths(c) = c.parse.writes
  BY <1>1 DEF WrittenPaths, WriteLike, CommandTools
<1>4. Written(c, w) \subseteq {Opens(p, w) : p \in c.parse.writes}
  BY <1>3 DEF Written
<1> QED
  BY <1>2, <1>4

\* What decides about a path of a command: one that is neither in the project
\* nor plain is out of scope, one that opens the state or a secret is that.
LEMMA CommandTargets ==
    ASSUME NEW p \in Path, NEW w \in World, NEW policy,
           _classify_command_target(p, policy, w) \in {"safe_in_repo", "protected_path"}
    PROVE  /\ Opens(p, w) = w.to[p.name]
           /\ Opens(p, w) \notin ReadBarred(policy)
<1>1. /\ p.form # "home" /\ w.to[p.name] \notin Outside
      /\ ~is_secret_path(w.to[p.name], policy) /\ w.to[p.name] \notin State
  BY DEF _classify_command_target, _classify_resolved
<1> QED
  BY <1>1 DEF Opens, ReadBarred

\* A command in the read grammar that the rules allow opens nothing that is
\* barred to reading.
LEMMA ShellReadsSpare ==
    ASSUME NEW c \in CommandCall, NEW policy, NEW w \in World, _shell_read_allows(c, policy, w)
    PROVE  Read(c, w) \cap ReadBarred(policy) = {}
<1> DEFINE kind(p) == _classify_command_target(p, policy, w)
           opened == c.parse.files \cup c.parse.trees \cup c.parse.compared
<1>1. c.tool \in CommandTools /\ ReadVerdicts(c, policy, w) \subseteq {"readable"}
  BY DEF _shell_read_allows, Classified
<1>2. ASSUME NEW p \in opened PROVE kind(p) \in {"safe_in_repo", "protected_path"}
  <2>0. kind(p) # "readable"
    BY DEF _classify_command_target, _classify_resolved
  <2>1. CASE p \in c.parse.files
    <3>1. {file_verdict(r, policy, w) : r \in c.parse.files} \subseteq ReadVerdicts(c, policy, w)
      BY DEF ReadVerdicts
    <3>2. file_verdict(p, policy, w) = "readable"
      BY <1>1, <2>1, <3>1
    <3> QED
      BY <2>0, <3>2 DEF file_verdict
  <2>2. CASE p \in c.parse.trees \cup c.parse.compared
    <3>1. {tree_verdict(r, policy, w) : r \in c.parse.trees \cup c.parse.compared} \subseteq ReadVerdicts(c, policy, w)
      BY DEF ReadVerdicts
    <3>2. tree_verdict(p, policy, w) = "readable"
      BY <1>1, <2>2, <3>1
    <3> QED
      BY <2>0, <3>2 DEF tree_verdict
  <2> QED
    BY <2>1, <2>2
<1>3. opened \subseteq Path
  BY DEF CommandCall, Parse
<1>4. Read(c, w) \subseteq {Opens(p, w) : p \in opened}
  <2>1. ReadPaths(c) = opened
    BY <1>1 DEF ReadPaths, ReadLike, CommandTools
  <2> QED
    BY <2>1 DEF Read
<1> QED
  BY <1>2, <1>3, <1>4, CommandTargets

\* What the rules allow, and not the policy's approval, spares what is barred.
LEMMA AllowedSpares ==
    ASSUME NEW c \in Call, NEW f, NEW w \in World,
           judge_pretooluse_with_aeg_engine(c, f, w) = "ALLOW",
           ~_command_approved_by_policy(c, load_hook_policy(f, c.folder, w), w)
    PROVE  Spares(c, f, w)
<1> DEFINE policy == load_hook_policy(f, c.folder, w)
<1>1. c.tool # "unsupported" /\ ~Denies(c, policy, w) /\ Allows(c, policy, w)
  BY DEF judge_pretooluse_with_aeg_engine, _collapse_engine_decision
<1>2. c \in FileCall \cup CommandCall
  BY <1>1 DEF Call, InvalidCall
<1> HIDE DEF policy
<1>3. CASE c \in FileCall /\ ~c.complete
  <2>1. Written(c, w) = {} /\ Read(c, w) = {}
    BY <1>3 DEF Written, Read
  <2> QED
    BY <2>1 DEF Spares
<1>4. CASE c \in FileCall /\ c.complete /\ c.tool \in ReadLike
  <2>1. Read(c, w) \cap ReadBarred(policy) = {}
    BY <1>1, <1>4, ReadsSpare
  <2>2. Written(c, w) = {}
    BY <1>4 DEF Written, WrittenPaths, ReadLike, WriteLike, CommandTools
  <2> QED
    BY <2>1, <2>2 DEF Spares, policy
<1>5. CASE c \in FileCall /\ c.complete /\ c.tool \in WriteLike
  <2>1. /\ Written(c, w) \cap WriteBarred(policy) = {}
        /\ c.tool # "apply_patch" => Written(c, w) \cap Runtime = {}
    BY <1>1, <1>5, WritesSpare
  <2>2. Read(c, w) = {}
    BY <1>5 DEF Read, ReadPaths, ReadLike, WriteLike, CommandTools
  <2> QED
    BY <2>1, <2>2 DEF Spares, policy
<1>6. CASE c \in CommandCall
  <2>1. _shell_read_allows(c, policy, w)
    <3>1. c.tool \notin ReadLike \cup WriteLike
      BY <1>6 DEF CommandCall, CommandTools, ReadLike, WriteLike
    <3> QED
      BY <1>1, <3>1 DEF Allows, _is_clearly_safe_normal_file_operation, policy
  <2>2. Read(c, w) \cap ReadBarred(policy) = {}
    BY <1>6, <2>1, ShellReadsSpare
  <2>3. c.tool \in CommandTools /\ c.complete
    BY <2>1 DEF _shell_read_allows, Classified
  <2>4. /\ Written(c, w) \cap WriteBarred(policy) = {}
        /\ Written(c, w) \cap Runtime = {}
    BY <1>1, <1>6, <2>3, CommandWritesSpare
  <2> QED
    BY <2>2, <2>4 DEF Spares, policy
<1> QED
  BY <1>2, <1>3, <1>4, <1>5, <1>6 DEF FileCall

\* A call that writes the guard or leaves the project is denied.
LEMMA GuardDenied ==
    ASSUME NEW c \in Call \ InvalidCall, NEW f, NEW w \in World,
           Written(c, w) \cap (Guard \cup Outside) # {}
    PROVE  judge_pretooluse_with_aeg_engine(c, f, w) = "DENY"
<1> DEFINE policy == load_hook_policy(f, c.folder, w)
<1>1. c.tool # "unsupported"
  BY DEF Call, FileCall, CommandCall, ReadLike, WriteLike, CommandTools
<1>2. Denies(c, policy, w)
  <2> HIDE DEF policy
  <2>1. SUFFICES ASSUME ~Denies(c, policy, w) PROVE Written(c, w) \cap WriteBarred(policy) = {}
    BY DEF WriteBarred
  <2>2. CASE ~c.complete
    BY <2>2 DEF Written
  <2>3. CASE c \in FileCall /\ c.complete /\ c.tool \in WriteLike
    BY <2>1, <2>3, WritesSpare
  <2>4. CASE c \in FileCall /\ c.tool \in ReadLike
    BY <2>4 DEF Written, WrittenPaths, ReadLike, WriteLike, CommandTools
  <2>5. CASE c \in CommandCall /\ c.complete
    BY <2>1, <2>5, CommandWritesSpare
  <2> QED
    BY <2>2, <2>3, <2>4, <2>5 DEF Call, FileCall
<1> QED
  BY <1>1, <1>2 DEF judge_pretooluse_with_aeg_engine, _collapse_engine_decision

-----------------------------------------------------------------------------

\* A file that comes or goes changes neither what paths open nor what is barred.
LEMMA KindsDoNotMatter ==
    ASSUME NEW c \in Calls, NEW f, NEW v \in World, NEW w \in World,
           v.to = w.to, v.programs = w.programs, Spares(c, f, w)
    PROVE  Spares(c, f, v)
<1>1. load_hook_policy(f, c.folder, v) = load_hook_policy(f, c.folder, w)
  BY DEF load_hook_policy
<1>2. \A p : Opens(p, v) = Opens(p, w)
  BY DEF Opens
<1>3. Written(c, v) = Written(c, w) /\ Read(c, v) = Read(c, w)
  BY <1>2 DEF Written, Read
<1> QED
  BY <1>1, <1>3 DEF Spares

SessionInv == TypeOK /\ AllowedCallsSpare

LEMMA SessionInvInit == Init => SessionInv
<1> SUFFICES ASSUME Init PROVE SessionInv
  OBVIOUS
<1>1. TypeOK
  BY SessionAssumption DEF Init, TypeOK
<1>2. AllowedCallsSpare
  BY SessionAssumption DEF Init, AllowedCallsSpare
<1> QED
  BY <1>1, <1>2 DEF SessionInv

LEMMA SessionInvNext == SessionInv /\ [Next]_vars => SessionInv'
<1> SUFFICES ASSUME SessionInv, [Next]_vars PROVE SessionInv'
  OBVIOUS
<1> USE SessionAssumption DEF SessionInv, TypeOK
<1>1. ASSUME NEW a \in Agents, NEW c \in Calls, Submit(a, c) PROVE SessionInv'
  <2>1. TypeOK'
    BY <1>1 DEF Submit
  <2>2. ASSUME NEW b \in Agents, held'[b] \in Calls PROVE Spares(held'[b], file, world)
    <3>1. CASE b = a
      <4>1. held'[a] = c /\ ~_command_approved_by_policy(c, load_hook_policy(file, c.folder, world), world)
        BY <1>1, <2>2, <3>1 DEF Submit
      <4>2. judge_pretooluse_with_aeg_engine(c, file, world) = "ALLOW"
        BY <1>1 DEF Submit
      <4> QED
        BY <3>1, <4>1, <4>2, AllowedSpares
    <3>2. CASE b # a
      BY <1>1, <2>2, <3>2 DEF Submit, AllowedCallsSpare
    <3> QED
      BY <3>1, <3>2
  <2>3. file' = file /\ world' = world
    BY <1>1 DEF Submit
  <2> QED
    BY <2>1, <2>2, <2>3 DEF AllowedCallsSpare
<1>2. ASSUME NEW a \in Agents, Run(a) PROVE SessionInv'
  <2>1. Written(held[a], world) \cap Guard = {}
    BY <1>2 DEF Run, AllowedCallsSpare, Spares, WriteBarred
  <2>2. PICK k \in {"file", "absent"} :
            world' = [world EXCEPT !.kind =
                         [n \in Places |-> IF n \in Written(held[a], world) THEN k ELSE @[n]]]
    BY <1>2, <2>1 DEF Run
  <2>3. file' = file /\ held' = [held EXCEPT ![a] = None]
    BY <1>2, <2>1 DEF Run
  <2>4. world' \in World /\ world'.to = world.to /\ world'.programs = world.programs
    BY <2>2 DEF World
  <2>5. ASSUME NEW b \in Agents, held'[b] \in Calls PROVE Spares(held'[b], file, world')
    <3>1. held'[b] = held[b]
      BY <2>3, <2>5
    <3>2. Spares(held[b], file, world)
      BY <2>5, <3>1 DEF AllowedCallsSpare
    <3> QED
      BY <2>4, <2>5, <3>1, <3>2, KindsDoNotMatter
  <2> QED
    BY <2>3, <2>4, <2>5 DEF AllowedCallsSpare
<1>3. ASSUME NEW a \in Agents, Drop(a) PROVE SessionInv'
  <2>1. TypeOK'
    BY <1>3 DEF Drop
  <2>2. \A b \in Agents : held'[b] \in Calls => held'[b] = held[b]
    BY <1>3 DEF Drop
  <2>3. file' = file /\ world' = world
    BY <1>3 DEF Drop
  <2> QED
    BY <2>1, <2>2, <2>3 DEF AllowedCallsSpare
<1>4. ASSUME world' \in Worlds, file' \in Policies, held' \in [Agents -> {None, Unruled}]
      PROVE  SessionInv'
  <2>1. TypeOK'
    BY <1>4
  <2>2. \A b \in Agents : held'[b] \notin Calls
    BY <1>4
  <2> QED
    BY <2>1, <2>2 DEF AllowedCallsSpare
<1>5. ASSUME NEW a \in Agents, RunUnruled(a) PROVE SessionInv'
  BY <1>4, <1>5 DEF RunUnruled
<1>6. CASE Upheaval
  BY <1>4, <1>6 DEF Upheaval
<1>7. CASE UNCHANGED vars
  <2>1. file' = file /\ world' = world /\ held' = held
    BY <1>7 DEF vars
  <2> QED
    BY <2>1 DEF AllowedCallsSpare
<1> QED
  BY <1>1, <1>2, <1>3, <1>5, <1>6, <1>7 DEF Next

\* Every reachable state is of the model's types.
THEOREM SessionType == Spec => []TypeOK
<1>1. SessionInv => TypeOK
  BY DEF SessionInv
<1> QED
  BY <1>1, SessionInvInit, SessionInvNext, PTL DEF Spec

\* For any project, policy and calls: what the rules allow still spares what is
\* barred when it runs, whatever allowed calls ran since it was judged.
THEOREM AllowedCallsAlwaysSpare == Spec => []AllowedCallsSpare
<1>1. SessionInv => AllowedCallsSpare
  BY DEF SessionInv
<1> QED
  BY <1>1, SessionInvInit, SessionInvNext, PTL DEF Spec

\* In every reachable state a call that writes the guard or leaves the project
\* is denied.
THEOREM GuardIsAlwaysDenied == Spec => []GuardAlwaysDenied
<1>1. SessionInv => GuardAlwaysDenied
  BY SessionAssumption, GuardDenied DEF SessionInv, TypeOK, GuardAlwaysDenied, Decides
<1> QED
  BY <1>1, SessionInvInit, SessionInvNext, PTL DEF Spec

-----------------------------------------------------------------------------

\* The approved commands of a policy are read by the approval alone.
LEMMA CommandsMatterToApprovalOnly ==
    ASSUME NEW c, NEW p, NEW q, NEW w, p.allow = q.allow, p.protect = q.protect
    PROVE  /\ CandidateStatus(c, p, w) = CandidateStatus(c, q, w)
           /\ _protected_path_gate(c, p, w) = _protected_path_gate(c, q, w)
           /\ _shell_read_denies(c, p, w) = _shell_read_denies(c, q, w)
           /\ _secret_reference_gate(c, p) = _secret_reference_gate(c, q)
           /\ _write_delete_target_gate(c, p, w) = _write_delete_target_gate(c, q, w)
           /\ CapabilityDenies(c, p, w) = CapabilityDenies(c, q, w)
           /\ law_status(c, p, w) = law_status(c, q, w)
<1>1. \A n : is_secret_path(n, p) = is_secret_path(n, q)
  BY DEF is_secret_path
<1>2. \A n : is_protected_path(n, p) = is_protected_path(n, q)
  BY DEF is_protected_path
<1>3. \A n : is_read_protected_path(n, p) = is_read_protected_path(n, q)
  BY <1>1 DEF is_read_protected_path
<1>4. \A r, b : _path_denial_reason(r, p, b) = _path_denial_reason(r, q, b)
  BY <1>2, <1>3 DEF _path_denial_reason
<1>5. /\ \A r : _classify_command_target(r, p, w) = _classify_command_target(r, q, w)
      /\ \A n : _classify_resolved(n, p) = _classify_resolved(n, q)
  BY <1>1, <1>2 DEF _classify_command_target, _classify_resolved
<1>6. ReadVerdicts(c, p, w) = ReadVerdicts(c, q, w)
  BY <1>5 DEF ReadVerdicts, file_verdict, tree_verdict
<1>7. impact_risk(c, p, w) = impact_risk(c, q, w)
  BY <1>2, <1>3 DEF impact_risk
<1> QED
  BY <1>1, <1>2, <1>3, <1>4, <1>5, <1>6, <1>7
     DEF CandidateStatus, _protected_path_gate, _shell_read_denies, _secret_reference_gate,
         _write_delete_target_gate, CapabilityDenies, law_status

\* Only the refusal of a dangerous command gives way to an approval.
LEMMA ApprovalLiftsDanger ==
    ASSUME NEW c \in Call, NEW f \in PolicyFile, NEW w \in World,
           judge_pretooluse_with_aeg_engine(c, [f EXCEPT !.commands = {}], w) = "DENY",
           judge_pretooluse_with_aeg_engine(c, f, w) # "DENY"
    PROVE  /\ c.parse.danger /\ ~c.parse.disables
           /\ judge_pretooluse_with_aeg_engine(
                  [c EXCEPT !.parse.danger = FALSE], [f EXCEPT !.commands = {}], w) # "DENY"
<1> DEFINE g == [f EXCEPT !.commands = {}]
           p == load_hook_policy(f, c.folder, w)
           q == load_hook_policy(g, c.folder, w)
           d == [c EXCEPT !.parse.danger = FALSE]
<1>1. c.tool # "unsupported" /\ Denies(c, q, w) /\ ~Denies(c, p, w)
  BY DEF judge_pretooluse_with_aeg_engine, _collapse_engine_decision
<1>2. p.allow = q.allow /\ p.protect = q.protect
  BY DEF load_hook_policy, _read_policy_file, PolicyFile, NoPolicy
<1>3. q.commands = {}
  BY DEF load_hook_policy, _read_policy_file, PolicyFile, NoPolicy
<1> HIDE DEF p, q
<1>4. _command_approved_by_policy(c, p, w)
  BY <1>1, <1>2, CommandsMatterToApprovalOnly DEF Denies
<1>5. CandidateStatus(c, q, w) = "DENY_CANDIDATE"
  BY <1>1, <1>2, CommandsMatterToApprovalOnly DEF Denies
<1>6. c \in CommandCall /\ c.complete /\ ~c.parse.disables
  BY <1>4 DEF _command_approved_by_policy, Call, FileCall, InvalidCall, CommandTools, ReadLike, WriteLike
<1>7. c.parse.danger
  BY <1>5, <1>6 DEF CandidateStatus, CommandCall, CommandTools
<1>8. /\ d \in CommandCall /\ d.tool = c.tool /\ d.folder = c.folder /\ d.complete = c.complete
      /\ d.parse = [c.parse EXCEPT !.danger = FALSE]
  BY <1>6 DEF CommandCall, Parse
<1> HIDE DEF d
<1>9. ~Denies(d, q, w)
  <2>1. CandidateStatus(d, q, w) # "DENY_CANDIDATE"
    BY <1>8 DEF CandidateStatus, CommandCall, CommandTools, Parse
  <2>2. /\ d.parse.read = c.parse.read /\ d.parse.ambiguous = c.parse.ambiguous
        /\ d.parse.git = c.parse.git /\ d.parse.narrow = c.parse.narrow
        /\ d.parse.files = c.parse.files /\ d.parse.trees = c.parse.trees
        /\ d.parse.compared = c.parse.compared /\ d.parse.metadata = c.parse.metadata
        /\ d.parse.writes = c.parse.writes /\ d.parse.deletes = c.parse.deletes
        /\ d.parse.mentions = c.parse.mentions
    BY <1>6, <1>8 DEF CommandCall, Parse
  <2>3. _target_paths(d, w) = _target_paths(c, w)
    BY <1>6, <1>8, <2>2 DEF _target_paths, CommandCall, CommandTools
  <2>4. Classified(d) = Classified(c) /\ ReadVerdicts(d, q, w) = ReadVerdicts(c, q, w)
    BY <1>8, <2>2 DEF Classified, ReadVerdicts
  <2>5. /\ _repo_boundary_denies(d, w) = _repo_boundary_denies(c, w)
        /\ _aeg_guard_denies(d, w) = _aeg_guard_denies(c, w)
        /\ _protected_path_gate(d, q, w) = _protected_path_gate(c, q, w)
    BY <1>8, <2>3 DEF _repo_boundary_denies, _aeg_guard_denies, _protected_path_gate
  <2>6. /\ _shell_read_denies(d, q, w) = _shell_read_denies(c, q, w)
        /\ _secret_reference_gate(d, q) = _secret_reference_gate(c, q)
        /\ _write_delete_target_gate(d, q, w) = _write_delete_target_gate(c, q, w)
    BY <2>2, <2>4 DEF _shell_read_denies, _secret_reference_gate, _write_delete_target_gate
  <2>7. law_status(d, q, w) = law_status(c, q, w)
    <3>1. impact_risk(d, q, w) = impact_risk(c, q, w)
      BY <1>8, <2>3 DEF impact_risk
    <3> QED
      BY <1>8, <3>1 DEF law_status, intent_risk
  <2>8. c.tool \notin ReadLike
    BY <1>6 DEF CommandCall, CommandTools, ReadLike
  <2>9. /\ ~_repo_boundary_denies(c, w) /\ ~_aeg_guard_denies(c, w)
        /\ ~_protected_path_gate(c, q, w) /\ ~_shell_read_denies(c, q, w)
        /\ ~(/\ c.tool \in CommandTools /\ c.complete
             /\ _secret_reference_gate(c, q) \/ _write_delete_target_gate(c, q, w))
        /\ law_status(c, q, w) # "NEEDS_USER_GATE"
    BY <1>1, <1>2, CommandsMatterToApprovalOnly DEF Denies
  <2> QED
    BY <1>8, <2>1, <2>5, <2>6, <2>7, <2>8, <2>9 DEF Denies
<1>10. load_hook_policy(g, d.folder, w) = q
  BY <1>8 DEF q
<1>11. judge_pretooluse_with_aeg_engine(d, g, w) # "DENY"
  BY <1>1, <1>8, <1>9, <1>10 DEF judge_pretooluse_with_aeg_engine, _collapse_engine_decision
<1> QED
  BY <1>6, <1>7, <1>11 DEF d

-----------------------------------------------------------------------------

\* p lifts no more, approves no more and protects no less than q.
AtLeast(p, q) == p.allow \subseteq q.allow /\ p.commands \subseteq q.commands /\ q.protect \subseteq p.protect

\* What the weaker policy refuses, the stricter one refuses.
LEMMA NamesMonotone ==
    ASSUME NEW p, NEW q, AtLeast(p, q)
    PROVE  /\ \A n : is_secret_path(n, q) => is_secret_path(n, p)
           /\ \A n : is_protected_path(n, q) => is_protected_path(n, p)
           /\ \A n : is_read_protected_path(n, q) => is_read_protected_path(n, p)
           /\ \A r, b : _path_denial_reason(r, q, b) => _path_denial_reason(r, p, b)
<1>1. \A n : is_secret_path(n, q) => is_secret_path(n, p)
  BY DEF is_secret_path, AtLeast
<1>2. \A n : is_protected_path(n, q) => is_protected_path(n, p)
  BY DEF is_protected_path, AtLeast
<1>3. \A n : is_read_protected_path(n, q) => is_read_protected_path(n, p)
  BY <1>1 DEF is_read_protected_path
<1>4. \A r, b : _path_denial_reason(r, q, b) => _path_denial_reason(r, p, b)
  BY <1>2, <1>3 DEF _path_denial_reason
<1> QED
  BY <1>1, <1>2, <1>3, <1>4

\* The candidate of the stricter policy is that of the weaker, or a denial.
LEMMA CandidateMonotone ==
    ASSUME NEW c \in Call, NEW p, NEW q, NEW w, AtLeast(p, q)
    PROVE  \/ CandidateStatus(c, p, w) = CandidateStatus(c, q, w)
           \/ CandidateStatus(c, p, w) = "DENY_CANDIDATE"
<1>1. ASSUME \E r \in MappedPaths(c, w) : _path_denial_reason(r, q, c.tool \in ReadLike)
      PROVE  \E r \in MappedPaths(c, w) : _path_denial_reason(r, p, c.tool \in ReadLike)
  BY <1>1, NamesMonotone
<1>2. CASE c.tool \in ReadLike \cup WriteLike
  BY <1>1, <1>2 DEF CandidateStatus, ReadLike, WriteLike
<1>3. CASE c.tool \notin ReadLike \cup WriteLike
  BY <1>3 DEF CandidateStatus, ReadLike, WriteLike
<1> QED
  BY <1>2, <1>3

\* The impact the stricter policy sees is that of the weaker, or HIGH.
LEMMA ImpactMonotone ==
    ASSUME NEW c, NEW p, NEW q, NEW w, AtLeast(p, q)
    PROVE  \/ impact_risk(c, p, w) = impact_risk(c, q, w)
           \/ impact_risk(c, p, w) = "HIGH"
<1>1. CASE c.tool \in ReadLike
  BY <1>1, NamesMonotone DEF impact_risk
<1>2. CASE c.tool \notin ReadLike
  BY <1>2, NamesMonotone DEF impact_risk
<1> QED
  BY <1>1, <1>2

\* The stricter policy's class of a command's path refuses what the weaker's does.
LEMMA TargetMonotone ==
    ASSUME NEW r, NEW p, NEW q, NEW w, AtLeast(p, q)
    PROVE  /\ _classify_command_target(r, p, w) \in {"safe_in_repo", "protected_path"}
                  => _classify_command_target(r, q, w) \in {"safe_in_repo", "protected_path"}
           /\ _classify_command_target(r, p, w) = "safe_in_repo"
                  => _classify_command_target(r, q, w) = "safe_in_repo"
BY NamesMonotone DEF _classify_command_target, _classify_resolved

\* Unless it hides in the state or outside, what may be listed under the
\* stricter policy may be listed under the weaker.
LEMMA MetadataMonotone ==
    ASSUME NEW r \in Path, NEW p, NEW q, NEW w, AtLeast(p, q),
           ~ (/\ {r.name, w.to[r.name]} \cap Secret # {}
              /\ Opens(r, w) \in State \cup Outside)
    PROVE  /\ metadata_verdict(_classify_command_target(r, p, w)) = "readable"
                  => metadata_verdict(_classify_command_target(r, q, w)) = "readable"
           /\ metadata_verdict(_classify_command_target(r, q, w)) = "out_of_scope"
                  => metadata_verdict(_classify_command_target(r, p, w)) = "out_of_scope"
<1>1. /\ _classify_command_target(r, p, w) \in {"safe_in_repo", "protected_path", "secret_path"}
             => _classify_command_target(r, q, w) \in {"safe_in_repo", "protected_path", "secret_path"}
      /\ _classify_command_target(r, q, w) = "out_of_scope"
             => _classify_command_target(r, p, w) = "out_of_scope"
  BY NamesMonotone, PlacesAssumption
     DEF _classify_command_target, _classify_resolved, is_secret_path, Opens
<1> QED
  BY <1>1 DEF metadata_verdict, _classify_command_target, _classify_resolved

\* The same for the folder a command runs in.
LEMMA FolderMonotone ==
    ASSUME NEW n, NEW p, NEW q, AtLeast(p, q), ~(n \in Secret /\ n \in State \cup Outside)
    PROVE  /\ _classify_resolved(n, p) \in {"safe_in_repo", "protected_path", "secret_path"}
                  => _classify_resolved(n, q) \in {"safe_in_repo", "protected_path", "secret_path"}
           /\ metadata_verdict(_classify_resolved(n, p)) = "readable"
                  => metadata_verdict(_classify_resolved(n, q)) = "readable"
           /\ metadata_verdict(_classify_resolved(n, q)) = "out_of_scope"
                  => metadata_verdict(_classify_resolved(n, p)) = "out_of_scope"
<1>1. /\ _classify_resolved(n, p) \in {"safe_in_repo", "protected_path", "secret_path"}
             => _classify_resolved(n, q) \in {"safe_in_repo", "protected_path", "secret_path"}
      /\ _classify_resolved(n, q) = "out_of_scope" => _classify_resolved(n, p) = "out_of_scope"
  BY NamesMonotone DEF _classify_resolved, is_secret_path
<1> QED
  BY <1>1 DEF metadata_verdict, _classify_resolved

\* What ListsHiddenSecret excludes, said of each path and of the folder.
LEMMA NoHiddenSecret ==
    ASSUME NEW c \in CommandCall, NEW w \in World, ~ListsHiddenSecret(c, w)
    PROVE  /\ \A r \in c.parse.metadata : ~ (/\ {r.name, w.to[r.name]} \cap Secret # {}
                                             /\ Opens(r, w) \in State \cup Outside)
           /\ ~(w.to[c.folder] \in Secret /\ w.to[c.folder] \in State \cup Outside)
<1>1. c.tool \in CommandTools
  BY DEF CommandCall
<1>2. Opens([name |-> c.folder, form |-> "plain"], w) = w.to[c.folder]
  BY DEF Opens
<1> QED
  BY <1>1, <1>2 DEF ListsHiddenSecret

\* A read that the weaker policy refuses the stricter one refuses, and a read
\* that the stricter one allows the weaker one allows.
LEMMA ReadsMonotone ==
    ASSUME NEW c \in CommandCall, NEW w \in World, NEW p, NEW q, AtLeast(p, q), ~ListsHiddenSecret(c, w)
    PROVE  /\ _shell_read_denies(c, q, w) => _shell_read_denies(c, p, w)
           /\ _shell_read_allows(c, p, w) => _shell_read_allows(c, q, w)
<1> DEFINE denied == {"out_of_scope", "secret_path", "protected_state_dir"}
<1>1. c.parse.metadata \subseteq Path
  BY DEF CommandCall, Parse
<1>2. \A r \in c.parse.metadata :
          /\ metadata_verdict(_classify_command_target(r, p, w)) = "readable"
                 => metadata_verdict(_classify_command_target(r, q, w)) = "readable"
          /\ metadata_verdict(_classify_command_target(r, q, w)) = "out_of_scope"
                 => metadata_verdict(_classify_command_target(r, p, w)) = "out_of_scope"
  BY <1>1, NoHiddenSecret, MetadataMonotone
<1>3. /\ metadata_verdict(_classify_resolved(w.to[c.folder], p)) = "readable"
             => metadata_verdict(_classify_resolved(w.to[c.folder], q)) = "readable"
      /\ metadata_verdict(_classify_resolved(w.to[c.folder], q)) = "out_of_scope"
             => metadata_verdict(_classify_resolved(w.to[c.folder], p)) = "out_of_scope"
  BY NoHiddenSecret, FolderMonotone
<1>4. \A r : /\ file_verdict(r, q, w) \in denied => file_verdict(r, p, w) \in denied
             /\ tree_verdict(r, q, w) \in denied => tree_verdict(r, p, w) \in denied
             /\ file_verdict(r, p, w) = "readable" => file_verdict(r, q, w) = "readable"
             /\ tree_verdict(r, p, w) = "readable" => tree_verdict(r, q, w) = "readable"
  <2>1. \A r, x : _classify_command_target(r, x, w) \in denied \cup {"safe_in_repo", "protected_path"}
    BY DEF _classify_command_target, _classify_resolved
  <2> QED
    BY <2>1, TargetMonotone DEF file_verdict, tree_verdict
<1>5. \A k : k \in denied /\ (\E j \in {"out_of_scope", "secret_path", "protected_state_dir",
                                        "protected_path", "safe_in_repo"} : k = metadata_verdict(j))
                 => k = "out_of_scope"
  BY DEF metadata_verdict
<1>6. ASSUME NEW v \in ReadVerdicts(c, q, w), v \in denied
      PROVE  \E u \in ReadVerdicts(c, p, w) : u \in denied
  <2>1. CASE \E r \in c.parse.files : v = file_verdict(r, q, w)
    <3>1. PICK r \in c.parse.files : v = file_verdict(r, q, w)
      BY <2>1
    <3>2. file_verdict(r, p, w) \in ReadVerdicts(c, p, w)
      BY DEF ReadVerdicts
    <3> QED
      BY <1>4, <1>6, <3>1, <3>2
  <2>2. CASE \E r \in c.parse.trees \cup c.parse.compared : v = tree_verdict(r, q, w)
    <3>1. PICK r \in c.parse.trees \cup c.parse.compared : v = tree_verdict(r, q, w)
      BY <2>2
    <3>2. tree_verdict(r, p, w) \in ReadVerdicts(c, p, w)
      BY DEF ReadVerdicts
    <3> QED
      BY <1>4, <1>6, <3>1, <3>2
  <2>3. CASE \E r \in c.parse.metadata : v = metadata_verdict(_classify_command_target(r, q, w))
    <3>1. PICK r \in c.parse.metadata : v = metadata_verdict(_classify_command_target(r, q, w))
      BY <2>3
    <3>2. metadata_verdict(_classify_command_target(r, p, w)) \in ReadVerdicts(c, p, w)
      BY DEF ReadVerdicts
    <3>3. v = "out_of_scope"
      BY <1>5, <1>6, <3>1 DEF _classify_command_target, _classify_resolved
    <3> QED
      BY <1>2, <3>1, <3>2, <3>3
  <2>4. CASE v = metadata_verdict(_classify_resolved(w.to[c.folder], q))
    <3>1. metadata_verdict(_classify_resolved(w.to[c.folder], p)) \in ReadVerdicts(c, p, w)
      BY DEF ReadVerdicts
    <3>2. v = "out_of_scope"
      BY <1>5, <1>6, <2>4 DEF _classify_resolved
    <3> QED
      BY <1>3, <2>4, <3>1, <3>2
  <2>5. CASE v \in {"directory_comparison", "unguarded_git_directory", "git_output_cannot_be_narrowed"}
    BY <1>6, <2>5
  <2> QED
    BY <2>1, <2>2, <2>3, <2>4, <2>5 DEF ReadVerdicts
<1>7. ASSUME ReadVerdicts(c, p, w) \subseteq {"readable"}
      PROVE  ReadVerdicts(c, q, w) \subseteq {"readable"}
  <2>1. ASSUME NEW r \in c.parse.files PROVE file_verdict(r, q, w) = "readable"
    <3>1. file_verdict(r, p, w) \in ReadVerdicts(c, p, w)
      BY DEF ReadVerdicts
    <3> QED
      BY <1>4, <1>7, <3>1
  <2>2. ASSUME NEW r \in c.parse.trees \cup c.parse.compared PROVE tree_verdict(r, q, w) = "readable"
    <3>1. tree_verdict(r, p, w) \in ReadVerdicts(c, p, w)
      BY DEF ReadVerdicts
    <3> QED
      BY <1>4, <1>7, <3>1
  <2>3. ASSUME NEW r \in c.parse.metadata
        PROVE  metadata_verdict(_classify_command_target(r, q, w)) = "readable"
    <3>1. metadata_verdict(_classify_command_target(r, p, w)) \in ReadVerdicts(c, p, w)
      BY DEF ReadVerdicts
    <3> QED
      BY <1>2, <1>7, <3>1
  <2>4. metadata_verdict(_classify_resolved(w.to[c.folder], q)) = "readable"
    <3>1. metadata_verdict(_classify_resolved(w.to[c.folder], p)) \in ReadVerdicts(c, p, w)
      BY DEF ReadVerdicts
    <3> QED
      BY <1>3, <1>7, <3>1
  <2>5. /\ ~_compares_a_directory(c.parse.compared, w)
        /\ ~(c.parse.git /\ w.to[c.folder] \notin w.guarded)
        /\ ~(c.parse.git /\ ~c.parse.narrow)
    BY <1>7 DEF ReadVerdicts
  <2> QED
    BY <1>7, <2>1, <2>2, <2>3, <2>4, <2>5 DEF ReadVerdicts
<1> QED
  BY <1>6, <1>7 DEF _shell_read_denies, _shell_read_allows

\* Whatever the weaker policy denies the stricter one denies.
LEMMA DeniesMonotone ==
    ASSUME NEW c \in FileCall \cup CommandCall, NEW w \in World, NEW p, NEW q,
           AtLeast(p, q), ~ListsHiddenSecret(c, w), Denies(c, q, w)
    PROVE  Denies(c, p, w)
<1>1. _command_approved_by_policy(c, p, w) => _command_approved_by_policy(c, q, w)
  <2>1. CASE c \in CommandCall
    BY <2>1, NoHiddenSecret, FolderMonotone DEF _command_approved_by_policy, AtLeast
  <2>2. CASE c \notin CommandCall
    BY <2>2 DEF _command_approved_by_policy, FileCall, ReadLike, WriteLike, CommandTools
  <2> QED
    BY <2>1, <2>2
<1>2. CandidateStatus(c, q, w) = "DENY_CANDIDATE" => CandidateStatus(c, p, w) = "DENY_CANDIDATE"
  BY CandidateMonotone DEF Call
<1>3. _protected_path_gate(c, q, w) => _protected_path_gate(c, p, w)
  BY NamesMonotone DEF _protected_path_gate
<1>4. _shell_read_denies(c, q, w) => _shell_read_denies(c, p, w)
  <2>1. CASE c \in CommandCall
    BY <2>1, ReadsMonotone
  <2>2. CASE c \notin CommandCall
    BY <2>2 DEF _shell_read_denies, Classified, FileCall, ReadLike, WriteLike, CommandTools
  <2> QED
    BY <2>1, <2>2
<1>5. /\ _secret_reference_gate(c, q) => _secret_reference_gate(c, p)
      /\ _write_delete_target_gate(c, q, w) => _write_delete_target_gate(c, p, w)
  <2>1. _secret_reference_gate(c, q) => _secret_reference_gate(c, p)
    BY NamesMonotone DEF _secret_reference_gate
  <2>2. _write_delete_target_gate(c, q, w) => _write_delete_target_gate(c, p, w)
    BY TargetMonotone DEF _write_delete_target_gate
  <2> QED
    BY <2>1, <2>2
<1>6. CapabilityDenies(c, q, w) => CapabilityDenies(c, p, w)
  BY NamesMonotone DEF CapabilityDenies
<1>7. law_status(c, q, w) = "NEEDS_USER_GATE" => law_status(c, p, w) = "NEEDS_USER_GATE"
  <2>1. impact_risk(c, q, w) = "HIGH" => impact_risk(c, p, w) = "HIGH"
    BY ImpactMonotone
  <2>2. \A i : apply_law(i, merge_risks(intent_risk(c), i)) = "NEEDS_USER_GATE" <=> i = "HIGH"
    BY DEF apply_law, merge_risks, intent_risk
  <2> QED
    BY <2>1, <2>2 DEF law_status
<1> QED
  BY <1>1, <1>2, <1>3, <1>4, <1>5, <1>6, <1>7 DEF Denies

\* What the stricter policy allows the weaker one does not refuse to allow.
LEMMA AllowsMonotone ==
    ASSUME NEW c \in FileCall \cup CommandCall, NEW w \in World, NEW p, NEW q,
           AtLeast(p, q), ~ListsHiddenSecret(c, w), ~Denies(c, p, w), Allows(c, p, w)
    PROVE  Allows(c, q, w)
<1>1. CASE c \in CommandCall
  <2>1. c.tool \notin ReadLike \cup WriteLike
    BY <1>1 DEF CommandCall, CommandTools, ReadLike, WriteLike
  <2>2. _shell_read_allows(c, p, w) \/ _command_approved_by_policy(c, p, w)
    BY <2>1 DEF Allows, _is_clearly_safe_normal_file_operation
  <2>3. _command_approved_by_policy(c, p, w) => _command_approved_by_policy(c, q, w)
    BY <1>1, NoHiddenSecret, FolderMonotone DEF _command_approved_by_policy, AtLeast
  <2> QED
    BY <1>1, <2>2, <2>3, ReadsMonotone DEF Allows
<1>2. CASE c \in FileCall
  <2>1. c.tool \notin CommandTools
    BY <1>2 DEF FileCall, CommandTools, ReadLike, WriteLike
  <2>2. ~_shell_read_allows(c, p, w) /\ ~_command_approved_by_policy(c, p, w)
    BY <2>1 DEF _shell_read_allows, Classified, _command_approved_by_policy
  <2>3. impact_risk(c, p, w) = impact_risk(c, q, w)
    <3>1. impact_risk(c, p, w) # "HIGH"
      BY DEF Denies, law_status, apply_law, merge_risks
    <3> QED
      BY <3>1, ImpactMonotone
  <2>4. CandidateStatus(c, p, w) = CandidateStatus(c, q, w)
    BY <2>2, CandidateMonotone DEF Denies, Call
  <2>5. law_status(c, p, w) = law_status(c, q, w)
    BY <2>3 DEF law_status
  <2> QED
    BY <2>2, <2>3, <2>4, <2>5 DEF Allows, _is_clearly_safe_normal_file_operation
<1> QED
  BY <1>1, <1>2

\* A stricter policy file gets a decision at least as strict.
LEMMA StricterDecides ==
    ASSUME NEW c \in Call, NEW w \in World, NEW f \in PolicyFile, NEW g \in PolicyFile,
           Stricter(f, g), ~ListsHiddenSecret(c, w)
    PROVE  Strictness[judge_pretooluse_with_aeg_engine(c, f, w)]
               >= Strictness[judge_pretooluse_with_aeg_engine(c, g, w)]
<1> DEFINE p == load_hook_policy(f, c.folder, w)
           q == load_hook_policy(g, c.folder, w)
<1>1. CASE c.tool = "unsupported"
  BY <1>1 DEF judge_pretooluse_with_aeg_engine, Strictness
<1>2. CASE c.tool # "unsupported"
  <2>1. c \in FileCall \cup CommandCall
    BY <1>2 DEF Call, InvalidCall
  <2>2. AtLeast(p, q)
    BY DEF Stricter, AtLeast, load_hook_policy, _read_policy_file, PolicyFile, NoPolicy
  <2> HIDE DEF p, q
  <2>3. Denies(c, q, w) => Denies(c, p, w)
    BY <2>1, <2>2, DeniesMonotone
  <2>4. ~Denies(c, p, w) /\ Allows(c, p, w) => Allows(c, q, w)
    BY <2>1, <2>2, AllowsMonotone
  <2>5. ~Denies(c, p, w) /\ Asks(c, q, w) => Asks(c, p, w)
    <3>1. SUFFICES ASSUME ~Denies(c, p, w), Asks(c, q, w) PROVE Asks(c, p, w)
      OBVIOUS
    <3>2. c.tool \notin CommandTools
      BY <3>1 DEF Asks, WriteLike, CommandTools
    <3>3. CandidateStatus(c, p, w) # "DENY_CANDIDATE"
      BY <3>1, <3>2 DEF Denies, _command_approved_by_policy
    <3> QED
      BY <2>2, <3>1, <3>3, CandidateMonotone DEF Asks
  <2>6. Strictness[_collapse_engine_decision(c, p, w)] >= Strictness[_collapse_engine_decision(c, q, w)]
    BY <2>3, <2>4, <2>5 DEF _collapse_engine_decision, Strictness
  <2> QED
    BY <1>2, <2>6 DEF judge_pretooluse_with_aeg_engine, p, q
<1> QED
  BY <1>1, <1>2

-----------------------------------------------------------------------------

\* File tools' calls are judged by their normalised paths.
LEMMA JudgedByMappedPaths ==
    ASSUME NEW c \in FileCall, NEW d \in FileCall, NEW f, NEW w \in World,
           c.tool \in ReadLike \cup {"Write", "Edit"}, d.tool = c.tool, d.folder = c.folder,
           d.complete = c.complete, d.strays = c.strays, MappedPaths(d, w) = MappedPaths(c, w)
    PROVE  judge_pretooluse_with_aeg_engine(d, f, w) = judge_pretooluse_with_aeg_engine(c, f, w)
<1> DEFINE policy == load_hook_policy(f, c.folder, w)
<1>1. load_hook_policy(f, d.folder, w) = policy
  OBVIOUS
<1> HIDE DEF policy
<1>2. c.tool \notin CommandTools /\ d.tool \notin CommandTools
  BY DEF ReadLike, CommandTools
<1>3. _target_paths(c, w) = MappedPaths(c, w) /\ _target_paths(d, w) = MappedPaths(d, w)
  BY DEF _target_paths, MappedPaths, ReadLike
<1>4. CandidateStatus(d, policy, w) = CandidateStatus(c, policy, w)
  BY DEF CandidateStatus, ReadLike
<1>5. impact_risk(d, policy, w) = impact_risk(c, policy, w)
  BY <1>3 DEF impact_risk
<1>6. law_status(d, policy, w) = law_status(c, policy, w)
  BY <1>5 DEF law_status, intent_risk
<1>7. /\ _repo_boundary_denies(d, w) = _repo_boundary_denies(c, w)
      /\ _aeg_guard_denies(d, w) = _aeg_guard_denies(c, w)
      /\ _protected_path_gate(d, policy, w) = _protected_path_gate(c, policy, w)
      /\ CapabilityDenies(d, policy, w) = CapabilityDenies(c, policy, w)
  BY <1>3 DEF _repo_boundary_denies, _aeg_guard_denies, _protected_path_gate, CapabilityDenies
<1>8. \A e \in {c, d} : /\ ~_shell_read_denies(e, policy, w) /\ ~_shell_read_allows(e, policy, w)
                        /\ ~_command_approved_by_policy(e, policy, w)
  BY <1>2 DEF _shell_read_denies, _shell_read_allows, Classified, _command_approved_by_policy
<1>9. Denies(d, policy, w) = Denies(c, policy, w)
  BY <1>2, <1>4, <1>6, <1>7, <1>8 DEF Denies
<1>10. Allows(d, policy, w) = Allows(c, policy, w)
  <2>1. _is_clearly_safe_normal_file_operation(d, policy, w)
            = _is_clearly_safe_normal_file_operation(c, policy, w)
    BY <1>4, <1>5, <1>7 DEF _is_clearly_safe_normal_file_operation
  <2> QED
    BY <2>1, <1>6, <1>8 DEF Allows
<1>11. Asks(d, policy, w) = Asks(c, policy, w)
  BY <1>4 DEF Asks
<1> QED
  BY <1>1, <1>9, <1>10, <1>11 DEF judge_pretooluse_with_aeg_engine, _collapse_engine_decision

\* One path of a call may be spelled by any name of the place it opens.
LEMMA AliasesDecide ==
    ASSUME NEW c \in FileCall, NEW f, NEW w \in World, c.tool \in ReadLike \cup {"Write", "Edit"},
           c.complete, NEW p \in c.paths, NEW q \in Path,
           p.form \in {"plain", "absolute"}, q.form \in {"plain", "absolute"}, w.to[q.name] = w.to[p.name]
    PROVE  judge_pretooluse_with_aeg_engine([c EXCEPT !.paths = (@ \ {p}) \cup {q}], f, w)
               = judge_pretooluse_with_aeg_engine(c, f, w)
<1> DEFINE d == [c EXCEPT !.paths = (@ \ {p}) \cup {q}]
           norm(r) == _normalize_repo_internal_path(r, w)
<1>1. /\ d \in FileCall /\ d.tool = c.tool /\ d.folder = c.folder /\ d.complete = c.complete
      /\ d.strays = c.strays /\ d.paths = (c.paths \ {p}) \cup {q}
  BY DEF FileCall
<1> HIDE DEF d
<1>2. p \in Path
  BY DEF FileCall
<1>3. /\ MappedPaths(c, w) = {norm(r) : r \in c.paths}
      /\ MappedPaths(d, w) = {norm(r) : r \in d.paths}
  BY <1>1 DEF MappedPaths, ReadLike
<1>4. ASSUME w.to[p.name] \notin Outside
      PROVE  judge_pretooluse_with_aeg_engine(d, f, w) = judge_pretooluse_with_aeg_engine(c, f, w)
  <2>1. norm(q) = norm(p)
    BY <1>2, <1>4 DEF _normalize_repo_internal_path, Path
  <2>2. MappedPaths(d, w) = MappedPaths(c, w)
    BY <1>1, <1>3, <2>1
  <2> QED
    BY <1>1, <2>2, JudgedByMappedPaths
<1>5. ASSUME w.to[p.name] \in Outside
      PROVE  judge_pretooluse_with_aeg_engine(d, f, w) = judge_pretooluse_with_aeg_engine(c, f, w)
  <2>1. ASSUME NEW e \in FileCall, NEW r \in e.paths, e.tool = c.tool, r \in Path,
               r.form \in {"plain", "absolute"}, w.to[r.name] \in Outside
        PROVE  judge_pretooluse_with_aeg_engine(e, f, w) = "DENY"
    <3>1. norm(r) \in _target_paths(e, w)
      <4>1. e.tool \in {"Read", "Search", "Write", "Edit"}
        BY <2>1 DEF ReadLike
      <4>2. \A s \in e.paths : _normalize_repo_internal_path(s, w) \in _target_paths(e, w)
        BY <4>1 DEF _target_paths
      <4> QED
        BY <2>1, <4>2
    <3>2. norm(r) = [r EXCEPT !.form = "absolute"]
      BY <2>1 DEF _normalize_repo_internal_path
    <3>3. Resolved(norm(r), w) = {w.to[r.name]}
      BY <2>1, <3>2 DEF Resolved, Path
    <3>4. _repo_boundary_denies(e, w)
      BY <2>1, <3>1, <3>3 DEF _repo_boundary_denies
    <3>5. e.tool # "unsupported"
      BY <2>1 DEF ReadLike
    <3> QED
      BY <3>4, <3>5 DEF Denies, judge_pretooluse_with_aeg_engine, _collapse_engine_decision
  <2>2. judge_pretooluse_with_aeg_engine(c, f, w) = "DENY"
    BY <1>2, <1>5, <2>1
  <2>3. judge_pretooluse_with_aeg_engine(d, f, w) = "DENY"
    BY <1>1, <1>5, <2>1
  <2> QED
    BY <2>2, <2>3
<1>6. judge_pretooluse_with_aeg_engine(d, f, w) = judge_pretooluse_with_aeg_engine(c, f, w)
  BY <1>4, <1>5
<1> QED
  BY <1>6 DEF d

-----------------------------------------------------------------------------

\* What holds of every decision holds of the next one.
LEMMA DecisionsHold ==
    TypeOK => /\ StricterPolicyStricterDecision
              /\ AliasesJudgedAlike
              /\ ApprovalLiftsDangerOnly
<1> SUFFICES ASSUME TypeOK
             PROVE  StricterPolicyStricterDecision /\ AliasesJudgedAlike /\ ApprovalLiftsDangerOnly
  OBVIOUS
<1> USE SessionAssumption DEF TypeOK
<1>1. StricterPolicyStricterDecision
  BY StricterDecides DEF StricterPolicyStricterDecision, Decides
<1>2. AliasesJudgedAlike
  <2>1. ASSUME NEW c \in Calls, c.tool \in ReadLike \cup {"Write", "Edit"} /\ c.complete,
               NEW p \in c.paths, NEW n \in Places, NEW form \in {"plain", "absolute"},
               p.form \in {"plain", "absolute"} /\ world.to[n] = world.to[p.name]
        PROVE  Decides([c EXCEPT !.paths = (@ \ {p}) \cup {[name |-> n, form |-> form]}], file)
                   = Decides(c, file)
    <3>1. c \in FileCall
      BY <2>1 DEF Call, CommandCall, InvalidCall, ReadLike, CommandTools
    <3>2. [name |-> n, form |-> form] \in Path
      BY DEF Path
    <3> QED
      BY <2>1, <3>1, <3>2, AliasesDecide DEF Decides
  <2> QED
    BY <2>1, Zenon DEF AliasesJudgedAlike
<1>3. ApprovalLiftsDangerOnly
  BY ApprovalLiftsDanger DEF ApprovalLiftsDangerOnly, Decides
<1> QED
  BY <1>1, <1>2, <1>3

\* In every reachable state, a stricter policy decides at least as strictly.
THEOREM StricterPolicyAlwaysStricter == Spec => []StricterPolicyStricterDecision
BY DecisionsHold, SessionType, PTL

\* In every reachable state, a file is judged alike by each of its names.
THEOREM AliasesAlwaysJudgedAlike == Spec => []AliasesJudgedAlike
BY DecisionsHold, SessionType, PTL

\* In every reachable state, an approval lifts the refusal of danger alone.
THEOREM ApprovalAlwaysLiftsDangerOnly == Spec => []ApprovalLiftsDangerOnly
BY DecisionsHold, SessionType, PTL
=============================================================================
