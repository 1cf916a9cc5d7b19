------------------------------- MODULE Session -------------------------------
(***************************************************************************)
(* Agents' tool calls against one project: each is judged from the disk as *)
(* it is then, and the host runs an allowed one later, when other calls    *)
(* have run.  What the host does with a call is modelled from how          *)
(* evidence/hook_judgment_engine_alignment.py describes it.                *)
(*                                                                         *)
(* The rules answer for a call they allowed as long as the project is only *)
(* changed by such calls.  A person's edits, the calls a person or the host *)
(* lets through, the commands the policy approves and a patch that deletes *)
(* a link may change anything, and the calls in flight then are Unruled.   *)
(***************************************************************************)
EXTENDS Judgment, Naturals

CONSTANTS
    Agents,    \* sessions with at most one call in flight
    Calls,     \* the tool calls they may make
    Worlds,    \* states of the project's files
    Policies,  \* contents of .aeg/policy.json
    None,      \* no call in flight
    Unruled    \* a call in flight that the rules do not answer for

ASSUME SessionAssumption ==
    /\ Calls \subseteq Call /\ Worlds \subseteq World /\ Policies \subseteq PolicyFile
    /\ None # Unruled /\ {None, Unruled} \cap Call = {}

VARIABLES
    world,  \* what the names of the project open
    file,   \* .aeg/policy.json
    held    \* held[a]: the call of a that was allowed and has not run

vars == <<world, file, held>>

-----------------------------------------------------------------------------
(* What a call does when it runs.  The host refuses an incomplete one.     *)

WrittenPaths(c) ==
    CASE c.tool \in WriteLike    -> c.paths
      [] c.tool \in CommandTools -> c.parse.writes
      [] OTHER                   -> {}

ReadPaths(c) ==
    CASE c.tool \in ReadLike     -> c.paths
      [] c.tool \in CommandTools -> c.parse.files \cup c.parse.trees \cup c.parse.compared
      [] OTHER                   -> {}

Written(c, w) == {Opens(p, w) : p \in {q \in WrittenPaths(c) : c.complete}}
Read(c, w)    == {Opens(p, w) : p \in {q \in ReadPaths(c) : c.complete}}

\* Names that hold what the rules do not let a call write, or read.
WriteBarred(policy) == Guard \cup Outside \cup {n \in Places : is_protected_path(n, policy)}
ReadBarred(policy)  == State \cup Outside \cup {n \in Places : is_secret_path(n, policy)}

-----------------------------------------------------------------------------
Init == /\ world \in Worlds /\ file \in Policies
        /\ held = [a \in Agents |-> None]

\* One hook process reads the policy and the links and answers "allow".
Submit(a, c) ==
    /\ held[a] = None
    /\ judge_pretooluse_with_aeg_engine(c, file, world) = "ALLOW"
    /\ held' = [held EXCEPT ![a] =
           IF _command_approved_by_policy(c, load_hook_policy(file, c.folder, world), world)
           THEN Unruled ELSE c]
    /\ UNCHANGED <<world, file>>

\* Files come and go where the call writes; a patch also deletes.  A call that
\* writes a guarded place changes what the judgments are made from.
Run(a) ==
    /\ held[a] \in Calls
    /\ LET touched == Written(held[a], world)
       IN  IF touched \cap Guard = {}
           THEN /\ \E k \in IF held[a].tool = "apply_patch" THEN {"file", "absent"} ELSE {"file"} :
                      world' = [world EXCEPT !.kind =
                          [n \in Places |-> IF n \in touched THEN k ELSE @[n]]]
                /\ UNCHANGED file
           ELSE world' \in Worlds /\ file' \in Policies
    /\ held' = [held EXCEPT ![a] = None]

\* The agent is stopped, or the host's own permissions refuse the call.
Drop(a) ==
    /\ held[a] # None
    /\ held' = [held EXCEPT ![a] = None]
    /\ UNCHANGED <<world, file>>

Upheaval ==
    /\ world' \in Worlds /\ file' \in Policies
    /\ held' = [a \in Agents |-> IF held[a] = None THEN None ELSE Unruled]

RunUnruled(a) ==
    /\ held[a] = Unruled
    /\ world' \in Worlds /\ file' \in Policies
    /\ held' = [b \in Agents |-> IF b = a \/ held[b] = None THEN None ELSE Unruled]

Next == \/ \E a \in Agents : (\E c \in Calls : Submit(a, c)) \/ Run(a) \/ RunUnruled(a) \/ Drop(a)
        \/ Upheaval

Spec == Init /\ [][Next]_vars

-----------------------------------------------------------------------------
(* Properties *)

TypeOK ==
    /\ world \in World /\ file \in PolicyFile
    /\ held \in [Agents -> Calls \cup {None, Unruled}]

Spares(c, f, w) ==
    LET policy == load_hook_policy(f, c.folder, w)
    IN  /\ Written(c, w) \cap WriteBarred(policy) = {}
        /\ c.tool # "apply_patch" => Written(c, w) \cap Runtime = {}
        /\ Read(c, w) \cap ReadBarred(policy) = {}

\* A call in flight that the rules allowed, and not a person's approval, writes
\* no guarded, protected or outside place and reads no state, secret or outside
\* place, under the policy and the links as they are when it runs, whatever
\* calls of other agents ran since it was judged.  (A patch may write what the
\* hook executes from; see _patch_target.)
AllowedCallsSpare ==
    \A a \in Agents :
        held[a] \in Calls => Spares(held[a], file, world)

Idle == \A a \in Agents : held[a] = None

Decides(c, f) == judge_pretooluse_with_aeg_engine(c, f, world)

\* No policy, no approval, no spelling and no link gets a call that writes .aeg,
\* .git, a host's settings or a place outside the project anything but a denial.
\* (These four say what is decided next: they are asked between calls.)
GuardAlwaysDenied ==
    Idle => \A c \in Calls \ InvalidCall :
                Written(c, world) \cap (Guard \cup Outside) # {} => Decides(c, file) = "DENY"

Strictness == [ALLOW |-> 0, DEFER |-> 1, ASK |-> 2, DENY |-> 3]

Stricter(f, g) ==
    LET p == _read_policy_file(f)
        q == _read_policy_file(g)
    IN  p.allow \subseteq q.allow /\ p.commands \subseteq q.commands /\ q.protect \subseteq p.protect

\* The command lists a secret that lies in .aeg or outside: as a secret it may
\* be listed, and what is lifted may not.
ListsHiddenSecret(c, w) ==
    /\ c.tool \in CommandTools
    /\ \E p \in c.parse.metadata \cup {[name |-> c.folder, form |-> "plain"]} :
           /\ {p.name, w.to[p.name]} \cap Secret # {}
           /\ Opens(p, w) \in State \cup Outside

\* A policy that lifts no more, approves no more and protects no less never
\* gets a call a weaker decision.
StricterPolicyStricterDecision ==
    Idle => \A c \in {d \in Calls : ~ListsHiddenSecret(d, world)}, f \in Policies :
                Stricter(f, file) => Strictness[Decides(c, f)] >= Strictness[Decides(c, file)]

\* A file tool's call is decided by the file it opens: the name, the link and
\* the absolute path of a file are judged alike.
AliasesJudgedAlike ==
    Idle => \A c \in Calls : c.tool \in ReadLike \cup {"Write", "Edit"} /\ c.complete =>
                \A p \in c.paths, n \in Places, form \in {"plain", "absolute"} :
                    p.form \in {"plain", "absolute"} /\ world.to[n] = world.to[p.name]
                        => Decides([c EXCEPT !.paths = (@ \ {p}) \cup {[name |-> n, form |-> form]}], file)
                               = Decides(c, file)

\* A person's approval of a command lifts the refusal of a dangerous command
\* and no other: what it writes, the secrets it names and the guard's own
\* switches are still judged.
ApprovalLiftsDangerOnly ==
    Idle => \A c \in Calls :
                LET unapproved == [file EXCEPT !.commands = {}]
                IN  Decides(c, unapproved) = "DENY" /\ Decides(c, file) # "DENY"
                        => /\ c.parse.danger /\ ~c.parse.disables
                           /\ Decides([c EXCEPT !.parse.danger = FALSE], unapproved) # "DENY"
=============================================================================
