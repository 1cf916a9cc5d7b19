------------------------------ MODULE MCSession ------------------------------
(***************************************************************************)
(* A project with one name of every sort the rules tell apart, seen from   *)
(* its top and from a folder in it.                                        *)
(***************************************************************************)
EXTENDS Session, TLC

CONSTANTS a1, a2

McPlaces == {"top", "dir", "code", "doc", "new", "env", "build", "settings", "policy",
             "fsmonitor", "venv", "github", "elsewhere", "foreign", "link", "under"}
McState == {"policy"}
McGuard == {"policy", "settings"}
McSecret == {"env", "foreign"}
McHinted == {}
McNamed == {"build"}
McDocs == {"doc"}
McHolders == {"top", "github"}
McRuntime == {"venv"}
McOutside == {"elsewhere", "foreign"}
McWords == {"pytest", "other"}
McAgents == {a1, a2}

Symmetry == Permutations(McAgents)

\* link is a link to code, to the secret, to the policy file or out of the
\* project; git's configuration names fsmonitor or nothing; new is not there.
Project(target, programs) ==
    [to       |-> [n \in McPlaces |-> IF n = "link" THEN target ELSE n],
     beneath  |-> [f \in McPlaces |-> [n \in McPlaces |-> IF f = "top" THEN n ELSE "under"]],
     kind     |-> [n \in McPlaces |-> CASE n \in {"top", "dir", "github"} -> "folder"
                                        [] n \in {"new", "under"} -> "absent"
                                        [] OTHER -> "file"],
     guarded  |-> {"top", "dir"},
     programs |-> [f \in McPlaces |-> programs]]

McWorlds == {Project("code", {"fsmonitor"}), Project("env", {}), Project("policy", {}),
             Project("elsewhere", {"fsmonitor"})}

Lifting == [trusted |-> TRUE, allow |-> {"env", "foreign", "build", "settings", "policy", "fsmonitor"},
            protect |-> {}, commands |-> {"pytest"}]
McPolicies == {NoPolicy, Lifting,
               [Lifting EXCEPT !.protect = {"code"}],
               [Lifting EXCEPT !.trusted = FALSE]}

At(n, form) == [name |-> n, form |-> form]
Targets == McPlaces \ {"top", "dir", "github", "under"}

Use(tool, folder, complete, paths) ==
    [tool |-> tool, folder |-> folder, complete |-> complete, strays |-> FALSE, paths |-> paths]

\* Patches have fewer targets: what they delete multiplies the states.
FileCalls ==
    {Use(t, "top", TRUE, {At(n, f)}) : t \in {"Read", "Write"}, n \in Targets, f \in {"plain", "absolute"}}
    \cup {Use("apply_patch", "top", TRUE, {At(n, f)}) : n \in {"new", "settings", "venv", "link"}, f \in {"plain", "absolute"}}
    \cup {Use(t, "dir", TRUE, {At(n, "absolute")}) : t \in {"Write", "apply_patch"}, n \in {"new", "settings", "elsewhere"}}
    \cup {Use(t, "top", TRUE, {At(n, f)}) : t \in {"Search", "Edit"}, n \in {"code", "env"}, f \in {"up", "home"}}
    \cup {Use(t, "top", FALSE, {At("doc", "plain")}) : t \in {"Search", "Write", "apply_patch"}}
    \cup {Use("apply_patch", "top", TRUE, {At("new", "plain"), At("policy", "plain")})}
    \cup {[Use("Search", "top", TRUE, {At("dir", "plain")}) EXCEPT !.strays = TRUE]}

Blank == [read |-> FALSE, git |-> FALSE, narrow |-> TRUE, ambiguous |-> FALSE, readOnly |-> FALSE,
          danger |-> FALSE, disables |-> FALSE, plain |-> TRUE, files |-> {}, trees |-> {},
          compared |-> {}, metadata |-> {}, writes |-> {}, deletes |-> {}, mentions |-> {},
          word |-> "other"]
Command(tool, parse) == [tool |-> tool, folder |-> "top", complete |-> TRUE, parse |-> parse]

\* cat, ls, git diff, a redirection, rm, rm -rf, pytest with and without the
\* danger rules, pytest .env, aeg uninstall, and a command in another folder.
CommandCalls ==
    {Command("Bash", p) : p \in
        {[Blank EXCEPT !.read = TRUE, !.files = {At(n, "absolute")}, !.mentions = {n}] : n \in Targets}
        \cup {[Blank EXCEPT !.read = TRUE, !.metadata = {At(n, "plain")}] : n \in {"dir", "env", "foreign", "policy"}}
        \cup {[Blank EXCEPT !.read = TRUE, !.git = TRUE, !.narrow = b, !.compared = {At(n, "plain"), At("dir", "plain")}] :
                 n \in {"code", "new"}, b \in BOOLEAN}
        \cup {[Blank EXCEPT !.writes = {At(n, "plain")}, !.plain = b, !.word = "pytest"] : n \in Targets, b \in BOOLEAN}
        \cup {[Blank EXCEPT !.writes = {At(n, "plain")}, !.deletes = {At(n, "plain")}, !.danger = b, !.word = "pytest"] :
                 n \in {"code", "github", "env"}, b \in BOOLEAN}
        \cup {[Blank EXCEPT !.word = "pytest", !.danger = b, !.disables = b /\ d, !.mentions = m] :
                 b \in BOOLEAN, d \in BOOLEAN, m \in {{}, {"env"}}}}
    \cup {Command("PowerShell", [Blank EXCEPT !.writes = {At(n, "plain")}, !.readOnly = TRUE, !.ambiguous = b]) :
             n \in {"code", "settings", "elsewhere"}, b \in BOOLEAN}
    \cup {[Command("Bash", [Blank EXCEPT !.word = "pytest"]) EXCEPT !.folder = f] : f \in {"dir", "elsewhere"}}

McCalls == FileCalls \cup CommandCalls \cup {[tool |-> "unsupported"]}
=============================================================================
