----------------------------- MODULE HookConfig -----------------------------
(***************************************************************************)
(* What "aeg install" and "aeg uninstall" make of a host's hook settings:  *)
(* the pure functions of jangseung/cli/install.py.                         *)
(*                                                                         *)
(* A settings file is its PreToolUse entries and the rest of its fields;   *)
(* the rest is a number that an edit of the user's changes.  A hook is the *)
(* user's own, or managed: "current" as this version writes it, "stale",   *)
(* "exec", a program with its arguments in args, or "unmarked", without    *)
(* the "--substrate codex" Codex needs.  "broken" is what a repair makes   *)
(* of an exec hook on Codex: a command line beside args, which             *)
(* _is_managed_hook no longer takes for its own.                           *)
(***************************************************************************)
EXTENDS Naturals, Sequences, SequencesExt

CONSTANTS Target,     \* the host: "claude-code" or "codex"
          Absent,     \* there is no file
          Broken      \* a file install will not modify

Others == {"user", "broken"}

Hook == Others \cup {"current", "stale", "unmarked", "exec"}

Matcher == {"aegis", "other"}

Entry == [matcher: Matcher, hooks: Seq(Hook)]

Settings == [entries: Seq(Entry), rest: Nat]

(* is_aegis_hook, _is_managed_codex_hook *)
Managed(h) == h \notin Others

ManagedIn(s) ==
  UNION {{<<i, j>> : j \in {k \in DOMAIN s.entries[i].hooks : Managed(s.entries[i].hooks[k])}}
           : i \in DOMAIN s.entries}

HookAt(s, p) == s.entries[p[1]].hooks[p[2]]

(* _find_aegis_hook: the first in the order of the file. *)
First(s) ==
  CHOOSE p \in ManagedIn(s) : \A q \in ManagedIn(s) :
    p[1] < q[1] \/ (p[1] = q[1] /\ p[2] <= q[2])

(* A Codex hook without its substrate is refused, not repaired. *)
Refused(s) ==
  Target = "codex" /\ \E p \in ManagedIn(s) : HookAt(s, p) = "unmarked"

(* Nothing to write: Claude Code's first managed hook, or every Codex one,   *)
(* is as this version writes it.                                             *)
Already(s) ==
  /\ ManagedIn(s) # {}
  /\ IF Target = "codex"
     THEN \A p \in ManagedIn(s) : HookAt(s, p) = "current"
     ELSE HookAt(s, First(s)) = "current" /\ s.entries[First(s)[1]].matcher = "aegis"

Appended_Assigns(s) ==
  [s EXCEPT !.entries = <<[matcher |-> "aegis", hooks |-> <<"current">>]>>]

Appended(s) ==
  [s EXCEPT !.entries = Append(@, [matcher |-> "aegis", hooks |-> <<"current">>])]

(* (Names with an underscore are mutants: the code with a plausible mistake.)*)
RepairedFirst_KeepsMatcher(s) ==
  [s EXCEPT !.entries[First(s)[1]].hooks[First(s)[2]] = "current"]

RepairedFirst(s) ==
  [s EXCEPT !.entries[First(s)[1]] =
     [matcher |-> "aegis", hooks |-> [@.hooks EXCEPT ![First(s)[2]] = "current"]]]

RepairedAll_FirstOnly(s) == RepairedFirst_KeepsMatcher(s)

(* The repair writes command (and command_windows) and leaves args. *)
Mended(h) == CASE h = "exec" -> "broken" [] Managed(h) /\ h # "exec" -> "current" [] OTHER -> h

Renewed(e) == [e EXCEPT !.hooks = [j \in DOMAIN e.hooks |-> Mended(e.hooks[j])]]

RepairedAll(s) ==
  [s EXCEPT !.entries = [i \in DOMAIN s.entries |-> Renewed(s.entries[i])]]

(* build_installed_settings, build_installed_codex_config_text *)
Merged(s) ==
  IF ManagedIn(s) = {} THEN Appended(s)
  ELSE IF Target = "codex" THEN RepairedAll(s) ELSE RepairedFirst(s)

(* build_uninstalled_settings, build_uninstalled_codex_config_text: an entry *)
(* that held nothing but managed hooks goes, one that was empty stays.       *)
Those(hooks, kinds) ==
  FlattenSeq([j \in DOMAIN hooks |-> IF hooks[j] \in kinds THEN <<hooks[j]>> ELSE <<>>])

KeptHooks(hooks) == Those(hooks, Others)

Trimmed(e) == [e EXCEPT !.hooks = KeptHooks(@)]

Emptied(e) == e.hooks # <<>> /\ KeptHooks(e.hooks) = <<>>

Unmanaged_DropsEntry(s) ==
  LET untouched(e) == \A j \in DOMAIN e.hooks : ~ Managed(e.hooks[j])
  IN [s EXCEPT !.entries = SelectSeq(@, untouched)]

Unmanaged(s) ==
  [s EXCEPT !.entries = FlattenSeq(
     [i \in DOMAIN s.entries |-> IF Emptied(s.entries[i]) THEN <<>> ELSE <<Trimmed(s.entries[i])>>])]

-----------------------------------------------------------------------------
(* What a settings file says besides the managed hooks: the tools each of    *)
(* the user's hooks is called for and whether its entry holds a managed hook *)
(* too, in their order, and the rest.                                        *)
UserHooksOf(e) ==
  [k \in DOMAIN Those(e.hooks, {"user"}) |->
     [matcher |-> e.matcher, shared |-> \E j \in DOMAIN e.hooks : Managed(e.hooks[j])]]

UserHooks(s) == FlattenSeq([i \in DOMAIN s.entries |-> UserHooksOf(s.entries[i])])

Foreign(f) == IF f \in {Absent, Broken} THEN <<>> ELSE UserHooks(f)

Rest(f) == IF f \in {Absent, Broken} THEN 0 ELSE f.rest

(* A hook of this version is registered, on Claude Code for all its tools. *)
Guarded(f) ==
  f \notin {Absent, Broken} /\
    \E p \in ManagedIn(f) :
      HookAt(f, p) = "current"
        /\ (Target = "claude-code" => f.entries[p[1]].matcher = "aegis")

(* An install that takes all its hooks for repaired leaves none that works. *)
Disarms(f) ==
  /\ f \notin {Absent, Broken} /\ Target = "codex" /\ ManagedIn(f) # {}
  /\ \A p \in ManagedIn(f) : HookAt(f, p) = "exec"
=============================================================================
