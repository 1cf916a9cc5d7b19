------------------------------ MODULE Install -------------------------------
(***************************************************************************)
(* "aeg install" and "aeg uninstall" running beside each other and beside  *)
(* a user who edits the settings: jangseung/cli/install.py.  A command     *)
(* reads the file, shows the change, waits for an answer, copies what is   *)
(* there by then, prepares .aeg/ and replaces the file by the text it had  *)
(* computed from what it read.  It may fail or be killed between any two   *)
(* steps.                                                                  *)
(***************************************************************************)
EXTENDS Naturals, Sequences

CONSTANTS Proc,         \* the commands, one process each
          InitialFile,  \* what the settings may be at the start
          Name,         \* names of backup files (one per second, or counted)
          MaxEdits,     \* bound: edits by the user
          Absent,       \* there is no file
          Broken,       \* a file install will not modify
          Partial       \* what is in a backup whose copy was not finished

VARIABLES target,      \* the host the commands are for
          command,     \* which command each process is
          file,        \* the host's settings file
          backups,     \* the backup files, by name
          recording,   \* .aeg: "absent", "bare", "ready" (with .gitignore), "bad"
          pc,          \* where each command is
          plan,        \* the text it will write
          seen,        \* the file as it read it
          name,        \* the name it chose for the backup
          source,      \* the file it has opened to copy
          fresh        \* history: the file is as it was when it last read or copied it

arguments == <<target, command>>
settings == <<file, fresh>>
vars == <<arguments, settings, backups, recording, pc, plan, seen, name, source>>

INSTANCE HookConfig WITH Target <- target

ASSUME InstallAssumption ==
  /\ MaxEdits \in Nat
  /\ Absent # Broken /\ {Absent, Broken} \cap Settings = {}
  /\ InitialFile \subseteq Settings \cup {Absent, Broken}

existed(p) == seen[p] # Absent

Idle == {"start", "installed", "uninstalled", "unchanged", "failed"}

Location ==
  Idle \cup {"ask", "check", "choose", "copy", "copying", "prepare", "mkdir", "ignore", "replace",
             "recheck", "ask-repair", "repair", "repair-mkdir", "repair-ignore"}

TypeOK ==
  /\ recording \in {"absent", "bare", "ready", "bad"}
  /\ DOMAIN backups \subseteq Name
  /\ pc \in [Proc -> Location]
  /\ fresh \in [Proc -> BOOLEAN]
  /\ target \in {"claude-code", "codex"}
  /\ command \in [Proc -> {"install", "uninstall"}]
  /\ plan = [p \in Proc |-> plan[p]] /\ seen = [p \in Proc |-> seen[p]]
  /\ name = [p \in Proc |-> name[p]] /\ source = [p \in Proc |-> source[p]]
  /\ \A p \in Proc :
       /\ pc[p] \in Location \ Idle => command[p] = "install" \/ existed(p)
       /\ pc[p] \in {"copy", "copying"} => existed(p) /\ name[p] \in Name

Init ==
  /\ target \in {"claude-code", "codex"}
  /\ command \in [Proc -> {"install", "uninstall"}]
  /\ file \in InitialFile
  /\ backups = <<>>
  /\ recording \in {"absent", "ready", "bad"}
  /\ pc = [p \in Proc |-> "start"]
  /\ plan = [p \in Proc |-> Absent]
  /\ seen = [p \in Proc |-> Absent]
  /\ name = [p \in Proc |-> Absent] /\ source = [p \in Proc |-> Absent]
  /\ fresh = [p \in Proc |-> FALSE]

Goto(p, l) == pc' = [pc EXCEPT ![p] = l]

Move(p, from, to) ==
  pc[p] = from /\ Goto(p, to)

Seen == IF file = Absent THEN [entries |-> <<>>, rest |-> 0] ELSE file

-----------------------------------------------------------------------------
(* load_settings or _load_text_file, and what the command makes of it. *)
Read(p) ==
  /\ pc[p] = "start"
  /\ seen' = [seen EXCEPT ![p] = file] /\ fresh' = [fresh EXCEPT ![p] = TRUE]
  /\ \/ /\ file = Broken
        /\ Goto(p, "failed") /\ UNCHANGED plan
     \/ /\ file # Broken /\ command[p] = "install" /\ Refused(Seen)
        /\ Goto(p, "failed") /\ UNCHANGED plan
     \/ /\ file # Broken /\ command[p] = "install" /\ ~ Refused(Seen) /\ Already(Seen)
        /\ Goto(p, "recheck") /\ UNCHANGED plan
     \/ /\ file # Broken /\ command[p] = "install" /\ ~ Refused(Seen) /\ ~ Already(Seen)
        /\ Goto(p, "ask") /\ plan' = [plan EXCEPT ![p] = Merged(Seen)]
     \/ /\ file # Broken /\ command[p] = "uninstall" /\ ManagedIn(Seen) = {}
        /\ Goto(p, "unchanged") /\ UNCHANGED plan
     \/ /\ file # Broken /\ command[p] = "uninstall" /\ ManagedIn(Seen) # {}
        /\ Goto(p, "ask") /\ plan' = [plan EXCEPT ![p] = Unmanaged(Seen)]
  /\ UNCHANGED <<arguments, file, backups, recording, name, source>>

(* _confirm, or --yes. *)
Answer(p) ==
  /\ pc[p] = "ask"
  /\ \/ Goto(p, IF command[p] = "install" THEN "check" ELSE "choose")
     \/ Goto(p, "unchanged")
  /\ UNCHANGED <<arguments, settings, backups, recording, plan, seen, name, source>>

(* _write_install looks at .aeg before it touches anything. *)
CheckRecording_NoBackup(p) ==
  /\ pc[p] = "check" /\ recording # "bad"
  /\ Goto(p, "prepare")
  /\ UNCHANGED <<arguments, settings, backups, recording, plan, seen, name, source>>

CheckRecording(p) ==
  /\ pc[p] = "check" /\ recording # "bad"
  /\ Goto(p, IF existed(p) THEN "choose" ELSE "prepare")
  /\ UNCHANGED <<arguments, settings, backups, recording, plan, seen, name, source>>

(* _backup_file: a name that is free when it looks, then a copy of the file: *)
(* copy2 opens both, which empties what has the name by then, and writes.    *)
ChooseName(p) ==
  /\ Move(p, "choose", "copy")
  /\ \E n \in Name \ DOMAIN backups : name' = [name EXCEPT ![p] = n]
  /\ UNCHANGED <<arguments, settings, backups, recording, plan, seen, source>>

Written(n, content) ==
  backups' = [m \in DOMAIN backups \cup {n} |-> IF m = n THEN content ELSE backups[m]]

CopyFile(p) ==
  /\ file # Absent
  /\ Move(p, "copy", "copying")
  /\ Written(name[p], Partial)
  /\ source' = [source EXCEPT ![p] = file] /\ fresh' = [fresh EXCEPT ![p] = TRUE]
  /\ UNCHANGED <<arguments, file, recording, plan, seen, name>>

Finished == {"prepare", "mkdir", "ignore", "replace", "installed", "uninstalled"}

(* Two copies under one name mix, unless both are of one text and finished.  *)
Spoils(q, p) ==
  /\ q # p /\ name[q] = name[p] /\ source[q] # Absent
  /\ ~ (pc[q] \in Finished /\ source[q] = source[p])

FinishCopy(p) ==
  /\ Move(p, "copying", IF command[p] = "install" THEN "prepare" ELSE "replace")
  /\ \/ Written(name[p], source[p])
     \/ (\E q \in Proc : Spoils(q, p)) /\ Written(name[p], Partial)
  /\ UNCHANGED <<arguments, settings, recording, plan, seen, name, source>>

(* _prepare_recording: look, make the directory, write its .gitignore. *)
Prepare_AfterReplace(p) ==
  /\ Move(p, "prepare", "replace")
  /\ UNCHANGED <<arguments, settings, backups, recording, plan, seen, name, source>>

Prepare(p) ==
  /\ recording # "bad"
  /\ \/ Move(p, "prepare", IF recording = "absent" THEN "mkdir" ELSE "replace")
     \/ Move(p, "repair", IF recording = "absent" THEN "repair-mkdir" ELSE "unchanged")
  /\ UNCHANGED <<arguments, settings, backups, recording, plan, seen, name, source>>

MakeDirectory(p) ==
  /\ recording = "absent"
  /\ Move(p, "mkdir", "ignore") \/ Move(p, "repair-mkdir", "repair-ignore")
  /\ recording' = "bare"
  /\ UNCHANGED <<arguments, settings, backups, plan, seen, name, source>>

WriteIgnore(p) ==
  /\ Move(p, "ignore", "replace") \/ Move(p, "repair-ignore", "unchanged")
  /\ recording' = "ready"
  /\ UNCHANGED <<arguments, settings, backups, plan, seen, name, source>>

(* _atomic_write_text: the staged text replaces whatever is there. *)
Replace(p) ==
  /\ Move(p, "replace", IF command[p] = "install" THEN "installed" ELSE "uninstalled")
  /\ file' = plan[p] /\ fresh' = [q \in Proc |-> FALSE]
  /\ UNCHANGED <<arguments, backups, recording, plan, seen, name, source>>

(* _repair_recording_setup: the hook is there, .aeg may not be. *)
Recheck(p) ==
  /\ recording # "bad"
  /\ Move(p, "recheck", IF recording = "absent" THEN "ask-repair" ELSE "unchanged")
  /\ UNCHANGED <<arguments, settings, backups, recording, plan, seen, name, source>>

AnswerRepair(p) ==
  /\ Move(p, "ask-repair", "repair") \/ Move(p, "ask-repair", "unchanged")
  /\ UNCHANGED <<arguments, settings, backups, recording, plan, seen, name, source>>

Fail_Swallowed(p) ==
  /\ pc[p] \notin Idle
  /\ Goto(p, IF pc[p] = "replace" /\ command[p] = "install" THEN "installed" ELSE "failed")
  /\ UNCHANGED <<arguments, settings, backups, recording, plan, seen, name, source>>

(* An error of the file system, .aeg being bad or made by another command    *)
(* included, or a kill.  What a failed copy has written stays.               *)
Fail(p) ==
  /\ pc[p] \notin Idle
  /\ Goto(p, "failed")
  /\ UNCHANGED <<arguments, settings, backups, recording, plan, seen, name, source>>

(* The user, or the host, saves the settings with another field changed. *)
Edit ==
  /\ file # Broken
  /\ Rest(file) < MaxEdits
  /\ file' = [Seen EXCEPT !.rest = @ + 1] /\ fresh' = [p \in Proc |-> FALSE]
  /\ UNCHANGED <<arguments, backups, recording, pc, plan, seen, name, source>>

Step(p) ==
  \/ Read(p) \/ Answer(p) \/ CheckRecording(p) \/ ChooseName(p) \/ CopyFile(p) \/ FinishCopy(p)
  \/ Prepare(p) \/ MakeDirectory(p) \/ WriteIgnore(p) \/ Replace(p)
  \/ Recheck(p) \/ AnswerRepair(p) \/ Fail(p)

Next == Edit \/ \E p \in Proc : Step(p)

Spec == Init /\ [][Next]_vars

-----------------------------------------------------------------------------
(* Properties. *)

(* On Claude Code an install may have widened the matcher of this hook, whose*)
(* entry held a managed one too.                                             *)
Widened(k) ==
  \E q \in Proc :
    /\ target = "claude-code" /\ command[q] = "install"
    /\ k \in DOMAIN Foreign(seen[q]) /\ Foreign(seen[q])[k].shared

(* Beside other commands, stopped anywhere, one that has seen the user's last*)
(* edit keeps the other fields, and each of the user's hooks for the tools it*)
(* is called for; these change only where an install repaired the matcher of *)
(* a managed hook in the same entry.                                         *)
ForeignKept ==
  [][\A p \in Proc : Replace(p) /\ Rest(seen[p]) = Rest(file) =>
       /\ Rest(file') = Rest(file) /\ Len(Foreign(file')) = Len(Foreign(file))
       /\ \A k \in DOMAIN Foreign(file) :
            Foreign(file')[k].matcher = Foreign(file)[k].matcher \/ Widened(k)]_vars

(* A hook is registered only when there is a directory it can record in:     *)
(* "Reject invalid state before backup/write", and .aeg before the settings. *)
RegisteredCanRecord ==
  [][\A p \in Proc : pc[p] # "installed" /\ pc'[p] = "installed"
       => recording \in {"bare", "ready"}]_vars

(* After an install that says it is done the hook is registered, for all the *)
(* tools on Claude Code, as long as nobody runs uninstall; but on Codex it   *)
(* may not be where an install found exec hooks alone.                       *)
InstalledIsGuarded ==
  (\A p \in Proc : command[p] = "install") =>
    \A p \in Proc : pc[p] = "installed" =>
      Guarded(file) \/ \E q \in Proc : pc[q] = "installed" /\ Disarms(seen[q])

Writing ==
  {"ask", "check", "choose", "copy", "copying", "prepare", "mkdir", "ignore", "replace"}

(* Beside installs alone, what a command on its way will write guards, with  *)
(* the same exception.                                                       *)
PlansGuard ==
  (\A p \in Proc : command[p] = "install") =>
    /\ file \in Settings \cup {Absent, Broken}
    /\ \A p \in Proc : pc[p] \in Writing =>
         plan[p] \in Settings /\ (Guarded(plan[p]) \/ Disarms(seen[p]))

(* Whoever is about to register a hook has a directory to record in.         *)
Recordable ==
  \A p \in Proc :
    pc[p] = "replace" /\ command[p] = "install" => recording \in {"bare", "ready"}

Alone(p) == \A q \in Proc : ~ Spoils(q, p)

(* What a command saw or copied last, and is still there, is in its backup,  *)
(* unless a copy of another's spoils it.                                     *)
BackedUp ==
  \A p \in Proc :
    /\ pc[p] \in {"choose", "copy"} => existed(p)
    /\ pc[p] \in {"start", "ask", "check", "choose", "copy"} => source[p] = Absent
    /\ pc[p] = "copying" => source[p] # Absent
    /\ fresh[p] /\ ~ existed(p) => file = Absent
    /\ fresh[p] /\ file # Absent /\ pc[p] \in {"copying", "prepare", "mkdir", "ignore", "replace"} =>
         source[p] = file
    /\ fresh[p] /\ file # Absent /\ pc[p] \in {"prepare", "mkdir", "ignore", "replace"} /\ Alone(p) =>
         name[p] \in DOMAIN backups /\ backups[name[p]] = file

(* What holds at any moment: the types, that a finished install guards, and  *)
(* what a command that is not finished relies on.                            *)
InstallInv == TypeOK /\ InstalledIsGuarded /\ PlansGuard /\ Recordable /\ BackedUp

(* Running install again finds nothing to do: one run repairs what there is, *)
(* or, of a Codex file with exec hooks alone, two.                           *)
InstallSettles ==
  file \notin {Absent, Broken} /\ ~ Refused(file) /\ ~ Already(file) =>
    LET once == Merged(file)
    IN /\ ~ Refused(once)
       /\ Already(once) \/ (Disarms(file) /\ Already(Merged(once)) /\ ~ Refused(Merged(once)))

(* "Always back up an existing settings file before writing": the file that  *)
(* a command replaces, unchanged since the command last read or copied it,   *)
(* is in a backup, even when another command has taken the same name for it, *)
(* unless that one is still in its copy, was stopped or copied another text. *)
ReplacedIsBackedUp ==
  [][\A p \in Proc : Replace(p) /\ fresh[p] /\ file # Absent /\ Alone(p) =>
       \E n \in DOMAIN backups : backups[n] = file]_vars

=============================================================================
