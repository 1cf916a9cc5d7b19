# Verification of jangseung (Aegis)

Jangseung is a guard for coding agents. A host (Claude Code or Codex) starts
`aeg hook-run` before each tool call, passes it the call on standard input and
obeys the answer. Around that hook the package keeps evidence (a hash-chained
ledger of hook decisions and a store of `aeg run` evidence) and installs itself
in the host's settings. This directory holds TLA+ models of the parts where
processes, files and failures meet and of the decision itself, the TLC runs that check them on small
instances, and TLAPS proofs of what matters most for every instance.

Paths are relative to the repository; line numbers are those of this commit.

## 1. Inventory

| Part | Code | State it keeps | Operations |
|---|---|---|---|
| hook lock | `state/file_lock.py` | `.aeg/hook_ledger.guard` (flock), `.aeg/hook_ledger.lock` (PID sentinel) | `exclusive_hook_lock`: guard, sentinel, recovery of a dead owner's sentinel, deadline, release |
| hook ledger | `state/hook_ledger.py` | `.aeg/hook_ledger.jsonl`, its quarantine files | `append_hook_decision_record`, `read_hook_ledger`, `hook_ledger_needs_repair`, `repair_hook_ledger` |
| run store | `state/store.py`, `evidence/ledger_integrity.py`, the chain checks of `evidence/verify.py` | `.aeg/config.json`, `.aeg/runs/<id>/*.json`, `.aeg/ledger.jsonl` | `ensure_initialized`, `save_run`, `read_ledger`, the walk of `aeg verify` |
| hook process | `cli/entry.py`, `cli/hook_run.py` | none beyond its own variables | parse, read, judge, record, answer, exit |
| installer | `cli/install.py` | `.claude/settings.json` or `.codex/config.toml`, backups, `.aeg/` | `install`, `uninstall`, recording repair |
| judgment engine | `evidence/hook_judgment_engine_alignment.py`, `law/gates.py` | none; reads the file system and `.aeg/policy.json` | a tool call to allow, ask, deny or defer |
| tool call mapping | `evidence/claude_code_tool_call_mapping.py`, the input contract, structured actions, capabilities | none | a host's JSON to an action with targets |
| command classification | `classify/*`, `evidence/shell_read_only.py`, `evidence/shell_command_risk.py` | none | text of a command to a verdict |
| run pipeline | `cli/main.py`, `state/git.py`, `agents/noop.py`, `evidence/mutation_boundary.py`, `citizen_one.py`, `provider_adapter.py`, `evidence/packet.py` | the work tree before and after an agent | `aeg run` |
| ingress and routing | `evidence/structured_actions.py`, `structured_action_capabilities.py`, `executor_output_ingress.py`, `action_decision_routing.py` (and the constant records of `pre_live_executor_gate.py`, `tool_surface.py`) | in-memory packets and their evidence | an executor's output to a validated, gated candidate |
| write mediation | the sinks and contexts of `state/store.py`, `evidence/store_write_mediation.py`, `store_adjacent_runtime_seal.py`, the mediators, the B1 guard | two context variables that say who writes; the events of a save | who may write under `.aeg/`, what a saved run says of it |
| schema and packets | `evidence/schema.py`, `contracts.py`, `binding.py` | none | constants, required fields, hashes |
| diagnosis | `state/doctor.py`, `cli/hook_doctor.py`, `cli/explain.py`, `state/evidence_query.py` | none | read-only reports |

How they interact. The host starts one *hook process* per tool call, several at
a time. A hook process asks the *judgment* for a decision and then, before it
answers, takes the *hook lock* and appends to the *hook ledger*; a failure there
is a note on the answer, never another answer. `aeg evidence repair-hooks`
takes the same lock. `aeg run` (the *run pipeline*) looks at the work tree with
git, calls its executor, looks again, judges the difference and hands a packet to
the *run store*, which saves it without any lock; every write of the store passes
the sink guard of *write mediation*, whose record of a save tries the gate of
*ingress and routing* and becomes part of the packet. The
*installer* registers the hook in a file the host and the user also write and
prepares the directory the hook records in: the hook does not create it. An
allowed call runs after its hook process has ended, on the disk that other calls
have changed meanwhile, and what it changes (links, `.aeg/policy.json`, git's
configuration) is what the next call is judged by.

What is hard here: processes that are killed anywhere (hosts kill hooks);
writers of an older release that know half of the lock; PIDs that are reused;
lines that are half written; a repair that races with appends; commands that
decide from what they read before they asked; exit codes that the host
takes for "go on" unless they are 0 or 2; and a decision put together from a
dozen gates, each asked about a path the call, the gates and the host may spell
differently. In `aeg run`: a tree that its user changes between any two calls of
git; records that say the same in several places and are verified by code written
apart from the code that builds them; authority that is a context variable and
must end with its block. `PROJECT.json` lists each such hazard
with its line and the properties about it.

## 2. Modules

| Module | Models | Notes |
|---|---|---|
| `HookMutex` | what the lock promises | abstract: one holder, free again when it leaves or dies |
| `HookLock` | `exclusive_hook_lock` | implements `HookMutex` |
| `HookLog` | what "append-only" means | abstract: distinct entries, added one at a time at the end, until somebody else edits the file |
| `HookLedger` | append, read and repair of the hook ledger | uses `HookMutex` for its lock; implements `HookLog` |
| `HookLedgerDisk` | the same ledger behind a page cache and in a directory nobody syncs, with power failures | extends `HookLedger` |
| `RunStore` | `aeg init`, `save_run`, the chain walk of `aeg verify` | implements `HookLog` |
| `StructuredAction` | the schema of an executor's action and the capability gate | pure operators |
| `Routing` | the ingress adapter, the packet's evidence and its verifier, the candidate gate | pure operators; extends `StructuredAction` |
| `Executor` | an output on its way to a candidate, with whoever rebuilds or alters packet and evidence | extends `Routing` |
| `Seal` | the record of the gate's own tries when a run is saved | pure operators; extends `Routing` |
| `StoreWriteMediation` | the record of a run's writes and its verifier | pure operators; extends `Seal` |
| `Mediation` | the write sinks, their contexts in several threads, and `save_run` among them | extends `StoreWriteMediation` |
| `RunEvidence` | snapshots, their difference, the verdict, packet, manifest and ledger line, and what `aeg verify` asks of them | pure operators |
| `RunPipeline` | one `aeg run`, its user, and somebody who changes the record | extends `RunEvidence` |
| `HookRun` | one hook process | the judgment is a parameter, the ledger is "recorded, failed, or failed with the record written" |
| `HookConfig` | what install and uninstall make of a settings file | pure functions |
| `Install` | the steps of install and uninstall, and a user | instantiates `HookConfig` for the host |
| `Judgment` | the decision about one call: mapping, path rules, policy, law, gates | pure operators, no state |
| `Session` | agents that submit and run calls against one project | extends `Judgment` |
| `HookLockProofs`, `HookRunProofs`, `SessionProofs`, `RunStoreProofs`, `RunPipelineProofs`, `InstallProofs` | theorems | each extends the module it is named after |
| `HookLedgerProofs`, `ExecutorProofs` | theorems | about `HookLedger` and `HookLedgerDisk`; about `Executor` and `Mediation`, which share the gate |
| `MC*` | constants for TLC | |

Definitions with a comment that begins `Mutant:`, whose names end in an
underscore and a capitalised word (`Restat_NoCompare`), are the code with a
plausible mistake, which the property they belong to exposes. No specification
uses them.

### How state and actions correspond to the code

**HookLock.** One variable per file (`guard`, `sentinel`), the writers' place in
the function (`pc`), their PIDs and the PIDs of unrelated processes. Each system
call is an action: the flock, `open(O_EXCL)`, the read of the PID with the first
`stat`, the probe, the second `stat`, the unlink, the write of the PID, the
unlink and close of the `finally` block. A sentinel's (device, inode, mtime,
size) becomes a flag per recovering writer, "still the file I recorded", which
any change of the file clears. The Windows branches are the same protocol with
other calls. `Die` may strike anywhere and may leave a zombie.

**HookLedger.** The file is a sequence of lines and a flag "the last one has no
newline". A line keeps its number, how JSON spells it (an integer, `true`, a
float), its previous hash and its own hash. A hash covers the rest of a record, so
it is modelled by a number that is issued once. The reader compares numbers with
`!=` (`hook_ledger.py:444`), for which 5.0 is 5; the writer wants an integer in the
last record (318): `Refuses` is the writer's rule, `Readable` the reader's. An
append takes one write or two; a write or fsync may fail after any part; a
process may be killed between any two steps. Outsiders edit the file when no
process holds the lock, and may write a number anew with a hash that fits
(`Renumber`); `tampered` has the acknowledged records they destroyed. `LookForDamage` is the look of `aeg evidence
repair-hooks` before its prompt and outside the lock; `Quarantine` looks again.

**HookLedgerDisk.** `disk` is what is stored of the ledger file, `linked` whether
the stored directory leads to that file, `entry` what is stored of the file it
leads to otherwise. `CachedStep` is a step of `HookLedger`: an acknowledgement
(`Acknowledge`) stores the file and not the directory, `os.replace` (`Displace`)
puts a file in the ledger's place of which nothing need be stored. `Writeback` and
`StoreEntry` are the kernel's, `PowerLoss` takes what is not stored, or some of it.

**RunStore.** Saves read the ledger's last position, write three files and
append one line; each may fail at each step. The line of a run stands for the
run's hashes: altering it is seen by its own hash, its neighbour, its manifest or
its evidence. Nothing hashes `run.json`; verify compares its `run_id`,
`risk_level` and `status` with the line where they are present (`verify.py:727`),
so an outsider may also leave it `reworded`, with other fields changed, and the
walk goes on.

**StructuredAction, Routing, Executor.** An output keeps what the code looks at:
whether it parses, which of the runtime's own fields it has, whether the action
is wrapped, and of the action its type, shape, forbidden fields, paths (the field
they are in, how they are nested, whether they are absolute or climb), the
capabilities it asks for in order, and the claims of authority at its top, inside
it and beside it. The operators have the names of the functions; the first `CASE`
that applies is the function's first return. A digest is modelled by the value it
is of, so an altered record whose hash is computed again is the altered record
with its own digest. `Ingest`, `Bind`, `Check`, `Judge` and `Submit` are the calls
of the API; `Rebuild` and `AlterEvidence` are whoever holds a packet or its evidence.
Where the project's links lead is an argument of `Ingest` only: the code follows
them there and nowhere else. Links that go around are a `loop` where
`Path.resolve` raises, before Python 3.13, and lead `around`, to a name inside the
project, where it does not; the package runs on both (`ci.yml:50`).

**Seal, StoreWriteMediation, Mediation.** The two context variables of
`state/store.py` are `sink` and `active`, one value for each thread; `open` holds
what each `with` block will put back. `EnterTrusted`, `EnterExecutor`, `Exit`
(the end of a block or an exception out of it) and `Adopt` (a thread that takes
over a context, or makes a capability by hand) are the steps on them;
`_write_json` and `_append_ledger_unmediated` are the sinks. `save_run` is `pc`:
`Look` and `attempt_*` for each attempt of the executor, the plans of the
runtime's own writes with the metadata, then the writes. A file is who wrote it
last. `Alter` changes one field of the saved record and may compute the hash
again. What `_write_json` truncates and renames belongs to `RunStore`.

**RunEvidence, RunPipeline.** The work tree is of files; what the program has of
them is the names git writes, which `status_name` and `diff_name` give: `git status
--porcelain=v1` puts a name with a space, or one that is not ASCII, in quotes, `git
diff` the second kind only, and `git.py:147-153` and 175-179 take no quotes off.
`Path` and `Protected` are of such names. A line of `git status` is a name, where a
rename came from, one of four states, and whether `git diff`, asked in a second call,
names it. `AskStatus` and `capture_pre` are the two calls of the first snapshot,
the executor follows with the second one, `Ask` is each of the three questions of
`build_evidence_packet`. Between any two of them a `User` may edit, stage,
restore, rename, commit, prune commits or move the repository. `Somebody` then
changes a field of the evidence, of the manifest, or of both, or puts in another
verdict, and may remake hashes, bindings and the ledger line. `verify_latest` is
the conjunction of the checks of `verify.py` that relate fields; a function of the
code is an operator of the same name.

**HookRun.** `pc` follows `entry.main`, `main`, `run_hook_cli`. Each call that
can raise has the alternative that it raises, and each handler is where the code
has it. `HostRuns` (what the host makes of the exit code and the output) comes
from `entry.py:3` and `hook_run.py:1-40`.

**Install.** A settings file is its list of `PreToolUse` entries (matcher and
hooks) and a number for everything else that a user's edit changes. A hook is
the user's, current, stale, a program with arguments (`exec`), (Codex) without its
substrate, or `broken`: what a repair on Codex makes of an exec hook, a new command
beside the old `args`, which is no longer taken for a managed one. `Foreign` is
what a file says of the user's hooks: for each the matcher of its entry, and
whether a managed hook shares the entry. `Read`, `Answer`, `CheckRecording`,
`ChooseName`, `CopyFile` (the backup is opened, and empty), `FinishCopy`,
`Prepare`, `MakeDirectory`, `WriteIgnore` and `Replace` are the steps of one command
in the order of `_write_install`; `Fail` stops it between any two. `fresh` is history:
whether the file is still as a command last read or copied it.

**Judgment.** Operators keep the names of the functions they stand for.
`judge_pretooluse_with_aeg_engine` decides from a call, the content of
`.aeg/policy.json` and the disk. A path is a name and a form (`plain`,
`absolute`, `up` for one with `..`, `home` for one the host resolves itself).
The lexical rules (`_is_guard_path`, `_is_builtin_secret`, ...) are the sets of
names they match, constants of the module; a rule that matches a name matches it
in every form. The world says what a name opens when its links are followed,
what is there, what git's configuration names as a program to run, and what a
name becomes when it is taken from another folder. The text of a command is
replaced by what its parsers return (`Parse`): the files, trees and folders it
reads, what it writes and deletes, whether the danger rules match. Every
combination of these is a legal call, also one no text produces.

The operators were compared with the program: 18,356 calls, built on a real
project from the same names, were judged by both. 21 answers differ, all of two
kinds: an incomplete Write of one of git's programs spelled with `..` or `~`
(the program defers it, the module denies it), and calls about a `.github`
folder that the compared project did not have.

**Session.** `Submit` judges a call from the disk as it is; an allowed one stays
in flight until `Run` applies its effect or `Drop` gives it up. `Upheaval` is
anything the rules do not answer for: a person's edit, a call a person lets
through, a commit of another tool, a patch that deletes a link. A call that was
in flight then is `Unruled`, and so is a command the policy approves by its
first word, whatever it does: both may change everything. An incomplete call has
no effect, since the host refuses it.

## 3. Runs

| Run | Question | Result |
|---|---|---|
| `lock` | two current writers and one of 0.1.2, two reused PIDs, kills, fairness | the inductive invariant of the proof (with mutual exclusion), no live owner robbed, refinement of `HookMutex`; attempts end and stale sentinels go |
| `ledger` | two hooks, two repairs, four records, two edits | `LedgerInv` (nothing acknowledged is lost, one chain, the knowledge of the lock's holder); refused means repairable and repair heals, but for a last record whose number is no integer; an append-only log while nobody else edits |
| `ledger_power` | two hooks, one repair, one edit, power failures | an acknowledged append survives unless a repair had moved it, or the power fails in one of two windows that the property names |
| `store` | three saves, one init, two edits | listed means complete; serial runs verify; tampering with what a hash or the walk covers shows; no saved run vanishes; append-only |
| `hook_run` | one process, both hosts, any decision, every failure | fail closed; recording neutral; an answer is recorded or says it is not |
| `install` | two commands of either kind, both hosts, one user edit, all small settings files | only managed hooks change, and matchers they share; what is installed sees every tool, backups hold what was replaced, a second install does nothing: each with the exception the property names; registration order |
| `judgment` | two agents, four projects, four policies, 140 calls | an allowed call touches nothing it may not, also when it runs later; what the guard covers is denied; a stricter policy never decides more loosely; two names of a file are judged alike; an approval lifts the danger rating and nothing else |
| `executor` | 249 outputs, a link out of the project and one that goes around, under either kind of Python, packet rebuilt, one field of the evidence changed | a candidate is earned by what was heard; claims never help; evidence passes exactly when it is the packet's own; gate and evidence agree |
| `mediation` | one thread beside a save with up to two attempts, two repositories, writes from outside, one change of the record | nothing of an executor under `.aeg/`; a quiet run verifies; what verifies follows from its events; a run with an attempt that went through does not |
| `pipeline` | one run, a protected file, a document and a protected file that is new and has a quoted name, two events, one of them a change of the record | every listed name is judged and a protected one gates; a run that could not look is not clean; an honest run verifies exactly when it should; a quiet run keeps its verdict; alterations show, and what verifies is consistent |
| `ledger_named`, `hook_run_flush` | one statement of the documentation each | violated: see section 6 |

The invariants that end in `Inv` are conjunctions of a type invariant, of named
promises to the system's users and of what a proof needs beyond them, each
defined and explained where it stands in its module.

Bounds, and why they are enough. *Lock:* a violation of exclusion needs a
recovering writer, the owner it suspects and one more that replaces the
sentinel; two current writers and one old one with two PIDs, reused at will,
give all of them, and the theorems hold for any number. *Ledger:* four records
allow a damaged line with records before and behind it and the repair record
after it; two hooks and two repairs give a repair that races with an append and
with a repair; two edits allow a damage that is hidden by a second. `MaxRecords`
and `MaxFiles` only stop writers early, which a failing disk may do as well.
*Store:* the third run is the one that appends behind two that overlapped; the
second edit is what may hide the first, so `TamperEvident` speaks of one.
*Install:* one entry of up to two hooks, of every kind in every order, with either
matcher, and two entries of one hook each, with different matchers: that is a
managed hook before, behind and beside a user's, two managed hooks of different
kinds, and an exec hook alone or beside a current one. Two names for backups are enough for two commands to take the
same one or each its own (the theorems hold for any number of commands, names,
entries and hooks). *Judgment:* one name of every sort the rules tell apart, and
a link that leads to an ordinary file, to a secret, to the policy file or out of
the project; a policy that lifts everything it can, the same with a protected
name, the same untrusted, and none; calls from the top of the project, from a
folder in it and from outside. A second agent is what makes a call run in a
world that was changed after it was judged. That the names are enough is what
the theorems add: they hold for any sets of names, worlds, policies and calls.
*Executor:* one name of every sort; outputs that vary type with capabilities,
paths with their field, form and nesting, forbidden fields, claims in every place
by kind, and every combination of the runtime's own fields; the parts of the code
that look at different parts of an output share nothing but the order of their
refusals, which the combined outputs cross. By the constraint `Told` only outputs
that name the loop are followed under both kinds of Python. *Mediation:* two nested blocks of two
repositories and two capabilities are what a stale or foreign capability needs;
two attempts, because the second meets the file of the first. The constraint
`Apart` leaves out states where a thread's blocks are open while a save is under
way: what a thread can do to the files and the ledger a save looks at,
`Outside` does too, and a save reads no thread's context; nor does it look on
after a thread's first write, which steers no thread (the state the write leaves
is checked). The theorems need no such constraint. *Pipeline:* two events are an edit that hides another and an
edit beside a commit; a rename to the quoted name and an edit of it are among them; at most one change of the record, since two fields that
must agree are changed together by `AlterBoth` and `AlterVerdict`. By the
constraint `Few` a blank task and the proposal options, which do not depend on
the tree, are explored in runs nobody disturbs. At first at
most one path is dirty, in every state git has for it.

Fairness (`lock` only). Weak fairness of each writer's next step and of its
clock: the operating system runs a live process, and the loops of
`exclusive_hook_lock` never block (the flock is non-blocking, `_wait` sleeps at
most 20 ms). Nothing is assumed of the body of the `with` statement, of a hook
being started or of a process dying. Writers of 0.1.2 are not killed for ever,
because recovering a sentinel skips the clock (`file_lock.py:121`): a writer
that always finds a newly dead sentinel would go on. The other parts have no
loop that waits for somebody else.

Deadlock is checked for the lock and the ledger. The other systems end: a hook
process exits, the runs and commands are finite.

## 4. What is proved

Every theorem is for any number of processes and any bounds. Assumptions are the
named ASSUMEs of the modules: sets of different roles are disjoint, "no process"
and "no PID" are none of the real ones, bounds are natural numbers.

*HookLock.* `LockInvariant` proves `LockInv`: (`GuardHeld`) a current writer is
past the guard exactly while it holds the flock; (`OwnerInside`) the creator of
the present sentinel, and only it, is inside; (`OwnerNamed`) a PID in the
sentinel of a live creator is that creator's; (`Recovering`) what a recovering
writer has established about the file it is about to remove. Exclusion alone is
not inductive: the step that could break it is `UnlinkDead`, and only
`Recovering` knows that the file that is removed belongs to nobody. Old writers
cannot spoil it because a file they create is a new file, and because a second
recovering writer is kept out by the guard. `MutualExclusionHolds`,
`NoLiveStealHolds` and `MutexImplemented` follow.

*HookLedger.* `LedgerInvariant` proves `LedgerInv`. The promise "the complete
lines are one verifying chain" is not inductive, since an append looks at the
last line only; the invariant adds what the holder of the lock knows at each
point of `_append_record` and of the repair (`Writing`, `Repairing`), and states
the chain as its writers see it (`Chained`: every line numbered by its place and
chained to its neighbour), from which the reader's definition (`Readable`, by the
objects before it) follows by a lemma. `NothingDiscardedHolds`,
`IntactNeverMovedHolds`, `ChainHoldsAlways` and `LogImplemented` follow.

`RefusedIsAlwaysRepairable` is about the two ways of looking at a line: the append
refuses a last line that is no record by itself, and then the reader finds damage
too; or one whose number is no integer (`OddTail`), which the reader accepts, and
that is the exception the property states. `RepairAlwaysHeals` needs `RepairInv`:
what a repair leaves verifies at each of its steps, before the ledger is replaced
(`kept`), after, and with the repair's own record behind it; and that record has an
integer for its number unless the repair kept a last line that had none.

*HookLedgerDisk.* `AppendsAreDurable` proves `DiskInv` for the ledger behind a page
cache. It is not an extension of `LedgerInv`: a loss of power undoes what was not
synced, so that the chain and the numbering are not what they were, and only what
an acknowledged record rests on survives. The proof has two halves. `CacheInv` is
about the file as processes see it: `Working` says what the lock's holder has
written or kept at each point, and every step brings back no acknowledged record
that was gone and loses none but by an outsider or a move (`Recs`). `Stored` is
about the disk: an acknowledged record of the file is in what is stored of it unless
the file has not been stored since it took its place, and in the file the stored
directory leads to unless it was acknowledged since that is another (`late`).

*HookRun.* `RunInvariant` proves `RunInv`, which follows the answer from the
point where it is decided: what is on standard output is the answer, what is in
the ledger differs from it only if the answer says so, and an exit code other
than 0 or 2 appears only with a disturbance from outside (a kill, a failed
flush). `FailClosedHolds`, `RecordingIsNeutralHolds` and `AnswerIsRecordedHolds`
follow.

*Judgment and Session.* `SessionInv` is `TypeOK /\ AllowedCallsSpare`, and is
inductive. A call enters it by `Submit`, where three lemmas take the gates apart:
`WritesSpare` (file tools), `ReadsSpare` (file tools) and `ShellReadsSpare` with
`CommandWritesSpare` (commands); `AllowedSpares` joins them. It stays in it
because the calls that run before it change neither links nor configuration
(`Run` of a call that would is excluded by the invariant itself), and because
what is at a name does not matter to what a call may touch (`KindsDoNotMatter`).
`GuardDenied` gives `GuardIsAlwaysDenied`. `StricterPolicyAlwaysStricter` goes
gate by gate, from `NamesMonotone` to `DeniesMonotone` and `AllowsMonotone`;
`AliasesAlwaysJudgedAlike` holds because both spellings are mapped to the same
path and every later gate sees only that (`JudgedByMappedPaths`);
`ApprovalAlwaysLiftsDangerOnly` because approval is asked in three places
(`CommandsMatterToApprovalOnly`). These three are properties of every decision,
so they follow from the type of the state alone.

*RunStore.* `StoreInvariant` proves `StoreInv`: what is listed is complete. The
strengthening says that a run that writes a file has written those before it
(`Written`), and that a line that is an entry belongs to a run past its files
(`Backed`); no step takes a file away, so no race, failure or kill matters.
`SerialRunsVerify` assumes at most one `aeg init`: then, as long as no two saves
overlap, no append was split and nobody edited, every line is `Sound` and the
save under way knows the ledger's end (`SerialInv`). The init matters because it
truncates a ledger that appeared after it looked; `Calm` says that the only one
cannot do so once a save has begun. With two inits TLC finds the loss.

With at most one `aeg init`, `SavedRunsStayListed` adds that the lines are whole
(`Whole`), and `RunLogImplemented` shows from it that the run ledger refines the
same `HookLog` as the hook ledger, though saves that race take the same number: a
new line is of a run that has none. `DamageIsAlwaysSeen` rests on `HurtInv`: after
one edit of what the walk covers there is a line (`Bad`) that no walk accepts, and `BadStays`, no save makes
it good. A second edit can cut the file before that line, which `MaxEdits = 2` lets
TLC show when the bound on edits is taken out of the property.

*Executor.* `ExecutorInd` keeps, of whatever was rebuilt and altered, its shape
(`Shaped`), and says that a packet that calls itself the runtime's is the one that
was made of what was heard, that an answer is the verifier's of the evidence in
hand, and that an accepted candidate is one the gate accepts of the original
output. Under it lie lemmas about the functions of `StructuredAction` and `Routing`: which action is valid, which capabilities are
allowed, what the adapter strips, what the binder binds. From them
`ExecutorInvariant` (the verifier accepts the packet's own evidence and no other,
`GateMatchesEvidence`), `AcceptedIsAlwaysEarned` and `SelfReportsNeverHelp` follow,
the last because a stripped output is judged as if its claims had not been made.

*Mediation.* `MediationInv` is inductive. `ActiveIsInnermost` says what each block
will put back is what is in force in the blocks before it, which is what makes
leaving a block, by an exception too, safe; from it `UnblockedAuthor` concludes
that a write into `.aeg/` that the guard lets through is made inside a trusted
block of that repository, whatever context a thread has adopted.
`AcceptedRunAlwaysWroteNothing` follows from `AttemptsAreRecorded`, since the
verifier accepts no event called unexpected. `AcceptedAlwaysFollows` takes the
verifier's checks one by one, for a record of the right shape (`RecordInd`) that
was altered anywhere. `QuietRunAlwaysVerifies` needs to know all of a save:
`QuietInd` says how many events there are at each point of it, that each try left
the event of a blocked write, that the last four are the runtime's own plans, and
that the record sums up exactly these; and every fixture with which the seal tries
the gate is rejected (`SealedRejections`).

*RunPipeline.* `PipelineInvariant` proves `PipelineInv`: `Stages` (what is kept at
each point of the run is what the functions make of what was kept before),
`Unmoved` (as long as nobody else did anything, what is kept is what git has) and
`Sealed` (the ledger line is of the evidence `save_run` stored and of the manifest
it built until a new line is made) are the strengthening; `EveryDirtyPathIsJudged`, `GateSurvivesTheRun` and
`UncheckedIsNeverClean` then are facts about the pure functions of `RunEvidence`,
proved as lemmas there. `AlteredIsAlwaysSeen` and
`QuietRunAlwaysKeepsItsVerdict` follow from `Sealed` and `Unmoved`. The theorems hold
for any names git may write (`NameAssumption`: two files have two).
`HonestRunAlwaysVerifies` is an equivalence: with `AskedInv` (what git was asked is
a commit there was, and an untouched record is the one saved) every check of
`verify_latest` comes out of how the record was built, or names one of the four
things that make it fail. `AcceptedIsAlwaysConsistent` goes the other way, from the
checks to the record, which may have been remade; it needs only that cards keep
their shape (`CardInv`). A hash being the value it is of, all of them assume that
SHA-256 has no collisions.

*Install.* `InstallInvariant` proves `InstallInv`: that a finished install guards
is not inductive, since the text was computed long before; `PlansGuard` says that
every install on its way will write settings that guard, which rests on what the
merge functions make of any file (`MergedSettings`, over the first managed hook in
the order of the file, `FirstIsManaged`), or that it read a file of Codex whose
managed hooks are all exec hooks (`Disarms`), none of which is left. `Recordable`
and `BackedUp` say what a command has established when it is about to replace the
file, and give `HooksHaveRecording` and `NothingIsLost`; a backup whose copy is
finished is lost only to a second copy under its name, which `Alone` excludes.
`UserSettingsKept` needs `PlansKeep`: the text a command is going to write has the
user's hooks of the file as it is now, whoever wrote it since, for the same tools
but where an install found a managed hook in the same entry (`WidenedStays`: once it
may widen, it stays so). Install repairs hooks in their places (`SamePlaces`) or adds
an entry of its own; uninstall drops hooks and entries, and that the user's remain
in their order (`UninstallKeeps`) is shown by induction over the entries. The
library's induction theorems cannot be used here, so `EverySequence` is proved from
the least length at which a statement fails. `InstallsSettle` follows from
`PlansKeep` and `MergedSettings`, beside uninstalls too; where an install disarms,
the next one appends a hook and the third finds nothing to do.

The theorems lean on these assumptions about constants beyond the obvious ones: at
least one claim is of the kind that would grant something (`ClaimAssumption`), names
of capabilities and types are strings (`NamesAssumption`), "none" is no result,
packet, heard output or writer (`NoneAssumption`, `PacketAssumption`,
`HeardAssumption`, `TargetAssumption`), and the repository of a save is one of the
repositories. Each is evaluated by TLC in the runs that use the module. "At most one
`aeg init`" is a hypothesis of four theorems about the store and stands in their
statements: the code takes no lock, and with two inits TLC finds a saved run that is
no longer listed.

Every invariant and action property of the passing runs is a theorem. Only
model-checked: the two liveness properties, `StaleSentinelRecovered` and
`AttemptEnds`, since fairness is about ENABLED, which this prover does not reason
about; and the two violated statements of section 6, which are counterexamples.

## 5. Not modelled

* The text of commands, patches and search patterns: the classifiers parse it
  token by token, a job for tests. `Judgment` takes what they return. That they
  return the right thing is the assumption under all of its results.
* What the judgment gathers from disk beyond links: what is under a tree that is
  read or searched (the narrowing of `Grep` and git arguments is one flag),
  nested repositories, and how git's configuration is read (the programs it
  names are data).
* `HookRun` allows every decision; it is not composed with `Judgment`, since
  nothing about failing closed depends on which decision is lost.
* What the host does after its own timeout, and whether it starts the hook.
* Symlink and hardlink refusals of the lock and ledger: errors before the first
  step, covered as "raises".
* Of a packet, the fields that repeat a constant: versions, the policy tables,
  the records of `pre_live_executor_gate.py`, `tool_surface.py`,
  `aeg_state_write_denial.py`, `mediated_write_boundary.py`,
  `write_bypass_harness.py` and the capability sections of `schema.py` and
  `contracts.py`. Nothing that happens in a run changes them; `RunEvidence` keeps
  them as the one field `authority`, which is "none" unless somebody edits the
  record. That each of their names and types is checked is a job for tests.
* Agents other than the one that does nothing: no other is wired to `aeg run`. The
  changes between the two looks at the tree are the user's.
* What is inside a file: git tells paths apart by their state, and a file that was
  dirty may be written again without git status changing. What is in an untracked
  directory, which git lists as one line, submodules, and names with ` -> ` in them,
  which `git.py:150` takes for a rename.
* Read-only commands (`doctor`, `explain`, the queries), formatting, wording.

## 6. Where the documentation and the code differ

Each is a run whose property quotes the statement.

* `ledger_named`: a repair that stops between replacing the ledger and appending
  its record leaves moved bytes that no record names.
* `hook_run_flush`: the answer is lost when the flush at interpreter exit fails,
  and the exit code is 120, which does not block.

Met on the way, without a run of their own.

In the hook's files:

* A writer killed between creating the sentinel and writing its PID leaves an empty
  sentinel that nothing but an operator removes, though the documentation knows such
  files only from the old release (`file_lock.py:118`).
* Appends go on behind an invalid line that is not the last (`hook_ledger.py:129`,
  as `README.md:333` says and `evidence_track_v1.md:87` denies).
* A last record whose `sequence_number` is `true` or a float, with a hash that fits,
  is accepted by the reader (`hook_ledger.py:444`) and refused by the writer (318):
  the append fails with the advice to run repair-hooks, which finds nothing to
  repair. A repair that keeps such a line before damage continues from it: behind
  5.0 its own record gets 6.0, and appends are refused again. Only somebody else's
  edit makes such a record. `RefusedIsRepairable` and `RepairHeals` except it
  (`OddTail`).
* The directory is never synced. A power failure may undo the creation of the ledger,
  or its replacement by a repair (`hook_ledger.py:195`), together with the records
  acknowledged since; and the file a repair renames is not synced either, so that
  until its next append the ledger itself may come back short. These are the two
  windows of `AppendDurable`. A power failure during a repair may also lose moved
  records, since the quarantine file is not synced (192).
* Nothing hashes `run.json`, and verify compares three of its fields with the line,
  where they are present (`verify.py:266`, 727-730): any other edit of it passes
  `aeg verify`. `TamperEvident` is about the rest.

In the installer:

* An edit saved while install waits for its answer is undone (`install.py:430`), and
  a file that appeared meanwhile is replaced without a backup (`install.py:813`).
* `install.py:9` says install merges "preserving every other hook and field". On
  Claude Code the repair of a managed hook sets the matcher of its entry
  (`install.py:230`), also for a user's hook in the same entry, which is then called
  for other tools. `ForeignKept` excepts just that (`Widened`).
* On Codex a hook that is a program with `args` counts as managed
  (`install.py:620-623`), and install writes a new `command` and leaves the `args`
  (325-326): it says it is done, and the hook neither works nor is recognised any
  more; a second install appends one that works. `InstallInv` and `InstallSettles`
  except a file that held such hooks alone (`Disarms`).
* "Always back up an existing settings file" (`install.py:8`): the free name of a
  backup is looked for and then written (912, 917), and `shutil.copy2` empties what
  has the name by then. Of two commands in the same second the one may replace the
  settings while the other, in its copy or stopped in it, has emptied the only backup.
  `ReplacedIsBackedUp` excepts that (`Alone`).

In the judgment: a `Grep` or `Glob` without a pattern on a documentation file is
mapped to "hold", but the capability gate and the law then allow it, though the
docstring of `_is_clearly_safe_normal_file_operation` leaves such calls to ask,
defer or deny (without effect: the host rejects the call). An absolute target of
a patch is rewritten to its name in the project
(`hook_judgment_engine_alignment.py:512-536`) and `_build_request` (625-654) then
takes that name from the session's folder: from a folder below the top the gates
judge another file than "the same file under its project name" (523).
`AllowedCallsSpare` holds all the same, because the mapping judges the right one.
Listing a folder with a secret name, outside the project or in `.aeg/`, is
allowed as "names only" while the name is a secret, and denied or deferred once
the policy lifts it: the one exception to `StricterPolicyStricterDecision`
(`ListsHiddenSecret`).

In `aeg run`: git's names are judged as git writes them. `git status
--porcelain=v1` quotes a name with a space, or one that is not ASCII, and nothing
takes the quotes off (`git.py:61-63`, 147-153, 175-179), so `"deploy/my script.sh"`
begins with a quotation mark for `is_protected_path` (`rules.py:525`), is not
protected, and does not gate the run, though "mutation delta touching protected paths
is a user-gate candidate"
(`docs/phase7_mutation_boundary_pre_post_diff_v1_scope_plan.md:294`);
`EveryDirtyPathIsJudged` is about the names. A name with ` -> ` in it is taken for a
rename (150). A change the user makes while it works is recorded as
`executor_created_mutation`, as the comment at `cli/main.py:425` says; a rename
staged before the run is judged by its new name only, the origin being no changed
file (`git.py:95`), so moving a protected file first is not gated, while a rename
during the run is; head and tree come from two calls and may belong to two
commits, and such a packet verifies; a failed second snapshot turns a run whose
executor was told of a gate into `NOT_CHECKED`, and such a run never verifies,
because the verifier requires both snapshots to have been taken. Where evidence,
manifest and ledger line are all made anew, `aeg verify` does not compare the
changed files with the snapshots.

In ingress: a loop of links is refused by `except (OSError, RuntimeError)`
(`structured_actions.py:485`), that is, where `Path.resolve(strict=False)` raises.
Since Python 3.13 it does not, and an action at such a link inside the project is
accepted by the link's name; `ci.yml:50` tests both kinds. `AcceptedIsEarned` allows
it (`around`): "stayed inside the project" means the name `resolve` returns.

In the mediation: the record's result may say anything but a BLOCKED beside a
created file, and the verifier accepts it; two attempts of which the first is
outside `.aeg/` write a file, and the record says so and is refused; a write from
outside between the two looks at an attempt's target makes an honest run fail.

## 7. Plan

Done: the hook from the host's call to the recorded answer (`Judgment`,
`Session`, `HookRun`, `HookLock`, `HookLedger`), the installer, the store,
`aeg run` from the first look to the record and its verification, the mediation
of its writes, ingress and routing. What is left, in order:

1. **Refinement of the save**: `save_run` is one step of `RunPipeline` and many of
   `RunStore`; that the second implements the first, for one run alone, is not yet
   stated.
2. **Command classification**: `shell_read_only.py` and
   `shell_command_risk.py` over commands that are short sequences of word sorts
   (program, option, redirection, operator), so that the parse `Judgment` takes is
   computed and not given; checked against a reference definition.
