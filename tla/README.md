# NightClaw in TLA+

NightClaw runs a language-model agent on a schedule. Sessions are fired by cron
or by hand; each reads a prompt (`CRON-WORKER-PROMPT.md`, `CRON-MANAGER-PROMPT.md`)
and runs the commands the prompt names (`scripts/nightclaw-ops.py`, i.e.
`nightclaw_engine/commands/`). All state is Markdown files in one workspace: no
database, no daemon, no transactions. Beside the sessions there are the owner,
who changes the same files with `nightclaw-admin.sh`, and the bridge, an asyncio
server that shows web pages what the sessions are doing and runs commands of the
owner for them.

This directory holds TLA+ models of those parts, the TLC runs that check them,
and TLAPS proofs. `PROJECT.json` lists components, runs, mutants, the
correspondence of definitions to source lines (`map`), hazards, findings and
theorems.

## 1. Inventory

| Component | State it keeps | Operations | What is hard | Modules |
|---|---|---|---|---|
| Session lock and protocol (`check-lock.py`, `lock.py`, crash-recover and crash-detect of `audit.py`, T0 and T9 of the prompts, bundle `session_close`) | `LOCK.md`, `SESSION-REGISTRY.md`, `AUDIT-LOG.md` | STARTUP, crash-recover, check-lock, write lock, next-run-id, checkpoint, close field by field, register, log, lock-acquire, lock-release, crash-detect | read and write of the lock are separate processes; a crash anywhere; liveness judged by a clock; run ids from a file that a crash leaves short | `SessionLock` |
| Project and phase lifecycle (`dispatch.py`, `longrunner.py`, the lifecycle bundles, transition-expiry) | rows of `ACTIVE-PROJECTS.md`, `LONGRUNNER.md` of each project, `NOTIFICATIONS.md` | dispatch, route_block, phase_transition, phase_advance, surface_escalation, longrunner_update, expiry, pause, unpause, done | bundles write one field at a time; the owner reads and writes back the whole table without the lock; deadlines; retries after a crash | `ProjectLifecycle` |
| Bundle executor (`bundle.py`, `bundle_mutators.py`, `bundles.yaml`) | none of its own | guards, expressions, writes, rows of the change log, appends, notification | a write is a read of the whole file, a truncation and a write; deaths between any two | `BundleExec` |
| Idle work and oversight (scan-notifications, idle-triage, change-detect, audit-spine, audit-anomalies, prune-candidates; T1.5 of the worker, T0 to T8 of the manager) | `NOTIFICATIONS.md`, review registry, logs | find, act, mark done, triage, draft, detect, review, surface, archive | one session learns of another by files only; dates against minutes; what nobody ever takes up | `Oversight` |
| Owner's console (`owner.html` frames, handshake and admin commands of `runtime.py`, `nightclaw-admin.sh`) | failed tokens, connections, frames, the table of projects, drafts, notices | connect, authenticate, pause, unpause, done, approve, decline, archive, resign | scripts run in threads beside each other, are killed after 20 s and leave children; some commands stop the loop | `OwnerConsole` |
| Signed files and pre-approvals (`integrity.py`, `resign.sh`, `verify-integrity.sh`, arm, disarm, schema-sync, schema-render, schema-lint, manifest_verify, `preapprovals.py`) | `INTEGRITY-MANIFEST.md`, `OPS-PREAPPROVAL.md` and its backup, `REGISTRY.md`, `REGISTRY.generated.md` | sign, arm, disarm, sync, render, check, stamp | the whole manifest is rewritten by each writer; file and hash change at different times; rollback from one shared backup | `Manifest` |
| Schema: gates and rules (`loader.py`, `gates.py`, `protocol/integrity.py`, `validate.py`, `scr.py`, dispatch-validate, validate-bundles) | none | look up a route, protection, cascade, field; scr-verify | the first matching row decides; two programs read one table | `SchemaGates` |
| Telemetry (`nightclaw_ops/`) and folds (`state.py`, parts of `runtime.py`, `store.py`) | bounded queue, thread, event log, timelines | emit, send, flush at exit; fold, replay, rewind | an event in flight at exit; two folds of the same events; logs cut short | `EventViews` |
| Bridge: live feed (`runtime.py`, `server.py`, `repository.py`) and the monitor page | event log, set of connections, remembered alerts, hash of the last replay | ingest, derive, broadcast, drop, connect, start, stop; `handleEvent` | one loop, many awaits; slow and dead connections; pages that join in the middle | `StepFeed` |
| Bootstrap, preflight, model tier, install, skill copies | none | reports, copies | no order of steps to check | left out |

How they interact. The files are shared memory: every arrow between sessions,
owner and bridge is a file one of them writes and another reads later.
`LOCK.md` is meant to admit one session at a time; the owner's commands never
look at it. The bridge hears of a command through a Unix socket (telemetry), and
re-reads the files when it does. Pages only ever talk to the bridge.

What makes each part correct: one session at a time, distinct run ids, crashes
found and counted, the lock always free again in the end; a phase that gives way
only when finished and authorised, holds that are announced, passes only on open
phases, a pause for silence only after its notices; every change of a file
logged once and in order, no change lost that nobody overlapped; guidance,
passes and drafts taken up in the end; a file that passes the check was signed;
a schema that passes its rules means the same to every reader; every step on
every page once, pages that agree with each other, with the log and with the
files; commands of the owner that are answered truly and in the end.

## 2. Modules and their correspondence to the code

`map` in `PROJECT.json` names the lines of every definition. In short:

- **`SessionLock`** - a session is a program counter (`pc[s]`) that walks its
  script; each *process* that reads and writes `LOCK.md` is one step
  (`CrashRecover`, `CheckLock`, `OverwriteLock`, `NumberRun`, `ConfirmRun`,
  `Checkpoint`, `ClearField` ..., `Register`, `LogClose`; `LockAcquire`,
  `LockRelease` for sessions run by hand; `DetectCrashes` for managers).
  `session_close` clears the fields of the lock one after the other because
  `bundle.py` writes them so. `Crash(s)` may happen at any stage. The registry
  and the audit log are sets of the entries later commands look for.
  `owner` and `since` are history.
- **`PhaseGate`** - abstract: working, waiting, authorised, next phase; nothing is
  promised of the authorisation of a `spoiled` project.
- **`ProjectLifecycle`** - one session at a time (that is `SessionLock`'s
  result), walking dispatch -> extract -> pass or bundle -> close; a bundle is a
  sequence of single-field writes with a possible crash or owner command between
  any two. The case of a status ("active", "ACTIVE", "paused", "PAUSED") is kept
  because the readers differ in how they compare it. A command of the owner is three
  steps, as `update_project_field` is a process of its own: it looks at the status
  (`Pause`, `Unpause`, `ApproveTransition`, `ResolveBlock`), reads the whole table
  (`OwnerReads`) and writes all of it back with one field changed
  (`OwnerWrites`); sessions write in between, and it may stop at any point
  (`OwnerStops`). `spoiled` is history: the projects whose row such a write put
  back to what it was before a session wrote it. The opposite overlap, a session
  that writes back a table which the owner has changed since, is in `BundleExec`:
  here each `BundleWrite` reads and writes in one step. `TimerExpires` is the
  deadline; the manager's passes re-escalate and finally pause.
- **`ChangeJournal`** - abstract: who changes owes a row; rows come once and in
  order; done means nothing owed.
- **`BundleExec`** - one call of bundle-exec below the level of
  `ProjectLifecycle`: guards first, all expressions checked, then per field read,
  truncate (`Open`), write; then the rows, the appends and the report.
  `nightclaw-admin` does the same to one row beside it. Files are functions from
  fields to values; an emptied file has no fields. Each process has its own list
  of rows in the log, for it appends them in its own order; texts are values of
  `Texts`, of which `Unresolved` is the placeholder left as it is. The six bundles
  of the instance are those of `bundles.yaml` cut to the fields that tell them apart,
  one of them with a reference nobody declares.
- **`Oversight`** - a worker with nothing to dispatch, and a manager's pass, each
  ops command one step; a session may die after any of them. Which entries
  scan-notifications takes, and in which order, what idle-triage answers, what
  crash-detect and audit-spine make of the rows a dead run left (`Run`: which of
  its rows there are), dates of reviews against minutes of passes.
- **`EventViews`** - a command is a record with a queue and a thread (`queue`,
  `sending`); events get to the bridge or are lost. `Folded` is the loop of
  `state.py` as a function on the positions of the log (`FoldStep` its body, with
  the table of open steps), `StoreStep` the reducer of `store.py`; `closes` has the
  RESULT of each SESSION_CLOSE row. `SessionsPage`, `SessionReplay` and
  `StateReplay` are what three pages compute; the replay of a session takes its
  exit code from the last T9 and, without one, from that RESULT: 0 for SUCCESS or
  PASS, 1 for anything else (`LastCode`). `LongrunnerAt`
  rewinds the change log: rows are taken back newest first, and what is left is
  what the oldest of them had found (`Undone`).
- **`OwnerConsole`** - `loop` is the command that has the asyncio loop, `job[p]`
  what page p waits for; `AdminScript` steps read and write the table as
  `update_project_field` does; `Timeout` kills the script and leaves its child as
  an orphan that may still write. `cmd_approve` greps for its row (`Find`); where
  there is one, update_project_field reads the table for itself (`Load`), finds it
  or not, and a failure takes the LONGRUNNER back (`Rollback`); where there is
  none, the row is appended (`Insert`). `dropped` is history: the slugs whose row
  went with a whole table that was written back. A done marks the line it was
  given if the file has it still (`Mark`), and logs ADMIN_RESOLVE either way.
- **`SchemaGates`** - a schema as the loader returns it (a record), the gates and
  the predicates of scr-verify as operators on it. A path matches a name by
  `Covers`; notes are already cut off.
- **`Manifest`** - the writers and readers of the signed files, one read or one
  write per step: `Copy`, `Load`, `Store`, `Hash`, `Compare`, `LoadRows`, `Sign`,
  `Clean`, `Undo` are the lines of `cmd_arm`, `cmd_disarm` and `resign.sh`;
  `Read`, `StoreRegistry`, `Generate` those of schema-sync and schema-render;
  `CheckStarts`, `CheckFile`, `CheckEnds` integrity-check; `StampReads`,
  `StampWrites` manifest_verify, which reads and writes the whole manifest for
  each of its two fields. A hash *is* the content it was computed from. `Compare`
  ends a resign whose hash is unchanged; `LoadRows` fails when another program has
  signed the same hash since, on the same day, for then the new line equals the old.
- **`StepChannel`** - abstract: what a registered connection is owed.
- **`StepFeed`** - `turn` says which broadcast has the asyncio loop. `Ingest` is
  `handle_ops_ingest` up to the first send: append, adapt, derive, copy the set
  of clients, without an await that can yield. The copy is a set, so a broadcast
  serves one of `left` after the other in any order, `to` being the one it is at.
  `newest` and `overtaken` are history: the newest event a connection has a part
  of, and whether an older one came after it. `Send` writes one message;
  when the buffer is over its high-water mark the broadcast waits and the loop is
  free (`SendReturns`); a failed send drops the connection and yields (`SendFails`,
  `GoOn`). Which of several waiting broadcasts goes first is left open. `Connect`
  registers and builds the state_replay in one step, as `_ws_handler` does;
  `Restart` forgets everything but the log, and that too unless
  `--sessions-path` is given. `Shown` is `handleEvent` of the page, for a page in
  the live view that shows no historical session. Alerts are the entries of
  `NOTIFICATIONS.md` in their order; `KeyOf` is what the bridge knows each by (its
  time and the first 80 letters of its text), and two may have one key. A step
  looks at the last `FeedTail` (80) and sends those whose key is not in `seen`, a
  state_replay carries the last `ReplayTail` (40), and `cut` is history: how many
  were older than those when the page joined. `seen` is cut to `SeenKeep` of its
  keys once it has more than `SeenMax`. Entries are not resolved here: the open
  ones only grow. Audit lines and bundle results are remembered and sent the way
  alerts are, and not repeated in the model.

MC modules give constants to TLC. `SessionLockProofs`, `ProjectLifecycleProofs`,
`BundleExecProofs`, `OwnerConsoleProofs`, `OversightProofs`, `ManifestProofs`,
`StepFeedProofs` and `EventViewsProofs` hold the proofs; each extends the module it is about. Every
mutant is an operator with a comment `Mutant:` beside the definition it replaces.

How the modules fit together: `SessionLock` shows that sessions run one at a
time, and the others assume it; `BundleExec` shows what a bundle does to files
and log, and `ProjectLifecycle` takes its writes in that order; `Oversight` takes
whole bundles as steps; `Manifest` uses `SchemaGates` for what is in the schema
it syncs and renders.

## 3. Runs

| Run | Instance | Shows |
|---|---|---|
| `lock` | a worker, a manager, a manual session; crashes at every step; recovery age 2, lease 3, stale 4 "minutes"; fair | mutual exclusion; the lock on disk names its holder with a running lease; run ids of finished runs distinct; `CrashesAreReal`: the failure counter counts crashes and crash-detect accuses only runs that are over; `LockReopens` |
| `life_live` | one project, two commands of the owner read and written at any time, one crash, two notices, fair | `HoldCanAdvance`, refinement of `PhaseGate`, `NoticesBeforePause`, `OwnerIsTold` |
| `exec` | two calls of any of six bundles, one command of the owner, one death | `WritesStick`, `LogCoversDisk`, `ValidatedResolved`, refinement of `ChangeJournal` |
| `views` | two sessions, three commands, two projects, any message lost | `TimelineTrue`, `StoreAgrees`, `PagesAgree`, `RewindTrue` |
| `console` | two pages, two frames, two wrong tokens with room for one, one project, one notice, fair | `TriesBounded`, `RowsTellTruth`, `DraftKept`, `FramesFinish` |
| `oversight` | one project, two days, one crash, fair | `RecordsTrue`, `NothingForgotten` |
| `signed` | two owners that start two programs between them, one edit (of a file or the schema), two files, two days; 259 lists of rows with all sets of edges and protected paths, 4,706 tables | `SignedByOwner`, `ScriptsAtomic`, `ReadersAgree` |
| `feed` | two page connections, three events of two runs, one change of the log, one lost connection | refinement of `StepChannel`; `PageTrue` |
| `feed_watch` | a page and a sessions page, two events, three alerts of which the first and the third have one key, tails of two and one, room for one key, a restart that loses the log, fair | `WatchersCurrent`, `BatchesArrive` |
| `lock_overlap`, `life_stuck`, `console_draft` | small | three places where the code does not do what a document, a message or a comment says (section 6) |

**Bounds, and why they are enough.**
*Lock.* The minutes are scaled: only the order recovery age <= lease <= stale
matters to the comparisons in the code. `MaxClock` stops the clock only while no
lock is active: with a lock on disk time runs until it has expired and been
recovered, so no lease is cut off by the bound. Three sessions are enough for a
crashed one, one that finds its lock and one that comes third.
*Lifecycle.* Two phases give a successor and a way back. `MaxReescalations` is 3
in the code, and 2 here: a first notice, a last one, and the pause. One reroute
(2 in the code) reaches both the reroute and its limit. `CommandLimit = 2` lets one
command approve and another bring an old row back; `Brief` says that one takes
less time than a pass, so that it overlaps one session and not two. One project,
because what a session or a command does to a row depends on no other row; that
a command writes the rows of other projects back too, and that dispatch prefers
one to another, is in the proofs, which are for any number of them.
`ManagerScansHolds`, which the manager's prompt leaves open, is FALSE, the
harder case for `OwnerIsTold`; the proofs are for both.
*Exec.* Two calls, so that one finds what the other left; the owner's write
falls anywhere among them; one death shows the file it truncates and the rows it
owes.
*Views.* Two sessions, one after the other; three commands let one be killed,
repeated and followed. `ChangeTail = 2` (30 in the code) lets the tail be cut.
*Console.* Two pages are what interference needs; more frames of one page are
taken one after the other. `console` has one project and every command;
`console_draft` two projects, three frames and the commands pause and approve, so
that the table of one project's script can drop the row of the other: that the
rollback of cmd_approve then removes the last copy is its counterexample, and
that nothing is lost in any other way is `DraftsAreKept`, proved for any number.
*Oversight.* One project, because commands about two do not look at each other
except in "is any active". An entry that equals one that waits already is not
told apart from it, which keeps the list finite and only makes waiting longer;
entries of priority LOW and INFO are taken by nobody and left out; whether the
memory files or the upkeep tiers of idle-triage are due is left open; midnight
falls between sessions' steps once.
*Signed.* Two programs overlap in every way that three do pairwise; the third
party is the session. One edit per behaviour: a program that meets two is
disturbed either way. Rows of three let a glob stand before a protected row and
the code row that scr-verify asks for.
*Feed.* Two connections are what overtaking needs (one stalls, the other is
served in another order); three events open two runs and write in one of them;
`MaxFull = 1` lets one buffer at a time be full. In `feed_watch` three alerts with
room for one key stand for the 400 that are cut to an arbitrary 200, tails of two
and one for those of 80 and 40; a step that closes a run and a command of the
owner are all that arrives, for alerts go out with any step.

Deadlock is checked in the lifecycle runs. Elsewhere it is not: sessions, events,
commands and edits are bounded, and a workspace in which nothing happens is a
normal state.

**Symmetry.** Pages, connections, projects and their values, runs and owners are
interchangeable where a cfg names `MCSymmetry`, and only in runs without liveness.

**Fairness, and why the code justifies it.**
`SessionLock`: the clock runs and a fired session goes on or crashes (WF).
`ProjectLifecycle`: a session that is running goes on (WF of `Work`); the
scheduler fires workers and managers again and again, but each can only start
when the lock is free, hence SF of `StartWorker` and `StartManager`; SF of
`Continue` says that the manager's timing-check does not defer every single
manager for ever (it compares the previous session entry, which carries no ISO
timestamp in the usual case, and then prints CONTINUE); a deadline passes (WF).
The owner need not give a command; one he has given goes on or is stopped (WF of
its read and write). `Oversight`: the same for its sessions; crashes
are bounded, days need not pass. `OwnerConsole`: the loop runs what is ready, and
a script goes on or is killed after its timeout (WF per page). `StepFeed`: the
loop runs what is ready (WF of some broadcast's work); a page that does not read
drains or is closed (WF of `Drain`, which the death of the connection satisfies as
well). That the websockets library closes a connection whose ping is not answered
is taken from the library; a page that neither reads nor dies would hold its batch
up for good, and `BatchesArrive` does not speak of it. Nothing is assumed about
new events.

**The cadence** (assumed by `MutualExclusion` and everything built on it):
`Staggered` - no session is fired while another is between reading and writing
the lock, or closing - and `PassLimit < RecoverMinMinutes` - a live session
finishes before its lock is old enough to be recovered. `OPS-CRON-SETUP.md`
spaces the jobs so in general; the code enforces neither. Without the first,
`lock_overlap` shows two holders; without the second, crash-recover opens the lock
of a live session (section 6).

**What some properties do not say.** `SignedByOwner` speaks of texts the owner's
programs hashed: arm signs the whole file, so an edit that was in it is signed
along with the approval. `ScriptsAtomic` is about a program that no other write
overlapped; overlapping ones share a backup (section 6). `WritesStick` likewise
exempts files that two read-modify-writes overlapped in or that a death
truncated, and `LogCoversDisk` the values of calls that died before their rows.
`HoldCanAdvance`, `NoticesBeforePause` and the refinement of `PhaseGate` exempt the
projects that are `spoiled`, `DraftKept` those that are `dropped`: there the code
loses a change, and they say that it loses none elsewhere. `RowsTellTruth` is
about what was written, not about what is still on disk, and leaves ADMIN_RESOLVE
out. `WatchersCurrent` is about keys: that of each key one alert was shown, or was
too old for the state_replay. `ReadersAgree` compares programs that read one
schema; where two have the same condition in other words that part holds by what
they say, and its substance is the protection of paths. `StoreAgrees` exempts runs that lost a start, `RewindTrue` projects
with a change a killed command did not log.

## 4. What is proved

The proofs hold for every value of the constants that the assumptions of the
modules allow: any number of sessions, projects, pages, owners, calls, events,
crashes. `TypeCorrect` of each module below is `Spec => []TypeOK`; the other
theorems are the properties of the runs, under the names `PROJECT.json` gives.
No theorem uses fairness.

**`SessionLockProofs`** (`SessionAssumption`, `TimeAssumption`; `Cadence` where
it is named).
- `LockInvariant` - under the cadence, `[]LockInv`. Mutual exclusion is not
  inductive by itself: that nobody else holds the lock now says nothing about
  whether the lock on disk would turn the next session away. `LockInv` adds it:
  whoever is between taking and releasing is alone (`OneBusy`); the lock on disk
  then names it with a lease that has not run out (`Recorded`); its run id is
  known once it is confirmed (`Numbered`); and while it closes, exactly the
  fields already written are cleared (`CloseOrder`). `HolderIsSafe` is the heart:
  such a lock is active for check-lock, denied by lock-acquire and too young for
  crash-recover. One lemma each for taking, working under and leaving the lock
  covers the actions. `Exclusion` and `HolderRecorded` follow.
- `RunIds` - `RunIdsUnique`. next-run-id looks at the registry alone, so `RunInv`
  says of every session that has an id and no entry yet that its id is not in the
  registry; that nobody registers between look and entry comes from `OneBusy`.
- `Crashes` - `CrashesAreReal`. `CrashInv`: a locked `LOCK.md` belongs to a
  session at work or to a dead one, and its counter counts deaths of *others*;
  without the exception the step of the successor, which adds one, would not be
  covered. `CheckpointInv`: who wrote a CHECKPOINT row is past its pass.

**`ProjectLifecycleProofs`** (`ProjectAssumption`, `LimitAssumption`).
- `LifeInvariant` - `[]LifeInv`: how far every bundle is, and what row and
  LONGRUNNER look like at that field. `WorkInv` (who works on a project found it
  off hold, with no old approval in its row), `TransitionInv`, `AdvanceInv`,
  `GrantInv` (only finished phases are authorised, and an approved hold is),
  `HoldInv`, `CountInv` (the counter is behind the notices by what the bundle has
  yet to write). The owner may write between any two fields, which is why each
  part speaks of one row or of one LONGRUNNER. `OwnerInv` says what he has in his
  hands: a copy that is up to date with every row but the `missed` ones, and an
  approval for a project that was on hold unless its row is missed. A write then
  changes nothing but its own field and spoils the missed rows, of which
  the other parts say nothing.
- `HoldsCanAdvance`, `Notices` - `HoldCanAdvance`, `NoticesBeforePause`.
  `GateRefined` - the refinement of `PhaseGate`, action by action.

**`BundleExecProofs`** (`BundleAssumption`, `TextAssumption`, `BoundAssumption`).
- `TypeInvariant` - types, and `Tied`: a change under way belongs to the call or
  command under way.
- `FieldsKeepTheirValues` - `WritesStick`, by `WholeInv`: a file that is not
  counted as disturbed is changed by one process at a time, the content that one
  carries is what was last meant, and the file itself is so or just truncated.
- `JournalRefined` - the refinement of `ChangeJournal`. `LogStep` sorts the
  actions by what they do to the rows owed, logged and reported.
- `NothingUnlogged` - `LogCoversDisk`, by `CoverInv`: whatever was last meant for
  a field and was not there at first is in a row logged, owed, or forgotten by a
  dead process; `OldIsRead` because a mutator that finds its value returns none
  and owes no row.
- `NoPlaceholders` - `ValidatedResolved`, by `ResolvedInv`: calls have the
  arguments their bundles declare, and so no text that is read, carried, written
  or owed is the placeholder.

**`OwnerConsoleProofs`** (`ConsoleAssumption`).
- `ConsoleInvariant` - `[]ConsoleInv`: which stages a command goes through,
  what it has read and done by then (`Honest`), what a child of a killed script
  may still write (`WriteGood`), which slugs have their papers (`PapersGood`) and
  who has the loop. An approval takes its LONGRUNNER back only where the row
  cannot be read, and then its draft is still there (no write makes such a row
  or mends one), or where the row was dropped. `SuccessIsTrue` is `RowsTellTruth`, `DraftsAreKept` is
  `DraftKept`.
- `TriesInvariant`, `GuessesBounded` - `TriesBounded`. The bridge keeps the last
  `2 * MaxTries` failures only; the invariant says that those it dropped, like
  the one `MaxTries` before the end, lie outside the window.

**`OversightProofs`** (`OversightAssumption`).
- `WatchInvariant` - `[]WatchInv`: entries wait once (`Noted`, `Done`), a
  proposal begins with no draft (`DraftInv`), a run id has its T0 before any
  CHECKPOINT though a manager may take over a dead worker's id (`RunsInv`), and
  reviews are neither ahead of the day nor later than a pass nobody looked at
  (`ReviewInv`). `CommandsTellTruth` is `RecordsTrue`.

**`ManifestProofs`** (`ManifestAssumption`, `TablesAssumption`, those of
`SchemaGates`; `RulesDeclared` where it is named, which TLC evaluates for the
schemas of the run).
- `OnlySignedPasses` - `SignedByOwner`, by `SignedInv`: every copy of the rows,
  in the manifest, in the hands of a program about to write them back, or of a
  session, has nothing but what the owner signed.
- `AllOrNothing` - `ScriptsAtomic`, by `AtomicInv`: stage by stage, what an
  undisturbed program has done to files, rows and backup (`Faithful`).
- `ReadersTellTheSame` - `ReadersAgree`, for every schema that declares the
  rules; nothing in it depends on time but the dates of approvals, and the proof
  is about the operators of `SchemaGates`.

**`StepFeedProofs`** (`FeedAssumption`).
- `TypeInvariant` - types, who is registered (`Registration`), that whoever is
  still to be served has something to get (`Batches`), and that the log has the
  last ids in order (`LogIds`).
- `ChannelRefined` - the refinement of `StepChannel`. `Ahead(b, c, i)` says that
  message i of a batch is yet to come to c; `StepFor` is the step as one
  connection sees it: it joins, leaves, gets the next message of one batch, or
  nothing changes for it.
- `RememberedWasShown` - `WatchersCurrent`, by `ToldInv` and `SnapInv`: of every key
  the bridge remembers an alert was told to the page, is ahead of it, or was cut
  from its state_replay; for any tails, any memory and colliding keys.
- `PagesShowTheTruth` - `PageTrue`, by `ShowInv`: a batch has the messages of its
  event in their order (`BatchInv`); what is on a rail is in the log
  (`RailInv`); of events after the newest it knows a page has all still to come
  (`ComingInv`); a page in order shows the live session (`SessionInv`), with its
  steps shown or ahead (`StepsInv`); and the change log sent last is shown,
  cleared by a session that opened, or ahead (`VersionInv`, `ReplayInv`).
  `PageTrue` speaks of pages that have read all; the invariant has to say of
  every other page what is still in its way, through any number of broadcasts
  that stand at different messages.

**`EventViewsProofs`** (`ViewAssumption`).
- The fold of the log is a recursive function, which no induction theorem of the
  library reaches here; `FoldExists` and `FoldUnique` go by the least position at
  which a fold is missing or two differ, and `FoldAppend` is what everything else
  uses: one event more is one step more.
- `Types` - `[]TypeInv` with `TableInv`: the table of open steps points at steps
  of its own command and project.
- `Stream`, `TimelineIsTrue` - `TimelineTrue`. `StreamInv`: the log, the event in
  the hand of the thread and the queue are in one order, and what waits belongs
  to the command that runs, its end last. `PairedInv`: a timeline has one step
  for each execution, each of them from the log, and a start that is the last
  event is the step the table points at; so the end that follows it closes it and
  not an older step that a killed command left open, while an end whose start was
  lost can only close a step that has no end of its own.
- `StoreIsTrue` - `StoreAgrees`, by `StartInv`: the start of the command that
  runs is queued, sent, heard, or its run counts as one that lost a start.
- `PagesTellTheSame` - `PagesAgree`. Nothing in it depends on how the log came
  about: `PagesSaySame` is about the three pages' case distinctions, and about
  which run they give the exit code of its T9, of its close, or none.
- `RewindIsTrue` - `RewindTrue`, by `RewindInv`: rows come run by run
  (`RowRuns`), and for every row of a run that is over the first later row of
  another run for a project has found what the run left, or, without such a row,
  the field has it still (`LeftAs`). `Current` is the field as the rows will have
  it, for one that is written has no row yet. `WalkBack` takes this through the
  tail of the log and the offset of its rows.

Only model-checked, and for good: liveness under fairness (`OwnerIsTold`,
`LockReopens`, `FramesFinish`, `BatchesArrive`, `NothingForgotten`), which needs
ENABLED.

## 5. What is not modelled

In the lock: the text of entries, truncation of files that grow, clocks that go
backwards. In the lifecycle: `LONGRUNNER` statuses nobody branches on (BLOCKED,
UNKNOWN), changes of priority. In bundle-exec: how a bundle is parsed from text.
In oversight: entries of priority LOW and INFO, `strategic-context` beyond what
it reads of a draft, the sizes of files. In the console: priority, guide, arm and
disarm (they go the way of pause), commands that only print, `validate` beyond
the time it takes. In the signed files: torn writes of a single file, the dates
and names in a row. In the schema: YAML, the layout of the rendered tables,
`phases.py` (its transition table is consulted by no command that writes),
`allowed_tool`, and the severities of rules. In the feed: the requests for
project and session replays, the pacing buffer, the SCR grid, pages that view a
historical session or a project, notifications being marked done. Bootstrap,
preflight, model tier, install and the copies under `skills/`: reports of one
read, static tables, copies. Nowhere: parsing of Markdown.

## 6. Disagreements met

With a run and a finding:

- `lock_overlap` - `LOCK.md:2` "Prevents concurrent cron overlap"; reading and
  writing it are separate steps, and two sessions fired in the same minute both
  take it. The starting cadences of `OPS-CRON-SETUP.md` do not meet (the worker at
  0, 6, 12 and 18, the manager at 9); the tighter one it recommends (47-48),
  `0 */3 * * *`, fires at 9 as well.
- `life_stuck` - "Worker advances on next pass": a crash inside phase_advance
  leaves an approved hold that no later session can advance, and nobody is told.
- `console_draft` - `nightclaw-admin.sh:338-339` "If any step fails, the draft still
  exists and the copy is cleaned up"; of two approvals that are past the checks one
  finishes, an old table without the row is written back, and the other, which
  had found the row, removes the LONGRUNNER. Neither file is left.

Seen while reading and modelling, in words only:

*Sessions and lock*

- next-run-id gives a crashed run's id again; once that is registered crash-detect
  cannot see the crash. A crash that is the day's last is reported by every later
  manager; one followed by another session of the day is hidden when that
  registers the same id. STARTUP rows make crash-detect call the manager's own run
  ROUTING_HALT. audit-spine calls a run that died between its registry row and its
  T9 row CRASH for ever, reads the example rows of `AUDIT-LOG.md` as a run, and
  calls an idle clean session ROUTING_HALT.
- timing-check never defers with session entries in the prompts' format
  (`audit.py:36-48`).
- crash-recover (`audit.py:735-784`) opens the lock of any session that has a
  CHECKPOINT, no registry entry and a lock older than 10 minutes; its comment
  (730-731) says that the holder "is definitely not coming back", while the lease
  is 20 minutes and `OPS-CRON-SETUP.md:173` reckons with passes of 25. Such a
  session goes on beside the next one.
- `LOCK.md:52` calls the release the final write of a session; `bundle.py:669-674`
  appends to the audit log after it. `LOCK.md:63` resets the failure count at T9
  only; `audit.py:794` resets it too. `LOCK.md:56,62` count stale takeovers;
  `lock.py:88-108` does not.

*Projects and bundles*

- A bundle under way overwrites the owner's pause, and the owner's command the row
  a bundle has written since (`nightclaw-admin.sh:122-148`, whole table read and
  written back without the lock): a hold that phase_advance has ended comes back
  with the new phase ACTIVE and no successor, and dispatch lists it neither as
  dispatchable nor as advanceable; an approval that was used comes back, and with
  one crash more the next phase may advance by it. A project blocked for a missing
  tool is never announced.
- `bundles.yaml:46` lets phase_transition through only while the phase is not yet
  COMPLETE, but the worker prompt (188-191) runs it on `routing=COMPLETE`.
- `nightclaw-admin.sh:555` "Worker advances on next pass": dispatch looks at
  approved holds, and scan-notifications is read, only when no project is
  dispatchable (`dispatch.py:54-63`), so guidance too waits while there is work.
- `CRON-MANAGER-PROMPT.md:125` pauses "unanswered" holds; `audit.py:145-178` does
  not look at whether an approval was given. `CRON-MANAGER-PROMPT.md:110` and
  `dispatch.py:71`: a `phase-complete` escalation on an active row is neither
  surfaced nor advanced while the pre-approval is on. `nightclaw-admin.sh:483`
  unpauses "paused", the manager writes "PAUSED" (`CRON-MANAGER-PROMPT.md:124`).
- An old PHASE-TRANSITION entry marked done again approves the transition of now
  (`nightclaw-admin.sh:541-557`).
- `nightclaw_engine/schema/phases.py:16-18` has a transition table that bundle-exec
  never consults; `gates.py` says every mutator routes through its gates, and no
  writer calls route_check, allowed_tool or the phase gate.
- CASCADE rows are never emitted (`bundle.py:632-646`); the legacy bundle parser
  repeats the first guard with a leading dash; the LONGRUNNER template lacks
  last_pass.quality and next_pass.context_budget; longrunner-render writes nothing.
- `PROTOCOL-PROOF.md:83` "Atomic writes": files are truncated, then written.
- validate-bundles does not look at the names that NOTIFY uses, nor at `{NOW+...}`.

*Oversight*

- prune-candidates (`audit.py:385-395`) stops at the next `##` heading, and
  `NOTIFICATIONS.md` ships with "## Append new entries below this line." after
  "## Current Alerts": no appended entry is ever offered for pruning, the file
  grows, and the inbox shows its last 40.
- scan-notifications also finds what is meant for the owner (HIGH, MEDIUM,
  escalations); a worker acts on it and marks it [DONE], so it vanishes from the
  inbox and `done` by slug finds nothing.
- idle-triage: with five dated memory files tier 3a is returned for ever, and a
  proposal (tier 4) is never reached; a fresh install returns 3c because of its
  own review row; tiers 2a to 4 are out of reach with a knowledge repository. The
  shipped install entry is date-only and not matched by the inbox.
- `REGISTRY.md`(append) is STANDARD for a worker at T7f, yet REGISTRY.md is signed.

*Signed files and schema*

- resign.sh and manifest_verify both rewrite the whole manifest: a lost hash, a
  session that starts in the middle of an arm, or an arm killed between its write
  and its signature make integrity-check fail, which
  `CRON-WORKER-PROMPT.md:28` says "should never fail under normal operation".
- Two arms share one `.bak`: the rollback of one can undo the other, or end with
  no backup to move. A session that reads the file in the middle of an arm acts
  on an approval that is rolled back. arm takes any expiry; one that is no date is
  armed and never active. On a row without a hash arm always rolls back.
- verify-integrity.sh looks for a hash anywhere in the manifest.
- append asks only for the tier of the first matching row: with an APPEND row
  before the PROTECTED one, or CL5 alone, it writes a protected file of a schema
  that scr-verify passes. CL5 is compared as text, so a glob there protects
  nothing. SCR-03's title speaks of the manifest and its predicate of VALIDATES
  edges; SCR-08's of a released lock and its predicate of two keys; SCR-09 passes
  over calls of bundles that do not exist.
- schema-sync leaves the old fingerprint in the markers. After an edit of comments
  only, or a crash between its two writes, it answers NOOP while schema-lint says
  DRIFT until schema-render is run. The loader stamps its cache with a time it
  reads after the files.
- dispatch-validate looks for objects named DISPATCH or DISPATCH_ROW; the schema
  says OBJ:DISPATCH, and the choice falls to the best overlap of columns.
  Priorities "1" and "01" are distinct for it and equal for dispatch.

*Bridge and console*

- The partial state_replay that a writing step brings along resets the step rail
  of the session it reports on and empties the inbox (`nightclaw-monitor.html:3018`
  renders `ev.notifications || []`); `runtime.py:1538-1539` says that the page
  renders the change log "without resetting the rest".
- `runtime.py:1482-1483` "only items the UI hasn't seen yet", but the set is the
  bridge's: an alert that a step sent counts as seen for a page that connects
  later, whose state_replay has 40 of the up to 80 a step sends (`runtime.py:494`,
  `1512`). A new alert with the time and the first 80 letters of an older one counts
  as sent (`runtime.py:1516`), and no page ever gets it.
- `runtime.py:509-511` says that the files keep the history of a state_replay "in
  sync with the sessions page"; lines 616-622 then classify each run by the
  telemetry alone, and a run whose T9 was not heard is running, or
  completed_no_t9, where the sessions page says clean (`PagesAgree`).
- state_replay classifies a session by telemetry only (`runtime.py:510-512`
  against 616-622); the sessions page ignores the RESULT of SESSION_CLOSE; pages
  differ when lock-release failed; a silent run is shown live for ever; a run that
  sends release before acquire is shown live while its own history calls it over;
  the project snapshot keeps a live session without a slug; session_replay in
  project mode is never answered; last_pass.weak_pass and validation_passed are
  not undone by the rewind; the unlogged change of a killed bundle is not rewound
  and the replay still calls itself exact.
- Comment `runtime.py:2145`: done and decline pass `--yes`; `_build_admin_argv`
  (232-241, 381) never adds it, and the script reads from the terminal
  (`nightclaw-admin.sh:434, 529`). Priority 0 and line 0 are dropped. The archive
  of a row on TRANSITION-HOLD says "not found"; archive writes no rows of audit.
  `done` by slug looks its line up before the script runs, so a prune in between
  moves another entry under its number, or none: line 536 logs ADMIN_RESOLVE with
  SUCCESS, and 538 prints "marked done", though sed found no line. Two scripts at
  the same time write the whole table back: a project that a page was told is
  paused ("Worker will skip on next pass", 473) is active again. An approve killed after its copy leaves draft and LONGRUNNER, and can
  never be approved again. nightclaw-admin reads the old value before it reads the
  file it rewrites.
- A page that connects finds an alert in its state_replay and is sent it again
  with the next step, if no step came in between (`runtime.py:1483`: "only items
  the UI hasn't seen yet"; the set is the bridge's, not the page's).
- A broadcast that stalled can bring an older change log to a page after a newer
  one; the hash (`runtime.py:1570`) then keeps the newer from being sent again.
  `LiveRunShown`, `RailComplete`, `ReplayShown` and `WatchersCurrent` are therefore
  about pages that were not overtaken (`UpToDate`).

## 7. Plan

Every component with an order of steps to check has a module, and every safety
property and refinement a run checks has its theorem. What is left is to follow
the code as it changes, and the parts section 5 leaves out: of those the requests
for project and session replays in the feed come first, then the pages that view
a historical session.

## 8. Running

    tlc -workers 2 -config SessionLock_safety.cfg MCSessionLock.tla
    tlapm SessionLockProofs.tla

and likewise for the other configurations and the other `*Proofs` modules. `console`,
`life_live` and `feed_watch` take about three minutes, `exec`, `views`, `oversight`,
`signed`, `feed` and `life_stuck` one to two and a half, the others less; the proofs take some minutes each.
