# A TLA+ development of faffmonkey

faffmonkey is a personal agent that runs as one Python process (`faff run`): a
thread per chat channel, a cron scheduler thread, a SQLite file of conversations
and a workspace of plain files that scripts, the agent and its owner all write.
What is hard about it is not any single function. It is that those threads, other
processes (`faff cron run`, `faff update`, skill scripts) and a service manager that
may kill everything at any instruction share a dozen files, each with its own locking
discipline or none.

This directory holds TLA+ models of those parts, TLC configurations that check them
on small instances, and TLAPS proofs of what matters most for all instances. Every
definition is translated from the source; `PROJECT.json` names the lines of each.

## 1. Inventory

Paths are below `src/src/faffmonkey/` unless they begin with `templates` or `contrib`.

| component | its state | operations | interacts with | module |
|---|---|---|---|---|
| cron scheduler (`runtime/scheduler.py`) | the Scheduler object (last fires, backoff, last channel, hash and snapshot of jobs.json), `state/cron-state.json`, run logs | start/load_state, tick, run_job, deliver, drop a one-shot, save, note_activity, stop | jobs.json (cron-manager), channels, session store, providers | `CronScheduler` |
| cron arithmetic (same file, cron-manager's validation) | none | parse_cron, next_fire_time, due_fire_time, stagger, one-shot times, load_jobs, validate | scheduler, `faff cron list` | `CronFields`, `CronTime` |
| main session (`runtime/session.py`, `loop.py`, `scheduler.py`) | sessions.db, `_main_session_lock`, dirty and rotated events, a copy of the history per loop | turns, deliveries, main jobs, rotation, /clear, /compact, manual runs | everything that talks | `MainSession` |
| agent turn (`runtime/loop.py`) | history in memory and in the store, counters and timers of a turn | request, empty-answer retry, tool batch, kill, limits, emergency compaction | providers, tools, store | `ToolTurn`, `History` |
| tools and approvals (`runtime/tools.py`, the loop's dispatch) | the workspace tree, approvals with file hashes and an age, dispatch threads, output files | eight file tools, shell, skills, ask, run approved, give up on a thread | loop, user, subprocesses | `WorkspaceTree`, `ToolRegistry` |
| compaction (`runtime/compaction.py`) | the session's rows, `backups/checkpoint_*` | checkpoint and prune, memory flush, re-read, summarise, swap | store, memory files, other writers | `Compaction`, `History` |
| daily notes (`runtime/compaction.py`, `loop.py`) | `memory/daily/<date>.md`, a cursor in sessions.db | collect, ask, append, advance | compaction, other writers | `DailyNotes` |
| heartbeat (`runtime/scheduler.py`, `templates/.../heartbeat/scripts`) | `triggers.d/`, `triggers.json`, `reported.json` | drop, watchdog, wake, consume | sensors, scheduler, agent | `HeartbeatTriggers` |
| small shared files (carry-over, cron-manager, preconscious, reminders, learnings, daily note, trust store, word-daily, digest-engine, sensors' readings, weather) | eleven lists, each in a file | each script's commands, bootstrap, `faff trust`, the migration of `faff update` | scheduler, prompts, each other's overlap | `SkillData`, `SharedFiles`, `AtomicFiles` |
| data root (`cli/backup.py`, `cli/update.py`) | `workspace/`, `state/`, `extensions/`, `config.json`, `.env`, `backups/` | backup, restore, snapshot, rotate, move out of the checkout | the running service, the operator | `DataRoot` |
| provisioning (`cli/init.py`, `update.py`, `setup_*.py`, `skill.py`) | installed skills and extensions with their recorded origins, slots, keys, jobs | init, update, skill install, update-extension, provider and extension wizards | data root, doctor, start of the service | `Provisioning`, `Housekeeping` |
| doctor (`cli/doctor.py`), start of the service (`config.py`, `wiring.py`) | reads all of it | checks; load_config, enabled channels | | `Doctor`, `Provisioning` |
| search skills (`templates` memory-search and document-search) | one SQLite index each | refresh, prune, query | texts that change meanwhile | `SearchIndex` |
| goal loop (`runtime/goal.py`, `loop.py`) | the goal, its turn count, `current.json` | start, stop, ask, continue, finish, exhaust, abort | turn, `faff status`, other loops | `GoalLoop` |
| provider clients, retry, fallback | none | request, retry, fall back | turn | its outcome, in `ToolTurn` |
| channels, scanning, redaction, token counts, other skills | queues of remote APIs; parsed text; none | | | not modelled (section 8) |

What makes each correct, in a sentence, and which properties say so:

* **Scheduler.** A restart neither repeats nor forgets: instants are run in increasing
  order (`FiresInOrder`), a logged failure's deadline is waited out (`BackoffHonoured`).
  A reminder stays until it was said, and is gone before it is said again
  (`RemindersKept`, an abstract specification), and does go in the end
  (`OneShotHandled`). Only the user's edits are announced as such
  (`AnnouncesOnlyUserEdits`).
* **Cron arithmetic.** What runs was owed (`RunsOnlyOwed`), what is owed is run
  (`OwedIsRun`), what `faff cron list` prints is what will be owed (`ListedIsOwed`), and
  what cron-manager accepts the scheduler loads (`AcceptedIsLoaded`).
* **Main session.** Turns do not mix (`TurnsDoNotInterleave`), one turn is in one
  session (`TurnStaysTogether`, `RotationWaitsForTurn`), and a loop whose copy is old
  knows it (`StaleCopyIsSignalled`).
* **Turn.** What is sent to a provider answers every tool call but for torn batches
  (`OnlyTornBatchesUnanswered`), memory and store agree (`MemoryIsTheStore`), budgets
  bind (`TurnBudget`), a turn ends (`TurnEnds`), and so does a goal, with which the agent
  goes on by itself (`GoalEnds`).
* **Tools.** No sequence of calls touches the job table (`ProtectedUntouched`), an
  approval is for the files the user saw (`ApprovalStillHolds`), a thread is abandoned
  only after a slow answer (`LostOnlyAfterSlowAnswer`), a registry's output files are not
  overwritten by it (`OwnOutputKept`), and no call holds the loop for ever (`TurnGoesOn`).
* **Compaction and notes.** No message is lost while a copy can be kept (`LeavesSaved`,
  `MarkedStays`), none is replaced unread (`SwapKeepsUnread`), and none is passed by the
  notes' cursor unheard (`NothingPassedUnheard`).
* **Heartbeat.** Nothing is deleted unshown (`DeletesShownOrReplacing`), shown twice
  (`ShownOnce`) or left lying (`TriggerShown`, `RaisedCheckShown`).
* **Small files.** Each change is one operation applied to what the file held
  (`FilesChangeAtomically`, an abstract specification), a promoted learning is in its
  target (`PromotedReachedTarget`), and an unvouched text never enters a prompt verbatim
  (`VerbatimOnlyVouched`).
* **Data root.** What a command replaces can be got back (`ReplacedIsRecoverable`), a
  restore is the archive or says so (`RestoredIsTheArchive`), the configuration rests on
  what is there (`ConfigIsBacked`), an agent that doctor calls ready starts
  (`ReadyStarts`), and a user's edit is not overwritten (`LocalEditsKept`).
* **Search.** A query that follows a refresh answers from the texts as they are
  (`SearchIsFresh`).

`PROJECT.json` lists under `hazards` where one of these could go wrong and a test would
hardly notice, with the property that watches it or the reason none does.

## 2. The modules and the code

| module | EXTENDS | about |
|---|---|---|
| `CronScheduler` | | the scheduler thread, channel threads' saves, edits, kill, stop, restart |
| `Reminders` | | abstract: what the user is promised of a one-shot |
| `CronReminders` | `CronScheduler` | the refinement mapping from the scheduler to `Reminders` |
| `CronFields` | | fields of an expression, entries of jobs.json: validated, loaded, matched |
| `CronTime` | `CronFields` | one entry over a clock that loses or repeats an hour |
| `MainSession` | | sessions.db and everyone who writes it |
| `History` | | pure operators on a history: protected tail, orphan stripping, well-formedness |
| `ToolTurn` | `History` | one loop's turns, call by call |
| `GoalLoop` | `ToolTurn` | the composition with a goal and its turns |
| `WorkspaceTree` | | the file tools as functions of the tree |
| `ToolRegistry` | `WorkspaceTree` | registries, dispatch threads, approvals, time |
| `Compaction` | | a session through several compactions |
| `DailyNotes` | `Compaction` | the composition with the note that follows a compaction |
| `HeartbeatTriggers` | | the trigger tray and those who tick |
| `SkillData` | | each operation on a small file as a function of what was read |
| `SharedFiles` | `SkillData` | processes that lock, read, truncate, write and are killed |
| `AtomicFiles` | | abstract: a file that changes by whole operations |
| `DataRoot` | | backup, restore, snapshot, rotation, move |
| `Provisioning` | `DataRoot` | what copies things from the checkout and records it; the start of the service |
| `Housekeeping` | `Provisioning` | all of these commands with kills, upgrades and the service at work |
| `Doctor` | `Housekeeping` | doctor's checks against the start of the service |
| `SearchIndex` | | the refresh and query of the two keyword indexes |
| `MC*` | the module they name | the small instances: jobs files, scenes, clocks, calls, beginnings, symmetry |
| `CronSchedulerProofs` | `CronReminders` | theorems |
| `MainSessionProofs`, `ToolRegistryProofs`, `SharedFilesProofs` | the module they are named after | theorems |
| `ToolTurnProofs` | `GoalLoop` | theorems |
| `CompactionProofs` | `DailyNotes` | theorems |
| `SkillsProofs` | `HeartbeatTriggers`, `SearchIndex`, `CronTime` | theorems about each of the three, which share nothing |
| `HousekeepingProofs` | `Doctor` | theorems |

**CronScheduler.** `pc` is where the scheduler thread is: `boot` (before load_state),
`idle` (the 30 s wait), `load` and `scan` (the loop of `tick`), then `_run_job_locked` as
`run`, `deliver`, `record`, `finish`, `rehash`, `log`. The cuts are the places where a
kill, another thread's save or an edit of jobs.json can be told apart: between the saved
last fire and the run, between the send and the record, between `_delete_job` and the new
hash. `saving` holds the document that a channel thread's `_save_state` has built and not
yet written, which is the unsynchronised write of the code. `jobsHash` is the content that
was hashed. `fires`, `sends`, `touched` and `announced` are history for the properties. `Kill` loses the object and keeps the files; `Stop` sets the event and the
thread ends at the next look; `Restart` is the service manager.

**CronFields, CronTime.** A field is a set of parts; `Validated` is cron-manager's and
`Loaded` the scheduler's reading of an entry, both translated from their own code, which is
a copy of the other with differences. Wall-clock minutes are numbers over a calendar whose
sizes are constants, small enough that a month or a year turns over inside the model. A
scene is a clock (from one UTC minute on it is some minutes ahead or behind) and the entries
tried on it. `due_fire_time` and `next_fire_time` are walked as in the code; the reference
definitions (`Runs`, `Owed`) enumerate what the user means by an expression.

**MainSession.** `log`, `keyOf`, `active` are the tables; `lock` is `_main_session_lock`;
each loop has a place in a turn, its `_active_key`, `_session_id` and copy of the history.
A turn takes the lock, refreshes (`_check_session_rotated`, `_check_history_dirty`),
persists the inbound message, asks, persists steps and a reply. The scheduler thread's main
job, `_record_delivery` with its later signal, and `_rotate_main_session` with its
non-blocking acquire are separate actions; `faff cron run` and a crash do not see the lock.
A job's rows are committed one by one, by the scheduler thread under the lock
(`AppendMainJob`) and by `faff cron run` under a lock of its own process (`manual`,
`AppendManual`), so rows of a loop may stand between two of the latter. A request that is
too long compacts the session in the middle of a turn, too (`Compact` at `ask`).

**ToolTurn.** `log` is the session in the store and `hist` is `self.history`: every
append is to both unless the store refuses. `pc` follows `_complete`: `ask`, `retry`,
`batch`, `kill`, and the compaction after a turn. `batch` holds the calls without a result.
`calls` and `tools` are the code's counters, `asked` and `ran` what really happened.
Compaction is one step here, by `History`'s `Compacted`, which keeps the protected tail and
repairs it as `_strip_orphaned_tool_messages` does: position by position, a result without
its call becomes nothing and a call without its result is followed by an error for it.

**GoalLoop.** `goal` is `_goal`: active or not, and the turns counted. At `idle`, where the
loop polls, a command, a turn of the user and a turn of the goal may come next; `inGoal`
tells in whose turn `ToolTurn`'s steps are, and so whether an exception ends the goal (in
`run`) or is contained (in `_turn`). `mirrored` says whether `current.json` is this loop's:
every loop of the workspace writes and removes the same file.

**WorkspaceTree, ToolRegistry.** A path is the sequence of its names and the tree a
function from paths to cells; each handler returns the new tree and whether it succeeded.
A registry hands one call at a time to a thread: it is refused, allowed, run under an
approval, or asked about; the thread waits at the prompt, is checked (its files were
compared and its process is about to start), runs, is dumping (it has a number for its
long output and no file yet), or is idle. `approved` has what the code keeps of a command's
words when the user said yes, and the age of that answer; `given`, with every word and what
it named, is the history that the property compares with. `late` are the threads whose
number another of their registry has used. `Tick` is the time that `_APPROVAL_TTL`, a
tool's own budget and the loop's ceiling measure; `GiveUp` is the ceiling. Subprocesses
write what they like, each time counted as odd.

**Compaction, DailyNotes.** A row is a message, a summary or the preserved text, and carries
the set of messages whose text it holds. `Begin`, `Checkpoint`, `Prune`, `MemoryFlush`,
`Reread`, `OpenSwap`, `Commit` are the stages of `compact()`; `GiveUp` its early returns;
other processes append between any two of them (`ForeignAppend`), except inside the write
transaction. `MarkOwn` marks the own checkpoint when the preserved text was cut, unless the
marker cannot be written, upon which the code goes on (`markerOk`). `saved` is what a flush
has written to memory files. A note collects the
messages behind the cursor, asks, appends to today's file and moves the cursor, each its
own step; the loop's process may end between them.

**HeartbeatTriggers.** A trigger is a file name and the number of the text written under
it. `half` are files truncated and not written yet. A ticker goes through `collect`,
`truncate`, `write` (the script), `load`, `turn`, `consume`. `Daemon` is the scheduler
thread; the others are an agent that runs the watchdog as a skill and `faff cron run`.

**SkillData, SharedFiles, AtomicFiles.** `Outcome(o, content, world)` is what operation `o`
makes of a file's content, `NoWrite` when the script returns without writing. A process in
`SharedFiles` takes the lock if its file has one, reads, and replaces or truncates and
writes; a file is `Missing`, `Empty` (truncated), `Garbled` or its list. The two locked
files are replaced by rename. `AtomicFiles` knows only the
file and which are damaged; what operations there are, and what they make of a content, are
its parameters.

**DataRoot, Provisioning, Housekeeping, Doctor.** A directory is a function from the items
in it to what they hold, a skill or an extension is a version, an edit, an edit of what its
hash leaves out (`hidden`) and whether it is whole, and a hash is the tree it was taken of
without the latter. `checkout.installed` says whether the image has the package that a
channel imports; `Rebuild` is the build of the image. A command is a record `cmd` with a step; each
step is one change of the file system, so that a kill leaves what the code would leave.
Where the code goes through parts in a fixed order, so does the model (`FirstPart`,
`TarOrder`). `replaced`, `late` and `halfway` are history: what was taken away and when,
what was written behind a command's back, and whether a restore or a move is unfinished. A
tarball remembers `halfway` of the moment it was made, so that restoring one that was made
of half a data root does not count as whole. `CmdChat` and `CmdRun` (with `Wire`,
`LoadConfig`, `BuildChannels`) are the start of the service; `Doctor`'s checks are compared
with them. What a beginning may be is `BeginningsAssumption`: items of the right kind, of
which a config names only what is there, in the data root or in the checkout and in whole
tarballs; TLC evaluates it, and the proofs start from it.

**SearchIndex.** A run reads the recorded hashes, walks the files, takes the write lock for
each change, prunes what its own list lacks and, for memory-search, queries. SQLite's lock
and its five seconds are the only synchronisation.

## 3. Runs

| run | question | instance | distinct states | result |
|---|---|---|---|---|
| `cron_quiet` | order of fires, deadlines, fate of one-shots while nobody speaks | a staggered job at 0 and 2, a reminder at 1, time to 4, 2 faults, 2 exits, steps of 1 and 2 | 224 thousand | holds, with liveness |
| `cron_busy` | edits and reminders while a user speaks; the scheduler implements `Reminders` | an announcing heartbeat, a reminder, a definition for a channel that is gone; 1 fault, edit, exit | 1.7 million | holds |
| `cron_time` | which minute runs, over every clock | 4 clocks, 20 expressions, 2 one-shots, 3000 shapes of entries; ticks up to 2 late, outages | 224 thousand | holds |
| `main_session` | turns, rotations, copies | 2 loops (symmetric), 2 keys, 3 turns, 2 sessions, 3 messages a turn, exchanges of 2 rows, 1 manual run or crash | 3.4 million | holds |
| `tool_turn` | batches, budgets, memory against store, end of turns and of goals | 3 requests, 2 calls, 1 retry, batches of 2, protected tail of 2, 2 turns, goals of up to 2 turns, 1 fault | 922 thousand | holds, with liveness |
| `tools` | the job table, approvals, abandoned threads, output files | a chat with 2 threads that can ask, a daemon with 1 that cannot; 3 calls, 1 oddity | 240 thousand | holds, with liveness |
| `compaction` | copies of every message, and what the notes' cursor passes | 3 compactions, 6 messages, up to 2 foreign ones from one compaction to the next, 2 checkpoints, tail 2, a text of 1 fits, 2 notes | 4.6 million | holds |
| `heartbeat` | fate of every trigger and check | 2 sensors, 1 check, 2 tickers, 2 drops, 2 days, 1 raising turn, 1 oddity | 436 thousand | holds, with liveness |
| `shared_files` | every operation on every small file; each file implements `AtomicFiles` | 2 processes, 3 operations, 1 kill, 1 midnight, 3 versions of a trusted file | 467 thousand | holds |
| `housekeeping` | backup, restore, update, move, init, install, wizards, doctor | 8 beginnings, 2 commands, 1 kill, 1 write of the service or the user, 1 upgrade or rebuild, 2 snapshots kept | 2.6 million | holds |
| `search_index` | what a query finds | 2 files (1 unreadable text), 2 runs at once, 3 runs, 3 edits, 1 kill, 1 clear | 1.2 million | holds |
| `cron_stale_save` | `FiresInOrder` with a user who speaks | 1 exit, no faults | | violated |

### What the violated run shows

`note_activity` saves the scheduler's state from a channel thread with no lock; a document
built earlier (even an empty one, before `load_state`) lands last, and the same instant is
run twice. In the trace a job runs and is saved, the process is killed, and in the next one
a channel thread writes the empty document before `load_state`, which then reads it. docs/architecture.md:494 promises that a restart does neither.

### Other disagreements between code and documents

The models make these plain too. They are kept as text, and the properties named say what
does hold around them.

* `_delete_job` deletes by id, so a reminder rewritten while its old definition runs is
  deleted unsaid, and without a notice (scheduler.py:289; docs/operating.md:148).
  `RemindersKept` excuses an entry touched since the program last looked, and nothing else.
* Success is recorded before the send, so a job that runs and cannot be delivered never
  backs off beyond the first step (scheduler.py:1677; docs/architecture.md:475).
  `BackoffHonoured` holds for the waits that are logged.
* A delivery is stored under the session lock and announced after it; a turn in between
  asks the model without it (scheduler.py:1515; loop.py:887). `StaleCopyIsSignalled`: its
  loop is told before the turn after.
* A crash, a refused write or a manual run inside a batch leaves tool calls unanswered in
  the session, which every later request repeats (loop.py:1001; the comment at 1057).
  `OnlyTornBatchesUnanswered`: nothing else does.
* With `MAX_CHECKPOINTS` marked checkpoints the new one is pruned as it is made, and the
  text that a failed flush then cuts is nowhere (compaction.py:582; 900). When the marker
  cannot be written the swap goes on, and the only copy of the cut text is a checkpoint that
  any later compaction may prune (compaction.py:909, after the log of 898 has said "full
  data preserved in checkpoint"). `LeavesSaved` excuses exactly these two.
* An approval keeps nothing of a file that could not be read, nor of a word that was absent
  and holds neither a slash nor a dot (tools.py:652), although "a path that did not exist is
  a stronger reason to re-approve" (653): `./run` made after the answer asks again, `run`
  does not. The process starts a moment after the check. `ApprovalStillHolds` excuses those
  words and is about the check.
* The counter of long outputs goes up (tools.py:1437) and is read again for the name (1445):
  two threads of one registry, of which one was abandoned, may give both outputs the later
  name. `OwnOutputKept` excuses exactly that.
* cron-manager accepts three shapes that `load_jobs` drops: `deliver` null, `prompt` null or
  empty, a reversed range with a step (against the comment at add.py:14).
  `AcceptedIsLoaded` lists them.
* `next_fire_time` lists the repeated hour of the autumn for jobs that name hours, which
  `due_fire_time` skips (scheduler.py:568); a minute lost in the spring gap is not run when
  the job ran in the minute just before it, or at the exact edge of the window (605). A
  one-shot is compared by the wall clock, so one that a late tick meets after the clock
  went back waits an hour.
* `dispatch_timeout` promises that no thread is abandoned while its subprocess runs
  (tools.py:709); it is, when the user takes longer than the margin of 30 s to allow it.
  `LostOnlyAfterSlowAnswer` says: only then. An abandoned question still reads the terminal
  first, and its command runs late if the next answer was meant for another.
* A restore into a root without `state/` clears `workspace/` with no safety snapshot
  ("The existing data is snapshotted first", backup.py). `ReplacedIsRecoverable` excuses it.
  docs/operating.md:360 says that `faff backup` does not rotate; the rotation of `faff update` counts and
  deletes the operator's own backups too, and a truncated tarball counts.
* A move out of the checkout that was killed is never resumed, as `state/` exists by then.
* A tarball of the state-only layout has config.json but not extensions/. Restored where the
  extension is not, its config enables what is not there, and `faff run` does not start
  (backup.py:193). `ConfigIsBacked` and `ReadyStarts` except it.
* doctor says "Ready" without a look at tokens or at search and voice modules, and when no
  channel is enabled although `faff run` then stops. `ReadyStarts` says where it can be
  relied upon.
* A wizard that is run again copies over an edited extension without a `.bak`; killed in
  the copy it leaves a module that does not compile, and then search or voice stop the
  service where a channel is skipped (`LocalEditsKept`, `ConfigIsBacked` excuse these).
* The hash that tells a local edit of a skill leaves out dotfiles, directories of such a
  name and `__pycache__` (skill.py:24). An edit there is no reason to keep the skill, and
  goes with the old tree without a word, by an update or an unforced install
  (`_replace_tree`; an update's snapshot has it). `LocalEditsKept` is about the others.
* A channel's module imports a package that the image does not have of itself. The wizard
  lists it, says that the image is to be rebuilt, and that `faff run` is next; until the
  rebuild, `faff run` finds no channel and stops (wiring.py:129), and a build whose copy of
  the requirements is behind does not help. `ConfigIsBacked` allows just that, with the
  package listed; doctor imports the channel too, so `ReadyStarts` needs no exception.

### Bounds, and why they are enough

* One instant that is run twice needs one kill and one earlier document; `cron_quiet` has
  two exits and two faults so that a failure may be logged by one process, restored by a
  second and waited out in a third. Time to 4 lets both matched minutes, the reminder and
  both backoff steps pass. With `Window` 3, for `CATCHUP_MINUTES` plus the largest stagger,
  the fire of minute 0 drops out of the look-back at time 4.
* `cron_time` has hours of six minutes, days of four hours, weeks of three days, months of
  four and years of two, so that every field turns over, and clocks that lose or repeat one
  hour. The window is two minutes and a stagger of at most one, a tick comes at most two
  minutes late or after an outage longer than the window: each length on both sides of
  each other length. `MaxDelay` is at most `CatchUp`, which is an assumption on the module:
  ticks that are later than the window lose minutes by design.
* Two loops and the scheduler are every pair of writers that the code has; a third turn
  lets one pass between two others. Two sessions are the main one and the next, or the main
  one and a group room's; what a rotation does to a loop is the same whichever session it
  leaves, and the proofs have any number. In that run, crashes and manual runs share the bound of one. An exchange of
  two rows has one place for a row in between; four, after a stale acknowledgement, have
  three of the same kind, and the proofs have any.
* `tool_turn`'s protected tail and batch of two let a compaction cut between a call and
  its second result, the case `_strip_orphaned_tool_messages` is for; budgets of three
  requests and two calls let every limit fall inside a batch and on its edge. The two turns
  are the user's or a goal's, and a goal's budget is two, so that it is used up as well as
  stopped, done or failed in its first turn and in its last. A goal is only started, and a
  user's turn only taken beside it, if its turns are left under the bound.
* `tools`: three calls are a copy or move, a second one around it and a command; the job
  table, its directory, another directory and a file with the table's name in it are the
  places from which it could be replaced. The approval's lifetime, the margin and the budget
  of the command that is approved are one tick each, so an answer may come before and after every one of them.
  One command names a file by a bare word and another by a path.
* Two checkpoints and three compactions reach the full store and go past it. Two foreign
  appends are the size of the protected tail: with more, rows appended between the
  checkpoint and the re-read can reach the head of a compaction whose checkpoint lacks
  them, and `LeavesSaved` does not hold when the flush fails too. In the code the tail is
  `protect_last_n` messages and a checkpoint to re-read takes one model request. Two notes
  are one that fails or is cut short and the one that repeats it.
* Two drops are one text and the next under its name, or two sensors; two days let a check
  be raised twice. An oddity is one failure, crash, or tick beside the daemon's.
* `shared_files` looks at one file in each behaviour (a learning together with the rule it
  is promoted to), as no code relates two of the others. A start holds no promoted learning, as promotion is the only
  way to mark one (`StartAssumption`). Three operations of two processes
  are every overlap of a reader with a writer, and one after it.
* `housekeeping`: two commands are each command after each killed one; with two snapshots
  kept, two updates rotate the first away. The eight beginnings are an empty machine, an
  installed one with a channel, with and without an archive, one with search and a
  state-only archive, one before the wizard of search and of voice, one with a state-only
  archive whose config enables an extension that is not there, and a data root that is still
  in the checkout. On the empty machine, and where the checkout holds the data root, the
  image lacks the channel's package until a rebuild; elsewhere a rebuild may lose it.
  Upgrades and rebuilds share the bound of one.
* Deadlock is checked in `heartbeat` and `tools`, where a system that has nothing to do can
  still move. The other models end by their bounds, and their configurations say so.

### Fairness

* `CronScheduler!FairSpec`: the scheduler thread takes its next step (its loop catches
  every exception and waits 30 s), a stopped or killed process is started again (the
  service's restart policy), a begun write ends, time passes. No fairness for faults, user
  or kills.
* `ToolTurn!FairSpec`: the loop's thread goes on; each request and dispatch has a timeout,
  so every step the model waits for ends, with an answer or a failure. `GoalLoop!GoalSpec`
  adds that the loop takes a goal's next turn when no message waits; the user's messages
  are bounded, as one who never stops writing does hold a goal up.
* `ToolRegistry!FairSpec`: time passes, a subprocess that is over its time is killed
  (`subprocess.run` with a timeout), and the loop gives up when its ceiling is reached. A
  thread that has compared a command's files starts its process, and one that has a number
  for its output writes the file, as nothing is waited for in between. It assumes no answer
  of the user and no end of a subprocess.
* `HeartbeatTriggers!FairSpec`: the daemon's tick goes on and the next one begins. It
  assumes that the heartbeat job keeps coming round, i.e. is enabled and inside its active
  hours. Nothing is assumed of other tickers, and a half-written file may stay so.

### Refinement

* `CronReminders` maps the scheduler to `Reminders`: an entry is said from the return of the
  send until the deletion, edited when it was touched since the program last looked, silent
  when the run in progress has an answer that is not to be sent or no channel for it. Every
  other step of the scheduler stutters. Checked in `cron_busy` and proved.
* `SharedFiles!Atomic` maps each file to `AtomicFiles`: a file that its writer has truncated
  still counts as what it was, until two updates overlap or a writer is killed; from then
  on it is damaged. Only files that are loose can be: those rewritten in place, and
  jobs.json once the migration of `faff update` has begun. The carry-over queue and, but for
  that migration, the job table change by whole operations on their current content. Checked
  in `shared_files` and proved.

## 4. Proofs

TLAPS checks these from the definitions that TLC runs, for every value of the constants
that the modules' named assumptions allow.

| theorem | states | argument |
|---|---|---|
| `CronSchedulerProofs!TypeCorrect` | `[]TypeOK` | the invariant is inductive by itself; one step per action |
| `CronSchedulerProofs!QuietFiresInOrder` | `FiresInOrder`, if `Talker = {}` | `SavedState` and `FiresSaved` |
| `CronSchedulerProofs!QuietBackoffHonoured` | `BackoffHonoured`, if `Talker = {}` | the same, with `BackoffSaved` and `RunOutcome` |
| `CronSchedulerProofs!SchedulerKeepsPromise` | `RemindersKept` | `Current`, `SentIsCounted` and `Outcome`, then each action is a step of `Reminders` or a stutter |
| `CronSchedulerProofs!AnnouncesOnlyEdits` | `AnnouncesOnlyUserEdits` | `WatchInv`: the snapshot has every entry the user left alone |
| `MainSessionProofs!SessionTypes` | `[]TypeOK` | with the next four, from one invariant `IInv` |
| `MainSessionProofs!TurnsApart` | `[]TurnsDoNotInterleave` | `TurnAtTheEnd`, `JobApart`, `ManualApart`: whoever is in a turn or a job writes behind its own rows or another process's |
| `MainSessionProofs!TurnTogether` | `[]TurnStaysTogether` | `TurnHasSession`, `TurnNotBegun`, `TurnsHandedOut` |
| `MainSessionProofs!StaleSignalled` | `[]StaleCopyIsSignalled` | `SessionsApart` and the types |
| `MainSessionProofs!RotationWaits` | `RotationWaitsForTurn` | the lock is a loop's exactly while it is in a turn |
| `ToolTurnProofs!WithinBudget`, `GoalWithinBudget` | `[]TurnBudget`, of a user's and of a goal's turns | `Counted`: what happened never exceeds what was counted |
| `ToolTurnProofs!MemoryMirrorsStore`, `GoalMirrorsStore` | `[]MemoryIsTheStore`, likewise | `Mirrored`: a loop that has read its session holds the store's history at every step |
| `ToolTurnProofs!RequestsAreAnswered`, `GoalRequestsAreAnswered` | `[]OnlyTornBatchesUnanswered`, likewise | `TornInv`, and what tail, repair and compaction make of a history |
| `ToolRegistryProofs!TypeCorrect` | `[]TypeOK` | one invariant per variable |
| `ToolRegistryProofs!WorkspaceStaysATree` | `[]TreeInv` | each handler is `Sound`: tree to tree |
| `ToolRegistryProofs!ProtectedFilesUntouched` | `ProtectedUntouched` | each handler is `Sound`: it keeps the protected files |
| `ToolRegistryProofs!LostAfterSlowAnswer` | `LostOnlyAfterSlowAnswer` | `LoopInv`: a subprocess outlives its start by its own budget at most |
| `ToolRegistryProofs!ApprovalHolds` | `ApprovalStillHolds` | `AnswersInv`: an approval rests on an answer of the same age, and its hashes are those of the words that are watched |
| `ToolRegistryProofs!OwnOutputIsKept` | `OwnOutputKept` | `DumpInv`: no file bears a number its writer has not given yet, and a thread about to write has one above its registry's files, unless it is late |
| `CompactionProofs!TypeCorrect` | `[]TypeOK` | needs `PreservedSecond`: a preserved text is row 2 |
| `CompactionProofs!NothingUnreadIsDropped` | `SwapKeepsUnread` | `SwapRows`: what was read is a prefix of the rows |
| `CompactionProofs!MarkedCheckpointsStay` | `MarkedStays` | by the choice of what is pruned |
| `CompactionProofs!CopyIsKept` | `LeavesSaved`, if `MaxForeign <= ProtectLast` | `CopiesInv`: what the head can lose is in the own checkpoint, in a memory file or in the preserved text; the checkpoint is marked if the marker could be written |
| `CompactionProofs!NotesLeaveCompaction` | `NoteSpec => Spec` | each step with notes is one of compaction or a stutter |
| `CompactionProofs!NotesHearAll` | `[]NothingPassedUnheard` | `NoteInv`: up to the newest message asked about, all were asked about |
| `SkillsProofs!TypeCorrect` | `[]TypeOK` of the heartbeat | `Covered` and `OneFile` |
| `SkillsProofs!OnlyShownOrReplacingDeleted` | `DeletesShownOrReplacing` | `Newest` and `Covered` |
| `SkillsProofs!NothingShownTwice` | `ShownOnce` | `OnceInv`: without an oddity, what was shown is gone or about to be deleted |
| `SkillsProofs!SearchTypes` | `[]SearchTypeOK` | with the next, from one invariant `FreshInv` |
| `SkillsProofs!AnsweredIsFresh` | `[]SearchIsFresh` | `Sound`, `SameChanges` and what a run holds at each step |
| `SkillsProofs!OnlyOwedRun` | `[]RunsOnlyOwed` | with the next three, from one invariant `TimeInv` |
| `SkillsProofs!OwedMinutesRun` | `[]OwedIsRun` | `Caught`: what was owed and had its stagger by the last tick was served by it |
| `SkillsProofs!NextRunIsOwed` | `[]ListedIsOwed` | `OwedIsNamed` and its converses: owed is what the wall clock names, or skips |
| `SkillsProofs!AcceptedLoads` | `[]AcceptedIsLoaded` | `AcceptedOnly`: an entry was accepted; then field by field, part by part |
| `SharedFilesProofs!ChangesAreAtomic` | `FilesChangeAtomically` | `ProcInv` and `WriteInv`, then each action is a step of `AtomicFiles` or a stutter |
| `SharedFilesProofs!OnlyVouchedVerbatim` | `[]VerbatimOnlyVouched` | `TrustInv`: the store, and what is about to be written to it, vouch for no version but the operator's |
| `SharedFilesProofs!PromotedIsARule` | `[]PromotedReachedTarget` | `KeptInv` and `PromoteInv`: what is marked, or about to be, has its rule |
| `HousekeepingProofs!HousekeepingTypes` | `[]TypeOK` | `Base` and `Course`: where a command can be, and what is there when it is |
| `HousekeepingProofs!RestoreIsExact` | `[]RestoredIsTheArchive` | `Exact`, from clearing to the last member |
| `HousekeepingProofs!EditsAreKept` | `LocalEditsKept` | `Untouched` and `Backup`: what is about to be replaced is unedited, or in the .bak |
| `HousekeepingProofs!NothingIsLost` | `[]ReplacedIsRecoverable` | `Snapshot`, `Opened`, `Saved`, `Arrived`, then `Watched` |
| `HousekeepingProofs!WhatIsConfiguredIsThere` | `[]ConfigIsBacked` | `Settled`: `Backed` and `Recorded` (with the channel's package listed), of the root, of tarballs and of what is to be moved |
| `HousekeepingProofs!ReadyMeansReady` | `[]ReadyStarts` | the same invariant |

Why the strengthenings are needed:

* `FiresInOrder` alone says nothing of the next process, which knows only
  cron-state.json. `SavedState` says that file and object agree at every cut except before
  `load_state`, when the object is empty; `FiresSaved` that the file bounds every instant
  run so far, so `due_fire_time` can only offer a later one. Both are false as soon as a
  channel thread saves, which is what `cron_stale_save` shows: the hypothesis `Talker = {}`
  is the exact line between the theorem and the finding.
* A step that deletes an entry knows only the run in progress. `Current` says that, until
  the user touches it, the entry that runs is the one in the file; `SentIsCounted` that a
  run past its send has sent it; `Outcome` that a run which ends as unroutable found no
  channel. With them a deletion is `Settle`, or `GiveUp` of what cannot be said.
* That no tool changes the job table does not follow handler by handler: a move of its
  directory is refused because something protected lies below it, which speaks of the whole
  tree. The path lemmas (`ParentOfBelow`, `BelowTransitive`, `Comparable`, `TwinAbove`)
  give that a copied or moved subtree lands where no protected path is above or below it;
  each handler is then shown `Sound`, and a thread that waits at a prompt is about a call
  (`ThreadInv`), so the answer runs a handler that is.
* `SwapKeepsUnread` compares a row set with a history read long before. The check at the
  swap compares counts only; it suffices because between read and swap rows are only
  added (`SwapRows`), which holds as one process at a time compacts a session.
* `DeletesShownOrReplacing` speaks of files that are deleted by name. `Newest` says that
  any text that a report, a ticker or a turn holds is no later than what the tray has under
  its name, because a sensor's next text is later than every collected one; `Covered` that
  the names to delete are names of held texts and, after the turn, of shown ones.
* That a text is shown once needs what lies between two turns: in a run without an oddity
  only the daemon ticks, a shown text that still lies in the tray is one that it is about
  to delete, and the report it reads names none of those (`Once`).
* Two turns interleave when somebody writes behind one that is not over. `TurnAtTheEnd`
  says that nobody but another process does, `TurnHasSession` that a turn has one session
  even when that is rotated, `TurnNotBegun` that before its first message it has left no
  trace (a rotation before that moves it to the newer session, where only another process
  can have written), and `TurnsHandedOut` that no message bears a turn that is to come.
* `OnlyTornBatchesUnanswered` speaks of a request, and is false inside a batch. `TornInv`
  says of the store and of the copy in memory at every step: a batch that no fault cut is
  answered in place, or is the one in progress and ends the history (`Fine`); batches share
  no ids, and a fault tears a whole one (`Apart`). Compaction keeps that because the
  protected tail does not begin between a call and its results (`TailSettled`), and the
  repair changes nothing in a batch that is answered (`Stripped`). The lemmas on
  `FlattenSeq` (`Flattened`, `PieceOf`, `SideBySide`, `Rising`) say where each message of a
  repaired tail comes from, and that its order is kept.
* `LeavesSaved` is about the commit, long after the checkpoint. `CopiesInv` follows the
  copy: checkpoint and flush hold every row but those that other processes have appended
  since (`OwnHolds`, `SavedHolds`), which stand at the end, and the own checkpoint is pruned
  only when marked ones fill the store (`OwnIsKept`); at the swap it is marked if the text
  was cut and the marker could be written (`OwnIsMarked`). With no more foreign rows than the
  tail is long, the head that is cut lies inside both: the hypothesis
  `MaxForeign <= ProtectLast` is where the property ends in the code as well (section 3).
* `ApprovalStillHolds` compares with the answer of the user, of which the registry keeps
  only some hashes and an age. `RestsOn` says that both are the answer's, for the words that
  are `Watched`, and that no approval of a command with a glob is kept.
* That an output takes a new name is decided when its number is taken, and the file comes
  later. `DumpInv` says of a thread in between that its registry's files bear smaller
  numbers, which another thread of the registry alone can undo, and then the first is `late`.
* Whether a learning's rule is there is asked long after the two writes. `PromoteInv` says
  it of what a writer holds as well as of the file; that the file still has the learning as
  it was read is `OneWriter`, and `KeptInv` that a learning about to be marked was there.
* A search is fresh although runs overlap, skip what they think is current, and prune by
  their own lists. `FreshInv` looks at the files that nobody has changed since there was
  last no run (`SameChanges`: all runs under way agree on which): for those, every run reads
  the same text, a recorded hash that equals the file's proves the recorded text, as a text
  is read after its hash is taken (`Recording`), and what a run prunes is gone.
* `OwedIsRun` compares with a time that ticks have long left. `Caught` says it of the last
  tick instead: whatever was owed and had had its stagger by then was run, or overtaken, and
  a later tick in time finds the rest still in its window. The clock changes once, so that
  each owed minute is a name's only instant, its first, or the one behind a gap
  (`OwedIsNamed`, `NamedIsOwed`, `SkippedIsOwed`); which expressions match stays unopened,
  and the walk over minutes is a set of integers with a greatest member (`LatestMember`), so
  no induction over data is needed.
* What a killed command leaves depends on where it was killed. `Where` pairs each command
  with its steps, and `Course` says what is there at each (a staged tree before it is put in
  place, a part of the checkout while it is moved).
* `RestoredIsTheArchive` is about one moment. `Exact` says of every moment from the last
  removal that what is in the targets is what has been unpacked, or was written meanwhile.
* What was taken away can be had back only because of what was done before it was taken.
  `Snapshot` follows the staging directory, `Opened` the tarball that is begun and empty,
  `Saved` says that what a restore clears or an update replaces is in the newest tarball, and
  `Watched` counts from there: a tarball made after `r[3]` others is kept until
  `MaxSnapshots` more have been made, as rotation takes the oldest. What a move carries over
  is in both places until the original is removed (`Arrived`).
* That a config names only what is there is no invariant of the data root alone, as restore
  and move bring another one in. `Tarballs` says it of every whole tarball, `Unmoved` and
  `Move` of the checkout and of what is spread over both, `Unpacking` that a tarball's
  members come in an order in which the extension precedes the config, and `Progress` what a
  wizard has recorded before it enables anything, the package of a channel included; during a
  move the data root lists no package of its own (`Move`). All of these were checked by TLC, as
  invariants of the run's instance, before they were proved.

The assumptions are those of the modules: bounds and limits are naturals, a protected tail
has at least one message, values that stand for "nothing" are not values of the kind they
stand beside (`NamesAssumption`, `NoneAssumption`, `MarkerAssumption`), and the operations of
`SharedFiles` are those of the scripts: each is about the file it is defined for, a
promotion comes with both its halves, and whoever changes the trust store has loaded it
(`OperationAssumption`). `CronTimeAssumption` has entries at integer times, a stagger and a
delay of at least a minute, and no tick in time that is later than the catch-up window;
`BeginningsAssumption` says that `Housekeeping` starts from what a finished setup leaves. Two
theorems on quiet schedules and `CopyIsKept` have a hypothesis of their own, which the table
names.

Only model-checked:

* Liveness under fairness (`OneShotHandled`, `TurnEnds`, `GoalEnds`, `TurnGoesOn`,
  `TriggerShown`, `RaisedCheckShown`), which TLAPS does not treat.
* `cron_stale_save`, which is a counterexample.

Every safety invariant and action property of the passing runs is a theorem above.

## 5. What the models abstract

* **Cron.** A job's model call is its outcome (failure, nothing, NO_REPLY, a text).
  Minutes matched by an expression are a set; the order of jobs in a tick is arbitrary (the
  code's order is one of them). Left out: an OSError in `_save_state`, an unreadable
  jobs.json, the tmp file that two savers share, a user who edits between hash and load in
  `_check_jobs_changed`, a send before the channel has started, recent texts, log pruning,
  and `faff cron run`, which neither saves nor deletes. The scheduler's own save is one
  step; one channel thread saves at a time. Skipped and preflight rows count as error rows,
  and whether a cached preflight answer of a local provider is still true is not asked. A
  quiet heartbeat tick returns without `record_success` and keeps an earlier failure count
  (scheduler.py:1666), which no document speaks of.
* **Cron arithmetic.** Time is in minutes; of several minutes owed at one tick only the last
  is run, by design; an added entry may catch up minutes from before it was added. Scripts
  that the scheduler starts get UTC where docs/skills.md:129 promises the configured zone
  (scheduler.py:1015); no model has two zones. JSON shapes written by hand, such as a job
  list that is no list (`load_jobs` raises), are left out.
* **MainSession.** A main job reads its history when it begins and asks over it; what is in
  that request is not told. A rotation's memory flush is left out; a session that a rotation of an empty store creates and ends
  at once is left out. A goal turn is a turn that keeps its loop's key.
* **ToolTurn.** Call ids of a provider are unique. The nudge of an empty answer is appended
  and removed inside the request. Other writers appear as a dirty reload or as a manual run.
* **Goals.** A goal's text is left out; a text that may hold GOAL_DONE is any answer, also
  one of a budget or a timer. A write of `current.json` does not fail, and another loop
  writes it only between turns (the lock is shared, save with `faff chat`). By the code: a
  loop without a goal removes the file of another's on `/goal status`; a goal's turn goes
  to whatever session the last message switched to; a channel that closes is noticed only
  after its goal.
* **Tools.** Paths are resolved ones: symbolic links, names outside the workspace and the
  match of names that differ in case are left out, and so is a `copytree` that fails half
  way. An approval takes its hashes after the answer, in the same step as the answer here,
  and records no directory. The command runs in that step too, after a yes; under an earlier
  approval the check and the start of the process are two. That the job table cannot be replaced through its directory
  rests on the directory being there: where `config/` is absent, a copy or a move can bring a
  `config/jobs.json` into being. Two registries share the numbers of output files and do
  overwrite each other's. There are as many threads as the instance has: the limit of five
  abandoned ones, after which the loop says that the turn is aborted and goes on
  (loop.py:654), is not modelled.
* **Compaction.** A flush that fails a second time drops the old preserved text by design
  (test_repeated_flush_failures_do_not_nest). Two processes compacting one session at once,
  and a row that cannot be decoded (the count then never matches, so every compaction
  aborts), are left out, as are stale `.tmp` directories.
* **Daily notes.** Messages are numbered by timestamp; equal timestamps, a failing
  `refresh_memory_index` and the cut of the request are left out, and when a note is due is
  left open. A note is taken at least once: a kill between append and cursor repeats it.
  A message that a compaction summarised first is never asked about (the flush has it), and
  /clear or a rotation leaves what is pending unnoted.
* **Heartbeat.** `reported.json` is read and written in one step; names are such that
  `_consume_triggers` accepts them; readings and the repair of memory files carry no
  trigger; delivery of the answer is the scheduler's, so a send that fails after the
  triggers were deleted (scheduler.py:1139) is seen by neither model. The model also shows,
  by what its properties have to excuse, three losses: a text rewritten under its name
  during a wake, a check whose turn raised, and a report shown again after a failing watchdog.
* **Small files.** Texts and times of day are left out. By their code: ids of removed
  reminders are used again; `done N` counts in the list as it is, not as it was shown; a
  carry-over `add` overwrites a queue it cannot read; a word state cut short starts the
  progress afresh, and `--feedback last` scores whatever word was last sent; digest items
  are marked seen before they are shown; weather and air quality write their state before
  their trigger, so a kill between loses the alert; a load of the trust store during a write
  in place quarantines the file being written. Of word-daily, the ease factor is left out,
  intervals of six days and more count as six, and every word is one of words.json.
* **Data root.** One command at a time. Left out: the mirror of the requirements, the
  migration of HEARTBEAT.md, symbolic links, the limit of twenty `.bak` files, snapshots
  that a move brings along, shapes of config.json written by hand, doctor's checks of
  commands.json, database, time zone, location and skills-data. The provider answers its
  preflight. By their code: origin files and jobs.json are written in place, and a torn
  origin file counts as empty (provenance is lost; a torn `extensions/.origin.json` stops
  every wizard); a fresh copy of a skill cut short stays partial; an install or
  update-extension killed before its origin is written leaves a tree reported as modified,
  and a wizard then refuses its own file; a kill between the two `os.replace` leaves no
  skill; a key that the operator's shell exports is never saved to `.env`; a move across
  file systems that is cut short leaves a partial root, a second attempt nests
  `workspace/workspace`, and a third fails.
* **Search.** A text is the number of its edit, so none comes back (one that does inside
  the time between hash and read can be indexed wrongly). Chunks, ranking and embeddings
  are left out: in the code, hybrid mode answers "No results" without a keyword hit although
  vectors matched, embeddings that failed are not filled until their file changes, orphaned
  ones turn the mode to hybrid, and a hyphen in a word breaks the query. With no memory file
  at all, an early return keeps deleted texts in the index.

## 6. How the components meet

`CronTime` is what `CronScheduler` takes as the set of minutes that a job matches.
`CronScheduler` runs a job and knows only its outcome; for a `session=main` job and for the
record of a delivery, that step is `MainSession`'s cron actor. `MainSession` writes a turn's
messages without looking inside; `ToolTurn` is that turn, the user's or, in `GoalLoop`, a
goal's, and a call that it dispatches is `ToolRegistry`'s. `ToolTurn` compacts in one step; `Compaction` is that step, cut where
others can get in, and `DailyNotes` composes it with the note that follows under the same
lock. `HeartbeatTriggers` is what happens inside `RunAnswers` for a heartbeat job, and its
raising turn is `RunFails` there. The user's edits of jobs.json in `CronScheduler` are
`SharedFiles`' job operations, and its own deletion is `job drop` there. `Housekeeping` has
the service only as somebody who writes in the data root, and asks whether it would start.

## 7. Plan

In this order; each entry names what the module composes with and what is worth proving.

1. `Conversation`, a list of whole turns, as an abstract specification implemented by
   `MainSession`.
2. Heartbeat delivery: `HeartbeatTriggers` composed with the send of `CronScheduler`.
3. `/model` beside a wizard: the configuration in the loop's memory and in the file.

## 8. Not modelled, and why

Text in, text out: content scanning, redaction, token counts, linting, blocklist patterns,
prompt assembly, frontmatter. Remote services: provider clients, Telegram and Discord
polling, speech, web search; a send that timed out and is sent again although it had
arrived (contrib/channel_telegram.py:214) needs their behaviour. `faff status`, `faff export`
and `faff cron history`, which only read. Contributed skills that keep nothing. Components that are
modelled in part name what is missing in `PROJECT.json`.

## 9. Running

    tlc -workers 2 -config CronQuiet.cfg MCCronScheduler.tla
    tlc -workers 2 -config CronBusy.cfg MCCronScheduler.tla
    tlc -workers 2 -config CronTime.cfg MCCronTime.tla
    tlc -workers 2 -config MainSession.cfg MCMainSession.tla
    tlc -workers 2 -config ToolTurn.cfg GoalLoop.tla
    tlc -workers 2 -config ToolRegistry.cfg MCToolRegistry.tla
    tlc -workers 2 -config Compaction.cfg DailyNotes.tla
    tlc -workers 2 -config Heartbeat.cfg HeartbeatTriggers.tla
    tlc -workers 2 -config SharedFiles.cfg MCSharedFiles.tla
    tlc -workers 2 -config Housekeeping.cfg MCHousekeeping.tla
    tlc -workers 2 -config SearchIndex.cfg MCSearchIndex.tla
    tlc -workers 2 -config CronStaleSave.cfg MCCronScheduler.tla    # violated
    tlapm CronSchedulerProofs.tla    # and the other *Proofs modules

Definitions whose comment begins with "Mutant" are plausible bugs of the code, one per
property; put in the place of the definition they follow or precede, each makes TLC find
its property violated.
