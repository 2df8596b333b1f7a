--------------------------- MODULE CronScheduler ---------------------------
(***************************************************************************)
(* The in-process cron scheduler of `faff run` (runtime/scheduler.py): one *)
(* daemon thread that ticks over jobs.json, runs what is due, delivers the *)
(* answer to a channel, deletes one-shots that are done and keeps last-    *)
(* fire times and backoff in cron-state.json; the channel threads that     *)
(* call note_activity on the same object; the cron-manager skill that      *)
(* rewrites jobs.json; and a process that can be killed between any two of *)
(* these steps and started again.                                          *)
(*                                                                         *)
(* A step of the scheduler thread is the code between two points at which  *)
(* another thread's write, or a kill, can be told apart.  Prompts, texts,  *)
(* token counts and the session modes are abstracted: a run fails, answers *)
(* nothing, answers NO_REPLY or answers a text.                            *)
(***************************************************************************)
EXTENDS Integers, Sequences, FiniteSets

CONSTANTS
    JobId,        \* ids in jobs.json
    JobDef,       \* the job definitions the user may write
    InitialJobs,  \* jobs.json when the program is first started
    ChannelName,  \* channel names a job may carry
    Channel,      \* those of the channels `faff run` built (Scheduler.channels)
    NoJob,        \* no entry with this id
    NoChannel,    \* deliver.channel absent, or nothing said yet
    LastSpoken,   \* deliver.channel "last"
    Talker,       \* channels on which the user may speak (subset of Channel)
    BackoffStep,  \* BACKOFF_STEPS, a non-empty sequence of waits
    Window,       \* how far back a tick looks for a fire it owes
    MaxNow, MaxFaults, MaxEdits, MaxExits   \* bounds of the model

NoTime == -1

(* A job as load_jobs returns it.  `at` is NoTime for a scheduled job; a   *)
(* scheduled job's `fires` are the minutes its cron expression matches and *)
(* `stagger` the deadline offset of a top-of-hour job.                     *)
JobType ==
    [at : Nat \cup {NoTime}, fires : SUBSET Nat, stagger : Nat,
     heartbeat : BOOLEAN, announce : BOOLEAN, enabled : BOOLEAN,
     channel : ChannelName \cup {LastSpoken, NoChannel}]

ASSUME JobDefAssumption == JobDef \subseteq JobType /\ NoJob \notin JobType
ASSUME InitialJobsAssumption == InitialJobs \in [JobId -> JobDef \cup {NoJob}]
ASSUME ChannelAssumption ==
    /\ Talker \subseteq Channel
    /\ Channel \subseteq ChannelName
    /\ {NoChannel, LastSpoken} \cap ChannelName = {}
ASSUME BackoffStepAssumption == BackoffStep \in Seq(Nat) /\ Len(BackoffStep) > 0
ASSUME BoundsAssumption ==
    Window \in Nat /\ {MaxNow, MaxFaults, MaxEdits, MaxExits} \subseteq Nat

VARIABLES
    \* files
    jobs,        \* config/jobs.json
    cronState,   \* state/cron-state.json
    lastRow,     \* last row of each job's run log, the failed rows up to it and the
                 \* retry deadline when it was written
    \* the Scheduler object, lost with the process
    backoff,     \* _backoff
    lastFire,    \* _last_fire
    lastChannel, \* _last_channel
    jobsHash,    \* _jobs_hash, as the file contents it was computed from
    snapshot,    \* _jobs_snapshot
    pc,          \* where the scheduler thread is
    todo,        \* jobs of this tick not yet looked at (a job at most once)
    tickTime,    \* the tick's own `now`, read when it began
    run,         \* locals of _run_job_locked
    saving,      \* what a channel thread's _save_state is about to write
    stopping,    \* _stop_event
    \* environment, and what is left of the bounds
    now, faults, edits, exits,
    \* history, for the properties only
    fires,       \* per job, the instants handed to run_job, in order
    sends,       \* per job, sends that returned since its definition was written
    touched,     \* ids the user edited since the scheduler's last snapshot
    announced    \* ids named by the last "Cron jobs modified" message

fileVars == <<jobs, cronState, lastRow>>
memVars == <<backoff, lastFire, lastChannel>>
watchVars == <<jobsHash, snapshot>>
tickVars == <<todo, tickTime>>
envVars == <<now, faults, edits, exits>>
histVars == <<fires, sends, touched, announced>>
vars == <<fileVars, memVars, watchVars, pc, tickVars, run, saving, stopping,
          envVars, histVars>>

-----------------------------------------------------------------------------
(* BackoffState *)

NoBackoff == [failures |-> 0, retryAt |-> 0]

RecordFailure(b) ==
    LET idx == IF b.failures < Len(BackoffStep) THEN b.failures + 1
                                               ELSE Len(BackoffStep)
    IN  [failures |-> b.failures + 1, retryAt |-> now + BackoffStep[idx]]

RecordSuccess(b) == NoBackoff

IsBackedOff(b) == b.failures > 0 /\ now < b.retryAt

(* due_fire_time over the matched minutes: the latest one inside the       *)
(* window, after the last fire, whose staggered deadline has passed when   *)
(* the tick begins.                                                        *)
Owed(def, last) ==
    {f \in def.fires : f > last /\ f >= tickTime - Window /\ f + def.stagger <= tickTime}

DueFireTime(def, last) ==
    CHOOSE f \in Owed(def, last) : \A g \in Owed(def, last) : g <= f

NoRun == [id |-> NoJob, def |-> NoJob, text |-> "none", error |-> "none"]

NothingTodo == [j \in JobId |-> NoJob]

(* What _save_state writes. *)
StateOf(fire, back, channel) ==
    [lastFire |-> fire, backoff |-> back, lastChannel |-> channel]

(* Fault steps that a run of the model may take. *)
Faulty == faults < MaxFaults /\ faults' = faults + 1

-----------------------------------------------------------------------------
(* Process start and end *)

Init ==
    /\ jobs = InitialJobs
    /\ cronState = StateOf([j \in JobId |-> NoTime], [j \in JobId |-> NoBackoff],
                           NoChannel)
    /\ lastRow = [j \in JobId |-> [status |-> "none", retryAt |-> 0]]
    /\ backoff = [j \in JobId |-> NoBackoff]
    /\ lastFire = [j \in JobId |-> NoTime]
    /\ lastChannel = NoChannel
    /\ jobsHash = <<>>
    /\ snapshot = NothingTodo
    /\ pc = "boot"
    /\ todo = NothingTodo
    /\ tickTime = 0
    /\ run = NoRun
    /\ saving = <<>>
    /\ stopping = FALSE
    /\ now = 0 /\ faults = 0 /\ edits = 0 /\ exits = 0
    /\ fires = [j \in JobId |-> <<>>]
    /\ sends = [j \in JobId |-> 0]
    /\ touched = {}
    /\ announced = {}

(* Mutant: the backoff in the file is not read back. *)
LoadStateWithoutBackoff ==
    /\ pc = "boot"
    /\ lastFire' = [j \in JobId |-> IF cronState.lastFire[j] # NoTime
                                    THEN cronState.lastFire[j] ELSE lastFire[j]]
    /\ lastChannel' = IF cronState.lastChannel # NoChannel
                      THEN cronState.lastChannel ELSE lastChannel
    /\ stopping' = FALSE
    /\ pc' = "idle"
    /\ UNCHANGED <<fileVars, backoff, watchVars, tickVars, run, saving, envVars, histVars>>

(* start(): load_state, then the tick loop.  What the file does not hold   *)
(* stays as the fresh object, or an early note_activity, left it.          *)
LoadState ==
    /\ pc = "boot"
    /\ lastFire' = [j \in JobId |-> IF cronState.lastFire[j] # NoTime
                                    THEN cronState.lastFire[j] ELSE lastFire[j]]
    /\ backoff' = [j \in JobId |-> IF cronState.backoff[j].failures > 0
                                   THEN cronState.backoff[j] ELSE backoff[j]]
    /\ lastChannel' = IF cronState.lastChannel # NoChannel
                      THEN cronState.lastChannel ELSE lastChannel
    /\ stopping' = FALSE
    /\ pc' = "idle"
    /\ UNCHANGED <<fileVars, watchVars, tickVars, run, saving, envVars, histVars>>

(* A new process: files stay, the Scheduler object is built afresh. *)
FreshProcess ==
    /\ backoff' = [j \in JobId |-> NoBackoff]
    /\ lastFire' = [j \in JobId |-> NoTime]
    /\ lastChannel' = NoChannel
    /\ jobsHash' = <<>>
    /\ snapshot' = NothingTodo
    /\ pc' = "boot"
    /\ todo' = NothingTodo
    /\ tickTime' = 0
    /\ run' = NoRun
    /\ saving' = <<>>
    /\ stopping' = FALSE
    /\ UNCHANGED <<fileVars, histVars>>

(* Killed anywhere, a save of a channel thread included: os.replace makes   *)
(* the write of cron-state.json and of jobs.json all or nothing.           *)
Kill ==
    /\ exits < MaxExits
    /\ exits' = exits + 1
    /\ FreshProcess
    /\ UNCHANGED <<now, faults, edits>>

(* SIGTERM: Scheduler.stop. *)
Stop ==
    /\ ~stopping
    /\ pc # "exited"
    /\ exits < MaxExits
    /\ exits' = exits + 1
    /\ stopping' = TRUE
    /\ UNCHANGED <<fileVars, memVars, watchVars, pc, tickVars, run, saving,
                   now, faults, edits, histVars>>

(* The tick breaks at a job boundary, or the wait between ticks ends. *)
StopLoop ==
    /\ stopping
    /\ pc \in {"idle", "scan"}
    /\ pc' = "exited"
    /\ todo' = NothingTodo
    /\ tickTime' = 0
    /\ UNCHANGED <<fileVars, memVars, watchVars, run, saving, stopping, envVars,
                   histVars>>

Restart ==
    /\ pc = "exited"
    /\ FreshProcess
    /\ UNCHANGED envVars

-----------------------------------------------------------------------------
(* A tick: _check_jobs_changed, load_jobs, then each job in turn *)

CheckJobsChanged ==
    /\ pc = "idle"
    /\ ~stopping
    /\ tickTime' = now
    /\ pc' = "load"
    /\ IF jobsHash = <<jobs>>
       THEN UNCHANGED <<watchVars, announced, touched>>
       ELSE /\ jobsHash' = <<jobs>>
            /\ snapshot' = jobs
            /\ touched' = {}
            /\ LET changed == {j \in JobId : snapshot[j] # jobs[j]}
               IN  announced' = IF jobsHash = <<>> \/ changed = {}
                                THEN announced ELSE changed
    /\ UNCHANGED <<fileVars, memVars, todo, run, saving, stopping, envVars,
                   fires, sends>>

LoadJobs ==
    /\ pc = "load"
    /\ todo' = jobs
    /\ pc' = "scan"
    /\ UNCHANGED <<fileVars, memVars, watchVars, tickTime, run, saving, stopping, envVars,
                   histVars>>

EndTick ==
    /\ pc = "scan"
    /\ todo = NothingTodo
    /\ tickTime' = 0
    /\ pc' = "idle"
    /\ UNCHANGED <<fileVars, memVars, watchVars, todo, run, saving, stopping,
                   envVars, histVars>>

Runnable(j) ==
    /\ pc = "scan"
    /\ ~stopping
    /\ todo[j] # NoJob
    /\ todo[j].enabled
    /\ ~IsBackedOff(backoff[j])

IsOneShot(def) == def.at # NoTime

(* Mutant: due in its own minute only. *)
OneShotDueExactly(def) == IsOneShot(def) /\ def.at = tickTime

OneShotDue(def) == IsOneShot(def) /\ def.at <= tickTime

ScheduleDue(j) == ~IsOneShot(todo[j]) /\ Owed(todo[j], lastFire[j]) # {}

SkipJob(j) ==
    /\ pc = "scan"
    /\ ~stopping
    /\ todo[j] # NoJob
    /\ ~(Runnable(j) /\ (OneShotDue(todo[j]) \/ ScheduleDue(j)))
    /\ todo' = [todo EXCEPT ![j] = NoJob]
    /\ UNCHANGED <<fileVars, memVars, watchVars, pc, tickTime, run, saving, stopping,
                   envVars, histVars>>

EnterRun(j) ==
    /\ run' = [NoRun EXCEPT !.id = j, !.def = todo[j]]
    /\ todo' = [todo EXCEPT ![j] = NoJob]
    /\ pc' = "run"
    /\ UNCHANGED tickTime

FireOneShot(j) ==
    /\ Runnable(j)
    /\ OneShotDue(todo[j])
    /\ EnterRun(j)
    /\ UNCHANGED <<fileVars, memVars, watchVars, saving, stopping, envVars, histVars>>

(* Mutant: the fire is remembered and not saved. *)
FireScheduledUnsaved(j) ==
    /\ Runnable(j)
    /\ ScheduleDue(j)
    /\ LET due == DueFireTime(todo[j], lastFire[j])
       IN  /\ lastFire' = [lastFire EXCEPT ![j] = due]
           /\ fires' = [fires EXCEPT ![j] = Append(@, due)]
    /\ EnterRun(j)
    /\ UNCHANGED <<fileVars, backoff, lastChannel, watchVars, saving, stopping,
                   envVars, sends, touched, announced>>

(* The fire is saved before the job runs. *)
FireScheduled(j) ==
    /\ Runnable(j)
    /\ ScheduleDue(j)
    /\ LET due == DueFireTime(todo[j], lastFire[j])
       IN  /\ lastFire' = [lastFire EXCEPT ![j] = due]
           /\ fires' = [fires EXCEPT ![j] = Append(@, due)]
    /\ cronState' = StateOf(lastFire', backoff, lastChannel)
    /\ EnterRun(j)
    /\ UNCHANGED <<jobs, lastRow, backoff, lastChannel, watchVars, saving, stopping,
                   envVars, sends, touched, announced>>

-----------------------------------------------------------------------------
(* _run_job_locked: the run itself *)

(* An unresolvable model, a failed preflight, an exception out of the run, *)
(* or an empty answer of a job that is not the heartbeat.                  *)
RunFails ==
    /\ pc = "run"
    /\ Faulty
    /\ backoff' = [backoff EXCEPT ![run.id] = RecordFailure(@)]
    /\ cronState' = StateOf(lastFire, backoff', lastChannel)
    /\ run' = [run EXCEPT !.error = "failed"]
    /\ pc' = "log"
    /\ UNCHANGED <<jobs, lastRow, lastFire, lastChannel, watchVars, tickVars, saving,
                   stopping, now, edits, exits, histVars>>

(* Disabled, outside its hours, or clean: backoff is left alone and no row *)
(* that anybody acts on is logged.                                         *)
HeartbeatSkips ==
    /\ pc = "run"
    /\ run.def.heartbeat
    /\ run' = NoRun
    /\ pc' = "scan"
    /\ UNCHANGED <<fileVars, memVars, watchVars, tickVars, saving, stopping, envVars,
                   histVars>>

(* An empty heartbeat answer is a success that leaves backoff alone. *)
HeartbeatAnswersNothing ==
    /\ pc = "run"
    /\ run.def.heartbeat
    /\ pc' = "log"
    /\ UNCHANGED <<fileVars, memVars, watchVars, tickVars, run, saving, stopping,
                   envVars, histVars>>

RunAnswers(text) ==
    /\ pc = "run"
    /\ backoff' = [backoff EXCEPT ![run.id] = RecordSuccess(@)]
    /\ cronState' = StateOf(lastFire, backoff', lastChannel)
    /\ run' = [run EXCEPT !.text = text]
    /\ pc' = "deliver"
    /\ UNCHANGED <<jobs, lastRow, lastFire, lastChannel, watchVars, tickVars, saving,
                   stopping, envVars, histVars>>

-----------------------------------------------------------------------------
(* _run_job_locked: delivery *)

(* _resolve_deliver_channel.  CHOOSE stands for the first name in order. *)
Target(def) ==
    IF def.channel # LastSpoken THEN def.channel
    ELSE IF lastChannel \in Channel THEN lastChannel
    ELSE IF Channel # {} THEN CHOOSE c \in Channel : TRUE
    ELSE NoChannel

WantsDelivery == run.def.announce /\ run.text # "noreply"

Routable == Target(run.def) \in Channel

DeliveryOver(error) ==
    /\ run' = [run EXCEPT !.error = error]
    /\ pc' = "finish"
    /\ UNCHANGED <<fileVars, memVars, watchVars, tickVars, saving, stopping>>

NothingToDeliver ==
    /\ pc = "deliver"
    /\ ~WantsDelivery
    /\ DeliveryOver("none")
    /\ UNCHANGED <<envVars, histVars>>

CannotRoute ==
    /\ pc = "deliver"
    /\ WantsDelivery
    /\ ~Routable
    /\ DeliveryOver("unroutable")
    /\ UNCHANGED <<envVars, histVars>>

SendRaises ==
    /\ pc = "deliver"
    /\ WantsDelivery
    /\ Routable
    /\ Faulty
    /\ DeliveryOver("undelivered")
    /\ UNCHANGED <<now, edits, exits, histVars>>

SendReturns ==
    /\ pc = "deliver"
    /\ WantsDelivery
    /\ Routable
    /\ sends' = [sends EXCEPT ![run.id] = IF jobs[run.id] = run.def THEN @ + 1 ELSE @]
    /\ pc' = "record"
    /\ UNCHANGED <<fileVars, memVars, watchVars, tickVars, run, saving, stopping,
                   envVars, fires, touched, announced>>

(* _record_and_signal (MainSession has its other end), _remember_delivery. *)
RecordDelivery ==
    /\ pc = "record"
    /\ cronState' = StateOf(lastFire, backoff, lastChannel)
    /\ pc' = "finish"
    /\ UNCHANGED <<jobs, lastRow, memVars, watchVars, tickVars, run, saving, stopping,
                   envVars, histVars>>

-----------------------------------------------------------------------------
(* _run_job_locked: what the outcome does to the job *)

(* Mutant: deleted although the send failed. *)
DropsUndelivered == IsOneShot(run.def)

DropsJob == IsOneShot(run.def) /\ run.error \in {"none", "unroutable"}

(* _delete_job, a locked read-modify-write by id. *)
DropOneShot ==
    /\ pc = "finish"
    /\ DropsJob
    /\ jobs' = [jobs EXCEPT ![run.id] = NoJob]
    /\ pc' = "rehash"
    /\ UNCHANGED <<cronState, lastRow, memVars, watchVars, tickVars, run, saving,
                   stopping, envVars, histVars>>

(* Mutant: the deletion is left for the next tick to notice. *)
ForgetNothing ==
    /\ pc = "rehash"
    /\ pc' = "log"
    /\ UNCHANGED <<fileVars, memVars, watchVars, tickVars, run, saving, stopping, envVars,
                   histVars>>

(* The rest of _drop_one_shot: the deletion is not to be announced. *)
ForgetOneShot ==
    /\ pc = "rehash"
    /\ jobsHash' = <<jobs>>
    /\ snapshot' = [snapshot EXCEPT ![run.id] = NoJob]
    /\ pc' = "log"
    /\ UNCHANGED <<fileVars, memVars, tickVars, run, saving, stopping, envVars, histVars>>

KeepJob ==
    /\ pc = "finish"
    /\ ~DropsJob
    /\ IF run.error = "undelivered"
       THEN /\ backoff' = [backoff EXCEPT ![run.id] = RecordFailure(@)]
            /\ cronState' = StateOf(lastFire, backoff', lastChannel)
       ELSE UNCHANGED <<backoff, cronState>>
    /\ pc' = "log"
    /\ UNCHANGED <<jobs, lastRow, lastFire, lastChannel, watchVars, tickVars, run,
                   saving, stopping, envVars, histVars>>

(* _log_run.  The deadline is in no row: a property compares the job's      *)
(* later runs with it.                                                     *)
LogRun ==
    /\ pc = "log"
    /\ lastRow' = [lastRow EXCEPT ![run.id] =
           [status |-> IF run.error = "none" THEN "success" ELSE "error",
            retryAt |-> IF run.error \in {"failed", "undelivered"}
                        THEN backoff[run.id].retryAt ELSE 0]]
    /\ run' = NoRun
    /\ pc' = "scan"
    /\ UNCHANGED <<jobs, cronState, memVars, watchVars, tickVars, saving, stopping,
                   envVars, histVars>>

-----------------------------------------------------------------------------
(* Other threads and processes *)

(* note_activity on a channel thread: it changes the object at once and    *)
(* builds the document from it, and writes the file later.                 *)
NoteActivity(c) ==
    /\ c # lastChannel
    /\ saving = <<>>
    /\ pc # "exited"
    /\ lastChannel' = c
    /\ saving' = <<StateOf(lastFire, backoff, c)>>
    /\ UNCHANGED <<fileVars, backoff, lastFire, watchVars, pc, tickVars, run, stopping,
                   envVars, histVars>>

FinishSave ==
    /\ saving # <<>>
    /\ cronState' = saving[1]
    /\ saving' = <<>>
    /\ UNCHANGED <<jobs, lastRow, memVars, watchVars, pc, tickVars, run, stopping,
                   envVars, histVars>>

(* cron-manager add, update, remove, enable, disable: locked_jobs. *)
UserEdit(j, def) ==
    /\ edits < MaxEdits
    /\ jobs[j] # def
    /\ jobs' = [jobs EXCEPT ![j] = def]
    /\ edits' = edits + 1
    /\ sends' = [sends EXCEPT ![j] = 0]
    /\ touched' = touched \cup {j}
    /\ UNCHANGED <<cronState, lastRow, memVars, watchVars, pc, tickVars, run, saving,
                   stopping, now, faults, exits, fires, announced>>

(* Time passes anywhere; past MaxNow only to let a backoff run out. *)
Clock ==
    /\ \/ now < MaxNow
       \/ \E j \in JobId : IsBackedOff(backoff[j]) \/ IsBackedOff(cronState.backoff[j])
    /\ now' = now + 1
    /\ UNCHANGED <<fileVars, memVars, watchVars, pc, tickVars, run, saving, stopping,
                   faults, edits, exits, histVars>>

-----------------------------------------------------------------------------
Tick ==
    \/ CheckJobsChanged \/ LoadJobs \/ EndTick
    \/ \E j \in JobId : SkipJob(j) \/ FireOneShot(j) \/ FireScheduled(j)

RunJob ==
    \/ RunFails \/ HeartbeatSkips \/ HeartbeatAnswersNothing
    \/ \E text \in {"text", "noreply"} : RunAnswers(text)
    \/ NothingToDeliver \/ CannotRoute \/ SendRaises \/ SendReturns \/ RecordDelivery
    \/ DropOneShot \/ ForgetOneShot \/ KeepJob \/ LogRun

SchedulerThread == LoadState \/ Tick \/ RunJob \/ StopLoop

Process == Kill \/ Stop \/ Restart

Next ==
    \/ SchedulerThread
    \/ Process
    \/ FinishSave
    \/ Clock
    \/ \E c \in Talker : NoteActivity(c)
    \/ \E j \in JobId, def \in JobDef \cup {NoJob} : UserEdit(j, def)

Spec == Init /\ [][Next]_vars

(* The thread keeps running, a stopped service is started again, a begun   *)
(* write ends and time passes; nobody has to speak, edit, fail or kill.    *)
FairSpec ==
    /\ Spec
    /\ WF_vars(SchedulerThread)
    /\ WF_vars(Restart)
    /\ WF_vars(FinishSave)
    /\ WF_vars(Clock)

-----------------------------------------------------------------------------
(* Types *)

BackoffType == [failures : Nat, retryAt : Nat]

StateType ==
    [lastFire : [JobId -> Nat \cup {NoTime}], backoff : [JobId -> BackoffType],
     lastChannel : Channel \cup {NoChannel}]

RowType == [status : {"none", "success", "error"}, retryAt : Nat]

RunType ==
    [id : JobId, def : JobDef, text : {"none", "text", "noreply"},
     error : {"none", "failed", "undelivered", "unroutable"}]

JobsType == [JobId -> JobDef \cup {NoJob}]

RunningPc == {"run", "deliver", "record", "finish", "rehash", "log"}

FileTypes ==
    /\ jobs \in JobsType
    /\ cronState \in StateType
    /\ lastRow \in [JobId -> RowType]

MemoryTypes ==
    /\ backoff \in [JobId -> BackoffType]
    /\ lastFire \in [JobId -> Nat \cup {NoTime}]
    /\ lastChannel \in Channel \cup {NoChannel}

WatchTypes == jobsHash \in Seq(JobsType) /\ snapshot \in JobsType

RunTypes == IF pc \in RunningPc THEN run \in RunType ELSE run = NoRun

ThreadTypes ==
    /\ pc \in RunningPc \cup {"boot", "idle", "load", "scan", "exited"}
    /\ todo \in JobsType
    /\ tickTime \in Nat
    /\ RunTypes
    /\ saving \in Seq(StateType)
    /\ stopping \in BOOLEAN

BoundTypes == now \in Nat /\ faults \in Nat /\ edits \in Nat /\ exits \in Nat

HistoryTypes ==
    /\ fires \in [JobId -> Seq(Nat)]
    /\ sends \in [JobId -> Nat]
    /\ touched \subseteq JobId
    /\ announced \subseteq JobId

(* The shape of every variable; a run record exists exactly while a job is *)
(* between run_job and its log row.                                        *)
TypeOK ==
    /\ FileTypes /\ MemoryTypes /\ WatchTypes /\ ThreadTypes
    /\ BoundTypes /\ HistoryTypes

-----------------------------------------------------------------------------
(* Safety *)

(* A scheduled job is handed to run_job for later and later instants: none *)
(* runs twice and none out of order, whatever restarts lie between.        *)
FiresInOrder ==
    \A j \in JobId : \A i, k \in DOMAIN fires[j] :
        i < k => fires[j][i] < fires[j][k]

(* Once a failed run is in the log, the job does not run again before the  *)
(* deadline that failure set, whatever restarts lie between.               *)
BackoffHonoured ==
    [][pc = "scan" /\ pc' = "run" => now >= lastRow[run'.id].retryAt]_vars

(* A message that jobs.json was modified names only jobs the user touched: *)
(* the scheduler's own deletions are never reported as an edit.            *)
AnnouncesOnlyUserEdits ==
    [][announced' # announced => announced' \subseteq touched]_vars

-----------------------------------------------------------------------------
(* Liveness *)

(* An enabled one-shot leaves the file, or the user changes it, however    *)
(* often the provider, the channel and the process fail on the way (the    *)
(* model's faults and exits are finite).                                   *)
OneShotHandled ==
    \A j \in JobId, d \in JobDef :
        IsOneShot(d) /\ d.enabled /\ ~d.heartbeat
            => (jobs[j] = d ~> jobs[j] # d)

=============================================================================
