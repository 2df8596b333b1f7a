----------------------- MODULE CronSchedulerProofs -----------------------
(* What CronScheduler does for every set of jobs, channels and bounds.    *)
EXTENDS CronReminders, FiniteSetTheorems, TLAPS

-----------------------------------------------------------------------------
(* Operators *)

LEMMA NoBackoffType == NoBackoff \in BackoffType
BY DEF NoBackoff, BackoffType

(* A failure leaves a count and a deadline, whatever was there before.    *)
LEMMA RecordFailureType ==
    ASSUME NEW b \in BackoffType, now \in Nat
    PROVE  RecordFailure(b) \in BackoffType
<1> DEFINE idx == IF b.failures < Len(BackoffStep) THEN b.failures + 1
                                                  ELSE Len(BackoffStep)
<1>1. b.failures \in Nat BY DEF BackoffType
<1>2. idx \in 1 .. Len(BackoffStep) BY <1>1, BackoffStepAssumption
<1>3. BackoffStep[idx] \in Nat BY <1>2, BackoffStepAssumption
<1>4. QED BY <1>1, <1>3 DEF RecordFailure, BackoffType

LEMMA RecordSuccessType == ASSUME NEW b PROVE RecordSuccess(b) \in BackoffType
BY NoBackoffType DEF RecordSuccess

(* A bounded set of instants has a latest one: the member whose later     *)
(* members are fewest, by the well-founded order of strict inclusion.     *)
LEMMA LatestExists ==
    ASSUME NEW S \in SUBSET Nat, S # {}, NEW n \in Nat, \A s \in S : s <= n
    PROVE  \E m \in S : \A s \in S : s <= m
<1> DEFINE Later(s) == {t \in S : t > s}
           Laters == {Later(s) : s \in S}
<1>1. IsFiniteSet(S) BY FS_BoundedSetOfNaturals
<1>2. Laters \subseteq FiniteSubsetsOf(S) /\ Laters # {}
  <2>1. Laters \subseteq SUBSET S OBVIOUS
  <2>2. Laters # {} OBVIOUS
  <2> HIDE DEF Laters
  <2>3. QED BY <1>1, <2>1, <2>2, FS_FiniteSubsetsOfFinite
<1>3. PICK L \in Laters : \A M \in Laters : ~(<<M, L>> \in StrictSubsetOrdering(S))
  <2> HIDE DEF Laters
  <2> QED BY <1>2, WFMin, FS_StrictSubsetOrderingWellFounded, Zenon
<1>4. PICK m \in S : L = Later(m) OBVIOUS
<1>5. \A s \in S : s <= m
  <2> SUFFICES ASSUME NEW s \in S, s > m PROVE FALSE OBVIOUS
  <2>1. Later(s) \in SUBSET S /\ Later(m) \in SUBSET S OBVIOUS
  <2>2. Later(s) \subseteq Later(m)
    <3> SUFFICES ASSUME NEW t \in S, t > s PROVE t > m OBVIOUS
    <3>1. s \in Nat /\ m \in Nat /\ t \in Nat OBVIOUS
    <3>2. QED BY <3>1
  <2>3. s \in Later(m) /\ s \notin Later(s) OBVIOUS
  <2>4. <<Later(s), L>> \in StrictSubsetOrdering(S)
    BY <1>4, <2>1, <2>2, <2>3 DEF StrictSubsetOrdering
  <2>5. QED BY <1>3, <2>4
<1>6. QED BY <1>5

(* due_fire_time answers with an owed fire: the latest of them exists,    *)
(* because they are all at or before the tick.                             *)
LEMMA DueFireTimeIsOwed ==
    ASSUME NEW def, def.fires \subseteq Nat, def.stagger \in Nat,
           tickTime \in Nat, NEW last, Owed(def, last) # {}
    PROVE  DueFireTime(def, last) \in Owed(def, last)
<1>1. \A f \in Owed(def, last) : f \in Nat /\ f <= tickTime BY DEF Owed
<1>2. \E f \in Owed(def, last) : \A g \in Owed(def, last) : g <= f
  BY <1>1, LatestExists
<1>3. QED BY <1>2 DEF DueFireTime

-----------------------------------------------------------------------------
(* Types *)

LEMMA StateOfType ==
    ASSUME NEW f \in [JobId -> Nat \cup {NoTime}], NEW b \in [JobId -> BackoffType],
           NEW c \in Channel \cup {NoChannel}
    PROVE  StateOf(f, b, c) \in StateType
BY DEF StateOf, StateType

LEMMA NothingTodoType == NothingTodo \in JobsType
BY DEF NothingTodo, JobsType

LEMMA FileContents == TypeOK => <<jobs>> \in Seq(JobsType)
BY DEF TypeOK, FileTypes

LEMMA NoSave == <<>> \in Seq(StateType)
OBVIOUS

LEMMA TypeInit == Init => TypeOK
<1> SUFFICES ASSUME Init PROVE TypeOK OBVIOUS
<1> USE DEF Init
<1>1. FileTypes
  BY NoBackoffType, StateOfType, InitialJobsAssumption DEF FileTypes, JobsType, RowType, NoTime
<1>2. MemoryTypes BY NoBackoffType DEF MemoryTypes
<1>3. WatchTypes BY NothingTodoType DEF WatchTypes
<1>4. ThreadTypes BY NothingTodoType, NoSave DEF ThreadTypes, RunTypes, RunningPc
<1>5. BoundTypes BY DEF BoundTypes
<1>6. HistoryTypes BY DEF HistoryTypes
<1>7. QED BY <1>1, <1>2, <1>3, <1>4, <1>5, <1>6 DEF TypeOK

(* A job of this tick is one of the definitions. *)
LEMMA TodoType ==
    ASSUME TypeOK, NEW j \in JobId, todo[j] # NoJob
    PROVE  todo[j] \in JobDef /\ todo[j] \in JobType
BY JobDefAssumption DEF TypeOK, ThreadTypes, JobsType

(* A fire that a scheduled job is handed is an owed instant. *)
LEMMA FireScheduledDue ==
    ASSUME TypeOK, NEW j \in JobId, FireScheduled(j)
    PROVE  /\ DueFireTime(todo[j], lastFire[j]) \in Nat
           /\ DueFireTime(todo[j], lastFire[j]) > lastFire[j]
<1>1. todo[j] \in JobType BY TodoType DEF FireScheduled, Runnable
<1>2. DueFireTime(todo[j], lastFire[j]) \in Owed(todo[j], lastFire[j])
  BY <1>1, DueFireTimeIsOwed 
  DEF FireScheduled, ScheduleDue, JobType, TypeOK, ThreadTypes
<1>3. QED BY <1>1, <1>2 DEF Owed, JobType

(* A fresh Scheduler object has the types its files have not lost. *)
LEMMA FreshProcessTypes ==
    TypeOK /\ FreshProcess
        => FileTypes' /\ MemoryTypes' /\ WatchTypes' /\ ThreadTypes' /\ HistoryTypes'
<1> SUFFICES ASSUME TypeOK, FreshProcess
             PROVE  FileTypes' /\ MemoryTypes' /\ WatchTypes' /\ ThreadTypes' /\ HistoryTypes'
  OBVIOUS
<1> USE DEF TypeOK, FreshProcess, fileVars, histVars
<1>1. FileTypes' BY DEF FileTypes
<1>2. MemoryTypes' BY NoBackoffType DEF MemoryTypes
<1>3. WatchTypes' BY NothingTodoType DEF WatchTypes
<1>4. ThreadTypes' BY NothingTodoType, NoSave DEF ThreadTypes, RunTypes, RunningPc
<1>5. HistoryTypes' BY DEF HistoryTypes
<1>6. QED BY <1>1, <1>2, <1>3, <1>4, <1>5

LEMMA TypeStep == TypeOK /\ [Next]_vars => TypeOK'
<1> SUFFICES ASSUME TypeOK, [Next]_vars PROVE TypeOK' OBVIOUS
<1> USE DEF TypeOK, fileVars, memVars, watchVars, tickVars, envVars, histVars
<1>1. CASE LoadState
  <2>1. MemoryTypes'
    BY <1>1 DEF LoadState, MemoryTypes, FileTypes, StateType
  <2>2. ThreadTypes'
    BY <1>1 DEF LoadState, ThreadTypes, RunTypes, RunningPc
  <2>3. QED
    BY <1>1, <2>1, <2>2 DEF LoadState, FileTypes, WatchTypes,
       BoundTypes, HistoryTypes
<1>2. CASE CheckJobsChanged
  <2>1. WatchTypes'
    BY <1>2, FileContents DEF CheckJobsChanged, WatchTypes, FileTypes
  <2>2. ThreadTypes'
    BY <1>2 DEF CheckJobsChanged, ThreadTypes, RunTypes, RunningPc, BoundTypes
  <2>3. HistoryTypes'
    BY <1>2 DEF CheckJobsChanged, HistoryTypes
  <2>4. QED
    BY <1>2, <2>1, <2>2, <2>3 DEF CheckJobsChanged, FileTypes,
       MemoryTypes, BoundTypes
<1>3. CASE LoadJobs
  <2>1. ThreadTypes'
    BY <1>3 DEF LoadJobs, ThreadTypes, RunTypes, FileTypes, RunningPc
  <2>2. QED
    BY <1>3, <2>1 DEF LoadJobs, FileTypes, MemoryTypes, WatchTypes,
       BoundTypes, HistoryTypes
<1>4. CASE EndTick
  <2>1. ThreadTypes'
    BY <1>4 DEF EndTick, ThreadTypes, RunTypes, RunningPc
  <2>2. QED
    BY <1>4, <2>1 DEF EndTick, FileTypes, MemoryTypes, WatchTypes,
       BoundTypes, HistoryTypes
<1>5. ASSUME NEW j \in JobId, SkipJob(j) PROVE TypeOK'
  <2>1. ThreadTypes'
    BY <1>5 DEF SkipJob, ThreadTypes, RunTypes, JobsType, RunningPc
  <2>2. QED
    BY <1>5, <2>1 DEF SkipJob, FileTypes, MemoryTypes, WatchTypes,
       BoundTypes, HistoryTypes
<1>6. ASSUME NEW j \in JobId, FireOneShot(j) PROVE TypeOK'
  <2>1. ThreadTypes'
    BY <1>6, TodoType DEF FireOneShot, EnterRun, Runnable, ThreadTypes, RunTypes,
       JobsType, NoRun, RunType, RunningPc
  <2>2. QED
    BY <1>6, <2>1 DEF FireOneShot, EnterRun, Runnable, FileTypes,
       MemoryTypes, WatchTypes, BoundTypes, HistoryTypes
<1>7. ASSUME NEW j \in JobId, FireScheduled(j) PROVE TypeOK'
  <2>1. FileTypes'
    BY <1>7, StateOfType, FireScheduledDue DEF FireScheduled, EnterRun, Runnable,
       FileTypes, MemoryTypes
  <2>2. MemoryTypes'
    BY <1>7, FireScheduledDue DEF FireScheduled, EnterRun, Runnable, MemoryTypes
  <2>3. ThreadTypes'
    BY <1>7, TodoType DEF FireScheduled, EnterRun, Runnable, ThreadTypes, RunTypes,
       JobsType, NoRun, RunType, RunningPc
  <2>4. HistoryTypes'
    <3>1. Append(fires[j], DueFireTime(todo[j], lastFire[j])) \in Seq(Nat)
      BY <1>7, FireScheduledDue DEF HistoryTypes
    <3>2. QED BY <1>7, <3>1 DEF FireScheduled, HistoryTypes
  <2>5. QED
    BY <1>7, <2>1, <2>2, <2>3, <2>4 DEF FireScheduled, EnterRun,
       Runnable, WatchTypes, BoundTypes
<1>8. CASE RunFails
  <2>1. FileTypes'
    BY <1>8, StateOfType, RecordFailureType DEF RunFails, Faulty, FileTypes,
       MemoryTypes, BoundTypes, ThreadTypes, RunTypes, RunType
  <2>2. MemoryTypes'
    BY <1>8, RecordFailureType DEF RunFails, Faulty, MemoryTypes, BoundTypes,
       ThreadTypes, RunTypes, RunType
  <2>3. ThreadTypes'
    BY <1>8 DEF RunFails, Faulty, ThreadTypes, RunTypes, RunType, RunningPc
  <2>4. BoundTypes'
    BY <1>8 DEF RunFails, Faulty, BoundTypes
  <2>5. QED
    BY <1>8, <2>1, <2>2, <2>3, <2>4 DEF RunFails, Faulty, WatchTypes,
       HistoryTypes
<1>9. CASE HeartbeatSkips
  <2>1. ThreadTypes'
    BY <1>9 DEF HeartbeatSkips, ThreadTypes, RunTypes, RunningPc
  <2>2. QED
    BY <1>9, <2>1 DEF HeartbeatSkips, FileTypes, MemoryTypes,
       WatchTypes, BoundTypes, HistoryTypes
<1>10. CASE HeartbeatAnswersNothing
  <2>1. ThreadTypes'
    BY <1>10 DEF HeartbeatAnswersNothing, ThreadTypes, RunTypes, RunningPc
  <2>2. QED
    BY <1>10, <2>1 DEF HeartbeatAnswersNothing, FileTypes, MemoryTypes,
       WatchTypes, BoundTypes, HistoryTypes
<1>11. ASSUME NEW text \in {"text", "noreply"}, RunAnswers(text) PROVE TypeOK'
  <2>1. FileTypes'
    BY <1>11, StateOfType, RecordSuccessType DEF RunAnswers, FileTypes, MemoryTypes,
       ThreadTypes, RunTypes, RunType
  <2>2. MemoryTypes'
    BY <1>11, RecordSuccessType DEF RunAnswers, MemoryTypes, ThreadTypes, RunTypes,
       RunType
  <2>3. ThreadTypes'
    BY <1>11 DEF RunAnswers, ThreadTypes, RunTypes, RunType, RunningPc
  <2>4. QED
    BY <1>11, <2>1, <2>2, <2>3 DEF RunAnswers, WatchTypes, BoundTypes,
       HistoryTypes
<1>12. CASE NothingToDeliver
  <2>1. ThreadTypes'
    BY <1>12 DEF NothingToDeliver, DeliveryOver, ThreadTypes, RunTypes, RunType,
       RunningPc
  <2>2. QED
    BY <1>12, <2>1 DEF NothingToDeliver, DeliveryOver, FileTypes,
       MemoryTypes, WatchTypes, BoundTypes, HistoryTypes
<1>13. CASE CannotRoute
  <2>1. ThreadTypes'
    BY <1>13 DEF CannotRoute, DeliveryOver, ThreadTypes, RunTypes, RunType,
       RunningPc
  <2>2. QED
    BY <1>13, <2>1 DEF CannotRoute, DeliveryOver, FileTypes,
       MemoryTypes, WatchTypes, BoundTypes, HistoryTypes
<1>14. CASE SendRaises
  <2>1. ThreadTypes'
    BY <1>14 DEF SendRaises, DeliveryOver, Faulty, ThreadTypes, RunTypes, RunType,
       RunningPc
  <2>2. BoundTypes'
    BY <1>14 DEF SendRaises, DeliveryOver, Faulty, BoundTypes
  <2>3. QED
    BY <1>14, <2>1, <2>2 DEF SendRaises, DeliveryOver, Faulty,
       FileTypes, MemoryTypes, WatchTypes, HistoryTypes
<1>15. CASE SendReturns
  <2>1. ThreadTypes'
    BY <1>15 DEF SendReturns, ThreadTypes, RunTypes, RunningPc
  <2>2. HistoryTypes'
    BY <1>15 DEF SendReturns, HistoryTypes, ThreadTypes, RunTypes, RunType
  <2>3. QED
    BY <1>15, <2>1, <2>2 DEF SendReturns, FileTypes, MemoryTypes,
       WatchTypes, BoundTypes
<1>16. CASE RecordDelivery
  <2>1. FileTypes'
    BY <1>16, StateOfType DEF RecordDelivery, FileTypes, MemoryTypes
  <2>2. ThreadTypes'
    BY <1>16 DEF RecordDelivery, ThreadTypes, RunTypes, RunningPc
  <2>3. QED
    BY <1>16, <2>1, <2>2 DEF RecordDelivery, MemoryTypes, WatchTypes,
       BoundTypes, HistoryTypes
<1>17. CASE DropOneShot
  <2>1. FileTypes'
    BY <1>17 DEF DropOneShot, FileTypes, JobsType
  <2>2. ThreadTypes'
    BY <1>17 DEF DropOneShot, ThreadTypes, RunTypes, RunningPc
  <2>3. QED
    BY <1>17, <2>1, <2>2 DEF DropOneShot, MemoryTypes, WatchTypes,
       BoundTypes, HistoryTypes
<1>18. CASE ForgetOneShot
  <2>1. WatchTypes'
    <3>1. snapshot' \in JobsType BY <1>18 DEF ForgetOneShot, WatchTypes, JobsType
    <3>2. QED BY <1>18, <3>1, FileContents DEF ForgetOneShot, WatchTypes
  <2>2. ThreadTypes'
    BY <1>18 DEF ForgetOneShot, ThreadTypes, RunTypes, RunningPc
  <2>3. QED
    BY <1>18, <2>1, <2>2 DEF ForgetOneShot, FileTypes, MemoryTypes,
       BoundTypes, HistoryTypes
<1>19. CASE KeepJob
  <2>1. FileTypes'
    BY <1>19, StateOfType, RecordFailureType DEF KeepJob, FileTypes, MemoryTypes,
       BoundTypes, ThreadTypes, RunTypes, RunType
  <2>2. MemoryTypes'
    BY <1>19, RecordFailureType DEF KeepJob, MemoryTypes, BoundTypes, ThreadTypes,
       RunTypes, RunType
  <2>3. ThreadTypes'
    BY <1>19 DEF KeepJob, ThreadTypes, RunTypes, RunningPc
  <2>4. QED
    BY <1>19, <2>1, <2>2, <2>3 DEF KeepJob, WatchTypes, BoundTypes,
       HistoryTypes
<1>20. CASE LogRun
  <2>1. FileTypes'
    BY <1>20 DEF LogRun, FileTypes, MemoryTypes, ThreadTypes, RunTypes, RowType,
       BackoffType, RunType
  <2>2. ThreadTypes'
    BY <1>20 DEF LogRun, ThreadTypes, RunTypes, RunningPc
  <2>3. QED
    BY <1>20, <2>1, <2>2 DEF LogRun, MemoryTypes, WatchTypes,
       BoundTypes, HistoryTypes
<1>21. CASE StopLoop
  <2>1. ThreadTypes'
    BY <1>21, NothingTodoType DEF StopLoop, ThreadTypes, RunTypes, RunningPc
  <2>2. QED
    BY <1>21, <2>1 DEF StopLoop, FileTypes, MemoryTypes, WatchTypes,
       BoundTypes, HistoryTypes
<1>22. CASE Kill
  <2>1. BoundTypes' BY <1>22 DEF Kill, BoundTypes
  <2>2. QED BY <1>22, <2>1, FreshProcessTypes DEF Kill
<1>23. CASE Stop
  <2>1. ThreadTypes'
    BY <1>23 DEF Stop, ThreadTypes, RunTypes
  <2>2. BoundTypes'
    BY <1>23 DEF Stop, BoundTypes
  <2>3. QED
    BY <1>23, <2>1, <2>2 DEF Stop, FileTypes, MemoryTypes, WatchTypes,
       HistoryTypes
<1>24. CASE Restart
  <2>1. BoundTypes' BY <1>24 DEF Restart, BoundTypes
  <2>2. QED BY <1>24, <2>1, FreshProcessTypes DEF Restart
<1>25. CASE FinishSave
  <2>1. FileTypes'
    BY <1>25 DEF FinishSave, FileTypes, ThreadTypes, RunTypes
  <2>2. ThreadTypes'
    BY <1>25 DEF FinishSave, ThreadTypes, RunTypes
  <2>3. QED
    BY <1>25, <2>1, <2>2 DEF FinishSave, MemoryTypes, WatchTypes,
       BoundTypes, HistoryTypes
<1>26. CASE Clock
  <2>1. BoundTypes'
    BY <1>26 DEF Clock, BoundTypes
  <2>2. QED
    BY <1>26, <2>1 DEF Clock, FileTypes, MemoryTypes, WatchTypes,
       ThreadTypes, RunTypes, HistoryTypes
<1>27. ASSUME NEW c \in Talker, NoteActivity(c) PROVE TypeOK'
  <2>1. MemoryTypes'
    BY <1>27, ChannelAssumption DEF NoteActivity, MemoryTypes
  <2>2. ThreadTypes'
    BY <1>27, StateOfType, ChannelAssumption DEF NoteActivity, ThreadTypes,
       RunTypes, MemoryTypes, RunningPc
  <2>3. QED
    BY <1>27, <2>1, <2>2 DEF NoteActivity, FileTypes, WatchTypes,
       BoundTypes, HistoryTypes
<1>28. ASSUME NEW j \in JobId, NEW d \in JobDef \cup {NoJob}, UserEdit(j, d)
      PROVE  TypeOK'
  <2>1. FileTypes'
    BY <1>28 DEF UserEdit, FileTypes, JobsType
  <2>2. HistoryTypes'
    BY <1>28 DEF UserEdit, HistoryTypes
  <2>3. BoundTypes'
    BY <1>28 DEF UserEdit, BoundTypes
  <2>4. QED
    BY <1>28, <2>1, <2>2, <2>3 DEF UserEdit, MemoryTypes, WatchTypes,
       ThreadTypes, RunTypes
<1>29. CASE UNCHANGED vars
  BY <1>29 DEF vars, FileTypes, MemoryTypes, WatchTypes, ThreadTypes, RunTypes,
     BoundTypes, HistoryTypes
<1>30. QED
  BY <1>1, <1>2, <1>3, <1>4, <1>5, <1>6, <1>7, <1>8, <1>9, <1>10, <1>11,
     <1>12, <1>13, <1>14, <1>15, <1>16, <1>17, <1>18, <1>19, <1>20, <1>21, <1>22,
     <1>23, <1>24, <1>25, <1>26, <1>27, <1>28, <1>29
  DEF Next, SchedulerThread, Tick, RunJob, Process

(* The shapes hold in every reachable state. *)
THEOREM TypeCorrect == Spec => []TypeOK
<1>1. QED BY TypeInit, TypeStep, PTL DEF Spec

-----------------------------------------------------------------------------
(* A scheduler whose object is saved by its own thread alone, because no  *)
(* channel thread calls note_activity: what load_state promises holds.    *)
(*                                                                        *)
(* The argument: except before load_state, cron-state.json and the object *)
(* agree (SavedState), because every step that changes one saves it in    *)
(* the same breath.  So a fire, once handed to run_job, bounds every      *)
(* later one from below whatever restarts come between (FiresSaved), and  *)
(* a deadline in the log is still in the object (BackoffSaved).           *)

SavedState ==
    /\ saving = <<>>
    /\ pc = "boot" => /\ lastFire = [j \in JobId |-> NoTime]
                      /\ backoff = [j \in JobId |-> NoBackoff]
    /\ pc # "boot" => cronState.lastFire = lastFire /\ cronState.backoff = backoff
    /\ \A j \in JobId : cronState.backoff[j].failures = 0
                            => cronState.backoff[j] = NoBackoff

FiresSaved ==
    \A j \in JobId : \A i \in DOMAIN fires[j] : fires[j][i] <= cronState.lastFire[j]

(* A deadline in the log that is still to come is one that the saved      *)
(* backoff holds back; the job of the run in progress has none, unless    *)
(* that run has just failed.                                              *)
BackoffSaved ==
    \A j \in JobId :
        now < lastRow[j].retryAt
            => /\ pc \in RunningPc => run.id # j
               /\ cronState.backoff[j].failures > 0
               /\ cronState.backoff[j].retryAt >= lastRow[j].retryAt

(* The error of the run in progress, and that a failure has been recorded. *)
RunOutcome ==
    /\ pc \in {"run", "deliver", "record"} => run.error = "none"
    /\ pc = "finish" => run.error # "failed"
    /\ pc = "rehash" => run.error \in {"none", "unroutable"}
    /\ pc = "log" /\ run.error \in {"failed", "undelivered"}
           => backoff[run.id].failures > 0

-----------------------------------------------------------------------------
(* The steps that the invariant is about *)

(* What a step does to the file, the object and the fires. *)
Silent ==
    /\ UNCHANGED <<cronState, lastFire, backoff, saving, fires>>
    /\ pc # "boot" => pc' # "boot"
    /\ pc = "boot" => pc' = "boot"

Saving(f, b) ==
    /\ lastFire' = f
    /\ backoff' = b
    /\ cronState' = StateOf(f, b, lastChannel)
    /\ saving' = saving
    /\ pc # "boot" /\ pc' # "boot"

Recorded ==
    {backoff, [backoff EXCEPT ![run.id] = RecordFailure(@)],
              [backoff EXCEPT ![run.id] = RecordSuccess(@)]}

(* A step is silent, loads, saves what it changed or starts a process.    *)
LEMMA QuietSteps ==
    ASSUME TypeOK, SavedState, Talker = {}, [Next]_vars
    PROVE  \/ Silent
           \/ LoadState
           \/ Restart \/ Kill
           \/ \E j \in JobId : FireScheduled(j)
           \/ \E b \in Recorded : Saving(lastFire, b) /\ UNCHANGED fires
<1> USE DEF fileVars, memVars, watchVars, tickVars, envVars, histVars
<1>1. ASSUME CheckJobsChanged PROVE Silent
  BY <1>1 DEF CheckJobsChanged, Silent
<1>2. ASSUME LoadJobs PROVE Silent
  BY <1>2 DEF LoadJobs, Silent
<1>3. ASSUME EndTick PROVE Silent
  BY <1>3 DEF EndTick, Silent
<1>4. ASSUME NEW j \in JobId, SkipJob(j) PROVE Silent
  BY <1>4 DEF SkipJob, Silent
<1>5. ASSUME NEW j \in JobId, FireOneShot(j) PROVE Silent
  BY <1>5 DEF FireOneShot, EnterRun, Runnable, Silent
<1>6. ASSUME HeartbeatSkips PROVE Silent
  BY <1>6 DEF HeartbeatSkips, Silent
<1>7. ASSUME HeartbeatAnswersNothing PROVE Silent
  BY <1>7 DEF HeartbeatAnswersNothing, Silent
<1>8. ASSUME NothingToDeliver PROVE Silent
  BY <1>8 DEF NothingToDeliver, DeliveryOver, Silent
<1>9. ASSUME CannotRoute PROVE Silent
  BY <1>9 DEF CannotRoute, DeliveryOver, Silent
<1>10. ASSUME SendRaises PROVE Silent
  BY <1>10 DEF SendRaises, DeliveryOver, Silent
<1>11. ASSUME SendReturns PROVE Silent
  BY <1>11 DEF SendReturns, Silent
<1>12. ASSUME DropOneShot PROVE Silent
  BY <1>12 DEF DropOneShot, Silent
<1>13. ASSUME ForgetOneShot PROVE Silent
  BY <1>13 DEF ForgetOneShot, Silent
<1>14. ASSUME LogRun PROVE Silent
  BY <1>14 DEF LogRun, Silent
<1>15. ASSUME StopLoop PROVE Silent
  BY <1>15 DEF StopLoop, Silent
<1>16. ASSUME Stop PROVE Silent
  BY <1>16 DEF Stop, Silent
<1>17. ASSUME Clock PROVE Silent
  BY <1>17 DEF Clock, Silent
<1>18. ASSUME NEW j \in JobId, NEW d \in JobDef \cup {NoJob}, UserEdit(j, d)
      PROVE  Silent
  BY <1>18 DEF UserEdit, Silent
<1>19. ASSUME UNCHANGED vars PROVE Silent
  BY <1>19 DEF vars, Silent
<1>20. ASSUME RunFails PROVE \E b \in Recorded : Saving(lastFire, b) /\ UNCHANGED fires
  BY <1>20 DEF RunFails, Recorded, Saving
<1>21. ASSUME NEW text \in {"text", "noreply"}, RunAnswers(text)
       PROVE  \E b \in Recorded : Saving(lastFire, b) /\ UNCHANGED fires
  BY <1>21 DEF RunAnswers, Recorded, Saving
<1>22. ASSUME RecordDelivery
       PROVE  \E b \in Recorded : Saving(lastFire, b) /\ UNCHANGED fires
  BY <1>22 DEF RecordDelivery, Recorded, Saving
<1>23. ASSUME KeepJob
       PROVE  Silent \/ \E b \in Recorded : Saving(lastFire, b) /\ UNCHANGED fires
  BY <1>23 DEF KeepJob, Recorded, Saving, Silent
<1>24. ~FinishSave
  BY DEF FinishSave, SavedState
<1>25. ~(\E c \in Talker : NoteActivity(c))
  OBVIOUS
<1>26. QED
  BY <1>1, <1>2, <1>3, <1>4, <1>5, <1>6, <1>7, <1>8, <1>9, <1>10, <1>11, <1>12,
     <1>13, <1>14, <1>15, <1>16, <1>17, <1>18, <1>19, <1>20, <1>21, <1>22, <1>23,
     <1>24, <1>25
  DEF Next, SchedulerThread, Tick, RunJob, Process

(* The object that load_state builds is the one that was saved.           *)
LEMMA LoadStateRestores ==
    ASSUME TypeOK, SavedState, LoadState
    PROVE  lastFire' = cronState.lastFire /\ backoff' = cronState.backoff
<1>1. cronState.lastFire \in [JobId -> Nat \cup {NoTime}]
      /\ cronState.backoff \in [JobId -> BackoffType]
  BY DEF TypeOK, FileTypes, StateType
<1>2. \A j \in JobId : lastFire'[j] = cronState.lastFire[j]
  BY <1>1 DEF LoadState, SavedState
<1>3. \A j \in JobId : backoff'[j] = cronState.backoff[j]
  BY <1>1 DEF LoadState, SavedState, BackoffType
<1>4. QED BY <1>1, <1>2, <1>3 DEF LoadState

LEMMA SavedStateStep ==
    ASSUME TypeOK, SavedState, Talker = {}, [Next]_vars
    PROVE  SavedState'
<1>1. ASSUME Silent PROVE SavedState'
  BY <1>1 DEF SavedState, Silent
<1>2. ASSUME LoadState PROVE SavedState'
  BY <1>2, LoadStateRestores DEF SavedState, LoadState, fileVars
<1>3. ASSUME Restart \/ Kill PROVE SavedState'
  BY <1>3 DEF SavedState, Restart, Kill, FreshProcess, fileVars
<1>4. ASSUME NEW j \in JobId, FireScheduled(j) PROVE SavedState'
  BY <1>4 DEF SavedState, FireScheduled, EnterRun, Runnable, StateOf
<1>5. ASSUME NEW b \in Recorded, Saving(lastFire, b) PROVE SavedState'
  <2>1. backoff \in [JobId -> BackoffType] /\ now \in Nat
    BY DEF TypeOK, MemoryTypes, BoundTypes
  <2>2. \A j \in JobId : b[j] \in {backoff[j], RecordFailure(backoff[j]), NoBackoff}
    BY <2>1 DEF Recorded, RecordSuccess
  <2>3. \A j \in JobId : RecordFailure(backoff[j]).failures # 0
    BY <2>1 DEF RecordFailure, BackoffType
  <2>4. \A j \in JobId : b[j].failures = 0 => b[j] = NoBackoff
    BY <1>5, <2>2, <2>3 DEF SavedState, Saving
  <2>5. QED BY <1>5, <2>4 DEF SavedState, Saving, StateOf
<1>6. QED BY <1>1, <1>2, <1>3, <1>4, <1>5, QuietSteps

-----------------------------------------------------------------------------
(* Fires *)

LEMMA FiresStep ==
    ASSUME TypeOK, SavedState, FiresSaved, FiresInOrder, Talker = {}, [Next]_vars
    PROVE  FiresSaved' /\ FiresInOrder'
<1>1. CASE UNCHANGED fires /\ cronState'.lastFire = cronState.lastFire
  BY <1>1 DEF FiresSaved, FiresInOrder
<1>2. ASSUME Silent \/ LoadState \/ Restart \/ Kill
      PROVE  UNCHANGED fires /\ cronState'.lastFire = cronState.lastFire
  BY <1>2 DEF Silent, LoadState, Restart, Kill, FreshProcess, fileVars, histVars
<1>3. ASSUME NEW b \in Recorded, Saving(lastFire, b), UNCHANGED fires
      PROVE  cronState'.lastFire = cronState.lastFire
  BY <1>3 DEF Saving, StateOf, SavedState
<1>4. ASSUME NEW j \in JobId, FireScheduled(j) PROVE FiresSaved' /\ FiresInOrder'
  <2> DEFINE due == DueFireTime(todo[j], lastFire[j])
  <2>1. due \in Nat /\ due > lastFire[j] BY <1>4, FireScheduledDue
  <2>2. fires \in [JobId -> Seq(Nat)] /\ lastFire \in [JobId -> Nat \cup {NoTime}]
    BY DEF TypeOK, HistoryTypes, MemoryTypes
  <2>3. cronState.lastFire = lastFire /\ cronState'.lastFire = [lastFire EXCEPT ![j] = due]
    BY <1>4 DEF FireScheduled, StateOf, SavedState, Runnable
  <2>4. fires' = [fires EXCEPT ![j] = Append(@, due)] BY <1>4 DEF FireScheduled
  <2> HIDE DEF due
  <2>5. \A k \in JobId \ {j} : fires'[k] = fires[k] /\ cronState'.lastFire[k] = lastFire[k]
    BY <2>2, <2>3, <2>4
  <2>6. fires'[j] = Append(fires[j], due) /\ cronState'.lastFire[j] = due
    BY <2>2, <2>3, <2>4
  <2>7. \A i \in DOMAIN fires[j] : fires[j][i] \in Nat /\ fires[j][i] < due
    BY <2>1, <2>2, <2>3 DEF FiresSaved, NoTime
  <2>8. \A i \in DOMAIN fires'[j] :
           \/ i \in DOMAIN fires[j] /\ fires'[j][i] = fires[j][i]
           \/ i = Len(fires[j]) + 1 /\ fires'[j][i] = due
    BY <2>1, <2>2, <2>6
  <2>9. FiresSaved'
    BY <2>1, <2>3, <2>5, <2>6, <2>7, <2>8 DEF FiresSaved
  <2>10. FiresInOrder'
    <3> SUFFICES ASSUME NEW k \in JobId, NEW i \in DOMAIN fires'[k],
                        NEW m \in DOMAIN fires'[k], i < m
                 PROVE  fires'[k][i] < fires'[k][m]
      BY DEF FiresInOrder
    <3>1. CASE k # j BY <2>5, <3>1 DEF FiresInOrder
    <3>2. CASE k = j
      <4>1. DOMAIN fires[j] = 1 .. Len(fires[j]) /\ Len(fires[j]) \in Nat BY <2>2
      <4>2. i \in DOMAIN fires[j] /\ fires'[j][i] = fires[j][i]
        BY <2>8, <3>2, <4>1
      <4>3. QED BY <2>7, <2>8, <3>2, <4>1, <4>2 DEF FiresInOrder
    <3>3. QED BY <3>1, <3>2
  <2>11. QED BY <2>9, <2>10
<1>5. QED BY <1>1, <1>2, <1>3, <1>4, QuietSteps

(* No scheduled fire is handed to run_job twice or out of order, across   *)
(* any kills and restarts, as long as no channel thread saves the state.  *)
THEOREM QuietFiresInOrder ==
    ASSUME Talker = {} PROVE Spec => []FiresInOrder
<1> DEFINE Inv == TypeOK /\ SavedState /\ FiresSaved /\ FiresInOrder
<1>1. Init => Inv
  BY TypeInit DEF Init, SavedState, FiresSaved, FiresInOrder, StateOf
<1>2. Inv /\ [Next]_vars => Inv'
  BY TypeStep, SavedStateStep, FiresStep
<1>3. QED BY <1>1, <1>2, PTL DEF Spec

-----------------------------------------------------------------------------
(* Backoff *)

(* A job that is handed to run_job has no deadline to come in the log.    *)
LEMMA RunnableHasNoDeadline ==
    ASSUME TypeOK, SavedState, BackoffSaved, NEW j \in JobId, Runnable(j)
    PROVE  ~(now < lastRow[j].retryAt)
<1>1. SUFFICES ASSUME now < lastRow[j].retryAt PROVE FALSE OBVIOUS
<1>2. backoff[j].failures > 0 /\ backoff[j].retryAt >= lastRow[j].retryAt
  BY <1>1 DEF BackoffSaved, SavedState, Runnable
<1>3. now \in Nat /\ backoff[j].retryAt \in Nat /\ lastRow[j].retryAt \in Nat
  BY DEF TypeOK, BoundTypes, MemoryTypes, FileTypes, BackoffType, RowType
<1>4. now < backoff[j].retryAt BY <1>1, <1>2, <1>3
<1>5. QED BY <1>2, <1>4 DEF Runnable, IsBackedOff

(* A step that leaves rows, deadlines and the run in progress alone.      *)
LEMMA DeadlinesKept ==
    ASSUME TypeOK, BackoffSaved, lastRow' = lastRow, cronState'.backoff = cronState.backoff,
           now' \in Nat, now <= now',
           pc' \in RunningPc => pc \in RunningPc /\ run'.id = run.id
    PROVE  BackoffSaved'
<1>1. now \in Nat /\ \A j \in JobId : lastRow[j].retryAt \in Nat
  BY DEF TypeOK, BoundTypes, FileTypes, RowType
<1>2. QED BY <1>1 DEF BackoffSaved

(* A run that starts is of a job without deadline. *)
LEMMA DeadlinesOfEnteredRun ==
    ASSUME TypeOK, SavedState, BackoffSaved, NEW j \in JobId, Runnable(j), EnterRun(j),
           lastRow' = lastRow, cronState'.backoff = cronState.backoff, now' = now
    PROVE  BackoffSaved'
<1>1. run'.id = j BY DEF EnterRun, NoRun
<1>2. QED BY <1>1, RunnableHasNoDeadline DEF BackoffSaved

(* What the run in progress records is its own job's and of nobody else.  *)
LEMMA DeadlinesOfRecordedRun ==
    ASSUME TypeOK, SavedState, BackoffSaved, pc \in RunningPc, lastRow' = lastRow,
           now' = now, run'.id = run.id, NEW b \in Recorded, Saving(lastFire, b)
    PROVE  BackoffSaved'
<1>1. pc # "boot" BY DEF Saving
<1>2. backoff \in [JobId -> BackoffType] /\ cronState.backoff = backoff
  BY <1>1 DEF TypeOK, MemoryTypes, SavedState
<1>3. \A j \in JobId \ {run.id} : b[j] = backoff[j]
  BY <1>2 DEF Recorded
<1>4. cronState'.backoff = b BY DEF Saving, StateOf
<1>5. QED BY <1>2, <1>3, <1>4 DEF BackoffSaved

LEMMA RunOutcomeStep ==
    ASSUME TypeOK, RunOutcome, Talker = {}, [Next]_vars
    PROVE  RunOutcome'
<1> USE DEF fileVars, memVars, watchVars, tickVars, envVars, histVars
<1>1. ASSUME pc' \notin RunningPc PROVE RunOutcome'
  BY <1>1 DEF RunOutcome, RunningPc
<1>2. ASSUME UNCHANGED <<pc, run, backoff>> PROVE RunOutcome'
  BY <1>2 DEF RunOutcome
<1>3. ASSUME pc' = "run", run'.error = "none" PROVE RunOutcome'
  BY <1>3 DEF RunOutcome
<1>4. ASSUME RunFails \/ KeepJob PROVE RunOutcome'
  <2>1. run \in RunType /\ backoff \in [JobId -> BackoffType]
    BY <1>4 DEF TypeOK, ThreadTypes, RunTypes, RunningPc, MemoryTypes, RunFails, KeepJob
  <2>2. run.id \in JobId /\ RecordFailure(backoff[run.id]).failures > 0
    BY <2>1 DEF RecordFailure, BackoffType, RunType
  <2>3. CASE RunFails
    BY <2>1, <2>2, <2>3 DEF RunFails, RunOutcome, RunType
  <2>4. CASE KeepJob /\ run.error = "undelivered"
    BY <2>1, <2>2, <2>4 DEF KeepJob, RunOutcome
  <2>5. CASE KeepJob /\ run.error # "undelivered"
    BY <2>5 DEF KeepJob, RunOutcome
  <2>6. QED BY <1>4, <2>3, <2>4, <2>5
<1>5. ASSUME HeartbeatAnswersNothing PROVE RunOutcome'
  BY <1>5 DEF HeartbeatAnswersNothing, RunOutcome
<1>6. ASSUME NEW text \in {"text", "noreply"}, RunAnswers(text) PROVE RunOutcome'
  <2>1. run \in RunType
    BY <1>6 DEF TypeOK, ThreadTypes, RunTypes, RunningPc, RunAnswers
  <2>2. QED BY <1>6, <2>1 DEF RunAnswers, RunOutcome, RunType
<1>7. ASSUME NothingToDeliver \/ CannotRoute \/ SendRaises PROVE RunOutcome'
  <2>1. run \in RunType
    BY <1>7 DEF TypeOK, ThreadTypes, RunTypes, RunningPc, NothingToDeliver, CannotRoute,
                SendRaises
  <2>2. PICK e \in {"none", "unroutable", "undelivered"} : DeliveryOver(e)
    BY <1>7 DEF NothingToDeliver, CannotRoute, SendRaises
  <2>3. pc' = "finish" /\ run'.error = e BY <2>1, <2>2 DEF DeliveryOver, RunType
  <2>4. QED BY <2>3 DEF RunOutcome
<1>8. ASSUME SendReturns \/ RecordDelivery PROVE RunOutcome'
  BY <1>8 DEF SendReturns, RecordDelivery, RunOutcome
<1>9. ASSUME DropOneShot \/ ForgetOneShot PROVE RunOutcome'
  BY <1>9 DEF DropOneShot, ForgetOneShot, DropsJob, RunOutcome
<1>10. ASSUME NEW j \in JobId, FireOneShot(j) \/ FireScheduled(j) PROVE RunOutcome'
  BY <1>3, <1>10 DEF FireOneShot, FireScheduled, EnterRun, NoRun
<1>11. ASSUME LoadState \/ CheckJobsChanged \/ LoadJobs \/ EndTick \/ StopLoop \/ Kill
              \/ Restart \/ HeartbeatSkips \/ LogRun
       PROVE  pc' \notin RunningPc
  BY <1>11 DEF LoadState, CheckJobsChanged, LoadJobs, EndTick, StopLoop, Kill, Restart,
               FreshProcess, HeartbeatSkips, LogRun, RunningPc
<1>12. ASSUME NEW j \in JobId, SkipJob(j) PROVE pc' \notin RunningPc
  BY <1>12 DEF SkipJob, RunningPc
<1>13. ASSUME Stop \/ Clock \/ FinishSave \/ UNCHANGED vars
       PROVE  UNCHANGED <<pc, run, backoff>>
  BY <1>13 DEF Stop, Clock, FinishSave, vars
<1>14. ASSUME NEW j \in JobId, NEW d \in JobDef \cup {NoJob}, UserEdit(j, d)
       PROVE  UNCHANGED <<pc, run, backoff>>
  BY <1>14 DEF UserEdit
<1>15. QED
  BY <1>1, <1>2, <1>4, <1>5, <1>6, <1>7, <1>8, <1>9, <1>10, <1>11, <1>12, <1>13, <1>14
  DEF Next, SchedulerThread, Tick, RunJob, Process

LEMMA BackoffSavedStep ==
    ASSUME TypeOK, TypeOK', SavedState, RunOutcome, BackoffSaved, Talker = {}, [Next]_vars
    PROVE  BackoffSaved'
<1> USE DEF fileVars, memVars, watchVars, tickVars, envVars, histVars
<1> DEFINE Kept == /\ lastRow' = lastRow
                   /\ cronState'.backoff = cronState.backoff
                   /\ now <= now'
                   /\ pc' \in RunningPc => pc \in RunningPc /\ run'.id = run.id
<1>1. now \in Nat /\ now' \in Nat BY DEF TypeOK, BoundTypes
<1>2. ASSUME Kept PROVE BackoffSaved'
  BY <1>1, <1>2, DeadlinesKept
<1>3. ASSUME LoadState \/ CheckJobsChanged \/ LoadJobs \/ EndTick \/ StopLoop \/ Kill
             \/ Restart \/ HeartbeatSkips
      PROVE  Kept
  BY <1>1, <1>3 DEF LoadState, CheckJobsChanged, LoadJobs, EndTick, StopLoop, Kill,
                    Restart, FreshProcess, HeartbeatSkips, RunningPc
<1>4. ASSUME NEW j \in JobId, SkipJob(j) PROVE Kept
  BY <1>1, <1>4 DEF SkipJob, RunningPc
<1>5. ASSUME Stop \/ Clock \/ UNCHANGED vars PROVE Kept
  BY <1>1, <1>5 DEF Stop, Clock, vars
<1>6. ASSUME NEW j \in JobId, NEW d \in JobDef \cup {NoJob}, UserEdit(j, d) PROVE Kept
  BY <1>1, <1>6 DEF UserEdit
<1>7. ASSUME HeartbeatAnswersNothing \/ SendReturns \/ DropOneShot \/ ForgetOneShot
      PROVE  Kept
  BY <1>1, <1>7 DEF HeartbeatAnswersNothing, SendReturns, DropOneShot, ForgetOneShot,
                    RunningPc
<1>8. ASSUME NothingToDeliver \/ CannotRoute \/ SendRaises PROVE Kept
  <2>1. run \in RunType
    BY <1>8 DEF TypeOK, ThreadTypes, RunTypes, RunningPc, NothingToDeliver, CannotRoute,
                SendRaises
  <2>2. QED
    BY <1>1, <1>8, <2>1 DEF NothingToDeliver, CannotRoute, SendRaises, DeliveryOver,
                            RunningPc, RunType
<1>9. ASSUME NEW j \in JobId, FireOneShot(j) \/ FireScheduled(j) PROVE BackoffSaved'
  <2>1. Runnable(j) /\ EnterRun(j) /\ lastRow' = lastRow /\ now' = now
    BY <1>9 DEF FireOneShot, FireScheduled
  <2>2. cronState'.backoff = cronState.backoff
    BY <1>9 DEF FireOneShot, FireScheduled, Runnable, StateOf, SavedState
  <2>3. QED BY <2>1, <2>2, DeadlinesOfEnteredRun
<1>10. ASSUME RunFails \/ KeepJob \/ RecordDelivery
              \/ \E text \in {"text", "noreply"} : RunAnswers(text)
       PROVE  BackoffSaved'
  <2>1. pc \in RunningPc /\ lastRow' = lastRow /\ now' = now
    BY <1>10 DEF RunFails, KeepJob, RecordDelivery, RunAnswers, RunningPc
  <2>2. run \in RunType BY <2>1 DEF TypeOK, ThreadTypes, RunTypes
  <2>3. run'.id = run.id
    BY <1>10, <2>2 DEF RunFails, KeepJob, RecordDelivery, RunAnswers, RunType
  <2>4. \/ \E b \in Recorded : Saving(lastFire, b)
        \/ cronState' = cronState /\ pc' \in RunningPc
    BY <1>10 DEF RunFails, KeepJob, RecordDelivery, RunAnswers, Recorded, Saving, RunningPc
  <2>5. QED BY <1>1, <1>2, <2>1, <2>3, <2>4, DeadlinesOfRecordedRun
<1>11. ASSUME LogRun PROVE BackoffSaved'
  <2>1. run \in RunType /\ run.id \in JobId
    BY <1>11 DEF TypeOK, ThreadTypes, RunTypes, RunningPc, LogRun, RunType
  <2>2. lastRow \in [JobId -> RowType] /\ backoff \in [JobId -> BackoffType]
    BY DEF TypeOK, FileTypes, MemoryTypes
  <2>3. cronState' = cronState /\ now' = now /\ pc' = "scan" /\ cronState.backoff = backoff
    BY <1>11 DEF LogRun, SavedState
  <2>4. \A j \in JobId \ {run.id} : lastRow'[j] = lastRow[j]
    BY <1>11, <2>2 DEF LogRun
  <2>5. lastRow'[run.id].retryAt =
           IF run.error \in {"failed", "undelivered"} THEN backoff[run.id].retryAt ELSE 0
    BY <1>11, <2>1, <2>2 DEF LogRun
  <2>6. now' < lastRow'[run.id].retryAt
           => backoff[run.id].failures > 0 /\ lastRow'[run.id].retryAt = backoff[run.id].retryAt
    BY <1>1, <1>11, <2>3, <2>5 DEF LogRun, RunOutcome
  <2>7. backoff[run.id].retryAt \in Nat BY <2>1, <2>2 DEF BackoffType
  <2>8. QED BY <2>3, <2>4, <2>6, <2>7 DEF BackoffSaved, RunningPc
<1>12. ~FinishSave BY DEF FinishSave, SavedState
<1>13. QED
  BY <1>2, <1>3, <1>4, <1>5, <1>6, <1>7, <1>8, <1>9, <1>10, <1>11, <1>12
  DEF Next, SchedulerThread, Tick, RunJob, Process

(* A step into a run finds no deadline of that job to come. *)
LEMMA RunStartsAfterDeadline ==
    ASSUME TypeOK, SavedState, BackoffSaved, Next, pc = "scan", pc' = "run"
    PROVE  now >= lastRow[run'.id].retryAt
<1> USE DEF fileVars, memVars, watchVars, tickVars, envVars, histVars
<1>1. PICK j \in JobId : Runnable(j) /\ EnterRun(j)
  <2>1. ~(LoadState \/ CheckJobsChanged \/ LoadJobs \/ EndTick \/ StopLoop)
    BY DEF LoadState, CheckJobsChanged, LoadJobs, EndTick, StopLoop
  <2>2. ~(Kill \/ Stop \/ Restart \/ FinishSave \/ Clock)
    BY DEF Kill, Stop, Restart, FreshProcess, FinishSave, Clock
  <2>3. ~RunJob
    BY DEF RunJob, RunFails, HeartbeatSkips, HeartbeatAnswersNothing, RunAnswers,
           NothingToDeliver, CannotRoute, SendRaises, SendReturns, RecordDelivery,
           DropOneShot, ForgetOneShot, KeepJob, LogRun
  <2>4. ~(\E c \in Talker : NoteActivity(c)) /\ ~(\E j \in JobId : SkipJob(j))
        /\ ~(\E j \in JobId, d \in JobDef \cup {NoJob} : UserEdit(j, d))
    BY DEF NoteActivity, SkipJob, UserEdit
  <2>5. \E j \in JobId : FireOneShot(j) \/ FireScheduled(j)
    BY <2>1, <2>2, <2>3, <2>4 DEF Next, SchedulerThread, Process, Tick
  <2>6. QED BY <2>5 DEF FireOneShot, FireScheduled
<1>2. run'.id = j BY <1>1 DEF EnterRun, NoRun
<1>3. now \in Nat /\ lastRow[j].retryAt \in Nat
  BY DEF TypeOK, BoundTypes, FileTypes, RowType
<1>4. QED BY <1>1, <1>2, <1>3, RunnableHasNoDeadline

(* Once a failed run is in the log its job does not run before the        *)
(* deadline, across any kills and restarts, as long as no channel thread  *)
(* saves the state.                                                       *)
THEOREM QuietBackoffHonoured ==
    ASSUME Talker = {} PROVE Spec => BackoffHonoured
<1> DEFINE Inv == TypeOK /\ SavedState /\ RunOutcome /\ BackoffSaved
<1>1. Init => Inv
  BY TypeInit DEF Init, SavedState, RunOutcome, BackoffSaved, StateOf, RunningPc
<1>2. Inv /\ [Next]_vars => Inv'
  BY TypeStep, SavedStateStep, RunOutcomeStep, BackoffSavedStep
<1>3. Inv /\ [Next]_vars
         => [pc = "scan" /\ pc' = "run" => now >= lastRow[run'.id].retryAt]_vars
  BY RunStartsAfterDeadline DEF vars
<1>4. QED BY <1>1, <1>2, <1>3, PTL DEF Spec, BackoffHonoured

-----------------------------------------------------------------------------
(* The scheduler implements Reminders, for every set of jobs, channels,    *)
(* talkers and bounds.                                                     *)
(*                                                                         *)
(* The argument: until the user touches it, the entry that a tick runs is  *)
(* the one in the file (Current), so that a send that returned was a send  *)
(* of that entry (SentIsCounted), and what else takes it out of the file   *)
(* has found it unsayable (Outcome).                                       *)

Current ==
    /\ pc \in {"boot", "idle", "load", "exited"} => todo = NothingTodo
    /\ pc \in RunningPc => todo[run.id] = NoJob
    /\ \A j \in JobId \ touched : todo[j] \in {NoJob, jobs[j]}
    /\ pc \in {"run", "deliver", "record", "finish"} /\ run.id \notin touched
           => jobs[run.id] = run.def

HasSent == pc = "record" \/ (pc = "finish" /\ run.error = "none" /\ WantsDelivery)

SentIsCounted == HasSent /\ run.id \notin touched => sends[run.id] > 0

Outcome ==
    /\ pc \in {"run", "deliver", "record"} => run.error = "none"
    /\ pc = "record" => WantsDelivery
    /\ pc = "finish" /\ run.error = "unroutable" => ~Routable

ReminderInv == Current /\ SentIsCounted /\ Outcome

(* Whether a channel can take the answer does not depend on who spoke     *)
(* last.                                                                   *)
LEMMA RoutableStays ==
    ASSUME TypeOK, TypeOK', run'.def = run.def
    PROVE  Routable' <=> Routable
<1>1. lastChannel \in Channel \cup {NoChannel} /\ lastChannel' \in Channel \cup {NoChannel}
  BY DEF TypeOK, MemoryTypes
<1>2. NoChannel \notin Channel BY ChannelAssumption
<1>3. CASE run.def.channel # LastSpoken
  BY <1>3 DEF Routable, Target
<1>4. CASE run.def.channel = LastSpoken /\ Channel = {}
  BY <1>1, <1>2, <1>4 DEF Routable, Target
<1>5. CASE run.def.channel = LastSpoken /\ Channel # {}
  <2>1. (CHOOSE c \in Channel : TRUE) \in Channel BY <1>5
  <2>2. QED BY <1>1, <1>2, <1>5, <2>1 DEF Routable, Target
<1>6. QED BY <1>3, <1>4, <1>5
-----------------------------------------------------------------------------
(* The invariant *)

LEMMA ReminderInit == Init => ReminderInv
BY DEF Init, ReminderInv, Current, SentIsCounted, Outcome, HasSent, RunningPc, NothingTodo

LEMMA ReminderStep == TypeOK /\ TypeOK' /\ ReminderInv /\ [Next]_vars => ReminderInv'
<1> SUFFICES ASSUME TypeOK, TypeOK', ReminderInv, [Next]_vars PROVE ReminderInv'
  OBVIOUS
<1> USE DEF ReminderInv, Current, SentIsCounted, Outcome, HasSent, RunningPc, NothingTodo,
       fileVars, memVars, watchVars, tickVars, envVars, histVars, WantsDelivery
<1>1. CASE LoadState BY <1>1, RoutableStays DEF LoadState
<1>2. CASE CheckJobsChanged BY <1>2, RoutableStays DEF CheckJobsChanged
<1>3. CASE LoadJobs BY <1>3, RoutableStays DEF LoadJobs
<1>4. CASE EndTick BY <1>4, RoutableStays DEF EndTick
<1>5. CASE RunFails BY <1>5, RoutableStays DEF RunFails
<1>6. CASE HeartbeatSkips BY <1>6, RoutableStays DEF HeartbeatSkips
<1>7. CASE HeartbeatAnswersNothing BY <1>7, RoutableStays DEF HeartbeatAnswersNothing
<1>8. CASE NothingToDeliver BY <1>8, RoutableStays DEF NothingToDeliver, DeliveryOver
<1>9. CASE CannotRoute BY <1>9, RoutableStays
  DEF CannotRoute, DeliveryOver, TypeOK, ThreadTypes, RunTypes, RunType
<1>10. CASE SendRaises BY <1>10, RoutableStays DEF SendRaises, DeliveryOver
<1>11. CASE SendReturns BY <1>11, RoutableStays DEF SendReturns, TypeOK, HistoryTypes, ThreadTypes, RunTypes, RunType
<1>12. CASE RecordDelivery BY <1>12, RoutableStays DEF RecordDelivery
<1>13. CASE DropOneShot BY <1>13, RoutableStays DEF DropOneShot
<1>14. CASE ForgetOneShot BY <1>14, RoutableStays DEF ForgetOneShot
<1>15. CASE KeepJob BY <1>15, RoutableStays DEF KeepJob
<1>16. CASE LogRun BY <1>16, RoutableStays DEF LogRun
<1>17. CASE StopLoop BY <1>17, RoutableStays DEF StopLoop
<1>18. CASE Kill BY <1>18, RoutableStays DEF Kill, FreshProcess
<1>19. CASE Stop BY <1>19, RoutableStays DEF Stop
<1>20. CASE Restart BY <1>20, RoutableStays DEF Restart, FreshProcess
<1>21. CASE FinishSave BY <1>21, RoutableStays DEF FinishSave
<1>22. CASE Clock BY <1>22, RoutableStays DEF Clock
<1>23. ASSUME NEW j \in JobId, SkipJob(j) PROVE ReminderInv'
  BY <1>23, RoutableStays DEF SkipJob
<1>24. ASSUME NEW j \in JobId, FireOneShot(j) PROVE ReminderInv'
  BY <1>24, RoutableStays DEF FireOneShot, EnterRun, Runnable, NoRun, TypeOK, ThreadTypes, JobsType
<1>25. ASSUME NEW j \in JobId, FireScheduled(j) PROVE ReminderInv'
  BY <1>25, RoutableStays DEF FireScheduled, EnterRun, Runnable, NoRun, TypeOK, ThreadTypes, JobsType
<1>26. ASSUME NEW text \in {"text", "noreply"}, RunAnswers(text) PROVE ReminderInv'
  BY <1>26, RoutableStays DEF RunAnswers, TypeOK, ThreadTypes, RunTypes, RunType
<1>27. ASSUME NEW c \in Talker, NoteActivity(c) PROVE ReminderInv'
  BY <1>27, RoutableStays DEF NoteActivity
<1>28. ASSUME NEW j \in JobId, NEW d \in JobDef \cup {NoJob}, UserEdit(j, d) PROVE ReminderInv'
  BY <1>28, RoutableStays DEF UserEdit
<1>29. CASE UNCHANGED vars BY <1>29, RoutableStays DEF vars
<1>30. QED
  BY <1>1, <1>2, <1>3, <1>4, <1>5, <1>6, <1>7, <1>8, <1>9, <1>10, <1>11,
     <1>12, <1>13, <1>14, <1>15, <1>16, <1>17, <1>18, <1>19, <1>20,
     <1>21, <1>22, <1>23, <1>24, <1>25, <1>26, <1>27, <1>28, <1>29
  DEF Next, SchedulerThread, Tick, RunJob, Process
-----------------------------------------------------------------------------
(* The steps of Reminders *)

PromiseStep == [Promise!Next]_(Promise!vars)

(* A step that the user is not promised anything about. *)
LEMMA NoPromise ==
    ASSUME UNCHANGED <<touched, exits>>, \A j \in JobId : EntryOf(j)' = EntryOf(j)
    PROVE  PromiseStep
BY DEF PromiseStep, Promise!vars

(* An entry is what it was when the file is and no send comes or goes. *)
LEMMA SameEntries ==
    ASSUME UNCHANGED <<jobs, sends>>, HasSent <=> HasSent',
           HasSent => run'.id = run.id /\ run'.def = run.def
    PROVE  \A j \in JobId : EntryOf(j)' = EntryOf(j)
BY DEF EntryOf, Said, HasSent

LEMMA PromiseInit == Init => Promise!Init
BY DEF Init, Promise!Init, EntryOf, Said

LEMMA StepKeepsPromise ==
    TypeOK /\ TypeOK' /\ ReminderInv /\ [Next]_vars => PromiseStep
<1> SUFFICES ASSUME TypeOK, TypeOK', ReminderInv, [Next]_vars PROVE PromiseStep
  OBVIOUS
<1> USE DEF fileVars, memVars, watchVars, tickVars, envVars, histVars
<1> DEFINE Unchanged == UNCHANGED <<touched, exits, jobs, sends>> /\ (HasSent <=> HasSent')
                        /\ (HasSent => run'.id = run.id /\ run'.def = run.def)
<1>0. Unchanged => PromiseStep BY NoPromise, SameEntries
<1>1. CASE LoadState
  BY <1>0, <1>1 DEF LoadState, HasSent, WantsDelivery
<1>2. CASE LoadJobs
  BY <1>0, <1>2 DEF LoadJobs, HasSent, WantsDelivery
<1>3. CASE EndTick
  BY <1>0, <1>3 DEF EndTick, HasSent, WantsDelivery
<1>4. CASE RunFails
  BY <1>0, <1>4 DEF RunFails, HasSent, WantsDelivery
<1>5. CASE HeartbeatSkips
  BY <1>0, <1>5 DEF HeartbeatSkips, HasSent, WantsDelivery
<1>6. CASE HeartbeatAnswersNothing
  BY <1>0, <1>6 DEF HeartbeatAnswersNothing, HasSent, WantsDelivery
<1>7. CASE StopLoop
  BY <1>0, <1>7 DEF StopLoop, HasSent, WantsDelivery
<1>8. CASE FinishSave
  BY <1>0, <1>8 DEF FinishSave, HasSent, WantsDelivery
<1>9. CASE Clock
  BY <1>0, <1>9 DEF Clock, HasSent, WantsDelivery
<1>10. CASE LogRun
  BY <1>0, <1>10 DEF LogRun, HasSent, WantsDelivery
<1>11. CASE ForgetOneShot
  BY <1>0, <1>11 DEF ForgetOneShot, HasSent, WantsDelivery
<1>12. CASE NothingToDeliver
  BY <1>0, <1>12 DEF NothingToDeliver, DeliveryOver, HasSent, WantsDelivery,
     TypeOK, ThreadTypes, RunTypes, RunType, RunningPc
<1>13. CASE CannotRoute
  BY <1>0, <1>13 DEF CannotRoute, DeliveryOver, HasSent, WantsDelivery,
     TypeOK, ThreadTypes, RunTypes, RunType, RunningPc
<1>14. CASE SendRaises
  BY <1>0, <1>14 DEF SendRaises, DeliveryOver, HasSent, WantsDelivery,
     TypeOK, ThreadTypes, RunTypes, RunType, RunningPc
<1>15. CASE RecordDelivery
  BY <1>0, <1>15 DEF RecordDelivery, ReminderInv, Outcome, HasSent, WantsDelivery
<1>16. CASE KeepJob
  <2>1. \A j \in JobId : EntryOf(j)' = EntryOf(j)
    BY <1>16 DEF KeepJob, DropsJob, EntryOf, Said
  <2>2. QED BY <1>16, <2>1, NoPromise DEF KeepJob
<1>17. ASSUME NEW j \in JobId, SkipJob(j) PROVE PromiseStep
  BY <1>0, <1>17 DEF SkipJob, HasSent, WantsDelivery
<1>18. ASSUME NEW j \in JobId, FireOneShot(j) PROVE PromiseStep
  BY <1>0, <1>18 DEF FireOneShot, EnterRun, Runnable, HasSent, WantsDelivery
<1>19. ASSUME NEW j \in JobId, FireScheduled(j) PROVE PromiseStep
  BY <1>0, <1>19 DEF FireScheduled, EnterRun, Runnable, HasSent, WantsDelivery
<1>20. ASSUME NEW text \in {"text", "noreply"}, RunAnswers(text) PROVE PromiseStep
  BY <1>0, <1>20 DEF RunAnswers, HasSent, WantsDelivery
<1>21. ASSUME NEW c \in Talker, NoteActivity(c) PROVE PromiseStep
  BY <1>0, <1>21 DEF NoteActivity, HasSent, WantsDelivery
<1>22. CASE UNCHANGED vars
  BY <1>0, <1>22 DEF vars, HasSent, WantsDelivery
<1>23. CASE CheckJobsChanged
  <2>1. \A j \in JobId : EntryOf(j)' = EntryOf(j)
    BY <1>23 DEF CheckJobsChanged, EntryOf, Said
  <2>2. touched' = touched \/ touched' = {} BY <1>23 DEF CheckJobsChanged
  <2>3. CASE touched' = touched BY <1>23, <2>1, <2>3, NoPromise DEF CheckJobsChanged
  <2>4. CASE touched' = {}
    <3>1. Promise!Look BY <1>23, <2>1, <2>4 DEF CheckJobsChanged, Promise!Look
    <3>2. QED BY <3>1 DEF PromiseStep, Promise!Next
  <2>5. QED BY <2>2, <2>3, <2>4
<1>24. CASE SendReturns
  <2>1. run.id \in JobId /\ run.def \in JobDef /\ run.def # NoJob
    BY <1>24, JobDefAssumption DEF SendReturns, TypeOK, ThreadTypes, RunTypes, RunType, RunningPc
  <2>2. \A j \in JobId : j # run.id => EntryOf(j)' = EntryOf(j)
    BY <1>24 DEF SendReturns, EntryOf, Said
  <2>3. CASE jobs[run.id] = run.def /\ IsOneShot(run.def)
    <3>1. EntryOf(run.id) = "pending"
      BY <1>24, <2>1, <2>3 DEF SendReturns, EntryOf, Said
    <3>2. EntryOf(run.id)' = "said"
      BY <1>24, <2>1, <2>3 DEF SendReturns, EntryOf, Said, IsOneShot, TypeOK, HistoryTypes
    <3>3. Promise!Say(run.id)
      BY <1>24, <2>1, <2>2, <3>1, <3>2 DEF SendReturns, Promise!Say, Promise!Becomes
    <3>4. QED BY <2>1, <3>3 DEF PromiseStep, Promise!Next
  <2>4. CASE ~(jobs[run.id] = run.def /\ IsOneShot(run.def))
    <3>1. EntryOf(run.id)' = EntryOf(run.id)
      BY <1>24, <2>1, <2>4 DEF SendReturns, EntryOf, Said, IsOneShot
    <3>2. QED BY <1>24, <2>2, <3>1, NoPromise DEF SendReturns
  <2>5. QED BY <2>3, <2>4
<1>25. CASE DropOneShot
  <2>1. run.id \in JobId /\ run.def \in JobDef /\ run.def # NoJob
    BY <1>25, JobDefAssumption DEF DropOneShot, TypeOK, ThreadTypes, RunTypes, RunType, RunningPc
  <2>2. \A j \in JobId : j # run.id => EntryOf(j)' = EntryOf(j)
    BY <1>25 DEF DropOneShot, EntryOf, Said, TypeOK, FileTypes, JobsType
  <2>3. EntryOf(run.id)' = "none"
    BY <1>25, <2>1 DEF DropOneShot, EntryOf, TypeOK, FileTypes, JobsType
  <2>4. CASE EntryOf(run.id) = "none"
    BY <1>25, <2>2, <2>3, <2>4, NoPromise DEF DropOneShot
  <2>5. CASE EntryOf(run.id) = "said"
    <3>1. Promise!Settle(run.id)
      BY <1>25, <2>1, <2>2, <2>3, <2>5 DEF DropOneShot, Promise!Settle, Promise!Becomes
    <3>2. QED BY <2>1, <3>1 DEF PromiseStep, Promise!Next
  <2>6. CASE EntryOf(run.id) = "pending"
    <3>1. run.id \in touched \/ Unsayable(run.id)
      BY <1>25, <2>1, <2>6 DEF DropOneShot, DropsJob, EntryOf, Said, Unsayable, ReminderInv,
         Current, SentIsCounted, Outcome, HasSent
    <3>2. Promise!GiveUp(run.id)
      BY <1>25, <2>1, <2>2, <2>3, <2>6, <3>1
      DEF DropOneShot, Promise!GiveUp, Promise!Becomes
    <3>3. QED BY <2>1, <3>2 DEF PromiseStep, Promise!Next
  <2>7. QED BY <2>4, <2>5, <2>6 DEF EntryOf
<1>26. ASSUME NEW j \in JobId, NEW d \in JobDef \cup {NoJob}, UserEdit(j, d)
       PROVE  PromiseStep
  <2>1. \A i \in JobId : i # j => EntryOf(i)' = EntryOf(i)
    BY <1>26 DEF UserEdit, EntryOf, Said, WantsDelivery, TypeOK, FileTypes, JobsType, HistoryTypes
  <2>2. EntryOf(j)' \in {"none", "pending"}
    BY <1>26 DEF UserEdit, EntryOf, Said, TypeOK, HistoryTypes
  <2>3. Promise!Write(j)
    BY <1>26, <2>1, <2>2 DEF UserEdit, Promise!Write, Promise!Becomes
  <2>4. QED BY <2>3 DEF PromiseStep, Promise!Next
<1>27. CASE Stop
  <2>1. \A j \in JobId : EntryOf(j)' = EntryOf(j)
    BY <1>27 DEF Stop, EntryOf, Said, WantsDelivery
  <2>2. Promise!End BY <1>27, <2>1 DEF Stop, Promise!End
  <2>3. QED BY <2>2 DEF PromiseStep, Promise!Next
<1>28. CASE Kill
  <2>1. \A j \in JobId : EntryOf(j)' = IF EntryOf(j) = "said" THEN "pending" ELSE EntryOf(j)
    BY <1>28 DEF Kill, FreshProcess, EntryOf, Said
  <2>2. Promise!End BY <1>28, <2>1 DEF Kill, FreshProcess, Promise!End
  <2>3. QED BY <2>2 DEF PromiseStep, Promise!Next
<1>29. CASE Restart
  <2>1. \A j \in JobId : EntryOf(j)' = EntryOf(j)
    BY <1>29 DEF Restart, FreshProcess, EntryOf, Said
  <2>2. QED BY <1>29, <2>1, NoPromise DEF Restart, FreshProcess
<1>30. QED
  BY <1>1, <1>2, <1>3, <1>4, <1>5, <1>6, <1>7, <1>8, <1>9, <1>10, <1>11, <1>12,
     <1>13, <1>14, <1>15, <1>16, <1>17, <1>18, <1>19, <1>20, <1>21, <1>22, <1>23,
     <1>24, <1>25, <1>26, <1>27, <1>28, <1>29
  DEF Next, SchedulerThread, Tick, RunJob, Process

(* The scheduler implements the promise: every behaviour of the detailed   *)
(* specification is, seen through EntryOf, one of Reminders.               *)
THEOREM SchedulerKeepsPromise == Spec => RemindersKept
<1>1. TypeOK /\ ReminderInv /\ [Next]_vars => TypeOK' /\ ReminderInv'
  BY TypeStep, ReminderStep
<1>2. Spec => [](TypeOK /\ ReminderInv)
  BY <1>1, TypeInit, ReminderInit, PTL DEF Spec
<1>3. TypeOK /\ ReminderInv /\ [Next]_vars => [Promise!Next]_(Promise!vars)
  BY TypeStep, StepKeepsPromise DEF PromiseStep
<1>4. QED BY <1>2, <1>3, PromiseInit, PTL DEF Spec, RemindersKept, Promise!Spec


-----------------------------------------------------------------------------
(* What "Cron jobs modified" may name, for every set of jobs, channels,    *)
(* talkers and bounds.                                                     *)
(*                                                                         *)
(* The argument: once the scheduler has looked at jobs.json, its snapshot  *)
(* holds every entry the user has left alone, except between the deletion  *)
(* of a one-shot and the rest of _drop_one_shot, and that interval lies    *)
(* between two looks (WatchInv).                                           *)

Looked == jobsHash # <<>>

WatchInv ==
    /\ pc \in RunningPc \cup {"load", "scan"} => Looked
    /\ pc = "rehash" /\ run.id \notin touched => jobs[run.id] = NoJob
    /\ Looked => \A j \in JobId \ touched :
                    (pc = "rehash" /\ run.id = j) \/ snapshot[j] = jobs[j]

(* Nothing is known before the first look. *)
LEMMA WatchInit == Init => WatchInv
BY DEF Init, WatchInv, RunningPc, Looked

(* The steps of the thread that look at the file, or write it, keep the    *)
(* snapshot beside it.                                                     *)
LEMMA WatchStep == TypeOK /\ WatchInv /\ [Next]_vars => WatchInv'
<1> SUFFICES ASSUME TypeOK, WatchInv, [Next]_vars PROVE WatchInv'
  OBVIOUS
<1> USE DEF WatchInv, RunningPc, Looked,
       fileVars, memVars, watchVars, tickVars, envVars, histVars
<1>1. CASE LoadState BY <1>1 DEF LoadState
<1>2. CASE CheckJobsChanged
  <2>1. CASE jobsHash = <<jobs>> BY <1>2, <2>1 DEF CheckJobsChanged
  <2>2. CASE jobsHash # <<jobs>> BY <1>2, <2>2 DEF CheckJobsChanged
  <2>3. QED BY <2>1, <2>2
<1>3. CASE LoadJobs BY <1>3 DEF LoadJobs
<1>4. CASE EndTick BY <1>4 DEF EndTick
<1>5. CASE RunFails BY <1>5 DEF RunFails
<1>6. CASE HeartbeatSkips BY <1>6 DEF HeartbeatSkips
<1>7. CASE HeartbeatAnswersNothing BY <1>7 DEF HeartbeatAnswersNothing
<1>8. CASE NothingToDeliver BY <1>8 DEF NothingToDeliver, DeliveryOver
<1>9. CASE CannotRoute BY <1>9 DEF CannotRoute, DeliveryOver
<1>10. CASE SendRaises BY <1>10 DEF SendRaises, DeliveryOver
<1>11. CASE SendReturns BY <1>11 DEF SendReturns
<1>12. CASE RecordDelivery BY <1>12 DEF RecordDelivery
<1>13. CASE DropOneShot
  <2>1. jobs' = [jobs EXCEPT ![run.id] = NoJob] /\ pc' = "rehash"
    BY <1>13 DEF DropOneShot
  <2>2. UNCHANGED <<watchVars, run, touched>> /\ Looked
    BY <1>13 DEF DropOneShot
  <2>3. jobs \in [JobId -> JobDef \cup {NoJob}] /\ run.id \in JobId
    BY <1>13 DEF DropOneShot, TypeOK, FileTypes, JobsType, ThreadTypes, RunTypes, RunType
  <2>4. jobs'[run.id] = NoJob /\ \A j \in JobId \ {run.id} : jobs'[j] = jobs[j]
    BY <2>1, <2>3
  <2>5. QED BY <2>1, <2>2, <2>4, <1>13 DEF DropOneShot
<1>14. CASE ForgetOneShot
  <2>1. snapshot' = [snapshot EXCEPT ![run.id] = NoJob] /\ pc' = "log" /\ Looked'
    BY <1>14 DEF ForgetOneShot
  <2>2. UNCHANGED <<jobs, run, touched>> /\ Looked /\ pc = "rehash"
    BY <1>14 DEF ForgetOneShot
  <2>3. snapshot \in [JobId -> JobDef \cup {NoJob}]
    BY DEF TypeOK, WatchTypes, JobsType
  <2>4. \A j \in JobId : snapshot'[j] = IF j = run.id THEN NoJob ELSE snapshot[j]
    BY <2>1, <2>3
  <2>5. QED BY <2>1, <2>2, <2>4
<1>15. CASE KeepJob BY <1>15 DEF KeepJob
<1>16. CASE LogRun BY <1>16 DEF LogRun
<1>17. CASE StopLoop BY <1>17 DEF StopLoop
<1>18. CASE Kill BY <1>18 DEF Kill, FreshProcess
<1>19. CASE Stop BY <1>19 DEF Stop
<1>20. CASE Restart BY <1>20 DEF Restart, FreshProcess
<1>21. CASE FinishSave BY <1>21 DEF FinishSave
<1>22. CASE Clock BY <1>22 DEF Clock
<1>23. ASSUME NEW j \in JobId, SkipJob(j) PROVE WatchInv' BY <1>23 DEF SkipJob
<1>24. ASSUME NEW j \in JobId, FireOneShot(j) PROVE WatchInv'
  BY <1>24 DEF FireOneShot, EnterRun, Runnable
<1>25. ASSUME NEW j \in JobId, FireScheduled(j) PROVE WatchInv'
  BY <1>25 DEF FireScheduled, EnterRun, Runnable
<1>26. ASSUME NEW text \in {"text", "noreply"}, RunAnswers(text) PROVE WatchInv'
  BY <1>26 DEF RunAnswers
<1>27. ASSUME NEW c \in Talker, NoteActivity(c) PROVE WatchInv' BY <1>27 DEF NoteActivity
<1>28. ASSUME NEW j \in JobId, NEW d \in JobDef \cup {NoJob}, UserEdit(j, d) PROVE WatchInv'
  <2>1. touched' = touched \cup {j} /\ \A k \in JobId \ {j} : jobs'[k] = jobs[k]
    BY <1>28 DEF UserEdit, TypeOK, FileTypes, JobsType
  <2>2. UNCHANGED <<watchVars, pc, run>> BY <1>28 DEF UserEdit
  <2>3. run.id \in JobId \/ pc # "rehash"
    BY DEF TypeOK, ThreadTypes, RunTypes, RunType
  <2>4. QED BY <2>1, <2>2, <2>3
<1>29. CASE UNCHANGED vars BY <1>29 DEF vars
<1>30. QED
  BY <1>1, <1>2, <1>3, <1>4, <1>5, <1>6, <1>7, <1>8, <1>9, <1>10, <1>11,
     <1>12, <1>13, <1>14, <1>15, <1>16, <1>17, <1>18, <1>19, <1>20,
     <1>21, <1>22, <1>23, <1>24, <1>25, <1>26, <1>27, <1>28, <1>29
  DEF Next, SchedulerThread, Tick, RunJob, Process

(* Only _check_jobs_changed announces, and only after an earlier look: what *)
(* differs from the snapshot then is what the user wrote.                  *)
LEMMA AnnouncesTouched ==
    TypeOK /\ WatchInv /\ [Next]_vars => (announced' # announced => announced' \subseteq touched)
<1> SUFFICES ASSUME TypeOK, WatchInv, [Next]_vars, announced' # announced
             PROVE  announced' \subseteq touched
  OBVIOUS
<1>1. CheckJobsChanged
  BY DEF Next, SchedulerThread, Tick, RunJob, Process, LoadState, LoadJobs, EndTick, RunFails,
     HeartbeatSkips, HeartbeatAnswersNothing, NothingToDeliver, CannotRoute, DeliveryOver,
     SendRaises, SendReturns, RecordDelivery, DropOneShot, ForgetOneShot, KeepJob, LogRun,
     StopLoop, Kill, FreshProcess, Stop, Restart, FinishSave, Clock, SkipJob, FireOneShot,
     FireScheduled, EnterRun, RunAnswers, NoteActivity, UserEdit, vars, histVars
<1>2. pc = "idle" /\ Looked
  BY <1>1 DEF CheckJobsChanged, Looked
<1>3. announced' = {j \in JobId : snapshot[j] # jobs[j]}
  BY <1>1 DEF CheckJobsChanged
<1>4. QED BY <1>2, <1>3 DEF WatchInv

(* The scheduler's own deletions are never announced as the user's edits,  *)
(* whoever speaks, edits, kills or restarts meanwhile.                     *)
THEOREM AnnouncesOnlyEdits == Spec => AnnouncesOnlyUserEdits
<1>1. WatchInv /\ TypeOK /\ [Next]_vars
      => [announced' # announced => announced' \subseteq touched]_vars
  BY AnnouncesTouched
<1>2. QED
  BY <1>1, WatchInit, WatchStep, TypeCorrect, PTL DEF Spec, AnnouncesOnlyUserEdits
=============================================================================
