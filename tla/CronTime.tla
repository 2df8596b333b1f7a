------------------------------ MODULE CronTime ------------------------------
(***************************************************************************)
(* One entry that is put into jobs.json through cron-manager, and when the *)
(* scheduler's ticks run it, over clocks that are put forward or back.     *)
(* Time is in UTC minutes; a tick comes at most MaxDelay minutes after the *)
(* one before it, or after an outage that outlives the catch-up window.    *)
(* Failures and backoff are CronScheduler's.                               *)
(***************************************************************************)
EXTENDS CronFields

CONSTANTS
    Scene,      \* a clock, the entries tried on it, and the last minute of the model
    CatchUp,    \* CATCHUP_MINUTES
    MaxStagger, \* _MAX_STAGGER_SECONDS, in minutes
    MaxDelay,   \* how late a tick may be
    Horizon,    \* how far next_fire_time looks
    None

ASSUME CronTimeAssumption ==
    /\ \A s \in Scene : /\ s.shift \in Nat /\ s.by \in Int /\ s.last \in Nat
                        /\ s.shift + s.by >= 0
                        /\ \A e \in s.entries : e.time \in Int
    /\ {CatchUp, Horizon} \subseteq Nat
    /\ {MaxStagger, MaxDelay} \subseteq Nat \ {0}
    /\ MaxDelay <= CatchUp
    /\ None \notin Int

VARIABLES
    scene,   \* the clock: from UTC minute scene.shift on it is scene.by ahead
    stagger, \* _stagger_offset of the job's id
    entry,   \* the entry in jobs.json
    now,
    waiting, \* the scheduler waits for its next tick
    last,    \* _last_fire, or when a one-shot ran
    from     \* history: ticks have come in time since then

timeVars == <<scene, stagger, entry, now, waiting, last, from>>

(* astimezone *)
WallAt(s, u) == IF u >= s.shift THEN u + s.by ELSE u
Wall(u) == WallAt(scene, u)

(* fold = 1: this wall-clock time has been before. *)
Again(u) == scene.shift <= u /\ u < scene.shift - scene.by

TimeInit ==
    /\ scene \in Scene
    /\ stagger \in 0 .. MaxStagger
    /\ entry = None
    /\ now = 0
    /\ waiting = TRUE
    /\ last = None
    /\ from = 0

(* What the tick finds in jobs.json. *)
Enabled == entry # None /\ Loads(entry) /\ entry.enabled # "false"
Scheduled == Enabled /\ entry.at # "given" /\ entry.schedule = "given"
OneShot == Enabled /\ entry.at = "given"
fields == ParseCron(entry.expr)

-----------------------------------------------------------------------------
(* The lost wall-clock minutes between one UTC minute and the next. *)
Lost(u) == Wall(u) + 1 .. Wall(u + 1) - 1

SpecificHours == Cardinality(fields["hour"]) < Day

StaggerFor(u) == IF MinuteOf(Wall(u)) = 0 /\ 0 \in fields["minute"] THEN stagger ELSE 0

(* Mutant: the window forgets the stagger. *)
EarliestUnstaggered ==
    LET begin == now - CatchUp
    IN  IF last # None /\ last + 1 > begin THEN last + 1 ELSE begin

Window == CatchUp + MaxStagger

Earliest ==
    LET begin == now - Window
    IN  IF last # None /\ last + 1 > begin THEN last + 1 ELSE begin

(* Mutant: the repeated hour counts like any other. *)
MatchedAlways(u) == MatchesCron(Wall(u), fields) /\ now >= u + StaggerFor(u)

Matched(u) ==
    /\ MatchesCron(Wall(u), fields)
    /\ ~(Again(u) /\ SpecificHours)
    /\ now >= u + StaggerFor(u)

(* The minutes that were skipped are looked at from the first candidate on. *)
SkippedBefore(u) ==
    u > Earliest /\ \E w \in Lost(u - 1) : MatchesCron(w, fields)

Candidates == {u \in Earliest .. now : Matched(u) \/ SkippedBefore(u)}

LatestOf(S) == CHOOSE x \in S : \A y \in S : y <= x

(* due_fire_time: however many minutes are owed, the last of them.         *)
DueFireTime == IF Candidates = {} THEN None ELSE LatestOf(Candidates)

(* A one-shot is compared with the wall clock. *)
OneShotDue == last = None /\ Wall(now) >= entry.time

(* Mutant: a minute that is skipped is not found. *)
FireMinutesReal == {u \in now + 1 .. now + Horizon : MatchesCron(Wall(u), fields)}

(* next_fire_time *)
FireMinutes ==
    {u \in now + 1 .. now + Horizon :
        \/ MatchesCron(Wall(u), fields)
        \/ \E w \in Lost(u - 1) : MatchesCron(w, fields)}

NextFireTime == IF FireMinutes = {} THEN None ELSE LeastOf(FireMinutes)

-----------------------------------------------------------------------------
(* cron-manager writes an entry that it accepts. *)
Submit(e) ==
    /\ entry = None
    /\ Accepts(e)
    /\ entry' = e
    /\ from' = now
    /\ UNCHANGED <<scene, stagger, now, waiting, last>>

Wait(d) ==
    /\ waiting
    /\ now + d <= scene.last
    /\ now' = now + d
    /\ waiting' = FALSE
    /\ UNCHANGED <<scene, stagger, entry, last>>

(* The wait and the jobs before this one. *)
WaitInTime == \E d \in 1 .. MaxDelay : Wait(d) /\ UNCHANGED from

(* The process is down, or a job runs for long. *)
Outage == Wait(Window + 1) /\ from' = now' - Window + 1

Tick ==
    /\ ~waiting
    /\ waiting' = TRUE
    /\ UNCHANGED <<scene, stagger, entry, now, from>>

RunScheduled == Tick /\ Scheduled /\ Candidates # {} /\ last' = DueFireTime

RunOneShot == Tick /\ OneShot /\ OneShotDue /\ last' = now

NothingDue ==
    /\ Tick
    /\ ~(Scheduled /\ Candidates # {})
    /\ ~(OneShot /\ OneShotDue)
    /\ UNCHANGED last

TimeNext ==
    \/ \E e \in scene.entries : Submit(e)
    \/ WaitInTime \/ Outage
    \/ RunScheduled \/ RunOneShot \/ NothingDue

TimeSpec == TimeInit /\ [][TimeNext]_timeVars

-----------------------------------------------------------------------------
(* Correctness *)

(* The UTC minutes at which it is w o'clock, or those after the gap that w *)
(* fell into.                                                              *)
Instants(w) ==
    LET real == {u \in {w, w - scene.by} : Wall(u) = w}
    IN  IF real = {} THEN {scene.shift} ELSE real

(* What the user means by an expression: every w o'clock that matches is   *)
(* one run, or as many as there are when no hours are named.               *)
Runs(w) == IF SpecificHours THEN {LeastOf(Instants(w))} ELSE Instants(w)

Distance == IF scene.by < 0 THEN -scene.by ELSE scene.by

Owed(u) == \E w \in u - Distance .. u + Distance : MatchesCron(w, fields) /\ u \in Runs(w)

(* A job runs for minutes that are owed and for no others, and a one-shot  *)
(* not before its time: neither the repeated hour of the autumn nor the    *)
(* lost hour of the spring makes due_fire_time run a job that names hours  *)
(* a second time.                                                          *)
RunsOnlyOwed ==
    last # None =>
        /\ Scheduled => Owed(last)
        /\ OneShot => LeastOf(Instants(entry.time)) <= last

(* The one minute that ticks in time can miss: the first after a gap, when *)
(* the job ran in the last one before it, so that the walk starts behind   *)
(* the gap.                                                                *)
BehindTheGap(u) == u = scene.shift /\ scene.by > 0 /\ last = u - 1

(* While ticks are no later than CATCHUP_MINUTES, a run that is owed comes *)
(* no later than that after its stagger, unless a later one took its       *)
(* place; after an outage what is still in the window is caught up with.   *)
(* A one-shot may wait for the last minute of that name.                   *)
OwedIsRun ==
    waiting =>
        /\ Scheduled =>
              \A u \in from .. now - MaxDelay :
                 Owed(u) /\ now >= u + StaggerFor(u) + MaxDelay =>
                    (last # None /\ last >= u) \/ BehindTheGap(u)
        /\ OneShot =>
              LET latest == LatestOf(Instants(entry.time))
              IN  from <= latest /\ now >= latest + MaxDelay => last # None

(* What `faff cron list` prints as the next run is the next minute that is *)
(* owed, also across a change of the clock, save that it prints the hour   *)
(* that is repeated again for a job that names hours.                      *)
ListedIsOwed ==
    Scheduled /\ NextFireTime # None /\ ~(SpecificHours /\ Again(NextFireTime)) =>
        /\ Owed(NextFireTime)
        /\ \A u \in now + 1 .. NextFireTime - 1 : ~Owed(u)

(* The ways in which cron-manager is looser than load_jobs.                *)
EmptyRangeWithStep(e) ==
    \E f \in FieldName : \E p \in e.expr[f] :
        p.form = "range" /\ p.lo > p.hi /\ p.step # {}

Looser(e) ==
    \/ e.deliver = "null"
    \/ e.prompt \in {"null", "empty"}
    \/ e.schedule = "given" /\ EmptyRangeWithStep(e)

(* A job that cron-manager reports as added is loaded by the scheduler,    *)
(* other than in the ways listed above.                                    *)
AcceptedIsLoaded == entry # None => Loads(entry) \/ Looser(entry)

=============================================================================
