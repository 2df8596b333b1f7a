------------------------- MODULE MCCronScheduler -------------------------
(* Small instances of CronScheduler: one scheduled job, one one-shot.     *)
EXTENDS CronReminders, TLC

CONSTANTS daily, once, tg, gone

Scheduled(instants, announces) ==
    [at |-> NoTime, fires |-> instants, stagger |-> 0, heartbeat |-> FALSE,
     announce |-> announces, enabled |-> TRUE, channel |-> LastSpoken]

(* Matched at 0 and 2, the first of them staggered by one. *)
Staggered == [Scheduled({0, 2}, FALSE) EXCEPT !.stagger = 1]

Heartbeat == [Scheduled({0}, TRUE) EXCEPT !.heartbeat = TRUE]

Reminder(time, name) ==
    [at |-> time, fires |-> {}, stagger |-> 0, heartbeat |-> FALSE,
     announce |-> TRUE, enabled |-> TRUE, channel |-> name]

(* Quiet: nobody speaks on a channel. *)
QuietJobs == daily :> Staggered @@ once :> Reminder(1, tg)
QuietDefs == {QuietJobs[daily], QuietJobs[once]}

(* Busy: the user speaks and edits. *)
BusyJobs == daily :> Heartbeat @@ once :> Reminder(0, LastSpoken)
BusyDefs == {BusyJobs[daily], BusyJobs[once], Reminder(0, gone)}

Steps == <<1, 2>>
OneStep == <<1>>
=============================================================================
