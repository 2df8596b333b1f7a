--------------------------- MODULE CronReminders ---------------------------
(* CronScheduler as an implementation of Reminders.                       *)
EXTENDS CronScheduler

(* The run in progress has sent the entry that jobs.json has now.         *)
Said(j) ==
    /\ run.id = j
    /\ run.def = jobs[j]
    /\ sends[j] > 0
    /\ \/ pc = "record"
       \/ pc = "finish" /\ run.error = "none" /\ WantsDelivery

EntryOf(j) ==
    IF jobs[j] = NoJob THEN "none"
    ELSE IF ~IsOneShot(jobs[j]) THEN "none"
    ELSE IF Said(j) THEN "said" ELSE "pending"

(* It has an answer that is not to be sent, or that no channel can take. *)
Unsayable(j) == run.id = j /\ (~WantsDelivery \/ ~Routable)

Promise == INSTANCE Reminders WITH
    Id <- JobId,
    entry <- [j \in JobId |-> EntryOf(j)],
    edited <- touched,
    silent <- {j \in JobId : Unsayable(j)},
    ends <- exits

(* The scheduler keeps the promise about one-shots, whatever fails, is     *)
(* killed, stopped or rewritten on the way: one that the user has not      *)
(* touched stays in jobs.json until its send returned (_run_job_locked,    *)
(* _drop_one_shot), and is not sent twice by one process.                  *)
RemindersKept == Promise!Spec
=============================================================================
