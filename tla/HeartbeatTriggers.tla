------------------------- MODULE HeartbeatTriggers -------------------------
(***************************************************************************)
(* The heartbeat's trigger tray (skills/heartbeat, and _run_heartbeat of   *)
(* runtime/scheduler.py).  Sensors drop files into triggers.d; a tick runs *)
(* the watchdog script, which adds its own once-a-day checks and writes    *)
(* triggers.json, reads that file back, wakes the agent with what it says, *)
(* and deletes the files it names.  No file is written atomically, and the *)
(* tick of `faff run` is not alone: the agent may run the watchdog as a    *)
(* skill, and `faff cron run` is a whole tick in another process.          *)
(*                                                                         *)
(* A trigger is its file's name and a number that says which of the texts  *)
(* written under that name it is; a check is its key and the day.          *)
(***************************************************************************)
EXTENDS Integers, FiniteSets

CONSTANTS
    Name,     \* file names in triggers.d
    Check,    \* "morning_missed", "learnings_full"
    Ticker,   \* those who run ticks or the watchdog
    Daemon,   \* the scheduler thread of `faff run`
    MaxDrops, MaxDay, MaxRaises, MaxOdd   \* bounds of the model

ASSUME NamesAssumption == Name \cap Check = {} /\ Daemon \in Ticker
ASSUME BoundsAssumption ==
    {MaxDrops, MaxDay, MaxRaises, MaxOdd} \subseteq Nat

VARIABLES
    tray,      \* readable files of triggers.d
    half,      \* files that are truncated and not written yet, and by what
    report,    \* triggers.json; not ok while it is truncated
    reported,  \* reported.json: the day each check was last raised
    tick,      \* where each ticker is, and what it has collected or been handed
    day,
    drops, raises,   \* bounds: files dropped, agent turns that raised,
    odd,       \* failures, ends of a process, and ticks beside the daemon's
    seen       \* history: what an agent turn that returned was shown

fileVars == <<tray, half, report, reported>>
boundVars == <<drops, raises, odd>>
vars == <<fileVars, tick, day, boundVars, seen>>

Item(of, n) == [of |-> of, n |-> n]

Under(S, name) == {i \in S : i.of = name}
Names(S) == {i.of : i \in S}

NoTick == [at |-> "idle", texts |-> {}, files |-> {}]

Init ==
    /\ tray = {} /\ half = {}
    /\ report = [ok |-> TRUE, texts |-> {}, files |-> {}]
    /\ reported = [c \in Check |-> 0]
    /\ tick = [t \in Ticker |-> NoTick]
    /\ day = 1
    /\ drops = 0 /\ raises = 0 /\ odd = 0
    /\ seen = {}

Odd == odd < MaxOdd /\ odd' = odd + 1

-----------------------------------------------------------------------------
(* Sensors: write_text, which opens and truncates, then writes.  A sensor  *)
(* that dies in between leaves an unreadable file.                         *)

DropBegin(name) ==
    /\ drops < MaxDrops
    /\ drops' = drops + 1
    /\ tray' = tray \ Under(tray, name)
    /\ half' = (half \ Under(half, name)) \cup {Item(name, drops')}
    /\ UNCHANGED <<report, reported, tick, day, raises, odd, seen>>

DropEnd(i) ==
    /\ i \in half
    /\ half' = half \ {i}
    /\ tray' = tray \cup {i}
    /\ UNCHANGED <<report, reported, tick, day, boundVars, seen>>

NewDay ==
    /\ day < MaxDay
    /\ day' = day + 1
    /\ UNCHANGED <<fileVars, tick, boundVars, seen>>

-----------------------------------------------------------------------------
(* The watchdog *)

At(t, place) == tick[t].at = place

Goto(t, place) == tick' = [tick EXCEPT ![t].at = place]

ScriptEnds(t) == tick' = [tick EXCEPT ![t] = [NoTick EXCEPT !.at = "load"]]

(* A tick begins with the script: check_morning_stamp and                  *)
(* check_learnings_full find `bad`, _once_a_day lets through what          *)
(* reported.json does not have for today.                                  *)
HealthChecks(t, bad) ==
    /\ At(t, "idle")
    /\ IF t = Daemon THEN UNCHANGED odd ELSE Odd
    /\ LET raised == {c \in bad : reported[c] # day}
       IN  /\ reported' = [c \in Check |-> IF c \in raised THEN day ELSE reported[c]]
           /\ tick' = [tick EXCEPT ![t].at = "collect",
                                   ![t].texts = {Item(c, day) : c \in raised}]
    /\ UNCHANGED <<tray, half, report, day, drops, raises, seen>>

(* Mutant: one unreadable file hides the others. *)
CollectAllOrNothing(t) ==
    /\ At(t, "collect")
    /\ LET found == IF half = {} THEN tray ELSE {}
       IN  tick' = [tick EXCEPT ![t].at = "truncate",
                                ![t].texts = @ \cup found,
                                ![t].files = Names(found)]
    /\ UNCHANGED <<fileVars, day, boundVars, seen>>

(* collect_triggers: an unreadable file is left alone. *)
Collect(t) ==
    /\ At(t, "collect")
    /\ tick' = [tick EXCEPT ![t].at = "truncate",
                            ![t].texts = @ \cup tray,
                            ![t].files = Names(tray)]
    /\ UNCHANGED <<fileVars, day, boundVars, seen>>

TruncateReport(t) ==
    /\ At(t, "truncate")
    /\ Goto(t, "write")
    /\ report' = [ok |-> FALSE, texts |-> {}, files |-> {}]
    /\ UNCHANGED <<tray, half, reported, day, boundVars, seen>>

(* Mutant: a report without files is clean. *)
WriteReportOfFiles(t) ==
    /\ At(t, "write")
    /\ ScriptEnds(t)
    /\ report' = [ok |-> TRUE, files |-> tick[t].files,
                  texts |-> IF tick[t].files = {} THEN {} ELSE tick[t].texts]
    /\ UNCHANGED <<tray, half, reported, day, boundVars, seen>>

WriteReport(t) ==
    /\ At(t, "write")
    /\ ScriptEnds(t)
    /\ report' = [ok |-> TRUE, texts |-> tick[t].texts, files |-> tick[t].files]
    /\ UNCHANGED <<tray, half, reported, day, boundVars, seen>>

(* The script fails or is killed at its timeout: _refresh_triggers warns   *)
(* and the tick goes on with the triggers.json that is there.              *)
WatchdogFails(t) ==
    /\ tick[t].at \in {"collect", "truncate", "write"}
    /\ Odd
    /\ ScriptEnds(t)
    /\ UNCHANGED <<fileVars, day, drops, raises, seen>>

-----------------------------------------------------------------------------
(* The wake *)

EndTick(t) == tick' = [tick EXCEPT ![t] = NoTick]

(* _load_triggers: no report, or a clean one. *)
StayAsleep(t) ==
    /\ At(t, "load")
    /\ ~report.ok \/ report.texts = {}
    /\ EndTick(t)
    /\ UNCHANGED <<fileVars, day, boundVars, seen>>

(* The agent that ran the watchdog as a skill does no more. *)
WatchdogOnly(t) ==
    /\ At(t, "load")
    /\ t # Daemon
    /\ EndTick(t)
    /\ UNCHANGED <<fileVars, day, boundVars, seen>>

Wake(t) ==
    /\ At(t, "load")
    /\ report.ok /\ report.texts # {}
    /\ tick' = [tick EXCEPT ![t] = [at |-> "turn", texts |-> report.texts,
                                    files |-> report.files]]
    /\ UNCHANGED <<fileVars, day, boundVars, seen>>

(* Every provider fails or the turn is refused; the retry is a new tick.   *)
TurnRaises(t) ==
    /\ At(t, "turn")
    /\ raises < MaxRaises
    /\ raises' = raises + 1
    /\ EndTick(t)
    /\ UNCHANGED <<fileVars, day, drops, odd, seen>>

(* Mutant: NO_REPLY leaves the files for later. *)
TurnReturnsConsumingOrNot(t) ==
    /\ At(t, "turn")
    /\ seen' = seen \cup tick[t].texts
    /\ \E files \in {tick[t].files, {}} :
          tick' = [tick EXCEPT ![t] = [at |-> "consume", texts |-> {}, files |-> files]]
    /\ UNCHANGED <<fileVars, day, boundVars>>

(* With a message, NO_REPLY or nothing: the triggers have been seen. *)
TurnReturns(t) ==
    /\ At(t, "turn")
    /\ seen' = seen \cup tick[t].texts
    /\ tick' = [tick EXCEPT ![t].at = "consume", ![t].texts = {}]
    /\ UNCHANGED <<fileVars, day, boundVars>>

(* Mutant: whatever lies in the tray goes. *)
ConsumeTray(t) ==
    /\ At(t, "consume")
    /\ tray' = {} /\ half' = {}
    /\ tick' = [tick EXCEPT ![t].files = {}]
    /\ UNCHANGED <<report, reported, day, boundVars, seen>>

(* _consume_triggers: unlink, one name after the other, whatever the file  *)
(* holds by now.                                                           *)
Consume(t) ==
    /\ At(t, "consume")
    /\ \E name \in tick[t].files :
          /\ tray' = tray \ Under(tray, name)
          /\ half' = half \ Under(half, name)
          /\ tick' = [tick EXCEPT ![t].files = @ \ {name}]
    /\ UNCHANGED <<report, reported, day, boundVars, seen>>

CannotUnlink(t) ==
    /\ At(t, "consume")
    /\ Odd
    /\ \E name \in tick[t].files : tick' = [tick EXCEPT ![t].files = @ \ {name}]
    /\ UNCHANGED <<fileVars, day, drops, raises, seen>>

Consumed(t) ==
    /\ At(t, "consume")
    /\ tick[t].files = {}
    /\ EndTick(t)
    /\ UNCHANGED <<fileVars, day, boundVars, seen>>

(* The ticker's process ends. *)
Crash(t) ==
    /\ ~At(t, "idle")
    /\ Odd
    /\ EndTick(t)
    /\ UNCHANGED <<fileVars, day, drops, raises, seen>>

-----------------------------------------------------------------------------
Watchdog(t) ==
    \/ \E bad \in SUBSET Check : HealthChecks(t, bad)
    \/ Collect(t) \/ TruncateReport(t) \/ WriteReport(t) \/ WatchdogFails(t)

RunHeartbeat(t) ==
    \/ Watchdog(t)
    \/ StayAsleep(t) \/ WatchdogOnly(t) \/ Wake(t)
    \/ TurnRaises(t) \/ TurnReturns(t)
    \/ Consume(t) \/ CannotUnlink(t) \/ Consumed(t)

Next ==
    \/ \E t \in Ticker : RunHeartbeat(t) \/ Crash(t)
    \/ \E name \in Name : DropBegin(name)
    \/ \E i \in half : DropEnd(i)
    \/ NewDay

Spec == Init /\ [][Next]_vars

(* The heartbeat job comes round and its steps end; nobody has to drop or  *)
(* finish a trigger, and other tickers may stop anywhere.                  *)
FairSpec == Spec /\ WF_vars(RunHeartbeat(Daemon))

-----------------------------------------------------------------------------
ItemType == [of : Name \cup Check, n : Nat]

TickType ==
    [at : {"idle", "collect", "truncate", "write", "load", "turn", "consume"},
     texts : SUBSET ItemType, files : SUBSET Name]

(* The shape of every variable; a name is one file, and a wake has a text  *)
(* for every file that it is going to delete.                              *)
TypeOK ==
    /\ tray \subseteq [of : Name, n : Nat] /\ half \subseteq [of : Name, n : Nat]
    /\ \A name \in Name : Cardinality(Under(tray \cup half, name)) <= 1
    /\ report \in [ok : BOOLEAN, texts : SUBSET ItemType, files : SUBSET Name]
    /\ reported \in [Check -> Nat]
    /\ tick \in [Ticker -> TickType]
    /\ \A t \in Ticker : At(t, "turn") => tick[t].files \subseteq Names(tick[t].texts)
    /\ day \in Nat
    /\ {drops, raises, odd} \subseteq Nat
    /\ seen \subseteq ItemType

(* A text leaves the tray when its sensor writes the next one, or after an *)
(* agent turn has been shown it, or an older one of the same file: what a  *)
(* wake was not shown is lost only where it took a shown one's place.      *)
DeletesShownOrReplacing ==
    [][\A i \in tray \ tray' :
          \/ \E j \in half' : j.of = i.of
          \/ \E j \in seen : j.of = i.of /\ j.n <= i.n]_vars

(* "A trigger is consumed by the wake it caused": no text is shown to two  *)
(* turns that return, however many turns raised, unless another ticker was *)
(* about, a watchdog or an unlink failed, or a process ended.              *)
ShownOnce ==
    [][\A t \in Ticker :
          At(t, "turn") /\ tick'[t].at = "consume"
              => tick[t].texts \cap seen = {} \/ odd > 0]_vars

(* A readable trigger is shown to a turn, or its file is rewritten or      *)
(* deleted (by DeletesShownOrReplacing, for another text of that file).    *)
TriggerShown ==
    \A name \in Name, n \in 1 .. MaxDrops :
        Item(name, n) \in tray ~> (Item(name, n) \in seen \/ Item(name, n) \notin tray)

(* A check that was raised, and is not raised again that day, is shown to  *)
(* a turn; a turn that raises, a failure or another watchdog may lose it.  *)
RaisedCheckShown ==
    \A c \in Check, d \in 1 .. MaxDay :
        reported[c] = d ~> (Item(c, d) \in seen \/ raises + odd > 0)
=============================================================================
