---------------------------- MODULE SkillsProofs ----------------------------
(***************************************************************************)
(* Theorems about three skills, each for every value of the constants: the *)
(* heartbeat's trigger tray (HeartbeatTriggers), the search index of the   *)
(* memory and document skills (SearchIndex), and the due times that the    *)
(* cron manager and the scheduler work out (CronTime).                     *)
(*                                                                         *)
(* Heartbeat: a text that anyone holds was once readable in the tray, and  *)
(* the tray only ever gets later ones (Newest); what a wake is going to    *)
(* delete are names of texts it holds, and, once its turn has returned, of *)
(* texts that were shown (Covered).                                        *)
(*                                                                         *)
(* Search: runs overlap in any order, so the invariant speaks of the files *)
(* that nobody has changed since there was last no run at all: for those,  *)
(* every run under way reads the same text, whatever it has recorded,      *)
(* skipped or still holds in its own lists.                                *)
(*                                                                         *)
(* Due times: what is owed and has had its stagger was run, or overtaken   *)
(* (Caught).  The clock changes once, at scene.shift, so this is linear    *)
(* arithmetic: which expressions match stays unopened.                     *)
(***************************************************************************)
EXTENDS HeartbeatTriggers, SearchIndex, CronTime, FiniteSetTheorems, NaturalsInduction,
        WellFoundedInduction, TLAPS

-----------------------------------------------------------------------------
(* The heartbeat                                                           *)

NameItem == [of : Name, n : Nat]

Types ==
    /\ tray \subseteq NameItem /\ half \subseteq NameItem
    /\ report \in [ok : BOOLEAN, texts : SUBSET ItemType, files : SUBSET Name]
    /\ reported \in [Check -> Nat]
    /\ tick \in [Ticker -> TickType]
    /\ day \in Nat
    /\ drops \in Nat /\ raises \in Nat /\ odd \in Nat
    /\ seen \subseteq ItemType

OneFile == \A i, j \in tray \cup half : i.of = j.of => i = j

(* Every text that is in the report, on the way to or from it, or shown. *)
Known == seen \cup report.texts \cup UNION {tick[t].texts : t \in Ticker}

Newest ==
    /\ \A i \in tray \cup half : i.n <= drops
    /\ \A k \in Known : k.of \in Name =>
          /\ k.n <= drops
          /\ \A i \in tray \cup half : i.of = k.of => k.n <= i.n

Covered ==
    /\ report.files \subseteq Names(report.texts)
    /\ \A t \in Ticker :
          /\ tick[t].at \in {"truncate", "write", "turn"}
                => tick[t].files \subseteq Names(tick[t].texts)
          /\ At(t, "consume") => tick[t].files \subseteq Names(seen)

IInv == Types /\ OneFile /\ Newest /\ Covered

-----------------------------------------------------------------------------
LEMMA InitIInv == Init => IInv
  <1> SUFFICES ASSUME Init
               PROVE  IInv
    OBVIOUS
  <1> USE DEF Init
  <1>1. Types
    BY DEF Types, NameItem, ItemType, TickType, NoTick
  <1>2. Known = {}
    BY DEF Known, NoTick
  <1>3. OneFile /\ Newest /\ Covered
    BY <1>2 DEF OneFile, Newest, Covered, At, NoTick
  <1> QED
    BY <1>1, <1>3 DEF IInv

(* The tray loses files or not, and what becomes known was in it: the      *)
(* files left are still the newest.                                        *)
LEMMA NewestKept ==
    ASSUME OneFile, Newest, Types, drops' = drops,
           tray' \cup half' \subseteq tray \cup half,
           \A k \in Known' : k \in Known \/ k \in tray \/ k.of \notin Name
    PROVE  OneFile' /\ Newest'
  <1>1. OneFile'
    BY DEF OneFile
  <1>2. \A i \in tray' \cup half' : i.n <= drops'
    BY DEF Newest
  <1>3. ASSUME NEW k \in Known', k.of \in Name
        PROVE  /\ k.n <= drops'
               /\ \A i \in tray' \cup half' : i.of = k.of => k.n <= i.n
    <2>1. CASE k \in Known
      BY <1>3, <2>1 DEF Newest
    <2>2. CASE k \in tray
      <3>1. k.n \in Nat
        BY <2>2 DEF Types, NameItem
      <3> QED
        BY <2>2, <3>1 DEF Newest, OneFile
    <2> QED
      BY <1>3, <2>1, <2>2
  <1> QED
    BY <1>1, <1>2, <1>3 DEF Newest

-----------------------------------------------------------------------------
(* What a step of a ticker does to the things the invariant is about. *)

TickStep(t, new) ==
    /\ tick' = [tick EXCEPT ![t] = new]
    /\ new \in TickType

LEMMA KnownAfter ==
    ASSUME Types, NEW t \in Ticker, NEW new \in TickType, TickStep(t, new),
           seen' \subseteq seen \cup tick[t].texts,
           report'.texts \subseteq report.texts \cup tick[t].texts,
           \A k \in new.texts : k \in Known \/ k \in tray \/ k.of \notin Name
    PROVE  \A k \in Known' : k \in Known \/ k \in tray \/ k.of \notin Name
  <1>1. \A u \in Ticker : tick'[u] = IF u = t THEN new ELSE tick[u]
    BY DEF TickStep, Types
  <1>2. tick[t].texts \subseteq Known
    BY DEF Known
  <1>3. \A u \in Ticker : \A k \in tick'[u].texts :
            k \in Known \/ k \in tray \/ k.of \notin Name
    BY <1>1 DEF Known
  <1>4. seen' \subseteq Known /\ report'.texts \subseteq Known
    BY <1>2 DEF Known
  <1> QED
    BY <1>3, <1>4 DEF Known

(* A ticker that moves on its own keeps the others covered. *)
LEMMA CoveredAfter ==
    ASSUME Types, Covered, NEW t \in Ticker, NEW new \in TickType,
           TickStep(t, new), seen \subseteq seen',
           report'.files \subseteq Names(report'.texts),
           new.at \in {"truncate", "write", "turn"}
                => new.files \subseteq Names(new.texts),
           new.at = "consume" => new.files \subseteq Names(seen')
    PROVE  Covered'
  <1>1. \A u \in Ticker : tick'[u] = IF u = t THEN new ELSE tick[u]
    BY DEF TickStep, Types
  <1>2. Names(seen) \subseteq Names(seen')
    BY DEF Names
  <1> QED
    BY <1>1, <1>2 DEF Covered, At

LEMMA TickerKeeps ==
    ASSUME IInv, NEW t \in Ticker, NEW new \in TickType, TickStep(t, new),
           UNCHANGED drops, day' \in Nat, raises' \in Nat, odd' \in Nat,
           reported' \in [Check -> Nat],
           tray' \cup half' \subseteq tray \cup half,
           tray' \subseteq tray, half' \subseteq half,
           seen \subseteq seen', seen' \subseteq seen \cup tick[t].texts,
           \/ report' = report
           \/ /\ report' \in [ok : BOOLEAN, texts : SUBSET ItemType, files : SUBSET Name]
              /\ report'.texts \subseteq tick[t].texts
              /\ report'.files \subseteq Names(report'.texts),
           \A k \in new.texts : k \in Known \/ k \in tray \/ k.of \notin Name,
           new.at \in {"truncate", "write", "turn"}
                => new.files \subseteq Names(new.texts),
           new.at = "consume" => new.files \subseteq Names(seen')
    PROVE  IInv'
  <1> USE DEF IInv
  <1>1. tick[t] \in TickType
    BY DEF Types
  <1>2. seen' \subseteq ItemType
    BY <1>1 DEF Types, TickType
  <1>3. report' \in [ok : BOOLEAN, texts : SUBSET ItemType, files : SUBSET Name]
    BY DEF Types
  <1>4. tick' \in [Ticker -> TickType]
    BY DEF Types, TickStep
  <1>5. tray' \subseteq NameItem /\ half' \subseteq NameItem /\ drops' \in Nat
    BY DEF Types
  <1>6. Types'
    BY <1>2, <1>3, <1>4, <1>5 DEF Types
  <1>7. report'.texts \subseteq report.texts \cup tick[t].texts
    OBVIOUS
  <1>8. report'.files \subseteq Names(report'.texts)
    BY DEF Covered
  <1>9. \A k \in Known' : k \in Known \/ k \in tray \/ k.of \notin Name
    BY <1>7, KnownAfter
  <1>10. OneFile' /\ Newest'
    BY <1>9, NewestKept
  <1>11. Covered'
    BY <1>8, CoveredAfter
  <1> QED
    BY <1>6, <1>10, <1>11

-----------------------------------------------------------------------------
LEMMA WatchdogIInv ==
    ASSUME IInv, NEW t \in Ticker, Watchdog(t)
    PROVE  IInv'
  <1> USE DEF IInv, Types
  <1>a. /\ tick[t] \in TickType
        /\ tick[t].texts \subseteq Known
    BY DEF Known
  <1>1. ASSUME NEW bad \in SUBSET Check, HealthChecks(t, bad)
        PROVE  IInv'
    <2> DEFINE raised == {c \in bad : reported[c] # day}
               new == [tick[t] EXCEPT !.at = "collect",
                                      !.texts = {Item(c, day) : c \in raised}]
    <2>1. new.texts \subseteq ItemType /\ \A k \in new.texts : k.of \in Check
      BY <1>a DEF Item, ItemType, TickType
    <2>2. new \in TickType
      BY <1>a, <2>1 DEF TickType
    <2>3. TickStep(t, new)
      BY <1>1, <2>2 DEF HealthChecks, TickStep
    <2>4. odd' \in Nat /\ reported' \in [Check -> Nat]
      BY <1>1 DEF HealthChecks, Odd
    <2>5. \A k \in new.texts : k.of \notin Name
      BY <2>1, NamesAssumption
    <2>6. new.at = "collect"
      BY <1>a DEF TickType
    <2> HIDE DEF new
    <2> QED
      BY <1>1, <2>2, <2>3, <2>4, <2>5, <2>6, TickerKeeps DEF HealthChecks
  <1>2. CASE Collect(t)
    <2> DEFINE new == [tick[t] EXCEPT !.at = "truncate",
                                      !.texts = @ \cup tray,
                                      !.files = Names(tray)]
    <2>0. tray \subseteq ItemType /\ Names(tray) \subseteq Name
      BY DEF NameItem, ItemType, Names
    <2>1. new \in TickType
      BY <1>a, <2>0 DEF TickType
    <2>2. TickStep(t, new)
      BY <1>2, <2>1 DEF Collect, TickStep
    <2>3. /\ new.texts = tick[t].texts \cup tray
          /\ new.files = Names(tray) /\ new.at = "truncate"
      BY <1>a DEF TickType
    <2>4. \A k \in new.texts : k \in Known \/ k \in tray
      BY <1>a, <2>3
    <2>5. new.files \subseteq Names(new.texts)
      BY <2>3 DEF Names
    <2> HIDE DEF new
    <2> QED
      BY <1>2, <2>1, <2>2, <2>3, <2>4, <2>5, TickerKeeps
         DEF Collect, fileVars, boundVars
  <1>3. CASE TruncateReport(t)
    <2> DEFINE new == [tick[t] EXCEPT !.at = "write"]
    <2>1. /\ new \in TickType /\ new.at = "write"
          /\ new.texts = tick[t].texts /\ new.files = tick[t].files
      BY <1>a DEF TickType
    <2>2. TickStep(t, new)
      BY <1>3, <2>1 DEF TruncateReport, Goto, TickStep
    <2>3. tick[t].files \subseteq Names(tick[t].texts)
      BY <1>3 DEF TruncateReport, At, Covered
    <2>4. /\ report' \in [ok : BOOLEAN, texts : SUBSET ItemType, files : SUBSET Name]
          /\ report'.texts = {} /\ report'.files = {}
      BY <1>3 DEF TruncateReport
    <2> HIDE DEF new
    <2> QED
      BY <1>3, <1>a, <2>1, <2>2, <2>3, <2>4, TickerKeeps DEF TruncateReport, boundVars
  <1>4. CASE WriteReport(t)
    <2> DEFINE new == [NoTick EXCEPT !.at = "load"]
    <2>1. /\ new \in TickType /\ new.at = "load" /\ new.texts = {}
      BY DEF TickType, NoTick
    <2>2. TickStep(t, new)
      BY <1>4, <2>1 DEF WriteReport, ScriptEnds, TickStep
    <2>3. tick[t].files \subseteq Names(tick[t].texts)
      BY <1>4 DEF WriteReport, At, Covered
    <2>4. /\ report' \in [ok : BOOLEAN, texts : SUBSET ItemType, files : SUBSET Name]
          /\ report'.texts = tick[t].texts /\ report'.files = tick[t].files
      BY <1>4, <1>a DEF WriteReport, TickType
    <2> HIDE DEF new
    <2> QED
      BY <1>4, <2>1, <2>2, <2>3, <2>4, TickerKeeps DEF WriteReport, boundVars
  <1>5. CASE WatchdogFails(t)
    <2> DEFINE new == [NoTick EXCEPT !.at = "load"]
    <2>1. /\ new \in TickType /\ new.at = "load" /\ new.texts = {}
      BY DEF TickType, NoTick
    <2>2. TickStep(t, new)
      BY <1>5, <2>1 DEF WatchdogFails, ScriptEnds, TickStep
    <2> HIDE DEF new
    <2> QED
      BY <1>5, <2>1, <2>2, TickerKeeps DEF WatchdogFails, Odd, fileVars
  <1> QED
    BY <1>1, <1>2, <1>3, <1>4, <1>5 DEF Watchdog

LEMMA WakeIInv ==
    ASSUME IInv, NEW t \in Ticker,
           \/ StayAsleep(t) \/ WatchdogOnly(t) \/ Wake(t)
           \/ TurnRaises(t) \/ TurnReturns(t) \/ Crash(t)
    PROVE  IInv'
  <1> USE DEF IInv, Types, fileVars, boundVars
  <1>a. /\ tick[t] \in TickType
        /\ tick[t].texts \subseteq Known /\ report.texts \subseteq Known
    BY DEF Known
  <1>1. CASE EndTick(t) /\ UNCHANGED <<tray, half, report, reported, day, drops, seen>>
             /\ raises' \in Nat /\ odd' \in Nat
    <2>1. /\ NoTick \in TickType /\ NoTick.at = "idle" /\ NoTick.texts = {}
      BY DEF TickType, NoTick
    <2>2. TickStep(t, NoTick)
      BY <1>1, <2>1 DEF EndTick, TickStep
    <2> QED
      BY <1>1, <2>1, <2>2, TickerKeeps
  <1>2. CASE StayAsleep(t) \/ WatchdogOnly(t)
    BY <1>1, <1>2 DEF StayAsleep, WatchdogOnly
  <1>3. CASE TurnRaises(t)
    BY <1>1, <1>3 DEF TurnRaises
  <1>4. CASE Crash(t)
    BY <1>1, <1>4 DEF Crash, Odd
  <1>5. CASE Wake(t)
    <2> DEFINE new == [at |-> "turn", texts |-> report.texts, files |-> report.files]
    <2>1. new \in TickType
      BY DEF TickType
    <2>2. TickStep(t, new)
      BY <1>5, <2>1 DEF Wake, TickStep
    <2>3. /\ new.texts = report.texts /\ new.files = report.files
          /\ new.at = "turn"
      OBVIOUS
    <2>4. new.files \subseteq Names(new.texts)
      BY <2>3 DEF Covered
    <2> HIDE DEF new
    <2> QED
      BY <1>5, <1>a, <2>1, <2>2, <2>3, <2>4, TickerKeeps DEF Wake
  <1>6. CASE TurnReturns(t)
    <2> DEFINE new == [tick[t] EXCEPT !.at = "consume", !.texts = {}]
    <2>1. /\ new \in TickType /\ new.at = "consume"
          /\ new.texts = {} /\ new.files = tick[t].files
      BY <1>a DEF TickType
    <2>2. TickStep(t, new)
      BY <1>6, <2>1 DEF TurnReturns, TickStep
    <2>3. tick[t].files \subseteq Names(tick[t].texts)
      BY <1>6 DEF TurnReturns, At, Covered
    <2>4. seen' = seen \cup tick[t].texts
      BY <1>6 DEF TurnReturns
    <2>5. new.files \subseteq Names(seen')
      BY <2>1, <2>3, <2>4 DEF Names
    <2> HIDE DEF new
    <2> QED
      BY <1>6, <2>1, <2>2, <2>4, <2>5, TickerKeeps DEF TurnReturns
  <1> QED
    BY <1>2, <1>3, <1>4, <1>5, <1>6

LEMMA ConsumeIInv ==
    ASSUME IInv, NEW t \in Ticker, Consume(t) \/ CannotUnlink(t) \/ Consumed(t)
    PROVE  IInv'
  <1> USE DEF IInv, Types, fileVars, boundVars
  <1>a. tick[t] \in TickType
    OBVIOUS
  <1>b. At(t, "consume") /\ tick[t].files \subseteq Names(seen)
    BY DEF Covered, Consume, CannotUnlink, Consumed
  <1>1. CASE Consume(t) \/ CannotUnlink(t)
    <2>1. PICK name \in tick[t].files : tick' = [tick EXCEPT ![t].files = @ \ {name}]
      BY <1>1 DEF Consume, CannotUnlink
    <2> DEFINE new == [tick[t] EXCEPT !.files = @ \ {name}]
    <2>2. /\ new \in TickType /\ new.at = "consume"
          /\ new.texts = tick[t].texts /\ new.files \subseteq tick[t].files
      BY <1>a, <1>b DEF TickType, At
    <2>3. TickStep(t, new)
      BY <2>1, <2>2 DEF TickStep
    <2>4. /\ tray' \subseteq tray /\ half' \subseteq half
          /\ UNCHANGED <<report, reported, day, drops, seen>>
          /\ raises' \in Nat /\ odd' \in Nat
      BY <1>1 DEF Consume, CannotUnlink, Odd
    <2>5. \A k \in new.texts : k \in Known
      BY <2>2 DEF Known
    <2> HIDE DEF new
    <2> QED
      BY <1>b, <2>2, <2>3, <2>4, <2>5, TickerKeeps
  <1>2. CASE Consumed(t)
    <2>1. /\ NoTick \in TickType /\ NoTick.at = "idle" /\ NoTick.texts = {}
      BY DEF TickType, NoTick
    <2>2. TickStep(t, NoTick)
      BY <1>2, <2>1 DEF Consumed, EndTick, TickStep
    <2> QED
      BY <1>2, <2>1, <2>2, TickerKeeps DEF Consumed
  <1> QED
    BY <1>1, <1>2

(* A sensor's text is later than everything anyone has collected. *)
LEMMA SensorIInv ==
    ASSUME IInv,
           \/ \E name \in Name : DropBegin(name)
           \/ \E i \in half : DropEnd(i)
           \/ NewDay
    PROVE  IInv'
  <1> USE DEF IInv
  <1>1. ASSUME NEW name \in Name, DropBegin(name)
        PROVE  IInv'
    <2>1. /\ tray' = tray \ Under(tray, name)
          /\ half' = (half \ Under(half, name)) \cup {Item(name, drops + 1)}
          /\ drops' = drops + 1
          /\ UNCHANGED <<report, reported, tick, day, raises, odd, seen>>
      BY <1>1 DEF DropBegin
    <2>2. Item(name, drops + 1) \in NameItem
      BY DEF Item, NameItem, Types
    <2>3. Types'
      BY <2>1, <2>2 DEF Types
    <2>4. \A i \in tray' \cup half' :
              \/ i \in tray \cup half /\ i.of # name
              \/ i = Item(name, drops + 1)
      BY <2>1 DEF Under
    <2>5. Item(name, drops + 1).of = name /\ Item(name, drops + 1).n = drops + 1
      BY DEF Item
    <2>6. OneFile'
      BY <2>4, <2>5 DEF OneFile
    <2>7. Known' = Known
      BY <2>1 DEF Known
    <2>8. \A i \in tray \cup half : i.n \in Nat
      BY DEF Types, NameItem
    <2>9. \A k \in Known : k.n \in Nat
      BY DEF Known, Types, TickType, ItemType
    <2>10. drops \in Nat
      BY DEF Types
    <2>11. \A i \in tray' \cup half' : i.n <= drops'
      BY <2>1, <2>4, <2>5, <2>8, <2>10 DEF Newest
    <2>12. ASSUME NEW k \in Known, k.of \in Name
           PROVE  /\ k.n <= drops'
                  /\ \A i \in tray' \cup half' : i.of = k.of => k.n <= i.n
      BY <2>1, <2>4, <2>5, <2>8, <2>9, <2>10, <2>12 DEF Newest
    <2>13. Newest'
      BY <2>7, <2>11, <2>12 DEF Newest
    <2>14. Covered'
      BY <2>1 DEF Covered, At
    <2> QED
      BY <2>3, <2>6, <2>13, <2>14
  <1>2. ASSUME NEW i \in half, DropEnd(i)
        PROVE  IInv'
    <2>1. /\ half' = half \ {i} /\ tray' = tray \cup {i}
          /\ UNCHANGED <<report, reported, tick, day, drops, raises, odd, seen>>
      BY <1>2 DEF DropEnd, boundVars
    <2>2. tray' \cup half' \subseteq tray \cup half
      BY <2>1
    <2>3. Types'
      BY <2>1 DEF Types
    <2>4. Known' = Known
      BY <2>1 DEF Known
    <2>5. OneFile' /\ Newest'
      BY <2>1, <2>2, <2>4, NewestKept
    <2>6. Covered'
      BY <2>1 DEF Covered, At
    <2> QED
      BY <2>3, <2>5, <2>6
  <1>3. CASE NewDay
    <2>1. /\ day' = day + 1
          /\ UNCHANGED <<fileVars, tick, boundVars, seen>>
      BY <1>3 DEF NewDay
    <2> QED
      BY <2>1 DEF Types, OneFile, Newest, Known, Covered, At, fileVars, boundVars
  <1> QED
    BY <1>1, <1>2, <1>3

LEMMA StepIInv == IInv /\ [Next]_vars => IInv'
  <1> SUFFICES ASSUME IInv, [Next]_vars
               PROVE  IInv'
    OBVIOUS
  <1>1. ASSUME NEW t \in Ticker, RunHeartbeat(t) \/ Crash(t)
        PROVE  IInv'
    BY <1>1, WatchdogIInv, WakeIInv, ConsumeIInv DEF RunHeartbeat
  <1>2. CASE \/ \E name \in Name : DropBegin(name)
             \/ \E i \in half : DropEnd(i)
             \/ NewDay
    BY <1>2, SensorIInv
  <1>3. CASE UNCHANGED vars
    BY <1>3 DEF IInv, Types, OneFile, Newest, Known, Covered, At,
                vars, fileVars, boundVars
  <1> QED
    BY <1>1, <1>2, <1>3 DEF Next

LEMMA Inductive == Spec => []IInv
  BY InitIInv, StepIInv, PTL DEF Spec

-----------------------------------------------------------------------------
LEMMA OneUnder ==
    ASSUME NEW S, NEW name, \A i, j \in S : i.of = j.of => i = j
    PROVE  Cardinality(Under(S, name)) <= 1
  <1>1. CASE Under(S, name) = {}
    BY <1>1, FS_EmptySet
  <1>2. ASSUME NEW i \in Under(S, name)
        PROVE  Cardinality(Under(S, name)) <= 1
    <2>1. Under(S, name) = {i}
      BY <1>2 DEF Under
    <2> QED
      BY <2>1, FS_Singleton
  <1> QED
    BY <1>1, <1>2

(* Every variable keeps its type, a name in the tray is one file, and a    *)
(* wake has a text for every file that it is going to delete.              *)
THEOREM TypeCorrect == Spec => []TypeOK
  <1>1. IInv => TypeOK
    <2> SUFFICES ASSUME IInv
                 PROVE  TypeOK
      OBVIOUS
    <2>1. \A name \in Name : Cardinality(Under(tray \cup half, name)) <= 1
      BY OneUnder DEF IInv, OneFile
    <2>2. \A t \in Ticker :
              At(t, "turn") => tick[t].files \subseteq Names(tick[t].texts)
      BY DEF IInv, Covered, At
    <2> QED
      BY <2>1, <2>2 DEF IInv, Types, TypeOK, NameItem
  <1> QED
    BY <1>1, Inductive, PTL

(* A readable trigger leaves the tray only by its sensor's next write, or  *)
(* for a text of the same file that a turn was shown and that is not later *)
(* (_consume_triggers unlinks by name).                                    *)
THEOREM OnlyShownOrReplacingDeleted == Spec => DeletesShownOrReplacing
  <1>1. IInv /\ [Next]_vars =>
          [\A i \in tray \ tray' :
              \/ \E j \in half' : j.of = i.of
              \/ \E j \in seen : j.of = i.of /\ j.n <= i.n]_vars
    <2> SUFFICES ASSUME IInv, Next, NEW i \in tray, i \notin tray'
                 PROVE  \/ \E j \in half' : j.of = i.of
                        \/ \E j \in seen : j.of = i.of /\ j.n <= i.n
      OBVIOUS
    <2>1. ASSUME NEW name \in Name, DropBegin(name)
          PROVE  \E j \in half' : j.of = i.of
      <3>1. i.of = name
        BY <2>1 DEF DropBegin, Under
      <3>2. Item(name, drops') \in half' /\ Item(name, drops').of = name
        BY <2>1 DEF DropBegin, Item
      <3> QED
        BY <3>1, <3>2
    <2>2. ASSUME NEW t \in Ticker, Consume(t)
          PROVE  \E j \in seen : j.of = i.of /\ j.n <= i.n
      <3>1. i.of \in tick[t].files
        BY <2>2 DEF Consume, Under
      <3>2. i.of \in Names(seen)
        BY <2>2, <3>1 DEF IInv, Covered, Consume
      <3>3. PICK j \in seen : j.of = i.of
        BY <3>2 DEF Names
      <3>4. j \in Known /\ i.of \in Name
        BY DEF Known, IInv, Types, NameItem
      <3> QED
        BY <3>3, <3>4 DEF IInv, Newest
    <2>3. ASSUME NEW t \in Ticker, Watchdog(t)
          PROVE  FALSE
      BY <2>3 DEF Watchdog, HealthChecks, Collect, TruncateReport, WriteReport,
                  WatchdogFails, fileVars
    <2>4. ASSUME NEW t \in Ticker,
                 \/ StayAsleep(t) \/ WatchdogOnly(t) \/ Wake(t) \/ TurnRaises(t)
                 \/ TurnReturns(t) \/ CannotUnlink(t) \/ Consumed(t) \/ Crash(t)
          PROVE  FALSE
      BY <2>4 DEF StayAsleep, WatchdogOnly, Wake, TurnRaises, TurnReturns,
                  CannotUnlink, Consumed, Crash, fileVars
    <2>5. CASE NewDay \/ \E j \in half : DropEnd(j)
      BY <2>5 DEF NewDay, DropEnd, fileVars
    <2> QED
      BY <2>1, <2>2, <2>3, <2>4, <2>5 DEF Next, RunHeartbeat
  <1> QED
    BY <1>1, Inductive, PTL DEF Spec, DeletesShownOrReplacing

-----------------------------------------------------------------------------
(* A trigger is shown once.                                                *)
(*                                                                         *)
(* The argument: a check is raised on a day that is later than every one   *)
(* it was raised on before (Raised).  Of files: when nothing odd has       *)
(* happened the daemon is alone, so the report that it loads is the one it *)
(* wrote, which names a file for every text of the tray; those files are   *)
(* the only shown ones left, and they go before it looks again (Once).     *)

Raised ==
    \A c \in Check :
        /\ reported[c] <= day
        /\ \A k \in Known : k.of = c => k.n <= reported[c]

Named(texts, named) == \A k \in texts : k.of \in Name => k.of \in named

Once ==
    /\ \A t \in Ticker \ {Daemon} : tick[t] = NoTick
    /\ tick[Daemon].texts \cap seen = {}
    /\ At(Daemon, "collect") => Named(tick[Daemon].texts, {})
    /\ tick[Daemon].at \in {"truncate", "write", "turn"}
          => Named(tick[Daemon].texts, tick[Daemon].files)
    /\ At(Daemon, "load") => Named(report.texts, report.files) /\ report.texts \cap seen = {}
    /\ \A i \in (tray \cup half) \cap seen : At(Daemon, "consume") /\ i.of \in tick[Daemon].files

OnceInv == Raised /\ (odd = 0 => Once)

LEMMA OnceInit == Init => OnceInv
<1> SUFFICES ASSUME Init PROVE OnceInv OBVIOUS
<1>1. Known = {} BY DEF Init, Known, NoTick
<1>2. Raised BY <1>1 DEF Init, Raised
<1>3. Once
  BY NamesAssumption DEF Init, Once, At, NoTick
<1>4. QED BY <1>2, <1>3 DEF OnceInv

(* One ticker moves, the others stay where they are. *)
LEMMA TickOf ==
    ASSUME Types, NEW t \in Ticker, NEW new, tick' = [tick EXCEPT ![t] = new]
    PROVE  tick'[t] = new /\ \A u \in Ticker \ {t} : tick'[u] = tick[u]
BY DEF Types

(* Only the watchdog's own checks bring in what was not in the tray.       *)
LEMMA KnownStep ==
    ASSUME IInv, [Next]_vars
    PROVE  \/ Known' \subseteq Known \cup tray /\ UNCHANGED reported /\ day' >= day
           \/ \E t \in Ticker, bad \in SUBSET Check : HealthChecks(t, bad)
<1> USE DEF IInv, Types
<1> DEFINE Kept == Known' \subseteq Known \cup tray /\ UNCHANGED reported /\ day' >= day
<1> SUFFICES ASSUME ~\E t \in Ticker, bad \in SUBSET Check : HealthChecks(t, bad)
             PROVE  Kept
  OBVIOUS
<1>0. \A u \in Ticker : tick[u].texts \subseteq Known BY DEF Known
<1>1. ASSUME NEW t \in Ticker, NEW new, tick' = [tick EXCEPT ![t] = new],
             new.texts \subseteq Known \cup tray, seen' \subseteq Known,
             report'.texts \subseteq Known, UNCHANGED <<reported, day>>
      PROVE  Kept
  <2>1. \A u \in Ticker : tick'[u].texts \subseteq Known \cup tray
    BY <1>0, <1>1, TickOf
  <2>2. QED BY <1>1, <2>1 DEF Known
<1>2. ASSUME NEW t \in Ticker, Watchdog(t)
      PROVE  Kept
  <2>0. tick[t] \in TickType /\ seen \subseteq Known /\ report.texts \subseteq Known
        /\ tick[t].texts \subseteq Known
    BY DEF Known
  <2>1. CASE Collect(t)
    <3> DEFINE new == [tick[t] EXCEPT !.at = "truncate", !.texts = @ \cup tray,
                                      !.files = Names(tray)]
    <3>1. new.texts = tick[t].texts \cup tray BY <2>0 DEF TickType
    <3>2. tick' = [tick EXCEPT ![t] = new] BY <2>1 DEF Collect
    <3>3. UNCHANGED <<seen, report, reported, day>> BY <2>1 DEF Collect, fileVars
    <3> HIDE DEF new, Kept
    <3>4. QED BY <2>0, <3>1, <3>2, <3>3, <1>1
  <2>2. CASE TruncateReport(t)
    <3> DEFINE new == [tick[t] EXCEPT !.at = "write"]
    <3>1. new.texts = tick[t].texts BY <2>0 DEF TickType
    <3>2. tick' = [tick EXCEPT ![t] = new] BY <2>2 DEF TruncateReport, Goto
    <3>3. UNCHANGED <<seen, reported, day>> /\ report'.texts = {} BY <2>2 DEF TruncateReport
    <3> HIDE DEF new, Kept
    <3>4. QED BY <2>0, <3>1, <3>2, <3>3, <1>1
  <2>3. CASE WriteReport(t) \/ WatchdogFails(t)
    <3> DEFINE new == [NoTick EXCEPT !.at = "load"]
    <3>1. new.texts = {} BY DEF NoTick
    <3>2. tick' = [tick EXCEPT ![t] = new]
      BY <2>3 DEF WriteReport, WatchdogFails, ScriptEnds
    <3>3. UNCHANGED <<seen, reported, day>> /\ report'.texts \subseteq Known
      BY <2>0, <2>3 DEF WriteReport, WatchdogFails, fileVars
    <3> HIDE DEF new, Kept
    <3>4. QED BY <2>0, <3>1, <3>2, <3>3, <1>1
  <2>4. QED BY <1>2, <2>1, <2>2, <2>3 DEF Watchdog
<1>3. ASSUME NEW t \in Ticker,
             \/ StayAsleep(t) \/ WatchdogOnly(t) \/ Wake(t) \/ TurnRaises(t) \/ TurnReturns(t)
             \/ Consume(t) \/ CannotUnlink(t) \/ Consumed(t) \/ Crash(t)
      PROVE  Kept
  <2>0. tick[t] \in TickType /\ seen \subseteq Known /\ report.texts \subseteq Known
        /\ tick[t].texts \subseteq Known
    BY DEF Known
  <2>1. UNCHANGED <<reported, day, report>>
    BY <1>3 DEF StayAsleep, WatchdogOnly, Wake, TurnRaises, TurnReturns, Consume, CannotUnlink,
       Consumed, Crash, fileVars
  <2>2. seen' \subseteq Known
    BY <1>3, <2>0 DEF StayAsleep, WatchdogOnly, Wake, TurnRaises, TurnReturns, Consume,
       CannotUnlink, Consumed, Crash
  <2>3. \E new : tick' = [tick EXCEPT ![t] = new] /\ new.texts \subseteq Known
    <3>1. CASE StayAsleep(t) \/ WatchdogOnly(t) \/ TurnRaises(t) \/ Consumed(t) \/ Crash(t)
      <4>1. NoTick.texts = {} BY DEF NoTick
      <4>2. tick' = [tick EXCEPT ![t] = NoTick]
        BY <3>1 DEF StayAsleep, WatchdogOnly, TurnRaises, Consumed, Crash, EndTick
      <4>3. QED BY <4>1, <4>2
    <3>2. CASE Wake(t)
      <4> DEFINE new == [at |-> "turn", texts |-> report.texts, files |-> report.files]
      <4>1. tick' = [tick EXCEPT ![t] = new] /\ new.texts \subseteq Known
        BY <3>2, <2>0 DEF Wake
      <4>2. QED BY <4>1
    <3>3. CASE TurnReturns(t)
      <4> DEFINE new == [tick[t] EXCEPT !.at = "consume", !.texts = {}]
      <4>1. tick' = [tick EXCEPT ![t] = new] BY <3>3 DEF TurnReturns
      <4>2. new.texts = {} BY <2>0 DEF TickType
      <4>3. QED BY <4>1, <4>2
    <3>4. CASE Consume(t) \/ CannotUnlink(t)
      <4>1. PICK name \in tick[t].files :
               tick' = [tick EXCEPT ![t] = [tick[t] EXCEPT !.files = tick[t].files \ {name}]]
        BY <3>4 DEF Consume, CannotUnlink
      <4> DEFINE new == [tick[t] EXCEPT !.files = tick[t].files \ {name}]
      <4>2. new.texts = tick[t].texts
        BY <2>0 DEF TickType
      <4>3. tick' = [tick EXCEPT ![t] = new] BY <4>1
      <4> HIDE DEF new
      <4>4. QED BY <2>0, <4>2, <4>3
    <3>5. QED BY <1>3, <3>1, <3>2, <3>3, <3>4
  <2>4. QED BY <2>0, <2>1, <2>2, <2>3, <1>1
<1>4. CASE \E name \in Name : DropBegin(name)
  BY <1>4 DEF DropBegin, Known
<1>5. CASE \E i \in half : DropEnd(i)
  BY <1>5 DEF DropEnd, Known
<1>6. CASE NewDay BY <1>6 DEF NewDay, fileVars, Known
<1>7. CASE UNCHANGED vars BY <1>7 DEF vars, fileVars, Known
<1>8. QED
  <2> HIDE DEF Kept
  <2> QED BY <1>2, <1>3, <1>4, <1>5, <1>6, <1>7 DEF Next, RunHeartbeat

(* A check is never raised for a day that has been raised already.         *)
LEMMA RaisedStep == IInv /\ Raised /\ [Next]_vars => Raised'
<1> SUFFICES ASSUME IInv, Raised, [Next]_vars PROVE Raised' OBVIOUS
<1>1. CASE Known' \subseteq Known \cup tray /\ UNCHANGED reported /\ day' >= day
  <2>0. day' \in Nat
    BY StepIInv DEF IInv, Types
  <2> SUFFICES ASSUME NEW c \in Check
               PROVE  reported'[c] <= day' /\ \A k \in Known' : k.of = c => k.n <= reported'[c]
    BY DEF Raised
  <2>1. reported[c] <= day /\ reported[c] \in Nat /\ day \in Nat /\ reported'[c] = reported[c]
    BY <1>1 DEF Raised, IInv, Types
  <2>2. \A k \in tray : k.of # c
    BY NamesAssumption DEF IInv, Types, NameItem
  <2>3. \A k \in Known' : k.of = c => k \in Known
    BY <1>1, <2>2
  <2>4. QED BY <1>1, <2>0, <2>1, <2>3 DEF Raised
<1>2. ASSUME NEW t \in Ticker, NEW bad \in SUBSET Check, HealthChecks(t, bad)
      PROVE  Raised'
  <2> DEFINE raised == {c \in bad : reported[c] # day}
             new == [tick[t] EXCEPT !.at = "collect",
                                    !.texts = {Item(c, day) : c \in raised}]
  <2>1. tick' = [tick EXCEPT ![t] = new] BY <1>2 DEF HealthChecks
  <2>2. new.texts = {Item(c, day) : c \in raised}
    BY DEF IInv, Types, TickType
  <2>3. UNCHANGED <<seen, report, day>>
        /\ reported' = [c \in Check |-> IF c \in raised THEN day ELSE reported[c]]
    BY <1>2 DEF HealthChecks
  <2>4. \A k \in Known' : k \in Known \/ k \in new.texts
    <3> HIDE DEF new
    <3>1. \A u \in Ticker : tick'[u] = new \/ tick'[u] = tick[u]
      BY <2>1, TickOf DEF IInv
    <3>2. QED BY <3>1, <2>3 DEF Known
  <2> SUFFICES ASSUME NEW c \in Check
               PROVE  reported'[c] <= day' /\ \A k \in Known' : k.of = c => k.n <= reported'[c]
    BY DEF Raised
  <2>5. /\ reported'[c] = IF c \in raised THEN day ELSE reported[c]
        /\ reported[c] <= day /\ reported[c] \in Nat /\ day \in Nat
    BY <2>3 DEF Raised, IInv, Types
  <2>6. ASSUME NEW k \in Known', k.of = c PROVE k.n <= reported'[c]
    <3>1. CASE k \in Known
      <4>1. k.n <= reported[c] BY <2>6, <3>1 DEF Raised
      <4>2. k.n \in Nat BY <3>1 DEF IInv, Types, Known, ItemType, TickType
      <4>3. QED BY <4>1, <4>2, <2>5
    <3>2. CASE k \in new.texts
      <4>1. PICK d \in raised : k = Item(d, day) BY <2>2, <3>2
      <4>2. k.n = day /\ c \in raised BY <4>1, <2>6 DEF Item
      <4>3. QED BY <4>2, <2>5
    <3>3. QED BY <2>4, <3>1, <3>2
  <2>7. QED BY <2>3, <2>5, <2>6
<1>3. QED BY <1>1, <1>2, KnownStep

(* While nothing odd has happened, only the daemon ticks. *)
LEMMA DaemonAlone ==
    ASSUME IInv, Once, odd = 0, odd' = 0, NEW t \in Ticker, RunHeartbeat(t) \/ Crash(t)
    PROVE  /\ t = Daemon
           /\ UNCHANGED <<day, drops, odd>>
           /\ \/ \E bad \in SUBSET Check : HealthChecks(t, bad)
              \/ Collect(t) \/ TruncateReport(t) \/ WriteReport(t)
              \/ StayAsleep(t) \/ Wake(t)
              \/ TurnRaises(t) \/ TurnReturns(t) \/ Consume(t) \/ Consumed(t)
<1>1. ~Odd BY DEF Odd
<1>2. ~WatchdogFails(t) /\ ~CannotUnlink(t) /\ ~Crash(t)
  BY <1>1 DEF WatchdogFails, CannotUnlink, Crash
<1>3. t # Daemon => tick[t] = NoTick BY DEF Once
<1>4. t = Daemon
  BY <1>1, <1>2, <1>3 DEF RunHeartbeat, Watchdog, HealthChecks, Collect, TruncateReport,
     WriteReport, StayAsleep, WatchdogOnly, Wake, TurnRaises, TurnReturns, Consume, Consumed,
     At, NoTick
<1>5. ~WatchdogOnly(t) BY <1>4 DEF WatchdogOnly
<1>6. \/ \E bad \in SUBSET Check : HealthChecks(t, bad)
      \/ Collect(t) \/ TruncateReport(t) \/ WriteReport(t)
      \/ StayAsleep(t) \/ Wake(t)
      \/ TurnRaises(t) \/ TurnReturns(t) \/ Consume(t) \/ Consumed(t)
  BY <1>2, <1>5 DEF RunHeartbeat, Watchdog
<1>7. UNCHANGED <<day, drops>>
  BY <1>6 DEF HealthChecks, Collect, TruncateReport, WriteReport, StayAsleep, Wake, TurnRaises,
     TurnReturns, Consume, Consumed, boundVars
<1>8. QED BY <1>4, <1>6, <1>7

(* The daemon's watchdog: what it collects has not been shown, and what it *)
(* writes it has collected.                                                *)
LEMMA OnceWatchdog ==
    ASSUME IInv, Raised, Once, NEW new, tick' = [tick EXCEPT ![Daemon] = new],
           \/ \E bad \in SUBSET Check : HealthChecks(Daemon, bad)
           \/ Collect(Daemon) \/ TruncateReport(Daemon) \/ WriteReport(Daemon)
    PROVE  Once'
<1> USE NamesAssumption DEF IInv, Types
<1>0. /\ tick'[Daemon] = new /\ \A u \in Ticker \ {Daemon} : tick'[u] = tick[u]
      /\ tick[Daemon] \in TickType
  BY TickOf
<1>1. UNCHANGED <<tray, half, seen>>
  BY DEF HealthChecks, Collect, TruncateReport, WriteReport, fileVars
<1>2. ~At(Daemon, "consume")
  BY DEF HealthChecks, Collect, TruncateReport, WriteReport, At
<1>3. (tray \cup half) \cap seen = {} BY <1>2 DEF Once
<1>4. ASSUME NEW bad \in SUBSET Check, HealthChecks(Daemon, bad) PROVE Once'
  <2> DEFINE raised == {c \in bad : reported[c] # day}
             hs == [tick[Daemon] EXCEPT !.at = "collect",
                                        !.texts = {Item(c, day) : c \in raised}]
  <2>1. tick' = [tick EXCEPT ![Daemon] = hs] BY <1>4 DEF HealthChecks
  <2>2. tick'[Daemon] = hs BY <2>1, TickOf
  <2>3. tick'[Daemon].at = "collect" /\ tick'[Daemon].texts = {Item(c, day) : c \in raised}
    BY <1>0, <2>2 DEF TickType
  <2>4. \A k \in tick'[Daemon].texts : k.of \notin Name
    BY <2>3 DEF Item
  <2>5. ASSUME NEW k \in tick'[Daemon].texts, k \in seen PROVE FALSE
    <3>1. PICK c \in raised : k = Item(c, day) BY <2>3, <2>5
    <3>2. reported[c] <= day /\ reported[c] # day /\ reported[c] \in Nat /\ day \in Nat
      BY <3>1 DEF Raised
    <3>3. k.of = c /\ k.n = day /\ k \in Known BY <2>5, <3>1 DEF Item, Known
    <3>4. k.n <= reported[c] BY <3>3 DEF Raised
    <3>5. QED BY <3>2, <3>3, <3>4
  <2> HIDE DEF hs
  <2>6. QED BY <1>0, <1>1, <1>3, <2>3, <2>4, <2>5 DEF Once, At, Named
<1>5. CASE Collect(Daemon)
  <2> DEFINE hs == [tick[Daemon] EXCEPT !.at = "truncate", !.texts = @ \cup tray,
                                        !.files = Names(tray)]
  <2>1. tick' = [tick EXCEPT ![Daemon] = hs] /\ At(Daemon, "collect") BY <1>5 DEF Collect
  <2>2. tick'[Daemon] = hs BY <2>1, TickOf
  <2>3. /\ tick'[Daemon].at = "truncate" /\ tick'[Daemon].texts = tick[Daemon].texts \cup tray
        /\ tick'[Daemon].files = Names(tray)
    BY <1>0, <2>2 DEF TickType
  <2>4. \A k \in tick'[Daemon].texts : k.of \in Name => k.of \in tick'[Daemon].files
    BY <2>1, <2>3 DEF Once, Named, Names
  <2>5. tick'[Daemon].texts \cap seen = {} BY <1>3, <2>3 DEF Once
  <2> HIDE DEF hs
  <2>6. QED BY <1>0, <1>1, <1>3, <2>3, <2>4, <2>5 DEF Once, At, Named
<1>6. CASE TruncateReport(Daemon)
  <2> DEFINE hs == [tick[Daemon] EXCEPT !.at = "write"]
  <2>1. tick' = [tick EXCEPT ![Daemon] = hs] /\ At(Daemon, "truncate")
    BY <1>6 DEF TruncateReport, Goto
  <2>2. tick'[Daemon] = hs BY <2>1, TickOf
  <2>3. /\ tick'[Daemon].at = "write" /\ tick'[Daemon].texts = tick[Daemon].texts
        /\ tick'[Daemon].files = tick[Daemon].files
    BY <1>0, <2>2 DEF TickType
  <2> HIDE DEF hs
  <2>4. QED BY <1>0, <1>1, <1>3, <2>1, <2>3 DEF Once, At, Named
<1>7. CASE WriteReport(Daemon)
  <2> DEFINE hs == [NoTick EXCEPT !.at = "load"]
  <2>1. tick' = [tick EXCEPT ![Daemon] = hs] /\ At(Daemon, "write")
    BY <1>7 DEF WriteReport, ScriptEnds
  <2>2. tick'[Daemon] = hs BY <2>1, TickOf
  <2>3. tick'[Daemon].at = "load" /\ tick'[Daemon].texts = {}
    BY <2>2 DEF NoTick
  <2>4. report'.texts = tick[Daemon].texts /\ report'.files = tick[Daemon].files
    BY <1>7 DEF WriteReport
  <2> HIDE DEF hs
  <2>5. QED BY <1>0, <1>1, <1>3, <2>1, <2>3, <2>4 DEF Once, At, Named
<1>8. QED BY <1>4, <1>5, <1>6, <1>7

(* The wake: shown files are those that go, and they go before the next    *)
(* look.                                                                   *)
LEMMA OnceWake ==
    ASSUME IInv, Once,
           \/ StayAsleep(Daemon) \/ Wake(Daemon) \/ TurnRaises(Daemon)
           \/ TurnReturns(Daemon) \/ Consume(Daemon) \/ Consumed(Daemon)
    PROVE  Once'
<1> USE NamesAssumption DEF IInv, Types
<1>0. tick[Daemon] \in TickType OBVIOUS
<1>1. CASE StayAsleep(Daemon) \/ TurnRaises(Daemon) \/ Consumed(Daemon)
  <2>1. tick' = [tick EXCEPT ![Daemon] = NoTick]
    BY <1>1 DEF StayAsleep, TurnRaises, Consumed, EndTick
  <2>2. tick'[Daemon] = NoTick /\ \A u \in Ticker \ {Daemon} : tick'[u] = tick[u]
    BY <2>1, TickOf
  <2>3. UNCHANGED <<tray, half, report, seen>>
    BY <1>1 DEF StayAsleep, TurnRaises, Consumed, fileVars
  <2>4. (tray \cup half) \cap seen = {}
    BY <1>1 DEF StayAsleep, TurnRaises, Consumed, Once, At
  <2>5. NoTick.at = "idle" /\ NoTick.texts = {} BY DEF NoTick
  <2>6. QED BY <2>2, <2>3, <2>4, <2>5 DEF Once, At
<1>2. CASE Wake(Daemon)
  <2> DEFINE new == [at |-> "turn", texts |-> report.texts, files |-> report.files]
  <2>1. tick' = [tick EXCEPT ![Daemon] = new] /\ At(Daemon, "load") BY <1>2 DEF Wake
  <2>2. tick'[Daemon] = new /\ \A u \in Ticker \ {Daemon} : tick'[u] = tick[u]
    BY <2>1, TickOf
  <2>3. UNCHANGED <<tray, half, report, seen>> BY <1>2 DEF Wake, fileVars
  <2>4. (tray \cup half) \cap seen = {} BY <2>1 DEF Once, At
  <2>5. QED BY <2>1, <2>2, <2>3, <2>4 DEF Once, At, Named
<1>3. CASE TurnReturns(Daemon)
  <2> DEFINE new == [tick[Daemon] EXCEPT !.at = "consume", !.texts = {}]
  <2>1. tick' = [tick EXCEPT ![Daemon] = new] /\ At(Daemon, "turn") BY <1>3 DEF TurnReturns
  <2>2. tick'[Daemon] = new /\ \A u \in Ticker \ {Daemon} : tick'[u] = tick[u]
    BY <2>1, TickOf
  <2>3. UNCHANGED <<tray, half, report>> /\ seen' = seen \cup tick[Daemon].texts
    BY <1>3 DEF TurnReturns, fileVars
  <2>4. tick'[Daemon].at = "consume" /\ tick'[Daemon].texts = {}
        /\ tick'[Daemon].files = tick[Daemon].files
    BY <1>0, <2>2 DEF TickType
  <2>5. (tray \cup half) \cap seen = {} /\ Named(tick[Daemon].texts, tick[Daemon].files)
    BY <2>1 DEF Once, At
  <2>6. \A i \in (tray' \cup half') \cap seen' : i.of \in tick[Daemon].files
    <3>1. \A i \in tray' \cup half' : i.of \in Name BY <2>3 DEF NameItem
    <3>2. QED BY <2>3, <2>5, <3>1 DEF Named
  <2> HIDE DEF new
  <2>7. QED BY <2>2, <2>4, <2>6 DEF Once, At
<1>4. CASE Consume(Daemon)
  <2>1. PICK name \in tick[Daemon].files :
           /\ tray' = tray \ Under(tray, name)
           /\ half' = half \ Under(half, name)
           /\ tick' = [tick EXCEPT ![Daemon] =
                          [tick[Daemon] EXCEPT !.files = tick[Daemon].files \ {name}]]
    BY <1>4 DEF Consume
  <2> DEFINE new == [tick[Daemon] EXCEPT !.files = tick[Daemon].files \ {name}]
  <2>2. tick'[Daemon] = new /\ \A u \in Ticker \ {Daemon} : tick'[u] = tick[u]
    BY <2>1, TickOf
  <2>3. new.at = tick[Daemon].at /\ new.texts = tick[Daemon].texts
        /\ new.files = tick[Daemon].files \ {name}
    BY <1>0 DEF TickType
  <2>4. UNCHANGED <<seen, report>> /\ At(Daemon, "consume") BY <1>4 DEF Consume
  <2>5. \A i \in tray' \cup half' : i \in tray \cup half /\ i.of # name
    BY <2>1 DEF Under
  <2> HIDE DEF new
  <2>6. QED BY <2>2, <2>3, <2>4, <2>5 DEF Once, At
<1>5. QED BY <1>1, <1>2, <1>3, <1>4

LEMMA OnceStep == IInv /\ OnceInv /\ [Next]_vars => OnceInv'
<1> SUFFICES ASSUME IInv, OnceInv, [Next]_vars PROVE OnceInv' OBVIOUS
<1>1. Raised' BY RaisedStep DEF OnceInv
<1> SUFFICES ASSUME odd' = 0 PROVE Once' BY <1>1 DEF OnceInv
<1>2. odd \in Nat /\ odd' \in {odd, odd + 1}
  <2>1. odd \in Nat BY DEF IInv, Types
  <2>2. QED
    BY <2>1 DEF Next, RunHeartbeat, Watchdog, HealthChecks, Odd, Collect, TruncateReport,
       WriteReport, WatchdogFails, StayAsleep, WatchdogOnly, Wake, TurnRaises, TurnReturns,
       Consume, CannotUnlink, Consumed, Crash, DropBegin, DropEnd, NewDay, boundVars, vars
<1>3. odd = 0 /\ Once BY <1>2 DEF OnceInv
<1>4. ASSUME NEW t \in Ticker, RunHeartbeat(t) \/ Crash(t) PROVE Once'
  <2>1. t = Daemon BY <1>3, <1>4, DaemonAlone
  <2>2. CASE \/ \E bad \in SUBSET Check : HealthChecks(t, bad)
             \/ Collect(t) \/ TruncateReport(t) \/ WriteReport(t)
    <3>1. \E new : tick' = [tick EXCEPT ![Daemon] = new]
      BY <2>1, <2>2 DEF HealthChecks, Collect, TruncateReport, WriteReport, Goto, ScriptEnds
    <3>2. QED BY <1>3, <2>1, <2>2, <3>1, OnceWatchdog DEF OnceInv
  <2>3. CASE \/ StayAsleep(t) \/ Wake(t)
             \/ TurnRaises(t) \/ TurnReturns(t) \/ Consume(t) \/ Consumed(t)
    BY <1>3, <2>1, <2>3, OnceWake
  <2>4. QED BY <1>3, <1>4, <2>2, <2>3, DaemonAlone
<1>5. ASSUME NEW name \in Name, DropBegin(name) PROVE Once'
  <2>1. /\ tray' = tray \ Under(tray, name)
        /\ half' = (half \ Under(half, name)) \cup {Item(name, drops + 1)}
        /\ UNCHANGED <<report, tick, seen>>
    BY <1>5 DEF DropBegin
  <2>2. Item(name, drops + 1) \notin seen
    <3> SUFFICES ASSUME Item(name, drops + 1) \in seen PROVE FALSE OBVIOUS
    <3>1. Item(name, drops + 1) \in Known /\ Item(name, drops + 1).of = name
          /\ Item(name, drops + 1).n = drops + 1
      BY DEF Known, Item
    <3>2. drops + 1 <= drops BY <3>1 DEF IInv, Newest
    <3>3. QED BY <3>2 DEF IInv, Types
  <2>3. \A i \in (tray' \cup half') \cap seen : i \in tray \cup half
    BY <2>1, <2>2
  <2>4. QED BY <1>3, <2>1, <2>3 DEF Once, At
<1>6. ASSUME NEW i \in half, DropEnd(i) PROVE Once'
  <2>1. tray' \cup half' \subseteq tray \cup half /\ UNCHANGED <<report, tick, seen>>
    BY <1>6 DEF DropEnd
  <2>2. QED BY <1>3, <2>1 DEF Once, At
<1>7. CASE NewDay BY <1>3, <1>7 DEF NewDay, fileVars, Once, At
<1>8. CASE UNCHANGED vars BY <1>3, <1>8 DEF vars, fileVars, Once, At
<1>9. QED BY <1>4, <1>5, <1>6, <1>7, <1>8 DEF Next

(* "A trigger is consumed by the wake it caused": for every set of         *)
(* sensors, checks and tickers, no text is shown to two turns that         *)
(* return, unless another ticker was about, a watchdog or an unlink        *)
(* failed, or a process ended.                                             *)
THEOREM NothingShownTwice == Spec => ShownOnce
<1> DEFINE Fresh ==
        \A t \in Ticker :
          At(t, "turn") /\ tick'[t].at = "consume"
              => tick[t].texts \cap seen = {} \/ odd > 0
<1>1. ASSUME IInv, OnceInv, [Next]_vars PROVE [Fresh]_vars
  <2> SUFFICES ASSUME NEW t \in Ticker, At(t, "turn"), ~(odd > 0)
               PROVE  tick[t].texts \cap seen = {}
    OBVIOUS
  <2>1. odd = 0 BY <1>1 DEF IInv, Types
  <2>2. t = Daemon BY <1>1, <2>1 DEF OnceInv, Once, At, NoTick
  <2>3. QED BY <1>1, <2>1, <2>2 DEF OnceInv, Once
<1>2. QED
  BY <1>1, InitIInv, StepIInv, OnceInit, OnceStep, PTL DEF Spec, ShownOnce

-----------------------------------------------------------------------------
(* The search index                                                        *)

Handling == {"compare", "delete", "read", "commit"}
Listing == {"file"} \cup Handling
Refreshing == {"collect"} \cup Listing
Step == Refreshing \cup {"idle", "prune", "answer", "fruitless"}

RunRecord ==
    [at : Step, force : BOOLEAN, known : [File -> Nat], todo : SUBSET File,
     seen : SUBSET File, hash : Nat, text : Nat, stale : SUBSET File, changed : SUBSET File]

SearchTypeOK ==
    /\ skill \in {"memory", "documents"}
    /\ files \in [File -> Nat]
    /\ index \in [File -> [hash : Nat, text : Nat]]
    /\ run \in [Run -> RunRecord]
    /\ bounds \in [edits : Nat, runs : Nat, kills : Nat, clears : Nat]

(* A number of an edit that f has, or had before what it has now.          *)
Was(v, f) ==
    /\ v # Absent /\ v <= bounds.edits
    /\ files[f] # Absent => v <= files[f]

(* A text is read after its hash was taken, so it is that text or a newer  *)
(* one: a recorded hash that still is the file's proves the text.          *)
Recording(hash, text, f) ==
    /\ Was(hash, f) /\ Was(text, f)
    /\ hash <= text
    /\ Readable(text)

Dated(f) ==
    /\ files[f] <= bounds.edits
    /\ index[f] = NoEntry \/ Recording(index[f].hash, index[f].text, f)

IndexInv == \A f \in File : Dated(f)

Fresh(f) == Found(f) = CurrentText(f)

(* What a run holds of the file it is at.                                  *)
AtFile(x, f) ==
    /\ f \in x.seen
    /\ Was(x.hash, f)
    /\ f \notin x.changed => x.hash = files[f]

ToCommit(x, f) ==
    /\ x.text = Absent \/ Recording(x.hash, x.text, f)
    /\ f \notin x.changed => x.text = CurrentText(f)

(* What documents read of the records when the run began.                  *)
KnownStill(x, f) ==
    /\ x.known[f] = Absent /\ files[f] = Absent => index[f] = NoEntry
    /\ x.known[f] = files[f] /\ files[f] # Absent => Fresh(f)

Listed(x, f) ==
    /\ f \in x.todo \cup x.seen <=> files[f] # Absent
    /\ f \notin x.todo /\ files[f] # Absent => Fresh(f)

Pruning(x, f) ==
    /\ f \in x.stale => files[f] = Absent
    /\ files[f] = Absent /\ f \notin x.stale => index[f] = NoEntry
    /\ files[f] # Absent => Fresh(f)

Unchanged(x, f) ==
    /\ x.at \in Refreshing /\ skill = "documents" => KnownStill(x, f)
    /\ x.at \in Listing => Listed(x, f)
    /\ x.at = "prune" => Pruning(x, f)
    /\ x.at = "answer" => Fresh(f)

Sound(x) ==
    /\ x.at \in Handling => x.todo # {} /\ AtFile(x, Min(x.todo))
    /\ x.at = "commit" => ToCommit(x, Min(x.todo))
    /\ \A f \in File \ x.changed : Unchanged(x, f)

(* A run takes over what was changed under the runs it finds under way.    *)
SameChanges == \A q, r \in Underway : run[q].changed = run[r].changed

FreshInv ==
    /\ SearchTypeOK
    /\ IndexInv
    /\ SameChanges
    /\ \A r \in Run : Sound(run[r])

-----------------------------------------------------------------------------
(* Types *)

(* The first of the files that are left is one of them.                    *)
LEMMA FirstIsLeft ==
    ASSUME NEW S \in SUBSET File, S # {}
    PROVE  Min(S) \in S
<1>1. S \in SUBSET Nat BY SearchIndexAssumption DEF File
<1>2. PICK m \in S : \A s \in S : ~(<<s, m>> \in OpToRel(<, Nat))
  BY <1>1, WFMin, NatLessThanWellFounded, Zenon
<1>3. \A s \in S : ~(s < m) BY <1>1, <1>2 DEF OpToRel
<1>4. \A s \in S : m <= s BY <1>1, <1>3
<1>5. QED BY <1>4 DEF Min

LEMMA IdleType == Idle \in RunRecord /\ Idle.at = "idle" /\ Idle.changed = {}
<1>1. [f \in File |-> Absent] \in [File -> Nat] BY DEF Absent
<1>2. Absent \in Nat BY DEF Absent
<1>3. QED BY <1>1, <1>2 DEF Idle, RunRecord, Step, Refreshing, Listing, Handling

(* A run that has ended, or goes on to prune or to answer, keeps only what *)
(* was changed under it.                                                   *)
LEMMA EndedType ==
    ASSUME SearchTypeOK, NEW r \in Run, NEW step \in {"idle", "prune", "answer", "fruitless"}
    PROVE  /\ Ended(r, step) \in RunRecord
           /\ Ended(r, step).at = step
           /\ step # "idle" => Ended(r, step).changed = run[r].changed
<1>1. run[r].changed \in SUBSET File BY DEF SearchTypeOK, RunRecord
<1>2. QED BY <1>1, IdleType DEF Ended, Idle, RunRecord, Step, Refreshing, Listing, Handling

(* Where a run goes next when it has not taken the file it was at.         *)
Skipped(r) ==
    [run[r] EXCEPT !.todo = @ \ {Current(r)}, !.at = "file", !.hash = Absent, !.text = Absent]

LEMMA SkippedType ==
    ASSUME SearchTypeOK, NEW r \in Run
    PROVE  /\ Skipped(r) \in RunRecord
           /\ Skip(r) => run' = [run EXCEPT ![r] = Skipped(r)]
           /\ Skipped(r).at = "file" /\ Skipped(r).known = run[r].known
           /\ Skipped(r).todo = run[r].todo \ {Current(r)}
           /\ Skipped(r).seen = run[r].seen /\ Skipped(r).changed = run[r].changed
<1>1. run[r] \in RunRecord BY DEF SearchTypeOK
<1>2. Absent \in Nat BY DEF Absent
<1>3. "file" \in Step BY DEF Step, Refreshing, Listing
<1>4. Skipped(r) \in RunRecord BY <1>1, <1>2, <1>3 DEF Skipped, RunRecord
<1>5. Skip(r) => run' = [run EXCEPT ![r] = Skipped(r)] BY <1>1 DEF Skip, Skipped, SearchTypeOK, RunRecord
<1>6. QED BY <1>1, <1>4, <1>5 DEF Skipped, RunRecord

(* The record that a step of r leaves it with.                             *)
Becomes(r, x) == run' = [run EXCEPT ![r] = x]

LEMMA CountedType ==
    ASSUME SearchTypeOK, NEW what \in {"edits", "runs", "kills", "clears"}, NEW limit, Counted(what, limit)
    PROVE  /\ bounds' \in [edits : Nat, runs : Nat, kills : Nat, clears : Nat]
           /\ what # "edits" => bounds'.edits = bounds.edits
           /\ what = "edits" => bounds'.edits = bounds.edits + 1
BY DEF SearchTypeOK, Counted

-----------------------------------------------------------------------------
(* What a step must show *)

(* What is true of a file is true as long as the file stays, and its entry *)
(* stays or is made right.                                                 *)
MadeRight(f) ==
    \/ index'[f] = index[f]
    \/ Fresh(f)' /\ (files[f] = Absent => index'[f] = NoEntry)

SameTexts ==
    /\ UNCHANGED <<skill, files>>
    /\ bounds'.edits = bounds.edits

LEMMA FreshKept ==
    ASSUME SameTexts, NEW f \in File, MadeRight(f)
    PROVE  /\ Fresh(f) => Fresh(f)'
           /\ files[f] = Absent /\ index[f] = NoEntry => index'[f] = NoEntry
<1>1. CASE index'[f] = index[f]
  BY <1>1 DEF SameTexts, Fresh, Found, CurrentText, Readable
<1>2. CASE index'[f] # index[f]
  BY <1>2 DEF MadeRight
<1>3. QED BY <1>1, <1>2

LEMMA RecordingKept ==
    ASSUME SameTexts, NEW f \in File
    PROVE  /\ \A v : Was(v, f)' <=> Was(v, f)
           /\ \A h, t : Recording(h, t, f)' <=> Recording(h, t, f)
           /\ CurrentText(f)' = CurrentText(f)
           /\ files'[f] = files[f] /\ skill' = skill
BY DEF SameTexts, Was, Recording, Readable, CurrentText

LEMMA UnchangedKept ==
    ASSUME SameTexts, NEW x, NEW f \in File, MadeRight(f), Unchanged(x, f)
    PROVE  Unchanged(x, f)'
<1>1. files'[f] = files[f] /\ skill' = skill BY RecordingKept
<1>2. Fresh(f) => Fresh(f)' BY FreshKept
<1>3. files[f] = Absent /\ index[f] = NoEntry => index'[f] = NoEntry BY FreshKept
<1>4. KnownStill(x, f) => KnownStill(x, f)' BY <1>1, <1>2, <1>3 DEF KnownStill
<1>5. Listed(x, f) => Listed(x, f)' BY <1>1, <1>2 DEF Listed
<1>6. Pruning(x, f) => Pruning(x, f)' BY <1>1, <1>2, <1>3 DEF Pruning
<1>7. QED BY <1>1, <1>2, <1>4, <1>5, <1>6 DEF Unchanged

LEMMA StillSound ==
    ASSUME SameTexts, NEW x \in RunRecord, Sound(x), \A f \in File \ x.changed : MadeRight(f)
    PROVE  Sound(x)'
<1>1. \A f \in File \ x.changed : Unchanged(x, f)'
  BY UnchangedKept DEF Sound
<1>2. CASE x.at \notin Handling
  <2>1. x.at # "commit" BY <1>2 DEF Handling
  <2>2. QED BY <1>1, <1>2, <2>1 DEF Sound
<1>3. CASE x.at \in Handling
  <2>1. x.todo # {} /\ AtFile(x, Min(x.todo)) BY <1>3 DEF Sound
  <2>2. PICK f \in File : f = Min(x.todo)
    <3>1. x.todo \in SUBSET File BY DEF RunRecord
    <3>2. Min(x.todo) \in x.todo BY <2>1, <3>1, FirstIsLeft
    <3>3. QED BY <3>1, <3>2
  <2>3. AtFile(x, f)' BY <2>1, <2>2, RecordingKept DEF AtFile
  <2>4. x.at = "commit" => ToCommit(x, f)'
    <3>1. x.at = "commit" => ToCommit(x, f) BY <2>2 DEF Sound
    <3>2. QED BY <3>1, RecordingKept DEF ToCommit
  <2>5. QED BY <1>1, <2>1, <2>2, <2>3, <2>4 DEF Sound
<1>4. QED BY <1>2, <1>3

LEMMA DatesKept ==
    ASSUME SameTexts, NEW f \in File, index'[f] = index[f], Dated(f)
    PROVE  Dated(f)'
BY RecordingKept DEF Dated, SameTexts

(* One step of one run that leaves the files as they are.                  *)
LEMMA RunStep ==
    ASSUME FreshInv, NEW r \in Run, NEW x \in RunRecord, Becomes(r, x),
           SameTexts,
           bounds' \in [edits : Nat, runs : Nat, kills : Nat, clears : Nat],
           index' \in [File -> [hash : Nat, text : Nat]],
           x.at # "idle" => \A q \in Underway \ {r} : run[q].changed = x.changed,
           Sound(x)',
           \A f \in File : Dated(f)',
           \A q \in Underway \ {r}, f \in File : f \notin run[q].changed => MadeRight(f)
    PROVE  FreshInv'
<1>1. SearchTypeOK'
  <2>1. run' \in [Run -> RunRecord] BY DEF FreshInv, SearchTypeOK, Becomes
  <2>2. QED BY <2>1 DEF FreshInv, SearchTypeOK, SameTexts
<1>2. run'[r] = x /\ \A q \in Run \ {r} : run'[q] = run[q]
  BY DEF FreshInv, SearchTypeOK, Becomes
<1>3. SameChanges'
  <2>1. Underway' \subseteq Underway \cup {r} BY <1>2 DEF Underway, RunAt
  <2>2. r \in Underway' => x.at # "idle" BY <1>2 DEF Underway, RunAt
  <2>3. \A p, q \in Underway \ {r} : run[p].changed = run[q].changed
    BY DEF FreshInv, SameChanges
  <2>4. SUFFICES ASSUME NEW p \in Underway', NEW q \in Underway'
                 PROVE  run'[p].changed = run'[q].changed
    BY DEF SameChanges
  <2>5. \A u \in Underway' : u \in Run BY DEF Underway
  <2>6. CASE p = r /\ q = r BY <2>6
  <2>7. CASE p = r /\ q # r BY <1>2, <2>1, <2>2, <2>5, <2>7
  <2>8. CASE p # r /\ q = r BY <1>2, <2>1, <2>2, <2>5, <2>8
  <2>9. CASE p # r /\ q # r BY <1>2, <2>1, <2>3, <2>5, <2>9
  <2>10. QED BY <2>6, <2>7, <2>8, <2>9
<1>4. IndexInv' BY DEF IndexInv, File
<1>5. ASSUME NEW q \in Run PROVE Sound(run[q])'
  <2>1. PICK z \in RunRecord : z = run'[q] BY <1>1 DEF SearchTypeOK
  <2>2. Sound(z)'
    <3>1. CASE q = r BY <1>2, <2>1, <3>1
    <3>2. CASE q # r /\ q \notin Underway
      <4>1. z.at = "idle" BY <1>2, <2>1, <3>2 DEF Underway, RunAt
      <4>2. QED BY <4>1 DEF Sound, Unchanged, Refreshing, Listing, Handling
    <3>3. CASE q # r /\ q \in Underway
      <4>1. z = run[q] BY <1>2, <2>1, <3>3
      <4>2. Sound(z) BY <4>1 DEF FreshInv
      <4>3. \A f \in File \ z.changed : MadeRight(f) BY <3>3, <4>1
      <4>4. QED BY <4>2, <4>3, StillSound
    <3>4. QED BY <3>1, <3>2, <3>3
  <2>3. QED BY <2>1, <2>2 DEF Sound, Unchanged, KnownStill, Listed, Pruning, AtFile, ToCommit
<1>6. QED BY <1>1, <1>3, <1>4, <1>5 DEF FreshInv

(* And one that leaves the index as it is, too.                            *)
LEMMA QuietStep ==
    ASSUME FreshInv, NEW r \in Run, NEW x \in RunRecord, Becomes(r, x),
           UNCHANGED <<skill, files, index>>, bounds'.edits = bounds.edits,
           bounds' \in [edits : Nat, runs : Nat, kills : Nat, clears : Nat],
           x.at # "idle" => \A q \in Underway \ {r} : run[q].changed = x.changed,
           Sound(x)
    PROVE  FreshInv'
<1>1. SameTexts BY DEF SameTexts
<1>2. \A f \in File : MadeRight(f) BY DEF MadeRight
<1>3. Sound(x)' BY <1>1, <1>2, StillSound
<1>4. \A f \in File : Dated(f)' BY <1>1, DatesKept DEF FreshInv, IndexInv
<1>5. index' \in [File -> [hash : Nat, text : Nat]] BY DEF FreshInv, SearchTypeOK
<1>6. QED BY <1>1, <1>2, <1>3, <1>4, <1>5, RunStep

LEMMA OneSetOfChanges ==
    ASSUME FreshInv, NEW r \in Underway
    PROVE  \A q \in Underway \ {r} : run[q].changed = run[r].changed
BY DEF FreshInv, SameChanges

-----------------------------------------------------------------------------
(* Every step of a run keeps the invariant *)

LEMMA IdleIsSound == Sound(Idle)
BY IdleType DEF Sound, Unchanged, Refreshing, Listing, Handling

LEMMA RunType ==
    ASSUME FreshInv, NEW r \in Run
    PROVE  run[r] \in RunRecord /\ Sound(run[r])
BY DEF FreshInv, SearchTypeOK

LEMMA IsUnderway ==
    ASSUME FreshInv, NEW r \in Run, run[r].at # "idle"
    PROVE  r \in Underway
BY DEF Underway, RunAt

(* A run that gives up, is killed, or has nothing left to say.             *)
LEMMA EndKeeps ==
    ASSUME FreshInv, NEW r \in Run, NEW step \in {"idle", "fruitless"}, Finish(r, step), run[r].at # "idle",
           UNCHANGED <<skill, files, index>>, bounds'.edits = bounds.edits,
           bounds' \in [edits : Nat, runs : Nat, kills : Nat, clears : Nat]
    PROVE  FreshInv'
<1>1. PICK x \in RunRecord : x = Ended(r, step) BY EndedType DEF FreshInv
<1>2. x.at = step /\ (step # "idle" => x.changed = run[r].changed)
  BY <1>1, EndedType DEF FreshInv
<1>3. Sound(x) BY <1>2 DEF Sound, Unchanged, Refreshing, Listing, Handling
<1>4. Becomes(r, x) BY <1>1 DEF Finish, Becomes
<1>5. x.at # "idle" => \A q \in Underway \ {r} : run[q].changed = x.changed
  BY <1>2, IsUnderway, OneSetOfChanges
<1>6. QED BY <1>3, <1>4, <1>5, QuietStep

LEMMA BeginKeeps ==
    ASSUME FreshInv, NEW r \in Run, NEW force \in BOOLEAN, Begin(r, force)
    PROVE  FreshInv'
<1> DEFINE known == IF skill = "documents" THEN [f \in File |-> index[f].hash] ELSE Idle.known
           changed == UNION {run[q].changed : q \in Underway}
           y == [Idle EXCEPT !.at = "collect", !.force = force, !.known = known, !.changed = changed]
<1>1. Becomes(r, y) BY IdleType DEF Begin, Becomes, RunRecord
<1>2. known \in [File -> Nat]
  <2>1. Idle.known \in [File -> Nat] BY IdleType DEF RunRecord
  <2>2. \A f \in File : index[f].hash \in Nat BY DEF FreshInv, SearchTypeOK
  <2>3. QED BY <2>1, <2>2
<1>3. changed \subseteq File
  <2>1. \A q \in Underway : run[q].changed \subseteq File BY DEF FreshInv, SearchTypeOK, RunRecord, Underway
  <2>2. QED BY <2>1
<1>4. \A q \in Underway : run[q].changed = changed
  BY DEF FreshInv, SameChanges
<1>5. "collect" \in Step BY DEF Step, Refreshing
<1> HIDE DEF known, changed
<1>6. y \in RunRecord /\ y.at = "collect" /\ y.known = known /\ y.changed = changed
  BY <1>2, <1>3, <1>5, IdleType DEF RunRecord
<1> HIDE DEF y
<1>7. PICK x \in RunRecord : x = y BY <1>6
<1>8. ASSUME NEW f \in File, skill = "documents" PROVE KnownStill(x, f)
  <2>1. x.known[f] = index[f].hash BY <1>6, <1>7, <1>8 DEF known
  <2>2. Dated(f) BY DEF FreshInv, IndexInv
  <2>3. x.known[f] = Absent => index[f] = NoEntry
    BY <2>1, <2>2 DEF Dated, Recording, Was
  <2>4. ASSUME x.known[f] = files[f], files[f] # Absent PROVE Fresh(f)
    <3>1. index[f] # NoEntry
      <4>1. NoEntry.hash = Absent BY DEF NoEntry
      <4>2. QED BY <2>1, <2>4, <4>1
    <3>2. Recording(index[f].hash, index[f].text, f) BY <2>2, <3>1 DEF Dated
    <3>3. index[f].hash \in Nat /\ index[f].text \in Nat /\ files[f] \in Nat BY DEF FreshInv, SearchTypeOK
    <3>4. index[f].text = files[f] BY <2>1, <2>4, <3>2, <3>3 DEF Recording, Was
    <3>5. Readable(files[f]) BY <3>2, <3>4 DEF Recording
    <3>6. QED BY <3>1, <3>4, <3>5 DEF Fresh, Found, CurrentText
  <2>5. QED BY <2>3, <2>4 DEF KnownStill
<1>9. Sound(x)
  BY <1>6, <1>7, <1>8 DEF Sound, Unchanged, Refreshing, Listing, Handling
<1>10. \A q \in Underway \ {r} : run[q].changed = x.changed BY <1>4, <1>6, <1>7
<1>11. UNCHANGED <<skill, files, index>> /\ Counted("runs", MaxRuns) BY DEF Begin
<1>12. bounds'.edits = bounds.edits /\ bounds' \in [edits : Nat, runs : Nat, kills : Nat, clears : Nat]
  BY <1>11, CountedType DEF FreshInv
<1>13. Becomes(r, x) BY <1>1, <1>7
<1>14. QED BY <1>9, <1>10, <1>11, <1>12, <1>13, QuietStep

LEMMA CollectKeeps ==
    ASSUME FreshInv, NEW r \in Run, CollectFiles(r)
    PROVE  FreshInv'
<1> DEFINE listed == {f \in File : files[f] # Absent}
<1>1. UNCHANGED <<skill, files, index>> /\ bounds'.edits = bounds.edits
      /\ bounds' \in [edits : Nat, runs : Nat, kills : Nat, clears : Nat]
  BY DEF CollectFiles, FreshInv, SearchTypeOK
<1>2. run[r].at = "collect" BY DEF CollectFiles, RunAt
<1>3. CASE Finish(r, "fruitless")
  BY <1>1, <1>2, <1>3, EndKeeps
<1>4. CASE run' = [run EXCEPT ![r].todo = listed, ![r].at = "file",
                              ![r].seen = IF skill = "memory" THEN listed ELSE {}]
  <2> DEFINE shown == IF skill = "memory" THEN listed ELSE {}
             y == [run[r] EXCEPT !.todo = listed, !.at = "file", !.seen = shown]
  <2>1. run[r] \in RunRecord /\ Sound(run[r]) BY RunType
  <2>2. Becomes(r, y) BY <1>4, <2>1 DEF Becomes, RunRecord, FreshInv, SearchTypeOK
  <2>3. listed \subseteq File /\ shown \subseteq listed OBVIOUS
  <2>4. "file" \in Step BY DEF Step, Refreshing, Listing
  <2>4a. \A f \in File : f \in listed <=> files[f] # Absent OBVIOUS
  <2> HIDE DEF listed, shown
  <2>5. /\ y \in RunRecord /\ y.at = "file" /\ y.todo = listed /\ y.seen = shown
        /\ y.changed = run[r].changed /\ y.known = run[r].known
    BY <2>1, <2>3, <2>4 DEF RunRecord
  <2> HIDE DEF y
  <2>6. PICK x \in RunRecord : x = y BY <2>5
  <2>7. ASSUME NEW f \in File \ x.changed PROVE Unchanged(x, f)
    <3>1. Unchanged(run[r], f) BY <2>1, <2>5, <2>6 DEF Sound
    <3>2. skill = "documents" => KnownStill(x, f)
      BY <1>2, <2>5, <2>6, <3>1 DEF Unchanged, KnownStill, Refreshing
    <3>3. Listed(x, f) BY <2>3, <2>4a, <2>5, <2>6 DEF Listed
    <3>4. QED BY <2>5, <2>6, <3>2, <3>3 DEF Unchanged
  <2>8. Sound(x) BY <2>5, <2>6, <2>7 DEF Sound, Handling
  <2>9. \A q \in Underway \ {r} : run[q].changed = x.changed
    BY <1>2, <2>5, <2>6, IsUnderway, OneSetOfChanges
  <2>10. Becomes(r, x) BY <2>2, <2>6
  <2>11. QED BY <1>1, <2>8, <2>9, <2>10, QuietStep
<1>5. QED BY <1>3, <1>4 DEF CollectFiles

(* The next file, which r still has to do.                                 *)
LEMMA CurrentType ==
    ASSUME FreshInv, NEW r \in Run, run[r].todo # {}
    PROVE  Current(r) \in File /\ Current(r) \in run[r].todo
<1>1. run[r].todo \in SUBSET File BY RunType DEF RunRecord
<1>2. QED BY <1>1, FirstIsLeft DEF Current

(* Leaving the file it was at, which a run may do when it is right.        *)
LEMMA SkipIsSound ==
    ASSUME FreshInv, NEW r \in Run, run[r].at \in Handling,
           Current(r) \notin run[r].changed =>
               (files[Current(r)] # Absent => Fresh(Current(r)))
    PROVE  Sound(Skipped(r))
<1>1. run[r] \in RunRecord /\ Sound(run[r]) BY RunType
<1>2. run[r].todo # {} /\ AtFile(run[r], Current(r)) BY <1>1 DEF Sound, Current
<1>3. PICK x \in RunRecord : x = Skipped(r) BY SkippedType DEF FreshInv
<1>4. /\ x.at = "file" /\ x.known = run[r].known /\ x.todo = run[r].todo \ {Current(r)}
      /\ x.seen = run[r].seen /\ x.changed = run[r].changed
  BY <1>3, SkippedType DEF FreshInv
<1>5. ASSUME NEW f \in File \ x.changed PROVE Unchanged(x, f)
  <2>1. Unchanged(run[r], f) BY <1>1, <1>4 DEF Sound
  <2>2. skill = "documents" => KnownStill(x, f)
    BY <1>4, <2>1 DEF Unchanged, KnownStill, Refreshing, Listing
  <2>3. Listed(run[r], f) BY <2>1 DEF Unchanged, Listing
  <2>4. Listed(x, f)
    <3>1. f \in x.todo \cup x.seen <=> f \in run[r].todo \cup run[r].seen
      BY <1>2, <1>4 DEF AtFile
    <3>2. f \notin x.todo => f \notin run[r].todo \/ f = Current(r) BY <1>4
    <3>3. QED BY <1>4, <2>3, <3>1, <3>2 DEF Listed
  <2>5. QED BY <1>4, <2>2, <2>4 DEF Unchanged
<1>6. Sound(x) BY <1>4, <1>5 DEF Sound, Handling
<1>7. QED BY <1>3, <1>6

LEMMA FileHashKeeps ==
    ASSUME FreshInv, NEW r \in Run, FileHash(r)
    PROVE  FreshInv'
<1> DEFINE f == Current(r)
<1>1. UNCHANGED <<skill, files, index>> /\ bounds'.edits = bounds.edits
      /\ bounds' \in [edits : Nat, runs : Nat, kills : Nat, clears : Nat]
  BY DEF FileHash, FreshInv, SearchTypeOK
<1>2. run[r].at = "file" /\ run[r].todo # {} BY DEF FileHash, RunAt
<1>3. run[r] \in RunRecord /\ Sound(run[r]) BY RunType
<1>4. f \in File /\ f \in run[r].todo BY <1>2, CurrentType
<1>5. \A g \in File \ run[r].changed : Unchanged(run[r], g) /\ Listed(run[r], g)
  BY <1>2, <1>3 DEF Sound, Unchanged, Listing
<1>6. \A q \in Underway \ {r} : run[q].changed = run[r].changed
  BY <1>2, IsUnderway, OneSetOfChanges
<1>7. CASE files[f] # Absent
  <2> DEFINE shown == run[r].seen \cup {f}
             y == [run[r] EXCEPT !.hash = files[f], !.seen = shown, !.at = "compare"]
  <2>1. run' = [run EXCEPT ![r].hash = files[f], ![r].seen = @ \cup {f}, ![r].at = "compare"]
    BY <1>7 DEF FileHash
  <2>2. Becomes(r, y) BY <1>3, <2>1 DEF Becomes, RunRecord, FreshInv, SearchTypeOK
  <2>3. shown \subseteq File /\ files[f] \in Nat /\ "compare" \in Step
    BY <1>3, <1>4 DEF RunRecord, FreshInv, SearchTypeOK, Step, Refreshing, Listing, Handling
  <2> HIDE DEF shown, f
  <2>4. /\ y \in RunRecord /\ y.at = "compare" /\ y.todo = run[r].todo /\ y.seen = shown
        /\ y.changed = run[r].changed /\ y.known = run[r].known /\ y.hash = files[f]
    BY <1>3, <2>3 DEF RunRecord
  <2> HIDE DEF y
  <2>5. PICK x \in RunRecord : x = y BY <2>4
  <2>6. ASSUME NEW g \in File \ x.changed PROVE Unchanged(x, g)
    <3>1. Unchanged(run[r], g) /\ Listed(run[r], g) BY <1>5, <2>4, <2>5
    <3>2. skill = "documents" => KnownStill(x, g)
      BY <1>2, <2>4, <2>5, <3>1 DEF Unchanged, KnownStill, Refreshing, Listing
    <3>3. Listed(x, g)
      BY <1>4, <2>4, <2>5, <3>1 DEF Listed, shown
    <3>4. QED BY <2>4, <2>5, <3>2, <3>3 DEF Unchanged
  <2>7. AtFile(x, f)
    <3>1. f \in x.seen BY <2>4, <2>5 DEF shown
    <3>2. Was(x.hash, f)
      <4>1. files[f] \in Nat /\ files[f] <= bounds.edits
        BY <1>4, <2>3 DEF FreshInv, IndexInv, Dated
      <4>2. QED BY <1>7, <2>4, <2>5, <4>1 DEF Was
    <3>3. QED BY <2>4, <2>5, <3>1, <3>2 DEF AtFile
  <2>8. Sound(x)
    <3>1. f = Min(x.todo) BY <2>4, <2>5 DEF f, Current
    <3>2. x.todo # {} /\ AtFile(x, Min(x.todo)) BY <1>2, <2>4, <2>5, <2>7, <3>1
    <3>3. QED BY <2>4, <2>5, <2>6, <3>2 DEF Sound
  <2>9. QED BY <1>1, <1>6, <2>2, <2>4, <2>5, <2>8, QuietStep
<1>8. CASE files[f] = Absent /\ skill = "memory"
  <2>1. Finish(r, "idle") BY <1>8 DEF FileHash, Fail
  <2>2. QED BY <1>1, <1>2, <2>1, EndKeeps
<1>9. CASE files[f] = Absent /\ skill = "documents"
  <2>1. Becomes(r, Skipped(r)) BY <1>9, SkippedType DEF FileHash, Becomes, FreshInv
  <2>2. PICK x \in RunRecord : x = Skipped(r) BY SkippedType DEF FreshInv
  <2>3. /\ x.at = "file" /\ x.known = run[r].known /\ x.todo = run[r].todo \ {f}
        /\ x.seen = run[r].seen /\ x.changed = run[r].changed
    BY <2>2, SkippedType DEF FreshInv
  <2>4. ASSUME NEW g \in File \ x.changed PROVE Unchanged(x, g)
    <3>1. Unchanged(run[r], g) /\ Listed(run[r], g) BY <1>5, <2>3
    <3>2. skill = "documents" => KnownStill(x, g)
      BY <1>2, <2>3, <3>1 DEF Unchanged, KnownStill, Refreshing, Listing
    <3>3. g # f BY <1>4, <1>9, <3>1 DEF Listed
    <3>4. Listed(x, g) BY <2>3, <3>1, <3>3 DEF Listed
    <3>5. QED BY <2>3, <3>2, <3>4 DEF Unchanged
  <2>5. Sound(x) BY <2>3, <2>4 DEF Sound, Handling
  <2>6. QED BY <1>1, <1>6, <2>1, <2>2, <2>3, <2>5, QuietStep
<1>10. skill \in {"memory", "documents"} BY DEF FreshInv, SearchTypeOK
<1>11. QED BY <1>7, <1>8, <1>9, <1>10

(* A run that goes on with its file, holding what it held, and a text.     *)
LEMMA GoesOn ==
    ASSUME FreshInv, NEW r \in Run, run[r].at \in Handling,
           NEW at \in Handling, NEW text \in Nat,
           at = "commit" => ToCommit([run[r] EXCEPT !.at = at, !.text = text], Current(r)),
           Becomes(r, [run[r] EXCEPT !.at = at, !.text = text]),
           UNCHANGED <<skill, files, index>>, bounds'.edits = bounds.edits,
           bounds' \in [edits : Nat, runs : Nat, kills : Nat, clears : Nat]
    PROVE  FreshInv'
<1> DEFINE y == [run[r] EXCEPT !.at = at, !.text = text]
<1>1. run[r] \in RunRecord /\ Sound(run[r]) BY RunType
<1>2. at \in Step BY DEF Step, Refreshing, Listing
<1>3. /\ y \in RunRecord /\ y.at = at /\ y.text = text /\ y.todo = run[r].todo
      /\ y.seen = run[r].seen /\ y.changed = run[r].changed /\ y.known = run[r].known
      /\ y.hash = run[r].hash
  BY <1>1, <1>2 DEF RunRecord
<1>4. at = "commit" => ToCommit(y, Current(r)) OBVIOUS
<1>5. Becomes(r, y) OBVIOUS
<1> HIDE DEF y
<1>6. PICK x \in RunRecord : x = y BY <1>3
<1>7. x.todo # {} /\ AtFile(x, Min(x.todo))
  <2>1. run[r].todo # {} /\ AtFile(run[r], Min(run[r].todo)) BY <1>1 DEF Sound
  <2>2. x.todo = run[r].todo BY <1>3, <1>6
  <2>3. QED BY <1>3, <1>6, <2>1, <2>2 DEF AtFile
<1>8. ASSUME NEW f \in File \ x.changed PROVE Unchanged(x, f)
  <2>1. Unchanged(run[r], f) BY <1>1, <1>3, <1>6 DEF Sound
  <2>2. skill = "documents" => KnownStill(x, f)
    BY <1>3, <1>6, <2>1 DEF Unchanged, KnownStill, Refreshing, Listing
  <2>3. Listed(x, f) BY <1>3, <1>6, <2>1 DEF Unchanged, Listed, Listing
  <2>4. QED BY <1>3, <1>6, <2>2, <2>3 DEF Unchanged, Handling
<1>9. x.at = "commit" => ToCommit(x, Min(x.todo)) BY <1>3, <1>4, <1>6 DEF Current
<1>10. Sound(x) BY <1>7, <1>8, <1>9 DEF Sound
<1>11. \A q \in Underway \ {r} : run[q].changed = x.changed
  <2>1. run[r].at # "idle" BY DEF Handling
  <2>2. QED BY <1>3, <1>6, <2>1, IsUnderway, OneSetOfChanges
<1>12. QED BY <1>5, <1>6, <1>10, <1>11, QuietStep

LEMMA CompareKeeps ==
    ASSUME FreshInv, NEW r \in Run, CompareHash(r)
    PROVE  FreshInv'
<1> DEFINE f == Current(r)
<1>1. UNCHANGED <<skill, files, index>> /\ bounds'.edits = bounds.edits
      /\ bounds' \in [edits : Nat, runs : Nat, kills : Nat, clears : Nat]
  BY DEF CompareHash, FreshInv, SearchTypeOK
<1>2. run[r].at = "compare" BY DEF CompareHash, RunAt
<1>3. run[r].at \in Handling BY <1>2 DEF Handling
<1>4. run[r] \in RunRecord /\ Sound(run[r]) BY RunType
<1>5. run[r].todo # {} /\ AtFile(run[r], f) BY <1>3, <1>4 DEF Sound, Current
<1>6. f \in File BY <1>5, CurrentType
<1>7. CASE run[r].hash = Recorded(r) /\ ~run[r].force
  <2>1. ASSUME f \notin run[r].changed, files[f] # Absent PROVE Fresh(f)
    <3>1. run[r].hash = files[f] BY <1>5, <2>1 DEF AtFile
    <3>2. CASE skill = "documents"
      <4>1. run[r].known[f] = files[f] BY <1>7, <3>1, <3>2 DEF Recorded
      <4>2. Unchanged(run[r], f) BY <1>4, <1>6, <2>1 DEF Sound
      <4>3. KnownStill(run[r], f) BY <1>3, <3>2, <4>2 DEF Unchanged, Refreshing, Listing
      <4>4. QED BY <2>1, <4>1, <4>3 DEF KnownStill
    <3>3. CASE skill = "memory"
      <4>1. index[f].hash = files[f] BY <1>7, <3>1, <3>3 DEF Recorded
      <4>2. Dated(f) BY <1>6 DEF FreshInv, IndexInv
      <4>3. index[f] # NoEntry
        <5>1. NoEntry.hash = Absent BY DEF NoEntry
        <5>2. QED BY <2>1, <4>1, <5>1
      <4>4. Recording(index[f].hash, index[f].text, f) BY <4>2, <4>3 DEF Dated
      <4>5. index[f].hash \in Nat /\ index[f].text \in Nat /\ files[f] \in Nat
        BY <1>6 DEF FreshInv, SearchTypeOK
      <4>6. index[f].text = files[f] BY <2>1, <4>1, <4>4, <4>5 DEF Recording, Was
      <4>7. Readable(files[f]) BY <4>4, <4>6 DEF Recording
      <4>8. QED BY <4>3, <4>6, <4>7 DEF Fresh, Found, CurrentText
    <3>4. skill \in {"memory", "documents"} BY DEF FreshInv, SearchTypeOK
    <3>5. QED BY <3>2, <3>3, <3>4
  <2>2. Becomes(r, Skipped(r)) BY <1>7, SkippedType DEF CompareHash, Becomes, FreshInv
  <2>3. Sound(Skipped(r)) BY <1>3, <2>1, SkipIsSound
  <2>4. PICK x \in RunRecord : x = Skipped(r) BY SkippedType DEF FreshInv
  <2>5. \A q \in Underway \ {r} : run[q].changed = x.changed
    BY <1>2, <2>4, SkippedType, IsUnderway, OneSetOfChanges DEF FreshInv
  <2>6. QED BY <1>1, <2>2, <2>3, <2>4, <2>5, QuietStep
<1>8. CASE ~(run[r].hash = Recorded(r) /\ ~run[r].force)
  <2>1. run' = [run EXCEPT ![r].at = "delete"] BY <1>8 DEF CompareHash
  <2>2. [run[r] EXCEPT !.at = "delete"] = [run[r] EXCEPT !.at = "delete", !.text = run[r].text]
    BY <1>4 DEF RunRecord
  <2>3. Becomes(r, [run[r] EXCEPT !.at = "delete", !.text = run[r].text])
    BY <2>1, <2>2 DEF Becomes, FreshInv, SearchTypeOK
  <2>4. "delete" \in Handling /\ run[r].text \in Nat BY <1>4 DEF Handling, RunRecord
  <2>5. QED BY <1>1, <1>3, <2>3, <2>4, GoesOn
<1>9. QED BY <1>7, <1>8

LEMMA DeleteKeeps ==
    ASSUME FreshInv, NEW r \in Run, DeleteRows(r)
    PROVE  FreshInv'
<1>1. UNCHANGED <<skill, files, index>> /\ bounds'.edits = bounds.edits
      /\ bounds' \in [edits : Nat, runs : Nat, kills : Nat, clears : Nat]
  BY DEF DeleteRows, FreshInv, SearchTypeOK
<1>2. run[r].at \in Handling BY DEF DeleteRows, RunAt, Handling
<1>3. run[r] \in RunRecord BY RunType
<1>4. [run[r] EXCEPT !.at = "read"] = [run[r] EXCEPT !.at = "read", !.text = run[r].text]
  BY <1>3 DEF RunRecord
<1>5. Becomes(r, [run[r] EXCEPT !.at = "read", !.text = run[r].text])
  BY <1>4 DEF DeleteRows, Becomes, FreshInv, SearchTypeOK
<1>6. "read" \in Handling /\ run[r].text \in Nat BY <1>3 DEF Handling, RunRecord
<1>7. QED BY <1>1, <1>2, <1>5, <1>6, GoesOn

LEMMA ReadKeeps ==
    ASSUME FreshInv, NEW r \in Run, ReadText(r)
    PROVE  FreshInv'
<1> DEFINE f == Current(r)
           text == IF Readable(files[f]) THEN files[f] ELSE Absent
           y == [run[r] EXCEPT !.at = "commit", !.text = text]
<1>1. UNCHANGED <<skill, files, index>> /\ bounds'.edits = bounds.edits
      /\ bounds' \in [edits : Nat, runs : Nat, kills : Nat, clears : Nat]
  BY DEF ReadText, FreshInv, SearchTypeOK
<1>2. run[r].at = "read" /\ run[r].at \in Handling BY DEF ReadText, RunAt, Handling
<1>3. run[r] \in RunRecord /\ Sound(run[r]) BY RunType
<1>4. run[r].todo # {} /\ AtFile(run[r], f) BY <1>2, <1>3 DEF Sound, Current
<1>5. f \in File BY <1>4, CurrentType
<1>6. CASE Readable(files[f]) \/ skill = "documents"
  <2>1. run' = [run EXCEPT ![r].text = text, ![r].at = "commit"]
    BY <1>6 DEF ReadText
  <2>2. Becomes(r, y) BY <1>3, <2>1 DEF Becomes, RunRecord, FreshInv, SearchTypeOK
  <2>3. files[f] \in Nat /\ text \in Nat BY <1>5 DEF FreshInv, SearchTypeOK, Absent
  <2>4. ToCommit(y, f)
    <3>1. y.text = text /\ y.hash = run[r].hash BY <1>3 DEF RunRecord
    <3>2. text = CurrentText(f) BY DEF CurrentText
    <3>3. ASSUME text # Absent PROVE Recording(run[r].hash, text, f)
      <4>1. text = files[f] /\ Readable(text) BY <3>3
      <4>2. Was(run[r].hash, f) BY <1>4 DEF AtFile
      <4>3. files[f] # Absent BY <3>3, <4>1
      <4>4. files[f] <= bounds.edits BY <1>5 DEF FreshInv, IndexInv, Dated
      <4>5. Was(text, f) /\ run[r].hash <= text
        BY <2>3, <4>1, <4>2, <4>3, <4>4 DEF Was
      <4>6. QED BY <4>1, <4>2, <4>5 DEF Recording
    <3>4. QED BY <3>1, <3>2, <3>3 DEF ToCommit
  <2>5. "commit" \in Handling BY DEF Handling
  <2> HIDE DEF text
  <2>6. QED BY <1>1, <1>2, <2>2, <2>3, <2>4, <2>5, GoesOn
<1>7. CASE ~(Readable(files[f]) \/ skill = "documents")
  <2>1. Finish(r, "idle") BY <1>7 DEF ReadText, Fail
  <2>2. QED BY <1>1, <1>2, <2>1, EndKeeps
<1>8. QED BY <1>6, <1>7

LEMMA CommitKeeps ==
    ASSUME FreshInv, NEW r \in Run, CommitFile(r)
    PROVE  FreshInv'
<1>1. run[r].at = "commit" /\ run[r].at \in Handling BY DEF CommitFile, RunAt, Handling
<1>2. run[r] \in RunRecord /\ Sound(run[r]) BY RunType
<1>3. run[r].todo # {} BY <1>1, <1>2 DEF Sound
<1>4. PICK f \in File : f = Current(r) BY <1>3, CurrentType
<1>5. AtFile(run[r], f) /\ ToCommit(run[r], f) /\ f \in run[r].todo
  BY <1>1, <1>2, <1>3, <1>4, CurrentType DEF Sound, Current
<1> DEFINE record == IF run[r].text = Absent THEN NoEntry
                    ELSE [hash |-> run[r].hash, text |-> run[r].text]
<1>6. /\ SameTexts
      /\ bounds' \in [edits : Nat, runs : Nat, kills : Nat, clears : Nat]
      /\ index' = [index EXCEPT ![f] = record]
      /\ Skip(r)
  BY <1>4 DEF CommitFile, FreshInv, SearchTypeOK, SameTexts
<1>7. record \in [hash : Nat, text : Nat]
  BY <1>2 DEF RunRecord, NoEntry, Absent
<1>8. index' \in [File -> [hash : Nat, text : Nat]]
  BY <1>6, <1>7 DEF FreshInv, SearchTypeOK
<1>9. index'[f] = record /\ \A g \in File \ {f} : index'[g] = index[g]
  BY <1>6, <1>4 DEF FreshInv, SearchTypeOK
<1>10. record = NoEntry \/ (record.text = run[r].text /\ record.hash = run[r].hash /\ run[r].text # Absent)
  OBVIOUS
<1>11. run[r].text = Absent => record = NoEntry
  OBVIOUS
<1>12. record = NoEntry => run[r].text = Absent
  <2>1. NoEntry.text = Absent BY DEF NoEntry
  <2>2. QED BY <2>1
<1> HIDE DEF record
<1>13. Dated(f)'
  <2>1. run[r].text # Absent => Recording(run[r].hash, run[r].text, f) BY <1>5 DEF ToCommit
  <2>2. PICK h \in Nat, t \in Nat : h = run[r].hash /\ t = run[r].text BY <1>2 DEF RunRecord
  <2>3. t # Absent => Recording(h, t, f)' BY <1>6, <1>4, <2>1, <2>2, RecordingKept
  <2>4. index'[f] = NoEntry \/ (index'[f].hash = h /\ index'[f].text = t /\ t # Absent)
    BY <1>9, <1>10, <2>2
  <2>5. files'[f] <= bounds'.edits
    BY <1>6, <1>4 DEF SameTexts, FreshInv, IndexInv, Dated
  <2>6. CASE index'[f] = NoEntry BY <2>5, <2>6 DEF Dated
  <2>7. CASE index'[f].hash = h /\ index'[f].text = t /\ t # Absent
    <3>1. Recording(h, t, f)' BY <2>3, <2>7
    <3>2. Recording(index[f].hash, index[f].text, f)'
      BY <2>7, <3>1 DEF Recording, Was
    <3>3. QED BY <2>5, <3>2 DEF Dated
  <2>8. QED BY <2>4, <2>6, <2>7
<1>14. \A g \in File : Dated(g)'
  BY <1>6, <1>9, <1>13, DatesKept DEF FreshInv, IndexInv
<1>15. ASSUME f \notin run[r].changed PROVE Fresh(f)' /\ files[f] # Absent
  <2>1. run[r].text = CurrentText(f) BY <1>5, <1>15 DEF ToCommit
  <2>2. CurrentText(f)' = CurrentText(f) BY <1>6, <1>4, RecordingKept
  <2>3. Found(f)' = run[r].text
    <3>1. CASE record = NoEntry BY <1>9, <1>12, <3>1 DEF Found
    <3>2. CASE record # NoEntry BY <1>9, <1>10, <3>2 DEF Found
    <3>3. QED BY <3>1, <3>2
  <2>4. Listed(run[r], f) BY <1>1, <1>2, <1>15 DEF Sound, Unchanged, Listing
  <2>5. QED BY <1>5, <2>1, <2>2, <2>3, <2>4 DEF Fresh, Listed
<1>16. \A g \in File : g \notin run[r].changed => MadeRight(g)
  BY <1>9, <1>15 DEF MadeRight
<1>17. PICK x \in RunRecord : x = Skipped(r) BY SkippedType DEF FreshInv
<1>18. /\ x.at = "file" /\ x.known = run[r].known /\ x.todo = run[r].todo \ {f}
       /\ x.seen = run[r].seen /\ x.changed = run[r].changed
  BY <1>4, <1>17, SkippedType DEF FreshInv
<1>19. ASSUME NEW g \in File \ x.changed PROVE Unchanged(x, g)'
  <2>1. Unchanged(run[r], g) BY <1>2, <1>18 DEF Sound
  <2>2. skill = "documents" => KnownStill(x, g)
    BY <1>1, <1>18, <2>1 DEF Unchanged, KnownStill, Refreshing, Listing
  <2>3. Listed(run[r], g) BY <1>1, <2>1 DEF Unchanged, Listing
  <2>4. CASE g # f
    <3>1. Listed(x, g) BY <1>18, <2>3, <2>4 DEF Listed
    <3>2. Unchanged(x, g) BY <1>18, <2>2, <3>1 DEF Unchanged
    <3>3. QED BY <1>6, <1>16, <1>18, <3>2, UnchangedKept
  <2>5. CASE g = f
    <3>1. Fresh(g)' /\ files[g] # Absent BY <1>15, <1>18, <2>5
    <3>2. files'[g] # Absent BY <1>6, <3>1 DEF SameTexts
    <3>3. KnownStill(x, g)' BY <3>1, <3>2 DEF KnownStill
    <3>4. g \in x.seen BY <1>5, <1>18, <2>5 DEF AtFile
    <3>5. Listed(x, g)' BY <3>1, <3>2, <3>4 DEF Listed
    <3>6. QED BY <1>18, <3>3, <3>5 DEF Unchanged
  <2>6. QED BY <2>4, <2>5
<1>20. Sound(x)' BY <1>18, <1>19 DEF Sound, Handling
<1>21. \A q \in Underway \ {r} : run[q].changed = run[r].changed
  BY <1>1, IsUnderway, OneSetOfChanges
<1>22. \A q \in Underway \ {r}, g \in File : g \notin run[q].changed => MadeRight(g)
  BY <1>16, <1>21
<1>23. Becomes(r, x) BY <1>6, <1>17, SkippedType DEF Becomes, FreshInv
<1>24. x.at # "idle" => \A q \in Underway \ {r} : run[q].changed = x.changed BY <1>18, <1>21
<1>25. QED BY <1>6, <1>8, <1>14, <1>20, <1>22, <1>23, <1>24, RunStep

LEMMA FindStaleKeeps ==
    ASSUME FreshInv, NEW r \in Run, FindStale(r)
    PROVE  FreshInv'
<1> DEFINE recorded == IF skill = "memory" THEN Indexed ELSE {f \in File : run[r].known[f] # Absent}
           stale == recorded \ run[r].seen
<1>1. UNCHANGED <<skill, files, index>> /\ bounds'.edits = bounds.edits
      /\ bounds' \in [edits : Nat, runs : Nat, kills : Nat, clears : Nat]
  BY DEF FindStale, FreshInv, SearchTypeOK
<1>2. run[r].at = "file" /\ run[r].todo = {} BY DEF FindStale, RunAt
<1>3. run[r] \in RunRecord /\ Sound(run[r]) BY RunType
<1>4. \A q \in Underway \ {r} : run[q].changed = run[r].changed
  BY <1>2, IsUnderway, OneSetOfChanges
<1>5. ASSUME NEW f \in File \ run[r].changed
      PROVE  /\ f \in stale => files[f] = Absent
             /\ files[f] = Absent /\ f \notin stale => index[f] = NoEntry
             /\ files[f] # Absent => Fresh(f)
  <2>1. Unchanged(run[r], f) BY <1>3 DEF Sound
  <2>2. Listed(run[r], f) BY <1>2, <2>1 DEF Unchanged, Listing
  <2>3. skill = "documents" => KnownStill(run[r], f)
    BY <1>2, <2>1 DEF Unchanged, Refreshing, Listing
  <2>4. f \in run[r].seen <=> files[f] # Absent BY <1>2, <2>2 DEF Listed
  <2>5. files[f] # Absent => Fresh(f) BY <1>2, <2>2 DEF Listed
  <2>6. f \in recorded \/ files[f] # Absent \/ index[f] = NoEntry
    <3>1. CASE skill = "memory" BY <3>1 DEF Indexed
    <3>2. CASE skill # "memory"
      <4>1. skill = "documents" BY <3>2 DEF FreshInv, SearchTypeOK
      <4>2. KnownStill(run[r], f) BY <2>3, <4>1
      <4>3. QED BY <3>2, <4>2 DEF KnownStill
    <3>3. QED BY <3>1, <3>2
  <2> HIDE DEF recorded
  <2>7. QED BY <2>4, <2>5, <2>6
<1>6. stale \in SUBSET File BY DEF Indexed
<1>7. CASE stale = {} /\ Finish(r, "answer")
  <2>1. PICK x \in RunRecord : x = Ended(r, "answer") BY EndedType DEF FreshInv
  <2>2. x.at = "answer" /\ x.changed = run[r].changed BY <2>1, EndedType DEF FreshInv
  <2>3. ASSUME NEW f \in File \ run[r].changed PROVE Fresh(f)
    <3>1. CASE files[f] # Absent BY <1>5, <3>1
    <3>2. CASE files[f] = Absent
      <4>1. index[f] = NoEntry BY <1>5, <1>7, <3>2
      <4>2. QED BY <3>2, <4>1 DEF Fresh, Found, CurrentText, Readable
    <3>3. QED BY <3>1, <3>2
  <2> HIDE DEF stale
  <2>4. Sound(x) BY <2>2, <2>3 DEF Sound, Unchanged, Refreshing, Listing, Handling
  <2>5. Becomes(r, x) BY <1>7, <2>1 DEF Finish, Becomes
  <2>6. \A q \in Underway \ {r} : run[q].changed = x.changed BY <1>4, <2>2
  <2>7. QED BY <1>1, <2>4, <2>5, <2>6, QuietStep
<1>8. CASE run' = [run EXCEPT ![r] = [Ended(r, "prune") EXCEPT !.stale = stale]]
  <2> DEFINE y == [Ended(r, "prune") EXCEPT !.stale = stale]
  <2> HIDE DEF stale
  <2>1. /\ Ended(r, "prune") \in RunRecord /\ Ended(r, "prune").at = "prune"
        /\ Ended(r, "prune").changed = run[r].changed
    BY EndedType DEF FreshInv
  <2>2. y \in RunRecord /\ y.at = "prune" /\ y.changed = run[r].changed /\ y.stale = stale
    BY <1>6, <2>1 DEF RunRecord
  <2>3. Becomes(r, y) BY <1>8 DEF Becomes
  <2> HIDE DEF y
  <2>4. PICK x \in RunRecord : x = y BY <2>2
  <2>5. ASSUME NEW f \in File \ x.changed PROVE Pruning(x, f)
    BY <1>5, <2>2, <2>4 DEF Pruning
  <2>6. Sound(x) BY <2>2, <2>4, <2>5 DEF Sound, Unchanged, Refreshing, Listing, Handling
  <2>7. \A q \in Underway \ {r} : run[q].changed = x.changed BY <1>4, <2>2, <2>4
  <2>8. QED BY <1>1, <2>3, <2>4, <2>6, <2>7, QuietStep
<1>9. QED BY <1>7, <1>8 DEF FindStale

LEMMA PruneKeeps ==
    ASSUME FreshInv, NEW r \in Run, Prune(r)
    PROVE  FreshInv'
<1>1. /\ SameTexts
      /\ bounds' \in [edits : Nat, runs : Nat, kills : Nat, clears : Nat]
      /\ index' = [f \in File |-> IF f \in run[r].stale THEN NoEntry ELSE index[f]]
      /\ Finish(r, "answer")
  BY DEF Prune, FreshInv, SearchTypeOK, SameTexts
<1>2. run[r].at = "prune" BY DEF Prune, RunAt
<1>3. run[r] \in RunRecord /\ Sound(run[r]) BY RunType
<1>4. \A f \in File : index'[f] = IF f \in run[r].stale THEN NoEntry ELSE index[f]
  BY <1>1
<1>5. index' \in [File -> [hash : Nat, text : Nat]]
  <2>1. NoEntry \in [hash : Nat, text : Nat] BY DEF NoEntry, Absent
  <2>2. QED BY <1>1, <2>1 DEF FreshInv, SearchTypeOK
<1>6. ASSUME NEW f \in File PROVE Dated(f)'
  <2>1. CASE f \in run[r].stale
    BY <1>1, <1>4, <2>1 DEF Dated, SameTexts, FreshInv, IndexInv
  <2>2. CASE f \notin run[r].stale
    BY <1>1, <1>4, <2>2, DatesKept DEF FreshInv, IndexInv
  <2>3. QED BY <2>1, <2>2
<1>7. ASSUME NEW f \in File \ run[r].changed
      PROVE  Fresh(f)' /\ MadeRight(f)
  <2>1. Pruning(run[r], f) BY <1>2, <1>3 DEF Sound, Unchanged
  <2>2. files'[f] = files[f] BY <1>1 DEF SameTexts
  <2>3. CASE files[f] = Absent
    <3>1. index'[f] = NoEntry BY <1>4, <2>1, <2>3 DEF Pruning
    <3>2. Fresh(f)' BY <2>2, <2>3, <3>1 DEF Fresh, Found, CurrentText, Readable
    <3>3. QED BY <3>1, <3>2 DEF MadeRight
  <2>4. CASE files[f] # Absent
    <3>1. MadeRight(f) BY <1>4, <2>1, <2>4 DEF Pruning, MadeRight
    <3>2. Fresh(f) BY <2>1, <2>4 DEF Pruning
    <3>3. QED BY <1>1, <3>1, <3>2, FreshKept
  <2>5. QED BY <2>3, <2>4
<1>8. PICK x \in RunRecord : x = Ended(r, "answer") BY EndedType DEF FreshInv
<1>9. x.at = "answer" /\ x.changed = run[r].changed BY <1>8, EndedType DEF FreshInv
<1>10. Sound(x)' BY <1>7, <1>9 DEF Sound, Unchanged, Refreshing, Listing, Handling
<1>11. Becomes(r, x) BY <1>1, <1>8 DEF Finish, Becomes
<1>12. \A q \in Underway \ {r} : run[q].changed = run[r].changed
  BY <1>2, IsUnderway, OneSetOfChanges
<1>13. \A q \in Underway \ {r}, g \in File : g \notin run[q].changed => MadeRight(g)
  BY <1>7, <1>12
<1>14. \A q \in Underway \ {r} : run[q].changed = x.changed BY <1>9, <1>12
<1>15. QED BY <1>1, <1>5, <1>6, <1>10, <1>11, <1>13, <1>14, RunStep

LEMMA SearchKeeps ==
    ASSUME FreshInv, NEW r \in Run, Search(r)
    PROVE  FreshInv'
<1>1. UNCHANGED <<skill, files, index>> /\ bounds'.edits = bounds.edits
      /\ bounds' \in [edits : Nat, runs : Nat, kills : Nat, clears : Nat]
  BY DEF Search, FreshInv, SearchTypeOK
<1>2. run[r].at # "idle" /\ Finish(r, "idle") BY DEF Search, RunAt
<1>3. QED BY <1>1, <1>2, EndKeeps

LEMMA LockedKeeps ==
    ASSUME FreshInv, NEW r \in Run, Locked(r)
    PROVE  FreshInv'
<1>1. UNCHANGED <<skill, files, index>> /\ bounds'.edits = bounds.edits
      /\ bounds' \in [edits : Nat, runs : Nat, kills : Nat, clears : Nat]
  BY DEF Locked, FreshInv, SearchTypeOK
<1>2. run[r].at # "idle" /\ Finish(r, "idle") BY DEF Locked, RunAt, Fail
<1>3. QED BY <1>1, <1>2, EndKeeps

LEMMA KillKeeps ==
    ASSUME FreshInv, NEW r \in Run, Kill(r)
    PROVE  FreshInv'
<1>1. UNCHANGED <<skill, files, index>> /\ Counted("kills", MaxKills) BY DEF Kill
<1>2. bounds'.edits = bounds.edits /\ bounds' \in [edits : Nat, runs : Nat, kills : Nat, clears : Nat]
  BY <1>1, CountedType DEF FreshInv
<1>3. run[r].at # "idle" /\ Finish(r, "idle") BY DEF Kill, Underway, RunAt, Fail
<1>4. QED BY <1>1, <1>2, <1>3, EndKeeps

-----------------------------------------------------------------------------
(* Every change by somebody else keeps it, too *)

(* What is changed from outside: files get texts that are newer than all   *)
(* that were, or go, and entries may go.  Every run under way is told.     *)
Disturbs(items) ==
    /\ Touch(items)
    /\ UNCHANGED skill
    /\ \A f \in File :
          /\ files'[f] <= bounds'.edits
          /\ files'[f] = files[f] \/ files'[f] = Absent \/ files'[f] > bounds.edits
          /\ index'[f] = index[f] \/ index'[f] = NoEntry
    /\ \A f \in File \ items : files'[f] = files[f] /\ index'[f] = index[f]
    /\ bounds.edits <= bounds'.edits

Told(x, items) == [x EXCEPT !.changed = @ \cup items]

LEMMA ToldType ==
    ASSUME NEW x \in RunRecord, NEW items \in SUBSET File
    PROVE  /\ Told(x, items) \in RunRecord
           /\ Told(x, items).changed = x.changed \cup items
           /\ Told(x, items).at = x.at /\ Told(x, items).known = x.known
           /\ Told(x, items).todo = x.todo /\ Told(x, items).seen = x.seen
           /\ Told(x, items).hash = x.hash /\ Told(x, items).text = x.text
           /\ Told(x, items).stale = x.stale
<1>1. x.changed \cup items \in SUBSET File BY DEF RunRecord
<1>2. QED BY <1>1 DEF Told, RunRecord

LEMMA DisturbedRecording ==
    ASSUME SearchTypeOK, SearchTypeOK', NEW items \in SUBSET File, Disturbs(items), NEW f \in File,
           NEW v \in Nat, NEW t \in Nat
    PROVE  /\ Was(v, f) => Was(v, f)'
           /\ Recording(v, t, f) => Recording(v, t, f)'
           /\ f \notin items => CurrentText(f)' = CurrentText(f)
<1>1. files[f] \in Nat /\ files'[f] \in Nat /\ bounds.edits \in Nat /\ bounds'.edits \in Nat
  BY DEF SearchTypeOK
<1>2. \A n \in Nat : Was(n, f) => Was(n, f)'
  BY <1>1 DEF Was, Disturbs
<1>3. Readable(t)' = Readable(t) BY DEF Disturbs, Readable
<1>4. Recording(v, t, f) => Recording(v, t, f)' BY <1>2, <1>3 DEF Recording
<1>5. f \notin items => CurrentText(f)' = CurrentText(f)
  BY DEF Disturbs, CurrentText, Readable
<1>6. QED BY <1>2, <1>4, <1>5

LEMMA ToldIsSound ==
    ASSUME SearchTypeOK, SearchTypeOK', NEW items \in SUBSET File, Disturbs(items),
           NEW x \in RunRecord, Sound(x), NEW y \in RunRecord, y = Told(x, items)
    PROVE  Sound(y)'
<1>1. /\ y.changed = x.changed \cup items /\ y.at = x.at /\ y.known = x.known
      /\ y.todo = x.todo /\ y.seen = x.seen /\ y.hash = x.hash /\ y.text = x.text
      /\ y.stale = x.stale
  BY ToldType
<1>2. ASSUME NEW f \in File \ y.changed PROVE Unchanged(y, f)'
  <2>1. Unchanged(x, f) /\ f \notin items BY <1>1 DEF Sound
  <2>2. files'[f] = files[f] /\ index'[f] = index[f] /\ skill' = skill BY <2>1 DEF Disturbs
  <2>3. Fresh(f)' = Fresh(f) BY <2>2 DEF Fresh, Found, CurrentText, Readable
  <2>4. KnownStill(x, f) => KnownStill(y, f)' BY <1>1, <2>2, <2>3 DEF KnownStill
  <2>5. Listed(x, f) => Listed(y, f)' BY <1>1, <2>2, <2>3 DEF Listed
  <2>6. Pruning(x, f) => Pruning(y, f)' BY <1>1, <2>2, <2>3 DEF Pruning
  <2>7. QED BY <1>1, <2>1, <2>2, <2>3, <2>4, <2>5, <2>6 DEF Unchanged
<1>3. CASE x.at \notin Handling
  <2>1. x.at # "commit" BY <1>3 DEF Handling
  <2>2. QED BY <1>1, <1>2, <1>3, <2>1 DEF Sound
<1>4. CASE x.at \in Handling
  <2>1. x.todo # {} /\ AtFile(x, Min(x.todo)) BY <1>4 DEF Sound
  <2>2. x.todo \in SUBSET File /\ x.hash \in Nat /\ x.text \in Nat BY DEF RunRecord
  <2>3. PICK f \in File : f = Min(x.todo) BY <2>1, <2>2, FirstIsLeft
  <2>4. AtFile(x, f) BY <2>1, <2>3
  <2>5. f \notin items => files'[f] = files[f] BY DEF Disturbs
  <2>6. AtFile(y, f)' BY <1>1, <2>2, <2>4, <2>5, DisturbedRecording DEF AtFile
  <2>7. x.at = "commit" => ToCommit(y, f)'
    <3>1. x.at = "commit" => ToCommit(x, f) BY <2>3 DEF Sound
    <3>2. QED BY <1>1, <2>2, <3>1, DisturbedRecording DEF ToCommit
  <2>8. QED BY <1>1, <1>2, <2>1, <2>3, <2>6, <2>7 DEF Sound
<1>5. QED BY <1>3, <1>4

LEMMA TouchType ==
    ASSUME SearchTypeOK, NEW items \in SUBSET File, Touch(items)
    PROVE  /\ run' \in [Run -> RunRecord]
           /\ Underway' = Underway
           /\ \A r \in Underway : run'[r] = Told(run[r], items)
           /\ \A r \in Run \ Underway : run'[r] = Idle
<1>1. \A r \in Run : run'[r] = IF run[r].at = "idle" THEN Idle ELSE Told(run[r], items)
  BY DEF Touch, RunAt, Told
<1>2. \A r \in Run : run[r] \in RunRecord BY DEF SearchTypeOK
<1>3. \A r \in Run : Told(run[r], items) \in RunRecord /\ Told(run[r], items).at = run[r].at
  BY <1>2, ToldType
<1>4. \A r \in Run : run'[r] \in RunRecord BY <1>1, <1>3, IdleType
<1>5. \A r \in Run : run'[r].at = "idle" <=> run[r].at = "idle" BY <1>1, <1>3, IdleType
<1>6. run' \in [Run -> RunRecord] BY <1>4 DEF Touch
<1>7. QED BY <1>1, <1>5, <1>6 DEF Underway, RunAt

LEMMA DisturbedKeeps ==
    ASSUME FreshInv, SearchTypeOK', NEW items \in SUBSET File, Disturbs(items)
    PROVE  FreshInv'
<1>1. /\ Underway' = Underway
      /\ \A r \in Underway : run'[r] = Told(run[r], items)
      /\ \A r \in Run \ Underway : run'[r] = Idle
  BY TouchType DEF Disturbs, FreshInv
<1>2. \A r \in Run : run[r] \in RunRecord /\ Sound(run[r]) BY RunType
<1>3. SameChanges'
  <2>1. \A r \in Underway : run'[r].changed = run[r].changed \cup items
    BY <1>1, <1>2, ToldType DEF Underway
  <2>2. QED BY <1>1, <2>1 DEF FreshInv, SameChanges
<1>4. ASSUME NEW f \in File PROVE Dated(f)'
  <2>1. PICK h \in Nat, t \in Nat : h = index[f].hash /\ t = index[f].text
    BY DEF FreshInv, SearchTypeOK
  <2>2. index[f] = NoEntry \/ Recording(h, t, f) BY <2>1 DEF FreshInv, IndexInv, Dated
  <2>3. index[f] = NoEntry \/ Recording(h, t, f)' BY <2>2, DisturbedRecording DEF FreshInv
  <2>4. files'[f] <= bounds'.edits BY DEF Disturbs
  <2>5. CASE index'[f] = NoEntry BY <2>4, <2>5 DEF Dated
  <2>6. CASE index'[f] = index[f] /\ index[f] # NoEntry
    <3>1. Recording(h, t, f)' BY <2>3, <2>6
    <3>2. Recording(index[f].hash, index[f].text, f)' BY <2>1, <2>6, <3>1 DEF Recording, Was
    <3>3. QED BY <2>4, <3>2 DEF Dated
  <2>7. QED BY <2>5, <2>6 DEF Disturbs
<1>5. IndexInv' BY <1>4 DEF IndexInv, File
<1>6. ASSUME NEW r \in Run PROVE Sound(run[r])'
  <2>1. PICK z \in RunRecord : z = run'[r] BY DEF SearchTypeOK
  <2>2. Sound(z)'
    <3>1. CASE r \notin Underway
      <4>1. z.at = "idle" BY <1>1, <2>1, <3>1, IdleType
      <4>2. QED BY <4>1 DEF Sound, Unchanged, Refreshing, Listing, Handling
    <3>2. CASE r \in Underway
      <4>1. PICK x \in RunRecord : x = run[r] BY <1>2
      <4>2. Sound(x) /\ z = Told(x, items) BY <1>1, <1>2, <2>1, <3>2, <4>1
      <4>3. QED BY <4>2, ToldIsSound DEF FreshInv
    <3>3. QED BY <3>1, <3>2
  <2>3. QED BY <2>1, <2>2 DEF Sound, Unchanged, KnownStill, Listed, Pruning, AtFile, ToCommit
<1>7. QED BY <1>3, <1>5, <1>6 DEF FreshInv

LEMMA EditKeeps ==
    ASSUME FreshInv, NEW f \in File, Edit(f)
    PROVE  FreshInv'
<1>1. /\ Counted("edits", MaxEdits) /\ Touch({f})
      /\ files' = [files EXCEPT ![f] = bounds.edits + 1]
      /\ UNCHANGED <<skill, index>>
  BY DEF Edit
<1>2. /\ bounds' \in [edits : Nat, runs : Nat, kills : Nat, clears : Nat]
      /\ bounds'.edits = bounds.edits + 1 /\ bounds.edits \in Nat
  BY <1>1, CountedType DEF FreshInv, SearchTypeOK
<1>3. run' \in [Run -> RunRecord] BY <1>1, TouchType DEF FreshInv
<1>4. files' \in [File -> Nat] BY <1>1, <1>2 DEF FreshInv, SearchTypeOK
<1>5. SearchTypeOK' BY <1>1, <1>2, <1>3, <1>4 DEF FreshInv, SearchTypeOK
<1>6. Disturbs({f})
  <2>1. files'[f] = bounds.edits + 1 /\ \A g \in File \ {f} : files'[g] = files[g]
    BY <1>1 DEF FreshInv, SearchTypeOK
  <2>2. \A g \in File : files[g] <= bounds.edits /\ files[g] \in Nat
    BY DEF FreshInv, IndexInv, Dated, SearchTypeOK
  <2>3. QED BY <1>1, <1>2, <2>1, <2>2 DEF Disturbs
<1>7. QED BY <1>5, <1>6, DisturbedKeeps

LEMMA DeleteFileKeeps ==
    ASSUME FreshInv, NEW f \in File, Delete(f)
    PROVE  FreshInv'
<1>1. /\ Counted("edits", MaxEdits) /\ Touch({f})
      /\ files' = [files EXCEPT ![f] = Absent]
      /\ UNCHANGED <<skill, index>>
  BY DEF Delete
<1>2. /\ bounds' \in [edits : Nat, runs : Nat, kills : Nat, clears : Nat]
      /\ bounds'.edits = bounds.edits + 1 /\ bounds.edits \in Nat
  BY <1>1, CountedType DEF FreshInv, SearchTypeOK
<1>3. run' \in [Run -> RunRecord] BY <1>1, TouchType DEF FreshInv
<1>4. files' \in [File -> Nat] BY <1>1 DEF FreshInv, SearchTypeOK, Absent
<1>5. SearchTypeOK' BY <1>1, <1>2, <1>3, <1>4 DEF FreshInv, SearchTypeOK
<1>6. Disturbs({f})
  <2>1. files'[f] = Absent /\ \A g \in File \ {f} : files'[g] = files[g]
    BY <1>1 DEF FreshInv, SearchTypeOK
  <2>2. \A g \in File : files[g] <= bounds.edits /\ files[g] \in Nat
    BY DEF FreshInv, IndexInv, Dated, SearchTypeOK
  <2>3. QED BY <1>1, <1>2, <2>1, <2>2 DEF Disturbs, Absent
<1>7. QED BY <1>5, <1>6, DisturbedKeeps

LEMMA ClearKeeps ==
    ASSUME FreshInv, ClearAll
    PROVE  FreshInv'
<1>1. /\ Counted("clears", MaxClears) /\ Touch(File)
      /\ index' = [f \in File |-> NoEntry]
      /\ UNCHANGED <<skill, files>>
  BY DEF ClearAll
<1>2. /\ bounds' \in [edits : Nat, runs : Nat, kills : Nat, clears : Nat]
      /\ bounds'.edits = bounds.edits /\ bounds.edits \in Nat
  BY <1>1, CountedType DEF FreshInv, SearchTypeOK
<1>3. run' \in [Run -> RunRecord] BY <1>1, TouchType DEF FreshInv
<1>4. index' \in [File -> [hash : Nat, text : Nat]]
  <2>1. NoEntry \in [hash : Nat, text : Nat] BY DEF NoEntry, Absent
  <2>2. QED BY <1>1, <2>1
<1>5. SearchTypeOK' BY <1>1, <1>2, <1>3, <1>4 DEF FreshInv, SearchTypeOK
<1>6. Disturbs(File)
  <2>1. \A g \in File : index'[g] = NoEntry /\ files'[g] = files[g] BY <1>1
  <2>2. \A g \in File : files[g] <= bounds.edits BY DEF FreshInv, IndexInv, Dated
  <2>3. QED BY <1>1, <1>2, <2>1, <2>2 DEF Disturbs
<1>7. QED BY <1>5, <1>6, DisturbedKeeps

-----------------------------------------------------------------------------
(* The theorems *)

LEMMA FreshInit == SearchInit => FreshInv
<1> SUFFICES ASSUME SearchInit PROVE FreshInv OBVIOUS
<1>1. PICK present \in SUBSET File :
         /\ files = [f \in File |-> IF f \in present THEN 1 ELSE Absent]
         /\ index \in {[f \in File |-> NoEntry],
                       [f \in File |-> IF Readable(files[f]) THEN [hash |-> 1, text |-> 1] ELSE NoEntry]}
  BY DEF SearchInit
<1>2. /\ skill \in {"memory", "documents"} /\ run = [r \in Run |-> Idle]
      /\ bounds = [edits |-> 1, runs |-> 0, kills |-> 0, clears |-> 0]
  BY DEF SearchInit
<1>3. \A f \in File : files[f] \in {Absent, 1} BY <1>1
<1>4. \A f \in File : index[f] = NoEntry
                      \/ (Readable(files[f]) /\ index[f] = [hash |-> 1, text |-> 1])
  BY <1>1
<1>5. SearchTypeOK
  <2>1. NoEntry \in [hash : Nat, text : Nat] /\ [hash |-> 1, text |-> 1] \in [hash : Nat, text : Nat]
    BY DEF NoEntry, Absent
  <2>2. index \in [File -> [hash : Nat, text : Nat]] BY <1>1, <2>1
  <2>3. files \in [File -> Nat] BY <1>1 DEF Absent
  <2>4. run \in [Run -> RunRecord] BY <1>2, IdleType
  <2>5. QED BY <1>2, <2>2, <2>3, <2>4 DEF SearchTypeOK
<1>6. ASSUME NEW f \in File PROVE Dated(f)
  <2>1. files[f] <= bounds.edits BY <1>2, <1>3 DEF Absent
  <2>2. CASE index[f] = NoEntry BY <2>1, <2>2 DEF Dated
  <2>3. CASE Readable(files[f]) /\ index[f] = [hash |-> 1, text |-> 1]
    <3>1. files[f] = 1 BY <1>3, <2>3 DEF Readable
    <3>2. index[f].hash = 1 /\ index[f].text = 1 BY <2>3
    <3>3. Recording(index[f].hash, index[f].text, f)
      BY <1>2, <2>3, <3>1, <3>2 DEF Recording, Was, Absent
    <3>4. QED BY <2>1, <3>3 DEF Dated
  <2>4. QED BY <1>4, <2>2, <2>3
<1>7. Underway = {} BY <1>2, IdleType DEF Underway, RunAt
<1>8. \A r \in Run : Sound(run[r]) BY <1>2, IdleIsSound
<1>9. QED BY <1>5, <1>6, <1>7, <1>8 DEF FreshInv, IndexInv, SameChanges

LEMMA FreshNext == FreshInv /\ [SearchNext]_searchVars => FreshInv'
<1> SUFFICES ASSUME FreshInv, [SearchNext]_searchVars PROVE FreshInv' OBVIOUS
<1>1. CASE UNCHANGED searchVars
  BY <1>1 DEF searchVars, FreshInv, SearchTypeOK, IndexInv, Dated, SameChanges, Underway, RunAt, Sound, AtFile,
     ToCommit, Unchanged, KnownStill, Listed, Pruning, Fresh, Found, CurrentText, Recording, Was, Readable
<1>2. CASE SearchNext
  <2>1. ASSUME NEW r \in Run, RunIndex(r) PROVE FreshInv'
    BY <2>1, BeginKeeps, CollectKeeps, FileHashKeeps, CompareKeeps, DeleteKeeps, ReadKeeps,
       CommitKeeps, FindStaleKeeps, PruneKeeps, LockedKeeps, SearchKeeps, ZenonT(60)
       DEF RunIndex
  <2>2. QED BY <1>2, <2>1, KillKeeps, EditKeeps, DeleteFileKeeps, ClearKeeps, ZenonT(60) DEF SearchNext
<1>3. QED BY <1>1, <1>2

(* For all sets of files and processes: every run keeps its type.          *)
THEOREM SearchTypes == SearchSpec => []SearchTypeOK
<1>1. FreshInv => SearchTypeOK BY DEF FreshInv
<1>2. QED BY <1>1, FreshInit, FreshNext, PTL DEF SearchSpec

(* A search that answers finds the current text of every file that nobody  *)
(* has changed under the runs it overlaps with, and nothing of a deleted   *)
(* one: with any number of files and of runs at once, after whatever gave  *)
(* up, was killed or cleared (index.py of memory-search and of             *)
(* document-search).                                                       *)
THEOREM AnsweredIsFresh == SearchSpec => []SearchIsFresh
<1>1. FreshInv => SearchIsFresh
  <2> SUFFICES ASSUME FreshInv, NEW r \in Run, RunAt(r, "answer"), NEW f \in File \ run[r].changed
               PROVE  Found(f) = CurrentText(f)
    BY DEF SearchIsFresh
  <2>1. Sound(run[r]) BY RunType
  <2>2. Unchanged(run[r], f) BY <2>1 DEF Sound
  <2>3. QED BY <2>2 DEF Unchanged, Fresh, RunAt
<1>2. QED BY <1>1, FreshInit, FreshNext, PTL DEF SearchSpec

-----------------------------------------------------------------------------
(* Due times: when the scheduler runs an entry                             *)

TimeTypes ==
    /\ scene \in Scene
    /\ stagger \in 0 .. MaxStagger
    /\ entry \in {None} \cup scene.entries
    /\ now \in Nat
    /\ waiting \in BOOLEAN
    /\ last \in Int \cup {None}
    /\ from \in Int
    /\ last # None => entry # None

LatestOneShot == LatestOf(Instants(entry.time))

(* What is owed and has had its stagger was run, or was overtaken by what  *)
(* was; before a tick, what the tick's window no longer reaches.           *)
Served(u) == (last # None /\ last >= u) \/ BehindTheGap(u)

Caught ==
    /\ waiting =>
          /\ Scheduled => \A u \in from .. now - 1 :
                Owed(u) /\ now >= u + StaggerFor(u) => Served(u)
          /\ OneShot => (from <= LatestOneShot /\ LatestOneShot < now => last # None)
    /\ ~waiting /\ Scheduled => \A u \in from .. now - Window : Owed(u) => Served(u)

AcceptedOnly == entry # None => Accepts(entry)

TimeInv == TimeTypes /\ RunsOnlyOwed /\ Caught /\ AcceptedOnly

-----------------------------------------------------------------------------
LEMMA SceneTypes ==
    ASSUME TimeTypes
    PROVE  /\ scene.shift \in Nat /\ scene.by \in Int /\ scene.shift + scene.by >= 0
           /\ entry # None => entry.time \in Int
           /\ Window \in Nat /\ MaxStagger \in Nat /\ MaxStagger >= 1
           /\ CatchUp \in Nat /\ MaxDelay \in Nat /\ MaxDelay >= 1 /\ MaxDelay <= CatchUp
           /\ Window = CatchUp + MaxStagger /\ Horizon \in Nat
           /\ None \notin Int
BY CronTimeAssumption DEF TimeTypes, Window

(* A set of integers with a bound has its greatest member, and one with a  *)
(* lower bound its least.                                                  *)
LEMMA LatestMember ==
    ASSUME NEW S, S \subseteq Int, S # {}, NEW b \in Int, \A x \in S : x <= b
    PROVE  LatestOf(S) \in S /\ \A y \in S : y <= LatestOf(S)
<1>1. PICK z \in S : TRUE OBVIOUS
<1> DEFINE D == {n \in Nat : \E x \in S : n = b - x}
<1>2. b - z \in D BY <1>1
<1>3. \E n \in D : \A m \in D : <<m, n>> \notin OpToRel(<, Nat)
  <2>1. D \subseteq Nat OBVIOUS
  <2> HIDE DEF D
  <2> QED BY <1>2, <2>1, NatLessThanWellFounded, WFMin
<1>4. PICK n \in D : \A m \in D : ~(m < n)
  BY <1>3 DEF OpToRel
<1>5. PICK x \in S : n = b - x BY <1>4
<1>6. \A y \in S : y <= x
  <2> TAKE y \in S
  <2>1. b - y \in D OBVIOUS
  <2>2. ~(b - y < n) BY <2>1, <1>4
  <2> QED BY <2>2, <1>5
<1> HIDE DEF D
<1>7. \E v \in S : \A y \in S : y <= v BY <1>5, <1>6
<1> QED BY <1>7 DEF LatestOf

LEMMA LeastMember ==
    ASSUME NEW S, S \subseteq Int, S # {}, NEW b \in Int, \A x \in S : b <= x
    PROVE  LeastOf(S) \in S /\ \A y \in S : LeastOf(S) <= y
<1>1. PICK z \in S : TRUE OBVIOUS
<1> DEFINE D == {n \in Nat : \E x \in S : n = x - b}
<1>2. z - b \in D BY <1>1
<1>3. \E n \in D : \A m \in D : <<m, n>> \notin OpToRel(<, Nat)
  <2>1. D \subseteq Nat OBVIOUS
  <2> HIDE DEF D
  <2> QED BY <1>2, <2>1, NatLessThanWellFounded, WFMin
<1>4. PICK n \in D : \A m \in D : ~(m < n)
  BY <1>3 DEF OpToRel
<1>5. PICK x \in S : n = x - b BY <1>4
<1>6. \A y \in S : x <= y
  <2> TAKE y \in S
  <2>1. y - b \in D OBVIOUS
  <2>2. ~(y - b < n) BY <2>1, <1>4
  <2> QED BY <2>2, <1>5
<1> HIDE DEF D
<1>7. \E v \in S : \A y \in S : v <= y BY <1>5, <1>6
<1> QED BY <1>7 DEF LeastOf

(* What it means for u to be an instant of the wall-clock time w.          *)
LEMMA InstantsAre ==
    ASSUME TimeTypes, NEW w \in Int
    PROVE  /\ Instants(w) \subseteq Int /\ Instants(w) # {}
           /\ \A u \in Instants(w) : \/ Wall(u) = w /\ u \in {w, w - scene.by}
                                     \/ /\ u = scene.shift /\ scene.by > 0
                                        /\ w >= scene.shift /\ w < scene.shift + scene.by
           /\ \A u \in {w, w - scene.by} : Wall(u) = w => u \in Instants(w)
           /\ LeastOf(Instants(w)) \in Instants(w)
           /\ \A y \in Instants(w) : LeastOf(Instants(w)) <= y
           /\ LatestOf(Instants(w)) \in Instants(w)
           /\ \A y \in Instants(w) : y <= LatestOf(Instants(w))
<1> DEFINE b == scene.by
           k == scene.shift
<1>1. b \in Int /\ k \in Nat /\ k + b >= 0 BY SceneTypes
<1>2. \A u \in Int : Wall(u) = IF u >= k THEN u + b ELSE u BY DEF Wall, WallAt
<1>3. \A u \in {w, w - b} : Wall(u) = w => u \in Instants(w) BY DEF Instants
<1>4. Instants(w) \subseteq {w, w - b, k} /\ Instants(w) # {} BY DEF Instants
<1>5. \A u \in Instants(w) : \/ Wall(u) = w /\ u \in {w, w - b}
                             \/ u = k /\ Wall(w) # w /\ Wall(w - b) # w
  BY DEF Instants
<1> HIDE DEF b, k
<1>6. \A u \in Instants(w) : \/ Wall(u) = w /\ u \in {w, w - b}
                             \/ u = k /\ b > 0 /\ w >= k /\ w < k + b
  BY <1>1, <1>2, <1>5
<1>7. Instants(w) \subseteq Int BY <1>1, <1>4
<1>8. PICK lo \in Int : lo <= w /\ lo <= w - b /\ lo <= k
  <2>1. \E z \in Int : z <= w /\ z <= w - b BY <1>1
  <2>2. PICK z \in Int : z <= w /\ z <= w - b BY <2>1
  <2>3. \E y \in Int : y <= z /\ y <= k BY <1>1
  <2>4. PICK y \in Int : y <= z /\ y <= k BY <2>3
  <2>5. y <= w /\ y <= w - b BY <2>2, <2>4, <1>1
  <2> QED BY <2>4, <2>5
<1>9. PICK hi \in Int : w <= hi /\ w - b <= hi /\ k <= hi
  <2>1. \E z \in Int : w <= z /\ w - b <= z BY <1>1
  <2>2. PICK z \in Int : w <= z /\ w - b <= z BY <2>1
  <2>3. \E y \in Int : z <= y /\ k <= y BY <1>1
  <2>4. PICK y \in Int : z <= y /\ k <= y BY <2>3
  <2>5. w <= y /\ w - b <= y BY <2>2, <2>4, <1>1
  <2> QED BY <2>4, <2>5
<1>10. LeastOf(Instants(w)) \in Instants(w) /\ \A y \in Instants(w) : LeastOf(Instants(w)) <= y
  <2>1. \A x \in Instants(w) : lo <= x BY <1>4, <1>8
  <2> QED BY <2>1, <1>4, <1>7, LeastMember
<1>11. LatestOf(Instants(w)) \in Instants(w) /\ \A y \in Instants(w) : y <= LatestOf(Instants(w))
  <2>1. \A x \in Instants(w) : x <= hi BY <1>4, <1>9
  <2> QED BY <2>1, <1>4, <1>7, LatestMember
<1> QED BY <1>3, <1>4, <1>6, <1>7, <1>10, <1>11 DEF b, k

(* The wall-clock time, over the one change of the clock.                  *)
LEMMA WallIs ==
    ASSUME TimeTypes, NEW u \in Int
    PROVE  /\ Wall(u) \in Int
           /\ u >= scene.shift => Wall(u) = u + scene.by
           /\ u < scene.shift => Wall(u) = u
BY SceneTypes DEF Wall, WallAt

LEMMA DistanceIs ==
    ASSUME TimeTypes
    PROVE  Distance \in Nat /\ Distance >= scene.by /\ Distance >= -scene.by
BY SceneTypes DEF Distance

(* A minute whose name matches is owed, and so is the first one after      *)
(* skipped minutes of which one matches; nothing else is.                  *)
LEMMA NamedIsOwed ==
    ASSUME TimeTypes, NEW u \in Int, MatchesCron(Wall(u), fields), ~(Again(u) /\ SpecificHours)
    PROVE  Owed(u)
<1> DEFINE w == Wall(u)
<1>1. w \in Int /\ scene.by \in Int /\ scene.shift \in Nat BY WallIs, SceneTypes
<1>2. w \in u - Distance .. u + Distance BY WallIs, DistanceIs, SceneTypes
<1>3. u \in {w, w - scene.by} BY WallIs, SceneTypes
<1>4. u \in Instants(w) BY <1>1, <1>3, InstantsAre
<1>5. CASE ~SpecificHours BY <1>2, <1>4, <1>5 DEF Owed, Runs
<1>6. CASE SpecificHours
  <2>1. ~(scene.shift <= u /\ u < scene.shift - scene.by) BY <1>6 DEF Again
  <2>2. \A x \in Instants(w) : u <= x
    <3> TAKE x \in Instants(w)
    <3>1. x \in Int BY <1>1, InstantsAre
    <3>2. CASE Wall(x) = w /\ x \in {w, w - scene.by}
      <4>1. /\ x >= scene.shift => Wall(x) = x + scene.by
            /\ x < scene.shift => Wall(x) = x
            /\ u >= scene.shift => Wall(u) = u + scene.by
            /\ u < scene.shift => Wall(u) = u
        BY <3>1, WallIs
      <4>2. PICK b \in Int, k \in Nat : b = scene.by /\ k = scene.shift BY <1>1
      <4> QED BY <4>1, <4>2, <3>1, <3>2, <2>1, <1>1
    <3>3. CASE /\ x = scene.shift /\ scene.by > 0
               /\ w >= scene.shift /\ w < scene.shift + scene.by
      BY <3>3, <1>1, WallIs
    <3> QED BY <3>2, <3>3, <1>1, InstantsAre
  <2>3. LeastOf(Instants(w)) = u
    <3>1. LeastOf(Instants(w)) \in Instants(w) /\ LeastOf(Instants(w)) <= u
      BY <1>1, <1>4, InstantsAre
    <3>2. LeastOf(Instants(w)) \in Int BY <3>1, <1>1, InstantsAre
    <3> HIDE DEF w
    <3> QED BY <3>1, <3>2, <2>2
  <2> QED BY <2>3, <1>2, <1>6 DEF Owed, Runs
<1> QED BY <1>5, <1>6

LEMMA SkippedIsOwed ==
    ASSUME TimeTypes, NEW u \in Int, \E w \in Lost(u - 1) : MatchesCron(w, fields)
    PROVE  Owed(u) /\ u = scene.shift /\ scene.by > 0
<1>1. PICK w \in Wall(u - 1) + 1 .. Wall(u) - 1 : MatchesCron(w, fields)
  <2>1. (u - 1) + 1 = u OBVIOUS
  <2> QED BY <2>1 DEF Lost
<1>2. PICK b \in Int, k \in Nat : b = scene.by /\ k = scene.shift BY SceneTypes
<1>3. /\ w \in Int
      /\ u = k /\ b > 0 /\ w >= k /\ w < k + b
  <2>1. /\ u >= k => Wall(u) = u + b
        /\ u < k => Wall(u) = u
        /\ u - 1 >= k => Wall(u - 1) = u - 1 + b
        /\ u - 1 < k => Wall(u - 1) = u - 1
    BY <1>2, WallIs
  <2>2. Wall(u) \in Int /\ Wall(u - 1) \in Int BY WallIs
  <2>3. w \in Int /\ w >= Wall(u - 1) + 1 /\ w <= Wall(u) - 1 BY <1>1, <2>2
  <2> QED BY <1>2, <2>1, <2>2, <2>3
<1>4. Wall(w) # w /\ Wall(w - b) # w
  <2>1. /\ w >= k => Wall(w) = w + b
        /\ w - b >= k => Wall(w - b) = w - b + b
        /\ w - b < k => Wall(w - b) = w - b
    BY <1>2, <1>3, WallIs
  <2> QED BY <1>2, <1>3, <2>1
<1>5. Instants(w) = {u}
  <2>1. {x \in {w, w - scene.by} : Wall(x) = w} = {} BY <1>4, <1>2
  <2> QED BY <2>1, <1>3, <1>2 DEF Instants
<1>6. LeastOf({u}) = u BY DEF LeastOf
<1>7. u \in Runs(w) BY <1>5, <1>6 DEF Runs
<1>8. w \in u - Distance .. u + Distance
  <2>1. Distance \in Nat /\ Distance >= b BY <1>2, DistanceIs
  <2> QED BY <1>2, <1>3, <2>1
<1> QED BY <1>1, <1>2, <1>3, <1>7, <1>8 DEF Owed

LEMMA OwedIsNamed ==
    ASSUME TimeTypes, NEW u \in Int, Owed(u)
    PROVE  \/ MatchesCron(Wall(u), fields) /\ ~(Again(u) /\ SpecificHours)
           \/ \E w \in Lost(u - 1) : MatchesCron(w, fields)
<1>1. Distance \in Nat BY DistanceIs
<1>2. PICK w \in u - Distance .. u + Distance : MatchesCron(w, fields) /\ u \in Runs(w)
  BY DEF Owed
<1>3. w \in Int BY <1>1, <1>2
<1>4. PICK b \in Int, k \in Nat : b = scene.by /\ k = scene.shift BY SceneTypes
<1>5. u \in Instants(w) BY <1>2, <1>3, InstantsAre DEF Runs
<1>6. SpecificHours => \A y \in Instants(w) : u <= y
  <2>1. SpecificHours => u = LeastOf(Instants(w)) BY <1>2 DEF Runs
  <2>2. \A y \in Instants(w) : LeastOf(Instants(w)) <= y BY <1>3, InstantsAre
  <2> QED BY <2>1, <2>2
<1>7. CASE Wall(u) = w /\ u \in {w, w - b}
  <2>1. ASSUME Again(u), SpecificHours PROVE FALSE
    <3>1. k <= u /\ u < k - b BY <2>1, <1>4 DEF Again
    <3>2. w = u + b /\ w < k /\ w < u BY <3>1, <1>4, <1>7, WallIs
    <3>3. Wall(w) = w BY <3>2, <1>3, <1>4, WallIs
    <3>4. w \in Instants(w) BY <3>3, <1>3, InstantsAre
    <3> QED BY <3>4, <3>2, <2>1, <1>6, <1>3
  <2> QED BY <2>1, <1>2, <1>7
<1>8. CASE u = k /\ b > 0 /\ w >= k /\ w < k + b
  <2>1. Wall(u) = u + b /\ Wall(u - 1) = u - 1
    <3>1. u >= k /\ u - 1 < k /\ u - 1 \in Int BY <1>8, <1>4
    <3> QED BY <3>1, <1>4, WallIs
  <2>2. w \in Wall(u - 1) + 1 .. Wall(u) - 1 BY <2>1, <1>8, <1>3, <1>4
  <2>3. (u - 1) + 1 = u OBVIOUS
  <2> QED BY <2>2, <2>3, <1>2 DEF Lost
<1> QED BY <1>3, <1>4, <1>5, <1>7, <1>8, InstantsAre

-----------------------------------------------------------------------------
(* due_fire_time *)
LEMMA EarliestIs ==
    ASSUME TimeTypes
    PROVE  /\ Earliest \in Int /\ now - Window <= Earliest
           /\ last # None => last + 1 <= Earliest
           /\ Earliest = now - Window \/ (last # None /\ Earliest = last + 1)
BY SceneTypes DEF Earliest, TimeTypes

LEMMA StaggerIs ==
    ASSUME TimeTypes, NEW u
    PROVE  StaggerFor(u) \in Nat /\ StaggerFor(u) <= MaxStagger
BY SceneTypes DEF StaggerFor, TimeTypes

LEMMA CandidateIsOwed ==
    ASSUME TimeTypes, NEW u \in Candidates
    PROVE  u \in Int /\ Earliest <= u /\ u <= now /\ Owed(u)
<1>1. u \in Int /\ Earliest <= u /\ u <= now BY EarliestIs DEF Candidates, TimeTypes
<1>2. Matched(u) => Owed(u) BY <1>1, NamedIsOwed DEF Matched
<1>3. SkippedBefore(u) => Owed(u) BY <1>1, SkippedIsOwed DEF SkippedBefore
<1> QED BY <1>1, <1>2, <1>3 DEF Candidates

LEMMA DueIsLatest ==
    ASSUME TimeTypes, Candidates # {}
    PROVE  DueFireTime \in Candidates /\ \A u \in Candidates : u <= DueFireTime
<1>1. Candidates \subseteq Int /\ \A u \in Candidates : u <= now BY CandidateIsOwed
<1>2. now \in Int BY DEF TimeTypes
<1>3. LatestOf(Candidates) \in Candidates /\ \A u \in Candidates : u <= LatestOf(Candidates)
  BY <1>1, <1>2, LatestMember
<1> QED BY <1>3 DEF DueFireTime

(* An owed minute in the window is a candidate, save behind the gap.       *)
LEMMA OwedIsCandidate ==
    ASSUME TimeTypes, NEW u \in Int, Owed(u), u <= now, now >= u + StaggerFor(u), Earliest <= u
    PROVE  u \in Candidates \/ (u = Earliest /\ u = scene.shift /\ scene.by > 0)
<1>1. u \in Earliest .. now BY EarliestIs DEF TimeTypes
<1>2. CASE MatchesCron(Wall(u), fields) /\ ~(Again(u) /\ SpecificHours)
  BY <1>1, <1>2 DEF Candidates, Matched
<1>3. CASE \E w \in Lost(u - 1) : MatchesCron(w, fields)
  <2>1. u = scene.shift /\ scene.by > 0 BY <1>3, SkippedIsOwed
  <2>2. u > Earliest => SkippedBefore(u) BY <1>3 DEF SkippedBefore
  <2>3. u > Earliest \/ u = Earliest BY EarliestIs
  <2> QED BY <1>1, <2>1, <2>2, <2>3 DEF Candidates
<1> QED BY <1>2, <1>3, OwedIsNamed

(* A one-shot that is due is not early, and it is due from the last minute *)
(* of its name on.                                                         *)
LEMMA OneShotIsDue ==
    ASSUME TimeTypes, entry # None
    PROVE  /\ Wall(now) >= entry.time => LeastOf(Instants(entry.time)) <= now
           /\ LatestOneShot <= now => Wall(now) >= entry.time
           /\ LatestOneShot \in Int
<1>1. PICK b \in Int, k \in Nat, t \in Int :
        b = scene.by /\ k = scene.shift /\ t = entry.time /\ k + b >= 0
  BY SceneTypes
<1>2. now \in Int /\ now \in Nat BY DEF TimeTypes
<1>3. /\ Wall(now) \in Int
      /\ now >= k => Wall(now) = now + b
      /\ now < k => Wall(now) = now
  BY <1>1, <1>2, WallIs
<1>4. PICK lo \in Int, hi \in Int : lo = LeastOf(Instants(t)) /\ hi = LatestOf(Instants(t))
  BY <1>1, InstantsAre
<1>5. \A u \in Instants(t) : \/ Wall(u) = t /\ u \in {t, t - b}
                             \/ u = k /\ b > 0 /\ t >= k /\ t < k + b
  BY <1>1, InstantsAre
<1>6. lo \in Instants(t) /\ hi \in Instants(t)
      /\ (Wall(t) = t => lo <= t /\ t <= hi)
      /\ (Wall(t - b) = t => lo <= t - b /\ t - b <= hi)
  <2>1. Wall(t) = t => t \in Instants(t) BY <1>1, InstantsAre
  <2>2. Wall(t - b) = t => t - b \in Instants(t) BY <1>1, InstantsAre
  <2> QED BY <1>1, <1>4, <2>1, <2>2, InstantsAre
<1>7. /\ t >= k => Wall(t) = t + b
      /\ t < k => Wall(t) = t
      /\ t - b >= k => Wall(t - b) = t
      /\ t - b < k => Wall(t - b) = t - b
  <2>1. (t - b) + b = t /\ t - b \in Int BY <1>1
  <2> QED BY <1>1, <2>1, WallIs
<1>8. Wall(now) >= t => lo <= now
  <2>1. \/ Wall(lo) = t /\ lo \in {t, t - b}
        \/ lo = k /\ b > 0 /\ t >= k /\ t < k + b
    BY <1>5, <1>6
  <2> QED BY <1>1, <1>2, <1>3, <1>4, <1>6, <1>7, <2>1
<1>9. hi <= now => Wall(now) >= t
  <2>1. \/ Wall(hi) = t /\ hi \in {t, t - b}
        \/ hi = k /\ b > 0 /\ t >= k /\ t < k + b
    BY <1>5, <1>6
  <2> QED BY <1>1, <1>2, <1>3, <1>4, <1>6, <1>7, <2>1
<1> QED BY <1>1, <1>4, <1>8, <1>9 DEF LatestOneShot

-----------------------------------------------------------------------------
(* What is owed depends on the clock and on the entry alone.               *)
Rest == <<scene, stagger, entry>>

LEMMA EntryKept ==
    ASSUME UNCHANGED Rest
    PROVE  /\ Enabled' = Enabled /\ Scheduled' = Scheduled /\ OneShot' = OneShot
           /\ \A u : Owed(u)' = Owed(u) /\ StaggerFor(u)' = StaggerFor(u)
           /\ \A w : Instants(w)' = Instants(w)
           /\ LatestOneShot' = LatestOneShot
           /\ last' = last => \A u : Served(u)' = Served(u)
<1> USE DEF Rest
<1>1. \A u : Wall(u)' = Wall(u) /\ Again(u)' = Again(u) BY DEF Wall, Again
<1>2. fields' = fields BY DEF fields
<1>3. Enabled' = Enabled /\ Scheduled' = Scheduled /\ OneShot' = OneShot
  BY DEF Enabled, Scheduled, OneShot
<1>4. \A w : Instants(w)' = Instants(w) BY <1>1 DEF Instants
<1>5. SpecificHours' = SpecificHours /\ Distance' = Distance BY <1>2 DEF SpecificHours, Distance
<1>6. \A w : Runs(w)' = Runs(w) BY <1>4, <1>5 DEF Runs
<1>7. \A u : Owed(u)' = Owed(u) BY <1>2, <1>5, <1>6 DEF Owed
<1>8. \A u : StaggerFor(u)' = StaggerFor(u) BY <1>1, <1>2 DEF StaggerFor
<1>9. LatestOneShot' = LatestOneShot BY <1>4 DEF LatestOneShot
<1>10. last' = last => \A u : Served(u)' = Served(u) BY DEF Served, BehindTheGap
<1> QED BY <1>3, <1>4, <1>7, <1>8, <1>9, <1>10

LEMMA TimeInitInv == TimeInit => TimeInv
<1> SUFFICES ASSUME TimeInit PROVE TimeInv OBVIOUS
<1>1. TimeTypes BY CronTimeAssumption DEF TimeInit, TimeTypes
<1>2. ~Scheduled /\ ~OneShot BY DEF TimeInit, Scheduled, OneShot, Enabled
<1> QED BY <1>1, <1>2 DEF TimeInv, TimeInit, RunsOnlyOwed, Caught, AcceptedOnly

(* Up to the window's reach, what was caught with the last tick still is,  *)
(* since a tick in time comes before anything leaves the window.           *)
LEMMA WaitKeeps ==
    ASSUME TimeInv, WaitInTime \/ Outage
    PROVE  TimeInv'
<1> USE DEF TimeInv
<1>1. PICK d \in Nat : /\ now' = now + d /\ waiting /\ waiting' = FALSE /\ UNCHANGED <<Rest, last>>
                       /\ \/ d \in 1 .. MaxDelay /\ from' = from
                          \/ from' = now' - Window + 1
  <2>1. Window + 1 \in Nat BY SceneTypes
  <2>2. CASE WaitInTime
    <3>1. PICK d \in 1 .. MaxDelay : Wait(d) /\ UNCHANGED from BY <2>2 DEF WaitInTime
    <3>2. d \in Nat BY SceneTypes
    <3> QED BY <3>1, <3>2 DEF Wait, Rest, TimeTypes
  <2>3. CASE Outage BY <2>1, <2>3 DEF Outage, Wait, Rest, TimeTypes
  <2> QED BY <2>2, <2>3
<1>2. now \in Nat /\ from \in Int /\ Window \in Nat BY SceneTypes DEF TimeTypes
<1>3. now' \in Nat /\ from' \in Int BY <1>1, <1>2
<1>4. TimeTypes' BY <1>1, <1>3 DEF TimeTypes, Rest
<1>5. RunsOnlyOwed' BY <1>1, EntryKept DEF RunsOnlyOwed, Rest
<1>6. AcceptedOnly' BY <1>1 DEF AcceptedOnly, Rest
<1>7. ASSUME Scheduled', NEW u \in from' .. now' - Window, Owed(u)'
      PROVE  Served(u)'
  <2>1. Scheduled /\ Owed(u) BY <1>1, <1>7, EntryKept
  <2>2. d \in 1 .. MaxDelay /\ from' = from
    <3>1. from' <= now' - Window
      <4>0. from' \in Int /\ now' - Window \in Int
        <5>1. PICK n \in Nat, w \in Nat : n = now' /\ w = Window BY <1>2, <1>3
        <5> QED BY <5>1, <1>3
      <4>1. PICK a \in Int, b \in Int : a = from' /\ b = now' - Window BY <4>0
      <4>2. u \in a .. b BY <4>1, <1>7
      <4> QED BY <4>1, <4>2
    <3> QED BY <1>1, <1>2, <1>3, <3>1
  <2>3. u \in from .. now - 1 /\ now >= u + StaggerFor(u)
    <3>1. PICK g \in Nat : g = StaggerFor(u) /\ g <= MaxStagger BY StaggerIs
    <3>2. u \in Int /\ from <= u /\ u <= now + d - Window BY <1>1, <1>2, <1>3, <1>7, <2>2
    <3>3. d <= MaxDelay BY <2>2, SceneTypes
    <3> QED BY <3>1, <3>2, <3>3, <1>2, SceneTypes
  <2>4. Served(u) BY <1>1, <2>1, <2>3 DEF Caught
  <2> QED BY <1>1, <2>4, EntryKept
<1>8. Caught' BY <1>1, <1>7 DEF Caught
<1> QED BY <1>4, <1>5, <1>6, <1>8

LEMMA SubmitKeeps ==
    ASSUME TimeInv, NEW e \in scene.entries, Submit(e)
    PROVE  TimeInv'
<1> USE DEF TimeInv
<1>1. last = None /\ last' = None BY DEF Submit, TimeTypes
<1>2. now \in Nat /\ Window \in Nat /\ Window >= 1 BY SceneTypes DEF TimeTypes
<1>3. TimeTypes' BY <1>1 DEF Submit, TimeTypes
<1>4. RunsOnlyOwed' BY <1>1 DEF RunsOnlyOwed
<1>5. AcceptedOnly' BY DEF AcceptedOnly, Submit
<1>6. from' = now /\ now' = now BY DEF Submit
<1>7. from' .. now' - 1 = {} /\ from' .. now' - Window = {} BY <1>2, <1>6
<1>8. OneShot' => LatestOneShot' \in Int
  <2>1. OneShot' => entry' # None BY DEF OneShot, Enabled
  <2>2. (TimeTypes /\ entry # None => LatestOneShot \in Int)' BY OneShotIsDue, PTL
  <2> QED BY <1>3, <2>1, <2>2
<1>9. ASSUME NEW x \in Int PROVE ~(from' <= x /\ x < now') BY <1>2, <1>6
<1>10. Caught' BY <1>7, <1>8, <1>9 DEF Caught
<1> QED BY <1>3, <1>4, <1>5, <1>10

(* A tick looks at everything in its window.                               *)
LEMMA TickCatches ==
    ASSUME TimeInv, RunScheduled \/ RunOneShot \/ NothingDue
    PROVE  TimeInv'
<1> USE DEF TimeInv
<1>1. /\ Tick /\ waiting' /\ ~waiting /\ now' = now /\ from' = from /\ UNCHANGED Rest
  BY DEF RunScheduled, RunOneShot, NothingDue, Tick, Rest
<1>2. now \in Nat /\ from \in Int /\ Window \in Nat /\ None \notin Int /\ MaxStagger \in Nat
      /\ (last = None \/ last \in Int)
  BY SceneTypes DEF TimeTypes
<1>3. PICK E \in Int : E = Earliest BY EarliestIs
<1>4. ~(Scheduled /\ OneShot) BY DEF Scheduled, OneShot
<1>5. Scheduled =>
        /\ last' = last \/ (last' \in Int /\ last' >= E /\ last' <= now /\ Owed(last'))
        /\ \A u \in Candidates : last' \in Int /\ last' >= u
  <2> SUFFICES ASSUME Scheduled
               PROVE  /\ last' = last \/ (last' \in Int /\ last' >= E /\ last' <= now /\ Owed(last'))
                      /\ \A u \in Candidates : last' \in Int /\ last' >= u
    OBVIOUS
  <2>1. CASE Candidates = {}
    <3>1. UNCHANGED last
      BY <1>4, <2>1 DEF RunScheduled, RunOneShot, NothingDue
    <3> QED BY <2>1, <3>1
  <2>2. CASE Candidates # {}
    <3>1. last' = DueFireTime BY <1>4, <2>2 DEF RunScheduled, RunOneShot, NothingDue
    <3>2. last' \in Candidates /\ \A u \in Candidates : u <= last' BY <2>2, <3>1, DueIsLatest
    <3>3. last' \in Int /\ Earliest <= last' /\ last' <= now /\ Owed(last') BY <3>2, CandidateIsOwed
    <3> QED BY <3>2, <3>3, <1>3, CandidateIsOwed
  <2> QED BY <2>1, <2>2
<1>6. OneShot =>
        IF OneShotDue THEN last' = now ELSE last' = last
  BY <1>4 DEF RunScheduled, RunOneShot, NothingDue
<1>7. ~Scheduled /\ ~OneShot => last' = last
  BY DEF RunScheduled, RunOneShot, NothingDue
<1>8. last' \in Int \cup {None} /\ (last' # None => entry' # None)
  <2>1. Scheduled => last' \in Int \cup {None} BY <1>2, <1>5
  <2>2. OneShot => last' \in Int \cup {None} BY <1>2, <1>6
  <2>3. Scheduled \/ OneShot => entry # None BY DEF Scheduled, OneShot, Enabled
  <2> QED BY <1>1, <1>7, <2>1, <2>2, <2>3 DEF TimeTypes, Rest
<1>9. TimeTypes' BY <1>1, <1>8 DEF TimeTypes, Rest
<1>10. AcceptedOnly' BY <1>1 DEF AcceptedOnly, Rest
<1>11. RunsOnlyOwed'
  <2> SUFFICES ASSUME last' # None
               PROVE  /\ Scheduled => Owed(last')
                      /\ OneShot => LeastOf(Instants(entry.time)) <= last'
    <3>1. Scheduled' = Scheduled /\ OneShot' = OneShot BY <1>1, EntryKept
    <3>2. Owed(last)' = Owed(last') BY <1>1 DEF Owed, Runs, Instants, SpecificHours, Distance, fields,
                                             Wall, Rest
    <3>3. LeastOf(Instants(entry.time))' = LeastOf(Instants(entry.time))
      BY <1>1 DEF Instants, Wall, Rest
    <3> QED BY <3>1, <3>2, <3>3 DEF RunsOnlyOwed
  <2>1. Scheduled => Owed(last')
    BY <1>5 DEF RunsOnlyOwed
  <2>2. OneShot => LeastOf(Instants(entry.time)) <= last'
    <3> SUFFICES ASSUME OneShot PROVE LeastOf(Instants(entry.time)) <= last'
      OBVIOUS
    <3>1. entry # None BY DEF OneShot, Enabled
    <3>2. CASE OneShotDue
      BY <3>1, <3>2, <1>6, OneShotIsDue DEF OneShotDue
    <3>3. CASE ~OneShotDue
      BY <3>3, <1>6 DEF RunsOnlyOwed
    <3> QED BY <3>2, <3>3
  <2> QED BY <2>1, <2>2
<1>12. ASSUME Scheduled, NEW u \in from .. now - 1, Owed(u), now >= u + StaggerFor(u)
       PROVE  Served(u)'
  <2>1. u \in Int /\ from <= u /\ u <= now - 1 /\ u <= now BY <1>2, <1>12
  <2>2. \/ last' = last
        \/ (last' \in Int /\ last' >= E /\ last' <= now /\ Owed(last'))
    BY <1>5, <1>12
  <2>3. Served(u)' <=> \/ last' # None /\ last' >= u
                       \/ u = scene.shift /\ scene.by > 0 /\ last' = u - 1
    BY <1>1 DEF Served, BehindTheGap, Rest
  <2>4. CASE last' # None /\ last' >= u BY <2>3, <2>4
  <2>5. CASE E <= u
    <3>1. u \in Candidates \/ (u = E /\ u = scene.shift /\ scene.by > 0)
      BY <1>3, <1>12, <2>1, <2>5, OwedIsCandidate
    <3>2. u \in Candidates => last' \in Int /\ last' >= u BY <1>5, <1>12
    <3>3. ASSUME u = E, u = scene.shift, scene.by > 0
          PROVE  Served(u)'
      <4>1. CASE last' # last BY <4>1, <3>3, <2>2, <2>3, <1>2
      <4>2. CASE last' = last /\ E = now - Window
        <5>1. Served(u) BY <4>2, <3>3, <1>1, <1>12, <2>1, <1>2 DEF Caught
        <5> QED BY <5>1, <4>2, <1>1, EntryKept
      <4>3. CASE last' = last /\ last # None /\ E = last + 1
        <5>1. last = u - 1 BY <4>3, <3>3, <1>2
        <5> QED BY <5>1, <4>3, <3>3, <2>3
      <4> QED BY <4>1, <4>2, <4>3, <1>3, EarliestIs
    <3> QED BY <3>1, <3>2, <3>3, <2>3, <1>2
  <2>6. CASE u < E
    <3>1. CASE last # None /\ E = last + 1
      <4>1. last >= u BY <3>1, <2>1, <2>6, <1>2
      <4>2. last' >= last /\ last' # None
        BY <2>2, <3>1, <1>2, <1>3
      <4>3. last' >= u BY <4>1, <4>2, <2>1, <2>2, <3>1, <1>2
      <4> QED BY <4>2, <4>3, <2>3
    <3>2. CASE E = now - Window
      <4>1. Served(u) BY <3>2, <2>1, <2>6, <1>1, <1>2, <1>12 DEF Caught
      <4>2. CASE last' = last BY <4>1, <4>2, <1>1, EntryKept
      <4>3. CASE last' \in Int /\ last' >= E BY <4>3, <2>1, <2>3, <2>6, <1>2
      <4> QED BY <4>2, <4>3, <2>2
    <3> QED BY <3>1, <3>2, <1>3, EarliestIs
  <2> QED BY <2>1, <2>5, <2>6, <1>3
<1>13. ASSUME OneShot, from <= LatestOneShot, LatestOneShot < now
       PROVE  last' # None
  <2>1. entry # None BY <1>13 DEF OneShot, Enabled
  <2>2. LatestOneShot <= now /\ Wall(now) >= entry.time
    BY <2>1, <1>2, <1>13, OneShotIsDue
  <2>3. CASE last = None
    BY <2>2, <2>3, <1>2, <1>6, <1>13 DEF OneShotDue
  <2>4. CASE last # None
    BY <2>4, <1>6, <1>13 DEF OneShotDue
  <2> QED BY <2>3, <2>4
<1>14. Caught'
  <2>1. Scheduled' = Scheduled /\ OneShot' = OneShot /\ LatestOneShot' = LatestOneShot
        /\ \A u : Owed(u)' = Owed(u) /\ StaggerFor(u)' = StaggerFor(u)
    BY <1>1, EntryKept
  <2>2. ASSUME Scheduled', NEW u \in (from .. now - 1)', Owed(u)', now' >= u + StaggerFor(u)'
        PROVE  Served(u)'
    BY <2>1, <2>2, <1>1, <1>12
  <2>3. OneShot' => ((from <= LatestOneShot /\ LatestOneShot < now => last # None))'
    BY <2>1, <1>1, <1>13
  <2> QED BY <2>2, <2>3, <1>1 DEF Caught
<1> QED BY <1>9, <1>10, <1>11, <1>14

LEMMA TimeStep == TimeInv /\ [TimeNext]_timeVars => TimeInv'
<1>1. TimeInv /\ UNCHANGED timeVars => TimeInv'
  <2> SUFFICES ASSUME TimeInv, UNCHANGED timeVars PROVE TimeInv' OBVIOUS
  <2> USE DEF TimeInv, timeVars
  <2>1. TimeTypes' /\ AcceptedOnly' BY DEF TimeTypes, AcceptedOnly
  <2>2. RunsOnlyOwed' BY EntryKept DEF RunsOnlyOwed, Rest
  <2>3. Scheduled' = Scheduled /\ OneShot' = OneShot /\ LatestOneShot' = LatestOneShot
        /\ \A u : Owed(u)' = Owed(u) /\ StaggerFor(u)' = StaggerFor(u) /\ Served(u)' = Served(u)
    BY EntryKept DEF Rest
  <2>4. Caught' BY <2>3 DEF Caught
  <2> QED BY <2>1, <2>2, <2>4
<1>2. TimeInv /\ (\E e \in scene.entries : Submit(e)) => TimeInv' BY SubmitKeeps
<1>3. TimeInv /\ (WaitInTime \/ Outage) => TimeInv' BY WaitKeeps
<1>4. TimeInv /\ (RunScheduled \/ RunOneShot \/ NothingDue) => TimeInv' BY TickCatches
<1> QED BY <1>1, <1>2, <1>3, <1>4 DEF TimeNext

LEMMA TimeInvariant == TimeSpec => []TimeInv
<1> QED BY TimeInitInv, TimeStep, PTL DEF TimeSpec

(* A job runs for the minutes it is owed and for no others, and a one-shot *)
(* not before its time, on every clock that changes once, for every        *)
(* expression, catch-up window, stagger and time between ticks.            *)
THEOREM OnlyOwedRun == TimeSpec => []RunsOnlyOwed
<1>1. TimeInv => RunsOnlyOwed BY DEF TimeInv
<1> QED BY <1>1, TimeInvariant, PTL

(* While the ticks come no later than CATCHUP_MINUTES, no owed minute is   *)
(* lost, whichever clock, expression and stagger, other than the one       *)
(* behind the gap; and a one-shot whose minute is over has run.            *)
THEOREM OwedMinutesRun == TimeSpec => []OwedIsRun
<1>1. TimeInv => OwedIsRun
  <2> SUFFICES ASSUME TimeInv, waiting PROVE OwedIsRun BY DEF OwedIsRun
  <2> USE DEF TimeInv
  <2>1. now \in Nat /\ from \in Int /\ MaxDelay \in Nat /\ MaxDelay >= 1
    BY SceneTypes DEF TimeTypes
  <2>2. ASSUME Scheduled, NEW u \in from .. now - MaxDelay, Owed(u), now >= u + StaggerFor(u) + MaxDelay
        PROVE  Served(u)
    <3>1. PICK g \in Nat : g = StaggerFor(u) BY StaggerIs
    <3>2. u \in from .. now - 1 /\ now >= u + StaggerFor(u) BY <2>1, <2>2, <3>1
    <3> QED BY <2>2, <3>2 DEF Caught
  <2>3. ASSUME OneShot, from <= LatestOneShot, now >= LatestOneShot + MaxDelay
        PROVE  last # None
    <3>1. entry # None BY <2>3 DEF OneShot, Enabled
    <3>2. LatestOneShot \in Int BY <3>1, OneShotIsDue
    <3>3. LatestOneShot < now BY <3>2, <2>1, <2>3
    <3> QED BY <2>3, <3>3 DEF Caught
  <2>4. Scheduled => \A u \in from .. now - MaxDelay :
           Owed(u) /\ now >= u + StaggerFor(u) + MaxDelay => Served(u)
    BY <2>2
  <2>5. OneShot => (from <= LatestOneShot /\ now >= LatestOneShot + MaxDelay => last # None)
    BY <2>3
  <2> QED BY <2>4, <2>5 DEF OwedIsRun, Served, LatestOneShot
<1> QED BY <1>1, TimeInvariant, PTL

(* The next run that is listed is the next minute that is owed, for every  *)
(* expression and horizon: next_fire_time and due_fire_time agree.         *)
THEOREM NextRunIsOwed == TimeSpec => []ListedIsOwed
<1>1. TimeInv => ListedIsOwed
  <2> SUFFICES ASSUME TimeInv, NextFireTime # None, ~(SpecificHours /\ Again(NextFireTime))
               PROVE  Owed(NextFireTime) /\ \A u \in now + 1 .. NextFireTime - 1 : ~Owed(u)
    BY DEF ListedIsOwed
  <2> USE DEF TimeInv
  <2>1. now \in Nat /\ Horizon \in Nat BY SceneTypes DEF TimeTypes
  <2>2. FireMinutes # {} /\ NextFireTime = LeastOf(FireMinutes) BY DEF NextFireTime
  <2>3. FireMinutes \subseteq Int /\ \A u \in FireMinutes : now <= u BY <2>1 DEF FireMinutes
  <2>4. NextFireTime \in FireMinutes /\ \A y \in FireMinutes : NextFireTime <= y
    <3>1. now \in Int BY <2>1
    <3>2. LeastOf(FireMinutes) \in FireMinutes /\ \A y \in FireMinutes : LeastOf(FireMinutes) <= y
      BY <3>1, <2>2, <2>3, LeastMember
    <3> QED BY <3>2, <2>2
  <2>5. NextFireTime \in now + 1 .. now + Horizon BY <2>4 DEF FireMinutes
  <2>6. Owed(NextFireTime)
    <3>1. NextFireTime \in Int BY <2>3, <2>4
    <3>2. \/ MatchesCron(Wall(NextFireTime), fields)
          \/ \E w \in Lost(NextFireTime - 1) : MatchesCron(w, fields)
      BY <2>4 DEF FireMinutes
    <3> QED BY <3>1, <3>2, NamedIsOwed, SkippedIsOwed
  <2>7. ASSUME NEW u \in now + 1 .. NextFireTime - 1, Owed(u)
        PROVE  FALSE
    <3>1. u \in Int /\ u < NextFireTime /\ u \in now + 1 .. now + Horizon BY <2>1, <2>5, <2>7
    <3>2. u \in FireMinutes BY <2>7, <3>1, OwedIsNamed DEF FireMinutes
    <3> QED BY <3>1, <3>2, <2>3, <2>4
  <2> QED BY <2>6, <2>7
<1> QED BY <1>1, TimeInvariant, PTL

(* An entry that cron-manager accepts is one that load_jobs takes, save in *)
(* the three ways that are listed.                                         *)
THEOREM AcceptedLoads == TimeSpec => []AcceptedIsLoaded
<1>1. ASSUME NEW e, Accepts(e), ~Looser(e)
      PROVE  Loads(e)
  <2>1. /\ e.id # "bad" /\ Session(e) # "bad" /\ e.skill \notin {"empty", "bad"}
        /\ e.at # "bad" /\ e.enabled # "bad" /\ e.rotate_session # "bad"
        /\ e.deliver \notin {"null", "notobject", "badmode", "badchannel"}
    BY <1>1 DEF Accepts, Looser, Given
  <2>2. Coherent(e)
    BY <1>1 DEF Accepts, Looser, Given, Coherent, HasText, Session
  <2>3. e.schedule = "given" => Parses(e.expr)
    <3> SUFFICES ASSUME e.schedule = "given", NEW f \in FieldName, NEW p \in e.expr[f]
                 PROVE  ~Raises(p, f)
      BY DEF Parses
    <3>1. ValidPart(p, f) BY <1>1 DEF Accepts, Given, ValidExpression, ValidField
    <3>2. ~(p.form = "range" /\ p.lo > p.hi /\ p.step # {})
      BY <1>1 DEF Looser, EmptyRangeWithStep
    <3> QED BY <3>1, <3>2 DEF ValidPart, Raises
  <2> QED BY <2>1, <2>2, <2>3 DEF Loads
<1>2. TimeInv => AcceptedIsLoaded BY <1>1 DEF TimeInv, AcceptedOnly, AcceptedIsLoaded
<1> QED BY <1>2, TimeInvariant, PTL
=============================================================================
