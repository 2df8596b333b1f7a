----------------------------- MODULE SkillData -----------------------------
(***************************************************************************)
(* What the skills' scripts, the scheduler, `faff trust` and `faff update` *)
(* do to the lists they keep in small files: each operation is a function  *)
(* of what was read and returns what is written, or NoWrite.               *)
(*                                                                         *)
(*   queue      skills-data/carry-over/queue.json                          *)
(*   jobs       config/jobs.json                                           *)
(*   buffer     skills-data/preconscious/buffer.json                       *)
(*   reminders  skills-data/reminders/reminders.json                       *)
(*   learnings  LEARNINGS.md, and the rules promoted from it               *)
(*   daily      memory/daily/<date>.md                                     *)
(*   trust      state/trusted.json                                         *)
(*   words      skills-data/word-daily/word-state.json                     *)
(*   seen       skills-data/digest-engine/seen/<digest>.json               *)
(*   readings   readings/<sensor>.jsonl                                    *)
(*   watch      skills-data/weather/watch.json                             *)
(*                                                                         *)
(* Texts, times of day and the printed answers are left out.               *)
(***************************************************************************)
EXTENDS Integers, Sequences, FiniteSets, SequencesExt, FiniteSetsExt

CONSTANTS
    SimmerDays, \* SIMMER_DAYS
    MaxItems,   \* MAX_ITEMS of the preconscious buffer
    Word,       \* ids of words.json, in its order
    SeenDays,   \* SEEN_MAX_AGE_DAYS
    ReadingDays, \* READINGS_KEEP_DAYS
    Missing,    \* there is no file
    Empty,      \* a file that has just been truncated
    Garbled,    \* a file that is no JSON, or not of the right shape
    NoWrite,    \* the operation writes nothing
    Operation   \* the operations of the instance

ASSUME SkillDataAssumption ==
    /\ {SimmerDays, SeenDays, ReadingDays} \subseteq Nat
    /\ MaxItems \in Nat \ {0}
    /\ Word \subseteq Nat \ {0}

Unreadable == {Missing, Empty, Garbled}

ASSUME MarkerAssumption == \A c \in Unreadable : c \notin Seq([id : Nat])

(* What a tolerant reader takes an unreadable file for.                    *)
Items(c) == IF c \in Unreadable THEN <<>> ELSE c

(* The same of a file whose entries have no order.                         *)
Entries(c) == IF c \in Unreadable THEN {} ELSE c

Ids(s) == {s[k].id : k \in DOMAIN s}

Highest(s) == IF s = <<>> THEN 0 ELSE Max(Ids(s))

Mapped(s, Op(_)) == [k \in DOMAIN s |-> Op(s[k])]

-----------------------------------------------------------------------------
(* carry-over: id stands for the time stamp, which orders the items.       *)

Rank == [urgent |-> 0, normal |-> 1, curious |-> 2, simmering |-> 3]

Pending(q) == SelectSeq(q, LAMBDA x : x.status = "pending")

SortedPending(q) ==
    SortSeq(Pending(q), LAMBDA x, y :
        \/ Rank[x.priority] < Rank[y.priority]
        \/ Rank[x.priority] = Rank[y.priority] /\ x.id < y.id)

QueueAdd(c, priority, id, today) ==
    Append(Items(c), [id |-> id, priority |-> priority, day |-> today, status |-> "pending"])

(* done: all of the numbers of the sorted list, or none.                   *)
QueueDone(c, numbers) ==
    LET sorted == SortedPending(Items(c))
        marked == {sorted[n].id : n \in numbers \cap DOMAIN sorted}
    IN  IF numbers \subseteq DOMAIN sorted
        THEN Mapped(c, LAMBDA x : IF x.id \in marked /\ x.status = "pending"
                                  THEN [x EXCEPT !.status = "done"] ELSE x)
        ELSE NoWrite

QueueClear(c) ==
    IF Pending(Items(c)) = <<>> THEN NoWrite
    ELSE Mapped(c, LAMBDA x : [x EXCEPT !.status = "done"])

QueueWipe(c) == IF Items(c) = <<>> THEN NoWrite ELSE <<>>

Simmered(x, today) ==
    x.status = "pending" /\ x.priority = "simmering" /\ today - x.day >= SimmerDays

(* _promote_simmering, in get and in the bootstrap *)
QueuePromote(c, today) ==
    IF \E k \in DOMAIN Items(c) : Simmered(c[k], today)
    THEN Mapped(c, LAMBDA x : IF Simmered(x, today)
                              THEN [x EXCEPT !.priority = "normal"] ELSE x)
    ELSE NoWrite

-----------------------------------------------------------------------------
(* cron-manager, the scheduler and the update.  An unreadable table is     *)
(* refused, only a missing one is taken for empty.                         *)

JobAdd(c, id, def) ==
    IF c \in {Empty, Garbled} \/ id \in Ids(Items(c)) THEN NoWrite
    ELSE Append(Items(c), [id |-> id, def |-> def, enabled |-> TRUE])

JobChange(c, id, field, value) ==
    IF c \in {Empty, Garbled} \/ id \notin Ids(Items(c)) THEN NoWrite
    ELSE LET k == CHOOSE k \in DOMAIN c :
                     c[k].id = id /\ \A j \in 1 .. k - 1 : c[j].id # id
         IN  [c EXCEPT ![k][field] = value]

JobUpdate(c, id, def) == JobChange(c, id, "def", def)

JobToggle(c, id, enabled) == JobChange(c, id, "enabled", enabled)

JobRemove(c, id) ==
    IF c \in {Empty, Garbled} \/ id \notin Ids(Items(c)) THEN NoWrite
    ELSE SelectSeq(c, LAMBDA x : x.id # id)

(* _delete_job *)
JobDrop(c, id) ==
    IF c \in Unreadable THEN NoWrite ELSE SelectSeq(c, LAMBDA x : x.id # id)

(* _migrate_heartbeat_job *)
JobMigrate(c) ==
    IF c \in Unreadable \/ ~(\E k \in DOMAIN c : c[k].def = "old") THEN NoWrite
    ELSE Mapped(c, LAMBDA x : IF x.def = "old" THEN [x EXCEPT !.def = "new"] ELSE x)

-----------------------------------------------------------------------------
(* preconscious: an item has a currency c and an importance i.             *)

Score(x) == x.c + x.i

(* Python sorts stably: of equal scores the earlier stays first.           *)
Falling(s) ==
    LET before(j, k) == \/ Score(s[j]) > Score(s[k])
                        \/ Score(s[j]) = Score(s[k]) /\ j < k
        order == SortSeq([k \in DOMAIN s |-> k], before)
    IN  [k \in DOMAIN s |-> s[order[k]]]

Rising(s) ==
    LET before(j, k) == \/ Score(s[j]) < Score(s[k])
                        \/ Score(s[j]) = Score(s[k]) /\ j < k
        order == SortSeq([k \in DOMAIN s |-> k], before)
    IN  [k \in DOMAIN s |-> s[order[k]]]

BufferAdd(b, id, c, i) ==
    LET s == Items(b)
        more == Append(s, [id |-> id, c |-> c, i |-> i])
    IN  IF id \in Ids(s)
        THEN Mapped(s, LAMBDA x : IF x.id = id THEN [x EXCEPT !.c = c, !.i = i] ELSE x)
        ELSE IF Len(more) > MaxItems THEN Front(Falling(more)) ELSE more

BufferDecay(b) ==
    IF Items(b) = <<>> THEN NoWrite
    ELSE SelectSeq(Mapped(b, LAMBDA x : [x EXCEPT !.c = @ - 1]),
                   LAMBDA x : ~(x.c <= 0 /\ x.i <= 2))

BufferDropLowest(b) == IF Items(b) = <<>> THEN NoWrite ELSE Tail(Rising(b))

-----------------------------------------------------------------------------
(* reminders: a one-shot leaves the list when it is due, a recurring one   *)
(* is moved on.                                                            *)

ReminderAdd(c, due, recurring) ==
    Append(Items(c), [id |-> Highest(Items(c)) + 1, due |-> due, recurring |-> recurring])

ReminderRemove(c, id) ==
    IF id \in Ids(Items(c)) THEN SelectSeq(c, LAMBDA x : x.id # id) ELSE NoWrite

DueNow(c, today) == {x \in ToSet(Items(c)) : x.due <= today}

ReminderCheck(c, today) ==
    Mapped(SelectSeq(Items(c), LAMBDA x : x.due > today \/ x.recurring),
           LAMBDA x : IF x.due <= today THEN [x EXCEPT !.due = today + 1] ELSE x)

-----------------------------------------------------------------------------
(* self-review: LEARNINGS.md and the file a learning is promoted to.       *)

LearningAdd(c) ==
    Append(Items(c), [id |-> Highest(Items(c)) + 1, status |-> "pending"])

Promotable(c, id) == \E k \in DOMAIN Items(c) : c[k] = [id |-> id, status |-> "pending"]

LearningMark(c, id) ==
    Mapped(c, LAMBDA x : IF x.id = id THEN [x EXCEPT !.status = "promoted"] ELSE x)

RuleAppend(c, id) == Append(Items(c), [id |-> id])

-----------------------------------------------------------------------------
(* The daily note, its stamp, and the header morning-routine begins it with *)

NoteAppend(c, id) == Append(Items(c), [id |-> id])

Stamp == [id |-> 0]

NoteStamp(c) == IF Stamp \in ToSet(Items(c)) THEN NoWrite ELSE Append(Items(c), Stamp)

NotePrepare(c) == IF c = Missing THEN <<>> ELSE NoWrite

-----------------------------------------------------------------------------
(* The trust store: the version of a file that the operator vouched for.   *)

TrustFile(c, id, version) ==
    {x \in Entries(c) : x.id # id} \cup {[id |-> id, version |-> version]}

UntrustFile(c, id) ==
    IF \E x \in Entries(c) : x.id = id THEN {x \in Entries(c) : x.id # id} ELSE NoWrite

Vouches(c, id, version) == [id |-> id, version |-> version] \in Entries(c)

-----------------------------------------------------------------------------
(* word-daily: a card for each word, and the last one sent.  What is       *)
(* further away than the six days of a second pass counts as six.          *)

NewCard == [status |-> "new", reps |-> 0, sent |-> -1, due |-> 0]
FreshWords == [cards |-> [w \in Word |-> NewCard], last |-> [id |-> 0, day |-> -1]]
Progress(c) == IF c \in Unreadable THEN FreshWords ELSE c

ScoreStatus(score) == IF score = 0 THEN "skip" ELSE <<"hard", "learning", "familiar", "easy", "known">>[score]

(* The interval runs from the day the word was sent.                       *)
Scheduled(card, score, today) ==
    LET reps == IF score = 1 THEN 0 ELSE card.reps + 1
        interval == IF score = 1 \/ (reps = 1 /\ score # 5) THEN 1 ELSE 6
        sent == IF card.sent < 0 THEN today ELSE card.sent
    IN  [card EXCEPT !.reps = reps, !.due = sent + interval]

(* A word by its id, or the last one sent (0).                             *)
WordScore(c, id, score, today) ==
    LET p == Progress(c)
        w == IF id = 0 THEN p.last.id ELSE id
        card == [p.cards[w] EXCEPT !.status = ScoreStatus(score)]
    IN  IF w = 0 THEN NoWrite
        ELSE [p EXCEPT !.cards[w] = IF score = 0 THEN [card EXCEPT !.due = 0]
                                    ELSE Scheduled(card, score, today)]

WordSend(p, w, today) ==
    LET card == [p.cards[w] EXCEPT !.sent = today]
    IN  [cards |-> [p.cards EXCEPT ![w] =
                      IF card.status = "new"
                      THEN [card EXCEPT !.status = "learning", !.due = today + 1] ELSE card],
         last |-> [id |-> w, day |-> today]]

(* The most overdue, of two the one that was not recalled; else any new    *)
(* one (the words are of one level); else the next to come.  The word of   *)
(* the day is sent once.                                                   *)
WordPick(c, choice, today) ==
    LET p == Progress(c)
        new == {w \in Word : p.cards[w].status = "new"}
        known == {w \in Word \ new : p.cards[w].status # "skip"}
        due == {w \in known : p.cards[w].due <= today}
        hard(w) == IF p.cards[w].status = "hard" THEN 0 ELSE 1
        before(v, w) == \/ p.cards[v].due < p.cards[w].due
                        \/ /\ p.cards[v].due = p.cards[w].due
                           /\ hard(v) < hard(w) \/ (hard(v) = hard(w) /\ v < w)
        next(v, w) == \/ p.cards[v].due < p.cards[w].due
                      \/ p.cards[v].due = p.cards[w].due /\ v < w
        First(ws, Earlier(_, _)) == CHOOSE w \in ws : \A v \in ws \ {w} : Earlier(w, v)
    IN  IF p.last.day = today THEN NoWrite
        ELSE IF due # {} THEN WordSend(p, First(due, before), today)
        ELSE IF new # {} THEN WordSend(p, IF choice \in new THEN choice ELSE Min(new), today)
        ELSE IF known \ {p.last.id} # {} THEN WordSend(p, First(known \ {p.last.id}, next), today)
        ELSE NoWrite

-----------------------------------------------------------------------------
(* digest-engine: what a digest has shown.  All fetched items are marked,  *)
(* and what has not been in the feeds for long is forgotten.               *)

Seen(c) == IF c \in Unreadable THEN {} ELSE c

Recent(seen, today) == {x \in seen : x.last >= today - SeenDays}

SeenMark(c, items, today) ==
    LET old(i) == {x \in Seen(c) : x.id = i}
        first(i) == IF old(i) = {} THEN today ELSE (CHOOSE x \in old(i) : TRUE).first
        marked == {[id |-> i, first |-> first(i), last |-> today] : i \in items}
        rest == {x \in Seen(c) : x.id \notin items}
    IN  Recent(marked \cup rest, today)

-----------------------------------------------------------------------------
(* The sensors: a log of readings, and the state that decides on triggers. *)

ReadingAppend(c, id, today) ==
    Append(SelectSeq(Items(c), LAMBDA x : x.day >= today - ReadingDays), [id |-> id, day |-> today])

WatchSet(c, outlook) ==
    IF outlook = (IF c \in Unreadable THEN "dry" ELSE c) THEN NoWrite ELSE outlook

-----------------------------------------------------------------------------
(* One operation, on what it read, in a world that has a day, a version of *)
(* the file that is trusted, and a fresh id.                               *)

Fields == {"file", "do", "id", "with", "numbers"}

(* What is done to each file.                                              *)
Does ==
    [queue |-> {"queue add", "queue done", "queue clear", "queue wipe", "queue promote"},
     jobs |-> {"job add", "job update", "job enable", "job disable", "job remove",
               "job drop", "job migrate"},
     buffer |-> {"buffer add", "buffer decay", "buffer drop_lowest"},
     reminders |-> {"reminder add", "reminder remove", "reminder check"},
     learnings |-> {"learning add", "learning mark"},
     rules |-> {"rule append"},
     daily |-> {"note append", "note stamp", "note prepare"},
     trust |-> {"trust", "untrust", "load"},
     words |-> {"word pick", "word score", "word reset"},
     seen |-> {"seen mark", "seen reset"},
     readings |-> {"reading append"},
     watch |-> {"watch"}]

(* The second half of promoting a learning: what is written to its target. *)
Rule(o) == [o EXCEPT !.file = "rules", !.do = "rule append"]

(* A promotion is done with both its halves, and whoever changes the trust *)
(* store has loaded it.                                                    *)
ASSUME OperationAssumption ==
    \A o \in Operation :
        /\ DOMAIN o = Fields
        /\ o.file \in DOMAIN Does /\ o.do \in Does[o.file]
        /\ o.id \in Nat
        /\ o.do = "learning mark" => Rule(o) \in Operation
        /\ o.file = "trust" => \E l \in Operation : l.file = "trust" /\ l.do = "load"

Outcome(o, c, w) ==
    CASE o.do = "queue add" -> QueueAdd(c, o.with, w.fresh, w.day)
      [] o.do = "queue done" -> QueueDone(c, o.numbers)
      [] o.do = "queue clear" -> QueueClear(c)
      [] o.do = "queue wipe" -> QueueWipe(c)
      [] o.do = "queue promote" -> QueuePromote(c, w.day)
      [] o.do = "job add" -> JobAdd(c, o.id, o.with)
      [] o.do = "job update" -> JobUpdate(c, o.id, o.with)
      [] o.do = "job enable" -> JobToggle(c, o.id, TRUE)
      [] o.do = "job disable" -> JobToggle(c, o.id, FALSE)
      [] o.do = "job remove" -> JobRemove(c, o.id)
      [] o.do = "job drop" -> JobDrop(c, o.id)
      [] o.do = "job migrate" -> JobMigrate(c)
      [] o.do = "buffer add" -> BufferAdd(c, o.id, o.with[1], o.with[2])
      [] o.do = "buffer decay" -> BufferDecay(c)
      [] o.do = "buffer drop_lowest" -> BufferDropLowest(c)
      [] o.do = "reminder add" -> ReminderAdd(c, w.day + o.with[1], o.with[2])
      [] o.do = "reminder remove" -> ReminderRemove(c, o.id)
      [] o.do = "reminder check" -> ReminderCheck(c, w.day)
      [] o.do = "learning add" -> LearningAdd(c)
      [] o.do = "learning mark" ->
            IF Promotable(c, o.id) THEN LearningMark(c, o.id) ELSE NoWrite
      [] o.do = "rule append" -> RuleAppend(c, o.id)
      [] o.do = "note append" -> NoteAppend(c, w.fresh)
      [] o.do = "note stamp" -> NoteStamp(c)
      [] o.do = "note prepare" -> NotePrepare(c)
      [] o.do = "trust" -> TrustFile(c, o.id, w.version)
      [] o.do = "untrust" -> UntrustFile(c, o.id)
      [] o.do = "word pick" -> WordPick(c, o.id, w.day)
      [] o.do = "word score" -> WordScore(c, o.id, o.with, w.day)
      [] o.do = "word reset" -> FreshWords
      [] o.do = "seen mark" -> SeenMark(c, o.numbers, w.day)
      [] o.do = "seen reset" -> IF c = Missing THEN NoWrite ELSE Missing
      [] o.do = "reading append" -> ReadingAppend(c, w.fresh, w.day)
      [] o.do = "watch" -> WatchSet(c, o.with)
      [] o.do = "load" -> IF c \in {Empty, Garbled} THEN Missing ELSE NoWrite

=============================================================================
