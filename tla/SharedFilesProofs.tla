------------------------ MODULE SharedFilesProofs -------------------------
(* What SharedFiles does for every set of processes, of operations and of *)
(* starting contents: who is at which file, which files still change      *)
(* atomically, and what becomes of trust and of promoted learnings.       *)
EXTENDS SharedFiles, SequenceTheorems, FiniteSetTheorems, WellFoundedInduction, TLAPS

-----------------------------------------------------------------------------
(* Invariants *)

Shape == DOMAIN Idle

(* An operation that has begun will write what it makes of what it read,   *)
(* in a world no later than w; trust keeps the version it hashed.          *)
Doing(x, w) ==
    /\ DOMAIN x = Shape
    /\ x.op \in Operation
    /\ \E u \in Atomic!Before(w) :
          x.out = Outcome(x.op, x.base, u) /\ (x.op.file = "trust" => x.hash = u.version)

(* The learning that waits for its rule to be written.                     *)
Marks(x, y) ==
    /\ x.then.at = "read" /\ ~x.then.astray
    /\ x.then.op.do = "learning mark"
    /\ x.then.op.id = y

Clocks == day \in Nat /\ version \in Nat \ {0} /\ ops \in Nat

(* What a process is at agrees with the locks, and what was read under a   *)
(* lock is still there, except in the job table once a migration has begun. *)
Right(p) ==
    /\ DOMAIN proc[p] = Shape
    /\ proc[p].at \in {"idle", "holding", "read", "truncated"}
    /\ proc[p].at # "idle" => Doing(proc[p], World)
    /\ proc[p].at # "idle" /\ proc[p].op.do = "job migrate" => migrated
    /\ proc[p].at # "idle" /\ proc[p].op.do = "rule append" =>
          Doing(proc[p].then, World) /\ Marks(proc[p], proc[p].op.id)
    /\ proc[p].at = "holding" =>
          /\ TakesLock(proc[p].op) /\ holder[File(p)] = p
          /\ data[File(p)] = proc[p].base \/ (File(p) = "jobs" /\ migrated)
    /\ proc[p].at \in {"read", "truncated"} => ~TakesLock(proc[p].op)
    /\ proc[p].at = "read" => ~proc[p].astray

ProcInv ==
    /\ data = [f \in Files |-> data[f]]
    /\ holder = [f \in Locked |-> holder[f]]
    /\ proc = [p \in Process |-> proc[p]]
    /\ Clocks
    /\ broken \subseteq Files
    /\ \A p \in Process : Right(p)

(* The writer of a file finds it as he left it, and is alone.              *)
OneWriter(f) ==
    \A p \in Writers(f) :
        /\ \A q \in Writers(f) : q = p
        /\ ~proc[p].astray
        /\ f # "daily" => data[f] = Empty

WriteInv == \A f \in Files \ broken : OneWriter(f)

-----------------------------------------------------------------------------
(* Operators *)

LEMMA ShapeIs ==
    Shape = {"at", "op", "base", "out", "hash", "astray", "then", "known"}
BY DEF Shape, Idle

LEMMA FilesAre == DOMAIN Does = Files
BY DEF Does, Files, Locked, InPlace

(* Every operation is of a file that has it.                               *)
LEMMA OperationType ==
    ASSUME NEW o \in Operation
    PROVE  /\ o.file \in Files /\ o.do \in Does[o.file] /\ o.id \in Nat
           /\ DOMAIN o = Fields
           /\ o.do = "learning mark" => Rule(o) \in Operation
BY OperationAssumption, FilesAre

(* The table of operations, file by file.                                  *)
LEMMA DoesOf ==
    /\ Does["queue"] = {"queue add", "queue done", "queue clear", "queue wipe",
                        "queue promote"}
    /\ Does["jobs"] = {"job add", "job update", "job enable", "job disable",
                        "job remove", "job drop", "job migrate"}
    /\ Does["buffer"] = {"buffer add", "buffer decay", "buffer drop_lowest"}
    /\ Does["reminders"] = {"reminder add", "reminder remove", "reminder check"}
    /\ Does["learnings"] = {"learning add", "learning mark"}
    /\ Does["rules"] = {"rule append"}
    /\ Does["daily"] = {"note append", "note stamp", "note prepare"}
    /\ Does["trust"] = {"trust", "untrust", "load"}
    /\ Does["words"] = {"word pick", "word score", "word reset"}
    /\ Does["seen"] = {"seen mark", "seen reset"}
    /\ Does["readings"] = {"reading append"}
    /\ Does["watch"] = {"watch"}
BY DEF Does

(* The operations that SharedFiles tells apart, and their files.           *)
LEMMA WhoseOperation ==
    ASSUME NEW o \in Operation
    PROVE  /\ o.do = "job migrate" => o.file = "jobs"
           /\ o.do \in {"learning add", "learning mark"} <=> o.file = "learnings"
           /\ o.do = "rule append" <=> o.file = "rules"
           /\ o.do = "seen reset" => o.file = "seen"
           /\ o.do = "note append" => o.file = "daily"
           /\ o.do \in {"trust", "untrust", "load"} <=> o.file = "trust"
           /\ o.file = "jobs" => o.do \in {"job add", "job update", "job enable", "job disable",
                                      "job remove", "job drop", "job migrate"}
<1>1. o.file \in {"queue", "jobs", "buffer", "reminders", "learnings", "rules", "daily", "trust",
                  "words", "seen", "readings", "watch"} /\ o.do \in Does[o.file]
  BY OperationType DEF Files, Locked, InPlace
<1>2. CASE o.file = "queue" BY <1>2, <1>1, DoesOf
<1>3. CASE o.file = "jobs" BY <1>3, <1>1, DoesOf
<1>4. CASE o.file = "buffer" BY <1>4, <1>1, DoesOf
<1>5. CASE o.file = "reminders" BY <1>5, <1>1, DoesOf
<1>6. CASE o.file = "learnings" BY <1>6, <1>1, DoesOf
<1>7. CASE o.file = "rules" BY <1>7, <1>1, DoesOf
<1>8. CASE o.file = "daily" BY <1>8, <1>1, DoesOf
<1>9. CASE o.file = "trust" BY <1>9, <1>1, DoesOf
<1>10. CASE o.file = "words" BY <1>10, <1>1, DoesOf
<1>11. CASE o.file = "seen" BY <1>11, <1>1, DoesOf
<1>12. CASE o.file = "readings" BY <1>12, <1>1, DoesOf
<1>13. CASE o.file = "watch" BY <1>13, <1>1, DoesOf
<1>14. QED BY <1>1, <1>2, <1>3, <1>4, <1>5, <1>6, <1>7, <1>8, <1>9, <1>10, <1>11, <1>12, <1>13

LEMMA RuleIs ==
    ASSUME NEW o \in Operation, o.do = "learning mark"
    PROVE  /\ Rule(o) \in Operation
           /\ Rule(o).file = "rules" /\ Rule(o).do = "rule append" /\ Rule(o).id = o.id
BY OperationType DEF Rule, Fields

(* Without the lock only the migration touches a locked file.              *)
LEMMA WithoutLock ==
    ASSUME NEW o \in Operation, ~TakesLock(o)
    PROVE  /\ o.file \in InPlace \/ (o.file = "jobs" /\ o.do = "job migrate")
           /\ o.file # "queue"
BY OperationType, WhoseOperation DEF TakesLock, Files, Locked, InPlace

(* Nothing is made of a job table that has just been truncated.            *)
LEMMA EmptyJobs ==
    ASSUME NEW o \in Operation, o.file = "jobs", o.do # "job migrate", NEW w
    PROVE  Outcome(o, Empty, w) = NoWrite
<1>1. o.do \in {"job add", "job update", "job enable", "job disable", "job remove", "job drop"}
  BY WhoseOperation
<1>2. JobAdd(Empty, o.id, o.with) = NoWrite BY DEF JobAdd
<1>3. \A x, v : JobChange(Empty, o.id, x, v) = NoWrite BY DEF JobChange
<1>4. JobRemove(Empty, o.id) = NoWrite BY DEF JobRemove
<1>5. JobDrop(Empty, o.id) = NoWrite BY DEF JobDrop, Unreadable
<1>6. QED BY <1>1, <1>2, <1>3, <1>4, <1>5 DEF Outcome, JobUpdate, JobToggle

LEMMA ResetOutcome ==
    ASSUME NEW o, o.do = "seen reset", NEW c, NEW w
    PROVE  Outcome(o, c, w) = IF c = Missing THEN NoWrite ELSE Missing
BY DEF Outcome

LEMMA LoadOutcome ==
    ASSUME NEW o, o.do = "load", NEW c, NEW w
    PROVE  Outcome(o, c, w) = IF c \in {Empty, Garbled} THEN Missing ELSE NoWrite
BY DEF Outcome

(* The world only moves on.                                                *)
LEMMA WorldNow == Clocks => World \in Atomic!Before(World)
BY DEF Clocks, World, Atomic!Before

Later(w, u) ==
    /\ {w.day, w.version, w.fresh, u.day, u.version, u.fresh} \subseteq Nat
    /\ w.day <= u.day /\ w.version <= u.version /\ w.fresh <= u.fresh

LEMMA BeforeGrows ==
    ASSUME NEW w, NEW u, Later(w, u)
    PROVE  Atomic!Before(w) \subseteq Atomic!Before(u)
BY DEF Atomic!Before, Later

LEMMA DoingStays ==
    ASSUME NEW x, NEW w, NEW u, Doing(x, w), Later(w, u)
    PROVE  Doing(x, u)
BY BeforeGrows DEF Doing

(* What an operation is at does not depend on where it writes.             *)
LEMMA DoingAlike ==
    ASSUME NEW x, NEW y, NEW w, Doing(x, w), DOMAIN y = Shape,
           y.op = x.op, y.base = x.base, y.out = x.out, y.hash = x.hash
    PROVE  Doing(y, w)
BY DEF Doing

-----------------------------------------------------------------------------
(* What the processes are at *)

(* Time goes on, and a migration that has begun has begun.                 *)
LEMMA ClocksMove ==
    ASSUME Clocks, [Next]_vars
    PROVE  Clocks' /\ Later(World, World') /\ (migrated => migrated')
<1> DEFINE Moved == Clocks' /\ Later(World, World') /\ (migrated => migrated')
<1>0. ASSUME day' = day, version' = version, ops' \in {ops, ops + 1}, migrated => migrated'
      PROVE  Moved
  BY <1>0 DEF Clocks, World, Later
<1> SUFFICES Moved OBVIOUS
<1> HIDE DEF Moved
<1>1. ASSUME NEW p \in Process, NEW o \in Operation, Lock(p, o) PROVE Moved
  BY <1>0, <1>1 DEF Lock, Begin
<1>2. ASSUME NEW p \in Process, NEW o \in Operation, Read(p, o) PROVE Moved
  <2>1. day' = day /\ version' = version /\ ops' = ops + 1 BY <1>2 DEF Read, Begin
  <2>2. migrated => migrated' BY <1>2 DEF Read
  <2>3. QED BY <1>0, <2>1, <2>2
<1>3. ASSUME NEW o \in Operation, AppendNote(o) PROVE Moved
  BY <1>0, <1>3 DEF AppendNote, Begin
<1>4. ASSUME NEW p \in Process,
             \/ Replace(p) \/ Promote(p) \/ NothingToWrite(p) \/ Truncate(p) \/ Write(p)
             \/ Unlink(p) \/ Quarantine(p) \/ Bootstrap(p) \/ Kill(p)
      PROVE  Moved
  <2>1. CASE Replace(p) \/ Promote(p) \/ NothingToWrite(p) \/ Truncate(p)
    BY <1>0, <2>1 DEF Replace, Promote, NothingToWrite, Truncate
  <2>2. CASE Write(p) \/ Unlink(p) \/ Quarantine(p) \/ Bootstrap(p) \/ Kill(p)
    BY <1>0, <2>2 DEF Write, Unlink, Quarantine, Bootstrap, Kill
  <2>3. QED BY <1>4, <2>1, <2>2
<1>5. CASE MemoryChanges BY <1>5 DEF MemoryChanges, Clocks, World, Later, Moved
<1>6. CASE Midnight BY <1>6 DEF Midnight, Clocks, World, Later, Moved
<1>7. CASE UNCHANGED vars
  <2>1. day' = day /\ version' = version /\ ops' = ops /\ migrated' = migrated
    BY <1>7 DEF vars
  <2>2. QED BY <1>0, <2>1
<1>8. CASE Next BY <1>8, <1>1, <1>2, <1>3, <1>4, <1>5, <1>6, ZenonT(60) DEF Next
<1>9. QED BY <1>7, <1>8

(* A process that another one's step leaves where it is.                   *)
LEMMA Unmoved ==
    ASSUME NEW q \in Process, Right(q), Clocks, Later(World, World'), migrated => migrated',
           \/ proc'[q] = proc[q]
           \/ proc[q].at = "truncated" /\ proc'[q] = [proc[q] EXCEPT !.astray = TRUE],
           proc[q].at = "holding" =>
              /\ holder'[File(q)] = holder[File(q)]
              /\ data'[File(q)] = data[File(q)] \/ (File(q) = "jobs" /\ migrated')
    PROVE  Right(q)'
<1> DEFINE x == proc[q]
           y == proc'[q]
<1>1. /\ DOMAIN y = Shape /\ y.at = x.at /\ y.op = x.op /\ y.base = x.base /\ y.out = x.out
      /\ y.hash = x.hash /\ y.then = x.then /\ (x.at = "read" => y.astray = x.astray)
  BY ShapeIs DEF Right
<1>2. x.at # "idle" => Doing(y, World')
  <2>1. x.at # "idle" => Doing(y, World) BY <1>1, DoingAlike DEF Right
  <2>2. QED BY <2>1, DoingStays
<1>3. x.at # "idle" /\ x.op.do = "rule append" => Doing(y.then, World')
  BY <1>1, DoingStays DEF Right
<1>4. x.at = "holding" =>
         /\ TakesLock(x.op) /\ holder'[x.op.file] = q
         /\ data'[x.op.file] = x.base \/ (x.op.file = "jobs" /\ migrated')
  <2>1. x.at = "holding" =>
           /\ TakesLock(x.op) /\ holder[x.op.file] = q
           /\ data[x.op.file] = x.base \/ (x.op.file = "jobs" /\ migrated)
    BY DEF Right, File
  <2>2. File(q) = x.op.file BY DEF File
  <2> HIDE DEF x
  <2>3. QED BY <2>1, <2>2 DEF x
<1> HIDE DEF x, y
<1>5. /\ x.at \in {"idle", "holding", "read", "truncated"}
      /\ x.at # "idle" /\ x.op.do = "job migrate" => migrated
      /\ x.at # "idle" /\ x.op.do = "rule append" =>
            /\ x.then.at = "read" /\ ~x.then.astray
            /\ x.then.op.do = "learning mark"
            /\ x.then.op.id = x.op.id
      /\ x.at \in {"read", "truncated"} => ~TakesLock(x.op)
      /\ x.at = "read" => ~x.astray
  BY DEF Right, Marks, x
<1>6. /\ DOMAIN y = Shape
      /\ y.at \in {"idle", "holding", "read", "truncated"}
      /\ y.at # "idle" => Doing(y, World')
      /\ y.at # "idle" /\ y.op.do = "job migrate" => migrated'
      /\ y.at # "idle" /\ y.op.do = "rule append" =>
            Doing(y.then, World') /\ Marks(y, y.op.id)
      /\ y.at = "holding" =>
            /\ TakesLock(y.op) /\ holder'[y.op.file] = q
            /\ data'[y.op.file] = y.base \/ (y.op.file = "jobs" /\ migrated')
      /\ y.at \in {"read", "truncated"} => ~TakesLock(y.op)
      /\ y.at = "read" => ~y.astray
  BY <1>1, <1>2, <1>3, <1>4, <1>5 DEF Marks
<1>7. QED BY <1>6 DEF Right, File, y

(* A process that has just begun an operation.                             *)
Started(x, at, o) ==
    /\ DOMAIN x = Shape
    /\ x.at = at /\ x.op = o /\ x.base = data[o.file]
    /\ x.out = Outcome(o, data[o.file], World)
    /\ x.hash = version /\ x.astray = FALSE /\ x.then = None /\ x.known = vouched

LEMMA AtStarts ==
    ASSUME NEW p \in Process, NEW at, NEW o, At(p, at, o), proc = [q \in Process |-> proc[q]]
    PROVE  /\ Started(proc'[p], at, o)
           /\ proc' = [q \in Process |-> proc'[q]]
           /\ \A q \in Process \ {p} : proc'[q] = proc[q]
<1> DEFINE new == [Idle EXCEPT !.at = at, !.op = o, !.base = data[o.file],
                               !.out = Outcome(o, data[o.file], World),
                               !.hash = version, !.known = vouched]
<1>1. Started(new, at, o) BY DEF Started, Shape, Idle
<1>2. proc' = [proc EXCEPT ![p] = new] BY DEF At
<1> HIDE DEF new
<1>3. proc'[p] = new /\ \A q \in Process \ {p} : proc'[q] = proc[q]
  BY <1>2
<1>4. proc' = [q \in Process |-> proc'[q]] BY <1>2
<1>5. QED BY <1>1, <1>3, <1>4

LEMMA StartedDoes ==
    ASSUME NEW x, NEW at, NEW o \in Operation, Started(x, at, o), Clocks
    PROVE  Doing(x, World)
BY WorldNow DEF Started, Doing, World

(* One who has begun is right, holding the lock or reading.                *)
LEMMA StartedRight ==
    ASSUME NEW p \in Process, NEW at, NEW o \in Operation, Started(proc'[p], at, o),
           Clocks, Later(World, World'), o.do # "rule append",
           o.do = "job migrate" => migrated',
           \/ at = "holding" /\ TakesLock(o) /\ holder'[o.file] = p /\ data' = data
           \/ at = "read" /\ ~TakesLock(o)
    PROVE  Right(p)'
<1>1. Doing(proc'[p], World') BY StartedDoes, DoingStays
<1>2. QED BY <1>1 DEF Right, Started, File

LEMMA IdleRight ==
    ASSUME NEW p \in Process, proc'[p] = Idle
    PROVE  Right(p)'
<1>1. proc'[p].at = "idle" /\ DOMAIN proc'[p] = Shape BY DEF Idle, Shape
<1>2. QED BY <1>1 DEF Right


(* The others are where they were; who had the file f open for writing may *)
(* have lost it.                                                           *)
Stay(p, f) ==
    \A q \in Process \ {p} :
        \/ proc'[q] = proc[q]
        \/ q \in Writers(f) /\ proc'[q] = [proc[q] EXCEPT !.astray = TRUE]

(* p becomes x, and the file it was at is another one.                     *)
LEMMA AstrayBut ==
    ASSUME NEW p \in Process, NEW f, NEW x, proc' = [Astray(f, proc) EXCEPT ![p] = x]
    PROVE  proc'[p] = x /\ proc' = [q \in Process |-> proc'[q]] /\ Stay(p, f)
<1> DEFINE lost == Astray(f, proc)
<1>1. lost = [q \in Process |-> lost[q]] BY DEF Astray
<1>2. \A q \in Process : lost[q] = proc[q] \/ (q \in Writers(f) /\ lost[q] = [proc[q] EXCEPT !.astray = TRUE])
  BY DEF Astray
<1>3. proc' = [lost EXCEPT ![p] = x] OBVIOUS
<1> HIDE DEF lost
<1>4. proc'[p] = x /\ \A q \in Process \ {p} : proc'[q] = lost[q] BY <1>1, <1>3
<1>5. proc' = [q \in Process |-> proc'[q]] BY <1>1, <1>3
<1>6. QED BY <1>2, <1>4, <1>5 DEF Stay

LEMMA ChangesOne ==
    ASSUME NEW p \in Process, NEW f, NEW x, proc = [q \in Process |-> proc[q]],
           proc' = [proc EXCEPT ![p] = x]
    PROVE  proc'[p] = x /\ proc' = [q \in Process |-> proc'[q]] /\ Stay(p, f)
BY DEF Stay

(* Promoting goes on with the rule, and the learning waits.                *)
LEMMA PromoteBecomes ==
    ASSUME ProcInv, NEW p \in Process, Promote(p)
    PROVE  /\ proc[p].at = "read" /\ proc[p].op.do = "learning mark"
           /\ proc[p].then = None
           /\ proc'[p].at = "read" /\ proc'[p].op = Rule(proc[p].op)
           /\ proc'[p].base = data["rules"]
           /\ proc'[p].out = Outcome(Rule(proc[p].op), data["rules"], World)
           /\ ~proc'[p].astray
           /\ proc'[p].then = proc[p] /\ DOMAIN proc'[p] = Shape
           /\ proc' = [q \in Process |-> proc'[q]]
           /\ Stay(p, "learnings")
           /\ \A q \in Process \ {p} : proc'[q] = proc[q]
<1> DEFINE new == [Idle EXCEPT !.at = "read", !.op = Rule(proc[p].op), !.base = data["rules"],
                               !.out = Outcome(Rule(proc[p].op), data["rules"], World),
                               !.then = proc[p]]
<1>1. /\ new.at = "read" /\ new.op = Rule(proc[p].op) /\ new.base = data["rules"]
      /\ new.out = Outcome(Rule(proc[p].op), data["rules"], World)
      /\ ~new.astray /\ new.then = proc[p] /\ DOMAIN new = Shape
  BY DEF Idle, Shape
<1>2. proc' = [proc EXCEPT ![p] = new] /\ proc[p].then = None
  BY DEF Promote
<1>3. proc[p].at = "read" /\ proc[p].op.do = "learning mark" BY DEF Promote, In
<1>4. proc = [q \in Process |-> proc[q]] BY DEF ProcInv
<1> HIDE DEF new
<1>5. \A q \in Process \ {p} : proc'[q] = proc[q] BY <1>2, <1>4
<1>6. QED BY <1>1, <1>2, <1>3, <1>4, <1>5, ChangesOne

(* Who writes is writing, unless he lost the file before.                  *)
LEMMA TruncateBecomes ==
    ASSUME ProcInv, NEW p \in Process, Truncate(p)
    PROVE  /\ proc[p].at = "read"
           /\ proc'[p].at = "truncated" /\ DOMAIN proc'[p] = Shape
           /\ proc'[p].op = proc[p].op /\ proc'[p].base = proc[p].base
           /\ proc'[p].out = proc[p].out /\ proc'[p].hash = proc[p].hash
           /\ proc'[p].then = proc[p].then /\ proc'[p].astray = proc[p].astray
           /\ proc' = [q \in Process |-> proc'[q]]
           /\ Stay(p, File(p))
<1> DEFINE new == [proc[p] EXCEPT !.at = "truncated"]
<1>1. DOMAIN proc[p] = Shape /\ proc = [q \in Process |-> proc[q]] BY DEF ProcInv, Right
<1>2. /\ new.at = "truncated" /\ DOMAIN new = Shape /\ new.op = proc[p].op
      /\ new.base = proc[p].base /\ new.out = proc[p].out /\ new.hash = proc[p].hash
      /\ new.then = proc[p].then /\ new.astray = proc[p].astray
  BY <1>1, ShapeIs
<1>3. proc' = [proc EXCEPT ![p] = new] /\ proc[p].at = "read"
  BY DEF Truncate, Writes, In
<1> HIDE DEF new
<1>4. QED BY <1>1, <1>2, <1>3, ChangesOne

(* Who has written a rule is at the learning that waited for it.           *)
LEMMA WriteBecomes ==
    ASSUME ProcInv, NEW p \in Process, Write(p)
    PROVE  /\ proc[p].at = "truncated" /\ proc[p].op \in Operation
           /\ proc[p].op.do # "rule append" => proc'[p] = Idle
           /\ proc[p].op.do = "rule append" =>
                 /\ Doing(proc[p].then, World) /\ Marks(proc[p], proc[p].op.id)
                 /\ proc'[p].at = "read" /\ DOMAIN proc'[p] = Shape
                 /\ proc'[p].op = proc[p].then.op /\ proc'[p].base = proc[p].then.base
                 /\ proc'[p].out = proc[p].then.out /\ proc'[p].hash = proc[p].then.hash
                 /\ ~proc'[p].astray
           /\ proc' = [q \in Process |-> proc'[q]]
           /\ Stay(p, File(p))
<1> DEFINE after == [proc[p].then EXCEPT !.then = proc[p].op]
           new == IF proc[p].op.do = "rule append" THEN after ELSE Idle
<1>1. proc[p].at = "truncated" /\ proc' = [proc EXCEPT ![p] = new] BY DEF Write, In
<1>2. proc = [q \in Process |-> proc[q]] /\ Doing(proc[p], World) BY <1>1 DEF ProcInv, Right
<1>3. proc[p].op \in Operation BY <1>2 DEF Doing
<1>4. ASSUME proc[p].op.do = "rule append"
      PROVE  /\ Doing(proc[p].then, World) /\ Marks(proc[p], proc[p].op.id)
             /\ new.at = "read" /\ DOMAIN new = Shape
             /\ new.op = proc[p].then.op /\ new.base = proc[p].then.base
             /\ new.out = proc[p].then.out /\ new.hash = proc[p].then.hash
             /\ ~new.astray
  <2>1. Doing(proc[p].then, World) /\ Marks(proc[p], proc[p].op.id)
    BY <1>1, <1>4 DEF ProcInv, Right
  <2>2. DOMAIN proc[p].then = Shape /\ proc[p].then.at = "read" /\ ~proc[p].then.astray
    BY <2>1 DEF Doing, Marks
  <2>3. new = after BY <1>4
  <2>4. /\ after.at = "read" /\ DOMAIN after = Shape
        /\ after.op = proc[p].then.op /\ after.base = proc[p].then.base
        /\ after.out = proc[p].then.out /\ after.hash = proc[p].then.hash
        /\ ~after.astray
    BY <2>2, ShapeIs
  <2> HIDE DEF new, after
  <2>5. QED BY <2>1, <2>3, <2>4
<1>5. proc[p].op.do # "rule append" => new = Idle OBVIOUS
<1> HIDE DEF new
<1>6. proc'[p] = new /\ proc' = [q \in Process |-> proc'[q]] /\ Stay(p, File(p))
  BY <1>1, <1>2, ChangesOne
<1>7. QED BY <1>1, <1>3, <1>4, <1>5, <1>6

(* Who moved the trust store away has found none.                          *)
LEMMA QuarantineBecomes ==
    ASSUME ProcInv, NEW p \in Process, Quarantine(p)
    PROVE  /\ proc[p].at = "read" /\ File(p) = "trust"
           /\ proc'[p].at = "read" /\ DOMAIN proc'[p] = Shape
           /\ proc'[p].op = proc[p].op /\ proc'[p].base = Missing
           /\ proc'[p].out = Outcome(proc[p].op, Missing, World)
           /\ proc'[p].hash = version /\ proc'[p].known = proc[p].known
           /\ proc'[p].then = proc[p].then /\ proc'[p].astray = proc[p].astray
           /\ proc' = [q \in Process |-> proc'[q]]
           /\ Stay(p, "trust")
<1> DEFINE lost == Astray("trust", proc)
           new == [proc[p] EXCEPT !.base = Missing, !.hash = version,
                                  !.out = Outcome(proc[p].op, Missing, World)]
<1>1. DOMAIN proc[p] = Shape BY DEF ProcInv, Right
<1>2. /\ new.at = proc[p].at /\ DOMAIN new = Shape /\ new.op = proc[p].op /\ new.base = Missing
      /\ new.out = Outcome(proc[p].op, Missing, World)
      /\ new.hash = version /\ new.known = proc[p].known
      /\ new.then = proc[p].then /\ new.astray = proc[p].astray
  BY <1>1, ShapeIs
<1>3. proc[p].at = "read" /\ File(p) = "trust" BY DEF Quarantine, In
<1>4. lost[p] = proc[p] BY <1>3 DEF Astray, Writers, In
<1>5. proc' = [lost EXCEPT ![p].base = Missing, ![p].hash = version,
                           ![p].out = Outcome(proc[p].op, Missing, World)]
  BY DEF Quarantine
<1>6. lost = [q \in Process |-> lost[q]] BY DEF Astray
<1>7. proc' = [lost EXCEPT ![p] = new]
  <2> HIDE DEF lost
  <2>1. QED BY <1>4, <1>5, <1>6
<1> HIDE DEF new
<1>8. proc' = [Astray("trust", proc) EXCEPT ![p] = new] BY <1>7 DEF lost
<1>9. QED BY <1>2, <1>3, <1>8, AstrayBut


(* Only who has begun at a file, without its lock, changes it.             *)
LEMMA StayRight ==
    ASSUME ProcInv, NEW p \in Process, NEW f, Stay(p, f),
           Clocks, Later(World, World'), migrated => migrated',
           \A g \in Locked : holder'[g] = holder[g] \/ holder[g] \in {p, None},
           \A g \in Locked : data'[g] = data[g] \/ holder[g] = p \/ (g = "jobs" /\ migrated')
    PROVE  \A q \in Process \ {p} : Right(q)'
<1> SUFFICES ASSUME NEW q \in Process \ {p} PROVE Right(q)' OBVIOUS
<1>1. Right(q) /\ q # p /\ q # None BY SharedFilesAssumption DEF ProcInv
<1>2. proc'[q] = proc[q] \/ (proc[q].at = "truncated" /\ proc'[q] = [proc[q] EXCEPT !.astray = TRUE])
  BY DEF Stay, Writers, In
<1>3. ASSUME proc[q].at = "holding"
      PROVE  /\ holder'[File(q)] = holder[File(q)]
             /\ data'[File(q)] = data[File(q)] \/ (File(q) = "jobs" /\ migrated')
  <2>1. File(q) \in Locked /\ holder[File(q)] = q BY <1>1, <1>3 DEF Right, File, TakesLock
  <2>2. QED BY <1>1, <2>1
<1>4. QED BY <1>1, <1>2, <1>3, Unmoved

(* A file is changed by the operations it has.                             *)
LEMMA FileOf ==
    ASSUME ProcInv, NEW p \in Process, proc[p].at # "idle"
    PROVE  /\ proc[p].op \in Operation /\ File(p) \in Files
           /\ proc[p].at \in {"read", "truncated"} =>
                 /\ File(p) \in InPlace \/ (File(p) = "jobs" /\ migrated)
                 /\ File(p) # "queue"
<1>1. Right(p) /\ Doing(proc[p], World) BY DEF ProcInv, Right
<1>2. proc[p].op \in Operation BY <1>1 DEF Doing
<1>3. proc[p].at \in {"read", "truncated"} => ~TakesLock(proc[p].op) BY <1>1 DEF Right
<1>4. proc[p].op.do = "job migrate" => migrated BY <1>1 DEF Right
<1>5. QED BY <1>2, <1>3, <1>4, OperationType, WithoutLock DEF File

(* An operation that takes no lock changes no file that others lock.       *)
LEMMA InPlaceOnly ==
    ASSUME ProcInv, NEW p \in Process, proc[p].at \in {"read", "truncated"},
           migrated => migrated', holder' = holder,
           \A g \in Files : g # File(p) => data'[g] = data[g]
    PROVE  /\ \A g \in Locked : holder'[g] = holder[g] \/ holder[g] \in {p, None}
           /\ \A g \in Locked : data'[g] = data[g] \/ holder[g] = p \/ (g = "jobs" /\ migrated')
BY FileOf DEF Files, Locked, InPlace

(* Every process is right if p is, and the rest of the state in shape.     *)
LEMMA AllRight ==
    ASSUME NEW p \in Process, Right(p)', \A q \in Process \ {p} : Right(q)', Clocks',
           data' = [f \in Files |-> data'[f]], holder' = [f \in Locked |-> holder'[f]],
           proc' = [q \in Process |-> proc'[q]], broken' \subseteq Files
    PROVE  ProcInv'
BY DEF ProcInv

LEMMA InitProc == Init => ProcInv
<1> SUFFICES ASSUME Init PROVE ProcInv OBVIOUS
<1>1. Clocks /\ broken \subseteq Files BY DEF Init, Clocks
<1>2. proc = [p \in Process |-> Idle] /\ holder = [f \in Locked |-> None] BY DEF Init
<1>3. \E begin : data = [f \in Files |-> IF f \in play THEN begin[f] ELSE Missing] BY DEF Init
<1>4. \A p \in Process : Right(p)
  <2> SUFFICES ASSUME NEW p \in Process PROVE Right(p) OBVIOUS
  <2>1. proc[p] = Idle BY <1>2
  <2>2. proc[p].at = "idle" /\ DOMAIN proc[p] = Shape BY <2>1 DEF Idle, Shape
  <2>3. QED BY <2>2 DEF Right
<1>5. QED BY <1>1, <1>2, <1>3, <1>4 DEF ProcInv

LEMMA NextProc == ASSUME ProcInv, [Next]_vars PROVE ProcInv'
<1>0. /\ Clocks /\ Clocks' /\ Later(World, World') /\ (migrated => migrated')
      /\ data = [f \in Files |-> data[f]] /\ holder = [f \in Locked |-> holder[f]]
      /\ proc = [q \in Process |-> proc[q]] /\ broken \subseteq Files
  BY ClocksMove DEF ProcInv
<1>1. ASSUME NEW p \in Process, NEW o \in Operation, Lock(p, o) PROVE ProcInv'
  <2>1. /\ data' = data /\ broken' = broken /\ holder' = [holder EXCEPT ![o.file] = p]
        /\ holder[o.file] = None /\ TakesLock(o) /\ At(p, "holding", o)
    BY <1>1 DEF Lock
  <2>2. o.file \in Locked /\ o.do # "job migrate" /\ o.do # "rule append"
    BY <2>1, WhoseOperation DEF TakesLock, Locked
  <2>3. /\ Started(proc'[p], "holding", o) /\ proc' = [q \in Process |-> proc'[q]]
        /\ Stay(p, o.file)
    BY <1>0, <2>1, AtStarts DEF Stay
  <2>4. holder' = [f \in Locked |-> holder'[f]] /\ holder'[o.file] = p
        /\ \A g \in Locked : holder'[g] = holder[g] \/ holder[g] \in {p, None}
    BY <1>0, <2>1, <2>2
  <2>5. Right(p)' BY <1>0, <2>1, <2>2, <2>3, <2>4, StartedRight
  <2>6. \A q \in Process \ {p} : Right(q)' BY <1>0, <2>1, <2>3, <2>4, StayRight
  <2>7. QED BY <1>0, <2>1, <2>3, <2>4, <2>5, <2>6, AllRight
<1>2. ASSUME NEW p \in Process, NEW o \in Operation, Read(p, o) PROVE ProcInv'
  <2>1. /\ data' = data /\ broken' = broken /\ holder' = holder
        /\ ~TakesLock(o) /\ o.do # "rule append" /\ (o.do = "job migrate" => migrated')
        /\ proc' = proc \/ At(p, "read", o)
    BY <1>2 DEF Read
  <2>2. Stay(p, o.file) /\ proc' = [q \in Process |-> proc'[q]]
    BY <1>0, <2>1, AtStarts DEF Stay
  <2>3. \A q \in Process \ {p} : Right(q)' BY <1>0, <2>1, <2>2, StayRight
  <2>4. CASE proc' = proc
    <3>1. Right(p) /\ proc'[p] = proc[p] BY <2>4 DEF ProcInv
    <3>2. Right(p)' BY <1>0, <2>1, <3>1, Unmoved
    <3>3. QED BY <1>0, <2>1, <2>2, <2>3, <3>2, AllRight
  <2>5. CASE At(p, "read", o)
    <3>1. Started(proc'[p], "read", o) BY <1>0, <2>5, AtStarts
    <3>2. Right(p)' BY <1>0, <2>1, <3>1, StartedRight
    <3>3. QED BY <1>0, <2>1, <2>2, <2>3, <3>2, AllRight
  <2>6. QED BY <2>1, <2>4, <2>5
<1>3. ASSUME NEW o \in Operation, AppendNote(o) PROVE ProcInv'
  <2>1. /\ data' = [data EXCEPT ![o.file] = Outcome(o, data[o.file], World)]
        /\ broken' = broken /\ holder' = holder /\ proc' = proc /\ o.file = "daily"
    BY <1>3, WhoseOperation DEF AppendNote, Appends
  <2>2. /\ data' = [f \in Files |-> data'[f]]
        /\ \A g \in Locked : data'[g] = data[g]
    BY <1>0, <2>1 DEF Files, Locked, InPlace
  <2>3. \A q \in Process : Right(q)'
    <3> SUFFICES ASSUME NEW q \in Process PROVE Right(q)' OBVIOUS
    <3>1. Right(q) /\ proc'[q] = proc[q] BY <2>1 DEF ProcInv
    <3>2. proc[q].at = "holding" => File(q) \in Locked BY <3>1 DEF Right, TakesLock, File
    <3>3. QED BY <1>0, <2>1, <2>2, <3>1, <3>2, Unmoved
  <2>4. QED BY <1>0, <2>1, <2>2, <2>3 DEF ProcInv
<1>4. ASSUME NEW p \in Process, Replace(p) PROVE ProcInv'
  <2>1. /\ proc[p].at = "holding" /\ holder' = [holder EXCEPT ![File(p)] = None]
        /\ \/ proc' = [proc EXCEPT ![p] = Idle] /\ data' = data /\ broken' = broken
           \/ /\ proc' = [Astray(File(p), proc) EXCEPT ![p] = Idle]
              /\ data' = [data EXCEPT ![File(p)] = proc[p].out]
              /\ broken' \in {broken, broken \cup {File(p)}}
    BY <1>4 DEF Replace, In, Breaks
  <2>2. holder[File(p)] = p /\ File(p) \in Locked /\ File(p) \in Files
    BY <2>1 DEF ProcInv, Right, TakesLock, File, Files
  <2>3. proc'[p] = Idle /\ proc' = [q \in Process |-> proc'[q]] /\ Stay(p, File(p))
    BY <1>0, <2>1, AstrayBut, ChangesOne
  <2>4. /\ data' = [f \in Files |-> data'[f]] /\ holder' = [f \in Locked |-> holder'[f]]
        /\ broken' \subseteq Files
        /\ \A g \in Locked : holder'[g] = holder[g] \/ holder[g] \in {p, None}
        /\ \A g \in Locked : data'[g] = data[g] \/ holder[g] = p
    <3>1. data' = [f \in Files |-> data'[f]] /\ holder' = [f \in Locked |-> holder'[f]]
      BY <1>0, <2>1
    <3>2. broken' \subseteq Files BY <1>0, <2>1, <2>2
    <3>3. \A g \in Locked : holder'[g] = holder[g] \/ holder[g] \in {p, None}
      BY <1>0, <2>1, <2>2
    <3>4. \A g \in Locked : data'[g] = data[g] \/ holder[g] = p
      BY <1>0, <2>1, <2>2 DEF Files
    <3>5. QED BY <3>1, <3>2, <3>3, <3>4
  <2>5. Right(p)' BY <2>3, IdleRight
  <2>6. \A q \in Process \ {p} : Right(q)' BY <1>0, <2>3, <2>4, StayRight
  <2>7. QED BY <1>0, <2>3, <2>4, <2>5, <2>6, AllRight
<1>5. ASSUME NEW p \in Process, Promote(p) PROVE ProcInv'
  <2>1. data' = data /\ broken' = broken /\ holder' = holder BY <1>5 DEF Promote
  <2>2. /\ proc[p].at = "read" /\ proc[p].op.do = "learning mark"
        /\ proc'[p].at = "read" /\ proc'[p].op = Rule(proc[p].op)
        /\ proc'[p].base = data["rules"]
        /\ proc'[p].out = Outcome(Rule(proc[p].op), data["rules"], World)
        /\ ~proc'[p].astray /\ proc'[p].then = proc[p] /\ DOMAIN proc'[p] = Shape
        /\ proc' = [q \in Process |-> proc'[q]] /\ Stay(p, "learnings")
    BY <1>5, PromoteBecomes
  <2>3. proc[p].op \in Operation /\ Doing(proc[p], World) /\ ~proc[p].astray
    BY <2>2 DEF ProcInv, Right, Doing
  <2>4. /\ Rule(proc[p].op) \in Operation /\ Rule(proc[p].op).file = "rules"
        /\ Rule(proc[p].op).do = "rule append" /\ Rule(proc[p].op).id = proc[p].op.id
    BY <2>2, <2>3, RuleIs
  <2>5. Doing(proc'[p], World')
    <3>1. Doing(proc'[p], World) BY <1>0, <2>2, <2>4, WorldNow DEF Doing
    <3>2. QED BY <1>0, <3>1, DoingStays
  <2>6. Doing(proc'[p].then, World') /\ Marks(proc'[p], proc'[p].op.id)
    BY <1>0, <2>2, <2>3, <2>4, DoingStays DEF Marks
  <2>7. ~TakesLock(proc'[p].op) BY <2>2, <2>4 DEF TakesLock, Locked
  <2>8. Right(p)' BY <2>2, <2>4, <2>5, <2>6, <2>7 DEF Right
  <2>9. \A q \in Process \ {p} : Right(q)' BY <1>0, <2>1, <2>2, StayRight
  <2>10. QED BY <1>0, <2>1, <2>2, <2>8, <2>9, AllRight
<1>6. ASSUME NEW p \in Process, NothingToWrite(p) \/ Bootstrap(p) \/ Kill(p) PROVE ProcInv'
  <2>1. /\ proc' = [proc EXCEPT ![p] = Idle] /\ data' = data
        /\ holder' = holder \/ holder' = [f \in Locked |-> IF holder[f] = p THEN None ELSE holder[f]]
    BY <1>6 DEF NothingToWrite, Bootstrap, Kill
  <2>2. broken' \subseteq Files
    <3>1. CASE NothingToWrite(p) \/ Bootstrap(p) BY <1>0, <3>1 DEF NothingToWrite, Bootstrap
    <3>2. CASE Kill(p)
      <4>1. File(p) \in Files BY <3>2, FileOf DEF Kill, In
      <4>2. QED BY <1>0, <3>2, <4>1 DEF Kill, Breaks
    <3>3. QED BY <1>6, <3>1, <3>2
  <2>3. proc'[p] = Idle /\ proc' = [q \in Process |-> proc'[q]] /\ Stay(p, File(p))
    BY <1>0, <2>1, ChangesOne
  <2>4. /\ holder' = [f \in Locked |-> holder'[f]]
        /\ \A g \in Locked : holder'[g] = holder[g] \/ holder[g] \in {p, None}
    BY <1>0, <2>1
  <2>5. Right(p)' BY <2>3, IdleRight
  <2>6. \A q \in Process \ {p} : Right(q)' BY <1>0, <2>1, <2>3, <2>4, StayRight
  <2>7. QED BY <1>0, <2>1, <2>2, <2>3, <2>4, <2>5, <2>6, AllRight
<1>7. ASSUME NEW p \in Process, Truncate(p) PROVE ProcInv'
  <2>1. /\ data' = [data EXCEPT ![File(p)] = Empty] /\ holder' = holder
        /\ broken' \in {broken, broken \cup {File(p)}}
    BY <1>7 DEF Truncate, Breaks
  <2>2. /\ proc[p].at = "read"
        /\ proc'[p].at = "truncated" /\ DOMAIN proc'[p] = Shape
        /\ proc'[p].op = proc[p].op /\ proc'[p].base = proc[p].base
        /\ proc'[p].out = proc[p].out /\ proc'[p].hash = proc[p].hash
        /\ proc'[p].then = proc[p].then /\ proc'[p].astray = proc[p].astray
        /\ proc' = [q \in Process |-> proc'[q]]
        /\ Stay(p, File(p))
    BY <1>7, TruncateBecomes
  <2>3. File(p) \in Files BY <2>2, FileOf
  <2>4. /\ data' = [f \in Files |-> data'[f]] /\ broken' \subseteq Files
        /\ \A g \in Files : g # File(p) => data'[g] = data[g]
    BY <1>0, <2>1, <2>3
  <2>5. \A q \in Process \ {p} : Right(q)' BY <1>0, <2>1, <2>2, <2>4, InPlaceOnly, StayRight
  <2>6. Right(p)'
    <3>1. /\ Doing(proc[p], World)
          /\ proc[p].op.do = "job migrate" => migrated
          /\ proc[p].op.do = "rule append" => Doing(proc[p].then, World) /\ Marks(proc[p], proc[p].op.id)
          /\ ~TakesLock(proc[p].op)
      BY <2>2 DEF ProcInv, Right
    <3>2. Doing(proc'[p], World') BY <1>0, <2>2, <3>1, DoingAlike, DoingStays
    <3>3. proc'[p].op.do = "rule append" => Doing(proc'[p].then, World') /\ Marks(proc'[p], proc'[p].op.id)
      BY <1>0, <2>2, <3>1, DoingStays DEF Marks
    <3>4. QED BY <1>0, <2>2, <3>1, <3>2, <3>3 DEF Right
  <2>7. QED BY <1>0, <2>1, <2>2, <2>4, <2>5, <2>6, AllRight
<1>8. ASSUME NEW p \in Process, Write(p) PROVE ProcInv'
  <2>1. /\ data' = data \/ data' = [data EXCEPT ![File(p)] = proc[p].out]
        /\ holder' = holder /\ broken' \in {broken, broken \cup {File(p)}}
    BY <1>8 DEF Write, Breaks
  <2>2. /\ proc[p].at = "truncated" /\ proc[p].op \in Operation
        /\ proc[p].op.do # "rule append" => proc'[p] = Idle
        /\ proc[p].op.do = "rule append" =>
              /\ Doing(proc[p].then, World) /\ Marks(proc[p], proc[p].op.id)
              /\ proc'[p].at = "read" /\ DOMAIN proc'[p] = Shape
              /\ proc'[p].op = proc[p].then.op /\ proc'[p].base = proc[p].then.base
              /\ proc'[p].out = proc[p].then.out /\ proc'[p].hash = proc[p].then.hash
              /\ ~proc'[p].astray
        /\ proc' = [q \in Process |-> proc'[q]]
        /\ Stay(p, File(p))
    BY <1>8, WriteBecomes
  <2>3. File(p) \in Files BY <2>2, FileOf
  <2>4. /\ data' = [f \in Files |-> data'[f]] /\ broken' \subseteq Files
        /\ \A g \in Files : g # File(p) => data'[g] = data[g]
    BY <1>0, <2>1, <2>3
  <2>5. \A q \in Process \ {p} : Right(q)' BY <1>0, <2>1, <2>2, <2>4, InPlaceOnly, StayRight
  <2>6. Right(p)'
    <3>1. CASE proc[p].op.do # "rule append" BY <2>2, <3>1, IdleRight
    <3>2. CASE proc[p].op.do = "rule append"
      <4>1. Doing(proc'[p], World') BY <1>0, <2>2, <3>2, DoingAlike, DoingStays
      <4>2. proc'[p].op \in Operation /\ proc'[p].op.do = "learning mark"
        BY <2>2, <3>2, <4>1 DEF Marks, Doing
      <4>3. proc'[p].op.file = "learnings" BY <4>2, WhoseOperation
      <4>4. ~TakesLock(proc'[p].op) BY <4>3 DEF TakesLock, Locked
      <4>5. QED BY <2>2, <3>2, <4>1, <4>2, <4>4 DEF Right
    <3>3. QED BY <3>1, <3>2
  <2>7. QED BY <1>0, <2>1, <2>2, <2>4, <2>5, <2>6, AllRight
<1>9. ASSUME NEW p \in Process, Unlink(p) PROVE ProcInv'
  <2>1. /\ proc[p].at = "read" /\ proc' = [Astray(File(p), proc) EXCEPT ![p] = Idle]
        /\ data' = [data EXCEPT ![File(p)] = Missing] /\ holder' = holder
        /\ broken' \in {broken, broken \cup {File(p)}}
    BY <1>9 DEF Unlink, Writes, In, Breaks
  <2>2. proc'[p] = Idle /\ proc' = [q \in Process |-> proc'[q]] /\ Stay(p, File(p))
    BY <2>1, AstrayBut
  <2>3. File(p) \in Files BY <2>1, FileOf
  <2>4. /\ data' = [f \in Files |-> data'[f]] /\ broken' \subseteq Files
        /\ \A g \in Files : g # File(p) => data'[g] = data[g]
    BY <1>0, <2>1, <2>3
  <2>5. \A q \in Process \ {p} : Right(q)' BY <1>0, <2>1, <2>2, <2>4, InPlaceOnly, StayRight
  <2>6. Right(p)' BY <2>2, IdleRight
  <2>7. QED BY <1>0, <2>1, <2>2, <2>4, <2>5, <2>6, AllRight
<1>10. ASSUME NEW p \in Process, Quarantine(p) PROVE ProcInv'
  <2>1. /\ data' = [data EXCEPT !["trust"] = Missing] /\ holder' = holder
        /\ broken' \in {broken, broken \cup {"trust"}}
    BY <1>10 DEF Quarantine, Breaks
  <2>2. /\ proc[p].at = "read" /\ File(p) = "trust"
        /\ proc'[p].at = "read" /\ DOMAIN proc'[p] = Shape
        /\ proc'[p].op = proc[p].op /\ proc'[p].base = Missing
        /\ proc'[p].out = Outcome(proc[p].op, Missing, World)
        /\ proc'[p].hash = version
        /\ proc'[p].astray = proc[p].astray
        /\ proc' = [q \in Process |-> proc'[q]]
        /\ Stay(p, "trust")
    BY <1>10, QuarantineBecomes
  <2>3. File(p) \in Files BY <2>2, FileOf
  <2>4. /\ data' = [f \in Files |-> data'[f]] /\ broken' \subseteq Files
        /\ \A g \in Files : g # File(p) => data'[g] = data[g]
    BY <1>0, <2>1, <2>2, <2>3
  <2>5. \A q \in Process \ {p} : Right(q)' BY <1>0, <2>1, <2>2, <2>4, InPlaceOnly, StayRight
  <2>6. Right(p)'
    <3>1. proc[p].op \in Operation /\ ~proc[p].astray /\ ~TakesLock(proc[p].op)
      BY <2>2 DEF ProcInv, Right, Doing
    <3>2. proc'[p].op.do # "rule append" /\ proc'[p].op.do # "job migrate"
      BY <2>2, <3>1, WhoseOperation DEF File
    <3>3. Doing(proc'[p], World)
      BY <1>0, <2>2, <3>1, WorldNow DEF Doing, World
    <3>4. Doing(proc'[p], World') BY <1>0, <3>3, DoingStays
    <3>5. QED BY <2>2, <3>1, <3>2, <3>4 DEF Right
  <2>7. QED BY <1>0, <2>1, <2>2, <2>4, <2>5, <2>6, AllRight
<1>11. ASSUME data' = data, holder' = holder, proc' = proc, broken' = broken PROVE ProcInv'
  <2>1. \A q \in Process : Right(q)'
    <3> SUFFICES ASSUME NEW q \in Process PROVE Right(q)' OBVIOUS
    <3>1. Right(q) /\ proc'[q] = proc[q] BY <1>11 DEF ProcInv
    <3>2. QED BY <1>0, <1>11, <3>1, Unmoved
  <2>2. QED BY <1>0, <1>11, <2>1 DEF ProcInv
<1>12. CASE MemoryChanges BY <1>11, <1>12 DEF MemoryChanges
<1>13. CASE Midnight BY <1>11, <1>13 DEF Midnight
<1>14. CASE UNCHANGED vars BY <1>11, <1>14 DEF vars
<1>15. CASE Next
  BY <1>15, <1>1, <1>2, <1>3, <1>4, <1>5, <1>6, <1>7, <1>8, <1>9, <1>10, <1>12, <1>13, ZenonT(60)
     DEF Next
<1>16. QED BY <1>14, <1>15


-----------------------------------------------------------------------------
(* What the files hold *)

(* Nothing happens to a file.                                              *)
Same(g) ==
    /\ data'[g] = data[g]
    /\ g \in broken' <=> g \in broken
    /\ Writers(g)' = Writers(g)
    /\ \A q \in Writers(g) : proc'[q] = proc[q]

LEMMA SameHeld == ASSUME NEW g, Same(g) PROVE Held(g)' = Held(g)
<1> DEFINE W == Writers(g)
<1>1. W' = W BY DEF Same
<1>2. CASE W = {} BY <1>1, <1>2 DEF Held, Same
<1>3. CASE W # {}
  <2>1. (CHOOSE p \in W : TRUE) \in W BY <1>3
  <2>2. (CHOOSE p \in W : TRUE)' = CHOOSE p \in W : TRUE BY <1>1
  <2>3. proc'[CHOOSE p \in W : TRUE] = proc[CHOOSE p \in W : TRUE] BY <2>1 DEF Same
  <2>4. Held(g)' = IF g \notin broken' /\ W' # {} THEN proc'[(CHOOSE p \in W : TRUE)'].base ELSE data'[g]
    BY DEF Held
  <2>5. Held(g) = IF g \notin broken /\ W # {} THEN proc[CHOOSE p \in W : TRUE].base ELSE data[g]
    BY DEF Held
  <2> HIDE DEF W
  <2>6. QED BY <1>1, <2>2, <2>3, <2>4, <2>5 DEF Same
<1>4. QED BY <1>2, <1>3

LEMMA SameWriter == ASSUME NEW g, Same(g), OneWriter(g) PROVE OneWriter(g)'
<1>1. Writers(g)' = Writers(g) /\ data'[g] = data[g] /\ \A q \in Writers(g) : proc'[q] = proc[q]
  BY DEF Same
<1>2. \A p \in Writers(g) : ~proc'[p].astray BY <1>1 DEF OneWriter
<1> DEFINE W == Writers(g)
<1>3. \A p \in W : (\A q \in W : q = p) /\ ~proc'[p].astray /\ (g # "daily" => data'[g] = Empty)
  BY <1>1, <1>2 DEF OneWriter
<1>4. \A p \in W' : (\A q \in W' : q = p) /\ ~proc'[p].astray /\ (g # "daily" => data'[g] = Empty)
  <2> HIDE DEF W
  <2>1. W' = W BY <1>1 DEF W
  <2>2. QED BY <1>3, <2>1
<1>5. QED BY <1>4 DEF OneWriter

(* A file that nobody writes holds what it holds, and one that has a       *)
(* writer what he read.                                                    *)
LEMMA NobodyWrites ==
    ASSUME NEW f, Writers(f) = {}
    PROVE  Held(f) = data[f] /\ OneWriter(f)
BY DEF Held, OneWriter

LEMMA NobodyWrites2 ==
    ASSUME NEW f, Writers(f)' = {}
    PROVE  Held(f)' = data'[f] /\ OneWriter(f)'
BY DEF Held, OneWriter

LEMMA OneWrites ==
    ASSUME NEW f, f \notin broken, NEW p, Writers(f) = {p}
    PROVE  Held(f) = proc[p].base
BY DEF Held

LEMMA OneWrites2 ==
    ASSUME NEW f, f \notin broken', NEW p, Writers(f)' = {p}
    PROVE  Held(f)' = proc'[p].base
BY DEF Held

(* The writers of a file change only by the process that moves.            *)
LEMMA WritersStay ==
    ASSUME ProcInv, NEW p \in Process, NEW f, Stay(p, f)
    PROVE  \A g : \A q \in Process \ {p} : q \in Writers(g)' <=> q \in Writers(g)
<1> SUFFICES ASSUME NEW g, NEW q \in Process \ {p} PROVE q \in Writers(g)' <=> q \in Writers(g)
  OBVIOUS
<1>1. DOMAIN proc[q] = Shape BY DEF ProcInv, Right
<1>2. proc'[q].at = proc[q].at /\ proc'[q].op = proc[q].op BY <1>1, ShapeIs DEF Stay
<1>3. QED BY <1>2 DEF Writers, In, File

(* A step at one file happens to no other.                                 *)
LEMMA OthersSame ==
    ASSUME ProcInv, NEW p \in Process, NEW f, Stay(p, f),
           proc[p].at = "truncated" => File(p) = f,
           proc'[p].at = "truncated" => proc'[p].op.file = f,
           broken' \in {broken, broken \cup {f}},
           \A g \in Files : g # f => data'[g] = data[g]
    PROVE  \A g \in Files : g # f => Same(g)
<1> SUFFICES ASSUME NEW g \in Files, g # f PROVE Same(g) OBVIOUS
<1>1. p \notin Writers(g) /\ p \notin Writers(g)' BY DEF Writers, In, File
<1>2. \A q \in Process \ {p} : q \in Writers(g)' <=> q \in Writers(g) BY WritersStay
<1>3. Writers(g) \subseteq Process /\ Writers(g)' \subseteq Process BY DEF Writers
<1>4. Writers(g)' = Writers(g) BY <1>1, <1>2, <1>3
<1>5. \A q \in Writers(g) : q \notin Writers(f) BY DEF Writers, File
<1>6. \A q \in Writers(g) : proc'[q] = proc[q]
  BY <1>1, <1>3, <1>5 DEF Stay
<1>7. QED BY <1>4, <1>6 DEF Same

Loose == IF migrated THEN InPlace \cup {"jobs"} ELSE InPlace

(* A file is changed by whole operations on what it holds, or damaged.     *)
Turn(f) ==
    \/ Held(f)' = Held(f)
    \/ \E o \in Operation :
          o.file = f /\ \E w \in Atomic!Before(World) : Held(f)' = Outcome(o, Held(f), w)

Touches(f) ==
    /\ \A g \in Files : g # f => Same(g)
    /\ broken' \in {broken, broken \cup {f}}
    /\ f \in broken' => f \in Loose \cup broken
    /\ f \notin broken' => OneWriter(f)' /\ Turn(f)

LEMMA SameTouches ==
    ASSUME WriteInv, broken' = broken, \A g \in Files : Same(g)
    PROVE  \A f \in Files : Touches(f)
<1> SUFFICES ASSUME NEW f \in Files PROVE Touches(f) OBVIOUS
<1>1. f \notin broken => OneWriter(f) BY DEF WriteInv
<1>2. Same(f) OBVIOUS
<1>3. f \notin broken' => OneWriter(f)' /\ Turn(f) BY <1>1, <1>2, SameHeld, SameWriter DEF Turn
<1>4. QED BY <1>3 DEF Touches

(* Steps that change no file: an operation is begun or ends with nothing   *)
(* to write.                                                               *)
LEMMA QuietTouches ==
    ASSUME ProcInv, WriteInv, NEW p \in Process, NEW f, Stay(p, f), data' = data, broken' = broken,
           proc[p].at # "truncated", proc'[p].at # "truncated",
           \A q \in Process \ {p} : proc'[q] = proc[q]
    PROVE  \A g \in Files : Same(g) /\ Touches(g)
<1>1. \A g \in Files : Same(g)
  <2> SUFFICES ASSUME NEW g \in Files PROVE Same(g) OBVIOUS
  <2>1. p \notin Writers(g) /\ p \notin Writers(g)' BY DEF Writers, In
  <2>2. \A q \in Process \ {p} : q \in Writers(g)' <=> q \in Writers(g) BY WritersStay
  <2>3. Writers(g) \subseteq Process /\ Writers(g)' \subseteq Process BY DEF Writers
  <2>4. Writers(g)' = Writers(g) BY <2>1, <2>2, <2>3
  <2>5. \A q \in Writers(g) : proc'[q] = proc[q] BY <2>1, <2>3
  <2>6. QED BY <2>4, <2>5 DEF Same
<1>2. QED BY <1>1, SameTouches


LEMMA WhoWrites ==
    ASSUME ProcInv, NEW p \in Process, proc[p].at \in {"read", "truncated"}
    PROVE  File(p) \in Files /\ File(p) \in Loose
BY FileOf DEF Loose

LEMMA WhatIsDone ==
    ASSUME ProcInv, NEW p \in Process, proc[p].at # "idle"
    PROVE  /\ proc[p].op \in Operation
           /\ \E u \in Atomic!Before(World) : proc[p].out = Outcome(proc[p].op, proc[p].base, u)
BY DEF ProcInv, Right, Doing

(* Who replaces a file under its lock makes it from what it holds; nobody  *)
(* is writing it in place.                                                 *)
LEMMA ReplaceTouches ==
    ASSUME ProcInv, WriteInv, NEW p \in Process, NEW f, f = File(p), Replace(p), proc[p].out # NoWrite
    PROVE  Touches(f) /\ f \in Locked
<1>1. /\ proc[p].at = "holding" /\ data' = [data EXCEPT ![f] = proc[p].out]
      /\ broken' = IF data[f] # proc[p].base THEN broken \cup {f} ELSE broken
      /\ proc' = [Astray(f, proc) EXCEPT ![p] = Idle]
  BY DEF Replace, In, Breaks
<1>2. proc'[p] = Idle /\ Stay(p, f) BY <1>1, AstrayBut
<1>3. /\ TakesLock(proc[p].op) /\ f \in Locked /\ f \in Files
      /\ data[f] = proc[p].base \/ (f = "jobs" /\ migrated)
      /\ data = [g \in Files |-> data[g]]
  BY <1>1 DEF ProcInv, Right, TakesLock, File, Files
<1>4. data'[f] = proc[p].out /\ \A g \in Files : g # f => data'[g] = data[g]
  BY <1>1, <1>3
<1>5. proc'[p].at = "idle" BY <1>2 DEF Idle
<1>6. \A g \in Files : g # f => Same(g)
  BY <1>1, <1>2, <1>4, <1>5, OthersSame
<1>7. f \in broken' => f \in Loose \cup broken BY <1>1, <1>3 DEF Loose
<1>8. PICK u \in Atomic!Before(World) : proc[p].out = Outcome(proc[p].op, proc[p].base, u)
  BY <1>1, WhatIsDone
<1>9. ASSUME f \notin broken' PROVE OneWriter(f)' /\ Turn(f)
  <2>1. f \notin broken /\ data[f] = proc[p].base BY <1>1, <1>9
  <2>2. Writers(f) = {}
    <3> SUFFICES ASSUME NEW q \in Writers(f) PROVE FALSE OBVIOUS
    <3>1. q \in Process /\ proc[q].at = "truncated" /\ File(q) = f BY DEF Writers, In
    <3>2. f = "jobs" BY <1>3, <3>1, FileOf DEF Locked, InPlace
    <3>3. data[f] = Empty BY <1>3, <2>1, <3>2 DEF WriteInv, OneWriter
    <3>4. proc[p].op.do # "job migrate" /\ proc[p].op.file = "jobs" /\ proc[p].op \in Operation
      BY <1>1, <1>3, <3>2, WhatIsDone DEF TakesLock, File
    <3>5. QED BY <1>8, <2>1, <3>3, <3>4, EmptyJobs
  <2>3. Writers(f)' = {}
    <3>1. p \notin Writers(f)' BY <1>5 DEF Writers, In
    <3>2. \A q \in Process \ {p} : q \notin Writers(f)' BY <1>2, <2>2, WritersStay
    <3>3. Writers(f)' \subseteq Process BY DEF Writers
    <3>4. QED BY <3>1, <3>2, <3>3
  <2>4. Held(f) = data[f] /\ Held(f)' = data'[f] /\ OneWriter(f)'
    BY <2>2, <2>3, NobodyWrites, NobodyWrites2
  <2>5. proc[p].op \in Operation /\ proc[p].op.file = f BY <1>1, WhatIsDone DEF File
  <2>6. Held(f)' = Outcome(proc[p].op, Held(f), u) BY <1>4, <1>8, <2>1, <2>4
  <2>7. QED BY <2>4, <2>5, <2>6 DEF Turn
<1>10. Touches(f) BY <1>1, <1>6, <1>7, <1>9 DEF Touches
<1>11. QED BY <1>3, <1>10

(* Who truncates a file nobody else has changed is its only writer, and    *)
(* the file is still what he read.                                         *)
LEMMA TruncateTouches ==
    ASSUME ProcInv, WriteInv, NEW p \in Process, NEW f, f = File(p), Truncate(p)
    PROVE  /\ Touches(f)
           /\ f \notin broken' =>
                 /\ Writers(f) = {} /\ data[f] = proc[p].base
                 /\ Writers(f)' = {p} /\ Held(f)' = Held(f)
<1>1. /\ data' = [data EXCEPT ![f] = Empty]
      /\ broken' = IF data[f] # proc[p].base \/ Writers(f) # {} THEN broken \cup {f} ELSE broken
  BY DEF Truncate, Breaks
<1>2. /\ proc[p].at = "read" /\ proc'[p].at = "truncated" /\ proc'[p].op.file = f
      /\ proc'[p].base = proc[p].base /\ proc'[p].astray = proc[p].astray
      /\ Stay(p, f)
  BY TruncateBecomes DEF File
<1>3. f \in Files /\ f \in Loose /\ ~proc[p].astray /\ data = [g \in Files |-> data[g]]
  BY <1>2, WhoWrites DEF ProcInv, Right
<1>4. data'[f] = Empty /\ \A g \in Files : g # f => data'[g] = data[g] BY <1>1, <1>3
<1>5. \A g \in Files : g # f => Same(g) BY <1>1, <1>2, <1>4, OthersSame
<1>6. ASSUME f \notin broken'
      PROVE  /\ Writers(f) = {} /\ data[f] = proc[p].base /\ Writers(f)' = {p}
             /\ Held(f)' = Held(f) /\ OneWriter(f)'
  <2>1. f \notin broken /\ Writers(f) = {} /\ data[f] = proc[p].base BY <1>1, <1>6
  <2>2. p \in Writers(f)' BY <1>2 DEF Writers, In, File
  <2>3. \A q \in Process \ {p} : q \notin Writers(f)' BY <1>2, <2>1, WritersStay
  <2>4. Writers(f)' \subseteq Process BY DEF Writers
  <2>5. Writers(f)' = {p} BY <2>2, <2>3, <2>4
  <2>6. Held(f) = data[f] BY <2>1, NobodyWrites
  <2>7. Held(f)' = proc'[p].base BY <1>6, <2>5, OneWrites2
  <2>8. OneWriter(f)' BY <1>2, <1>3, <1>4, <2>5 DEF OneWriter
  <2>9. QED BY <1>2, <2>1, <2>5, <2>6, <2>7, <2>8
<1>7. Touches(f) BY <1>1, <1>3, <1>5, <1>6 DEF Touches, Turn
<1>8. QED BY <1>6, <1>7

(* Who writes what he truncated alone completes the change to what he read. *)
LEMMA WriteTouches ==
    ASSUME ProcInv, WriteInv, NEW p \in Process, NEW f, f = File(p), Write(p)
    PROVE  /\ Touches(f)
           /\ f \notin broken' =>
                 /\ Held(f) = proc[p].base /\ Held(f)' = proc[p].out
                 /\ data'[f] = proc[p].out /\ Writers(f)' = {}
<1>1. /\ data' = IF proc[p].astray THEN data ELSE [data EXCEPT ![f] = proc[p].out]
      /\ broken' = IF proc[p].astray \/ data[f] # Empty THEN broken \cup {f} ELSE broken
  BY DEF Write, Breaks
<1>2. proc[p].at = "truncated" /\ Stay(p, f) /\ proc'[p].at # "truncated"
  <2>1. /\ proc[p].at = "truncated" /\ Stay(p, f)
        /\ proc'[p] = Idle \/ proc'[p].at = "read"
    BY WriteBecomes
  <2>2. Idle.at = "idle" BY DEF Idle
  <2>3. QED BY <2>1, <2>2
<1>3. f \in Files /\ f \in Loose /\ data = [g \in Files |-> data[g]]
  BY <1>2, WhoWrites DEF ProcInv
<1>4. (~proc[p].astray => data'[f] = proc[p].out) /\ \A g \in Files : g # f => data'[g] = data[g]
  BY <1>1, <1>3
<1>5. p \in Writers(f) BY <1>2 DEF Writers, In
<1>6. \A g \in Files : g # f => Same(g) BY <1>1, <1>2, <1>4, OthersSame DEF File
<1>7. ASSUME f \notin broken'
      PROVE  /\ Held(f) = proc[p].base /\ Held(f)' = proc[p].out
             /\ data'[f] = proc[p].out /\ Writers(f)' = {}
             /\ OneWriter(f)' /\ Turn(f)
  <2>1. f \notin broken /\ ~proc[p].astray BY <1>1, <1>7
  <2>2. Writers(f) = {p} BY <1>3, <1>5, <2>1 DEF WriteInv, OneWriter
  <2>3. p \notin Writers(f)' BY <1>2 DEF Writers, In
  <2>4. \A q \in Process \ {p} : q \notin Writers(f)' BY <1>2, <2>2, WritersStay
  <2>5. Writers(f)' \subseteq Process BY DEF Writers
  <2>6. Writers(f)' = {} BY <2>3, <2>4, <2>5
  <2>7. Held(f) = proc[p].base BY <2>1, <2>2, OneWrites
  <2>8. Held(f)' = data'[f] /\ OneWriter(f)' BY <2>6, NobodyWrites2
  <2>9. PICK u \in Atomic!Before(World) : proc[p].out = Outcome(proc[p].op, proc[p].base, u)
    BY <1>2, WhatIsDone
  <2>10. proc[p].op \in Operation /\ proc[p].op.file = f BY <1>2, WhatIsDone DEF File
  <2>11. Held(f)' = Outcome(proc[p].op, Held(f), u) BY <1>4, <2>1, <2>7, <2>8, <2>9
  <2>12. Turn(f) BY <2>10, <2>11 DEF Turn
  <2>13. QED BY <1>4, <2>1, <2>6, <2>7, <2>8, <2>12
<1>8. Touches(f) BY <1>1, <1>3, <1>6, <1>7 DEF Touches
<1>9. QED BY <1>7, <1>8

(* A file that is moved away, or unlinked, while nobody writes it.         *)
LEMMA GoneTouches ==
    ASSUME ProcInv, WriteInv, NEW p \in Process, NEW f \in Files, f \in Loose, Stay(p, f),
           data' = [data EXCEPT ![f] = Missing], broken' \in {broken, broken \cup {f}},
           f \notin broken' => Writers(f) = {},
           proc[p].at = "read", proc'[p].at # "truncated",
           f \notin broken' =>
              \/ data[f] = Missing
              \/ \E o \in Operation :
                    o.file = f /\ \E w \in Atomic!Before(World) : Missing = Outcome(o, data[f], w)
    PROVE  /\ Touches(f)
           /\ f \notin broken' =>
                 Held(f) = data[f] /\ Held(f)' = Missing /\ data'[f] = Missing /\ Writers(f)' = {}
<1>1. data = [g \in Files |-> data[g]] BY DEF ProcInv
<1>2. data'[f] = Missing /\ \A g \in Files : g # f => data'[g] = data[g] BY <1>1
<1>3. \A g \in Files : g # f => Same(g) BY <1>2, OthersSame
<1>4. ASSUME f \notin broken'
      PROVE  /\ Held(f) = data[f] /\ Held(f)' = Missing /\ data'[f] = Missing /\ Writers(f)' = {}
             /\ OneWriter(f)' /\ Turn(f)
  <2>1. f \notin broken /\ Writers(f) = {} BY <1>4
  <2>2. p \notin Writers(f)' BY DEF Writers, In
  <2>3. \A q \in Process \ {p} : q \notin Writers(f)' BY <2>1, WritersStay
  <2>4. Writers(f)' \subseteq Process BY DEF Writers
  <2>5. Writers(f)' = {} BY <2>2, <2>3, <2>4
  <2>6. Held(f) = data[f] /\ Held(f)' = data'[f] /\ OneWriter(f)'
    BY <2>1, <2>5, NobodyWrites, NobodyWrites2
  <2>7. Turn(f) BY <1>2, <1>4, <2>6 DEF Turn
  <2>8. QED BY <1>2, <2>5, <2>6, <2>7
<1>5. QED BY <1>3, <1>4 DEF Touches


LEMMA UnlinkTouches ==
    ASSUME ProcInv, WriteInv, NEW p \in Process, Unlink(p)
    PROVE  Touches("seen")
<1> DEFINE f == "seen"
<1>1. /\ proc[p].at = "read" /\ proc[p].op.do = "seen reset"
      /\ data' = [data EXCEPT ![File(p)] = Missing]
      /\ broken' = IF Writers(File(p)) # {} THEN broken \cup {File(p)} ELSE broken
      /\ proc' = [Astray(File(p), proc) EXCEPT ![p] = Idle]
  BY DEF Unlink, Writes, In, Breaks
<1>2. proc[p].op \in Operation BY <1>1, WhatIsDone
<1>3. File(p) = f BY <1>1, <1>2, WhoseOperation DEF File
<1>4. f \in Files /\ f \in Loose BY <1>1, <1>3, WhoWrites
<1>5. proc'[p] = Idle /\ Stay(p, f) BY <1>1, <1>3, AstrayBut
<1>6. proc'[p].at # "truncated" BY <1>5 DEF Idle
<1>7. World \in Atomic!Before(World) BY WorldNow DEF ProcInv
<1>8. data[f] = Missing \/ Missing = Outcome(proc[p].op, data[f], World)
  BY <1>1, ResetOutcome
<1>9. data' = [data EXCEPT ![f] = Missing] /\ broken' \in {broken, broken \cup {f}}
      /\ (f \notin broken' => Writers(f) = {})
  BY <1>1, <1>3
<1>10. proc[p].op.file = f BY <1>3 DEF File
<1> HIDE DEF f
<1>11. f \notin broken' =>
         \/ data[f] = Missing
         \/ \E o \in Operation :
               o.file = f /\ \E w \in Atomic!Before(World) : Missing = Outcome(o, data[f], w)
  BY <1>2, <1>7, <1>8, <1>10
<1>12. Touches(f) BY <1>1, <1>4, <1>5, <1>6, <1>9, <1>11, GoneTouches
<1>13. QED BY <1>12 DEF f

(* Moving an unreadable store away is what loading it does.                *)
LEMMA QuarantineTouches ==
    ASSUME ProcInv, WriteInv, NEW p \in Process, Quarantine(p)
    PROVE  /\ Touches("trust")
           /\ "trust" \notin broken' => Held("trust")' = Missing /\ Writers("trust")' = {}
<1> DEFINE f == "trust"
<1>1. /\ proc[p].at = "read" /\ File(p) = f /\ proc[p].base \in {Empty, Garbled}
      /\ data' = [data EXCEPT ![f] = Missing]
      /\ broken' = IF data[f] # proc[p].base \/ Writers(f) # {} THEN broken \cup {f} ELSE broken
  BY DEF Quarantine, In, Breaks
<1>2. proc'[p].at = "read" /\ Stay(p, f) BY QuarantineBecomes
<1>3. f \in Files /\ f \in Loose BY <1>1, WhoWrites
<1>4. proc[p].op \in Operation /\ proc[p].op.file = f BY <1>1, WhatIsDone DEF File
<1>5. PICK l \in Operation : l.file = f /\ l.do = "load" BY <1>4, OperationAssumption
<1>6. World \in Atomic!Before(World) BY WorldNow DEF ProcInv
<1> HIDE DEF f
<1>7. f \notin broken' => Writers(f) = {} /\ Missing = Outcome(l, data[f], World)
  BY <1>1, <1>5, LoadOutcome
<1>8. QED
  <2>1. /\ Touches(f)
        /\ f \notin broken' => Held(f)' = Missing /\ Writers(f)' = {}
    BY <1>1, <1>2, <1>3, <1>5, <1>6, <1>7, GoneTouches
  <2>2. QED BY <2>1 DEF f

(* A line is appended to the daily note by itself, or under its writer.    *)
LEMMA AppendTouches ==
    ASSUME ProcInv, WriteInv, NEW o \in Operation, AppendNote(o)
    PROVE  Touches("daily")
<1> DEFINE f == "daily"
<1>1. /\ data' = [data EXCEPT ![f] = Outcome(o, data[f], World)]
      /\ proc' = proc /\ broken' = broken /\ o.file = f
  BY WhoseOperation DEF AppendNote, Appends
<1>2. f \in Files BY DEF Files, InPlace
<1>3. data = [g \in Files |-> data[g]] BY DEF ProcInv
<1>4. data'[f] = Outcome(o, data[f], World) /\ \A g \in Files : g # f => data'[g] = data[g]
  BY <1>1, <1>2, <1>3
<1>5. \A g : Writers(g)' = Writers(g) BY <1>1 DEF Writers, In, File
<1>6. \A g \in Files : g # f => Same(g) BY <1>1, <1>4, <1>5 DEF Same
<1>7. World \in Atomic!Before(World) BY WorldNow DEF ProcInv
<1>8. ASSUME f \notin broken' PROVE OneWriter(f)' /\ Turn(f)
  <2>1. CASE Writers(f) = {}
    <3>1. Writers(f)' = {} BY <1>5, <2>1
    <3>2. Held(f) = data[f] /\ Held(f)' = data'[f] /\ OneWriter(f)'
      BY <2>1, <3>1, NobodyWrites, NobodyWrites2
    <3>3. Held(f)' = Outcome(o, Held(f), World) BY <1>4, <3>2
    <3>4. QED BY <1>1, <1>7, <3>2, <3>3 DEF Turn
  <2>2. CASE Writers(f) # {}
    <3>1. OneWriter(f) /\ f \notin broken BY <1>1, <1>2, <1>8 DEF WriteInv
    <3>2. PICK p \in Writers(f) : TRUE BY <2>2
    <3>3. Writers(f) = {p} BY <3>1, <3>2 DEF OneWriter
    <3>4. Writers(f)' = {p} BY <1>5, <3>3
    <3>5. Held(f) = proc[p].base /\ Held(f)' = proc'[p].base
      BY <1>8, <3>1, <3>3, <3>4, OneWrites, OneWrites2
    <3>6. Held(f)' = Held(f) BY <1>1, <3>5
    <3>7. OneWriter(f)' BY <1>1, <3>1, <3>3, <3>4 DEF OneWriter
    <3>8. QED BY <3>6, <3>7 DEF Turn
  <2>3. QED BY <2>1, <2>2
<1>9. QED BY <1>1, <1>6, <1>8 DEF Touches

(* Killing a writer breaks the file that he has truncated.                 *)
LEMMA KillTouches ==
    ASSUME ProcInv, WriteInv, NEW p \in Process, NEW f, f = File(p), Kill(p),
           proc[p].at = "truncated"
    PROVE  Touches(f) /\ f \in Files /\ f \in broken'
<1>1. /\ data' = data /\ broken' = broken \cup {f} /\ proc' = [proc EXCEPT ![p] = Idle]
  BY DEF Kill, Breaks, In
<1>2. f \in Files /\ f \in Loose /\ proc = [q \in Process |-> proc[q]] BY WhoWrites DEF ProcInv
<1>3. proc'[p] = Idle /\ Stay(p, f) BY <1>1, <1>2, ChangesOne
<1>4. proc'[p].at # "truncated" BY <1>3 DEF Idle
<1>5. \A g \in Files : g # f => Same(g) BY <1>1, <1>3, <1>4, OthersSame
<1>6. QED BY <1>1, <1>2, <1>5 DEF Touches

Quiet(p) ==
    \/ \E o \in Operation : Lock(p, o) \/ Read(p, o)
    \/ Replace(p) /\ proc[p].out = NoWrite
    \/ Promote(p) \/ NothingToWrite(p) \/ Bootstrap(p)
    \/ Kill(p) /\ proc[p].at # "truncated"

(* A process that only begins, or ends without a change, is not writing.   *)
LEMMA QuietStays ==
    ASSUME ProcInv, NEW p \in Process, Quiet(p)
    PROVE  /\ data' = data /\ broken' = broken
           /\ proc[p].at # "truncated" /\ proc'[p].at # "truncated"
           /\ \A q \in Process \ {p} : proc'[q] = proc[q]
<1>0. proc = [q \in Process |-> proc[q]] /\ Right(p) BY DEF ProcInv
<1>1. ASSUME NEW o \in Operation, Lock(p, o) \/ Read(p, o)
      PROVE  /\ data' = data /\ broken' = broken
             /\ proc[p].at # "truncated" /\ proc'[p].at # "truncated"
             /\ \A q \in Process \ {p} : proc'[q] = proc[q]
  <2>1. /\ data' = data /\ broken' = broken /\ proc[p].at = "idle"
        /\ proc' = proc \/ At(p, "holding", o) \/ At(p, "read", o)
    BY <1>1 DEF Lock, Read, In
  <2>2. CASE proc' = proc BY <2>1, <2>2
  <2>3. CASE At(p, "holding", o)
    <3>1. Started(proc'[p], "holding", o) /\ \A q \in Process \ {p} : proc'[q] = proc[q]
      BY <1>0, <2>3, AtStarts
    <3>2. proc'[p].at = "holding" BY <3>1 DEF Started
    <3>3. QED BY <2>1, <3>1, <3>2
  <2>4. CASE At(p, "read", o)
    <3>1. Started(proc'[p], "read", o) /\ \A q \in Process \ {p} : proc'[q] = proc[q]
      BY <1>0, <2>4, AtStarts
    <3>2. proc'[p].at = "read" BY <3>1 DEF Started
    <3>3. QED BY <2>1, <3>1, <3>2
  <2>5. QED BY <2>1, <2>2, <2>3, <2>4
<1>2. CASE Promote(p) BY <1>2, PromoteBecomes DEF Promote
<1>3. CASE \/ Replace(p) /\ proc[p].out = NoWrite
           \/ NothingToWrite(p) \/ Bootstrap(p)
           \/ Kill(p) /\ proc[p].at # "truncated"
  <2>1. data' = data /\ proc' = [proc EXCEPT ![p] = Idle] /\ proc[p].at # "truncated"
    BY <1>3 DEF Replace, NothingToWrite, Bootstrap, Kill, Writes, In
  <2>2. broken' = broken
    BY <1>3 DEF Replace, NothingToWrite, Bootstrap, Kill, Breaks, In
  <2>3. proc'[p] = Idle /\ \A q \in Process \ {p} : proc'[q] = proc[q] BY <1>0, <2>1
  <2>4. QED BY <2>1, <2>2, <2>3 DEF Idle
<1>4. QED BY <1>1, <1>2, <1>3 DEF Quiet

LEMMA QuietSame ==
    ASSUME ProcInv, WriteInv, NEW p \in Process, Quiet(p)
    PROVE  \A g \in Files : Same(g) /\ Touches(g)
<1>1. Stay(p, "daily") BY QuietStays DEF Stay
<1>2. QED BY <1>1, QuietStays, QuietTouches

(* The clock and the file that is trusted are nobody's.                    *)
LEMMA StillSame ==
    ASSUME ProcInv, WriteInv, data' = data, proc' = proc, broken' = broken
    PROVE  \A g \in Files : Same(g) /\ Touches(g)
<1>1. \A g : Writers(g)' = Writers(g) BY DEF Writers, In, File
<1>2. \A g \in Files : Same(g) BY <1>1 DEF Same
<1>3. QED BY <1>2, SameTouches

LEMMA NextTouches == ASSUME ProcInv, WriteInv, [Next]_vars PROVE \E f \in Files : Touches(f)
<1>1. ASSUME NEW p \in Process, Quiet(p) PROVE \E f \in Files : Touches(f)
  <2>1. "daily" \in Files BY DEF Files, InPlace
  <2>2. QED BY <1>1, <2>1, QuietSame
<1>2. ASSUME data' = data, proc' = proc, broken' = broken PROVE \E f \in Files : Touches(f)
  <2>1. "daily" \in Files BY DEF Files, InPlace
  <2>2. QED BY <1>2, <2>1, StillSame
<1>3. ASSUME NEW p \in Process, NEW o \in Operation, Lock(p, o) \/ Read(p, o)
      PROVE  \E f \in Files : Touches(f)
  <2>1. Quiet(p) BY <1>3 DEF Quiet
  <2>2. QED BY <1>1, <2>1
<1>4. ASSUME NEW o \in Operation, AppendNote(o) PROVE \E f \in Files : Touches(f)
  BY <1>4, AppendTouches DEF Files, InPlace
<1>5. ASSUME NEW p \in Process, Replace(p) PROVE \E f \in Files : Touches(f)
  <2>1. CASE proc[p].out = NoWrite BY <1>1, <1>5, <2>1 DEF Quiet
  <2>2. CASE proc[p].out # NoWrite
    <3>1. PICK f : f = File(p) OBVIOUS
    <3>2. Touches(f) /\ f \in Files BY <1>5, <2>2, <3>1, ReplaceTouches DEF Files
    <3>3. QED BY <3>2
  <2>3. QED BY <2>1, <2>2
<1>6. ASSUME NEW p \in Process, Promote(p) \/ NothingToWrite(p) \/ Bootstrap(p)
      PROVE  \E f \in Files : Touches(f)
  <2>1. Quiet(p) BY <1>6 DEF Quiet
  <2>2. QED BY <1>1, <2>1
<1>7. ASSUME NEW p \in Process, Truncate(p) PROVE \E f \in Files : Touches(f)
  <2>1. PICK f : f = File(p) OBVIOUS
  <2>2. f \in Files BY <1>7, <2>1, WhoWrites DEF Truncate, Writes, In
  <2>3. Touches(f) BY <1>7, <2>1, TruncateTouches
  <2>4. QED BY <2>2, <2>3
<1>8. ASSUME NEW p \in Process, Write(p) PROVE \E f \in Files : Touches(f)
  <2>1. PICK f : f = File(p) OBVIOUS
  <2>2. f \in Files BY <1>8, <2>1, WhoWrites DEF Write, In
  <2>3. Touches(f) BY <1>8, <2>1, WriteTouches
  <2>4. QED BY <2>2, <2>3
<1>9. ASSUME NEW p \in Process, Unlink(p) \/ Quarantine(p) PROVE \E f \in Files : Touches(f)
  BY <1>9, UnlinkTouches, QuarantineTouches DEF Files, InPlace
<1>10. ASSUME NEW p \in Process, Kill(p) PROVE \E f \in Files : Touches(f)
  <2>1. CASE proc[p].at # "truncated" BY <1>1, <1>10, <2>1 DEF Quiet
  <2>2. CASE proc[p].at = "truncated"
    <3>1. PICK f : f = File(p) OBVIOUS
    <3>2. QED BY <1>10, <2>2, <3>1, KillTouches
  <2>3. QED BY <2>1, <2>2
<1>11. CASE MemoryChanges BY <1>2, <1>11 DEF MemoryChanges
<1>12. CASE Midnight BY <1>2, <1>12 DEF Midnight
<1>13. CASE UNCHANGED vars BY <1>2, <1>13 DEF vars
<1>14. CASE Next
  BY <1>14, <1>3, <1>4, <1>5, <1>6, <1>7, <1>8, <1>9, <1>10, <1>11, <1>12, ZenonT(60) DEF Next
<1>15. QED BY <1>13, <1>14

LEMMA InitWrite == Init => WriteInv
<1> SUFFICES ASSUME Init PROVE WriteInv OBVIOUS
<1>1. \A f : Writers(f) = {} BY DEF Init, Writers, In, Idle
<1>2. QED BY <1>1 DEF WriteInv, OneWriter

LEMMA NextWrite == ASSUME ProcInv, WriteInv, [Next]_vars PROVE WriteInv'
<1>1. PICK f \in Files : Touches(f) BY NextTouches
<1>2. SUFFICES ASSUME NEW g \in Files, g \notin broken' PROVE OneWriter(g)' BY DEF WriteInv
<1>3. CASE g = f BY <1>1, <1>2, <1>3 DEF Touches
<1>4. CASE g # f
  <2>1. Same(g) BY <1>1, <1>4 DEF Touches
  <2>2. OneWriter(g) BY <1>2, <2>1 DEF Same, WriteInv
  <2>3. QED BY <2>1, <2>2, SameWriter
<1>5. QED BY <1>3, <1>4

LEMMA Processes == Spec => [](ProcInv /\ WriteInv)
<1>1. Init => ProcInv /\ WriteInv BY InitProc, InitWrite
<1>2. ProcInv /\ WriteInv /\ [Next]_vars => (ProcInv /\ WriteInv)' BY NextProc, NextWrite
<1>3. QED BY <1>1, <1>2, PTL DEF Spec

(* A step at a file is a step of the atomic file.                          *)
AtomicStep == [Atomic!AtomicNext]_(Atomic!atomicVars)

LEMMA TouchesAtomic == ASSUME NEW f \in Files, Touches(f) PROVE AtomicStep
<1> DEFINE content == [g \in Files |-> Held(g)]
<1>1. \A g \in Files : g # f => Held(g)' = Held(g)
  <2> SUFFICES ASSUME NEW g \in Files, g # f PROVE Held(g)' = Held(g) OBVIOUS
  <2>1. Same(g) BY DEF Touches
  <2>2. QED BY <2>1, SameHeld
<1>2. content' = [g \in Files |-> Held(g)'] OBVIOUS
<1>3. \A g \in DOMAIN content \ {f} : content'[g] = content[g]
  BY <1>1, <1>2
<1>4. Atomic!Others(f) BY <1>3 DEF Atomic!Others
<1>5. CASE f \in broken'
  <2>1. broken' \subseteq broken \cup {f} /\ f \in Loose \cup broken BY <1>5 DEF Touches
  <2>2. Atomic!Damage(f) BY <1>4, <1>5, <2>1 DEF Atomic!Damage, Loose
  <2>3. QED BY <2>2 DEF AtomicStep, Atomic!AtomicNext
<1>6. CASE f \notin broken'
  <2>1. broken' = broken /\ f \notin broken /\ Turn(f) BY <1>6 DEF Touches
  <2>2. content'[f] = Held(f)' /\ content[f] = Held(f) BY <1>2
  <2>3. CASE Held(f)' = Held(f)
    <3>1. \A g \in Files : Held(g)' = Held(g) BY <1>1, <2>3
    <3>2. content' = content BY <1>2, <3>1
    <3>3. Atomic!Passes BY <2>1, <3>2 DEF Atomic!Passes
    <3>4. QED BY <3>3 DEF AtomicStep, Atomic!AtomicNext
  <2>4. ASSUME Held(f)' # Held(f), NEW o \in Operation, o.file = f,
               NEW w \in Atomic!Before(World), Held(f)' = Outcome(o, Held(f), w)
        PROVE  AtomicStep
    <3>1. content'[o.file] # content[o.file] /\ content'[o.file] = Outcome(o, content[o.file], w)
      BY <2>2, <2>4
    <3>2. Atomic!Others(o.file) BY <1>4, <2>4
    <3>3. o.file \notin broken BY <2>1, <2>4
    <3>4. Atomic!Change(o) BY <2>1, <2>4, <3>1, <3>2, <3>3 DEF Atomic!Change
    <3>5. QED BY <3>4 DEF AtomicStep, Atomic!AtomicNext
  <2>5. QED BY <2>1, <2>3, <2>4 DEF Turn
<1>7. QED BY <1>5, <1>6

(* SharedFiles: every file implements the atomic one: the queue is only    *)
(* ever changed by whole operations on what it holds, whatever is killed   *)
(* and whoever runs at once, the job table up to a migration, the others   *)
(* up to the first overlap or kill.                                        *)
THEOREM ChangesAreAtomic == Spec => FilesChangeAtomically
<1>1. Init => Atomic!AtomicInit BY DEF Init, Atomic!AtomicInit
<1>2. ProcInv /\ WriteInv /\ [Next]_vars => AtomicStep BY NextTouches, TouchesAtomic
<1>3. QED
  BY <1>1, <1>2, Processes, PTL DEF Spec, FilesChangeAtomically, Atomic!AtomicSpec, AtomicStep


-----------------------------------------------------------------------------
(* Trust *)

Vouched(c, S) == \A x \in Entries(c) : x.id = 1 => x.version \in S

(* Who has read the store knows who vouched for what it says.              *)
Reader(p) ==
    proc[p].at = "read" /\ File(p) = "trust" => Vouched(proc[p].base, proc[p].known)

Remaining(p) == IF proc[p].op.do = "untrust" /\ proc[p].op.id = 1 THEN {} ELSE vouched

ShownInv == shown # None => shown.version \in shown.known

(* The store says of no version that it is trusted but of those that are,  *)
(* and will say it of no other when its writer has written.                *)
TrustInv ==
    "trust" \notin broken =>
        /\ Vouched(Held("trust"), vouched)
        /\ \A p \in Process : Reader(p)
        /\ \A p \in Writers("trust") : Vouched(proc[p].out, Remaining(p))
        /\ ShownInv

LEMMA EntriesOf == ASSUME NEW c PROVE \A x \in Entries(c) : x \in c /\ c \notin Unreadable
BY DEF Entries

LEMMA NothingVouched == ASSUME NEW c \in Unreadable, NEW S PROVE Vouched(c, S)
BY DEF Vouched, Entries

(* Trusting adds the version that was hashed, and takes away what was said *)
(* of the same file before; taking it back leaves nothing of it.           *)
LEMMA TrustOutcome ==
    ASSUME NEW o, NEW c, NEW w, NEW S, Vouched(c, S), o.do \in {"trust", "untrust"},
           Outcome(o, c, w) # NoWrite
    PROVE  Vouched(Outcome(o, c, w),
                   IF o.do = "untrust" /\ o.id = 1 THEN {}
                   ELSE IF o.do = "trust" /\ o.id = 1 THEN S \cup {w.version} ELSE S)
<1> DEFINE out == Outcome(o, c, w)
<1>1. CASE o.do = "trust"
  <2>1. out = {x \in Entries(c) : x.id # o.id} \cup {[id |-> o.id, version |-> w.version]}
    BY <1>1 DEF Outcome, TrustFile
  <2>2. \A x \in out : x.id = 1 => x.version \in IF o.id = 1 THEN S \cup {w.version} ELSE S
    BY <2>1 DEF Vouched
  <2> HIDE DEF out
  <2>3. Vouched(out, IF o.id = 1 THEN S \cup {w.version} ELSE S)
    BY <2>2, EntriesOf DEF Vouched
  <2>4. QED BY <1>1, <2>3 DEF out
<1>2. CASE o.do = "untrust"
  <2>1. out = {x \in Entries(c) : x.id # o.id}
    BY <1>2 DEF Outcome, UntrustFile
  <2>2. \A x \in out : x.id = 1 => o.id # 1 /\ x.version \in S
    BY <2>1 DEF Vouched
  <2> HIDE DEF out
  <2>3. Vouched(out, IF o.id = 1 THEN {} ELSE S)
    BY <2>2, EntriesOf DEF Vouched
  <2>4. QED BY <1>2, <2>3 DEF out
<1>3. QED BY <1>1, <1>2

(* What a process is at changes with its own steps only.                   *)
LEMMA StayFields ==
    ASSUME ProcInv, NEW p \in Process, NEW f, Stay(p, f), NEW q \in Process \ {p}
    PROVE  /\ proc'[q].at = proc[q].at /\ proc'[q].op = proc[q].op
           /\ proc'[q].base = proc[q].base /\ proc'[q].out = proc[q].out
           /\ proc'[q].then = proc[q].then /\ proc'[q].known = proc[q].known
<1>1. DOMAIN proc[q] = Shape BY DEF ProcInv, Right
<1>2. QED BY <1>1, ShapeIs DEF Stay

LEMMA ReadersStay ==
    ASSUME ProcInv, NEW p \in Process, NEW f, Stay(p, f), NEW q \in Process \ {p}, Reader(q)
    PROVE  Reader(q)'
BY StayFields DEF Reader, File

(* A step that does not concern the store.                                 *)
LEMMA TrustElsewhere ==
    ASSUME ProcInv, TrustInv, NEW p \in Process, NEW f, Stay(p, f), Same("trust"),
           vouched' = vouched, "trust" \notin broken => Reader(p)' /\ ShownInv'
    PROVE  TrustInv'
<1> SUFFICES ASSUME "trust" \notin broken' PROVE TrustInv' BY DEF TrustInv
<1>1. "trust" \notin broken /\ Writers("trust")' = Writers("trust") BY DEF Same
<1>2. /\ Vouched(Held("trust"), vouched) /\ \A q \in Process : Reader(q)
      /\ \A q \in Writers("trust") : Vouched(proc[q].out, Remaining(q))
  BY <1>1 DEF TrustInv
<1>3. Vouched(Held("trust"), vouched)'
  <2>1. Held("trust")' = Held("trust") BY SameHeld
  <2>2. QED BY <1>2, <2>1 DEF Vouched
<1>4. \A q \in Process : Reader(q)' BY <1>1, <1>2, ReadersStay
<1>5. \A q \in Writers("trust") : proc'[q] = proc[q] BY DEF Same
<1>6. \A q \in Writers("trust") : Remaining(q)' = Remaining(q) BY <1>5 DEF Remaining
<1>7. \A q \in Writers("trust") : Vouched(proc'[q].out, Remaining(q)')
  BY <1>2, <1>5, <1>6
<1>8. \A q \in Writers("trust")' : Vouched(proc'[q].out, Remaining(q)')
  BY <1>1, <1>7
<1>9. QED BY <1>1, <1>3, <1>4, <1>8 DEF TrustInv

(* What is read of a store that is not broken is vouched for.              *)
LEMMA ReadVouched ==
    ASSUME WriteInv, TrustInv, "trust" \notin broken
    PROVE  Vouched(data["trust"], vouched)
<1>1. CASE Writers("trust") = {} BY <1>1, NobodyWrites DEF TrustInv
<1>2. CASE Writers("trust") # {}
  <2>1. data["trust"] = Empty BY <1>2 DEF WriteInv, OneWriter, Files, InPlace
  <2>2. QED BY <2>1, NothingVouched DEF Unreadable
<1>3. QED BY <1>1, <1>2

LEMMA InitTrust == Init => TrustInv
<1> SUFFICES ASSUME Init PROVE TrustInv OBVIOUS
<1>1. \A f : Writers(f) = {} BY DEF Init, Writers, In, Idle
<1>2. vouched = {x.version : x \in {y \in Entries(data["trust"]) : y.id = 1}} /\ shown = None
  BY DEF Init
<1>3. Held("trust") = data["trust"] BY <1>1, NobodyWrites
<1>4. \A x \in Entries(data["trust"]) : x.id = 1 => x.version \in vouched BY <1>2
<1>5. \A p \in Process : proc[p].at = "idle" BY DEF Init, Idle
<1>6. QED BY <1>1, <1>2, <1>3, <1>4, <1>5 DEF TrustInv, Vouched, Reader, ShownInv

LEMMA NextTrust == ASSUME ProcInv, WriteInv, TrustInv, [Next]_vars PROVE TrustInv'
<1>0. "trust" \in Files BY DEF Files, InPlace
<1>1. ASSUME NEW p \in Process, Quiet(p), vouched' = vouched,
             "trust" \notin broken => Reader(p)' /\ ShownInv'
      PROVE  TrustInv'
  <2>1. Same("trust") BY <1>0, <1>1, QuietSame
  <2>2. Stay(p, "daily") BY <1>1, QuietStays DEF Stay
  <2>3. QED BY <1>1, <2>1, <2>2, TrustElsewhere
<1>2. ASSUME NEW p \in Process, NEW o \in Operation, Lock(p, o) \/ Read(p, o) PROVE TrustInv'
  <2>1. vouched' = vouched /\ shown' = shown BY <1>2 DEF Lock, Read
  <2>2. proc = [q \in Process |-> proc[q]] BY DEF ProcInv
  <2>3. ASSUME "trust" \notin broken PROVE Reader(p)'
    <3>1. CASE At(p, "holding", o)
      <4>1. proc'[p].at = "holding" BY <2>2, <3>1, AtStarts DEF Started
      <4>2. QED BY <4>1 DEF Reader
    <3>2. CASE At(p, "read", o)
      <4>1. proc'[p].op = o /\ proc'[p].base = data[o.file] /\ proc'[p].known = vouched
        <5>1. Started(proc'[p], "read", o) BY <2>2, <3>2, AtStarts
        <5>2. QED BY <5>1 DEF Started
      <4>2. o.file = "trust" => Vouched(proc'[p].base, proc'[p].known)
        BY <2>3, <4>1, ReadVouched
      <4>3. QED BY <4>1, <4>2 DEF Reader, File
    <3>3. CASE proc' = proc BY <2>3, <3>3 DEF TrustInv, Reader, File
    <3>4. QED BY <1>2, <3>1, <3>2, <3>3 DEF Lock, Read
  <2>4. "trust" \notin broken => ShownInv' BY <2>1 DEF TrustInv, ShownInv
  <2>5. Quiet(p) BY <1>2 DEF Quiet
  <2>6. QED BY <1>1, <2>1, <2>3, <2>4, <2>5
<1>3. ASSUME NEW p \in Process, Promote(p) PROVE TrustInv'
  <2>1. vouched' = vouched /\ shown' = shown BY <1>3 DEF Promote
  <2>2. proc[p].op \in Operation /\ proc[p].op.do = "learning mark" /\ proc'[p].op = Rule(proc[p].op)
    BY <1>3, PromoteBecomes, WhatIsDone
  <2>3. Reader(p)' BY <2>2, RuleIs DEF Reader, File
  <2>4. "trust" \notin broken => ShownInv' BY <2>1 DEF TrustInv, ShownInv
  <2>5. Quiet(p) BY <1>3 DEF Quiet
  <2>6. QED BY <1>1, <2>1, <2>3, <2>4, <2>5
<1>4. ASSUME NEW p \in Process,
             \/ Replace(p) /\ proc[p].out = NoWrite
             \/ NothingToWrite(p)
             \/ Kill(p) /\ proc[p].at # "truncated"
      PROVE  TrustInv'
  <2>1. vouched' = vouched /\ shown' = shown /\ proc' = [proc EXCEPT ![p] = Idle]
    BY <1>4 DEF Replace, NothingToWrite, Kill
  <2>2. proc'[p] = Idle BY <2>1 DEF ProcInv
  <2>3. Reader(p)' BY <2>2 DEF Reader, Idle
  <2>4. "trust" \notin broken => ShownInv' BY <2>1 DEF TrustInv, ShownInv
  <2>5. Quiet(p) BY <1>4 DEF Quiet
  <2>6. QED BY <1>1, <2>1, <2>3, <2>4, <2>5
<1>5. ASSUME NEW p \in Process, Bootstrap(p) PROVE TrustInv'
  <2>1. /\ vouched' = vouched /\ proc' = [proc EXCEPT ![p] = Idle]
        /\ proc[p].at = "read" /\ proc[p].op.do = "load"
        /\ shown' = IF Verbatim(p) THEN [version |-> version, known |-> proc[p].known] ELSE None
    BY <1>5 DEF Bootstrap, In
  <2>2. proc'[p] = Idle BY <2>1 DEF ProcInv
  <2>3. Reader(p)' BY <2>2 DEF Reader, Idle
  <2>4. ASSUME "trust" \notin broken PROVE ShownInv'
    <3>1. File(p) = "trust" BY <2>1, WhatIsDone, WhoseOperation DEF File
    <3>2. Vouched(proc[p].base, proc[p].known) BY <2>1, <2>4, <3>1 DEF TrustInv, Reader
    <3>3. CASE Verbatim(p)
      <4>1. [id |-> 1, version |-> version] \in Entries(proc[p].base)
        BY <3>3 DEF Verbatim, Vouches
      <4>2. version \in proc[p].known BY <3>2, <4>1 DEF Vouched
      <4>3. shown'.version = version /\ shown'.known = proc[p].known BY <2>1, <3>3
      <4>4. QED BY <4>2, <4>3 DEF ShownInv
    <3>4. CASE ~Verbatim(p) BY <2>1, <3>4 DEF ShownInv
    <3>5. QED BY <3>3, <3>4
  <2>5. Quiet(p) BY <1>5 DEF Quiet
  <2>6. QED BY <1>1, <2>1, <2>3, <2>4, <2>5
<1>6. ASSUME NEW p \in Process, Replace(p), proc[p].out # NoWrite PROVE TrustInv'
  <2>1. PICK f : f = File(p) OBVIOUS
  <2>2. Touches(f) /\ f \in Locked BY <1>6, <2>1, ReplaceTouches
  <2>3. Same("trust") BY <1>0, <2>2 DEF Touches, Locked
  <2>4. vouched' = vouched /\ shown' = shown /\ proc' = [Astray(f, proc) EXCEPT ![p] = Idle]
    BY <1>6, <2>1 DEF Replace
  <2>5. proc'[p] = Idle /\ Stay(p, f) BY <2>4, AstrayBut
  <2>6. Reader(p)' BY <2>5 DEF Reader, Idle
  <2>7. "trust" \notin broken => ShownInv' BY <2>4 DEF TrustInv, ShownInv
  <2>8. QED BY <2>3, <2>4, <2>5, <2>6, <2>7, TrustElsewhere
<1>7. ASSUME NEW p \in Process, Truncate(p) PROVE TrustInv'
  <2>1. PICK f : f = File(p) OBVIOUS
  <2>2. /\ Touches(f)
        /\ f \notin broken' =>
              /\ Writers(f) = {} /\ data[f] = proc[p].base
              /\ Writers(f)' = {p} /\ Held(f)' = Held(f)
    BY <1>7, <2>1, TruncateTouches
  <2>3. /\ proc[p].at = "read" /\ proc'[p].at = "truncated"
        /\ proc'[p].op = proc[p].op /\ proc'[p].out = proc[p].out
        /\ Stay(p, f)
    BY <1>7, <2>1, TruncateBecomes
  <2>4. /\ shown' = shown /\ proc[p].out # NoWrite
        /\ proc[p].op.do # "load"
        /\ vouched' = IF proc[p].op.do = "trust" /\ proc[p].op.id = 1
                      THEN vouched \cup {proc[p].hash} ELSE vouched
    BY <1>7 DEF Truncate, Writes
  <2>5. proc[p].op \in Operation BY <2>3, WhatIsDone
  <2>6. Reader(p)' BY <2>3 DEF Reader
  <2>7. "trust" \notin broken => ShownInv' BY <2>4 DEF TrustInv, ShownInv
  <2>8. CASE f # "trust"
    <3>1. Same("trust") BY <1>0, <2>2, <2>8 DEF Touches
    <3>2. vouched' = vouched BY <2>1, <2>4, <2>5, <2>8, WhoseOperation DEF File
    <3>3. QED BY <2>3, <2>6, <2>7, <3>1, <3>2, TrustElsewhere
  <2>9. CASE f = "trust"
    <3> SUFFICES ASSUME "trust" \notin broken' PROVE TrustInv' BY DEF TrustInv
    <3>1. "trust" \notin broken BY <2>2, <2>9 DEF Touches
    <3>2. /\ Writers("trust") = {} /\ data["trust"] = proc[p].base
          /\ Writers("trust")' = {p} /\ Held("trust")' = Held("trust")
      BY <2>2, <2>9
    <3>3. Vouched(proc[p].base, vouched) BY <3>1, <3>2, ReadVouched
    <3>4. proc[p].op.do \in {"trust", "untrust"}
      BY <2>1, <2>4, <2>5, <2>9, WhoseOperation DEF File
    <3>5. Vouched(Held("trust")', vouched')
      BY <2>4, <3>1, <3>2 DEF TrustInv, Vouched
    <3>6. PICK u \in Atomic!Before(World) :
             proc[p].out = Outcome(proc[p].op, proc[p].base, u) /\ proc[p].hash = u.version
      <4>1. Doing(proc[p], World) /\ proc[p].op.file = "trust"
        BY <2>1, <2>3, <2>9 DEF ProcInv, Right, File
      <4>2. QED BY <4>1 DEF Doing
    <3>7. Vouched(proc[p].out,
                  IF proc[p].op.do = "untrust" /\ proc[p].op.id = 1 THEN {}
                  ELSE IF proc[p].op.do = "trust" /\ proc[p].op.id = 1
                       THEN vouched \cup {u.version} ELSE vouched)
      BY <2>4, <3>3, <3>4, <3>6, TrustOutcome
    <3>8. Remaining(p)' = IF proc[p].op.do = "untrust" /\ proc[p].op.id = 1 THEN {}
                          ELSE IF proc[p].op.do = "trust" /\ proc[p].op.id = 1
                               THEN vouched \cup {u.version} ELSE vouched
      BY <2>3, <2>4, <3>6 DEF Remaining
    <3>9. Vouched(proc'[p].out, Remaining(p)') BY <2>3, <3>7, <3>8
    <3>10. \A q \in Process : Reader(q)' BY <2>3, <2>6, <3>1, ReadersStay DEF TrustInv
    <3>11. QED BY <2>7, <3>1, <3>2, <3>5, <3>9, <3>10 DEF TrustInv
  <2>10. QED BY <2>8, <2>9
<1>8. ASSUME NEW p \in Process, Write(p) PROVE TrustInv'
  <2>1. PICK f : f = File(p) OBVIOUS
  <2>2. /\ Touches(f)
        /\ f \notin broken' =>
              /\ Held(f)' = proc[p].out /\ Writers(f)' = {}
    BY <1>8, <2>1, WriteTouches
  <2>3. /\ proc[p].at = "truncated" /\ proc[p].op \in Operation /\ Stay(p, f)
        /\ proc[p].op.do # "rule append" => proc'[p] = Idle
        /\ proc[p].op.do = "rule append" =>
              /\ Doing(proc[p].then, World) /\ Marks(proc[p], proc[p].op.id)
              /\ proc'[p].op = proc[p].then.op
    BY <1>8, <2>1, WriteBecomes
  <2>4. shown' = shown
        /\ vouched' = IF proc[p].op.do = "untrust" /\ proc[p].op.id = 1 THEN {} ELSE vouched
    BY <1>8 DEF Write
  <2>5. Reader(p)'
    <3>1. CASE proc[p].op.do # "rule append"
      <4>1. proc'[p] = Idle BY <2>3, <3>1
      <4>2. QED BY <4>1 DEF Reader, Idle
    <3>2. CASE proc[p].op.do = "rule append"
      <4>1. proc'[p].op \in Operation /\ proc'[p].op.do = "learning mark"
        BY <2>3, <3>2 DEF Doing, Marks
      <4>2. proc'[p].op.file # "trust" BY <4>1, WhoseOperation
      <4>3. QED BY <4>2 DEF Reader, File
    <3>3. QED BY <3>1, <3>2
  <2>6. "trust" \notin broken => ShownInv' BY <2>4 DEF TrustInv, ShownInv
  <2>7. CASE f # "trust"
    <3>1. Same("trust") BY <1>0, <2>2, <2>7 DEF Touches
    <3>2. vouched' = vouched BY <2>1, <2>3, <2>4, <2>7, WhoseOperation DEF File
    <3>3. QED BY <2>3, <2>5, <2>6, <3>1, <3>2, TrustElsewhere
  <2>8. CASE f = "trust"
    <3> SUFFICES ASSUME "trust" \notin broken' PROVE TrustInv' BY DEF TrustInv
    <3>1. "trust" \notin broken BY <2>2, <2>8 DEF Touches
    <3>2. Held("trust")' = proc[p].out /\ Writers("trust")' = {} BY <2>2, <2>8
    <3>3. p \in Writers("trust") BY <2>1, <2>3, <2>8 DEF Writers, In
    <3>4. Vouched(proc[p].out, Remaining(p)) BY <3>1, <3>3 DEF TrustInv
    <3>5. vouched' = Remaining(p) BY <2>4 DEF Remaining
    <3>6. Vouched(Held("trust")', vouched') BY <3>2, <3>4, <3>5
    <3>7. \A q \in Process : Reader(q)' BY <2>3, <2>5, <3>1, ReadersStay DEF TrustInv
    <3>8. QED BY <2>6, <3>1, <3>2, <3>6, <3>7 DEF TrustInv
  <2>9. QED BY <2>7, <2>8
<1>9. ASSUME NEW p \in Process, Unlink(p) PROVE TrustInv'
  <2>1. Same("trust") BY <1>0, <1>9, UnlinkTouches DEF Touches
  <2>2. vouched' = vouched /\ shown' = shown /\ proc' = [Astray(File(p), proc) EXCEPT ![p] = Idle]
    BY <1>9 DEF Unlink
  <2>3. proc'[p] = Idle /\ Stay(p, File(p)) BY <2>2, AstrayBut
  <2>4. Reader(p)' BY <2>3 DEF Reader, Idle
  <2>5. "trust" \notin broken => ShownInv' BY <2>2 DEF TrustInv, ShownInv
  <2>6. QED BY <2>1, <2>2, <2>3, <2>4, <2>5, TrustElsewhere
<1>10. ASSUME NEW p \in Process, Quarantine(p) PROVE TrustInv'
  <2>1. /\ Touches("trust")
        /\ "trust" \notin broken' => Held("trust")' = Missing /\ Writers("trust")' = {}
    BY <1>10, QuarantineTouches
  <2>2. vouched' = vouched /\ shown' = shown BY <1>10 DEF Quarantine
  <2>3. Stay(p, "trust") /\ proc'[p].base = Missing BY <1>10, QuarantineBecomes
  <2> SUFFICES ASSUME "trust" \notin broken' PROVE TrustInv' BY DEF TrustInv
  <2>4. "trust" \notin broken BY <2>1 DEF Touches
  <2>5. Vouched(Held("trust")', vouched') BY <2>1, NothingVouched DEF Unreadable
  <2>6. Reader(p)' BY <2>3, NothingVouched DEF Reader, Unreadable
  <2>7. \A q \in Process : Reader(q)' BY <2>3, <2>4, <2>6, ReadersStay DEF TrustInv
  <2>8. ShownInv' BY <2>2, <2>4 DEF TrustInv, ShownInv
  <2>9. QED BY <2>1, <2>5, <2>7, <2>8 DEF TrustInv
<1>11. ASSUME NEW p \in Process, Kill(p), proc[p].at = "truncated" PROVE TrustInv'
  <2>1. PICK f : f = File(p) OBVIOUS
  <2>2. Touches(f) /\ f \in broken' BY <1>11, <2>1, KillTouches
  <2>3. CASE f = "trust" BY <2>2, <2>3 DEF TrustInv
  <2>4. CASE f # "trust"
    <3>1. Same("trust") BY <1>0, <2>2, <2>4 DEF Touches
    <3>2. vouched' = vouched /\ shown' = shown /\ proc' = [proc EXCEPT ![p] = Idle]
      BY <1>11 DEF Kill
    <3>3. proc'[p] = Idle /\ Stay(p, f) BY <3>2, ChangesOne DEF ProcInv
    <3>4. Reader(p)' BY <3>3 DEF Reader, Idle
    <3>5. "trust" \notin broken => ShownInv' BY <3>2 DEF TrustInv, ShownInv
    <3>6. QED BY <3>1, <3>2, <3>3, <3>4, <3>5, TrustElsewhere
  <2>5. QED BY <2>3, <2>4
<1>12. ASSUME Same("trust"), proc' = proc, vouched' = vouched, shown' = shown PROVE TrustInv'
  <2> SUFFICES ASSUME "trust" \notin broken' PROVE TrustInv' BY DEF TrustInv
  <2>1. "trust" \notin broken /\ Writers("trust")' = Writers("trust") BY <1>12 DEF Same
  <2>2. Held("trust")' = Held("trust") BY <1>12, SameHeld
  <2>3. \A q : Reader(q)' <=> Reader(q) BY <1>12 DEF Reader, File
  <2>4. \A q : Remaining(q)' = Remaining(q) BY <1>12 DEF Remaining
  <2>5. \A q \in Writers("trust")' : Vouched(proc'[q].out, Remaining(q)')
    BY <1>12, <2>1, <2>4 DEF TrustInv
  <2>6. Vouched(Held("trust")', vouched') BY <1>12, <2>1, <2>2 DEF TrustInv
  <2>7. ShownInv' /\ \A q \in Process : Reader(q)' BY <1>12, <2>1, <2>3 DEF TrustInv, ShownInv
  <2>8. QED BY <2>5, <2>6, <2>7 DEF TrustInv
<1>13. ASSUME NEW o \in Operation, AppendNote(o) PROVE TrustInv'
  <2>1. Same("trust") BY <1>0, <1>13, AppendTouches DEF Touches
  <2>2. proc' = proc /\ vouched' = vouched /\ shown' = shown BY <1>13 DEF AppendNote
  <2>3. QED BY <1>12, <2>1, <2>2
<1>14. CASE MemoryChanges \/ Midnight \/ UNCHANGED vars
  <2>1. /\ data' = data /\ proc' = proc /\ broken' = broken
        /\ vouched' = vouched /\ shown' = shown
    BY <1>14 DEF MemoryChanges, Midnight, vars
  <2>2. Same("trust") BY <1>0, <2>1, StillSame
  <2>3. QED BY <1>12, <2>1, <2>2
<1>15. CASE Next
  BY <1>15, <1>2, <1>3, <1>4, <1>5, <1>6, <1>7, <1>8, <1>9, <1>10, <1>11, <1>13, <1>14,
     ZenonT(60) DEF Next
<1>16. QED BY <1>14, <1>15

(* SharedFiles: read_and_check_trust and load_trust_store never hand a     *)
(* prompt a version of a file that its operator had not trusted when the   *)
(* store was read, however loads, changes, quarantines and kills           *)
(* interleave, as long as the changes of the store do not overlap.         *)
THEOREM OnlyVouchedVerbatim == Spec => []VerbatimOnlyVouched
<1>1. Init => TrustInv BY InitTrust
<1>2. (ProcInv /\ WriteInv) /\ TrustInv /\ [Next]_vars => TrustInv' BY NextTrust
<1>3. TrustInv => VerbatimOnlyVouched BY DEF TrustInv, ShownInv, VerbatimOnlyVouched
<1>4. QED BY <1>1, <1>2, <1>3, Processes, PTL DEF Spec


-----------------------------------------------------------------------------
(* Learnings and rules *)

Rules == Unreadable \cup Seq([id : Nat])
Learnings == Unreadable \cup Seq([id : Nat, status : {"pending", "promoted"}])

(* What was read is of the file's kind, and a learning that is to be       *)
(* marked was there to be.                                                 *)
Kept(x) ==
    /\ x.op.file = "rules" => x.base \in Rules
    /\ x.op.file = "learnings" =>
          /\ x.base \in Learnings
          /\ x.op.do = "learning mark" => Promotable(x.base, x.op.id)

Keeps(p) ==
    proc[p].at # "idle" =>
        /\ Kept(proc[p])
        /\ proc[p].op.do = "rule append" => Kept(proc[p].then)

KeptInv ==
    /\ data["rules"] \in Rules /\ data["learnings"] \in Learnings
    /\ \A p \in Process : Keeps(p)

Targets == Ids(Items(Held("rules")))

Reached(c, T) == \A k \in DOMAIN Items(c) : c[k].status = "promoted" => c[k].id \in T

Pends(p) ==
    proc[p].at = "read" /\ proc[p].op.do = "learning mark" /\ proc[p].then # None =>
        proc[p].op.id \in Targets

(* What is marked, or is about to be, has reached its target.              *)
PromoteInv ==
    {"rules", "learnings"} \cap broken = {} =>
        /\ Reached(data["learnings"], Targets)
        /\ \A p \in Writers("learnings") : Reached(proc[p].out, Targets)
        /\ \A p \in Process : Pends(p)

LEMMA GreatestExists ==
    ASSUME NEW S \in SUBSET Nat, S # {}, IsFiniteSet(S)
    PROVE  \E m \in S : \A s \in S : s <= m
<1> DEFINE Greater(s) == {t \in S : t > s}
           Greaters == {Greater(s) : s \in S}
<1>1. Greaters \subseteq FiniteSubsetsOf(S) /\ Greaters # {}
  <2>1. Greaters \subseteq SUBSET S OBVIOUS
  <2>2. Greaters # {} OBVIOUS
  <2> HIDE DEF Greaters
  <2>3. QED BY <2>1, <2>2, FS_FiniteSubsetsOfFinite
<1>2. PICK L \in Greaters : \A M \in Greaters : ~(<<M, L>> \in StrictSubsetOrdering(S))
  <2> HIDE DEF Greaters
  <2> QED BY <1>1, WFMin, FS_StrictSubsetOrderingWellFounded, Zenon
<1>3. PICK m \in S : L = Greater(m) OBVIOUS
<1>4. \A s \in S : s <= m
  <2> SUFFICES ASSUME NEW s \in S, s > m PROVE FALSE OBVIOUS
  <2>1. Greater(s) \in SUBSET S /\ Greater(m) \in SUBSET S OBVIOUS
  <2>2. Greater(s) \subseteq Greater(m)
    <3> SUFFICES ASSUME NEW t \in S, t > s PROVE t > m OBVIOUS
    <3>1. s \in Nat /\ m \in Nat /\ t \in Nat OBVIOUS
    <3>2. QED BY <3>1
  <2>3. s \in Greater(m) /\ s \notin Greater(s) OBVIOUS
  <2>4. <<Greater(s), L>> \in StrictSubsetOrdering(S)
    BY <1>3, <2>1, <2>2, <2>3 DEF StrictSubsetOrdering
  <2>5. QED BY <1>2, <2>4
<1>5. QED BY <1>4

(* The next number of a list is a number.                                  *)
LEMMA HighestType ==
    ASSUME NEW R, \A x \in R : x.id \in Nat, NEW s \in Seq(R)
    PROVE  Highest(s) \in Nat
<1>1. CASE s = <<>> BY <1>1 DEF Highest
<1>2. CASE s # <<>>
  <2> DEFINE ids == Ids(s)
             f == [k \in 1 .. Len(s) |-> s[k].id]
  <2>1. Len(s) \in Nat /\ DOMAIN s = 1 .. Len(s) /\ \A k \in 1 .. Len(s) : s[k] \in R
    OBVIOUS
  <2>2. ids = {s[k].id : k \in 1 .. Len(s)} /\ ids \in SUBSET Nat BY <2>1 DEF Ids
  <2>3. ids # {}
    <3>1. 1 \in 1 .. Len(s) BY <1>2, <2>1
    <3>2. s[1].id \in ids BY <2>2, <3>1
    <3>3. QED BY <3>2
  <2>4. IsFiniteSet(ids)
    <3>1. f \in Surjection(1 .. Len(s), ids) BY <2>2 DEF Surjection
    <3> HIDE DEF f, ids
    <3>2. 1 \in Int /\ Len(s) \in Int BY <2>1
    <3>3. IsFiniteSet(1 .. Len(s)) BY <3>2, FS_Interval, Zenon
    <3>4. QED BY <3>1, <3>3, FS_Surjection
  <2>5. Highest(s) = Max(ids) BY <1>2 DEF Highest
  <2> HIDE DEF ids
  <2>6. PICK m \in ids : \A i \in ids : i <= m BY <2>2, <2>3, <2>4, GreatestExists
  <2>7. \A i \in ids : m >= i BY <2>2, <2>6
  <2>8. Max(ids) \in ids BY <2>7 DEF Max
  <2>9. QED BY <2>2, <2>5, <2>8
<1>3. QED BY <1>1, <1>2

LEMMA ItemsType ==
    ASSUME NEW R, NEW c, c \in Unreadable \cup Seq(R)
    PROVE  Items(c) \in Seq(R)
BY DEF Items

LEMMA Appended ==
    ASSUME NEW R, NEW s \in Seq(R), NEW x \in R
    PROVE  /\ Append(s, x) \in Seq(R) /\ Len(s) \in Nat
           /\ DOMAIN s = 1 .. Len(s) /\ DOMAIN Append(s, x) = 1 .. Len(s) + 1
           /\ \A k \in 1 .. Len(s) : Append(s, x)[k] = s[k]
           /\ Append(s, x)[Len(s) + 1] = x
OBVIOUS

(* The ids, and what holds of each element, of a sequence and one more.    *)
LEMMA IdsAppended ==
    ASSUME NEW R, NEW s \in Seq(R), NEW x \in R
    PROVE  Ids(Append(s, x)) = Ids(s) \cup {x.id}
<1> DEFINE out == Append(s, x)
<1>1. /\ Len(s) \in Nat
      /\ DOMAIN s = 1 .. Len(s) /\ DOMAIN out = 1 .. Len(s) + 1
      /\ \A k \in 1 .. Len(s) : out[k] = s[k]
      /\ out[Len(s) + 1] = x
  OBVIOUS
<1> HIDE DEF out
<1>2. \A k \in DOMAIN out : out[k].id \in Ids(s) \cup {x.id} BY <1>1 DEF Ids
<1>3. \A k \in DOMAIN s : s[k].id \in Ids(out) BY <1>1 DEF Ids
<1>4. x.id \in Ids(out)
  <2>1. Len(s) + 1 \in DOMAIN out /\ out[Len(s) + 1].id = x.id BY <1>1
  <2>2. QED BY <2>1 DEF Ids
<1>5. Ids(out) = Ids(s) \cup {x.id} BY <1>2, <1>3, <1>4 DEF Ids
<1>6. QED BY <1>5 DEF out

LEMMA ReachedAppended ==
    ASSUME NEW R, NEW s \in Seq(R), NEW x \in R, x.status = "pending", NEW T,
           \A k \in DOMAIN s : s[k].status = "promoted" => s[k].id \in T
    PROVE  \A k \in DOMAIN Append(s, x) :
              Append(s, x)[k].status = "promoted" => Append(s, x)[k].id \in T
<1> DEFINE out == Append(s, x)
<1>1. /\ Len(s) \in Nat
      /\ DOMAIN s = 1 .. Len(s) /\ DOMAIN out = 1 .. Len(s) + 1
      /\ \A k \in 1 .. Len(s) : out[k] = s[k]
      /\ out[Len(s) + 1] = x
  OBVIOUS
<1> HIDE DEF out
<1>2. SUFFICES ASSUME NEW k \in DOMAIN out, out[k].status = "promoted" PROVE out[k].id \in T
  BY DEF out
<1>3. k \in 1 .. Len(s) \/ k = Len(s) + 1 BY <1>1
<1>4. k # Len(s) + 1 BY <1>1, <1>2
<1>5. QED BY <1>1, <1>2, <1>3, <1>4

LEMMA ItemsAre ==
    ASSUME NEW c
    PROVE  /\ \A k \in DOMAIN Items(c) : Items(c) = c /\ c \notin Unreadable
           /\ c \notin Unreadable => Items(c) = c
<1>1. CASE c \in Unreadable
  <2>1. Items(c) = <<>> BY <1>1 DEF Items
  <2>2. DOMAIN Items(c) = {} BY <2>1
  <2>3. QED BY <1>1, <2>2
<1>2. CASE c \notin Unreadable BY <1>2 DEF Items
<1>3. QED BY <1>1, <1>2

(* A rule is appended to what the file holds.                              *)
LEMMA RuleAppended ==
    ASSUME NEW c \in Rules, NEW n \in Nat
    PROVE  /\ RuleAppend(c, n) \in Rules
           /\ Ids(Items(RuleAppend(c, n))) = Ids(Items(c)) \cup {n}
<1> DEFINE R == [id : Nat]
           new == [id |-> n]
<1>1. RuleAppend(c, n) = Append(Items(c), new) BY DEF RuleAppend
<1>2. Items(c) \in Seq(R) BY ItemsType DEF Rules
<1>3. new \in R /\ new.id = n OBVIOUS
<1> HIDE DEF R, new
<1>4. RuleAppend(c, n) \in Seq(R) BY <1>1, <1>2, <1>3
<1>5. Ids(RuleAppend(c, n)) = Ids(Items(c)) \cup {n} BY <1>1, <1>2, <1>3, IdsAppended
<1>6. RuleAppend(c, n) \notin Unreadable BY <1>4, MarkerAssumption DEF R
<1>7. Items(RuleAppend(c, n)) = RuleAppend(c, n) BY <1>6 DEF Items
<1>8. QED BY <1>4, <1>5, <1>7 DEF Rules, R

(* A learning is added as pending.                                         *)
LEMMA LearningAdded ==
    ASSUME NEW c \in Learnings
    PROVE  /\ LearningAdd(c) \in Learnings
           /\ \A T : Reached(c, T) => Reached(LearningAdd(c), T)
<1> DEFINE R == [id : Nat, status : {"pending", "promoted"}]
           s == Items(c)
           new == [id |-> Highest(s) + 1, status |-> "pending"]
<1>1. s \in Seq(R) BY ItemsType DEF Learnings
<1>2. \A x \in R : x.id \in Nat OBVIOUS
<1>3. LearningAdd(c) = Append(s, new) BY DEF LearningAdd
<1>4. Highest(s) \in Nat
  <2> HIDE DEF R
  <2>1. QED BY <1>1, <1>2, HighestType
<1>5. new \in R /\ new.status = "pending"
  <2> HIDE DEF s
  <2>1. Highest(s) + 1 \in Nat BY <1>4
  <2>2. QED BY <2>1
<1> HIDE DEF R, s, new
<1>6. LearningAdd(c) \in Seq(R) BY <1>1, <1>3, <1>5
<1>7. ASSUME NEW T, Reached(c, T) PROVE Reached(LearningAdd(c), T)
  <2>1. \A k \in DOMAIN s : s[k].status = "promoted" => s[k].id \in T
    BY <1>7, ItemsAre DEF Reached, s
  <2>2. \A k \in DOMAIN Append(s, new) :
           Append(s, new)[k].status = "promoted" => Append(s, new)[k].id \in T
    BY <1>1, <1>5, <2>1, ReachedAppended
  <2>3. QED BY <1>3, <2>2, ItemsAre DEF Reached
<1>8. QED BY <1>6, <1>7 DEF Learnings, R

(* A learning is marked, once it has reached its target.                   *)
LEMMA LearningMarked ==
    ASSUME NEW c \in Learnings, NEW n, Promotable(c, n)
    PROVE  /\ LearningMark(c, n) \in Learnings
           /\ \A T : Reached(c, T) /\ n \in T => Reached(LearningMark(c, n), T)
<1> DEFINE R == [id : Nat, status : {"pending", "promoted"}]
           out == LearningMark(c, n)
<1>1. c \notin Unreadable /\ Items(c) = c BY ItemsAre DEF Promotable
<1>2. c \in Seq(R) BY <1>1 DEF Learnings
<1>3. out = [k \in DOMAIN c |-> IF c[k].id = n THEN [c[k] EXCEPT !.status = "promoted"] ELSE c[k]]
  BY DEF LearningMark, Mapped
<1>4. DOMAIN c = 1 .. Len(c) /\ Len(c) \in Nat /\ \A k \in DOMAIN c : c[k] \in R
  <2> HIDE DEF R
  <2>1. QED BY <1>2, Zenon, ElementOfSeq, LenProperties
<1> HIDE DEF out
<1>5. ASSUME NEW k \in DOMAIN c
      PROVE  /\ out[k] \in R /\ out[k].id = c[k].id
             /\ out[k].status = c[k].status \/ c[k].id = n
  <2> DEFINE x == c[k]
  <2>1. x \in R BY <1>4
  <2>2. out[k] = IF x.id = n THEN [x EXCEPT !.status = "promoted"] ELSE x BY <1>3
  <2> HIDE DEF x
  <2>3. out[k] \in R /\ out[k].id = x.id /\ (out[k].status = x.status \/ x.id = n)
    BY <2>1, <2>2
  <2>4. QED BY <2>3 DEF x
<1>6. DOMAIN out = DOMAIN c BY <1>3
<1>7. out \in Seq(R)
  <2> HIDE DEF R
  <2>1. out = [k \in 1 .. Len(c) |-> out[k]] BY <1>3, <1>4
  <2>2. \A k \in 1 .. Len(c) : out[k] \in R BY <1>4, <1>5
  <2>3. QED BY <1>4, <2>1, <2>2
<1>8. ASSUME NEW T, Reached(c, T), n \in T PROVE Reached(out, T)
  <2>1. \A k \in DOMAIN c : c[k].status = "promoted" => c[k].id \in T
    BY <1>1, <1>8 DEF Reached
  <2>2. \A k \in DOMAIN out : out[k].status = "promoted" => out[k].id \in T
    BY <1>5, <1>6, <1>8, <2>1
  <2>3. QED BY <2>2, ItemsAre DEF Reached
<1>9. QED BY <1>7, <1>8 DEF Learnings, out

LEMMA RuleOutcome ==
    ASSUME NEW o \in Operation, o.do = "rule append", NEW c \in Rules, NEW w
    PROVE  /\ Outcome(o, c, w) \in Rules
           /\ Ids(Items(Outcome(o, c, w))) = Ids(Items(c)) \cup {o.id}
<1>1. Outcome(o, c, w) = RuleAppend(c, o.id) BY DEF Outcome
<1>2. QED BY <1>1, RuleAppended, OperationType

LEMMA LearningOutcome ==
    ASSUME NEW o \in Operation, o.file = "learnings", NEW c \in Learnings, NEW w,
           o.do # "learning mark" \/ Promotable(c, o.id)
    PROVE  /\ Outcome(o, c, w) \in Learnings
           /\ \A T : Reached(c, T) /\ (o.do = "learning mark" => o.id \in T)
                     => Reached(Outcome(o, c, w), T)
<1>1. o.do \in {"learning add", "learning mark"} BY WhoseOperation
<1>2. CASE o.do = "learning add"
  <2>1. Outcome(o, c, w) = LearningAdd(c) BY <1>2 DEF Outcome
  <2>2. QED BY <1>2, <2>1, LearningAdded
<1>3. CASE o.do = "learning mark"
  <2>1. Promotable(c, o.id) BY <1>3
  <2>2. Outcome(o, c, w) = LearningMark(c, o.id) BY <1>3, <2>1 DEF Outcome
  <2>3. QED BY <1>3, <2>1, <2>2, LearningMarked
<1>4. QED BY <1>1, <1>2, <1>3


LEMMA InitKept == Init => KeptInv
<1> SUFFICES ASSUME Init PROVE KeptInv OBVIOUS
<1>1. PICK begin :
         /\ \A f \in play : begin[f] \in Start[f]
         /\ data = [f \in Files |-> IF f \in play THEN begin[f] ELSE Missing]
  BY DEF Init
<1>2. {"rules", "learnings"} \subseteq Files BY DEF Files, InPlace
<1>3. data["rules"] \in Start["rules"] \/ data["rules"] = Missing BY <1>1, <1>2
<1>4. data["learnings"] \in Start["learnings"] \/ data["learnings"] = Missing BY <1>1, <1>2
<1>5. data["rules"] \in Rules BY <1>3, StartAssumption DEF Rules, Unreadable
<1>6. data["learnings"] \in Learnings
  <2> DEFINE P == [id : Nat, status : {"pending"}]
             R == [id : Nat, status : {"pending", "promoted"}]
  <2>1. P \subseteq R OBVIOUS
  <2>2. \A c \in Seq(P) : c \in Seq(R)
    <3> HIDE DEF P, R
    <3>1. QED BY <2>1
  <2>3. Missing \in Learnings BY DEF Learnings, Unreadable
  <2>4. \A c \in Start["learnings"] : c \in Unreadable \cup Seq(P) BY StartAssumption
  <2> HIDE DEF P
  <2>5. QED BY <1>4, <2>2, <2>3, <2>4 DEF Learnings
<1>7. \A p \in Process : Keeps(p) BY DEF Init, Keeps, Idle
<1>8. QED BY <1>5, <1>6, <1>7 DEF KeptInv

(* What a promotion leaves at the start: no learning is promoted.          *)
LEMMA InitPromote == Init => PromoteInv
<1> SUFFICES ASSUME Init PROVE PromoteInv OBVIOUS
<1>1. PICK begin :
         /\ \A f \in play : begin[f] \in Start[f]
         /\ data = [f \in Files |-> IF f \in play THEN begin[f] ELSE Missing]
  BY DEF Init
<1>2. data["learnings"] \in Start["learnings"] \/ data["learnings"] = Missing
  BY <1>1 DEF Files, InPlace
<1>3. \A k \in DOMAIN Items(data["learnings"]) : data["learnings"][k].status # "promoted"
  <2> SUFFICES ASSUME NEW k \in DOMAIN Items(data["learnings"])
               PROVE  data["learnings"][k].status # "promoted"
    OBVIOUS
  <2>1. data["learnings"] \notin Unreadable /\ Items(data["learnings"]) = data["learnings"]
    BY ItemsAre
  <2> DEFINE P == [id : Nat, status : {"pending"}]
  <2>2. data["learnings"] \in Seq(P) BY <1>2, <2>1, StartAssumption DEF Unreadable
  <2>3. data["learnings"][k] \in P
    <3> HIDE DEF P
    <3>1. QED BY <2>1, <2>2
  <2>4. QED BY <2>3
<1>4. Reached(data["learnings"], Targets) BY <1>3 DEF Reached
<1>5. \A p \in Process : Pends(p) BY DEF Init, Pends, Idle
<1>6. Writers("learnings") = {} BY DEF Init, Writers, In, Idle
<1>7. QED BY <1>4, <1>5, <1>6 DEF PromoteInv

LEMMA KeepsStay ==
    ASSUME ProcInv, NEW p \in Process, NEW f, Stay(p, f), NEW q \in Process \ {p}, Keeps(q)
    PROVE  Keeps(q)'
BY StayFields DEF Keeps, Kept

LEMMA IdleKeeps == ASSUME NEW p \in Process, proc'[p] = Idle PROVE Keeps(p)'
<1>1. proc'[p].at = "idle" BY DEF Idle
<1>2. QED BY <1>1 DEF Keeps

(* A process that goes on with what it was at.                             *)
LEMMA SameKeeps ==
    ASSUME NEW p \in Process, Keeps(p), proc[p].at # "idle",
           proc'[p].op = proc[p].op, proc'[p].base = proc[p].base, proc'[p].then = proc[p].then
    PROVE  Keeps(p)'
BY DEF Keeps, Kept

(* What is written to a file of rules or learnings is one.                 *)
LEMMA OutKept ==
    ASSUME ProcInv, KeptInv, NEW p \in Process, proc[p].at # "idle"
    PROVE  /\ File(p) = "rules" =>
                /\ proc[p].op.do = "rule append"
                /\ proc[p].out \in Rules
                /\ Ids(Items(proc[p].out)) = Ids(Items(proc[p].base)) \cup {proc[p].op.id}
           /\ File(p) = "learnings" =>
                /\ proc[p].out \in Learnings
                /\ \A T : /\ Reached(proc[p].base, T)
                          /\ proc[p].op.do = "learning mark" => proc[p].op.id \in T
                          => Reached(proc[p].out, T)
<1>1. PICK u \in Atomic!Before(World) : proc[p].out = Outcome(proc[p].op, proc[p].base, u)
  BY WhatIsDone
<1>2. proc[p].op \in Operation BY WhatIsDone
<1>3. Kept(proc[p]) BY DEF KeptInv, Keeps
<1>4. File(p) = "rules" => proc[p].op.do = "rule append" /\ proc[p].base \in Rules
  BY <1>2, <1>3, WhoseOperation DEF Kept, File
<1>5. File(p) = "learnings" =>
         /\ proc[p].op.file = "learnings" /\ proc[p].base \in Learnings
         /\ proc[p].op.do # "learning mark" \/ Promotable(proc[p].base, proc[p].op.id)
  BY <1>3 DEF Kept, File
<1>6. CASE File(p) = "rules" BY <1>1, <1>2, <1>4, <1>6, RuleOutcome
<1>7. CASE File(p) = "learnings" BY <1>1, <1>2, <1>5, <1>7, LearningOutcome
<1>8. QED BY <1>6, <1>7

LEMMA NextKept == ASSUME ProcInv, KeptInv, [Next]_vars PROVE KeptInv'
<1>0. /\ {"rules", "learnings"} \subseteq Files
      /\ Missing \in Rules \cap Learnings /\ Empty \in Rules \cap Learnings
      /\ data = [f \in Files |-> data[f]] /\ proc = [q \in Process |-> proc[q]]
      /\ \A q \in Process : Keeps(q)
      /\ data["rules"] \in Rules /\ data["learnings"] \in Learnings
  BY DEF Files, InPlace, Rules, Learnings, Unreadable, ProcInv, KeptInv
<1>1. ASSUME data'["rules"] \in Rules, data'["learnings"] \in Learnings,
             NEW p \in Process, NEW f, Stay(p, f), Keeps(p)'
      PROVE  KeptInv'
  BY <1>0, <1>1, KeepsStay DEF KeptInv
<1>2. ASSUME NEW p \in Process, NEW f, Stay(p, f), Keeps(p)', data' = data PROVE KeptInv'
  BY <1>0, <1>1, <1>2
<1>3. ASSUME NEW p \in Process, NEW o \in Operation, Lock(p, o) \/ Read(p, o) PROVE KeptInv'
  <2>1. data' = data BY <1>3 DEF Lock, Read
  <2>2. CASE proc' = proc
    <3>1. \A q : Keeps(q)' <=> Keeps(q) BY <2>2 DEF Keeps
    <3>2. QED BY <1>0, <2>1, <3>1 DEF KeptInv
  <2>3. ASSUME NEW at, At(p, at, o), o.do # "rule append",
               o.do # "learning mark" \/ Promotable(data[o.file], o.id)
        PROVE  KeptInv'
    <3>1. Started(proc'[p], at, o) /\ Stay(p, "daily") BY <1>0, <2>3, AtStarts DEF Stay
    <3>2. proc'[p].op = o /\ proc'[p].base = data[o.file] BY <3>1 DEF Started
    <3>3. Kept(proc'[p]) BY <1>0, <2>3, <3>2 DEF Kept
    <3>4. Keeps(p)' BY <2>3, <3>2, <3>3 DEF Keeps
    <3>5. QED BY <1>2, <2>1, <3>1, <3>4
  <2>4. CASE Lock(p, o)
    <3>1. o.file \in Locked /\ At(p, "holding", o) BY <2>4 DEF Lock, TakesLock
    <3>2. o.do # "rule append" /\ o.do # "learning mark" BY <3>1, WhoseOperation DEF Locked
    <3>3. QED BY <2>3, <3>1, <3>2
  <2>5. CASE Read(p, o)
    <3>1. o.do # "rule append" BY <2>5 DEF Read
    <3>2. CASE o.do = "learning mark" /\ ~Promotable(data[o.file], o.id)
      BY <2>2, <2>5, <3>2 DEF Read
    <3>3. CASE ~(o.do = "learning mark" /\ ~Promotable(data[o.file], o.id))
      <4>1. At(p, "read", o) BY <2>5, <3>3 DEF Read
      <4>2. QED BY <2>3, <3>1, <3>3, <4>1
    <3>4. QED BY <3>2, <3>3
  <2>6. QED BY <1>3, <2>4, <2>5
<1>4. ASSUME NEW o \in Operation, AppendNote(o) PROVE KeptInv'
  <2>1. /\ data' = [data EXCEPT !["daily"] = Outcome(o, data[o.file], World)] /\ proc' = proc
    BY <1>4, WhoseOperation DEF AppendNote, Appends
  <2>2. data'["rules"] = data["rules"] /\ data'["learnings"] = data["learnings"] BY <1>0, <2>1
  <2>3. \A q : Keeps(q)' <=> Keeps(q) BY <2>1 DEF Keeps
  <2>4. QED BY <1>0, <2>2, <2>3 DEF KeptInv
<1>5. ASSUME NEW p \in Process, Replace(p) PROVE KeptInv'
  <2>1. File(p) \in Locked BY <1>5 DEF Replace, In, ProcInv, Right, TakesLock, File
  <2>2. data'["rules"] = data["rules"] /\ data'["learnings"] = data["learnings"]
    BY <1>0, <1>5, <2>1 DEF Replace, Locked
  <2>3. proc'[p] = Idle /\ Stay(p, File(p)) BY <1>0, <1>5, AstrayBut, ChangesOne DEF Replace
  <2>4. QED BY <1>0, <1>1, <2>2, <2>3, IdleKeeps
<1>6. ASSUME NEW p \in Process, Promote(p) PROVE KeptInv'
  <2>1. data' = data BY <1>6 DEF Promote
  <2>2. /\ proc[p].at = "read" /\ proc[p].op.do = "learning mark"
        /\ proc'[p].op = Rule(proc[p].op) /\ proc'[p].base = data["rules"]
        /\ proc'[p].then = proc[p] /\ Stay(p, "learnings")
    BY <1>6, PromoteBecomes
  <2>3. proc[p].op \in Operation BY <2>2, WhatIsDone
  <2>4. proc'[p].op.file = "rules" BY <2>2, <2>3, RuleIs
  <2>5. Kept(proc'[p]) BY <1>0, <2>2, <2>4 DEF Kept
  <2>6. Kept(proc[p]) BY <1>0, <2>2 DEF Keeps
  <2>7. Keeps(p)' BY <2>2, <2>5, <2>6 DEF Keeps
  <2>8. QED BY <1>2, <2>1, <2>2, <2>7
<1>7. ASSUME NEW p \in Process, NothingToWrite(p) \/ Bootstrap(p) \/ Kill(p) PROVE KeptInv'
  <2>1. data' = data /\ proc' = [proc EXCEPT ![p] = Idle]
    BY <1>7 DEF NothingToWrite, Bootstrap, Kill
  <2>2. proc'[p] = Idle /\ Stay(p, File(p)) BY <1>0, <2>1, ChangesOne
  <2>3. QED BY <1>2, <2>1, <2>2, IdleKeeps
<1>8. ASSUME NEW p \in Process, Truncate(p) PROVE KeptInv'
  <2>1. data' = [data EXCEPT ![File(p)] = Empty] BY <1>8 DEF Truncate
  <2>2. data'["rules"] \in Rules /\ data'["learnings"] \in Learnings BY <1>0, <2>1
  <2>3. /\ proc[p].at = "read" /\ proc'[p].op = proc[p].op /\ proc'[p].base = proc[p].base
        /\ proc'[p].then = proc[p].then /\ Stay(p, File(p))
    BY <1>8, TruncateBecomes
  <2>4. Keeps(p)' BY <1>0, <2>3, SameKeeps
  <2>5. QED BY <1>1, <2>2, <2>3, <2>4
<1>9. ASSUME NEW p \in Process, Write(p) PROVE KeptInv'
  <2>1. data' = data \/ data' = [data EXCEPT ![File(p)] = proc[p].out] BY <1>9 DEF Write
  <2>2. proc[p].at = "truncated" BY <1>9 DEF Write, In
  <2>3. /\ File(p) = "rules" => proc[p].out \in Rules
        /\ File(p) = "learnings" => proc[p].out \in Learnings
    BY <2>2, OutKept
  <2>4. data'["rules"] \in Rules /\ data'["learnings"] \in Learnings BY <1>0, <2>1, <2>3
  <2>5. /\ Stay(p, File(p))
        /\ proc[p].op.do # "rule append" => proc'[p] = Idle
        /\ proc[p].op.do = "rule append" =>
              /\ Doing(proc[p].then, World) /\ Marks(proc[p], proc[p].op.id)
              /\ proc'[p].op = proc[p].then.op /\ proc'[p].base = proc[p].then.base
    BY <1>9, WriteBecomes
  <2>6. CASE proc[p].op.do # "rule append"
    <3>1. Keeps(p)' BY <2>5, <2>6, IdleKeeps
    <3>2. QED BY <1>1, <2>4, <2>5, <3>1
  <2>7. CASE proc[p].op.do = "rule append"
    <3>1. Kept(proc[p].then) BY <1>0, <2>2, <2>7 DEF Keeps
    <3>2. Kept(proc'[p]) BY <2>5, <2>7, <3>1 DEF Kept
    <3>3. proc'[p].op.do = "learning mark" BY <2>5, <2>7 DEF Marks
    <3>4. Keeps(p)' BY <3>2, <3>3 DEF Keeps
    <3>5. QED BY <1>1, <2>4, <2>5, <3>4
  <2>8. QED BY <2>6, <2>7
<1>10. ASSUME NEW p \in Process, Unlink(p) PROVE KeptInv'
  <2>1. /\ data' = [data EXCEPT ![File(p)] = Missing]
        /\ proc' = [Astray(File(p), proc) EXCEPT ![p] = Idle]
    BY <1>10 DEF Unlink
  <2>2. data'["rules"] \in Rules /\ data'["learnings"] \in Learnings BY <1>0, <2>1
  <2>3. proc'[p] = Idle /\ Stay(p, File(p)) BY <2>1, AstrayBut
  <2>4. QED BY <1>1, <2>2, <2>3, IdleKeeps
<1>11. ASSUME NEW p \in Process, Quarantine(p) PROVE KeptInv'
  <2>1. data' = [data EXCEPT !["trust"] = Missing] BY <1>11 DEF Quarantine
  <2>2. data'["rules"] \in Rules /\ data'["learnings"] \in Learnings BY <1>0, <2>1
  <2>3. /\ proc[p].at = "read" /\ File(p) = "trust"
        /\ proc'[p].op = proc[p].op /\ Stay(p, "trust")
    BY <1>11, QuarantineBecomes
  <2>4. proc[p].op \in Operation /\ proc[p].op.file = "trust" BY <2>3, WhatIsDone DEF File
  <2>5. proc'[p].op.file = "trust" /\ proc'[p].op.do # "rule append" BY <2>3, <2>4, WhoseOperation
  <2>6. Keeps(p)' BY <2>5 DEF Keeps, Kept
  <2>7. QED BY <1>1, <2>2, <2>3, <2>6
<1>12. CASE MemoryChanges \/ Midnight \/ UNCHANGED vars
  <2>1. data' = data /\ proc' = proc BY <1>12 DEF MemoryChanges, Midnight, vars
  <2>2. \A q : Keeps(q)' <=> Keeps(q) BY <2>1 DEF Keeps
  <2>3. QED BY <1>0, <2>1, <2>2 DEF KeptInv
<1>13. CASE Next
  BY <1>13, <1>3, <1>4, <1>5, <1>6, <1>7, <1>8, <1>9, <1>10, <1>11, <1>12, ZenonT(60) DEF Next
<1>14. QED BY <1>12, <1>13


(* What has been promoted stays promoted: the file of rules only grows.    *)
LEMMA HeldRules == ASSUME KeptInv PROVE Held("rules") \in Rules
<1>1. CASE "rules" \notin broken /\ Writers("rules") # {}
  <2> DEFINE p == CHOOSE p \in Writers("rules") : TRUE
  <2>1. p \in Writers("rules") BY <1>1
  <2>2. Held("rules") = proc[p].base BY <1>1 DEF Held
  <2> HIDE DEF p
  <2>3. p \in Process /\ proc[p].at = "truncated" /\ proc[p].op.file = "rules"
    BY <2>1 DEF Writers, In, File
  <2>4. QED BY <2>2, <2>3 DEF KeptInv, Keeps, Kept
<1>2. CASE ~("rules" \notin broken /\ Writers("rules") # {}) BY <1>2 DEF Held, KeptInv
<1>3. QED BY <1>1, <1>2

LEMMA TargetsGrow ==
    ASSUME ProcInv, WriteInv, KeptInv, [Next]_vars, "rules" \notin broken'
    PROVE  Targets \subseteq Targets'
<1>1. PICK f \in Files : Touches(f) BY NextTouches
<1>2. "rules" \in Files BY DEF Files, InPlace
<1>3. CASE Held("rules")' = Held("rules") BY <1>3 DEF Targets
<1>4. CASE f # "rules"
  <2>1. Same("rules") BY <1>1, <1>2, <1>4 DEF Touches
  <2>2. QED BY <1>3, <2>1, SameHeld
<1>5. ASSUME f = "rules", Held("rules")' # Held("rules") PROVE Targets \subseteq Targets'
  <2>1. PICK o \in Operation, w \in Atomic!Before(World) :
           o.file = "rules" /\ Held("rules")' = Outcome(o, Held("rules"), w)
    BY <1>1, <1>5 DEF Touches, Turn
  <2>2. o.do = "rule append" BY <2>1, WhoseOperation
  <2>3. Ids(Items(Outcome(o, Held("rules"), w))) = Targets \cup {o.id}
    BY <2>2, HeldRules, RuleOutcome DEF Targets
  <2>4. Targets' = Targets \cup {o.id} BY <2>1, <2>3 DEF Targets
  <2>5. QED BY <2>4
<1>6. QED BY <1>3, <1>4, <1>5

LEMMA ReachedMore ==
    ASSUME NEW c, NEW S, NEW T, S \subseteq T, Reached(c, S)
    PROVE  Reached(c, T)
BY DEF Reached

(* A step that does not concern the learnings.                             *)
LEMMA PromoteElsewhere ==
    ASSUME ProcInv, PromoteInv, NEW p \in Process, NEW f, Stay(p, f), Same("learnings"),
           {"rules", "learnings"} \cap broken = {}, Targets \subseteq Targets', Pends(p)'
    PROVE  PromoteInv'
<1>1. /\ Reached(data["learnings"], Targets)
      /\ \A q \in Writers("learnings") : Reached(proc[q].out, Targets)
      /\ \A q \in Process : Pends(q)
  BY DEF PromoteInv
<1>2. /\ data'["learnings"] = data["learnings"] /\ Writers("learnings")' = Writers("learnings")
      /\ \A q \in Writers("learnings") : proc'[q] = proc[q]
  BY DEF Same
<1>3. Reached(data'["learnings"], Targets') BY <1>1, <1>2, ReachedMore
<1>4. \A q \in Writers("learnings") : Reached(proc'[q].out, Targets') BY <1>1, <1>2, ReachedMore
<1>5. \A q \in Writers("learnings")' : Reached(proc'[q].out, Targets') BY <1>2, <1>4
<1>6. ASSUME NEW q \in Process \ {p} PROVE Pends(q)'
  <2>1. proc'[q].at = proc[q].at /\ proc'[q].op = proc[q].op /\ proc'[q].then = proc[q].then
    BY StayFields
  <2>2. Pends(q) BY <1>1
  <2>3. QED BY <2>1, <2>2 DEF Pends
<1>7. QED BY <1>3, <1>5, <1>6 DEF PromoteInv

LEMMA IdlePends == ASSUME NEW p \in Process, proc'[p] = Idle PROVE Pends(p)'
<1>1. proc'[p].at = "idle" BY DEF Idle
<1>2. QED BY <1>1 DEF Pends

LEMMA NextPromote ==
    ASSUME ProcInv, WriteInv, KeptInv, PromoteInv, [Next]_vars
    PROVE  PromoteInv'
<1> SUFFICES ASSUME {"rules", "learnings"} \cap broken' = {} PROVE PromoteInv' BY DEF PromoteInv
<1>0. /\ {"rules", "learnings"} \cap broken = {} /\ Targets \subseteq Targets'
      /\ "learnings" \in Files /\ proc = [q \in Process |-> proc[q]]
      /\ \A q \in Process : Pends(q)
  <2>1. PICK f \in Files : Touches(f) BY NextTouches
  <2>2. {"rules", "learnings"} \cap broken = {} BY <2>1 DEF Touches
  <2>3. QED BY <2>2, TargetsGrow DEF Files, InPlace, ProcInv, PromoteInv
<1>1. ASSUME NEW p \in Process, Quiet(p), Pends(p)' PROVE PromoteInv'
  <2>1. Same("learnings") BY <1>0, <1>1, QuietSame
  <2>2. Stay(p, "daily") BY <1>1, QuietStays DEF Stay
  <2>3. QED BY <1>0, <1>1, <2>1, <2>2, PromoteElsewhere
<1>2. ASSUME NEW p \in Process, NEW o \in Operation, Lock(p, o) \/ Read(p, o) PROVE PromoteInv'
  <2>1. CASE proc' = proc
    <3>1. Pends(p)' BY <1>0, <2>1 DEF Pends
    <3>2. QED BY <1>1, <1>2, <3>1 DEF Quiet
  <2>2. ASSUME NEW at, At(p, at, o) PROVE PromoteInv'
    <3>1. Started(proc'[p], at, o) BY <1>0, <2>2, AtStarts
    <3>2. Pends(p)' BY <3>1 DEF Started, Pends
    <3>3. QED BY <1>1, <1>2, <3>2 DEF Quiet
  <2>3. QED BY <1>2, <2>1, <2>2 DEF Lock, Read
<1>3. ASSUME NEW p \in Process, Promote(p) PROVE PromoteInv'
  <2>1. proc[p].op \in Operation /\ proc[p].op.do = "learning mark" /\ proc'[p].op = Rule(proc[p].op)
    BY <1>3, PromoteBecomes, WhatIsDone
  <2>2. proc'[p].op.do = "rule append" BY <2>1, RuleIs
  <2>3. Pends(p)' BY <2>2 DEF Pends
  <2>4. QED BY <1>1, <1>3, <2>3 DEF Quiet
<1>4. ASSUME NEW p \in Process,
             \/ Replace(p) /\ proc[p].out = NoWrite
             \/ NothingToWrite(p) \/ Bootstrap(p)
             \/ Kill(p) /\ proc[p].at # "truncated"
      PROVE  PromoteInv'
  <2>1. proc' = [proc EXCEPT ![p] = Idle] BY <1>4 DEF Replace, NothingToWrite, Bootstrap, Kill
  <2>2. Pends(p)' BY <1>0, <2>1, IdlePends
  <2>3. QED BY <1>1, <1>4, <2>2 DEF Quiet
<1>5. ASSUME NEW p \in Process, Replace(p), proc[p].out # NoWrite PROVE PromoteInv'
  <2>1. PICK f : f = File(p) OBVIOUS
  <2>2. Touches(f) /\ f \in Locked BY <1>5, <2>1, ReplaceTouches
  <2>3. Same("learnings") BY <1>0, <2>2 DEF Touches, Locked
  <2>4. proc' = [Astray(f, proc) EXCEPT ![p] = Idle] BY <1>5, <2>1 DEF Replace
  <2>5. proc'[p] = Idle /\ Stay(p, f) BY <2>4, AstrayBut
  <2>6. QED BY <1>0, <2>3, <2>5, IdlePends, PromoteElsewhere
<1>6. ASSUME NEW p \in Process, Truncate(p) PROVE PromoteInv'
  <2>1. PICK f : f = File(p) OBVIOUS
  <2>2. /\ Touches(f)
        /\ f \notin broken' =>
              /\ Writers(f) = {} /\ data[f] = proc[p].base /\ Writers(f)' = {p}
    BY <1>6, <2>1, TruncateTouches
  <2>3. /\ proc[p].at = "read" /\ proc'[p].at = "truncated" /\ proc'[p].out = proc[p].out
        /\ Stay(p, f)
    BY <1>6, <2>1, TruncateBecomes
  <2>4. Pends(p)' BY <2>3 DEF Pends
  <2>5. CASE f # "learnings"
    <3>1. Same("learnings") BY <1>0, <2>2, <2>5 DEF Touches
    <3>2. QED BY <1>0, <2>3, <2>4, <3>1, PromoteElsewhere
  <2>6. CASE f = "learnings"
    <3>1. data["learnings"] = proc[p].base /\ Writers("learnings")' = {p} BY <2>2, <2>6
    <3>2. data'["learnings"] = Empty BY <1>0, <1>6, <2>1, <2>6 DEF Truncate, ProcInv
    <3>3. proc[p].op.do = "learning mark" => proc[p].op.id \in Targets
      <4>1. proc[p].op.do = "learning mark" => proc[p].then # None BY <1>6 DEF Truncate, Writes
      <4>2. QED BY <1>0, <2>3, <4>1 DEF Pends
    <3>4. Reached(proc[p].base, Targets) BY <1>0, <3>1 DEF PromoteInv
    <3>5. Reached(proc[p].out, Targets) BY <2>1, <2>3, <2>6, <3>3, <3>4, OutKept
    <3>6. Reached(proc'[p].out, Targets') BY <1>0, <2>3, <3>5, ReachedMore
    <3>7. Reached(data'["learnings"], Targets')
      BY <3>2, ItemsAre DEF Reached, Unreadable
    <3>8. \A q \in Process \ {p} : Pends(q)'
      <4> SUFFICES ASSUME NEW q \in Process \ {p} PROVE Pends(q)' OBVIOUS
      <4>1. proc'[q].at = proc[q].at /\ proc'[q].op = proc[q].op /\ proc'[q].then = proc[q].then
        BY <2>3, StayFields
      <4>2. QED BY <1>0, <4>1 DEF Pends
    <3>9. QED BY <2>4, <3>1, <3>6, <3>7, <3>8 DEF PromoteInv
  <2>7. QED BY <2>5, <2>6
<1>7. ASSUME NEW p \in Process, Write(p) PROVE PromoteInv'
  <2>1. PICK f : f = File(p) OBVIOUS
  <2>2. /\ Touches(f)
        /\ f \notin broken' =>
              /\ Held(f)' = proc[p].out /\ data'[f] = proc[p].out /\ Writers(f)' = {}
    BY <1>7, <2>1, WriteTouches
  <2>3. /\ proc[p].at = "truncated" /\ proc[p].op \in Operation /\ Stay(p, f)
        /\ proc[p].op.do # "rule append" => proc'[p] = Idle
        /\ proc[p].op.do = "rule append" =>
              Marks(proc[p], proc[p].op.id) /\ proc'[p].op = proc[p].then.op
    BY <1>7, <2>1, WriteBecomes
  <2>4. Pends(p)'
    <3>1. CASE proc[p].op.do # "rule append" BY <2>3, <3>1, IdlePends
    <3>2. CASE proc[p].op.do = "rule append"
      <4>1. f = "rules" BY <2>1, <2>3, <3>2, WhoseOperation DEF File
      <4>2. Held("rules")' = proc[p].out BY <2>2, <4>1
      <4>3. proc[p].op.id \in Ids(Items(proc[p].out)) BY <2>1, <2>3, <4>1, OutKept
      <4>4. proc[p].op.id \in Targets' BY <4>2, <4>3 DEF Targets
      <4>5. proc'[p].op.id = proc[p].op.id BY <2>3, <3>2 DEF Marks
      <4>6. QED BY <4>4, <4>5 DEF Pends
    <3>3. QED BY <3>1, <3>2
  <2>5. CASE f # "learnings"
    <3>1. Same("learnings") BY <1>0, <2>2, <2>5 DEF Touches
    <3>2. QED BY <1>0, <2>3, <2>4, <3>1, PromoteElsewhere
  <2>6. CASE f = "learnings"
    <3>1. data'["learnings"] = proc[p].out /\ Writers("learnings")' = {} BY <2>2, <2>6
    <3>2. p \in Writers("learnings") BY <2>1, <2>3, <2>6 DEF Writers, In
    <3>3. Reached(proc[p].out, Targets) BY <1>0, <3>2 DEF PromoteInv
    <3>4. Reached(data'["learnings"], Targets') BY <1>0, <3>1, <3>3, ReachedMore
    <3>5. \A q \in Process \ {p} : Pends(q)'
      <4> SUFFICES ASSUME NEW q \in Process \ {p} PROVE Pends(q)' OBVIOUS
      <4>1. proc'[q].at = proc[q].at /\ proc'[q].op = proc[q].op /\ proc'[q].then = proc[q].then
        BY <2>3, StayFields
      <4>2. QED BY <1>0, <4>1 DEF Pends
    <3>6. QED BY <2>4, <3>1, <3>4, <3>5 DEF PromoteInv
  <2>7. QED BY <2>5, <2>6
<1>8. ASSUME NEW p \in Process, Unlink(p) PROVE PromoteInv'
  <2>1. Same("learnings") BY <1>0, <1>8, UnlinkTouches DEF Touches
  <2>2. proc' = [Astray(File(p), proc) EXCEPT ![p] = Idle] BY <1>8 DEF Unlink
  <2>3. proc'[p] = Idle /\ Stay(p, File(p)) BY <2>2, AstrayBut
  <2>4. QED BY <1>0, <2>1, <2>3, IdlePends, PromoteElsewhere
<1>9. ASSUME NEW p \in Process, Quarantine(p) PROVE PromoteInv'
  <2>1. Same("learnings") BY <1>0, <1>9, QuarantineTouches DEF Touches
  <2>2. proc[p].at = "read" /\ File(p) = "trust" /\ proc'[p].op = proc[p].op /\ Stay(p, "trust")
    BY <1>9, QuarantineBecomes
  <2>3. proc[p].op \in Operation /\ proc[p].op.file = "trust" BY <2>2, WhatIsDone DEF File
  <2>4. proc'[p].op.do # "learning mark" BY <2>2, <2>3, WhoseOperation
  <2>5. Pends(p)' BY <2>4 DEF Pends
  <2>6. QED BY <1>0, <2>1, <2>2, <2>5, PromoteElsewhere
<1>10. ASSUME NEW p \in Process, Kill(p), proc[p].at = "truncated" PROVE PromoteInv'
  <2>1. PICK f : f = File(p) OBVIOUS
  <2>2. Touches(f) /\ f \in broken' BY <1>10, <2>1, KillTouches
  <2>3. Same("learnings") BY <1>0, <2>2 DEF Touches
  <2>4. proc' = [proc EXCEPT ![p] = Idle] BY <1>10 DEF Kill
  <2>5. proc'[p] = Idle /\ Stay(p, f) BY <1>0, <2>4, ChangesOne
  <2>6. QED BY <1>0, <2>3, <2>5, IdlePends, PromoteElsewhere
<1>11. ASSUME Same("learnings"), proc' = proc PROVE PromoteInv'
  <2>1. Reached(data["learnings"], Targets)
        /\ \A q \in Writers("learnings") : Reached(proc[q].out, Targets)
    BY <1>0 DEF PromoteInv
  <2>2. data'["learnings"] = data["learnings"] /\ Writers("learnings")' = Writers("learnings")
    BY <1>11 DEF Same
  <2>3. Reached(data'["learnings"], Targets') BY <1>0, <2>1, <2>2, ReachedMore
  <2>4. \A q \in Writers("learnings")' : Reached(proc'[q].out, Targets')
    BY <1>0, <1>11, <2>1, <2>2, ReachedMore
  <2>5. \A q \in Process : Pends(q)' BY <1>0, <1>11 DEF Pends
  <2>6. QED BY <2>3, <2>4, <2>5 DEF PromoteInv
<1>12. ASSUME NEW o \in Operation, AppendNote(o) PROVE PromoteInv'
  <2>1. Same("learnings") BY <1>0, <1>12, AppendTouches DEF Touches
  <2>2. proc' = proc BY <1>12 DEF AppendNote
  <2>3. QED BY <1>11, <2>1, <2>2
<1>13. CASE MemoryChanges \/ Midnight \/ UNCHANGED vars
  <2>1. data' = data /\ proc' = proc /\ broken' = broken
    BY <1>13 DEF MemoryChanges, Midnight, vars
  <2>2. Same("learnings") BY <1>0, <2>1, StillSame
  <2>3. QED BY <1>11, <2>1, <2>2
<1>14. CASE Next
  BY <1>14, <1>2, <1>3, <1>4, <1>5, <1>6, <1>7, <1>8, <1>9, <1>10, <1>12, <1>13, ZenonT(60)
     DEF Next
<1>15. QED BY <1>13, <1>14

(* SharedFiles: promote.py writes the rule before it marks the learning,   *)
(* and no interleaving of promotions, additions and kills leaves a         *)
(* learning marked whose rule is in no file, as long as no two updates of  *)
(* either file overlap.                                                    *)
THEOREM PromotedIsARule == Spec => []PromotedReachedTarget
<1>1. Init => KeptInv /\ PromoteInv BY InitKept, InitPromote
<1>2. (ProcInv /\ WriteInv) /\ (KeptInv /\ PromoteInv) /\ [Next]_vars => (KeptInv /\ PromoteInv)'
  BY NextKept, NextPromote
<1>3. PromoteInv => PromotedReachedTarget
  BY DEF PromoteInv, PromotedReachedTarget, Reached, Targets
<1>4. QED BY <1>1, <1>2, <1>3, Processes, PTL DEF Spec
=============================================================================
