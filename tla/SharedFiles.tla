---------------------------- MODULE SharedFiles ----------------------------
(***************************************************************************)
(* The small files that several processes change: the daemon's threads,    *)
(* the scripts of skills that its agents and jobs run, and the command     *)
(* line.  The carry-over queue and the job table are changed under an      *)
(* flock and replaced atomically, except by the migration of `faff update`.*)
(* All others are read, and then truncated and written in place.  A        *)
(* process can be killed anywhere.  A lock is released with its process.   *)
(*                                                                         *)
(* The files have nothing to do with each other except a learning and the  *)
(* rule it is promoted to, so a behaviour is about one of them.            *)
(***************************************************************************)
EXTENDS SkillData

CONSTANTS
    Process,
    Scene,      \* the files that are looked at together
    Start,      \* what a file may hold at the start
    None,
    MaxOps, MaxDay, MaxVersion, MaxKills \* bounds of the model

VARIABLES
    play,       \* the scene
    data,       \* what each file holds
    holder,     \* who has the flock of a file
    proc,       \* what each process is at
    day,        \* the date
    version,    \* how often the file that is trusted has changed
    ops, kills, \* bounds; ops also makes ids
    shown,      \* the version of the trusted file that the last prompt held verbatim
    broken,     \* history: the files with an update that was not atomic
    vouched,    \* history: the versions of it that the operator trusts
    migrated    \* history: a migration has begun

vars == <<play, data, holder, proc, day, version, ops, kills, shown, broken, vouched, migrated>>

Locked == {"queue", "jobs"}
InPlace == {"buffer", "reminders", "learnings", "rules", "daily", "trust",
            "words", "seen", "readings", "watch"}
Files == Locked \cup InPlace

ASSUME SharedFilesAssumption ==
    /\ None \notin Process
    /\ Scene \subseteq SUBSET Files
    /\ {MaxOps, MaxDay, MaxVersion, MaxKills} \subseteq Nat

(* At the start no learning has been promoted.                             *)
ASSUME StartAssumption ==
    /\ \A c \in Start["rules"] : c \in Unreadable \cup Seq([id : Nat])
    /\ \A c \in Start["learnings"] :
          c \in Unreadable \cup Seq([id : Nat, status : {"pending"}])

Idle == [at |-> "idle", op |-> None, base |-> Missing, out |-> Missing, hash |-> 0,
         astray |-> FALSE, then |-> None, known |-> {}]

Init ==
    /\ play \in Scene
    /\ \E begin \in [play -> UNION {Start[f] : f \in play}] :
          /\ \A f \in play : begin[f] \in Start[f]
          /\ data = [f \in Files |-> IF f \in play THEN begin[f] ELSE Missing]
    /\ holder = [f \in Locked |-> None]
    /\ proc = [p \in Process |-> Idle]
    /\ day = 0 /\ version = 1
    /\ ops = 0 /\ kills = 0
    /\ shown = None
    /\ broken = {}
    /\ vouched = {x.version : x \in {y \in Entries(data["trust"]) : y.id = 1}}
    /\ migrated = FALSE

World == [day |-> day, version |-> version, fresh |-> ops]

File(p) == proc[p].op.file
In(p, at) == proc[p].at = at

(* Processes that have the file open for writing, having truncated it.     *)
Writers(f) == {p \in Process : In(p, "truncated") /\ File(p) = f}

(* The file is another one now: they go on writing to the old one.         *)
Astray(f, ps) == [p \in Process |-> IF p \in Writers(f) THEN [ps[p] EXCEPT !.astray = TRUE] ELSE ps[p]]

Breaks(f, when) == broken' = IF when THEN broken \cup {f} ELSE broken

-----------------------------------------------------------------------------
(* Starting an operation *)

Begin(o) ==
    /\ o.file \in play
    /\ ops < MaxOps
    /\ ops' = ops + 1

TakesLock(o) == o.file \in Locked /\ o.do # "job migrate"

(* What is written is made of what is read here; the clock, and the hash   *)
(* of the file to be trusted, are read at the same time.                   *)
At(p, at, o) ==
    proc' = [proc EXCEPT ![p] = [Idle EXCEPT !.at = at, !.op = o, !.base = data[o.file],
                                             !.out = Outcome(o, data[o.file], World),
                                             !.hash = version, !.known = vouched]]

Appends(o) == o.do = "note append"

(* Mutant: get and the bootstrap read before they lock. *)
LockAfterReading(p, o) ==
    /\ Begin(o)
    /\ TakesLock(o)
    /\ o.do = "queue promote" \/ holder[o.file] = None
    /\ In(p, "idle")
    /\ holder' = [holder EXCEPT ![o.file] = p]
    /\ At(p, "holding", o)
    /\ UNCHANGED <<play, data, day, version, kills, broken, vouched, shown, migrated>>

(* locked_queue, locked_jobs, _locked_queue, _file_lock: the content is    *)
(* read under the lock.                                                    *)
Lock(p, o) ==
    /\ Begin(o)
    /\ TakesLock(o)
    /\ holder[o.file] = None
    /\ In(p, "idle")
    /\ holder' = [holder EXCEPT ![o.file] = p]
    /\ At(p, "holding", o)
    /\ UNCHANGED <<play, data, day, version, kills, broken, vouched, shown, migrated>>

(* Promoting a learning ends there if it is not one to promote. *)
Read(p, o) ==
    /\ Begin(o)
    /\ ~TakesLock(o) /\ ~Appends(o)
    /\ o.do # "rule append"
    /\ In(p, "idle")
    /\ IF o.do = "learning mark" /\ ~Promotable(data[o.file], o.id)
       THEN UNCHANGED proc
       ELSE At(p, "read", o)
    /\ migrated' = (migrated \/ o.do = "job migrate")
    /\ UNCHANGED <<play, data, holder, day, version, kills, broken, vouched, shown>>

(* The runtime only ever appends to the daily note. *)
AppendNote(o) ==
    /\ Begin(o)
    /\ Appends(o)
    /\ data' = [data EXCEPT ![o.file] = Outcome(o, data[o.file], World)]
    /\ UNCHANGED <<play, holder, proc, day, version, kills, broken, vouched, shown, migrated>>

-----------------------------------------------------------------------------
(* Ending it *)

(* A temporary file is renamed over the old one, and the lock released.    *)
Replace(p) ==
    /\ In(p, "holding")
    /\ IF proc[p].out = NoWrite
       THEN /\ proc' = [proc EXCEPT ![p] = Idle]
            /\ UNCHANGED <<data, broken>>
       ELSE /\ data' = [data EXCEPT ![File(p)] = proc[p].out]
            /\ Breaks(File(p), data[File(p)] # proc[p].base)
            /\ proc' = [Astray(File(p), proc) EXCEPT ![p] = Idle]
    /\ holder' = [holder EXCEPT ![File(p)] = None]
    /\ UNCHANGED <<play, day, version, ops, kills, vouched, shown, migrated>>

(* Mutant: the learning is marked first. *)
PromoteMarkingFirst(p) ==
    /\ In(p, "read")
    /\ proc[p].op.do = "learning mark" /\ proc[p].then = None
    /\ data' = [data EXCEPT !["learnings"] = proc[p].out]
    /\ proc' = [proc EXCEPT ![p] =
                  [Idle EXCEPT !.at = "read", !.op = Rule(proc[p].op), !.base = data["rules"],
                               !.out = Outcome(Rule(proc[p].op), data["rules"], World),
                               !.then = proc[p]]]
    /\ UNCHANGED <<play, holder, day, version, ops, kills, broken, vouched, shown, migrated>>

(* A learning is promoted to its target before it is marked.               *)
Promote(p) ==
    /\ In(p, "read")
    /\ proc[p].op.do = "learning mark" /\ proc[p].then = None
    /\ proc' = [proc EXCEPT ![p] =
                  [Idle EXCEPT !.at = "read", !.op = Rule(proc[p].op), !.base = data["rules"],
                               !.out = Outcome(Rule(proc[p].op), data["rules"], World),
                               !.then = proc[p]]]
    /\ UNCHANGED <<play, data, holder, day, version, ops, kills, broken, vouched, shown, migrated>>

Writes(p) ==
    /\ In(p, "read")
    /\ ~(proc[p].op.do = "learning mark" /\ proc[p].then = None)
    /\ ~(File(p) = "trust" /\ proc[p].base \in {Empty, Garbled})
    /\ proc[p].op.do # "load"

NothingToWrite(p) ==
    /\ Writes(p)
    /\ proc[p].out = NoWrite
    /\ proc' = [proc EXCEPT ![p] = Idle]
    /\ UNCHANGED <<play, data, holder, day, version, ops, kills, broken, vouched, shown, migrated>>

(* write_text: open for writing, which truncates, then write.              *)
Truncate(p) ==
    /\ Writes(p)
    /\ proc[p].out # NoWrite /\ proc[p].op.do # "seen reset"
    /\ data' = [data EXCEPT ![File(p)] = Empty]
    /\ Breaks(File(p), data[File(p)] # proc[p].base \/ Writers(File(p)) # {})
    /\ proc' = [proc EXCEPT ![p].at = "truncated"]
    /\ vouched' = IF proc[p].op.do = "trust" /\ proc[p].op.id = 1
                  THEN vouched \cup {proc[p].hash} ELSE vouched
    /\ UNCHANGED <<play, holder, day, version, ops, kills, shown, migrated>>

Write(p) ==
    /\ In(p, "truncated")
    /\ data' = IF proc[p].astray THEN data ELSE [data EXCEPT ![File(p)] = proc[p].out]
    /\ Breaks(File(p), proc[p].astray \/ data[File(p)] # Empty)
    /\ proc' = [proc EXCEPT ![p] =
                  IF proc[p].op.do = "rule append" THEN [proc[p].then EXCEPT !.then = proc[p].op]
                  ELSE Idle]
    /\ vouched' = IF proc[p].op.do = "untrust" /\ proc[p].op.id = 1 THEN {} ELSE vouched
    /\ UNCHANGED <<play, holder, day, version, ops, kills, shown, migrated>>

(* reset_seen looks whether the file is there, and unlinks it.             *)
Unlink(p) ==
    /\ Writes(p)
    /\ proc[p].out # NoWrite /\ proc[p].op.do = "seen reset"
    /\ data' = [data EXCEPT ![File(p)] = Missing]
    /\ Breaks(File(p), Writers(File(p)) # {})
    /\ proc' = [Astray(File(p), proc) EXCEPT ![p] = Idle]
    /\ UNCHANGED <<play, holder, day, version, ops, kills, vouched, shown, migrated>>

(* _quarantine: load_trust_store moves what it could not read out of the   *)
(* way, with whoever is writing it.                                        *)
Quarantine(p) ==
    /\ In(p, "read")
    /\ File(p) = "trust" /\ proc[p].base \in {Empty, Garbled}
    /\ data' = [data EXCEPT !["trust"] = Missing]
    /\ Breaks("trust", data["trust"] # proc[p].base \/ Writers("trust") # {})
    /\ proc' = [Astray("trust", proc) EXCEPT
                  ![p].base = Missing, ![p].hash = version,
                  ![p].out = Outcome(proc[p].op, Missing, World)]
    /\ UNCHANGED <<play, holder, day, version, ops, kills, vouched, shown, migrated>>

-----------------------------------------------------------------------------
(* The reader of trusted files *)

(* Mutant: the version of any entry will do. *)
VerbatimByName(p) == \E x \in Entries(proc[p].base) : x.id = 1

(* read_and_check_trust: one read, whose hash is the store's.              *)
Verbatim(p) == Vouches(proc[p].base, 1, version)

(* A system prompt is built with the trust store that has been loaded.     *)
Bootstrap(p) ==
    /\ In(p, "read")
    /\ proc[p].op.do = "load" /\ proc[p].base \notin {Empty, Garbled}
    /\ shown' = IF Verbatim(p) THEN [version |-> version, known |-> proc[p].known] ELSE None
    /\ proc' = [proc EXCEPT ![p] = Idle]
    /\ UNCHANGED <<play, data, holder, day, version, ops, kills, broken, vouched, migrated>>

(* The agent or the user changes the file. *)
MemoryChanges ==
    /\ "trust" \in play
    /\ version < MaxVersion
    /\ version' = version + 1
    /\ UNCHANGED <<play, data, holder, proc, day, ops, kills, broken, vouched, shown, migrated>>

-----------------------------------------------------------------------------
Midnight ==
    /\ play \cap {"queue", "reminders", "words", "seen", "readings"} # {}
    /\ day < MaxDay
    /\ day' = day + 1
    /\ UNCHANGED <<play, data, holder, proc, version, ops, kills, broken, vouched, shown, migrated>>

(* A process is killed: a skill by its time limit, the daemon or a command *)
(* by its user.                                                            *)
Kill(p) ==
    /\ ~In(p, "idle")
    /\ kills < MaxKills
    /\ kills' = kills + 1
    /\ Breaks(File(p), In(p, "truncated"))
    /\ holder' = [f \in Locked |-> IF holder[f] = p THEN None ELSE holder[f]]
    /\ proc' = [proc EXCEPT ![p] = Idle]
    /\ UNCHANGED <<play, data, day, version, ops, vouched, shown, migrated>>

Next ==
    \/ \E p \in Process, o \in Operation : Lock(p, o) \/ Read(p, o)
    \/ \E o \in Operation : AppendNote(o)
    \/ \E p \in Process :
          \/ Replace(p) \/ Promote(p) \/ NothingToWrite(p) \/ Truncate(p) \/ Write(p) \/ Unlink(p)
          \/ Quarantine(p) \/ Bootstrap(p) \/ Kill(p)
    \/ MemoryChanges
    \/ Midnight

Spec == Init /\ [][Next]_vars

-----------------------------------------------------------------------------
(* Correctness *)

(* A file whose writer has truncated it is, to everybody who takes turns,  *)
(* what it was before.                                                     *)
Held(f) ==
    IF f \notin broken /\ Writers(f) # {}
    THEN proc[CHOOSE p \in Writers(f) : TRUE].base
    ELSE data[f]

Atomic == INSTANCE AtomicFiles WITH
    content <- [f \in Files |-> Held(f)],
    damaged <- broken,
    loose <- IF migrated THEN InPlace \cup {"jobs"} ELSE InPlace,
    world <- World

(* Every file implements the atomic one: whatever is killed and whoever    *)
(* runs at once, the carry-over queue is only ever changed by whole        *)
(* operations on its current content, the job table too as long as no      *)
(* migration of `faff update` has begun, and the others up to the first    *)
(* time that two updates overlap or one is killed while it writes.         *)
FilesChangeAtomically == Atomic!AtomicSpec

(* A file enters a prompt as trusted only in a version that an operator    *)
(* trusted, and not if that was taken back before the store was loaded:    *)
(* across loads, quarantines and kills, as long as commands that change    *)
(* the trust store do not overlap.                                         *)
VerbatimOnlyVouched ==
    shown # None /\ "trust" \notin broken => shown.version \in shown.known

(* A learning that is marked promoted is in the file it was promoted to,   *)
(* whatever was killed between the two writes.                             *)
PromotedReachedTarget ==
    {"rules", "learnings"} \cap broken = {} =>
        \A k \in DOMAIN Items(data["learnings"]) :
            data["learnings"][k].status = "promoted" =>
                data["learnings"][k].id \in Ids(Items(Held("rules")))

=============================================================================
