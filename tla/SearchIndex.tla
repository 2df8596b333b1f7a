---------------------------- MODULE SearchIndex ----------------------------
(***************************************************************************)
(* The keyword indexes of two skills: memory-search, which refreshes its   *)
(* index before every query, and document-search, whose index is refreshed *)
(* by an action of its own.  Runs are processes of their own: two sessions *)
(* and a scheduled job may have one each, while texts are written and      *)
(* deleted.  SQLite lets one of them write at a time, and the others wait  *)
(* five seconds before they give up.                                       *)
(*                                                                         *)
(* A text is the number of the edit that wrote it, so none comes back; its *)
(* hash is the same number.  Chunks, ranking and embeddings are left out.  *)
(***************************************************************************)
EXTENDS Naturals, FiniteSetsExt

CONSTANTS
    Files,          \* the files are 1..Files, in the order of their names
    Run,            \* processes
    Unreadable,     \* texts that no extractor can read
    MaxEdits, MaxRuns, MaxKills, MaxClears  \* bounds of the model

ASSUME SearchIndexAssumption ==
    /\ {Files, MaxEdits, MaxRuns, MaxKills, MaxClears} \subseteq Nat
    /\ Unreadable \subseteq Nat

VARIABLES
    skill,      \* "memory" or "documents"
    files,      \* what each file holds
    index,      \* for each file the recorded hash and the indexed text
    writer,     \* the run that holds SQLite's write lock
    run,        \* for each run where it is, what it has read, and (history) the
                \* files changed since it or a run still under way then began
    bounds

searchVars == <<skill, files, index, writer, run, bounds>>

File == 1..Files
Absent == 0
NoRun == "nobody"
NoEntry == [hash |-> Absent, text |-> Absent]
Indexed == {f \in File : index[f] # NoEntry}

(* A text that an extractor fails on is not indexed; memory files are read *)
(* as text whatever they hold.                                             *)
Readable(text) == text # Absent /\ (skill = "documents" => text \notin Unreadable)

Idle == [at |-> "idle", force |-> FALSE, known |-> [f \in File |-> Absent],
         todo |-> {}, seen |-> {}, hash |-> Absent, text |-> Absent, stale |-> {}, changed |-> {}]

SearchInit ==
    /\ skill \in {"memory", "documents"}
    /\ \E present \in SUBSET File :
          /\ files = [f \in File |-> IF f \in present THEN 1 ELSE Absent]
          /\ index \in {[f \in File |-> NoEntry],
                        [f \in File |-> IF Readable(files[f]) THEN [hash |-> 1, text |-> 1] ELSE NoEntry]}
    /\ writer = NoRun
    /\ run = [r \in Run |-> Idle]
    /\ bounds = [edits |-> 1, runs |-> 0, kills |-> 0, clears |-> 0]

Counted(what, limit) ==
    /\ bounds[what] < limit
    /\ bounds' = [bounds EXCEPT ![what] = @ + 1]

RunAt(r, step) == run[r].at = step
Underway == {r \in Run : ~RunAt(r, "idle")}
Current(r) == Min(run[r].todo)

Skip(r) ==
    run' = [run EXCEPT ![r].todo = @ \ {Current(r)}, ![r].at = "file",
                       ![r].hash = Absent, ![r].text = Absent]

Ended(r, step) == [Idle EXCEPT !.at = step, !.changed = IF step = "idle" THEN {} ELSE run[r].changed]
Finish(r, step) == run' = [run EXCEPT ![r] = Ended(r, step)]

Fail(r) ==
    /\ Finish(r, "idle")
    /\ writer' = IF writer = r THEN NoRun ELSE writer

-----------------------------------------------------------------------------
(* One run of the indexer *)

Begin(r, force) ==
    /\ RunAt(r, "idle")
    /\ force => skill = "memory"
    /\ Counted("runs", MaxRuns)
    /\ run' = [run EXCEPT ![r] =
          [Idle EXCEPT !.at = "collect", !.force = force,
                       !.known = IF skill = "documents" THEN [f \in File |-> index[f].hash] ELSE @,
                       !.changed = UNION {run[q].changed : q \in Underway}]]
    /\ UNCHANGED <<skill, files, index, writer>>

(* The files are listed once.  Without any, a memory run ends here. *)
CollectFiles(r) ==
    /\ RunAt(r, "collect")
    /\ LET listed == {f \in File : files[f] # Absent}
       IN IF skill = "memory" /\ listed = {}
          THEN Finish(r, "fruitless")
          ELSE run' = [run EXCEPT ![r].todo = listed, ![r].at = "file",
                                  ![r].seen = IF skill = "memory" THEN listed ELSE {}]
    /\ UNCHANGED <<skill, files, index, writer, bounds>>

(* A file that is gone by now is an exception in a memory run. *)
FileHash(r) ==
    /\ RunAt(r, "file")
    /\ run[r].todo # {}
    /\ LET f == Current(r)
       IN CASE files[f] # Absent ->
                 /\ run' = [run EXCEPT ![r].hash = files[f], ![r].seen = @ \cup {f}, ![r].at = "compare"]
                 /\ UNCHANGED writer
            [] files[f] = Absent /\ skill = "memory" -> Fail(r)
            [] files[f] = Absent /\ skill = "documents" -> Skip(r) /\ UNCHANGED writer
    /\ UNCHANGED <<skill, files, index, bounds>>

(* With the recorded hash: memory asks for it now, documents has read all  *)
(* of them when the run began.                                             *)
Recorded(r) == IF skill = "memory" THEN index[Current(r)].hash ELSE run[r].known[Current(r)]

CompareHash(r) ==
    /\ RunAt(r, "compare")
    /\ IF run[r].hash = Recorded(r) /\ ~run[r].force
       THEN Skip(r)
       ELSE run' = [run EXCEPT ![r].at = "delete"]
    /\ UNCHANGED <<skill, files, index, writer, bounds>>

(* The first DELETE opens the transaction. *)
DeleteRows(r) ==
    /\ RunAt(r, "delete")
    /\ writer = NoRun
    /\ writer' = r
    /\ run' = [run EXCEPT ![r].at = "read"]
    /\ UNCHANGED <<skill, files, index, bounds>>

(* Only now is the text read.  documents drops what it cannot extract. *)
ReadText(r) ==
    /\ RunAt(r, "read")
    /\ LET text == files[Current(r)]
       IN IF Readable(text) \/ skill = "documents"
          THEN /\ run' = [run EXCEPT ![r].text = IF Readable(text) THEN text ELSE Absent,
                                     ![r].at = "commit"]
               /\ UNCHANGED writer
          ELSE Fail(r)
    /\ UNCHANGED <<skill, files, index, bounds>>

(* Mutant: the hash that is recorded is taken of the file as it is now. *)
CommitHashingLast(r) ==
    /\ RunAt(r, "commit")
    /\ index' = [index EXCEPT ![Current(r)] =
                    IF run[r].text = Absent THEN NoEntry
                    ELSE [hash |-> files[Current(r)], text |-> run[r].text]]
    /\ writer' = NoRun
    /\ Skip(r)
    /\ UNCHANGED <<skill, files, bounds>>

CommitFile(r) ==
    /\ RunAt(r, "commit")
    /\ index' = [index EXCEPT ![Current(r)] =
                    IF run[r].text = Absent THEN NoEntry
                    ELSE [hash |-> run[r].hash, text |-> run[r].text]]
    /\ writer' = NoRun
    /\ Skip(r)
    /\ UNCHANGED <<skill, files, bounds>>

(* What is recorded and was not listed: memory asks for it now. *)
FindStale(r) ==
    /\ RunAt(r, "file")
    /\ run[r].todo = {}
    /\ LET recorded == IF skill = "memory" THEN Indexed
                       ELSE {f \in File : run[r].known[f] # Absent}
           stale == recorded \ run[r].seen
       IN IF stale = {}
          THEN Finish(r, "answer")
          ELSE run' = [run EXCEPT ![r] = [Ended(r, "prune") EXCEPT !.stale = stale]]
    /\ UNCHANGED <<skill, files, index, writer, bounds>>

Prune(r) ==
    /\ RunAt(r, "prune")
    /\ writer = NoRun
    /\ index' = [f \in File |-> IF f \in run[r].stale THEN NoEntry ELSE index[f]]
    /\ Finish(r, "answer")
    /\ UNCHANGED <<skill, files, writer, bounds>>

(* Five seconds of waiting for another run's transaction, which holds for  *)
(* as long as its extractor or its embedding provider takes.               *)
Locked(r) ==
    /\ RunAt(r, "delete") \/ RunAt(r, "prune")
    /\ writer # NoRun
    /\ Fail(r)
    /\ UNCHANGED <<skill, files, index, bounds>>

(* The query, or the end of the index action. *)
Search(r) ==
    /\ RunAt(r, "answer") \/ RunAt(r, "fruitless")
    /\ Finish(r, "idle")
    /\ UNCHANGED <<skill, files, index, writer, bounds>>

RunIndex(r) ==
    \/ \E force \in BOOLEAN : Begin(r, force)
    \/ CollectFiles(r) \/ FileHash(r) \/ CompareHash(r)
    \/ DeleteRows(r) \/ ReadText(r) \/ CommitFile(r)
    \/ FindStale(r) \/ Prune(r) \/ Locked(r) \/ Search(r)

-----------------------------------------------------------------------------
(* Everybody else *)

Touch(items) ==
    run' = [r \in Run |-> IF RunAt(r, "idle") THEN Idle ELSE [run[r] EXCEPT !.changed = @ \cup items]]

(* A text is written, or a file deleted. *)
Edit(f) ==
    /\ Counted("edits", MaxEdits)
    /\ files' = [files EXCEPT ![f] = bounds.edits + 1]
    /\ Touch({f})
    /\ UNCHANGED <<skill, index, writer>>

Delete(f) ==
    /\ files[f] # Absent
    /\ Counted("edits", MaxEdits)
    /\ files' = [files EXCEPT ![f] = Absent]
    /\ Touch({f})
    /\ UNCHANGED <<skill, index, writer>>

(* index.py --clear *)
ClearAll ==
    /\ skill = "memory"
    /\ writer = NoRun
    /\ Counted("clears", MaxClears)
    /\ index' = [f \in File |-> NoEntry]
    /\ Touch(File)
    /\ UNCHANGED <<skill, files, writer>>

(* A tool's timeout, or the end of the process: its transaction is undone. *)
Kill(r) ==
    /\ r \in Underway
    /\ Counted("kills", MaxKills)
    /\ Fail(r)
    /\ UNCHANGED <<skill, files, index>>

SearchNext ==
    \/ \E r \in Run : RunIndex(r) \/ Kill(r)
    \/ \E f \in File : Edit(f) \/ Delete(f)
    \/ ClearAll

SearchSpec == SearchInit /\ [][SearchNext]_searchVars

-----------------------------------------------------------------------------
(* What a search finds of a file. *)
Found(f) == IF index[f] = NoEntry THEN Absent ELSE index[f].text
CurrentText(f) == IF Readable(files[f]) THEN files[f] ELSE Absent

(* When a run ends, and until it has answered, a search finds the current  *)
(* text of every file, and nothing of a deleted one: whatever other runs   *)
(* do or did, and whoever was killed in the middle.  Not for a file that   *)
(* somebody changes during the run, or during an older run that overlaps   *)
(* it, which still prunes by its own list; and not when there is no memory *)
(* file at all: then the old texts stay in the index.                      *)
SearchIsFresh ==
    \A r \in Run : RunAt(r, "answer") =>
        \A f \in File \ run[r].changed : Found(f) = CurrentText(f)
=============================================================================
