----------------------------- MODULE DailyNotes -----------------------------
(***************************************************************************)
(* The daily note that a loop asks for after a turn (runtime/loop.py,      *)
(* _maybe_daily_note; runtime/compaction.py, daily_note), composed with    *)
(* the compaction that comes before it.  The loop holds the session's lock *)
(* for both; another process may append between the reading and the cursor,*)
(* and the loop's own process can end anywhere.                            *)
(*                                                                         *)
(* Messages are numbered in the order of their timestamps, so the cursor   *)
(* is the number of a message.                                             *)
(***************************************************************************)
EXTENDS Compaction, FiniteSetsExt

CONSTANT MaxNotes    \* bound of the model

ASSUME NotesAssumption == MaxNotes \in Nat

VARIABLES
    cursor,     \* daily_note_at, 0 when nothing is noted yet
    note,       \* where daily_note is, and the messages it asks about
    heard,      \* history: messages that the model found nothing to keep in,
                \* or whose note is in today's file
    notes       \* bound

noteVars == <<cursor, note, heard, notes>>
allVars == <<vars, noteVars>>

NoNote == [at |-> "idle", about |-> {}]

NoteInit ==
    /\ Init
    /\ cursor = 0
    /\ note = NoNote
    /\ heard = {}
    /\ notes = 0

(* _pending_since_note: what compaction has summarised is not asked about. *)
Pending == {m \in Live(rows) : m > cursor}

(* After enough turns or enough time, which is left open. *)
NoteDue == pc = "idle" /\ note = NoNote /\ Pending # {}

NoteAt(step) == note.at = step

(* One request with everything pending, to the cheap slot and then to the  *)
(* conversation's.                                                         *)
AskNote ==
    /\ NoteDue
    /\ notes < MaxNotes
    /\ notes' = notes + 1
    /\ note' = [at |-> "ask", about |-> Pending]
    /\ UNCHANGED <<vars, cursor, heard>>

AnswerHasNotes ==
    /\ NoteAt("ask")
    /\ note' = [note EXCEPT !.at = "append"]
    /\ UNCHANGED <<vars, cursor, heard, notes>>

(* An answer without a note, or with blank ones or other tool calls; or    *)
(* today's file has got the notes, one after the other.                    *)
Heard ==
    /\ NoteAt("ask") \/ NoteAt("append")
    /\ note' = [note EXCEPT !.at = "cursor"]
    /\ heard' = heard \cup note.about
    /\ UNCHANGED <<vars, cursor, notes>>

(* Both providers fail, or the file cannot be written after some of the    *)
(* notes: the loop goes on, and the next due turn asks again.              *)
NoteFails ==
    /\ NoteAt("ask") \/ NoteAt("append")
    /\ note' = NoNote
    /\ UNCHANGED <<vars, cursor, heard, notes>>

(* Mutant: the cursor is the newest message of the session as it is now. *)
AdvanceToNewest ==
    /\ NoteAt("cursor")
    /\ cursor' = Max(Live(rows))
    /\ note' = NoNote
    /\ UNCHANGED <<vars, heard, notes>>

(* set_daily_note_at: the newest of the messages that were asked about. *)
AdvanceCursor ==
    /\ NoteAt("cursor")
    /\ cursor' = Max(note.about)
    /\ note' = NoNote
    /\ UNCHANGED <<vars, heard, notes>>

(* The process ends: the cursor stays, whatever the file has. *)
NoteCrash ==
    /\ note # NoNote
    /\ note' = NoNote
    /\ UNCHANGED <<vars, cursor, heard, notes>>

MaybeDailyNote ==
    \/ AskNote \/ AnswerHasNotes \/ Heard \/ NoteFails
    \/ AdvanceCursor \/ NoteCrash

NoteNext ==
    \/ MaybeDailyNote
    \/ note = NoNote /\ (Compact \/ OwnAppend \/ Crash) /\ UNCHANGED noteVars
    \/ ForeignAppend /\ UNCHANGED noteVars

NoteSpec == NoteInit /\ [][NoteNext]_allVars

-----------------------------------------------------------------------------
(* The cursor passes no message of the conversation that the model was not *)
(* asked about and answered, with what it kept in today's file first: not  *)
(* one that another process writes while the model answers, not one whose  *)
(* note a failing disk or the end of the process left unwritten, and not   *)
(* one that a compaction in between moved or kept.                         *)
NothingPassedUnheard == \A m \in Live(rows) : m <= cursor => m \in heard
=============================================================================
