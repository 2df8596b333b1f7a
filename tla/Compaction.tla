---------------------------- MODULE Compaction ----------------------------
(***************************************************************************)
(* What compaction does to a session and to state/backups/                 *)
(* (runtime/compaction.py, compact, _checkpoint, memory_flush): a backup   *)
(* of the store, a memory flush that may fail, a summary made outside any  *)
(* transaction while another process may append, and the swap.  The        *)
(* process can end between any two steps.                                  *)
(*                                                                         *)
(* A row of the session is what it carries word for word.  A summary       *)
(* carries nothing.  Tool calls and results are in History.                *)
(***************************************************************************)
EXTENDS Integers, Sequences, FiniteSets

CONSTANTS
    ProtectLast,     \* compaction.protect_last_n
    MaxCheckpoints,  \* MAX_CHECKPOINTS
    MaxBlob,         \* MAX_PRESERVED_BLOB_BYTES, in messages
    MaxMessages, MaxCompactions, MaxForeign   \* bounds of the model

ASSUME SizesAssumption ==
    /\ ProtectLast \in Nat \ {0}
    /\ {MaxCheckpoints, MaxBlob, MaxMessages, MaxCompactions, MaxForeign} \subseteq Nat

VARIABLES
    rows,      \* the session's rows in the store
    backups,   \* finished checkpoints, numbered in the order of their names
    pc,        \* where compact() is
    own,       \* checkpoint_path
    flushOk,   \* flush_ok
    read,      \* the history read back after the flush
    markerOk,  \* the last swap could write its marker, or needed none
    written,   \* messages so far
    compactions,   \* bound
    foreign,   \* bound: rows of other processes since the last compaction began
    saved      \* history: what a successful flush had before it

localVars == <<own, flushOk, read, markerOk>>
vars == <<rows, backups, pc, localVars, written, compactions, foreign, saved>>

MessageRow(m) == [kind |-> "message", has |-> {m}]
SummaryRow == [kind |-> "summary", has |-> {}]
PreservedRow(set) == [kind |-> "preserved", has |-> set]

Rows(q) == {q[i] : i \in DOMAIN q}
Carried(q) == UNION {r.has : r \in Rows(q)}
Live(q) == UNION {r.has : r \in {s \in Rows(q) : s.kind = "message"}}

Marked == {c \in backups : c.marked}

Init ==
    /\ rows = <<>>
    /\ backups = {}
    /\ pc = "idle"
    /\ own = 0 /\ flushOk = TRUE /\ read = <<>> /\ markerOk = TRUE
    /\ written = 0 /\ compactions = 0 /\ foreign = 0
    /\ saved = {}

-----------------------------------------------------------------------------
(* Writers *)

AppendRow ==
    /\ written < MaxMessages
    /\ rows' = Append(rows, MessageRow(written + 1))
    /\ written' = written + 1

(* The loop's own turns; it holds the session's lock while it compacts. *)
OwnAppend ==
    /\ pc = "idle"
    /\ AppendRow
    /\ UNCHANGED <<backups, pc, localVars, compactions, foreign, saved>>

(* Another process (`faff cron run`): at any time but inside the swap,     *)
(* which holds the store's write lock.                                     *)
ForeignAppend ==
    /\ pc # "swap"
    /\ foreign < MaxForeign
    /\ foreign' = foreign + 1
    /\ AppendRow
    /\ UNCHANGED <<backups, pc, localVars, compactions, saved>>

-----------------------------------------------------------------------------
(* compact() *)

HeadLen(q) == IF Len(q) <= ProtectLast THEN 0 ELSE Len(q) - ProtectLast
HeadOf(q) == SubSeq(q, 1, HeadLen(q))
TailOf(q) == SubSeq(q, HeadLen(q) + 1, Len(q))

(* A compaction with an empty head is skipped. *)
Begin ==
    /\ pc = "idle"
    /\ compactions < MaxCompactions
    /\ HeadLen(rows) > 0
    /\ compactions' = compactions + 1
    /\ foreign' = 0
    /\ pc' = "checkpoint"
    /\ UNCHANGED <<rows, backups, localVars, written, saved>>

(* Every way out that leaves the session as it was. *)
GiveUp ==
    /\ pc' = "idle"
    /\ UNCHANGED <<rows, backups, localVars, written, compactions, foreign, saved>>

CheckpointFails == pc = "checkpoint" /\ GiveUp

(* _checkpoint up to the rename. *)
Checkpoint ==
    /\ pc = "checkpoint"
    /\ backups' = backups \cup
          {[id |-> compactions, data |-> Carried(rows), marked |-> FALSE]}
    /\ own' = compactions
    /\ pc' = "prune"
    /\ UNCHANGED <<rows, flushOk, read, markerOk, written, compactions, foreign, saved>>

(* Mutant: the oldest go, marked or not. *)
OldestExcess ==
    {c \in backups :
        Cardinality({d \in backups : d.id < c.id}) < Cardinality(backups) - MaxCheckpoints}

(* What _checkpoint deletes: as many as are too many, the oldest of the    *)
(* unmarked ones.                                                          *)
Excess ==
    LET free == backups \ Marked
    IN  {c \in free :
            Cardinality({d \in free : d.id < c.id}) < Cardinality(backups) - MaxCheckpoints}

Prune ==
    /\ pc = "prune"
    /\ backups' = backups \ Excess
    /\ pc' = "flush"
    /\ UNCHANGED <<rows, localVars, written, compactions, foreign, saved>>

(* Mutant: a flush that wrote some of its files counts. *)
TrustFlush(ok) ==
    /\ pc = "flush"
    /\ flushOk' = TRUE
    /\ saved' = IF ok THEN saved \cup Carried(rows) ELSE saved
    /\ pc' = "read"
    /\ UNCHANGED <<rows, backups, own, read, markerOk, written, compactions, foreign>>

(* memory_flush: saved or nothing to save; or failed, in part or whole. *)
MemoryFlush(ok) ==
    /\ pc = "flush"
    /\ flushOk' = ok
    /\ saved' = IF ok THEN saved \cup Carried(rows) ELSE saved
    /\ pc' = "read"
    /\ UNCHANGED <<rows, backups, own, read, markerOk, written, compactions, foreign>>

(* The history is read again, then summarised. *)
Reread ==
    /\ pc = "read"
    /\ read' = rows
    /\ pc' = "summarise"
    /\ UNCHANGED <<rows, backups, own, flushOk, markerOk, written, compactions, foreign, saved>>

(* head_without_old: an older preserved text is not preserved again. *)
Unsaved == UNION {r.has : r \in {s \in Rows(HeadOf(read)) : s.kind # "preserved"}}

Truncated == ~flushOk /\ Cardinality(Unsaved) > MaxBlob

Blob == {m \in Unsaved : Cardinality({n \in Unsaved : n < m}) < MaxBlob}

(* The marker of a text that is cut, in the checkpoint of this compaction. *)
(* That it cannot be written, the checkpoint gone or not, is logged only.  *)
MarkOwn ==
    /\ markerOk' \in {TRUE, ~Truncated}
    /\ backups' = {IF Truncated /\ markerOk' /\ c.id = own THEN [c EXCEPT !.marked = TRUE]
                   ELSE c : c \in backups}

(* Mutant: the rows are taken to be those that were read. *)
OpenSwapBlindly ==
    /\ pc = "summarise"
    /\ pc' = "swap"
    /\ MarkOwn
    /\ UNCHANGED <<rows, own, flushOk, read, written, compactions, foreign, saved>>

(* BEGIN IMMEDIATE, the count, and the marker.                             *)
OpenSwap ==
    /\ pc = "summarise"
    /\ Len(rows) = Len(read)
    /\ pc' = "swap"
    /\ MarkOwn
    /\ UNCHANGED <<rows, own, flushOk, read, written, compactions, foreign, saved>>

CountChanged == pc = "summarise" /\ Len(rows) # Len(read) /\ GiveUp

Commit ==
    /\ pc = "swap"
    /\ rows' = <<SummaryRow>>
               \o (IF flushOk THEN <<>> ELSE <<PreservedRow(Blob)>>)
               \o TailOf(read)
    /\ pc' = "idle"
    /\ UNCHANGED <<backups, localVars, written, compactions, foreign, saved>>

Rollback == pc = "swap" /\ GiveUp

(* The process ends; SQLite drops the open transaction. *)
Crash ==
    /\ pc # "idle"
    /\ GiveUp

-----------------------------------------------------------------------------
Compact ==
    \/ Begin \/ CheckpointFails \/ Checkpoint \/ Prune
    \/ \E ok \in BOOLEAN : MemoryFlush(ok)
    \/ Reread \/ OpenSwap \/ CountChanged \/ Commit \/ Rollback

Next == Compact \/ OwnAppend \/ ForeignAppend \/ Crash

Spec == Init /\ [][Next]_vars

-----------------------------------------------------------------------------
RowType ==
    [kind : {"message", "summary", "preserved"}, has : SUBSET (Nat \ {0})]

CheckpointType == [id : Nat, data : SUBSET (Nat \ {0}), marked : BOOLEAN]

(* The shape of every variable; a session has one preserved text at most, *)
(* however many flushes failed in a row.                                   *)
TypeOK ==
    /\ rows \in Seq(RowType) /\ read \in Seq(RowType)
    /\ backups \subseteq CheckpointType
    /\ pc \in {"idle", "checkpoint", "prune", "flush", "read", "summarise", "swap"}
    /\ own \in Nat /\ flushOk \in BOOLEAN /\ markerOk \in BOOLEAN
    /\ written \in Nat /\ compactions \in Nat /\ foreign \in Nat
    /\ saved \subseteq Nat
    /\ Cardinality({i \in DOMAIN rows : rows[i].kind = "preserved"}) <= 1

(* A message leaves the session only when a flush had it, or its words are *)
(* in the preserved text or in a checkpoint that is not pruned.  Save that *)
(* nothing more can be kept once MAX_CHECKPOINTS of them are, and that the *)
(* checkpoint whose marker could not be written is there at the swap but   *)
(* may be pruned by a later one, though the log has said that it is where  *)
(* the full text stays.  Holds while other processes append no more than   *)
(* ProtectLast rows to one compaction.                                     *)
LeavesSaved ==
    [][\A m \in Live(rows) \ Live(rows') :
          \/ m \in saved
          \/ m \in Carried(rows')
          \/ \E c \in Marked' : m \in c.data
          \/ ~markerOk /\ \E c \in backups' : m \in c.data
          \/ Cardinality(Marked') >= MaxCheckpoints]_vars

(* Nothing that another process appends while the summary is made is       *)
(* overwritten by the swap.                                                *)
SwapKeepsUnread ==
    [][\A m \in Live(rows) \ Live(rows') : m \in Carried(read)]_vars

(* A checkpoint that holds words found nowhere else is never pruned. *)
MarkedStays ==
    [][\A c \in Marked : c \in backups']_vars
=============================================================================
