------------------------- MODULE CompactionProofs -------------------------
(***************************************************************************)
(* Theorems about Compaction, for every size of the protected tail, of the *)
(* preserved text and of the store of checkpoints.                         *)
(***************************************************************************)
EXTENDS DailyNotes, FiniteSetTheorems, TLAPS

(* The types alone, without the conjunct on preserved texts. *)
Types ==
    /\ rows \in Seq(RowType) /\ read \in Seq(RowType)
    /\ backups \subseteq CheckpointType
    /\ pc \in {"idle", "checkpoint", "prune", "flush", "read", "summarise", "swap"}
    /\ own \in Nat /\ flushOk \in BOOLEAN /\ markerOk \in BOOLEAN
    /\ written \in Nat /\ compactions \in Nat /\ foreign \in Nat
    /\ saved \subseteq Nat

(* While the summary is made rows are only added to those that were read,  *)
(* inside the swap they are the same, and a compaction that has begun has  *)
(* a head.                                                                 *)
SwapRows ==
    /\ pc = "summarise" =>
          Len(read) <= Len(rows) /\ \A i \in 1 .. Len(read) : rows[i] = read[i]
    /\ pc = "swap" => rows = read
    /\ pc # "idle" => Len(rows) > ProtectLast
    /\ pc \in {"summarise", "swap"} => Len(read) > ProtectLast

(* A preserved text stands second, and always before the protected tail.   *)
PreservedSecond(q) ==
    \A i \in DOMAIN q :
        q[i].kind = "preserved" => i = 2 /\ Len(q) >= ProtectLast + 2

IInv == Types /\ SwapRows /\ PreservedSecond(rows) /\ PreservedSecond(read)

-----------------------------------------------------------------------------
LEMMA RowTypes ==
    /\ SummaryRow \in RowType
    /\ \A m \in Nat : MessageRow(m + 1) \in RowType
    /\ \A set \in SUBSET (Nat \ {0}) : PreservedRow(set) \in RowType
  BY DEF SummaryRow, MessageRow, PreservedRow, RowType

LEMMA CarriedType ==
    ASSUME NEW q \in Seq(RowType)
    PROVE  Carried(q) \subseteq Nat \ {0}
  <1>1. \A i \in DOMAIN q : q[i] \in RowType
    OBVIOUS
  <1>2. \A r \in Rows(q) : r.has \in SUBSET (Nat \ {0})
    BY <1>1 DEF Rows, RowType
  <1> QED
    BY <1>2 DEF Carried

(* Head and tail of a history longer than the protected tail. *)
LEMMA TailFacts ==
    ASSUME NEW q \in Seq(RowType), Len(q) > ProtectLast
    PROVE  /\ HeadOf(q) \in Seq(RowType)
           /\ TailOf(q) \in Seq(RowType)
           /\ Len(TailOf(q)) = ProtectLast
           /\ \A i \in DOMAIN TailOf(q) : TailOf(q)[i] = q[Len(q) - ProtectLast + i]
  <1> USE SizesAssumption DEF HeadLen, HeadOf, TailOf
  <1>1. HeadLen(q) = Len(q) - ProtectLast /\ HeadLen(q) \in 1 .. Len(q)
    OBVIOUS
  <1>2. /\ HeadOf(q) \in Seq(RowType)
        /\ TailOf(q) \in Seq(RowType)
        /\ Len(TailOf(q)) = ProtectLast
        /\ \A i \in 1 .. ProtectLast : TailOf(q)[i] = q[Len(q) - ProtectLast + i]
    BY <1>1
  <1> HIDE DEF HeadLen, HeadOf, TailOf
  <1>3. DOMAIN TailOf(q) = 1 .. ProtectLast
    BY <1>2
  <1> QED
    BY <1>2, <1>3

(* A message row appended leaves a preserved text where it is. *)
LEMMA AppendKeeps ==
    ASSUME NEW q \in Seq(RowType), NEW m \in Nat, PreservedSecond(q)
    PROVE  /\ Append(q, MessageRow(m + 1)) \in Seq(RowType)
           /\ Len(Append(q, MessageRow(m + 1))) = Len(q) + 1
           /\ PreservedSecond(Append(q, MessageRow(m + 1)))
  BY RowTypes, SizesAssumption DEF PreservedSecond, MessageRow

-----------------------------------------------------------------------------
LEMMA InitInv == Init => IInv
  BY SizesAssumption DEF Init, IInv, Types, SwapRows, PreservedSecond, RowType, CheckpointType

(* What Commit writes has its one preserved text in second place. *)
LEMMA CommitKeeps ==
    ASSUME IInv, Commit
    PROVE  /\ rows' \in Seq(RowType)
           /\ PreservedSecond(rows')
  <1> USE SizesAssumption DEF Commit, IInv, SwapRows
  <1>1. read \in Seq(RowType) /\ Len(read) > ProtectLast /\ PreservedSecond(read)
    BY DEF Types
  <1>2. TailOf(read) \in Seq(RowType) /\ Len(TailOf(read)) = ProtectLast
    BY <1>1, TailFacts
  <1>3. \A i \in DOMAIN TailOf(read) : TailOf(read)[i].kind # "preserved"
    <2> SUFFICES ASSUME NEW i \in DOMAIN TailOf(read), TailOf(read)[i].kind = "preserved"
                 PROVE  FALSE
      OBVIOUS
    <2>1. i \in 1 .. ProtectLast
      BY <1>2
    <2>2. /\ TailOf(read)[i] = read[Len(read) - ProtectLast + i]
          /\ Len(read) - ProtectLast + i \in DOMAIN read
      BY <1>1, <2>1, TailFacts
    <2>3. Len(read) - ProtectLast + i = 2 /\ Len(read) >= ProtectLast + 2
      BY <1>1, <2>2 DEF PreservedSecond
    <2> QED
      BY <2>1, <2>3, <1>1
  <1>4. Blob \subseteq Nat \ {0}
    <2>1. HeadOf(read) \in Seq(RowType)
      BY <1>1, TailFacts
    <2>2. Carried(HeadOf(read)) \subseteq Nat \ {0}
      BY <2>1, CarriedType
    <2> QED
      BY <2>2 DEF Blob, Unsaved, Carried
  <1>5. CASE flushOk
    <2>1. rows' = <<SummaryRow>> \o <<>> \o TailOf(read)
      BY <1>5
    <2>2. /\ rows' \in Seq(RowType)
          /\ Len(rows') = ProtectLast + 1
          /\ rows'[1] = SummaryRow
          /\ \A i \in 2 .. ProtectLast + 1 : rows'[i] = TailOf(read)[i - 1]
      BY <1>2, <2>1, RowTypes
    <2> QED
      BY <1>2, <1>3, <2>2 DEF PreservedSecond, SummaryRow
  <1>6. CASE ~flushOk
    <2>1. rows' = <<SummaryRow>> \o <<PreservedRow(Blob)>> \o TailOf(read)
      BY <1>6
    <2>2. /\ rows' \in Seq(RowType)
          /\ Len(rows') = ProtectLast + 2
          /\ rows'[1] = SummaryRow
          /\ \A i \in 3 .. ProtectLast + 2 : rows'[i] = TailOf(read)[i - 2]
      BY <1>2, <1>4, <2>1, RowTypes
    <2>3. ASSUME NEW i \in DOMAIN rows', rows'[i].kind = "preserved"
          PROVE  i = 2
      <3>1. i # 1
        BY <2>2, <2>3 DEF SummaryRow
      <3>2. i \notin 3 .. ProtectLast + 2
        BY <1>2, <1>3, <2>2, <2>3
      <3> QED
        BY <2>2, <2>3, <3>1, <3>2
    <2> QED
      BY <2>2, <2>3 DEF PreservedSecond
  <1> QED
    BY <1>5, <1>6

LEMMA StepInv == IInv /\ [Next]_vars => IInv'
  <1> SUFFICES ASSUME IInv, [Next]_vars
               PROVE  IInv'
    OBVIOUS
  <1> USE SizesAssumption DEF IInv, Types, SwapRows
  <1>1. CASE Begin
    BY <1>1 DEF Begin, localVars, HeadLen, PreservedSecond
  <1>2. CASE GiveUp
    BY <1>2 DEF GiveUp, localVars, PreservedSecond
  <1>3. CASE Checkpoint
    <2>1. [id |-> compactions, data |-> Carried(rows), marked |-> FALSE] \in CheckpointType
      BY CarriedType DEF CheckpointType
    <2>2. backups' \subseteq CheckpointType
      BY <1>3, <2>1 DEF Checkpoint
    <2> QED
      BY <1>3, <2>2 DEF Checkpoint, PreservedSecond
  <1>4. CASE Prune
    BY <1>4 DEF Prune, localVars, PreservedSecond
  <1>5. ASSUME NEW ok \in BOOLEAN, MemoryFlush(ok)
        PROVE  IInv'
    <2>1. Carried(rows) \subseteq Nat \ {0}
      BY CarriedType
    <2> QED
      BY <1>5, <2>1 DEF MemoryFlush, PreservedSecond
  <1>6. CASE Reread
    BY <1>6 DEF Reread, PreservedSecond
  <1>7. CASE OpenSwap
    <2>1. backups' \subseteq CheckpointType
      BY <1>7 DEF OpenSwap, MarkOwn, CheckpointType
    <2>2. rows = read
      <3>1. Len(rows) = Len(read) /\ \A i \in 1 .. Len(read) : rows[i] = read[i]
        BY <1>7 DEF OpenSwap
      <3>2. rows \in Seq(RowType) /\ read \in Seq(RowType)
        OBVIOUS
      <3> HIDE DEF IInv, Types, SwapRows
      <3> QED
        BY <3>1, <3>2
    <2> QED
      BY <1>7, <2>1, <2>2 DEF OpenSwap, MarkOwn, localVars, PreservedSecond
  <1>8. CASE Commit
    BY <1>8, CommitKeeps DEF Commit, localVars, PreservedSecond
  <1>9. CASE AppendRow /\ pc # "swap" /\ UNCHANGED <<backups, pc, localVars, compactions, saved>>
                       /\ foreign' \in Nat
    BY <1>9, AppendKeeps DEF AppendRow, localVars, PreservedSecond
  <1>10. CASE UNCHANGED vars
    BY <1>10 DEF vars, localVars, PreservedSecond
  <1> QED
    BY <1>1, <1>2, <1>3, <1>4, <1>5, <1>6, <1>7, <1>8, <1>9, <1>10
       DEF Next, Compact, CheckpointFails, CountChanged, Rollback, Crash, OwnAppend, ForeignAppend

-----------------------------------------------------------------------------
(* One preserved text: two of them would both stand second. *)
LEMMA InvImpliesTypeOK == IInv => TypeOK
  <1> SUFFICES ASSUME IInv
               PROVE  Cardinality({i \in DOMAIN rows : rows[i].kind = "preserved"}) <= 1
    BY DEF IInv, Types, TypeOK
  <1> DEFINE P == {i \in DOMAIN rows : rows[i].kind = "preserved"}
  <1>1. P \subseteq {2}
    BY DEF IInv, PreservedSecond
  <1>2. P = {} \/ P = {2}
    BY <1>1
  <1>3. Cardinality(P) \in {0, 1}
    BY <1>2, FS_EmptySet, FS_Singleton
  <1> QED
    BY <1>3

(* compact: whatever fails or is cut short, the store keeps its shape, and *)
(* a session never holds two preserved texts.                              *)
THEOREM TypeCorrect == Spec => []TypeOK
  <1>1. IInv => TypeOK
    BY InvImpliesTypeOK
  <1> QED
    BY <1>1, InitInv, StepInv, PTL DEF Spec

(* compact's count of the rows inside its transaction: what another        *)
(* process appends while the summary is made is not overwritten.           *)
THEOREM NothingUnreadIsDropped == Spec => SwapKeepsUnread
  <1> DEFINE Kept == \A m \in Live(rows) \ Live(rows') : m \in Carried(read)
  <1>1. ASSUME IInv, [Next]_vars
        PROVE  [Kept]_vars
    <2>1. ASSUME AppendRow
          PROVE  Kept
      <3>1. \A i \in DOMAIN rows : i \in DOMAIN rows' /\ rows'[i] = rows[i]
        BY <1>1, <2>1 DEF IInv, Types, AppendRow
      <3>2. Rows(rows) \subseteq Rows(rows')
        BY <3>1 DEF Rows
      <3> QED
        BY <3>2 DEF Live
    <2>2. ASSUME Commit
          PROVE  Kept
      <3>1. rows = read
        BY <1>1, <2>2 DEF IInv, SwapRows, Commit
      <3> QED
        BY <3>1 DEF Live, Carried
    <2>3. ASSUME rows' = rows
          PROVE  Kept
      BY <2>3
    <2>4. AppendRow \/ Commit \/ rows' = rows
      BY <1>1 DEF Next, Compact, Begin, GiveUp, Checkpoint, Prune, MemoryFlush, Reread,
                  OpenSwap, CheckpointFails, CountChanged, Rollback, Crash, OwnAppend,
                  ForeignAppend, vars
    <2> QED
      BY <2>1, <2>2, <2>3, <2>4
  <1> QED
    BY <1>1, InitInv, StepInv, PTL DEF Spec, SwapKeepsUnread

(* A step takes no marked checkpoint out of the store. *)
LEMMA MarkedStay ==
    ASSUME IInv, [Next]_vars
    PROVE  \A c \in Marked : c \in backups'
  <1> DEFINE Stay == \A c \in Marked : c \in backups'
  <1>1. ASSUME Prune
        PROVE  Stay
    BY <1>1 DEF Prune, Excess, Marked
  <1>2. ASSUME OpenSwap
        PROVE  Stay
    <2>1. ASSUME NEW c \in Marked
          PROVE  [c EXCEPT !.marked = TRUE] = c
      BY <2>1 DEF IInv, Types, CheckpointType, Marked
    <2> QED
      BY <1>2, <2>1 DEF OpenSwap, MarkOwn, Marked
  <1>3. ASSUME Checkpoint
        PROVE  Stay
    BY <1>3 DEF Checkpoint, Marked
  <1>4. ASSUME backups' = backups
        PROVE  Stay
    BY <1>4 DEF Marked
  <1>5. Prune \/ OpenSwap \/ Checkpoint \/ backups' = backups
    BY DEF Next, Compact, Begin, GiveUp, MemoryFlush, Reread, Commit, CheckpointFails,
           CountChanged, Rollback, Crash, OwnAppend, ForeignAppend, vars
  <1> QED
    BY <1>1, <1>2, <1>3, <1>4, <1>5

(* _checkpoint's pruning: a checkpoint with words found nowhere else is    *)
(* kept for good.                                                          *)
THEOREM MarkedCheckpointsStay == Spec => MarkedStays
  <1>1. ASSUME IInv, [Next]_vars
        PROVE  [\A c \in Marked : c \in backups']_vars
    BY <1>1, MarkedStay
  <1> QED
    BY <1>1, InitInv, StepInv, PTL DEF Spec, MarkedStays

-----------------------------------------------------------------------------
(* Every message has a copy.                                               *)
(*                                                                         *)
(* The argument: a checkpoint and a flush hold every row that was there    *)
(* when they were made, so they lack only rows that other processes have   *)
(* appended since, and those are at the end (OwnHolds, SavedHolds).  With  *)
(* no more of them than the protected tail is long, the head that a swap   *)
(* drops is in both.  The checkpoint is the youngest of its store, so it   *)
(* is pruned only when marked ones fill the store (OwnIsKept).             *)

InCompaction == pc \in {"prune", "flush", "read", "summarise", "swap"}

Numbered == Carried(rows) \subseteq 1 .. written /\ Carried(read) \subseteq 1 .. written

CheckpointIds ==
    /\ IsFiniteSet(backups)
    /\ \A c \in backups : c.id <= compactions
    /\ pc = "checkpoint" => \A c \in backups : c.id # compactions
    /\ \A c, d \in backups : c.id = d.id => c = d
    /\ InCompaction => own = compactions

Holds(set, n) == \A i \in 1 .. n : rows[i].has \subseteq set

OwnHolds ==
    InCompaction => \A c \in backups : c.id = own => Holds(c.data, Len(rows) - foreign)

OwnIsKept ==
    InCompaction =>
        (\E c \in backups : c.id = own) \/ Cardinality(Marked) >= MaxCheckpoints

SavedHolds ==
    pc \in {"read", "summarise", "swap"} /\ flushOk => Holds(saved, Len(rows) - foreign)

OwnIsMarked ==
    pc = "swap" /\ Truncated /\ markerOk => \A c \in backups : c.id = own => c.marked

CopiesInv ==
    /\ Numbered /\ CheckpointIds /\ OwnHolds /\ OwnIsKept /\ SavedHolds /\ OwnIsMarked
    /\ foreign <= MaxForeign

-----------------------------------------------------------------------------
(* The rows of a session, one by one. *)
LEMMA CarriedOf ==
    ASSUME NEW q, NEW i \in DOMAIN q
    PROVE  q[i].has \subseteq Carried(q)
  BY DEF Carried, Rows

(* What carries a message is one of the rows. *)
LEMMA CarriedBy ==
    ASSUME NEW q, NEW m \in Carried(q)
    PROVE  \E i \in DOMAIN q : m \in q[i].has
  BY DEF Carried, Rows

(* An appended row adds its own message and takes nothing away. *)
LEMMA AppendCarries ==
    ASSUME IInv, AppendRow
    PROVE  /\ Len(rows') = Len(rows) + 1
           /\ \A i \in 1 .. Len(rows) : rows'[i] = rows[i]
           /\ Carried(rows') \subseteq Carried(rows) \cup {written + 1}
           /\ Live(rows) \subseteq Live(rows')
           /\ Live(rows') \subseteq Live(rows) \cup {written + 1}
  <1>1. rows \in Seq(RowType) /\ written \in Nat
    BY DEF IInv, Types
  <1>2. /\ Len(rows') = Len(rows) + 1
        /\ \A i \in 1 .. Len(rows) : rows'[i] = rows[i]
        /\ rows'[Len(rows) + 1] = MessageRow(written + 1)
        /\ DOMAIN rows = 1 .. Len(rows) /\ DOMAIN rows' = 1 .. Len(rows) + 1
    BY <1>1, RowTypes DEF AppendRow
  <1>3. Rows(rows') = Rows(rows) \cup {MessageRow(written + 1)}
    BY <1>1, <1>2 DEF Rows
  <1>4. MessageRow(written + 1).has = {written + 1}
    BY DEF MessageRow
  <1>5. QED BY <1>2, <1>3, <1>4 DEF Carried, Live

(* The first rows keep what they are, so what holds them still does. *)
LEMMA HoldsAppended ==
    ASSUME IInv, AppendRow, foreign' = foreign + 1, foreign \in Nat,
           NEW set, Holds(set, Len(rows) - foreign)
    PROVE  Holds(set, Len(rows) - foreign)'
  <1>1. Len(rows') - foreign' = Len(rows) - foreign
    BY AppendCarries DEF IInv, Types
  <1>2. \A i \in 1 .. Len(rows) - foreign : i \in 1 .. Len(rows)
    BY DEF IInv, Types
  <1>3. QED BY <1>1, <1>2, AppendCarries DEF Holds

(* A set that carries the rows holds them all, and so their first ones. *)
LEMMA CarriedHolds ==
    ASSUME IInv, NEW set, Carried(rows) \subseteq set
    PROVE  Holds(set, Len(rows) - foreign)
  <1>1. \A i \in 1 .. Len(rows) - foreign : i \in DOMAIN rows
    BY DEF IInv, Types
  <1>2. QED BY <1>1, CarriedOf DEF Holds

(* A marker is set on the checkpoint of this compaction and changes        *)
(* nothing else about it.                                                  *)
LEMMA MarksOwn ==
    ASSUME IInv, OpenSwap
    PROVE  /\ \A c \in backups : \E d \in backups' :
                  d.id = c.id /\ d.data = c.data /\ (c.marked => d.marked)
                  /\ (Truncated /\ markerOk' /\ c.id = own => d.marked)
                  /\ (~(Truncated /\ markerOk' /\ c.id = own) => d = c)
           /\ \A d \in backups' : \E c \in backups :
                  d = IF Truncated /\ markerOk' /\ c.id = own THEN [c EXCEPT !.marked = TRUE] ELSE c
  <1> DEFINE mark(c) == IF Truncated /\ markerOk' /\ c.id = own THEN [c EXCEPT !.marked = TRUE] ELSE c
  <1>1. backups' = {mark(c) : c \in backups}
    BY DEF OpenSwap, MarkOwn
  <1>2. ASSUME NEW c \in backups
        PROVE  /\ mark(c).id = c.id /\ mark(c).data = c.data /\ (c.marked => mark(c).marked)
               /\ (Truncated /\ markerOk' /\ c.id = own => mark(c).marked)
               /\ (~(Truncated /\ markerOk' /\ c.id = own) => mark(c) = c)
    <2>1. c \in CheckpointType
      BY DEF IInv, Types
    <2>2. QED BY <2>1 DEF CheckpointType
  <1>3. \A c \in backups : mark(c) \in backups'
    BY <1>1
  <1>4. \A d \in backups' : \E c \in backups : d = mark(c)
    BY <1>1
  <1>5. ASSUME NEW c \in backups
        PROVE  \E d \in backups' :
                  d.id = c.id /\ d.data = c.data /\ (c.marked => d.marked)
                  /\ (Truncated /\ markerOk' /\ c.id = own => d.marked)
                  /\ (~(Truncated /\ markerOk' /\ c.id = own) => d = c)
    <2> HIDE DEF mark
    <2> QED BY <1>2, <1>3
  <1>6. QED BY <1>4, <1>5

-----------------------------------------------------------------------------
LEMMA CopiesInit == Init => CopiesInv
<1> SUFFICES ASSUME Init PROVE CopiesInv OBVIOUS
<1>1. Carried(rows) = {} /\ Carried(read) = {}
  BY DEF Init, Carried, Rows
<1>2. MaxForeign \in Nat /\ 0 <= MaxForeign
  BY SizesAssumption
<1>3. QED
  BY <1>1, <1>2, FS_EmptySet DEF Init, CopiesInv, Numbered, CheckpointIds, InCompaction, OwnHolds,
     OwnIsKept, SavedHolds, OwnIsMarked

(* Nothing is numbered beyond what has been written. *)
LEMMA NumberedStep == IInv /\ CopiesInv /\ [Next]_vars => Numbered'
<1> SUFFICES ASSUME IInv, CopiesInv, [Next]_vars PROVE Numbered' OBVIOUS
<1> USE DEF CopiesInv, Numbered
<1>1. CASE AppendRow /\ UNCHANGED read
  <2>1. written' = written + 1 /\ written \in Nat
    BY <1>1 DEF AppendRow, IInv, Types
  <2>2. QED BY <1>1, <2>1, AppendCarries
<1>2. CASE Reread BY <1>2 DEF Reread
<1>3. CASE Commit
  <2>1. IInv' /\ UNCHANGED <<read, written>>
    BY <1>3, StepInv DEF Next, Compact, Commit, localVars
  <2>2. Rows(TailOf(read)) \subseteq Rows(read)
    <3>1. read \in Seq(RowType) /\ Len(read) > ProtectLast
      BY <1>3 DEF Commit, IInv, Types, SwapRows
    <3>2. \A i \in DOMAIN TailOf(read) :
             TailOf(read)[i] = read[Len(read) - ProtectLast + i]
             /\ Len(read) - ProtectLast + i \in DOMAIN read
      BY <3>1, TailFacts, SizesAssumption
    <3>3. QED BY <3>2 DEF Rows
  <2>3. ASSUME NEW r \in Rows(rows'), r.has # {}
        PROVE  r \in Rows(read) \/ r = PreservedRow(Blob)
    <3>1. TailOf(read) \in Seq(RowType)
      BY <1>3, TailFacts DEF Commit, IInv, Types, SwapRows
    <3>2. PICK i \in DOMAIN rows' : r = rows'[i]
      BY DEF Rows
    <3>3. SummaryRow.has = {}
      BY DEF SummaryRow
    <3>4. CASE flushOk
      <4>1. rows' = <<SummaryRow>> \o <<>> \o TailOf(read)
        BY <1>3, <3>4 DEF Commit
      <4>2. \/ i = 1 /\ rows'[i] = SummaryRow
            \/ i - 1 \in DOMAIN TailOf(read) /\ rows'[i] = TailOf(read)[i - 1]
        BY <4>1, <3>1, <3>2
      <4>3. QED BY <4>2, <3>2, <3>3, <2>2, <2>3 DEF Rows
    <3>5. CASE ~flushOk
      <4>1. rows' = <<SummaryRow>> \o <<PreservedRow(Blob)>> \o TailOf(read)
        BY <1>3, <3>5 DEF Commit
      <4>2. \/ i = 1 /\ rows'[i] = SummaryRow
            \/ i = 2 /\ rows'[i] = PreservedRow(Blob)
            \/ (i - 2 \in DOMAIN TailOf(read) /\ rows'[i] = TailOf(read)[i - 2])
        BY <4>1, <3>1, <3>2
      <4>3. QED BY <4>2, <3>2, <3>3, <2>2, <2>3 DEF Rows
    <3>6. QED BY <3>4, <3>5
  <2>4. PreservedRow(Blob).has \subseteq Carried(read)
    <3>1. \A i \in DOMAIN HeadOf(read) : i \in DOMAIN read /\ HeadOf(read)[i] = read[i]
      <4>1. read \in Seq(RowType) /\ Len(read) > ProtectLast
        BY <1>3 DEF Commit, IInv, Types, SwapRows
      <4>2. QED BY <4>1, SizesAssumption DEF HeadOf, HeadLen
    <3>2. Rows(HeadOf(read)) \subseteq Rows(read)
      BY <3>1 DEF Rows
    <3>3. QED BY <3>2 DEF PreservedRow, Blob, Unsaved, Carried
  <2>5. Carried(rows') \subseteq Carried(read)
    <3> SUFFICES ASSUME NEW m \in Carried(rows') PROVE m \in Carried(read) OBVIOUS
    <3>1. PICK r \in Rows(rows') : m \in r.has BY DEF Carried
    <3>2. QED BY <3>1, <2>3, <2>4 DEF Carried
  <2>6. QED BY <2>1, <2>5
<1>4. CASE UNCHANGED <<rows, read, written>> BY <1>4
<1>5. QED
  BY <1>1, <1>2, <1>3, <1>4
  DEF Next, Compact, Begin, GiveUp, Checkpoint, Prune, MemoryFlush, OpenSwap, CheckpointFails,
      CountChanged, Rollback, Crash, OwnAppend, ForeignAppend, vars, localVars

(* Every compaction has a number of its own, and so has its checkpoint. *)
LEMMA CheckpointIdsStep == IInv /\ CopiesInv /\ [Next]_vars => CheckpointIds'
<1> SUFFICES ASSUME IInv, CopiesInv, [Next]_vars PROVE CheckpointIds' OBVIOUS
<1> USE DEF CopiesInv, CheckpointIds, InCompaction
<1>0. compactions \in Nat /\ \A c \in backups : c.id \in Nat
  BY DEF IInv, Types, CheckpointType
<1>1. CASE Begin
  <2>1. \A c \in backups : c.id <= compactions + 1 /\ c.id # compactions + 1
    BY <1>0
  <2>2. QED BY <1>1, <2>1 DEF Begin, localVars
<1>2. CASE GiveUp BY <1>2 DEF GiveUp, localVars
<1>3. CASE Checkpoint
  <2> DEFINE new == [id |-> compactions, data |-> Carried(rows), marked |-> FALSE]
  <2>1. backups' = backups \cup {new} /\ new.id = compactions
    BY <1>3 DEF Checkpoint
  <2>2. IsFiniteSet(backups')
    BY <2>1, FS_AddElement
  <2>3. \A c \in backups : c.id # compactions
    BY <1>3 DEF Checkpoint
  <2>4. pc' = "prune" /\ own' = compactions /\ compactions' = compactions
    BY <1>3 DEF Checkpoint
  <2> HIDE DEF new
  <2>5. QED BY <1>0, <2>1, <2>2, <2>3, <2>4
<1>4. CASE Prune
  <2>1. backups' \subseteq backups /\ IsFiniteSet(backups')
    BY <1>4, FS_Subset DEF Prune
  <2>2. QED BY <1>4, <2>1 DEF Prune, localVars
<1>5. ASSUME NEW ok \in BOOLEAN, MemoryFlush(ok) PROVE CheckpointIds'
  BY <1>5 DEF MemoryFlush
<1>6. CASE Reread BY <1>6 DEF Reread
<1>7. CASE OpenSwap
  <2> DEFINE mark(c) == IF Truncated /\ markerOk' /\ c.id = own THEN [c EXCEPT !.marked = TRUE] ELSE c
  <2>1. \A d \in backups' : \E c \in backups : d = mark(c) /\ d.id = c.id
    <3>1. ASSUME NEW c \in backups PROVE mark(c).id = c.id
      <4>1. c \in CheckpointType BY DEF IInv, Types
      <4>2. QED BY <4>1 DEF CheckpointType
    <3>2. backups' = {mark(c) : c \in backups}
      BY <1>7 DEF OpenSwap, MarkOwn
    <3> HIDE DEF mark
    <3>3. QED BY <3>1, <3>2
  <2>2. IsFiniteSet(backups')
    <3> DEFINE marks == [c \in backups |-> mark(c)]
    <3>1. marks \in Surjection(backups, backups')
      <4>1. backups' = {mark(c) : c \in backups}
        BY <1>7 DEF OpenSwap, MarkOwn
      <4> HIDE DEF mark
      <4>2. QED BY <4>1 DEF Surjection
    <3> HIDE DEF marks
    <3>2. QED BY <3>1, FS_Surjection
  <2>3. pc = "summarise" /\ pc' = "swap" /\ UNCHANGED <<own, compactions>>
    BY <1>7 DEF OpenSwap, MarkOwn, localVars
  <2> HIDE DEF mark
  <2>4. \A c, d \in backups' : c.id = d.id => c = d
    BY <2>1
  <2>5. \A c \in backups' : c.id <= compactions
    BY <2>1
  <2>6. QED BY <2>2, <2>3, <2>4, <2>5
<1>8. CASE Commit BY <1>8 DEF Commit, localVars
<1>9. CASE UNCHANGED <<backups, pc, own, compactions>> BY <1>9
<1>10. QED
  BY <1>1, <1>2, <1>3, <1>4, <1>5, <1>6, <1>7, <1>8, <1>9
  DEF Next, Compact, CheckpointFails, CountChanged, Rollback, Crash, OwnAppend, ForeignAppend,
      vars, localVars

(* What is appended while compact is under way. *)
LEMMA AppendsMeanwhile ==
    ASSUME IInv, [Next]_vars, pc # "idle", pc' = pc
    PROVE  \/ AppendRow /\ foreign' = foreign + 1
           \/ UNCHANGED <<rows, foreign>>
  BY DEF Next, Compact, Begin, GiveUp, Checkpoint, Prune, MemoryFlush, Reread, OpenSwap,
         Commit, CheckpointFails, CountChanged, Rollback, Crash, OwnAppend, ForeignAppend, vars

(* Where compact goes, and what it leaves alone on the way. *)
LEMMA CompactGoes ==
    ASSUME IInv, [Next]_vars, pc' # pc, pc' # "idle"
    PROVE  /\ pc' # "checkpoint" => UNCHANGED <<rows, foreign>>
           /\ \/ Begin \/ Checkpoint \/ Prune \/ (\E ok \in BOOLEAN : MemoryFlush(ok))
              \/ Reread \/ OpenSwap
  BY DEF Next, Compact, Begin, GiveUp, Checkpoint, Prune, MemoryFlush, Reread, OpenSwap,
         Commit, CheckpointFails, CountChanged, Rollback, Crash, OwnAppend, ForeignAppend, vars

(* A step that leaves compact where it is leaves its variables alone. *)
LEMMA CompactWaits ==
    ASSUME [Next]_vars, pc' = pc
    PROVE  UNCHANGED <<backups, localVars, compactions, saved>>
  BY DEF Next, Compact, Begin, GiveUp, Checkpoint, Prune, MemoryFlush, Reread, OpenSwap,
         Commit, CheckpointFails, CountChanged, Rollback, Crash, OwnAppend, ForeignAppend, vars

(* The checkpoint of this compaction keeps what the session had. *)
LEMMA OwnHoldsStep == IInv /\ CopiesInv /\ [Next]_vars => OwnHolds'
<1> SUFFICES ASSUME IInv, CopiesInv, [Next]_vars, InCompaction',
                    NEW c \in backups', c.id = own'
             PROVE  Holds(c.data, Len(rows) - foreign)'
  BY DEF OwnHolds
<1>0. foreign \in Nat /\ pc' # "idle" /\ pc' # "checkpoint"
  BY DEF IInv, Types, InCompaction
<1>1. CASE pc' = pc
  <2>1. UNCHANGED <<backups, own>> /\ InCompaction
    BY <1>1, CompactWaits DEF localVars, InCompaction
  <2>2. Holds(c.data, Len(rows) - foreign)
    BY <2>1 DEF CopiesInv, OwnHolds
  <2>3. CASE UNCHANGED <<rows, foreign>> BY <2>2, <2>3 DEF Holds
  <2>4. CASE AppendRow /\ foreign' = foreign + 1
    BY <2>2, <2>4, <1>0, HoldsAppended
  <2>5. QED BY <2>3, <2>4, <1>0, <1>1, AppendsMeanwhile
<1>2. CASE Checkpoint
  <2>1. c.data = Carried(rows)
    BY <1>2 DEF Checkpoint, CopiesInv, CheckpointIds
  <2>2. UNCHANGED <<rows, foreign>> BY <1>2 DEF Checkpoint
  <2>3. Holds(c.data, Len(rows) - foreign) BY <2>1, CarriedHolds
  <2>4. QED BY <2>2, <2>3 DEF Holds
<1>3. CASE pc' # pc /\ ~Checkpoint
  <2>1. UNCHANGED <<rows, foreign, own>> /\ InCompaction
    BY <1>0, <1>3, CompactGoes DEF Begin, Prune, MemoryFlush, Reread, OpenSwap, InCompaction,
       localVars
  <2>2. \E d \in backups : d.id = own /\ d.data = c.data
    <3>1. CASE OpenSwap
      <4>1. PICK d \in backups : c = IF Truncated /\ markerOk' /\ d.id = own THEN [d EXCEPT !.marked = TRUE] ELSE d
        BY <3>1, MarksOwn
      <4>2. d \in CheckpointType BY DEF IInv, Types
      <4>3. c.id = d.id /\ c.data = d.data BY <4>1, <4>2 DEF CheckpointType
      <4>4. QED BY <4>3, <2>1
    <3>2. CASE ~OpenSwap
      <4>1. backups' \subseteq backups
        BY <1>0, <1>3, <3>2, CompactGoes DEF Begin, Prune, MemoryFlush, Reread
      <4>2. QED BY <4>1, <2>1
    <3>3. QED BY <3>1, <3>2
  <2>3. Holds(c.data, Len(rows) - foreign)
    BY <2>1, <2>2 DEF CopiesInv, OwnHolds
  <2>4. QED BY <2>1, <2>3 DEF Holds
<1>4. QED BY <1>1, <1>2, <1>3

(* A flush that succeeded has what the session had. *)
LEMMA SavedHoldsStep == IInv /\ CopiesInv /\ [Next]_vars => SavedHolds'
<1> SUFFICES ASSUME IInv, CopiesInv, [Next]_vars,
                    pc' \in {"read", "summarise", "swap"}, flushOk'
             PROVE  Holds(saved, Len(rows) - foreign)'
  BY DEF SavedHolds
<1>0. foreign \in Nat /\ pc' # "idle" /\ pc' # "checkpoint"
  BY DEF IInv, Types
<1>1. CASE pc' = pc
  <2>1. UNCHANGED <<flushOk, saved>>
    BY <1>1, CompactWaits DEF localVars
  <2>2. Holds(saved, Len(rows) - foreign)
    BY <1>1, <2>1 DEF CopiesInv, SavedHolds
  <2>3. CASE UNCHANGED <<rows, foreign>> BY <2>1, <2>2, <2>3 DEF Holds
  <2>4. CASE AppendRow /\ foreign' = foreign + 1
    BY <2>1, <2>2, <2>4, <1>0, HoldsAppended
  <2>5. QED BY <2>3, <2>4, <1>0, <1>1, AppendsMeanwhile
<1>2. ASSUME NEW ok \in BOOLEAN, MemoryFlush(ok) PROVE Holds(saved, Len(rows) - foreign)'
  <2>1. Carried(rows) \subseteq saved' /\ UNCHANGED <<rows, foreign>>
    BY <1>2 DEF MemoryFlush
  <2>2. Holds(saved', Len(rows) - foreign) BY <2>1, CarriedHolds
  <2>3. QED BY <2>1, <2>2 DEF Holds
<1>3. CASE pc' # pc /\ ~\E ok \in BOOLEAN : MemoryFlush(ok)
  <2>1. UNCHANGED <<rows, foreign, flushOk, saved>> /\ pc \in {"read", "summarise"}
    BY <1>0, <1>3, CompactGoes DEF Begin, Checkpoint, Prune, Reread, OpenSwap, localVars
  <2>2. Holds(saved, Len(rows) - foreign) BY <2>1 DEF CopiesInv, SavedHolds
  <2>3. QED BY <2>1, <2>2 DEF Holds
<1>4. QED BY <1>1, <1>2, <1>3

(* _checkpoint prunes the checkpoint it has just made only when the marked *)
(* ones fill the store: of the unmarked ones it is the youngest.           *)
LEMMA PruneKeepsOwn ==
    ASSUME IInv, CheckpointIds, pc = "prune", NEW c \in backups, c.id = own, c \in Excess
    PROVE  Cardinality(Marked) >= MaxCheckpoints
<1> DEFINE free == backups \ Marked
           older == {d \in free : d.id < c.id}
<1>1. c \in free /\ Cardinality(older) < Cardinality(backups) - MaxCheckpoints
  BY DEF Excess
<1>2. \A d \in free : d # c => d.id < c.id
  <2>1. \A d \in backups : d.id \in Nat /\ d.id <= compactions
    BY DEF CheckpointIds, IInv, Types, CheckpointType
  <2>2. c.id = compactions BY DEF CheckpointIds, InCompaction
  <2>3. \A d \in backups : d.id = c.id => d = c BY DEF CheckpointIds
  <2>4. compactions \in Nat BY DEF IInv, Types
  <2>5. QED BY <2>1, <2>2, <2>3, <2>4
<1>3. older = free \ {c}
  <2>1. c.id \in Nat BY DEF IInv, Types, CheckpointType
  <2>2. QED BY <1>2, <2>1
<1>4. IsFiniteSet(backups) /\ IsFiniteSet(free) /\ IsFiniteSet(Marked)
  <2>1. IsFiniteSet(backups) BY DEF CheckpointIds
  <2>2. free \subseteq backups /\ Marked \subseteq backups BY DEF Marked
  <2>3. QED BY <2>1, <2>2, FS_Subset
<1>5. Cardinality(older) = Cardinality(free) - 1
  BY <1>1, <1>3, <1>4, FS_RemoveElement
<1>6. Cardinality(backups) = Cardinality(free) + Cardinality(Marked)
  <2>1. Marked \subseteq backups BY DEF Marked
  <2>2. Cardinality(free) = Cardinality(backups) - Cardinality(Marked)
    <3>1. Marked \cap backups = Marked BY <2>1
    <3>2. Cardinality(backups \ Marked) = Cardinality(backups) - Cardinality(backups \cap Marked)
      BY <1>4, FS_Difference
    <3>3. backups \cap Marked = Marked BY <2>1
    <3>4. QED BY <3>2, <3>3
  <2>3. Cardinality(free) \in Nat /\ Cardinality(backups) \in Nat /\ Cardinality(Marked) \in Nat
    BY <1>4, FS_CardinalityType
  <2>4. QED BY <2>2, <2>3
<1>7. /\ Cardinality(free) \in Nat /\ Cardinality(backups) \in Nat
      /\ Cardinality(Marked) \in Nat /\ MaxCheckpoints \in Nat
  BY <1>4, FS_CardinalityType, SizesAssumption
<1> HIDE DEF free, older
<1>8. QED BY <1>1, <1>5, <1>6, <1>7

(* Marks are never taken away. *)
LEMMA MarkedGrows ==
    ASSUME IInv, CheckpointIds', CheckpointIds, \A c \in Marked : c \in backups',
           Cardinality(Marked) >= MaxCheckpoints
    PROVE  Cardinality(Marked') >= MaxCheckpoints
<1>1. Marked \subseteq Marked' BY DEF Marked
<1>2. IsFiniteSet(Marked) /\ IsFiniteSet(Marked')
  BY FS_Subset DEF Marked, CheckpointIds
<1>3. Cardinality(Marked) <= Cardinality(Marked') BY <1>1, <1>2, FS_Subset
<1>4. Cardinality(Marked) \in Nat /\ Cardinality(Marked') \in Nat /\ MaxCheckpoints \in Nat
  BY <1>2, FS_CardinalityType, SizesAssumption
<1>5. QED BY <1>3, <1>4

(* The checkpoint of this compaction is in the store, or marked ones fill  *)
(* it.                                                                     *)
LEMMA OwnIsKeptStep == IInv /\ CopiesInv /\ [Next]_vars => OwnIsKept'
<1> SUFFICES ASSUME IInv, CopiesInv, [Next]_vars,
                    InCompaction'
             PROVE  (\E c \in backups' : c.id = own') \/ Cardinality(Marked') >= MaxCheckpoints
  BY DEF OwnIsKept
<1>0. CheckpointIds /\ CheckpointIds' /\ \A c \in Marked : c \in backups'
  BY CheckpointIdsStep, MarkedStay DEF CopiesInv
<1>1. CASE Prune
  <2>1. backups' = backups \ Excess /\ own' = own /\ pc = "prune"
    BY <1>1 DEF Prune, localVars
  <2>2. CASE \E c \in backups : c.id = own /\ c \in Excess
    BY <2>1, <2>2, <1>0, PruneKeepsOwn, MarkedGrows
  <2>3. CASE \E c \in backups : c.id = own /\ c \notin Excess
    BY <2>1, <2>3
  <2>4. CASE \A c \in backups : c.id # own
    <3>1. Cardinality(Marked) >= MaxCheckpoints
      BY <2>1, <2>4 DEF CopiesInv, OwnIsKept, InCompaction
    <3>2. QED BY <3>1, <1>0, MarkedGrows
  <2>5. QED BY <2>2, <2>3, <2>4
<1>2. CASE Checkpoint
  <2> DEFINE new == [id |-> compactions, data |-> Carried(rows), marked |-> FALSE]
  <2>1. new \in backups' /\ new.id = own' BY <1>2 DEF Checkpoint
  <2>2. QED BY <2>1
<1>3. CASE ~Prune /\ ~Checkpoint
  <2>0. pc' # "idle" /\ pc' # "checkpoint" BY DEF InCompaction
  <2>1. own' = own /\ InCompaction
    <3>1. CASE pc' = pc BY <3>1, CompactWaits DEF localVars, InCompaction
    <3>2. CASE pc' # pc
      BY <3>2, <1>3, <2>0, CompactGoes DEF Begin, MemoryFlush, Reread, OpenSwap, localVars,
         InCompaction
    <3>3. QED BY <3>1, <3>2
  <2>2. CASE Cardinality(Marked) >= MaxCheckpoints
    BY <2>2, <1>0, MarkedGrows
  <2>3. CASE \E c \in backups : c.id = own
    <3>1. PICK c \in backups : c.id = own BY <2>3
    <3>2. CASE OpenSwap BY <3>1, <3>2, <2>1, MarksOwn
    <3>3. CASE ~OpenSwap
      <4>1. CASE pc' = pc BY <4>1, <3>1, <2>1, CompactWaits
      <4>2. CASE pc' # pc
        BY <4>2, <3>1, <3>3, <2>0, <2>1, <1>3, CompactGoes DEF Begin, MemoryFlush, Reread
      <4>3. QED BY <4>1, <4>2
    <3>4. QED BY <3>2, <3>3
  <2>4. QED BY <2>1, <2>2, <2>3 DEF CopiesInv, OwnIsKept
<1>4. QED BY <1>1, <1>2, <1>3

(* A text that is cut has its checkpoint marked before the swap commits. *)
LEMMA OwnIsMarkedStep == IInv /\ CopiesInv /\ [Next]_vars => OwnIsMarked'
<1> SUFFICES ASSUME IInv, CopiesInv, [Next]_vars, pc' = "swap", Truncated', markerOk',
                    NEW c \in backups', c.id = own'
             PROVE  c.marked
  BY DEF OwnIsMarked
<1>1. CASE pc' = pc
  <2>1. UNCHANGED <<backups, own, flushOk, read, markerOk>> BY <1>1, CompactWaits DEF localVars
  <2>2. Truncated BY <2>1 DEF Truncated, Unsaved
  <2>3. QED BY <1>1, <2>1, <2>2 DEF CopiesInv, OwnIsMarked
<1>2. CASE pc' # pc
  <2>1. OpenSwap
    BY <1>2, CompactGoes DEF Begin, Checkpoint, Prune, MemoryFlush, Reread
  <2>2. UNCHANGED <<own, flushOk, read>> BY <2>1 DEF OpenSwap, localVars
  <2>3. Truncated BY <2>2 DEF Truncated, Unsaved
  <2>4. PICK d \in backups : c = IF Truncated /\ markerOk' /\ d.id = own THEN [d EXCEPT !.marked = TRUE] ELSE d
    BY <2>1, MarksOwn
  <2>5. d \in CheckpointType BY DEF IInv, Types
  <2>6. c.id = d.id BY <2>4, <2>5 DEF CheckpointType
  <2>7. QED BY <2>2, <2>3, <2>4, <2>5, <2>6 DEF CheckpointType
<1>3. QED BY <1>1, <1>2

LEMMA CopiesStep == IInv /\ CopiesInv /\ [Next]_vars => CopiesInv'
<1> SUFFICES ASSUME IInv, CopiesInv, [Next]_vars PROVE CopiesInv' OBVIOUS
<1>1. (foreign <= MaxForeign)'
  <2>1. foreign \in Nat /\ MaxForeign \in Nat /\ foreign <= MaxForeign
    BY SizesAssumption DEF IInv, Types, CopiesInv
  <2>2. \/ foreign' = foreign \/ foreign' = 0
        \/ foreign < MaxForeign /\ foreign' = foreign + 1
    BY DEF Next, Compact, Begin, GiveUp, Checkpoint, Prune, MemoryFlush, Reread, OpenSwap,
           Commit, CheckpointFails, CountChanged, Rollback, Crash, OwnAppend, ForeignAppend, vars
  <2>3. QED BY <2>1, <2>2
<1>2. QED
  BY <1>1, NumberedStep, CheckpointIdsStep, OwnHoldsStep, OwnIsKeptStep, SavedHoldsStep,
     OwnIsMarkedStep DEF CopiesInv

-----------------------------------------------------------------------------
(* Everything unsaved is kept when there is room for it. *)
LEMMA RoomForAll ==
    ASSUME IInv, CopiesInv, pc = "swap", ~flushOk, ~Truncated
    PROVE  Blob = Unsaved
<1>1. Unsaved \subseteq 1 .. written
  <2>1. \A i \in DOMAIN HeadOf(read) : i \in DOMAIN read /\ HeadOf(read)[i] = read[i]
    <3>1. read \in Seq(RowType) /\ Len(read) > ProtectLast
      BY DEF IInv, Types, SwapRows
    <3>2. QED BY <3>1, SizesAssumption DEF HeadOf, HeadLen
  <2>2. Rows(HeadOf(read)) \subseteq Rows(read)
    BY <2>1 DEF Rows
  <2>3. Unsaved \subseteq Carried(read)
    BY <2>2 DEF Unsaved, Carried
  <2>4. QED BY <2>3 DEF CopiesInv, Numbered
<1>2. written \in Nat /\ IsFiniteSet(1 .. written)
  BY FS_Interval DEF IInv, Types
<1>3. IsFiniteSet(Unsaved) BY <1>1, <1>2, FS_Subset
<1>4. Cardinality(Unsaved) <= MaxBlob /\ Cardinality(Unsaved) \in Nat /\ MaxBlob \in Nat
  BY <1>3, FS_CardinalityType, SizesAssumption DEF Truncated
<1>5. ASSUME NEW m \in Unsaved
      PROVE  Cardinality({n \in Unsaved : n < m}) < MaxBlob
  <2> DEFINE older == {n \in Unsaved : n < m}
  <2>1. m \notin older /\ older \subseteq Unsaved /\ older # Unsaved
    <3>1. m \in Nat BY <1>1
    <3>2. QED BY <3>1
  <2>2. IsFiniteSet(older) /\ Cardinality(older) <= Cardinality(Unsaved)
        /\ Cardinality(older) # Cardinality(Unsaved)
    <3> HIDE DEF older
    <3>1. QED BY <1>3, <2>1, FS_Subset
  <2>3. Cardinality(older) \in Nat BY <2>2, FS_CardinalityType
  <2>4. QED BY <1>4, <2>2, <2>3
<1>6. QED BY <1>5 DEF Blob

(* What a swap leaves: the preserved text and the protected tail. *)
LEMMA CommitLeaves ==
    ASSUME IInv, Commit
    PROVE  /\ \A i \in DOMAIN read :
                 i > Len(read) - ProtectLast => read[i] \in Rows(rows')
           /\ ~flushOk => PreservedRow(Blob) \in Rows(rows')
<1>1. read \in Seq(RowType) /\ Len(read) > ProtectLast
  BY DEF Commit, IInv, Types, SwapRows
<1>2. /\ TailOf(read) \in Seq(RowType) /\ Len(TailOf(read)) = ProtectLast
      /\ \A i \in DOMAIN TailOf(read) : TailOf(read)[i] = read[Len(read) - ProtectLast + i]
  BY <1>1, TailFacts
<1>3. ProtectLast \in Nat BY SizesAssumption
<1>4. ASSUME NEW i \in DOMAIN read, i > Len(read) - ProtectLast
      PROVE  \E k \in DOMAIN TailOf(read) : TailOf(read)[k] = read[i]
  <2> DEFINE k == i - (Len(read) - ProtectLast)
  <2>1. k \in 1 .. ProtectLast /\ Len(read) - ProtectLast + k = i
    BY <1>1, <1>3, <1>4
  <2>2. k \in DOMAIN TailOf(read) BY <1>2, <2>1
  <2>3. QED BY <1>2, <2>1, <2>2
<1>5. CASE flushOk
  <2>1. rows' = <<SummaryRow>> \o <<>> \o TailOf(read) BY <1>5 DEF Commit
  <2>2. \A k \in DOMAIN TailOf(read) : k + 1 \in DOMAIN rows' /\ rows'[k + 1] = TailOf(read)[k]
    BY <1>2, <2>1
  <2>3. QED BY <1>4, <1>5, <2>2 DEF Rows
<1>6. CASE ~flushOk
  <2>1. rows' = <<SummaryRow>> \o <<PreservedRow(Blob)>> \o TailOf(read) BY <1>6 DEF Commit
  <2>2. \A k \in DOMAIN TailOf(read) : k + 2 \in DOMAIN rows' /\ rows'[k + 2] = TailOf(read)[k]
    BY <1>2, <2>1
  <2>3. 2 \in DOMAIN rows' /\ rows'[2] = PreservedRow(Blob) BY <1>2, <2>1
  <2>4. QED BY <1>4, <2>2, <2>3 DEF Rows
<1>7. QED BY <1>5, <1>6

(* A message that a swap drops was in the head, and so in the copies.      *)
LEMMA CommitSaves ==
    ASSUME IInv, CopiesInv, Commit, MaxForeign <= ProtectLast,
           NEW m \in Live(rows) \ Live(rows')
    PROVE  \/ m \in saved
           \/ m \in Carried(rows')
           \/ \E c \in Marked' : m \in c.data
           \/ ~markerOk /\ \E c \in backups' : m \in c.data
           \/ Cardinality(Marked') >= MaxCheckpoints
<1>1. rows = read /\ pc = "swap" /\ Len(read) > ProtectLast /\ rows \in Seq(RowType)
  BY DEF Commit, IInv, Types, SwapRows
<1>2. PICK i \in DOMAIN rows : rows[i].kind = "message" /\ m \in rows[i].has
  BY DEF Live, Rows
<1>3. i <= Len(rows) - ProtectLast
  <2> SUFFICES ASSUME ~(i <= Len(rows) - ProtectLast) PROVE FALSE OBVIOUS
  <2>1. i > Len(read) - ProtectLast BY <1>1, SizesAssumption
  <2>2. rows[i] \in Rows(rows') BY <1>1, <2>1, CommitLeaves
  <2>3. QED BY <1>2, <2>2 DEF Live
<1>4. i \in 1 .. Len(rows) - foreign
  <2>1. foreign \in Nat /\ foreign <= ProtectLast /\ ProtectLast \in Nat
    BY SizesAssumption DEF CopiesInv, IInv, Types
  <2>2. i \in 1 .. Len(rows) BY <1>1
  <2>3. QED BY <1>1, <1>3, <2>1, <2>2
<1>5. CASE flushOk
  <2>1. Holds(saved, Len(rows) - foreign)
    BY <1>1, <1>5 DEF CopiesInv, SavedHolds
  <2>2. QED BY <1>2, <1>4, <2>1 DEF Holds
<1>6. CASE ~flushOk /\ ~Truncated
  <2>1. m \in Unsaved
    <3>1. i \in DOMAIN HeadOf(read) /\ HeadOf(read)[i] = read[i]
      BY <1>1, <1>3, SizesAssumption DEF HeadOf, HeadLen
    <3>2. read[i].kind = "message" /\ m \in read[i].has BY <1>1, <1>2
    <3>3. QED BY <3>1, <3>2 DEF Unsaved, Rows
  <2>2. m \in PreservedRow(Blob).has
    BY <1>1, <1>6, <2>1, RoomForAll DEF PreservedRow
  <2>3. PreservedRow(Blob) \in Rows(rows') BY <1>6, CommitLeaves
  <2>4. QED BY <2>2, <2>3 DEF Carried
<1>7. CASE ~flushOk /\ Truncated
  <2>1. backups' = backups BY DEF Commit
  <2>2. CASE \E c \in backups : c.id = own
    <3>1. PICK c \in backups : c.id = own BY <2>2
    <3>2. m \in c.data
      <4>1. Holds(c.data, Len(rows) - foreign)
        BY <1>1, <3>1 DEF CopiesInv, OwnHolds, InCompaction
      <4>2. QED BY <1>2, <1>4, <4>1 DEF Holds
    <3>3. CASE markerOk
      <4>1. c.marked BY <1>1, <1>7, <3>1, <3>3 DEF CopiesInv, OwnIsMarked
      <4>2. QED BY <2>1, <3>2, <4>1 DEF Marked
    <3>4. CASE ~markerOk BY <2>1, <3>1, <3>2, <3>4
    <3>5. QED BY <3>3, <3>4
  <2>3. CASE Cardinality(Marked) >= MaxCheckpoints
    BY <2>1, <2>3 DEF Marked
  <2>4. QED BY <1>1, <2>2, <2>3 DEF CopiesInv, OwnIsKept, InCompaction
<1>8. QED BY <1>5, <1>6, <1>7

(* compact: a message leaves the session only when a copy of it is kept,   *)
(* or MAX_CHECKPOINTS copies that must stay fill the store; for every size *)
(* of the tail, the text and the store, while other processes append no    *)
(* more rows from one compaction to the next than the tail holds.          *)
THEOREM CopyIsKept == ASSUME MaxForeign <= ProtectLast PROVE Spec => LeavesSaved
<1> DEFINE Saved ==
        \A m \in Live(rows) \ Live(rows') :
          \/ m \in saved
          \/ m \in Carried(rows')
          \/ \E c \in Marked' : m \in c.data
          \/ ~markerOk /\ \E c \in backups' : m \in c.data
          \/ Cardinality(Marked') >= MaxCheckpoints
<1>1. ASSUME IInv, CopiesInv, [Next]_vars PROVE [Saved]_vars
  <2>1. CASE Commit BY <1>1, <2>1, CommitSaves
  <2>2. CASE AppendRow
    <3>1. Live(rows) \ Live(rows') = {} BY <1>1, <2>2, AppendCarries
    <3>2. QED BY <3>1
  <2>3. CASE rows' = rows BY <2>3
  <2>4. AppendRow \/ Commit \/ rows' = rows
    BY <1>1 DEF Next, Compact, Begin, GiveUp, Checkpoint, Prune, MemoryFlush, Reread,
                OpenSwap, CheckpointFails, CountChanged, Rollback, Crash, OwnAppend,
                ForeignAppend, vars
  <2>5. QED BY <2>1, <2>2, <2>3, <2>4
<1>2. QED
  BY <1>1, InitInv, StepInv, CopiesInit, CopiesStep, PTL DEF Spec, LeavesSaved

-----------------------------------------------------------------------------
(* The daily note, for every bound.                                        *)
(*                                                                         *)
(* The argument: while the model answers, the loop that asked holds the    *)
(* session's lock, so that only other processes write, and what they write *)
(* is newer than everything asked about.  Whatever lies between the cursor *)
(* and the newest message asked about was therefore asked about, and by    *)
(* the time the cursor moves it was heard (NoteInv).                       *)

NoteInv ==
    /\ Live(rows) \subseteq 1 .. written
    /\ written \in Nat /\ cursor \in 0 .. written
    /\ note.about \subseteq 1 .. written
    /\ note \in [at : {"idle", "ask", "append", "cursor"}, about : SUBSET Nat]
    /\ note # NoNote =>
          /\ note.about # {}
          /\ \A m \in Live(rows) :
                m \in note.about \/ m <= cursor \/ \A n \in note.about : n < m
    /\ NoteAt("cursor") => note.about \subseteq heard
    /\ NothingPassedUnheard

(* A note changes nothing in the session: with it, compaction takes the    *)
(* steps it takes alone.                                                   *)
LEMMA NoteStepIsCompaction ==
    ASSUME [NoteNext]_allVars
    PROVE  [Next]_vars
  BY DEF NoteNext, MaybeDailyNote, AskNote, AnswerHasNotes, Heard, NoteFails, AdvanceCursor,
         NoteCrash, Next, allVars

(* The composition with the daily note implements compaction, whose        *)
(* theorems hold of it as well.                                            *)
THEOREM NotesLeaveCompaction == NoteSpec => Spec
<1>1. NoteInit => Init BY DEF NoteInit
<1>2. [NoteNext]_allVars => [Next]_vars BY NoteStepIsCompaction
<1>3. QED BY <1>1, <1>2, PTL DEF NoteSpec, Spec

LEMMA NoteInvInit == NoteInit => NoteInv
<1> SUFFICES ASSUME NoteInit PROVE NoteInv OBVIOUS
<1>1. Live(rows) = {} BY DEF NoteInit, Init, Live, Rows
<1>2. QED BY <1>1 DEF NoteInit, Init, NoteInv, NoteAt, NoNote, NothingPassedUnheard

(* Compaction takes messages out of the conversation and brings none back, *)
(* and a new one is the newest.                                            *)
LEMMA LiveOfStep ==
    ASSUME IInv, CopiesInv, [Next]_vars
    PROVE  \/ Live(rows') \subseteq Live(rows) /\ written' = written
           \/ Live(rows') \subseteq Live(rows) \cup {written + 1} /\ written' = written + 1
<1>1. CASE AppendRow BY <1>1, AppendCarries DEF AppendRow
<1>2. CASE Commit
  <2>1. rows = read /\ read \in Seq(RowType) /\ Len(read) > ProtectLast
    BY <1>2 DEF Commit, IInv, Types, SwapRows
  <2>2. /\ TailOf(read) \in Seq(RowType) /\ Len(TailOf(read)) = ProtectLast
        /\ \A i \in DOMAIN TailOf(read) :
              /\ TailOf(read)[i] = read[Len(read) - ProtectLast + i]
              /\ Len(read) - ProtectLast + i \in DOMAIN read
    BY <2>1, TailFacts, SizesAssumption
  <2>3. ASSUME NEW r \in Rows(rows'), r.kind = "message" PROVE r \in Rows(rows)
    <3>1. PICK i \in DOMAIN rows' : r = rows'[i] BY DEF Rows
    <3>2. SummaryRow.kind # "message" /\ PreservedRow(Blob).kind # "message"
      BY DEF SummaryRow, PreservedRow
    <3>3. \/ i = 1 /\ rows'[i] = SummaryRow
          \/ i = 2 /\ rows'[i] = PreservedRow(Blob)
          \/ \E k \in DOMAIN TailOf(read) : rows'[i] = TailOf(read)[k]
      <4>1. CASE flushOk
        <5>1. rows' = <<SummaryRow>> \o <<>> \o TailOf(read) BY <1>2, <4>1 DEF Commit
        <5>2. \/ i = 1 /\ rows'[i] = SummaryRow
              \/ (i - 1 \in DOMAIN TailOf(read) /\ rows'[i] = TailOf(read)[i - 1])
          BY <2>2, <5>1, <3>1
        <5>3. QED BY <5>2
      <4>2. CASE ~flushOk
        <5>1. rows' = <<SummaryRow>> \o <<PreservedRow(Blob)>> \o TailOf(read)
          BY <1>2, <4>2 DEF Commit
        <5>2. \/ i = 1 /\ rows'[i] = SummaryRow
              \/ i = 2 /\ rows'[i] = PreservedRow(Blob)
              \/ (i - 2 \in DOMAIN TailOf(read) /\ rows'[i] = TailOf(read)[i - 2])
          BY <2>2, <5>1, <3>1
        <5>3. QED BY <5>2
      <4>3. QED BY <4>1, <4>2
    <3>4. QED BY <2>1, <2>2, <2>3, <3>1, <3>2, <3>3 DEF Rows
  <2>4. Live(rows') \subseteq Live(rows)
    BY <2>3 DEF Live
  <2>5. QED BY <1>2, <2>4 DEF Commit
<1>3. CASE rows' = rows /\ written' = written BY <1>3
<1>4. QED
  BY <1>1, <1>2, <1>3
  DEF Next, Compact, Begin, GiveUp, Checkpoint, Prune, MemoryFlush, Reread, OpenSwap,
      CheckpointFails, CountChanged, Rollback, Crash, OwnAppend, ForeignAppend, vars

(* A set of messages that were written has a newest one. *)
LEMMA NewestExists ==
    ASSUME NEW S \in SUBSET Nat, NEW n \in Nat, S \subseteq 1 .. n, S # {}
    PROVE  Max(S) \in S /\ \A x \in S : x <= Max(S)
<1> DEFINE above == {k \in Nat : \A x \in S : x <= k}
<1>1. n \in above
  <2>1. \A x \in S : x <= n OBVIOUS
  <2>2. QED BY <2>1
<1>2. \E k \in above : \A l \in above : ~(<<l, k>> \in OpToRel(<, Nat))
  <2>1. above \subseteq Nat /\ above # {} BY <1>1
  <2> HIDE DEF above
  <2>2. QED BY <2>1, NatLessThanWellFounded, WFMin, Zenon
<1>3. PICK k \in above : \A l \in above : ~(l < k)
  <2>1. PICK k \in above : \A l \in above : ~(<<l, k>> \in OpToRel(<, Nat)) BY <1>2
  <2>2. above \subseteq Nat OBVIOUS
  <2>3. \A l \in above : ~(l < k) BY <2>1, <2>2 DEF OpToRel
  <2>4. QED BY <2>3
<1>4. k \in S
  <2> SUFFICES ASSUME k \notin S PROVE FALSE OBVIOUS
  <2>0. k \in Nat /\ \A x \in S : x \in Nat /\ x >= 1 /\ x <= k /\ x # k
    BY <1>3
  <2>1. \A x \in S : x < k /\ x \in Nat /\ x >= 1
    BY <2>0
  <2>2. k \in Nat /\ k >= 1
    <3>1. PICK x \in S : TRUE OBVIOUS
    <3>2. x < k /\ x \in Nat /\ k \in Nat BY <2>0, <2>1
    <3>3. QED BY <3>2
  <2>3. k - 1 \in above
    <3>1. k - 1 \in Nat BY <2>2
    <3>2. \A x \in S : x <= k - 1 BY <2>1, <2>2
    <3>3. QED BY <3>1, <3>2
  <2>4. QED BY <1>3, <2>2, <2>3
<1>5. \A x \in S : k >= x BY <1>3
<1>6. Max(S) \in S /\ \A x \in S : Max(S) >= x
  BY <1>4, <1>5 DEF Max
<1>7. QED BY <1>6

LEMMA NoteInvStep == IInv /\ CopiesInv /\ NoteInv /\ [NoteNext]_allVars => NoteInv'
<1> SUFFICES ASSUME IInv, CopiesInv, NoteInv, [NoteNext]_allVars PROVE NoteInv' OBVIOUS
<1> USE DEF NoteAt, NothingPassedUnheard
<1>0. written \in Nat /\ cursor \in Nat /\ cursor <= written
      /\ \A m \in Live(rows) : m \in Nat /\ m <= written /\ m >= 1
  BY DEF NoteInv
<1>1. CASE AskNote
  <2>1. UNCHANGED <<rows, written, cursor, heard>> /\ note' = [at |-> "ask", about |-> Pending]
        /\ Pending # {}
    BY <1>1 DEF AskNote, NoteDue, vars
  <2>2. Pending \subseteq Live(rows) /\ (\A m \in Live(rows) : m \in Pending \/ m <= cursor)
    BY <1>0 DEF Pending
  <2>3. note'.about = Pending /\ note'.at = "ask" BY <2>1
  <2>4. QED BY <2>1, <2>2, <2>3 DEF NoteInv
<1>2. CASE AnswerHasNotes
  <2>1. UNCHANGED <<rows, written, cursor, heard>> /\ note.at = "ask" /\ note # NoNote
        /\ note' = [note EXCEPT !.at = "append"]
    BY <1>2 DEF AnswerHasNotes, vars, NoNote
  <2>2. note'.about = note.about /\ note'.at = "append"
    BY <2>1 DEF NoteInv
  <2>3. QED BY <2>1, <2>2 DEF NoteInv
<1>3. CASE Heard
  <2>1. UNCHANGED <<rows, written, cursor>> /\ note.at \in {"ask", "append"} /\ note # NoNote
        /\ note' = [note EXCEPT !.at = "cursor"] /\ heard' = heard \cup note.about
    BY <1>3 DEF Heard, vars, NoNote
  <2>2. note'.about = note.about /\ note'.at = "cursor"
    BY <2>1 DEF NoteInv
  <2>3. QED BY <2>1, <2>2 DEF NoteInv
<1>4. CASE NoteFails \/ NoteCrash
  <2>1. UNCHANGED <<rows, written, cursor, heard>> /\ note' = NoNote
    BY <1>4 DEF NoteFails, NoteCrash, vars
  <2>2. QED BY <2>1 DEF NoteInv, NoNote
<1>5. CASE AdvanceCursor
  <2>1. UNCHANGED <<rows, written, heard>> /\ note' = NoNote /\ cursor' = Max(note.about)
        /\ note.at = "cursor" /\ note # NoNote
    BY <1>5 DEF AdvanceCursor, vars, NoNote
  <2>2. note.about # {} /\ note.about \subseteq 1 .. written /\ note.about \subseteq heard
    BY <2>1 DEF NoteInv
  <2>3. cursor' \in note.about /\ \A n \in note.about : n <= cursor'
    <3>1. note.about \in SUBSET Nat /\ written \in Nat BY <2>2, <1>0
    <3>2. QED BY <2>1, <2>2, <3>1, NewestExists
  <2>4. cursor' \in 0 .. written /\ cursor' \in Nat BY <1>0, <2>2, <2>3
  <2>5. ASSUME NEW m \in Live(rows), m <= cursor' PROVE m \in heard
    <3>1. m \in note.about \/ m <= cursor \/ \A n \in note.about : n < m
      BY <2>1 DEF NoteInv
    <3>2. CASE m \in note.about BY <3>2, <2>2
    <3>3. CASE m <= cursor BY <3>3 DEF NoteInv
    <3>4. CASE \A n \in note.about : n < m
      BY <3>4, <2>3, <2>4, <2>5, <1>0
    <3>5. QED BY <3>1, <3>2, <3>3, <3>4
  <2>6. QED BY <2>1, <2>4, <2>5 DEF NoteInv, NoNote
<1>6. CASE UNCHANGED noteVars /\ [Next]_vars
  <2>1. UNCHANGED <<cursor, note, heard>> BY <1>6 DEF noteVars
  <2>2. CASE Live(rows') \subseteq Live(rows) /\ written' = written
    BY <2>1, <2>2 DEF NoteInv
  <2>3. CASE Live(rows') \subseteq Live(rows) \cup {written + 1} /\ written' = written + 1
    <3>1. \A n \in note.about : n < written + 1
      BY <1>0 DEF NoteInv
    <3>2. ~(written + 1 <= cursor) BY <1>0
    <3>3. Live(rows') \subseteq 1 .. written' /\ cursor' \in 0 .. written' /\ written' \in Nat
          /\ note'.about \subseteq 1 .. written'
      BY <1>0, <2>1, <2>3 DEF NoteInv
    <3>4. QED BY <2>1, <2>3, <3>1, <3>2, <3>3 DEF NoteInv
  <2>4. QED BY <1>6, <2>2, <2>3, LiveOfStep
<1>7. CASE UNCHANGED allVars
  BY <1>7 DEF allVars, vars, noteVars, NoteInv
<1>8. QED
  BY <1>1, <1>2, <1>3, <1>4, <1>5, <1>6, <1>7
  DEF NoteNext, MaybeDailyNote, Next, allVars

(* _maybe_daily_note: no message of the conversation is passed by the      *)
(* cursor unheard, whatever another process writes while the model answers *)
(* and wherever the loop ends.                                             *)
THEOREM NotesHearAll == NoteSpec => []NothingPassedUnheard
<1>1. NoteInv => NothingPassedUnheard BY DEF NoteInv
<1>2. [NoteNext]_allVars => [Next]_vars BY NoteStepIsCompaction
<1>3. NoteInit => IInv /\ CopiesInv /\ NoteInv
  BY InitInv, CopiesInit, NoteInvInit DEF NoteInit
<1>4. QED
  BY <1>1, <1>2, <1>3, StepInv, CopiesStep, NoteInvStep, PTL DEF NoteSpec
=============================================================================
