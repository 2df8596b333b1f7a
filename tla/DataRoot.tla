------------------------------ MODULE DataRoot ------------------------------
(***************************************************************************)
(* The data root, and the commands that copy, replace or move all of it:   *)
(* `faff backup`, `faff restore`, the snapshot and rotation of             *)
(* `faff update`, and the move out of the checkout.  One command runs at a *)
(* time; the service goes on writing meanwhile; a command can be killed    *)
(* between any two of its steps.                                           *)
(*                                                                         *)
(* A directory is a function from the items in it to what they hold.       *)
(***************************************************************************)
EXTENDS Naturals, Sequences, Functions

CONSTANTS
    Beginnings,     \* what may be in the data root and in the checkout at first
    Exported,       \* keys in the environment of the operator's shell
    MaxSnapshots,   \* update.MAX_SNAPSHOTS
    MaxCommands, MaxKills, MaxWrites, MaxUpgrades \* bounds of the model

ASSUME DataRootAssumption ==
    /\ MaxSnapshots \in Nat \ {0}
    /\ {MaxCommands, MaxKills, MaxWrites, MaxUpgrades} \subseteq Nat

VARIABLES
    root,       \* the items of the data root
    dirs,       \* which of workspace/, state/ and extensions/ exist in it
    backups,    \* the tarballs in backups/, oldest first
    made,       \* how many tarballs there have ever been
    legacy,     \* the items of a data root inside the checkout
    nested,     \* items that were moved to <part>/<part>
    checkout,   \* what the checkout ships: a version, where its skill lives,
                \* and what its extension is for; and whether the image that
                \* was built of it has the package that a channel imports
    cmd,        \* the command that runs
    copied,     \* the staging directory of snapshot_data
    archive,    \* the tarball that is being restored
    replaced,   \* history: what restore and update took away, and when
    late,       \* history: what was written after the command looked at it
    halfway,    \* history: "restore" when one that began to clear has not ended,
                \* "apart" when config and extension need not belong together:
                \* in a move, and after a state-only tarball that enables one
    bounds      \* commands, kills, writes and upgrades so far

vars == <<root, dirs, backups, made, legacy, nested, checkout, cmd, copied, archive,
          replaced, late, halfway, bounds>>
history == <<replaced, late, halfway>>

Part ==
    [keys |-> "state", config |-> "state", db |-> "state",
     jobs |-> "workspace", notes |-> "workspace",
     skillOrigin |-> "workspace", skill |-> "workspace",
     skillNew |-> "workspace", skillOld |-> "workspace",
     extOrigin |-> "extensions", ext |-> "extensions", extBak |-> "extensions",
     requirements |-> "requirements"]
ItemsOf(p) == {i \in DOMAIN Part : Part[i] = p}

Empty == << >>
Has(i) == i \in DOMAIN root
Over(upper, lower) ==
    [i \in DOMAIN upper \cup DOMAIN lower |-> IF i \in DOMAIN upper THEN upper[i] ELSE lower[i]]
With(dir, i, content) == [j \in DOMAIN dir \cup {i} |-> IF j = i THEN content ELSE dir[j]]
Without(dir, items) == Restrict(dir, DOMAIN dir \ items)
Put(i, content) == root' = With(root, i, content)

Idle == [op |-> "none", at |-> "idle", force |-> FALSE, stateless |-> FALSE, left |-> {}, into |-> "root", key |-> "none"]
Running == cmd.op # "none"
At(step) == cmd.at = step
Goto(step) == cmd' = [cmd EXCEPT !.at = step]
Finish == cmd' = Idle

Counted(what, limit) ==
    /\ bounds[what] < limit
    /\ bounds' = [bounds EXCEPT ![what] = @ + 1]

(* Starting a command: nobody runs two at a time.                          *)
Begin(op, step) ==
    /\ ~Running
    /\ Counted("commands", MaxCommands)
    /\ cmd' = [Idle EXCEPT !.op = op, !.at = step]
    /\ late' = {}

(* What a command takes away is remembered with the number of the newest   *)
(* tarball, unless it was written behind the command's back; what a move   *)
(* takes out of the checkout, until the move is over.                      *)
Taken(items) ==
    {<<i, root[i], made, "saved">> : i \in {j \in items \cap DOMAIN root : <<j, root[j]>> \notin late}}
AfterMove == {r \in replaced : r[4] # "moved"}

Seen(items) == late' = {w \in late : w[1] \notin items}

(* Parts are cleared and moved one after the other. *)
FirstPart(items) ==
    IF ItemsOf("workspace") \cap items # {} THEN "workspace"
    ELSE IF ItemsOf("state") \cap items # {} THEN "state"
    ELSE IF ItemsOf("extensions") \cap items # {} THEN "extensions"
    ELSE "requirements"

-----------------------------------------------------------------------------
(* snapshot_data *)

(* Part by part into the staging directory; sessions.db by the backup API. *)
CopyPart(step, parts, next) ==
    LET items == UNION {ItemsOf(p) : p \in parts}
    IN /\ At(step)
       /\ copied' = Over(IF step = "copyState" THEN Empty ELSE copied,
                         Restrict(root, items \cap DOMAIN root))
       /\ Seen(items)
       /\ Goto(next)
       /\ UNCHANGED <<root, dirs, backups, made, legacy, nested, checkout, archive, replaced,
                      halfway, bounds>>

(* The tarball exists, empty, before it is written. *)
OpenTarball ==
    /\ At("tar")
    /\ backups' = Append(backups, [data |-> Empty, whole |-> FALSE, old |-> FALSE, half |-> halfway])
    /\ made' = made + 1
    /\ Goto("write")
    /\ UNCHANGED <<root, dirs, legacy, nested, checkout, copied, archive, history, bounds>>

WriteTarball ==
    /\ At("write")
    /\ backups' = [backups EXCEPT ![Len(backups)].data = copied, ![Len(backups)].whole = TRUE]
    /\ copied' = Empty
    /\ cmd' = CASE cmd.op = "backup" -> Idle
                [] cmd.op = "restore" -> [cmd EXCEPT !.at = "clear"]
                [] cmd.op = "update" -> [cmd EXCEPT !.at = "rotate"]
    /\ UNCHANGED <<root, dirs, made, legacy, nested, checkout, archive, history, bounds>>

SnapshotData ==
    \/ CopyPart("copyState", {"state"}, "copyWorkspace")
    \/ CopyPart("copyWorkspace", {"workspace"}, "copyRest")
    \/ CopyPart("copyRest", {"extensions", "requirements"}, "tar")
    \/ OpenTarball
    \/ WriteTarball

RunBackup ==
    /\ "state" \in dirs
    /\ Begin("backup", "copyState")
    /\ UNCHANGED <<root, dirs, backups, made, legacy, nested, checkout, copied, archive,
                   replaced, halfway>>

-----------------------------------------------------------------------------
(* run_restore *)

(* A tarball that is cut short is refused while its members are listed, so *)
(* before anything is touched.  The current data is saved unless forced.   *)
RunRestore(n, force) ==
    /\ backups[n].whole
    /\ ~Running
    /\ Counted("commands", MaxCommands)
    /\ cmd' = [Idle EXCEPT !.op = "restore", !.force = force, !.stateless = "state" \notin dirs,
                           !.at = IF "state" \in dirs /\ ~force THEN "copyState" ELSE "clear"]
    /\ late' = {}
    /\ archive' = backups[n]
    /\ UNCHANGED <<root, dirs, backups, made, legacy, nested, checkout, copied, replaced, halfway>>

(* A state-only tarball replaces state/ alone. *)
Target == IF archive.old THEN {"state"} ELSE {Part[i] : i \in DOMAIN Part}
ToClear == {i \in DOMAIN root : Part[i] \in Target}

(* What is in state/ is listed once: a file made there since may stay.     *)
MadeSince == {i \in ItemsOf("state") : \E w \in late : w[1] = i}

(* Entry by entry, and then the directory; state/ itself stays, for it may *)
(* hold checkpoints.                                                       *)
ClearItem ==
    /\ At("clear")
    /\ \E listed \in {ToClear, ToClear \ MadeSince} : \E i \in ItemsOf(FirstPart(listed)) \cap listed :
          /\ root' = Without(root, {i})
          /\ dirs' = IF Part[i] # "state" /\ ItemsOf(Part[i]) \cap ToClear = {i}
                     THEN dirs \ {Part[i]} ELSE dirs
          /\ replaced' = IF cmd.force \/ cmd.stateless THEN replaced ELSE replaced \cup Taken({i})
    /\ halfway' = IF halfway = "apart" THEN "apart" ELSE "restore"
    /\ UNCHANGED <<backups, made, legacy, nested, checkout, cmd, copied, archive, late, bounds>>

(* A config of the state-only layout knows nothing of the extension there. *)
Mixing == archive.old /\ "config" \in DOMAIN archive.data /\ archive.data["config"].enabled # "no"

(* Mutant: the tarball is extracted over what is there. *)
Merged ==
    /\ At("clear")
    /\ dirs' = dirs \cup {"state"}
    /\ cmd' = [cmd EXCEPT !.at = "extract", !.left = {i \in DOMAIN archive.data : Part[i] \in Target}]
    /\ halfway' = IF archive.half = "apart" \/ Mixing THEN "apart" ELSE "restore"
    /\ UNCHANGED <<root, backups, made, legacy, nested, checkout, copied, archive, replaced, late, bounds>>

Cleared ==
    /\ At("clear")
    /\ ToClear \subseteq MadeSince
    /\ dirs' = (dirs \ (Target \ {"state"})) \cup {"state"}
    /\ cmd' = [cmd EXCEPT !.at = "extract", !.left = {i \in DOMAIN archive.data : Part[i] \in Target}]
    /\ halfway' = IF archive.half = "apart" \/ Mixing THEN "apart" ELSE "restore"
    /\ UNCHANGED <<root, backups, made, legacy, nested, checkout, copied, archive, replaced, late, bounds>>

(* Members come in the order of their names. *)
TarOrder == <<"extOrigin", "ext", "extBak", "requirements", "keys", "config", "db", "jobs", "notes",
              "skillOrigin", "skill", "skillNew", "skillOld">>
NextMember == TarOrder[CHOOSE n \in DOMAIN TarOrder :
                           /\ TarOrder[n] \in cmd.left
                           /\ \A m \in 1..n - 1 : TarOrder[m] \notin cmd.left]

Extract ==
    /\ At("extract")
    /\ cmd.left # {}
    /\ Put(NextMember, archive.data[NextMember])
    /\ dirs' = dirs \cup ({Part[NextMember]} \ {"requirements"})
    /\ cmd' = [cmd EXCEPT !.left = @ \ {NextMember}]
    /\ UNCHANGED <<backups, made, legacy, nested, checkout, copied, archive, history, bounds>>

Restored ==
    /\ At("extract")
    /\ cmd.left = {}
    /\ halfway' = IF archive.half # "no" \/ Mixing THEN halfway ELSE "no"
    /\ Goto("restored")
    /\ UNCHANGED <<root, dirs, backups, made, legacy, nested, checkout, copied, archive, replaced,
                   late, bounds>>

EndRestore ==
    /\ At("restored")
    /\ Finish
    /\ UNCHANGED <<root, dirs, backups, made, legacy, nested, checkout, copied, archive, history, bounds>>

Restore ==
    \/ \E n \in DOMAIN backups, force \in BOOLEAN : RunRestore(n, force)
    \/ ClearItem \/ Cleared \/ Extract \/ Restored \/ EndRestore

-----------------------------------------------------------------------------
(* The first half of run_update: the move and the snapshot *)

Moving == {i \in DOMAIN legacy : Part[i] # "requirements"}

RunUpdate ==
    /\ "state" \in dirs \/ \E i \in DOMAIN legacy : Part[i] = "state"
    /\ Begin("update", IF "state" \in dirs THEN "copyState" ELSE "move")
    /\ UNCHANGED <<root, dirs, backups, made, legacy, nested, checkout, copied, archive,
                   replaced, halfway>>

MovePart == FirstPart(DOMAIN legacy)
ToMove == ItemsOf(MovePart) \cap DOMAIN legacy

(* shutil.move puts a directory inside a directory of its name, and fails  *)
(* if there is one inside already.                                         *)
StartMove ==
    /\ At("move")
    /\ Moving # {}
    /\ IF MovePart \notin dirs
       THEN cmd' = [cmd EXCEPT !.at = "moving", !.into = "root"] /\ UNCHANGED replaced
       ELSE IF ItemsOf(MovePart) \cap DOMAIN nested = {}
       THEN cmd' = [cmd EXCEPT !.at = "moving", !.into = "nested"] /\ UNCHANGED replaced
       ELSE Finish /\ replaced' = AfterMove
    /\ dirs' = dirs \cup {MovePart}
    /\ halfway' = "apart"
    /\ UNCHANGED <<root, backups, made, legacy, nested, checkout, copied, archive, late, bounds>>

Into(items) ==
    IF cmd.into = "root" THEN root' = Over(Restrict(legacy, items), root) /\ UNCHANGED nested
                         ELSE nested' = Over(Restrict(legacy, items), nested) /\ UNCHANGED root
There == IF cmd.into = "root" THEN DOMAIN root ELSE DOMAIN nested

(* Within a file system a move is one rename. *)
MoveByRename ==
    /\ At("moving")
    /\ There \cap ItemsOf(MovePart) = {}
    /\ Into(ToMove)
    /\ legacy' = Without(legacy, ToMove)
    /\ Goto("move")
    /\ UNCHANGED <<dirs, backups, made, checkout, copied, archive, history, bounds>>

(* Between two it is a copy, and then the removal of the original. *)
MoveByCopy ==
    /\ At("moving")
    /\ \E i \in ToMove \ There : Into({i})
    /\ UNCHANGED <<dirs, backups, made, legacy, checkout, cmd, copied, archive, history, bounds>>

RemoveMoved ==
    /\ At("moving")
    /\ ToMove \subseteq There
    /\ \E i \in ToMove :
          /\ legacy' = Without(legacy, {i})
          /\ replaced' = IF cmd.into = "root" /\ <<i, root[i]>> \in late THEN replaced
                         ELSE replaced \cup {<<i, legacy[i], made, "moved">>}
          /\ IF ToMove = {i} THEN Goto("move") ELSE UNCHANGED cmd
    /\ UNCHANGED <<root, dirs, backups, made, nested, checkout, copied, archive, late, halfway, bounds>>

(* requirements.extra.txt is a file, and a move overwrites a file. *)
Moved ==
    /\ At("move")
    /\ Moving = {}
    /\ root' = Over(legacy, root)
    /\ legacy' = Empty
    /\ halfway' = "no"
    /\ replaced' = AfterMove
    /\ Goto("copyState")
    /\ UNCHANGED <<dirs, backups, made, nested, checkout, copied, archive, late, bounds>>

(* Mutant: the newest tarballs are rotated out. *)
RotateNewest ==
    /\ At("rotate")
    /\ IF Len(backups) > MaxSnapshots
       THEN backups' = SubSeq(backups, 1, Len(backups) - 1) /\ UNCHANGED cmd
       ELSE Goto("sync") /\ UNCHANGED backups
    /\ UNCHANGED <<root, dirs, made, legacy, nested, checkout, copied, archive, history, bounds>>

(* Whole or cut short, made by update or by the operator: all count. *)
Rotate ==
    /\ At("rotate")
    /\ IF Len(backups) > MaxSnapshots
       THEN backups' = Tail(backups) /\ UNCHANGED cmd
       ELSE Goto("sync") /\ UNCHANGED backups
    /\ UNCHANGED <<root, dirs, made, legacy, nested, checkout, copied, archive, history, bounds>>

Update == RunUpdate \/ StartMove \/ MoveByRename \/ MoveByCopy \/ RemoveMoved \/ Moved \/ Rotate
=============================================================================
