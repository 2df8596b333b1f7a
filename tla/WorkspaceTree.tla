--------------------------- MODULE WorkspaceTree ---------------------------
(***************************************************************************)
(* The file tools of runtime/tools.py as functions of the workspace tree.  *)
(* A path is the sequence of its names, the workspace root the empty one;  *)
(* a cell says what is there.  Every handler checks and acts in one go and *)
(* returns the new tree and whether the call succeeded.                    *)
(*                                                                         *)
(* Paths are the resolved ones: names that leave the workspace, symbolic   *)
(* links (refused) and the case-insensitive match of an existing name are  *)
(* left out, and so is what the answers say.                               *)
(***************************************************************************)
EXTENDS Integers, Sequences, FiniteSets

CONSTANTS
    Path,        \* the paths of the instance, the root among them
    Content,     \* what a file may hold
    Absent, Dir, \* the other cells
    Protected,   \* _PROTECTED_PATHS: config/jobs.json
    Operator,    \* what is under extensions/
    Misplaced    \* paths that begin with workspace/ or state/

Root == <<>>

Below(p) == {q \in Path : Len(q) > Len(p) /\ SubSeq(q, 1, Len(p)) = p}

Above(p) == {q \in Path : p \in Below(q)}

Parent(p) == SubSeq(p, 1, Len(p) - 1)

ASSUME PathAssumption ==
    /\ Path \subseteq Seq(STRING)
    /\ Root \in Path
    /\ \A p \in Path : \A n \in 0 .. Len(p) : SubSeq(p, 1, n) \in Path
ASSUME CellAssumption ==
    Absent # Dir /\ {Absent, Dir} \cap Content = {} /\ Content # {}
ASSUME ProtectedAssumption ==
    /\ Protected \subseteq Path \ {Root}
    /\ \A p \in Protected : Below(p) \cap Protected = {}

Cell == Content \cup {Absent, Dir}
Tree == [Path -> Cell]

Exists(t, p) == t[p] # Absent
IsDir(t, p) == t[p] = Dir
IsFile(t, p) == Exists(t, p) /\ ~IsDir(t, p)

(* A tree as the operating system keeps it. *)
WellFormed(t) ==
    /\ t[Root] = Dir
    /\ \A p \in Path : Exists(t, p) => \A q \in Above(p) : IsDir(t, q)

-----------------------------------------------------------------------------
Done(t) == [tree |-> t, ok |-> TRUE]
Failed(t) == [tree |-> t, ok |-> FALSE]

Writable(p) == p \notin Protected \cup Operator \cup Misplaced

ContainsProtected(p) == Below(p) \cap Protected # {}

(* Mutant: removal does not look for protected files inside. *)
RemovableBlindly(t, p) == Writable(p) /\ p # Root /\ Exists(t, p)

Removable(t, p) ==
    /\ Writable(p)
    /\ p # Root
    /\ Exists(t, p)
    /\ ~(IsDir(t, p) /\ ContainsProtected(p))

(* mkdir(parents=True, exist_ok=True) of the parent: it fails on a file,   *)
(* and then it has made nothing.                                           *)
CanMakeParents(t, p) == \A q \in Above(p) : ~IsFile(t, q)

WithParents(t, p) == [q \in Path |-> IF q \in Above(p) THEN Dir ELSE t[q]]

Without(t, p) == [q \in Path |-> IF q = p \/ q \in Below(p) THEN Absent ELSE t[q]]

(* What copying s to d puts at q, which is d or below it. *)
Twin(s, d, q) == s \o SubSeq(q, Len(d) + 1, Len(q))

Copied(t, s, d) ==
    [q \in Path |-> IF q = d \/ q \in Below(d)
                    THEN IF Twin(s, d, q) \in Path THEN t[Twin(s, d, q)] ELSE Absent
                    ELSE WithParents(t, d)[q]]

FileRead(t, p) == {Failed(t)} \cup (IF IsFile(t, p) THEN {Done(t)} ELSE {})

FileList(t, p) == {IF IsDir(t, p) THEN Done(t) ELSE Failed(t)}

FileSearch(t, p) == {Failed(t)} \cup (IF IsDir(t, p) THEN {Done(t)} ELSE {})

FileWrite(t, p, c) ==
    {IF Writable(p) /\ CanMakeParents(t, p) /\ ~IsDir(t, p)
     THEN Done([WithParents(t, p) EXCEPT ![p] = c])
     ELSE Failed(t)}

(* An edit whose old text is not there exactly once fails. *)
FileEdit(t, p, c) ==
    {Failed(t)} \cup
    (IF Writable(p) /\ IsFile(t, p) THEN {Done([t EXCEPT ![p] = c])} ELSE {})

(* _source_and_destination *)
PairAllowed(t, s, d) ==
    /\ Exists(t, s)
    /\ Writable(d)
    /\ ~Exists(t, d)
    /\ ~(IsDir(t, s) /\ (d = s \/ d \in Below(s)))

FileCopy(t, s, d) ==
    {IF PairAllowed(t, s, d) /\ CanMakeParents(t, d)
     THEN Done(Copied(t, s, d))
     ELSE Failed(t)}

FileMove(t, s, d) ==
    {IF PairAllowed(t, s, d) /\ Removable(t, s) /\ CanMakeParents(t, d)
     THEN Done(Without(Copied(t, s, d), s))
     ELSE Failed(t)}

FileDelete(t, p, recursive) ==
    {IF Removable(t, p) /\ (recursive \/ \A q \in Below(p) : ~Exists(t, q))
     THEN Done(Without(t, p))
     ELSE Failed(t)}

-----------------------------------------------------------------------------
(* A subprocess may do to the tree what it likes: write a file, make a     *)
(* directory, remove something.                                            *)
Outside(t) ==
    {[t EXCEPT ![p] = c] :
        p \in {q \in Path \ {Root} : IsDir(t, Parent(q)) /\ ~IsDir(t, q)},
        c \in Content \cup {Dir}}
    \cup {Without(t, p) : p \in Path \ {Root}}

=============================================================================
