----------------------------- MODULE Reminders -----------------------------
(***************************************************************************)
(* What the user is promised of the one-shots in jobs.json (docs/          *)
(* operating.md, docs/architecture.md), with nothing of how the scheduler  *)
(* keeps it: an entry stays until it was said, and goes before it is said  *)
(* again.  Only the end of the process between the two takes a said one    *)
(* back to where it was.  An entry goes unsaid when the user takes it out, *)
(* when there is nothing to say or nobody to say it to, and when the user  *)
(* wrote it since the program last looked at the file.                     *)
(***************************************************************************)
EXTENDS Naturals

CONSTANT Id

VARIABLES
    entry,      \* "none", "pending" or "said"
    edited,     \* written by the user since the program last looked
    silent,     \* ids that have nothing to say, or nobody to say it to
    ends        \* ends of the process

vars == <<entry, edited, ends>>

Init ==
    /\ entry \in [Id -> {"none", "pending"}]
    /\ edited = {}
    /\ ends = 0

Becomes(j, state) == entry' = [entry EXCEPT ![j] = state]

(* The user asks for a reminder, changes it or takes it back. *)
Write(j) ==
    /\ \E state \in {"none", "pending"} : Becomes(j, state)
    /\ edited' = edited \cup {j}
    /\ UNCHANGED ends

Say(j) ==
    /\ entry[j] = "pending"
    /\ Becomes(j, "said")
    /\ UNCHANGED <<edited, ends>>

Settle(j) ==
    /\ entry[j] = "said"
    /\ Becomes(j, "none")
    /\ UNCHANGED <<edited, ends>>

GiveUp(j) ==
    /\ entry[j] = "pending"
    /\ j \in edited \cup silent
    /\ Becomes(j, "none")
    /\ UNCHANGED <<edited, ends>>

Look ==
    /\ edited' = {}
    /\ UNCHANGED <<entry, ends>>

End ==
    /\ ends' = ends + 1
    /\ entry' \in {entry, [j \in Id |-> IF entry[j] = "said" THEN "pending" ELSE entry[j]]}
    /\ UNCHANGED edited

Next ==
    \/ \E j \in Id : Write(j) \/ Say(j) \/ Settle(j) \/ GiveUp(j)
    \/ Look \/ End

Spec == Init /\ [][Next]_vars
=============================================================================
