---------------------------- MODULE AtomicFiles ----------------------------
(***************************************************************************)
(* What a small shared file promises to those who change it: every change  *)
(* is one operation applied to what the file holds at that moment, as if   *)
(* no other process were there.  Only a file that is loose can be damaged, *)
(* that is, changed in any other way.                                      *)
(***************************************************************************)
EXTENDS Naturals

CONSTANTS
    Operation,       \* what is done to a file: a record with the field file
    Outcome(_, _, _) \* what an operation makes of a content in a world

VARIABLES
    content, \* what each file holds
    damaged, \* the files that were changed in some other way
    loose,   \* the files to which that may happen
    world    \* the day, the version of the trusted file, the fresh id

atomicVars == <<content, damaged, loose, world>>

AtomicInit == damaged = {}

Others(f) == \A g \in DOMAIN content \ {f} : content'[g] = content[g]

(* What an operation takes from the world it took when it began. *)
Before(w) == [day : 0 .. w.day, version : 1 .. w.version, fresh : 0 .. w.fresh]

Change(o) ==
    /\ o.file \notin damaged
    /\ content'[o.file] # content[o.file]
    /\ \E w \in Before(world) : content'[o.file] = Outcome(o, content[o.file], w)
    /\ Others(o.file)
    /\ UNCHANGED damaged

Damage(f) ==
    /\ f \in damaged'
    /\ f \in loose \cup damaged
    /\ damaged' \subseteq damaged \cup {f}
    /\ Others(f)

(* Time passes, and operations of undamaged files begin and end unseen.    *)
Passes == UNCHANGED <<content, damaged>>

AtomicNext ==
    \/ Passes
    \/ \E f \in DOMAIN content : Damage(f)
    \/ \E o \in Operation : Change(o)

AtomicSpec == AtomicInit /\ [][AtomicNext]_atomicVars

=============================================================================
