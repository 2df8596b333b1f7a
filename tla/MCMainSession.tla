-------------------------- MODULE MCMainSession --------------------------
(* Two channels, the main session and one group room.                    *)
EXTENDS MainSession, TLC

CONSTANTS tg, dc, room

Symmetry == Permutations({tg, dc})
=============================================================================
