------------------------------ MODULE GoalLoop ------------------------------
(***************************************************************************)
(* The goal of a channel loop (runtime/goal.py; runtime/loop.py,           *)
(* _handle_goal, _goal_turn and run), composed with the turns of ToolTurn: *)
(* while a goal is active the loop takes a turn of its own whenever no     *)
(* message waits.  The goal itself is in memory only; current.json, which  *)
(* all loops of the workspace share, mirrors it for `faff status`.         *)
(***************************************************************************)
EXTENDS ToolTurn

CONSTANT GoalTurns    \* GoalState.max_turns

ASSUME GoalAssumption == GoalTurns \in Nat \ {0}

VARIABLES
    goal,      \* _goal: whether it is active, and then its turn_count
    inGoal,    \* the turn in progress is the goal's
    mirrored   \* current.json is this loop's, and its process lives

goalVars == <<goal, inGoal, mirrored>>
loopVars == <<vars, goalVars>>

NoGoal == [active |-> FALSE, count |-> 0]

GoalInit ==
    /\ Init
    /\ goal = NoGoal
    /\ inGoal = FALSE
    /\ mirrored = FALSE

(* _persist_goal: without a goal of one's own, whatever is there goes.     *)
PersistGoal == mirrored' = goal'.active

(* To all that look, a goal that is not active is none.                   *)
EndGoal == goal' = NoGoal /\ PersistGoal

-----------------------------------------------------------------------------
(* /goal: handle_goal_command and _persist_goal                            *)

Command(dirty) ==
    /\ pc = "idle"
    /\ hist' = IF dirty THEN log ELSE hist
    /\ apart' = (apart /\ ~dirty)
    /\ UNCHANGED <<log, pc, turnVars, ids, turns, faults, torn, inGoal>>

(* The bound leaves an active goal its turns. *)
Reserved == IF goal.active THEN GoalTurns - goal.count ELSE 0

StartGoal(dirty) ==
    /\ ~goal.active
    /\ turns + GoalTurns <= MaxTurns
    /\ Command(dirty)
    /\ goal' = [active |-> TRUE, count |-> 0]
    /\ PersistGoal

StopGoal(dirty) ==
    /\ goal.active
    /\ Command(dirty)
    /\ EndGoal

(* Its status, a second goal, which is refused, or nothing to do. *)
AskGoal(dirty) ==
    /\ Command(dirty)
    /\ UNCHANGED goal
    /\ PersistGoal

GoalCommand == \E dirty \in BOOLEAN : StartGoal(dirty) \/ StopGoal(dirty) \/ AskGoal(dirty)

-----------------------------------------------------------------------------
(* Turns, of the user and of the goal *)

(* A message goes before the goal's next turn. *)
UserTurn(dirty) ==
    /\ turns + Reserved < MaxTurns
    /\ Inbound(dirty)
    /\ UNCHANGED goalVars

GoalTurn(dirty) ==
    /\ goal.active
    /\ goal.count < GoalTurns
    /\ Inbound(dirty)
    /\ inGoal' = TRUE
    /\ UNCHANGED <<goal, mirrored>>

GoalExhausted ==
    /\ pc = "idle"
    /\ goal.active
    /\ goal.count >= GoalTurns
    /\ EndGoal
    /\ UNCHANGED <<vars, inGoal>>

(* Mutant: the run loop catches the exception and goes on with the goal. *)
FailedAndGoesOn ==
    /\ inGoal' = FALSE
    /\ UNCHANGED <<goal, mirrored>>

(* An exception ends the goal in run, if it comes out of a goal's turn, and*)
(* so does a model that is configured wrong, after the prompt is stored.   *)
Failed ==
    /\ inGoal' = FALSE
    /\ IF inGoal THEN EndGoal ELSE UNCHANGED <<goal, mirrored>>

GoalConfigError(dirty) ==
    /\ pc = "idle"
    /\ goal.active
    /\ goal.count < GoalTurns
    /\ turns < MaxTurns
    /\ turns' = turns + 1
    /\ log' = Append(log, User)
    /\ hist' = Append(IF dirty THEN log ELSE hist, User)
    /\ apart' = (apart /\ ~dirty)
    /\ EndGoal
    /\ UNCHANGED <<pc, turnVars, ids, faults, torn, inGoal>>

Rounds ==
    \/ Complete /\ pc' # "idle" /\ UNCHANGED goalVars
    \/ AnswerFails /\ Failed

(* The turn is counted, and a text may hold GOAL_DONE_TOKEN. *)
TurnDone ==
    /\ EndTurn \/ \E flushed \in BOOLEAN : CompactAfter(flushed)
    /\ inGoal' = FALSE
    /\ IF inGoal
       THEN \/ goal' = [goal EXCEPT !.count = @ + 1] /\ PersistGoal
            \/ EndGoal
       ELSE UNCHANGED <<goal, mirrored>>

-----------------------------------------------------------------------------
(* Faults, and the other loops *)

(* A write that the store refuses: the prompt of a goal's turn too. *)
WriteFails ==
    \E m \in BeingWritten :
        /\ StoreFails(m)
        /\ \/ Failed
           \/ pc = "idle" /\ goal.active /\ EndGoal /\ UNCHANGED inGoal

LoopEnds ==
    /\ Crash
    /\ goal' = NoGoal
    /\ inGoal' = FALSE
    /\ mirrored' = FALSE

(* Another channel's loop persists its goal, or that it has none, when it  *)
(* has the session's lock.                                                 *)
OtherLoop ==
    /\ pc = "idle"
    /\ mirrored' = FALSE
    /\ UNCHANGED <<vars, goal, inGoal>>

-----------------------------------------------------------------------------
GoalLoopStep ==
    \/ EnsureDb /\ UNCHANGED goalVars
    \/ \E dirty \in BOOLEAN : GoalTurn(dirty) \/ GoalConfigError(dirty)
    \/ GoalExhausted
    \/ Rounds \/ TurnDone

GoalNext ==
    \/ GoalLoopStep
    \/ GoalCommand
    \/ \E dirty \in BOOLEAN : UserTurn(dirty)
    \/ WriteFails \/ LoopEnds \/ OtherLoop
    \/ ManualMainJob /\ UNCHANGED goalVars

(* The loop's thread runs, as in ToolTurn, and now also when nobody writes.*)
GoalSpec == GoalInit /\ [][GoalNext]_loopVars /\ WF_loopVars(GoalLoopStep)

-----------------------------------------------------------------------------
(* An agent that works on its own stops: once the user leaves it alone, a  *)
(* goal is done, used up or given up, whatever the model, the tools and    *)
(* the store do, and `faff status` does not go on showing it.  A turn that *)
(* raises is not counted, so this rests on its ending the goal.            *)
GoalEnds == goal.active ~> ~goal.active /\ ~mirrored
=============================================================================
