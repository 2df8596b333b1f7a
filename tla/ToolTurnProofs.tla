-------------------------- MODULE ToolTurnProofs --------------------------
(***************************************************************************)
(* Theorems about ToolTurn and GoalLoop, for every budget, size of the     *)
(* protected tail, number of goal turns and number of faults.              *)
(***************************************************************************)
EXTENDS GoalLoop, NaturalsInduction, SequenceTheorems, WellFoundedInduction, TLAPS

(* What was asked and dispatched is within what was counted. *)
Counted ==
    /\ {calls, tools, asked, ran} \subseteq Nat
    /\ asked <= calls /\ asked <= MaxCalls
    /\ ran <= tools /\ ran <= MaxTools

LEMMA CountedInit == Init => Counted
  BY BudgetAssumption DEF Init, Counted

(* One step: either the counters are left, or start afresh, or one of them *)
(* is raised under its guard.                                              *)
LEMMA CountedStep == Counted /\ [Next]_vars => Counted'
  <1> SUFFICES ASSUME Counted, [Next]_vars
               PROVE  Counted'
    OBVIOUS
  <1> USE BudgetAssumption DEF Counted
  <1>1. ASSUME Ask, UNCHANGED <<tools, ran>>
        PROVE  Counted'
    BY <1>1 DEF Ask, MayAsk
  <1>2. ASSUME tools < MaxTools, tools' = tools + 1, ran' \in {ran, ran + 1},
               UNCHANGED <<calls, asked>>
        PROVE  Counted'
    BY <1>2
  <1>3. ASSUME tools' = tools + 1, UNCHANGED <<ran, calls, asked>>
        PROVE  Counted'
    BY <1>3
  <1>4. ASSUME calls' = calls + 1, UNCHANGED <<tools, ran, asked>>
        PROVE  Counted'
    BY <1>4
  <1>5. ASSUME NEW dirty \in BOOLEAN, Inbound(dirty)
        PROVE  Counted'
    BY <1>5 DEF Inbound
  <1>6. ASSUME UNCHANGED <<calls, tools, asked, ran>>
        PROVE  Counted'
    BY <1>6
  <1>7. ASSUME Complete
        PROVE  Counted'
    <2>1. CASE OutOfTime \/ GiveUpEmpty \/ KillCall \/ BatchDone
      BY <2>1, <1>6 DEF OutOfTime, GiveUpEmpty, KillCall, BatchDone, turnVars
    <2>2. CASE OutOfCalls
      BY <2>2, <1>4 DEF OutOfCalls
    <2>3. CASE AnswerText \/ AnswerEmpty \/ AnswerFails
      BY <2>3, <1>1 DEF AnswerText, AnswerEmpty, AnswerFails
    <2>4. CASE \E n \in 1 .. MaxBatch : AnswerCalls(n)
      BY <2>4, <1>1 DEF AnswerCalls
    <2>5. CASE \E flushed \in BOOLEAN : EmergencyCompact(flushed)
      BY <2>5, <1>1 DEF EmergencyCompact
    <2>6. CASE DispatchCall
      BY <2>6, <1>2 DEF DispatchCall
    <2>7. CASE BlockCall \/ RefuseCall \/ KillBatch
      BY <2>7, <1>3 DEF BlockCall, RefuseCall, KillBatch
    <2> QED
      BY <1>7, <2>1, <2>2, <2>3, <2>4, <2>5, <2>6, <2>7 DEF Complete
  <1>8. ASSUME EnsureDb \/ EndTurn \/ \E flushed \in BOOLEAN : CompactAfter(flushed)
        PROVE  Counted'
    BY <1>8, <1>6 DEF EnsureDb, EndTurn, CompactAfter, turnVars
  <1>9. ASSUME Fault
        PROVE  Counted'
    BY <1>9, <1>6 DEF Fault, StoreFails, Crash, ManualMainJob, turnVars
  <1>10. CASE UNCHANGED vars
    BY <1>10, <1>6 DEF vars, turnVars
  <1> QED
    BY <1>5, <1>7, <1>8, <1>9, <1>10 DEF Next, LoopStep

(* _complete: whatever the model answers and however often the turn        *)
(* compacts, retries or is refused, it asks at most MAX_LLM_CALLS_PER_TURN *)
(* times and dispatches at most MAX_TOOL_CALLS_PER_TURN calls.             *)
THEOREM WithinBudget == Spec => []TurnBudget
  <1>1. Counted => TurnBudget
    BY DEF Counted, TurnBudget
  <1> QED
    BY <1>1, CountedInit, CountedStep, PTL DEF Spec

-----------------------------------------------------------------------------
(* A loop that has read its history holds the store's, at every step.      *)
Mirrored == pc # "off" /\ ~apart => hist = log

LEMMA MirroredStep == Mirrored /\ [Next]_vars => Mirrored'
  <1> SUFFICES ASSUME Mirrored, [Next]_vars
               PROVE  Mirrored'
    OBVIOUS
  <1> USE DEF Mirrored
  <1>1. ASSUME pc # "off", UNCHANGED apart, UNCHANGED <<log, hist>>
        PROVE  Mirrored'
    BY <1>1
  <1>2. ASSUME pc # "off", UNCHANGED apart, NEW m, Persist(m)
        PROVE  Mirrored'
    BY <1>2 DEF Persist
  <1>3. ASSUME NEW dirty \in BOOLEAN, Inbound(dirty)
        PROVE  Mirrored'
    BY <1>3 DEF Inbound
  <1>4. ASSUME NEW flushed \in BOOLEAN, DoCompact(flushed)
        PROVE  Mirrored'
    BY <1>4 DEF DoCompact
  <1>5. ASSUME Complete
        PROVE  Mirrored'
    <2>1. CASE OutOfTime \/ OutOfCalls \/ KillBatch \/ BatchDone
      BY <2>1, <1>1 DEF OutOfTime, OutOfCalls, KillBatch, BatchDone
    <2>2. CASE AnswerEmpty \/ AnswerFails
      BY <2>2, <1>1 DEF AnswerEmpty, AnswerFails, Ask, MayAsk
    <2>3. CASE AnswerText \/ GiveUpEmpty
      BY <2>3, <1>2 DEF AnswerText, GiveUpEmpty, Ask, MayAsk
    <2>4. CASE \E n \in 1 .. MaxBatch : AnswerCalls(n)
      BY <2>4, <1>2 DEF AnswerCalls, Ask, MayAsk
    <2>5. CASE \E flushed \in BOOLEAN : EmergencyCompact(flushed)
      BY <2>5, <1>4 DEF EmergencyCompact
    <2>6. CASE DispatchCall \/ BlockCall \/ RefuseCall \/ KillCall
      BY <2>6, <1>2 DEF DispatchCall, BlockCall, RefuseCall, KillCall, Answer
    <2> QED
      BY <1>5, <2>1, <2>2, <2>3, <2>4, <2>5, <2>6 DEF Complete
  <1>6. ASSUME LoopStep
        PROVE  Mirrored'
    BY <1>1, <1>4, <1>5, <1>6 DEF LoopStep, EnsureDb, EndTurn, CompactAfter
  <1>7. ASSUME Fault
        PROVE  Mirrored'
    BY <1>7 DEF Fault, StoreFails, Crash, ManualMainJob, Goto
  <1>8. CASE UNCHANGED vars
    BY <1>8 DEF vars
  <1> QED
    BY <1>3, <1>6, <1>7, <1>8 DEF Next

(* _complete, _do_compact and _turn: the copy in memory leaves the store's *)
(* history only when a write failed or another process wrote.              *)
THEOREM MemoryMirrorsStore == Spec => []MemoryIsTheStore
  <1>1. Init => Mirrored
    BY DEF Init, Mirrored
  <1>2. Mirrored => MemoryIsTheStore
    BY DEF Mirrored, MemoryIsTheStore
  <1> QED
    BY <1>1, <1>2, MirroredStep, PTL DEF Spec


-----------------------------------------------------------------------------
(* The loop with its goal (GoalLoop) *)

(* With a goal, the loop does what a loop without one does, but for the    *)
(* /goal command, which may reload the history, and the prompt of a goal's *)
(* turn that a configuration error ends before it asks.                    *)
LEMMA GoalSteps ==
    ASSUME [GoalNext]_loopVars
    PROVE  \/ [Next]_vars
           \/ \E dirty \in BOOLEAN : Command(dirty) \/ GoalConfigError(dirty)
  <1>1. CASE UNCHANGED loopVars
    BY <1>1 DEF loopVars
  <1>2. CASE GoalLoopStep
    <2>1. CASE EnsureDb /\ UNCHANGED goalVars
      BY <2>1 DEF Next, LoopStep
    <2>2. CASE \E dirty \in BOOLEAN : GoalTurn(dirty) \/ GoalConfigError(dirty)
      BY <2>2 DEF GoalTurn, Next
    <2>3. CASE GoalExhausted
      BY <2>3 DEF GoalExhausted
    <2>4. CASE Rounds
      BY <2>4 DEF Rounds, Complete, Next, LoopStep
    <2>5. CASE TurnDone
      BY <2>5 DEF TurnDone, Next, LoopStep
    <2> QED
      BY <1>2, <2>1, <2>2, <2>3, <2>4, <2>5 DEF GoalLoopStep
  <1>3. CASE GoalCommand
    BY <1>3 DEF GoalCommand, StartGoal, StopGoal, AskGoal
  <1>4. CASE \E dirty \in BOOLEAN : UserTurn(dirty)
    BY <1>4 DEF UserTurn, Next
  <1>5. CASE WriteFails \/ LoopEnds \/ (ManualMainJob /\ UNCHANGED goalVars)
    BY <1>5 DEF WriteFails, LoopEnds, Next, Fault
  <1>6. CASE OtherLoop
    BY <1>6 DEF OtherLoop
  <1> QED
    BY <1>1, <1>2, <1>3, <1>4, <1>5, <1>6 DEF GoalNext

LEMMA CountedGoalStep == Counted /\ [GoalNext]_loopVars => Counted'
  <1> SUFFICES ASSUME Counted, [GoalNext]_loopVars
               PROVE  Counted'
    OBVIOUS
  <1>1. ASSUME NEW dirty \in BOOLEAN, Command(dirty) \/ GoalConfigError(dirty)
        PROVE  UNCHANGED <<calls, tools, asked, ran>>
    BY <1>1 DEF Command, GoalConfigError, turnVars
  <1>2. ASSUME UNCHANGED <<calls, tools, asked, ran>>
        PROVE  Counted'
    BY <1>2 DEF Counted
  <1> QED
    BY <1>1, <1>2, GoalSteps, CountedStep

LEMMA MirroredGoalStep == Mirrored /\ [GoalNext]_loopVars => Mirrored'
  <1> SUFFICES ASSUME Mirrored, [GoalNext]_loopVars
               PROVE  Mirrored'
    OBVIOUS
  <1>1. ASSUME NEW dirty \in BOOLEAN, Command(dirty)
        PROVE  Mirrored'
    BY <1>1 DEF Command, Mirrored
  <1>2. ASSUME NEW dirty \in BOOLEAN, GoalConfigError(dirty)
        PROVE  Mirrored'
    BY <1>2 DEF GoalConfigError, Mirrored
  <1> QED
    BY <1>1, <1>2, GoalSteps, MirroredStep

(* A goal's turns keep to the same budgets, each of them, and so do the    *)
(* user's turns between them.                                              *)
THEOREM GoalWithinBudget == GoalSpec => []TurnBudget
  <1>1. GoalInit => Counted
    BY CountedInit DEF GoalInit
  <1>2. Counted => TurnBudget
    BY DEF Counted, TurnBudget
  <1> QED
    BY <1>1, <1>2, CountedGoalStep, PTL DEF GoalSpec

(* Nor does a goal, its commands or its failed prompts part the copy in    *)
(* memory from the store's history.                                        *)
THEOREM GoalMirrorsStore == GoalSpec => []MemoryIsTheStore
  <1>1. GoalInit => Mirrored
    BY DEF GoalInit, Init, Mirrored
  <1>2. Mirrored => MemoryIsTheStore
    BY DEF Mirrored, MemoryIsTheStore
  <1> QED
    BY <1>1, <1>2, MirroredGoalStep, PTL DEF GoalSpec

-----------------------------------------------------------------------------
(* Numbers and sequences *)

LEMMA LeastExists ==
    ASSUME NEW S \in SUBSET Nat, S # {}
    PROVE  \E m \in S : \A s \in S : m <= s
<1>1. PICK m \in S : \A s \in S : ~(<<s, m>> \in OpToRel(<, Nat))
  BY WFMin, NatLessThanWellFounded, Zenon
<1>2. \A s \in S : ~(s < m) BY <1>1 DEF OpToRel
<1>3. QED BY <1>2

LEMMA Joining ==
    ASSUME NEW S, NEW s \in Seq(S), NEW t \in Seq(S)
    PROVE  /\ s \o t \in Seq(S) /\ Len(s \o t) = Len(s) + Len(t)
           /\ \A k \in 1 .. Len(s) : (s \o t)[k] = s[k]
           /\ \A k \in 1 .. Len(t) : (s \o t)[Len(s) + k] = t[k]
OBVIOUS

(* How far the pieces of a sequence reach that have been joined.           *)
Reaches(P, n, f, at) ==
    /\ at[0] = 0
    /\ \A i \in 1 .. n :
          /\ f[i] = IF i = 1 THEN P[i] ELSE f[i - 1] \o P[i]
          /\ Len(f[i]) = at[i] /\ at[i] = at[i - 1] + Len(P[i])
          /\ \A j \in 1 .. i : \A k \in 1 .. Len(P[j]) : f[i][at[j - 1] + k] = P[j][k]

LEMMA JoinsExist ==
    ASSUME NEW S, NEW n \in Nat, NEW P \in [1 .. n -> Seq(S)]
    PROVE  \E f \in [1 .. n -> Seq(S)], at \in [0 .. n -> Nat] : Reaches(P, n, f, at)
<1> DEFINE Joined(m) == \E f \in [1 .. m -> Seq(S)], at \in [0 .. m -> Nat] : Reaches(P, m, f, at)
           Bad == {m \in 0 .. n : ~Joined(m)}
<1>0. SUFFICES Joined(n) OBVIOUS
<1> HIDE DEF Joined
<1>1. SUFFICES ASSUME Bad # {} PROVE FALSE
  <2>1. n \in 0 .. n OBVIOUS
  <2>2. QED BY <2>1
<1>2. PICK m \in Bad : \A b \in Bad : m <= b
  <2>1. Bad \in SUBSET Nat OBVIOUS
  <2>2. QED BY <1>1, <2>1, LeastExists
<1>3. m \in 0 .. n /\ ~Joined(m) OBVIOUS
<1>3a. m \in Nat BY <1>3
<1> HIDE DEF Bad
<1>4. CASE m = 0
  <2> DEFINE f == [i \in 1 .. 0 |-> <<>>]
             at == [i \in 0 .. 0 |-> 0]
  <2>1. f \in [1 .. 0 -> Seq(S)] /\ at \in [0 .. 0 -> Nat] OBVIOUS
  <2>2. Reaches(P, 0, f, at) BY DEF Reaches
  <2>3. Joined(0) BY <2>1, <2>2 DEF Joined
  <2>4. QED BY <1>3, <1>4, <2>3
<1>5. CASE m # 0
  <2>1. m \in Nat /\ m - 1 \in 0 .. n /\ m \in 1 .. n BY <1>3, <1>5
  <2>2. Joined(m - 1)
    <3>1. m - 1 \notin Bad BY <1>2, <2>1
    <3>2. QED BY <2>1, <3>1 DEF Bad
  <2>3. PICK f \in [1 .. m - 1 -> Seq(S)], at \in [0 .. m - 1 -> Nat] : Reaches(P, m - 1, f, at)
    BY <2>2 DEF Joined
  <2> DEFINE last == IF m = 1 THEN P[m] ELSE f[m - 1] \o P[m]
             g == [i \in 1 .. m |-> IF i = m THEN last ELSE f[i]]
             to == [i \in 0 .. m |-> IF i = m THEN at[m - 1] + Len(P[m]) ELSE at[i]]
  <2>4. P[m] \in Seq(S) /\ Len(P[m]) \in Nat /\ at[m - 1] \in Nat BY <2>1
  <2>5. last \in Seq(S) /\ (m # 1 => f[m - 1] \in Seq(S) /\ Len(f[m - 1]) = at[m - 1])
    <3>1. CASE m = 1 BY <2>4, <3>1
    <3>2. CASE m # 1
      <4>1. m - 1 \in 1 .. m - 1 BY <2>1, <3>2
      <4>2. f[m - 1] \in Seq(S) /\ Len(f[m - 1]) = at[m - 1] BY <2>3, <4>1 DEF Reaches
      <4>3. QED BY <2>4, <3>2, <4>2
    <3>3. QED BY <3>1, <3>2
  <2>6. Len(last) = at[m - 1] + Len(P[m])
    <3>1. CASE m = 1 BY <2>3, <2>4, <3>1 DEF Reaches
    <3>2. CASE m # 1
      <4>1. last = f[m - 1] \o P[m] BY <3>2
      <4>2. f[m - 1] \in Seq(S) /\ Len(f[m - 1]) = at[m - 1] BY <2>5, <3>2
      <4> HIDE DEF last
      <4>3. PICK a \in Seq(S), b \in Seq(S) : a = f[m - 1] /\ b = P[m] BY <2>4, <4>2
      <4>4. last = a \o b /\ Len(a) = at[m - 1] BY <4>1, <4>2, <4>3
      <4>5. /\ Len(a \o b) = Len(a) + Len(b)
            /\ \A k \in 1 .. Len(a) : (a \o b)[k] = a[k]
            /\ \A k \in 1 .. Len(b) : (a \o b)[Len(a) + k] = b[k]
        BY Joining
      <4>6. QED BY <4>3, <4>4, <4>5
    <3>3. QED BY <3>1, <3>2
  <2>7. \A k \in 1 .. Len(P[m]) : last[at[m - 1] + k] = P[m][k]
    <3>1. CASE m = 1 BY <2>3, <2>4, <3>1 DEF Reaches
    <3>2. CASE m # 1
      <4>1. last = f[m - 1] \o P[m] BY <3>2
      <4>2. f[m - 1] \in Seq(S) /\ Len(f[m - 1]) = at[m - 1] BY <2>5, <3>2
      <4> HIDE DEF last
      <4>3. PICK a \in Seq(S), b \in Seq(S) : a = f[m - 1] /\ b = P[m] BY <2>4, <4>2
      <4>4. last = a \o b /\ Len(a) = at[m - 1] BY <4>1, <4>2, <4>3
      <4>5. /\ Len(a \o b) = Len(a) + Len(b)
            /\ \A k \in 1 .. Len(a) : (a \o b)[k] = a[k]
            /\ \A k \in 1 .. Len(b) : (a \o b)[Len(a) + k] = b[k]
        BY Joining
      <4>6. QED BY <4>3, <4>4, <4>5
    <3>3. QED BY <3>1, <3>2
  <2>8. ASSUME m # 1, NEW j \in 1 .. m - 1, NEW k \in 1 .. Len(P[j])
        PROVE  last[at[j - 1] + k] = P[j][k]
    <3>1. m - 1 \in 1 .. m - 1 BY <2>1, <2>8
    <3>2. f[m - 1][at[j - 1] + k] = P[j][k] BY <2>3, <3>1 DEF Reaches
    <3>3. at[j - 1] + k \in 1 .. Len(f[m - 1])
      <4> DEFINE Short == {i \in j .. m - 1 : at[j] > at[i]}
      <4>1. Short = {}
        <5>1. SUFFICES ASSUME Short # {} PROVE FALSE OBVIOUS
        <5>2. Short \in SUBSET Nat BY <2>1
        <5>3. PICK i \in Short : \A s \in Short : i <= s BY <5>1, <5>2, LeastExists
        <5>4. i \in j .. m - 1 /\ at[j] > at[i] /\ i # j
          <6>1. at[j] \in Nat BY <2>1
          <6>2. QED BY <6>1
        <5>5. i - 1 \in j .. m - 1 /\ i \in 1 .. m - 1 BY <2>1, <5>4
        <5>6. i - 1 \notin Short BY <5>3, <5>5
        <5>7. at[i] = at[i - 1] + Len(P[i]) BY <2>3, <5>5 DEF Reaches
        <5>8. P[i] \in Seq(S) /\ at[i] \in Nat /\ at[i - 1] \in Nat /\ at[j] \in Nat BY <2>1, <5>5
        <5>9. Len(P[i]) \in Nat BY <5>8
        <5>10. QED BY <5>4, <5>5, <5>6, <5>7, <5>8, <5>9
      <4>2. at[j] <= at[m - 1]
        <5>1. m - 1 \in j .. m - 1 BY <2>1
        <5>2. m - 1 \notin Short BY <4>1
        <5>3. at[j] \in Nat /\ at[m - 1] \in Nat BY <2>1
        <5>4. QED BY <5>1, <5>2, <5>3
      <4>3. at[j] = at[j - 1] + Len(P[j]) /\ at[j - 1] \in Nat /\ at[j] \in Nat
        <5>1. at[j] = at[j - 1] + Len(P[j]) BY <2>3 DEF Reaches
        <5>2. j \in 0 .. m - 1 /\ j - 1 \in 0 .. m - 1 BY <2>1
        <5>3. QED BY <5>1, <5>2
      <4>4. P[j] \in Seq(S) BY <2>1
      <4>5. Len(P[j]) \in Nat BY <4>4
      <4>6. QED BY <2>5, <2>8, <4>2, <4>3, <4>5
    <3>4. at[j - 1] + k \in 1 .. Len(f[m - 1]) => last[at[j - 1] + k] = f[m - 1][at[j - 1] + k]
      <4>1. last = f[m - 1] \o P[m] BY <2>8
      <4>2. f[m - 1] \in Seq(S) /\ Len(f[m - 1]) = at[m - 1] BY <2>5, <2>8
      <4> HIDE DEF last
      <4>3. PICK a \in Seq(S), b \in Seq(S) : a = f[m - 1] /\ b = P[m] BY <2>4, <4>2
      <4>4. last = a \o b /\ Len(a) = at[m - 1] BY <4>1, <4>2, <4>3
      <4>5. /\ Len(a \o b) = Len(a) + Len(b)
            /\ \A i \in 1 .. Len(a) : (a \o b)[i] = a[i]
            /\ \A i \in 1 .. Len(b) : (a \o b)[Len(a) + i] = b[i]
        BY Joining
      <4>6. QED BY <4>3, <4>4, <4>5
    <3>5. QED BY <3>2, <3>3, <3>4
  <2> HIDE DEF last
  <2>9. g \in [1 .. m -> Seq(S)]
    <3>1. \A i \in 1 .. m : i # m => i \in 1 .. m - 1 BY <2>1
    <3>2. QED BY <2>3, <2>5, <3>1
  <2>10. to \in [0 .. m -> Nat]
    <3>1. \A i \in 0 .. m : i # m => i \in 0 .. m - 1 BY <2>1
    <3>2. at[m - 1] + Len(P[m]) \in Nat BY <2>4
    <3>3. QED BY <2>3, <3>1, <3>2
  <2>11. /\ g[m] = last /\ to[m] = at[m - 1] + Len(P[m])
         /\ \A i \in 1 .. m - 1 : g[i] = f[i]
         /\ \A i \in 0 .. m - 1 : to[i] = at[i]
    BY <2>1
  <2> HIDE DEF g, to
  <2>12. to[0] = 0 BY <2>1, <2>3, <2>11 DEF Reaches
  <2>13. ASSUME NEW i \in 1 .. m
         PROVE  /\ g[i] = IF i = 1 THEN P[i] ELSE g[i - 1] \o P[i]
                /\ Len(g[i]) = to[i] /\ to[i] = to[i - 1] + Len(P[i])
                /\ \A j \in 1 .. i : \A k \in 1 .. Len(P[j]) : g[i][to[j - 1] + k] = P[j][k]
    <3>1. CASE i # m
      <4>1. i \in 1 .. m - 1 /\ i - 1 \in 0 .. m - 1 /\ (i # 1 => i - 1 \in 1 .. m - 1)
        BY <2>1, <3>1
      <4>2. /\ f[i] = IF i = 1 THEN P[i] ELSE f[i - 1] \o P[i]
            /\ Len(f[i]) = at[i] /\ at[i] = at[i - 1] + Len(P[i])
            /\ \A j \in 1 .. i : \A k \in 1 .. Len(P[j]) : f[i][at[j - 1] + k] = P[j][k]
        BY <2>3, <4>1 DEF Reaches
      <4>3. \A j \in 1 .. i : to[j - 1] = at[j - 1] BY <2>1, <2>11, <4>1
      <4>4. g[i] = f[i] /\ to[i] = at[i] /\ to[i - 1] = at[i - 1] BY <2>11, <4>1
      <4>5. i # 1 => g[i - 1] = f[i - 1] BY <2>11, <4>1
      <4>6. QED BY <4>2, <4>3, <4>4, <4>5
    <3>2. CASE i = m
      <4>1. g[i] = IF i = 1 THEN P[i] ELSE g[i - 1] \o P[i]
        <5>1. m # 1 => g[m - 1] = f[m - 1] BY <2>1, <2>11
        <5>2. QED BY <2>11, <3>2, <5>1 DEF last
      <4>2. to[i - 1] = at[m - 1] BY <2>1, <2>11, <3>2
      <4>3. Len(g[i]) = to[i] /\ to[i] = to[i - 1] + Len(P[i]) BY <2>6, <2>11, <3>2, <4>2
      <4>4. ASSUME NEW j \in 1 .. i, NEW k \in 1 .. Len(P[j])
            PROVE  g[i][to[j - 1] + k] = P[j][k]
        <5>1. CASE j = m BY <2>7, <2>11, <3>2, <4>2, <5>1
        <5>2. CASE j # m
          <6>1. m # 1 /\ j \in 1 .. m - 1 /\ j - 1 \in 0 .. m - 1 BY <2>1, <3>2, <5>2
          <6>2. to[j - 1] = at[j - 1] BY <2>11, <6>1
          <6>3. QED BY <2>8, <2>11, <3>2, <6>1, <6>2
        <5>3. QED BY <5>1, <5>2
      <4>5. QED BY <4>1, <4>3, <4>4
    <3>3. QED BY <3>1, <3>2
  <2>14. Reaches(P, m, g, to) BY <2>12, <2>13 DEF Reaches
  <2>15. Joined(m) BY <2>9, <2>10, <2>14 DEF Joined
  <2>16. QED BY <1>3, <2>15
<1>6. QED BY <1>4, <1>5

(* FlattenSeq puts every piece where the ones before it end.               *)
Laid(P, n, q, at) ==
    /\ at[0] = 0 /\ at[n] = Len(q)
    /\ \A i \in 1 .. n :
          /\ at[i] = at[i - 1] + Len(P[i])
          /\ \A k \in 1 .. Len(P[i]) : q[at[i - 1] + k] = P[i][k]

LEMMA Flattened ==
    ASSUME NEW S, NEW n \in Nat, NEW P \in [1 .. n -> Seq(S)]
    PROVE  /\ FlattenSeq(P) \in Seq(S)
           /\ \E at \in [0 .. n -> Nat] : Laid(P, n, FlattenSeq(P), at)
<1>1. PICK f \in [1 .. n -> Seq(S)], at \in [0 .. n -> Nat] : Reaches(P, n, f, at)
  BY JoinsExist
<1>2. P \in Seq(Seq(S)) /\ Len(P) = n OBVIOUS
<1>3. CASE n = 0
  <2>1. FlattenSeq(P) = P BY <1>2, <1>3 DEF FlattenSeq
  <2>2. P = <<>> BY <1>2, <1>3
  <2>3. Laid(P, n, <<>>, at) BY <1>1, <1>3 DEF Reaches, Laid
  <2>4. QED BY <2>1, <2>2, <2>3
<1>4. CASE n # 0
  <2> DEFINE Whole(h) == h = [i \in 1 .. n |-> IF i = 1 THEN P[i] ELSE h[i - 1] \o P[i]]
             g == CHOOSE h : Whole(h)
  <2>1. FlattenSeq(P) = g[n]
    <3>1. Len(P) # 0 BY <1>2, <1>4
    <3>2. FlattenSeq(P) = (CHOOSE h : h = [i \in 1 .. Len(P) |->
                              IF i = 1 THEN P[i] ELSE h[i - 1] \o P[i]])[Len(P)]
      BY <3>1, Zenon DEF FlattenSeq
    <3>3. QED BY <1>2, <3>2
  <2>2. Whole(f)
    <3>1. \A i \in 1 .. n : f[i] = IF i = 1 THEN P[i] ELSE f[i - 1] \o P[i]
      BY <1>1 DEF Reaches
    <3>2. QED BY <3>1
  <2>3. Whole(g)
    <3> HIDE DEF Whole
    <3>1. QED BY <2>2, Zenon
  <2>4. \A i \in 1 .. n : g[i] = IF i = 1 THEN P[i] ELSE g[i - 1] \o P[i]
    <3> HIDE DEF g
    <3>1. QED BY <2>3
  <2> HIDE DEF g, Whole
  <2>5. g[n] = f[n]
    <3> DEFINE Other == {i \in 1 .. n : g[i] # f[i]}
    <3>1. SUFFICES ASSUME Other # {} PROVE FALSE
      <4>1. n \in 1 .. n BY <1>4
      <4>2. QED BY <4>1
    <3>2. Other \in SUBSET Nat OBVIOUS
    <3>3. PICK i \in Other : \A j \in Other : i <= j BY <3>1, <3>2, LeastExists
    <3>4. i \in 1 .. n /\ g[i] # f[i] OBVIOUS
    <3>5. f[i] = IF i = 1 THEN P[i] ELSE f[i - 1] \o P[i] BY <1>1, <3>4 DEF Reaches
    <3>6. g[i] = IF i = 1 THEN P[i] ELSE g[i - 1] \o P[i] BY <2>4, <3>4
    <3>7. i # 1 BY <3>4, <3>5, <3>6
    <3>8. i - 1 \in 1 .. n /\ i - 1 \notin Other BY <3>3, <3>4, <3>7
    <3>9. g[i - 1] = f[i - 1] BY <3>8
    <3>10. QED BY <3>4, <3>5, <3>6, <3>7, <3>9
  <2>6. n \in 1 .. n BY <1>4
  <2>7. f[n] \in Seq(S) BY <2>6
  <2>8. Laid(P, n, f[n], at)
    <3>1. at[0] = 0 /\ at[n] = Len(f[n]) BY <1>1, <2>6 DEF Reaches
    <3>2. \A i \in 1 .. n : at[i] = at[i - 1] + Len(P[i]) BY <1>1 DEF Reaches
    <3>3. \A j \in 1 .. n : \A k \in 1 .. Len(P[j]) : f[n][at[j - 1] + k] = P[j][k]
      BY <1>1, <2>6 DEF Reaches
    <3>4. QED BY <3>1, <3>2, <3>3 DEF Laid
  <2>9. FlattenSeq(P) = f[n] BY <2>1, <2>5
  <2>10. QED BY <2>7, <2>8, <2>9
<1>5. QED BY <1>3, <1>4

InPiece(P, q, at, i, p) ==
    \E k \in 1 .. Len(P[i]) : p = at[i - 1] + k /\ q[p] = P[i][k]

(* Every place of the whole is a place of one of the pieces.               *)
LEMMA PieceOf ==
    ASSUME NEW S, NEW n \in Nat, NEW P \in [1 .. n -> Seq(S)],
           NEW q \in Seq(S), NEW at \in [0 .. n -> Nat], Laid(P, n, q, at),
           NEW p \in 1 .. at[n]
    PROVE  \E i \in 1 .. n : InPiece(P, q, at, i, p)
<1> DEFINE Reach == {i \in 0 .. n : p <= at[i]}
<1>1. Reach \in SUBSET Nat /\ n \in Reach OBVIOUS
<1>2. PICK i \in Reach : \A j \in Reach : i <= j BY <1>1, LeastExists
<1>3. i \in 0 .. n /\ p <= at[i] OBVIOUS
<1>4. i # 0 BY <1>3 DEF Laid
<1>5. i \in 1 .. n /\ i - 1 \in 0 .. n /\ i - 1 \notin Reach BY <1>2, <1>3, <1>4
<1>6. at[i - 1] \in Nat /\ at[i - 1] < p BY <1>5
<1>7. at[i] = at[i - 1] + Len(P[i]) BY <1>5 DEF Laid
<1>8. P[i] \in Seq(S) BY <1>5
<1>9. Len(P[i]) \in Nat BY <1>8
<1>10. p - at[i - 1] \in 1 .. Len(P[i]) BY <1>3, <1>6, <1>7, <1>9
<1>11. q[at[i - 1] + (p - at[i - 1])] = P[i][p - at[i - 1]] BY <1>5, <1>10 DEF Laid
<1>12. p = at[i - 1] + (p - at[i - 1]) BY <1>6
<1>13. QED BY <1>5, <1>10, <1>11, <1>12 DEF InPiece

Singles(P, i, m) == \A k \in 0 .. m : Len(P[i + k]) = 1

Alongside(P, q, at, i, m) ==
    /\ at[i + m] = at[i - 1] + 1 + m
    /\ \A k \in 0 .. m : q[at[i - 1] + 1 + k] = P[i + k][1]

(* Pieces of one that stand side by side stay so.                          *)
LEMMA SideBySide ==
    ASSUME NEW S, NEW n \in Nat, NEW P \in [1 .. n -> Seq(S)],
           NEW q \in Seq(S), NEW at \in [0 .. n -> Nat], Laid(P, n, q, at),
           NEW i \in 1 .. n, NEW m \in Nat, i + m <= n,
           Singles(P, i, m)
    PROVE  Alongside(P, q, at, i, m)
<1>0. \A k \in 0 .. m : Len(P[i + k]) = 1 BY DEF Singles
<1> DEFINE Off == {k \in 0 .. m : at[i + k] # at[i - 1] + 1 + k}
<1>1. Off = {}
  <2>1. SUFFICES ASSUME Off # {} PROVE FALSE OBVIOUS
  <2>2. Off \in SUBSET Nat OBVIOUS
  <2>3. PICK k \in Off : \A j \in Off : k <= j BY <2>1, <2>2, LeastExists
  <2>4. k \in 0 .. m /\ at[i + k] # at[i - 1] + 1 + k OBVIOUS
  <2>5. i + k \in 1 .. n /\ (i + k) - 1 = i + (k - 1) BY <2>4
  <2>6. at[i + k] = at[(i + k) - 1] + 1 BY <1>0, <2>4, <2>5 DEF Laid
  <2>7. at[i - 1] \in Nat /\ at[(i + k) - 1] \in Nat BY <2>5
  <2>8. k # 0 BY <2>4, <2>6, <2>7
  <2>9. k - 1 \in 0 .. m /\ k - 1 \notin Off BY <2>3, <2>4, <2>8
  <2>10. at[i + (k - 1)] = at[i - 1] + 1 + (k - 1) BY <2>9
  <2> HIDE DEF Off
  <2>11. at[(i + k) - 1] = at[i + (k - 1)] BY <2>5
  <2>12. k \in Nat BY <2>4
  <2>13. at[i + k] = (at[i - 1] + 1 + (k - 1)) + 1 BY <2>6, <2>10, <2>11
  <2>14. (at[i - 1] + 1 + (k - 1)) + 1 = at[i - 1] + 1 + k BY <2>7, <2>12
  <2>15. QED BY <2>4, <2>13, <2>14
<1>2. \A k \in 0 .. m : at[i + k] = at[i - 1] + 1 + k BY <1>1
<1> HIDE DEF Off
<1>3. at[i + m] = at[i - 1] + 1 + m BY <1>2
<1>4. ASSUME NEW k \in 0 .. m PROVE q[at[i - 1] + 1 + k] = P[i + k][1]
  <2>1. i + k \in 1 .. n /\ 1 \in 1 .. Len(P[i + k])
    <3>1. Len(P[i + k]) = 1 BY <1>0
    <3>2. 1 \in 1 .. Len(P[i + k]) BY <3>1
    <3>3. QED BY <3>2
  <2>2. q[at[(i + k) - 1] + 1] = P[i + k][1] BY <2>1 DEF Laid
  <2>3. at[(i + k) - 1] = at[i - 1] + k
    <3>1. CASE k = 0 BY <3>1
    <3>2. CASE k # 0
      <4>1. k - 1 \in 0 .. m /\ (i + k) - 1 = i + (k - 1) BY <3>2
      <4>2. at[i + (k - 1)] = at[i - 1] + 1 + (k - 1) BY <1>2, <4>1
      <4>3. at[i - 1] \in Nat OBVIOUS
      <4>4. QED BY <4>1, <4>2, <4>3
    <3>3. QED BY <3>1, <3>2
  <2>4. at[i - 1] \in Nat OBVIOUS
  <2>5. (at[i - 1] + k) + 1 = at[i - 1] + 1 + k BY <2>4
  <2>6. QED BY <2>2, <2>3, <2>5
<1>5. QED BY <1>3, <1>4 DEF Alongside

LEMMA GreatestExists ==
    ASSUME NEW N \in Nat, NEW S \in SUBSET (1 .. N), S # {}
    PROVE  \E m \in S : \A j \in S : j <= m
<1> DEFINE Down == {k \in 0 .. N : N - k \in S}
<1>1. Down \in SUBSET Nat /\ Down # {}
  <2>1. PICK i \in S : i \in 1 .. N OBVIOUS
  <2>2. N - i \in 0 .. N /\ N - (N - i) = i BY <2>1
  <2>3. N - i \in Down BY <2>2
  <2>4. Down # {} BY <2>3
  <2>5. Down \in SUBSET Nat OBVIOUS
  <2>6. QED BY <2>4, <2>5
<1>2. PICK k \in Down : \A j \in Down : k <= j BY <1>1, LeastExists
<1>3. k \in 0 .. N /\ N - k \in S OBVIOUS
<1>4. ASSUME NEW j \in S PROVE j <= N - k
  <2>1. j \in 1 .. N OBVIOUS
  <2>2. N - j \in 0 .. N /\ N - (N - j) = j BY <2>1
  <2>3. N - j \in Down BY <2>2
  <2>4. k <= N - j BY <1>2, <2>3
  <2>5. QED BY <1>3, <2>1, <2>4
<1>5. QED BY <1>3, <1>4

(* The pieces end one after the other.                                     *)
LEMMA Rising ==
    ASSUME NEW S, NEW n \in Nat, NEW P \in [1 .. n -> Seq(S)],
           NEW q \in Seq(S), NEW at \in [0 .. n -> Nat], Laid(P, n, q, at), NEW i \in 0 .. n
    PROVE  at[i] <= at[n]
<1> DEFINE Over == {k \in 0 .. n : k >= i /\ at[i] > at[k]}
<1>1. SUFFICES ASSUME Over # {} PROVE FALSE
  <2>1. n \in 0 .. n /\ n >= i OBVIOUS
  <2>2. at[i] \in Nat /\ at[n] \in Nat OBVIOUS
  <2>3. SUFFICES ASSUME n \notin Over PROVE at[i] <= at[n] OBVIOUS
  <2>4. ~(at[i] > at[n]) BY <2>1, <2>3
  <2>5. QED BY <2>2, <2>4
<1>2. Over \in SUBSET Nat OBVIOUS
<1>3. PICK k \in Over : \A j \in Over : k <= j BY <1>1, <1>2, LeastExists
<1>4. k \in 0 .. n /\ k >= i /\ at[i] > at[k] OBVIOUS
<1>5. at[i] \in Nat /\ at[k] \in Nat BY <1>4
<1>6. k # i BY <1>4, <1>5
<1>7. k \in 1 .. n /\ k - 1 \in 0 .. n /\ k - 1 >= i /\ k - 1 \notin Over BY <1>3, <1>4, <1>6
<1>8. at[k - 1] \in Nat /\ at[i] <= at[k - 1] BY <1>5, <1>7
<1>9. at[k] = at[k - 1] + Len(P[k]) BY <1>7 DEF Laid
<1>10. P[k] \in Seq(S) BY <1>7
<1>11. Len(P[k]) \in Nat BY <1>10
<1>12. QED BY <1>4, <1>5, <1>8, <1>9, <1>11

-----------------------------------------------------------------------------
(* Histories with their tool calls answered in place *)

(* No result makes calls. *)
Shaped == {m \in Message : m.role = "tool" => m.calls = <<>>}

(* The first n calls of q[i] are answered in their order, right after it.  *)
Group(q, i, n) == i + n <= Len(q) /\ \A k \in 1 .. n : q[i + k] = Result(q[i].calls[k])

(* Every call but those of a torn batch has its result.                    *)
Whole(q, T) ==
    \A i \in DOMAIN q : Ids(q[i]) \cap T = {} => Group(q, i, Len(q[i].calls))

(* Every result but those of a torn batch stands where its call wants it.  *)
Led(q, T) ==
    \A i \in DOMAIN q : q[i].role = "tool" /\ q[i].reply \notin T =>
        \E j \in 1 .. i - 1 : i - j <= Len(q[j].calls) /\ q[i].reply = q[j].calls[i - j]

Settled(q, T) == Whole(q, T) /\ Led(q, T)

(* A batch is torn as a whole. *)
Closed(q, T) == \A i \in DOMAIN q : Ids(q[i]) \cap T = {} \/ Ids(q[i]) \subseteq T

LEMMA Messages ==
    /\ \A m \in {User, System, Text} : m \in Shaped /\ m.role # "tool" /\ m.calls = <<>>
    /\ \A c \in Seq(Nat) : Calling(c) \in Shaped /\ Calling(c).role # "tool" /\ Calling(c).calls = c
    /\ \A id \in Nat : /\ Result(id) \in Shaped /\ Result(id).role = "tool"
                       /\ Result(id).calls = <<>> /\ Result(id).reply = id
<1>1. User \in Message /\ System \in Message /\ Text \in Message
  <2>1. User = [role |-> "user", calls |-> <<>>, reply |-> 0] BY DEF User, NoCall
  <2>2. System = [role |-> "system", calls |-> <<>>, reply |-> 0] BY <2>1 DEF System
  <2>3. Text = [role |-> "assistant", calls |-> <<>>, reply |-> 0] BY <2>1 DEF Text
  <2>4. <<>> \in Seq(Nat) OBVIOUS
  <2>5. QED BY <2>1, <2>2, <2>3, <2>4 DEF Message
<1>2. \A c \in Seq(Nat) : Calling(c) \in Message
  BY DEF Calling, User, Text, Message, NoCall
<1>3. \A id \in Nat : Result(id) \in Message
  <2>1. ASSUME NEW id \in Nat PROVE Result(id) \in Message
    <3>0. User = [role |-> "user", calls |-> <<>>, reply |-> 0] BY DEF User, NoCall
    <3>4. [User EXCEPT !.role = "tool"] = [role |-> "tool", calls |-> <<>>, reply |-> 0]
      BY <3>0
    <3>5. Result(id) = [[User EXCEPT !.role = "tool"] EXCEPT !.reply = id] BY DEF Result
    <3>1. Result(id) = [role |-> "tool", calls |-> <<>>, reply |-> id] BY <3>4, <3>5
    <3>2. <<>> \in Seq(Nat) OBVIOUS
    <3>3. QED BY <3>1, <3>2 DEF Message
  <2>2. QED BY <2>1
<1>4. /\ User.role = "user" /\ System.role = "system" /\ Text.role = "assistant"
      /\ User.calls = <<>> /\ System.calls = <<>> /\ Text.calls = <<>>
  BY DEF User, System, Text
<1>5. \A c \in Seq(Nat) : Calling(c).role = "assistant" /\ Calling(c).calls = c
  BY DEF Calling, User, Text
<1>6. \A id \in Nat : Result(id).role = "tool" /\ Result(id).calls = <<>> /\ Result(id).reply = id
  BY DEF Result, User
<1>7. \A m \in {User, System, Text} : m \in Shaped /\ m.role # "tool" /\ m.calls = <<>>
  BY <1>1, <1>4 DEF Shaped
<1>8. \A c \in Seq(Nat) : Calling(c) \in Shaped /\ Calling(c).role # "tool" /\ Calling(c).calls = c
  BY <1>2, <1>5 DEF Shaped
<1>9. \A id \in Nat : /\ Result(id) \in Shaped /\ Result(id).role = "tool"
                      /\ Result(id).calls = <<>> /\ Result(id).reply = id
  BY <1>3, <1>6 DEF Shaped
<1>10. QED BY <1>7, <1>8, <1>9

LEMMA CallsAre ==
    ASSUME NEW m \in Shaped
    PROVE  /\ m.calls \in Seq(Nat) /\ Len(m.calls) \in Nat
           /\ \A k \in 1 .. Len(m.calls) : m.calls[k] \in Ids(m) /\ m.calls[k] \in Nat
           /\ Ids(m) = {m.calls[k] : k \in 1 .. Len(m.calls)}
           /\ m.reply \in Nat
<1>1. m.calls \in Seq(Nat) /\ m.reply \in Nat BY DEF Shaped, Message
<1>2. DOMAIN m.calls = 1 .. Len(m.calls) /\ Len(m.calls) \in Nat BY <1>1
<1>3. Ids(m) = {m.calls[k] : k \in 1 .. Len(m.calls)} BY <1>2 DEF Ids
<1>4. \A k \in 1 .. Len(m.calls) : m.calls[k] \in Nat BY <1>1
<1>5. QED BY <1>1, <1>2, <1>3, <1>4

(* The error results that _strip_orphaned_tool_messages adds.              *)
LEMMA StubsAre ==
    ASSUME NEW q \in Seq(Shaped), NEW m \in Shaped
    PROVE  /\ Stubs(q, m) \in Seq(Shaped)
           /\ \A k \in 1 .. Len(Stubs(q, m)) : \E j \in 1 .. Len(m.calls) :
                 Stubs(q, m)[k] = Result(m.calls[j]) /\ m.calls[j] \notin RepliesIn(q)
           /\ (\A j \in 1 .. Len(m.calls) : m.calls[j] \in RepliesIn(q)) => Stubs(q, m) = <<>>
<1>1. PICK c \in Seq(Nat) : c = m.calls BY CallsAre
<1>2. PICK n \in Nat : n = Len(c) OBVIOUS
<1>3. DOMAIN c = 1 .. n BY <1>2
<1> DEFINE Stub(k) == IF c[k] \in RepliesIn(q) THEN <<>> ELSE <<Result(c[k])>>
<1>4. Stubs(q, m) = FlattenSeq([k \in 1 .. n |-> Stub(k)]) BY <1>1, <1>3 DEF Stubs
<1>12. ASSUME NEW k \in 1 .. n PROVE Stub(k) \in Seq(Shaped)
  <2>1. c[k] \in Nat BY <1>2
  <2>2. Result(c[k]) \in Shaped BY <2>1, Messages
  <2>3. QED BY <2>2
<1>5. PICK P \in [1 .. n -> Seq(Shaped)] : P = [k \in 1 .. n |-> Stub(k)]
  <2> HIDE DEF Stub
  <2>1. QED BY <1>12
<1>13. \A k \in 1 .. n : P[k] = Stub(k) BY <1>5
<1>6. PICK s \in Seq(Shaped) : s = FlattenSeq(P) BY Flattened
<1>7. PICK at \in [0 .. n -> Nat] : Laid(P, n, s, at) BY <1>6, Flattened
<1>8. at[n] = Len(s) BY <1>7 DEF Laid
<1>9. ASSUME NEW k \in 1 .. Len(s)
      PROVE  \E j \in 1 .. n : s[k] = Result(c[j]) /\ c[j] \notin RepliesIn(q)
  <2>1. PICK i \in 1 .. n : InPiece(P, s, at, i, k)
    <3>1. k \in 1 .. at[n] BY <1>8
    <3>2. QED BY <1>7, <3>1, PieceOf, Zenon
  <2>2. PICK d \in 1 .. Len(P[i]) : s[k] = P[i][d] BY <2>1 DEF InPiece
  <2>3. c[i] \notin RepliesIn(q) BY <1>13, <2>2
  <2>4. P[i] = <<Result(c[i])>> BY <1>13, <2>3
  <2>5. s[k] = Result(c[i]) BY <2>2, <2>4
  <2>6. QED BY <2>3, <2>5
<1>10. (\A j \in 1 .. n : c[j] \in RepliesIn(q)) => s = <<>>
  <2>1. SUFFICES ASSUME \A j \in 1 .. n : c[j] \in RepliesIn(q) PROVE s = <<>> OBVIOUS
  <2>2. 1 \notin 1 .. Len(s) BY <1>9, <2>1
  <2>3. Len(s) \in Nat OBVIOUS
  <2>4. Len(s) = 0 BY <2>2, <2>3
  <2>5. QED BY <2>4
<1>11. Stubs(q, m) = s BY <1>4, <1>5, <1>6
<1>14. \A k \in 1 .. Len(s) : \E j \in 1 .. Len(c) : s[k] = Result(c[j]) /\ c[j] \notin RepliesIn(q)
  BY <1>2, <1>9
<1> HIDE DEF Stub
<1>15. QED BY <1>1, <1>2, <1>10, <1>11, <1>14

-----------------------------------------------------------------------------
(* _strip_orphaned_tool_messages leaves settled what is settled. *)

Piece(q, i) == IF Answers(q, q[i]) THEN <<q[i]>> \o Stubs(q, q[i]) ELSE <<>>

IsStub(q, i, m) == \E j \in 1 .. Len(q[i].calls) :
    m = Result(q[i].calls[j]) /\ q[i].calls[j] \notin RepliesIn(q)

LEMMA PiecesAre ==
    ASSUME NEW q \in Seq(Shaped), NEW i \in 1 .. Len(q)
    PROVE  /\ Piece(q, i) \in Seq(Shaped)
           /\ \A k \in 1 .. Len(Piece(q, i)) :
                 \/ k = 1 /\ Piece(q, i)[k] = q[i]
                 \/ IsStub(q, i, Piece(q, i)[k])
           /\ Answers(q, q[i]) /\ (\A j \in 1 .. Len(q[i].calls) : q[i].calls[j] \in RepliesIn(q))
              => Piece(q, i) = <<q[i]>>
<1>1. PICK m \in Shaped : m = q[i] OBVIOUS
<1>2. PICK s \in Seq(Shaped) : s = Stubs(q, m) BY StubsAre
<1>3. /\ \A k \in 1 .. Len(s) : \E j \in 1 .. Len(m.calls) :
            s[k] = Result(m.calls[j]) /\ m.calls[j] \notin RepliesIn(q)
      /\ (\A j \in 1 .. Len(m.calls) : m.calls[j] \in RepliesIn(q)) => s = <<>>
  BY <1>2, StubsAre
<1>4. \A k \in 1 .. Len(s) : IsStub(q, i, s[k]) BY <1>1, <1>3 DEF IsStub
<1>5. CASE ~Answers(q, q[i])
  <2>1. Piece(q, i) = <<>> BY <1>5 DEF Piece
  <2>2. <<>> \in Seq(Shaped) /\ 1 .. Len(<<>>) = {} OBVIOUS
  <2>3. QED BY <1>5, <2>1, <2>2
<1>6. CASE Answers(q, q[i])
  <2>1. PICK a \in Seq(Shaped) : a = <<m>>
    <3>1. <<m>> \in Seq(Shaped) OBVIOUS
    <3>2. QED BY <3>1
  <2>2. Piece(q, i) = a \o s BY <1>1, <1>2, <1>6, <2>1 DEF Piece
  <2>3. Len(a) = 1 /\ a[1] = m BY <2>1
  <2>4. /\ a \o s \in Seq(Shaped) /\ Len(a \o s) = Len(a) + Len(s)
        /\ \A k \in 1 .. Len(a) : (a \o s)[k] = a[k]
        /\ \A k \in 1 .. Len(s) : (a \o s)[Len(a) + k] = s[k]
    BY Joining
  <2>5. PICK b \in Seq(Shaped) : b = a \o s BY <2>4
  <2>6. Len(s) \in Nat OBVIOUS
  <2>7. /\ Len(b) = 1 + Len(s) /\ b[1] = m
        /\ \A k \in 1 .. Len(s) : b[1 + k] = s[k]
    BY <2>3, <2>4, <2>5
  <2>8. ASSUME NEW k \in 1 .. Len(b)
        PROVE  (k = 1 /\ b[k] = q[i]) \/ IsStub(q, i, b[k])
    <3>1. CASE k = 1 BY <1>1, <2>7, <3>1
    <3>2. CASE k # 1
      <4>1. k - 1 \in 1 .. Len(s) /\ 1 + (k - 1) = k BY <2>6, <2>7, <3>2
      <4>2. b[k] = s[k - 1] BY <2>7, <4>1
      <4>3. IsStub(q, i, s[k - 1]) BY <1>4, <4>1
      <4>4. QED BY <4>2, <4>3
    <3>3. QED BY <3>1, <3>2
  <2>9. ASSUME \A j \in 1 .. Len(q[i].calls) : q[i].calls[j] \in RepliesIn(q)
        PROVE  b = <<q[i]>>
    <3>1. s = <<>> BY <1>1, <1>3, <2>9
    <3>2. b = a BY <2>1, <2>5, <3>1
    <3>3. QED BY <1>1, <2>1, <3>2
  <2>10. Piece(q, i) = b BY <2>2, <2>5
  <2>11. QED BY <2>8, <2>9, <2>10
<1>7. QED BY <1>5, <1>6

LEMMA GroupKept ==
    ASSUME NEW q \in Seq(Shaped), NEW i \in 1 .. Len(q), q[i].calls # <<>>,
           Group(q, i, Len(q[i].calls)), NEW k \in 0 .. Len(q[i].calls)
    PROVE  i + k \in 1 .. Len(q) /\ Piece(q, i + k) = <<q[i + k]>>
<1>1. PICK m \in Shaped : m = q[i] OBVIOUS
<1>2. PICK n \in Nat : n = Len(m.calls) BY CallsAre
<1>3. i + n <= Len(q) /\ \A j \in 1 .. n : q[i + j] = Result(m.calls[j])
  BY <1>1, <1>2 DEF Group
<1>4. \A j \in 1 .. n : i + j \in 1 .. Len(q) BY <1>3
<1>5. \A j \in 1 .. n : m.calls[j] \in Nat /\ m.calls[j] \in Ids(m) BY <1>2, CallsAre
<1>6. \A j \in 1 .. n : /\ q[i + j].role = "tool" /\ q[i + j].reply = m.calls[j]
                        /\ q[i + j].calls = <<>>
  BY <1>3, <1>5, Messages
<1>7. DOMAIN q = 1 .. Len(q) OBVIOUS
<1>8. \A j \in 1 .. n : m.calls[j] \in RepliesIn(q)
  <2>1. ASSUME NEW j \in 1 .. n PROVE m.calls[j] \in RepliesIn(q)
    <3>1. i + j \in DOMAIN q /\ q[i + j].role = "tool" /\ m.calls[j] = q[i + j].reply
      BY <1>4, <1>6, <1>7
    <3>2. QED BY <3>1 DEF RepliesIn
  <2>2. QED BY <2>1
<1>9. Ids(m) \subseteq CallsIn(q) BY <1>1, <1>7 DEF CallsIn
<1>10. CASE k = 0
  <2>1. i + k = i BY <1>10
  <2>2. m.role # "tool" BY <1>1 DEF Shaped
  <2>3. Answers(q, q[i]) BY <1>1, <2>2 DEF Answers
  <2>4. Piece(q, i) = <<q[i]>> BY <1>1, <1>2, <1>8, <2>3, PiecesAre
  <2>5. QED BY <2>1, <2>4
<1>11. CASE k # 0
  <2>1. k \in 1 .. n BY <1>1, <1>2, <1>11
  <2>2. PICK p \in 1 .. Len(q) : p = i + k BY <1>4, <2>1
  <2>3. q[p].reply \in CallsIn(q) BY <1>5, <1>6, <1>9, <2>1, <2>2
  <2>4. Answers(q, q[p]) BY <2>3 DEF Answers
  <2>5. q[p].calls = <<>> BY <1>6, <2>1, <2>2
  <2>6. 1 .. Len(q[p].calls) = {} BY <2>5
  <2>7. Piece(q, p) = <<q[p]>> BY <2>4, <2>6, PiecesAre
  <2>8. QED BY <2>2, <2>7
<1>12. QED BY <1>10, <1>11

LEMMA PiecesLaid ==
    ASSUME NEW q \in Seq(Shaped)
    PROVE  /\ StripOrphans(q) \in Seq(Shaped)
           /\ \E P \in [1 .. Len(q) -> Seq(Shaped)] : \E at \in [0 .. Len(q) -> Nat] :
                 /\ \A i \in 1 .. Len(q) : P[i] = Piece(q, i)
                 /\ Laid(P, Len(q), StripOrphans(q), at)
<1>1. PICK n \in Nat : n = Len(q) OBVIOUS
<1>2. DOMAIN q = 1 .. n BY <1>1
<1>3. StripOrphans(q) = FlattenSeq([i \in 1 .. n |-> Piece(q, i)])
  BY <1>2 DEF StripOrphans, Piece
<1>4. PICK P \in [1 .. n -> Seq(Shaped)] : P = [i \in 1 .. n |-> Piece(q, i)]
  <2>1. \A i \in 1 .. n : Piece(q, i) \in Seq(Shaped) BY <1>1, PiecesAre
  <2>2. QED BY <2>1
<1>5. FlattenSeq(P) = StripOrphans(q) BY <1>3, <1>4
<1>6. StripOrphans(q) \in Seq(Shaped) BY <1>5, Flattened
<1>7. PICK at \in [0 .. n -> Nat] : Laid(P, n, StripOrphans(q), at) BY <1>5, Flattened
<1>8. \A i \in 1 .. n : P[i] = Piece(q, i) BY <1>4
<1>9. QED BY <1>1, <1>6, <1>7, <1>8

(* The messages of a group stand side by side in what is left.             *)
LEMMA GroupMoved ==
    ASSUME NEW q \in Seq(Shaped), NEW s \in Seq(Shaped),
           NEW P \in [1 .. Len(q) -> Seq(Shaped)], NEW at \in [0 .. Len(q) -> Nat],
           \A i \in 1 .. Len(q) : P[i] = Piece(q, i),
           Laid(P, Len(q), s, at),
           NEW i \in 1 .. Len(q), q[i].calls # <<>>, Group(q, i, Len(q[i].calls))
    PROVE  /\ at[i - 1] + 1 \in 1 .. Len(s)
           /\ at[i - 1] + 1 + Len(q[i].calls) <= Len(s)
           /\ \A k \in 0 .. Len(q[i].calls) :
                 s[at[i - 1] + 1 + k] = q[i + k] /\ at[(i + k) - 1] = at[i - 1] + k
<1>1. PICK n \in Nat : n = Len(q) OBVIOUS
<1>2. PICK m \in Nat : m = Len(q[i].calls) BY CallsAre
<1>3. i + m <= n BY <1>1, <1>2 DEF Group
<1>4. \A k \in 0 .. m : i + k \in 1 .. n /\ P[i + k] = <<q[i + k]>>
  BY <1>1, <1>2, GroupKept
<1>5. \A k \in 0 .. m : Len(P[i + k]) = 1 /\ P[i + k][1] = q[i + k]
  <2>1. ASSUME NEW k \in 0 .. m PROVE Len(P[i + k]) = 1 /\ P[i + k][1] = q[i + k]
    <3>1. PICK x : x = q[i + k] OBVIOUS
    <3>2. P[i + k] = <<x>> BY <1>4, <3>1
    <3>3. QED BY <3>1, <3>2
  <2>2. QED BY <2>1
<1>6. Laid(P, n, s, at) /\ P \in [1 .. n -> Seq(Shaped)] /\ at \in [0 .. n -> Nat] BY <1>1
<1>7. /\ at[i + m] = at[i - 1] + 1 + m
      /\ \A k \in 0 .. m : s[at[i - 1] + 1 + k] = P[i + k][1]
  <2>1. i \in 1 .. n BY <1>1
  <2>2. Singles(P, i, m) BY <1>5 DEF Singles
  <2>3. Alongside(P, s, at, i, m) BY <1>3, <1>6, <2>1, <2>2, SideBySide, Zenon
  <2>4. QED BY <2>3 DEF Alongside
<1>8. at[n] = Len(s) BY <1>6 DEF Laid
<1>9. i + m \in 0 .. n BY <1>1, <1>3
<1>10. at[i + m] <= at[n] BY <1>6, <1>9, Rising, Zenon
<1>11. at[i - 1] \in Nat /\ at[i + m] \in Nat
  <2>1. i - 1 \in 0 .. n BY <1>1
  <2>2. QED BY <1>6, <1>9, <2>1
<1>12. at[i - 1] + 1 + m <= Len(s) BY <1>7, <1>8, <1>10
<1>13. at[i - 1] + 1 \in 1 .. Len(s) BY <1>11, <1>12
<1>14. \A k \in 0 .. m : s[at[i - 1] + 1 + k] = q[i + k] BY <1>5, <1>7
<1>15. ASSUME NEW k \in 0 .. m PROVE at[(i + k) - 1] = at[i - 1] + k
  <2>1. i + k \in 1 .. n /\ Len(P[i + k]) = 1 BY <1>4, <1>5
  <2>2. at[i + k] = at[(i + k) - 1] + Len(P[i + k]) BY <1>6, <2>1 DEF Laid
  <2>3. (i + k) - 1 \in 0 .. n BY <2>1
  <2>4. at[(i + k) - 1] \in Nat BY <1>6, <2>3
  <2>5. at[i + k] = at[i - 1] + 1 + k
    <3>1. i + k <= n /\ k \in Nat BY <2>1
    <3>2. Singles(P, i, k)
      <4>1. \A j \in 0 .. k : j \in 0 .. m OBVIOUS
      <4>2. QED BY <1>5, <4>1 DEF Singles
    <3>3. i \in 1 .. n BY <1>1
    <3>4. Alongside(P, s, at, i, k) BY <1>6, <3>1, <3>2, <3>3, SideBySide, Zenon
    <3>5. QED BY <3>4 DEF Alongside
  <2>6. PICK a \in Nat, b \in Nat : a = at[i - 1] /\ b = at[(i + k) - 1] BY <1>11, <2>4
  <2>7. b + 1 = a + 1 + k BY <2>1, <2>2, <2>5, <2>6
  <2>8. b = a + k BY <2>7
  <2>9. QED BY <2>6, <2>8
<1>16. QED BY <1>2, <1>12, <1>13, <1>14, <1>15

(* Every message that is left is one of the history's or a stub.           *)
LEMMA LeftIs ==
    ASSUME NEW q \in Seq(Shaped), NEW s \in Seq(Shaped),
           NEW P \in [1 .. Len(q) -> Seq(Shaped)], NEW at \in [0 .. Len(q) -> Nat],
           \A i \in 1 .. Len(q) : P[i] = Piece(q, i),
           Laid(P, Len(q), s, at), NEW p \in 1 .. Len(s)
    PROVE  \E i \in 1 .. Len(q) : \/ p = at[i - 1] + 1 /\ s[p] = q[i]
                                  \/ IsStub(q, i, s[p])
<1>1. at[Len(q)] = Len(s) BY DEF Laid
<1>2. Len(q) \in Nat /\ p \in 1 .. at[Len(q)] BY <1>1
<1>3. PICK i \in 1 .. Len(q) : InPiece(P, s, at, i, p) BY <1>2, PieceOf, Zenon
<1>4. PICK k \in 1 .. Len(P[i]) : p = at[i - 1] + k /\ s[p] = P[i][k] BY <1>3 DEF InPiece
<1>5. P[i] = Piece(q, i) OBVIOUS
<1>6. (k = 1 /\ P[i][k] = q[i]) \/ IsStub(q, i, P[i][k]) BY <1>5, PiecesAre
<1>7. QED BY <1>4, <1>6

LEMMA Stripped ==
    ASSUME NEW q \in Seq(Shaped), NEW T, Closed(q, T), Settled(q, T)
    PROVE  /\ StripOrphans(q) \in Seq(Shaped)
           /\ \A p \in DOMAIN StripOrphans(q) :
                 Ids(StripOrphans(q)[p]) = {} \/ \E i \in DOMAIN q : StripOrphans(q)[p] = q[i]
           /\ Settled(StripOrphans(q), T)
<1>1. PICK s \in Seq(Shaped) : s = StripOrphans(q) BY PiecesLaid
<1>2. PICK P \in [1 .. Len(q) -> Seq(Shaped)], at \in [0 .. Len(q) -> Nat] :
          /\ \A i \in 1 .. Len(q) : P[i] = Piece(q, i)
          /\ Laid(P, Len(q), s, at)
  BY <1>1, PiecesLaid
<1>3. DOMAIN q = 1 .. Len(q) /\ DOMAIN s = 1 .. Len(s) OBVIOUS
<1>4. ASSUME NEW i \in 1 .. Len(q), NEW m, IsStub(q, i, m)
      PROVE  /\ m.role = "tool" /\ m.calls = <<>> /\ Ids(m) = {}
             /\ m.reply \in T
  <2>1. PICK j \in 1 .. Len(q[i].calls) :
            m = Result(q[i].calls[j]) /\ q[i].calls[j] \notin RepliesIn(q)
    BY <1>4 DEF IsStub
  <2>2. q[i] \in Shaped OBVIOUS
  <2>3. q[i].calls[j] \in Nat /\ q[i].calls[j] \in Ids(q[i]) BY <2>2, CallsAre
  <2>4. m.role = "tool" /\ m.calls = <<>> /\ m.reply = q[i].calls[j] /\ m \in Shaped
    BY <2>1, <2>3, Messages
  <2>5. Ids(m) = {}
    <3>1. Ids(m) = {m.calls[k] : k \in 1 .. Len(m.calls)} BY <2>4, CallsAre
    <3>2. 1 .. Len(m.calls) = {} BY <2>4
    <3>3. QED BY <3>1, <3>2
  <2>6. q[i].calls[j] \in T
    <3>1. SUFFICES ASSUME q[i].calls[j] \notin T PROVE FALSE OBVIOUS
    <3>2. Ids(q[i]) \cap T = {} BY <1>3, <2>3, <3>1 DEF Closed
    <3>3. Group(q, i, Len(q[i].calls)) BY <1>3, <3>2 DEF Settled, Whole
    <3>4. i + j \in DOMAIN q /\ q[i + j] = Result(q[i].calls[j])
      <4>1. Len(q[i].calls) \in Nat BY <2>2, CallsAre
      <4>2. QED BY <1>3, <3>3, <4>1 DEF Group
    <3>5. q[i + j].role = "tool" /\ q[i + j].reply = q[i].calls[j] BY <2>3, <3>4, Messages
    <3>6. q[i].calls[j] \in RepliesIn(q) BY <3>4, <3>5 DEF RepliesIn
    <3>7. QED BY <2>1, <3>6
  <2>7. QED BY <2>4, <2>5, <2>6
<1>5. \A p \in 1 .. Len(s) : Ids(s[p]) = {} \/ \E i \in 1 .. Len(q) : s[p] = q[i]
  <2>1. ASSUME NEW p \in 1 .. Len(s)
        PROVE  Ids(s[p]) = {} \/ \E i \in 1 .. Len(q) : s[p] = q[i]
    <3>1. PICK i \in 1 .. Len(q) : (p = at[i - 1] + 1 /\ s[p] = q[i]) \/ IsStub(q, i, s[p])
      BY <1>2, LeftIs
    <3>2. QED BY <1>4, <3>1
  <2>2. QED BY <2>1
<1>6. Whole(s, T)
  <2>1. ASSUME NEW p \in 1 .. Len(s), Ids(s[p]) \cap T = {}
        PROVE  Group(s, p, Len(s[p].calls))
    <3>1. s[p] \in Shaped OBVIOUS
    <3>2. CASE s[p].calls = <<>>
      <4>1. Len(s[p].calls) = 0 /\ 1 .. 0 = {} BY <3>2
      <4>2. p + 0 <= Len(s) OBVIOUS
      <4>3. QED BY <4>1, <4>2 DEF Group
    <3>3. CASE s[p].calls # <<>>
      <4>1. PICK i \in 1 .. Len(q) : (p = at[i - 1] + 1 /\ s[p] = q[i]) \/ IsStub(q, i, s[p])
        BY <1>2, LeftIs
      <4>2. p = at[i - 1] + 1 /\ s[p] = q[i] BY <1>4, <3>3, <4>1
      <4>3. Group(q, i, Len(q[i].calls)) BY <1>3, <2>1, <4>2 DEF Settled, Whole
      <4>4. /\ at[i - 1] + 1 + Len(q[i].calls) <= Len(s)
            /\ \A k \in 0 .. Len(q[i].calls) :
                  s[at[i - 1] + 1 + k] = q[i + k] /\ at[(i + k) - 1] = at[i - 1] + k
        <5>1. q[i].calls # <<>> BY <3>3, <4>2
        <5>2. QED BY <1>2, <4>3, <5>1, GroupMoved, Zenon
      <4>5. \A k \in 1 .. Len(q[i].calls) : q[i + k] = Result(q[i].calls[k])
        BY <4>3 DEF Group
      <4>6. QED BY <4>2, <4>4, <4>5 DEF Group
    <3>4. QED BY <3>2, <3>3
  <2>2. QED BY <1>3, <2>1 DEF Whole
<1>7. Led(s, T)
  <2>1. ASSUME NEW p \in 1 .. Len(s), s[p].role = "tool", s[p].reply \notin T
        PROVE  \E j \in 1 .. p - 1 : p - j <= Len(s[j].calls) /\ s[p].reply = s[j].calls[p - j]
    <3>1. PICK i \in 1 .. Len(q) : (p = at[i - 1] + 1 /\ s[p] = q[i]) \/ IsStub(q, i, s[p])
      BY <1>2, LeftIs
    <3>2. p = at[i - 1] + 1 /\ s[p] = q[i] BY <1>4, <2>1, <3>1
    <3>3. PICK j \in 1 .. i - 1 : i - j <= Len(q[j].calls) /\ q[i].reply = q[j].calls[i - j]
      BY <1>3, <2>1, <3>2 DEF Settled, Led
    <3>4. j \in 1 .. Len(q) /\ q[j] \in Shaped OBVIOUS
    <3>5. PICK n \in Nat : n = Len(q[j].calls) BY <3>4, CallsAre
    <3>6. i - j \in 1 .. n BY <3>3, <3>5
    <3>7. q[j].calls[i - j] \in Ids(q[j]) BY <3>4, <3>5, <3>6, CallsAre
    <3>8. Ids(q[j]) \cap T = {} BY <1>3, <2>1, <3>2, <3>3, <3>4, <3>7 DEF Closed
    <3>9. Group(q, j, n) BY <1>3, <3>4, <3>5, <3>8 DEF Settled, Whole
    <3>10. q[j].calls # <<>> BY <3>5, <3>6
    <3>11. /\ at[j - 1] + 1 \in 1 .. Len(s)
           /\ \A k \in 0 .. n : s[at[j - 1] + 1 + k] = q[j + k] /\ at[(j + k) - 1] = at[j - 1] + k
      BY <1>2, <3>4, <3>5, <3>9, <3>10, GroupMoved
    <3>12. at[i - 1] = at[j - 1] + (i - j)
      <4>1. i - j \in 0 .. n /\ (j + (i - j)) - 1 = i - 1 BY <3>6
      <4>2. QED BY <3>11, <4>1
    <3>13. s[at[j - 1] + 1] = q[j]
      <4>1. 0 \in 0 .. n /\ j + 0 = j BY <3>4
      <4>2. at[j - 1] + 1 + 0 = at[j - 1] + 1 BY <3>11
      <4>3. QED BY <3>11, <4>1, <4>2
    <3>14. PICK d \in Int : d = at[j - 1] + 1 BY <3>11
    <3>15. d \in 1 .. p - 1 /\ p - d = i - j
      <4>1. p = (d + (i - j)) /\ d \in Nat /\ d >= 1
        <5>1. j - 1 \in 0 .. Len(q) BY <3>4
        <5>2. at[j - 1] \in Nat BY <5>1
        <5>3. i \in Int /\ j \in Int OBVIOUS
        <5>4. p = (at[j - 1] + (i - j)) + 1 BY <3>2, <3>12
        <5>5. PICK a \in Nat : a = at[j - 1] BY <5>2
        <5>6. p = (a + (i - j)) + 1 /\ d = a + 1 BY <3>14, <5>4, <5>5
        <5>7. QED BY <5>3, <5>6
      <4>2. i - j >= 1 BY <3>6
      <4>3. i \in Int /\ j \in Int OBVIOUS
      <4>4. QED BY <4>1, <4>2, <4>3
    <3>16. s[d] = q[j] BY <3>13, <3>14
    <3>17. QED BY <3>2, <3>3, <3>15, <3>16
  <2>2. QED BY <1>3, <2>1 DEF Led
<1>8. Settled(s, T) BY <1>6, <1>7 DEF Settled
<1>9. QED BY <1>1, <1>3, <1>5, <1>8

-----------------------------------------------------------------------------
(* _determine_protected_tail and compact() leave settled what is settled. *)

LEMMA TailStarts ==
    ASSUME NEW q \in Seq(Shaped), NEW n \in Nat \ {0}, Len(q) > n
    PROVE  /\ TailStart(q, n) \in 1 .. Len(q)
           /\ TailStart(q, n) = 1 \/ q[TailStart(q, n)].role # "tool"
<1>1. PICK first \in 1 .. Len(q) : first = Len(q) - n + 1 OBVIOUS
<1> DEFINE Starts == {i \in 1 .. first : i = 1 \/ q[i].role # "tool"}
           Fits(i) == /\ i = 1 \/ q[i].role # "tool"
                      /\ \A j \in i + 1 .. first : q[j].role = "tool"
<1>2. Starts # {} /\ Starts \in SUBSET (1 .. first)
  <2>1. 1 \in Starts BY <1>1
  <2>2. QED BY <2>1
<1>3. first \in Nat BY <1>1
<1>4. PICK i \in Starts : \A j \in Starts : j <= i BY <1>2, <1>3, GreatestExists
<1>5. i \in 1 .. first /\ (i = 1 \/ q[i].role # "tool") OBVIOUS
<1>6. \A j \in i + 1 .. first : q[j].role = "tool"
  <2>1. ASSUME NEW j \in i + 1 .. first, q[j].role # "tool" PROVE FALSE
    <3>1. j \in 1 .. first BY <1>5
    <3>2. j \in Starts BY <2>1, <3>1
    <3>3. j <= i BY <1>4, <3>2
    <3>4. QED BY <1>5, <3>1, <3>3
  <2>2. QED BY <2>1
<1>7. Fits(i) BY <1>5, <1>6
<1>8. TailStart(q, n) = CHOOSE t \in 1 .. first : Fits(t)
  <2>1. ~(Len(q) <= n) OBVIOUS
  <2>2. QED BY <1>1, <2>1 DEF TailStart
<1> HIDE DEF Starts
<1>9. TailStart(q, n) \in 1 .. first /\ Fits(TailStart(q, n))
  <2> HIDE DEF Fits
  <2>1. QED BY <1>5, <1>7, <1>8, Zenon
<1>10. QED BY <1>1, <1>9

(* The end of a history, from a message that is no result.                 *)
LEMMA TailSettled ==
    ASSUME NEW q \in Seq(Shaped), NEW T, Closed(q, T), Settled(q, T),
           NEW t \in 1 .. Len(q), t = 1 \/ q[t].role # "tool"
    PROVE  /\ SubSeq(q, t, Len(q)) \in Seq(Shaped)
           /\ \A p \in DOMAIN SubSeq(q, t, Len(q)) : \E i \in DOMAIN q : SubSeq(q, t, Len(q))[p] = q[i]
           /\ Closed(SubSeq(q, t, Len(q)), T)
           /\ Settled(SubSeq(q, t, Len(q)), T)
<1>11. PICK l \in Nat : l = Len(q) OBVIOUS
<1>12. \A i \in t .. l : q[i] \in Shaped BY <1>11
<1>13. /\ SubSeq(q, t, l) \in Seq(Shaped)
       /\ Len(SubSeq(q, t, l)) = l - t + 1
       /\ \A i \in 1 .. l - t + 1 : SubSeq(q, t, l)[i] = q[t + i - 1]
  <2>1. t \in Int /\ l \in Int /\ t <= l BY <1>11
  <2>2. QED BY <1>12, <2>1, SubSeqProperties
<1>1. PICK s \in Seq(Shaped) : s = SubSeq(q, t, Len(q)) BY <1>11, <1>13
<1>2. PICK z \in Nat : z = t - 1 OBVIOUS
<1>3. Len(s) = Len(q) - z /\ z < Len(q) /\ Len(q) \in Nat BY <1>1, <1>2, <1>11, <1>13
<1>4. DOMAIN q = 1 .. Len(q) /\ DOMAIN s = 1 .. Len(s) OBVIOUS
<1>5. \A p \in 1 .. Len(s) : s[p] = q[z + p] /\ z + p \in 1 .. Len(q)
  <2>1. ASSUME NEW p \in 1 .. Len(s) PROVE s[p] = q[z + p] /\ z + p \in 1 .. Len(q)
    <3>1. s[p] = q[t + p - 1]
      <4>1. p \in 1 .. l - t + 1 BY <1>1, <1>11, <1>13
      <4>2. QED BY <1>1, <1>11, <1>13, <4>1
    <3>2. t + p - 1 = z + p BY <1>2
    <3>3. QED BY <1>3, <3>1, <3>2
  <2>2. QED BY <2>1
<1>6. \A p \in DOMAIN s : \E i \in DOMAIN q : s[p] = q[i] BY <1>4, <1>5
<1>7. Closed(s, T) BY <1>6 DEF Closed
<1>8. Whole(s, T)
  <2>1. ASSUME NEW p \in 1 .. Len(s), Ids(s[p]) \cap T = {}
        PROVE  Group(s, p, Len(s[p].calls))
    <3>1. PICK m \in Shaped : m = s[p] OBVIOUS
    <3>2. PICK n \in Nat : n = Len(m.calls) BY CallsAre
    <3>3. PICK i \in 1 .. Len(q) : i = z + p BY <1>5
    <3>4. q[i] = m BY <1>5, <3>1, <3>3
    <3>5. Group(q, i, n) BY <1>4, <2>1, <3>1, <3>2, <3>4 DEF Settled, Whole
    <3>6. i + n <= Len(q) /\ \A k \in 1 .. n : q[i + k] = Result(m.calls[k])
      BY <3>4, <3>5 DEF Group
    <3>7. p + n <= Len(s) BY <1>3, <3>3, <3>6
    <3>8. ASSUME NEW k \in 1 .. n PROVE s[p + k] = Result(m.calls[k])
      <4>1. p + k \in 1 .. Len(s) BY <3>7
      <4>2. s[p + k] = q[z + (p + k)] BY <1>5, <4>1
      <4>3. z + (p + k) = i + k BY <3>3
      <4>4. QED BY <3>6, <4>2, <4>3
    <3>9. QED BY <3>1, <3>2, <3>7, <3>8 DEF Group
  <2>2. QED BY <1>4, <2>1 DEF Whole
<1>9. Led(s, T)
  <2>1. ASSUME NEW p \in 1 .. Len(s), s[p].role = "tool", s[p].reply \notin T
        PROVE  \E j \in 1 .. p - 1 : p - j <= Len(s[j].calls) /\ s[p].reply = s[j].calls[p - j]
    <3>1. PICK i \in 1 .. Len(q) : i = z + p BY <1>5
    <3>2. q[i] = s[p] BY <1>5, <3>1
    <3>3. PICK j \in 1 .. i - 1 : i - j <= Len(q[j].calls) /\ q[i].reply = q[j].calls[i - j]
      BY <1>4, <2>1, <3>2 DEF Settled, Led
    <3>4. j \in 1 .. Len(q) /\ q[j] \in Shaped OBVIOUS
    <3>5. PICK n \in Nat : n = Len(q[j].calls) BY <3>4, CallsAre
    <3>6. i - j \in 1 .. n BY <3>3, <3>5
    <3>7. q[j].calls[i - j] \in Ids(q[j]) BY <3>4, <3>5, <3>6, CallsAre
    <3>8. Ids(q[j]) \cap T = {} BY <1>4, <2>1, <3>2, <3>3, <3>4, <3>7 DEF Closed
    <3>9. Group(q, j, n) BY <1>4, <3>4, <3>5, <3>8 DEF Settled, Whole
    <3>10. j >= t
      <4>1. SUFFICES ASSUME j < t PROVE FALSE OBVIOUS
      <4>2. t - j \in 1 .. n /\ j + (t - j) = t BY <1>2, <3>1, <3>6, <4>1
      <4>3. q[t] = Result(q[j].calls[t - j]) BY <3>9, <4>2 DEF Group
      <4>4. q[j].calls[t - j] \in Nat BY <3>4, <3>5, <4>2, CallsAre
      <4>5. q[t].role = "tool" BY <4>3, <4>4, Messages
      <4>6. t # 1 BY <4>1
      <4>7. QED BY <4>5, <4>6
    <3>11. PICK d \in 1 .. p - 1 : d = j - z
      <4>1. i = z + p /\ j <= i - 1 /\ j > z BY <1>2, <3>1, <3>10
      <4>2. j - z \in 1 .. p - 1 BY <4>1
      <4>3. QED BY <4>2
    <3>12. s[d] = q[j] /\ p - d = i - j
      <4>1. d \in 1 .. Len(s) /\ z + d = j BY <3>11
      <4>2. QED BY <1>5, <3>1, <3>11, <4>1
    <3>13. QED BY <3>2, <3>3, <3>11, <3>12
  <2>2. QED BY <1>4, <2>1 DEF Led
<1>10. QED BY <1>1, <1>6, <1>7, <1>8, <1>9 DEF Settled

(* One settled history after another.                                      *)
LEMMA JoinedSettled ==
    ASSUME NEW T, NEW a \in Seq(Shaped), NEW b \in Seq(Shaped), Settled(a, T), Settled(b, T)
    PROVE  /\ a \o b \in Seq(Shaped)
           /\ Settled(a \o b, T)
           /\ \A p \in DOMAIN (a \o b) : \/ \E i \in DOMAIN a : (a \o b)[p] = a[i]
                                         \/ \E i \in DOMAIN b : (a \o b)[p] = b[i]
<1>1. /\ a \o b \in Seq(Shaped) /\ Len(a \o b) = Len(a) + Len(b)
      /\ \A k \in 1 .. Len(a) : (a \o b)[k] = a[k]
      /\ \A k \in 1 .. Len(b) : (a \o b)[Len(a) + k] = b[k]
  BY Joining
<1>2. PICK s \in Seq(Shaped) : s = a \o b BY <1>1
<1>3. PICK x \in Nat, y \in Nat : x = Len(a) /\ y = Len(b) OBVIOUS
<1>4. /\ Len(s) = x + y
      /\ \A k \in 1 .. x : s[k] = a[k]
      /\ \A k \in 1 .. y : s[x + k] = b[k]
  BY <1>1, <1>2, <1>3
<1>5. DOMAIN s = 1 .. x + y /\ DOMAIN a = 1 .. x /\ DOMAIN b = 1 .. y BY <1>3, <1>4
<1>6. ASSUME NEW p \in 1 .. x + y
      PROVE  p \in 1 .. x \/ (p - x \in 1 .. y /\ x + (p - x) = p)
  OBVIOUS
<1>7. \A p \in DOMAIN s : (\E i \in DOMAIN a : s[p] = a[i]) \/ (\E i \in DOMAIN b : s[p] = b[i])
  <2>1. ASSUME NEW p \in 1 .. x + y
        PROVE  (\E i \in DOMAIN a : s[p] = a[i]) \/ (\E i \in DOMAIN b : s[p] = b[i])
    <3>1. CASE p \in 1 .. x BY <1>4, <1>5, <3>1
    <3>2. CASE p - x \in 1 .. y /\ x + (p - x) = p
      <4>1. s[p] = b[p - x] BY <1>4, <3>2
      <4>2. QED BY <1>5, <3>2, <4>1
    <3>3. QED BY <1>6, <3>1, <3>2
  <2>2. QED BY <1>5, <2>1
<1>8. Whole(s, T)
  <2>1. ASSUME NEW p \in 1 .. x + y, Ids(s[p]) \cap T = {}
        PROVE  Group(s, p, Len(s[p].calls))
    <3>1. PICK m \in Shaped : m = s[p] BY <1>4
    <3>2. PICK n \in Nat : n = Len(m.calls) BY CallsAre
    <3>3. CASE p \in 1 .. x
      <4>1. a[p] = m BY <1>4, <3>1, <3>3
      <4>2. Group(a, p, n) BY <1>5, <2>1, <3>1, <3>2, <3>3, <4>1 DEF Settled, Whole
      <4>3. p + n <= x /\ \A k \in 1 .. n : a[p + k] = Result(m.calls[k])
        BY <1>3, <4>1, <4>2 DEF Group
      <4>4. \A k \in 1 .. n : s[p + k] = Result(m.calls[k])
        <5>1. ASSUME NEW k \in 1 .. n PROVE s[p + k] = Result(m.calls[k])
          <6>1. p + k \in 1 .. x BY <3>3, <4>3
          <6>2. QED BY <1>4, <4>3, <6>1
        <5>2. QED BY <5>1
      <4>5. p + n <= Len(s) BY <1>4, <3>3, <4>3
      <4>6. QED BY <3>1, <3>2, <4>4, <4>5 DEF Group
    <3>4. CASE p - x \in 1 .. y /\ x + (p - x) = p
      <4>1. PICK i \in 1 .. y : i = p - x /\ x + i = p BY <3>4
      <4>2. b[i] = m BY <1>4, <3>1, <4>1
      <4>3. Group(b, i, n) BY <1>5, <2>1, <3>1, <3>2, <4>2 DEF Settled, Whole
      <4>4. i + n <= y /\ \A k \in 1 .. n : b[i + k] = Result(m.calls[k])
        BY <1>3, <4>2, <4>3 DEF Group
      <4>5. \A k \in 1 .. n : s[p + k] = Result(m.calls[k])
        <5>1. ASSUME NEW k \in 1 .. n PROVE s[p + k] = Result(m.calls[k])
          <6>1. i + k \in 1 .. y /\ x + (i + k) = p + k BY <4>1, <4>4
          <6>2. s[x + (i + k)] = b[i + k] BY <1>4, <6>1
          <6>3. QED BY <4>4, <6>1, <6>2
        <5>2. QED BY <5>1
      <4>6. p + n <= Len(s) BY <1>4, <4>1, <4>4
      <4>7. QED BY <3>1, <3>2, <4>5, <4>6 DEF Group
    <3>5. QED BY <1>6, <3>3, <3>4
  <2>2. QED BY <1>5, <2>1 DEF Whole
<1>9. Led(s, T)
  <2>1. ASSUME NEW p \in 1 .. x + y, s[p].role = "tool", s[p].reply \notin T
        PROVE  \E j \in 1 .. p - 1 : p - j <= Len(s[j].calls) /\ s[p].reply = s[j].calls[p - j]
    <3>1. CASE p \in 1 .. x
      <4>1. a[p] = s[p] BY <1>4, <3>1
      <4>2. PICK j \in 1 .. p - 1 : p - j <= Len(a[j].calls) /\ a[p].reply = a[j].calls[p - j]
        BY <1>5, <2>1, <3>1, <4>1 DEF Settled, Led
      <4>3. j \in 1 .. x BY <3>1
      <4>4. s[j] = a[j] BY <1>4, <4>3
      <4>5. QED BY <4>1, <4>2, <4>4
    <3>2. CASE p - x \in 1 .. y /\ x + (p - x) = p
      <4>1. PICK i \in 1 .. y : i = p - x /\ x + i = p BY <3>2
      <4>2. b[i] = s[p] BY <1>4, <4>1
      <4>3. PICK j \in 1 .. i - 1 : i - j <= Len(b[j].calls) /\ b[i].reply = b[j].calls[i - j]
        BY <1>5, <2>1, <4>2 DEF Settled, Led
      <4>4. j \in 1 .. y OBVIOUS
      <4>5. s[x + j] = b[j] BY <1>4, <4>4
      <4>6. PICK d \in 1 .. p - 1 : d = x + j
        <5>1. x + j \in 1 .. p - 1 BY <4>1, <4>3
        <5>2. QED BY <5>1
      <4>7. p - d = i - j BY <4>1, <4>6
      <4>8. QED BY <4>2, <4>3, <4>5, <4>6, <4>7
    <3>3. QED BY <1>6, <3>1, <3>2
  <2>2. QED BY <1>5, <2>1 DEF Led
<1>10. QED BY <1>2, <1>7, <1>8, <1>9 DEF Settled

LEMMA NoIds ==
    ASSUME NEW m \in Shaped, m.calls = <<>>
    PROVE  Ids(m) = {}
<1>1. Ids(m) = {m.calls[k] : k \in 1 .. Len(m.calls)} BY CallsAre
<1>2. 1 .. Len(m.calls) = {} OBVIOUS
<1>3. QED BY <1>1, <1>2

LEMMA PlainSettled ==
    ASSUME NEW q \in Seq(Shaped), NEW T,
           \A i \in DOMAIN q : q[i].role # "tool" /\ q[i].calls = <<>>
    PROVE  Settled(q, T) /\ \A i \in DOMAIN q : Ids(q[i]) = {}
<1>1. \A i \in DOMAIN q : q[i] \in Shaped /\ i \in 1 .. Len(q) OBVIOUS
<1>2. \A i \in DOMAIN q : Ids(q[i]) = {} BY <1>1, NoIds
<1>3. ASSUME NEW i \in DOMAIN q PROVE Group(q, i, Len(q[i].calls))
  <2>1. Len(q[i].calls) = 0 /\ 1 .. 0 = {} OBVIOUS
  <2>2. i + 0 <= Len(q) BY <1>1
  <2>3. QED BY <2>1, <2>2 DEF Group
<1>4. Whole(q, T) BY <1>3 DEF Whole
<1>5. Led(q, T) BY DEF Led
<1>6. QED BY <1>2, <1>4, <1>5 DEF Settled

LEMMA CompactedSettled ==
    ASSUME NEW q \in Seq(Shaped), NEW n \in Nat \ {0}, NEW flushed \in BOOLEAN, NEW T,
           Closed(q, T), Settled(q, T)
    PROVE  /\ Compacted(q, n, flushed) \in Seq(Shaped)
           /\ Settled(Compacted(q, n, flushed), T)
           /\ \A p \in DOMAIN Compacted(q, n, flushed) :
                 \/ Ids(Compacted(q, n, flushed)[p]) = {}
                 \/ \E i \in DOMAIN q : Compacted(q, n, flushed)[p] = q[i]
<1>1. CASE Before(q, n) = <<>>
  <2>1. Compacted(q, n, flushed) = q BY <1>1 DEF Compacted
  <2>2. QED BY <2>1
<1>2. CASE Before(q, n) # <<>>
  <2>1. Len(q) > n
    <3>1. SUFFICES ASSUME Len(q) <= n PROVE FALSE OBVIOUS
    <3>2. Before(q, n) = SubSeq(q, 1, 0) BY <3>1 DEF Before, TailStart
    <3>3. SubSeq(q, 1, 0) = <<>> BY SubSeqEmpty
    <3>4. QED BY <1>2, <3>2, <3>3
  <2>2. PICK t \in 1 .. Len(q) : t = TailStart(q, n) /\ (t = 1 \/ q[t].role # "tool")
    BY <2>1, TailStarts
  <2>3. PICK tail \in Seq(Shaped) : tail = SubSeq(q, t, Len(q)) BY <2>2, TailSettled
  <2>4. /\ \A p \in DOMAIN tail : \E i \in DOMAIN q : tail[p] = q[i]
        /\ Closed(tail, T) /\ Settled(tail, T)
    <3>1. t = 1 \/ q[t].role # "tool" BY <2>2
    <3>2. Closed(SubSeq(q, t, Len(q)), T) /\ Settled(SubSeq(q, t, Len(q)), T)
      BY <3>1, TailSettled
    <3>3. \A p \in DOMAIN SubSeq(q, t, Len(q)) : \E i \in DOMAIN q : SubSeq(q, t, Len(q))[p] = q[i]
      BY <3>1, TailSettled, Zenon
    <3>4. QED BY <2>3, <3>2, <3>3
  <2>5. PICK s \in Seq(Shaped) : s = StripOrphans(tail) BY <2>4, Stripped
  <2>6. /\ \A p \in DOMAIN s : Ids(s[p]) = {} \/ \E i \in DOMAIN tail : s[p] = tail[i]
        /\ Settled(s, T)
    BY <2>4, <2>5, Stripped
  <2>7. System \in Shaped /\ System.role # "tool" /\ System.calls = <<>> BY Messages
  <2>8. PICK pre \in Seq(Shaped) : pre = IF flushed THEN <<System>> ELSE <<System, System>>
    <3>1. <<System>> \in Seq(Shaped) /\ <<System, System>> \in Seq(Shaped) BY <2>7
    <3>2. QED BY <3>1
  <2>9. \A i \in DOMAIN pre : pre[i] = System
    <3>1. CASE flushed BY <2>8, <3>1
    <3>2. CASE ~flushed BY <2>8, <3>2
    <3>3. QED BY <3>1, <3>2
  <2>10. Settled(pre, T) /\ \A i \in DOMAIN pre : Ids(pre[i]) = {}
    BY <2>7, <2>9, PlainSettled
  <2>11. Compacted(q, n, flushed) = pre \o s
    BY <1>2, <2>2, <2>3, <2>5, <2>8 DEF Compacted, ProtectedTail
  <2>12. /\ pre \o s \in Seq(Shaped) /\ Settled(pre \o s, T)
         /\ \A p \in DOMAIN (pre \o s) : \/ \E i \in DOMAIN pre : (pre \o s)[p] = pre[i]
                                         \/ \E i \in DOMAIN s : (pre \o s)[p] = s[i]
    BY <2>6, <2>10, JoinedSettled
  <2>13. PICK c \in Seq(Shaped) : c = pre \o s BY <2>12
  <2>14. ASSUME NEW p \in DOMAIN c
         PROVE  Ids(c[p]) = {} \/ \E i \in DOMAIN q : c[p] = q[i]
    <3>1. (\E i \in DOMAIN pre : c[p] = pre[i]) \/ (\E i \in DOMAIN s : c[p] = s[i])
      BY <2>12, <2>13
    <3>2. CASE \E i \in DOMAIN pre : c[p] = pre[i] BY <2>10, <3>2
    <3>3. CASE \E i \in DOMAIN s : c[p] = s[i]
      <4>1. PICK i \in DOMAIN s : c[p] = s[i] BY <3>3
      <4>2. Ids(s[i]) = {} \/ \E j \in DOMAIN tail : s[i] = tail[j] BY <2>6
      <4>3. QED BY <2>4, <4>1, <4>2
    <3>4. QED BY <3>1, <3>2, <3>3
  <2>15. QED BY <2>11, <2>12, <2>13, <2>14
<1>3. QED BY <1>1, <1>2

-----------------------------------------------------------------------------
(* A batch in progress: b is what it still waits for. *)

(* q[i] is the calling message, the first results of its batch follow it,  *)
(* and nothing else does.                                                  *)
Pending(q, b, i) ==
    LET n == Len(q[i].calls) - Len(b)
    IN  /\ b # <<>> /\ n >= 0
        /\ Len(q) = i + n /\ Group(q, i, n)
        /\ \A k \in DOMAIN b : b[k] = q[i].calls[n + k]

LEMMA PendingFrom ==
    ASSUME NEW q, NEW b, NEW i, NEW n \in Nat, n = Len(q[i].calls) - Len(b), b # <<>>,
           Len(q) = i + n, Group(q, i, n), \A k \in DOMAIN b : b[k] = q[i].calls[n + k]
    PROVE  Pending(q, b, i)
<1>1. n >= 0 OBVIOUS
<1>2. QED BY <1>1, Zenon DEF Pending

Held(q, b, T) ==
    \A i \in DOMAIN q : Ids(q[i]) \cap T = {} => Group(q, i, Len(q[i].calls)) \/ Pending(q, b, i)

Open(q, b, T) ==
    b = <<>> \/ (\A k \in DOMAIN b : b[k] \in T) \/ \E i \in DOMAIN q : Pending(q, b, i)

Fine(q, b, T) == Held(q, b, T) /\ Led(q, T) /\ Open(q, b, T)

LEMMA FineEmpty ==
    ASSUME NEW q, NEW T
    PROVE  Fine(q, <<>>, T) <=> Settled(q, T)
<1>1. \A i \in DOMAIN q : ~Pending(q, <<>>, i) BY DEF Pending
<1>2. QED BY <1>1 DEF Fine, Settled, Held, Whole, Open

LEMMA SettledIsFine ==
    ASSUME NEW q, NEW T, Settled(q, T), NEW b, \A k \in DOMAIN b : b[k] \in T
    PROVE  Fine(q, b, T)
BY DEF Fine, Settled, Held, Whole, Open

LEMMA PendingLast ==
    ASSUME NEW q \in Seq(Shaped), NEW b \in Seq(Nat), NEW i \in DOMAIN q, Pending(q, b, i)
    PROVE  /\ LastCalls(q) = Ids(q[i])
           /\ \A k \in DOMAIN b : b[k] \in Ids(q[i])
           /\ b # <<>> /\ 1 \in DOMAIN b
<1>1. PICK m \in Shaped : m = q[i] OBVIOUS
<1>2. PICK l \in Nat : l = Len(m.calls) BY CallsAre
<1>3. PICK d \in Nat : d = Len(b) OBVIOUS
<1>4. PICK n \in Nat : n = l - d
  <2>1. l - d >= 0 BY <1>1, <1>2, <1>3 DEF Pending
  <2>2. l - d \in Nat BY <2>1
  <2>3. QED BY <2>2
<1>5. /\ b # <<>> /\ Len(q) = i + n /\ Group(q, i, n)
      /\ \A k \in DOMAIN b : b[k] = m.calls[n + k]
  BY <1>1, <1>2, <1>3, <1>4 DEF Pending
<1>6. DOMAIN q = 1 .. Len(q) /\ DOMAIN b = 1 .. d /\ d >= 1
  <2>1. d # 0 BY <1>3, <1>5
  <2>2. QED BY <1>3, <2>1
<1>7. \A k \in DOMAIN b : b[k] \in Ids(m)
  <2>1. ASSUME NEW k \in DOMAIN b PROVE b[k] \in Ids(m)
    <3>1. n + k \in 1 .. l BY <1>4, <1>6
    <3>2. QED BY <1>2, <1>5, <3>1, CallsAre
  <2>2. QED BY <2>1
<1>8. m.calls # <<>> BY <1>2, <1>4, <1>6
<1>9. \A k \in 1 .. n : q[i + k].calls = <<>>
  <2>1. ASSUME NEW k \in 1 .. n PROVE q[i + k].calls = <<>>
    <3>1. k \in 1 .. l BY <1>4
    <3>2. m.calls[k] \in Nat BY <1>2, <3>1, CallsAre
    <3>3. q[i + k] = Result(m.calls[k]) BY <1>1, <1>5 DEF Group
    <3>4. QED BY <3>2, <3>3, Messages
  <2>2. QED BY <2>1
<1> DEFINE calling == {j \in DOMAIN q : q[j].calls # <<>>}
<1>10. i \in calling BY <1>1, <1>8
<1>11. ASSUME NEW j \in calling PROVE j <= i
  <2>1. SUFFICES ASSUME j > i PROVE FALSE BY <1>6
  <2>2. j \in 1 .. Len(q) /\ q[j].calls # <<>> BY <1>6
  <2>3. j - i \in 1 .. n /\ i + (j - i) = j BY <1>5, <1>6, <2>1, <2>2
  <2>4. QED BY <1>9, <2>2, <2>3
<1>12. LastCalls(q) = Ids(q[CHOOSE x \in calling : \A y \in calling : y <= x])
  BY <1>10 DEF LastCalls
<1>13. \A j \in calling : j \in Int BY <1>6
<1> HIDE DEF calling
<1>14. (CHOOSE x \in calling : \A y \in calling : y <= x) = i
  <2>1. \E x \in calling : \A y \in calling : y <= x BY <1>10, <1>11
  <2>2. PICK c : c = CHOOSE x \in calling : \A y \in calling : y <= x OBVIOUS
  <2>3. c \in calling /\ \A y \in calling : y <= c BY <2>1, <2>2
  <2>4. c <= i /\ i <= c BY <1>10, <1>11, <2>3
  <2>5. c \in Int /\ i \in Int BY <1>10, <1>13, <2>3
  <2>6. QED BY <2>2, <2>4, <2>5
<1>15. LastCalls(q) = Ids(q[i]) BY <1>12, <1>14
<1>16. QED BY <1>1, <1>5, <1>6, <1>7, <1>15

LEMMA LastCallsAre ==
    ASSUME NEW q \in Seq(Shaped)
    PROVE  LastCalls(q) = {} \/ \E i \in DOMAIN q : LastCalls(q) = Ids(q[i])
<1> DEFINE calling == {j \in DOMAIN q : q[j].calls # <<>>}
<1>1. CASE calling = {} BY <1>1 DEF LastCalls
<1>2. CASE calling # {}
  <2>1. LastCalls(q) = Ids(q[CHOOSE x \in calling : \A y \in calling : y <= x])
    BY <1>2 DEF LastCalls
  <2>2. calling \in SUBSET (1 .. Len(q)) /\ Len(q) \in Nat OBVIOUS
  <2>3. \A j \in calling : j \in DOMAIN q OBVIOUS
  <2> HIDE DEF calling
  <2>4. \E x \in calling : \A y \in calling : y <= x BY <1>2, <2>2, GreatestExists
  <2>5. (CHOOSE x \in calling : \A y \in calling : y <= x) \in calling BY <2>4
  <2>6. QED BY <2>1, <2>3, <2>5
<1>3. QED BY <1>1, <1>2

(* Tearing a batch, or seeing that it is torn, leaves nothing to wait for. *)
LEMMA TornSettles ==
    ASSUME NEW q, NEW b, NEW T, NEW T2, T \subseteq T2, Fine(q, b, T),
           \A i \in DOMAIN q : Pending(q, b, i) => Ids(q[i]) \cap T2 # {}
    PROVE  Settled(q, T2)
<1>1. Whole(q, T2)
  <2>1. ASSUME NEW i \in DOMAIN q, Ids(q[i]) \cap T2 = {}
        PROVE  Group(q, i, Len(q[i].calls))
    <3>1. Ids(q[i]) \cap T = {} BY <2>1
    <3>2. ~Pending(q, b, i) BY <2>1
    <3>3. QED BY <3>1, <3>2 DEF Fine, Held
  <2>2. QED BY <2>1 DEF Whole
<1>2. Led(q, T2)
  <2>1. ASSUME NEW i \in DOMAIN q, q[i].role = "tool", q[i].reply \notin T2
        PROVE  \E j \in 1 .. i - 1 : i - j <= Len(q[j].calls) /\ q[i].reply = q[j].calls[i - j]
    <3>1. q[i].reply \notin T BY <2>1
    <3>2. QED BY <2>1, <3>1 DEF Fine, Led
  <2>2. QED BY <2>1 DEF Led
<1>3. QED BY <1>1, <1>2 DEF Settled

(* The next message leaves what stands before it as it is.                 *)
LEMMA Appended ==
    ASSUME NEW q \in Seq(Shaped), NEW m \in Shaped
    PROVE  /\ Append(q, m) \in Seq(Shaped)
           /\ Len(Append(q, m)) = Len(q) + 1
           /\ DOMAIN Append(q, m) = 1 .. Len(q) + 1
           /\ \A i \in 1 .. Len(q) : Append(q, m)[i] = q[i]
           /\ Append(q, m)[Len(q) + 1] = m
           /\ Append(q, m) = q \o <<m>>
OBVIOUS

LEMMA PlainAppended ==
    ASSUME NEW q \in Seq(Shaped), NEW T, Settled(q, T), NEW m \in {User, System, Text}
    PROVE  /\ Append(q, m) \in Seq(Shaped)
           /\ Settled(Append(q, m), T)
           /\ \A p \in DOMAIN Append(q, m) :
                 Ids(Append(q, m)[p]) = {} \/ \E i \in DOMAIN q : Append(q, m)[p] = q[i]
<1>1. m \in Shaped /\ m.role # "tool" /\ m.calls = <<>> BY Messages
<1>2. PICK b \in Seq(Shaped) : b = <<m>>
  <2>1. <<m>> \in Seq(Shaped) BY <1>1
  <2>2. QED BY <2>1
<1>3. \A i \in DOMAIN b : b[i] = m BY <1>2
<1>4. Settled(b, T) /\ \A i \in DOMAIN b : Ids(b[i]) = {} BY <1>1, <1>3, PlainSettled
<1>5. Append(q, m) = q \o b BY <1>1, <1>2, Appended
<1>6. /\ q \o b \in Seq(Shaped) /\ Settled(q \o b, T)
      /\ \A p \in DOMAIN (q \o b) : \/ \E i \in DOMAIN q : (q \o b)[p] = q[i]
                                    \/ \E i \in DOMAIN b : (q \o b)[p] = b[i]
  BY <1>4, JoinedSettled
<1>7. PICK c \in Seq(Shaped) : c = q \o b BY <1>6
<1>8. ASSUME NEW p \in DOMAIN c PROVE Ids(c[p]) = {} \/ \E i \in DOMAIN q : c[p] = q[i]
  <2>1. (\E i \in DOMAIN q : c[p] = q[i]) \/ (\E i \in DOMAIN b : c[p] = b[i]) BY <1>6, <1>7
  <2>2. QED BY <1>4, <2>1
<1>9. QED BY <1>5, <1>6, <1>7, <1>8

(* An answer with tool calls opens a batch.                                *)
LEMMA CallsPending ==
    ASSUME NEW q \in Seq(Shaped), NEW c \in Seq(Nat), c # <<>>,
           NEW s, s = Append(q, Calling(c))
    PROVE  Pending(s, c, Len(q) + 1) /\ Len(q) + 1 \in DOMAIN s
<1>1. PICK m \in Shaped : m = Calling(c) BY Messages
<1>2. m.calls = c BY <1>1, Messages
<1>3. PICK l \in Nat : l = Len(q) OBVIOUS
<1>4. Len(s) = l + 1 /\ DOMAIN s = 1 .. l + 1 /\ s[l + 1] = m BY <1>1, <1>3, Appended
<1>5. PICK d \in Nat : d = Len(c) OBVIOUS
<1>6. d - d = 0 /\ 1 .. 0 = {} BY <1>5
<1>7. Group(s, l + 1, 0) BY <1>4, <1>6 DEF Group
<1>8. \A k \in DOMAIN c : c[k] = s[l + 1].calls[0 + k] BY <1>2, <1>4
<1>9. Len(s) = (l + 1) + 0 BY <1>4
<1>10. 0 = Len(s[l + 1].calls) - Len(c) BY <1>2, <1>4, <1>5, <1>6
<1>11. Pending(s, c, l + 1) BY <1>7, <1>8, <1>9, <1>10, PendingFrom
<1>12. QED BY <1>3, <1>4, <1>11

LEMMA CallsAppended ==
    ASSUME NEW q \in Seq(Shaped), NEW T, Settled(q, T), NEW c \in Seq(Nat), c # <<>>
    PROVE  Fine(Append(q, Calling(c)), c, T)
<1>1. PICK m \in Shaped : m = Calling(c) BY Messages
<1>2. m.calls = c /\ m.role # "tool" BY <1>1, Messages
<1>3. PICK s \in Seq(Shaped) : s = Append(q, m) BY Appended
<1>4. PICK l \in Nat : l = Len(q) OBVIOUS
<1>5. Len(s) = l + 1 /\ DOMAIN s = 1 .. l + 1 /\ DOMAIN q = 1 .. l BY <1>3, <1>4, Appended
<1>6. (\A i \in 1 .. l : s[i] = q[i]) /\ s[l + 1] = m BY <1>3, <1>4, Appended
<1>7. Pending(s, c, l + 1) BY <1>1, <1>3, <1>4, CallsPending
<1>8. Held(s, c, T)
  <2>1. ASSUME NEW i \in 1 .. l, Ids(s[i]) \cap T = {}
        PROVE  Group(s, i, Len(s[i].calls))
    <3>1. PICK x \in Shaped : x = q[i] /\ x = s[i] BY <1>4, <1>6
    <3>2. PICK n \in Nat : n = Len(x.calls) BY CallsAre
    <3>3. Group(q, i, n) BY <1>5, <2>1, <3>1, <3>2 DEF Settled, Whole
    <3>4. i + n <= l /\ \A k \in 1 .. n : q[i + k] = Result(x.calls[k])
      BY <1>4, <3>1, <3>3 DEF Group
    <3>5. \A k \in 1 .. n : s[i + k] = Result(x.calls[k])
      <4>1. \A k \in 1 .. n : i + k \in 1 .. l BY <3>4
      <4>2. QED BY <1>6, <3>4, <4>1
    <3>6. i + n <= Len(s) BY <1>5, <3>4
    <3>7. QED BY <3>1, <3>2, <3>5, <3>6 DEF Group
  <2>2. \A i \in 1 .. l + 1 : i \in 1 .. l \/ i = l + 1 OBVIOUS
  <2>3. QED BY <1>5, <1>7, <2>1, <2>2 DEF Held
<1>9. Led(s, T)
  <2>1. ASSUME NEW i \in 1 .. l + 1, s[i].role = "tool", s[i].reply \notin T
        PROVE  \E j \in 1 .. i - 1 : i - j <= Len(s[j].calls) /\ s[i].reply = s[j].calls[i - j]
    <3>1. i \in 1 .. l BY <1>2, <1>6, <2>1
    <3>2. s[i] = q[i] BY <1>6, <3>1
    <3>3. PICK j \in 1 .. i - 1 : i - j <= Len(q[j].calls) /\ q[i].reply = q[j].calls[i - j]
      BY <1>5, <2>1, <3>1, <3>2 DEF Settled, Led
    <3>4. s[j] = q[j] BY <1>6, <3>1
    <3>5. QED BY <3>2, <3>3, <3>4
  <2>2. QED BY <1>5, <2>1 DEF Led
<1>10. l + 1 \in DOMAIN s BY <1>5
<1>11. Open(s, c, T) BY <1>7, <1>10 DEF Open
<1>12. QED BY <1>1, <1>3, <1>8, <1>9, <1>11 DEF Fine

(* The result of the next call carries a batch on.                         *)
LEMMA PendingExtends ==
    ASSUME NEW q \in Seq(Shaped), NEW b \in Seq(Nat), NEW i \in DOMAIN q, Pending(q, b, i),
           NEW s, s = Append(q, Result(Head(b)))
    PROVE  /\ Group(s, i, Len(s[i].calls)) \/ Pending(s, Tail(b), i)
           /\ Tail(b) = <<>> \/ Pending(s, Tail(b), i)
           /\ i \in 1 .. Len(q) /\ (Len(q) + 1) - i <= Len(s[i].calls)
           /\ Head(b) = s[i].calls[(Len(q) + 1) - i]
<1>1. PICK m \in Shaped : m = q[i] OBVIOUS
<1>2. PICK l \in Nat : l = Len(m.calls) BY CallsAre
<1>3. PICK d \in Nat : d = Len(b) OBVIOUS
<1>4. PICK n \in Nat : n = l - d
  <2>1. l - d >= 0 BY <1>1, <1>2, <1>3 DEF Pending
  <2>2. l - d \in Nat BY <2>1
  <2>3. QED BY <2>2
<1>5. /\ b # <<>> /\ Len(q) = i + n /\ Group(q, i, n)
      /\ \A k \in DOMAIN b : b[k] = m.calls[n + k]
  BY <1>1, <1>2, <1>3, <1>4 DEF Pending
<1>6. DOMAIN q = 1 .. Len(q) /\ DOMAIN b = 1 .. d /\ d >= 1 /\ i \in 1 .. Len(q)
  <2>1. d # 0 BY <1>3, <1>5
  <2>2. QED BY <1>3, <2>1
<1>7. Head(b) = b[1] /\ b[1] \in Nat /\ b[1] = m.calls[n + 1]
  <2>1. 1 \in DOMAIN b BY <1>6
  <2>2. Head(b) = b[1] /\ b[1] \in Nat BY <1>3, <2>1
  <2>3. QED BY <1>5, <2>1, <2>2
<1>8. PICK t \in Seq(Nat) : t = Tail(b)
  <2>1. Tail(b) \in Seq(Nat) BY <1>5
  <2>2. QED BY <2>1
<1>9. Len(t) = d - 1 /\ DOMAIN t = 1 .. d - 1 /\ \A k \in 1 .. d - 1 : t[k] = b[k + 1]
  BY <1>3, <1>5, <1>8
<1>10. PICK r \in Shaped : r = Result(b[1]) BY <1>7, Messages
<1>11. s = Append(q, r) BY <1>7, <1>10
<1>12. /\ s \in Seq(Shaped) /\ Len(s) = i + n + 1
       /\ \A k \in 1 .. i + n : s[k] = q[k]
       /\ s[i + n + 1] = r
  <2>1. PICK y \in Nat : y = Len(q) OBVIOUS
  <2>2. /\ s \in Seq(Shaped) /\ Len(s) = y + 1
        /\ \A k \in 1 .. y : s[k] = q[k]
        /\ s[y + 1] = r
    BY <1>11, <2>1, Appended
  <2>3. y = i + n BY <1>5, <2>1
  <2>4. QED BY <2>2, <2>3
<1>13. s[i] = m BY <1>1, <1>5, <1>6, <1>12
<1>14. \A k \in 1 .. n + 1 : s[i + k] = Result(m.calls[k])
  <2>1. ASSUME NEW k \in 1 .. n + 1 PROVE s[i + k] = Result(m.calls[k])
    <3>1. CASE k = n + 1
      <4>1. i + k = i + n + 1 BY <1>6, <3>1
      <4>2. QED BY <1>7, <1>10, <1>12, <3>1, <4>1
    <3>2. CASE k # n + 1
      <4>1. k \in 1 .. n /\ i + k \in 1 .. i + n BY <1>6, <3>2
      <4>2. QED BY <1>1, <1>5, <1>12, <4>1 DEF Group
    <3>3. QED BY <3>1, <3>2
  <2>2. QED BY <2>1
<1>15. Group(s, i, n + 1)
  <2>1. i + (n + 1) <= Len(s) BY <1>6, <1>12
  <2>2. QED BY <1>13, <1>14, <2>1 DEF Group
<1>16. CASE d = 1
  <2>1. n + 1 = l BY <1>4, <1>16
  <2>2. Group(s, i, Len(s[i].calls)) BY <1>2, <1>13, <1>15, <2>1
  <2>3. t = <<>> BY <1>9, <1>16
  <2>4. (Len(q) + 1) - i = n + 1 BY <1>5, <1>6
  <2>5. QED BY <1>2, <1>6, <1>7, <1>8, <1>13, <2>1, <2>2, <2>3, <2>4
<1>17. CASE d # 1
  <2>1. l - (d - 1) = n + 1 /\ n + 1 <= l BY <1>4, <1>6, <1>17
  <2>2. t # <<>> BY <1>6, <1>9, <1>17
  <2>3. Len(s) = i + (n + 1) BY <1>6, <1>12
  <2>4. \A k \in DOMAIN t : t[k] = m.calls[(n + 1) + k]
    <3>1. ASSUME NEW k \in 1 .. d - 1 PROVE t[k] = m.calls[(n + 1) + k]
      <4>1. k + 1 \in DOMAIN b /\ n + (k + 1) = (n + 1) + k BY <1>6
      <4>2. b[k + 1] = m.calls[n + (k + 1)] BY <1>5, <4>1
      <4>3. QED BY <1>9, <4>1, <4>2
    <3>2. QED BY <1>9, <3>1
  <2>5. Len(s[i].calls) - Len(t) = n + 1 BY <1>2, <1>9, <1>13, <2>1
  <2>6. Pending(s, t, i)
    <3>1. PICK n1 \in Nat : n1 = n + 1 OBVIOUS
    <3>2. Len(s) = i + n1 /\ Group(s, i, n1) /\ n1 = Len(s[i].calls) - Len(t)
      BY <1>15, <2>3, <2>5, <3>1
    <3>3. \A k \in DOMAIN t : t[k] = s[i].calls[n1 + k] BY <1>13, <2>4, <3>1
    <3>4. QED BY <2>2, <3>2, <3>3, PendingFrom
  <2>7. (Len(q) + 1) - i = n + 1 BY <1>5, <1>6
  <2>8. QED BY <1>2, <1>6, <1>7, <1>8, <1>13, <2>1, <2>6, <2>7
<1>18. QED BY <1>16, <1>17

LEMMA ResultAppended ==
    ASSUME NEW q \in Seq(Shaped), NEW b \in Seq(Nat), b # <<>>, NEW T, Fine(q, b, T)
    PROVE  Fine(Append(q, Result(Head(b))), Tail(b), T)
<1>1. Head(b) \in Nat /\ Head(b) = b[1] /\ 1 \in DOMAIN b OBVIOUS
<1>2. PICK r \in Shaped : r = Result(Head(b)) BY <1>1, Messages
<1>3. r.calls = <<>> /\ r.reply = Head(b) BY <1>1, <1>2, Messages
<1>4. PICK s \in Seq(Shaped) : s = Append(q, r) BY Appended
<1>5. PICK l \in Nat : l = Len(q) OBVIOUS
<1>6. Len(s) = l + 1 /\ DOMAIN s = 1 .. l + 1 /\ DOMAIN q = 1 .. l BY <1>4, <1>5, Appended
<1>7. (\A i \in 1 .. l : s[i] = q[i]) /\ s[l + 1] = r BY <1>4, <1>5, Appended
<1>8. s = Append(q, Result(Head(b))) BY <1>2, <1>4
<1>9. \A i \in 1 .. l + 1 : i \in 1 .. l \/ i = l + 1 OBVIOUS
<1>10. Held(s, Tail(b), T)
  <2>1. ASSUME NEW i \in 1 .. l, Ids(s[i]) \cap T = {}
        PROVE  Group(s, i, Len(s[i].calls)) \/ Pending(s, Tail(b), i)
    <3>1. PICK x \in Shaped : x = q[i] /\ x = s[i] BY <1>5, <1>7
    <3>2. PICK n \in Nat : n = Len(x.calls) BY CallsAre
    <3>3. Group(q, i, n) \/ Pending(q, b, i)
      BY <1>6, <2>1, <3>1, <3>2 DEF Fine, Held
    <3>4. CASE Group(q, i, n)
      <4>1. i + n <= l /\ \A k \in 1 .. n : q[i + k] = Result(x.calls[k])
        BY <1>5, <3>1, <3>4 DEF Group
      <4>2. \A k \in 1 .. n : s[i + k] = Result(x.calls[k])
        <5>1. \A k \in 1 .. n : i + k \in 1 .. l BY <4>1
        <5>2. QED BY <1>7, <4>1, <5>1
      <4>3. i + n <= Len(s) BY <1>6, <4>1
      <4>4. QED BY <3>1, <3>2, <4>2, <4>3 DEF Group
    <3>5. CASE Pending(q, b, i)
      <4>1. i \in DOMAIN q BY <1>6
      <4>2. QED BY <1>8, <3>5, <4>1, PendingExtends
    <3>6. QED BY <3>3, <3>4, <3>5
  <2>2. Group(s, l + 1, Len(s[l + 1].calls))
    <3>1. Len(s[l + 1].calls) = 0 /\ 1 .. 0 = {} BY <1>3, <1>7
    <3>2. (l + 1) + 0 <= Len(s) BY <1>6
    <3>3. QED BY <3>1, <3>2 DEF Group
  <2>3. QED BY <1>6, <1>9, <2>1, <2>2 DEF Held
<1>11. Led(s, T)
  <2>1. ASSUME NEW i \in 1 .. l + 1, s[i].role = "tool", s[i].reply \notin T
        PROVE  \E j \in 1 .. i - 1 : i - j <= Len(s[j].calls) /\ s[i].reply = s[j].calls[i - j]
    <3>1. CASE i \in 1 .. l
      <4>1. s[i] = q[i] BY <1>7, <3>1
      <4>2. PICK j \in 1 .. i - 1 : i - j <= Len(q[j].calls) /\ q[i].reply = q[j].calls[i - j]
        BY <1>6, <2>1, <3>1, <4>1 DEF Fine, Led
      <4>3. s[j] = q[j] BY <1>7, <3>1
      <4>4. QED BY <4>1, <4>2, <4>3
    <3>2. CASE i = l + 1
      <4>1. s[i].reply = b[1] BY <1>1, <1>3, <1>7, <3>2
      <4>2. PICK j \in DOMAIN q : Pending(q, b, j) BY <1>1, <2>1, <4>1 DEF Fine, Open
      <4>3. /\ j \in 1 .. l /\ (l + 1) - j <= Len(s[j].calls)
            /\ Head(b) = s[j].calls[(l + 1) - j]
        BY <1>5, <1>8, <4>2, PendingExtends
      <4>4. j \in 1 .. i - 1 BY <3>2, <4>3
      <4>5. QED BY <1>1, <3>2, <4>1, <4>3, <4>4
    <3>3. QED BY <1>9, <3>1, <3>2
  <2>2. QED BY <1>6, <2>1 DEF Led
<1>12. Open(s, Tail(b), T)
  <2>1. CASE \A k \in DOMAIN b : b[k] \in T
    <3>1. \A k \in DOMAIN Tail(b) : k + 1 \in DOMAIN b /\ Tail(b)[k] = b[k + 1] OBVIOUS
    <3>2. QED BY <2>1, <3>1 DEF Open
  <2>2. CASE \E i \in DOMAIN q : Pending(q, b, i)
    <3>1. PICK i \in DOMAIN q : Pending(q, b, i) BY <2>2
    <3>2. Tail(b) = <<>> \/ Pending(s, Tail(b), i) BY <1>8, <3>1, PendingExtends
    <3>3. i \in DOMAIN s BY <1>6
    <3>4. QED BY <3>2, <3>3 DEF Open
  <2>3. QED BY <2>1, <2>2 DEF Fine, Open
<1>13. QED BY <1>8, <1>10, <1>11, <1>12 DEF Fine

-----------------------------------------------------------------------------
(* Batches have ids of their own, and a fault tears a batch as a whole. *)

Batches(q) == {Ids(q[i]) : i \in DOMAIN q}

Apart(M, T, n) ==
    /\ \A A \in M : A \subseteq 1 .. n /\ (A \cap T = {} \/ A \subseteq T)
    /\ \A A, B \in M : A \cap B = {} \/ A = B

LEMMA ApartClosed ==
    ASSUME NEW M, NEW T, NEW n, Apart(M, T, n), NEW q, Batches(q) \subseteq M
    PROVE  Closed(q, T)
<1>1. \A i \in DOMAIN q : Ids(q[i]) \in M BY DEF Batches
<1>2. QED BY <1>1 DEF Closed, Apart

LEMMA ApartKept ==
    ASSUME NEW M, NEW T, NEW n, Apart(M, T, n), NEW M2, M2 \subseteq M \cup {{}}
    PROVE  Apart(M2, T, n)
<1>1. \A A \in M2 : A \in M \/ A = {} OBVIOUS
<1>2. QED BY <1>1 DEF Apart

LEMMA ApartTorn ==
    ASSUME NEW M, NEW T, NEW n, Apart(M, T, n), T \subseteq 1 .. n,
           NEW A, A \in M \cup {{}}
    PROVE  Apart(M, T \cup A, n) /\ T \cup A \subseteq 1 .. n
<1>1. A = {} \/ A \in M OBVIOUS
<1>2. CASE A = {}
  <2>1. T \cup A = T BY <1>2
  <2>2. QED BY <2>1
<1>3. CASE A \in M
  <2>1. A \subseteq 1 .. n BY <1>3 DEF Apart
  <2>2. ASSUME NEW B \in M
        PROVE  B \cap (T \cup A) = {} \/ B \subseteq T \cup A
    <3>1. (B \cap T = {} \/ B \subseteq T) /\ (B \cap A = {} \/ B = A) BY <1>3 DEF Apart
    <3>2. QED BY <3>1
  <2>3. QED BY <2>1, <2>2 DEF Apart
<1>4. QED BY <1>1, <1>2, <1>3

LEMMA ApartNew ==
    ASSUME NEW M, NEW T, NEW n \in Nat, Apart(M, T, n), T \subseteq 1 .. n,
           NEW k \in Nat, NEW A, A = n + 1 .. n + k
    PROVE  Apart(M \cup {A}, T, n + k) /\ Apart(M, T, n + k) /\ T \subseteq 1 .. n + k
<1>1. 1 .. n \subseteq 1 .. n + k /\ A \subseteq 1 .. n + k /\ A \cap 1 .. n = {} OBVIOUS
<1>2. T \subseteq 1 .. n + k BY <1>1
<1>3. ASSUME NEW B \in M
      PROVE  /\ B \subseteq 1 .. n + k /\ (B \cap T = {} \/ B \subseteq T)
             /\ B \cap A = {} /\ A \cap B = {}
  <2>1. B \subseteq 1 .. n /\ (B \cap T = {} \/ B \subseteq T) BY DEF Apart
  <2>2. QED BY <1>1, <2>1
<1>4. A \cap T = {} BY <1>1
<1>5. \A B, C \in M : B \cap C = {} \/ B = C BY DEF Apart
<1>6. Apart(M, T, n + k) BY <1>3, <1>5 DEF Apart
<1>7. \A B \in M \cup {A} : B \in M \/ B = A OBVIOUS
<1>8. Apart(M \cup {A}, T, n + k)
  <2>1. \A B \in M \cup {A} : B \subseteq 1 .. n + k /\ (B \cap T = {} \/ B \subseteq T)
    BY <1>1, <1>3, <1>4, <1>7
  <2>2. \A B, C \in M \cup {A} : B \cap C = {} \/ B = C BY <1>3, <1>5, <1>7
  <2>3. QED BY <2>1, <2>2 DEF Apart
<1>9. QED BY <1>2, <1>6, <1>8

(* Messages of q, or without calls, make no batch of their own.            *)
LEMMA BatchesFrom ==
    ASSUME NEW q, NEW c, \A p \in DOMAIN c : Ids(c[p]) = {} \/ \E i \in DOMAIN q : c[p] = q[i]
    PROVE  Batches(c) \subseteq Batches(q) \cup {{}}
<1>1. ASSUME NEW p \in DOMAIN c PROVE Ids(c[p]) \in Batches(q) \cup {{}}
  <2>1. CASE Ids(c[p]) = {} BY <2>1
  <2>2. CASE \E i \in DOMAIN q : c[p] = q[i] BY <2>2 DEF Batches
  <2>3. QED BY <2>1, <2>2
<1>2. QED BY <1>1 DEF Batches

LEMMA BatchesAppended ==
    ASSUME NEW q \in Seq(Shaped), NEW m \in Shaped
    PROVE  Batches(Append(q, m)) \subseteq Batches(q) \cup {Ids(m)}
<1>1. PICK l \in Nat : l = Len(q) OBVIOUS
<1>2. PICK s \in Seq(Shaped) : s = Append(q, m) BY Appended
<1>3. /\ DOMAIN s = 1 .. l + 1 /\ DOMAIN q = 1 .. l
      /\ (\A i \in 1 .. l : s[i] = q[i]) /\ s[l + 1] = m
  BY <1>1, <1>2, Appended
<1>4. ASSUME NEW p \in 1 .. l + 1 PROVE Ids(s[p]) \in Batches(q) \cup {Ids(m)}
  <2>1. CASE p = l + 1 BY <1>3, <2>1
  <2>2. CASE p # l + 1
    <3>1. p \in DOMAIN q /\ s[p] = q[p] BY <1>3, <2>2
    <3>2. QED BY <3>1 DEF Batches
  <2>3. QED BY <2>1, <2>2
<1>5. Batches(s) \subseteq Batches(q) \cup {Ids(m)} BY <1>3, <1>4 DEF Batches
<1>6. QED BY <1>2, <1>5

LEMMA IdsOfNew ==
    ASSUME NEW n \in Nat, NEW k \in Nat, NEW c, c = [j \in 1 .. k |-> n + j]
    PROVE  c \in Seq(Nat) /\ Len(c) = k /\ Ids(Calling(c)) = n + 1 .. n + k
<1>1. c \in Seq(Nat) /\ Len(c) = k OBVIOUS
<1>2. Calling(c) \in Shaped /\ Calling(c).calls = c BY <1>1, Messages
<1>3. \A x : x \in Ids(Calling(c)) <=> \E j \in 1 .. k : x = c[j]
  <2>1. DOMAIN c = 1 .. k BY <1>1
  <2>2. PICK m : m = Calling(c) OBVIOUS
  <2>3. m.calls = c BY <1>2, <2>2
  <2>4. Ids(m) = {c[j] : j \in DOMAIN c} BY <2>3 DEF Ids
  <2>5. QED BY <2>1, <2>2, <2>4
<1>4. \A j \in 1 .. k : c[j] = n + j OBVIOUS
<1>5. \A x \in n + 1 .. n + k : x - n \in 1 .. k /\ x = n + (x - n) OBVIOUS
<1>6. \A x : x \in Ids(Calling(c)) <=> x \in n + 1 .. n + k
  <2>1. ASSUME NEW x \in Ids(Calling(c)) PROVE x \in n + 1 .. n + k
    <3>1. PICK j \in 1 .. k : x = c[j] BY <1>3
    <3>2. x = n + j BY <1>4, <3>1
    <3>3. QED BY <3>2
  <2>2. ASSUME NEW x \in n + 1 .. n + k PROVE x \in Ids(Calling(c))
    <3>1. x - n \in 1 .. k /\ c[x - n] = x BY <1>4, <1>5
    <3>2. QED BY <1>3, <3>1
  <2>3. QED BY <2>1, <2>2
<1>7. QED BY <1>1, <1>6

-----------------------------------------------------------------------------
(* The inductive invariant: in the store and in memory, a batch that no    *)
(* fault tore is answered in place, or is the one in progress and ends the *)
(* history; a fault tears a batch as a whole.                              *)
TornInv ==
    /\ log \in Seq(Shaped) /\ hist \in Seq(Shaped) /\ batch \in Seq(Nat) /\ ids \in Nat
    /\ torn \subseteq 1 .. ids
    /\ batch # <<>> => pc \in {"batch", "kill"}
    /\ Apart(Batches(log) \cup Batches(hist), torn, ids)
    /\ Fine(log, batch, torn) /\ Fine(hist, batch, torn)

LEMMA TornInit == Init => TornInv
<1> SUFFICES ASSUME Init PROVE TornInv OBVIOUS
<1>1. log = <<>> /\ hist = <<>> /\ batch = <<>> /\ ids = 0 /\ torn = {} BY DEF Init
<1>2. <<>> \in Seq(Shaped) /\ <<>> \in Seq(Nat) /\ DOMAIN <<>> = {} OBVIOUS
<1>3. Settled(<<>>, {}) BY <1>2, PlainSettled
<1>4. Fine(<<>>, <<>>, {}) BY <1>3, FineEmpty
<1>5. Batches(<<>>) = {} BY <1>2 DEF Batches
<1>6. Apart({} \cup {}, {}, 0) BY DEF Apart
<1>7. QED BY <1>1, <1>2, <1>4, <1>5, <1>6 DEF TornInv

(* Outside a batch both histories are settled.                             *)
LEMMA AtRest ==
    ASSUME TornInv, batch = <<>>
    PROVE  Settled(log, torn) /\ Settled(hist, torn)
<1>1. Fine(log, <<>>, torn) /\ Fine(hist, <<>>, torn) BY DEF TornInv
<1>2. QED BY <1>1, FineEmpty

LEMMA TornUnchanged ==
    ASSUME TornInv, UNCHANGED <<log, hist, batch, ids, torn>>,
           batch = <<>> \/ pc' \in {"batch", "kill"}
    PROVE  TornInv'
BY DEF TornInv

LEMMA TornSettled ==
    ASSUME TornInv, batch' = <<>>, UNCHANGED <<ids, torn>>,
           log' \in Seq(Shaped), hist' \in Seq(Shaped),
           Settled(log', torn), Settled(hist', torn),
           Batches(log') \cup Batches(hist') \subseteq Batches(log) \cup Batches(hist) \cup {{}}
    PROVE  TornInv'
<1>1. Fine(log', <<>>, torn) /\ Fine(hist', <<>>, torn) BY FineEmpty
<1>2. Apart(Batches(log) \cup Batches(hist), torn, ids) BY DEF TornInv
<1>3. Apart(Batches(log') \cup Batches(hist'), torn, ids) BY <1>2, ApartKept
<1>4. <<>> \in Seq(Nat) OBVIOUS
<1>5. QED BY <1>1, <1>3, <1>4 DEF TornInv

LEMMA TornByPlain ==
    ASSUME TornInv, batch = <<>>, NEW m \in {User, System, Text},
           log' = Append(log, m), hist' = Append(hist, m) \/ hist' = Append(log, m),
           UNCHANGED <<batch, ids, torn>>
    PROVE  TornInv'
<1>1. log \in Seq(Shaped) /\ hist \in Seq(Shaped) BY DEF TornInv
<1>2. Settled(log, torn) /\ Settled(hist, torn) BY AtRest
<1>3. /\ Append(log, m) \in Seq(Shaped) /\ Settled(Append(log, m), torn)
      /\ Batches(Append(log, m)) \subseteq Batches(log) \cup {{}}
  <2>1. m \in Shaped /\ Ids(m) = {} BY Messages, NoIds
  <2>2. Append(log, m) \in Seq(Shaped) /\ Settled(Append(log, m), torn)
    BY <1>1, <1>2, PlainAppended
  <2>3. QED BY <1>1, <2>1, <2>2, BatchesAppended
<1>4. /\ Append(hist, m) \in Seq(Shaped) /\ Settled(Append(hist, m), torn)
      /\ Batches(Append(hist, m)) \subseteq Batches(hist) \cup {{}}
  <2>1. m \in Shaped /\ Ids(m) = {} BY Messages, NoIds
  <2>2. Append(hist, m) \in Seq(Shaped) /\ Settled(Append(hist, m), torn)
    BY <1>1, <1>2, PlainAppended
  <2>3. QED BY <1>1, <2>1, <2>2, BatchesAppended
<1>5. /\ log' \in Seq(Shaped) /\ Settled(log', torn)
      /\ Batches(log') \subseteq Batches(log) \cup {{}}
  BY <1>3
<1>6. /\ hist' \in Seq(Shaped) /\ Settled(hist', torn)
      /\ Batches(hist') \subseteq Batches(log) \cup Batches(hist) \cup {{}}
  BY <1>3, <1>4
<1>7. QED BY <1>5, <1>6, TornSettled

LEMMA TornByReload ==
    ASSUME TornInv, batch = <<>>, hist' = log \/ hist' = hist, UNCHANGED <<log, batch, ids, torn>>
    PROVE  TornInv'
<1>1. Settled(log, torn) /\ Settled(hist, torn) BY AtRest
<1>2. log \in Seq(Shaped) /\ hist \in Seq(Shaped) BY DEF TornInv
<1>3. Settled(log', torn) /\ Settled(hist', torn) /\ log' \in Seq(Shaped) /\ hist' \in Seq(Shaped)
  BY <1>1, <1>2
<1>4. Batches(log') \cup Batches(hist') \subseteq Batches(log) \cup Batches(hist) \cup {{}}
  <2>1. Batches(log') = Batches(log) OBVIOUS
  <2>2. Batches(hist') = Batches(log) \/ Batches(hist') = Batches(hist) OBVIOUS
  <2>3. QED BY <2>1, <2>2
<1>5. QED BY <1>3, <1>4, TornSettled

LEMMA TornByCompact ==
    ASSUME TornInv, batch = <<>>, NEW flushed \in BOOLEAN, DoCompact(flushed),
           UNCHANGED <<batch, ids, torn>>
    PROVE  TornInv'
<1>1. log \in Seq(Shaped) /\ Settled(log, torn) BY AtRest DEF TornInv
<1>2. Closed(log, torn)
  <2>1. Apart(Batches(log) \cup Batches(hist), torn, ids) BY DEF TornInv
  <2>2. QED BY <2>1, ApartClosed
<1>3. PICK c \in Seq(Shaped) : c = Compacted(log, ProtectLast, flushed)
  BY <1>1, <1>2, CompactedSettled, ProtectLastAssumption
<1>4. /\ Settled(c, torn)
      /\ \A p \in DOMAIN c : Ids(c[p]) = {} \/ \E i \in DOMAIN log : c[p] = log[i]
  BY <1>1, <1>2, <1>3, CompactedSettled, ProtectLastAssumption
<1>5. Batches(c) \subseteq Batches(log) \cup {{}} BY <1>4, BatchesFrom
<1>6. log' = c /\ hist' = c BY <1>3 DEF DoCompact
<1>7. QED BY <1>4, <1>5, <1>6, TornSettled

LEMMA TornByAnswer ==
    ASSUME TornInv, pc \in {"batch", "kill"}, Answer, UNCHANGED <<pc, ids, torn>>
    PROVE  TornInv'
<1>1. PICK r : r = Result(Head(batch)) OBVIOUS
<1>2. batch # <<>> /\ batch \in Seq(Nat) /\ log \in Seq(Shaped) /\ hist \in Seq(Shaped)
  BY DEF Answer, TornInv
<1>3. log' = Append(log, r) /\ hist' = Append(hist, r) /\ batch' = Tail(batch)
  BY <1>1 DEF Answer, Persist
<1>4. Head(batch) \in Nat /\ Tail(batch) \in Seq(Nat) BY <1>2
<1>5. r \in Shaped /\ r.calls = <<>> BY <1>1, <1>4, Messages
<1>6. Append(log, r) \in Seq(Shaped) /\ Append(hist, r) \in Seq(Shaped) BY <1>2, <1>5, Appended
<1>7. Fine(log, batch, torn) /\ Fine(hist, batch, torn) BY DEF TornInv
<1>8. Fine(Append(log, r), Tail(batch), torn) /\ Fine(Append(hist, r), Tail(batch), torn)
  BY <1>1, <1>2, <1>7, ResultAppended
<1>9. Apart(Batches(log) \cup Batches(hist), torn, ids) BY DEF TornInv
<1>10. /\ Batches(Append(log, r)) \subseteq Batches(log) \cup {{}}
       /\ Batches(Append(hist, r)) \subseteq Batches(hist) \cup {{}}
  BY <1>2, <1>5, NoIds, BatchesAppended
<1>11. Apart(Batches(Append(log, r)) \cup Batches(Append(hist, r)), torn, ids)
  BY <1>9, <1>10, ApartKept
<1>12. QED BY <1>3, <1>4, <1>6, <1>8, <1>11 DEF TornInv

LEMMA TornByCalls ==
    ASSUME TornInv, batch = <<>>, NEW n \in Nat \ {0}, Persist(Calling(NewIds(n))),
           batch' = NewIds(n), ids' = ids + n, pc' = "batch", UNCHANGED torn
    PROVE  TornInv'
<1>1. PICK c : c = NewIds(n) OBVIOUS
<1>2. log \in Seq(Shaped) /\ hist \in Seq(Shaped) /\ ids \in Nat /\ torn \subseteq 1 .. ids
  BY DEF TornInv
<1>3. c \in Seq(Nat) /\ Len(c) = n /\ Ids(Calling(c)) = ids + 1 .. ids + n
  <2>1. c = [j \in 1 .. n |-> ids + j] BY <1>1 DEF NewIds
  <2>2. QED BY <1>2, <2>1, IdsOfNew
<1>4. c # <<>> BY <1>3
<1>5. PICK m \in Shaped : m = Calling(c) BY <1>3, Messages
<1>6. log' = Append(log, m) /\ hist' = Append(hist, m) /\ batch' = c BY <1>1, <1>5 DEF Persist
<1>7. Append(log, m) \in Seq(Shaped) /\ Append(hist, m) \in Seq(Shaped) BY <1>2, Appended
<1>8. Settled(log, torn) /\ Settled(hist, torn) BY AtRest
<1>9. Fine(Append(log, m), c, torn) /\ Fine(Append(hist, m), c, torn)
  BY <1>2, <1>3, <1>4, <1>5, <1>8, CallsAppended
<1>10. PICK M : M = Batches(log) \cup Batches(hist) OBVIOUS
<1>11. Apart(M, torn, ids) BY <1>10 DEF TornInv
<1>12. Apart(M \cup {Ids(m)}, torn, ids + n) /\ torn \subseteq 1 .. ids + n
  BY <1>2, <1>3, <1>5, <1>11, ApartNew
<1>13. Batches(Append(log, m)) \cup Batches(Append(hist, m)) \subseteq M \cup {Ids(m)}
  <2>1. /\ Batches(Append(log, m)) \subseteq Batches(log) \cup {Ids(m)}
        /\ Batches(Append(hist, m)) \subseteq Batches(hist) \cup {Ids(m)}
    BY <1>2, BatchesAppended
  <2>2. QED BY <1>10, <2>1
<1>14. Apart(Batches(Append(log, m)) \cup Batches(Append(hist, m)), torn, ids + n)
  BY <1>12, <1>13, ApartKept
<1>15. ids + n \in Nat BY <1>2
<1>16. QED BY <1>3, <1>6, <1>7, <1>9, <1>12, <1>14, <1>15 DEF TornInv

(* A message without calls leaves the last calls what they were.           *)
LEMMA LastCallsKept ==
    ASSUME NEW q \in Seq(Shaped), NEW m \in Shaped, m.calls = <<>>
    PROVE  LastCalls(Append(q, m)) = LastCalls(q)
<1>1. PICK l \in Nat : l = Len(q) OBVIOUS
<1>2. PICK s \in Seq(Shaped) : s = Append(q, m) BY Appended
<1>3. /\ DOMAIN s = 1 .. l + 1 /\ DOMAIN q = 1 .. l
      /\ (\A i \in 1 .. l : s[i] = q[i]) /\ s[l + 1] = m
  BY <1>1, <1>2, Appended
<1> DEFINE inQ == {i \in DOMAIN q : q[i].calls # <<>>}
           inS == {i \in DOMAIN s : s[i].calls # <<>>}
<1>4. inS = inQ
  <2>1. \A i \in inQ : i \in inS BY <1>3
  <2>2. ASSUME NEW i \in inS PROVE i \in inQ
    <3>1. i \in 1 .. l + 1 /\ i # l + 1 BY <1>3
    <3>2. i \in 1 .. l BY <3>1
    <3>3. QED BY <1>3, <3>2
  <2>3. QED BY <2>1, <2>2
<1>5. CASE inQ = {} BY <1>2, <1>4, <1>5 DEF LastCalls
<1>6. CASE inQ # {}
  <2>1. LastCalls(q) = Ids(q[CHOOSE x \in inQ : \A y \in inQ : y <= x])
    BY <1>6 DEF LastCalls
  <2>2. LastCalls(s) = Ids(s[CHOOSE x \in inS : \A y \in inS : y <= x])
    BY <1>4, <1>6 DEF LastCalls
  <2>3. inQ \in SUBSET (1 .. l) BY <1>3
  <2> HIDE DEF inQ, inS
  <2>4. \E x \in inQ : \A y \in inQ : y <= x BY <1>6, <2>3, GreatestExists
  <2>5. PICK x : x = CHOOSE z \in inQ : \A y \in inQ : y <= z OBVIOUS
  <2>6. x \in inQ BY <2>4, <2>5
  <2>7. LastCalls(q) = Ids(q[x]) BY <2>1, <2>5
  <2>8. LastCalls(s) = Ids(s[x]) BY <1>4, <2>2, <2>5
  <2>9. s[x] = q[x] BY <1>3, <2>3, <2>6
  <2>10. QED BY <1>2, <2>7, <2>8, <2>9
<1>7. QED BY <1>5, <1>6

(* A fault while a batch is in progress, or at any other time, tears what  *)
(* there is to tear.                                                       *)
LEMMA TornFor ==
    ASSUME TornInv, NEW A \in Batches(log) \cup Batches(hist) \cup {{}},
           batch = <<>> \/ A = LastCalls(log) \/ A = LastCalls(hist)
    PROVE  /\ Settled(log, torn \cup A) /\ Settled(hist, torn \cup A)
           /\ \A k \in DOMAIN batch : batch[k] \in torn \cup A
           /\ torn \cup A \subseteq 1 .. ids
           /\ Apart(Batches(log) \cup Batches(hist), torn \cup A, ids)
<1>1. log \in Seq(Shaped) /\ hist \in Seq(Shaped) /\ batch \in Seq(Nat) BY DEF TornInv
<1>2. Fine(log, batch, torn) /\ Fine(hist, batch, torn) BY DEF TornInv
<1>3. \A k \in DOMAIN batch : batch[k] \in torn \cup A
  <2>1. CASE batch = <<>> BY <2>1
  <2>2. CASE \A k \in DOMAIN batch : batch[k] \in torn BY <2>2
  <2>3. CASE batch # <<>> /\ ~(\A k \in DOMAIN batch : batch[k] \in torn)
    <3>1. PICK i \in DOMAIN log : Pending(log, batch, i) BY <1>2, <2>3 DEF Fine, Open
    <3>2. PICK j \in DOMAIN hist : Pending(hist, batch, j) BY <1>2, <2>3 DEF Fine, Open
    <3>3. \A k \in DOMAIN batch : batch[k] \in LastCalls(log) BY <1>1, <3>1, PendingLast
    <3>4. \A k \in DOMAIN batch : batch[k] \in LastCalls(hist) BY <1>1, <3>2, PendingLast
    <3>5. QED BY <2>3, <3>3, <3>4
  <2>4. QED BY <2>1, <2>2, <2>3
<1>4. ASSUME NEW q \in Seq(Shaped), NEW i \in DOMAIN q, Pending(q, batch, i)
      PROVE  Ids(q[i]) \cap (torn \cup A) # {}
  <2>1. 1 \in DOMAIN batch /\ batch[1] \in Ids(q[i]) BY <1>1, <1>4, PendingLast
  <2>2. QED BY <1>3, <2>1
<1>5. torn \subseteq torn \cup A OBVIOUS
<1>6. Settled(log, torn \cup A) BY <1>1, <1>2, <1>4, <1>5, TornSettles
<1>7. Settled(hist, torn \cup A) BY <1>1, <1>2, <1>4, <1>5, TornSettles
<1>8. PICK M : M = Batches(log) \cup Batches(hist) OBVIOUS
<1>9. Apart(M, torn, ids) /\ torn \subseteq 1 .. ids BY <1>8 DEF TornInv
<1>10. Apart(M, torn \cup A, ids) /\ torn \cup A \subseteq 1 .. ids
  <2>1. A \in M \cup {{}} BY <1>8
  <2>2. QED BY <1>9, <2>1, ApartTorn, Zenon
<1>11. Apart(Batches(log) \cup Batches(hist), torn \cup A, ids) BY <1>8, <1>10
<1>12. QED BY <1>3, <1>6, <1>7, <1>10, <1>11

LEMMA LastIsMade ==
    ASSUME TornInv
    PROVE  /\ LastCalls(log) \in Batches(log) \cup Batches(hist) \cup {{}}
           /\ LastCalls(hist) \in Batches(log) \cup Batches(hist) \cup {{}}
<1>1. log \in Seq(Shaped) /\ hist \in Seq(Shaped) BY DEF TornInv
<1>2. LastCalls(log) = {} \/ \E i \in DOMAIN log : LastCalls(log) = Ids(log[i])
  BY <1>1, LastCallsAre
<1>3. LastCalls(hist) = {} \/ \E i \in DOMAIN hist : LastCalls(hist) = Ids(hist[i])
  BY <1>1, LastCallsAre
<1>4. QED BY <1>2, <1>3 DEF Batches

LEMMA TornByCrash == TornInv /\ Crash => TornInv'
<1> SUFFICES ASSUME TornInv, Crash PROVE TornInv' OBVIOUS
<1>1. PICK A \in Batches(log) \cup Batches(hist) \cup {{}} :
          torn' = torn \cup A /\ (batch = <<>> \/ A = LastCalls(log))
  <2>1. CASE InBatch
    <3>1. torn' = torn \cup LastCalls(log) BY <2>1 DEF Crash
    <3>2. QED BY <3>1, LastIsMade
  <2>2. CASE ~InBatch
    <3>1. torn' = torn \cup {} /\ batch = <<>> BY <2>2 DEF Crash, InBatch, TornInv
    <3>2. QED BY <3>1
  <2>3. QED BY <2>1, <2>2
<1>2. /\ Settled(log, torn \cup A) /\ torn \cup A \subseteq 1 .. ids
      /\ Apart(Batches(log) \cup Batches(hist), torn \cup A, ids)
  BY <1>1, TornFor
<1>3. /\ log' = log /\ hist' = <<>> /\ batch' = <<>> /\ ids' = ids /\ torn' = torn \cup A
  BY <1>1 DEF Crash
<1>4. <<>> \in Seq(Shaped) /\ <<>> \in Seq(Nat) /\ DOMAIN <<>> = {} OBVIOUS
<1>5. Settled(<<>>, torn \cup A) BY <1>4, PlainSettled
<1>6. Fine(log, <<>>, torn \cup A) /\ Fine(<<>>, <<>>, torn \cup A) BY <1>2, <1>5, FineEmpty
<1>7. Batches(<<>>) = {} BY <1>4 DEF Batches
<1>8. Apart(Batches(log) \cup Batches(<<>>), torn \cup A, ids) BY <1>2, <1>7, ApartKept
<1>9. log \in Seq(Shaped) /\ ids \in Nat BY DEF TornInv
<1>10. QED BY <1>2, <1>3, <1>4, <1>6, <1>8, <1>9 DEF TornInv

LEMMA TornByOtherJob == TornInv /\ ManualMainJob => TornInv'
<1> SUFFICES ASSUME TornInv, ManualMainJob PROVE TornInv' OBVIOUS
<1>1. PICK A \in Batches(log) \cup Batches(hist) \cup {{}} :
          torn' = torn \cup A /\ (batch = <<>> \/ A = LastCalls(log))
  <2>1. CASE InBatch
    <3>1. torn' = torn \cup LastCalls(log) BY <2>1 DEF ManualMainJob
    <3>2. QED BY <3>1, LastIsMade
  <2>2. CASE ~InBatch
    <3>1. torn' = torn \cup {} /\ batch = <<>> BY <2>2 DEF ManualMainJob, InBatch, TornInv
    <3>2. QED BY <3>1
  <2>3. QED BY <2>1, <2>2
<1>2. PICK T2 : T2 = torn \cup A OBVIOUS
<1>3. /\ Settled(log, T2) /\ Settled(hist, T2) /\ T2 \subseteq 1 .. ids
      /\ Apart(Batches(log) \cup Batches(hist), T2, ids)
      /\ \A k \in DOMAIN batch : batch[k] \in T2
  BY <1>1, <1>2, TornFor
<1>4. /\ log \in Seq(Shaped) /\ hist \in Seq(Shaped) /\ batch \in Seq(Nat) /\ ids \in Nat
      /\ batch # <<>> => pc \in {"batch", "kill"}
  BY DEF TornInv
<1>5. PICK b \in Seq(Shaped) : b = <<User, Text>>
  <2>1. <<User, Text>> \in Seq(Shaped) BY Messages
  <2>2. QED BY <2>1
<1>6. \A i \in DOMAIN b : b[i].role # "tool" /\ b[i].calls = <<>> BY <1>5, Messages
<1>7. Settled(b, T2) /\ \A i \in DOMAIN b : Ids(b[i]) = {} BY <1>6, PlainSettled
<1>8. /\ log \o b \in Seq(Shaped) /\ Settled(log \o b, T2)
      /\ \A p \in DOMAIN (log \o b) : \/ \E i \in DOMAIN log : (log \o b)[p] = log[i]
                                      \/ \E i \in DOMAIN b : (log \o b)[p] = b[i]
  BY <1>3, <1>4, <1>7, JoinedSettled
<1>9. PICK c \in Seq(Shaped) : c = log \o b BY <1>8
<1>10. \A p \in DOMAIN c : Ids(c[p]) = {} \/ \E i \in DOMAIN log : c[p] = log[i]
  <2>1. ASSUME NEW p \in DOMAIN c PROVE Ids(c[p]) = {} \/ \E i \in DOMAIN log : c[p] = log[i]
    <3>1. (\E i \in DOMAIN log : c[p] = log[i]) \/ (\E i \in DOMAIN b : c[p] = b[i])
      BY <1>8, <1>9
    <3>2. QED BY <1>7, <3>1
  <2>2. QED BY <2>1
<1>11. Batches(c) \subseteq Batches(log) \cup {{}} BY <1>10, BatchesFrom
<1>12. Apart(Batches(c) \cup Batches(hist), T2, ids) BY <1>3, <1>11, ApartKept
<1>13. Fine(c, batch, T2) /\ Fine(hist, batch, T2) BY <1>3, <1>8, <1>9, SettledIsFine
<1>14. /\ log' = c /\ hist' = hist /\ batch' = batch /\ ids' = ids /\ torn' = T2 /\ pc' = pc
  BY <1>1, <1>2, <1>5, <1>9 DEF ManualMainJob, turnVars
<1>15. QED BY <1>3, <1>4, <1>9, <1>12, <1>13, <1>14 DEF TornInv

(* A write that the store refuses leaves its message in memory only: one   *)
(* without calls outside a batch, the next result of a batch, which is     *)
(* torn, or calls, which are torn at once.                                 *)
LEMMA TornByStore ==
    ASSUME TornInv, NEW m \in BeingWritten, StoreFails(m)
    PROVE  TornInv'
<1>1. /\ log \in Seq(Shaped) /\ hist \in Seq(Shaped) /\ batch \in Seq(Nat) /\ ids \in Nat
      /\ torn \subseteq 1 .. ids
      /\ batch # <<>> => pc \in {"batch", "kill"}
      /\ Apart(Batches(log) \cup Batches(hist), torn, ids)
      /\ Fine(log, batch, torn) /\ Fine(hist, batch, torn)
  BY DEF TornInv
<1>2. /\ log' = log /\ hist' = Append(hist, m) /\ batch' = <<>> /\ ids' = ids + Len(m.calls)
      /\ torn' = IF InBatch \/ m.calls # <<>> THEN torn \cup LastCalls(hist') ELSE torn
  BY DEF StoreFails
<1>3. <<>> \in Seq(Nat) OBVIOUS
<1>4. CASE batch = <<>> /\ m \in {User, Text}
  <2>1. m \in Shaped /\ m.calls = <<>> /\ m \in {User, System, Text} BY <1>4, Messages
  <2>2. torn' = torn /\ ids' = ids
    <3>1. ~InBatch BY <1>4 DEF InBatch
    <3>2. Len(m.calls) = 0 BY <2>1
    <3>3. QED BY <1>1, <1>2, <2>1, <3>1, <3>2
  <2>3. Settled(log, torn) /\ Settled(hist, torn) BY <1>4, AtRest
  <2>4. Append(hist, m) \in Seq(Shaped) /\ Settled(Append(hist, m), torn)
    BY <1>1, <2>1, <2>3, PlainAppended
  <2>5. Ids(m) = {} BY <2>1, NoIds
  <2>6. Batches(Append(hist, m)) \subseteq Batches(hist) \cup {{}}
    BY <1>1, <2>1, <2>5, BatchesAppended
  <2>7. /\ hist' \in Seq(Shaped) /\ log' \in Seq(Shaped)
        /\ Settled(hist', torn) /\ Settled(log', torn)
    BY <1>1, <1>2, <2>3, <2>4
  <2>8. Batches(log') \cup Batches(hist') \subseteq Batches(log) \cup Batches(hist) \cup {{}}
    <3>1. Batches(log') = Batches(log) BY <1>2
    <3>2. Batches(hist') = Batches(Append(hist, m)) BY <1>2
    <3>3. QED BY <2>6, <3>1, <3>2
  <2>9. QED BY <1>2, <2>2, <2>7, <2>8, TornSettled
<1>5. CASE InBatch /\ m = Result(Head(batch))
  <2>1. batch # <<>> /\ Head(batch) \in Nat BY <1>1, <1>5 DEF InBatch
  <2>2. m \in Shaped /\ m.calls = <<>> BY <1>5, <2>1, Messages
  <2>3. PICK A : A = LastCalls(hist) OBVIOUS
  <2>4. A \in Batches(log) \cup Batches(hist) \cup {{}} BY <2>3, LastIsMade
  <2>5. torn' = torn \cup A
    <3>1. LastCalls(Append(hist, m)) = LastCalls(hist) BY <1>1, <2>2, LastCallsKept
    <3>2. torn' = torn \cup LastCalls(hist') BY <1>2, <1>5
    <3>3. QED BY <1>2, <2>3, <3>1, <3>2
  <2>6. ids' = ids
    <3>1. Len(m.calls) = 0 BY <2>2
    <3>2. QED BY <1>1, <1>2, <3>1
  <2>7. PICK T2 : T2 = torn \cup A OBVIOUS
  <2>8. /\ Settled(log, T2) /\ T2 \subseteq 1 .. ids
        /\ Apart(Batches(log) \cup Batches(hist), T2, ids)
        /\ \A k \in DOMAIN batch : batch[k] \in T2
    BY <2>3, <2>4, <2>7, TornFor
  <2>9. PICK s \in Seq(Shaped) : s = Append(hist, m) BY <1>1, <2>2, Appended
  <2>10. PICK t \in Seq(Nat) : t = Tail(batch)
    <3>1. Tail(batch) \in Seq(Nat) BY <1>1, <2>1
    <3>2. QED BY <3>1
  <2>11. Fine(s, t, torn) BY <1>1, <1>5, <2>1, <2>9, <2>10, ResultAppended
  <2>12. ASSUME NEW i \in DOMAIN s, Pending(s, t, i) PROVE Ids(s[i]) \cap T2 # {}
    <3>1. 1 \in DOMAIN t /\ t[1] \in Ids(s[i]) BY <2>12, PendingLast
    <3>2. t[1] = batch[2] /\ 2 \in DOMAIN batch BY <1>1, <2>1, <2>10, <3>1
    <3>3. QED BY <2>8, <3>1, <3>2
  <2>13. torn \subseteq T2 BY <2>7
  <2>14. Settled(s, T2) BY <2>11, <2>12, <2>13, TornSettles
  <2>15. Fine(log, <<>>, T2) /\ Fine(s, <<>>, T2) BY <2>8, <2>14, FineEmpty
  <2>16. Ids(m) = {} BY <2>2, NoIds
  <2>17. Batches(s) \subseteq Batches(hist) \cup {{}}
    BY <1>1, <2>2, <2>9, <2>16, BatchesAppended
  <2>18. Apart(Batches(log) \cup Batches(s), T2, ids) BY <2>8, <2>17, ApartKept
  <2>19. /\ log' = log /\ hist' = s /\ batch' = <<>> /\ ids' = ids /\ torn' = T2
    BY <1>2, <2>5, <2>6, <2>7, <2>9
  <2>20. QED BY <1>1, <1>3, <2>8, <2>15, <2>18, <2>19 DEF TornInv
<1>6. CASE batch = <<>> /\ \E n \in Nat \ {0} : m = Calling(NewIds(n))
  <2>1. PICK n \in Nat \ {0} : m = Calling(NewIds(n)) BY <1>6
  <2>2. PICK c : c = NewIds(n) OBVIOUS
  <2>3. c \in Seq(Nat) /\ Len(c) = n /\ Ids(m) = ids + 1 .. ids + n
    <3>1. c = [j \in 1 .. n |-> ids + j] BY <2>2 DEF NewIds
    <3>2. QED BY <1>1, <2>1, <2>2, <3>1, IdsOfNew
  <2>4. c # <<>> BY <2>3
  <2>5. m \in Shaped /\ m.calls = c /\ m = Calling(c) BY <2>1, <2>2, <2>3, Messages
  <2>6. PICK s \in Seq(Shaped) : s = Append(hist, m) BY <1>1, <2>5, Appended
  <2>7. Settled(log, torn) /\ Settled(hist, torn) BY <1>6, AtRest
  <2>8. Fine(s, c, torn) BY <1>1, <2>3, <2>4, <2>5, <2>6, <2>7, CallsAppended
  <2>9. Pending(s, c, Len(hist) + 1) /\ Len(hist) + 1 \in DOMAIN s
    BY <1>1, <2>3, <2>4, <2>5, <2>6, CallsPending
  <2>10. s[Len(hist) + 1] = m BY <1>1, <2>5, <2>6, Appended
  <2>11. LastCalls(s) = Ids(m) BY <2>3, <2>9, <2>10, PendingLast
  <2>12. PICK T2 : T2 = torn \cup Ids(m) OBVIOUS
  <2>13. torn' = T2 /\ ids' = ids + n BY <1>2, <2>3, <2>4, <2>5, <2>6, <2>11, <2>12
  <2>14. torn \subseteq T2 BY <2>12
  <2>15. \A k \in DOMAIN c : c[k] \in T2 BY <2>3, <2>9, <2>10, <2>12, PendingLast
  <2>16. ASSUME NEW i \in DOMAIN s, Pending(s, c, i) PROVE Ids(s[i]) \cap T2 # {}
    <3>1. 1 \in DOMAIN c /\ c[1] \in Ids(s[i]) BY <2>3, <2>16, PendingLast
    <3>2. QED BY <2>15, <3>1
  <2>17. Settled(s, T2) BY <2>8, <2>14, <2>16, TornSettles
  <2>18. Settled(log, T2)
    <3>1. Fine(log, <<>>, torn) BY <1>1, <1>6
    <3>2. \A i \in DOMAIN log : ~Pending(log, <<>>, i) BY DEF Pending
    <3>3. QED BY <2>14, <3>1, <3>2, TornSettles
  <2>19. Fine(log, <<>>, T2) /\ Fine(s, <<>>, T2) BY <2>17, <2>18, FineEmpty
  <2>20. PICK M : M = Batches(log) \cup Batches(hist) OBVIOUS
  <2>21. Apart(M \cup {Ids(m)}, torn, ids + n) /\ torn \subseteq 1 .. ids + n
    BY <1>1, <2>3, <2>20, ApartNew
  <2>22. Apart(M \cup {Ids(m)}, T2, ids + n) /\ T2 \subseteq 1 .. ids + n
    <3>1. Ids(m) \in (M \cup {Ids(m)}) \cup {{}} OBVIOUS
    <3>2. PICK M2 : M2 = M \cup {Ids(m)} OBVIOUS
    <3>3. PICK n2 : n2 = ids + n OBVIOUS
    <3>4. Apart(M2, torn, n2) /\ torn \subseteq 1 .. n2 /\ Ids(m) \in M2 \cup {{}}
      BY <2>21, <3>1, <3>2, <3>3
    <3>5. Apart(M2, torn \cup Ids(m), n2) /\ torn \cup Ids(m) \subseteq 1 .. n2
      BY <3>4, ApartTorn, Zenon
    <3>6. QED BY <2>12, <3>2, <3>3, <3>5
  <2>23. Batches(log) \cup Batches(s) \subseteq (M \cup {Ids(m)}) \cup {{}}
    BY <1>1, <2>5, <2>6, <2>20, BatchesAppended
  <2>24. Apart(Batches(log) \cup Batches(s), T2, ids + n) BY <2>22, <2>23, ApartKept
  <2>25. ids + n \in Nat BY <1>1
  <2>26. QED BY <1>1, <1>2, <1>3, <2>6, <2>13, <2>19, <2>22, <2>24, <2>25 DEF TornInv
<1>7. \/ batch = <<>> /\ m \in {User, Text}
      \/ InBatch /\ m = Result(Head(batch))
      \/ batch = <<>> /\ \E n \in Nat \ {0} : m = Calling(NewIds(n))
  <2>1. CASE pc = "idle" /\ turns < MaxTurns
    <3>1. batch = <<>> BY <1>1, <2>1
    <3>2. ~InBatch /\ ~MayAsk /\ pc # "retry" BY <2>1 DEF InBatch, MayAsk
    <3>3. BeingWritten = {User} BY <2>1, <3>2 DEF BeingWritten
    <3>4. QED BY <3>1, <3>3
  <2>2. CASE ~(pc = "idle" /\ turns < MaxTurns) /\ InBatch
    <3>1. ~MayAsk /\ pc # "retry" BY <2>2 DEF InBatch, MayAsk
    <3>2. BeingWritten = {Result(Head(batch))} BY <2>2, <3>1 DEF BeingWritten
    <3>3. QED BY <2>2, <3>2
  <2>3. CASE ~(pc = "idle" /\ turns < MaxTurns) /\ ~InBatch /\ MayAsk
    <3>1. batch = <<>> BY <1>1, <2>3 DEF MayAsk
    <3>2. m \in {Text} \cup {Calling(NewIds(n)) : n \in 1 .. MaxBatch}
      BY <2>3 DEF BeingWritten
    <3>3. 1 .. MaxBatch \subseteq Nat \ {0} BY BudgetAssumption
    <3>4. QED BY <3>1, <3>2, <3>3
  <2>4. CASE ~(pc = "idle" /\ turns < MaxTurns) /\ ~InBatch /\ ~MayAsk
    <3>1. m = Text /\ pc = "retry" BY <2>4 DEF BeingWritten
    <3>2. batch = <<>> BY <1>1, <3>1
    <3>3. QED BY <3>1, <3>2
  <2>5. QED BY <2>1, <2>2, <2>3, <2>4
<1>8. QED BY <1>4, <1>5, <1>6, <1>7

LEMMA TornStep == TornInv /\ [Next]_vars => TornInv'
  <1> SUFFICES ASSUME TornInv, [Next]_vars
               PROVE  TornInv'
    OBVIOUS
  <1>1. batch = <<>> \/ pc \in {"batch", "kill"} BY DEF TornInv
  <1>3. ASSUME Complete
        PROVE  TornInv'
    <2>1. CASE OutOfTime \/ OutOfCalls \/ AnswerEmpty \/ AnswerFails
      BY <2>1, <1>1, TornUnchanged
         DEF OutOfTime, OutOfCalls, AnswerEmpty, AnswerFails, Ask, MayAsk, turnVars
    <2>2. CASE KillBatch
      BY <2>2, TornUnchanged DEF KillBatch, Goto
    <2>3. CASE BatchDone
      BY <2>3, TornUnchanged DEF BatchDone, turnVars
    <2>4. CASE AnswerText \/ GiveUpEmpty
      BY <2>4, <1>1, TornByPlain DEF AnswerText, GiveUpEmpty, Persist, Ask, MayAsk, turnVars
    <2>5. CASE \E n \in 1 .. MaxBatch : AnswerCalls(n)
      <3>1. PICK n \in 1 .. MaxBatch : AnswerCalls(n) BY <2>5
      <3>2. n \in Nat \ {0} BY BudgetAssumption
      <3>3. QED BY <3>1, <3>2, <1>1, TornByCalls DEF AnswerCalls, Ask, MayAsk, Goto
    <2>6. CASE \E flushed \in BOOLEAN : EmergencyCompact(flushed)
      BY <2>6, <1>1, TornByCompact DEF EmergencyCompact
    <2>7. CASE DispatchCall \/ BlockCall \/ RefuseCall \/ KillCall
      BY <2>7, TornByAnswer DEF DispatchCall, BlockCall, RefuseCall, KillCall
    <2> QED
      BY <1>3, <2>1, <2>2, <2>3, <2>4, <2>5, <2>6, <2>7 DEF Complete
  <1>4. ASSUME LoopStep
        PROVE  TornInv'
    <2>1. CASE EnsureDb
      BY <2>1, <1>1, TornByReload DEF EnsureDb, turnVars
    <2>2. CASE \E flushed \in BOOLEAN : CompactAfter(flushed)
      BY <2>2, <1>1, TornByCompact DEF CompactAfter, turnVars
    <2>3. CASE EndTurn
      BY <2>3, <1>1, TornUnchanged DEF EndTurn, turnVars
    <2> QED
      BY <1>3, <1>4, <2>1, <2>2, <2>3 DEF LoopStep
  <1>5. ASSUME NEW dirty \in BOOLEAN, Inbound(dirty)
        PROVE  TornInv'
    BY <1>5, <1>1, TornByPlain DEF Inbound
  <1>6. ASSUME Fault
        PROVE  TornInv'
    BY <1>6, TornByStore, TornByCrash, TornByOtherJob DEF Fault
  <1>7. CASE UNCHANGED vars
    BY <1>7, <1>1, TornUnchanged DEF vars, turnVars
  <1> QED
    BY <1>4, <1>5, <1>6, <1>7 DEF Next

(* What the invariant says of a request.                                   *)
LEMMA TornShows == TornInv => OnlyTornBatchesUnanswered
<1> SUFFICES ASSUME TornInv, MayAsk, NEW i \in DOMAIN hist
    PROVE  /\ AnsweredAt(hist, i) \/ Ids(hist[i]) \cap torn # {}
           /\ ~StrayAt(hist, i) \/ hist[i].reply \in torn
  BY DEF OnlyTornBatchesUnanswered
<1>1. batch = <<>> BY DEF MayAsk, TornInv
<1>2. Settled(hist, torn) BY <1>1, AtRest
<1>3. hist \in Seq(Shaped) /\ Apart(Batches(log) \cup Batches(hist), torn, ids) BY DEF TornInv
<1>4. Closed(hist, torn) BY <1>3, ApartClosed
<1>5. DOMAIN hist = 1 .. Len(hist) BY <1>3
<1>6. ASSUME NEW j \in DOMAIN hist, Ids(hist[j]) \cap torn = {}
      PROVE  AnsweredAt(hist, j)
  <2>1. PICK m \in Shaped : m = hist[j] BY <1>3
  <2>2. PICK n \in Nat : n = Len(m.calls) BY CallsAre
  <2>3. Group(hist, j, n) BY <1>2, <1>6, <2>1, <2>2 DEF Settled, Whole
  <2>4. j + n <= Len(hist) /\ \A k \in 1 .. n : hist[j + k] = Result(m.calls[k])
    BY <2>1, <2>3 DEF Group
  <2>5. \A k \in 1 .. n : m.calls[k] \in Nat BY <2>2, CallsAre
  <2>6. \A k \in 1 .. n : hist[j + k].role = "tool" /\ hist[j + k].reply = m.calls[k]
    BY <2>4, <2>5, Messages
  <2>7. {hist[j + k].reply : k \in 1 .. n} = {m.calls[k] : k \in 1 .. n} BY <2>6
  <2>8. Ids(m) = {m.calls[k] : k \in 1 .. n} BY <2>2, CallsAre
  <2>9. QED BY <2>1, <2>2, <2>4, <2>6, <2>7, <2>8 DEF AnsweredAt
<1>7. ASSUME hist[i].reply \notin torn, StrayAt(hist, i) PROVE FALSE
  <2>1. hist[i].role = "tool" BY <1>7 DEF StrayAt
  <2>2. PICK j \in 1 .. i - 1 :
            i - j <= Len(hist[j].calls) /\ hist[i].reply = hist[j].calls[i - j]
    BY <1>2, <1>7, <2>1 DEF Settled, Led
  <2>3. j \in DOMAIN hist /\ hist[j] \in Shaped BY <1>3, <1>5
  <2>4. i - j \in 1 .. Len(hist[j].calls) BY <1>5, <2>2, <2>3, CallsAre
  <2>5. hist[j].calls[i - j] \in Ids(hist[j]) BY <2>3, <2>4, CallsAre
  <2>6. Ids(hist[j]) \cap torn = {} BY <1>4, <1>7, <2>2, <2>3, <2>5 DEF Closed
  <2>7. AnsweredAt(hist, j) BY <1>6, <2>3, <2>6
  <2>8. QED BY <1>7, <2>2, <2>7 DEF StrayAt
<1>8. QED BY <1>6, <1>7

(* _complete, _do_compact and its repairs: every request shows each tool   *)
(* call followed at once by its result, and no other result, in batches    *)
(* that no fault cut; for every budget, protected tail and number of       *)
(* faults.                                                                 *)
THEOREM RequestsAreAnswered == Spec => []OnlyTornBatchesUnanswered
  <1> QED
    BY TornInit, TornStep, TornShows, PTL DEF Spec

LEMMA TornGoalStep == TornInv /\ [GoalNext]_loopVars => TornInv'
  <1> SUFFICES ASSUME TornInv, [GoalNext]_loopVars
               PROVE  TornInv'
    OBVIOUS
  <1>1. batch = <<>> \/ pc \in {"batch", "kill"} BY DEF TornInv
  <1>2. ASSUME NEW dirty \in BOOLEAN, Command(dirty)
        PROVE  TornInv'
    BY <1>1, <1>2, TornByReload DEF Command, turnVars
  <1>3. ASSUME NEW dirty \in BOOLEAN, GoalConfigError(dirty)
        PROVE  TornInv'
    BY <1>1, <1>3, TornByPlain DEF GoalConfigError, turnVars
  <1> QED
    BY <1>2, <1>3, GoalSteps, TornStep

(* So do the requests of a goal's turns, whatever ended the turns before.  *)
THEOREM GoalRequestsAreAnswered == GoalSpec => []OnlyTornBatchesUnanswered
  <1>1. GoalInit => TornInv
    BY TornInit DEF GoalInit
  <1> QED
    BY <1>1, TornGoalStep, TornShows, PTL DEF GoalSpec
=============================================================================
