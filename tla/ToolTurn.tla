----------------------------- MODULE ToolTurn -----------------------------
(***************************************************************************)
(* One channel loop's turns on one session (runtime/loop.py, _complete and *)
(* its callers): the rounds with the model, the tool-call batches, the     *)
(* budgets and timers of a turn, empty answers, context overflow with      *)
(* emergency compaction, compaction after the reply; a store that refuses  *)
(* a write, a process that ends anywhere, and `faff cron run` writing into *)
(* the same session from another process.                                  *)
(*                                                                         *)
(* The model provider and the tools are free to do anything their          *)
(* interfaces allow.  MainSession has the locks and the other loops.       *)
(***************************************************************************)
EXTENDS History

CONSTANTS
    MaxCalls,     \* MAX_LLM_CALLS_PER_TURN
    MaxTools,     \* MAX_TOOL_CALLS_PER_TURN
    MaxRetries,   \* EMPTY_RESPONSE_RETRIES
    ProtectLast,  \* compaction.protect_last_n
    MaxBatch, MaxTurns, MaxFaults   \* bounds of the model

ASSUME BudgetAssumption == {MaxCalls, MaxTools, MaxRetries, MaxBatch, MaxTurns, MaxFaults} \subseteq Nat
ASSUME ProtectLastAssumption == ProtectLast \in Nat \ {0}

VARIABLES
    log,       \* the session's messages in the store
    hist,      \* Loop.history
    pc,        \* where the turn is
    calls,     \* llm_call_count
    tools,     \* tool_call_count
    retries,   \* attempts at an empty answer
    compacted, \* compacted_this_turn
    batch,     \* calls of the last answer that have no result yet
    \* bounds
    ids, turns, faults,
    \* history, for the properties only
    asked,     \* requests of this turn
    ran,       \* tool calls dispatched this turn
    torn,      \* calls of batches that a fault cut
    apart      \* the copy in memory and the store went different ways

turnVars == <<calls, tools, retries, compacted, batch, asked, ran>>
vars == <<log, hist, pc, turnVars, ids, turns, faults, torn, apart>>

Init ==
    /\ log = <<>> /\ hist = <<>>
    /\ pc = "off"
    /\ calls = 0 /\ tools = 0 /\ retries = 0 /\ compacted = FALSE /\ batch = <<>>
    /\ ids = 0 /\ turns = 0 /\ faults = 0
    /\ asked = 0 /\ ran = 0
    /\ torn = {}
    /\ apart = FALSE

(* Append to the history and _persist_message. *)
Persist(m) == log' = Append(log, m) /\ hist' = Append(hist, m)

Goto(place) == pc' = place

(* Faults that a run of the model may take. *)
Faulty == faults < MaxFaults /\ faults' = faults + 1

-----------------------------------------------------------------------------
(* The turn begins *)

EnsureDb ==
    /\ pc = "off"
    /\ hist' = log
    /\ apart' = FALSE
    /\ Goto("idle")
    /\ UNCHANGED <<log, turnVars, ids, turns, faults, torn>>

(* handle_message and _goal_turn: a copy that another writer marked dirty  *)
(* is reloaded before the inbound message is appended.                     *)
Inbound(dirty) ==
    /\ pc = "idle"
    /\ turns < MaxTurns
    /\ turns' = turns + 1
    /\ log' = Append(log, User)
    /\ hist' = Append(IF dirty THEN log ELSE hist, User)
    /\ apart' = (apart /\ ~dirty)
    /\ calls' = 0 /\ tools' = 0 /\ retries' = 0 /\ compacted' = FALSE
    /\ asked' = 0 /\ ran' = 0
    /\ Goto("ask")
    /\ UNCHANGED <<batch, ids, faults, torn>>

-----------------------------------------------------------------------------
(* Rounds with the model *)

(* _check_turn_duration, or the budget of requests. *)
OutOfTime ==
    /\ pc = "ask"
    /\ Goto("after")
    /\ UNCHANGED <<log, hist, turnVars, ids, turns, faults, torn, apart>>

OutOfCalls ==
    /\ pc = "ask"
    /\ calls >= MaxCalls
    /\ calls' = calls + 1
    /\ Goto("after")
    /\ UNCHANGED <<log, hist, tools, retries, compacted, batch, asked, ran, ids, turns,
                   faults, torn, apart>>

(* Mutant: a retry after an empty answer is not counted. *)
MayAskFreely ==
    \/ pc = "ask" /\ calls < MaxCalls
    \/ pc = "retry" /\ retries < MaxRetries

MayAsk ==
    /\ calls < MaxCalls
    /\ \/ pc = "ask"
       \/ pc = "retry" /\ retries < MaxRetries

(* One request, with its counting; the nudge of a retry is popped whatever *)
(* the request does.                                                       *)
Ask ==
    /\ MayAsk
    /\ calls' = calls + 1
    /\ asked' = asked + 1

AnswerText ==
    /\ Ask
    /\ Persist(Text)
    /\ Goto("after")
    /\ UNCHANGED <<tools, retries, compacted, batch, ran, ids, turns, faults, torn, apart>>

NewIds(n) == [k \in 1 .. n |-> ids + k]

AnswerCalls(n) ==
    /\ Ask
    /\ Persist(Calling(NewIds(n)))
    /\ batch' = NewIds(n)
    /\ ids' = ids + n
    /\ retries' = 0
    /\ Goto("batch")
    /\ UNCHANGED <<tools, compacted, ran, turns, faults, torn, apart>>

(* Mutant: the nudge of a retry stays. *)
AnswerEmptyKeepsNudge ==
    /\ Ask
    /\ retries' = IF pc = "retry" THEN retries + 1 ELSE 0
    /\ hist' = IF pc = "retry" THEN Append(hist, System) ELSE hist
    /\ Goto("retry")
    /\ UNCHANGED <<log, tools, compacted, batch, ran, ids, turns, faults, torn, apart>>

AnswerEmpty ==
    /\ Ask
    /\ retries' = IF pc = "retry" THEN retries + 1 ELSE 0
    /\ Goto("retry")
    /\ UNCHANGED <<log, hist, tools, compacted, batch, ran, ids, turns, faults, torn, apart>>

(* Retries or requests are used up: an error text stands in for an answer. *)
GiveUpEmpty ==
    /\ pc = "retry"
    /\ ~MayAsk
    /\ Persist(Text)
    /\ Goto("after")
    /\ UNCHANGED <<turnVars, ids, turns, faults, torn, apart>>

(* Every provider is exhausted, or a retry overflows the context: the turn *)
(* fails, and _turn contains it.                                           *)
AnswerFails ==
    /\ Ask
    /\ Goto("idle")
    /\ UNCHANGED <<log, hist, tools, retries, compacted, batch, ran, ids, turns, faults,
                   torn, apart>>

(* _do_compact: the history is read back from the store. *)
DoCompact(flushed) ==
    /\ log' = Compacted(log, ProtectLast, flushed)
    /\ hist' = log'
    /\ apart' = FALSE

(* Mutant: the turn starts afresh after an emergency compaction. *)
CompactAndStartAfresh(flushed) ==
    /\ pc = "ask"
    /\ MayAsk
    /\ ~compacted
    /\ DoCompact(flushed)
    /\ calls' = 0 /\ asked' = 0 /\ compacted' = FALSE
    /\ UNCHANGED <<pc, tools, retries, batch, ran, ids, turns, faults, torn>>

(* ContextLengthError, the first of this turn. *)
EmergencyCompact(flushed) ==
    /\ pc = "ask"
    /\ Ask
    /\ ~compacted
    /\ DoCompact(flushed)
    /\ compacted' = TRUE
    /\ UNCHANGED <<pc, tools, retries, batch, ran, ids, turns, faults, torn>>

-----------------------------------------------------------------------------
(* The batch of tool calls *)

(* A result for the next call of the batch. *)
Answer ==
    /\ batch # <<>>
    /\ Persist(Result(Head(batch)))
    /\ batch' = Tail(batch)

(* Dispatched: it returned, raised, or was abandoned at its timeout. *)
DispatchCall ==
    /\ pc = "batch"
    /\ tools < MaxTools
    /\ Answer
    /\ tools' = tools + 1
    /\ ran' = ran + 1
    /\ UNCHANGED <<pc, calls, retries, compacted, asked, ids, turns, faults, torn, apart>>

(* Blocked by the scan of its name and arguments. *)
BlockCall ==
    /\ pc = "batch"
    /\ tools < MaxTools
    /\ Answer
    /\ tools' = tools + 1
    /\ UNCHANGED <<pc, calls, retries, compacted, asked, ran, ids, turns, faults, torn,
                   apart>>

(* Mutant: the rest of the batch is dropped at the limit. *)
DropCall ==
    /\ pc = "batch"
    /\ tools >= MaxTools
    /\ batch # <<>>
    /\ batch' = <<>>
    /\ tools' = tools + 1
    /\ UNCHANGED <<log, hist, pc, calls, retries, compacted, asked, ran, ids, turns,
                   faults, torn, apart>>

(* Over the limit: answered without a dispatch. *)
RefuseCall ==
    /\ pc = "batch"
    /\ tools >= MaxTools
    /\ Answer
    /\ tools' = tools + 1
    /\ UNCHANGED <<pc, calls, retries, compacted, asked, ran, ids, turns, faults, torn,
                   apart>>

(* The timer runs out at a call: that one and the rest are answered with   *)
(* an error, one by one, and the turn ends.                                *)
KillBatch ==
    /\ pc = "batch"
    /\ batch # <<>>
    /\ tools < MaxTools
    /\ tools' = tools + 1
    /\ Goto("kill")
    /\ UNCHANGED <<log, hist, calls, retries, compacted, batch, asked, ran, ids, turns,
                   faults, torn, apart>>

KillCall ==
    /\ pc = "kill"
    /\ Answer
    /\ UNCHANGED <<pc, calls, tools, retries, compacted, asked, ran, ids, turns, faults,
                   torn, apart>>

BatchDone ==
    /\ pc \in {"batch", "kill"}
    /\ batch = <<>>
    /\ Goto(IF pc = "kill" \/ tools > MaxTools THEN "after" ELSE "ask")
    /\ UNCHANGED <<log, hist, turnVars, ids, turns, faults, torn, apart>>

-----------------------------------------------------------------------------
(* After the reply: _maybe_compact, which never fails the turn *)

CompactAfter(flushed) ==
    /\ pc = "after"
    /\ DoCompact(flushed)
    /\ Goto("idle")
    /\ UNCHANGED <<turnVars, ids, turns, faults, torn>>

EndTurn ==
    /\ pc = "after"
    /\ Goto("idle")
    /\ UNCHANGED <<log, hist, turnVars, ids, turns, faults, torn, apart>>

-----------------------------------------------------------------------------
(* Faults *)

LastCalls(q) ==
    LET calling == {i \in DOMAIN q : q[i].calls # <<>>}
    IN  IF calling = {} THEN {} ELSE Ids(q[CHOOSE i \in calling : \A j \in calling : j <= i])

InBatch == pc \in {"batch", "kill"} /\ batch # <<>>

BeingWritten ==
    CASE pc = "idle" /\ turns < MaxTurns -> {User}
      [] InBatch -> {Result(Head(batch))}
      [] MayAsk -> {Text} \cup {Calling(NewIds(n)) : n \in 1 .. MaxBatch}
      [] pc = "retry" /\ ~MayAsk -> {Text}
      [] OTHER -> {}

(* append_message raises (locked, disk full): the message stays in memory, *)
(* nothing catches it before _turn, and the rest of a batch gets no result.*)
StoreFails(m) ==
    /\ Faulty
    /\ hist' = Append(hist, m)
    /\ apart' = TRUE
    /\ torn' = IF InBatch \/ m.calls # <<>> THEN torn \cup LastCalls(hist') ELSE torn
    /\ batch' = <<>>
    /\ ids' = ids + Len(m.calls)
    /\ Goto("idle")
    /\ UNCHANGED <<log, calls, tools, retries, compacted, asked, ran, turns>>

(* The process ends. *)
Crash ==
    /\ pc # "off"
    /\ Faulty
    /\ torn' = IF InBatch THEN torn \cup LastCalls(log) ELSE torn
    /\ hist' = <<>>
    /\ batch' = <<>>
    /\ Goto("off")
    /\ UNCHANGED <<log, calls, tools, retries, compacted, asked, ran, ids, turns, apart>>

(* `faff cron run` of a session=main job, which takes no lock of ours. *)
ManualMainJob ==
    /\ Faulty
    /\ log' = log \o <<User, Text>>
    /\ apart' = (pc # "off")
    /\ torn' = IF InBatch THEN torn \cup LastCalls(log) ELSE torn
    /\ UNCHANGED <<hist, pc, turnVars, ids, turns>>

-----------------------------------------------------------------------------
Complete ==
    \/ OutOfTime \/ OutOfCalls
    \/ AnswerText \/ AnswerEmpty \/ GiveUpEmpty \/ AnswerFails
    \/ \E n \in 1 .. MaxBatch : AnswerCalls(n)
    \/ \E flushed \in BOOLEAN : EmergencyCompact(flushed)
    \/ DispatchCall \/ BlockCall \/ RefuseCall \/ KillBatch \/ KillCall \/ BatchDone

LoopStep ==
    \/ EnsureDb
    \/ Complete
    \/ \E flushed \in BOOLEAN : CompactAfter(flushed)
    \/ EndTurn

Fault ==
    \/ \E m \in BeingWritten : StoreFails(m)
    \/ Crash
    \/ ManualMainJob

Next ==
    \/ LoopStep
    \/ \E dirty \in BOOLEAN : Inbound(dirty)
    \/ Fault

Spec == Init /\ [][Next]_vars

(* The loop's thread runs, and a request or a dispatch comes back by its   *)
(* timeout.  Nobody has to write to the agent.                             *)
FairSpec == Spec /\ WF_vars(LoopStep)

-----------------------------------------------------------------------------
(* The shape of every variable; calls wait for a result only in a batch. *)
TypeOK ==
    /\ log \in Seq(Message) /\ hist \in Seq(Message)
    /\ pc \in {"off", "idle", "ask", "retry", "batch", "kill", "after"}
    /\ {calls, tools, retries, ids, turns, faults, asked, ran} \subseteq Nat
    /\ compacted \in BOOLEAN /\ apart \in BOOLEAN
    /\ batch \in Seq(Nat)
    /\ torn \subseteq Nat
    /\ batch # <<>> => pc \in {"batch", "kill"}

(* Every request shows each tool call followed at once by its result, and  *)
(* no other result, whatever limits, timers, failures and compactions did  *)
(* on the way: only a batch that a fault cut in two is excepted.           *)
OnlyTornBatchesUnanswered ==
    MayAsk =>
        \A i \in DOMAIN hist :
            /\ AnsweredAt(hist, i) \/ Ids(hist[i]) \cap torn # {}
            /\ ~StrayAt(hist, i) \/ hist[i].reply \in torn

(* Between turns and at every request the history in memory is the one in  *)
(* the store, unless a write failed or another process wrote: no nudge and *)
(* no half-applied compaction stays behind.                                *)
MemoryIsTheStore == pc \in {"idle", "ask", "retry"} /\ ~apart => hist = log

(* The turn's budgets hold in total, retries, emergency compactions and    *)
(* refused calls included.                                                 *)
TurnBudget == asked <= MaxCalls /\ ran <= MaxTools

(* Whatever the model and the tools do, every turn comes to its end. *)
TurnEnds == pc = "ask" ~> pc \in {"idle", "off"}
=============================================================================
