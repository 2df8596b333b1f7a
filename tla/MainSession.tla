--------------------------- MODULE MainSession ---------------------------
(***************************************************************************)
(* The conversation that every channel shares: the session store           *)
(* (runtime/session.py, SQLite, one connection per thread), the channel    *)
(* loops that keep a copy of their session's history in memory             *)
(* (runtime/loop.py), the scheduler thread that writes into the main       *)
(* session (runtime/scheduler.py), and an operator's `faff cron run`,      *)
(* which is another process with a lock of its own.                        *)
(*                                                                         *)
(* A turn holds _main_session_lock from before the refresh until after the *)
(* last persist.  A loop learns of others' writes by its history_dirty     *)
(* event alone.  Contents are abstracted: a message is known by who wrote  *)
(* it.  Transactions of the store are single steps; of the work of another *)
(* process, each row it appends is a step, for nothing holds ours back.    *)
(***************************************************************************)
EXTENDS Integers, Sequences, FiniteSets

CONSTANTS
    Loop,        \* channel loops of `faff run`
    Key,         \* session keys: MAIN_SESSION_KEY and group rooms
    Main,        \* MAIN_SESSION_KEY
    Cron,        \* the scheduler thread, as an owner of the lock
    Nobody,      \* the lock is free
    NoKey,       \* a session not created yet
    Exchange,    \* rows of a session=main job: prompt and reply, or four, with a
                 \* stale ack in front of the reply and the request for more
    MaxTurn,     \* bounds: turns and jobs that write, sessions,
    MaxSession,
    MaxMessage,  \* messages of a turn,
    MaxOutside   \* runs of `faff cron run` and ends of the process

ASSUME NamesAssumption ==
    Main \in Key /\ NoKey \notin Key /\ {Cron, Nobody} \cap Loop = {} /\ Cron # Nobody
ASSUME BoundsAssumption ==
    {MaxTurn, MaxSession, MaxMessage, MaxOutside} \cup Exchange \subseteq Nat

Session == 1 .. MaxSession
NoSession == 0

(* A message: the n-th of what one turn or job wrote. *)
Writer == {"loop", "cron", "manual", "compaction"}
Message == [turn : Nat, n : Nat, by : Writer]

VARIABLES
    \* sessions.db
    log,      \* get_history of every session
    keyOf,    \* sessions.channel_id
    active,   \* sessions.active
    \* process
    lock,     \* owner of _main_session_lock
    dirty,    \* history_dirty event of each loop
    \* each loop
    pc, key,  \* _active_key
    sess,     \* _session_id
    hist,     \* history
    turn,     \* the turn in progress,
    said,     \* and the messages it has written
    \* the scheduler thread
    cron,     \* where it is, in which session, and what it wrote there
    \* runs of `faff cron run` that write to a session
    manual,
    \* bounds, and messages whose writer ends without signalling the loops
    turns, manuals, crashes, hushed

storeVars == <<log, keyOf, active>>
loopVars == <<pc, key, sess, hist, turn, said>>
boundVars == <<turns, manuals, crashes>>
vars == <<storeVars, lock, dirty, loopVars, cron, manual, boundVars, hushed>>

Elements(s) == {s[i] : i \in DOMAIN s}

NoJob == [at |-> "idle", turn |-> 0, sess |-> NoSession, n |-> 0, wrote |-> {}]

(* A job has an exchange that is longer. *)
Unfinished(n) == \E e \in Exchange : n < e

Init ==
    /\ log = [s \in Session |-> <<>>]
    /\ keyOf = [s \in Session |-> NoKey]
    /\ active = [s \in Session |-> FALSE]
    /\ lock = Nobody
    /\ dirty = [c \in Loop |-> FALSE]
    /\ pc = [c \in Loop |-> "off"]
    /\ key = [c \in Loop |-> Main]
    /\ sess = [c \in Loop |-> NoSession]
    /\ hist = [c \in Loop |-> <<>>]
    /\ turn = [c \in Loop |-> 0]
    /\ said = [c \in Loop |-> 0]
    /\ cron = NoJob
    /\ manual = {}
    /\ turns = 0 /\ manuals = 0 /\ crashes = 0
    /\ hushed = {}

-----------------------------------------------------------------------------
(* SessionStore *)

ActiveOf(k) == {s \in Session : active[s] /\ keyOf[s] = k}

Unused == {s \in Session : keyOf[s] = NoKey}

Oldest(S) == CHOOSE s \in S : \A t \in S : s <= t

(* _create_session *)
CreateSession(k, s, act) ==
    /\ Unused # {}
    /\ s = Oldest(Unused)
    /\ keyOf' = [keyOf EXCEPT ![s] = k]
    /\ active' = [act EXCEPT ![s] = TRUE]

(* get_or_create_main_session, one BEGIN IMMEDIATE transaction *)
OpenSession(k, s) ==
    \/ s \in ActiveOf(k) /\ UNCHANGED <<keyOf, active>>
    \/ ActiveOf(k) = {} /\ CreateSession(k, s, active)

(* deactivate_session, then get_or_create_main_session *)
ReplaceSession(k, old, s) ==
    LET rest == [active EXCEPT ![old] = FALSE]
    IN  \/ s \in ActiveOf(k) \ {old} /\ active' = rest /\ UNCHANGED keyOf
        \/ ActiveOf(k) \subseteq {old} /\ CreateSession(k, s, rest)

(* Every rotation: end the active main session and open the next.  With    *)
(* none active the code ends the empty one it has just created.            *)
RotateMain ==
    \E s \in Session :
        \/ \E old \in ActiveOf(Main) : ReplaceSession(Main, old, s)
        \/ ActiveOf(Main) = {} /\ CreateSession(Main, s, active)

NewTurn == turns < MaxTurn /\ turns' = turns + 1

(* Mutant: only the loop that wrote knows. *)
NoPeers(c) == dirty

(* _notify_peers *)
Peers(c) == [d \in Loop |-> d # c \/ dirty[d]]

-----------------------------------------------------------------------------
(* A channel loop *)

(* run() opens the store before it holds the lock. *)
EnsureDb(c) ==
    /\ pc[c] = "off"
    /\ \E s \in Session :
          /\ OpenSession(Main, s)
          /\ sess' = [sess EXCEPT ![c] = s]
          /\ hist' = [hist EXCEPT ![c] = log[s]]
    /\ pc' = [pc EXCEPT ![c] = "idle"]
    /\ UNCHANGED <<log, lock, dirty, key, turn, said, cron, manual, boundVars, hushed>>

(* _turn under the lock up to the first persist: _switch_session, then     *)
(* _check_session_rotated and _check_history_dirty.  A goal turn is one    *)
(* that stays with the key the loop has.                                   *)
BeginTurn(c, k) ==
    /\ pc[c] = "idle"
    /\ lock = Nobody
    /\ NewTurn
    /\ lock' = c
    /\ \E s \in Session :
          /\ OpenSession(k, s)
          /\ hist' = IF s # sess[c] \/ dirty[c] THEN [hist EXCEPT ![c] = log[s]] ELSE hist
          /\ sess' = [sess EXCEPT ![c] = s]
    /\ key' = [key EXCEPT ![c] = k]
    /\ dirty' = [dirty EXCEPT ![c] = FALSE]
    /\ turn' = [turn EXCEPT ![c] = turns']
    /\ said' = [said EXCEPT ![c] = 0]
    /\ pc' = [pc EXCEPT ![c] = "open"]
    /\ UNCHANGED <<log, cron, manual, manuals, crashes, hushed>>

NextMessage(c) == [turn |-> turn[c], n |-> said[c] + 1, by |-> "loop"]

(* _persist_message beside the append to the loop's own history. *)
Persist(c) ==
    /\ said' = [said EXCEPT ![c] = @ + 1]
    /\ hist' = [hist EXCEPT ![c] = Append(@, NextMessage(c))]
    /\ log' = [log EXCEPT ![sess[c]] = Append(@, NextMessage(c))]
    /\ dirty' = Peers(c)

PersistInbound(c) ==
    /\ pc[c] = "open"
    /\ Persist(c)
    /\ pc' = [pc EXCEPT ![c] = "ask"]
    /\ UNCHANGED <<keyOf, active, lock, key, sess, turn, cron, manual, boundVars, hushed>>

(* An assistant message with tool calls, or the result of one. *)
PersistStep(c) ==
    /\ pc[c] = "ask"
    /\ said[c] < MaxMessage - 1
    /\ Persist(c)
    /\ UNCHANGED <<keyOf, active, lock, pc, key, sess, turn, cron, manual, boundVars, hushed>>

(* Mutant: the reply goes to the session that is active by now. *)
PersistReplyToActive(c) ==
    /\ pc[c] = "ask"
    /\ said' = [said EXCEPT ![c] = @ + 1]
    /\ hist' = [hist EXCEPT ![c] = Append(@, NextMessage(c))]
    /\ \E s \in ActiveOf(key[c]) :
          log' = [log EXCEPT ![s] = Append(@, NextMessage(c))]
    /\ dirty' = Peers(c)
    /\ pc' = [pc EXCEPT ![c] = "done"]
    /\ UNCHANGED <<keyOf, active, lock, key, sess, turn, cron, manual, boundVars, hushed>>

PersistReply(c) ==
    /\ pc[c] = "ask"
    /\ Persist(c)
    /\ pc' = [pc EXCEPT ![c] = "done"]
    /\ UNCHANGED <<keyOf, active, lock, key, sess, turn, cron, manual, boundVars, hushed>>

(* The store refuses the write (locked, disk full): the message stays in   *)
(* memory only and the turn fails.                                         *)
PersistFails(c) ==
    /\ pc[c] \in {"open", "ask"}
    /\ hist' = [hist EXCEPT ![c] = Append(@, NextMessage(c))]
    /\ pc' = [pc EXCEPT ![c] = "idle"]
    /\ lock' = Nobody
    /\ turn' = [turn EXCEPT ![c] = 0] /\ said' = [said EXCEPT ![c] = 0]
    /\ UNCHANGED <<storeVars, dirty, key, sess, cron, manual, boundVars, hushed>>

(* /clear, and /new once the memory flush has run. *)
ClearSession(c) ==
    /\ pc[c] = "open"
    /\ \E s \in Session :
          /\ ReplaceSession(key[c], sess[c], s)
          /\ sess' = [sess EXCEPT ![c] = s]
    /\ hist' = [hist EXCEPT ![c] = <<>>]
    /\ dirty' = Peers(c)
    /\ pc' = [pc EXCEPT ![c] = "done"]
    /\ UNCHANGED <<log, lock, key, turn, said, cron, manual, boundVars, hushed>>

Summary(c) == [turn |-> turn[c], n |-> 0, by |-> "compaction"]

(* _do_compact, for /compact, after a reply, and once in the middle of a   *)
(* turn the model finds too long: a summary replaces all but the tail.     *)
(* This loop reloads; nobody signals the others.                           *)
Compact(c) ==
    /\ \/ pc[c] \in {"open", "done"} /\ pc' = [pc EXCEPT ![c] = "compacted"]
       \/ pc[c] = "ask" /\ Summary(c) \notin Elements(hist[c]) /\ UNCHANGED pc
    /\ Len(log[sess[c]]) > 1
    /\ LET old == log[sess[c]]
       IN  log' = [log EXCEPT ![sess[c]] = <<Summary(c), old[Len(old)]>>]
    /\ hushed' = hushed \cup {Summary(c)}
    /\ hist' = [hist EXCEPT ![c] = log'[sess[c]]]
    /\ UNCHANGED <<keyOf, active, lock, dirty, key, sess, turn, said, cron, manual, boundVars>>

(* The reply is sent after the lock is released.  A turn that fails ends   *)
(* here too.                                                               *)
EndTurn(c) ==
    /\ lock = c
    /\ lock' = Nobody
    /\ pc' = [pc EXCEPT ![c] = "idle"]
    /\ turn' = [turn EXCEPT ![c] = 0] /\ said' = [said EXCEPT ![c] = 0]
    /\ UNCHANGED <<storeVars, dirty, key, sess, hist, cron, manual, boundVars, hushed>>

-----------------------------------------------------------------------------
(* The scheduler thread *)

(* A delivered job of any mode but session=main: the message is out.       *)
Deliver ==
    /\ cron.at = "idle"
    /\ NewTurn
    /\ cron' = [NoJob EXCEPT !.at = "sent", !.turn = turns']
    /\ UNCHANGED <<storeVars, lock, dirty, loopVars, manual, manuals, crashes, hushed>>

(* Mutant: without the lock. *)
RecordDeliveryUnlocked ==
    /\ cron.at = "sent"
    /\ \E s \in Session :
          LET m == [turn |-> cron.turn, n |-> 1, by |-> "cron"]
          IN  /\ OpenSession(Main, s)
              /\ log' = [log EXCEPT ![s] = Append(@, m)]
              /\ cron' = [cron EXCEPT !.at = "signal", !.sess = s, !.wrote = {m}]
    /\ UNCHANGED <<lock, dirty, loopVars, manual, boundVars, hushed>>

(* _record_delivery *)
RecordDelivery ==
    /\ cron.at = "sent"
    /\ lock = Nobody
    /\ \E s \in Session :
          LET m == [turn |-> cron.turn, n |-> 1, by |-> "cron"]
          IN  /\ OpenSession(Main, s)
              /\ log' = [log EXCEPT ![s] = Append(@, m)]
              /\ cron' = [cron EXCEPT !.at = "signal", !.sess = s, !.wrote = {m}]
    /\ UNCHANGED <<lock, dirty, loopVars, manual, boundVars, hushed>>

(* _record_and_signal: an sqlite3.Error ends it without a signal. *)
RecordFails ==
    /\ cron.at = "sent"
    /\ cron' = NoJob
    /\ UNCHANGED <<storeVars, lock, dirty, loopVars, manual, boundVars, hushed>>

Signal ==
    /\ cron.at = "signal"
    /\ dirty' = [c \in Loop |-> TRUE]
    /\ cron' = NoJob
    /\ UNCHANGED <<storeVars, lock, loopVars, manual, boundVars, hushed>>

(* _run_main holds the lock over its calls to the model. *)
BeginMainJob ==
    /\ cron.at = "idle"
    /\ lock = Nobody
    /\ NewTurn
    /\ lock' = Cron
    /\ \E s \in Session :
          /\ OpenSession(Main, s)
          /\ cron' = [NoJob EXCEPT !.at = "main", !.turn = turns', !.sess = s]
    /\ UNCHANGED <<log, dirty, loopVars, manual, manuals, crashes, hushed>>

(* The exchange is written when the final reply is not blank, row by row. *)
AppendMainJob ==
    /\ cron.at = "main" /\ Unfinished(cron.n)
    /\ LET m == [turn |-> cron.turn, n |-> cron.n + 1, by |-> "cron"]
       IN  /\ log' = [log EXCEPT ![cron.sess] = Append(@, m)]
           /\ cron' = [cron EXCEPT !.n = @ + 1, !.wrote = @ \cup {m}]
    /\ UNCHANGED <<keyOf, active, lock, dirty, loopVars, manual, boundVars, hushed>>

EndMainJob ==
    /\ cron.at = "main" /\ cron.n \in Exchange
    /\ lock' = Nobody
    /\ cron' = [cron EXCEPT !.at = "wrote"]
    /\ UNCHANGED <<storeVars, dirty, loopVars, manual, boundVars, hushed>>

(* The model has no answer, or the store refuses a row. *)
MainJobFails ==
    /\ cron.at = "main"
    /\ hushed' = hushed \cup cron.wrote
    /\ lock' = Nobody
    /\ cron' = NoJob
    /\ UNCHANGED <<storeVars, dirty, loopVars, manual, boundVars>>

MainJobDelivered ==
    /\ cron.at = "wrote"
    /\ cron' = [cron EXCEPT !.at = "signal"]
    /\ UNCHANGED <<storeVars, lock, dirty, loopVars, manual, boundVars, hushed>>

(* NO_REPLY, deliver none, no channel, or a send that raised. *)
MainJobNotDelivered ==
    /\ cron.at = "wrote"
    /\ hushed' = hushed \cup cron.wrote
    /\ cron' = NoJob
    /\ UNCHANGED <<storeVars, lock, dirty, loopVars, manual, boundVars>>

(* Mutant: a turn in progress is no reason to wait. *)
RotateUnlocked ==
    /\ cron.at = "idle"
    /\ RotateMain
    /\ UNCHANGED <<log, lock, dirty, loopVars, cron, manual, boundVars, hushed>>

(* _rotate_main_session takes the lock without waiting, or does nothing.   *)
Rotate ==
    /\ cron.at = "idle"
    /\ lock = Nobody
    /\ RotateMain
    /\ UNCHANGED <<log, lock, dirty, loopVars, cron, manual, boundVars, hushed>>

-----------------------------------------------------------------------------
(* `faff cron run`, and the end of the process *)

Outside == manuals + crashes < MaxOutside

Manual == Outside /\ manuals' = manuals + 1

(* A session=main job in another process: no lock and no event of ours.    *)
(* A delivered job of any other mode has one row to write.                 *)
BeginManualJob ==
    /\ Manual
    /\ NewTurn
    /\ \E s \in Session :
          /\ OpenSession(Main, s)
          /\ manual' = manual \cup {[turn |-> turns', sess |-> s, n |-> 0]}
    /\ UNCHANGED <<log, lock, dirty, loopVars, cron, crashes, hushed>>

(* Each row is a commit of its own; the process may end after any.         *)
AppendManual(j) ==
    /\ Unfinished(j.n)
    /\ LET m == [turn |-> j.turn, n |-> j.n + 1, by |-> "manual"]
       IN  /\ log' = [log EXCEPT ![j.sess] = Append(@, m)]
           /\ hushed' = hushed \cup {m}
    /\ manual' = (manual \ {j}) \cup {[j EXCEPT !.n = @ + 1]}
    /\ UNCHANGED <<keyOf, active, lock, dirty, loopVars, cron, boundVars>>

(* A rotate_session job in another process. *)
ManualRotate ==
    /\ Manual
    /\ RotateMain
    /\ UNCHANGED <<log, lock, dirty, loopVars, cron, manual, turns, crashes, hushed>>

Crash ==
    /\ Outside
    /\ crashes' = crashes + 1
    /\ lock' = Nobody
    /\ dirty' = [c \in Loop |-> FALSE]
    /\ pc' = [c \in Loop |-> "off"]
    /\ key' = [c \in Loop |-> Main]
    /\ sess' = [c \in Loop |-> NoSession]
    /\ hist' = [c \in Loop |-> <<>>]
    /\ turn' = [c \in Loop |-> 0]
    /\ said' = [c \in Loop |-> 0]
    /\ cron' = NoJob
    /\ UNCHANGED <<storeVars, manual, turns, manuals, hushed>>

-----------------------------------------------------------------------------
LoopStep(c) ==
    \/ EnsureDb(c)
    \/ \E k \in Key : BeginTurn(c, k)
    \/ PersistInbound(c) \/ PersistStep(c) \/ PersistReply(c) \/ PersistFails(c)
    \/ ClearSession(c) \/ Compact(c) \/ EndTurn(c)

CronStep ==
    \/ Deliver \/ RecordDelivery \/ RecordFails \/ Signal
    \/ BeginMainJob \/ AppendMainJob \/ EndMainJob \/ MainJobFails
    \/ MainJobDelivered \/ MainJobNotDelivered
    \/ Rotate

Next ==
    \/ \E c \in Loop : LoopStep(c)
    \/ CronStep
    \/ BeginManualJob \/ (\E j \in manual : AppendManual(j)) \/ ManualRotate
    \/ Crash

Spec == Init /\ [][Next]_vars

-----------------------------------------------------------------------------
JobTypes ==
    [at : {"idle", "sent", "signal", "main", "wrote"}, turn : Nat,
     sess : Session \cup {NoSession}, n : Nat, wrote : SUBSET Message]

(* The shape of every variable; a loop that runs has a session, and one    *)
(* that holds the lock is in a turn.                                       *)
TypeOK ==
    /\ log \in [Session -> Seq(Message)]
    /\ keyOf \in [Session -> Key \cup {NoKey}]
    /\ active \in [Session -> BOOLEAN]
    /\ lock \in Loop \cup {Cron, Nobody}
    /\ dirty \in [Loop -> BOOLEAN]
    /\ pc \in [Loop -> {"off", "idle", "open", "ask", "done", "compacted"}]
    /\ key \in [Loop -> Key]
    /\ sess \in [Loop -> Session \cup {NoSession}]
    /\ hist \in [Loop -> Seq(Message)]
    /\ turn \in [Loop -> Nat] /\ said \in [Loop -> Nat]
    /\ cron \in JobTypes
    /\ manual \subseteq [turn : Nat, sess : Session, n : Nat]
    /\ lock = Cron <=> cron.at = "main"
    /\ turns \in Nat /\ manuals \in Nat /\ crashes \in Nat
    /\ hushed \subseteq Message
    /\ \A c \in Loop : /\ pc[c] # "off" => sess[c] # NoSession
                       /\ lock = c <=> pc[c] \notin {"off", "idle"}

(* Two turns of this process never interleave in a history: between two    *)
(* messages of one stand only its own, or those of another process.  Turns *)
(* that `faff cron run` writes are held by no lock of ours.                *)
TurnsDoNotInterleave ==
    \A s \in Session : \A i, j, k \in DOMAIN log[s] :
        i < j /\ j < k /\ log[s][i].turn = log[s][k].turn
            => log[s][j].turn = log[s][i].turn \/ "manual" \in {log[s][i].by, log[s][j].by}

(* What a turn has in a history, and that it stands there as written. *)
Of(q, n) == {m \in Elements(q) : m.turn = n}
InOrder(q, n) ==
    \A i, j \in DOMAIN q :
        i < j /\ q[i].turn = n /\ q[j].turn = n => q[i].n < q[j].n

(* Whatever is rotated meanwhile, a turn is written to one session, and    *)
(* what it has there, inbound message or its summary included, is what     *)
(* stands in front of the model, in the same order.                        *)
TurnStaysTogether ==
    /\ \A s, t \in Session :
          s # t => \A m \in Elements(log[s]), n \in Elements(log[t]) : m.turn # n.turn
    /\ \A c \in Loop : pc[c] = "ask" =>
          /\ Of(log[sess[c]], turn[c]) = Of(hist[c], turn[c])
          /\ Of(hist[c], turn[c]) # {}
          /\ InOrder(log[sess[c]], turn[c]) /\ InOrder(hist[c], turn[c])

(* A loop whose copy lacks something of its session has its event set, or  *)
(* the scheduler is on the way from the write to the signal; except for    *)
(* what its writer signals to nobody.                                      *)
StaleCopyIsSignalled ==
    \A c \in Loop : pc[c] # "off" /\ ~dirty[c]
        => Elements(log[sess[c]]) \subseteq Elements(hist[c]) \cup hushed \cup cron.wrote

(* No rotation of this process ends a session in the middle of a turn.     *)
RotationWaitsForTurn ==
    [][\A c \in Loop :
          pc[c] = "ask" /\ active[sess[c]] /\ ~active'[sess[c]] => manuals' # manuals]_vars
=============================================================================
