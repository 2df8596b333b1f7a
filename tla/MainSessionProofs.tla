------------------------- MODULE MainSessionProofs -------------------------
(***************************************************************************)
(* What MainSession promises, for any number of channel loops, sessions    *)
(* and turns.  The strengthening says where a turn in progress may have    *)
(* written and that nobody else can write behind it; it rests on the lock  *)
(* (TypeOK) and on turn numbers being handed out once.                     *)
(***************************************************************************)
EXTENDS MainSession, FiniteSetTheorems, SequenceTheorems, TLAPS

(* A session not created has no messages, and a key has one active session. *)
SessionsApart ==
    /\ \A s \in Session : keyOf[s] = NoKey => log[s] = <<>> /\ ~active[s]
    /\ \A s, t \in Session : active[s] /\ active[t] /\ keyOf[s] = keyOf[t] => s = t

(* No message, and nobody who will write one, has a turn not handed out. *)
TurnsHandedOut ==
    /\ \A s \in Session : \A m \in Elements(log[s]) : m.turn <= turns
    /\ \A c \in Loop : turn[c] <= turns /\ \A m \in Elements(hist[c]) : m.turn <= turns
    /\ cron.turn <= turns
    /\ \A j \in manual : j.turn <= turns

(* Nobody but another process has written to q since turn n did. *)
AtTheEnd(q, n) ==
    \A i, j \in DOMAIN q :
        i < j /\ q[i].turn = n => q[j].turn = n \/ q[j].by = "manual"

(* A job of the scheduler that has yet to write is alone with its turn,    *)
(* and until it is done it writes to the end of one session.               *)
JobApart ==
    /\ cron.at \in {"idle", "sent"} => cron.wrote = {}
    /\ cron.at = "main" => /\ cron.sess \in Session /\ keyOf[cron.sess] # NoKey
                           /\ AtTheEnd(log[cron.sess], cron.turn)
    /\ cron.at \in {"sent", "main"} =>
          /\ cron.turn # 0
          /\ \A s \in Session : cron.at = "sent" \/ s # cron.sess =>
                \A m \in Elements(log[s]) : m.turn # cron.turn
          /\ \A c \in Loop : turn[c] # cron.turn

(* A run of `faff cron run` has a turn of its own and writes to one        *)
(* session, where nobody else writes under that turn.                      *)
ManualApart ==
    /\ \A j \in manual :
          /\ j.turn # 0 /\ j.turn # cron.turn /\ keyOf[j.sess] # NoKey
          /\ \A c \in Loop : turn[c] # j.turn
          /\ \A s \in Session : \A m \in Elements(log[s]) :
                m.turn = j.turn => s = j.sess /\ m.by = "manual"
    /\ \A j, k \in manual : j.turn = k.turn => j = k

(* The loop in a turn writes to one session of the key it speaks for. *)
TurnHasSession ==
    \A c \in Loop : lock = c =>
        /\ keyOf[sess[c]] = key[c] /\ sess[c] \in Session
        /\ \A s \in Session \ {sess[c]} : \A m \in Elements(log[s]) : m.turn # turn[c]

(* Until its first message a turn has left no trace, and what was written  *)
(* meanwhile to a newer session of its key came from another process.      *)
TurnNotBegun ==
    \A c \in Loop : pc[c] = "open" =>
        /\ \A m \in Elements(log[sess[c]]) \cup Elements(hist[c]) : m.turn # turn[c]
        /\ \A s \in Session \ {sess[c]} :
              active[s] /\ keyOf[s] = key[c] => Elements(log[s]) \subseteq hushed

(* TurnsDoNotInterleave of one history. *)
Unmixed(q) ==
    \A i, j, k \in DOMAIN q :
        i < j /\ j < k /\ q[i].turn = q[k].turn
            => q[j].turn = q[i].turn \/ "manual" \in {q[i].by, q[j].by}

(* A turn in progress stands at the end of its session, in the order it    *)
(* was written, and so it does in the loop's copy.                         *)
TurnAtTheEnd ==
    \A c \in Loop : pc[c] \in {"open", "ask"} =>
        /\ Of(log[sess[c]], turn[c]) = Of(hist[c], turn[c])
        /\ \A m \in Of(hist[c], turn[c]) : m.n <= said[c] /\ (m.n = 0 => m = Summary(c))
        /\ pc[c] = "ask" => Of(hist[c], turn[c]) # {}
        /\ InOrder(log[sess[c]], turn[c]) /\ InOrder(hist[c], turn[c])
        /\ AtTheEnd(log[sess[c]], turn[c])

(* Every message of a turn is in one session. *)
TurnInOneSession ==
    \A s, t \in Session :
        s # t => \A m \in Elements(log[s]), n \in Elements(log[t]) : m.turn # n.turn

IInv ==
    /\ TypeOK
    /\ SessionsApart
    /\ TurnsHandedOut
    /\ JobApart
    /\ ManualApart
    /\ TurnHasSession
    /\ TurnNotBegun
    /\ TurnAtTheEnd
    /\ TurnsDoNotInterleave
    /\ TurnInOneSession
    /\ StaleCopyIsSignalled

-----------------------------------------------------------------------------
(* Lemmas about histories *)

(* What a message appended adds to a history. *)
LEMMA AppendFacts ==
    ASSUME NEW q \in Seq(Message), NEW m \in Message
    PROVE  /\ Append(q, m) \in Seq(Message)
           /\ Elements(Append(q, m)) = Elements(q) \cup {m}
           /\ Len(Append(q, m)) = Len(q) + 1
           /\ \A n \in Nat : Of(Append(q, m), n) =
                 IF m.turn = n THEN Of(q, n) \cup {m} ELSE Of(q, n)
<1> DEFINE r == Append(q, m)
<1>1. /\ r \in Seq(Message) /\ Len(r) = Len(q) + 1 /\ Len(q) \in Nat
      /\ DOMAIN r = 1 .. Len(q) + 1 /\ DOMAIN q = 1 .. Len(q)
      /\ \A i \in 1 .. Len(q) : r[i] = q[i]
      /\ r[Len(q) + 1] = m
  BY AppendProperties, LenProperties
<1> HIDE DEF r
<1>2. Elements(r) = Elements(q) \cup {m}
  <2>1. ASSUME NEW x \in Elements(r) PROVE x \in Elements(q) \cup {m}
    <3>1. PICK i \in 1 .. Len(q) + 1 : x = r[i]
      BY <1>1 DEF Elements
    <3>2. CASE i = Len(q) + 1
      BY <1>1, <3>1, <3>2
    <3>3. CASE i \in 1 .. Len(q)
      BY <1>1, <3>1, <3>3 DEF Elements
    <3> QED BY <1>1, <3>2, <3>3
  <2>2. ASSUME NEW x \in Elements(q) PROVE x \in Elements(r)
    <3>1. PICK i \in 1 .. Len(q) : x = q[i]
      BY <1>1 DEF Elements
    <3> QED BY <1>1, <3>1 DEF Elements
  <2>3. m \in Elements(r)
    BY <1>1 DEF Elements
  <2> QED BY <2>1, <2>2, <2>3
<1>3. ASSUME NEW n \in Nat
      PROVE  Of(r, n) = IF m.turn = n THEN Of(q, n) \cup {m} ELSE Of(q, n)
  BY <1>2 DEF Of
<1> QED BY <1>1, <1>2, <1>3 DEF r

(* What a message appended to a history does not disturb: the order of     *)
(* its turn, which it continues, and the turns that stand together.        *)
LEMMA AppendOrder ==
    ASSUME NEW q \in Seq(Message), NEW m \in Message
    PROVE  /\ InOrder(q, m.turn) /\ (\A x \in Of(q, m.turn) : x.n < m.n)
                => InOrder(Append(q, m), m.turn)
           /\ AtTheEnd(q, m.turn) => AtTheEnd(Append(q, m), m.turn)
           /\ Unmixed(q) /\ AtTheEnd(q, m.turn) => Unmixed(Append(q, m))
<1> DEFINE r == Append(q, m)
<1>1. /\ Len(q) \in Nat
      /\ DOMAIN r = 1 .. Len(q) + 1 /\ DOMAIN q = 1 .. Len(q)
      /\ \A i \in 1 .. Len(q) : r[i] = q[i] /\ q[i] \in Message
      /\ r[Len(q) + 1] = m
  BY AppendProperties, LenProperties, ElementOfSeq
<1> HIDE DEF r
<1>2. ASSUME InOrder(q, m.turn), \A x \in Of(q, m.turn) : x.n < m.n
      PROVE  InOrder(r, m.turn)
  BY <1>1, <1>2 DEF InOrder, Of, Elements, Message
<1>3. ASSUME AtTheEnd(q, m.turn) PROVE AtTheEnd(r, m.turn)
  BY <1>1, <1>3 DEF AtTheEnd
<1>4. ASSUME Unmixed(q), AtTheEnd(q, m.turn) PROVE Unmixed(r)
  <2> SUFFICES ASSUME NEW i \in DOMAIN r, NEW j \in DOMAIN r, NEW k \in DOMAIN r,
                      i < j, j < k, r[i].turn = r[k].turn
               PROVE  r[j].turn = r[i].turn \/ "manual" \in {r[i].by, r[j].by}
    BY DEF Unmixed
  <2>1. i \in 1 .. Len(q) /\ j \in 1 .. Len(q)
    BY <1>1
  <2>2. CASE k \in 1 .. Len(q)
    BY <1>1, <1>4, <2>1, <2>2 DEF Unmixed
  <2>3. CASE k = Len(q) + 1
    BY <1>1, <1>4, <2>1, <2>3 DEF AtTheEnd
  <2> QED BY <1>1, <2>2, <2>3
<1> QED BY <1>2, <1>3, <1>4 DEF r

(* What a message does to the turns it is not of, and what one of another  *)
(* process does to any.                                                    *)
LEMMA ForeignFacts ==
    ASSUME NEW q \in Seq(Message), NEW m \in Message
    PROVE  /\ \A n \in Nat : m.turn # n /\ InOrder(q, n) => InOrder(Append(q, m), n)
           /\ m.by = "manual" => \A n \in Nat : AtTheEnd(q, n) => AtTheEnd(Append(q, m), n)
           /\ Unmixed(q) /\ m.by = "manual" /\ (\A x \in Of(q, m.turn) : x.by = "manual")
                => Unmixed(Append(q, m))
<1> DEFINE r == Append(q, m)
<1>1. /\ Len(q) \in Nat
      /\ DOMAIN r = 1 .. Len(q) + 1 /\ DOMAIN q = 1 .. Len(q)
      /\ \A i \in 1 .. Len(q) : r[i] = q[i] /\ q[i] \in Message
      /\ r[Len(q) + 1] = m
  BY AppendProperties, LenProperties, ElementOfSeq
<1> HIDE DEF r
<1>2. ASSUME NEW n \in Nat, m.turn # n, InOrder(q, n) PROVE InOrder(r, n)
  <2> SUFFICES ASSUME NEW i \in DOMAIN r, NEW j \in DOMAIN r,
                      i < j, r[i].turn = n, r[j].turn = n
               PROVE  r[i].n < r[j].n
    BY DEF InOrder
  <2>1. i \in 1 .. Len(q) /\ j \in 1 .. Len(q)
    BY <1>1, <1>2
  <2> QED BY <1>1, <1>2, <2>1 DEF InOrder
<1>3. ASSUME NEW n \in Nat, m.by = "manual", AtTheEnd(q, n) PROVE AtTheEnd(r, n)
  BY <1>1, <1>3 DEF AtTheEnd
<1>4. ASSUME Unmixed(q), m.by = "manual", \A x \in Of(q, m.turn) : x.by = "manual"
      PROVE  Unmixed(r)
  <2> SUFFICES ASSUME NEW i \in DOMAIN r, NEW j \in DOMAIN r, NEW k \in DOMAIN r,
                      i < j, j < k, r[i].turn = r[k].turn
               PROVE  r[j].turn = r[i].turn \/ "manual" \in {r[i].by, r[j].by}
    BY DEF Unmixed
  <2>1. i \in 1 .. Len(q) /\ j \in 1 .. Len(q)
    BY <1>1
  <2>2. CASE k \in 1 .. Len(q)
    BY <1>1, <1>4, <2>1, <2>2 DEF Unmixed
  <2>3. CASE k = Len(q) + 1
    <3>1. q[i] \in Of(q, m.turn)
      BY <1>1, <2>1, <2>3 DEF Of, Elements
    <3> QED BY <1>1, <1>4, <2>1, <3>1
  <2> QED BY <1>1, <2>2, <2>3
<1> QED BY <1>2, <1>3, <1>4 DEF r

-----------------------------------------------------------------------------
(* Types *)

(* A turn's next message is one. *)
LEMMA NextMessageType ==
    ASSUME TypeOK, NEW c \in Loop
    PROVE  NextMessage(c) \in Message
BY DEF TypeOK, NextMessage, Message, Writer

(* NoSession is the identifier of no session. *)
LEMMA SessionFacts == \A s \in Session : s # NoSession
<1>1. MaxSession \in Nat
  BY BoundsAssumption
<1> QED BY <1>1 DEF Session, NoSession

(* _create_session gives a session a key and makes it active. *)
LEMMA CreateTypes ==
    ASSUME keyOf \in [Session -> Key \cup {NoKey}], NEW act \in [Session -> BOOLEAN],
           NEW k \in Key, NEW s \in Session, CreateSession(k, s, act)
    PROVE  keyOf' \in [Session -> Key \cup {NoKey}] /\ active' \in [Session -> BOOLEAN]
<1>1. keyOf' = [keyOf EXCEPT ![s] = k]
  BY DEF CreateSession
<1>2. active' = [act EXCEPT ![s] = TRUE]
  BY DEF CreateSession
<1>3. keyOf' \in [Session -> Key \cup {NoKey}]
  BY <1>1
<1>4. active' \in [Session -> BOOLEAN]
  BY <1>2
<1> QED BY <1>3, <1>4

(* get_or_create_main_session finds one or creates one. *)
LEMMA OpenTypes ==
    ASSUME TypeOK, NEW k \in Key, NEW s \in Session, OpenSession(k, s)
    PROVE  keyOf' \in [Session -> Key \cup {NoKey}] /\ active' \in [Session -> BOOLEAN]
<1> USE DEF TypeOK
<1>1. CASE UNCHANGED <<keyOf, active>>
  BY <1>1
<1>2. CASE CreateSession(k, s, active)
  BY <1>2, CreateTypes
<1> QED BY <1>1, <1>2 DEF OpenSession

(* A session replaced leaves the sessions well formed, *)
LEMMA ReplaceTypes ==
    ASSUME TypeOK, NEW k \in Key, NEW old, NEW s \in Session, ReplaceSession(k, old, s)
    PROVE  keyOf' \in [Session -> Key \cup {NoKey}] /\ active' \in [Session -> BOOLEAN]
<1> USE DEF TypeOK
<1> DEFINE rest == [active EXCEPT ![old] = FALSE]
<1>1. rest \in [Session -> BOOLEAN]
  OBVIOUS
<1>2. CASE active' = rest /\ UNCHANGED keyOf
  BY <1>1, <1>2
<1>3. CASE CreateSession(k, s, rest)
  BY <1>1, <1>3, CreateTypes
<1> QED BY <1>2, <1>3 DEF ReplaceSession

(* and so does a rotation. *)
LEMMA RotateTypes ==
    ASSUME TypeOK, RotateMain
    PROVE  keyOf' \in [Session -> Key \cup {NoKey}] /\ active' \in [Session -> BOOLEAN]
<1>1. PICK s \in Session : (\E old \in ActiveOf(Main) : ReplaceSession(Main, old, s))
                             \/ CreateSession(Main, s, active)
  BY DEF RotateMain
<1>2. CASE \E old \in ActiveOf(Main) : ReplaceSession(Main, old, s)
  BY <1>2, ReplaceTypes, NamesAssumption
<1>3. CASE CreateSession(Main, s, active)
  BY <1>3, CreateTypes, NamesAssumption DEF TypeOK
<1> QED BY <1>1, <1>2, <1>3

(* _persist_message adds one message to the loop's copy and to its session. *)
LEMMA PersistTypes ==
    ASSUME TypeOK, NEW c \in Loop, pc[c] # "off", Persist(c)
    PROVE  /\ hist' \in [Loop -> Seq(Message)]
           /\ log' \in [Session -> Seq(Message)]
           /\ dirty' \in [Loop -> BOOLEAN]
           /\ said' \in [Loop -> Nat]
<1>1. sess[c] \in Session /\ NextMessage(c) \in Message
  BY NextMessageType DEF TypeOK
<1>2. /\ Append(hist[c], NextMessage(c)) \in Seq(Message)
      /\ Append(log[sess[c]], NextMessage(c)) \in Seq(Message)
  BY <1>1, AppendFacts DEF TypeOK
<1> QED BY <1>1, <1>2 DEF Persist, Peers, TypeOK

(* Every step keeps the types, and who holds the lock in a turn. *)
LEMMA TypeStep == TypeOK /\ [Next]_vars => TypeOK'
<1> SUFFICES ASSUME TypeOK, [Next]_vars PROVE TypeOK'
  OBVIOUS
<1> USE NamesAssumption
<1>1. ASSUME NEW c \in Loop, EnsureDb(c) PROVE TypeOK'
  <2>1. keyOf' \in [Session -> Key \cup {NoKey}] /\ active' \in [Session -> BOOLEAN]
    BY <1>1, OpenTypes DEF EnsureDb
  <2>2. /\ sess' \in [Loop -> Session \cup {NoSession}] /\ sess'[c] # NoSession
        /\ \A d \in Loop \ {c} : sess'[d] = sess[d]
        /\ hist' \in [Loop -> Seq(Message)]
    <3>1. PICK s \in Session : sess' = [sess EXCEPT ![c] = s] /\ hist' = [hist EXCEPT ![c] = log[s]]
      BY <1>1 DEF EnsureDb
    <3> QED BY <3>1, SessionFacts DEF TypeOK
  <2>3. /\ pc' = [pc EXCEPT ![c] = "idle"] /\ pc[c] = "off"
        /\ UNCHANGED <<log, lock, dirty, key, turn, said, cron, manual, turns, manuals, crashes, hushed>>
    BY <1>1 DEF EnsureDb, boundVars
  <2> QED BY <2>1, <2>2, <2>3 DEF TypeOK
<1>2. ASSUME NEW c \in Loop, NEW k \in Key, BeginTurn(c, k) PROVE TypeOK'
  <2>1. keyOf' \in [Session -> Key \cup {NoKey}] /\ active' \in [Session -> BOOLEAN]
    BY <1>2, OpenTypes DEF BeginTurn
  <2>2. /\ sess' \in [Loop -> Session \cup {NoSession}] /\ sess'[c] # NoSession
        /\ \A d \in Loop \ {c} : sess'[d] = sess[d]
        /\ hist' \in [Loop -> Seq(Message)]
    <3>1. PICK s \in Session :
            /\ sess' = [sess EXCEPT ![c] = s]
            /\ hist' = IF s # sess[c] \/ dirty[c] THEN [hist EXCEPT ![c] = log[s]] ELSE hist
      BY <1>2 DEF BeginTurn
    <3> QED BY <3>1, SessionFacts DEF TypeOK
  <2>3. /\ pc' = [pc EXCEPT ![c] = "open"] /\ lock = Nobody /\ lock' = c
        /\ key' = [key EXCEPT ![c] = k] /\ dirty' = [dirty EXCEPT ![c] = FALSE]
        /\ turn' = [turn EXCEPT ![c] = turns'] /\ said' = [said EXCEPT ![c] = 0]
        /\ turns' = turns + 1
        /\ UNCHANGED <<log, cron, manual, manuals, crashes, hushed>>
    BY <1>2 DEF BeginTurn, NewTurn
  <2> QED BY <2>1, <2>2, <2>3 DEF TypeOK
<1>3. ASSUME NEW c \in Loop, PersistInbound(c) \/ PersistStep(c) \/ PersistReply(c)
      PROVE  TypeOK'
  <2>1. Persist(c) /\ pc[c] # "off"
    BY <1>3 DEF PersistInbound, PersistStep, PersistReply
  <2> QED BY <1>3, <2>1, PersistTypes DEF TypeOK, PersistInbound, PersistStep, PersistReply, boundVars
<1>4. ASSUME NEW c \in Loop, PersistFails(c) PROVE TypeOK'
  <2>1. Append(hist[c], NextMessage(c)) \in Seq(Message)
    BY AppendFacts, NextMessageType DEF TypeOK
  <2> QED BY <1>4, <2>1 DEF TypeOK, PersistFails, storeVars, boundVars
<1>5. ASSUME NEW c \in Loop, ClearSession(c) PROVE TypeOK'
  <2>1. keyOf' \in [Session -> Key \cup {NoKey}] /\ active' \in [Session -> BOOLEAN]
    BY <1>5, ReplaceTypes DEF ClearSession, TypeOK
  <2>2. /\ sess' \in [Loop -> Session \cup {NoSession}] /\ sess'[c] # NoSession
        /\ \A d \in Loop \ {c} : sess'[d] = sess[d]
        /\ hist' \in [Loop -> Seq(Message)]
    BY <1>5, SessionFacts DEF TypeOK, ClearSession
  <2> QED BY <1>5, <2>1, <2>2 DEF TypeOK, ClearSession, Peers, boundVars
<1>6. ASSUME NEW c \in Loop, Compact(c) PROVE TypeOK'
  <2> DEFINE old == log[sess[c]]
  <2>1. old \in Seq(Message) /\ Summary(c) \in Message /\ Len(old) \in 1 .. Len(old)
    BY <1>6, LenProperties DEF TypeOK, Compact, Summary, Message, Writer
  <2>2. <<Summary(c), old[Len(old)]>> \in Seq(Message)
    BY <2>1, ElementOfSeq
  <2>3. pc' \in [Loop -> {"off", "idle", "open", "ask", "done", "compacted"}]
    BY <1>6 DEF TypeOK, Compact
  <2>4. \A d \in Loop : pc'[d] \in {"off", "idle"} <=> pc[d] \in {"off", "idle"}
    BY <1>6 DEF TypeOK, Compact
  <2>5. log' \in [Session -> Seq(Message)] /\ hist' \in [Loop -> Seq(Message)]
    BY <1>6, <2>1, <2>2 DEF TypeOK, Compact
  <2>6. hushed' \subseteq Message
    BY <1>6, <2>1 DEF TypeOK, Compact
  <2> QED BY <1>6, <2>3, <2>4, <2>5, <2>6 DEF TypeOK, Compact, boundVars
<1>7. ASSUME NEW c \in Loop, EndTurn(c) PROVE TypeOK'
  BY <1>7 DEF TypeOK, EndTurn, storeVars, boundVars
<1>8. ASSUME Deliver \/ RecordFails \/ Signal \/ EndMainJob \/ MainJobFails
             \/ MainJobDelivered \/ MainJobNotDelivered
      PROVE  TypeOK'
  <2>1. NoJob \in JobTypes
    BY DEF NoJob, JobTypes
  <2>2. CASE Deliver
    <3>1. turns' \in Nat /\ cron.at = "idle"
      BY <2>2 DEF TypeOK, Deliver, NewTurn
    <3>2. cron' = [at |-> "sent", turn |-> turns', sess |-> NoSession, n |-> 0, wrote |-> {}]
      BY <2>2 DEF Deliver, NoJob
    <3>3. cron' \in JobTypes
      BY <3>1, <3>2 DEF JobTypes
    <3> QED BY <2>2, <3>1, <3>2, <3>3 DEF TypeOK, Deliver, storeVars, loopVars
  <2>3. CASE RecordFails
    BY <2>1, <2>3 DEF TypeOK, RecordFails, NoJob, storeVars, loopVars, boundVars
  <2>7. CASE MainJobFails
    BY <2>1, <2>7 DEF TypeOK, MainJobFails, NoJob, JobTypes, storeVars, loopVars, boundVars
  <2>8. CASE EndMainJob
    BY <2>8 DEF TypeOK, EndMainJob, JobTypes, storeVars, loopVars, boundVars
  <2>4. CASE Signal
    BY <2>1, <2>4 DEF TypeOK, Signal, NoJob, storeVars, loopVars, boundVars
  <2>5. CASE MainJobDelivered
    BY <2>5 DEF TypeOK, MainJobDelivered, JobTypes, storeVars, loopVars, boundVars
  <2>6. CASE MainJobNotDelivered
    BY <2>1, <2>6 DEF TypeOK, MainJobNotDelivered, NoJob, JobTypes, storeVars, loopVars, boundVars
  <2> QED BY <1>8, <2>2, <2>3, <2>4, <2>5, <2>6, <2>7, <2>8
<1>9. ASSUME RecordDelivery PROVE TypeOK'
  <2>1. PICK s \in Session :
          LET m == [turn |-> cron.turn, n |-> 1, by |-> "cron"]
          IN  /\ OpenSession(Main, s)
              /\ log' = [log EXCEPT ![s] = Append(@, m)]
              /\ cron' = [cron EXCEPT !.at = "signal", !.sess = s, !.wrote = {m}]
    BY <1>9 DEF RecordDelivery
  <2> DEFINE m == [turn |-> cron.turn, n |-> 1, by |-> "cron"]
  <2>2. m \in Message
    BY DEF TypeOK, JobTypes, Message, Writer
  <2>3. Append(log[s], m) \in Seq(Message)
    BY <2>2, AppendFacts DEF TypeOK
  <2>4. keyOf' \in [Session -> Key \cup {NoKey}] /\ active' \in [Session -> BOOLEAN]
    BY <2>1, OpenTypes, NamesAssumption
  <2>5. log' \in [Session -> Seq(Message)] /\ cron' \in JobTypes /\ cron'.at = "signal"
    BY <2>1, <2>2, <2>3 DEF TypeOK, JobTypes
  <2> QED BY <1>9, <2>4, <2>5 DEF TypeOK, RecordDelivery, loopVars, boundVars
<1>10. ASSUME BeginMainJob PROVE TypeOK'
  <2>1. keyOf' \in [Session -> Key \cup {NoKey}] /\ active' \in [Session -> BOOLEAN]
    BY <1>10, OpenTypes DEF BeginMainJob
  <2>2. cron' \in JobTypes /\ cron'.at = "main" /\ turns' \in Nat
    <3>1. PICK s \in Session : cron' = [NoJob EXCEPT !.at = "main", !.turn = turns', !.sess = s]
      BY <1>10 DEF BeginMainJob
    <3>2. turns' \in Nat
      BY <1>10 DEF TypeOK, BeginMainJob, NewTurn
    <3>3. cron' = [at |-> "main", turn |-> turns', sess |-> s, n |-> 0, wrote |-> {}]
      BY <3>1 DEF NoJob
    <3> QED BY <3>2, <3>3 DEF JobTypes
  <2> QED BY <1>10, <2>1, <2>2 DEF TypeOK, BeginMainJob, loopVars
<1>11. ASSUME AppendMainJob PROVE TypeOK'
  <2> DEFINE m == [turn |-> cron.turn, n |-> cron.n + 1, by |-> "cron"]
  <2>1. m \in Message
    BY DEF TypeOK, JobTypes, Message, Writer
  <2>2. \A s \in Session : Append(log[s], m) \in Seq(Message)
    BY <2>1, AppendFacts DEF TypeOK
  <2>3. log' \in [Session -> Seq(Message)]
    BY <1>11, <2>2 DEF AppendMainJob, TypeOK
  <2>6. cron' = [cron EXCEPT !.n = @ + 1, !.wrote = @ \cup {m}] /\ cron.at = "main"
    BY <1>11 DEF AppendMainJob
  <2> HIDE DEF m
  <2>4. cron' \in JobTypes /\ cron'.at = "main"
    <3>1. /\ cron.turn \in Nat /\ cron.sess \in Session \cup {NoSession} /\ cron.n + 1 \in Nat
          /\ cron.wrote \cup {m} \subseteq Message
      BY <2>1 DEF TypeOK, JobTypes
    <3>2. cron' = [at |-> "main", turn |-> cron.turn, sess |-> cron.sess, n |-> cron.n + 1,
                   wrote |-> cron.wrote \cup {m}]
      BY <2>6 DEF TypeOK, JobTypes
    <3> QED BY <3>1, <3>2 DEF JobTypes
  <2>5. /\ cron.at = "main"
        /\ UNCHANGED <<keyOf, active, lock, dirty, pc, key, sess, hist, turn, said, manual, turns, manuals,
                       crashes, hushed>>
    BY <1>11 DEF AppendMainJob, loopVars, boundVars
  <2> QED BY <2>3, <2>4, <2>5 DEF TypeOK
<1>12. ASSUME Rotate \/ ManualRotate PROVE TypeOK'
  <2>1. keyOf' \in [Session -> Key \cup {NoKey}] /\ active' \in [Session -> BOOLEAN]
    BY <1>12, RotateTypes DEF Rotate, ManualRotate
  <2> QED BY <1>12, <2>1 DEF TypeOK, Rotate, ManualRotate, Manual, loopVars, boundVars
<1>13. ASSUME BeginManualJob PROVE TypeOK'
  <2>1. PICK s \in Session :
          /\ OpenSession(Main, s)
          /\ manual' = manual \cup {[turn |-> turns', sess |-> s, n |-> 0]}
    BY <1>13 DEF BeginManualJob
  <2>2. turns' \in Nat /\ manuals' \in Nat
    BY <1>13 DEF BeginManualJob, NewTurn, Manual, TypeOK
  <2>3. manual' \subseteq [turn : Nat, sess : Session, n : Nat]
    BY <2>1, <2>2 DEF TypeOK
  <2>4. keyOf' \in [Session -> Key \cup {NoKey}] /\ active' \in [Session -> BOOLEAN]
    BY <2>1, OpenTypes
  <2> QED BY <1>13, <2>2, <2>3, <2>4 DEF TypeOK, BeginManualJob, loopVars
<1>16. ASSUME NEW j \in manual, AppendManual(j) PROVE TypeOK'
  <2> DEFINE m == [turn |-> j.turn, n |-> j.n + 1, by |-> "manual"]
  <2>1. m \in Message /\ j \in [turn : Nat, sess : Session, n : Nat]
    BY DEF TypeOK, Message, Writer
  <2>2. \A s \in Session : Append(log[s], m) \in Seq(Message)
    BY <2>1, AppendFacts DEF TypeOK
  <2>3. log' \in [Session -> Seq(Message)] /\ hushed' \subseteq Message
    BY <1>16, <2>1, <2>2 DEF AppendManual, TypeOK
  <2>4. manual' \subseteq [turn : Nat, sess : Session, n : Nat]
    <3>1. [j EXCEPT !.n = @ + 1] \in [turn : Nat, sess : Session, n : Nat]
      BY <2>1
    <3>2. manual' = (manual \ {j}) \cup {[j EXCEPT !.n = @ + 1]}
      BY <1>16 DEF AppendManual
    <3> QED BY <3>1, <3>2 DEF TypeOK
  <2>5. UNCHANGED <<keyOf, active, lock, dirty, pc, key, sess, hist, turn, said, cron, turns, manuals,
                    crashes>>
    BY <1>16 DEF AppendManual, loopVars, boundVars
  <2> QED BY <2>3, <2>4, <2>5 DEF TypeOK
<1>14. ASSUME Crash PROVE TypeOK'
  BY <1>14 DEF TypeOK, Crash, NoJob, JobTypes, storeVars, NoSession
<1>15. CASE UNCHANGED vars
  BY <1>15 DEF TypeOK, vars, storeVars, loopVars, boundVars
<1> QED BY <1>1, <1>2, <1>3, <1>4, <1>5, <1>6, <1>7, <1>8, <1>9, <1>10, <1>11, <1>12, <1>13, <1>14,
           <1>15, <1>16 DEF Next, LoopStep, CronStep

-----------------------------------------------------------------------------
(* What the store's operations do to the sessions *)

(* _create_session takes a session without messages. *)
LEMMA CreateFacts ==
    ASSUME TypeOK, SessionsApart, NEW k \in Key, NEW s \in Session,
           NEW act \in [Session -> BOOLEAN], CreateSession(k, s, act)
    PROVE  /\ keyOf[s] = NoKey /\ log[s] = <<>> /\ ~active[s]
           /\ keyOf' = [keyOf EXCEPT ![s] = k]
           /\ active' = [act EXCEPT ![s] = TRUE]
<1>1. Oldest(Unused) \in Unused
  <2>1. Unused # {} /\ Unused \subseteq Session /\ Session \subseteq Nat
    BY BoundsAssumption DEF CreateSession, Unused, Session
  <2>2. \E x \in Unused : \A t \in Unused : <<t, x>> \notin OpToRel(<, Nat)
    BY <2>1, WFMin, NatLessThanWellFounded, Zenon
  <2>3. \A x, t \in Nat : <<t, x>> \in OpToRel(<, Nat) <=> t < x
    BY DEF OpToRel
  <2>4. \E x \in Unused : \A t \in Unused : x <= t
    <3>1. PICK x \in Unused : \A t \in Unused : <<t, x>> \notin OpToRel(<, Nat)
      BY <2>2
    <3>2. x \in Nat /\ \A t \in Unused : t \in Nat /\ ~(t < x)
      BY <2>1, <2>3, <3>1
    <3> QED BY <3>2
  <2> QED BY <2>4 DEF Oldest
<1> QED BY <1>1 DEF CreateSession, Unused, SessionsApart

(* The session opened for a key is its only active one; no other changes.  *)
LEMMA OpenFacts ==
    ASSUME TypeOK, SessionsApart, NEW k \in Key, NEW s \in Session, OpenSession(k, s)
    PROVE  /\ active'[s] /\ keyOf'[s] = k
           /\ \A t \in Session \ {s} : keyOf'[t] = keyOf[t] /\ (active'[t] <=> active[t])
           /\ \A t \in Session : active[t] /\ keyOf[t] = k => t = s
           /\ \/ keyOf[s] = k /\ active[s]
              \/ keyOf[s] = NoKey /\ log[s] = <<>>
<1>1. CASE s \in ActiveOf(k) /\ UNCHANGED <<keyOf, active>>
  BY <1>1 DEF ActiveOf, SessionsApart
<1>2. CASE ActiveOf(k) = {} /\ CreateSession(k, s, active)
  <2>1. /\ keyOf[s] = NoKey /\ log[s] = <<>>
        /\ keyOf' = [keyOf EXCEPT ![s] = k] /\ active' = [active EXCEPT ![s] = TRUE]
    BY <1>2, CreateFacts DEF TypeOK
  <2> QED BY <1>2, <2>1 DEF ActiveOf, TypeOK
<1> QED BY <1>1, <1>2 DEF OpenSession

(* A session that replaces another of its key is the only active one.      *)
LEMMA ReplaceFacts ==
    ASSUME TypeOK, SessionsApart, NEW k \in Key, NEW s \in Session, NEW old \in Session,
           keyOf[old] = k, ReplaceSession(k, old, s)
    PROVE  /\ active'[s] /\ keyOf'[s] = k
           /\ s # old /\ ~active'[old] /\ keyOf'[old] = k
           /\ \A t \in Session \ {s, old} : keyOf'[t] = keyOf[t] /\ (active'[t] <=> active[t])
           /\ \A t \in Session : active[t] /\ keyOf[t] = k => t = s \/ t = old
           /\ \/ keyOf[s] = k /\ active[s]
              \/ keyOf[s] = NoKey /\ log[s] = <<>>
<1> DEFINE rest == [active EXCEPT ![old] = FALSE]
<1>1. CASE s \in ActiveOf(k) \ {old} /\ active' = rest /\ UNCHANGED keyOf
  BY <1>1 DEF ActiveOf, SessionsApart, TypeOK
<1>2. CASE ActiveOf(k) \subseteq {old} /\ CreateSession(k, s, rest)
  <2>1. rest \in [Session -> BOOLEAN]
    BY DEF TypeOK
  <2>2. /\ keyOf[s] = NoKey /\ log[s] = <<>>
        /\ keyOf' = [keyOf EXCEPT ![s] = k] /\ active' = [rest EXCEPT ![s] = TRUE]
    <3>1. CreateSession(k, s, rest)
      BY <1>2
    <3> HIDE DEF rest
    <3> QED BY <2>1, <3>1, CreateFacts
  <2>3. s # old
    BY <2>2, NamesAssumption
  <2>4. \A t \in Session : active'[t] <=> t = s \/ (t # old /\ active[t])
    BY <2>2 DEF TypeOK
  <2>5. \A t \in Session : keyOf'[t] = IF t = s THEN k ELSE keyOf[t]
    BY <2>2 DEF TypeOK
  <2> QED BY <1>2, <2>2, <2>3, <2>4, <2>5 DEF ActiveOf
<1> QED BY <1>1, <1>2 DEF ReplaceSession

(* A rotation opens at most one session, and that without messages. *)
LEMMA RotateFacts ==
    ASSUME TypeOK, SessionsApart, RotateMain
    PROVE  /\ \A t \in Session : keyOf[t] # NoKey => keyOf'[t] = keyOf[t]
           /\ \A t \in Session : active'[t] => active[t] \/ log[t] = <<>>
           /\ \A t \in Session : keyOf'[t] = NoKey => log[t] = <<>> /\ ~active'[t]
           /\ \A t, u \in Session : active'[t] /\ active'[u] /\ keyOf'[t] = keyOf'[u] => t = u
<1>1. PICK s \in Session : \/ \E old \in ActiveOf(Main) : ReplaceSession(Main, old, s)
                           \/ ActiveOf(Main) = {} /\ CreateSession(Main, s, active)
  BY DEF RotateMain
<1>2. CASE \E old \in ActiveOf(Main) : ReplaceSession(Main, old, s)
  <2>1. PICK old \in ActiveOf(Main) : ReplaceSession(Main, old, s)
    BY <1>2
  <2>2. old \in Session /\ keyOf[old] = Main /\ Main \in Key /\ Main # NoKey
    BY NamesAssumption DEF ActiveOf
  <2>3. /\ active'[s] /\ keyOf'[s] = Main
        /\ s # old /\ ~active'[old] /\ keyOf'[old] = Main
        /\ \A t \in Session \ {s, old} : keyOf'[t] = keyOf[t] /\ (active'[t] <=> active[t])
        /\ \A t \in Session : active[t] /\ keyOf[t] = Main => t = s \/ t = old
        /\ \/ keyOf[s] = Main /\ active[s]
           \/ keyOf[s] = NoKey /\ log[s] = <<>>
    BY <2>1, <2>2, ReplaceFacts
  <2> QED BY <2>2, <2>3 DEF SessionsApart
<1>3. CASE ActiveOf(Main) = {} /\ CreateSession(Main, s, active)
  <2>1. OpenSession(Main, s)
    BY <1>3 DEF OpenSession
  <2>2. /\ active'[s] /\ keyOf'[s] = Main
        /\ \A t \in Session \ {s} : keyOf'[t] = keyOf[t] /\ (active'[t] <=> active[t])
        /\ \A t \in Session : active[t] /\ keyOf[t] = Main => t = s
        /\ \/ keyOf[s] = Main /\ active[s]
           \/ keyOf[s] = NoKey /\ log[s] = <<>>
    BY <2>1, OpenFacts, NamesAssumption
  <2> QED BY <2>2, NamesAssumption DEF SessionsApart
<1> QED BY <1>1, <1>2, <1>3

-----------------------------------------------------------------------------
(* Each step keeps the invariant *)

(* One turn at a time: whoever is in a turn holds the lock. *)
LEMMA OneTurnAtATime ==
    ASSUME TypeOK
    PROVE  /\ \A c \in Loop : pc[c] \notin {"off", "idle"} => lock = c
           /\ Nobody \notin Loop /\ Cron \notin Loop
BY NamesAssumption DEF TypeOK

(* Turns are numbers, so that one handed out later is another. *)
LEMMA TurnTypes ==
    ASSUME TypeOK
    PROVE  /\ \A s \in Session : \A m \in Elements(log[s]) : m \in Message /\ m.turn \in Nat
           /\ \A c \in Loop : \A m \in Elements(hist[c]) : m \in Message /\ m.turn \in Nat
           /\ \A c \in Loop : turn[c] \in Nat /\ said[c] \in Nat
           /\ \A j \in manual : j.turn \in Nat /\ j.n \in Nat /\ j.sess \in Session
           /\ cron.turn \in Nat /\ turns \in Nat
<1>1. \A q \in Seq(Message) : \A m \in Elements(q) : m \in Message
  BY LenProperties, ElementOfSeq DEF Elements
<1>2. \A m \in Message : m.turn \in Nat
  BY DEF Message
<1>3. cron.turn \in Nat
  BY DEF TypeOK, JobTypes
<1> QED BY <1>1, <1>2, <1>3 DEF TypeOK

(* run() may open a session and load it while another loop is in a turn. *)
LEMMA EnsureDbKeeps ==
    ASSUME IInv, TypeOK', NEW c \in Loop, EnsureDb(c) PROVE IInv'
<1> USE OneTurnAtATime DEF IInv
<1>1. PICK s \in Session : OpenSession(Main, s) /\ sess' = [sess EXCEPT ![c] = s]
                            /\ hist' = [hist EXCEPT ![c] = log[s]]
  BY DEF EnsureDb
<1>2. /\ active'[s] /\ keyOf'[s] = Main
      /\ \A t \in Session \ {s} : keyOf'[t] = keyOf[t] /\ (active'[t] <=> active[t])
      /\ \A t \in Session : active[t] /\ keyOf[t] = Main => t = s
      /\ \/ keyOf[s] = Main /\ active[s]
         \/ keyOf[s] = NoKey /\ log[s] = <<>>
  BY <1>1, OpenFacts, NamesAssumption
<1>3. /\ pc[c] = "off" /\ pc' = [pc EXCEPT ![c] = "idle"]
      /\ UNCHANGED <<log, lock, dirty, key, turn, said, cron, manual, turns, manuals, crashes, hushed>>
  BY DEF EnsureDb, boundVars
<1>4. /\ sess'[c] = s /\ hist'[c] = log[s] /\ pc'[c] = "idle" /\ lock # c
      /\ \A d \in Loop \ {c} : sess'[d] = sess[d] /\ hist'[d] = hist[d] /\ pc'[d] = pc[d]
  BY <1>1, <1>3 DEF TypeOK
<1>5. SessionsApart'
  BY <1>2, <1>3, NamesAssumption DEF SessionsApart
<1>6. TurnsHandedOut'
  BY <1>3, <1>4 DEF TurnsHandedOut
<1>7. JobApart' /\ TurnsDoNotInterleave' /\ TurnInOneSession'
  BY <1>2, <1>3, NamesAssumption DEF JobApart, TurnsDoNotInterleave, TurnInOneSession
<1>12. ManualApart'
  BY <1>2, <1>3, TurnTypes, NamesAssumption DEF ManualApart
<1>8. TurnHasSession'
  BY <1>2, <1>3, <1>4, NamesAssumption DEF TurnHasSession, TypeOK
<1>9. TurnNotBegun'
  <2>1. \A d \in Loop : pc'[d] = "open" => d # c /\ lock = d
    BY <1>3, <1>4
  <2>2. Elements(<<>>) = {}
    BY DEF Elements
  <2> SUFFICES ASSUME NEW d \in Loop, pc'[d] = "open"
               PROVE  /\ \A m \in Elements(log[sess[d]]) \cup Elements(hist[d]) : m.turn # turn[d]
                      /\ \A t \in Session \ {sess[d]} :
                            active'[t] /\ keyOf'[t] = key[d] => Elements(log[t]) \subseteq hushed
    BY <1>3, <1>4, <2>1 DEF TurnNotBegun
  <2>3. d # c /\ pc[d] = "open"
    BY <1>4
  <2>4. ASSUME NEW t \in Session, t # sess[d], active'[t], keyOf'[t] = key[d]
        PROVE  Elements(log[t]) \subseteq hushed
    BY <1>2, <2>2, <2>3, <2>4 DEF TurnNotBegun
  <2> QED BY <2>3, <2>4 DEF TurnNotBegun
<1>10. TurnAtTheEnd'
  BY <1>3, <1>4 DEF TurnAtTheEnd, Summary
<1>11. StaleCopyIsSignalled'
  BY <1>3, <1>4 DEF StaleCopyIsSignalled
<1> QED BY <1>5, <1>6, <1>7, <1>8, <1>9, <1>10, <1>11, <1>12

(* A turn begins under a number nobody has used, on a copy as fresh as the *)
(* loop was told to make it.                                               *)
LEMMA BeginTurnKeeps ==
    ASSUME IInv, TypeOK', NEW c \in Loop, NEW k \in Key, BeginTurn(c, k) PROVE IInv'
<1> USE OneTurnAtATime DEF IInv
<1>1. PICK s \in Session :
        /\ OpenSession(k, s)
        /\ hist' = IF s # sess[c] \/ dirty[c] THEN [hist EXCEPT ![c] = log[s]] ELSE hist
        /\ sess' = [sess EXCEPT ![c] = s]
  BY DEF BeginTurn
<1>2. /\ active'[s] /\ keyOf'[s] = k
      /\ \A t \in Session \ {s} : keyOf'[t] = keyOf[t] /\ (active'[t] <=> active[t])
      /\ \A t \in Session : active[t] /\ keyOf[t] = k => t = s
      /\ \/ keyOf[s] = k /\ active[s]
         \/ keyOf[s] = NoKey /\ log[s] = <<>>
  BY <1>1, OpenFacts
<1>3. /\ pc[c] = "idle" /\ pc' = [pc EXCEPT ![c] = "open"] /\ lock = Nobody /\ lock' = c
      /\ key' = [key EXCEPT ![c] = k] /\ dirty' = [dirty EXCEPT ![c] = FALSE]
      /\ turn' = [turn EXCEPT ![c] = turns'] /\ turns' = turns + 1
      /\ said' = [said EXCEPT ![c] = 0]
      /\ UNCHANGED <<log, cron, manual, manuals, crashes, hushed>>
  BY DEF BeginTurn, NewTurn
<1>4. /\ sess'[c] = s /\ pc'[c] = "open" /\ key'[c] = k /\ turn'[c] = turns + 1
      /\ hist'[c] = IF s # sess[c] \/ dirty[c] THEN log[s] ELSE hist[c]
      /\ \A d \in Loop \ {c} : /\ sess'[d] = sess[d] /\ hist'[d] = hist[d] /\ pc'[d] = pc[d]
                               /\ turn'[d] = turn[d] /\ dirty'[d] = dirty[d]
                               /\ pc[d] \in {"off", "idle"}
  BY <1>1, <1>3 DEF TypeOK
<1>5. /\ \A t \in Session : \A m \in Elements(log[t]) : m.turn # turns + 1
      /\ \A m \in Elements(hist'[c]) : m.turn # turns + 1
      /\ cron.turn # turns + 1 /\ \A j \in manual : j.turn # turns + 1
  BY <1>4, TurnTypes DEF TurnsHandedOut
<1>6. SessionsApart'
  BY <1>2, <1>3, NamesAssumption DEF SessionsApart
<1>7. TurnsHandedOut'
  BY <1>3, <1>4, TurnTypes DEF TurnsHandedOut
<1>8. JobApart'
  <2>1. \A t \in Session : keyOf[t] # NoKey => keyOf'[t] # NoKey
    BY <1>2, NamesAssumption
  <2> QED BY <1>3, <1>4, <1>5, <2>1 DEF JobApart
<1>14. ManualApart'
  BY <1>2, <1>3, <1>4, <1>5, TurnTypes, NamesAssumption DEF ManualApart
<1>9. TurnsDoNotInterleave' /\ TurnInOneSession'
  BY <1>3 DEF TurnsDoNotInterleave, TurnInOneSession
<1>10. TurnHasSession'
  BY <1>2, <1>3, <1>4, <1>5 DEF TurnHasSession
<1>11. TurnNotBegun'
  BY <1>2, <1>3, <1>4, <1>5 DEF TurnNotBegun
<1>12. TurnAtTheEnd'
  <2>1. \A d \in Loop : pc'[d] \in {"open", "ask"} => d = c
    BY <1>4
  <2>2. Of(hist'[c], turns + 1) = {} /\ Of(log[s], turns + 1) = {}
    BY <1>5 DEF Of
  <2>4. /\ InOrder(log[s], turns + 1) /\ InOrder(hist'[c], turns + 1)
        /\ AtTheEnd(log[s], turns + 1)
    BY <1>5 DEF InOrder, AtTheEnd, Elements
  <2> SUFFICES ASSUME NEW d \in Loop, pc'[d] \in {"open", "ask"}
               PROVE  /\ Of(log'[sess'[d]], turn'[d]) = Of(hist'[d], turn'[d])
                      /\ \A m \in Of(hist'[d], turn'[d]) :
                            m.n <= said'[d] /\ (m.n = 0 => m = Summary(d)')
                      /\ pc'[d] = "ask" => Of(hist'[d], turn'[d]) # {}
                      /\ InOrder(log'[sess'[d]], turn'[d]) /\ InOrder(hist'[d], turn'[d])
                      /\ AtTheEnd(log'[sess'[d]], turn'[d])
    BY DEF TurnAtTheEnd
  <2>6. d = c /\ log' = log
    BY <1>3, <2>1
  <2> QED BY <1>4, <2>2, <2>4, <2>6
<1>13. StaleCopyIsSignalled'
  BY <1>3, <1>4 DEF StaleCopyIsSignalled
<1> QED BY <1>6, <1>7, <1>8, <1>9, <1>10, <1>11, <1>12, <1>13, <1>14

(* Each message of a turn continues what the turn has written, in the      *)
(* session and in the copy alike.                                          *)
LEMMA PersistKeeps ==
    ASSUME IInv, TypeOK', NEW c \in Loop, PersistInbound(c) \/ PersistStep(c) \/ PersistReply(c)
    PROVE  IInv'
<1> USE OneTurnAtATime DEF IInv
<1>1. /\ pc[c] \in {"open", "ask"} /\ lock = c /\ pc'[c] \in {"ask", "done"}
      /\ \A d \in Loop \ {c} : pc'[d] = pc[d] /\ pc[d] \in {"off", "idle"}
      /\ Persist(c)
      /\ UNCHANGED <<keyOf, active, lock, key, sess, turn, cron, manual, turns, manuals, crashes, hushed>>
  BY DEF PersistInbound, PersistStep, PersistReply, boundVars, TypeOK
<1>2. /\ Of(log[sess[c]], turn[c]) = Of(hist[c], turn[c])
      /\ \A x \in Of(hist[c], turn[c]) : x.n <= said[c] /\ (x.n = 0 => x = Summary(c))
  BY <1>1 DEF TurnAtTheEnd
<1> DEFINE m == NextMessage(c)
           s == sess[c]
<1>3. /\ m \in Message /\ m.turn = turn[c] /\ m.n = said[c] + 1 /\ s \in Session
      /\ said[c] \in Nat /\ turn[c] \in Nat /\ said'[c] = said[c] + 1
  BY <1>1, NextMessageType DEF TypeOK, TurnHasSession, NextMessage, Persist
<1>4. /\ log'[s] = Append(log[s], m) /\ hist'[c] = Append(hist[c], m) /\ dirty'[c] = dirty[c]
      /\ \A t \in Session \ {s} : log'[t] = log[t]
      /\ \A d \in Loop \ {c} : hist'[d] = hist[d] /\ dirty'[d]
  BY <1>1, <1>3 DEF Persist, Peers, TypeOK
<1> HIDE DEF m, s
<1>5. /\ Elements(log'[s]) = Elements(log[s]) \cup {m}
      /\ Elements(hist'[c]) = Elements(hist[c]) \cup {m}
      /\ Of(log'[s], turn[c]) = Of(log[s], turn[c]) \cup {m}
      /\ Of(hist'[c], turn[c]) = Of(hist[c], turn[c]) \cup {m}
      /\ Len(hist'[c]) = Len(hist[c]) + 1
      /\ log[s] \in Seq(Message) /\ hist[c] \in Seq(Message)
  <2>1. log[s] \in Seq(Message) /\ hist[c] \in Seq(Message)
    BY <1>3 DEF TypeOK
  <2>2. /\ Elements(log'[s]) = Elements(log[s]) \cup {m}
        /\ Of(log'[s], turn[c]) = Of(log[s], turn[c]) \cup {m}
    BY <1>3, <1>4, <2>1, AppendFacts
  <2>3. /\ Elements(hist'[c]) = Elements(hist[c]) \cup {m}
        /\ Of(hist'[c], turn[c]) = Of(hist[c], turn[c]) \cup {m}
        /\ Len(hist'[c]) = Len(hist[c]) + 1
    BY <1>3, <1>4, <2>1, AppendFacts
  <2> QED BY <2>1, <2>2, <2>3
<1>6. /\ \A t \in Session : \A x \in Elements(log'[t]) :
             x \in Elements(log[t]) \/ (t = s /\ x.turn = turn[c])
      /\ \A d \in Loop : \A x \in Elements(hist'[d]) :
             x \in Elements(hist[d]) \/ (d = c /\ x.turn = turn[c])
  <2>1. \A t \in Session : t = s \/ Elements(log'[t]) = Elements(log[t])
    BY <1>4
  <2>2. \A d \in Loop : d = c \/ Elements(hist'[d]) = Elements(hist[d])
    BY <1>4
  <2>3. ASSUME NEW t \in Session, NEW x \in Elements(log'[t])
        PROVE  x \in Elements(log[t]) \/ (t = s /\ x.turn = turn[c])
    BY <1>3, <1>5, <2>1
  <2>4. ASSUME NEW d \in Loop, NEW x \in Elements(hist'[d])
        PROVE  x \in Elements(hist[d]) \/ (d = c /\ x.turn = turn[c])
    BY <1>3, <1>5, <2>2
  <2> QED BY <2>3, <2>4
<1>7. SessionsApart'
  <2>1. keyOf[s] # NoKey
    BY <1>1, NamesAssumption DEF TurnHasSession, TypeOK, s
  <2> QED BY <1>1, <1>4, <2>1 DEF SessionsApart
<1>8. TurnsHandedOut'
  BY <1>1, <1>6 DEF TurnsHandedOut
<1>9. JobApart'
  <2>1. cron.at # "main"
    BY <1>1, NamesAssumption DEF TypeOK
  <2> QED BY <1>1, <1>6, <2>1 DEF JobApart
<1>16. ManualApart'
  BY <1>1, <1>6 DEF ManualApart
<1>10. TurnHasSession'
  BY <1>1, <1>4 DEF TurnHasSession, s
<1>11. TurnNotBegun'
  BY <1>1 DEF TurnNotBegun
<1>12. TurnAtTheEnd'
  <2>1. \A d \in Loop : pc'[d] \in {"open", "ask"} => d = c
    BY <1>1
  <2>2. Of(log'[s], turn[c]) = Of(hist'[c], turn[c]) /\ m \in Of(hist'[c], turn[c])
    BY <1>2, <1>5 DEF s
  <2>8. \A x \in Of(hist[c], turn[c]) : x \in Message /\ x.n \in Nat
    BY TurnTypes DEF Of, Message
  <2>3. \A x \in Of(log[s], turn[c]) \cup Of(hist[c], turn[c]) : x.n < m.n
    BY <1>2, <1>3, <2>8 DEF s
  <2>9. \A x \in Of(hist'[c], turn[c]) : x.n <= said'[c] /\ (x.n = 0 => x = Summary(c))
    BY <1>2, <1>3, <1>5, <2>8
  <2>4. InOrder(log[s], turn[c]) /\ InOrder(hist[c], turn[c]) /\ AtTheEnd(log[s], turn[c])
    BY <1>1 DEF TurnAtTheEnd, s
  <2>5. InOrder(log'[s], turn[c]) /\ InOrder(hist'[c], turn[c]) /\ AtTheEnd(log'[s], turn[c])
    BY <1>3, <1>4, <1>5, <2>3, <2>4, AppendOrder
  <2> SUFFICES ASSUME NEW d \in Loop, pc'[d] \in {"open", "ask"}
               PROVE  /\ Of(log'[sess'[d]], turn'[d]) = Of(hist'[d], turn'[d])
                      /\ \A x \in Of(hist'[d], turn'[d]) :
                            x.n <= said'[d] /\ (x.n = 0 => x = Summary(d)')
                      /\ pc'[d] = "ask" => Of(hist'[d], turn'[d]) # {}
                      /\ InOrder(log'[sess'[d]], turn'[d]) /\ InOrder(hist'[d], turn'[d])
                      /\ AtTheEnd(log'[sess'[d]], turn'[d])
    BY DEF TurnAtTheEnd
  <2>7. d = c /\ sess'[d] = s /\ turn'[d] = turn[c] /\ Summary(d)' = Summary(c)
    BY <1>1, <2>1 DEF s, Summary
  <2> QED BY <2>2, <2>5, <2>7, <2>9
<1>13. TurnsDoNotInterleave'
  <2>1. \A t \in Session : Unmixed(log[t])
    BY DEF TurnsDoNotInterleave, Unmixed
  <2>2. AtTheEnd(log[s], turn[c])
    BY <1>1 DEF TurnAtTheEnd, s
  <2>3. Unmixed(log'[s])
    BY <1>3, <1>4, <1>5, <2>1, <2>2, AppendOrder
  <2>4. \A t \in Session : Unmixed(log'[t])
    BY <1>4, <2>1, <2>3
  <2> QED BY <2>4 DEF TurnsDoNotInterleave, Unmixed
<1>14. TurnInOneSession'
  <2>1. \A t \in Session \ {s} : \A x \in Elements(log[t]) : x.turn # turn[c]
    BY <1>1 DEF TurnHasSession, s
  <2> QED BY <1>6, <2>1 DEF TurnInOneSession
<1>15. StaleCopyIsSignalled'
  BY <1>1, <1>4, <1>5 DEF StaleCopyIsSignalled, s
<1> QED BY <1>7, <1>8, <1>9, <1>10, <1>11, <1>12, <1>13, <1>14, <1>15, <1>16

(* A message the store refuses stays in the copy, and ends the turn. *)
LEMMA PersistFailsKeeps ==
    ASSUME IInv, TypeOK', NEW c \in Loop, PersistFails(c) PROVE IInv'
<1> USE OneTurnAtATime DEF IInv
<1>1. /\ pc[c] \in {"open", "ask"} /\ lock = c /\ lock' = Nobody /\ pc'[c] = "idle"
      /\ \A d \in Loop \ {c} : pc'[d] = pc[d] /\ pc[d] \in {"off", "idle"} /\ hist'[d] = hist[d]
      /\ hist'[c] = Append(hist[c], NextMessage(c))
      /\ turn'[c] = 0 /\ \A d \in Loop \ {c} : turn'[d] = turn[d] /\ said'[d] = said[d]
      /\ UNCHANGED <<log, keyOf, active, dirty, key, sess, cron, manual, turns, manuals, crashes,
                     hushed>>
  BY DEF PersistFails, storeVars, boundVars, TypeOK
<1>2. /\ Elements(hist'[c]) = Elements(hist[c]) \cup {NextMessage(c)}
      /\ NextMessage(c).turn = turn[c]
  <2>1. Elements(hist'[c]) = Elements(hist[c]) \cup {NextMessage(c)}
    BY <1>1, NextMessageType, AppendFacts DEF TypeOK
  <2> QED BY <2>1 DEF NextMessage
<1>3. TurnsHandedOut'
  <2>1. \A d \in Loop : turn'[d] <= turns
    BY <1>1, TurnTypes DEF TurnsHandedOut
  <2>2. \A d \in Loop : \A m \in Elements(hist'[d]) : m.turn <= turns
    BY <1>1, <1>2 DEF TurnsHandedOut
  <2> QED BY <1>1, <2>1, <2>2 DEF TurnsHandedOut
<1>4. JobApart' /\ ManualApart' /\ TurnHasSession'
  BY <1>1 DEF JobApart, ManualApart, TurnHasSession
<1>5. TurnNotBegun' /\ TurnAtTheEnd'
  BY <1>1 DEF TurnNotBegun, TurnAtTheEnd, Summary
<1>6. SessionsApart' /\ TurnsDoNotInterleave' /\ TurnInOneSession'
  BY <1>1 DEF SessionsApart, TurnsDoNotInterleave, TurnInOneSession
<1>7. StaleCopyIsSignalled'
  BY <1>1, <1>2 DEF StaleCopyIsSignalled
<1> QED BY <1>3, <1>4, <1>5, <1>6, <1>7

(* The lock is free again: nothing is promised of the turn any more. *)
LEMMA EndTurnKeeps ==
    ASSUME IInv, TypeOK', NEW c \in Loop, EndTurn(c) PROVE IInv'
<1> USE OneTurnAtATime DEF IInv
<1>1. /\ lock = c /\ lock' = Nobody /\ pc'[c] = "idle"
      /\ \A d \in Loop \ {c} : pc'[d] = pc[d] /\ pc[d] \in {"off", "idle"}
      /\ pc[c] # "off"
      /\ turn'[c] = 0 /\ \A d \in Loop \ {c} : turn'[d] = turn[d] /\ said'[d] = said[d]
      /\ UNCHANGED <<log, keyOf, active, dirty, key, sess, hist, cron, manual, turns, manuals, crashes,
                     hushed>>
  BY DEF EndTurn, storeVars, boundVars, TypeOK
<1>2. TurnsHandedOut' /\ JobApart' /\ ManualApart' /\ TurnHasSession'
  BY <1>1, TurnTypes DEF TurnsHandedOut, JobApart, ManualApart, TurnHasSession
<1>3. TurnNotBegun' /\ TurnAtTheEnd'
  BY <1>1 DEF TurnNotBegun, TurnAtTheEnd, Summary
<1>4. SessionsApart' /\ TurnsDoNotInterleave' /\ TurnInOneSession' /\ StaleCopyIsSignalled'
  BY <1>1 DEF SessionsApart, TurnsDoNotInterleave, TurnInOneSession, StaleCopyIsSignalled
<1> QED BY <1>2, <1>3, <1>4

(* /clear moves the turn to a session nobody but another process wrote to. *)
LEMMA ClearSessionKeeps ==
    ASSUME IInv, TypeOK', NEW c \in Loop, ClearSession(c) PROVE IInv'
<1> USE OneTurnAtATime DEF IInv
<1>1. PICK s \in Session : ReplaceSession(key[c], sess[c], s) /\ sess' = [sess EXCEPT ![c] = s]
  BY DEF ClearSession
<1>2. /\ pc[c] = "open" /\ lock = c /\ pc'[c] = "done" /\ sess'[c] = s /\ hist'[c] = <<>>
      /\ dirty'[c] = dirty[c]
      /\ \A d \in Loop \ {c} : /\ pc'[d] = pc[d] /\ pc[d] \in {"off", "idle"} /\ hist'[d] = hist[d]
                               /\ dirty'[d] /\ sess'[d] = sess[d]
      /\ UNCHANGED <<log, lock, key, turn, said, cron, manual, turns, manuals, crashes, hushed>>
  BY <1>1 DEF ClearSession, Peers, boundVars, TypeOK
<1>3. keyOf[sess[c]] = key[c] /\ sess[c] \in Session /\ key[c] \in Key /\ key[c] # NoKey
  BY <1>2, NamesAssumption DEF TurnHasSession, TypeOK
<1>4. /\ active'[s] /\ keyOf'[s] = key[c]
      /\ s # sess[c] /\ ~active'[sess[c]] /\ keyOf'[sess[c]] = key[c]
      /\ \A t \in Session \ {s, sess[c]} : keyOf'[t] = keyOf[t] /\ (active'[t] <=> active[t])
      /\ \A t \in Session : active[t] /\ keyOf[t] = key[c] => t = s \/ t = sess[c]
      /\ \/ keyOf[s] = key[c] /\ active[s]
         \/ keyOf[s] = NoKey /\ log[s] = <<>>
  BY <1>1, <1>3, ReplaceFacts
<1>5. Elements(<<>>) = {}
  BY DEF Elements
<1>6. SessionsApart'
  BY <1>2, <1>3, <1>4 DEF SessionsApart
<1>7. TurnsHandedOut'
  BY <1>2, <1>5 DEF TurnsHandedOut
<1>8. JobApart' /\ TurnsDoNotInterleave' /\ TurnInOneSession'
  BY <1>2, <1>3, <1>4 DEF JobApart, TurnsDoNotInterleave, TurnInOneSession
<1>12. ManualApart'
  BY <1>2, <1>3, <1>4, TurnTypes DEF ManualApart
<1>9. TurnHasSession'
  <2>1. \A t \in Session : \A m \in Elements(log[t]) : m.turn # turn[c]
    BY <1>2, <1>3 DEF TurnHasSession, TurnNotBegun
  <2> QED BY <1>2, <1>4, <2>1 DEF TurnHasSession
<1>10. TurnNotBegun' /\ TurnAtTheEnd'
  BY <1>2 DEF TurnNotBegun, TurnAtTheEnd
<1>11. StaleCopyIsSignalled'
  <2>1. Elements(log[s]) \subseteq hushed
    BY <1>2, <1>4, <1>5 DEF TurnNotBegun
  <2> QED BY <1>2, <2>1 DEF StaleCopyIsSignalled
<1> QED BY <1>6, <1>7, <1>8, <1>9, <1>10, <1>11, <1>12

(* The summary belongs to the turn that compacts, and is told to nobody. *)
LEMMA CompactKeeps ==
    ASSUME IInv, TypeOK', NEW c \in Loop, Compact(c) PROVE IInv'
<1> USE OneTurnAtATime DEF IInv
<1> DEFINE s == sess[c]
           summary == Summary(c)
           last == log[s][Len(log[s])]
<1>1. /\ lock = c /\ pc[c] # "off" /\ pc'[c] \in {"ask", "compacted"} /\ s \in Session
      /\ pc'[c] = "ask" => pc[c] = "ask" /\ summary \notin Elements(hist[c])
      /\ keyOf[s] = key[c] /\ key[c] \in Key
      /\ \A d \in Loop \ {c} : pc'[d] = pc[d] /\ pc[d] \in {"off", "idle"} /\ hist'[d] = hist[d]
      /\ log'[s] = <<summary, last>> /\ hist'[c] = log'[s] /\ hushed' = hushed \cup {summary}
      /\ \A t \in Session \ {s} : log'[t] = log[t]
      /\ UNCHANGED <<keyOf, active, lock, dirty, key, sess, turn, said, cron, manual, turns, manuals, crashes>>
  BY DEF Compact, boundVars, TypeOK, TurnHasSession
<1>2. /\ last \in Elements(log[s]) /\ last \in Message
      /\ summary.turn = turn[c] /\ summary.n = 0 /\ summary \in Message
  <2>1. log[s] \in Seq(Message) /\ Len(log[s]) > 1
    BY <1>1 DEF Compact, TypeOK
  <2>2. Len(log[s]) \in DOMAIN log[s]
    BY <2>1, LenProperties
  <2>3. last \in Elements(log[s])
    BY <2>2 DEF Elements
  <2> QED BY <1>1, <2>3, TurnTypes DEF TypeOK, Summary, Message, Writer
<1> HIDE DEF summary, last, s
<1>3. /\ Elements(log'[s]) = {summary, last} /\ DOMAIN log'[s] = 1 .. 2
      /\ log'[s][1] = summary /\ log'[s][2] = last
  BY <1>1 DEF Elements
<1>4. SessionsApart'
  BY <1>1, NamesAssumption DEF SessionsApart
<1>5. TurnsHandedOut'
  BY <1>1, <1>2, <1>3 DEF TurnsHandedOut
<1>6. JobApart'
  <2>1. cron.at # "main"
    BY <1>1, NamesAssumption DEF TypeOK
  <2> QED BY <1>1, <1>2, <1>3, <2>1 DEF JobApart
<1>12. ManualApart'
  BY <1>1, <1>2, <1>3 DEF ManualApart
<1>7. TurnHasSession'
  BY <1>1 DEF TurnHasSession, s
<1>8. TurnNotBegun'
  BY <1>1 DEF TurnNotBegun
<1>13. TurnAtTheEnd'
  <2> SUFFICES ASSUME NEW d \in Loop, pc'[d] \in {"open", "ask"}
               PROVE  /\ Of(log'[sess'[d]], turn'[d]) = Of(hist'[d], turn'[d])
                      /\ \A x \in Of(hist'[d], turn'[d]) :
                            x.n <= said'[d] /\ (x.n = 0 => x = Summary(d)')
                      /\ pc'[d] = "ask" => Of(hist'[d], turn'[d]) # {}
                      /\ InOrder(log'[sess'[d]], turn'[d]) /\ InOrder(hist'[d], turn'[d])
                      /\ AtTheEnd(log'[sess'[d]], turn'[d])
    BY DEF TurnAtTheEnd
  <2>1. d = c /\ pc[c] = "ask" /\ sess'[d] = s /\ turn'[d] = turn[c] /\ Summary(d)' = summary
    BY <1>1 DEF s, summary, Summary
  <2>2. turn[c] \in Nat /\ said[c] \in Nat /\ said'[c] = said[c]
    BY <1>1, TurnTypes
  <2>3. last.turn = turn[c] \/ last.by = "manual"
    <3>1. PICK x \in Elements(log[s]) : x.turn = turn[c]
      BY <2>1 DEF TurnAtTheEnd, Of, s
    <3>2. PICK i \in DOMAIN log[s] : x = log[s][i]
      BY DEF Elements
    <3>3. log[s] \in Seq(Message) /\ DOMAIN log[s] = 1 .. Len(log[s]) /\ Len(log[s]) \in Nat
      BY <1>1, LenProperties DEF TypeOK
    <3>4. CASE i = Len(log[s])
      BY <3>1, <3>2, <3>4 DEF last
    <3>5. CASE i < Len(log[s])
      BY <2>1, <3>1, <3>2, <3>3, <3>5 DEF TurnAtTheEnd, AtTheEnd, s, last
    <3> QED BY <3>3, <3>4, <3>5
  <2>4. last.turn = turn[c] => last.n \in Nat /\ 0 < last.n /\ last.n <= said[c]
    <3>1. SUFFICES ASSUME last.turn = turn[c] PROVE last.n \in Nat /\ last.n # 0 /\ last.n <= said[c]
      BY <2>2
    <3>2. last \in Of(hist[c], turn[c])
      BY <1>2, <2>1, <3>1 DEF TurnAtTheEnd, Of, s
    <3>3. last \in Elements(hist[c]) /\ last # summary
      BY <1>1, <2>1, <3>2 DEF Of
    <3> QED BY <1>2, <2>1, <3>2, <3>3 DEF TurnAtTheEnd, Message, summary
  <2>5. Of(log'[s], turn[c]) = {x \in {summary, last} : x.turn = turn[c]}
    BY <1>3 DEF Of
  <2>6. /\ InOrder(log'[s], turn[c])
        /\ AtTheEnd(log'[s], turn[c])
    <3>1. \A i, j \in DOMAIN log'[s] : i < j => i = 1 /\ j = 2
      BY <1>3
    <3> QED BY <1>2, <1>3, <2>3, <2>4, <3>1 DEF InOrder, AtTheEnd
  <2>7. \A x \in Of(log'[s], turn[c]) : x.n <= said[c] /\ (x.n = 0 => x = summary)
    BY <1>2, <2>2, <2>4, <2>5
  <2>8. Of(log'[s], turn[c]) # {}
    BY <1>2, <2>5
  <2> QED BY <1>1, <2>1, <2>2, <2>6, <2>7, <2>8
<1>9. TurnsDoNotInterleave'
  <2> SUFFICES ASSUME NEW t \in Session PROVE Unmixed(log'[t])
    BY DEF TurnsDoNotInterleave, Unmixed
  <2>1. CASE t # s
    BY <1>1, <2>1 DEF TurnsDoNotInterleave, Unmixed
  <2>2. CASE t = s
    BY <1>3, <2>2 DEF Unmixed
  <2> QED BY <2>1, <2>2
<1>10. TurnInOneSession'
  <2>1. \A t \in Session \ {s} : \A m \in Elements(log[t]) : m.turn # turn[c]
    BY <1>1 DEF TurnHasSession, s
  <2> QED BY <1>1, <1>2, <1>3, <2>1 DEF TurnInOneSession
<1>11. StaleCopyIsSignalled'
  <2>1. SUFFICES ASSUME NEW d \in Loop, pc'[d] # "off", ~dirty'[d]
                 PROVE  Elements(log'[sess'[d]]) \subseteq Elements(hist'[d]) \cup hushed' \cup cron'.wrote
    BY DEF StaleCopyIsSignalled
  <2>2. CASE d = c
    BY <1>1, <2>2 DEF s
  <2>3. CASE d # c
    <3>1. Elements(log[sess[d]]) \subseteq Elements(hist[d]) \cup hushed \cup cron.wrote
      BY <1>1, <2>1, <2>3 DEF StaleCopyIsSignalled
    <3>2. sess[d] \in Session
      BY <1>1, <2>1, <2>3 DEF TypeOK
    <3> QED BY <1>1, <1>2, <1>3, <2>3, <3>1, <3>2
  <2> QED BY <2>2, <2>3
<1> QED BY <1>4, <1>5, <1>6, <1>7, <1>8, <1>9, <1>10, <1>11, <1>12, <1>13

(* _record_delivery writes between the turns of the loops. *)
LEMMA RecordDeliveryKeeps ==
    ASSUME IInv, TypeOK', RecordDelivery PROVE IInv'
<1> USE OneTurnAtATime DEF IInv
<1> DEFINE m == [turn |-> cron.turn, n |-> 1, by |-> "cron"]
<1>1. PICK s \in Session :
        /\ OpenSession(Main, s)
        /\ log' = [log EXCEPT ![s] = Append(@, m)]
        /\ cron' = [cron EXCEPT !.at = "signal", !.sess = s, !.wrote = {m}]
  BY DEF RecordDelivery
<1>2. /\ active'[s] /\ keyOf'[s] = Main
      /\ \A t \in Session \ {s} : keyOf'[t] = keyOf[t] /\ (active'[t] <=> active[t])
      /\ \A t \in Session : active[t] /\ keyOf[t] = Main => t = s
      /\ \/ keyOf[s] = Main /\ active[s]
         \/ keyOf[s] = NoKey /\ log[s] = <<>>
  BY <1>1, OpenFacts, NamesAssumption
<1>3. m \in Message /\ m.turn = cron.turn /\ log[s] \in Seq(Message) /\ cron.turn \in Nat
  BY TurnTypes DEF TypeOK, Message, Writer
<1>4. /\ cron.at = "sent" /\ lock = Nobody /\ cron.wrote = {}
      /\ cron'.at = "signal" /\ cron'.turn = cron.turn /\ cron'.wrote = {m} /\ cron.turn # 0
      /\ log'[s] = Append(log[s], m) /\ \A t \in Session \ {s} : log'[t] = log[t]
      /\ \A d \in Loop : pc[d] \in {"off", "idle"}
      /\ UNCHANGED <<lock, dirty, pc, key, sess, hist, turn, said, manual, turns, manuals, crashes, hushed>>
  BY <1>1 DEF RecordDelivery, JobApart, loopVars, boundVars, TypeOK, JobTypes
<1> HIDE DEF m
<1>5. /\ \A t \in Session : \A x \in Elements(log[t]) : x.turn # cron.turn
      /\ cron.turn <= turns
  BY <1>4 DEF JobApart, TurnsHandedOut
<1>6. Elements(log'[s]) = Elements(log[s]) \cup {m}
  BY <1>3, <1>4, AppendFacts
<1>7. \A t \in Session : \A x \in Elements(log'[t]) :
        x \in Elements(log[t]) \/ (t = s /\ x = m)
  <2>1. \A t \in Session : t = s \/ Elements(log'[t]) = Elements(log[t])
    BY <1>4
  <2> QED BY <1>6, <2>1
<1>8. SessionsApart'
  BY <1>2, <1>4, NamesAssumption DEF SessionsApart
<1>9. TurnsHandedOut'
  BY <1>3, <1>4, <1>5, <1>7 DEF TurnsHandedOut
<1>10. JobApart'
  BY <1>4 DEF JobApart
<1>15. ManualApart'
  <2>1. \A j \in manual : keyOf'[j.sess] # NoKey
    BY <1>2, TurnTypes, NamesAssumption DEF ManualApart
  <2>2. \A j \in manual : j.turn # cron.turn
    BY DEF ManualApart
  <2>3. ASSUME NEW j \in manual, NEW t \in Session, NEW x \in Elements(log'[t]), x.turn = j.turn
        PROVE  t = j.sess /\ x.by = "manual"
    <3>1. x \in Elements(log[t])
      BY <1>3, <1>7, <2>2, <2>3
    <3> QED BY <2>3, <3>1 DEF ManualApart
  <2> QED BY <1>4, <2>1, <2>2, <2>3 DEF ManualApart
<1>11. TurnHasSession' /\ TurnNotBegun' /\ TurnAtTheEnd'
  BY <1>4 DEF TurnHasSession, TurnNotBegun, TurnAtTheEnd
<1>12. TurnsDoNotInterleave'
  <2>1. \A t \in Session : Unmixed(log[t])
    BY DEF TurnsDoNotInterleave, Unmixed
  <2>2. AtTheEnd(log[s], m.turn)
    BY <1>3, <1>5 DEF AtTheEnd, Elements
  <2>3. Unmixed(log'[s])
    BY <1>3, <1>4, <2>1, <2>2, AppendOrder
  <2>4. \A t \in Session : Unmixed(log'[t])
    BY <1>4, <2>1, <2>3
  <2> QED BY <2>4 DEF TurnsDoNotInterleave, Unmixed
<1>13. TurnInOneSession'
  BY <1>3, <1>5, <1>7 DEF TurnInOneSession
<1>14. StaleCopyIsSignalled'
  <2> SUFFICES ASSUME NEW d \in Loop, pc'[d] # "off", ~dirty'[d]
               PROVE  Elements(log'[sess'[d]]) \subseteq Elements(hist'[d]) \cup hushed' \cup cron'.wrote
    BY DEF StaleCopyIsSignalled
  <2>1. sess[d] \in Session
    BY <1>4 DEF TypeOK
  <2>2. Elements(log[sess[d]]) \subseteq Elements(hist[d]) \cup hushed
    BY <1>4 DEF StaleCopyIsSignalled
  <2> QED BY <1>4, <1>7, <2>1, <2>2
<1> QED BY <1>8, <1>9, <1>10, <1>11, <1>12, <1>13, <1>14, <1>15

(* A session=main job begins as a turn does. *)
LEMMA BeginMainJobKeeps ==
    ASSUME IInv, TypeOK', BeginMainJob PROVE IInv'
<1> USE OneTurnAtATime DEF IInv
<1>1. PICK s \in Session :
        /\ OpenSession(Main, s)
        /\ cron' = [NoJob EXCEPT !.at = "main", !.turn = turns', !.sess = s]
  BY DEF BeginMainJob
<1>2. /\ active'[s] /\ keyOf'[s] = Main
      /\ \A t \in Session \ {s} : keyOf'[t] = keyOf[t] /\ (active'[t] <=> active[t])
      /\ \A t \in Session : active[t] /\ keyOf[t] = Main => t = s
      /\ \/ keyOf[s] = Main /\ active[s]
         \/ keyOf[s] = NoKey /\ log[s] = <<>>
  BY <1>1, OpenFacts, NamesAssumption
<1>3. /\ cron.at = "idle" /\ cron.wrote = {} /\ lock = Nobody /\ lock' = Cron /\ turns' = turns + 1
      /\ cron'.at = "main" /\ cron'.turn = turns + 1 /\ cron'.wrote = {} /\ cron'.sess = s
      /\ \A d \in Loop : pc[d] \in {"off", "idle"}
      /\ UNCHANGED <<log, dirty, pc, key, sess, hist, turn, said, manual, manuals, crashes, hushed>>
  BY <1>1 DEF BeginMainJob, NewTurn, NoJob, JobApart, loopVars, TypeOK
<1>4. SessionsApart'
  BY <1>2, <1>3, NamesAssumption DEF SessionsApart
<1>5. TurnsHandedOut'
  BY <1>3, TurnTypes DEF TurnsHandedOut
<1>9. /\ \A t \in Session : \A m \in Elements(log[t]) : m.turn # turns + 1
      /\ \A d \in Loop : turn[d] # turns + 1
      /\ \A j \in manual : j.turn # turns + 1
  BY TurnTypes DEF TurnsHandedOut
<1>6. JobApart'
  <2>1. AtTheEnd(log[s], turns + 1)
    BY <1>9 DEF AtTheEnd, Elements
  <2> QED BY <1>2, <1>3, <1>9, <2>1, TurnTypes, NamesAssumption DEF JobApart
<1>10. ManualApart'
  BY <1>2, <1>3, <1>9, TurnTypes, NamesAssumption DEF ManualApart
<1>7. TurnHasSession' /\ TurnNotBegun' /\ TurnAtTheEnd'
  BY <1>3 DEF TurnHasSession, TurnNotBegun, TurnAtTheEnd
<1>8. TurnsDoNotInterleave' /\ TurnInOneSession' /\ StaleCopyIsSignalled'
  BY <1>3 DEF TurnsDoNotInterleave, TurnInOneSession, StaleCopyIsSignalled
<1> QED BY <1>4, <1>5, <1>6, <1>7, <1>8, <1>10

(* Its exchange is written row by row, under the lock. *)
LEMMA AppendMainJobKeeps ==
    ASSUME IInv, TypeOK', AppendMainJob PROVE IInv'
<1> USE OneTurnAtATime DEF IInv
<1> DEFINE m == [turn |-> cron.turn, n |-> cron.n + 1, by |-> "cron"]
           s == cron.sess
<1>1. m \in Message /\ m.turn = cron.turn /\ cron.turn \in Nat
  <2>1. cron.turn \in Nat /\ cron.n \in Nat
    BY DEF TypeOK, JobTypes
  <2> QED BY <2>1 DEF Message, Writer
<1>2. /\ cron.at = "main" /\ lock = Cron
      /\ s \in Session /\ log[s] \in Seq(Message)
      /\ cron' = [cron EXCEPT !.n = @ + 1, !.wrote = @ \cup {m}]
      /\ log' = [log EXCEPT ![s] = Append(@, m)]
      /\ \A d \in Loop : pc[d] \in {"off", "idle"}
      /\ UNCHANGED <<keyOf, active, lock, dirty, pc, key, sess, hist, turn, said, manual, turns, manuals,
                     crashes, hushed>>
  BY DEF AppendMainJob, JobApart, loopVars, boundVars, TypeOK
<1> HIDE DEF m, s
<1>3. /\ cron'.at = "main" /\ cron'.turn = cron.turn /\ cron'.wrote = cron.wrote \cup {m}
      /\ cron'.sess = cron.sess
      /\ log'[s] = Append(log[s], m) /\ \A t \in Session \ {s} : log'[t] = log[t]
  BY <1>2 DEF TypeOK, JobTypes
<1>4. /\ \A t \in Session \ {s} : \A x \in Elements(log[t]) : x.turn # cron.turn
      /\ cron.turn <= turns /\ AtTheEnd(log[s], cron.turn)
  BY <1>2 DEF JobApart, TurnsHandedOut, s
<1>5. Elements(log'[s]) = Elements(log[s]) \cup {m}
  BY <1>1, <1>2, <1>3, AppendFacts
<1>6. \A t \in Session : \A x \in Elements(log'[t]) :
        x \in Elements(log[t]) \/ (t = s /\ x = m)
  <2>1. \A t \in Session : t = s \/ Elements(log'[t]) = Elements(log[t])
    BY <1>3
  <2> QED BY <1>5, <2>1
<1>7. SessionsApart'
  BY <1>2, <1>3 DEF SessionsApart, JobApart, s
<1>8. TurnsHandedOut'
  BY <1>1, <1>2, <1>3, <1>4, <1>6 DEF TurnsHandedOut
<1>9. JobApart'
  <2>1. AtTheEnd(log'[s], cron.turn)
    BY <1>1, <1>2, <1>3, <1>4, AppendOrder
  <2> QED BY <1>1, <1>2, <1>3, <1>6, <2>1 DEF JobApart, s
<1>14. ManualApart'
  BY <1>1, <1>2, <1>3, <1>6 DEF ManualApart
<1>10. TurnHasSession' /\ TurnNotBegun' /\ TurnAtTheEnd'
  BY <1>2, NamesAssumption DEF TurnHasSession, TurnNotBegun, TurnAtTheEnd
<1>11. TurnsDoNotInterleave'
  <2>1. \A t \in Session : Unmixed(log[t])
    BY DEF TurnsDoNotInterleave, Unmixed
  <2>2. Unmixed(log'[s])
    BY <1>1, <1>2, <1>3, <1>4, <2>1, AppendOrder
  <2>3. \A t \in Session : Unmixed(log'[t])
    BY <1>3, <2>1, <2>2
  <2> QED BY <2>3 DEF TurnsDoNotInterleave, Unmixed
<1>12. TurnInOneSession'
  BY <1>1, <1>4, <1>6 DEF TurnInOneSession
<1>13. StaleCopyIsSignalled'
  <2> SUFFICES ASSUME NEW d \in Loop, pc'[d] # "off", ~dirty'[d]
               PROVE  Elements(log'[sess'[d]]) \subseteq Elements(hist'[d]) \cup hushed' \cup cron'.wrote
    BY DEF StaleCopyIsSignalled
  <2>1. sess[d] \in Session
    BY <1>2 DEF TypeOK
  <2>2. Elements(log[sess[d]]) \subseteq Elements(hist[d]) \cup hushed \cup cron.wrote
    BY <1>2 DEF StaleCopyIsSignalled
  <2> QED BY <1>2, <1>3, <1>6, <2>1, <2>2
<1> QED BY <1>7, <1>8, <1>9, <1>10, <1>11, <1>12, <1>13, <1>14

(* The steps of the scheduler that write nothing. *)
LEMMA SchedulerKeeps ==
    ASSUME IInv, TypeOK',
           Deliver \/ RecordFails \/ Signal \/ EndMainJob \/ MainJobFails
              \/ MainJobDelivered \/ MainJobNotDelivered
    PROVE  IInv'
<1> USE OneTurnAtATime DEF IInv
<1>1. UNCHANGED <<log, keyOf, active, pc, key, sess, hist, turn, said, manual, manuals, crashes>>
  BY DEF Deliver, RecordFails, Signal, EndMainJob, MainJobFails, MainJobDelivered, MainJobNotDelivered,
         storeVars, loopVars, boundVars
<1>2. lock' = lock \/ (lock = Cron /\ lock' = Nobody)
  BY DEF Deliver, RecordFails, Signal, EndMainJob, MainJobFails, MainJobDelivered, MainJobNotDelivered, TypeOK
<1>3. /\ turns' \in {turns, turns + 1} /\ cron'.turn \in {0, cron.turn, turns'}
      /\ hushed \subseteq hushed'
  <2>1. turns' \in {turns, turns + 1} /\ hushed \subseteq hushed'
    BY DEF Deliver, RecordFails, Signal, EndMainJob, MainJobFails, MainJobDelivered, MainJobNotDelivered,
           NewTurn, boundVars
  <2>2. CASE Deliver
    BY <2>1, <2>2 DEF Deliver, NoJob
  <2>3. CASE MainJobDelivered \/ EndMainJob
    BY <2>1, <2>3 DEF MainJobDelivered, EndMainJob, TypeOK, JobTypes
  <2>4. CASE RecordFails \/ Signal \/ MainJobFails \/ MainJobNotDelivered
    BY <2>1, <2>4 DEF RecordFails, Signal, MainJobFails, MainJobNotDelivered, NoJob
  <2> QED BY <2>1, <2>2, <2>3, <2>4
<1>4. SessionsApart' /\ TurnsDoNotInterleave' /\ TurnInOneSession'
  BY <1>1 DEF SessionsApart, TurnsDoNotInterleave, TurnInOneSession
<1>5. TurnsHandedOut'
  BY <1>1, <1>3, TurnTypes DEF TurnsHandedOut
<1>6. JobApart'
  <2>1. CASE Deliver
    <3>1. cron'.at = "sent" /\ cron'.turn = turns + 1 /\ cron'.wrote = {}
      BY <2>1 DEF Deliver, NewTurn, NoJob
    <3> QED BY <1>1, <3>1, TurnTypes DEF JobApart, TurnsHandedOut
  <2>2. CASE MainJobDelivered \/ EndMainJob
    <3>1. cron'.at \in {"signal", "wrote"}
      BY <2>2 DEF MainJobDelivered, EndMainJob, TypeOK, JobTypes
    <3> QED BY <3>1 DEF JobApart
  <2>3. CASE RecordFails \/ Signal \/ MainJobFails \/ MainJobNotDelivered
    <3>1. cron'.at = "idle" /\ cron'.wrote = {}
      BY <2>3 DEF RecordFails, Signal, MainJobFails, MainJobNotDelivered, NoJob
    <3> QED BY <3>1 DEF JobApart
  <2> QED BY <2>1, <2>2, <2>3
<1>11. ManualApart'
  <2>1. \A j \in manual : j.turn # turns + 1
    BY TurnTypes DEF TurnsHandedOut
  <2>2. cron'.turn \in {0, cron.turn} \/ cron'.turn = turns + 1
    <3>1. CASE Deliver
      BY <3>1 DEF Deliver, NewTurn, NoJob
    <3>2. CASE MainJobDelivered \/ EndMainJob
      BY <3>2 DEF MainJobDelivered, EndMainJob, TypeOK, JobTypes
    <3>3. CASE RecordFails \/ Signal \/ MainJobFails \/ MainJobNotDelivered
      BY <3>3 DEF RecordFails, Signal, MainJobFails, MainJobNotDelivered, NoJob
    <3> QED BY <3>1, <3>2, <3>3
  <2> QED BY <1>1, <2>1, <2>2 DEF ManualApart
<1>7. TurnHasSession'
  BY <1>1, <1>2 DEF TurnHasSession
<1>8. TurnNotBegun'
  BY <1>1, <1>3 DEF TurnNotBegun
<1>9. TurnAtTheEnd'
  BY <1>1 DEF TurnAtTheEnd, Summary
<1>10. StaleCopyIsSignalled'
  <2>1. CASE Signal
    <3>1. \A d \in Loop : dirty'[d]
      BY <2>1 DEF Signal
    <3> QED BY <3>1 DEF StaleCopyIsSignalled
  <2>2. CASE ~Signal
    <3>1. dirty' = dirty /\ hushed \cup cron.wrote \subseteq hushed' \cup cron'.wrote
      BY <2>2 DEF Deliver, RecordFails, EndMainJob, MainJobFails, MainJobDelivered, MainJobNotDelivered,
                  NoJob, JobApart, TypeOK, JobTypes
    <3> QED BY <1>1, <3>1 DEF StaleCopyIsSignalled
  <2> QED BY <2>1, <2>2
<1> QED BY <1>4, <1>5, <1>6, <1>7, <1>8, <1>9, <1>10, <1>11

(* rotate_session here, which waits for no turn in progress, or elsewhere. *)
LEMMA RotateKeeps ==
    ASSUME IInv, TypeOK', Rotate \/ ManualRotate PROVE IInv'
<1> USE OneTurnAtATime DEF IInv
<1>1. RotateMain
  BY DEF Rotate, ManualRotate
<1>2. /\ \A t \in Session : keyOf[t] # NoKey => keyOf'[t] = keyOf[t]
      /\ \A t \in Session : active'[t] => active[t] \/ log[t] = <<>>
      /\ \A t \in Session : keyOf'[t] = NoKey => log[t] = <<>> /\ ~active'[t]
      /\ \A t, u \in Session : active'[t] /\ active'[u] /\ keyOf'[t] = keyOf'[u] => t = u
  BY <1>1, RotateFacts
<1>3. UNCHANGED <<log, lock, dirty, pc, key, sess, hist, turn, said, cron, manual, turns, crashes, hushed>>
  BY DEF Rotate, ManualRotate, loopVars, boundVars
<1>4. SessionsApart'
  BY <1>2, <1>3 DEF SessionsApart
<1>5. TurnsHandedOut' /\ TurnAtTheEnd' /\ TurnsDoNotInterleave' /\ TurnInOneSession'
      /\ StaleCopyIsSignalled'
  BY <1>3 DEF TurnsHandedOut, TurnAtTheEnd, Summary, TurnsDoNotInterleave, TurnInOneSession,
              StaleCopyIsSignalled
<1>6. JobApart' /\ ManualApart'
  BY <1>2, <1>3, TurnTypes, NamesAssumption DEF JobApart, ManualApart
<1>7. TurnHasSession'
  BY <1>2, <1>3, NamesAssumption DEF TurnHasSession, TypeOK
<1>8. TurnNotBegun'
  <2> SUFFICES ASSUME NEW d \in Loop, pc[d] = "open"
               PROVE  /\ \A m \in Elements(log[sess[d]]) \cup Elements(hist[d]) : m.turn # turn[d]
                      /\ \A t \in Session \ {sess[d]} :
                            active'[t] /\ keyOf'[t] = key[d] => Elements(log[t]) \subseteq hushed
    BY <1>3 DEF TurnNotBegun
  <2>1. Elements(<<>>) = {}
    BY DEF Elements
  <2>2. ASSUME NEW t \in Session, t # sess[d], active'[t], keyOf'[t] = key[d]
        PROVE  Elements(log[t]) \subseteq hushed
    <3>1. CASE log[t] = <<>>
      BY <2>1, <3>1
    <3>2. CASE log[t] # <<>>
      <4>1. active[t] /\ keyOf[t] # NoKey
        BY <1>2, <2>2, <3>2 DEF SessionsApart
      <4> QED BY <1>2, <2>2, <4>1 DEF TurnNotBegun
    <3> QED BY <3>1, <3>2
  <2> QED BY <2>2 DEF TurnNotBegun
<1> QED BY <1>4, <1>5, <1>6, <1>7, <1>8

(* `faff cron run` opens the session a turn may be in. *)
LEMMA BeginManualJobKeeps ==
    ASSUME IInv, TypeOK', BeginManualJob PROVE IInv'
<1> USE OneTurnAtATime DEF IInv
<1> DEFINE n == turns + 1
<1>1. PICK s \in Session :
        /\ OpenSession(Main, s)
        /\ manual' = manual \cup {[turn |-> n, sess |-> s, n |-> 0]}
  BY DEF BeginManualJob, NewTurn
<1>2. /\ turns' = n
      /\ UNCHANGED <<log, lock, dirty, pc, key, sess, hist, turn, said, cron, crashes, hushed>>
  BY DEF BeginManualJob, NewTurn, loopVars
<1>3. /\ active'[s] /\ keyOf'[s] = Main
      /\ \A t \in Session \ {s} : keyOf'[t] = keyOf[t] /\ (active'[t] <=> active[t])
      /\ \A t \in Session : active[t] /\ keyOf[t] = Main => t = s
      /\ \/ keyOf[s] = Main /\ active[s]
         \/ keyOf[s] = NoKey /\ log[s] = <<>>
  BY <1>1, OpenFacts, NamesAssumption
<1>4. n \in Nat /\ turns < n /\ n # 0 /\ \A i \in Nat : i <= turns => i <= n /\ i # n
  BY TurnTypes
<1> HIDE DEF n
<1>5. /\ \A t \in Session : \A x \in Elements(log[t]) : x.turn # n
      /\ \A d \in Loop : turn[d] # n
      /\ \A j \in manual : j.turn # n
      /\ cron.turn # n
  BY <1>4, TurnTypes DEF TurnsHandedOut
<1>6. SessionsApart'
  BY <1>2, <1>3, NamesAssumption DEF SessionsApart
<1>7. TurnsHandedOut'
  BY <1>1, <1>2, <1>4, TurnTypes DEF TurnsHandedOut
<1>8. \A t \in Session : keyOf[t] # NoKey => keyOf'[t] = keyOf[t]
  BY <1>3
<1>9. JobApart'
  BY <1>2, <1>8 DEF JobApart
<1>10. ManualApart'
  <2>1. \A j \in manual' : j \in manual \/ (j.turn = n /\ j.sess = s)
    BY <1>1
  <2>2. \A j, k \in manual' : j.turn = k.turn => j = k
    BY <1>1, <1>5 DEF ManualApart
  <2>3. keyOf'[s] # NoKey
    BY <1>3, NamesAssumption
  <2> QED BY <1>2, <1>4, <1>5, <1>8, <2>1, <2>2, <2>3, TurnTypes DEF ManualApart
<1>11. TurnHasSession'
  BY <1>2, <1>8, NamesAssumption DEF TurnHasSession, TypeOK
<1>12. TurnNotBegun'
  <2> SUFFICES ASSUME NEW d \in Loop, pc[d] = "open", NEW t \in Session, t # sess[d],
                      active'[t], keyOf'[t] = key[d]
               PROVE  Elements(log[t]) \subseteq hushed
    BY <1>2 DEF TurnNotBegun
  <2>1. Elements(<<>>) = {}
    BY DEF Elements
  <2> QED BY <1>3, <2>1 DEF TurnNotBegun
<1>13. TurnAtTheEnd'
  BY <1>2 DEF TurnAtTheEnd, Summary
<1>14. TurnsDoNotInterleave' /\ TurnInOneSession' /\ StaleCopyIsSignalled'
  BY <1>2 DEF TurnsDoNotInterleave, TurnInOneSession, StaleCopyIsSignalled
<1> QED BY <1>6, <1>7, <1>9, <1>10, <1>11, <1>12, <1>13, <1>14

(* Its rows come behind a turn in progress, and nobody is told. *)
LEMMA AppendManualKeeps ==
    ASSUME IInv, TypeOK', NEW j \in manual, AppendManual(j) PROVE IInv'
<1> USE OneTurnAtATime DEF IInv
<1> DEFINE m == [turn |-> j.turn, n |-> j.n + 1, by |-> "manual"]
           s == j.sess
           k == [j EXCEPT !.n = @ + 1]
<1>1. /\ j \in [turn : Nat, sess : Session, n : Nat]
      /\ m \in Message /\ m.turn = j.turn /\ m.by = "manual" /\ j.turn \in Nat
      /\ s \in Session /\ log[s] \in Seq(Message)
      /\ k.turn = j.turn /\ k.sess = s
  <2>1. j \in [turn : Nat, sess : Session, n : Nat]
    BY DEF TypeOK
  <2>2. k.turn = j.turn /\ k.sess = s
    BY <2>1
  <2>3. m \in Message /\ m.turn = j.turn /\ m.by = "manual"
    BY <2>1 DEF Message, Writer
  <2> QED BY <2>1, <2>2, <2>3 DEF TypeOK
<1>2. /\ hushed' = hushed \cup {m} /\ manual' = (manual \ {j}) \cup {k}
      /\ log'[s] = Append(log[s], m) /\ \A t \in Session \ {s} : log'[t] = log[t]
      /\ UNCHANGED <<keyOf, active, lock, dirty, pc, key, sess, hist, turn, said, cron, turns>>
  BY <1>1 DEF AppendManual, loopVars, boundVars, TypeOK
<1> HIDE DEF m, s, k
<1>3. /\ j.turn # 0 /\ j.turn # cron.turn /\ keyOf[s] # NoKey /\ j.turn <= turns
      /\ \A d \in Loop : turn[d] # j.turn
      /\ \A t \in Session : \A x \in Elements(log[t]) : x.turn = j.turn => t = s /\ x.by = "manual"
      /\ \A i \in manual : i.turn = j.turn => i = j
  BY DEF ManualApart, TurnsHandedOut, s
<1>4. /\ Elements(log'[s]) = Elements(log[s]) \cup {m}
      /\ \A i \in Nat : i # j.turn => Of(log'[s], i) = Of(log[s], i)
      /\ \A i \in Nat : i # j.turn /\ InOrder(log[s], i) => InOrder(log'[s], i)
      /\ \A i \in Nat : AtTheEnd(log[s], i) => AtTheEnd(log'[s], i)
  <2>1. /\ Elements(log'[s]) = Elements(log[s]) \cup {m}
        /\ \A i \in Nat : i # j.turn => Of(log'[s], i) = Of(log[s], i)
    BY <1>1, <1>2, AppendFacts
  <2>2. /\ \A i \in Nat : i # j.turn /\ InOrder(log[s], i) => InOrder(log'[s], i)
        /\ \A i \in Nat : AtTheEnd(log[s], i) => AtTheEnd(log'[s], i)
    BY <1>1, <1>2, ForeignFacts
  <2> QED BY <2>1, <2>2
<1>5. \A t \in Session : \A x \in Elements(log'[t]) :
        x \in Elements(log[t]) \/ (t = s /\ x = m)
  <2>1. \A t \in Session : t = s \/ Elements(log'[t]) = Elements(log[t])
    BY <1>2
  <2> QED BY <1>4, <2>1
<1>6. SessionsApart'
  BY <1>2, <1>3 DEF SessionsApart
<1>7. TurnsHandedOut'
  BY <1>1, <1>2, <1>3, <1>5 DEF TurnsHandedOut
<1>8. JobApart'
  <2>1. cron.at = "main" => AtTheEnd(log'[cron.sess], cron.turn)
    BY <1>2, <1>4, TurnTypes DEF JobApart
  <2> QED BY <1>1, <1>2, <1>3, <1>5, <2>1 DEF JobApart
<1>9. ManualApart'
  <2>1. \A i \in manual' : (i \in manual /\ i # j) \/ i = k
    BY <1>2
  <2>2. \A i, l \in manual' : i.turn = l.turn => i = l
    BY <1>1, <1>3, <2>1 DEF ManualApart
  <2>3. ASSUME NEW i \in manual'
        PROVE  /\ i.turn # 0 /\ i.turn # cron.turn /\ keyOf[i.sess] # NoKey
               /\ \A d \in Loop : turn[d] # i.turn
               /\ \A t \in Session : \A x \in Elements(log'[t]) :
                     x.turn = i.turn => t = i.sess /\ x.by = "manual"
    <3>1. CASE i \in manual /\ i # j
      <4>1. i.turn # j.turn
        BY <1>3, <3>1
      <4>2. \A t \in Session : \A x \in Elements(log'[t]) :
              x.turn = i.turn => x \in Elements(log[t])
        BY <1>1, <1>5, <4>1
      <4> QED BY <3>1, <4>2 DEF ManualApart
    <3>2. CASE i = k
      BY <1>1, <1>3, <1>5, <3>2
    <3> QED BY <2>1, <3>1, <3>2
  <2> QED BY <1>2, <2>2, <2>3 DEF ManualApart
<1>10. TurnHasSession'
  <2>1. ASSUME NEW d \in Loop, lock = d, NEW t \in Session \ {sess[d]}, NEW x \in Elements(log'[t])
        PROVE  x.turn # turn[d]
    <3>1. CASE x \in Elements(log[t])
      BY <2>1, <3>1 DEF TurnHasSession
    <3>2. CASE x = m
      BY <1>1, <1>3, <3>2
    <3> QED BY <1>5, <3>1, <3>2
  <2> QED BY <1>2, <2>1 DEF TurnHasSession
<1>11. TurnNotBegun'
  <2> SUFFICES ASSUME NEW d \in Loop, pc[d] = "open"
               PROVE  /\ \A x \in Elements(log'[sess[d]]) \cup Elements(hist[d]) : x.turn # turn[d]
                      /\ \A t \in Session \ {sess[d]} :
                            active[t] /\ keyOf[t] = key[d] => Elements(log'[t]) \subseteq hushed'
    BY <1>2 DEF TurnNotBegun
  <2>1. sess[d] \in Session
    BY DEF TurnHasSession
  <2> QED BY <1>1, <1>2, <1>3, <1>5, <2>1 DEF TurnNotBegun
<1>12. TurnAtTheEnd'
  <2> SUFFICES ASSUME NEW d \in Loop, pc[d] \in {"open", "ask"}
               PROVE  /\ Of(log'[sess[d]], turn[d]) = Of(log[sess[d]], turn[d])
                      /\ InOrder(log'[sess[d]], turn[d]) /\ AtTheEnd(log'[sess[d]], turn[d])
    BY <1>2 DEF TurnAtTheEnd, Summary
  <2>1. sess[d] \in Session /\ turn[d] \in Nat /\ turn[d] # j.turn
    BY <1>3, TurnTypes DEF TurnHasSession
  <2>2. CASE sess[d] = s
    BY <1>4, <2>1, <2>2 DEF TurnAtTheEnd
  <2>3. CASE sess[d] # s
    BY <1>2, <2>1, <2>3 DEF TurnAtTheEnd
  <2> QED BY <2>2, <2>3
<1>13. TurnsDoNotInterleave'
  <2>1. \A t \in Session : Unmixed(log[t])
    BY DEF TurnsDoNotInterleave, Unmixed
  <2>2. Unmixed(log'[s])
    <3>1. \A x \in Of(log[s], m.turn) : x.by = "manual"
      BY <1>1, <1>3 DEF Of
    <3> QED BY <1>1, <1>2, <2>1, <3>1, ForeignFacts
  <2>3. \A t \in Session : Unmixed(log'[t])
    BY <1>2, <2>1, <2>2
  <2> QED BY <2>3 DEF TurnsDoNotInterleave, Unmixed
<1>14. TurnInOneSession'
  BY <1>1, <1>3, <1>5 DEF TurnInOneSession
<1>15. StaleCopyIsSignalled'
  <2> SUFFICES ASSUME NEW d \in Loop, pc[d] # "off", ~dirty[d]
               PROVE  Elements(log'[sess[d]]) \subseteq Elements(hist[d]) \cup hushed' \cup cron.wrote
    BY <1>2 DEF StaleCopyIsSignalled
  <2>1. sess[d] \in Session
    BY DEF TypeOK
  <2>2. Elements(log[sess[d]]) \subseteq Elements(hist[d]) \cup hushed \cup cron.wrote
    BY DEF StaleCopyIsSignalled
  <2> QED BY <1>2, <1>5, <2>1, <2>2
<1> QED BY <1>6, <1>7, <1>8, <1>9, <1>10, <1>11, <1>12, <1>13, <1>14, <1>15

(* The store survives the process, the turns in progress do not. *)
LEMMA CrashKeeps ==
    ASSUME IInv, TypeOK', Crash PROVE IInv'
<1> USE OneTurnAtATime DEF IInv
<1>1. /\ \A c \in Loop : pc'[c] = "off" /\ turn'[c] = 0 /\ hist'[c] = <<>>
      /\ lock' = Nobody /\ cron' = NoJob
      /\ UNCHANGED <<log, keyOf, active, manual, turns, manuals, hushed>>
  BY DEF Crash, storeVars
<1>2. Elements(<<>>) = {}
  BY DEF Elements
<1>3. cron'.at = "idle" /\ cron'.turn = 0 /\ cron'.wrote = {}
  BY <1>1 DEF NoJob
<1>4. TurnsHandedOut'
  BY <1>1, <1>2, <1>3, TurnTypes DEF TurnsHandedOut
<1>7. ManualApart'
  BY <1>1, <1>3 DEF ManualApart
<1>5. JobApart' /\ TurnHasSession' /\ TurnNotBegun' /\ TurnAtTheEnd' /\ StaleCopyIsSignalled'
  BY <1>1, <1>3 DEF JobApart, TurnHasSession, TurnNotBegun, TurnAtTheEnd, StaleCopyIsSignalled
<1>6. SessionsApart' /\ TurnsDoNotInterleave' /\ TurnInOneSession'
  BY <1>1 DEF SessionsApart, TurnsDoNotInterleave, TurnInOneSession
<1> QED BY <1>4, <1>5, <1>6, <1>7

(* A process that starts on an empty store. *)
LEMMA InitHolds == Init => IInv
<1> SUFFICES ASSUME Init PROVE IInv
  OBVIOUS
<1>1. TypeOK
  BY NamesAssumption DEF Init, TypeOK, NoJob, JobTypes, NoSession
<1>2. Elements(<<>>) = {}
  BY DEF Elements
<1>3. cron.at = "idle" /\ cron.turn = 0 /\ cron.wrote = {}
  BY DEF Init, NoJob
<1>4. \A c \in Loop : lock # c
  BY OneTurnAtATime, <1>1 DEF Init
<1>5. SessionsApart /\ TurnsHandedOut /\ JobApart /\ ManualApart
  BY <1>2, <1>3 DEF Init, SessionsApart, TurnsHandedOut, JobApart, ManualApart
<1>6. TurnHasSession /\ TurnNotBegun /\ TurnAtTheEnd
  BY <1>4 DEF Init, TurnHasSession, TurnNotBegun, TurnAtTheEnd
<1>7. TurnsDoNotInterleave /\ TurnInOneSession /\ StaleCopyIsSignalled
  BY <1>2 DEF Init, TurnsDoNotInterleave, TurnInOneSession, StaleCopyIsSignalled
<1> QED BY <1>1, <1>5, <1>6, <1>7 DEF IInv

(* Every step keeps the invariant. *)
LEMMA StepKeeps == IInv /\ [Next]_vars => IInv'
<1> SUFFICES ASSUME IInv, [Next]_vars PROVE IInv'
  OBVIOUS
<1>1. TypeOK'
  BY TypeStep DEF IInv
<1>2. CASE \E c \in Loop : LoopStep(c)
  BY <1>1, <1>2, EnsureDbKeeps, BeginTurnKeeps, PersistKeeps, PersistFailsKeeps, ClearSessionKeeps,
     CompactKeeps, EndTurnKeeps DEF LoopStep
<1>3. CASE CronStep
  BY <1>1, <1>3, RecordDeliveryKeeps, BeginMainJobKeeps, AppendMainJobKeeps, SchedulerKeeps, RotateKeeps
     DEF CronStep
<1>4. CASE BeginManualJob \/ (\E j \in manual : AppendManual(j)) \/ ManualRotate \/ Crash
  BY <1>1, <1>4, BeginManualJobKeeps, AppendManualKeeps, RotateKeeps, CrashKeeps
<1>5. CASE UNCHANGED vars
  BY <1>5 DEF vars, storeVars, loopVars, boundVars, IInv, TypeOK, SessionsApart, TurnsHandedOut, JobApart,
     ManualApart, TurnHasSession, TurnNotBegun, TurnAtTheEnd, Summary, TurnsDoNotInterleave, TurnInOneSession, StaleCopyIsSignalled
<1> QED BY <1>2, <1>3, <1>4, <1>5 DEF Next

-----------------------------------------------------------------------------
(* Results *)

(* The strengthening holds in every reachable state. *)
LEMMA Inductive == Spec => []IInv
<1> QED BY InitHolds, StepKeeps, PTL DEF Spec

(* Every variable keeps its type, and only who is in a turn has the lock.  *)
THEOREM SessionTypes == Spec => []TypeOK
<1>1. IInv => TypeOK
  BY DEF IInv
<1> QED BY <1>1, Inductive, PTL

(* _main_session_lock keeps the turns of all channels and jobs apart in    *)
(* every history, whatever is rotated, compacted or refused by the store.  *)
THEOREM TurnsApart == Spec => []TurnsDoNotInterleave
<1>1. IInv => TurnsDoNotInterleave
  BY DEF IInv
<1> QED BY <1>1, Inductive, PTL

(* A turn writes to the one session it began in, and its loop's copy holds *)
(* just what it wrote there, in order.                                     *)
THEOREM TurnTogether == Spec => []TurnStaysTogether
<1>1. ASSUME IInv PROVE TurnStaysTogether
  <2>1. ASSUME NEW c \in Loop, pc[c] = "ask"
        PROVE  /\ Of(log[sess[c]], turn[c]) = Of(hist[c], turn[c])
               /\ Of(hist[c], turn[c]) # {}
               /\ InOrder(log[sess[c]], turn[c]) /\ InOrder(hist[c], turn[c])
    BY <1>1, <2>1 DEF IInv, TurnAtTheEnd
  <2> QED BY <1>1, <2>1 DEF IInv, TurnInOneSession, TurnStaysTogether
<1> QED BY <1>1, Inductive, PTL

(* A loop that lacks messages of its session has been told, or will be, of *)
(* all but those whose writer tells nobody.                                *)
THEOREM StaleSignalled == Spec => []StaleCopyIsSignalled
<1>1. IInv => StaleCopyIsSignalled
  BY DEF IInv
<1> QED BY <1>1, Inductive, PTL

(* Only a rotation in another process takes a turn's session away from it. *)
THEOREM RotationWaits == Spec => RotationWaitsForTurn
<1>1. ASSUME IInv, [Next]_vars, NEW c \in Loop, pc[c] = "ask", active[sess[c]], ~active'[sess[c]]
      PROVE  manuals' # manuals
  <2> USE OneTurnAtATime DEF IInv
  <2>1. lock = c /\ sess[c] \in Session /\ \A d \in Loop : pc[d] = "open" => d = c
    BY <1>1 DEF TurnHasSession
  <2>2. ~ UNCHANGED active
    BY <1>1
  <2>3. \A k \in Key, s \in Session : ~OpenSession(k, s)
    BY <1>1, <2>1, OpenFacts
  <2>4. CASE \E d \in Loop : LoopStep(d)
    BY <1>1, <2>1, <2>2, <2>3, <2>4, NamesAssumption DEF LoopStep, EnsureDb, BeginTurn, PersistInbound, PersistStep,
       PersistReply, PersistFails, ClearSession, Compact, EndTurn, storeVars
  <2>5. CASE CronStep
    BY <1>1, <2>1, <2>2, <2>3, <2>5, NamesAssumption DEF CronStep, Deliver, RecordDelivery, RecordFails, Signal,
       BeginMainJob, AppendMainJob, EndMainJob, MainJobFails, MainJobDelivered, MainJobNotDelivered, Rotate, storeVars
  <2>8. CASE \E j \in manual : AppendManual(j)
    BY <2>2, <2>8 DEF AppendManual
  <2>6. CASE BeginManualJob \/ ManualRotate
    BY <1>1, <2>6 DEF BeginManualJob, ManualRotate, Manual, TypeOK
  <2>7. CASE Crash \/ UNCHANGED vars
    BY <2>2, <2>7 DEF Crash, vars, storeVars
  <2> QED BY <1>1, <2>4, <2>5, <2>6, <2>7, <2>8 DEF Next
<1>2. IInv /\ [Next]_vars =>
        [\A c \in Loop : pc[c] = "ask" /\ active[sess[c]] /\ ~active'[sess[c]] => manuals' # manuals]_vars
  BY <1>1
<1> QED BY <1>2, Inductive, PTL DEF Spec, RotationWaitsForTurn
=============================================================================
