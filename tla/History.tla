----------------------------- MODULE History -----------------------------
(***************************************************************************)
(* Conversation histories and what compaction keeps of one                 *)
(* (runtime/compaction.py, _determine_protected_tail and                   *)
(* _strip_orphaned_tool_messages), and the rule of strict providers that   *)
(* the loop's comments appeal to: an assistant message with tool calls is  *)
(* followed at once by one result for each of them.                        *)
(*                                                                         *)
(* Texts are abstracted: a message is its role, the ids of the tool calls  *)
(* it makes and the id of the call it answers.                             *)
(***************************************************************************)
EXTENDS Integers, Sequences, FiniteSets, SequencesExt

NoCall == 0

User == [role |-> "user", calls |-> <<>>, reply |-> NoCall]
System == [User EXCEPT !.role = "system"]
Text == [User EXCEPT !.role = "assistant"]
Calling(ids) == [Text EXCEPT !.calls = ids]
Result(id) == [User EXCEPT !.role = "tool", !.reply = id]

Message ==
    [role : {"user", "system", "assistant", "tool"}, calls : Seq(Nat), reply : Nat]

Ids(m) == {m.calls[k] : k \in DOMAIN m.calls}

CallsIn(q) == UNION {Ids(q[i]) : i \in DOMAIN q}

RepliesIn(q) == {q[i].reply : i \in {j \in DOMAIN q : q[j].role = "tool"}}

-----------------------------------------------------------------------------
(* _determine_protected_tail: the last n messages, and back from there     *)
(* over tool results to the message that made the calls.                   *)
TailStart(q, n) ==
    LET first == Len(q) - n + 1
    IN  IF Len(q) <= n THEN 1
        ELSE CHOOSE i \in 1 .. first :
                /\ i = 1 \/ q[i].role # "tool"
                /\ \A j \in i + 1 .. first : q[j].role = "tool"

ProtectedTail(q, n) == SubSeq(q, TailStart(q, n), Len(q))

Before(q, n) == SubSeq(q, 1, TailStart(q, n) - 1)

Answers(q, m) == m.role = "tool" => m.reply \in CallsIn(q)

(* An error result for each of m's calls that has none.                    *)
Stubs(q, m) ==
    FlattenSeq([k \in DOMAIN m.calls |->
        IF m.calls[k] \in RepliesIn(q) THEN <<>> ELSE <<Result(m.calls[k])>>])

(* _strip_orphaned_tool_messages: results whose call is gone are dropped,  *)
(* calls whose result is missing are answered by an error right after.     *)
StripOrphans(tail) ==
    FlattenSeq([i \in DOMAIN tail |->
        IF Answers(tail, tail[i]) THEN <<tail[i]>> \o Stubs(tail, tail[i]) ELSE <<>>])

(* What compact() leaves: the summary, the preserved text when the memory  *)
(* flush failed, and the tail; or everything when there is no head.        *)
Compacted(q, n, flushed) ==
    IF Before(q, n) = <<>> THEN q
    ELSE (IF flushed THEN <<System>> ELSE <<System, System>>)
         \o StripOrphans(ProtectedTail(q, n))

-----------------------------------------------------------------------------
(* The provider's rule *)

AnsweredAt(q, i) ==
    LET n == Len(q[i].calls)
    IN  /\ i + n <= Len(q)
        /\ \A k \in 1 .. n : q[i + k].role = "tool"
        /\ {q[i + k].reply : k \in 1 .. n} = Ids(q[i])

StrayAt(q, i) ==
    /\ q[i].role = "tool"
    /\ ~\E j \in 1 .. i - 1 : i - j <= Len(q[j].calls) /\ AnsweredAt(q, j)
=============================================================================
