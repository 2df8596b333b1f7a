--------------------------- MODULE ToolRegistry ----------------------------
(***************************************************************************)
(* ToolRegistry of runtime/tools.py and the loop's dispatch ceiling.  A    *)
(* registry runs one call at a time for its turn, each in a thread of its  *)
(* own; the loop gives up on a thread that outlives its ceiling, and the   *)
(* thread goes on: a question that nobody has answered may be answered     *)
(* later, and a subprocess runs to its own time limit.  `faff chat` can    *)
(* ask its user; channels and scheduled jobs cannot.  All registries work  *)
(* on one tree.                                                            *)
(***************************************************************************)
EXTENDS WorkspaceTree

CONSTANTS
    Registry,
    Asks,          \* the registries that have a prompt_fn
    Thread, Owner, \* dispatch threads, and whose they are
    Call,          \* the calls a model may make
    Permission,    \* the configured permission of each tool
    Ttl,           \* _APPROVAL_TTL
    Margin,        \* what dispatch_timeout adds to a tool's own budget
    MaxDumps,      \* MAX_DUMP_FILES
    MaxCalls, MaxOdd, \* bounds of the model
    None

ASSUME RegistryAssumption ==
    /\ Asks \subseteq Registry
    /\ Owner \in [Thread -> Registry]
    /\ None \notin Thread \cup Registry

(* The fields of a call: its tool, the path and the destination, what is   *)
(* written, the recursive flag; for shell_exec and skill_invoke the budget *)
(* of the subprocess, and for a command the paths its words name (options, *)
(* which begin with a dash, aside), those of them that it names by words   *)
(* with neither a slash nor a dot, whether a word has glob characters,     *)
(* whether the blocklist refuses it and whether shell_preapproved lets it  *)
(* through.                                                                *)
Fields == {"tool", "path", "to", "data", "recursive",
           "budget", "names", "bare", "glob", "blocked", "preapproved"}

ASSUME CallAssumption ==
    \A c \in Call :
        /\ DOMAIN c = Fields
        /\ c.tool \in DOMAIN Permission
        /\ c.path \in Path /\ c.to \in Path /\ c.data \in Content
        /\ c.names \subseteq Path /\ c.bare \subseteq c.names
        /\ c.budget \in Nat
ASSUME BoundsAssumption ==
    /\ {Ttl, Margin, MaxCalls, MaxOdd} \subseteq Nat
    /\ MaxDumps \in Nat \ {0}

VARIABLES
    tree,
    thread,      \* where each dispatch thread is
    turn,        \* the thread whose result the loop waits for
    approved,    \* _approved: what a command's files were, and the answer's age
    given,       \* history: what a command named when the user last said yes to it
    counter,     \* _cmd_output_counter
    dumps,       \* tmp/cmd_output_*.txt, oldest first: number and writer
    late,        \* history: threads with an output to name, of whose registry
                 \* another has named one since they took a number
    calls, odd   \* bounds: calls; what subprocesses write, and restarts

bounds == <<calls, odd>>
vars == <<tree, thread, turn, approved, given, counter, dumps, late, bounds>>

Commands == {c \in Call : c.tool = "shell_exec"}
Subprocesses == {"shell_exec", "skill_invoke"}

(* What a command's files were when the user said yes, and how long ago:   *)
(* the digests that are kept; and every word of the command, with those of *)
(* the files that could not be read.                                       *)
Approval == [hashes : SUBSET (Path \X Cell), age : Nat]
Answer(c) == [cells : [c.names -> Cell], unread : SUBSET c.names, age : Nat]

ASSUME NoneAssumption ==
    None \notin Approval /\ \A c \in Commands : None \notin Answer(c)

Idle == [at |-> "idle", call |-> None, age |-> 0, started |-> 0]

Init ==
    /\ tree = [p \in Path |-> IF p = Root \/ \E q \in Protected : q \in Below(p)
                              THEN Dir
                              ELSE IF p \in Protected THEN CHOOSE c \in Content : TRUE
                              ELSE Absent]
    /\ thread = [t \in Thread |-> Idle]
    /\ turn = [r \in Registry |-> None]
    /\ approved = [r \in Registry |-> [c \in Commands |-> None]]
    /\ given = [r \in Registry |-> [c \in Commands |-> None]]
    /\ counter = [r \in Registry |-> 0]
    /\ dumps = <<>>
    /\ late = {}
    /\ calls = 0 /\ odd = 0

Odd == odd < MaxOdd /\ odd' = odd + 1

-----------------------------------------------------------------------------
(* Output that is too long: _tail_truncate *)

(* The oldest go until there is room for one.  Ten files are never passed  *)
(* by more than one write, so one goes.                                    *)
Prune(d) == IF Len(d) >= MaxDumps THEN Tail(d) ELSE d

(* The files of other numbers: a number names one file at the most.        *)
Other(n, d) ==
    IF \E i \in DOMAIN d : d[i].n = n
    THEN LET i == CHOOSE i \in DOMAIN d : d[i].n = n
         IN  SubSeq(d, 1, i - 1) \o SubSeq(d, i + 1, Len(d))
    ELSE d

(* The registry's counter goes up for an output that is too long.          *)
TakeNumber(t) ==
    /\ counter' = [counter EXCEPT ![Owner[t]] = @ + 1]
    /\ late' = late \ {t}
    /\ UNCHANGED dumps

(* The file is named by what the counter is by then, which another thread  *)
(* of the registry may have raised or used.                                *)
Dump(t) ==
    LET r == Owner[t]
    IN  /\ dumps' = Append(Other(counter[r], Prune(dumps)), [n |-> counter[r], by |-> r])
        /\ late' = late \cup
              {u \in Thread \ {t} : Owner[u] = r /\ thread[u].at = "dumping"}
        /\ UNCHANGED counter

NoDump == UNCHANGED <<counter, dumps, late>>

-----------------------------------------------------------------------------
(* What a tool does *)

Effects(t, c) ==
    CASE c.tool = "file_read" -> FileRead(t, c.path)
      [] c.tool = "file_list" -> FileList(t, c.path)
      [] c.tool = "file_search" -> FileSearch(t, c.path)
      [] c.tool = "file_write" -> FileWrite(t, c.path, c.data)
      [] c.tool = "file_edit" -> FileEdit(t, c.path, c.data)
      [] c.tool = "file_copy" -> FileCopy(t, c.path, c.to)
      [] c.tool = "file_move" -> FileMove(t, c.path, c.to)
      [] c.tool = "file_delete" -> FileDelete(t, c.path, c.recursive)
      [] OTHER -> {Failed(t), Done(t)}   \* web_search, web_fetch

Finish(t) == thread' = [thread EXCEPT ![t] = Idle]

(* The loop goes on once the thread it waits for has ended. *)
Returns(t) ==
    turn' = [r \in Registry |-> IF turn[r] = t THEN None ELSE turn[r]]

(* handler(call.arguments): a file tool acts, a subprocess starts. *)
Handle(t, c, age) ==
    \/ /\ c.tool \in Subprocesses
       /\ thread' = [thread EXCEPT ![t] = [at |-> "running", call |-> c,
                                           age |-> age, started |-> age]]
       /\ turn' = [turn EXCEPT ![Owner[t]] = IF thread[t].at = "idle" THEN t ELSE @]
       /\ UNCHANGED tree
    \/ /\ c.tool \notin Subprocesses
       /\ \E o \in Effects(tree, c) : tree' = o.tree
       /\ Finish(t)
       /\ Returns(t)

-----------------------------------------------------------------------------
(* Dispatch, permission and approval *)

(* run_with_timeout starts a new thread; which of the free ones stands for *)
(* it is the same to the model.                                            *)
Dispatch(r, t) ==
    /\ turn[r] = None
    /\ Owner[t] = r /\ thread[t].at = "idle"
    /\ t = CHOOSE u \in Thread : Owner[u] = r /\ thread[u].at = "idle"
    /\ calls < MaxCalls
    /\ calls' = calls + 1

(* What is kept of a command's words: the files that can be read, and what *)
(* was absent under a word that looks like a path.                         *)
Hashes(t, c, unread) ==
    {<<p, t[p]>> :
        p \in {q \in c.names \ unread : ~IsDir(t, q) /\ (t[q] = Absent => q \notin c.bare)}}

(* Mutant: only the files that were there are looked at again. *)
UnchangedFiles(t, h) == \A x \in h : x[2] = Absent \/ t[x[1]] = x[2]

UnchangedSince(t, h) == \A x \in h : t[x[1]] = x[2]

Fresh(r, c) == approved[r][c] # None /\ approved[r][c].age <= Ttl

Answered(r, c) == c.tool = "shell_exec" /\ ~c.preapproved /\ Fresh(r, c)

(* A tool set to never, a command the blocklist refuses, a question that   *)
(* nobody can be asked.  An expired approval is dropped on the way.        *)
Reject(r, t, c) ==
    /\ Dispatch(r, t)
    /\ \/ Permission[c.tool] = "never"
       \/ c.tool = "shell_exec" /\ c.blocked
       \/ /\ Permission[c.tool] = "ask" /\ r \notin Asks
          /\ ~(c.tool = "shell_exec" /\ c.preapproved)
    /\ UNCHANGED <<tree, thread, turn, approved, given, counter, dumps, late, odd>>

Allowed(r, t, c) ==
    /\ Dispatch(r, t)
    /\ ~(c.tool = "shell_exec" /\ c.blocked)
    /\ \/ Permission[c.tool] = "always"
       \/ Permission[c.tool] = "ask" /\ c.tool = "shell_exec" /\ c.preapproved
    /\ Handle(t, c, 0)
    /\ NoDump
    /\ UNCHANGED <<approved, given, odd>>

Asked(r, c) == Permission[c.tool] = "ask" /\ r \in Asks
               /\ ~(c.tool = "shell_exec" /\ (c.blocked \/ c.preapproved))

(* _verify_toctou finds the files as they were; the process starts next.   *)
RunApproved(r, t, c) ==
    /\ Dispatch(r, t)
    /\ Asked(r, c) /\ Answered(r, c)
    /\ UnchangedSince(tree, approved[r][c].hashes)
    /\ thread' = [thread EXCEPT ![t] = [Idle EXCEPT !.at = "checked", !.call = c]]
    /\ turn' = [turn EXCEPT ![r] = t]
    /\ NoDump
    /\ UNCHANGED <<tree, approved, given, odd>>

(* _verify_toctou: a file was created or modified, or cannot be read now;  *)
(* the approval is gone.                                                   *)
ChangedSince(r, t, c) ==
    /\ Dispatch(r, t)
    /\ Asked(r, c) /\ Answered(r, c)
    /\ \/ ~UnchangedSince(tree, approved[r][c].hashes)
       \/ \E x \in approved[r][c].hashes : x[2] # Absent
    /\ approved' = [approved EXCEPT ![r][c] = None]
    /\ NoDump
    /\ UNCHANGED <<tree, thread, turn, given, odd>>

AskUser(r, t, c) ==
    /\ Dispatch(r, t)
    /\ Asked(r, c) /\ ~Answered(r, c)
    /\ approved' = IF c.tool = "shell_exec"
                   THEN [approved EXCEPT ![r][c] = None] ELSE approved
    /\ thread' = [thread EXCEPT ![t] = [Idle EXCEPT !.at = "prompt", !.call = c]]
    /\ turn' = [turn EXCEPT ![r] = t]
    /\ NoDump
    /\ UNCHANGED <<tree, given, odd>>

(* The reader of the terminal is the question that was asked first.        *)
Reads(t) ==
    /\ thread[t].at = "prompt"
    /\ \A u \in Thread :
          thread[u].at = "prompt" /\ Owner[u] = Owner[t] => thread[u].age <= thread[t].age

(* The files are hashed once the answer is there; one that cannot be read  *)
(* is passed over.  A command with globs is not remembered.                *)
Remember(r, c, unread) ==
    /\ given' = [given EXCEPT ![r][c] =
                  [cells |-> [p \in c.names |-> tree[p]], unread |-> unread, age |-> 0]]
    /\ approved' = [approved EXCEPT ![r][c] =
          IF c.glob THEN None ELSE [hashes |-> Hashes(tree, c, unread), age |-> 0]]

SaysYes(t) ==
    /\ Reads(t)
    /\ LET c == thread[t].call
       IN  /\ IF c.tool = "shell_exec"
              THEN \E unread \in SUBSET {p \in c.names : tree[p] \in Content} :
                      Remember(Owner[t], c, unread)
              ELSE UNCHANGED <<given, approved>>
           /\ Handle(t, c, thread[t].age)
    /\ NoDump
    /\ UNCHANGED bounds

SaysNo(t) ==
    /\ Reads(t)
    /\ Finish(t)
    /\ Returns(t)
    /\ NoDump
    /\ UNCHANGED <<tree, approved, given, bounds>>

-----------------------------------------------------------------------------
(* A subprocess *)

Running(t) == thread[t].at = "running"
Ran(t) == thread[t].age - thread[t].started

Works(t) ==
    /\ Running(t)
    /\ Odd
    /\ tree' \in Outside(tree)
    /\ UNCHANGED <<thread, turn, approved, given, counter, dumps, late, calls>>

(* Popen, a moment after the files were looked at; they are not again.     *)
Starts(t) ==
    /\ thread[t].at = "checked"
    /\ thread' = [thread EXCEPT ![t] = [@ EXCEPT !.at = "running", !.started = thread[t].age]]
    /\ NoDump
    /\ UNCHANGED <<tree, turn, approved, given, bounds>>

(* The result of a subprocess; long output goes to a file first.           *)
Answers(t) ==
    /\ \/ /\ Finish(t)
          /\ Returns(t)
          /\ NoDump
       \/ /\ TakeNumber(t)
          /\ thread' = [thread EXCEPT ![t] = [@ EXCEPT !.at = "dumping"]]
          /\ UNCHANGED turn
    /\ UNCHANGED <<tree, approved, given, bounds>>

(* A command ends, by itself or for its memory.                            *)
Exits(t) ==
    /\ Running(t)
    /\ thread[t].call.tool = "shell_exec"
    /\ Answers(t)

(* So does the script of a skill; but a skill that is called without an    *)
(* action, or by a name that no skill has, answers without a script, with  *)
(* its instructions or an error.                                           *)
SkillReturns(t) ==
    /\ Running(t)
    /\ thread[t].call.tool = "skill_invoke"
    /\ Answers(t)

WritesOutput(t) ==
    /\ thread[t].at = "dumping"
    /\ Dump(t)
    /\ Finish(t)
    /\ Returns(t)
    /\ UNCHANGED <<tree, approved, given, bounds>>

(* Its own limit: the process group is killed. *)
TimesOut(t) ==
    /\ Running(t)
    /\ Ran(t) >= thread[t].call.budget
    /\ Finish(t)
    /\ Returns(t)
    /\ NoDump
    /\ UNCHANGED <<tree, approved, given, bounds>>

-----------------------------------------------------------------------------
(* Time, the loop's ceiling, and the end of the process *)

(* Mutant: a subprocess gets no more than its own budget. *)
CeilingTight(t) == thread[t].call.budget

(* dispatch_timeout *)
Ceiling(t) == thread[t].call.budget + Margin

(* Mutant: a question is waited for as long as it takes. *)
GiveUpRunning(r) ==
    /\ turn[r] # None
    /\ Running(turn[r])
    /\ thread[turn[r]].age >= Ceiling(turn[r])
    /\ turn' = [turn EXCEPT ![r] = None]
    /\ UNCHANGED <<tree, thread, approved, given, counter, dumps, late, bounds>>

(* _dispatch_with_timeout: the thread is abandoned, not stopped.           *)
GiveUp(r) ==
    /\ turn[r] # None
    /\ thread[turn[r]].age >= Ceiling(turn[r])
    /\ turn' = [turn EXCEPT ![r] = None]
    /\ UNCHANGED <<tree, thread, approved, given, counter, dumps, late, bounds>>

(* What time waits for: a limit that has been reached, a process to start, *)
(* a file to be written.                                                   *)
Overdue(t) ==
    \/ thread[t].at \in {"checked", "dumping"}
    \/ Running(t) /\ Ran(t) >= thread[t].call.budget
    \/ t = turn[Owner[t]] /\ thread[t].age >= Ceiling(t)

Older(a) == IF a = None \/ a.age > Ttl THEN a ELSE [a EXCEPT !.age = @ + 1]

Tick ==
    /\ \A t \in Thread : ~Overdue(t)
    /\ thread' = [t \in Thread |->
          IF thread[t].at = "idle" \/ (thread[t].at = "prompt" /\ thread[t].age >= Ceiling(t))
          THEN thread[t] ELSE [thread[t] EXCEPT !.age = @ + 1]]
    /\ approved' = [r \in Registry |-> [c \in Commands |-> Older(approved[r][c])]]
    /\ given' = [r \in Registry |-> [c \in Commands |-> Older(given[r][c])]]
    /\ UNCHANGED <<tree, turn, counter, dumps, late, bounds>>

(* Mutant: the numbers start afresh. *)
NumbersAfresh == 0

(* The highest number of the files that are there. *)
NumbersSeen ==
    IF dumps = <<>> THEN 0
    ELSE CHOOSE n \in {dumps[i].n : i \in DOMAIN dumps} :
             \A i \in DOMAIN dumps : dumps[i].n <= n

(* The process of a registry ends and starts again: ToolRegistry.__init__. *)
Restart(r) ==
    /\ Odd
    /\ thread' = [t \in Thread |-> IF Owner[t] = r THEN Idle ELSE thread[t]]
    /\ turn' = [turn EXCEPT ![r] = None]
    /\ approved' = [approved EXCEPT ![r] = [c \in Commands |-> None]]
    /\ given' = [given EXCEPT ![r] = [c \in Commands |-> None]]
    /\ counter' = [counter EXCEPT ![r] = NumbersSeen]
    /\ late' = late \ {t \in Thread : Owner[t] = r}
    /\ UNCHANGED <<tree, dumps, calls>>

-----------------------------------------------------------------------------
Next ==
    \/ \E r \in Registry, t \in Thread, c \in Call :
          \/ Reject(r, t, c)
          \/ Allowed(r, t, c)
          \/ RunApproved(r, t, c)
          \/ ChangedSince(r, t, c)
          \/ AskUser(r, t, c)
    \/ \E t \in Thread : SaysYes(t) \/ SaysNo(t) \/ Works(t)
    \/ \E t \in Thread : Starts(t) \/ Exits(t) \/ SkillReturns(t) \/ TimesOut(t)
    \/ \E t \in Thread : WritesOutput(t)
    \/ \E r \in Registry : GiveUp(r) \/ Restart(r)
    \/ Tick

Spec == Init /\ [][Next]_vars

(* Time passes, and what is due at a time happens.  That a user answers,   *)
(* or a subprocess ends by itself, is not assumed.                         *)
FairSpec ==
    /\ Spec
    /\ WF_vars(Tick)
    /\ \A t \in Thread : WF_vars(TimesOut(t)) /\ WF_vars(Starts(t)) /\ WF_vars(WritesOutput(t))
    /\ \A r \in Registry : WF_vars(GiveUp(r))

-----------------------------------------------------------------------------
(* Correctness *)

ThreadType ==
    [at : {"idle", "prompt", "checked", "running", "dumping"}, call : Call \cup {None}, age : Nat, started : Nat]

(* Types, and: the tree is one an operating system can hold, no more than  *)
(* MAX_DUMP_FILES outputs are kept, and the loop waits for busy threads of *)
(* its own only.                                                           *)
TypeOK ==
    /\ tree \in Tree /\ WellFormed(tree)
    /\ thread \in [Thread -> ThreadType]
    /\ turn \in [Registry -> Thread \cup {None}]
    /\ approved \in [Registry -> [Commands -> Approval \cup {None}]]
    /\ \A r \in Registry, c \in Commands : given[r][c] \in Answer(c) \cup {None}
    /\ counter \in [Registry -> Nat]
    /\ dumps \in Seq([n : Nat, by : Registry]) /\ Len(dumps) <= MaxDumps
    /\ late \subseteq Thread
    /\ calls \in Nat /\ odd \in Nat
    /\ \A r \in Registry : turn[r] # None =>
          Owner[turn[r]] = r /\ thread[turn[r]].at # "idle"

(* No sequence of tool calls changes, removes or replaces the job table,   *)
(* whatever is copied, moved or deleted around it and whoever else works   *)
(* on the tree: only a subprocess (the cron-manager skill is one) does.    *)
(* That it cannot be replaced through its directory rests on the directory *)
(* being there whenever the table is.                                      *)
ProtectedUntouched ==
    [][odd' = odd =>
         \A p \in Protected : Exists(tree, p) => tree'[p] = tree[p]]_vars

(* A command that is let through unasked under an approval is one the user *)
(* said yes to no longer than _APPROVAL_TTL ago, and every word of it that *)
(* was a file then, or nothing, is the same as it is let through, whatever *)
(* ran in between; save the files that could not be read then, and what    *)
(* was absent under a bare word.                                           *)
ApprovalStillHolds ==
    [][\A t \in Thread :
         LET c == thread'[t].call
             g == given[Owner[t]][c]
         IN  (/\ thread[t].at = "idle" /\ thread'[t].at \in {"checked", "running"}
              /\ c.tool = "shell_exec" /\ Permission[c.tool] = "ask" /\ ~c.preapproved)
             => /\ g # None /\ g.age <= Ttl
                /\ ~c.glob
                /\ \A p \in c.names :
                      \/ g.cells[p] = tree[p]
                      \/ g.cells[p] = Dir \/ p \in g.unread
                      \/ g.cells[p] = Absent /\ p \in c.bare]_vars

(* dispatch_timeout promises that the loop does not abandon a thread while *)
(* its subprocess runs on.  It keeps that unless the user took as long as  *)
(* its margin to allow the command.                                        *)
LostOnlyAfterSlowAnswer ==
    [][\A r \in Registry :
         LET t == turn[r]
         IN  (t # None /\ turn'[r] = None /\ thread'[t].at = "running")
             => thread[t].started >= Margin]_vars

(* Long output goes to a new file: while a registry's earlier output is    *)
(* kept under the name the model was told, a later one of that registry    *)
(* does not overwrite it, across restarts and other registries' files.     *)
(* Save that two threads of one registry may name theirs alike, when one   *)
(* takes its number before the other has named its file.                   *)
OwnOutputKept ==
    [][\A t \in Thread \ late :
         (thread[t].at = "dumping" /\ dumps' # dumps /\ thread'[t].at = "idle")
         => \A i \in DOMAIN dumps :
               dumps[i].by = Owner[t] => dumps[i].n # dumps'[Len(dumps')].n]_vars

(* The loop is never stuck with a call, not with a question that nobody    *)
(* answers either.                                                         *)
TurnGoesOn == \A r \in Registry : turn[r] # None ~> turn[r] = None

=============================================================================
