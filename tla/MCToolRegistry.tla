-------------------------- MODULE MCToolRegistry --------------------------
(* A chat that can ask and a daemon that cannot, on one small workspace.  *)
EXTENDS ToolRegistry, TLC

CONSTANTS chat, daemon, c1, c2, d1, old, new

jobs == <<"config", "jobs">>
config == <<"config">>
notes == <<"notes">>
draft == <<"notes", "jobs">>

Paths == {Root, config, jobs, notes, draft}
JobTable == {jobs}

Owners == c1 :> chat @@ c2 :> chat @@ d1 :> daemon

Tools == {"file_read", "file_list", "file_search", "file_write", "file_edit",
          "file_copy", "file_move", "file_delete", "web_fetch", "web_search",
          "shell_exec", "skill_invoke"}

Permissions ==
    [t \in Tools |-> CASE t \in {"shell_exec", "web_fetch"} -> "ask"
                      [] t = "web_search" -> "never"
                      [] OTHER -> "always"]

Plain(tool) ==
    [tool |-> tool, path |-> Root, to |-> Root, data |-> new, recursive |-> TRUE,
     budget |-> 0, names |-> {}, bare |-> {}, glob |-> FALSE, blocked |-> FALSE, preapproved |-> FALSE]

On(tool, p) == [Plain(tool) EXCEPT !.path = p]
Between(tool, p, q) == [On(tool, p) EXCEPT !.to = q]

Shell(seconds, words) == [Plain("shell_exec") EXCEPT !.budget = seconds, !.names = words]

Calls ==
    {Plain("web_fetch"), Plain("web_search"),
     Plain("skill_invoke"),
     [Shell(1, {draft, notes}) EXCEPT !.bare = {notes}],
     [Shell(0, {}) EXCEPT !.glob = TRUE],
     [Shell(1, {}) EXCEPT !.blocked = TRUE],
     [Shell(0, {}) EXCEPT !.preapproved = TRUE],
     [On("file_delete", config) EXCEPT !.recursive = FALSE]}
    \cup {On(t, p) : t \in {"file_read", "file_list", "file_search"}, p \in {notes}}
    \cup {On(t, p) : t \in {"file_write", "file_delete"}, p \in {jobs, draft}}
    \cup {On("file_edit", draft), On("file_delete", config), On("file_delete", notes)}
    \cup {Between(t, config, q) : t \in {"file_copy", "file_move"}, q \in {draft, notes}}
    \cup {Between(t, notes, q) : t \in {"file_copy", "file_move"}, q \in {config, draft}}
=============================================================================
