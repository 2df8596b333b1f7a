--------------------------- MODULE MCSharedFiles ---------------------------
(* Two processes, a kill, and every operation of every file.              *)
EXTENDS SharedFiles, TLC

Scenes == {{"queue"}, {"jobs"}, {"buffer"}, {"reminders"}, {"learnings", "rules"},
           {"daily"}, {"trust"}, {"words"}, {"seen"}, {"readings"}, {"watch"}}

Starts ==
    [queue |-> {Missing, Garbled,
                <<[id |-> 0, priority |-> "simmering", day |-> 0, status |-> "pending"]>>},
     jobs |-> {Missing, Garbled,
               <<[id |-> 1, def |-> "old", enabled |-> TRUE],
                 [id |-> 2, def |-> "new", enabled |-> TRUE]>>},
     buffer |-> {Garbled, <<[id |-> 1, c |-> 1, i |-> 2], [id |-> 2, c |-> 3, i |-> 3]>>},
     reminders |-> {Missing, <<[id |-> 1, due |-> 0, recurring |-> TRUE],
                               [id |-> 2, due |-> 1, recurring |-> FALSE]>>},
     learnings |-> {Missing, <<[id |-> 1, status |-> "pending"]>>},
     rules |-> {Missing, <<[id |-> 7]>>},
     daily |-> {Missing, <<>>},
     trust |-> {Missing, Garbled, {[id |-> 1, version |-> 1]}},
     words |-> {Missing, Garbled,
                [FreshWords EXCEPT !.cards[1] = [status |-> "hard", reps |-> 0, sent |-> 0, due |-> 1],
                                   !.last = [id |-> 1, day |-> 0]]},
     seen |-> {Missing, Garbled, {[id |-> 1, first |-> 0, last |-> 0]}},
     readings |-> {Missing, <<[id |-> 7, day |-> 0]>>},
     watch |-> {Garbled, "wet"}]

O(file, do) == [file |-> file, do |-> do, id |-> 0, with |-> 0, numbers |-> {}]
OnId(file, do, id) == [O(file, do) EXCEPT !.id = id]
With(o, x) == [o EXCEPT !.with = x]

Operations ==
    {With(O("queue", "queue add"), x) : x \in {"urgent", "simmering"}}
    \cup {[O("queue", "queue done") EXCEPT !.numbers = n] : n \in {{1}, {1, 2}}}
    \cup {O("queue", x) : x \in {"queue clear", "queue wipe", "queue promote"}}
    \cup {With(OnId("jobs", "job add", i), "old") : i \in {1, 3}}
    \cup {With(OnId("jobs", "job update", 1), "own")}
    \cup {OnId("jobs", x, 1) : x \in {"job enable", "job disable", "job remove"}}
    \cup {OnId("jobs", "job drop", 2), O("jobs", "job migrate")}
    \cup {With(OnId("buffer", "buffer add", i), <<2, i>>) : i \in {1, 3}}
    \cup {O("buffer", x) : x \in {"buffer decay", "buffer drop_lowest"}}
    \cup {With(O("reminders", "reminder add"), x) : x \in {<<0, FALSE>>, <<1, TRUE>>}}
    \cup {OnId("reminders", "reminder remove", 1), O("reminders", "reminder check")}
    \cup {O("learnings", "learning add")}
    \cup {OnId("learnings", "learning mark", i) : i \in {1, 2}}
    \cup {OnId("rules", "rule append", i) : i \in {1, 2}}
    \cup {O("daily", x) : x \in {"note append", "note stamp", "note prepare"}}
    \cup {OnId("trust", x, i) : x \in {"trust", "untrust"}, i \in {1, 2}}
    \cup {O("trust", "load")}
    \cup {OnId("words", "word pick", i) : i \in Word} \cup {O("words", "word reset")}
    \cup {With(OnId("words", "word score", i), s) : i \in {0, 2}, s \in {0, 1, 3, 5}}
    \cup {[O("seen", "seen mark") EXCEPT !.numbers = n] : n \in {{1}, {1, 2}}}
    \cup {O("seen", "seen reset"), O("readings", "reading append")}
    \cup {With(O("watch", "watch"), x) : x \in {"wet", "dry"}}
=============================================================================
