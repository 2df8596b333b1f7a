----------------------------- MODULE MCCronTime -----------------------------
(* A day of four hours of six minutes.  On three clocks, one of them put   *)
(* forward by an hour and one put back: expressions that name hours or     *)
(* not, days or not, and one-shots.  On a fourth: the shapes of entries.   *)
EXTENDS CronTime

Part(form, lo, hi, step) == [form |-> form, lo |-> lo, hi |-> hi, step |-> step]
Star == {Part("star", 0, 0, {})}
Only(n) == {Part("number", n, n, {})}
Range(a, b) == {Part("range", a, b, {})}

Every == [f \in FieldName |-> Star]
At(minute, hour) == [Every EXCEPT !["minute"] = minute, !["hour"] = hour]

Expressions ==
    {At(m, Star) : m \in {Star, Only(0), Only(4), Only(0) \cup Only(1),
                          {Part("star", 0, 0, {2})}, {Part("range", 1, 5, {3})}}}
    \cup {At(m, h) : m \in {Only(0), Only(3), Only(3) \cup Only(5)},
                     h \in {Only(1), Only(2), Range(1, 2)}}
    \cup {[At(Only(2), Only(2)) EXCEPT !["day_of_week"] = d] : d \in {Only(2), Range(1, 2)}}
    \cup {[At(Only(2), Only(2)) EXCEPT !["day_of_month"] = Only(1), !["day_of_week"] = Only(1)],
          [At(Only(2), Only(2)) EXCEPT !["day_of_month"] = Only(2), !["month"] = Only(1)],
          [At(Range(4, 1), Star) EXCEPT !["month"] = Only(1)]}

Plain == [id |-> "ok", session |-> "absent", prompt |-> "text", skill |-> "absent",
          schedule |-> "absent", expr |-> Every, at |-> "absent", time |-> 0,
          deliver |-> "none", rotate_session |-> "absent", enabled |-> "absent",
          context |-> "absent"]

Timed(expr) == [Plain EXCEPT !.schedule = "given", !.expr = expr]
Once(time) == [Plain EXCEPT !.at = "given", !.time = time]

Shapes ==
    {[Plain EXCEPT !.session = s, !.prompt = p, !.skill = k, !.deliver = d, !.at = "given",
                   !.rotate_session = r, !.context = c] :
        s \in {"absent", "none", "main", "bad"}, p \in {"absent", "null", "empty", "text"},
        k \in {"absent", "null", "empty", "bad", "ok"},
        d \in {"absent", "null", "none", "channel", "announce", "badmode", "notobject"},
        r \in {"absent", "true"}, c \in {"absent", "heartbeat"}}
    \cup {[Plain EXCEPT !.schedule = s, !.at = a, !.enabled = b, !.id = i] :
        s \in {"absent", "null", "given"}, a \in {"absent", "null", "bad", "given"},
        b \in {"absent", "true", "false", "bad"}, i \in {"ok", "bad"}}
    \cup {Timed([Every EXCEPT ![f] = {Part(form, lo, hi, step)}]) :
        f \in FieldName, form \in {"star", "number", "range", "junk", "empty"},
        lo \in {0, 1, 3}, hi \in {1, 8}, step \in {{}, {0}, {1}, {4}, {9}}}

Clock(shift, by, entries, end) ==
    [shift |-> shift, by |-> by, entries |-> entries, last |-> end]

Scenes ==
    {Clock(12, by, {Timed(x) : x \in Expressions} \cup {Once(t) : t \in {11, 14}}, 32) :
        by \in {-6, 0, 6}}
    \cup {Clock(0, 0, Shapes, 1)}
=============================================================================
