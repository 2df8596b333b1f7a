----------------------------- MODULE CronFields -----------------------------
(***************************************************************************)
(* The five fields of a cron expression and the entries of jobs.json: what *)
(* cron-manager lets in, what load_jobs takes, and which wall-clock        *)
(* minutes an expression matches.  A wall-clock time is the number of      *)
(* minutes since a first midnight; the calendar is made of constants.      *)
(*                                                                         *)
(* A field is a set of parts (the order between the commas does not        *)
(* matter), a part is [form, lo, hi, step] with step {} or {n}; the form   *)
(* "junk" stands for what is neither a number, a range nor a star.         *)
(***************************************************************************)
EXTENDS Integers, FiniteSets

CONSTANTS
    Hour,        \* minutes in an hour
    Day,         \* hours in a day
    Week,        \* days in a week
    Month,       \* days in a month
    Year,        \* months in a year
    FirstWeekday \* Python's weekday (Monday is 0) of the first day

ASSUME CalendarAssumption ==
    /\ {Hour, Day, Week, Month, Year} \subseteq Nat \ {0}
    /\ FirstWeekday \in 0 .. Week - 1

FieldName == {"minute", "hour", "day_of_month", "month", "day_of_week"}

Low == [minute |-> 0, hour |-> 0, day_of_month |-> 1, month |-> 1, day_of_week |-> 0]
High == [minute |-> Hour - 1, hour |-> Day - 1, day_of_month |-> Month, month |-> Year,
         day_of_week |-> Week]

Bounds(f) == Low[f] .. High[f]
Span(f) == High[f] - Low[f] + 1

LeastOf(S) == CHOOSE x \in S : \A y \in S : x <= y

-----------------------------------------------------------------------------
(* cron-manager *)

(* Mutant: a step of any size. *)
ValidPartAnyStep(p, f) ==
    /\ p.form \notin {"junk", "empty"}
    /\ \A n \in p.step : n >= 1
    /\ p.form = "star" \/ {p.lo, p.hi} \subseteq Bounds(f)

ValidPart(p, f) ==
    /\ p.form \notin {"junk", "empty"}
    /\ \A n \in p.step : n \in 1 .. Span(f)
    /\ p.form = "star" \/ {p.lo, p.hi} \subseteq Bounds(f)

ValidField(e, f) == \A p \in e : ValidPart(p, f)

ValidExpression(e) == \A f \in FieldName : ValidField(e[f], f)

-----------------------------------------------------------------------------
(* The scheduler *)

Values(p, f) == IF p.form = "star" THEN Bounds(f) ELSE p.lo .. p.hi

(* Values that _parse_field refuses, and a step with nothing to step over. *)
Raises(p, f) ==
    \/ p.form = "junk"
    \/ \E n \in p.step : n \notin 1 .. Span(f)
    \/ p.form = "number" /\ p.lo \notin Bounds(f)
    \/ p.form = "range" /\ ~({p.lo, p.hi} \subseteq Bounds(f))
    \/ p.form = "range" /\ p.step # {} /\ p.lo > p.hi

ParsePart(p, f) ==
    {v \in Values(p, f) :
        \A n \in p.step : (v - LeastOf(Values(p, f))) % n = 0}

ParseField(e, f) == UNION {ParsePart(p, f) : p \in {q \in e : q.form # "empty"}}

Parses(e) == \A f \in FieldName : \A p \in e[f] : ~Raises(p, f)

(* The last day of the week is Sunday again. *)
SundayIsZero(S) == IF Week \in S THEN (S \ {Week}) \cup {0} ELSE S

ParseCron(e) ==
    [f \in FieldName |-> IF f = "day_of_week" THEN SundayIsZero(ParseField(e[f], f))
                         ELSE ParseField(e[f], f)]

(* Wall-clock minutes *)
MinuteOf(w) == w % Hour
HourOf(w) == (w \div Hour) % Day
DayOf(w) == w \div (Hour * Day)
DayOfMonth(w) == (DayOf(w) % Month) + 1
MonthOf(w) == ((DayOf(w) \div Month) % Year) + 1
Weekday(w) == (DayOf(w) + FirstWeekday) % Week

(* Cron's 0 is Sunday, Python's is Monday. *)
ConvertDow(S) == {(d + Week - 1) % Week : d \in S}

(* When both kinds of day are restricted, either will do. *)
MatchesCron(w, fields) ==
    LET anyDate == fields["day_of_month"] = 1 .. Month
        anyDay == fields["day_of_week"] = 0 .. Week - 1
        date == DayOfMonth(w) \in fields["day_of_month"]
        weekday == Weekday(w) \in ConvertDow(fields["day_of_week"])
    IN  /\ MinuteOf(w) \in fields["minute"]
        /\ HourOf(w) \in fields["hour"]
        /\ MonthOf(w) \in fields["month"]
        /\ \/ anyDate /\ (anyDay \/ weekday)
           \/ ~anyDate /\ (date \/ (~anyDay /\ weekday))

-----------------------------------------------------------------------------
(* Entries.  Every field is "absent", "null", "bad", or has a value.  The *)
(* expression and the time are under expr and time.                        *)

Given(x) == x # "absent"
HasText(x) == x \notin {"absent", "null", "empty"}
Session(e) == IF e.session = "absent" THEN "agent" ELSE e.session

(* _validate_job of cron-manager.  Python raises on a schedule of null.    *)
Accepts(e) ==
    /\ e.id # "bad"
    /\ Given(e.schedule) # Given(e.at)
    /\ Given(e.schedule) => e.schedule # "null" /\ ValidExpression(e.expr)
    /\ Given(e.at) => e.at \notin {"null", "bad"}
    /\ Given(e.prompt) # Given(e.skill)
    /\ Session(e) # "bad"
    /\ Session(e) = "none" => ~Given(e.prompt)
    /\ Session(e) # "none" => ~Given(e.skill)
    /\ e.deliver \notin {"notobject", "badmode", "badchannel", "announce"}
    /\ Given(e.skill) => e.skill \notin {"null", "empty", "bad"}
    /\ e.enabled # "bad"
    /\ e.rotate_session # "bad"
    /\ e.rotate_session = "true" => Session(e) = "main"

(* _cross_field_error *)
Coherent(e) ==
    /\ e.rotate_session = "true" => Session(e) = "main"
    /\ \/ e.context = "heartbeat"
       \/ Session(e) = "none" /\ HasText(e.skill)
       \/ Session(e) # "none" /\ HasText(e.prompt)

(* load_jobs, without its checks of shapes that JSON written by hand may   *)
(* have.                                                                   *)
Loads(e) ==
    /\ e.id # "bad"
    /\ Session(e) # "bad"
    /\ e.deliver \notin {"null", "notobject", "badmode", "badchannel"}
    /\ e.skill \notin {"empty", "bad"}
    /\ e.schedule = "given" => Parses(e.expr)
    /\ e.at # "bad"
    /\ e.enabled # "bad"
    /\ e.rotate_session # "bad"
    /\ Coherent(e)

=============================================================================
