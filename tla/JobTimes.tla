------------------------------ MODULE JobTimes ------------------------------
(* When a job of the job runner is due (times.py, Action.next_delta).        *)
(*                                                                           *)
(* A Time gives minutes, hours and weekdays the way a crontab does; the next *)
(* one after the last run is found in at most ten rounds, each of which      *)
(* moves a clock of weekday, hour and minute forward.  A job is due when     *)
(* that moment has passed and the notwhen of the job does not keep it back.  *)
(*                                                                           *)
(* Time is in seconds since the start of a week.  The lengths of the week,   *)
(* the day and the hour are parameters: 7, 24, 60 and 60 in the code.  Left  *)
(* out are When.freq, Time.max_freq and the changes between summer and       *)
(* winter time.                                                              *)
EXTENDS Integers, FiniteSets

CONSTANTS
    Days, Hours, Mins, Secs,
    Times,          \* the settings of a job that are considered
    Notwhens,       \* the settings of notwhen that are considered
    Tries,          \* rounds of next_time: 10 in the code
    MaxWait         \* bound: seconds that pass without a run

Hour == Mins * Secs
Day == Hours * Hour
Week == Days * Day

\* A Time: sets of minutes, hours and weekdays; the empty set is None, for all.
TimeType == [min : SUBSET (0 .. Mins - 1), hour : SUBSET (0 .. Hours - 1),
             wday : SUBSET (0 .. Days - 1)]

ASSUME JobTimesAssumption ==
    /\ {Days, Hours, Mins, Secs} \subseteq Nat \ {0}
    /\ Tries \in Nat /\ Tries >= 4
    /\ Times \subseteq (SUBSET TimeType) \ {{}}      \* min([]) is an error
    /\ Notwhens \subseteq TimeType
    /\ MaxWait \in Nat

VARIABLES
    when,           \* Action.when.time: a set of Times
    notwhen,        \* Action.notwhen.time, with nothing given for None
    last,           \* when the job ran last: second of a week
    waited          \* seconds since then

vars == <<when, notwhen, last, waited>>

now == last + waited

-----------------------------------------------------------------------------
(* The clock.                                                                *)

\* time.localtime.
Weekday(t) == (t \div Day) % Days
HourOf(t) == (t \div Hour) % Hours
MinOf(t) == (t \div Secs) % Mins
SecOf(t) == t % Secs

\* _next_list_value: the next value of a list, from the start if there is none.
NextValue(v, list) ==
    LET later == {n \in list : n > v}
        from == IF later = {} THEN list ELSE later
    IN  CHOOSE n \in from : \A m \in from : n =< m

Wraps(v, list) == \A n \in list : n =< v

Fits(v, list) == list = {} \/ v \in list

-----------------------------------------------------------------------------
(* Time.next_time.  c is the clock, week is 1 once the weekday has started   *)
(* over, and found the answer, or 0.                                         *)

\* Mutant: the wrap of the weekday is forgotten.
SetDaySameWeek(T, c) ==
    IF Fits(c.wday, T.wday) THEN c
    ELSE [c EXCEPT !.min = 0, !.hour = 0, !.wday = NextValue(c.wday, T.wday)]

\* Midnight of the next weekday that fits.
SetDay(T, c) ==
    IF Fits(c.wday, T.wday) THEN c
    ELSE [c EXCEPT !.min = 0, !.hour = 0, !.wday = NextValue(c.wday, T.wday),
                   !.week = IF Wraps(c.wday, T.wday) THEN 1 ELSE @]

\* The start of the next hour that fits.
SetHour(T, c) ==
    IF Fits(c.hour, T.hour) THEN c
    ELSE [c EXCEPT !.min = 0, !.hour = NextValue(c.hour, T.hour),
                   !.wday = IF Wraps(c.hour, T.hour) THEN @ + 1 ELSE @]

\* The next minute that fits.
SetMin(T, c) ==
    IF Fits(c.min, T.min) THEN c
    ELSE [c EXCEPT !.min = NextValue(c.min, T.min),
                   !.hour = IF Wraps(c.min, T.min) THEN @ + 1 ELSE @]

\* The clock is not after the last run: on by the smallest unit that is given.
Advance(T, c) ==
    [c EXCEPT !.min = IF T.min # {} THEN @ + 1 ELSE @,
              !.hour = IF T.min = {} /\ T.hour # {} THEN @ + 1 ELSE @,
              !.wday = IF T.min = {} /\ T.hour = {} /\ T.wday # {} THEN @ + 1 ELSE @]

\* One round: an hour or a minute that wraps leads to another.
Round(T, prev, c) ==
    LET d == SetDay(T, c)
        h == SetHour(T, d)
        m == SetMin(T, h)
        diff == m.week * Week + m.wday * Day + m.hour * Hour + m.min * Secs
                - (prev % Week)
    IN  IF h.wday # d.wday THEN h
        ELSE IF m.hour # h.hour THEN m
        ELSE IF diff > 0 THEN [m EXCEPT !.found = diff]
        ELSE Advance(T, m)

\* The clock of the last run.
Start(prev) == [wday |-> Weekday(prev), hour |-> HourOf(prev), min |-> MinOf(prev),
                week |-> 0, found |-> 0]

\* next_time: seconds from prev to the next time, or 0 for its ValueError.
NextTime(T, prev) ==
    LET Loop[i \in 0 .. Tries] ==
            IF i = 0 THEN Start(prev)
            ELSE LET c == Loop[i - 1]
                 IN  IF c.found > 0 THEN c ELSE Round(T, prev, c)
    IN  Loop[Tries].found

\* The ValueError is caught by nobody and ends the job runner.
Fails == \E T \in when : NextTime(T, last) = 0

\* When.next_delta.
WhenDelta ==
    LET nexts == {NextTime(T, last) : T \in when}
    IN  (CHOOSE n \in nexts : \A x \in nexts : n =< x) - waited

\* Mutant: only the weekday of notwhen is looked at.
DeltaToLeaveDay(T, t) == IF Weekday(t) \in T.wday THEN Day - (t % Day) ELSE 0

\* delta_to_leave: seconds until a Time is left, or 0 where it does not apply.
DeltaToLeave(T, t) ==
    IF Weekday(t) \in T.wday THEN Day - (t % Day)
    ELSE IF HourOf(t) \in T.hour THEN (Mins - MinOf(t)) * Secs
    ELSE IF MinOf(t) \in T.min THEN Secs - SecOf(t)
    ELSE 0

\* Action.next_delta: not positive for a job that is due.
NextDelta ==
    LET leave == DeltaToLeave(notwhen, now)
    IN  IF leave > 0 THEN leave ELSE WhenDelta

-----------------------------------------------------------------------------
Init ==
    /\ when \in Times
    /\ notwhen \in Notwhens
    /\ last \in 0 .. Week - 1     \* by hand, or as a part of another job
    /\ waited = 0

\* The job runner looks at its jobs a moment later.
Tick ==
    /\ waited < MaxWait
    /\ waited' = waited + 1
    /\ UNCHANGED <<when, notwhen, last>>

\* Mutant: the time at which the job was due is noted.
RunNotesDueTime ==
    /\ ~Fails
    /\ NextDelta =< 0
    /\ last' = now + NextDelta
    /\ waited' = 0
    /\ UNCHANGED <<when, notwhen>>

\* The job is due, is run, and the time of the run is noted.
Run ==
    /\ ~Fails
    /\ NextDelta =< 0
    /\ last' = now % Week
    /\ waited' = 0
    /\ UNCHANGED <<when, notwhen>>

Next == Tick \/ Run

Spec == Init /\ [][Next]_vars

-----------------------------------------------------------------------------
(* Properties.                                                               *)

\* Every variable has its type.
TypeOK ==
    /\ when \in Times
    /\ notwhen \in Notwhens
    /\ last \in 0 .. Week - 1
    /\ waited \in 0 .. MaxWait

\* A crontab fires at second t.
Fires(T, t) ==
    /\ SecOf(t) = 0
    /\ Fits(MinOf(t), T.min)
    /\ Fits(HourOf(t), T.hour)
    /\ Fits(Weekday(t), T.wday)

\* The moments after the last run, until now and a while on, when a job is to run.
FiringsBy(T, t) == {x \in last + 1 .. t : Fires(T, x)}

\* Where minutes are given, and hours if weekdays are.
Exact(T) == T.min # {} /\ (T.hour # {} \/ T.wday = {})

\* next_time finds the first moment after the last run at which the crontab fires,
\* for every time of the week and every wrap of minute, hour, day and week, and
\* never gives up after its ten rounds.
FindsFirstFiring ==
    \A T \in when :
        Exact(T) =>
            LET t == last + NextTime(T, last)
            IN  t > last /\ FiringsBy(T, t) = {t}

\* A job is due from the first of its firings since the last run on, however late
\* the job runner looks, and is kept back only while its notwhen applies.
DueFromFiringOn ==
    (\A T \in when : Exact(T)) =>
        (NextDelta =< 0 <=>
            /\ \E T \in when : FiringsBy(T, now) # {}
            /\ Weekday(now) \notin notwhen.wday
            /\ HourOf(now) \notin notwhen.hour
            /\ MinOf(now) \notin notwhen.min)
=============================================================================
