----------------------------- MODULE Schedules -----------------------------
(***************************************************************************)
(* When a scheduled task is due: five fields of a cron expression against  *)
(* the local time.  A field is a sequence of ranges <<from, to>>, a single *)
(* value v being <<v, v>>, and the field * the empty sequence.             *)
(***************************************************************************)
EXTENDS Integers, Sequences, FiniteSets

AnyTime == <<>>
FieldNames == <<"minute", "hour", "day", "month", "weekday">>
FieldLimits ==
    [minute |-> <<0, 59>>, hour |-> <<0, 23>>, day |-> <<1, 31>>, month |-> <<1, 12>>, weekday |-> <<0, 6>>]

\* A range out of bounds or upside down is refused, and the expression with it.
ParseCronField(parts, limits) ==
    [any |-> parts = AnyTime,
     values |-> UNION {parts[i][1]..parts[i][2] : i \in DOMAIN parts},
     valid |-> \A i \in DOMAIN parts :
                  /\ limits[1] <= parts[i][1] /\ parts[i][1] <= parts[i][2]
                  /\ parts[i][2] <= limits[2]]

ParseCron(fields) ==
    [i \in DOMAIN fields |-> ParseCronField(fields[i], FieldLimits[FieldNames[i]])]

Refused(fields) == Len(fields) # 5 \/ \E i \in 1..5 : ~ParseCron(fields)[i].valid

\* datetime.weekday() has Monday 0; cron has Sunday 0.
CronWeekday(weekday) == (weekday + 1) % 7

\* All five fields must allow the time, both the day and the weekday.
CronIsDue(fields, now) ==
    LET parsed == ParseCron(fields)
        current == [now EXCEPT ![5] = CronWeekday(@)]
    IN  ~Refused(fields) /\ \A i \in 1..5 : parsed[i].any \/ current[i] \in parsed[i].values

\* A tick: the tasks that are due, and those marked failed for their schedule.
Tick(tasks, now) ==
    [due |-> {t \in DOMAIN tasks : CronIsDue(tasks[t], now)},
     failed |-> {t \in DOMAIN tasks : Refused(tasks[t])}]

-----------------------------------------------------------------------------
Every == <<AnyTime, AnyTime, AnyTime, AnyTime, AnyTime>>
Only(i, parts) == [Every EXCEPT ![i] = parts]
Midnight == <<0, 0, 1, 1, 0>>

\* A field of one value allows exactly that time in its range, up to both
\* limits, and none outside it is accepted (parse_cron).
ASSUME LimitsAreInclusive ==
    \A i \in 1..5, v \in -1..61 :
        LET limits == FieldLimits[FieldNames[i]]
            field == Only(i, <<<<v, v>>>>)
            now == [Midnight EXCEPT ![i] = IF i = 5 THEN (v + 6) % 7 ELSE v]
        IN  /\ CronIsDue(field, now) = (v \in limits[1]..limits[2])
            /\ Refused(field) = (v \notin limits[1]..limits[2])

\* Every day of a week is one weekday of cron, Sunday the first of them.
ASSUME SundayIsFirst ==
    /\ \A day \in 0..6 :
          Cardinality({v \in 0..6 : CronIsDue(Only(5, <<<<v, v>>>>), [Midnight EXCEPT ![5] = day])}) = 1
    /\ CronIsDue(Only(5, <<<<0, 0>>>>), [Midnight EXCEPT ![5] = 6])

\* A list of ranges is due when one of them is, whatever their order and
\* overlap, unless one of them is upside down (_parse_cron_field).
ASSUME ListsAreUnions ==
    \A a, b, c, d \in 0..6, day \in 0..6 :
        LET now == [Midnight EXCEPT ![5] = day]
            list == Only(5, <<<<a, b>>, <<c, d>>>>)
        IN  IF a > b \/ c > d THEN Tick(<<list>>, now) = [due |-> {}, failed |-> {1}]
            ELSE CronIsDue(list, now) = (CronIsDue(Only(5, <<<<a, b>>>>), now)
                                            \/ CronIsDue(Only(5, <<<<c, d>>>>), now))
=============================================================================
