---------------------------- MODULE ScheduleTimes ----------------------------
(***************************************************************************)
(* The arithmetic of schedules: cron fields and the search for the next    *)
(* firing (cool-store scheduler.rs).  The state is one schedule and the    *)
(* instant of its last firing; a step is one next_cron_after, as           *)
(* cron_next_runs chains them.                                             *)
(***************************************************************************)
EXTENDS CivilDates, FiniteSets, FiniteSetsExt

CONSTANTS
    Schedules,     \* [cron, offset, after]: the schedules and instants to start from
    MaxFirings,    \* bound: firings of one schedule
    Days           \* days since the epoch at which the calendar itself is checked

ASSUME ScheduleAssumption ==
    MaxFirings \in Nat /\ Days \subseteq Int /\ \A s \in Schedules : {s.offset, s.after} \subseteq Int

VARIABLES schedule, fired, firings
scheduleVars == <<schedule, fired, firings>>

-----------------------------------------------------------------------------
(* Cron expressions: a field is a set of parts <<from, to, step>>; <<>> is "*". *)

FieldValues(field, min, max) ==
    IF field = {} THEN min..max
    ELSE UNION {{v \in p[1]..p[2] : (v - p[1]) % p[3] = 0} : p \in field}

\* parse_cron refuses a part outside min..max, an empty range and a step below 1.
FieldOK(field, min, max) ==
    \A p \in field : min <= p[1] /\ p[1] <= p[2] /\ p[2] <= max /\ p[3] >= 1
CronOK(cron) ==
    /\ FieldOK(cron.minute, 0, 59) /\ FieldOK(cron.hour, 0, 23) /\ FieldOK(cron.day, 1, 31)
    /\ FieldOK(cron.month, 1, 12) /\ FieldOK(cron.weekday, 0, 7)

\* Cron counts days of the week from Sunday, as 0 and as 7.
CronSpec(cron) ==
    [minutes |-> FieldValues(cron.minute, 0, 59), hours |-> FieldValues(cron.hour, 0, 23),
     days |-> FieldValues(cron.day, 1, 31), months |-> FieldValues(cron.month, 1, 12),
     weekdays |-> {(d + 6) % 7 : d \in FieldValues(cron.weekday, 0, 7)},
     dayRestricted |-> cron.day # {}, weekdayRestricted |-> cron.weekday # {}]

\* day_matches: restricted day and weekday fields combine by OR.
DayMatches(spec, days) ==
    LET date == CivilDate(days)
        dayOk == date.day \in spec.days
        weekdayOk == Weekday(date) \in spec.weekdays
    IN  /\ date.month \in spec.months
        /\ CASE spec.dayRestricted /\ spec.weekdayRestricted -> dayOk \/ weekdayOk
             [] spec.dayRestricted /\ ~spec.weekdayRestricted -> dayOk
             [] ~spec.dayRestricted /\ spec.weekdayRestricted -> weekdayOk
             [] OTHER -> TRUE

MaxCronDays == 366 * 8

\* next_cron_after: the first matching day from the next whole minute on, and in
\* it the first hour and minute that are not before the start, on the first day.
\* Mutants: the search starts at the current minute; the start's minute also
\* bounds the later hours.  The empty set is an error: an expression parse_cron
\* refuses, or no day within MaxCronDays.
NextCronSearch(s, after, lead, floorAll) ==
    LET spec == CronSpec(s.cron)
        start == ((after + s.offset) \div 60) * 60 + lead
        firstDay == start \div SecondsPerDay
        startMinute == (start % SecondsPerDay) \div 60
        MinutesOn(day) ==
            {m \in {h * 60 + n : h \in spec.hours, n \in spec.minutes} :
                day = firstDay => /\ m >= startMinute
                                  /\ floorAll => m % 60 >= startMinute % 60}
        matching == {day \in firstDay..(firstDay + MaxCronDays - 1) :
                        DayMatches(spec, day) /\ MinutesOn(day) # {}}
    IN  IF ~CronOK(s.cron) \/ matching = {} THEN {}
        ELSE {Min(matching) * SecondsPerDay + Min(MinutesOn(Min(matching))) * 60 - s.offset}
NextCronSameMinute(s, after) == NextCronSearch(s, after, 0, FALSE)
NextCronAfter(s, after) == NextCronSearch(s, after, 60, FALSE)

-----------------------------------------------------------------------------
ScheduleInit ==
    /\ schedule \in Schedules /\ fired = schedule.after /\ firings = 0

ScheduleFires ==
    /\ firings < MaxFirings /\ fired' \in NextCronAfter(schedule, fired)
    /\ firings' = firings + 1 /\ UNCHANGED schedule

ScheduleSpec == ScheduleInit /\ [][ScheduleFires]_scheduleVars

-----------------------------------------------------------------------------
(* Properties *)

\* The instants a schedule names, on the days from..to, in UTC.
Named(s, from, to) ==
    LET spec == CronSpec(s.cron)
    IN  {d * SecondsPerDay + h * 3600 + m * 60 - s.offset :
            d \in {x \in from..to : DayMatches(spec, x)}, h \in spec.hours, m \in spec.minutes}
LocalDay(s, at) == (at + s.offset) \div SecondsPerDay

IsLeap(year) == year % 4 = 0 /\ (year % 100 = 0 => year % 400 = 0)
MonthLength(date) ==
    CASE date.month \in {4, 6, 9, 11} -> 30
      [] date.month = 2 -> IF IsLeap(date.year) THEN 29 ELSE 28
      [] OTHER -> 31
DayAfter(date) ==
    IF date.day < MonthLength(date) THEN [date EXCEPT !.day = @ + 1]
    ELSE IF date.month < 12 THEN [date EXCEPT !.month = @ + 1, !.day = 1]
    ELSE [year |-> date.year + 1, month |-> 1, day |-> 1]

\* Civil dates follow the calendar day by day, and counting days back gives the
\* day one started from.
CalendarFollows(day) ==
    LET date == CivilDate(day)
    IN  /\ CivilDate(day + 1) = DayAfter(date)
        /\ DaysFromCivil(date.year, date.month, date.day) = day

\* Each firing is the earliest instant the expression names after the one before:
\* none is skipped at the end of an hour, a day, a month or a leap year, in any
\* timezone, and none is repeated; and the days it reckons with, those of Days
\* before the first firing, are the calendar's (next_cron_after, civil_from_days).
NextIsEarliest ==
    [][/\ fired < fired'
       /\ {n \in Named(schedule, LocalDay(schedule, fired), LocalDay(schedule, fired')) :
              fired < n /\ n <= fired'} = {fired'}
       /\ \A day \in {LocalDay(schedule, fired')} \cup (IF firings = 0 THEN Days ELSE {}) :
              CalendarFollows(day)]_scheduleVars
=============================================================================
