----------------------------- MODULE CivilDates -----------------------------
(* Civil dates of cool-store (time.rs), as its schedules and its budgets count   *)
(* them.  Instants are seconds since the epoch; \div and % of Integers are the   *)
(* code's div_euclid and rem_euclid.                                             *)
EXTENDS Integers

SecondsPerDay == 86400

DaysFromCivil(year, month, day) ==
    LET y == IF month <= 2 THEN year - 1 ELSE year
        era == y \div 400
        yearOfEra == y - era * 400
        shifted == IF month > 2 THEN month - 3 ELSE month + 9
        dayOfYear == (153 * shifted + 2) \div 5 + day - 1
        dayOfEra == yearOfEra * 365 + yearOfEra \div 4 - yearOfEra \div 100 + dayOfYear
    IN  era * 146097 + dayOfEra - 719468

\* Mutant: the last day of a 400-year era is not taken off.
CivilDateNoEra(days) ==
    LET shifted == days + 719468
        era == shifted \div 146097
        dayOfEra == shifted - era * 146097
        yearOfEra == (dayOfEra - dayOfEra \div 1460 + dayOfEra \div 36524) \div 365
        dayOfYear == dayOfEra - (365 * yearOfEra + yearOfEra \div 4 - yearOfEra \div 100)
        monthPrime == (5 * dayOfYear + 2) \div 153
        month == IF monthPrime < 10 THEN monthPrime + 3 ELSE monthPrime - 9
    IN  [year |-> yearOfEra + era * 400 + (IF month <= 2 THEN 1 ELSE 0), month |-> month,
         day |-> dayOfYear - (153 * monthPrime + 2) \div 5 + 1]
CivilDate(days) ==
    LET shifted == days + 719468
        era == shifted \div 146097
        dayOfEra == shifted - era * 146097
        yearOfEra == (dayOfEra - dayOfEra \div 1460 + dayOfEra \div 36524
                        - dayOfEra \div 146096) \div 365
        dayOfYear == dayOfEra - (365 * yearOfEra + yearOfEra \div 4 - yearOfEra \div 100)
        monthPrime == (5 * dayOfYear + 2) \div 153
        month == IF monthPrime < 10 THEN monthPrime + 3 ELSE monthPrime - 9
    IN  [year |-> yearOfEra + era * 400 + (IF month <= 2 THEN 1 ELSE 0), month |-> month,
         day |-> dayOfYear - (153 * monthPrime + 2) \div 5 + 1]

\* iso_weekday: Monday is 0.
Weekday(date) == ((DaysFromCivil(date.year, date.month, date.day) % 7) + 3) % 7

\* start_of_day: midnight UTC of the day an instant is in.
StartOfDay(at) == (at \div SecondsPerDay) * SecondsPerDay
=============================================================================
