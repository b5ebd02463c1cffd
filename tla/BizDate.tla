------------------------------ MODULE BizDate ------------------------------
(***************************************************************************)
(* internal/bizdate: business days and holidays, the cut-off, day-count    *)
(* bases and rounding.                                                     *)
(*                                                                         *)
(* A date is its day number, 1 for 0001-01-01; its civil fields are Year,  *)
(* Month and Day.  A weekday is 0 for Sunday to 6 for Saturday.            *)
(***************************************************************************)
EXTENDS Integers, Sequences, FiniteSetsExt

CONSTANT Years    \* bound: the years that the calendar is asked about

ASSUME YearsAssumption == Years \subseteq Nat \ {0}

IsLeapYear(y) == (y % 4 = 0 /\ y % 100 # 0) \/ y % 400 = 0

DaysInYear(y) == IF IsLeapYear(y) THEN 366 ELSE 365

-----------------------------------------------------------------------------
\* Civil dates, as the time package computes them.

DaysBefore == <<0, 31, 59, 90, 120, 151, 181, 212, 243, 273, 304, 334>>

\* The day number of a date; month 13 is January of the next year, and a day
\* outside the month runs into its neighbours.
Date(y, m, d) ==
    LET yy == y + (m - 1) \div 12
        mm == ((m - 1) % 12) + 1
        past == yy - 1
    IN  365 * past + past \div 4 - past \div 100 + past \div 400
          + DaysBefore[mm] + (IF mm > 2 /\ IsLeapYear(yy) THEN 1 ELSE 0) + d

\* The candidates of the mean length of a year, 146097 / 400 days.
Year(t) == LET about == (t * 400) \div 146097
           IN  CHOOSE y \in about .. about + 2 : Date(y, 1, 1) <= t /\ t < Date(y + 1, 1, 1)
Month(t) == CHOOSE m \in 1 .. 12 : Date(Year(t), m, 1) <= t /\ t < Date(Year(t), m + 1, 1)
Day(t) == t - Date(Year(t), Month(t), 1) + 1
Weekday(t) == t % 7
AddDays(t, n) == t + n
DaysBetween(from, to) == to - from

-----------------------------------------------------------------------------
\* Holidays.

daysInMonth(y, m) == Day(AddDays(Date(y, m + 1, 1), -1))

\* Mutant of nthWeekday: the nth week, whether or not the month starts after wd.
nthWeekdayMutant(y, m, wd, n) ==
    LET first == Date(y, m, 1)
    IN  AddDays(first, wd - Weekday(first) + 7 * ((IF n = -1 THEN 5 ELSE n) - 1))

\* The first wd on or after the 1st and n - 1 weeks on; for n = -1, the last wd
\* on or before the end of the month.
nthWeekday(y, m, wd, n) ==
    LET first == Date(y, m, 1)
        last  == Date(y, m, daysInMonth(y, m))
    IN  IF n = -1 THEN AddDays(last, -((Weekday(last) - wd) % 7))
        ELSE AddDays(first, ((wd - Weekday(first)) % 7) + 7 * (n - 1))

\* A Saturday is observed on the Friday, a Sunday on the Monday.
observed(t) == CASE Weekday(t) = 6 -> AddDays(t, -1)
                 [] Weekday(t) = 0 -> AddDays(t, 1)
                 [] OTHER          -> t

FixedHolidays == {[month |-> 1, day |-> 1], [month |-> 6, day |-> 19], [month |-> 7, day |-> 4],
                  [month |-> 11, day |-> 11], [month |-> 12, day |-> 25]}

NthHolidays == {[month |-> 1, nth |-> 3, wd |-> 1], [month |-> 2, nth |-> 3, wd |-> 1],
                [month |-> 5, nth |-> -1, wd |-> 1], [month |-> 9, nth |-> 1, wd |-> 1],
                [month |-> 10, nth |-> 2, wd |-> 1], [month |-> 11, nth |-> 4, wd |-> 4]}

holidaysIn(y) == {observed(Date(y, r.month, r.day)) : r \in FixedHolidays}
                   \cup {nthWeekday(y, r.month, r.wd, r.nth) : r \in NthHolidays}

\* The cache: one set for each year.
holidays == [y \in Years |-> holidaysIn(y)]

-----------------------------------------------------------------------------
\* The calendar.

IsBusinessDay(t) == Weekday(t) \notin {0, 6} /\ t \notin holidays[Year(t)]

\* There is a business day in every ten days.
NextBusinessDay(t) == Min({n \in AddDays(t, 1) .. AddDays(t, 10) : IsBusinessDay(n)})

FirstOfMonth(y, m) == Date(y, m, 1)

FirstBusinessDayOfMonth(y, m) ==
    LET t == Date(y, m, 1) IN IF IsBusinessDay(t) THEN t ELSE NextBusinessDay(t)

\* The business date of an instant of day t, before the cut-off or not.
BusinessDateFor(t, beforeCutOff) ==
    IF ~beforeCutOff \/ ~IsBusinessDay(t) THEN NextBusinessDay(t) ELSE t

-----------------------------------------------------------------------------
\* Day count and rounding.

BasisFor(t) == IF IsLeapYear(Year(t)) THEN "ACTACT" ELSE "ACT365"

DayCountFraction(from, to, basis) ==
    [num |-> DaysBetween(from, to),
     den |-> CASE basis = "ACTACT" -> DaysInYear(Year(from))
               [] basis = "ACT360" -> 360
               [] OTHER            -> 365]

\* The sign is put aside and brought back; den is positive.
Rounded(num, den, up(_, _)) ==
    LET size == IF num < 0 THEN -num ELSE num
        q    == size \div den
        r    == size % den
        n    == IF up(q, r) THEN q + 1 ELSE q
    IN  IF num < 0 THEN -n ELSE n

\* Half away from zero; what quirk Q1 does.
RoundHalfUp(num, den) == Rounded(num, den, LAMBDA q, r : 2 * r >= den)

\* Ties to the even quotient.
RoundHalfEven(num, den) ==
    Rounded(num, den, LAMBDA q, r : 2 * r > den \/ (2 * r = den /\ q % 2 # 0))
=============================================================================
