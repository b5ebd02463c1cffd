----------------------------- MODULE EodProofs -----------------------------
(***************************************************************************)
(* End of day, for every calendar year, any accounts and products, any     *)
(* windows of days and any postings, holds and failures in them.           *)
(***************************************************************************)
EXTENDS Eod, SumProofs, SequenceTheorems

\* Part 1.  The civil calendar.

\* Days before 1 January of a year, plus one.
NewYear(y) == 365 * (y - 1) + (y - 1) \div 4 - (y - 1) \div 100 + (y - 1) \div 400 + 1

Leap(y) == IF IsLeapYear(y) THEN 1 ELSE 0

\* A date of a month 1 to 12 is its place in its year.
LEMMA DateInYear ==
    ASSUME NEW y \in Int, NEW m \in 1 .. 12, NEW d \in Int
    PROVE  Date(y, m, d) = NewYear(y) + DaysBefore[m] + (IF m > 2 THEN Leap(y) ELSE 0) + d - 1
<1>1. (m - 1) \div 12 = 0 /\ ((m - 1) % 12) + 1 = m
  OBVIOUS
<1>2. DaysBefore[m] \in Int
  BY DEF DaysBefore
<1> HIDE DEF DaysBefore
<1> QED
  BY <1>1, <1>2 DEF Date, NewYear, Leap

\* Month 13 is January of the next year, and a year has 365 days and its leap day.
LEMMA NextNewYear ==
    ASSUME NEW y \in Int
    PROVE  /\ Date(y, 13, 1) = NewYear(y + 1)
           /\ NewYear(y) \in Int
           /\ NewYear(y + 1) = NewYear(y) + 365 + Leap(y)
<1>1. Date(y, 13, 1) = NewYear(y + 1)
  BY DEF Date, NewYear, DaysBefore
<1>2. NewYear(y + 1) = NewYear(y) + 365 + Leap(y)
  BY DEF NewYear, Leap, IsLeapYear
<1> QED
  BY <1>1, <1>2 DEF NewYear

\* A year has 365 days at least.
LEMMA NewYearsGrow ==
    ASSUME NEW y \in Int, NEW z \in Int, y <= z
    PROVE  NewYear(y) + 365 * (z - y) <= NewYear(z)
BY DEF NewYear

\* A day is in a place of a place of four years, of a century and of four centuries.
LEMMA YearExists ==
    ASSUME NEW t \in Int
    PROVE  \E y \in (t * 400) \div 146097 .. (t * 400) \div 146097 + 2 :
               NewYear(y) <= t /\ t < NewYear(y + 1)
<1>1. PICK c \in Int, u \in Nat : u < 146097 /\ t = 146097 * c + u + 1
  <2>1. /\ (t - 1) \div 146097 \in Int /\ (t - 1) % 146097 \in Nat /\ (t - 1) % 146097 < 146097
        /\ t = 146097 * ((t - 1) \div 146097) + ((t - 1) % 146097) + 1
    BY SMT
  <2> QED
    BY <2>1, SMT
<1>2. PICK b \in 0 .. 3, v \in Nat : v <= 36524 /\ u = 36524 * b + v /\ (v = 36524 => b = 3)
  <2>1. CASE u = 146096
    <3>1. u = 36524 * 3 + 36524
      BY <2>1, SMT
    <3> QED
      BY <3>1, SMT
  <2>2. CASE u < 146096
    <3>1. /\ u \div 36524 \in 0 .. 3 /\ u % 36524 \in Nat /\ u % 36524 < 36524
          /\ u = 36524 * (u \div 36524) + (u % 36524)
      BY <2>2, SMT
    <3> QED
      BY <3>1, SMT
  <2> QED
    BY <1>1, <2>1, <2>2, SMT
<1>3. PICK a \in 0 .. 24, w \in Nat : w <= 1460 /\ v = 1461 * a + w /\ (w = 1460 /\ a = 24 => b = 3)
  <2>1. /\ v \div 1461 \in 0 .. 24 /\ v % 1461 \in Nat /\ v % 1461 < 1461
        /\ v = 1461 * (v \div 1461) + (v % 1461)
    BY <1>2, SMT
  <2> QED
    BY <1>2, <2>1, SMT
<1>4. PICK r \in 0 .. 3, s \in Nat : s <= 365 /\ w = 365 * r + s /\ (s = 365 => r = 3)
  <2>1. CASE w = 1460
    <3>1. w = 365 * 3 + 365
      BY <2>1, SMT
    <3> QED
      BY <3>1, SMT
  <2>2. CASE w < 1460
    <3>1. /\ w \div 365 \in 0 .. 3 /\ w % 365 \in Nat /\ w % 365 < 365
          /\ w = 365 * (w \div 365) + (w % 365)
      BY <2>2, SMT
    <3> QED
      BY <3>1, SMT
  <2> QED
    BY <1>3, <2>1, <2>2, SMT
<1> DEFINE y == 400 * c + 100 * b + 4 * a + r + 1
<1>5. /\ (y - 1) \div 4 = 100 * c + 25 * b + a
      /\ (y - 1) \div 100 = 4 * c + b
      /\ (y - 1) \div 400 = c
  BY SMT
<1>6. NewYear(y) = 146097 * c + 36524 * b + 1461 * a + 365 * r + 1
  BY <1>5, SMT DEF NewYear
<1>7. NewYear(y) <= t
  BY <1>1, <1>2, <1>3, <1>4, <1>6, SMT
<1>8. Leap(y) = 1 <=> (r = 3 /\ (a # 24 \/ b = 3))
  BY SMT DEF Leap, IsLeapYear
<1>9. NewYear(y + 1) = NewYear(y) + 365 + Leap(y) /\ Leap(y) \in {0, 1}
  BY NextNewYear, SMT DEF Leap
<1>10. t < NewYear(y + 1)
  BY <1>1, <1>2, <1>3, <1>4, <1>6, <1>8, <1>9, SMT
<1>11. y \in (t * 400) \div 146097 .. (t * 400) \div 146097 + 2
  <2>1. t = 146097 * c + 36524 * b + 1461 * a + 365 * r + 1 + s
    BY <1>1, <1>2, <1>3, <1>4, SMT
  <2>2. t * 400 = 146097 * (y - 1) + (12 * a - 100 * b - 97 * r + 400 + 400 * s)
    BY <2>1, SMT
  <2> QED
    BY <1>4, <2>2, SMT
<1> QED
  BY <1>7, <1>10, <1>11, SMT

\* A day is in one year.
LEMMA YearFacts ==
    ASSUME NEW t \in Int
    PROVE  Year(t) \in Int /\ NewYear(Year(t)) <= t /\ t < NewYear(Year(t) + 1)
<1> DEFINE about == (t * 400) \div 146097
<1>1. about \in Int
  BY SMT
<1>2. \A y \in about .. about + 2 : Date(y, 1, 1) = NewYear(y) /\ Date(y + 1, 1, 1) = NewYear(y + 1)
  <2>1. ASSUME NEW y \in Int
        PROVE  Date(y, 1, 1) = NewYear(y)
    <3>1. Date(y, 1, 1) = NewYear(y) + DaysBefore[1] + 0 + 1 - 1
      BY DateInYear, SMT
    <3> QED
      BY <3>1, NextNewYear DEF DaysBefore
  <2> HIDE DEF about
  <2> QED
    BY <1>1, <2>1, SMT
<1>3. \E y \in about .. about + 2 : NewYear(y) <= t /\ t < NewYear(y + 1)
  BY YearExists, SMT
<1> HIDE DEF about
<1>4. Year(t) = CHOOSE y \in about .. about + 2 : Date(y, 1, 1) <= t /\ t < Date(y + 1, 1, 1)
  BY SMT DEF Year, about
<1>5. \E y \in about .. about + 2 : Date(y, 1, 1) <= t /\ t < Date(y + 1, 1, 1)
  BY <1>2, <1>3, SMT
<1>6. /\ Year(t) \in about .. about + 2
      /\ Date(Year(t), 1, 1) <= t /\ t < Date(Year(t) + 1, 1, 1)
  BY <1>4, <1>5, SMT
<1> QED
  BY <1>1, <1>2, <1>6, SMT

\* Year(t) is the only year that a day is in.
LEMMA YearUnique ==
    ASSUME NEW t \in Int, NEW y \in Int, NewYear(y) <= t, t < NewYear(y + 1)
    PROVE  Year(t) = y
<1>1. Year(t) \in Int /\ NewYear(Year(t)) <= t /\ t < NewYear(Year(t) + 1)
  BY YearFacts
<1>2. PICK z \in Int : z = Year(t)
  BY <1>1
<1>3. ASSUME y + 1 <= z PROVE FALSE
  <2>1. NewYear(y + 1) + 365 * (z - (y + 1)) <= NewYear(z)
    BY <1>3, NewYearsGrow, SMT
  <2> QED
    BY <1>1, <1>2, <1>3, <2>1, NextNewYear, SMT
<1>4. ASSUME z + 1 <= y PROVE FALSE
  <2>1. NewYear(z + 1) + 365 * (y - (z + 1)) <= NewYear(y)
    BY <1>4, NewYearsGrow, SMT
  <2> QED
    BY <1>1, <1>2, <1>4, <2>1, NextNewYear, SMT
<1> QED
  BY <1>2, <1>3, <1>4, SMT

\* The days of a year before each of its months.
Before(m, leap) ==
    IF m = 1 THEN 0 ELSE IF m = 2 THEN 31 ELSE IF m = 3 THEN 59 + leap
    ELSE IF m = 4 THEN 90 + leap ELSE IF m = 5 THEN 120 + leap ELSE IF m = 6 THEN 151 + leap
    ELSE IF m = 7 THEN 181 + leap ELSE IF m = 8 THEN 212 + leap ELSE IF m = 9 THEN 243 + leap
    ELSE IF m = 10 THEN 273 + leap ELSE IF m = 11 THEN 304 + leap ELSE IF m = 12 THEN 334 + leap
    ELSE 365 + leap

\* A date is the days of the year before its month, and its day.
LEMMA MonthStarts ==
    ASSUME NEW y \in Int, NEW m \in 1 .. 12, NEW d \in Int
    PROVE  /\ Leap(y) \in {0, 1} /\ NewYear(y) \in Int
           /\ Date(y, m, d) = NewYear(y) + Before(m, Leap(y)) + d - 1
           /\ Date(y, m + 1, 1) = NewYear(y) + Before(m + 1, Leap(y))
<1>1. Leap(y) \in {0, 1} /\ NewYear(y) \in Int
  BY NextNewYear DEF Leap
<1>2. ASSUME NEW k \in 1 .. 12, NEW e \in Int
      PROVE  Date(y, k, e) = NewYear(y) + Before(k, Leap(y)) + e - 1
  <2>1. Date(y, k, e) = NewYear(y) + DaysBefore[k] + (IF k > 2 THEN Leap(y) ELSE 0) + e - 1
    BY DateInYear
  <2>2. DaysBefore[k] + (IF k > 2 THEN Leap(y) ELSE 0) = Before(k, Leap(y))
    BY <1>1, SMT DEF DaysBefore, Before
  <2>3. DaysBefore[k] \in Int
    BY SMT DEF DaysBefore
  <2> QED
    BY <1>1, <2>1, <2>2, <2>3, SMT
<1>3. CASE m = 12
  <2>1. Date(y, 13, 1) = NewYear(y) + 365 + Leap(y)
    BY NextNewYear, SMT
  <2>2. Before(13, Leap(y)) = 365 + Leap(y)
    BY SMT DEF Before
  <2> QED
    BY <1>1, <1>2, <1>3, <2>1, <2>2, SMT
<1>4. CASE m # 12
  <2>1. m + 1 \in 1 .. 12
    BY <1>4
  <2>2. Date(y, m + 1, 1) = NewYear(y) + Before(m + 1, Leap(y)) + 1 - 1
    BY <1>2, <2>1
  <2>3. Before(m + 1, Leap(y)) \in Int
    BY <1>1, <2>1, SMT DEF Before
  <2> QED
    BY <1>1, <1>2, <2>2, <2>3, SMT
<1> QED
  BY <1>3, <1>4

\* Where a month and the one after it start.
LEMMA FirstDays ==
    ASSUME NEW y \in Int, NEW m \in 1 .. 12
    PROVE  /\ Leap(y) \in {0, 1} /\ NewYear(y) \in Int
           /\ Date(y, m, 1) = NewYear(y) + Before(m, Leap(y))
           /\ Date(y, m + 1, 1) = NewYear(y) + Before(m + 1, Leap(y))
           /\ NewYear(y + 1) = NewYear(y) + 365 + Leap(y)
<1>1. PICK d \in Int : d = 1
  OBVIOUS
<1>2. /\ Leap(y) \in {0, 1} /\ NewYear(y) \in Int
      /\ Date(y, m, d) = NewYear(y) + Before(m, Leap(y)) + d - 1
      /\ Date(y, m + 1, 1) = NewYear(y) + Before(m + 1, Leap(y))
  BY MonthStarts
<1>3. Before(m, Leap(y)) \in Int
  BY <1>2, SMT DEF Before
<1> QED
  BY <1>1, <1>2, <1>3, NextNewYear, SMT

\* A month has 28 to 31 days.
LEMMA BeforeGrows ==
    ASSUME NEW m \in 1 .. 12, NEW leap \in {0, 1}
    PROVE  /\ Before(m, leap) \in Nat /\ Before(m + 1, leap) \in Nat
           /\ Before(m, leap) + 28 <= Before(m + 1, leap)
           /\ Before(m + 1, leap) <= Before(m, leap) + 31
           /\ Before(m + 1, leap) <= 365 + leap
           /\ \A k \in 1 .. 12 : m < k => Before(m + 1, leap) <= Before(k, leap)
BY SMT DEF Before

\* A day is in one month of its year.
LEMMA MonthFacts ==
    ASSUME NEW t \in Int
    PROVE  /\ Month(t) \in 1 .. 12
           /\ Date(Year(t), Month(t), 1) <= t /\ t < Date(Year(t), Month(t) + 1, 1)
<1>1. PICK y \in Int : y = Year(t) /\ NewYear(y) <= t /\ t < NewYear(y + 1)
  BY YearFacts
<1>2. NewYear(y + 1) = NewYear(y) + 365 + Leap(y) /\ NewYear(y) \in Int /\ Leap(y) \in {0, 1}
  BY NextNewYear DEF Leap
<1>3. \A m \in 1 .. 12 : /\ Date(y, m, 1) = NewYear(y) + Before(m, Leap(y)) + 1 - 1
                         /\ Date(y, m + 1, 1) = NewYear(y) + Before(m + 1, Leap(y))
  BY MonthStarts
<1>4. \E m \in 1 .. 12 : /\ NewYear(y) + Before(m, Leap(y)) <= t
                         /\ t < NewYear(y) + Before(m + 1, Leap(y))
  BY <1>1, <1>2, SMT DEF Before
<1>5. \A m \in 1 .. 12 : Before(m, Leap(y)) \in Int
  BY <1>2, SMT DEF Before
<1>6. \E m \in 1 .. 12 : Date(y, m, 1) <= t /\ t < Date(y, m + 1, 1)
  BY <1>2, <1>3, <1>4, <1>5, SMT
<1>7. Month(t) = CHOOSE m \in 1 .. 12 : Date(y, m, 1) <= t /\ t < Date(y, m + 1, 1)
  BY <1>1 DEF Month
<1> QED
  BY <1>1, <1>6, <1>7

\* The civil fields of a day are those of the month it is in.
LEMMA Civil ==
    ASSUME NEW y \in Int, NEW m \in 1 .. 12, NEW t \in Int,
           Date(y, m, 1) <= t, t < Date(y, m + 1, 1)
    PROVE  Year(t) = y /\ Month(t) = m /\ Day(t) = t - Date(y, m, 1) + 1
<1>1. /\ Leap(y) \in {0, 1} /\ NewYear(y) \in Int
      /\ Date(y, m, 1) = NewYear(y) + Before(m, Leap(y))
      /\ Date(y, m + 1, 1) = NewYear(y) + Before(m + 1, Leap(y))
  BY FirstDays
<1>2. NewYear(y + 1) = NewYear(y) + 365 + Leap(y)
  BY NextNewYear
<1>3. PICK leap \in {0, 1} : leap = Leap(y)
  BY <1>1
<1>4. /\ Before(m, leap) \in Nat /\ Before(m + 1, leap) \in Nat
      /\ Before(m + 1, leap) <= 365 + leap
      /\ \A k \in 1 .. 12 : m < k => Before(m + 1, leap) <= Before(k, leap)
  BY BeforeGrows
<1>5. Year(t) = y
  <2>1. NewYear(y) <= t /\ t < NewYear(y + 1)
    BY <1>1, <1>2, <1>3, <1>4, SMT
  <2> QED
    BY <2>1, YearUnique
<1>6. PICK k \in 1 .. 12 : k = Month(t) /\ Date(y, k, 1) <= t /\ t < Date(y, k + 1, 1)
  BY <1>5, MonthFacts
<1>7. /\ Date(y, k, 1) = NewYear(y) + Before(k, leap)
      /\ Date(y, k + 1, 1) = NewYear(y) + Before(k + 1, leap)
  BY <1>3, FirstDays
<1>8. /\ Before(k, leap) \in Nat /\ Before(k + 1, leap) \in Nat
      /\ \A j \in 1 .. 12 : k < j => Before(k + 1, leap) <= Before(j, leap)
  BY BeforeGrows
<1>9. k = m
  <2>1. ~(m < k)
    BY <1>1, <1>3, <1>4, <1>6, <1>7, <1>8, SMT
  <2>2. ~(k < m)
    BY <1>1, <1>3, <1>4, <1>6, <1>7, <1>8, SMT
  <2> QED
    BY <2>1, <2>2
<1> QED
  BY <1>5, <1>6, <1>9 DEF Day

-----------------------------------------------------------------------------
\* Part 2.  Holidays.

\* The civil fields of a day from its place in the year.
LEMMA Fields ==
    ASSUME NEW t \in Int, NEW y \in Int, y = Year(t), NEW m \in 1 .. 12
    PROVE  /\ Month(t) \in 1 .. 12
           /\ Month(t) = m <=> /\ NewYear(y) + Before(m, Leap(y)) <= t
                               /\ t < NewYear(y) + Before(m + 1, Leap(y))
           /\ Month(t) = m => Day(t) = t - NewYear(y) - Before(m, Leap(y)) + 1
<1>1. /\ Leap(y) \in {0, 1} /\ NewYear(y) \in Int
      /\ Date(y, m, 1) = NewYear(y) + Before(m, Leap(y))
      /\ Date(y, m + 1, 1) = NewYear(y) + Before(m + 1, Leap(y))
  BY FirstDays
<1>2. Month(t) \in 1 .. 12 /\ Date(y, Month(t), 1) <= t /\ t < Date(y, Month(t) + 1, 1)
  BY MonthFacts
<1>3. ASSUME NewYear(y) + Before(m, Leap(y)) <= t, t < NewYear(y) + Before(m + 1, Leap(y))
      PROVE  Month(t) = m
  BY <1>1, <1>3, Civil
<1>4. ASSUME Month(t) = m
      PROVE  Day(t) = t - NewYear(y) - Before(m, Leap(y)) + 1
  <2>1. Day(t) = t - Date(y, m, 1) + 1
    BY <1>4 DEF Day
  <2>2. Before(m, Leap(y)) \in Int
    BY <1>1, SMT DEF Before
  <2> QED
    BY <1>1, <2>1, <2>2, SMT
<1> QED
  BY <1>1, <1>2, <1>3, <1>4

\* The places in a year of the holidays with a date.
FixedPlace(o, leap) ==
    o = 0 \/ o = 169 + leap \/ o = 184 + leap \/ o = 314 + leap \/ o = 358 + leap

\* The fixed holidays, by their place in the year.
LEMMA FixedDays ==
    ASSUME NEW t \in Int, NEW y \in Int, y = Year(t)
    PROVE  IsFixed(t) <=> FixedPlace(t - NewYear(y), Leap(y))
<1>1. Leap(y) \in {0, 1} /\ NewYear(y) \in Int
  BY NextNewYear DEF Leap
<1>2. PICK leap \in {0, 1}, n \in Int : leap = Leap(y) /\ n = NewYear(y)
  BY <1>1
<1>3. \A m \in 1 .. 12 :
          /\ Month(t) = m <=> n + Before(m, leap) <= t /\ t < n + Before(m + 1, leap)
          /\ Month(t) = m => Day(t) = t - n - Before(m, leap) + 1
  BY <1>2, Fields
<1>4. IsFixed(t) <=> \/ Month(t) = 1 /\ Day(t) = 1
                     \/ Month(t) = 6 /\ Day(t) = 19
                     \/ Month(t) = 7 /\ Day(t) = 4
                     \/ Month(t) = 11 /\ Day(t) = 11
                     \/ Month(t) = 12 /\ Day(t) = 25
  <2>1. \A i, j, k, l : [month |-> i, day |-> j] = [month |-> k, day |-> l] <=> i = k /\ j = l
    BY SMT
  <2> QED
    BY <2>1, Zenon DEF IsFixed, FixedHolidays
<1>5. Month(t) = 1 /\ Day(t) = 1 <=> t = n
  BY <1>3, SMT DEF Before
<1>6. Month(t) = 6 /\ Day(t) = 19 <=> t = n + 169 + leap
  BY <1>3, SMT DEF Before
<1>7. Month(t) = 7 /\ Day(t) = 4 <=> t = n + 184 + leap
  BY <1>3, SMT DEF Before
<1>8. Month(t) = 11 /\ Day(t) = 11 <=> t = n + 314 + leap
  BY <1>3, SMT DEF Before
<1>9. Month(t) = 12 /\ Day(t) = 25 <=> t = n + 358 + leap
  BY <1>3, SMT DEF Before
<1>10. IsFixed(t) <=> FixedPlace(t - n, leap)
  <2>1. FixedPlace(t - n, leap) <=> \/ t = n
                                    \/ t = n + 169 + leap
                                    \/ t = n + 184 + leap
                                    \/ t = n + 314 + leap
                                    \/ t = n + 358 + leap
    BY SMT DEF FixedPlace
  <2> QED
    BY <1>4, <1>5, <1>6, <1>7, <1>8, <1>9, <2>1, ZenonT(40)
<1> QED
  BY <1>2, <1>10

\* The holidays of a weekday, by the places of the weeks they fall in.
FloatPlace(o, leap, wd) ==
    \/ wd = 1 /\ \/ o \in 14 .. 20 \/ o \in 45 .. 51
                 \/ 144 + leap <= o /\ o <= 150 + leap
                 \/ 243 + leap <= o /\ o <= 249 + leap
                 \/ 280 + leap <= o /\ o <= 286 + leap
    \/ wd = 4 /\ 325 + leap <= o /\ o <= 331 + leap

\* The last Monday of May is the one from the 25th on.
LEMMA LastOfMay ==
    ASSUME NEW y \in Int, NEW t \in Int, NEW f \in Int, f = Date(y, 5, 1)
    PROVE  t = nthWeekday(y, 5, 1, -1) <=> t % 7 = 1 /\ f + 24 <= t /\ t <= f + 30
<1>1. PICK m \in 1 .. 12, leap \in {0, 1}, n \in Int : m = 5 /\ leap = Leap(y) /\ n = NewYear(y)
  BY NextNewYear DEF Leap
<1>2. Date(y, 5, 1) = n + Before(5, leap) /\ Date(y, 6, 1) = n + Before(6, leap)
  <2>1. Date(y, m, 1) = n + Before(m, leap) /\ Date(y, m + 1, 1) = n + Before(m + 1, leap)
    BY <1>1, FirstDays
  <2> QED
    BY <1>1, <2>1
<1>3. Date(y, 6, 1) = f + 31
  BY <1>1, <1>2, SMT DEF Before
<1>4. PICK e \in Int : e = f + 30
  OBVIOUS
<1>5. Date(y, m, 1) <= e /\ e < Date(y, m + 1, 1)
  BY <1>1, <1>3, <1>4
<1>6. Day(e) = e - Date(y, m, 1) + 1
  BY <1>5, Civil
<1>7. daysInMonth(y, 5) = 31
  <2>1. Date(y, 5 + 1, 1) + (-1) = e
    BY <1>3, <1>4
  <2> QED
    BY <1>1, <1>4, <1>6, <2>1 DEF daysInMonth, AddDays
<1>8. Date(y, 5, 31) = e
  <2>1. PICK d \in Int : d = 31
    OBVIOUS
  <2>2. Date(y, m, d) = n + Before(m, leap) + d - 1
    BY <1>1, MonthStarts
  <2>3. Before(5, leap) = 120 + leap
    BY SMT DEF Before
  <2> QED
    BY <1>1, <1>2, <1>4, <2>1, <2>2, <2>3, SMT
<1>9. nthWeekday(y, 5, 1, -1) = e - (((e % 7) - 1) % 7)
  <2>1. e + (-(((e % 7) - 1) % 7)) = e - (((e % 7) - 1) % 7)
    BY SMT
  <2> QED
    BY <1>7, <1>8, <2>1 DEF nthWeekday, AddDays, Weekday
<1> QED
  BY <1>4, <1>9, SMT

\* What is in holidaysIn, one by one.
LEMMA HolidayList ==
    ASSUME NEW y, NEW t
    PROVE  t \in holidaysIn(y) <=>
               \/ t = observed(Date(y, 1, 1))
               \/ t = observed(Date(y, 6, 19))
               \/ t = observed(Date(y, 7, 4))
               \/ t = observed(Date(y, 11, 11))
               \/ t = observed(Date(y, 12, 25))
               \/ t = nthWeekday(y, 1, 1, 3)
               \/ t = nthWeekday(y, 2, 1, 3)
               \/ t = nthWeekday(y, 5, 1, -1)
               \/ t = nthWeekday(y, 9, 1, 1)
               \/ t = nthWeekday(y, 10, 1, 2)
               \/ t = nthWeekday(y, 11, 4, 4)
<1>1. t \in {observed(Date(y, r.month, r.day)) : r \in FixedHolidays} <=>
               \/ t = observed(Date(y, 1, 1))
               \/ t = observed(Date(y, 6, 19))
               \/ t = observed(Date(y, 7, 4))
               \/ t = observed(Date(y, 11, 11))
               \/ t = observed(Date(y, 12, 25))
  BY DEF FixedHolidays
<1>2. t \in {nthWeekday(y, r.month, r.wd, r.nth) : r \in NthHolidays} <=>
               \/ t = nthWeekday(y, 1, 1, 3)
               \/ t = nthWeekday(y, 2, 1, 3)
               \/ t = nthWeekday(y, 5, 1, -1)
               \/ t = nthWeekday(y, 9, 1, 1)
               \/ t = nthWeekday(y, 10, 1, 2)
               \/ t = nthWeekday(y, 11, 4, 4)
  BY DEF NthHolidays
<1> QED
  BY <1>1, <1>2 DEF holidaysIn

\* The day on which the holiday of a day is kept, for a weekday.
LEMMA ObservedOn ==
    ASSUME NEW t \in Int, NEW h \in Int, t % 7 # 0, t % 7 # 6
    PROVE  t = observed(h) <=> \/ t = h
                               \/ t % 7 = 5 /\ t + 1 = h
                               \/ t % 7 = 1 /\ t - 1 = h
<1>1. CASE h % 7 = 6
  <2>1. observed(h) = h + (-1)
    BY <1>1 DEF observed, Weekday, AddDays
  <2> QED
    BY <1>1, <2>1, SMT
<1>2. CASE h % 7 = 0
  <2>1. observed(h) = h + 1
    BY <1>2 DEF observed, Weekday, AddDays
  <2> QED
    BY <1>2, <2>1, SMT
<1>3. CASE h % 7 # 0 /\ h % 7 # 6
  <2>1. observed(h) = h
    BY <1>3 DEF observed, Weekday, AddDays
  <2> QED
    BY <1>3, <2>1, SMT
<1> QED
  BY <1>1, <1>2, <1>3

\* The holidays of a year with a date, by their places.
LEMMA FixedHolidayDates ==
    ASSUME NEW y \in Int, NEW leap \in {0, 1}, leap = Leap(y), NEW n \in Int, n = NewYear(y)
    PROVE  /\ Date(y, 1, 1) = n /\ Date(y, 6, 19) = n + 169 + leap
           /\ Date(y, 7, 4) = n + 184 + leap /\ Date(y, 11, 11) = n + 314 + leap
           /\ Date(y, 12, 25) = n + 358 + leap
           /\ Date(y, 2, 1) = n + 31 /\ Date(y, 5, 1) = n + 120 + leap
           /\ Date(y, 9, 1) = n + 243 + leap /\ Date(y, 10, 1) = n + 273 + leap
           /\ Date(y, 11, 1) = n + 304 + leap
<1>1. \A m \in 1 .. 12, d \in Int : Date(y, m, d) = n + Before(m, leap) + d - 1
  BY MonthStarts
<1>2. /\ Date(y, 1, 1) = n + Before(1, leap) + 1 - 1
      /\ Date(y, 6, 19) = n + Before(6, leap) + 19 - 1
      /\ Date(y, 7, 4) = n + Before(7, leap) + 4 - 1
      /\ Date(y, 11, 11) = n + Before(11, leap) + 11 - 1
      /\ Date(y, 12, 25) = n + Before(12, leap) + 25 - 1
      /\ Date(y, 2, 1) = n + Before(2, leap) + 1 - 1
      /\ Date(y, 5, 1) = n + Before(5, leap) + 1 - 1
      /\ Date(y, 9, 1) = n + Before(9, leap) + 1 - 1
      /\ Date(y, 10, 1) = n + Before(10, leap) + 1 - 1
      /\ Date(y, 11, 1) = n + Before(11, leap) + 1 - 1
  BY <1>1, SMT
<1> QED
  BY <1>2, SMT DEF Before

\* The holidays of a year among its weekdays, by their places.
LEMMA HolidayPlaces ==
    ASSUME NEW y \in Int, NEW leap \in {0, 1}, leap = Leap(y), NEW n \in Int, n = NewYear(y),
           NEW t \in Int, t % 7 # 0, t % 7 # 6
    PROVE  t \in holidaysIn(y) <=>
               \/ FixedPlace(t - n, leap)
               \/ t % 7 = 5 /\ FixedPlace(t + 1 - n, leap)
               \/ t % 7 = 1 /\ FixedPlace(t - 1 - n, leap)
               \/ FloatPlace(t - n, leap, t % 7)
<1>1. /\ Date(y, 1, 1) = n /\ Date(y, 6, 19) = n + 169 + leap
      /\ Date(y, 7, 4) = n + 184 + leap /\ Date(y, 11, 11) = n + 314 + leap
      /\ Date(y, 12, 25) = n + 358 + leap
      /\ Date(y, 2, 1) = n + 31 /\ Date(y, 5, 1) = n + 120 + leap
      /\ Date(y, 9, 1) = n + 243 + leap /\ Date(y, 10, 1) = n + 273 + leap
      /\ Date(y, 11, 1) = n + 304 + leap
  BY FixedHolidayDates
<1> DEFINE On(h) == t = h \/ (t % 7 = 5 /\ t + 1 = h) \/ (t % 7 = 1 /\ t - 1 = h)
<1>2. /\ t = observed(Date(y, 1, 1)) <=> On(n)
      /\ t = observed(Date(y, 6, 19)) <=> On(n + 169 + leap)
      /\ t = observed(Date(y, 7, 4)) <=> On(n + 184 + leap)
      /\ t = observed(Date(y, 11, 11)) <=> On(n + 314 + leap)
      /\ t = observed(Date(y, 12, 25)) <=> On(n + 358 + leap)
  <2>1. \A h \in Int : t = observed(h) <=> On(h)
    BY ObservedOn
  <2> HIDE DEF On
  <2> QED
    BY <1>1, <2>1, SMT
<1>3. t = nthWeekday(y, 1, 1, 3) <=> t % 7 = 1 /\ n + 14 <= t /\ t < n + 21
  <2>1. PICK f \in Int : f = n /\ f = Date(y, 1, 1)
    BY <1>1
  <2>2. nthWeekday(y, 1, 1, 3) = f + (((1 - (f % 7)) % 7) + 7 * (3 - 1))
    BY <2>1 DEF nthWeekday, AddDays, Weekday
  <2>3. t = f + (((1 - (f % 7)) % 7) + 7 * (3 - 1))
            <=> t % 7 = 1 /\ f + 14 <= t /\ t < f + 21
    BY SMT
  <2> QED
    BY <2>1, <2>2, <2>3, SMT
<1>4. t = nthWeekday(y, 2, 1, 3) <=> t % 7 = 1 /\ n + 45 <= t /\ t < n + 52
  <2>1. PICK f \in Int : f = (n + 31) /\ f = Date(y, 2, 1)
    BY <1>1
  <2>2. nthWeekday(y, 2, 1, 3) = f + (((1 - (f % 7)) % 7) + 7 * (3 - 1))
    BY <2>1 DEF nthWeekday, AddDays, Weekday
  <2>3. t = f + (((1 - (f % 7)) % 7) + 7 * (3 - 1))
            <=> t % 7 = 1 /\ f + 14 <= t /\ t < f + 21
    BY SMT
  <2> QED
    BY <2>1, <2>2, <2>3, SMT
<1>5. t = nthWeekday(y, 5, 1, -1) <=> t % 7 = 1 /\ n + 144 + leap <= t /\ t <= n + 150 + leap
  <2>1. PICK f \in Int : f = n + 120 + leap
    OBVIOUS
  <2>2. f = Date(y, 5, 1)
    BY <1>1, <2>1
  <2>3. t = nthWeekday(y, 5, 1, -1) <=> t % 7 = 1 /\ f + 24 <= t /\ t <= f + 30
    BY <2>2, LastOfMay
  <2> QED
    BY <2>1, <2>3
<1>6. t = nthWeekday(y, 9, 1, 1) <=> t % 7 = 1 /\ n + 243 + leap <= t /\ t < n + 250 + leap
  <2>1. PICK f \in Int : f = (n + 243 + leap) /\ f = Date(y, 9, 1)
    BY <1>1
  <2>2. nthWeekday(y, 9, 1, 1) = f + (((1 - (f % 7)) % 7) + 7 * (1 - 1))
    BY <2>1 DEF nthWeekday, AddDays, Weekday
  <2>3. t = f + (((1 - (f % 7)) % 7) + 7 * (1 - 1))
            <=> t % 7 = 1 /\ f + 0 <= t /\ t < f + 7
    BY SMT
  <2> QED
    BY <2>1, <2>2, <2>3, SMT
<1>7. t = nthWeekday(y, 10, 1, 2) <=> t % 7 = 1 /\ n + 280 + leap <= t /\ t < n + 287 + leap
  <2>1. PICK f \in Int : f = (n + 273 + leap) /\ f = Date(y, 10, 1)
    BY <1>1
  <2>2. nthWeekday(y, 10, 1, 2) = f + (((1 - (f % 7)) % 7) + 7 * (2 - 1))
    BY <2>1 DEF nthWeekday, AddDays, Weekday
  <2>3. t = f + (((1 - (f % 7)) % 7) + 7 * (2 - 1))
            <=> t % 7 = 1 /\ f + 7 <= t /\ t < f + 14
    BY SMT
  <2>4. t = nthWeekday(y, 10, 1, 2) <=> t % 7 = 1 /\ f + 7 <= t /\ t < f + 14
    BY <2>2, <2>3, Zenon
  <2> QED
    BY <2>1, <2>4, SMT
<1>8. t = nthWeekday(y, 11, 4, 4) <=> t % 7 = 4 /\ n + 325 + leap <= t /\ t < n + 332 + leap
  <2>1. PICK f \in Int : f = (n + 304 + leap) /\ f = Date(y, 11, 1)
    BY <1>1
  <2>2. nthWeekday(y, 11, 4, 4) = f + (((4 - (f % 7)) % 7) + 7 * (4 - 1))
    BY <2>1 DEF nthWeekday, AddDays, Weekday
  <2>3. t = f + (((4 - (f % 7)) % 7) + 7 * (4 - 1))
            <=> t % 7 = 4 /\ f + 21 <= t /\ t < f + 28
    BY SMT
  <2> QED
    BY <2>1, <2>2, <2>3, SMT
<1>9. (\/ On(n) \/ On(n + 169 + leap) \/ On(n + 184 + leap) \/ On(n + 314 + leap)
       \/ On(n + 358 + leap))
      <=> \/ FixedPlace(t - n, leap)
          \/ t % 7 = 5 /\ FixedPlace(t + 1 - n, leap)
          \/ t % 7 = 1 /\ FixedPlace(t - 1 - n, leap)
  BY SMT DEF FixedPlace
<1>10. FloatPlace(t - n, leap, t % 7) <=>
           \/ t % 7 = 1 /\ n + 14 <= t /\ t < n + 21
           \/ t % 7 = 1 /\ n + 45 <= t /\ t < n + 52
           \/ t % 7 = 1 /\ n + 144 + leap <= t /\ t <= n + 150 + leap
           \/ t % 7 = 1 /\ n + 243 + leap <= t /\ t < n + 250 + leap
           \/ t % 7 = 1 /\ n + 280 + leap <= t /\ t < n + 287 + leap
           \/ t % 7 = 4 /\ n + 325 + leap <= t /\ t < n + 332 + leap
  BY SMT DEF FloatPlace
<1> HIDE DEF On
<1> QED
  BY <1>2, <1>3, <1>4, <1>5, <1>6, <1>7, <1>8, <1>9, <1>10, HolidayList, SMT

\* The same rule, from the fields of the day.
LEMMA ObservedPlaces ==
    ASSUME NEW t \in Int, NEW y \in Int, y = Year(t),
           NEW leap \in {0, 1}, leap = Leap(y), NEW n \in Int, n = NewYear(y)
    PROVE  /\ MissedHoliday(t) <=> t % 7 = 5 /\ t = n + 364 + leap
           /\ IsObserved(t) <=> \/ FixedPlace(t - n, leap)
                                \/ t % 7 = 5 /\ FixedPlace(t + 1 - n, leap)
                                \/ MissedHoliday(t)
                                \/ t % 7 = 1 /\ FixedPlace(t - 1 - n, leap)
                                \/ FloatPlace(t - n, leap, t % 7)
<1>1. /\ n <= t /\ t < NewYear(y + 1) /\ NewYear(y + 1) = n + 365 + leap
  BY YearFacts, NextNewYear
<1>2. \A m \in 1 .. 12 :
          /\ Month(t) = m <=> n + Before(m, leap) <= t /\ t < n + Before(m + 1, leap)
          /\ Month(t) = m => Day(t) = t - n - Before(m, leap) + 1
  BY Fields
<1>3. MissedHoliday(t) <=> t % 7 = 5 /\ t = n + 364 + leap
  BY <1>2, SMT DEF MissedHoliday, Weekday, Before
<1>4. IsFixed(t) <=> FixedPlace(t - n, leap)
  BY FixedDays
<1>5. t % 7 = 5 => (IsFixed(t + 1) <=> FixedPlace(t + 1 - n, leap) \/ MissedHoliday(t))
  <2>1. PICK s \in Int, z \in Int : s = t + 1 /\ z = y + 1
    OBVIOUS
  <2>2. CASE s < n + 365 + leap
    <3>1. Year(s) = y
      <4>1. NewYear(y) <= s /\ s < NewYear(y + 1)
        BY <1>1, <2>1, <2>2, SMT
      <4> QED
        BY <4>1, YearUnique
    <3>2. IsFixed(s) <=> FixedPlace(s - n, leap)
      BY <3>1, FixedDays
    <3>3. ~MissedHoliday(t)
      BY <1>3, <2>1, <2>2, SMT
    <3> QED
      BY <2>1, <3>2, <3>3
  <2>3. CASE s = n + 365 + leap
    <3>1. NewYear(z) = s /\ NewYear(z) \in Int /\ NewYear(z + 1) = NewYear(z) + 365 + Leap(z)
          /\ Leap(z) \in {0, 1}
      BY <1>1, <2>1, <2>3, NextNewYear DEF Leap
    <3>2. Year(s) = z
      <4>1. NewYear(z) <= s /\ s < NewYear(z + 1)
        BY <3>1, SMT
      <4> QED
        BY <4>1, YearUnique
    <3>3. IsFixed(s) <=> FixedPlace(s - NewYear(z), Leap(z))
      BY <3>2, FixedDays
    <3>4. FixedPlace(s - NewYear(z), Leap(z))
      BY <3>1, SMT DEF FixedPlace
    <3>5. t % 7 = 5 => MissedHoliday(t)
      BY <1>3, <2>1, <2>3, SMT
    <3> QED
      BY <2>1, <3>3, <3>4, <3>5
  <2> QED
    BY <1>1, <2>1, <2>2, <2>3, SMT
<1>6. t % 7 = 1 => (IsFixed(t - 1) <=> FixedPlace(t - 1 - n, leap))
  <2>1. PICK s \in Int, z \in Int : s = t - 1 /\ z = y - 1
    OBVIOUS
  <2>2. CASE n <= s
    <3>1. Year(s) = y
      <4>1. NewYear(y) <= s /\ s < NewYear(y + 1)
        BY <1>1, <2>1, <2>2, SMT
      <4> QED
        BY <4>1, YearUnique
    <3>2. IsFixed(s) <=> FixedPlace(s - n, leap)
      BY <3>1, FixedDays
    <3> QED
      BY <2>1, <3>2
  <2>3. CASE s = n - 1
    <3>1. z + 1 = y
      BY <2>1
    <3>2. /\ NewYear(z) \in Int /\ n = NewYear(z) + 365 + Leap(z) /\ Leap(z) \in {0, 1}
      BY <3>1, NextNewYear DEF Leap
    <3>3. Year(s) = z
      <4>0. NewYear(z + 1) = n
        BY <3>1
      <4>1. NewYear(z) <= s /\ s < NewYear(z + 1)
        BY <2>3, <3>2, <4>0, SMT
      <4> QED
        BY <4>1, YearUnique
    <3>4. IsFixed(s) <=> FixedPlace(s - NewYear(z), Leap(z))
      BY <3>3, FixedDays
    <3>5. ~FixedPlace(s - NewYear(z), Leap(z))
      BY <2>3, <3>2, SMT DEF FixedPlace
    <3>6. ~FixedPlace(s - n, leap)
      BY <2>3, SMT DEF FixedPlace
    <3> QED
      BY <2>1, <3>4, <3>5, <3>6
  <2> QED
    BY <1>1, <2>1, <2>2, <2>3, SMT
<1>7. FloatPlace(t - n, leap, t % 7) <=>
          \/ /\ t % 7 = 1
             /\ \/ Month(t) \in {1, 2} /\ Day(t) \in 15 .. 21
                \/ Month(t) = 5 /\ Day(t) \in 25 .. 31
                \/ Month(t) = 9 /\ Day(t) \in 1 .. 7
                \/ Month(t) = 10 /\ Day(t) \in 8 .. 14
          \/ t % 7 = 4 /\ Month(t) = 11 /\ Day(t) \in 22 .. 28
  <2>1. Month(t) = 1 /\ Day(t) \in 15 .. 21 <=> t - n \in 14 .. 20
    BY <1>1, <1>2, SMT DEF Before
  <2>2. Month(t) = 2 /\ Day(t) \in 15 .. 21 <=> t - n \in 45 .. 51
    BY <1>1, <1>2, SMT DEF Before
  <2>3. Month(t) = 5 /\ Day(t) \in 25 .. 31 <=> 144 + leap <= t - n /\ t - n <= 150 + leap
    BY <1>1, <1>2, SMT DEF Before
  <2>4. Month(t) = 9 /\ Day(t) \in 1 .. 7 <=> 243 + leap <= t - n /\ t - n <= 249 + leap
    BY <1>1, <1>2, SMT DEF Before
  <2>5. Month(t) = 10 /\ Day(t) \in 8 .. 14 <=> 280 + leap <= t - n /\ t - n <= 286 + leap
    BY <1>1, <1>2, SMT DEF Before
  <2>6. Month(t) = 11 /\ Day(t) \in 22 .. 28 <=> 325 + leap <= t - n /\ t - n <= 331 + leap
    BY <1>1, <1>2, SMT DEF Before
  <2>7. Month(t) \in {1, 2} <=> Month(t) = 1 \/ Month(t) = 2
    OBVIOUS
  <2> QED
    BY <2>1, <2>2, <2>3, <2>4, <2>5, <2>6, <2>7, SMT DEF FloatPlace
<1> QED
  BY <1>3, <1>4, <1>5, <1>6, <1>7, Zenon DEF IsObserved, Weekday

\* The calendar of federal holidays, for every year: a business day is a weekday
\* without an observed holiday, but for the one that holidays() misses.
THEOREM BusinessDayRule ==
    ASSUME NEW t \in Int, Year(t) \in Years
    PROVE  IsBusinessDay(t) <=> /\ Weekday(t) \notin {0, 6}
                                /\ IsObserved(t) => MissedHoliday(t)
<1>1. PICK y \in Int : y = Year(t)
  BY YearFacts
<1>2. PICK leap \in {0, 1}, n \in Int : leap = Leap(y) /\ n = NewYear(y)
  BY NextNewYear DEF Leap
<1>3. IsBusinessDay(t) <=> t % 7 # 0 /\ t % 7 # 6 /\ t \notin holidaysIn(y)
  BY <1>1 DEF IsBusinessDay, holidays, Weekday
<1>4. /\ MissedHoliday(t) <=> t % 7 = 5 /\ t = n + 364 + leap
      /\ IsObserved(t) <=> \/ FixedPlace(t - n, leap)
                           \/ t % 7 = 5 /\ FixedPlace(t + 1 - n, leap)
                           \/ MissedHoliday(t)
                           \/ t % 7 = 1 /\ FixedPlace(t - 1 - n, leap)
                           \/ FloatPlace(t - n, leap, t % 7)
  BY <1>1, <1>2, ObservedPlaces
<1>5. t % 7 # 0 /\ t % 7 # 6 =>
         (t \in holidaysIn(y) <=> \/ FixedPlace(t - n, leap)
                                  \/ t % 7 = 5 /\ FixedPlace(t + 1 - n, leap)
                                  \/ t % 7 = 1 /\ FixedPlace(t - 1 - n, leap)
                                  \/ FloatPlace(t - n, leap, t % 7))
  BY <1>2, HolidayPlaces
<1>6. MissedHoliday(t) => /\ ~FixedPlace(t - n, leap)
                          /\ ~(t % 7 = 5 /\ FixedPlace(t + 1 - n, leap))
                          /\ ~(t % 7 = 1 /\ FixedPlace(t - 1 - n, leap))
                          /\ ~FloatPlace(t - n, leap, t % 7)
  BY <1>4, SMT DEF FixedPlace, FloatPlace
<1>7. Weekday(t) \notin {0, 6} <=> t % 7 # 0 /\ t % 7 # 6
  BY DEF Weekday
<1> QED
  BY <1>3, <1>4, <1>5, <1>6, <1>7, Zenon

\* There is a business day in every ten days: a Tuesday, or the Wednesday after it.
LEMMA BusinessDaySoon ==
    ASSUME NEW t \in Int, \A d \in t + 1 .. t + 10 : Year(d) \in Years
    PROVE  \E d \in t + 1 .. t + 10 : IsBusinessDay(d)
<1>1. PICK w \in Int : w \in t + 1 .. t + 7 /\ w % 7 = 2
  <2>1. \/ (t + 1) % 7 = 2 \/ (t + 2) % 7 = 2 \/ (t + 3) % 7 = 2 \/ (t + 4) % 7 = 2
        \/ (t + 5) % 7 = 2 \/ (t + 6) % 7 = 2 \/ (t + 7) % 7 = 2
    BY SMT
  <2> QED
    BY <2>1
<1>2. PICK v \in Int : v = w + 1 /\ v % 7 = 3
  BY <1>1
<1>3. w \in t + 1 .. t + 10 /\ v \in t + 1 .. t + 10
  BY <1>1, <1>2
<1>4. PICK y \in Int : y = Year(w) /\ NewYear(y) <= w /\ w < NewYear(y + 1)
  BY YearFacts
<1>5. PICK leap \in {0, 1}, n \in Int :
          leap = Leap(y) /\ n = NewYear(y) /\ NewYear(y + 1) = n + 365 + leap
  BY NextNewYear DEF Leap
<1>6. leap = Leap(y) /\ n = NewYear(y)
  BY <1>5
<1>7. \A d \in Int : d % 7 # 0 /\ d % 7 # 6 =>
         (d \in holidaysIn(y) <=> \/ FixedPlace(d - n, leap)
                                  \/ d % 7 = 5 /\ FixedPlace(d + 1 - n, leap)
                                  \/ d % 7 = 1 /\ FixedPlace(d - 1 - n, leap)
                                  \/ FloatPlace(d - n, leap, d % 7))
  BY <1>6, HolidayPlaces
<1>8. IsBusinessDay(w) \/ FixedPlace(w - n, leap)
  <2>0. w % 7 # 0 /\ w % 7 # 6
    BY <1>1
  <2>1. w \in holidaysIn(y) <=> \/ FixedPlace(w - n, leap)
                                \/ w % 7 = 5 /\ FixedPlace(w + 1 - n, leap)
                                \/ w % 7 = 1 /\ FixedPlace(w - 1 - n, leap)
                                \/ FloatPlace(w - n, leap, w % 7)
    BY <1>7, <2>0
  <2>2. ~FloatPlace(w - n, leap, w % 7)
    BY <1>1 DEF FloatPlace
  <2>3. w \in holidaysIn(y) => FixedPlace(w - n, leap)
    BY <1>1, <2>1, <2>2
  <2> QED
    <3>1. Year(w) \in Years /\ w % 7 \notin {0, 6}
      BY <1>1, <1>3
    <3>2. holidays[Year(w)] = holidaysIn(y)
      BY <1>4, <3>1 DEF holidays
    <3> QED
      BY <2>3, <3>1, <3>2 DEF IsBusinessDay, Weekday
<1>9. CASE v = NewYear(y + 1)
  BY <1>2, <1>3, <1>5, <1>8, <1>9, SMT DEF FixedPlace
<1>10. CASE v # NewYear(y + 1)
  <2>1. Year(v) = y
    <3>1. NewYear(y) <= v /\ v < NewYear(y + 1)
      BY <1>2, <1>4, <1>5, <1>10, SMT
    <3> QED
      BY <3>1, YearUnique
  <2>0. v % 7 # 0 /\ v % 7 # 6
    BY <1>2
  <2>2. v \in holidaysIn(y) <=> \/ FixedPlace(v - n, leap)
                                \/ v % 7 = 5 /\ FixedPlace(v + 1 - n, leap)
                                \/ v % 7 = 1 /\ FixedPlace(v - 1 - n, leap)
                                \/ FloatPlace(v - n, leap, v % 7)
    BY <1>7, <2>0
  <2>3. ~FloatPlace(v - n, leap, v % 7)
    BY <1>2 DEF FloatPlace
  <2>4. v \in holidaysIn(y) => FixedPlace(v - n, leap)
    BY <1>2, <2>2, <2>3
  <2>5. IsBusinessDay(v) \/ FixedPlace(v - n, leap)
    <3>1. Year(v) \in Years /\ v % 7 \notin {0, 6}
      BY <1>2, <1>3
    <3>2. holidays[Year(v)] = holidaysIn(y)
      BY <2>1, <3>1 DEF holidays
    <3> QED
      BY <2>4, <3>1, <3>2 DEF IsBusinessDay, Weekday
  <2>6. ~(FixedPlace(w - n, leap) /\ FixedPlace(v - n, leap))
    BY <1>2, SMT DEF FixedPlace
  <2> QED
    BY <1>3, <1>8, <2>5, <2>6
<1> QED
  BY <1>9, <1>10

\* A set of integers with a lower bound has a least element.
LEMMA MinFacts ==
    ASSUME NEW S, S \subseteq Int, S # {}, NEW b \in Int, \A s \in S : b <= s
    PROVE  Min(S) \in S /\ \A s \in S : Min(S) <= s
<1> DEFINE T == {k \in Nat : b + k \in S}
<1>1. PICK s \in S : TRUE
  OBVIOUS
<1>2. s - b \in T
  BY <1>1, SMT
<1>3. PICK m \in T : \A k \in T : m <= k
  <2>1. T \subseteq Nat /\ T # {}
    BY <1>2
  <2> HIDE DEF T
  <2> QED
    BY <2>1, LeastNatural
<1>4. b + m \in S /\ \A r \in S : b + m <= r
  <2>1. ASSUME NEW r \in S
        PROVE  b + m <= r
    <3>1. r \in Int /\ b <= r /\ m \in Nat
      OBVIOUS
    <3>2. r - b \in T
      BY <3>1, SMT
    <3>3. m <= r - b
      <4> HIDE DEF T
      <4> QED
        BY <1>3, <3>2
    <3> QED
      BY <3>1, <3>3
  <2> QED
    BY <2>1
<1> QED
  BY <1>4 DEF Min

\* The same for an upper bound.
LEMMA MaxFacts ==
    ASSUME NEW S, S \subseteq Int, S # {}, NEW b \in Int, \A s \in S : s <= b
    PROVE  Max(S) \in S /\ \A s \in S : s <= Max(S)
<1> DEFINE T == {k \in Nat : b - k \in S}
<1>1. PICK s \in S : TRUE
  OBVIOUS
<1>2. b - s \in T
  BY <1>1, SMT
<1>3. PICK m \in T : \A k \in T : m <= k
  <2>1. T \subseteq Nat /\ T # {}
    BY <1>2
  <2> HIDE DEF T
  <2> QED
    BY <2>1, LeastNatural
<1>4. b - m \in S /\ \A r \in S : b - m >= r
  <2>1. ASSUME NEW r \in S
        PROVE  b - m >= r
    <3>1. r \in Int /\ r <= b /\ m \in Nat
      OBVIOUS
    <3>2. b - r \in T
      BY <3>1, SMT
    <3>3. m <= b - r
      <4> HIDE DEF T
      <4> QED
        BY <1>3, <3>2
    <3> QED
      BY <3>1, <3>3
  <2> QED
    BY <2>1
<1>5. Max(S) \in S /\ \A r \in S : Max(S) >= r
  BY <1>4 DEF Max
<1> QED
  BY <1>5

\* NextBusinessDay is the first business day after a day.
LEMMA NextBusinessDayFacts ==
    ASSUME NEW t \in Int, \A d \in t + 1 .. t + 10 : Year(d) \in Years
    PROVE  /\ NextBusinessDay(t) \in t + 1 .. t + 10
           /\ IsBusinessDay(NextBusinessDay(t))
           /\ \A d \in t + 1 .. t + 10 : IsBusinessDay(d) => NextBusinessDay(t) <= d
<1> DEFINE S == {n \in t + 1 .. t + 10 : IsBusinessDay(n)}
<1>1. S # {}
  BY BusinessDaySoon
<1>2. S \subseteq Int /\ t \in Int /\ \A s \in S : t <= s
  OBVIOUS
<1>3. NextBusinessDay(t) = Min(S)
  BY DEF NextBusinessDay, AddDays
<1>4. Min(S) \in S /\ \A s \in S : Min(S) <= s
  <2> HIDE DEF S
  <2> QED
    BY <1>1, <1>2, MinFacts
<1> QED
  BY <1>3, <1>4

\* A business day before which the month has none is its first.
LEMMA FirstBusinessDayFacts ==
    ASSUME NEW t \in Int, IsBusinessDay(t), NEW f \in Int, f = Date(Year(t), Month(t), 1),
           \A d \in f + 1 .. f + 10 : Year(d) \in Years,
           \A d \in f .. t - 1 : ~IsBusinessDay(d)
    PROVE  t = FirstBusinessDayOfMonth(Year(t), Month(t))
<1>1. f <= t
  BY MonthFacts
<1>2. CASE f = t
  BY <1>2 DEF FirstBusinessDayOfMonth
<1>3. CASE f < t
  <2>1. ~IsBusinessDay(f)
    BY <1>3
  <2>2. FirstBusinessDayOfMonth(Year(t), Month(t)) = NextBusinessDay(f)
    BY <2>1 DEF FirstBusinessDayOfMonth
  <2>3. PICK n \in Int : /\ n = NextBusinessDay(f) /\ n \in f + 1 .. f + 10 /\ IsBusinessDay(n)
                         /\ \A d \in f + 1 .. f + 10 : IsBusinessDay(d) => n <= d
    BY NextBusinessDayFacts
  <2>4. t <= n
    BY <2>3
  <2>5. n <= t
    BY <1>3, <2>3, <2>4
  <2> QED
    BY <2>2, <2>3, <2>4, <2>5
<1> QED
  BY <1>1, <1>2, <1>3

\* A month moves the year by one at most.
LEMMA YearNear ==
    ASSUME NEW s \in Int, NEW t \in Int, s <= t + 31
    PROVE  Year(s) <= Year(t) + 1
<1>1. PICK y \in Int : y = Year(s) /\ NewYear(y) <= s
  BY YearFacts
<1>2. PICK z \in Int : z = Year(t) /\ t < NewYear(z + 1)
  BY YearFacts
<1>3. ASSUME z + 2 <= y PROVE FALSE
  <2>1. PICK x \in Int : x = z + 1
    OBVIOUS
  <2>2. NewYear(x) + 365 * (y - x) <= NewYear(y)
    BY <1>3, <2>1, NewYearsGrow
  <2>3. NewYear(x) \in Int /\ NewYear(y) \in Int
    BY NextNewYear
  <2> QED
    BY <1>1, <1>2, <1>3, <2>1, <2>2, <2>3, SMT
<1> QED
  BY <1>1, <1>2, <1>3, SMT

\* The calendar knows the years of the days around a window.
LEMMA Covered ==
    ASSUME NEW w \in Windows, NEW t \in Int, w.from - 31 <= t, t <= w.from + w.days + 31
    PROVE  Year(t) \in Years
<1>1. PICK a \in Int, n \in Nat : a = w.from /\ n = w.days
  BY EodAssumption
<1>2. Year(a) - 1 .. Year(a + n) + 1 \subseteq Years
  BY <1>1, EodAssumption
<1>3. PICK b \in Int : b = a + n
  OBVIOUS
<1>4. Year(a) <= Year(t) + 1
  <2>1. a <= t + 31
    BY <1>1, SMT
  <2> QED
    BY <2>1, YearNear
<1>5. Year(t) <= Year(b) + 1
  <2>1. t <= b + 31
    BY <1>1, <1>3, SMT
  <2> QED
    BY <2>1, YearNear
<1>6. Year(t) \in Int /\ Year(a) \in Int /\ Year(b) \in Int
  BY YearFacts
<1>7. Year(t) \in Year(a) - 1 .. Year(b) + 1
  BY <1>4, <1>5, <1>6, SMT
<1> QED
  BY <1>2, <1>3, <1>7

-----------------------------------------------------------------------------
\* Part 3.  Sums over the rows of a table.

RowsOf(table, ids) == {[id |-> i, amount |-> table[i].amount] : i \in ids}

\* Finitely many rows, each with an integer.
Adds(table, ids) == IsFiniteSet(ids) /\ \A i \in ids : table[i].amount \in Int

\* The rows that SumOf adds up are finitely many and have integers.
LEMMA RowsAreSummable ==
    ASSUME NEW table, NEW ids, Adds(table, ids)
    PROVE  Summable(RowsOf(table, ids)) /\ SumOf(table, ids) = SumOfAmounts(RowsOf(table, ids))
           /\ SumOf(table, ids) \in Int
<1> DEFINE f == [i \in ids |-> [id |-> i, amount |-> table[i].amount]]
<1>1. f \in Surjection(ids, RowsOf(table, ids))
  BY DEF Surjection, RowsOf
<1>2. IsFiniteSet(RowsOf(table, ids))
  <2> HIDE DEF f
  <2> QED
    BY <1>1, FS_Surjection DEF Adds
<1>3. \A r \in RowsOf(table, ids) : r.amount \in Int
  BY DEF RowsOf, Adds
<1>4. SumOf(table, ids) = SumOfAmounts(RowsOf(table, ids))
  BY DEF SumOf, SumOfAmounts, RowsOf
<1>5. Summable(RowsOf(table, ids))
  BY <1>2, <1>3 DEF Summable
<1> QED
  BY <1>4, <1>5, SumType

\* The sum of no rows.
LEMMA SumOfNone ==
    ASSUME NEW table
    PROVE  SumOf(table, {}) = 0
<1>1. RowsOf(table, {}) = {}
  BY DEF RowsOf
<1>2. SumOf(table, {}) = SumOfAmounts({})
  BY <1>1 DEF SumOf, SumOfAmounts, RowsOf
<1> QED
  BY <1>2, SumUnfolds, FS_EmptySet

\* The sum of the rows of two sets that do not meet.
LEMMA SumOfBoth ==
    ASSUME NEW table, NEW I, NEW J, Adds(table, I), Adds(table, J), I \cap J = {}
    PROVE  Adds(table, I \cup J) /\ SumOf(table, I \cup J) = SumOf(table, I) + SumOf(table, J)
<1>1. Adds(table, I \cup J)
  BY FS_Union DEF Adds
<1>2. /\ Summable(RowsOf(table, I)) /\ SumOf(table, I) = SumOfAmounts(RowsOf(table, I))
      /\ Summable(RowsOf(table, J)) /\ SumOf(table, J) = SumOfAmounts(RowsOf(table, J))
  BY RowsAreSummable
<1>3. SumOf(table, I \cup J) = SumOfAmounts(RowsOf(table, I \cup J))
  BY <1>1, RowsAreSummable
<1>4. RowsOf(table, I \cup J) = RowsOf(table, I) \cup RowsOf(table, J)
  BY DEF RowsOf
<1>5. RowsOf(table, I) \cap RowsOf(table, J) = {}
  <2>1. ASSUME NEW r \in RowsOf(table, I), r \in RowsOf(table, J)
        PROVE  FALSE
    <3>1. r.id \in I /\ r.id \in J
      BY <2>1 DEF RowsOf
    <3> QED
      BY <3>1
  <2> QED
    BY <2>1
<1>6. SumOfAmounts(RowsOf(table, I) \cup RowsOf(table, J))
        = SumOfAmounts(RowsOf(table, I)) + SumOfAmounts(RowsOf(table, J))
  BY <1>2, <1>5, SumUnion
<1> QED
  BY <1>1, <1>2, <1>3, <1>4, <1>6

\* The sum of one row.
LEMMA SumOfOne ==
    ASSUME NEW table, NEW i, table[i].amount \in Int
    PROVE  Adds(table, {i}) /\ SumOf(table, {i}) = table[i].amount
<1>1. Adds(table, {i})
  BY FS_Singleton DEF Adds
<1> DEFINE r == [id |-> i, amount |-> table[i].amount]
<1>2. RowsOf(table, {i}) = {r} /\ r.amount = table[i].amount
  BY DEF RowsOf
<1> HIDE DEF r
<1>3. SumOf(table, {i}) = SumOfAmounts({r}) /\ Summable({r})
  BY <1>1, <1>2, RowsAreSummable
<1>4. {r} \ {r} = {}
  OBVIOUS
<1>5. SumOfAmounts({r}) = r.amount + SumOfAmounts({})
  BY <1>3, <1>4, SumRemove
<1>6. SumOfAmounts({}) = 0
  BY SumUnfolds, FS_EmptySet
<1> QED
  BY <1>1, <1>2, <1>3, <1>5, <1>6

\* Only the amounts matter.
LEMMA SumOfSame ==
    ASSUME NEW table, NEW other, NEW I, \A i \in I : table[i].amount = other[i].amount
    PROVE  SumOf(table, I) = SumOf(other, I)
<1>1. RowsOf(table, I) = RowsOf(other, I)
  BY DEF RowsOf
<1> QED
  BY <1>1 DEF SumOf, RowsOf

\* Amounts that are not negative.
LEMMA SumOfCredits ==
    ASSUME NEW table, NEW I, NEW J, IsFiniteSet(J), I \subseteq J,
           \A i \in J : table[i].amount \in Nat
    PROVE  /\ SumOf(table, I) \in Nat /\ SumOf(table, J) \in Nat
           /\ SumOf(table, I) <= SumOf(table, J)
<1>1. Adds(table, J) /\ Adds(table, I)
  BY FS_Subset DEF Adds
<1>2. /\ SumOf(table, J) = SumOfAmounts(RowsOf(table, J)) /\ Summable(RowsOf(table, J))
      /\ SumOf(table, I) = SumOfAmounts(RowsOf(table, I))
  BY <1>1, RowsAreSummable
<1>3. RowsOf(table, I) \subseteq RowsOf(table, J)
  BY DEF RowsOf
<1>4. \A r \in RowsOf(table, J) : r.amount \in Nat
  BY DEF RowsOf
<1>5. Credits(RowsOf(table, J))
  BY <1>2, <1>4 DEF Credits, Summable
<1> QED
  BY <1>2, <1>3, <1>5, CreditsMonotone, CreditsType

-----------------------------------------------------------------------------
\* Part 4.  Types.

EntryType == [acct : Range(Accounts), amount : Int, date : Int,
              key : {"customer", "interest", "fee"} \X Int, id : Nat \ {0},
              seen : Nat, at : Nat]
HoldType == [acct : Range(Accounts), amount : Nat, expires : Int,
             released : {"no", "expired", "cancelled"}, placed : Nat, closed : Nat]
CheckpointType == [acct : Range(Accounts), date : Int, last : Nat, balance : Int, seen : Nat]
RowType == [status : {"claimed", "finished"}, seen : Nat, at : Nat]
Phases == {"idle", "expire", "list", "interest", "fees", "holds", "assess",
           "checkpoint", "watermark", "finish"}
RunType == [pc : Phases, i : Nat, day : Int, sum : Int, ledger : Int, seen : Nat, at : Nat]

\* What end of day posts is not 0.
Charged(l) == \A i \in 1 .. Len(l) : l[i].key # Customer => l[i].amount # 0

\* One checkpoint for an account-day.
Unique(cs) == \A b, c \in cs : b.acct = c.acct /\ b.date = c.date => b = c

IsLog(l) == l \in Seq(EntryType) /\ Charged(l)
IsHolds(hs) == hs \in Seq(HoldType)
IsCheckpoints(cs) == cs \subseteq CheckpointType /\ IsFiniteSet(cs) /\ Unique(cs)
IsRuns(e) == \A d \in DOMAIN e : d \in Int /\ e[d] \in RowType

Types ==
    /\ win \in Windows
    /\ today \in Int /\ win.from <= today /\ today <= win.from + win.days
    /\ IsLog(log) /\ IsHolds(holds) /\ IsCheckpoints(checkpoints) /\ IsRuns(eod)
    /\ run \in RunType /\ acts \in Nat

\* A run is at an account of its phase, and the day is claimed.
PlaceOf(r, t, e) ==
    /\ r.pc # "idle" => t \in DOMAIN e /\ e[t].status = "claimed"
    /\ r.pc = "interest" => r.i \in Earning
    /\ r.pc \in {"fees", "holds", "assess"} => r.i \in Paying /\ isMonthEnd(t)
    /\ r.pc \in {"checkpoint", "watermark"} => r.i \in 1 .. Len(Accounts)

\* Days.

\* The first of the month of a day.
FirstOf(t) == Date(Year(t), Month(t), 1)

\* A day is in the month of its first, 30 days after it at most.
LEMMA FirstOfFacts ==
    ASSUME NEW t \in Int
    PROVE  /\ FirstOf(t) \in Int /\ FirstOf(t) <= t /\ t <= FirstOf(t) + 30
           /\ Year(FirstOf(t)) = Year(t) /\ Month(FirstOf(t)) = Month(t)
           /\ Year(t) \in Int /\ Month(t) \in 1 .. 12
<1>1. PICK y \in Int, m \in 1 .. 12 :
          y = Year(t) /\ m = Month(t) /\ Date(y, m, 1) <= t /\ t < Date(y, m + 1, 1)
  BY YearFacts, MonthFacts
<1>2. PICK leap \in {0, 1}, n \in Int :
          Date(y, m, 1) = n + Before(m, leap) /\ Date(y, m + 1, 1) = n + Before(m + 1, leap)
  <2>1. /\ Leap(y) \in {0, 1} /\ NewYear(y) \in Int
        /\ Date(y, m, 1) = NewYear(y) + Before(m, Leap(y))
        /\ Date(y, m + 1, 1) = NewYear(y) + Before(m + 1, Leap(y))
    BY FirstDays
  <2> QED
    BY <2>1
<1>3. Before(m, leap) \in Nat /\ Before(m + 1, leap) <= Before(m, leap) + 31
      /\ Before(m + 1, leap) \in Nat
  BY BeforeGrows
<1>4. PICK f \in Int : f = Date(y, m, 1)
  BY <1>2, <1>3
<1>5. f <= t /\ t <= f + 30
  BY <1>1, <1>2, <1>3, <1>4, SMT
<1>6. Year(f) = y /\ Month(f) = m
  <2>1. Date(y, m, 1) <= f /\ f < Date(y, m + 1, 1)
    BY <1>1, <1>4, <1>5, <1>2, <1>3, SMT
  <2> QED
    BY <2>1, Civil
<1> QED
  BY <1>1, <1>4, <1>5, <1>6 DEF FirstOf

\* The days that a run at day t works with.
LEMMA RunDays ==
    ASSUME today \in Int
    PROVE  /\ calendarFirst = FirstOf(today) /\ calendarFirst \in Int
           /\ calendarFirst <= today /\ today <= calendarFirst + 30
           /\ prevMonthEnd = calendarFirst - 1 /\ prevMonthEnd \in Int
           /\ first = FirstOf(prevMonthEnd) /\ first \in Int /\ first <= prevMonthEnd
<1>1. calendarFirst = FirstOf(today)
  BY DEF calendarFirst, FirstOfMonth, FirstOf
<1>2. /\ calendarFirst \in Int /\ calendarFirst <= today /\ today <= calendarFirst + 30
  BY <1>1, FirstOfFacts
<1>3. prevMonthEnd = calendarFirst - 1
  BY <1>2 DEF prevMonthEnd, AddDays
<1>4. prevMonthEnd \in Int
  BY <1>2, <1>3
<1>5. first = FirstOf(prevMonthEnd)
  BY DEF first, FirstOf
<1>6. first \in Int /\ first <= prevMonthEnd
  BY <1>4, <1>5, FirstOfFacts
<1> QED
  BY <1>1, <1>2, <1>3, <1>4, <1>5, <1>6

\* The products.
LEMMA ProductFacts ==
    ASSUME NEW a
    PROVE  /\ Product(a).rate \in {0, 325} /\ Product(a).fee \in {0, 300, 500}
           /\ Product(a).min \in Nat /\ Product(a).minFee \in {0, 1200}
           /\ Product(a).fee # 0 \/ Product(a).minFee > 0 => Product(a).fee > 0
<1>1. DOMAIN Products = {"CHK01", "SAV01", "CHKJPY", "SUSPENSE"}
  BY DEF Products
<1>2. CASE ProductOf[a] \notin DOMAIN Products
  BY <1>2, SMT DEF Product, NoProduct
<1>3. CASE ProductOf[a] = "CHK01"
  BY <1>1, <1>3, SMT DEF Product, Products
<1>4. CASE ProductOf[a] = "SAV01"
  BY <1>1, <1>4, SMT DEF Product, Products
<1>5. CASE ProductOf[a] = "CHKJPY"
  BY <1>1, <1>5, SMT DEF Product, Products
<1>6. CASE ProductOf[a] = "SUSPENSE"
  BY <1>1, <1>6, SMT DEF Product, Products, NoProduct
<1> QED
  BY <1>1, <1>2, <1>3, <1>4, <1>5, <1>6

\* The suspense account earns and pays nothing.
LEMMA SuspenseFacts ==
    ASSUME NEW i \in 1 .. Len(Accounts)
    PROVE  /\ Accounts[i] \in Range(Accounts)
           /\ i \in Earning \/ i \in Paying => Accounts[i] # Suspense
<1>1. DOMAIN Accounts = 1 .. Len(Accounts)
  BY EodAssumption
<1>2. Accounts[i] \in Range(Accounts)
  BY <1>1 DEF Range
<1>3. Product(Suspense) = NoProduct
  BY EodAssumption DEF Product, Products
<1> QED
  BY <1>2, <1>3 DEF Earning, Paying, NoProduct

-----------------------------------------------------------------------------
\* Part 5.  The inductive invariant.  Its parts are about explicit tables, so that
\* what is known of them can be used before and after a step.

\* The balance of an account from the first n entries dated up to a day.
IdsOf(l, a, n, d) == {i \in 1 .. n : l[i].acct = a /\ l[i].date <= d}
BalanceOf(l, a, n, d) == SumOf(l, IdsOf(l, a, n, d))

\* The entries of an account up to a day that are above a watermark, and the others.
AboveOf(l, a, n, d, last) == {i \in IdsOf(l, a, n, d) : l[i].id > last}
UnderOf(l, a, n, d, last) == {i \in IdsOf(l, a, n, d) : l[i].id <= last}

SeparatedOf(cs, l, a, d) ==
    \A c \in cs : c.acct = a /\ c.date <= d =>
        \A i \in 1 .. Len(l) :
            l[i].acct = a /\ l[i].id <= c.last => i <= c.seen /\ l[i].date <= c.date

\* The positive part of the balance of each day.
Daily(l, a, n) == [d \in Int |-> [amount |-> Max({0, BalanceOf(l, a, n, d)})]]

\* The first of the month before that of a day, and what its days sum up to.
FirstBefore(t) == FirstOf(FirstOf(t) - 1)
SumBefore(l, a, t, n, d) == SumOf(Daily(l, a, n), FirstBefore(t) .. d - 1)
MonthOf(l, a, t, n) == SumBefore(l, a, t, n, FirstOf(t))
YearDays(t) == LET y == Year(FirstOf(t) - 1) IN 337 + Date(y, 3, 1) - Date(y, 2, 1)
OwedOf(l, a, t, n) == Nearest(MonthOf(l, a, t, n) * Product(a).rate, 10000 * YearDays(t))
FitsOf(l, a, t, n) == MonthOf(l, a, t, n) * Product(a).rate <= MaxMinor
LateOf(l, a, t, n) == \E j \in n + 1 .. Len(l) : l[j].acct = a /\ l[j].date < FirstOf(t)
KeyIn(l, a, key) == \E i \in 1 .. Len(l) : l[i].acct = a /\ l[i].key = key

\* The business days up to now were claimed, and no other day was.
Claims(w, t, l, e, k) ==
    /\ \A d \in DOMAIN e : w.from <= d /\ d <= t /\ IsBusinessDay(d)
    /\ \A d \in w.from .. t - 1 : IsBusinessDay(d) => d \in DOMAIN e
    /\ t \in DOMAIN e => e[t].seen <= Len(l) /\ e[t].at <= k

\* The phases before the checkpoints.
Early(r) == r.pc \in {"expire", "list", "interest", "fees", "holds", "assess"}

\* A watermark covers what its checkpoint was read from, and the checkpoint sums that
\* up, if watermarks separate; the checkpoints of a day are written when everything
\* else of its run is done.
Watermarks(t, l, cs, e, r) ==
    /\ \A c \in cs : /\ c.date <= t /\ c.seen <= Len(l)
                     /\ \A i \in IdsOf(l, c.acct, c.seen, c.date) : l[i].id <= c.last
                     /\ SeparatedOf(cs, l, c.acct, c.date) =>
                            c.balance = BalanceOf(l, c.acct, c.seen, c.date)
    /\ t \notin DOMAIN e \/ Early(r) => \A c \in cs : c.date < t

\* Holds are closed by end of day when they are due, or by customers; nothing was
\* read or done after the last of the customers' k actions.
Holding(t, l, hs, r, k) ==
    /\ \A n \in 1 .. Len(hs) : /\ hs[n].released = "expired" => hs[n].expires <= t
                               /\ hs[n].closed # 0 <=> hs[n].released = "cancelled"
                               /\ hs[n].placed <= k /\ hs[n].closed <= k
    /\ \A i \in 1 .. Len(l) : l[i].at <= k
    /\ r.at <= k

\* The holds of an account that were open after the first k actions.
HeldAt(hs, a, now, k) ==
    {n \in {n \in 1 .. Len(hs) : hs[n].acct = a /\ hs[n].expires > now} :
        hs[n].placed <= k /\ (hs[n].closed = 0 \/ hs[n].closed > k)}

\* What has been read so far is exact, unless watermarks do not separate, or the
\* product wraps around, or a client posted to the month that ended.
Exactly(l, cs, a, t, n) ==
    /\ SeparatedOf(cs, l, a, FirstOf(t) - 1) /\ FitsOf(l, a, t, n) /\ ~LateOf(l, a, t, n)

Reading(t, l, cs, e, r) ==
    LET a == Accounts[r.i] IN
    /\ r.pc = "interest" =>
           /\ FirstBefore(t) <= r.day /\ r.day <= FirstOf(t)
           /\ e[t].seen <= r.seen
           /\ Exactly(l, cs, a, t, r.seen) => r.sum = SumBefore(l, a, t, r.seen, r.day)
    /\ r.pc = "holds" =>
           (SeparatedOf(cs, l, a, t - 1) => r.ledger = BalanceOf(l, a, r.seen, t))
    /\ r.pc = "watermark" =>
           (SeparatedOf(cs, l, a, t) => r.ledger = BalanceOf(l, a, r.seen, t))
    /\ r.seen <= Len(l)

\* What a fee is assessed on: a balance, less the holds that were open later.
Assessing(t, l, cs, hs, r) ==
    LET a == Accounts[r.i] IN
    r.pc = "assess" /\ SeparatedOf(cs, l, a, t - 1) =>
        r.ledger = BalanceOf(l, a, r.seen, t) - SumOf(hs, HeldAt(hs, a, t, r.at))

\* What a run has done, by its phase; a day that is finished has it all.
HoldsDone(hs, t, k) ==
    \A n \in 1 .. Len(hs) : hs[n].placed <= k => hs[n].released # "no" \/ hs[n].expires > t

InterestDue(t) == \A d \in FirstOf(t) .. t - 1 : ~IsBusinessDay(d)

Settled(l, cs, a, t, n) ==
    \/ KeyIn(l, a, <<"interest", FirstBefore(t)>>)
    \/ OwedOf(l, a, t, Len(l)) = 0
    \/ ~FitsOf(l, a, t, Len(l))
    \/ ~SeparatedOf(cs, l, a, FirstOf(t) - 1)
    \/ LateOf(l, a, t, n)

InterestDone(l, cs, t, n, i) ==
    InterestDue(t) => \A j \in Earning : j < i => Settled(l, cs, Accounts[j], t, n)

FeesDone(l, t, i) ==
    isMonthEnd(t) => \A j \in Paying : j < i => KeyIn(l, Accounts[j], <<"fee", t>>)

CheckpointsDone(cs, t, i) ==
    \A j \in 1 .. Len(Accounts) :
        j < i => \E c \in cs : c.acct = Accounts[j] /\ c.date = t

All == Len(Accounts) + 1

Finished(t, e) == t \in DOMAIN e /\ e[t].status = "finished"

Progress(t, l, hs, cs, e, r) ==
    /\ r.pc \in {"list", "interest", "fees", "holds", "assess", "checkpoint", "watermark", "finish"}
       \/ Finished(t, e) => HoldsDone(hs, t, e[t].at)
    /\ r.pc = "interest" => InterestDone(l, cs, t, e[t].seen, r.i)
    /\ r.pc \in {"fees", "holds", "assess", "checkpoint", "watermark", "finish"}
       \/ Finished(t, e) => InterestDone(l, cs, t, e[t].seen, All)
    /\ r.pc \in {"fees", "holds", "assess"} => FeesDone(l, t, r.i)
    /\ r.pc \in {"checkpoint", "watermark", "finish"} \/ Finished(t, e) => FeesDone(l, t, All)
    /\ r.pc \in {"checkpoint", "watermark"} => CheckpointsDone(cs, t, r.i)
    /\ r.pc = "finish" \/ Finished(t, e) => CheckpointsDone(cs, t, All)

-----------------------------------------------------------------------------
\* Part 6.  What the steps do to the tables.

\* A table only grows.
Extends(l, k) == Len(l) <= Len(k) /\ \A i \in 1 .. Len(l) : k[i] = l[i]

\* Two rows at the end of a table.
LEMMA PairAppended ==
    ASSUME NEW S, NEW l \in Seq(S), NEW p \in Seq(S), Len(p) = 2
    PROVE  /\ l \o p \in Seq(S) /\ Len(l \o p) = Len(l) + 2 /\ Extends(l, l \o p)
           /\ (l \o p)[Len(l) + 1] = p[1] /\ (l \o p)[Len(l) + 2] = p[2]
<1>1. PICK k : k = l \o p
  OBVIOUS
<1>2. /\ k \in Seq(S) /\ Len(k) = Len(l) + Len(p)
      /\ \A i \in 1 .. Len(l) + Len(p) : k[i] = IF i <= Len(l) THEN l[i] ELSE p[i - Len(l)]
  BY <1>1, ConcatProperties, Zenon
<1>3. PICK n \in Nat : n = Len(l)
  OBVIOUS
<1>4. PICK q : q = k
  OBVIOUS
<1>5. \A i \in 1 .. n + 2 : q[i] = IF i <= n THEN l[i] ELSE p[i - n]
  BY <1>2, <1>3, <1>4
<1>6. q[n + 1] = p[1] /\ q[n + 2] = p[2]
  <2>1. n + 1 \in 1 .. n + 2 /\ n + 2 \in 1 .. n + 2 /\ ~(n + 1 <= n) /\ ~(n + 2 <= n)
        /\ n + 1 - n = 1 /\ n + 2 - n = 2
    OBVIOUS
  <2>2. q[n + 1] = p[n + 1 - n] /\ q[n + 2] = p[n + 2 - n]
    BY <1>5, <2>1
  <2> QED
    BY <2>1, <2>2
<1>7. \A i \in 1 .. n : q[i] = l[i]
  <2>1. \A i \in 1 .. n : i \in 1 .. n + 2 /\ i <= n
    OBVIOUS
  <2> QED
    BY <1>5, <2>1
<1>8. Len(k) = n + 2
  BY <1>2, <1>3
<1>9. Extends(l, q)
  BY <1>3, <1>4, <1>7, <1>8 DEF Extends
<1> QED
  BY <1>1, <1>2, <1>3, <1>4, <1>6, <1>8, <1>9

\* An entry has its type and its fields.
LEMMA EntryTyped ==
    ASSUME NEW a \in Range(Accounts), NEW m \in Int, NEW d \in Int,
           NEW key \in {"customer", "interest", "fee"} \X Int, NEW id \in Nat \ {0},
           NEW read \in [seen : Nat, at : Nat], NEW x, x = Entry(a, m, d, key, id, read)
    PROVE  /\ x \in EntryType /\ x.acct = a /\ x.amount = m /\ x.date = d /\ x.key = key
           /\ x.id = id /\ x.seen = read.seen /\ x.at = read.at
BY DEF Entry, EntryType

\* So has what end of day read.
LEMMA ReadTyped ==
    ASSUME NEW n \in Nat, NEW k \in Nat
    PROVE  Read(n, k) \in [seen : Nat, at : Nat] /\ Read(n, k).seen = n /\ Read(n, k).at = k
BY DEF Read

\* A posting adds its two entries.
Adds2(l, k, x, y) ==
    /\ Len(k) = Len(l) + 2 /\ Extends(l, k)
    /\ k[Len(l) + 1] = x /\ k[Len(l) + 2] = y

\* New entries know how many actions had been taken when end of day last read.
Stamped(l, k, n) ==
    \A i \in 1 .. Len(k) : k[i].at = n \/ (i \in 1 .. Len(l) /\ k[i] = l[i])

\* What Posted does: nothing if the key is taken.
LEMMA PostedFacts ==
    ASSUME IsLog(log), NEW a \in Range(Accounts), NEW m \in Int, NEW d \in Int,
           NEW key \in {"customer", "interest", "fee"} \X Int, NEW id \in Nat \ {0},
           NEW read \in [seen : Nat, at : Nat],
           key # Customer => m # 0, NEW k, k = Posted(a, m, d, key, id, read)
    PROVE  /\ IsLog(k) /\ Extends(log, k)
           /\ \/ k = log /\ key # Customer
              \/ Adds2(log, k, Entry(a, m, d, key, id, read),
                            Entry(Suspense, -m, d, key, id, read))
           /\ key # Customer => KeyIn(k, a, key)
           /\ Stamped(log, k, read.at)
<1>1. CASE \E i \in 1 .. Len(log) : key # Customer /\ log[i].key = key /\ log[i].acct = a
  <2>1. k = log
    BY <1>1, Zenon DEF Posted
  <2>2. key # Customer /\ KeyIn(k, a, key)
    BY <1>1, <2>1 DEF KeyIn
  <2>3. Len(log) \in Nat
    BY DEF IsLog
  <2>4. Extends(log, k)
    BY <2>1, <2>3 DEF Extends
  <2>5. Stamped(log, k, read.at)
    BY <2>1 DEF Stamped
  <2> QED
    BY <2>1, <2>2, <2>4, <2>5
<1>2. CASE ~ \E i \in 1 .. Len(log) : key # Customer /\ log[i].key = key /\ log[i].acct = a
  <2> DEFINE x == Entry(a, m, d, key, id, read)
             y == Entry(Suspense, -m, d, key, id, read)
  <2>1. /\ x \in EntryType /\ x.acct = a /\ x.key = key /\ x.amount = m
        /\ y \in EntryType /\ y.key = key /\ y.amount = -m
        /\ x.at = read.at /\ y.at = read.at
    <3>1. PICK o \in Int : o = -m
      OBVIOUS
    <3>2. Suspense \in Range(Accounts)
      BY EodAssumption
    <3>3. x \in EntryType /\ x.acct = a /\ x.key = key /\ x.amount = m /\ x.at = read.at
      BY EntryTyped
    <3>4. PICK b \in Range(Accounts) : b = Suspense
      BY <3>2
    <3>5. PICK z : z = Entry(b, o, d, key, id, read)
      OBVIOUS
    <3>6. z \in EntryType /\ z.key = key /\ z.amount = o /\ z.at = read.at
      BY <3>5 DEF Entry, EntryType
    <3> QED
      BY <3>1, <3>3, <3>4, <3>5, <3>6
  <2>2. k = log \o <<x, y>>
    BY <1>2 DEF Posted
  <2> HIDE DEF x, y
  <2>3. log \in Seq(EntryType)
    BY DEF IsLog
  <2>4. /\ k \in Seq(EntryType) /\ Len(k) = Len(log) + 2 /\ Extends(log, k)
        /\ k[Len(log) + 1] = x /\ k[Len(log) + 2] = y
    <3>1. PICK p : p = <<x, y>>
      OBVIOUS
    <3>2. p \in Seq(EntryType) /\ Len(p) = 2 /\ p[1] = x /\ p[2] = y
      BY <2>1, <3>1
    <3>3. k = log \o p
      BY <2>2, <3>1
    <3>4. /\ log \o p \in Seq(EntryType) /\ Len(log \o p) = Len(log) + 2
          /\ Extends(log, log \o p)
          /\ (log \o p)[Len(log) + 1] = p[1] /\ (log \o p)[Len(log) + 2] = p[2]
      BY <2>3, <3>2, PairAppended
    <3> QED
      BY <3>2, <3>3, <3>4
  <2>5. PICK len \in Nat : len = Len(log)
    BY <2>3
  <2>6. Charged(k)
    <3>1. ASSUME NEW i \in 1 .. Len(k), k[i].key # Customer
          PROVE  k[i].amount # 0
      <4>1. i \in 1 .. len \/ i = len + 1 \/ i = len + 2
        BY <2>4, <2>5, <3>1
      <4>2. CASE i \in 1 .. len
        BY <2>4, <2>5, <3>1, <4>2 DEF IsLog, Charged, Extends
      <4>3. CASE i = len + 1
        BY <2>1, <2>4, <2>5, <3>1, <4>3
      <4>4. CASE i = len + 2
        BY <2>1, <2>4, <2>5, <3>1, <4>4
      <4> QED
        BY <4>1, <4>2, <4>3, <4>4
    <3> QED
      BY <3>1 DEF Charged
  <2>7. KeyIn(k, a, key)
    <3>1. len + 1 \in 1 .. Len(k) /\ k[len + 1].acct = a /\ k[len + 1].key = key
      BY <2>1, <2>4, <2>5
    <3> QED
      BY <3>1 DEF KeyIn
  <2>8. Stamped(log, k, read.at)
    <3>1. ASSUME NEW i \in 1 .. Len(k)
          PROVE  k[i].at = read.at \/ (i \in 1 .. Len(log) /\ k[i] = log[i])
      <4>1. i \in 1 .. len \/ i = len + 1 \/ i = len + 2
        BY <2>4, <2>5
      <4>2. CASE i \in 1 .. len
        BY <2>4, <2>5, <4>2 DEF Extends
      <4>3. CASE i = len + 1
        BY <2>1, <2>4, <2>5, <4>3
      <4>4. CASE i = len + 2
        BY <2>1, <2>4, <2>5, <4>4
      <4> QED
        BY <4>1, <4>2, <4>3, <4>4
    <3> QED
      BY <3>1 DEF Stamped
  <2> QED
    BY <2>4, <2>6, <2>7, <2>8 DEF IsLog, Adds2, x, y
<1> QED
  BY <1>1, <1>2

\* A run at the beginning of an account of a phase.
Begun(pc, i, f, n) ==
    [pc |-> pc, i |-> i, day |-> f, sum |-> 0, ledger |-> 0, seen |-> n, at |-> 0]

\* A phase is past its accounts, or at the first of them that is left.
Passed(places, i) == \A j \in places : j < i

At(r, phase, places, i, f, n) ==
    \E j \in places : /\ i <= j /\ \A k \in places : k < j => k < i
                      /\ r = Begun(phase, j, f, n)

CheckpointsFrom(r, i, f, n) ==
    \/ Passed(1 .. Len(Accounts), i) /\ r = Begun("finish", 1, f, n)
    \/ At(r, "checkpoint", 1 .. Len(Accounts), i, f, n)

FeesFrom(r, t, i, f, n) ==
    \/ (isMonthEnd(t) => Passed(Paying, i)) /\ CheckpointsFrom(r, 1, f, n)
    \/ isMonthEnd(t) /\ At(r, "fees", Paying, i, f, n)

InterestFrom(r, t, i, f, n) ==
    \/ Passed(Earning, i) /\ FeesFrom(r, t, 1, f, n)
    \/ At(r, "interest", Earning, i, f, n)

\* The places of the accounts.
LEMMA PlacesFacts ==
    /\ Len(Accounts) \in Nat /\ Earning \subseteq 1 .. Len(Accounts)
    /\ Paying \subseteq 1 .. Len(Accounts)
    /\ Earning \subseteq Nat /\ Paying \subseteq Nat /\ 1 .. Len(Accounts) \subseteq Nat
<1>1. Len(Accounts) \in Nat
  BY EodAssumption
<1> QED
  BY <1>1 DEF Earning, Paying

\* A loop goes to the first account that is left, or past the phase.
LEMMA LoopFacts ==
    ASSUME NEW phase, NEW places, places \subseteq Nat, NEW i \in Nat, NEW after
    PROVE  \/ Passed(places, i) /\ Loop(phase, places, i, after) = after
           \/ At(Loop(phase, places, i, after), phase, places, i, first, Len(log'))
<1> DEFINE left == {j \in places : j >= i}
<1>1. CASE left = {}
  <2>1. Loop(phase, places, i, after) = after
    BY <1>1 DEF Loop
  <2>2. Passed(places, i)
    BY <1>1 DEF Passed
  <2> QED
    BY <2>1, <2>2
<1>2. CASE left # {}
  <2>1. Loop(phase, places, i, after) = Start(phase, Min(left))
    BY <1>2 DEF Loop
  <2>2. \A j : j \in left <=> j \in places /\ j >= i
    OBVIOUS
  <2> HIDE DEF left
  <2>3. left \subseteq Int /\ i \in Int /\ \A s \in left : i <= s
    <3>1. ASSUME NEW s \in left PROVE s \in Int /\ i <= s
      <4>1. s \in places /\ s >= i
        BY <2>2
      <4>2. s \in Nat
        BY <4>1
      <4> QED
        BY <4>1, <4>2
    <3> QED
      BY <3>1
  <2>4. PICK j : j = Min(left) /\ j \in left /\ \A s \in left : j <= s
    <3>1. Min(left) \in left /\ \A s \in left : Min(left) <= s
      BY <1>2, <2>3, MinFacts
    <3> QED
      BY <3>1
  <2>5. j \in places /\ i <= j
    BY <2>2, <2>4
  <2>6. \A k \in places : k < j => k < i
    BY <2>2, <2>4, <2>5
  <2>7. Start(phase, j) = Begun(phase, j, first, Len(log'))
    BY DEF Start, Begun
  <2> QED
    BY <2>1, <2>4, <2>5, <2>6, <2>7 DEF At
<1> QED
  BY <1>1, <1>2

\* Where the loops over the accounts go.
LEMMA PhaseFacts ==
    ASSUME NEW i \in Nat
    PROVE  /\ CheckpointsFrom(CheckpointPhase(i), i, first, Len(log'))
           /\ FeesFrom(FeePhase(i), today, i, first, Len(log'))
           /\ InterestFrom(InterestPhase(i), today, i, first, Len(log'))
<1>1. Start("finish", 1) = Begun("finish", 1, first, Len(log'))
  BY DEF Start, Begun
<1>2. ASSUME NEW k \in Nat
      PROVE  CheckpointsFrom(CheckpointPhase(k), k, first, Len(log'))
  <2>1. CheckpointPhase(k) = Loop("checkpoint", 1 .. Len(Accounts), k, Start("finish", 1))
    BY DEF CheckpointPhase
  <2>2. \/ /\ Passed(1 .. Len(Accounts), k)
           /\ Loop("checkpoint", 1 .. Len(Accounts), k, Start("finish", 1)) = Start("finish", 1)
        \/ At(Loop("checkpoint", 1 .. Len(Accounts), k, Start("finish", 1)), "checkpoint",
              1 .. Len(Accounts), k, first, Len(log'))
    BY PlacesFacts, LoopFacts
  <2> QED
    BY <1>1, <2>1, <2>2 DEF CheckpointsFrom
<1>3. ASSUME NEW k \in Nat
      PROVE  FeesFrom(FeePhase(k), today, k, first, Len(log'))
  <2>1. CheckpointsFrom(CheckpointPhase(1), 1, first, Len(log'))
    BY <1>2
  <2>2. CASE ~isMonthEnd(today)
    BY <2>1, <2>2 DEF FeePhase, FeesFrom
  <2>3. CASE isMonthEnd(today)
    <3>1. FeePhase(k) = Loop("fees", Paying, k, CheckpointPhase(1))
      BY <2>3 DEF FeePhase
    <3>2. \/ /\ Passed(Paying, k)
             /\ Loop("fees", Paying, k, CheckpointPhase(1)) = CheckpointPhase(1)
          \/ At(Loop("fees", Paying, k, CheckpointPhase(1)), "fees", Paying, k, first, Len(log'))
      BY PlacesFacts, LoopFacts
    <3> QED
      BY <2>1, <2>3, <3>1, <3>2 DEF FeesFrom
  <2> QED
    BY <2>2, <2>3
<1>4. InterestFrom(InterestPhase(i), today, i, first, Len(log'))
  <2>1. FeesFrom(FeePhase(1), today, 1, first, Len(log'))
    BY <1>3
  <2>2. InterestPhase(i) = Loop("interest", Earning, i, FeePhase(1))
    BY DEF InterestPhase
  <2>3. \/ /\ Passed(Earning, i)
           /\ Loop("interest", Earning, i, FeePhase(1)) = FeePhase(1)
        \/ At(Loop("interest", Earning, i, FeePhase(1)), "interest", Earning, i, first, Len(log'))
    BY PlacesFacts, LoopFacts
  <2> QED
    BY <2>1, <2>2, <2>3 DEF InterestFrom
<1> QED
  BY <1>2, <1>3, <1>4

\* A run that begins at an account has its type and its fields.
LEMMA BegunTyped ==
    ASSUME NEW pc \in Phases, NEW i \in Nat, NEW f \in Int, NEW n \in Nat
    PROVE  /\ Begun(pc, i, f, n) \in RunType
           /\ Begun(pc, i, f, n).pc = pc /\ Begun(pc, i, f, n).i = i
           /\ Begun(pc, i, f, n).day = f /\ Begun(pc, i, f, n).sum = 0
           /\ Begun(pc, i, f, n).seen = n /\ Begun(pc, i, f, n).at = 0
BY DEF Begun, RunType

\* A run is wherever a loop takes it, at its beginning.
IsBegun(r, f, n) ==
    \E pc \in {"interest", "fees", "checkpoint", "finish"}, i \in Nat : r = Begun(pc, i, f, n)

\* Wherever a loop takes a run, it is at an account of the phase.
LEMMA FromFacts ==
    ASSUME NEW r, NEW t, NEW e, NEW i \in Nat, NEW f \in Int, NEW n \in Nat,
           t \in DOMAIN e, e[t].status = "claimed",
           InterestFrom(r, t, i, f, n) \/ FeesFrom(r, t, i, f, n) \/ CheckpointsFrom(r, i, f, n)
    PROVE  r \in RunType /\ PlaceOf(r, t, e) /\ IsBegun(r, f, n)
<1>1. CASE \E j \in Earning : r = Begun("interest", j, f, n)
  <2>1. PICK j \in Earning : r = Begun("interest", j, f, n)
    BY <1>1
  <2>2. r \in RunType /\ r.pc = "interest" /\ r.i = j
    <3>1. j \in Nat /\ "interest" \in Phases
      BY PlacesFacts DEF Phases
    <3> QED
      BY <2>1, <3>1, BegunTyped
  <2> QED
    BY <2>1, <2>2, PlacesFacts DEF PlaceOf, IsBegun
<1>2. CASE isMonthEnd(t) /\ \E j \in Paying : r = Begun("fees", j, f, n)
  <2>1. PICK j \in Paying : r = Begun("fees", j, f, n)
    BY <1>2
  <2>2. r \in RunType /\ r.pc = "fees" /\ r.i = j
    <3>1. j \in Nat /\ "fees" \in Phases
      BY PlacesFacts DEF Phases
    <3> QED
      BY <2>1, <3>1, BegunTyped
  <2> QED
    BY <1>2, <2>1, <2>2, PlacesFacts DEF PlaceOf, IsBegun
<1>3. CASE \E j \in 1 .. Len(Accounts) : r = Begun("checkpoint", j, f, n)
  <2>1. PICK j \in 1 .. Len(Accounts) : r = Begun("checkpoint", j, f, n)
    BY <1>3
  <2>2. r \in RunType /\ r.pc = "checkpoint" /\ r.i = j
    <3>1. j \in Nat /\ "checkpoint" \in Phases
      BY PlacesFacts DEF Phases
    <3> QED
      BY <2>1, <3>1, BegunTyped
  <2> QED
    BY <2>1, <2>2, PlacesFacts DEF PlaceOf, IsBegun
<1>4. CASE r = Begun("finish", 1, f, n)
  <2>1. PICK one \in Nat : one = 1
    OBVIOUS
  <2>2. "finish" \in Phases
    BY DEF Phases
  <2>3. /\ Begun("finish", one, f, n) \in RunType
        /\ Begun("finish", one, f, n).pc = "finish"
    BY <2>2 DEF Begun, RunType
  <2>4. r \in RunType /\ r.pc = "finish"
    BY <1>4, <2>1, <2>3
  <2> QED
    BY <1>4, <2>4 DEF PlaceOf, IsBegun
<1> QED
  BY <1>1, <1>2, <1>3, <1>4 DEF InterestFrom, FeesFrom, CheckpointsFrom, At

\* Entries that can be summed up.
LEMMA LogRows ==
    ASSUME NEW l, IsLog(l), NEW i \in 1 .. Len(l)
    PROVE  /\ l[i] \in EntryType /\ l[i].acct \in Range(Accounts) /\ l[i].amount \in Int
           /\ l[i].date \in Int /\ l[i].key \in {"customer", "interest", "fee"} \X Int
           /\ l[i].id \in Nat \ {0} /\ l[i].seen \in Nat /\ l[i].at \in Nat
<1>1. l[i] \in EntryType
  BY DEF IsLog
<1> QED
  BY <1>1 DEF EntryType

\* The entries of an account up to a date can be summed up.
LEMMA IdsFacts ==
    ASSUME NEW l, IsLog(l), NEW a, NEW n \in Nat, n <= Len(l), NEW d \in Int
    PROVE  /\ Len(l) \in Nat /\ Adds(l, IdsOf(l, a, n, d)) /\ BalanceOf(l, a, n, d) \in Int
           /\ \A I : I \subseteq IdsOf(l, a, n, d) => Adds(l, I) /\ SumOf(l, I) \in Int
<1>1. Len(l) \in Nat
  BY DEF IsLog
<1>2. IsFiniteSet(IdsOf(l, a, n, d))
  <2>1. PICK one \in Int : one = 1
    OBVIOUS
  <2>2. IsFiniteSet(one .. n)
    BY FS_Interval
  <2>3. IdsOf(l, a, n, d) \subseteq one .. n
    BY <2>1 DEF IdsOf
  <2> QED
    BY <2>2, <2>3, FS_Subset
<1>3. \A i \in IdsOf(l, a, n, d) : l[i].amount \in Int
  <2>1. \A i \in IdsOf(l, a, n, d) : i \in 1 .. Len(l)
    BY <1>1 DEF IdsOf
  <2> QED
    BY <2>1, LogRows
<1>4. ASSUME NEW I, I \subseteq IdsOf(l, a, n, d) PROVE Adds(l, I) /\ SumOf(l, I) \in Int
  <2>1. Adds(l, I)
    BY <1>2, <1>3, <1>4, FS_Subset DEF Adds
  <2> QED
    BY <2>1, RowsAreSummable
<1> QED
  BY <1>1, <1>4 DEF BalanceOf

\* The checkpoint that a balance starts from.
LEMMA LatestFacts ==
    ASSUME IsCheckpoints(checkpoints), NEW a, NEW d \in Int
    PROVE  \E c : /\ c = LatestCheckpoint(a, d) /\ c.balance \in Int /\ c.last \in Nat
                  /\ \/ c.balance = 0 /\ c.last = 0
                     \/ c \in checkpoints /\ c.acct = a /\ c.date \in Int /\ c.date <= d
<1> DEFINE before == {c \in checkpoints : c.acct = a /\ c.date <= d}
<1>1. CASE before = {}
  <2>1. LatestCheckpoint(a, d) = [balance |-> 0, last |-> 0]
    BY <1>1 DEF LatestCheckpoint
  <2> QED
    BY <2>1
<1>2. CASE before # {}
  <2>1. LatestCheckpoint(a, d) = CHOOSE c \in before : \A b \in before : b.date <= c.date
    BY <1>2 DEF LatestCheckpoint
  <2>2. \A c : c \in before <=> c \in checkpoints /\ c.acct = a /\ c.date <= d
    OBVIOUS
  <2>3. \A c \in checkpoints : c.date \in Int /\ c.last \in Nat /\ c.balance \in Int
    BY DEF IsCheckpoints, CheckpointType
  <2> DEFINE dates == {c.date : c \in before}
  <2>4. dates \subseteq Int /\ dates # {} /\ \A s \in dates : s <= d
    BY <1>2, <2>2, <2>3
  <2>5. \A c \in before : c.date \in dates
    OBVIOUS
  <2>6. \A s \in dates : \E c \in before : s = c.date
    OBVIOUS
  <2> HIDE DEF dates, before
  <2>7. Max(dates) \in dates /\ \A s \in dates : s <= Max(dates)
    BY <2>4, MaxFacts
  <2>8. \E c \in before : \A b \in before : b.date <= c.date
    BY <2>5, <2>6, <2>7
  <2>9. LatestCheckpoint(a, d) \in before
    BY <2>1, <2>8
  <2> QED
    BY <2>2, <2>3, <2>9
<1> QED
  BY <1>1, <1>2

\* A ledger balance is an integer.
LEMMA LedgerTyped ==
    ASSUME IsLog(log), IsCheckpoints(checkpoints), NEW a, NEW d \in Int
    PROVE  LedgerBalance(a, d) \in Int
<1>1. PICK c : c = LatestCheckpoint(a, d) /\ c.balance \in Int /\ c.last \in Nat
  BY LatestFacts
<1>2. LedgerBalance(a, d) = c.balance + SumOf(log, AboveOf(log, a, Len(log), d, c.last))
  BY <1>1 DEF LedgerBalance, Total, Entries, AboveOf, IdsOf
<1>3. PICK n \in Nat : n = Len(log) /\ n <= Len(log)
  BY DEF IsLog
<1>4. AboveOf(log, a, n, d, c.last) \subseteq IdsOf(log, a, n, d)
  BY DEF AboveOf
<1>5. SumOf(log, AboveOf(log, a, n, d, c.last)) \in Int
  BY <1>3, <1>4, IdsFacts
<1> QED
  BY <1>1, <1>2, <1>3, <1>5

\* int64 arithmetic stays in int64, and does nothing to an int64.
LEMMA WrapFacts ==
    ASSUME NEW x \in Int
    PROVE  /\ Wrap64(x) \in Int
           /\ 0 <= x /\ x <= MaxMinor => Wrap64(x) = x
<1>1. PICK k \in Nat : k = MaxMinor /\ k > 0
  BY EodAssumption
<1>2. Wrap64(x) = ((x + k + 1) % (2 * k + 2)) - k - 1
  BY <1>1 DEF Wrap64
<1>3. (x + k + 1) % (2 * k + 2) \in Int
  BY <1>1
<1>4. ASSUME 0 <= x, x <= k PROVE (x + k + 1) % (2 * k + 2) = x + k + 1
  BY <1>1, <1>4, SMT
<1> QED
  BY <1>1, <1>2, <1>3, <1>4

\* Ties to even is the nearest integer, for what a year of 365 or 366 days divides.
EvenOf(size, den) ==
    IF 2 * (size % den) > den \/ (2 * (size % den) = den /\ (size \div den) % 2 # 0)
    THEN size \div den + 1 ELSE size \div den

\* RoundHalfEven is the nearest integer, the even one of two.
LEMMA RoundFacts ==
    ASSUME NEW num \in Int, NEW den \in {3650000, 3660000}
    PROVE  /\ RoundHalfEven(num, den) \in Int
           /\ 0 <= num => RoundHalfEven(num, den) = Nearest(num, den)
<1>1. RoundHalfEven(num, den) = IF num < 0 THEN -EvenOf(-num, den) ELSE EvenOf(num, den)
  BY DEF RoundHalfEven, Rounded, EvenOf
<1>2. ASSUME NEW size \in Nat PROVE EvenOf(size, den) \in Int
  BY SMT DEF EvenOf
<1>3. ASSUME 0 <= num PROVE EvenOf(num, den) = Nearest(num, den)
  <2>1. PICK q \in Int, r \in Nat : /\ q = num \div den /\ r = num % den
                                    /\ num = q * den + r /\ r < den
    <3>1. CASE den = 3650000
      BY <3>1, SMT
    <3>2. CASE den = 3660000
      BY <3>2, SMT
    <3> QED
      BY <3>1, <3>2
  <2> DEFINE Near(k) == \/ 2 * (num - k * den) < den /\ -(2 * (num - k * den)) < den
                        \/ 2 * (num - k * den) \in {den, -den} /\ k % 2 = 0
  <2>2. Nearest(num, den) = CHOOSE k \in q .. q + 1 : Near(k)
    BY <2>1 DEF Nearest
  <2>3. EvenOf(num, den) = IF 2 * r > den \/ (2 * r = den /\ q % 2 # 0) THEN q + 1 ELSE q
    BY <2>1 DEF EvenOf
  <2>4. num - q * den = r /\ num - (q + 1) * den = r - den
    <3>1. CASE den = 3650000
      BY <2>1, <3>1, SMT
    <3>2. CASE den = 3660000
      BY <2>1, <3>2, SMT
    <3> QED
      BY <3>1, <3>2
  <2>5. Near(q) <=> 2 * r < den \/ (2 * r = den /\ q % 2 = 0)
    <3>1. Near(q) <=> \/ 2 * r < den /\ -(2 * r) < den
                      \/ 2 * r \in {den, -den} /\ q % 2 = 0
      BY <2>4
    <3> QED
      BY <2>1, <3>1, SMT
  <2>6. Near(q + 1) <=> 2 * r > den \/ (2 * r = den /\ (q + 1) % 2 = 0)
    <3>1. Near(q + 1) <=> \/ 2 * (r - den) < den /\ -(2 * (r - den)) < den
                          \/ 2 * (r - den) \in {den, -den} /\ (q + 1) % 2 = 0
      BY <2>4
    <3> QED
      BY <2>1, <3>1, SMT
  <2> HIDE DEF Near
  <2>7. (q + 1) % 2 = 0 <=> q % 2 # 0
    BY SMT
  <2>8. CASE 2 * r > den \/ (2 * r = den /\ q % 2 # 0)
    <3>1. Near(q + 1) /\ ~Near(q)
      BY <2>1, <2>5, <2>6, <2>7, <2>8, SMT
    <3>2. \A k \in q .. q + 1 : Near(k) <=> k = q + 1
      BY <3>1
    <3>3. (CHOOSE k \in q .. q + 1 : Near(k)) = q + 1
      BY <3>2
    <3> QED
      BY <2>2, <2>3, <2>8, <3>3
  <2>9. CASE ~(2 * r > den \/ (2 * r = den /\ q % 2 # 0))
    <3>1. Near(q) /\ ~Near(q + 1)
      BY <2>1, <2>5, <2>6, <2>7, <2>9, SMT
    <3>2. \A k \in q .. q + 1 : Near(k) <=> k = q
      BY <3>1
    <3>3. (CHOOSE k \in q .. q + 1 : Near(k)) = q
      BY <3>2
    <3> QED
      BY <2>2, <2>3, <2>9, <3>3
  <2> QED
    BY <2>8, <2>9
<1>4. RoundHalfEven(num, den) \in Int
  <2>1. CASE num < 0
    <3>1. PICK size \in Nat : size = -num
      BY <2>1
    <3> QED
      BY <1>1, <1>2, <2>1, <3>1
  <2>2. CASE ~(num < 0)
    <3>1. num \in Nat
      BY <2>2
    <3> QED
      BY <1>1, <1>2, <2>2, <3>1
  <2> QED
    BY <2>1, <2>2
<1> QED
  BY <1>1, <1>3, <1>4

\* The days of the year that interest is computed with.
LEMMA YearDaysFacts ==
    ASSUME today \in Int
    PROVE  /\ DayCountFraction(first, AddDays(first, 1), BasisFor(first)).den = YearDays(today)
           /\ YearDays(today) \in {365, 366}
<1>1. PICK y \in Int : y = Year(prevMonthEnd) /\ y = Year(first) /\ y = Year(FirstOf(today) - 1)
  <2>1. first = FirstOf(prevMonthEnd) /\ prevMonthEnd \in Int /\ prevMonthEnd = FirstOf(today) - 1
    BY RunDays
  <2> QED
    BY <2>1, FirstOfFacts
<1>2. PICK leap \in {0, 1}, n \in Int : leap = Leap(y) /\ n = NewYear(y)
  BY NextNewYear DEF Leap
<1>3. Date(y, 2, 1) = n + 31 /\ Date(y, 3, 1) = n + 59 + leap
  <2>1. PICK m \in 1 .. 12 : m = 2
    OBVIOUS
  <2>2. Date(y, m, 1) = n + Before(m, leap) /\ Date(y, m + 1, 1) = n + Before(m + 1, leap)
    BY <1>2, FirstDays
  <2> QED
    BY <2>1, <2>2, SMT DEF Before
<1>4. YearDays(today) = 365 + leap
  BY <1>1, <1>3, SMT DEF YearDays
<1>5. IsLeapYear(y) <=> leap = 1
  BY <1>2 DEF Leap
<1>6. DaysInYear(y) = 365 + leap
  BY <1>5, SMT DEF DaysInYear
<1>7. DayCountFraction(first, AddDays(first, 1), BasisFor(first)).den =
          IF IsLeapYear(y) THEN DaysInYear(y) ELSE 365
  BY <1>1 DEF DayCountFraction, BasisFor
<1> QED
  BY <1>4, <1>5, <1>6, <1>7, SMT

\* The interest that a sum earns.
LEMMA InterestFacts ==
    ASSUME NEW sum \in Int, NEW a, NEW den \in {365, 366}
    PROVE  /\ InterestFor(sum, Product(a).rate, den) \in Int
           /\ sum >= 0 /\ sum * Product(a).rate <= MaxMinor =>
                  InterestFor(sum, Product(a).rate, den) = Nearest(sum * Product(a).rate, 10000 * den)
<1>1. PICK rate \in Nat : rate = Product(a).rate /\ rate \in {0, 325}
  BY ProductFacts
<1>2. PICK div \in {3650000, 3660000} : div = 10000 * den
  <2>1. 10000 * den \in {3650000, 3660000}
    BY SMT
  <2> QED
    BY <2>1
<1>3. PICK num \in Int : num = sum * rate
  OBVIOUS
<1>4. /\ Wrap64(num) \in Int
      /\ 0 <= num /\ num <= MaxMinor => Wrap64(num) = num
  BY WrapFacts
<1>5. /\ RoundHalfEven(Wrap64(num), div) \in Int
      /\ 0 <= num => RoundHalfEven(num, div) = Nearest(num, div)
  BY <1>4, RoundFacts
<1>6. InterestFor(sum, rate, den) =
          IF rate = 0 \/ sum = 0 THEN 0 ELSE RoundHalfEven(Wrap64(num), div)
  BY <1>2, <1>3 DEF InterestFor
<1>7. ASSUME sum >= 0, num <= MaxMinor
      PROVE  InterestFor(sum, rate, den) = Nearest(num, div)
  <2>1. 0 <= num
    BY <1>1, <1>3, <1>7, SMT
  <2>2. RoundHalfEven(Wrap64(num), div) = Nearest(num, div)
    BY <1>4, <1>5, <1>7, <2>1
  <2>3. CASE rate = 0 \/ sum = 0
    <3>1. num = 0
      BY <1>1, <1>3, <2>3, SMT
    <3>2. RoundHalfEven(num, div) = 0
      BY <3>1, SMT DEF RoundHalfEven, Rounded
    <3> QED
      BY <1>5, <1>6, <2>1, <2>3, <3>2
  <2>4. CASE ~(rate = 0 \/ sum = 0)
    BY <1>6, <2>2, <2>4
  <2> QED
    BY <2>3, <2>4
<1>8. InterestFor(sum, rate, den) \in Int
  BY <1>5, <1>6
<1> QED
  BY <1>1, <1>2, <1>3, <1>7, <1>8

\* The month before a first is the one that its eve is in.
LEMMA MonthBefore ==
    ASSUME NEW t \in Int, NEW f \in Int, f = FirstOf(t)
    PROVE  /\ FirstBefore(t) \in Int /\ FirstBefore(t) <= f - 1
           /\ FirstBefore(t) = IF Month(f) = 1 THEN Date(Year(f) - 1, 12, 1)
                               ELSE Date(Year(f), Month(f) - 1, 1)
<1>1. PICK y \in Int, m \in 1 .. 12 : y = Year(f) /\ m = Month(f) /\ f = Date(y, m, 1)
  BY FirstOfFacts DEF FirstOf
<1>2. PICK e \in Int : e = f - 1
  OBVIOUS
<1>3. FirstBefore(t) = FirstOf(e)
  BY <1>2 DEF FirstBefore
<1>4. FirstOf(e) \in Int /\ FirstOf(e) <= e
  BY FirstOfFacts
<1>5. CASE m = 1
  <2>1. PICK z \in Int, k \in 1 .. 12 : z = y - 1 /\ k = 12
    OBVIOUS
  <2>2. Date(z, k, 1) <= e /\ e < Date(z, k + 1, 1)
    <3>1. /\ Leap(z) \in {0, 1} /\ NewYear(z) \in Int
          /\ Date(z, k, 1) = NewYear(z) + Before(k, Leap(z))
          /\ Date(z, k + 1, 1) = NewYear(z) + Before(k + 1, Leap(z))
          /\ NewYear(z + 1) = NewYear(z) + 365 + Leap(z)
      BY FirstDays
    <3>2. PICK leap \in {0, 1}, n \in Int : leap = Leap(z) /\ n = NewYear(z)
      BY <3>1
    <3>3. Before(k, leap) = 334 + leap /\ Before(k + 1, leap) = 365 + leap
      BY <2>1, SMT DEF Before
    <3>4. NewYear(y) = f
      <4>1. /\ NewYear(y) \in Int /\ Leap(y) \in {0, 1}
            /\ Date(y, m, 1) = NewYear(y) + Before(m, Leap(y))
        BY FirstDays
      <4>2. Before(m, Leap(y)) = 0
        BY <1>5, <4>1, SMT DEF Before
      <4> QED
        BY <1>1, <4>1, <4>2
    <3>5. z + 1 = y
      BY <2>1
    <3>6. f = n + 365 + leap
      BY <3>1, <3>2, <3>4, <3>5
    <3>7. Date(z, k, 1) = n + 334 + leap /\ Date(z, k + 1, 1) = n + 365 + leap
      BY <3>1, <3>2, <3>3
    <3> QED
      BY <1>2, <3>6, <3>7, SMT
  <2>3. Year(e) = z /\ Month(e) = k
    BY <2>2, Civil
  <2> QED
    BY <1>1, <1>2, <1>3, <1>4, <1>5, <2>1, <2>3 DEF FirstOf
<1>6. CASE m # 1
  <2>1. PICK k \in 1 .. 12 : k = m - 1 /\ k + 1 = m
    BY <1>6
  <2>2. Date(y, k, 1) <= e /\ e < Date(y, k + 1, 1)
    <3>1. /\ Leap(y) \in {0, 1} /\ NewYear(y) \in Int
          /\ Date(y, k, 1) = NewYear(y) + Before(k, Leap(y))
          /\ Date(y, k + 1, 1) = NewYear(y) + Before(k + 1, Leap(y))
      BY FirstDays
    <3>2. /\ Before(k, Leap(y)) \in Nat /\ Before(k + 1, Leap(y)) \in Nat
          /\ Before(k, Leap(y)) + 28 <= Before(k + 1, Leap(y))
      BY <3>1, BeforeGrows
    <3> QED
      BY <1>1, <1>2, <2>1, <3>1, <3>2
  <2>3. Year(e) = y /\ Month(e) = k
    BY <2>2, Civil
  <2> QED
    BY <1>1, <1>2, <1>3, <1>4, <1>6, <2>1, <2>3 DEF FirstOf
<1> QED
  BY <1>5, <1>6

\* What PostInterest does.
LEMMA PostInterestFacts ==
    ASSUME Types, PlaceOf(run, today, eod), PostInterest,
           NEW a, a = Accounts[run.i], NEW m,
           m = InterestFor(run.sum, Product(a).rate, YearDays(today)),
           NEW key, key = <<"interest", FirstBefore(today)>>
    PROVE  /\ m \in Int /\ a \in Range(Accounts) /\ a # Suspense
           /\ IsLog(log') /\ Extends(log, log') /\ Stamped(log, log', 0)
           /\ \/ log' = log
              \/ \E id \in Nat \ {0}, read \in [seen : Nat, at : Nat] :
                     /\ read.seen = run.seen
                     /\ Adds2(log, log', Entry(a, m, FirstOf(today), key, id, read),
                                         Entry(Suspense, -m, FirstOf(today), key, id, read))
           /\ m # 0 => KeyIn(log', a, key)
           /\ InterestFrom(run', today, run.i + 1, FirstBefore(today), Len(log'))
<1>1. /\ today \in Int /\ run.sum \in Int /\ run.seen \in Nat /\ run.i \in Nat /\ IsLog(log)
  BY DEF Types, RunType
<1>2. /\ calendarFirst = FirstOf(today) /\ FirstOf(today) \in Int
      /\ first = FirstBefore(today) /\ FirstBefore(today) \in Int
  BY <1>1, RunDays DEF FirstBefore
<1>3. run.pc = "interest" /\ run.i \in Earning
  BY DEF PostInterest, PlaceOf
<1>4. a \in Range(Accounts) /\ a # Suspense
  BY <1>3, PlacesFacts, SuspenseFacts
<1>5. DayCountFraction(first, AddDays(first, 1), BasisFor(first)).den = YearDays(today)
      /\ YearDays(today) \in {365, 366}
  BY <1>1, YearDaysFacts
<1>6. m \in Int
  BY <1>1, <1>5, InterestFacts
<1>7. PICK id \in Nat \ {0} : id = NextID
  BY <1>1 DEF NextID, IsLog
<1>8. PICK read \in [seen : Nat, at : Nat] :
          read = Read(run.seen, 0) /\ read.seen = run.seen /\ read.at = 0
  <2>1. PICK z \in Nat, n \in Nat : z = 0 /\ n = run.seen
    BY <1>1
  <2> QED
    BY <2>1, ReadTyped
<1>9. log' = IF m = 0 THEN log ELSE Posted(a, m, FirstOf(today), key, id, read)
  BY <1>2, <1>5, <1>7, <1>8 DEF PostInterest, InterestKey
<1>10. key \in {"customer", "interest", "fee"} \X Int /\ key # Customer
  BY <1>2 DEF Customer
<1>11. run' = InterestPhase(run.i + 1)
  BY DEF PostInterest
<1>12. InterestFrom(run', today, run.i + 1, FirstBefore(today), Len(log'))
  <2>1. PICK j \in Nat : j = run.i + 1
    BY <1>1
  <2>2. InterestFrom(InterestPhase(j), today, j, first, Len(log'))
    BY PhaseFacts
  <2> QED
    BY <1>2, <1>11, <2>1, <2>2
<1>13. CASE m = 0
  BY <1>1, <1>4, <1>6, <1>9, <1>12, <1>13 DEF Extends, Stamped
<1>14. CASE m # 0
  <2>1. /\ IsLog(log') /\ Extends(log, log') /\ Stamped(log, log', read.at)
        /\ \/ log' = log
           \/ Adds2(log, log', Entry(a, m, FirstOf(today), key, id, read),
                               Entry(Suspense, -m, FirstOf(today), key, id, read))
        /\ KeyIn(log', a, key)
    BY <1>1, <1>2, <1>4, <1>6, <1>9, <1>10, <1>14, PostedFacts
  <2>2. \/ log' = log
        \/ \E id_1 \in Nat \ {0}, read_1 \in [seen : Nat, at : Nat] :
               /\ read_1.seen = run.seen
               /\ Adds2(log, log', Entry(a, m, FirstOf(today), key, id_1, read_1),
                                   Entry(Suspense, -m, FirstOf(today), key, id_1, read_1))
    BY <1>8, <2>1, Zenon
  <2> QED
    BY <1>4, <1>6, <1>8, <1>12, <2>1, <2>2
<1> QED
  BY <1>13, <1>14

\* What is charged on a balance.
FeeOf(a, available) ==
    Product(a).fee + (IF Product(a).minFee > 0 /\ available < Product(a).min
                      THEN Product(a).minFee ELSE 0)

\* What PostFee does to the log and to the run.
LEMMA PostFeeFacts ==
    ASSUME Types, PlaceOf(run, today, eod), PostFee,
           NEW a, a = Accounts[run.i], NEW m, m = FeeOf(a, run.ledger),
           NEW key, key = <<"fee", today>>
    PROVE  /\ m \in Nat /\ a \in Range(Accounts) /\ a # Suspense
           /\ IsLog(log') /\ Extends(log, log') /\ Stamped(log, log', run.at)
           /\ \/ log' = log
              \/ \E id \in Nat \ {0}, read \in [seen : Nat, at : Nat] :
                     /\ read.seen = run.seen /\ read.at = run.at
                     /\ Adds2(log, log', Entry(a, -m, today, key, id, read),
                                         Entry(Suspense, -(-m), today, key, id, read))
           /\ KeyIn(log', a, key)
           /\ FeesFrom(run', today, run.i + 1, FirstBefore(today), Len(log'))
           /\ isMonthEnd(today)
<1>1. /\ today \in Int /\ run.seen \in Nat /\ run.at \in Nat /\ run.i \in Nat /\ IsLog(log)
  BY DEF Types, RunType
<1>2. first = FirstBefore(today) /\ FirstBefore(today) \in Int
  BY <1>1, RunDays DEF FirstBefore
<1>3. run.pc = "assess" /\ run.i \in Paying /\ isMonthEnd(today)
  BY DEF PostFee, PlaceOf
<1>4. a \in Range(Accounts) /\ a # Suspense
  BY <1>3, PlacesFacts, SuspenseFacts
<1>5. m \in Nat /\ m # 0
  <2>1. Product(a).fee # 0 \/ Product(a).minFee > 0
    BY <1>3 DEF Paying
  <2>2. Product(a).fee \in Nat /\ Product(a).fee > 0 /\ Product(a).minFee \in Nat
    BY <2>1, ProductFacts, SMT
  <2> QED
    BY <2>2 DEF FeeOf
<1>6. PICK id \in Nat \ {0} : id = NextID
  BY <1>1 DEF NextID, IsLog
<1>7. PICK read \in [seen : Nat, at : Nat] :
          read = Read(run.seen, run.at) /\ read.seen = run.seen /\ read.at = run.at
  <2>1. PICK k \in Nat, n \in Nat : k = run.at /\ n = run.seen
    BY <1>1
  <2> QED
    BY <2>1, ReadTyped
<1>8. log' = IF m = 0 THEN log ELSE Posted(a, -m, today, key, id, read)
  BY <1>6, <1>7 DEF PostFee, FeeOf
<1>9. key \in {"customer", "interest", "fee"} \X Int /\ key # Customer
  BY <1>1 DEF Customer
<1>10. run' = FeePhase(run.i + 1)
  BY DEF PostFee
<1>11. FeesFrom(run', today, run.i + 1, FirstBefore(today), Len(log'))
  <2>1. PICK j \in Nat : j = run.i + 1
    BY <1>1
  <2>2. FeesFrom(FeePhase(j), today, j, first, Len(log'))
    BY PhaseFacts
  <2> QED
    BY <1>2, <1>10, <2>1, <2>2
<1>12. PICK o \in Int : o = -m /\ o # 0
  BY <1>5
<1>13. log' = Posted(a, o, today, key, id, read)
  BY <1>5, <1>8, <1>12
<1>14. /\ IsLog(log') /\ Extends(log, log') /\ Stamped(log, log', read.at)
       /\ \/ log' = log
          \/ Adds2(log, log', Entry(a, o, today, key, id, read),
                              Entry(Suspense, -o, today, key, id, read))
       /\ KeyIn(log', a, key)
  BY <1>1, <1>4, <1>9, <1>12, <1>13, PostedFacts
<1>15. \/ log' = log
       \/ \E id_1 \in Nat \ {0}, read_1 \in [seen : Nat, at : Nat] :
              /\ read_1.seen = run.seen /\ read_1.at = run.at
              /\ Adds2(log, log', Entry(a, -m, today, key, id_1, read_1),
                                  Entry(Suspense, -(-m), today, key, id_1, read_1))
  BY <1>7, <1>12, <1>14, Zenon
<1> QED
  BY <1>3, <1>4, <1>5, <1>7, <1>11, <1>14, <1>15

\* What CustomerPost does.
LEMMA CustomerPostFacts ==
    ASSUME Types, NEW a \in Range(Accounts) \ {Suspense}, NEW m \in PostAmounts,
           CustomerPost(a, m)
    PROVE  /\ IsLog(log') /\ Extends(log, log') /\ Stamped(log, log', 0)
           /\ \E d \in Int, o \in Int, id \in Nat \ {0}, read \in [seen : Nat, at : Nat] :
                  Adds2(log, log', Entry(a, m, d, Customer, id, read),
                                   Entry(Suspense, o, d, Customer, id, read))
<1>1. today \in Int /\ IsLog(log) /\ win \in Windows /\ win.from <= today
      /\ today <= win.from + win.days
  BY DEF Types
<1>2. PICK d : /\ d \in {BusinessDateFor(today, b) : b \in BOOLEAN}
                          \cup {today + n : n \in Offsets}
               /\ \E id \in {NextID - n : n \in Lags} :
                      id > 0 /\ log' = Posted(a, m, d, Customer, id, Read(0, 0))
  BY DEF CustomerPost
<1>3. d \in Int
  <2>1. ASSUME NEW n \in Offsets PROVE today + n \in Int
    BY <1>1, EodAssumption
  <2>2. \A s \in today + 1 .. today + 10 : Year(s) \in Years
    <3>1. win.from \in Int /\ win.days \in Nat
      BY <1>1, EodAssumption
    <3>2. \A s \in today + 1 .. today + 10 :
              s \in Int /\ win.from - 31 <= s /\ s <= win.from + win.days + 31
      BY <1>1, <3>1
    <3> QED
      BY <1>1, <3>2, Covered
  <2>3. NextBusinessDay(today) \in today + 1 .. today + 10
    BY <1>1, <2>2, NextBusinessDayFacts
  <2>4. NextBusinessDay(today) \in Int
    BY <1>1, <2>3
  <2>5. ASSUME NEW b \in BOOLEAN PROVE BusinessDateFor(today, b) \in Int
    BY <1>1, <2>4 DEF BusinessDateFor
  <2> QED
    BY <1>2, <2>1, <2>5
<1>4. m \in Int /\ Customer \in {"customer", "interest", "fee"} \X Int
  BY EodAssumption DEF Customer
<1>5. PICK id \in Nat \ {0} : log' = Posted(a, m, d, Customer, id, Read(0, 0))
  <2>1. PICK id \in {NextID - n : n \in Lags} :
            id > 0 /\ log' = Posted(a, m, d, Customer, id, Read(0, 0))
    BY <1>2
  <2>2. PICK n \in Lags : id = NextID - n
    BY <2>1
  <2>3. n \in Nat /\ NextID \in Nat
    BY <1>1, EodAssumption DEF NextID, IsLog
  <2>4. id \in Nat \ {0}
    BY <2>1, <2>2, <2>3
  <2> QED
    BY <2>1, <2>4
<1>6. PICK read \in [seen : Nat, at : Nat] : read = Read(0, 0) /\ read.at = 0
  <2>1. PICK z \in Nat : z = 0
    OBVIOUS
  <2> QED
    BY <2>1, ReadTyped
<1>7. PICK key : key = Customer
  OBVIOUS
<1>8. PICK o \in Int : o = -m
  BY <1>4
<1>9. /\ IsLog(log') /\ Extends(log, log') /\ Stamped(log, log', read.at)
      /\ \/ log' = log /\ key # Customer
         \/ Adds2(log, log', Entry(a, m, d, key, id, read), Entry(Suspense, -m, d, key, id, read))
  <2>1. log' = Posted(a, m, d, key, id, read)
    BY <1>5, <1>6, <1>7
  <2>2. a \in Range(Accounts) /\ key \in {"customer", "interest", "fee"} \X Int
    BY <1>4, <1>7
  <2> QED
    BY <1>1, <1>3, <1>4, <1>7, <2>1, <2>2, PostedFacts
<1>10. Adds2(log, log', Entry(a, m, d, Customer, id, read), Entry(Suspense, o, d, Customer, id, read))
  BY <1>7, <1>8, <1>9
<1> QED
  BY <1>3, <1>6, <1>8, <1>9, <1>10

\* What the steps do to holds: their terms stay, an open one may be closed after
\* the first k actions, and a new one is placed after them.
HoldsKept(hs, gs, k) ==
    /\ Len(hs) <= Len(gs)
    /\ \A n \in 1 .. Len(hs) :
           /\ gs[n].acct = hs[n].acct /\ gs[n].amount = hs[n].amount
           /\ gs[n].expires = hs[n].expires /\ gs[n].placed = hs[n].placed
           /\ gs[n].closed = hs[n].closed \/ (hs[n].closed = 0 /\ gs[n].closed > k)
           /\ hs[n].released # "no" => gs[n].released # "no"
    /\ \A n \in Len(hs) + 1 .. Len(gs) : gs[n].placed > k

\* The holds that were open after the first k actions, and their sum, stay so.
LEMMA HeldKept ==
    ASSUME NEW hs, IsHolds(hs), NEW gs, IsHolds(gs), NEW k \in Nat, HoldsKept(hs, gs, k),
           NEW j \in Nat, j <= k, NEW a, NEW d
    PROVE  HeldAt(gs, a, d, j) = HeldAt(hs, a, d, j)
           /\ SumOf(gs, HeldAt(gs, a, d, j)) = SumOf(hs, HeldAt(hs, a, d, j))
<1>1. PICK n \in Nat, m \in Nat : n = Len(hs) /\ m = Len(gs) /\ n <= m
  BY DEF IsHolds, HoldsKept
<1>2. ASSUME NEW i \in 1 .. n
      PROVE  /\ hs[i].closed \in Nat /\ gs[i].closed \in Nat /\ gs[i].placed = hs[i].placed
             /\ gs[i].acct = hs[i].acct /\ gs[i].amount = hs[i].amount
             /\ gs[i].expires = hs[i].expires
             /\ gs[i].closed = hs[i].closed \/ (hs[i].closed = 0 /\ gs[i].closed > k)
  <2>1. i \in 1 .. m /\ hs[i] \in HoldType /\ gs[i] \in HoldType
    BY <1>1 DEF IsHolds
  <2> QED
    BY <1>1, <2>1 DEF HoldsKept, HoldType
<1>3. ASSUME NEW i \in 1 .. m, ~(i \in 1 .. n)
      PROVE  gs[i].placed \in Nat /\ gs[i].placed > k
  <2>1. i \in n + 1 .. m /\ gs[i] \in HoldType
    BY <1>1, <1>3 DEF IsHolds
  <2> QED
    BY <1>1, <2>1 DEF HoldsKept, HoldType
<1>4. ASSUME NEW i
      PROVE  i \in HeldAt(gs, a, d, j) <=> i \in HeldAt(hs, a, d, j)
  <2>1. CASE i \in 1 .. n
    <3>1. i \in 1 .. m
      BY <1>1, <2>1
    <3>2. (gs[i].closed = 0 \/ gs[i].closed > j) <=> (hs[i].closed = 0 \/ hs[i].closed > j)
      BY <1>2, <2>1
    <3> QED
      BY <1>1, <1>2, <2>1, <3>1, <3>2 DEF HeldAt
  <2>2. CASE i \in 1 .. m /\ ~(i \in 1 .. n)
    <3>1. ~(gs[i].placed <= j)
      BY <1>3, <2>2
    <3> QED
      BY <1>1, <2>2, <3>1 DEF HeldAt
  <2>3. CASE ~(i \in 1 .. m) /\ ~(i \in 1 .. n)
    BY <1>1, <2>3 DEF HeldAt
  <2> QED
    BY <2>1, <2>2, <2>3
<1>5. HeldAt(gs, a, d, j) = HeldAt(hs, a, d, j)
  BY <1>4
<1>6. \A i \in HeldAt(hs, a, d, j) : i \in 1 .. n
  BY <1>1 DEF HeldAt
<1>7. \A i \in HeldAt(hs, a, d, j) : gs[i].amount = hs[i].amount
  BY <1>2, <1>6
<1> QED
  BY <1>5, <1>7, SumOfSame

\* What a customer's action adds to the count of them.
LEMMA ActFacts ==
    ASSUME Types, MayAct
    PROVE  acts \in Nat /\ acts' \in Nat /\ acts' = acts + 1 /\ acts' > acts
BY DEF Types, MayAct

\* What PlaceHold does.
LEMMA PlaceHoldFacts ==
    ASSUME Types, NEW a \in Range(Accounts), NEW m \in HoldAmounts, PlaceHold(a, m)
    PROVE  /\ IsHolds(holds') /\ HoldsKept(holds, holds', acts)
           /\ \A n \in 1 .. Len(holds') :
                  \/ n \in 1 .. Len(holds) /\ holds'[n] = holds[n]
                  \/ /\ holds'[n].released = "no" /\ holds'[n].closed = 0
                     /\ holds'[n].placed = acts'
<1>1. today \in Int /\ IsHolds(holds)
  BY DEF Types
<1>2. acts \in Nat /\ acts' \in Nat /\ acts' > acts
  BY ActFacts DEF PlaceHold
<1>3. PICK d \in Int : holds' = Append(holds, [acct |-> a, amount |-> m, expires |-> d,
                                    released |-> "no", placed |-> acts', closed |-> 0])
  <2>1. PICK d \in {today} \cup {today + n : n \in Offsets} :
            holds' = Append(holds, [acct |-> a, amount |-> m, expires |-> d + HoldDays,
                                    released |-> "no", placed |-> acts', closed |-> 0])
    BY DEF PlaceHold
  <2>2. d \in Int /\ HoldDays \in Nat
    BY <1>1, EodAssumption
  <2> QED
    BY <2>1, <2>2
<1>4. PICK h : h = [acct |-> a, amount |-> m, expires |-> d,
                    released |-> "no", placed |-> acts', closed |-> 0]
  OBVIOUS
<1>5. m \in Nat
  BY EodAssumption
<1>6. h \in HoldType /\ h.released = "no" /\ h.placed = acts' /\ h.closed = 0
  BY <1>2, <1>4, <1>5 DEF HoldType
<1>7. holds' = Append(holds, h) /\ holds \in Seq(HoldType)
  BY <1>1, <1>3, <1>4 DEF IsHolds
<1>8. /\ holds' \in Seq(HoldType) /\ Len(holds') = Len(holds) + 1 /\ Len(holds) \in Nat
      /\ \A n \in 1 .. Len(holds) : holds'[n] = holds[n]
      /\ holds'[Len(holds) + 1] = h
  BY <1>6, <1>7, AppendProperties
<1>9. \A n \in 1 .. Len(holds') : n \in 1 .. Len(holds) \/ n = Len(holds) + 1
  BY <1>8
<1>10. HoldsKept(holds, holds', acts)
  <2>1. Len(holds) <= Len(holds')
    BY <1>8
  <2>2. \A n \in Len(holds) + 1 .. Len(holds') : holds'[n].placed > acts
    BY <1>2, <1>6, <1>8
  <2> QED
    BY <1>8, <2>1, <2>2 DEF HoldsKept
<1>11. \A n \in 1 .. Len(holds') :
          \/ n \in 1 .. Len(holds) /\ holds'[n] = holds[n]
          \/ /\ holds'[n].released = "no" /\ holds'[n].closed = 0
             /\ holds'[n].placed = acts'
  BY <1>6, <1>8, <1>9
<1> QED
  BY <1>8, <1>10, <1>11 DEF IsHolds

\* What ReleaseHold does.
LEMMA ReleaseHoldFacts ==
    ASSUME Types, Holding(today, log, holds, run, acts),
           NEW n \in 1 .. Len(holds), ReleaseHold(n)
    PROVE  /\ HoldsKept(holds, holds', acts)
           /\ \A i \in 1 .. Len(holds') :
                  \/ i \in 1 .. Len(holds) /\ holds'[i] = holds[i]
                  \/ /\ i \in 1 .. Len(holds) /\ holds'[i].released = "cancelled"
                     /\ holds'[i].closed = acts' /\ holds'[i].placed = holds[i].placed
<1>1. holds \in Seq(HoldType) /\ Len(holds) \in Nat
  BY DEF Types, IsHolds
<1>2. acts \in Nat /\ acts' \in Nat /\ acts' > acts
  BY ActFacts DEF ReleaseHold
<1>3. PICK h \in HoldType : h = holds[n] /\ h.released = "no" /\ h.closed = 0
  <2>1. holds[n] \in HoldType
    BY <1>1
  <2> QED
    BY <2>1 DEF ReleaseHold, Holding
<1>4. PICK g : g = [h EXCEPT !.released = "cancelled", !.closed = acts']
  OBVIOUS
<1>5. /\ g \in HoldType /\ g.released = "cancelled" /\ g.closed = acts' /\ g.placed = h.placed
      /\ g.acct = h.acct /\ g.amount = h.amount /\ g.expires = h.expires
  BY <1>2, <1>4 DEF HoldType
<1>6. holds' = [holds EXCEPT ![n] = g]
  BY <1>3, <1>4 DEF ReleaseHold
<1>7. /\ Len(holds') = Len(holds) /\ holds'[n] = g
      /\ \A i \in 1 .. Len(holds) : i # n => holds'[i] = holds[i]
  BY <1>1, <1>6
<1>8. ASSUME NEW i \in 1 .. Len(holds)
      PROVE  /\ holds'[i].acct = holds[i].acct /\ holds'[i].amount = holds[i].amount
             /\ holds'[i].expires = holds[i].expires /\ holds'[i].placed = holds[i].placed
             /\ holds'[i].closed = holds[i].closed
                    \/ (holds[i].closed = 0 /\ holds'[i].closed > acts)
             /\ holds[i].released # "no" => holds'[i].released # "no"
             /\ \/ holds'[i] = holds[i]
                \/ /\ holds'[i].released = "cancelled"
                   /\ holds'[i].closed = acts' /\ holds'[i].placed = holds[i].placed
  <2>1. CASE i = n
    BY <1>2, <1>3, <1>5, <1>7, <2>1
  <2>2. CASE i # n
    BY <1>7, <2>2
  <2> QED
    BY <2>1, <2>2
<1>9. HoldsKept(holds, holds', acts)
  <2>1. \A i \in Len(holds) + 1 .. Len(holds') : FALSE
    BY <1>1, <1>7
  <2> QED
    BY <1>1, <1>7, <1>8, <2>1 DEF HoldsKept
<1> QED
  BY <1>7, <1>8, <1>9

\* It leaves holds behind.
LEMMA ReleaseHoldTyped ==
    ASSUME Types, NEW n \in 1 .. Len(holds), ReleaseHold(n)
    PROVE  IsHolds(holds')
<1>1. holds \in Seq(HoldType) /\ Len(holds) \in Nat
  BY DEF Types, IsHolds
<1>2. acts' \in Nat
  BY ActFacts DEF ReleaseHold
<1>3. PICK h \in HoldType : h = holds[n]
  BY <1>1
<1>4. PICK g : g = [h EXCEPT !.released = "cancelled", !.closed = acts']
  OBVIOUS
<1>5. g \in HoldType
  BY <1>2, <1>4 DEF HoldType
<1>6. holds' = [holds EXCEPT ![n] = g]
  BY <1>3, <1>4 DEF ReleaseHold
<1> QED
  BY <1>1, <1>5, <1>6 DEF IsHolds

\* What ExpireDue does.
LEMMA ExpireDueFacts ==
    ASSUME Types, ExpireDue
    PROVE  /\ IsHolds(holds') /\ HoldsKept(holds, holds', acts) /\ Len(holds') = Len(holds)
           /\ \A n \in 1 .. Len(holds) :
                  /\ holds'[n].expires = holds[n].expires /\ holds'[n].expires \in Int
                  /\ holds'[n].placed = holds[n].placed /\ holds'[n].closed = holds[n].closed
                  /\ holds'[n].released = "no" => holds[n].expires > today
                  /\ \/ holds'[n].released = holds[n].released
                     \/ /\ holds[n].released = "no" /\ holds'[n].released = "expired"
                        /\ holds[n].expires <= today
<1>1. holds \in Seq(HoldType) /\ Len(holds) \in Nat /\ today \in Int
  BY DEF Types, IsHolds
<1> DEFINE H(n) == IF holds[n].released = "no" /\ holds[n].expires <= today
                   THEN [holds[n] EXCEPT !.released = "expired"] ELSE holds[n]
<1>2. holds' = [n \in 1 .. Len(holds) |-> H(n)]
  BY DEF ExpireDue
<1>3. ASSUME NEW n \in 1 .. Len(holds)
      PROVE  /\ H(n) \in HoldType
             /\ H(n).acct = holds[n].acct /\ H(n).amount = holds[n].amount
             /\ H(n).expires = holds[n].expires /\ H(n).expires \in Int
             /\ H(n).placed = holds[n].placed /\ H(n).closed = holds[n].closed
             /\ H(n).released = "no" => holds[n].expires > today
             /\ holds[n].released # "no" => H(n).released # "no"
             /\ \/ H(n).released = holds[n].released
                \/ /\ holds[n].released = "no" /\ H(n).released = "expired"
                   /\ holds[n].expires <= today
  <2>1. PICK h \in HoldType : h = holds[n]
    BY <1>1
  <2>2. h.expires \in Int /\ h.released \in {"no", "expired", "cancelled"}
    BY DEF HoldType
  <2>3. CASE h.released = "no" /\ h.expires <= today
    <3>1. H(n) = [h EXCEPT !.released = "expired"]
      BY <2>1, <2>3
    <3>2. PICK k : k = [h EXCEPT !.released = "expired"]
      OBVIOUS
    <3>3. k \in HoldType /\ k.released = "expired" /\ k.acct = h.acct /\ k.amount = h.amount
          /\ k.expires = h.expires /\ k.placed = h.placed /\ k.closed = h.closed
      BY <3>2 DEF HoldType
    <3> QED
      BY <2>1, <2>2, <2>3, <3>1, <3>2, <3>3
  <2>4. CASE ~(h.released = "no" /\ h.expires <= today)
    <3>1. H(n) = h
      BY <2>1, <2>4
    <3> QED
      BY <1>1, <2>1, <2>2, <2>4, <3>1
  <2> QED
    BY <2>3, <2>4
<1> HIDE DEF H
<1>4. holds' \in Seq(HoldType) /\ Len(holds') = Len(holds)
  BY <1>1, <1>2, <1>3
<1>5. \A n \in 1 .. Len(holds) : holds'[n] = H(n)
  BY <1>2
<1>6. HoldsKept(holds, holds', acts)
  <2>1. \A i \in Len(holds) + 1 .. Len(holds') : FALSE
    BY <1>1, <1>4
  <2> QED
    BY <1>1, <1>3, <1>4, <1>5, <2>1 DEF HoldsKept
<1> QED
  BY <1>1, <1>3, <1>4, <1>5, <1>6 DEF IsHolds

\* What InsertCheckpoint does.
LEMMA InsertCheckpointFacts ==
    ASSUME Types, PlaceOf(run, today, eod), InsertCheckpoint, NEW a, a = Accounts[run.i]
    PROVE  /\ IsCheckpoints(checkpoints') /\ checkpoints \subseteq checkpoints'
           /\ \E c \in CheckpointType :
                  /\ c.acct = a /\ c.date = today /\ c.balance = run.ledger /\ c.seen = run.seen
                  /\ \A i \in IdsOf(log, a, Len(log), today) : log[i].id <= c.last
                  /\ \/ /\ checkpoints' = checkpoints
                        /\ \E b \in checkpoints : b.acct = a /\ b.date = today
                     \/ checkpoints' = checkpoints \cup {c}
           /\ CheckpointsFrom(run', run.i + 1, FirstBefore(today), Len(log'))
<1>1. /\ today \in Int /\ run.i \in Nat /\ IsLog(log) /\ IsCheckpoints(checkpoints)
      /\ run.ledger \in Int /\ run.seen \in Nat
  BY DEF Types, RunType
<1>2. first = FirstBefore(today) /\ FirstBefore(today) \in Int
  BY <1>1, RunDays DEF FirstBefore
<1>3. run.pc = "watermark" /\ run.i \in 1 .. Len(Accounts)
  BY DEF InsertCheckpoint, PlaceOf
<1>4. a \in Range(Accounts)
  BY <1>3, SuspenseFacts
<1>5. PICK n \in Nat : n = Len(log)
  BY <1>1 DEF IsLog
<1> DEFINE ids == IdsOf(log, a, n, today)
           S == {0} \cup {log[i].id : i \in ids}
           last == Max(S)
<1>6. last \in Nat /\ \A i \in ids : log[i].id <= last
  <2>1. IsFiniteSet(ids) /\ \A i \in ids : i \in 1 .. n
    <3>1. n <= Len(log)
      BY <1>5
    <3> QED
      BY <1>1, <3>1, IdsFacts DEF IdsOf, Adds
  <2>2. \A i \in ids : log[i].id \in Nat
    BY <1>1, <1>5, <2>1, LogRows
  <2> HIDE DEF ids
  <2>3. S \subseteq Nat /\ S # {} /\ \A i \in ids : log[i].id \in S
    BY <2>2
  <2>4. PICK top \in Nat : \A s \in S : s <= top
    <3>1. IsFiniteSet({log[i].id : i \in ids})
      <4> DEFINE T == {log[i].id : i \in ids}
                 f == [i \in ids |-> log[i].id]
      <4>1. f \in Surjection(ids, T)
        BY DEF Surjection
      <4> HIDE DEF f
      <4>2. IsFiniteSet(T)
        BY <2>1, <4>1, FS_Surjection
      <4> QED
        BY <4>2
    <3>2. IsFiniteSet(S)
      BY <3>1, FS_AddElement
    <3> QED
      BY <2>3, <3>2, FiniteHasGreatest
  <2> HIDE DEF S
  <2>5. Max(S) \in S /\ \A s \in S : s <= Max(S)
    <3>1. top \in Int /\ S \subseteq Int
      BY <2>3, <2>4
    <3> QED
      BY <2>3, <2>4, <3>1, MaxFacts
  <2> QED
    BY <2>3, <2>5
<1>7. PICK c : c = [acct |-> a, date |-> today, last |-> last, balance |-> run.ledger,
                    seen |-> run.seen]
  OBVIOUS
<1>8. /\ c \in CheckpointType /\ c.acct = a /\ c.date = today
      /\ c.balance = run.ledger /\ c.last = last /\ c.seen = run.seen
  <2> HIDE DEF last
  <2> QED
    BY <1>1, <1>4, <1>6, <1>7 DEF CheckpointType
<1>9. checkpoints' = IF \E b \in checkpoints : b.acct = a /\ b.date = today THEN checkpoints
                     ELSE checkpoints \cup {c}
  BY <1>5, <1>7 DEF InsertCheckpoint, Entries, IdsOf
<1>10. IsCheckpoints(checkpoints')
  <2>1. CASE \E b \in checkpoints : b.acct = a /\ b.date = today
    BY <1>1, <1>9, <2>1
  <2>2. CASE ~ \E b \in checkpoints : b.acct = a /\ b.date = today
    <3>1. checkpoints' = checkpoints \cup {c}
      BY <1>9, <2>2
    <3>2. IsFiniteSet(checkpoints \cup {c})
      BY <1>1, FS_AddElement DEF IsCheckpoints
    <3>3. Unique(checkpoints \cup {c})
      BY <1>1, <1>8, <2>2 DEF IsCheckpoints, Unique
    <3> QED
      BY <1>1, <1>8, <3>1, <3>2, <3>3 DEF IsCheckpoints
  <2> QED
    BY <2>1, <2>2
<1>11. CheckpointsFrom(run', run.i + 1, FirstBefore(today), Len(log'))
  <2>1. PICK j \in Nat : j = run.i + 1
    BY <1>1
  <2>2. run' = CheckpointPhase(run.i + 1)
    BY DEF InsertCheckpoint
  <2>3. CheckpointsFrom(CheckpointPhase(j), j, first, Len(log'))
    BY PhaseFacts
  <2> QED
    BY <1>2, <2>1, <2>2, <2>3
<1>12. \A i \in IdsOf(log, a, Len(log), today) : log[i].id <= c.last
  <2> HIDE DEF last
  <2> QED
    BY <1>5, <1>6, <1>8
<1>13. \/ checkpoints' = checkpoints /\ \E b \in checkpoints : b.acct = a /\ b.date = today
       \/ checkpoints' = checkpoints \cup {c}
  BY <1>9
<1>14. checkpoints \subseteq checkpoints'
  BY <1>9
<1> HIDE DEF ids, S, last
<1> QED
  BY <1>8, <1>10, <1>11, <1>12, <1>13, <1>14

\* What ClaimEODRun and FinishEODRun do.
LEMMA ClaimFacts ==
    ASSUME Types, ClaimEODRun
    PROVE  /\ IsRuns(eod') /\ DOMAIN eod' = DOMAIN eod \cup {today}
           /\ eod'[today].status = "claimed" /\ eod'[today].seen = Len(log)
           /\ eod'[today].at = acts
           /\ run' \in RunType /\ run'.pc = "expire" /\ run'.seen = 0 /\ run'.at = 0
<1>1. today \in Int /\ IsRuns(eod) /\ Len(log) \in Nat /\ acts \in Nat
  BY DEF Types, IsLog
<1>2. PICK row : row = [status |-> "claimed", seen |-> Len(log), at |-> acts]
  OBVIOUS
<1>3. eod' = [d \in DOMAIN eod \cup {today} |-> IF d = today THEN row ELSE eod[d]]
  BY <1>2 DEF ClaimEODRun
<1>4. row \in RowType /\ row.status = "claimed" /\ row.seen = Len(log) /\ row.at = acts
  BY <1>1, <1>2 DEF RowType
<1>5. run' = [Idle EXCEPT !.pc = "expire"]
  BY DEF ClaimEODRun
<1>6. run' \in RunType /\ run'.pc = "expire" /\ run'.seen = 0 /\ run'.at = 0
  BY <1>5 DEF Idle, RunType, Phases
<1>7. IsRuns(eod')
  BY <1>1, <1>3, <1>4 DEF IsRuns
<1> QED
  BY <1>3, <1>4, <1>6, <1>7

\* What FinishEODRun does to the row of the day.
LEMMA FinishFacts ==
    ASSUME Types, PlaceOf(run, today, eod), FinishEODRun
    PROVE  /\ IsRuns(eod') /\ DOMAIN eod' = DOMAIN eod /\ today \in DOMAIN eod
           /\ eod'[today].status = "finished" /\ eod'[today].seen = eod[today].seen
           /\ eod'[today].at = eod[today].at
           /\ run' = Idle /\ Idle \in RunType /\ Idle.pc = "idle"
<1>1. today \in DOMAIN eod
  BY DEF PlaceOf, FinishEODRun
<1>2. IsRuns(eod)
  BY DEF Types
<1>3. PICK row \in RowType : row = eod[today]
  BY <1>1, <1>2 DEF IsRuns
<1>4. PICK done : done = [row EXCEPT !.status = "finished"]
  OBVIOUS
<1>5. done \in RowType /\ done.status = "finished" /\ done.seen = row.seen /\ done.at = row.at
  BY <1>4 DEF RowType
<1>6. eod' = [eod EXCEPT ![today] = done]
  BY <1>3, <1>4 DEF FinishEODRun
<1>7. DOMAIN eod' = DOMAIN eod /\ \A d \in DOMAIN eod : eod'[d] = IF d = today THEN done ELSE eod[d]
  BY <1>6
<1>8. IsRuns(eod')
  BY <1>2, <1>5, <1>7 DEF IsRuns
<1>9. run' = Idle /\ Idle \in RunType /\ Idle.pc = "idle"
  BY DEF FinishEODRun, Idle, RunType, Phases
<1> QED
  BY <1>1, <1>3, <1>5, <1>7, <1>8, <1>9

\* A run at rest has read nothing.
LEMMA IdleFacts == Idle \in RunType /\ Idle.pc = "idle" /\ Idle.seen = 0 /\ Idle.at = 0
BY DEF Idle, RunType, Phases

\* What SumDay does to the run.
LEMMA SumDayFacts ==
    ASSUME Types, SumDay
    PROVE  /\ run' \in RunType /\ run'.pc = "interest" /\ run'.i = run.i /\ run'.seen = run.seen
           /\ run'.at = run.at
           /\ run'.day = run.day + 1 /\ run.day \in Int /\ run.day <= FirstOf(today) - 1
           /\ run'.sum = IF LedgerBalance(Accounts[run.i], run.day) > 0
                         THEN Wrap64(run.sum + LedgerBalance(Accounts[run.i], run.day)) ELSE run.sum
           /\ LedgerBalance(Accounts[run.i], run.day) \in Int
<1>1. /\ today \in Int /\ run \in RunType /\ IsLog(log) /\ IsCheckpoints(checkpoints)
  BY DEF Types
<1>2. run.pc = "interest" /\ run.day <= FirstOf(today) - 1
  BY <1>1, RunDays DEF SumDay
<1>3. run.day \in Int /\ run.sum \in Int
  BY <1>1 DEF RunType
<1>4. PICK bal \in Int : bal = LedgerBalance(Accounts[run.i], run.day)
  BY <1>1, <1>3, LedgerTyped
<1>5. PICK sum \in Int : sum = IF bal > 0 THEN Wrap64(run.sum + bal) ELSE run.sum
  <2>1. PICK x \in Int : x = run.sum + bal
    BY <1>3
  <2>2. Wrap64(x) \in Int
    BY WrapFacts
  <2> QED
    BY <1>3, <2>1, <2>2
<1>6. PICK day \in Int : day = run.day + 1
  BY <1>3
<1>7. run' = [run EXCEPT !.day = day, !.sum = sum]
  BY <1>4, <1>5, <1>6 DEF SumDay, AddDays
<1>8. /\ run' \in RunType /\ run'.pc = run.pc /\ run'.i = run.i /\ run'.seen = run.seen
      /\ run'.at = run.at /\ run'.day = day /\ run'.sum = sum
  BY <1>1, <1>7 DEF RunType
<1> QED
  BY <1>2, <1>3, <1>4, <1>5, <1>6, <1>8

\* What ReadForFee and ReadBalance do to the run.
LEMMA ReadLedgerFacts ==
    ASSUME Types, ReadForFee \/ ReadBalance
    PROVE  /\ run' \in RunType /\ run'.i = run.i /\ run'.seen = Len(log) /\ run'.at = run.at
           /\ \/ ReadForFee /\ run.pc = "fees" /\ run'.pc = "holds"
              \/ ReadBalance /\ run.pc = "checkpoint" /\ run'.pc = "watermark"
           /\ run'.ledger = LedgerBalance(Accounts[run.i], today)
<1>1. /\ today \in Int /\ run \in RunType /\ IsLog(log) /\ IsCheckpoints(checkpoints)
  BY DEF Types
<1>2. PICK bal \in Int : bal = LedgerBalance(Accounts[run.i], today)
  BY <1>1, LedgerTyped
<1>3. PICK n \in Nat : n = Len(log)
  BY <1>1 DEF IsLog
<1>4. PICK pc : /\ \/ ReadForFee /\ run.pc = "fees" /\ pc = "holds"
                   \/ ReadBalance /\ run.pc = "checkpoint" /\ pc = "watermark"
                /\ run' = [run EXCEPT !.pc = pc, !.seen = n, !.ledger = bal]
  BY <1>2, <1>3 DEF ReadForFee, ReadBalance
<1>5. pc \in Phases
  BY <1>4 DEF Phases
<1>6. /\ run' \in RunType /\ run'.i = run.i /\ run'.seen = n /\ run'.at = run.at
      /\ run'.pc = pc /\ run'.ledger = bal
  BY <1>1, <1>4, <1>5 DEF RunType
<1> QED
  BY <1>2, <1>3, <1>4, <1>6

\* Holds can be summed up.
LEMMA HeldTyped ==
    ASSUME NEW hs, IsHolds(hs), NEW I, I \subseteq 1 .. Len(hs)
    PROVE  SumOf(hs, I) \in Int
<1>1. PICK n \in Nat, one \in Int : n = Len(hs) /\ one = 1
  BY DEF IsHolds
<1>2. IsFiniteSet(one .. n)
  BY FS_Interval
<1>3. IsFiniteSet(I)
  BY <1>1, <1>2, FS_Subset
<1>4. \A i \in I : hs[i].amount \in Int
  <2>1. \A i \in I : hs[i] \in HoldType
    BY DEF IsHolds
  <2> QED
    BY <2>1 DEF HoldType
<1> QED
  BY <1>3, <1>4, RowsAreSummable DEF Adds

\* What ReadHolds does to the run.
LEMMA ReadHoldsFacts ==
    ASSUME Types, ReadHolds
    PROVE  /\ run' \in RunType /\ run'.pc = "assess" /\ run'.i = run.i /\ run'.seen = run.seen
           /\ run'.at = acts /\ run.pc = "holds"
           /\ run'.ledger = run.ledger - OpenHoldTotal(Accounts[run.i], today)
<1>1. run \in RunType /\ IsHolds(holds) /\ acts \in Nat
  BY DEF Types
<1>2. PICK held \in Int : held = OpenHoldTotal(Accounts[run.i], today)
  <2>1. PICK I : /\ I = {n \in Unexpired(Accounts[run.i], today) : holds[n].released = "no"}
                 /\ OpenHoldTotal(Accounts[run.i], today) = SumOf(holds, I)
    BY DEF OpenHoldTotal
  <2>2. I \subseteq 1 .. Len(holds)
    BY <2>1 DEF Unexpired
  <2> QED
    BY <1>1, <2>1, <2>2, HeldTyped
<1>3. PICK left \in Int : left = run.ledger - held
  BY <1>1, <1>2 DEF RunType
<1>4. run' = [run EXCEPT !.pc = "assess", !.at = acts, !.ledger = left] /\ run.pc = "holds"
  BY <1>2, <1>3 DEF ReadHolds
<1>5. "assess" \in Phases
  BY DEF Phases
<1>6. /\ run' \in RunType /\ run'.pc = "assess" /\ run'.i = run.i /\ run'.seen = run.seen
      /\ run'.at = acts /\ run'.ledger = left
  BY <1>1, <1>4, <1>5 DEF RunType
<1> QED
  BY <1>2, <1>3, <1>4, <1>6

-----------------------------------------------------------------------------
\* Part 7.  Type correctness.

\* The postings before the window are customers' postings.
LEMMA OpeningTyped ==
    ASSUME NEW w \in Windows
    PROVE  /\ IsLog(OpeningLog(w))
           /\ \A i \in 1 .. Len(OpeningLog(w)) :
                  OpeningLog(w)[i].key = Customer /\ OpeningLog(w)[i].at = 0
<1>1. PICK n \in Nat : n = Len(Opening)
  BY EodAssumption
<1>2. PICK d \in Int : d = w.from - OpenedBefore
  BY EodAssumption
<1> DEFINE X(i) == IF i % 2 = 1
                   THEN Entry(Opening[(i + 1) \div 2].acct, Opening[(i + 1) \div 2].amount, d,
                              Customer, i, Read(0, 0))
                   ELSE Entry(Suspense, -Opening[(i + 1) \div 2].amount, d, Customer, i - 1,
                              Read(0, 0))
<1>3. OpeningLog(w) = [i \in 1 .. 2 * n |-> X(i)]
  BY <1>1, <1>2 DEF OpeningLog
<1>4. ASSUME NEW i \in 1 .. 2 * n
      PROVE  X(i) \in EntryType /\ X(i).key = Customer /\ X(i).at = 0
  <2>1. PICK k \in 1 .. n : k = (i + 1) \div 2
    <3>1. (i + 1) \div 2 \in Int /\ 2 * ((i + 1) \div 2) <= i + 1 /\ i <= 2 * ((i + 1) \div 2)
      BY SMT
    <3>2. PICK k \in Int : k = (i + 1) \div 2
      BY <3>1
    <3>3. 2 * k <= i + 1 /\ i <= 2 * k /\ 1 <= i /\ i <= 2 * n
      BY <3>1, <3>2
    <3>4. 1 <= k /\ k <= n
      BY <3>3, SMT
    <3> QED
      BY <3>2, <3>4
  <2>2. Opening[k] \in [acct : Range(Accounts) \ {Suspense}, amount : Int]
    <3>1. PICK S : S = [acct : Range(Accounts) \ {Suspense}, amount : Int]
      OBVIOUS
    <3>2. Opening \in Seq(S)
      BY <3>1, EodAssumption
    <3>3. Opening[k] \in S
      BY <1>1, <3>2
    <3> QED
      BY <3>1, <3>3
  <2>3. PICK a \in Range(Accounts), m \in Int : a = Opening[k].acct /\ m = Opening[k].amount
    BY <2>2
  <2>4. PICK o \in Int, key \in {"customer", "interest", "fee"} \X Int :
            o = -m /\ key = Customer
    <3>1. -m \in Int
      OBVIOUS
    <3>2. Customer \in {"customer", "interest", "fee"} \X Int
      BY DEF Customer
    <3> QED
      BY <3>1, <3>2
  <2>5. Suspense \in Range(Accounts)
    BY EodAssumption
  <2>6. PICK read \in [seen : Nat, at : Nat] : read = Read(0, 0) /\ read.at = 0
    <3>1. PICK z \in Nat : z = 0
      OBVIOUS
    <3> QED
      BY <3>1, ReadTyped
  <2>7. CASE i % 2 = 1
    <3>1. i \in Nat \ {0}
      OBVIOUS
    <3>2. PICK x : x = Entry(a, m, d, key, i, read)
      OBVIOUS
    <3>3. x \in EntryType /\ x.key = key /\ x.at = read.at
      BY <3>1, <3>2, EntryTyped
    <3>4. X(i) = x
      BY <2>1, <2>3, <2>4, <2>6, <2>7, <3>2
    <3> QED
      BY <2>4, <2>6, <3>3, <3>4
  <2>8. CASE i % 2 # 1
    <3>1. PICK id \in Nat \ {0} : id = i - 1
      <4>1. i # 1
        BY <2>8, SMT
      <4> QED
        BY <4>1
    <3>2. PICK b \in Range(Accounts) : b = Suspense
      BY <2>5
    <3>5. PICK x : x = Entry(b, o, d, key, id, read)
      OBVIOUS
    <3>3. x \in EntryType /\ x.key = key /\ x.at = read.at
      BY <3>5 DEF Entry, EntryType
    <3>4. X(i) = x
      BY <2>1, <2>3, <2>4, <2>6, <2>8, <3>1, <3>2, <3>5
    <3> QED
      BY <2>4, <2>6, <3>3, <3>4
  <2> QED
    BY <2>7, <2>8
<1> HIDE DEF X
<1>5. PICK l : l = OpeningLog(w)
  OBVIOUS
<1>6. l \in Seq(EntryType) /\ Len(l) = 2 * n
  BY <1>3, <1>4, <1>5
<1>7. \A i \in 1 .. 2 * n : l[i] = X(i)
  BY <1>3, <1>5
<1>8. \A i \in 1 .. Len(l) : l[i].key = Customer /\ l[i].at = 0
  BY <1>4, <1>6, <1>7
<1> QED
  BY <1>5, <1>6, <1>8 DEF IsLog, Charged

\* The types hold before the first day.
LEMMA TypesInit ==
    ASSUME Init
    PROVE  Types /\ PlaceOf(run, today, eod)
<1>1. /\ win \in Windows /\ today = win.from /\ log = OpeningLog(win) /\ holds = <<>>
      /\ checkpoints = {} /\ eod = <<>> /\ run = Idle /\ acts = 0
  BY DEF Init
<1>2. win.from \in Int /\ win.days \in Nat
  BY <1>1, EodAssumption
<1>3. IsLog(log)
  BY <1>1, OpeningTyped
<1>4. IsHolds(holds)
  BY <1>1 DEF IsHolds
<1>5. IsCheckpoints(checkpoints)
  BY <1>1, FS_EmptySet DEF IsCheckpoints, Unique
<1>6. IsRuns(eod)
  BY <1>1 DEF IsRuns
<1>7. run \in RunType /\ run.pc = "idle"
  BY <1>1 DEF Idle, RunType, Phases
<1> QED
  BY <1>1, <1>2, <1>3, <1>4, <1>5, <1>6, <1>7 DEF Types, PlaceOf

\* Every step keeps the types.
LEMMA TypesNext ==
    ASSUME Types, PlaceOf(run, today, eod), Next
    PROVE  Types' /\ PlaceOf(run', today', eod')
<1>1. ASSUME NEW a \in Range(Accounts) \ {Suspense}, NEW m \in PostAmounts, CustomerPost(a, m)
      PROVE  Types' /\ PlaceOf(run', today', eod')
  <2>1. UNCHANGED <<win, today, holds, checkpoints, eod, run>>
    BY <1>1 DEF CustomerPost
  <2>2. IsLog(log') /\ acts' \in Nat
    BY <1>1, CustomerPostFacts, ActFacts DEF CustomerPost
  <2> QED
    BY <2>1, <2>2 DEF Types
<1>2. ASSUME NEW a \in Range(Accounts) \ {Suspense}, NEW m \in HoldAmounts, PlaceHold(a, m)
      PROVE  Types' /\ PlaceOf(run', today', eod')
  <2>1. UNCHANGED <<win, today, log, checkpoints, eod, run>>
    BY <1>2 DEF PlaceHold
  <2>2. IsHolds(holds') /\ acts' \in Nat
    BY <1>2, PlaceHoldFacts, ActFacts DEF PlaceHold
  <2> QED
    BY <2>1, <2>2 DEF Types
<1>17. ASSUME NEW n \in 1 .. Len(holds), ReleaseHold(n)
      PROVE  Types' /\ PlaceOf(run', today', eod')
  <2>1. UNCHANGED <<win, today, log, checkpoints, eod, run>>
    BY <1>17 DEF ReleaseHold
  <2>2. IsHolds(holds') /\ acts' \in Nat
    BY <1>17, ReleaseHoldTyped, ActFacts DEF ReleaseHold
  <2> QED
    BY <2>1, <2>2 DEF Types
<1>3. CASE CallRun
  <2>1. UNCHANGED <<win, today, log, holds, checkpoints, acts>> /\ ClaimEODRun
    BY <1>3 DEF CallRun, ClaimEODRun
  <2>2. /\ IsRuns(eod') /\ DOMAIN eod' = DOMAIN eod \cup {today}
        /\ eod'[today].status = "claimed" /\ run' \in RunType /\ run'.pc = "expire"
    BY <2>1, ClaimFacts
  <2> QED
    BY <2>1, <2>2 DEF Types, PlaceOf
<1>4. CASE ExpireDue
  <2>1. UNCHANGED <<win, today, log, checkpoints, eod, acts>> /\ run' = [run EXCEPT !.pc = "list"]
        /\ run.pc = "expire"
    BY <1>4 DEF ExpireDue
  <2>2. IsHolds(holds')
    BY <1>4, ExpireDueFacts
  <2>3. run' \in RunType /\ run'.pc = "list"
    BY <2>1 DEF Types, RunType, Phases
  <2>4. PlaceOf(run', today', eod')
    BY <2>1, <2>3 DEF PlaceOf
  <2> QED
    BY <2>1, <2>2, <2>3, <2>4 DEF Types
<1>5. ASSUME run.pc # "idle", run' \in RunType /\ PlaceOf(run', today, eod),
             UNCHANGED <<win, today, holds, eod, acts>>, IsLog(log'), IsCheckpoints(checkpoints')
      PROVE  Types' /\ PlaceOf(run', today', eod')
  BY <1>5 DEF Types
<1>6. today \in Int /\ FirstBefore(today) \in Int /\ first = FirstBefore(today) /\ IsLog(log)
      /\ run.i \in Nat /\ IsCheckpoints(checkpoints)
  <2>1. today \in Int
    BY DEF Types
  <2> QED
    BY <2>1, RunDays DEF Types, RunType, FirstBefore
<1>7. ASSUME run.pc # "idle", IsLog(log'), NEW i \in Nat,
             \/ InterestFrom(run', today, i, FirstBefore(today), Len(log'))
             \/ FeesFrom(run', today, i, FirstBefore(today), Len(log'))
             \/ CheckpointsFrom(run', i, FirstBefore(today), Len(log'))
      PROVE  run' \in RunType /\ PlaceOf(run', today, eod)
  <2>1. today \in DOMAIN eod /\ eod[today].status = "claimed"
    BY <1>7 DEF PlaceOf
  <2>2. Len(log') \in Nat
    BY <1>7 DEF IsLog
  <2> QED
    BY <1>6, <1>7, <2>1, <2>2, FromFacts
<1>8. CASE AllAccounts
  <2>1. /\ UNCHANGED <<win, today, log, holds, checkpoints, eod, acts>> /\ run.pc = "list"
        /\ run' = InterestPhase(1) \/ run' = FeePhase(1)
    BY <1>8 DEF AllAccounts
  <2>2. PICK i \in Nat : i = 1
    OBVIOUS
  <2>3. \/ InterestFrom(run', today, i, FirstBefore(today), Len(log'))
        \/ FeesFrom(run', today, i, FirstBefore(today), Len(log'))
    <3>1. /\ FeesFrom(FeePhase(i), today, i, first, Len(log'))
          /\ InterestFrom(InterestPhase(i), today, i, first, Len(log'))
      BY PhaseFacts
    <3> QED
      BY <1>6, <2>1, <2>2, <3>1
  <2>4. run' \in RunType /\ PlaceOf(run', today, eod)
    BY <1>6, <1>7, <2>1, <2>3
  <2> QED
    BY <1>5, <1>6, <2>1, <2>4
<1>9. CASE SumDay
  <2>1. UNCHANGED <<win, today, log, holds, checkpoints, eod, acts>> /\ run.pc = "interest"
    BY <1>9 DEF SumDay
  <2>2. run' \in RunType /\ run'.pc = "interest" /\ run'.i = run.i
    BY <1>9, SumDayFacts
  <2>3. PlaceOf(run', today, eod)
    BY <2>1, <2>2 DEF PlaceOf
  <2> QED
    BY <1>5, <1>6, <2>1, <2>2, <2>3
<1>10. CASE PostInterest
  <2>1. UNCHANGED <<win, today, holds, checkpoints, eod, acts>> /\ run.pc = "interest"
    BY <1>10 DEF PostInterest
  <2>2. IsLog(log') /\ InterestFrom(run', today, run.i + 1, FirstBefore(today), Len(log'))
    BY <1>10, PostInterestFacts
  <2>3. PICK i \in Nat : i = run.i + 1
    BY <1>6
  <2>4. run' \in RunType /\ PlaceOf(run', today, eod)
    BY <1>7, <2>1, <2>2, <2>3
  <2> QED
    BY <1>5, <1>6, <2>1, <2>2, <2>4
<1>11. CASE ReadForFee \/ ReadBalance
  <2>1. UNCHANGED <<win, today, log, holds, checkpoints, eod, acts>>
    BY <1>11 DEF ReadForFee, ReadBalance
  <2>2. /\ run' \in RunType /\ run'.i = run.i
        /\ \/ run.pc = "fees" /\ run'.pc = "holds"
           \/ run.pc = "checkpoint" /\ run'.pc = "watermark"
    BY <1>11, ReadLedgerFacts
  <2>3. PlaceOf(run', today, eod) /\ run.pc # "idle"
    BY <2>2 DEF PlaceOf
  <2> QED
    BY <1>5, <1>6, <2>1, <2>2, <2>3
<1>18. CASE ReadHolds
  <2>1. UNCHANGED <<win, today, log, holds, checkpoints, eod, acts>>
    BY <1>18 DEF ReadHolds
  <2>2. run' \in RunType /\ run'.i = run.i /\ run.pc = "holds" /\ run'.pc = "assess"
    BY <1>18, ReadHoldsFacts
  <2>3. PlaceOf(run', today, eod) /\ run.pc # "idle"
    BY <2>2 DEF PlaceOf
  <2> QED
    BY <1>5, <1>6, <2>1, <2>2, <2>3
<1>12. CASE PostFee
  <2>1. UNCHANGED <<win, today, holds, checkpoints, eod, acts>> /\ run.pc = "assess"
    BY <1>12 DEF PostFee
  <2>2. IsLog(log') /\ FeesFrom(run', today, run.i + 1, FirstBefore(today), Len(log'))
    BY <1>12, PostFeeFacts
  <2>3. PICK i \in Nat : i = run.i + 1
    BY <1>6
  <2>4. run' \in RunType /\ PlaceOf(run', today, eod)
    BY <1>7, <2>1, <2>2, <2>3
  <2> QED
    BY <1>5, <1>6, <2>1, <2>2, <2>4
<1>13. CASE InsertCheckpoint
  <2>1. UNCHANGED <<win, today, log, holds, eod, acts>> /\ run.pc = "watermark"
    BY <1>13 DEF InsertCheckpoint
  <2>2. IsCheckpoints(checkpoints')
        /\ CheckpointsFrom(run', run.i + 1, FirstBefore(today), Len(log'))
    BY <1>13, InsertCheckpointFacts
  <2>3. PICK i \in Nat : i = run.i + 1
    BY <1>6
  <2>4. run' \in RunType /\ PlaceOf(run', today, eod)
    BY <1>6, <1>7, <2>1, <2>2, <2>3
  <2> QED
    BY <1>5, <1>6, <2>1, <2>2, <2>4
<1>14. CASE FinishEODRun
  <2>1. UNCHANGED <<win, today, log, holds, checkpoints, acts>>
    BY <1>14 DEF FinishEODRun
  <2>2. IsRuns(eod') /\ run' \in RunType /\ run'.pc = "idle"
    BY <1>14, FinishFacts
  <2> QED
    BY <2>1, <2>2 DEF Types, PlaceOf
<1>15. CASE Fail
  <2>1. UNCHANGED <<win, today, log, holds, checkpoints, eod>> /\ run' = Idle
    BY <1>15 DEF Fail
  <2>2. run' \in RunType /\ run'.pc = "idle" /\ acts' \in Nat
    BY <1>15, <2>1, IdleFacts, ActFacts DEF Fail
  <2> QED
    BY <2>1, <2>2 DEF Types, PlaceOf
<1>16. CASE NextDay
  <2>1. UNCHANGED <<win, log, holds, checkpoints, eod, run, acts>> /\ run.pc = "idle"
        /\ today < win.from + win.days /\ today' = today + 1
    BY <1>16 DEF NextDay, AddDays
  <2>2. win.from \in Int /\ win.days \in Nat
    BY EodAssumption DEF Types
  <2>3. today' \in Int /\ win.from <= today' /\ today' <= win.from + win.days
    BY <1>6, <2>1, <2>2 DEF Types
  <2> QED
    BY <2>1, <2>3 DEF Types, PlaceOf
<1> QED
  BY <1>1, <1>2, <1>3, <1>4, <1>8, <1>9, <1>10, <1>11, <1>12, <1>13, <1>14, <1>15, <1>16,
     <1>17, <1>18 DEF Next

\* The types are what TypeOK says: a checkpoint is told apart by its account-day.
LEMMA TypesImplyTypeOK ==
    ASSUME Types, PlaceOf(run, today, eod)
    PROVE  TypeOK
<1>1. win.from \in Int /\ win.days \in Nat
  BY EodAssumption DEF Types
<1>2. today \in win.from .. win.from + win.days
  BY <1>1 DEF Types
<1>3. \A i \in 1 .. Len(log) : /\ log[i].acct \in Range(Accounts)
                               /\ log[i].key # Customer => log[i].amount # 0
  <2>1. IsLog(log)
    BY DEF Types
  <2> QED
    BY <2>1, LogRows DEF IsLog, Charged
<1>4. Cardinality(checkpoints) = Cardinality({<<c.acct, c.date>> : c \in checkpoints})
  <2> DEFINE T == {<<c.acct, c.date>> : c \in checkpoints}
             f == [c \in checkpoints |-> <<c.acct, c.date>>]
  <2>1. f \in [checkpoints -> T] /\ \A t \in T : \E c \in checkpoints : f[c] = t
    OBVIOUS
  <2>2. ASSUME NEW b \in checkpoints, NEW c \in checkpoints, f[b] = f[c] PROVE b = c
    <3>1. b.acct = c.acct /\ b.date = c.date
      BY <2>2
    <3> QED
      BY <3>1 DEF Types, IsCheckpoints, Unique
  <2>3. f \in Bijection(checkpoints, T)
    <3> HIDE DEF f, T
    <3> QED
      BY <2>1, <2>2 DEF Bijection, Injection, Surjection, IsInjective
  <2> HIDE DEF f, T
  <2>4. ExistsBijection(checkpoints, T)
    BY <2>3 DEF ExistsBijection
  <2>5. IsFiniteSet(checkpoints)
    BY DEF Types, IsCheckpoints
  <2>6. Cardinality(T) = Cardinality(checkpoints)
    BY <2>4, <2>5, FS_Bijection
  <2> QED
    BY <2>6 DEF T
<1>5. \A d \in DOMAIN eod : eod[d].status \in {"claimed", "finished"}
  BY DEF Types, IsRuns, RowType
<1>6. run.pc \in {"idle", "expire", "list", "interest", "fees", "holds", "assess",
                  "checkpoint", "watermark", "finish"}
  BY DEF Types, RunType, Phases
<1> QED
  BY <1>2, <1>3, <1>4, <1>5, <1>6 DEF TypeOK, PlaceOf

\* The types are kept: a run ends where it began, at one account of its phase, and
\* the tables keep their shapes.
LEMMA TypesKept == Spec => [](Types /\ PlaceOf(run, today, eod))
<1>1. Init => Types /\ PlaceOf(run, today, eod)
  BY TypesInit
<1>2. Types /\ PlaceOf(run, today, eod) /\ [Next]_vars => (Types /\ PlaceOf(run, today, eod))'
  <2>1. CASE Next
    BY <2>1, TypesNext
  <2>2. CASE UNCHANGED vars
    BY <2>2 DEF vars, Types
  <2> QED
    BY <2>1, <2>2
<1> QED
  BY <1>1, <1>2, PTL DEF Spec

\* End of day posts no amount of 0, an account-day has one checkpoint at most, and a
\* run works on a day that it has claimed.
THEOREM EodTypeCorrect == Spec => []TypeOK
<1>1. Types /\ PlaceOf(run, today, eod) => TypeOK
  BY TypesImplyTypeOK
<1> QED
  BY <1>1, TypesKept, PTL

-----------------------------------------------------------------------------
\* Part 8.  Claims: end of day on the business days.

\* The actions of customers are counted up.
LEMMA ActsGrow ==
    ASSUME Types, Next
    PROVE  acts \in Nat /\ acts' \in Nat /\ acts <= acts'
<1>1. acts \in Nat
  BY DEF Types
<1>2. CASE MayAct
  BY <1>2, ActFacts
<1>3. CASE acts' = acts
  BY <1>1, <1>3
<1> QED
  BY <1>2, <1>3 DEF Next, CustomerPost, PlaceHold, ReleaseHold, CallRun, ClaimEODRun, ExpireDue,
     AllAccounts, SumDay, PostInterest, ReadForFee, ReadHolds, PostFee, ReadBalance,
     InsertCheckpoint, FinishEODRun, Fail, NextDay

\* No day is claimed before the first.
LEMMA ClaimsInit ==
    ASSUME Init
    PROVE  Claims(win, today, log, eod, acts)
<1>1. eod = <<>> /\ today = win.from /\ win.from \in Int
  BY EodAssumption DEF Init
<1> QED
  BY <1>1 DEF Claims

\* Every step keeps the claims: only business days are claimed, and none is passed over.
LEMMA ClaimsNext ==
    ASSUME Types, PlaceOf(run, today, eod), Claims(win, today, log, eod, acts), Next
    PROVE  Claims(win', today', log', eod', acts')
<1>1. ASSUME UNCHANGED <<win, today, eod>>, Extends(log, log'), IsLog(log')
      PROVE  Claims(win', today', log', eod', acts')
  <2>1. Len(log) <= Len(log') /\ Len(log) \in Nat /\ Len(log') \in Nat
    BY <1>1 DEF Extends, Types, IsLog
  <2>2. today \in DOMAIN eod => eod[today].seen \in Nat /\ eod[today].at \in Nat
    BY DEF Types, IsRuns, RowType
  <2>3. acts \in Nat /\ acts' \in Nat /\ acts <= acts'
    BY ActsGrow
  <2>4. today \in DOMAIN eod => eod[today].seen <= Len(log') /\ eod[today].at <= acts'
    BY <2>1, <2>2, <2>3 DEF Claims
  <2> QED
    BY <1>1, <2>4 DEF Claims
<1>2. ASSUME UNCHANGED <<win, today, log, eod>>
      PROVE  Claims(win', today', log', eod', acts')
  BY <1>1, <1>2 DEF Types, IsLog, Extends
<1>3. ASSUME NEW a \in Range(Accounts) \ {Suspense}, NEW m \in PostAmounts, CustomerPost(a, m)
      PROVE  Claims(win', today', log', eod', acts')
  BY <1>1, <1>3, CustomerPostFacts DEF CustomerPost
<1>4. ASSUME NEW a \in Range(Accounts) \ {Suspense}, NEW m \in HoldAmounts, PlaceHold(a, m)
      PROVE  Claims(win', today', log', eod', acts')
  BY <1>2, <1>4 DEF PlaceHold
<1>5. CASE CallRun
  <2>1. /\ UNCHANGED <<win, today, log, acts>> /\ IsBusinessDay(today) /\ ClaimEODRun
    BY <1>5 DEF CallRun, ClaimEODRun
  <2>2. /\ DOMAIN eod' = DOMAIN eod \cup {today} /\ eod'[today].seen = Len(log)
        /\ eod'[today].at = acts
    BY <2>1, ClaimFacts
  <2>3. win.from <= today /\ today <= today /\ Len(log) <= Len(log) /\ acts <= acts
    BY DEF Types, IsLog
  <2> QED
    BY <2>1, <2>2, <2>3 DEF Claims
<1>6. CASE PostInterest
  <2>1. IsLog(log') /\ Extends(log, log')
    BY <1>6, PostInterestFacts
  <2> QED
    BY <1>1, <1>6, <2>1 DEF PostInterest
<1>7. CASE PostFee
  <2>1. IsLog(log') /\ Extends(log, log')
    BY <1>7, PostFeeFacts
  <2> QED
    BY <1>1, <1>7, <2>1 DEF PostFee
<1>8. CASE FinishEODRun
  <2>1. UNCHANGED <<win, today, log, acts>>
    BY <1>8 DEF FinishEODRun
  <2>2. DOMAIN eod' = DOMAIN eod /\ eod'[today].seen = eod[today].seen
        /\ eod'[today].at = eod[today].at
    BY <1>8, FinishFacts
  <2> QED
    BY <2>1, <2>2 DEF Claims
<1>9. CASE NextDay
  <2>1. /\ UNCHANGED <<win, log, eod>> /\ today' = today + 1
        /\ IsBusinessDay(today) => today \in DOMAIN eod
    BY <1>9 DEF NextDay, AddDays
  <2>2. today \in Int /\ win.from \in Int
    BY EodAssumption DEF Types
  <2>3. \A d \in DOMAIN eod : d \in Int /\ d <= today
    BY DEF Types, IsRuns, Claims
  <2>4. today' \notin DOMAIN eod /\ \A d \in DOMAIN eod : d <= today'
    BY <2>1, <2>2, <2>3
  <2>5. \A d \in win.from .. today' - 1 : d = today \/ d \in win.from .. today - 1
    BY <2>1, <2>2
  <2> QED
    BY <2>1, <2>4, <2>5 DEF Claims
<1>10. CASE \/ ExpireDue \/ AllAccounts \/ SumDay \/ ReadForFee \/ ReadHolds
            \/ ReadBalance \/ InsertCheckpoint \/ Fail
  BY <1>2, <1>10 DEF ExpireDue, AllAccounts, SumDay, ReadForFee, ReadHolds, ReadBalance,
     InsertCheckpoint, Fail
<1>11. ASSUME NEW n \in 1 .. Len(holds), ReleaseHold(n)
      PROVE  Claims(win', today', log', eod', acts')
  BY <1>2, <1>11 DEF ReleaseHold
<1> QED
  BY <1>3, <1>4, <1>5, <1>6, <1>7, <1>8, <1>9, <1>10, <1>11 DEF Next

\* The claims are what EodOnBusinessDays says, by the rule of the business days.
LEMMA ClaimsImplyBusinessDays ==
    ASSUME Types, Claims(win, today, log, eod, acts)
    PROVE  EodOnBusinessDays
<1>1. win \in Windows /\ win.from \in Int /\ win.days \in Nat /\ today \in Int
      /\ today <= win.from + win.days
  BY EodAssumption DEF Types
<1>2. SUFFICES ASSUME today > win.from
      PROVE  today - 1 \in DOMAIN eod <=> /\ Weekday(today - 1) \notin {0, 6}
                                          /\ IsObserved(today - 1) => MissedHoliday(today - 1)
  BY DEF EodOnBusinessDays
<1>3. PICK d \in Int : d = today - 1
  BY <1>1
<1>4. d \in win.from .. today - 1 /\ win.from - 31 <= d /\ d <= win.from + win.days + 31
  BY <1>1, <1>2, <1>3
<1>5. Year(d) \in Years
  BY <1>1, <1>4, Covered
<1>6. IsBusinessDay(d) <=> Weekday(d) \notin {0, 6} /\ (IsObserved(d) => MissedHoliday(d))
  BY <1>5, BusinessDayRule
<1>7. d \in DOMAIN eod <=> IsBusinessDay(d)
  BY <1>4 DEF Claims
<1> QED
  BY <1>3, <1>6, <1>7

\* A business day that passed was claimed for end of day, and no other day was: the
\* calendar's table of holidays is the rule that a federal calendar states, but for
\* the New Year's Day that it misses.
THEOREM EodBusinessDays == Spec => []EodOnBusinessDays
<1> DEFINE I == Types /\ PlaceOf(run, today, eod) /\ Claims(win, today, log, eod, acts)
<1>1. Init => I
  BY TypesInit, ClaimsInit
<1>2. I /\ [Next]_vars => I'
  <2>1. CASE Next
    BY <2>1, TypesNext, ClaimsNext
  <2>2. CASE UNCHANGED vars
    BY <2>2 DEF vars, Types
  <2> QED
    BY <2>1, <2>2
<1>3. I => EodOnBusinessDays
  BY ClaimsImplyBusinessDays
<1> QED
  BY <1>1, <1>2, <1>3, PTL DEF Spec

-----------------------------------------------------------------------------
\* Part 9.  Watermarks: a balance is the sum of its entries.

\* The first entries of a log that grows.
LEMMA BalanceStable ==
    ASSUME NEW l, NEW k, Extends(l, k), NEW a, NEW n \in Nat, n <= Len(l), Len(l) \in Nat, NEW d
    PROVE  /\ IdsOf(l, a, n, d) = IdsOf(k, a, n, d)
           /\ BalanceOf(l, a, n, d) = BalanceOf(k, a, n, d)
<1>1. ASSUME NEW i \in 1 .. n PROVE l[i] = k[i]
  <2>1. i \in 1 .. Len(l)
    OBVIOUS
  <2> QED
    BY <2>1 DEF Extends
<1>2. IdsOf(l, a, n, d) = IdsOf(k, a, n, d)
  BY <1>1 DEF IdsOf
<1>3. \A i \in IdsOf(l, a, n, d) : l[i].amount = k[i].amount
  BY <1>1 DEF IdsOf
<1>4. SumOf(l, IdsOf(l, a, n, d)) = SumOf(k, IdsOf(l, a, n, d))
  BY <1>3, SumOfSame
<1> QED
  BY <1>2, <1>4 DEF BalanceOf

\* What is not of the account, or is dated later, does not count.
LEMMA BalanceLater ==
    ASSUME NEW l, NEW a, NEW n \in Nat, NEW len \in Nat, n <= len, NEW d,
           \A j \in n + 1 .. len : ~(l[j].acct = a /\ l[j].date <= d)
    PROVE  BalanceOf(l, a, n, d) = BalanceOf(l, a, len, d)
<1>1. \A i \in 1 .. len : i \in 1 .. n \/ i \in n + 1 .. len
  OBVIOUS
<1>2. \A i \in 1 .. n : i \in 1 .. len
  OBVIOUS
<1>3. IdsOf(l, a, n, d) = IdsOf(l, a, len, d)
  BY <1>1, <1>2 DEF IdsOf
<1> QED
  BY <1>3 DEF BalanceOf

\* Watermarks that separate the entries of a log separate the first of them.
LEMMA SeparatedStable ==
    ASSUME NEW l, NEW k, Extends(l, k), IsLog(l), IsLog(k), NEW cs, NEW a, NEW d,
           SeparatedOf(cs, k, a, d)
    PROVE  SeparatedOf(cs, l, a, d)
<1>1. ASSUME NEW i \in 1 .. Len(l) PROVE i \in 1 .. Len(k) /\ l[i] = k[i]
  BY DEF Extends, IsLog
<1> QED
  BY <1>1 DEF SeparatedOf

\* Watermarks that separate do so up to an earlier date, and for fewer checkpoints.
LEMMA SeparatedLess ==
    ASSUME NEW bs, NEW cs, cs \subseteq bs, IsCheckpoints(bs), NEW l, NEW a,
           NEW c \in Int, NEW d \in Int, c <= d, SeparatedOf(bs, l, a, d)
    PROVE  SeparatedOf(cs, l, a, c)
<1>1. \A b \in bs : b.date \in Int
  BY DEF IsCheckpoints, CheckpointType
<1>2. \A b \in cs : b \in bs /\ (b.date <= c => b.date <= d)
  BY <1>1
<1> QED
  BY <1>2 DEF SeparatedOf

\* A balance read through a checkpoint is the balance from the entries alone: if
\* watermarks separate, the entries under one are those that its balance sums up.
LEMMA LedgerExact ==
    ASSUME Types, Watermarks(today, log, checkpoints, eod, run), NEW a, NEW d \in Int,
           SeparatedOf(checkpoints, log, a, d)
    PROVE  LedgerBalance(a, d) = BalanceOf(log, a, Len(log), d)
<1>1. IsLog(log) /\ IsCheckpoints(checkpoints)
  BY DEF Types
<1>2. PICK len \in Nat : len = Len(log) /\ len <= Len(log)
  BY <1>1 DEF IsLog
<1>3. PICK c : /\ c = LatestCheckpoint(a, d) /\ c.balance \in Int /\ c.last \in Nat
               /\ \/ c.balance = 0 /\ c.last = 0
                  \/ c \in checkpoints /\ c.acct = a /\ c.date \in Int /\ c.date <= d
  BY <1>1, LatestFacts
<1>4. PICK last \in Nat : last = c.last
  BY <1>3
<1> DEFINE I == UnderOf(log, a, len, d, last)
           J == AboveOf(log, a, len, d, last)
<1>5. LedgerBalance(a, d) = c.balance + SumOf(log, J)
  BY <1>2, <1>3, <1>4 DEF LedgerBalance, Total, Entries, AboveOf, IdsOf
<1>6. ASSUME NEW i \in IdsOf(log, a, len, d)
      PROVE  /\ i \in 1 .. len /\ log[i].acct = a /\ log[i].date \in Int /\ log[i].date <= d
             /\ log[i].id \in Nat /\ log[i].id > 0
  <2>1. i \in 1 .. len /\ log[i].acct = a /\ log[i].date <= d
    BY DEF IdsOf
  <2>2. i \in 1 .. Len(log)
    BY <1>2, <2>1
  <2>3. log[i].date \in Int /\ log[i].id \in Nat \ {0}
    BY <1>1, <2>2, LogRows
  <2> QED
    BY <2>1, <2>3
<1>7. c.balance = SumOf(log, I)
  <2>1. CASE c.balance = 0 /\ c.last = 0
    <3>1. I = {}
      BY <1>4, <1>6, <2>1 DEF UnderOf
    <3>2. SumOf(log, {}) = 0
      BY SumOfNone
    <3> QED
      BY <2>1, <3>1, <3>2
  <2>2. CASE c \in checkpoints /\ c.acct = a /\ c.date \in Int /\ c.date <= d
    <3>1. /\ c.seen \in Nat /\ c.seen <= Len(log)
          /\ \A i \in IdsOf(log, a, c.seen, c.date) : log[i].id <= c.last
          /\ (SeparatedOf(checkpoints, log, a, c.date) =>
                  c.balance = BalanceOf(log, a, c.seen, c.date))
      BY <1>1, <2>2 DEF Watermarks, IsCheckpoints, CheckpointType
    <3>2. PICK cd \in Int : cd = c.date /\ cd <= d
      BY <2>2
    <3>3. SeparatedOf(checkpoints, log, a, cd)
      BY <1>1, <3>2, SeparatedLess
    <3>4. PICK n \in Nat : n = c.seen /\ n <= len
      BY <1>2, <3>1
    <3>5. c.balance = BalanceOf(log, a, n, cd)
      BY <3>1, <3>2, <3>3, <3>4
    <3>6. ASSUME NEW i \in I PROVE i \in IdsOf(log, a, n, cd)
      <4>1. i \in IdsOf(log, a, len, d) /\ log[i].id <= last
        BY DEF UnderOf
      <4>2. i \in 1 .. len /\ log[i].acct = a
        BY <1>6, <4>1
      <4>3. i <= n /\ log[i].date <= cd
        BY <1>2, <1>4, <2>2, <3>2, <3>4, <4>1, <4>2 DEF SeparatedOf
      <4> QED
        BY <4>2, <4>3 DEF IdsOf
    <3>7. ASSUME NEW i \in IdsOf(log, a, n, cd) PROVE i \in I
      <4>1. i \in 1 .. n /\ log[i].acct = a /\ log[i].date <= cd
        BY DEF IdsOf
      <4>2. i \in 1 .. len /\ i \in 1 .. Len(log)
        BY <1>2, <3>4, <4>1
      <4>3. log[i].date \in Int
        BY <1>1, <4>2, LogRows
      <4>4. log[i].date <= d
        BY <3>2, <4>1, <4>3
      <4>5. log[i].id <= last
        BY <1>4, <3>1, <3>2, <3>4
      <4> QED
        BY <4>1, <4>2, <4>4, <4>5 DEF UnderOf, IdsOf
    <3>8. I = IdsOf(log, a, n, cd)
      BY <3>6, <3>7
    <3> QED
      BY <3>5, <3>8 DEF BalanceOf
  <2> QED
    BY <1>3, <2>1, <2>2
<1>8. I \subseteq IdsOf(log, a, len, d) /\ J \subseteq IdsOf(log, a, len, d)
  BY DEF UnderOf, AboveOf
<1>9. Adds(log, I) /\ Adds(log, J)
  BY <1>1, <1>2, <1>8, IdsFacts
<1>10. I \cap J = {} /\ I \cup J = IdsOf(log, a, len, d)
  BY <1>6 DEF UnderOf, AboveOf
<1> HIDE DEF I, J
<1>11. SumOf(log, I \cup J) = SumOf(log, I) + SumOf(log, J)
  BY <1>9, <1>10, SumOfBoth
<1> QED
  BY <1>2, <1>5, <1>7, <1>10, <1>11 DEF BalanceOf

\* From the checkpoints on, a run is at a checkpoint or at its end.
LEMMA CheckpointsFromPc ==
    ASSUME NEW r, NEW i \in Nat, NEW f \in Int, NEW n \in Nat, CheckpointsFrom(r, i, f, n)
    PROVE  r.pc \in {"checkpoint", "finish"}
<1>1. "checkpoint" \in Phases /\ "finish" \in Phases
  BY DEF Phases
<1>2. CASE r = Begun("finish", 1, f, n)
  BY <1>1, <1>2, BegunTyped
<1>3. CASE \E j \in 1 .. Len(Accounts) : r = Begun("checkpoint", j, f, n)
  <2>1. PICK j \in Nat : r = Begun("checkpoint", j, f, n)
    BY <1>3, PlacesFacts
  <2> QED
    BY <1>1, <2>1, BegunTyped
<1> QED
  BY <1>2, <1>3 DEF CheckpointsFrom, At

\* A log that grows keeps what its checkpoints sum up.
LEMMA WatermarksGrow ==
    ASSUME NEW t, NEW l, NEW k, NEW cs, NEW e, NEW r, NEW e2, NEW q,
           Watermarks(t, l, cs, e, r), IsLog(l), IsLog(k), Extends(l, k), IsCheckpoints(cs),
           t \notin DOMAIN e2 \/ Early(q) => t \notin DOMAIN e \/ Early(r)
    PROVE  Watermarks(t, k, cs, e2, q)
<1>1. Len(l) \in Nat /\ Len(k) \in Nat /\ Len(l) <= Len(k)
  BY DEF IsLog, Extends
<1>2. ASSUME NEW c \in cs
      PROVE  /\ c.date <= t /\ c.seen <= Len(k)
             /\ \A i \in IdsOf(k, c.acct, c.seen, c.date) : k[i].id <= c.last
             /\ SeparatedOf(cs, k, c.acct, c.date) =>
                    c.balance = BalanceOf(k, c.acct, c.seen, c.date)
  <2>1. /\ c.date <= t /\ c.seen <= Len(l)
        /\ \A i \in IdsOf(l, c.acct, c.seen, c.date) : l[i].id <= c.last
        /\ SeparatedOf(cs, l, c.acct, c.date) =>
               c.balance = BalanceOf(l, c.acct, c.seen, c.date)
    BY DEF Watermarks
  <2>2. PICK n \in Nat, a \in {c.acct}, d \in {c.date} :
            n = c.seen /\ a = c.acct /\ d = c.date /\ n <= Len(l)
    BY <2>1 DEF IsCheckpoints, CheckpointType
  <2>3. IdsOf(l, a, n, d) = IdsOf(k, a, n, d) /\ BalanceOf(l, a, n, d) = BalanceOf(k, a, n, d)
    BY <1>1, <2>2, BalanceStable
  <2>4. SeparatedOf(cs, k, a, d) => SeparatedOf(cs, l, a, d)
    BY SeparatedStable
  <2>5. \A i \in IdsOf(l, a, n, d) : k[i].id = l[i].id
    <3>1. \A i \in IdsOf(l, a, n, d) : i \in 1 .. Len(l)
      BY <1>1, <2>2 DEF IdsOf
    <3> QED
      BY <3>1 DEF Extends
  <2> QED
    BY <1>1, <2>1, <2>2, <2>3, <2>4, <2>5
<1>3. t \notin DOMAIN e2 \/ Early(q) => \A c \in cs : c.date < t
  BY DEF Watermarks, Early
<1> QED
  BY <1>2, <1>3 DEF Watermarks, Early

\* Every step keeps what the checkpoints say, InsertCheckpoint by adding one that is
\* exact: its watermark covers what its balance was read from, and perhaps more.
LEMMA WatermarksNext ==
    ASSUME Types, PlaceOf(run, today, eod), Watermarks(today, log, checkpoints, eod, run),
           Reading(today, log, checkpoints, eod, run), Next, Types'
    PROVE  Watermarks(today', log', checkpoints', eod', run')
<1>1. /\ today \in Int /\ IsLog(log) /\ IsCheckpoints(checkpoints) /\ IsLog(log')
      /\ run.i \in Nat /\ FirstBefore(today) \in Int
  <2>1. today \in Int
    BY DEF Types
  <2> QED
    BY <2>1, MonthBefore, FirstOfFacts DEF Types, RunType
<1>2. ASSUME UNCHANGED <<today, checkpoints>>, Extends(log, log'),
             today \notin DOMAIN eod' \/ Early(run') => today \notin DOMAIN eod \/ Early(run)
      PROVE  Watermarks(today', log', checkpoints', eod', run')
  BY <1>1, <1>2, WatermarksGrow
<1>3. Extends(log, log)
  BY <1>1 DEF Extends, IsLog
<1>4. ASSUME NEW a \in Range(Accounts) \ {Suspense}, NEW m \in PostAmounts, CustomerPost(a, m)
      PROVE  Watermarks(today', log', checkpoints', eod', run')
  <2>1. Extends(log, log')
    BY <1>4, CustomerPostFacts
  <2>2. UNCHANGED <<today, checkpoints, eod, run>>
    BY <1>4 DEF CustomerPost
  <2> QED
    BY <1>2, <2>1, <2>2 DEF Early
<1>5. ASSUME UNCHANGED <<today, log, checkpoints, eod, run>>
      PROVE  Watermarks(today', log', checkpoints', eod', run')
  BY <1>5
<1>6. CASE CallRun
  BY <1>2, <1>3, <1>6 DEF CallRun, ClaimEODRun
<1>7. CASE ExpireDue \/ AllAccounts \/ SumDay \/ ReadForFee \/ ReadHolds
  <2>1. UNCHANGED <<today, log, checkpoints, eod>> /\ Early(run)
    BY <1>7 DEF ExpireDue, AllAccounts, SumDay, ReadForFee, ReadHolds, Early
  <2> QED
    BY <1>2, <1>3, <2>1
<1>8. CASE PostInterest
  <2>1. Extends(log, log')
    BY <1>8, PostInterestFacts
  <2>2. UNCHANGED <<today, checkpoints, eod>> /\ Early(run)
    BY <1>8 DEF PostInterest, Early
  <2> QED
    BY <1>2, <2>1, <2>2
<1>9. CASE PostFee
  <2>1. Extends(log, log')
    BY <1>9, PostFeeFacts
  <2>2. UNCHANGED <<today, checkpoints, eod>> /\ Early(run)
    BY <1>9 DEF PostFee, Early
  <2> QED
    BY <1>2, <2>1, <2>2
<1>14. CASE ReadBalance
  <2>1. UNCHANGED <<today, log, checkpoints, eod>> /\ run.pc = "checkpoint"
    BY <1>14 DEF ReadBalance
  <2>2. run'.pc = "watermark" \/ (run.pc = "fees" /\ run'.pc = "holds")
    BY <1>14, ReadLedgerFacts
  <2>3. run'.pc = "watermark"
    BY <2>1, <2>2
  <2>4. today \in DOMAIN eod
    BY <2>1 DEF PlaceOf
  <2> QED
    BY <1>2, <1>3, <2>1, <2>3, <2>4 DEF Early
<1>10. CASE InsertCheckpoint
  <2>1. PICK a : a = Accounts[run.i]
    OBVIOUS
  <2>2. UNCHANGED <<today, log, eod>> /\ run.pc = "watermark"
    BY <1>10 DEF InsertCheckpoint
  <2>3. /\ IsCheckpoints(checkpoints') /\ checkpoints \subseteq checkpoints'
        /\ CheckpointsFrom(run', run.i + 1, FirstBefore(today), Len(log'))
    BY <1>10, InsertCheckpointFacts
  <2>4. PICK c \in CheckpointType :
            /\ c.acct = a /\ c.date = today /\ c.balance = run.ledger /\ c.seen = run.seen
            /\ \A i \in IdsOf(log, a, Len(log), today) : log[i].id <= c.last
            /\ checkpoints' = checkpoints \/ checkpoints' = checkpoints \cup {c}
    BY <1>10, <2>1, InsertCheckpointFacts
  <2>5. today \in DOMAIN eod
    BY <2>2 DEF PlaceOf
  <2>6. ~Early(run')
    <3>1. PICK i \in Nat, n \in Nat : i = run.i + 1 /\ n = Len(log')
      BY <1>1 DEF IsLog
    <3>2. run'.pc \in {"checkpoint", "finish"}
      BY <1>1, <2>3, <3>1, CheckpointsFromPc
    <3> QED
      BY <3>2 DEF Early
  <2>7. ASSUME NEW b \in checkpoints, SeparatedOf(checkpoints', log, b.acct, b.date)
        PROVE  b.balance = BalanceOf(log, b.acct, b.seen, b.date)
    <3>1. b.date \in Int /\ b.date <= b.date
      BY <1>1 DEF IsCheckpoints, CheckpointType
    <3>2. SeparatedOf(checkpoints, log, b.acct, b.date)
      BY <2>3, <2>7, <3>1, SeparatedLess
    <3> QED
      BY <3>2 DEF Watermarks
  <2>8. ASSUME SeparatedOf(checkpoints', log, c.acct, c.date)
        PROVE  c.balance = BalanceOf(log, c.acct, c.seen, c.date)
    <3>1. today <= today
      BY <1>1
    <3>2. SeparatedOf(checkpoints, log, a, today)
      BY <1>1, <2>3, <2>4, <2>8, <3>1, SeparatedLess
    <3> QED
      BY <2>1, <2>2, <2>4, <3>2 DEF Reading
  <2>10. c.seen <= Len(log) /\ \A i \in IdsOf(log, c.acct, c.seen, c.date) : log[i].id <= c.last
    <3>1. c.seen <= Len(log) /\ c.seen \in Nat /\ Len(log) \in Nat
      BY <1>1, <2>4 DEF Reading, CheckpointType, IsLog
    <3>2. \A i \in IdsOf(log, a, c.seen, today) : i \in IdsOf(log, a, Len(log), today)
      BY <3>1 DEF IdsOf
    <3> QED
      BY <2>4, <3>1, <3>2
  <2>9. ASSUME NEW b \in checkpoints'
        PROVE  /\ b.date <= today /\ b.seen <= Len(log)
               /\ \A i \in IdsOf(log, b.acct, b.seen, b.date) : log[i].id <= b.last
               /\ SeparatedOf(checkpoints', log, b.acct, b.date) =>
                      b.balance = BalanceOf(log, b.acct, b.seen, b.date)
    <3>1. CASE b \in checkpoints
      BY <2>7, <3>1 DEF Watermarks
    <3>2. CASE b = c
      BY <1>1, <2>4, <2>8, <2>10, <3>2
    <3> QED
      BY <2>4, <3>1, <3>2
  <2> QED
    BY <2>2, <2>5, <2>6, <2>9 DEF Watermarks, Early
<1>11. CASE FinishEODRun
  <2>1. UNCHANGED <<today, log, checkpoints>>
    BY <1>11 DEF FinishEODRun
  <2>2. today \in DOMAIN eod' /\ run'.pc = "idle"
    BY <1>11, FinishFacts
  <2> QED
    BY <1>2, <1>3, <2>1, <2>2 DEF Early
<1>12. CASE Fail
  <2>1. UNCHANGED <<today, log, checkpoints, eod>> /\ run' = Idle /\ run.pc # "idle"
    BY <1>12 DEF Fail
  <2>2. today \in DOMAIN eod
    BY <2>1 DEF PlaceOf
  <2>3. run'.pc = "idle"
    BY <2>1 DEF Idle
  <2> QED
    BY <1>2, <1>3, <2>1, <2>2, <2>3 DEF Early
<1>13. CASE NextDay
  <2>1. UNCHANGED <<log, checkpoints, eod, run>> /\ today' = today + 1
    BY <1>13 DEF NextDay, AddDays
  <2>2. \A c \in checkpoints : c.date \in Int
    BY <1>1 DEF IsCheckpoints, CheckpointType
  <2>3. \A c \in checkpoints : c.date <= today' /\ c.date < today'
    BY <1>1, <2>1, <2>2 DEF Watermarks
  <2> QED
    BY <2>1, <2>3 DEF Watermarks
<1> QED
  BY <1>4, <1>5, <1>6, <1>7, <1>8, <1>9, <1>10, <1>11, <1>12, <1>13, <1>14
  DEF Next, PlaceHold, ReleaseHold

\* Every step keeps what the holds say: a hold is closed when it is due, or by an
\* action that is counted.
LEMMA HoldingNext ==
    ASSUME Types, PlaceOf(run, today, eod), Holding(today, log, holds, run, acts), Next, Types'
    PROVE  Holding(today', log', holds', run', acts')
<1>1. today \in Int /\ acts \in Nat /\ acts' \in Nat /\ acts <= acts' /\ IsLog(log) /\ IsLog(log')
      /\ IsHolds(holds) /\ run \in RunType
  BY ActsGrow DEF Types
<1>2. \A n \in 1 .. Len(holds) :
          holds[n].placed \in Nat /\ holds[n].closed \in Nat /\ holds[n].expires \in Int
  <2>1. \A n \in 1 .. Len(holds) : holds[n] \in HoldType
    BY <1>1 DEF IsHolds
  <2> QED
    BY <2>1 DEF HoldType
<1> DEFINE H(t, h, k) == /\ h.released = "expired" => h.expires <= t
                         /\ h.closed # 0 <=> h.released = "cancelled"
                         /\ h.placed <= k /\ h.closed <= k
<1>3. ASSUME NEW n \in 1 .. Len(holds)
      PROVE  H(today, holds[n], acts) /\ H(today, holds[n], acts')
  <2>1. /\ holds[n].released = "expired" => holds[n].expires <= today
        /\ holds[n].closed # 0 <=> holds[n].released = "cancelled"
        /\ holds[n].placed <= acts /\ holds[n].closed <= acts
    BY DEF Holding
  <2>2. holds[n].placed <= acts' /\ holds[n].closed <= acts'
    BY <1>1, <1>2, <2>1
  <2> QED
    BY <2>1, <2>2
<1>4. ASSUME NEW n \in Nat, n <= acts', Stamped(log, log', n)
      PROVE  \A i \in 1 .. Len(log') : log'[i].at <= acts'
  <2>1. ASSUME NEW i \in 1 .. Len(log') PROVE log'[i].at <= acts'
    <3>1. CASE log'[i].at = n
      BY <1>4, <3>1
    <3>2. CASE i \in 1 .. Len(log) /\ log'[i] = log[i]
      <4>1. log[i].at \in Nat /\ log[i].at <= acts
        BY <1>1, <3>2, LogRows DEF Holding
      <4> QED
        BY <1>1, <3>2, <4>1
    <3> QED
      BY <1>4, <3>1, <3>2 DEF Stamped
  <2> QED
    BY <2>1
<1>5. ASSUME log' = log
      PROVE  \A i \in 1 .. Len(log') : log'[i].at <= acts'
  <2>1. 0 \in Nat /\ 0 <= acts' /\ Stamped(log, log', 0)
    BY <1>1, <1>5 DEF Stamped
  <2> QED
    BY <1>4, <2>1
<1>6. ASSUME run' = run \/ run'.at = run.at \/ run'.at = 0 \/ run'.at = acts
      PROVE  run'.at <= acts'
  <2>1. run.at \in Nat /\ run.at <= acts
    BY <1>1 DEF Holding, RunType
  <2> QED
    BY <1>1, <1>6, <2>1
<1>7. ASSUME \A n \in 1 .. Len(holds') : H(today', holds'[n], acts'),
             \A i \in 1 .. Len(log') : log'[i].at <= acts', run'.at <= acts'
      PROVE  Holding(today', log', holds', run', acts')
  BY <1>7 DEF Holding
<1>8. ASSUME UNCHANGED <<today, holds>>
      PROVE  \A n \in 1 .. Len(holds') : H(today', holds'[n], acts')
  BY <1>3, <1>8
<1> HIDE DEF H
<1>9. ASSUME NEW a \in Range(Accounts) \ {Suspense}, NEW m \in PostAmounts, CustomerPost(a, m)
      PROVE  Holding(today', log', holds', run', acts')
  <2>1. Stamped(log, log', 0) /\ 0 \in Nat /\ 0 <= acts'
    BY <1>1, <1>9, CustomerPostFacts
  <2>2. UNCHANGED <<today, holds, run>>
    BY <1>9 DEF CustomerPost
  <2> QED
    BY <1>4, <1>6, <1>7, <1>8, <2>1, <2>2
<1>10. ASSUME NEW a \in Range(Accounts) \ {Suspense}, NEW m \in HoldAmounts, PlaceHold(a, m)
      PROVE  Holding(today', log', holds', run', acts')
  <2>1. UNCHANGED <<today, log, run>>
    BY <1>10 DEF PlaceHold
  <2>2. ASSUME NEW n \in 1 .. Len(holds') PROVE H(today', holds'[n], acts')
    <3>1. \/ n \in 1 .. Len(holds) /\ holds'[n] = holds[n]
          \/ /\ holds'[n].released = "no" /\ holds'[n].closed = 0
             /\ holds'[n].placed = acts'
      BY <1>10, PlaceHoldFacts
    <3> QED
      BY <1>1, <1>3, <2>1, <3>1 DEF H
  <2> QED
    BY <1>5, <1>6, <1>7, <2>1, <2>2
<1>11. ASSUME NEW i \in 1 .. Len(holds), ReleaseHold(i)
      PROVE  Holding(today', log', holds', run', acts')
  <2>1. UNCHANGED <<today, log, run>> /\ MayAct
    BY <1>11 DEF ReleaseHold
  <2>2. acts' > 0
    BY <1>1, <2>1, ActFacts
  <2>3. ASSUME NEW n \in 1 .. Len(holds') PROVE H(today', holds'[n], acts')
    <3>1. \/ n \in 1 .. Len(holds) /\ holds'[n] = holds[n]
          \/ /\ n \in 1 .. Len(holds) /\ holds'[n].released = "cancelled"
             /\ holds'[n].closed = acts' /\ holds'[n].placed = holds[n].placed
      BY <1>11, ReleaseHoldFacts
    <3>2. n \in 1 .. Len(holds) => H(today, holds[n], acts') /\ holds[n].placed <= acts'
      BY <1>3 DEF H
    <3> QED
      BY <1>1, <2>1, <2>2, <3>1, <3>2 DEF H
  <2> QED
    BY <1>5, <1>6, <1>7, <2>1, <2>3
<1>12. CASE ExpireDue
  <2>1. UNCHANGED <<today, log>> /\ run'.at = run.at
    BY <1>1, <1>12 DEF ExpireDue, RunType
  <2>2. ASSUME NEW n \in 1 .. Len(holds') PROVE H(today', holds'[n], acts')
    <3>1. /\ n \in 1 .. Len(holds) /\ holds'[n].expires = holds[n].expires
          /\ holds'[n].placed = holds[n].placed /\ holds'[n].closed = holds[n].closed
          /\ \/ holds'[n].released = holds[n].released
             \/ /\ holds[n].released = "no" /\ holds'[n].released = "expired"
                /\ holds[n].expires <= today
      BY <1>12, ExpireDueFacts
    <3>2. H(today, holds[n], acts')
      BY <1>3, <3>1
    <3> QED
      BY <2>1, <3>1, <3>2 DEF H
  <2> QED
    BY <1>5, <1>6, <1>7, <2>1, <2>2
<1>13. ASSUME NEW pc \in Phases, NEW i \in Nat, NEW f \in Int, NEW n \in Nat,
              run' = Begun(pc, i, f, n)
       PROVE  run'.at = 0
  BY <1>13, BegunTyped
<1>14. ASSUME NEW i \in Nat,
              \/ InterestFrom(run', today, i, FirstBefore(today), Len(log'))
              \/ FeesFrom(run', today, i, FirstBefore(today), Len(log'))
              \/ CheckpointsFrom(run', i, FirstBefore(today), Len(log')),
              run.pc # "idle"
       PROVE  run'.at = 0
  <2>1. FirstBefore(today) \in Int /\ Len(log') \in Nat
    BY <1>1, MonthBefore, FirstOfFacts DEF IsLog
  <2>2. today \in DOMAIN eod /\ eod[today].status = "claimed"
    BY <1>14 DEF PlaceOf
  <2>3. IsBegun(run', FirstBefore(today), Len(log'))
    BY <1>14, <2>1, <2>2, FromFacts
  <2>4. PICK pc \in {"interest", "fees", "checkpoint", "finish"}, j \in Nat :
            run' = Begun(pc, j, FirstBefore(today), Len(log'))
    BY <2>3 DEF IsBegun
  <2>5. pc \in Phases
    BY DEF Phases
  <2> QED
    BY <1>13, <2>1, <2>4, <2>5
<1>15. CASE PostInterest
  <2>1. Stamped(log, log', 0) /\ InterestFrom(run', today, run.i + 1, FirstBefore(today), Len(log'))
    BY <1>15, PostInterestFacts
  <2>2. UNCHANGED <<today, holds>> /\ run.pc = "interest" /\ run.i + 1 \in Nat
    BY <1>1, <1>15 DEF PostInterest, RunType
  <2>3. run'.at = 0
    BY <1>14, <2>1, <2>2
  <2>4. 0 \in Nat /\ 0 <= acts'
    BY <1>1
  <2> QED
    BY <1>4, <1>6, <1>7, <1>8, <2>1, <2>2, <2>3, <2>4
<1>16. CASE PostFee
  <2>1. Stamped(log, log', run.at) /\ FeesFrom(run', today, run.i + 1, FirstBefore(today), Len(log'))
    BY <1>16, PostFeeFacts
  <2>2. UNCHANGED <<today, holds>> /\ run.pc = "assess" /\ run.i + 1 \in Nat
    BY <1>1, <1>16 DEF PostFee, RunType
  <2>3. run'.at = 0
    BY <1>14, <2>1, <2>2
  <2>4. run.at \in Nat /\ run.at <= acts'
    BY <1>1 DEF RunType, Holding
  <2> QED
    BY <1>4, <1>6, <1>7, <1>8, <2>1, <2>2, <2>3, <2>4
<1>17. CASE AllAccounts
  <2>1. /\ UNCHANGED <<today, log, holds>> /\ run.pc = "list"
        /\ run' = InterestPhase(1) \/ run' = FeePhase(1)
    BY <1>17 DEF AllAccounts
  <2>2. PICK i \in Nat : i = 1
    OBVIOUS
  <2>3. first = FirstBefore(today)
    BY <1>1, RunDays DEF FirstBefore
  <2>4. \/ InterestFrom(run', today, i, FirstBefore(today), Len(log'))
        \/ FeesFrom(run', today, i, FirstBefore(today), Len(log'))
    <3>1. /\ FeesFrom(FeePhase(i), today, i, first, Len(log'))
          /\ InterestFrom(InterestPhase(i), today, i, first, Len(log'))
      BY PhaseFacts
    <3> QED
      BY <2>1, <2>2, <2>3, <3>1
  <2>5. run'.at = 0
    BY <1>14, <2>1, <2>4
  <2> QED
    BY <1>5, <1>6, <1>7, <1>8, <2>1, <2>5
<1>18. CASE InsertCheckpoint
  <2>1. UNCHANGED <<today, log, holds>> /\ run.pc = "watermark" /\ run.i + 1 \in Nat
    BY <1>1, <1>18 DEF InsertCheckpoint, RunType
  <2>2. CheckpointsFrom(run', run.i + 1, FirstBefore(today), Len(log'))
    BY <1>18, InsertCheckpointFacts
  <2>3. run'.at = 0
    BY <1>14, <2>1, <2>2
  <2> QED
    BY <1>5, <1>6, <1>7, <1>8, <2>1, <2>3
<1>19. CASE CallRun \/ SumDay \/ ReadForFee \/ ReadHolds \/ ReadBalance \/ FinishEODRun \/ Fail
  <2>1. UNCHANGED <<today, log, holds>>
    BY <1>19 DEF CallRun, ClaimEODRun, SumDay, ReadForFee, ReadHolds, ReadBalance, FinishEODRun, Fail
  <2>2. run'.at = run.at \/ run'.at = 0 \/ run'.at = acts
    BY <1>19, ClaimFacts, SumDayFacts, ReadLedgerFacts, ReadHoldsFacts, IdleFacts
    DEF CallRun, FinishEODRun, Fail
  <2> QED
    BY <1>5, <1>6, <1>7, <1>8, <2>1, <2>2
<1>20. CASE NextDay
  <2>1. UNCHANGED <<log, holds, run, acts>> /\ today' = today + 1
    BY <1>20 DEF NextDay, AddDays
  <2>2. ASSUME NEW n \in 1 .. Len(holds') PROVE H(today', holds'[n], acts')
    <3>1. H(today, holds[n], acts) /\ holds[n].expires \in Int
      BY <1>2, <1>3, <2>1
    <3> QED
      BY <1>1, <2>1, <3>1 DEF H
  <2> QED
    BY <1>5, <1>6, <1>7, <2>1, <2>2
<1> QED
  BY <1>9, <1>10, <1>11, <1>12, <1>15, <1>16, <1>17, <1>18, <1>19, <1>20 DEF Next

-----------------------------------------------------------------------------
\* Part 10.  The sum of a month.

\* What a day adds to the sum: its balance if that is positive.
LEMMA DailyFacts ==
    ASSUME NEW l, IsLog(l), NEW a, NEW n \in Nat, n <= Len(l), NEW d \in Int
    PROVE  /\ Daily(l, a, n)[d].amount \in Nat /\ BalanceOf(l, a, n, d) \in Int
           /\ Daily(l, a, n)[d].amount = IF BalanceOf(l, a, n, d) > 0 THEN BalanceOf(l, a, n, d) ELSE 0
<1>3. PICK bal \in Int : bal = BalanceOf(l, a, n, d)
  BY IdsFacts
<1>4. Daily(l, a, n)[d].amount = Max({0, bal})
  BY <1>3 DEF Daily
<1>5. PICK S : S = {0, bal}
  OBVIOUS
<1>6. PICK top \in Int : top = IF bal > 0 THEN bal ELSE 0
  OBVIOUS
<1>7. S \subseteq Int /\ S # {} /\ \A s \in S : s <= top
  BY <1>5, <1>6
<1>8. Max(S) \in S /\ \A s \in S : s <= Max(S)
  BY <1>7, MaxFacts
<1>9. Max(S) = IF bal > 0 THEN bal ELSE 0
  BY <1>5, <1>8
<1> QED
  BY <1>3, <1>4, <1>5, <1>9

\* The days of a part of the month.
LEMMA PartFacts ==
    ASSUME NEW l, IsLog(l), NEW a, NEW n \in Nat, n <= Len(l), NEW t \in Int, NEW d \in Int
    PROVE  /\ SumBefore(l, a, t, n, d) \in Nat
           /\ d = FirstBefore(t) => SumBefore(l, a, t, n, d) = 0
           /\ d <= FirstOf(t) => SumBefore(l, a, t, n, d) <= MonthOf(l, a, t, n)
           /\ FirstBefore(t) <= d =>
                  SumBefore(l, a, t, n, d + 1) = SumBefore(l, a, t, n, d) + Daily(l, a, n)[d].amount
<1>1. PICK f \in Int, g \in Int : f = FirstBefore(t) /\ g = FirstOf(t)
  BY FirstOfFacts, MonthBefore
<1>2. PICK table : table = Daily(l, a, n)
  OBVIOUS
<1>3. \A x \in Int : table[x].amount \in Nat
  BY <1>2, DailyFacts
<1>4. SumBefore(l, a, t, n, d) = SumOf(table, f .. d - 1)
  BY <1>1, <1>2 DEF SumBefore
<1>5. MonthOf(l, a, t, n) = SumOf(table, f .. g - 1)
  BY <1>1, <1>2 DEF SumBefore, MonthOf
<1>6. IsFiniteSet(f .. d - 1) /\ IsFiniteSet(f .. g - 1)
  <2>1. d - 1 \in Int /\ g - 1 \in Int
    OBVIOUS
  <2> QED
    BY <2>1, FS_Interval
<1>7. SumOf(table, f .. d - 1) \in Nat
  <2>1. f .. d - 1 \subseteq f .. d - 1 /\ \A i \in f .. d - 1 : table[i].amount \in Nat
    BY <1>3
  <2> QED
    BY <1>6, <2>1, SumOfCredits
<1>8. ASSUME d = f PROVE SumOf(table, f .. d - 1) = 0
  <2>1. f .. d - 1 = {}
    BY <1>8
  <2> QED
    BY <2>1, SumOfNone
<1>9. ASSUME d <= g PROVE SumOf(table, f .. d - 1) <= SumOf(table, f .. g - 1)
  <2>1. f .. d - 1 \subseteq f .. g - 1 /\ \A i \in f .. g - 1 : table[i].amount \in Nat
    BY <1>3, <1>9
  <2> QED
    BY <1>6, <2>1, SumOfCredits
<1>10. ASSUME f <= d
       PROVE  SumBefore(l, a, t, n, d + 1) = SumOf(table, f .. d - 1) + table[d].amount
  <2>1. SumBefore(l, a, t, n, d + 1) = SumOf(table, f .. d + 1 - 1)
    BY <1>1, <1>2 DEF SumBefore
  <2>2. f .. d + 1 - 1 = (f .. d - 1) \cup {d} /\ (f .. d - 1) \cap {d} = {}
    BY <1>10
  <2>3. Adds(table, f .. d - 1)
    BY <1>3, <1>6 DEF Adds
  <2>4. Adds(table, {d}) /\ SumOf(table, {d}) = table[d].amount
    <3>1. table[d].amount \in Int
      BY <1>3
    <3> QED
      BY <3>1, SumOfOne
  <2>5. SumOf(table, (f .. d - 1) \cup {d}) = SumOf(table, f .. d - 1) + SumOf(table, {d})
    BY <2>2, <2>3, <2>4, SumOfBoth
  <2> QED
    BY <2>1, <2>2, <2>4, <2>5
<1> QED
  BY <1>1, <1>2, <1>4, <1>5, <1>7, <1>8, <1>9, <1>10

\* The same balances have the same sums.
LEMMA PartSame ==
    ASSUME NEW l, NEW k, NEW a, NEW n, NEW m, NEW t \in Int, NEW d \in Int,
           \A x \in Int : x < d => BalanceOf(l, a, n, x) = BalanceOf(k, a, m, x)
    PROVE  SumBefore(l, a, t, n, d) = SumBefore(k, a, t, m, d)
<1>1. PICK f \in Int : f = FirstBefore(t)
  BY FirstOfFacts, MonthBefore
<1>2. \A x \in f .. d - 1 : x \in Int /\ x < d
  BY <1>1
<1>3. \A x \in f .. d - 1 : Daily(l, a, n)[x].amount = Daily(k, a, m)[x].amount
  BY <1>2 DEF Daily
<1>4. SumOf(Daily(l, a, n), f .. d - 1) = SumOf(Daily(k, a, m), f .. d - 1)
  BY <1>3, SumOfSame
<1> QED
  BY <1>1, <1>4 DEF SumBefore

\* A log that grows keeps the sums of its first entries.
LEMMA PartStable ==
    ASSUME NEW l, NEW k, Extends(l, k), NEW a, NEW n \in Nat, n <= Len(l), Len(l) \in Nat,
           NEW t \in Int
    PROVE  /\ \A d \in Int : SumBefore(l, a, t, n, d) = SumBefore(k, a, t, n, d)
           /\ MonthOf(l, a, t, n) = MonthOf(k, a, t, n)
           /\ OwedOf(l, a, t, n) = OwedOf(k, a, t, n)
           /\ FitsOf(l, a, t, n) <=> FitsOf(k, a, t, n)
<1>3. \A x : BalanceOf(l, a, n, x) = BalanceOf(k, a, n, x)
  BY BalanceStable
<1>4. \A d \in Int : SumBefore(l, a, t, n, d) = SumBefore(k, a, t, n, d)
  BY <1>3, PartSame
<1>5. MonthOf(l, a, t, n) = MonthOf(k, a, t, n)
  BY <1>4, FirstOfFacts DEF MonthOf
<1> QED
  BY <1>4, <1>5 DEF OwedOf, FitsOf

\* Entries that are not dated in the month or before do not count.
LEMMA PartLater ==
    ASSUME NEW l, IsLog(l), NEW a, NEW n \in Nat, NEW len \in Nat, n <= len, len <= Len(l),
           NEW t \in Int,
           \A j \in n + 1 .. len : ~(l[j].acct = a /\ l[j].date < FirstOf(t))
    PROVE  /\ \A d \in Int : d <= FirstOf(t) => SumBefore(l, a, t, n, d) = SumBefore(l, a, t, len, d)
           /\ MonthOf(l, a, t, n) = MonthOf(l, a, t, len)
           /\ OwedOf(l, a, t, n) = OwedOf(l, a, t, len)
           /\ FitsOf(l, a, t, n) <=> FitsOf(l, a, t, len)
<1>1. PICK g \in Int : g = FirstOf(t)
  BY FirstOfFacts
<1>2. ASSUME NEW x \in Int, x < g PROVE BalanceOf(l, a, n, x) = BalanceOf(l, a, len, x)
  <2>1. ASSUME NEW j \in n + 1 .. len PROVE ~(l[j].acct = a /\ l[j].date <= x)
    <3>1. j \in 1 .. Len(l)
      BY DEF IsLog
    <3>2. l[j].date \in Int
      BY <3>1, LogRows
    <3> QED
      BY <1>1, <1>2, <3>2
  <2> QED
    BY <2>1, BalanceLater
<1>3. ASSUME NEW d \in Int, d <= g PROVE SumBefore(l, a, t, n, d) = SumBefore(l, a, t, len, d)
  <2>1. \A x \in Int : x < d => x < g
    BY <1>3
  <2>2. \A x \in Int : x < d => BalanceOf(l, a, n, x) = BalanceOf(l, a, len, x)
    BY <1>2, <2>1
  <2> QED
    BY <2>2, PartSame
<1>4. MonthOf(l, a, t, n) = MonthOf(l, a, t, len)
  BY <1>1, <1>3 DEF MonthOf
<1> QED
  BY <1>1, <1>3, <1>4 DEF OwedOf, FitsOf

-----------------------------------------------------------------------------
\* Part 11.  What a run has read.

\* What was read stays exact while customers post, or somebody posted to the month.
LEMMA ReadingGrows ==
    ASSUME NEW t \in Int, NEW l, NEW k, NEW cs, NEW e, NEW r \in RunType,
           Reading(t, l, cs, e, r), IsLog(l), IsLog(k), Extends(l, k)
    PROVE  Reading(t, k, cs, e, r)
<1>1. r.seen \in Nat /\ Len(l) \in Nat /\ Len(k) \in Nat /\ Len(l) <= Len(k) /\ r.day \in Int
  BY DEF RunType, IsLog, Extends
<1>2. PICK n \in Nat : n = r.seen /\ n <= Len(l)
  BY <1>1 DEF Reading
<1>3. r.seen <= Len(k)
  BY <1>1, <1>2
<1> DEFINE a == Accounts[r.i]
<1> HIDE DEF a
<1>4. \A d : SeparatedOf(cs, k, a, d) => SeparatedOf(cs, l, a, d)
  BY SeparatedStable
<1>5. \A d : BalanceOf(l, a, n, d) = BalanceOf(k, a, n, d)
  BY <1>1, <1>2, BalanceStable
<1>6. CASE r.pc = "interest"
  <2>1. /\ FirstBefore(t) <= r.day /\ r.day <= FirstOf(t) /\ e[t].seen <= n
        /\ Exactly(l, cs, a, t, n) => r.sum = SumBefore(l, a, t, n, r.day)
    BY <1>2, <1>6 DEF Reading, a
  <2>3. /\ \A d \in Int : SumBefore(l, a, t, n, d) = SumBefore(k, a, t, n, d)
        /\ FitsOf(l, a, t, n) <=> FitsOf(k, a, t, n)
    BY <1>1, <1>2, PartStable
  <2>4. LateOf(l, a, t, n) => LateOf(k, a, t, n)
    <3>1. ASSUME NEW j \in n + 1 .. Len(l) PROVE j \in n + 1 .. Len(k) /\ k[j] = l[j]
      BY <1>1 DEF Extends
    <3> QED
      BY <3>1 DEF LateOf
  <2>5. Exactly(k, cs, a, t, n) => Exactly(l, cs, a, t, n)
    BY <1>4, <2>3, <2>4 DEF Exactly
  <2>6. Exactly(k, cs, a, t, n) => r.sum = SumBefore(k, a, t, n, r.day)
    BY <1>1, <2>1, <2>3, <2>5
  <2> QED
    BY <1>2, <1>3, <1>6, <2>1, <2>6 DEF Reading, a
<1>7. CASE r.pc = "holds"
  <2>1. SeparatedOf(cs, l, a, t - 1) => r.ledger = BalanceOf(l, a, n, t)
    BY <1>2, <1>7 DEF Reading, a
  <2>2. SeparatedOf(cs, k, a, t - 1) => r.ledger = BalanceOf(k, a, n, t)
    BY <1>4, <1>5, <2>1
  <2> QED
    BY <1>2, <1>3, <1>7, <2>2 DEF Reading, a
<1>8. CASE r.pc = "watermark"
  <2>1. SeparatedOf(cs, l, a, t) => r.ledger = BalanceOf(l, a, n, t)
    BY <1>2, <1>8 DEF Reading, a
  <2>2. SeparatedOf(cs, k, a, t) => r.ledger = BalanceOf(k, a, n, t)
    BY <1>4, <1>5, <2>1
  <2> QED
    BY <1>2, <1>3, <1>8, <2>2 DEF Reading, a
<1>9. CASE r.pc # "interest" /\ r.pc # "holds" /\ r.pc # "watermark"
  BY <1>3, <1>9 DEF Reading
<1> QED
  BY <1>6, <1>7, <1>8, <1>9

\* At the beginning of an account nothing is read yet.
LEMMA ReadingBegun ==
    ASSUME NEW t \in Int, NEW l, IsLog(l), NEW cs, NEW e, NEW r,
           IsBegun(r, FirstBefore(t), Len(l)), e[t].seen <= Len(l)
    PROVE  Reading(t, l, cs, e, r)
<1>1. PICK f \in Int, n \in Nat : f = FirstBefore(t) /\ n = Len(l)
  BY FirstOfFacts, MonthBefore DEF IsLog
<1>2. PICK pc \in {"interest", "fees", "checkpoint", "finish"}, i \in Nat : r = Begun(pc, i, f, n)
  BY <1>1 DEF IsBegun
<1>3. pc \in Phases
  BY DEF Phases
<1>4. r.pc = pc /\ r.day = f /\ r.sum = 0 /\ r.seen = n
  <2>1. /\ Begun(pc, i, f, n).pc = pc /\ Begun(pc, i, f, n).day = f
        /\ Begun(pc, i, f, n).sum = 0 /\ Begun(pc, i, f, n).seen = n
    BY DEF Begun
  <2> QED
    BY <1>2, <2>1
<1>5. FirstBefore(t) <= f /\ f <= FirstOf(t) /\ n <= Len(l)
  <2>1. PICK g \in Int : g = FirstOf(t)
    BY FirstOfFacts
  <2>2. FirstBefore(t) <= g - 1
    BY <2>1, MonthBefore
  <2> QED
    BY <1>1, <2>1, <2>2
<1>6. SumBefore(l, Accounts[r.i], t, n, f) = 0
  <2>1. PICK a : a = Accounts[r.i]
    OBVIOUS
  <2>2. n <= Len(l)
    BY <1>5
  <2>3. f = FirstBefore(t) => SumBefore(l, a, t, n, f) = 0
    BY <2>2, PartFacts
  <2> QED
    BY <1>1, <2>1, <2>3
<1> QED
  BY <1>1, <1>4, <1>5, <1>6 DEF Reading

\* One day more: the day's balance is read through a checkpoint, and customers have
\* posted since the account was begun.
LEMMA SumDayReads ==
    ASSUME Types, PlaceOf(run, today, eod), Watermarks(today, log, checkpoints, eod, run),
           Reading(today, log, checkpoints, eod, run), SumDay
    PROVE  Reading(today', log', checkpoints', eod', run')
<1>1. UNCHANGED <<today, log, checkpoints, eod>> /\ run.pc = "interest"
  BY DEF SumDay
<1>2. today \in Int /\ IsLog(log) /\ IsCheckpoints(checkpoints)
  BY DEF Types
<1>3. PICK a : a = Accounts[run.i]
  OBVIOUS
<1>4. PICK n \in Nat, len \in Nat : n = run.seen /\ len = Len(log)
  BY <1>2 DEF Types, RunType, IsLog
<1>5. a = Accounts[run.i] /\ n = run.seen /\ len = Len(log)
  BY <1>3, <1>4
<1>6. /\ run'.pc = "interest" /\ run'.i = run.i /\ run'.seen = n
      /\ run'.day = run.day + 1 /\ run.day \in Int /\ run.day <= FirstOf(today) - 1
      /\ run'.sum = IF LedgerBalance(a, run.day) > 0
                    THEN Wrap64(run.sum + LedgerBalance(a, run.day)) ELSE run.sum
  BY <1>5, SumDayFacts
<1>7. PICK d \in Int, g \in Int : d = run.day /\ g = FirstOf(today) /\ d <= g - 1
  BY <1>2, <1>6, FirstOfFacts
<1>8. /\ FirstBefore(today) <= d /\ eod[today].seen <= n /\ n <= len
      /\ Exactly(log, checkpoints, a, today, n) => run.sum = SumBefore(log, a, today, n, d)
  BY <1>1, <1>5, <1>7 DEF Reading
<1>9. FirstBefore(today) \in Int
  BY <1>2, FirstOfFacts, MonthBefore
<1>10. ASSUME Exactly(log, checkpoints, a, today, n)
      PROVE  run'.sum = SumBefore(log, a, today, n, d + 1)
  <2>1. /\ SeparatedOf(checkpoints, log, a, g - 1) /\ FitsOf(log, a, today, n)
        /\ ~LateOf(log, a, today, n)
    BY <1>7, <1>10 DEF Exactly
  <2>2. g - 1 \in Int /\ checkpoints \subseteq checkpoints
    OBVIOUS
  <2>3. SeparatedOf(checkpoints, log, a, d)
    BY <1>2, <1>7, <2>1, <2>2, SeparatedLess
  <2>4. LedgerBalance(a, d) = BalanceOf(log, a, len, d)
    BY <1>5, <2>3, LedgerExact
  <2>5. BalanceOf(log, a, n, d) = BalanceOf(log, a, len, d)
    <3>1. ASSUME NEW j \in n + 1 .. len PROVE ~(log[j].acct = a /\ log[j].date <= d)
      <4>1. j \in n + 1 .. Len(log) /\ j \in 1 .. Len(log)
        BY <1>5
      <4>2. log[j].date \in Int
        BY <1>2, <4>1, LogRows
      <4>3. ~(log[j].acct = a /\ log[j].date < g)
        BY <1>7, <2>1, <4>1 DEF LateOf
      <4> QED
        BY <1>7, <4>2, <4>3
    <3> QED
      BY <1>8, <3>1, BalanceLater
  <2>6. n <= Len(log)
    BY <1>5, <1>8
  <2>7. PICK bal \in Int, day \in Nat :
            /\ bal = BalanceOf(log, a, n, d) /\ day = Daily(log, a, n)[d].amount
            /\ day = IF bal > 0 THEN bal ELSE 0
    BY <1>2, <2>6, DailyFacts
  <2>8. PICK sum \in Nat : sum = SumBefore(log, a, today, n, d)
    BY <1>2, <2>6, PartFacts
  <2>9. SumBefore(log, a, today, n, d + 1) = sum + day
    <3>1. SumBefore(log, a, today, n, d + 1) =
              SumBefore(log, a, today, n, d) + Daily(log, a, n)[d].amount
      BY <1>2, <1>8, <2>6, PartFacts
    <3> QED
      BY <2>7, <2>8, <3>1
  <2>10. sum + day <= MonthOf(log, a, today, n)
    <3>1. PICK e \in Int : e = d + 1 /\ e <= FirstOf(today)
      BY <1>7
    <3>2. SumBefore(log, a, today, n, e) <= MonthOf(log, a, today, n)
      BY <1>2, <2>6, <3>1, PartFacts
    <3> QED
      BY <2>9, <3>1, <3>2
  <2>11. MonthOf(log, a, today, n) \in Nat /\ MonthOf(log, a, today, n) <= MaxMinor
    <3>1. PICK month \in Nat : month = MonthOf(log, a, today, n)
      BY <1>2, <1>7, <2>6, PartFacts DEF MonthOf
    <3>2. Product(a).rate \in Nat /\ Product(a).rate # 0
      BY <1>1, <1>5, ProductFacts DEF PlaceOf, Earning
    <3>3. Product(a).rate = 325
      BY <3>2, ProductFacts
    <3>4. month * 325 <= MaxMinor
      BY <2>1, <3>1, <3>3 DEF FitsOf
    <3>5. MaxMinor \in Nat
      BY EodAssumption
    <3>6. month <= MaxMinor
      BY <3>4, <3>5, SMT
    <3> QED
      BY <3>1, <3>6
  <2>12. run.sum = sum /\ LedgerBalance(a, d) = bal
    BY <1>8, <1>10, <2>4, <2>5, <2>7, <2>8
  <2>13. CASE bal > 0
    <3>1. PICK x \in Int : x = sum + bal
      OBVIOUS
    <3>2. MaxMinor \in Nat
      BY EodAssumption
    <3>3. 0 <= x /\ x <= MaxMinor
      BY <2>7, <2>10, <2>11, <2>13, <3>1, <3>2
    <3>4. Wrap64(x) = x
      BY <3>3, WrapFacts
    <3>5. run'.sum = Wrap64(x)
      BY <1>6, <1>7, <2>12, <2>13, <3>1
    <3> QED
      BY <2>7, <2>9, <2>13, <3>1, <3>4, <3>5
  <2>14. CASE ~(bal > 0)
    <3>1. run'.sum = sum
      BY <1>6, <1>7, <2>12, <2>14
    <3> QED
      BY <2>7, <2>8, <2>9, <2>14, <3>1
  <2> QED
    BY <2>13, <2>14
<1>11. FirstBefore(today) <= d + 1 /\ d + 1 <= FirstOf(today)
  BY <1>7, <1>8, <1>9
<1> QED
  BY <1>1, <1>5, <1>6, <1>7, <1>8, <1>10, <1>11 DEF Reading

\* The steps that go on to an account.
LEMMA BegunNext ==
    ASSUME Types, PlaceOf(run, today, eod), IsLog(log'),
           AllAccounts \/ PostInterest \/ PostFee \/ InsertCheckpoint
    PROVE  IsBegun(run', FirstBefore(today), Len(log'))
<1>1. today \in Int /\ run.i \in Nat /\ Len(log') \in Nat
  BY DEF Types, RunType, IsLog
<1>2. FirstBefore(today) \in Int /\ first = FirstBefore(today)
  BY <1>1, RunDays DEF FirstBefore
<1>3. today \in DOMAIN eod /\ eod[today].status = "claimed"
  BY DEF PlaceOf, AllAccounts, PostInterest, PostFee, InsertCheckpoint
<1>4. \E i \in Nat : \/ InterestFrom(run', today, i, FirstBefore(today), Len(log'))
                     \/ FeesFrom(run', today, i, FirstBefore(today), Len(log'))
                     \/ CheckpointsFrom(run', i, FirstBefore(today), Len(log'))
  <2>1. CASE AllAccounts
    <3>1. PICK i \in Nat : i = 1
      OBVIOUS
    <3>2. run' = InterestPhase(i) \/ run' = FeePhase(i)
      BY <2>1, <3>1 DEF AllAccounts
    <3>3. /\ FeesFrom(FeePhase(i), today, i, first, Len(log'))
          /\ InterestFrom(InterestPhase(i), today, i, first, Len(log'))
      BY PhaseFacts
    <3> QED
      BY <1>2, <3>2, <3>3
  <2>2. run.i + 1 \in Nat
    BY <1>1
  <2>3. CASE PostInterest
    BY <2>2, <2>3, PostInterestFacts
  <2>4. CASE PostFee
    BY <2>2, <2>4, PostFeeFacts
  <2>5. CASE InsertCheckpoint
    BY <2>2, <2>5, InsertCheckpointFacts
  <2> QED
    BY <2>1, <2>3, <2>4, <2>5
<1> QED
  BY <1>1, <1>2, <1>3, <1>4, FromFacts

\* What the steps do to a log and its first entries.
LEMMA LogGrows ==
    ASSUME Types, PlaceOf(run, today, eod), Next
    PROVE  Extends(log, log')
<1>1. IsLog(log) /\ Extends(log, log)
  BY DEF Types, IsLog, Extends
<1>2. ASSUME NEW a \in Range(Accounts) \ {Suspense}, NEW m \in PostAmounts, CustomerPost(a, m)
      PROVE  Extends(log, log')
  BY <1>2, CustomerPostFacts
<1>3. CASE PostInterest
  BY <1>3, PostInterestFacts
<1>4. CASE PostFee
  BY <1>4, PostFeeFacts
<1>5. CASE log' = log
  BY <1>1, <1>5
<1> QED
  BY <1>2, <1>3, <1>4, <1>5 DEF Next, PlaceHold, ReleaseHold, CallRun, ClaimEODRun, ExpireDue,
     AllAccounts, SumDay, ReadForFee, ReadHolds, ReadBalance, InsertCheckpoint, FinishEODRun,
     Fail, NextDay

\* Every step keeps what the run has read.
LEMMA ReadingNext ==
    ASSUME Types, PlaceOf(run, today, eod), Claims(win, today, log, eod, acts),
           Watermarks(today, log, checkpoints, eod, run),
           Reading(today, log, checkpoints, eod, run), Next, Types'
    PROVE  Reading(today', log', checkpoints', eod', run')
<1>1. /\ today \in Int /\ IsLog(log) /\ IsCheckpoints(checkpoints) /\ IsLog(log')
      /\ run \in RunType /\ Len(log) \in Nat /\ Len(log') \in Nat
  BY DEF Types, IsLog
<1>2. Extends(log, log') /\ Len(log) <= Len(log')
  BY LogGrows DEF Extends
<1>3. ASSUME run'.pc \notin {"interest", "holds", "watermark"}, run'.seen = run.seen \/ run'.seen = 0
      PROVE  Reading(today', log', checkpoints', eod', run')
  <2>1. run.seen \in Nat /\ run.seen <= Len(log)
    BY <1>1 DEF Reading, RunType
  <2>2. run'.seen <= Len(log')
    BY <1>1, <1>2, <1>3, <2>1
  <2> QED
    BY <1>3, <2>2 DEF Reading
<1>4. ASSUME IsBegun(run', FirstBefore(today), Len(log')), UNCHANGED <<today, eod>>,
             run.pc # "idle"
      PROVE  Reading(today', log', checkpoints', eod', run')
  <2>1. eod[today].seen \in Nat /\ eod[today].seen <= Len(log)
    BY <1>4 DEF PlaceOf, Claims, Types, IsRuns, RowType
  <2>2. eod[today].seen <= Len(log')
    BY <1>1, <1>2, <2>1
  <2> QED
    BY <1>1, <1>4, <2>2, ReadingBegun
<1>5. ASSUME UNCHANGED <<today, checkpoints, eod, run>>
      PROVE  Reading(today', log', checkpoints', eod', run')
  BY <1>1, <1>2, <1>5, ReadingGrows
<1>6. CASE CallRun
  <2>1. run'.pc = "expire" /\ run'.seen = 0
    BY <1>6, ClaimFacts DEF CallRun
  <2> QED
    BY <1>3, <2>1
<1>7. CASE ExpireDue
  <2>1. run' = [run EXCEPT !.pc = "list"]
    BY <1>7 DEF ExpireDue
  <2>2. run'.pc = "list" /\ run'.seen = run.seen
    BY <1>1, <2>1 DEF RunType
  <2> QED
    BY <1>3, <2>2
<1>8. CASE AllAccounts \/ PostInterest \/ PostFee \/ InsertCheckpoint
  <2>1. IsBegun(run', FirstBefore(today), Len(log'))
    BY <1>1, <1>8, BegunNext
  <2> QED
    BY <1>4, <1>8, <2>1 DEF AllAccounts, PostInterest, PostFee, InsertCheckpoint
<1>9. CASE SumDay
  BY <1>9, SumDayReads
<1>10. CASE ReadForFee \/ ReadBalance
  <2>1. UNCHANGED <<today, log, checkpoints, eod>>
    BY <1>10 DEF ReadForFee, ReadBalance
  <2>2. /\ run'.i = run.i /\ run'.seen = Len(log)
        /\ \/ run.pc = "fees" /\ run'.pc = "holds"
           \/ run.pc = "checkpoint" /\ run'.pc = "watermark"
        /\ run'.ledger = LedgerBalance(Accounts[run.i], today)
    BY <1>10, ReadLedgerFacts
  <2>3. PICK a : a = Accounts[run.i]
    OBVIOUS
  <2>4. SeparatedOf(checkpoints, log, a, today) =>
            LedgerBalance(a, today) = BalanceOf(log, a, Len(log), today)
    BY <1>1, LedgerExact
  <2>5. ASSUME run.pc = "fees", SeparatedOf(checkpoints, log, a, today - 1)
        PROVE  SeparatedOf(checkpoints, log, a, today)
    <3>1. \A c \in checkpoints : c.date \in Int /\ c.date < today
      BY <1>1, <2>5 DEF Watermarks, IsCheckpoints, CheckpointType, Early
    <3>2. \A c \in checkpoints : c.date <= today => c.date <= today - 1
      BY <1>1, <3>1
    <3> QED
      BY <2>5, <3>2 DEF SeparatedOf
  <2>6. Len(log) <= Len(log)
    BY <1>1
  <2> QED
    BY <2>1, <2>2, <2>3, <2>4, <2>5, <2>6 DEF Reading
<1>11. CASE ReadHolds
  <2>1. run'.pc = "assess" /\ run'.seen = run.seen
    BY <1>11, ReadHoldsFacts
  <2> QED
    BY <1>3, <2>1
<1>12. CASE FinishEODRun \/ Fail
  <2>1. run' = Idle
    BY <1>12 DEF FinishEODRun, Fail
  <2> QED
    BY <1>3, <2>1, IdleFacts
<1>13. CASE NextDay
  BY <1>3, <1>13 DEF NextDay
<1> QED
  BY <1>5, <1>6, <1>7, <1>8, <1>9, <1>10, <1>11, <1>12, <1>13
  DEF Next, CustomerPost, PlaceHold, ReleaseHold

\* The holds that are open are those that the customers' actions so far have left.
LEMMA OpenIsHeld ==
    ASSUME Types, Holding(today, log, holds, run, acts), NEW a
    PROVE  OpenHoldTotal(a, today) = SumOf(holds, HeldAt(holds, a, today, acts))
<1>1. IsHolds(holds) /\ today \in Int /\ acts \in Nat
  BY DEF Types
<1>2. ASSUME NEW n \in 1 .. Len(holds), holds[n].expires > today
      PROVE  holds[n].released = "no" <=>
                 holds[n].placed <= acts /\ (holds[n].closed = 0 \/ holds[n].closed > acts)
  <2>1. PICK h \in HoldType : h = holds[n]
    BY <1>1 DEF IsHolds
  <2>2. /\ h.expires \in Int /\ h.released \in {"no", "expired", "cancelled"}
        /\ h.closed \in Nat
    BY DEF HoldType
  <2>3. /\ h.released = "expired" => h.expires <= today
        /\ h.closed # 0 <=> h.released = "cancelled"
        /\ h.placed <= acts /\ h.closed <= acts
    BY <2>1 DEF Holding
  <2>4. h.released # "expired"
    BY <1>1, <1>2, <2>1, <2>2, <2>3
  <2>5. ~(h.closed > acts)
    BY <1>1, <2>2, <2>3
  <2> QED
    BY <2>1, <2>2, <2>3, <2>4, <2>5
<1>3. {n \in Unexpired(a, today) : holds[n].released = "no"} = HeldAt(holds, a, today, acts)
  BY <1>2 DEF Unexpired, HeldAt
<1> QED
  BY <1>3 DEF OpenHoldTotal

\* What the steps do to the holds.
LEMMA HoldsGrow ==
    ASSUME Types, Holding(today, log, holds, run, acts), Next, Types'
    PROVE  HoldsKept(holds, holds', acts)
<1>1. HoldsKept(holds, holds, acts)
  <2>1. Len(holds) \in Nat
    BY DEF Types, IsHolds
  <2> QED
    BY <2>1 DEF HoldsKept
<1>2. ASSUME NEW a \in Range(Accounts) \ {Suspense}, NEW m \in HoldAmounts, PlaceHold(a, m)
      PROVE  HoldsKept(holds, holds', acts)
  BY <1>2, PlaceHoldFacts
<1>3. ASSUME NEW n \in 1 .. Len(holds), ReleaseHold(n)
      PROVE  HoldsKept(holds, holds', acts)
  BY <1>3, ReleaseHoldFacts
<1>4. CASE ExpireDue
  BY <1>4, ExpireDueFacts
<1>5. CASE holds' = holds
  BY <1>1, <1>5
<1> QED
  BY <1>2, <1>3, <1>4, <1>5 DEF Next, CustomerPost, CallRun, ClaimEODRun, AllAccounts,
     SumDay, PostInterest, ReadForFee, ReadHolds, PostFee, ReadBalance, InsertCheckpoint,
     FinishEODRun, Fail, NextDay

\* Every step keeps what a fee is assessed on: what customers do after it was read
\* does not show in it.
LEMMA AssessingNext ==
    ASSUME Types, PlaceOf(run, today, eod), Holding(today, log, holds, run, acts),
           Reading(today, log, checkpoints, eod, run),
           Assessing(today, log, checkpoints, holds, run), Next, Types'
    PROVE  Assessing(today', log', checkpoints', holds', run')
<1>1. /\ today \in Int /\ IsLog(log) /\ IsLog(log') /\ IsHolds(holds) /\ IsHolds(holds')
      /\ run \in RunType /\ acts \in Nat /\ Len(log) \in Nat
  BY DEF Types, IsLog
<1>2. Extends(log, log') /\ HoldsKept(holds, holds', acts)
  BY LogGrows, HoldsGrow
<1>3. ASSUME run'.pc # "assess" PROVE Assessing(today', log', checkpoints', holds', run')
  BY <1>3 DEF Assessing
<1>4. ASSUME UNCHANGED <<today, checkpoints, run>>
      PROVE  Assessing(today', log', checkpoints', holds', run')
  <2>1. PICK n \in Nat, k \in Nat : n = run.seen /\ k = run.at /\ n <= Len(log) /\ k <= acts
    BY <1>1 DEF Reading, Holding, RunType
  <2>2. PICK a : a = Accounts[run.i]
    OBVIOUS
  <2>3. BalanceOf(log, a, n, today) = BalanceOf(log', a, n, today)
    BY <1>1, <1>2, <2>1, BalanceStable
  <2>4. SumOf(holds', HeldAt(holds', a, today, k)) = SumOf(holds, HeldAt(holds, a, today, k))
    BY <1>1, <1>2, <2>1, HeldKept
  <2>5. SeparatedOf(checkpoints, log', a, today - 1) => SeparatedOf(checkpoints, log, a, today - 1)
    BY <1>1, <1>2, SeparatedStable
  <2> QED
    BY <1>4, <2>1, <2>2, <2>3, <2>4, <2>5 DEF Assessing
<1>5. CASE ReadHolds
  <2>1. UNCHANGED <<today, log, checkpoints, holds>>
    BY <1>5 DEF ReadHolds
  <2>2. /\ run'.pc = "assess" /\ run'.i = run.i /\ run'.seen = run.seen /\ run'.at = acts
        /\ run.pc = "holds"
        /\ run'.ledger = run.ledger - OpenHoldTotal(Accounts[run.i], today)
    BY <1>5, ReadHoldsFacts
  <2>3. PICK a : a = Accounts[run.i]
    OBVIOUS
  <2>4. OpenHoldTotal(a, today) = SumOf(holds, HeldAt(holds, a, today, acts))
    BY OpenIsHeld
  <2>5. SeparatedOf(checkpoints, log, a, today - 1) => run.ledger = BalanceOf(log, a, run.seen, today)
    BY <2>2, <2>3 DEF Reading
  <2> QED
    BY <2>1, <2>2, <2>3, <2>4, <2>5 DEF Assessing
<1>6. CASE AllAccounts \/ PostInterest \/ PostFee \/ InsertCheckpoint
  <2>1. IsBegun(run', FirstBefore(today), Len(log'))
    BY <1>1, <1>6, BegunNext
  <2>2. PICK pc \in {"interest", "fees", "checkpoint", "finish"}, j \in Nat :
            run' = Begun(pc, j, FirstBefore(today), Len(log'))
    BY <2>1 DEF IsBegun
  <2>3. run'.pc = pc
    BY <2>2 DEF Begun
  <2> QED
    BY <1>3, <2>3
<1>7. CASE CallRun \/ SumDay \/ ReadForFee \/ ReadBalance \/ FinishEODRun \/ Fail
  <2>1. run'.pc # "assess"
    BY <1>7, ClaimFacts, SumDayFacts, ReadLedgerFacts, IdleFacts DEF CallRun, FinishEODRun, Fail
  <2> QED
    BY <1>3, <2>1
<1>8. CASE ExpireDue
  <2>1. run' = [run EXCEPT !.pc = "list"]
    BY <1>8 DEF ExpireDue
  <2>2. run'.pc = "list"
    BY <1>1, <2>1 DEF RunType
  <2> QED
    BY <1>3, <2>2
<1>9. CASE NextDay
  <2>1. run' = run /\ run.pc = "idle"
    BY <1>9 DEF NextDay
  <2> QED
    BY <1>3, <2>1
<1> QED
  BY <1>4, <1>5, <1>6, <1>7, <1>8, <1>9 DEF Next, CustomerPost, PlaceHold, ReleaseHold

-----------------------------------------------------------------------------
\* Part 12.  The charges, of explicit tables.

FromOf(f) == IF Month(f) = 1 THEN Date(Year(f) - 1, 12, 1) ELSE Date(Year(f), Month(f) - 1, 1)

MonthAt(l, a, f, n) ==
    SumOf([d \in FromOf(f) .. f - 1 |-> [amount |-> Max({0, BalanceOf(l, a, n, d)})]],
          FromOf(f) .. f - 1)

OwedAt(l, a, f, n) ==
    LET y == Year(f - 1)
    IN  Nearest(MonthAt(l, a, f, n) * Product(a).rate,
                10000 * (337 + Date(y, 3, 1) - Date(y, 2, 1)))

FitsAt(l, a, f, n) == MonthAt(l, a, f, n) * Product(a).rate <= MaxMinor

InterestExact(l, i) ==
    LET e == l[i]
    IN  \/ ~FitsAt(l, e.acct, e.date, e.seen)
        \/ \E j \in e.seen + 1 .. i - 1 : l[j].acct = e.acct /\ l[j].date < e.date
        \/ e.amount = OwedAt(l, e.acct, e.date, e.seen)

FeeExact(l, hs, i) ==
    LET e         == l[i]
        p         == Product(e.acct)
        available == BalanceOf(l, e.acct, e.seen, e.date)
                         - SumOf(hs, HeldAt(hs, e.acct, e.date, e.at))
    IN  -e.amount = IF p.minFee > 0 /\ available < p.min THEN p.fee + p.minFee ELSE p.fee

ExactAt(l, hs, cs) ==
    LET i == Len(l) - 1
        e == l[i]
    IN  Len(l) > 1 /\ SeparatedOf(cs, l, e.acct, e.date - 1) =>
            /\ e.key[1] = "interest" => InterestExact(l, i)
            /\ e.key[1] = "fee" => FeeExact(l, hs, i)

\* The charges are those of the property.
LEMMA ExactDefined == ChargesAreExact <=> ExactAt(log, holds, checkpoints)
BY DEF ChargesAreExact, ExactAt, Separated, SeparatedOf, InterestIsExact, InterestExact,
       FeeIsExact, FeeExact, Fits, FitsAt, Owed, OwedAt, MonthSum, MonthAt, FromOf, Total, Entries,
       BalanceOf, IdsOf, HeldAt, Unexpired

\* The month before a first is the month before any day of its month.
LEMMA FirstAt ==
    ASSUME NEW l, NEW a, NEW n, NEW t \in Int
    PROVE  /\ MonthAt(l, a, FirstOf(t), n) = MonthOf(l, a, t, n)
           /\ OwedAt(l, a, FirstOf(t), n) = OwedOf(l, a, t, n)
           /\ FitsAt(l, a, FirstOf(t), n) <=> FitsOf(l, a, t, n)
<1>1. PICK g \in Int, f \in Int : g = FirstOf(t) /\ f = FirstBefore(t) /\ f = FromOf(g)
  <2>1. PICK g \in Int : g = FirstOf(t)
    BY FirstOfFacts
  <2>2. FirstBefore(t) \in Int /\ FirstBefore(t) = FromOf(g)
    BY <2>1, MonthBefore DEF FromOf
  <2> QED
    BY <2>1, <2>2
<1> DEFINE part == [d \in f .. g - 1 |-> [amount |-> Max({0, BalanceOf(l, a, n, d)})]]
<1>2. MonthAt(l, a, g, n) = SumOf(part, f .. g - 1)
  BY <1>1 DEF MonthAt
<1>3. \A d \in f .. g - 1 : part[d].amount = Daily(l, a, n)[d].amount
  BY DEF Daily
<1>4. MonthOf(l, a, t, n) = SumOf(Daily(l, a, n), f .. g - 1)
  BY <1>1 DEF MonthOf, SumBefore
<1> HIDE DEF part
<1>5. SumOf(part, f .. g - 1) = SumOf(Daily(l, a, n), f .. g - 1)
  BY <1>3, SumOfSame
<1>6. MonthAt(l, a, FirstOf(t), n) = MonthOf(l, a, t, n)
  BY <1>1, <1>2, <1>4, <1>5
<1>7. OwedAt(l, a, FirstOf(t), n) = OwedOf(l, a, t, n)
  BY <1>6 DEF OwedAt, OwedOf, YearDays
<1> QED
  BY <1>6, <1>7 DEF FitsAt, FitsOf

\* More checkpoints, later holds and holds that are closed later do not change what
\* the last posting should have been.
LEMMA ExactKept ==
    ASSUME NEW l, NEW hs, NEW cs, NEW gs, NEW bs, NEW k \in Nat, ExactAt(l, hs, cs),
           cs \subseteq bs, IsLog(l), IsHolds(hs), IsHolds(gs), HoldsKept(hs, gs, k),
           \A i \in 1 .. Len(l) : l[i].at <= k
    PROVE  ExactAt(l, gs, bs)
<1>1. CASE ~(Len(l) > 1)
  BY <1>1 DEF ExactAt
<1>2. CASE Len(l) > 1
  <2>1. PICK i \in 1 .. Len(l) : i = Len(l) - 1
    <3>1. Len(l) - 1 \in 1 .. Len(l)
      BY <1>2 DEF IsLog
    <3> QED
      BY <3>1
  <2>2. PICK e : e = l[i]
    OBVIOUS
  <2>3. PICK j \in Nat : j = e.at /\ j <= k
    BY <2>2, LogRows
  <2>4. SeparatedOf(bs, l, e.acct, e.date - 1) => SeparatedOf(cs, l, e.acct, e.date - 1)
    BY DEF SeparatedOf
  <2>5. PICK a, d : a = e.acct /\ d = e.date
    OBVIOUS
  <2>6. SumOf(gs, HeldAt(gs, a, d, j)) = SumOf(hs, HeldAt(hs, a, d, j))
    BY <2>3, HeldKept
  <2>7. FeeExact(l, hs, i) => FeeExact(l, gs, i)
    BY <2>2, <2>3, <2>5, <2>6 DEF FeeExact
  <2> QED
    BY <2>1, <2>2, <2>4, <2>7 DEF ExactAt
<1> QED
  BY <1>1, <1>2

\* What PostInterest posts is what is owed.
LEMMA InterestOwed ==
    ASSUME Types, PlaceOf(run, today, eod), Reading(today, log, checkpoints, eod, run),
           PostInterest, NEW a, a = Accounts[run.i],
           Exactly(log, checkpoints, a, today, run.seen)
    PROVE  InterestFor(run.sum, Product(a).rate, YearDays(today)) = OwedOf(log, a, today, run.seen)
<1>1. run.pc = "interest" /\ run.day > prevMonthEnd
  BY DEF PostInterest
<1>2. today \in Int /\ IsLog(log) /\ run.day \in Int
  BY DEF Types, RunType
<1>3. PICK g \in Int : g = FirstOf(today) /\ prevMonthEnd = g - 1
  BY <1>2, RunDays
<1>4. run.day <= g /\ run.seen <= Len(log) /\ run.sum = SumBefore(log, a, today, run.seen, run.day)
  BY <1>1, <1>3 DEF Reading
<1>5. run.day = g
  BY <1>1, <1>2, <1>3, <1>4
<1>6. PICK n \in Nat : n = run.seen /\ n <= Len(log)
  BY <1>4 DEF Types, RunType
<1>7. PICK sum \in Nat : sum = MonthOf(log, a, today, n) /\ sum = SumBefore(log, a, today, n, g)
  BY <1>2, <1>3, <1>6, PartFacts DEF MonthOf
<1>8. run.sum = sum
  BY <1>4, <1>5, <1>6, <1>7
<1>9. sum * Product(a).rate <= MaxMinor
  BY <1>6, <1>7 DEF Exactly, FitsOf
<1>10. YearDays(today) \in {365, 366}
  BY <1>2, YearDaysFacts
<1>11. sum \in Int /\ sum >= 0
  OBVIOUS
<1>12. InterestFor(sum, Product(a).rate, YearDays(today)) =
           Nearest(sum * Product(a).rate, 10000 * YearDays(today))
  BY <1>9, <1>10, <1>11, InterestFacts
<1> QED
  BY <1>6, <1>7, <1>8, <1>12 DEF OwedOf

\* What PostInterest adds is exact, for what the run has read.
LEMMA InterestPosted ==
    ASSUME Types, PlaceOf(run, today, eod),
           Reading(today, log, checkpoints, eod, run), ExactAt(log, holds, checkpoints),
           PostInterest
    PROVE  ExactAt(log', holds', checkpoints')
<1>1. PICK a : a = Accounts[run.i]
  OBVIOUS
<1>2. PICK m : m = InterestFor(run.sum, Product(a).rate, YearDays(today))
  OBVIOUS
<1>3. PICK key : key = <<"interest", FirstBefore(today)>>
  OBVIOUS
<1>4. /\ m \in Int /\ a \in Range(Accounts) /\ IsLog(log') /\ Extends(log, log')
      /\ \/ log' = log
         \/ \E id \in Nat \ {0}, read \in [seen : Nat, at : Nat] :
                /\ read.seen = run.seen
                /\ Adds2(log, log', Entry(a, m, FirstOf(today), key, id, read),
                                    Entry(Suspense, -m, FirstOf(today), key, id, read))
  BY <1>1, <1>2, <1>3, PostInterestFacts
<1>5. UNCHANGED <<holds, checkpoints>> /\ run.pc = "interest"
  BY DEF PostInterest
<1>6. CASE log' = log
  BY <1>5, <1>6
<1>7. ASSUME NEW id \in Nat \ {0}, NEW read \in [seen : Nat, at : Nat], read.seen = run.seen,
             Adds2(log, log', Entry(a, m, FirstOf(today), key, id, read),
                              Entry(Suspense, -m, FirstOf(today), key, id, read))
      PROVE  ExactAt(log', holds', checkpoints')
  <2>1. today \in Int /\ IsLog(log) /\ IsCheckpoints(checkpoints)
    BY DEF Types
  <2>2. PICK g \in Int : g = FirstOf(today)
    BY <2>1, FirstOfFacts
  <2>3. FirstBefore(today) \in Int
    BY <2>1, <2>2, MonthBefore
  <2>4. PICK n \in Nat, len \in Nat : n = run.seen /\ len = Len(log) /\ n <= len
    BY <1>5, <2>1 DEF Types, RunType, IsLog, Reading
  <2>5. key \in {"customer", "interest", "fee"} \X Int /\ key[1] = "interest"
    BY <1>3, <2>3
  <2>6. PICK x : x = Entry(a, m, g, key, id, read)
    OBVIOUS
  <2>7. x.acct = a /\ x.amount = m /\ x.date = g /\ x.key = key /\ x.seen = n
    BY <1>7, <2>4, <2>6 DEF Entry
  <2>8. Len(log') - 1 = len + 1 /\ log'[len + 1] = x /\ Len(log') \in Nat
    BY <1>4, <1>7, <2>2, <2>4, <2>6 DEF Adds2, IsLog
  <2>9. ASSUME SeparatedOf(checkpoints, log', a, g - 1)
        PROVE  InterestExact(log', len + 1)
    <3>1. SeparatedOf(checkpoints, log, a, g - 1)
      BY <1>4, <2>1, <2>9, SeparatedStable
    <3>2. n <= Len(log) /\ Len(log) \in Nat
      BY <2>4
    <3>3. /\ OwedOf(log, a, today, n) = OwedOf(log', a, today, n)
          /\ FitsOf(log, a, today, n) <=> FitsOf(log', a, today, n)
      BY <1>4, <2>1, <3>2, PartStable
    <3>4. /\ OwedAt(log', a, g, n) = OwedOf(log', a, today, n)
          /\ FitsAt(log', a, g, n) <=> FitsOf(log', a, today, n)
      BY <2>1, <2>2, FirstAt
    <3>5. LateOf(log, a, today, n) =>
              \E j \in n + 1 .. len : log'[j].acct = a /\ log'[j].date < g
      <4>1. ASSUME NEW j \in n + 1 .. len PROVE log'[j] = log[j]
        <5>1. j \in 1 .. Len(log)
          BY <2>4
        <5> QED
          BY <1>4, <5>1 DEF Extends
      <4> QED
        BY <2>2, <2>4, <4>1 DEF LateOf
    <3>6. ASSUME FitsAt(log', a, g, n), ~ \E j \in n + 1 .. len : log'[j].acct = a /\ log'[j].date < g
          PROVE  m = OwedAt(log', a, g, n)
      <4>1. Exactly(log, checkpoints, a, today, n)
        BY <2>2, <3>1, <3>3, <3>4, <3>5, <3>6 DEF Exactly
      <4>2. m = OwedOf(log, a, today, n)
        BY <1>1, <1>2, <2>4, <4>1, InterestOwed
      <4> QED
        BY <3>3, <3>4, <4>2
    <3>7. len + 1 - 1 = len
      OBVIOUS
    <3>8. InterestExact(log', len + 1) <=>
              \/ ~FitsAt(log', a, g, n)
              \/ \E j \in n + 1 .. len : log'[j].acct = a /\ log'[j].date < g
              \/ m = OwedAt(log', a, g, n)
      BY <2>7, <2>8, <3>7 DEF InterestExact
    <3> QED
      BY <3>6, <3>8
  <2>10. x.key[1] # "fee" /\ x.key[1] = "interest"
    BY <2>5, <2>7
  <2> QED
    BY <1>5, <2>7, <2>8, <2>9, <2>10 DEF ExactAt
<1> QED
  BY <1>4, <1>6, <1>7

\* What PostFee adds is exact, for the balance and the holds that were read.
LEMMA FeePosted ==
    ASSUME Types, PlaceOf(run, today, eod), Reading(today, log, checkpoints, eod, run),
           Assessing(today, log, checkpoints, holds, run), PostFee
    PROVE  ExactAt(log', holds', checkpoints') \/ log' = log
<1>1. PICK a : a = Accounts[run.i]
  OBVIOUS
<1>2. PICK m : m = FeeOf(a, run.ledger)
  OBVIOUS
<1>3. PICK key : key = <<"fee", today>>
  OBVIOUS
<1>4. /\ m \in Nat /\ a \in Range(Accounts) /\ IsLog(log') /\ Extends(log, log')
      /\ \/ log' = log
         \/ \E id \in Nat \ {0}, read \in [seen : Nat, at : Nat] :
                /\ read.seen = run.seen /\ read.at = run.at
                /\ Adds2(log, log', Entry(a, -m, today, key, id, read),
                                    Entry(Suspense, -(-m), today, key, id, read))
  BY <1>1, <1>2, <1>3, PostFeeFacts
<1>5. UNCHANGED <<holds, checkpoints>> /\ run.pc = "assess"
  BY DEF PostFee
<1>6. ASSUME NEW id \in Nat \ {0}, NEW read \in [seen : Nat, at : Nat], read.seen = run.seen,
             read.at = run.at, Adds2(log, log', Entry(a, -m, today, key, id, read),
                                                Entry(Suspense, -(-m), today, key, id, read))
      PROVE  ExactAt(log', holds', checkpoints')
  <2>1. today \in Int /\ IsLog(log)
    BY DEF Types
  <2>2. PICK o \in Int : o = -m /\ -o = m
    BY <1>4
  <2>3. PICK n \in Nat, k \in Nat, len \in Nat :
            n = run.seen /\ k = run.at /\ len = Len(log) /\ n <= len
    BY <1>5, <2>1 DEF Types, RunType, IsLog, Reading
  <2>4. key[1] = "fee"
    BY <1>3
  <2>5. PICK x : x = Entry(a, o, today, key, id, read)
    OBVIOUS
  <2>6. x.acct = a /\ x.amount = o /\ x.date = today /\ x.key = key /\ x.seen = n /\ x.at = k
    BY <1>6, <2>3, <2>5 DEF Entry
  <2>7. PICK i \in Int : i = len + 1
    BY <2>3
  <2>8. Len(log') - 1 = i /\ log'[i] = x /\ Len(log') \in Nat
    BY <1>4, <1>6, <2>2, <2>3, <2>5, <2>7 DEF Adds2, IsLog
  <2>9. ASSUME SeparatedOf(checkpoints, log', a, today - 1)
        PROVE  FeeExact(log', holds, i)
    <3>1. SeparatedOf(checkpoints, log, a, today - 1)
      BY <1>4, <2>1, <2>9, SeparatedStable
    <3>2. run.ledger = BalanceOf(log, a, n, today) - SumOf(holds, HeldAt(holds, a, today, k))
      BY <1>1, <1>5, <2>3, <3>1 DEF Assessing
    <3>3. BalanceOf(log, a, n, today) = BalanceOf(log', a, n, today)
      BY <1>4, <2>3, BalanceStable
    <3>4. run.ledger = BalanceOf(log', a, n, today) - SumOf(holds, HeldAt(holds, a, today, k))
      BY <3>2, <3>3
    <3>5. Product(a).fee \in Nat /\ Product(a).minFee \in Nat
      BY ProductFacts, SMT
    <3>6. m = IF Product(a).minFee > 0 /\ run.ledger < Product(a).min
              THEN Product(a).fee + Product(a).minFee ELSE Product(a).fee
      BY <1>2, <3>5 DEF FeeOf
    <3> QED
      BY <2>2, <2>6, <2>8, <3>4, <3>6 DEF FeeExact
  <2>10. x.key[1] # "interest"
    BY <2>4, <2>6
  <2> QED
    BY <1>5, <2>6, <2>8, <2>9, <2>10 DEF ExactAt
<1> QED
  BY <1>4, <1>6

\* Before the first day nothing is charged.
LEMMA ExactInit ==
    ASSUME Init
    PROVE  ExactAt(log, holds, checkpoints)
<1>1. win \in Windows /\ log = OpeningLog(win)
  BY DEF Init
<1>2. IsLog(log) /\ \A i \in 1 .. Len(log) : log[i].key = Customer
  BY <1>1, OpeningTyped
<1>3. Len(log) > 1 => Len(log) - 1 \in 1 .. Len(log)
  BY <1>2 DEF IsLog
<1>4. Len(log) > 1 => log[Len(log) - 1].key = Customer
  BY <1>2, <1>3
<1>5. Customer[1] = "customer"
  BY DEF Customer
<1> QED
  BY <1>4, <1>5 DEF ExactAt

\* Every step keeps the last charge exact.
LEMMA ExactNext ==
    ASSUME Types, PlaceOf(run, today, eod), Holding(today, log, holds, run, acts),
           Reading(today, log, checkpoints, eod, run),
           Assessing(today, log, checkpoints, holds, run),
           ExactAt(log, holds, checkpoints), Next, Types'
    PROVE  ExactAt(log', holds', checkpoints')
<1>1. /\ IsLog(log) /\ IsHolds(holds) /\ IsHolds(holds') /\ acts \in Nat /\ Len(log) \in Nat
      /\ HoldsKept(holds, holds', acts) /\ \A i \in 1 .. Len(log) : log[i].at <= acts
  BY HoldsGrow DEF Types, IsLog, Holding
<1>2. ASSUME log' = log, checkpoints \subseteq checkpoints'
      PROVE  ExactAt(log', holds', checkpoints')
  <2>1. ExactAt(log, holds', checkpoints')
    BY <1>1, <1>2, ExactKept
  <2> QED
    BY <1>2, <2>1
<1>3. ASSUME NEW a \in Range(Accounts) \ {Suspense}, NEW m \in PostAmounts, CustomerPost(a, m)
      PROVE  ExactAt(log', holds', checkpoints')
  <2>1. PICK d \in Int, o \in Int, id \in Nat \ {0}, read \in [seen : Nat, at : Nat] :
            Adds2(log, log', Entry(a, m, d, Customer, id, read),
                             Entry(Suspense, o, d, Customer, id, read))
    BY <1>3, CustomerPostFacts
  <2>2. PICK x : x = Entry(a, m, d, Customer, id, read)
    OBVIOUS
  <2>3. x.key = <<"customer", 0>>
    BY <2>2 DEF Entry, Customer
  <2>4. x.key[1] = "customer"
    BY <2>3
  <2>5. Len(log') - 1 = Len(log) + 1 /\ log'[Len(log) + 1] = x
    BY <1>1, <2>1, <2>2 DEF Adds2
  <2> QED
    BY <2>4, <2>5 DEF ExactAt
<1>4. CASE InsertCheckpoint
  <2>1. log' = log
    BY <1>4 DEF InsertCheckpoint
  <2>2. checkpoints \subseteq checkpoints'
    BY <1>4, InsertCheckpointFacts
  <2> QED
    BY <1>2, <2>1, <2>2
<1>5. CASE PostInterest
  BY <1>5, InterestPosted
<1>6. CASE PostFee
  <2>1. checkpoints' = checkpoints
    BY <1>6 DEF PostFee
  <2> QED
    BY <1>2, <1>6, <2>1, FeePosted
<1>7. CASE UNCHANGED <<log, checkpoints>>
  BY <1>2, <1>7
<1> QED
  BY <1>3, <1>4, <1>5, <1>6, <1>7 DEF Next, PlaceHold, ReleaseHold, CallRun, ClaimEODRun,
     ExpireDue, AllAccounts, SumDay, ReadForFee, ReadHolds, ReadBalance, FinishEODRun, Fail,
     NextDay

\* What the charges and the completeness of a day rest on.
Core ==
    /\ Types /\ PlaceOf(run, today, eod)
    /\ Claims(win, today, log, eod, acts)
    /\ Watermarks(today, log, checkpoints, eod, run)
    /\ Holding(today, log, holds, run, acts)
    /\ Reading(today, log, checkpoints, eod, run)
    /\ Assessing(today, log, checkpoints, holds, run)

\* It holds before the first day: nothing is claimed, held or checkpointed.
LEMMA CoreInit ==
    ASSUME Init
    PROVE  Core
<1>1. Types /\ PlaceOf(run, today, eod) /\ Claims(win, today, log, eod, acts)
  BY TypesInit, ClaimsInit
<1>2. checkpoints = {} /\ holds = <<>> /\ run.pc = "idle" /\ run.seen = 0 /\ run.at = 0 /\ acts = 0
  BY IdleFacts DEF Init
<1>3. \A i \in 1 .. Len(log) : log[i].at = 0
  BY OpeningTyped DEF Init
<1>4. Len(log) \in Nat
  BY <1>1 DEF Types, IsLog
<1>5. Watermarks(today, log, checkpoints, eod, run)
  BY <1>2 DEF Watermarks
<1>6. Holding(today, log, holds, run, acts)
  <2>1. 1 .. Len(holds) = {}
    BY <1>2
  <2> QED
    BY <1>2, <1>3, <2>1 DEF Holding
<1>7. /\ Reading(today, log, checkpoints, eod, run)
      /\ Assessing(today, log, checkpoints, holds, run)
  BY <1>2, <1>4 DEF Reading, Assessing
<1> QED
  BY <1>1, <1>5, <1>6, <1>7 DEF Core

\* Every step keeps it.
LEMMA CoreNext ==
    ASSUME Core, Next
    PROVE  Core' /\ Types'
<1>1. /\ Types /\ PlaceOf(run, today, eod) /\ Claims(win, today, log, eod, acts)
      /\ Watermarks(today, log, checkpoints, eod, run)
      /\ Holding(today, log, holds, run, acts)
      /\ Reading(today, log, checkpoints, eod, run)
      /\ Assessing(today, log, checkpoints, holds, run)
  BY DEF Core
<1>2. Types' /\ PlaceOf(run', today', eod')
  BY <1>1, TypesNext
<1>3. Claims(win', today', log', eod', acts')
  BY <1>1, ClaimsNext
<1>4. Watermarks(today', log', checkpoints', eod', run')
  BY <1>1, <1>2, WatermarksNext
<1>5. Holding(today', log', holds', run', acts')
  BY <1>1, <1>2, HoldingNext
<1>6. Reading(today', log', checkpoints', eod', run')
  BY <1>1, <1>2, ReadingNext
<1>7. Assessing(today', log', checkpoints', holds', run')
  BY <1>1, <1>2, AssessingNext
<1> QED
  BY <1>2, <1>3, <1>4, <1>5, <1>6, <1>7 DEF Core

\* What end of day credits and charges follows from the entries alone: the interest
\* that PostInterest posts is the month's, rounded once to even, and the fee that
\* PostFee posts is on the balance that was available, as long as the watermarks of
\* the checkpoints separate.
THEOREM EodChargesExact == Spec => []ChargesAreExact
<1> DEFINE E == ExactAt(log, holds, checkpoints)
<1>1. Init => Core /\ E
  BY CoreInit, ExactInit
<1>2. Core /\ E /\ [Next]_vars => Core' /\ E'
  <2>1. CASE Next
    <3>1. ASSUME Core, E PROVE Core' /\ ExactAt(log', holds', checkpoints')
      BY <2>1, <3>1, CoreNext, ExactNext DEF Core
    <3> QED
      BY <3>1
  <2>2. CASE UNCHANGED vars
    BY <2>2 DEF vars, Core, Types
  <2> QED
    BY <2>1, <2>2
<1>3. E => ChargesAreExact
  BY ExactDefined
<1> QED
  BY <1>1, <1>2, <1>3, PTL DEF Spec

-----------------------------------------------------------------------------
\* Part 13.  Progress: what a run has done stays done.

\* A key that is taken stays taken.
LEMMA KeyGrows ==
    ASSUME NEW l, NEW k, IsLog(l), IsLog(k), Extends(l, k), NEW a, NEW key, KeyIn(l, a, key)
    PROVE  KeyIn(k, a, key)
<1>1. Len(l) \in Nat /\ Len(k) \in Nat /\ Len(l) <= Len(k)
  BY DEF IsLog, Extends
<1>2. PICK i \in 1 .. Len(l) : l[i].acct = a /\ l[i].key = key
  BY DEF KeyIn
<1>3. i \in 1 .. Len(k) /\ k[i] = l[i]
  BY <1>1, <1>2 DEF Extends
<1> QED
  BY <1>2, <1>3 DEF KeyIn

\* Interest that is settled stays settled: whoever posts to the month later is late.
LEMMA SettledGrows ==
    ASSUME NEW t \in Int, NEW l, NEW k, IsLog(l), IsLog(k), Extends(l, k),
           NEW cs, NEW bs, cs \subseteq bs, IsCheckpoints(cs), IsCheckpoints(bs),
           NEW a, NEW n \in Nat, n <= Len(l), Settled(l, cs, a, t, n)
    PROVE  Settled(k, bs, a, t, n)
<1>1. SUFFICES ASSUME ~Settled(k, bs, a, t, n) PROVE FALSE
  OBVIOUS
<1>2. PICK len \in Nat : len = Len(l)
  BY DEF IsLog
<1>3. PICK all \in Nat : all = Len(k) /\ len <= all
  BY <1>2 DEF IsLog, Extends
<1>4. ~KeyIn(l, a, <<"interest", FirstBefore(t)>>)
  BY <1>1, KeyGrows DEF Settled
<1>5. SeparatedOf(cs, l, a, FirstOf(t) - 1)
  <2>1. PICK d \in Int : d = FirstOf(t) - 1 /\ d <= d
    BY FirstOfFacts
  <2>2. SeparatedOf(bs, k, a, d)
    BY <1>1, <2>1 DEF Settled
  <2>3. SeparatedOf(cs, k, a, d)
    BY <2>1, <2>2, SeparatedLess
  <2>4. SeparatedOf(cs, l, a, d)
    BY <2>3, SeparatedStable
  <2> QED
    BY <2>1, <2>4
<1>6. \A j \in n + 1 .. all : ~(k[j].acct = a /\ k[j].date < FirstOf(t))
  BY <1>1, <1>3 DEF Settled, LateOf
<1>7. ~LateOf(l, a, t, n)
  <2>1. ASSUME NEW j \in n + 1 .. len PROVE ~(l[j].acct = a /\ l[j].date < FirstOf(t))
    <3>1. j \in 1 .. Len(l) /\ j \in n + 1 .. all
      BY <1>2, <1>3
    <3>2. k[j] = l[j]
      BY <3>1 DEF Extends
    <3> QED
      BY <1>6, <3>1, <3>2
  <2> QED
    BY <1>2, <2>1 DEF LateOf
<1>8. \A j \in len + 1 .. all : ~(k[j].acct = a /\ k[j].date < FirstOf(t))
  <2>1. \A j \in len + 1 .. all : j \in n + 1 .. all
    BY <1>2, <1>3
  <2> QED
    BY <1>6, <2>1
<1>9. all <= Len(k) /\ len <= Len(l)
  BY <1>2, <1>3
<1>10. /\ OwedOf(k, a, t, len) = OwedOf(k, a, t, all)
       /\ FitsOf(k, a, t, len) <=> FitsOf(k, a, t, all)
  BY <1>3, <1>8, <1>9, PartLater
<1>11. /\ OwedOf(l, a, t, len) = OwedOf(k, a, t, len)
       /\ FitsOf(l, a, t, len) <=> FitsOf(k, a, t, len)
  BY <1>2, <1>9, PartStable
<1> QED
  BY <1>1, <1>2, <1>3, <1>4, <1>5, <1>7, <1>10, <1>11 DEF Settled

\* The tables grow, from a log that a day's claim has seen.
Grown(l, k, cs, bs, n) ==
    /\ IsLog(l) /\ IsLog(k) /\ Extends(l, k)
    /\ cs \subseteq bs /\ IsCheckpoints(cs) /\ IsCheckpoints(bs)
    /\ n \in Nat /\ n <= Len(l)

\* What is done stays done.
LEMMA DoneGrows ==
    ASSUME NEW t \in Int, NEW l, NEW k, NEW cs, NEW bs, NEW n, Grown(l, k, cs, bs, n), NEW i
    PROVE  /\ InterestDone(l, cs, t, n, i) => InterestDone(k, bs, t, n, i)
           /\ FeesDone(l, t, i) => FeesDone(k, t, i)
           /\ CheckpointsDone(cs, t, i) => CheckpointsDone(bs, t, i)
<1>1. \A a : Settled(l, cs, a, t, n) => Settled(k, bs, a, t, n)
  BY SettledGrows DEF Grown
<1>2. \A a : KeyIn(l, a, <<"fee", t>>) => KeyIn(k, a, <<"fee", t>>)
  BY KeyGrows DEF Grown
<1>3. cs \subseteq bs
  BY DEF Grown
<1> QED
  BY <1>1, <1>2, <1>3 DEF InterestDone, FeesDone, CheckpointsDone

\* Holds that are closed stay closed, and new ones are placed later.
LEMMA HoldsDoneKept ==
    ASSUME NEW hs, NEW gs, IsHolds(hs), IsHolds(gs), NEW k \in Nat, HoldsKept(hs, gs, k),
           NEW j \in Nat, j <= k, NEW t, HoldsDone(hs, t, j)
    PROVE  HoldsDone(gs, t, j)
<1>1. PICK n \in Nat, m \in Nat : n = Len(hs) /\ m = Len(gs) /\ n <= m
  BY DEF IsHolds, HoldsKept
<1>2. ASSUME NEW i \in 1 .. m, gs[i].placed <= j
      PROVE  gs[i].released # "no" \/ gs[i].expires > t
  <2>1. CASE i \in 1 .. n
    <3>1. /\ hs[i].placed = gs[i].placed /\ hs[i].expires = gs[i].expires
          /\ hs[i].released # "no" => gs[i].released # "no"
      BY <1>1, <2>1 DEF HoldsKept
    <3>2. hs[i].released # "no" \/ hs[i].expires > t
      BY <1>1, <1>2, <2>1, <3>1 DEF HoldsDone
    <3> QED
      BY <3>1, <3>2
  <2>2. CASE i \in n + 1 .. m
    <3>1. gs[i].placed > k
      BY <1>1, <2>2 DEF HoldsKept
    <3>2. gs[i].placed \in Nat
      <4>1. gs[i] \in HoldType
        BY <1>1 DEF IsHolds
      <4> QED
        BY <4>1 DEF HoldType
    <3> QED
      BY <1>2, <3>1, <3>2
  <2> QED
    BY <1>1, <2>1, <2>2
<1> QED
  BY <1>1, <1>2 DEF HoldsDone

\* The run stays where it is, or has read what it needs for its account.
Stays(r, q) ==
    /\ q.i = r.i
    /\ q.pc = r.pc \/ <<r.pc, q.pc>> \in {<<"fees", "holds">>, <<"holds", "assess">>,
                                          <<"checkpoint", "watermark">>}

\* A step that only adds to the tables keeps the progress.
LEMMA ProgressGrows ==
    ASSUME NEW t \in Int, NEW l, NEW k, NEW cs, NEW bs, NEW hs, NEW gs, NEW e, NEW r, NEW q,
           Progress(t, l, hs, cs, e, r), Stays(r, q),
           t \in DOMAIN e => (HoldsDone(hs, t, e[t].at) => HoldsDone(gs, t, e[t].at)),
           r.pc # "idle" => t \in DOMAIN e,
           t \in DOMAIN e => Grown(l, k, cs, bs, e[t].seen)
    PROVE  Progress(t, k, gs, bs, e, q)
<1>1. CASE t \in DOMAIN e
  <2>1. \A i : /\ InterestDone(l, cs, t, e[t].seen, i) => InterestDone(k, bs, t, e[t].seen, i)
               /\ FeesDone(l, t, i) => FeesDone(k, t, i)
               /\ CheckpointsDone(cs, t, i) => CheckpointsDone(bs, t, i)
    BY <1>1, DoneGrows
  <2>2. HoldsDone(hs, t, e[t].at) => HoldsDone(gs, t, e[t].at)
    BY <1>1
  <2>3. CASE q.pc = r.pc
    BY <2>1, <2>2, <2>3 DEF Progress, Stays
  <2>4. CASE r.pc = "fees" /\ q.pc = "holds"
    BY <2>1, <2>2, <2>4 DEF Progress, Stays
  <2>5. CASE r.pc = "holds" /\ q.pc = "assess"
    BY <2>1, <2>2, <2>5 DEF Progress, Stays
  <2>6. CASE r.pc = "checkpoint" /\ q.pc = "watermark"
    BY <2>1, <2>2, <2>6 DEF Progress, Stays
  <2> QED
    BY <2>3, <2>4, <2>5, <2>6 DEF Stays
<1>2. CASE t \notin DOMAIN e
  <2>1. r.pc = "idle" /\ ~Finished(t, e)
    BY <1>2 DEF Finished
  <2>2. q.pc = "idle"
    BY <2>1 DEF Stays
  <2> QED
    BY <2>1, <2>2 DEF Progress
<1> QED
  BY <1>1, <1>2

\* A loop over the checkpoints goes on, with everything before it done.
LEMMA ProgressAtCheckpoints ==
    ASSUME NEW t, NEW l, NEW hs, NEW cs, NEW e, NEW r, NEW i \in Nat, NEW f \in Int, NEW n \in Nat,
           ~Finished(t, e), CheckpointsFrom(r, i, f, n), HoldsDone(hs, t, e[t].at),
           InterestDone(l, cs, t, e[t].seen, All), FeesDone(l, t, All), CheckpointsDone(cs, t, i)
    PROVE  Progress(t, l, hs, cs, e, r)
<1>1. "checkpoint" \in Phases /\ "finish" \in Phases
  BY DEF Phases
<1>2. CASE Passed(1 .. Len(Accounts), i) /\ r = Begun("finish", 1, f, n)
  <2>1. r.pc = "finish"
    BY <1>1, <1>2, BegunTyped
  <2>2. CheckpointsDone(cs, t, All)
    BY <1>2 DEF CheckpointsDone, Passed
  <2> QED
    BY <2>1, <2>2 DEF Progress
<1>3. CASE At(r, "checkpoint", 1 .. Len(Accounts), i, f, n)
  <2>1. PICK j \in 1 .. Len(Accounts) : /\ \A p \in 1 .. Len(Accounts) : p < j => p < i
                                        /\ r = Begun("checkpoint", j, f, n)
    BY <1>3 DEF At
  <2>2. j \in Nat
    BY PlacesFacts
  <2>3. r.pc = "checkpoint" /\ r.i = j
    BY <1>1, <2>1, <2>2, BegunTyped
  <2>4. CheckpointsDone(cs, t, j)
    BY <2>1 DEF CheckpointsDone
  <2> QED
    BY <2>3, <2>4 DEF Progress
<1> QED
  BY <1>2, <1>3 DEF CheckpointsFrom

\* A loop over the fees goes on, or the checkpoints begin.
LEMMA ProgressAtFees ==
    ASSUME NEW t, NEW l, NEW hs, NEW cs, NEW e, NEW r, NEW i \in Nat, NEW f \in Int, NEW n \in Nat,
           ~Finished(t, e), FeesFrom(r, t, i, f, n), HoldsDone(hs, t, e[t].at),
           InterestDone(l, cs, t, e[t].seen, All), FeesDone(l, t, i)
    PROVE  Progress(t, l, hs, cs, e, r)
<1>1. CASE (isMonthEnd(t) => Passed(Paying, i)) /\ CheckpointsFrom(r, 1, f, n)
  <2>1. FeesDone(l, t, All)
    BY <1>1 DEF FeesDone, Passed
  <2>2. PICK one \in Nat : one = 1
    OBVIOUS
  <2>3. CheckpointsDone(cs, t, one)
    BY <2>2, PlacesFacts DEF CheckpointsDone
  <2>4. CheckpointsFrom(r, one, f, n)
    BY <1>1, <2>2
  <2> QED
    BY <2>1, <2>3, <2>4, ProgressAtCheckpoints
<1>2. CASE isMonthEnd(t) /\ At(r, "fees", Paying, i, f, n)
  <2>1. PICK j \in Paying : (\A p \in Paying : p < j => p < i) /\ r = Begun("fees", j, f, n)
    BY <1>2 DEF At
  <2>2. j \in Nat /\ "fees" \in Phases
    BY PlacesFacts DEF Phases
  <2>3. r.pc = "fees" /\ r.i = j
    BY <2>1, <2>2, BegunTyped
  <2>4. FeesDone(l, t, j)
    BY <2>1 DEF FeesDone
  <2> QED
    BY <2>3, <2>4 DEF Progress
<1> QED
  BY <1>1, <1>2 DEF FeesFrom

\* A loop over the interest goes on, or the fees begin.
LEMMA ProgressAtInterest ==
    ASSUME NEW t, NEW l, NEW hs, NEW cs, NEW e, NEW r, NEW i \in Nat, NEW f \in Int, NEW n \in Nat,
           ~Finished(t, e), InterestFrom(r, t, i, f, n), HoldsDone(hs, t, e[t].at),
           InterestDone(l, cs, t, e[t].seen, i)
    PROVE  Progress(t, l, hs, cs, e, r)
<1>1. CASE Passed(Earning, i) /\ FeesFrom(r, t, 1, f, n)
  <2>1. InterestDone(l, cs, t, e[t].seen, All)
    BY <1>1 DEF InterestDone, Passed
  <2>2. PICK one \in Nat : one = 1
    OBVIOUS
  <2>3. FeesDone(l, t, one)
    BY <2>2, PlacesFacts DEF FeesDone
  <2>4. FeesFrom(r, t, one, f, n)
    BY <1>1, <2>2
  <2> QED
    BY <2>1, <2>3, <2>4, ProgressAtFees
<1>2. CASE At(r, "interest", Earning, i, f, n)
  <2>1. PICK j \in Earning : (\A p \in Earning : p < j => p < i) /\ r = Begun("interest", j, f, n)
    BY <1>2 DEF At
  <2>2. j \in Nat /\ "interest" \in Phases
    BY PlacesFacts DEF Phases
  <2>3. r.pc = "interest" /\ r.i = j
    BY <2>1, <2>2, BegunTyped
  <2>4. InterestDone(l, cs, t, e[t].seen, j)
    BY <2>1 DEF InterestDone
  <2> QED
    BY <2>3, <2>4 DEF Progress
<1> QED
  BY <1>1, <1>2 DEF InterestFrom

\* On any other day than the first business day of its month no interest is due.
LEMMA NoInterestDue ==
    ASSUME Types, Claims(win, today, log, eod, acts), today \in DOMAIN eod,
           today # FirstBusinessDayOfMonth(Year(today), Month(today))
    PROVE  ~InterestDue(today)
<1>1. win \in Windows /\ win.from \in Int /\ win.days \in Nat /\ today \in Int
      /\ win.from <= today /\ today <= win.from + win.days
  BY EodAssumption DEF Types
<1>2. PICK f \in Int : f = FirstOf(today) /\ f <= today /\ today <= f + 30
  BY <1>1, FirstOfFacts
<1>3. f = Date(Year(today), Month(today), 1)
  BY <1>2 DEF FirstOf
<1>4. IsBusinessDay(today)
  BY DEF Claims
<1>5. \A d \in f + 1 .. f + 10 : Year(d) \in Years
  <2>1. ASSUME NEW d \in f + 1 .. f + 10 PROVE Year(d) \in Years
    <3>1. d \in Int /\ win.from - 31 <= d /\ d <= win.from + win.days + 31
      BY <1>1, <1>2
    <3> QED
      BY <1>1, <3>1, Covered
  <2> QED
    BY <2>1
<1>6. ~ \A d \in f .. today - 1 : ~IsBusinessDay(d)
  BY <1>1, <1>3, <1>4, <1>5, FirstBusinessDayFacts
<1> QED
  BY <1>2, <1>6 DEF InterestDue

\* PostInterest settles the account: what it posted has the key, and what it did not
\* post was not owed.
LEMMA InterestSettled ==
    ASSUME Core, PostInterest, NEW a, a = Accounts[run.i]
    PROVE  Settled(log', checkpoints', a, today, eod[today].seen)
<1>1. /\ Types /\ PlaceOf(run, today, eod) /\ Reading(today, log, checkpoints, eod, run)
      /\ Watermarks(today, log, checkpoints, eod, run)
  BY DEF Core
<1>2. today \in Int /\ IsLog(log) /\ IsCheckpoints(checkpoints)
  BY <1>1 DEF Types
<1>3. PICK m : m = InterestFor(run.sum, Product(a).rate, YearDays(today))
  OBVIOUS
<1>4. PICK key : key = <<"interest", FirstBefore(today)>>
  OBVIOUS
<1>5. /\ m \in Int /\ a # Suspense
      /\ m # 0 => KeyIn(log', a, key)
  BY <1>1, <1>3, <1>4, PostInterestFacts
<1>6. CASE m # 0
  BY <1>4, <1>5, <1>6 DEF Settled
<1>7. CASE m = 0
  <2>1. log' = log /\ checkpoints' = checkpoints /\ run.pc = "interest"
    <3>1. DayCountFraction(first, AddDays(first, 1), BasisFor(first)).den = YearDays(today)
      BY <1>2, YearDaysFacts
    <3> QED
      BY <1>3, <1>7, <3>1 DEF PostInterest
  <2>2. PICK n \in Nat, len \in Nat : n = run.seen /\ len = Len(log) /\ n <= len
    BY <1>1, <1>2, <2>1 DEF Types, RunType, IsLog, Reading
  <2>3. PICK seen \in Nat : seen = eod[today].seen /\ seen <= n
    BY <1>1, <2>1, <2>2 DEF Types, IsRuns, RowType, PlaceOf, Reading
  <2>4. SUFFICES ASSUME FitsOf(log, a, today, len),
                        SeparatedOf(checkpoints, log, a, FirstOf(today) - 1),
                        ~LateOf(log, a, today, seen)
                 PROVE  OwedOf(log, a, today, len) = 0
    BY <2>1, <2>2, <2>3 DEF Settled
  <2>5. \A j \in n + 1 .. len : ~(log[j].acct = a /\ log[j].date < FirstOf(today))
    <3>1. \A j \in n + 1 .. len : j \in seen + 1 .. Len(log)
      BY <2>2, <2>3
    <3> QED
      BY <2>4, <3>1 DEF LateOf
  <2>6. len <= Len(log)
    BY <2>2
  <2>7. /\ OwedOf(log, a, today, n) = OwedOf(log, a, today, len)
        /\ FitsOf(log, a, today, n) <=> FitsOf(log, a, today, len)
    <3>1. n \in Nat /\ len \in Nat /\ n <= len /\ today \in Int /\ IsLog(log)
      BY <1>2, <2>2
    <3> QED
      BY <2>5, <2>6, <3>1, PartLater, Zenon
  <2>8. ~LateOf(log, a, today, n)
    BY <2>2, <2>5 DEF LateOf
  <2>9. Exactly(log, checkpoints, a, today, run.seen)
    BY <2>2, <2>4, <2>7, <2>8 DEF Exactly
  <2>10. m = OwedOf(log, a, today, run.seen)
    BY <1>1, <1>3, <2>9, InterestOwed
  <2> QED
    BY <1>7, <2>2, <2>7, <2>10
<1> QED
  BY <1>6, <1>7

\* Every step keeps the progress of the run, and what a finished day has.
LEMMA ProgressNext ==
    ASSUME Core, Progress(today, log, holds, checkpoints, eod, run), Next, Types'
    PROVE  Progress(today', log', holds', checkpoints', eod', run')
<1>1. /\ Types /\ PlaceOf(run, today, eod) /\ Claims(win, today, log, eod, acts)
      /\ Watermarks(today, log, checkpoints, eod, run)
      /\ Holding(today, log, holds, run, acts)
      /\ Reading(today, log, checkpoints, eod, run)
  BY DEF Core
<1>2. /\ today \in Int /\ IsLog(log) /\ IsCheckpoints(checkpoints) /\ IsLog(log')
      /\ run.i \in Nat /\ Len(log') \in Nat /\ run \in RunType
      /\ IsCheckpoints(checkpoints') /\ IsHolds(holds) /\ IsHolds(holds') /\ acts \in Nat
  BY <1>1 DEF Types, RunType, IsLog
<1>3. FirstBefore(today) \in Int /\ first = FirstBefore(today)
  BY <1>2, RunDays DEF FirstBefore
<1>4. run.pc # "idle" => today \in DOMAIN eod /\ eod[today].status = "claimed"
                         /\ ~Finished(today, eod)
  BY <1>1 DEF PlaceOf, Finished
<1>5. Extends(log, log') /\ HoldsKept(holds, holds', acts)
  BY <1>1, LogGrows, HoldsGrow
<1>6. today \in DOMAIN eod /\ checkpoints \subseteq checkpoints' =>
          Grown(log, log', checkpoints, checkpoints', eod[today].seen)
  <2>1. today \in DOMAIN eod => eod[today].seen \in Nat /\ eod[today].seen <= Len(log)
    BY <1>1 DEF Types, IsRuns, RowType, Claims
  <2> QED
    BY <1>2, <1>5, <2>1 DEF Grown
<1>7. ASSUME today \in DOMAIN eod, HoldsDone(holds, today, eod[today].at)
      PROVE  HoldsDone(holds', today, eod[today].at)
  <2>1. PICK j \in Nat : j = eod[today].at /\ j <= acts
    BY <1>1, <1>7 DEF Types, IsRuns, RowType, Claims
  <2>2. HoldsDone(holds, today, j)
    BY <1>7, <2>1
  <2>3. HoldsDone(holds', today, j)
    BY <1>2, <1>5, <2>1, <2>2, HoldsDoneKept
  <2> QED
    BY <2>1, <2>3
<1>8. ASSUME today' = today, eod' = eod, Stays(run, run'), checkpoints' = checkpoints
      PROVE  Progress(today', log', holds', checkpoints', eod', run')
  <2>1. Progress(today, log', holds', checkpoints', eod, run')
    BY <1>2, <1>4, <1>6, <1>7, <1>8, ProgressGrows
  <2> QED
    BY <1>8, <2>1
<1>9. ASSUME run'.pc \in {"idle", "expire"}, ~Finished(today', eod')
      PROVE  Progress(today', log', holds', checkpoints', eod', run')
  BY <1>9 DEF Progress
<1>10. CASE UNCHANGED <<today, checkpoints, eod, run>>
  <2>1. Stays(run, run')
    BY <1>10 DEF Stays
  <2> QED
    BY <1>8, <1>10, <2>1
<1>11. CASE CallRun
  <2>1. run'.pc = "expire" /\ eod'[today].status = "claimed" /\ today' = today
    BY <1>1, <1>11, ClaimFacts DEF CallRun, ClaimEODRun
  <2> QED
    BY <1>9, <2>1 DEF Finished
<1>12. CASE ExpireDue
  <2>1. UNCHANGED <<today, log, checkpoints, eod>> /\ run.pc = "expire"
        /\ run' = [run EXCEPT !.pc = "list"]
    BY <1>12 DEF ExpireDue
  <2>2. run'.pc = "list"
    BY <1>2, <2>1 DEF RunType
  <2>3. HoldsDone(holds', today, eod[today].at)
    <3>1. /\ Len(holds') = Len(holds)
          /\ \A n \in 1 .. Len(holds) : /\ holds'[n].expires = holds[n].expires
                                        /\ holds'[n].released = "no" => holds[n].expires > today
      BY <1>1, <1>12, ExpireDueFacts
    <3> QED
      BY <3>1 DEF HoldsDone
  <2> QED
    BY <1>4, <2>1, <2>2, <2>3 DEF Progress
<1>13. CASE AllAccounts
  <2>1. /\ UNCHANGED <<today, log, holds, checkpoints, eod>> /\ run.pc = "list"
        /\ run' = IF today = FirstBusinessDayOfMonth(Year(today), Month(today))
                  THEN InterestPhase(1) ELSE FeePhase(1)
    BY <1>13 DEF AllAccounts
  <2>2. PICK one \in Nat : one = 1
    OBVIOUS
  <2>3. /\ FeesFrom(FeePhase(one), today, one, FirstBefore(today), Len(log'))
        /\ InterestFrom(InterestPhase(one), today, one, FirstBefore(today), Len(log'))
    BY <1>3, PhaseFacts
  <2>4. HoldsDone(holds, today, eod[today].at) /\ ~Finished(today, eod) /\ today \in DOMAIN eod
    BY <1>4, <2>1 DEF Progress
  <2>5. CASE today = FirstBusinessDayOfMonth(Year(today), Month(today))
    <3>1. InterestFrom(run', today, one, FirstBefore(today), Len(log'))
      BY <2>1, <2>2, <2>3, <2>5
    <3>2. InterestDone(log, checkpoints, today, eod[today].seen, one)
      BY <2>2, PlacesFacts DEF InterestDone
    <3>3. Progress(today, log, holds, checkpoints, eod, run')
      BY <1>2, <1>3, <2>4, <3>1, <3>2, ProgressAtInterest
    <3> QED
      BY <2>1, <3>3
  <2>6. CASE today # FirstBusinessDayOfMonth(Year(today), Month(today))
    <3>1. FeesFrom(run', today, one, FirstBefore(today), Len(log'))
      BY <2>1, <2>2, <2>3, <2>6
    <3>2. InterestDone(log, checkpoints, today, eod[today].seen, All)
      BY <1>1, <2>4, <2>6, NoInterestDue DEF InterestDone
    <3>3. FeesDone(log, today, one)
      BY <2>2, PlacesFacts DEF FeesDone
    <3>4. Progress(today, log, holds, checkpoints, eod, run')
      BY <1>2, <1>3, <2>4, <3>1, <3>2, <3>3, ProgressAtFees
    <3> QED
      BY <2>1, <3>4
  <2> QED
    BY <2>5, <2>6
<1>14. CASE SumDay
  <2>1. UNCHANGED <<today, log, holds, checkpoints, eod>> /\ run.pc = "interest"
    BY <1>14 DEF SumDay
  <2>2. run'.pc = "interest" /\ run'.i = run.i
    BY <1>1, <1>14, SumDayFacts
  <2>3. Stays(run, run')
    BY <2>1, <2>2 DEF Stays
  <2> QED
    BY <1>8, <2>1, <2>3
<1>15. CASE PostInterest
  <2>1. UNCHANGED <<today, holds, checkpoints, eod>> /\ run.pc = "interest"
    BY <1>15 DEF PostInterest
  <2>2. InterestFrom(run', today, run.i + 1, FirstBefore(today), Len(log'))
    BY <1>1, <1>15, PostInterestFacts
  <2>3. PICK i \in Nat : i = run.i + 1
    BY <1>2
  <2>4. HoldsDone(holds, today, eod[today].at) /\ ~Finished(today, eod) /\ today \in DOMAIN eod
        /\ InterestDone(log, checkpoints, today, eod[today].seen, run.i)
    BY <1>4, <2>1 DEF Progress
  <2>5. InterestDone(log', checkpoints', today, eod[today].seen, run.i)
    BY <1>2, <1>6, <2>1, <2>4, DoneGrows
  <2>6. Settled(log', checkpoints', Accounts[run.i], today, eod[today].seen)
    BY <1>15, InterestSettled
  <2>7. InterestDone(log', checkpoints', today, eod[today].seen, i)
    <3>1. \A j \in Earning : j < i => j < run.i \/ j = run.i
      BY <1>2, <2>3, PlacesFacts
    <3> QED
      BY <2>5, <2>6, <3>1 DEF InterestDone
  <2>8. Progress(today, log', holds, checkpoints', eod, run')
    BY <1>2, <1>3, <2>2, <2>3, <2>4, <2>7, ProgressAtInterest
  <2> QED
    BY <2>1, <2>8
<1>16. CASE ReadForFee \/ ReadBalance
  <2>1. UNCHANGED <<today, log, holds, checkpoints, eod>>
    BY <1>16 DEF ReadForFee, ReadBalance
  <2>2. /\ run'.i = run.i
        /\ \/ run.pc = "fees" /\ run'.pc = "holds"
           \/ run.pc = "checkpoint" /\ run'.pc = "watermark"
    BY <1>2, <1>16 DEF ReadForFee, ReadBalance, RunType
  <2>3. Stays(run, run')
    BY <2>2 DEF Stays
  <2> QED
    BY <1>8, <2>1, <2>3
<1>17. CASE ReadHolds
  <2>1. UNCHANGED <<today, log, holds, checkpoints, eod>>
    BY <1>17 DEF ReadHolds
  <2>2. run'.i = run.i /\ run.pc = "holds" /\ run'.pc = "assess"
    BY <1>1, <1>17, ReadHoldsFacts
  <2>3. Stays(run, run')
    BY <2>2 DEF Stays
  <2> QED
    BY <1>8, <2>1, <2>3
<1>18. CASE PostFee
  <2>1. UNCHANGED <<today, holds, checkpoints, eod>> /\ run.pc = "assess"
    BY <1>18 DEF PostFee
  <2>2. /\ KeyIn(log', Accounts[run.i], <<"fee", today>>)
        /\ FeesFrom(run', today, run.i + 1, FirstBefore(today), Len(log'))
    BY <1>1, <1>18, PostFeeFacts
  <2>3. PICK i \in Nat : i = run.i + 1
    BY <1>2
  <2>4. HoldsDone(holds, today, eod[today].at) /\ ~Finished(today, eod) /\ today \in DOMAIN eod
        /\ InterestDone(log, checkpoints, today, eod[today].seen, All) /\ FeesDone(log, today, run.i)
    BY <1>4, <2>1 DEF Progress
  <2>5. InterestDone(log', checkpoints', today, eod[today].seen, All) /\ FeesDone(log', today, run.i)
    BY <1>2, <1>6, <2>1, <2>4, DoneGrows
  <2>6. FeesDone(log', today, i)
    <3>1. \A j \in Paying : j < i => j < run.i \/ j = run.i
      BY <1>2, <2>3, PlacesFacts
    <3> QED
      BY <2>2, <2>5, <3>1 DEF FeesDone
  <2>7. Progress(today, log', holds, checkpoints', eod, run')
    BY <1>2, <1>3, <2>2, <2>3, <2>4, <2>5, <2>6, ProgressAtFees
  <2> QED
    BY <2>1, <2>7
<1>19. CASE InsertCheckpoint
  <2>1. UNCHANGED <<today, log, holds, eod>> /\ run.pc = "watermark"
    BY <1>19 DEF InsertCheckpoint
  <2>2. /\ checkpoints \subseteq checkpoints'
        /\ \E c \in checkpoints' : c.acct = Accounts[run.i] /\ c.date = today
        /\ CheckpointsFrom(run', run.i + 1, FirstBefore(today), Len(log'))
    <3>1. PICK a : a = Accounts[run.i]
      OBVIOUS
    <3>2. /\ checkpoints \subseteq checkpoints'
          /\ \E c \in CheckpointType :
                 /\ c.acct = a /\ c.date = today
                 /\ \/ /\ checkpoints' = checkpoints
                       /\ \E b \in checkpoints : b.acct = a /\ b.date = today
                    \/ checkpoints' = checkpoints \cup {c}
          /\ CheckpointsFrom(run', run.i + 1, FirstBefore(today), Len(log'))
      BY <1>1, <1>19, <3>1, InsertCheckpointFacts
    <3> QED
      BY <3>1, <3>2
  <2>3. PICK i \in Nat : i = run.i + 1
    BY <1>2
  <2>4. /\ HoldsDone(holds, today, eod[today].at) /\ ~Finished(today, eod) /\ today \in DOMAIN eod
        /\ InterestDone(log, checkpoints, today, eod[today].seen, All)
        /\ FeesDone(log, today, All) /\ CheckpointsDone(checkpoints, today, run.i)
    BY <1>4, <2>1 DEF Progress
  <2>5. /\ InterestDone(log', checkpoints', today, eod[today].seen, All)
        /\ FeesDone(log', today, All) /\ CheckpointsDone(checkpoints', today, run.i)
    BY <1>2, <1>6, <2>1, <2>2, <2>4, DoneGrows
  <2>6. CheckpointsDone(checkpoints', today, i)
    <3>1. \A j \in 1 .. Len(Accounts) : j < i => j < run.i \/ j = run.i
      BY <1>2, <2>3, PlacesFacts
    <3> QED
      BY <2>2, <2>5, <3>1 DEF CheckpointsDone
  <2>7. Progress(today, log', holds, checkpoints', eod, run')
    BY <1>2, <1>3, <2>2, <2>3, <2>4, <2>5, <2>6, ProgressAtCheckpoints
  <2> QED
    BY <2>1, <2>7
<1>20. CASE FinishEODRun
  <2>1. UNCHANGED <<today, log, holds, checkpoints>> /\ run.pc = "finish"
    BY <1>20 DEF FinishEODRun
  <2>2. eod'[today].seen = eod[today].seen /\ eod'[today].at = eod[today].at /\ run'.pc = "idle"
    BY <1>1, <1>20, FinishFacts
  <2> QED
    BY <2>1, <2>2 DEF Progress
<1>21. CASE Fail
  <2>1. UNCHANGED <<today, eod>> /\ run' = Idle /\ run.pc # "idle"
    BY <1>21 DEF Fail
  <2>2. run'.pc = "idle"
    BY <2>1 DEF Idle
  <2> QED
    BY <1>4, <1>9, <2>1, <2>2
<1>22. CASE NextDay
  <2>1. UNCHANGED <<eod, run>> /\ run.pc = "idle" /\ today' = today + 1
    BY <1>22 DEF NextDay, AddDays
  <2>2. \A d \in DOMAIN eod : d \in Int /\ d <= today
    BY <1>1 DEF Types, IsRuns, Claims
  <2>3. today' \notin DOMAIN eod'
    BY <1>2, <2>1, <2>2
  <2> QED
    BY <1>9, <2>1, <2>3 DEF Finished
<1> QED
  BY <1>10, <1>11, <1>12, <1>13, <1>14, <1>15, <1>16, <1>17, <1>18, <1>19, <1>20, <1>21, <1>22
  DEF Next, CustomerPost, PlaceHold, ReleaseHold

-----------------------------------------------------------------------------
\* Part 14.  A finished day is complete.

\* The day before a first of a month is the end of a month.
LEMMA MonthEnds ==
    ASSUME NEW t \in Int, Day(t + 1) = 1
    PROVE  isMonthEnd(t)
<1>1. PICK s \in Int : s = t + 1
  OBVIOUS
<1>2. PICK y \in Int : y = Year(t) /\ NewYear(y) <= t /\ t < NewYear(y + 1)
  BY YearFacts
<1>3. PICK m \in 1 .. 12 : m = Month(t) /\ Date(y, m, 1) <= t /\ t < Date(y, m + 1, 1)
  BY <1>2, MonthFacts
<1>4. /\ NewYear(y) \in Int /\ NewYear(y + 1) \in Int /\ Leap(y) \in {0, 1}
      /\ NewYear(y + 1) = NewYear(y) + 365 + Leap(y)
  BY NextNewYear DEF Leap
<1>5. CASE s < NewYear(y + 1)
  <2>1. NewYear(y) <= s
    BY <1>1, <1>2, <1>4
  <2>2. Year(s) = y
    BY <1>5, <2>1, YearUnique
  <2>3. Date(y, Month(s), 1) \in Int /\ Month(s) \in 1 .. 12
    BY <2>2, MonthFacts, FirstOfFacts DEF FirstOf
  <2>4. Date(y, Month(s), 1) = s
    BY <1>1, <2>2, <2>3 DEF Day
  <2>5. Month(s) # m
    BY <1>1, <1>3, <2>4
  <2> QED
    BY <1>1, <1>3, <2>5 DEF isMonthEnd, AddDays
<1>6. CASE s = NewYear(y + 1)
  <2>1. PICK z \in Int, one \in 1 .. 12 : z = y + 1 /\ one = 1
    OBVIOUS
  <2>2. Date(z, one, 1) = NewYear(z) + Before(one, Leap(z))
        /\ Date(z, one + 1, 1) = NewYear(z) + Before(one + 1, Leap(z)) /\ NewYear(z) \in Int
        /\ Leap(z) \in {0, 1}
    BY FirstDays
  <2>3. Before(one, Leap(z)) = 0 /\ Before(one + 1, Leap(z)) = 31
    BY <2>1 DEF Before
  <2>4. Date(z, one, 1) <= s /\ s < Date(z, one + 1, 1)
    BY <1>6, <2>1, <2>2, <2>3
  <2>5. Month(s) = one
    BY <2>4, Civil
  <2>6. m # 1
    <3>1. Date(y, one + 1, 1) = NewYear(y) + Before(one + 1, Leap(y))
      BY FirstDays
    <3>2. Before(one + 1, Leap(y)) = 31
      BY <2>1 DEF Before
    <3>3. ~(t < Date(y, one + 1, 1))
      BY <1>1, <1>4, <1>6, <3>1, <3>2
    <3> QED
      BY <1>3, <2>1, <3>3
  <2> QED
    BY <1>1, <1>3, <2>1, <2>5, <2>6 DEF isMonthEnd, AddDays
<1> QED
  BY <1>1, <1>2, <1>4, <1>5, <1>6

\* What the inductive invariant says of a finished day is what the property says.
LEMMA ProgressImpliesComplete ==
    ASSUME Core, Progress(today, log, holds, checkpoints, eod, run)
    PROVE  FinishedIsComplete
<1>1. today \in Int /\ IsLog(log)
  BY DEF Core, Types
<1>2. SUFFICES ASSUME Finished(today, eod)
      PROVE  /\ \A a \in Range(Accounts) : \E c \in checkpoints : c.acct = a /\ c.date = today
             /\ \A n \in 1 .. Len(holds) :
                    holds[n].placed <= eod[today].at =>
                        holds[n].released # "no" \/ holds[n].expires > today
             /\ Day(today + 1) = 1 => \A i \in Paying : KeyPosted(Accounts[i], <<"fee", today>>)
             /\ (\A d \in calendarFirst .. today - 1 : ~IsBusinessDay(d)) =>
                    \A i \in Earning : InterestIsSettled(Accounts[i])
  BY DEF FinishedIsComplete, Finished
<1>3. /\ HoldsDone(holds, today, eod[today].at)
      /\ InterestDone(log, checkpoints, today, eod[today].seen, All)
      /\ FeesDone(log, today, All) /\ CheckpointsDone(checkpoints, today, All)
  BY <1>2 DEF Progress
<1>4. \A j \in 1 .. Len(Accounts) : j < All
  BY PlacesFacts DEF All
<1>5. ASSUME NEW a \in Range(Accounts)
      PROVE  \E c \in checkpoints : c.acct = a /\ c.date = today
  <2>1. DOMAIN Accounts = 1 .. Len(Accounts)
    BY EodAssumption
  <2>2. PICK j \in 1 .. Len(Accounts) : a = Accounts[j]
    BY <2>1 DEF Range
  <2> QED
    BY <1>3, <1>4, <2>2 DEF CheckpointsDone
<1>6. \A n \in 1 .. Len(holds) :
          holds[n].placed <= eod[today].at => holds[n].released # "no" \/ holds[n].expires > today
  BY <1>3 DEF HoldsDone
<1>7. ASSUME Day(today + 1) = 1, NEW i \in Paying
      PROVE  KeyPosted(Accounts[i], <<"fee", today>>)
  <2>1. isMonthEnd(today)
    BY <1>1, <1>7, MonthEnds
  <2>2. i < All
    BY <1>4, PlacesFacts
  <2>3. KeyIn(log, Accounts[i], <<"fee", today>>)
    BY <1>3, <2>1, <2>2 DEF FeesDone
  <2> QED
    BY <2>3 DEF KeyIn, KeyPosted
<1>8. ASSUME \A d \in calendarFirst .. today - 1 : ~IsBusinessDay(d), NEW i \in Earning
      PROVE  InterestIsSettled(Accounts[i])
  <2>1. calendarFirst = FirstOf(today) /\ first = FirstBefore(today)
    BY <1>1, RunDays DEF FirstBefore
  <2>2. InterestDue(today)
    BY <1>8, <2>1 DEF InterestDue
  <2>3. i < All
    BY <1>4, PlacesFacts
  <2>4. PICK a : a = Accounts[i]
    OBVIOUS
  <2>5. Settled(log, checkpoints, a, today, eod[today].seen)
    BY <1>3, <2>2, <2>3, <2>4 DEF InterestDone
  <2>6. /\ Owed(a, calendarFirst, Len(log)) = OwedAt(log, a, FirstOf(today), Len(log))
        /\ Fits(a, calendarFirst, Len(log)) <=> FitsAt(log, a, FirstOf(today), Len(log))
    BY <2>1 DEF Owed, OwedAt, Fits, FitsAt, MonthSum, MonthAt, FromOf, Total, Entries, BalanceOf, IdsOf
  <2>7. /\ OwedAt(log, a, FirstOf(today), Len(log)) = OwedOf(log, a, today, Len(log))
        /\ FitsAt(log, a, FirstOf(today), Len(log)) <=> FitsOf(log, a, today, Len(log))
    BY <1>1, FirstAt
  <2>8. /\ KeyPosted(a, InterestKey) <=> KeyIn(log, a, <<"interest", FirstBefore(today)>>)
        /\ Separated(a, calendarFirst - 1) <=> SeparatedOf(checkpoints, log, a, FirstOf(today) - 1)
        /\ PostedLate(a) <=> LateOf(log, a, today, eod[today].seen)
    BY <2>1 DEF KeyPosted, KeyIn, InterestKey, Separated, SeparatedOf, PostedLate, LateOf
  <2> QED
    BY <2>4, <2>5, <2>6, <2>7, <2>8 DEF Settled, InterestIsSettled
<1> QED
  BY <1>5, <1>6, <1>7, <1>8

\* A day that FinishEODRun has marked finished is complete, whatever failed on the
\* days before and whoever posts or holds meanwhile: no hold placed before the day was
\* claimed is open that had expired, the interest and the fees that were due were
\* posted, and every account has its checkpoint.
THEOREM EodFinishedComplete == Spec => []FinishedIsComplete
<1> DEFINE P == Progress(today, log, holds, checkpoints, eod, run)
<1>1. Init => Core /\ P
  <2>1. ASSUME Init PROVE P
    <3>1. run.pc = "idle" /\ ~Finished(today, eod)
      BY <2>1 DEF Init, Idle, Finished
    <3> QED
      BY <3>1 DEF Progress
  <2> QED
    BY <2>1, CoreInit
<1>2. Core /\ P /\ [Next]_vars => Core' /\ P'
  <2>1. CASE Next
    <3>1. ASSUME Core, P
          PROVE  Core' /\ Progress(today', log', holds', checkpoints', eod', run')
      <4>1. Core'
        BY <2>1, <3>1, CoreNext
      <4>2. Types'
        BY <4>1 DEF Core
      <4> QED
        BY <2>1, <3>1, <4>1, <4>2, ProgressNext
    <3> QED
      BY <3>1
  <2>2. CASE UNCHANGED vars
    BY <2>2 DEF vars, Core, Types
  <2> QED
    BY <2>1, <2>2
<1>3. Core /\ P => FinishedIsComplete
  BY ProgressImpliesComplete
<1> QED
  BY <1>1, <1>2, <1>3, PTL DEF Spec
=============================================================================
