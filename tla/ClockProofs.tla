----------------------------- MODULE ClockProofs ----------------------------
(***************************************************************************)
(* What Clock promises for any years between 2001 and 2067 and any hours:  *)
(* a clock that was set shows the true date, and the day of the week and   *)
(* the time stamps computed from it are as far from the truth as stated.   *)
(***************************************************************************)
EXTENDS Clock, TLAPS

\* A day of a month, by the reference calendar, in the years of the proofs.
Day(c) ==
  /\ c \in Dates
  /\ 2001 <= c.year /\ c.year <= 2068
  /\ c.date <= Length(c.year, c.month)

-----------------------------------------------------------------------------
(* The tables.                                                              *)

\* The days before each month of a common year, which the loop of date2days adds up.
LEMMA MonthTable ==
  /\ daysBefore[1] = 0 /\ daysBefore[2] = 31 /\ daysBefore[3] = 59
  /\ daysBefore[4] = 90 /\ daysBefore[5] = 120 /\ daysBefore[6] = 151
  /\ daysBefore[7] = 181 /\ daysBefore[8] = 212 /\ daysBefore[9] = 243
  /\ daysBefore[10] = 273 /\ daysBefore[11] = 304 /\ daysBefore[12] = 334
<1> DEFINE Table == <<0, 31, 59, 90, 120, 151, 181, 212, 243, 273, 304, 334>>
           Sums(f) == f = [m \in 1..12 |-> IF m = 1 THEN 0 ELSE f[m - 1] + daysArray[m - 1]]
<1>1. Sums([m \in 1..12 |-> Table[m]])
  BY DEF daysArray
<1>2. Sums(daysBefore)
  BY <1>1 DEF daysBefore
<1>3. /\ daysBefore[1] = 0
      /\ \A m \in 2..12 : daysBefore[m] = daysBefore[m - 1] + daysArray[m - 1]
  BY <1>2
<1> QED
  BY <1>3 DEF daysArray

-----------------------------------------------------------------------------
(* From one day to the next.                                                *)

\* In these years the century rule makes no difference.
LEMMA LeapYears ==
  ASSUME NEW y \in Int, 2001 <= y, y <= 2068
  PROVE  Leap(y) <=> y % 4 = 0
BY DEF Leap

\* The day after a day is one.
LEMMA NextDayType ==
  ASSUME NEW c, Day(c)
  PROVE  /\ NextDay(c) \in Dates
         /\ NextDay(c).hour = 0
         /\ NextDay(c).date <= Length(NextDay(c).year, NextDay(c).month)
         /\ NextDay(c).year \in {c.year, c.year + 1}
<1>1. Length(c.year, c.month) \in 28..31
  BY DEF Length
<1>2. \A y, m : 1 <= Length(y, m)
  BY DEF Length
<1> QED
  BY <1>1, <1>2 DEF Day, Dates, NextDay

\* The ranges of a day.
LEMMA DayFields ==
  ASSUME NEW c, Day(c)
  PROVE  c.year \in Int /\ 2001 <= c.year /\ c.year <= 2068
         /\ c.month \in 1..12 /\ c.date \in 1..31
BY DEF Day, Dates

\* The day after a day of these years is a day of these years or the next.
LEMMA NextDayIsDay ==
  ASSUME NEW c, Day(c), c.year <= 2067
  PROVE  Day(NextDay(c))
BY NextDayType, DayFields DEF Day

\* The sum that rtc_dow takes modulo 7, in these years.
DowYear(c) == IF c.month < 3 THEN c.year - 2001 ELSE c.year - 2000
DowSum(c) == DowYear(c) + DowYear(c) \div 4 + dowArray[c.month] + c.date
DowOf(s) == IF s % 7 = 0 THEN 7 ELSE s % 7
Dow(c) == rtc_dow(c.year - 2000, c.month, c.date)

\* The terms of the sum and the sum.
LEMMA DowTerms ==
  ASSUME NEW c, Day(c)
  PROVE  /\ DowYear(c) \in Nat /\ DowYear(c) <= 68
         /\ DowYear(c) \div 4 \in Nat
         /\ dowArray[c.month] \in Nat
         /\ DowSum(c) \in Nat
<1>1. DowYear(c) \in Nat /\ DowYear(c) <= 68
  BY DayFields DEF DowYear
<1>2. dowArray[c.month] \in Nat
  BY DayFields DEF dowArray
<1>3. DowYear(c) \div 4 \in Nat
  BY <1>1
<1>4. DowSum(c) \in Nat
  <2>1. c.date \in Nat
    BY DayFields
  <2> QED
    BY <1>1, <1>2, <1>3, <2>1 DEF DowSum
<1> QED
  BY <1>1, <1>2, <1>3, <1>4

\* No term of rtc_dow wraps and those for centuries are 0.
LEMMA DowIsSum ==
  ASSUME NEW c, Day(c)
  PROVE  Dow(c) = DowOf(DowSum(c))
<1>1. (c.year - 2000 - (IF c.month < 3 THEN 1 ELSE 0)) % 65536 = DowYear(c)
  BY DayFields, DowTerms DEF DowYear
<1>2. DowYear(c) \div 100 = 0 /\ DowYear(c) \div 400 = 0
  BY DowTerms
<1>3. DowYear(c) + DowYear(c) \div 4 - 0 + 0 + dowArray[c.month] + c.date = DowSum(c)
  BY DowTerms, DayFields DEF DowSum
<1> QED
  BY <1>1, <1>2, <1>3 DEF Dow, rtc_dow, DowOf

\* From one day to the next it grows by one, less a multiple of 7.
LEMMA NextDowSum ==
  ASSUME NEW c, Day(c), c.year <= 2067, NEW n, n = NextDay(c)
  PROVE  \/ DowSum(n) = DowSum(c) + 1
         \/ DowSum(n) + 28 = DowSum(c) + 1
         \/ DowSum(n) + 35 = DowSum(c) + 1
<1>1. /\ c.year \in Int /\ 2001 <= c.year /\ c.year <= 2067
      /\ c.month \in 1..12 /\ c.date \in 1..31
  BY DayFields
<1>2. DowYear(c) \in Nat /\ DowYear(c) \div 4 \in Nat /\ dowArray[c.month] \in Nat
  BY DowTerms
<1>3. CASE c.date < Length(c.year, c.month)
  <2>1. n.year = c.year /\ n.month = c.month /\ n.date = c.date + 1
    BY <1>3 DEF NextDay
  <2>2. DowYear(n) = DowYear(c)
    BY <2>1 DEF DowYear
  <2> QED
    BY <1>1, <1>2, <2>1, <2>2 DEF DowSum
<1>4. CASE c.date = Length(c.year, c.month) /\ c.month = 2
  <2>1. n = [year |-> c.year, month |-> 3, date |-> 1, hour |-> 0]
    BY <1>1, <1>4 DEF NextDay
  <2>2. c.date = IF c.year % 4 = 0 THEN 29 ELSE 28
    BY <1>1, <1>4, LeapYears DEF Length, Day
  <2>3. /\ DowYear(c) = c.year - 2001 /\ dowArray[c.month] = 3
        /\ DowYear(n) = c.year - 2000 /\ dowArray[n.month] = 2
    BY <1>4, <2>1 DEF DowYear, dowArray
  <2>4. (c.year - 2000) \div 4 = (c.year - 2001) \div 4 + IF c.year % 4 = 0 THEN 1 ELSE 0
    BY <1>1
  <2>5. /\ DowYear(n) = DowYear(c) + 1
        /\ DowYear(n) \div 4 = DowYear(c) \div 4 + (c.date - 28)
        /\ n.date = 1
    BY <1>1, <2>1, <2>2, <2>3, <2>4
  <2> QED
    BY <1>1, <1>2, <2>3, <2>5 DEF DowSum
<1>5. CASE c.date = Length(c.year, c.month) /\ c.month \notin {2, 12}
  <2>1. n = [year |-> c.year, month |-> c.month + 1, date |-> 1, hour |-> 0]
    BY <1>1, <1>5 DEF NextDay
  <2>2. DowYear(n) = DowYear(c)
    BY <1>1, <1>5, <2>1 DEF DowYear
  <2>3. \/ dowArray[c.month + 1] + 28 = dowArray[c.month] + c.date
        \/ dowArray[c.month + 1] + 35 = dowArray[c.month] + c.date
    BY <1>1, <1>5 DEF Length, dowArray
  <2>4. dowArray[c.month + 1] \in Nat
    BY <1>1, <1>5 DEF dowArray
  <2> QED
    BY <1>1, <1>2, <2>1, <2>2, <2>3, <2>4 DEF DowSum
<1>6. CASE c.date = Length(c.year, c.month) /\ c.month = 12
  <2>1. /\ n = [year |-> c.year + 1, month |-> 1, date |-> 1, hour |-> 0]
        /\ c.date = 31
    BY <1>6 DEF NextDay, Length
  <2>2. /\ DowYear(c) = c.year - 2000 /\ dowArray[c.month] = 4
        /\ DowYear(n) = c.year - 2000 /\ dowArray[n.month] = 0
    BY <1>1, <1>6, <2>1 DEF DowYear, dowArray
  <2> QED
    BY <1>1, <1>2, <2>1, <2>2 DEF DowSum
<1>7. Length(c.year, c.month) \in Int /\ c.date <= Length(c.year, c.month)
  BY DEF Day, Length
<1> QED
  BY <1>1, <1>3, <1>4, <1>5, <1>6, <1>7

\* The computed day of the week of the next day is the next.
LEMMA NextDow ==
  ASSUME NEW c, Day(c), c.year <= 2067
  PROVE  Dow(NextDay(c)) = (Dow(c) % 7) + 1
<1>1. Day(NextDay(c))
  BY NextDayIsDay
<1>2. DowSum(c) \in Nat /\ DowSum(NextDay(c)) \in Nat
  BY <1>1, DowTerms
<1>3. DowOf(DowSum(NextDay(c))) = (DowOf(DowSum(c)) % 7) + 1
  BY <1>2, NextDowSum DEF DowOf
<1> QED
  BY <1>1, <1>3, DowIsSum

-----------------------------------------------------------------------------
(* Time stamps.                                                             *)

\* By how many days date2days is off, and the sum it takes modulo 2^16.
DayError(c) ==
  IF ~Leap(c.year) \/ c.month = 1 THEN 0 ELSE IF c.month = 2 THEN 1 ELSE -1
LeapDay(c) == IF c.month = 2 /\ c.year % 4 = 0 THEN 1 ELSE 0
LeapYearsBefore(c) == (c.year - 1997) \div 4
DaySum(c) ==
  c.date + daysBefore[c.month] + LeapDay(c) + 365 * (c.year - 2000)
    + LeapYearsBefore(c) - 1

\* The terms of the sum of date2days and the sum.
LEMMA DayTerms ==
  ASSUME NEW c, Day(c)
  PROVE  /\ daysBefore[c.month] \in Nat /\ daysBefore[c.month] <= 334
         /\ LeapDay(c) \in {0, 1}
         /\ LeapYearsBefore(c) \in Nat /\ LeapYearsBefore(c) <= 17
         /\ DayError(c) \in {0, 1, -1}
         /\ DaySum(c) \in Nat /\ DaySum(c) < 65536
<1>1. /\ c.year \in Int /\ 2001 <= c.year /\ c.year <= 2068
      /\ c.month \in 1..12 /\ c.date \in 1..31
  BY DayFields
<1>2. daysBefore[c.month] \in Nat /\ daysBefore[c.month] <= 334
  BY <1>1, MonthTable
<1>3. LeapDay(c) \in {0, 1} /\ DayError(c) \in {0, 1, -1}
  BY DEF LeapDay, DayError
<1>4. LeapYearsBefore(c) \in Nat /\ LeapYearsBefore(c) <= 17
  BY <1>1 DEF LeapYearsBefore
<1>5. 365 <= 365 * (c.year - 2000) /\ 365 * (c.year - 2000) <= 24820
  BY <1>1
<1>6. DaySum(c) \in Nat /\ DaySum(c) < 65536
  BY <1>1, <1>2, <1>3, <1>4, <1>5 DEF DaySum
<1> QED
  BY <1>2, <1>3, <1>4, <1>6

\* The sum does not wrap.
LEMMA DaysIsSum ==
  ASSUME NEW c, Day(c)
  PROVE  date2days(c.year, c.month, c.date) = DaySum(c)
<1>1. /\ c.year \in Int /\ 2001 <= c.year /\ c.year <= 2068
      /\ c.month \in 1..12 /\ c.date \in 1..31
      /\ daysBefore[c.month] \in Nat /\ daysBefore[c.month] <= 334 /\ LeapDay(c) \in {0, 1}
      /\ LeapYearsBefore(c) \in Nat /\ LeapYearsBefore(c) <= 17
  BY DayFields, DayTerms
<1>2. (c.year - 2000) + 3 = c.year - 1997
  BY <1>1
<1>3. isLeapYear(c.year - 2000) <=> c.year % 4 = 0
  BY <1>1 DEF isLeapYear
<1>4. c.date + daysBefore[c.month] + LeapDay(c) + 365 * (c.year - 2000)
        + LeapYearsBefore(c) - 1 = DaySum(c)
  BY DEF DaySum
<1>5. date2days(c.year, c.month, c.date) = DaySum(c) % 65536
  BY <1>2, <1>3, <1>4 DEF date2days, LeapDay, LeapYearsBefore
<1>6. DaySum(c) \in Nat /\ DaySum(c) < 65536
  BY DayTerms
<1> QED
  BY <1>5, <1>6

\* From one day to the next the sum, less its error, grows by one.
LEMMA NextDaySum ==
  ASSUME NEW c, Day(c), c.year <= 2067, NEW n, n = NextDay(c)
  PROVE  DaySum(n) - DayError(n) = DaySum(c) - DayError(c) + 1
<1>1. /\ c.year \in Int /\ 2001 <= c.year /\ c.year <= 2067
      /\ c.month \in 1..12 /\ c.date \in 1..31
      /\ daysBefore[c.month] \in Int /\ LeapYearsBefore(c) \in Int
      /\ LeapDay(c) \in Int /\ DayError(c) \in Int
  BY DayFields, DayTerms
<1>2. Leap(c.year) <=> c.year % 4 = 0
  BY <1>1, LeapYears DEF Day
<1>3. CASE c.date < Length(c.year, c.month)
  <2>1. n.year = c.year /\ n.month = c.month /\ n.date = c.date + 1
    BY <1>3 DEF NextDay
  <2>2. /\ LeapDay(n) = LeapDay(c) /\ DayError(n) = DayError(c)
        /\ LeapYearsBefore(n) = LeapYearsBefore(c)
    BY <2>1 DEF LeapDay, DayError, LeapYearsBefore
  <2> QED
    BY <1>1, <2>1, <2>2 DEF DaySum
<1>4. CASE c.date = Length(c.year, c.month) /\ c.month < 12
  <2>1. n = [year |-> c.year, month |-> c.month + 1, date |-> 1, hour |-> 0]
    BY <1>1, <1>4 DEF NextDay
  <2>2. daysBefore[c.month + 1] = daysBefore[c.month] + daysArray[c.month]
    BY <1>1, <1>4, MonthTable DEF daysArray
  <2>3. daysArray[c.month] = c.date - (IF c.month = 2 /\ Leap(c.year) THEN 1 ELSE 0)
    BY <1>1, <1>4 DEF daysArray, Length
  <2>4. LeapDay(n) - DayError(n) =
          LeapDay(c) - DayError(c) + IF c.month = 2 /\ Leap(c.year) THEN 1 ELSE 0
    <3>1. CASE c.month = 1
      BY <1>2, <2>1, <3>1 DEF LeapDay, DayError
    <3>2. CASE c.month = 2
      BY <1>2, <2>1, <3>2 DEF LeapDay, DayError
    <3>3. CASE c.month > 2
      BY <1>1, <1>2, <2>1, <3>3 DEF LeapDay, DayError
    <3> QED
      BY <1>1, <3>1, <3>2, <3>3
  <2>5. LeapDay(n) \in Int /\ DayError(n) \in Int
    BY DEF LeapDay, DayError
  <2>6. LeapYearsBefore(n) = LeapYearsBefore(c)
    BY <2>1 DEF LeapYearsBefore
  <2>7. /\ DaySum(n) - DayError(n) = 1 + daysBefore[c.month + 1] + (LeapDay(n) - DayError(n))
                                     + 365 * (c.year - 2000) + LeapYearsBefore(c) - 1
        /\ daysBefore[c.month + 1] \in Int
    BY <1>1, <1>4, <2>1, <2>5, <2>6, MonthTable DEF DaySum
  <2> QED
    BY <1>1, <2>2, <2>3, <2>4, <2>7 DEF DaySum
<1>5. CASE c.date = Length(c.year, c.month) /\ c.month = 12
  <2>1. /\ n = [year |-> c.year + 1, month |-> 1, date |-> 1, hour |-> 0]
        /\ c.date = 31
    BY <1>5 DEF NextDay, Length
  <2>2. daysBefore[c.month] = 334 /\ daysBefore[n.month] = 0
    BY <1>5, <2>1, MonthTable
  <2>3. /\ LeapDay(c) = 0 /\ DayError(c) = IF c.year % 4 = 0 THEN -1 ELSE 0
        /\ LeapDay(n) = 0 /\ DayError(n) = 0
    BY <1>2, <1>5, <2>1 DEF LeapDay, DayError
  <2>4. LeapYearsBefore(n) = LeapYearsBefore(c) + IF c.year % 4 = 0 THEN 1 ELSE 0
    BY <1>1, <2>1 DEF LeapYearsBefore
  <2> QED
    BY <1>1, <2>1, <2>2, <2>3, <2>4 DEF DaySum
<1>6. Length(c.year, c.month) \in Int /\ c.date <= Length(c.year, c.month)
  BY DEF Day, Length
<1> QED
  BY <1>1, <1>3, <1>4, <1>5, <1>6
-----------------------------------------------------------------------------
(* Time into a date: the two loops of gmtimeMDK.  The equation that defines *)
(* a recursive function holds of it when some function satisfies it, and    *)
(* the closed form of what the loop does is one.  The rounds of a call are  *)
(* then followed from the equation.                                         *)

\* The days of the years before one, by the rule of YYEARSIZE.
Elapsed(y) == 365 * y + (y + 3) \div 4 - (y + 99) \div 100 + (y + 399) \div 400

\* A year adds its length.
LEMMA YearElapses ==
  ASSUME NEW y \in Nat
  PROVE  /\ Elapsed(y) \in Nat
         /\ Elapsed(y + 1) = Elapsed(y) + YYEARSIZE(y)
<1>1. (y + 4) \div 4 = (y + 3) \div 4 + IF y % 4 = 0 THEN 1 ELSE 0
  OBVIOUS
<1>2. (y + 100) \div 100 = (y + 99) \div 100 + IF y % 100 = 0 THEN 1 ELSE 0
  OBVIOUS
<1>3. (y + 400) \div 400 = (y + 399) \div 400 + IF y % 400 = 0 THEN 1 ELSE 0
  OBVIOUS
<1>4. (y % 400 = 0 => y % 100 = 0) /\ (y % 100 = 0 => y % 4 = 0)
  OBVIOUS
<1>5. (y + 3) \div 4 \in Nat /\ (y + 99) \div 100 \in Nat /\ (y + 399) \div 400 \in Nat
      /\ (y + 99) \div 100 <= (y + 99)
  OBVIOUS
<1>6. (y + 1) + 3 = y + 4 /\ (y + 1) + 99 = y + 100 /\ (y + 1) + 399 = y + 400
  OBVIOUS
<1>7. Elapsed(y + 1) = 365 * (y + 1) + (y + 4) \div 4 - (y + 100) \div 100 + (y + 400) \div 400
  BY <1>6 DEF Elapsed
<1>9. Elapsed(y) \in Nat
  BY <1>5 DEF Elapsed
<1> QED
  BY <1>1, <1>2, <1>3, <1>4, <1>5, <1>7, <1>9 DEF Elapsed, YYEARSIZE, LLEAPYEAR

\* A later year begins when this one is over.
LEMMA LaterElapses ==
  ASSUME NEW y \in Nat, NEW z \in Nat, y < z
  PROVE  Elapsed(y + 1) <= Elapsed(z)
<1>1. (y + 4) \div 4 <= (z + 3) \div 4 /\ (y + 400) \div 400 <= (z + 399) \div 400
      /\ (z + 99) \div 100 - (y + 100) \div 100 <= z - (y + 1)
  OBVIOUS
<1>5. (y + 4) \div 4 \in Nat /\ (y + 100) \div 100 \in Nat /\ (y + 400) \div 400 \in Nat
     /\ (z + 3) \div 4 \in Nat /\ (z + 99) \div 100 \in Nat /\ (z + 399) \div 400 \in Nat
  OBVIOUS
<1>6. (y + 1) + 3 = y + 4 /\ (y + 1) + 99 = y + 100 /\ (y + 1) + 399 = y + 400
  OBVIOUS
<1>7. Elapsed(y + 1) = 365 * (y + 1) + (y + 4) \div 4 - (y + 100) \div 100 + (y + 400) \div 400
  BY <1>6 DEF Elapsed
<1> QED
  BY <1>1, <1>5, <1>7 DEF Elapsed

\* The loop over the years ends in the one that holds the day it is to find.
Within(t, y, z) == y <= z /\ Elapsed(z) <= t /\ t < Elapsed(z + 1)
Total(t) == t.dayno + Elapsed(t.year)
EndYear(t) == CHOOSE z \in Nat : Within(Total(t), t.year, z)
Ended(t) == [dayno |-> Total(t) - Elapsed(EndYear(t)), year |-> EndYear(t)]
NextYear(t) == [dayno |-> t.dayno - YYEARSIZE(t.year), year |-> t.year + 1]

\* The equation of gmtimeYear holds of it: leaving a day of its year alone, one
\* round does not change where the loop ends.
LEMMA YearLoop ==
  ASSUME NEW t \in OfYear
  PROVE  gmtimeYear[t] = IF t.dayno < YYEARSIZE(t.year) THEN t ELSE gmtimeYear[NextYear(t)]
<1> DEFINE Loops(f) ==
      f = [x \in OfYear |-> IF x.dayno < YYEARSIZE(x.year) THEN x ELSE f[NextYear(x)]]
           g == [x \in OfYear |-> Ended(x)]
<1>1. ASSUME NEW x \in OfYear
      PROVE  /\ x.dayno < YYEARSIZE(x.year) => Ended(x) = x
             /\ ~(x.dayno < YYEARSIZE(x.year)) =>
                  NextYear(x) \in OfYear /\ Ended(x) = Ended(NextYear(x))
  <2> DEFINE d == x.dayno
             y == x.year
  <2>1. /\ d \in Nat /\ y \in Nat /\ Elapsed(y) \in Nat
        /\ Elapsed(y + 1) = Elapsed(y) + YYEARSIZE(y)
        /\ YYEARSIZE(y) \in Nat /\ y + 1 \in Nat
    BY YearElapses DEF YYEARSIZE, OfYear
  <2>2. ASSUME d < YYEARSIZE(y) PROVE Ended(x) = x
    <3>1. Within(Total(x), y, y)
      BY <2>1, <2>2 DEF Within, Total
    <3>2. ASSUME NEW z \in Nat, Within(Total(x), y, z) PROVE z = y
      <4>1. Elapsed(y + 1) <= Elapsed(z) \/ z <= y
        BY <2>1, LaterElapses
      <4>2. Elapsed(z) \in Nat
        BY YearElapses
      <4> QED
        BY <2>1, <2>2, <3>2, <4>1, <4>2 DEF Within, Total
    <3>3. EndYear(x) = y
      BY <2>1, <3>1, <3>2 DEF EndYear
    <3>4. x = [dayno |-> d, year |-> y]
      BY DEF OfYear
    <3> QED
      BY <2>1, <3>3, <3>4 DEF Ended, Total
  <2>3. ASSUME ~(d < YYEARSIZE(y)) PROVE NextYear(x) \in OfYear /\ Ended(x) = Ended(NextYear(x))
    <3>1. /\ NextYear(x) \in OfYear /\ NextYear(x).year = y + 1
          /\ Total(NextYear(x)) = Total(x) /\ Total(x) \in Nat
      BY <2>1, <2>3 DEF NextYear, OfYear, Total
    <3>2. ASSUME NEW z \in Nat
          PROVE  Within(Total(x), y, z) <=> Within(Total(x), y + 1, z)
      BY <2>1, <2>3, YearElapses DEF Within, Total
    <3>3. EndYear(x) = EndYear(NextYear(x))
      BY <3>1, <3>2 DEF EndYear
    <3> QED
      BY <3>1, <3>3 DEF Ended
  <2> QED
    BY <2>2, <2>3
<1>2. Loops(g)
  BY <1>1
<1> HIDE DEF g
<1>3. Loops(gmtimeYear)
  BY <1>2 DEF gmtimeYear, NextYear, OfYear
<1> QED
  BY <1>3

\* The days of the months before one, as the loop over the months subtracts them.
NextMonth(t) ==
  [dayno |-> t.dayno - yytab(t.year)[t.mon], year |-> t.year, mon |-> t.mon + 1]
Before(y, m) == daysBefore[m] + IF m > 2 /\ LLEAPYEAR(y) THEN 1 ELSE 0

\* A month adds its length.
LEMMA MonthElapses ==
  ASSUME NEW y \in Nat, NEW m \in 1..11
  PROVE  /\ Before(y, m) \in Nat /\ yytab(y)[m] \in Nat \ {0}
         /\ Before(y, m + 1) = Before(y, m) + yytab(y)[m]
<1>1. daysBefore[m] \in Nat /\ daysBefore[m + 1] = daysBefore[m] + daysArray[m]
  BY MonthTable DEF daysArray
<1>2. yytab(y)[m] = daysArray[m] + IF m = 2 /\ LLEAPYEAR(y) THEN 1 ELSE 0
  BY DEF yytab, daysArray
<1>3. daysArray[m] \in Nat \ {0}
  BY DEF daysArray
<1> QED
  BY <1>1, <1>2, <1>3 DEF Before

\* A later month begins when this one is over.
LEMMA MonthsElapse ==
  ASSUME NEW y \in Nat
  PROVE  \A m, n \in 1..12 : Before(y, m) \in Nat /\ (m < n => Before(y, m + 1) <= Before(y, n))
<1>1. \A m \in 1..12 : Before(y, m) = daysBefore[m] + IF m > 2 /\ LLEAPYEAR(y) THEN 1 ELSE 0
  BY DEF Before
<1>2. ASSUME NEW m \in 1..12, NEW n \in 1..12
      PROVE  daysBefore[m] \in Nat /\ (m < n => daysBefore[m + 1] <= daysBefore[n])
  BY MonthTable
<1> QED
  BY <1>1, <1>2

\* The month in which the loop ends.
Holds(t, y, m, n) ==
  m <= n /\ Before(y, n) <= t /\ (n = 12 \/ t < Before(y, n + 1))
DayOf(t) == t.dayno + Before(t.year, t.mon)
EndMonth(t) == CHOOSE n \in 1..12 : Holds(DayOf(t), t.year, t.mon, n)
EndedMonth(t) ==
  [dayno |-> DayOf(t) - Before(t.year, EndMonth(t)), year |-> t.year, mon |-> EndMonth(t)]

\* The month after one that is not the last.
LEMMA NextBefore ==
  ASSUME NEW y \in Nat, NEW m \in 1..12, m < 12
  PROVE  /\ m \in 1..11 /\ m + 1 \in 1..12
         /\ Before(y, m) \in Nat /\ Before(y, m + 1) \in Nat
         /\ yytab(y)[m] \in Nat \ {0}
         /\ Before(y, m + 1) = Before(y, m) + yytab(y)[m]
<1>1. m \in 1..11 /\ m + 1 \in 1..12
  OBVIOUS
<1>2. Before(y, m) \in Nat /\ yytab(y)[m] \in Nat \ {0}
      /\ Before(y, m + 1) = Before(y, m) + yytab(y)[m]
  BY <1>1, MonthElapses
<1> QED
  BY <1>1, <1>2

\* A day of the month is in no other.
LEMMA HoldsHere ==
  ASSUME NEW y \in Nat, NEW m \in 1..12, NEW t \in Nat, Before(y, m) <= t,
         m < 12 => t < Before(y, m) + yytab(y)[m], NEW n \in 1..12
  PROVE  Holds(t, y, m, n) <=> n = m
<1>1. ASSUME n = m PROVE Holds(t, y, m, n)
  <2>1. CASE m = 12
    BY <1>1, <2>1 DEF Holds
  <2>2. CASE m < 12
    <3>1. Before(y, m + 1) = Before(y, m) + yytab(y)[m] /\ Before(y, m + 1) \in Nat
      BY <2>2, NextBefore
    <3> QED
      BY <1>1, <2>2, <3>1 DEF Holds
  <2> QED
    BY <2>1, <2>2
<1>2. ASSUME m < n PROVE ~Holds(t, y, m, n)
  <2>1. m < 12
    BY <1>2
  <2>2. t < Before(y, m + 1) /\ Before(y, m + 1) \in Nat
    BY <2>1, NextBefore
  <2>3. Before(y, m + 1) <= Before(y, n) /\ Before(y, n) \in Nat
    BY <1>2, MonthsElapse
  <2> QED
    BY <2>2, <2>3 DEF Holds
<1>3. n < m => ~Holds(t, y, m, n)
  BY DEF Holds
<1> QED
  BY <1>1, <1>2, <1>3

\* A day after the month is in one of those that follow.
LEMMA HoldsLater ==
  ASSUME NEW y \in Nat, NEW m \in 1..12, m < 12, NEW t \in Nat,
         Before(y, m) + yytab(y)[m] <= t, NEW n \in 1..12
  PROVE  Holds(t, y, m, n) <=> Holds(t, y, m + 1, n)
<1>1. Before(y, m + 1) = Before(y, m) + yytab(y)[m] /\ Before(y, m + 1) \in Nat
  BY NextBefore
<1>2. ~Holds(t, y, m, m)
  BY <1>1 DEF Holds
<1>3. m <= n <=> m + 1 <= n \/ n = m
  OBVIOUS
<1>4. n = m => ~Holds(t, y, m, n) /\ ~Holds(t, y, m + 1, n)
  BY <1>2 DEF Holds
<1>5. n # m => (Holds(t, y, m, n) <=> Holds(t, y, m + 1, n))
  BY <1>3 DEF Holds
<1> QED
  BY <1>4, <1>5

\* The equation of gmtimeMonth holds of it.
LEMMA MonthLoop ==
  ASSUME NEW t \in OfMonth
  PROVE  gmtimeMonth[t] = IF t.mon = 12 \/ t.dayno < yytab(t.year)[t.mon] THEN t
                          ELSE gmtimeMonth[NextMonth(t)]
<1> DEFINE Last(x) == x.mon = 12 \/ x.dayno < yytab(x.year)[x.mon]
           Loops(f) == f = [x \in OfMonth |-> IF Last(x) THEN x ELSE f[NextMonth(x)]]
           g == [x \in OfMonth |-> EndedMonth(x)]
<1>1. ASSUME NEW d \in Nat, NEW y \in Nat, NEW m \in 1..12, NEW x,
             x = [dayno |-> d, year |-> y, mon |-> m]
      PROVE  IF m = 12 \/ d < yytab(y)[m] THEN EndedMonth(x) = x
             ELSE NextMonth(x) \in OfMonth /\ EndedMonth(x) = EndedMonth(NextMonth(x))
  <2> HIDE DEF g, Loops, Last
  <2>0. x.dayno = d /\ x.year = y /\ x.mon = m
    BY <1>1
  <2>1. DayOf(x) = d + Before(y, m) /\ Before(y, m) \in Nat /\ DayOf(x) \in Nat
    <3>1. Before(y, m) \in Nat
      BY MonthsElapse
    <3> QED
      BY <2>0, <3>1 DEF DayOf
  <2>2. ASSUME m = 12 \/ d < yytab(y)[m] PROVE EndedMonth(x) = x
    <3>1. m < 12 => DayOf(x) < Before(y, m) + yytab(y)[m]
      <4> SUFFICES ASSUME m < 12 PROVE DayOf(x) < Before(y, m) + yytab(y)[m]
        OBVIOUS
      <4>1. yytab(y)[m] \in Nat
        BY NextBefore
      <4> QED
        BY <2>1, <2>2, <4>1
    <3>2. Before(y, m) <= DayOf(x)
      BY <2>1
    <3>3. \A n \in 1..12 : Holds(DayOf(x), y, m, n) <=> n = m
      BY <2>1, <3>1, <3>2, HoldsHere
    <3>4. EndMonth(x) = m
      BY <2>0, <3>3 DEF EndMonth
    <3> QED
      BY <1>1, <2>0, <2>1, <3>4 DEF EndedMonth
  <2>3. ASSUME ~(m = 12 \/ d < yytab(y)[m])
        PROVE  NextMonth(x) \in OfMonth /\ EndedMonth(x) = EndedMonth(NextMonth(x))
    <3>0. m < 12
      BY <2>3
    <3>1. m + 1 \in 1..12 /\ yytab(y)[m] \in Nat /\ yytab(y)[m] <= d
          /\ Before(y, m + 1) = Before(y, m) + yytab(y)[m] /\ Before(y, m + 1) \in Nat
      <4>1. m + 1 \in 1..12 /\ yytab(y)[m] \in Nat
            /\ Before(y, m + 1) = Before(y, m) + yytab(y)[m] /\ Before(y, m + 1) \in Nat
        BY <3>0, NextBefore
      <4> QED
        BY <2>3, <4>1
    <3> DEFINE w == NextMonth(x)
    <3>2. w = [dayno |-> d - yytab(y)[m], year |-> y, mon |-> m + 1]
      BY <2>0 DEF NextMonth
    <3>3. w \in OfMonth /\ w.year = y /\ w.mon = m + 1 /\ w.dayno = d - yytab(y)[m]
      BY <3>1, <3>2 DEF OfMonth
    <3> HIDE DEF w
    <3>4. DayOf(w) = DayOf(x)
      BY <2>1, <3>1, <3>3 DEF DayOf
    <3>5. \A n \in 1..12 : Holds(DayOf(x), y, m, n) <=> Holds(DayOf(x), y, m + 1, n)
      <4>1. Before(y, m) + yytab(y)[m] <= DayOf(x)
        BY <2>1, <3>1
      <4> QED
        BY <2>1, <3>0, <4>1, HoldsLater
    <3>6. EndMonth(x) = EndMonth(w)
      BY <2>0, <3>3, <3>4, <3>5 DEF EndMonth
    <3>7. EndedMonth(x) = EndedMonth(w)
      BY <2>0, <3>3, <3>4, <3>6 DEF EndedMonth
    <3> QED
      BY <3>3, <3>7 DEF w
  <2> QED
    BY <2>2, <2>3
<1>2. ASSUME NEW x \in OfMonth
      PROVE  EndedMonth(x) = IF Last(x) THEN x ELSE g[NextMonth(x)]
  <2> HIDE DEF Loops
  <2>1. PICK d \in Nat, y \in Nat, m \in 1..12 : x = [dayno |-> d, year |-> y, mon |-> m]
    BY DEF OfMonth
  <2>2. x.dayno = d /\ x.year = y /\ x.mon = m
    BY <2>1
  <2> QED
    BY <1>1, <2>1, <2>2
<1>3. Loops(g)
  BY <1>2
<1> HIDE DEF g
<1>4. Loops(gmtimeMonth)
  BY <1>3 DEF gmtimeMonth, NextMonth, OfMonth
<1> QED
  BY <1>4

-----------------------------------------------------------------------------
\* n rounds of the loop over the years, from any of them.
Rounds(n) ==
  \A y \in Nat, d \in Nat :
    Elapsed(y + n) <= d + Elapsed(y) =>
      gmtimeYear[[dayno |-> d, year |-> y]] =
        gmtimeYear[[dayno |-> d + Elapsed(y) - Elapsed(y + n), year |-> y + n]]

\* No round, and the one of the loop.
LEMMA OneRound == Rounds(0) /\ Rounds(1)
<1>1. ASSUME NEW y \in Nat, NEW d \in Nat, Elapsed(y + 1) <= d + Elapsed(y)
      PROVE  gmtimeYear[[dayno |-> d, year |-> y]] =
               gmtimeYear[[dayno |-> d + Elapsed(y) - Elapsed(y + 1), year |-> y + 1]]
  <2> DEFINE t == [dayno |-> d, year |-> y]
  <2>1. t \in OfYear
    BY DEF OfYear
  <2>2. /\ Elapsed(y) \in Nat /\ Elapsed(y + 1) = Elapsed(y) + YYEARSIZE(y)
        /\ YYEARSIZE(y) \in Nat
    BY YearElapses DEF YYEARSIZE
  <2>3. ~(d < YYEARSIZE(y)) /\ d - YYEARSIZE(y) = d + Elapsed(y) - Elapsed(y + 1)
    BY <1>1, <2>2
  <2>4. gmtimeYear[t] = gmtimeYear[NextYear(t)]
    BY <2>1, <2>3, YearLoop
  <2> QED
    BY <2>3, <2>4 DEF NextYear
<1>2. ASSUME NEW y \in Nat, NEW d \in Nat
      PROVE  d + Elapsed(y) - Elapsed(y + 0) = d /\ y + 0 = y
  BY YearElapses
<1> QED
  BY <1>1, <1>2 DEF Rounds

\* One number of rounds after another.
LEMMA MoreRounds ==
  ASSUME NEW m \in Nat, NEW n \in Nat, Rounds(m), Rounds(n)
  PROVE  Rounds(m + n)
<1> SUFFICES ASSUME NEW y \in Nat, NEW d \in Nat, Elapsed(y + (m + n)) <= d + Elapsed(y)
             PROVE  gmtimeYear[[dayno |-> d, year |-> y]] =
                      gmtimeYear[[dayno |-> d + Elapsed(y) - Elapsed(y + (m + n)),
                                  year |-> y + (m + n)]]
  BY DEF Rounds
<1> DEFINE z == y + m
           e == d + Elapsed(y) - Elapsed(z)
<1>1. z \in Nat /\ z + n = y + (m + n) /\ Elapsed(y) \in Nat /\ Elapsed(z) \in Nat
      /\ Elapsed(z + n) \in Nat
  BY YearElapses
<1>2. Elapsed(z) <= Elapsed(z + n)
  <2>1. CASE n = 0
    BY <1>1, <2>1
  <2>2. CASE n > 0
    <3>1. Elapsed(z + 1) <= Elapsed(z + n)
      <4>1. z < z + n /\ z + n \in Nat
        BY <1>1, <2>2
      <4> HIDE DEF z
      <4> QED
        BY <1>1, <4>1, LaterElapses
    <3>2. Elapsed(z + 1) \in Nat /\ Elapsed(z) <= Elapsed(z + 1)
      BY <1>1, YearElapses DEF YYEARSIZE
    <3> QED
      BY <1>1, <3>1, <3>2
  <2> QED
    BY <2>1, <2>2
<1>3. e \in Nat /\ Elapsed(z) <= d + Elapsed(y) /\ Elapsed(z + n) <= e + Elapsed(z)
      /\ e + Elapsed(z) - Elapsed(z + n) = d + Elapsed(y) - Elapsed(z + n)
  BY <1>1, <1>2
<1>4. gmtimeYear[[dayno |-> d, year |-> y]] = gmtimeYear[[dayno |-> e, year |-> z]]
  BY <1>3 DEF Rounds
<1>5. gmtimeYear[[dayno |-> e, year |-> z]] =
        gmtimeYear[[dayno |-> e + Elapsed(z) - Elapsed(z + n), year |-> z + n]]
  BY <1>1, <1>3 DEF Rounds
<1> QED
  BY <1>1, <1>3, <1>4, <1>5

\* If as many rounds as k can be made, twice as many and one more can.
LEMMA Doubled ==
  ASSUME NEW k \in Nat, \A n \in 0..k : Rounds(n)
  PROVE  \A n \in 0..2 * k + 1 : Rounds(n)
<1> SUFFICES ASSUME NEW n \in 0..2 * k + 1 PROVE Rounds(n)
  OBVIOUS
<1>1. Rounds(k) /\ Rounds(1)
  BY OneRound
<1>2. CASE n <= k
  BY <1>2
<1>3. CASE n > k /\ n <= 2 * k
  <2>1. Rounds(n - k) /\ n - k \in Nat /\ k + (n - k) = n
    BY <1>3
  <2> QED
    BY <1>1, <2>1, MoreRounds
<1>4. CASE n = 2 * k + 1
  <2>1. Rounds(k + k)
    BY <1>1, MoreRounds
  <2>2. Rounds((k + k) + 1)
    BY <1>1, <2>1, MoreRounds
  <2>3. (k + k) + 1 = n
    BY <1>4
  <2> QED
    BY <2>2, <2>3
<1> QED
  BY <1>2, <1>3, <1>4

\* Doubling their number seven times gives more rounds than the calls need.
LEMMA ManyRounds == \A n \in 0..127 : Rounds(n)
<1> DEFINE Upto(k) == \A n \in 0..k : Rounds(n)
<1>1. ASSUME NEW k \in Nat, Upto(k) PROVE Upto(2 * k + 1)
  BY <1>1, Doubled
<1>2. Upto(1)
  BY OneRound
<1> HIDE DEF Upto
<1>3. Upto(3)
  BY <1>1, <1>2, 2 * 1 + 1 = 3
<1>4. Upto(7)
  BY <1>1, <1>3, 2 * 3 + 1 = 7
<1>5. Upto(15)
  BY <1>1, <1>4, 2 * 7 + 1 = 15
<1>6. Upto(31)
  BY <1>1, <1>5, 2 * 15 + 1 = 31
<1>7. Upto(63)
  BY <1>1, <1>6, 2 * 31 + 1 = 63
<1>8. Upto(127)
  BY <1>1, <1>7, 2 * 63 + 1 = 127
<1> QED
  BY <1>8 DEF Upto

\* The days before a month,
LEMMA BeforeType ==
  ASSUME NEW y \in Nat, NEW m \in 1..12
  PROVE  Before(y, m) \in Nat
BY MonthsElapse

\* which a later month has after this one.
LEMMA BeforeNext ==
  ASSUME NEW y \in Nat, NEW m \in 1..12, NEW n \in 1..12, m < n
  PROVE  Before(y, m + 1) <= Before(y, n)
BY MonthsElapse

\* The rounds of the loop over the months find a day of a month there.
LEMMA MonthRounds ==
  ASSUME NEW y \in Nat, NEW m \in 1..12, NEW r \in Nat, m < 12 => r < yytab(y)[m]
  PROVE  gmtimeMonth[[dayno |-> Before(y, m) + r, year |-> y, mon |-> 1]] =
           [dayno |-> r, year |-> y, mon |-> m]
<1> DEFINE t == Before(y, m) + r
           At(k) == [dayno |-> t - Before(y, k), year |-> y, mon |-> k]
           Reaches(k) == k <= m => gmtimeMonth[At(1)] = gmtimeMonth[At(k)]
<1>0. t \in Nat /\ Before(y, m) \in Nat
  <2>1. Before(y, m) \in Nat
    BY BeforeType
  <2> QED
    BY <2>1
<1>1. ASSUME NEW k \in 1..11, k < m PROVE gmtimeMonth[At(k)] = gmtimeMonth[At(k + 1)]
  <2>1. /\ k \in 1..12 /\ k < 12 /\ k + 1 \in 1..12
        /\ Before(y, k) \in Nat /\ Before(y, k + 1) \in Nat /\ yytab(y)[k] \in Nat
        /\ Before(y, k + 1) = Before(y, k) + yytab(y)[k]
    <3>1. k \in 1..12 /\ k < 12
      OBVIOUS
    <3> QED
      BY <3>1, NextBefore
  <2>2. Before(y, k + 1) <= t
    <3>1. k + 1 <= m
      BY <1>1
    <3>2. CASE k + 1 = m
      BY <1>0, <3>2
    <3>3. CASE k + 1 < m
      <4>1. Before(y, (k + 1) + 1) <= Before(y, m)
        BY <2>1, <3>3, MonthsElapse
      <4>2. k + 1 < 12
        BY <3>3
      <4>3. Before(y, (k + 1) + 1) = Before(y, k + 1) + yytab(y)[k + 1]
            /\ yytab(y)[k + 1] \in Nat
        BY <2>1, <4>2, NextBefore
      <4> QED
        BY <1>0, <2>1, <4>1, <4>3
    <3> QED
      BY <3>1, <3>2, <3>3, <2>1
  <2>3. At(k) \in OfMonth
    BY <1>0, <2>1, <2>2 DEF OfMonth
  <2>4. ~(k = 12 \/ t - Before(y, k) < yytab(y)[k])
    BY <1>0, <2>1, <2>2
  <2>5. NextMonth(At(k)) = At(k + 1)
    BY <1>0, <2>1 DEF NextMonth
  <2> HIDE DEF t
  <2>6. At(k).mon = k /\ At(k).year = y /\ At(k).dayno = t - Before(y, k)
    OBVIOUS
  <2> HIDE DEF At
  <2> QED
    BY <2>3, <2>4, <2>5, <2>6, MonthLoop
<1>2. At(m) = [dayno |-> r, year |-> y, mon |-> m] /\ At(m) \in OfMonth
  BY <1>0 DEF OfMonth
<1>3. gmtimeMonth[At(m)] = At(m)
  <2>1. m = 12 \/ r < yytab(y)[m]
    OBVIOUS
  <2> HIDE DEF At
  <2> QED
    BY <1>2, <2>1, MonthLoop
<1>4. At(1) = [dayno |-> t, year |-> y, mon |-> 1]
  BY <1>0, MonthTable DEF Before
<1> HIDE DEF At, t
<1>5. Reaches(1)
  OBVIOUS
<1>6. ASSUME NEW k \in 1..11, Reaches(k) PROVE Reaches(k + 1)
  BY <1>1, <1>6
<1> HIDE DEF Reaches
<1>7. Reaches(2)
  BY <1>5, <1>6, 1 + 1 = 2
<1>8. Reaches(3)
  BY <1>6, <1>7, 2 + 1 = 3
<1>9. Reaches(4)
  BY <1>6, <1>8, 3 + 1 = 4
<1>10. Reaches(5)
  BY <1>6, <1>9, 4 + 1 = 5
<1>11. Reaches(6)
  BY <1>6, <1>10, 5 + 1 = 6
<1>12. Reaches(7)
  BY <1>6, <1>11, 6 + 1 = 7
<1>13. Reaches(8)
  BY <1>6, <1>12, 7 + 1 = 8
<1>14. Reaches(9)
  BY <1>6, <1>13, 8 + 1 = 9
<1>15. Reaches(10)
  BY <1>6, <1>14, 9 + 1 = 10
<1>16. Reaches(11)
  BY <1>6, <1>15, 10 + 1 = 11
<1>17. Reaches(12)
  BY <1>6, <1>16, 11 + 1 = 12
<1>18. Reaches(m)
  <2>1. m = 1 \/ m = 2 \/ m = 3 \/ m = 4 \/ m = 5 \/ m = 6
        \/ m = 7 \/ m = 8 \/ m = 9 \/ m = 10 \/ m = 11 \/ m = 12
    OBVIOUS
  <2> QED
    BY <1>5, <1>7, <1>8, <1>9, <1>10, <1>11, <1>12, <1>13, <1>14, <1>15, <1>16, <1>17, <2>1
<1> QED
  BY <1>2, <1>3, <1>4, <1>18 DEF Reaches, t

\* The months are within the year.
LEMMA WithinYear ==
  ASSUME NEW y \in Nat, NEW m \in 1..12
  PROVE  Before(y, m) + yytab(y)[m] <= YYEARSIZE(y)
<1>1. Before(y, m) \in Nat
  BY BeforeType
<1>2. Before(y, 12) + 31 = YYEARSIZE(y) /\ Before(y, 12) \in Nat
  BY MonthTable DEF Before, YYEARSIZE
<1>3. CASE m = 12
  <2>1. yytab(y)[12] = 31
    BY DEF yytab, daysArray
  <2> QED
    BY <1>2, <1>3, <2>1
<1>4. CASE m < 12
  <2>1. Before(y, m + 1) = Before(y, m) + yytab(y)[m]
    BY <1>4, NextBefore
  <2>2. Before(y, m + 1) <= Before(y, 12)
    BY <1>4, BeforeNext
  <2>3. Before(y, m + 1) \in Nat /\ yytab(y)[m] \in Nat
    BY <1>4, NextBefore
  <2> QED
    BY <1>1, <1>2, <2>1, <2>2, <2>3
<1>5. m = 12 \/ m < 12
  OBVIOUS
<1> QED
  BY <1>3, <1>4, <1>5

\* A month of the code is as long as that of the calendar.
LEMMA SameLength ==
  ASSUME NEW y \in Nat, 2001 <= y, y <= 2068, NEW m \in 1..12
  PROVE  yytab(y)[m] = Length(y, m)
<1>1. Leap(y) <=> LLEAPYEAR(y)
  BY DEF Leap, LLEAPYEAR
<1> QED
  BY <1>1 DEF yytab, daysArray, Length

\* gmtime takes the hours that passed until a date back to the date.
THEOREM DateOfTime ==
  ASSUME NEW c, Day(c), NEW t \in Nat, t = 24 * (DaySum(c) - DayError(c) + 10957) + c.hour
  PROVE  gmtime(t) = c
<1> DEFINE y == c.year
           m == c.month
           r == c.date - 1
           D == DaySum(c) - DayError(c) + 10957
<1>1. /\ y \in Nat /\ 2001 <= y /\ y <= 2068 /\ m \in 1..12 /\ r \in Nat /\ c.hour \in 0..23
      /\ r < Length(y, m) /\ c.date = r + 1 /\ D \in Nat
      /\ c = [year |-> y, month |-> m, date |-> r + 1, hour |-> c.hour]
  <2>1. /\ y \in Nat /\ 2001 <= y /\ y <= 2068 /\ m \in 1..12 /\ r \in Nat /\ c.hour \in 0..23
        /\ c.date = r + 1
    BY DEF Day, Dates
  <2>2. c.date <= Length(y, m) /\ Length(y, m) \in Nat
    BY DEF Day, Length
  <2>3. D \in Nat
    BY DayTerms
  <2>4. c = [year |-> c.year, month |-> c.month, date |-> c.date, hour |-> c.hour]
    BY DEF Day, Dates
  <2> QED
    BY <2>1, <2>2, <2>3, <2>4
<1>2. yytab(y)[m] = Length(y, m) /\ Before(y, m) + Length(y, m) <= YYEARSIZE(y)
  <2>1. yytab(y)[m] = Length(y, m)
    BY <1>1, SameLength
  <2>2. Before(y, m) + yytab(y)[m] <= YYEARSIZE(y)
    BY <1>1, WithinYear
  <2> QED
    BY <2>1, <2>2
<1>3. Before(y, m) \in Nat /\ Length(y, m) \in Nat
  <2>1. Before(y, m) \in Nat
    BY <1>1, BeforeType
  <2> QED
    BY <2>1 DEF Length
<1>4. D + Elapsed(1970) = Elapsed(y) + Before(y, m) + r
  <2>1. LeapDay(c) - DayError(c) = IF m > 2 /\ LLEAPYEAR(y) THEN 1 ELSE 0
    <3>1. (Leap(y) <=> y % 4 = 0) /\ (LLEAPYEAR(y) <=> y % 4 = 0)
      BY <1>1 DEF Leap, LLEAPYEAR
    <3> QED
      BY <1>1, <3>1 DEF LeapDay, DayError
  <2>2. Elapsed(1970) = 719528
    BY DEF Elapsed
  <2>3. Elapsed(y) = 365 * y + LeapYearsBefore(c) + 485
    BY <1>1 DEF Elapsed, LeapYearsBefore
  <2>4. LeapDay(c) \in Int /\ DayError(c) \in Int /\ daysBefore[m] \in Int
        /\ LeapYearsBefore(c) \in Int
    BY DayTerms
  <2>5. D = r + daysBefore[m] + (LeapDay(c) - DayError(c)) + 365 * (y - 2000)
              + LeapYearsBefore(c) + 10957
    BY <1>1, <2>4 DEF DaySum
  <2>6. Before(y, m) = daysBefore[m] + (LeapDay(c) - DayError(c))
    BY <2>1 DEF Before
  <2> QED
    BY <1>1, <2>2, <2>3, <2>4, <2>5, <2>6
<1>5. t \div 24 = D /\ t % 24 = c.hour
  <2>1. t = 24 * D + c.hour
    OBVIOUS
  <2> HIDE DEF D
  <2> QED
    BY <1>1, <2>1
<1> HIDE DEF D, y, m, r
<1>6. gmtimeYear[[dayno |-> D, year |-> 1970]] =
        [dayno |-> Before(y, m) + r, year |-> y]
  <2>1. Rounds(y - 1970) /\ y - 1970 \in Nat /\ 1970 + (y - 1970) = y
    BY <1>1, ManyRounds
  <2>2. Elapsed(y) \in Nat /\ Elapsed(1970) \in Nat
    BY <1>1, YearElapses
  <2>3. Elapsed(y) <= D + Elapsed(1970) /\ D + Elapsed(1970) - Elapsed(y) = Before(y, m) + r
    BY <1>1, <1>3, <1>4, <2>2
  <2>4. gmtimeYear[[dayno |-> D, year |-> 1970]] =
          gmtimeYear[[dayno |-> Before(y, m) + r, year |-> y]]
    BY <1>1, <2>1, <2>3 DEF Rounds
  <2>5. Before(y, m) + r < YYEARSIZE(y) /\ Before(y, m) + r \in Nat
    BY <1>1, <1>2, <1>3 DEF YYEARSIZE
  <2>6. [dayno |-> Before(y, m) + r, year |-> y] \in OfYear
    BY <1>1, <2>5 DEF OfYear
  <2> QED
    BY <2>4, <2>5, <2>6, YearLoop
<1>7. gmtimeMonth[[dayno |-> Before(y, m) + r, year |-> y, mon |-> 1]] =
        [dayno |-> r, year |-> y, mon |-> m]
  BY <1>1, <1>2, MonthRounds
<1>8. gmtime(t) = [year |-> y, month |-> m, date |-> r + 1, hour |-> c.hour]
  BY <1>5, <1>6, <1>7 DEF gmtime
<1> QED
  BY <1>1, <1>8

-----------------------------------------------------------------------------
(* The state.                                                               *)

\* The registers of the clock have its four fields.
Registers(r) == r = [year |-> r.year, month |-> r.month, date |-> r.date, hour |-> r.hour]

\* What the steps preserve: the true date is a day of these years, its day of
\* the week and its time stamp are those the code computes from it.
IInv ==
  /\ now \in Nat
  /\ Day(civil)
  /\ civil.year > LastYear => civil.hour = 0
  /\ weekday = Dow(civil)
  /\ unixtime(civil) = now + 24 * DayError(civil) - 1
  /\ Registers(rtc)

\* The time stamp of a date is that of its day and the hour.
LEMMA StampIsSum ==
  ASSUME NEW c, Day(c)
  PROVE  unixtime(c) = 24 * DaySum(c) + c.hour + 262967
BY DaysIsSum DEF unixtime, epoch2000

\* The reference calendar starts with the day of the week and the time stamp of the code.
LEMMA InitInv == Init => IInv
<1> SUFFICES ASSUME Init PROVE IInv
  OBVIOUS
<1> DEFINE c == [year |-> FirstYear, month |-> 1, date |-> 1, hour |-> 0]
<1>1. /\ civil = c /\ now = 24 * NewYear(FirstYear)
      /\ weekday = DayOfWeek(NewYear(FirstYear))
  BY DEF Init
<1>2. FirstYear \in Int /\ 2001 <= FirstYear /\ FirstYear <= LastYear /\ FirstYear <= 2067
  BY YearsAssumption DEF YearsAssumption
<1>3. Day(c)
  BY <1>2 DEF Day, Dates, Length
<1>4. (FirstYear - 1969) \div 4 = (FirstYear - 2001) \div 4 + 8
      /\ (FirstYear - 1997) \div 4 = (FirstYear - 2001) \div 4 + 1
      /\ (FirstYear - 2001) \div 4 \in Nat
  BY <1>2
<1>5. NewYear(FirstYear) = 365 * (FirstYear - 1970) + (FirstYear - 2001) \div 4 + 8
      /\ NewYear(FirstYear) \in Nat
  BY <1>2, <1>4 DEF NewYear
<1>6. weekday = Dow(c)
  <2>1. DowSum(c) = (FirstYear - 2001) + (FirstYear - 2001) \div 4 + 1
    BY <1>2, <1>4 DEF DowSum, DowYear, dowArray
  <2>2. Dow(c) = DowOf(DowSum(c))
    BY <1>3, DowIsSum
  <2>3. NewYear(FirstYear) + 3 = DowSum(c) - 1 + 7 * (52 * (FirstYear - 2001) + 1618)
    BY <1>2, <1>4, <1>5, <2>1
  <2>4. DowSum(c) \in Nat /\ DowSum(c) >= 1
    BY <1>2, <1>4, <2>1
  <2>5. ASSUME NEW a \in Nat, NEW s \in Nat, s >= 1, NEW k \in Nat, a = s - 1 + 7 * k
        PROVE  (a % 7) + 1 = DowOf(s)
    BY <2>5 DEF DowOf
  <2>6. 52 * (FirstYear - 2001) + 1618 \in Nat
    BY <1>2
  <2> QED
    BY <1>1, <1>5, <2>2, <2>3, <2>4, <2>5, <2>6 DEF DayOfWeek
<1>7. unixtime(c) = now + 24 * DayError(c) - 1
  <2>1. LeapDay(c) = 0 /\ DayError(c) = 0 /\ daysBefore[1] = 0
    BY MonthTable DEF LeapDay, DayError
  <2>2. DaySum(c) = 365 * (FirstYear - 2000) + (FirstYear - 2001) \div 4 + 1
    BY <1>2, <1>4, <2>1 DEF DaySum, LeapYearsBefore
  <2>3. unixtime(c) = 24 * DaySum(c) + 262967
    BY <1>2, <1>3, <1>4, <2>2, StampIsSum
  <2> QED
    BY <1>1, <1>2, <1>4, <1>5, <2>1, <2>2, <2>3
<1>8. Registers(rtc)
  BY DEF Init, Registers
<1> QED
  BY <1>1, <1>2, <1>3, <1>5, <1>6, <1>7, <1>8 DEF IInv

\* Whatever the registers hold, they keep their fields as the clock counts,
LEMMA LaterRegisters ==
  ASSUME NEW r, Registers(r), NEW k
  PROVE  Registers(Later(r, k))
BY DEF Registers, Later, NextDay

\* and as its hour is written.
LEMMA SetHour ==
  ASSUME NEW r, Registers(r), NEW h
  PROVE  Registers([r EXCEPT !.hour = h])
BY DEF Registers

\* Time goes on within a day or to the next midnight.
LEMMA TimePassesInv ==
  ASSUME IInv, NEW k \in 1..24, civil.hour + k <= 24, civil.year <= LastYear, TimePasses(k)
  PROVE  IInv'
<1>1. /\ now' = now + k /\ civil' = Later(civil, k) /\ rtc' = Later(rtc, k)
      /\ weekday' = IF civil.hour + k < 24 THEN weekday ELSE (weekday % 7) + 1
  BY DEF TimePasses
<1>2. /\ now \in Nat /\ Day(civil) /\ weekday = Dow(civil)
      /\ unixtime(civil) = now + 24 * DayError(civil) - 1
      /\ civil.hour \in 0..23 /\ civil.year \in Int
  BY DayFields DEF IInv, Day, Dates
<1>3. LastYear \in Int /\ LastYear <= 2067
  BY YearsAssumption DEF YearsAssumption
<1>4. Registers(rtc')
  BY <1>1, LaterRegisters DEF IInv
<1>5. DayError(civil) \in Int /\ DaySum(civil) \in Nat
      /\ unixtime(civil) = 24 * DaySum(civil) + civil.hour + 262967
  BY <1>2, DayTerms, StampIsSum
<1>6. CASE civil.hour + k < 24
  <2>1. civil' = [civil EXCEPT !.hour = civil.hour + k]
    BY <1>1, <1>6 DEF Later
  <2>2. /\ civil' \in Dates /\ civil'.year = civil.year /\ civil'.month = civil.month
        /\ civil'.date = civil.date /\ civil'.hour = civil.hour + k
    BY <1>2, <1>6, <2>1 DEF Day, Dates
  <2>3. Day(civil')
    BY <1>2, <2>2 DEF Day
  <2>4. /\ Dow(civil') = Dow(civil) /\ DayError(civil') = DayError(civil)
        /\ DaySum(civil') = DaySum(civil)
    BY <2>2 DEF Dow, DayError, DaySum, LeapDay, LeapYearsBefore
  <2>5. unixtime(civil') = now' + 24 * DayError(civil') - 1
    BY <1>1, <1>2, <1>5, <2>2, <2>3, <2>4, StampIsSum
  <2>6. ~(civil'.year > LastYear) /\ now' \in Nat /\ weekday' = Dow(civil')
    BY <1>1, <1>2, <1>3, <1>6, <2>2, <2>4
  <2> QED
    BY <1>4, <2>3, <2>5, <2>6 DEF IInv
<1>7. CASE ~(civil.hour + k < 24)
  <2> DEFINE n == NextDay(civil)
  <2>1. civil.hour + k = 24
    BY <1>2, <1>7
  <2>2. n \in Dates /\ n.hour = 0 /\ Day(n)
    BY <1>2, <1>3, NextDayType, NextDayIsDay
  <2>3. civil' = [n EXCEPT !.hour = civil.hour + k - 24]
    BY <1>1, <1>7, Zenon DEF Later
  <2>4. civil' = n
    BY <1>2, <2>1, <2>2, <2>3 DEF Dates
  <2>5. Dow(n) = (Dow(civil) % 7) + 1
    BY <1>2, <1>3, NextDow
  <2>6. DaySum(n) - DayError(n) = DaySum(civil) - DayError(civil) + 1
    BY <1>2, <1>3, NextDaySum
  <2>7. DayError(n) \in Int /\ DaySum(n) \in Nat /\ unixtime(n) = 24 * DaySum(n) + 262967
    <3> HIDE DEF n
    <3>1. DayError(n) \in Int /\ DaySum(n) \in Nat
      BY <2>2, DayTerms
    <3>2. unixtime(n) = 24 * DaySum(n) + n.hour + 262967
      BY <2>2, StampIsSum
    <3> QED
      BY <2>2, <3>1, <3>2
  <2> HIDE DEF n
  <2>8. unixtime(n) = now' + 24 * DayError(n) - 1
    BY <1>1, <1>2, <1>5, <2>1, <2>6, <2>7
  <2>9. now' \in Nat /\ weekday' = Dow(n)
    BY <1>1, <1>2, <1>7, <2>5
  <2> QED
    BY <1>4, <2>2, <2>4, <2>8, <2>9 DEF IInv
<1> QED
  BY <1>6, <1>7

\* Every step preserves the invariant.
LEMMA NextInv == IInv /\ [Next]_vars => IInv'
<1> SUFFICES ASSUME IInv, [Next]_vars PROVE IInv'
  OBVIOUS
<1>0. ASSUME UNCHANGED <<now, civil, weekday>>, Registers(rtc') PROVE IInv'
  BY <1>0 DEF IInv, Day, Dow, DayError
<1>1. CASE HoursPass
  <2>1. PICK k \in 1..24 - civil.hour : TimePasses(k)
    BY <1>1 DEF HoursPass
  <2>2. civil.hour \in 0..23
    BY DEF IInv, Day, Dates
  <2>3. k \in 1..24 /\ civil.hour + k <= 24
    BY <2>1, <2>2
  <2> QED
    BY <1>1, <2>1, <2>3, TimePassesInv DEF HoursPass
<1>2. CASE Midnight
  <2>1. civil.hour = 23 /\ TimePasses(1)
    BY <1>2 DEF Midnight
  <2>2. civil.year <= LastYear
    BY <2>1, DayFields, YearsAssumption DEF IInv, YearsAssumption
  <2> QED
    BY <2>1, <2>2, TimePassesInv
<1>3. Registers(Dated) /\ Registers(Timed) /\ Registers(rtc) /\ Registers(Later(rtc, 1))
  <2>1. Registers(gmtime(epoch))
    BY DEF Registers, gmtime
  <2>2. Registers(rtc)
    BY DEF IInv
  <2> QED
    BY <2>1, <2>2, LaterRegisters, SetHour, Zenon DEF Dated, Timed
<1>4. ASSUME NEW p, NEW w, Writes(p, w), Registers(w) PROVE IInv'
  BY <1>0, <1>4 DEF Writes
<1>5. ASSUME NEW p \in {"sysdate", "rtctime"}, NtpAnswers(p) PROVE IInv'
  BY <1>0, <1>3, <1>5 DEF NtpAnswers
<1>6. CASE NtpFails
  BY <1>0, <1>6 DEF NtpFails, MinusOne, Registers
<1>7. CASE SystemDate
  BY <1>3, <1>4, <1>7 DEF SystemDate
<1>8. CASE RollsOver
  BY <1>3, <1>4, <1>8 DEF RollsOver
<1>9. CASE SystemTime
  BY <1>3, <1>4, <1>9 DEF SystemTime
<1>10. CASE SetTime
  BY <1>3, <1>4, <1>10 DEF SetTime
<1>11. CASE SetDate
  BY <1>3, <1>4, <1>11 DEF SetDate
<1>12. CASE UNCHANGED vars
  BY <1>0, <1>3, <1>12 DEF vars
<1> QED
  BY <1>1, <1>2, <1>5, <1>6, <1>7, <1>8, <1>9, <1>10, <1>11, <1>12 DEF Next

\* The invariant holds in every state of the clock.
THEOREM Inductive == Spec => []IInv
BY InitInv, NextInv, PTL DEF Spec

\* The day of the week computed from the registers of a clock that shows the
\* true date is the true one, in every year from 2001 to 2067.
THEOREM WeekDays == Spec => []WeekDayRight
<1>1. IInv => WeekDayRight
  <2> SUFFICES ASSUME IInv, [rtc EXCEPT !.hour = 0] = [civil EXCEPT !.hour = 0]
               PROVE  rtc_dow(rtc.year - 2000, rtc.month, rtc.date) = weekday
    BY DEF WeekDayRight
  <2>1. [rtc EXCEPT !.hour = 0] = [year |-> rtc.year, month |-> rtc.month,
                                   date |-> rtc.date, hour |-> 0]
    BY DEF IInv, Registers
  <2>2. [civil EXCEPT !.hour = 0] = [year |-> civil.year, month |-> civil.month,
                                     date |-> civil.date, hour |-> 0]
    BY DEF IInv, Day, Dates
  <2>3. rtc.year = civil.year /\ rtc.month = civil.month /\ rtc.date = civil.date
    BY <2>1, <2>2
  <2> QED
    BY <2>3 DEF IInv, Dow
<1> QED
  BY <1>1, Inductive, PTL

\* The time stamp computed from the true date is wrong by exactly this: an hour
\* behind, and a day ahead of that in February and behind it from March of a leap year.
THEOREM Stamps == Spec => [](rtc = civil => unixtime(rtc) = now + 24 * DayError(civil) - 1)
<1>1. IInv => (rtc = civil => unixtime(rtc) = now + 24 * DayError(civil) - 1)
  BY DEF IInv
<1> QED
  BY <1>1, Inductive, PTL

\* The hours that passed until now are those that gmtime takes back to the true date.
LEMMA TrueDate == IInv => gmtime(now) = civil
<1> SUFFICES ASSUME IInv PROVE gmtime(now) = civil
  OBVIOUS
<1>1. /\ now \in Nat /\ Day(civil) /\ civil.hour \in 0..23
      /\ unixtime(civil) = now + 24 * DayError(civil) - 1
  BY DEF IInv, Day, Dates
<1>2. /\ DaySum(civil) \in Nat /\ DayError(civil) \in Int
      /\ unixtime(civil) = 24 * DaySum(civil) + civil.hour + 262967
  BY <1>1, DayTerms, StampIsSum
<1>3. now = 24 * (DaySum(civil) - DayError(civil) + 10957) + civil.hour
  BY <1>1, <1>2
<1> QED
  BY <1>1, <1>3, DateOfTime

\* What the registers hold, and what is being written.
SetInv ==
  /\ ClockRight
  /\ pc \in {"sysdate", "systime"} => epoch = now
  /\ pc = "systime" => ~synced

\* Before the clock is set nothing is promised.
LEMMA InitSet == Init => SetInv
BY DEF Init, SetInv, ClockRight

\* The clock and the calendar count alike, and setting it writes the date that is.
LEMMA NextSet == IInv /\ SetInv /\ [Next]_vars => SetInv'
<1> SUFFICES ASSUME IInv, SetInv, [Next]_vars PROVE SetInv'
  OBVIOUS
<1> USE DEF SetInv, ClockRight
<1>1. CASE HoursPass
  <2>1. PICK k \in 1..24 - civil.hour : TimePasses(k)
    BY <1>1 DEF HoursPass
  <2>2. civil' = Later(civil, k) /\ rtc' = Later(rtc, k)
    BY <2>1 DEF TimePasses
  <2> QED
    BY <1>1, <2>2 DEF HoursPass
<1>2. CASE Midnight
  BY <1>2 DEF Midnight, TimePasses
<1>3. ASSUME NEW p \in {"sysdate", "rtctime"}, NtpAnswers(p) PROVE SetInv'
  BY <1>3 DEF NtpAnswers
<1>4. CASE NtpFails
  BY <1>4 DEF NtpFails
<1>5. CASE SystemDate
  BY <1>5 DEF SystemDate, Writes
<1>6. CASE RollsOver
  BY <1>6 DEF RollsOver, Writes
<1>7. CASE SystemTime
  <2>1. epoch = now /\ ~synced /\ civil' = civil /\ gmtime(epoch) = civil
    BY <1>7, TrueDate DEF SystemTime, Writes
  <2>2. CASE Writes("idle", Timed) /\ synced' = (Timed = gmtime(epoch))
    BY <2>1, <2>2 DEF Writes
  <2>3. CASE Writes("idle", rtc) /\ UNCHANGED synced
    BY <2>1, <2>3 DEF Writes
  <2> QED
    BY <1>7, <2>2, <2>3 DEF SystemTime
<1>8. CASE SetTime
  BY <1>8 DEF SetTime, Writes
<1>9. CASE SetDate
  <2>1. CASE Writes("idle", Dated) /\ synced' = (Dated = gmtime(epoch) /\ epoch = now)
    BY <2>1, TrueDate DEF Writes
  <2>2. CASE Writes("idle", rtc) /\ UNCHANGED synced
    BY <2>2 DEF Writes
  <2> QED
    BY <1>9, <2>1, <2>2 DEF SetDate
<1>10. CASE UNCHANGED vars
  BY <1>10 DEF vars
<1> QED
  BY <1>1, <1>2, <1>3, <1>4, <1>5, <1>6, <1>7, <1>8, <1>9, <1>10 DEF Next

\* A clock set to the true time shows the true date from then on.
THEOREM Right == Spec => []ClockRight
<1>1. SetInv => ClockRight
  BY DEF SetInv
<1> QED
  BY <1>1, InitSet, NextSet, Inductive, PTL DEF Spec

\* The clock goes from a date to a date.
LEMMA LaterType ==
  ASSUME NEW r \in Dates, NEW k \in 1..24
  PROVE  Later(r, k) \in Dates
<1>1. Length(r.year, r.month) <= 31 /\ Length(r.year, r.month) \in Nat
  BY DEF Length
<1>2. NextDay(r) \in Dates
  BY <1>1 DEF NextDay, Dates
<1>3. CASE r.hour + k < 24
  <2>1. r.hour + k \in 0..23 /\ Later(r, k) = [r EXCEPT !.hour = r.hour + k]
    BY <1>3 DEF Later, Dates
  <2> QED
    BY <2>1 DEF Dates
<1>4. CASE ~(r.hour + k < 24)
  <2>1. r.hour + k - 24 \in 0..23
    BY <1>4 DEF Dates
  <2>2. Later(r, k) = [NextDay(r) EXCEPT !.hour = r.hour + k - 24]
    BY <1>4, Zenon DEF Later
  <2> QED
    BY <1>2, <2>1, <2>2 DEF Dates
<1> QED
  BY <1>3, <1>4

\* What is kept of the time being written: a date can be made of it.
TypeInv ==
  /\ rtc \in Dates
  /\ pc \in {"idle", "sysdate", "systime", "rtctime", "rtcdate"}
  /\ epoch \in Nat
  /\ synced \in BOOLEAN
  /\ pc # "idle" => gmtime(epoch) \in Dates

\* The clock starts on a date.
LEMMA InitType == Init => TypeInv
<1> SUFFICES ASSUME Init PROVE TypeInv
  OBVIOUS
<1>1. Hours \subseteq 0..23
  BY HoursAssumption DEF HoursAssumption
<1>2. rtc \in [year : {2000}, month : {1}, date : {1}, hour : Hours]
      /\ pc = "idle" /\ epoch = 0 /\ synced = FALSE
  BY DEF Init
<1>3. rtc \in Dates
  <2>1. PICK h \in Hours : rtc = [year |-> 2000, month |-> 1, date |-> 1, hour |-> h]
    BY <1>2
  <2> QED
    BY <1>1, <2>1 DEF Dates
<1>4. synced \in BOOLEAN
  <2>1. synced = FALSE
    BY DEF Init
  <2> QED
    BY <2>1
<1>5. pc = "idle" /\ epoch \in Nat
  BY <1>2
<1> QED
  BY <1>3, <1>4, <1>5 DEF TypeInv

\* Counting, writing a date or an hour of one keeps it a date.
LEMMA NextType == IInv /\ TypeInv /\ [Next]_vars => TypeInv'
<1> SUFFICES ASSUME IInv, TypeInv, [Next]_vars PROVE TypeInv'
  OBVIOUS
<1>0. now \in Nat /\ civil \in Dates /\ gmtime(now) \in Dates
  BY TrueDate DEF IInv, Day
<1> USE DEF TypeInv
<1>1. CASE HoursPass
  <2>1. PICK k \in 1..24 - civil.hour : TimePasses(k)
    BY <1>1 DEF HoursPass
  <2>2. k \in 1..24 /\ rtc' = Later(rtc, k)
    BY <1>0, <2>1 DEF TimePasses, Dates
  <2>3. rtc' \in Dates
    BY <2>2, LaterType
  <2> QED
    BY <1>1, <2>3 DEF HoursPass
<1>2. CASE Midnight
  BY <1>2, LaterType DEF Midnight, TimePasses
<1>3. ASSUME NEW p \in {"sysdate", "rtctime"}, NtpAnswers(p) PROVE TypeInv'
  BY <1>0, <1>3 DEF NtpAnswers
<1>4. CASE NtpFails
  <2>1. MinusOne \subseteq Dates
    BY DEF MinusOne, Dates
  <2>2. pc = "idle" /\ rtc' \in Dates /\ UNCHANGED <<pc, epoch>>
    BY <1>4, <2>1 DEF NtpFails
  <2>3. synced' \in BOOLEAN
    BY <1>4, Zenon DEF NtpFails
  <2> QED
    BY <2>2, <2>3
<1>5. pc # "idle" => Dated \in Dates /\ Timed \in Dates
  <2> SUFFICES ASSUME gmtime(epoch) \in Dates, rtc \in Dates
               PROVE  Dated \in Dates /\ Timed \in Dates
    OBVIOUS
  <2> QED
    BY DEF Dated, Timed, Dates
<1>6. CASE SystemDate
  <2>1. pc # "idle" /\ gmtime(epoch) \in Dates /\ Dated \in Dates
    BY <1>5, <1>6 DEF SystemDate
  <2>2. CASE Writes("systime", Dated) /\ synced' = FALSE
    BY <2>1, <2>2 DEF Writes
  <2>3. CASE Writes("idle", rtc) /\ UNCHANGED synced
    BY <2>3 DEF Writes
  <2> QED
    BY <1>6, <2>2, <2>3 DEF SystemDate
<1>7. CASE RollsOver
  BY <1>7, LaterType DEF RollsOver, Writes
<1>8. CASE SystemTime
  <2>1. rtc' \in Dates /\ pc' = "idle" /\ epoch' = 0
    BY <1>5, <1>8 DEF SystemTime, Writes
  <2>2. synced' \in BOOLEAN
    BY <1>8, Zenon DEF SystemTime
  <2> QED
    BY <2>1, <2>2
<1>9. CASE SetTime
  BY <1>5, <1>9 DEF SetTime, Writes
<1>10. CASE SetDate
  <2>1. rtc' \in Dates /\ pc' = "idle" /\ epoch' = 0
    BY <1>5, <1>10 DEF SetDate, Writes
  <2>2. synced' \in BOOLEAN
    BY <1>10, Zenon DEF SetDate
  <2> QED
    BY <2>1, <2>2
<1>11. CASE UNCHANGED vars
  BY <1>11 DEF vars
<1> QED
  BY <1>1, <1>2, <1>3, <1>4, <1>6, <1>7, <1>8, <1>9, <1>10, <1>11 DEF Next

\* The state stays within its types: the registers always hold a date.
THEOREM TypeCorrect == Spec => []TypeOK
<1>1. IInv /\ TypeInv => TypeOK
  <2> SUFFICES ASSUME IInv, TypeInv PROVE TypeOK
    OBVIOUS
  <2>1. Day(civil) /\ weekday = Dow(civil) /\ now \in Nat
    BY DEF IInv
  <2>2. weekday \in 1..7
    <3>1. weekday = DowOf(DowSum(civil)) /\ DowSum(civil) \in Nat
      BY <2>1, DowIsSum, DowTerms
    <3> QED
      BY <3>1 DEF DowOf
  <2> QED
    BY <2>1, <2>2 DEF TypeOK, TypeInv, Day
<1> QED
  BY <1>1, InitType, NextType, Inductive, PTL DEF Spec
=============================================================================
