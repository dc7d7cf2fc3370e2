------------------------------ MODULE Calendar ------------------------------
(***************************************************************************)
(* The calendar arithmetic of the repository: dates into day counts and    *)
(* weekdays (utils_datetime.c, rtc.c), and counts since 1970 into dates    *)
(* (timingSystem.c).  A date is a record of a year, a month, a day of the  *)
(* month and an hour.  Counts are in hours: minutes and seconds pass       *)
(* through every conversion unchanged.                                     *)
(***************************************************************************)
EXTENDS Integers

daysArray == <<31, 28, 31, 30, 31, 30, 31, 31, 30, 31, 30, 31>>
dowArray == <<0, 3, 2, 5, 0, 3, 5, 1, 4, 6, 2, 4>>
-----------------------------------------------------------------------------
(* utils_datetime.c.                                                        *)

isLeapYear(year) == year % 4 = 0

\* The loop of date2days over the months before this one.
daysBefore[m \in 1..12] == IF m = 1 THEN 0 ELSE daysBefore[m - 1] + daysArray[m - 1]

\* The days from 1 January 2000: the leap day of the year itself is counted in
\* February, where it is not over, and not after it.
date2days(year, month, day) ==
  LET y == year - 2000
      leap == IF month = 2 /\ isLeapYear(y) THEN 1 ELSE 0
  IN  (day + daysBefore[month] + leap + 365 * y + (y + 3) \div 4 - 1) % 65536

\* 946681200 seconds, which is 31 December 1999 at 23 hours.
epoch2000 == 262967

unixtime(d) == 24 * date2days(d.year, d.month, d.date) + d.hour + epoch2000
-----------------------------------------------------------------------------
(* rtc.c: Monday is 1.  The year is that of the clock, counted from 2000.   *)

\* Mutant of rtc_dow: January and February belong to their own year.
rtc_dowOwnYear(y, m, d) ==
  LET w == (y + y \div 4 - y \div 100 + y \div 400 + dowArray[m] + d) % 7
  IN  IF w = 0 THEN 7 ELSE w
rtc_dow(y, m, d) ==
  LET z == (y - (IF m < 3 THEN 1 ELSE 0)) % 65536
      w == (z + z \div 4 - z \div 100 + z \div 400 + dowArray[m] + d) % 7
  IN  IF w = 0 THEN 7 ELSE w
-----------------------------------------------------------------------------
(* timingSystem.c.                                                          *)

LLEAPYEAR(year) == year % 4 = 0 /\ (year % 100 # 0 \/ year % 400 = 0)
YYEARSIZE(year) == IF LLEAPYEAR(year) THEN 366 ELSE 365
yytab(year) == IF LLEAPYEAR(year) THEN [daysArray EXCEPT ![2] = 29] ELSE daysArray

\* The two loops of gmtimeMDK, over their variables: the year and then the month,
\* counted from 1, that the day dayno is in, and which day of them it is.  A day of
\* a year is in one of its months, so that December needs no test.
OfYear == [dayno : Nat, year : Nat]
OfMonth == [dayno : Nat, year : Nat, mon : 1..12]
gmtimeYear[t \in OfYear] ==
  IF t.dayno < YYEARSIZE(t.year) THEN t
  ELSE gmtimeYear[[dayno |-> t.dayno - YYEARSIZE(t.year), year |-> t.year + 1]]
gmtimeMonth[t \in OfMonth] ==
  IF t.mon = 12 \/ t.dayno < yytab(t.year)[t.mon] THEN t
  ELSE gmtimeMonth[[dayno |-> t.dayno - yytab(t.year)[t.mon], year |-> t.year,
                    mon |-> t.mon + 1]]

\* Mutant of gmtime: the months are counted from 0.
gmtimeFromZero(time) ==
  LET y == gmtimeYear[[dayno |-> time \div 24, year |-> 1970]]
      m == gmtimeMonth[[dayno |-> y.dayno, year |-> y.year, mon |-> 1]]
  IN  [year |-> m.year, month |-> m.mon - 1, date |-> m.dayno + 1, hour |-> time % 24]
gmtime(time) ==
  LET y == gmtimeYear[[dayno |-> time \div 24, year |-> 1970]]
      m == gmtimeMonth[[dayno |-> y.dayno, year |-> y.year, mon |-> 1]]
  IN  [year |-> m.year, month |-> m.mon, date |-> m.dayno + 1, hour |-> time % 24]
=============================================================================
