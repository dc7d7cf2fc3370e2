------------------------------- MODULE Clock --------------------------------
(***************************************************************************)
(* The real-time clock of the board: set from the network when the client  *)
(* starts (setRTCTimeDateFromNetwork) or by rtc_settime, counting on its   *)
(* own, and read by rtc_gettime for the time of each message published.    *)
(* The true time is that of the reference calendar below, which is written *)
(* independently of the code's.                                            *)
(***************************************************************************)
EXTENDS Calendar

CONSTANTS
  FirstYear, LastYear,   \* the years of the run
  Hours                  \* the hours of the day at which the clock is looked at
\* rtc_dow is right from 2001 on, the count of seconds of time2long from 2000
\* overflows a long in January 2068.
ASSUME YearsAssumption == FirstYear \in 2001..2067 /\ LastYear \in FirstYear..2067
ASSUME HoursAssumption == Hours \subseteq 0..23 /\ 0 \in Hours

VARIABLES
  now,       \* hours since 1 January 1970, truly
  civil,     \* the date that is, truly
  weekday,   \* the day of the week that is, truly: Monday is 1
  rtc,       \* the registers of the clock, with the year written in full
  pc,        \* what is being written: "idle", "sysdate" and "systime" of
             \* TimingSystemSetSystemTime, "rtctime" and "rtcdate" of rtc_settime
  epoch,     \* the time that is being written, 0 when none is
  synced     \* the clock was last set to a time that was true

vars == <<now, civil, weekday, rtc, pc, epoch, synced>>
-----------------------------------------------------------------------------
(* The calendar.                                                            *)

Leap(y) == IF y % 100 = 0 THEN y % 400 = 0 ELSE y % 4 = 0
Length(y, m) ==
  IF m = 2 THEN IF Leap(y) THEN 29 ELSE 28
  ELSE IF m \in {4, 6, 9, 11} THEN 30 ELSE 31
Dates == [year : Nat, month : 1..12, date : 1..31, hour : 0..23]

NextDay(c) ==
  IF c.date < Length(c.year, c.month)
  THEN [year |-> c.year, month |-> c.month, date |-> c.date + 1, hour |-> 0]
  ELSE IF c.month < 12
  THEN [year |-> c.year, month |-> c.month + 1, date |-> 1, hour |-> 0]
  ELSE [year |-> c.year + 1, month |-> 1, date |-> 1, hour |-> 0]
Later(c, h) ==
  IF c.hour + h < 24 THEN [c EXCEPT !.hour = @ + h]
  ELSE [NextDay(c) EXCEPT !.hour = c.hour + h - 24]

\* The days from 1 January 1970 to that of a year before 2100, and the day of
\* the week a day falls on: 1 January 1970 was a Thursday.
NewYear(y) == 365 * (y - 1970) + (y - 1969) \div 4
DayOfWeek(day) == ((day + 3) % 7) + 1
-----------------------------------------------------------------------------
TypeOK ==
  /\ now \in Nat
  /\ civil \in Dates /\ civil.date <= Length(civil.year, civil.month)
  /\ weekday \in 1..7
  /\ rtc \in Dates
  /\ pc \in {"idle", "sysdate", "systime", "rtctime", "rtcdate"}
  /\ epoch \in Nat
  /\ synced \in BOOLEAN

\* Without a battery the clock starts on 1 January 2000.
Init ==
  /\ now = 24 * NewYear(FirstYear)
  /\ civil = [year |-> FirstYear, month |-> 1, date |-> 1, hour |-> 0]
  /\ weekday = DayOfWeek(NewYear(FirstYear))
  /\ rtc \in [year : {2000}, month : {1}, date : {1}, hour : Hours]
  /\ pc = "idle"
  /\ epoch = 0
  /\ synced = FALSE

TimePasses(k) ==
  /\ now' = now + k
  /\ civil' = Later(civil, k)
  /\ weekday' = IF civil.hour + k < 24 THEN weekday ELSE (weekday % 7) + 1
  /\ rtc' = Later(rtc, k)

\* Until an hour at which the clock is looked at.
HoursPass ==
  /\ pc = "idle"
  /\ civil.year <= LastYear
  /\ \E k \in 1..24 - civil.hour : civil.hour + k \in Hours \union {24} /\ TimePasses(k)
  /\ UNCHANGED <<pc, epoch, synced>>
-----------------------------------------------------------------------------
(* ntp_get_network_time refuses an epoch before 2021 and one after the      *)
(* second 2000000000; without an answer its caller gets -1.                 *)

InRange == 447072 <= now /\ now <= 555555

\* ntp_get_epoch for setRTCTimeDateFromNetwork ("sysdate") or rtc_settime
\* ("rtctime"), which go on to write the clock.
NtpAnswers(p) ==
  /\ pc = "idle"
  /\ InRange
  /\ pc' = p
  /\ epoch' = now
  /\ UNCHANGED <<now, civil, weekday, rtc, synced>>

\* What the clock shows when it is set to -1.  For the library of GCC that is the
\* last second of 1969, and the year becomes 225, which the clock keeps as 65, in two
\* digits of four bits; the gmtime of the ARM compiler takes it for a time of 2106.
MinusOne == {[year |-> 2065, month |-> 12, date |-> 31, hour |-> 23],
             [year |-> 2106, month |-> 2, date |-> 7, hour |-> 6]}

\* setRTCTimeDateFromNetwork gives up without an answer; rtc_settime sets the
\* clock to -1.  Nothing depends on the day this happens: it is one day of the
\* year, which bounds the states.
NtpFails ==
  /\ pc = "idle"
  /\ civil.month = 1 /\ civil.date = 1
  /\ rtc' \in MinusOne
  /\ synced' = FALSE
  /\ UNCHANGED <<now, civil, weekday, pc, epoch>>

Writes(p, written) ==
  /\ pc' = p
  /\ rtc' = written
  /\ epoch' = IF p = "idle" THEN 0 ELSE epoch
  /\ UNCHANGED <<now, civil, weekday>>
Dated == [gmtime(epoch) EXCEPT !.hour = rtc.hour]
Timed == [rtc EXCEPT !.hour = gmtime(epoch).hour]

\* TimingSystemSetSystemTime writes the date, and stops when that fails.
SystemDate ==
  /\ pc = "sysdate"
  /\ \/ Writes("systime", Dated) /\ synced' = FALSE
     \/ Writes("idle", rtc) /\ UNCHANGED synced

\* Until the time is written as well the clock goes on from its old time.
RollsOver ==
  /\ pc = "systime"
  /\ rtc.hour = 23
  /\ Writes(pc, Later(rtc, 1))
  /\ UNCHANGED synced

\* The time: it fails or not, and the date is still the one that was written.
SystemTime ==
  /\ pc = "systime"
  /\ \/ Writes("idle", Timed) /\ synced' = (Timed = gmtime(epoch))
     \/ Writes("idle", rtc) /\ UNCHANGED synced

\* rtc_settime writes the time first, and does not look at what either returns.
SetTime ==
  /\ pc = "rtctime"
  /\ \E t \in {Timed, rtc} : Writes("rtcdate", t)
  /\ synced' = FALSE

\* Midnight, when the clock shows the true time and not yet its date.
Midnight ==
  /\ pc = "rtcdate"
  /\ civil.hour = 23
  /\ TimePasses(1)
  /\ UNCHANGED <<pc, epoch, synced>>

SetDate ==
  /\ pc = "rtcdate"
  /\ \/ Writes("idle", Dated) /\ synced' = (Dated = gmtime(epoch) /\ epoch = now)
     \/ Writes("idle", rtc) /\ UNCHANGED synced

Next ==
  \/ HoursPass
  \/ \E p \in {"sysdate", "rtctime"} : NtpAnswers(p)
  \/ NtpFails
  \/ SystemDate \/ RollsOver \/ SystemTime
  \/ SetTime \/ Midnight \/ SetDate

Spec == Init /\ [][Next]_vars
-----------------------------------------------------------------------------
\* A clock that was set, with no midnight between the two halves of the date,
\* shows the true date from then on: gmtime and the clock's own counting agree
\* with the calendar over leap years and ends of months.
ClockRight == synced => rtc = civil

\* The day of the week that rtc_gettime computes from the registers is the true
\* one whenever their date is, however long the clock has been counting.
WeekDayRight ==
  [rtc EXCEPT !.hour = 0] = [civil EXCEPT !.hour = 0] =>
    rtc_dow(rtc.year - 2000, rtc.month, rtc.date) = weekday

-----------------------------------------------------------------------------
(* What the comments say and the code does not do. *)

\* rtc.h, of the field rtc_gettime fills in: "Epoch time from NTP raw".  The time
\* stamp of a message, computed from a right date and hour, is the true time.
StampsTrue == rtc = civil => unixtime(rtc) = now

\* "Set RTC time", and 1 for success: when TimingSystemSetSystemTime has written
\* the time as well, the clock shows the time it was given.
SystemTimeSet ==
  [][pc = "systime" /\ pc' = "idle" /\ rtc' # rtc => rtc' = gmtime(epoch)]_vars
=============================================================================
