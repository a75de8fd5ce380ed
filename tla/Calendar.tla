------------------------------ MODULE Calendar ------------------------------
(***************************************************************************)
(* The calendar of source/utility/utility.cpp: the first and last second   *)
(* of the day, week, month and year of a time and the comparison of days,  *)
(* as a program uses them that looks at the clock now and then.            *)
(*                                                                         *)
(* localtime_r and mktime are external: the Gregorian calendar of a zone   *)
(* with a fixed distance from UTC.  mktime looks at year, month, day, hour,*)
(* minute and second, which may lie outside their ranges, and at nothing   *)
(* else.                                                                   *)
(*                                                                         *)
(* Bounds: Until ends the clock; years from 1970 to 2099, in which every   *)
(* fourth is a leap year, and in 1970 from the first Sunday on; no daylight*)
(* saving time.                                                            *)
(***************************************************************************)
EXTENDS Integers, Sequences, FiniteSetsExt

CONSTANTS
    Zones,            \* seconds that local time is ahead of UTC
    Starts,           \* when the program looks at the clock first
    Steps,            \* how long it waits before it looks again
    Until             \* the bound of the clock

VARIABLES
    zone,             \* the zone the program runs in
    last, now         \* when it has looked at the clock, as time_t

calendarvars == <<zone, last, now>>

Day == 86400

-----------------------------------------------------------------------------
(* The C library.  Years count from 1900, months from 0, days of the month  *)
(* from 1, as in struct tm.                                                 *)

Leap(year) == year % 4 = 0

\* Days of 1970 and later years before the year begins.
DaysBefore(year) == 365 * (year - 70) + (year - 69) \div 4

\* Days of the year before the month begins; month 12 is the end of the year.
MonthBegins(year) ==
    LET leap == IF Leap(year) THEN 1 ELSE 0
        common == <<0, 31, 59, 90, 120, 151, 181, 212, 243, 273, 304, 334, 365>>
    IN  [month \in 0..12 |-> common[month + 1] + IF month < 2 THEN 0 ELSE leap]

\* localtime_r: Time2TM.
Time2TM(time) ==
    LET local == time + zone
        day == local \div Day
        year == Max({y \in 70..199 : DaysBefore(y) <= day})
        yday == day - DaysBefore(year)
        mon == Max({m \in 0..11 : MonthBegins(year)[m] <= yday})
    IN  [year |-> year, mon |-> mon, mday |-> yday - MonthBegins(year)[mon] + 1,
         hour |-> (local % Day) \div 3600, min |-> (local % 3600) \div 60,
         sec |-> local % 60, wday |-> (day + 4) % 7, yday |-> yday]

\* mktime: TM2Time.
TM2Time(tm) ==
    LET year == tm.year + tm.mon \div 12
        day == DaysBefore(year) + MonthBegins(year)[tm.mon % 12] + tm.mday - 1
    IN  day * Day + tm.hour * 3600 + tm.min * 60 + tm.sec - zone

\* The clock goes forward, within the years of the calendar.
ASSUME CalendarAssumption ==
    /\ Zones \subseteq Int /\ Starts \subseteq Int /\ Steps \subseteq Nat /\ Until \in Int
    /\ \A z \in Zones :
          /\ \A start \in Starts : start <= Until /\ 3 * Day <= start + z
          /\ (Until + z) \div Day < DaysBefore(200)

-----------------------------------------------------------------------------
(* Beginnings and ends.  The argument is a struct tm by value.              *)

InDay(tm) == tm.hour * 3600 + tm.min * 60 + tm.sec

Midnight(tm) == [tm EXCEPT !.hour = 0, !.min = 0, !.sec = 0]

Get_0H0M0S(tm) == TM2Time(Midnight(tm))

\* Mutant: weeks begin on Monday.
SundayIsMonday(tm) == TM2Time(tm) - ((tm.wday - 1) * Day + InDay(tm))

GetSunday_0H0M0S(tm) == TM2Time(tm) - (tm.wday * Day + InDay(tm))

GetFirstMDay_0H0M0S(tm) == TM2Time(tm) - ((tm.mday - 1) * Day + InDay(tm))

\* Mutant: the day of the month is kept, and the next month may not have it.
LastMDayKeepsDay(tm) ==
    TM2Time([Midnight(tm) EXCEPT !.mon = IF @ >= 11 THEN 0 ELSE @ + 1]) - 1

\* The day of the year is incremented where the year is meant.
GetLastMDay_23H59M59S(tm) ==
    LET first == [Midnight(tm) EXCEPT !.mday = 1]
        next == IF tm.mon >= 11 THEN [first EXCEPT !.mon = 0, !.yday = @ + 1]
                                ELSE [first EXCEPT !.mon = @ + 1]
    IN  TM2Time(next) - 1

GetFirstYDay_0H0M0S(tm) == TM2Time(tm) - (tm.yday * Day + InDay(tm))

\* Here too.
GetLastYDay_23H59M59S(tm) ==
    TM2Time([Midnight(tm) EXCEPT !.yday = @ + 1, !.mon = 0, !.mday = 1]) - 1

-----------------------------------------------------------------------------
(* Comparisons *)

IsSameDay(dayl, dayr) == Time2TM(dayl).yday = Time2TM(dayr).yday

\* Mutant: the day of the year is compared whatever the years are.
BigDayOfAnyYear(dayl, dayr) ==
    LET l == Time2TM(dayl)
        r == Time2TM(dayr)
    IN  l.yday > r.yday \/ l.year > r.year

IsBigDay(dayl, dayr) ==
    LET l == Time2TM(dayl)
        r == Time2TM(dayr)
    IN  (l.year = r.year /\ l.yday > r.yday) \/ l.year > r.year

IsSmallDay(dayl, dayr) ==
    LET l == Time2TM(dayl)
        r == Time2TM(dayr)
    IN  (l.year = r.year /\ l.yday < r.yday) \/ l.year < r.year

-----------------------------------------------------------------------------
CalendarInit ==
    /\ zone \in Zones
    /\ now \in Starts
    /\ last = now

\* GetNowTime, some time after the last look.
Look ==
    /\ \E step \in Steps : now + step <= Until /\ now' = now + step
    /\ last' = now
    /\ UNCHANGED zone

CalendarNext == Look

CalendarSpec == CalendarInit /\ [][CalendarNext]_calendarvars

-----------------------------------------------------------------------------
(* Properties *)

tmNow == Time2TM(now)

\* The tm of time begins a day, and is in the same year and month as now.
Begins(tm) == tm.hour = 0 /\ tm.min = 0 /\ tm.sec = 0
SameYear(tm) == tm.year = tmNow.year
SameMonth(tm) == SameYear(tm) /\ tm.mon = tmNow.mon

\* The beginning of the day, the week, the month and the year of now are the
\* midnights they should be, in every zone, leap year and month.
BeginningsAreRight ==
    /\ LET day == Get_0H0M0S(tmNow)
       IN  now - day \in 0..Day - 1 /\ Begins(Time2TM(day))
    /\ LET week == GetSunday_0H0M0S(tmNow)
       IN  now - week \in 0..7 * Day - 1 /\ Begins(Time2TM(week)) /\ Time2TM(week).wday = 0
    /\ LET month == Time2TM(GetFirstMDay_0H0M0S(tmNow))
       IN  SameMonth(month) /\ Begins(month) /\ month.mday = 1
    /\ LET year == Time2TM(GetFirstYDay_0H0M0S(tmNow))
       IN  SameYear(year) /\ Begins(year) /\ year.mon = 0 /\ year.mday = 1

\* The last second of a month is in it, and the next is in the month after: the
\* day is set before the month, which may have fewer, and leap years count.
\* Excepted are December and, altogether, the end of the year: there the code
\* adds one to the day of the year where the year is meant, contrary to
\* utility.h:120 and 124, and nothing is claimed of what it returns.
EndsAreWhereTheyAre ==
    tmNow.mon # 11 =>
        LET end == GetLastMDay_23H59M59S(tmNow)
        IN  SameMonth(Time2TM(end)) /\ Time2TM(end + 1).mon = tmNow.mon + 1

\* Of two looks at the clock the days are compared as they follow each other,
\* whatever years and zones lie between, and two times on one day are on the
\* same day.  Excepted are two times of different years, which IsSameDay takes
\* to be on the same day when their days of the year are, contrary to
\* utility.h:127: it is not claimed to tell those apart.
DaysAreOrdered ==
    LET local(time) == (time + zone) \div Day
    IN  /\ IsBigDay(now, last) <=> local(now) > local(last)
        /\ IsSmallDay(last, now) <=> local(last) < local(now)
        /\ ~IsBigDay(last, now) /\ ~IsSmallDay(now, last)
        /\ local(now) = local(last) => IsSameDay(now, last)
        /\ IsSameDay(now, last) /\ SameYear(Time2TM(last)) => local(now) = local(last)

\* What a program is told of the calendar, from one look at the clock to the next.
CalendarIsRight == BeginningsAreRight /\ EndsAreWhereTheyAre /\ DaysAreOrdered

=============================================================================
