------------------------------ MODULE DstRule ------------------------------
(***************************************************************************)
(* The offset from UTC that TimeClient.cpp computes from a POSIX zone with *)
(* rules such as "M3.5.0/03": month, which of its weekdays (5 for the      *)
(* last), weekday from Sunday = 0, hour.                                   *)
(*                                                                         *)
(* Pure: a zone is [base, dst, rules, start, end] with rules FALSE when    *)
(* the text has no two rules that parse. A time is an hour of the year in  *)
(* standard time, which is how mktime() reads a tm without tm_isdst.       *)
(***************************************************************************)
EXTENDS Integers

----------------------------------------------------------------------------
(* The C library's calendar.                                               *)

IsLeap(year) == year % 4 = 0 /\ (year % 100 # 0 \/ year % 400 = 0)

DaysIn(year, month) ==
    CASE month = 2 -> IF IsLeap(year) THEN 29 ELSE 28
      [] month \in {4, 6, 9, 11} -> 30
      [] OTHER -> 31

\* The weekday of the first of a month.
FirstWeekday(year, month) ==
    LET y == IF month < 3 THEN year - 1 ELSE year
        shift == <<0, 3, 2, 5, 0, 3, 5, 1, 4, 6, 2, 4>>[month]
    IN (y + y \div 4 - y \div 100 + y \div 400 + shift + 1) % 7

\* mktime() brings a day after the end of its month into the next one.
Normal(year, month, day) ==
    IF day <= DaysIn(year, month) THEN [month |-> month, day |-> day]
    ELSE [month |-> (month % 12) + 1, day |-> day - DaysIn(year, month)]

Hour(year, month, day, hour) ==
    LET before == [m \in 1..12 |-> (367 * m - 362) \div 12 -
                       (IF m <= 2 THEN 0 ELSE IF IsLeap(year) THEN 1 ELSE 2)]
    IN (before[month] + day - 1) * 24 + hour

----------------------------------------------------------------------------
(* nthWeekdayOfMonth()                                                     *)

DayOfNth(first, weekday, nth) == 1 + ((7 + weekday - first) % 7) + (nth - 1) * 7

\* The loop for nth = 5: weeks on, until the month is another one, then a week
\* back. mktime() has already moved the day into that other month.
StepBack(year, month, day) ==
    LET Test(weeks) == Normal(year, month, day + 7 * weeks)
        weeks == CHOOSE n \in 1..5 :
                     /\ Test(n).month # month
                     /\ \A k \in 1..(n - 1) : Test(k).month = month
    IN Test(weeks).day - 7

NthWeekday(year, month, weekday, nth) ==
    LET day == DayOfNth(FirstWeekday(year, month), weekday, nth)
    IN IF nth = 5 THEN StepBack(year, month, day) ELSE day

----------------------------------------------------------------------------
(* getTZOffset()                                                           *)

Change(year, rule) ==
    Hour(year, rule.month, NthWeekday(year, rule.month, rule.weekday, rule.nth), rule.hour)

DstActive(now, start, end) ==
    IF end < start THEN now >= start \/ now < end ELSE now >= start /\ now < end

TZOffset(zone, year, now) ==
    IF zone.rules /\ DstActive(now, Change(year, zone.start), Change(year, zone.end))
    THEN zone.dst ELSE zone.base

----------------------------------------------------------------------------
WeekdayOf(year, month, day) == (FirstWeekday(year, month) + day - 1) % 7

\* A day is the nth of its weekday in its month.
IsNth(year, month, weekday, nth, day) ==
    /\ day \in 1..DaysIn(year, month)
    /\ WeekdayOf(year, month, day) = weekday
    /\ day \in (7 * nth - 6)..(7 * nth)

\* A day is the last of its weekday in its month.
IsLast(year, month, weekday, day) ==
    /\ day \in 1..DaysIn(year, month)
    /\ WeekdayOf(year, month, day) = weekday
    /\ day + 7 > DaysIn(year, month)
=============================================================================
