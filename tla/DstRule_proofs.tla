--------------------------- MODULE DstRule_proofs ---------------------------
(***************************************************************************)
(* What nthWeekdayOfMonth() and the comparison of getTZOffset() compute,   *)
(* for every year.                                                         *)
(***************************************************************************)
EXTENDS DstRule, TLAPS

\* What the calendar gives the algorithm: a weekday, and 28 to 31 days.
LEMMA Calendar ==
    ASSUME NEW year \in Nat \ {0}, NEW month \in 1..12
    PROVE  FirstWeekday(year, month) \in 0..6 /\ DaysIn(year, month) \in 28..31
<1>1. DaysIn(year, month) \in 28..31
  BY DEF DaysIn
<1> DEFINE y == IF month < 3 THEN year - 1 ELSE year
           shift == <<0, 3, 2, 5, 0, 3, 5, 1, 4, 6, 2, 4>>[month]
           sum == y + (y \div 4) - (y \div 100) + (y \div 400) + shift + 1
<1>2. y \in Nat
  OBVIOUS
<1>3. shift \in Nat
  OBVIOUS
<1>4. (y \div 4) \in Int /\ (y \div 100) \in Int /\ (y \div 400) \in Int
  BY <1>2
<1> HIDE DEF y, shift
<1>5. sum \in Int
  BY <1>2, <1>3, <1>4
<1>6. FirstWeekday(year, month) = sum % 7
  BY DEF FirstWeekday, y, shift
<1> HIDE DEF sum
<1> QED  BY <1>1, <1>5, <1>6

\* The arithmetic of line 82: the nth week of the month, on the weekday asked
\* for, whatever weekday the month begins with.
LEMMA NthDay ==
    ASSUME NEW first \in 0..6, NEW weekday \in 0..6, NEW nth \in 1..5
    PROVE  /\ DayOfNth(first, weekday, nth) \in (7 * nth - 6)..(7 * nth)
           /\ (first + DayOfNth(first, weekday, nth) - 1) % 7 = weekday
<1> DEFINE r == (7 + weekday - first) % 7
<1>1. r \in 0..6 /\ (r = weekday - first \/ r = 7 + weekday - first)
  OBVIOUS
<1>2. DayOfNth(first, weekday, nth) = 1 + r + (nth - 1) * 7
  BY DEF DayOfNth
<1> HIDE DEF r
<1>3. nth = 1 \/ nth = 2 \/ nth = 3 \/ nth = 4 \/ nth = 5
  OBVIOUS
<1> QED  BY <1>1, <1>2, <1>3

\* The first to the fourth of any weekday are found in every month of every
\* year (nthWeekdayOfMonth(), TimeClient.cpp:73-82).
THEOREM NthIsNth ==
    ASSUME NEW year \in Nat \ {0}, NEW month \in 1..12, NEW weekday \in 0..6, NEW nth \in 1..4
    PROVE  IsNth(year, month, weekday, nth, NthWeekday(year, month, weekday, nth))
<1> DEFINE first == FirstWeekday(year, month)
           day == DayOfNth(first, weekday, nth)
<1>1. first \in 0..6 /\ DaysIn(year, month) \in 28..31
  BY Calendar
<1>2. NthWeekday(year, month, weekday, nth) = day
  BY DEF NthWeekday
<1> HIDE DEF first
<1>3. day \in (7 * nth - 6)..(7 * nth) /\ (first + day - 1) % 7 = weekday
  BY <1>1, NthDay
<1> HIDE DEF day
<1>4. day \in 1..DaysIn(year, month)
  BY <1>1, <1>3
<1> QED  BY <1>2, <1>3, <1>4 DEF IsNth, WeekdayOf, first

\* With nth = 5 the loop leaves the month at once and steps back inside the
\* next one: the day is one of the first seven or before them, never the last
\* of the month (TimeClient.cpp:85-98).
THEOREM FifthIsNeverLast ==
    ASSUME NEW year \in Nat \ {0}, NEW month \in 1..12, NEW weekday \in 0..6
    PROVE  /\ NthWeekday(year, month, weekday, 5) <= 7
           /\ ~IsLast(year, month, weekday, NthWeekday(year, month, weekday, 5))
<1> DEFINE days == DaysIn(year, month)
           day == DayOfNth(FirstWeekday(year, month), weekday, 5)
           Test(weeks) == Normal(year, month, day + 7 * weeks)
           Leaves(n) == Test(n).month # month /\ \A k \in 1..(n - 1) : Test(k).month = month
           weeks == CHOOSE n \in 1..5 : Leaves(n)
<1>1. days \in 28..31 /\ day \in 29..35
  BY Calendar, NthDay
<1> HIDE DEF days, day
<1>2. \A n \in 1..5 : Test(n) = [month |-> (month % 12) + 1, day |-> day + 7 * n - days]
  BY <1>1 DEF Normal, days
<1>3. (month % 12) + 1 # month
  OBVIOUS
<1>4. \A n \in 1..5 : Test(n).month # month /\ Test(n).day = day + 7 * n - days
  BY <1>2, <1>3
<1> HIDE DEF Test
<1>5. Leaves(1)
  BY <1>4
<1>6. weeks \in 1..5 /\ Leaves(weeks)
  BY <1>5
<1>7. weeks = 1
  <2>1. SUFFICES ASSUME weeks # 1 PROVE FALSE
    OBVIOUS
  <2>2. 1 \in 1..(weeks - 1)
    BY <1>6, <2>1
  <2> QED  BY <1>4, <1>6, <2>2
<1>8. StepBack(year, month, day) = Test(weeks).day - 7
  BY DEF StepBack, Test
<1> HIDE DEF weeks
<1>9. StepBack(year, month, day) = day - days
  BY <1>1, <1>4, <1>7, <1>8
<1>10. NthWeekday(year, month, weekday, 5) = day - days
  BY <1>9 DEF NthWeekday, day
<1> QED  BY <1>1, <1>10 DEF IsLast, days

\* Going round a year of so many hours from where summer time starts, it holds for as long as
\* it takes to come to its end, on either hemisphere (TimeClient.cpp:168-174).
THEOREM SummerIsWhole ==
    ASSUME NEW hours \in Nat, NEW now \in 0..(hours - 1),
           NEW start \in 0..(hours - 1), NEW end \in 0..(hours - 1)
    PROVE  LET Since(from, to) == IF to >= from THEN to - from ELSE to - from + hours
           IN  DstActive(now, start, end) <=> Since(start, now) < Since(start, end)
BY DEF DstActive
=============================================================================
