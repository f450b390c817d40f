----------------------------- MODULE MCDstRule -----------------------------
(***************************************************************************)
(* Model checking of DstRule: a calendar that goes from month to month     *)
(* through 28 years, after which the weekdays repeat.                      *)
(***************************************************************************)
EXTENDS DstRule

VARIABLES year, month

Init == year = 2020 /\ month = 1

NextMonth ==
    /\ year <= 2047
    /\ month' = (month % 12) + 1
    /\ year' = IF month = 12 THEN year + 1 ELSE year

Spec == Init /\ [][NextMonth]_<<year, month>>

\* nth = 5 stands for the last one of the month (the comment at
\* TimeClient.cpp:84, and "e.g. last Sunday in March" at TimeClient.cpp:72).
LastIsLast ==
    \A weekday \in 0..6 : IsLast(year, month, weekday, NthWeekday(year, month, weekday, 5))
=============================================================================
