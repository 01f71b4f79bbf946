------------------------------ MODULE Schedule ------------------------------
(***************************************************************************)
(* The calendar arithmetic of a recurring rule: the date of the n-th       *)
(* occurrence, computed from the rule's anchor and never from the previous *)
(* occurrence (ADR-0007).  The code carries dates as "YYYY-MM-DD" text and *)
(* compares the text; on four-digit years that order is the order of the   *)
(* day numbers used here, so a date is its day number and an anchor its    *)
(* year, month and day.                                                    *)
(***************************************************************************)
EXTENDS Integers

Frequencies == {"weekly", "monthly", "yearly"}

MaxInterval == 100

IsLeap(y) == y % 4 = 0 /\ (y % 100 # 0 \/ y % 400 = 0)

LeapDay(y) == IF IsLeap(y) THEN 1 ELSE 0

\* time.Date(year, month+1, 0).Day(): the length of a month.
LastDay(y, m) ==
    IF m = 2 THEN 28 + LeapDay(y) ELSE IF m \in {4, 6, 9, 11} THEN 30 ELSE 31

\* The days before 1 January of year y, and before month m of a year.
YearStart(y) ==
    365 * (y - 1) + ((y - 1) \div 4) - ((y - 1) \div 100) + ((y - 1) \div 400)

MonthOffset(y, m) ==
    ((367 * m - 362) \div 12) + (IF m <= 2 THEN 0 ELSE LeapDay(y) - 2)

DayNumber(y, m, d) == YearStart(y) + MonthOffset(y, m) + d

\* A year has four digits.
MaxYear == 9999

\* ParseDate accepts exactly the days of the Gregorian calendar.
Date ==
    {date \in [year : 0..MaxYear, month : 1..12, day : 1..31] :
        date.day <= LastDay(date.year, date.month)}

DayOf(date) == DayNumber(date.year, date.month, date.day)

\* Faulty variant: the day overflows into the next month, as time.Date does.
UnclampedDay(y, m, d) == DayNumber(y, m, d)

ClampedDay(y, m, d) ==
    DayNumber(y, m, IF d > LastDay(y, m) THEN LastDay(y, m) ELSE d)

\* A schedule is what a rule's start_on, frequency and interval_count say.
Schedule == [startOn : Date, frequency : Frequencies, interval : 1..MaxInterval]

\* Months are counted from year 0, so that adding a number of them carries
\* into the year.
OccurrenceDate(s, n) ==
    LET anchor == s.startOn
        months == anchor.month - 1 + s.interval * n
    IN  CASE s.frequency = "weekly"  -> DayOf(anchor) + 7 * s.interval * n
          [] s.frequency = "monthly" ->
                ClampedDay(anchor.year + (months \div 12), (months % 12) + 1, anchor.day)
          [] s.frequency = "yearly"  ->
                ClampedDay(anchor.year + s.interval * n, anchor.month, anchor.day)
=============================================================================
