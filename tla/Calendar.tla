------------------------------ MODULE Calendar ------------------------------
(***************************************************************************)
(* A calendar that turns one page a day, from a schedule's anchor on, and  *)
(* counts the months that begin.  It is the reference for the arithmetic   *)
(* of Schedule: on each day the calendar itself says whether the schedule  *)
(* is due, with no arithmetic on day numbers.                              *)
(***************************************************************************)
EXTENDS Schedule

CONSTANTS
    Anchors,    \* the anchors tried
    Intervals,  \* the interval counts tried
    LastPage    \* the number of days the calendar turns

ASSUME CalendarAssumption ==
    Anchors \subseteq Date /\ Intervals \subseteq 1..MaxInterval /\ LastPage \in Nat

VARIABLES
    schedule,   \* the schedule under test
    page,       \* the calendar's current day
    turned,     \* pages turned since the anchor
    begun       \* months begun since the anchor

calendarVars == <<schedule, page, turned, begun>>

D(y, m, d) == [year |-> y, month |-> m, day |-> d]

\* The longest run of sequences any schedule needs inside LastPage days.
Sequences == 0..((LastPage \div 7) + 1)

CalendarInit ==
    /\ schedule \in [startOn : Anchors, frequency : Frequencies, interval : Intervals]
    /\ page = schedule.startOn
    /\ turned = 0
    /\ begun = 0

MonthIsOver == page.day = LastDay(page.year, page.month)

TurnPage ==
    /\ turned < LastPage
    /\ page' = IF ~MonthIsOver THEN [page EXCEPT !.day = @ + 1]
               ELSE IF page.month < 12 THEN D(page.year, page.month + 1, 1)
               ELSE D(page.year + 1, 1, 1)
    /\ turned' = turned + 1
    /\ begun' = begun + (IF MonthIsOver THEN 1 ELSE 0)
    /\ UNCHANGED schedule

CalendarSpec == CalendarInit /\ [][TurnPage]_calendarVars

-----------------------------------------------------------------------------

\* The page carries the anchor's day, or the month is too short for it.
OnAnchorDay ==
    \/ page.day = schedule.startOn.day
    \/ MonthIsOver /\ page.day < schedule.startOn.day

\* What the words of the schedule say about the current page.
DueToday ==
    CASE schedule.frequency = "weekly" ->
            turned % (7 * schedule.interval) = 0
      [] schedule.frequency = "monthly" ->
            begun % schedule.interval = 0 /\ OnAnchorDay
      [] schedule.frequency = "yearly" ->
            begun % (12 * schedule.interval) = 0 /\ OnAnchorDay

\* OccurrenceDate names a day exactly when the calendar says the schedule is
\* due on it: months with a shorter end clamp, and the next long month returns
\* to the anchor's day, so a schedule never drifts (ADR-0007).
DueExactlyWhenCalendarSays ==
    DueToday <=> \E n \in Sequences : OccurrenceDate(schedule, n) = DayOf(page)

=============================================================================
