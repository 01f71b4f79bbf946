--------------------------- MODULE RecurringProofs --------------------------
(***************************************************************************)
(* Proofs about the arithmetic of schedules, which Calendar is the         *)
(* reference for, and about Recurring, for every number of clients, rules, *)
(* schedules, categories and days.                                         *)
(***************************************************************************)
EXTENDS Recurring, Calendar, TLAPS

-----------------------------------------------------------------------------
(* The calendar: what OccurrenceDate computes is a day, and a later sequence number *)
(* is a later day, for every anchor, frequency and interval.                        *)

\* A year starts after the year before it has ended.
LEMMA YearLength ==
    ASSUME NEW y \in Int
    PROVE  YearStart(y + 1) = YearStart(y) + 365 + LeapDay(y)
  BY DEF YearStart, LeapDay, IsLeap

LEMMA YearsAscend ==
    ASSUME NEW y \in Int, NEW z \in Int, y <= z
    PROVE  YearStart(y) <= YearStart(z)
  BY DEF YearStart

\* A month lies inside its year, and before any later month of that year.
LEMMA MonthInYear ==
    ASSUME NEW y \in Int, NEW m \in 1..12
    PROVE  /\ MonthOffset(y, m) >= 0
           /\ MonthOffset(y, m) + LastDay(y, m) <= 365 + LeapDay(y)
  BY DEF MonthOffset, LastDay, LeapDay

LEMMA MonthsInOrder ==
    ASSUME NEW y \in Int, NEW m \in 1..12, NEW k \in 1..12, m < k
    PROVE  MonthOffset(y, m) + LastDay(y, m) <= MonthOffset(y, k)
  BY DEF MonthOffset, LastDay, LeapDay

LEMMA ClampedDayInMonth ==
    ASSUME NEW y \in Int, NEW m \in 1..12, NEW d \in 1..31
    PROVE  /\ ClampedDay(y, m, d) \in Int
           /\ ClampedDay(y, m, d) > YearStart(y) + MonthOffset(y, m)
           /\ ClampedDay(y, m, d) <= YearStart(y) + MonthOffset(y, m) + LastDay(y, m)
  <1>1. YearStart(y) \in Int /\ MonthOffset(y, m) \in Int /\ LastDay(y, m) \in 1..31
    BY DEF YearStart, MonthOffset, LastDay, LeapDay
  <1> QED
    BY <1>1 DEF ClampedDay, DayNumber

\* Clamping keeps the order of months: a clamped day of an earlier month is an
\* earlier day.
LEMMA ClampedDaysAscend ==
    ASSUME NEW y \in Int, NEW m \in 1..12, NEW d \in 1..31,
           NEW z \in Int, NEW k \in 1..12, NEW e \in 1..31,
           y < z \/ (y = z /\ m < k)
    PROVE  ClampedDay(y, m, d) < ClampedDay(z, k, e)
  <1> DEFINE endOf == YearStart(y) + MonthOffset(y, m) + LastDay(y, m)
  <1>1. endOf \in Int /\ YearStart(z) + MonthOffset(z, k) \in Int
    BY DEF YearStart, MonthOffset, LastDay, LeapDay
  <1>2. endOf <= YearStart(z) + MonthOffset(z, k)
    <2>1. CASE y = z
      <3>1. MonthOffset(y, m) + LastDay(y, m) <= MonthOffset(y, k)
        BY <2>1, MonthsInOrder
      <3> QED
        BY <2>1, <3>1 DEF YearStart, MonthOffset, LastDay, LeapDay
    <2>2. CASE y < z
      <3>1. YearStart(y + 1) <= YearStart(z)
        BY <2>2, YearsAscend
      <3>2. YearStart(y + 1) = YearStart(y) + 365 + LeapDay(y)
        BY YearLength
      <3>3. MonthOffset(y, m) + LastDay(y, m) <= 365 + LeapDay(y)
        BY MonthInYear
      <3>4. MonthOffset(z, k) >= 0
        BY MonthInYear
      <3>5. /\ YearStart(y) \in Int /\ YearStart(z) \in Int /\ YearStart(y + 1) \in Int
            /\ MonthOffset(y, m) \in Int /\ MonthOffset(z, k) \in Int
            /\ LastDay(y, m) \in Int /\ LeapDay(y) \in Int
        BY DEF YearStart, MonthOffset, LastDay, LeapDay
      <3> QED
        BY <3>1, <3>2, <3>3, <3>4, <3>5
    <2> QED
      BY <2>1, <2>2
  <1>3. ClampedDay(y, m, d) <= endOf /\ ClampedDay(y, m, d) \in Int
    BY ClampedDayInMonth
  <1>4. ClampedDay(z, k, e) > YearStart(z) + MonthOffset(z, k) /\ ClampedDay(z, k, e) \in Int
    BY ClampedDayInMonth
  <1> HIDE DEF endOf
  <1> QED
    BY <1>1, <1>2, <1>3, <1>4

-----------------------------------------------------------------------------

\* The fields a proof looks at.
LEMMA YearsAreIntegers ==
    ASSUME NEW y, y \in 0..MaxYear
    PROVE  y \in Int
  BY DEF MaxYear

LEMMA DateFields ==
    ASSUME NEW a, a \in Date
    PROVE  a.year \in Int /\ a.month \in 1..12 /\ a.day \in 1..31
  <1>1. a \in [year : 0..MaxYear, month : 1..12, day : 1..31]
    BY DEF Date
  <1>2. a.year \in 0..MaxYear /\ a.month \in 1..12 /\ a.day \in 1..31
    BY <1>1
  <1>3. a.year \in Int
    BY <1>2, YearsAreIntegers
  <1> QED
    BY <1>2, <1>3

LEMMA ScheduleFields ==
    ASSUME NEW s \in Schedule
    PROVE  /\ s.startOn.year \in Int /\ s.startOn.month \in 1..12 /\ s.startOn.day \in 1..31
           /\ s.interval \in 1..100 /\ s.frequency \in Frequencies
  <1>1. s.startOn \in Date /\ s.frequency \in Frequencies /\ s.interval \in 1..MaxInterval
    BY DEF Schedule
  <1> QED
    BY <1>1, DateFields DEF MaxInterval

LEMMA DaysAreIntegers ==
    ASSUME NEW s \in Schedule
    PROVE  DayOf(s.startOn) \in Int
  <1>1. s.startOn.year \in Int /\ s.startOn.month \in Int /\ s.startOn.day \in Int
    BY ScheduleFields
  <1>2. YearStart(s.startOn.year) \in Int
    BY <1>1 DEF YearStart
  <1>3. MonthOffset(s.startOn.year, s.startOn.month) \in Int
    BY <1>1 DEF MonthOffset, LeapDay
  <1> QED
    BY <1>1, <1>2, <1>3 DEF DayOf, DayNumber

LEMMA ProductsAscend ==
    ASSUME NEW i \in Nat \ {0}, NEW n \in Nat, NEW k \in Nat, n < k
    PROVE  i * n \in Nat /\ i * k \in Nat /\ i * n < i * k
  <1> DEFINE gap == k - n
  <1>1. gap \in Nat \ {0} /\ k = n + gap
    OBVIOUS
  <1> HIDE DEF gap
  <1>2. i * gap \in Nat /\ i * gap > 0
    BY <1>1
  <1>3. i * k = i * n + i * gap
    BY <1>1
  <1> QED
    BY <1>2, <1>3

\* A schedule's occurrence is a day.
THEOREM OccurrenceIsDay ==
    ASSUME NEW s \in Schedule, NEW n \in Nat
    PROVE  OccurrenceDate(s, n) \in Int
  <1> DEFINE steps == s.interval * n
             months == s.startOn.month - 1 + steps
             year == s.startOn.year + (months \div 12)
             month == (months % 12) + 1
             later == s.startOn.year + steps
             day == s.startOn.day
  <1>1. /\ s.startOn.year \in Int /\ s.startOn.month \in 1..12 /\ day \in 1..31
        /\ s.interval \in 1..100 /\ s.frequency \in Frequencies
    BY ScheduleFields
  <1>2. steps \in Nat /\ 7 * s.interval * n \in Int
    BY <1>1
  <1>3. months \in Nat
    <2> HIDE DEF steps
    <2> QED
      BY <1>1, <1>2
  <1>4. year \in Int /\ month \in 1..12 /\ later \in Int
    <2> HIDE DEF steps, months
    <2> QED
      BY <1>1, <1>2, <1>3
  <1>5. CASE s.frequency = "weekly"
    BY <1>2, <1>5, DaysAreIntegers DEF OccurrenceDate
  <1>6. CASE s.frequency = "monthly"
    <2>1. OccurrenceDate(s, n) = ClampedDay(year, month, day)
      BY <1>6 DEF OccurrenceDate
    <2> HIDE DEF year, month, day
    <2> QED
      BY <1>1, <1>4, <2>1, ClampedDayInMonth
  <1>7. CASE s.frequency = "yearly"
    <2>1. OccurrenceDate(s, n) = ClampedDay(later, s.startOn.month, day)
      BY <1>7 DEF OccurrenceDate
    <2> HIDE DEF later, day
    <2> QED
      BY <1>1, <1>4, <2>1, ClampedDayInMonth
  <1> QED
    BY <1>1, <1>5, <1>6, <1>7 DEF Frequencies

\* A later sequence number is a later day, whatever the frequency, the interval
\* and the month ends in between: the generating loop makes progress and never
\* meets a day twice.
THEOREM OccurrencesAscend ==
    ASSUME NEW s \in Schedule, NEW n \in Nat, NEW k \in Nat, n < k
    PROVE  OccurrenceDate(s, n) < OccurrenceDate(s, k)
  <1> DEFINE anchor == s.startOn
             i == s.interval
             before == anchor.month - 1 + i * n
             after  == anchor.month - 1 + i * k
  <1>1. /\ anchor.year \in Int /\ anchor.month \in 1..12 /\ anchor.day \in 1..31
        /\ i \in 1..100 /\ s.frequency \in Frequencies
    BY ScheduleFields
  <1>2. i * n \in Nat /\ i * k \in Nat /\ i * n < i * k
    <2>1. i \in Nat \ {0}
      BY <1>1
    <2> HIDE DEF i
    <2> QED
      BY <2>1, ProductsAscend
  <1>3. before \in Nat /\ after \in Nat /\ before < after
    BY <1>1, <1>2
  <1> HIDE DEF before, after
  <1>4. CASE s.frequency = "weekly"
    <2>1. DayOf(anchor) \in Int
      BY DaysAreIntegers
    <2>2. 7 * i * n < 7 * i * k /\ 7 * i * n \in Int /\ 7 * i * k \in Int
      BY <1>1, <1>2
    <2> QED
      BY <1>4, <2>1, <2>2 DEF OccurrenceDate
  <1>5. CASE s.frequency = "monthly"
    <2> DEFINE y == anchor.year + (before \div 12)
               m == (before % 12) + 1
               z == anchor.year + (after \div 12)
               l == (after % 12) + 1
               d == anchor.day
    <2>1. y \in Int /\ m \in 1..12 /\ z \in Int /\ l \in 1..12 /\ d \in 1..31
      BY <1>1, <1>3
    <2>2. y < z \/ (y = z /\ m < l)
      BY <1>1, <1>3
    <2>3. OccurrenceDate(s, n) = ClampedDay(y, m, d)
      BY <1>5 DEF OccurrenceDate, before
    <2>4. OccurrenceDate(s, k) = ClampedDay(z, l, d)
      BY <1>5 DEF OccurrenceDate, after
    <2> HIDE DEF y, m, z, l, d
    <2> QED
      BY <2>1, <2>2, <2>3, <2>4, ClampedDaysAscend
  <1>6. CASE s.frequency = "yearly"
    <2> DEFINE y == anchor.year + i * n
               z == anchor.year + i * k
               m == anchor.month
               d == anchor.day
    <2>1. y \in Int /\ z \in Int /\ y < z /\ m \in 1..12 /\ d \in 1..31
      BY <1>1, <1>2
    <2>2. OccurrenceDate(s, n) = ClampedDay(y, m, d)
      BY <1>6 DEF OccurrenceDate
    <2>3. OccurrenceDate(s, k) = ClampedDay(z, m, d)
      BY <1>6 DEF OccurrenceDate
    <2> HIDE DEF y, z, m, d
    <2> QED
      BY <2>1, <2>2, <2>3, ClampedDaysAscend
  <1> QED
    BY <1>1, <1>4, <1>5, <1>6 DEF Frequencies

\* The first occurrence falls on the anchor itself: clamping and the count of
\* months leave it where the user put it.
THEOREM AnchorIsFirst ==
    ASSUME NEW s \in Schedule
    PROVE  OccurrenceDate(s, 0) = DayOf(s.startOn)
  <1>1. /\ s.startOn.year \in Int /\ s.startOn.month \in 1..12 /\ s.startOn.day \in 1..31
        /\ s.interval \in 1..100 /\ s.frequency \in Frequencies
    BY ScheduleFields
  <1>2. s.startOn.day <= LastDay(s.startOn.year, s.startOn.month)
    <2>1. s.startOn \in Date
      BY DEF Schedule
    <2> QED
      BY <2>1 DEF Date
  <1>3. s.interval * 0 = 0 /\ 7 * s.interval * 0 = 0
    BY <1>1
  <1>4. ClampedDay(s.startOn.year, s.startOn.month, s.startOn.day) = DayOf(s.startOn)
    BY <1>1, <1>2 DEF ClampedDay, DayOf, LastDay, LeapDay
  <1>5. CASE s.frequency = "weekly"
    BY <1>3, <1>5, DaysAreIntegers DEF OccurrenceDate
  <1>6. CASE s.frequency = "monthly"
    <2> DEFINE months == s.startOn.month - 1 + s.interval * 0
    <2>1. months = s.startOn.month - 1
      BY <1>1, <1>3
    <2>2. OccurrenceDate(s, 0) = ClampedDay(s.startOn.year + (months \div 12), (months % 12) + 1,
                                            s.startOn.day)
      BY <1>6 DEF OccurrenceDate
    <2> HIDE DEF months
    <2>3. s.startOn.year + (months \div 12) = s.startOn.year /\ (months % 12) + 1 = s.startOn.month
      BY <1>1, <2>1
    <2> QED
      BY <1>4, <2>2, <2>3
  <1>7. CASE s.frequency = "yearly"
    <2>1. OccurrenceDate(s, 0) =
            ClampedDay(s.startOn.year + s.interval * 0, s.startOn.month, s.startOn.day)
      BY <1>7 DEF OccurrenceDate
    <2>2. s.startOn.year + s.interval * 0 = s.startOn.year
      BY <1>1, <1>3
    <2> QED
      BY <1>4, <2>1, <2>2
  <1> QED
    BY <1>1, <1>5, <1>6, <1>7 DEF Frequencies

-----------------------------------------------------------------------------
(* The calendar that turns its pages is the arithmetic's reference: on every page,  *)
(* the day is due by its words exactly when OccurrenceDate names it.                *)

\* Months follow each other without a gap, and so do years.
LEMMA MonthLength ==
    ASSUME NEW y \in Int, NEW m \in 1..11
    PROVE  MonthOffset(y, m + 1) = MonthOffset(y, m) + LastDay(y, m)
  BY DEF MonthOffset, LastDay, LeapDay

LEMMA LastMonth ==
    ASSUME NEW y \in Int
    PROVE  /\ MonthOffset(y, 1) = 0
           /\ MonthOffset(y, 12) + LastDay(y, 12) = 365 + LeapDay(y)
  BY DEF MonthOffset, LastDay, LeapDay

\* The first day of the next month follows the last day of a month.
LEMMA NextMonth ==
    ASSUME NEW y \in Int, NEW m \in 1..12
    PROVE  /\ m < 12 => DayNumber(y, m + 1, 1) = DayNumber(y, m, LastDay(y, m)) + 1
           /\ m = 12 => DayNumber(y + 1, 1, 1) = DayNumber(y, m, LastDay(y, m)) + 1
  <1>1. /\ YearStart(y) \in Int /\ YearStart(y + 1) \in Int /\ LeapDay(y) \in Int
        /\ \A k \in 1..12 : MonthOffset(y, k) \in Int /\ LastDay(y, k) \in Int
        /\ MonthOffset(y + 1, 1) = 0
    BY LastMonth DEF YearStart, MonthOffset, LastDay, LeapDay
  <1>2. CASE m < 12
    BY <1>1, <1>2, MonthLength DEF DayNumber
  <1>3. CASE m = 12
    BY <1>1, <1>3, LastMonth, YearLength DEF DayNumber
  <1> QED
    BY <1>2, <1>3

LEMMA LastDays ==
    ASSUME NEW y \in Int, NEW m \in 1..12
    PROVE  LastDay(y, m) \in 28..31
  BY DEF LastDay, LeapDay

\* A number has no remainder exactly when it is a multiple.
LEMMA Multiples ==
    ASSUME NEW a \in Nat, NEW b \in Nat \ {0}
    PROVE  a % b = 0 <=> \E n \in Nat : b * n = a
  <1> DEFINE q == a \div b
             r == a % b
  <1>1. q \in Nat /\ r \in 0..(b - 1) /\ a = b * q + r
    OBVIOUS
  <1> HIDE DEF q, r
  <1>2. ASSUME r = 0
        PROVE  \E n \in Nat : b * n = a
    BY <1>1, <1>2
  <1>3. ASSUME NEW n \in Nat, b * n = a
        PROVE  r = 0
    <2>1. CASE n < q
      <3>1. b * n < b * q /\ b * n \in Nat /\ b * q \in Nat
        BY <1>1, <2>1, ProductsAscend
      <3> QED
        BY <1>1, <1>3, <3>1
    <2>2. CASE n > q
      <3>1. CASE n = q + 1
        <4>1. b * n = b * q + b
          BY <1>1, <3>1
        <4> QED
          BY <1>1, <1>3, <4>1
      <3>2. CASE n > q + 1
        <4>1. b * (q + 1) < b * n /\ b * (q + 1) \in Nat /\ b * n \in Nat
          BY <1>1, <3>2, ProductsAscend
        <4>2. b * (q + 1) = b * q + b /\ b * q \in Nat
          BY <1>1
        <4> QED
          BY <1>1, <1>3, <4>1, <4>2
      <3> QED
        BY <1>1, <2>2, <3>1, <3>2
    <2>3. CASE n = q
      <3>1. b * q \in Nat
        BY <1>1
      <3> QED
        BY <1>1, <1>3, <2>3, <3>1
    <2> QED
      BY <1>1, <2>1, <2>2, <2>3
  <1>4. r = 0 <=> \E n \in Nat : b * n = a
    BY <1>2, <1>3
  <1> QED
    BY <1>4 DEF r

LEMMA Products ==
    ASSUME NEW i \in Nat \ {0}, NEW n \in Nat
    PROVE  /\ i * n \in Nat /\ i * n >= n
           /\ 7 * i * n = 7 * (i * n) /\ 12 * i * n = 12 * (i * n)
  <1> DEFINE c == i - 1
  <1>1. c \in Nat /\ i = c + 1
    OBVIOUS
  <1> HIDE DEF c
  <1>2. c * n \in Nat
    BY <1>1
  <1>3. i * n = c * n + n
    BY <1>1
  <1>4. 7 * i * n = 7 * (i * n) /\ 12 * i * n = 12 * (i * n)
    OBVIOUS
  <1> QED
    BY <1>2, <1>3, <1>4

\* Counting g months from month m of year y, as OccurrenceDate does.
LEMMA MonthsCarry ==
    ASSUME NEW y \in Int, NEW m \in 1..12, NEW g \in Nat
    PROVE  LET count == m - 1 + g
               z == y + (count \div 12)
               k == (count % 12) + 1
           IN  z \in Int /\ k \in 1..12 /\ 12 * z + k = 12 * y + m + g
  OBVIOUS

\* What the counters of the calendar say of its page.  Every month before the
\* present one has 28 days or more, which bounds the months that have begun.
PageShown ==
    /\ page \in [year : Int, month : 1..12, day : 1..31]
    /\ page.day <= LastDay(page.year, page.month)

CountedFrom(anchor) ==
    /\ turned \in 0..LastPage /\ begun \in Nat
    /\ DayOf(page) = DayOf(anchor) + turned
    /\ 12 * page.year + page.month = 12 * anchor.year + anchor.month + begun
    /\ begun > 0 => turned >= 28 * (begun - 1) + page.day

CalendarInv == schedule \in Schedule /\ PageShown /\ CountedFrom(schedule.startOn)

LEMMA DatesArePages ==
    ASSUME NEW a, a \in Date
    PROVE  a \in [year : Int, month : 1..12, day : 1..31] /\ a.day <= LastDay(a.year, a.month)
  <1>1. a \in [year : 0..MaxYear, month : 1..12, day : 1..31] /\ a.day <= LastDay(a.year, a.month)
    BY DEF Date
  <1>2. a.year \in Int /\ a.month \in 1..12 /\ a.day \in 1..31
    BY DateFields
  <1>3. a = [year |-> a.year, month |-> a.month, day |-> a.day]
    BY <1>1
  <1> QED
    BY <1>1, <1>2, <1>3

LEMMA CalendarStarts == CalendarInit => CalendarInv
  <1> SUFFICES ASSUME CalendarInit
               PROVE  CalendarInv
    OBVIOUS
  <1> DEFINE anchor == schedule.startOn
  <1>1. /\ schedule \in [startOn : Anchors, frequency : Frequencies, interval : Intervals]
        /\ page = anchor /\ turned = 0 /\ begun = 0
    BY DEF CalendarInit
  <1>2. schedule \in Schedule
    BY <1>1, CalendarAssumption DEF Schedule
  <1>3. anchor \in Date
    BY <1>2 DEF Schedule
  <1>4. anchor.year \in Int /\ anchor.month \in 1..12 /\ anchor.day \in 1..31 /\ DayOf(anchor) \in Int
    BY <1>2, ScheduleFields, DaysAreIntegers
  <1>5. anchor \in [year : Int, month : 1..12, day : 1..31]
    BY <1>3, DatesArePages
  <1>6. anchor.day <= LastDay(anchor.year, anchor.month)
    BY <1>3, DatesArePages
  <1> HIDE DEF anchor
  <1>7. PageShown
    BY <1>1, <1>5, <1>6 DEF PageShown
  <1>8. CountedFrom(anchor)
    BY <1>1, <1>4, CalendarAssumption DEF CountedFrom
  <1> QED
    BY <1>2, <1>7, <1>8 DEF CalendarInv, anchor

\* The next page shows the day after, in the month after at the end of one.
DayAfter ==
    /\ PageShown'
    /\ DayOf(page)' = DayOf(page) + 1
    /\ begun' \in Nat
    /\ 12 * page'.year + page'.month = 12 * page.year + page.month + (begun' - begun)
    /\ \/ begun' = begun /\ page'.day = page.day + 1
       \/ begun' = begun + 1 /\ page.day >= 28 /\ page'.day = 1

LEMMA NextPage ==
    ASSUME PageShown, TurnPage, begun \in Nat
    PROVE  DayAfter
  <1> DEFINE y == page.year
             m == page.month
             d == page.day
  <1>1. y \in Int /\ m \in 1..12 /\ d \in 1..31 /\ d <= LastDay(y, m) /\ LastDay(y, m) \in 28..31
    BY LastDays DEF PageShown
  <1>2. DayOf(page) = DayNumber(y, m, d)
    BY DEF DayOf
  <1>3. CASE ~MonthIsOver
    <2>1. page' = [page EXCEPT !.day = d + 1] /\ begun' = begun
      BY <1>3 DEF TurnPage
    <2>2. page'.year = y /\ page'.month = m /\ page'.day = d + 1
      BY <2>1 DEF PageShown
    <2>3. d + 1 <= LastDay(y, m)
      BY <1>1, <1>3 DEF MonthIsOver
    <2>4. page' \in [year : Int, month : 1..12, day : 1..31]
      <3>1. d + 1 \in 1..31
        BY <1>1, <2>3
      <3> QED
        BY <2>1, <3>1 DEF PageShown
    <2>5. PageShown'
      BY <2>2, <2>3, <2>4 DEF PageShown
    <2>6. YearStart(y) + MonthOffset(y, m) \in Int
      BY <1>1 DEF YearStart, MonthOffset, LeapDay
    <2>7. DayOf(page)' = DayNumber(y, m, d) + 1
      BY <1>1, <2>2, <2>6 DEF DayOf, DayNumber
    <2> QED
      BY <1>1, <1>2, <2>1, <2>2, <2>5, <2>7 DEF DayAfter
  <1>4. ASSUME NEW z \in Int, NEW k \in 1..12, MonthIsOver, page' = D(z, k, 1),
               12 * z + k = 12 * y + m + 1,
               DayNumber(z, k, 1) = DayNumber(y, m, LastDay(y, m)) + 1
        PROVE  DayAfter
    <2>1. begun' = begun + 1 /\ d = LastDay(y, m)
      BY <1>4 DEF TurnPage, MonthIsOver
    <2>2. page'.year = z /\ page'.month = k /\ page'.day = 1
      BY <1>4 DEF D
    <2>3. page' \in [year : Int, month : 1..12, day : 1..31]
      BY <1>4 DEF D
    <2>4. PageShown'
      <3>1. LastDay(z, k) \in 28..31
        BY LastDays
      <3> QED
        BY <2>2, <2>3, <3>1 DEF PageShown
    <2>5. DayOf(page)' = DayNumber(y, m, d) + 1
      BY <1>4, <2>1, <2>2 DEF DayOf
    <2> QED
      BY <1>1, <1>2, <1>4, <2>1, <2>2, <2>4, <2>5 DEF DayAfter
  <1>5. CASE MonthIsOver /\ m < 12
    <2>1. page' = D(y, m + 1, 1) /\ m + 1 \in 1..12 /\ 12 * y + (m + 1) = 12 * y + m + 1
      BY <1>1, <1>5 DEF TurnPage
    <2> QED
      BY <1>1, <1>4, <1>5, <2>1, NextMonth
  <1>6. CASE MonthIsOver /\ m = 12
    <2>1. /\ page' = D(y + 1, 1, 1) /\ y + 1 \in Int /\ 1 \in 1..12
          /\ 12 * (y + 1) + 1 = 12 * y + m + 1
      BY <1>1, <1>6 DEF TurnPage
    <2> QED
      BY <1>1, <1>4, <1>6, <2>1, NextMonth
  <1> QED
    BY <1>1, <1>3, <1>5, <1>6

LEMMA CalendarTurns == CalendarInv /\ [TurnPage]_calendarVars => CalendarInv'
  <1> SUFFICES ASSUME CalendarInv, [TurnPage]_calendarVars
               PROVE  CalendarInv'
    OBVIOUS
  <1>1. CASE UNCHANGED calendarVars
    BY <1>1 DEF CalendarInv, PageShown, CountedFrom, calendarVars
  <1>2. CASE TurnPage
    <2> DEFINE anchor == schedule.startOn
    <2>1. /\ schedule' = schedule /\ schedule \in Schedule
          /\ turned < LastPage /\ turned' = turned + 1
      BY <1>2 DEF TurnPage, CalendarInv
    <2>2. CountedFrom(anchor) /\ PageShown
      BY DEF CalendarInv
    <2>3. /\ turned \in Nat /\ turned' \in 0..LastPage /\ begun \in Nat
          /\ page.year \in Int /\ page.month \in Int /\ page.day \in Int
      BY <2>1, <2>2, CalendarAssumption DEF CountedFrom, PageShown
    <2>4. DayOf(anchor) \in Int /\ anchor.year \in Int /\ anchor.month \in Int
      BY <2>1, ScheduleFields, DaysAreIntegers
    <2>5. /\ PageShown'
          /\ DayOf(page)' = DayOf(page) + 1
          /\ begun' \in Nat
          /\ 12 * page'.year + page'.month = 12 * page.year + page.month + (begun' - begun)
          /\ \/ begun' = begun /\ page'.day = page.day + 1
             \/ begun' = begun + 1 /\ page.day >= 28 /\ page'.day = 1
      BY <1>2, <2>2, <2>3, NextPage DEF DayAfter
    <2>6. page'.year \in Int /\ page'.month \in Int
      BY <2>5 DEF PageShown
    <2> HIDE DEF anchor
    <2>7. DayOf(page)' = DayOf(anchor) + turned'
      BY <2>1, <2>2, <2>3, <2>4, <2>5 DEF CountedFrom
    <2>8. 12 * page'.year + page'.month = 12 * anchor.year + anchor.month + begun'
      BY <2>2, <2>3, <2>4, <2>5, <2>6 DEF CountedFrom
    <2>9. begun' > 0 => turned' >= 28 * (begun' - 1) + page'.day
      BY <2>1, <2>2, <2>3, <2>5 DEF CountedFrom
    <2>10. anchor' = anchor
      BY <2>1 DEF anchor
    <2>11. CountedFrom(anchor)'
      BY <2>3, <2>5, <2>7, <2>8, <2>9, <2>10 DEF CountedFrom
    <2> QED
      BY <2>1, <2>5, <2>11 DEF CalendarInv, anchor
  <1> QED
    BY <1>1, <1>2

\* A clamped day of the anchor's number is the day of the page exactly when it is in the
\* month of the page, and the page carries that number or ends its month below it.
LEMMA ClampedIsPage ==
    ASSUME CalendarInv, NEW z \in Int, NEW k \in 1..12, NEW g \in Nat,
           12 * z + k = 12 * schedule.startOn.year + schedule.startOn.month + g
    PROVE  ClampedDay(z, k, schedule.startOn.day) = DayOf(page) <=> g = begun /\ OnAnchorDay
  <1> DEFINE y == page.year
             m == page.month
             d == page.day
             e == schedule.startOn.day
             start == 12 * schedule.startOn.year + schedule.startOn.month
  <1>1. y \in Int /\ m \in 1..12 /\ d \in 1..31 /\ d <= LastDay(y, m)
    BY DEF CalendarInv, PageShown
  <1>2. start \in Int /\ e \in 1..31 /\ LastDay(y, m) \in 28..31
    BY <1>1, ScheduleFields, LastDays DEF CalendarInv
  <1>3. begun \in Nat /\ 12 * y + m = start + begun
    BY DEF CalendarInv, CountedFrom
  <1>4. DayOf(page) = ClampedDay(y, m, d)
    BY <1>1, <1>2 DEF DayOf, ClampedDay
  <1>5. OnAnchorDay <=> d = e \/ (d = LastDay(y, m) /\ d < e)
    BY DEF OnAnchorDay, MonthIsOver
  <1>6. 12 * z + k = start + g
    OBVIOUS
  <1> SUFFICES ClampedDay(z, k, e) = DayOf(page) <=> g = begun /\ OnAnchorDay
    OBVIOUS
  <1> HIDE DEF y, m, d, e, start
  <1>7. ClampedDay(y, m, d) \in Int /\ ClampedDay(z, k, e) \in Int
    BY <1>1, <1>2, ClampedDayInMonth
  <1>8. CASE g = begun
    <2>1. z = y /\ k = m
      BY <1>1, <1>2, <1>3, <1>6, <1>8
    <2>2. YearStart(y) + MonthOffset(y, m) \in Int
      BY <1>1 DEF YearStart, MonthOffset, LeapDay
    <2>3. ClampedDay(y, m, e) = ClampedDay(y, m, d) <=> d = e \/ (d = LastDay(y, m) /\ d < e)
      BY <1>1, <1>2, <2>2 DEF ClampedDay, DayNumber
    <2> QED
      BY <1>4, <1>5, <1>8, <2>1, <2>3
  <1>9. CASE g < begun
    <2>1. z < y \/ (z = y /\ k < m)
      BY <1>1, <1>2, <1>3, <1>6, <1>9
    <2>2. ClampedDay(z, k, e) < ClampedDay(y, m, d)
      BY <1>1, <1>2, <2>1, ClampedDaysAscend
    <2> QED
      BY <1>3, <1>4, <1>7, <1>9, <2>2
  <1>10. CASE g > begun
    <2>1. y < z \/ (y = z /\ m < k)
      BY <1>1, <1>2, <1>3, <1>6, <1>10
    <2>2. ClampedDay(y, m, d) < ClampedDay(z, k, e)
      BY <1>1, <1>2, <2>1, ClampedDaysAscend
    <2> QED
      BY <1>3, <1>4, <1>7, <1>10, <2>2
  <1> QED
    BY <1>3, <1>8, <1>9, <1>10

\* No more months have begun than the calendar has pages for.
LEMMA SequencesSuffice ==
    ASSUME CalendarInv, NEW n \in Nat, n <= begun \/ 7 * n <= turned
    PROVE  n \in Sequences
  <1>1. /\ turned \in 0..LastPage /\ begun \in Nat /\ page.day \in 1..31
        /\ begun > 0 => turned >= 28 * (begun - 1) + page.day
    BY DEF CalendarInv, PageShown, CountedFrom
  <1>2. 7 * n <= LastPage + 6
    BY <1>1, CalendarAssumption
  <1> QED
    BY <1>2, CalendarAssumption DEF Sequences

LEMMA NamesTheDaysDue == CalendarInv => DueExactlyWhenCalendarSays
  <1> SUFFICES ASSUME CalendarInv
               PROVE  DueExactlyWhenCalendarSays
    OBVIOUS
  <1> DEFINE anchor == schedule.startOn
             i == schedule.interval
             Named(n) == OccurrenceDate(schedule, n) = DayOf(page)
  <1>1. schedule \in Schedule
    BY DEF CalendarInv
  <1>2. /\ anchor.year \in Int /\ anchor.month \in 1..12 /\ anchor.day \in 1..31
        /\ i \in 1..100 /\ schedule.frequency \in Frequencies /\ DayOf(anchor) \in Int
    BY <1>1, ScheduleFields, DaysAreIntegers
  <1>3. turned \in Nat /\ begun \in Nat /\ DayOf(page) = DayOf(anchor) + turned
    BY CalendarAssumption DEF CalendarInv, CountedFrom
  <1>4. Sequences \subseteq Nat
    BY CalendarAssumption DEF Sequences
  <1>5. i \in Nat \ {0} /\ 7 * i \in Nat \ {0} /\ 12 * i \in Nat \ {0}
    BY <1>2
  <1>6. \A n \in Nat : /\ i * n \in Nat /\ i * n >= n
                       /\ 7 * i * n = 7 * (i * n) /\ 12 * i * n = 12 * (i * n)
    <2> HIDE DEF i
    <2> QED
      BY <1>5, Products
  <1> HIDE DEF anchor, i
  <1>7. CASE schedule.frequency = "weekly"
    <2>1. ASSUME NEW n \in Nat
          PROVE  /\ Named(n) <=> 7 * i * n = turned
                 /\ 7 * i * n = turned => n \in Sequences
      <3>1. OccurrenceDate(schedule, n) = DayOf(anchor) + 7 * i * n
        BY <1>7 DEF OccurrenceDate, anchor, i
      <3>2. i * n \in Nat /\ i * n >= n /\ 7 * i * n = 7 * (i * n)
        BY <1>6
      <3>3. 7 * i * n \in Int /\ 7 * i * n >= 7 * n
        BY <3>2
      <3>4. Named(n) <=> 7 * i * n = turned
        BY <1>2, <1>3, <3>1, <3>3
      <3> QED
        BY <1>3, <3>3, <3>4, SequencesSuffice
    <2>2. turned % (7 * i) = 0 <=> \E n \in Nat : 7 * i * n = turned
      BY <1>3, <1>5, Multiples
    <2>3. DueToday <=> turned % (7 * i) = 0
      BY <1>7 DEF DueToday, i
    <2> HIDE DEF Named
    <2>4. DueToday <=> \E n \in Sequences : Named(n)
      BY <1>4, <2>1, <2>2, <2>3
    <2> QED
      BY <2>4 DEF Named, DueExactlyWhenCalendarSays
  <1>8. CASE schedule.frequency = "monthly"
    <2>1. ASSUME NEW n \in Nat
          PROVE  /\ Named(n) <=> i * n = begun /\ OnAnchorDay
                 /\ i * n = begun => n \in Sequences
      <3> DEFINE count == anchor.month - 1 + i * n
                 z == anchor.year + (count \div 12)
                 k == (count % 12) + 1
      <3>1. OccurrenceDate(schedule, n) = ClampedDay(z, k, anchor.day)
        BY <1>8 DEF OccurrenceDate, anchor, i
      <3>2. i * n \in Nat /\ i * n >= n
        BY <1>6
      <3>3. z \in Int /\ k \in 1..12 /\ 12 * z + k = 12 * anchor.year + anchor.month + i * n
        BY <1>2, <3>2, MonthsCarry
      <3> HIDE DEF z, k
      <3>4. Named(n) <=> i * n = begun /\ OnAnchorDay
        BY <3>1, <3>2, <3>3, ClampedIsPage DEF anchor
      <3> QED
        BY <3>2, <3>4, SequencesSuffice
    <2>2. begun % i = 0 <=> \E n \in Nat : i * n = begun
      BY <1>3, <1>5, Multiples
    <2>3. DueToday <=> begun % i = 0 /\ OnAnchorDay
      BY <1>8 DEF DueToday, i
    <2> HIDE DEF Named
    <2>4. DueToday <=> \E n \in Sequences : Named(n)
      BY <1>4, <2>1, <2>2, <2>3
    <2> QED
      BY <2>4 DEF Named, DueExactlyWhenCalendarSays
  <1>9. CASE schedule.frequency = "yearly"
    <2>1. ASSUME NEW n \in Nat
          PROVE  /\ Named(n) <=> 12 * i * n = begun /\ OnAnchorDay
                 /\ 12 * i * n = begun => n \in Sequences
      <3> DEFINE z == anchor.year + i * n
      <3>1. OccurrenceDate(schedule, n) = ClampedDay(z, anchor.month, anchor.day)
        BY <1>9 DEF OccurrenceDate, anchor, i
      <3>2. i * n \in Nat /\ i * n >= n /\ 12 * i * n = 12 * (i * n)
        BY <1>6
      <3>3. z \in Int /\ 12 * i * n \in Nat /\ 12 * i * n >= n
        BY <1>2, <3>2
      <3>4. 12 * z + anchor.month = 12 * anchor.year + anchor.month + 12 * i * n
        BY <1>2, <3>2
      <3> HIDE DEF z
      <3>5. Named(n) <=> 12 * i * n = begun /\ OnAnchorDay
        BY <1>2, <3>1, <3>3, <3>4, ClampedIsPage DEF anchor
      <3> QED
        BY <3>3, <3>5, SequencesSuffice
    <2>2. begun % (12 * i) = 0 <=> \E n \in Nat : 12 * i * n = begun
      BY <1>3, <1>5, Multiples
    <2>3. DueToday <=> begun % (12 * i) = 0 /\ OnAnchorDay
      BY <1>9 DEF DueToday, i
    <2> HIDE DEF Named
    <2>4. DueToday <=> \E n \in Sequences : Named(n)
      BY <1>4, <2>1, <2>2, <2>3
    <2> QED
      BY <2>4 DEF Named, DueExactlyWhenCalendarSays
  <1> QED
    BY <1>2, <1>7, <1>8, <1>9 DEF Frequencies

\* OccurrenceDate names exactly the days that a calendar calls due (ADR-0007): for every
\* anchor, frequency and interval, and however long the calendar turns its pages.
THEOREM NamesExactlyTheDaysDue == CalendarSpec => []DueExactlyWhenCalendarSays
  <1>1. CalendarInit => CalendarInv
    BY CalendarStarts
  <1>2. CalendarInv /\ [TurnPage]_calendarVars => CalendarInv'
    BY CalendarTurns
  <1>3. CalendarInv => DueExactlyWhenCalendarSays
    BY NamesTheDaysDue
  <1> QED
    BY <1>1, <1>2, <1>3, PTL DEF CalendarSpec

-----------------------------------------------------------------------------
(* What the data are *)

\* What a request has read, by the step it stands at.
LEMMA RequestFields ==
    ASSUME NEW q, q \in Request
    PROVE  /\ q.phase \in {"create.find", "create.insert", "update.write"} =>
                q.rule \in Rules /\ q.fields \in RuleFields
           /\ q.phase = "enable.write" => q.rule \in Rules /\ q.enabled \in BOOLEAN
           /\ q.phase = "ensure.list" => q.through \in Days
           /\ q.phase = "ensure.rule" => q.through \in Days /\ q.due \in SUBSET Rules
  BY DEF Request, Idle

LEMMA RequestsMade ==
    /\ Idle \in Request
    /\ [phase |-> "ensure.settings"] \in Request
    /\ \A day \in Days : [phase |-> "ensure.list", through |-> day] \in Request
    /\ \A day \in Days, due \in SUBSET Rules :
          [phase |-> "ensure.rule", through |-> day, due |-> due] \in Request
    /\ \A r \in Rules, f \in RuleFields :
          /\ [phase |-> "create.find", rule |-> r, fields |-> f] \in Request
          /\ [phase |-> "create.insert", rule |-> r, fields |-> f] \in Request
          /\ [phase |-> "update.write", rule |-> r, fields |-> f] \in Request
    /\ \A r \in Rules, enabled \in BOOLEAN :
          [phase |-> "enable.write", rule |-> r, enabled |-> enabled] \in Request
  BY DEF Request, Idle

\* The next step of a create, and a shorter list of due rules.
LEMMA RequestsChanged ==
    ASSUME NEW q, q \in Request
    PROVE  /\ q.phase = "create.find" => [q EXCEPT !.phase = "create.insert"] \in Request
           /\ q.phase = "ensure.rule" =>
                \A r : [q EXCEPT !.due = @ \ {r}] \in Request
  <1>1. CASE q = Idle
    BY <1>1 DEF Idle
  <1>2. CASE q \in [phase : {"create.find", "create.insert", "update.write"},
                    rule : Rules, fields : RuleFields]
    BY <1>2 DEF Request
  <1>3. CASE q \in [phase : {"enable.write"}, rule : Rules, enabled : BOOLEAN]
    BY <1>3 
  <1>4. CASE q \in [phase : {"ensure.settings"}]
    BY <1>4
  <1>5. CASE q \in [phase : {"ensure.list"}, through : Days]
    BY <1>5
  <1>6. CASE q \in [phase : {"ensure.rule"}, through : Days, due : SUBSET Rules]
    <2>1. \A r : [q EXCEPT !.due = @ \ {r}] \in
                    [phase : {"ensure.rule"}, through : Days, due : SUBSET Rules]
      BY <1>6
    <2> QED
      BY <1>6, <2>1 DEF Request
  <1> QED
    BY <1>1, <1>2, <1>3, <1>4, <1>5, <1>6 DEF Request

LEMMA AnchoredRule ==
    ASSUME NEW f \in RuleFields, NEW enabled \in BOOLEAN, NEW archived \in BOOLEAN
    PROVE  AtAnchor(f, enabled, archived) \in Rule
  <1>1. f.schedule \in Schedules /\ f.template \in Templates /\ f.category \in Categories
    BY DEF RuleFields
  <1>2. DayOf(f.schedule.startOn) \in Int
    BY <1>1, RecurringAssumption, DaysAreIntegers DEF RecurringAssumption
  <1> QED
    BY <1>1, <1>2 DEF AtAnchor, Rule

\* The day of a later sequence number is a day.
LEMMA DayAtIsDay ==
    ASSUME NEW rule \in Rule, NEW k \in Nat
    PROVE  DayAt(rule, k) \in Int
  <1>1. rule.schedule \in Schedule /\ rule.nextDueOn \in Int
    BY RecurringAssumption DEF RecurringAssumption, Rule
  <1> QED
    BY <1>1, OccurrenceIsDay DEF DayAt

LEMMA PendingOccurrence ==
    ASSUME NEW r \in Rules, NEW rule \in Rule, NEW day \in Int
    PROVE  Pending(r, rule, day) \in Occurrence
  BY DEF Pending, Rule, Occurrence

LEMMA InsertedOccurrences ==
    ASSUME NEW r \in Rules, NEW rule \in Rule, NEW n \in Nat
    PROVE  Inserted(r, rule, n) \subseteq Occurrence
  <1> SUFFICES ASSUME NEW o \in Inserted(r, rule, n)
               PROVE  o \in Occurrence
    OBVIOUS
  <1>1. PICK k \in rule.nextSequence..(n - 1) : o = Pending(r, rule, DayAt(rule, k))
    BY DEF Inserted
  <1>2. rule.nextSequence \in Nat
    BY DEF Rule
  <1>3. k \in Nat
    BY <1>2
  <1>4. DayAt(rule, k) \in Int
    BY <1>3, DayAtIsDay
  <1> QED
    BY <1>1, <1>4, PendingOccurrence

-----------------------------------------------------------------------------
(* Type correctness *)

\* The cursor the generating loop writes.
LEMMA MovedRule ==
    ASSUME NEW r \in Existing, NEW n \in Nat,
           rules \in [Existing -> Rule]
    PROVE  [rules EXCEPT ![r].nextSequence = n,
                         ![r].nextDueOn = DayAt(rules[r], n)] \in [Existing -> Rule]
  <1>1. rules[r] \in Rule /\ DayAt(rules[r], n) \in Int
    BY DayAtIsDay
  <1>2. [rules[r] EXCEPT !.nextSequence = n, !.nextDueOn = DayAt(rules[r], n)] \in Rule
    BY <1>1 DEF Rule
  <1> QED
    BY <1>2

LEMMA TypeOfCreate ==
    ASSUME TypeOK, NEW c \in Clients, CreateInsert(c)
    PROVE  TypeOK'
  <1>1. request[c] \in Request /\ request[c].phase = "create.insert"
    BY DEF TypeOK, CreateInsert
  <1>2. request[c].rule \in Rules /\ request[c].fields \in RuleFields
    BY <1>1, RequestFields
  <1>3. AtAnchor(request[c].fields, TRUE, FALSE) \in Rule
    BY <1>2, AnchoredRule
  <1>4. /\ DOMAIN rules' \in SUBSET Rules
        /\ rules' \in [DOMAIN rules' -> Rule]
    BY <1>2, <1>3 DEF TypeOK, CreateInsert, Existing
  <1>5. request' \in [Clients -> Request]
    BY RequestsMade DEF TypeOK, CreateInsert, Reply, StartEnsure, Goto
  <1>6. RequestsHoldRules'
    <2>1. Existing \subseteq Existing'
      BY DEF CreateInsert, Existing
    <2>2. \A d \in Clients \ {c} : request'[d] = request[d]
      BY DEF TypeOK, CreateInsert, Reply, StartEnsure, Goto
    <2>3. \/ request' = [request EXCEPT ![c] = Idle]
          \/ request' = [request EXCEPT ![c] = [phase |-> "ensure.settings"]]
      BY Zenon DEF CreateInsert, Reply, StartEnsure, Goto
    <2>4. request'[c].phase \in {"idle", "ensure.settings"}
      BY <2>3 DEF TypeOK, Idle
    <2> QED
      BY <2>1, <2>2, <2>4 DEF TypeOK, RequestsHoldRules
  <1> QED
    BY <1>4, <1>5, <1>6 DEF TypeOK, CreateInsert, Existing

LEMMA TypeOfUpdate ==
    ASSUME TypeOK, NEW c \in Clients, UpdateWrite(c)
    PROVE  TypeOK'
  <1>1. request[c] \in Request /\ request[c].phase = "update.write"
    BY DEF TypeOK, UpdateWrite
  <1>2. request[c].rule \in Rules /\ request[c].fields \in RuleFields
    BY <1>1, RequestFields
  <1>3. \A rule \in Rule : Rewritten(rule, request[c].fields) \in Rule
    BY <1>2, AnchoredRule DEF Rewritten, Rule
  <1>4. rules' \in [Existing -> Rule]
    BY <1>3 DEF TypeOK, UpdateWrite, Existing
  <1>5. request' \in [Clients -> Request]
    BY RequestsMade DEF TypeOK, UpdateWrite, StartEnsure, Goto
  <1>6. RequestsHoldRules'
    <2>1. Existing = Existing'
      BY <1>4 DEF Existing
    <2>2. \A d \in Clients \ {c} : request'[d] = request[d]
      BY DEF TypeOK, UpdateWrite, StartEnsure, Goto
    <2>3. request'[c].phase = "ensure.settings"
      BY DEF TypeOK, UpdateWrite, StartEnsure, Goto
    <2> QED
      BY <2>1, <2>2, <2>3 DEF TypeOK, RequestsHoldRules
  <1> QED
    BY <1>4, <1>5, <1>6 DEF TypeOK, UpdateWrite, Existing

LEMMA TypeOfEnable ==
    ASSUME TypeOK, NEW c \in Clients, EnableWrite(c)
    PROVE  TypeOK'
  <1>1. request[c] \in Request /\ request[c].phase = "enable.write"
    BY DEF TypeOK, EnableWrite
  <1>2. request[c].enabled \in BOOLEAN
    BY <1>1, RequestFields
  <1>3. rules' \in [Existing -> Rule]
    <2>1. \A rule \in Rule, b \in BOOLEAN : [rule EXCEPT !.enabled = b] \in Rule
      BY DEF Rule
    <2>2. \A rule \in Rule : (IF rule.archived THEN rule.enabled ELSE request[c].enabled) \in BOOLEAN
      BY <1>2 DEF Rule
    <2>3. rules \in [Existing -> Rule] /\ request[c].rule \in Existing
      BY <1>1 DEF TypeOK, RequestsHoldRules
    <2> DEFINE r == request[c].rule
               b == IF rules[r].archived THEN rules[r].enabled ELSE request[c].enabled
    <2>4. b \in BOOLEAN
      BY <2>2, <2>3
    <2>5. rules' = [rules EXCEPT ![r] = [rules[r] EXCEPT !.enabled = b]]
      BY DEF EnableWrite
    <2>6. [rules[r] EXCEPT !.enabled = b] \in Rule
      BY <2>1, <2>3, <2>4
    <2> HIDE DEF b
    <2> QED
      BY <2>3, <2>5, <2>6
  <1>4. request' \in [Clients -> Request]
    BY RequestsMade DEF TypeOK, EnableWrite, Reply, StartEnsure, Goto
  <1>5. RequestsHoldRules'
    <2>1. Existing = Existing'
      BY <1>3 DEF Existing
    <2>2. \A d \in Clients \ {c} : request'[d] = request[d]
      BY DEF TypeOK, EnableWrite, Reply, StartEnsure, Goto
    <2>3. request'[c].phase \in {"idle", "ensure.settings"}
      BY DEF TypeOK, EnableWrite, Reply, StartEnsure, Goto, Idle
    <2> QED
      BY <2>1, <2>2, <2>3 DEF TypeOK, RequestsHoldRules
  <1> QED
    BY <1>3, <1>4, <1>5 DEF TypeOK, EnableWrite, Existing

LEMMA TypeOfGenerate ==
    ASSUME TypeOK, NEW c \in Clients, NEW r \in Rules, EnsureGenerate(c, r)
    PROVE  TypeOK'
  <1>1. request[c] \in Request /\ request[c].phase = "ensure.rule" /\ r \in Existing
    BY DEF TypeOK, RequestsHoldRules, EnsureGenerate
  <1>2. rules[r] \in Rule /\ rules[r].nextSequence \in Nat
    BY <1>1 DEF TypeOK, Rule
  <1>3. PICK n \in (rules[r].nextSequence + 1)..(rules[r].nextSequence + SafetyLimit) :
          /\ occurrences' = occurrences \cup Inserted(r, rules[r], n)
          /\ rules' = [rules EXCEPT ![r].nextSequence = n,
                                    ![r].nextDueOn = DayAt(rules[r], n)]
    BY DEF EnsureGenerate
  <1>4. n \in Nat
    BY <1>2, <1>3
  <1>5. rules' \in [Existing -> Rule]
    BY <1>1, <1>3, <1>4, MovedRule DEF TypeOK
  <1>6. occurrences' \in SUBSET Occurrence
    BY <1>2, <1>3, <1>4, InsertedOccurrences DEF TypeOK
  <1>7. request' \in [Clients -> Request] /\ lapsed' \in SUBSET Rules
    BY <1>1, RequestsChanged DEF TypeOK, EnsureGenerate, RuleDone, Goto
  <1>8. RequestsHoldRules'
    <2>1. Existing = Existing'
      BY <1>5 DEF Existing
    <2>2. \A d \in Clients \ {c} : request'[d] = request[d]
      BY DEF TypeOK, EnsureGenerate, RuleDone, Goto
    <2>3. request'[c] = [request[c] EXCEPT !.due = @ \ {r}]
      BY DEF TypeOK, EnsureGenerate, RuleDone, Goto
    <2>4. request[c].phase = "ensure.rule" /\ request'[c].phase = "ensure.rule"
          /\ request'[c].due \subseteq request[c].due
      BY <1>1, <2>3 DEF Request, Idle
    <2> QED
      BY <2>1, <2>2, <2>4 DEF TypeOK, RequestsHoldRules
  <1> QED
    BY <1>5, <1>6, <1>7, <1>8 DEF TypeOK, EnsureGenerate, Existing

\* The other steps of requests write nothing but the request itself and lapsed.
LEMMA TypeOfReads ==
    ASSUME TypeOK, NEW c \in Clients, UNCHANGED <<today, active, rules, occurrences, posted>>,
           lapsed' \in SUBSET Rules,
           NEW q \in Request, request' = [request EXCEPT ![c] = q],
           q.phase \in {"update.write", "enable.write"} => q.rule \in Existing,
           q.phase = "ensure.rule" => q.due \subseteq Existing
    PROVE  TypeOK'
  <1>1. request' \in [Clients -> Request]
    BY DEF TypeOK
  <1>2. Existing' = Existing
    BY DEF Existing
  <1>3. RequestsHoldRules'
    BY <1>2 DEF TypeOK, RequestsHoldRules
  <1> QED
    BY <1>1, <1>2, <1>3 DEF TypeOK

LEMMA TypeOfRequests ==
    ASSUME TypeOK, NEW c \in Clients, Arrive(c) \/ Proceed(c) \/ Cancel(c)
    PROVE  TypeOK'
  <1>1. ASSUME NEW r \in Rules, NEW f \in RuleFields, CreateValidate(c, r, f)
        PROVE  TypeOK'
    <2> DEFINE q == [phase |-> "create.find", rule |-> r, fields |-> f]
    <2>1. q \in Request
      BY RequestsMade
    <2> QED
      BY <1>1, <2>1, TypeOfReads DEF CreateValidate, Goto, TypeOK
  <1>2. ASSUME NEW r \in Rules, NEW f \in RuleFields, UpdateValidate(c, r, f)
        PROVE  TypeOK'
    <2> DEFINE q == [phase |-> "update.write", rule |-> r, fields |-> f]
    <2>1. q \in Request
      BY RequestsMade
    <2> QED
      BY <1>2, <2>1, TypeOfReads DEF UpdateValidate, Goto, TypeOK
  <1>3. ASSUME NEW r \in Rules, NEW enabled \in BOOLEAN, EnableValidate(c, r, enabled)
        PROVE  TypeOK'
    <2> DEFINE q == [phase |-> "enable.write", rule |-> r, enabled |-> enabled]
    <2>1. q \in Request
      BY RequestsMade
    <2> QED
      BY <1>3, <2>1, TypeOfReads DEF EnableValidate, Goto, TypeOK
  <1>4. ASSUME EnsureOccurrences(c)
        PROVE  TypeOK'
    BY <1>4, RequestsMade, TypeOfReads DEF EnsureOccurrences, StartEnsure, Goto, TypeOK
  <1>5. ASSUME CreateFind(c)
        PROVE  TypeOK'
    <2>1. CASE request[c].rule \in Existing
      BY <1>5, <2>1, RequestsMade, TypeOfReads DEF CreateFind, Reply, TypeOK, Idle
    <2>2. CASE request[c].rule \notin Existing
      <3> DEFINE q == [request[c] EXCEPT !.phase = "create.insert"]
      <3>1. request[c] \in Request /\ request[c].phase = "create.find"
        BY <1>5 DEF TypeOK, CreateFind
      <3>2. q \in Request /\ q.phase = "create.insert"
        BY <3>1, RequestsChanged DEF Request, Idle
      <3>3. request' = [request EXCEPT ![c] = q]
        BY <1>5, <2>2 DEF CreateFind, Goto
      <3> HIDE DEF q
      <3> QED
        BY <1>5, <3>2, <3>3, TypeOfReads DEF CreateFind, TypeOK
    <2> QED
      BY <2>1, <2>2
  <1>6. ASSUME EnsureSettings(c)
        PROVE  TypeOK'
    <2> DEFINE q == [phase |-> "ensure.list", through |-> today]
    <2>1. q \in Request
      BY RequestsMade DEF TypeOK
    <2> QED
      BY <1>6, <2>1, TypeOfReads DEF EnsureSettings, Goto, TypeOK
  <1>7. ASSUME EnsureList(c)
        PROVE  TypeOK'
    <2> DEFINE through == request[c].through
               due == {r \in Existing : DueBy(rules[r], through)}
               q == [phase |-> "ensure.rule", through |-> through, due |-> due]
    <2>1. through \in Days /\ due \in SUBSET Rules
      BY <1>7, RequestFields DEF EnsureList, TypeOK
    <2>2. q \in Request /\ q.due \subseteq Existing
      BY <2>1, RequestsMade
    <2>3. lapsed' \in SUBSET Rules
      BY <1>7 DEF EnsureList, TypeOK
    <2>4. request' = [request EXCEPT ![c] = q]
      BY <1>7 DEF EnsureList, Goto
    <2> QED
      BY <1>7, <2>2, <2>3, <2>4, TypeOfReads DEF EnsureList
  <1>8. ASSUME NEW r \in Rules, EnsureSkip(c, r)
        PROVE  TypeOK'
    <2> DEFINE q == [request[c] EXCEPT !.due = @ \ {r}]
    <2>1. request[c] \in Request /\ request[c].phase = "ensure.rule"
      BY <1>8 DEF EnsureSkip, TypeOK
    <2>2. q \in Request
      BY <2>1, RequestsChanged
    <2>3. q.phase = "ensure.rule" /\ q.due \subseteq request[c].due
      BY <2>1 DEF Request, Idle
    <2>4. request' = [request EXCEPT ![c] = q] /\ lapsed' \in SUBSET Rules
      BY <1>8 DEF EnsureSkip, RuleDone, Goto, TypeOK
    <2>5. request[c].due \subseteq Existing
      BY <2>1 DEF TypeOK, RequestsHoldRules
    <2> HIDE DEF q
    <2> QED
      BY <1>8, <2>2, <2>3, <2>4, <2>5, TypeOfReads DEF EnsureSkip
  <1>9. ASSUME NEW r \in Rules, EnsureLimit(c, r)
        PROVE  TypeOK'
    BY <1>9, RequestsMade, TypeOfReads DEF EnsureLimit, Reply, Excuse, TypeOK, Idle
  <1>10. ASSUME EnsureReturn(c)
         PROVE  TypeOK'
    BY <1>10, RequestsMade, TypeOfReads DEF EnsureReturn, Reply, TypeOK, Idle
  <1>11. ASSUME Cancel(c)
         PROVE  TypeOK'
    BY <1>11, RequestsMade, TypeOfReads DEF Cancel, Reply, Excuse, TypeOK, Idle
  <1> QED
    BY <1>1, <1>2, <1>3, <1>4, <1>5, <1>6, <1>7, <1>8, <1>9, <1>10, <1>11,
       TypeOfCreate, TypeOfUpdate, TypeOfEnable, TypeOfGenerate
       DEF Arrive, Proceed

LEMMA TypeOfOccurrences ==
    ASSUME TypeOK, NEW o \in occurrences,
           \/ SkipOccurrence(o)
           \/ \E id \in RequestIds \cup {<<o.rule, o.scheduledOn>>}, category \in Categories :
                ConfirmOccurrence(o, id, category)
    PROVE  TypeOK'
  <1>1. o \in Occurrence /\ o.rule \in Rules /\ o.scheduledOn \in Int /\ o.category \in Categories
    BY DEF TypeOK, Occurrence
  <1>2. \A status \in {"confirmed", "skipped"} : [o EXCEPT !.status = status] \in Occurrence
    BY <1>1 DEF Occurrence
  <1>3. CASE SkipOccurrence(o)
    <2>1. occurrences' \in SUBSET Occurrence
      BY <1>2, <1>3 DEF TypeOK, SkipOccurrence, Transition
    <2> QED
      BY <1>3, <2>1 DEF TypeOK, SkipOccurrence, RequestsHoldRules, Existing
  <1>4. ASSUME NEW id \in RequestIds \cup {<<o.rule, o.scheduledOn>>},
               NEW category \in Categories,
               ConfirmOccurrence(o, id, category)
        PROVE  TypeOK'
    <2>1. occurrences' \in SUBSET Occurrence
      BY <1>2, <1>4 DEF TypeOK, ConfirmOccurrence, Transition
    <2>2. id \in TransactionId /\ KindOf[o.category] \in Kinds
      BY <1>1, RecurringAssumption DEF TransactionId, RecurringAssumption
    <2>3. posted' \in SUBSET Posted
      BY <1>1, <1>4, <2>2 DEF TypeOK, ConfirmOccurrence, Posted
    <2> QED
      BY <1>4, <2>1, <2>3 DEF TypeOK, ConfirmOccurrence, RequestsHoldRules, Existing
  <1> QED
    BY <1>3, <1>4

LEMMA TypeInductive == TypeOK /\ [Next]_vars => TypeOK'
  <1> SUFFICES ASSUME TypeOK, [Next]_vars
               PROVE  TypeOK'
    OBVIOUS
  <1>1. ASSUME NEW r \in Rules, ArchiveRecurringRule(r)
        PROVE  TypeOK'
    <2>1. rules' \in [Existing -> Rule]
      BY <1>1 DEF TypeOK, ArchiveRecurringRule, Rule, Existing
    <2> QED
      BY <1>1, <2>1 DEF TypeOK, ArchiveRecurringRule, RequestsHoldRules, Existing
  <1>2. ASSUME NEW category \in Categories, ArchiveCategory(category) \/ RestoreCategory(category)
        PROVE  TypeOK'
    BY <1>2 DEF TypeOK, ArchiveCategory, RestoreCategory, RequestsHoldRules, Existing
  <1>3. ASSUME DateChanges
        PROVE  TypeOK'
    BY <1>3 DEF TypeOK, DateChanges, RequestsHoldRules, Existing
  <1>4. ASSUME UNCHANGED vars
        PROVE  TypeOK'
    BY <1>4 DEF TypeOK, vars, RequestsHoldRules, Existing
  <1> QED
    BY <1>1, <1>2, <1>3, <1>4, TypeOfRequests, TypeOfOccurrences DEF Next

\* Type correctness: the tables, the requests in flight and what they hold.
THEOREM TypeCorrect == Spec => []TypeOK
  <1>1. Init => TypeOK
    BY RecurringAssumption, RequestsMade
       DEF Init, TypeOK, RequestsHoldRules, Existing, RecurringAssumption, Idle
  <1> QED
    BY <1>1, TypeInductive, PTL DEF Spec

-----------------------------------------------------------------------------
(* What a step may do to rules, occurrences and posted *)

\* Rule r keeps its schedule and its cursor, or is new or edited and starts at
\* its anchor.
SameCursor(r) ==
    /\ r \in Existing
    /\ rules'[r].schedule = rules[r].schedule
    /\ rules'[r].nextSequence = rules[r].nextSequence
    /\ rules'[r].nextDueOn = rules[r].nextDueOn

StartsOver(r) ==
    /\ rules'[r].nextSequence = 0
    /\ rules'[r].nextDueOn = DayOf(rules'[r].schedule.startOn)

RulesOnly ==
    /\ UNCHANGED <<occurrences, posted>>
    /\ Existing \subseteq Existing'
    /\ \A r \in Existing' : SameCursor(r) \/ StartsOver(r)

LEMMA Effects ==
    ASSUME TypeOK, [Next]_vars
    PROVE  \/ RulesOnly
           \/ \E c \in Clients, r \in Rules : EnsureGenerate(c, r)
           \/ \E o \in occurrences :
                \/ SkipOccurrence(o)
                \/ \E id \in RequestIds \cup {<<o.rule, o.scheduledOn>>}, category \in Categories :
                        ConfirmOccurrence(o, id, category)
  <1>1. UNCHANGED <<rules, occurrences, posted>> => RulesOnly
    BY DEF RulesOnly, SameCursor, Existing
  <1>2. ASSUME NEW c \in Clients, CreateInsert(c)
        PROVE  RulesOnly
    <2>1. CASE request[c].rule \in Existing
      BY <1>1, <1>2, <2>1 DEF CreateInsert
    <2>2. CASE request[c].rule \notin Existing
      <3> DEFINE new == AtAnchor(request[c].fields, TRUE, FALSE)
      <3>1. new.nextSequence = 0 /\ new.nextDueOn = DayOf(new.schedule.startOn)
        BY DEF AtAnchor
      <3> HIDE DEF new
      <3>2. rules' = [r \in Existing \cup {request[c].rule} |->
                        IF r \in Existing THEN rules[r] ELSE new]
        BY <1>2, <2>2 DEF CreateInsert, new
      <3>3. Existing' = Existing \cup {request[c].rule}
        BY <3>2 DEF Existing
      <3>4. \A r \in Existing' : SameCursor(r) \/ StartsOver(r)
        BY <3>1, <3>2, <3>3 DEF SameCursor, StartsOver
      <3> QED
        BY <1>2, <3>3, <3>4 DEF RulesOnly, CreateInsert
    <2> QED
      BY <2>1, <2>2
  <1>3. ASSUME NEW c \in Clients, UpdateWrite(c)
        PROVE  RulesOnly
    <2>1. Existing' = Existing
      BY <1>3 DEF UpdateWrite, Existing, TypeOK
    <2>2. StartsOver(request[c].rule) \/ request[c].rule \notin Existing
      BY <1>3 DEF UpdateWrite, Existing, TypeOK, StartsOver, Rewritten, AtAnchor
    <2>3. \A r \in Existing \ {request[c].rule} : SameCursor(r)
      BY <1>3 DEF UpdateWrite, Existing, TypeOK, SameCursor
    <2> QED
      BY <1>3, <2>1, <2>2, <2>3 DEF RulesOnly, UpdateWrite
  <1>4. ASSUME NEW c \in Clients, EnableWrite(c)
        PROVE  RulesOnly
    <2>1. Existing' = Existing
      BY <1>4 DEF EnableWrite, Existing, TypeOK
    <2>2. \A r \in Existing : SameCursor(r)
      BY <1>4 DEF EnableWrite, Existing, TypeOK, SameCursor, Rule
    <2> QED
      BY <1>4, <2>1, <2>2 DEF RulesOnly, EnableWrite
  <1>5. ASSUME NEW r \in Rules, ArchiveRecurringRule(r)
        PROVE  RulesOnly
    <2>1. Existing' = Existing
      BY <1>5 DEF ArchiveRecurringRule, Existing, TypeOK
    <2>2. \A s \in Existing : SameCursor(s)
      BY <1>5 DEF ArchiveRecurringRule, Existing, TypeOK, SameCursor, Rule
    <2> QED
      BY <1>5, <2>1, <2>2 DEF RulesOnly, ArchiveRecurringRule
  <1>6. ASSUME NEW c \in Clients, Arrive(c)
        PROVE  RulesOnly
    BY <1>1, <1>6 DEF Arrive, CreateValidate, UpdateValidate, EnableValidate, EnsureOccurrences
  <1>7. ASSUME NEW c \in Clients, Proceed(c) \/ Cancel(c),
               ~\E r \in Rules : EnsureGenerate(c, r)
        PROVE  RulesOnly
    BY <1>1, <1>2, <1>3, <1>4, <1>7
       DEF Proceed, Cancel, CreateFind, EnsureSettings, EnsureList, EnsureReturn, EnsureSkip, EnsureLimit
  <1>8. (\E category \in Categories : ArchiveCategory(category) \/ RestoreCategory(category))
        \/ DateChanges \/ UNCHANGED vars => RulesOnly
    BY <1>1 DEF ArchiveCategory, RestoreCategory, DateChanges, vars
  <1> QED
    BY <1>5, <1>6, <1>7, <1>8 DEF Next

\* What EnsureGenerate writes.
LEMMA Generated ==
    ASSUME TypeOK, NEW c \in Clients, NEW r \in Rules, EnsureGenerate(c, r)
    PROVE  /\ r \in Existing /\ rules[r] \in Rule
           /\ DueBy(rules[r], request[c].through)
           /\ \E n \in Nat :
                 /\ n > rules[r].nextSequence
                 /\ DayAt(rules[r], n) > request[c].through
                 /\ occurrences' = occurrences \cup Inserted(r, rules[r], n)
                 /\ rules' = [rules EXCEPT ![r].nextSequence = n,
                                           ![r].nextDueOn = DayAt(rules[r], n)]
  <1>1. r \in Existing /\ rules[r] \in Rule /\ rules[r].nextSequence \in Nat
    BY DEF TypeOK, RequestsHoldRules, EnsureGenerate, Rule
  <1>2. PICK n \in (rules[r].nextSequence + 1)..(rules[r].nextSequence + SafetyLimit) :
          /\ LoopEnds(rules[r], request[c].through, n)
          /\ occurrences' = occurrences \cup Inserted(r, rules[r], n)
          /\ rules' = [rules EXCEPT ![r].nextSequence = n,
                                    ![r].nextDueOn = DayAt(rules[r], n)]
    BY DEF EnsureGenerate
  <1>3. n \in Nat /\ n > rules[r].nextSequence
    BY <1>1, <1>2
  <1>4. DayAt(rules[r], n) > request[c].through
    BY <1>2 DEF LoopEnds
  <1> QED
    BY <1>1, <1>2, <1>3, <1>4 DEF EnsureGenerate

RecordedNext(r, day) == \E o \in occurrences' : o.rule = r /\ o.scheduledOn = day

\* A day that has its occurrence keeps it.
LEMMA RecordedForGood ==
    ASSUME TypeOK, [Next]_vars, NEW r, NEW day, Recorded(r, day)
    PROVE  RecordedNext(r, day)
  <1>1. PICK o \in occurrences : o.rule = r /\ o.scheduledOn = day
    BY DEF Recorded
  <1>2. ASSUME NEW p \in occurrences, NEW status, Transition(p, status)
        PROVE  RecordedNext(r, day)
    <2> DEFINE q == [p EXCEPT !.status = status]
    <2>1. p \in Occurrence
      BY <1>2 DEF TypeOK
    <2>2. q.rule = p.rule /\ q.scheduledOn = p.scheduledOn
      BY <2>1 DEF Occurrence
    <2>3. occurrences' = (occurrences \ {p}) \cup {q}
      BY <1>2 DEF Transition
    <2> HIDE DEF q
    <2> QED
      BY <1>1, <2>2, <2>3 DEF RecordedNext
  <1>3. CASE RulesOnly
    BY <1>1, <1>3 DEF RulesOnly, Recorded, RecordedNext
  <1>4. CASE \E c \in Clients, s \in Rules : EnsureGenerate(c, s)
    <2>1. occurrences \subseteq occurrences'
      BY <1>4, Generated
    <2> QED
      BY <1>1, <2>1 DEF RecordedNext
  <1> QED
    BY <1>2, <1>3, <1>4, Effects DEF SkipOccurrence, ConfirmOccurrence

-----------------------------------------------------------------------------
(* The cursor leaves no gap *)

LEMMA CursorInductive == TypeOK /\ CursorHasNoGap /\ [Next]_vars => CursorHasNoGap'
  <1> SUFFICES ASSUME TypeOK, TypeOK', CursorHasNoGap, [Next]_vars,
                      NEW r \in Existing'
               PROVE  /\ rules'[r].nextDueOn =
                            OccurrenceDate(rules'[r].schedule, rules'[r].nextSequence)
                      /\ \A k \in 0..(rules'[r].nextSequence - 1) :
                            RecordedNext(r, OccurrenceDate(rules'[r].schedule, k))
    BY TypeInductive DEF CursorHasNoGap, CursorOnSchedule, NoDayMissing, Recorded, RecordedNext
  <1>1. CASE SameCursor(r)
    <2>1. rules[r].nextDueOn = OccurrenceDate(rules[r].schedule, rules[r].nextSequence)
      BY <1>1 DEF CursorHasNoGap, CursorOnSchedule, SameCursor
    <2>2. ASSUME NEW k \in 0..(rules[r].nextSequence - 1)
          PROVE  Recorded(r, OccurrenceDate(rules[r].schedule, k))
      BY <1>1 DEF CursorHasNoGap, NoDayMissing, SameCursor
    <2>3. ASSUME NEW k \in 0..(rules'[r].nextSequence - 1)
          PROVE  RecordedNext(r, OccurrenceDate(rules'[r].schedule, k))
      BY <1>1, <2>2, RecordedForGood DEF SameCursor
    <2> QED
      BY <1>1, <2>1, <2>3 DEF SameCursor
  <1>2. CASE StartsOver(r)
    <2>1. rules'[r].schedule \in Schedule
      BY RecurringAssumption DEF TypeOK, Rule, RecurringAssumption
    <2> QED
      BY <1>2, <2>1, AnchorIsFirst DEF StartsOver
  <1>3. ASSUME NEW c \in Clients, NEW s \in Rules, EnsureGenerate(c, s)
        PROVE  SameCursor(r) \/ r = s
    <2>1. PICK n \in Nat :
            rules' = [rules EXCEPT ![s].nextSequence = n, ![s].nextDueOn = DayAt(rules[s], n)]
      BY <1>3, Generated
    <2> QED
      BY <2>1 DEF SameCursor, Existing, TypeOK
  <1>4. ASSUME NEW c \in Clients, EnsureGenerate(c, r), r \in Rules
        PROVE  /\ rules'[r].nextDueOn =
                     OccurrenceDate(rules'[r].schedule, rules'[r].nextSequence)
               /\ \A k \in 0..(rules'[r].nextSequence - 1) :
                     RecordedNext(r, OccurrenceDate(rules'[r].schedule, k))
    <2> DEFINE rule == rules[r]
    <2>1. r \in Existing /\ rule \in Rule /\ rule.nextSequence \in Nat
      BY <1>4, Generated DEF Rule
    <2>2. PICK n \in Nat :
            /\ n > rule.nextSequence
            /\ occurrences' = occurrences \cup Inserted(r, rule, n)
            /\ rules' = [rules EXCEPT ![r].nextSequence = n, ![r].nextDueOn = DayAt(rule, n)]
      BY <1>4, Generated
    <2>3. /\ rules'[r].schedule = rule.schedule
          /\ rules'[r].nextSequence = n
          /\ rules'[r].nextDueOn = DayAt(rule, n)
      BY <2>1, <2>2 DEF Rule, TypeOK
    <2>4. \A k \in Nat : DayAt(rule, k) = OccurrenceDate(rule.schedule, k)
      BY <2>1 DEF DayAt, CursorHasNoGap, CursorOnSchedule
    <2>5. ASSUME NEW k \in 0..(n - 1)
          PROVE  RecordedNext(r, OccurrenceDate(rule.schedule, k))
      <3>1. CASE k < rule.nextSequence
        BY <2>1, <3>1, RecordedForGood DEF CursorHasNoGap, NoDayMissing
      <3>2. CASE k >= rule.nextSequence /\ Recorded(r, DayAt(rule, k))
        BY <2>4, <3>2, RecordedForGood
      <3>3. CASE k >= rule.nextSequence /\ ~Recorded(r, DayAt(rule, k))
        <4>1. Pending(r, rule, DayAt(rule, k)) \in Inserted(r, rule, n)
          BY <2>1, <2>2, <3>3 DEF Inserted
        <4>2. /\ Pending(r, rule, DayAt(rule, k)).rule = r
              /\ Pending(r, rule, DayAt(rule, k)).scheduledOn = DayAt(rule, k)
          BY DEF Pending
        <4> QED
          BY <2>2, <2>4, <4>1, <4>2 DEF RecordedNext
      <3> QED
        BY <2>1, <3>1, <3>2, <3>3
    <2> QED
      BY <2>2, <2>3, <2>4, <2>5
  <1>5. ASSUME NEW o \in occurrences,
               \/ SkipOccurrence(o)
               \/ \E id \in RequestIds \cup {<<o.rule, o.scheduledOn>>}, category \in Categories :
                    ConfirmOccurrence(o, id, category)
        PROVE  SameCursor(r)
    BY <1>5 DEF SkipOccurrence, ConfirmOccurrence, SameCursor, Existing
  <1> QED
    BY <1>1, <1>2, <1>3, <1>4, <1>5, Effects DEF RulesOnly

\* The stored cursor is on the rule's schedule and no day before it is missing.
THEOREM NoGap == Spec => []CursorHasNoGap
  <1>1. Init => CursorHasNoGap
    BY DEF Init, CursorHasNoGap, CursorOnSchedule, NoDayMissing, Existing
  <1> QED
    BY <1>1, TypeCorrect, CursorInductive, PTL DEF Spec

-----------------------------------------------------------------------------
(* One occurrence per day *)

\* What the generating loop inserts: pending snapshots of rule r, for days that
\* had none, one for a day.
LEMMA InsertedSnapshots ==
    ASSUME NEW r, NEW rule, NEW n
    PROVE  /\ \A o \in Inserted(r, rule, n) :
                /\ o.rule = r /\ o.status = "pending" /\ ~Recorded(r, o.scheduledOn)
           /\ \A o, p \in Inserted(r, rule, n) : o.scheduledOn = p.scheduledOn => o = p
  <1>1. ASSUME NEW o \in Inserted(r, rule, n)
        PROVE  /\ o = Pending(r, rule, o.scheduledOn)
               /\ o.rule = r /\ o.status = "pending" /\ ~Recorded(r, o.scheduledOn)
    <2>1. PICK k \in rule.nextSequence..(n - 1) :
            o = Pending(r, rule, DayAt(rule, k)) /\ ~Recorded(r, DayAt(rule, k))
      BY DEF Inserted
    <2> DEFINE day == DayAt(rule, k)
    <2> HIDE DEF day
    <2>2. o = Pending(r, rule, day) /\ ~Recorded(r, day)
      BY <2>1 DEF day
    <2>3. o.scheduledOn = day /\ o.rule = r /\ o.status = "pending"
      BY <2>2 DEF Pending
    <2> QED
      BY <2>2, <2>3
  <1>2. \A o, p \in Inserted(r, rule, n) : o.scheduledOn = p.scheduledOn => o = p
    BY <1>1
  <1> QED
    BY <1>1, <1>2

\* A transition replaces one occurrence by the same one in another status.
LEMMA Transitions ==
    ASSUME TypeOK, NEW o \in occurrences, NEW status, Transition(o, status)
    PROVE  \E q : /\ occurrences' = (occurrences \ {o}) \cup {q}
                  /\ q.rule = o.rule /\ q.scheduledOn = o.scheduledOn
                  /\ q.template = o.template /\ q.category = o.category
                  /\ q.status = status
                  /\ q = [o EXCEPT !.status = status]
  <1>1. o \in Occurrence
    BY DEF TypeOK
  <1> DEFINE q == [o EXCEPT !.status = status]
  <1>2. /\ q.rule = o.rule /\ q.scheduledOn = o.scheduledOn
        /\ q.template = o.template /\ q.category = o.category /\ q.status = status
    BY <1>1 DEF Occurrence
  <1>3. occurrences' = (occurrences \ {o}) \cup {q}
    BY DEF Transition
  <1> QED
    BY <1>2, <1>3

LEMMA UniqueInductive == TypeOK /\ OneOccurrencePerDay /\ [Next]_vars => OneOccurrencePerDay'
  <1> SUFFICES ASSUME TypeOK, OneOccurrencePerDay, [Next]_vars
               PROVE  OneOccurrencePerDay'
    OBVIOUS
  <1>1. CASE RulesOnly
    BY <1>1 DEF RulesOnly, OneOccurrencePerDay
  <1>2. ASSUME NEW c \in Clients, NEW r \in Rules, EnsureGenerate(c, r)
        PROVE  OneOccurrencePerDay'
    <2>1. PICK n \in Nat : occurrences' = occurrences \cup Inserted(r, rules[r], n)
      BY <1>2, Generated
    <2>2. ASSUME NEW o \in occurrences', NEW p \in occurrences',
                 o.rule = p.rule, o.scheduledOn = p.scheduledOn
          PROVE  o = p
      <3>1. CASE o \in occurrences /\ p \in occurrences
        BY <2>2, <3>1 DEF OneOccurrencePerDay
      <3>2. CASE o \in Inserted(r, rules[r], n) /\ p \in Inserted(r, rules[r], n)
        BY <2>2, <3>2, InsertedSnapshots
      <3>3. ASSUME NEW a \in occurrences, NEW b \in Inserted(r, rules[r], n)
            PROVE  a.rule # b.rule \/ a.scheduledOn # b.scheduledOn
        BY InsertedSnapshots DEF Recorded
      <3> QED
        BY <2>1, <2>2, <3>1, <3>2, <3>3
    <2> QED
      BY <2>2 DEF OneOccurrencePerDay
  <1>3. ASSUME NEW o \in occurrences, NEW status, Transition(o, status)
        PROVE  OneOccurrencePerDay'
    <2>1. PICK q : /\ occurrences' = (occurrences \ {o}) \cup {q}
                   /\ q.rule = o.rule /\ q.scheduledOn = o.scheduledOn
      BY <1>3, Transitions
    <2> QED
      BY <2>1 DEF OneOccurrencePerDay
  <1> QED
    BY <1>1, <1>2, <1>3, Effects DEF SkipOccurrence, ConfirmOccurrence

\* However many requests generate, edit, confirm and skip at the same time, a
\* rule never has two occurrences for a day.
THEOREM NoDuplicates == Spec => []OneOccurrencePerDay
  <1>1. Init => OneOccurrencePerDay
    BY DEF Init, OneOccurrencePerDay
  <1> QED
    BY <1>1, TypeCorrect, UniqueInductive, PTL DEF Spec

-----------------------------------------------------------------------------
(* Confirmation and its transaction *)

\* What ConfirmOccurrence books.
LEMMA Confirmed ==
    ASSUME TypeOK, NEW o \in occurrences, NEW id, NEW category,
           ConfirmOccurrence(o, id, category)
    PROVE  /\ o.status = "pending"
           /\ \E q : /\ occurrences' = (occurrences \ {o}) \cup {q}
                     /\ q.rule = o.rule /\ q.scheduledOn = o.scheduledOn
                     /\ q.category = o.category /\ q.status = "confirmed"
           /\ \E t : /\ posted' = posted \cup {t}
                     /\ t.rule = o.rule /\ t.scheduledOn = o.scheduledOn
                     /\ t.requestId = id /\ t.kind = KindOf[o.category]
           /\ \A p \in posted : p.requestId # id
  <1>1. Transition(o, "confirmed")
    BY DEF ConfirmOccurrence
  <1> DEFINE t == [rule |-> o.rule, scheduledOn |-> o.scheduledOn, requestId |-> id,
                   kind |-> KindOf[o.category], category |-> category]
  <1>2. posted' = posted \cup {t}
    BY DEF ConfirmOccurrence
  <1>3. /\ t.rule = o.rule /\ t.scheduledOn = o.scheduledOn
        /\ t.requestId = id /\ t.kind = KindOf[o.category]
    OBVIOUS
  <1> HIDE DEF t
  <1> QED
    BY <1>1, <1>2, <1>3, Transitions DEF ConfirmOccurrence

LEMMA PostedInductive ==
    TypeOK /\ OneOccurrencePerDay /\ ConfirmedExactlyWhenPosted /\ [Next]_vars
        => ConfirmedExactlyWhenPosted'
  <1> SUFFICES ASSUME TypeOK, OneOccurrencePerDay, ConfirmedExactlyWhenPosted, [Next]_vars
               PROVE  ConfirmedExactlyWhenPosted'
    OBVIOUS
  <1> DEFINE Settled(o, ofIt) == IF o.status = "confirmed"
                                 THEN \E p \in ofIt : ofIt = {p} /\ p.kind = KindOf[o.category]
                                 ELSE ofIt = {}
             OfIt(o) == {p \in posted : p.rule = o.rule /\ p.scheduledOn = o.scheduledOn}
             OfItNext(o) == {p \in posted' : p.rule = o.rule /\ p.scheduledOn = o.scheduledOn}
             Next1 == \A o \in occurrences' : Settled(o, OfItNext(o))
             Next2 == \A p \in posted' : RecordedNext(p.rule, p.scheduledOn)
             Next3 == \A p, q \in posted' : p.requestId = q.requestId => p = q
  <1>1. /\ \A o \in occurrences : Settled(o, OfIt(o))
        /\ \A p \in posted : Recorded(p.rule, p.scheduledOn)
        /\ \A p, q \in posted : p.requestId = q.requestId => p = q
    BY DEF ConfirmedExactlyWhenPosted
  <1>2. Next1 /\ Next2 /\ Next3 => ConfirmedExactlyWhenPosted'
    BY DEF ConfirmedExactlyWhenPosted, Recorded, RecordedNext
  <1>3. \A p \in posted : RecordedNext(p.rule, p.scheduledOn)
    BY <1>1, RecordedForGood
  <1>4. CASE RulesOnly
    <2>1. \A o : OfItNext(o) = OfIt(o)
      BY <1>4 DEF RulesOnly
    <2> HIDE DEF Settled, OfIt, OfItNext
    <2> QED
      BY <1>1, <1>2, <1>3, <1>4, <2>1 DEF RulesOnly
  <1>5. ASSUME NEW c \in Clients, NEW r \in Rules, EnsureGenerate(c, r)
        PROVE  Next1 /\ Next2 /\ Next3
    <2>1. PICK n \in Nat : occurrences' = occurrences \cup Inserted(r, rules[r], n)
      BY <1>5, Generated
    <2>2. posted' = posted
      BY <1>5 DEF EnsureGenerate
    <2>3. \A o : OfItNext(o) = OfIt(o)
      BY <2>2
    <2>4. ASSUME NEW o \in Inserted(r, rules[r], n)
          PROVE  OfIt(o) = {} /\ o.status = "pending"
      BY <1>1, InsertedSnapshots
    <2>5. \A o \in Inserted(r, rules[r], n) : Settled(o, OfIt(o))
      BY <2>4
    <2> HIDE DEF Settled, OfIt, OfItNext
    <2> QED
      BY <1>1, <1>3, <2>1, <2>2, <2>3, <2>5
  <1>6. ASSUME NEW o \in occurrences, SkipOccurrence(o)
        PROVE  Next1 /\ Next2 /\ Next3
    <2>1. PICK q : /\ occurrences' = (occurrences \ {o}) \cup {q}
                   /\ q.rule = o.rule /\ q.scheduledOn = o.scheduledOn /\ q.status = "skipped"
      BY <1>6, Transitions DEF SkipOccurrence
    <2>2. posted' = posted /\ o.status = "pending"
      BY <1>6 DEF SkipOccurrence
    <2>3. \A p : OfItNext(p) = OfIt(p)
      BY <2>2
    <2>4. OfIt(q) = {}
      BY <1>1, <2>1, <2>2
    <2>5. Settled(q, OfIt(q))
      BY <2>1, <2>4
    <2> HIDE DEF Settled, OfIt, OfItNext
    <2> QED
      BY <1>1, <1>3, <2>1, <2>2, <2>3, <2>5
  <1>7. ASSUME NEW o \in occurrences, NEW id, NEW category, ConfirmOccurrence(o, id, category)
        PROVE  Next1 /\ Next2 /\ Next3
    <2>1. PICK q : /\ occurrences' = (occurrences \ {o}) \cup {q}
                   /\ q.rule = o.rule /\ q.scheduledOn = o.scheduledOn
                   /\ q.category = o.category /\ q.status = "confirmed"
      BY <1>7, Confirmed
    <2>2. PICK t : /\ posted' = posted \cup {t}
                   /\ t.rule = o.rule /\ t.scheduledOn = o.scheduledOn
                   /\ t.requestId = id /\ t.kind = KindOf[o.category]
      BY <1>7, Confirmed
    <2>3. o.status = "pending" /\ \A p \in posted : p.requestId # id
      BY <1>7, Confirmed
    <2>4. OfIt(o) = {}
      BY <1>1, <2>3
    <2>5. Settled(q, OfItNext(q))
      BY <2>1, <2>2, <2>4
    <2>6. ASSUME NEW p \in occurrences \ {o}
          PROVE  Settled(p, OfItNext(p))
      <3>1. p.rule # o.rule \/ p.scheduledOn # o.scheduledOn
        BY DEF OneOccurrencePerDay
      <3>2. OfItNext(p) = OfIt(p)
        BY <2>2, <3>1
      <3> QED
        BY <1>1, <3>2
    <2>7. Next1
      <3> HIDE DEF Settled, OfIt, OfItNext
      <3> QED
        BY <2>1, <2>5, <2>6
    <2>8. Next2
      BY <1>3, <2>1, <2>2 DEF RecordedNext
    <2>9. Next3
      BY <1>1, <2>2, <2>3
    <2> QED
      BY <2>7, <2>8, <2>9
  <1> HIDE DEF Next1, Next2, Next3
  <1> QED
    BY <1>2, <1>4, <1>5, <1>6, <1>7, Effects

\* An occurrence is confirmed exactly when it has its one transaction.
THEOREM ConfirmationIsAtomic == Spec => []ConfirmedExactlyWhenPosted
  <1>1. Init => ConfirmedExactlyWhenPosted
    BY DEF Init, ConfirmedExactlyWhenPosted
  <1> QED
    BY <1>1, TypeCorrect, NoDuplicates, PostedInductive, PTL DEF Spec

-----------------------------------------------------------------------------
(* Recurring implements OccurrenceBook *)

LEMMA BookSteps ==
    TypeOK /\ OneOccurrencePerDay /\ [Next]_vars => [Book!Next]_(Book!vars)
  <1> SUFFICES ASSUME TypeOK, OneOccurrencePerDay, [Next]_vars
               PROVE  [Book!Next]_(Book!vars)
    OBVIOUS
  <1> DEFINE Items(status) == {<<o.rule, o.scheduledOn>> : o \in {o \in occurrences : o.status = status}}
             ItemsNext(status) ==
                {<<o.rule, o.scheduledOn>> : o \in {o \in occurrences' : o.status = status}}
             Booked == {<<p.rule, p.scheduledOn>> : p \in posted}
             BookedNext == {<<p.rule, p.scheduledOn>> : p \in posted'}
  <1>1. CASE RulesOnly
    BY <1>1 DEF RulesOnly, Book!vars, ItemsIn
  <1>2. ASSUME NEW c \in Clients, NEW r \in Rules, EnsureGenerate(c, r)
        PROVE  Book!FallDue(r)
    <2>1. PICK n \in Nat : occurrences' = occurrences \cup Inserted(r, rules[r], n)
      BY <1>2, Generated
    <2>2. posted' = posted
      BY <1>2 DEF EnsureGenerate
    <2>3. \A o \in Inserted(r, rules[r], n) :
            o.rule = r /\ o.status = "pending" /\ ~Recorded(r, o.scheduledOn)
      BY InsertedSnapshots
    <2>4. ItemsNext("confirmed") = Items("confirmed") /\ ItemsNext("skipped") = Items("skipped")
      BY <2>1, <2>3
    <2>5. Items("pending") \subseteq ItemsNext("pending")
      BY <2>1
    <2>6. ASSUME NEW item \in ItemsNext("pending") \ Items("pending")
          PROVE  /\ item[1] = r
                 /\ item \notin Items("pending") \cup Items("confirmed") \cup Items("skipped")
      <3>1. PICK o \in Inserted(r, rules[r], n) : item = <<o.rule, o.scheduledOn>>
        BY <2>1
      <3>2. \A p \in occurrences : <<p.rule, p.scheduledOn>> # item
        BY <2>3, <3>1 DEF Recorded
      <3> QED
        BY <2>3, <3>1, <3>2
    <2> QED
      BY <2>2, <2>4, <2>5, <2>6 DEF Book!FallDue, Book!Known, ItemsIn
  <1>3. ASSUME NEW o \in occurrences, NEW status, Transition(o, status), o.status = "pending",
               status \in {"confirmed", "skipped"}
        PROVE  /\ <<o.rule, o.scheduledOn>> \in Items("pending")
               /\ ItemsNext("pending") = Items("pending") \ {<<o.rule, o.scheduledOn>>}
               /\ ItemsNext(status) = Items(status) \cup {<<o.rule, o.scheduledOn>>}
               /\ \A other \in {"confirmed", "skipped"} \ {status} : ItemsNext(other) = Items(other)
    <2>1. PICK q : /\ occurrences' = (occurrences \ {o}) \cup {q}
                   /\ q.rule = o.rule /\ q.scheduledOn = o.scheduledOn /\ q.status = status
      BY <1>3, Transitions
    <2>2. \A p \in occurrences \ {o} : <<p.rule, p.scheduledOn>> # <<o.rule, o.scheduledOn>>
      BY DEF OneOccurrencePerDay
    <2>3. ItemsNext("pending") = Items("pending") \ {<<o.rule, o.scheduledOn>>}
      BY <1>3, <2>1, <2>2
    <2>4. ItemsNext(status) = Items(status) \cup {<<o.rule, o.scheduledOn>>}
      BY <1>3, <2>1
    <2>5. \A other \in {"confirmed", "skipped"} \ {status} : ItemsNext(other) = Items(other)
      BY <1>3, <2>1
    <2> QED
      BY <1>3, <2>3, <2>4, <2>5
  <1>4. ASSUME NEW o \in occurrences, SkipOccurrence(o)
        PROVE  Book!Skip(<<o.rule, o.scheduledOn>>)
    <2>1. Transition(o, "skipped") /\ o.status = "pending" /\ posted' = posted
      BY <1>4 DEF SkipOccurrence
    <2> HIDE DEF Items, ItemsNext
    <2>2. /\ <<o.rule, o.scheduledOn>> \in Items("pending")
          /\ ItemsNext("pending") = Items("pending") \ {<<o.rule, o.scheduledOn>>}
          /\ ItemsNext("skipped") = Items("skipped") \cup {<<o.rule, o.scheduledOn>>}
          /\ ItemsNext("confirmed") = Items("confirmed")
      BY <1>3, <2>1
    <2> QED
      BY <2>1, <2>2 DEF Book!Skip, ItemsIn, Items, ItemsNext
  <1>5. ASSUME NEW o \in occurrences, NEW id, NEW category, ConfirmOccurrence(o, id, category)
        PROVE  Book!Confirm(<<o.rule, o.scheduledOn>>)
    <2>1. Transition(o, "confirmed") /\ o.status = "pending"
      BY <1>5 DEF ConfirmOccurrence
    <2>2. BookedNext = Booked \cup {<<o.rule, o.scheduledOn>>}
      <3>1. PICK t : posted' = posted \cup {t} /\ t.rule = o.rule /\ t.scheduledOn = o.scheduledOn
        BY <1>5, Confirmed
      <3> QED
        BY <3>1
    <2> HIDE DEF Items, ItemsNext
    <2>3. /\ <<o.rule, o.scheduledOn>> \in Items("pending")
          /\ ItemsNext("pending") = Items("pending") \ {<<o.rule, o.scheduledOn>>}
          /\ ItemsNext("confirmed") = Items("confirmed") \cup {<<o.rule, o.scheduledOn>>}
          /\ ItemsNext("skipped") = Items("skipped")
      BY <1>3, <2>1
    <2> QED
      BY <2>2, <2>3 DEF Book!Confirm, ItemsIn, Items, ItemsNext
  <1>6. \A o \in occurrences : o.status = "pending" => <<o.rule, o.scheduledOn>> \in Items("pending")
    OBVIOUS
  <1>7. (\E r \in Rules : Book!FallDue(r))
        \/ (\E item \in Items("pending") : Book!Confirm(item) \/ Book!Skip(item)) => Book!Next
    BY DEF Book!Next, ItemsIn
  <1> HIDE DEF Items
  <1>8. ASSUME NEW o \in occurrences,
               SkipOccurrence(o) \/ \E id, category : ConfirmOccurrence(o, id, category)
        PROVE  Book!Next
    BY <1>4, <1>5, <1>6, <1>7, <1>8 DEF SkipOccurrence, ConfirmOccurrence
  <1> QED
    BY <1>1, <1>2, <1>7, <1>8, Effects

\* Every interleaving of the requests on recurring items is a behaviour of the
\* abstract book: due at most once a day, settled once, booked when confirmed.
THEOREM ImplementsTheBook == Spec => KeepsTheBook
  <1>1. Init => Book!Init
    BY DEF Init, Book!Init, ItemsIn
  <1>2. Spec => [][Book!Next]_(Book!vars)
    BY TypeCorrect, NoDuplicates, BookSteps, PTL DEF Spec
  <1> QED
    BY <1>1, <1>2, PTL DEF Spec, KeepsTheBook, Book!Spec

-----------------------------------------------------------------------------
(* No lost catch-up *)

PromisesNext(c, r) ==
    \/ request'[c].phase = "ensure.settings"
    \/ request'[c].phase = "ensure.list" /\ request'[c].through = today'
    \/ request'[c].phase = "ensure.rule" /\ request'[c].through = today' /\ r \in request'[c].due

BehindNext(r) == r \in Existing' /\ DueBy(rules'[r], today')

Covered(r) == r \in lapsed' \/ \E c \in Clients : PromisesNext(c, r)

\* A step that leaves the other clients' requests alone keeps their promises.
LEMMA OthersPromise ==
    ASSUME TypeOK, NEW c \in Clients, NEW q, request' = [request EXCEPT ![c] = q], today' = today,
           NEW r, NEW d \in Clients \ {c}, Promises(d, r)
    PROVE  PromisesNext(d, r)
  BY DEF TypeOK, Promises, PromisesNext

LEMMA CatchUpOfRequests ==
    ASSUME TypeOK, NoLostCatchUp, NEW c \in Clients, Arrive(c) \/ Proceed(c) \/ Cancel(c),
           NEW r \in Rules, BehindNext(r)
    PROVE  Covered(r)
  <1>1. ASSUME Arrive(c)
        PROVE  Covered(r)
    <2>1. UNCHANGED <<today, rules, lapsed>> /\ request[c] = Idle
          /\ \E q : request' = [request EXCEPT ![c] = q]
      BY <1>1 DEF Arrive, CreateValidate, UpdateValidate, EnableValidate, EnsureOccurrences,
                  Goto, StartEnsure
    <2>2. Behind(r) /\ ~Promises(c, r)
      BY <2>1 DEF BehindNext, Behind, Existing, Promises, Idle
    <2> QED
      BY <2>1, <2>2, OthersPromise DEF NoLostCatchUp, Covered
  <1>2. ASSUME CreateInsert(c) \/ UpdateWrite(c) \/ EnableWrite(c) \/ CreateFind(c) \/ EnsureReturn(c)
        PROVE  Covered(r)
    <2>1. UNCHANGED <<today, lapsed>> /\ ~Promises(c, r)
          /\ \E q : request' = [request EXCEPT ![c] = q]
      BY <1>2 DEF CreateInsert, UpdateWrite, EnableWrite, CreateFind, EnsureReturn,
                  Goto, StartEnsure, Reply, Promises
    <2>2. \/ Behind(r)
          \/ request' = [request EXCEPT ![c] = [phase |-> "ensure.settings"]]
      <3>1. CASE CreateInsert(c)
        BY <2>1, <3>1 DEF CreateInsert, StartEnsure, Goto, BehindNext, Behind, Existing
      <3>2. CASE UpdateWrite(c)
        BY <3>2 DEF UpdateWrite, StartEnsure, Goto
      <3>3. CASE EnableWrite(c)
        <4>1. CASE request[c].enabled
          BY <3>3, <4>1 DEF EnableWrite, StartEnsure, Goto
        <4>2. CASE ~request[c].enabled
          <5>1. request[c].rule \in Existing /\ Existing' = Existing /\ Existing \in SUBSET Rules
            BY <3>3 DEF EnableWrite, TypeOK, RequestsHoldRules, Existing
          <5>2. r # request[c].rule => rules'[r] = rules[r]
            BY <3>3, <5>1 DEF EnableWrite, TypeOK, BehindNext, Existing
          <5>3. rules[request[c].rule] \in Rule
            BY <5>1 DEF TypeOK
          <5>4. rules[request[c].rule].archived \/ ~rules'[request[c].rule].enabled
            BY <3>3, <4>2, <5>1, <5>3 DEF EnableWrite, TypeOK, Rule, RequestFields
          <5>5. rules'[request[c].rule].archived = rules[request[c].rule].archived
            BY <3>3, <5>1, <5>3 DEF EnableWrite, TypeOK, Rule
          <5> QED
            BY <2>1, <5>1, <5>2, <5>4, <5>5 DEF BehindNext, Behind, DueBy
        <4> QED
          BY <4>1, <4>2
      <3>4. CASE CreateFind(c) \/ EnsureReturn(c)
        BY <2>1, <3>4 DEF CreateFind, EnsureReturn, BehindNext, Behind, Existing
      <3> QED
        BY <1>2, <3>1, <3>2, <3>3, <3>4
    <2>3. CASE Behind(r)
      BY <2>1, <2>3, OthersPromise DEF NoLostCatchUp, Covered
    <2>4. CASE request' = [request EXCEPT ![c] = [phase |-> "ensure.settings"]]
      BY <2>4 DEF Covered, PromisesNext, TypeOK
    <2> QED
      BY <2>2, <2>3, <2>4
  <1>3. ASSUME EnsureSettings(c)
        PROVE  Covered(r)
    <2>1. request' = [request EXCEPT ![c] = [phase |-> "ensure.list", through |-> today]]
          /\ today' = today
      BY <1>3 DEF EnsureSettings, Goto
    <2> QED
      BY <2>1 DEF Covered, PromisesNext, TypeOK
  <1>4. ASSUME EnsureList(c)
        PROVE  Covered(r)
    <2> DEFINE through == request[c].through
               due == {s \in Existing : DueBy(rules[s], through)}
               q == [phase |-> "ensure.rule", through |-> through, due |-> due]
    <2>1. request' = [request EXCEPT ![c] = q] /\ UNCHANGED <<today, rules>>
          /\ lapsed' = (IF through = today THEN lapsed \cap due ELSE lapsed)
          /\ request[c].phase = "ensure.list"
      BY <1>4 DEF EnsureList, Goto
    <2>2. Behind(r)
      BY <2>1 DEF BehindNext, Behind, Existing
    <2>3. CASE through = today
      <3>1. r \in due
        BY <2>2, <2>3 DEF Behind
      <3>2. request'[c] = q
        BY <2>1 DEF TypeOK
      <3> HIDE DEF due
      <3>3. PromisesNext(c, r)
        BY <2>1, <2>3, <3>1, <3>2 DEF PromisesNext
      <3> QED
        BY <3>3 DEF Covered
    <2>4. CASE through # today
      <3>1. ~Promises(c, r)
        BY <2>1, <2>4 DEF Promises
      <3> QED
        BY <2>1, <2>2, <2>4, <3>1, OthersPromise DEF NoLostCatchUp, Covered
    <2> QED
      BY <2>3, <2>4
  <1>5. ASSUME NEW s \in Rules, EnsureSkip(c, s) \/ EnsureGenerate(c, s)
        PROVE  Covered(r)
    <2> DEFINE q == [request[c] EXCEPT !.due = @ \ {s}]
    <2>1. /\ request' = [request EXCEPT ![c] = q]
          /\ today' = today /\ request[c].phase = "ensure.rule"
          /\ lapsed' = (IF request[c].through = today THEN lapsed \ {s} ELSE lapsed)
      BY <1>5 DEF EnsureSkip, EnsureGenerate, RuleDone, Goto
    <2>2. request[c] \in Request /\ today \in Int /\ request[c].through \in Int
      BY <2>1, RequestFields, RecurringAssumption DEF TypeOK, RecurringAssumption
    <2>3. r # s => Behind(r)
      <3>1. CASE EnsureSkip(c, s)
        BY <3>1 DEF EnsureSkip, BehindNext, Behind, Existing
      <3>2. CASE EnsureGenerate(c, s)
        <4>1. PICK n \in Nat :
                rules' = [rules EXCEPT ![s].nextSequence = n, ![s].nextDueOn = DayAt(rules[s], n)]
          BY <3>2, Generated
        <4> QED
          BY <2>1, <4>1 DEF BehindNext, Behind, Existing, TypeOK
      <3> QED
        BY <1>5, <3>1, <3>2
    <2>4. request[c].through = today => r # s
      <3>1. CASE EnsureSkip(c, s)
        BY <3>1 DEF EnsureSkip, BehindNext, Existing
      <3>2. CASE EnsureGenerate(c, s) /\ request[c].through = today
        <4>1. /\ s \in Existing /\ rules[s] \in Rule
              /\ \E n \in Nat :
                    /\ DayAt(rules[s], n) > request[c].through
                    /\ rules' = [rules EXCEPT ![s].nextSequence = n,
                                              ![s].nextDueOn = DayAt(rules[s], n)]
          BY <3>2, Generated
        <4>2. PICK n \in Nat :
                    /\ DayAt(rules[s], n) > request[c].through
                    /\ rules' = [rules EXCEPT ![s].nextSequence = n,
                                              ![s].nextDueOn = DayAt(rules[s], n)]
          BY <4>1
        <4>3. DayAt(rules[s], n) \in Int
          BY <4>1, DayAtIsDay
        <4>4. rules'[s].nextDueOn = DayAt(rules[s], n)
          BY <4>1, <4>2 DEF Rule, TypeOK
        <4>5. ~DueBy(rules'[s], today')
          BY <2>1, <2>2, <3>2, <4>2, <4>3, <4>4 DEF DueBy
        <4> QED
          BY <4>5 DEF BehindNext
      <3> QED
        BY <1>5, <3>1, <3>2
    <2>5. CASE request[c].through # today
      <3>1. ~Promises(c, r) /\ lapsed' = lapsed
        BY <2>1, <2>5 DEF Promises
      <3>2. CASE Behind(r)
        BY <2>1, <3>1, <3>2, OthersPromise DEF NoLostCatchUp, Covered
      <3>3. CASE ~Behind(r)
        <4>1. r = s /\ BehindNext(s)
          BY <2>3, <3>3
        <4>2. EnsureSkip(c, s) => Behind(s)
          BY <4>1 DEF EnsureSkip, BehindNext, Behind, Existing
        <4>3. EnsureGenerate(c, s) => Behind(s)
          <5> SUFFICES ASSUME EnsureGenerate(c, s)
                       PROVE  Behind(s)
            OBVIOUS
          <5>1. PICK n \in Nat :
                  /\ DayAt(rules[s], n) > request[c].through
                  /\ rules' = [rules EXCEPT ![s].nextSequence = n,
                                            ![s].nextDueOn = DayAt(rules[s], n)]
            BY Generated, ZenonT(60)
          <5>2. /\ s \in Existing /\ rules[s] \in Rule /\ DueBy(rules[s], request[c].through)
            BY Generated
          <5>3. DayAt(rules[s], n) \in Int /\ rules[s].nextDueOn \in Int
            BY <5>2, DayAtIsDay DEF Rule
          <5>4. rules'[s].nextDueOn = DayAt(rules[s], n)
            BY <5>1, <5>2 DEF Rule, TypeOK
          <5>5. DayAt(rules[s], n) <= today
            BY <2>1, <4>1, <5>4 DEF BehindNext, DueBy
          <5> QED
            BY <2>2, <5>1, <5>2, <5>3, <5>5 DEF DueBy, Behind
        <4> QED
          BY <1>5, <3>3, <4>1, <4>2, <4>3
      <3> QED
        BY <3>2, <3>3
    <2>6. CASE request[c].through = today
      <3>1. r # s /\ Behind(r)
        BY <2>3, <2>4, <2>6
      <3>2. r \in lapsed => r \in lapsed'
        BY <2>1, <3>1
      <3>3. Promises(c, r) => PromisesNext(c, r)
        <4>1. request'[c] = q
          BY <2>1 DEF TypeOK
        <4>2. q.phase = request[c].phase /\ q.through = request[c].through
              /\ q.due = request[c].due \ {s}
          BY <2>1, <2>2 DEF Request, Idle
        <4> HIDE DEF q
        <4> QED
          BY <2>1, <3>1, <4>1, <4>2 DEF Promises, PromisesNext
      <3>4. \A d \in Clients \ {c} : Promises(d, r) => PromisesNext(d, r)
        BY <2>1, OthersPromise
      <3> QED
        BY <3>1, <3>2, <3>3, <3>4 DEF NoLostCatchUp, Covered
    <2> QED
      BY <2>5, <2>6
  <1>6. ASSUME NEW s \in Rules, EnsureLimit(c, s) \/ Cancel(c)
        PROVE  Covered(r)
    BY <1>6 DEF EnsureLimit, Cancel, Excuse, Covered, BehindNext, Behind, Existing
  <1> QED
    BY <1>1, <1>2, <1>3, <1>4, <1>5, <1>6 DEF Proceed

LEMMA CatchUpInductive == TypeOK /\ NoLostCatchUp /\ [Next]_vars => NoLostCatchUp'
  <1> SUFFICES ASSUME TypeOK, NoLostCatchUp, [Next]_vars,
                      NEW r \in Rules, BehindNext(r)
               PROVE  Covered(r)
    BY DEF NoLostCatchUp, Behind, BehindNext, Covered, Promises, PromisesNext
  <1>1. ASSUME UNCHANGED <<today, request, lapsed>>, Behind(r)
        PROVE  Covered(r)
    BY <1>1 DEF NoLostCatchUp, Promises, PromisesNext, Covered
  <1>2. ASSUME NEW s \in Rules, ArchiveRecurringRule(s)
        PROVE  Covered(r)
    <2>1. Behind(r)
      <3>1. Existing' = Existing /\ today' = today
        BY <1>2 DEF ArchiveRecurringRule, Existing, TypeOK
      <3>2. r # s => rules'[r] = rules[r]
        BY <1>2, <3>1 DEF ArchiveRecurringRule, TypeOK, BehindNext
      <3>3. rules[s] \in Rule
        BY <1>2 DEF ArchiveRecurringRule, TypeOK
      <3>4. rules'[s].archived
        BY <1>2, <3>3 DEF ArchiveRecurringRule, TypeOK, Rule
      <3> QED
        BY <3>1, <3>2, <3>4 DEF BehindNext, Behind, DueBy
    <2> QED
      BY <1>1, <1>2, <2>1 DEF ArchiveRecurringRule
  <1>3. ASSUME DateChanges
        PROVE  Covered(r)
    BY <1>3 DEF DateChanges, Covered, BehindNext, Existing
  <1>4. ASSUME UNCHANGED <<today, rules, request, lapsed>>
        PROVE  Covered(r)
    BY <1>1, <1>4 DEF BehindNext, Behind, Existing
  <1>5. ASSUME NEW o \in occurrences,
               SkipOccurrence(o) \/ \E id, category : ConfirmOccurrence(o, id, category)
        PROVE  Covered(r)
    BY <1>4, <1>5 DEF SkipOccurrence, ConfirmOccurrence
  <1>6. ASSUME NEW category \in Categories, ArchiveCategory(category) \/ RestoreCategory(category)
        PROVE  Covered(r)
    BY <1>4, <1>6 DEF ArchiveCategory, RestoreCategory
  <1>7. UNCHANGED vars => Covered(r)
    BY <1>4 DEF vars
  <1> QED
    BY <1>2, <1>3, <1>5, <1>6, <1>7, CatchUpOfRequests DEF Next

\* A rule that is due is on its way to its occurrences, or a request that was
\* to generate them failed or the date changed.
THEOREM CatchUpIsPromised == Spec => []NoLostCatchUp
  <1>1. Init => NoLostCatchUp
    BY DEF Init, NoLostCatchUp, Behind, Existing
  <1> QED
    BY <1>1, TypeCorrect, CatchUpInductive, PTL DEF Spec

-----------------------------------------------------------------------------
(* What a step may never do *)

\* Only a rule that is enabled and not archived at that moment gains occurrences.
THEOREM DormantRulesRest == Spec => DormantRulesGenerateNothing
  <1>1. ASSUME TypeOK, [Next]_vars
        PROVE  ActiveRulesGain
    <2>1. CASE RulesOnly
      BY <2>1 DEF RulesOnly, Recorded, ActiveRulesGain
    <2>2. ASSUME NEW c \in Clients, NEW r \in Rules, EnsureGenerate(c, r)
          PROVE  ActiveRulesGain
      <3>1. r \in Existing /\ rules[r].enabled /\ ~rules[r].archived
        BY <1>1, <2>2, Generated DEF DueBy
      <3>2. PICK n \in Nat : occurrences' = occurrences \cup Inserted(r, rules[r], n)
        BY <1>1, <2>2, Generated
      <3> QED
        BY <3>1, <3>2, InsertedSnapshots DEF Recorded, ActiveRulesGain
    <2>3. ASSUME NEW o \in occurrences, NEW status, Transition(o, status)
          PROVE  ActiveRulesGain
      <3>1. PICK q : /\ occurrences' = (occurrences \ {o}) \cup {q}
                     /\ q.rule = o.rule /\ q.scheduledOn = o.scheduledOn
        BY <2>3, <1>1, Transitions
      <3> QED
        BY <3>1 DEF Recorded, ActiveRulesGain
    <2> QED
      BY <1>1, <2>1, <2>2, <2>3, Effects DEF SkipOccurrence, ConfirmOccurrence
  <1>2. TypeOK /\ [Next]_vars => [ActiveRulesGain]_occurrences
    BY <1>1
  <1> QED
    BY <1>2, TypeCorrect, PTL DEF Spec, DormantRulesGenerateNothing

\* An occurrence keeps what it recorded and, once settled, its status.
THEOREM SnapshotsStay == Spec => SnapshotsAreFrozen
  <1>1. ASSUME TypeOK, [Next]_vars
        PROVE  OccurrencesStay
    <2>1. CASE RulesOnly
      BY <2>1 DEF RulesOnly, OccurrencesStay
    <2>2. ASSUME NEW c \in Clients, NEW r \in Rules, EnsureGenerate(c, r)
          PROVE  OccurrencesStay
      BY <1>1, <2>2, Generated DEF OccurrencesStay
    <2>3. ASSUME NEW o \in occurrences, o.status = "pending",
                 NEW status \in {"confirmed", "skipped"}, Transition(o, status)
          PROVE  OccurrencesStay
      BY <2>3 DEF Transition, OccurrencesStay
    <2> QED
      BY <1>1, <2>1, <2>2, <2>3, Effects DEF SkipOccurrence, ConfirmOccurrence
  <1>2. TypeOK /\ [Next]_vars => [OccurrencesStay]_occurrences
    BY <1>1
  <1> QED
    BY <1>2, TypeCorrect, PTL DEF Spec, SnapshotsAreFrozen
=============================================================================
