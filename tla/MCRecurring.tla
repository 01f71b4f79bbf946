----------------------------- MODULE MCRecurring ----------------------------
(***************************************************************************)
(* Instances of Recurring for TLC: schedules around a month end, and the   *)
(* few days on which they fall due.                                        *)
(***************************************************************************)
EXTENDS Recurring, TLC

D(y, m, d) == [year |-> y, month |-> m, day |-> d]

Monthly == [startOn |-> D(2026, 1, 31), frequency |-> "monthly", interval |-> 1]
Earlier == [startOn |-> D(2025, 12, 31), frequency |-> "monthly", interval |-> 1]

MCSchedules == {Monthly, Earlier}

MCOneSchedule == {Monthly}
MCPastSchedule == {Earlier}

Jan31 == DayOf(D(2026, 1, 31))
Feb28 == DayOf(D(2026, 2, 28))
Mar31 == DayOf(D(2026, 3, 31))

MCDays == {Jan31, Feb28}
MCFirstDay == Jan31

\* One day on which the earlier schedule has three days to catch up with.
MCLastDay == Feb28
MCOneDay == {Feb28}

CONSTANTS food, rent, pay

MCKindOf == [c \in Categories |-> IF c = pay THEN "income" ELSE "expense"]

ClientSymmetry == Permutations(Clients)
=============================================================================
