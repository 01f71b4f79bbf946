CONSTANTS
    Clients = {c1}
    Rules = {r1}
    Schedules <- MCOneSchedule
    Templates = {t1}
    food = food
    rent = rent
    pay = pay
    Categories = {food, rent, pay}
    KindOf <- MCKindOf
    RequestIds = {q1}
    Days <- MCDays
    FirstDay <- MCFirstDay
    SafetyLimit = 2
SPECIFICATION Spec
INVARIANTS
    ConfirmedExactlyWhenPosted
PROPERTIES
    SnapshotsAreFrozen
    KeepsTheBook
