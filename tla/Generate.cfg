CONSTANTS
    Clients = {c1, c2}
    Rules = {r1}
    Schedules <- MCSchedules
    Templates = {t1}
    food = food
    rent = rent
    pay = pay
    Categories = {food}
    KindOf <- MCKindOf
    RequestIds = {}
    Days <- MCDays
    FirstDay <- MCFirstDay
    SafetyLimit = 2
SPECIFICATION Spec
INVARIANTS
    CursorHasNoGap
    OneOccurrencePerDay
    NoLostCatchUp
PROPERTIES
    DormantRulesGenerateNothing
SYMMETRY ClientSymmetry
