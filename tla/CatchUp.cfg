CONSTANTS
    Clients = {c1, c2}
    Rules = {r1}
    Schedules <- MCPastSchedule
    Templates = {t1}
    food = food
    rent = rent
    pay = pay
    Categories = {food}
    KindOf <- MCKindOf
    RequestIds = {}
    Days <- MCOneDay
    FirstDay <- MCLastDay
    SafetyLimit = 3
SPECIFICATION FairSpec
PROPERTIES
    PastStartCatchesUp
