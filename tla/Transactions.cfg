CONSTANTS
    food = food
    rent = rent
    Categories = {food, rent}
    Clients = {c1, c2}
    RequestIds = {q1}
    now = now
    Moments = {now}
    Payloads <- MCPayloads
SPECIFICATION FairSpec
INVARIANTS
    AnswersStand
    LocationShape
    CompletedIsTracked
PROPERTIES
    DeletedStaysAsItIs
    SettledLocationStays
    PendingLocationResolves
