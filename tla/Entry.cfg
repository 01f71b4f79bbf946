CONSTANTS
    Categories = {food, rent}
    Clients = {c1, c2}
    RequestIds = {q1, q2}
    Moments = {m1, m2}
    Forms <- MCForms
    Payloads <- MCPayloads
    AutomaticLocation = TRUE
    MaxActs = 5
SPECIFICATION EntrySpec
INVARIANTS
    ToldIsRecorded
    ConflictHasCause
    LocationsAreTheirOwn
SYMMETRY EntrySymmetry
