CONSTANTS
    other = other
    bread = bread
    milk = milk
    own = own
    Books = {own, other}
    Entries = {bread, milk}
    Sessions = {s1}
    Clients = {c1}
    Uploads <- MCUploads
    MaxFaults = 0
    Disconnects = TRUE
SPECIFICATION Spec
INVARIANTS
    FailedRestoreKeepsData
