CONSTANTS
    other = other
    bread = bread
    milk = milk
    own = own
    Books = {own, other}
    Entries = {bread, milk}
    Sessions = {s1}
    Clients = {c1, c2}
    Uploads <- MCUploads
    MaxFaults = 2
    Disconnects = TRUE
SPECIFICATION FairSpec
INVARIANTS
    OneDatabase
    ServedFromCurrentSchema
    NothingLost
    RecoversFromOneFailure
PROPERTIES
    KeepsTheVault
    RestoreGetsTheGate
    EveryoneIsServed
