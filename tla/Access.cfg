CONSTANTS
    Clients = {c1, c2}
    Secrets = {p1, p2}
    SessionIds = {1, 2}
    NoCredential = NoCredential
    NoSecret = NoSecret
    Threshold = 2
    MaxDelay = 1
    ResetAfter = 1
    MaxVersion = 3
    MaxClock = 1
SPECIFICATION Spec
INVARIANTS
    HoldersKnowThePassword
    GuessesAreThrottled
PROPERTIES
    RefusedStaysRefused
    ReplacedKnowingly
SYMMETRY AccessSymmetry
CHECK_DEADLOCK FALSE
