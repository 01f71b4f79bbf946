CONSTANTS
    Tabs = {t1, t2}
    SessionIds = {s1, s2}
    CallIds = {k1, k2}
    MaxTokens = 3
    NoTab = NoTab
    NoSession = NoSession
SPECIFICATION SessionSpec
INVARIANTS
    SessionTypeOK
    NoSnapshotBehindLogin
    QuietTabCanWrite
PROPERTIES
    LoginIsKept
CONSTRAINT TwoOpenOnlyEarly
SYMMETRY Symmetry
CHECK_DEADLOCK FALSE
