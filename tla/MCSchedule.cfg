CONSTANTS
    Anchors <- MCAnchors
    Intervals = {1, 2, 12}
    LastPage = 1500
SPECIFICATION CalendarSpec
INVARIANTS
    DueExactlyWhenCalendarSays
CHECK_DEADLOCK FALSE
