----------------------------- MODULE MCSchedule -----------------------------
(***************************************************************************)
(* Anchors for Calendar: month ends, a leap day, the end of a year before  *)
(* one, a day before the century year 2100, and one like any other.        *)
(***************************************************************************)
EXTENDS Calendar

MCAnchors ==
    {D(2026, 1, 31), D(2028, 2, 29), D(2027, 12, 30), D(2099, 10, 31), D(2026, 8, 5)}

=============================================================================
