----------------------------- MODULE MCSDDSClock -----------------------------
EXTENDS SDDSClock

\* Years of two and three days.
McYearStart == <<0, 4, 10, 14>>
McZones == {-1, 0, 2}
=============================================================================
