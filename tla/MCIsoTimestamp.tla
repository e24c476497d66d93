-------------------------- MODULE MCIsoTimestamp ---------------------------
(***************************************************************************)
(* Values of IsoTimestamp for TLC.  A day is two hours of two minutes of   *)
(* two seconds of two milliseconds, so that year 9999 is within its        *)
(* integers.                                                               *)
(***************************************************************************)
EXTENDS IsoTimestamp

MCMsPerDay == MsPerSecond * SecondsPerDay

\* The first year, a leap year, the one kind of century year and the other.
MCYears == {1970, 1972, 2000, 2001, 2100}

\* The days about the ends of February and of the year, and past LastYear.
MCDays ==
    {DaysBeforeYear(y) + d : y \in MCYears, d \in {0, 30, 31, 58, 59, 60, 334, 364, 365}}
      \cup {DaysBeforeYear(LastYear) + d : d \in {58, 59, 364, 365, 366, 800}}

\* The first and last millisecond of each of those days, and one day in full.
MCTimestamps ==
    UNION {{d * MCMsPerDay, (d + 1) * MCMsPerDay - 1} : d \in MCDays}
      \cup 0 .. MCMsPerDay

=============================================================================
