--------------------------- MODULE IsoTimestamp ----------------------------
(***************************************************************************)
(* The ledger's millisecond timestamps as the calendar dates that document *)
(* metadata carry: timestamp_to_iso and format_iso8601 of                  *)
(* api/resolution.rs, which count years and months off a number of days.   *)
(***************************************************************************)
EXTENDS Integers, Sequences

CONSTANTS
    Timestamps,        \* the ledger timestamps to convert, in milliseconds
    MsPerSecond,       \* 1000 in the code
    SecondsPerMinute,  \* 60
    MinutesPerHour,    \* 60
    HoursPerDay,       \* 24
    NoText             \* the code's None

SecondsPerHour == SecondsPerMinute * MinutesPerHour
SecondsPerDay == SecondsPerHour * HoursPerDay

ASSUME TimestampAssumption == Timestamps \subseteq Nat
ASSUME UnitAssumption ==
    /\ MsPerSecond \in Nat \ {0}
    /\ SecondsPerMinute \in Nat \ {0}
    /\ MinutesPerHour \in Nat \ {0}
    /\ HoursPerDay \in Nat \ {0}

FirstYear == 1970
LastYear == 9999

Text == [year : Int, month : Int, day : Int, hour : Int, minute : Int, second : Int]

ASSUME NoTextAssumption == NoText \notin Text

VARIABLES
    ms,      \* the timestamp being converted
    pc,      \* where the conversion is
    days,    \* days not counted off yet
    year,
    month,   \* counted from one; the code counts from zero
    text     \* the answer

vars == <<ms, pc, days, year, month, text>>

\* Faulty variant: every fourth year.
IsLeapJulian(y) == y % 4 = 0

IsLeap(y) == (y % 4 = 0 /\ y % 100 # 0) \/ y % 400 = 0

YearDays(y) == IF IsLeap(y) THEN 366 ELSE 365

MonthDays(y) ==
    <<31, IF IsLeap(y) THEN 29 ELSE 28, 31, 30, 31, 30, 31, 31, 30, 31, 30, 31>>

Seconds(t) == t \div MsPerSecond

TotalDays(t) == Seconds(t) \div SecondsPerDay

SecsInDay(t) == Seconds(t) % SecondsPerDay

\* Faulty variant: minutes are taken out of the day instead of the hour.
FormatMinuteOfDay(t, y, m, d) ==
    [year |-> y, month |-> m, day |-> d,
     hour |-> SecsInDay(t) \div SecondsPerHour,
     minute |-> SecsInDay(t) \div SecondsPerMinute,
     second |-> SecsInDay(t) % SecondsPerMinute]

\* What format! writes; its zero padding is left out.
Format(t, y, m, d) ==
    [year |-> y, month |-> m, day |-> d,
     hour |-> SecsInDay(t) \div SecondsPerHour,
     minute |-> (SecsInDay(t) % SecondsPerHour) \div SecondsPerMinute,
     second |-> SecsInDay(t) % SecondsPerMinute]

(***************************************************************************)
(* The conversion, one step per turn of a loop.                            *)
(***************************************************************************)
Init ==
    /\ ms \in Timestamps
    /\ pc = "start"
    /\ days = 0
    /\ year = FirstYear
    /\ month = 1
    /\ text = NoText

\* A timestamp of zero is a cell that was never written.
NeverWritten ==
    /\ pc = "start" /\ ms = 0
    /\ pc' = "done"
    /\ UNCHANGED <<ms, days, year, month, text>>

SplitSeconds ==
    /\ pc = "start" /\ ms # 0
    /\ pc' = "years"
    /\ days' = TotalDays(ms)
    /\ UNCHANGED <<ms, year, month, text>>

\* Faulty variant: the last year is compared before it is counted.
NextYearLate ==
    /\ pc = "years" /\ days >= YearDays(year)
    /\ days' = days - YearDays(year)
    /\ year' = year + 1
    /\ pc' = IF year > LastYear THEN "done" ELSE "years"
    /\ UNCHANGED <<ms, month, text>>

\* Faulty variant: the loop does not advance.
NextYearStuck ==
    /\ pc = "years" /\ days >= YearDays(year)
    /\ pc' = IF year + 1 > LastYear THEN "done" ELSE "years"
    /\ UNCHANGED <<ms, days, year, month, text>>

NextYear ==
    /\ pc = "years" /\ days >= YearDays(year)
    /\ days' = days - YearDays(year)
    /\ year' = year + 1
    /\ pc' = IF year + 1 > LastYear THEN "done" ELSE "years"
    /\ UNCHANGED <<ms, month, text>>

YearFound ==
    /\ pc = "years" /\ days < YearDays(year)
    /\ pc' = "months"
    /\ UNCHANGED <<ms, days, year, month, text>>

\* Faulty variant: takes the days left for a day of the month.
NextMonthOffByOne ==
    /\ pc = "months" /\ month <= 12
    /\ days + 1 >= MonthDays(year)[month]
    /\ days' = days - MonthDays(year)[month]
    /\ month' = month + 1
    /\ UNCHANGED <<ms, pc, year, text>>

NextMonth ==
    /\ pc = "months" /\ month <= 12
    /\ days >= MonthDays(year)[month]
    /\ days' = days - MonthDays(year)[month]
    /\ month' = month + 1
    /\ UNCHANGED <<ms, pc, year, text>>

MonthFound ==
    /\ pc = "months"
    /\ month <= 12 => days < MonthDays(year)[month]
    /\ text' = Format(ms, year, month, days + 1)
    /\ pc' = "done"
    /\ UNCHANGED <<ms, days, year, month>>

Next ==
    \/ NeverWritten \/ SplitSeconds
    \/ NextYear \/ YearFound
    \/ NextMonth \/ MonthFound

Spec == Init /\ [][Next]_vars /\ WF_vars(Next)

(***************************************************************************)
(* The Gregorian calendar, by arithmetic and not by counting.              *)
(***************************************************************************)
LeapYearsBefore(y) == (y - 1) \div 4 - (y - 1) \div 100 + (y - 1) \div 400

DaysBeforeYear(y) ==
    365 * (y - FirstYear) + LeapYearsBefore(y) - LeapYearsBefore(FirstYear)

DaysBeforeMonth(y, m) ==
    <<0, 31, 59, 90, 120, 151, 181, 212, 243, 273, 304, 334, 365>>[m]
      + IF m > 2 /\ IsLeap(y) THEN 1 ELSE 0

\* A date of the calendar: the day exists in its month.
IsDate(y, m, d) ==
    /\ y \in FirstYear .. LastYear
    /\ m \in 1 .. 12
    /\ d >= 1
    /\ DaysBeforeMonth(y, m) + d <= DaysBeforeMonth(y, m + 1)

DayNumber(y, m, d) == DaysBeforeYear(y) + DaysBeforeMonth(y, m) + d - 1

IsTimeOfDay(h, m, s) ==
    /\ h \in 0 .. (HoursPerDay - 1)
    /\ m \in 0 .. (MinutesPerHour - 1)
    /\ s \in 0 .. (SecondsPerMinute - 1)

TypeOK ==
    /\ ms \in Timestamps
    /\ pc \in {"start", "years", "months", "done"}
    /\ days \in Nat
    /\ year \in Nat
    /\ month \in 1 .. 13
    /\ text \in Text \cup {NoText}

\* The text names a day that exists and that many days after the epoch, over
\* leap years and century years alike: what the two loops of format_iso8601
\* count off is the calendar's.
NamesTheDay ==
    text # NoText =>
        /\ IsDate(text.year, text.month, text.day)
        /\ DayNumber(text.year, text.month, text.day) = TotalDays(ms)

\* Hour, minute and second are each in range and together the second of the
\* day that format_iso8601 split off.
NamesTheTimeOfDay ==
    text # NoText =>
        /\ IsTimeOfDay(text.hour, text.minute, text.second)
        /\ text.hour * SecondsPerHour + text.minute * SecondsPerMinute + text.second
             = SecsInDay(ms)

\* A conversion gives no date for exactly two reasons: the cell was never
\* written, or the date is past the range that format_iso8601 documents.
NoneOutsideTheRange ==
    pc = "done" =>
        (text = NoText <=> ms = 0 \/ TotalDays(ms) >= DaysBeforeYear(LastYear + 1))

\* The loops end, for a timestamp of any size.
Answers == <>(pc = "done")

=============================================================================
