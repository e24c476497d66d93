------------------------- MODULE IsoTimestampProofs -------------------------
(***************************************************************************)
(* Theorems about IsoTimestamp: the counting loops name the right day of   *)
(* the Gregorian calendar for every timestamp.                             *)
(***************************************************************************)
EXTENDS IsoTimestamp, TLAPS

-----------------------------------------------------------------------------
(* The calendar.                                                           *)

LEMMA YearStep ==
    ASSUME NEW y \in Nat, y >= FirstYear
    PROVE  DaysBeforeYear(y + 1) = DaysBeforeYear(y) + YearDays(y)
  BY DEF DaysBeforeYear, LeapYearsBefore, YearDays, IsLeap, FirstYear

LEMMA MonthStep ==
    ASSUME NEW y \in Nat, NEW m \in 1 .. 12
    PROVE  /\ MonthDays(y)[m] \in Nat
           /\ DaysBeforeMonth(y, m) \in Nat
           /\ DaysBeforeMonth(y, m + 1) = DaysBeforeMonth(y, m) + MonthDays(y)[m]
<1>1. m = 1 \/ m = 2 \/ m = 3 \/ m = 4 \/ m = 5 \/ m = 6
        \/ m = 7 \/ m = 8 \/ m = 9 \/ m = 10 \/ m = 11 \/ m = 12
  OBVIOUS
<1> IsLeap(y) \in BOOLEAN
  BY DEF IsLeap
<1> QED
  BY <1>1 DEF DaysBeforeMonth, MonthDays

LEMMA YearEnds ==
    ASSUME NEW y \in Nat
    PROVE  /\ DaysBeforeMonth(y, 1) = 0
           /\ DaysBeforeMonth(y, 13) = YearDays(y)
  BY DEF DaysBeforeMonth, YearDays

LEMMA YearDaysType ==
    ASSUME NEW y \in Nat
    PROVE  YearDays(y) \in Nat \ {0}
  BY DEF YearDays

LEMMA DaysType ==
    ASSUME NEW t \in Timestamps
    PROVE  TotalDays(t) \in Nat /\ SecsInDay(t) \in 0 .. (SecondsPerDay - 1)
<1>1. t \in Nat
  BY TimestampAssumption
<1>2. SecondsPerDay \in Nat \ {0}
  BY UnitAssumption DEF SecondsPerDay, SecondsPerHour
<1>3. Seconds(t) \in Nat
  BY <1>1, UnitAssumption DEF Seconds
<1> QED
  BY <1>2, <1>3 DEF TotalDays, SecsInDay

-----------------------------------------------------------------------------
(* Units of time.                                                          *)

LEMMA Division ==
    ASSUME NEW a \in Nat, NEW b \in Nat \ {0}
    PROVE  /\ a \div b \in Nat
           /\ a % b \in 0 .. (b - 1)
           /\ a % b = a - b * (a \div b)
           /\ b * (a \div b) \in Nat
<1>1. a \div b \in Nat
  OBVIOUS
<1>2. b * (a \div b) \in Nat
  BY <1>1
<1> QED
  BY <1>1, <1>2

LEMMA Products ==
    ASSUME NEW a \in Nat, NEW b \in Nat, NEW c \in Nat
    PROVE  /\ (a * b) * c = a * (b * c)
           /\ a * (b + c) = a * b + a * c
           /\ a * b = b * a
           /\ a * b \in Nat
  OBVIOUS

\* Less than b times c means fewer than c times b.
LEMMA QuotientBound ==
    ASSUME NEW b \in Nat \ {0}, NEW c \in Nat \ {0}, NEW a \in 0 .. (b * c - 1)
    PROVE  a \div b \in 0 .. (c - 1)
<1>1. a \div b \in Nat /\ b * (a \div b) <= a /\ b * (a \div b) \in Nat
  BY Division
<1>2. SUFFICES ASSUME a \div b >= c
               PROVE  FALSE
  BY <1>1
<1>3. b * (a \div b) >= b * c
  BY <1>1, <1>2
<1> QED
  BY <1>1, <1>3

\* The second of the minute is the same in the hour as in the day.
LEMMA RemainderOfRemainder ==
    ASSUME NEW a \in Nat, NEW b \in Nat \ {0}, NEW c \in Nat \ {0}
    PROVE  (a % (b * c)) % b = a % b
<1> DEFINE p == b * c
           q == a \div p
           r == a % p
           k == r \div b
           e == r % b
<1>1. p \in Nat \ {0}
  OBVIOUS
<1> HIDE DEF p
<1>2. q \in Nat /\ r \in Nat /\ r = a - p * q
  <2>1. q \in Nat /\ r \in 0 .. (p - 1) /\ r = a - p * q
    BY <1>1, Division, Zenon
  <2> QED
    BY <1>1, <2>1
<1>3. k \in Nat /\ e \in 0 .. (b - 1) /\ e = r - b * k
  BY <1>2, Division
<1> HIDE DEF q, r, k, e
<1>4. c * q + k \in Nat
  BY <1>2, <1>3
<1>5. a - e = b * (c * q + k)
  BY <1>2, <1>3 DEF p
<1>6. a = b * (c * q + k) + e
  BY <1>3, <1>4, <1>5
<1>7. \A n \in Nat, s \in 0 .. (b - 1) : (b * n + s) % b = s
  OBVIOUS
<1>8. (b * (c * q + k) + e) % b = e
  BY <1>3, <1>4, <1>7
<1>9. a % b = e
  BY ONLY <1>6, <1>8, Zenon
<1> QED
  BY <1>9 DEF e, r, p

LEMMA FormatsTheTimeOfDay ==
    ASSUME NEW t \in Timestamps, NEW y \in Nat, NEW m \in Nat, NEW d \in Nat
    PROVE  LET f == Format(t, y, m, d)
           IN  /\ f \in Text
               /\ IsTimeOfDay(f.hour, f.minute, f.second)
               /\ f.hour * SecondsPerHour + f.minute * SecondsPerMinute + f.second
                    = SecsInDay(t)
<1> DEFINE s == SecsInDay(t)
           w == s % SecondsPerHour
           h == s \div SecondsPerHour
           n == w \div SecondsPerMinute
           e == s % SecondsPerMinute
<1>1. s \in 0 .. (SecondsPerHour * HoursPerDay - 1)
  BY DaysType DEF SecondsPerDay
<1>2. SecondsPerHour \in Nat \ {0}
  BY UnitAssumption DEF SecondsPerHour
<1> HIDE DEF s
<1>3. h \in 0 .. (HoursPerDay - 1)
  BY <1>1, <1>2, QuotientBound, UnitAssumption
<1>4. w \in 0 .. (SecondsPerHour - 1) /\ w = s - SecondsPerHour * h
  <2>1. s \in Nat
    BY <1>1
  <2> QED
    BY <1>2, <2>1, Division, Zenon
<1>5. n \in 0 .. (MinutesPerHour - 1)
  <2> HIDE DEF w
  <2>1. w \in 0 .. (SecondsPerMinute * MinutesPerHour - 1)
    BY <1>4 DEF SecondsPerHour
  <2> QED
    BY <2>1, QuotientBound, UnitAssumption
<1>6. w % SecondsPerMinute = e
  <2>1. \A a \in Nat : (a % (SecondsPerMinute * MinutesPerHour)) % SecondsPerMinute
                          = a % SecondsPerMinute
    BY RemainderOfRemainder, UnitAssumption
  <2>2. s \in Nat
    BY <1>1
  <2> QED
    BY <2>1, <2>2, Zenon DEF SecondsPerHour
<1>7. /\ w % SecondsPerMinute = w - SecondsPerMinute * n
      /\ w % SecondsPerMinute \in 0 .. (SecondsPerMinute - 1)
  <2> HIDE DEF w
  <2>1. w \in Nat
    BY <1>2, <1>4
  <2> QED
    BY <2>1, Division, UnitAssumption, Zenon
<1>8. Format(t, y, m, d) =
        [year |-> y, month |-> m, day |-> d, hour |-> h, minute |-> n, second |-> e]
  BY DEF Format, s
<1>9. e \in 0 .. (SecondsPerMinute - 1)
  BY <1>6, <1>7
<1>10. h * SecondsPerHour + n * SecondsPerMinute + e = s
  <2>1. e = w - SecondsPerMinute * n
    BY <1>6, <1>7
  <2>2. h \in Nat /\ n \in Nat /\ e \in Nat /\ s \in Nat /\ w \in Nat
    BY <1>1, <1>2, <1>3, <1>4, <1>5, <1>9, UnitAssumption
  <2> HIDE DEF h, n, e, w
  <2>3. h * SecondsPerHour = SecondsPerHour * h /\ h * SecondsPerHour \in Nat
    BY <1>2, <2>2, Products
  <2>4. n * SecondsPerMinute = SecondsPerMinute * n /\ n * SecondsPerMinute \in Nat
    BY <2>2, Products, UnitAssumption
  <2> QED
    BY <1>4, <2>1, <2>2, <2>3, <2>4
<1> HIDE DEF h, n, e
<1>11. Format(t, y, m, d) \in Text
  BY <1>3, <1>5, <1>8, <1>9, UnitAssumption DEF Text
<1> QED
  BY <1>3, <1>5, <1>8, <1>9, <1>10, <1>11 DEF IsTimeOfDay, s

-----------------------------------------------------------------------------
(* The inductive invariant: what is counted and what is left make up the   *)
(* days of the timestamp, and what is left fits in the year found.         *)

Counted ==
    /\ pc = "start" => year = FirstYear /\ month = 1 /\ text = NoText
    /\ pc \in {"years", "months"} => ms # 0
    /\ pc = "years" =>
         /\ year \in FirstYear .. LastYear /\ month = 1 /\ text = NoText
         /\ DaysBeforeYear(year) + days = TotalDays(ms)
    /\ pc = "months" =>
         /\ year \in FirstYear .. LastYear /\ month \in 1 .. 12 /\ text = NoText
         /\ DaysBeforeYear(year) + DaysBeforeMonth(year, month) + days = TotalDays(ms)
         /\ DaysBeforeMonth(year, month) + days < YearDays(year)

OnlyOnceDone == text # NoText => pc = "done" /\ ms # 0

IInv ==
    /\ TypeOK
    /\ Counted
    /\ OnlyOnceDone
    /\ NamesTheDay
    /\ NamesTheTimeOfDay
    /\ NoneOutsideTheRange

LEMMA YearBounds ==
    ASSUME NEW y \in FirstYear .. LastYear
    PROVE  /\ y \in Nat
           /\ DaysBeforeYear(y) \in Nat
           /\ DaysBeforeYear(y) + YearDays(y) <= DaysBeforeYear(LastYear + 1)
  BY DEF DaysBeforeYear, LeapYearsBefore, YearDays, IsLeap, FirstYear, LastYear

LEMMA InitIsCounted ==
    Init => IInv
  BY DEF Init, IInv, TypeOK, Counted, OnlyOnceDone, NamesTheDay, NamesTheTimeOfDay,
     NoneOutsideTheRange, FirstYear

LEMMA NextIsCounted ==
    IInv /\ [Next]_vars => IInv'
<1> SUFFICES ASSUME IInv, [Next]_vars
             PROVE  IInv'
  OBVIOUS
<1> USE DEF IInv, TypeOK
<1>1. CASE NeverWritten
  BY <1>1 DEF NeverWritten, Counted, OnlyOnceDone, NamesTheDay, NamesTheTimeOfDay,
     NoneOutsideTheRange
<1>2. CASE SplitSeconds
  <2>1. TotalDays(ms) \in Nat
    BY DaysType
  <2>2. DaysBeforeYear(FirstYear) = 0
    BY DEF DaysBeforeYear, LeapYearsBefore, FirstYear
  <2> QED
    BY <1>2, <2>1, <2>2 DEF SplitSeconds, Counted, OnlyOnceDone, NamesTheDay,
       NamesTheTimeOfDay, NoneOutsideTheRange, FirstYear, LastYear
<1>3. CASE NextYear
  <2>1. /\ pc = "years" /\ text = NoText /\ text' = text /\ ms' = ms /\ month' = month
        /\ month = 1 /\ year' = year + 1 /\ days' = days - YearDays(year)
        /\ pc' = IF year + 1 > LastYear THEN "done" ELSE "years"
        /\ year \in FirstYear .. LastYear /\ days >= YearDays(year)
        /\ DaysBeforeYear(year) + days = TotalDays(ms)
        /\ ms # 0
    BY <1>3 DEF NextYear, Counted
  <2>2. DaysBeforeYear(year + 1) = DaysBeforeYear(year) + YearDays(year)
    BY <2>1, YearStep DEF FirstYear
  <2>3. YearDays(year) \in Nat /\ DaysBeforeYear(year) \in Nat /\ TotalDays(ms) \in Nat
    BY <2>1, YearDaysType, YearBounds, DaysType
  <2>4. TypeOK'
    BY <2>1, <2>3 DEF FirstYear, LastYear
  <2>5. Counted'
    <3>1. DaysBeforeYear(year') + days' = TotalDays(ms')
      BY <2>1, <2>2, <2>3
    <3>2. pc' = "years" => year' \in FirstYear .. LastYear
      <4>1. FirstYear \in Nat /\ LastYear \in Nat
        BY DEF FirstYear, LastYear
      <4>2. /\ year \in FirstYear .. LastYear /\ year' = year + 1
            /\ pc' = "years" => ~ (year + 1 > LastYear)
        BY <2>1
      <4> QED
        BY <4>1, <4>2
    <3>3. pc' \in {"years", "done"} /\ ms' # 0 /\ month' = 1 /\ text' = NoText
      BY <2>1
    <3> QED
      BY <3>1, <3>2, <3>3 DEF Counted
  <2>6. NoneOutsideTheRange'
    BY <2>1, <2>2, <2>3 DEF NoneOutsideTheRange, FirstYear, LastYear
  <2> QED
    BY <2>1, <2>4, <2>5, <2>6 DEF OnlyOnceDone, NamesTheDay, NamesTheTimeOfDay
<1>4. CASE YearFound
  <2>1. year \in FirstYear .. LastYear
    BY <1>4 DEF YearFound, Counted
  <2>2. DaysBeforeMonth(year, 1) = 0 /\ DaysBeforeYear(year) \in Nat
    BY <2>1, YearEnds, YearBounds
  <2> QED
    BY <1>4, <2>1, <2>2 DEF YearFound, Counted, OnlyOnceDone, NamesTheDay,
       NamesTheTimeOfDay, NoneOutsideTheRange
<1>5. CASE NextMonth
  <2>1. year \in Nat /\ year \in FirstYear .. LastYear /\ month \in 1 .. 12
    BY <1>5 DEF NextMonth, Counted
  <2>2. /\ MonthDays(year)[month] \in Nat
        /\ DaysBeforeMonth(year, month) \in Nat
        /\ DaysBeforeMonth(year, month + 1) =
             DaysBeforeMonth(year, month) + MonthDays(year)[month]
    BY <2>1, MonthStep
  <2>3. month # 12
    BY <1>5, <2>1, <2>2, YearEnds DEF NextMonth, Counted
  <2>4. DaysBeforeYear(year) \in Nat
    BY <2>1, YearBounds
  <2> QED
    BY <1>5, <2>1, <2>2, <2>3, <2>4 DEF NextMonth, Counted, OnlyOnceDone, NamesTheDay,
       NamesTheTimeOfDay, NoneOutsideTheRange
<1>6. CASE MonthFound
  <2>1. /\ year \in Nat /\ year \in FirstYear .. LastYear /\ month \in 1 .. 12
        /\ days < MonthDays(year)[month]
        /\ DaysBeforeYear(year) + DaysBeforeMonth(year, month) + days = TotalDays(ms)
        /\ DaysBeforeMonth(year, month) + days < YearDays(year)
        /\ ms # 0
    BY <1>6 DEF MonthFound, Counted
  <2>2. /\ MonthDays(year)[month] \in Nat
        /\ DaysBeforeMonth(year, month) \in Nat
        /\ DaysBeforeMonth(year, month + 1) =
             DaysBeforeMonth(year, month) + MonthDays(year)[month]
    BY <2>1, MonthStep
  <2>3. /\ DaysBeforeYear(year) \in Nat
        /\ DaysBeforeYear(year) + YearDays(year) <= DaysBeforeYear(LastYear + 1)
    BY <2>1, YearBounds
  <2>4. TotalDays(ms) < DaysBeforeYear(LastYear + 1)
    <3>1. DaysBeforeYear(LastYear + 1) \in Nat
      BY DEF DaysBeforeYear, LeapYearsBefore, FirstYear, LastYear
    <3>2. YearDays(year) \in Nat /\ TotalDays(ms) \in Nat
      BY <2>1, YearDaysType, DaysType
    <3> QED
      BY <2>1, <2>2, <2>3, <3>1, <3>2
  <2> DEFINE f == Format(ms, year, month, days + 1)
  <2>5. /\ f.year = year /\ f.month = month /\ f.day = days + 1
        /\ f \in Text
        /\ IsTimeOfDay(f.hour, f.minute, f.second)
        /\ f.hour * SecondsPerHour + f.minute * SecondsPerMinute + f.second
             = SecsInDay(ms)
    BY <2>1, FormatsTheTimeOfDay DEF Format
  <2>6. f # NoText
    BY <2>5, NoTextAssumption
  <2>7. IsDate(year, month, days + 1)
    BY <2>1, <2>2 DEF IsDate
  <2>8. DayNumber(year, month, days + 1) = TotalDays(ms)
    BY <2>1, <2>2, <2>3 DEF DayNumber
  <2>9. /\ text' = f /\ pc' = "done"
        /\ ms' = ms /\ days' = days /\ year' = year /\ month' = month
    BY <1>6 DEF MonthFound
  <2> HIDE DEF f
  <2>10. NamesTheDay'
    BY <2>5, <2>7, <2>8, <2>9 DEF NamesTheDay
  <2>11. NamesTheTimeOfDay'
    BY <2>5, <2>9 DEF NamesTheTimeOfDay
  <2>12. NoneOutsideTheRange'
    <3>1. TotalDays(ms) \in Nat /\ DaysBeforeYear(LastYear + 1) \in Nat
      BY DaysType DEF DaysBeforeYear, LeapYearsBefore, FirstYear, LastYear
    <3>2. ~ (TotalDays(ms) >= DaysBeforeYear(LastYear + 1))
      BY <2>4, <3>1
    <3> QED
      BY <2>1, <2>6, <2>9, <3>2 DEF NoneOutsideTheRange
  <2> QED
    BY <2>1, <2>5, <2>6, <2>9, <2>10, <2>11, <2>12 DEF Counted, OnlyOnceDone
<1>7. CASE UNCHANGED vars
  BY <1>7 DEF vars, Counted, OnlyOnceDone, NamesTheDay, NamesTheTimeOfDay,
     NoneOutsideTheRange
<1> QED
  BY <1>1, <1>2, <1>3, <1>4, <1>5, <1>6, <1>7 DEF Next

-----------------------------------------------------------------------------

\* The loops stay within their ranges; no month past the twelfth is read.
THEOREM TimestampTypes == Spec => []TypeOK
<1>1. Init => IInv
  BY InitIsCounted
<1>2. IInv /\ [Next]_vars => IInv'
  BY NextIsCounted
<1>3. IInv => TypeOK
  BY DEF IInv
<1> QED
  BY <1>1, <1>2, <1>3, PTL DEF Spec

\* Every date given for a timestamp is the date of that instant.
THEOREM DatesAreCorrect == Spec => []NamesTheDay
<1>1. Init => IInv
  BY InitIsCounted
<1>2. IInv /\ [Next]_vars => IInv'
  BY NextIsCounted
<1>3. IInv => NamesTheDay
  BY DEF IInv
<1> QED
  BY <1>1, <1>2, <1>3, PTL DEF Spec

\* The hour, minute and second of a text lie within their ranges and add up to
\* what the instant has beyond its whole days.
THEOREM TimesOfDayAreCorrect == Spec => []NamesTheTimeOfDay
<1>1. Init => IInv
  BY InitIsCounted
<1>2. IInv /\ [Next]_vars => IInv'
  BY NextIsCounted
<1>3. IInv => NamesTheTimeOfDay
  BY DEF IInv
<1> QED
  BY <1>1, <1>2, <1>3, PTL DEF Spec

\* Every timestamp up to the end of LastYear, other than zero, has a date.
THEOREM RangeIsComplete == Spec => []NoneOutsideTheRange
<1>1. Init => IInv
  BY InitIsCounted
<1>2. IInv /\ [Next]_vars => IInv'
  BY NextIsCounted
<1>3. IInv => NoneOutsideTheRange
  BY DEF IInv
<1> QED
  BY <1>1, <1>2, <1>3, PTL DEF Spec

=============================================================================
