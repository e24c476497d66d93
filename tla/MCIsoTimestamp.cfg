SPECIFICATION Spec
CONSTANTS
    Timestamps <- MCTimestamps
    MsPerSecond = 2
    SecondsPerMinute = 2
    MinutesPerHour = 2
    HoursPerDay = 2
    NoText = NoText
INVARIANTS
    TypeOK
    NamesTheDay
    NamesTheTimeOfDay
    NoneOutsideTheRange
PROPERTY Answers
CHECK_DEADLOCK FALSE
