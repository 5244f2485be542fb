CONSTANTS
    a = a
    b = b
    Timers <- MCTimers
    MIN_TIMEOUT = 7
    DEFAULT_MIN_TIMEOUT = 9
    DEFAULT_MAX_TIMEOUT = 30
    MinTimeout <- MCMinTimeout
    MaxTimeout <- MCMaxTimeout
    FixedTimeouts = {0, 8}
    Spinners <- SpinnerA
    TickStep = 16
    MaxUsed = 48
    MaxCount = 2
    MaxCalls = 4
SPECIFICATION PatientSpec
INVARIANTS ListExact RefsExact
PROPERTIES FloorKept RetriesEnd
CHECK_DEADLOCK FALSE
