CONSTANTS
    MaxJobs = 2
    FileLength = 2
    MaxRefusals = 1
    MaxReads = 2
    EarlyRefusals = FALSE
    FtpLength = 3
    FtpServerDies = FALSE
SPECIFICATION ClientsSpec
INVARIANTS
    RefsExact WaitHasSource  AnswersInStep
PROPERTIES
    NothingLeft RequestsEnd
CHECK_DEADLOCK FALSE
