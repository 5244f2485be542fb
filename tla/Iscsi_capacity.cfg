CONSTANTS
    Credentials = {"none"}
    DriveLength = 2
    SCSICMD_MAX_RETRIES = 1
    CapacityInData = TRUE
    SplitRedirect = FALSE
    MaxCommands = 1
    MaxRedirects = 0
    MaxNops = 0
SPECIFICATION IscsiSpec
INVARIANT CommandsCarried
CHECK_DEADLOCK FALSE
