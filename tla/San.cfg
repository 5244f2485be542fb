CONSTANTS
    Gids = {g1, g2, g3}
    IB_NUM_CACHED_PATHS = 2
    MaxUsers = 1
    Credentials = {"none", "forward", "mutual"}
    DriveLength = 2
    SCSICMD_MAX_RETRIES = 1
    CapacityInData = FALSE
    SplitRedirect = FALSE
    MaxCommands = 1
    MaxRedirects = 1
    MaxNops = 1
SPECIFICATION SanSpec
INVARIANTS OwnersExact  CommandsCarried 
PROPERTY DrivesAnswer
CHECK_DEADLOCK FALSE
