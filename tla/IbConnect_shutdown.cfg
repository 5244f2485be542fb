CONSTANTS
    Gids = {g1}
    IB_NUM_CACHED_PATHS = 1
    MaxUsers = 0
SPECIFICATION IbSpec
INVARIANT ShutdownClean
CHECK_DEADLOCK FALSE
