\* One supervisor whose children and devices come and go at any time.
SPECIFICATION FairSpec
CONSTANTS
    MaxRestarts <- Restarts
    RestartDelay <- Delay
INVARIANTS
    TypeOK
    GivenUpShowsError
PROPERTIES
    StatusFollowsTunnel
    TunLeavesHost
    NoRestartStorm
    StopEnds
CHECK_DEADLOCK FALSE
