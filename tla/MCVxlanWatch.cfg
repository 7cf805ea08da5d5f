\* Two ifindexes, used again by devices of other VNIs, a failing call, and a stop.
CONSTANTS
    Index = {1, 2}
    Vni = {7, 8}
    Host <- Machines
    Stops = TRUE
    MaxChurn = 2
    MaxFaults = 1
SPECIFICATION FairSpec
INVARIANTS NothingLeaks CoversDirections VniKept FollowsDevices ReturnsClean
PROPERTIES StopsWatching
CHECK_DEADLOCK FALSE
