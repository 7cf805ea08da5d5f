\* Taps come and go, calls fail, the agent stops; every address has one owner,
\* and local_ips has room, beside the static address, for three of their four.
CONSTANTS
    Tap = {"t1", "t2"}
    NoName = ""
    Ip = {"A", "A6", "A7", "B", "B6", "S"}
    Owns <- OneOwner
    Static = {"S"}
    MapCap = 4
    Stops = TRUE
    MaxChurn = 4
    MaxFaults = 1
SPECIFICATION FairSpec
INVARIANTS AttachedRegistered RegisteredAttached NoOrphans RegisteredIsServed
PROPERTIES Converges
CHECK_DEADLOCK FALSE
