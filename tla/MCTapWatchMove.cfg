\* An address re-appears under another tap name.
CONSTANTS
    Tap = {"t1", "t2"}
    NoName = ""
    Ip = {"A", "A6", "A7", "B", "B6", "S"}
    Owns <- Moving
    Static = {}
    MapCap = 4
    Stops = FALSE
    MaxChurn = 4
    MaxFaults = 0
SPECIFICATION Spec
INVARIANT AttachedRegistered
CHECK_DEADLOCK FALSE
