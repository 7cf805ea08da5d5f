\* Two runs retained of three, two observations of each.
CONSTANTS
    Id = {"r1", "r2", "r3"}
    NoId = "none"
    Obs <- MCObs
    Cap = 2
    MaxObs = 2
    MaxPosts = 6
    Zone = "offset"
SPECIFICATION Spec
INVARIANTS OrderMatchesRuns Bounded RunsReflectPosts PathInTimeOrder
