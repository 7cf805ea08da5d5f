\* Paths, hosts set to UTC.
CONSTANTS
    Id = {"r1", "r2", "r3"}
    NoId = "none"
    Obs <- MCObs
    Cap = 2
    MaxObs = 4
    MaxPosts = 4
    Zone = "utc"
SPECIFICATION Spec
INVARIANT PathInTimeOrder
