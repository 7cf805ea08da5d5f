\* Two runs, two frames duplicated or reset, frames delayed, lost and reordered at will,
\* and a flow table that is emptied when a second flow is entered.
CONSTANTS
    Run = {"p", "q"}
    NoRun = "none"
    Scenario <- Pairs
    Isn <- Isns
    Mod = 16
    ClientIsn = 14
    MetaLen = 2
    LabelLen = 1
    FlowCap = 0
    KernelResets = TRUE
    MaxFaults = 2
SPECIFICATION FairSpec
INVARIANTS SequenceIntact AcksWhatComesNext
PROPERTIES ImplementsExchange RunEnds
CHECK_DEADLOCK FALSE
