CONSTANTS
    Flags <- CommandLines
    Agents <- Responders
    Port <- Tap
    VidMod = 4096
    VniMod = 16777216
    Stag = 9
    MaxExt = 1

SPECIFICATION Spec
CHECK_DEADLOCK FALSE

INVARIANTS
    ReplyRecognised
    VlanPreserved
    DecisionsAsInFrames
    InterceptedIsAnswered
