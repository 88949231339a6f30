SPECIFICATION FairSpec
CONSTANTS
    Tracks <- MCTracks
    Kind <- MCKind
    Chans <- MCChans
    Outs = {"o1", "o2"}
    DefaultOuts = {"o1"}
    MaxFaults = 3
    MaxOps = 4
INVARIANTS
    TypeOK
    BlocksFitBuffers
    RunningIsWhole
    FailuresAreNoticed
PROPERTIES
    LostClockEnds
CHECK_DEADLOCK FALSE
