SPECIFICATION FairSpec
CONSTANTS
    AppAttr <- MCAppAttr
    DelayMin = 1
    DelayMax = 3
    StepSmall = 1
    StepBig = 2
    DefaultDelay = 3
    WordSize = 16
    PartitionSize <- MCPartitionSize
    BoardPins <- MCBoardPins
    Users <- MCUsers
    BlockSize = 1
    AddrSpace = 16
INVARIANTS MenuInv SavedIsShown CountdownAlone WritesWhatWasChecked
PROPERTIES LaunchesAsAsked CountdownEnds ListCatchesUp
CHECK_DEADLOCK FALSE
