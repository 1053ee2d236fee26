SPECIFICATION Spec
CONSTANTS
    Retries = 3
    Segments <- MCSegments
    OtherBytes <- MCOtherBytes
    StopAt = {20, 554, 556, 560}
    MaxFaults = 4
    MaxResets = 2
    MaxBoots = 4
CHECK_DEADLOCK FALSE
INVARIANTS TypeOK RunsOnlyWhole ColorTells
PROPERTIES InjectsAtExecPS2 HooksAllButNext
