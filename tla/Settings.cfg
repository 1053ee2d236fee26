SPECIFICATION Spec
CONSTANTS
    Size = 6
    Byte = {0, 1, 2, 3}
    LogSize = 6
    BatchLen = 4
    MagicLen = 2
    Fields <- MCFields
    First <- MCFirst
    Last <- MCLast
    Values <- MCValues
    Defaults <- MCDefaults
    ResetTears = FALSE
INVARIANTS TypeOK Durable WritesErased LossIsTotal PlaybackIsLastWrite
PROPERTIES SettingsAtomic
