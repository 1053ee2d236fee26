SPECIFICATION Spec
CONSTANTS
    Images = {"a", "b"}
    Data <- MCData
    Boot2 <- MCBoot2
    Erased = "erased"
    Torn = "torn"
    NumSectors = 5
    NumPages = 2
    ImgLen <- MCImgLen
    Content <- MCContent
    Retries = 3
    FirstSectorTears = FALSE
INVARIANT
    CompleteAfterReboot
