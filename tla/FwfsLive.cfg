CONSTANTS
    Threads = {t1, t2}
    Files = {f1, f2}
    MaxFiles = 1
    AppSize <- MCAppSize
    Names <- MCFewNames
    ReadSizes = {2}
    Seeks <- MCFewSeeks
    Junk = 77
    MaxDamage = 0
SPECIFICATION FairSpec
PROPERTY CallsReturn
