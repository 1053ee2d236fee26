CONSTANTS
    Threads = {t1, t2}
    Files = {f1, f2, f3}
    MaxFiles = 2
    AppSize <- MCAppSize
    Names <- MCNames
    ReadSizes = {2}
    Seeks <- MCSeeks
    Junk = 77
    MaxDamage = 1
SYMMETRY Symmetric
SPECIFICATION Spec
INVARIANTS TypeOK HandlesAccounted
PROPERTY ServesFiles
