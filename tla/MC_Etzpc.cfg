CONSTANTS
    Ids = {0, 1}
    TzmaIds = {0, 1}
    t1 = t1
    t2 = t2
    Threads = {t1, t2}
    NoThread = NoThread
    Requests <- MC_Requests
    TzmaPages = {16, 64}
    DtDecprot <- MC_DtDecprot
    BootTzma <- MC_BootTzma
    BootTzmaLock <- MC_BootTzmaLock
SYMMETRY Perms
SPECIFICATION Spec
INVARIANT TypeOK
INVARIANT NoLostDecprotUpdate
INVARIANT PmRestoresContext
PROPERTY EtzpcRefinement
