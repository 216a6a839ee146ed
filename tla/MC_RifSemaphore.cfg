CONSTANTS
    Cids <- MC_Cids
    WhiteList <- MC_WhiteList
    OpteeCid = 1
    NoCid = 0
    NbCidSupp = 7
SPECIFICATION Spec
INVARIANT TypeOK
PROPERTY SemaphoreRefinement
