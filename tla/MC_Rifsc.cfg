CONSTANTS
    NbRisup = 2
    Cids <- MC_Cids
    OpteeCid = 1
    NoCid = 0
    TdcidModes = {TRUE, FALSE}
    DtRisup <- MC_Dt
    InitCid <- MC_InitCidModes
    SetConfRequests <- MC_Requests
    MaxCid = 2
SPECIFICATION Spec
INVARIANT TypeOK
INVARIANT OpteeHoldsOnlyWhereAllowed
INVARIANT ConfigSettlesSemaphore
INVARIANT ResumeRestoresSemaphores
CHECK_DEADLOCK FALSE
