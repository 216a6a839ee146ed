CONSTANTS
    NbRisup = 2
    Cids <- MC_Cids
    OpteeCid = 1
    NoCid = 0
    TdcidModes = {TRUE}
    DtRisup <- MC_DtSwapped
    InitCid <- MC_InitCidModes
    SetConfRequests <- MC_Requests
    MaxCid = 2
SPECIFICATION Spec
INVARIANT ReconfigureTargetsRequested
CHECK_DEADLOCK FALSE
