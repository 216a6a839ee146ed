CONSTANTS
    Cids <- MC_Cids
    OpteeCid = 1
    NoCid = 0
    NoConf = NoConf
    NsResources <- MC_Ns
    WioResources <- MC_Wio
    TdcidModes = {FALSE}
    PwrDts <- MC_Dts
    PwrInitCid <- MC_InitCidModes
SPECIFICATION PwrSpec
INVARIANT PwrSemaphoresSettled
CHECK_DEADLOCK FALSE
