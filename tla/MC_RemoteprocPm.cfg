CONSTANTS
    HwIds = {1, 2, 3}
    Cids = {1, 2}
    OpteeCid = 1
    DtChoices <- MC_RprocRisafDts
    MemBase = 16
    MemSize = 16
    Gran = 4
    EncSupported = TRUE
    Queries <- MC_Queries
    MaxClk = 2
    RprocDtChoices <- MC_RprocDtChoices
    DmaRangesChoices <- MC_DmaRangesChoices
    BootAddrs = {16, 40}
    Segments <- MC_Segments
    MaxCnt = 2
SPECIFICATION RprocSpec
INVARIANT RprocMemsAccessBalanced
CHECK_DEADLOCK FALSE
