CONSTANTS
    Cids <- MC_Cids
    OpteeCid = 1
    NoCid = 0
    NoConf = NoConf
    Channels <- MC_Channels
    TdcidModes = {TRUE, FALSE}
    HpdmaDts <- MC_Dts
    HpdmaInitCid <- MC_InitCidModes
    ErrataChoices = {TRUE, FALSE}
SPECIFICATION HpdmaSpec
INVARIANT HpdmaPmRestores
CHECK_DEADLOCK FALSE
