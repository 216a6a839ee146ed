CONSTANTS
    Cids <- MC_Cids
    OpteeCid = 1
    NoCid = 0
    NoConf = NoConf
    TdcidModes = {TRUE, FALSE}
    RtcDts <- MC_Dts
    RtcInitCid <- MC_InitCidModes
    WakeupSource = TRUE
    t1 = t1
    t2 = t2
    Times <- MC_Times
    CalYears = {2023, 2024}
    TodHms <- MC_TodHms
SPECIFICATION RtcSpec
INVARIANT RtcTypeOK
INVARIANT AlarmServiceSecure
INVARIANT CanceledOnlyAfterCancel
INVARIANT TimeRoundTrip
INVARIANT AlarmFiresAsRequested
PROPERTY CancelEndsWait
PROPERTY AlarmEndsWait
CHECK_DEADLOCK FALSE
