-------------------------------- MODULE MC_Rtc --------------------------------
(* The RTC with CID1 (OP-TEE) and CID2.  Four device trees: every resource *)
(* secure and privileged, ALRA and TAMPTS static to CID1 (the one that    *)
(* registers the alarm services); ALRA and TAMPTS secure only; TAMPTS     *)
(* static to CID2 (check_rif_config refuses it); no "st,protreg".  The    *)
(* RTC is a wake-up source; a client passes one of two alarm times.       *)
(* The calendar operators range over the 1st, 15th and last days of     *)
(* every month of 2023 and 2024 (a leap year and both year ends), every   *)
(* alarm date of the month and the next, times of day one second apart   *)
(* around 10:00 and 23:59:59, and for the conversions 2000 and 2099.      *)
EXTENDS Rtc, RtcCalendar, TLC

CONSTANTS t1, t2

Static1 == [cfen |-> TRUE, scid |-> 1]
Static2 == [cfen |-> TRUE, scid |-> 2]

MC_DtSecure == [access |-> 63, sec |-> 63, priv |-> 63,
                cid |-> [i \in RtcRes |-> IF i \in {0, RTC_RES_TIMESTAMP}
                                          THEN Static1 ELSE RtcCidCleared]]
MC_DtPart == [access |-> 9, sec |-> 9, priv |-> 0,
              cid |-> [i \in RtcRes |-> IF i = RTC_RES_TIMESTAMP
                                        THEN Static1 ELSE RtcCidCleared]]
MC_DtTsCid2 == [access |-> 8, sec |-> 8, priv |-> 8,
                cid |-> [i \in RtcRes |-> IF i = RTC_RES_TIMESTAMP
                                          THEN Static2 ELSE RtcCidCleared]]
MC_Dts == {MC_DtSecure, MC_DtPart, MC_DtTsCid2, NoConf}
\* TDCID: CIDCFGR at reset; not TDCID: every resource static to CID1
MC_InitCidModes ==
    [b \in BOOLEAN |-> IF b THEN [i \in RtcRes |-> RtcCidCleared]
                       ELSE [i \in RtcRes |-> Static1]]
MC_Cids == {1, 2}
MC_Times == {t1, t2}
MC_TodHms == {<<9, 59, 59>>, <<10, 0, 0>>, <<10, 0, 1>>, <<23, 59, 59>>}
=============================================================================
