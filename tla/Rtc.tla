--------------------------------- MODULE Rtc ---------------------------------
(***************************************************************************)
(* The STM32MP25 RTC driver (stm32_rtc.c) with the RTC PTA (pta/rtc.c):    *)
(* the probe and its apply_rif_config / check_rif_config, then the alarm   *)
(* services the PTA exports to the normal world.                           *)
(*                                                                         *)
(* RIF part.  The six RTC resources are ALRA, ALRB, WUT, TS (0 .. 3), CAL  *)
(* and INIT (4, 5).  SECCFGR and PRIVCFGR are kept as the 16-bit words the *)
(* code writes: bit i for resources 0 .. 3, bit i + 9 for 4 and 5, bit 15  *)
(* the global SEC / PRIV bit.  CIDCFGR keeps CFEN and SCID only            *)
(* (RTC_CIDCFGR_CONF_MASK) and takes writes of the TDCID only; a CIDCFGR   *)
(* write enabling CFEN clears the two global bits (the hardware rule the   *)
(* comment of apply_rif_config states).                                    *)
(*                                                                         *)
(* Alarm part.  Two normal-world threads call the PTA: the waiter, which   *)
(* loops on wait_alarm, and the client calling set_alarm, enable_alarm,   *)
(* cancel_wait and set_alarm_wakeup_status one at a time (the normal-world *)
(* RTC class serialises them; neither the PTA nor the driver locks).  The  *)
(* alarm interrupt runs on any core.                                       *)
(* notif_send_async / notif_wait are those of the OP-TEE core and the      *)
(* normal-world driver, outside this repository: an asynchronous value is  *)
(* pending in OP-TEE until the normal world fetches it; the normal world   *)
(* then wakes the thread waiting on it or, with none, latches it for the   *)
(* next wait.                                                              *)
(***************************************************************************)
EXTENDS RifCid, Bitwise, RtcCalendar
LOCAL INSTANCE FiniteSetsExt

CONSTANTS
    RtcDts,         \* conf_data parsed from "st,protreg", or NoConf
    RtcInitCid,     \* CIDCFGRs when OP-TEE starts, per TDCID mode
    WakeupSource,   \* "wakeup-source" in the DT (with CFG_STM32_EXTI)
    Times           \* alarm times a client may pass

RtcRes == 0 .. 5
RTC_RES_TIMESTAMP == 3
RTC_CID_1 == OpteeCid
RTC_SECCFGR_SHIFT == 9
RTC_SECCFGR_VALUES == 15                        \* GENMASK_32(3, 0)
RTC_SECCFGR_VALUES_TO_SHIFT == 48               \* GENMASK_32(5, 4)
RTC_SECCFGR_MASK == 2^14 + 2^13 + 15            \* GENMASK(14, 13) | GENMASK(3, 0)
RTC_SECCFGR_FULL_SEC == 2^15
RTC_RIF_FULL_SECURED == 63
\* the PRIVCFGR layout is the same
RTC_PRIVCFGR_FULL_PRIV == 2^15

\* CIDCFGR fields under RTC_CIDCFGR_CONF_MASK
RtcCidAttr == [cfen : BOOLEAN, scid : Cids \cup {CID0}]
RtcCidCleared == [cfen |-> FALSE, scid |-> CID0]

\* struct rif_conf_data of the RTC: access_mask[0], sec_conf[0],
\* priv_conf[0] as bit masks over the resources, cid_confs[]
RtcConfTable == [access : 0 .. 63, sec : 0 .. 63, priv : 0 .. 63,
                 cid : [RtcRes -> RtcCidAttr]]

ASSUME /\ RtcDts \subseteq RtcConfTable \cup {NoConf}
       /\ \A b \in TdcidModes : RtcInitCid[b] \in [RtcRes -> RtcCidAttr]
       /\ WakeupSource \in BOOLEAN

Threads == {"waiter", "client"}
NoTime == "none"

VARIABLES
    seccfgr, privcfgr, cidcfgr,     \* RIF registers
    conf,           \* rtc_dev.conf_data
    isSecured,      \* rtc_dev.is_secured
    probe,          \* "probe", "checked", then "run" (alarm services),
                    \* "initfail" (PM callback only), "noalarm" or "panic"
    wpr,            \* RTC_WPR: "locked" or "unlocked"
    alrae, alraie,  \* RTC_CR bits
    alrmar,         \* RTC_ALRMAR, the alarm time
    alraf,          \* RTC_SR_ALRAF
    status,         \* rtc_dev.wait_alarm_return_status
    alarmWake,      \* rtc_dev.alarm_wake
    async,          \* notif_id pending in OP-TEE's asynchronous values
    latched,        \* notif_id latched by the normal world, no waiter
    pc,             \* per thread: position in its PTA call
    arg,            \* per thread: enable argument, alarm time, caller
    crSnap,         \* cr local of stm32_rtc_set_alarm (client)
    cancelSince,    \* history: cancel_wait ran since the last wait began
    wRet            \* history: what the last wait_alarm returned

rtcvars == <<seccfgr, privcfgr, cidcfgr, conf, isSecured, probe, wpr, alrae,
             alraie, alrmar, alraf, status, alarmWake, async,
             latched, pc, arg, crSnap, cancelSince, wRet>>

Labels == {"idle", "sa_unprot", "sa_cr", "sa_alrmar", "sa_lock",
           "ea_unprot", "ea_cr", "ea_scr", "ea_lock",
           "rpc", "blocked", "woken"}
Args == [en : BOOLEAN, tm : Times \cup {NoTime},
         caller : {"set_alarm", "enable_alarm", "wait_alarm", "none"}]
NoArg == [en |-> FALSE, tm |-> NoTime, caller |-> "none"]

RtcTypeOK ==
    /\ seccfgr \in 0 .. 2^16 - 1 /\ privcfgr \in 0 .. 2^16 - 1
    /\ cidcfgr \in [RtcRes -> RtcCidAttr]
    /\ conf \in RtcConfTable \cup {NoConf}
    /\ isSecured \in BOOLEAN
    /\ probe \in {"probe", "checked", "run", "initfail", "noalarm", "panic"}
    /\ wpr \in {"locked", "unlocked"}
    /\ alrae \in BOOLEAN /\ alraie \in BOOLEAN /\ alraf \in BOOLEAN
    /\ alrmar \in Times \cup {NoTime}
    /\ status \in {"RESET", "CANCELED"}
    /\ alarmWake \in BOOLEAN
    /\ async \in BOOLEAN /\ latched \in BOOLEAN
    /\ pc \in [Threads -> Labels] /\ arg \in [Threads -> Args]
    /\ crSnap \in [alrae : BOOLEAN, alraie : BOOLEAN]
    /\ cancelSince \in BOOLEAN
    /\ wRet \in {"none", "CANCELED", "ALARM_OCCURRED", "error"}
    /\ isTdcid \in TdcidModes

-----------------------------------------------------------------------------
(* Probe: apply_rif_config(is_tdcid), check_rif_config(), then the alarm  *)
(* services.  The probe runs alone at boot, so each step is atomic.        *)

BitSet(m, i) == (m \div 2^i) % 2 = 1

\* resources selected by a mask of conf_data
Selected(m) == {i \in RtcRes : BitSet(m, i)}

\* access_mask_reg: bit i for i <= RTC_RES_TIMESTAMP, else shifted
AccessMaskReg(m) ==
    MapThenSumSet(LAMBDA i : IF i <= RTC_RES_TIMESTAMP THEN 2^i
                             ELSE 2^i * 2^RTC_SECCFGR_SHIFT, Selected(m))

RegValueShift12(v) == (v & RTC_SECCFGR_VALUES) + (v & RTC_SECCFGR_VALUES_TO_SHIFT) * 2^12

RegValueShift8(v) == (v & RTC_SECCFGR_VALUES) + (v & RTC_SECCFGR_VALUES_TO_SHIFT) * 2^8

\* "shift some values to align with the register"
RegValue(v) ==
    (v & RTC_SECCFGR_VALUES) + (v & RTC_SECCFGR_VALUES_TO_SHIFT) * 2^RTC_SECCFGR_SHIFT

\* io_clrsetbits32
ClrSet(old, clr, set) == (old - (old & clr)) | set

\* SECCFGR or PRIVCFGR after apply_rif_config: the global bit when every
\* resource is asked for, then the per-resource bits under access_mask_reg
\* (RTC_RIF_FULL_SECURED and RTC_RIF_FULL_PRIVILEGED are both 0x3F)
CfgrWritten(old, v, amr, full) ==
    LET withFull == IF v = RTC_RIF_FULL_SECURED THEN old | full ELSE old
    IN  ClrSet(withFull, RTC_SECCFGR_MASK & amr, RegValue(v))

\* the hardware: a CIDCFGR write enabling CFEN clears the global bit
FullCleared(v, full) == v - (v & full)

\* the FULL_SEC / FULL_PRIV read-backs panic if the bit did not stick; the
\* reference is silent on setting it while a CIDCFGR left in place (all of
\* them as non-TDCID) has CFEN, so the read-back may then fail
ReadBackMayFail ==
    /\ conf # NoConf
    /\ RTC_RIF_FULL_SECURED \in {conf.sec, conf.priv}
    /\ \E i \in RtcRes : cidcfgr[i].cfen /\ ~(isTdcid /\ i \in Selected(conf.access))

\* apply_rif_config(is_tdcid); as TDCID the CIDCFGRs of the accessed
\* resources are first cleared, then written after SECCFGR and PRIVCFGR
ApplyRifConfig ==
    /\ probe = "probe"
    /\ IF conf = NoConf
       THEN UNCHANGED <<seccfgr, privcfgr, cidcfgr, isSecured>>
       ELSE LET acc == Selected(conf.access)
                amr == AccessMaskReg(conf.access)
                cfen == isTdcid /\ \E i \in acc : conf.cid[i].cfen
                sec == CfgrWritten(seccfgr, conf.sec, amr, RTC_SECCFGR_FULL_SEC)
                priv == CfgrWritten(privcfgr, conf.priv, amr, RTC_PRIVCFGR_FULL_PRIV)
            IN  /\ isSecured' = (conf.sec = RTC_RIF_FULL_SECURED)
                /\ seccfgr' = IF cfen THEN FullCleared(sec, RTC_SECCFGR_FULL_SEC) ELSE sec
                /\ privcfgr' = IF cfen THEN FullCleared(priv, RTC_PRIVCFGR_FULL_PRIV)
                               ELSE priv
                /\ cidcfgr' = IF isTdcid
                              THEN [i \in RtcRes |-> IF i \in acc THEN conf.cid[i]
                                                     ELSE cidcfgr[i]]
                              ELSE cidcfgr
    /\ probe' \in IF ReadBackMayFail THEN {"checked", "panic"} ELSE {"checked"}
    /\ UNCHANGED <<conf, wpr, alrae, alraie, alrmar, alraf, status, alarmWake,
                   async, latched, pc, arg, crSnap, cancelSince, wRet,
                   isTdcid>>

\* check_rif_config: TAMPTS must stay reachable by CID1; the probe
\* panics otherwise
CheckRifConfigOk ==
    ~(cidcfgr[RTC_RES_TIMESTAMP].cfen /\ cidcfgr[RTC_RES_TIMESTAMP].scid # RTC_CID_1)

\* the rest of stm32_rtc_probe: with is_secured, the notification value
\* and the interrupt handler (either may fail: "noalarm"), the PM callback,
\* then stm32_rtc_init, which may time out and fail the probe with the PM
\* callback left registered ("initfail"), before rtc_register and
\* interrupt_enable
RtcProbeEnd ==
    /\ probe = "checked"
    /\ \/ ~CheckRifConfigOk /\ probe' = "panic"
       \/ CheckRifConfigOk /\ ~isSecured /\ probe' = "noalarm"
       \/ CheckRifConfigOk /\ isSecured /\ probe' \in {"run", "initfail", "noalarm"}
    /\ UNCHANGED <<seccfgr, privcfgr, cidcfgr, conf, isSecured, wpr, alrae,
                   alraie, alrmar, alraf, status, alarmWake, async,
                   latched, pc, arg, crSnap, cancelSince, wRet, isTdcid>>

-----------------------------------------------------------------------------
(* The alarm services, once the probe registered them.  RTC_CR and        *)
(* RTC_ALRMAR are write-protected: a write while RTC_WPR is locked is      *)
(* ignored; RTC_SCR is not protected.  stm32_rtc_write_unprotect (the two  *)
(* keys) and stm32_rtc_write_protect are one step each.                    *)

Running == probe = "run"
Unlocked == wpr = "unlocked"

Goto(t, l) == pc' = [pc EXCEPT ![t] = l]

\* stm32_rtc_set_alarm up to stm32_rtc_valid_alarm_time, whose result
\* depends on the calendar: cr is read at entry
SetAlarmBegin(tm, en) ==
    /\ Running /\ pc["client"] = "idle"
    /\ \/ /\ crSnap' = [alrae |-> alrae, alraie |-> alraie]
          /\ Goto("client", "sa_unprot")
          /\ arg' = [arg EXCEPT !["client"] = [en |-> en, tm |-> tm,
                                                caller |-> "set_alarm"]]
       \/ UNCHANGED <<pc, arg, crSnap>>   \* the alarm time is refused
    /\ UNCHANGED <<seccfgr, privcfgr, cidcfgr, conf, isSecured, probe, wpr,
                   alrae, alraie, alrmar, alraf, status, alarmWake,
                   async, latched, cancelSince, wRet, isTdcid>>

SaUnprotect ==
    /\ pc["client"] = "sa_unprot"
    /\ wpr' = "unlocked" /\ Goto("client", "sa_cr")
    /\ UNCHANGED <<seccfgr, privcfgr, cidcfgr, conf, isSecured, probe, alrae,
                   alraie, alrmar, alraf, status, alarmWake, async,
                   latched, arg, crSnap, cancelSince, wRet, isTdcid>>

\* "cr &= ~RTC_CR_ALRAE; io_write32(rtc_base + RTC_CR, cr)": the value
\* read at entry, alarm disabled
SaWriteCr ==
    /\ pc["client"] = "sa_cr"
    /\ IF Unlocked THEN alrae' = FALSE /\ alraie' = crSnap.alraie
       ELSE UNCHANGED <<alrae, alraie>>
    /\ Goto("client", "sa_alrmar")
    /\ UNCHANGED <<seccfgr, privcfgr, cidcfgr, conf, isSecured, probe, wpr,
                   alrmar, alraf, status, alarmWake, async, latched,
                   arg, crSnap, cancelSince, wRet, isTdcid>>

\* the ALRMAR write, then stm32_rtc_enable_alarm(rtc, alarm->enabled)
SaWriteAlrmar ==
    /\ pc["client"] = "sa_alrmar"
    /\ IF Unlocked THEN alrmar' = arg["client"].tm ELSE UNCHANGED alrmar
    /\ Goto("client", "ea_unprot")
    /\ UNCHANGED <<seccfgr, privcfgr, cidcfgr, conf, isSecured, probe, wpr,
                   alrae, alraie, alraf, status, alarmWake, async,
                   latched, arg, crSnap, cancelSince, wRet, isTdcid>>

\* the final stm32_rtc_write_protect of stm32_rtc_set_alarm
SaProtect ==
    /\ pc["client"] = "sa_lock"
    /\ wpr' = "locked" /\ Goto("client", "idle")
    /\ arg' = [arg EXCEPT !["client"] = NoArg]
    /\ UNCHANGED <<seccfgr, privcfgr, cidcfgr, conf, isSecured, probe, alrae,
                   alraie, alrmar, alraf, status, alarmWake, async,
                   latched, crSnap, cancelSince, wRet, isTdcid>>

\* rtc_pta_enable_alarm -> stm32_rtc_enable_alarm(en)
EnableAlarmCall(en) ==
    /\ Running /\ pc["client"] = "idle"
    /\ Goto("client", "ea_unprot")
    /\ arg' = [arg EXCEPT !["client"] = [en |-> en, tm |-> NoTime,
                                          caller |-> "enable_alarm"]]
    /\ UNCHANGED <<seccfgr, privcfgr, cidcfgr, conf, isSecured, probe, wpr,
                   alrae, alraie, alrmar, alraf, status, alarmWake,
                   async, latched, crSnap, cancelSince, wRet, isTdcid>>

(* stm32_rtc_enable_alarm of thread t, called by the client or, on a      *)
(* canceled wait, by the waiter.                                           *)

EaUnprotect(t) ==
    /\ pc[t] = "ea_unprot"
    /\ wpr' = "unlocked" /\ Goto(t, "ea_cr")
    /\ UNCHANGED <<seccfgr, privcfgr, cidcfgr, conf, isSecured, probe, alrae,
                   alraie, alrmar, alraf, status, alarmWake, async,
                   latched, arg, crSnap, cancelSince, wRet, isTdcid>>

\* io_setbits32 / io_clrbits32 of ALRAIE | ALRAE
EaWriteCr(t) ==
    /\ pc[t] = "ea_cr"
    /\ IF Unlocked THEN alrae' = arg[t].en /\ alraie' = arg[t].en
       ELSE UNCHANGED <<alrae, alraie>>
    /\ Goto(t, "ea_scr")
    /\ UNCHANGED <<seccfgr, privcfgr, cidcfgr, conf, isSecured, probe, wpr,
                   alrmar, alraf, status, alarmWake, async, latched,
                   arg, crSnap, cancelSince, wRet, isTdcid>>

\* stm32_rtc_clear_events(RTC_SCR_CALRAF)
EaClearEvents(t) ==
    /\ pc[t] = "ea_scr"
    /\ alraf' = FALSE /\ Goto(t, "ea_lock")
    /\ UNCHANGED <<seccfgr, privcfgr, cidcfgr, conf, isSecured, probe, wpr,
                   alrae, alraie, alrmar, status, alarmWake, async,
                   latched, arg, crSnap, cancelSince, wRet, isTdcid>>

\* stm32_rtc_write_protect, then back to the caller: set_alarm goes on,
\* enable_alarm returns, wait_alarm returns RTC_WAIT_ALARM_CANCELED
EaProtect(t) ==
    /\ pc[t] = "ea_lock"
    /\ wpr' = "locked"
    /\ CASE arg[t].caller = "set_alarm" ->
                Goto(t, "sa_lock") /\ UNCHANGED <<arg, wRet>>
         [] arg[t].caller = "enable_alarm" ->
                Goto(t, "idle") /\ arg' = [arg EXCEPT ![t] = NoArg]
                /\ UNCHANGED wRet
         [] arg[t].caller = "wait_alarm" ->
                Goto(t, "idle") /\ arg' = [arg EXCEPT ![t] = NoArg]
                /\ wRet' = "CANCELED"
    /\ UNCHANGED <<seccfgr, privcfgr, cidcfgr, conf, isSecured, probe, alrae,
                   alraie, alrmar, alraf, status, alarmWake, async,
                   latched, crSnap, cancelSince, isTdcid>>

\* rtc_pta_cancel_wait_alarm -> stm32_rtc_cancel_wait_alarm
CancelWaitNoNotify ==
    /\ Running /\ pc["client"] = "idle"
    /\ status' = "CANCELED" /\ cancelSince' = TRUE
    /\ UNCHANGED <<seccfgr, privcfgr, cidcfgr, conf, isSecured, probe, wpr,
                   alrae, alraie, alrmar, alraf, alarmWake, async,
                   latched, pc, arg, crSnap, wRet, isTdcid>>

CancelWait ==
    /\ Running /\ pc["client"] = "idle"
    /\ status' = "CANCELED" /\ cancelSince' = TRUE
    /\ async' = TRUE                        \* notif_send_async(notif_id)
    /\ UNCHANGED <<seccfgr, privcfgr, cidcfgr, conf, isSecured, probe, wpr,
                   alrae, alraie, alrmar, alraf, alarmWake,
                   latched, pc, arg, crSnap, wRet, isTdcid>>

\* rtc_pta_set_alarm_wakeup_status: TEE_ERROR_NOT_SUPPORTED unless the
\* RTC is a wake-up source
SetAlarmWakeupStatus(s) ==
    /\ Running /\ pc["client"] = "idle"
    /\ IF WakeupSource THEN alarmWake' = s ELSE UNCHANGED alarmWake
    /\ UNCHANGED <<seccfgr, privcfgr, cidcfgr, conf, isSecured, probe, wpr,
                   alrae, alraie, alrmar, alraf, status, async,
                   latched, pc, arg, crSnap, cancelSince, wRet, isTdcid>>

\* stm32_rtc_wait_alarm up to notif_wait (wRet and cancelSince restart
\* the history of this wait)
WaitStartNoReset ==
    /\ Running /\ pc["waiter"] = "idle"
    /\ Goto("waiter", "rpc") /\ cancelSince' = FALSE /\ wRet' = "none"
    /\ UNCHANGED <<seccfgr, privcfgr, cidcfgr, conf, isSecured, probe, wpr,
                   alrae, alraie, alrmar, alraf, status, alarmWake,
                   async, latched, arg, crSnap, isTdcid>>

WaitStart ==
    /\ Running /\ pc["waiter"] = "idle"
    /\ status' = "RESET"
    /\ Goto("waiter", "rpc") /\ cancelSince' = FALSE /\ wRet' = "none"
    /\ UNCHANGED <<seccfgr, privcfgr, cidcfgr, conf, isSecured, probe, wpr,
                   alrae, alraie, alrmar, alraf, alarmWake,
                   async, latched, arg, crSnap, isTdcid>>

\* notif_wait: the RPC returns at once on a latched value, else blocks;
\* an RPC error is returned to the caller
WaitRpc ==
    /\ pc["waiter"] = "rpc"
    /\ \/ latched /\ latched' = FALSE /\ Goto("waiter", "woken")
          /\ UNCHANGED wRet
       \/ ~latched /\ Goto("waiter", "blocked") /\ UNCHANGED <<latched, wRet>>
       \/ Goto("waiter", "idle") /\ wRet' = "error" /\ UNCHANGED latched
    /\ UNCHANGED <<seccfgr, privcfgr, cidcfgr, conf, isSecured, probe, wpr,
                   alrae, alraie, alrmar, alraf, status, alarmWake,
                   async, arg, crSnap, cancelSince, isTdcid>>

\* after notif_wait: canceled -> stm32_rtc_enable_alarm(rtc, 0) and
\* RTC_WAIT_ALARM_CANCELED, else RTC_WAIT_ALARM_ALARM_OCCURRED
WaitEnd ==
    /\ pc["waiter"] = "woken"
    /\ \/ /\ status = "CANCELED"
          /\ Goto("waiter", "ea_unprot")
          /\ arg' = [arg EXCEPT !["waiter"] = [en |-> FALSE, tm |-> NoTime,
                                                caller |-> "wait_alarm"]]
          /\ UNCHANGED wRet
       \/ /\ status # "CANCELED"
          /\ Goto("waiter", "idle") /\ wRet' = "ALARM_OCCURRED"
          /\ UNCHANGED arg
    /\ UNCHANGED <<seccfgr, privcfgr, cidcfgr, conf, isSecured, probe, wpr,
                   alrae, alraie, alrmar, alraf, status, alarmWake,
                   async, latched, crSnap, cancelSince, isTdcid>>

(* The environment: the normal world fetching the asynchronous value, the *)
(* calendar reaching the alarm, the alarm interrupt, system suspend.       *)

\* the normal world fetches notif_id: wakes the waiter or latches it
NotifDeliver ==
    /\ async /\ async' = FALSE
    /\ \/ pc["waiter"] = "blocked" /\ Goto("waiter", "woken")
          /\ UNCHANGED latched
       \/ pc["waiter"] # "blocked" /\ latched' = TRUE /\ UNCHANGED pc
    /\ UNCHANGED <<seccfgr, privcfgr, cidcfgr, conf, isSecured, probe, wpr,
                   alrae, alraie, alrmar, alraf, status, alarmWake,
                   arg, crSnap, cancelSince, wRet, isTdcid>>

\* the calendar matches RTC_ALRMAR while alarm A is enabled
AlarmMatch ==
    /\ Running /\ alrae /\ ~alraf /\ alraf' = TRUE
    /\ UNCHANGED <<seccfgr, privcfgr, cidcfgr, conf, isSecured, probe, wpr,
                   alrae, alraie, alrmar, status, alarmWake, async,
                   latched, pc, arg, crSnap, cancelSince, wRet, isTdcid>>

\* stm32_rtc_it_handler: ALRAF with ALRAIE -> clear, notif_send_async
ItHandlerNoNotify ==
    /\ Running /\ alraf /\ alraie /\ alraf' = FALSE
    /\ UNCHANGED <<seccfgr, privcfgr, cidcfgr, conf, isSecured, probe, wpr,
                   alrae, alraie, alrmar, status, alarmWake, async,
                   latched, pc, arg, crSnap, cancelSince, wRet, isTdcid>>

ItHandler ==
    /\ Running /\ alraf /\ alraie
    /\ alraf' = FALSE /\ async' = TRUE
    /\ UNCHANGED <<seccfgr, privcfgr, cidcfgr, conf, isSecured, probe, wpr,
                   alrae, alraie, alrmar, status, alarmWake,
                   latched, pc, arg, crSnap, cancelSince, wRet, isTdcid>>

-----------------------------------------------------------------------------
(* RTC_CR, RTC_ALRMAR and RTC_SR are in the backup domain and keep their  *)
(* value across a reset; stm32_rtc_init only touches RTC_CR_FMT.           *)
RtcInit ==
    /\ isTdcid \in TdcidModes
    /\ conf \in RtcDts
    /\ cidcfgr = RtcInitCid[isTdcid]
    /\ seccfgr = 0 /\ privcfgr = 0
    /\ isSecured = FALSE
    /\ probe = "probe"
    /\ wpr = "locked"
    /\ alrae \in BOOLEAN /\ alraie \in BOOLEAN /\ alraf \in BOOLEAN
    /\ alrmar \in Times
    /\ status = "RESET"
    /\ alarmWake = FALSE
    /\ async = FALSE /\ latched = FALSE
    /\ pc = [t \in Threads |-> "idle"]
    /\ arg = [t \in Threads |-> NoArg]
    /\ crSnap = [alrae |-> FALSE, alraie |-> FALSE]
    /\ cancelSince = FALSE
    /\ wRet = "none"

ClientStep ==
    \/ \E tm \in Times, en \in BOOLEAN : SetAlarmBegin(tm, en)
    \/ SaUnprotect \/ SaWriteCr \/ SaWriteAlrmar \/ SaProtect
    \/ \E en \in BOOLEAN : EnableAlarmCall(en)
    \/ CancelWait
    \/ \E s \in BOOLEAN : SetAlarmWakeupStatus(s)

WaiterStep == WaitStart \/ WaitRpc \/ WaitEnd

EnableAlarmStep(t) ==
    EaUnprotect(t) \/ EaWriteCr(t) \/ EaClearEvents(t) \/ EaProtect(t)

RtcNext ==
    \/ ApplyRifConfig \/ RtcProbeEnd
    \/ ClientStep
    \/ WaiterStep
    \/ \E t \in Threads : EnableAlarmStep(t)
    \/ NotifDeliver \/ AlarmMatch \/ ItHandler

allvars == <<rtcvars, isTdcid>>

(* The waiter thread, the interrupt, the normal world's fetch of the      *)
(* asynchronous value and the calendar always make progress; the client   *)
(* and suspend need not.                                                   *)
RtcSpec ==
    /\ RtcInit /\ [][RtcNext]_allvars
    /\ WF_allvars(WaiterStep) /\ WF_allvars(EnableAlarmStep("waiter"))
    /\ WF_allvars(NotifDeliver) /\ WF_allvars(ItHandler)
    /\ WF_allvars(AlarmMatch)

-----------------------------------------------------------------------------
(* Properties                                                              *)

Secure(i) ==
    BitSet(seccfgr, 15) \/ BitSet(seccfgr, IF i <= RTC_RES_TIMESTAMP THEN i
                                           ELSE i + RTC_SECCFGR_SHIFT)

\* When apply_rif_config sets rtc_dev.is_secured (every resource secure in
\* the DT), each RTC resource is secure in RTC_SECCFGR once the probe is
\* through, even when a CIDCFGR with CFEN has cleared the global SEC bit:
\* the shifted per-resource values must land on the right bits.
AlarmServiceSecure ==
    (probe # "probe" /\ isSecured) => \A i \in RtcRes : Secure(i)

\* stm32_rtc_wait_alarm only returns RTC_WAIT_ALARM_CANCELED for a
\* cancel_wait issued after that wait began: a cancel of an earlier wait
\* never cancels the next one.
CanceledOnlyAfterCancel == wRet = "CANCELED" => cancelSince

\* A wait_alarm canceled by cancel_wait returns: the cancel notification
\* reaches the waiter whether it is already blocked or not yet.
CancelEndsWait ==
    (pc["waiter"] \in {"rpc", "blocked", "woken"} /\ cancelSince)
        ~> pc["waiter"] = "idle"

\* While no client call is in progress and alarm A stays enabled with its
\* interrupt, a blocked wait_alarm returns: the alarm flag raises the
\* interrupt, whose notification wakes the waiter.
AlarmEndsWait ==
    (pc["waiter"] = "blocked" /\ alrae /\ alraie /\ pc["client"] = "idle")
        ~> (pc["waiter"] # "blocked" \/ pc["client"] # "idle"
            \/ ~(alrae /\ alraie))

\* Once the probe has registered the RTC, stm32_rtc_get_time reads back
\* every date and time of the RTC range that stm32_rtc_set_time wrote
\* (RtcCalendar's TimeSetIsTimeRead).
TimeRoundTrip == Running => TimeSetIsTimeRead

\* Once the probe has registered the RTC, an alarm that
\* stm32_rtc_valid_alarm_time accepts rings, through the ALRMAR word
\* stm32_rtc_set_alarm writes, at the date and time the client asked for
\* (RtcCalendar's AlarmRingsAsRequested).
AlarmFiresAsRequested == Running => AlarmRingsAsRequested

=============================================================================
