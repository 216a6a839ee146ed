------------------------------- MODULE PwrRif -------------------------------
(***************************************************************************)
(* apply_rif_config() of the STM32MP25 PWR driver (stm32mp25_pwr.c), run   *)
(* once by the probe (PWR registers no PM callback), and the other         *)
(* compartments taking and giving the WIO semaphores meanwhile.            *)
(*                                                                         *)
(* Resources 0 .. _PWR_NB_NS_RESSOURCES - 1 are the non-shareable R        *)
(* resources, whose R_CIDCFGR has no SEMEN / SEMWL field and no SEMCR; the *)
(* others are the WIO resources, with WIO_CIDCFGR and WIO_SEMCR.  The two  *)
(* SECCFGR (RSECCFGR, WIOSECCFGR) and the two PRIVCFGR registers are one   *)
(* bit per resource: r_sec / wio_sec are the two halves of sec_conf, and   *)
(* pwSec[i] the bit of resource i in the register holding it.  CIDCFGR     *)
(* accepts writes of the TDCID only.  CFG_TEE_CORE_DEBUG is on.            *)
(***************************************************************************)
EXTENDS RifCid, FiniteSets

CONSTANTS
    NsResources,    \* 0 .. _PWR_NB_NS_RESSOURCES - 1
    WioResources,   \* _PWR_NB_NS_RESSOURCES .. _PWR_NB_RESSOURCES - 1
    PwrDts,         \* conf_data parsed from "st,protreg", or NoConf
    PwrInitCid      \* CIDCFGR when OP-TEE starts, per TDCID mode

PwrResources == NsResources \cup WioResources

\* struct rif_conf_data of the PWR, bit masks as sets of resources
PwrConfTable == [access : SUBSET PwrResources, sec : SUBSET PwrResources,
                 priv : SUBSET PwrResources,
                 cid : [PwrResources -> CidAttr]]

ASSUME /\ NsResources \cap WioResources = {}
       /\ PwrDts \subseteq PwrConfTable \cup {NoConf}
       /\ NoConf \notin PwrConfTable
       /\ \A b \in TdcidModes : PwrInitCid[b] \in [PwrResources -> CidAttr]

VARIABLES
    pwCid, pwSec, pwPriv, pwHolder,     \* PWR registers
    pwConf,     \* pwr_d->conf_data
    pwPc,       \* position in apply_rif_config, or where the probe ended
    pwIdx,      \* resource index of the loop in progress
    pwLast      \* history: how apply_rif_config returned

pwvars == <<pwCid, pwSec, pwPriv, pwHolder, pwConf, pwPc, pwIdx, pwLast>>

NbResources == Cardinality(PwrResources)

PwrTypeOK ==
    /\ pwCid \in [PwrResources -> CidAttr]
    /\ pwSec \in [PwrResources -> BOOLEAN]
    /\ pwPriv \in [PwrResources -> BOOLEAN]
    /\ pwHolder \in [WioResources -> Holders]
    /\ pwConf \in PwrConfTable \cup {NoConf}
    /\ pwPc \in {"phase1", "phase2", "run", "panic"}
    /\ pwIdx \in 0 .. NbResources
    /\ pwLast \in {"none", "Success", "AccessDenied"}
    /\ isTdcid \in TdcidModes

-----------------------------------------------------------------------------
\* the fields of a write that the CIDCFGR of resource i keeps:
\* _PWR_CIDCFGR_R_CONF_MASK or _PWR_CIDCFGR_W_CONF_MASK
ConfMasked(i, a) ==
    IF i \in NsResources THEN [a EXCEPT !.semen = FALSE, !.semwl = {}] ELSE a

\* a CIDCFGR write by OP-TEE takes effect only when it is the TDCID
CidWritten(i, a) == IF isTdcid THEN ConfMasked(i, a) ELSE pwCid[i]

\* return from apply_rif_config: stm32mp_pwr_probe panics on an error
PwrReturn(res) ==
    /\ pwPc' = IF res = "Success" THEN "run" ELSE "panic"
    /\ pwLast' = res

\* "if (!pwr_d->conf_data) return TEE_SUCCESS"
PwrApplyNoConf ==
    /\ pwPc = "phase1" /\ pwConf = NoConf
    /\ PwrReturn("Success")
    /\ UNCHANGED <<pwCid, pwSec, pwPriv, pwHolder, pwConf, pwIdx, isTdcid>>

\* first loop: skip a resource outside access_mask; as TDCID clear its CID
\* configuration; take its semaphore if in semaphore mode with CID1
\* white-listed (never for an R resource, whose SEMEN reads 0)
PwrPhase1Res ==
    /\ pwPc = "phase1" /\ pwConf # NoConf /\ pwIdx < NbResources
    /\ LET i == pwIdx
           a == IF isTdcid THEN CidCleared ELSE pwCid[i]
           h == AcquiredHolder(a, pwHolder[i])
       IN IF i \notin pwConf.access
          THEN pwIdx' = pwIdx + 1 /\ UNCHANGED <<pwCid, pwHolder, pwPc, pwLast>>
          ELSE /\ pwCid' = [pwCid EXCEPT ![i] = a]
               /\ IF SEM_MODE_INCORRECT(a)
                  THEN pwIdx' = pwIdx + 1 /\ UNCHANGED <<pwHolder, pwPc, pwLast>>
                  ELSE /\ pwHolder' = [pwHolder EXCEPT ![i] = h]
                       /\ IF h = OpteeCid
                          THEN pwIdx' = pwIdx + 1 /\ UNCHANGED <<pwPc, pwLast>>
                          ELSE PwrReturn("AccessDenied") /\ UNCHANGED pwIdx
    /\ UNCHANGED <<pwSec, pwPriv, pwConf, isTdcid>>

\* after the first loop: r_priv / r_sec and wio_priv / wio_sec written with
\* io_clrsetbits32 over the whole register masks, not access_mask
PwrPhase1Done ==
    /\ pwPc = "phase1" /\ pwConf # NoConf /\ pwIdx = NbResources
    /\ pwSec' = [i \in PwrResources |-> i \in pwConf.sec]
    /\ pwPriv' = [i \in PwrResources |-> i \in pwConf.priv]
    /\ pwPc' = "phase2" /\ pwIdx' = 0
    /\ UNCHANGED <<pwCid, pwHolder, pwConf, pwLast, isTdcid>>

\* second loop, whatever the TDCID state: write CIDCFGR, read it back and
\* release the semaphore of a resource in semaphore mode
PwrPhase2Res ==
    /\ pwPc = "phase2" /\ pwIdx < NbResources
    /\ LET i == pwIdx
           a == CidWritten(i, pwConf.cid[i])
       IN IF i \notin pwConf.access
          THEN UNCHANGED <<pwCid, pwHolder>>
          ELSE /\ pwCid' = [pwCid EXCEPT ![i] = a]
               /\ IF SEM_MODE_INCORRECT(a) THEN UNCHANGED pwHolder
                  ELSE pwHolder' = [pwHolder EXCEPT ![i] = ReleasedHolder(@)]
    /\ pwIdx' = pwIdx + 1
    /\ UNCHANGED <<pwSec, pwPriv, pwConf, pwPc, pwLast, isTdcid>>

\* the CFG_TEE_CORE_DEBUG read-back of the four registers, masked by
\* access_mask, against r_priv, wio_priv, r_sec and wio_sec
PwrReadBackOk ==
    /\ {i \in pwConf.access : pwPriv[i]} = pwConf.priv
    /\ {i \in pwConf.access : pwSec[i]} = pwConf.sec

PwrPhase2Done ==
    /\ pwPc = "phase2" /\ pwIdx = NbResources
    /\ IF PwrReadBackOk THEN PwrReturn("Success")
       ELSE pwPc' = "panic" /\ UNCHANGED pwLast
    /\ pwIdx' = 0
    /\ UNCHANGED <<pwCid, pwSec, pwPriv, pwHolder, pwConf, isTdcid>>

-----------------------------------------------------------------------------
(* The other compartments take and give back WIO semaphores.              *)

PwrOtherTake(c, i) ==
    /\ Takable(pwCid[i], pwHolder[i], c)
    /\ pwHolder' = [pwHolder EXCEPT ![i] = c]
    /\ UNCHANGED <<pwCid, pwSec, pwPriv, pwConf, pwPc, pwIdx, pwLast, isTdcid>>

PwrOtherGive(c, i) ==
    /\ pwHolder[i] = c
    /\ pwHolder' = [pwHolder EXCEPT ![i] = NoCid]
    /\ UNCHANGED <<pwCid, pwSec, pwPriv, pwConf, pwPc, pwIdx, pwLast, isTdcid>>

\* stm32mp_pwr_probe: parse_dt, then apply_rif_config(is_tdcid); SECCFGR
\* and PRIVCFGR at reset, CIDCFGR as the TDCID left it
PwrInit ==
    /\ isTdcid \in TdcidModes
    /\ pwCid = PwrInitCid[isTdcid]
    /\ pwSec = [i \in PwrResources |-> FALSE]
    /\ pwPriv = [i \in PwrResources |-> FALSE]
    /\ pwHolder = [i \in WioResources |-> NoCid]
    /\ pwConf \in PwrDts
    /\ pwPc = "phase1" /\ pwIdx = 0 /\ pwLast = "none"

PwrNext ==
    \/ PwrApplyNoConf \/ PwrPhase1Res \/ PwrPhase1Done
    \/ PwrPhase2Res \/ PwrPhase2Done
    \/ \E c \in Cids \ {OpteeCid}, i \in WioResources :
          PwrOtherTake(c, i) \/ PwrOtherGive(c, i)

PwrSpec == PwrInit /\ [][PwrNext]_<<pwvars, isTdcid>>

-----------------------------------------------------------------------------
PwrConfigured == IF pwConf = NoConf THEN {} ELSE pwConf.access \cap WioResources

(* Spec 3, 4.3 and 4.6: when apply_rif_config has returned success,        *)
(* OP-TEE holds the semaphore of exactly those configured WIO resources    *)
(* whose CIDCFGR is in semaphore mode with CID1 white-listed and, as       *)
(* TDCID, whose SECCFGR bit is set.                                        *)
PwrSemaphoresSettled ==
    pwPc = "run" /\ pwLast = "Success" =>
        \A i \in PwrConfigured :
            pwHolder[i] = OpteeCid
                <=> ~SEM_MODE_INCORRECT(pwCid[i]) /\ (isTdcid => pwSec[i])
=============================================================================
