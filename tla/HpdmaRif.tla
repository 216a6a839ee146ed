------------------------------ MODULE HpdmaRif ------------------------------
(***************************************************************************)
(* The RIF part of the HPDMA driver (stm32_hpdma.c): apply_rif_config()    *)
(* at probe and at PM resume, the PM suspend that rebuilds the             *)
(* configuration table from the registers, and the other compartments      *)
(* taking and giving the channel semaphores meanwhile.                     *)
(*                                                                         *)
(* Registers of channel c: chCid[c] (CIDCFGR), chSec[c] / chPriv[c]        *)
(* (SECCFGR / PRIVCFGR bits), chLock[c] (RCFGLOCKR bit), chHolder[c] (the  *)
(* SEMCR semaphore).  A locked channel ignores writes of its RIF           *)
(* configuration; CIDCFGR is written only by the TDCID.  The clock gating  *)
(* around the accesses is left out: every path that returns gates it.      *)
(* CFG_TEE_CORE_DEBUG is on (the read-back checks panic) and CFG_INSECURE  *)
(* off (the errata check panics).                                          *)
(***************************************************************************)
EXTENDS RifCid, FiniteSets

CONSTANTS
    Channels,       \* HPDMA_RIF_CHANNELS, as 0 .. n - 1
    HpdmaDts,       \* conf_data parsed from "st,protreg", or NoConf
    HpdmaInitCid,   \* CIDCFGR when OP-TEE starts, per TDCID mode
    ErrataChoices   \* values of "st,errata-ahbrisab"

\* struct rif_conf_data of one HPDMA, bit masks as sets of channels
ConfTable == [access : SUBSET Channels, sec : SUBSET Channels,
              priv : SUBSET Channels, lock : SUBSET Channels,
              cid : [Channels -> CidAttr]]

ASSUME /\ HpdmaDts \subseteq ConfTable \cup {NoConf} /\ NoConf \notin ConfTable
       /\ \A b \in TdcidModes : HpdmaInitCid[b] \in [Channels -> CidAttr]
       /\ ErrataChoices \subseteq BOOLEAN

VARIABLES
    chCid, chSec, chPriv, chLock, chHolder,     \* HPDMA registers
    hConf,      \* hpdma_d->conf_data
    hErrata,    \* hpdma_d->errata_ahbrisab
    hPc,        \* position in probe, apply_rif_config or the PM callback
    hIdx,       \* channel index of the loop in progress
    hResume,    \* apply_rif_config runs for the PM resume, not the probe
    hSaved,     \* history: the registers when the suspend callback ran
    hLast       \* history: how the last apply_rif_config returned

hvars == <<chCid, chSec, chPriv, chLock, chHolder, hConf, hErrata, hPc, hIdx,
           hResume, hSaved, hLast>>

\* the RIF registers of every channel, as the suspend callback reads them
Snapshot == [access |-> Channels,
             sec |-> {c \in Channels : chSec[c]},
             priv |-> {c \in Channels : chPriv[c]},
             lock |-> {c \in Channels : chLock[c]},
             cid |-> chCid]

NbChannels == Cardinality(Channels)

HpdmaTypeOK ==
    /\ chCid \in [Channels -> CidAttr]
    /\ chSec \in [Channels -> BOOLEAN] /\ chPriv \in [Channels -> BOOLEAN]
    /\ chLock \in [Channels -> BOOLEAN] /\ chHolder \in [Channels -> Holders]
    /\ hConf \in ConfTable \cup {NoConf}
    /\ hErrata \in BOOLEAN
    /\ hPc \in {"phase1", "phase2", "settle", "run", "suspended", "panic",
               "fault"}
    /\ hIdx \in 0 .. NbChannels /\ hResume \in BOOLEAN
    /\ hSaved \in ConfTable \cup {NoConf}
    /\ hLast \in {"none", "Success", "AccessDenied"}
    /\ isTdcid \in TdcidModes

-----------------------------------------------------------------------------
(* apply_rif_config().  Each step handles channel hIdx of one loop.        *)

\* a write of channel c's RIF configuration takes effect unless it is locked
Written(c, old, new) == IF chLock[c] THEN old ELSE new

InLoopPastEnd(i) == i <= NbChannels

\* "for (i = 0; i < HPDMA_RIF_CHANNELS; i++)"
InLoop(i) == i < NbChannels

\* "HPDMA channel cannot hold CID0 value"
ErrataForbids(a) ==
    \/ ~a.cfen
    \/ ~a.semen /\ a.scid = CID0
    \/ a.semen /\ CID0 \in a.semwl

\* return from apply_rif_config: a failure panics the probe and is ignored
\* by stm32_hpdma_pm_resume
Return(res) ==
    /\ hPc' = IF res = "Success" \/ hResume THEN "run" ELSE "panic"
    /\ hLast' = res
    /\ hIdx' = 0

\* the CFG_TEE_CORE_DEBUG read-back of PRIVCFGR and SECCFGR
ReadBackOk(sec, priv) ==
    /\ {c \in hConf.access : priv[c]} = hConf.priv
    /\ {c \in hConf.access : sec[c]} = hConf.sec

\* after the first loop: PRIVCFGR / SECCFGR of the channels in access_mask,
\* then, not TDCID, "goto end"
EndOfPhase1 ==
    LET sec  == [c \in Channels |-> IF c \in hConf.access
                                    THEN Written(c, chSec[c], c \in hConf.sec)
                                    ELSE chSec[c]]
        priv == [c \in Channels |-> IF c \in hConf.access
                                    THEN Written(c, chPriv[c], c \in hConf.priv)
                                    ELSE chPriv[c]]
    IN /\ chSec' = sec /\ chPriv' = priv
       /\ IF isTdcid
          THEN hPc' = "phase2" /\ hIdx' = 0 /\ UNCHANGED hLast
          ELSE IF ReadBackOk(sec, priv) THEN Return("Success")
          ELSE hPc' = "panic" /\ UNCHANGED <<hIdx, hLast>>

\* "if (!hpdma_d->conf_data) return TEE_SUCCESS"
ApplyNoConf ==
    /\ hPc = "phase1" /\ hConf = NoConf
    /\ Return("Success")
    /\ UNCHANGED <<chCid, chSec, chPriv, chLock, chHolder, hConf, hErrata,
                   hResume, hSaved, isTdcid>>

\* first loop: skip a channel outside access_mask; as TDCID clear its CID
\* configuration, then take its semaphore if in semaphore mode with CID1
\* white-listed
Phase1Channel ==
    /\ hPc = "phase1" /\ hConf # NoConf /\ InLoop(hIdx)
    /\ LET c == hIdx
           a == IF isTdcid THEN Written(c, chCid[c], CidCleared) ELSE chCid[c]
           h == AcquiredHolder(a, chHolder[c])
       IN IF c \notin hConf.access
          THEN hIdx' = hIdx + 1 /\ UNCHANGED <<chCid, chHolder, hPc, hLast>>
          ELSE /\ chCid' = [chCid EXCEPT ![c] = a]
               /\ IF SEM_MODE_INCORRECT(a)
                  THEN hIdx' = hIdx + 1 /\ UNCHANGED <<chHolder, hPc, hLast>>
                  ELSE /\ chHolder' = [chHolder EXCEPT ![c] = h]
                       /\ IF h = OpteeCid
                          THEN hIdx' = hIdx + 1 /\ UNCHANGED <<hPc, hLast>>
                          ELSE Return("AccessDenied")
    /\ UNCHANGED <<chSec, chPriv, chLock, hConf, hErrata, hResume, hSaved,
                   isTdcid>>

Phase1Done ==
    /\ hPc = "phase1" /\ hConf # NoConf /\ hIdx = NbChannels
    /\ EndOfPhase1
    /\ UNCHANGED <<chCid, chLock, chHolder, hConf, hErrata, hResume, hSaved,
                   isTdcid>>

SettleReleasesNoSec(a, sec) == SEM_MODE_INCORRECT(a)

\* the semaphore is released unless the CIDCFGR read back is in semaphore
\* mode with CID1 white-listed and the SECCFGR bit reads back set
SettleReleases(a, sec) == SEM_MODE_INCORRECT(a) \/ ~sec

\* second loop (TDCID only): errata check, then the CIDCFGR write
Phase2Channel ==
    /\ hPc = "phase2" /\ InLoop(hIdx)
    /\ LET c == hIdx
       IN CASE c \notin hConf.access ->
                 hIdx' = hIdx + 1 /\ UNCHANGED <<chCid, hPc>>
            [] hErrata /\ ErrataForbids(hConf.cid[c]) ->
                 hPc' = "panic" /\ UNCHANGED <<chCid, hIdx>>
            [] OTHER ->
                 /\ chCid' = [chCid EXCEPT ![c] = Written(c, chCid[c], hConf.cid[c])]
                 /\ hPc' = "settle" /\ UNCHANGED hIdx
    /\ UNCHANGED <<chSec, chPriv, chLock, chHolder, hConf, hErrata, hResume,
                   hSaved, hLast, isTdcid>>

\* CIDCFGR and SECCFGR read back: release or acquire the semaphore
Phase2Settle ==
    /\ hPc = "settle"
    /\ LET c == hIdx
           a == chCid[c]
           h == IF SettleReleases(a, chSec[c]) THEN ReleasedHolder(chHolder[c])
                ELSE AcquiredHolder(a, chHolder[c])
       IN /\ chHolder' = [chHolder EXCEPT ![c] = h]
          /\ IF SettleReleases(a, chSec[c]) \/ h = OpteeCid
             THEN hIdx' = hIdx + 1 /\ hPc' = "phase2" /\ UNCHANGED hLast
             ELSE Return("AccessDenied")
    /\ UNCHANGED <<chCid, chSec, chPriv, chLock, hConf, hErrata, hResume,
                   hSaved, isTdcid>>

\* RCFGLOCKR (its bits cannot be cleared before a reset), then "end:"
Phase2Done ==
    /\ hPc = "phase2" /\ hIdx = NbChannels
    /\ chLock' = [c \in Channels |-> chLock[c] \/ c \in hConf.lock]
    /\ IF ReadBackOk(chSec, chPriv) THEN Return("Success")
       ELSE hPc' = "panic" /\ UNCHANGED <<hIdx, hLast>>
    /\ UNCHANGED <<chCid, chSec, chPriv, chHolder, hConf, hErrata, hResume,
                   hSaved, isTdcid>>

-----------------------------------------------------------------------------
(* stm32_hpdma_pm(): only as TDCID and with the CONTEXT hint.  Suspend    *)
(* rebuilds conf_data from the registers of all channels (a NULL          *)
(* conf_data is dereferenced: "fault"); the context is then lost; resume  *)
(* runs apply_rif_config(hpdma, true).                                    *)

HpdmaPmActs == isTdcid

HpdmaPmSuspend ==
    /\ hPc = "run" /\ HpdmaPmActs
    /\ IF hConf = NoConf
       THEN hPc' = "fault" /\ UNCHANGED <<hConf, hSaved>>
       ELSE hPc' = "suspended" /\ hConf' = Snapshot /\ hSaved' = Snapshot
    /\ UNCHANGED <<chCid, chSec, chPriv, chLock, chHolder, hErrata, hIdx,
                   hResume, hLast, isTdcid>>

HpdmaContextLost ==
    /\ hPc = "suspended"
    /\ chCid' = [c \in Channels |-> CidCleared]
    /\ chSec' = [c \in Channels |-> FALSE] /\ chPriv' = [c \in Channels |-> FALSE]
    /\ chLock' = [c \in Channels |-> FALSE]
    /\ chHolder' = [c \in Channels |-> NoCid]
    /\ UNCHANGED <<hConf, hErrata, hPc, hIdx, hResume, hSaved, hLast,
                   isTdcid>>

HpdmaPmResume ==
    /\ hPc = "suspended"
    /\ hPc' = "phase1" /\ hIdx' = 0 /\ hResume' = TRUE
    /\ UNCHANGED <<chCid, chSec, chPriv, chLock, chHolder, hConf, hErrata,
                   hSaved, hLast, isTdcid>>

-----------------------------------------------------------------------------
(* The other compartments take and give back channel semaphores.          *)

ChannelTake(c, ch) ==
    /\ Takable(chCid[ch], chHolder[ch], c)
    /\ chHolder' = [chHolder EXCEPT ![ch] = c]
    /\ UNCHANGED <<chCid, chSec, chPriv, chLock, hConf, hErrata, hPc, hIdx,
                   hResume, hSaved, hLast, isTdcid>>

ChannelGive(c, ch) ==
    /\ chHolder[ch] = c
    /\ chHolder' = [chHolder EXCEPT ![ch] = NoCid]
    /\ UNCHANGED <<chCid, chSec, chPriv, chLock, hConf, hErrata, hPc, hIdx,
                   hResume, hSaved, hLast, isTdcid>>

\* stm32_hpdma_probe: parse_dt, then apply_rif_config(hpdma_d, is_tdcid);
\* every register starts at its reset value, CIDCFGR as the TDCID left it
HpdmaInit ==
    /\ isTdcid \in TdcidModes
    /\ chCid = HpdmaInitCid[isTdcid]
    /\ chSec = [c \in Channels |-> FALSE] /\ chPriv = [c \in Channels |-> FALSE]
    /\ chLock = [c \in Channels |-> FALSE]
    /\ chHolder = [c \in Channels |-> NoCid]
    /\ hConf \in HpdmaDts /\ hErrata \in ErrataChoices
    /\ hPc = "phase1" /\ hIdx = 0 /\ hResume = FALSE
    /\ hSaved = NoConf /\ hLast = "none"

HpdmaNext ==
    \/ ApplyNoConf \/ Phase1Channel \/ Phase1Done
    \/ Phase2Channel \/ Phase2Settle \/ Phase2Done
    \/ HpdmaPmSuspend \/ HpdmaContextLost \/ HpdmaPmResume
    \/ \E c \in Cids \ {OpteeCid}, ch \in Channels :
          ChannelTake(c, ch) \/ ChannelGive(c, ch)

HpdmaSpec == HpdmaInit /\ [][HpdmaNext]_<<hvars, isTdcid>>

-----------------------------------------------------------------------------
Configured == IF hConf = NoConf THEN {} ELSE hConf.access

(* Spec 3 and 4.3: when apply_rif_config has returned success, at probe or *)
(* at resume, OP-TEE holds the semaphore of exactly those configured       *)
(* channels whose CIDCFGR is in semaphore mode with CID1 white-listed and, *)
(* as TDCID, whose SECCFGR bit is set, whatever the other compartments did *)
(* with the semaphores during the two loops.                               *)
HpdmaSemaphoresSettled ==
    hPc = "run" /\ hLast = "Success" =>
        \A c \in Configured :
            chHolder[c] = OpteeCid
                <=> ~SEM_MODE_INCORRECT(chCid[c]) /\ (isTdcid => chSec[c])

(* The PM callback after a successful probe: a suspend/resume cycle of     *)
(* stm32_hpdma_pm neither faults nor panics, and once the resume has run   *)
(* the RIF registers of every channel are back as the suspend read them.   *)
HpdmaPmRestores ==
    /\ hResume \/ hLast = "Success" => hPc \notin {"panic", "fault"}
    /\ hPc = "run" /\ hResume => Snapshot = hSaved
=============================================================================
