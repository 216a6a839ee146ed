-------------------------------- MODULE Rifsc --------------------------------
(***************************************************************************)
(* The RISUP part of the RIFSC driver (stm32_rifsc.c): the probe-time      *)
(* configuration of every peripheral listed in "st,protreg", the runtime   *)
(* firewall operations set_conf / acquire_access / release_access, the     *)
(* exported stm32_rifsc_reconfigure_risup(), and the semaphore PM          *)
(* callback, against the RIFSC registers and the other compartments.       *)
(*                                                                         *)
(* Registers of peripheral r: hwSec[r] (RISC_SECCFGR bit), hwCid[r]        *)
(* (RISC_PERx_CIDCFGR), hwLock[r] (RISC_RCFGLOCKR bit), and the semaphore  *)
(* of RISC_PERx_SEMCR seen through RifSemaphoreSpec: holder[r].  A locked  *)
(* peripheral ignores writes of its SEC and CID configuration; CIDCFGR is  *)
(* written only by the TDCID.  The privilege bit is written exactly like   *)
(* the security bit and no property reads it: it is left out.  RIMU, RISAL *)
(* and the global locks are not part of this module.                       *)
(*                                                                         *)
(* OP-TEE's copy of the DT configuration is risup, a sequence in the order *)
(* of "st,protreg" (rifsc_pdata.risup[]).                                   *)
(***************************************************************************)
EXTENDS Naturals, Sequences, FiniteSets

CONSTANTS
    NbRisup,        \* nb_risup read from RIFSC_HWCFGR2
    Cids,           \* compartment identifiers
    OpteeCid,       \* RIF_CID1
    NoCid,          \* holder of a free semaphore
    TdcidModes,     \* what stm32_rifsc_check_tdcid() may report at boot
    DtRisup,        \* the "st,protreg" cells, decoded: <<[id, sec, lock, cid]>>
    InitCid,        \* CIDCFGR of each peripheral when OP-TEE starts, per mode
    SetConfRequests,\* RIF configurations a driver may pass to set_conf
    MaxCid          \* MAX_CID_SUPPORTED

Resources == 0 .. NbRisup - 1

CidAttr == [cfen : BOOLEAN, semen : BOOLEAN, scid : Cids \cup {0},
            semwl : SUBSET Cids]
RisupCfg == [id : Resources, sec : BOOLEAN, lock : BOOLEAN, cid : CidAttr]

ASSUME /\ OpteeCid \in Cids /\ NoCid \notin Cids
       /\ DtRisup \in Seq(RisupCfg) /\ TdcidModes \subseteq BOOLEAN
       /\ \A b \in TdcidModes : InitCid[b] \in [Resources -> CidAttr]
       /\ SetConfRequests \subseteq RisupCfg

VARIABLES
    hwSec, hwCid, hwLock,   \* RIFSC registers
    holder,                 \* holder of each peripheral's semaphore
    risup,                  \* rifsc_pdata.risup[]
    pmSem,                  \* risup->pm_sem, per entry of risup
    pc, idx,                \* probe / run / resume position, loop index
    savedHeld,              \* history: semaphores OP-TEE held at suspend
    last,                   \* history: the last operation and its result
    isTdcid                 \* is_tdcid, fixed by the boot-time strap

vars == <<hwSec, hwCid, hwLock, holder, risup, pmSem, pc, idx, savedHeld,
          last, isTdcid>>

\* the req field of last for an operation that has no configuration
NoReq == [id |-> 0, sec |-> FALSE, lock |-> FALSE,
          cid |-> [cfen |-> FALSE, semen |-> FALSE, scid |-> 0, semwl |-> {}]]

Results == {"Success", "AccessDenied", "BadParameters"}

TypeOK ==
    /\ hwSec \in [Resources -> BOOLEAN]
    /\ hwCid \in [Resources -> CidAttr]
    /\ hwLock \in [Resources -> BOOLEAN]
    /\ holder \in [Resources -> Cids \cup {NoCid}]
    /\ risup \in Seq(RisupCfg) /\ Len(risup) = Len(DtRisup)
    /\ pmSem \in [1 .. Len(DtRisup) -> BOOLEAN]
    /\ pc \in {"probe", "run", "suspended", "resume", "panic", "ub"}
    /\ idx \in 1 .. Len(DtRisup) + 1
    /\ savedHeld \subseteq Resources
    /\ last \in [op : {"none", "probe", "set_conf", "reconfigure",
                       "acquire", "release", "suspend", "resume"},
                 r : 0 .. NbRisup + 1, res : Results, req : RisupCfg]
    /\ isTdcid \in TdcidModes

-----------------------------------------------------------------------------
(* Bit tests of stm32_rif.h on a CIDCFGR value.                            *)

SEM_MODE_INCORRECT(a) == ~a.cfen \/ ~a.semen \/ OpteeCid \notin a.semwl
SEM_EN_AND_OK(a, c)   == a.cfen /\ a.semen /\ c \in a.semwl
SCID_OK(a, c)         == a.scid = c /\ ~a.semen

\* Hardware: a write of MUTEX=1 by c takes the free semaphore when CID
\* filtering and semaphore mode are on and c is white-listed.
Takable(a, h, c) == h = NoCid /\ SEM_EN_AND_OK(a, c)

\* stm32_rif_acquire_semaphore / stm32_rif_release_semaphore, as their
\* effect on the holder (RifSemaphore shows the handshake implements this).
AcquiredHolder(a, h) == IF Takable(a, h, OpteeCid) THEN OpteeCid ELSE h
\* a release whose early "already available" test is inverted never clears
ReleasedHolderInverted(h) == h

ReleasedHolder(h)    == IF h = OpteeCid THEN NoCid ELSE h

\* the loops stopping one entry early (i < nrisup - 1)
LoopShort(n) == IF n - 1 < NbRisup THEN n - 1 ELSE NbRisup - 1

Loop(n) == IF n < NbRisup THEN n ELSE NbRisup   \* i < nrisup && i < nb_risup

\* stm32_risup_cfg takes the semaphore only without SEC read back clear
SemSettleReleasesNoSec(a, sec) == SEM_MODE_INCORRECT(a)

\* the semaphore is released when the configuration is not in semaphore
\* mode with CID1 white-listed, or the SECCFGR bit reads back clear
SemSettleReleases(a, sec) == SEM_MODE_INCORRECT(a) \/ ~sec

-----------------------------------------------------------------------------
(* stm32_risup_cfg(): SEC bit, then (TDCID only) CIDCFGR and lock, then    *)
(* take the semaphore when the configuration asks for it and the SEC bit   *)
(* reads back set, release it otherwise.  Returns the new register values  *)
(* and the result as a record.                                             *)

\* the result of the acquire not checked: only a failed release is an error
CfgSucceededNoAcquireCheck(settle, h) == settle => h # OpteeCid

\* "if (res) return TEE_ERROR_ACCESS_DENIED" after the release or acquire
CfgSucceeded(settle, h) == IF settle THEN h # OpteeCid ELSE h = OpteeCid

RisupCfgEffect(c) ==
    LET r      == c.id
        sec    == IF hwLock[r] THEN hwSec[r] ELSE c.sec
        cid    == IF isTdcid /\ ~hwLock[r] THEN c.cid ELSE hwCid[r]
        lock   == hwLock[r] \/ (isTdcid /\ c.lock)
        settle == SemSettleReleases(c.cid, sec)
        h      == IF settle THEN ReleasedHolder(holder[r])
                  ELSE AcquiredHolder(cid, holder[r])
        ok     == CfgSucceeded(settle, h)
    IN [sec |-> sec, cid |-> cid, lock |-> lock, holder |-> h,
        res |-> IF ok THEN "Success" ELSE "AccessDenied"]

ApplyRisupCfg(c, e) ==
    /\ hwSec' = [hwSec EXCEPT ![c.id] = e.sec]
    /\ hwCid' = [hwCid EXCEPT ![c.id] = e.cid]
    /\ hwLock' = [hwLock EXCEPT ![c.id] = e.lock]
    /\ holder' = [holder EXCEPT ![c.id] = e.holder]

-----------------------------------------------------------------------------
(* Probe: stm32_risup_setup() walks the DT entries; any error panics.      *)

ProbeRisup ==
    /\ pc = "probe" /\ idx <= Loop(Len(risup))
    /\ LET c == risup[idx]
           e == RisupCfgEffect(c)
       IN /\ ApplyRisupCfg(c, e)
          /\ pc' = IF e.res = "Success" THEN "probe" ELSE "panic"
          /\ idx' = idx + 1
          /\ last' = [op |-> "probe", r |-> c.id, res |-> e.res, req |-> c]
    /\ UNCHANGED <<risup, pmSem, savedHeld, isTdcid>>

ProbeDone ==
    /\ pc = "probe" /\ idx > Loop(Len(risup))
    /\ pc' = "run" /\ idx' = 1
    /\ UNCHANGED <<hwSec, hwCid, hwLock, holder, risup, pmSem, savedHeld,
                   last, isTdcid>>

-----------------------------------------------------------------------------
(* stm32_rifsc_set_config() for a RISUP: a non-TDCID caller must pass the  *)
(* CIDCFGR value already in the register.                                  *)

SetConfig(c) ==
    /\ pc = "run"
    /\ IF ~isTdcid /\ hwCid[c.id] # c.cid
       THEN /\ last' = [op |-> "set_conf", r |-> c.id,
                        res |-> "BadParameters", req |-> c]
            /\ UNCHANGED <<hwSec, hwCid, hwLock, holder>>
       ELSE LET e == RisupCfgEffect(c)
            IN /\ ApplyRisupCfg(c, e)
               /\ last' = [op |-> "set_conf", r |-> c.id, res |-> e.res,
                           req |-> c]
    /\ UNCHANGED <<risup, pmSem, pc, idx, savedHeld, isTdcid>>

(* stm32_rifsc_reconfigure_risup(risup_id, cid, sec, priv, cfen): rejects  *)
(* risup_id > nb_risup, reads the lock bit of risup_id, rewrites entry     *)
(* risup_id of rifsc_pdata.risup[] and configures that entry.  An index    *)
(* past the array is undefined behaviour: pc becomes "ub".                 *)
(* The DT peripheral ids of the model lie in 0 .. NbRisup - 1, so the     *)
(* risup->id >= nb_risup check of stm32_risup_cfg never rejects an entry   *)
(* here; it would for an entry past nb_risup, which probe skips.           *)

\* the argument check without its bound on cid
ReconfigureRejectsNoCidCheck(rid, cid) == rid > NbRisup

ReconfigureRejects(rid, cid) == rid > NbRisup \/ cid > MaxCid

LockBit(rid) == rid \in Resources /\ hwLock[rid]   \* no such bit reads 0

ReconfigureRisup(rid, cid, sec, cfen) ==
    /\ pc = "run"
    /\ CASE ReconfigureRejects(rid, cid) ->
            /\ last' = [last EXCEPT !.op = "reconfigure",
                                    !.res = "BadParameters"]
            /\ UNCHANGED <<hwSec, hwCid, hwLock, holder, risup, pc>>
         [] LockBit(rid) ->
            /\ last' = [last EXCEPT !.op = "reconfigure", !.r = rid,
                                    !.res = "AccessDenied"]
            /\ UNCHANGED <<hwSec, hwCid, hwLock, holder, risup, pc>>
         [] rid >= Len(risup) ->
            /\ pc' = "ub"
            /\ UNCHANGED <<hwSec, hwCid, hwLock, holder, risup, last>>
         [] OTHER ->
            LET c == [risup[rid + 1] EXCEPT !.sec = sec,
                        !.cid = [cfen |-> cfen, semen |-> FALSE,
                                 scid |-> cid, semwl |-> {}]]
                e == RisupCfgEffect(c)
            IN /\ risup' = [risup EXCEPT ![rid + 1] = c]
               /\ ApplyRisupCfg(c, e)
               /\ last' = [op |-> "reconfigure", r |-> rid, res |-> e.res,
                           req |-> [c EXCEPT !.id = rid]]
               /\ UNCHANGED pc
    /\ UNCHANGED <<pmSem, idx, savedHeld, isTdcid>>

(* stm32_rifsc_acquire_access(): the peripheral must be secure; with CID   *)
(* filtering on, take the semaphore or match the static CID.               *)

AcquireAccess(r) ==
    /\ pc = "run"
    /\ LET a   == hwCid[r]
           h   == IF hwSec[r] /\ SEM_EN_AND_OK(a, OpteeCid)
                  THEN AcquiredHolder(a, holder[r]) ELSE holder[r]
           res == CASE ~hwSec[r]                         -> "AccessDenied"
                    [] ~a.cfen                           -> "Success"
                    [] a.semen /\ ~SEM_EN_AND_OK(a, OpteeCid)
                                                         -> "BadParameters"
                    [] a.semen /\ h = OpteeCid           -> "Success"
                    [] a.semen                           -> "AccessDenied"
                    [] SCID_OK(a, OpteeCid)              -> "Success"
                    [] OTHER                             -> "AccessDenied"
       IN /\ holder' = [holder EXCEPT ![r] = IF hwSec[r] THEN h ELSE @]
          /\ last' = [op |-> "acquire", r |-> r, res |-> res, req |-> NoReq]
    /\ UNCHANGED <<hwSec, hwCid, hwLock, risup, pmSem, pc, idx, savedHeld,
                   isTdcid>>

(* stm32_rifsc_release_access(): release a semaphore OP-TEE may hold.      *)

ReleaseAccess(r) ==
    /\ pc = "run"
    /\ holder' = IF SEM_EN_AND_OK(hwCid[r], OpteeCid)
                 THEN [holder EXCEPT ![r] = ReleasedHolder(@)]
                 ELSE holder
    /\ last' = [op |-> "release", r |-> r, res |-> "Success", req |-> NoReq]
    /\ UNCHANGED <<hwSec, hwCid, hwLock, risup, pmSem, pc, idx, savedHeld,
                   isTdcid>>

-----------------------------------------------------------------------------
(* Low power.  stm32_rifsc_sem_pm_suspend() records, for entry i of        *)
(* risup, whether CID1 holds the semaphore of PER<i>_SEMCR; the context is *)
(* then lost (every semaphore is free again); stm32_rifsc_sem_pm_resume()  *)
(* reloads each entry from the registers of peripheral risup[i].id and     *)
(* takes its semaphore again when pm_sem is set.                           *)

SemPmSuspend ==
    /\ pc = "run"
    /\ pmSem' = [i \in 1 .. Len(risup) |->
                   IF i <= Loop(Len(risup)) THEN holder[i - 1] = OpteeCid
                   ELSE pmSem[i]]
    /\ savedHeld' = {r \in Resources : holder[r] = OpteeCid}
    /\ pc' = "suspended"
    /\ last' = [op |-> "suspend", r |-> 0, res |-> "Success", req |-> NoReq]
    /\ UNCHANGED <<hwSec, hwCid, hwLock, holder, risup, idx, isTdcid>>

ContextLost ==
    /\ pc = "suspended"
    /\ holder' = [r \in Resources |-> NoCid]
    /\ pc' = "resume" /\ idx' = 1
    /\ UNCHANGED <<hwSec, hwCid, hwLock, risup, pmSem, savedHeld, last,
                   isTdcid>>

SemPmResumeEntry ==
    /\ pc = "resume" /\ idx <= Loop(Len(risup))
    /\ LET r  == risup[idx].id
           c  == [risup[idx] EXCEPT !.sec = hwSec[r], !.lock = hwLock[r],
                                    !.cid = hwCid[r]]
           go == ~SEM_MODE_INCORRECT(c.cid) /\ pmSem[idx]
           h  == IF go THEN AcquiredHolder(c.cid, holder[r]) ELSE holder[r]
       IN /\ risup' = [risup EXCEPT ![idx] = c]
          /\ holder' = [holder EXCEPT ![r] = h]
          /\ IF go /\ h # OpteeCid
             THEN /\ pc' = "run" /\ idx' = 1
                  /\ last' = [op |-> "resume", r |-> r,
                              res |-> "AccessDenied", req |-> NoReq]
             ELSE /\ idx' = idx + 1
                  /\ UNCHANGED <<pc, last>>
    /\ UNCHANGED <<hwSec, hwCid, hwLock, pmSem, savedHeld, isTdcid>>

SemPmResumeDone ==
    /\ pc = "resume" /\ idx > Loop(Len(risup))
    /\ pc' = "run" /\ idx' = 1
    /\ last' = [op |-> "resume", r |-> 0, res |-> "Success", req |-> NoReq]
    /\ UNCHANGED <<hwSec, hwCid, hwLock, holder, risup, pmSem, savedHeld,
                   isTdcid>>

-----------------------------------------------------------------------------
(* The other compartments take and give back semaphores at any time.       *)

OtherTake(c, r) ==
    /\ Takable(hwCid[r], holder[r], c)
    /\ holder' = [holder EXCEPT ![r] = c]
    /\ UNCHANGED <<hwSec, hwCid, hwLock, risup, pmSem, pc, idx, savedHeld,
                   last, isTdcid>>

OtherGive(c, r) ==
    /\ holder[r] = c
    /\ holder' = [holder EXCEPT ![r] = NoCid]
    /\ UNCHANGED <<hwSec, hwCid, hwLock, risup, pmSem, pc, idx, savedHeld,
                   last, isTdcid>>

Init ==
    /\ hwSec = [r \in Resources |-> FALSE]
    /\ isTdcid \in TdcidModes
    /\ hwCid = InitCid[isTdcid]
    /\ hwLock = [r \in Resources |-> FALSE]
    /\ holder = [r \in Resources |-> NoCid]
    /\ risup = DtRisup
    /\ pmSem = [i \in 1 .. Len(DtRisup) |-> FALSE]
    /\ pc = "probe" /\ idx = 1
    /\ savedHeld = {}
    /\ last = [op |-> "none", r |-> 0, res |-> "Success", req |-> NoReq]

\* no operation changes the TDCID state: every action leaves isTdcid alone
Next ==
    \/ ProbeRisup \/ ProbeDone
    \/ \E c \in SetConfRequests : SetConfig(c)
    \/ \E rid \in 0 .. NbRisup + 1, cid \in Cids \cup {MaxCid + 1}, sec, cfen \in BOOLEAN :
          ReconfigureRisup(rid, cid, sec, cfen)
    \/ \E r \in Resources : AcquireAccess(r) \/ ReleaseAccess(r)
    \/ SemPmSuspend \/ ContextLost \/ SemPmResumeEntry \/ SemPmResumeDone
    \/ \E c \in Cids \ {OpteeCid}, r \in Resources :
          OtherTake(c, r) \/ OtherGive(c, r)

Spec == Init /\ [][Next]_vars

-----------------------------------------------------------------------------
DtIds == {DtRisup[i].id : i \in 1 .. Len(DtRisup)}

OpteeHolds(r) == holder[r] = OpteeCid
Shareable(r)  == hwSec[r] /\ SEM_EN_AND_OK(hwCid[r], OpteeCid)

(* OP-TEE never keeps the semaphore of a peripheral that is not secure or  *)
(* not shared with CID1 through the semaphore: stm32_risup_cfg releases,   *)
(* on every reconfiguration, what acquire_access and the PM resume took.   *)
OpteeHoldsOnlyWhereAllowed ==
    \A r \in Resources : OpteeHolds(r) => Shareable(r)

(* When stm32_risup_cfg succeeds at probe or for set_conf, the semaphore   *)
(* state of the peripheral agrees with its registers: OP-TEE holds it iff  *)
(* the peripheral is secure and in semaphore mode with CID1 white-listed.  *)
ConfigSettlesSemaphore ==
    last.op \in {"probe", "set_conf"} /\ last.res = "Success"
        => (OpteeHolds(last.r) <=> Shareable(last.r))

(* After stm32_rifsc_sem_pm_resume succeeds, OP-TEE holds again every      *)
(* semaphore of a DT-listed peripheral it held when the suspend callback   *)
(* ran.                                                                    *)
ResumeRestoresSemaphores ==
    pc = "run" /\ last.op = "resume" /\ last.res = "Success"
        => \A r \in savedHeld \cap DtIds : OpteeHolds(r)

(* stm32_rifsc_reconfigure_risup(risup_id, ...) addresses peripheral      *)
(* risup_id: it never indexes past rifsc_pdata.risup[], and when it        *)
(* returns success it has applied the requested security and CID          *)
(* configuration to that peripheral.                                       *)
ReconfigureTargetsRequested ==
    /\ pc # "ub"
    /\ last.op = "reconfigure" /\ last.res = "Success"
        => /\ hwSec[last.r] = last.req.sec
           /\ hwCid[last.r] = last.req.cid

=============================================================================
