------------------------------- MODULE RifCid -------------------------------
(***************************************************************************)
(* The CIDCFGR word and the semaphore calls of stm32_rif.h / stm32_rif.c,  *)
(* as the drivers that apply a RIF configuration to their own registers    *)
(* (PWR, HPDMA) use them.  A CIDCFGR value is a record of its fields; a    *)
(* semaphore is its holder (NoCid when free).  The register-level          *)
(* handshake is RifSemaphore, shown there to implement RifSemaphoreSpec,   *)
(* whose atomic effect AcquiredHolder / ReleasedHolder are.                *)
(***************************************************************************)
EXTENDS Naturals

CONSTANTS
    Cids,       \* compartments that may appear in SCID / SEMWL / SEMCID
    OpteeCid,   \* RIF_CID1
    NoCid,      \* holder of a free semaphore
    TdcidModes, \* what stm32_rifsc_check_tdcid() may report
    NoConf      \* no "st,protreg" in the DT: conf_data stays NULL

ASSUME OpteeCid \in Cids /\ NoCid \notin Cids /\ TdcidModes \subseteq BOOLEAN

\* is_tdcid as stm32_rifsc_check_tdcid() reports it: fixed at boot, shared
\* by every driver that applies a RIF configuration
VARIABLE isTdcid

\* RIF_CID0, the compartment the AHB RISAB errata forbids
CID0 == 0

CidAttr == [cfen : BOOLEAN, semen : BOOLEAN, scid : Cids \cup {CID0},
            semwl : SUBSET (Cids \cup {CID0})]

\* CIDCFGR after io_clrbits32(.., CONF_MASK) of every field
CidCleared == [cfen |-> FALSE, semen |-> FALSE, scid |-> CID0, semwl |-> {}]

Holders == Cids \cup {NoCid}

SEM_MODE_INCORRECT(a) == ~a.cfen \/ ~a.semen \/ OpteeCid \notin a.semwl
SEM_EN_AND_OK(a, c)   == a.cfen /\ a.semen /\ c \in a.semwl

\* SEMCR: a MUTEX write by c takes the free semaphore when the CIDCFGR
\* enables filtering and semaphore mode and white-lists c
Takable(a, h, c) == h = NoCid /\ SEM_EN_AND_OK(a, c)

\* stm32_rif_acquire_semaphore: the holder after the call; the call
\* succeeds iff that is OP-TEE
AcquiredHolder(a, h) == IF Takable(a, h, OpteeCid) THEN OpteeCid ELSE h

\* stm32_rif_release_semaphore: succeeds, freeing OP-TEE's semaphore
ReleasedHolder(h) == IF h = OpteeCid THEN NoCid ELSE h
=============================================================================
