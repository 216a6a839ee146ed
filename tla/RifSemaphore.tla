---------------------------- MODULE RifSemaphore ----------------------------
(***************************************************************************)
(* The RIF semaphore handshake of stm32_rif.c, one register access per     *)
(* step, racing the other compartments of the SoC on the same SEMCR.       *)
(*                                                                         *)
(* Hardware (SEMCR of one resource, reference-manual behaviour):           *)
(*   - writing MUTEX=1 as compartment c takes a free semaphore if c is in  *)
(*     the white list (SEMWL), SEMCID becoming c; otherwise it is ignored; *)
(*   - writing MUTEX=0 as c frees the semaphore if c holds it; otherwise   *)
(*     it is ignored.  SEMCID of a free semaphore is not specified: it may *)
(*     keep the last holder or read as 0.                                  *)
(* OP-TEE (compartment OpteeCid) runs stm32_rif_acquire_semaphore and      *)
(* stm32_rif_release_semaphore; every other compartment takes and gives    *)
(* the semaphore at any time.                                              *)
(***************************************************************************)
EXTENDS Naturals, Bitwise

CONSTANTS Cids, OpteeCid, WhiteList, NoCid,
          NbCidSupp     \* nb_cid_supp, MAX_CID_SUPPORTED at every call

ASSUME /\ OpteeCid \in Cids /\ WhiteList \subseteq Cids /\ NoCid = 0
       /\ Cids \subseteq 1 .. NbCidSupp

VARIABLES
    mutex,      \* SEMCR.MUTEX
    semcid,     \* SEMCR.SEMCID
    pc,         \* OP-TEE's position in the semaphore functions
    result      \* value returned by OP-TEE's last call, or "none"

vars == <<mutex, semcid, pc, result>>

AcquirePcs == {"acq_set", "acq_chk_free", "acq_chk_cid"}
ReleasePcs == {"rel_chk_free", "rel_clr", "rel_chk_free2", "rel_chk_cid"}

TypeOK ==
    /\ mutex \in BOOLEAN
    /\ semcid \in Cids \cup {NoCid}
    /\ pc \in {"idle"} \cup AcquirePcs \cup ReleasePcs
    /\ result \in {"none", "Success", "AccessDenied"}

-----------------------------------------------------------------------------
(* Hardware effect of a write of SEMCR.MUTEX by compartment c.             *)

HwSetMutex(c) ==
    IF ~mutex /\ c \in WhiteList
    THEN mutex' = TRUE /\ semcid' = c
    ELSE UNCHANGED <<mutex, semcid>>

HwClearMutex(c) ==
    IF mutex /\ semcid = c
    THEN mutex' = FALSE /\ semcid' \in {semcid, NoCid}
    ELSE UNCHANGED <<mutex, semcid>>

(* The SEMCID field as the two functions read it back: scid_mask is       *)
(* GENMASK_32(_CIDCFGR_SCID_SHIFT + msb, _CIDCFGR_SCID_SHIFT) with msb the  *)
(* index of the highest bit of nb_cid_supp (31 - __builtin_clz(n | 1)).   *)

MsbNbCidSupp(n) == CHOOSE k \in 0 .. 31 : 2^k <= (n | 1) /\ (n | 1) < 2^(k + 1)

\* a mask one bit short, as GENMASK_32(SHIFT + msb - 1, SHIFT) would give
ScidWidthShort(n) == MsbNbCidSupp(n)

ScidWidth(n) == MsbNbCidSupp(n) + 1

ReadSemcid == semcid % 2^ScidWidth(NbCidSupp)

\* stm32_rif_is_semaphore_available()
SemaphoreAvailable == ~mutex

Return(r) == pc' = "idle" /\ result' = r

-----------------------------------------------------------------------------
(* stm32_rif_acquire_semaphore()                                           *)

CallAcquire ==
    /\ pc = "idle"
    /\ pc' = "acq_set"
    /\ UNCHANGED <<mutex, semcid, result>>

\* io_setbits32(addr, _SEMCR_MUTEX)
AcquireSetMutex ==
    /\ pc = "acq_set"
    /\ HwSetMutex(OpteeCid)
    /\ pc' = "acq_chk_free"
    /\ UNCHANGED result

\* first operand of the || : the semaphore reads back free
AcquireCheckAvailable ==
    /\ pc = "acq_chk_free"
    /\ IF SemaphoreAvailable
       THEN Return("AccessDenied")
       ELSE pc' = "acq_chk_cid" /\ UNCHANGED result
    /\ UNCHANGED <<mutex, semcid>>

\* an acquire that returns an initial res = TEE_ERROR_GENERIC when denied
AcquireCheckCidGeneric ==
    /\ pc = "acq_chk_cid"
    /\ Return(IF ReadSemcid # OpteeCid THEN "Generic" ELSE "Success")
    /\ UNCHANGED <<mutex, semcid>>

\* second operand: a second read of SEMCR, SEMCID compared with RIF_CID1
AcquireCheckCid ==
    /\ pc = "acq_chk_cid"
    /\ Return(IF ReadSemcid # OpteeCid THEN "AccessDenied" ELSE "Success")
    /\ UNCHANGED <<mutex, semcid>>

-----------------------------------------------------------------------------
(* stm32_rif_release_semaphore()                                           *)

CallRelease ==
    /\ pc = "idle"
    /\ pc' = "rel_chk_free"
    /\ UNCHANGED <<mutex, semcid, result>>

\* an already free semaphore is released without a write
ReleaseCheckAvailable ==
    /\ pc = "rel_chk_free"
    /\ IF SemaphoreAvailable
       THEN Return("Success")
       ELSE pc' = "rel_clr" /\ UNCHANGED result
    /\ UNCHANGED <<mutex, semcid>>

\* io_clrbits32(addr, _SEMCR_MUTEX)
ReleaseClearMutex ==
    /\ pc = "rel_clr"
    /\ HwClearMutex(OpteeCid)
    /\ pc' = "rel_chk_free2"
    /\ UNCHANGED result

\* "Ok if another compartment takes the semaphore before the check"
ReleaseCheckTaken ==
    /\ pc = "rel_chk_free2"
    /\ IF ~SemaphoreAvailable
       THEN pc' = "rel_chk_cid" /\ UNCHANGED result
       ELSE Return("Success")
    /\ UNCHANGED <<mutex, semcid>>

ReleaseCheckCid ==
    /\ pc = "rel_chk_cid"
    /\ Return(IF ReadSemcid = OpteeCid THEN "AccessDenied" ELSE "Success")
    /\ UNCHANGED <<mutex, semcid>>

-----------------------------------------------------------------------------
(* The other compartments, only their effective writes.                    *)

OtherTake(c) ==
    /\ ~mutex /\ c \in WhiteList
    /\ HwSetMutex(c)
    /\ UNCHANGED <<pc, result>>

OtherGive(c) ==
    /\ mutex /\ semcid = c
    /\ HwClearMutex(c)
    /\ UNCHANGED <<pc, result>>

Init ==
    /\ mutex = FALSE
    /\ semcid = NoCid
    /\ pc = "idle"
    /\ result = "none"

Next ==
    \/ CallAcquire \/ AcquireSetMutex \/ AcquireCheckAvailable
    \/ AcquireCheckCid
    \/ CallRelease \/ ReleaseCheckAvailable \/ ReleaseClearMutex
    \/ ReleaseCheckTaken \/ ReleaseCheckCid
    \/ \E c \in Cids \ {OpteeCid} : OtherTake(c) \/ OtherGive(c)

Spec == Init /\ [][Next]_vars

-----------------------------------------------------------------------------
(* Refinement: the register-level handshake implements RifSemaphoreSpec.   *)
(* The holder is SEMCID while MUTEX is set; a call is in progress while    *)
(* OP-TEE is inside one of the two functions.                              *)

AbsHolder == IF mutex THEN semcid ELSE NoCid
AbsCall   == IF pc \in AcquirePcs THEN "acquire"
             ELSE IF pc \in ReleasePcs THEN "release" ELSE "none"

Abs == INSTANCE RifSemaphoreSpec WITH holder <- AbsHolder, call <- AbsCall

\* Every result the two functions return is true of the semaphore when they
\* return, whatever the other compartments did between the write and the
\* read-backs of stm32_rif_acquire/release_semaphore, and OP-TEE changes
\* the holder only by the write of the call in progress.
SemaphoreRefinement == Abs!Spec
=============================================================================
