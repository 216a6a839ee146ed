----------------------------- MODULE Remoteproc -----------------------------
(***************************************************************************)
(* The remote processor driver stm32_remoteproc.c, compatible              *)
(* "st,stm32mp2-m33-tee" (firmware loaded by OP-TEE), and its PTA          *)
(* remoteproc_pta.c, composed with the RISAF instance (Risaf) that filters *)
(* the memory of the Cortex-M33.  The driver switches each of its memory   *)
(* regions between two alternate firewall configurations, "default" and    *)
(* "load", through set_memory_conf of the RISAF; m_get_cnt balances the    *)
(* get and release calls.  Starting the firmware writes the A35SSC boot    *)
(* registers and pulses hold_boot; the M33 then boots with the TrustZone   *)
(* extension TZEN_CR.CFG_SECEXT has at that moment.                        *)
(*                                                                         *)
(* The remoteproc TA is single-instance: its PTA calls are serialised, and *)
(* each is one step here.  PM callbacks run with no PTA call in progress.  *)
(* The resets are RCC bits whose assert and deassert succeed.              *)
(***************************************************************************)
EXTENDS Risaf, Integers, Sequences

CONSTANTS
    RprocDtChoices, \* candidate "memory-region" lists of the rproc node:
                    \* [1..n -> [addr, size, dflt, load]], the last two the
                    \* RISAF queries of the "default" and "load" confs
    DmaRangesChoices, \* candidate dma-ranges of the parent bus, <<>> for none:
                    \* [1..k -> [da, pa, size]]
    BootAddrs,      \* values the TA passes with PTA_REMOTEPROC_TLV_BOOTADDR
    Segments,       \* [da, size] of the segments and areas the TA names
    MaxCnt          \* bound on m_get_cnt

VARIABLES
    rdt,      \* the rproc node: [mem |-> "memory-region" list, ranges |-> dma-ranges],
              \* and lp64, whether the core is built for __LP64__
    mems,     \* rproc->regions[]: [addr, size, da, dflt, load]
    rproc,    \* "absent" before probe, "registered" in rproc_list, "failed"
    session,  \* the remoteproc TA has an open session on the PTA
    taState,  \* rproc_ta_state
    bootAddr, \* rproc->boot_addr, 0 when unset
    tzen,     \* rproc->tzen
    getCnt,   \* rproc->m_get_cnt (see U32Ne0)
    a35ssc,   \* A35SSC: [secext |-> TZEN_CR.CFG_SECEXT, access |-> M33CFG_ACCESS_CR]
    m33       \* the M33: [run, sec, req], req the rproc->tzen it was started with

rvars == <<rdt, mems, rproc, session, taState, bootAddr, tzen, getCnt, a35ssc, m33>>
allVars == <<vars, rvars>>
\* the Risaf variables but its history variable, which the calls here set
risafState == <<dt, hw, regions, clk, pc, pidx, power, ctxHint, saved>>

RprocResults == Results \cup {"BadState", "NotSupported", "NotImplemented",
                              "Security", "SignatureInvalid"}
RprocOps == {"open", "caps", "load", "set_memory", "da_to_pa", "start", "stop",
             "digest", "tlv", "clean", "get_mem", "release_mem", "reset"}
Mem == [addr : Nat, size : Nat, da : Nat, dflt : CfgWord, load : CfgWord]
M33CfgFull == {"SEC", "PRIV"}

RprocTypeOK ==
    /\ rdt \in [mem : RprocDtChoices, ranges : DmaRangesChoices, lp64 : BOOLEAN]
    /\ mems \in Seq(Mem)
    /\ rproc \in {"absent", "registered", "failed"} /\ session \in BOOLEAN
    /\ taState \in {"OFF", "ON"}
    /\ bootAddr \in {0} \cup BootAddrs /\ tzen \in BOOLEAN
    /\ getCnt \in 0 .. MaxCnt
    /\ a35ssc \in [secext : BOOLEAN, access : SUBSET M33CfgFull]
    /\ m33 \in [run : BOOLEAN, sec : BOOLEAN, req : BOOLEAN]
    /\ StateTypeOK
    /\ last \in [op : Ops \cup RprocOps, res : RprocResults]

-----------------------------------------------------------------------------
(* Helpers                                                                 *)

\* core_is_buffer_inside(a, l, b, bl)
Inside(a, l, b, bl) == b <= a /\ a + l <= b + bl

\* m_get_cnt is a uint32_t: getCnt stands for getCnt % 2^32, which for
\* |getCnt| < 2^32 is non-zero, or above 1, under these conditions
U32Ne0(c) == c # 0
U32Gt1(c) == c > 1 \/ c < 0

\* the first element of a non-empty set of indices
First(S) == CHOOSE i \in S : \A j \in S : i <= j

\* fdt32_to_cpu on a little-endian core: the bytes of a 32-bit cell reversed
Swap32(x) == (x % 256) * 2^24 + ((x \div 256) % 256) * 2^16
                + ((x \div 2^16) % 256) * 2^8 + ((x \div 2^24) % 256)

\* the CPU address the loop reads from a range of the DT whose pa is below
\* 2^32: the 32-bit build converts its cell; the __LP64__ build converts the
\* high cell (0) and ORs in the low cell unconverted, i.e. byte-swapped
RangePa(pa, lp64) == IF lp64 THEN Swap32(pa) ELSE pa

\* stm32_rproc_get_dma_range: the device address of [addr, addr + size),
\* or -1 for TEE_ERROR_BAD_PARAMETERS
DmaDa(addr, size, ranges, lp64) ==
    IF ranges = <<>> THEN addr
    ELSE LET pa(k) == RangePa(ranges[k].pa, lp64)
             in == {k \in DOMAIN ranges :
                        Inside(addr, size, pa(k), ranges[k].size)}
         IN IF in = {} THEN -1
            ELSE ranges[First(in)].da + (addr - pa(First(in)))

\* stm32_rproc_parse_mems: the regions it registers, or <<>> on failure
ParseMems(dtm, ranges, lp64) ==
    IF /\ dtm # <<>>
       /\ \A i \in DOMAIN dtm :
             /\ dtm[i].addr > 0 /\ dtm[i].size > 0
             /\ DmaDa(dtm[i].addr, dtm[i].size, ranges, lp64) >= 0
    THEN [i \in DOMAIN dtm |->
            [addr |-> dtm[i].addr, size |-> dtm[i].size,
             da |-> DmaDa(dtm[i].addr, dtm[i].size, ranges, lp64),
             dflt |-> dtm[i].dflt, load |-> dtm[i].load]]
    ELSE <<>>

(* firewall_set_memory_alternate_conf of the regions i.. in alternate conf *)
(* w (one RISAF query each), the loop stopping at the first error: the     *)
(* registers and the result.                                               *)
RECURSIVE ConfLoop(_, _, _)
ConfLoop(h, w, i) ==
    IF i > Len(mems) THEN [hw |-> h, res |-> "Success"]
    ELSE LET q == mems[i][w]
             r == MemConfResult(q, mems[i].addr, mems[i].size)
             h2 == MemConfHw(h, q, mems[i].addr, mems[i].size)
         IN IF r = "Success" THEN ConfLoop(h2, w, i + 1)
            ELSE [hw |-> h2, res |-> r]


\* stm32_rproc_release_mems_access from registers h and count c
ReleaseFrom(h, c) ==
    IF U32Ne0(c - 1)
    THEN [hw |-> h, res |-> "Success", cnt |-> c - 1, panic |-> FALSE]
    ELSE LET l == ConfLoop(h, "dflt", 1)
         IN [hw |-> l.hw, res |-> l.res, cnt |-> c - 1, panic |-> FALSE]

(* stm32_rproc_get_mems_access: on an error it releases again, and panics  *)
(* if that release fails.                                                  *)
GetFrom(h, c) ==
    IF U32Gt1(c + 1)
    THEN [hw |-> h, res |-> "Success", cnt |-> c + 1, panic |-> FALSE]
    ELSE LET l == ConfLoop(h, "load", 1)
             rel == ReleaseFrom(l.hw, c + 1)
         IN IF l.res = "Success"
            THEN [hw |-> l.hw, res |-> "Success", cnt |-> c + 1, panic |-> FALSE]
            ELSE [hw |-> rel.hw, res |-> l.res, cnt |-> rel.cnt,
                  panic |-> rel.res # "Success"]

\* clean that releases the access without taking it first
CleanNoGet(h, c) ==
    LET r == ReleaseFrom(h, c)
    IN [hw |-> r.hw, res |-> "Success", cnt |-> r.cnt, panic |-> r.res # "Success"]

(* stm32_rproc_clean: get access, zero every region through a core mapping *)
(* (map and unmap succeed), release, panic if the release fails.          *)
CleanFrom(h, c) ==
    LET g == GetFrom(h, c)
        r == ReleaseFrom(g.hw, g.cnt)
    IN IF g.res # "Success" THEN g
       ELSE [hw |-> r.hw, res |-> "Success", cnt |-> r.cnt, panic |-> r.res # "Success"]

\* stm32_rproc_da_to_pa: the regions whose device range holds the segment
DaMems(da, size) == {i \in DOMAIN mems : Inside(da, size, mems[i].da, mems[i].size)}
DaToPa(da, size) == LET i == First(DaMems(da, size))
                    IN mems[i].addr + da - mems[i].da

\* stm32_rproc_map: the physical range lies in a region
MapOk(pa, size) == \E i \in DOMAIN mems : Inside(pa, size, mems[i].addr, mems[i].size)

\* stm32_rproc_a35ss_cfg: m33_cr_right (SEC | PRIV for OP-TEE loading)
\* written to M33CFG_ACCESS_CR, and the TrustZone disabled
A35ssCfg(r) == [r EXCEPT !.access = M33CfgFull, !.secext = FALSE]


\* the RISAF regions of the rproc memories
RprocIds == {rdt.mem[i][w].id : i \in DOMAIN rdt.mem, w \in {"dflt", "load"}}

-----------------------------------------------------------------------------
(* stm32_rproc_probe, once RISAF has registered its controller: parse_mems,*)
(* the resets, the reset provider, rproc_stop, stm32_rproc_a35ss_cfg, then *)
(* the instance enters rproc_list and the PM callback is registered.       *)

\* rproc_stop without the TZEN_CR write
StopA35sscKeepsTzen(r) == r

\* the A35SSC after rproc_stop: TZEN_CR.CFG_SECEXT cleared
StopA35ssc(r) == [r EXCEPT !.secext = FALSE]

\* rproc_stop on the rest of the state: hold_boot and mcu_rst asserted,
\* boot_addr and tzen cleared
StopM33 ==
    /\ m33' = [m33 EXCEPT !.run = FALSE]
    /\ bootAddr' = 0 /\ tzen' = FALSE

RprocProbe ==
    /\ rproc = "absent" /\ Running
    /\ LET parsed == ParseMems(rdt.mem, rdt.ranges, rdt.lp64) IN
       \/ /\ parsed # <<>>
          /\ mems' = parsed /\ rproc' = "registered"
          /\ StopM33
          /\ a35ssc' = A35ssCfg(StopA35ssc(a35ssc))
       \/ /\ parsed = <<>>
          /\ rproc' = "failed"
          /\ UNCHANGED <<mems, bootAddr, tzen, a35ssc, m33>>
    /\ UNCHANGED <<vars, rdt, session, taState, getCnt>>

-----------------------------------------------------------------------------
(* The PTA.  Only the remoteproc TA opens a session, and open_session      *)
(* fails unless the instance is in rproc_list.  The parameter types and    *)
(* buffer sizes the TA passes are the expected ones.                       *)

\* the PTA and the reset calls report in the history variable of Risaf
Call(op, res) == Answer(op, res)

Pta == Running /\ session

OpenSession ==
    /\ Running /\ rproc # "absent" /\ ~session
    /\ \/ rproc = "registered" /\ session' = TRUE /\ Call("open", "Success")
       \/ rproc = "failed" /\ UNCHANGED session /\ Call("open", "NotSupported")
    /\ UNCHANGED <<risafState, rdt, mems, rproc, taState, bootAddr, tzen, getCnt, a35ssc, m33>>

\* the steps of the PTA that change nothing but their result
PtaAnswer(op, res) ==
    /\ Pta /\ Call(op, res)
    /\ UNCHANGED <<risafState, rdt, mems, rproc, session, taState, bootAddr, tzen,
                   getCnt, a35ssc, m33>>

\* rproc_pta_capabilities
Capabilities == PtaAnswer("caps", "Success")

\* rproc_pta_load_segment: da_to_pa, map, copy, SHA-256 check (the copy
\* zeroed on a mismatch), decryption, which is not supported without
\* CFG_REMOTEPROC_ENC_TEST (the copy zeroed again), unmap
LoadSegmentResult(seg, hashOk, enc) ==
    IF taState # "OFF" THEN "BadState"
    ELSE IF DaMems(seg.da, seg.size) = {} THEN "AccessDenied"
    ELSE IF ~MapOk(DaToPa(seg.da, seg.size), seg.size) THEN "Generic"
    ELSE IF ~hashOk THEN "Security"
    ELSE IF enc THEN "NotSupported"
    ELSE "Success"

LoadSegment(seg, hashOk, enc) ==
    PtaAnswer("load", LoadSegmentResult(seg, hashOk, enc))

\* rproc_pta_set_memory: da_to_pa, map, memset, unmap
SetMemoryResult(seg) ==
    IF taState # "OFF" THEN "BadState"
    ELSE IF DaMems(seg.da, seg.size) = {} THEN "AccessDenied"
    ELSE IF ~MapOk(DaToPa(seg.da, seg.size), seg.size) THEN "Generic"
    ELSE "Success"

SetMemory(seg) == PtaAnswer("set_memory", SetMemoryResult(seg))

\* rproc_pta_da_to_pa, in any firmware state
DaToPaCall(seg) ==
    PtaAnswer("da_to_pa", IF DaMems(seg.da, seg.size) = {} THEN "AccessDenied"
                          ELSE "Success")

\* rproc_pta_verify_digest: RSASSA-PKCS1-v1.5 SHA-256 with the built-in key
VerifyDigest(sigOk) ==
    PtaAnswer("digest", IF taState # "OFF" THEN "BadState"
                        ELSE IF sigOk THEN "Success" ELSE "SignatureInvalid")


\* the regions holding boot_addr (core_is_buffer_inside(boot_addr, 1, ...))
BootMems == {i \in DOMAIN mems : Inside(bootAddr, 1, mems[i].addr, mems[i].size)}

\* stm32mp2_rproc_start on the A35SSC: with tzen, INITSVTOR and
\* TZEN_CR.CFG_SECEXT set, otherwise INITNSVTOR only
StartA35ssc(r) == IF tzen THEN [r EXCEPT !.secext = TRUE] ELSE r

\* rproc_pta_start and stm32_rproc_start: the boot address checks of
\* stm32mp2_rproc_start, then hold_boot deasserted and asserted again, and
\* the M33 boots as TZEN_CR says
Start ==
    /\ Pta
    /\ \/ /\ taState # "OFF" /\ Call("start", "BadState")
          /\ UNCHANGED <<a35ssc, m33, taState>>
       \/ /\ taState = "OFF" /\ (bootAddr = 0 \/ BootMems = {})
          /\ Call("start", "Generic")
          /\ UNCHANGED <<a35ssc, m33, taState>>
       \/ /\ taState = "OFF" /\ bootAddr # 0 /\ BootMems # {}
          /\ a35ssc' = StartA35ssc(a35ssc)
          /\ m33' = [run |-> TRUE, sec |-> a35ssc'.secext, req |-> tzen]
          /\ taState' = "ON"
          /\ Call("start", "Success")
    /\ UNCHANGED <<risafState, rdt, mems, rproc, session, bootAddr, tzen, getCnt>>

\* rproc_pta_stop and stm32_rproc_stop
Stop ==
    /\ Pta
    /\ \/ /\ taState # "ON" /\ Call("stop", "BadState")
          /\ UNCHANGED <<a35ssc, m33, taState, bootAddr, tzen>>
       \/ /\ taState = "ON"
          /\ StopM33 /\ a35ssc' = StopA35ssc(a35ssc)
          /\ taState' = "OFF"
          /\ Call("stop", "Success")
    /\ UNCHANGED <<risafState, rdt, mems, rproc, session, getCnt>>

(* rproc_pta_tlv_param: BOOTADDR goes to stm32_rproc_set_boot_address,    *)
(* which refuses a second address; BOOT_SEC computes sec_enable from the   *)
(* buffer pointer, which is never NULL for the 4-byte memref, so it always *)
(* calls stm32_rproc_enable_sec_boot, which refuses when tzen is set.      *)
TlvParam(type, val) ==
    /\ Pta
    /\ \/ /\ taState # "OFF" /\ Call("tlv", "BadState")
          /\ UNCHANGED <<bootAddr, tzen>>
       \/ /\ taState = "OFF" /\ type = "bootaddr" /\ bootAddr # 0
          /\ Call("tlv", "Generic") /\ UNCHANGED <<bootAddr, tzen>>
       \/ /\ taState = "OFF" /\ type = "bootaddr" /\ bootAddr = 0
          /\ bootAddr' = val /\ Call("tlv", "Success") /\ UNCHANGED tzen
       \/ /\ taState = "OFF" /\ type = "bootsec" /\ tzen
          /\ Call("tlv", "Generic") /\ UNCHANGED <<bootAddr, tzen>>
       \/ /\ taState = "OFF" /\ type = "bootsec" /\ ~tzen
          /\ tzen' = TRUE /\ Call("tlv", "Success") /\ UNCHANGED bootAddr
       \/ /\ taState = "OFF" /\ type = "other"
          /\ Call("tlv", "NotImplemented") /\ UNCHANGED <<bootAddr, tzen>>
    /\ UNCHANGED <<risafState, rdt, mems, rproc, session, taState, getCnt, a35ssc, m33>>

\* a memory-access call: registers, count, panic, result
ApplyMemCall(op, x) ==
    /\ hw' = x.hw /\ getCnt' = x.cnt
    /\ pc' = IF x.panic THEN "panic" ELSE pc
    /\ Call(op, x.res)
    /\ UNCHANGED <<dt, regions, clk, pidx, power, ctxHint, saved, rdt, mems,
                   rproc, session, taState, bootAddr, tzen, a35ssc, m33>>

(* rproc_pta_clean, rproc_pta_get_mem and rproc_pta_release_mem, each      *)
(* refused while the firmware runs.  The TA releases only access it took:  *)
(* release_mem needs m_get_cnt > 0, and the gets stay below MaxCnt.        *)
MemCall(op) ==
    /\ Pta
    /\ \/ /\ taState # "OFF" /\ PtaAnswer(op, "BadState")
       \/ /\ taState = "OFF"
          /\ \/ op = "clean" /\ getCnt < MaxCnt
                /\ ApplyMemCall(op, CleanFrom(hw, getCnt))
             \/ op = "get_mem" /\ getCnt < MaxCnt
                /\ ApplyMemCall(op, GetFrom(hw, getCnt))
             \/ op = "release_mem" /\ getCnt > 0
                /\ ApplyMemCall(op, ReleaseFrom(hw, getCnt))

\* stm32_rproc_reset_update, reached through the SCMI reset of the normal
\* world: mcu_rst cannot be deasserted, and no reset of a firmware loaded
\* by OP-TEE is driven for the normal world
ScmiReset(id, assert) ==
    /\ Running /\ rproc = "registered"
    /\ Call("reset", IF id = "mcu_rst" /\ ~assert THEN "NotSupported"
                     ELSE "AccessDenied")
    /\ UNCHANGED <<risafState, rdt, mems, rproc, session, taState, bootAddr, tzen,
                   getCnt, a35ssc, m33>>

-----------------------------------------------------------------------------
(* Low power.  The CONTEXT hint also resets the A35SSC: TZEN_CR back to    *)
(* its default, the TrustZone of the M33 enabled, and M33CFG_ACCESS_CR to  *)
(* a reset value the code does not rely on.  stm32mp25_rproc_pm runs       *)
(* stm32_rproc_a35ss_cfg at resume with that hint.                        *)

RprocContextLost ==
    /\ ContextLost
    /\ \E acc \in SUBSET M33CfgFull : a35ssc' = [secext |-> TRUE, access |-> acc]
    /\ UNCHANGED <<rdt, mems, rproc, session, taState, bootAddr, tzen, getCnt,
                   m33>>

\* stm32mp25_rproc_pm
RprocPm(r) == IF ctxHint /\ rproc = "registered" THEN A35ssCfg(r) ELSE r

RprocPmResume ==
    /\ PmResume
    /\ a35ssc' = RprocPm(a35ssc)
    /\ UNCHANGED <<rdt, mems, rproc, session, taState, bootAddr, tzen, getCnt,
                   m33>>

-----------------------------------------------------------------------------
(* calloc'ed instance, rproc_ta_state OFF; the M33 may have been started   *)
(* before OP-TEE, and TZEN_CR holds its default.                          *)
RprocInit ==
    /\ Init
    /\ rdt \in [mem : RprocDtChoices, ranges : DmaRangesChoices, lp64 : BOOLEAN]
    /\ mems = <<>> /\ rproc = "absent" /\ session = FALSE
    /\ taState = "OFF" /\ bootAddr = 0 /\ tzen = FALSE /\ getCnt = 0
    /\ a35ssc \in [secext : {TRUE}, access : SUBSET M33CfgFull]
    /\ m33 \in [run : BOOLEAN, sec : {TRUE}, req : {FALSE}]

\* RISAF steps; its other consumers use regions other than the rproc's
RisafNext ==
    \/ ProbeRegion \/ ProbeDone
    \/ \E id \in HwIds \cup {0}, rd, wr \in BOOLEAN : AcquireAccess(id, rd, wr)
    \/ \E q \in Queries : CheckAccess(q)
    \/ \E q \in Queries, i \in NRegions :
          q.id \notin RprocIds /\ SetMemoryConf(q, dt[i].addr, dt[i].len)
    \/ \E ctx \in BOOLEAN : PmSuspend(ctx)

RprocNext ==
    \/ RisafNext /\ UNCHANGED rvars
    \/ RprocContextLost \/ RprocPmResume
    \/ RprocProbe \/ OpenSession \/ Capabilities
    \/ \E seg \in Segments, hashOk, enc \in BOOLEAN : LoadSegment(seg, hashOk, enc)
    \/ \E seg \in Segments : SetMemory(seg) \/ DaToPaCall(seg)
    \/ \E sigOk \in BOOLEAN : VerifyDigest(sigOk)
    \/ Start \/ Stop
    \/ \E type \in {"bootaddr", "bootsec", "other"}, val \in BootAddrs :
          TlvParam(type, val)
    \/ \E op \in {"clean", "get_mem", "release_mem"} : MemCall(op)
    \/ \E id \in {"mcu_rst", "hold_boot"}, assert \in BOOLEAN : ScmiReset(id, assert)

RprocSpec == RprocInit /\ [][RprocNext]_allVars

-----------------------------------------------------------------------------
\* region i of the rproc memory holds its "load" configuration
LoadOpen(i) ==
    hw[mems[i].load.id] =
        ConfiguredReg(mems[i].load, mems[i].addr, mems[i].addr + mems[i].size - 1)

(* The memory is open for loading exactly while access is held: once the  *)
(* driver is registered, every rproc region carries its "load" firewall    *)
(* configuration when m_get_cnt is positive and none does when it is zero, *)
(* across nested get_mem/release_mem/clean calls, failed RISAF requests    *)
(* (unwound by get_mems_access) and low-power cycles that reset RISAF.    *)
RprocMemsAccessBalanced ==
    Running /\ rproc = "registered" =>
        \A i \in DOMAIN mems : LoadOpen(i) <=> getCnt > 0

(* The M33 boots in the security state the TA asked for: a firmware        *)
(* started by stm32_rproc_start runs with the TrustZone extension exactly  *)
(* when rproc->tzen was set by PTA_REMOTEPROC_TLV_BOOT_SEC, whatever       *)
(* TZEN_CR held after an earlier firmware, a stop or a low-power cycle     *)
(* that reset the A35SSC.                                                  *)
M33BootsAsRequested ==
    rproc = "registered" /\ m33.run => m33.sec = m33.req

====
