-------------------------------- MODULE Risaf --------------------------------
(***************************************************************************)
(* One RISAF instance (stm32_risaf.c) probed by the TDCID: the regions of  *)
(* "memory-region" checked and written at probe, the firewall operations  *)
(* acquire_memory_access, check_memory_access and set_memory_conf, the PM *)
(* callback that reads the registers back into the shadow regions[] at    *)
(* suspend and rewrites them at resume, and the clock reference count     *)
(* each operation takes and gives back.                                   *)
(*                                                                         *)
(* A region configuration word is a record of its fields (region id,      *)
(* enable, secure, encryption, privileged CIDs, read and write CIDs); the *)
(* DT word 0, of a region the probe skipped, is NoCfg.  Addresses are     *)
(* integers; STARTR and ENDR hold offsets from the memory base masked by  *)
(* mask_regions, whose lowest bit is the granularity.                     *)
(***************************************************************************)
EXTENDS Naturals, FiniteSets

CONSTANTS
    HwIds,          \* region ids of the hardware (1 .. max_base_regions-1)
    Cids,           \* compartment ids
    OpteeCid,       \* RIF_CID1
    DtChoices,      \* candidate "memory-region" lists: [1..n -> [cfg, addr, len]]
    MemBase,        \* st,mem-map base
    MemSize,        \* st,mem-map size
    Gran,           \* granularity = BIT(HWCFGR.CFG3)
    EncSupported,   \* compatible "st,stm32mp25-risaf-enc"
    Queries,        \* region configurations a consumer may pass
    MaxClk          \* bound on the clock reference count

CfgWord == [id : HwIds \cup {0}, en : BOOLEAN, sec : BOOLEAN, enc : BOOLEAN,
            priv : SUBSET Cids, rd : SUBSET Cids, wr : SUBSET Cids]
NoCfg == [id |-> 0, en |-> FALSE, sec |-> FALSE, enc |-> FALSE,
          priv |-> {}, rd |-> {}, wr |-> {}]

Region == [cfg : CfgWord, addr : Nat, len : Nat]

\* a DT entry the probe configures names a hardware region
DtWellTyped(d) ==
    /\ d \in [DOMAIN d -> Region]
    /\ \A i \in DOMAIN d : d[i].cfg.id \in HwIds \/ d[i].cfg = NoCfg

ASSUME /\ \A d \in DtChoices : DtWellTyped(d)
       /\ Queries \subseteq CfgWord
       /\ OpteeCid \in Cids

VARIABLES
    dt,       \* the "memory-region" list of the DT, fixed at boot
    hw,       \* per region id: CFGR and CIDCFGR fields, STARTR, ENDR
    regions,  \* risaf->pdata.regions[]: [cfg, addr, len]
    clk,      \* enable count of risaf->pdata.clock
    pc,       \* "probe", "run" or "panic"
    pidx,     \* next DT region of the probe loop
    power,    \* "on", "suspended" (context hint given or not), "off"
    ctxHint,  \* PM_HINT_IS_STATE(pm_hint, CONTEXT) of the current cycle
    last,     \* history: the last operation and its result
    saved     \* history: the registers at the last suspend

vars == <<dt, hw, regions, clk, pc, pidx, power, ctxHint, last, saved>>

RegVal == [en : BOOLEAN, sec : BOOLEAN, enc : BOOLEAN, priv : SUBSET Cids,
           rd : SUBSET Cids, wr : SUBSET Cids, start : Nat, end : Nat]
RegReset == [en |-> FALSE, sec |-> FALSE, enc |-> FALSE, priv |-> {},
             rd |-> {}, wr |-> {}, start |-> 0, end |-> 0]
Results == {"Success", "BadParameters", "AccessDenied", "Generic",
            "ItemNotFound"}
Ops == {"probe", "acquire", "check", "set_conf", "suspend", "resume"}

NRegions == DOMAIN dt
nregions == Cardinality(NRegions)

\* the type of every variable but the history variable last
StateTypeOK ==
    /\ dt \in DtChoices
    /\ hw \in [HwIds -> RegVal]
    /\ regions \in [NRegions -> Region]
    /\ clk \in 0 .. MaxClk
    /\ pc \in {"probe", "run", "panic"}
    /\ pidx \in 1 .. nregions + 1
    /\ power \in {"on", "suspended", "off"} /\ ctxHint \in BOOLEAN
    /\ saved \in [HwIds -> RegVal]

TypeOK == StateTypeOK /\ last \in [op : Ops, res : Results]

-----------------------------------------------------------------------------
(* Helpers of the driver.                                                  *)

\* (addr - mem_base) & mask_regions
MaskedOffset(a) == ((a - MemBase) \div Gran) * Gran

\* risaf_check_region_boundaries
CheckBoundaries(r) ==
    /\ r.addr >= MemBase
    /\ r.addr <= MemBase + MemSize - 1
    /\ r.addr - 1 + r.len <= MemBase + MemSize - 1
    /\ Gran # 0 /\ r.addr % Gran = 0 /\ r.len % Gran = 0

\* core_is_buffer_intersect: [a, a+al) and [b, b+bl) share an address
Intersect(a, al, b, bl) == al > 0 /\ bl > 0 /\ a < b + bl /\ b < a + al

\* the overlap loop started at the second region
CheckOverlapFromSecond(regs, index) ==
    \A i \in 2 .. index - 1 :
        regs[i].cfg # NoCfg =>
            ~Intersect(regs[index].addr, regs[index].len,
                       regs[i].addr, regs[i].len)

\* risaf_check_overlap: the regions before index that carry a configuration
CheckOverlap(regs, index) ==
    \A i \in 1 .. index - 1 :
        regs[i].cfg # NoCfg =>
            ~Intersect(regs[index].addr, regs[index].len,
                       regs[i].addr, regs[i].len)

(* risaf_configure_region(id, cfg, cid_cfg, saddr, eaddr): BREN cleared,   *)
(* STARTR, ENDR, CIDCFGR and CFGR written; the encryption checks come     *)
(* after the writes.                                                       *)
ConfiguredReg(c, s, e) ==
    [en |-> c.en, sec |-> c.sec, enc |-> c.enc, priv |-> c.priv,
     rd |-> c.rd, wr |-> c.wr, start |-> MaskedOffset(s), end |-> MaskedOffset(e)]

ConfigureResult(c) ==
    IF c.enc /\ ~EncSupported THEN "Generic"
    ELSE IF c.enc /\ ~c.sec THEN "Generic"
    ELSE "Success"

\* configure region c.id of the shadow entry r
ConfigureFrom(r, c) ==
    [hw EXCEPT ![c.id] = ConfiguredReg(c, r.addr, r.addr + r.len - 1)]

-----------------------------------------------------------------------------
(* stm32_risaf_probe, as TDCID (otherwise it returns at once and registers *)
(* no controller): one iteration of the loop over the DT regions, then    *)
(* clk_disable.  The checks and risaf_configure_region panic on failure.  *)

ProbeRegion ==
    /\ pc = "probe" /\ pidx \in NRegions
    /\ LET r == regions[pidx] IN
       \/ /\ r.cfg = NoCfg
          /\ pidx' = pidx + 1
          /\ UNCHANGED <<hw, pc>>
       \/ /\ r.cfg # NoCfg
          /\ ~CheckBoundaries(r) \/ ~CheckOverlap(regions, pidx)
          /\ pc' = "panic"
          /\ UNCHANGED <<hw, pidx>>
       \/ /\ r.cfg # NoCfg
          /\ CheckBoundaries(r) /\ CheckOverlap(regions, pidx)
          /\ hw' = ConfigureFrom(r, r.cfg)
          /\ IF ConfigureResult(r.cfg) = "Success"
                THEN pidx' = pidx + 1 /\ UNCHANGED pc
                ELSE pc' = "panic" /\ UNCHANGED pidx
    /\ UNCHANGED <<dt, regions, clk, power, ctxHint, last, saved>>

ProbeDone ==
    /\ pc = "probe" /\ pidx = nregions + 1
    /\ clk' = clk - 1
    /\ pc' = "run"
    /\ UNCHANGED <<dt, hw, regions, pidx, power, ctxHint, last, saved>>

-----------------------------------------------------------------------------
(* The firewall operations.  Each takes clk_enable after its argument      *)
(* checks; the early returns after it do not give the clock back.          *)

Running == pc = "run" /\ power = "on"

\* !id || id >= risaf->pdata.nregions
IdRejected(id) == id = 0 \/ id >= nregions

\* the denial condition of stm32_risaf_acquire_access (is_tdcid holds)
AcquireDenied(h, rd, wr) ==
    \/ ~h.sec
    \/ /\ h.rd \cup h.wr # {}
       /\ (rd /\ OpteeCid \notin h.rd) \/ (wr /\ OpteeCid \notin h.wr)

\* the denial conditions of stm32_risaf_check_access
CheckDenied(h, q) ==
    \/ q.sec /\ ~h.sec
    \/ ~(q.priv \subseteq h.priv)
    \/ ~(q.rd \subseteq h.rd)
    \/ ~(q.wr \subseteq h.wr)

Answer(op, res) == last' = [op |-> op, res |-> res]

\* stm32_risaf_acquire_access (kind "acquire") and
\* stm32_risaf_check_access (kind "check")
AccessQuery(op, id, denied) ==
    /\ Running
    /\ \/ /\ IdRejected(id)
          /\ Answer(op, "BadParameters") /\ UNCHANGED clk
       \/ /\ ~IdRejected(id) /\ clk < MaxClk
          /\ IF denied THEN clk' = clk + 1 /\ Answer(op, "AccessDenied")
                       ELSE UNCHANGED clk /\ Answer(op, "Success")
    /\ UNCHANGED <<dt, hw, regions, pc, pidx, power, ctxHint, saved>>

AcquireAccess(id, rd, wr) ==
    AccessQuery("acquire", id, id \in HwIds /\ AcquireDenied(hw[id], rd, wr))

CheckAccess(q) ==
    AccessQuery("check", q.id, q.id \in HwIds /\ CheckDenied(hw[q.id], q))

(* stm32_risaf_reconfigure_region(q, paddr, size): the DT entry of region  *)
(* q.id must have this address and size; it is then rewritten with the    *)
(* fields of q under conf_lock.  regions[] is left as it was.              *)

FirstWithId(id) == {j \in NRegions : /\ regions[j].cfg.id = id
                                      /\ \A k \in 1 .. j - 1 : regions[k].cfg.id # id}

\* the DT entry of region q.id has this address and size
GeometryMatches(q, paddr, size) ==
    \E j \in FirstWithId(q.id) : regions[j].addr = paddr /\ regions[j].len = size

\* the value stm32_risaf_reconfigure_region(q, paddr, size) returns
MemConfResult(q, paddr, size) ==
    IF IdRejected(q.id) THEN "BadParameters"
    ELSE IF FirstWithId(q.id) = {} THEN "ItemNotFound"
    ELSE IF ~GeometryMatches(q, paddr, size) THEN "Generic"
    ELSE ConfigureResult(q)

\* the registers h after it: region q.id rewritten once the checks pass
MemConfHw(h, q, paddr, size) ==
    IF ~IdRejected(q.id) /\ GeometryMatches(q, paddr, size)
    THEN [h EXCEPT ![q.id] = ConfiguredReg(q, paddr, paddr + size - 1)]
    ELSE h

SetMemoryConf(q, paddr, size) ==
    /\ Running
    /\ hw' = MemConfHw(hw, q, paddr, size)
    /\ Answer("set_conf", MemConfResult(q, paddr, size))
    /\ UNCHANGED <<dt, regions, clk, pc, pidx, power, ctxHint, saved>>

-----------------------------------------------------------------------------
(* stm32_risaf_pm: nothing unless the hint says the context is lost.       *)
(* Suspend (stm32_risaf_pm_suspend) reads each DT region with an id back  *)
(* into regions[]; resume (stm32_risaf_pm_resume) writes them again and   *)
(* panics if risaf_configure_region fails.                                 *)


\* the address read back without adding mem_base
ShadowOfNoBase(r) ==
    LET h == hw[r.cfg.id]
    IN [cfg  |-> [id |-> r.cfg.id, en |-> h.en, sec |-> h.sec, enc |-> h.enc,
                  priv |-> h.priv, rd |-> h.rd, wr |-> h.wr],
        addr |-> h.start,
        len  |-> h.end - h.start + 1]

\* the shadow entry rebuilt from CFGR, CIDCFGR, STARTR and ENDR
ShadowOf(r) ==
    LET h == hw[r.cfg.id]
    IN [cfg  |-> [id |-> r.cfg.id, en |-> h.en, sec |-> h.sec, enc |-> h.enc,
                  priv |-> h.priv, rd |-> h.rd, wr |-> h.wr],
        addr |-> h.start + MemBase,
        len  |-> h.end - h.start + 1]

PmSuspend(ctx) ==
    /\ Running
    /\ regions' = IF ctx
                  THEN [i \in NRegions |-> IF regions[i].cfg.id = 0 THEN regions[i]
                                           ELSE ShadowOf(regions[i])]
                  ELSE regions
    /\ saved' = hw
    /\ power' = "suspended" /\ ctxHint' = ctx
    /\ Answer("suspend", "Success")
    /\ UNCHANGED <<dt, hw, clk, pc, pidx>>

\* Hardware: a low-power mode announced with the CONTEXT hint resets RISAF.
ContextLost ==
    /\ power = "suspended" /\ ctxHint
    /\ hw' = [id \in HwIds |-> RegReset]
    /\ power' = "off"
    /\ UNCHANGED <<dt, regions, clk, pc, pidx, ctxHint, last, saved>>

Restored == {i \in NRegions : regions[i].cfg.id # 0}

\* the register of region id after the resume loop (the last entry wins)
ResumedReg(id) ==
    LET i == CHOOSE i \in Restored : /\ regions[i].cfg.id = id
                                     /\ \A k \in Restored : regions[k].cfg.id = id => k <= i
    IN ConfiguredReg(regions[i].cfg, regions[i].addr,
                     regions[i].addr + regions[i].len - 1)

PmResume ==
    /\ power \in {"suspended", "off"}
    /\ \/ /\ ~ctxHint
          /\ UNCHANGED <<hw, pc>>
       \/ /\ ctxHint
          /\ hw' = [id \in HwIds |-> IF \E i \in Restored : regions[i].cfg.id = id
                                     THEN ResumedReg(id) ELSE hw[id]]
          /\ pc' = IF \E i \in Restored : ConfigureResult(regions[i].cfg) # "Success"
                   THEN "panic" ELSE pc
    /\ power' = "on"
    /\ Answer("resume", "Success")
    /\ UNCHANGED <<dt, regions, clk, pidx, ctxHint, saved>>

-----------------------------------------------------------------------------
(* At probe, clk_enable has been called and no region is configured.       *)

Init ==
    /\ dt \in DtChoices
    /\ hw = [id \in HwIds |-> RegReset]
    /\ regions = dt
    /\ clk = 1
    /\ pc = "probe" /\ pidx = 1
    /\ power = "on" /\ ctxHint = FALSE
    /\ last = [op |-> "probe", res |-> "Success"]
    /\ saved = hw

Next ==
    \/ ProbeRegion \/ ProbeDone
    \/ \E id \in HwIds \cup {0}, rd, wr \in BOOLEAN : AcquireAccess(id, rd, wr)
    \/ \E q \in Queries : CheckAccess(q)
    \/ \E q \in Queries, i \in NRegions : SetMemoryConf(q, dt[i].addr, dt[i].len)
    \/ \E ctx \in BOOLEAN : PmSuspend(ctx)
    \/ ContextLost \/ PmResume

Spec == Init /\ [][Next]_vars

-----------------------------------------------------------------------------
DtIds == {dt[i].cfg.id : i \in NRegions} \ {0}

(* Memory isolation: once probe has accepted the DT, the region registers  *)
(* of the DT regions lie inside the memory of the instance and no two of  *)
(* them overlap, across set_memory_conf calls and low-power cycles.  This *)
(* rests on the boundary and overlap checks of probe and on every later   *)
(* write reusing the geometry of regions[].                                *)
RegionsIsolated ==
    pc = "run" /\ power # "off" =>
        /\ \A a \in DtIds : hw[a].end + Gran <= MemSize
        /\ \A a, b \in DtIds :
              a # b => hw[a].end < hw[b].start \/ hw[b].end < hw[a].start

(* The RISAF PM callback gives back, after resume, the region registers    *)
(* that were in place at suspend.                                          *)
PmRestoresRegions ==
    pc = "run" /\ last.op = "resume" => hw = saved

====
