-------------------------------- MODULE Etzpc --------------------------------
(***************************************************************************)
(* The ETZPC driver (stm32_etzpc.c): DECPROT attributes and locks of the   *)
(* securable peripherals, TZMA sizes of ROM and SYSRAM, and the PM         *)
(* callback that saves them into periph_cfg[] (uint8_t) and tzma_cfg[]     *)
(* (uint16_t) and writes them back on resume.                              *)
(*                                                                         *)
(* Several OP-TEE threads call the firewall set_conf operation             *)
(* (stm32_etzpc_configure).  The DECPROT fields of 16 peripherals share    *)
(* one register, which etzpc_do_configure_decprot updates by a read-       *)
(* modify-write under the device spinlock: the read and the write are two *)
(* steps of the model, and spin is the holder of that spinlock.            *)
(*                                                                         *)
(* Hardware: a locked DECPROT field or TZMA register ignores writes; lock  *)
(* bits are set-only; when the context is lost in low power every register *)
(* returns to its reset value.                                             *)
(***************************************************************************)
EXTENDS Naturals, FiniteSets

CONSTANTS
    Ids,            \* securable peripheral ids (num_per_sec of them)
    TzmaIds,        \* TZMA zones (num_tzma)
    Threads,        \* OP-TEE threads calling the firewall API
    NoThread,
    Requests,       \* set_conf arguments [id, attr, lock] the threads pass
    TzmaPages,      \* page counts a set_memory_conf may request
    DtDecprot,      \* "st,decprot" applied at probe: [id -> [attr, lock]]
    BootTzma,       \* TZMA sizes left by the earlier boot stages
    BootTzmaLock    \* TZMA locks left by the earlier boot stages

\* enum etzpc_decprot_attributes
S_RW == 0
NS_R_S_W == 1
MCU_ISOLATION == 2
NS_RW == 3
Attrs == {S_RW, NS_R_S_W, MCU_ISOLATION, NS_RW}

IDS_PER_DECPROT_REGS == 16
PERIPH_PM_LOCK_BIT   == 128          \* BIT(7)
TZMA_PM_LOCK_BIT     == 32768        \* BIT(15)
TzmaMax              == 1023         \* TZMA_PM_VALUE_MASK, the 10-bit size

ASSUME /\ Ids \subseteq 0 .. 255 /\ NoThread \notin Threads
       /\ Requests \subseteq [id : Ids, attr : Attrs, lock : BOOLEAN]
       /\ TzmaPages \subseteq 0 .. TzmaMax
       /\ BootTzma \in [TzmaIds -> 0 .. TzmaMax]
       /\ BootTzmaLock \in [TzmaIds -> BOOLEAN]

VARIABLES
    decprot, decLock,       \* DECPROT fields and DECPROT_LOCK bits
    tzma, tzmaLock,         \* TZMAn_SIZE value and lock bit
    spin,                   \* holder of etzpc_device.lock
    pc, req, copy,          \* per thread: position, argument, register read
    periphCfg, tzmaCfg,     \* the PM shadow arrays
    power,                  \* "on", "suspended" or "off" (context lost)
    intended,               \* history: the attribute last written per id
    saved, resumed          \* history: registers at suspend; just resumed

vars == <<decprot, decLock, tzma, tzmaLock, spin, pc, req, copy, periphCfg,
          tzmaCfg, power, intended, saved, resumed>>

Regs == [decprot : [Ids -> Attrs], decLock : [Ids -> BOOLEAN],
         tzma : [TzmaIds -> 0 .. TzmaMax], tzmaLock : [TzmaIds -> BOOLEAN]]

TypeOK ==
    /\ decprot \in [Ids -> Attrs] /\ decLock \in [Ids -> BOOLEAN]
    /\ tzma \in [TzmaIds -> 0 .. TzmaMax] /\ tzmaLock \in [TzmaIds -> BOOLEAN]
    /\ spin \in Threads \cup {NoThread}
    /\ pc \in [Threads -> {"idle", "rmw", "write", "lock"}]
    /\ req \in [Threads -> Requests]
    /\ copy \in [Threads -> [Ids -> Attrs]]
    /\ periphCfg \in [Ids -> 0 .. 255]
    /\ tzmaCfg \in [TzmaIds -> 0 .. 65535]
    /\ power \in {"on", "suspended", "off"}
    /\ intended \in [Ids -> Attrs]
    /\ saved \in Regs /\ resumed \in BOOLEAN

Live == [decprot |-> decprot, decLock |-> decLock, tzma |-> tzma,
         tzmaLock |-> tzmaLock]

\* The arguments and register copy of a thread outside a call: they are
\* locals of stm32_etzpc_configure and hold no value between calls.
IdleReq == CHOOSE r \in Requests : TRUE
IdleCopy == [n \in Ids |-> S_RW]

-----------------------------------------------------------------------------
(* Hardware write of the DECPROT register holding id: every field of that  *)
(* register takes the written value unless its lock bit is set.           *)

SameReg(i, id) == i \div IDS_PER_DECPROT_REGS = id \div IDS_PER_DECPROT_REGS

HwWriteDecprot(id, val) ==
    [i \in Ids |-> IF SameReg(i, id) /\ ~decLock[i] THEN val[i] ELSE decprot[i]]

\* may_spin_lock() bypassing the lock, as it does with the MMU off
SpinFreeBypassed(t) == TRUE

\* etzpc_lock(): cpu_spin_lock_xsave on etzpc_device.lock
SpinFree(t) == spin = NoThread

-----------------------------------------------------------------------------
(* stm32_etzpc_configure(): a locked peripheral returns at once (success   *)
(* if the attribute matches, AccessDenied otherwise); else                 *)
(* etzpc_do_configure_decprot and, if asked, etzpc_do_lock_decprot.  The   *)
(* early return changes no state, so it is a stutter step of the model.    *)

ConfigureCheck(t, r) ==
    /\ power = "on" /\ pc[t] = "idle"
    /\ ~decLock[r.id]
    /\ req' = [req EXCEPT ![t] = r]
    /\ pc' = [pc EXCEPT ![t] = "rmw"]
    /\ UNCHANGED <<decprot, decLock, tzma, tzmaLock, spin, copy, periphCfg,
                   tzmaCfg, power, intended, saved, resumed>>

\* etzpc_lock, then the read of io_clrsetbits32
DecprotRead(t) ==
    /\ power = "on" /\ pc[t] = "rmw"
    /\ SpinFree(t)
    /\ spin' = t
    /\ copy' = [copy EXCEPT ![t] = decprot]
    /\ pc' = [pc EXCEPT ![t] = "write"]
    /\ UNCHANGED <<decprot, decLock, tzma, tzmaLock, req, periphCfg, tzmaCfg,
                   power, intended, saved, resumed>>

\* the write of io_clrsetbits32, then etzpc_unlock
DecprotWrite(t) ==
    /\ power = "on" /\ pc[t] = "write"
    /\ LET r == req[t]
       IN /\ decprot' = HwWriteDecprot(r.id, [copy[t] EXCEPT ![r.id] = r.attr])
          /\ intended' = IF decLock[r.id] THEN intended
                         ELSE [intended EXCEPT ![r.id] = r.attr]
          /\ pc' = [pc EXCEPT ![t] = IF r.lock THEN "lock" ELSE "idle"]
          /\ req' = [req EXCEPT ![t] = IF r.lock THEN r ELSE IdleReq]
    /\ copy' = [copy EXCEPT ![t] = IdleCopy]
    /\ spin' = NoThread
    /\ resumed' = FALSE
    /\ UNCHANGED <<decLock, tzma, tzmaLock, periphCfg, tzmaCfg, power, saved>>

\* etzpc_do_lock_decprot: io_write32 of the lock mask under the spinlock
DecprotLock(t) ==
    /\ power = "on" /\ pc[t] = "lock"
    /\ SpinFree(t)
    /\ decLock' = [decLock EXCEPT ![req[t].id] = TRUE]
    /\ pc' = [pc EXCEPT ![t] = "idle"]
    /\ req' = [req EXCEPT ![t] = IdleReq]
    /\ resumed' = FALSE
    /\ UNCHANGED <<decprot, tzma, tzmaLock, spin, copy, periphCfg,
                   tzmaCfg, power, intended, saved>>

(* stm32_etzpc_configure_memory() for TZMA0 (ROM) or TZMA1 (SYSRAM): a     *)
(* locked zone returns at once; else etzpc_do_configure_tzma writes the    *)
(* page count.  The lock flag of the request is not used on this path.     *)

ConfigureTzma(t, z, pages) ==
    /\ power = "on" /\ pc[t] = "idle"
    /\ ~tzmaLock[z]
    /\ SpinFree(t)
    /\ tzma' = [tzma EXCEPT ![z] = pages]
    /\ resumed' = FALSE
    /\ UNCHANGED <<decprot, decLock, tzmaLock, spin, pc, req, copy, periphCfg,
                   tzmaCfg, power, intended, saved>>

-----------------------------------------------------------------------------
(* etzpc_pm(): the shadow words written at suspend and their decoding at   *)
(* resume.                                                                 *)

\* the lock state left out of periph_cfg[]
PeriphPmWordNoLock(n) == decprot[n]

\* a lock flag placed past the 8 bits of periph_cfg[]
PeriphPmWordWide(n) == decprot[n] + (IF decLock[n] THEN 256 ELSE 0)

\* periph_cfg[n] = (uint8_t)get_decprot | (locked ? PERIPH_PM_LOCK_BIT : 0)
PeriphPmWord(n) == decprot[n] + (IF decLock[n] THEN PERIPH_PM_LOCK_BIT ELSE 0)

\* the lock state left out of tzma_cfg[]
TzmaPmWordNoLock(z) == tzma[z] % 256

\* tzma_cfg[n] = (uint8_t)get_tzma | (locked ? TZMA_PM_LOCK_BIT : 0)
TzmaPmWord(z) == (tzma[z] % 256) + (IF tzmaLock[z] THEN TZMA_PM_LOCK_BIT ELSE 0)

Bit(w, b) == (w \div b) % 2 = 1

PmSuspend ==
    /\ power = "on" /\ spin = NoThread
    /\ periphCfg' = [n \in Ids |-> PeriphPmWord(n)]
    /\ tzmaCfg' = [z \in TzmaIds |-> TzmaPmWord(z)]
    /\ saved' = Live
    /\ power' = "suspended" /\ resumed' = FALSE
    /\ UNCHANGED <<decprot, decLock, tzma, tzmaLock, spin, pc, req, copy,
                   intended>>

\* Hardware: the low-power mode loses the ETZPC context.
ContextLost ==
    /\ power = "suspended"
    /\ decprot' = [n \in Ids |-> S_RW] /\ decLock' = [n \in Ids |-> FALSE]
    /\ tzma' = [z \in TzmaIds |-> 0] /\ tzmaLock' = [z \in TzmaIds |-> FALSE]
    /\ power' = "off"
    /\ UNCHANGED <<spin, pc, req, copy, periphCfg, tzmaCfg, intended, saved,
                   resumed>>

PmResume ==
    /\ power \in {"suspended", "off"}
    /\ decprot' = [n \in Ids |-> IF decLock[n] THEN decprot[n]
                                 ELSE periphCfg[n] % 8]
    /\ decLock' = [n \in Ids |-> decLock[n] \/ Bit(periphCfg[n], PERIPH_PM_LOCK_BIT)]
    /\ tzma' = [z \in TzmaIds |-> IF tzmaLock[z] THEN tzma[z]
                                  ELSE tzmaCfg[z] % (TzmaMax + 1)]
    /\ tzmaLock' = [z \in TzmaIds |-> tzmaLock[z] \/ Bit(tzmaCfg[z], TZMA_PM_LOCK_BIT)]
    /\ power' = "on" /\ resumed' = TRUE
    /\ UNCHANGED <<spin, pc, req, copy, periphCfg, tzmaCfg, intended, saved>>

-----------------------------------------------------------------------------
(* After probe: fdt_etzpc_conf_decprot has applied "st,decprot".           *)

Init ==
    /\ decprot = [n \in Ids |-> DtDecprot[n].attr]
    /\ decLock = [n \in Ids |-> DtDecprot[n].lock]
    /\ tzma = BootTzma /\ tzmaLock = BootTzmaLock
    /\ spin = NoThread
    /\ pc = [t \in Threads |-> "idle"]
    /\ req = [t \in Threads |-> IdleReq]
    /\ copy = [t \in Threads |-> IdleCopy]
    /\ periphCfg = [n \in Ids |-> 0] /\ tzmaCfg = [z \in TzmaIds |-> 0]
    /\ power = "on"
    /\ intended = decprot
    /\ saved = Live /\ resumed = FALSE

Next ==
    \/ \E t \in Threads :
          \/ \E r \in Requests : ConfigureCheck(t, r)
          \/ DecprotRead(t) \/ DecprotWrite(t) \/ DecprotLock(t)
          \/ \E z \in TzmaIds, p \in TzmaPages : ConfigureTzma(t, z, p)
    \/ PmSuspend \/ ContextLost \/ PmResume

Spec == Init /\ [][Next]_vars

-----------------------------------------------------------------------------
(* No lost update: while the context is in place, every DECPROT field      *)
(* holds the attribute of the last configuration written to it, although  *)
(* the fields of 16 peripherals share one register that concurrent        *)
(* set_conf calls update by read-modify-write.                             *)
NoLostDecprotUpdate == power # "off" => decprot = intended

(* The PM callback gives back, on resume, the DECPROT attributes, DECPROT  *)
(* locks, TZMA sizes and TZMA locks the registers held at suspend.         *)
PmRestoresContext == resumed => Live = saved

-----------------------------------------------------------------------------
(* Refinement: the threads, the spinlock and the PM callback implement the *)
(* firewall of EtzpcFirewall.  While the context is lost, the abstract     *)
(* configuration is the one the shadow words will give back at resume.    *)
AbsAttr == IF power = "off" THEN [n \in Ids |-> periphCfg[n] % 8] ELSE decprot
AbsLock == IF power = "off" THEN [n \in Ids |-> Bit(periphCfg[n], PERIPH_PM_LOCK_BIT)]
           ELSE decLock
AbsSize == IF power = "off" THEN [z \in TzmaIds |-> tzmaCfg[z] % (TzmaMax + 1)]
           ELSE tzma
AbsSizeLock == IF power = "off" THEN [z \in TzmaIds |-> Bit(tzmaCfg[z], TZMA_PM_LOCK_BIT)]
               ELSE tzmaLock

Firewall == INSTANCE EtzpcFirewall WITH
    Pages <- TzmaPages,
    InitAttr <- [n \in Ids |-> DtDecprot[n].attr],
    InitLock <- [n \in Ids |-> DtDecprot[n].lock],
    InitSize <- BootTzma, InitSizeLock <- BootTzmaLock,
    attr <- AbsAttr, locked <- AbsLock, size <- AbsSize, sizeLocked <- AbsSizeLock

(* The ETZPC driver implements an atomic firewall: every step of the       *)
(* threads' read-modify-writes, of the lock writes and of the PM callback  *)
(* (suspend, context loss, resume) either leaves the configuration alone  *)
(* or configures one unlocked peripheral or zone, or sets a lock; no lock *)
(* is ever lost.                                                           *)
EtzpcRefinement == Firewall!Spec
=============================================================================
