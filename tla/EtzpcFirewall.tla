---------------------------- MODULE EtzpcFirewall ----------------------------
(***************************************************************************)
(* Abstract specification of the ETZPC as a firewall: what the firewall    *)
(* operations of stm32_etzpc.c promise their callers, whatever threads and *)
(* low-power cycles the implementation goes through.                       *)
(*                                                                         *)
(*   - a peripheral's attribute changes only by a configuration of that    *)
(*     one peripheral, and never once it is locked;                        *)
(*   - a lock, once set, stays set;                                        *)
(*   - a TZMA zone's size changes only while the zone is unlocked, and its *)
(*     lock stays set;                                                     *)
(*   - low power is invisible: the configuration after resume is the one   *)
(*     before suspend.                                                     *)
(***************************************************************************)
CONSTANTS
    Ids, TzmaIds, Attrs, Pages,
    InitAttr, InitLock, InitSize, InitSizeLock

VARIABLES attr, locked, size, sizeLocked

absvars == <<attr, locked, size, sizeLocked>>

Init ==
    /\ attr = InitAttr /\ locked = InitLock
    /\ size = InitSize /\ sizeLocked = InitSizeLock

SetAttr(id, a) ==
    /\ ~locked[id]
    /\ attr' = [attr EXCEPT ![id] = a]
    /\ UNCHANGED <<locked, size, sizeLocked>>

LockPeriph(id) ==
    /\ locked' = [locked EXCEPT ![id] = TRUE]
    /\ UNCHANGED <<attr, size, sizeLocked>>

SetSize(z, p) ==
    /\ ~sizeLocked[z]
    /\ size' = [size EXCEPT ![z] = p]
    /\ UNCHANGED <<attr, locked, sizeLocked>>

Next ==
    \/ \E id \in Ids, a \in Attrs : SetAttr(id, a)
    \/ \E id \in Ids : LockPeriph(id)
    \/ \E z \in TzmaIds, p \in Pages : SetSize(z, p)

Spec == Init /\ [][Next]_absvars
=============================================================================
