------------------------------- MODULE MC_Etzpc -------------------------------
(* Instance of Etzpc for TLC: two threads, two peripherals that share the   *)
(* first DECPROT register, and the two TZMA zones (ROM and SYSRAM).         *)
EXTENDS Etzpc, TLC

CONSTANTS t1, t2

\* set_conf arguments: either peripheral, secure or non-secure, with or
\* without the lock flag
MC_Requests == [id : {0, 1}, attr : {S_RW, NS_RW}, lock : BOOLEAN]

\* "st,decprot": peripheral 0 NS_R_S_W, peripheral 1 S_RW, none locked
MC_DtDecprot == [n \in {0, 1} |->
                    [attr |-> IF n = 0 THEN NS_R_S_W ELSE S_RW, lock |-> FALSE]]

\* ROM zone locked by the boot stage, SYSRAM zone left open; both sizes are
\* page counts that fit the ROM (32 pages) and SYSRAM (64 pages) of the SoC
MC_BootTzma == [z \in {0, 1} |-> IF z = 0 THEN 32 ELSE 64]
MC_BootTzmaLock == [z \in {0, 1} |-> z = 0]

\* the two threads are interchangeable
Perms == Permutations({t1, t2})
=============================================================================
