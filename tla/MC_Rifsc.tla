------------------------------- MODULE MC_Rifsc -------------------------------
(* Two peripherals, CID1 (OP-TEE) and CID2.  The DT lists both in id order: *)
(* peripheral 0 secure and shared by semaphore with CID1 and CID2,         *)
(* peripheral 1 the same; no configuration sets a lock (locks are the     *)
(* subject of MC_RifscLock).                                               *)
EXTENDS Rifsc

Reset == [cfen |-> FALSE, semen |-> FALSE, scid |-> 0, semwl |-> {}]
Sem12 == [cfen |-> TRUE, semen |-> TRUE, scid |-> 0, semwl |-> {1, 2}]
Sem2  == [cfen |-> TRUE, semen |-> TRUE, scid |-> 0, semwl |-> {2}]
Static1 == [cfen |-> TRUE, semen |-> FALSE, scid |-> 1, semwl |-> {}]

MC_Dt == << [id |-> 0, sec |-> TRUE, lock |-> FALSE, cid |-> Sem12],
            [id |-> 1, sec |-> TRUE, lock |-> FALSE, cid |-> Sem12] >>
\* the same cells listed out of id order, as "st,protreg" may list them
MC_DtSwapped == << MC_Dt[2], MC_Dt[1] >>
\* peripheral 0 locked at probe
MC_DtLocked == << [MC_Dt[1] EXCEPT !.lock = TRUE], MC_Dt[2] >>
MC_InitCid == [r \in 0 .. 1 |-> Reset]
\* CIDCFGR as the TDCID left it from the same DT, when OP-TEE is not TDCID
MC_InitCidDt == [r \in 0 .. 1 |-> MC_Dt[r + 1].cid]
\* TDCID: every CIDCFGR at its reset value; not TDCID: as the TDCID left it
MC_InitCidModes == [b \in BOOLEAN |-> IF b THEN MC_InitCid ELSE MC_InitCidDt]
MC_Requests ==
    { [id |-> 0, sec |-> FALSE, lock |-> FALSE, cid |-> Sem12],
      [id |-> 0, sec |-> TRUE, lock |-> FALSE, cid |-> Sem2],
      [id |-> 0, sec |-> TRUE, lock |-> FALSE, cid |-> Sem12],
      [id |-> 1, sec |-> FALSE, lock |-> FALSE, cid |-> Static1],
      [id |-> 1, sec |-> TRUE, lock |-> FALSE, cid |-> Sem12] }
MC_Cids == {1, 2}
=============================================================================
