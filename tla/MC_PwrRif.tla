------------------------------- MODULE MC_PwrRif -------------------------------
(* One R resource and two WIO resources, CID1 (OP-TEE) and CID2.  The DT   *)
(* gives R resource 0 to CID1, shares WIO 1 by semaphore between CID1 and  *)
(* CID2, secure, and WIO 2 with CID2 only.                                 *)
EXTENDS PwrRif, TLC

Sem12   == [cfen |-> TRUE, semen |-> TRUE, scid |-> 0, semwl |-> {1, 2}]
Sem2    == [cfen |-> TRUE, semen |-> TRUE, scid |-> 0, semwl |-> {2}]
Static1 == [cfen |-> TRUE, semen |-> FALSE, scid |-> 1, semwl |-> {}]

MC_Ns  == {0}
MC_Wio == {1, 2}
MC_DtCid == (0 :> Static1 @@ 1 :> Sem12 @@ 2 :> Sem2)
MC_Dt == [access |-> {0, 1, 2}, sec |-> {0, 1}, priv |-> {0, 1},
          cid |-> MC_DtCid]
MC_Dts == {MC_Dt, NoConf}
\* TDCID: CIDCFGR at reset; not TDCID: as the TDCID left it from the DT
MC_InitCidModes ==
    [b \in BOOLEAN |-> IF b THEN [i \in MC_Ns \cup MC_Wio |-> CidCleared]
                       ELSE MC_DtCid]
MC_Cids == {1, 2}
=============================================================================
