----------------------------- MODULE MC_HpdmaRif -----------------------------
(* Two HPDMA channels, CID1 (OP-TEE) and CID2.  Three device trees: none   *)
(* with "st,protreg" (conf_data NULL), one configuring both channels       *)
(* (channel 0 secure and shared by semaphore, channel 1 static to CID1),   *)
(* and one configuring only channel 0, shared but not secure, and locked.  *)
EXTENDS HpdmaRif, TLC

Sem12   == [cfen |-> TRUE, semen |-> TRUE, scid |-> 0, semwl |-> {1, 2}]
Sem2    == [cfen |-> TRUE, semen |-> TRUE, scid |-> 0, semwl |-> {2}]
Static1 == [cfen |-> TRUE, semen |-> FALSE, scid |-> 1, semwl |-> {}]

MC_Channels == 0 .. 1
MC_DtFull == [access |-> {0, 1}, sec |-> {0}, priv |-> {0, 1}, lock |-> {},
              cid |-> (0 :> Sem12 @@ 1 :> Static1)]
MC_DtPart == [access |-> {0}, sec |-> {}, priv |-> {}, lock |-> {0},
              cid |-> (0 :> Sem12 @@ 1 :> CidCleared)]
\* every device tree, the one without "st,protreg" included
MC_Dts == {MC_DtFull, MC_DtPart, NoConf}
\* device trees giving every channel a configuration
MC_DtsConfigured == {MC_DtFull, MC_DtPart}
\* TDCID: CIDCFGR at reset; not TDCID: as the TDCID left it, channel 1
\* shared with CID2 only
MC_InitCidModes ==
    [b \in BOOLEAN |-> IF b THEN [c \in MC_Channels |-> CidCleared]
                       ELSE (0 :> Sem12 @@ 1 :> Sem2)]
MC_Cids == {1, 2}
=============================================================================
