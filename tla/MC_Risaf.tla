------------------------------- MODULE MC_Risaf -------------------------------
(* The RISAF instance MC_Remoteproc builds on: 16 bytes of memory at 16  *)
(* with a granularity of 4, three hardware regions, and five candidate    *)
(* DTs: one that probe must accept with a skipped entry, one with         *)
(* adjacent regions, and three it must reject (overlap, outside memory,   *)
(* unaligned).                                                            *)
EXTENDS Risaf

\* a DT region entry
Entry(id, sec, priv, rd, wr, a, l) ==
    [cfg |-> [id |-> id, en |-> TRUE, sec |-> sec, enc |-> FALSE,
              priv |-> priv, rd |-> rd, wr |-> wr],
     addr |-> a, len |-> l]

\* an entry probe skips (no st,protreg, or the OP-TEE region)
Skipped(a, l) == [cfg |-> NoCfg, addr |-> a, len |-> l]

\* region 1: secure, CID1 only; region 3: non-secure, shared
MC_DtGood == << Entry(1, TRUE, {1}, {1}, {1}, 16, 8), Skipped(24, 4),
                Entry(3, FALSE, {}, {1, 2}, {2}, 28, 4) >>
MC_DtAdjacent == << Entry(1, TRUE, {1}, {1}, {1}, 16, 8),
                    Entry(2, TRUE, {}, {1}, {}, 24, 8) >>
MC_DtOverlap == << Entry(1, TRUE, {1}, {1}, {1}, 16, 8),
                   Entry(3, FALSE, {}, {1, 2}, {2}, 20, 8) >>
MC_DtOutside == << Entry(1, TRUE, {1}, {1}, {1}, 16, 8),
                   Entry(3, FALSE, {}, {1, 2}, {2}, 28, 8) >>
MC_DtUnaligned == << Entry(1, TRUE, {1}, {1}, {1}, 18, 4) >>

MC_DtChoices == {MC_DtGood, MC_DtAdjacent, MC_DtOverlap, MC_DtOutside,
                 MC_DtUnaligned}

\* a region configuration a consumer passes
Query(id, sec, priv, rd, wr, enc) ==
    [id |-> id, en |-> TRUE, sec |-> sec, enc |-> enc, priv |-> priv,
     rd |-> rd, wr |-> wr]

\* region 1 as in the DT, region 1 opened to CID2 and non-secure, and
\* regions 2 and 3
MC_Queries == {Query(1, TRUE, {1}, {1}, {1}, FALSE),
               Query(1, FALSE, {}, {1, 2}, {1, 2}, FALSE),
               Query(2, TRUE, {}, {1}, {}, FALSE),
               Query(3, FALSE, {}, {1, 2}, {2}, FALSE)}

=============================================================================
