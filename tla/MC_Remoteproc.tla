----------------------------- MODULE MC_Remoteproc -----------------------------
(* Instance of Remoteproc for TLC, on the RISAF instance of MC_Risaf with   *)
(* one more DT, in which regions 1 and 2 both carry a configuration.  The  *)
(* rproc memories are RISAF region 1 alone, with a "load" conf RISAF       *)
(* accepts or one it rejects after writing it (encrypted, non-secure), or  *)
(* with a size RISAF refuses; or regions 1 and 2.  The parent bus has a    *)
(* dma-ranges that maps the memory at device address 0, or one that does   *)
(* not cover it; the core is built for 32 or 64 bits (Remoteproc).         *)
EXTENDS Remoteproc, MC_Risaf

MC_DtTwoRproc == << Entry(1, TRUE, {1}, {1}, {1}, 16, 8),
                    Entry(2, TRUE, {}, {1}, {}, 24, 4), Skipped(28, 4) >>
MC_RprocRisafDts == MC_DtChoices \cup {MC_DtTwoRproc}

\* the RISAF queries of the "default" and "load" confs of regions 1 and 2:
\* default is the configuration the RISAF probe writes, load opens the
\* region to CID2 as well
Dflt1 == Query(1, TRUE, {1}, {1}, {1}, FALSE)
Load1 == Query(1, TRUE, {1}, {1, 2}, {1, 2}, FALSE)
LoadEncNs1 == Query(1, FALSE, {}, {1, 2}, {1, 2}, TRUE)
Dflt2 == Query(2, TRUE, {}, {1}, {}, FALSE)
Load2 == Query(2, TRUE, {}, {1, 2}, {1, 2}, FALSE)

RMem(a, s, d, l) == [addr |-> a, size |-> s, dflt |-> d, load |-> l]

MC_RprocDtChoices == { << RMem(16, 8, Dflt1, Load1) >>,
                       << RMem(16, 8, Dflt1, LoadEncNs1) >>,
                       << RMem(16, 4, Dflt1, Load1) >>,
                       << RMem(16, 8, Dflt1, Load1), RMem(24, 4, Dflt2, Load2) >> }

MC_DmaRangesChoices == { << [da |-> 0, pa |-> 16, size |-> 16] >>,
                         << [da |-> 0, pa |-> 48, size |-> 16] >> }

\* device ranges of segments: each lies in the first region under one of
\* the dma-ranges choices and outside every region under the other
MC_Segments == { [da |-> 0, size |-> 4], [da |-> 16, size |-> 4] }

=============================================================================
