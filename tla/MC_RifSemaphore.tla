--------------------------- MODULE MC_RifSemaphore --------------------------
EXTENDS RifSemaphore
\* CID1 is OP-TEE; CID2 and CID5 are white-listed compartments (CID5 = 0b101
\* differs from CID1 only in the top SEMCID bit); CID6 is outside the white
\* list and its writes are ignored by the hardware.
MC_Cids      == {1, 2, 5, 6}
MC_WhiteList == {1, 2, 5}
=============================================================================
