----------------------------- MODULE MC_PwrRegul -----------------------------
(* Two regulators of pwr_regulators[]: IOD_VDDIO1, an IO domain with VRSEL *)
(* and compensation, and REGU_GPU, whose monitor stays on and whose PWR    *)
(* register sits behind the GPU's RIFSC CID filtering.  The supply levels  *)
(* are 1.8 V and IO_VOLTAGE_THRESHOLD_UV itself, the boundary.            *)
EXTENDS PwrRegul, TLC

CONSTANTS vddio1, vddgpu

MC_Desc ==
    vddio1 :> [enable |-> TRUE, iod |-> TRUE, vrsel |-> TRUE,
               keepMon |-> FALSE, filter |-> FALSE]
    @@ vddgpu :> [enable |-> TRUE, iod |-> FALSE, vrsel |-> FALSE,
                  keepMon |-> TRUE, filter |-> TRUE]

MC_Levels == {1800000, 2700000}
=============================================================================
