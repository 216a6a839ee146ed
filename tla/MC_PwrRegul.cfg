CONSTANTS
    vddio1 = vddio1
    vddgpu = vddgpu
    Regus = {vddio1, vddgpu}
    NoRegu = NoRegu
    Desc <- MC_Desc
    Levels <- MC_Levels
    IO_VOLTAGE_THRESHOLD_UV = 2700000
SPECIFICATION PwrRegulSpec
INVARIANT PwrRegulTypeOK
INVARIANT VrselSafe
INVARIANT PmRestoresRegulators
INVARIANT CidFilteringRestored
 
