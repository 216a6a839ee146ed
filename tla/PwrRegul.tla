------------------------------ MODULE PwrRegul ------------------------------
(***************************************************************************)
(* The PWR regulators of stm32mp25_pwr_regul.c: pwr_set_state (with        *)
(* pwr_enable_reg / pwr_disable_reg), pwr_set_voltage, pwr_supplied_init   *)
(* and the PM callback pwr_regu_pm, run by one OP-TEE thread at a time;    *)
(* the hardware RDY flags, the supply regulators and a low-power cycle     *)
(* act meanwhile.                                                          *)
(*                                                                         *)
(* Per regulator r: vmen[r], sv[r], vrsel[r] (its VMEN, SV and VRSEL bits  *)
(* of PWR_CRx), rdy[r] (its RDY flag), comp[r] (its SYSCFG IO compensation *)
(* cell), supply[r] (the level of its supply regulator, in uV), cidEn[r]   *)
(* (CID filtering of its RIFSC peripheral, for the GPU).  The call in      *)
(* progress is pc with its return labels on stack, as the C calls nest.   *)
(* The supply regulator and the SYSCFG compensation are outside this       *)
(* repository: their results are free choices.                             *)
(***************************************************************************)
EXTENDS Integers, Sequences

CONSTANTS
    Regus,          \* the pwr_regulators[] instances of the model
    Desc,           \* their struct pwr_regu fields, as booleans
    Levels,         \* supply levels (uV) a consumer may request
    IO_VOLTAGE_THRESHOLD_UV,
    NoRegu

ASSUME /\ Desc \in [Regus -> [enable : BOOLEAN, iod : BOOLEAN, vrsel : BOOLEAN,
                               keepMon : BOOLEAN, filter : BOOLEAN]]
       /\ Levels \subseteq Nat /\ NoRegu \notin Regus

VARIABLES
    vmen, sv, vrsel, rdy, comp, supply, cidEn,  \* hardware
    suspendUv, suspendState,    \* struct pwr_regu fields saved by suspend
    ready,      \* regulators whose pwr_supplied_init has run
    cur,        \* regulator of the call in progress, or NoRegu
    pc, stack,  \* position in the call, return labels of the callers
    res,        \* result of the last returned callee
    levelUv, isEnabled, result, \* locals of pwr_set_voltage
    cidSaved,   \* cid_enabled local of pwr_enable_reg / pwr_disable_reg
    pm,         \* "run", "suspending", "suspended", "resuming"
    pmTodo,     \* regulators whose PM callback has still to run
    pmRes,      \* history: every resume callback of the last cycle
                \* succeeded and no call has run since
    hwSaved,    \* history: enabled state and supply level at suspend
    cidEn0      \* history: the RIFSC CID filtering configuration

rvars == <<vmen, sv, vrsel, rdy, comp, supply, cidEn, suspendUv, suspendState,
           ready, cur, pc, stack, res, levelUv, isEnabled, result, cidSaved,
           pm, pmTodo, pmRes,
                   hwSaved, cidEn0>>

Results == {"Success", "Error"}
Labels == {"idle", "ss_enable", "ss_disable", "en_start", "en_poll",
           "en_check", "ss_en_ret", "sv_isolated", "sv_supply", "sv_low",
           "sv_done", "pm_state", "pm_done", "top"}

PwrRegulTypeOK ==
    /\ vmen \in [Regus -> BOOLEAN] /\ sv \in [Regus -> BOOLEAN]
    /\ vrsel \in [Regus -> BOOLEAN] /\ rdy \in [Regus -> BOOLEAN]
    /\ comp \in [Regus -> BOOLEAN] /\ supply \in [Regus -> Levels]
    /\ cidEn \in [Regus -> BOOLEAN]
    /\ suspendUv \in [Regus -> Levels \cup {0}] /\ suspendState \in [Regus -> BOOLEAN]
    /\ ready \subseteq Regus /\ cur \in Regus \cup {NoRegu}
    /\ pc \in Labels /\ stack \in Seq(Labels)
    /\ res \in Results /\ result \in Results
    /\ levelUv \in Levels /\ isEnabled \in BOOLEAN /\ cidSaved \in BOOLEAN
    /\ pm \in {"run", "suspending", "suspended", "resuming"}
    /\ pmTodo \subseteq Regus /\ pmRes \in BOOLEAN
    /\ hwSaved \in [Regus -> [en : BOOLEAN, uv : Levels]]
    /\ cidEn0 \in [Regus -> BOOLEAN]

-----------------------------------------------------------------------------
(* Calls and returns.  Every step below belongs to the call of cur.        *)

\* call the function at label f, to return to label back
Call(f, back) == pc' = f /\ stack' = <<back>> \o stack

\* return v to the caller; the outermost call returns to "top"
Return(v) == res' = v /\ pc' = Head(stack) /\ stack' = Tail(stack)

GetStateVmenOnly(r) == IF Desc[r].enable THEN vmen[r] ELSE TRUE

\* pwr_get_state: the enable and valid bits, or TRUE without an enable bit
GetState(r) == IF Desc[r].enable THEN vmen[r] \/ sv[r] ELSE TRUE

\* pwr_disable_reg: VMEN and SV cleared inside the CID filtering window
DisableReg(r) ==
    /\ sv' = [sv EXCEPT ![r] = ~Desc[r].enable /\ @]
    /\ vmen' = [vmen EXCEPT ![r] = ~Desc[r].enable /\ @]
    /\ rdy' = [rdy EXCEPT ![r] = ~Desc[r].enable /\ @]

-----------------------------------------------------------------------------
(* pwr_set_state(r, FALSE): compensation off, then pwr_disable_reg.       *)

SsDisable ==
    /\ pc = "ss_disable" /\ cur # NoRegu
    /\ LET r == cur IN
       IF Desc[r].iod
       THEN \E ok \in BOOLEAN :
               IF ok THEN /\ comp' = [comp EXCEPT ![r] = FALSE]
                          /\ DisableReg(r) /\ Return("Success")
               ELSE Return("Error") /\ UNCHANGED <<comp, sv, vmen, rdy>>
       ELSE DisableReg(r) /\ Return("Success") /\ UNCHANGED comp
    /\ UNCHANGED <<vrsel, supply, cidEn, suspendUv, suspendState, ready, cur,
                   levelUv, isEnabled, result, cidSaved, pm, pmTodo, pmRes, hwSaved,
                   cidEn0>>

(* pwr_set_state(r, TRUE): pwr_enable_reg, then compensation on.          *)

SsEnable ==
    /\ pc = "ss_enable" /\ cur # NoRegu
    /\ Call("en_start", "ss_en_ret")
    /\ UNCHANGED <<vmen, sv, vrsel, rdy, comp, supply, cidEn, suspendUv,
                   suspendState, ready, cur, res, levelUv, isEnabled, result,
                   cidSaved, pm, pmTodo, pmRes,
                   hwSaved, cidEn0>>

\* pwr_enable_reg up to the wait: no enable bit returns at once; else the
\* GPU's CID filtering is switched off and VMEN set
EnStart ==
    /\ pc = "en_start" /\ cur # NoRegu
    /\ LET r == cur IN
       IF ~Desc[r].enable
       THEN Return("Success") /\ UNCHANGED <<vmen, cidEn, cidSaved>>
       ELSE /\ cidSaved' = (Desc[r].filter /\ cidEn[r])
            /\ cidEn' = [cidEn EXCEPT ![r] = @ /\ ~cidSaved']
            /\ vmen' = [vmen EXCEPT ![r] = TRUE]
            /\ pc' = "en_poll" /\ UNCHANGED <<stack, res>>
    /\ UNCHANGED <<sv, vrsel, rdy, comp, supply, suspendUv, suspendState,
                   ready, cur, levelUv, isEnabled, result, pm, pmTodo, pmRes,
                   hwSaved, cidEn0>>

\* the wait loop: RDY read set breaks out of it
EnPollReady ==
    /\ pc = "en_poll" /\ rdy[cur]
    /\ pc' = "en_check"
    /\ UNCHANGED <<vmen, sv, vrsel, rdy, comp, supply, cidEn, suspendUv,
                   suspendState, ready, cur, stack, res, levelUv, isEnabled,
                   result, cidSaved, pm, pmTodo, pmRes,
                   hwSaved, cidEn0>>

CanTimeOut == TRUE

EnPollTimeout ==
    /\ pc = "en_poll" /\ CanTimeOut
    /\ pc' = "en_check"
    /\ UNCHANGED <<vmen, sv, vrsel, rdy, comp, supply, cidEn, suspendUv,
                   suspendState, ready, cur, stack, res, levelUv, isEnabled,
                   result, cidSaved, pm, pmTodo, pmRes,
                   hwSaved, cidEn0>>

\* stm32_rifsc_cid_enable if cid_enabled
CidRestored(r) == [cidEn EXCEPT ![r] = @ \/ cidSaved]

FailPathCidLeak(r) == cidEn

\* the timeout path restores the filtering too
FailPathCid(r) == CidRestored(r)

\* after the loop: RDY read again; on failure VMEN is cleared, on success
\* SV set and VMEN cleared unless keep_monitor_on; CID filtering restored
EnCheck ==
    /\ pc = "en_check"
    /\ LET r == cur IN
       IF rdy[r]
       THEN /\ sv' = [sv EXCEPT ![r] = TRUE]
            /\ vmen' = [vmen EXCEPT ![r] = Desc[r].keepMon]
            /\ rdy' = [rdy EXCEPT ![r] = Desc[r].keepMon]
            /\ cidEn' = CidRestored(r)
            /\ Return("Success")
       ELSE /\ vmen' = [vmen EXCEPT ![r] = FALSE]
            /\ cidEn' = FailPathCid(r)
            /\ Return("Error") /\ UNCHANGED <<sv, rdy>>
    /\ UNCHANGED <<vrsel, comp, supply, suspendUv, suspendState, ready, cur,
                   levelUv, isEnabled, result, cidSaved, pm, pmTodo, pmRes,
                   hwSaved, cidEn0>>

\* back in pwr_set_state(TRUE): an IO domain enables its compensation and,
\* if that fails, disables the regulator again
SsEnRet ==
    /\ pc = "ss_en_ret"
    /\ LET r == cur IN
       IF res = "Success" /\ Desc[r].iod
       THEN \E ok \in BOOLEAN :
               IF ok THEN /\ comp' = [comp EXCEPT ![r] = TRUE]
                          /\ Return("Success") /\ UNCHANGED <<sv, vmen, rdy>>
               ELSE DisableReg(r) /\ Return("Error") /\ UNCHANGED comp
       ELSE Return(res) /\ UNCHANGED <<comp, sv, vmen, rdy>>
    /\ UNCHANGED <<vrsel, supply, cidEn, suspendUv, suspendState, ready, cur,
                   levelUv, isEnabled, result, cidSaved, pm, pmTodo, pmRes,
                   hwSaved, cidEn0>>

-----------------------------------------------------------------------------
(* pwr_set_voltage(r, level_uv).                                          *)

HighModeFirstStrict(l) == l > IO_VOLTAGE_THRESHOLD_UV

\* "Set IO to high voltage" before the supply moves
HighModeFirst(l) == l >= IO_VOLTAGE_THRESHOLD_UV

\* pwr_set_low_volt(r, state): VRSEL, for a regulator that has one
LowVolt(r, state) == vrsel' = [vrsel EXCEPT ![r] = IF Desc[r].vrsel THEN state
                                                   ELSE @]

\* entry of pwr_set_voltage(r, l) returning to label back: an enabled
\* regulator is first isolated with pwr_set_state(FALSE)
SvBegin(r, l, back) ==
    /\ cur' = r /\ levelUv' = l /\ isEnabled' = GetState(r)
    /\ IF GetState(r)
       THEN pc' = "ss_disable" /\ stack' = <<"sv_isolated", back>>
            /\ UNCHANGED res
       ELSE pc' = "sv_isolated" /\ stack' = <<back>> /\ res' = "Success"

\* the isolation failed: return; else leave low-voltage mode first when
\* the new level needs it
SvIsolated ==
    /\ pc = "sv_isolated"
    /\ IF res # "Success"
       THEN Return(res) /\ UNCHANGED vrsel
       ELSE /\ IF HighModeFirst(levelUv) THEN LowVolt(cur, FALSE)
               ELSE UNCHANGED vrsel
            /\ pc' = "sv_supply" /\ UNCHANGED <<stack, res>>
    /\ UNCHANGED <<vmen, sv, rdy, comp, supply, cidEn, suspendUv, suspendState,
                   ready, cur, levelUv, isEnabled, result, cidSaved, pm,
                   pmTodo, pmRes,
                   hwSaved, cidEn0>>

\* regulator_set_voltage(supply, level_uv); on failure level_uv becomes
\* the supply's level and the IO setting is restored for it
SvSupply ==
    /\ pc = "sv_supply"
    /\ \/ supply' = [supply EXCEPT ![cur] = levelUv]
          /\ result' = "Success" /\ UNCHANGED levelUv
       \/ result' = "Error" /\ levelUv' = supply[cur] /\ UNCHANGED supply
    /\ pc' = "sv_low"
    /\ UNCHANGED <<vmen, sv, vrsel, rdy, comp, cidEn, suspendUv, suspendState,
                   ready, cur, stack, res, isEnabled, cidSaved, pm, pmTodo,
                   pmRes, hwSaved, cidEn0>>

\* low-voltage mode after a lower level is in place, then de-isolation
SvLow ==
    /\ pc = "sv_low"
    /\ IF levelUv < IO_VOLTAGE_THRESHOLD_UV THEN LowVolt(cur, TRUE)
       ELSE UNCHANGED vrsel
    /\ IF isEnabled THEN Call("ss_enable", "sv_done")
       ELSE pc' = "sv_done" /\ UNCHANGED stack
    /\ UNCHANGED <<vmen, sv, rdy, comp, supply, cidEn, suspendUv, suspendState,
                   ready, cur, res, levelUv, isEnabled, result, cidSaved, pm,
                   pmTodo, pmRes,
                   hwSaved, cidEn0>>

SvDone ==
    /\ pc = "sv_done"
    /\ Return(IF res # "Success" THEN res ELSE result)
    /\ UNCHANGED <<vmen, sv, vrsel, rdy, comp, supply, cidEn, suspendUv,
                   suspendState, ready, cur, levelUv, isEnabled, result,
                   cidSaved, pm, pmTodo, pmRes,
                   hwSaved, cidEn0>>
-----------------------------------------------------------------------------
(* The regulator framework's calls, pwr_supplied_init and pwr_regu_pm.    *)

\* the output of r is valid (SV), or r has no enable bit
Powered(r) == ~Desc[r].enable \/ sv[r]

Locals == <<levelUv, isEnabled, result, cidSaved>>

LevelUvInit == CHOOSE l \in Levels : \A m \in Levels : l <= m

\* regulator_set_state / regulator_set_voltage of a consumer reach
\* pwr_set_state / pwr_set_voltage of a regulator already initialized
SetStateCall(r, en) ==
    /\ pm = "run" /\ pc = "idle" /\ r \in ready
    /\ cur' = r /\ stack' = <<"top">> /\ pmRes' = FALSE
    /\ pc' = IF en THEN "ss_enable" ELSE "ss_disable"
    /\ UNCHANGED <<vmen, sv, vrsel, rdy, comp, supply, cidEn, suspendUv,
                   suspendState, ready, res, Locals, pm, pmTodo, hwSaved,
                   cidEn0>>

SetVoltageCall(r, l) ==
    /\ pm = "run" /\ pc = "idle" /\ r \in ready
    /\ SvBegin(r, l, "top") /\ pmRes' = FALSE
    /\ UNCHANGED <<vmen, sv, vrsel, rdy, comp, supply, cidEn, suspendUv,
                   suspendState, ready, result, cidSaved, pm, pmTodo,
                   hwSaved, cidEn0>>

\* the locals of a returned call are dead: they are reset so that states
\* differing only in them are one
LocalsReset ==
    /\ res' = "Success" /\ result' = "Success" /\ levelUv' = LevelUvInit
    /\ isEnabled' = FALSE /\ cidSaved' = FALSE

CallDone ==
    /\ pc = "top"
    /\ pc' = "idle" /\ cur' = NoRegu /\ LocalsReset
    /\ UNCHANGED <<vmen, sv, vrsel, rdy, comp, supply, cidEn, suspendUv,
                   suspendState, ready, stack, pm, pmTodo, pmRes, hwSaved,
                   cidEn0>>

\* pwr_supplied_init: an IO domain below 2.7 V goes to low-voltage mode;
\* then pwr_regu_pm is registered
SuppliedInit(r) ==
    /\ pm = "run" /\ pc = "idle" /\ r \notin ready
    /\ IF Desc[r].iod /\ supply[r] < IO_VOLTAGE_THRESHOLD_UV
       THEN LowVolt(r, TRUE) ELSE UNCHANGED vrsel
    /\ ready' = ready \cup {r} /\ pmRes' = FALSE
    /\ UNCHANGED <<vmen, sv, rdy, comp, supply, cidEn, suspendUv, suspendState,
                   cur, pc, stack, res, Locals, pm, pmTodo, hwSaved, cidEn0>>

PmSuspendStart ==
    /\ pm = "run" /\ pc = "idle"
    /\ pm' = "suspending" /\ pmTodo' = ready
    /\ hwSaved' = [r \in Regus |-> [en |-> Powered(r), uv |-> supply[r]]]
    /\ UNCHANGED <<vmen, sv, vrsel, rdy, comp, supply, cidEn, suspendUv,
                   suspendState, ready, cur, pc, stack, res, Locals, pmRes,
                   cidEn0>>

SavedUvStale(r) == suspendUv[r]

\* pwr_get_voltage(regulator, &pwr_regu->suspend_uv): the supply's level
SavedUv(r) == supply[r]

\* pwr_regu_pm(PM_OP_SUSPEND): save the state; an IO domain saves its
\* level, leaves low-voltage mode and disables its compensation
PmSuspendRegu(r) ==
    /\ pm = "suspending" /\ r \in pmTodo
    /\ suspendState' = [suspendState EXCEPT ![r] = GetState(r)]
    /\ IF Desc[r].iod
       THEN /\ suspendUv' = [suspendUv EXCEPT ![r] = SavedUv(r)]
            /\ LowVolt(r, FALSE)
            /\ \E ok \in BOOLEAN : comp' = [comp EXCEPT ![r] = @ /\ ~ok]
       ELSE UNCHANGED <<suspendUv, vrsel, comp>>
    /\ pmTodo' = pmTodo \ {r}
    /\ UNCHANGED <<vmen, sv, rdy, supply, cidEn, ready, cur, pc, stack, res,
                   Locals, pm, pmRes, hwSaved, cidEn0>>

PmSuspended ==
    /\ pm = "suspending" /\ pmTodo = {}
    /\ pm' = "suspended"
    /\ UNCHANGED <<vmen, sv, vrsel, rdy, comp, supply, cidEn, suspendUv,
                   suspendState, ready, cur, pc, stack, res, Locals, pmTodo,
                   pmRes, hwSaved, cidEn0>>

PmResumeStart ==
    /\ pm = "suspended"
    /\ pm' = "resuming" /\ pmTodo' = ready /\ pmRes' = TRUE
    /\ UNCHANGED <<vmen, sv, vrsel, rdy, comp, supply, cidEn, suspendUv,
                   suspendState, ready, cur, pc, stack, res, Locals, hwSaved,
                   cidEn0>>

\* pwr_regu_pm(PM_OP_RESUME): an IO domain first gets its saved level
\* back through pwr_set_voltage
PmResumeRegu(r) ==
    /\ pm = "resuming" /\ pc = "idle" /\ r \in pmTodo
    /\ IF Desc[r].iod
       THEN SvBegin(r, suspendUv[r], "pm_state")
       ELSE cur' = r /\ pc' = "pm_state" /\ stack' = <<>> /\ res' = "Success"
            /\ UNCHANGED <<levelUv, isEnabled>>
    /\ UNCHANGED <<vmen, sv, vrsel, rdy, comp, supply, cidEn, suspendUv,
                   suspendState, ready, result, cidSaved, pm, pmTodo, pmRes,
                   hwSaved, cidEn0>>

\* then pwr_set_state(suspend_state), unless pwr_set_voltage failed
PmState ==
    /\ pc = "pm_state"
    /\ IF res # "Success" THEN pc' = "pm_done" /\ UNCHANGED stack
       ELSE Call(IF suspendState[cur] THEN "ss_enable" ELSE "ss_disable",
                 "pm_done")
    /\ UNCHANGED <<vmen, sv, vrsel, rdy, comp, supply, cidEn, suspendUv,
                   suspendState, ready, cur, res, Locals, pm, pmTodo, pmRes,
                   hwSaved, cidEn0>>

PmDone ==
    /\ pc = "pm_done"
    /\ pmRes' = (pmRes /\ res = "Success")
    /\ pmTodo' = pmTodo \ {cur} /\ pc' = "idle" /\ cur' = NoRegu
    /\ LocalsReset
    /\ UNCHANGED <<vmen, sv, vrsel, rdy, comp, supply, cidEn, suspendUv,
                   suspendState, ready, stack, pm, hwSaved, cidEn0>>

PmResumed ==
    /\ pm = "resuming" /\ pmTodo = {} /\ pc = "idle"
    /\ pm' = "run"
    /\ UNCHANGED <<vmen, sv, vrsel, rdy, comp, supply, cidEn, suspendUv,
                   suspendState, ready, cur, pc, stack, res, Locals, pmTodo,
                   pmRes, hwSaved, cidEn0>>
-----------------------------------------------------------------------------
(* The hardware and the low-power cycle.                                  *)

\* the voltage monitor of a regulator whose VMEN is set reports RDY
HwReady(r) ==
    /\ vmen[r] /\ ~rdy[r]
    /\ rdy' = [rdy EXCEPT ![r] = TRUE]
    /\ UNCHANGED <<vmen, sv, vrsel, comp, supply, cidEn, suspendUv,
                   suspendState, ready, cur, pc, stack, res, Locals, pm,
                   pmTodo, pmRes, hwSaved, cidEn0>>

\* a low-power mode that loses the PWR_CRx and SYSCFG IO settings
ContextLost ==
    /\ pm = "suspended"
    /\ LET off == [r \in Regus |-> FALSE]
       IN vmen' = off /\ sv' = off /\ vrsel' = off /\ rdy' = off /\ comp' = off
    /\ UNCHANGED <<supply, cidEn, suspendUv, suspendState, ready, cur, pc,
                   stack, res, Locals, pm, pmTodo, pmRes, hwSaved, cidEn0>>

\* the supply regulator moves to its low-power level meanwhile
SupplyDrift(r, l) ==
    /\ pm = "suspended" /\ supply[r] # l
    /\ supply' = [supply EXCEPT ![r] = l]
    /\ UNCHANGED <<vmen, sv, vrsel, rdy, comp, cidEn, suspendUv, suspendState,
                   ready, cur, pc, stack, res, Locals, pm, pmTodo, pmRes,
                   hwSaved, cidEn0>>

\* reset values, except the SV bits and the CID filtering that earlier
\* boot stages may have set; supply levels as the PMIC starts them;
\* pwr_regulators[] is static, its suspend_uv fields 0
PwrRegulInit ==
    /\ vmen = [r \in Regus |-> FALSE] /\ rdy = vmen /\ vrsel = vmen
    /\ comp = vmen /\ suspendState = vmen
    /\ sv \in [Regus -> BOOLEAN]
    /\ cidEn \in {f \in [Regus -> BOOLEAN] : \A r \in Regus : f[r] => Desc[r].filter}
    /\ cidEn0 = cidEn
    /\ supply \in [Regus -> Levels]
    /\ suspendUv = [r \in Regus |-> 0]
    /\ ready = {} /\ cur = NoRegu /\ pc = "idle" /\ stack = <<>>
    /\ res = "Success" /\ result = "Success" /\ levelUv = LevelUvInit
    /\ isEnabled = FALSE /\ cidSaved = FALSE
    /\ pm = "run" /\ pmTodo = {} /\ pmRes = FALSE
    /\ hwSaved = [r \in Regus |-> [en |-> FALSE, uv |-> supply[r]]]

\* the steps of a call in progress, which the OP-TEE thread runs to the end
CallStep ==
    \/ SsDisable \/ SsEnable \/ EnStart \/ EnPollReady \/ EnPollTimeout
    \/ EnCheck \/ SsEnRet \/ SvIsolated \/ SvSupply \/ SvLow \/ SvDone
    \/ CallDone \/ PmState \/ PmDone

PwrRegulNext ==
    \/ CallStep
    \/ \E r \in Regus :
          \/ SuppliedInit(r) \/ PmSuspendRegu(r) \/ PmResumeRegu(r)
          \/ HwReady(r)
          \/ \E en \in BOOLEAN : SetStateCall(r, en)
          \/ \E l \in Levels : SetVoltageCall(r, l) \/ SupplyDrift(r, l)
    \/ PmSuspendStart \/ PmSuspended \/ ContextLost \/ PmResumeStart
    \/ PmResumed

\* weak fairness on the thread's own steps only: RDY, the consumers and
\* the low-power cycle owe nothing
PwrRegulSpec == PwrRegulInit /\ [][PwrRegulNext]_rvars /\ WF_rvars(CallStep)

-----------------------------------------------------------------------------
(* The VRSEL bit of an IO domain selects its 1.8 V mode: pwr_set_voltage   *)
(* leaves it before raising the supply to 2.7 V or more and enters it only *)
(* once the supply is below, pwr_supplied_init and the suspend callback    *)
(* keep it so: no IO is ever in low-voltage mode with a supply of 2.7 V or *)
(* more.                                                                   *)
VrselSafe == \A r \in Regus : vrsel[r] => supply[r] < IO_VOLTAGE_THRESHOLD_UV

(* pwr_regu_pm: once every resume callback of a low-power cycle has        *)
(* succeeded, each initialized regulator is powered as it was at suspend   *)
(* and an IO domain is back at its suspend level, whatever the low-power   *)
(* mode did to the registers and the supplies.                             *)
PmRestoresRegulators ==
    pm = "run" /\ pmRes =>
        \A r \in ready :
            /\ Powered(r) = hwSaved[r].en
            /\ Desc[r].iod => supply[r] = hwSaved[r].uv

(* pwr_enable_reg lifts the GPU's RIFSC CID filtering to reach PWR_CR12:   *)
(* between two calls, on the timeout path as on success, the filtering is  *)
(* what it was.                                                            *)
CidFilteringRestored == cur = NoRegu => cidEn = cidEn0

=============================================================================
