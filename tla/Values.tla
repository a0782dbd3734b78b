------------------------------- MODULE Values -------------------------------
(***************************************************************************)
(* The tables of types.rs: codes carried on the wire, the voltages of each *)
(* chemistry and the ranges the programs accept.  A value of an enumerated *)
(* type is [name, code]; code tells apart only the values without a name,  *)
(* the Unknown(u8) of the code.                                            *)
(***************************************************************************)
EXTENDS Naturals, SequencesExt

Named(name) == [name |-> name, code |-> 0]
Unnamed(code) == [name |-> "Unknown", code |-> code]

\* The names of each type in the order of their codes, from zero.
BatteryKinds == <<"LiHv", "LiPo", "LiIon", "LiFe", "Pb", "NiMhCd", "ULiHv">>
TaskTypes == <<"Charge", "Storage", "Discharge", "Stop">>
LinkTypes == <<"None", "SerialOnly", "BalanceOnly", "Both">>
ChargerStates ==
  <<"Standby", "Activating", "CurrentRise", "ConstantCurrent", "ConstantVoltage",
    "ConstantVoltageBalance", "TrickleBalance", "StorageCharging",
    "StorageDischarging", "Stored", "Discharging", "Discharged">>

\* from_code and code of a type with these names.
FromCode(names, code) ==
  IF code < Len(names) THEN Named(names[code + 1]) ELSE Unnamed(code)
Code(names, value) ==
  IF value.name = "Unknown" THEN value.code
  ELSE (CHOOSE i \in DOMAIN names : names[i] = value.name) - 1

\* ChargerState::is_running
IsRunning(state) ==
  state.name \notin {"Standby", "Stored", "Discharged", "Unknown"}

\* The fully charged, storage and cutoff voltages of a cell, where a chemistry
\* has one.
None == 0
VoltOf(table, kind) == IF kind.name \in DOMAIN table THEN table[kind.name] ELSE None
max_cell_mv == [LiHv |-> 4350, LiPo |-> 4200, LiIon |-> 4100, LiFe |-> 3650,
                Pb |-> 2400, ULiHv |-> 4450]
store_cell_mv == [LiHv |-> 3850, LiPo |-> 3800, LiIon |-> 3700, LiFe |-> 3300]
discharge_cell_mv == [LiHv |-> 3400, LiPo |-> 3300, LiIon |-> 3200, LiFe |-> 2900,
                      Pb |-> 1800, NiMhCd |-> 900]

\* (mutant: storing and discharging share one arm)
DefaultVoltShared(task, kind) ==
  CASE task = "Charge" -> VoltOf(max_cell_mv, kind)
    [] OTHER           -> VoltOf(discharge_cell_mv, kind)

\* The target both programs fall back on when the user names none.
DefaultVolt(task, kind) ==
  CASE task = "Storage"   -> VoltOf(store_cell_mv, kind)
    [] task = "Discharge" -> VoltOf(discharge_cell_mv, kind)
    [] OTHER              -> VoltOf(max_cell_mv, kind)

WORK_CURRENT_MA == 100 .. 5000
CM1620_CELLS == 2 .. 16
MAX_INPUT_POWER_W == 100 .. 1100
MIN_INPUT_VOLT_V == 11 .. 70
=============================================================================
