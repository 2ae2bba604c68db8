------------------------- MODULE SensorUnits_proofs -------------------------
(***************************************************************************)
(* Theorems about SensorUnits for every number of units, hit budget and    *)
(* sequence of channels, with and without pre-emption.                     *)
(***************************************************************************)
EXTENDS MCSensorUnits, TLAPS

(* What Health Monitoring still relies on when it goes on after other      *)
(* tasks: the unit it is about to set to on_e is not one in acquisition or *)
(* under self test.                                                        *)
WithUnit == {"MeasureTemperature", "ExecuteChannelTest", "Awaited", "Rise", "RiseMissed",
             "Pulse", "PulseOver", "PulseMissed", "RestoreState"}
WithIndex == {"InitHealthMonitoring", "Update_SU_State", "PeakReset", "VoltageDown"}
AtVoltage == {"LowVoltageCurrent", "VoltageDown"}

PlaceIndices ==
  /\ health = "InitHealthMonitoring" => mode = "DPU_SELF_TEST"
  /\ health \in WithIndex => i \in SU
  /\ health \in WithUnit => su \in SU
  /\ health \in AtVoltage /\ health_mon_round = 7 => su \in SU
ResetUnit   == health = "PeakReset" => SU_state[i] \in {"off_e"} \cup Switching
RestoreUnit == health = "RestoreState" =>
  su # self_test_SU_number /\ SU_state[su] \in {"off_e", "self_test_e"} \cup Switching

UnitsType ==
  /\ SU_state \in [SU -> SU_states]
  /\ self_test_SU_number \in SU \cup {NO_SU}
  /\ SU_ctrl_register \subseteq SU
HitsType  == hit_enabled \in BOOLEAN /\ hit_budget_left \in 0..HIT_BUDGET
TaskType  ==
  /\ mode \in {"DPU_SELF_TEST", "STAND_BY", "ACQUISITION"}
  /\ health \in Places /\ health_mon_round \in 0..9
  /\ su \in SU \cup {NO_SU} /\ i \in Nat

UnitsInv == UnitsType /\ OffIsUnpowered /\ AcquisitionInMode /\ SelfTestNumberInTest
PlaceInv == TaskType /\ PlaceIndices
WaitInv  == ResetUnit /\ RestoreUnit
IInv     == UnitsInv /\ HitsType /\ PlaceInv /\ WaitInv

LEMMA UnitNumbers == 1 \in SU /\ NO_SU \notin SU /\ SU \subseteq Nat
BY SensorUnitsAssumption DEF SU, NO_SU

(* The effect of one assignment to SU_state. *)
LEMMA StateSet ==
  ASSUME NEW s \in SU, NEW state \in SU_states, SU_state \in [SU -> SU_states],
         SetState(s, state)
  PROVE  /\ SU_state' \in [SU -> SU_states]
         /\ \A t \in SU : SU_state'[t] = IF t = s THEN state ELSE SU_state[t]
BY DEF SetState

LEMMA StateNames ==
  /\ Switching \subseteq SU_states /\ InTest \subseteq SU_states
  /\ {"off_e", "on_e", "acquisition_e"} \subseteq SU_states
BY DEF SU_states

(* Units, mode and hits, whoever switches a unit off. *)
LEMMA SwitchedOff ==
  ASSUME NEW s \in SU, UnitsInv, SetSensorUnitOff(s), UNCHANGED mode
  PROVE  /\ UnitsInv'
         /\ self_test_SU_number' = IF s = self_test_SU_number THEN NO_SU
                                                              ELSE self_test_SU_number
         /\ \A t \in SU : SU_state'[t] = IF t = s THEN "off_e" ELSE SU_state[t]
<1>1. /\ SU_state' \in [SU -> SU_states]
      /\ \A t \in SU : SU_state'[t] = IF t = s THEN "off_e" ELSE SU_state[t]
  BY StateSet, StateNames DEF SetSensorUnitOff, UnitsInv, UnitsType
<1>2. self_test_SU_number' = IF s = self_test_SU_number THEN NO_SU ELSE self_test_SU_number
  BY DEF SetSensorUnitOff, TestNumber
<1>3. UnitsType'
  BY <1>1, <1>2 DEF SetSensorUnitOff, UnitsInv, UnitsType
<1>4. OffIsUnpowered' /\ AcquisitionInMode'
  BY <1>1 DEF SetSensorUnitOff, UnitsInv, OffIsUnpowered, AcquisitionInMode, Switching
<1>5. SelfTestNumberInTest'
  BY <1>1, <1>2 DEF UnitsInv, UnitsType, SelfTestNumberInTest
<1>6. QED BY <1>1, <1>2, <1>3, <1>4, <1>5 DEF UnitsInv

(* The state of one unit is moved on: to on_e or in the self test from any *)
(* state, as the code does, unless it takes the unit out of the self test  *)
(* while it is the one under test.                                         *)
LEMMA StateMoves ==
  ASSUME NEW s \in SU, NEW state \in {"on_e", "switching_e"} \cup InTest, UnitsInv,
         SetState(s, state), UNCHANGED <<self_test_SU_number, SU_ctrl_register, mode>>,
         s = self_test_SU_number => state \in InTest,
         state = "switching_e" => SU_state[s] \in Switching
  PROVE  UnitsInv'
<1>1. /\ SU_state' \in [SU -> SU_states]
      /\ \A t \in SU : SU_state'[t] = IF t = s THEN state ELSE SU_state[t]
  BY StateSet, StateNames DEF UnitsInv, UnitsType, SU_states, Switching
<1>2. UnitsType'
  BY <1>1 DEF UnitsInv, UnitsType
<1>3. OffIsUnpowered' /\ AcquisitionInMode'
  BY <1>1 DEF UnitsInv, OffIsUnpowered, AcquisitionInMode, Switching, InTest
<1>4. SelfTestNumberInTest'
  BY <1>1 DEF UnitsInv, UnitsType, SelfTestNumberInTest
<1>5. QED BY <1>2, <1>3, <1>4 DEF UnitsInv

(* The Telecommand Execution task. *)
LEMMA CommandUnits == UnitsInv /\ TC_Task => UnitsInv'
<1> SUFFICES ASSUME UnitsInv, TC_Task PROVE UnitsInv'
  OBVIOUS
<1>1. ASSUME NEW s \in SU, Switch_SU_On(s) PROVE UnitsInv'
  <2>1. /\ SU_state' \in [SU -> SU_states]
        /\ \A t \in SU : SU_state'[t] = IF t = s THEN "start_switching_e" ELSE SU_state[t]
    BY <1>1, StateSet, StateNames
    DEF Switch_SU_On, Start_SU_SwitchingOn, UnitsInv, UnitsType, Switching
  <2>2. UnitsType' /\ SelfTestNumberInTest'
    BY <1>1, <2>1
    DEF Switch_SU_On, Start_SU_SwitchingOn, UnitsInv, UnitsType, SelfTestNumberInTest, InTest
  <2>3. OffIsUnpowered' /\ AcquisitionInMode'
    BY <1>1, <2>1 DEF Switch_SU_On, Start_SU_SwitchingOn, UnitsInv, OffIsUnpowered,
                      AcquisitionInMode
  <2>4. QED BY <2>2, <2>3 DEF UnitsInv
<1>2. ASSUME NEW s \in SU, Switch_SU_Off(s) PROVE UnitsInv'
  BY <1>2, SwitchedOff DEF Switch_SU_Off
<1>3. ASSUME NEW s \in SU, Switch_SU_SelfTest(s) PROVE UnitsInv'
  <2>1. /\ SU_state' \in [SU -> SU_states]
        /\ \A t \in SU : SU_state'[t] = IF t = s THEN "self_test_mon_e" ELSE SU_state[t]
    BY <1>3, StateSet, StateNames
    DEF Switch_SU_SelfTest, Switch_SU_State, UnitsInv, UnitsType, InTest
  <2>2. UnitsType' /\ SelfTestNumberInTest'
    BY <1>3, <2>1 DEF Switch_SU_SelfTest, Switch_SU_State, TestNumber, UnitsInv, UnitsType,
                      SelfTestNumberInTest, InTest
  <2>3. OffIsUnpowered' /\ AcquisitionInMode'
    BY <1>3, <2>1 DEF Switch_SU_SelfTest, Switch_SU_State, UnitsInv, OffIsUnpowered,
                      AcquisitionInMode, Switching
  <2>4. QED BY <2>2, <2>3 DEF UnitsInv
<1>4. CASE StartAcquisition
  <2>1. /\ SU_state' \in [SU -> SU_states]
        /\ \A t \in SU : SU_state'[t] = IF SU_state[t] = "on_e" THEN "acquisition_e"
                                                               ELSE SU_state[t]
    BY <1>4, StateNames
    DEF StartAcquisition, SwitchAll, CanSwitch, UnitsInv, UnitsType
  <2>2. self_test_SU_number' = self_test_SU_number
    BY <1>4 DEF StartAcquisition, SwitchAll, CanSwitch, UnitsInv, UnitsType,
                SelfTestNumberInTest, InTest
  <2>3. UnitsType' /\ SelfTestNumberInTest'
    BY <1>4, <2>1, <2>2 DEF StartAcquisition, SwitchAll, UnitsInv, UnitsType,
                            SelfTestNumberInTest, InTest
  <2>4. OffIsUnpowered' /\ AcquisitionInMode'
    BY <1>4, <2>1 DEF StartAcquisition, SwitchAll, UnitsInv, OffIsUnpowered,
                      AcquisitionInMode, Switching
  <2>5. QED BY <2>3, <2>4 DEF UnitsInv
<1>5. CASE StopAcquisition
  <2>1. /\ SU_state' \in [SU -> SU_states]
        /\ \A t \in SU : SU_state'[t] = IF SU_state[t] = "acquisition_e" THEN "on_e"
                                                                        ELSE SU_state[t]
    BY <1>5, StateNames
    DEF StopAcquisition, SwitchAll, CanSwitch, UnitsInv, UnitsType
  <2>2. self_test_SU_number' = self_test_SU_number
    BY <1>5 DEF StopAcquisition, SwitchAll, CanSwitch, UnitsInv, UnitsType,
                SelfTestNumberInTest, InTest
  <2>3. UnitsType' /\ SelfTestNumberInTest'
    BY <1>5, <2>1, <2>2 DEF StopAcquisition, SwitchAll, UnitsInv, UnitsType,
                            SelfTestNumberInTest, InTest
  <2>4. OffIsUnpowered' /\ AcquisitionInMode'
    BY <1>5, <2>1 DEF StopAcquisition, SwitchAll, UnitsInv, OffIsUnpowered,
                      AcquisitionInMode, Switching
  <2>5. QED BY <2>3, <2>4 DEF UnitsInv
<1>6. QED BY <1>1, <1>2, <1>3, <1>4, <1>5 DEF TC_Task

(* A telecommand comes while Health Monitoring waits with a unit in hand. *)
LEMMA CommandWait == IInv /\ TC_Task => WaitInv'
<1> SUFFICES ASSUME IInv, TC_Task PROVE WaitInv'
  OBVIOUS
<1>1. UNCHANGED <<health, su, i>>
  BY DEF TC_Task, Switch_SU_On, Switch_SU_Off, Switch_SU_SelfTest, StartAcquisition,
         StopAcquisition, round
<1>2. /\ health = "PeakReset" => i \in SU
      /\ health = "RestoreState" => su \in SU
  BY DEF IInv, PlaceInv, PlaceIndices, WithIndex, WithUnit, AtVoltage
<1>3. ASSUME NEW t \in SU, SU_state[t] \in {"off_e", "self_test_e"} \cup Switching
      PROVE  SU_state'[t] \in {"off_e", SU_state[t]} \cup Switching
  BY <1>3 DEF IInv, UnitsInv, UnitsType, TC_Task, Switch_SU_On, Switch_SU_Off,
     Switch_SU_SelfTest, StartAcquisition, StopAcquisition, Start_SU_SwitchingOn,
     SetSensorUnitOff, Switch_SU_State, SwitchAll, CanSwitch, SetState, Switching
<1>4. ASSUME NEW t \in SU, SU_state[t] \in {"off_e", "self_test_e"} \cup Switching,
             t # self_test_SU_number
      PROVE  t # self_test_SU_number'
  BY <1>4, UnitNumbers DEF TC_Task, Switch_SU_On, Switch_SU_Off,
     Switch_SU_SelfTest, StartAcquisition, StopAcquisition, Start_SU_SwitchingOn,
     SetSensorUnitOff, Switch_SU_State, SwitchAll, CanSwitch, TestNumber, Switching
<1>5. ResetUnit'
  BY <1>1, <1>2, <1>3 DEF ResetUnit, IInv, WaitInv
<1>6. RestoreUnit'
  BY <1>1, <1>2, <1>3, <1>4 DEF RestoreUnit, IInv, WaitInv
<1>7. QED BY <1>5, <1>6 DEF WaitInv

LEMMA CommandStep == IInv /\ TC_Task => IInv'
<1> SUFFICES ASSUME IInv, TC_Task PROVE IInv'
  OBVIOUS
<1>1. /\ UNCHANGED <<hits, health, round>>
      /\ mode' \in {mode, "STAND_BY", "ACQUISITION"}
      /\ mode = "DPU_SELF_TEST" => mode' = mode
  BY DEF TC_Task, Switch_SU_On, Switch_SU_Off, Switch_SU_SelfTest, StartAcquisition,
         StopAcquisition
<1>2. HitsType' /\ PlaceInv'
  BY <1>1 DEF IInv, HitsType, PlaceInv, PlaceIndices, TaskType, hits, round
<1>3. QED BY <1>2, CommandUnits, CommandWait DEF IInv

(* The Hit Trigger task. *)
LEMMA HitStep == IInv /\ (HandleHitTrigger \/ HandleHitTrigger_Exceeded) => IInv'
<1>1. ASSUME IInv, HandleHitTrigger PROVE IInv'
  <2>1. HitsType' /\ PlaceInv'
    BY <1>1, SensorUnitsAssumption
    DEF HandleHitTrigger, IInv, HitsType, PlaceInv, PlaceIndices, TaskType, round
  <2>2. CASE UNCHANGED SU_state
    BY <1>1, <2>1, <2>2 DEF HandleHitTrigger, IInv, UnitsInv, UnitsType, OffIsUnpowered,
       AcquisitionInMode, SelfTestNumberInTest, WaitInv, ResetUnit, RestoreUnit, round
  <2>3. CASE /\ self_test_SU_number # NO_SU
             /\ SU_state[self_test_SU_number] = "self_test_trigger_e"
             /\ SetState(self_test_SU_number, "self_test_e")
    <3>1. self_test_SU_number \in SU
      BY <1>1, <2>3 DEF IInv, UnitsInv, UnitsType
    <3>2. UnitsInv'
      BY <1>1, <2>3, <3>1, StateMoves DEF HandleHitTrigger, IInv, InTest
    <3>3. \A t \in SU : SU_state[t] # "self_test_trigger_e" => SU_state'[t] = SU_state[t]
      BY <1>1, <2>3, <3>1, StateSet, StateNames
      DEF IInv, UnitsInv, UnitsType, InTest
    <3>4. WaitInv'
      BY <1>1, <3>3 DEF HandleHitTrigger, IInv, PlaceInv, PlaceIndices, WithIndex, WithUnit,
                        WaitInv, ResetUnit, RestoreUnit, Switching, round
    <3>5. QED BY <2>1, <3>2, <3>4 DEF IInv
  <2>4. QED BY <1>1, <2>2, <2>3 DEF HandleHitTrigger
<1>2. ASSUME IInv, HandleHitTrigger_Exceeded PROVE IInv'
  BY <1>2 DEF HandleHitTrigger_Exceeded, IInv, HitsType, UnitsInv, UnitsType, OffIsUnpowered,
     AcquisitionInMode, SelfTestNumberInTest, PlaceInv, PlaceIndices, TaskType, WaitInv,
     ResetUnit, RestoreUnit, units, round
<1>3. QED BY <1>1, <1>2

(* Health Monitoring: steps that only move on to another place, or change  *)
(* the interrupt and its budget.                                           *)
LEMMA UnitsKept == IInv /\ UNCHANGED <<units, mode>> => UnitsInv'
BY DEF IInv, UnitsInv, UnitsType, OffIsUnpowered, AcquisitionInMode, SelfTestNumberInTest, units

LEMMA RoundCounts ==
  health_mon_round \in 0..9 =>
    (IF health_mon_round = 0 THEN 9 ELSE health_mon_round - 1) \in 0..9
OBVIOUS

LEMMA RoundEnds ==
  ASSUME NEW place \in Places, IInv, EndRound(place) PROVE PlaceInv' /\ WaitInv'
<1>1. PlaceInv'
  BY RoundCounts, UnitNumbers DEF EndRound, IInv, PlaceInv, TaskType, PlaceIndices, Places,
     WithUnit, WithIndex, AtVoltage
<1>2. WaitInv'
  BY DEF EndRound, WaitInv, ResetUnit, RestoreUnit
<1>3. QED BY <1>1, <1>2

LEMMA PlaceReached ==
  ASSUME IInv, NEW from \in Places, NEW to \in Places, NEW unit \in SU \cup {NO_SU},
         NEW count \in Nat, Goto(from, to, unit, count),
         to # "InitHealthMonitoring", to \in WithIndex => count \in SU,
         to \in WithUnit => unit \in SU,
         to \in AtVoltage /\ health_mon_round = 7 => unit \in SU
  PROVE  PlaceInv'
BY DEF Goto, IInv, PlaceInv, TaskType, PlaceIndices

LEMMA NoUnitAwaited ==
  ASSUME health' \notin {"PeakReset", "RestoreState"} PROVE WaitInv'
BY DEF WaitInv, ResetUnit, RestoreUnit

(* Update_SU_State for the next unit, or the end of it. *)
LEMMA NextUnitPlace ==
  ASSUME IInv, NEW from \in {"Update_SU_State", "PeakReset"}, NextUnit(from)
  PROVE  PlaceInv' /\ WaitInv' /\ i \in SU /\ mode' = mode /\ health = from
<1>1. health = from /\ from \in Places /\ i \in SU /\ i \in Nat /\ mode' = mode
  BY DEF NextUnit, Goto, IInv, PlaceInv, TaskType, PlaceIndices, WithIndex, Places
<1>2. i < NUM_SU => i + 1 \in SU
  BY <1>1, SensorUnitsAssumption DEF SU
<1>3. PlaceInv'
  BY <1>1, <1>2, PlaceReached, UnitNumbers DEF NextUnit, Places, WithIndex, WithUnit, AtVoltage
<1>4. WaitInv'
  BY NoUnitAwaited DEF NextUnit, Goto
<1>5. QED BY <1>1, <1>3, <1>4

(* The places after a voltage and after a temperature test. *)
LEMMA AfterVoltagePlace ==
  ASSUME IInv, NEW from \in {"LowVoltageCurrent", "VoltageDown"}, AfterVoltage(from),
         health_mon_round = 7 => su \in SU
  PROVE  PlaceInv' /\ WaitInv' /\ mode' = mode
<1>1. CASE health_mon_round = 7
  <2>1. PlaceInv'
    BY <1>1, PlaceReached, UnitNumbers DEF AfterVoltage, Places, WithIndex, WithUnit, AtVoltage
  <2>2. WaitInv' /\ mode' = mode
    BY <1>1, NoUnitAwaited DEF AfterVoltage, Goto
  <2>3. QED BY <2>1, <2>2
<1>2. CASE health_mon_round # 7
  BY <1>2, RoundEnds DEF AfterVoltage, EndRound, Places
<1>3. QED BY <1>1, <1>2

(* Health Monitoring, the steps that leave units and mode as they are. *)
MovesOn ==
  \/ Activated \/ Update_SU_State_Reset
  \/ Monitor_Other \/ Monitor_Budget \/ Monitor_Rearm
  \/ Monitor_Voltage \/ Monitor_SelfTest \/ Monitor_Temperature
  \/ LowVoltageCurrent_Ok \/ LowVoltageCurrent_Down \/ MeasureTemperature_Ok
  \/ SelfTest_Over \/ SelfTest_Continues \/ SelfTestChannel
  \/ ExecuteChannelTest_Enable \/ ExecuteChannelTest_Disable
  \/ Missed("Rise", "RiseMissed") \/ NoticedRise
  \/ Missed("PulseOver", "PulseMissed") \/ NoticedPulse

(* The places after a temperature test and after a channel. *)
LEMMA AfterTemperaturePlace ==
  ASSUME IInv, AfterTemperatureTest
  PROVE  PlaceInv' /\ WaitInv' /\ mode' = mode /\ health = "MeasureTemperature" /\ su \in SU
<1>1. health = "MeasureTemperature" /\ mode' = mode
  BY DEF AfterTemperatureTest, Goto, EndRound
<1>2. su \in SU /\ i + 1 \in Nat
  BY <1>1 DEF IInv, PlaceInv, TaskType, PlaceIndices, WithUnit
<1>3. CASE i < TEMPERATURE_TESTS
  <2>1. PlaceInv'
    BY <1>2, <1>3, PlaceReached
    DEF AfterTemperatureTest, Places, WithIndex, WithUnit, AtVoltage
  <2>2. WaitInv'
    BY <1>3, NoUnitAwaited DEF AfterTemperatureTest, Goto
  <2>3. QED BY <1>1, <1>2, <2>1, <2>2
<1>4. CASE ~(i < TEMPERATURE_TESTS) /\ health_mon_round = 7
  <2>1. PlaceInv'
    BY <1>2, <1>4, PlaceReached, UnitNumbers
    DEF AfterTemperatureTest, Places, WithIndex, WithUnit, AtVoltage
  <2>2. WaitInv'
    BY <1>4, NoUnitAwaited DEF AfterTemperatureTest, Goto
  <2>3. QED BY <1>1, <1>2, <2>1, <2>2
<1>5. CASE ~(i < TEMPERATURE_TESTS) /\ health_mon_round # 7
  BY <1>1, <1>2, <1>5, RoundEnds DEF AfterTemperatureTest, Places
<1>6. QED BY <1>3, <1>4, <1>5

LEMMA NextChannelPlace ==
  ASSUME IInv, NEW from \in {"PulseOver", "PulseMissed"}, NextChannel(from)
  PROVE  PlaceInv' /\ WaitInv' /\ mode' = mode /\ su \in SU
<1>1. health = from /\ mode' = mode
  BY DEF NextChannel, Goto
<1>2. from \in Places /\ su \in SU /\ i + 1 \in Nat
  BY <1>1 DEF IInv, PlaceInv, TaskType, PlaceIndices, WithUnit, Places
<1>3. PlaceInv'
  BY <1>2, PlaceReached, UnitNumbers
  DEF NextChannel, Places, WithIndex, WithUnit, AtVoltage
<1>4. WaitInv'
  BY NoUnitAwaited DEF NextChannel, Goto
<1>5. QED BY <1>1, <1>2, <1>3, <1>4

LEMMA MovesOnPlace == IInv /\ MovesOn => PlaceInv' /\ WaitInv'
<1> SUFFICES ASSUME IInv, MovesOn PROVE PlaceInv' /\ WaitInv'
  OBVIOUS
<1> USE UnitNumbers DEF IInv, PlaceInv, TaskType, PlaceIndices, WaitInv, ResetUnit,
        RestoreUnit, Places, WithIndex, WithUnit, AtVoltage, Goto
<1>1. CASE Activated
  BY <1>1 DEF Activated
<1>2. CASE Update_SU_State_Reset
  BY <1>2 DEF Update_SU_State_Reset, units, Switching
<1>3. CASE Monitor_Other \/ Monitor_Rearm \/ SelfTest_Over
  BY <1>3, RoundEnds DEF Monitor_Other, Monitor_Rearm, SelfTest_Over
<1>4. CASE Monitor_Budget
  BY <1>4 DEF Monitor_Budget
<1>5. CASE Monitor_Voltage
  BY <1>5 DEF Monitor_Voltage
<1>6. CASE Monitor_SelfTest \/ SelfTestChannel \/ SelfTest_Continues
  BY <1>6 DEF Monitor_SelfTest, SelfTestChannel, SelfTest_Continues, UnitsInv, UnitsType
<1>7. CASE Monitor_Temperature
  BY <1>7 DEF Monitor_Temperature
<1>8. CASE LowVoltageCurrent_Ok
  <2>1. health = "LowVoltageCurrent"
    BY <1>8 DEF LowVoltageCurrent_Ok, AfterVoltage, EndRound
  <2>2. QED BY <1>8, <2>1, AfterVoltagePlace
        DEF LowVoltageCurrent_Ok
<1>9. CASE LowVoltageCurrent_Down
  BY <1>9 DEF LowVoltageCurrent_Down
<1>10. CASE MeasureTemperature_Ok
  BY <1>10, AfterTemperaturePlace DEF MeasureTemperature_Ok
<1>11. CASE \/ ExecuteChannelTest_Enable \/ ExecuteChannelTest_Disable
            \/ Missed("Rise", "RiseMissed") \/ NoticedRise
            \/ Missed("PulseOver", "PulseMissed")
  BY <1>11 DEF ExecuteChannelTest_Enable, ExecuteChannelTest_Disable, Missed, NoticedRise
<1>12. CASE NoticedPulse
  BY <1>12, NextChannelPlace DEF NoticedPulse
<1>13. QED BY <1>1, <1>2, <1>3, <1>4, <1>5, <1>6, <1>7, <1>8, <1>9, <1>10, <1>11, <1>12
       DEF MovesOn

LEMMA MovesOnStep == IInv /\ MovesOn => IInv'
<1> SUFFICES ASSUME IInv, MovesOn PROVE IInv'
  OBVIOUS
<1>1. UNCHANGED <<units, mode>>
  BY DEF MovesOn, Activated, Update_SU_State_Reset, Monitor_Other, Monitor_Budget,
     Monitor_Rearm, Monitor_Voltage, Monitor_SelfTest, Monitor_Temperature,
     LowVoltageCurrent_Ok, LowVoltageCurrent_Down, MeasureTemperature_Ok, SelfTest_Over,
     SelfTest_Continues, SelfTestChannel, ExecuteChannelTest_Enable,
     ExecuteChannelTest_Disable, Missed, NoticedRise, NoticedPulse, NextChannel,
     AfterVoltage, AfterTemperatureTest, Goto, EndRound
<1>2. /\ hit_enabled' = hit_enabled \/ hit_enabled' = TRUE \/ hit_enabled' = FALSE
      /\ hit_budget_left' = hit_budget_left \/ hit_budget_left' = HIT_BUDGET
  BY DEF hits, MovesOn, Activated, Update_SU_State_Reset, Monitor_Other, Monitor_Budget,
     Monitor_Rearm, Monitor_Voltage, Monitor_SelfTest, Monitor_Temperature,
     LowVoltageCurrent_Ok, LowVoltageCurrent_Down, MeasureTemperature_Ok, SelfTest_Over,
     SelfTest_Continues, SelfTestChannel, ExecuteChannelTest_Enable,
     ExecuteChannelTest_Disable, Missed, NoticedRise, NoticedPulse
<1>3. hit_enabled' \in BOOLEAN
  BY <1>2, Zenon DEF IInv, HitsType
<1>4. hit_budget_left' \in 0..HIT_BUDGET
  BY <1>2, SensorUnitsAssumption DEF IInv, HitsType
<1>5. QED BY <1>1, <1>3, <1>4, UnitsKept, MovesOnPlace DEF IInv, HitsType

(* Health Monitoring, the steps that switch a unit on or off. *)
LEMMA InitHealthStep == IInv /\ InitHealthMonitoring => IInv'
<1> SUFFICES ASSUME IInv, InitHealthMonitoring PROVE IInv'
  OBVIOUS
<1>1. UnitsInv' /\ HitsType'
  BY DEF InitHealthMonitoring, IInv, UnitsInv, UnitsType, HitsType, OffIsUnpowered,
     AcquisitionInMode, SelfTestNumberInTest, PlaceInv, PlaceIndices, units, hits, Switching
<1>2. PlaceInv' /\ WaitInv'
  BY DEF InitHealthMonitoring, IInv, PlaceInv, TaskType, PlaceIndices, WaitInv, ResetUnit,
     RestoreUnit, round, Places, WithIndex, WithUnit, AtVoltage
<1>3. QED BY <1>1, <1>2 DEF IInv

LEMMA UpdateStep == IInv /\ (Update_SU_State \/ Update_SU_State_On) => IInv'
<1>1. ASSUME IInv, Update_SU_State PROVE IInv'
  <2>1. PlaceInv' /\ WaitInv' /\ i \in SU /\ mode' = mode
    BY <1>1, NextUnitPlace DEF Update_SU_State
  <2>2. CASE SU_state[i] = "start_switching_e"
    <3>1. i # self_test_SU_number
      BY <1>1, <2>1, <2>2, UnitNumbers DEF IInv, UnitsInv, SelfTestNumberInTest, InTest
    <3>2. UnitsInv'
      BY <1>1, <2>1, <2>2, <3>1, StateMoves DEF Update_SU_State, IInv, Switching
    <3>3. QED BY <1>1, <2>1, <3>2 DEF Update_SU_State, IInv, HitsType, hits
  <2>3. CASE SU_state[i] # "start_switching_e"
    <3>1. UnitsInv'
      BY <1>1, <2>1, <2>3, UnitsKept DEF Update_SU_State, units
    <3>2. QED BY <1>1, <2>1, <3>1 DEF Update_SU_State, IInv, HitsType, hits
  <2>4. QED BY <2>2, <2>3
<1>2. ASSUME IInv, Update_SU_State_On PROVE IInv'
  <2>1. PlaceInv' /\ WaitInv' /\ i \in SU /\ mode' = mode /\ health = "PeakReset"
    BY <1>2, NextUnitPlace DEF Update_SU_State_On
  <2>2. i # self_test_SU_number
    BY <1>2, <2>1, UnitNumbers
    DEF IInv, UnitsInv, SelfTestNumberInTest, InTest, WaitInv, ResetUnit, Switching
  <2>3. UnitsInv'
    BY <1>2, <2>1, <2>2, StateMoves DEF Update_SU_State_On, IInv
  <2>4. QED BY <1>2, <2>1, <2>3 DEF Update_SU_State_On, IInv, HitsType, hits
<1>3. QED BY <1>1, <1>2

(* A failure switches units off. *)
LEMMA FailureStep == IInv /\ (VoltageDown \/ TemperatureFailure) => IInv'
<1>1. ASSUME IInv, VoltageDown PROVE IInv'
  <2>1. health = "VoltageDown" /\ mode' = mode
    BY <1>1 DEF VoltageDown, AfterVoltage, Goto, EndRound
  <2>2. i \in SU /\ (health_mon_round = 7 => su \in SU)
    BY <1>1, <2>1 DEF IInv, PlaceInv, PlaceIndices, WithIndex, AtVoltage
  <2>3. UnitsInv'
    BY <1>1, <2>1, <2>2, SwitchedOff DEF VoltageDown, IInv
  <2>4. PlaceInv' /\ WaitInv'
    <3>1. CASE i < NUM_SU
      <4>1. i + 1 \in SU
        BY <2>2, <3>1, SensorUnitsAssumption DEF SU
      <4>2. QED BY <1>1, <2>1, <2>2, <3>1, <4>1, UnitNumbers
            DEF VoltageDown, Goto, IInv, PlaceInv, TaskType, PlaceIndices, WaitInv, ResetUnit,
                RestoreUnit, Places, WithIndex, WithUnit, AtVoltage
    <3>2. CASE ~(i < NUM_SU)
      BY <1>1, <2>2, <3>2, AfterVoltagePlace DEF VoltageDown
    <3>3. QED BY <3>1, <3>2
  <2>5. QED BY <1>1, <2>3, <2>4 DEF VoltageDown, IInv, HitsType, hits
<1>2. ASSUME IInv, TemperatureFailure PROVE IInv'
  <2>1. PlaceInv' /\ WaitInv' /\ mode' = mode /\ su \in SU
    BY <1>2, AfterTemperaturePlace DEF TemperatureFailure
  <2>2. UnitsInv'
    BY <1>2, <2>1, SwitchedOff DEF TemperatureFailure, IInv
  <2>3. QED BY <1>2, <2>1, <2>2 DEF TemperatureFailure, IInv, HitsType, hits
<1>3. QED BY <1>1, <1>2

(* The self test writes the state of the unit it was called for, whatever  *)
(* that unit is now, and of the unit under test.                           *)
LEMMA ChannelStep ==
  IInv /\ (ExecuteChannelTest_Await \/ RiseMissed \/ PulseMissed) => IInv'
<1>1. ASSUME IInv, ExecuteChannelTest_Await PROVE IInv'
  <2>1. PlaceInv' /\ WaitInv' /\ mode' = mode /\ su \in SU
    BY <1>1, UnitNumbers DEF ExecuteChannelTest_Await, Goto, IInv, PlaceInv, TaskType,
       PlaceIndices, WaitInv, ResetUnit, RestoreUnit, Places, WithIndex, WithUnit, AtVoltage
  <2>2. UnitsInv'
    BY <1>1, <2>1, StateMoves DEF ExecuteChannelTest_Await, IInv, InTest
  <2>3. QED BY <1>1, <2>1, <2>2 DEF ExecuteChannelTest_Await, IInv, HitsType, hits
<1>2. ASSUME IInv, RiseMissed PROVE IInv'
  <2>1. PlaceInv' /\ WaitInv' /\ mode' = mode /\ su \in SU
    BY <1>2, UnitNumbers DEF RiseMissed, Goto, IInv, PlaceInv, TaskType,
       PlaceIndices, WaitInv, ResetUnit, RestoreUnit, Places, WithIndex, WithUnit, AtVoltage
  <2>2. UnitsInv'
    BY <1>2, <2>1, StateMoves DEF RiseMissed, IInv, InTest
  <2>3. QED BY <1>2, <2>1, <2>2 DEF RiseMissed, IInv, HitsType, hits
<1>3. ASSUME IInv, PulseMissed PROVE IInv'
  <2>1. PlaceInv' /\ WaitInv' /\ mode' = mode /\ su \in SU
    BY <1>3, NextChannelPlace DEF PulseMissed
  <2>2. UnitsInv'
    BY <1>3, <2>1, StateMoves DEF PulseMissed, IInv, InTest
  <2>3. QED BY <1>3, <2>1, <2>2 DEF PulseMissed, IInv, HitsType, hits
<1>4. QED BY <1>1, <1>2, <1>3

LEMMA SetStateStep == IInv /\ SelfTest_SetState => IInv'
<1> SUFFICES ASSUME IInv, SelfTest_SetState PROVE IInv'
  OBVIOUS
<1>1. PlaceInv' /\ WaitInv' /\ mode' = mode
  BY RoundEnds DEF SelfTest_SetState, EndRound, Places
<1>2. UnitsInv'
  <2>1. CASE UNCHANGED SU_state
    BY <1>1, <2>1, UnitsKept DEF SelfTest_SetState, units
  <2>2. ASSUME NEW s \in {su, self_test_SU_number}, s # NO_SU, SetState(s, "self_test_e")
        PROVE  UnitsInv'
    <3>1. s \in SU
      BY <2>2 DEF IInv, UnitsInv, UnitsType, PlaceInv, TaskType
    <3>2. QED BY <1>1, <2>2, <3>1, StateMoves DEF SelfTest_SetState, IInv, InTest
  <2>3. QED BY <2>1, <2>2 DEF SelfTest_SetState
<1>3. QED BY <1>1, <1>2 DEF SelfTest_SetState, IInv, HitsType, hits

LEMMA SelfTestEndsStep == IInv /\ (RestoreSettings \/ RestoreState \/ SelfTestEnd) => IInv'
<1>1. ASSUME IInv, RestoreSettings PROVE IInv'
  <2>1. UnitsInv'
    BY <1>1 DEF RestoreSettings, Goto, IInv, UnitsInv, UnitsType, OffIsUnpowered,
       AcquisitionInMode, SelfTestNumberInTest
  <2>2. HitsType'
    BY <1>1 DEF RestoreSettings, IInv, HitsType
  <2>3. PlaceInv'
    BY <1>1, UnitNumbers DEF RestoreSettings, Goto, IInv, UnitsInv, UnitsType, PlaceInv,
       TaskType, PlaceIndices, Places, WithIndex, WithUnit, AtVoltage
  <2>4. WaitInv'
    BY <1>1, UnitNumbers DEF RestoreSettings, Goto, IInv, UnitsInv, UnitsType, WaitInv,
       ResetUnit, RestoreUnit
  <2>5. QED BY <2>1, <2>2, <2>3, <2>4 DEF IInv
<1>2. ASSUME IInv, RestoreState PROVE IInv'
  <2>1. PlaceInv' /\ WaitInv' /\ mode' = mode /\ su \in SU /\ su # self_test_SU_number
    BY <1>2, UnitNumbers DEF RestoreState, Goto, IInv, PlaceInv, TaskType, PlaceIndices,
       WaitInv, ResetUnit, RestoreUnit, Places, WithIndex, WithUnit, AtVoltage
  <2>2. UnitsInv'
    BY <1>2, <2>1, StateMoves DEF RestoreState, IInv
  <2>3. QED BY <1>2, <2>1, <2>2 DEF RestoreState, IInv, HitsType, hits
<1>3. ASSUME IInv, SelfTestEnd PROVE IInv'
  <2>1. PlaceInv' /\ WaitInv' /\ mode' = mode
    BY <1>3, RoundEnds DEF SelfTestEnd, EndRound, Places
  <2>2. UnitsInv'
    BY <1>3, <2>1 DEF SelfTestEnd, IInv, UnitsInv, UnitsType, OffIsUnpowered,
       AcquisitionInMode, SelfTestNumberInTest
  <2>3. QED BY <1>3, <2>1, <2>2 DEF SelfTestEnd, IInv, HitsType, hits
<1>4. QED BY <1>1, <1>2, <1>3

LEMMA HealthStep == IInv /\ Health_Task => IInv'
BY MovesOnStep, InitHealthStep, UpdateStep, FailureStep, ChannelStep, SetStateStep,
   SelfTestEndsStep
DEF Health_Task, MovesOn, ExecuteChannelTest

----------------------------------------------------------------------------

LEMMA Initially == Init => IInv
BY UnitNumbers, SensorUnitsAssumption
DEF Init, AllOff, IInv, UnitsInv, UnitsType, OffIsUnpowered, AcquisitionInMode,
    SelfTestNumberInTest, HitsType, PlaceInv, TaskType, PlaceIndices, WaitInv, ResetUnit,
    RestoreUnit, Places, WithIndex, WithUnit, AtVoltage, SU_states, Switching

LEMMA AfterReset == Reset => IInv'
BY UnitNumbers, SensorUnitsAssumption
DEF Reset, AllOff, IInv, UnitsInv, UnitsType, OffIsUnpowered, AcquisitionInMode,
    SelfTestNumberInTest, HitsType, PlaceInv, TaskType, PlaceIndices, WaitInv, ResetUnit,
    RestoreUnit, Places, WithIndex, WithUnit, AtVoltage, SU_states, Switching

LEMMA Stuttering == IInv /\ UNCHANGED vars => IInv'
BY DEF vars, units, hits, round, IInv, UnitsInv, UnitsType, OffIsUnpowered,
    AcquisitionInMode, SelfTestNumberInTest, HitsType, PlaceInv, TaskType, PlaceIndices,
    WaitInv, ResetUnit, RestoreUnit

(* The inductive invariant: the properties, and what Health Monitoring     *)
(* relies on at each of its places.                                        *)
THEOREM Invariant == Spec => []IInv
<1>1. IInv /\ [Next]_vars => IInv'
  BY CommandStep, HitStep, HealthStep, AfterReset, Stuttering DEF Next
<1>2. QED BY Initially, <1>1, PTL DEF Spec

(* The variables have their types, and the hit budget is not overdrawn.    *)
THEOREM TypeCorrect == Spec => []TypeOK
<1>1. IInv => TypeOK
  BY DEF IInv, UnitsInv, UnitsType, HitsType, PlaceInv, TaskType, TypeOK
<1>2. QED BY Invariant, <1>1, PTL

(* A unit in state off has no power (Start_SU_SwitchingOn,                 *)
(* SetSensorUnitOff, Update_SU_State, the self test).                      *)
THEOREM OffCorrect == Spec => []OffIsUnpowered
<1>1. IInv => OffIsUnpowered
  BY DEF IInv, UnitsInv
<1>2. QED BY Invariant, <1>1, PTL

(* State acquisition belongs to the mode, in which no unit is switched on. *)
THEOREM AcquisitionCorrect == Spec => []AcquisitionInMode
<1>1. IInv => AcquisitionInMode
  BY DEF IInv, UnitsInv
<1>2. QED BY Invariant, <1>1, PTL

(* self_test_SU_number names a unit whose state is one of the self test.   *)
THEOREM SelfTestCorrect == Spec => []SelfTestNumberInTest
<1>1. IInv => SelfTestNumberInTest
  BY DEF IInv, UnitsInv
<1>2. QED BY Invariant, <1>1, PTL

----------------------------------------------------------------------------
(* The refinement of UnitControl, when telecommands come between the       *)
(* rounds of Health Monitoring.  A round then finds the unit it works on   *)
(* the way it left it: the unit under test is the only one in a state of   *)
(* the test, and a self test ends with the unit it began with.             *)

InPulse    == {"ExecuteChannelTest", "Awaited", "Rise", "RiseMissed", "Pulse", "PulseOver",
               "PulseMissed"}
InSelfTest == InPulse \cup {"SetSelfTest", "RestoreSettings"}

OnlyUnitInTest == \A s \in SU :
  SU_state[s] \in InTest => s = self_test_SU_number \/ (health = "RestoreState" /\ s = su)
UnitInHand ==
  /\ health \in InSelfTest => su = self_test_SU_number /\ su \in SU
  /\ health \in {"RestoreState", "SelfTestEnd"} => self_test_SU_number = NO_SU
StateInHand ==
  /\ health = "PeakReset" => SU_state[i] = "switching_e"
  /\ health \in InPulse => SU_state[su] \in {"self_test_e", "self_test_trigger_e"}
  /\ health \in {"RestoreSettings", "RestoreState"} => SU_state[su] = "self_test_e"
RoundInv == OnlyUnitInTest /\ UnitInHand /\ StateInHand

(* The main states of the states of the code. *)
LEMMA MainNames ==
  /\ MainState("off_e") = "off" /\ MainState("on_e") = "on"
  /\ MainState("acquisition_e") = "acquisition"
  /\ \A state \in Switching : MainState(state) = "switching"
  /\ \A state \in InTest : MainState(state) = "test"
BY DEF MainState, Switching, InTest

LEMMA MainOf ==
  ASSUME NEW state \in SU_states
  PROVE  /\ MainState(state) = "off" <=> state = "off_e"
         /\ MainState(state) = "on" <=> state = "on_e"
         /\ MainState(state) = "acquisition" <=> state = "acquisition_e"
         /\ MainState(state) = "switching" <=> state \in Switching
         /\ MainState(state) = "test" <=> state \in InTest
BY MainNames DEF SU_states, Switching, InTest

(* One assignment to SU_state, seen from outside. *)
LEMMA MainSet ==
  ASSUME NEW s \in SU, NEW state, SU_state \in [SU -> SU_states], SetState(s, state)
  PROVE  MainStates' = [MainStates EXCEPT ![s] = MainState(state)]
<1>1. \A t \in SU : SU_state'[t] = IF t = s THEN state ELSE SU_state[t]
  BY DEF SetState
<1>2. QED BY <1>1 DEF MainStates

LEMMA MainKept ==
  ASSUME NEW s \in SU, NEW state, SU_state \in [SU -> SU_states], SetState(s, state),
         MainState(state) = MainState(SU_state[s]), UNCHANGED <<SU_ctrl_register, mode>>
  PROVE  UNCHANGED Control!vars
<1>1. MainStates' = [MainStates EXCEPT ![s] = MainState(SU_state[s])]
  BY MainSet
<1>2. MainStates[s] = MainState(SU_state[s]) /\ MainStates = [t \in SU |-> MainStates[t]]
  BY DEF MainStates
<1>3. MainStates' = MainStates
  BY <1>1, <1>2
<1>4. QED BY <1>3 DEF Control!vars

LEMMA MainAt == UnitsType => \A s \in SU : MainStates[s] = MainState(SU_state[s])
BY DEF MainStates

(* A telecommand is the step of the same name, or the switch of one unit.  *)
LEMMA CommandControls ==
  ASSUME ~Preemptive, IInv, RoundInv, TC_Task PROVE RoundInv' /\ Control!Next
<1> USE DEF IInv, UnitsInv, UnitsType
<1>1. BetweenRounds /\ UNCHANGED <<health, round>>
  BY DEF TC_Task, TC_Taken, Switch_SU_On, Switch_SU_Off, Switch_SU_SelfTest,
         StartAcquisition, StopAcquisition
<1>3. \A s \in SU : SU_state[s] \in InTest => s = self_test_SU_number
  BY <1>1 DEF RoundInv, OnlyUnitInTest, BetweenRounds
<1> DEFINE Goal == /\ \A s \in SU : SU_state'[s] \in InTest => s = self_test_SU_number'
                   /\ Control!Next
<1>5. ASSUME NEW s \in SU, Switch_SU_On(s) PROVE Goal
  <2>1. SetState(s, "start_switching_e") /\ SU_state[s] = "off_e"
    BY <1>5 DEF Switch_SU_On, Start_SU_SwitchingOn
  <2>2. \A t \in SU : SU_state'[t] = IF t = s THEN "start_switching_e" ELSE SU_state[t]
    BY <2>1 DEF SetState
  <2>3. \A t \in SU : SU_state'[t] \in InTest => t = self_test_SU_number'
    BY <1>3, <1>5, <2>2 DEF Switch_SU_On, Start_SU_SwitchingOn, InTest
  <2>4. Control!PowerOn(s)
    BY <1>5, <2>1, MainSet, MainAt, MainNames
    DEF Control!PowerOn, Control!Set, Switch_SU_On, Start_SU_SwitchingOn, Switching
  <2>5. QED BY <2>3, <2>4 DEF Control!Next
<1>6. ASSUME NEW s \in SU, Switch_SU_Off(s) PROVE Goal
  <2>1. \A t \in SU : SU_state'[t] \in InTest => t = self_test_SU_number'
    BY <1>3, <1>6, SwitchedOff DEF Switch_SU_Off, InTest
  <2>2. Control!PowerOff(s)
    BY <1>6, MainSet, MainNames
    DEF Control!PowerOff, Control!Set, Switch_SU_Off, SetSensorUnitOff
  <2>3. QED BY <2>1, <2>2 DEF Control!Next
<1>7. ASSUME NEW s \in SU, Switch_SU_SelfTest(s) PROVE Goal
  <2>1. /\ SetState(s, "self_test_mon_e") /\ SU_state[s] = "on_e"
        /\ self_test_SU_number = NO_SU /\ self_test_SU_number' = s
        /\ UNCHANGED <<SU_ctrl_register, mode>> /\ mode # "ACQUISITION"
    BY <1>7 DEF Switch_SU_SelfTest, Switch_SU_State, CanSwitch, TestNumber
  <2>2. \A t \in SU : SU_state[t] \notin InTest
    BY <1>3, <2>1, UnitNumbers
  <2>3. \A t \in SU : SU_state'[t] \in InTest => t = self_test_SU_number'
    BY <2>1, <2>2 DEF SetState
  <2>4. \A t \in SU : MainStates[t] # "test"
    BY <2>2, MainAt, MainOf
  <2>5. Control!StartTest(s)
    BY <2>1, <2>4, MainSet, MainAt, MainNames
    DEF Control!StartTest, Control!Moves, Control!Set, InTest
  <2>6. QED BY <2>3, <2>5 DEF Control!Next
<1>8. ASSUME StartAcquisition PROVE Goal
  <2>1. \A s \in SU : SU_state'[s] = IF SU_state[s] = "on_e" THEN "acquisition_e"
                                                             ELSE SU_state[s]
    BY <1>8 DEF StartAcquisition, SwitchAll, CanSwitch
  <2>2. self_test_SU_number' = self_test_SU_number
    BY <1>8 DEF StartAcquisition, SwitchAll, CanSwitch, SelfTestNumberInTest, InTest
  <2>3. \A s \in SU : SU_state'[s] \in InTest => s = self_test_SU_number'
    BY <1>3, <2>1, <2>2 DEF InTest
  <2>4. \A s \in SU : MainState(SU_state'[s]) = IF MainStates[s] = "on" THEN "acquisition"
                                                                      ELSE MainStates[s]
    BY <2>1, MainAt, MainOf, MainNames
  <2>5. \A s \in SU : MainStates[s] # "switching"
    BY <1>8, MainAt, MainOf DEF StartAcquisition
  <2>6. Control!StartAcquisition
    BY <1>8, <2>4, <2>5
    DEF Control!StartAcquisition, Control!All, StartAcquisition, SwitchAll, MainStates
  <2>7. QED BY <2>3, <2>6 DEF Control!Next
<1>9. ASSUME StopAcquisition PROVE Goal
  <2>1. \A s \in SU : SU_state'[s] = IF SU_state[s] = "acquisition_e" THEN "on_e"
                                                                      ELSE SU_state[s]
    BY <1>9 DEF StopAcquisition, SwitchAll, CanSwitch
  <2>2. self_test_SU_number' = self_test_SU_number
    BY <1>9 DEF StopAcquisition, SwitchAll, CanSwitch, SelfTestNumberInTest, InTest
  <2>3. \A s \in SU : SU_state'[s] \in InTest => s = self_test_SU_number'
    BY <1>3, <2>1, <2>2 DEF InTest
  <2>4. \A s \in SU : MainState(SU_state'[s]) = IF MainStates[s] = "acquisition" THEN "on"
                                                                               ELSE MainStates[s]
    BY <2>1, MainAt, MainOf, MainNames
  <2>5. Control!StopAcquisition
    BY <1>9, <2>4
    DEF Control!StopAcquisition, Control!All, StopAcquisition, SwitchAll, MainStates
  <2>6. QED BY <2>3, <2>5 DEF Control!Next
<1>10. Goal
  BY <1>5, <1>6, <1>7, <1>8, <1>9 DEF TC_Task
<1>11. OnlyUnitInTest'
  BY <1>10 DEF OnlyUnitInTest
<1>12. UnitInHand' /\ StateInHand'
  BY <1>1 DEF UnitInHand, StateInHand, InPulse, InSelfTest, BetweenRounds
<1>13. QED BY <1>10, <1>11, <1>12 DEF RoundInv

(* A hit is not seen from outside: it moves a unit within the self test.   *)
LEMMA HitControls ==
  ASSUME IInv, RoundInv, HandleHitTrigger \/ HandleHitTrigger_Exceeded
  PROVE  RoundInv' /\ UNCHANGED Control!vars
<1> USE DEF IInv, UnitsInv, UnitsType
<1>1. UNCHANGED <<self_test_SU_number, SU_ctrl_register, mode, health, round>>
  BY DEF HandleHitTrigger, HandleHitTrigger_Exceeded, units
<1>2. CASE UNCHANGED SU_state
  BY <1>1, <1>2 DEF RoundInv, OnlyUnitInTest, UnitInHand, StateInHand, round, Control!vars,
                    MainStates
<1>3. CASE /\ self_test_SU_number # NO_SU
           /\ SU_state[self_test_SU_number] = "self_test_trigger_e"
           /\ SetState(self_test_SU_number, "self_test_e")
  <2>1. \A s \in SU : SU_state'[s] = IF s = self_test_SU_number THEN "self_test_e"
                                                                ELSE SU_state[s]
    BY <1>3 DEF SetState
  <2>2. OnlyUnitInTest'
    BY <1>1, <1>3, <2>1 DEF RoundInv, OnlyUnitInTest, round
  <2>3. UnitInHand'
    BY <1>1 DEF RoundInv, UnitInHand, round
  <2>4. StateInHand'
    BY <1>1, <1>3, <2>1 DEF RoundInv, StateInHand, round, PlaceInv, PlaceIndices, WithIndex,
                            WithUnit, UnitInHand, InPulse, InSelfTest
  <2>5. UNCHANGED Control!vars
    BY <1>1, <1>3, MainKept, MainNames DEF InTest
  <2>6. QED BY <2>2, <2>3, <2>4, <2>5 DEF RoundInv
<1>4. QED BY <1>2, <1>3 DEF HandleHitTrigger, HandleHitTrigger_Exceeded, units

(* Health Monitoring, the steps that leave units and mode as they are.     *)
LEMMA MovesOnControls ==
  ASSUME IInv, RoundInv, MovesOn PROVE RoundInv' /\ UNCHANGED Control!vars
<1>1. UNCHANGED <<units, mode>> /\ health # "RestoreState"
  BY DEF MovesOn, Activated, Update_SU_State_Reset, Monitor_Other, Monitor_Budget,
     Monitor_Rearm, Monitor_Voltage, Monitor_SelfTest, Monitor_Temperature,
     LowVoltageCurrent_Ok, LowVoltageCurrent_Down, MeasureTemperature_Ok, SelfTest_Over,
     SelfTest_Continues, SelfTestChannel, ExecuteChannelTest_Enable,
     ExecuteChannelTest_Disable, Missed, NoticedRise, NoticedPulse, NextChannel,
     AfterVoltage, AfterTemperatureTest, Goto, EndRound
<1>2. UNCHANGED Control!vars
  BY <1>1 DEF Control!vars, MainStates, units
<1>3. OnlyUnitInTest'
  BY <1>1 DEF RoundInv, OnlyUnitInTest, units
<1>4. UnitInHand'
  BY DEF RoundInv, UnitInHand, InPulse, InSelfTest, IInv, UnitsInv, UnitsType, units, MovesOn, Activated,
     Update_SU_State_Reset, Monitor_Other, Monitor_Budget, Monitor_Rearm, Monitor_Voltage,
     Monitor_SelfTest, Monitor_Temperature, LowVoltageCurrent_Ok, LowVoltageCurrent_Down,
     MeasureTemperature_Ok, SelfTest_Over, SelfTest_Continues, SelfTestChannel,
     ExecuteChannelTest_Enable, ExecuteChannelTest_Disable, Missed, NoticedRise, NoticedPulse,
     NextChannel, AfterVoltage, AfterTemperatureTest, Goto, EndRound
<1>5. StateInHand'
  <2>1. CASE Update_SU_State_Reset
    BY <2>1 DEF Update_SU_State_Reset, Goto, StateInHand, InPulse, units
  <2>2. CASE SelfTestChannel
    BY <1>1, <2>2 DEF SelfTestChannel, Goto, StateInHand, InPulse, units
  <2>3. ASSUME \/ ExecuteChannelTest_Enable \/ ExecuteChannelTest_Disable
               \/ Missed("Rise", "RiseMissed") \/ NoticedRise
               \/ Missed("PulseOver", "PulseMissed") \/ NoticedPulse
        PROVE  StateInHand'
    <3>1. health \in InPulse /\ health' \in InPulse \cup {"RestoreSettings"} /\ su' = su
      BY <2>3 DEF ExecuteChannelTest_Enable, ExecuteChannelTest_Disable, Missed,
         NoticedRise, NoticedPulse, NextChannel, Goto, InPulse
    <3>2. health' = "RestoreSettings" => SU_state[su] # "self_test_trigger_e"
      BY <2>3 DEF ExecuteChannelTest_Enable, ExecuteChannelTest_Disable, Missed,
         NoticedRise, NoticedPulse, NextChannel, Goto
    <3>3. QED BY <1>1, <3>1, <3>2 DEF RoundInv, StateInHand, InPulse, units
  <2>4. CASE /\ ~Update_SU_State_Reset /\ ~SelfTestChannel
             /\ ~ExecuteChannelTest_Enable /\ ~ExecuteChannelTest_Disable
             /\ ~Missed("Rise", "RiseMissed") /\ ~NoticedRise
             /\ ~Missed("PulseOver", "PulseMissed") /\ ~NoticedPulse
    <3>1. health' \notin {"PeakReset", "RestoreSettings", "RestoreState"} \cup InPulse
      BY <2>4 DEF MovesOn, Activated, Monitor_Other, Monitor_Budget, Monitor_Rearm,
         Monitor_Voltage, Monitor_SelfTest, Monitor_Temperature, LowVoltageCurrent_Ok,
         LowVoltageCurrent_Down, MeasureTemperature_Ok, SelfTest_Over, SelfTest_Continues,
         AfterVoltage, AfterTemperatureTest, Goto, EndRound, InPulse
    <3>2. QED BY <3>1 DEF StateInHand
  <2>5. QED BY <2>1, <2>2, <2>3, <2>4
<1>6. QED BY <1>2, <1>3, <1>4, <1>5 DEF RoundInv

(* The end of the self test of the DPU, and the rounds that switch on.     *)
LEMMA UpdateControls ==
  ASSUME IInv, RoundInv, InitHealthMonitoring \/ Update_SU_State \/ Update_SU_State_On
  PROVE  RoundInv' /\ [Control!Next]_Control!vars
<1> USE DEF IInv, UnitsInv, UnitsType
<1>1. CASE InitHealthMonitoring
  <2>1. RoundInv'
    BY <1>1 DEF InitHealthMonitoring, RoundInv, OnlyUnitInTest, UnitInHand, StateInHand,
                InPulse, InSelfTest, units
  <2>2. Control!EnterStandBy
    BY <1>1 DEF InitHealthMonitoring, Control!EnterStandBy, MainStates, units, PlaceInv,
                PlaceIndices
  <2>3. QED BY <2>1, <2>2 DEF Control!Next
<1>2. ASSUME Update_SU_State \/ Update_SU_State_On
      PROVE  /\ i \in SU /\ UNCHANGED <<self_test_SU_number, SU_ctrl_register, mode>>
             /\ SU_state[i] \in Switching => i # self_test_SU_number
             /\ health' \in {"Update_SU_State", "Monitor"} /\ health # "RestoreState"
             /\ Update_SU_State_On => SU_state[i] = "switching_e"
  <2>1. i \in SU /\ mode' = mode
    BY <1>2, NextUnitPlace DEF Update_SU_State, Update_SU_State_On
  <2>2. /\ health' \in {"Update_SU_State", "Monitor"}
        /\ health \in {"Update_SU_State", "PeakReset"}
        /\ Update_SU_State_On => health = "PeakReset"
    BY <1>2 DEF Update_SU_State, Update_SU_State_On, NextUnit, Goto
  <2>3. Update_SU_State_On => SU_state[i] = "switching_e"
    BY <2>2 DEF RoundInv, StateInHand
  <2>4. SU_state[i] \in Switching => i # self_test_SU_number
    BY <2>1, UnitNumbers DEF SelfTestNumberInTest, InTest, Switching
  <2>5. QED BY <1>2, <2>1, <2>2, <2>3, <2>4 DEF Update_SU_State, Update_SU_State_On
<1>3. ASSUME Update_SU_State \/ Update_SU_State_On, OnlyUnitInTest'
      PROVE  RoundInv'
  BY <1>2, <1>3 DEF RoundInv, UnitInHand, StateInHand, InPulse, InSelfTest
<1>4. CASE Update_SU_State /\ SU_state[i] # "start_switching_e"
  BY <1>2, <1>3, <1>4 DEF Update_SU_State, RoundInv, OnlyUnitInTest, Control!vars, MainStates
<1>5. CASE Update_SU_State /\ SU_state[i] = "start_switching_e"
  <2>1. SetState(i, "switching_e")
    BY <1>5 DEF Update_SU_State
  <2>2. OnlyUnitInTest'
    BY <1>2, <1>5, <2>1 DEF RoundInv, OnlyUnitInTest, SetState, InTest
  <2>3. UNCHANGED Control!vars
    BY <1>2, <1>5, <2>1, MainKept, MainNames DEF Switching
  <2>4. QED BY <1>3, <1>5, <2>2, <2>3
<1>6. CASE Update_SU_State_On
  <2>1. SetState(i, "on_e")
    BY <1>6 DEF Update_SU_State_On
  <2>2. OnlyUnitInTest'
    BY <1>2, <1>6, <2>1 DEF RoundInv, OnlyUnitInTest, SetState, InTest
  <2>3. Control!SwitchedOn(i)
    BY <1>2, <1>6, <2>1, MainSet, MainAt, MainNames
    DEF Control!SwitchedOn, Control!Moves, Control!Set, Switching
  <2>4. QED BY <1>2, <1>3, <1>6, <2>2, <2>3 DEF Control!Next
<1>7. QED BY <1>1, <1>4, <1>5, <1>6

(* A failure switches one unit off.                                        *)
LEMMA FailureControls ==
  ASSUME IInv, RoundInv, VoltageDown \/ TemperatureFailure
  PROVE  RoundInv' /\ Control!Next
<1>1. PICK s \in SU : SetSensorUnitOff(s) /\ mode' = mode
  <2>1. CASE VoltageDown
    BY <2>1 DEF VoltageDown, AfterVoltage, Goto, EndRound, IInv, PlaceInv, PlaceIndices,
                WithIndex
  <2>2. CASE TemperatureFailure
    BY <2>2, AfterTemperaturePlace DEF TemperatureFailure
  <2>3. QED BY <2>1, <2>2
<1>2. /\ health \in {"VoltageDown", "MeasureTemperature"}
      /\ health' \in {"VoltageDown", "MeasureTemperature", "Measured", "WaitInterval"}
  BY DEF VoltageDown, TemperatureFailure, AfterVoltage, AfterTemperatureTest, Goto, EndRound
<1>3. OnlyUnitInTest'
  BY <1>1, <1>2, SwitchedOff DEF IInv, RoundInv, OnlyUnitInTest, InTest
<1>4. UnitInHand' /\ StateInHand'
  BY <1>2 DEF UnitInHand, StateInHand, InPulse, InSelfTest
<1>5. Control!PowerOff(s)
  BY <1>1, MainSet, MainNames
  DEF Control!PowerOff, Control!Set, SetSensorUnitOff, IInv, UnitsInv, UnitsType
<1>6. QED BY <1>3, <1>4, <1>5 DEF RoundInv, Control!Next

(* Within a self test the unit under test stays in a state of the test.    *)
LEMMA PulseControls ==
  ASSUME IInv, RoundInv,
         \/ ExecuteChannelTest_Await \/ RiseMissed \/ PulseMissed \/ SelfTest_SetState
  PROVE  RoundInv' /\ UNCHANGED Control!vars
<1>1. /\ health \in InPulse \cup {"SetSelfTest"} /\ su = self_test_SU_number /\ su \in SU
      /\ UNCHANGED <<self_test_SU_number, SU_ctrl_register, mode>>
  BY DEF RoundInv, UnitInHand, InPulse, InSelfTest, ExecuteChannelTest_Await, RiseMissed,
         PulseMissed, SelfTest_SetState, NextChannel, Goto, EndRound
<1>2. \/ ExecuteChannelTest_Await /\ SetState(su, "self_test_trigger_e")
      \/ ~ExecuteChannelTest_Await /\ SetState(su, "self_test_e")
  BY <1>1, UnitNumbers
  DEF ExecuteChannelTest_Await, RiseMissed, PulseMissed, SelfTest_SetState
<1>3. PICK state \in {"self_test_e", "self_test_trigger_e"} :
        SetState(su, state) /\ (~ExecuteChannelTest_Await => state = "self_test_e")
  BY <1>2
<1>4. \A s \in SU : SU_state'[s] = IF s = su THEN state ELSE SU_state[s]
  BY <1>3 DEF SetState, IInv, UnitsInv, UnitsType
<1>5. OnlyUnitInTest'
  BY <1>1, <1>4 DEF RoundInv, OnlyUnitInTest, InPulse
<1>6. /\ health' \in InPulse \cup {"RestoreSettings", "WaitInterval"}
      /\ health' = "RestoreSettings" => ~ExecuteChannelTest_Await
      /\ health' # "WaitInterval" => su' = su
  BY DEF ExecuteChannelTest_Await, RiseMissed, PulseMissed, SelfTest_SetState, NextChannel,
         Goto, EndRound, InPulse
<1>7. UnitInHand' /\ StateInHand'
  BY <1>1, <1>3, <1>4, <1>6 DEF UnitInHand, StateInHand, InPulse, InSelfTest
<1>8. MainState(state) = MainState(SU_state[su])
  <2>1. SU_state[su] \in InTest
    BY <1>1, UnitNumbers DEF IInv, UnitsInv, SelfTestNumberInTest
  <2>2. QED BY <2>1, MainNames DEF InTest
<1>9. UNCHANGED Control!vars
  BY <1>1, <1>3, <1>8, MainKept DEF IInv, UnitsInv, UnitsType
<1>10. QED BY <1>5, <1>7, <1>9 DEF RoundInv

(* SelfTestChannel ends: the unit is on again.                             *)
LEMMA SelfTestEndControls ==
  ASSUME IInv, RoundInv, RestoreSettings \/ RestoreState \/ SelfTestEnd
  PROVE  RoundInv' /\ [Control!Next]_Control!vars
<1> USE DEF IInv, UnitsInv, UnitsType
<1>1. CASE RestoreSettings
  <2>1. /\ su = self_test_SU_number /\ su \in SU /\ SU_state[su] = "self_test_e"
        /\ health = "RestoreSettings"
    BY <1>1 DEF RestoreSettings, RoundInv, UnitInHand, StateInHand, InSelfTest
  <2>2. /\ health' = "RestoreState" /\ su' = su /\ self_test_SU_number' = NO_SU
        /\ UNCHANGED <<SU_state, SU_ctrl_register, mode>>
    BY <1>1, <2>1, UnitNumbers DEF RestoreSettings, Goto
  <2>3. RoundInv'
    BY <2>1, <2>2 DEF RoundInv, OnlyUnitInTest, UnitInHand, StateInHand, InPulse, InSelfTest
  <2>4. QED BY <2>2, <2>3 DEF Control!vars, MainStates
<1>2. CASE RestoreState
  <2>1. /\ su \in SU /\ SU_state[su] = "self_test_e" /\ self_test_SU_number = NO_SU
        /\ health = "RestoreState" /\ health' = "SelfTestEnd" /\ SetState(su, "on_e")
        /\ UNCHANGED <<self_test_SU_number, SU_ctrl_register, mode>>
    BY <1>2 DEF RestoreState, Goto, RoundInv, UnitInHand, StateInHand, PlaceInv,
                PlaceIndices, WithUnit
  <2>2. OnlyUnitInTest'
    BY <2>1 DEF RoundInv, OnlyUnitInTest, SetState, InTest
  <2>3. RoundInv'
    BY <2>1, <2>2 DEF RoundInv, UnitInHand, StateInHand, InPulse, InSelfTest
  <2>4. Control!EndTest(su)
    BY <2>1, MainSet, MainAt, MainNames
    DEF Control!EndTest, Control!Moves, Control!Set, InTest
  <2>5. QED BY <2>1, <2>3, <2>4 DEF Control!Next
<1>3. CASE SelfTestEnd
  <2>1. UNCHANGED <<SU_state, self_test_SU_number, SU_ctrl_register, mode>>
        /\ health = "SelfTestEnd" /\ health' = "WaitInterval"
    BY <1>3 DEF SelfTestEnd, EndRound, RoundInv, UnitInHand
  <2>2. RoundInv'
    BY <2>1 DEF RoundInv, OnlyUnitInTest, UnitInHand, StateInHand, InPulse, InSelfTest
  <2>3. QED BY <2>1, <2>2 DEF Control!vars, MainStates
<1>4. QED BY <1>1, <1>2, <1>3

LEMMA HealthControls ==
  ASSUME IInv, RoundInv, Health_Task PROVE RoundInv' /\ [Control!Next]_Control!vars
BY MovesOnControls, UpdateControls, FailureControls, PulseControls, SelfTestEndControls
DEF Health_Task, MovesOn, ExecuteChannelTest

LEMMA ControlStarts == Init => RoundInv /\ Control!Init
BY UnitNumbers, MainNames
DEF Init, AllOff, RoundInv, OnlyUnitInTest, UnitInHand, StateInHand, InPulse, InSelfTest,
    InTest, Control!Init, MainStates

LEMMA ControlResets == Reset => RoundInv' /\ Control!Reset
BY UnitNumbers, MainNames
DEF Reset, AllOff, RoundInv, OnlyUnitInTest, UnitInHand, StateInHand, InPulse, InSelfTest,
    InTest, Control!Reset, MainStates

(* With telecommands between the rounds, every step of the tasks is one of *)
(* UnitControl or none: Start_SU_SwitchingOn, Switch_SU_State,             *)
(* SetSensorUnitOff, Update_SU_State and the self test move the units only *)
(* the way measure.h describes, one self test at a time, with power        *)
(* whenever they are not off.                                              *)
THEOREM ControlImplemented == ASSUME ~Preemptive PROVE Spec => Control!Safety
<1>1. ASSUME IInv, RoundInv, [Next]_vars PROVE RoundInv' /\ [Control!Next]_Control!vars
  <2>1. CASE Reset
    BY <2>1, ControlResets DEF Control!Next
  <2>2. CASE UNCHANGED vars
    BY <1>1, <2>2 DEF vars, units, hits, round, RoundInv, OnlyUnitInTest, UnitInHand,
       StateInHand, Control!vars, MainStates
  <2>3. QED BY <1>1, <2>1, <2>2, CommandControls, HitControls, HealthControls DEF Next
<1>2. IInv /\ RoundInv /\ [Next]_vars => RoundInv' /\ [Control!Next]_Control!vars
  BY <1>1
<1>3. QED BY ControlStarts, <1>2, Invariant, PTL DEF Spec, Control!Safety

=============================================================================
