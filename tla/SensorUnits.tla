---------------------------- MODULE SensorUnits ----------------------------
(***************************************************************************)
(* Power and state of the sensor units (SU) of the DEBIE-1 DPU software:   *)
(* the functions of measure.c that move SU_state, the power switches of    *)
(* hw_if.c, and the three tasks that use them: Telecommand Execution       *)
(* (tc_hand.c), Health Monitoring with the self test (health.c) and Hit    *)
(* Trigger (measure.c).                                                    *)
(*                                                                         *)
(* Health Monitoring has the lowest priority: a telecommand or a hit finds *)
(* it between any two steps below.  What it does with interrupts disabled  *)
(* is one step, and so is a condition that reads a variable more than      *)
(* once.  Voltages, temperatures, hit data, thresholds and error bits are  *)
(* left out; what becomes of a hit is the subject of ScienceData.          *)
(***************************************************************************)
EXTENDS Integers, Sequences

CONSTANTS
  NUM_SU,            \* the number of sensor units
  HIT_BUDGET,        \* hits handled in one period of Health Monitoring
  Channels,          \* the channels that a self test goes through
  Preemptive         \* FALSE: telecommands arrive between the rounds only

ASSUME SensorUnitsAssumption ==
  /\ NUM_SU \in Nat \ {0}
  /\ HIT_BUDGET \in Nat \ {0}
  /\ Channels \in Seq(STRING) /\ Len(Channels) > 0
  /\ Preemptive \in BOOLEAN

VARIABLES
  SU_state, self_test_SU_number, mode,
  SU_ctrl_register,                 \* the units whose power is switched on
  hit_enabled, hit_budget_left,     \* the Hit Trigger interrupt
  \* the Health Monitoring task: where it is, its round, the unit that the
  \* function it is in was called for, and the counter of its loops
  health, health_mon_round, su, i

units == <<SU_state, self_test_SU_number, SU_ctrl_register>>
hits  == <<hit_enabled, hit_budget_left>>
round == <<health_mon_round, su, i>>
vars  == <<units, mode, hits, health, round>>

SU    == 1..NUM_SU
NO_SU == 0

Switching == {"start_switching_e", "switching_e"}
InTest    == {"self_test_mon_e", "self_test_e", "self_test_trigger_e"}
SU_states == {"off_e", "on_e", "acquisition_e"} \cup Switching \cup InTest

----------------------------------------------------------------------------
(* Functions of measure.c and hw_if.c *)

SetState(s, state) == SU_state' = [SU_state EXCEPT ![s] = state]

\* Fault: a second self test may start.
CanSwitch_AnyTest(s, expected, state) == SU_state[s] = expected

\* The transition of Switch_SU_State, when it is not refused.
CanSwitch(s, expected, state) ==
  /\ SU_state[s] = expected
  /\ state = "self_test_mon_e" => self_test_SU_number = NO_SU

TestNumber(s, state) ==
  IF state = "self_test_mon_e" THEN s
  ELSE IF s = self_test_SU_number THEN NO_SU ELSE self_test_SU_number
Switch_SU_State(s, expected, state) ==
  /\ CanSwitch(s, expected, state)
  /\ self_test_SU_number' = TestNumber(s, state)
  /\ SetState(s, state)
  /\ UNCHANGED SU_ctrl_register

Start_SU_SwitchingOn(s) ==
  /\ SU_state[s] = "off_e"
  /\ SU_ctrl_register' = SU_ctrl_register \cup {s}
  /\ SetState(s, "start_switching_e")
  /\ UNCHANGED self_test_SU_number

\* Fault: a unit that is switched off remains the unit under self test.
SetSensorUnitOff_KeepsNumber(s) ==
  /\ SU_ctrl_register' = SU_ctrl_register \ {s}
  /\ SetState(s, "off_e")
  /\ UNCHANGED self_test_SU_number

\* Fault: the state is set, the power is not switched.
SetSensorUnitOff_Powered(s) ==
  /\ self_test_SU_number' = TestNumber(s, "off_e")
  /\ SetState(s, "off_e")
  /\ UNCHANGED SU_ctrl_register

SetSensorUnitOff(s) ==
  /\ SU_ctrl_register' = SU_ctrl_register \ {s}
  /\ self_test_SU_number' = TestNumber(s, "off_e")
  /\ SetState(s, "off_e")

----------------------------------------------------------------------------
(* The Telecommand Execution task.  A telecommand that is refused only sets *)
(* an error bit.                                                            *)

\* Health Monitoring waits for its next round.
BetweenRounds == health = "WaitInterval"
TC_Taken      == Preemptive \/ BetweenRounds

Switch_SU_On(s) ==
  /\ TC_Taken /\ mode # "ACQUISITION"
  /\ Start_SU_SwitchingOn(s)
  /\ UNCHANGED <<mode, hits, health, round>>

Switch_SU_Off(s) ==
  /\ TC_Taken /\ mode # "ACQUISITION"
  /\ SetSensorUnitOff(s)
  /\ UNCHANGED <<mode, hits, health, round>>

Switch_SU_SelfTest(s) ==
  /\ TC_Taken /\ mode # "ACQUISITION"
  /\ Switch_SU_State(s, "on_e", "self_test_mon_e")
  /\ UNCHANGED <<mode, hits, health, round>>

\* Switch_SU_State for one unit after the other.  None of them can be the one
\* under self test, which START_ACQUISITION relies on.
SwitchAll(expected, state) ==
  LET switched == {s \in SU : CanSwitch(s, expected, state)}
  IN  /\ SU_state' = [s \in SU |-> IF s \in switched THEN state ELSE SU_state[s]]
      /\ self_test_SU_number' =
           IF self_test_SU_number \in switched THEN NO_SU ELSE self_test_SU_number
      /\ UNCHANGED SU_ctrl_register

\* Fault: a unit that is being switched on does not count.
StartAcquisition_Switching ==
  /\ TC_Taken /\ mode = "STAND_BY"
  /\ \A s \in SU : SU_state[s] # "start_switching_e"
  /\ SwitchAll("on_e", "acquisition_e")
  /\ mode' = "ACQUISITION"
  /\ UNCHANGED <<hits, health, round>>

StartAcquisition ==
  /\ TC_Taken /\ mode = "STAND_BY"
  /\ \A s \in SU : SU_state[s] \notin Switching
  /\ SwitchAll("on_e", "acquisition_e")
  /\ mode' = "ACQUISITION"
  /\ UNCHANGED <<hits, health, round>>

StopAcquisition ==
  /\ TC_Taken /\ mode = "ACQUISITION"
  /\ SwitchAll("acquisition_e", "on_e")
  /\ mode' = "STAND_BY"
  /\ UNCHANGED <<hits, health, round>>

TC_Task ==
  \/ \E s \in SU : Switch_SU_On(s) \/ Switch_SU_Off(s) \/ Switch_SU_SelfTest(s)
  \/ StartAcquisition
  \/ StopAcquisition

----------------------------------------------------------------------------
(* The Hit Trigger task *)

HandleHitTrigger_Exceeded ==
  /\ hit_enabled /\ hit_budget_left = 0
  /\ hit_enabled' = FALSE
  /\ UNCHANGED <<units, mode, hit_budget_left, health, round>>

\* Fault: the budget is not looked at.
HandleHitTrigger_Unlimited ==
  /\ hit_enabled
  /\ hit_budget_left' = hit_budget_left - 1
  /\ UNCHANGED <<units, mode, hit_enabled, health, round>>

\* A pulse of the self test is the one waited for in self_test_trigger_e.
HandleHitTrigger ==
  /\ hit_enabled /\ hit_budget_left > 0
  /\ hit_budget_left' = hit_budget_left - 1
  /\ IF self_test_SU_number # NO_SU /\ SU_state[self_test_SU_number] = "self_test_trigger_e"
       THEN SetState(self_test_SU_number, "self_test_e")
       ELSE UNCHANGED SU_state
  /\ UNCHANGED <<self_test_SU_number, SU_ctrl_register, mode, hit_enabled, health, round>>

----------------------------------------------------------------------------
(* The Health Monitoring task: the parts of a round *)

\* The step from one place of the task to the next, with its counter.
Goto(from, to, unit, count) ==
  /\ health = from /\ health' = to
  /\ su' = unit /\ i' = count
  /\ UNCHANGED <<mode, health_mon_round>>

\* The round is over: UpdatePeriodCounter and WaitInterval.
EndRound(from) ==
  /\ health = from /\ health' = "WaitInterval"
  /\ health_mon_round' = IF health_mon_round = 0 THEN 9 ELSE health_mon_round - 1
  /\ su' = NO_SU /\ i' = 1
  /\ UNCHANGED mode

\* DPU_SelfTest, which no unit takes part in, and SetMode(STAND_BY).
InitHealthMonitoring ==
  /\ health = "InitHealthMonitoring" /\ health' = "Update_SU_State"
  /\ mode' = "STAND_BY"
  /\ UNCHANGED <<units, hits, round>>

Activated == Goto("WaitInterval", "Update_SU_State", NO_SU, 1) /\ UNCHANGED <<units, hits>>

\* Fault: the last unit is left out.
NextUnit_Last(from) ==
  IF i < NUM_SU - 1 THEN Goto(from, "Update_SU_State", NO_SU, i + 1)
                    ELSE Goto(from, "Monitor", NO_SU, 1)

\* Update_SU_State goes on to the next unit, and to Monitor after the last.
NextUnit(from) ==
  IF i < NUM_SU THEN Goto(from, "Update_SU_State", NO_SU, i + 1)
                ELSE Goto(from, "Monitor", NO_SU, 1)

Update_SU_State ==
  /\ NextUnit("Update_SU_State") /\ SU_state[i] # "switching_e"
  /\ IF SU_state[i] = "start_switching_e" THEN SetState(i, "switching_e")
                                          ELSE UNCHANGED SU_state
  /\ UNCHANGED <<self_test_SU_number, SU_ctrl_register, hits>>

\* ResetPeakDetector enables interrupts again, and WaitTimeout lets other
\* tasks run before the state is set.
Update_SU_State_Reset ==
  /\ Goto("Update_SU_State", "PeakReset", NO_SU, i) /\ SU_state[i] = "switching_e"
  /\ UNCHANGED <<units, hits>>

Update_SU_State_On ==
  /\ NextUnit("PeakReset")
  /\ SetState(i, "on_e")
  /\ UNCHANGED <<self_test_SU_number, SU_ctrl_register, hits>>

\* Rounds that do nothing to the units: currents, which only set error bits,
\* voltages, the watchdog, and round 6 or 7 without a self test.
Monitor_Other ==
  /\ EndRound("Monitor")
  /\ \/ health_mon_round \in {1, 2, 3, 5, 8}
     \/ health_mon_round = 6
        /\ ~(self_test_SU_number # NO_SU /\ SU_state[self_test_SU_number] = "self_test_e")
     \/ health_mon_round = 7 /\ self_test_SU_number = NO_SU
     \/ health_mon_round = 9      \* temp_meas_count is not below NUM_SU
  /\ UNCHANGED <<units, hits>>

\* Round 0: a new budget, and hits are enabled again if it was exceeded.
Monitor_Budget ==
  /\ Goto("Monitor", "Budget", NO_SU, 1) /\ health_mon_round = 0
  /\ hit_budget_left' = HIT_BUDGET
  /\ UNCHANGED <<units, hit_enabled>>

\* Fault: the new budget is asked instead of the interrupt.
Monitor_Rearm_ByBudget ==
  /\ EndRound("Budget")
  /\ hit_enabled' = (hit_enabled \/ hit_budget_left = 0)
  /\ UNCHANGED <<units, hit_budget_left>>

Monitor_Rearm ==
  /\ EndRound("Budget")
  /\ hit_enabled' = TRUE
  /\ UNCHANGED <<units, hit_budget_left>>

\* Round 4, and round 7 for a self test: is the supply voltage down?
Monitor_Voltage ==
  /\ Goto("Monitor", "LowVoltageCurrent", NO_SU, 1) /\ health_mon_round = 4
  /\ UNCHANGED <<units, hits>>

Monitor_SelfTest ==
  /\ Goto("Monitor", "LowVoltageCurrent", self_test_SU_number, 1)
  /\ health_mon_round = 7 /\ self_test_SU_number # NO_SU
  /\ UNCHANGED <<units, hits>>

\* Round 9: the temperatures of one unit, whose turn it is.
Monitor_Temperature ==
  /\ \E s \in SU : Goto("Monitor", "MeasureTemperature", s, 1)
  /\ health_mon_round = 9
  /\ UNCHANGED <<units, hits>>

----------------------------------------------------------------------------
(* Supply voltage and temperatures *)

\* After the voltage: temperatures of the unit under test, or nothing.
AfterVoltage(from) ==
  IF health_mon_round = 7 THEN Goto(from, "MeasureTemperature", su, 1)
                          ELSE EndRound(from)

LowVoltageCurrent_Ok ==
  /\ AfterVoltage("LowVoltageCurrent")
  /\ UNCHANGED <<units, hits>>

LowVoltageCurrent_Down ==
  /\ Goto("LowVoltageCurrent", "VoltageDown", su, 1)
  /\ UNCHANGED <<units, hits>>

\* All units are switched off, one after the other.
VoltageDown ==
  /\ IF i < NUM_SU THEN Goto("VoltageDown", "VoltageDown", su, i + 1)
                   ELSE AfterVoltage("VoltageDown")
  /\ SetSensorUnitOff(i)
  /\ UNCHANGED hits

\* Each of the two channels is tested for its limit and for an error.
TEMPERATURE_TESTS == 4
AfterTemperatureTest ==
  IF i < TEMPERATURE_TESTS
    THEN Goto("MeasureTemperature", "MeasureTemperature", su, i + 1)
    ELSE IF health_mon_round = 7 THEN Goto("MeasureTemperature", "Measured", su, 1)
                                 ELSE EndRound("MeasureTemperature")

MeasureTemperature_Ok == AfterTemperatureTest /\ UNCHANGED <<units, hits>>

TemperatureFailure ==
  /\ AfterTemperatureTest
  /\ SetSensorUnitOff(su)
  /\ UNCHANGED hits

----------------------------------------------------------------------------
(* The self test *)

\* Round 7 ends: is there still a unit under test?
SelfTest_Over ==
  /\ EndRound("Measured") /\ self_test_SU_number = NO_SU
  /\ UNCHANGED <<units, hits>>

SelfTest_Continues ==
  /\ Goto("Measured", "SetSelfTest", self_test_SU_number, 1)
  /\ self_test_SU_number # NO_SU
  /\ UNCHANGED <<units, hits>>

\* The number is in a register since the test, or it is read again; by now it
\* may be NO_SU, and then the write goes to a place outside the array.
SelfTest_SetState ==
  /\ EndRound("SetSelfTest")
  /\ \E s \in {su, self_test_SU_number} :
       IF s = NO_SU THEN UNCHANGED SU_state ELSE SetState(s, "self_test_e")
  /\ UNCHANGED <<self_test_SU_number, SU_ctrl_register, hits>>

\* Round 6: SelfTestChannel.
SelfTestChannel ==
  /\ Goto("Monitor", "ExecuteChannelTest", self_test_SU_number, 1)
  /\ health_mon_round = 6
  /\ self_test_SU_number # NO_SU /\ SU_state[self_test_SU_number] = "self_test_e"
  /\ hit_enabled' = FALSE
  /\ UNCHANGED <<units, hit_budget_left>>

\* ExecuteChannelTest for one channel: the pulse is awaited, and the hit
\* trigger is enabled while it lasts.
ExecuteChannelTest_Await ==
  /\ Goto("ExecuteChannelTest", "Awaited", su, i)
  /\ SetState(su, "self_test_trigger_e")
  /\ UNCHANGED <<self_test_SU_number, SU_ctrl_register, hits>>

ExecuteChannelTest_Enable ==
  /\ Goto("Awaited", IF Channels[i] = "PLASMA_1_MINUS" THEN "Rise" ELSE "Pulse", su, i)
  /\ hit_enabled' = TRUE
  /\ UNCHANGED <<units, hit_budget_left>>

\* Was the pulse noticed?  If not, self_test_e is restored: for plasma 1-
\* after the rise already, else after the pulse.
Missed(from, to) ==
  /\ Goto(from, to, su, i) /\ SU_state[su] = "self_test_trigger_e"
  /\ UNCHANGED <<units, hits>>
NoticedRise ==
  /\ Goto("Rise", "Pulse", su, i) /\ SU_state[su] # "self_test_trigger_e"
  /\ UNCHANGED <<units, hits>>
RiseMissed ==
  /\ Goto("RiseMissed", "Pulse", su, i)
  /\ SetState(su, "self_test_e")
  /\ UNCHANGED <<self_test_SU_number, SU_ctrl_register, hits>>

ExecuteChannelTest_Disable ==
  /\ Goto("Pulse", "PulseOver", su, i)
  /\ hit_enabled' = FALSE
  /\ UNCHANGED <<units, hit_budget_left>>

NextChannel(from) ==
  IF i < Len(Channels) THEN Goto(from, "ExecuteChannelTest", su, i + 1)
                       ELSE Goto(from, "RestoreSettings", su, 1)

NoticedPulse ==
  /\ NextChannel("PulseOver") /\ SU_state[su] # "self_test_trigger_e"
  /\ UNCHANGED <<units, hits>>
PulseMissed ==
  /\ NextChannel("PulseMissed")
  /\ SetState(su, "self_test_e")
  /\ UNCHANGED <<self_test_SU_number, SU_ctrl_register, hits>>

ExecuteChannelTest ==
  \/ ExecuteChannelTest_Await \/ ExecuteChannelTest_Enable
  \/ Missed("Rise", "RiseMissed") \/ NoticedRise \/ RiseMissed
  \/ ExecuteChannelTest_Disable
  \/ Missed("PulseOver", "PulseMissed") \/ NoticedPulse \/ PulseMissed

\* SelfTestChannel ends: hits are enabled, and Switch_SU_State is called for
\* the unit that is under test now.  Interrupts are enabled, so it is two
\* steps.  For NO_SU it compares and writes outside the array.
RestoreSettings ==
  /\ health = "RestoreSettings"
  /\ hit_enabled' = TRUE
  /\ IF self_test_SU_number # NO_SU /\ SU_state[self_test_SU_number] = "self_test_e"
       THEN /\ Goto("RestoreSettings", "RestoreState", self_test_SU_number, 1)
            /\ self_test_SU_number' = NO_SU
       ELSE /\ Goto("RestoreSettings", "SelfTestEnd", NO_SU, 1)
            /\ UNCHANGED self_test_SU_number
  /\ UNCHANGED <<SU_state, SU_ctrl_register, hit_budget_left>>

RestoreState ==
  /\ Goto("RestoreState", "SelfTestEnd", NO_SU, 1)
  /\ SetState(su, "on_e")
  /\ UNCHANGED <<self_test_SU_number, SU_ctrl_register, hits>>

\* Round 6 ends.
SelfTestEnd ==
  /\ EndRound("SelfTestEnd")
  /\ self_test_SU_number' = NO_SU
  /\ UNCHANGED <<SU_state, SU_ctrl_register, hits>>

----------------------------------------------------------------------------

Health_Task ==
  \/ InitHealthMonitoring \/ Activated
  \/ Update_SU_State \/ Update_SU_State_Reset \/ Update_SU_State_On
  \/ Monitor_Other \/ Monitor_Budget \/ Monitor_Rearm
  \/ Monitor_Voltage \/ Monitor_SelfTest \/ Monitor_Temperature
  \/ LowVoltageCurrent_Ok \/ LowVoltageCurrent_Down \/ VoltageDown
  \/ MeasureTemperature_Ok \/ TemperatureFailure
  \/ SelfTest_Over \/ SelfTest_Continues \/ SelfTest_SetState
  \/ SelfTestChannel \/ ExecuteChannelTest
  \/ RestoreSettings \/ RestoreState \/ SelfTestEnd

AllOff == [s \in SU |-> "off_e"]

Init ==
  /\ SU_state = AllOff /\ self_test_SU_number = NO_SU /\ SU_ctrl_register = {}
  /\ mode = "DPU_SELF_TEST"
  /\ hit_enabled = TRUE /\ hit_budget_left = HIT_BUDGET
  /\ health = "InitHealthMonitoring"
  /\ health_mon_round = 9 /\ su = NO_SU /\ i = 1

\* Any reset: Boot switches all units off, and so there is none under test;
\* the tasks are initialised again.
Reset ==
  /\ SU_state' = AllOff /\ self_test_SU_number' = NO_SU /\ SU_ctrl_register' = {}
  /\ mode' = "DPU_SELF_TEST"
  /\ hit_enabled' = TRUE /\ hit_budget_left' = HIT_BUDGET
  /\ health' = "InitHealthMonitoring"
  /\ health_mon_round' = 9 /\ su' = NO_SU /\ i' = 1

Next == TC_Task \/ HandleHitTrigger \/ HandleHitTrigger_Exceeded \/ Health_Task \/ Reset

Spec == Init /\ [][Next]_vars

\* Health Monitoring waits for nothing but time, so it goes on as long as
\* the tasks above it leave it the processor.
FairSpec == Spec /\ WF_vars(Health_Task)

----------------------------------------------------------------------------
(* Properties *)

Places ==
  {"InitHealthMonitoring", "WaitInterval", "Update_SU_State", "PeakReset", "Monitor",
   "Budget", "LowVoltageCurrent", "VoltageDown", "MeasureTemperature", "Measured",
   "SetSelfTest", "ExecuteChannelTest", "Awaited", "Rise", "RiseMissed", "Pulse",
   "PulseOver", "PulseMissed", "RestoreSettings", "RestoreState", "SelfTestEnd"}

\* Types of the variables: the budget is not overdrawn.
TypeOK ==
  /\ SU_state \in [SU -> SU_states]
  /\ self_test_SU_number \in SU \cup {NO_SU}
  /\ SU_ctrl_register \subseteq SU
  /\ mode \in {"DPU_SELF_TEST", "STAND_BY", "ACQUISITION"}
  /\ hit_enabled \in BOOLEAN /\ hit_budget_left \in 0..HIT_BUDGET
  /\ health \in Places /\ health_mon_round \in 0..9
  /\ su \in SU \cup {NO_SU} /\ i \in Nat

\* A unit in state off has no power: whatever telecommand, failure or hit
\* comes between the steps of Health Monitoring, a unit that was given power
\* can always be switched on further or off again.
OffIsUnpowered == \A s \in SU : SU_state[s] = "off_e" => s \notin SU_ctrl_register

\* Units are in state acquisition in the mode of that name only, and in this
\* mode no unit is being switched on, although its states are also moved by
\* a task that does not look at the mode.
AcquisitionInMode ==
  \A s \in SU : IF mode = "ACQUISITION" THEN SU_state[s] \notin Switching
                                        ELSE SU_state[s] # "acquisition_e"

\* The number of the unit under self test names a unit whose state is one of
\* the self test, for all that other tasks do while the test goes on: Hit
\* Trigger and Health Monitoring use it as an index and act on its state.
SelfTestNumberInTest ==
  self_test_SU_number # NO_SU => SU_state[self_test_SU_number] \in InTest

\* Switching on ends, with the unit on, or off again.
SwitchingEnds == \A s \in SU : SU_state[s] \in Switching ~> SU_state[s] \notin Switching

\* When the hit budget is exceeded, or a self test has disabled them, hits are
\* enabled again.
HitsEnabledAgain == ~hit_enabled ~> hit_enabled

\* The comment in Start_SU_SwitchingOn: "there is only one task which can
\* switch SU state from off_e to any other state".
OnlyTelecommandsSwitchOn ==
  [][\A s \in SU : SU_state[s] = "off_e" /\ SU_state'[s] # "off_e"
       => UNCHANGED health]_vars

=============================================================================
