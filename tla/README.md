# A verification development for patmos-benchmarks: DEBIE-1 and PapaBench

The repository collects benchmark programs for the Patmos processor. Nearly all
of them are algorithm kernels, compiler tests or third-party applications. Two
are complete embedded control programs. `src/Debie1-e` is the flight software of
the DEBIE-1 dust detector, with interrupt services, four tasks, a telecommand
and telemetry protocol, non-volatile data and several kinds of reset.
`src/PapaBench-0.4` is the flight control of a small aircraft on two processors
with a serial link between them. This development models the first as far as
TLC reaches, and of the second what decides who is flying.

## 1. Inventory

### 1.1 The DEBIE-1 software

Threads, in falling priority (`kernobj.h`): the TC and TM interrupt services,
the Hit Trigger task (3), the Telecommand Execution task (2), the Acquisition
task (1), the Health Monitoring task (0). They run under the pre-emptive RTX-51
kernel in flight; the benchmark calls the handlers one after the other from
`harness/harness.c`. The models have a constant `Preemptive` for this choice.

| component | source | state | operations | shared with |
|---|---|---|---|---|
| Science Data store | telem.c, tm_data.h | event, event_queue, free_slot_index, event_queue_length, counters, checksum | GetFreeRecord, RecordEvent, FindMinQualityRecord, IncrementCounters, ClearEvents | Acquisition, TC task, TC and TM services |
| TC/TM protocol | tc_hand.c, telem.c | TC_state, TC_timeout, previous_TC, transfer buffer, telemetry pointers, mailbox | TC and TM services, HandleTelecommand, WriteMemory, MemoryPatch, ExecuteCommand | all |
| Sensor Unit control | measure.c, hw_if.c, health.c | SU_state, SU_ctrl_register, self_test_SU_number, mode | Start_SU_SwitchingOn, SetSensorUnitOff, Switch_SU_State, Update_SU_State, self test, START/STOP_ACQUISITION | TC task, Health, Hit Trigger |
| Hit trigger and acquisition | measure.c | hit_budget_left, trigger flag and enable, Acquisition mailbox, ADC_result | HandleHitTrigger, HandleAcquisition, budget renewal in Monitor round 0 | Health, TC task |
| Health monitoring | health.c | health_mon_round, period counters, internal_time, watchdog | HandleHealthMonitoring, Monitor rounds 0 to 9 | all |
| Code checksum and patching | health.c, hw_if.c | reference_checksum, code_checksum, code_not_patched, memory_mode | CalculateChecksum, PatchCode, Reboot | TC task, Health |
| ADC reading | health.c | confirm_hit_result, ADC channel | Read_AD_Channel, Convert_AD | Hit Trigger |
| Boot | hw_if.c, health.c | reset class, what survives | Init_DPU, InitCode_RAM, InitData_RAM, Boot | all |
| Classification | class.c, classtab.c | thresholds and levels | ClassifyEvent | Acquisition, TC task |
| Kernel, hardware, harness | harness/, target headers | mailboxes, flags, registers | Send_ISR_Mail, WaitMail, WaitTimeout | external to the models |

Interaction is by shared variables (with interrupts disabled around some
sections), by mails to two mailboxes, and by hardware flags. What is hard:
sections that look atomic and are not, state that is tested before and used
after interrupts were enabled, mails that are refused or doubled, time-outs that
race with a telecommand, self tests that wait while a telecommand switches the
unit off, and resets that keep the data.

### 1.2 PapaBench

| component | source | state | operations | shared with |
|---|---|---|---|---|
| Fly-by-wire | fly_by_wire/main.c, ppm.c, radio.h | mode, radio_ok, radio_really_lost, mega128_ok, two clocks, last_radio and its averages, servos | fbw_schedule: test_ppm_task, check_mega128_values_task, send_data_to_autopilot_task, check_failsafe_task | radio interrupt, link |
| Link | autopilot/link_fbw.c, both spi.c | selected slave, byte counts, flags of ended and valid frames, one message each way | link_fbw_send, byte interrupts of both sides, spi_reset | both |
| Autopilot mode | autopilot/main.c, mainloop.c, nav.c | pprz_mode, link_fbw_receive_complete, too_far_from_home, rc_event_1 | radio_control_task, pprz_mode_update | link, control laws |
| Control laws, navigation, estimator, GPS, infrared, modem, servo and ADC drivers | autopilot/*.c, servo.c, adc*.c | floating-point data and device registers | | read pprz_mode |

What is hard: the processors are not in step, so that a frame can end between two
looks at the link or start before spi_reset; news that is sent once can be lost;
sources fall silent and come back while the mode changes between them; and the
two processors find out apart that the radio is lost.

### 1.3 The rest of the repository

`Malardalen`, `MiBench`, `Mediabench`, `WTC14-misc`, `TCAS` and `Heli` are
algorithm kernels and applications; `gcc.c-torture`, `asm-tests` and `tests` test
the compiler and the processor; `cmake`, `scripts` and `a3` build things. None of
it is modelled. It is nearly all of the repository's lines (sphinx, ghostscript,
susan and others are applications of some thousand lines each, with their inputs
as C arrays), so that a development about the two control programs covers
a small share of the lines whatever it says about them.

## 2. Plan

Order: what keeps the instrument's results and its link to the ground comes
first; then what switches hardware; then what restarts everything.

| step | module | models | composed with | abstract specification | theorems |
|---|---|---|---|---|---|
| 1 (done) | `ScienceData` | Science Data store, event queue, Science Telemetry, the tasks and services around them | - | `ScienceFile` | types, queue, frozen file, end of transfer, counters, refinement |
| 2 (done) | `TcTm` | telecommand and telemetry protocol | - | `TmSession` | types, telemetry pointers, register cycle, write sequences, TM mask, refinement |
| 3 (done) | `SensorUnits` | SU_state, switching on and off, self test, acquisition, hit budget, over the Telecommand, Hit Trigger and Health Monitoring tasks | - | `UnitControl` | types, power, mode, unit under self test, refinement (its steps) |
| 4 (done) | `HitTrigger` | the trigger signal and its flag, delay counters, Acquisition mailbox, self test trigger, and Read_AD_Channel and Convert_AD, which share the ADC with hits | - | - | types, own measurements, low signal pending, accepted results |
| 5 (done) | `CodeMemory` | CalculateChecksum byte by byte, PatchCode, code_not_patched, reset classes and what they keep of the code | - | - | types, reference checksum, cause of a checksum reset |
| 6 (done) | `FlightControl` | PapaBench: `FlyByWire` and `Autopilot` over `SpiLink` | the three | - | types, freshness of the servos, who sets them |
| 7 (partly) | boot | reset classes in `CodeMemory`; in each other module what a reset does to its state | - | - | - |
| 8 (not done) | classification | ClassifyEvent and the delay arithmetic (section 6) | - | - | - |

The first three steps are about what keeps the instrument's results, its link to the
ground and its power; the next two about what their models take as given: that
a hit is measured once, and that the program in memory is the one that was
loaded. Every safety property and every refinement that a run checks has its theorem
(section 5). Left: for `TcTm` an order of the time bytes, and what of its refinement
survives a watchdog reset; the components of section 6.

## 3. Modules

All modules of this development are plain TLA+. A definition whose comment
begins with `Fault:` stands before the definition it varies, has its parameters, and is
what that code would be with a plausible mistake in it; no action uses it. They
document that each property depends on the code: with the fault in place of the
original, TLC finds the property violated.

| module | role |
|---|---|
| `Bytes` | bytes, halves of a word, exclusive or, parity |
| `ScienceData` | the store and its threads; properties |
| `ScienceFile` | what the store promises: an abstract file and a waiting queue |
| `MCScienceData` | properties with sums and cardinalities; refinement mapping to `ScienceFile` |
| `ScienceData_proofs` | theorems about `ScienceData` |
| `ScienceFile_proofs` | theorems about the refinement of `ScienceFile` (extends `ScienceData_proofs`) |
| `ScienceCounters_proofs` | theorems about the event counters (extends `ScienceFile_proofs`) |
| `Telecommands` | addresses, codes and their classes (tc_hand.h, InitTC_LookUp) |
| `TcTm` | TC and TM services, Telecommand Execution task; properties |
| `TmSession` | what telemetry promises: one session at a time, its words in order |
| `Uplinks` | words the spacecraft sends in the runs |
| `MCTcTm` | PatchIsSentBlock; refinement mapping to `TmSession` |
| `TcTm_proofs` | theorems about `TcTm` and the properties of `MCTcTm` |
| `SensorUnits` | states and power of the sensor units, self test, hit budget; properties |
| `UnitControl` | what the control of the units promises the ground |
| `MCSensorUnits` | refinement mapping to `UnitControl` |
| `SensorUnits_proofs` | theorems about `SensorUnits` and its refinement of `UnitControl` |
| `HitTrigger` | trigger, delay counters, events and ADC; properties |
| `MCHitTrigger` | two channels of the self test |
| `HitTrigger_proofs` | theorems about `HitTrigger` |
| `CodeMemory` | code memory, its checksum, patches, bit flips and resets; properties |
| `MCCodeMemory` | a small PROM |
| `CodeMemory_proofs` | theorems about `CodeMemory` |
| `SpiLink` | frames between PapaBench's processors |
| `FlyByWire`, `Autopilot` | the two programs |
| `FlightControl` | the two programs and the link together; fairness, properties |
| `MCFlightControl` | `FlightControl` for TLC |
| `FlightControl_proofs` | theorems about `FlightControl` |

### 3.1 Steps and pre-emption

A step is what one thread does without a point at which a thread of higher
priority could see or change the state it works on. Sections between
DISABLE_INTERRUPT_MASTER and ENABLE_INTERRUPT_MASTER, and interrupt services, are
one step. `TC_pc` and `ACQ_pc` say where a task is between two steps. With
`Preemptive = TRUE` an interrupt service runs between any two steps of a task
and the Telecommand Execution task interrupts the Acquisition task, as in flight; with
`Preemptive = FALSE` a service runs only when the tasks wait, as in the
harness of the benchmark. Kernel and hardware are external: mailboxes hold
`MailCapacity` mails and refuse more (Send_ISR_Mail does not look at the result).

### 3.2 ScienceData

| code | model |
|---|---|
| GetFreeRecord, HandleAcquisition | `HandleAcquisition_Get`, `HandleAcquisition_Fill`, `ClassifyEvent` |
| RecordEvent up to the first enabling of interrupts | `RecordEvent_Full`, `RecordEvent_Defer`, `RecordEvent_Store` |
| FindMinQualityRecord (interrupts enabled) | `RecordEvent_FindMin` |
| the copy after ENABLE_INTERRUPT_MASTER | `RecordEvent_Copy` |
| TC service, Send Science Data File | `TC_InterruptService` |
| TM service | `TM_InterruptService_Send` (the words of one record), `_Ready` |
| HandleTelecommand, ClearEvents | `HandleTelecommand_*`, `ClearEvents_Counters`, `_Copy` (one record), `_Finish` |
| Boot | `Boot_KeepsData` (watchdog, checksum), `Boot_ClearsData` (soft, warm) |

Event records keep the time of the hit (as its number), unit, class and
quality; the measured values are left out.

### 3.3 TcTm

| code | model |
|---|---|
| TC_InterruptService | `_Early` (timer), `_Block` (memory_patch_e), `_Invalid`, `SendStatusRegister`, `SendScienceDataFile`, `ReadDataMemory`, `_Refused`, `_Other` |
| TM_InterruptService | `_Send`, `_Wrap`, `_Ready` |
| HandleTelecommand: WaitMail, its time-out | `_Wait`, `_Timeout`, `_TimeoutError`, `_TimeoutEnd` |
| HandleTelecommand: the test for TM_READY, the switch | `_Test`, `_Switch`, then the handler of its own step |
| WriteMemory, MemoryPatch, ExecuteCommand, UpdateTarget | the actions of these names |
| PatchCode with a reset, Reboot, Boot | `SoftReset`, `WatchdogReset`, `Restart` |
| InitHealthMonitoring | `EnterStandBy` |

Words are 16-bit numbers with their real addresses, parity and checksums.
Telemetry data is the place it comes from: an area and an offset. The history
variables `received` (the last words mailed) and `written` (the last block
stored) and the field `from` of a mail are read by properties only. Where the
Sensor Units decide about a telecommand, both outcomes are possible.

### 3.4 SensorUnits

| code | model |
|---|---|
| SWITCH_SU telecommands | `Switch_SU_On`, `Switch_SU_Off`, `Switch_SU_SelfTest` over `Start_SU_SwitchingOn`, `SetSensorUnitOff`, `Switch_SU_State` |
| START_ACQUISITION, STOP_ACQUISITION | `StartAcquisition`, `StopAcquisition` |
| HandleHitTrigger | `HandleHitTrigger`, `HandleHitTrigger_Exceeded` |
| Update_SU_State, with the wait for the peak detector | `Update_SU_State`, `_Reset`, `_On` |
| Monitor, rounds 0 to 9 | `Monitor_Budget` and `_Rearm` (0), `_Voltage` (4), `SelfTestChannel` to `SelfTestEnd` (6), `_SelfTest` to `SelfTest_SetState` (7), `_Temperature` (9), `Monitor_Other` |
| LowVoltageCurrent, MeasureTemperature | `LowVoltageCurrent_Ok`, `_Down`, `VoltageDown` (one unit a step), `MeasureTemperature_Ok`, `TemperatureFailure` |
| ExecuteChannelTest for one channel | `ExecuteChannelTest_Await` to `PulseMissed` |
| Boot | `Reset` |

`health` says where Health Monitoring is, `su` which unit the function it is in
was called for, `i` is the counter of the loop it is in. It has the lowest priority: with
`Preemptive = TRUE` telecommands, hits and resets come between any two of its
steps; with `FALSE` telecommands come between two rounds only, hits and resets
still at any time. Whether a voltage is down, a unit too hot, or a pulse noticed is
left open. `self_test_SU_number - SU1` of no unit is an index before the
array; what the code writes there does not reach a unit in the model.

### 3.5 HitTrigger

| code | model |
|---|---|
| a particle: falling edge on T2EX | `Hit` |
| HandleHitTrigger | `HandleHitTrigger`, `HandleHitTrigger_Exceeded` |
| HandleAcquisition | `HandleAcquisition_WaitMail`, `_Record`, `_Reset` |
| START_ACQUISITION, STOP_ACQUISITION | `START_ACQUISITION` (test of the sensor units), `_Clear`, `_Counters`, `_Mode`, `STOP_ACQUISITION` |
| Monitor, round 0 | `Monitor_Budget`, `_Enabled`, `_Enable`, `_Rearm` |
| Read_AD_Channel, Convert_AD | `Read_AD_Channel_*`, `Convert_AD_*`, one action for each access to the ADC or to confirm_hit_result |
| ExecuteChannelTest, the end of SelfTestChannel | `ExecuteChannelTest_*`, `SelfTestChannel_Trigger` |
| Init_DPU, Boot, InitSystem | the actions of these names, after a `Reset` |

What the trigger does is in comments (health.c:997 to 1011): T2EX falls with a
hit and stays low until the delay counters are reset; a falling edge sets EXF2 if
EXEN2 is set. The harness has stubs for it. What is measured is left out: the model
keeps whose a measurement is. A mail is `"own"` while peaks and delays in the
hardware are those of its hit, and a word read from the ADC belongs to the task
that selected the channel or started the conversion. `aside` remembers that a task
other than Acquisition reset the counters, or faked a trigger, while an event was
pending. Taken as given: between two rounds of Health Monitoring, a second
apart, hits that are pending are handled, and so they are in the ticks between
disabling the trigger for a channel test and clearing its flag.

Read from the model, and no property: START_ACQUISITION shortly after a
hit in stand-by, the faked trigger and a new budget can spoil the counters of
another event (`aside`); a hit between the two tests of confirm_hit_result
(health.c:2072) discards a good result, which costs a try; an edge between
resetting the counters and enabling the trigger in ExecuteChannelTest (health.c:2521) is lost and
reported as an error of the self test.

### 3.6 CodeMemory

| code | model |
|---|---|
| CalculateChecksum | `CalculateChecksum_Clear`, `_Flag`, `_Start`, `_Byte`, `_Compare`, `_Excuse`, `_Reboot` |
| UpdatePeriodCounter as the checksum uses it | `NextPiece` |
| MemoryPatch for code, PatchCode with its execution commands | `MemoryPatch`, `PatchCode` |
| Reboot, soft and warm reset by telecommand | `Reboot`, `SoftReset` |
| resets from outside | `HardwareReset` |
| Init_DPU, InitCode_RAM, the checksum part of Boot | the definitions of these names |
| external: what radiation does | `BitFlip` |
| data written at addresses of SRAM1 while it is not mapped | `DataWrite` |

A byte is the set of its bits that are one, so exclusive or is symmetric
difference and a checksum is, bit by bit, a parity. Telecommands, flips and resets come between
any two bytes of a pass. `flipped` is the effect of radiation on the checksum since the
code was copied, `disturbed` that there was any, and `patched_aside` that a patch was
stored while the DPU runs from PROM.

Read from the model: PatchCode writes SRAM1 and updates reference_checksum also
while PROM is mapped, so a patch then is found as an error that
is not there and causes a checksum reset (health.c:1659; `ChecksumResetHasCause`
names this cause). A patch over a flipped byte keeps the flip in the
reference (the old byte is taken as read). In PROM mode SRAM1 is the lower half of data memory
(hw_if.c:399 to 402); what patches and RAM tests do there to data is not modelled.

### 3.7 FlightControl

| code | model |
|---|---|
| fbw_schedule | `fbw_schedule` over `test_ppm_task`, `check_mega128_values_task`, `send_data_to_autopilot_task`, `check_failsafe_task`; `fbw_pc` is the next one |
| radio interrupt, last_radio_from_ppm | `SIG_INPUT_CAPTURE1`, `LastRadioFromPpm` |
| link_fbw_send, byte interrupts of both sides, spi_reset | `link_fbw_send`, `Frame(mosi, miso)`, `spi_reset` |
| autopilot main loop and mainloop.c | `periodic_task_Link`, `main_FrameEnded`, `radio_control_task`, `pprz_mode_update` |

A frame is one step when it begins and one when it ends; steps of both
processors come in between. It is valid for a side unless the line disturbed it;
for the slave it must also have been reset before its first byte, as otherwise its bytes are shifted. The
check byte is abstracted to that. Pulses are numbers with the two
thresholds at their place. Of the values at the servos and of the message from the
autopilot only history is kept: who set them, the schedules since test_ppm_task read
them or since their frame ended, and whether that frame was still the latest. `auto_time` counts
the schedules since the mode turned automatic. `rc_event_1`, the reading of GAIN1 in
home mode and too_far_from_home (nav.c:178) are any value when they are read. The
frame of the radio arrives where test_ppm_task looks, and is taken as read whole.

A message can be set more than once. When a frame starts after check_mega128_values_task
has looked and before send_data_to_autopilot_task looks again (main.c:288, 102), spi_reset is
not called, the message stays valid and the new frame is not stored (spi.c:81). When
that frame ends the old message counts as new, mega128_ok stays set, and this may go on
for as long as frames keep coming so. The count of bytes is of eight bits: after 255 bytes
they are stored again, out of step, in the message that is still valid (spi.c:77, 108 to 111).
The model marks such a message (`Outdated`), and `ServosAreFresh` bounds the age of the
radio's values and of those that came by the latest frame, and says nothing of others.

Read from the model, and no property: the two-processor build calls fbw_schedule in
every turn of while(1), although STALLED_TIME counts "500ms with a 60Hz timer"
(fly_by_wire/main.c:56, 216 to 219), so what a period lasts is open here;
GAIN1 keeps its last value while the radio is lost, so a stale event can
end home mode at the first average, against "We remain in home mode until explicit reset
from the RC" (autopilot/main.c:145); a pulse of exactly TRESHOLD1 is automatic mode
for the fly-by-wire and manual for the autopilot.

## 4. What is checked

Bounds: MaxHits, MaxRequests, MaxTCs and MaxResets bound how often the
environment acts; stores and queues have two or three records, blocks two or four
bytes, three registers are sent. The behaviours asked about need a full file and a
full queue, two sessions, a sequence that is cut off and one that
is complete, an area with a first, a middle and a last element; they are
within these bounds, as the faults show. `tctm_transfers` has no reset (its properties hold with one too, in three
minutes), and the proofs are for any number. `SensorUnits` needs no bound on its
environment: it is finite. Two units are one under test and another one, three
(su_refine) add one between them; one hit is the smallest budget and the first
to be exceeded; `TwoChannels` has both kinds of channel tests (the rise of plasma 1- is looked
at apart), and five channels twice differ from them in number only.

`HitTrigger` (a budget of two, two tries at the ADC, a mailbox of two, two channels) and
`FlightControl` have no bound on their environment either. `CodeMemory` has five bytes of one bit,
of which four are in SRAM1, in two pieces of two bytes and a last one; patches are two
bytes long, so they lie in a piece or across two. Two patches and two flips (`MaxPatches`,
`MaxFlips`) are one that hides and one that shows the other. Bits do not affect each other, and the proofs
are for any set of them. In `FlightControl` STALLED_TIME and
REALLY_STALLED_TIME are 2 and 3, the least that differ and that let a source
be heard in between, the pilot's pulses are manual and AUTO1, and an average is
taken of each frame. The loss of the radio takes both of these to home mode, where it leaves
AUTO2 as it is; with the three positions (1.9 million states) all properties
hold too, in three and a half minutes. An average of each frame leaves out messages
without one; the safety properties also hold with an average of two (3.5 million states), and the
proofs of them are for any.

| run | result | shows |
|---|---|---|
| science_preempt | holds | `TypeOK`, `QueuedEventsAreFilled`, `TelemetryEndIsFileEnd`, `CountersMatchFile`, `FileFrozen`, `ScienceTelemetryEnds` with pre-emption, a reset at any point, saturated counters and a mailbox of one mail |
| science_refine | holds | `ScienceData` implements `ScienceFile` when handlers run to their end; counters describe the file; no event is in it twice |
| tctm_transfers | holds | `TypeOK`, `PointerInArea`, `RegistersCycle`, `WriteEndsInResult`, `TransfersEnd` with pre-emption, time-outs and a mailbox of one mail |
| tctm_patch | holds | `PatchIsSentBlock`: seven words, so an aborted sequence and a complete one, and a reset at any point |
| tctm_refine | holds | `TcTm` implements `TmSession` when handlers run to their end; `TMMaskMatchesState`, `WritesInStandBy` |
| science_reset | violated | a watchdog reset keeps event_queue_length, later events are lost (telem.c:445) |
| su_preempt | holds | `TypeOK`, `OffIsUnpowered`, `AcquisitionInMode`, `SelfTestNumberInTest`, `SwitchingEnds`, `HitsEnabledAgain` with pre-emption, failures and a reset at any point |
| su_refine | holds | `SensorUnits` implements `UnitControl`, liveness included, when telecommands come between rounds |
| su_off | violated | a unit switched off while Update_SU_State waits is set to on_e, without power (measure.c:646) |
| code_memory | holds | `TypeOK`, `ReferenceTracksCode`, `ChecksumResetHasCause`, `CorruptionIsFound`: patches, flips and resets of every class between any two bytes of a pass |
| hit_trigger | holds | `TypeOK`, `EventHasOwnMeasurements`, `LowIsPending`, `AcceptedResultIsOwn`, `TriggerArmedAgain`: hits, telecommands and resets between any two steps |
| flight_control | holds | `TypeOK`, `ServosAreFresh`, `ServosObeyControl`, `LinkRecovers`, `RadioLossHandled`, `ModesAgree`: processors out of step, frames cut, disturbed or ignored, sources falling silent at any time |

The refinements hold for handlers that run to their end and fail under
pre-emption. RecordEvent copies the
event after it has enabled interrupts (telem.c:434 to 440), so telemetry can
start in between and the record is written while it is sent, against the
comment at telem.c:401. A unit is on without power (su_off), and a self test
started by telecommand for one unit while that of another ends loses its number at
health.c:1072 and stays in a state of the self test until it is switched off.

Other things met while telemetry and telecommands were modelled, for which no run is kept:

- A TM_READY mail that is doubled or late ends the next session early (telem.c:403).
- ClearEvents counts the events of the queue (telem.c:493) and sets counter_checksum
  to zero after it (telem.c:508).
- The words of a block mailed in memory_patch_e, and handled
  after its time-out, are executed as telecommands, against tc_hand.c:1207.
- SET_TIME_BYTE_2 to 0 look at the address in previous_TC (tc_hand.c:940, 962, 984), and a byte
  refused for its order is stored there too, so the byte after it is accepted.
- Register or science telemetry that starts in write_memory_e ends the write sequence
  without an error (tc_hand.c:467, 510). Nothing has been written then, and in
  memory_patch_e it cannot happen. `WriteEndsInResult` looks at every end of a sequence
  and names this one as its exception.

Deadlock is checked for `SensorUnits`, `CodeMemory`, `HitTrigger` and `FlightControl`. It
is not an error in `ScienceData` and `TcTm`: when the bounds are used up, a system
that waits for telecommands has nothing to do.

### Fairness

| model | assumed | because |
|---|---|---|
| TcTm, ScienceData | `WF(TC_Step)` | the kernel runs the ready task of highest priority, and no other task of that priority exists; a time-out is a kernel event |
| | `WF(TM_InterruptService)` | the spacecraft goes on reading telemetry while the TM interrupt is enabled |
| SensorUnits | `WF(Health_Task)` | Health Monitoring waits for nothing but time, and the tasks above it wait for mails and interrupts |
| HitTrigger | `WF(Hit_Trigger_Task)`, `WF(Starting)` | the first has the highest priority, and a telecommand being executed is delayed by it only, whose budget is limited |
| | `SF(HandleAcquisition)`, `SF(Health_Task)` | other tasks may take the processor, and so disable the next step, over and over; between them the lower one does get it |
| CodeMemory | `WF(StartUp)`, `WF(CalculateChecksum)` | a boot goes on; Health Monitoring runs every second |
| FlightControl | `WF` of fbw_schedule, of periodic_task and of the rest of the main loop, `WF(Transfer)` | neither processor stops, and bytes follow each other by interrupts |

Strong fairness is needed in `HitTrigger` only. Nothing is assumed of
telecommands, hits, patches, flips, resets and the radio. That
messages get through is no fairness of the programs: `LinkRecovers`, `RadioLossHandled`
and `ModesAgree` have it as a premise.

## 5. What is proved

The theorems hold for every size of store, queue, block, mailbox and register
area, every uplink, every code memory, every period and time-out of the servos
and every number of hits, telecommands, patches and resets, under the
named assumptions of the modules: sizes are positive, MAX_QUEUE_LENGTH is less
than max_events (the NOTE in ClearEvents), block and register sizes are even, and
`LimitAssumption` for the sums (below). TLC evaluates each of them in the runs.

Two hypotheses are stated in the theorems that need them, never in an invariant:
`~Preemptive` (handlers run to their end, as in the harness) and `MaxResets = 0` (until
the first watchdog reset). The constants of the runs let
TLC say what each is for. With `Preemptive = TRUE` it finds `PatchIsSentBlock`,
`TMMaskMatchesState`, `FileHoldsDistinctEvents`, `ImplementsScienceFile` and
`ImplementsTmSession` violated (section 4); the other theorems do not assume it. With `MaxResets = 1` it finds `CountersDescribeFile`, `FileHoldsDistinctEvents` and
`ImplementsTmSession` violated: a reset leaves half of what ClearEvents or a session was
doing (`science_reset`).

`ScienceData_proofs`:

- `TypeCorrect`, then `QueueCorrect`. `QueuedEventsAreFilled` is not inductive: the
  record being acquired must be filled by the time it counts. `AcquisitionInProgress`
  says which records are, relative to `ACQ_pc` and `new_event`, and that the
  queue does not grow past `new_event` meanwhile.
- `EndCorrect` and `FrozenCorrect` rest on `ClearingIsMasked`: ClearEvents runs in
  SC_TM_e with the TM interrupt masked, so no session starts while the file shrinks.

`ScienceFile_proofs`, both for `~Preemptive` and `MaxResets = 0`:

- `FileImplemented`: every step of the store is a step of `ScienceFile` or invisible to it.
  The invariant `StoreInv` says that one task is at work at a time (`TurnInv`); that what the
  transfer sent is still in the file, and TM_READY tells of its end only (`LinkInv`); that the record
  in hand is at the end of the queue (`HandInv`); and that events of file and queue differ
  in the time of their hit (`FileInv`, `WaitingInv`), without which a set of events would
  not tell how many records there are.
- `DistinctCorrect` from the same invariant: the map from records to events is injective,
  so the file has as many events as free_slot_index says.

`ScienceCounters_proofs`:

- `MatchCorrect`, with pre-emption or without: every step keeps the counters and the
  records stored, or counts one event, or clears both (`StepCounts`); the sums follow. The
  library's fold over a set is shown to be a sum by induction on finite sets
  (`SetInduct`, a minimal counterexample under strict inclusion). `LimitAssumption` is what
  makes hits and class counters add up: an SU_hits counter (0xFFFF) has room for a full file (1261
  records) and for all class counters of a unit at their limit (10 times 0xFF).
- `DescribeCorrect` (`MaxResets = 0`; with pre-emption or without) from `ClassInv`, the property
  stated for the records stored so far, which holds between two records of ClearEvents as well.
  Its run is the one without pre-emption; the theorem says that the counters describe the
  file also when the copy of RecordEvent is interrupted by a whole transfer. `IdleQueueInv`
  is why: an event on its way to the file came from a queue without others, so a
  ClearEvents that interrupts the copy moves nothing, and the late copy writes to a free
  record. What pre-emption breaks is that the events are distinct, not that they are counted.

`TcTm_proofs`:

- `TypeCorrect`. That the buffer is not overfilled needs `BufferEven`: it holds an even
  number of bytes, so a test for one byte is a test for two.
- `PointerCorrect` from `TmInv`: the words still to be sent lie in
  the area, described for each state by `RegisterInv` and `PointerInv`.
- `CycleCorrect` from the same invariant: in register_TM_e the pointer is the
  register after the one sent last, or past the last one.
- `StandByCorrect` from `StandByInv`: the task enters a write state from ExecuteCommand
  only, and while one is open nothing reaches the code that changes the mode.
- `WriteEndsCorrect` from `LateWriteInv`: the time-out sets TC_ERROR one step before it
  leaves the write state, and a service that gets in between leaves the error set. What
  a service can end a sequence with is in `ServiceWrites`: an error, or telemetry before the second word.
- `MaskCorrect` (`~Preemptive`) from `MaskInv`: the task finds TC_state as it was when it
  chose its handler, and no time-out is set in a telemetry state.
- `SessionImplemented` (`~Preemptive`, `MaxResets = 0`): every step of `TcTm` is a step of `TmSession` or a
  stutter. `SessionPoints` ties the pointers to the word sent last, `ReadyInv` says
  that a TM_READY in the mailbox or in the task's hands belongs to the session that
  is open and finished. A plan is a function from positions to words; the lemmas
  `RegisterNeighbours`, `ScienceNeighbours` and `DumpNeighbours` say that the word at the pointer comes
  after the one in the TM registers.
- `PatchCorrect` (`~Preemptive`, resets at any point): `SequenceInv` describes an open write
  sequence by the last words received. They are its MSB and LSB telecommands and the words that
  fill the buffer so far, one after the other, and write_checksum is the sum over them; `MailInv` says
  which of them the task still has to handle. The recursive sum of the property is determined by its
  words (`SumIs`, by induction on numbers), and exclusive or cancels bit by bit (`XorCancels`).

`SensorUnits_proofs`, for every number of units, budget and sequence of channels:

- `TypeCorrect`, `OffCorrect`, `AcquisitionCorrect` and `SelfTestCorrect` from one
  invariant, `IInv`. What the properties lack is what Health Monitoring still knows of its
  unit when it goes on after other tasks. `ResetUnit`: the unit whose peak
  detector is reset is being switched on or was switched off meanwhile, so setting it to on_e
  takes none out of acquisition or self test. `RestoreUnit`: the
  unit to be restored after a self test is no longer the one under test. `PlaceIndices`:
  the index of a function is that of a unit wherever it is used.
- `ControlImplemented` (`~Preemptive`): the safety part of the refinement, `Control!Safety`, from `RoundInv`:
  between two steps of a round no other task touched the unit that Health Monitoring has in hand,
  and only the unit under test is in a state of the self test.

`HitTrigger_proofs`:

- `TypeCorrect`, `EventsHaveOwnMeasurements`, `LowIsAlwaysPending` and `AcceptedResultsAreOwn`
  from `IInv`. `EventInv`: while an event is pending, and nobody has reset the hardware aside, T2EX is low, so no
  hit can come, and the event is in one place: the flag, the mailbox or Acquisition's hands. `ModeInv` and `LowInv`: what
  START_ACQUISITION and the other tasks that reset the counters have already done
  at each of their steps. `ReadInv`: at each step of a reading, the channel, the
  conversion and the word are those of Health Monitoring, or confirm_hit_result is set.

`CodeMemory_proofs`, for every memory, piece, patch and set of bits:

- `TypeCorrect`, `ReferenceFollowsCode` and `ChecksumResetsHaveCause` from `TypeInv`,
  `ConfigInv` (memory_mode agrees with the last RAM test, and with what is mapped, and
  Boot has the class of the last reset), `TracksInv` (the reference through a warm reset) and `PassInv`: in a pass
  that no patch touched, code_checksum is that of the bytes read so far,
  and what is left to read makes up the difference. The arithmetic is in lemmas: a checksum of a
  disjoint union (`SumUnion`), of a memory that was patched (`SumPatched`), and that pieces
  are consecutive and cover the memory (`Pieces`). `MismatchHasCause` brings them together.

`FlightControl_proofs`, for every STALLED_TIME, REALLY_STALLED_TIME, period and pulse:

- `TypeCorrect`, `ControlIsObeyed`, `ServosAreAlwaysFresh` from `IInv`. `ClockInv` ties radio_ok, radio_really_lost and
  mega128_ok to the clocks; `ControlInv` says who may have set the servos at each task
  of a schedule; `AgeInv` relates the age of their values to the clock of
  their source. It is the age that needs strengthening: values the radio left behind when the switch
  turned are as old as its time-out allows and the autopilot's clock adds to them.
  `MessageInv` says that the message of the latest frame, if no other has started, is
  one the next look of check_mega128_values_task takes note of, at most one schedule old.
  `HandoverInv` says that in automatic mode what others than the autopilot left at the servos
  is older than the mode, until the autopilot is silent.

Only model-checked: liveness (`ScienceTelemetryEnds`, `TransfersEnd`, `SwitchingEnds`, `HitsEnabledAgain`,
`TriggerArmedAgain`, `CorruptionIsFound`, `LinkRecovers`, `RadioLossHandled`, `ModesAgree`) and the
fairness in `ImplementsUnitControl`, since the prover has no ENABLED. Induction is done in
the proofs that need it (`SetInduct`, `NatInduct`) by a minimal counterexample, as the library's induction theorems have
an operator for a parameter, which the provers cannot instantiate.

## 6. What is not modelled

- Event classification (class.c, classtab.c): a pure function of the measurements,
  whose only description is its own table of thresholds and levels.
- The test of data RAM in Boot, and the monitoring of voltages beyond the choice between
  down and not down, which is in `SensorUnits`.
- Values that no property depends on: measured values of an event, settings
  and coefficients stored by UpdateTarget, bytes of the telemetry areas, the TC time tag.
- The code called by execution command 0x5A, which may do anything; it is taken to return.
- The kernel's failures other than a full mailbox.
- PapaBench's control laws, navigation, estimator, GPS, infrared and servo drivers: floating-point
  functions and device registers; of navigation, that the aircraft may be too far from home. In-flight
  calibration, launch detection, the battery and the test build (PAPABENCH_TEST) are left out too.
- The other programs of the repository (section 1.3): none has state that
  several parties share, and a model of a kernel would only repeat it.
