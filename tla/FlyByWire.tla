----------------------------- MODULE FlyByWire -----------------------------
(* The fly-by-wire program of PapaBench (fly_by_wire/main.c, ppm.c): it     *)
(* sets the servos to the channels of the radio or of the autopilot, as its *)
(* mode says, and to a fail-safe position when the one in control is silent.*)
(* The tasks of fbw_schedule are steps of their own, between which frames   *)
(* of the link start and end.                                               *)
EXTENDS SpiLink

CONSTANTS
  STALLED_TIME,          \* schedules after which a source counts as silent,
  REALLY_STALLED_TIME,   \* and the radio as lost
  AVERAGING_PERIOD,      \* frames of the radio of which the switch is an average
  PilotPulses            \* the positions the pilot gives the switch

ASSUME TimesAssumption ==
  /\ STALLED_TIME \in Nat \ {0}
  /\ REALLY_STALLED_TIME \in Nat
  /\ REALLY_STALLED_TIME >= STALLED_TIME
ASSUME RadioAssumption ==
  /\ AVERAGING_PERIOD \in Nat \ {0}
  /\ MAX_PULSE \in Nat /\ MAX_PULSE >= 2
  /\ PilotPulses \subseteq 0..MAX_PULSE

VARIABLES
  fbw_pc,                             \* the next task of fbw_schedule
  mode,                               \* MODE_MANUAL or MODE_AUTO
  radio_ok, radio_really_lost, mega128_ok,
  time_since_last_ppm, time_since_last_mega128,
  ppm_pulses,                         \* the frame of the radio not yet read, if any
  last_radio,                         \* the switch for the fly-by-wire and the autopilot
  avg_cpt, avg_last_radio,            \* the sum towards its average
  last_radio_contains_avg_channels,   \* a new average, not yet in a message
  servos,                             \* whose values the servos have, and how old they are
  auto_time                           \* history: schedules since the mode turned automatic

radioVars == <<ppm_pulses, last_radio, avg_cpt, avg_last_radio>>
timeVars  == <<radio_ok, radio_really_lost, mega128_ok,
               time_since_last_ppm, time_since_last_mega128>>
fbwVars   == <<fbw_pc, mode, timeVars, radioVars, last_radio_contains_avg_channels, servos, auto_time>>

NoFrame == -1
ppm_valid == ppm_pulses # NoFrame

TRESHOLD1 == 1   \* TRESHOLD_MANUAL_PPRZ
MODE_OF_PPRZ(pulse) == IF pulse < TRESHOLD1 THEN "MODE_MANUAL" ELSE "MODE_AUTO"

Goto(from, to) == fbw_pc = from /\ fbw_pc' = to

\* Fault: the counters do not stop.
Tick_Unlimited(time, limit) == time + 1

Tick(time, limit) == IF time < limit THEN time + 1 ELSE time

\* The age of a value counts schedules up to AgeLimit, which is more than any
\* property allows: those since test_ppm_task read it, or since its frame ended.
AgeLimit == 2 * STALLED_TIME
servo_set(source, value) ==
  servos' = [by |-> source, age |-> value.age, latest |-> value.latest]
Older(value) == IF value.latest THEN [value EXCEPT !.age = Tick(@, AgeLimit)] ELSE value

\* The start of fbw_schedule, as far as it is history.
Schedule ==
  /\ from_mega128' = IF mega128_receive_valid THEN Older(from_mega128) ELSE NoMessage
  /\ auto_time' = IF mode = "MODE_AUTO" /\ mode' = "MODE_AUTO"
                    THEN Tick(auto_time, STALLED_TIME) ELSE 0

----------------------------------------------------------------------------

\* External: the pilot's radio, through the input capture interrupt.  A frame
\* that comes before the last one was read takes its place.  Only test_ppm_task
\* looks at it: one that comes during a later task is as if it came after it.
SIG_INPUT_CAPTURE1(pulse) ==
  /\ fbw_pc = "test_ppm_task"
  /\ ppm_pulses' = pulse
  /\ UNCHANGED <<fbw_pc, mode, timeVars, last_radio, avg_cpt, avg_last_radio,
                 last_radio_contains_avg_channels, servos, auto_time>>

\* The switch changes with every AVERAGING_PERIOD-th frame.
LastRadioFromPpm ==
  IF avg_cpt + 1 = AVERAGING_PERIOD
  THEN /\ avg_cpt' = 0
       /\ avg_last_radio' = 0
       /\ last_radio' = (avg_last_radio + ppm_pulses) \div AVERAGING_PERIOD
       /\ last_radio_contains_avg_channels' = TRUE
  ELSE /\ avg_cpt' = avg_cpt + 1
       /\ avg_last_radio' = avg_last_radio + ppm_pulses
       /\ UNCHANGED <<last_radio, last_radio_contains_avg_channels>>

\* Fault: the radio sets the servos whatever the mode is.
test_ppm_task_Frame_AnyMode ==
  /\ Goto("test_ppm_task", "check_mega128_values_task")
  /\ ppm_valid
  /\ ppm_pulses' = NoFrame
  /\ radio_ok' = TRUE
  /\ radio_really_lost' = FALSE
  /\ time_since_last_ppm' = 0
  /\ time_since_last_mega128' = Tick(time_since_last_mega128, STALLED_TIME)
  /\ LastRadioFromPpm
  /\ mode' = IF last_radio_contains_avg_channels' THEN MODE_OF_PPRZ(last_radio') ELSE mode
  /\ servo_set("radio", JustReceived)
  /\ Schedule
  /\ UNCHANGED <<mega128_ok, masterVars, slaveVars>>

\* fbw_schedule from its start to the end of test_ppm_task, with a frame ...
test_ppm_task_Frame ==
  /\ Goto("test_ppm_task", "check_mega128_values_task")
  /\ ppm_valid
  /\ ppm_pulses' = NoFrame
  /\ radio_ok' = TRUE
  /\ radio_really_lost' = FALSE
  /\ time_since_last_ppm' = 0
  /\ time_since_last_mega128' = Tick(time_since_last_mega128, STALLED_TIME)
  /\ LastRadioFromPpm
  /\ mode' = IF last_radio_contains_avg_channels' THEN MODE_OF_PPRZ(last_radio') ELSE mode
  /\ IF mode' = "MODE_MANUAL" THEN servo_set("radio", JustReceived) ELSE servos' = Older(servos)
  /\ Schedule
  /\ UNCHANGED <<mega128_ok, masterVars, slaveVars>>

\* ... and without.
test_ppm_task_Silent ==
  /\ Goto("test_ppm_task", "check_mega128_values_task")
  /\ ~ppm_valid
  /\ time_since_last_ppm' = Tick(time_since_last_ppm, REALLY_STALLED_TIME)
  /\ time_since_last_mega128' = Tick(time_since_last_mega128, STALLED_TIME)
  /\ mode' = IF radio_really_lost THEN "MODE_AUTO" ELSE mode
  /\ radio_ok' = (radio_ok /\ time_since_last_ppm' < STALLED_TIME)
  /\ radio_really_lost' = (radio_really_lost \/ time_since_last_ppm' >= REALLY_STALLED_TIME)
  /\ servos' = Older(servos)
  /\ Schedule
  /\ UNCHANGED <<mega128_ok, radioVars, last_radio_contains_avg_channels, masterVars, slaveVars>>

\* A frame of the link has ended, and nobody has taken note of it.
FrameWaits == ~SpiIsSelected /\ spi_was_interrupted

check_mega128_values_task_Valid ==
  /\ Goto("check_mega128_values_task", "send_data_to_autopilot_task")
  /\ FrameWaits /\ mega128_receive_valid
  /\ time_since_last_mega128' = 0
  /\ mega128_ok' = TRUE
  /\ IF mode = "MODE_AUTO" THEN servo_set("autopilot", from_mega128) ELSE UNCHANGED servos
  /\ UNCHANGED <<mode, radio_ok, radio_really_lost, time_since_last_ppm, radioVars,
                 last_radio_contains_avg_channels, auto_time, linkVars>>

check_mega128_values_task_Nothing ==
  /\ Goto("check_mega128_values_task", "send_data_to_autopilot_task")
  /\ ~(FrameWaits /\ mega128_receive_valid)
  /\ mega128_ok' = (mega128_ok /\ time_since_last_mega128 # STALLED_TIME)
  /\ UNCHANGED <<mode, radio_ok, radio_really_lost, time_since_last_ppm,
                 time_since_last_mega128, radioVars, last_radio_contains_avg_channels,
                 servos, auto_time, linkVars>>

\* Fault: the message tells of a new average and has the old one.
to_autopilot_from_last_radio_Old ==
  /\ Goto("send_data_to_autopilot_task", "spi_reset")
  /\ FrameWaits
  /\ spi_was_interrupted' = FALSE
  /\ to_mega128' = [to_mega128 EXCEPT !.lost = radio_really_lost,
                                       !.averaged = last_radio_contains_avg_channels]
  /\ last_radio_contains_avg_channels' = FALSE
  /\ UNCHANGED <<mode, timeVars, radioVars, servos, auto_time, masterVars, idx_buf, from_mega128>>

\* send_data_to_autopilot_task up to the call of spi_reset: the status tells
\* of a new average once.
to_autopilot_from_last_radio ==
  /\ Goto("send_data_to_autopilot_task", "spi_reset")
  /\ FrameWaits
  /\ spi_was_interrupted' = FALSE
  /\ to_mega128' = [pulse |-> last_radio, lost |-> radio_really_lost,
                    averaged |-> last_radio_contains_avg_channels]
  /\ last_radio_contains_avg_channels' = FALSE
  /\ UNCHANGED <<mode, timeVars, radioVars, servos, auto_time, masterVars, idx_buf, from_mega128>>

send_data_to_autopilot_task_Nothing ==
  /\ Goto("send_data_to_autopilot_task", "check_failsafe_task")
  /\ ~FrameWaits
  /\ UNCHANGED <<mode, timeVars, radioVars, last_radio_contains_avg_channels, servos, auto_time,
                 linkVars>>

send_data_to_autopilot_task_Reset ==
  /\ Goto("spi_reset", "check_failsafe_task")
  /\ spi_reset
  /\ UNCHANGED <<mode, timeVars, radioVars, last_radio_contains_avg_channels, servos, auto_time,
                 masterVars, spi_was_interrupted, to_mega128>>

\* Fault: only the radio is watched.
Silent_RadioOnly == mode = "MODE_MANUAL" /\ ~radio_ok

Silent == \/ mode = "MODE_MANUAL" /\ ~radio_ok
          \/ mode = "MODE_AUTO" /\ ~mega128_ok

check_failsafe_task ==
  /\ Goto("check_failsafe_task", "test_ppm_task")
  /\ IF Silent THEN servo_set("failsafe", JustReceived) ELSE UNCHANGED servos
  /\ UNCHANGED <<mode, timeVars, radioVars, last_radio_contains_avg_channels, auto_time, linkVars>>

fbw_schedule ==
  \/ test_ppm_task_Frame \/ test_ppm_task_Silent
  \/ check_mega128_values_task_Valid \/ check_mega128_values_task_Nothing
  \/ to_autopilot_from_last_radio \/ send_data_to_autopilot_task_Nothing
  \/ send_data_to_autopilot_task_Reset
  \/ check_failsafe_task

----------------------------------------------------------------------------

FbwInit ==
  /\ fbw_pc = "test_ppm_task"
  /\ mode = "MODE_MANUAL"
  /\ radio_ok = FALSE /\ radio_really_lost = FALSE /\ mega128_ok = FALSE
  /\ time_since_last_ppm = 0 /\ time_since_last_mega128 = 0
  /\ ppm_pulses = NoFrame
  /\ last_radio = Neutral
  /\ avg_cpt = 0 /\ avg_last_radio = 0
  /\ last_radio_contains_avg_channels = FALSE
  /\ servos = [by |-> "midpoint", age |-> 0, latest |-> TRUE]
  /\ auto_time = 0

FbwType ==
  /\ fbw_pc \in {"test_ppm_task", "check_mega128_values_task", "send_data_to_autopilot_task",
                 "spi_reset", "check_failsafe_task"}
  /\ mode \in {"MODE_MANUAL", "MODE_AUTO"}
  /\ radio_ok \in BOOLEAN /\ radio_really_lost \in BOOLEAN /\ mega128_ok \in BOOLEAN
  /\ time_since_last_ppm \in 0..REALLY_STALLED_TIME
  /\ time_since_last_mega128 \in 0..STALLED_TIME
  /\ ppm_pulses \in PilotPulses \cup {NoFrame}
  /\ last_radio \in 0..MAX_PULSE
  /\ avg_cpt \in 0..(AVERAGING_PERIOD - 1)
  /\ avg_last_radio \in 0..(avg_cpt * MAX_PULSE)
  /\ last_radio_contains_avg_channels \in BOOLEAN
  /\ servos \in [by : {"midpoint", "failsafe", "radio", "autopilot"}, age : 0..AgeLimit,
                  latest : BOOLEAN]
  /\ auto_time \in 0..STALLED_TIME
  /\ mega128_receive_valid => from_mega128.age \in 0..AgeLimit

=============================================================================
