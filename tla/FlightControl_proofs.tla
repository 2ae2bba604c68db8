------------------------ MODULE FlightControl_proofs ------------------------
(* Proofs about PapaBench's two processors: types, and what the servos are  *)
(* set to, and how old, whatever the order of tasks, frames and silences.   *)
EXTENDS FlightControl, TLAPS

\* Both limits and the period are positive, and a radio that is lost is silent.
LEMMA Times == /\ STALLED_TIME \in Nat /\ STALLED_TIME >= 1
               /\ REALLY_STALLED_TIME \in Nat /\ REALLY_STALLED_TIME >= STALLED_TIME
               /\ AVERAGING_PERIOD \in Nat /\ AVERAGING_PERIOD >= 1
               /\ MAX_PULSE \in Nat /\ MAX_PULSE >= 2
BY TimesAssumption, RadioAssumption

\* The average of n pulses of at most m is at most m (LastRadioFromPpm).
LEMMA Average ==
  ASSUME NEW s \in Nat, NEW n \in Nat, n >= 1, NEW m \in Nat, s <= n * m
  PROVE  s \div n \in 0..m
<1> DEFINE q == s \div n
<1>1. q \in Int /\ n * q <= s /\ s < n * q + n
  BY SMT
<1>2. q >= 0
  <2>1. CASE q <= -1
    <3>1. n * q <= -n
      BY <2>1, <1>1, SMT
    <3>2. QED BY <3>1, <1>1, SMT
  <2>2. QED BY <2>1, <1>1, SMT
<1>3. q <= m
  <2>1. CASE q >= m + 1
    <3>1. n * q >= n * (m + 1)
      BY <2>1, <1>1, SMT
    <3>2. n * (m + 1) = n * m + n
      BY SMT
    <3>3. QED BY <3>1, <3>2, <1>1, SMT
  <2>2. QED BY <2>1, <1>1, SMT
<1>4. QED BY <1>1, <1>2, <1>3, SMT

----------------------------------------------------------------------------

\* What servos may be.
Servos == [by : {"midpoint", "failsafe", "radio", "autopilot"}, age : 0..AgeLimit,
           latest : BOOLEAN]

LEMMA TypeInit == Init => TypeOK
<1> SUFFICES ASSUME Init PROVE TypeOK
  OBVIOUS
<1> USE Times
<1>1. LinkType
  <2>1. [pulse |-> Neutral, lost |-> FALSE, averaged |-> FALSE] \in Message
    BY DEF Neutral, Message
  <2>2. QED BY <2>1 DEF Init, LinkInit, LinkType
<1>2. FbwType
  <2>1. /\ avg_cpt = 0 /\ avg_last_radio = 0 /\ last_radio = 2
        /\ time_since_last_ppm = 0 /\ time_since_last_mega128 = 0
    BY DEF Init, FbwInit, Neutral
  <2>2. avg_last_radio \in 0..(avg_cpt * MAX_PULSE)
    <3>1. 0 * MAX_PULSE = 0
      BY SMT
    <3>2. QED BY <2>1, <3>1
  <2>3. /\ avg_cpt \in 0..(AVERAGING_PERIOD - 1) /\ last_radio \in 0..MAX_PULSE
        /\ time_since_last_ppm \in 0..REALLY_STALLED_TIME
        /\ time_since_last_mega128 \in 0..STALLED_TIME
    BY <2>1, SMT
  <2>4. servos \in Servos /\ auto_time \in 0..STALLED_TIME
        /\ (mega128_receive_valid => from_mega128.age \in 0..AgeLimit)
    <3>1. servos = [by |-> "midpoint", age |-> 0, latest |-> TRUE] /\ auto_time = 0
          /\ ~mega128_receive_valid
      BY DEF Init, FbwInit, LinkInit, mega128_receive_valid
    <3>2. 0 \in 0..AgeLimit /\ 0 \in 0..STALLED_TIME
      BY SMT DEF AgeLimit
    <3>3. QED BY <3>1, <3>2 DEF Servos
  <2>5. radio_ok \in BOOLEAN /\ radio_really_lost \in BOOLEAN /\ mega128_ok \in BOOLEAN
        /\ last_radio_contains_avg_channels \in BOOLEAN
    BY DEF Init, FbwInit
  <2>6. ppm_pulses = NoFrame /\ mode = "MODE_MANUAL" /\ fbw_pc = "test_ppm_task"
    BY DEF Init, FbwInit
  <2>7. QED BY <2>2, <2>3, <2>4, <2>5, <2>6 DEF FbwType, Servos
<1>3. AutopilotType
  BY DEF Init, AutopilotInit, AutopilotType
<1>4. QED BY <1>1, <1>2, <1>3 DEF TypeOK

\* A step of the link alone keeps its types.
LEMMA FrameType ==
  ASSUME LinkType, NEW mosi \in BOOLEAN, NEW miso \in BOOLEAN, Frame(mosi, miso)
  PROVE  LinkType'
<1> USE DEF LinkType, Frame
<1>1. spi_was_interrupted' \in BOOLEAN /\ link_fbw_receive_complete' \in BOOLEAN
  OBVIOUS
<1>2. from_mega128' \in Received \cup {NoMessage}
  BY DEF Received, JustReceived, Outdated
<1>3. from_fbw' \in Message \cup {NoMessage}
  <2>1. from_fbw' = IF idx_buf = "none" /\ miso THEN to_mega128 ELSE NoMessage
    OBVIOUS
  <2>2. to_mega128 \in Message
    OBVIOUS
  <2>3. QED BY <2>1, <2>2, Zenon
<1>4. idx_buf' \in {"none", "some"}
  OBVIOUS
<1>5. to_mega128' \in Message /\ spi_cur_slave' \in {"SPI_NONE", "SPI_SLAVE0"}
  OBVIOUS
<1>6. QED BY <1>1, <1>2, <1>3, <1>4, <1>5

\* The sum and the average stay in their ranges.
LEMMA AverageType ==
  ASSUME FbwType, ppm_valid, LastRadioFromPpm
  PROVE  /\ last_radio' \in 0..MAX_PULSE
         /\ avg_cpt' \in 0..(AVERAGING_PERIOD - 1)
         /\ avg_last_radio' \in 0..(avg_cpt' * MAX_PULSE)
<1> USE Times
<1>1. ppm_pulses \in 0..MAX_PULSE
  BY RadioAssumption DEF FbwType, ppm_valid
<1>2. avg_cpt \in 0..(AVERAGING_PERIOD - 1) /\ avg_last_radio \in 0..(avg_cpt * MAX_PULSE)
      /\ last_radio \in 0..MAX_PULSE
  BY DEF FbwType
<1>3. (avg_cpt + 1) * MAX_PULSE = avg_cpt * MAX_PULSE + MAX_PULSE
  BY <1>2, SMT
<1>4. avg_last_radio + ppm_pulses \in Nat /\ avg_last_radio + ppm_pulses <= (avg_cpt + 1) * MAX_PULSE
  <2>1. avg_cpt * MAX_PULSE \in Int
    BY <1>2, SMT
  <2>2. QED BY <1>1, <1>2, <1>3, <2>1, SMT
<1>5. CASE avg_cpt + 1 = AVERAGING_PERIOD
  <2>1. (avg_last_radio + ppm_pulses) \div AVERAGING_PERIOD \in 0..MAX_PULSE
    BY <1>4, <1>5, Average
  <2>2. QED BY <2>1, <1>5, SMT DEF LastRadioFromPpm
<1>6. CASE avg_cpt + 1 # AVERAGING_PERIOD
  <2>1. avg_cpt' = avg_cpt + 1 /\ avg_last_radio' = avg_last_radio + ppm_pulses /\ last_radio' = last_radio
    BY <1>6 DEF LastRadioFromPpm
  <2>2. QED BY <2>1, <1>2, <1>4, <1>6, SMT
<1>7. QED BY <1>5, <1>6

\* A clock that counts to its limit stays in its range.
LEMMA TickType ==
  ASSUME NEW limit \in Nat, NEW time \in 0..limit
  PROVE  Tick(time, limit) \in 0..limit
BY DEF Tick

\* A schedule makes the values at the servos and the message waiting older.
LEMMA OlderFacts ==
  ASSUME TypeOK
  PROVE  /\ Older(servos) \in Servos
         /\ Older(servos).by = servos.by /\ Older(servos).latest = servos.latest
         /\ Older(servos).age \in Nat /\ Older(servos).age <= servos.age + 1
         /\ servos.latest => Older(servos).age = Tick(servos.age, AgeLimit)
<1>1. servos \in Servos /\ AgeLimit \in Nat
  BY Times DEF TypeOK, FbwType, Servos, AgeLimit
<1>2. Tick(servos.age, AgeLimit) \in 0..AgeLimit /\ Tick(servos.age, AgeLimit) <= servos.age + 1
  BY <1>1 DEF Servos, Tick
<1>3. QED BY <1>1, <1>2 DEF Older, Servos

LEMMA OlderMessage ==
  ASSUME TypeOK, mega128_receive_valid
  PROVE  /\ Older(from_mega128) \in Received /\ Older(from_mega128).age \in 0..AgeLimit
         /\ Older(from_mega128).latest = from_mega128.latest
         /\ Older(from_mega128).age <= from_mega128.age + 1
<1>1. from_mega128 \in Received /\ from_mega128.age \in 0..AgeLimit /\ AgeLimit \in Nat
  BY Times DEF TypeOK, LinkType, FbwType, AgeLimit, mega128_receive_valid
<1>2. Tick(from_mega128.age, AgeLimit) \in 0..AgeLimit
      /\ Tick(from_mega128.age, AgeLimit) <= from_mega128.age + 1
  BY <1>1 DEF Tick
<1>3. QED BY <1>1, <1>2 DEF Older, Received

LEMMA ScheduleType ==
  ASSUME TypeOK, Schedule
  PROVE  /\ from_mega128' \in Received \cup {NoMessage}
         /\ mega128_receive_valid' => from_mega128'.age \in 0..AgeLimit
         /\ auto_time' \in 0..STALLED_TIME
<1>1. auto_time' \in 0..STALLED_TIME
  BY Times, TickType DEF TypeOK, FbwType, Schedule
<1>2. CASE mega128_receive_valid
  BY <1>1, <1>2, OlderMessage DEF Schedule
<1>3. CASE ~mega128_receive_valid
  BY <1>1, <1>3 DEF Schedule, mega128_receive_valid
<1>4. QED BY <1>2, <1>3

LEMMA FbwTypeNext ==
  ASSUME TypeOK, fbw_schedule /\ UNCHANGED apVars
  PROVE  TypeOK'
<1> USE Times DEF TypeOK
<1>0. \A source \in {"radio", "failsafe"} :
        [by |-> source, age |-> JustReceived.age, latest |-> JustReceived.latest] \in Servos
  <2>1. JustReceived.age = 0 /\ JustReceived.latest = TRUE
    BY DEF JustReceived
  <2>2. 0 \in 0..AgeLimit
    BY SMT DEF AgeLimit
  <2>3. QED BY <2>1, <2>2 DEF Servos
<1>1. AutopilotType'
  BY DEF AutopilotType, apVars
<1>2. CASE test_ppm_task_Frame
  <2>1. LinkType'
    BY <1>2, ScheduleType DEF test_ppm_task_Frame, masterVars, slaveVars, LinkType
  <2>2. /\ time_since_last_mega128' \in 0..STALLED_TIME
        /\ time_since_last_ppm' \in 0..REALLY_STALLED_TIME
    BY <1>2, TickType DEF test_ppm_task_Frame, FbwType
  <2>3. /\ last_radio' \in 0..MAX_PULSE
        /\ avg_cpt' \in 0..(AVERAGING_PERIOD - 1)
        /\ avg_last_radio' \in 0..(avg_cpt' * MAX_PULSE)
    BY <1>2, AverageType DEF test_ppm_task_Frame
  <2>4. /\ ppm_pulses' \in PilotPulses \cup {NoFrame}
        /\ fbw_pc' = "check_mega128_values_task"
        /\ radio_ok' = TRUE /\ radio_really_lost' = FALSE /\ mega128_ok' = mega128_ok
    BY <1>2 DEF test_ppm_task_Frame, Goto
  <2>5. last_radio_contains_avg_channels' \in BOOLEAN
    BY <1>2 DEF test_ppm_task_Frame, LastRadioFromPpm, FbwType
  <2>6. mode' \in {"MODE_MANUAL", "MODE_AUTO"}
    BY <1>2 DEF test_ppm_task_Frame, MODE_OF_PPRZ, FbwType
  <2>7. servos' \in Servos
    BY <1>0, <1>2, OlderFacts DEF test_ppm_task_Frame, servo_set
  <2>8. QED BY <1>1, <1>2, <2>1, <2>2, <2>3, <2>4, <2>5, <2>6, <2>7, ScheduleType
            DEF FbwType, Servos, test_ppm_task_Frame
<1>3. CASE test_ppm_task_Silent
  <2>1. LinkType'
    BY <1>3, ScheduleType DEF test_ppm_task_Silent, masterVars, slaveVars, LinkType
  <2>2. /\ time_since_last_mega128' \in 0..STALLED_TIME
        /\ time_since_last_ppm' \in 0..REALLY_STALLED_TIME
    BY <1>3, TickType DEF test_ppm_task_Silent, FbwType
  <2>3. radio_ok' \in BOOLEAN /\ radio_really_lost' \in BOOLEAN
    BY <1>3, Zenon DEF test_ppm_task_Silent
  <2>4. servos' \in Servos
    BY <1>3, OlderFacts DEF test_ppm_task_Silent
  <2>5. mode' \in {"MODE_MANUAL", "MODE_AUTO"} /\ fbw_pc' = "check_mega128_values_task"
    BY <1>3 DEF test_ppm_task_Silent, Goto, FbwType
  <2>6. UNCHANGED <<mega128_ok, radioVars, last_radio_contains_avg_channels>>
    BY <1>3 DEF test_ppm_task_Silent
  <2>7. QED BY <1>1, <1>3, <2>1, <2>2, <2>3, <2>4, <2>5, <2>6, ScheduleType
            DEF FbwType, Servos, radioVars, test_ppm_task_Silent
<1>4. CASE check_mega128_values_task_Valid
  <2>1. LinkType'
    BY <1>4 DEF check_mega128_values_task_Valid, linkVars, masterVars, slaveVars, LinkType
  <2>2. FbwType'
    <3>1. servos' \in Servos
      <4>1. from_mega128 \in Received /\ from_mega128.age \in 0..AgeLimit /\ servos \in Servos
        BY <1>4 DEF check_mega128_values_task_Valid, LinkType, FbwType, Servos, mega128_receive_valid
      <4>2. QED BY <1>4, <4>1 DEF check_mega128_values_task_Valid, servo_set, Servos, Received
    <3>2. mega128_receive_valid' = mega128_receive_valid /\ from_mega128' = from_mega128
      BY <1>4 DEF check_mega128_values_task_Valid, linkVars, mega128_receive_valid
    <3>3. QED BY <1>4, <3>1, <3>2 DEF check_mega128_values_task_Valid, Goto, FbwType, Servos, radioVars
  <2>3. QED BY <1>1, <2>1, <2>2
<1>5. CASE check_mega128_values_task_Nothing
  <2>1. LinkType'
    BY <1>5 DEF check_mega128_values_task_Nothing, linkVars, masterVars, slaveVars, LinkType
  <2>2. mega128_ok' \in BOOLEAN
    BY <1>5, Zenon DEF check_mega128_values_task_Nothing
  <2>3. FbwType'
    BY <1>5, <2>2 DEF check_mega128_values_task_Nothing, Goto, FbwType, radioVars, linkVars,
                      mega128_receive_valid
  <2>4. QED BY <1>1, <2>1, <2>3
<1>6. CASE to_autopilot_from_last_radio
  <2>1. LinkType'
    BY <1>6 DEF to_autopilot_from_last_radio, masterVars, LinkType, Message, FbwType
  <2>2. FbwType'
    BY <1>6 DEF to_autopilot_from_last_radio, Goto, FbwType, radioVars, timeVars,
                mega128_receive_valid
  <2>3. QED BY <1>1, <2>1, <2>2
<1>7. CASE send_data_to_autopilot_task_Nothing
  <2>1. LinkType'
    BY <1>7 DEF send_data_to_autopilot_task_Nothing, linkVars, masterVars, slaveVars, LinkType
  <2>2. FbwType'
    BY <1>7 DEF send_data_to_autopilot_task_Nothing, Goto, FbwType, radioVars, timeVars, linkVars,
                mega128_receive_valid
  <2>3. QED BY <1>1, <2>1, <2>2
<1>8. CASE send_data_to_autopilot_task_Reset
  <2>1. LinkType'
    BY <1>8 DEF send_data_to_autopilot_task_Reset, spi_reset, masterVars, LinkType
  <2>2. FbwType'
    BY <1>8 DEF send_data_to_autopilot_task_Reset, spi_reset, Goto, FbwType, radioVars, timeVars,
                mega128_receive_valid
  <2>3. QED BY <1>1, <2>1, <2>2
<1>9. CASE check_failsafe_task
  <2>1. LinkType'
    BY <1>9 DEF check_failsafe_task, linkVars, masterVars, slaveVars, LinkType
  <2>2. FbwType'
    <3>1. servos' \in Servos
      BY <1>0, <1>9 DEF check_failsafe_task, servo_set, FbwType, Servos
    <3>2. QED BY <1>9, <3>1 DEF check_failsafe_task, Goto, FbwType, Servos, radioVars, timeVars,
                                linkVars, mega128_receive_valid
  <2>3. QED BY <1>1, <2>1, <2>2
<1>10. QED BY <1>2, <1>3, <1>4, <1>5, <1>6, <1>7, <1>8, <1>9 DEF fbw_schedule

LEMMA AutopilotTypeNext ==
  ASSUME TypeOK, autopilot_main /\ UNCHANGED fbwVars
  PROVE  TypeOK'
<1> USE DEF TypeOK
<1>1. from_mega128' = from_mega128 => FbwType'
  BY DEF FbwType, fbwVars, timeVars, radioVars, mega128_receive_valid
<1>2. CASE periodic_task_Link
  BY <1>1, <1>2 DEF periodic_task_Link, link_fbw_send, LinkType, AutopilotType, slaveVars, apVars
<1>3. CASE main_FrameEnded
  BY <1>1, <1>3 DEF main_FrameEnded, LinkType, AutopilotType, slaveVars
<1>4. CASE radio_control_task_Valid
  <2>1. LinkType'
    BY <1>4 DEF radio_control_task_Valid, LinkType, linkVars, masterVars, slaveVars
  <2>2. PPRZ_MODE_OF_PULSE(from_fbw.pulse) \in {"PPRZ_MODE_MANUAL", "PPRZ_MODE_AUTO1", "PPRZ_MODE_AUTO2"}
    <3>1. from_fbw.pulse \in Int
      BY <1>4, Times DEF radio_control_task_Valid, link_fbw_receive_valid, LinkType, Message
    <3>2. QED BY <3>1 DEF PPRZ_MODE_OF_PULSE
  <2>3. pprz_mode' \in {"PPRZ_MODE_MANUAL", "PPRZ_MODE_AUTO1", "PPRZ_MODE_AUTO2", "PPRZ_MODE_HOME"}
    BY <1>4, <2>2 DEF radio_control_task_Valid, AutopilotType
  <2>4. QED BY <1>1, <1>4, <2>1, <2>3 DEF radio_control_task_Valid, AutopilotType, linkVars
<1>5. CASE radio_control_task_Invalid
  BY <1>1, <1>5 DEF radio_control_task_Invalid, LinkType, AutopilotType, linkVars, masterVars, slaveVars
<1>6. QED BY <1>2, <1>3, <1>4, <1>5 DEF autopilot_main, radio_control_task

LEMMA TypeNext == TypeOK /\ [Next]_vars => TypeOK'
<1> SUFFICES ASSUME TypeOK, [Next]_vars PROVE TypeOK'
  OBVIOUS
<1>1. CASE Radio
  BY <1>1 DEF Radio, SIG_INPUT_CAPTURE1, TypeOK, LinkType, FbwType, AutopilotType, linkVars,
              masterVars, slaveVars, apVars, timeVars, mega128_receive_valid
<1>2. CASE Transfer
  <2>1. LinkType'
    BY <1>2, FrameType DEF Transfer, TypeOK
  <2>2. mega128_receive_valid' => from_mega128'.age \in 0..AgeLimit
    BY <1>2, Times DEF Transfer, Frame, JustReceived, Outdated, AgeLimit, TypeOK, FbwType,
                       mega128_receive_valid
  <2>3. FbwType' /\ AutopilotType'
    BY <1>2, <2>2 DEF Transfer, TypeOK, FbwType, AutopilotType, fbwVars, timeVars, radioVars, apVars
  <2>4. QED BY <2>1, <2>3 DEF TypeOK
<1>3. CASE UNCHANGED vars
  BY <1>3 DEF TypeOK, LinkType, FbwType, AutopilotType, vars, linkVars, masterVars, slaveVars,
              fbwVars, timeVars, radioVars, apVars, mega128_receive_valid
<1>4. QED BY <1>1, <1>2, <1>3, FbwTypeNext, AutopilotTypeNext DEF Next

----------------------------------------------------------------------------

(* A source counts as heard only while its clock runs, and the radio as     *)
(* lost only after it counted as silent.                                    *)
ClockInv ==
  /\ radio_ok => time_since_last_ppm < STALLED_TIME
  /\ radio_really_lost => ~radio_ok /\ time_since_last_ppm = REALLY_STALLED_TIME
  /\ mega128_ok /\ fbw_pc # "check_mega128_values_task" => time_since_last_mega128 < STALLED_TIME

(* In manual mode the radio, while it is heard, set the servos last, and    *)
(* whoever is in control and silent does not hold them between schedules.   *)
ControlInv ==
  /\ mode = "MODE_MANUAL" /\ radio_ok => servos.by = "radio"
  /\ Scheduled /\ Silent /\ servos.by # "midpoint" => servos.by = "failsafe"

(* How old the values are, by the clock of the source they came from; those *)
(* the radio left behind in automatic mode were younger than a time-out     *)
(* when the switch turned, and age with the clock of the autopilot.         *)
AgeInv ==
  /\ mode = "MODE_MANUAL" => servos.by # "autopilot"
  /\ mode = "MODE_MANUAL" /\ servos.by = "radio" => servos.age <= time_since_last_ppm
  /\ mode = "MODE_AUTO" /\ servos.by = "autopilot" /\ servos.latest =>
       servos.age <= time_since_last_mega128 + 1
  /\ mode = "MODE_AUTO" /\ servos.by = "radio" =>
       servos.age <= STALLED_TIME - 1 + time_since_last_mega128

(* The message of the latest frame, when no other has started, is one the   *)
(* fly-by-wire has not taken note of, and at most one schedule began since. *)
MessageInv ==
  /\ mega128_receive_valid => idx_buf = "some"
  /\ mega128_receive_valid /\ from_mega128.latest /\ ~SpiIsSelected =>
       /\ fbw_pc # "spi_reset" => spi_was_interrupted
       /\ from_mega128.age <= IF fbw_pc \in {"check_failsafe_task", "test_ppm_task"} THEN 0 ELSE 1

(* What others than the autopilot left at the servos is older than the      *)
(* automatic mode, while the autopilot counts as heard.                     *)
HandoverInv ==
  /\ servos.by # "autopilot" => servos.latest
  /\ mode = "MODE_AUTO" /\ mega128_ok /\ servos.by # "autopilot" =>
       auto_time < servos.age /\ auto_time < time_since_last_mega128

FbwInv == ClockInv /\ ControlInv /\ AgeInv /\ MessageInv /\ HandoverInv

IInv == TypeOK /\ FbwInv

LEMMA IInvInit == Init => IInv
<1> SUFFICES ASSUME Init PROVE IInv
  OBVIOUS
<1> USE DEF Init, FbwInit
<1>1. ClockInv
  BY DEF ClockInv
<1>2. ControlInv /\ AgeInv /\ HandoverInv
  BY DEF ControlInv, AgeInv, HandoverInv
<1>3. MessageInv
  BY DEF MessageInv, LinkInit, mega128_receive_valid
<1>4. QED BY TypeInit, <1>1, <1>2, <1>3 DEF IInv, FbwInv

\* What the invariants say of the fly-by-wire's variables.
LEMMA FbwFacts ==
  ASSUME TypeOK
  PROVE  /\ time_since_last_ppm \in 0..REALLY_STALLED_TIME
         /\ time_since_last_mega128 \in 0..STALLED_TIME
         /\ mode \in {"MODE_MANUAL", "MODE_AUTO"}
         /\ servos.age \in 0..(2 * STALLED_TIME)
         /\ servos.by \in {"midpoint", "failsafe", "radio", "autopilot"}
         /\ servos.latest \in BOOLEAN
         /\ auto_time \in 0..STALLED_TIME
         /\ radio_ok \in BOOLEAN /\ radio_really_lost \in BOOLEAN /\ mega128_ok \in BOOLEAN
BY DEF TypeOK, FbwType, AgeLimit

\* The message waiting grows older by a schedule, which only the next check sees.
LEMMA ScheduleKeepsMessage ==
  ASSUME IInv, Schedule, Goto("test_ppm_task", "check_mega128_values_task"),
         UNCHANGED <<masterVars, slaveVars>>
  PROVE  MessageInv'
<1> USE DEF IInv, FbwInv, Goto, masterVars, slaveVars
<1>1. CASE ~mega128_receive_valid
  BY <1>1 DEF MessageInv, Schedule, mega128_receive_valid
<1>2. CASE mega128_receive_valid
  <2>1. /\ from_mega128'.latest = from_mega128.latest
        /\ from_mega128'.age \in Nat /\ from_mega128'.age <= from_mega128.age + 1
        /\ from_mega128.age \in Nat
    BY <1>2, OlderMessage DEF Schedule, Received, TypeOK, LinkType, mega128_receive_valid
  <2>2. QED BY <1>2, <2>1 DEF MessageInv, SpiIsSelected
<1>3. QED BY <1>1, <1>2

\* The clock of the mode stays behind those of the servos and of the autopilot.
LEMMA ScheduleKeepsHandover ==
  ASSUME IInv, Schedule, Scheduled, mega128_ok' = mega128_ok,
         time_since_last_mega128' = Tick(time_since_last_mega128, STALLED_TIME),
         servos' = Older(servos)
  PROVE  HandoverInv'
<1> USE Times, FbwFacts, OlderFacts DEF IInv, FbwInv
<1>1. servos'.by # "autopilot" => servos'.latest
  BY DEF HandoverInv
<1>2. SUFFICES ASSUME mode' = "MODE_AUTO", mega128_ok, servos.by # "autopilot"
               PROVE  auto_time' < servos'.age /\ auto_time' < time_since_last_mega128'
  BY <1>1 DEF HandoverInv
<1>3. servos'.age = Tick(servos.age, 2 * STALLED_TIME)
  BY <1>2 DEF HandoverInv, AgeLimit
<1>4. CASE mode = "MODE_AUTO"
  <2>1. auto_time' = Tick(auto_time, STALLED_TIME)
    BY <1>2, <1>4 DEF Schedule
  <2>2. auto_time < servos.age /\ auto_time < time_since_last_mega128
    BY <1>2, <1>4 DEF HandoverInv
  <2>3. time_since_last_mega128' = time_since_last_mega128 + 1
    BY <1>2 DEF ClockInv, Scheduled, Tick
  <2>4. QED BY <1>3, <2>1, <2>2, <2>3 DEF Tick
<1>5. CASE mode # "MODE_AUTO"
  BY <1>3, <1>5 DEF Schedule, Tick
<1>6. QED BY <1>4, <1>5

LEMMA FrameKeepsInv ==
  ASSUME IInv, test_ppm_task_Frame
  PROVE  FbwInv'
<1> USE Times, FbwFacts DEF IInv, FbwInv
<1>1. /\ Scheduled /\ fbw_pc' = "check_mega128_values_task"
      /\ radio_ok' = TRUE /\ radio_really_lost' = FALSE /\ mega128_ok' = mega128_ok
      /\ time_since_last_ppm' = 0
      /\ time_since_last_mega128' = Tick(time_since_last_mega128, STALLED_TIME)
  BY DEF test_ppm_task_Frame, Goto, Scheduled
<1>2. ClockInv'
  BY <1>1 DEF ClockInv
<1>3. mode' \in {"MODE_MANUAL", "MODE_AUTO"}
  BY DEF test_ppm_task_Frame, MODE_OF_PPRZ
<1>4. MessageInv'
  BY ScheduleKeepsMessage DEF test_ppm_task_Frame
<1>5. CASE mode' = "MODE_MANUAL"
  <2>1. servos' = [by |-> "radio", age |-> 0, latest |-> TRUE]
    BY <1>5 DEF test_ppm_task_Frame, servo_set, JustReceived
  <2>2. ControlInv'
    BY <1>1, <1>5, <2>1 DEF ControlInv, Scheduled
  <2>3. AgeInv' /\ HandoverInv'
    BY <1>1, <1>5, <2>1 DEF AgeInv, HandoverInv
  <2>4. QED BY <1>2, <1>4, <2>2, <2>3
<1>6. CASE mode' = "MODE_AUTO"
  <2>1. servos' = Older(servos)
    BY <1>6 DEF test_ppm_task_Frame
  <2>2. ControlInv'
    BY <1>1, <1>6 DEF ControlInv, Scheduled
  <2>3. /\ time_since_last_mega128' >= 1
        /\ time_since_last_mega128 < STALLED_TIME => time_since_last_mega128' = time_since_last_mega128 + 1
    BY <1>1 DEF Tick
  <2>4. servos'.by = "autopilot" /\ servos'.latest => servos'.age <= time_since_last_mega128' + 1
    <3>1. servos.by = "autopilot" => mode = "MODE_AUTO" /\ mega128_ok
      BY <1>1 DEF AgeInv, ControlInv, Silent
    <3>2. mega128_ok => time_since_last_mega128' = time_since_last_mega128 + 1
      BY <1>1, <2>3 DEF ClockInv, Scheduled
    <3>3. servos.by = "autopilot" /\ servos.latest => servos.age <= time_since_last_mega128 + 1
      BY <3>1 DEF AgeInv
    <3>4. /\ Older(servos).by = servos.by /\ Older(servos).latest = servos.latest
          /\ Older(servos).age \in Nat /\ Older(servos).age <= servos.age + 1
      BY OlderFacts
    <3>5. QED BY <2>1, <3>1, <3>2, <3>3, <3>4
  <2>5. servos'.by = "radio" => servos'.age <= STALLED_TIME - 1 + time_since_last_mega128'
    <3>1. CASE mode = "MODE_MANUAL" /\ servos.by = "radio"
      <4>1. radio_ok
        BY <1>1, <3>1 DEF ControlInv, Silent
      <4>2. servos.age <= STALLED_TIME - 1
        BY <3>1, <4>1 DEF AgeInv, ClockInv
      <4>3. QED BY <2>1, <2>3, <4>2, <1>1, OlderFacts DEF Tick
    <3>2. CASE mode = "MODE_AUTO" /\ servos.by = "radio"
      <4>1. mega128_ok
        BY <1>1, <3>2 DEF ControlInv, Silent
      <4>2. time_since_last_mega128' = time_since_last_mega128 + 1
        BY <1>1, <2>3, <4>1 DEF ClockInv, Scheduled
      <4>3. QED BY <2>1, <3>2, <4>2, OlderFacts DEF AgeInv
    <3>3. QED BY <2>1, <3>1, <3>2, OlderFacts
  <2>6. AgeInv'
    BY <1>6, <2>4, <2>5 DEF AgeInv
  <2>7. HandoverInv'
    BY <1>1, <2>1, ScheduleKeepsHandover DEF test_ppm_task_Frame
  <2>8. QED BY <1>2, <1>4, <2>2, <2>6, <2>7
<1>7. QED BY <1>3, <1>5, <1>6

LEMMA SilenceKeepsInv ==
  ASSUME IInv, test_ppm_task_Silent
  PROVE  FbwInv'
<1> USE Times, FbwFacts DEF IInv, FbwInv
<1>1. /\ Scheduled /\ fbw_pc' = "check_mega128_values_task"
      /\ mega128_ok' = mega128_ok
      /\ time_since_last_ppm' = Tick(time_since_last_ppm, REALLY_STALLED_TIME)
      /\ time_since_last_mega128' = Tick(time_since_last_mega128, STALLED_TIME)
      /\ servos' = Older(servos)
      /\ mode' = IF radio_really_lost THEN "MODE_AUTO" ELSE mode
  BY DEF test_ppm_task_Silent, Goto, Scheduled
<1>2. /\ radio_ok' <=> radio_ok /\ time_since_last_ppm' < STALLED_TIME
      /\ radio_really_lost' <=> radio_really_lost \/ time_since_last_ppm' >= REALLY_STALLED_TIME
  BY DEF test_ppm_task_Silent
<1>3. ClockInv'
  BY <1>1, <1>2 DEF ClockInv, Tick
<1>4. ControlInv'
  BY <1>1, <1>2, OlderFacts DEF ControlInv, Scheduled
<1>5. MessageInv' /\ HandoverInv'
  BY <1>1, ScheduleKeepsMessage, ScheduleKeepsHandover DEF test_ppm_task_Silent
<1>6. servos.by = "radio" /\ mode = "MODE_MANUAL" => radio_ok
  BY <1>1 DEF ControlInv, Silent
<1>7. servos.by \in {"radio", "autopilot"} /\ mode = "MODE_AUTO" => mega128_ok
  BY <1>1 DEF ControlInv, Silent
<1>8. radio_ok => time_since_last_ppm' = time_since_last_ppm + 1 /\ ~radio_really_lost
  BY <1>1 DEF ClockInv, Tick
<1>9. mega128_ok => time_since_last_mega128' = time_since_last_mega128 + 1
  BY <1>1 DEF ClockInv, Tick, Scheduled
<1>10. CASE mode' = "MODE_MANUAL"
  <2>1. mode = "MODE_MANUAL"
    BY <1>1, <1>10
  <2>2. AgeInv'
    BY <1>1, <1>6, <1>8, <1>10, <2>1, OlderFacts DEF AgeInv
  <2>3. QED BY <1>3, <1>4, <1>5, <2>2
<1>11. CASE mode = "MODE_AUTO"
  <2>1. AgeInv'
    BY <1>1, <1>7, <1>9, <1>11, OlderFacts DEF AgeInv
  <2>2. QED BY <1>3, <1>4, <1>5, <2>1
<1>12. CASE mode = "MODE_MANUAL" /\ mode' = "MODE_AUTO"
  <2>1. servos'.by \notin {"radio", "autopilot"}
    BY <1>1, <1>6, <1>8, <1>12, OlderFacts DEF AgeInv
  <2>2. QED BY <1>3, <1>4, <1>5, <1>12, <2>1 DEF AgeInv
<1>13. QED BY <1>1, <1>10, <1>11, <1>12

\* The message is set at most one schedule after its frame, if it is the latest.
LEMMA ValidKeepsInv ==
  ASSUME IInv, check_mega128_values_task_Valid
  PROVE  FbwInv'
<1> USE Times, FbwFacts DEF IInv, FbwInv
<1>1. /\ fbw_pc = "check_mega128_values_task" /\ fbw_pc' = "send_data_to_autopilot_task"
      /\ time_since_last_mega128' = 0
      /\ UNCHANGED <<mode, radio_ok, radio_really_lost, time_since_last_ppm, linkVars>>
      /\ FrameWaits /\ mega128_receive_valid
      /\ mode = "MODE_AUTO" => servos' = [by |-> "autopilot", age |-> from_mega128.age,
                                           latest |-> from_mega128.latest]
      /\ mode = "MODE_MANUAL" => servos' = servos
  BY DEF check_mega128_values_task_Valid, Goto, servo_set
<1>2. ClockInv' /\ ControlInv'
  BY <1>1 DEF ClockInv, ControlInv, Scheduled
<1>3. from_mega128.latest => from_mega128.age <= 1
  BY <1>1 DEF MessageInv, FrameWaits
<1>4. AgeInv'
  BY <1>1, <1>3 DEF AgeInv
<1>5. MessageInv'
  BY <1>1 DEF MessageInv, linkVars, masterVars, slaveVars, SpiIsSelected, mega128_receive_valid
<1>6. HandoverInv'
  BY <1>1 DEF HandoverInv
<1>7. QED BY <1>2, <1>4, <1>5, <1>6

LEMMA TasksKeepInv ==
  ASSUME IInv, fbw_schedule
  PROVE  FbwInv'
<1> USE Times, FbwFacts DEF IInv, FbwInv
<1>1. CASE check_mega128_values_task_Nothing
  <2>1. /\ fbw_pc = "check_mega128_values_task" /\ fbw_pc' = "send_data_to_autopilot_task"
        /\ mega128_ok' <=> mega128_ok /\ time_since_last_mega128 # STALLED_TIME
        /\ UNCHANGED <<mode, radio_ok, radio_really_lost, time_since_last_ppm,
                       time_since_last_mega128, servos, auto_time, linkVars>>
    BY <1>1 DEF check_mega128_values_task_Nothing, Goto
  <2>2. ClockInv'
    BY <2>1 DEF ClockInv
  <2>3. ControlInv' /\ AgeInv' /\ HandoverInv'
    BY <2>1 DEF ControlInv, AgeInv, HandoverInv, Scheduled
  <2>4. MessageInv'
    BY <2>1 DEF MessageInv, linkVars, masterVars, slaveVars, SpiIsSelected, mega128_receive_valid
  <2>5. QED BY <2>2, <2>3, <2>4
<1>2. CASE to_autopilot_from_last_radio \/ send_data_to_autopilot_task_Nothing
           \/ send_data_to_autopilot_task_Reset
  <2>1. /\ fbw_pc # "check_mega128_values_task"
        /\ fbw_pc' \in {"spi_reset", "check_failsafe_task"}
        /\ UNCHANGED <<mode, timeVars, servos, auto_time>>
    BY <1>2 DEF to_autopilot_from_last_radio, send_data_to_autopilot_task_Nothing,
                send_data_to_autopilot_task_Reset, Goto
  <2>2. ClockInv' /\ ControlInv' /\ AgeInv' /\ HandoverInv'
    BY <2>1 DEF ClockInv, ControlInv, AgeInv, HandoverInv, Scheduled, timeVars
  <2>3. MessageInv'
    <3>1. CASE to_autopilot_from_last_radio
      BY <3>1 DEF to_autopilot_from_last_radio, Goto, MessageInv, masterVars, SpiIsSelected,
                  mega128_receive_valid
    <3>2. CASE send_data_to_autopilot_task_Nothing
      BY <3>2 DEF send_data_to_autopilot_task_Nothing, Goto, MessageInv, FrameWaits, linkVars,
                  masterVars, slaveVars, SpiIsSelected, mega128_receive_valid
    <3>3. CASE send_data_to_autopilot_task_Reset
      BY <3>3 DEF send_data_to_autopilot_task_Reset, spi_reset, MessageInv, mega128_receive_valid
    <3>4. QED BY <1>2, <3>1, <3>2, <3>3
  <2>4. QED BY <2>2, <2>3
<1>3. CASE check_failsafe_task
  <2>1. /\ fbw_pc = "check_failsafe_task" /\ fbw_pc' = "test_ppm_task"
        /\ UNCHANGED <<mode, timeVars, auto_time, linkVars>>
        /\ Silent => servos' = [by |-> "failsafe", age |-> 0, latest |-> TRUE]
        /\ ~Silent => servos' = servos
    BY <1>3 DEF check_failsafe_task, Goto, servo_set, JustReceived
  <2>2. ClockInv'
    BY <2>1 DEF ClockInv, timeVars
  <2>3. ControlInv'
    BY <2>1 DEF ControlInv, Silent, timeVars
  <2>4. AgeInv' /\ HandoverInv'
    BY <2>1 DEF AgeInv, HandoverInv, Silent, timeVars
  <2>5. MessageInv'
    BY <2>1 DEF MessageInv, linkVars, masterVars, slaveVars, SpiIsSelected, mega128_receive_valid
  <2>6. QED BY <2>2, <2>3, <2>4, <2>5
<1>4. QED BY <1>1, <1>2, <1>3, FrameKeepsInv, SilenceKeepsInv, ValidKeepsInv DEF fbw_schedule

\* Steps of the link and of the autopilot.
LEMMA LinkKeepsMessage ==
  ASSUME IInv, fbw_pc' = fbw_pc,
         Transfer \/ periodic_task_Link
         \/ UNCHANGED <<spi_cur_slave, idx_buf, spi_was_interrupted, from_mega128>>
  PROVE  MessageInv'
<1> USE DEF IInv, FbwInv
<1>1. CASE Transfer
  <2>1. spi_was_interrupted' /\ idx_buf' = "some"
    BY <1>1 DEF Transfer, Frame
  <2>2. from_mega128' \in {JustReceived, Outdated, NoMessage}
    BY <1>1 DEF Transfer, Frame, MessageInv, mega128_receive_valid
  <2>3. mega128_receive_valid' /\ from_mega128'.latest => from_mega128'.age = 0
    BY <2>2 DEF JustReceived, Outdated, mega128_receive_valid
  <2>4. QED BY <2>1, <2>3 DEF MessageInv
<1>2. CASE periodic_task_Link
  BY <1>2 DEF periodic_task_Link, link_fbw_send, slaveVars, MessageInv, SpiIsSelected,
              mega128_receive_valid
<1>3. CASE UNCHANGED <<spi_cur_slave, idx_buf, spi_was_interrupted, from_mega128>>
  BY <1>3 DEF MessageInv, SpiIsSelected, mega128_receive_valid
<1>4. QED BY <1>1, <1>2, <1>3

LEMMA IInvNext == IInv /\ [Next]_vars => IInv'
<1> SUFFICES ASSUME IInv, [Next]_vars PROVE IInv'
  OBVIOUS
<1>1. TypeOK'
  BY TypeNext DEF IInv
<1>2. CASE fbw_schedule
  BY <1>1, <1>2, TasksKeepInv DEF IInv
<1>3. CASE /\ UNCHANGED <<fbw_pc, mode, timeVars, servos, auto_time>>
           /\ \/ Transfer \/ periodic_task_Link
              \/ UNCHANGED <<spi_cur_slave, idx_buf, spi_was_interrupted, from_mega128>>
  <2>1. ClockInv' /\ ControlInv' /\ AgeInv' /\ HandoverInv'
    BY <1>3 DEF IInv, FbwInv, ClockInv, ControlInv, AgeInv, HandoverInv, Scheduled, Silent, timeVars
  <2>2. MessageInv'
    BY <1>3, LinkKeepsMessage
  <2>3. QED BY <1>1, <2>1, <2>2 DEF IInv, FbwInv
<1>4. CASE Radio \/ Transfer \/ (autopilot_main /\ UNCHANGED fbwVars) \/ UNCHANGED vars
  BY <1>3, <1>4 DEF vars, fbwVars, linkVars, masterVars, slaveVars, Radio, SIG_INPUT_CAPTURE1,
                    Transfer, autopilot_main, main_FrameEnded, radio_control_task,
                    radio_control_task_Valid, radio_control_task_Invalid
<1>5. QED BY <1>2, <1>4 DEF Next

----------------------------------------------------------------------------

\* The invariant that the properties of the servos follow from.
THEOREM Invariant == Spec => []IInv
<1>1. QED BY IInvInit, IInvNext, PTL DEF Spec

\* Every variable has its type (all of link_fbw.c, spi.c, main.c).
THEOREM TypeCorrect == Spec => []TypeOK
<1>1. IInv => TypeOK
  BY DEF IInv
<1>2. QED BY <1>1, Invariant, PTL

\* Between two schedules the servos have what the radio or the fail-safe set, in
\* manual mode, and in automatic mode what the autopilot or the fail-safe set, or,
\* while the autopilot counts as heard, what was there before the mode turned
\* (test_ppm_task, check_mega128_values_task, check_failsafe_task).
THEOREM ControlIsObeyed == Spec => []ServosObeyControl
<1>1. IInv => ServosObeyControl
  BY FbwFacts DEF IInv, FbwInv, ClockInv, ControlInv, HandoverInv, ServosObeyControl, Silent
<1>2. QED BY <1>1, Invariant, PTL

\* Between two schedules no value of the radio is at the servos that was read two
\* time-outs ago, and none of the autopilot's latest frame that is older than one
\* (test_ppm_task, check_mega128_values_task).
THEOREM ServosAreAlwaysFresh == Spec => []ServosAreFresh
<1>1. IInv => ServosAreFresh
  <2> SUFFICES ASSUME IInv, Scheduled, servos.by \in {"radio", "autopilot"}
               PROVE  /\ servos.by = "radio" => servos.age <= 2 * STALLED_TIME - 2
                      /\ servos.by = "autopilot" /\ servos.latest => servos.age <= STALLED_TIME
    BY DEF ServosAreFresh
  <2> USE Times, FbwFacts DEF IInv, FbwInv
  <2>1. ~Silent
    BY DEF ControlInv
  <2>2. CASE mode = "MODE_MANUAL"
    BY <2>1, <2>2 DEF Silent, ClockInv, ControlInv, AgeInv
  <2>3. CASE mode = "MODE_AUTO"
    <3>1. time_since_last_mega128 <= STALLED_TIME - 1
      BY <2>1, <2>3 DEF Silent, ClockInv, Scheduled
    <3>2. QED BY <2>3, <3>1 DEF AgeInv
  <2>4. QED BY <2>2, <2>3
<1>2. QED BY <1>1, Invariant, PTL

=============================================================================
