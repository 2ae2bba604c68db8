--------------------------- MODULE FlightControl ---------------------------
(* PapaBench's two processors, the pilot's radio and the link.  The         *)
(* processors run on clocks of their own, so that their steps and the       *)
(* frames of radio and link interleave in any order.                        *)
EXTENDS FlyByWire, Autopilot

vars == <<linkVars, fbwVars, apVars>>

Init == LinkInit /\ FbwInit /\ AutopilotInit

Radio == \E pulse \in PilotPulses : SIG_INPUT_CAPTURE1(pulse) /\ UNCHANGED <<linkVars, apVars>>
Transfer == \E mosi, miso \in BOOLEAN : Frame(mosi, miso) /\ UNCHANGED <<fbwVars, apVars>>

Next ==
  \/ Radio
  \/ Transfer
  \/ fbw_schedule /\ UNCHANGED apVars
  \/ autopilot_main /\ UNCHANGED fbwVars

Spec == Init /\ [][Next]_vars

\* The processors do not stop: each goes on with its schedule or main loop,
\* and the bytes of a frame follow each other by interrupts.
FairSpec ==
  /\ Spec
  /\ WF_vars(fbw_schedule /\ UNCHANGED apVars)
  /\ WF_vars(periodic_task_Link /\ UNCHANGED fbwVars)
  /\ WF_vars((main_FrameEnded \/ radio_control_task) /\ UNCHANGED fbwVars)
  /\ WF_vars(Transfer)

----------------------------------------------------------------------------

\* Every variable has its type.
TypeOK == LinkType /\ FbwType /\ AutopilotType

\* The fly-by-wire is between two runs of fbw_schedule.
Scheduled == fbw_pc = "test_ppm_task"

\* How old the values at the servos are between two schedules.  Those of the
\* radio are younger than two time-outs, less what the two tasks that see them
\* count: a source that falls silent just as the switch turns to the other, which
\* is silent too, is the worst case.  Those of the autopilot are no older than one
\* time-out if the frame that brought them was the last when they were set
\* (test_ppm_task, check_mega128_values_task, check_failsafe_task).  Nothing is
\* said of others: when frames keep starting between check_mega128_values_task and
\* the second look of send_data_to_autopilot_task, the message is not cleared, the
\* frames are not stored, and as each of them ends the old message is set again.
ServosAreFresh ==
  Scheduled =>
    /\ servos.by = "radio" => servos.age <= 2 * STALLED_TIME - 2
    /\ servos.by = "autopilot" /\ servos.latest => servos.age <= STALLED_TIME

\* Between two schedules the servos are set by the one in control.  In manual
\* mode that is the radio while it is heard.  In automatic mode it is the
\* autopilot: while it is heard, what others set is older than the mode, and no
\* message has come since the mode turned.  check_failsafe_task replaces the one
\* in control when it is silent.  The radio is lost only after it was silent.
ServosObeyControl ==
  Scheduled /\ servos.by # "midpoint" =>
    /\ mode = "MODE_MANUAL" => servos.by = IF radio_ok THEN "radio" ELSE "failsafe"
    /\ mode = "MODE_AUTO" /\ ~mega128_ok => servos.by = "failsafe"
    /\ mode = "MODE_AUTO" /\ mega128_ok /\ servos.by # "autopilot" =>
         auto_time < servos.age /\ auto_time < time_since_last_mega128
    /\ radio_really_lost => ~radio_ok /\ time_since_last_ppm = REALLY_STALLED_TIME

----------------------------------------------------------------------------

MessageHandled == ap_pc = "radio_control_task" /\ link_fbw_receive_valid
AverageHandled == MessageHandled /\ from_fbw.averaged

\* A frame that overlaps no task of the fly-by-wire, waits until both sides
\* have seen the last one, and is not disturbed.
OrderlyFrames ==
  /\ spi_cur_slave' # spi_cur_slave => Scheduled
  /\ SpiIsSelected' /\ ~SpiIsSelected => ~spi_was_interrupted /\ ~link_fbw_receive_complete
  /\ SpiIsSelected /\ ~SpiIsSelected' => Frame(TRUE, TRUE)

\* Whatever frames were cut by spi_reset, disturbed or thrown away, the link
\* works again in both directions once frames are orderly: spi_reset, that runs
\* after each frame the fly-by-wire has seen, brings the sides in step again.
LinkRecovers ==
  <>[][OrderlyFrames]_vars => []<>MessageHandled /\ []<>(time_since_last_mega128 = 0)

\* A radio that stays lost ends with the fly-by-wire in automatic mode and the
\* autopilot in a mode in which it navigates, if messages get through at all.
RadioLossHandled ==
  <>[]radio_really_lost /\ []<>MessageHandled =>
    <>[](mode = "MODE_AUTO" /\ pprz_mode \in {"PPRZ_MODE_AUTO2", "PPRZ_MODE_HOME"})

\* When the pilot holds the switch, both processors come to agree on what it
\* means, though the averages are announced in one message only; but for home
\* mode, and for a pulse of exactly TRESHOLD1.
ModesAgree ==
  \A pulse \in 0..MAX_PULSE \ {TRESHOLD1} :
    <>[](radio_ok /\ last_radio = pulse) /\ []<>AverageHandled =>
      <>[](pprz_mode = "PPRZ_MODE_HOME" \/ (mode = "MODE_MANUAL" <=> pprz_mode = "PPRZ_MODE_MANUAL"))

=============================================================================
