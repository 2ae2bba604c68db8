----------------------------- MODULE Autopilot -----------------------------
(* The autopilot program of PapaBench (autopilot/main.c, mainloop.c), as    *)
(* far as it decides about pprz_mode, the mode of flight: by the switch of  *)
(* the pilot that the fly-by-wire averages, by the loss of the radio, and   *)
(* by the distance from home.                                               *)
EXTENDS SpiLink

VARIABLES
  ap_pc,               \* the main loop, or in radio_control_task
  pprz_mode

apVars == <<ap_pc, pprz_mode>>

PPRZ_MODE_OF_PULSE(pulse) ==
  CASE pulse > 2 -> "PPRZ_MODE_AUTO2"      \* TRESHOLD2
    [] pulse = 2 -> "PPRZ_MODE_AUTO1"      \* TRESHOLD1 is 1
    [] pulse < 2 -> "PPRZ_MODE_MANUAL"

----------------------------------------------------------------------------

\* periodic_task at 20 Hz.
periodic_task_Link ==
  /\ ap_pc = "main"
  /\ link_fbw_send
  /\ UNCHANGED apVars

\* The main loop sees that a frame has ended.
main_FrameEnded ==
  /\ ap_pc = "main" /\ link_fbw_receive_complete
  /\ ap_pc' = "radio_control_task"
  /\ link_fbw_receive_complete' = FALSE
  /\ UNCHANGED <<pprz_mode, spi_cur_slave, from_fbw, slaveVars, from_mega128>>

\* Fault: the autopilot does not take over from the pilot.
ModeToHome_Auto1(too_far_from_home) ==
  (from_fbw.lost /\ pprz_mode = "PPRZ_MODE_AUTO1") \/ too_far_from_home

\* The distance from home is data: what navigation found last may be either.
ModeToHome(too_far_from_home) ==
  \/ from_fbw.lost /\ pprz_mode \in {"PPRZ_MODE_AUTO1", "PPRZ_MODE_MANUAL"}
  \/ too_far_from_home

\* In home mode pprz_mode_update needs an event of the pilot, rc_event_1, that
\* is data: GAIN1 pushed for EVENT_DELAY messages, and not used by the flight plan.
radio_control_task_Valid ==
  /\ ap_pc = "radio_control_task" /\ link_fbw_receive_valid
  /\ ap_pc' = "main"
  /\ \E too_far_from_home \in BOOLEAN :
       LET home == IF ModeToHome(too_far_from_home) THEN "PPRZ_MODE_HOME" ELSE pprz_mode
       IN  pprz_mode' \in IF ~from_fbw.averaged THEN {home}
                          ELSE {PPRZ_MODE_OF_PULSE(from_fbw.pulse)} \cup ({home} \cap {"PPRZ_MODE_HOME"})
  /\ UNCHANGED linkVars

radio_control_task_Invalid ==
  /\ ap_pc = "radio_control_task" /\ ~link_fbw_receive_valid
  /\ ap_pc' = "main"
  /\ UNCHANGED <<pprz_mode, linkVars>>

radio_control_task == radio_control_task_Valid \/ radio_control_task_Invalid

autopilot_main == periodic_task_Link \/ main_FrameEnded \/ radio_control_task

----------------------------------------------------------------------------

AutopilotInit ==
  /\ ap_pc = "main"
  /\ pprz_mode = "PPRZ_MODE_MANUAL"

AutopilotType ==
  /\ ap_pc \in {"main", "radio_control_task"}
  /\ pprz_mode \in {"PPRZ_MODE_MANUAL", "PPRZ_MODE_AUTO1", "PPRZ_MODE_AUTO2", "PPRZ_MODE_HOME"}

=============================================================================
