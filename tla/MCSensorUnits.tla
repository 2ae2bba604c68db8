--------------------------- MODULE MCSensorUnits ---------------------------
(* SensorUnits for TLC, and its refinement of UnitControl. *)
EXTENDS SensorUnits

\* The two kinds of tests of the five channels, each done once.
TwoChannels == <<"PLASMA_1_PLUS", "PLASMA_1_MINUS">>

----------------------------------------------------------------------------

MainState(state) ==
  CASE state = "off_e"         -> "off"
    [] state \in Switching     -> "switching"
    [] state = "on_e"          -> "on"
    [] state \in InTest        -> "test"
    [] state = "acquisition_e" -> "acquisition"
MainStates == [s \in SU |-> MainState(SU_state[s])]

Control == INSTANCE UnitControl WITH
  Units <- SU,
  unit  <- MainStates,
  power <- SU_ctrl_register

\* With telecommands between the rounds, the units are controlled the way
\* UnitControl promises: no unit is on, tested or in acquisition without
\* power, one is tested at a time, and what is started comes to its end.
ImplementsUnitControl == Control!Spec

=============================================================================
