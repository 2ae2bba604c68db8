---------------------------- MODULE UnitControl ----------------------------
(***************************************************************************)
(* What the control of the sensor units promises the ground: the main      *)
(* states of measure.h (off, on, self test, acquisition), the way between  *)
(* off and on, and the power that goes with them.  A unit that is switched *)
(* on gets on, and a self test ends with the unit on, unless it is         *)
(* switched off.                                                           *)
(***************************************************************************)
EXTENDS Integers

CONSTANT Units

VARIABLES
  unit,          \* the state of each unit
  power,         \* the units that are powered
  mode

vars == <<unit, power, mode>>

Set(u, state) == unit' = [unit EXCEPT ![u] = state]
Moves(u, from, to) == unit[u] = from /\ Set(u, to) /\ UNCHANGED <<power, mode>>

PowerOn(u) ==
  /\ mode # "ACQUISITION" /\ unit[u] = "off"
  /\ Set(u, "switching") /\ power' = power \cup {u}
  /\ UNCHANGED mode

\* By telecommand, or for a failure.
PowerOff(u) ==
  /\ Set(u, "off") /\ power' = power \ {u}
  /\ UNCHANGED mode

SwitchedOn(u) == Moves(u, "switching", "on")

\* One self test at a time.
StartTest(u) ==
  /\ mode # "ACQUISITION" /\ \A v \in Units : unit[v] # "test"
  /\ Moves(u, "on", "test")
EndTest(u) == Moves(u, "test", "on")

All(from, to) ==
  /\ unit' = [u \in Units |-> IF unit[u] = from THEN to ELSE unit[u]]
  /\ UNCHANGED power
StartAcquisition ==
  /\ mode = "STAND_BY" /\ \A u \in Units : unit[u] # "switching"
  /\ All("on", "acquisition") /\ mode' = "ACQUISITION"
StopAcquisition ==
  /\ mode = "ACQUISITION"
  /\ All("acquisition", "on") /\ mode' = "STAND_BY"

EnterStandBy == mode = "DPU_SELF_TEST" /\ mode' = "STAND_BY" /\ UNCHANGED <<unit, power>>

Init  == unit = [u \in Units |-> "off"] /\ power = {} /\ mode = "DPU_SELF_TEST"
Reset == unit' = [u \in Units |-> "off"] /\ power' = {} /\ mode' = "DPU_SELF_TEST"

Next ==
  \/ \E u \in Units :
       PowerOn(u) \/ PowerOff(u) \/ SwitchedOn(u) \/ StartTest(u) \/ EndTest(u)
  \/ StartAcquisition \/ StopAcquisition \/ EnterStandBy \/ Reset

Fairness == \A u \in Units : WF_vars(SwitchedOn(u)) /\ WF_vars(EndTest(u))

\* What never happens, and with it what must happen.
Safety == Init /\ [][Next]_vars
Spec   == Safety /\ Fairness

=============================================================================
