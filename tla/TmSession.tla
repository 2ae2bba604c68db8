----------------------------- MODULE TmSession -----------------------------
(***************************************************************************)
(* What the telemetry link of the DEBIE-1 software promises the spacecraft *)
(* (the NOTEs and headers of TC_InterruptService, TM_InterruptService and  *)
(* HandleTelecommand): one session at a time, with the words of its plan   *)
(* in their order.  Science data and memory dumps end after their last     *)
(* word; the registers are sent round and round until they are aborted.    *)
(* A reset, after which the ground starts again, is not part of it.        *)
(***************************************************************************)
EXTENDS Integers, Sequences

CONSTANTS
  NoWord,
  Plans          \* the plans of each kind of session, sequences of words

VARIABLES
  session, plan, word     \* word: the last one sent

vars == <<session, plan, word>>

Kinds  == {"registers", "science", "dump"}
Idle   == session' = "idle" /\ plan' = <<>> /\ word' = NoWord

\* A session replaces register telemetry but no other one.
Start(kind) ==
  /\ session \in {"idle", "registers"}
  /\ session' = kind
  /\ plan' \in Plans[kind]
  /\ IF kind = "registers" THEN \E i \in DOMAIN plan' : word' = plan'[i]
                           ELSE word' = plan'[1]

Send ==
  /\ session # "idle"
  /\ \E i \in 1..(Len(plan) - 1) : word = plan[i] /\ word' = plan[i + 1]
  /\ UNCHANGED <<session, plan>>

Wrap ==
  /\ session = "registers" /\ word = plan[Len(plan)]
  /\ word' = plan[1]
  /\ UNCHANGED <<session, plan>>

Close ==
  /\ session \in {"science", "dump"} /\ word = plan[Len(plan)]
  /\ Idle

Abort == session = "registers" /\ Idle

Init == session = "idle" /\ plan = <<>> /\ word = NoWord
Next == (\E kind \in Kinds : Start(kind)) \/ Send \/ Wrap \/ Close \/ Abort
Spec == Init /\ [][Next]_vars

=============================================================================
