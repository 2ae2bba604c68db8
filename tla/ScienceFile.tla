---------------------------- MODULE ScienceFile ----------------------------
(***************************************************************************)
(* What the Science Data store promises to the spacecraft, without queues, *)
(* indices, interrupts or tasks: every recorded event is kept in a file of *)
(* bounded size or gives way to events that are at least as good; an event *)
(* leaves the file for another reason only after it was sent; events that  *)
(* arrive while the file is sent wait and form the next file.              *)
(***************************************************************************)
EXTENDS Naturals, Sequences, FiniteSets

CONSTANTS MaxEvents, MaxQueueLength,
          Events    \* the event records there can be

VARIABLES
  file,     \* events in the Science Data memory
  waiting,  \* events that arrived while the file is sent, in order
  sending,  \* Science Telemetry is in progress
  sent      \* events of the file the spacecraft has received

vars == <<file, waiting, sending, sent>>

Worse(r, s) ==
  \/ r.quality_number < s.quality_number
  \/ r.quality_number = s.quality_number /\ r.hit_time < s.hit_time

Worst(f) == CHOOSE r \in f : \A s \in f \ {r} : Worse(r, s)

\* The file after event e: a full file gives up its worst event for one of
\* equal or better quality.
With(f, e) ==
  IF Cardinality(f) < MaxEvents THEN f \cup {e}
  ELSE IF e.quality_number >= Worst(f).quality_number
    THEN (f \ {Worst(f)}) \cup {e}
    ELSE f

Init == file = {} /\ waiting = <<>> /\ sending = FALSE /\ sent = {}

Record(e) ==
  /\ ~sending
  /\ file' = With(file, e)
  /\ UNCHANGED <<waiting, sending, sent>>

Wait(e) ==
  /\ sending
  /\ Len(waiting) < MaxQueueLength
  /\ waiting' = Append(waiting, e)
  /\ UNCHANGED <<file, sending, sent>>

\* A further event overwrites the newest one of a full queue.
Overflow ==
  /\ sending
  /\ Len(waiting) = MaxQueueLength
  /\ waiting' = SubSeq(waiting, 1, MaxQueueLength - 1)
  /\ UNCHANGED <<file, sending, sent>>

Start ==
  /\ ~sending
  /\ sending' = TRUE /\ sent' = {}
  /\ UNCHANGED <<file, waiting>>

Send(e) ==
  /\ sending /\ e \in file \ sent
  /\ sent' = sent \cup {e}
  /\ UNCHANGED <<file, waiting, sending>>

\* Only a file that was sent completely is cleared.
Finish ==
  /\ sending /\ sent = file
  /\ file' = {waiting[i] : i \in DOMAIN waiting}
  /\ waiting' = <<>> /\ sending' = FALSE /\ sent' = {}

Next ==
  \/ \E e \in Events : Record(e) \/ Wait(e) \/ Send(e)
  \/ Overflow
  \/ Start
  \/ Finish

Spec == Init /\ [][Next]_vars

=============================================================================
