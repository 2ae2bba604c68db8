--------------------------- MODULE MCScienceData ---------------------------
(* ScienceData for TLC: the properties that need sums and cardinalities,   *)
(* and the refinement of ScienceFile.                                      *)
EXTENDS ScienceData, FiniteSetsExt

\* A Sensor Unit counter (0xFFFF) has room for every event of a full file
\* (1261), and for as many as the class counters (0xFF each) can count.
ASSUME LimitAssumption ==
  /\ IsFiniteSet(Units) /\ IsFiniteSet(Classes)
  /\ HitsLimit >= MaxEvents
  /\ HitsLimit >= Cardinality(Classes) * CounterLimit

Total(u) == SumFunction([c \in Classes |-> counters.event_counter[<<u, c>>]])
AllHits  == SumFunction(counters.SU_hits)

\* Every event in the file has been counted once and only once, also after
\* ClearEvents moved the queue into the file: the hits of the Sensor Units
\* add up to the used records as long as there is a free one, to no less
\* once records are replaced, and class counters of a unit add up to its hits
\* until one of them is at its limit.  A reset in the middle of ClearEvents
\* leaves whatever it finds.
CountersMatchFile ==
  LET stored == IF TC_pc = "CopyQueue" THEN copied ELSE free_slot_index
  IN  resets = 0 =>
      /\ AllHits >= stored
      /\ stored < MaxEvents => AllHits = stored
      /\ \A u \in Units :
           /\ Total(u) <= counters.SU_hits[u]
           /\ (\A c \in Classes : counters.event_counter[<<u, c>>] < CounterLimit)
                => Total(u) = counters.SU_hits[u]

\* The file as it is once a copy that is under way has been made.
Settled ==
  IF ACQ_pc = "Copy" /\ event_queue[0].quality_number >= event[record_index].quality_number
    THEN [event EXCEPT ![record_index] = event_queue[0]] ELSE event

InFile == {i \in Slots : i < free_slot_index}

Stable == TC_pc # "CopyQueue"

\* With handlers that run to their end, an event is in the file once.
FileHoldsDistinctEvents ==
  Stable => Cardinality({Settled[i] : i \in InFile}) = free_slot_index

\* Until the first reset, a class counter below its limit is the number of
\* events of that Sensor Unit and class in a file that is not full: RecordEvent
\* and ClearEvents count what they store.
CountersDescribeFile ==
  Stable /\ free_slot_index < MaxEvents =>
    \A u \in Units, c \in Classes :
      LET n == counters.event_counter[<<u, c>>]
      IN  n < CounterLimit =>
            n = Cardinality({i \in InFile : /\ Settled[i].SU_number = u
                                            /\ Settled[i].classification = c})

----------------------------------------------------------------------------
(* Refinement mapping *)

\* Records of the queue in use, without one that is being overwritten.
WaitingCount ==
  IF ACQ_pc \in {"Classify", "RecordEvent"} /\ new_event < event_queue_length
    THEN event_queue_length - 1 ELSE event_queue_length
Waiting == [i \in 1..WaitingCount |-> event_queue[i - 1]]

\* The events that can be recorded.
HitEvents == [hit_time : 1..MaxHits, SU_number : Units,
              classification : Classes, quality_number : Qualities]

Clearing == TC_pc = "CopyQueue"
Sending  == TC_state = "SC_TM_e" /\ ~Clearing

File == IF Clearing THEN {event_queue[i] : i \in 0..(event_queue_length - 1)}
                    ELSE {Settled[i] : i \in InFile}
Sent == IF Sending THEN {downlink[i] : i \in DOMAIN downlink} ELSE {}

SF == INSTANCE ScienceFile WITH
  Events  <- HitEvents,
  file    <- File,
  waiting <- IF Clearing THEN <<>> ELSE Waiting,
  sending <- Sending,
  sent    <- Sent

\* With handlers that run to their end, the store keeps the promise of
\* ScienceFile: no event is lost, duplicated, misfiled or cleared unsent.
ImplementsScienceFile == SF!Spec

=============================================================================
