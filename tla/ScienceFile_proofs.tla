------------------------- MODULE ScienceFile_proofs -------------------------
(***************************************************************************)
(* ScienceData implements ScienceFile, for every size of the file and of   *)
(* the queue, when every handler runs to its end before the next one       *)
(* starts and until the first reset.  The argument: one task is at work at *)
(* a time (TurnInv), so what the Acquisition task has in hand and what the *)
(* transfer has sent are still what they were (LinkInv, HandInv, FoundInv  *)
(* and CopyInv); and events are told apart by the time of their hit        *)
(* (WaitingInv, FileInv), so the records of the file are as many as its    *)
(* events, and the record of least quality is one of them.                 *)
(***************************************************************************)
EXTENDS MCScienceData, ScienceData_proofs, FiniteSetTheorems

Acquired == {"RecordEvent", "FindMin", "Found", "Copy"}
AtClear  == {"ClearEvents", "CopyQueue"}

TurnInv ==
  /\ resets = 0
  /\ ACQ_pc # "WaitMail" => TC_TaskIdle
  /\ ACQ_pc \in {"FindMin", "Found", "Copy"} => TC_state # "SC_TM_e"
  /\ TC_mailbox \in {<<>>, <<"SEND_SCIENCE_DATA_FILE">>, <<"TM_READY">>}
  /\ TC_pc # "WaitMail" => TC_mailbox = <<>>
  /\ TM_mask <=> TC_state = "SC_TM_e" /\ TC_pc \notin AtClear
  /\ TC_pc \in AtClear => TC_state = "SC_TM_e"

\* The transfer: what was sent is what is in the file, and TM_READY tells of
\* the end of it.
Announced ==
  \/ TC_mailbox = <<"TM_READY">>
  \/ TC_pc = "Mail" /\ TC_mail = "TM_READY"
  \/ TC_pc = "ClearEvents"
LinkInv ==
  TC_state = "SC_TM_e" /\ TC_pc # "CopyQueue" =>
    /\ telemetry_end = free_slot_index /\ telemetry_pointer <= telemetry_end
    /\ Len(downlink) = telemetry_pointer
    /\ \A n \in 1..telemetry_pointer : downlink[n] = event[n - 1]
    /\ Announced => telemetry_pointer = telemetry_end

\* The record in hand of the Acquisition task is at the end of the queue, and
\* the queue is used during Science Telemetry only.
HandInv ==
  /\ hits <= MaxHits
  /\ TC_state # "SC_TM_e" => event_queue_length = 0
  /\ ACQ_pc # "WaitMail" => new_event = GetFreeRecord /\ hits > 0
  /\ ACQ_pc \in {"Classify"} \cup Acquired => event_queue[new_event].hit_time = hits
  /\ ACQ_pc \in Acquired => event_queue[new_event] \in HitEvents

\* The events of the queue and of the file, told apart by their hit_time.
WaitingInv ==
  \A m \in QSlots : m < WaitingCount =>
    /\ event_queue[m] \in HitEvents
    /\ event_queue[m].hit_time <= hits
    /\ ACQ_pc # "WaitMail" => event_queue[m].hit_time # hits
    /\ \A n \in QSlots : n < m => event_queue[n].hit_time # event_queue[m].hit_time

FileInv ==
  Stable => \A m \in InFile :
    /\ Settled[m] \in HitEvents
    /\ Settled[m].hit_time <= hits
    /\ ACQ_pc \notin {"WaitMail", "Copy"} => Settled[m].hit_time # hits
    /\ \A n \in InFile : n # m => Settled[n].hit_time # Settled[m].hit_time

\* The search, and the copy loop of ClearEvents.
FoundInv ==
  /\ ACQ_pc \in {"FindMin", "Found"} => free_slot_index = MaxEvents
  /\ ACQ_pc = "Found" => record_index \in FindMinQualityRecord
CopyInv ==
  TC_pc = "CopyQueue" =>
    /\ copied <= event_queue_length
    /\ \A m \in QSlots : m < copied => event[m] = event_queue[m]

StoreInv == TurnInv /\ LinkInv /\ HandInv /\ WaitingInv /\ FileInv /\ FoundInv /\ CopyInv

----------------------------------------------------------------------------
(* Facts about the operators. *)

LEMMA Indices ==
  /\ 0 \in QSlots /\ MaxQueueLength - 1 \in QSlots
  /\ QSlots \subseteq Nat /\ Slots \subseteq Nat /\ QSlots \subseteq Slots
BY StoreAssumption DEF QSlots, Slots

LEMMA Idle == ACQ_pc # "Copy" => Settled = event
BY DEF Settled

LEMMA Counts ==
  ASSUME TypeOK
  PROVE  /\ WaitingCount \in 0..MaxQueueLength
         /\ ACQ_pc \notin {"Classify", "RecordEvent"} => WaitingCount = event_queue_length
BY StoreAssumption DEF WaitingCount, TypeOK, StoreType, ThreadsType, QSlots

LEMMA FreeRecord ==
  ASSUME TypeOK
  PROVE  /\ GetFreeRecord \in QSlots
         /\ event_queue_length = 0 => GetFreeRecord = 0
BY StoreAssumption DEF GetFreeRecord, TypeOK, StoreType, QSlots

LEMMA HitTypes ==
  ASSUME NEW r \in HitEvents
  PROVE  /\ r \in EventRecords /\ Filled(r)
         /\ r.hit_time \in 1..MaxHits /\ r.hit_time \in Nat
         /\ r.quality_number \in Qualities /\ r.quality_number \in Nat
<1>1. /\ r = [hit_time |-> r.hit_time, SU_number |-> r.SU_number,
              classification |-> r.classification, quality_number |-> r.quality_number]
      /\ r.hit_time \in 1..MaxHits /\ r.SU_number \in Units
      /\ r.classification \in Classes /\ r.quality_number \in Qualities
  BY DEF HitEvents
<1>2. r.hit_time \in Nat /\ r.quality_number \in Nat
  BY <1>1, StoreAssumption, BoundAssumption
<1>3. r \in EventRecords
  BY <1>1, <1>2 DEF EventRecords
<1>4. QED BY <1>1, <1>2, <1>3 DEF Filled

----------------------------------------------------------------------------
(* The steps of the Acquisition task. *)

LEMMA GetStep ==
  ASSUME TypeOK, StoreInv, HandleAcquisition_Get PROVE StoreInv'
<1> USE DEF StoreInv, HandleAcquisition_Get, store, link, TC_task
<1>1. TurnInv'
  BY DEF TurnInv, ACQ_Runs, TC_TaskIdle
<1>2. LinkInv'
  BY DEF LinkInv, Announced
<1>3. HandInv'
  BY BoundAssumption DEF HandInv, GetFreeRecord, Acquired, TypeOK, ThreadsType
<1>4. WaitingCount' = WaitingCount /\ hits' = hits + 1 /\ hits \in Nat
  BY DEF WaitingCount, TypeOK, ThreadsType
<1>5. WaitingInv'
  BY <1>4, HitTypes DEF WaitingInv
<1>6. Settled' = event /\ Settled = event
  BY DEF Settled
<1>7. FileInv'
  BY <1>4, <1>6, HitTypes DEF FileInv, Stable, InFile
<1>8. FoundInv' /\ CopyInv'
  BY DEF FoundInv, CopyInv, TurnInv, ACQ_Runs, TC_TaskIdle
<1>9. QED BY <1>1, <1>2, <1>3, <1>5, <1>7, <1>8

\* Filling or classifying the record in hand leaves all others as they are.
LEMMA HandStep ==
  ASSUME TypeOK, StoreInv, ACQ_Runs,
         ACQ_pc \in {"Fill", "Classify"},
         ACQ_pc' = IF ACQ_pc = "Fill" THEN "Classify" ELSE "RecordEvent",
         NEW r, event_queue' = [event_queue EXCEPT ![new_event] = r],
         r.hit_time = hits, ACQ_pc = "Classify" => r \in HitEvents,
         UNCHANGED <<event, free_slot_index, event_queue_length, counters, link, TC_mailbox,
                     TC_task, new_event, record_index, bounds>>
  PROVE  StoreInv'
<1> USE DEF StoreInv, link, TC_task, bounds
<1>0. /\ new_event \in QSlots /\ event_queue \in [QSlots -> EventRecords]
      /\ event_queue_length \in Nat /\ new_event = GetFreeRecord
      /\ TC_pc = "WaitMail" /\ TC_mailbox = <<>>
  BY DEF TypeOK, StoreType, ThreadsType, HandInv, ACQ_Runs, TC_TaskIdle
<1>1. TurnInv'
  BY DEF TurnInv, ACQ_Runs, TC_TaskIdle
<1>2. LinkInv'
  BY DEF LinkInv, Announced
<1>3. HandInv'
  BY <1>0 DEF HandInv, GetFreeRecord, Acquired
<1>4. /\ WaitingCount' \in Nat /\ WaitingCount' <= WaitingCount
      /\ WaitingCount' <= new_event
  BY <1>0, Counts, StoreAssumption DEF WaitingCount, GetFreeRecord, TypeOK, StoreType
<1>5. \A m \in QSlots : m < WaitingCount' => event_queue'[m] = event_queue[m]
                                             /\ m < WaitingCount
  BY <1>0, <1>4, Counts, Indices
<1>6. WaitingInv'
  BY <1>5, <1>4, Indices DEF WaitingInv
<1>7. Settled' = event /\ Settled = event
  BY DEF Settled
<1>8. FileInv'
  BY <1>7 DEF FileInv, Stable, InFile
<1>9. FoundInv' /\ CopyInv'
  BY <1>0 DEF FoundInv, CopyInv
<1>10. QED BY <1>1, <1>2, <1>3, <1>6, <1>8, <1>9

LEMMA FillStep ==
  ASSUME TypeOK, StoreInv, NEW u \in Units, HandleAcquisition_Fill(u) PROVE StoreInv'
<1>1. event_queue[new_event] \in EventRecords
  BY DEF TypeOK, StoreType, ThreadsType
<1>2. [event_queue[new_event] EXCEPT !.SU_number = u, !.hit_time = hits].hit_time = hits
  BY <1>1 DEF EventRecords
<1>3. QED BY <1>2, HandStep DEF HandleAcquisition_Fill

LEMMA ClassifyStep ==
  ASSUME TypeOK, QueueInv, StoreInv, NEW c \in Classes, NEW q \in Qualities, ClassifyEvent(c, q)
  PROVE  StoreInv'
<1> DEFINE r == [event_queue[new_event] EXCEPT !.classification = c, !.quality_number = q]
<1>1. event_queue[new_event] \in EventRecords /\ event_queue[new_event].SU_number \in Units
  BY DEF TypeOK, StoreType, ThreadsType, QueueInv, AcquisitionInProgress, ClassifyEvent
<1>2. event_queue[new_event].hit_time = hits /\ hits \in 1..MaxHits
  BY BoundAssumption
  DEF StoreInv, HandInv, ClassifyEvent, TypeOK, ThreadsType
<1>3. r \in HitEvents /\ r.hit_time = hits
  BY <1>1, <1>2 DEF EventRecords, HitEvents
<1> HIDE DEF r
<1>4. event_queue' = [event_queue EXCEPT ![new_event] = r]
  BY DEF ClassifyEvent, r
<1>5. QED BY <1>3, <1>4, HandStep DEF ClassifyEvent

\* Outside Science Telemetry the event in hand is the first of the queue.
LEMMA HandIsHead ==
  ASSUME TypeOK, StoreInv, ACQ_pc \in Acquired, TC_state # "SC_TM_e"
  PROVE  /\ new_event = 0 /\ event_queue_length = 0 /\ WaitingCount = 0
         /\ event_queue[0] \in HitEvents /\ event_queue[0].hit_time = hits
BY FreeRecord DEF StoreInv, HandInv, Acquired, WaitingCount

LEMMA NoneWaiting == ASSUME WaitingCount' = 0 PROVE WaitingInv'
<1>1. \A m \in QSlots : ~(m < WaitingCount')
  BY Indices
<1>2. QED BY <1>1 DEF WaitingInv

LEMMA SearchStep ==
  ASSUME TypeOK, StoreInv, RecordEvent_Full \/ RecordEvent_FindMin PROVE StoreInv'
<1> USE DEF StoreInv, RecordEvent_Full, RecordEvent_FindMin, store, link, TC_task, bounds
<1>1. /\ TC_state # "SC_TM_e" /\ TC_pc = "WaitMail" /\ TC_mailbox = <<>>
      /\ ACQ_pc' \in {"FindMin", "Found"} /\ ACQ_pc \in {"RecordEvent", "FindMin"}
      /\ UNCHANGED <<store, link, TC_mailbox, TC_task, new_event, bounds>>
  BY DEF TurnInv, ACQ_Runs, TC_TaskIdle
<1>2. TurnInv' /\ LinkInv' /\ CopyInv'
  BY <1>1 DEF TurnInv, LinkInv, CopyInv, TC_TaskIdle
<1>3. HandInv'
  BY <1>1 DEF HandInv, GetFreeRecord, Acquired
<1>4. WaitingCount' = 0
  BY <1>1, HandIsHead DEF WaitingCount, Acquired
<1>5. WaitingInv'
  BY <1>4, NoneWaiting
<1>6. Settled' = event /\ Settled = event
  BY <1>1 DEF Settled
<1>7. FileInv'
  BY <1>1, <1>6 DEF FileInv, Stable, InFile
<1>8. FoundInv'
  <2>1. free_slot_index' = MaxEvents
    BY <1>1, StoreAssumption DEF FoundInv, TypeOK, StoreType
  <2>2. ACQ_pc' = "Found" => record_index' \in FindMinQualityRecord
    BY <1>1
  <2>3. FindMinQualityRecord' = FindMinQualityRecord
    BY <1>1 DEF FindMinQualityRecord
  <2>4. QED BY <2>1, <2>2, <2>3 DEF FoundInv
<1>9. QED BY <1>2, <1>3, <1>5, <1>7, <1>8

\* The queue grows by the event in hand, or has it in place of its last one.
LEMMA DeferStep ==
  ASSUME TypeOK, StoreInv, RecordEvent_Defer
  PROVE  /\ StoreInv'
         /\ ACQ_pc = "RecordEvent" /\ new_event = WaitingCount
         /\ WaitingCount' = WaitingCount + 1 /\ new_event \in QSlots
         /\ event_queue[new_event] \in HitEvents
<1> USE DEF StoreInv, RecordEvent_Defer, link, TC_task, bounds
<1>1. /\ ACQ_pc = "RecordEvent" /\ ACQ_pc' = "WaitMail" /\ TC_state = "SC_TM_e"
      /\ TC_pc = "WaitMail" /\ TC_mailbox = <<>>
      /\ new_event = GetFreeRecord /\ new_event \in QSlots
      /\ event_queue[new_event] \in HitEvents /\ event_queue[new_event].hit_time = hits
      /\ event_queue_length \in 0..MaxQueueLength
  BY DEF TurnInv, HandInv, Acquired, ACQ_Runs, TC_TaskIdle, TypeOK, StoreType, ThreadsType
<1>2. new_event = WaitingCount /\ WaitingCount' = WaitingCount + 1
  BY <1>1, StoreAssumption DEF GetFreeRecord, WaitingCount, QSlots
<1>3. TurnInv' /\ LinkInv' /\ CopyInv'
  BY <1>1 DEF TurnInv, LinkInv, CopyInv, Announced
<1>4. HandInv'
  BY <1>1 DEF HandInv, Acquired
<1>5. WaitingInv'
  <2> SUFFICES ASSUME NEW m \in QSlots, m < WaitingCount'
               PROVE  /\ event_queue[m] \in HitEvents
                      /\ event_queue[m].hit_time <= hits
                      /\ \A n \in QSlots : n < m =>
                           event_queue[n].hit_time # event_queue[m].hit_time
    BY <1>1 DEF WaitingInv
  <2>1. CASE m = new_event
    BY <1>1, <1>2, <2>1, HitTypes DEF WaitingInv
  <2>2. CASE m # new_event
    <3>1. m < WaitingCount
      BY <1>1, <1>2, <2>2, Indices
    <3>2. QED BY <3>1 DEF WaitingInv
  <2>3. QED BY <2>1, <2>2
<1>6. Settled' = event /\ Settled = event
  BY <1>1 DEF Settled
<1>7. FileInv' /\ FoundInv'
  BY <1>1, <1>6 DEF FileInv, FoundInv, Stable, InFile
<1>8. QED BY <1>1, <1>2, <1>3, <1>4, <1>5, <1>7

\* RecordEvent reserves a free record for the event at the head of the queue.
LEMMA StoreReserves ==
  ASSUME TypeOK, RecordEvent_Store, free_slot_index < MaxEvents
  PROVE  /\ Settled = event
         /\ free_slot_index' = free_slot_index + 1 /\ record_index' = free_slot_index
         /\ Settled' \in [Slots -> EventRecords]
         /\ \A m \in Slots : m <= free_slot_index =>
              Settled'[m] = IF m = free_slot_index THEN event_queue[0] ELSE event[m]
<1> USE DEF RecordEvent_Store, StoreBlocked
<1> DEFINE r == [event[free_slot_index] EXCEPT !.quality_number = 0]
<1>1. /\ ACQ_pc \in {"RecordEvent", "Found"} /\ ACQ_pc' = "Copy"
      /\ event_queue' = event_queue /\ Settled = event
      /\ record_index' = free_slot_index /\ free_slot_index' = free_slot_index + 1
  BY DEF Settled
<1>2. /\ event \in [Slots -> EventRecords] /\ free_slot_index \in Slots
      /\ event_queue[0] \in EventRecords /\ event_queue[0].quality_number \in Nat
  <2>1. event_queue[0] \in EventRecords
    BY Indices DEF TypeOK, StoreType
  <2>2. event_queue[0].quality_number \in Nat
    BY <2>1, StoreAssumption DEF EventRecords
  <2>3. QED BY <2>1, <2>2, StoreAssumption DEF TypeOK, StoreType, Slots
<1>3. /\ r.quality_number = 0 /\ r \in EventRecords
      /\ event' = [event EXCEPT ![free_slot_index] = r]
  BY <1>2, NoQualityType DEF EventRecords
<1> HIDE DEF r
<1>4. event' \in [Slots -> EventRecords] /\ event'[free_slot_index].quality_number = 0
  BY <1>2, <1>3
<1>5. Settled' = [event' EXCEPT ![free_slot_index] = event_queue[0]]
  BY <1>1, <1>2, <1>4 DEF Settled
<1>6. QED BY <1>1, <1>2, <1>3, <1>4, <1>5

\* RecordEvent stores the event in a free record, or over the one it found.
LEMMA StoreEffect ==
  ASSUME TypeOK, StoreInv, RecordEvent_Store
  PROVE  /\ event_queue[0] \in HitEvents /\ event_queue[0].hit_time = hits
         /\ Settled = event
         /\ \/ /\ free_slot_index < MaxEvents /\ free_slot_index' = free_slot_index + 1
               /\ record_index' = free_slot_index /\ Settled' \in [Slots -> EventRecords]
               /\ \A m \in Slots : m <= free_slot_index =>
                    Settled'[m] = IF m = free_slot_index THEN event_queue[0] ELSE event[m]
            \/ /\ free_slot_index = MaxEvents /\ free_slot_index' = free_slot_index
               /\ record_index' = record_index /\ record_index \in FindMinQualityRecord
               /\ Settled' =
                    IF event_queue[0].quality_number >= event[record_index].quality_number
                      THEN [event EXCEPT ![record_index] = event_queue[0]] ELSE event
<1> USE DEF RecordEvent_Store, StoreBlocked
<1>1. /\ event_queue[0] \in HitEvents /\ event_queue[0].hit_time = hits
      /\ ACQ_pc \in {"RecordEvent", "Found"} /\ ACQ_pc' = "Copy"
      /\ event_queue' = event_queue
  BY HandIsHead DEF Acquired
<1>2. Settled = event
  BY <1>1 DEF Settled
<1>3. /\ event \in [Slots -> EventRecords] /\ free_slot_index \in 0..MaxEvents
      /\ event_queue[0] \in EventRecords /\ event_queue[0].quality_number \in Nat
  BY <1>1, HitTypes DEF TypeOK, StoreType
<1>4. CASE free_slot_index < MaxEvents
  BY <1>1, <1>4, StoreReserves
<1>5. CASE ~(free_slot_index < MaxEvents)
  <2>1. free_slot_index = MaxEvents /\ ACQ_pc = "Found"
    BY <1>3, <1>5, StoreAssumption
  <2>2. UNCHANGED <<record_index, event, free_slot_index>>
    BY <1>5
  <2>3. record_index \in FindMinQualityRecord
    BY <2>1 DEF StoreInv, FoundInv
  <2>4. Settled' =
          IF event_queue[0].quality_number >= event[record_index].quality_number
            THEN [event EXCEPT ![record_index] = event_queue[0]] ELSE event
    BY <1>1, <2>2 DEF Settled
  <2>5. QED BY <1>1, <1>2, <2>1, <2>2, <2>3, <2>4
<1>6. QED BY <1>4, <1>5

LEMMA StoreStep ==
  ASSUME TypeOK, StoreInv, RecordEvent_Store PROVE StoreInv'
<1> USE DEF StoreInv
<1>1. /\ ACQ_pc \in {"RecordEvent", "Found"} /\ ACQ_pc' = "Copy" /\ TC_state # "SC_TM_e"
      /\ TC_pc = "WaitMail" /\ TC_mailbox = <<>>
      /\ UNCHANGED <<event_queue, event_queue_length, link, TC_mailbox, TC_task, new_event,
                     bounds>>
  BY DEF RecordEvent_Store, StoreBlocked, ACQ_Runs, TC_TaskIdle
<1>2. TurnInv' /\ LinkInv' /\ CopyInv' /\ FoundInv'
  BY <1>1 DEF TurnInv, LinkInv, CopyInv, FoundInv, TC_TaskIdle, link, TC_task, bounds
<1>3. HandInv'
  BY <1>1 DEF HandInv, GetFreeRecord, Acquired, link, bounds
<1>4. WaitingCount' = 0
  BY <1>1, HandIsHead DEF WaitingCount, Acquired
<1>5. WaitingInv'
  BY <1>4, NoneWaiting
<1>6. FileInv'
  <2>1. \A m \in InFile :
          /\ event[m] \in HitEvents /\ event[m].hit_time <= hits /\ event[m].hit_time # hits
          /\ \A n \in InFile : n # m => event[n].hit_time # event[m].hit_time
    BY <1>1, StoreEffect DEF FileInv, Stable
  <2>2. /\ event_queue[0] \in HitEvents /\ event_queue[0].hit_time = hits /\ hits' = hits
        /\ hits <= hits
    BY <1>1, StoreEffect DEF bounds, TypeOK, ThreadsType
  <2>3. SUFFICES \A m \in InFile' :
          /\ Settled'[m] \in HitEvents /\ Settled'[m].hit_time <= hits
          /\ \A n \in InFile' : n # m => Settled'[n].hit_time # Settled'[m].hit_time
    BY <1>1, <2>2 DEF FileInv
  <2>4. CASE free_slot_index < MaxEvents
    <3>0. free_slot_index' = free_slot_index + 1 /\ free_slot_index \in Nat
      BY <2>4, StoreEffect, StoreAssumption DEF TypeOK, StoreType
    <3>1. /\ \A m \in InFile' : m \in Slots /\ m <= free_slot_index
          /\ \A m \in InFile' : m \in InFile \/ m = free_slot_index
      BY <3>0, Indices DEF InFile
    <3>2. \A m \in InFile' : Settled'[m] = IF m = free_slot_index THEN event_queue[0]
                                                                ELSE event[m]
      BY <2>4, <3>1, StoreEffect, StoreAssumption
    <3>3. QED BY <2>1, <2>2, <3>1, <3>2
  <2>5. CASE ~(free_slot_index < MaxEvents)
    <3>1. InFile' = InFile /\ record_index \in Slots /\ InFile \subseteq Slots
      BY <2>5, StoreEffect DEF InFile, TypeOK, ThreadsType
    <3>2. \/ Settled' = [event EXCEPT ![record_index] = event_queue[0]]
          \/ Settled' = event
      BY <2>5, StoreEffect
    <3>3. QED BY <2>1, <2>2, <3>1, <3>2 DEF TypeOK, StoreType
  <2>6. QED BY <2>4, <2>5
<1>7. QED BY <1>2, <1>3, <1>5, <1>6

LEMMA CopyStep ==
  ASSUME TypeOK, StoreInv, RecordEvent_Copy
  PROVE  StoreInv' /\ Settled' = Settled /\ InFile' = InFile
<1> USE DEF StoreInv, RecordEvent_Copy, link, TC_task, bounds
<1>1. TurnInv' /\ LinkInv' /\ CopyInv' /\ FoundInv'
  BY DEF TurnInv, LinkInv, CopyInv, FoundInv, TC_TaskIdle, ACQ_Runs
<1>2. HandInv'
  BY DEF HandInv, Acquired
<1>3. WaitingCount' = 0
  BY HandIsHead DEF WaitingCount, Acquired, TurnInv
<1>4. WaitingInv'
  BY <1>3, NoneWaiting
<1>5. Settled' = Settled /\ InFile' = InFile
  BY DEF Settled, InFile
<1>6. FileInv'
  BY <1>5 DEF FileInv, Stable
<1>7. QED BY <1>1, <1>2, <1>4, <1>5, <1>6

----------------------------------------------------------------------------
(* The interrupt services: all tasks wait for them. *)

LEMMA QuietState ==
  ASSUME TypeOK, StoreInv, ~Preemptive, InterruptTaken
  PROVE  /\ ACQ_pc = "WaitMail" /\ TC_pc = "WaitMail" /\ TC_mailbox = <<>>
         /\ TM_mask <=> TC_state = "SC_TM_e"
         /\ \A message : Send_ISR_Mail(message) => TC_mailbox' = <<message>>
<1>1. ACQ_pc = "WaitMail" /\ TC_pc = "WaitMail" /\ TC_mailbox = <<>>
  BY DEF InterruptTaken, Quiet, TC_TaskIdle
<1>2. TM_mask <=> TC_state = "SC_TM_e"
  BY <1>1 DEF StoreInv, TurnInv, AtClear
<1>3. ASSUME NEW message, Send_ISR_Mail(message) PROVE TC_mailbox' = <<message>>
  BY <1>1, <1>3, KernelAssumption DEF Send_ISR_Mail
<1>4. QED BY <1>1, <1>2, <1>3

\* An interrupt changes neither the store nor what a task has in hand.
LEMMA ServiceKeeps ==
  ASSUME TypeOK, StoreInv, ACQ_pc = "WaitMail", TC_pc = "WaitMail",
         UNCHANGED <<store, TC_task, ACQ_task, hits, resets>>,
         TC_state' \in {TC_state, "SC_TM_e"}
  PROVE  HandInv' /\ WaitingInv' /\ FileInv' /\ FoundInv' /\ CopyInv'
<1> USE DEF StoreInv, store, TC_task, ACQ_task
<1>1. HandInv'
  BY DEF HandInv, Acquired
<1>2. WaitingCount' = WaitingCount /\ Settled' = Settled
  BY DEF WaitingCount, Settled
<1>3. WaitingInv' /\ FileInv'
  BY <1>2 DEF WaitingInv, FileInv, Stable, InFile
<1>4. FoundInv' /\ CopyInv'
  BY DEF FoundInv, CopyInv
<1>5. QED BY <1>1, <1>3, <1>4

LEMMA RequestStep ==
  ASSUME TypeOK, StoreInv, ~Preemptive, TC_InterruptService PROVE StoreInv'
<1>1. /\ ACQ_pc = "WaitMail" /\ TC_pc = "WaitMail"
      /\ TC_mailbox' = <<"SEND_SCIENCE_DATA_FILE">>
  BY QuietState DEF TC_InterruptService
<1>2. HandInv' /\ WaitingInv' /\ FileInv' /\ FoundInv' /\ CopyInv'
  BY <1>1, ServiceKeeps DEF TC_InterruptService
<1>3. TurnInv'
  BY <1>1 DEF TC_InterruptService, StoreInv, TurnInv, TC_task, ACQ_task, AtClear
<1>4. LinkInv'
  <2>1. free_slot_index \in Nat
    BY StoreAssumption DEF TypeOK, StoreType
  <2>2. ~Announced'
    BY <1>1 DEF TC_InterruptService, Announced, TC_task
  <2>3. QED BY <2>1, <2>2 DEF TC_InterruptService, LinkInv, store
<1>5. QED BY <1>2, <1>3, <1>4 DEF StoreInv

LEMMA SendStep ==
  ASSUME TypeOK, StoreInv, ~Preemptive, TM_InterruptService_Send
  PROVE  /\ StoreInv' /\ TC_state = "SC_TM_e" /\ Settled = event
         /\ telemetry_pointer \in InFile
<1>1. /\ ACQ_pc = "WaitMail" /\ TC_pc = "WaitMail" /\ TC_mailbox = <<>>
      /\ TC_state = "SC_TM_e" /\ TM_mask
  BY QuietState DEF TM_InterruptService_Send
<1>2. HandInv' /\ WaitingInv' /\ FileInv' /\ FoundInv' /\ CopyInv'
  BY <1>1, ServiceKeeps DEF TM_InterruptService_Send, bounds
<1>3. TurnInv'
  BY <1>1 DEF TM_InterruptService_Send, StoreInv, TurnInv, TC_task, ACQ_task, AtClear, bounds
<1>4. /\ telemetry_end = free_slot_index /\ telemetry_pointer < free_slot_index
      /\ Len(downlink) = telemetry_pointer /\ telemetry_pointer \in Nat
      /\ free_slot_index \in 0..MaxEvents /\ downlink \in Seq(EventRecords)
      /\ \A n \in 1..telemetry_pointer : downlink[n] = event[n - 1]
  BY <1>1 DEF StoreInv, LinkInv, TM_InterruptService_Send, TypeOK, LinkType, StoreType
<1>5. telemetry_pointer \in InFile
  BY <1>4, StoreAssumption DEF InFile, Slots
<1>6. LinkInv'
  <2>1. /\ telemetry_pointer' = telemetry_pointer + 1
        /\ downlink' = Append(downlink, event[telemetry_pointer])
        /\ UNCHANGED <<telemetry_end, event, free_slot_index, TC_pc, TC_mailbox, TC_mail>>
    BY DEF TM_InterruptService_Send, store, TC_task
  <2>2. Len(downlink') = telemetry_pointer'
    BY <1>4, <2>1
  <2>3. \A n \in 1..telemetry_pointer' : downlink'[n] = event'[n - 1]
    BY <1>4, <2>1
  <2>4. ~Announced'
    BY <1>1, <2>1 DEF Announced
  <2>5. telemetry_end' = free_slot_index' /\ telemetry_pointer' <= telemetry_end'
    BY <1>4, <2>1, StoreAssumption
  <2>6. QED BY <2>2, <2>3, <2>4, <2>5 DEF LinkInv
<1>7. Settled = event
  BY <1>1, Idle
<1>8. QED BY <1>1, <1>2, <1>3, <1>5, <1>6, <1>7 DEF StoreInv

LEMMA ReadyStep ==
  ASSUME TypeOK, StoreInv, ~Preemptive, TM_InterruptService_Ready PROVE StoreInv'
<1>1. /\ ACQ_pc = "WaitMail" /\ TC_pc = "WaitMail" /\ TC_mailbox' = <<"TM_READY">>
      /\ TC_state = "SC_TM_e" /\ TM_mask
  BY QuietState DEF TM_InterruptService_Ready
<1>2. HandInv' /\ WaitingInv' /\ FileInv' /\ FoundInv' /\ CopyInv'
  BY <1>1, ServiceKeeps DEF TM_InterruptService_Ready, bounds, link
<1>3. TurnInv'
  BY <1>1 DEF TM_InterruptService_Ready, StoreInv, TurnInv, TC_task, ACQ_task, AtClear, bounds,
              link
<1>4. LinkInv'
  <2>1. telemetry_pointer = telemetry_end
    BY <1>1 DEF TM_InterruptService_Ready, StoreInv, LinkInv, TypeOK, LinkType
  <2>2. QED BY <1>1, <2>1 DEF TM_InterruptService_Ready, StoreInv, LinkInv, link, store, TC_task
<1>5. QED BY <1>2, <1>3, <1>4 DEF StoreInv

----------------------------------------------------------------------------
(* The steps of the Telecommand Execution task. *)

LEMMA MailStep ==
  ASSUME TypeOK, StoreInv,
         HandleTelecommand_Wait \/ HandleTelecommand_Ignore \/ HandleTelecommand_Ready
  PROVE  StoreInv' /\ ACQ_pc = "WaitMail"
<1> USE DEF StoreInv
<1>1. /\ ACQ_pc = "WaitMail" /\ TC_pc \in {"WaitMail", "Mail"}
      /\ TC_pc' \in {"WaitMail", "Mail", "ClearEvents"}
      /\ TC_pc' = "ClearEvents" => TC_state = "SC_TM_e"
      /\ UNCHANGED <<store, TC_state, telemetry_pointer, telemetry_end, downlink, ACQ_task,
                     bounds>>
  BY DEF HandleTelecommand_Wait, HandleTelecommand_Ignore, HandleTelecommand_Ready, TurnInv,
         TC_TaskIdle, link
<1>2. TurnInv'
  <2>1. CASE HandleTelecommand_Wait
    BY <1>1, <2>1 DEF HandleTelecommand_Wait, TurnInv, AtClear, link, bounds, ACQ_task
  <2>2. CASE HandleTelecommand_Ignore
    BY <1>1, <2>2 DEF HandleTelecommand_Ignore, TurnInv, AtClear, link, bounds, ACQ_task
  <2>3. CASE HandleTelecommand_Ready
    BY <1>1, <2>3 DEF HandleTelecommand_Ready, TurnInv, AtClear, bounds, ACQ_task
  <2>4. QED BY <2>1, <2>2, <2>3
<1>3. LinkInv'
  <2>1. Announced' /\ TC_state = "SC_TM_e" => Announced
    <3>1. CASE HandleTelecommand_Wait
      <4>1. /\ TC_mailbox \in {<<"SEND_SCIENCE_DATA_FILE">>, <<"TM_READY">>}
            /\ TC_pc' = "Mail" /\ TC_mail' = Head(TC_mailbox) /\ TC_mailbox' = Tail(TC_mailbox)
        BY <3>1 DEF HandleTelecommand_Wait, TurnInv
      <4>2. TC_mailbox' = <<>> /\ TC_mailbox = <<TC_mail'>>
        BY <4>1
      <4>3. <<>> # <<"TM_READY">>
        OBVIOUS
      <4>4. QED BY <4>1, <4>2, <4>3 DEF Announced
    <3>2. CASE HandleTelecommand_Ignore
      BY <3>2 DEF HandleTelecommand_Ignore, TurnInv, Announced
    <3>3. CASE HandleTelecommand_Ready
      BY <3>3 DEF HandleTelecommand_Ready, TurnInv, Announced
    <3>4. QED BY <3>1, <3>2, <3>3
  <2>2. QED BY <1>1, <2>1 DEF LinkInv, store
<1>4. HandInv'
  BY <1>1 DEF HandInv, Acquired, store, ACQ_task, bounds
<1>5. WaitingCount' = WaitingCount /\ Settled' = Settled
  BY <1>1 DEF WaitingCount, Settled, store, ACQ_task
<1>6. WaitingInv' /\ FileInv'
  BY <1>1, <1>5 DEF WaitingInv, FileInv, Stable, InFile, store, ACQ_task, bounds
<1>7. FoundInv' /\ CopyInv'
  BY <1>1 DEF FoundInv, CopyInv, store, ACQ_task
<1>8. QED BY <1>1, <1>2, <1>3, <1>4, <1>6, <1>7

\* ClearEvents finds the file sent completely.
LEMMA ClearStep ==
  ASSUME TypeOK, StoreInv, ClearEvents_Counters
  PROVE  /\ StoreInv' /\ ACQ_pc = "WaitMail" /\ TC_state = "SC_TM_e"
         /\ telemetry_pointer = free_slot_index
<1> USE DEF StoreInv, ClearEvents_Counters, link, ACQ_task, bounds
<1>1. ACQ_pc = "WaitMail" /\ TC_state = "SC_TM_e"
  BY DEF TurnInv, TC_TaskIdle, AtClear
<1>2. telemetry_pointer = free_slot_index
  BY <1>1 DEF LinkInv, Announced
<1>3. TurnInv' /\ LinkInv' /\ HandInv'
  BY <1>1 DEF TurnInv, LinkInv, HandInv, AtClear, Acquired
<1>4. WaitingCount' = WaitingCount
  BY DEF WaitingCount
<1>5. WaitingInv' /\ FileInv'
  BY <1>4 DEF WaitingInv, FileInv, Stable
<1>6. FoundInv' /\ CopyInv'
  BY <1>1, Indices DEF FoundInv, CopyInv, TypeOK, StoreType
<1>7. QED BY <1>1, <1>2, <1>3, <1>5, <1>6

LEMMA MoveStep ==
  ASSUME TypeOK, StoreInv, ClearEvents_Copy PROVE StoreInv' /\ ACQ_pc = "WaitMail"
<1> USE DEF StoreInv, ClearEvents_Copy, link, ACQ_task, bounds
<1>1. ACQ_pc = "WaitMail" /\ TC_state = "SC_TM_e"
  BY DEF TurnInv, TC_TaskIdle, AtClear
<1>2. TurnInv' /\ LinkInv' /\ HandInv' /\ FileInv' /\ FoundInv'
  BY <1>1 DEF TurnInv, LinkInv, HandInv, AtClear, Acquired, FileInv, Stable, FoundInv
<1>3. WaitingCount' = WaitingCount
  BY DEF WaitingCount
<1>4. WaitingInv'
  BY <1>3 DEF WaitingInv
<1>5. CopyInv'
  <2>1. /\ copied \in QSlots /\ copied' = copied + 1 /\ copied' <= event_queue_length
        /\ event \in [Slots -> EventRecords] /\ event' = [event EXCEPT ![copied] = event_queue[copied]]
        /\ \A m \in QSlots : m < copied => event[m] = event_queue[m]
    BY StoreAssumption DEF CopyInv, TypeOK, StoreType, ThreadsType, QSlots
  <2>2. ASSUME NEW m \in QSlots, m < copied' PROVE event'[m] = event_queue[m]
    BY <2>1, <2>2, Indices
  <2>3. QED BY <2>1, <2>2 DEF CopyInv
<1>6. QED BY <1>1, <1>2, <1>4, <1>5

\* The queue has become the file.
LEMMA FinishStep ==
  ASSUME TypeOK, StoreInv, ClearEvents_Finish
  PROVE  /\ StoreInv' /\ ACQ_pc = "WaitMail" /\ WaitingCount' = 0
         /\ free_slot_index' = event_queue_length /\ Settled' = event
         /\ InFile' = {m \in QSlots : m < event_queue_length}
         /\ \A m \in QSlots : m < event_queue_length => event[m] = event_queue[m]
<1> USE DEF StoreInv, ClearEvents_Finish, ACQ_task, bounds
<1>1. ACQ_pc = "WaitMail" /\ TC_state = "SC_TM_e" /\ TC_mailbox = <<>>
  BY DEF TurnInv, TC_TaskIdle, AtClear
<1>2. TurnInv' /\ LinkInv' /\ HandInv' /\ FoundInv' /\ CopyInv'
  BY <1>1 DEF TurnInv, LinkInv, HandInv, AtClear, Acquired, FoundInv, CopyInv
<1>3. WaitingCount' = 0 /\ WaitingCount = event_queue_length /\ Settled' = event
  BY <1>1, Counts DEF WaitingCount, Settled
<1>4. InFile' = {m \in QSlots : m < event_queue_length}
  BY StoreAssumption DEF InFile, Slots, QSlots, TypeOK, StoreType
<1>5. \A m \in QSlots : m < event_queue_length => event[m] = event_queue[m]
  BY DEF CopyInv, TypeOK, StoreType, ThreadsType, QSlots
<1>6. FileInv'
  <2>1. SUFFICES ASSUME NEW m \in QSlots, m < event_queue_length
                 PROVE  /\ event_queue[m] \in HitEvents /\ event_queue[m].hit_time <= hits
                        /\ \A n \in QSlots : n < event_queue_length /\ n # m =>
                             event_queue[n].hit_time # event_queue[m].hit_time
    BY <1>1, <1>3, <1>4, <1>5 DEF FileInv
  <2>2. /\ event_queue[m] \in HitEvents /\ event_queue[m].hit_time <= hits
        /\ \A n \in QSlots : n < m => event_queue[n].hit_time # event_queue[m].hit_time
    BY <1>3, <2>1 DEF WaitingInv
  <2>3. ASSUME NEW n \in QSlots, n < event_queue_length, n # m
        PROVE  event_queue[n].hit_time # event_queue[m].hit_time
    <3>1. n < m \/ m < n
      BY <2>3, Indices
    <3>2. QED BY <1>3, <2>1, <2>2, <2>3, <3>1 DEF WaitingInv
  <2>4. QED BY <2>2, <2>3
<1>7. WaitingInv'
  BY <1>3, NoneWaiting
<1>8. QED BY <1>1, <1>2, <1>3, <1>4, <1>5, <1>6, <1>7

----------------------------------------------------------------------------
(* The inductive invariant. *)

LEMMA StoreInit == Init => StoreInv
<1> SUFFICES ASSUME Init PROVE StoreInv
  OBVIOUS
<1>1. WaitingCount = 0 /\ InFile = {}
  BY Indices DEF Init, WaitingCount, InFile
<1>2. WaitingInv /\ FileInv
  BY <1>1, Indices DEF WaitingInv, FileInv
<1>3. TurnInv
  BY DEF Init, TurnInv, AtClear
<1>4. LinkInv /\ HandInv /\ FoundInv /\ CopyInv
  BY BoundAssumption DEF Init, LinkInv, HandInv, FoundInv, CopyInv, Acquired
<1>5. QED BY <1>2, <1>3, <1>4 DEF StoreInv

LEMMA StoreNext ==
  ASSUME ~Preemptive, MaxResets = 0, TypeOK, QueueInv, StoreInv, [Next]_vars
  PROVE  StoreInv'
<1>1. ~Boot_KeepsData /\ ~Boot_ClearsData
  BY DEF Boot_KeepsData, Boot_ClearsData, StoreInv, TurnInv
<1>2. CASE UNCHANGED vars
  <2>1. WaitingCount' = WaitingCount /\ Settled' = Settled /\ InFile' = InFile
    BY <1>2 DEF vars, store, ACQ_task, WaitingCount, Settled, InFile
  <2>2. TurnInv' /\ LinkInv' /\ HandInv'
    BY <1>2 DEF StoreInv, vars, store, link, TC_task, ACQ_task, bounds, TurnInv, LinkInv,
       Announced, HandInv, Acquired, AtClear, TC_TaskIdle, GetFreeRecord
  <2>3. WaitingInv' /\ FileInv' /\ FoundInv' /\ CopyInv'
    BY <1>2, <2>1 DEF StoreInv, vars, store, link, TC_task, ACQ_task, bounds, WaitingInv,
       FileInv, Stable, FoundInv, FindMinQualityRecord, CopyInv
  <2>4. QED BY <2>2, <2>3 DEF StoreInv
<1>3. CASE ACQ_Step
  BY <1>3, GetStep, FillStep, ClassifyStep, SearchStep, DeferStep, StoreStep, CopyStep
  DEF ACQ_Step
<1>4. CASE TC_Step
  BY <1>4, MailStep, ClearStep, MoveStep, FinishStep DEF TC_Step
<1>5. CASE TC_InterruptService \/ TM_InterruptService
  BY <1>5, RequestStep, SendStep, ReadyStep DEF TM_InterruptService
<1>6. QED BY <1>1, <1>2, <1>3, <1>4, <1>5 DEF Next

LEMMA StoreInvariant == ASSUME ~Preemptive, MaxResets = 0 PROVE Spec => []StoreInv
<1>1. TypeOK /\ QueueInv /\ StoreInv /\ [Next]_vars => StoreInv'
  BY StoreNext
<1>2. QED BY StoreInit, <1>1, TypeCorrect, QueueInvariant, PTL DEF Spec

----------------------------------------------------------------------------
(* The file as a set: one event for each record in use. *)

LEMMA SameCardinality == ASSUME NEW S PROVE SF!Cardinality(S) = Cardinality(S)
BY DEF SF!Cardinality, Cardinality

LEMMA DistinctRecords ==
  ASSUME NEW n \in Nat, NEW f, NEW T, T = {f[m] : m \in 0..(n - 1)},
         \A m, k \in 0..(n - 1) : m # k => f[m] # f[k]
  PROVE  IsFiniteSet(T) /\ Cardinality(T) = n
<1> DEFINE S == 0..(n - 1)
           g == [m \in S |-> f[m]]
<1>1. IsFiniteSet(S) /\ Cardinality(S) = n
  BY FS_Interval
<1>2. g \in [S -> T] /\ \A t \in T : \E m \in S : g[m] = t
  OBVIOUS
<1>3. g \in Surjection(S, T)
  BY <1>2 DEF Surjection
<1>4. g \in Injection(S, T)
  BY <1>2 DEF Injection, IsInjective
<1> HIDE DEF g, S
<1>5. QED BY <1>1, <1>3, <1>4, FS_Surjection

LEMMA FileRecords ==
  ASSUME TypeOK
  PROVE  /\ free_slot_index \in Nat /\ free_slot_index <= MaxEvents
         /\ InFile = 0..(free_slot_index - 1) /\ InFile \subseteq Slots
BY StoreAssumption DEF InFile, Slots, TypeOK, StoreType

LEMMA FileSize ==
  ASSUME TypeOK, StoreInv, Stable
  PROVE  Cardinality({Settled[m] : m \in InFile}) = free_slot_index
<1> DEFINE T == {Settled[m] : m \in InFile}
<1>1. InFile = 0..(free_slot_index - 1) /\ free_slot_index \in Nat
  BY FileRecords
<1>2. \A m, k \in 0..(free_slot_index - 1) : m # k => Settled[m] # Settled[k]
  BY <1>1 DEF StoreInv, FileInv
<1>3. T = {Settled[m] : m \in 0..(free_slot_index - 1)}
  BY <1>1
<1> HIDE DEF T
<1>4. Cardinality(T) = free_slot_index
  BY <1>1, <1>2, <1>3, DistinctRecords
<1>5. QED BY <1>4 DEF T

(* A file that is not full takes one more event, a full one gives up the   *)
(* event of the record that was found.                                     *)
LEMMA WorstFound ==
  ASSUME TypeOK, StoreInv, Stable, Settled = event, free_slot_index = MaxEvents,
         record_index \in FindMinQualityRecord
  PROVE  /\ File = {event[m] : m \in Slots}
         /\ record_index \in Slots /\ SF!Worst(File) = event[record_index]
<1> DEFINE w == event[record_index]
<1>1. File = {event[m] : m \in Slots} /\ InFile = Slots
  <2>1. InFile = Slots
    BY StoreAssumption, FileRecords DEF Slots
  <2>2. QED BY <2>1 DEF File, Clearing, Stable
<1>2. \A m \in Slots :
        /\ event[m].hit_time \in Nat /\ event[m].quality_number \in Nat
        /\ \A n \in Slots : n # m => event[n].hit_time # event[m].hit_time
  BY <1>1, HitTypes DEF StoreInv, FileInv
<1>3. record_index \in Slots
  BY DEF FindMinQualityRecord
<1>4. \A m \in Slots \ {record_index} : SF!Worse(w, event[m])
  BY <1>2, <1>3 DEF FindMinQualityRecord, SF!Worse
<1>5. w \in File /\ \A s \in File \ {w} : SF!Worse(w, s)
  BY <1>1, <1>3, <1>4
<1>6. ASSUME NEW r \in File, \A s \in File \ {r} : SF!Worse(r, s) PROVE r = w
  <2>1. SUFFICES ASSUME r # w PROVE FALSE
    OBVIOUS
  <2>2. SF!Worse(r, w) /\ SF!Worse(w, r)
    BY <1>5, <1>6, <2>1
  <2>3. /\ r.hit_time \in Nat /\ r.quality_number \in Nat
        /\ w.hit_time \in Nat /\ w.quality_number \in Nat
    BY <1>1, <1>2, <1>3
  <2>4. QED BY <2>2, <2>3 DEF SF!Worse
<1> HIDE DEF w
<1>7. SF!Worst(File) = w
  BY <1>5, <1>6 DEF SF!Worst
<1>8. QED BY <1>1, <1>3, <1>7 DEF w

LEMMA StoreRecords ==
  ASSUME TypeOK, StoreInv, RecordEvent_Store PROVE SF!Record(event_queue[0])
<1> DEFINE e == event_queue[0]
<1>1. /\ ~Clearing /\ ~Clearing' /\ ~Sending /\ ~Sending' /\ Stable
      /\ WaitingCount = 0 /\ WaitingCount' = 0
  BY HandIsHead DEF RecordEvent_Store, StoreBlocked, ACQ_Runs, TC_TaskIdle, Clearing, Sending,
     Stable, link, TC_task, Acquired, WaitingCount
<1>2. Waiting' = Waiting /\ Sent' = Sent
  BY <1>1 DEF Waiting, Sent
<1>3. File = {event[m] : m \in InFile} /\ File' = {Settled'[m] : m \in InFile'}
      /\ Cardinality(File) = free_slot_index /\ free_slot_index \in 0..MaxEvents
  BY <1>1, StoreEffect, FileSize DEF File, TypeOK, StoreType
<1>4. File' = SF!With(File, e)
  <2>1. CASE free_slot_index < MaxEvents
    <3>1. \A m \in Slots : m < free_slot_index' <=> m < free_slot_index \/ m = free_slot_index
      BY <2>1, StoreEffect, StoreAssumption, Indices DEF TypeOK, StoreType
    <3>2. free_slot_index \in Slots
      BY <1>3, <2>1, StoreAssumption DEF Slots
    <3>3. \A m \in Slots : /\ m < free_slot_index => Settled'[m] = event[m]
                           /\ m = free_slot_index => Settled'[m] = e
      BY <1>3, <2>1, StoreEffect, StoreAssumption, Indices
    <3>4. File' = File \cup {e}
      BY <1>3, <3>1, <3>2, <3>3 DEF InFile
    <3>5. QED BY <1>3, <2>1, <3>4, SameCardinality DEF SF!With
  <2>2. CASE ~(free_slot_index < MaxEvents)
    <3>1. /\ free_slot_index = MaxEvents /\ free_slot_index' = MaxEvents
          /\ record_index \in FindMinQualityRecord /\ Settled = event
          /\ Settled' = IF e.quality_number >= event[record_index].quality_number
                          THEN [event EXCEPT ![record_index] = e] ELSE event
      BY <2>2, StoreEffect
    <3>2. /\ InFile = Slots /\ InFile' = Slots /\ record_index \in Slots
          /\ SF!Worst(File) = event[record_index]
      BY <1>1, <3>1, WorstFound, StoreAssumption DEF InFile, Slots
    <3>3. \A m, n \in Slots : m # n => event[m] # event[n]
      BY <1>1, <3>1, <3>2 DEF StoreInv, FileInv
    <3>4. event \in [Slots -> EventRecords]
      BY DEF TypeOK, StoreType
    <3>5. CASE e.quality_number >= event[record_index].quality_number
      <4>1. File' = (File \ {event[record_index]}) \cup {e}
        BY <1>3, <3>1, <3>2, <3>3, <3>4, <3>5
      <4>2. QED BY <1>3, <2>2, <3>2, <3>5, <4>1, SameCardinality DEF SF!With
    <3>6. CASE ~(e.quality_number >= event[record_index].quality_number)
      BY <1>3, <2>2, <3>1, <3>2, <3>6, SameCardinality DEF SF!With
    <3>7. QED BY <3>5, <3>6
  <2>3. QED BY <2>1, <2>2
<1>5. Sending' = Sending
  BY <1>1 DEF Sending
<1>6. QED BY <1>1, <1>2, <1>4, <1>5 DEF SF!Record

----------------------------------------------------------------------------
(* What the other steps are in ScienceFile. *)

LEMMA Unseen ==
  ASSUME Stable, Stable', Settled' = Settled, InFile' = InFile, Waiting' = Waiting,
         UNCHANGED <<TC_state, downlink>>
  PROVE  UNCHANGED SF!vars
<1>1. Clearing = FALSE /\ Clearing' = FALSE
  BY DEF Stable, Clearing
<1>2. Sending' = Sending
  BY <1>1 DEF Sending
<1>3. File' = File /\ Sent' = Sent
  BY <1>1, <1>2 DEF File, Sent
<1>4. QED BY <1>1, <1>2, <1>3 DEF SF!vars

LEMMA SameWaiting ==
  ASSUME WaitingCount' = WaitingCount,
         \A n \in 1..WaitingCount : event_queue'[n - 1] = event_queue[n - 1]
  PROVE  Waiting' = Waiting
BY DEF Waiting

LEMMA WaitingLength ==
  ASSUME TypeOK
  PROVE  /\ Waiting \in Seq(EventRecords) /\ Len(Waiting) = WaitingCount
         /\ WaitingCount \in 0..MaxQueueLength /\ DOMAIN Waiting = 1..WaitingCount
         /\ \A n \in 1..WaitingCount : Waiting[n] = event_queue[n - 1]
<1>1. WaitingCount \in 0..MaxQueueLength /\ WaitingCount \in Nat
  BY Counts, StoreAssumption
<1>2. \A n \in 1..WaitingCount : event_queue[n - 1] \in EventRecords
  BY <1>1, StoreAssumption DEF TypeOK, StoreType, QSlots
<1>3. Waiting \in [1..WaitingCount -> EventRecords]
  BY <1>2 DEF Waiting
<1>4. Waiting \in Seq(EventRecords) /\ Len(Waiting) = WaitingCount
  BY <1>1, <1>3
<1>5. QED BY <1>1, <1>3, <1>4 DEF Waiting

\* The record in hand is filled over the last one of a full queue.
LEMMA FillSeen ==
  ASSUME TypeOK, StoreInv, NEW u \in Units, HandleAcquisition_Fill(u)
  PROVE  [SF!Next]_SF!vars
<1>1. /\ TC_pc = "WaitMail" /\ TC_pc' = "WaitMail" /\ ACQ_pc = "Fill" /\ ACQ_pc' = "Classify"
      /\ UNCHANGED <<event, free_slot_index, event_queue_length, new_event, TC_state, downlink>>
      /\ new_event \in QSlots /\ new_event = GetFreeRecord
      /\ event_queue_length \in 0..MaxQueueLength
      /\ event_queue \in [QSlots -> EventRecords]
      /\ \A m \in QSlots : m # new_event => event_queue'[m] = event_queue[m]
  BY DEF HandleAcquisition_Fill, ACQ_Runs, TC_TaskIdle, link, TC_task, StoreInv, HandInv, TypeOK,
         StoreType, ThreadsType
<1>2. Stable /\ Stable' /\ Settled' = Settled /\ InFile' = InFile
  BY <1>1 DEF Stable, Settled, InFile
<1>3. WaitingCount = event_queue_length
  BY <1>1 DEF WaitingCount
<1>4. CASE event_queue_length < MaxQueueLength
  <2>1. WaitingCount' = WaitingCount /\ new_event = WaitingCount
    BY <1>1, <1>3, <1>4 DEF WaitingCount, GetFreeRecord
  <2>2. \A n \in 1..WaitingCount : n - 1 \in QSlots /\ n - 1 # new_event
    BY <1>1, <1>3, <1>4, <2>1, StoreAssumption DEF QSlots
  <2>3. Waiting' = Waiting
    BY <1>1, <2>1, <2>2, SameWaiting
  <2>4. QED BY <1>1, <1>2, <2>3, Unseen
<1>5. CASE ~(event_queue_length < MaxQueueLength)
  <2>1. /\ WaitingCount = MaxQueueLength /\ new_event = MaxQueueLength - 1
        /\ WaitingCount' = MaxQueueLength - 1 /\ MaxQueueLength \in Nat \ {0}
    BY <1>1, <1>3, <1>5, StoreAssumption DEF WaitingCount, GetFreeRecord
  <2>2. TC_state = "SC_TM_e"
    BY <1>3, <2>1 DEF StoreInv, HandInv
  <2>3. Clearing = FALSE /\ Clearing' = FALSE
    BY <1>1 DEF Clearing
  <2>4. Sending /\ Sending' = Sending
    BY <1>1, <2>2, <2>3 DEF Sending
  <2>5. File' = File /\ Sent' = Sent
    BY <1>1, <1>2, <2>3, <2>4 DEF File, Sent
  <2>6. Len(Waiting) = MaxQueueLength
    BY <2>1, WaitingLength
  <2>7. \A n \in 1..(MaxQueueLength - 1) : event_queue'[n - 1] = Waiting[n]
    <3>1. ASSUME NEW n \in 1..(MaxQueueLength - 1)
          PROVE  n - 1 \in QSlots /\ n - 1 # new_event /\ n \in 1..WaitingCount
      BY <2>1 DEF QSlots
    <3>2. QED BY <1>1, <3>1, WaitingLength
  <2>8. Waiting' = [n \in 1..(MaxQueueLength - 1) |-> Waiting[n]]
    BY <2>1, <2>7 DEF Waiting
  <2>9. Waiting' = SubSeq(Waiting, 1, MaxQueueLength - 1)
    BY <2>1, <2>6, <2>8, WaitingLength
  <2>10. SF!Overflow
    BY <2>3, <2>4, <2>5, <2>6, <2>9 DEF SF!Overflow
  <2>11. QED BY <2>10 DEF SF!Next
<1>6. QED BY <1>4, <1>5

\* The other steps of the Acquisition task.
LEMMA GetSeen ==
  ASSUME TypeOK, StoreInv, HandleAcquisition_Get PROVE UNCHANGED SF!vars
<1>1. /\ TC_pc = "WaitMail" /\ TC_pc' = "WaitMail" /\ ACQ_pc # "Copy" /\ ACQ_pc' # "Copy"
      /\ UNCHANGED <<event, free_slot_index, event_queue, TC_state, downlink>>
  BY DEF HandleAcquisition_Get, ACQ_Runs, TC_TaskIdle, store, link, TC_task
<1>2. Stable /\ Stable' /\ Settled' = Settled /\ InFile' = InFile
  BY <1>1 DEF Stable, Settled, InFile
<1>3. WaitingCount' = WaitingCount
  BY DEF HandleAcquisition_Get, WaitingCount, store
<1>4. Waiting' = Waiting
  BY <1>1, <1>3, SameWaiting
<1>5. QED BY <1>1, <1>2, <1>4, Unseen

LEMMA SearchSeen ==
  ASSUME TypeOK, StoreInv, RecordEvent_Full \/ RecordEvent_FindMin PROVE UNCHANGED SF!vars
<1>1. /\ TC_pc = "WaitMail" /\ TC_pc' = "WaitMail" /\ ACQ_pc # "Copy" /\ ACQ_pc' # "Copy"
      /\ UNCHANGED <<event, free_slot_index, event_queue, event_queue_length, new_event,
                     TC_state, downlink>>
      /\ ACQ_pc \in Acquired /\ ACQ_pc' \in {"FindMin", "Found"}
      /\ TC_state # "SC_TM_e"
  BY DEF RecordEvent_Full, RecordEvent_FindMin, ACQ_Runs, TC_TaskIdle, store, link, TC_task,
         Acquired, StoreInv, TurnInv
<1>2. Stable /\ Stable' /\ Settled' = Settled /\ InFile' = InFile
  BY <1>1 DEF Stable, Settled, InFile
<1>3. WaitingCount = 0 /\ event_queue_length = 0
  BY <1>1, HandIsHead
<1>4. WaitingCount' = 0
  BY <1>1, <1>3 DEF WaitingCount
<1>5. Waiting' = Waiting
  <2>1. \A n \in 1..WaitingCount : event_queue'[n - 1] = event_queue[n - 1]
    BY <1>1
  <2>2. QED BY <1>3, <1>4, <2>1, SameWaiting
<1>6. QED BY <1>1, <1>2, <1>5, Unseen

LEMMA ClassifySeen ==
  ASSUME TypeOK, StoreInv, NEW c \in Classes, NEW q \in Qualities, ClassifyEvent(c, q)
  PROVE  UNCHANGED SF!vars
<1>1. /\ TC_pc = "WaitMail" /\ TC_pc' = "WaitMail" /\ ACQ_pc = "Classify"
      /\ ACQ_pc' = "RecordEvent"
      /\ UNCHANGED <<event, free_slot_index, event_queue_length, new_event, TC_state,
                     downlink>>
      /\ event_queue' = [event_queue EXCEPT ![new_event] =
                           [@ EXCEPT !.classification = c, !.quality_number = q]]
  BY DEF ClassifyEvent, ACQ_Runs, TC_TaskIdle, link, TC_task
<1>2. Stable /\ Stable' /\ Settled' = Settled /\ InFile' = InFile
  BY <1>1 DEF Stable, Settled, InFile
<1>3. WaitingCount' = WaitingCount
  BY <1>1 DEF WaitingCount
<1>4. /\ new_event = GetFreeRecord /\ new_event \in QSlots
      /\ event_queue_length \in 0..MaxQueueLength
      /\ event_queue \in [QSlots -> EventRecords]
  BY <1>1 DEF StoreInv, HandInv, TypeOK, StoreType, ThreadsType
<1>5. \A m \in QSlots : m # new_event => event_queue'[m] = event_queue[m]
  BY <1>1, <1>4
<1>6. WaitingCount <= new_event /\ WaitingCount \in Nat
  BY <1>1, <1>4, StoreAssumption DEF WaitingCount, GetFreeRecord, QSlots
<1>7. ASSUME NEW n \in 1..WaitingCount PROVE n - 1 \in QSlots /\ n - 1 # new_event
  BY <1>4, <1>6, StoreAssumption DEF QSlots
<1>8. Waiting' = Waiting
  BY <1>3, <1>5, <1>7, SameWaiting
<1>9. QED BY <1>1, <1>2, <1>8, Unseen

LEMMA CopySeen ==
  ASSUME TypeOK, StoreInv, RecordEvent_Copy PROVE UNCHANGED SF!vars
<1>1. Settled' = Settled /\ InFile' = InFile
  BY CopyStep
<1>2. /\ Stable /\ Stable' /\ UNCHANGED <<TC_state, downlink, event_queue>>
  BY DEF RecordEvent_Copy, Stable, ACQ_Runs, TC_TaskIdle, link, TC_task
<1>3. WaitingCount' = WaitingCount
  BY HandIsHead DEF RecordEvent_Copy, WaitingCount, Acquired, StoreInv, TurnInv
<1>4. Waiting' = Waiting
  BY <1>2, <1>3, SameWaiting
<1>5. QED BY <1>1, <1>2, <1>4, Unseen

\* The queue grows by the event in hand.
LEMMA DeferSeen ==
  ASSUME TypeOK, StoreInv, RecordEvent_Defer
  PROVE  SF!Wait(event_queue[new_event]) /\ event_queue[new_event] \in HitEvents
<1>1. /\ ACQ_pc = "RecordEvent" /\ new_event = WaitingCount /\ WaitingCount' = WaitingCount + 1
      /\ new_event \in QSlots /\ event_queue[new_event] \in HitEvents
  BY DeferStep
<1>2. /\ TC_pc = "WaitMail" /\ TC_state = "SC_TM_e" /\ ACQ_pc' = "WaitMail"
      /\ UNCHANGED <<event, free_slot_index, event_queue, TC_pc, TC_state, downlink>>
  BY DEF RecordEvent_Defer, ACQ_Runs, TC_TaskIdle, link, TC_task
<1>3. Clearing = FALSE /\ Clearing' = FALSE
  BY <1>2 DEF Clearing
<1>4. Sending /\ Sending' = Sending
  BY <1>2, <1>3 DEF Sending
<1>5. Settled' = Settled /\ InFile' = InFile
  BY <1>1, <1>2 DEF Settled, InFile
<1>6. File' = File /\ Sent' = Sent
  BY <1>2, <1>3, <1>4, <1>5 DEF File, Sent
<1>7. Len(Waiting) < MaxQueueLength /\ WaitingCount \in Nat
  BY <1>1, WaitingLength, StoreAssumption DEF QSlots
<1>8. Waiting' = Append(Waiting, event_queue[new_event])
  <2>1. Waiting' = [n \in 1..(WaitingCount + 1) |-> event_queue[n - 1]]
    BY <1>1, <1>2 DEF Waiting
  <2>2. Append(Waiting, event_queue[new_event]) =
          [n \in 1..(WaitingCount + 1) |->
             IF n = WaitingCount + 1 THEN event_queue[new_event] ELSE Waiting[n]]
    BY WaitingLength
  <2>3. QED BY <1>1, <1>7, <2>1, <2>2, WaitingLength
<1>9. QED BY <1>1, <1>3, <1>4, <1>6, <1>7, <1>8 DEF SF!Wait

\* The interrupt services start the transfer and send the file.
LEMMA RequestSeen ==
  ASSUME TypeOK, StoreInv, ~Preemptive, TC_InterruptService PROVE SF!Start
<1>1. ACQ_pc = "WaitMail" /\ TC_pc = "WaitMail"
  BY QuietState DEF TC_InterruptService
<1>2. /\ TC_state # "SC_TM_e" /\ TC_state' = "SC_TM_e" /\ downlink' = <<>>
      /\ UNCHANGED <<store, TC_pc, ACQ_task>>
  BY DEF TC_InterruptService, TC_task
<1>3. Clearing = FALSE /\ Clearing' = FALSE
  BY <1>1, <1>2 DEF Clearing
<1>4. Sending = FALSE /\ Sending' = TRUE
  BY <1>2, <1>3 DEF Sending
<1>5. WaitingCount' = WaitingCount /\ Settled' = Settled /\ InFile' = InFile
  BY <1>2 DEF WaitingCount, Settled, InFile, store, ACQ_task
<1>6. Waiting' = Waiting /\ File' = File
  BY <1>2, <1>3, <1>5 DEF Waiting, File, store
<1>7. Sent' = {}
  BY <1>2, <1>4 DEF Sent
<1>8. QED BY <1>3, <1>4, <1>6, <1>7 DEF SF!Start

LEMMA SentIs ==
  ASSUME TypeOK, StoreInv, Sending
  PROVE  /\ Sent = {event[n - 1] : n \in 1..telemetry_pointer}
         /\ telemetry_pointer <= free_slot_index /\ telemetry_pointer \in Nat
<1>1. /\ Len(downlink) = telemetry_pointer /\ downlink \in Seq(EventRecords)
      /\ telemetry_pointer <= free_slot_index /\ telemetry_pointer \in Nat
      /\ \A n \in 1..telemetry_pointer : downlink[n] = event[n - 1]
  BY DEF StoreInv, LinkInv, Sending, Clearing, TypeOK, LinkType
<1>2. DOMAIN downlink = 1..telemetry_pointer
  BY <1>1
<1>3. QED BY <1>1, <1>2 DEF Sent

LEMMA SendSeen ==
  ASSUME TypeOK, StoreInv, ~Preemptive, TM_InterruptService_Send
  PROVE  SF!Send(event[telemetry_pointer]) /\ event[telemetry_pointer] \in HitEvents
<1> DEFINE e == event[telemetry_pointer]
<1>1. /\ TC_state = "SC_TM_e" /\ Settled = event /\ telemetry_pointer \in InFile
      /\ ACQ_pc = "WaitMail" /\ TC_pc = "WaitMail"
  BY SendStep, QuietState DEF TM_InterruptService_Send
<1>2. /\ downlink' = Append(downlink, e)
      /\ UNCHANGED <<store, TC_state, TC_pc, ACQ_task>>
  BY DEF TM_InterruptService_Send, TC_task
<1>3. Clearing = FALSE /\ Clearing' = FALSE
  BY <1>1, <1>2 DEF Clearing
<1>4. Sending = TRUE /\ Sending' = TRUE
  BY <1>1, <1>2, <1>3 DEF Sending
<1>5. WaitingCount' = WaitingCount /\ Settled' = Settled /\ InFile' = InFile
  BY <1>2 DEF WaitingCount, Settled, InFile, store, ACQ_task
<1>6. Waiting' = Waiting /\ File' = File /\ File = {event[m] : m \in InFile}
  BY <1>1, <1>2, <1>3, <1>5 DEF Waiting, File, store
<1>7. e \in File /\ e \in HitEvents /\ \A m \in InFile : m # telemetry_pointer => event[m] # e
  BY <1>1, <1>3, <1>6 DEF StoreInv, FileInv, Clearing, Stable
<1>8. e \notin Sent
  <2>1. ASSUME NEW n \in 1..telemetry_pointer
        PROVE  n - 1 \in InFile /\ n - 1 # telemetry_pointer
    BY <1>1, FileRecords
  <2>2. QED BY <1>4, <1>7, <2>1, SentIs
<1>9. Sent' = Sent \cup {e}
  <2>1. downlink \in Seq(EventRecords)
    BY DEF TypeOK, LinkType
  <2>2. /\ DOMAIN downlink' = 1..(Len(downlink) + 1) /\ DOMAIN downlink = 1..Len(downlink)
        /\ Len(downlink) \in Nat /\ downlink'[Len(downlink) + 1] = e
        /\ \A n \in 1..Len(downlink) : downlink'[n] = downlink[n]
    BY <1>2, <2>1
  <2>3. QED BY <1>4, <2>2 DEF Sent
<1>10. QED BY <1>3, <1>4, <1>6, <1>7, <1>8, <1>9 DEF SF!Send

LEMMA ReadySeen ==
  ASSUME TypeOK, StoreInv, ~Preemptive, TM_InterruptService_Ready PROVE UNCHANGED SF!vars
<1>1. Stable /\ Stable' /\ UNCHANGED <<store, ACQ_task, TC_state, downlink>>
  BY QuietState DEF TM_InterruptService_Ready, Stable, link, TC_task
<1>2. Settled' = Settled /\ InFile' = InFile /\ Waiting' = Waiting
  BY <1>1 DEF Settled, InFile, Waiting, WaitingCount, store, ACQ_task
<1>3. QED BY <1>1, <1>2, Unseen

----------------------------------------------------------------------------
(* The Telecommand Execution task: the file is cleared when the counters   *)
(* are, and the events of the queue are the file from then on.             *)

LEMMA MailSeen ==
  ASSUME TypeOK, StoreInv,
         HandleTelecommand_Wait \/ HandleTelecommand_Ignore \/ HandleTelecommand_Ready
  PROVE  UNCHANGED SF!vars
<1>1. Stable /\ Stable' /\ UNCHANGED <<store, ACQ_task, TC_state, downlink>>
  BY DEF HandleTelecommand_Wait, HandleTelecommand_Ignore, HandleTelecommand_Ready, Stable, link
<1>2. Settled' = Settled /\ InFile' = InFile /\ Waiting' = Waiting
  BY <1>1 DEF Settled, InFile, Waiting, WaitingCount, store, ACQ_task
<1>3. QED BY <1>1, <1>2, Unseen

LEMMA ClearSeen == ASSUME TypeOK, StoreInv, ClearEvents_Counters PROVE SF!Finish
<1>1. /\ ACQ_pc = "WaitMail" /\ TC_state = "SC_TM_e" /\ telemetry_pointer = free_slot_index
      /\ TC_pc = "ClearEvents" /\ TC_pc' = "CopyQueue"
      /\ UNCHANGED <<event_queue, event_queue_length>>
  BY ClearStep DEF ClearEvents_Counters
<1>2. Clearing = FALSE /\ Clearing' = TRUE
  BY <1>1 DEF Clearing
<1>3. Sending = TRUE /\ Sending' = FALSE
  BY <1>1, <1>2 DEF Sending
<1>4. Sent' = {}
  BY <1>3 DEF Sent
<1>5. Sent = File
  <2>1. File = {event[m] : m \in InFile}
    BY <1>1, <1>2, Idle DEF File
  <2>2. Sent = {event[n - 1] : n \in 1..free_slot_index}
    BY <1>1, <1>3, SentIs
  <2>3. ASSUME NEW m \in InFile PROVE m + 1 \in 1..free_slot_index /\ (m + 1) - 1 = m
    BY FileRecords
  <2>4. ASSUME NEW n \in 1..free_slot_index PROVE n - 1 \in InFile
    BY FileRecords
  <2>5. QED BY <2>1, <2>2, <2>3, <2>4
<1>6. File' = {Waiting[n] : n \in DOMAIN Waiting}
  <2>1. File' = {event_queue[m] : m \in 0..(event_queue_length - 1)}
    BY <1>1, <1>2 DEF File
  <2>2. WaitingCount = event_queue_length /\ WaitingCount \in Nat
    BY <1>1, WaitingLength, StoreAssumption DEF WaitingCount
  <2>3. {Waiting[n] : n \in DOMAIN Waiting} = {event_queue[n - 1] : n \in 1..event_queue_length}
    BY <2>2, WaitingLength
  <2>4. ASSUME NEW m \in 0..(event_queue_length - 1)
        PROVE  m + 1 \in 1..event_queue_length /\ (m + 1) - 1 = m
    BY <2>2
  <2>5. ASSUME NEW n \in 1..event_queue_length PROVE n - 1 \in 0..(event_queue_length - 1)
    BY <2>2
  <2>6. QED BY <2>1, <2>3, <2>4, <2>5
<1>7. QED BY <1>2, <1>3, <1>4, <1>5, <1>6 DEF SF!Finish

LEMMA MoveSeen == ASSUME TypeOK, StoreInv, ClearEvents_Copy PROVE UNCHANGED SF!vars
<1>1. Clearing = TRUE /\ Clearing' = TRUE
  BY DEF ClearEvents_Copy, Clearing
<1>2. Sending = FALSE /\ Sending' = FALSE
  BY <1>1 DEF Sending
<1>3. File' = File /\ Sent' = Sent
  BY <1>1, <1>2 DEF ClearEvents_Copy, File, Sent
<1>4. /\ (IF Clearing THEN <<>> ELSE Waiting) = <<>>
      /\ (IF Clearing' THEN <<>> ELSE Waiting') = <<>>
  BY <1>1
<1>5. Sending' = Sending
  BY <1>2
<1>6. QED BY <1>3, <1>4, <1>5 DEF SF!vars

LEMMA FinishSeen == ASSUME TypeOK, StoreInv, ClearEvents_Finish PROVE UNCHANGED SF!vars
<1>1. Clearing = TRUE /\ Clearing' = FALSE /\ TC_state' = "TC_handling_e"
  BY DEF ClearEvents_Finish, Clearing
<1>2. Sending = FALSE /\ Sending' = FALSE
  BY <1>1 DEF Sending
<1>3. Sent' = Sent
  BY <1>2 DEF Sent
<1>4. Waiting' = <<>>
  BY FinishStep DEF Waiting
<1>5. File' = File
  <2>1. File = {event_queue[m] : m \in 0..(event_queue_length - 1)}
    BY <1>1 DEF File
  <2>2. File' = {event[m] : m \in InFile'} /\ InFile' = {m \in QSlots : m < event_queue_length}
    BY <1>1, FinishStep DEF File
  <2>3. {m \in QSlots : m < event_queue_length} = 0..(event_queue_length - 1)
    BY StoreAssumption DEF TypeOK, StoreType, QSlots
  <2>4. \A m \in QSlots : m < event_queue_length => event[m] = event_queue[m]
    BY FinishStep
  <2>5. QED BY <2>1, <2>2, <2>3, <2>4
<1>6. QED BY <1>1, <1>2, <1>3, <1>4, <1>5 DEF SF!vars

----------------------------------------------------------------------------

LEMMA FileStarts == Init => SF!Init
<1> SUFFICES ASSUME Init PROVE SF!Init
  OBVIOUS
<1>1. Clearing = FALSE /\ Sending = FALSE
  BY DEF Init, Clearing, Sending
<1>2. InFile = {} /\ WaitingCount = 0
  BY Indices DEF Init, InFile, WaitingCount
<1>3. File = {} /\ Sent = {} /\ Waiting = <<>>
  BY <1>1, <1>2 DEF File, Sent, Waiting
<1>4. QED BY <1>1, <1>3 DEF SF!Init

LEMMA FileSteps ==
  ASSUME ~Preemptive, MaxResets = 0, TypeOK, StoreInv, [Next]_vars
  PROVE  [SF!Next]_SF!vars
<1>1. ~Boot_KeepsData /\ ~Boot_ClearsData
  BY DEF Boot_KeepsData, Boot_ClearsData, StoreInv, TurnInv
<1>2. CASE UNCHANGED vars
  BY <1>2 DEF vars, store, link, TC_task, ACQ_task, SF!vars, File, Sent, Sending, Clearing,
     Waiting, WaitingCount, Settled, InFile
<1>3. CASE ACQ_Step
  <2>1. CASE RecordEvent_Store
    BY <2>1, StoreRecords, StoreEffect DEF SF!Next
  <2>2. CASE RecordEvent_Defer
    BY <2>2, DeferSeen DEF SF!Next
  <2>3. CASE HandleAcquisition_Get \/ RecordEvent_Copy
    BY <2>3, GetSeen, CopySeen
  <2>4. CASE RecordEvent_Full \/ RecordEvent_FindMin
    BY <2>4, SearchSeen
  <2>5. CASE \E u \in Units : HandleAcquisition_Fill(u)
    BY <2>5, FillSeen
  <2>6. CASE \E c \in Classes : \E q \in Qualities : ClassifyEvent(c, q)
    BY <2>6, ClassifySeen
  <2>7. QED BY <1>3, <2>1, <2>2, <2>3, <2>4, <2>5, <2>6, Zenon DEF ACQ_Step
<1>4. CASE TC_Step
  <2>1. CASE ClearEvents_Counters
    BY <2>1, ClearSeen DEF SF!Next
  <2>2. QED BY <1>4, <2>1, MailSeen, MoveSeen, FinishSeen DEF TC_Step
<1>5. CASE TC_InterruptService
  BY <1>5, RequestSeen DEF SF!Next
<1>6. CASE TM_InterruptService
  <2>1. CASE TM_InterruptService_Send
    BY <2>1, SendSeen DEF SF!Next
  <2>2. QED BY <1>6, <2>1, ReadySeen DEF TM_InterruptService
<1>7. QED BY <1>1, <1>2, <1>3, <1>4, <1>5, <1>6 DEF Next

(* Until the first reset, and with handlers that run to their end, the     *)
(* Science Data store is a ScienceFile: HandleAcquisition, RecordEvent,    *)
(* the interrupt services and ClearEvents lose no event but the worst of a *)
(* full file and the last of a full queue, and clear no event that was not *)
(* sent.                                                                   *)
THEOREM FileImplemented ==
  ASSUME ~Preemptive, MaxResets = 0 PROVE Spec => ImplementsScienceFile
<1>1. TypeOK /\ StoreInv /\ [Next]_vars => [SF!Next]_SF!vars
  BY FileSteps
<1>2. QED BY FileStarts, <1>1, TypeCorrect, StoreInvariant, PTL
      DEF Spec, SF!Spec, ImplementsScienceFile

(* As many different events are in the file as free_slot_index says, while *)
(* RecordEvent reserves, searches and copies (and ClearEvents is not half  *)
(* way through the file).                                                  *)
THEOREM DistinctCorrect ==
  ASSUME ~Preemptive, MaxResets = 0 PROVE Spec => []FileHoldsDistinctEvents
<1>1. TypeOK /\ StoreInv => FileHoldsDistinctEvents
  BY FileSize DEF FileHoldsDistinctEvents
<1>2. QED BY <1>1, TypeCorrect, StoreInvariant, PTL

=============================================================================
