---------------------------- MODULE ScienceData ----------------------------
(***************************************************************************)
(* The Science Data store of the DEBIE-1 DPU software (telem.c) and the    *)
(* four threads that share it:                                             *)
(*                                                                         *)
(*   - the Acquisition task fills a record of the event queue and calls    *)
(*     RecordEvent;                                                        *)
(*   - the TC interrupt service starts Science Telemetry;                  *)
(*   - the TM interrupt service sends the file, then mails TM_READY;       *)
(*   - the Telecommand Execution task reacts to TM_READY by calling        *)
(*     ClearEvents, which empties the file and moves the queue into it.    *)
(*                                                                         *)
(* A step of this module is what one thread does without a point at which  *)
(* a thread of higher priority could see or change the state: a section    *)
(* between DISABLE_ and ENABLE_INTERRUPT_MASTER is one step.  The kernel   *)
(* is external: kernobj.h gives the priorities (TC_TM above ACQUISITION),  *)
(* and Preemptive says whether an interrupt can find a thread half way     *)
(* (the flight kernel) or every handler runs to its end before the next    *)
(* one starts (the harness of the benchmark).                              *)
(***************************************************************************)
EXTENDS Integers, Sequences, Bytes

CONSTANTS
  MaxEvents,        \* max_events: records in science_data.event
  MaxQueueLength,   \* MAX_QUEUE_LENGTH
  Units,            \* the Sensor Units SU_1..SU_4
  Classes,          \* the classes 1..NUM_CLASSES of ClassifyEvent
  Qualities,        \* quality numbers
  CounterLimit,     \* 0xFF, where an event counter saturates
  HitsLimit,        \* 0xFFFF, where an SU_hits counter saturates
  MailCapacity,     \* mails the kernel keeps for one mailbox (external)
  Preemptive,       \* see above
  MaxHits,          \* bound of the model: hits that are acquired
  MaxRequests,      \* bound of the model: Send Science Data File TCs
  MaxResets         \* bound of the model: resets

ASSUME StoreAssumption ==
  /\ MaxEvents \in Nat \ {0}
  /\ MaxQueueLength \in Nat \ {0}
  /\ MaxQueueLength < MaxEvents     \* the NOTE in ClearEvents
  /\ Units \subseteq Nat \ {0}
  /\ Classes \subseteq Nat \ {0}
  /\ Qualities \subseteq Nat
  /\ CounterLimit \in Nat
  /\ HitsLimit \in Nat
ASSUME KernelAssumption ==
  /\ MailCapacity \in Nat \ {0}
  /\ Preemptive \in BOOLEAN
ASSUME BoundAssumption ==
  /\ MaxHits \in Nat
  /\ MaxRequests \in Nat
  /\ MaxResets \in Nat

VARIABLES
  \* Science Data memory and event queue
  event,               \* science_data.event
  free_slot_index,     \* first free record, or MaxEvents
  event_queue,         \* the queue of event records
  event_queue_length,  \* records of the queue in use
  counters,            \* event_counter, SU_hits and counter_checksum
  \* Science Telemetry
  TC_state,            \* only SC_TM_e is told apart from TC_handling_e
  TM_mask,             \* the TM interrupt is enabled
  telemetry_pointer,   \* records of the file sent so far
  telemetry_end,       \* records the file holds, telemetry_end_pointer
  downlink,            \* what the spacecraft received of the current file
  \* threads
  TC_mailbox,          \* mails to the Telecommand Execution task
  TC_pc,               \* where the Telecommand Execution task is
  TC_mail,             \* the mail it handles
  copied,              \* i of the copy loop in ClearEvents
  ACQ_pc,              \* where the Acquisition task is
  new_event,           \* queue index that GetFreeRecord returned
  record_index,        \* record_index of RecordEvent
  \* bounds
  hits, requests, resets

store    == <<event, free_slot_index, event_queue, event_queue_length, counters>>
link     == <<TC_state, TM_mask, telemetry_pointer, telemetry_end, downlink>>
TC_task  == <<TC_pc, TC_mail, copied>>
ACQ_task == <<ACQ_pc, new_event, record_index>>
bounds   == <<hits, requests, resets>>
vars     == <<store, link, TC_mailbox, TC_task, ACQ_task, bounds>>

Slots  == 0..(MaxEvents - 1)
QSlots == 0..(MaxQueueLength - 1)

\* An event record: the hit it describes (hit_time), the Sensor Unit, and
\* what ClassifyEvent computes.  Hits are numbered in the order in which
\* they are acquired, so the number stands for the time of the hit.
EventRecords ==
  [hit_time : Nat, SU_number : Units \cup {0},
   classification : Classes \cup {0}, quality_number : Qualities \cup {0}]
EmptyRecord ==
  [hit_time |-> 0, SU_number |-> 0, classification |-> 0, quality_number |-> 0]

----------------------------------------------------------------------------
(* Event counters *)

CounterRecords ==
  [event_counter    : [Units \X Classes -> 0..CounterLimit],
   SU_hits          : [Units -> 0..HitsLimit],
   counter_checksum : Int]
NoCounters ==
  [event_counter    |-> [k \in Units \X Classes |-> 0],
   SU_hits          |-> [u \in Units |-> 0],
   counter_checksum |-> 0]

\* Fault: one guard for both counters, so SU_hits stops with the class counter.
IncrementCounters_OneGuard(c, e) ==
  LET k   == <<e.SU_number, e.classification>>
      old == c.event_counter[k]
  IN  IF old < CounterLimit
        THEN [c EXCEPT !.SU_hits[e.SU_number] = @ + 1,
                       !.event_counter[k]     = old + 1,
                       !.counter_checksum     = XorByte(XorByte(@, old), old + 1)]
        ELSE c

\* IncrementCounters(sensor_unit, classification) for the event record e.
IncrementCounters(c, e) ==
  LET k    == <<e.SU_number, e.classification>>
      old  == c.event_counter[k]
      room == old < CounterLimit
  IN  [event_counter    |-> [c.event_counter EXCEPT ![k] = IF room THEN old + 1 ELSE old],
       SU_hits          |-> [c.SU_hits EXCEPT
                               ![e.SU_number] = IF @ < HitsLimit THEN @ + 1 ELSE @],
       counter_checksum |-> IF room
                              THEN XorByte(XorByte(c.counter_checksum, old), old + 1)
                              ELSE c.counter_checksum]

----------------------------------------------------------------------------
(* Scheduling (external: the RTX-51 kernel and the interrupt system) *)

TC_TaskIdle == TC_pc = "WaitMail" /\ TC_mailbox = <<>>
Quiet       == TC_TaskIdle /\ ACQ_pc = "WaitMail"

\* An interrupt is taken between two steps of a task.
InterruptTaken == Preemptive \/ Quiet

\* The Acquisition task runs when the Telecommand Execution task waits.
ACQ_Runs == TC_TaskIdle

\* isr_send_message: a mail to a full mailbox is refused (NOT_OK) and lost.
Send_ISR_Mail(message) ==
  TC_mailbox' = IF Len(TC_mailbox) < MailCapacity
                  THEN Append(TC_mailbox, message) ELSE TC_mailbox

----------------------------------------------------------------------------
(* The Acquisition task *)

\* GetFreeRecord: the first free record of the queue, or its last record.
GetFreeRecord ==
  IF event_queue_length < MaxQueueLength
    THEN event_queue_length ELSE MaxQueueLength - 1

\* Fault: the record is reserved when it is handed out, before it is filled.
HandleAcquisition_Get_Reserves ==
  /\ ACQ_pc = "WaitMail" /\ ACQ_Runs /\ hits < MaxHits
  /\ new_event' = GetFreeRecord
  /\ event_queue_length' =
       IF TC_state = "SC_TM_e" /\ event_queue_length < MaxQueueLength
         THEN event_queue_length + 1 ELSE event_queue_length
  /\ hits' = hits + 1
  /\ ACQ_pc' = "Fill"
  /\ UNCHANGED <<event, free_slot_index, event_queue, counters, link,
                 TC_mailbox, TC_task, record_index, requests, resets>>

\* A mail with a valid trigger_unit whose event is accepted.
HandleAcquisition_Get ==
  /\ ACQ_pc = "WaitMail" /\ ACQ_Runs /\ hits < MaxHits
  /\ new_event' = GetFreeRecord
  /\ hits' = hits + 1
  /\ ACQ_pc' = "Fill"
  /\ UNCHANGED <<store, link, TC_mailbox, TC_task, record_index,
                 requests, resets>>

HandleAcquisition_Fill(u) ==
  /\ ACQ_pc = "Fill" /\ ACQ_Runs
  /\ event_queue' = [event_queue EXCEPT
                      ![new_event] = [@ EXCEPT !.SU_number = u, !.hit_time = hits]]
  /\ ACQ_pc' = "Classify"
  /\ UNCHANGED <<event, free_slot_index, event_queue_length, counters, link,
                 TC_mailbox, TC_task, new_event, record_index, bounds>>

ClassifyEvent(c, q) ==
  /\ ACQ_pc = "Classify" /\ ACQ_Runs
  /\ event_queue' = [event_queue EXCEPT
                      ![new_event] = [@ EXCEPT !.classification = c, !.quality_number = q]]
  /\ ACQ_pc' = "RecordEvent"
  /\ UNCHANGED <<event, free_slot_index, event_queue_length, counters, link,
                 TC_mailbox, TC_task, new_event, record_index, bounds>>

\* Fault: of records of equal quality the newest is replaced.
FindMinQualityRecord_Newest ==
  {i \in Slots : \A j \in Slots :
     \/ event[i].quality_number < event[j].quality_number
     \/ /\ event[i].quality_number = event[j].quality_number
        /\ event[i].hit_time >= event[j].hit_time}

\* The search for the record of least quality, the oldest of those, the first
\* of those: the set of its one possible result.
FindMinQualityRecord ==
  LET Before(i, j) ==
        \/ event[i].quality_number < event[j].quality_number
        \/ /\ event[i].quality_number = event[j].quality_number
           /\ \/ event[i].hit_time < event[j].hit_time
              \/ event[i].hit_time = event[j].hit_time /\ i < j
  IN  {i \in Slots : \A j \in Slots \ {i} : Before(i, j)}

\* RecordEvent finds the memory full and no Science Telemetry, and enables
\* interrupts for the time of the search.
RecordEvent_Full ==
  /\ ACQ_pc = "RecordEvent" /\ ACQ_Runs
  /\ free_slot_index >= MaxEvents /\ TC_state # "SC_TM_e"
  /\ ACQ_pc' = "FindMin"
  /\ UNCHANGED <<store, link, TC_mailbox, TC_task, new_event, record_index, bounds>>

RecordEvent_FindMin ==
  /\ ACQ_pc = "FindMin" /\ ACQ_Runs
  /\ record_index' \in FindMinQualityRecord
  /\ ACQ_pc' = "Found"
  /\ UNCHANGED <<store, link, TC_mailbox, TC_task, new_event, bounds>>

\* Fault: no check for a full queue.
RecordEvent_Defer_NoLimit ==
  /\ ACQ_pc \in {"RecordEvent", "Found"} /\ ACQ_Runs
  /\ TC_state = "SC_TM_e"
  /\ event_queue_length' = event_queue_length + 1
  /\ ACQ_pc' = "WaitMail"
  /\ UNCHANGED <<event, free_slot_index, event_queue, counters, link,
                 TC_mailbox, TC_task, new_event, record_index, bounds>>

\* Science Telemetry is in progress: the event stays in the queue.
RecordEvent_Defer ==
  /\ ACQ_pc \in {"RecordEvent", "Found"} /\ ACQ_Runs
  /\ TC_state = "SC_TM_e"
  /\ event_queue_length' = IF event_queue_length < MaxQueueLength
                             THEN event_queue_length + 1 ELSE event_queue_length
  /\ ACQ_pc' = "WaitMail"
  /\ UNCHANGED <<event, free_slot_index, event_queue, counters, link,
                 TC_mailbox, TC_task, new_event, record_index, bounds>>

\* The section with interrupts disabled, in which a record is reserved and
\* the counters are incremented for the first element of the queue.
StoreBlocked ==
  /\ IF free_slot_index < MaxEvents
       THEN /\ record_index' = free_slot_index
            /\ event' = [event EXCEPT ![free_slot_index] = [@ EXCEPT !.quality_number = 0]]
            /\ free_slot_index' = free_slot_index + 1
       ELSE UNCHANGED <<record_index, event, free_slot_index>>
  /\ counters' = IncrementCounters(counters, event_queue[0])
  /\ ACQ_pc' = "Copy"
  /\ UNCHANGED <<event_queue, event_queue_length, link, TC_mailbox, TC_task,
                 new_event, bounds>>

\* Fault: TC_state is tested before the search only.
RecordEvent_Store_OneTest ==
  /\ \/ ACQ_pc = "RecordEvent" /\ free_slot_index < MaxEvents /\ TC_state # "SC_TM_e"
     \/ ACQ_pc = "Found"
  /\ ACQ_Runs
  /\ StoreBlocked

\* Fault: TC_state is not tested unless the memory is full.
RecordEvent_Store_NoTest ==
  /\ \/ ACQ_pc = "RecordEvent" /\ free_slot_index < MaxEvents
     \/ ACQ_pc = "Found" /\ TC_state # "SC_TM_e"
  /\ ACQ_Runs
  /\ StoreBlocked

RecordEvent_Store ==
  /\ \/ ACQ_pc = "RecordEvent" /\ free_slot_index < MaxEvents
     \/ ACQ_pc = "Found"
  /\ ACQ_Runs
  /\ TC_state # "SC_TM_e"
  /\ StoreBlocked

\* The copy to the reserved record, with interrupts enabled again.
RecordEvent_Copy ==
  /\ ACQ_pc = "Copy" /\ ACQ_Runs
  /\ event' = IF event_queue[0].quality_number >= event[record_index].quality_number
                THEN [event EXCEPT ![record_index] = event_queue[0]] ELSE event
  /\ ACQ_pc' = "WaitMail"
  /\ UNCHANGED <<free_slot_index, event_queue, event_queue_length, counters, link,
                 TC_mailbox, TC_task, new_event, record_index, bounds>>

----------------------------------------------------------------------------
(* Interrupt services *)

\* TC_InterruptService for an accepted Send Science Data File.  In SC_TM_e
\* the service returns at once and the TC is lost.  The first two bytes are
\* part of the file header, so no event record is sent yet.
TC_InterruptService ==
  /\ InterruptTaken /\ requests < MaxRequests
  /\ TC_state # "SC_TM_e"
  /\ Send_ISR_Mail("SEND_SCIENCE_DATA_FILE")
  /\ telemetry_pointer' = 0
  /\ telemetry_end' = free_slot_index
  /\ downlink' = <<>>
  /\ TC_state' = "SC_TM_e"
  /\ TM_mask' = TRUE
  /\ requests' = requests + 1
  /\ UNCHANGED <<store, TC_task, ACQ_task, hits, resets>>

\* TM_InterruptService: one step stands for the interrupts that send the
\* two-byte words of one event record.
TM_InterruptService_Send ==
  /\ InterruptTaken /\ TM_mask
  /\ telemetry_pointer < telemetry_end
  /\ downlink' = Append(downlink, event[telemetry_pointer])
  /\ telemetry_pointer' = telemetry_pointer + 1
  /\ UNCHANGED <<store, TC_state, TM_mask, telemetry_end, TC_mailbox, TC_task,
                 ACQ_task, bounds>>

\* Fault: the interrupt is masked together with the mail, which may be lost.
TM_InterruptService_Ready_Once ==
  /\ InterruptTaken /\ TM_mask
  /\ telemetry_pointer >= telemetry_end
  /\ Send_ISR_Mail("TM_READY")
  /\ TM_mask' = FALSE
  /\ UNCHANGED <<store, TC_state, telemetry_pointer, telemetry_end, downlink,
                 TC_task, ACQ_task, bounds>>

\* Every TM interrupt after the last word mails TM_READY again.
TM_InterruptService_Ready ==
  /\ InterruptTaken /\ TM_mask
  /\ telemetry_pointer >= telemetry_end
  /\ Send_ISR_Mail("TM_READY")
  /\ UNCHANGED <<store, link, TC_task, ACQ_task, bounds>>

----------------------------------------------------------------------------
(* The Telecommand Execution task *)

HandleTelecommand_Wait ==
  /\ TC_pc = "WaitMail" /\ TC_mailbox # <<>>
  /\ TC_mail' = Head(TC_mailbox)
  /\ TC_mailbox' = Tail(TC_mailbox)
  /\ TC_pc' = "Mail"
  /\ UNCHANGED <<store, link, copied, ACQ_task, bounds>>

\* A mail with no effect on the store: Send Science Data File has been
\* served by the interrupt service, and a TM_READY that finds the task in
\* TC_handling_e matches no telecommand.
HandleTelecommand_Ignore ==
  /\ TC_pc = "Mail"
  /\ TC_state # "SC_TM_e" \/ TC_mail # "TM_READY"
  /\ TC_pc' = "WaitMail"
  /\ UNCHANGED <<store, link, TC_mailbox, TC_mail, copied, ACQ_task, bounds>>

HandleTelecommand_Ready ==
  /\ TC_pc = "Mail" /\ TC_state = "SC_TM_e" /\ TC_mail = "TM_READY"
  /\ TM_mask' = FALSE
  /\ TC_pc' = "ClearEvents"
  /\ UNCHANGED <<store, TC_state, telemetry_pointer, telemetry_end, downlink,
                 TC_mailbox, TC_mail, copied, ACQ_task, bounds>>

ClearEvents_Counters ==
  /\ TC_pc = "ClearEvents"
  /\ counters' = [NoCounters EXCEPT !.counter_checksum = counters.counter_checksum]
  /\ copied' = 0
  /\ TC_pc' = "CopyQueue"
  /\ UNCHANGED <<event, free_slot_index, event_queue, event_queue_length, link,
                 TC_mailbox, TC_mail, ACQ_task, bounds>>

\* Fault: the loop copies the first record of the queue every time.
ClearEvents_Copy_SameRecord ==
  /\ TC_pc = "CopyQueue" /\ copied < event_queue_length
  /\ event' = [event EXCEPT ![copied] = event_queue[0]]
  /\ counters' = IncrementCounters(counters, event_queue[0])
  /\ copied' = copied + 1
  /\ UNCHANGED <<free_slot_index, event_queue, event_queue_length, link,
                 TC_mailbox, TC_pc, TC_mail, ACQ_task, bounds>>

\* Fault: events of the queue are not counted when they are moved.
ClearEvents_Copy_Uncounted ==
  /\ TC_pc = "CopyQueue" /\ copied < event_queue_length
  /\ event' = [event EXCEPT ![copied] = event_queue[copied]]
  /\ copied' = copied + 1
  /\ UNCHANGED <<free_slot_index, event_queue, event_queue_length, counters,
                 link, TC_mailbox, TC_pc, TC_mail, ACQ_task, bounds>>

ClearEvents_Copy ==
  /\ TC_pc = "CopyQueue" /\ copied < event_queue_length
  /\ event' = [event EXCEPT ![copied] = event_queue[copied]]
  /\ counters' = IncrementCounters(counters, event_queue[copied])
  /\ copied' = copied + 1
  /\ UNCHANGED <<free_slot_index, event_queue, event_queue_length, link,
                 TC_mailbox, TC_pc, TC_mail, ACQ_task, bounds>>

\* The end of ClearEvents and of HandleTelecommand.
ClearEvents_Finish ==
  /\ TC_pc = "CopyQueue" /\ copied >= event_queue_length
  /\ free_slot_index' = event_queue_length
  /\ event_queue_length' = 0
  /\ counters' = [counters EXCEPT !.counter_checksum = 0]
  /\ TC_state' = "TC_handling_e"
  /\ TC_pc' = "WaitMail"
  /\ UNCHANGED <<event, event_queue, TM_mask, telemetry_pointer, telemetry_end,
                 downlink, TC_mailbox, TC_mail, copied, ACQ_task, bounds>>

----------------------------------------------------------------------------
(* Boot *)

\* Every task starts again, and InitTelecommandTask sets TC_state and masks
\* the TM interrupt.
Restart ==
  /\ TC_state' = "TC_handling_e"
  /\ TM_mask' = FALSE
  /\ TC_mailbox' = <<>>
  /\ TC_pc' = "WaitMail"
  /\ ACQ_pc' = "WaitMail"
  /\ resets' = resets + 1
  /\ UNCHANGED <<telemetry_pointer, telemetry_end, downlink, TC_mail, copied,
                 new_event, record_index, hits, requests>>

\* A watchdog or checksum reset, at any point, keeps the data RAM.
Boot_KeepsData ==
  /\ resets < MaxResets
  /\ Restart
  /\ UNCHANGED store

\* A soft or warm reset, commanded by a TC: the queue is emptied, then
\* ClearEvents runs.
Boot_ClearsData ==
  /\ resets < MaxResets
  /\ TC_TaskIdle /\ TC_state # "SC_TM_e"
  /\ Restart
  /\ free_slot_index' = 0
  /\ event_queue_length' = 0
  /\ counters' = NoCounters
  /\ UNCHANGED <<event, event_queue>>

----------------------------------------------------------------------------

\* Power-up: the RAM test leaves zeroes, Boot empties queue and counters.
Init ==
  /\ event = [i \in Slots |-> EmptyRecord]
  /\ free_slot_index = 0
  /\ event_queue = [i \in QSlots |-> EmptyRecord]
  /\ event_queue_length = 0
  /\ counters = NoCounters
  /\ TC_state = "TC_handling_e"
  /\ TM_mask = FALSE
  /\ telemetry_pointer = 0 /\ telemetry_end = 0 /\ downlink = <<>>
  /\ TC_mailbox = <<>> /\ TC_pc = "WaitMail" /\ TC_mail = "TM_READY" /\ copied = 0
  /\ ACQ_pc = "WaitMail" /\ new_event = 0 /\ record_index = 0
  /\ hits = 0 /\ requests = 0 /\ resets = 0

ACQ_Step ==
  \/ HandleAcquisition_Get
  \/ \E u \in Units : HandleAcquisition_Fill(u)
  \/ \E c \in Classes, q \in Qualities : ClassifyEvent(c, q)
  \/ RecordEvent_Full
  \/ RecordEvent_FindMin
  \/ RecordEvent_Defer
  \/ RecordEvent_Store
  \/ RecordEvent_Copy

TC_Step ==
  \/ HandleTelecommand_Wait
  \/ HandleTelecommand_Ignore
  \/ HandleTelecommand_Ready
  \/ ClearEvents_Counters
  \/ ClearEvents_Copy
  \/ ClearEvents_Finish

TM_InterruptService == TM_InterruptService_Send \/ TM_InterruptService_Ready

Next ==
  \/ ACQ_Step
  \/ TC_Step
  \/ TC_InterruptService
  \/ TM_InterruptService
  \/ Boot_KeepsData
  \/ Boot_ClearsData

Spec == Init /\ [][Next]_vars

\* The spacecraft goes on reading telemetry while the TM interrupt is
\* enabled, and the kernel runs the task of highest priority that is ready.
Fairness == WF_vars(TM_InterruptService) /\ WF_vars(TC_Step)
FairSpec == Spec /\ Fairness

----------------------------------------------------------------------------
(* Properties *)

\* A record that HandleAcquisition filled and classified.
Filled(r) == r.SU_number \in Units /\ r.classification \in Classes

StoreType ==
  /\ event \in [Slots -> EventRecords]
  /\ free_slot_index \in 0..MaxEvents
  /\ event_queue \in [QSlots -> EventRecords]
  /\ event_queue_length \in 0..MaxQueueLength
  /\ counters \in CounterRecords

LinkType ==
  /\ TC_state \in {"TC_handling_e", "SC_TM_e"}
  /\ TM_mask \in BOOLEAN
  /\ telemetry_pointer \in Nat /\ telemetry_end \in 0..MaxEvents
  /\ downlink \in Seq(EventRecords)

Mails == {"SEND_SCIENCE_DATA_FILE", "TM_READY"}

ThreadsType ==
  /\ TC_mailbox \in Seq(Mails)
  /\ TC_pc \in {"WaitMail", "Mail", "ClearEvents", "CopyQueue"}
  /\ TC_mail \in Mails
  /\ copied \in Nat
  /\ ACQ_pc \in {"WaitMail", "Fill", "Classify", "RecordEvent", "FindMin", "Found", "Copy"}
  /\ new_event \in QSlots
  /\ record_index \in Slots
  /\ hits \in Nat /\ requests \in Nat /\ resets \in Nat

\* Types of the variables: indices stay inside their arrays, the counters
\* inside their limits.
TypeOK == StoreType /\ LinkType /\ ThreadsType

\* Whoever reads an event of the queue finds one that was filled and
\* classified: ClearEvents for every record in use, RecordEvent for the first
\* record, whose SU_number and classification index the counters.
QueuedEventsAreFilled ==
  /\ \A i \in QSlots : i < event_queue_length => Filled(event_queue[i])
  /\ ACQ_pc \in {"RecordEvent", "FindMin", "Found", "Copy"} => Filled(event_queue[0])

\* Why QueuedEventsAreFilled holds: the records before the one that is being
\* acquired are filled, and the queue does not grow beyond it.
AcquisitionInProgress ==
  /\ ACQ_pc # "WaitMail" =>
       /\ \A i \in QSlots : i < new_event => Filled(event_queue[i])
       /\ event_queue_length <= new_event \/ new_event = MaxQueueLength - 1
  /\ ACQ_pc = "Classify" => event_queue[new_event].SU_number \in Units
  /\ ACQ_pc \in {"RecordEvent", "FindMin", "Found", "Copy"} =>
       Filled(event_queue[new_event])

\* ClearEvents runs in SC_TM_e, in which the TC service accepts nothing, and
\* with the TM interrupt disabled.
ClearingIsMasked ==
  TC_pc \in {"ClearEvents", "CopyQueue"} => TC_state = "SC_TM_e" /\ ~TM_mask

\* While the TM interrupt sends science data, the end pointer that the TC
\* service computed stays the end of the used records, whatever the
\* Acquisition task records meanwhile, and the pointer does not pass it.
TelemetryEndIsFileEnd ==
  TC_state = "SC_TM_e" /\ TM_mask =>
    /\ telemetry_end = free_slot_index
    /\ telemetry_pointer <= telemetry_end

\* The counters in the file header and the number of records do not change
\* while the file is sent: RecordEvent tests TC_state after every section in
\* which interrupts were enabled.
FileFrozenStep ==
  TC_state = "SC_TM_e" /\ TM_mask /\ TC_state' = "SC_TM_e" =>
    UNCHANGED <<free_slot_index, counters>>
FileFrozen == [][FileFrozenStep]_vars

\* Science Telemetry, in which every telecommand is dropped, comes to an end,
\* also when the mail that announces its end is refused by a full mailbox.
ScienceTelemetryEnds == TC_state = "SC_TM_e" ~> TC_state # "SC_TM_e"

\* The comment in RecordEvent: "In this state the event data is located always
\* to the first element of the queue."
StoredEventIsQueueHead == ACQ_pc = "Copy" => new_event = 0

=============================================================================
