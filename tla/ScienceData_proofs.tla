------------------------- MODULE ScienceData_proofs -------------------------
(***************************************************************************)
(* Theorems about ScienceData for every size of the store and the queue,   *)
(* every mailbox capacity and both kernels.  The argument: what is being   *)
(* acquired lies at the end of the queue (AcquisitionInProgress), so the   *)
(* records before it are filled; ClearEvents runs masked and in SC_TM_e    *)
(* (ClearingIsMasked), so it never changes a file that is being sent.      *)
(***************************************************************************)
EXTENDS ScienceData, TLAPS

QueueInv == TypeOK /\ QueuedEventsAreFilled /\ AcquisitionInProgress

(* The exclusive or of two integers is an integer. *)
LEMMA XorByteType == ASSUME NEW a \in Int, NEW b \in Int PROVE XorByte(a, b) \in Int
BY DEF XorByte

(* Counting a filled event keeps the counters within their limits. *)
LEMMA CountersType ==
  ASSUME NEW c \in CounterRecords, NEW e \in EventRecords, Filled(e)
  PROVE  IncrementCounters(c, e) \in CounterRecords
<1> DEFINE k == <<e.SU_number, e.classification>>
           old == c.event_counter[k]
           cnt == [c.event_counter EXCEPT ![k] = IF old < CounterLimit THEN old + 1 ELSE old]
           hit == [c.SU_hits EXCEPT ![e.SU_number] = IF @ < HitsLimit THEN @ + 1 ELSE @]
           sum == IF old < CounterLimit
                    THEN XorByte(XorByte(c.counter_checksum, old), old + 1)
                    ELSE c.counter_checksum
<1>1. e.SU_number \in Units /\ k \in Units \X Classes
  BY DEF Filled
<1>c. /\ c.event_counter \in [Units \X Classes -> 0..CounterLimit]
      /\ c.SU_hits \in [Units -> 0..HitsLimit]
      /\ c.counter_checksum \in Int
  BY DEF CounterRecords
<1>2. old \in 0..CounterLimit /\ c.SU_hits[e.SU_number] \in 0..HitsLimit
  BY <1>1, <1>c
<1>3. cnt \in [Units \X Classes -> 0..CounterLimit]
  BY <1>1, <1>2, <1>c, StoreAssumption
<1>4. hit \in [Units -> 0..HitsLimit]
  BY <1>1, <1>2, <1>c, StoreAssumption
<1>5. sum \in Int
  <2>1. c.counter_checksum \in Int /\ old \in Int /\ old + 1 \in Int
    BY <1>2, <1>c, StoreAssumption
  <2>2. XorByte(c.counter_checksum, old) \in Int
    BY <2>1, XorByteType
  <2>3. XorByte(XorByte(c.counter_checksum, old), old + 1) \in Int
    BY <2>1, <2>2, XorByteType
  <2>4. QED BY <2>1, <2>3
<1>6. IncrementCounters(c, e) =
        [event_counter |-> cnt, SU_hits |-> hit, counter_checksum |-> sum]
  BY DEF IncrementCounters
<1> HIDE DEF cnt, hit, sum
<1>7. QED BY <1>3, <1>4, <1>5, <1>6 DEF CounterRecords

(* The record updates of the actions keep the type of the record. *)
LEMMA FillType ==
  ASSUME NEW r \in EventRecords, NEW u \in Units, NEW h \in Nat
  PROVE  /\ [r EXCEPT !.SU_number = u, !.hit_time = h] \in EventRecords
         /\ [r EXCEPT !.SU_number = u, !.hit_time = h].SU_number = u
         /\ [r EXCEPT !.SU_number = u, !.hit_time = h].classification = r.classification
BY DEF EventRecords

LEMMA ClassifyType ==
  ASSUME NEW r \in EventRecords, NEW c \in Classes, NEW q \in Qualities
  PROVE  /\ [r EXCEPT !.classification = c, !.quality_number = q] \in EventRecords
         /\ [r EXCEPT !.classification = c, !.quality_number = q].SU_number = r.SU_number
         /\ [r EXCEPT !.classification = c, !.quality_number = q].classification = c
BY DEF EventRecords

LEMMA NoQualityType ==
  ASSUME NEW r \in EventRecords
  PROVE  [r EXCEPT !.quality_number = 0] \in EventRecords
BY DEF EventRecords

LEMMA ChecksumType ==
  ASSUME NEW c \in CounterRecords, NEW n \in Int
  PROVE  [c EXCEPT !.counter_checksum = n] \in CounterRecords
BY DEF CounterRecords

LEMMA NoCountersType == NoCounters \in CounterRecords
BY StoreAssumption DEF NoCounters, CounterRecords

(* The initial state satisfies the queue invariant. *)
LEMMA QueueInit == Init => QueueInv
<1> SUFFICES ASSUME Init PROVE QueueInv OBVIOUS
<1>1. EmptyRecord \in EventRecords
  BY DEF EmptyRecord, EventRecords
<1>2. NoCounters \in CounterRecords
  BY NoCountersType
<1>3. 0 \in Slots /\ 0 \in QSlots
  BY StoreAssumption DEF Slots, QSlots
<1>4. TypeOK
  <2>1. event \in [Slots -> EventRecords] /\ event_queue \in [QSlots -> EventRecords]
    BY <1>1 DEF Init
  <2>2. downlink \in Seq(EventRecords) /\ TC_mailbox \in Seq(Mails)
    BY DEF Init
  <2>3. StoreType
    BY <2>1, <1>2, <1>3, StoreAssumption DEF Init, StoreType
  <2>4. LinkType
    <3>1. 0 \in 0..MaxEvents
      BY StoreAssumption
    <3>2. QED BY <2>2, <3>1 DEF Init, LinkType
  <2>5. ThreadsType
    BY <2>2, <1>3 DEF Init, ThreadsType, Mails
  <2>6. QED BY <2>3, <2>4, <2>5 DEF TypeOK
<1>5. QueuedEventsAreFilled /\ AcquisitionInProgress
  BY StoreAssumption DEF Init, QueuedEventsAreFilled, AcquisitionInProgress, QSlots
<1>6. QED BY <1>4, <1>5 DEF QueueInv

(* Every step keeps the types: one case for each action. *)
LEMMA TypeNext == TypeOK /\ QueuedEventsAreFilled /\ [Next]_vars => TypeOK'
<1> SUFFICES ASSUME TypeOK, QueuedEventsAreFilled, [Next]_vars PROVE TypeOK' OBVIOUS
<1> USE StoreAssumption DEF TypeOK, Mails, Slots, QSlots, store, link, TC_task,
        ACQ_task, bounds
<1>1. CASE HandleAcquisition_Get
  <2>1. StoreType'
    BY <1>1 DEF HandleAcquisition_Get, GetFreeRecord, StoreType
  <2>2. LinkType'
    BY <1>1 DEF HandleAcquisition_Get, GetFreeRecord, LinkType
  <2>3. ThreadsType'
    BY <1>1 DEF HandleAcquisition_Get, GetFreeRecord, ThreadsType, StoreType
  <2>4. QED BY <2>1, <2>2, <2>3
<1>2. ASSUME NEW u \in Units, HandleAcquisition_Fill(u) PROVE TypeOK'
  <2>1. StoreType'
    <3>1. event_queue[new_event] \in EventRecords /\ hits \in Nat
      BY DEF StoreType, ThreadsType
    <3>2. QED BY <1>2, <3>1, FillType DEF HandleAcquisition_Fill, StoreType
  <2>2. LinkType'
    BY <1>2 DEF HandleAcquisition_Fill, LinkType
  <2>3. ThreadsType'
    BY <1>2 DEF HandleAcquisition_Fill, ThreadsType
  <2>4. QED BY <2>1, <2>2, <2>3
<1>3. ASSUME NEW c \in Classes, NEW q \in Qualities, ClassifyEvent(c, q) PROVE TypeOK'
  <2>1. StoreType'
    <3>1. event_queue[new_event] \in EventRecords
      BY DEF StoreType, ThreadsType
    <3>2. QED BY <1>3, <3>1, ClassifyType DEF ClassifyEvent, StoreType
  <2>2. LinkType'
    BY <1>3 DEF ClassifyEvent, LinkType
  <2>3. ThreadsType'
    BY <1>3 DEF ClassifyEvent, ThreadsType
  <2>4. QED BY <2>1, <2>2, <2>3
<1>4. CASE RecordEvent_Full
  <2>1. StoreType'
    BY <1>4 DEF RecordEvent_Full, StoreType
  <2>2. LinkType'
    BY <1>4 DEF RecordEvent_Full, LinkType
  <2>3. ThreadsType'
    BY <1>4 DEF RecordEvent_Full, ThreadsType
  <2>4. QED BY <2>1, <2>2, <2>3
<1>5. CASE RecordEvent_FindMin
  <2>1. StoreType'
    BY <1>5 DEF RecordEvent_FindMin, FindMinQualityRecord, StoreType
  <2>2. LinkType'
    BY <1>5 DEF RecordEvent_FindMin, FindMinQualityRecord, LinkType
  <2>3. ThreadsType'
    BY <1>5 DEF RecordEvent_FindMin, FindMinQualityRecord, ThreadsType
  <2>4. QED BY <2>1, <2>2, <2>3
<1>6. CASE RecordEvent_Defer
  <2>1. StoreType'
    BY <1>6 DEF RecordEvent_Defer, StoreType
  <2>2. LinkType'
    BY <1>6 DEF RecordEvent_Defer, LinkType
  <2>3. ThreadsType'
    BY <1>6 DEF RecordEvent_Defer, ThreadsType
  <2>4. QED BY <2>1, <2>2, <2>3
<1>7. CASE RecordEvent_Store
  <2>1. StoreType'
    <3>1. event_queue[0] \in EventRecords /\ Filled(event_queue[0])
      BY <1>7 DEF RecordEvent_Store, StoreBlocked, StoreType, QueuedEventsAreFilled
    <3>2. counters' \in CounterRecords
      BY <1>7, <3>1, CountersType DEF RecordEvent_Store, StoreBlocked, StoreType
    <3>3. event' \in [Slots -> EventRecords]
      BY <1>7, NoQualityType DEF RecordEvent_Store, StoreBlocked, StoreType
    <3>4. QED BY <1>7, <3>2, <3>3 DEF RecordEvent_Store, StoreBlocked, StoreType
  <2>2. LinkType'
    BY <1>7 DEF RecordEvent_Store, StoreBlocked, LinkType
  <2>3. ThreadsType'
    BY <1>7 DEF RecordEvent_Store, StoreBlocked, ThreadsType, StoreType
  <2>4. QED BY <2>1, <2>2, <2>3
<1>8. CASE RecordEvent_Copy
  <2>1. StoreType'
    <3>1. event_queue[0] \in EventRecords
      BY DEF StoreType
    <3>2. QED BY <1>8, <3>1 DEF RecordEvent_Copy, StoreType
  <2>2. LinkType'
    BY <1>8 DEF RecordEvent_Copy, LinkType
  <2>3. ThreadsType'
    BY <1>8 DEF RecordEvent_Copy, ThreadsType
  <2>4. QED BY <2>1, <2>2, <2>3
<1>9. CASE HandleTelecommand_Wait
  <2>1. StoreType'
    BY <1>9 DEF HandleTelecommand_Wait, StoreType
  <2>2. LinkType'
    BY <1>9 DEF HandleTelecommand_Wait, LinkType
  <2>3. ThreadsType'
    BY <1>9 DEF HandleTelecommand_Wait, ThreadsType
  <2>4. QED BY <2>1, <2>2, <2>3
<1>10. CASE HandleTelecommand_Ignore
  <2>1. StoreType'
    BY <1>10 DEF HandleTelecommand_Ignore, StoreType
  <2>2. LinkType'
    BY <1>10 DEF HandleTelecommand_Ignore, LinkType
  <2>3. ThreadsType'
    BY <1>10 DEF HandleTelecommand_Ignore, ThreadsType
  <2>4. QED BY <2>1, <2>2, <2>3
<1>11. CASE HandleTelecommand_Ready
  <2>1. StoreType'
    BY <1>11 DEF HandleTelecommand_Ready, StoreType
  <2>2. LinkType'
    BY <1>11 DEF HandleTelecommand_Ready, LinkType
  <2>3. ThreadsType'
    BY <1>11 DEF HandleTelecommand_Ready, ThreadsType
  <2>4. QED BY <2>1, <2>2, <2>3
<1>12. CASE ClearEvents_Counters
  <2>1. StoreType'
    BY <1>12, NoCountersType, ChecksumType DEF ClearEvents_Counters, StoreType, CounterRecords
  <2>2. LinkType'
    BY <1>12 DEF ClearEvents_Counters, LinkType
  <2>3. ThreadsType'
    BY <1>12 DEF ClearEvents_Counters, ThreadsType
  <2>4. QED BY <2>1, <2>2, <2>3
<1>13. CASE ClearEvents_Copy
  <2>1. StoreType'
    <3>1. /\ event_queue[copied] \in EventRecords
          /\ Filled(event_queue[copied])
      BY <1>13 DEF ClearEvents_Copy, StoreType, ThreadsType, QueuedEventsAreFilled
    <3>2. counters' \in CounterRecords
      BY <1>13, <3>1, CountersType DEF ClearEvents_Copy, StoreType
    <3>3. QED BY <1>13, <3>1, <3>2 DEF ClearEvents_Copy, StoreType
  <2>2. LinkType'
    BY <1>13 DEF ClearEvents_Copy, LinkType
  <2>3. ThreadsType'
    BY <1>13 DEF ClearEvents_Copy, ThreadsType
  <2>4. QED BY <2>1, <2>2, <2>3
<1>14. CASE ClearEvents_Finish
  <2>1. StoreType'
    BY <1>14, ChecksumType DEF ClearEvents_Finish, StoreType
  <2>2. LinkType'
    BY <1>14 DEF ClearEvents_Finish, LinkType
  <2>3. ThreadsType'
    BY <1>14 DEF ClearEvents_Finish, ThreadsType
  <2>4. QED BY <2>1, <2>2, <2>3
<1>15. CASE TC_InterruptService
  <2>1. StoreType'
    BY <1>15 DEF TC_InterruptService, Send_ISR_Mail, StoreType
  <2>2. LinkType'
    BY <1>15 DEF TC_InterruptService, Send_ISR_Mail, LinkType, StoreType
  <2>3. ThreadsType'
    BY <1>15 DEF TC_InterruptService, Send_ISR_Mail, ThreadsType
  <2>4. QED BY <2>1, <2>2, <2>3
<1>16. CASE TM_InterruptService_Send
  <2>1. StoreType'
    BY <1>16 DEF TM_InterruptService_Send, StoreType
  <2>2. LinkType'
    BY <1>16 DEF TM_InterruptService_Send, LinkType, StoreType
  <2>3. ThreadsType'
    BY <1>16 DEF TM_InterruptService_Send, ThreadsType
  <2>4. QED BY <2>1, <2>2, <2>3
<1>17. CASE TM_InterruptService_Ready
  <2>1. StoreType'
    BY <1>17 DEF TM_InterruptService_Ready, Send_ISR_Mail, StoreType
  <2>2. LinkType'
    BY <1>17 DEF TM_InterruptService_Ready, Send_ISR_Mail, LinkType
  <2>3. ThreadsType'
    BY <1>17 DEF TM_InterruptService_Ready, Send_ISR_Mail, ThreadsType
  <2>4. QED BY <2>1, <2>2, <2>3
<1>18. CASE Boot_KeepsData
  <2>1. StoreType'
    BY <1>18 DEF Boot_KeepsData, Restart, StoreType
  <2>2. LinkType'
    BY <1>18 DEF Boot_KeepsData, Restart, LinkType
  <2>3. ThreadsType'
    BY <1>18 DEF Boot_KeepsData, Restart, ThreadsType
  <2>4. QED BY <2>1, <2>2, <2>3
<1>19. CASE Boot_ClearsData
  <2>1. StoreType'
    BY <1>19, NoCountersType DEF Boot_ClearsData, Restart, StoreType
  <2>2. LinkType'
    BY <1>19 DEF Boot_ClearsData, Restart, LinkType
  <2>3. ThreadsType'
    BY <1>19 DEF Boot_ClearsData, Restart, ThreadsType
  <2>4. QED BY <2>1, <2>2, <2>3
<1>20. CASE UNCHANGED vars
  BY <1>20 DEF vars, StoreType, LinkType, ThreadsType
<1>21. QED
  BY <1>1, <1>2, <1>3, <1>4, <1>5, <1>6, <1>7, <1>8, <1>9, <1>10,
     <1>11, <1>12, <1>13, <1>14, <1>15, <1>16, <1>17, <1>18, <1>19, <1>20
  DEF Next, ACQ_Step, TC_Step, TM_InterruptService

(* Every step keeps the queue filled up to the record that is acquired. *)
LEMMA QueueNext ==
  TypeOK /\ QueuedEventsAreFilled /\ AcquisitionInProgress /\ [Next]_vars
    => (QueuedEventsAreFilled /\ AcquisitionInProgress)'
<1> SUFFICES ASSUME TypeOK, QueuedEventsAreFilled, AcquisitionInProgress, [Next]_vars PROVE (QueuedEventsAreFilled /\ AcquisitionInProgress)' OBVIOUS
<1> USE StoreAssumption DEF TypeOK, StoreType, ThreadsType, QueuedEventsAreFilled,
        AcquisitionInProgress, Filled, Slots, QSlots, store, link, TC_task,
        ACQ_task, bounds
<1>1. CASE HandleAcquisition_Get
  BY <1>1 DEF HandleAcquisition_Get, GetFreeRecord
<1>2. ASSUME NEW u \in Units, HandleAcquisition_Fill(u) PROVE (QueuedEventsAreFilled /\ AcquisitionInProgress)'
  <2> DEFINE r == [event_queue[new_event] EXCEPT !.SU_number = u, !.hit_time = hits]
  <2>1. event_queue' = [event_queue EXCEPT ![new_event] = r]
    BY <1>2 DEF HandleAcquisition_Fill
  <2>2. event_queue[new_event] \in EventRecords /\ hits \in Nat
    OBVIOUS
  <2>3. r.SU_number = u /\ r.classification = event_queue[new_event].classification
    BY <2>2 DEF EventRecords
  <2> HIDE DEF r
  <2>4. QueuedEventsAreFilled'
    BY <1>2, <2>1, <2>3 DEF HandleAcquisition_Fill
  <2>5. AcquisitionInProgress'
    BY <1>2, <2>1, <2>3 DEF HandleAcquisition_Fill
  <2>6. QED BY <2>4, <2>5
<1>3. ASSUME NEW c \in Classes, NEW q \in Qualities, ClassifyEvent(c, q) PROVE (QueuedEventsAreFilled /\ AcquisitionInProgress)'
  <2> DEFINE r == [event_queue[new_event] EXCEPT !.classification = c, !.quality_number = q]
  <2>1. event_queue' = [event_queue EXCEPT ![new_event] = r]
    BY <1>3 DEF ClassifyEvent
  <2>2. event_queue[new_event] \in EventRecords /\ hits \in Nat
    OBVIOUS
  <2>3. r.SU_number = event_queue[new_event].SU_number /\ r.classification = c
    BY <2>2 DEF EventRecords
  <2> HIDE DEF r
  <2>4. \A i \in QSlots : i < event_queue_length => Filled(event_queue'[i])
    BY <1>3, <2>1, <2>3 DEF ClassifyEvent
  <2>7. Filled(event_queue'[0])
    <3>1. CASE new_event = 0
      <4>1. event_queue[0].SU_number \in Units
        BY <1>3, <3>1 DEF ClassifyEvent
      <4>2. event_queue'[0] = r
        BY <2>1, <2>2, <3>1
      <4>3. QED BY <2>3, <3>1, <4>1, <4>2
    <3>2. CASE new_event # 0
      <4>1. 0 \in QSlots /\ 0 < new_event
        BY <3>2
      <4>2. Filled(event_queue[0])
        BY <1>3, <4>1 DEF ClassifyEvent
      <4>3. event_queue'[0] = event_queue[0]
        BY <2>1, <3>2, <4>1
      <4>4. QED BY <4>2, <4>3
    <3>3. QED BY <3>1, <3>2
  <2>5. AcquisitionInProgress'
    BY <1>3, <2>1, <2>3 DEF ClassifyEvent
  <2>6. QED BY <1>3, <2>4, <2>7, <2>5 DEF ClassifyEvent
<1>4. CASE RecordEvent_Full
  BY <1>4 DEF RecordEvent_Full
<1>5. CASE RecordEvent_FindMin
  BY <1>5 DEF RecordEvent_FindMin, FindMinQualityRecord
<1>6. CASE RecordEvent_Defer
  BY <1>6 DEF RecordEvent_Defer
<1>7. CASE RecordEvent_Store
  BY <1>7 DEF RecordEvent_Store, StoreBlocked
<1>8. CASE RecordEvent_Copy
  BY <1>8 DEF RecordEvent_Copy
<1>9. CASE HandleTelecommand_Wait
  BY <1>9 DEF HandleTelecommand_Wait
<1>10. CASE HandleTelecommand_Ignore
  BY <1>10 DEF HandleTelecommand_Ignore
<1>11. CASE HandleTelecommand_Ready
  BY <1>11 DEF HandleTelecommand_Ready
<1>12. CASE ClearEvents_Counters
  BY <1>12 DEF ClearEvents_Counters
<1>13. CASE ClearEvents_Copy
  BY <1>13 DEF ClearEvents_Copy
<1>14. CASE ClearEvents_Finish
  BY <1>14 DEF ClearEvents_Finish
<1>15. CASE TC_InterruptService
  BY <1>15 DEF TC_InterruptService, Send_ISR_Mail
<1>16. CASE TM_InterruptService_Send
  BY <1>16 DEF TM_InterruptService_Send
<1>17. CASE TM_InterruptService_Ready
  BY <1>17 DEF TM_InterruptService_Ready, Send_ISR_Mail
<1>18. CASE Boot_KeepsData
  BY <1>18 DEF Boot_KeepsData, Restart
<1>19. CASE Boot_ClearsData
  BY <1>19 DEF Boot_ClearsData, Restart
<1>20. CASE UNCHANGED vars
  BY <1>20 DEF vars
<1>21. QED
  BY <1>1, <1>2, <1>3, <1>4, <1>5, <1>6, <1>7, <1>8, <1>9, <1>10,
     <1>11, <1>12, <1>13, <1>14, <1>15, <1>16, <1>17, <1>18, <1>19, <1>20
  DEF Next, ACQ_Step, TC_Step, TM_InterruptService

LEMMA QueueInvariant == Spec => []QueueInv
<1>1. QueueInv /\ [Next]_vars => QueueInv'
  BY TypeNext, QueueNext DEF QueueInv
<1>2. QED BY QueueInit, <1>1, PTL DEF Spec

----------------------------------------------------------------------------

(* Every index stays inside its array and every counter inside its limit, in *)
(* every interleaving of the tasks with the interrupts and with resets.      *)
THEOREM TypeCorrect == Spec => []TypeOK
<1>1. QueueInv => TypeOK
  BY DEF QueueInv
<1>2. QED BY QueueInvariant, <1>1, PTL

(* RecordEvent and ClearEvents read only events of the queue that were        *)
(* filled and classified, although ClearEvents may empty the queue while the  *)
(* Acquisition task is between GetFreeRecord and RecordEvent.                 *)
THEOREM QueueCorrect == Spec => []QueuedEventsAreFilled
<1>1. QueueInv => QueuedEventsAreFilled
  BY DEF QueueInv
<1>2. QED BY QueueInvariant, <1>1, PTL

----------------------------------------------------------------------------

(* ClearEvents runs in SC_TM_e and with the TM interrupt masked. *)
LEMMA MaskInit == Init => ClearingIsMasked
BY DEF Init, ClearingIsMasked

LEMMA MaskNext == ClearingIsMasked /\ [Next]_vars => ClearingIsMasked'
<1> SUFFICES ASSUME ClearingIsMasked, [Next]_vars PROVE ClearingIsMasked' OBVIOUS
<1> USE DEF ClearingIsMasked, link, TC_task, ACQ_task, store, bounds
<1>1. CASE ACQ_Step
  BY <1>1 DEF ACQ_Step, HandleAcquisition_Get, HandleAcquisition_Fill, ClassifyEvent,
     RecordEvent_Full, RecordEvent_FindMin, RecordEvent_Defer, RecordEvent_Store,
     StoreBlocked, RecordEvent_Copy
<1>2. CASE TC_Step
  BY <1>2 DEF TC_Step, HandleTelecommand_Wait, HandleTelecommand_Ignore,
     HandleTelecommand_Ready, ClearEvents_Counters, ClearEvents_Copy, ClearEvents_Finish
<1>3. CASE TC_InterruptService
  BY <1>3 DEF TC_InterruptService
<1>4. CASE TM_InterruptService
  BY <1>4 DEF TM_InterruptService, TM_InterruptService_Send, TM_InterruptService_Ready
<1>5. CASE Boot_KeepsData \/ Boot_ClearsData
  BY <1>5 DEF Boot_KeepsData, Boot_ClearsData, Restart
<1>6. CASE UNCHANGED vars
  BY <1>6 DEF vars
<1>7. QED BY <1>1, <1>2, <1>3, <1>4, <1>5, <1>6 DEF Next

LEMMA MaskInvariant == Spec => []ClearingIsMasked
BY MaskInit, MaskNext, PTL DEF Spec

(* One step never changes what the file header counts while the file is sent. *)
LEMMA FrozenNext == ClearingIsMasked /\ [Next]_vars => FileFrozenStep
<1> SUFFICES ASSUME ClearingIsMasked, [Next]_vars, TC_state = "SC_TM_e", TM_mask,
                    TC_state' = "SC_TM_e"
             PROVE  UNCHANGED <<free_slot_index, counters>>
  BY DEF FileFrozenStep
<1> USE DEF ClearingIsMasked, link, TC_task, ACQ_task, store, bounds
<1>1. CASE ACQ_Step
  BY <1>1 DEF ACQ_Step, HandleAcquisition_Get, HandleAcquisition_Fill, ClassifyEvent,
     RecordEvent_Full, RecordEvent_FindMin, RecordEvent_Defer, RecordEvent_Store,
     StoreBlocked, RecordEvent_Copy
<1>2. CASE TC_Step
  BY <1>2 DEF TC_Step, HandleTelecommand_Wait, HandleTelecommand_Ignore,
     HandleTelecommand_Ready, ClearEvents_Counters, ClearEvents_Copy, ClearEvents_Finish
<1>3. CASE TC_InterruptService
  BY <1>3 DEF TC_InterruptService
<1>4. CASE TM_InterruptService
  BY <1>4 DEF TM_InterruptService, TM_InterruptService_Send, TM_InterruptService_Ready
<1>5. CASE Boot_KeepsData \/ Boot_ClearsData
  BY <1>5 DEF Boot_KeepsData, Boot_ClearsData, Restart
<1>6. CASE UNCHANGED vars
  BY <1>6 DEF vars
<1>7. QED BY <1>1, <1>2, <1>3, <1>4, <1>5, <1>6 DEF Next

(* The counters and the number of records of a file that is being sent never  *)
(* change: RecordEvent tests TC_state in every section with interrupts off,   *)
(* ClearEvents runs only after the TM interrupt was disabled.                 *)
THEOREM FrozenCorrect == Spec => FileFrozen
<1>1. ClearingIsMasked /\ [Next]_vars => [FileFrozenStep]_vars
  BY FrozenNext
<1>2. QED BY MaskInvariant, <1>1, PTL DEF Spec, FileFrozen

(* The end that the TC service computed for the transfer stays the end of the *)
(* used records until the TM interrupt is disabled again.                     *)
LEMMA EndNext == TypeOK /\ ClearingIsMasked /\ TelemetryEndIsFileEnd /\ [Next]_vars
                   => TelemetryEndIsFileEnd'
<1> SUFFICES ASSUME TypeOK, ClearingIsMasked, TelemetryEndIsFileEnd, [Next]_vars
             PROVE  TelemetryEndIsFileEnd'
  OBVIOUS
<1> USE DEF TypeOK, LinkType, ClearingIsMasked, TelemetryEndIsFileEnd,
        link, TC_task, ACQ_task, store, bounds
<1>1. CASE ACQ_Step
  BY <1>1 DEF ACQ_Step, HandleAcquisition_Get, HandleAcquisition_Fill, ClassifyEvent,
     RecordEvent_Full, RecordEvent_FindMin, RecordEvent_Defer, RecordEvent_Store,
     StoreBlocked, RecordEvent_Copy
<1>2. CASE TC_Step
  BY <1>2 DEF TC_Step, HandleTelecommand_Wait, HandleTelecommand_Ignore,
     HandleTelecommand_Ready, ClearEvents_Counters, ClearEvents_Copy, ClearEvents_Finish
<1>3. CASE TC_InterruptService
  <2>1. telemetry_pointer' = 0 /\ telemetry_end' = free_slot_index
        /\ free_slot_index' = free_slot_index /\ free_slot_index \in 0..MaxEvents
    BY <1>3 DEF TC_InterruptService, StoreType
  <2>2. QED BY <2>1, StoreAssumption
<1>4. CASE TM_InterruptService
  <2>1. CASE TM_InterruptService_Send
    BY <2>1 DEF TM_InterruptService_Send, StoreType
  <2>2. CASE TM_InterruptService_Ready
    BY <2>2 DEF TM_InterruptService_Ready
  <2>3. QED BY <1>4, <2>1, <2>2 DEF TM_InterruptService
<1>5. CASE Boot_KeepsData \/ Boot_ClearsData
  <2>1. TC_state' = "TC_handling_e"
    BY <1>5 DEF Boot_KeepsData, Boot_ClearsData, Restart
  <2>2. QED BY <2>1
<1>6. CASE UNCHANGED vars
  BY <1>6 DEF vars
<1>7. QED BY <1>1, <1>2, <1>3, <1>4, <1>5, <1>6 DEF Next

THEOREM EndCorrect == Spec => []TelemetryEndIsFileEnd
<1>1. Init => TelemetryEndIsFileEnd
  BY DEF Init, TelemetryEndIsFileEnd
<1>2. QED BY <1>1, EndNext, TypeCorrect, MaskInvariant, PTL DEF Spec

=============================================================================
