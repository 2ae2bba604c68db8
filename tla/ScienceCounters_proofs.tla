----------------------- MODULE ScienceCounters_proofs -----------------------
(***************************************************************************)
(* Theorems about the event counters of the Science Data store: what they  *)
(* count is what is in the file.  Stored is the number of records of the   *)
(* file that was counted, half way through ClearEvents as well; a step     *)
(* keeps it and the counters (KeepCounters), counts one event              *)
(* (CountEvent), or starts both from zero (StartCounters).                 *)
(***************************************************************************)
EXTENDS ScienceFile_proofs, WellFoundedInduction

\* Records of the file the counters stand for.
Stored == IF TC_pc = "CopyQueue" THEN copied ELSE free_slot_index

KeepCounters ==
  /\ Stored' = Stored
  /\ counters'.event_counter = counters.event_counter
  /\ counters'.SU_hits = counters.SU_hits

CountEvent(e) ==
  /\ e \in EventRecords /\ Filled(e)
  /\ counters' = IncrementCounters(counters, e)
  /\ Stored' = IF Stored < MaxEvents THEN Stored + 1 ELSE Stored

StartCounters ==
  /\ Stored' = 0
  /\ counters'.event_counter = NoCounters.event_counter
  /\ counters'.SU_hits = NoCounters.SU_hits

\* The copy loop of ClearEvents does not pass the end of the queue.
CopyBound == resets = 0 /\ TC_pc = "CopyQueue" => copied <= event_queue_length

\* The events of Sensor Unit u and class c among the stored ones.
OfClass(u, c) ==
  {m \in Slots : m < Stored /\ Settled[m].SU_number = u /\ Settled[m].classification = c}

\* CountersDescribeFile, half way through ClearEvents as well.
ClassInv ==
  Stored < MaxEvents =>
    \A u \in Units, c \in Classes :
      counters.event_counter[<<u, c>>] < CounterLimit =>
        counters.event_counter[<<u, c>>] = Cardinality(OfClass(u, c))

\* Why ClearEvents and the copy of RecordEvent do not meet in one record: the
\* queue is used during Science Telemetry only, and an event that is being
\* copied to the file came from a queue without others, so a ClearEvents that
\* interrupts the copy has nothing to move.
IdleQueueInv ==
  /\ resets = 0
  /\ TC_state # "SC_TM_e" => event_queue_length = 0
  /\ ACQ_pc = "Copy" => event_queue_length = 0

----------------------------------------------------------------------------
(* What a step does to the counters. *)

LEMMA IncrementEffect ==
  ASSUME NEW c \in CounterRecords, NEW e \in EventRecords, Filled(e)
  PROVE  /\ IncrementCounters(c, e).event_counter =
              [c.event_counter EXCEPT ![<<e.SU_number, e.classification>>] =
                 IF @ < CounterLimit THEN @ + 1 ELSE @]
         /\ IncrementCounters(c, e).SU_hits =
              [c.SU_hits EXCEPT ![e.SU_number] = IF @ < HitsLimit THEN @ + 1 ELSE @]
         /\ e.SU_number \in Units /\ e.classification \in Classes
BY DEF IncrementCounters, Filled, CounterRecords

LEMMA StoredType == ASSUME TypeOK PROVE Stored \in Nat /\ free_slot_index \in 0..MaxEvents
BY StoreAssumption DEF TypeOK, StoreType, ThreadsType, Stored

LEMMA StoreCounts ==
  ASSUME TypeOK, QueuedEventsAreFilled, RecordEvent_Store
  PROVE  CountEvent(event_queue[0])
<1>1. /\ TC_pc = "WaitMail" /\ TC_pc' = "WaitMail"
      /\ ACQ_pc \in {"RecordEvent", "Found"}
      /\ counters' = IncrementCounters(counters, event_queue[0])
      /\ free_slot_index' = IF free_slot_index < MaxEvents
                              THEN free_slot_index + 1 ELSE free_slot_index
  BY DEF RecordEvent_Store, StoreBlocked, ACQ_Runs, TC_TaskIdle, TC_task
<1>2. event_queue[0] \in EventRecords /\ Filled(event_queue[0])
  BY <1>1, Indices DEF QueuedEventsAreFilled, TypeOK, StoreType
<1>3. QED BY <1>1, <1>2 DEF CountEvent, Stored

LEMMA MoveCounts ==
  ASSUME TypeOK, QueuedEventsAreFilled, ClearEvents_Copy
  PROVE  /\ CountEvent(event_queue[copied]) /\ Stored = copied /\ copied < MaxEvents
         /\ copied < event_queue_length /\ copied \in QSlots /\ copied \in Slots
<1>1. /\ TC_pc = "CopyQueue" /\ TC_pc' = "CopyQueue" /\ copied < event_queue_length
      /\ counters' = IncrementCounters(counters, event_queue[copied]) /\ copied' = copied + 1
  BY DEF ClearEvents_Copy
<1>2. copied \in QSlots /\ copied \in Slots /\ copied < MaxEvents
  BY <1>1, StoreAssumption DEF TypeOK, StoreType, ThreadsType, QSlots, Slots
<1>3. event_queue[copied] \in EventRecords /\ Filled(event_queue[copied])
  BY <1>1, <1>2 DEF QueuedEventsAreFilled, TypeOK, StoreType
<1>4. QED BY <1>1, <1>2, <1>3 DEF CountEvent, Stored

LEMMA ClearStarts == ASSUME ClearEvents_Counters PROVE StartCounters
<1>1. TC_pc' = "CopyQueue" /\ copied' = 0
      /\ counters' = [NoCounters EXCEPT !.counter_checksum = counters.counter_checksum]
  BY DEF ClearEvents_Counters
<1>2. QED BY <1>1 DEF StartCounters, Stored, NoCounters

LEMMA FinishKeeps ==
  ASSUME TypeOK, CopyBound, resets = 0, ClearEvents_Finish
  PROVE  KeepCounters /\ copied = event_queue_length
<1>1. /\ TC_pc = "CopyQueue" /\ TC_pc' = "WaitMail" /\ copied >= event_queue_length
      /\ counters' = [counters EXCEPT !.counter_checksum = 0]
      /\ free_slot_index' = event_queue_length
  BY DEF ClearEvents_Finish
<1>2. copied = event_queue_length
  BY <1>1 DEF CopyBound, TypeOK, StoreType, ThreadsType
<1>3. counters \in CounterRecords
  BY DEF TypeOK, StoreType
<1>4. counters'.event_counter = counters.event_counter /\ counters'.SU_hits = counters.SU_hits
  BY <1>1, <1>3 DEF CounterRecords
<1>5. QED BY <1>1, <1>2, <1>4 DEF KeepCounters, Stored

LEMMA OthersKeep ==
  ASSUME [Next]_vars, resets' = 0, resets \in Nat, ~RecordEvent_Store, ~ClearEvents_Copy,
         ~ClearEvents_Counters, ~ClearEvents_Finish
  PROVE  /\ UNCHANGED <<counters, free_slot_index, copied>>
         /\ TC_pc' = "CopyQueue" <=> TC_pc = "CopyQueue"
         /\ TC_pc = "CopyQueue" => UNCHANGED <<event_queue_length, event>>
         /\ resets = 0
<1> USE DEF store, link, TC_task, ACQ_task, bounds
<1>1. CASE UNCHANGED vars
  BY <1>1 DEF vars
<1>2. CASE HandleAcquisition_Get
  BY <1>2 DEF HandleAcquisition_Get, ACQ_Runs, TC_TaskIdle
<1>3. ASSUME NEW u \in Units, HandleAcquisition_Fill(u)
      PROVE  /\ UNCHANGED <<counters, free_slot_index, copied>>
             /\ TC_pc' = "CopyQueue" <=> TC_pc = "CopyQueue"
             /\ TC_pc = "CopyQueue" => UNCHANGED <<event_queue_length, event>>
             /\ resets = 0
  BY <1>3 DEF HandleAcquisition_Fill, ACQ_Runs, TC_TaskIdle
<1>4. ASSUME NEW c \in Classes, NEW q \in Qualities, ClassifyEvent(c, q)
      PROVE  /\ UNCHANGED <<counters, free_slot_index, copied>>
             /\ TC_pc' = "CopyQueue" <=> TC_pc = "CopyQueue"
             /\ TC_pc = "CopyQueue" => UNCHANGED <<event_queue_length, event>>
             /\ resets = 0
  BY <1>4 DEF ClassifyEvent, ACQ_Runs, TC_TaskIdle
<1>5. CASE RecordEvent_Full \/ RecordEvent_FindMin \/ RecordEvent_Defer \/ RecordEvent_Copy
  BY <1>5 DEF RecordEvent_Full, RecordEvent_FindMin, RecordEvent_Defer, RecordEvent_Copy,
     ACQ_Runs, TC_TaskIdle
<1>6. CASE HandleTelecommand_Wait \/ HandleTelecommand_Ignore \/ HandleTelecommand_Ready
  BY <1>6 DEF HandleTelecommand_Wait, HandleTelecommand_Ignore, HandleTelecommand_Ready
<1>7. CASE TC_InterruptService \/ TM_InterruptService
  BY <1>7 DEF TC_InterruptService, TM_InterruptService, TM_InterruptService_Send,
     TM_InterruptService_Ready
<1>8. ~(Boot_KeepsData \/ Boot_ClearsData)
  BY DEF Boot_KeepsData, Boot_ClearsData, Restart
<1>9. CASE ACQ_Step
  <2>1. CASE \E u \in Units : HandleAcquisition_Fill(u)
    BY <1>3, <2>1
  <2>2. CASE \E c \in Classes : \E q \in Qualities : ClassifyEvent(c, q)
    BY <1>4, <2>2
  <2>3. QED BY <1>2, <1>5, <1>9, <2>1, <2>2, Zenon DEF ACQ_Step
<1>10. CASE TC_Step
  BY <1>6, <1>10 DEF TC_Step
<1>11. QED BY <1>1, <1>7, <1>8, <1>9, <1>10 DEF Next

LEMMA StepCounts ==
  ASSUME TypeOK, QueuedEventsAreFilled, CopyBound, [Next]_vars, resets' = 0
  PROVE  /\ resets = 0 /\ CopyBound'
         /\ KeepCounters \/ StartCounters \/ \E e \in EventRecords : CountEvent(e)
<1> USE DEF store, link, TC_task, ACQ_task, bounds
<1>1. CASE RecordEvent_Store
  <2>1. resets = 0 /\ TC_pc' = "WaitMail"
    BY <1>1 DEF RecordEvent_Store, StoreBlocked, ACQ_Runs, TC_TaskIdle
  <2>2. QED BY <1>1, <2>1, StoreCounts DEF CountEvent, CopyBound
<1>2. CASE ClearEvents_Copy
  <2>1. resets = 0 /\ copied' = copied + 1 /\ event_queue_length' = event_queue_length
    BY <1>2 DEF ClearEvents_Copy
  <2>2. copied' <= event_queue_length'
    BY <1>2, <2>1, MoveCounts DEF TypeOK, StoreType, ThreadsType
  <2>3. QED BY <1>2, <2>1, <2>2, MoveCounts DEF CountEvent, CopyBound
<1>3. CASE ClearEvents_Counters
  <2>1. resets = 0 /\ copied' = 0 /\ event_queue_length' = event_queue_length
    BY <1>3 DEF ClearEvents_Counters
  <2>2. QED BY <1>3, <2>1, ClearStarts DEF CopyBound, TypeOK, StoreType
<1>4. CASE ClearEvents_Finish
  <2>1. resets = 0 /\ TC_pc' = "WaitMail"
    BY <1>4 DEF ClearEvents_Finish
  <2>2. QED BY <1>4, <2>1, FinishKeeps DEF CopyBound
<1>5. CASE ~(RecordEvent_Store \/ ClearEvents_Copy \/ ClearEvents_Counters
               \/ ClearEvents_Finish)
  <2>1. /\ UNCHANGED <<counters, free_slot_index, copied>>
        /\ TC_pc' = "CopyQueue" <=> TC_pc = "CopyQueue"
        /\ TC_pc = "CopyQueue" => UNCHANGED event_queue_length
        /\ resets = 0
    BY <1>5, OthersKeep DEF TypeOK, ThreadsType
  <2>2. QED BY <2>1 DEF KeepCounters, Stored, CopyBound
<1>6. QED BY <1>1, <1>2, <1>3, <1>4, <1>5

\* Of the steps that leave the counters alone, none moves the file.
LEMMA SettledKept ==
  ASSUME [Next]_vars, ~Boot_KeepsData, ~Boot_ClearsData, ~RecordEvent_Store,
         ~ClearEvents_Copy, ~ClearEvents_Counters, ~ClearEvents_Finish
  PROVE  Settled' = Settled
<1> USE DEF store, link, TC_task, ACQ_task, bounds
<1>1. ASSUME ACQ_pc # "Copy", ACQ_pc' # "Copy", event' = event PROVE Settled' = Settled
  BY <1>1 DEF Settled
<1>2. ASSUME UNCHANGED <<store, ACQ_task>> PROVE Settled' = Settled
  BY <1>2 DEF Settled
<1>3. CASE UNCHANGED vars
  BY <1>2, <1>3 DEF vars
<1>4. CASE HandleAcquisition_Get
  BY <1>1, <1>4 DEF HandleAcquisition_Get
<1>5. ASSUME NEW u \in Units, HandleAcquisition_Fill(u) PROVE Settled' = Settled
  BY <1>1, <1>5 DEF HandleAcquisition_Fill
<1>6. ASSUME NEW c \in Classes, NEW q \in Qualities, ClassifyEvent(c, q)
      PROVE  Settled' = Settled
  BY <1>1, <1>6 DEF ClassifyEvent
<1>7. CASE RecordEvent_Full \/ RecordEvent_FindMin \/ RecordEvent_Defer
  BY <1>1, <1>7 DEF RecordEvent_Full, RecordEvent_FindMin, RecordEvent_Defer
<1>8. CASE RecordEvent_Copy
  BY <1>8 DEF RecordEvent_Copy, Settled
<1>9. CASE HandleTelecommand_Wait \/ HandleTelecommand_Ignore \/ HandleTelecommand_Ready
  BY <1>2, <1>9 DEF HandleTelecommand_Wait, HandleTelecommand_Ignore, HandleTelecommand_Ready
<1>10. CASE TC_InterruptService \/ TM_InterruptService
  BY <1>2, <1>10 DEF TC_InterruptService, TM_InterruptService, TM_InterruptService_Send,
     TM_InterruptService_Ready
<1>11. CASE ACQ_Step
  <2>1. CASE \E u \in Units : HandleAcquisition_Fill(u)
    BY <1>5, <2>1
  <2>2. CASE \E c \in Classes : \E q \in Qualities : ClassifyEvent(c, q)
    BY <1>6, <2>2
  <2>3. QED BY <1>4, <1>7, <1>8, <1>11, <2>1, <2>2, Zenon DEF ACQ_Step
<1>12. CASE TC_Step
  BY <1>9, <1>12 DEF TC_Step
<1>13. QED BY <1>3, <1>10, <1>11, <1>12 DEF Next

----------------------------------------------------------------------------
(* A counter below its limit is the number of events of its class.         *)

LEMMA SameOfClass ==
  ASSUME KeepCounters, ClassInv, \A m \in Slots : m < Stored => Settled'[m] = Settled[m]
  PROVE  ClassInv'
<1>1. ASSUME NEW u \in Units, NEW c \in Classes PROVE OfClass(u, c)' = OfClass(u, c)
  BY DEF OfClass, KeepCounters
<1>2. QED BY <1>1 DEF ClassInv, KeepCounters

LEMMA NewOfClass ==
  ASSUME TypeOK, ClassInv, Stored < MaxEvents, NEW e, CountEvent(e),
         \A m \in Slots : m < Stored => Settled'[m] = Settled[m],
         Settled'[Stored] = e
  PROVE  ClassInv'
<1>1. Stored \in Slots /\ Stored \in Nat /\ Stored' = Stored + 1
  BY StoredType, StoreAssumption DEF CountEvent, Slots
<1>2. counters \in CounterRecords /\ e \in EventRecords /\ Filled(e)
      /\ counters' = IncrementCounters(counters, e)
  BY DEF TypeOK, StoreType, CountEvent
<1>3. SUFFICES ASSUME NEW u \in Units, NEW c \in Classes,
                      counters'.event_counter[<<u, c>>] < CounterLimit
               PROVE  counters'.event_counter[<<u, c>>] = Cardinality(OfClass(u, c)')
  BY DEF ClassInv
<1> DEFINE n == counters.event_counter[<<u, c>>]
<1>4. /\ e.SU_number \in Units /\ e.classification \in Classes
      /\ counters.event_counter \in [Units \X Classes -> 0..CounterLimit]
      /\ counters'.event_counter =
           [counters.event_counter EXCEPT ![<<e.SU_number, e.classification>>] =
              IF @ < CounterLimit THEN @ + 1 ELSE @]
  BY <1>2, IncrementEffect DEF CounterRecords
<1>5. n \in 0..CounterLimit /\ <<u, c>> \in Units \X Classes
  BY <1>4
<1>6. IsFiniteSet(OfClass(u, c)) /\ Stored \notin OfClass(u, c)
  <2>1. IsFiniteSet(Slots)
    BY FS_Interval, StoreAssumption DEF Slots
  <2>2. OfClass(u, c) \subseteq Slots /\ Stored \notin OfClass(u, c)
    BY <1>1 DEF OfClass
  <2>3. QED BY <2>1, <2>2, FS_Subset
<1>7. n < CounterLimit => n = Cardinality(OfClass(u, c))
  BY DEF ClassInv
<1>8. CASE e.SU_number = u /\ e.classification = c
  <2>1. counters'.event_counter[<<u, c>>] = IF n < CounterLimit THEN n + 1 ELSE n
    BY <1>4, <1>5, <1>8
  <2>2. OfClass(u, c)' = OfClass(u, c) \cup {Stored}
    BY <1>1, <1>8 DEF OfClass, Slots
  <2>3. Cardinality(OfClass(u, c) \cup {Stored}) = Cardinality(OfClass(u, c)) + 1
    BY <1>6, FS_AddElement
  <2>4. n < CounterLimit
    BY <1>3, <1>5, <2>1, StoreAssumption
  <2>5. QED BY <1>7, <2>1, <2>2, <2>3, <2>4
<1>9. CASE ~(e.SU_number = u /\ e.classification = c)
  <2>1. counters'.event_counter[<<u, c>>] = n
    BY <1>4, <1>5, <1>9
  <2>2. OfClass(u, c)' = OfClass(u, c)
    BY <1>1, <1>9 DEF OfClass, Slots
  <2>3. QED BY <1>3, <1>7, <2>1, <2>2
<1>10. QED BY <1>8, <1>9

LEMMA NoneOfClass == ASSUME StartCounters PROVE ClassInv'
<1>1. ASSUME NEW u \in Units, NEW c \in Classes
      PROVE  counters'.event_counter[<<u, c>>] = 0 /\ OfClass(u, c)' = {}
  BY StoreAssumption DEF StartCounters, NoCounters, OfClass, Slots
<1>2. Cardinality({}) = 0
  BY FS_EmptySet
<1>3. QED BY <1>1, <1>2 DEF ClassInv

LEMMA ClassInit == Init => ClassInv
<1> SUFFICES ASSUME Init PROVE ClassInv
  OBVIOUS
<1>1. ASSUME NEW u \in Units, NEW c \in Classes
      PROVE  counters.event_counter[<<u, c>>] = 0 /\ OfClass(u, c) = {}
  BY StoreAssumption DEF Init, NoCounters, OfClass, Slots, Stored
<1>2. Cardinality({}) = 0
  BY FS_EmptySet
<1>3. QED BY <1>1, <1>2 DEF ClassInv

LEMMA IdleQueueInit == Init => IdleQueueInv
BY DEF Init, IdleQueueInv

LEMMA IdleQueueNext ==
  ASSUME MaxResets = 0, TypeOK, ClearingIsMasked, IdleQueueInv, [Next]_vars
  PROVE  IdleQueueInv'
<1> USE DEF store, link, TC_task, ACQ_task, bounds, IdleQueueInv
<1>1. CASE UNCHANGED vars
  BY <1>1 DEF vars
<1>2. CASE HandleAcquisition_Get
  BY <1>2 DEF HandleAcquisition_Get
<1>3. ASSUME NEW u \in Units, HandleAcquisition_Fill(u) PROVE IdleQueueInv'
  BY <1>3 DEF HandleAcquisition_Fill
<1>4. ASSUME NEW c \in Classes, NEW q \in Qualities, ClassifyEvent(c, q) PROVE IdleQueueInv'
  BY <1>4 DEF ClassifyEvent
<1>5. CASE RecordEvent_Full \/ RecordEvent_FindMin \/ RecordEvent_Defer
  BY <1>5 DEF RecordEvent_Full, RecordEvent_FindMin, RecordEvent_Defer
<1>6. CASE RecordEvent_Store \/ RecordEvent_Copy
  BY <1>6 DEF RecordEvent_Store, StoreBlocked, RecordEvent_Copy
<1>7. CASE HandleTelecommand_Wait \/ HandleTelecommand_Ignore \/ HandleTelecommand_Ready
  BY <1>7 DEF HandleTelecommand_Wait, HandleTelecommand_Ignore, HandleTelecommand_Ready
<1>8. CASE ClearEvents_Counters \/ ClearEvents_Copy \/ ClearEvents_Finish
  BY <1>8 DEF ClearEvents_Counters, ClearEvents_Copy, ClearEvents_Finish
<1>9. CASE TC_InterruptService \/ TM_InterruptService
  BY <1>9 DEF TC_InterruptService, TM_InterruptService, TM_InterruptService_Send,
     TM_InterruptService_Ready
<1>10. ~(Boot_KeepsData \/ Boot_ClearsData)
  BY DEF Boot_KeepsData, Boot_ClearsData
<1>11. CASE ACQ_Step
  <2>1. CASE \E u \in Units : HandleAcquisition_Fill(u)
    BY <1>3, <2>1
  <2>2. CASE \E c \in Classes : \E q \in Qualities : ClassifyEvent(c, q)
    BY <1>4, <2>2
  <2>3. QED BY <1>2, <1>5, <1>6, <1>11, <2>1, <2>2, Zenon DEF ACQ_Step
<1>12. CASE TC_Step
  BY <1>7, <1>8, <1>12 DEF TC_Step
<1>13. QED BY <1>1, <1>9, <1>10, <1>11, <1>12 DEF Next

LEMMA ClassNext ==
  ASSUME MaxResets = 0, TypeOK, QueuedEventsAreFilled, CopyBound, IdleQueueInv, IdleQueueInv',
         ClassInv, [Next]_vars
  PROVE  ClassInv'
<1>1. resets = 0 /\ ~Boot_KeepsData /\ ~Boot_ClearsData
  BY DEF Boot_KeepsData, Boot_ClearsData, IdleQueueInv
<1>2. resets' = 0 /\ resets \in Nat
  BY DEF IdleQueueInv, TypeOK, ThreadsType
<1>3. CASE RecordEvent_Store
  <2>1. CountEvent(event_queue[0]) /\ Stored = free_slot_index
    BY <1>3, StoreCounts DEF Stored, RecordEvent_Store, ACQ_Runs, TC_TaskIdle
  <2>2. CASE Stored < MaxEvents
    <3>1. Stored \in Slots
      BY <2>2, StoredType, StoreAssumption DEF Slots
    <3>2. \A m \in Slots : m <= Stored =>
            Settled'[m] = IF m = Stored THEN event_queue[0] ELSE Settled[m]
      BY <1>3, <2>1, <2>2, StoreReserves
    <3>3. /\ Settled'[Stored] = event_queue[0]
          /\ \A m \in Slots : m < Stored => Settled'[m] = Settled[m]
      BY <3>1, <3>2, StoreAssumption DEF Slots
    <3>4. QED BY <2>1, <2>2, <3>3, NewOfClass
  <2>3. CASE ~(Stored < MaxEvents)
    BY <2>1, <2>3 DEF CountEvent, ClassInv
  <2>4. QED BY <2>2, <2>3
<1>4. CASE ClearEvents_Copy
  <2>1. /\ CountEvent(event_queue[copied]) /\ Stored = copied /\ Stored < MaxEvents
        /\ copied \in Slots
    BY <1>4, MoveCounts
  <2>2. ACQ_pc # "Copy" /\ ACQ_pc' = ACQ_pc
    BY <1>4, MoveCounts DEF ClearEvents_Copy, IdleQueueInv, ACQ_task, TypeOK, ThreadsType
  <2>3. Settled = event /\ Settled' = [event EXCEPT ![copied] = event_queue[copied]]
        /\ event \in [Slots -> EventRecords]
    BY <1>4, <2>2 DEF ClearEvents_Copy, Settled, TypeOK, StoreType
  <2>4. \A m \in Slots : m < Stored => Settled'[m] = Settled[m]
    BY <2>1, <2>3, StoreAssumption DEF Slots
  <2>5. Settled'[Stored] = event_queue[copied]
    BY <2>1, <2>3
  <2>6. QED BY <2>1, <2>4, <2>5, NewOfClass
<1>5. CASE ClearEvents_Counters
  BY <1>5, ClearStarts, NoneOfClass
<1>6. CASE ClearEvents_Finish
  <2>1. KeepCounters
    BY <1>1, <1>6, FinishKeeps
  <2>2. Settled' = Settled
    BY <1>6 DEF ClearEvents_Finish, Settled, ACQ_task
  <2>3. QED BY <2>1, <2>2, SameOfClass
<1>7. CASE ~(RecordEvent_Store \/ ClearEvents_Copy \/ ClearEvents_Counters
               \/ ClearEvents_Finish)
  <2>1. /\ UNCHANGED <<counters, free_slot_index, copied>>
        /\ TC_pc' = "CopyQueue" <=> TC_pc = "CopyQueue"
    BY <1>2, <1>7, OthersKeep
  <2>2. KeepCounters
    BY <2>1 DEF KeepCounters, Stored
  <2>3. Settled' = Settled
    BY <1>1, <1>7, SettledKept
  <2>4. QED BY <2>2, <2>3, SameOfClass
<1>8. QED BY <1>3, <1>4, <1>5, <1>6, <1>7

(* Until the first reset, a class counter below its limit is the number of *)
(* events of that Sensor Unit and class in a file that is not full:        *)
(* RecordEvent and ClearEvents count every event they store, also when     *)
(* interrupts find the Acquisition task half way (an event that is stored  *)
(* twice then is counted twice).                                           *)
THEOREM DescribeCorrect ==
  ASSUME MaxResets = 0 PROVE Spec => []CountersDescribeFile
<1>1. ClassInv => CountersDescribeFile
  <2>1. SUFFICES ASSUME ClassInv, Stable, free_slot_index < MaxEvents,
                        NEW u \in Units, NEW c \in Classes,
                        counters.event_counter[<<u, c>>] < CounterLimit
                 PROVE  counters.event_counter[<<u, c>>] =
                          Cardinality({m \in InFile : /\ Settled[m].SU_number = u
                                                      /\ Settled[m].classification = c})
    BY DEF CountersDescribeFile
  <2>2. Stored = free_slot_index
    BY <2>1 DEF Stable, Stored
  <2>3. OfClass(u, c) = {m \in InFile : /\ Settled[m].SU_number = u
                                        /\ Settled[m].classification = c}
    BY <2>2 DEF OfClass, InFile
  <2>4. counters.event_counter[<<u, c>>] = Cardinality(OfClass(u, c))
    BY <2>1, <2>2 DEF ClassInv
  <2>5. QED BY <2>3, <2>4
<1>2. Init => CopyBound
  BY DEF Init, CopyBound
<1>3. TypeOK /\ ClearingIsMasked /\ IdleQueueInv /\ [Next]_vars => IdleQueueInv'
  BY IdleQueueNext
<1>4. Spec => []IdleQueueInv
  BY <1>3, IdleQueueInit, TypeCorrect, MaskInvariant, PTL DEF Spec
<1>5. TypeOK /\ QueuedEventsAreFilled /\ IdleQueueInv /\ IdleQueueInv' /\ CopyBound /\ [Next]_vars
        => CopyBound'
  BY StepCounts DEF IdleQueueInv
<1>6. Spec => []CopyBound
  BY <1>2, <1>4, <1>5, TypeCorrect, QueueCorrect, PTL DEF Spec
<1>7. TypeOK /\ QueuedEventsAreFilled /\ IdleQueueInv /\ IdleQueueInv' /\ CopyBound /\ ClassInv
        /\ [Next]_vars => ClassInv'
  BY ClassNext
<1>8. QED BY <1>1, <1>4, <1>6, <1>7, ClassInit, TypeCorrect, QueueCorrect, PTL DEF Spec

----------------------------------------------------------------------------
(* Sums.  SumFunction takes the elements of a finite set one at a time;    *)
(* what holds of the sum over the empty set, and of the sum with one more  *)
(* element, holds of every sum.                                            *)

Picked(s) == CHOOSE x \in s : TRUE

LEMMA SetInduct ==
  ASSUME NEW S, IsFiniteSet(S), NEW T, {} \in T,
         \A s \in SUBSET S : s # {} /\ s \ {Picked(s)} \in T => s \in T
  PROVE  SUBSET S \subseteq T
<1> DEFINE Bad == (SUBSET S) \ T
<1>1. SUFFICES ASSUME Bad # {} PROVE FALSE
  OBVIOUS
<1>2. PICK s \in Bad : \A r \in Bad : ~(<<r, s>> \in StrictSubsetOrdering(S))
  <2>1. IsWellFoundedOn(StrictSubsetOrdering(S), SUBSET S)
    BY FS_StrictSubsetOrderingWellFounded, FS_FiniteSubsetsOfFinite
  <2>2. Bad \subseteq SUBSET S
    OBVIOUS
  <2> HIDE DEF Bad
  <2>3. QED BY <1>1, <2>1, <2>2, WFMin
<1>3. s \in SUBSET S /\ s # {} /\ s \notin T
  BY <1>2
<1>4. Picked(s) \in s
  BY <1>3 DEF Picked
<1>5. <<s \ {Picked(s)}, s>> \in StrictSubsetOrdering(S)
  BY <1>3, <1>4 DEF StrictSubsetOrdering
<1>6. s \ {Picked(s)} \in T
  BY <1>2, <1>3, <1>5
<1>7. QED BY <1>2, <1>3, <1>6

\* The intervals from 0 are sets that get smaller as well.
LEMMA NatInduct ==
  ASSUME NEW T, 0 \in T, \A n \in Nat : n \in T => n + 1 \in T PROVE Nat \subseteq T
<1>1. SUFFICES ASSUME NEW k \in Nat, k \notin T PROVE FALSE
  OBVIOUS
<1> DEFINE S == 0..k
           Bad == {r \in SUBSET S : \E n \in S : n \notin T /\ r = 0..(n - 1)}
<1>2. Bad \subseteq SUBSET S /\ Bad # {}
  <2>1. k \in S /\ 0..(k - 1) \in SUBSET S
    OBVIOUS
  <2>2. 0..(k - 1) \in Bad
    BY <1>1, <2>1
  <2>3. QED BY <2>2
<1>3. IsFiniteSet(S)
  BY FS_Interval
<1> HIDE DEF S
<1>4. IsWellFoundedOn(StrictSubsetOrdering(S), SUBSET S)
  BY <1>3, FS_StrictSubsetOrderingWellFounded, FS_FiniteSubsetsOfFinite
<1> HIDE DEF Bad
<1>5. PICK s \in Bad : \A r \in Bad : ~(<<r, s>> \in StrictSubsetOrdering(S))
  BY <1>2, <1>4, WFMin
<1> USE DEF Bad, S
<1>6. PICK n \in S : n \notin T /\ s = 0..(n - 1)
  BY <1>5
<1>7. n \in Nat /\ n - 1 \in Nat /\ n - 1 \in S /\ n - 1 \notin T
  <2>1. n \in Nat /\ n # 0 /\ n - 1 \in Nat /\ n = (n - 1) + 1 /\ n - 1 \in S
    BY <1>6
  <2>2. QED BY <1>6, <2>1
<1> DEFINE r == 0..((n - 1) - 1)
<1>8. r \in Bad
  <2>1. r \in SUBSET S
    BY <1>7
  <2>2. QED BY <1>7, <2>1
<1>9. r \subseteq s /\ n - 1 \in s /\ n - 1 \notin r
  BY <1>6, <1>7
<1>10. <<r, s>> \in StrictSubsetOrdering(S)
  BY <1>2, <1>5, <1>8, <1>9 DEF StrictSubsetOrdering
<1>11. QED BY <1>5, <1>8, <1>10

\* The sums of f over the subsets of its domain.
Sums(f, g) ==
  /\ g \in [SUBSET DOMAIN f -> Nat]
  /\ g[{}] = 0
  /\ \A s \in SUBSET DOMAIN f :
       s # {} => g[s] = f[Picked(s)] + g[s \ {Picked(s)}]

LEMMA SumIs ==
  ASSUME NEW S, IsFiniteSet(S), NEW f \in [S -> Nat]
  PROVE  \E g : Sums(f, g) /\ SumFunction(f) = g[S]
<1> DEFINE Step(g) == [s \in SUBSET S |->
                         IF s = {} THEN 0 ELSE f[Picked(s)] + g[s \ {Picked(s)}]]
           Part(n) == {s \in SUBSET S : Cardinality(s) <= n}
           Adds(g, s) == g[s] = IF s = {} THEN 0 ELSE f[Picked(s)] + g[s \ {Picked(s)}]
           N == {n \in Nat : \E g \in [Part(n) -> Nat] : \A s \in Part(n) : Adds(g, s)}
           iter == CHOOSE g : g = Step(g)
<1>1. \A s \in SUBSET S : IsFiniteSet(s) /\ Cardinality(s) \in Nat
                          /\ Cardinality(s) <= Cardinality(S)
  BY FS_Subset, FS_CardinalityType
<1>2. ASSUME NEW s \in SUBSET S, s # {}
      PROVE  Picked(s) \in s /\ Cardinality(s \ {Picked(s)}) = Cardinality(s) - 1
             /\ f[Picked(s)] \in Nat
  <2>1. Picked(s) \in s
    BY <1>2 DEF Picked
  <2>2. QED BY <1>1, <2>1, FS_RemoveElement
<1>3. 0 \in N
  <2>1. \A s \in Part(0) : s = {}
    BY <1>1, FS_EmptySet
  <2> DEFINE g == [s \in Part(0) |-> 0]
  <2>2. g \in [Part(0) -> Nat] /\ \A s \in Part(0) : g[s] = 0
    OBVIOUS
  <2> HIDE DEF g
  <2>3. QED BY <2>1, <2>2
<1>4. ASSUME NEW n \in Nat, n \in N PROVE n + 1 \in N
  <2>1. PICK g \in [Part(n) -> Nat]  : \A s \in Part(n) : Adds(g, s)
    BY <1>4
  <2> DEFINE h == [s \in Part(n + 1) |->
                     IF s = {} THEN 0 ELSE f[Picked(s)] + g[s \ {Picked(s)}]]
  <2>2. ASSUME NEW s \in Part(n + 1), s # {}
        PROVE  s \ {Picked(s)} \in Part(n) /\ s \ {Picked(s)} \in Part(n + 1)
    BY <1>1, <1>2, <2>2
  <2>3. h \in [Part(n + 1) -> Nat]
    BY <1>2, <2>2
  <2>4. ASSUME NEW s \in Part(n) PROVE h[s] = g[s] /\ s \in Part(n + 1)
    <3>1. s \in Part(n + 1)
      BY <1>1
    <3>2. QED BY <2>1, <3>1
  <2>5. ASSUME NEW s \in Part(n + 1)
        PROVE  h[s] = IF s = {} THEN 0 ELSE f[Picked(s)] + h[s \ {Picked(s)}]
    <3>1. h[s] = IF s = {} THEN 0 ELSE f[Picked(s)] + g[s \ {Picked(s)}]
      OBVIOUS
    <3>2. s # {} => h[s \ {Picked(s)}] = g[s \ {Picked(s)}]
      BY <2>2, <2>4
    <3> HIDE DEF h
    <3>3. QED BY <3>1, <3>2
  <2>6. \A s \in Part(n + 1) : Adds(h, s)
    BY <2>5
  <2> HIDE DEF h, Adds, Part
  <2>7. QED BY <2>3, <2>6
<1> HIDE DEF N
<1>5. Cardinality(S) \in N
  <2>1. Nat \subseteq N
    BY <1>3, <1>4, NatInduct
  <2>2. QED BY <1>1, <2>1
<1>6. PICK g \in [SUBSET S -> Nat] : \A s \in SUBSET S : Adds(g, s)
  <2>1. Part(Cardinality(S)) = SUBSET S
    BY <1>1
  <2> HIDE DEF Adds, Part
  <2>2. QED BY <1>5, <2>1 DEF N
<1>7. g = Step(g)
  BY <1>6
<1>8. iter = Step(iter)
  BY <1>7
<1>9. SumFunction(f) = iter[S]
  BY DEF SumFunction, SumFunctionOnSet, FoldFunctionOnSet, MapThenFoldSet, Picked
<1> HIDE DEF iter
<1>10. \A s \in SUBSET S : iter[s] = IF s = {} THEN 0 ELSE f[Picked(s)] + iter[s \ {Picked(s)}]
  BY <1>8
<1>11. \A s \in SUBSET S : iter[s] \in Nat
  <2> DEFINE T == {s \in SUBSET S : iter[s] \in Nat}
  <2>1. {} \in T
    BY <1>10
  <2>2. ASSUME NEW s \in SUBSET S, s # {}, s \ {Picked(s)} \in T PROVE s \in T
    BY <1>2, <1>10, <2>2
  <2> HIDE DEF T
  <2>3. SUBSET S \subseteq T
    BY <2>1, <2>2, SetInduct
  <2>4. QED BY <2>3 DEF T
<1>12. iter \in [SUBSET S -> Nat]
  BY <1>8, <1>11
<1>13. Sums(f, iter)
  BY <1>10, <1>12 DEF Sums
<1>14. QED BY <1>9, <1>13

LEMMA SumZero ==
  ASSUME NEW S, IsFiniteSet(S), NEW f \in [S -> Nat], \A x \in S : f[x] = 0
  PROVE  SumFunction(f) = 0
<1>1. PICK g : Sums(f, g) /\ SumFunction(f) = g[S]
  BY SumIs
<1> DEFINE T == {s \in SUBSET S : g[s] = 0}
<1>2. {} \in T
  BY <1>1 DEF Sums
<1>3. ASSUME NEW s \in SUBSET S, s # {}, s \ {Picked(s)} \in T PROVE s \in T
  <2>1. Picked(s) \in s
    BY <1>3 DEF Picked
  <2>2. QED BY <1>1, <1>3, <2>1 DEF Sums
<1> HIDE DEF T
<1>4. SUBSET S \subseteq T
  BY <1>2, <1>3, SetInduct
<1>5. QED BY <1>1, <1>4 DEF T

\* One more of one element is one more in the sum.
LEMMA SumStep ==
  ASSUME NEW S, IsFiniteSet(S), NEW f \in [S -> Nat], NEW k \in S
  PROVE  SumFunction([f EXCEPT ![k] = @ + 1]) = SumFunction(f) + 1
<1> DEFINE d == [f EXCEPT ![k] = @ + 1]
<1>1. /\ d \in [S -> Nat] /\ \A x \in S : d[x] = IF x = k THEN f[x] + 1 ELSE f[x]
      /\ DOMAIN d = S /\ DOMAIN f = S
  OBVIOUS
<1> HIDE DEF d
<1>2. PICK g : Sums(f, g) /\ SumFunction(f) = g[S]
  BY SumIs
<1>3. PICK h : Sums(d, h) /\ SumFunction(d) = h[S]
  BY <1>1, SumIs
<1> DEFINE T == {s \in SUBSET S : h[s] = IF k \in s THEN g[s] + 1 ELSE g[s]}
<1>4. {} \in T
  BY <1>2, <1>3 DEF Sums
<1>5. ASSUME NEW s \in SUBSET S, s # {}, s \ {Picked(s)} \in T PROVE s \in T
  <2>1. Picked(s) \in s
    BY <1>5 DEF Picked
  <2> DEFINE r == s \ {Picked(s)}
  <2>2. /\ g[s] = f[Picked(s)] + g[r] /\ h[s] = d[Picked(s)] + h[r]
        /\ g[r] \in Nat /\ h[r] \in Nat /\ f[Picked(s)] \in Nat
    BY <1>1, <1>2, <1>3, <1>5, <2>1 DEF Sums
  <2>3. h[r] = IF k \in r THEN g[r] + 1 ELSE g[r]
    BY <1>5
  <2>4. k \in s <=> k = Picked(s) \/ k \in r
    BY <2>1
  <2>5. h[s] = IF k \in s THEN g[s] + 1 ELSE g[s]
    BY <1>1, <2>1, <2>2, <2>3, <2>4
  <2>6. QED BY <1>5, <2>5
<1> HIDE DEF T
<1>6. SUBSET S \subseteq T
  BY <1>4, <1>5, SetInduct
<1>7. QED BY <1>2, <1>3, <1>6 DEF T, d

LEMMA SumElement ==
  ASSUME NEW S, IsFiniteSet(S), NEW f \in [S -> Nat], NEW k \in S
  PROVE  f[k] <= SumFunction(f)
<1>1. PICK g : Sums(f, g) /\ SumFunction(f) = g[S]
  BY SumIs
<1> DEFINE T == {s \in SUBSET S : k \in s => f[k] <= g[s]}
<1>2. {} \in T
  OBVIOUS
<1>3. ASSUME NEW s \in SUBSET S, s # {}, s \ {Picked(s)} \in T PROVE s \in T
  <2>1. Picked(s) \in s
    BY <1>3 DEF Picked
  <2> DEFINE r == s \ {Picked(s)}
  <2>2. g[s] = f[Picked(s)] + g[r] /\ g[r] \in Nat /\ f[Picked(s)] \in Nat /\ f[k] \in Nat
    BY <1>1, <1>3, <2>1 DEF Sums
  <2>3. k \in s => k = Picked(s) \/ f[k] <= g[r]
    BY <1>3
  <2>4. QED BY <1>3, <2>2, <2>3
<1> HIDE DEF T
<1>4. SUBSET S \subseteq T
  BY <1>2, <1>3, SetInduct
<1>5. QED BY <1>1, <1>4 DEF T

LEMMA SumType ==
  ASSUME NEW S, IsFiniteSet(S), NEW f \in [S -> Nat] PROVE SumFunction(f) \in Nat
<1>1. PICK g : Sums(f, g) /\ SumFunction(f) = g[S]
  BY SumIs
<1>2. DOMAIN f = S
  OBVIOUS
<1>3. QED BY <1>1, <1>2 DEF Sums

LEMMA SumBound ==
  ASSUME NEW S, IsFiniteSet(S), NEW n \in Nat, NEW f \in [S -> 0..n]
  PROVE  SumFunction(f) <= Cardinality(S) * n
<1>1. f \in [S -> Nat] /\ DOMAIN f = S /\ \A x \in S : f[x] \in Nat /\ f[x] <= n
  OBVIOUS
<1>2. PICK g : Sums(f, g) /\ SumFunction(f) = g[S]
  BY <1>1, SumIs
<1> DEFINE T == {s \in SUBSET S : g[s] <= Cardinality(s) * n}
<1>3. {} \in T
  BY <1>2, FS_EmptySet DEF Sums
<1>4. ASSUME NEW s \in SUBSET S, s # {}, s \ {Picked(s)} \in T PROVE s \in T
  <2>1. Picked(s) \in s
    BY <1>4 DEF Picked
  <2> DEFINE r == s \ {Picked(s)}
             m == Cardinality(r)
  <2>2. g[s] = f[Picked(s)] + g[r] /\ g[r] \in Nat
    BY <1>1, <1>2, <1>4 DEF Sums
  <2>3. Cardinality(s) = m + 1 /\ m \in Nat
    BY <2>1, FS_Subset, FS_CardinalityType, FS_RemoveElement
  <2>4. g[r] <= m * n /\ f[Picked(s)] <= n /\ f[Picked(s)] \in Nat
    BY <1>1, <1>4, <2>1
  <2> HIDE DEF m, r
  <2>5. (m + 1) * n = m * n + n /\ m * n \in Nat
    BY <2>3
  <2>6. g[s] <= (m + 1) * n
    BY <2>2, <2>4, <2>5
  <2>7. QED BY <1>4, <2>3, <2>6
<1> HIDE DEF T
<1>5. SUBSET S \subseteq T
  BY <1>3, <1>4, SetInduct
<1>6. QED BY <1>2, <1>5 DEF T

----------------------------------------------------------------------------
(* The counters add up: CountersMatchFile, with both kernels.              *)

CountsAdd ==
  /\ AllHits >= Stored
  /\ Stored < MaxEvents => AllHits = Stored
  /\ \A u \in Units :
       /\ Total(u) <= counters.SU_hits[u]
       /\ (\A c \in Classes : counters.event_counter[<<u, c>>] < CounterLimit)
            => Total(u) = counters.SU_hits[u]

LEMMA MatchIs == CountersMatchFile <=> (resets = 0 => CountsAdd)
BY DEF CountersMatchFile, CountsAdd, Stored

\* The class counters of a Sensor Unit.
Row(cnt, u) == [c \in Classes |-> cnt.event_counter[<<u, c>>]]

LEMMA SumTypes ==
  ASSUME NEW cnt \in CounterRecords
  PROVE  /\ cnt.SU_hits \in [Units -> Nat] /\ SumFunction(cnt.SU_hits) \in Nat
         /\ \A u \in Units : /\ Row(cnt, u) \in [Classes -> Nat]
                             /\ SumFunction(Row(cnt, u)) \in Nat
                             /\ SumFunction(Row(cnt, u)) <= HitsLimit
                             /\ cnt.SU_hits[u] <= SumFunction(cnt.SU_hits)
<1>1. /\ cnt.event_counter \in [Units \X Classes -> 0..CounterLimit]
      /\ cnt.SU_hits \in [Units -> 0..HitsLimit]
  BY DEF CounterRecords
<1>2. cnt.SU_hits \in [Units -> Nat]
  BY <1>1, StoreAssumption
<1>3. SumFunction(cnt.SU_hits) \in Nat
  BY <1>2, SumType, LimitAssumption
<1>4. ASSUME NEW u \in Units
      PROVE  /\ Row(cnt, u) \in [Classes -> Nat] /\ SumFunction(Row(cnt, u)) \in Nat
             /\ SumFunction(Row(cnt, u)) <= HitsLimit
             /\ cnt.SU_hits[u] <= SumFunction(cnt.SU_hits)
  <2>1. Row(cnt, u) \in [Classes -> 0..CounterLimit]
    BY <1>1 DEF Row
  <2>2. Row(cnt, u) \in [Classes -> Nat]
    BY <2>1, StoreAssumption
  <2>3. SumFunction(Row(cnt, u)) <= Cardinality(Classes) * CounterLimit
    BY <2>1, SumBound, StoreAssumption, LimitAssumption
  <2>4. Cardinality(Classes) * CounterLimit \in Nat
    <3>1. Cardinality(Classes) \in Nat /\ CounterLimit \in Nat
      BY FS_CardinalityType, StoreAssumption, LimitAssumption
    <3>2. QED BY <3>1
  <2>5. SumFunction(Row(cnt, u)) \in Nat
    BY <2>2, SumType, LimitAssumption
  <2>6. cnt.SU_hits[u] <= SumFunction(cnt.SU_hits)
    BY <1>2, SumElement, LimitAssumption
  <2>7. QED BY <2>2, <2>3, <2>4, <2>5, <2>6, StoreAssumption, LimitAssumption
<1>5. QED BY <1>2, <1>3, <1>4

LEMMA TotalIs ==
  /\ AllHits = SumFunction(counters.SU_hits) /\ AllHits' = SumFunction(counters'.SU_hits)
  /\ \A u \in Units : /\ Total(u) = SumFunction(Row(counters, u))
                      /\ Total(u)' = SumFunction(Row(counters', u))
BY DEF AllHits, Total, Row

LEMMA KeepAdds == ASSUME KeepCounters, CountsAdd PROVE CountsAdd'
<1>1. AllHits' = AllHits /\ \A u \in Units : Total(u)' = Total(u)
  BY DEF KeepCounters, AllHits, Total
<1>2. QED BY <1>1 DEF CountsAdd, KeepCounters

LEMMA ZeroSums ==
  ASSUME NEW cnt, cnt.event_counter = NoCounters.event_counter,
         cnt.SU_hits = NoCounters.SU_hits
  PROVE  /\ SumFunction(cnt.SU_hits) = 0
         /\ \A u \in Units : SumFunction(Row(cnt, u)) = 0 /\ cnt.SU_hits[u] = 0
<1>1. /\ cnt.SU_hits \in [Units -> Nat] /\ \A u \in Units : cnt.SU_hits[u] = 0
      /\ \A u \in Units : /\ Row(cnt, u) \in [Classes -> Nat]
                          /\ \A c \in Classes : Row(cnt, u)[c] = 0
  BY DEF NoCounters, Row
<1>2. SumFunction(cnt.SU_hits) = 0
  BY <1>1, SumZero, LimitAssumption
<1>3. ASSUME NEW u \in Units PROVE SumFunction(Row(cnt, u)) = 0
  BY <1>1, SumZero, LimitAssumption
<1>4. QED BY <1>1, <1>2, <1>3

LEMMA NewAdds ==
  ASSUME TypeOK, TypeOK', CountsAdd, NEW e, CountEvent(e) PROVE CountsAdd'
<1> DEFINE s == e.SU_number
           k == e.classification
           old == counters.event_counter[<<s, k>>]
           h == counters.SU_hits[s]
<1>1. /\ s \in Units /\ k \in Classes
      /\ counters'.event_counter =
           [counters.event_counter EXCEPT ![<<s, k>>] = IF @ < CounterLimit THEN @ + 1 ELSE @]
      /\ counters'.SU_hits =
           [counters.SU_hits EXCEPT ![s] = IF @ < HitsLimit THEN @ + 1 ELSE @]
  BY IncrementEffect DEF CountEvent, TypeOK, StoreType
<1>2. /\ counters.event_counter \in [Units \X Classes -> 0..CounterLimit]
      /\ counters.SU_hits \in [Units -> 0..HitsLimit]
      /\ old \in 0..CounterLimit /\ h \in 0..HitsLimit
  BY <1>1 DEF TypeOK, StoreType, CounterRecords
<1>3. counters \in CounterRecords /\ counters' \in CounterRecords
  BY DEF TypeOK, StoreType
<1>4. Stored \in Nat /\ Stored' = IF Stored < MaxEvents THEN Stored + 1 ELSE Stored
  BY StoredType DEF CountEvent
<1> HIDE DEF s, k, old, h
<1>5. AllHits' = IF h < HitsLimit THEN AllHits + 1 ELSE AllHits
  <2>1. CASE h < HitsLimit
    <3>1. counters'.SU_hits = [counters.SU_hits EXCEPT ![s] = @ + 1]
      BY <1>1, <1>2, <2>1 DEF h
    <3>2. QED BY <1>1, <1>3, <2>1, <3>1, SumTypes, SumStep, TotalIs, LimitAssumption
  <2>2. CASE ~(h < HitsLimit)
    <3>1. counters'.SU_hits = counters.SU_hits
      BY <1>1, <1>2, <2>2 DEF h
    <3>2. QED BY <2>2, <3>1, TotalIs
  <2>3. QED BY <2>1, <2>2
<1>6. Total(s)' = IF old < CounterLimit THEN Total(s) + 1 ELSE Total(s)
  <2>1. CASE old < CounterLimit
    <3>1. Row(counters', s) = [Row(counters, s) EXCEPT ![k] = @ + 1]
      BY <1>1, <1>2, <2>1 DEF Row, old
    <3>2. QED BY <1>1, <1>3, <2>1, <3>1, SumTypes, SumStep, TotalIs, LimitAssumption
  <2>2. CASE ~(old < CounterLimit)
    <3>1. counters'.event_counter = counters.event_counter
      BY <1>1, <1>2, <2>2 DEF old
    <3>2. QED BY <2>2, <3>1 DEF Total
  <2>3. QED BY <2>1, <2>2
<1>7. ASSUME NEW u \in Units, u # s
      PROVE  /\ Total(u)' = Total(u) /\ counters'.SU_hits[u] = counters.SU_hits[u]
             /\ \A c \in Classes : counters'.event_counter[<<u, c>>] =
                                     counters.event_counter[<<u, c>>]
  <2>1. /\ \A c \in Classes : counters'.event_counter[<<u, c>>] =
                                counters.event_counter[<<u, c>>]
        /\ counters'.SU_hits[u] = counters.SU_hits[u]
    BY <1>1, <1>2, <1>7
  <2>2. Row(counters', u) = Row(counters, u)
    BY <2>1 DEF Row
  <2>3. QED BY <2>1, <2>2, TotalIs
<1>8. /\ h <= AllHits /\ AllHits \in Nat /\ Total(s) \in Nat /\ Total(s)' \in Nat
      /\ Total(s)' <= HitsLimit /\ HitsLimit \in Nat /\ MaxEvents \in Nat
      /\ HitsLimit >= MaxEvents /\ CounterLimit \in Nat
  BY <1>1, <1>3, SumTypes, TotalIs, StoreAssumption, LimitAssumption DEF h
<1>9. AllHits' >= Stored' /\ (Stored' < MaxEvents => AllHits' = Stored')
  BY <1>2, <1>4, <1>5, <1>8 DEF CountsAdd
<1>10. counters'.SU_hits[s] = IF h < HitsLimit THEN h + 1 ELSE h
  BY <1>1, <1>2 DEF h
<1>11. Total(s) <= h
  BY <1>1 DEF CountsAdd, h
<1>12. Total(s)' <= counters'.SU_hits[s]
  BY <1>2, <1>6, <1>8, <1>10, <1>11
<1>13. ASSUME \A c \in Classes : counters'.event_counter[<<s, c>>] < CounterLimit
       PROVE  Total(s)' = counters'.SU_hits[s]
  <2>1. old < CounterLimit
    BY <1>1, <1>2, <1>13 DEF old
  <2>2. \A c \in Classes : counters.event_counter[<<s, c>>] < CounterLimit
    BY <1>1, <1>2, <1>13, <2>1 DEF old
  <2>3. Total(s) = h
    BY <1>1, <2>2 DEF CountsAdd, h
  <2>4. QED BY <1>2, <1>6, <1>8, <1>10, <2>1, <2>3
<1>14. ASSUME NEW u \in Units
       PROVE  /\ Total(u)' <= counters'.SU_hits[u]
              /\ (\A c \in Classes : counters'.event_counter[<<u, c>>] < CounterLimit)
                   => Total(u)' = counters'.SU_hits[u]
  <2>1. CASE u = s
    BY <1>12, <1>13, <2>1
  <2>2. CASE u # s
    BY <1>7, <2>2 DEF CountsAdd
  <2>3. QED BY <2>1, <2>2
<1>15. QED BY <1>9, <1>14 DEF CountsAdd

(* Every event in the file has been counted once and only once, in every    *)
(* interleaving of tasks and interrupts, until the first reset: RecordEvent *)
(* counts the event for which it reserves a record, ClearEvents every event *)
(* it moves.                                                                *)
THEOREM MatchCorrect == Spec => []CountersMatchFile
<1> DEFINE Inv == CopyBound /\ (resets = 0 => CountsAdd)
<1>1. Init => Inv
  <2>1. Init => CopyBound
    BY DEF Init, CopyBound
  <2>2. Init => CountsAdd
    BY ZeroSums, TotalIs DEF Init, Stored, CountsAdd
  <2>3. QED BY <2>1, <2>2
<1>2. TypeOK /\ TypeOK' /\ QueuedEventsAreFilled /\ Inv /\ [Next]_vars => Inv'
  <2>1. SUFFICES ASSUME TypeOK, TypeOK', QueuedEventsAreFilled, Inv, [Next]_vars, resets' = 0
                 PROVE  CopyBound' /\ CountsAdd'
    BY DEF CopyBound
  <2>2. /\ resets = 0 /\ CopyBound'
        /\ KeepCounters \/ StartCounters \/ \E e \in EventRecords : CountEvent(e)
    BY <2>1, StepCounts
  <2>3. CASE KeepCounters
    BY <2>1, <2>2, <2>3, KeepAdds
  <2>4. CASE StartCounters
    <3>1. CountsAdd'
      BY <2>4, ZeroSums, TotalIs DEF StartCounters, CountsAdd
    <3>2. QED BY <2>2, <3>1
  <2>5. ASSUME NEW e \in EventRecords, CountEvent(e) PROVE CopyBound' /\ CountsAdd'
    BY <2>1, <2>2, <2>5, NewAdds
  <2>6. QED BY <2>2, <2>3, <2>4, <2>5
<1>3. Inv => CountersMatchFile
  BY MatchIs
<1>4. QED BY <1>1, <1>2, <1>3, TypeCorrect, QueueCorrect, PTL DEF Spec
=============================================================================
