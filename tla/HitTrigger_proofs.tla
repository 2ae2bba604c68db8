-------------------------- MODULE HitTrigger_proofs --------------------------
(***************************************************************************)
(* Theorems about HitTrigger for every budget, number of tries, size of    *)
(* the mailbox and sequence of tested channels.                            *)
(***************************************************************************)
EXTENDS HitTrigger, TLAPS

----------------------------------------------------------------------------
(* The inductive invariant.                                                *)

TypeInv ==
  /\ TypeOK
  /\ health \in (Reading \ {"Final"}) \cup Before => tries_left # 0

\* The event that is pending is in one place, and its measurements are there.
OneEvent ==
  \/ EXF2 /\ ACQ_mail = <<>> /\ acquisition = "WaitMail"
  \/ ~EXF2 /\ ACQ_mail = <<"own">> /\ acquisition = "WaitMail"
  \/ ~EXF2 /\ ACQ_mail = <<>> /\ acquisition # "WaitMail" /\ (acquisition = "Record" => trigger_unit = "own")

\* While it is, no other hit can come.
EventInv == (~aside /\ Pending) => (T2EX = "low" /\ OneEvent)

ModeInv ==
  /\ tc # "wait" => mode = "STAND_BY"
  /\ health \in Before => mode = "DPU_SELF_TEST"

\* LowIsPending, from the moment START_ACQUISITION has reset the counters.
LowInv ==
  ((mode = "ACQUISITION" \/ tc = "mode") /\ T2EX = "low") =>
     Pending \/ ~EXEN2 \/ health \in Testing \cup {"Rearm"}

\* As long as no hit has come, the ADC is as Health Monitoring has set it.
Undisturbed ==
  /\ health = "Start" => mux = "Health"
  /\ health \in {"Poll", "Msb", "Lsb"} => conversion = "Health"
  /\ health \in {"Lsb", "Count", "Final"} => word = "Health"

ReadInv ==
  /\ confirm_hit_result = 0 => Undisturbed
  /\ health \notin Reading => (AD_execution_result # "HIT_OCCURRED" => word = "Health")

IInv == TypeInv /\ EventInv /\ ModeInv /\ LowInv /\ ReadInv

----------------------------------------------------------------------------

\* The steps by the part of the state that they change.
ReadStep == Read_AD_Channel \/ MeasureTemperature
TriggerStep == Hit \/ Hit_Trigger_Task
WaitStep == WaitInterval \/ NoSelfTest

LEMMA Steps ==
  ASSUME [Next]_vars
  PROVE  \/ TriggerStep \/ HandleAcquisition \/ START_ACQUISITION \/ Starting \/ STOP_ACQUISITION
         \/ Init_DPU \/ Boot \/ InitSystem \/ WaitStep \/ ReadStep \/ SelfTest \/ Budget
         \/ Reset \/ UNCHANGED vars
BY DEF Next, Health_Task, ReadStep, TriggerStep, WaitStep

LEMMA LostType ==
  ASSUME ACQ_mail \in Seq(Mail)
  PROVE  Lost \in Seq(Mail) /\ Len(Lost) = Len(ACQ_mail)
BY DEF Lost, Mail

LEMMA Constants ==
  /\ HIT_BUDGET_DEFAULT \in Nat \ {0} /\ ADC_max_tries \in Nat \ {0} /\ MailCapacity \in Nat \ {0}
  /\ Len(Channels) \in Nat \ {0}
BY HitTriggerAssumption

LEMMA AppendType ==
  ASSUME NEW s \in Seq(Mail)
  PROVE  /\ Append(s, "own") \in Seq(Mail) /\ Len(Append(s, "own")) = Len(s) + 1
         /\ Append(s, "own") # <<>>
<1>1. "own" \in Mail
  BY DEF Mail
<1>2. Append(s, "own") \in Seq(Mail) /\ Len(Append(s, "own")) = Len(s) + 1 /\ Len(s) \in Nat
  BY <1>1
<1>3. Len(<<>>) = 0
  OBVIOUS
<1>4. QED BY <1>2, <1>3

(* What happens to the mails when a hit is handled.                        *)
LEMMA MailsType ==
  ASSUME TypeInv, HandleHitTrigger
  PROVE  ACQ_mail' \in Seq(Mail) /\ Len(ACQ_mail') <= MailCapacity /\ ACQ_mail' # <<>>
<1>1. ACQ_mail \in Seq(Mail) /\ Len(ACQ_mail) <= MailCapacity /\ MailCapacity \in Nat \ {0}
  BY Constants DEF TypeInv, TypeOK
<1>2. Lost \in Seq(Mail) /\ Len(Lost) = Len(ACQ_mail) /\ Len(ACQ_mail) \in Nat
  BY <1>1, LostType
<1>3. CASE Len(ACQ_mail) < MailCapacity
  BY <1>1, <1>2, <1>3, AppendType DEF HandleHitTrigger
<1>4. CASE ~(Len(ACQ_mail) < MailCapacity)
  <2>1. ACQ_mail' = Lost /\ Len(Lost) # 0
    BY <1>1, <1>2, <1>4 DEF HandleHitTrigger
  <2>2. Len(<<>>) = 0
    OBVIOUS
  <2>3. QED BY <1>1, <1>2, <2>1, <2>2
<1>5. QED BY <1>3, <1>4

LEMMA TypeInit == Init => TypeInv
<1> SUFFICES ASSUME Init PROVE TypeInv
  OBVIOUS
<1>1. EXF2 \in BOOLEAN /\ EXEN2 \in BOOLEAN /\ aside \in BOOLEAN
  BY DEF Init
<1>2. <<>> \in Seq(Mail) /\ Len(<<>>) = 0
  OBVIOUS
<1>3. ACQ_mail \in Seq(Mail) /\ Len(ACQ_mail) <= MailCapacity /\ trigger_unit \in Mail
  BY <1>2, Constants DEF Init, Mail
<1>4. hit_budget_left \in 0..HIT_BUDGET_DEFAULT /\ channel \in 1..Len(Channels)
      /\ tries_left \in 0..ADC_max_tries /\ tries_left # 0 /\ confirm_hit_result \in {0, 1}
  BY Constants DEF Init
<1>5. QED BY <1>1, <1>3, <1>4 DEF Init, TypeInv, TypeOK, Parties, Rounds, Before, Reading, Testing,
             Rearming

LEMMA TypeNext ==
  ASSUME TypeInv, [Next]_vars
  PROVE  TypeInv'
<1> USE DEF TypeInv, TypeOK, Mail, Parties, Rounds, Before, Reading, Testing, Rearming
<1>1. CASE TriggerStep
  <2>1. CASE Hit
    BY <2>1 DEF Hit, Aside, Pending, events, telecommand, monitor, adc
  <2>2. CASE HandleHitTrigger_Exceeded
    <3>1. EXF2' \in BOOLEAN /\ EXEN2' \in BOOLEAN /\ aside' \in BOOLEAN
      BY <2>2, Zenon DEF HandleHitTrigger_Exceeded, Aside
    <3>2. QED
      BY <2>2, <3>1 DEF HandleHitTrigger_Exceeded, events, telecommand, monitor, adc
  <2>3. CASE HandleHitTrigger
    <3>1. EXF2' \in BOOLEAN /\ EXEN2' \in BOOLEAN /\ aside' \in BOOLEAN
      BY <2>3, Zenon DEF HandleHitTrigger, Aside
    <3>2. hit_budget_left' \in 0..HIT_BUDGET_DEFAULT
      BY <2>3, Constants DEF HandleHitTrigger
    <3>3. trigger_unit' \in Mail
      BY <2>3 DEF HandleHitTrigger, OwnLost
    <3>4. /\ T2EX' = T2EX /\ acquisition' = acquisition /\ mode' = mode /\ tc' = tc
          /\ health' = health /\ round' = round /\ channel' = channel /\ word' = word
          /\ AD_execution_result' = AD_execution_result /\ tries_left' = tries_left
          /\ confirm_hit_result' = 1 /\ mux' = "HitTrigger" /\ conversion' = "HitTrigger"
      BY <2>3 DEF HandleHitTrigger, telecommand, monitor
    <3>5. ACQ_mail' \in Seq(Mail) /\ Len(ACQ_mail') <= MailCapacity
      BY <2>3, MailsType
    <3>6. QED
      BY <3>1, <3>2, <3>3, <3>4, <3>5
  <2>4. QED BY <1>1, <2>1, <2>2, <2>3 DEF TriggerStep, Hit_Trigger_Task
<1>2. CASE HandleAcquisition
  <2>1. CASE HandleAcquisition_WaitMail
    BY <2>1, Constants DEF HandleAcquisition_WaitMail, Aside, Pending, trigger, telecommand,
          monitor, adc
  <2>2. CASE HandleAcquisition_Record
    BY <2>2 DEF HandleAcquisition_Record, Aside, Pending, trigger, telecommand, monitor, adc
  <2>3. CASE HandleAcquisition_Reset
    BY <2>3, LostType DEF HandleAcquisition_Reset, Aside, Pending, ResetDelayCounters, OwnLost,
          telecommand, monitor, adc
  <2>4. QED BY <1>2, <2>1, <2>2, <2>3 DEF HandleAcquisition
<1>3. CASE START_ACQUISITION
  BY <1>3 DEF START_ACQUISITION, TC, trigger, events, monitor, adc
<1>4. CASE Starting
  <2>1. CASE START_ACQUISITION_Clear
    <3>1. EXF2' \in BOOLEAN /\ EXEN2' \in BOOLEAN /\ aside' \in BOOLEAN
      BY <2>1, Zenon DEF START_ACQUISITION_Clear, Aside
    <3>2. QED
      BY <2>1, <3>1 DEF START_ACQUISITION_Clear, TC, events, monitor, adc
  <2>2. CASE START_ACQUISITION_Counters
    BY <2>2, LostType DEF START_ACQUISITION_Counters, TC, Aside, Pending, ResetDelayCounters,
          OwnLost, monitor, adc
  <2>3. CASE START_ACQUISITION_Mode
    BY <2>3 DEF START_ACQUISITION_Mode, TC, trigger, events, monitor, adc
  <2>4. QED BY <1>4, <2>1, <2>2, <2>3 DEF Starting
<1>5. CASE STOP_ACQUISITION
  BY <1>5 DEF STOP_ACQUISITION, TC, trigger, events, monitor, adc
<1>6. CASE Init_DPU
  <2>1. EXF2' \in BOOLEAN /\ EXEN2' \in BOOLEAN /\ aside' \in BOOLEAN
    BY <1>6, Zenon DEF Init_DPU, Aside
  <2>2. QED
    BY <1>6, <2>1 DEF Init_DPU, Goto, events, telecommand, adc
<1>7. CASE Boot
  BY <1>7, LostType DEF Boot, Goto, Aside, Pending, ResetDelayCounters, OwnLost, telecommand,
        adc
<1>8. CASE InitSystem
  BY <1>8 DEF InitSystem, Goto, events, telecommand, adc
<1>9. CASE WaitStep
  <2>1. CASE WaitInterval
    BY <2>1 DEF WaitInterval, Goto, Pending, trigger, events, telecommand, adc
  <2>2. CASE NoSelfTest
    BY <2>2 DEF NoSelfTest, Goto, EndRound, NextRound, trigger, events, telecommand, adc
  <2>3. QED BY <1>9, <2>1, <2>2 DEF WaitStep
<1>10. CASE ReadStep
  <2>1. CASE MeasureTemperature
    BY <2>1, Constants DEF MeasureTemperature, Goto, trigger, events, telecommand
  <2>2. CASE Read_AD_Channel_Clear
    BY <2>2 DEF Read_AD_Channel_Clear, Goto, Unread, trigger, events, telecommand
  <2>3. CASE Read_AD_Channel_Select
    BY <2>3 DEF Read_AD_Channel_Select, Goto, Unread, trigger, events, telecommand
  <2>4. CASE Convert_AD_Start
    BY <2>4 DEF Convert_AD_Start, Goto, Unread, trigger, events, telecommand
  <2>5. CASE Convert_AD_Ended
    BY <2>5 DEF Convert_AD_Ended, Goto, Unread, trigger, events, telecommand, adc
  <2>6. CASE Convert_AD_TimeOut
    BY <2>6 DEF Convert_AD_TimeOut, Goto, Unread, trigger, events, telecommand
  <2>7. CASE Convert_AD_Msb
    BY <2>7 DEF Convert_AD_Msb, Goto, Unread, trigger, events, telecommand
  <2>8. CASE Convert_AD_Lsb
    BY <2>8 DEF Convert_AD_Lsb, Goto, Unread, trigger, events, telecommand
  <2>9. CASE Read_AD_Channel_Count
    BY <2>9, Constants DEF Read_AD_Channel_Count, Goto, Unread, trigger, events, telecommand
  <2>10. CASE Read_AD_Channel_Final
    BY <2>10 DEF Read_AD_Channel_Final, Goto, EndRound, NextRound, trigger, events
  <2>11. QED BY <1>10, <2>1, <2>2, <2>3, <2>4, <2>5, <2>6, <2>7, <2>8, <2>9, <2>10 DEF ReadStep, Read_AD_Channel
<1>11. CASE SelfTest
  <2>1. CASE SelfTestChannel
    <3>1. EXF2' \in BOOLEAN /\ EXEN2' \in BOOLEAN /\ aside' \in BOOLEAN
      BY <2>1, Zenon DEF SelfTestChannel
    <3>2. QED
      BY <2>1, <3>1 DEF SelfTestChannel, Goto, Untested, events, telecommand, adc
  <2>2. CASE ExecuteChannelTest_Clear
    <3>1. EXF2' \in BOOLEAN /\ EXEN2' \in BOOLEAN /\ aside' \in BOOLEAN
      BY <2>2, Zenon DEF ExecuteChannelTest_Clear, Aside
    <3>2. QED
      BY <2>2, <3>1 DEF ExecuteChannelTest_Clear, Goto, Untested, events, telecommand, adc
  <2>3. CASE ExecuteChannelTest_Counters
    BY <2>3, LostType DEF ExecuteChannelTest_Counters, Goto, Untested, Aside, Pending,
          ResetDelayCounters, OwnLost, telecommand, adc
  <2>4. CASE ExecuteChannelTest_Enable
    BY <2>4 DEF ExecuteChannelTest_Enable, Goto, Untested, events, telecommand, adc
  <2>5. CASE ExecuteChannelTest_Pulse
    BY <2>5, Constants DEF ExecuteChannelTest_Pulse, Goto, Untested, Aside, Pending, events,
          telecommand, adc
  <2>6. CASE ExecuteChannelTest_Next
    <3>1. EXF2' \in BOOLEAN /\ EXEN2' \in BOOLEAN /\ aside' \in BOOLEAN
      BY <2>6, Zenon DEF ExecuteChannelTest_Next
    <3>2. QED
      BY <2>6, <3>1, Constants DEF ExecuteChannelTest_Next, Goto, Untested, events,
            telecommand, adc
  <2>7. CASE ExecuteChannelTest_Last
    BY <2>7, Constants DEF ExecuteChannelTest_Last, Goto, Untested, events, telecommand, adc
  <2>8. CASE SelfTestChannel_Trigger
    BY <2>8 DEF SelfTestChannel_Trigger, Goto, EndRound, NextRound, Untested, Aside, Pending,
          events, telecommand, adc
  <2>9. QED BY <1>11, <2>1, <2>2, <2>3, <2>4, <2>5, <2>6, <2>7, <2>8 DEF SelfTest
<1>12. CASE Budget
  <2>1. CASE Monitor_Budget
    BY <2>1, Constants DEF Monitor_Budget, Goto, events, telecommand, adc
  <2>2. CASE Monitor_Enabled
    BY <2>2 DEF Monitor_Enabled, Goto, EndRound, NextRound, trigger, events, telecommand, adc
  <2>3. CASE Monitor_Enable
    BY <2>3 DEF Monitor_Enable, Goto, events, telecommand, adc
  <2>4. CASE Monitor_Rearm
    BY <2>4, LostType DEF Monitor_Rearm, Goto, EndRound, NextRound, Aside, Pending,
          ResetDelayCounters, OwnLost, telecommand, adc
  <2>5. QED BY <1>12, <2>1, <2>2, <2>3, <2>4 DEF Budget
<1>13. CASE Reset
  <2>1. EXF2' \in BOOLEAN /\ EXEN2' \in BOOLEAN /\ aside' \in BOOLEAN
    BY <1>13, Zenon DEF Reset, Aside
  <2>2. <<>> \in Seq(Mail) /\ Len(<<>>) = 0
    OBVIOUS
  <2>3. ACQ_mail' \in Seq(Mail) /\ Len(ACQ_mail') <= MailCapacity /\ trigger_unit' \in Mail
    BY <1>13, <2>2, Constants DEF Reset
  <2>4. hit_budget_left' \in 0..HIT_BUDGET_DEFAULT /\ channel' \in 1..Len(Channels)
        /\ tries_left' \in 0..ADC_max_tries /\ tries_left' # 0
    BY <1>13, Constants DEF Reset
  <2>5. QED
    BY <1>13, <2>1, <2>3, <2>4 DEF Reset
<1>14. CASE UNCHANGED vars
  BY <1>14 DEF vars, trigger, events, telecommand, monitor, adc
<1>15. QED BY Steps, <1>1, <1>2, <1>3, <1>4, <1>5, <1>6, <1>7, <1>8, <1>9, <1>10, <1>11, <1>12, <1>13, <1>14

LEMMA EventInit == Init => EventInv
BY DEF Init, EventInv, Pending

(* Nothing is lost when the mailbox is empty.                              *)
LEMMA EmptyMails ==
  ASSUME NEW s, s = <<"own">>
  PROVE  Head(s) = "own" /\ Tail(s) = <<>> /\ s # <<>>
OBVIOUS

LEMMA MailTaken ==
  ASSUME EventInv, HandleAcquisition_WaitMail
  PROVE  EventInv'
<1> SUFFICES ASSUME ~aside', Pending' PROVE T2EX' = "low" /\ OneEvent'
  BY DEF EventInv
<1>1. ~aside
  BY DEF HandleAcquisition_WaitMail, Aside
<1>2. T2EX = "low" /\ ~EXF2 /\ ACQ_mail = <<"own">>
  BY <1>1 DEF HandleAcquisition_WaitMail, EventInv, OneEvent, Pending
<1>3. trigger_unit' = "own" /\ ACQ_mail' = <<>> /\ acquisition' = "Record"
      /\ EXF2' = EXF2 /\ T2EX' = T2EX
  BY <1>2, EmptyMails DEF HandleAcquisition_WaitMail, trigger
<1>4. QED BY <1>2, <1>3 DEF OneEvent

LEMMA EventDone ==
  ASSUME EventInv, HandleAcquisition_Reset
  PROVE  EventInv'
<1> SUFFICES ASSUME ~aside', Pending' PROVE FALSE
  BY DEF EventInv
<1>1. ~aside
  BY DEF HandleAcquisition_Reset, Aside
<1>2. ~EXF2 /\ ACQ_mail = <<>>
  BY <1>1 DEF HandleAcquisition_Reset, EventInv, OneEvent, Pending
<1>3. Lost = <<>>
  <2>1. Len(ACQ_mail) = 0
    BY <1>2
  <2>2. QED BY <2>1 DEF Lost
<1>4. ~EXF2' /\ ACQ_mail' = <<>> /\ acquisition' = "WaitMail"
  BY <1>2, <1>3 DEF HandleAcquisition_Reset, ResetDelayCounters
<1>5. QED BY <1>4 DEF Pending

LEMMA HitMailed ==
  ASSUME TypeInv, EventInv, HandleHitTrigger
  PROVE  EventInv'
<1> SUFFICES ASSUME ~aside', Pending' PROVE T2EX' = "low" /\ OneEvent'
  BY DEF EventInv
<1>1. ~aside
  BY DEF HandleHitTrigger, Aside
<1>2. T2EX = "low" /\ ACQ_mail = <<>> /\ acquisition = "WaitMail"
  BY <1>1 DEF HandleHitTrigger, Interrupt, EventInv, OneEvent, Pending
<1>3. ACQ_mail' = <<"own">>
  <2>1. Len(ACQ_mail) = 0 /\ MailCapacity \in Nat \ {0}
    BY <1>2, Constants
  <2>2. Lost = <<>>
    BY <2>1 DEF Lost
  <2>3. Append(<<>>, "own") = <<"own">>
    OBVIOUS
  <2>4. QED BY <2>1, <2>2, <2>3 DEF HandleHitTrigger
<1>4. ~EXF2' /\ T2EX' = T2EX /\ acquisition' = acquisition
  BY DEF HandleHitTrigger
<1>5. QED BY <1>2, <1>3, <1>4 DEF OneEvent

LEMMA EventNext ==
  ASSUME TypeInv, EventInv, [Next]_vars
  PROVE  EventInv'
<1> USE DEF EventInv, OneEvent, Pending, Aside
<1>1. CASE TriggerStep
  <2>1. CASE Hit
    BY <2>1 DEF Hit, events, telecommand, monitor, adc
  <2>2. CASE HandleHitTrigger_Exceeded
    BY <2>2 DEF HandleHitTrigger_Exceeded, events, telecommand, monitor, adc
  <2>3. CASE HandleHitTrigger
    BY <2>3, HitMailed
  <2>4. QED BY <1>1, <2>1, <2>2, <2>3 DEF TriggerStep, Hit_Trigger_Task
<1>2. CASE HandleAcquisition
  <2>1. CASE HandleAcquisition_WaitMail
    BY <2>1, MailTaken
  <2>2. CASE HandleAcquisition_Record
    BY <2>2 DEF HandleAcquisition_Record, trigger, telecommand, monitor, adc
  <2>3. CASE HandleAcquisition_Reset
    BY <2>3, EventDone
  <2>4. QED BY <1>2, <2>1, <2>2, <2>3 DEF HandleAcquisition
<1>3. CASE START_ACQUISITION
  BY <1>3 DEF START_ACQUISITION, TC, trigger, events, monitor, adc
<1>4. CASE Starting
  <2>1. CASE START_ACQUISITION_Clear
    BY <2>1 DEF START_ACQUISITION_Clear, TC, events, monitor, adc
  <2>2. CASE START_ACQUISITION_Counters
    BY <2>2 DEF START_ACQUISITION_Counters, ResetDelayCounters, OwnLost, Lost, TC, monitor, adc
  <2>3. CASE START_ACQUISITION_Mode
    BY <2>3 DEF START_ACQUISITION_Mode, TC, trigger, events, monitor, adc
  <2>4. QED BY <1>4, <2>1, <2>2, <2>3 DEF Starting
<1>5. CASE STOP_ACQUISITION
  BY <1>5 DEF STOP_ACQUISITION, TC, trigger, events, monitor, adc
<1>6. CASE Init_DPU
  BY <1>6 DEF Init_DPU, Goto, events, telecommand, adc
<1>7. CASE Boot
  BY <1>7 DEF Boot, ResetDelayCounters, OwnLost, Lost, Goto, telecommand, adc
<1>8. CASE InitSystem
  BY <1>8 DEF InitSystem, Goto, events, telecommand, adc
<1>9. CASE WaitStep
  <2>1. CASE WaitInterval
    BY <2>1 DEF WaitInterval, Goto, trigger, events, telecommand, adc
  <2>2. CASE NoSelfTest
    BY <2>2 DEF NoSelfTest, Goto, EndRound, trigger, events, telecommand, adc
  <2>3. QED BY <1>9, <2>1, <2>2 DEF WaitStep
<1>10. CASE ReadStep
  <2>1. CASE MeasureTemperature
    BY <2>1 DEF MeasureTemperature, Goto, trigger, events, telecommand
  <2>2. CASE Read_AD_Channel_Clear
    BY <2>2 DEF Read_AD_Channel_Clear, Goto, Unread, trigger, events, telecommand
  <2>3. CASE Read_AD_Channel_Select
    BY <2>3 DEF Read_AD_Channel_Select, Goto, Unread, trigger, events, telecommand
  <2>4. CASE Convert_AD_Start
    BY <2>4 DEF Convert_AD_Start, Goto, Unread, trigger, events, telecommand
  <2>5. CASE Convert_AD_Ended
    BY <2>5 DEF Convert_AD_Ended, Goto, Unread, trigger, events, telecommand, adc
  <2>6. CASE Convert_AD_TimeOut
    BY <2>6 DEF Convert_AD_TimeOut, Goto, Unread, trigger, events, telecommand
  <2>7. CASE Convert_AD_Msb
    BY <2>7 DEF Convert_AD_Msb, Goto, Unread, trigger, events, telecommand
  <2>8. CASE Convert_AD_Lsb
    BY <2>8 DEF Convert_AD_Lsb, Goto, Unread, trigger, events, telecommand
  <2>9. CASE Read_AD_Channel_Count
    BY <2>9 DEF Read_AD_Channel_Count, Goto, Unread, trigger, events, telecommand
  <2>10. CASE Read_AD_Channel_Final
    BY <2>10 DEF Read_AD_Channel_Final, Goto, EndRound, trigger, events
  <2>11. QED BY <1>10, <2>1, <2>2, <2>3, <2>4, <2>5, <2>6, <2>7, <2>8, <2>9, <2>10 DEF ReadStep, Read_AD_Channel
<1>11. CASE SelfTest
  <2>1. CASE SelfTestChannel
    BY <2>1 DEF SelfTestChannel, Goto, Untested, events, telecommand, adc
  <2>2. CASE ExecuteChannelTest_Clear
    BY <2>2 DEF ExecuteChannelTest_Clear, Goto, Untested, events, telecommand, adc
  <2>3. CASE ExecuteChannelTest_Counters
    BY <2>3 DEF ExecuteChannelTest_Counters, ResetDelayCounters, OwnLost, Lost, Goto, Untested,
          telecommand, adc
  <2>4. CASE ExecuteChannelTest_Enable
    BY <2>4 DEF ExecuteChannelTest_Enable, Goto, Untested, events, telecommand, adc
  <2>5. CASE ExecuteChannelTest_Pulse
    BY <2>5 DEF ExecuteChannelTest_Pulse, Goto, Untested, events, telecommand, adc
  <2>6. CASE ExecuteChannelTest_Next
    BY <2>6 DEF ExecuteChannelTest_Next, Goto, Untested, events, telecommand, adc
  <2>7. CASE ExecuteChannelTest_Last
    BY <2>7 DEF ExecuteChannelTest_Last, Goto, Untested, events, telecommand, adc
  <2>8. CASE SelfTestChannel_Trigger
    BY <2>8 DEF SelfTestChannel_Trigger, Goto, EndRound, Untested, events, telecommand, adc
  <2>9. QED BY <1>11, <2>1, <2>2, <2>3, <2>4, <2>5, <2>6, <2>7, <2>8 DEF SelfTest
<1>12. CASE Budget
  <2>1. CASE Monitor_Budget
    BY <2>1 DEF Monitor_Budget, Goto, events, telecommand, adc
  <2>2. CASE Monitor_Enabled
    BY <2>2 DEF Monitor_Enabled, Goto, EndRound, trigger, events, telecommand, adc
  <2>3. CASE Monitor_Enable
    BY <2>3 DEF Monitor_Enable, Goto, events, telecommand, adc
  <2>4. CASE Monitor_Rearm
    BY <2>4 DEF Monitor_Rearm, ResetDelayCounters, OwnLost, Lost, Goto, EndRound, telecommand,
          adc
  <2>5. QED BY <1>12, <2>1, <2>2, <2>3, <2>4 DEF Budget
<1>13. CASE Reset
  BY <1>13 DEF Reset
<1>14. CASE UNCHANGED vars
  BY <1>14 DEF vars, trigger, events, telecommand, monitor, adc
<1>15. QED BY Steps, <1>1, <1>2, <1>3, <1>4, <1>5, <1>6, <1>7, <1>8, <1>9, <1>10, <1>11, <1>12, <1>13, <1>14

LEMMA ModeInit == Init => ModeInv
BY DEF Init, ModeInv

LEMMA ModeNext ==
  ASSUME TypeInv, ModeInv, [Next]_vars
  PROVE  ModeInv'
<1> USE DEF ModeInv, Before
<1>1. CASE TriggerStep
  <2>1. CASE Hit
    BY <2>1 DEF Hit, events, telecommand, monitor, adc
  <2>2. CASE HandleHitTrigger_Exceeded
    BY <2>2 DEF HandleHitTrigger_Exceeded, events, telecommand, monitor, adc
  <2>3. CASE HandleHitTrigger
    BY <2>3 DEF HandleHitTrigger, telecommand, monitor
  <2>4. QED BY <1>1, <2>1, <2>2, <2>3 DEF TriggerStep, Hit_Trigger_Task
<1>2. CASE HandleAcquisition
  <2>1. CASE HandleAcquisition_WaitMail
    BY <2>1 DEF HandleAcquisition_WaitMail, trigger, telecommand, monitor, adc
  <2>2. CASE HandleAcquisition_Record
    BY <2>2 DEF HandleAcquisition_Record, trigger, telecommand, monitor, adc
  <2>3. CASE HandleAcquisition_Reset
    BY <2>3 DEF HandleAcquisition_Reset, telecommand, monitor, adc
  <2>4. QED BY <1>2, <2>1, <2>2, <2>3 DEF HandleAcquisition
<1>3. CASE START_ACQUISITION
  BY <1>3 DEF START_ACQUISITION, TC, trigger, events, monitor, adc
<1>4. CASE Starting
  <2>1. CASE START_ACQUISITION_Clear
    BY <2>1 DEF START_ACQUISITION_Clear, TC, events, monitor, adc
  <2>2. CASE START_ACQUISITION_Counters
    BY <2>2 DEF START_ACQUISITION_Counters, TC, monitor, adc
  <2>3. CASE START_ACQUISITION_Mode
    BY <2>3 DEF START_ACQUISITION_Mode, TC, trigger, events, monitor, adc
  <2>4. QED BY <1>4, <2>1, <2>2, <2>3 DEF Starting
<1>5. CASE STOP_ACQUISITION
  BY <1>5 DEF STOP_ACQUISITION, TC, trigger, events, monitor, adc
<1>6. CASE Init_DPU
  BY <1>6 DEF Init_DPU, Goto, events, telecommand, adc
<1>7. CASE Boot
  BY <1>7 DEF Boot, Goto, telecommand, adc
<1>8. CASE InitSystem
  BY <1>8 DEF InitSystem, Goto, events, telecommand, adc
<1>9. CASE WaitStep
  <2>1. CASE WaitInterval
    BY <2>1 DEF WaitInterval, Goto, trigger, events, telecommand, adc
  <2>2. CASE NoSelfTest
    BY <2>2 DEF NoSelfTest, Goto, EndRound, trigger, events, telecommand, adc
  <2>3. QED BY <1>9, <2>1, <2>2 DEF WaitStep
<1>10. CASE ReadStep
  <2>1. CASE MeasureTemperature
    BY <2>1 DEF MeasureTemperature, Goto, trigger, events, telecommand
  <2>2. CASE Read_AD_Channel_Clear
    BY <2>2 DEF Read_AD_Channel_Clear, Goto, Unread, trigger, events, telecommand
  <2>3. CASE Read_AD_Channel_Select
    BY <2>3 DEF Read_AD_Channel_Select, Goto, Unread, trigger, events, telecommand
  <2>4. CASE Convert_AD_Start
    BY <2>4 DEF Convert_AD_Start, Goto, Unread, trigger, events, telecommand
  <2>5. CASE Convert_AD_Ended
    BY <2>5 DEF Convert_AD_Ended, Goto, Unread, trigger, events, telecommand, adc
  <2>6. CASE Convert_AD_TimeOut
    BY <2>6 DEF Convert_AD_TimeOut, Goto, Unread, trigger, events, telecommand
  <2>7. CASE Convert_AD_Msb
    BY <2>7 DEF Convert_AD_Msb, Goto, Unread, trigger, events, telecommand
  <2>8. CASE Convert_AD_Lsb
    BY <2>8 DEF Convert_AD_Lsb, Goto, Unread, trigger, events, telecommand
  <2>9. CASE Read_AD_Channel_Count
    BY <2>9 DEF Read_AD_Channel_Count, Goto, Unread, trigger, events, telecommand
  <2>10. CASE Read_AD_Channel_Final
    BY <2>10 DEF Read_AD_Channel_Final, Goto, EndRound, trigger, events
  <2>11. QED BY <1>10, <2>1, <2>2, <2>3, <2>4, <2>5, <2>6, <2>7, <2>8, <2>9, <2>10 DEF ReadStep, Read_AD_Channel
<1>11. CASE SelfTest
  <2>1. CASE SelfTestChannel
    BY <2>1 DEF SelfTestChannel, Goto, Untested, events, telecommand, adc
  <2>2. CASE ExecuteChannelTest_Clear
    BY <2>2 DEF ExecuteChannelTest_Clear, Goto, Untested, events, telecommand, adc
  <2>3. CASE ExecuteChannelTest_Counters
    BY <2>3 DEF ExecuteChannelTest_Counters, Goto, Untested, telecommand, adc
  <2>4. CASE ExecuteChannelTest_Enable
    BY <2>4 DEF ExecuteChannelTest_Enable, Goto, Untested, events, telecommand, adc
  <2>5. CASE ExecuteChannelTest_Pulse
    BY <2>5 DEF ExecuteChannelTest_Pulse, Goto, Untested, events, telecommand, adc
  <2>6. CASE ExecuteChannelTest_Next
    BY <2>6 DEF ExecuteChannelTest_Next, Goto, Untested, events, telecommand, adc
  <2>7. CASE ExecuteChannelTest_Last
    BY <2>7 DEF ExecuteChannelTest_Last, Goto, Untested, events, telecommand, adc
  <2>8. CASE SelfTestChannel_Trigger
    BY <2>8 DEF SelfTestChannel_Trigger, Goto, EndRound, Untested, events, telecommand, adc
  <2>9. QED BY <1>11, <2>1, <2>2, <2>3, <2>4, <2>5, <2>6, <2>7, <2>8 DEF SelfTest
<1>12. CASE Budget
  <2>1. CASE Monitor_Budget
    BY <2>1 DEF Monitor_Budget, Goto, events, telecommand, adc
  <2>2. CASE Monitor_Enabled
    BY <2>2 DEF Monitor_Enabled, Goto, EndRound, trigger, events, telecommand, adc
  <2>3. CASE Monitor_Enable
    BY <2>3 DEF Monitor_Enable, Goto, events, telecommand, adc
  <2>4. CASE Monitor_Rearm
    BY <2>4 DEF Monitor_Rearm, Goto, EndRound, telecommand, adc
  <2>5. QED BY <1>12, <2>1, <2>2, <2>3, <2>4 DEF Budget
<1>13. CASE Reset
  BY <1>13 DEF Reset
<1>14. CASE UNCHANGED vars
  BY <1>14 DEF vars, trigger, events, telecommand, monitor, adc
<1>15. QED BY Steps, <1>1, <1>2, <1>3, <1>4, <1>5, <1>6, <1>7, <1>8, <1>9, <1>10, <1>11, <1>12, <1>13, <1>14

LEMMA LowInit == Init => LowInv
BY DEF Init, LowInv

LEMMA LowNext ==
  ASSUME TypeInv, ModeInv, LowInv, [Next]_vars
  PROVE  LowInv'
<1> USE DEF LowInv, ModeInv, Before, Testing, Pending
<1>1. CASE TriggerStep
  <2>1. CASE Hit
    BY <2>1 DEF Hit, events, telecommand, monitor, adc
  <2>2. CASE HandleHitTrigger_Exceeded
    BY <2>2 DEF HandleHitTrigger_Exceeded, events, telecommand, monitor, adc
  <2>3. CASE HandleHitTrigger
    <3>1. Pending'
      BY <2>3, MailsType
    <3>2. QED BY <3>1 DEF LowInv
  <2>4. QED BY <1>1, <2>1, <2>2, <2>3 DEF TriggerStep, Hit_Trigger_Task
<1>2. CASE HandleAcquisition
  <2>1. CASE HandleAcquisition_WaitMail
    BY <2>1 DEF HandleAcquisition_WaitMail, trigger, telecommand, monitor, adc
  <2>2. CASE HandleAcquisition_Record
    BY <2>2 DEF HandleAcquisition_Record, trigger, telecommand, monitor, adc
  <2>3. CASE HandleAcquisition_Reset
    BY <2>3 DEF HandleAcquisition_Reset, ResetDelayCounters, telecommand, monitor, adc
  <2>4. QED BY <1>2, <2>1, <2>2, <2>3 DEF HandleAcquisition
<1>3. CASE START_ACQUISITION
  BY <1>3 DEF START_ACQUISITION, TC, trigger, events, monitor, adc
<1>4. CASE Starting
  <2>1. CASE START_ACQUISITION_Clear
    BY <2>1 DEF START_ACQUISITION_Clear, TC, events, monitor, adc
  <2>2. CASE START_ACQUISITION_Counters
    BY <2>2 DEF START_ACQUISITION_Counters, ResetDelayCounters, TC, monitor, adc
  <2>3. CASE START_ACQUISITION_Mode
    BY <2>3 DEF START_ACQUISITION_Mode, TC, trigger, events, monitor, adc
  <2>4. QED BY <1>4, <2>1, <2>2, <2>3 DEF Starting
<1>5. CASE STOP_ACQUISITION
  BY <1>5 DEF STOP_ACQUISITION, TC, trigger, events, monitor, adc
<1>6. CASE Init_DPU
  BY <1>6 DEF Init_DPU, Goto, events, telecommand, adc
<1>7. CASE Boot
  BY <1>7 DEF Boot, ResetDelayCounters, Goto, telecommand, adc
<1>8. CASE InitSystem
  BY <1>8 DEF InitSystem, Goto, events, telecommand, adc
<1>9. CASE WaitStep
  <2>1. CASE WaitInterval
    BY <2>1 DEF WaitInterval, Goto, trigger, events, telecommand, adc
  <2>2. CASE NoSelfTest
    BY <2>2 DEF NoSelfTest, Goto, EndRound, trigger, events, telecommand, adc
  <2>3. QED BY <1>9, <2>1, <2>2 DEF WaitStep
<1>10. CASE ReadStep
  <2>1. CASE MeasureTemperature
    BY <2>1 DEF MeasureTemperature, Goto, trigger, events, telecommand
  <2>2. CASE Read_AD_Channel_Clear
    BY <2>2 DEF Read_AD_Channel_Clear, Goto, Unread, trigger, events, telecommand
  <2>3. CASE Read_AD_Channel_Select
    BY <2>3 DEF Read_AD_Channel_Select, Goto, Unread, trigger, events, telecommand
  <2>4. CASE Convert_AD_Start
    BY <2>4 DEF Convert_AD_Start, Goto, Unread, trigger, events, telecommand
  <2>5. CASE Convert_AD_Ended
    BY <2>5 DEF Convert_AD_Ended, Goto, Unread, trigger, events, telecommand, adc
  <2>6. CASE Convert_AD_TimeOut
    BY <2>6 DEF Convert_AD_TimeOut, Goto, Unread, trigger, events, telecommand
  <2>7. CASE Convert_AD_Msb
    BY <2>7 DEF Convert_AD_Msb, Goto, Unread, trigger, events, telecommand
  <2>8. CASE Convert_AD_Lsb
    BY <2>8 DEF Convert_AD_Lsb, Goto, Unread, trigger, events, telecommand
  <2>9. CASE Read_AD_Channel_Count
    BY <2>9 DEF Read_AD_Channel_Count, Goto, Unread, trigger, events, telecommand
  <2>10. CASE Read_AD_Channel_Final
    BY <2>10 DEF Read_AD_Channel_Final, Goto, EndRound, trigger, events
  <2>11. QED BY <1>10, <2>1, <2>2, <2>3, <2>4, <2>5, <2>6, <2>7, <2>8, <2>9, <2>10 DEF ReadStep, Read_AD_Channel
<1>11. CASE SelfTest
  <2>1. CASE SelfTestChannel
    BY <2>1 DEF SelfTestChannel, Goto, Untested, events, telecommand, adc
  <2>2. CASE ExecuteChannelTest_Clear
    BY <2>2 DEF ExecuteChannelTest_Clear, Goto, Untested, events, telecommand, adc
  <2>3. CASE ExecuteChannelTest_Counters
    BY <2>3 DEF ExecuteChannelTest_Counters, ResetDelayCounters, Goto, Untested, telecommand,
          adc
  <2>4. CASE ExecuteChannelTest_Enable
    BY <2>4 DEF ExecuteChannelTest_Enable, Goto, Untested, events, telecommand, adc
  <2>5. CASE ExecuteChannelTest_Pulse
    BY <2>5 DEF ExecuteChannelTest_Pulse, Goto, Untested, events, telecommand, adc
  <2>6. CASE ExecuteChannelTest_Next
    BY <2>6 DEF ExecuteChannelTest_Next, Goto, Untested, events, telecommand, adc
  <2>7. CASE ExecuteChannelTest_Last
    BY <2>7 DEF ExecuteChannelTest_Last, Goto, Untested, events, telecommand, adc
  <2>8. CASE SelfTestChannel_Trigger
    BY <2>8 DEF SelfTestChannel_Trigger, Goto, EndRound, Untested, events, telecommand, adc
  <2>9. QED BY <1>11, <2>1, <2>2, <2>3, <2>4, <2>5, <2>6, <2>7, <2>8 DEF SelfTest
<1>12. CASE Budget
  <2>1. CASE Monitor_Budget
    BY <2>1 DEF Monitor_Budget, Goto, events, telecommand, adc
  <2>2. CASE Monitor_Enabled
    BY <2>2 DEF Monitor_Enabled, Goto, EndRound, trigger, events, telecommand, adc
  <2>3. CASE Monitor_Enable
    BY <2>3 DEF Monitor_Enable, Goto, events, telecommand, adc
  <2>4. CASE Monitor_Rearm
    BY <2>4 DEF Monitor_Rearm, ResetDelayCounters, Goto, EndRound, telecommand, adc
  <2>5. QED BY <1>12, <2>1, <2>2, <2>3, <2>4 DEF Budget
<1>13. CASE Reset
  BY <1>13 DEF Reset
<1>14. CASE UNCHANGED vars
  BY <1>14 DEF vars, trigger, events, telecommand, monitor, adc
<1>15. QED BY Steps, <1>1, <1>2, <1>3, <1>4, <1>5, <1>6, <1>7, <1>8, <1>9, <1>10, <1>11, <1>12, <1>13, <1>14

LEMMA ReadInit == Init => ReadInv
BY DEF Init, ReadInv, Reading, Undisturbed

LEMMA ReadNext ==
  ASSUME TypeInv, ReadInv, [Next]_vars
  PROVE  ReadInv'
<1> USE DEF ReadInv, Undisturbed, Reading, Before
<1>1. CASE TriggerStep
  <2>1. CASE Hit
    BY <2>1 DEF Hit, events, telecommand, monitor, adc
  <2>2. CASE HandleHitTrigger_Exceeded
    BY <2>2 DEF HandleHitTrigger_Exceeded, events, telecommand, monitor, adc
  <2>3. CASE HandleHitTrigger
    BY <2>3 DEF HandleHitTrigger, telecommand, monitor
  <2>4. QED BY <1>1, <2>1, <2>2, <2>3 DEF TriggerStep, Hit_Trigger_Task
<1>2. CASE HandleAcquisition
  <2>1. CASE HandleAcquisition_WaitMail
    BY <2>1 DEF HandleAcquisition_WaitMail, trigger, telecommand, monitor, adc
  <2>2. CASE HandleAcquisition_Record
    BY <2>2 DEF HandleAcquisition_Record, trigger, telecommand, monitor, adc
  <2>3. CASE HandleAcquisition_Reset
    BY <2>3 DEF HandleAcquisition_Reset, telecommand, monitor, adc
  <2>4. QED BY <1>2, <2>1, <2>2, <2>3 DEF HandleAcquisition
<1>3. CASE START_ACQUISITION
  BY <1>3 DEF START_ACQUISITION, TC, trigger, events, monitor, adc
<1>4. CASE Starting
  <2>1. CASE START_ACQUISITION_Clear
    BY <2>1 DEF START_ACQUISITION_Clear, TC, events, monitor, adc
  <2>2. CASE START_ACQUISITION_Counters
    BY <2>2 DEF START_ACQUISITION_Counters, TC, monitor, adc
  <2>3. CASE START_ACQUISITION_Mode
    BY <2>3 DEF START_ACQUISITION_Mode, TC, trigger, events, monitor, adc
  <2>4. QED BY <1>4, <2>1, <2>2, <2>3 DEF Starting
<1>5. CASE STOP_ACQUISITION
  BY <1>5 DEF STOP_ACQUISITION, TC, trigger, events, monitor, adc
<1>6. CASE Init_DPU
  BY <1>6 DEF Init_DPU, Goto, events, telecommand, adc
<1>7. CASE Boot
  BY <1>7 DEF Boot, Goto, telecommand, adc
<1>8. CASE InitSystem
  BY <1>8 DEF InitSystem, Goto, events, telecommand, adc
<1>9. CASE WaitStep
  <2>1. CASE WaitInterval
    BY <2>1 DEF WaitInterval, Goto, trigger, events, telecommand, adc
  <2>2. CASE NoSelfTest
    BY <2>2 DEF NoSelfTest, Goto, EndRound, trigger, events, telecommand, adc
  <2>3. QED BY <1>9, <2>1, <2>2 DEF WaitStep
<1>10. CASE ReadStep
  <2>1. CASE MeasureTemperature
    BY <2>1 DEF MeasureTemperature, Goto, trigger, events, telecommand
  <2>2. CASE Read_AD_Channel_Clear
    BY <2>2 DEF Read_AD_Channel_Clear, Goto, Unread, trigger, events, telecommand
  <2>3. CASE Read_AD_Channel_Select
    BY <2>3 DEF Read_AD_Channel_Select, Goto, Unread, trigger, events, telecommand
  <2>4. CASE Convert_AD_Start
    BY <2>4 DEF Convert_AD_Start, Goto, Unread, trigger, events, telecommand
  <2>5. CASE Convert_AD_Ended
    BY <2>5 DEF Convert_AD_Ended, Goto, Unread, trigger, events, telecommand, adc
  <2>6. CASE Convert_AD_TimeOut
    BY <2>6 DEF Convert_AD_TimeOut, Goto, Unread, trigger, events, telecommand
  <2>7. CASE Convert_AD_Msb
    BY <2>7 DEF Convert_AD_Msb, Goto, Unread, trigger, events, telecommand
  <2>8. CASE Convert_AD_Lsb
    BY <2>8 DEF Convert_AD_Lsb, Goto, Unread, trigger, events, telecommand
  <2>9. CASE Read_AD_Channel_Count
    BY <2>9 DEF Read_AD_Channel_Count, Goto, Unread, trigger, events, telecommand
  <2>10. CASE Read_AD_Channel_Final
    BY <2>10 DEF Read_AD_Channel_Final, Goto, EndRound, trigger, events
  <2>11. QED BY <1>10, <2>1, <2>2, <2>3, <2>4, <2>5, <2>6, <2>7, <2>8, <2>9, <2>10 DEF ReadStep, Read_AD_Channel
<1>11. CASE SelfTest
  <2>1. CASE SelfTestChannel
    BY <2>1 DEF SelfTestChannel, Goto, Untested, events, telecommand, adc
  <2>2. CASE ExecuteChannelTest_Clear
    BY <2>2 DEF ExecuteChannelTest_Clear, Goto, Untested, events, telecommand, adc
  <2>3. CASE ExecuteChannelTest_Counters
    BY <2>3 DEF ExecuteChannelTest_Counters, Goto, Untested, telecommand, adc
  <2>4. CASE ExecuteChannelTest_Enable
    BY <2>4 DEF ExecuteChannelTest_Enable, Goto, Untested, events, telecommand, adc
  <2>5. CASE ExecuteChannelTest_Pulse
    BY <2>5 DEF ExecuteChannelTest_Pulse, Goto, Untested, events, telecommand, adc
  <2>6. CASE ExecuteChannelTest_Next
    BY <2>6 DEF ExecuteChannelTest_Next, Goto, Untested, events, telecommand, adc
  <2>7. CASE ExecuteChannelTest_Last
    BY <2>7 DEF ExecuteChannelTest_Last, Goto, Untested, events, telecommand, adc
  <2>8. CASE SelfTestChannel_Trigger
    BY <2>8 DEF SelfTestChannel_Trigger, Goto, EndRound, Untested, events, telecommand, adc
  <2>9. QED BY <1>11, <2>1, <2>2, <2>3, <2>4, <2>5, <2>6, <2>7, <2>8 DEF SelfTest
<1>12. CASE Budget
  <2>1. CASE Monitor_Budget
    BY <2>1 DEF Monitor_Budget, Goto, events, telecommand, adc
  <2>2. CASE Monitor_Enabled
    BY <2>2 DEF Monitor_Enabled, Goto, EndRound, trigger, events, telecommand, adc
  <2>3. CASE Monitor_Enable
    BY <2>3 DEF Monitor_Enable, Goto, events, telecommand, adc
  <2>4. CASE Monitor_Rearm
    BY <2>4 DEF Monitor_Rearm, Goto, EndRound, telecommand, adc
  <2>5. QED BY <1>12, <2>1, <2>2, <2>3, <2>4 DEF Budget
<1>13. CASE Reset
  BY <1>13 DEF Reset
<1>14. CASE UNCHANGED vars
  BY <1>14 DEF vars, trigger, events, telecommand, monitor, adc
<1>15. QED BY Steps, <1>1, <1>2, <1>3, <1>4, <1>5, <1>6, <1>7, <1>8, <1>9, <1>10, <1>11, <1>12, <1>13, <1>14

----------------------------------------------------------------------------

(* The invariant is inductive.                                             *)
THEOREM Invariant == Spec => []IInv
<1>1. Init => IInv
  BY TypeInit, EventInit, ModeInit, LowInit, ReadInit DEF IInv
<1>2. IInv /\ [Next]_vars => IInv'
  BY TypeNext, EventNext, ModeNext, LowNext, ReadNext DEF IInv
<1>3. QED BY <1>1, <1>2, PTL DEF Spec

(* Levels, places, budget and mails keep their types; the budget is never    *)
(* overdrawn, whatever hits come between the steps of Health Monitoring.   *)
THEOREM TypeCorrect == Spec => []TypeOK
<1>1. IInv => TypeOK
  BY DEF IInv, TypeInv
<1>2. QED BY <1>1, Invariant, PTL

(* An event is recorded with the measurements of its own hit, unless       *)
(* another task resets the hardware, or fakes a hit, while it is pending.  *)
THEOREM EventsHaveOwnMeasurements == Spec => []EventHasOwnMeasurements
<1>1. IInv => EventHasOwnMeasurements
  <2> SUFFICES ASSUME IInv, ~aside
               PROVE  /\ \A n \in 1..Len(ACQ_mail) : ACQ_mail[n] = "own"
                      /\ acquisition = "Record" => trigger_unit = "own"
    BY DEF EventHasOwnMeasurements
  <2>1. CASE ~Pending
    BY <2>1 DEF Pending
  <2>2. CASE Pending
    <3>1. OneEvent
      BY <2>2 DEF IInv, EventInv
    <3>2. \A n \in 1..Len(<<"own">>) : <<"own">>[n] = "own"
      OBVIOUS
    <3>3. QED BY <3>1, <3>2 DEF OneEvent
  <2>3. QED BY <2>1, <2>2
<1>2. QED BY <1>1, Invariant, PTL

(* In acquisition a low trigger signal is always about to be reset.        *)
THEOREM LowIsAlwaysPending == Spec => []LowIsPending
<1>1. IInv => LowIsPending
  BY DEF IInv, LowInv, LowIsPending
<1>2. QED BY <1>1, Invariant, PTL

(* What Health Monitoring takes for a result of the ADC, or for a time-out *)
(* of it, is one of its own channel, however often Hit Trigger interrupts. *)
THEOREM AcceptedResultsAreOwn == Spec => []AcceptedResultIsOwn
<1>1. IInv => AcceptedResultIsOwn
  BY DEF IInv, ReadInv, Reading, AcceptedResultIsOwn
<1>2. QED BY <1>1, Invariant, PTL

=============================================================================
