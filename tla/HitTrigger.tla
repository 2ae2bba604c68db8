----------------------------- MODULE HitTrigger -----------------------------
(***************************************************************************)
(* The hit trigger of DEBIE-1 and what is shared with it (measure.c,       *)
(* health.c, tc_hand.c, hw_if.c).  A particle pulls T2EX low, which sets   *)
(* EXF2 if EXEN2 enables it; Hit Trigger reads the ADC and mails the event *)
(* to Acquisition, which reads the delay counters and then resets them,    *)
(* and so makes the next hit possible.  Health Monitoring and              *)
(* START_ACQUISITION reset them as well, Health Monitoring enables and     *)
(* disables the trigger, and it reads the same ADC.                        *)
(***************************************************************************)
EXTENDS Integers, Sequences

CONSTANTS HIT_BUDGET_DEFAULT,  \* hits handled in one period of Health Monitoring
          ADC_max_tries,       \* tries to read a channel of the ADC without a hit
          MailCapacity,        \* mails that ACQUISITION_MAILBOX holds
          Channels             \* the channels that a self test goes through

ASSUME HitTriggerAssumption ==
  /\ HIT_BUDGET_DEFAULT \in Nat \ {0}
  /\ ADC_max_tries \in Nat \ {0}
  /\ MailCapacity \in Nat \ {0}
  /\ Channels \in Seq(STRING) /\ Len(Channels) > 0

VARIABLES
  T2EX,                \* level of the trigger signal
  EXF2, EXEN2,         \* its interrupt flag, and whether a falling edge sets it
  hit_budget_left,
  ACQ_mail,            \* per waiting event: are the measurements in the hardware its own?
  acquisition,         \* where Acquisition is
  trigger_unit,        \* the mail in its hands
  mode, tc,            \* mode of the DPU, where Telecommand Execution is
  health, round,       \* where Health Monitoring is, and what the round does
  channel,             \* channel that is tested
  confirm_hit_result,
  mux, conversion, word,  \* whose are the selected channel, the conversion, the result read
  AD_execution_result, tries_left,
  aside                \* history: the hardware was reset, or the trigger faked, aside from
                       \* the handling of the events that are pending

trigger  == <<T2EX, EXF2, EXEN2, hit_budget_left>>
events   == <<ACQ_mail, acquisition, trigger_unit>>
telecommand == <<mode, tc>>
monitor  == <<health, round, channel>>
adc      == <<confirm_hit_result, mux, conversion, word, AD_execution_result, tries_left>>
vars     == <<trigger, events, telecommand, monitor, adc, aside>>

Mail    == {"own", "lost"}
Parties == {"Health", "HitTrigger"}
Rounds  == {"DPU_SelfTest", "MeasureTemperature", "SelfTestChannel", "Budget"}
Before  == {"Init_DPU", "Boot", "InitSystem"}
Reading == {"Clear", "Select", "Start", "Poll", "Msb", "Lsb", "Count", "Final"}
Testing == {"ChannelDisabled", "ChannelCleared", "ChannelReset", "ChannelEnabled",
            "ChannelTested", "Trigger"}
Rearming == {"Enable", "Rearm"}

TypeOK ==
  /\ T2EX \in {"high", "low"} /\ EXF2 \in BOOLEAN /\ EXEN2 \in BOOLEAN
  /\ hit_budget_left \in 0..HIT_BUDGET_DEFAULT
  /\ ACQ_mail \in Seq(Mail) /\ Len(ACQ_mail) <= MailCapacity
  /\ acquisition \in {"WaitMail", "Record", "Settle"} /\ trigger_unit \in Mail
  /\ mode \in {"DPU_SELF_TEST", "STAND_BY", "ACQUISITION"}
  /\ tc \in {"wait", "clear", "counters", "mode"}
  /\ health \in Before \cup {"WaitInterval", "Monitor"} \cup Reading \cup Testing \cup Rearming
  /\ round \in Rounds
  /\ channel \in 1..Len(Channels)
  /\ confirm_hit_result \in {0, 1}
  /\ mux \in Parties /\ conversion \in Parties /\ word \in Parties
  /\ AD_execution_result \in {"RESULT_OK", "CONVERSION_ACTIVE", "HIT_OCCURRED"}
  /\ tries_left \in 0..ADC_max_tries
  /\ aside \in BOOLEAN

\* An event is pending, from the edge until Acquisition is ready for another.
Pending == EXF2 \/ ACQ_mail # <<>> \/ acquisition # "WaitMail"

\* What is put aside is forgotten when nothing is pending.
Aside(cause) == aside' = (Pending' /\ (aside \/ cause))

\* The measurements of all events that wait for Acquisition are lost.
Lost == [n \in 1..Len(ACQ_mail) |-> "lost"]
OwnLost == trigger_unit' = IF acquisition = "Record" THEN "lost" ELSE trigger_unit

\* Delay counters start again for the events that wait, and T2EX is high.
ResetDelayCounters == T2EX' = "high" /\ ACQ_mail' = Lost /\ OwnLost

----------------------------------------------------------------------------
(* Particles, and Hit Trigger, which nothing else interrupts.              *)

Hit ==
  /\ T2EX = "high"
  /\ T2EX' = "low" /\ EXF2' = (EXF2 \/ EXEN2)
  /\ UNCHANGED <<EXEN2, hit_budget_left, events, telecommand, monitor, adc>>
  /\ Aside(FALSE)

Interrupt == EXF2 /\ health \notin Before

HandleHitTrigger_Exceeded ==
  /\ Interrupt /\ hit_budget_left = 0
  /\ EXF2' = FALSE /\ EXEN2' = FALSE
  /\ UNCHANGED <<T2EX, hit_budget_left, events, telecommand, monitor, adc>>
  /\ Aside(FALSE)

\* Fault: the budget is not looked at.
HandleHitTrigger_Unlimited ==
  /\ Interrupt
  /\ EXF2' = FALSE
  /\ hit_budget_left' = hit_budget_left - 1
  /\ confirm_hit_result' = 1
  /\ mux' = "HitTrigger" /\ conversion' = "HitTrigger"
  /\ ACQ_mail' = IF Len(ACQ_mail) < MailCapacity THEN Append(Lost, "own") ELSE Lost
  /\ OwnLost
  /\ UNCHANGED <<T2EX, EXEN2, acquisition, telecommand, monitor, word, AD_execution_result,
                 tries_left>>
  /\ Aside(FALSE)

\* Fault: the trigger is made ready before Acquisition has read the counters.
HandleHitTrigger_Ready ==
  /\ Interrupt /\ hit_budget_left # 0
  /\ EXF2' = FALSE /\ T2EX' = "high"
  /\ hit_budget_left' = hit_budget_left - 1
  /\ confirm_hit_result' = 1
  /\ mux' = "HitTrigger" /\ conversion' = "HitTrigger"
  /\ ACQ_mail' = IF Len(ACQ_mail) < MailCapacity THEN Append(Lost, "own") ELSE Lost
  /\ OwnLost
  /\ UNCHANGED <<EXEN2, acquisition, telecommand, monitor, word, AD_execution_result, tries_left>>
  /\ Aside(FALSE)

\* The five channels of the unit are read into ADC_result, whoever was using
\* the ADC or had results there.  The mail is refused when the box is full.
HandleHitTrigger ==
  /\ Interrupt /\ hit_budget_left # 0
  /\ EXF2' = FALSE
  /\ hit_budget_left' = hit_budget_left - 1
  /\ confirm_hit_result' = 1
  /\ mux' = "HitTrigger" /\ conversion' = "HitTrigger"
  /\ ACQ_mail' = IF Len(ACQ_mail) < MailCapacity THEN Append(Lost, "own") ELSE Lost
  /\ OwnLost
  /\ UNCHANGED <<T2EX, EXEN2, acquisition, telecommand, monitor, word, AD_execution_result,
                 tries_left>>
  /\ Aside(FALSE)

Hit_Trigger_Task == HandleHitTrigger_Exceeded \/ HandleHitTrigger

----------------------------------------------------------------------------
(* Acquisition: runs when Telecommand Execution does not.                  *)

HandleAcquisition_WaitMail ==
  /\ tc = "wait" /\ acquisition = "WaitMail" /\ ACQ_mail # <<>>
  /\ trigger_unit' = Head(ACQ_mail) /\ ACQ_mail' = Tail(ACQ_mail)
  /\ acquisition' = "Record"
  /\ UNCHANGED <<trigger, telecommand, monitor, adc>>
  /\ Aside(FALSE)

\* ADC_result and the counters are copied to the event record, if the unit
\* takes part in the acquisition; then Acquisition waits.
HandleAcquisition_Record ==
  /\ tc = "wait" /\ acquisition = "Record"
  /\ acquisition' = "Settle"
  /\ UNCHANGED <<trigger, ACQ_mail, trigger_unit, telecommand, monitor, adc>>
  /\ Aside(FALSE)

HandleAcquisition_Reset ==
  /\ tc = "wait" /\ acquisition = "Settle"
  /\ ResetDelayCounters
  /\ acquisition' = "WaitMail"
  /\ UNCHANGED <<EXF2, EXEN2, hit_budget_left, telecommand, monitor, adc>>
  /\ Aside(FALSE)

HandleAcquisition ==
  HandleAcquisition_WaitMail \/ HandleAcquisition_Record \/ HandleAcquisition_Reset

----------------------------------------------------------------------------
(* Telecommand Execution.                                                  *)

TC(from, to) == tc = from /\ tc' = to /\ health \notin Before

START_ACQUISITION ==
  /\ TC("wait", "clear") /\ mode = "STAND_BY"
  /\ UNCHANGED <<trigger, events, mode, monitor, adc, aside>>

START_ACQUISITION_Clear ==
  /\ TC("clear", "counters")
  /\ EXF2' = FALSE
  /\ UNCHANGED <<T2EX, EXEN2, hit_budget_left, events, mode, monitor, adc>>
  /\ Aside(FALSE)

START_ACQUISITION_Counters ==
  /\ TC("counters", "mode")
  /\ ResetDelayCounters
  /\ UNCHANGED <<EXF2, EXEN2, hit_budget_left, acquisition, mode, monitor, adc>>
  /\ Aside(TRUE)

\* Fault: the flag is cleared once more, after the counters.
START_ACQUISITION_Mode_Clears ==
  /\ TC("mode", "wait")
  /\ mode' = "ACQUISITION" /\ EXF2' = FALSE
  /\ UNCHANGED <<T2EX, EXEN2, hit_budget_left, events, monitor, adc>>
  /\ Aside(FALSE)

START_ACQUISITION_Mode ==
  /\ TC("mode", "wait")
  /\ mode' = "ACQUISITION"
  /\ UNCHANGED <<trigger, events, monitor, adc, aside>>

Starting == START_ACQUISITION_Clear \/ START_ACQUISITION_Counters \/ START_ACQUISITION_Mode

STOP_ACQUISITION ==
  /\ TC("wait", "wait") /\ mode = "ACQUISITION"
  /\ mode' = "STAND_BY"
  /\ UNCHANGED <<trigger, events, monitor, adc, aside>>

----------------------------------------------------------------------------
(* Health Monitoring: runs when all others wait.                           *)

\* Acquisition waits for mail, or for the time of the peak reset.
Goto(from, to) ==
  /\ tc = "wait"
  /\ \/ acquisition = "WaitMail" /\ ACQ_mail = <<>>
     \/ acquisition = "Settle"
  /\ health = from /\ health' = to

\* Rounds come round; between them others do nothing to the hit trigger.
NextRound == CASE round \in {"DPU_SelfTest", "Budget"} -> "MeasureTemperature"
               [] round = "MeasureTemperature" -> "SelfTestChannel"
               [] round = "SelfTestChannel" -> "Budget"

EndRound(from) == Goto(from, "WaitInterval") /\ round' = NextRound

\* Start-up: interrupts of earlier hits are cleared, then the counters.
Init_DPU ==
  /\ Goto("Init_DPU", "Boot")
  /\ EXF2' = FALSE
  /\ UNCHANGED <<T2EX, EXEN2, hit_budget_left, events, telecommand, round, channel, adc>>
  /\ Aside(FALSE)

Boot ==
  /\ Goto("Boot", "InitSystem")
  /\ ResetDelayCounters
  /\ UNCHANGED <<EXF2, EXEN2, hit_budget_left, acquisition, telecommand, round, channel, adc>>
  /\ Aside(TRUE)

\* The tasks are created; Hit Trigger enables its interrupt at once.
InitSystem ==
  /\ Goto("InitSystem", "Clear")
  /\ EXEN2' = TRUE
  /\ UNCHANGED <<T2EX, EXF2, hit_budget_left, events, telecommand, round, channel, adc, aside>>

\* The second between two rounds is long for Hit Trigger and Acquisition: what
\* is pending is done, and then the next hit may come before the round.
WaitInterval ==
  /\ Goto("WaitInterval", "Monitor") /\ ~Pending
  /\ UNCHANGED <<trigger, events, telecommand, round, channel, adc, aside>>

MeasureTemperature ==
  /\ Goto("Monitor", "Clear") /\ round = "MeasureTemperature"
  /\ tries_left' = ADC_max_tries
  /\ UNCHANGED <<trigger, events, telecommand, round, channel, confirm_hit_result, mux,
                 conversion, word, AD_execution_result, aside>>

NoSelfTest ==
  /\ EndRound("Monitor") /\ round = "SelfTestChannel"
  /\ UNCHANGED <<trigger, events, telecommand, channel, adc, aside>>

----------------------------------------------------------------------------
(* Read_AD_Channel and Convert_AD.                                         *)

Unread == UNCHANGED <<trigger, events, telecommand, channel, aside>>

Read_AD_Channel_Clear ==
  /\ Goto("Clear", "Select")
  /\ confirm_hit_result' = 0
  /\ Unread /\ UNCHANGED <<round, mux, conversion, word, AD_execution_result, tries_left>>

\* The channel, and a dummy cycle to set the mode.
Read_AD_Channel_Select ==
  /\ Goto("Select", "Start")
  /\ mux' = "Health"
  /\ Unread /\ UNCHANGED <<round, confirm_hit_result, conversion, word, AD_execution_result,
                           tries_left>>

\* Fault: the flag is cleared when the conversion starts, after the channel
\* has been selected.
Convert_AD_Start_Clears ==
  /\ Goto("Start", "Poll")
  /\ conversion' = mux /\ confirm_hit_result' = 0
  /\ Unread /\ UNCHANGED <<round, mux, word, AD_execution_result, tries_left>>

Convert_AD_Start ==
  /\ Goto("Start", "Poll")
  /\ conversion' = mux
  /\ Unread /\ UNCHANGED <<round, confirm_hit_result, mux, word, AD_execution_result, tries_left>>

Convert_AD_Ended ==
  /\ Goto("Poll", "Msb")
  /\ Unread /\ UNCHANGED <<round, adc>>

Convert_AD_TimeOut ==
  /\ Goto("Poll", "Count")
  /\ word' = conversion /\ AD_execution_result' = "CONVERSION_ACTIVE"
  /\ Unread /\ UNCHANGED <<round, confirm_hit_result, mux, conversion, tries_left>>

Convert_AD_Msb ==
  /\ Goto("Msb", "Lsb")
  /\ word' = conversion
  /\ Unread /\ UNCHANGED <<round, confirm_hit_result, mux, conversion, AD_execution_result,
                           tries_left>>

\* The word is Health Monitoring's if both bytes are.
Convert_AD_Lsb ==
  /\ Goto("Lsb", "Count")
  /\ word' = IF word = "Health" THEN conversion ELSE word
  /\ AD_execution_result' = "RESULT_OK"
  /\ Unread /\ UNCHANGED <<round, confirm_hit_result, mux, conversion, tries_left>>

\* Another try, or the loop ends: because the tries are used up, or because
\* no hit has come, which is tested here for the first time.
Read_AD_Channel_Count ==
  /\ tries_left' = IF confirm_hit_result = 0 THEN 0 ELSE tries_left - 1
  /\ Goto("Count", IF tries_left' > 0 THEN "Clear" ELSE "Final")
  /\ Unread /\ UNCHANGED <<round, confirm_hit_result, mux, conversion, word, AD_execution_result>>

\* confirm_hit_result is tested again.  The self test of the DPU is over when
\* its channel is read.
Read_AD_Channel_Final ==
  /\ EndRound("Final")
  /\ AD_execution_result' = IF confirm_hit_result # 0 THEN "HIT_OCCURRED" ELSE AD_execution_result
  /\ mode' = IF round = "DPU_SelfTest" THEN "STAND_BY" ELSE mode
  /\ UNCHANGED <<trigger, events, tc, channel, confirm_hit_result, mux, conversion, word,
                 tries_left, aside>>

Read_AD_Channel ==
  \/ Read_AD_Channel_Clear \/ Read_AD_Channel_Select
  \/ Convert_AD_Start \/ Convert_AD_Ended \/ Convert_AD_TimeOut
  \/ Convert_AD_Msb \/ Convert_AD_Lsb
  \/ Read_AD_Channel_Count \/ Read_AD_Channel_Final

----------------------------------------------------------------------------
(* SelfTestChannel, with ExecuteChannelTest for each channel.              *)

Untested == UNCHANGED <<hit_budget_left, telecommand, adc>>

\* DISABLE_HIT_TRIGGER leaves a flag that is set.
SelfTestChannel ==
  /\ Goto("Monitor", "ChannelDisabled") /\ round = "SelfTestChannel"
  /\ EXEN2' = FALSE /\ channel' = 1
  /\ Untested /\ UNCHANGED <<T2EX, EXF2, events, round, aside>>

\* The trigger has been disabled for some ticks of the clock.
ExecuteChannelTest_Clear ==
  /\ Goto("ChannelDisabled", "ChannelCleared") /\ ~Interrupt
  /\ EXF2' = FALSE
  /\ Untested /\ UNCHANGED <<T2EX, EXEN2, events, round, channel>>
  /\ Aside(FALSE)

ExecuteChannelTest_Counters ==
  /\ Goto("ChannelCleared", "ChannelReset")
  /\ ResetDelayCounters
  /\ Untested /\ UNCHANGED <<EXF2, EXEN2, acquisition, round, channel>>
  /\ Aside(TRUE)

ExecuteChannelTest_Enable ==
  /\ Goto("ChannelReset", "ChannelEnabled")
  /\ EXEN2' = TRUE
  /\ Untested /\ UNCHANGED <<T2EX, EXF2, events, round, channel, aside>>

\* The pulse is over: on one channel software triggers if it has not.
ExecuteChannelTest_Pulse ==
  /\ Goto("ChannelEnabled", "ChannelTested")
  /\ EXF2' = (EXF2 \/ Channels[channel] = "PLASMA_2_PLUS")
  /\ Untested /\ UNCHANGED <<T2EX, EXEN2, events, round, channel>>
  /\ Aside(Channels[channel] = "PLASMA_2_PLUS")

\* DISABLE_HIT_TRIGGER, and the next channel; or ENABLE_HIT_TRIGGER again.
ExecuteChannelTest_Next ==
  /\ channel < Len(Channels)
  /\ Goto("ChannelTested", "ChannelDisabled")
  /\ EXEN2' = FALSE /\ channel' = channel + 1
  /\ Untested /\ UNCHANGED <<T2EX, EXF2, events, round, aside>>

ExecuteChannelTest_Last ==
  /\ channel = Len(Channels)
  /\ Goto("ChannelTested", "Trigger")
  /\ EXEN2' = TRUE
  /\ Untested /\ UNCHANGED <<T2EX, EXF2, events, round, channel, aside>>

\* A pseudo trigger makes Acquisition reset the counters.
SelfTestChannel_Trigger ==
  /\ EndRound("Trigger")
  /\ EXF2' = TRUE
  /\ Untested /\ UNCHANGED <<T2EX, EXEN2, events, channel>>
  /\ Aside(TRUE)

SelfTest ==
  \/ SelfTestChannel \/ ExecuteChannelTest_Clear \/ ExecuteChannelTest_Counters
  \/ ExecuteChannelTest_Enable \/ ExecuteChannelTest_Pulse
  \/ ExecuteChannelTest_Next \/ ExecuteChannelTest_Last \/ SelfTestChannel_Trigger

----------------------------------------------------------------------------
(* The round that begins a new hit budget.                                 *)

Monitor_Budget ==
  /\ Goto("Monitor", "Enable") /\ round = "Budget"
  /\ hit_budget_left' = HIT_BUDGET_DEFAULT
  /\ UNCHANGED <<T2EX, EXF2, EXEN2, events, telecommand, round, channel, adc, aside>>

\* Fault: the budget, which is full again, tells whether it was exceeded.
Monitor_Enabled_ByBudget ==
  /\ EndRound("Enable") /\ hit_budget_left # 0
  /\ UNCHANGED <<trigger, events, telecommand, channel, adc, aside>>

Monitor_Enabled ==
  /\ EndRound("Enable") /\ EXEN2
  /\ UNCHANGED <<trigger, events, telecommand, channel, adc, aside>>

Monitor_Enable ==
  /\ Goto("Enable", "Rearm") /\ ~EXEN2
  /\ EXEN2' = TRUE
  /\ UNCHANGED <<T2EX, EXF2, hit_budget_left, events, telecommand, round, channel, adc, aside>>

Monitor_Rearm ==
  /\ EndRound("Rearm")
  /\ ResetDelayCounters
  /\ UNCHANGED <<EXF2, EXEN2, hit_budget_left, acquisition, telecommand, channel, adc>>
  /\ Aside(TRUE)

Budget == Monitor_Budget \/ Monitor_Enabled \/ Monitor_Enable \/ Monitor_Rearm

Health_Task ==
  \/ Init_DPU \/ Boot \/ InitSystem \/ WaitInterval \/ MeasureTemperature \/ NoSelfTest
  \/ Read_AD_Channel \/ SelfTest \/ Budget

----------------------------------------------------------------------------

\* Power-up: T2EX may be at either level.
Init ==
  /\ T2EX \in {"high", "low"} /\ EXF2 = FALSE /\ EXEN2 = FALSE
  /\ hit_budget_left = HIT_BUDGET_DEFAULT
  /\ ACQ_mail = <<>> /\ acquisition = "WaitMail" /\ trigger_unit = "own"
  /\ mode = "DPU_SELF_TEST" /\ tc = "wait"
  /\ health = "Init_DPU" /\ round = "DPU_SelfTest" /\ channel = 1
  /\ confirm_hit_result = 0 /\ mux = "Health" /\ conversion = "Health" /\ word = "Health"
  /\ AD_execution_result = "RESULT_OK" /\ tries_left = ADC_max_tries
  /\ aside = FALSE

\* Watchdog, checksum or telecommand.  Software resets leave the trigger
\* enabled; the others disable it, and clear the flag.
Reset ==
  /\ health \notin Before
  /\ UNCHANGED T2EX
  /\ \/ UNCHANGED <<EXF2, EXEN2>>
     \/ EXF2' = FALSE /\ EXEN2' = FALSE
  /\ hit_budget_left' = HIT_BUDGET_DEFAULT
  /\ ACQ_mail' = <<>> /\ acquisition' = "WaitMail" /\ trigger_unit' = "own"
  /\ mode' = "DPU_SELF_TEST" /\ tc' = "wait"
  /\ health' = "Init_DPU" /\ round' = "DPU_SelfTest" /\ channel' = 1
  /\ confirm_hit_result' = 0 /\ mux' = "Health" /\ conversion' = "Health" /\ word' = "Health"
  /\ AD_execution_result' = "RESULT_OK" /\ tries_left' = ADC_max_tries
  /\ Aside(FALSE)

Next ==
  \/ Hit \/ Hit_Trigger_Task \/ HandleAcquisition
  \/ START_ACQUISITION \/ Starting \/ STOP_ACQUISITION
  \/ Health_Task \/ Reset

Spec == Init /\ [][Next]_vars

\* A telecommand that is being executed is not pre-empted for long.  Tasks
\* below it get the processor again and again, if not for ever.
FairSpec == Spec /\ WF_vars(Hit_Trigger_Task) /\ WF_vars(Starting)
                 /\ SF_vars(HandleAcquisition) /\ SF_vars(Health_Task)

----------------------------------------------------------------------------
(* Properties *)

\* The event that Acquisition records, or will record, has the peaks and the
\* delays of its own hit, unless another task has reset the hardware since.
\* ADC_result and the counters exist only once: no later hit is taken before
\* they are read.
EventHasOwnMeasurements ==
  ~aside => /\ \A n \in 1..Len(ACQ_mail) : ACQ_mail[n] = "own"
            /\ acquisition = "Record" => trigger_unit = "own"

\* In acquisition the trigger never hangs: when T2EX is low, so that no edge
\* can come, a task is about to bring it to high again.
LowIsPending ==
  (mode = "ACQUISITION" /\ T2EX = "low") =>
     Pending \/ ~EXEN2 \/ health \in Testing \cup {"Rearm"}

\* In acquisition, the next hit can be detected after some time: whatever hit
\* exceeded the budget, was lost or came during a self test.
TriggerArmedAgain ==
  (mode = "ACQUISITION" /\ ~(T2EX = "high" /\ EXEN2))
     ~> (mode # "ACQUISITION" \/ (T2EX = "high" /\ EXEN2))

\* A result that Health Monitoring uses, or a time-out that it reports, is
\* one of its own channel: Hit Trigger has not used the ADC in between.
AcceptedResultIsOwn ==
  (health = "WaitInterval" /\ AD_execution_result # "HIT_OCCURRED") => word = "Health"
=============================================================================
