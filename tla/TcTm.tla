-------------------------------- MODULE TcTm --------------------------------
(***************************************************************************)
(* The telecommand and telemetry protocol of the DEBIE-1 DPU software:     *)
(* the TC interrupt service and the Telecommand Execution task             *)
(* (tc_hand.c), and the TM interrupt service (telem.c).                    *)
(*                                                                         *)
(* Telecommands are the 16-bit words of the source.  The task is cut into  *)
(* steps where an interrupt service can read or write what it uses: after  *)
(* WaitMail, between each test of TC_state and the handler chosen by it,   *)
(* and between the two statements of the time-out.                         *)
(***************************************************************************)
EXTENDS Integers, Sequences, Bytes, Telecommands

CONSTANTS
  Preemptive,        \* interrupts find the task half way (see ScienceData)
  MailCapacity,      \* mails the kernel keeps for the mailbox (external)
  MEM_BUFFER_SIZE,   \* bytes of a block that is written or read
  LAST_EVEN,         \* last telemetry register, the highest code of its TC
  FileSizes,         \* sizes in bytes that the used Science Data can have
  Uplink,            \* the words the spacecraft sends
  MaxTCs,            \* bound of the model: words sent
  MaxResets          \* bound of the model: resets

Even(n) == n % 2 = 0

ASSUME TcTmAssumption ==
  /\ Preemptive \in BOOLEAN
  /\ MailCapacity \in Nat \ {0}
  /\ MEM_BUFFER_SIZE \in Nat \ {0} /\ Even(MEM_BUFFER_SIZE)
  /\ LAST_EVEN \in Nat /\ Even(LAST_EVEN)
  /\ FileSizes \subseteq Nat /\ \A n \in FileSizes : n >= 2 /\ Even(n)
  /\ Uplink \subseteq Word
  /\ MaxTCs \in Nat /\ MaxResets \in Nat

VARIABLES
  TC_state, TM_mask,                      \* mask: the TM interrupt is enabled
  \* telemetry: pointers are offsets in the area that is sent
  tm_area, telemetry_pointer, telemetry_end_pointer,
  tm_word,                                \* what the TM registers hold
  \* telemetry_data
  error_status, mode_error, mode,
  \* the Telecommand Execution task
  TC_mailbox, TC_pc, TC_mail,
  TC_timeout,                             \* WaitMail has a time-out
  previous_TC,
  memory_type, address_MSB, address_LSB,
  memory_transfer_buffer, write_checksum,
  internal_time,                          \* byte 3 is the first in time
  \* history: the last words mailed, the last block written to memory
  received, written,
  TCs, resets

link     == <<TC_state, TM_mask>>
session  == <<tm_area, telemetry_pointer, telemetry_end_pointer, tm_word>>
status   == <<error_status, mode_error, mode>>
task     == <<TC_pc, TC_mail, TC_timeout, previous_TC>>
block    == <<memory_type, address_MSB, address_LSB,
              memory_transfer_buffer, write_checksum>>
effects  == <<internal_time, written>>
bounds   == <<TCs, resets>>
vars     == <<link, session, status, TC_mailbox, task, block, effects,
              received, bounds>>

----------------------------------------------------------------------------
(* Valid telecommands and the address ranges of memory *)

\* The test of a code against the class of its address.
Valid(w) ==
  LET address == TC_ADDRESS(w)
      code    == TC_CODE(w)
  IN  \/ address \in ALL_VALID
      \/ address \in ONLY_EQUAL /\ code = address
      \/ address \in SWITCH_SU /\ code \in {ON_VALUE, OFF_VALUE, SELF_TEST}
      \/ address = SEND_STATUS_REGISTER /\ Even(code) /\ code <= LAST_EVEN

END_SRAM3   == 65279
BEGIN_SRAM1 == 4096
END_SRAM1   == 32767
InData(address) == address <= END_SRAM3 - MEM_BUFFER_SIZE + 1
InCode(address) ==
  BEGIN_SRAM1 <= address /\ address <= END_SRAM1 - MEM_BUFFER_SIZE + 1
PatchExecCommandOk(c) == c \in {0, 9, 55, 90}

----------------------------------------------------------------------------
(* Mails.  `from' is history: which service sent the word, and whether it   *)
(* was taken for a telecommand or for two bytes of a block.                 *)

Senders == {"TC", "patch", "TM"}
Mails   == [word : Word, from : Senders]
NoMail  == [word |-> 0, from |-> "TM"]

\* As many words as belong to one Write Memory sequence.
Recent == MEM_BUFFER_SIZE \div 2 + 3
Remember(history, mail) ==
  LET all == Append(history, mail)
  IN  IF Len(all) > Recent THEN Tail(all) ELSE all

\* A mail to a full mailbox is refused and lost; the services do not look.
Send_ISR_Mail(w, sender) ==
  LET mail == [word |-> w, from |-> sender]
  IN  IF Len(TC_mailbox) < MailCapacity
        THEN /\ TC_mailbox' = Append(TC_mailbox, mail)
             /\ received' = IF sender = "TM" THEN received ELSE Remember(received, mail)
        ELSE UNCHANGED <<TC_mailbox, received>>

TC_TaskIdle == TC_pc = "WaitMail" /\ TC_mailbox = <<>>

\* An interrupt is taken between two steps of a task.
InterruptTaken == Preemptive \/ TC_TaskIdle

----------------------------------------------------------------------------
(* TC_InterruptService *)

\* What the TM registers hold: two bytes of an area, or a response.
Areas     == {"registers", "science", "memory"}
At(a, n)  == [area |-> a, offset |-> n]
Response  == At("response", 0)     \* error status and mode status
Checksum  == At("checksum", 0)     \* zero and the read memory checksum

Received(w) ==
  /\ InterruptTaken /\ TCs < MaxTCs /\ TCs' = TCs + 1
  /\ w \in Uplink
  /\ TC_state \notin {"SC_TM_e", "memory_dump_e"}   \* else it returns at once

Untouched == UNCHANGED <<mode_error, mode, task, block, effects, resets>>

\* The TC timer has not overflowed since the last word.
TC_InterruptService_Early ==
  /\ InterruptTaken /\ TCs < MaxTCs /\ TCs' = TCs + 1
  /\ error_status' = error_status \cup {"TC_ERROR"}
  /\ UNCHANGED <<link, session, TC_mailbox, received>> /\ Untouched

\* In memory_patch_e a word is two bytes of a block, whatever its parity.
TC_InterruptService_Block(w) ==
  /\ Received(w) /\ TC_state = "memory_patch_e"
  /\ Send_ISR_Mail(w, "patch")
  /\ UNCHANGED <<link, session, error_status>> /\ Untouched

\* The word is a telecommand; it aborts a register TM session.
Telecommand(w) == Received(w) /\ TC_state # "memory_patch_e"
StateAfterAbort == IF TC_state = "register_TM_e" THEN "TC_handling_e" ELSE TC_state
MaskAfterAbort  == TM_mask /\ TC_state # "register_TM_e"

Respond ==
  /\ tm_word' = Response
  /\ UNCHANGED <<tm_area, telemetry_pointer, telemetry_end_pointer>>

Accepted(w) ==
  Telecommand(w) /\ Parity(w) = 0 /\ Valid(w) /\ Send_ISR_Mail(w, "TC")

\* Parity error, invalid address or code.
TC_InterruptService_Invalid(w) ==
  /\ Telecommand(w) /\ ~(Parity(w) = 0 /\ Valid(w))
  /\ error_status' = error_status \cup
       {IF Parity(w) = 1 THEN "PARITY_ERROR" ELSE "TC_ERROR"}
  /\ TC_state' = StateAfterAbort /\ TM_mask' = MaskAfterAbort
  /\ Respond
  /\ UNCHANGED <<TC_mailbox, received>> /\ Untouched

\* Fault: the end pointer is on the last register, which is not sent.
SendStatusRegister_End(w) ==
  /\ Accepted(w) /\ TC_ADDRESS(w) = SEND_STATUS_REGISTER
  /\ tm_area' = "registers"
  /\ telemetry_end_pointer' = LAST_EVEN
  /\ tm_word' = At("registers", TC_CODE(w))
  /\ telemetry_pointer' = IF TC_CODE(w) + 2 > LAST_EVEN THEN 0 ELSE TC_CODE(w) + 2
  /\ TC_state' = "register_TM_e" /\ TM_mask' = TRUE
  /\ UNCHANGED error_status /\ Untouched

SendStatusRegister(w) ==
  /\ Accepted(w) /\ TC_ADDRESS(w) = SEND_STATUS_REGISTER
  /\ tm_area' = "registers"
  /\ telemetry_end_pointer' = LAST_EVEN + 1
  /\ tm_word' = At("registers", TC_CODE(w))
  /\ telemetry_pointer' = IF TC_CODE(w) + 2 > LAST_EVEN + 1 THEN 0 ELSE TC_CODE(w) + 2
  /\ TC_state' = "register_TM_e" /\ TM_mask' = TRUE
  /\ UNCHANGED error_status /\ Untouched

\* The file ends with the last byte of its last used record.
SendScienceDataFile(w) ==
  /\ Accepted(w) /\ TC_ADDRESS(w) = SEND_SCIENCE_DATA_FILE
  /\ mode # "DPU_SELF_TEST"
  /\ tm_area' = "science"
  /\ \E n \in FileSizes : telemetry_end_pointer' = n - 1
  /\ tm_word' = At("science", 0)
  /\ telemetry_pointer' = 2
  /\ TC_state' = "SC_TM_e" /\ TM_mask' = TRUE
  /\ UNCHANGED error_status /\ Untouched

\* Fault: the end of the block is not tested.
CanRead_AnyAddress(w) == StateAfterAbort = "read_memory_e"

CanRead(w) ==
  StateAfterAbort = "read_memory_e" /\ InData(address_MSB * 256 + TC_CODE(w))

\* The first word of a memory dump is error status and mode status.
ReadDataMemory(w) ==
  /\ Accepted(w) /\ TC_ADDRESS(w) = READ_DATA_MEMORY_LSB
  /\ CanRead(w)
  /\ tm_area' = "memory"
  /\ telemetry_pointer' = address_MSB * 256 + TC_CODE(w)
  /\ telemetry_end_pointer' = telemetry_pointer' + MEM_BUFFER_SIZE
  /\ tm_word' = Response
  /\ TC_state' = "memory_dump_e" /\ TM_mask' = TRUE
  /\ UNCHANGED error_status /\ Untouched

\* A valid telecommand that the service refuses, after it was mailed.
TC_InterruptService_Refused(w) ==
  /\ Accepted(w)
  /\ \/ /\ TC_ADDRESS(w) = SEND_SCIENCE_DATA_FILE /\ mode = "DPU_SELF_TEST"
        /\ TC_state' = StateAfterAbort
     \/ /\ TC_ADDRESS(w) = READ_DATA_MEMORY_LSB /\ ~CanRead(w)
        /\ TC_state' = "TC_handling_e"
  /\ TM_mask' = MaskAfterAbort
  /\ error_status' = error_status \cup {"TC_ERROR"}
  /\ Respond /\ Untouched

TC_InterruptService_Other(w) ==
  /\ Accepted(w)
  /\ TC_ADDRESS(w) \notin {SEND_STATUS_REGISTER, SEND_SCIENCE_DATA_FILE, READ_DATA_MEMORY_LSB}
  /\ TC_state' = StateAfterAbort /\ TM_mask' = MaskAfterAbort
  /\ Respond
  /\ UNCHANGED error_status /\ Untouched

TC_InterruptService ==
  \/ TC_InterruptService_Early
  \/ \E w \in Uplink :
       \/ TC_InterruptService_Block(w)
       \/ TC_InterruptService_Invalid(w)
       \/ SendStatusRegister(w)
       \/ SendScienceDataFile(w)
       \/ ReadDataMemory(w)
       \/ TC_InterruptService_Refused(w)
       \/ TC_InterruptService_Other(w)

----------------------------------------------------------------------------
(* TM_InterruptService *)

TM_Frame == UNCHANGED <<link, status, task, block, effects, bounds>>

TM_InterruptService_Send ==
  /\ InterruptTaken /\ TM_mask
  /\ telemetry_pointer < telemetry_end_pointer
  /\ tm_word' = At(tm_area, telemetry_pointer)
  /\ telemetry_pointer' = telemetry_pointer + 2
  /\ UNCHANGED <<tm_area, telemetry_end_pointer, TC_mailbox, received>> /\ TM_Frame

\* The registers are sent again and again, from the first one.
TM_InterruptService_Wrap ==
  /\ InterruptTaken /\ TM_mask
  /\ telemetry_pointer >= telemetry_end_pointer /\ TC_state = "register_TM_e"
  /\ tm_area' = "registers"
  /\ tm_word' = At("registers", 0)
  /\ telemetry_pointer' = 2
  /\ UNCHANGED <<telemetry_end_pointer, TC_mailbox, received>> /\ TM_Frame

\* Every interrupt after the last word mails TM_READY, until the task
\* disables the interrupt.
TM_InterruptService_Ready ==
  /\ InterruptTaken /\ TM_mask
  /\ telemetry_pointer >= telemetry_end_pointer /\ TC_state # "register_TM_e"
  /\ tm_word' = IF TC_state = "memory_dump_e" THEN Checksum ELSE tm_word
  /\ Send_ISR_Mail(TM_READY, "TM")
  /\ UNCHANGED <<tm_area, telemetry_pointer, telemetry_end_pointer>> /\ TM_Frame

TM_InterruptService ==
  \/ TM_InterruptService_Send
  \/ TM_InterruptService_Wrap
  \/ TM_InterruptService_Ready

----------------------------------------------------------------------------
(* The Telecommand Execution task: HandleTelecommand *)

TaskFrame == UNCHANGED <<session, received, bounds>>

HandleTelecommand_Wait ==
  /\ TC_pc = "WaitMail" /\ TC_mailbox # <<>>
  /\ TC_mail' = Head(TC_mailbox) /\ TC_mailbox' = Tail(TC_mailbox)
  /\ TC_timeout' = FALSE
  /\ TC_pc' = "Mail"
  /\ UNCHANGED <<link, status, previous_TC, block, effects>> /\ TaskFrame

\* WaitMail returns TIMEOUT_OCCURRED.
HandleTelecommand_Timeout ==
  /\ TC_TaskIdle /\ TC_timeout
  /\ TC_timeout' = FALSE
  /\ previous_TC' = 0
  /\ TC_pc' = "Timeout"
  /\ UNCHANGED <<link, status, TC_mailbox, TC_mail, block, effects>> /\ TaskFrame

HandleTelecommand_TimeoutError ==
  /\ TC_pc = "Timeout"
  /\ error_status' = IF TC_state # "TC_handling_e"
                       THEN error_status \cup {"TC_ERROR"} ELSE error_status
  /\ TC_pc' = "TimeoutEnd"
  /\ UNCHANGED <<link, mode_error, mode, TC_mailbox, TC_mail, TC_timeout,
                 previous_TC, block, effects>> /\ TaskFrame

HandleTelecommand_TimeoutEnd ==
  /\ TC_pc = "TimeoutEnd"
  /\ TC_state' = "TC_handling_e"
  /\ TC_pc' = "WaitMail"
  /\ UNCHANGED <<TM_mask, status, TC_mailbox, TC_mail, TC_timeout, previous_TC,
                 block, effects>> /\ TaskFrame

\* Fault: every mail in SC_TM_e or memory_dump_e is taken for TM_READY.
IsReady_AnyWord == TC_pc = "Mail" /\ TC_state \in {"SC_TM_e", "memory_dump_e"}

IsReady ==
  TC_pc = "Mail" /\ TC_state \in {"SC_TM_e", "memory_dump_e"} /\ TC_mail.word = TM_READY

Handlers == [read_memory_e  |-> "ReadMemory",  write_memory_e |-> "WriteMemory",
             memory_patch_e |-> "MemoryPatch", TC_handling_e  |-> "ExecuteCommand",
             SC_TM_e |-> "Drop", memory_dump_e |-> "Drop", register_TM_e |-> "Drop"]

HandleTelecommand_Test ==
  /\ TC_pc = "Mail"
  /\ TC_pc' = IF IsReady THEN "Ready" ELSE "Switch"
  /\ UNCHANGED <<link, status, TC_mailbox, TC_mail, TC_timeout, previous_TC,
                 block, effects>> /\ TaskFrame

HandleTelecommand_Switch ==
  /\ TC_pc = "Switch"
  /\ TC_pc' = Handlers[TC_state]
  /\ UNCHANGED <<link, status, TC_mailbox, TC_mail, TC_timeout, previous_TC,
                 block, effects>> /\ TaskFrame

\* The end of HandleTelecommand for a mail.
Handled(pc) ==
  /\ TC_pc = pc /\ TC_pc' = "WaitMail"
  /\ previous_TC' = TC_mail.word
  /\ UNCHANGED <<TC_mailbox, TC_mail>> /\ TaskFrame

\* Fault: the TM interrupt stays enabled.
HandleTelecommand_Ready_Unmasked ==
  /\ Handled("Ready")
  /\ TC_state' = "TC_handling_e"
  /\ UNCHANGED <<TM_mask, status, TC_timeout, block, effects>>

\* ClearEvents, which is called in SC_TM_e, is the subject of ScienceData.
HandleTelecommand_Ready ==
  /\ Handled("Ready")
  /\ TM_mask' = FALSE /\ TC_state' = "TC_handling_e"
  /\ UNCHANGED <<status, TC_timeout, block, effects>>

HandleTelecommand_Drop ==
  /\ Handled("Drop")
  /\ UNCHANGED <<link, status, TC_timeout, block, effects>>

Address == TC_ADDRESS(TC_mail.word)
Code    == TC_CODE(TC_mail.word)

Set_TC_Error ==
  /\ error_status' = error_status \cup {"TC_ERROR"}
  /\ UNCHANGED <<mode_error, mode>>

HandleTelecommand_ReadMemory ==
  /\ Handled("ReadMemory")
  /\ IF Address # READ_DATA_MEMORY_LSB
       THEN Set_TC_Error /\ TC_state' = "TC_handling_e"
       ELSE UNCHANGED <<status, TC_state>>
  /\ UNCHANGED <<TM_mask, TC_timeout, block, effects>>

\* Fault: the buffer is not emptied for the new block.
WriteMemory_Lsb_KeepsBuffer ==
  /\ Handled("WriteMemory")
  /\ Address = (IF memory_type = "code_e" THEN WRITE_CODE_MEMORY_LSB
                                          ELSE WRITE_DATA_MEMORY_LSB)
  /\ TC_state' = "memory_patch_e"
  /\ address_LSB' = Code
  /\ write_checksum' = XorWord(write_checksum, TC_mail.word)
  /\ TC_timeout' = TRUE
  /\ UNCHANGED <<TM_mask, status, memory_type, address_MSB, memory_transfer_buffer, effects>>

WriteMemory_Lsb ==
  /\ Handled("WriteMemory")
  /\ Address = (IF memory_type = "code_e" THEN WRITE_CODE_MEMORY_LSB
                                          ELSE WRITE_DATA_MEMORY_LSB)
  /\ TC_state' = "memory_patch_e"
  /\ address_LSB' = Code
  /\ memory_transfer_buffer' = <<>>
  /\ write_checksum' = XorWord(write_checksum, TC_mail.word)
  /\ TC_timeout' = TRUE
  /\ UNCHANGED <<TM_mask, status, memory_type, address_MSB, effects>>

WriteMemory_Wrong ==
  /\ Handled("WriteMemory")
  /\ Address # (IF memory_type = "code_e" THEN WRITE_CODE_MEMORY_LSB
                                          ELSE WRITE_DATA_MEMORY_LSB)
  /\ TC_state' = "TC_handling_e"
  /\ write_checksum' = XorWord(write_checksum, TC_mail.word)
  /\ Set_TC_Error
  /\ UNCHANGED <<TM_mask, TC_timeout, memory_type, address_MSB, address_LSB,
                 memory_transfer_buffer, effects>>

\* Fault: one word too many fits into the buffer.
MemoryPatch_Fill_OneMore ==
  /\ Handled("MemoryPatch") /\ Len(memory_transfer_buffer) <= MEM_BUFFER_SIZE
  /\ memory_transfer_buffer' =
       memory_transfer_buffer \o <<MSB(TC_mail.word), LSB(TC_mail.word)>>
  /\ write_checksum' = XorWord(write_checksum, TC_mail.word)
  /\ TC_timeout' = TRUE
  /\ UNCHANGED <<link, status, memory_type, address_MSB, address_LSB, effects>>

\* Fault: the time-out is not set again for the next word.
MemoryPatch_Fill_NoTimeout ==
  /\ Handled("MemoryPatch") /\ Len(memory_transfer_buffer) < MEM_BUFFER_SIZE
  /\ memory_transfer_buffer' =
       memory_transfer_buffer \o <<MSB(TC_mail.word), LSB(TC_mail.word)>>
  /\ write_checksum' = XorWord(write_checksum, TC_mail.word)
  /\ UNCHANGED <<link, status, TC_timeout, memory_type, address_MSB, address_LSB, effects>>

MemoryPatch_Fill ==
  /\ Handled("MemoryPatch") /\ Len(memory_transfer_buffer) < MEM_BUFFER_SIZE
  /\ memory_transfer_buffer' =
       memory_transfer_buffer \o <<MSB(TC_mail.word), LSB(TC_mail.word)>>
  /\ write_checksum' = XorWord(write_checksum, TC_mail.word)
  /\ TC_timeout' = TRUE
  /\ UNCHANGED <<link, status, memory_type, address_MSB, address_LSB, effects>>

\* The word after the block: the command to execute and the checksum.
MemoryPatch_Last ==
  TC_pc = "MemoryPatch" /\ Len(memory_transfer_buffer) >= MEM_BUFFER_SIZE
ChecksumOk ==
  XorByte(write_checksum, MSB(TC_mail.word)) = LSB(TC_mail.word)
Target     == address_MSB * 256 + address_LSB
TargetOk   ==
  IF memory_type = "data_e"
    THEN InData(Target)
    ELSE InCode(Target) /\ PatchExecCommandOk(MSB(TC_mail.word))
Written ==
  [type |-> memory_type, address |-> Target, bytes |-> memory_transfer_buffer]

\* Fault: a block with a wrong target address is ignored without an error.
MemoryPatch_Reject_Silent ==
  /\ Handled("MemoryPatch") /\ MemoryPatch_Last
  /\ IF ChecksumOk
       THEN UNCHANGED status
       ELSE mode_error' = TRUE /\ UNCHANGED <<error_status, mode>>
  /\ ~(ChecksumOk /\ TargetOk)
  /\ write_checksum' = XorByte(write_checksum, MSB(TC_mail.word))
  /\ TC_state' = "TC_handling_e"
  /\ UNCHANGED <<TM_mask, TC_timeout, memory_type, address_MSB, address_LSB,
                 memory_transfer_buffer, effects>>

MemoryPatch_Reject ==
  /\ Handled("MemoryPatch") /\ MemoryPatch_Last
  /\ ~(ChecksumOk /\ TargetOk)
  /\ IF ChecksumOk
       THEN Set_TC_Error
       ELSE mode_error' = TRUE /\ UNCHANGED <<error_status, mode>>
  /\ write_checksum' = XorByte(write_checksum, MSB(TC_mail.word))
  /\ TC_state' = "TC_handling_e"
  /\ UNCHANGED <<TM_mask, TC_timeout, memory_type, address_MSB, address_LSB,
                 memory_transfer_buffer, effects>>

\* The block is written and the task goes on; with execution command 0x5A
\* it calls the patched code, which is taken to return.
MemoryPatch_Write ==
  /\ Handled("MemoryPatch") /\ MemoryPatch_Last
  /\ ChecksumOk /\ TargetOk
  /\ memory_type = "code_e" => MSB(TC_mail.word) \in {0, 90}
  /\ written' = Written
  /\ write_checksum' = XorByte(write_checksum, MSB(TC_mail.word))
  /\ TC_state' = "TC_handling_e"
  /\ UNCHANGED <<TM_mask, status, TC_timeout, memory_type, address_MSB,
                 address_LSB, memory_transfer_buffer, internal_time>>

----------------------------------------------------------------------------
(* ExecuteCommand, with UpdateTarget *)

Execute == Handled("ExecuteCommand")

ExecuteCommand_ReadMsb ==
  /\ Execute /\ Address = READ_DATA_MEMORY_MSB
  /\ address_MSB' = Code
  /\ TC_state' = "read_memory_e"
  /\ UNCHANGED <<TM_mask, status, TC_timeout, memory_type, address_LSB,
                 memory_transfer_buffer, write_checksum, effects>>

\* Fault: the mode is not tested.
ExecuteCommand_WriteMsb_AnyMode ==
  /\ Execute /\ Address \in {WRITE_CODE_MEMORY_MSB, WRITE_DATA_MEMORY_MSB}
  /\ address_MSB' = Code
  /\ memory_type' = IF Address = WRITE_CODE_MEMORY_MSB THEN "code_e" ELSE "data_e"
  /\ write_checksum' = XorWord(0, TC_mail.word)
  /\ TC_timeout' = TRUE
  /\ TC_state' = "write_memory_e"
  /\ UNCHANGED <<TM_mask, status, address_LSB, memory_transfer_buffer, effects>>

ExecuteCommand_WriteMsb ==
  /\ Execute /\ Address \in {WRITE_CODE_MEMORY_MSB, WRITE_DATA_MEMORY_MSB}
  /\ mode = "STAND_BY"
  /\ address_MSB' = Code
  /\ memory_type' = IF Address = WRITE_CODE_MEMORY_MSB THEN "code_e" ELSE "data_e"
  /\ write_checksum' = XorWord(0, TC_mail.word)
  /\ TC_timeout' = TRUE
  /\ TC_state' = "write_memory_e"
  /\ UNCHANGED <<TM_mask, status, address_LSB, memory_transfer_buffer, effects>>

ExecuteCommand_Acquisition ==
  /\ Execute
  /\ \/ Address = START_ACQUISITION /\ mode = "STAND_BY" /\ mode' = "ACQUISITION"
     \/ Address = STOP_ACQUISITION /\ mode = "ACQUISITION" /\ mode' = "STAND_BY"
  /\ UNCHANGED <<link, error_status, mode_error, TC_timeout, block, effects>>

\* Where the Sensor Units decide (SU_state is not part of this module) the
\* command may be executed or rejected.
ExecuteCommand_Error ==
  /\ Execute
  /\ \/ Address \in {WRITE_CODE_MEMORY_MSB, WRITE_DATA_MEMORY_MSB} /\ mode # "STAND_BY"
     \/ Address \in {WRITE_CODE_MEMORY_LSB, WRITE_DATA_MEMORY_LSB}
          /\ TC_state # "write_memory_e"
     \/ Address = START_ACQUISITION       \* a unit is being switched on
     \/ Address = STOP_ACQUISITION /\ mode # "ACQUISITION"
     \/ Address \in SWITCH_SU             \* the transition failed
  /\ Set_TC_Error
  /\ UNCHANGED <<link, TC_timeout, block, effects>>

\* SET_TIME_BYTE_3 starts a sequence, the others must follow their
\* predecessor; byte n of the time is set and the bytes below it are cleared.
ExecuteCommand_SetTime(n) ==
  /\ Execute /\ Address = SET_TIME_BYTE(n)
  /\ IF n = 3 \/ TC_ADDRESS(previous_TC) = SET_TIME_BYTE(n + 1)
       THEN /\ internal_time' =
                 [i \in 0..3 |-> IF i > n THEN internal_time[i] ELSE IF i = n THEN Code ELSE 0]
            /\ TC_timeout' = (n > 0)
            /\ UNCHANGED status
       ELSE Set_TC_Error /\ UNCHANGED <<internal_time, TC_timeout>>
  /\ UNCHANGED <<link, block, written>>

ExecuteCommand_ErrorStatusClear ==
  /\ Execute /\ Address = ERROR_STATUS_CLEAR
  /\ error_status' = {} /\ mode_error' = FALSE
  /\ UNCHANGED <<link, mode, TC_timeout, block, effects>>

\* Nothing of this module changes: settings, failure counters, SWITCH_SU
\* that succeeds, telecommands the service has served, words that are none.
ExecuteCommand_Other ==
  /\ Execute
  /\ Address \notin
       {START_ACQUISITION, STOP_ACQUISITION, ERROR_STATUS_CLEAR, SOFT_RESET,
        READ_DATA_MEMORY_MSB, WRITE_CODE_MEMORY_MSB, WRITE_DATA_MEMORY_MSB} \cup SET_TIME
  /\ Address \in {WRITE_CODE_MEMORY_LSB, WRITE_DATA_MEMORY_LSB}
       => TC_state = "write_memory_e"
  /\ Address \in SWITCH_SU => mode # "ACQUISITION"
  /\ UNCHANGED <<link, status, TC_timeout, block, effects>>

ExecuteCommand ==
  \/ ExecuteCommand_ReadMsb
  \/ ExecuteCommand_WriteMsb
  \/ ExecuteCommand_Acquisition
  \/ ExecuteCommand_Error
  \/ \E n \in 0..3 : ExecuteCommand_SetTime(n)
  \/ ExecuteCommand_ErrorStatusClear
  \/ ExecuteCommand_Other

----------------------------------------------------------------------------
(* Boot and the Health Monitoring task *)

\* InitTelecommandTask and the end of Boot.
Restart ==
  /\ TC_state' = "TC_handling_e" /\ TM_mask' = FALSE
  /\ mode' = "DPU_SELF_TEST"
  /\ TC_mailbox' = <<>> /\ TC_pc' = "WaitMail" /\ TC_timeout' = FALSE
  /\ previous_TC' = 0
  /\ received' = <<>>
  /\ UNCHANGED <<session, TC_mail, block, internal_time, TCs>>

\* The telecommand Soft Reset, or a block of code with execution command
\* 0x09 (soft reset) or 0x37 (warm reset).
SoftReset ==
  /\ \/ TC_pc = "ExecuteCommand" /\ Address = SOFT_RESET
        /\ UNCHANGED written
     \/ MemoryPatch_Last /\ ChecksumOk /\ TargetOk
        /\ memory_type = "code_e" /\ MSB(TC_mail.word) \in {9, 55}
        /\ written' = Written
  /\ Restart
  /\ error_status' = {} /\ mode_error' = FALSE
  /\ UNCHANGED resets

WatchdogReset ==
  /\ resets < MaxResets /\ resets' = resets + 1
  /\ Restart
  /\ UNCHANGED <<error_status, mode_error, written>>

\* InitHealthMonitoring ends the DPU self test.
EnterStandBy ==
  /\ mode = "DPU_SELF_TEST" /\ TC_TaskIdle
  /\ mode' = "STAND_BY"
  /\ UNCHANGED <<link, session, error_status, mode_error, TC_mailbox, task, block,
                 effects, received, bounds>>

----------------------------------------------------------------------------

Init ==
  /\ TC_state = "TC_handling_e" /\ TM_mask = FALSE
  /\ tm_area = "registers" /\ telemetry_pointer = 0 /\ telemetry_end_pointer = 0
  /\ tm_word = Response
  /\ error_status = {} /\ mode_error = FALSE /\ mode = "DPU_SELF_TEST"
  /\ TC_mailbox = <<>> /\ TC_pc = "WaitMail" /\ TC_mail = NoMail
  /\ TC_timeout = FALSE /\ previous_TC = 0
  /\ memory_type = "code_e" /\ address_MSB = 0 /\ address_LSB = 0
  /\ memory_transfer_buffer = <<>> /\ write_checksum = 0
  /\ internal_time = [i \in 0..3 |-> 0]
  /\ written = [type |-> "data_e", address |-> 0, bytes |-> <<>>]
  /\ received = <<>> /\ TCs = 0 /\ resets = 0

TC_Step ==
  \/ HandleTelecommand_Wait
  \/ HandleTelecommand_Timeout
  \/ HandleTelecommand_TimeoutError
  \/ HandleTelecommand_TimeoutEnd
  \/ HandleTelecommand_Test
  \/ HandleTelecommand_Switch
  \/ HandleTelecommand_Ready
  \/ HandleTelecommand_Drop
  \/ HandleTelecommand_ReadMemory
  \/ WriteMemory_Lsb
  \/ WriteMemory_Wrong
  \/ MemoryPatch_Fill
  \/ MemoryPatch_Reject
  \/ MemoryPatch_Write
  \/ ExecuteCommand
  \/ SoftReset

Next ==
  \/ TC_InterruptService
  \/ TM_InterruptService
  \/ TC_Step
  \/ WatchdogReset
  \/ EnterStandBy

Spec == Init /\ [][Next]_vars

\* The kernel runs the task while it has a mail or its time-out has passed,
\* and the spacecraft reads telemetry while the TM interrupt is enabled.
Fairness == WF_vars(TC_Step) /\ WF_vars(TM_InterruptService)
FairSpec == Spec /\ Fairness

----------------------------------------------------------------------------
(* Properties *)

Words == [area : Areas \cup {"response", "checksum"}, offset : Nat]
Blocks == [type : {"code_e", "data_e"}, address : Nat, bytes : Seq(Byte)]

LinkType ==
  /\ TC_state \in DOMAIN Handlers /\ TM_mask \in BOOLEAN
  /\ tm_area \in Areas
  /\ telemetry_pointer \in Nat /\ telemetry_end_pointer \in Nat
  /\ tm_word \in Words
  /\ error_status \subseteq {"TC_ERROR", "PARITY_ERROR"}
  /\ mode_error \in BOOLEAN
  /\ mode \in {"DPU_SELF_TEST", "STAND_BY", "ACQUISITION"}

TaskType ==
  /\ TC_mailbox \in Seq(Mails) /\ TC_mail \in Mails
  /\ TC_pc \in {"WaitMail", "Mail", "Switch", "Timeout", "TimeoutEnd", "Ready", "Drop",
                "ReadMemory", "WriteMemory", "MemoryPatch", "ExecuteCommand"}
  /\ TC_timeout \in BOOLEAN
  /\ previous_TC \in Word

BlockType ==
  /\ memory_type \in {"code_e", "data_e"}
  /\ address_MSB \in Byte /\ address_LSB \in Byte
  /\ memory_transfer_buffer \in Seq(Byte)
  /\ Len(memory_transfer_buffer) <= MEM_BUFFER_SIZE
  /\ write_checksum \in Byte
  /\ internal_time \in [0..3 -> Byte]
  /\ written \in Blocks

HistoryType == received \in Seq(Mails) /\ TCs \in Nat /\ resets \in Nat

\* Types of the variables; the transfer buffer is never filled beyond its end.
TypeOK == LinkType /\ TaskType /\ BlockType /\ HistoryType

\* Both bytes of the word in the TM registers come from inside the area that
\* was asked for, also for the last register, the last word of a file and a
\* block at the end of memory, and while a session is aborted or replaced.
PointerInArea ==
  /\ tm_word.area = "registers" => tm_word.offset <= LAST_EVEN
  /\ tm_word.area = "science"   => tm_word.offset + 1 <= telemetry_end_pointer
  /\ tm_word.area = "memory"    => tm_word.offset + 1 <= END_SRAM3

\* In register_TM_e every TM interrupt sends the register after the one sent
\* last, and the first one after the last, from whatever register the
\* telecommand asked for, until another telecommand aborts the session.
NextRegister(n) == IF n = LAST_EVEN THEN 0 ELSE n + 2
RegistersCycleStep ==
  TC_state = "register_TM_e" /\ tm_word' # tm_word /\ TC_state' = TC_state /\ TCs' = TCs
    => tm_word' = At("registers", NextRegister(tm_word.offset))
RegistersCycle == [][RegistersCycleStep]_vars

WriteStates == {"write_memory_e", "memory_patch_e"}

\* However a Write Memory sequence ends, whatever state follows, it has a result the
\* ground can see: the block is in memory, or TC_ERROR or the memory write error is
\* set, or the program has restarted.  One end has none: before the second word
\* the TC service accepts SEND_STATUS_REGISTER and SEND_SCIENCE_DATA_FILE, and the
\* telemetry takes the place of the sequence, of which nothing is written (tc_hand.c:467,
\* 510).  Once words of the block are awaited no telemetry can do that.
WriteEndsInResultStep ==
  TC_state \in WriteStates /\ TC_state' \notin WriteStates
    => \/ written' = Written /\ TC_pc = "MemoryPatch"
       \/ "TC_ERROR" \in error_status' \/ mode_error'
       \/ resets' # resets
       \/ /\ TC_state = "write_memory_e" /\ TC_state' \in {"register_TM_e", "SC_TM_e"}
          /\ TCs' # TCs /\ written' = written
WriteEndsInResult == [][WriteEndsInResultStep]_vars

\* Memory is written in stand-by mode only: no telecommand between the first
\* word of a Write Memory sequence and the last starts an acquisition.
WritesInStandBy ==
  TC_state \in WriteStates => mode = "STAND_BY"

\* A handler that runs to its end leaves the TM interrupt enabled only in
\* a telemetry state.
TMMaskMatchesState ==
  TC_TaskIdle => (TM_mask <=> TC_state \in {"register_TM_e", "SC_TM_e", "memory_dump_e"})

\* A transfer that blocks other telecommands ends: a write by its last word,
\* by an error or by the time-out, a memory dump by TM_READY.
TransferStates == {"write_memory_e", "memory_patch_e", "memory_dump_e"}
TransfersEnd == \A s \in TransferStates : TC_state = s ~> TC_state # s

=============================================================================
