---------------------------- MODULE TcTm_proofs ----------------------------
(***************************************************************************)
(* Theorems about TcTm for every uplink, buffer size, register file and    *)
(* mailbox: types, pointers and the end of write sequences with and        *)
(* without pre-emption; the TM mask, telemetry sessions and written blocks *)
(* for handlers that run to their end (ASSUME ~Preemptive).                *)
(***************************************************************************)
EXTENDS MCTcTm, SequenceTheorems, FiniteSetTheorems, WellFoundedInduction, TLAPS

(* Bytes and words. *)
LEMMA XorByteType == ASSUME NEW a \in Byte, NEW b \in Byte PROVE XorByte(a, b) \in Byte
BY DEF XorByte, Byte

LEMMA WordFacts ==
  0 \in Word /\ 0 \in Byte /\ TM_READY \in Word /\ Word \subseteq Nat /\ Byte \subseteq Nat
BY DEF Word, Byte, TM_READY

LEMMA HalvesType == ASSUME NEW w \in Word PROVE MSB(w) \in Byte /\ LSB(w) \in Byte
<1>1. w \in Int /\ 0 <= w /\ w <= 65535
  BY DEF Word
<1>2. w % 256 \in 0..255
  BY <1>1
<1>3. w \div 256 \in Int /\ 256 * (w \div 256) <= w /\ w < 256 * (w \div 256) + 256
  BY <1>1, SMTT(60)
<1>4. w \div 256 \in 0..255
  BY <1>1, <1>3
<1>5. QED BY <1>2, <1>4 DEF Byte, MSB, LSB

LEMMA XorWordType ==
  ASSUME NEW a \in Byte, NEW w \in Word PROVE XorWord(a, w) \in Byte
BY XorByteType, HalvesType DEF XorWord

(* The mails a service sends. *)
LEMMA SendType ==
  ASSUME NEW w \in Word, NEW sender \in Senders, Send_ISR_Mail(w, sender),
         TC_mailbox \in Seq(Mails), received \in Seq(Mails)
  PROVE  TC_mailbox' \in Seq(Mails) /\ received' \in Seq(Mails)
<1> DEFINE mail == [word |-> w, from |-> sender]
           all  == Append(received, mail)
<1>1. mail \in Mails
  BY DEF Mails
<1>2. all \in Seq(Mails) /\ all # <<>> /\ Append(TC_mailbox, mail) \in Seq(Mails)
  BY <1>1
<1>3. Remember(received, mail) \in Seq(Mails)
  <2>1. Tail(all) \in Seq(Mails)
    BY <1>2
  <2>2. QED BY <1>2, <2>1 DEF Remember
<1>4. QED BY <1>2, <1>3 DEF Send_ISR_Mail

(* The task takes the first mail. *)
LEMMA HeadType ==
  ASSUME TC_mailbox \in Seq(Mails), TC_mailbox # <<>>
  PROVE  Head(TC_mailbox) \in Mails /\ Tail(TC_mailbox) \in Seq(Mails)
OBVIOUS

(* What a TC interrupt does to the link: one case for each kind of word. *)
LEMMA ServiceLinkType == TypeOK /\ TC_InterruptService => LinkType'
<1> SUFFICES ASSUME TypeOK, TC_InterruptService PROVE LinkType'
  OBVIOUS
<1> USE DEF TypeOK, LinkType
<1>1. StateAfterAbort \in DOMAIN Handlers /\ MaskAfterAbort \in BOOLEAN
  BY DEF StateAfterAbort, MaskAfterAbort, Handlers
<1>2. Response \in Words
  BY DEF Response, At, Words
<1>3. CASE TC_InterruptService_Early
  BY <1>3 DEF TC_InterruptService_Early, Untouched, link, session
<1>4. ASSUME NEW w \in Uplink, TC_InterruptService_Block(w) PROVE LinkType'
  BY <1>4 DEF TC_InterruptService_Block, Untouched, link, session
<1>5. ASSUME NEW w \in Uplink, TC_InterruptService_Invalid(w) PROVE LinkType'
  BY <1>1, <1>2, <1>5 DEF TC_InterruptService_Invalid, Untouched, Respond
<1>6. ASSUME NEW w \in Uplink, SendStatusRegister(w) PROVE LinkType'
  <2>1. TC_CODE(w) \in Nat
    BY HalvesType, TcTmAssumption DEF TC_CODE, Byte
  <2>2. tm_word' \in Words
    BY <1>6, <2>1 DEF SendStatusRegister, At, Words, Areas
  <2>3. telemetry_pointer' \in Nat /\ telemetry_end_pointer' \in Nat
    BY <1>6, <2>1, TcTmAssumption DEF SendStatusRegister
  <2>4. QED
    BY <1>6, <2>2, <2>3 DEF SendStatusRegister, Untouched, Handlers, Areas
<1>7. ASSUME NEW w \in Uplink, SendScienceDataFile(w) PROVE LinkType'
  <2>1. tm_word' \in Words
    BY <1>7 DEF SendScienceDataFile, At, Words, Areas
  <2>2. telemetry_pointer' \in Nat /\ telemetry_end_pointer' \in Nat
    <3>1. PICK n \in FileSizes : telemetry_end_pointer' = n - 1
      BY <1>7 DEF SendScienceDataFile
    <3>2. n \in Nat /\ n >= 2
      BY TcTmAssumption
    <3>3. QED BY <1>7, <3>1, <3>2 DEF SendScienceDataFile
  <2>3. QED
    BY <1>7, <2>1, <2>2 DEF SendScienceDataFile, Untouched, Handlers, Areas
<1>8. ASSUME NEW w \in Uplink, ReadDataMemory(w) PROVE LinkType'
  <2>1. TC_CODE(w) \in Nat /\ address_MSB \in Nat
    <3>1. w \in Word
      BY TcTmAssumption
    <3>2. LSB(w) \in Byte /\ address_MSB \in Byte
      BY <3>1, HalvesType DEF BlockType
    <3>3. QED BY <3>2, WordFacts DEF TC_CODE
  <2>2. telemetry_pointer' \in Nat
    BY <1>8, <2>1 DEF ReadDataMemory
  <2>3. telemetry_end_pointer' \in Nat
    BY <1>8, <2>2, TcTmAssumption DEF ReadDataMemory
  <2>4. QED
    BY <1>2, <1>8, <2>2, <2>3 DEF ReadDataMemory, Untouched, Handlers, Areas
<1>9. ASSUME NEW w \in Uplink, TC_InterruptService_Refused(w) PROVE LinkType'
  <2>1. TC_state' \in DOMAIN Handlers
    BY <1>1, <1>9 DEF TC_InterruptService_Refused, Handlers
  <2>2. QED
    BY <1>1, <1>2, <1>9, <2>1 DEF TC_InterruptService_Refused, Untouched, Respond
<1>10. ASSUME NEW w \in Uplink, TC_InterruptService_Other(w) PROVE LinkType'
  BY <1>1, <1>2, <1>10 DEF TC_InterruptService_Other, Untouched, Respond
<1>11. QED
  BY <1>3, <1>4, <1>5, <1>6, <1>7, <1>8, <1>9, <1>10 DEF TC_InterruptService

(* What every other step does to the link. *)
LEMMA LinkTypeNext == TypeOK /\ [Next]_vars => LinkType'
<1> SUFFICES ASSUME TypeOK, [Next]_vars PROVE LinkType'
  OBVIOUS
<1> USE DEF TypeOK, LinkType
<1>1. CASE TC_InterruptService
  BY <1>1, ServiceLinkType
<1>2. CASE TM_InterruptService
  <2>1. telemetry_pointer' \in Nat /\ tm_area' \in Areas
    BY <1>2 DEF TM_InterruptService, TM_InterruptService_Send, TM_InterruptService_Wrap,
                TM_InterruptService_Ready, Areas
  <2>2. tm_word' \in Words
    BY <1>2 DEF TM_InterruptService, TM_InterruptService_Send, TM_InterruptService_Wrap,
                TM_InterruptService_Ready, Areas, At, Checksum, Words
  <2>3. QED
    BY <1>2, <2>1, <2>2 DEF TM_InterruptService, TM_InterruptService_Send,
       TM_InterruptService_Wrap, TM_InterruptService_Ready, TM_Frame, link, status
<1>3. CASE TC_Step
  <2> USE DEF TaskFrame, Handled, session, link, status, Set_TC_Error, Handlers
  <2>1. CASE HandleTelecommand_Wait \/ HandleTelecommand_Timeout \/ HandleTelecommand_TimeoutError
    BY <2>1 DEF HandleTelecommand_Wait, HandleTelecommand_Timeout, HandleTelecommand_TimeoutError
  <2>2. CASE \/ HandleTelecommand_TimeoutEnd \/ HandleTelecommand_Test
             \/ HandleTelecommand_Switch \/ HandleTelecommand_Ready
    BY <2>2 DEF HandleTelecommand_TimeoutEnd, HandleTelecommand_Test,
       HandleTelecommand_Switch, HandleTelecommand_Ready
  <2>3. CASE HandleTelecommand_Drop \/ HandleTelecommand_ReadMemory
    BY <2>3 DEF HandleTelecommand_Drop, HandleTelecommand_ReadMemory
  <2>4. CASE WriteMemory_Lsb \/ WriteMemory_Wrong
    BY <2>4 DEF WriteMemory_Lsb, WriteMemory_Wrong
  <2>5. CASE MemoryPatch_Fill \/ MemoryPatch_Reject \/ MemoryPatch_Write
    BY <2>5 DEF MemoryPatch_Fill, MemoryPatch_Reject, MemoryPatch_Write
  <2>6. CASE ExecuteCommand
    <3> USE DEF Execute
    <3>1. CASE ExecuteCommand_ReadMsb \/ ExecuteCommand_WriteMsb \/ ExecuteCommand_Acquisition
      BY <3>1 DEF ExecuteCommand_ReadMsb, ExecuteCommand_WriteMsb, ExecuteCommand_Acquisition
    <3>2. CASE ExecuteCommand_Error \/ ExecuteCommand_ErrorStatusClear \/ ExecuteCommand_Other
      BY <3>2 DEF ExecuteCommand_Error, ExecuteCommand_ErrorStatusClear, ExecuteCommand_Other
    <3>3. ASSUME NEW n \in 0..3, ExecuteCommand_SetTime(n) PROVE LinkType'
      BY <3>3 DEF ExecuteCommand_SetTime
    <3>4. QED BY <2>6, <3>1, <3>2, <3>3 DEF ExecuteCommand
  <2>7. CASE SoftReset
    BY <2>7 DEF SoftReset, Restart
  <2>8. QED
    BY <1>3, <2>1, <2>2, <2>3, <2>4, <2>5, <2>6, <2>7 DEF TC_Step
<1>4. CASE WatchdogReset
  BY <1>4 DEF WatchdogReset, Restart, session, Handlers
<1>5. CASE EnterStandBy
  BY <1>5 DEF EnterStandBy, session, link
<1>6. CASE UNCHANGED vars
  BY <1>6 DEF vars, session, link, status
<1>7. QED
  BY <1>1, <1>2, <1>3, <1>4, <1>5, <1>6 DEF Next

(* The words that reach the task. *)
LEMMA ServiceMails ==
  TypeOK /\ (TC_InterruptService \/ TM_InterruptService)
    => TC_mailbox' \in Seq(Mails) /\ received' \in Seq(Mails)
<1> SUFFICES ASSUME TypeOK, TC_InterruptService \/ TM_InterruptService
             PROVE  TC_mailbox' \in Seq(Mails) /\ received' \in Seq(Mails)
  OBVIOUS
<1> USE DEF TypeOK, TaskType, HistoryType
<1>1. ASSUME NEW w \in Word, NEW sender \in Senders, Send_ISR_Mail(w, sender)
      PROVE  TC_mailbox' \in Seq(Mails) /\ received' \in Seq(Mails)
  BY <1>1, SendType
<1>2. CASE UNCHANGED <<TC_mailbox, received>>
  BY <1>2
<1>3. TM_READY \in Word /\ Uplink \subseteq Word
  BY TcTmAssumption, WordFacts
<1>4. CASE TM_InterruptService
  BY <1>1, <1>2, <1>3, <1>4 DEF TM_InterruptService, TM_InterruptService_Send,
     TM_InterruptService_Wrap, TM_InterruptService_Ready, Senders
<1>5. CASE TC_InterruptService_Early
  BY <1>2, <1>5 DEF TC_InterruptService_Early
<1>6. ASSUME NEW w \in Uplink,
             \/ TC_InterruptService_Block(w)  \/ TC_InterruptService_Invalid(w)
             \/ SendStatusRegister(w)         \/ SendScienceDataFile(w)
             \/ ReadDataMemory(w)             \/ TC_InterruptService_Refused(w)
             \/ TC_InterruptService_Other(w)
      PROVE  TC_mailbox' \in Seq(Mails) /\ received' \in Seq(Mails)
  <2>1. \/ UNCHANGED <<TC_mailbox, received>>
        \/ Send_ISR_Mail(w, "patch") \/ Send_ISR_Mail(w, "TC")
    BY <1>6 DEF TC_InterruptService_Block, TC_InterruptService_Invalid, SendStatusRegister,
       SendScienceDataFile, ReadDataMemory, TC_InterruptService_Refused,
       TC_InterruptService_Other, Accepted
  <2>2. QED
    BY <1>1, <1>2, <1>3, <2>1 DEF Senders
<1>7. QED
  BY <1>4, <1>5, <1>6 DEF TC_InterruptService

(* A service leaves the task and its data alone. *)
LEMMA ServiceFrame ==
  TC_InterruptService \/ TM_InterruptService
    => UNCHANGED <<mode_error, mode, task, block, effects, resets>>
BY DEF TC_InterruptService, TC_InterruptService_Early, TC_InterruptService_Block,
   TC_InterruptService_Invalid, SendStatusRegister, SendScienceDataFile, ReadDataMemory,
   TC_InterruptService_Refused, TC_InterruptService_Other, Untouched,
   TM_InterruptService, TM_InterruptService_Send, TM_InterruptService_Wrap,
   TM_InterruptService_Ready, TM_Frame, status, bounds

LEMMA ServiceCounts ==
  TypeOK /\ (TC_InterruptService \/ TM_InterruptService) => TCs' \in Nat
BY DEF TypeOK, HistoryType, TC_InterruptService, TC_InterruptService_Early,
   TC_InterruptService_Block, TC_InterruptService_Invalid, SendStatusRegister,
   SendScienceDataFile, ReadDataMemory, TC_InterruptService_Refused,
   TC_InterruptService_Other, Accepted, Telecommand, Received,
   TM_InterruptService, TM_InterruptService_Send, TM_InterruptService_Wrap,
   TM_InterruptService_Ready, TM_Frame, bounds

(* A reset empties mailbox and history. *)
LEMMA RestartType ==
  ASSUME TypeOK, Restart PROVE TaskType' /\ received' \in Seq(Mails) /\ TCs' \in Nat
<1>1. <<>> \in Seq(Mails) /\ 0 \in Word
  BY WordFacts
<1>2. TC_mailbox' = <<>> /\ received' = <<>> /\ previous_TC' = 0 /\ TC_timeout' = FALSE
  BY DEF Restart
<1>3. TC_pc' = "WaitMail" /\ TC_mail' = TC_mail /\ TCs' = TCs
  BY DEF Restart
<1>4. QED BY <1>1, <1>2, <1>3 DEF TypeOK, TaskType, HistoryType

(* The task, its mails and the history. *)
LEMMA TaskTypeNext == TypeOK /\ [Next]_vars => TaskType' /\ HistoryType'
<1> SUFFICES ASSUME TypeOK, [Next]_vars PROVE TaskType' /\ HistoryType'
  OBVIOUS
<1> USE DEF TypeOK, TaskType, HistoryType
<1>1. CASE TC_InterruptService \/ TM_InterruptService
  BY <1>1, ServiceMails, ServiceFrame, ServiceCounts DEF task
<1>2. CASE TC_Step
  <2> USE DEF TaskFrame, Handled, bounds
  <2>1. TC_mail.word \in Word /\ 0 \in Word
    BY WordFacts DEF Mails
  <2>2. CASE HandleTelecommand_Wait
    BY <2>2, HeadType DEF HandleTelecommand_Wait
  <2>3. CASE HandleTelecommand_Timeout \/ HandleTelecommand_TimeoutError \/ HandleTelecommand_TimeoutEnd
    BY <2>1, <2>3 DEF HandleTelecommand_Timeout, HandleTelecommand_TimeoutError,
                      HandleTelecommand_TimeoutEnd
  <2>4. CASE HandleTelecommand_Test \/ HandleTelecommand_Switch
    <3>1. TC_pc' \in {"Ready", "Switch", "ReadMemory", "WriteMemory", "MemoryPatch",
                      "ExecuteCommand", "Drop"}
      BY <2>4 DEF HandleTelecommand_Test, HandleTelecommand_Switch, LinkType, Handlers
    <3>2. QED BY <2>4, <3>1 DEF HandleTelecommand_Test, HandleTelecommand_Switch
  <2>5. CASE \/ HandleTelecommand_Ready \/ HandleTelecommand_Drop
             \/ HandleTelecommand_ReadMemory
    BY <2>1, <2>5 DEF HandleTelecommand_Ready, HandleTelecommand_Drop,
                      HandleTelecommand_ReadMemory
  <2>6. CASE \/ WriteMemory_Lsb \/ WriteMemory_Wrong
             \/ MemoryPatch_Fill \/ MemoryPatch_Reject \/ MemoryPatch_Write
    BY <2>1, <2>6 DEF WriteMemory_Lsb, WriteMemory_Wrong, MemoryPatch_Fill,
                      MemoryPatch_Reject, MemoryPatch_Write
  <2>7. CASE ExecuteCommand
    <3>1. /\ TC_pc' = "WaitMail" /\ previous_TC' = TC_mail.word
          /\ UNCHANGED <<TC_mailbox, TC_mail, received, TCs, resets>>
      BY <2>7 DEF ExecuteCommand, ExecuteCommand_ReadMsb, ExecuteCommand_WriteMsb,
         ExecuteCommand_Acquisition, ExecuteCommand_Error, ExecuteCommand_SetTime,
         ExecuteCommand_ErrorStatusClear, ExecuteCommand_Other, Execute
    <3>2. TC_timeout' \in BOOLEAN
      <4>1. ASSUME NEW n \in 0..3, ExecuteCommand_SetTime(n) PROVE TC_timeout' \in BOOLEAN
        <5>1. TC_timeout' = (n > 0) \/ TC_timeout' = TC_timeout
          BY <4>1, Zenon DEF ExecuteCommand_SetTime
        <5>2. (n > 0) \in BOOLEAN
          BY SMT
        <5>3. TC_timeout \in BOOLEAN
          OBVIOUS
        <5>4. QED BY <5>1, <5>2, <5>3, Zenon
      <4>2. ASSUME \/ ExecuteCommand_ReadMsb \/ ExecuteCommand_WriteMsb
                   \/ ExecuteCommand_Acquisition \/ ExecuteCommand_Error
                   \/ ExecuteCommand_ErrorStatusClear \/ ExecuteCommand_Other
            PROVE  TC_timeout' \in BOOLEAN
        BY <4>2 DEF ExecuteCommand_ReadMsb, ExecuteCommand_WriteMsb,
           ExecuteCommand_Acquisition, ExecuteCommand_Error,
           ExecuteCommand_ErrorStatusClear, ExecuteCommand_Other
      <4>3. QED BY <2>7, <4>1, <4>2 DEF ExecuteCommand
    <3>3. QED BY <2>1, <3>1, <3>2
  <2>8. CASE SoftReset
    <3>1. Restart /\ resets' = resets
      BY <2>8 DEF SoftReset
    <3>2. QED BY <3>1, RestartType
  <2>9. QED
    BY <1>2, <2>2, <2>3, <2>4, <2>5, <2>6, <2>7, <2>8 DEF TC_Step
<1>3. CASE WatchdogReset
  <2>1. Restart /\ resets' = resets + 1
    BY <1>3 DEF WatchdogReset
  <2>2. QED BY <2>1, RestartType
<1>4. CASE EnterStandBy
  BY <1>4 DEF EnterStandBy, task, bounds
<1>5. CASE UNCHANGED vars
  BY <1>5 DEF vars, task, bounds
<1>6. QED
  BY <1>1, <1>2, <1>3, <1>4, <1>5 DEF Next

(* The block: two more bytes fit, as buffer and block have an even size. *)
LEMMA FillType ==
  ASSUME TypeOK, NEW w \in Word, Len(memory_transfer_buffer) < MEM_BUFFER_SIZE,
         Even(Len(memory_transfer_buffer))
  PROVE  /\ memory_transfer_buffer \o <<MSB(w), LSB(w)>> \in Seq(Byte)
         /\ Len(memory_transfer_buffer \o <<MSB(w), LSB(w)>>) = Len(memory_transfer_buffer) + 2
         /\ Len(memory_transfer_buffer) + 2 <= MEM_BUFFER_SIZE
         /\ Even(Len(memory_transfer_buffer) + 2)
<1>1. MSB(w) \in Byte /\ LSB(w) \in Byte
  BY HalvesType
<1>2. memory_transfer_buffer \in Seq(Byte) /\ <<MSB(w), LSB(w)>> \in Seq(Byte)
  BY <1>1 DEF TypeOK, BlockType
<1>3. Len(memory_transfer_buffer) \in Nat /\ MEM_BUFFER_SIZE \in Nat
  BY <1>2, TcTmAssumption
<1>4. Len(memory_transfer_buffer) + 2 <= MEM_BUFFER_SIZE /\ Even(Len(memory_transfer_buffer) + 2)
  BY <1>3, TcTmAssumption DEF Even
<1>5. QED BY <1>2, <1>4

\* The buffer holds whole words.
BufferEven == Even(Len(memory_transfer_buffer))

(* The steps that change the block; all others keep it. *)
BlockSteps ==
  \/ WriteMemory_Lsb \/ WriteMemory_Wrong
  \/ MemoryPatch_Fill \/ MemoryPatch_Reject \/ MemoryPatch_Write \/ SoftReset
  \/ ExecuteCommand_ReadMsb \/ ExecuteCommand_WriteMsb
  \/ \E n \in 0..3 : ExecuteCommand_SetTime(n)

LEMMA BlockFrame == [Next]_vars /\ ~BlockSteps => UNCHANGED <<block, effects>>
<1> SUFFICES ASSUME [Next]_vars, ~BlockSteps PROVE UNCHANGED <<block, effects>>
  OBVIOUS
<1>1. CASE TC_InterruptService \/ TM_InterruptService
  BY <1>1, ServiceFrame
<1>2. CASE TC_Step
  BY <1>2 DEF TC_Step, BlockSteps, HandleTelecommand_Wait, HandleTelecommand_Timeout,
     HandleTelecommand_TimeoutError, HandleTelecommand_TimeoutEnd, HandleTelecommand_Test,
     HandleTelecommand_Switch, HandleTelecommand_Ready, HandleTelecommand_Drop, HandleTelecommand_ReadMemory,
     ExecuteCommand, ExecuteCommand_Acquisition, ExecuteCommand_Error,
     ExecuteCommand_ErrorStatusClear, ExecuteCommand_Other
<1>3. CASE WatchdogReset
  BY <1>3 DEF WatchdogReset, Restart, effects
<1>4. CASE EnterStandBy
  BY <1>4 DEF EnterStandBy
<1>5. CASE UNCHANGED vars
  BY <1>5 DEF vars
<1>6. QED
  BY <1>1, <1>2, <1>3, <1>4, <1>5 DEF Next

LEMMA WrittenType ==
  ASSUME TypeOK, written' = Written PROVE written' \in Blocks
<1>1. address_MSB \in Nat /\ address_LSB \in Nat
  BY WordFacts DEF TypeOK, BlockType
<1>2. Target \in Nat
  BY <1>1 DEF Target
<1>3. QED BY <1>2 DEF TypeOK, BlockType, Written, Blocks

LEMMA BlockTypeNext ==
  TypeOK /\ BufferEven /\ [Next]_vars => BlockType' /\ BufferEven'
<1> SUFFICES ASSUME TypeOK, BufferEven, [Next]_vars PROVE BlockType' /\ BufferEven'
  OBVIOUS
<1> USE DEF BlockType
<1>1. /\ TC_mail.word \in Word /\ Code \in Byte /\ BlockType
      /\ MSB(TC_mail.word) \in Byte
  BY HalvesType DEF TypeOK, TaskType, Mails, Code, TC_CODE
<1>2. /\ XorWord(write_checksum, TC_mail.word) \in Byte
      /\ XorWord(0, TC_mail.word) \in Byte
      /\ XorByte(write_checksum, MSB(TC_mail.word)) \in Byte
  BY <1>1, XorWordType, XorByteType, WordFacts
<1>3. CASE WriteMemory_Lsb
  <2>1. memory_transfer_buffer' = <<>>
    BY <1>3 DEF WriteMemory_Lsb
  <2>2. /\ memory_transfer_buffer' \in Seq(Byte)
        /\ Len(memory_transfer_buffer') <= MEM_BUFFER_SIZE /\ BufferEven'
    BY <2>1, TcTmAssumption DEF BufferEven, Even
  <2>3. QED BY <1>1, <1>2, <1>3, <2>2 DEF WriteMemory_Lsb, effects
<1>4. CASE WriteMemory_Wrong
  BY <1>1, <1>2, <1>4 DEF WriteMemory_Wrong, effects, BufferEven
<1>5. CASE MemoryPatch_Fill
  <2>1. /\ memory_transfer_buffer' \in Seq(Byte)
        /\ Len(memory_transfer_buffer') <= MEM_BUFFER_SIZE /\ BufferEven'
    BY <1>1, <1>5, FillType DEF MemoryPatch_Fill, BufferEven
  <2>2. QED BY <1>1, <1>2, <1>5, <2>1 DEF MemoryPatch_Fill, effects
<1>6. CASE MemoryPatch_Reject
  BY <1>1, <1>2, <1>6 DEF MemoryPatch_Reject, effects, BufferEven
<1>7. CASE MemoryPatch_Write
  <2>1. written' \in Blocks
    BY <1>7, WrittenType DEF MemoryPatch_Write
  <2>2. QED BY <1>1, <1>2, <1>7, <2>1 DEF MemoryPatch_Write, BufferEven
<1>8. CASE SoftReset
  <2>1. written' = Written \/ written' = written
    BY <1>8 DEF SoftReset
  <2>2. written' \in Blocks
    BY <1>1, <2>1, WrittenType
  <2>3. UNCHANGED <<block, internal_time>>
    BY <1>8 DEF SoftReset, Restart
  <2>4. QED BY <1>1, <2>2, <2>3 DEF block, BufferEven
<1>9. CASE ExecuteCommand_ReadMsb
  BY <1>1, <1>9 DEF ExecuteCommand_ReadMsb, effects, BufferEven
<1>10. CASE ExecuteCommand_WriteMsb
  BY <1>1, <1>2, <1>10 DEF ExecuteCommand_WriteMsb, effects, BufferEven
<1>11. ASSUME NEW n \in 0..3, ExecuteCommand_SetTime(n) PROVE BlockType' /\ BufferEven'
  <2>1. \/ internal_time' = internal_time
        \/ internal_time' = [i \in 0..3 |-> IF i > n THEN internal_time[i]
                                            ELSE IF i = n THEN Code ELSE 0]
    BY <1>11 DEF ExecuteCommand_SetTime
  <2>2. internal_time' \in [0..3 -> Byte]
    BY <1>1, <2>1, WordFacts
  <2>3. UNCHANGED <<block, written>>
    BY <1>11 DEF ExecuteCommand_SetTime
  <2>4. QED BY <1>1, <2>2, <2>3 DEF block, BufferEven
<1>12. CASE ~BlockSteps
  BY <1>1, <1>12, BlockFrame DEF block, effects, BufferEven
<1>13. QED
  BY <1>3, <1>4, <1>5, <1>6, <1>7, <1>8, <1>9, <1>10, <1>11, <1>12 DEF BlockSteps

LEMMA TypeInit == Init => TypeOK /\ BufferEven
<1> SUFFICES ASSUME Init PROVE TypeOK /\ BufferEven
  OBVIOUS
<1>1. LinkType
  BY DEF Init, LinkType, Handlers, Areas, Response, At, Words
<1>2. NoMail \in Mails
  BY WordFacts DEF NoMail, Mails, Senders
<1>3. <<>> \in Seq(Mails)
  OBVIOUS
<1>4. TaskType /\ HistoryType
  BY <1>2, <1>3, WordFacts DEF Init, TaskType, HistoryType
<1>5. memory_transfer_buffer = <<>> /\ Len(<<>>) = 0 /\ <<>> \in Seq(Byte)
  BY DEF Init
<1>6. Len(memory_transfer_buffer) <= MEM_BUFFER_SIZE /\ BufferEven
  BY <1>5, TcTmAssumption DEF BufferEven, Even
<1>7. written \in Blocks /\ internal_time \in [0..3 -> Byte]
  BY <1>5, WordFacts DEF Init, Blocks
<1>8. BlockType
  BY <1>5, <1>6, <1>7, WordFacts DEF Init, BlockType
<1>9. QED BY <1>1, <1>4, <1>6, <1>8 DEF TypeOK

(* Types hold in every reachable state; in particular the transfer buffer is *)
(* never filled beyond its end, whatever arrives and whenever.               *)
THEOREM TypeCorrect == Spec => [](TypeOK /\ BufferEven)
<1>1. TypeOK /\ BufferEven /\ [Next]_vars => TypeOK' /\ BufferEven'
  BY LinkTypeNext, TaskTypeNext, BlockTypeNext DEF TypeOK
<1>2. QED BY <1>1, TypeInit, PTL DEF Spec

----------------------------------------------------------------------------
(* Where the telemetry pointer is.  A dump ends on an even distance from     *)
(* the pointer, so the second byte of its last word is inside memory too;    *)
(* register_TM_e is entered together with pointers into the registers.       *)

RegisterInv ==
  TC_state = "register_TM_e" =>
    /\ tm_area = "registers" /\ telemetry_end_pointer = LAST_EVEN + 1
    /\ tm_word.area = "registers" /\ Even(tm_word.offset)
    /\ \/ telemetry_pointer = NextRegister(tm_word.offset)
       \/ tm_word.offset = LAST_EVEN /\ telemetry_pointer = LAST_EVEN + 2

PointerInv ==
  /\ tm_area = "registers" => telemetry_end_pointer <= LAST_EVEN + 1
  /\ tm_area = "science" => Even(telemetry_end_pointer - telemetry_pointer + 1)
  /\ tm_area = "memory" =>
       /\ telemetry_end_pointer <= END_SRAM3 + 1
       /\ Even(telemetry_end_pointer - telemetry_pointer)

TmInv == TypeOK /\ BufferEven /\ RegisterInv /\ PointerInv /\ PointerInArea

(* The steps that touch the telemetry registers or their pointers. *)
SessionSteps ==
  \/ TM_InterruptService_Send \/ TM_InterruptService_Wrap \/ TM_InterruptService_Ready
  \/ \E w \in Uplink : \/ TC_InterruptService_Invalid(w) \/ SendStatusRegister(w)
                       \/ SendScienceDataFile(w)         \/ ReadDataMemory(w)
                       \/ TC_InterruptService_Refused(w) \/ TC_InterruptService_Other(w)

(* The others leave them alone, and do not enter a state that sends. *)
LEMMA SessionFrame ==
  ASSUME TypeOK, [Next]_vars, ~SessionSteps
  PROVE  /\ UNCHANGED session
         /\ TC_state' \in {"register_TM_e", "SC_TM_e", "memory_dump_e"} => TC_state' = TC_state
<1>1. CASE TC_InterruptService \/ TM_InterruptService
  BY <1>1 DEF SessionSteps, TC_InterruptService, TM_InterruptService,
     TC_InterruptService_Early, TC_InterruptService_Block, link
<1>2. CASE TC_Step
  <2>1. CASE ExecuteCommand
    BY <2>1 DEF ExecuteCommand, ExecuteCommand_ReadMsb, ExecuteCommand_WriteMsb,
       ExecuteCommand_Acquisition, ExecuteCommand_Error, ExecuteCommand_SetTime,
       ExecuteCommand_ErrorStatusClear, ExecuteCommand_Other, Execute, Handled, TaskFrame, link
  <2>2. CASE SoftReset
    BY <2>2 DEF SoftReset, Restart
  <2>3. CASE ~ExecuteCommand /\ ~SoftReset
    BY <1>2, <2>3 DEF TC_Step, HandleTelecommand_Wait, HandleTelecommand_Timeout,
       HandleTelecommand_TimeoutError, HandleTelecommand_TimeoutEnd, HandleTelecommand_Test,
       HandleTelecommand_Switch, HandleTelecommand_Ready, HandleTelecommand_Drop, HandleTelecommand_ReadMemory,
       WriteMemory_Lsb, WriteMemory_Wrong, MemoryPatch_Fill, MemoryPatch_Reject,
       MemoryPatch_Write, Handled, TaskFrame, link
  <2>4. QED BY <2>1, <2>2, <2>3
<1>3. CASE WatchdogReset
  BY <1>3 DEF WatchdogReset, Restart
<1>4. CASE EnterStandBy
  BY <1>4 DEF EnterStandBy, link
<1>5. CASE UNCHANGED vars
  BY <1>5 DEF vars, link
<1>6. QED
  BY <1>1, <1>2, <1>3, <1>4, <1>5 DEF Next

(* The block of a dump that starts at p ends inside SRAM3. *)
LEMMA DumpEnd ==
  ASSUME NEW p \in Nat, NEW size \in Nat, p <= END_SRAM3 - size + 1
  PROVE  p + size <= END_SRAM3 + 1 /\ (p + size) - p = size
BY DEF END_SRAM3

(* The register that SEND_STATUS_REGISTER asks for. *)
LEMMA StatusCode ==
  ASSUME NEW w \in Uplink, SendStatusRegister(w)
  PROVE  TC_CODE(w) \in Nat /\ Even(TC_CODE(w)) /\ TC_CODE(w) <= LAST_EVEN
<1>1. w \in Word /\ Valid(w) /\ TC_ADDRESS(w) = SEND_STATUS_REGISTER
  BY TcTmAssumption DEF SendStatusRegister, Accepted
<1>2. TC_CODE(w) \in Nat
  BY <1>1, HalvesType, WordFacts DEF TC_CODE
<1>3. /\ SEND_STATUS_REGISTER \notin ALL_VALID /\ SEND_STATUS_REGISTER \notin ONLY_EQUAL
      /\ SEND_STATUS_REGISTER \notin SWITCH_SU
  BY DEF SEND_STATUS_REGISTER, ALL_VALID, ONLY_EQUAL, SWITCH_SU, SET_TIME, SET_TIME_BYTE,
     SU_SETTINGS, COEFFICIENTS, WRITE_CODE_MEMORY_MSB, WRITE_CODE_MEMORY_LSB,
     WRITE_DATA_MEMORY_MSB, WRITE_DATA_MEMORY_LSB, READ_DATA_MEMORY_MSB,
     READ_DATA_MEMORY_LSB, START_ACQUISITION, STOP_ACQUISITION, ERROR_STATUS_CLEAR,
     SEND_SCIENCE_DATA_FILE, SOFT_RESET, CLEAR_FAILURES
<1>4. QED BY <1>1, <1>2, <1>3 DEF Valid

LEMMA TmInvInit == Init => TmInv
<1> SUFFICES ASSUME Init PROVE TmInv
  OBVIOUS
<1>1. RegisterInv /\ PointerInv /\ PointerInArea
  BY TcTmAssumption DEF Init, RegisterInv, PointerInv, PointerInArea, Response, At
<1>2. QED BY <1>1, TypeInit DEF TmInv

LEMMA TmInvNext == TmInv /\ [Next]_vars => TmInv'
<1> SUFFICES ASSUME TmInv, [Next]_vars PROVE TmInv'
  OBVIOUS
<1>1. TypeOK' /\ BufferEven'
  BY LinkTypeNext, TaskTypeNext, BlockTypeNext DEF TmInv, TypeOK
<1>2. /\ RegisterInv /\ PointerInv /\ PointerInArea /\ TypeOK
      /\ telemetry_pointer \in Nat /\ telemetry_end_pointer \in Nat /\ tm_word \in Words
      /\ tm_area \in Areas /\ LAST_EVEN \in Nat /\ Even(LAST_EVEN)
  BY TcTmAssumption DEF TmInv, TypeOK, LinkType
<1> DEFINE Goal == (RegisterInv /\ PointerInv /\ PointerInArea)'
<1> USE DEF RegisterInv, PointerInv, PointerInArea
\* A response, or the checksum, takes the place of the word; no session starts.
<1>3. ASSUME tm_word'.area \notin Areas, TC_state' # "register_TM_e",
             UNCHANGED <<tm_area, telemetry_pointer, telemetry_end_pointer>>
      PROVE  Goal
  BY <1>2, <1>3 DEF Areas
<1>4. StateAfterAbort # "register_TM_e"
  BY DEF StateAfterAbort
<1>5. Response.area \notin Areas /\ Checksum.area \notin Areas
  BY DEF Response, Checksum, At, Areas
<1>6. ASSUME NEW w \in Uplink,
             \/ TC_InterruptService_Invalid(w) \/ TC_InterruptService_Refused(w)
             \/ TC_InterruptService_Other(w)
      PROVE  Goal
  <2>1. TC_state' # "register_TM_e" /\ Respond
    BY <1>4, <1>6 DEF TC_InterruptService_Invalid, TC_InterruptService_Refused,
                      TC_InterruptService_Other
  <2>2. QED BY <1>3, <1>5, <2>1 DEF Respond
<1>7. ASSUME NEW w \in Uplink, SendStatusRegister(w) PROVE Goal
  <2>1. TC_CODE(w) \in Nat /\ Even(TC_CODE(w)) /\ TC_CODE(w) <= LAST_EVEN
    BY <1>7, StatusCode
  <2>2. /\ tm_area' = "registers" /\ telemetry_end_pointer' = LAST_EVEN + 1
        /\ tm_word' = At("registers", TC_CODE(w))
        /\ telemetry_pointer' = IF TC_CODE(w) + 2 > LAST_EVEN + 1 THEN 0 ELSE TC_CODE(w) + 2
    BY <1>7 DEF SendStatusRegister
  <2>3. telemetry_pointer' = NextRegister(TC_CODE(w))
    BY <1>2, <2>1, <2>2 DEF NextRegister, Even
  <2>4. QED BY <1>2, <2>1, <2>2, <2>3 DEF At
<1>8. ASSUME NEW w \in Uplink, SendScienceDataFile(w) PROVE Goal
  <2>1. PICK n \in FileSizes : telemetry_end_pointer' = n - 1
    BY <1>8 DEF SendScienceDataFile
  <2>2. n \in Nat /\ n >= 2 /\ Even(n)
    BY TcTmAssumption
  <2>3. /\ tm_area' = "science" /\ telemetry_pointer' = 2
        /\ tm_word' = At("science", 0) /\ TC_state' = "SC_TM_e"
    BY <1>8 DEF SendScienceDataFile
  <2>4. QED BY <2>1, <2>2, <2>3 DEF At, Even
<1>9. ASSUME NEW w \in Uplink, ReadDataMemory(w) PROVE Goal
  <2>1. /\ tm_area' = "memory" /\ TC_state' = "memory_dump_e" /\ tm_word' = Response
        /\ telemetry_end_pointer' = telemetry_pointer' + MEM_BUFFER_SIZE
        /\ telemetry_pointer' <= END_SRAM3 - MEM_BUFFER_SIZE + 1
    BY <1>9 DEF ReadDataMemory, CanRead, InData
  <2>2. telemetry_pointer' \in Nat /\ MEM_BUFFER_SIZE \in Nat /\ Even(MEM_BUFFER_SIZE)
    BY <1>1, TcTmAssumption DEF TypeOK, LinkType
  <2>3. /\ telemetry_end_pointer' <= END_SRAM3 + 1
        /\ telemetry_end_pointer' - telemetry_pointer' = MEM_BUFFER_SIZE
    <3>1. /\ telemetry_pointer' + MEM_BUFFER_SIZE <= END_SRAM3 + 1
          /\ (telemetry_pointer' + MEM_BUFFER_SIZE) - telemetry_pointer' = MEM_BUFFER_SIZE
      BY <2>1, <2>2, DumpEnd
    <3>2. QED BY <2>1, <3>1, Zenon
  <2>4. tm_word'.area \notin Areas
    BY <1>5, <2>1
  <2>5. QED BY <2>1, <2>2, <2>3, <2>4 DEF Areas
<1>10. ASSUME TM_InterruptService_Send PROVE Goal
  <2>1. /\ tm_word' = At(tm_area, telemetry_pointer)
        /\ telemetry_pointer < telemetry_end_pointer
        /\ telemetry_pointer' = telemetry_pointer + 2
        /\ UNCHANGED <<tm_area, telemetry_end_pointer, TC_state>>
    BY <1>10 DEF TM_InterruptService_Send, TM_Frame, link
  <2>2. tm_word'.area = tm_area /\ tm_word'.offset = telemetry_pointer
    BY <2>1 DEF At
  <2>3. PointerInArea'
    BY <1>2, <2>1, <2>2 DEF Even, END_SRAM3
  <2>4. PointerInv'
    BY <1>2, <2>1 DEF Even, END_SRAM3
  <2>5. RegisterInv'
    BY <1>2, <2>1, <2>2 DEF Even, NextRegister, Words
  <2>6. QED BY <2>3, <2>4, <2>5
<1>11. ASSUME TM_InterruptService_Wrap PROVE Goal
  <2>1. /\ tm_word' = At("registers", 0) /\ tm_area' = "registers" /\ telemetry_pointer' = 2
        /\ TC_state = "register_TM_e"
        /\ UNCHANGED <<telemetry_end_pointer, TC_state>>
    BY <1>11 DEF TM_InterruptService_Wrap, TM_Frame, link
  <2>2. QED BY <1>2, <2>1 DEF At, Even, NextRegister
<1>12. ASSUME TM_InterruptService_Ready PROVE Goal
  <2>1. /\ tm_word' = tm_word \/ tm_word' = Checksum
        /\ TC_state' # "register_TM_e"
        /\ UNCHANGED <<tm_area, telemetry_pointer, telemetry_end_pointer>>
    BY <1>12 DEF TM_InterruptService_Ready, TM_Frame, link
  <2>2. QED BY <1>2, <1>3, <1>5, <2>1
<1>13. ASSUME ~SessionSteps PROVE Goal
  BY <1>2, <1>13, SessionFrame DEF session
<1>14. Goal
  BY <1>6, <1>7, <1>8, <1>9, <1>10, <1>11, <1>12, <1>13 DEF SessionSteps
<1>15. QED BY <1>1, <1>14 DEF TmInv

(* No word of telemetry comes from outside the area that was asked for. *)
THEOREM PointerCorrect == Spec => []PointerInArea
<1>1. TmInv => PointerInArea
  BY DEF TmInv
<1>2. QED BY <1>1, TmInvInit, TmInvNext, PTL DEF Spec

(* A TC interrupt takes a word of the uplink. *)
LEMMA ServiceTakesWord == TC_InterruptService => TCs' = TCs + 1
BY DEF TC_InterruptService, TC_InterruptService_Early,
   TC_InterruptService_Block, TC_InterruptService_Invalid, SendStatusRegister,
   SendScienceDataFile, ReadDataMemory, TC_InterruptService_Refused,
   TC_InterruptService_Other, Accepted, Telecommand, Received

(* Register telemetry sends the registers in turn, and the last one too. *)
LEMMA CycleNext == TmInv /\ [Next]_vars => RegistersCycleStep
<1> SUFFICES ASSUME TmInv, [Next]_vars, TC_state = "register_TM_e",
                    tm_word' # tm_word, TC_state' = TC_state, TCs' = TCs
             PROVE  tm_word' = At("registers", NextRegister(tm_word.offset))
  BY DEF RegistersCycleStep
<1>1. /\ TypeOK /\ LAST_EVEN \in Nat /\ Even(LAST_EVEN) /\ tm_word.offset \in Nat
      /\ TCs \in Nat
  BY TcTmAssumption DEF TmInv, TypeOK, LinkType, HistoryType, Words
<1>2. /\ tm_area = "registers" /\ telemetry_end_pointer = LAST_EVEN + 1
      /\ tm_word.offset <= LAST_EVEN /\ Even(tm_word.offset)
      /\ \/ telemetry_pointer = NextRegister(tm_word.offset)
         \/ tm_word.offset = LAST_EVEN /\ telemetry_pointer = LAST_EVEN + 2
  BY DEF TmInv, RegisterInv, PointerInArea
<1>3. NextRegister(tm_word.offset) <= LAST_EVEN
  BY <1>1, <1>2 DEF NextRegister, Even
<1>4. ~TC_InterruptService
  BY <1>1, ServiceTakesWord
<1>5. CASE TM_InterruptService_Send
  <2>1. telemetry_pointer < LAST_EVEN + 1 /\ tm_word' = At("registers", telemetry_pointer)
    BY <1>2, <1>5 DEF TM_InterruptService_Send
  <2>2. telemetry_pointer = NextRegister(tm_word.offset)
    BY <1>1, <1>2, <2>1
  <2>3. QED BY <2>1, <2>2
<1>6. CASE TM_InterruptService_Wrap
  <2>1. telemetry_pointer >= LAST_EVEN + 1 /\ tm_word' = At("registers", 0)
    BY <1>2, <1>6 DEF TM_InterruptService_Wrap
  <2>2. tm_word.offset = LAST_EVEN
    <3>1. telemetry_pointer >= LAST_EVEN + 1
      BY <2>1
    <3>2. telemetry_pointer # NextRegister(tm_word.offset)
      <4> DEFINE n == NextRegister(tm_word.offset)
      <4>1. n <= LAST_EVEN /\ n \in Nat
        BY <1>1, <1>3 DEF NextRegister
      <4>2. telemetry_pointer # n
        <5> HIDE DEF n
        <5>1. QED BY <1>1, <3>1, <4>1
      <4>3. QED BY <4>2
    <3>3. QED BY <1>2, <3>2
  <2>3. NextRegister(tm_word.offset) = 0
    BY <2>2 DEF NextRegister
  <2>4. QED BY <2>1, <2>3
<1>7. ~TM_InterruptService_Ready
  BY DEF TM_InterruptService_Ready
<1>8. CASE ~SessionSteps
  BY <1>1, <1>8, SessionFrame DEF session
<1>9. SessionSteps => TM_InterruptService_Send \/ TM_InterruptService_Wrap
  BY <1>4, <1>7 DEF SessionSteps, TC_InterruptService
<1>10. QED BY <1>5, <1>6, <1>8, <1>9

THEOREM CycleCorrect == Spec => RegistersCycle
<1>1. QED BY TmInvInit, TmInvNext, CycleNext, PTL DEF Spec, RegistersCycle

----------------------------------------------------------------------------
(* Memory is written in stand-by mode.  The task enters a write state and    *)
(* changes the mode in ExecuteCommand only, which it reaches from            *)
(* TC_handling_e; an interrupt service can replace a write state meanwhile   *)
(* but not enter one.                                                        *)

StandByInv ==
  /\ TypeOK
  /\ WritesInStandBy
  /\ TC_pc \in {"WriteMemory", "MemoryPatch"} => mode = "STAND_BY"
  /\ TC_pc = "ExecuteCommand" => TC_state \notin WriteStates

LEMMA StandByNext == StandByInv /\ TypeOK' /\ [Next]_vars => StandByInv'
<1> SUFFICES ASSUME StandByInv, TypeOK', [Next]_vars PROVE StandByInv'
  OBVIOUS
<1>1. /\ TypeOK /\ TypeOK' /\ WritesInStandBy
      /\ TC_pc \in {"WriteMemory", "MemoryPatch"} => mode = "STAND_BY"
      /\ TC_pc = "ExecuteCommand" => TC_state \notin WriteStates
  BY DEF StandByInv
<1> USE DEF StandByInv, WritesInStandBy, WriteStates
\* A service does not enter a write state.
<1>2. CASE TC_InterruptService \/ TM_InterruptService
  <2>1. TC_state' = TC_state \/ TC_state' \notin WriteStates
    BY <1>2 DEF TC_InterruptService, TC_InterruptService_Early, TC_InterruptService_Block,
       TC_InterruptService_Invalid, SendStatusRegister, SendScienceDataFile, ReadDataMemory,
       TC_InterruptService_Refused, TC_InterruptService_Other, StateAfterAbort,
       TM_InterruptService, TM_InterruptService_Send, TM_InterruptService_Wrap,
       TM_InterruptService_Ready, TM_Frame, link
  <2>2. TC_pc' = TC_pc /\ mode' = mode
    BY <1>2, ServiceFrame DEF task
  <2>3. QED BY <1>1, <2>1, <2>2
\* WaitMail, the time-out and the handlers outside ExecuteCommand keep the
\* mode; WriteMemory enters memory_patch_e in stand-by mode.
<1>3. CASE \/ HandleTelecommand_Wait \/ HandleTelecommand_Timeout
           \/ HandleTelecommand_TimeoutError \/ HandleTelecommand_TimeoutEnd
           \/ HandleTelecommand_Test \/ HandleTelecommand_Ready
           \/ HandleTelecommand_Drop \/ HandleTelecommand_ReadMemory
           \/ WriteMemory_Lsb \/ WriteMemory_Wrong
           \/ MemoryPatch_Fill \/ MemoryPatch_Reject \/ MemoryPatch_Write
  BY <1>1, <1>3 DEF HandleTelecommand_Wait, HandleTelecommand_Timeout,
     HandleTelecommand_TimeoutError, HandleTelecommand_TimeoutEnd, HandleTelecommand_Test,
     HandleTelecommand_Ready, HandleTelecommand_Drop, HandleTelecommand_ReadMemory,
     WriteMemory_Lsb, WriteMemory_Wrong, MemoryPatch_Fill, MemoryPatch_Reject,
     MemoryPatch_Write, Handled, Set_TC_Error, link, status
<1>4. CASE HandleTelecommand_Switch
  <2>1. TC_pc' = Handlers[TC_state] /\ UNCHANGED <<TC_state, mode>>
    BY <1>4 DEF HandleTelecommand_Switch, link, status
  <2>2. /\ TC_pc' \in {"WriteMemory", "MemoryPatch"} => TC_state \in WriteStates
        /\ TC_pc' = "ExecuteCommand" => TC_state \notin WriteStates
    BY <1>1, <2>1 DEF TypeOK, LinkType, Handlers
  <2>3. QED BY <1>1, <2>1, <2>2
<1>5. CASE ExecuteCommand
  <2>1. TC_pc = "ExecuteCommand" /\ TC_pc' = "WaitMail"
    BY <1>5 DEF ExecuteCommand, ExecuteCommand_ReadMsb, ExecuteCommand_WriteMsb,
       ExecuteCommand_Acquisition, ExecuteCommand_Error, ExecuteCommand_SetTime,
       ExecuteCommand_ErrorStatusClear, ExecuteCommand_Other, Execute, Handled
  <2>2. \/ TC_state' \notin WriteStates
        \/ TC_state' \in WriteStates /\ mode' = "STAND_BY"
    BY <1>1, <1>5, <2>1 DEF ExecuteCommand, ExecuteCommand_ReadMsb, ExecuteCommand_WriteMsb,
       ExecuteCommand_Acquisition, ExecuteCommand_Error, ExecuteCommand_SetTime,
       ExecuteCommand_ErrorStatusClear, ExecuteCommand_Other, link, status
  <2>3. QED BY <1>1, <2>1, <2>2
<1>6. CASE SoftReset \/ WatchdogReset
  <2>1. Restart
    BY <1>6 DEF SoftReset, WatchdogReset
  <2>2. QED BY <1>1, <2>1 DEF Restart
<1>7. CASE EnterStandBy
  BY <1>1, <1>7 DEF EnterStandBy, link, task
<1>8. CASE UNCHANGED vars
  BY <1>1, <1>8 DEF vars, link, task, status
<1>9. QED
  BY <1>2, <1>3, <1>4, <1>5, <1>6, <1>7, <1>8 DEF Next, TC_Step

THEOREM StandByCorrect == Spec => []WritesInStandBy
<1>1. Init => StandByInv
  BY TypeInit DEF Init, StandByInv, WritesInStandBy, WriteStates
<1>2. StandByInv => WritesInStandBy
  BY DEF StandByInv
<1>3. Spec => []TypeOK
  BY TypeCorrect, PTL
<1>4. QED BY <1>1, <1>2, <1>3, StandByNext, PTL DEF Spec

----------------------------------------------------------------------------
(* The end of a Write Memory sequence.  A write state is left by the last    *)
(* word, with an error, or by the time-out, which sets the error one step    *)
(* before; a service may replace the state between these two steps.          *)

LateWriteInv ==
  /\ StandByInv
  /\ TC_pc = "TimeoutEnd" /\ TC_state \in WriteStates => "TC_ERROR" \in error_status
  /\ TC_pc = "Ready" => TC_state \in {"SC_TM_e", "memory_dump_e"}

(* A service leaves a write state as it is, sets an error, or starts         *)
(* telemetry in its place when no word of a block is awaited yet.            *)
LEMMA ServiceWrites ==
  ASSUME TypeOK, TC_InterruptService \/ TM_InterruptService
  PROVE  /\ TC_state \in {"SC_TM_e", "memory_dump_e"} => TC_state' = TC_state
         /\ TC_state' \in WriteStates => TC_state' = TC_state
         /\ TC_state \in WriteStates /\ TC_state' \notin WriteStates =>
              \/ "TC_ERROR" \in error_status'
              \/ /\ TC_state = "write_memory_e" /\ TC_state' \in {"register_TM_e", "SC_TM_e"}
                 /\ TCs' = TCs + 1 /\ written' = written
         /\ error_status \subseteq error_status'
<1> USE DEF WriteStates
<1>1. CASE TM_InterruptService
  BY <1>1 DEF TM_InterruptService, TM_InterruptService_Send, TM_InterruptService_Wrap,
     TM_InterruptService_Ready, TM_Frame, link, status
<1>2. CASE TC_InterruptService
  <2>1. CASE TC_InterruptService_Early
    BY <2>1 DEF TC_InterruptService_Early, link
  <2>2. ASSUME NEW w \in Uplink,
               \/ TC_InterruptService_Block(w)
               \/ TC_InterruptService_Invalid(w)
               \/ SendStatusRegister(w)
               \/ SendScienceDataFile(w)
               \/ ReadDataMemory(w)
               \/ TC_InterruptService_Refused(w)
               \/ TC_InterruptService_Other(w)
        PROVE  /\ TC_state \notin {"SC_TM_e", "memory_dump_e"}
               /\ TC_state' \in WriteStates => TC_state' = TC_state
               /\ TC_state \in WriteStates /\ TC_state' \notin WriteStates =>
                    \/ "TC_ERROR" \in error_status'
                    \/ /\ TC_state = "write_memory_e" /\ TC_state' \in {"register_TM_e", "SC_TM_e"}
                       /\ TCs' = TCs + 1 /\ written' = written
               /\ error_status \subseteq error_status'
    BY <2>2 DEF TC_InterruptService_Block, TC_InterruptService_Invalid, SendStatusRegister,
       SendScienceDataFile, ReadDataMemory, TC_InterruptService_Refused,
       TC_InterruptService_Other, CanRead, Accepted, Telecommand, Received, StateAfterAbort,
       Untouched, effects, link
  <2>3. QED BY <1>2, <2>1, <2>2 DEF TC_InterruptService
<1>3. QED BY <1>1, <1>2

LEMMA LateWriteNext == LateWriteInv /\ TypeOK' /\ [Next]_vars => LateWriteInv'
<1> SUFFICES ASSUME LateWriteInv, TypeOK', [Next]_vars PROVE LateWriteInv'
  OBVIOUS
<1>1. StandByInv'
  BY StandByNext DEF LateWriteInv
<1>2. /\ TypeOK
      /\ TC_pc = "TimeoutEnd" /\ TC_state \in WriteStates => "TC_ERROR" \in error_status
      /\ TC_pc = "Ready" => TC_state \in {"SC_TM_e", "memory_dump_e"}
  BY DEF LateWriteInv, StandByInv
<1> SUFFICES /\ TC_pc' = "TimeoutEnd" /\ TC_state' \in WriteStates => "TC_ERROR" \in error_status'
             /\ TC_pc' = "Ready" => TC_state' \in {"SC_TM_e", "memory_dump_e"}
  BY <1>1 DEF LateWriteInv
<1>3. CASE TC_InterruptService \/ TM_InterruptService
  <2>1. TC_pc' = TC_pc
    BY <1>3, ServiceFrame DEF task
  <2>2. QED BY <1>2, <1>3, <2>1, ServiceWrites
<1>4. CASE HandleTelecommand_TimeoutError
  BY <1>4 DEF HandleTelecommand_TimeoutError, link, WriteStates
<1>5. CASE HandleTelecommand_Test
  BY <1>5 DEF HandleTelecommand_Test, IsReady, link
<1>6. CASE HandleTelecommand_Switch
  <2>1. TC_pc' \notin {"TimeoutEnd", "Ready"}
    BY <1>2, <1>6 DEF HandleTelecommand_Switch, TypeOK, LinkType, Handlers
  <2>2. QED BY <2>1
<1>7. CASE SoftReset \/ WatchdogReset
  BY <1>7 DEF SoftReset, WatchdogReset, Restart
<1>8. CASE EnterStandBy \/ UNCHANGED vars
  BY <1>2, <1>8 DEF EnterStandBy, vars, link, task, status
<1>9. CASE ExecuteCommand
  BY <1>9 DEF ExecuteCommand, ExecuteCommand_ReadMsb, ExecuteCommand_WriteMsb,
     ExecuteCommand_Acquisition, ExecuteCommand_Error, ExecuteCommand_SetTime,
     ExecuteCommand_ErrorStatusClear, ExecuteCommand_Other, Execute, Handled
<1>10. CASE \/ HandleTelecommand_Wait \/ HandleTelecommand_Timeout
            \/ HandleTelecommand_TimeoutEnd \/ HandleTelecommand_Ready
            \/ HandleTelecommand_Drop \/ HandleTelecommand_ReadMemory
            \/ WriteMemory_Lsb \/ WriteMemory_Wrong
            \/ MemoryPatch_Fill \/ MemoryPatch_Reject \/ MemoryPatch_Write
  BY <1>10 DEF HandleTelecommand_Wait, HandleTelecommand_Timeout, HandleTelecommand_TimeoutEnd,
     HandleTelecommand_Ready, HandleTelecommand_Drop, HandleTelecommand_ReadMemory,
     WriteMemory_Lsb, WriteMemory_Wrong, MemoryPatch_Fill, MemoryPatch_Reject,
     MemoryPatch_Write, Handled
<1>11. QED
  BY <1>3, <1>4, <1>5, <1>6, <1>7, <1>8, <1>9, <1>10 DEF Next, TC_Step

LEMMA WriteEndsNext == LateWriteInv /\ [Next]_vars => WriteEndsInResultStep
<1> SUFFICES ASSUME LateWriteInv, [Next]_vars,
                    TC_state \in WriteStates, TC_state' \notin WriteStates
             PROVE  \/ written' = Written /\ TC_pc = "MemoryPatch"
                    \/ "TC_ERROR" \in error_status' \/ mode_error'
                    \/ resets' # resets
                    \/ /\ TC_state = "write_memory_e" /\ TC_state' \in {"register_TM_e", "SC_TM_e"}
                       /\ TCs' # TCs /\ written' = written
  BY DEF WriteEndsInResultStep
<1>1. /\ TypeOK /\ resets \in Nat /\ TCs \in Nat
      /\ TC_pc = "TimeoutEnd" => "TC_ERROR" \in error_status
      /\ TC_pc \notin {"Ready", "ExecuteCommand"}
  BY DEF LateWriteInv, StandByInv, WriteStates, TypeOK, HistoryType
<1> USE DEF WriteStates
<1>2. CASE TC_InterruptService \/ TM_InterruptService
  BY <1>1, <1>2, ServiceWrites
<1>3. CASE HandleTelecommand_TimeoutEnd
  BY <1>1, <1>3 DEF HandleTelecommand_TimeoutEnd, status
<1>4. CASE HandleTelecommand_ReadMemory \/ WriteMemory_Wrong \/ MemoryPatch_Reject
  BY <1>4 DEF HandleTelecommand_ReadMemory, WriteMemory_Wrong, MemoryPatch_Reject,
     Set_TC_Error
<1>5. CASE MemoryPatch_Write
  BY <1>5 DEF MemoryPatch_Write, Handled
<1>6. CASE SoftReset
  BY <1>1, <1>6 DEF SoftReset, MemoryPatch_Last
<1>7. CASE WatchdogReset
  BY <1>1, <1>7 DEF WatchdogReset
<1>8. CASE ExecuteCommand
  BY <1>1, <1>8 DEF ExecuteCommand, ExecuteCommand_ReadMsb, ExecuteCommand_WriteMsb,
     ExecuteCommand_Acquisition, ExecuteCommand_Error, ExecuteCommand_SetTime,
     ExecuteCommand_ErrorStatusClear, ExecuteCommand_Other, Execute, Handled
<1>9. CASE HandleTelecommand_Ready
  BY <1>1, <1>9 DEF HandleTelecommand_Ready, Handled
<1>10. CASE \/ HandleTelecommand_Wait \/ HandleTelecommand_Timeout
            \/ HandleTelecommand_TimeoutError \/ HandleTelecommand_Test
            \/ HandleTelecommand_Switch \/ HandleTelecommand_Drop
            \/ WriteMemory_Lsb \/ MemoryPatch_Fill
            \/ EnterStandBy \/ UNCHANGED vars
  BY <1>10 DEF HandleTelecommand_Wait, HandleTelecommand_Timeout, HandleTelecommand_TimeoutError,
     HandleTelecommand_Test, HandleTelecommand_Switch, HandleTelecommand_Drop, WriteMemory_Lsb,
     MemoryPatch_Fill, EnterStandBy, vars, link
<1>11. QED
  BY <1>2, <1>3, <1>4, <1>5, <1>6, <1>7, <1>8, <1>9, <1>10 DEF Next, TC_Step

(* Every end of a Write Memory sequence, whatever words, time-outs and resets *)
(* bring it about and whatever state follows, left a block in memory, an     *)
(* error for the ground or a restart; but for the one that comes before its  *)
(* second word by a telecommand for telemetry, and writes nothing            *)
(* (WriteMemory, MemoryPatch, the time-out of HandleTelecommand, the TC      *)
(* service).                                                                 *)
THEOREM WriteEndsCorrect == Spec => WriteEndsInResult
<1>1. Init => LateWriteInv
  BY TypeInit DEF Init, LateWriteInv, StandByInv, WritesInStandBy, WriteStates
<1>2. Spec => []TypeOK
  BY TypeCorrect, PTL
<1>3. QED BY <1>1, <1>2, LateWriteNext, WriteEndsNext, PTL DEF Spec, WriteEndsInResult

----------------------------------------------------------------------------
(* When a handler runs to its end before the next interrupt, the mask and    *)
(* the state change together: the task finds TC_state as it was when it      *)
(* chose its handler, and a time-out that is still set belongs to no         *)
(* telemetry state, since the word that starts one is mailed and WaitMail    *)
(* resets the time-out with it.                                              *)

TelemetryStates == {"register_TM_e", "SC_TM_e", "memory_dump_e"}
Chosen == {Handlers[s] : s \in DOMAIN Handlers}

MaskInv ==
  /\ TypeOK
  /\ TM_mask <=> TC_state \in TelemetryStates
  /\ TC_pc \in Chosen => TC_pc = Handlers[TC_state]
  /\ TC_pc = "Ready" => TC_state \in {"SC_TM_e", "memory_dump_e"}
  /\ TC_pc \in {"Timeout", "TimeoutEnd"} => TC_state \notin TelemetryStates
  /\ TC_timeout /\ TC_mailbox = <<>> => TC_state \notin TelemetryStates

LEMMA ChosenHandlers ==
  Chosen = {"ReadMemory", "WriteMemory", "MemoryPatch", "ExecuteCommand", "Drop"}
BY DEF Chosen, Handlers

(* A TC interrupt that finds the task idle sets mask and state together and  *)
(* mails the word that starts a session.                                     *)
LEMMA ServiceMask ==
  ASSUME MaskInv, ~Preemptive, TC_InterruptService
  PROVE  /\ TC_TaskIdle
         /\ TM_mask' <=> TC_state' \in TelemetryStates
         /\ TC_state' \in TelemetryStates => TC_state' = TC_state \/ TC_mailbox' # <<>>
<1>1. /\ TM_mask \in BOOLEAN /\ TC_mailbox \in Seq(Mails)
      /\ TM_mask <=> TC_state \in TelemetryStates
  BY DEF MaskInv, TypeOK, LinkType, TaskType
<1>2. TC_TaskIdle
  BY DEF TC_InterruptService, TC_InterruptService_Early,
     TC_InterruptService_Block, TC_InterruptService_Invalid, SendStatusRegister,
     SendScienceDataFile, ReadDataMemory, TC_InterruptService_Refused,
     TC_InterruptService_Other, Accepted, Telecommand, Received, InterruptTaken
<1>3. ASSUME NEW w, Accepted(w) PROVE TC_mailbox' # <<>>
  <2>1. Len(TC_mailbox) < MailCapacity
    BY <1>2, TcTmAssumption DEF TC_TaskIdle
  <2>2. TC_mailbox' = Append(TC_mailbox, [word |-> w, from |-> "TC"])
    BY <1>3, <2>1 DEF Accepted, Send_ISR_Mail
  <2>3. QED BY <1>1, <2>2
<1>4. /\ StateAfterAbort \in TelemetryStates <=> MaskAfterAbort
      /\ StateAfterAbort \in TelemetryStates => StateAfterAbort = TC_state
      /\ MaskAfterAbort \in BOOLEAN
  BY <1>1 DEF StateAfterAbort, MaskAfterAbort, TelemetryStates
<1>5. ASSUME NEW w, TC_InterruptService_Refused(w)
      PROVE  TM_mask' <=> TC_state' \in TelemetryStates
  <2>1. TM_mask' = MaskAfterAbort
    BY <1>5 DEF TC_InterruptService_Refused
  <2>2. CASE TC_state' = StateAfterAbort
    BY <1>4, <2>1, <2>2
  <2>3. CASE TC_state' = "TC_handling_e"
    <3>1. TC_state \notin {"SC_TM_e", "memory_dump_e"}
      BY <1>5 DEF TC_InterruptService_Refused, Accepted, Telecommand, Received
    <3>2. QED BY <1>1, <2>1, <2>3, <3>1 DEF MaskAfterAbort, TelemetryStates
  <2>4. QED BY <1>5, <2>2, <2>3 DEF TC_InterruptService_Refused
<1>6. CASE TC_InterruptService_Early
  BY <1>1, <1>2, <1>6 DEF TC_InterruptService_Early, link
<1>7. ASSUME NEW w, TC_InterruptService_Block(w) \/ TC_InterruptService_Invalid(w)
      PROVE  /\ TM_mask' <=> TC_state' \in TelemetryStates
             /\ TC_state' \in TelemetryStates => TC_state' = TC_state
  BY <1>1, <1>4, <1>7 DEF TC_InterruptService_Block, TC_InterruptService_Invalid, link
<1>8. ASSUME NEW w, SendStatusRegister(w) \/ SendScienceDataFile(w) \/ ReadDataMemory(w)
      PROVE  (TM_mask' <=> TC_state' \in TelemetryStates) /\ Accepted(w)
  BY <1>8 DEF SendStatusRegister, SendScienceDataFile, ReadDataMemory, TelemetryStates
<1>9. ASSUME NEW w, TC_InterruptService_Other(w)
      PROVE  (TM_mask' <=> TC_state' \in TelemetryStates) /\ Accepted(w)
  BY <1>4, <1>9 DEF TC_InterruptService_Other
<1>10. QED
  BY <1>2, <1>3, <1>5, <1>6, <1>7, <1>8, <1>9
     DEF TC_InterruptService, TC_InterruptService_Refused

LEMMA MaskNext == MaskInv /\ ~Preemptive /\ TypeOK' /\ [Next]_vars => MaskInv'
<1> SUFFICES ASSUME MaskInv, ~Preemptive, TypeOK', [Next]_vars PROVE MaskInv'
  OBVIOUS
<1>1. /\ TypeOK /\ TM_mask \in BOOLEAN /\ TC_state \in DOMAIN Handlers
      /\ TC_mailbox \in Seq(Mails)
      /\ TM_mask <=> TC_state \in TelemetryStates
      /\ TC_pc \in Chosen => TC_pc = Handlers[TC_state]
      /\ TC_pc = "Ready" => TC_state \in {"SC_TM_e", "memory_dump_e"}
      /\ TC_pc \in {"Timeout", "TimeoutEnd"} => TC_state \notin TelemetryStates
      /\ TC_timeout /\ TC_mailbox = <<>> => TC_state \notin TelemetryStates
  BY DEF MaskInv, TypeOK, LinkType, TaskType
<1> USE ChosenHandlers
<1>2. CASE TC_InterruptService
  <2>1. TC_TaskIdle /\ TC_pc' = TC_pc /\ TC_timeout' = TC_timeout
    BY <1>2, ServiceMask, ServiceFrame DEF task
  <2>2. TC_pc' = "WaitMail"
    BY <2>1 DEF TC_TaskIdle
  <2>3. TC_timeout /\ TC_mailbox' = <<>> => TC_state' \notin TelemetryStates
    <3>1. TC_mailbox = <<>>
      BY <2>1 DEF TC_TaskIdle
    <3>2. QED BY <1>1, <1>2, <3>1, ServiceMask
  <2>4. QED BY <1>2, <2>1, <2>2, <2>3, ServiceMask DEF MaskInv
<1>3. CASE TM_InterruptService
  <2>1. UNCHANGED <<TC_state, TM_mask, TC_pc, TC_timeout>>
    BY <1>3 DEF TM_InterruptService, TM_InterruptService_Send, TM_InterruptService_Wrap,
       TM_InterruptService_Ready, TM_Frame, link, task
  <2>2. TC_mailbox' = <<>> => TC_mailbox = <<>>
    BY <1>1, <1>3 DEF TM_InterruptService, TM_InterruptService_Send, TM_InterruptService_Wrap,
       TM_InterruptService_Ready, Send_ISR_Mail
  <2>3. QED BY <1>1, <2>1, <2>2 DEF MaskInv
<1>4. CASE HandleTelecommand_Wait
  BY <1>1, <1>4 DEF HandleTelecommand_Wait, MaskInv, link
<1>5. CASE HandleTelecommand_Timeout
  BY <1>1, <1>5 DEF HandleTelecommand_Timeout, TC_TaskIdle, MaskInv, link
<1>6. CASE HandleTelecommand_TimeoutError
  BY <1>1, <1>6 DEF HandleTelecommand_TimeoutError, MaskInv, link
<1>7. CASE HandleTelecommand_TimeoutEnd
  BY <1>1, <1>7 DEF HandleTelecommand_TimeoutEnd, MaskInv, TelemetryStates
<1>8. CASE HandleTelecommand_Test
  BY <1>1, <1>8 DEF HandleTelecommand_Test, IsReady, MaskInv, link
<1>9. CASE HandleTelecommand_Switch
  <2>1. /\ TC_pc' = Handlers[TC_state]
        /\ UNCHANGED <<TC_state, TM_mask, TC_timeout, TC_mailbox>>
    BY <1>9 DEF HandleTelecommand_Switch, link
  <2>2. TC_pc' \in Chosen
    BY <1>1, <2>1 DEF Chosen
  <2>3. TC_pc' \notin {"Ready", "Timeout", "TimeoutEnd"}
    BY <2>2
  <2>4. QED BY <1>1, <2>1, <2>3 DEF MaskInv
<1>10. CASE HandleTelecommand_Ready
  BY <1>1, <1>10 DEF HandleTelecommand_Ready, Handled, MaskInv, TelemetryStates
<1>11. CASE HandleTelecommand_Drop
  BY <1>1, <1>11 DEF HandleTelecommand_Drop, Handled, MaskInv, link
<1>12. CASE HandleTelecommand_ReadMemory
  <2>1. TC_state = "read_memory_e"
    BY <1>1, <1>12 DEF HandleTelecommand_ReadMemory, Handled, Handlers
  <2>2. QED BY <1>1, <1>12, <2>1 DEF HandleTelecommand_ReadMemory, Handled, MaskInv, TelemetryStates
<1>13. CASE WriteMemory_Lsb \/ WriteMemory_Wrong
  <2>1. TC_state = "write_memory_e"
    BY <1>1, <1>13 DEF WriteMemory_Lsb, WriteMemory_Wrong, Handled, Handlers
  <2>2. QED
    BY <1>1, <1>13, <2>1 DEF WriteMemory_Lsb, WriteMemory_Wrong, Handled, MaskInv, TelemetryStates
<1>14. CASE MemoryPatch_Fill \/ MemoryPatch_Reject \/ MemoryPatch_Write
  <2>1. TC_state = "memory_patch_e"
    BY <1>1, <1>14 DEF MemoryPatch_Fill, MemoryPatch_Reject, MemoryPatch_Write, Handled, Handlers
  <2>2. QED
    BY <1>1, <1>14, <2>1 DEF MemoryPatch_Fill, MemoryPatch_Reject, MemoryPatch_Write, Handled,
       MaskInv, TelemetryStates, link
<1>15. CASE ExecuteCommand
  <2>1. TC_pc = "ExecuteCommand" /\ TC_pc' = "WaitMail" /\ TM_mask' = TM_mask
    BY <1>15 DEF ExecuteCommand, ExecuteCommand_ReadMsb, ExecuteCommand_WriteMsb,
       ExecuteCommand_Acquisition, ExecuteCommand_Error, ExecuteCommand_SetTime,
       ExecuteCommand_ErrorStatusClear, ExecuteCommand_Other, Execute, Handled, link
  <2>2. TC_state = "TC_handling_e"
    BY <1>1, <2>1 DEF Handlers
  <2>3. TC_state' \in {"TC_handling_e", "read_memory_e", "write_memory_e"}
    BY <1>15, <2>2 DEF ExecuteCommand, ExecuteCommand_ReadMsb, ExecuteCommand_WriteMsb,
       ExecuteCommand_Acquisition, ExecuteCommand_Error, ExecuteCommand_SetTime,
       ExecuteCommand_ErrorStatusClear, ExecuteCommand_Other, link
  <2>4. QED BY <1>1, <2>1, <2>2, <2>3 DEF MaskInv, TelemetryStates
<1>16. CASE SoftReset \/ WatchdogReset
  BY <1>16 DEF SoftReset, WatchdogReset, Restart, MaskInv, TelemetryStates
<1>17. CASE EnterStandBy \/ UNCHANGED vars
  BY <1>1, <1>17 DEF EnterStandBy, vars, link, task, MaskInv
<1>18. QED
  BY <1>2, <1>3, <1>4, <1>5, <1>6, <1>7, <1>8, <1>9, <1>10, <1>11, <1>12, <1>13, <1>14,
     <1>15, <1>16, <1>17 DEF Next, TC_Step

(* When handlers run to their end, a task that waits has left the TM         *)
(* interrupt enabled in a telemetry state and in no other, so no interrupt   *)
(* sends words of a session that is over (HandleTelecommand,                 *)
(* TC_InterruptService).                                                     *)
THEOREM MaskCorrect == ASSUME ~Preemptive PROVE Spec => []TMMaskMatchesState
<1>1. Init => MaskInv
  BY TypeInit, ChosenHandlers DEF Init, MaskInv, TelemetryStates
<1>2. MaskInv => TMMaskMatchesState
  BY DEF MaskInv, TMMaskMatchesState, TelemetryStates
<1>3. Spec => []TypeOK
  BY TypeCorrect, PTL
<1>4. MaskInv /\ TypeOK' /\ [Next]_vars => MaskInv'
  BY MaskNext
<1>5. QED BY <1>1, <1>2, <1>3, <1>4, PTL DEF Spec

----------------------------------------------------------------------------
(* The sessions of TmSession.  A session is as far as the word in the TM     *)
(* registers says, the pointer is one word further, and a TM_READY that the  *)
(* task has yet to handle belongs to the session that is open: with handlers *)
(* that run to their end the mailbox is empty when a session starts.         *)

FilePoints ==
  /\ tm_area = "science" /\ telemetry_end_pointer + 1 \in FileSizes
  /\ tm_word.area = "science" /\ Even(tm_word.offset)
  /\ telemetry_pointer = tm_word.offset + 2
  /\ telemetry_pointer <= telemetry_end_pointer + 1

DumpPoints ==
  /\ tm_area = "memory" /\ FirstRead \in 0..END_SRAM3 /\ InData(FirstRead)
  /\ \/ tm_word = Response /\ telemetry_pointer = FirstRead
     \/ /\ tm_word.area = "memory" /\ telemetry_pointer = tm_word.offset + 2
        /\ FirstRead <= tm_word.offset /\ Even(tm_word.offset - FirstRead)
        /\ telemetry_pointer <= telemetry_end_pointer
     \/ tm_word = Checksum /\ telemetry_pointer = telemetry_end_pointer

SessionPoints ==
  /\ TC_state = "SC_TM_e" => FilePoints
  /\ TC_state = "memory_dump_e" => DumpPoints

AllSent ==
  /\ telemetry_pointer >= telemetry_end_pointer
  /\ TC_state = "memory_dump_e" => tm_word = Checksum

NoReadyMail ==
  /\ TC_pc # "Ready"
  /\ TC_pc = "Mail" => TC_mail.word # TM_READY
  /\ TC_mailbox # <<>> => Head(TC_mailbox).word # TM_READY

ReadyInv ==
  /\ Len(TC_mailbox) <= 1
  /\ TC_pc # "WaitMail" => TC_mailbox = <<>>
  /\ TC_state \in {"SC_TM_e", "memory_dump_e"} => AllSent \/ NoReadyMail

(* No telecommand has the code of TM_READY. *)
LEMMA ReadyIsNoTelecommand == ASSUME NEW w, Valid(w) PROVE w # TM_READY
<1> SUFFICES ASSUME w = 65535 PROVE FALSE
  BY DEF TM_READY
<1>1. TC_ADDRESS(w) = 127 /\ TC_CODE(w) = 255
  BY DEF TC_ADDRESS, TC_CODE, LSB
<1>2. 127 \notin ALL_VALID /\ 127 \notin ONLY_EQUAL /\ 127 \notin SWITCH_SU
  BY DEF ALL_VALID, ONLY_EQUAL, SWITCH_SU, SET_TIME, SET_TIME_BYTE, SU_SETTINGS, COEFFICIENTS,
     WRITE_CODE_MEMORY_MSB, WRITE_CODE_MEMORY_LSB, WRITE_DATA_MEMORY_MSB, WRITE_DATA_MEMORY_LSB,
     READ_DATA_MEMORY_MSB, READ_DATA_MEMORY_LSB, START_ACQUISITION, STOP_ACQUISITION,
     ERROR_STATUS_CLEAR, SEND_SCIENCE_DATA_FILE, SOFT_RESET, CLEAR_FAILURES
<1>3. QED BY <1>1, <1>2 DEF Valid, SEND_STATUS_REGISTER

(* The first address of a dump, from its last. *)
LEMMA DumpRange ==
  ASSUME MEM_BUFFER_SIZE \in Nat \ {0}, NEW p \in Nat
  PROVE  /\ (p + MEM_BUFFER_SIZE) - MEM_BUFFER_SIZE = p
         /\ InData(p) => p \in 0..END_SRAM3
BY DEF InData, END_SRAM3

(* The pointers of a file or a dump, after every step. *)
LEMMA PointsNext ==
  ASSUME TmInv, SessionPoints, TypeOK', [Next]_vars
  PROVE  SessionPoints'
<1>1. /\ TypeOK /\ telemetry_pointer \in Nat /\ telemetry_end_pointer \in Nat
      /\ tm_word \in Words /\ tm_word.offset \in Nat
      /\ MEM_BUFFER_SIZE \in Nat \ {0} /\ Even(MEM_BUFFER_SIZE)
      /\ \A n \in FileSizes : n \in Nat /\ n >= 2 /\ Even(n)
  BY TcTmAssumption DEF TmInv, TypeOK, LinkType, Words
<1> USE DEF SessionPoints
\* No session, or register telemetry.
<1>2. ASSUME TC_state' \notin {"SC_TM_e", "memory_dump_e"} PROVE SessionPoints'
  BY <1>2
<1>3. StateAfterAbort = TC_state \/ StateAfterAbort = "TC_handling_e"
  BY DEF StateAfterAbort
<1>4. ASSUME NEW w \in Uplink,
             \/ TC_InterruptService_Invalid(w) \/ TC_InterruptService_Refused(w)
             \/ TC_InterruptService_Other(w)
      PROVE  SessionPoints'
  <2>1. /\ TC_state \notin {"SC_TM_e", "memory_dump_e"}
        /\ TC_state' = StateAfterAbort \/ TC_state' = "TC_handling_e"
    BY <1>4 DEF TC_InterruptService_Invalid, TC_InterruptService_Refused,
       TC_InterruptService_Other, Accepted, Telecommand, Received
  <2>2. QED BY <1>2, <1>3, <2>1
<1>5. ASSUME NEW w \in Uplink, SendStatusRegister(w) PROVE SessionPoints'
  BY <1>2, <1>5 DEF SendStatusRegister
<1>6. ASSUME NEW w \in Uplink, SendScienceDataFile(w) PROVE SessionPoints'
  <2>1. PICK n \in FileSizes : telemetry_end_pointer' = n - 1
    BY <1>6 DEF SendScienceDataFile
  <2>2. /\ tm_area' = "science" /\ telemetry_pointer' = 2
        /\ tm_word' = At("science", 0) /\ TC_state' = "SC_TM_e"
    BY <1>6 DEF SendScienceDataFile
  <2>3. FilePoints'
    BY <1>1, <2>1, <2>2 DEF FilePoints, At, Even
  <2>4. QED BY <2>2, <2>3
<1>7. ASSUME NEW w \in Uplink, ReadDataMemory(w) PROVE SessionPoints'
  <2>1. /\ tm_area' = "memory" /\ TC_state' = "memory_dump_e" /\ tm_word' = Response
        /\ telemetry_end_pointer' = telemetry_pointer' + MEM_BUFFER_SIZE
        /\ InData(telemetry_pointer')
    BY <1>7 DEF ReadDataMemory, CanRead
  <2>2. telemetry_pointer' \in Nat
    BY DEF TypeOK, LinkType
  <2> DEFINE p == telemetry_pointer'
  <2>3. FirstRead' = telemetry_pointer'
    <3>1. FirstRead' = (p + MEM_BUFFER_SIZE) - MEM_BUFFER_SIZE
      BY <2>1 DEF FirstRead
    <3>2. QED BY <1>1, <2>2, <3>1, DumpRange
  <2>4. telemetry_pointer' \in 0..END_SRAM3
    BY <1>1, <2>1, <2>2, DumpRange
  <2>5. DumpPoints'
    BY <2>1, <2>3, <2>4 DEF DumpPoints, InData
  <2>6. QED BY <2>1, <2>5
<1>8. CASE TM_InterruptService_Send
  <2>1. /\ tm_word' = At(tm_area, telemetry_pointer)
        /\ telemetry_pointer < telemetry_end_pointer
        /\ telemetry_pointer' = telemetry_pointer + 2
        /\ UNCHANGED <<tm_area, telemetry_end_pointer, TC_state>>
    BY <1>8 DEF TM_InterruptService_Send, TM_Frame, link
  <2>2. /\ tm_word'.area = tm_area /\ tm_word'.offset = telemetry_pointer
        /\ FirstRead' = FirstRead
    BY <2>1 DEF At, FirstRead
  <2>3. ASSUME FilePoints PROVE FilePoints'
    <3>1. telemetry_end_pointer + 1 \in FileSizes /\ Even(telemetry_end_pointer + 1)
      BY <1>1, <2>3 DEF FilePoints
    <3>2. QED BY <1>1, <2>1, <2>2, <2>3, <3>1 DEF FilePoints, Even
  <2>4. ASSUME DumpPoints PROVE DumpPoints'
    <3>1. /\ telemetry_end_pointer = FirstRead + MEM_BUFFER_SIZE
          /\ FirstRead \in Nat
      BY <1>1, <2>4 DEF DumpPoints, FirstRead
    <3>2. /\ telemetry_pointer \in Nat /\ FirstRead <= telemetry_pointer
          /\ Even(telemetry_pointer - FirstRead)
      BY <1>1, <2>1, <2>4, <3>1 DEF DumpPoints, Even
    <3>3. telemetry_pointer + 2 <= telemetry_end_pointer
      BY <1>1, <2>1, <3>1, <3>2 DEF Even
    <3>4. QED BY <2>1, <2>2, <2>4, <3>2, <3>3 DEF DumpPoints, InData
  <2>5. QED BY <2>1, <2>3, <2>4
<1>9. CASE TM_InterruptService_Wrap
  BY <1>2, <1>9 DEF TM_InterruptService_Wrap, TM_Frame, link
<1>10. CASE TM_InterruptService_Ready
  <2>1. /\ UNCHANGED <<tm_area, telemetry_pointer, telemetry_end_pointer, TC_state>>
        /\ tm_word' = IF TC_state = "memory_dump_e" THEN Checksum ELSE tm_word
        /\ telemetry_pointer >= telemetry_end_pointer
    BY <1>10 DEF TM_InterruptService_Ready, TM_Frame, link
  <2>2. FirstRead' = FirstRead
    BY <2>1 DEF FirstRead
  <2>3. TC_state = "SC_TM_e" => FilePoints'
    BY <2>1 DEF FilePoints
  <2>4. ASSUME DumpPoints PROVE telemetry_pointer = telemetry_end_pointer
    BY <1>1, <2>1, <2>4 DEF DumpPoints, FirstRead
  <2>5. TC_state = "memory_dump_e" => DumpPoints'
    BY <2>1, <2>2, <2>4 DEF DumpPoints, InData
  <2>6. QED BY <2>1, <2>3, <2>5
<1>11. CASE ~SessionSteps
  <2>1. /\ UNCHANGED <<tm_area, telemetry_pointer, telemetry_end_pointer, tm_word>>
        /\ TC_state' \in {"SC_TM_e", "memory_dump_e"} => TC_state' = TC_state
    BY <1>1, <1>11, SessionFrame DEF session
  <2>2. FirstRead' = FirstRead
    BY <2>1 DEF FirstRead
  <2>3. (FilePoints => FilePoints') /\ (DumpPoints => DumpPoints')
    BY <2>1, <2>2 DEF FilePoints, DumpPoints, InData
  <2>4. QED BY <2>1, <2>3
<1>12. QED
  BY <1>4, <1>5, <1>6, <1>7, <1>8, <1>9, <1>10, <1>11 DEF SessionSteps

(* A TM_READY is mailed when all is sent, to an empty mailbox, and no        *)
(* session starts before it is handled.                                      *)
LEMMA ReadyNext ==
  ASSUME MaskInv, ReadyInv, ~Preemptive, [Next]_vars
  PROVE  ReadyInv'
<1>1. /\ TypeOK /\ TC_mailbox \in Seq(Mails) /\ Len(TC_mailbox) <= 1
      /\ TC_pc # "WaitMail" => TC_mailbox = <<>>
      /\ TC_state \in {"SC_TM_e", "memory_dump_e"} => AllSent \/ NoReadyMail
  BY DEF MaskInv, ReadyInv, TypeOK, TaskType
<1>2. ASSUME TC_mailbox' = <<>>, TC_pc' \notin {"Ready", "Mail"} PROVE ReadyInv'
  BY <1>2 DEF ReadyInv, NoReadyMail
<1>3. CASE TC_InterruptService
  <2>1. TC_mailbox = <<>> /\ TC_pc = "WaitMail" /\ TC_pc' = "WaitMail"
    BY <1>3, ServiceMask, ServiceFrame DEF TC_TaskIdle, task
  <2>2. ASSUME NEW w, NEW sender, Send_ISR_Mail(w, sender)
        PROVE  TC_mailbox' # <<>> /\ Len(TC_mailbox') = 1 /\ Head(TC_mailbox').word = w
    <3>1. Len(TC_mailbox) < MailCapacity
      BY <2>1, TcTmAssumption
    <3>2. TC_mailbox' = <<[word |-> w, from |-> sender]>>
      BY <2>1, <2>2, <3>1 DEF Send_ISR_Mail
    <3>3. QED BY <3>2
  <2>3. CASE TC_InterruptService_Early
    BY <1>2, <2>1, <2>3 DEF TC_InterruptService_Early
  <2>4. ASSUME NEW w, TC_InterruptService_Block(w) PROVE ReadyInv'
    BY <2>1, <2>2, <2>4 DEF TC_InterruptService_Block, ReadyInv, link
  <2>5. ASSUME NEW w, TC_InterruptService_Invalid(w) PROVE ReadyInv'
    BY <1>2, <2>1, <2>5 DEF TC_InterruptService_Invalid
  <2>6. ASSUME NEW w, Accepted(w) PROVE ReadyInv'
    <3>1. w # TM_READY /\ Send_ISR_Mail(w, "TC")
      BY <2>6, ReadyIsNoTelecommand DEF Accepted
    <3>2. TC_mailbox' # <<>> /\ Len(TC_mailbox') = 1 /\ Head(TC_mailbox').word # TM_READY
      BY <2>2, <3>1
    <3>3. QED BY <2>1, <3>2 DEF ReadyInv, NoReadyMail
  <2>7. QED
    BY <1>3, <2>3, <2>4, <2>5, <2>6 DEF TC_InterruptService, SendStatusRegister,
       SendScienceDataFile, ReadDataMemory, TC_InterruptService_Refused, TC_InterruptService_Other
<1>4. CASE TM_InterruptService_Send \/ TM_InterruptService_Wrap
  BY <1>2, <1>4 DEF TM_InterruptService_Send, TM_InterruptService_Wrap, InterruptTaken,
     TC_TaskIdle, TM_Frame, task
<1>5. CASE TM_InterruptService_Ready
  <2>1. TC_mailbox = <<>> /\ TC_pc' = "WaitMail" /\ TC_state' = TC_state
    BY <1>5 DEF TM_InterruptService_Ready, InterruptTaken, TC_TaskIdle, TM_Frame, task, link
  <2>2. Len(TC_mailbox') = 1
    BY <1>5, <2>1, TcTmAssumption DEF TM_InterruptService_Ready, Send_ISR_Mail
  <2>3. AllSent'
    BY <1>5, <2>1 DEF TM_InterruptService_Ready, AllSent
  <2>4. QED BY <2>1, <2>2, <2>3 DEF ReadyInv
<1>6. ASSUME UNCHANGED <<TC_state, session>> PROVE AllSent' <=> AllSent
  BY <1>6 DEF AllSent, session
<1>7. CASE HandleTelecommand_Wait
  <2>1. /\ TC_pc = "WaitMail" /\ TC_pc' = "Mail" /\ TC_mailbox # <<>>
        /\ TC_mail' = Head(TC_mailbox) /\ TC_mailbox' = Tail(TC_mailbox)
        /\ UNCHANGED <<TC_state, session>>
    BY <1>7 DEF HandleTelecommand_Wait, TaskFrame, link
  <2>2. TC_mailbox' = <<>>
    BY <1>1, <2>1
  <2>3. NoReadyMail => NoReadyMail'
    BY <2>1, <2>2 DEF NoReadyMail
  <2>4. TC_state' \in {"SC_TM_e", "memory_dump_e"} => (AllSent \/ NoReadyMail)'
    BY <1>1, <1>6, <2>1, <2>3
  <2>5. QED BY <2>2, <2>4 DEF ReadyInv
<1>8. CASE HandleTelecommand_Test
  <2>1. /\ TC_pc = "Mail" /\ UNCHANGED <<TC_mailbox, TC_state, session>>
        /\ TC_pc' = IF IsReady THEN "Ready" ELSE "Switch"
    BY <1>8 DEF HandleTelecommand_Test, TaskFrame, link
  <2>2. TC_mailbox' = <<>>
    BY <1>1, <2>1
  <2>3. CASE IsReady
    <3>1. ~NoReadyMail /\ TC_pc' = "Ready"
      BY <2>1, <2>3 DEF IsReady, NoReadyMail
    <3>2. TC_state' \in {"SC_TM_e", "memory_dump_e"} => AllSent'
      BY <1>1, <1>6, <2>1, <3>1
    <3>3. QED BY <2>2, <3>2 DEF ReadyInv
  <2>4. CASE ~IsReady
    BY <1>2, <2>1, <2>2, <2>4
  <2>5. QED BY <2>3, <2>4
<1>9. CASE HandleTelecommand_Switch
  <2>1. TC_pc' = Handlers[TC_state] /\ TC_mailbox' = <<>>
    BY <1>1, <1>9 DEF HandleTelecommand_Switch
  <2>2. TC_pc' \in Chosen
    BY <1>1, <2>1 DEF TypeOK, LinkType, Chosen
  <2>3. QED BY <1>2, <2>1, <2>2, ChosenHandlers
<1>10. CASE \/ HandleTelecommand_Timeout \/ HandleTelecommand_TimeoutError
            \/ HandleTelecommand_TimeoutEnd \/ HandleTelecommand_Ready
            \/ HandleTelecommand_Drop \/ HandleTelecommand_ReadMemory
            \/ WriteMemory_Lsb \/ WriteMemory_Wrong
            \/ MemoryPatch_Fill \/ MemoryPatch_Reject \/ MemoryPatch_Write
  BY <1>1, <1>2, <1>10 DEF HandleTelecommand_Timeout, TC_TaskIdle, HandleTelecommand_TimeoutError,
     HandleTelecommand_TimeoutEnd, HandleTelecommand_Ready, HandleTelecommand_Drop,
     HandleTelecommand_ReadMemory, WriteMemory_Lsb, WriteMemory_Wrong, MemoryPatch_Fill,
     MemoryPatch_Reject, MemoryPatch_Write, Handled
<1>11. CASE ExecuteCommand
  BY <1>1, <1>2, <1>11 DEF ExecuteCommand, ExecuteCommand_ReadMsb, ExecuteCommand_WriteMsb,
     ExecuteCommand_Acquisition, ExecuteCommand_Error, ExecuteCommand_SetTime,
     ExecuteCommand_ErrorStatusClear, ExecuteCommand_Other, Execute, Handled
<1>12. CASE SoftReset \/ WatchdogReset
  BY <1>2, <1>12 DEF SoftReset, WatchdogReset, Restart
<1>13. CASE EnterStandBy
  BY <1>2, <1>13 DEF EnterStandBy, TC_TaskIdle, task
<1>14. CASE UNCHANGED vars
  <2>1. UNCHANGED <<TC_mailbox, TC_pc, TC_mail, TC_state, session>>
    BY <1>14 DEF vars, task, link
  <2>2. NoReadyMail' <=> NoReadyMail
    BY <2>1 DEF NoReadyMail
  <2>3. QED BY <1>1, <1>6, <2>1, <2>2 DEF ReadyInv
<1>15. QED
  BY <1>3, <1>4, <1>5, <1>7, <1>8, <1>9, <1>10, <1>11, <1>12, <1>13, <1>14
     DEF Next, TC_Step, TM_InterruptService

(* The plans, word by word. *)
LEMMA Half == ASSUME NEW n \in Nat, Even(n) PROVE n \div 2 \in Nat /\ 2 * (n \div 2) = n
BY SMTT(60) DEF Even

LEMMA FromWords ==
  ASSUME NEW area \in Areas, NEW first \in Nat, NEW count \in Nat
  PROVE  /\ From(area, first, count) \in Seq(Words)
         /\ Len(From(area, first, count)) = count
         /\ \A i \in 1..count : From(area, first, count)[i] = At(area, first + 2 * (i - 1))
<1> DEFINE s == From(area, first, count)
<1>1. s = [i \in 1..count |-> At(area, first + 2 * (i - 1))]
  BY DEF From
<1>2. \A i \in 1..count : At(area, first + 2 * (i - 1)) \in Words
  BY DEF At, Words
<1>3. s \in [1..count -> Words]
  BY <1>1, <1>2
<1>4. s \in Seq(Words)
  BY <1>3
<1>5. Len(s) = count
  BY <1>3, <1>4, LenProperties
<1>6. \A i \in 1..count : s[i] = At(area, first + 2 * (i - 1))
  BY <1>1
<1>7. QED BY <1>4, <1>5, <1>6

LEMMA RegisterWords ==
  /\ Len(RegisterPlan) = LAST_EVEN \div 2 + 1
  /\ \A i \in 1..Len(RegisterPlan) : RegisterPlan[i] = At("registers", 2 * (i - 1))
<1>1. LAST_EVEN \div 2 \in Nat
  BY Half, TcTmAssumption
<1>2. "registers" \in Areas /\ LAST_EVEN \div 2 + 1 \in Nat /\ 0 \in Nat
  BY <1>1 DEF Areas
<1>3. /\ Len(RegisterPlan) = LAST_EVEN \div 2 + 1
      /\ \A i \in 1..(LAST_EVEN \div 2 + 1) : RegisterPlan[i] = At("registers", 0 + 2 * (i - 1))
  BY <1>2, FromWords DEF RegisterPlan
<1>4. \A i \in 1..(LAST_EVEN \div 2 + 1) : 0 + 2 * (i - 1) = 2 * (i - 1)
  BY <1>1
<1>5. QED BY <1>3, <1>4

LEMMA ScienceWords ==
  ASSUME NEW n \in FileSizes
  PROVE  /\ Len(SciencePlan(n)) = n \div 2 /\ n \div 2 \in Nat \ {0} /\ 2 * (n \div 2) = n
         /\ \A i \in 1..(n \div 2) : SciencePlan(n)[i] = At("science", 2 * (i - 1))
<1>1. n \in Nat /\ n >= 2 /\ Even(n)
  BY TcTmAssumption
<1>2. n \div 2 \in Nat /\ 2 * (n \div 2) = n
  BY <1>1, Half
<1>3. n \div 2 # 0
  BY <1>1, <1>2
<1>4. "science" \in Areas /\ 0 \in Nat
  BY DEF Areas
<1>5. /\ Len(SciencePlan(n)) = n \div 2
      /\ \A i \in 1..(n \div 2) : SciencePlan(n)[i] = At("science", 0 + 2 * (i - 1))
  BY <1>2, <1>4, FromWords DEF SciencePlan
<1>6. \A i \in 1..(n \div 2) : 0 + 2 * (i - 1) = 2 * (i - 1)
  BY <1>2
<1>7. QED BY <1>2, <1>3, <1>5, <1>6

LEMMA DumpWords ==
  ASSUME NEW first \in Nat, NEW half, half = MEM_BUFFER_SIZE \div 2
  PROVE  /\ half \in Nat \ {0} /\ 2 * half = MEM_BUFFER_SIZE
         /\ Len(DumpPlan(first)) = half + 2
         /\ DumpPlan(first)[1] = Response
         /\ \A i \in 2..(half + 1) : DumpPlan(first)[i] = At("memory", first + 2 * (i - 2))
         /\ DumpPlan(first)[half + 2] = Checksum
<1>1. half \in Nat /\ 2 * half = MEM_BUFFER_SIZE /\ half # 0
  <2>1. MEM_BUFFER_SIZE \in Nat /\ MEM_BUFFER_SIZE # 0 /\ Even(MEM_BUFFER_SIZE)
    BY TcTmAssumption
  <2>2. half \in Nat /\ 2 * half = MEM_BUFFER_SIZE
    BY <2>1, Half
  <2>3. QED BY <2>1, <2>2
<1> DEFINE head == <<Response>>
           body == From("memory", first, half)
           last == <<Checksum>>
<1>2. /\ body \in Seq(Words) /\ Len(body) = half
      /\ \A i \in 1..half : body[i] = At("memory", first + 2 * (i - 1))
  BY <1>1, FromWords DEF Areas
<1>3. Response \in Words /\ Checksum \in Words
  BY DEF Response, Checksum, At, Words
<1>4. head \in Seq(Words) /\ last \in Seq(Words) /\ Len(head) = 1 /\ Len(last) = 1
  BY <1>3
<1> HIDE DEF body
<1>5. /\ head \o body \in Seq(Words) /\ Len(head \o body) = half + 1
      /\ (head \o body)[1] = Response
      /\ \A i \in 2..(half + 1) : (head \o body)[i] = body[i - 1]
  BY <1>1, <1>2, <1>4
<1> DEFINE front == head \o body
<1>6. DumpPlan(first) = front \o last
  BY <1>1 DEF DumpPlan, body
<1> HIDE DEF front
<1>7. /\ Len(front \o last) = half + 2
      /\ \A i \in 1..(half + 1) : (front \o last)[i] = front[i]
      /\ (front \o last)[half + 2] = Checksum
  BY <1>1, <1>4, <1>5 DEF front
<1>8. \A i \in 2..(half + 1) : (front \o last)[i] = At("memory", first + 2 * (i - 2))
  <2>1. TAKE i \in 2..(half + 1)
  <2>2. i - 1 \in 1..half /\ i \in 1..(half + 1) /\ (i - 1) - 1 = i - 2
    BY <1>1
  <2>3. (front \o last)[i] = body[i - 1]
    BY <1>5, <1>7, <2>2 DEF front
  <2>4. body[i - 1] = At("memory", first + 2 * ((i - 1) - 1))
    BY <1>2, <2>2
  <2>5. QED BY <2>2, <2>3, <2>4
<1>9. (front \o last)[1] = Response
  BY <1>1, <1>5, <1>7 DEF front
<1>10. QED BY <1>1, <1>6, <1>7, <1>8, <1>9

LEMMA RegisterIndex ==
  ASSUME NEW n \in Nat, Even(n), n <= LAST_EVEN
  PROVE  /\ n \div 2 + 1 \in 1..Len(RegisterPlan) /\ n = 2 * (n \div 2)
         /\ n < LAST_EVEN <=> n \div 2 + 1 < Len(RegisterPlan)
         /\ At("registers", n) = RegisterPlan[n \div 2 + 1]
         /\ \E i \in DOMAIN RegisterPlan : At("registers", n) = RegisterPlan[i]
<1> DEFINE h == n \div 2
           last == LAST_EVEN \div 2
<1>1. /\ h \in Nat /\ n = 2 * h /\ last \in Nat /\ LAST_EVEN = 2 * last
  BY Half, TcTmAssumption
<1>2. /\ Len(RegisterPlan) = last + 1
      /\ \A i \in 1..Len(RegisterPlan) : RegisterPlan[i] = At("registers", 2 * (i - 1))
  BY RegisterWords
<1>3. DOMAIN RegisterPlan = 1..(last + 1)
  BY DEF RegisterPlan, From
<1> HIDE DEF h, last
<1>4. h <= last /\ h + 1 \in 1..(last + 1) /\ (h + 1) - 1 = h /\ (n < LAST_EVEN <=> h < last)
  BY <1>1, TcTmAssumption
<1>5. RegisterPlan[h + 1] = At("registers", n)
  BY <1>1, <1>2, <1>4
<1>6. h + 1 < Len(RegisterPlan) <=> h < last
  BY <1>1, <1>2
<1>7. QED BY <1>1, <1>2, <1>3, <1>4, <1>5, <1>6 DEF h

(* The mapping, before and after a step. *)
LEMMA Mapped ==
  /\ TC_state \notin TelemetryStates => Kind = "idle" /\ Plan = <<>> /\ LastWord = Response
  /\ TC_state = "register_TM_e" => Kind = "registers" /\ Plan = RegisterPlan /\ LastWord = tm_word
  /\ TC_state = "SC_TM_e" =>
       Kind = "science" /\ Plan = SciencePlan(telemetry_end_pointer + 1) /\ LastWord = tm_word
  /\ TC_state = "memory_dump_e" =>
       Kind = "dump" /\ Plan = DumpPlan(FirstRead) /\ LastWord = tm_word
BY DEF Kind, InSession, Plan, LastWord, TelemetryStates

LEMMA MappedNext ==
  /\ TC_state' \notin TelemetryStates => Kind' = "idle" /\ Plan' = <<>> /\ LastWord' = Response
  /\ TC_state' = "register_TM_e" =>
       Kind' = "registers" /\ Plan' = RegisterPlan /\ LastWord' = tm_word'
  /\ TC_state' = "SC_TM_e" =>
       Kind' = "science" /\ Plan' = SciencePlan(telemetry_end_pointer' + 1) /\ LastWord' = tm_word'
  /\ TC_state' = "memory_dump_e" =>
       Kind' = "dump" /\ Plan' = DumpPlan(FirstRead') /\ LastWord' = tm_word'
<1>1. /\ TC_state' \notin TelemetryStates => Kind' = "idle"
      /\ TC_state' = "register_TM_e" => Kind' = "registers"
      /\ TC_state' = "SC_TM_e" => Kind' = "science"
      /\ TC_state' = "memory_dump_e" => Kind' = "dump"
  BY DEF Kind, InSession, TelemetryStates
<1>2. /\ Kind' = "idle" => Plan' = <<>> /\ LastWord' = Response
      /\ Kind' = "registers" => Plan' = RegisterPlan /\ LastWord' = tm_word'
      /\ Kind' = "science" =>
           Plan' = SciencePlan(telemetry_end_pointer' + 1) /\ LastWord' = tm_word'
      /\ Kind' = "dump" => Plan' = DumpPlan(FirstRead') /\ LastWord' = tm_word'
  BY DEF Plan, LastWord
<1>3. QED BY <1>1, <1>2

(* Steps that TmSession does not see. *)
LEMMA SessionStutters ==
  /\ TC_state \notin TelemetryStates /\ TC_state' \notin TelemetryStates => UNCHANGED TM!vars
  /\ TC_state' = TC_state /\ UNCHANGED session => UNCHANGED TM!vars
<1>1. ASSUME TC_state \notin TelemetryStates, TC_state' \notin TelemetryStates
      PROVE  UNCHANGED TM!vars
  BY <1>1, Mapped, MappedNext DEF TM!vars
<1>2. ASSUME TC_state' = TC_state, UNCHANGED session PROVE UNCHANGED TM!vars
  <2>1. /\ telemetry_end_pointer' = telemetry_end_pointer /\ tm_word' = tm_word
        /\ FirstRead' = FirstRead
    BY <1>2 DEF session, FirstRead
  <2>2. TC_state \in TelemetryStates =>
          TC_state \in {"register_TM_e", "SC_TM_e", "memory_dump_e"}
    BY DEF TelemetryStates
  <2>3. QED BY <1>2, <2>1, <2>2, Mapped, MappedNext DEF TM!vars
<1>3. QED BY <1>1, <1>2

(* A session starts with the first word of its plan, the registers with any. *)
LEMMA SessionStarts ==
  ASSUME TypeOK, TypeOK', NEW w \in Uplink,
         SendStatusRegister(w) \/ SendScienceDataFile(w) \/ ReadDataMemory(w)
  PROVE  TM!Next
<1>1. Kind \in {"idle", "registers"}
  <2>1. TC_state \notin {"SC_TM_e", "memory_dump_e"}
    BY DEF SendStatusRegister, SendScienceDataFile, ReadDataMemory, Accepted, Telecommand, Received
  <2>2. QED BY <2>1, Mapped DEF TelemetryStates
<1>2. CASE SendStatusRegister(w)
  <2>1. TC_CODE(w) \in Nat /\ Even(TC_CODE(w)) /\ TC_CODE(w) <= LAST_EVEN
    BY <1>2, StatusCode
  <2>2. Kind' = "registers" /\ Plan' = RegisterPlan /\ LastWord' = At("registers", TC_CODE(w))
    BY <1>2, MappedNext DEF SendStatusRegister
  <2>3. PICK i \in DOMAIN RegisterPlan : At("registers", TC_CODE(w)) = RegisterPlan[i]
    BY <2>1, RegisterIndex
  <2>4. TM!Start("registers")
    BY <1>1, <2>2, <2>3 DEF TM!Start
  <2>5. QED BY <2>4 DEF TM!Next, TM!Kinds
<1>3. CASE SendScienceDataFile(w)
  <2>1. PICK n \in FileSizes : telemetry_end_pointer' = n - 1
    BY <1>3 DEF SendScienceDataFile
  <2>2. telemetry_end_pointer' + 1 = n
    BY <2>1, TcTmAssumption
  <2>3. Kind' = "science" /\ Plan' = SciencePlan(n) /\ LastWord' = At("science", 0)
    BY <1>3, <2>2, MappedNext DEF SendScienceDataFile
  <2>4. SciencePlan(n)[1] = At("science", 0)
    <3>1. 1 \in 1..(n \div 2) /\ 2 * (1 - 1) = 0
      BY ScienceWords
    <3>2. QED BY <3>1, ScienceWords
  <2>5. SciencePlan(n) \in SciencePlans
    BY DEF SciencePlans
  <2>6. TM!Start("science")
    BY <1>1, <2>3, <2>4, <2>5 DEF TM!Start
  <2>7. QED BY <2>6 DEF TM!Next, TM!Kinds
<1>4. CASE ReadDataMemory(w)
  <2>1. /\ telemetry_end_pointer' = telemetry_pointer' + MEM_BUFFER_SIZE
        /\ tm_word' = Response /\ InData(telemetry_pointer') /\ TC_state' = "memory_dump_e"
    BY <1>4 DEF ReadDataMemory, CanRead
  <2>2. telemetry_pointer' \in Nat
    BY DEF TypeOK, LinkType
  <2> DEFINE p == telemetry_pointer'
  <2>3. FirstRead' = p
    <3>1. FirstRead' = (p + MEM_BUFFER_SIZE) - MEM_BUFFER_SIZE
      BY <2>1 DEF FirstRead
    <3>2. QED BY <2>2, <3>1, DumpRange, TcTmAssumption
  <2>4. p \in {b \in 0..END_SRAM3 : InData(b)}
    BY <2>1, <2>2, DumpRange, TcTmAssumption
  <2>5. Kind' = "dump" /\ Plan' = DumpPlan(p) /\ LastWord' = Response
    BY <2>1, <2>3, MappedNext
  <2>6. DumpPlan(p)[1] = Response
    BY <2>2, DumpWords
  <2>7. DumpPlan(p) \in DumpPlans
    BY <2>4 DEF DumpPlans
  <2>8. TM!Start("dump")
    <3> HIDE DEF p
    <3>1. QED BY <1>1, <2>5, <2>6, <2>7 DEF TM!Start
  <2>9. QED BY <2>8 DEF TM!Next, TM!Kinds
<1>5. QED BY <1>2, <1>3, <1>4

(* Neighbours in a plan. *)
LEMMA RegisterNeighbours ==
  ASSUME NEW n \in Nat, Even(n), n <= LAST_EVEN
  PROVE  /\ n < LAST_EVEN =>
              \E i \in 1..(Len(RegisterPlan) - 1) :
                 At("registers", n) = RegisterPlan[i] /\ At("registers", n + 2) = RegisterPlan[i + 1]
         /\ n = LAST_EVEN => At("registers", n) = RegisterPlan[Len(RegisterPlan)]
         /\ At("registers", 0) = RegisterPlan[1]
<1> DEFINE h == n \div 2
           len == Len(RegisterPlan)
<1>1. /\ h + 1 \in 1..len /\ n = 2 * h /\ (n < LAST_EVEN <=> h + 1 < len)
      /\ At("registers", n) = RegisterPlan[h + 1]
  BY RegisterIndex
<1>2. h \in Nat
  BY Half
<1>3. len = LAST_EVEN \div 2 + 1 /\ \A i \in 1..len : RegisterPlan[i] = At("registers", 2 * (i - 1))
  BY RegisterWords
<1>4. len \in Nat \ {0}
  BY <1>3, Half, TcTmAssumption
<1> HIDE DEF h, len
<1>5. ASSUME n < LAST_EVEN
      PROVE  \E i \in 1..(len - 1) :
               At("registers", n) = RegisterPlan[i] /\ At("registers", n + 2) = RegisterPlan[i + 1]
  <2>1. h + 1 \in 1..(len - 1) /\ (h + 1) + 1 \in 1..len
    BY <1>1, <1>2, <1>4, <1>5
  <2>2. 2 * (((h + 1) + 1) - 1) = n + 2
    BY <1>1, <1>2
  <2>3. RegisterPlan[(h + 1) + 1] = At("registers", n + 2)
    BY <1>3, <2>1, <2>2
  <2>4. QED BY <1>1, <2>1, <2>3
<1>6. ASSUME n = LAST_EVEN PROVE At("registers", n) = RegisterPlan[len]
  <2>1. h + 1 = len
    BY <1>1, <1>2, <1>4, <1>6
  <2>2. QED BY <1>1, <2>1
<1>7. At("registers", 0) = RegisterPlan[1]
  <2>1. 1 \in 1..len /\ 2 * (1 - 1) = 0
    BY <1>4
  <2>2. QED BY <1>3, <2>1
<1>8. QED BY <1>5, <1>6, <1>7 DEF len

LEMMA ScienceNeighbours ==
  ASSUME NEW n \in FileSizes, NEW o \in Nat, Even(o), o + 2 <= n
  PROVE  /\ o + 2 < n - 1 =>
              \E i \in 1..(Len(SciencePlan(n)) - 1) :
                 At("science", o) = SciencePlan(n)[i] /\ At("science", o + 2) = SciencePlan(n)[i + 1]
         /\ o + 2 >= n - 1 => At("science", o) = SciencePlan(n)[Len(SciencePlan(n))]
<1> DEFINE half == n \div 2
           h    == o \div 2
           plan == SciencePlan(n)
<1>1. /\ Len(plan) = half /\ half \in Nat \ {0} /\ 2 * half = n
      /\ \A i \in 1..half : plan[i] = At("science", 2 * (i - 1))
  BY ScienceWords
<1>2. h \in Nat /\ 2 * h = o
  BY Half
<1> HIDE DEF half, h, plan
<1>3. h + 1 \in 1..half /\ 2 * ((h + 1) - 1) = o
  BY <1>1, <1>2
<1>4. plan[h + 1] = At("science", o)
  BY <1>1, <1>3
<1>5. ASSUME o + 2 < n - 1
      PROVE  \E i \in 1..(Len(plan) - 1) :
               At("science", o) = plan[i] /\ At("science", o + 2) = plan[i + 1]
  <2>1. h + 1 \in 1..(half - 1) /\ (h + 1) + 1 \in 1..half /\ 2 * (((h + 1) + 1) - 1) = o + 2
    BY <1>1, <1>2, <1>5
  <2>2. plan[(h + 1) + 1] = At("science", o + 2)
    BY <1>1, <2>1
  <2>3. QED BY <1>1, <1>4, <2>1, <2>2
<1>6. ASSUME o + 2 >= n - 1 PROVE At("science", o) = plan[Len(plan)]
  <2>1. h + 1 = half
    BY <1>1, <1>2, <1>3, <1>6
  <2>2. QED BY <1>1, <1>4, <2>1
<1>7. QED BY <1>5, <1>6 DEF plan

LEMMA DumpNeighbours ==
  ASSUME NEW first \in Nat
  PROVE  /\ \E i \in 1..(Len(DumpPlan(first)) - 1) :
              Response = DumpPlan(first)[i] /\ At("memory", first) = DumpPlan(first)[i + 1]
         /\ \A o \in Nat : first <= o /\ Even(o - first) /\ o + 2 < first + MEM_BUFFER_SIZE =>
              \E i \in 1..(Len(DumpPlan(first)) - 1) :
                 At("memory", o) = DumpPlan(first)[i] /\ At("memory", o + 2) = DumpPlan(first)[i + 1]
         /\ \A o \in Nat : o + 2 = first + MEM_BUFFER_SIZE =>
              \E i \in 1..(Len(DumpPlan(first)) - 1) :
                 At("memory", o) = DumpPlan(first)[i] /\ Checksum = DumpPlan(first)[i + 1]
         /\ DumpPlan(first)[Len(DumpPlan(first))] = Checksum
<1> DEFINE half == MEM_BUFFER_SIZE \div 2
           plan == DumpPlan(first)
<1>1. /\ half \in Nat \ {0} /\ 2 * half = MEM_BUFFER_SIZE /\ Len(plan) = half + 2
      /\ plan[1] = Response /\ plan[half + 2] = Checksum
      /\ \A i \in 2..(half + 1) : plan[i] = At("memory", first + 2 * (i - 2))
  BY DumpWords
<1> HIDE DEF half, plan
<1>2. \E i \in 1..(Len(plan) - 1) : Response = plan[i] /\ At("memory", first) = plan[i + 1]
  <2>1. 1 \in 1..(Len(plan) - 1) /\ 1 + 1 \in 2..(half + 1) /\ first + 2 * ((1 + 1) - 2) = first
    BY <1>1
  <2>2. plan[1 + 1] = At("memory", first)
    BY <1>1, <2>1
  <2>3. QED BY <1>1, <2>1, <2>2
<1>3. ASSUME NEW o \in Nat, first <= o, Even(o - first), o + 2 < first + MEM_BUFFER_SIZE
      PROVE  \E i \in 1..(Len(plan) - 1) : At("memory", o) = plan[i] /\ At("memory", o + 2) = plan[i + 1]
  <2> DEFINE k == (o - first) \div 2
  <2>1. k \in Nat /\ 2 * k = o - first
    BY <1>3, Half
  <2> HIDE DEF k
  <2>2. /\ k + 2 \in 1..(Len(plan) - 1) /\ k + 2 \in 2..(half + 1) /\ (k + 2) + 1 \in 2..(half + 1)
        /\ first + 2 * ((k + 2) - 2) = o /\ first + 2 * (((k + 2) + 1) - 2) = o + 2
    BY <1>1, <1>3, <2>1
  <2>3. plan[k + 2] = At("memory", o) /\ plan[(k + 2) + 1] = At("memory", o + 2)
    BY <1>1, <2>2
  <2>4. QED BY <2>2, <2>3
<1>4. ASSUME NEW o \in Nat, o + 2 = first + MEM_BUFFER_SIZE
      PROVE  \E i \in 1..(Len(plan) - 1) : At("memory", o) = plan[i] /\ Checksum = plan[i + 1]
  <2>1. /\ half + 1 \in 1..(Len(plan) - 1) /\ half + 1 \in 2..(half + 1)
        /\ first + 2 * ((half + 1) - 2) = o /\ (half + 1) + 1 = half + 2
    BY <1>1, <1>4
  <2>2. plan[half + 1] = At("memory", o)
    BY <1>1, <2>1
  <2>3. QED BY <1>1, <2>1, <2>2
<1>5. plan[Len(plan)] = Checksum
  BY <1>1
<1>6. QED BY <1>2, <1>3, <1>4, <1>5 DEF plan

LEMMA WordIs ==
  ASSUME NEW word \in Words PROVE word = At(word.area, word.offset) /\ word.offset \in Nat
BY DEF Words, At

(* A TM interrupt sends the next word, wraps round in the registers, or      *)
(* repeats TM_READY.                                                         *)
LEMMA TransmissionSteps ==
  ASSUME MaskInv, TmInv, SessionPoints, [Next]_vars, TM_InterruptService
  PROVE  TM!Next \/ UNCHANGED TM!vars
<1>1. /\ TypeOK /\ tm_word \in Words /\ telemetry_pointer \in Nat /\ telemetry_end_pointer \in Nat
      /\ TCs \in Nat /\ LAST_EVEN \in Nat /\ Even(LAST_EVEN)
      /\ MEM_BUFFER_SIZE \in Nat \ {0} /\ Even(MEM_BUFFER_SIZE)
  BY TcTmAssumption DEF TmInv, TypeOK, LinkType, HistoryType
<1>2. /\ TM_mask /\ UNCHANGED <<TC_state, TCs, telemetry_end_pointer>>
      /\ \/ TM_InterruptService_Send /\ telemetry_pointer < telemetry_end_pointer
            /\ tm_word' = At(tm_area, telemetry_pointer)
         \/ TM_InterruptService_Wrap /\ TC_state = "register_TM_e"
         \/ TM_InterruptService_Ready /\ TC_state # "register_TM_e"
            /\ telemetry_pointer >= telemetry_end_pointer
            /\ UNCHANGED <<tm_area, telemetry_pointer>>
            /\ tm_word' = IF TC_state = "memory_dump_e" THEN Checksum ELSE tm_word
  BY DEF TM_InterruptService, TM_InterruptService_Send, TM_InterruptService_Wrap,
     TM_InterruptService_Ready, TM_Frame, link, bounds
<1>3. TC_state \in {"register_TM_e", "SC_TM_e", "memory_dump_e"}
  BY <1>2 DEF MaskInv, TelemetryStates
<1>4. tm_word = At(tm_word.area, tm_word.offset) /\ tm_word.offset \in Nat
  BY <1>1, WordIs
<1>5. FirstRead' = FirstRead
  BY <1>2 DEF FirstRead
<1> DEFINE o == tm_word.offset
<1>6. CASE TC_state = "register_TM_e"
  <2>1. /\ tm_word = At("registers", o) /\ Even(o) /\ o <= LAST_EVEN
    BY <1>4, <1>6 DEF TmInv, RegisterInv, PointerInArea
  <2>2. /\ Kind = "registers" /\ Plan = RegisterPlan /\ LastWord = At("registers", o)
        /\ Kind' = Kind /\ Plan' = Plan /\ LastWord' = tm_word'
    BY <1>2, <1>6, <2>1, Mapped, MappedNext
  <2>3. CASE tm_word' = tm_word
    BY <2>1, <2>2, <2>3 DEF TM!vars
  <2>4. CASE tm_word' # tm_word
    <3>1. tm_word' = At("registers", NextRegister(o))
      BY <1>2, <1>6, <2>4, CycleNext DEF RegistersCycleStep
    <3>2. CASE o = LAST_EVEN
      <4>1. tm_word' = RegisterPlan[1] /\ LastWord = RegisterPlan[Len(RegisterPlan)]
        BY <1>4, <2>1, <2>2, <3>1, <3>2, RegisterNeighbours DEF NextRegister
      <4>2. TM!Wrap
        BY <2>2, <4>1 DEF TM!Wrap
      <4>3. QED BY <4>2 DEF TM!Next
    <3>3. CASE o < LAST_EVEN
      <4>1. tm_word' = At("registers", o + 2)
        BY <1>1, <1>4, <3>1, <3>3 DEF NextRegister
      <4>2. \E i \in 1..(Len(RegisterPlan) - 1) :
               At("registers", o) = RegisterPlan[i] /\ At("registers", o + 2) = RegisterPlan[i + 1]
        BY <1>4, <2>1, <3>3, RegisterNeighbours
      <4>3. TM!Send
        BY <2>2, <4>1, <4>2 DEF TM!Send
      <4>4. QED BY <4>3 DEF TM!Next
    <3>4. QED
      <4> HIDE DEF o
      <4>1. QED BY <1>1, <1>4, <2>1, <3>2, <3>3 DEF o
  <2>5. QED BY <2>3, <2>4
<1>7. CASE TC_state = "SC_TM_e"
  <2> DEFINE n == telemetry_end_pointer + 1
  <2>1. /\ n \in FileSizes /\ tm_area = "science" /\ tm_word = At("science", o) /\ Even(o)
        /\ telemetry_pointer = o + 2 /\ o + 2 <= n
    BY <1>4, <1>7 DEF SessionPoints, FilePoints
  <2>2. /\ Kind = "science" /\ Plan = SciencePlan(n) /\ LastWord = At("science", o)
        /\ Kind' = Kind /\ Plan' = Plan /\ LastWord' = tm_word'
    BY <1>2, <1>7, <2>1, Mapped, MappedNext
  <2>3. CASE TM_InterruptService_Send
    <3>1. tm_word' = At("science", o + 2) /\ o + 2 < telemetry_end_pointer
      BY <2>1, <2>3 DEF TM_InterruptService_Send
    <3>2. o + 2 < n - 1
      BY <1>1, <3>1
    <3>3. \E i \in 1..(Len(SciencePlan(n)) - 1) :
             At("science", o) = SciencePlan(n)[i] /\ At("science", o + 2) = SciencePlan(n)[i + 1]
      BY <1>4, <2>1, <3>2, ScienceNeighbours
    <3>4. TM!Send
      BY <2>2, <3>1, <3>3 DEF TM!Send
    <3>5. QED BY <3>4 DEF TM!Next
  <2>4. CASE ~TM_InterruptService_Send
    <3>1. tm_word' = tm_word
      BY <1>2, <1>7, <2>4
    <3>2. QED BY <2>1, <2>2, <3>1 DEF TM!vars
  <2>5. QED BY <2>3, <2>4
<1>8. CASE TC_state = "memory_dump_e"
  <2> DEFINE f == FirstRead
  <2>1. /\ tm_area = "memory" /\ f \in Nat /\ telemetry_end_pointer = f + MEM_BUFFER_SIZE
        /\ \/ tm_word = Response /\ telemetry_pointer = f
           \/ /\ tm_word = At("memory", o) /\ telemetry_pointer = o + 2
              /\ f <= o /\ Even(o - f) /\ o + 2 <= f + MEM_BUFFER_SIZE
           \/ tm_word = Checksum /\ telemetry_pointer = f + MEM_BUFFER_SIZE
    <3>1. DumpPoints
      BY <1>8 DEF SessionPoints
    <3>2. FirstRead \in Nat /\ telemetry_end_pointer = FirstRead + MEM_BUFFER_SIZE
      BY <1>1, <3>1 DEF DumpPoints, FirstRead
    <3>3. QED BY <1>4, <3>1, <3>2 DEF DumpPoints
  <2>2. /\ Kind = "dump" /\ Plan = DumpPlan(f) /\ LastWord = tm_word
        /\ Kind' = Kind /\ Plan' = Plan /\ LastWord' = tm_word'
    BY <1>2, <1>5, <1>8, Mapped, MappedNext
  <2> HIDE DEF f
  <2>3. ASSUME \E i \in 1..(Len(DumpPlan(f)) - 1) :
                  tm_word = DumpPlan(f)[i] /\ tm_word' = DumpPlan(f)[i + 1]
        PROVE  TM!Next
    <3>1. TM!Send
      BY <2>2, <2>3 DEF TM!Send
    <3>2. QED BY <3>1 DEF TM!Next
  <2>4. CASE TM_InterruptService_Send
    <3>1. tm_word' = At("memory", telemetry_pointer) /\ telemetry_pointer < f + MEM_BUFFER_SIZE
      BY <2>1, <2>4 DEF TM_InterruptService_Send
    <3>2. CASE tm_word = Response /\ telemetry_pointer = f
      BY <2>1, <2>3, <3>1, <3>2, DumpNeighbours
    <3>3. CASE /\ tm_word = At("memory", o) /\ telemetry_pointer = o + 2
               /\ f <= o /\ Even(o - f)
      <4>1. o + 2 < f + MEM_BUFFER_SIZE
        BY <3>1, <3>3
      <4>2. \E i \in 1..(Len(DumpPlan(f)) - 1) :
               At("memory", o) = DumpPlan(f)[i] /\ At("memory", o + 2) = DumpPlan(f)[i + 1]
        BY <1>4, <2>1, <3>3, <4>1, DumpNeighbours
      <4>3. QED BY <2>3, <3>1, <3>3, <4>2
    <3>4. telemetry_pointer # f + MEM_BUFFER_SIZE
      BY <1>1, <2>1, <3>1
    <3>5. QED BY <2>1, <3>2, <3>3, <3>4
  <2>5. CASE TM_InterruptService_Ready
    <3>1. tm_word' = Checksum /\ telemetry_pointer >= f + MEM_BUFFER_SIZE
      BY <1>2, <1>8, <2>1, <2>5 DEF TM_InterruptService_Ready
    <3>2. CASE tm_word = At("memory", o) /\ telemetry_pointer = o + 2 /\ o + 2 <= f + MEM_BUFFER_SIZE
      <4>1. o + 2 = f + MEM_BUFFER_SIZE
        BY <1>1, <1>4, <2>1, <3>1, <3>2
      <4>2. \E i \in 1..(Len(DumpPlan(f)) - 1) :
               At("memory", o) = DumpPlan(f)[i] /\ Checksum = DumpPlan(f)[i + 1]
        BY <1>4, <2>1, <4>1, DumpNeighbours
      <4>3. QED BY <2>3, <3>1, <3>2, <4>2
    <3>3. CASE tm_word = Checksum
      BY <2>2, <3>1, <3>3 DEF TM!vars
    <3>4. telemetry_pointer # f
      BY <1>1, <2>1, <3>1
    <3>5. QED BY <2>1, <3>2, <3>3, <3>4
  <2>6. QED BY <1>2, <1>8, <2>4, <2>5
<1>9. QED BY <1>3, <1>6, <1>7, <1>8

(* TM_READY ends a session whose last word was sent. *)
LEMMA SessionCloses ==
  ASSUME TypeOK, MaskInv, SessionPoints, ReadyInv, HandleTelecommand_Ready
  PROVE  TM!Next
<1>1. /\ TC_pc = "Ready" /\ TC_state' = "TC_handling_e"
      /\ TC_state \in {"SC_TM_e", "memory_dump_e"}
  BY DEF HandleTelecommand_Ready, Handled, MaskInv
<1>2. AllSent
  BY <1>1 DEF ReadyInv, NoReadyMail
<1>3. Kind' = "idle" /\ Plan' = <<>> /\ LastWord' = Response
  BY <1>1, MappedNext DEF TelemetryStates
<1>4. ASSUME Kind \in {"science", "dump"}, LastWord = Plan[Len(Plan)] PROVE TM!Next
  <2>1. TM!Close
    BY <1>3, <1>4 DEF TM!Close, TM!Idle
  <2>2. QED BY <2>1 DEF TM!Next
<1>5. /\ tm_word = At(tm_word.area, tm_word.offset) /\ tm_word.offset \in Nat
      /\ telemetry_end_pointer \in Nat
  BY WordIs DEF TypeOK, LinkType
<1>6. CASE TC_state = "SC_TM_e"
  <2> DEFINE n == telemetry_end_pointer + 1
             o == tm_word.offset
  <2>1. /\ n \in FileSizes /\ tm_word = At("science", o) /\ Even(o)
        /\ telemetry_pointer = o + 2 /\ o + 2 <= n /\ telemetry_pointer >= telemetry_end_pointer
    BY <1>2, <1>5, <1>6 DEF SessionPoints, FilePoints, AllSent
  <2>2. o + 2 >= n - 1
    BY <1>5, <2>1
  <2>3. At("science", o) = SciencePlan(n)[Len(SciencePlan(n))]
    BY <1>5, <2>1, <2>2, ScienceNeighbours
  <2>4. Kind = "science" /\ Plan = SciencePlan(n) /\ LastWord = tm_word
    BY <1>6, Mapped
  <2>5. QED BY <1>4, <2>1, <2>3, <2>4
<1>7. CASE TC_state = "memory_dump_e"
  <2>1. tm_word = Checksum /\ FirstRead \in Nat
    BY <1>2, <1>7 DEF AllSent, SessionPoints, DumpPoints
  <2>2. Kind = "dump" /\ Plan = DumpPlan(FirstRead) /\ LastWord = tm_word
    BY <1>7, Mapped
  <2>3. QED BY <1>4, <2>1, <2>2, DumpNeighbours
<1>8. QED BY <1>1, <1>6, <1>7

(* No other step ends a session: the handlers that change TC_state run in a  *)
(* state that does not send, and so does the time-out.                       *)
LEMMA QuietState ==
  ASSUME MaskInv, [Next]_vars, ~SessionSteps, ~HandleTelecommand_Ready, ~WatchdogReset
  PROVE  TC_state' = TC_state \/ TC_state \notin TelemetryStates
<1>1. /\ TC_state \in DOMAIN Handlers
      /\ TC_pc \in Chosen => TC_pc = Handlers[TC_state]
      /\ TC_pc \in {"Timeout", "TimeoutEnd"} => TC_state \notin TelemetryStates
  BY DEF MaskInv, TypeOK, LinkType
<1>2. TC_pc \in {"ReadMemory", "WriteMemory", "MemoryPatch", "ExecuteCommand"}
        => TC_state \notin TelemetryStates
  BY <1>1, ChosenHandlers DEF Handlers, TelemetryStates
<1>3. CASE TC_InterruptService \/ TM_InterruptService
  BY <1>3 DEF SessionSteps, TC_InterruptService, TM_InterruptService,
     TC_InterruptService_Early, TC_InterruptService_Block, link
<1>4. CASE HandleTelecommand_TimeoutEnd
  BY <1>1, <1>4 DEF HandleTelecommand_TimeoutEnd
<1>5. CASE \/ HandleTelecommand_ReadMemory \/ WriteMemory_Lsb \/ WriteMemory_Wrong
           \/ MemoryPatch_Fill \/ MemoryPatch_Reject \/ MemoryPatch_Write
  BY <1>2, <1>5 DEF HandleTelecommand_ReadMemory, WriteMemory_Lsb, WriteMemory_Wrong,
     MemoryPatch_Fill, MemoryPatch_Reject, MemoryPatch_Write, Handled
<1>6. CASE ExecuteCommand
  BY <1>2, <1>6 DEF ExecuteCommand, ExecuteCommand_ReadMsb, ExecuteCommand_WriteMsb,
     ExecuteCommand_Acquisition, ExecuteCommand_Error, ExecuteCommand_SetTime,
     ExecuteCommand_ErrorStatusClear, ExecuteCommand_Other, Execute, Handled
<1>7. CASE SoftReset
  BY <1>2, <1>7 DEF SoftReset, MemoryPatch_Last
<1>8. CASE \/ HandleTelecommand_Wait \/ HandleTelecommand_Timeout
           \/ HandleTelecommand_TimeoutError \/ HandleTelecommand_Test
           \/ HandleTelecommand_Switch \/ HandleTelecommand_Drop
           \/ EnterStandBy \/ UNCHANGED vars
  BY <1>8 DEF HandleTelecommand_Wait, HandleTelecommand_Timeout, HandleTelecommand_TimeoutError,
     HandleTelecommand_Test, HandleTelecommand_Switch, HandleTelecommand_Drop, EnterStandBy,
     vars, link
<1>9. QED
  BY <1>3, <1>4, <1>5, <1>6, <1>7, <1>8 DEF Next, TC_Step

(* A telecommand that starts no session aborts register telemetry only. *)
LEMMA SessionAborts ==
  ASSUME NEW w \in Uplink,
         \/ TC_InterruptService_Invalid(w) \/ TC_InterruptService_Refused(w)
         \/ TC_InterruptService_Other(w)
  PROVE  TM!Next \/ UNCHANGED TM!vars
<1>1. /\ TC_state \notin {"SC_TM_e", "memory_dump_e"}
      /\ TC_state' = StateAfterAbort \/ TC_state' = "TC_handling_e"
  BY DEF TC_InterruptService_Invalid, TC_InterruptService_Refused,
     TC_InterruptService_Other, Accepted, Telecommand, Received
<1>2. TC_state' \notin TelemetryStates
  BY <1>1 DEF StateAfterAbort, TelemetryStates
<1>3. CASE TC_state = "register_TM_e"
  <2>1. Kind = "registers" /\ Kind' = "idle" /\ Plan' = <<>> /\ LastWord' = Response
    BY <1>2, <1>3, Mapped, MappedNext
  <2>2. TM!Abort
    BY <2>1 DEF TM!Abort, TM!Idle
  <2>3. QED BY <2>2 DEF TM!Next
<1>4. CASE TC_state # "register_TM_e"
  BY <1>1, <1>2, <1>4, SessionStutters DEF TelemetryStates
<1>5. QED BY <1>3, <1>4

LEMMA SessionNext ==
  ASSUME ~Preemptive, MaxResets = 0,
         MaskInv, TmInv, SessionPoints, ReadyInv, TypeOK', [Next]_vars
  PROVE  TM!Next \/ UNCHANGED TM!vars
<1>1. TypeOK /\ resets \in Nat
  BY DEF TmInv, TypeOK, HistoryType
<1>2. ~WatchdogReset
  BY <1>1 DEF WatchdogReset
<1>3. ASSUME NEW w \in Uplink,
             \/ TC_InterruptService_Invalid(w) \/ TC_InterruptService_Refused(w)
             \/ TC_InterruptService_Other(w)
      PROVE  TM!Next \/ UNCHANGED TM!vars
  BY <1>3, SessionAborts
<1>4. ASSUME NEW w \in Uplink,
             SendStatusRegister(w) \/ SendScienceDataFile(w) \/ ReadDataMemory(w)
      PROVE  TM!Next
  BY <1>1, <1>4, SessionStarts
<1>5. CASE TM_InterruptService
  BY <1>5, TransmissionSteps
<1>6. CASE HandleTelecommand_Ready
  BY <1>1, <1>6, SessionCloses
<1>7. CASE ~SessionSteps /\ ~HandleTelecommand_Ready
  <2>1. UNCHANGED session /\ (TC_state' \in TelemetryStates => TC_state' = TC_state)
    BY <1>1, <1>7, SessionFrame DEF TelemetryStates
  <2>2. TC_state' = TC_state \/ TC_state \notin TelemetryStates
    BY <1>2, <1>7, QuietState
  <2>3. QED BY <2>1, <2>2, SessionStutters
<1>8. QED
  BY <1>3, <1>4, <1>5, <1>6, <1>7 DEF SessionSteps, TM_InterruptService

LEMMA SessionInit == Init => TM!Init /\ SessionPoints /\ ReadyInv
<1> SUFFICES ASSUME Init PROVE TM!Init /\ SessionPoints /\ ReadyInv
  OBVIOUS
<1>1. TC_state = "TC_handling_e" /\ TC_mailbox = <<>> /\ TC_pc = "WaitMail"
  BY DEF Init
<1>2. Kind = "idle" /\ Plan = <<>> /\ LastWord = Response
  BY <1>1, Mapped DEF TelemetryStates
<1>3. TM!Init
  BY <1>2 DEF TM!Init
<1>4. QED BY <1>1, <1>3 DEF SessionPoints, ReadyInv

(* When handlers run to their end, and until a watchdog or a checksum resets *)
(* the DPU, telemetry keeps the promise of TmSession (TC_InterruptService,   *)
(* TM_InterruptService, HandleTelecommand): every session sends the words of *)
(* its plan in order from the first to the last, TM_READY ends none early,   *)
(* and a telecommand replaces register telemetry only.                       *)
THEOREM SessionImplemented ==
  ASSUME ~Preemptive, MaxResets = 0 PROVE Spec => ImplementsTmSession
<1> DEFINE Inv == MaskInv /\ TmInv /\ SessionPoints /\ ReadyInv
<1>1. Init => Inv /\ TM!Init
  BY TypeInit, TmInvInit, SessionInit, ChosenHandlers DEF Init, MaskInv, TelemetryStates
<1>2. Inv /\ [Next]_vars => Inv' /\ [TM!Next]_(TM!vars)
  <2> SUFFICES ASSUME Inv, [Next]_vars PROVE Inv' /\ [TM!Next]_(TM!vars)
    OBVIOUS
  <2>1. TmInv' /\ TypeOK'
    BY TmInvNext DEF TmInv
  <2>2. MaskInv'
    BY <2>1, MaskNext
  <2>3. SessionPoints' /\ ReadyInv'
    BY <2>1, PointsNext, ReadyNext
  <2>4. TM!Next \/ UNCHANGED TM!vars
    BY <2>1, SessionNext
  <2>5. QED BY <2>1, <2>2, <2>3, <2>4
<1> HIDE DEF Inv
<1>3. QED BY <1>1, <1>2, PTL DEF Spec, ImplementsTmSession, TM!Spec

----------------------------------------------------------------------------
(* The block of a Write Memory sequence.  The words that the task has        *)
(* handled since the sequence began are the last words received, all but     *)
(* the one that is still to be handled; type, address, buffer and checksum   *)
(* are made of them.                                                         *)

Pending     == TC_mailbox # <<>> \/ TC_pc \notin {"WaitMail", "Timeout", "TimeoutEnd"}
PendingMail == IF TC_mailbox # <<>> THEN Head(TC_mailbox) ELSE TC_mail

\* Words received that the task has handled.
HandledMails == IF Pending THEN Len(received) - 1 ELSE Len(received)

MailInv ==
  /\ Len(received) <= Recent
  /\ Pending /\ TC_state \notin {"SC_TM_e", "memory_dump_e"}
       => received # <<>> /\ received[Len(received)] = PendingMail

\* The m words of history r that end with word h.
LastWords(r, h, m) == [i \in 1..m |-> r[h - m + i].word]

\* c is the checksum over the m words of W.
IsSum(g, W, m)      == g[0] = 0 /\ \A i \in 1..m : g[i] = XorWord(g[i - 1], W[i])
Checksums(W, m, c)  == \E g \in [0..m -> Byte] : IsSum(g, W, m) /\ g[m] = c

\* The words W begin a sequence, and fill a block with k words.
Begun(W, m) ==
  /\ TC_ADDRESS(W[1]) = MsbAddress(memory_type) /\ TC_CODE(W[1]) = address_MSB
  /\ Checksums(W, m, write_checksum)
FilledWith(W, k) ==
  /\ TC_ADDRESS(W[2]) = LsbAddress(memory_type) /\ TC_CODE(W[2]) = address_LSB
  /\ Len(memory_transfer_buffer) = 2 * k
  /\ \A i \in 1..k : /\ memory_transfer_buffer[2 * i - 1] = MSB(W[i + 2])
                     /\ memory_transfer_buffer[2 * i]     = LSB(W[i + 2])

WriteBegun ==
  /\ 1 <= HandledMails
  /\ Begun(LastWords(received, HandledMails, 1), 1)
PatchBegun(k) ==
  /\ k + 2 <= HandledMails
  /\ Begun(LastWords(received, HandledMails, k + 2), k + 2)
  /\ FilledWith(LastWords(received, HandledMails, k + 2), k)

SequenceInv ==
  /\ TC_state = "write_memory_e" => WriteBegun
  /\ TC_state = "memory_patch_e" => \E k \in Nat : PatchBegun(k)

(* Exclusive or, bit by bit. *)
LEMMA XorBit ==
  ASSUME NEW a \in Byte, NEW b \in Byte, NEW i \in {1, 2, 4, 8, 16, 32, 64, 128}
  PROVE  (XorByte(a, b) \div i) % 2 = ((a \div i) + (b \div i)) % 2
<1> DEFINE bit(j) == ((a \div j) + (b \div j)) % 2
<1>1. ASSUME NEW j \in {1, 2, 4, 8, 16, 32, 64, 128} PROVE bit(j) \in {0, 1}
  <2>1. a \in Int /\ b \in Int /\ j \in Int /\ j > 0
    BY DEF Byte
  <2>2. (a \div j) + (b \div j) \in Int
    BY <2>1
  <2>3. QED BY <2>2
<1>2. XorByte(a, b) = bit(1) * 1 + bit(2) * 2 + bit(4) * 4 + bit(8) * 8
                      + bit(16) * 16 + bit(32) * 32 + bit(64) * 64 + bit(128) * 128
  BY DEF XorByte
<1> HIDE DEF bit
<1>3. ASSUME NEW b1 \in {0, 1}, NEW b2 \in {0, 1}, NEW b3 \in {0, 1}, NEW b4 \in {0, 1},
             NEW b5 \in {0, 1}, NEW b6 \in {0, 1}, NEW b7 \in {0, 1}, NEW b8 \in {0, 1},
             NEW x, x = b1 * 1 + b2 * 2 + b3 * 4 + b4 * 8 + b5 * 16 + b6 * 32 + b7 * 64 + b8 * 128
      PROVE  /\ (x \div 1) % 2 = b1 /\ (x \div 2) % 2 = b2
             /\ (x \div 4) % 2 = b3 /\ (x \div 8) % 2 = b4
             /\ (x \div 16) % 2 = b5 /\ (x \div 32) % 2 = b6
             /\ (x \div 64) % 2 = b7 /\ (x \div 128) % 2 = b8
  BY <1>3, SMTT(60)
<1>4. /\ (XorByte(a, b) \div 1) % 2 = bit(1) /\ (XorByte(a, b) \div 2) % 2 = bit(2)
      /\ (XorByte(a, b) \div 4) % 2 = bit(4) /\ (XorByte(a, b) \div 8) % 2 = bit(8)
      /\ (XorByte(a, b) \div 16) % 2 = bit(16) /\ (XorByte(a, b) \div 32) % 2 = bit(32)
      /\ (XorByte(a, b) \div 64) % 2 = bit(64) /\ (XorByte(a, b) \div 128) % 2 = bit(128)
  BY <1>1, <1>2, <1>3
<1>5. (XorByte(a, b) \div i) % 2 = bit(i)
  BY <1>4
<1>6. QED BY <1>5 DEF bit

(* A checksum over words and their checksum is 0. *)
LEMMA XorCancels ==
  ASSUME NEW a \in Byte, NEW m \in Byte, NEW l \in Byte, XorByte(a, m) = l
  PROVE  XorByte(a, XorByte(m, l)) = 0
<1> DEFINE z == XorByte(m, l)
<1>1. z \in Byte
  BY XorByteType
<1>2. ASSUME NEW i \in {1, 2, 4, 8, 16, 32, 64, 128}
      PROVE  ((a \div i) + (z \div i)) % 2 = 0
  <2>1. (l \div i) % 2 = ((a \div i) + (m \div i)) % 2
    BY XorBit
  <2>2. (z \div i) % 2 = ((m \div i) + (l \div i)) % 2
    BY XorBit
  <2>3. a \div i \in Int /\ m \div i \in Int /\ l \div i \in Int /\ z \div i \in Int
    BY <1>1 DEF Byte
  <2>4. ASSUME NEW A \in Int, NEW M \in Int, NEW L \in Int, NEW Z \in Int,
               L % 2 = (A + M) % 2, Z % 2 = (M + L) % 2
        PROVE  (A + Z) % 2 = 0
    BY <2>4
  <2> HIDE DEF z
  <2>5. QED BY <2>1, <2>2, <2>3, <2>4
<1> HIDE DEF z
<1>3. XorByte(a, z) = 0 * 1 + 0 * 2 + 0 * 4 + 0 * 8 + 0 * 16 + 0 * 32 + 0 * 64 + 0 * 128
  BY <1>2 DEF XorByte
<1>4. QED BY <1>3 DEF z

(* Induction on numbers: the intervals from 0 get smaller. *)
LEMMA NatInduct ==
  ASSUME NEW T, 0 \in T, \A n \in Nat : n \in T => n + 1 \in T PROVE Nat \subseteq T
<1>1. SUFFICES ASSUME NEW k \in Nat, k \notin T PROVE FALSE
  OBVIOUS
<1> DEFINE S == 0..k
           Bad == {r \in SUBSET S : \E n \in S : n \notin T /\ r = 0..(n - 1)}
<1>2. Bad \subseteq SUBSET S /\ Bad # {}
  <2>1. k \in S /\ 0..(k - 1) \in SUBSET S
    OBVIOUS
  <2>2. 0..(k - 1) \in Bad
    BY <1>1, <2>1
  <2>3. QED BY <2>2
<1>3. IsFiniteSet(S)
  BY FS_Interval
<1> HIDE DEF S
<1>4. IsWellFoundedOn(StrictSubsetOrdering(S), SUBSET S)
  BY <1>3, FS_StrictSubsetOrderingWellFounded, FS_FiniteSubsetsOfFinite
<1> HIDE DEF Bad
<1>5. PICK s \in Bad : \A r \in Bad : ~(<<r, s>> \in StrictSubsetOrdering(S))
  BY <1>2, <1>4, WFMin
<1> USE DEF Bad, S
<1>6. PICK n \in S : n \notin T /\ s = 0..(n - 1)
  BY <1>5
<1>7. n \in Nat /\ n - 1 \in Nat /\ n - 1 \in S /\ n - 1 \notin T
  <2>1. n \in Nat /\ n # 0 /\ n - 1 \in Nat /\ n = (n - 1) + 1 /\ n - 1 \in S
    BY <1>6
  <2>2. QED BY <1>6, <2>1
<1> DEFINE r == 0..((n - 1) - 1)
<1>8. r \in Bad
  <2>1. r \in SUBSET S
    BY <1>7
  <2>2. QED BY <1>7, <2>1
<1>9. r \subseteq s /\ n - 1 \in s /\ n - 1 \notin r
  BY <1>6, <1>7
<1>10. <<r, s>> \in StrictSubsetOrdering(S)
  BY <1>2, <1>5, <1>8, <1>9 DEF StrictSubsetOrdering
<1>11. QED BY <1>5, <1>8, <1>10

(* A checksum is determined by its words. *)
LEMMA SumIs ==
  ASSUME NEW first \in Nat, NEW count \in Nat, NEW g, DOMAIN g = 0..count, g[0] = 0,
         \A i \in 1..count : g[i] = XorWord(g[i - 1], received[first + i].word)
  PROVE  SumOf(first, count) = g[count]
<1> DEFINE Step(f) == [i \in 0..count |->
                         IF i = 0 THEN 0 ELSE XorWord(f[i - 1], received[first + i].word)]
           sum == CHOOSE f : f = Step(f)
           G   == [i \in 0..count |-> g[i]]
<1>1. G = Step(G)
  <2>1. \A i \in 0..count : G[i] = g[i]
    OBVIOUS
  <2>2. \A i \in 0..count : i # 0 => i \in 1..count /\ i - 1 \in 0..count
    OBVIOUS
  <2>3. \A i \in 0..count :
           g[i] = IF i = 0 THEN 0 ELSE XorWord(g[i - 1], received[first + i].word)
    BY <2>2
  <2>4. \A i \in 0..count : G[i] = IF i = 0 THEN 0 ELSE XorWord(G[i - 1], received[first + i].word)
    BY <2>1, <2>2, <2>3
  <2> HIDE DEF G
  <2>5. G = [i \in 0..count |-> G[i]]
    BY DEF G
  <2>6. QED BY <2>4, <2>5
<1>2. sum = Step(sum)
  <2> HIDE DEF Step, G
  <2>1. QED BY <1>1
<1>3. SumOf(first, count) = sum[count]
  BY DEF SumOf
<1> HIDE DEF sum
<1>4. \A i \in 0..count :
         sum[i] = IF i = 0 THEN 0 ELSE XorWord(sum[i - 1], received[first + i].word)
  BY <1>2
<1> DEFINE T == {n \in Nat : n <= count => sum[n] = g[n]}
<1>5. 0 \in T
  BY <1>4
<1>6. ASSUME NEW n \in Nat, n \in T PROVE n + 1 \in T
  <2>1. CASE n + 1 <= count
    <3>1. n + 1 \in 1..count /\ n + 1 \in 0..count /\ n <= count /\ (n + 1) - 1 = n /\ n + 1 # 0
      BY <2>1
    <3>2. sum[n] = g[n]
      BY <1>6, <3>1
    <3>3. sum[n + 1] = XorWord(sum[n], received[first + (n + 1)].word)
      BY <1>4, <3>1
    <3>4. g[n + 1] = XorWord(g[n], received[first + (n + 1)].word)
      BY <3>1
    <3>5. QED BY <3>2, <3>3, <3>4
  <2>2. CASE ~(n + 1 <= count)
    BY <2>2
  <2>3. QED BY <2>1, <2>2
<1> HIDE DEF T
<1>7. Nat \subseteq T
  BY <1>5, <1>6, NatInduct
<1>8. sum[count] = g[count]
  BY <1>7 DEF T
<1>9. QED BY <1>3, <1>8

(* One more word. *)
LEMMA ChecksumsMore ==
  ASSUME NEW W, NEW V, NEW m \in Nat, NEW c \in Byte, NEW w \in Word, Checksums(W, m, c),
         \A i \in 1..m : V[i] = W[i], V[m + 1] = w
  PROVE  Checksums(V, m + 1, XorWord(c, w))
<1>1. PICK g \in [0..m -> Byte] : IsSum(g, W, m) /\ g[m] = c
  BY DEF Checksums
<1> DEFINE G == [i \in 0..(m + 1) |-> IF i = m + 1 THEN XorWord(c, w) ELSE g[i]]
<1>2. XorWord(c, w) \in Byte
  BY XorWordType
<1>3. G \in [0..(m + 1) -> Byte]
  BY <1>1, <1>2
<1>4. G[m + 1] = XorWord(c, w) /\ \A i \in 0..m : G[i] = g[i]
  OBVIOUS
<1> HIDE DEF G
<1>5. \A i \in 1..(m + 1) : G[i] = XorWord(G[i - 1], V[i])
  <2>1. ASSUME NEW i \in 1..m PROVE G[i] = XorWord(G[i - 1], V[i])
    <3>1. i \in 0..m /\ i - 1 \in 0..m
      OBVIOUS
    <3>2. g[i] = XorWord(g[i - 1], W[i])
      BY <1>1 DEF IsSum
    <3>3. QED BY <1>4, <3>1, <3>2
  <2>2. G[m + 1] = XorWord(G[(m + 1) - 1], V[m + 1])
    <3>1. (m + 1) - 1 = m /\ m \in 0..m
      OBVIOUS
    <3>2. QED BY <1>1, <1>4, <3>1
  <2>3. QED BY <2>1, <2>2
<1>6. G[0] = 0
  BY <1>1, <1>4 DEF IsSum
<1>7. QED BY <1>3, <1>4, <1>5, <1>6 DEF Checksums, IsSum

LEMMA ChecksumsOne ==
  ASSUME NEW W, W[1] \in Word PROVE Checksums(W, 1, XorWord(0, W[1]))
<1> DEFINE V == [i \in {} |-> 0]
<1>1. 0 \in Byte
  BY WordFacts
<1>2. Checksums(V, 0, 0)
  <2> DEFINE g == [i \in 0..0 |-> 0]
  <2>1. g \in [0..0 -> Byte] /\ g[0] = 0 /\ 1..0 = {}
    BY <1>1
  <2> HIDE DEF g
  <2>2. IsSum(g, V, 0)
    BY <2>1 DEF IsSum
  <2>3. QED BY <2>1, <2>2 DEF Checksums
<1>3. \A i \in 1..0 : W[i] = V[i]
  OBVIOUS
<1>4. W[0 + 1] = W[1]
  OBVIOUS
<1> HIDE DEF V
<1>5. Checksums(W, 0 + 1, XorWord(0, W[1]))
  BY <1>1, <1>2, <1>3, <1>4, ChecksumsMore
<1>6. QED BY <1>5

(* The words of a sequence when a word is received, and when it is handled. *)
LEMMA RecentSize == Recent \in Nat /\ Recent = MEM_BUFFER_SIZE \div 2 + 3 /\ MEM_BUFFER_SIZE \div 2 \in Nat
BY TcTmAssumption DEF Recent

LEMMA WordsKept ==
  ASSUME NEW r \in Seq(Mails), NEW mail \in Mails, Len(r) <= Recent,
         NEW s, s = Remember(r, mail)
  PROVE  /\ s \in Seq(Mails) /\ s # <<>> /\ Len(s) <= Recent /\ s[Len(s)] = mail
         /\ \A m \in Nat : m <= Len(r) /\ m < Recent
              => /\ m <= Len(s) - 1
                 /\ LastWords(s, Len(s) - 1, m) = LastWords(r, Len(r), m)
<1> DEFINE all == Append(r, mail)
<1>1. /\ all \in Seq(Mails) /\ Len(all) = Len(r) + 1 /\ all # <<>>
      /\ \A i \in 1..Len(r) : all[i] = r[i]
      /\ all[Len(r) + 1] = mail
  OBVIOUS
<1>2. Len(r) \in Nat /\ Recent \in Nat /\ Recent >= 3
  BY RecentSize
<1> HIDE DEF all
<1>3. CASE Len(all) <= Recent
  <2>1. s = all
    BY <1>1, <1>2, <1>3 DEF Remember, all
  <2>2. ASSUME NEW m \in Nat, m <= Len(r)
        PROVE  LastWords(s, Len(s) - 1, m) = LastWords(r, Len(r), m)
    <3>1. Len(s) - 1 = Len(r)
      BY <1>1, <1>2, <2>1
    <3>2. \A i \in 1..m : Len(r) - m + i \in 1..Len(r)
      BY <1>2, <2>2
    <3>3. \A i \in 1..m : s[Len(r) - m + i] = r[Len(r) - m + i]
      BY <1>1, <2>1, <3>2
    <3>4. QED BY <3>1, <3>3 DEF LastWords
  <2>3. QED BY <1>1, <1>2, <1>3, <2>1, <2>2
<1>4. CASE Len(all) > Recent
  <2>1. s = Tail(all) /\ Len(r) = Recent
    BY <1>1, <1>2, <1>4 DEF Remember, all
  <2>2. /\ s \in Seq(Mails) /\ Len(s) = Len(r)
        /\ \A i \in 1..Len(s) : s[i] = all[i + 1]
    BY <1>1, <1>2, <2>1
  <2>3. s # <<>> /\ s[Len(s)] = mail
    BY <1>1, <1>2, <2>1, <2>2
  <2>4. ASSUME NEW m \in Nat, m < Recent
        PROVE  LastWords(s, Len(s) - 1, m) = LastWords(r, Len(r), m)
    <3>1. ASSUME NEW i \in 1..m
          PROVE  /\ (Len(s) - 1) - m + i \in 1..Len(s)
                 /\ ((Len(s) - 1) - m + i) + 1 = Len(r) - m + i
                 /\ Len(r) - m + i \in 1..Len(r)
      <4>1. Len(s) = Recent /\ Len(r) = Recent /\ Recent \in Nat /\ m < Recent /\ i \in Nat
        BY <1>2, <2>1, <2>2, <2>4
      <4>2. Recent - m >= 1 /\ i >= 1 /\ i <= m
        BY <4>1
      <4>3. (Recent - 1) - m + i \in 1..Recent /\ Recent - m + i \in 1..Recent
        BY <4>1, <4>2
      <4>4. QED BY <4>1, <4>3
    <3>2. \A i \in 1..m : s[(Len(s) - 1) - m + i] = r[Len(r) - m + i]
      BY <1>1, <2>2, <3>1
    <3>3. QED BY <3>2 DEF LastWords
  <2>5. QED BY <1>2, <2>1, <2>2, <2>3, <2>4
<1>5. QED BY <1>1, <1>2, <1>3, <1>4

LEMMA WordsMore ==
  ASSUME NEW r \in Seq(Mails), NEW h \in Nat, NEW m \in Nat, m <= h, h + 1 <= Len(r)
  PROVE  /\ \A i \in 1..m : LastWords(r, h + 1, m + 1)[i] = LastWords(r, h, m)[i]
         /\ LastWords(r, h + 1, m + 1)[m + 1] = r[h + 1].word
<1>1. \A i \in 1..m : i \in 1..(m + 1) /\ (h + 1) - (m + 1) + i = h - m + i
  OBVIOUS
<1>2. m + 1 \in 1..(m + 1) /\ (h + 1) - (m + 1) + (m + 1) = h + 1
  OBVIOUS
<1>3. QED BY <1>1, <1>2 DEF LastWords

(* A step that handles no word keeps what the words say of the block.        *)
LEMMA SequenceKept ==
  ASSUME TypeOK, SequenceInv, UNCHANGED block,
         TC_state' \in WriteStates => TC_state' = TC_state,
         \A m \in Nat : m <= HandledMails /\ m < Recent
           => /\ m <= HandledMails'
              /\ LastWords(received', HandledMails', m) = LastWords(received, HandledMails, m)
  PROVE  SequenceInv'
<1>1. ASSUME TC_state = "write_memory_e" PROVE WriteBegun'
  <2>1. WriteBegun /\ 1 < Recent
    BY <1>1, RecentSize DEF SequenceInv
  <2>2. /\ 1 <= HandledMails'
        /\ LastWords(received', HandledMails', 1) = LastWords(received, HandledMails, 1)
    BY <2>1 DEF WriteBegun
  <2>3. QED BY <2>1, <2>2 DEF WriteBegun, Begun, block
<1>2. ASSUME TC_state = "memory_patch_e" PROVE \E k \in Nat : PatchBegun(k)'
  <2>1. PICK k \in Nat : PatchBegun(k)
    BY <1>2 DEF SequenceInv
  <2>2. k + 2 \in Nat /\ k + 2 < Recent
    <3>1. 2 * k <= MEM_BUFFER_SIZE /\ MEM_BUFFER_SIZE \in Nat
      BY <2>1, TcTmAssumption DEF PatchBegun, FilledWith, TypeOK, BlockType
    <3>2. k <= MEM_BUFFER_SIZE \div 2
      BY <3>1
    <3>3. QED BY <3>2, RecentSize
  <2>3. /\ k + 2 <= HandledMails'
        /\ LastWords(received', HandledMails', k + 2) = LastWords(received, HandledMails, k + 2)
    BY <2>1, <2>2 DEF PatchBegun
  <2>4. PatchBegun(k)'
    BY <2>1, <2>3 DEF PatchBegun, Begun, FilledWith, block
  <2>5. QED BY <2>4
<1>3. QED BY <1>1, <1>2 DEF SequenceInv, WriteStates

LEMMA MailKept ==
  ASSUME TypeOK, MailInv, SequenceInv, UNCHANGED <<TC_state, received, block>>,
         Pending' <=> Pending, Pending => PendingMail' = PendingMail
  PROVE  MailInv' /\ SequenceInv'
<1>1. MailInv'
  BY DEF MailInv
<1>2. HandledMails' = HandledMails
  BY DEF HandledMails
<1>3. QED BY <1>1, <1>2, SequenceKept

(* A TC interrupt that finds the task idle leaves one word to handle, or     *)
(* none; a TM interrupt leaves the history alone.                            *)
LEMMA ServiceMail ==
  ASSUME MaskInv, ~Preemptive, TC_InterruptService
  PROVE  \/ UNCHANGED <<TC_mailbox, received>>
         \/ \E mail \in Mails : /\ TC_mailbox' = <<mail>>
                                /\ received' = Remember(received, mail)
<1>1. TC_mailbox = <<>> /\ Len(TC_mailbox) < MailCapacity
  BY ServiceMask, TcTmAssumption DEF TC_TaskIdle
<1>2. ASSUME NEW w \in Uplink, NEW sender \in {"TC", "patch"}, Send_ISR_Mail(w, sender)
      PROVE  \E mail \in Mails : TC_mailbox' = <<mail>> /\ received' = Remember(received, mail)
  <2> DEFINE mail == [word |-> w, from |-> sender]
  <2>1. mail \in Mails
    BY TcTmAssumption DEF Mails, Senders
  <2>2. TC_mailbox' = Append(TC_mailbox, mail) /\ received' = Remember(received, mail)
    BY <1>1, <1>2 DEF Send_ISR_Mail
  <2>3. TC_mailbox' = <<mail>>
    BY <1>1, <2>2
  <2>4. QED BY <2>1, <2>2, <2>3
<1>3. CASE TC_InterruptService_Early
  BY <1>3 DEF TC_InterruptService_Early
<1>4. ASSUME NEW w \in Uplink,
             \/ TC_InterruptService_Block(w)  \/ TC_InterruptService_Invalid(w)
             \/ SendStatusRegister(w)         \/ SendScienceDataFile(w)
             \/ ReadDataMemory(w)             \/ TC_InterruptService_Refused(w)
             \/ TC_InterruptService_Other(w)
      PROVE  \/ UNCHANGED <<TC_mailbox, received>>
             \/ \E mail \in Mails : TC_mailbox' = <<mail>> /\ received' = Remember(received, mail)
  <2>1. \/ UNCHANGED <<TC_mailbox, received>>
        \/ Send_ISR_Mail(w, "patch") \/ Send_ISR_Mail(w, "TC")
    BY <1>4 DEF TC_InterruptService_Block, TC_InterruptService_Invalid, SendStatusRegister,
       SendScienceDataFile, ReadDataMemory, TC_InterruptService_Refused,
       TC_InterruptService_Other, Accepted
  <2>2. QED BY <1>2, <2>1
<1>5. QED BY <1>3, <1>4 DEF TC_InterruptService

LEMMA TelemetryMail ==
  ASSUME MaskInv, TM_InterruptService
  PROVE  /\ UNCHANGED <<received, TC_state>>
         /\ TC_mailbox' = TC_mailbox \/ TC_state \in {"SC_TM_e", "memory_dump_e"}
<1>1. TM_mask => TC_state \in TelemetryStates
  BY DEF MaskInv
<1>2. CASE TM_InterruptService_Send \/ TM_InterruptService_Wrap
  BY <1>2 DEF TM_InterruptService_Send, TM_InterruptService_Wrap, TM_Frame, link
<1>3. CASE TM_InterruptService_Ready
  BY <1>1, <1>3 DEF TM_InterruptService_Ready, Send_ISR_Mail, TM_Frame, link, TelemetryStates
<1>4. QED BY <1>2, <1>3 DEF TM_InterruptService

LEMMA SequenceService ==
  ASSUME MaskInv, ReadyInv, MailInv, SequenceInv, ~Preemptive,
         TC_InterruptService \/ TM_InterruptService
  PROVE  MailInv' /\ SequenceInv'
<1>1. TypeOK /\ received \in Seq(Mails) /\ Len(received) <= Recent
  BY DEF MaskInv, MailInv, TypeOK, HistoryType
<1>2. UNCHANGED <<TC_pc, TC_mail, block>>
  BY ServiceFrame DEF task
<1>3. TC_state' \in WriteStates => TC_state' = TC_state
  BY <1>1, ServiceWrites
<1>4. ASSUME UNCHANGED <<TC_mailbox, received>>, TC_state \in {"SC_TM_e", "memory_dump_e"} => TC_state' = TC_state
      PROVE  MailInv' /\ SequenceInv'
  <2>1. (Pending' <=> Pending) /\ PendingMail' = PendingMail
    BY <1>2, <1>4 DEF Pending, PendingMail
  <2>2. MailInv'
    BY <1>4, <2>1 DEF MailInv
  <2>3. HandledMails' = HandledMails
    BY <1>4, <2>1 DEF HandledMails
  <2>4. SequenceInv'
    BY <1>1, <1>2, <1>3, <1>4, <2>3, SequenceKept
  <2>5. QED BY <2>2, <2>4
<1>5. CASE TC_InterruptService
  <2>1. TC_state \in {"SC_TM_e", "memory_dump_e"} => TC_state' = TC_state
    BY <1>1, ServiceWrites
  <2>2. CASE UNCHANGED <<TC_mailbox, received>>
    BY <1>4, <2>1, <2>2
  <2>3. ASSUME NEW mail \in Mails, TC_mailbox' = <<mail>>, received' = Remember(received, mail)
        PROVE  MailInv' /\ SequenceInv'
    <3>1. ~Pending
      BY <1>5, ServiceMask DEF Pending, TC_TaskIdle
    <3>2. Pending' /\ PendingMail' = mail
      BY <2>3 DEF Pending, PendingMail
    <3>3. HandledMails = Len(received) /\ HandledMails' = Len(received') - 1
      BY <3>1, <3>2 DEF HandledMails
    <3>4. /\ received' # <<>> /\ Len(received') <= Recent /\ received'[Len(received')] = mail
          /\ \A m \in Nat : m <= Len(received) /\ m < Recent
               => /\ m <= Len(received') - 1
                  /\ LastWords(received', Len(received') - 1, m)
                       = LastWords(received, Len(received), m)
      BY <1>1, <2>3, WordsKept
    <3>5. MailInv'
      BY <3>2, <3>4 DEF MailInv
    <3>6. SequenceInv'
      BY <1>1, <1>2, <1>3, <3>3, <3>4, SequenceKept
    <3>7. QED BY <3>5, <3>6
  <2>4. QED BY <1>5, <2>2, <2>3, ServiceMail
<1>6. CASE TM_InterruptService
  <2>1. /\ UNCHANGED <<received, TC_state>>
        /\ TC_mailbox' = TC_mailbox \/ TC_state \in {"SC_TM_e", "memory_dump_e"}
    BY <1>6, TelemetryMail
  <2>2. CASE TC_mailbox' = TC_mailbox
    BY <1>4, <2>1, <2>2
  <2>3. CASE TC_state \in {"SC_TM_e", "memory_dump_e"}
    BY <2>1, <2>3 DEF MailInv, SequenceInv
  <2>4. QED BY <2>1, <2>2, <2>3
<1>7. QED BY <1>5, <1>6

(* The task handles a word: it is the last one received, and extends the     *)
(* words of the sequence.                                                    *)
LEMMA HandledMail ==
  ASSUME TypeOK, ReadyInv, MailInv, NEW pc \in Chosen \cup {"Ready"}, Handled(pc)
  PROVE  /\ ~Pending' /\ MailInv'
         /\ TC_state \notin {"SC_TM_e", "memory_dump_e"}
              => /\ HandledMails \in Nat /\ HandledMails' = HandledMails + 1
                 /\ HandledMails + 1 = Len(received) /\ received' = received
                 /\ received[Len(received)] = TC_mail /\ TC_mail.word \in Word
                 /\ \A m \in Nat : m <= HandledMails =>
                      LET old == LastWords(received, HandledMails, m)
                          new == LastWords(received', HandledMails', m + 1)
                      IN  (\A i \in 1..m : new[i] = old[i]) /\ new[m + 1] = TC_mail.word
<1>1. TC_pc = pc /\ TC_pc' = "WaitMail" /\ UNCHANGED <<TC_mailbox, TC_mail, received>>
  BY DEF Handled, TaskFrame
<1>2. TC_pc \notin {"WaitMail", "Timeout", "TimeoutEnd"}
  BY <1>1, ChosenHandlers
<1>3. TC_mailbox = <<>> /\ received \in Seq(Mails) /\ TC_mail \in Mails
  BY <1>2 DEF ReadyInv, TypeOK, TaskType, HistoryType
<1>4. Pending /\ ~Pending' /\ PendingMail = TC_mail
  BY <1>1, <1>2, <1>3 DEF Pending, PendingMail
<1>5. MailInv'
  BY <1>1, <1>4 DEF MailInv
<1>6. ASSUME TC_state \notin {"SC_TM_e", "memory_dump_e"}
      PROVE  /\ HandledMails \in Nat /\ HandledMails' = HandledMails + 1
             /\ HandledMails + 1 = Len(received) /\ received' = received
             /\ received[Len(received)] = TC_mail /\ TC_mail.word \in Word
  <2>1. received # <<>> /\ received[Len(received)] = TC_mail
    BY <1>4, <1>6 DEF MailInv
  <2>2. Len(received) \in Nat /\ Len(received) > 0
    BY <1>3, <2>1
  <2>3. HandledMails = Len(received) - 1 /\ HandledMails' = Len(received)
    BY <1>1, <1>4 DEF HandledMails
  <2>4. TC_mail.word \in Word
    BY <1>3 DEF Mails
  <2>5. QED BY <1>1, <2>1, <2>2, <2>3, <2>4
<1>7. ASSUME TC_state \notin {"SC_TM_e", "memory_dump_e"}, NEW m \in Nat, m <= HandledMails
      PROVE  LET old == LastWords(received, HandledMails, m)
                 new == LastWords(received', HandledMails', m + 1)
             IN  (\A i \in 1..m : new[i] = old[i]) /\ new[m + 1] = TC_mail.word
  BY <1>3, <1>6, <1>7, WordsMore
<1>8. QED BY <1>4, <1>5, <1>6, <1>7

LEMMA SequenceStarts ==
  ASSUME TypeOK, MaskInv, ReadyInv, MailInv, ExecuteCommand
  PROVE  MailInv' /\ SequenceInv'
<1>1. Handled("ExecuteCommand") /\ "ExecuteCommand" \in Chosen
  BY ChosenHandlers DEF ExecuteCommand, ExecuteCommand_ReadMsb, ExecuteCommand_WriteMsb,
     ExecuteCommand_Acquisition, ExecuteCommand_Error, ExecuteCommand_SetTime,
     ExecuteCommand_ErrorStatusClear, ExecuteCommand_Other, Execute
<1>2. TC_state = "TC_handling_e"
  BY <1>1 DEF MaskInv, Handled, Handlers, TypeOK, LinkType
<1>3. MailInv'
  BY <1>1, HandledMail
<1>4. CASE ExecuteCommand_WriteMsb
  <2> DEFINE W == LastWords(received', HandledMails', 1)
             m == 0
  <2>1. /\ m \in Nat /\ m <= HandledMails /\ m + 1 = 1 /\ HandledMails' = HandledMails + 1
        /\ HandledMails \in Nat /\ TC_mail.word \in Word
    BY <1>1, <1>2, HandledMail
  <2>2. LastWords(received', HandledMails', m + 1)[m + 1] = TC_mail.word
    BY <1>1, <1>2, <2>1, HandledMail
  <2>3. W[1] = TC_mail.word
    BY <2>1, <2>2
  <2>4. 1 <= HandledMails'
    BY <2>1
  <2>5. /\ Address \in {WRITE_CODE_MEMORY_MSB, WRITE_DATA_MEMORY_MSB}
        /\ memory_type' = IF Address = WRITE_CODE_MEMORY_MSB THEN "code_e" ELSE "data_e"
        /\ address_MSB' = Code /\ write_checksum' = XorWord(0, TC_mail.word)
        /\ TC_state' = "write_memory_e"
    BY <1>4 DEF ExecuteCommand_WriteMsb
  <2>6. Address = MsbAddress(memory_type')
    BY <2>5 DEF MsbAddress
  <2> HIDE DEF W
  <2>7. Checksums(W, 1, write_checksum')
    BY <2>1, <2>3, <2>5, ChecksumsOne
  <2>8. WriteBegun'
    BY <2>3, <2>4, <2>5, <2>6, <2>7 DEF WriteBegun, Begun, W, Address, Code
  <2>9. QED BY <1>3, <2>5, <2>8 DEF SequenceInv
<1>5. CASE ~ExecuteCommand_WriteMsb
  <2>1. TC_state' \in {"TC_handling_e", "read_memory_e"}
    BY <1>2, <1>5 DEF ExecuteCommand, ExecuteCommand_ReadMsb, ExecuteCommand_Acquisition,
       ExecuteCommand_Error, ExecuteCommand_SetTime, ExecuteCommand_ErrorStatusClear,
       ExecuteCommand_Other, link
  <2>2. QED BY <1>3, <2>1 DEF SequenceInv
<1>6. QED BY <1>4, <1>5

LEMMA SequenceLsb ==
  ASSUME TypeOK, MaskInv, ReadyInv, MailInv, SequenceInv, WriteMemory_Lsb
  PROVE  MailInv' /\ SequenceInv'
<1>1. Handled("WriteMemory") /\ "WriteMemory" \in Chosen
  BY ChosenHandlers DEF WriteMemory_Lsb
<1>2. TC_state = "write_memory_e" /\ write_checksum \in Byte
  BY <1>1 DEF MaskInv, Handled, Handlers, TypeOK, LinkType, BlockType
<1>3. MailInv'
  BY <1>1, HandledMail
<1>4. WriteBegun
  BY <1>2 DEF SequenceInv
<1> DEFINE W == LastWords(received, HandledMails, 1)
           V == LastWords(received', HandledMails', 2)
<1>5. 1 <= HandledMails /\ HandledMails' = HandledMails + 1 /\ HandledMails \in Nat /\ TC_mail.word \in Word
  BY <1>1, <1>2, <1>4, HandledMail DEF WriteBegun
<1>6. V[1] = W[1] /\ V[2] = TC_mail.word
  <2> DEFINE m == 1
  <2>1. m \in Nat /\ m <= HandledMails /\ m + 1 = 2 /\ 1 \in 1..m
    BY <1>5
  <2>2. LET old == LastWords(received, HandledMails, m)
            new == LastWords(received', HandledMails', m + 1)
        IN  (\A i \in 1..m : new[i] = old[i]) /\ new[m + 1] = TC_mail.word
    BY <1>1, <1>2, <2>1, HandledMail
  <2>3. QED BY <2>1, <2>2
<1>7. /\ Address = LsbAddress(memory_type)
      /\ address_LSB' = Code /\ memory_transfer_buffer' = <<>>
      /\ write_checksum' = XorWord(write_checksum, TC_mail.word)
      /\ TC_state' = "memory_patch_e"
      /\ UNCHANGED <<memory_type, address_MSB>>
  BY DEF WriteMemory_Lsb, LsbAddress
<1>8. Begun(W, 1)
  BY <1>4 DEF WriteBegun
<1> HIDE DEF W, V
<1>9. Checksums(V, 1 + 1, write_checksum')
  <2>1. \A i \in 1..1 : V[i] = W[i]
    BY <1>6
  <2>2. V[1 + 1] = TC_mail.word
    BY <1>6
  <2>3. Checksums(W, 1, write_checksum)
    BY <1>8 DEF Begun
  <2>4. QED BY <1>2, <1>5, <1>7, <2>1, <2>2, <2>3, ChecksumsMore
<1>10. /\ TC_ADDRESS(V[1]) = MsbAddress(memory_type') /\ TC_CODE(V[1]) = address_MSB'
       /\ TC_ADDRESS(V[2]) = LsbAddress(memory_type') /\ TC_CODE(V[2]) = address_LSB'
  BY <1>6, <1>7, <1>8 DEF Begun, Address, Code
<1>11. PatchBegun(0)'
  <2>1. V = LastWords(received', HandledMails', 0 + 2)
    BY DEF V
  <2>2. 0 + 2 <= HandledMails' /\ Checksums(V, 0 + 2, write_checksum')
    BY <1>5, <1>9
  <2>3. Len(memory_transfer_buffer') = 2 * 0 /\ 1..0 = {}
    BY <1>7
  <2>4. QED BY <1>10, <2>1, <2>2, <2>3 DEF PatchBegun, Begun, FilledWith
<1>12. QED BY <1>3, <1>7, <1>11 DEF SequenceInv

(* A buffer with two bytes more. *)
LEMMA TwoMore ==
  ASSUME NEW s \in Seq(Byte), NEW a \in Byte, NEW b \in Byte, NEW k \in Nat, Len(s) = 2 * k
  PROVE  /\ Len(s \o <<a, b>>) = 2 * k + 2
         /\ \A j \in 1..(2 * k) : (s \o <<a, b>>)[j] = s[j]
         /\ (s \o <<a, b>>)[2 * k + 1] = a /\ (s \o <<a, b>>)[2 * k + 2] = b
<1>1. <<a, b>> \in Seq(Byte) /\ Len(<<a, b>>) = 2
  OBVIOUS
<1>2. Len(s \o <<a, b>>) = 2 * k + 2
  BY <1>1
<1>3. \A j \in 1..(2 * k) : (s \o <<a, b>>)[j] = s[j]
  BY <1>1
<1>4. (s \o <<a, b>>)[2 * k + 1] = a
  BY <1>1
<1>5. (s \o <<a, b>>)[2 * k + 2] = b
  BY <1>1
<1>6. QED BY <1>2, <1>3, <1>4, <1>5

LEMMA SequenceFill ==
  ASSUME TypeOK, MaskInv, ReadyInv, MailInv, SequenceInv, MemoryPatch_Fill
  PROVE  MailInv' /\ SequenceInv'
<1>1. Handled("MemoryPatch") /\ "MemoryPatch" \in Chosen
  BY ChosenHandlers DEF MemoryPatch_Fill
<1>2. TC_state = "memory_patch_e" /\ write_checksum \in Byte
  BY <1>1 DEF MaskInv, Handled, Handlers, TypeOK, LinkType, BlockType
<1>3. MailInv'
  BY <1>1, HandledMail
<1>4. PICK k \in Nat : PatchBegun(k)
  BY <1>2 DEF SequenceInv
<1> DEFINE m == k + 2
           W == LastWords(received, HandledMails, m)
           V == LastWords(received', HandledMails', m + 1)
           w == TC_mail.word
<1>5. /\ m \in Nat /\ m <= HandledMails /\ HandledMails' = HandledMails + 1
      /\ HandledMails \in Nat /\ w \in Word
  BY <1>1, <1>2, <1>4, HandledMail DEF PatchBegun
<1>6. (\A i \in 1..m : V[i] = W[i]) /\ V[m + 1] = w
  BY <1>1, <1>2, <1>5, HandledMail
<1>7. /\ memory_transfer_buffer' = memory_transfer_buffer \o <<MSB(w), LSB(w)>>
      /\ write_checksum' = XorWord(write_checksum, w)
      /\ UNCHANGED <<TC_state, memory_type, address_MSB, address_LSB>>
  BY DEF MemoryPatch_Fill, link
<1>8. Begun(W, m) /\ FilledWith(W, k)
  BY <1>4 DEF PatchBegun
<1> HIDE DEF W, V, w
<1>9. Checksums(V, m + 1, write_checksum')
  <2>1. Checksums(W, m, write_checksum)
    BY <1>8 DEF Begun
  <2>2. QED BY <1>2, <1>5, <1>6, <1>7, <2>1, ChecksumsMore
<1>10. /\ TC_ADDRESS(V[1]) = MsbAddress(memory_type') /\ TC_CODE(V[1]) = address_MSB'
       /\ TC_ADDRESS(V[2]) = LsbAddress(memory_type') /\ TC_CODE(V[2]) = address_LSB'
  <2>1. V[1] = W[1] /\ V[2] = W[2]
    BY <1>5, <1>6
  <2>2. QED BY <1>7, <1>8, <2>1 DEF Begun, FilledWith
<1>11. /\ Len(memory_transfer_buffer') = 2 * (k + 1)
       /\ \A i \in 1..(k + 1) : /\ memory_transfer_buffer'[2 * i - 1] = MSB(V[i + 2])
                                /\ memory_transfer_buffer'[2 * i]     = LSB(V[i + 2])
  <2>1. MSB(w) \in Byte /\ LSB(w) \in Byte /\ memory_transfer_buffer \in Seq(Byte)
    BY <1>5, HalvesType DEF TypeOK, BlockType
  <2>2. Len(memory_transfer_buffer) = 2 * k
    BY <1>8 DEF FilledWith
  <2>3. /\ Len(memory_transfer_buffer') = 2 * k + 2
        /\ \A j \in 1..(2 * k) : memory_transfer_buffer'[j] = memory_transfer_buffer[j]
        /\ memory_transfer_buffer'[2 * k + 1] = MSB(w)
        /\ memory_transfer_buffer'[2 * k + 2] = LSB(w)
    BY <1>7, <2>1, <2>2, TwoMore
  <2>4. ASSUME NEW i \in 1..k
        PROVE  /\ memory_transfer_buffer'[2 * i - 1] = MSB(V[i + 2])
               /\ memory_transfer_buffer'[2 * i]     = LSB(V[i + 2])
    <3>1. 2 * i - 1 \in 1..(2 * k) /\ 2 * i \in 1..(2 * k) /\ i + 2 \in 1..m
      OBVIOUS
    <3>2. /\ memory_transfer_buffer[2 * i - 1] = MSB(W[i + 2])
          /\ memory_transfer_buffer[2 * i]     = LSB(W[i + 2])
      BY <1>8 DEF FilledWith
    <3>3. V[i + 2] = W[i + 2]
      BY <1>6, <3>1
    <3>4. QED BY <2>3, <3>1, <3>2, <3>3
  <2>5. /\ memory_transfer_buffer'[2 * (k + 1) - 1] = MSB(V[(k + 1) + 2])
        /\ memory_transfer_buffer'[2 * (k + 1)]     = LSB(V[(k + 1) + 2])
    <3>1. 2 * (k + 1) - 1 = 2 * k + 1 /\ 2 * (k + 1) = 2 * k + 2 /\ (k + 1) + 2 = m + 1
      OBVIOUS
    <3>2. QED BY <1>6, <2>3, <3>1
  <2>6. QED BY <2>2, <2>3, <2>4, <2>5
<1>12. PatchBegun(k + 1)'
  <2>1. V = LastWords(received', HandledMails', (k + 1) + 2)
    BY DEF V
  <2>2. (k + 1) + 2 <= HandledMails' /\ Checksums(V, (k + 1) + 2, write_checksum')
    BY <1>5, <1>9
  <2>3. QED BY <1>10, <1>11, <2>1, <2>2 DEF PatchBegun, Begun, FilledWith
<1>13. k + 1 \in Nat
  OBVIOUS
<1>14. QED BY <1>3, <1>12, <1>13, <1>2, <1>7 DEF SequenceInv

(* Every step. *)
LEMMA SequenceNext ==
  ASSUME MaskInv, ReadyInv, MailInv, SequenceInv, ~Preemptive, [Next]_vars
  PROVE  MailInv' /\ SequenceInv'
<1>1. /\ TypeOK /\ TC_state \in DOMAIN Handlers
      /\ TC_mailbox \in Seq(Mails) /\ Len(TC_mailbox) <= 1
      /\ TC_pc # "WaitMail" => TC_mailbox = <<>>
      /\ TC_pc \in Chosen => TC_pc = Handlers[TC_state]
  BY DEF MaskInv, ReadyInv, TypeOK, LinkType, TaskType
<1>2. ASSUME MailInv', TC_state' \notin WriteStates PROVE MailInv' /\ SequenceInv'
  BY <1>2 DEF SequenceInv, WriteStates
<1>3. CASE TC_InterruptService \/ TM_InterruptService
  BY <1>3, SequenceService
<1>4. CASE HandleTelecommand_Wait
  <2>1. /\ UNCHANGED <<TC_state, received, block>>
        /\ TC_mailbox # <<>> /\ TC_mailbox' = Tail(TC_mailbox) /\ TC_mail' = Head(TC_mailbox)
        /\ TC_pc' = "Mail"
    BY <1>4 DEF HandleTelecommand_Wait, TaskFrame, link
  <2>2. TC_mailbox' = <<>>
    BY <1>1, <2>1
  <2>3. (Pending' <=> Pending) /\ PendingMail' = PendingMail
    BY <2>1, <2>2 DEF Pending, PendingMail
  <2>4. QED BY <1>1, <2>1, <2>3, MailKept
<1>5. CASE HandleTelecommand_Timeout \/ HandleTelecommand_TimeoutError
  <2>1. /\ UNCHANGED <<TC_state, received, block, TC_mailbox>> /\ TC_mailbox = <<>>
        /\ TC_pc \in {"WaitMail", "Timeout"} /\ TC_pc' \in {"Timeout", "TimeoutEnd"}
    BY <1>1, <1>5 DEF HandleTelecommand_Timeout, TC_TaskIdle, HandleTelecommand_TimeoutError,
       TaskFrame, link
  <2>2. ~Pending /\ ~Pending'
    BY <2>1 DEF Pending
  <2>3. QED BY <1>1, <2>1, <2>2, MailKept
<1>6. CASE HandleTelecommand_TimeoutEnd
  <2>1. /\ UNCHANGED <<received, TC_mailbox>> /\ TC_mailbox = <<>>
        /\ TC_pc' = "WaitMail" /\ TC_state' = "TC_handling_e"
    BY <1>1, <1>6 DEF HandleTelecommand_TimeoutEnd, TaskFrame
  <2>2. ~Pending'
    BY <2>1 DEF Pending
  <2>3. QED BY <1>2, <2>1, <2>2 DEF MailInv, WriteStates
<1>7. CASE HandleTelecommand_Test \/ HandleTelecommand_Switch
  <2>1. /\ UNCHANGED <<TC_state, received, block, TC_mailbox, TC_mail>>
        /\ TC_pc \in {"Mail", "Switch"}
        /\ TC_pc' \in {"Ready", "Switch"} \cup Chosen
    BY <1>1, <1>7 DEF HandleTelecommand_Test, HandleTelecommand_Switch, TaskFrame, link, Chosen
  <2>2. TC_pc' \notin {"WaitMail", "Timeout", "TimeoutEnd"}
    BY <2>1, ChosenHandlers
  <2>3. Pending /\ Pending' /\ PendingMail' = PendingMail
    BY <2>1, <2>2 DEF Pending, PendingMail
  <2>4. QED BY <1>1, <2>1, <2>3, MailKept
<1>8. ASSUME NEW pc \in Chosen \cup {"Ready"}, Handled(pc), TC_state' \notin WriteStates
      PROVE  MailInv' /\ SequenceInv'
  <2>1. MailInv'
    BY <1>1, <1>8, HandledMail
  <2>2. QED BY <1>2, <1>8, <2>1
<1>9. CASE HandleTelecommand_Ready
  BY <1>8, <1>9 DEF HandleTelecommand_Ready, WriteStates
<1>10. CASE HandleTelecommand_Drop
  <2>1. Handled("Drop") /\ "Drop" \in Chosen /\ TC_state' = TC_state
    BY <1>10, ChosenHandlers DEF HandleTelecommand_Drop, link
  <2>2. TC_state \notin WriteStates
    BY <1>1, <2>1 DEF Handled, Handlers, WriteStates
  <2>3. QED BY <1>8, <2>1, <2>2
<1>11. CASE HandleTelecommand_ReadMemory
  <2>1. Handled("ReadMemory") /\ "ReadMemory" \in Chosen
    BY <1>11, ChosenHandlers DEF HandleTelecommand_ReadMemory
  <2>2. TC_state = "read_memory_e"
    BY <1>1, <2>1 DEF Handled, Handlers
  <2>3. TC_state' \notin WriteStates
    BY <1>11, <2>2 DEF HandleTelecommand_ReadMemory, WriteStates
  <2>4. QED BY <1>8, <2>1, <2>3
<1>12. CASE WriteMemory_Lsb
  BY <1>1, <1>12, SequenceLsb
<1>13. CASE WriteMemory_Wrong \/ MemoryPatch_Reject \/ MemoryPatch_Write
  <2>1. (Handled("WriteMemory") \/ Handled("MemoryPatch")) /\ TC_state' = "TC_handling_e"
    BY <1>13 DEF WriteMemory_Wrong, MemoryPatch_Reject, MemoryPatch_Write
  <2>2. {"WriteMemory", "MemoryPatch"} \subseteq Chosen /\ TC_state' \notin WriteStates
    BY <2>1, ChosenHandlers DEF WriteStates
  <2>3. QED BY <1>8, <2>1, <2>2
<1>14. CASE MemoryPatch_Fill
  BY <1>1, <1>14, SequenceFill
<1>15. CASE ExecuteCommand
  BY <1>1, <1>15, SequenceStarts
<1>16. CASE SoftReset \/ WatchdogReset
  <2>1. /\ received' = <<>> /\ TC_mailbox' = <<>>
        /\ TC_pc' = "WaitMail" /\ TC_state' = "TC_handling_e"
    BY <1>16 DEF SoftReset, WatchdogReset, Restart
  <2>2. ~Pending' /\ Len(received') = 0
    BY <2>1 DEF Pending
  <2>3. MailInv'
    BY <2>2, RecentSize DEF MailInv
  <2>4. QED BY <1>2, <2>1, <2>3 DEF WriteStates
<1>17. CASE EnterStandBy \/ UNCHANGED vars
  <2>1. UNCHANGED <<TC_state, received, block, TC_mailbox, TC_mail, TC_pc>>
    BY <1>17 DEF EnterStandBy, vars, link, task
  <2>2. (Pending' <=> Pending) /\ PendingMail' = PendingMail
    BY <2>1 DEF Pending, PendingMail
  <2>3. QED BY <1>1, <2>1, <2>2, MailKept
<1>18. QED
  BY <1>3, <1>4, <1>5, <1>6, <1>7, <1>9, <1>10, <1>11, <1>12, <1>13, <1>14, <1>15, <1>16,
     <1>17 DEF Next, TC_Step

(* The word after the block completes a sequence that was sent.              *)
LEMMA BlockSent ==
  ASSUME MaskInv, ReadyInv, MailInv, SequenceInv, TC_pc = "MemoryPatch",
         MemoryPatch_Last, ChecksumOk, written' = Written
  PROVE  SentBlock(Len(received))
<1> DEFINE words == MEM_BUFFER_SIZE \div 2
           n == Len(received)
           W == LastWords(received, n - 1, words + 2)
           v(i) == received[n - 2 - words + i].word
           last == TC_mail.word
<1>1. TypeOK /\ TC_state = "memory_patch_e"
  BY ChosenHandlers DEF MaskInv, Handlers, TypeOK, LinkType
<1>2. Pending /\ PendingMail = TC_mail
  BY DEF ReadyInv, Pending, PendingMail
<1>3. /\ received \in Seq(Mails) /\ n = Len(received) /\ n \in Nat /\ n > 0
      /\ HandledMails = n - 1
      /\ received[n] = TC_mail /\ last \in Word
      /\ write_checksum \in Byte /\ memory_transfer_buffer \in Seq(Byte)
  <2>1. received # <<>> /\ received[n] = TC_mail
    BY <1>1, <1>2 DEF MailInv
  <2>2. QED
    BY <1>1, <1>2, <2>1 DEF TypeOK, TaskType, BlockType, HistoryType, HandledMails, Mails
<1>4. PICK k \in Nat : PatchBegun(k)
  BY <1>1 DEF SequenceInv
<1>5. /\ k = words /\ words \in Nat /\ 2 * words = MEM_BUFFER_SIZE
      /\ Len(memory_transfer_buffer) = MEM_BUFFER_SIZE
  <2>1. Len(memory_transfer_buffer) = 2 * k
    BY <1>4 DEF PatchBegun, FilledWith
  <2>2. Len(memory_transfer_buffer) >= MEM_BUFFER_SIZE /\ Len(memory_transfer_buffer) <= MEM_BUFFER_SIZE
    BY <1>1 DEF MemoryPatch_Last, TypeOK, BlockType
  <2>3. MEM_BUFFER_SIZE \in Nat
    BY TcTmAssumption
  <2>4. QED BY <2>1, <2>2, <2>3
<1> HIDE DEF words, n
<1>6. words + 2 <= n - 1 /\ Begun(W, words + 2) /\ FilledWith(W, words)
  BY <1>3, <1>4, <1>5 DEF PatchBegun
<1>7. \A i \in 1..(words + 2) : W[i] = received[(n - 1) - (words + 2) + i].word
  BY DEF LastWords
<1>8. written'.type = memory_type /\ written'.address = Target /\ written'.bytes = memory_transfer_buffer
  BY DEF Written
<1>9. \A i \in 0..(words + 1) : v(i) = W[i + 1]
  <2>1. ASSUME NEW i \in 0..(words + 1) PROVE v(i) = W[i + 1]
    <3>1. i + 1 \in 1..(words + 2) /\ (n - 1) - (words + 2) + (i + 1) = n - 2 - words + i
      BY <1>3, <1>5
    <3>2. QED BY <1>7, <3>1
  <2>2. QED BY <2>1
<1>10. /\ TC_ADDRESS(v(0)) = MsbAddress(memory_type) /\ TC_CODE(v(0)) = address_MSB
       /\ TC_ADDRESS(v(1)) = LsbAddress(memory_type) /\ TC_CODE(v(1)) = address_LSB
  <2>1. v(0) = W[1] /\ v(1) = W[2]
    BY <1>5, <1>9
  <2> HIDE DEF v, W
  <2>2. QED BY <1>6, <2>1 DEF Begun, FilledWith
<1>11. \A i \in 1..words : /\ memory_transfer_buffer[2 * i - 1] = MSB(v(i + 1))
                           /\ memory_transfer_buffer[2 * i]     = LSB(v(i + 1))
  <2>1. ASSUME NEW i \in 1..words
        PROVE  /\ memory_transfer_buffer[2 * i - 1] = MSB(v(i + 1))
               /\ memory_transfer_buffer[2 * i]     = LSB(v(i + 1))
    <3>1. i + 1 \in 0..(words + 1) /\ (i + 1) + 1 = i + 2
      BY <1>5
    <3>2. v(i + 1) = W[i + 2]
      BY <1>9, <3>1
    <3> HIDE DEF v, W
    <3>3. QED BY <1>6, <3>2 DEF FilledWith
  <2>2. QED BY <2>1
<1>12. SumOf(n - 3 - words, words + 3) = 0
  <2> DEFINE c == XorWord(write_checksum, last)
             V == LastWords(received, n, words + 3)
  <2>1. c = 0
    <3>1. MSB(last) \in Byte /\ LSB(last) \in Byte
      BY <1>3, HalvesType
    <3>2. XorByte(write_checksum, MSB(last)) = LSB(last)
      BY DEF ChecksumOk
    <3>3. QED BY <1>3, <3>1, <3>2, XorCancels DEF XorWord
  <2>2. Checksums(V, (words + 2) + 1, c)
    <3>1. (words + 2) \in Nat /\ n - 1 \in Nat /\ (n - 1) + 1 = n /\ (words + 2) + 1 = words + 3
      BY <1>3, <1>5
    <3>2. (\A i \in 1..(words + 2) : V[i] = W[i]) /\ V[(words + 2) + 1] = last
      <4>1. /\ \A i \in 1..(words + 2) :
                 LastWords(received, (n - 1) + 1, (words + 2) + 1)[i] = W[i]
            /\ LastWords(received, (n - 1) + 1, (words + 2) + 1)[(words + 2) + 1]
                 = received[(n - 1) + 1].word
        BY <1>3, <1>6, <3>1, WordsMore
      <4>2. QED BY <1>3, <3>1, <4>1
    <3>3. Checksums(W, words + 2, write_checksum)
      BY <1>6 DEF Begun
    <3> HIDE DEF V, W
    <3>4. QED BY <1>3, <3>1, <3>2, <3>3, ChecksumsMore
  <2>3. PICK g \in [0..((words + 2) + 1) -> Byte] :
           IsSum(g, V, (words + 2) + 1) /\ g[(words + 2) + 1] = c
    BY <2>2 DEF Checksums
  <2> DEFINE first == n - 3 - words
             count == words + 3
  <2>4. /\ first \in Nat /\ count \in Nat /\ (words + 2) + 1 = count
        /\ DOMAIN g = 0..count /\ g[0] = 0 /\ g[count] = 0
    <3>1. n - 3 - words \in Nat /\ words + 3 \in Nat /\ (words + 2) + 1 = words + 3
      <4> n \in Nat /\ words \in Nat /\ words + 2 <= n - 1
        BY <1>3, <1>5, <1>6
      <4> QED OBVIOUS
    <3> HIDE DEF c, V
    <3>2. DOMAIN g = 0..((words + 2) + 1) /\ g[0] = 0 /\ g[(words + 2) + 1] = 0
      BY <2>1, <2>3 DEF IsSum
    <3>3. QED BY <3>1, <3>2
  <2> HIDE DEF c, V
  <2>5. \A i \in 1..count : V[i] = received[first + i].word
    <3>1. \A i \in 1..count : n - (words + 3) + i = first + i
      BY <1>3, <1>5
    <3>2. QED BY <3>1 DEF V, LastWords
  <2> HIDE DEF first, count
  <2>6. \A i \in 1..count : g[i] = XorWord(g[i - 1], V[i])
    BY <2>3, <2>4 DEF IsSum
  <2>7. \A i \in 1..count : g[i] = XorWord(g[i - 1], received[first + i].word)
    BY <2>5, <2>6
  <2>8. SumOf(first, count) = 0
    BY <2>4, <2>7, SumIs
  <2>9. QED BY <2>8 DEF first, count
<1>13. n > words + 2
  BY <1>3, <1>5, <1>6
<1> HIDE DEF W, v
<1>14. QED
  BY <1>5, <1>8, <1>10, <1>11, <1>12, <1>13 DEF SentBlock, Target, words, n, v

(* A block that is written to memory is one that was sent: its type, its     *)
(* address and its bytes are those of the last words received, which follow  *)
(* each other without a gap and have a good checksum, whatever words,        *)
(* time-outs and resets came before (TC_InterruptService, WriteMemory,       *)
(* MemoryPatch), when handlers run to their end.                             *)
THEOREM PatchCorrect == ASSUME ~Preemptive PROVE Spec => PatchIsSentBlock
<1> DEFINE Inv == MaskInv /\ ReadyInv /\ MailInv /\ SequenceInv
<1>1. Init => Inv
  <2> SUFFICES ASSUME Init PROVE Inv
    OBVIOUS
  <2>1. TC_state = "TC_handling_e" /\ received = <<>> /\ TC_mailbox = <<>> /\ TC_pc = "WaitMail"
    BY DEF Init
  <2>2. MaskInv /\ ReadyInv
    BY TypeInit, SessionInit, ChosenHandlers DEF Init, MaskInv, TelemetryStates
  <2>3. ~Pending /\ Len(received) = 0
    BY <2>1 DEF Pending
  <2>4. QED BY <2>1, <2>2, <2>3, RecentSize DEF MailInv, SequenceInv
<1>2. Inv /\ TypeOK' /\ [Next]_vars => Inv'
  BY MaskNext, ReadyNext, SequenceNext
<1>3. Inv /\ [Next]_vars => (written' # written => SentBlock(Len(received)))
  <2> SUFFICES ASSUME Inv, [Next]_vars, written' # written PROVE SentBlock(Len(received))
    OBVIOUS
  <2>1. MemoryPatch_Write \/ SoftReset
    <3>1. BlockSteps
      BY BlockFrame DEF effects
    <3>2. QED
      BY <3>1 DEF BlockSteps, WriteMemory_Lsb, WriteMemory_Wrong, MemoryPatch_Fill,
         MemoryPatch_Reject, ExecuteCommand_ReadMsb, ExecuteCommand_WriteMsb,
         ExecuteCommand_SetTime, effects
  <2>2. /\ TC_pc = "MemoryPatch" /\ MemoryPatch_Last /\ ChecksumOk /\ written' = Written
    BY <2>1 DEF MemoryPatch_Write, SoftReset, MemoryPatch_Last
  <2>3. QED BY <2>2, BlockSent
<1>4. Spec => []TypeOK
  BY TypeCorrect, PTL
<1> HIDE DEF Inv
<1>5. QED BY <1>1, <1>2, <1>3, <1>4, PTL DEF Spec, PatchIsSentBlock

=============================================================================
