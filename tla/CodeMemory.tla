----------------------------- MODULE CodeMemory -----------------------------
(***************************************************************************)
(* The program memory of DEBIE-1 (hw_if.c, health.c, tc_hand.c): the code  *)
(* is copied from PROM to SRAM1 at boot, telecommands patch it, radiation  *)
(* flips bits of it, and Health Monitoring computes its checksum, a piece  *)
(* a second and a byte at a time, while all this goes on.                  *)
(*                                                                         *)
(* A byte is the set of its bits that are one, so exclusive or is the      *)
(* symmetric difference and a checksum is the set of bits that are one in  *)
(* an odd number of bytes.                                                 *)
(***************************************************************************)
EXTENDS Integers, FiniteSets

CONSTANTS CHECK_SIZE,          \* bytes checked in one round
          MAX_CHECKSUM_COUNT,  \* number of the first piece; the last one is 0
          CODE_MEMORY_END,     \* last address of the code memory
          BEGIN_SRAM1,         \* first address that is copied to SRAM1
          MEM_BUFFER_SIZE,     \* bytes of a patch
          Bits,                \* bits of a byte
          PROM,                \* contents of the PROM
          MaxPatches,          \* bound on the patches of a behaviour
          MaxFlips             \* bound on the bits that flip in a behaviour

Code == 0..CODE_MEMORY_END
SRAM1 == BEGIN_SRAM1..CODE_MEMORY_END
Byte == SUBSET Bits

Xor(x, y) == (x \ y) \cup (y \ x)

\* Exclusive or of the bytes of mem at the addresses S.
Sum(mem, S) == {b \in Bits : Cardinality({a \in S : b \in mem[a]}) % 2 = 1}

MIN_CHECKSUM_COUNT == 0
INITIAL_CHECKSUM_VALUE == {}
NO_RAM_FAILURE == 65535

\* The pieces cover the code memory and the last of them does not end before
\* it; see the comment on CODE_MEMORY_END.
ASSUME PiecesAssumption ==
  /\ CHECK_SIZE \in Nat \ {0} /\ MAX_CHECKSUM_COUNT \in Nat
  /\ CODE_MEMORY_END \in Nat /\ CODE_MEMORY_END < NO_RAM_FAILURE
  /\ MAX_CHECKSUM_COUNT * CHECK_SIZE <= CODE_MEMORY_END
  /\ CODE_MEMORY_END < (MAX_CHECKSUM_COUNT + 1) * CHECK_SIZE

ASSUME MemoryAssumption ==
  /\ BEGIN_SRAM1 \in Code
  /\ MEM_BUFFER_SIZE \in Nat \ {0}

\* The constant checksum_nullifier in the PROM makes its checksum zero.
ASSUME PROMAssumption ==
  /\ PROM \in [Code -> Byte]
  /\ Sum(PROM, Code) = INITIAL_CHECKSUM_VALUE

ASSUME BoundsAssumption == MaxPatches \in Nat /\ MaxFlips \in Nat

VARIABLES
  mapped,               \* memory that the I/O port maps to the code addresses
  memory_mode, failed_code_address, s_w_reset,
  sram1,                \* contents of SRAM1
  reference_checksum, code_checksum, code_not_patched, checksum_count,
  health,               \* where start-up and Health Monitoring are
  i,                    \* next byte to be checked
  reset_class,          \* class of the reset that is under way
  patches, flips,       \* patches and flipped bits so far
  flipped,              \* history: exclusive or of all flips since the code was copied
  disturbed,            \* history: a bit has flipped since the code was copied
  patched_aside         \* history: a patch was stored while the PROM was running

memory   == <<mapped, memory_mode, failed_code_address, sram1>>
checking == <<reference_checksum, code_checksum, code_not_patched, checksum_count, i>>
history  == <<flipped, disturbed, patched_aside>>
vars == <<memory, checking, s_w_reset, health, reset_class, patches, flips, history>>

ResetClass == {"power_up_reset_e", "watchdog_reset_e", "soft_reset_e", "warm_reset_e",
               "error_e", "checksum_reset_e"}
Configuration == {"PROM_e", "SRAM_e"}
AtRest  == "wait"
InCheck == {"flag", "byte", "compare", "excuse"}
Running == health \in {AtRest} \cup InCheck

TypeOK ==
  /\ mapped \in Configuration /\ memory_mode \in Configuration
  /\ failed_code_address \in SRAM1 \cup {NO_RAM_FAILURE}
  /\ s_w_reset \in ResetClass /\ reset_class \in ResetClass \ {"error_e"}
  /\ sram1 \in [SRAM1 -> Byte]
  /\ reference_checksum \in Byte /\ code_checksum \in Byte /\ flipped \in Byte
  /\ code_not_patched \in {0, 1}
  /\ checksum_count \in MIN_CHECKSUM_COUNT..MAX_CHECKSUM_COUNT
  /\ health \in {"reset", "boot", AtRest} \cup InCheck
  /\ i \in 0..(CODE_MEMORY_END + 1)
  /\ patches \in 0..MaxPatches /\ flips \in 0..MaxFlips
  /\ disturbed \in BOOLEAN /\ patched_aside \in BOOLEAN

\* What a read of the code memory returns: SRAM1 holds no code below BEGIN_SRAM1.
GET_CODE_BYTE(a) == IF mapped = "SRAM_e" /\ a \in SRAM1 THEN sram1[a] ELSE PROM[a]
CodeInUse == [a \in Code |-> GET_CODE_BYTE(a)]

----------------------------------------------------------------------------
(* Reset and start-up.  Init_DPU restarts the watchdog before all else, so *)
(* that it does not fire before the tasks run.                             *)

\* After power-up data memory, where variables without an initial value are,
\* and SRAM1 hold anything.
Init ==
  /\ health = "reset" /\ reset_class = "power_up_reset_e" /\ mapped = "PROM_e"
  /\ memory_mode \in Configuration /\ failed_code_address \in SRAM1 \cup {NO_RAM_FAILURE}
  /\ s_w_reset \in ResetClass
  /\ sram1 \in [SRAM1 -> Byte]
  /\ reference_checksum \in Byte /\ code_checksum \in Byte
  /\ code_not_patched = 1 /\ checksum_count = MAX_CHECKSUM_COUNT /\ i = 0
  /\ patches = 0 /\ flips = 0
  /\ flipped = {} /\ disturbed = FALSE /\ patched_aside = FALSE

\* The start-up code, in PROM, is entered with the class of the reset.
Reboot(class) ==
  /\ health' = "reset" /\ reset_class' = class /\ mapped' = "PROM_e"

\* The watchdog fires, or power is lost and comes back; of the data in RAM
\* only what Init_DPU and Boot do not set again matters to what follows.
HardwareReset ==
  /\ Running
  /\ \E class \in {"power_up_reset_e", "watchdog_reset_e"} : Reboot(class)
  /\ UNCHANGED <<memory_mode, failed_code_address, sram1, checking, s_w_reset, patches, flips, history>>

\* A warm reset keeps SRAM1 and what is known about it; others test it, which
\* destroys it, and copy the program to it if it is good.
InitCode_RAM(class, code_address) ==
  IF class = "warm_reset_e"
    THEN /\ code_address = failed_code_address
         /\ UNCHANGED <<sram1, flipped, disturbed>>
    ELSE /\ code_address \in SRAM1 \cup {NO_RAM_FAILURE}
         /\ IF code_address = NO_RAM_FAILURE THEN sram1' = [a \in SRAM1 |-> PROM[a]]
                                             ELSE sram1' \in [SRAM1 -> Byte]
         /\ flipped' = {} /\ disturbed' = FALSE

Init_DPU ==
  /\ health = "reset"
  /\ \E code_address \in SRAM1 \cup {NO_RAM_FAILURE} :
       LET configuration == IF code_address = NO_RAM_FAILURE THEN "SRAM_e" ELSE "PROM_e"
       IN  /\ InitCode_RAM(reset_class, code_address)
           /\ failed_code_address' = code_address
           /\ mapped' = configuration /\ memory_mode' = configuration
  /\ s_w_reset' = reset_class /\ code_not_patched' = 1
  /\ health' = "boot"
  /\ UNCHANGED <<reference_checksum, code_checksum, checksum_count, i, reset_class,
                 patches, flips, patched_aside>>

\* The C start-up gives checksum_count its initial value, then Boot runs.
Boot ==
  /\ health = "boot"
  /\ IF s_w_reset # "warm_reset_e"
       THEN reference_checksum' = INITIAL_CHECKSUM_VALUE /\ patched_aside' = FALSE
       ELSE UNCHANGED <<reference_checksum, patched_aside>>
  /\ s_w_reset' = "error_e"
  /\ checksum_count' = MAX_CHECKSUM_COUNT
  /\ health' = AtRest
  /\ UNCHANGED <<memory, code_checksum, code_not_patched, i, reset_class, patches, flips,
                 flipped, disturbed>>

----------------------------------------------------------------------------
(* Health Monitoring.  Telecommands and radiation change the memory        *)
(* between any two steps of it.                                            *)

check_start == checksum_count * CHECK_SIZE
check_end == IF checksum_count = MAX_CHECKSUM_COUNT THEN CODE_MEMORY_END
                                                    ELSE check_start + (CHECK_SIZE - 1)

\* A new pass over the memory begins.
CalculateChecksum_Clear ==
  /\ health = AtRest /\ checksum_count = MAX_CHECKSUM_COUNT
  /\ code_checksum' = {} /\ i' = check_start
  /\ health' = "flag"
  /\ UNCHANGED <<memory, reference_checksum, code_not_patched, checksum_count, s_w_reset,
                 reset_class, patches, flips, history>>

\* Fault: the excuse of one pass lasts for all later ones.
CalculateChecksum_Flag_Kept ==
  /\ health = "flag"
  /\ health' = "byte"
  /\ UNCHANGED <<memory, checking, s_w_reset, reset_class, patches, flips, history>>

CalculateChecksum_Flag ==
  /\ health = "flag"
  /\ code_not_patched' = 1
  /\ health' = "byte"
  /\ UNCHANGED <<memory, reference_checksum, code_checksum, checksum_count, i, s_w_reset,
                 reset_class, patches, flips, history>>

CalculateChecksum_Start ==
  /\ health = AtRest /\ checksum_count # MAX_CHECKSUM_COUNT
  /\ i' = check_start
  /\ health' = "byte"
  /\ UNCHANGED <<memory, reference_checksum, code_checksum, code_not_patched, checksum_count,
                 s_w_reset, reset_class, patches, flips, history>>

CalculateChecksum_Byte ==
  /\ health = "byte"
  /\ code_checksum' = Xor(code_checksum, GET_CODE_BYTE(i))
  /\ i' = i + 1
  /\ health' = IF i' <= check_end THEN "byte" ELSE "compare"
  /\ UNCHANGED <<memory, reference_checksum, code_not_patched, checksum_count, s_w_reset,
                 reset_class, patches, flips, history>>

\* Fault: CHECK_COUNT is the number of the pieces, not of the first one.
NextPiece_Count ==
  /\ checksum_count' = IF checksum_count > 0 THEN checksum_count - 1 ELSE MAX_CHECKSUM_COUNT + 1
  /\ health' = AtRest

\* UpdatePeriodCounter(&checksum_count, CHECK_COUNT), and the rest of Monitor.
NextPiece ==
  /\ checksum_count' = IF checksum_count > 0 THEN checksum_count - 1 ELSE MAX_CHECKSUM_COUNT
  /\ health' = AtRest

CalculateChecksum_Compare ==
  /\ health = "compare"
  /\ IF checksum_count = MIN_CHECKSUM_COUNT /\ code_checksum # reference_checksum
       THEN health' = "excuse" /\ UNCHANGED checksum_count
       ELSE NextPiece
  /\ UNCHANGED <<memory, reference_checksum, code_checksum, code_not_patched, i, s_w_reset,
                 reset_class, patches, flips, history>>

\* A mismatch is excused by a patch in the same pass.
CalculateChecksum_Excuse ==
  /\ health = "excuse" /\ code_not_patched = 0
  /\ NextPiece
  /\ UNCHANGED <<memory, reference_checksum, code_checksum, code_not_patched, i, s_w_reset,
                 reset_class, patches, flips, history>>

CalculateChecksum_Reboot ==
  /\ health = "excuse" /\ code_not_patched = 1
  /\ Reboot("checksum_reset_e")
  /\ UNCHANGED <<memory_mode, failed_code_address, sram1, checking, s_w_reset, patches, flips, history>>

----------------------------------------------------------------------------
(* Telecommand Execution, and radiation.                                   *)

Block(destination) == destination..(destination + MEM_BUFFER_SIZE - 1)

\* What PatchCode takes: the block is in SRAM1.
Blocks == {destination..(destination + MEM_BUFFER_SIZE - 1) :
             destination \in BEGIN_SRAM1..(CODE_MEMORY_END - MEM_BUFFER_SIZE + 1)}

\* Fault: the bytes that the patch overwrites are left out of the checksum.
PatchCode_OldKept(block, source, execution_command) ==
  /\ sram1' = [a \in SRAM1 |-> IF a \in block THEN source[a] ELSE sram1[a]]
  /\ reference_checksum' = Xor(reference_checksum, Sum(source, block))
  /\ UNCHANGED memory_mode
  /\ \/ /\ execution_command = "continue"
        /\ mapped' = memory_mode /\ UNCHANGED <<health, reset_class>>
     \/ /\ execution_command \in {"soft_reset_e", "warm_reset_e"}
        /\ Reboot(execution_command)

\* Interrupts are disabled: SRAM1 is written through the data addresses, the
\* mapping is restored, and the execution command is to continue, or to call
\* the patch, which is taken to return, or one of two resets.
PatchCode(block, source, execution_command) ==
  LET old_checksum == Sum(sram1, block)
      new_checksum == Sum(source, block)
  IN  /\ sram1' = [a \in SRAM1 |-> IF a \in block THEN source[a] ELSE sram1[a]]
      /\ reference_checksum' = Xor(reference_checksum, Xor(old_checksum, new_checksum))
      /\ UNCHANGED memory_mode
      /\ \/ /\ execution_command = "continue"
            /\ mapped' = memory_mode /\ UNCHANGED <<health, reset_class>>
         \/ /\ execution_command \in {"soft_reset_e", "warm_reset_e"}
            /\ Reboot(execution_command)

\* Fault: the pass under way is not told of the patch.
MemoryPatch_Untold ==
  /\ Running /\ patches < MaxPatches
  /\ \E block \in Blocks :
       \E source \in [block -> Byte],
          command \in {"continue", "soft_reset_e", "warm_reset_e"} :
         PatchCode(block, source, command)
  /\ patches' = patches + 1
  /\ patched_aside' = (patched_aside \/ mapped = "PROM_e")
  /\ UNCHANGED <<failed_code_address, code_checksum, code_not_patched, checksum_count, i,
                 s_w_reset, flips, flipped, disturbed>>

\* MemoryPatch with a complete and correct block for the code memory.  Nothing
\* of lower priority runs between the flag and PatchCode.
MemoryPatch ==
  /\ Running /\ patches < MaxPatches
  /\ code_not_patched' = 0
  /\ \E block \in Blocks :
       \E source \in [block -> Byte],
          command \in {"continue", "soft_reset_e", "warm_reset_e"} :
         PatchCode(block, source, command)
  /\ patches' = patches + 1
  /\ patched_aside' = (patched_aside \/ mapped = "PROM_e")
  /\ UNCHANGED <<failed_code_address, code_checksum, checksum_count, i, s_w_reset,
                 flips, flipped, disturbed>>

\* The SOFT_RESET telecommand.
SoftReset ==
  /\ Running
  /\ Reboot("soft_reset_e")
  /\ UNCHANGED <<memory_mode, failed_code_address, sram1, checking, s_w_reset, patches, flips, history>>

\* While the PROM is mapped, SRAM1 is the lower half of data memory and holds
\* science data.
DataWrite ==
  /\ Running /\ mapped = "PROM_e"
  /\ \E a \in SRAM1, byte \in Byte : sram1' = [sram1 EXCEPT ![a] = byte]
  /\ UNCHANGED <<mapped, memory_mode, failed_code_address, checking, s_w_reset, health,
                 reset_class, patches, flips, history>>

\* Radiation flips a bit of the code that is running.
BitFlip ==
  /\ Running /\ mapped = "SRAM_e" /\ flips < MaxFlips
  /\ \E a \in SRAM1, b \in Bits :
       /\ sram1' = [sram1 EXCEPT ![a] = Xor(@, {b})]
       /\ flipped' = Xor(flipped, {b})
  /\ disturbed' = TRUE /\ flips' = flips + 1
  /\ UNCHANGED <<mapped, memory_mode, failed_code_address, checking, s_w_reset, health,
                 reset_class, patches, patched_aside>>

----------------------------------------------------------------------------

StartUp == Init_DPU \/ Boot

CalculateChecksum ==
  \/ CalculateChecksum_Clear \/ CalculateChecksum_Flag \/ CalculateChecksum_Start
  \/ CalculateChecksum_Byte \/ CalculateChecksum_Compare
  \/ CalculateChecksum_Excuse \/ CalculateChecksum_Reboot

Next == StartUp \/ CalculateChecksum \/ MemoryPatch \/ SoftReset \/ HardwareReset
        \/ DataWrite \/ BitFlip

Spec == Init /\ [][Next]_vars

\* Start-up runs alone, and Health Monitoring gets the processor again when
\* the other tasks wait for their events.
FairSpec == Spec /\ WF_vars(StartUp) /\ WF_vars(CalculateChecksum)

----------------------------------------------------------------------------

\* While the code runs from SRAM1 reference_checksum differs from the checksum
\* of the memory by what radiation has changed, and by nothing else: patches
\* are accounted for, those of a pass under way and those that a warm reset
\* keeps, and a copy from the PROM forgets them.
ReferenceTracksCode ==
  (Running /\ mapped = "SRAM_e") => Xor(reference_checksum, Sum(CodeInUse, Code)) = flipped

\* Health Monitoring reboots the DPU for its checksum only when radiation has
\* changed the code since it was copied, or when a patch was stored while the
\* DPU runs from PROM; a patch in the middle of a pass is never taken for an
\* error in the memory.
ChecksumResetHasCause ==
  [][(reset_class' = "checksum_reset_e" /\ health' = "reset" /\ health # "reset")
       => disturbed \/ patched_aside]_vars

\* When the checksum of the code has gone wrong the code is copied again, or
\* the error undoes itself, once patches end: the passes that patches excuse
\* are followed by one that they do not.
CorruptionIsFound == (flipped # {}) ~> (flipped = {})
=============================================================================
