-------------------------- MODULE CodeMemory_proofs --------------------------
(***************************************************************************)
(* Theorems about CodeMemory for every size of the code memory, of its     *)
(* pieces and of a patch, every width of a byte and any contents.          *)
(***************************************************************************)
EXTENDS CodeMemory, FiniteSetTheorems, TLAPS

----------------------------------------------------------------------------
(* Checksums of bytes as sets of bits.                                     *)

LEMMA CodeFinite == \A S \in SUBSET Code : IsFiniteSet(S)
<1>1. CODE_MEMORY_END \in Int /\ 0 \in Int
  BY PiecesAssumption
<1>2. IsFiniteSet(Code)
  BY <1>1, FS_Interval DEF Code
<1>3. QED BY <1>2, FS_Subset

LEMMA OddSum ==
  ASSUME NEW m \in Nat, NEW n \in Nat
  PROVE  (m + n) % 2 = 1 <=> ~(m % 2 = 1 <=> n % 2 = 1)
OBVIOUS

LEMMA OddSuccessor ==
  ASSUME NEW m \in Nat
  PROVE  (m + 1) % 2 = 1 <=> ~(m % 2 = 1)
OBVIOUS

(* The checksum of two disjoint parts of the memory.                       *)
LEMMA SumUnion ==
  ASSUME NEW mem, NEW S \in SUBSET Code, NEW T \in SUBSET Code, S \cap T = {}
  PROVE  Sum(mem, S \cup T) = Xor(Sum(mem, S), Sum(mem, T))
<1>1. ASSUME NEW b \in Bits
      PROVE  b \in Sum(mem, S \cup T) <=> ~(b \in Sum(mem, S) <=> b \in Sum(mem, T))
  <2> DEFINE OnesS == {a \in S : b \in mem[a]}
             OnesT == {a \in T : b \in mem[a]}
             Ones == {a \in S \cup T : b \in mem[a]}
  <2>1. IsFiniteSet(OnesS) /\ IsFiniteSet(OnesT)
    BY CodeFinite
  <2>2. Cardinality(Ones) = Cardinality(OnesS) + Cardinality(OnesT)
    <3>1. Ones = OnesS \cup OnesT /\ OnesS \cap OnesT = {}
      OBVIOUS
    <3>2. Cardinality(OnesS \cup OnesT) =
             Cardinality(OnesS) + Cardinality(OnesT) - Cardinality(OnesS \cap OnesT)
      BY <2>1, FS_Union
    <3>3. Cardinality(OnesS) \in Nat /\ Cardinality(OnesT) \in Nat
      BY <2>1, FS_CardinalityType
    <3>4. Cardinality(OnesS \cap OnesT) = 0
      BY <3>1, FS_EmptySet
    <3> HIDE DEF OnesS, OnesT, Ones
    <3>5. QED BY <3>1, <3>2, <3>3, <3>4
  <2>3. Cardinality(OnesS) \in Nat /\ Cardinality(OnesT) \in Nat
    BY <2>1, FS_CardinalityType
  <2>4. (Cardinality(OnesS) + Cardinality(OnesT)) % 2 = 1
          <=> ~(Cardinality(OnesS) % 2 = 1 <=> Cardinality(OnesT) % 2 = 1)
    BY <2>3, OddSum
  <2>5. /\ b \in Sum(mem, S) <=> Cardinality(OnesS) % 2 = 1
        /\ b \in Sum(mem, T) <=> Cardinality(OnesT) % 2 = 1
        /\ b \in Sum(mem, S \cup T) <=> Cardinality(Ones) % 2 = 1
    BY DEF Sum
  <2>6. QED BY <2>2, <2>4, <2>5
<1>2. Sum(mem, S) \subseteq Bits /\ Sum(mem, T) \subseteq Bits /\ Sum(mem, S \cup T) \subseteq Bits
  BY DEF Sum
<1>3. QED BY <1>1, <1>2 DEF Xor

LEMMA SumSingle ==
  ASSUME NEW mem, NEW a \in Code, mem[a] \in Byte
  PROVE  Sum(mem, {a}) = mem[a]
<1>1. ASSUME NEW b \in Bits
      PROVE  b \in Sum(mem, {a}) <=> b \in mem[a]
  <2>1. CASE b \in mem[a]
    <3>1. {c \in {a} : b \in mem[c]} = {a}
      BY <2>1
    <3>2. Cardinality({a}) % 2 = 1
      <4>1. Cardinality({a}) = 1
        BY FS_Singleton
      <4>2. QED BY <4>1
    <3>3. QED BY <2>1, <3>1, <3>2 DEF Sum
  <2>2. CASE b \notin mem[a]
    <3>1. {c \in {a} : b \in mem[c]} = {}
      BY <2>2
    <3>2. ~ (Cardinality({}) % 2 = 1)
      <4>1. Cardinality({}) = 0
        BY FS_EmptySet
      <4>2. QED BY <4>1
    <3>3. QED BY <2>2, <3>1, <3>2 DEF Sum
  <2>3. QED BY <2>1, <2>2
<1>2. Sum(mem, {a}) \subseteq Bits
  BY DEF Sum
<1>3. QED BY <1>1, <1>2 DEF Byte

LEMMA SumEmpty ==
  ASSUME NEW mem
  PROVE  Sum(mem, {}) = {}
<1>1. ~ (Cardinality({}) % 2 = 1)
  <2>1. Cardinality({}) = 0
    BY FS_EmptySet
  <2>2. QED BY <2>1
<1>2. \A b : {a \in {} : b \in mem[a]} = {}
  OBVIOUS
<1>3. QED BY <1>1, <1>2 DEF Sum

(* Equal bytes have equal checksums.                                       *)
LEMMA SumEqual ==
  ASSUME NEW mem1, NEW mem2, NEW S, \A a \in S : mem1[a] = mem2[a]
  PROVE  Sum(mem1, S) = Sum(mem2, S)
<1>1. \A b : {a \in S : b \in mem1[a]} = {a \in S : b \in mem2[a]}
  OBVIOUS
<1>2. QED BY <1>1 DEF Sum

LEMMA SumType == \A mem, S : Sum(mem, S) \in Byte
BY DEF Sum, Byte

LEMMA XorType == \A x, y \in Byte : Xor(x, y) \in Byte
BY DEF Xor, Byte

(* The checksum of a memory of which a block has changed.                  *)
LEMMA SumPatched ==
  ASSUME NEW mem1, NEW mem2, NEW block \in SUBSET Code,
         \A a \in Code \ block : mem1[a] = mem2[a]
  PROVE  Sum(mem2, Code) = Xor(Sum(mem1, Code), Xor(Sum(mem1, block), Sum(mem2, block)))
<1>1. Code = (Code \ block) \cup block /\ (Code \ block) \cap block = {}
  OBVIOUS
<1>2. Sum(mem1, Code) = Xor(Sum(mem1, Code \ block), Sum(mem1, block))
  BY <1>1, SumUnion
<1>3. Sum(mem2, Code) = Xor(Sum(mem2, Code \ block), Sum(mem2, block))
  BY <1>1, SumUnion
<1>4. Sum(mem1, Code \ block) = Sum(mem2, Code \ block)
  BY SumEqual
<1>5. \A x, y, z : Xor(x, z) = Xor(Xor(x, y), Xor(y, z))
  BY DEF Xor
<1>6. QED BY <1>2, <1>3, <1>4, <1>5
----------------------------------------------------------------------------
(* The pieces of a pass.                                                   *)

LEMMA Constants ==
  /\ CODE_MEMORY_END \in Nat /\ BEGIN_SRAM1 \in Nat /\ MEM_BUFFER_SIZE \in Nat \ {0}
  /\ CHECK_SIZE \in Nat \ {0} /\ MAX_CHECKSUM_COUNT \in Nat
  /\ SRAM1 \subseteq Code /\ {} \in Byte /\ PROM \in [Code -> Byte] /\ NO_RAM_FAILURE \notin SRAM1
<1>1. CODE_MEMORY_END \in Nat /\ CODE_MEMORY_END < NO_RAM_FAILURE
      /\ CHECK_SIZE \in Nat \ {0} /\ MAX_CHECKSUM_COUNT \in Nat
  BY PiecesAssumption
<1>2. BEGIN_SRAM1 \in Code /\ MEM_BUFFER_SIZE \in Nat \ {0}
  BY MemoryAssumption
<1>3. PROM \in [Code -> Byte]
  BY PROMAssumption
<1>4. NO_RAM_FAILURE \in Nat
  BY DEF NO_RAM_FAILURE
<1>5. QED BY <1>1, <1>2, <1>3, <1>4 DEF Code, SRAM1, Byte

Product(c) == c * CHECK_SIZE

LEMMA PieceProducts ==
  ASSUME NEW c \in 0..MAX_CHECKSUM_COUNT
  PROVE  /\ Product(c) \in Nat /\ Product(c + 1) = Product(c) + CHECK_SIZE
         /\ Product(c) <= CODE_MEMORY_END
         /\ c < MAX_CHECKSUM_COUNT => Product(c + 1) <= CODE_MEMORY_END
<1>1. c \in Nat /\ CHECK_SIZE \in Nat /\ MAX_CHECKSUM_COUNT \in Nat /\ CODE_MEMORY_END \in Nat
  BY Constants
<1>2. Product(c) \in Nat /\ Product(c + 1) = Product(c) + CHECK_SIZE
  BY <1>1 DEF Product
<1>3. MAX_CHECKSUM_COUNT * CHECK_SIZE <= CODE_MEMORY_END
  BY PiecesAssumption
<1>4. ASSUME NEW d \in Nat, d <= MAX_CHECKSUM_COUNT
      PROVE  d * CHECK_SIZE <= MAX_CHECKSUM_COUNT * CHECK_SIZE
  BY <1>1, <1>4
<1>5. ASSUME NEW d \in Nat, d <= MAX_CHECKSUM_COUNT
      PROVE  Product(d) <= CODE_MEMORY_END
  <2>1. d * CHECK_SIZE \in Nat /\ MAX_CHECKSUM_COUNT * CHECK_SIZE \in Nat
    BY <1>1
  <2>2. QED BY <2>1, <1>1, <1>3, <1>4, <1>5 DEF Product
<1>6. QED BY <1>1, <1>2, <1>5

LEMMA Pieces ==
  ASSUME checksum_count \in MIN_CHECKSUM_COUNT..MAX_CHECKSUM_COUNT
  PROVE  /\ check_start \in Nat /\ check_end \in Nat
         /\ check_start <= check_end /\ check_end <= CODE_MEMORY_END
         /\ checksum_count = MAX_CHECKSUM_COUNT => check_end = CODE_MEMORY_END
         /\ checksum_count = 0 => check_start = 0
<1>1. checksum_count \in 0..MAX_CHECKSUM_COUNT
  BY DEF MIN_CHECKSUM_COUNT
<1>2. /\ check_start = Product(checksum_count) /\ check_start \in Nat
      /\ check_start <= CODE_MEMORY_END
      /\ checksum_count < MAX_CHECKSUM_COUNT =>
           Product(checksum_count) + CHECK_SIZE <= CODE_MEMORY_END
  BY <1>1, PieceProducts DEF check_start, Product
<1>3. checksum_count = 0 => check_start = 0
  BY Constants DEF check_start
<1>4. CASE checksum_count = MAX_CHECKSUM_COUNT
  BY <1>2, <1>3, <1>4, Constants DEF check_end
<1>5. CASE checksum_count # MAX_CHECKSUM_COUNT
  <2>1. check_end = check_start + (CHECK_SIZE - 1)
    BY <1>5 DEF check_end
  <2>2. checksum_count < MAX_CHECKSUM_COUNT
    BY <1>1, <1>5, Constants
  <2>3. QED BY <1>2, <1>3, <1>5, <2>1, <2>2, Constants
<1>6. QED BY <1>4, <1>5

LEMMA NextPieceStarts ==
  ASSUME checksum_count \in MIN_CHECKSUM_COUNT..MAX_CHECKSUM_COUNT, NextPiece
  PROVE  /\ checksum_count' \in MIN_CHECKSUM_COUNT..MAX_CHECKSUM_COUNT
         /\ checksum_count' # MAX_CHECKSUM_COUNT => check_end' + 1 = check_start
<1>1. checksum_count \in 0..MAX_CHECKSUM_COUNT /\ MAX_CHECKSUM_COUNT \in Nat /\ CHECK_SIZE \in Nat
  BY Constants DEF MIN_CHECKSUM_COUNT
<1>2. checksum_count' \in 0..MAX_CHECKSUM_COUNT
  BY <1>1 DEF NextPiece
<1>3. ASSUME checksum_count' # MAX_CHECKSUM_COUNT
      PROVE  check_end' + 1 = check_start
  <2>1. checksum_count' + 1 = checksum_count
    BY <1>1, <1>3 DEF NextPiece
  <2>2. /\ Product(checksum_count' + 1) = Product(checksum_count') + CHECK_SIZE
        /\ Product(checksum_count') \in Nat
    BY <1>2, PieceProducts
  <2>3. check_end' = Product(checksum_count') + (CHECK_SIZE - 1)
    BY <1>3 DEF check_end, check_start, Product
  <2>4. check_start = Product(checksum_count)
    BY DEF check_start, Product
  <2>5. QED BY <2>1, <2>2, <2>3, <2>4, <1>1
<1>4. QED BY <1>2, <1>3 DEF MIN_CHECKSUM_COUNT

----------------------------------------------------------------------------
(* Types.  The place where start-up and Health Monitoring are bounds i.    *)

MemoryType ==
  /\ mapped \in Configuration /\ memory_mode \in Configuration
  /\ failed_code_address \in SRAM1 \cup {NO_RAM_FAILURE}
  /\ s_w_reset \in ResetClass /\ reset_class \in ResetClass \ {"error_e"}
  /\ sram1 \in [SRAM1 -> Byte]
ChecksumType ==
  /\ reference_checksum \in Byte /\ code_checksum \in Byte /\ flipped \in Byte
  /\ code_not_patched \in {0, 1}
CountType ==
  /\ checksum_count \in MIN_CHECKSUM_COUNT..MAX_CHECKSUM_COUNT
  /\ health \in {"reset", "boot", AtRest} \cup InCheck
  /\ i \in 0..(CODE_MEMORY_END + 1)
BoundType == patches \in 0..MaxPatches /\ flips \in 0..MaxFlips
HistoryType == disturbed \in BOOLEAN /\ patched_aside \in BOOLEAN

\* Where the next byte lies, and when a pass is at its start or end.
Place ==
  /\ health = "flag" => i = check_start /\ checksum_count = MAX_CHECKSUM_COUNT
  /\ health = "byte" => i \in check_start..check_end
  /\ health \in {"compare", "excuse"} => i = check_end + 1
  /\ health = "excuse" => checksum_count = MIN_CHECKSUM_COUNT

TypeInv == MemoryType /\ ChecksumType /\ CountType /\ BoundType /\ HistoryType /\ Place

LEMMA TypeParts ==
  TypeOK <=> MemoryType /\ ChecksumType /\ CountType /\ BoundType /\ HistoryType
BY DEF TypeOK, MemoryType, ChecksumType, CountType, BoundType, HistoryType

LEMMA TypeInit == Init => TypeInv
<1> SUFFICES ASSUME Init PROVE TypeInv
  OBVIOUS
<1>1. MAX_CHECKSUM_COUNT \in Nat /\ CODE_MEMORY_END \in Nat /\ {} \in Byte
  BY Constants
<1>2. MemoryType
  BY DEF Init, MemoryType, ResetClass, Configuration
<1>3. ChecksumType
  BY <1>1 DEF Init, ChecksumType
<1>4. CountType
  BY <1>1 DEF Init, CountType, MIN_CHECKSUM_COUNT
<1>5. BoundType
  BY BoundsAssumption DEF Init, BoundType
<1>6. HistoryType /\ Place
  BY DEF Init, HistoryType, Place
<1>7. QED BY <1>2, <1>3, <1>4, <1>5, <1>6 DEF TypeInv

\* The actions other than those of Health Monitoring that change nothing of
\* the pass, and those of Health Monitoring.
Others == MemoryPatch \/ SoftReset \/ HardwareReset \/ DataWrite \/ BitFlip

LEMMA NextCases == Next <=> StartUp \/ CalculateChecksum \/ Others
BY DEF Next, Others

LEMMA RebootType ==
  ASSUME NEW class \in ResetClass \ {"error_e"}, Reboot(class)
  PROVE  /\ mapped' \in Configuration /\ reset_class' \in ResetClass \ {"error_e"}
         /\ health' = "reset"
BY DEF Reboot, Configuration

LEMMA StartUpType == TypeInv /\ StartUp => TypeInv'
<1> SUFFICES ASSUME TypeInv, StartUp PROVE TypeInv'
  OBVIOUS
<1> USE DEF TypeInv
<1>1. CASE Init_DPU
  <2> USE <1>1 DEF Init_DPU
  <2>0. {} \in Byte /\ SRAM1 \subseteq Code /\ PROM \in [Code -> Byte]
    BY Constants
  <2>1. PICK code_address \in SRAM1 \cup {NO_RAM_FAILURE} :
          InitCode_RAM(reset_class, code_address) /\ failed_code_address' = code_address
          /\ mapped' = memory_mode' /\ memory_mode' \in Configuration
    BY DEF Configuration
  <2>2. sram1' \in [SRAM1 -> Byte] /\ flipped' \in Byte /\ disturbed' \in BOOLEAN
    BY <2>0, <2>1 DEF InitCode_RAM, MemoryType, ChecksumType, HistoryType
  <2>3. MemoryType'
    BY <2>1, <2>2 DEF MemoryType
  <2>4. ChecksumType' /\ HistoryType'
    BY <2>2 DEF ChecksumType, HistoryType
  <2>5. CountType' /\ BoundType' /\ Place'
    BY DEF CountType, BoundType, Place
  <2>6. QED BY <2>3, <2>4, <2>5
<1>2. CASE Boot
  <2> USE <1>2 DEF Boot
  <2>1. MAX_CHECKSUM_COUNT \in Nat
    BY Constants
  <2>2. MemoryType'
    BY DEF MemoryType, memory, ResetClass
  <2>3. ChecksumType' /\ HistoryType'
    BY Constants DEF ChecksumType, HistoryType, INITIAL_CHECKSUM_VALUE
  <2>4. CountType' /\ BoundType' /\ Place'
    BY <2>1 DEF CountType, BoundType, Place, AtRest, MIN_CHECKSUM_COUNT
  <2>5. QED BY <2>2, <2>3, <2>4
<1>3. QED BY <1>1, <1>2 DEF StartUp

LEMMA CalculateChecksumType == TypeInv /\ CalculateChecksum => TypeInv'
<1> SUFFICES ASSUME TypeInv, CalculateChecksum PROVE TypeInv'
  OBVIOUS
<1> USE DEF TypeInv
<1>0. /\ check_start \in Nat /\ check_end \in Nat
      /\ check_start <= check_end /\ check_end <= CODE_MEMORY_END
      /\ checksum_count = 0 => check_start = 0
      /\ CODE_MEMORY_END \in Nat /\ checksum_count \in Int
  BY Pieces, Constants DEF CountType, MIN_CHECKSUM_COUNT
<1>1. CASE CalculateChecksum_Clear
  <2> USE <1>1 DEF CalculateChecksum_Clear
  <2>1. MemoryType' /\ BoundType' /\ HistoryType'
    BY DEF MemoryType, BoundType, HistoryType, memory, history
  <2>2. ChecksumType'
    BY Constants DEF ChecksumType, history
  <2>3. CountType' /\ Place'
    BY <1>0 DEF CountType, Place, InCheck, check_start
  <2>4. QED BY <2>1, <2>2, <2>3
<1>2. CASE CalculateChecksum_Flag
  <2> USE <1>2 DEF CalculateChecksum_Flag
  <2>1. MemoryType' /\ BoundType' /\ HistoryType' /\ ChecksumType'
    BY DEF MemoryType, BoundType, HistoryType, ChecksumType, memory, history
  <2>2. CountType' /\ Place'
    BY <1>0 DEF CountType, Place, InCheck, check_start, check_end
  <2>3. QED BY <2>1, <2>2
<1>3. CASE CalculateChecksum_Start
  <2> USE <1>3 DEF CalculateChecksum_Start
  <2>1. MemoryType' /\ BoundType' /\ HistoryType' /\ ChecksumType'
    BY DEF MemoryType, BoundType, HistoryType, ChecksumType, memory, history
  <2>2. CountType' /\ Place'
    BY <1>0 DEF CountType, Place, InCheck, check_start, check_end
  <2>3. QED BY <2>1, <2>2
<1>4. CASE CalculateChecksum_Byte
  <2> USE <1>4 DEF CalculateChecksum_Byte
  <2>0. i \in Code /\ i \in check_start..check_end
    BY <1>0 DEF Place, Code
  <2>1. GET_CODE_BYTE(i) \in Byte
    BY <2>0, Constants DEF GET_CODE_BYTE, MemoryType
  <2>2. MemoryType' /\ BoundType' /\ HistoryType'
    BY DEF MemoryType, BoundType, HistoryType, memory, history
  <2>3. ChecksumType'
    BY <2>1, XorType DEF ChecksumType, history
  <2>4. CountType' /\ Place'
    <3>1. check_start' = check_start /\ check_end' = check_end
      BY DEF check_start, check_end
    <3>2. CountType'
      BY <1>0, <2>0 DEF CountType, InCheck
    <3>3. Place'
      BY <1>0, <2>0, <3>1 DEF Place
    <3>4. QED BY <3>2, <3>3
  <2>5. QED BY <2>2, <2>3, <2>4
<1>5. ASSUME NextPiece, i' = i, UNCHANGED <<memory, reference_checksum, code_checksum, code_not_patched,
                    s_w_reset, reset_class, patches, flips, history>>
      PROVE  TypeInv'
  <2>1. MemoryType' /\ BoundType' /\ HistoryType' /\ ChecksumType'
    BY <1>5 DEF MemoryType, BoundType, HistoryType, ChecksumType, memory, history
  <2>2. CountType'
    BY <1>5, NextPieceStarts DEF CountType, NextPiece
  <2>3. Place'
    BY <1>5 DEF Place, NextPiece, AtRest
  <2>4. QED BY <2>1, <2>2, <2>3
<1>6. CASE CalculateChecksum_Compare
  <2>1. CASE NextPiece
    BY <1>5, <1>6, <2>1 DEF CalculateChecksum_Compare
  <2>2. CASE health' = "excuse" /\ UNCHANGED checksum_count /\ checksum_count = MIN_CHECKSUM_COUNT
    <3> USE <1>6, <2>2 DEF CalculateChecksum_Compare
    <3>1. MemoryType' /\ BoundType' /\ HistoryType' /\ ChecksumType'
      BY DEF MemoryType, BoundType, HistoryType, ChecksumType, memory, history
    <3>2. CountType' /\ Place'
      BY DEF CountType, Place, InCheck, check_start, check_end
    <3>3. QED BY <3>1, <3>2
  <2>3. QED BY <1>6, <2>1, <2>2 DEF CalculateChecksum_Compare
<1>7. CASE CalculateChecksum_Excuse
  BY <1>5, <1>7 DEF CalculateChecksum_Excuse
<1>8. CASE CalculateChecksum_Reboot
  <2> USE <1>8 DEF CalculateChecksum_Reboot
  <2>1. /\ mapped' \in Configuration /\ reset_class' \in ResetClass \ {"error_e"}
        /\ health' = "reset"
    BY RebootType DEF ResetClass
  <2>2. MemoryType' /\ BoundType' /\ HistoryType' /\ ChecksumType'
    BY <2>1 DEF MemoryType, BoundType, HistoryType, ChecksumType, checking, history
  <2>3. CountType' /\ Place'
    BY <2>1 DEF CountType, Place, checking
  <2>4. QED BY <2>2, <2>3
<1>9. QED
  BY <1>1, <1>2, <1>3, <1>4, <1>6, <1>7, <1>8 DEF CalculateChecksum

(* Telecommands, resets and radiation leave the pass where it is or end it. *)
LEMMA OthersKeepPass ==
  ASSUME TypeInv, Others
  PROVE  /\ UNCHANGED <<checksum_count, i, code_checksum>>
         /\ health' = health \/ health' = "reset"
         /\ Running
<1>1. CASE MemoryPatch
  BY <1>1 DEF MemoryPatch, PatchCode, Reboot
<1>2. CASE SoftReset
  BY <1>2 DEF SoftReset, Reboot, checking
<1>3. CASE HardwareReset
  BY <1>3 DEF HardwareReset, Reboot, checking
<1>4. CASE DataWrite
  BY <1>4 DEF DataWrite, checking
<1>5. CASE BitFlip
  BY <1>5 DEF BitFlip, checking
<1>6. QED BY <1>1, <1>2, <1>3, <1>4, <1>5 DEF Others

\* What a patch does to the memory and to the place of a task.
LEMMA PatchCodeEffect ==
  ASSUME TypeInv, Running, NEW block \in Blocks, NEW source \in [block -> Byte],
         NEW command \in {"continue", "soft_reset_e", "warm_reset_e"},
         PatchCode(block, source, command)
  PROVE  /\ block \subseteq SRAM1
         /\ sram1' \in [SRAM1 -> Byte]
         /\ \A a \in block : sram1'[a] = source[a]
         /\ \A a \in SRAM1 \ block : sram1'[a] = sram1[a]
         /\ reference_checksum' =
              Xor(reference_checksum, Xor(Sum(sram1, block), Sum(sram1', block)))
         /\ memory_mode' = memory_mode
         /\ \/ mapped' = memory_mode /\ health' = health /\ reset_class' = reset_class
            \/ mapped' = "PROM_e" /\ health' = "reset" /\ reset_class' \in ResetClass \ {"error_e"}
<1>1. /\ sram1' = [a \in SRAM1 |-> IF a \in block THEN source[a] ELSE sram1[a]]
      /\ reference_checksum' =
           Xor(reference_checksum, Xor(Sum(sram1, block), Sum(source, block)))
      /\ memory_mode' = memory_mode
  BY DEF PatchCode
<1>2. block \subseteq SRAM1
  <2>1. PICK destination \in BEGIN_SRAM1..(CODE_MEMORY_END - MEM_BUFFER_SIZE + 1) :
          block = destination..(destination + MEM_BUFFER_SIZE - 1)
    BY DEF Blocks
  <2>2. BEGIN_SRAM1 \in Nat /\ CODE_MEMORY_END \in Nat /\ MEM_BUFFER_SIZE \in Nat
    BY Constants
  <2>3. QED BY <2>1, <2>2 DEF SRAM1
<1>3. sram1' \in [SRAM1 -> Byte]
  BY <1>1 DEF TypeInv, MemoryType
<1>4. /\ \A a \in block : sram1'[a] = source[a]
      /\ \A a \in SRAM1 \ block : sram1'[a] = sram1[a]
  BY <1>1, <1>2
<1>5. Sum(source, block) = Sum(sram1', block)
  BY <1>4, SumEqual
<1>6. \/ mapped' = memory_mode /\ health' = health /\ reset_class' = reset_class
      \/ mapped' = "PROM_e" /\ health' = "reset" /\ reset_class' \in ResetClass \ {"error_e"}
  BY DEF PatchCode, Reboot, ResetClass
<1>7. QED BY <1>1, <1>2, <1>3, <1>4, <1>5, <1>6

LEMMA OthersType == TypeInv /\ Others => TypeInv'
<1> SUFFICES ASSUME TypeInv, Others PROVE TypeInv'
  OBVIOUS
<1>1. CountType' /\ Place'
  <2>1. check_start' = check_start /\ check_end' = check_end
    BY OthersKeepPass DEF check_start, check_end
  <2>2. QED BY <2>1, OthersKeepPass DEF TypeInv, CountType, Place
<1>2. CASE MemoryPatch
  <2> USE <1>2 DEF MemoryPatch
  <2>1. /\ sram1' \in [SRAM1 -> Byte] /\ memory_mode' = memory_mode
        /\ mapped' \in Configuration /\ reset_class' \in ResetClass \ {"error_e"}
        /\ reference_checksum' \in Byte
    <3>1. PICK block \in Blocks : \E source \in [block -> Byte],
                 command \in {"continue", "soft_reset_e", "warm_reset_e"} :
                   PatchCode(block, source, command)
      OBVIOUS
    <3>2. PICK source \in [block -> Byte],
               command \in {"continue", "soft_reset_e", "warm_reset_e"} :
                 PatchCode(block, source, command)
      BY <3>1
    <3>3. Sum(sram1, block) \in Byte /\ Sum(sram1', block) \in Byte
      BY SumType
    <3>4. reference_checksum \in Byte /\ memory_mode \in Configuration
          /\ reset_class \in ResetClass \ {"error_e"}
      BY DEF TypeInv, MemoryType, ChecksumType
    <3>5. reference_checksum' \in Byte
      BY <3>2, <3>3, <3>4, PatchCodeEffect, XorType
    <3>6. /\ sram1' \in [SRAM1 -> Byte] /\ memory_mode' = memory_mode
          /\ mapped' \in Configuration /\ reset_class' \in ResetClass \ {"error_e"}
      BY <3>2, <3>4, PatchCodeEffect DEF Configuration
    <3>7. QED BY <3>5, <3>6
  <2>2. MemoryType' /\ ChecksumType'
    BY <2>1 DEF TypeInv, MemoryType, ChecksumType
  <2>3. BoundType'
    BY BoundsAssumption DEF TypeInv, BoundType
  <2>4. HistoryType'
    <3>1. patched_aside' \in BOOLEAN
      BY Zenon DEF MemoryPatch
    <3>2. QED BY <3>1 DEF TypeInv, HistoryType
  <2>5. QED BY <1>1, <2>2, <2>3, <2>4 DEF TypeInv
<1>3. ASSUME NEW class \in ResetClass \ {"error_e"}, Reboot(class),
             UNCHANGED <<memory_mode, failed_code_address, sram1, checking, s_w_reset,
                         patches, flips, history>>
      PROVE  TypeInv'
  <2>1. MemoryType' /\ ChecksumType' /\ BoundType' /\ HistoryType'
    BY <1>3, RebootType
       DEF TypeInv, MemoryType, ChecksumType, BoundType, HistoryType, checking, history
  <2>2. QED BY <1>1, <2>1 DEF TypeInv
<1>4. CASE SoftReset
  BY <1>3, <1>4 DEF SoftReset, ResetClass
<1>5. CASE HardwareReset
  BY <1>3, <1>5 DEF HardwareReset, ResetClass
<1>6. CASE DataWrite
  <2>1. MemoryType' /\ ChecksumType' /\ BoundType' /\ HistoryType'
    BY <1>6
       DEF DataWrite, TypeInv, MemoryType, ChecksumType, BoundType, HistoryType, checking, history
  <2>2. QED BY <1>1, <2>1 DEF TypeInv
<1>7. CASE BitFlip
  <2> USE <1>7 DEF BitFlip
  <2>1. PICK a \in SRAM1, b \in Bits : sram1' = [sram1 EXCEPT ![a] = Xor(@, {b})]
                                       /\ flipped' = Xor(flipped, {b})
    OBVIOUS
  <2>2. sram1[a] \in Byte /\ {b} \in Byte /\ flipped \in Byte
    BY DEF TypeInv, MemoryType, ChecksumType, Byte
  <2>3. sram1' \in [SRAM1 -> Byte] /\ flipped' \in Byte
    BY <2>1, <2>2, XorType DEF TypeInv, MemoryType
  <2>4. MemoryType' /\ ChecksumType'
    BY <2>3 DEF TypeInv, MemoryType, ChecksumType, checking
  <2>5. BoundType' /\ HistoryType'
    BY BoundsAssumption DEF TypeInv, BoundType, HistoryType
  <2>6. QED BY <1>1, <2>4, <2>5 DEF TypeInv
<1>8. QED BY <1>2, <1>4, <1>5, <1>6, <1>7 DEF Others

LEMMA TypeUnchanged == TypeInv /\ UNCHANGED vars => TypeInv'
BY DEF TypeInv, MemoryType, ChecksumType, CountType, BoundType, HistoryType, Place,
       check_start, check_end, vars, memory, checking, history

LEMMA TypeNext == TypeInv /\ [Next]_vars => TypeInv'
BY StartUpType, CalculateChecksumType, OthersType, TypeUnchanged, NextCases

(* Every variable keeps its type, and i the bounds of the piece that is    *)
(* checked: the code memory is never read beyond its end.                  *)
THEOREM TypeCorrect == Spec => []TypeOK
<1>1. TypeInv => TypeOK
  BY TypeParts DEF TypeInv
<1>2. QED BY <1>1, TypeInit, TypeNext, PTL DEF Spec

----------------------------------------------------------------------------
(* The mapping and the reference checksum.  A warm reset relies on what    *)
(* was known before it, so the facts about the memory last through one.    *)

Warm == health \in {"reset", "boot"} /\ reset_class = "warm_reset_e"

ConfigInv ==
  /\ Running \/ Warm \/ health = "boot" =>
       (memory_mode = "SRAM_e" <=> failed_code_address = NO_RAM_FAILURE)
  /\ Running \/ health = "boot" => mapped = memory_mode
  /\ health = "boot" => s_w_reset = reset_class

\* Contents of the code memory in the configuration c.
Image(c) == [a \in Code |-> IF c = "SRAM_e" /\ a \in SRAM1 THEN sram1[a] ELSE PROM[a]]

Tracks == Xor(reference_checksum, Sum(Image(memory_mode), Code)) = flipped

TracksInv ==
  /\ (Running \/ Warm) /\ (memory_mode = "SRAM_e" \/ ~patched_aside) => Tracks
  /\ health = "boot" /\ reset_class # "warm_reset_e" =>
       Sum(Image(memory_mode), Code) = {} /\ flipped = {}
  /\ ~disturbed => flipped = {}

LEMMA RebootPlaces ==
  ASSUME NEW class, Running, Reboot(class)
  PROVE  ~Running' /\ health' # "boot" /\ (Warm' <=> class = "warm_reset_e")
BY DEF Reboot, Running, Warm, AtRest, InCheck

LEMMA Places ==
  /\ Running => health # "reset" /\ health # "boot" /\ ~Warm
  /\ health = AtRest \/ health \in InCheck <=> Running
BY DEF Running, Warm, AtRest, InCheck

LEMMA CheckRuns ==
  ASSUME CalculateChecksum
  PROVE  /\ Running
         /\ UNCHANGED <<memory_mode, failed_code_address, sram1, reference_checksum, s_w_reset,
                        patches, flips, history>>
         /\ health' # "boot" /\ ~Warm'
         /\ Running' => UNCHANGED <<mapped, reset_class>>
BY DEF CalculateChecksum, CalculateChecksum_Clear, CalculateChecksum_Flag,
       CalculateChecksum_Start, CalculateChecksum_Byte, CalculateChecksum_Compare,
       CalculateChecksum_Excuse, CalculateChecksum_Reboot, NextPiece, Reboot,
       Running, Warm, AtRest, InCheck, memory, checking, history

LEMMA ConfigInit == Init => ConfigInv
BY DEF Init, ConfigInv, Running, Warm, AtRest, InCheck

LEMMA ConfigStartUp == TypeInv /\ ConfigInv /\ StartUp => ConfigInv'
<1> SUFFICES ASSUME TypeInv, ConfigInv, StartUp PROVE ConfigInv'
  OBVIOUS
<1>1. CASE Init_DPU
  <2>1. /\ memory_mode' = "SRAM_e" <=> failed_code_address' = NO_RAM_FAILURE
        /\ mapped' = memory_mode' /\ s_w_reset' = reset_class /\ reset_class' = reset_class
    BY <1>1 DEF Init_DPU
  <2>2. QED BY <2>1 DEF ConfigInv
<1>2. CASE Boot
  <2>1. health = "boot" /\ health' # "boot"
        /\ UNCHANGED <<mapped, memory_mode, failed_code_address>>
    BY <1>2 DEF Boot, memory, AtRest
  <2>2. QED BY <2>1 DEF ConfigInv
<1>3. QED BY <1>1, <1>2 DEF StartUp

LEMMA ConfigOthers == TypeInv /\ ConfigInv /\ Others => ConfigInv'
<1> SUFFICES ASSUME TypeInv, ConfigInv, Others PROVE ConfigInv'
  OBVIOUS
<1>1. Running /\ health # "boot"
  BY OthersKeepPass, Places
<1>2. UNCHANGED <<memory_mode, failed_code_address>>
  <2>1. CASE MemoryPatch
    BY <2>1 DEF MemoryPatch, PatchCode
  <2>2. CASE SoftReset \/ HardwareReset
    BY <2>2 DEF SoftReset, HardwareReset
  <2>3. CASE DataWrite \/ BitFlip
    BY <2>3 DEF DataWrite, BitFlip
  <2>4. QED BY <2>1, <2>2, <2>3 DEF Others
<1>3. /\ health' # "boot" /\ s_w_reset' = s_w_reset
      /\ Running' => mapped' = memory_mode
  <2>1. CASE MemoryPatch
    BY <2>1, <1>1, <1>2 DEF MemoryPatch, PatchCode, Reboot, Running, AtRest, InCheck
  <2>2. CASE SoftReset \/ HardwareReset
    BY <2>2, <1>1, RebootPlaces DEF SoftReset, HardwareReset
  <2>3. CASE DataWrite \/ BitFlip
    BY <2>3, <1>1 DEF DataWrite, BitFlip, ConfigInv
  <2>4. QED BY <2>1, <2>2, <2>3 DEF Others
<1>4. QED BY <1>1, <1>2, <1>3 DEF ConfigInv

LEMMA ConfigNext == TypeInv /\ ConfigInv /\ [Next]_vars => ConfigInv'
<1> SUFFICES ASSUME TypeInv, ConfigInv, [Next]_vars PROVE ConfigInv'
  OBVIOUS
<1>1. CASE StartUp
  BY <1>1, ConfigStartUp
<1>2. CASE CalculateChecksum
  BY <1>2, CheckRuns, Places DEF ConfigInv
<1>3. CASE Others
  BY <1>3, ConfigOthers
<1>4. CASE UNCHANGED vars
  BY <1>4 DEF ConfigInv, Running, Warm, vars, memory, checking
<1>5. QED BY <1>1, <1>2, <1>3, <1>4, NextCases

LEMMA TracksInit == Init => TracksInv
BY DEF Init, TracksInv, Running, Warm, AtRest, InCheck

LEMMA PROMSum ==
  ASSUME NEW mem, \A a \in Code : mem[a] = PROM[a]
  PROVE  Sum(mem, Code) = {}
BY SumEqual, PROMAssumption DEF INITIAL_CHECKSUM_VALUE

LEMMA SameImage ==
  ASSUME sram1' = sram1, NEW c
  PROVE  Image(c)' = Image(c)
BY DEF Image

LEMMA TracksStartUp == TypeInv /\ ConfigInv /\ TracksInv /\ StartUp => TracksInv'
<1> SUFFICES ASSUME TypeInv, ConfigInv, TracksInv, StartUp PROVE TracksInv'
  OBVIOUS
<1>1. ASSUME Init_DPU, reset_class = "warm_reset_e"
      PROVE  TracksInv'
  <2> USE <1>1 DEF Init_DPU, InitCode_RAM
  <2>1. UNCHANGED <<sram1, flipped, disturbed, failed_code_address, reference_checksum,
                    patched_aside, reset_class>>
    OBVIOUS
  <2>2. Warm /\ Warm' /\ ~Running'
    BY DEF Warm, Running, AtRest, InCheck
  <2>3. memory_mode' = memory_mode
    <3>1. memory_mode' \in Configuration /\ memory_mode \in Configuration
      BY DEF TypeInv, MemoryType, Configuration
    <3>2. memory_mode' = "SRAM_e" <=> failed_code_address' = NO_RAM_FAILURE
      OBVIOUS
    <3>3. QED BY <2>1, <2>2, <3>1, <3>2 DEF ConfigInv, Configuration
  <2>4. Tracks' <=> Tracks
    BY <2>1, <2>3 DEF Tracks, Image
  <2>5. QED BY <2>1, <2>2, <2>3, <2>4 DEF TracksInv
<1>2. ASSUME Init_DPU, reset_class # "warm_reset_e"
      PROVE  TracksInv'
  <2> USE <1>2 DEF Init_DPU, InitCode_RAM
  <2>1. flipped' = {} /\ disturbed' = FALSE /\ ~Running' /\ ~Warm'
    BY DEF Warm, Running, AtRest, InCheck
  <2>2. PICK code_address \in SRAM1 \cup {NO_RAM_FAILURE} :
          /\ code_address = NO_RAM_FAILURE => sram1' = [a \in SRAM1 |-> PROM[a]]
          /\ code_address # NO_RAM_FAILURE => memory_mode' = "PROM_e"
    OBVIOUS
  <2>3. \A a \in Code : Image(memory_mode)'[a] = PROM[a]
    BY <2>2 DEF Image
  <2>4. Sum(Image(memory_mode)', Code) = {}
    BY <2>3, PROMSum
  <2>5. QED BY <2>1, <2>4 DEF TracksInv
<1>3. CASE Boot
  <2> USE <1>3 DEF Boot
  <2>1. /\ UNCHANGED <<sram1, memory_mode, flipped, disturbed>>
        /\ Running' /\ ~Warm' /\ health' # "boot" /\ s_w_reset = reset_class
    BY DEF memory, ConfigInv, Running, Warm, AtRest
  <2>2. CASE reset_class = "warm_reset_e"
    <3>1. Warm /\ UNCHANGED <<reference_checksum, patched_aside>>
      BY <2>1, <2>2 DEF Warm
    <3>2. QED BY <2>1, <3>1 DEF TracksInv, Tracks, Image
  <2>3. CASE reset_class # "warm_reset_e"
    <3>1. reference_checksum' = {} /\ Sum(Image(memory_mode), Code) = {} /\ flipped = {}
      BY <2>1, <2>3 DEF TracksInv, INITIAL_CHECKSUM_VALUE
    <3>2. Tracks'
      BY <2>1, <3>1, SameImage DEF Tracks, Xor, Image
    <3>3. QED BY <2>1, <3>1, <3>2 DEF TracksInv
  <2>4. QED BY <2>2, <2>3
<1>4. QED BY <1>1, <1>2, <1>3 DEF StartUp

LEMMA TracksPatch == TypeInv /\ ConfigInv /\ TracksInv /\ MemoryPatch => TracksInv'
<1> SUFFICES ASSUME TypeInv, ConfigInv, TracksInv, MemoryPatch PROVE TracksInv'
  OBVIOUS
<1>0. Running /\ UNCHANGED <<flipped, disturbed>> /\ health # "boot"
  BY Places DEF MemoryPatch
<1>1. PICK block \in Blocks : \E source \in [block -> Byte],
             command \in {"continue", "soft_reset_e", "warm_reset_e"} :
               PatchCode(block, source, command)
  BY DEF MemoryPatch
<1>2. PICK source \in [block -> Byte],
           command \in {"continue", "soft_reset_e", "warm_reset_e"} :
             PatchCode(block, source, command)
  BY <1>1
<1>3. /\ block \subseteq SRAM1 /\ memory_mode' = memory_mode /\ health' # "boot"
      /\ \A a \in SRAM1 \ block : sram1'[a] = sram1[a]
      /\ reference_checksum' =
           Xor(reference_checksum, Xor(Sum(sram1, block), Sum(sram1', block)))
  BY <1>0, <1>2, PatchCodeEffect
<1>4. CASE memory_mode = "SRAM_e"
  <2>1. block \subseteq Code
    BY <1>3, Constants
  <2>2. /\ \A a \in block : Image(memory_mode)[a] = sram1[a]
        /\ \A a \in block : Image(memory_mode)'[a] = sram1'[a]
        /\ \A a \in Code \ block : Image(memory_mode)[a] = Image(memory_mode)'[a]
    BY <1>3, <1>4, <2>1 DEF Image
  <2>3. /\ Sum(Image(memory_mode), block) = Sum(sram1, block)
        /\ Sum(Image(memory_mode)', block) = Sum(sram1', block)
    BY <2>2, SumEqual
  <2>4. Sum(Image(memory_mode)', Code) =
          Xor(Sum(Image(memory_mode), Code), Xor(Sum(sram1, block), Sum(sram1', block)))
    BY <2>1, <2>2, <2>3, SumPatched
  <2>5. \A x, y, z : Xor(Xor(x, z), Xor(y, z)) = Xor(x, y)
    BY DEF Xor
  <2>6. Tracks
    BY <1>0, <1>4 DEF TracksInv
  <2>7. Tracks'
    BY <1>0, <1>3, <2>4, <2>5, <2>6 DEF Tracks
  <2>8. QED BY <1>0, <1>3, <2>7 DEF TracksInv
<1>5. CASE memory_mode = "PROM_e"
  <2>1. patched_aside' = TRUE
    BY <1>0, <1>5 DEF MemoryPatch, ConfigInv
  <2>2. QED BY <1>0, <1>3, <1>5, <2>1 DEF TracksInv
<1>6. QED BY <1>4, <1>5 DEF TypeInv, MemoryType, Configuration

LEMMA TracksFlip == TypeInv /\ ConfigInv /\ TracksInv /\ BitFlip => TracksInv'
<1> SUFFICES ASSUME TypeInv, ConfigInv, TracksInv, BitFlip PROVE TracksInv'
  OBVIOUS
<1> USE DEF BitFlip
<1>1. PICK a \in SRAM1, b \in Bits : sram1' = [sram1 EXCEPT ![a] = Xor(@, {b})]
                                     /\ flipped' = Xor(flipped, {b})
  OBVIOUS
<1>2. /\ memory_mode' = memory_mode /\ reference_checksum' = reference_checksum
      /\ memory_mode = "SRAM_e" /\ Tracks /\ disturbed' = TRUE /\ health' # "boot"
  BY Places DEF ConfigInv, TracksInv, checking
<1>3. a \in Code /\ sram1[a] \in Byte /\ {b} \in Byte
  BY Constants DEF TypeInv, MemoryType, Byte
<1>4. sram1'[a] = Xor(sram1[a], {b}) /\ \A c \in SRAM1 \ {a} : sram1'[c] = sram1[c]
  BY <1>1 DEF TypeInv, MemoryType
<1>5. sram1'[a] \in Byte
  BY <1>3, <1>4, XorType
<1>6. /\ Image(memory_mode)[a] = sram1[a] /\ Image(memory_mode)'[a] = sram1'[a]
      /\ \A c \in Code \ {a} : Image(memory_mode)[c] = Image(memory_mode)'[c]
  BY <1>2, <1>3, <1>4 DEF Image
<1>7. /\ Sum(Image(memory_mode), {a}) = sram1[a]
      /\ Sum(Image(memory_mode)', {a}) = sram1'[a]
  BY <1>3, <1>5, <1>6, SumSingle
<1>8. Sum(Image(memory_mode)', Code) =
        Xor(Sum(Image(memory_mode), Code), Xor(sram1[a], sram1'[a]))
  BY <1>3, <1>6, <1>7, SumPatched
<1>9. \A r, s, x, y : Xor(r, Xor(s, Xor(x, Xor(x, y)))) = Xor(Xor(r, s), y)
  BY DEF Xor
<1>10. Tracks'
  BY <1>1, <1>2, <1>4, <1>8, <1>9 DEF Tracks
<1>11. QED BY <1>2, <1>10 DEF TracksInv

LEMMA TracksNext == TypeInv /\ ConfigInv /\ TracksInv /\ [Next]_vars => TracksInv'
<1> SUFFICES ASSUME TypeInv, ConfigInv, TracksInv, [Next]_vars PROVE TracksInv'
  OBVIOUS
<1>1. ASSUME UNCHANGED <<sram1, memory_mode, reference_checksum, history>>,
             health' # "boot", Running' \/ Warm' => Running
      PROVE  TracksInv'
  <2>1. Tracks' <=> Tracks
    BY <1>1 DEF Tracks, Image, history
  <2>2. QED BY <1>1, <2>1 DEF TracksInv, history
<1>2. CASE CalculateChecksum
  BY <1>1, <1>2, CheckRuns
<1>3. CASE SoftReset \/ HardwareReset
  <2>1. UNCHANGED <<sram1, memory_mode, reference_checksum, history>>
    BY <1>3 DEF SoftReset, HardwareReset, checking
  <2>2. Running /\ health' # "boot" /\ ~Running' /\ ~Warm'
    BY <1>3, RebootPlaces DEF SoftReset, HardwareReset
  <2>3. QED BY <1>1, <2>1, <2>2
<1>4. CASE DataWrite
  <2> USE <1>4 DEF DataWrite
  <2>1. memory_mode = "PROM_e" /\ memory_mode' = "PROM_e"
    BY DEF ConfigInv
  <2>2. Image(memory_mode)' = Image(memory_mode)
    BY <2>1 DEF Image
  <2>3. Tracks' <=> Tracks
    BY <2>2 DEF Tracks, checking, history
  <2>4. health' # "boot" /\ UNCHANGED <<disturbed, flipped, patched_aside, memory_mode>>
    BY Places DEF history
  <2>5. QED BY <2>3, <2>4 DEF TracksInv
<1>5. CASE UNCHANGED vars
  BY <1>5 DEF TracksInv, Tracks, Image, Running, Warm, vars, memory, checking, history
<1>6. QED
  BY <1>2, <1>3, <1>4, <1>5, NextCases, TracksStartUp, TracksPatch, TracksFlip DEF Others

(* In the SRAM the reference checksum accounts for every patch, and        *)
(* differs from the checksum of the memory by what radiation has changed.  *)
THEOREM ReferenceFollowsCode == Spec => []ReferenceTracksCode
<1>1. TypeInv /\ ConfigInv /\ TracksInv => ReferenceTracksCode
  <2> SUFFICES ASSUME ConfigInv, TracksInv, Running, mapped = "SRAM_e"
               PROVE  Xor(reference_checksum, Sum(CodeInUse, Code)) = flipped
    BY DEF ReferenceTracksCode
  <2>1. memory_mode = "SRAM_e" /\ Tracks
    BY DEF ConfigInv, TracksInv
  <2>2. CodeInUse = Image(memory_mode)
    BY <2>1 DEF CodeInUse, GET_CODE_BYTE, Image
  <2>3. QED BY <2>1, <2>2 DEF Tracks
<1>2. QED
  BY <1>1, TypeInit, TypeNext, ConfigInit, ConfigNext, TracksInit, TracksNext, PTL DEF Spec

----------------------------------------------------------------------------
(* A pass under way.  What has been summed up so far is right unless a     *)
(* patch or radiation came between.                                        *)

InPass == \/ health \in {"byte", "compare", "excuse"}
          \/ health = AtRest /\ checksum_count # MAX_CHECKSUM_COUNT

\* The addresses that the pass has been to: those of the pieces before this
\* one, which are higher, and those of this one below i.
Checked == {a \in Code : check_end < a \/ (health # AtRest /\ check_start <= a /\ a < i)}

PassInv ==
  /\ health = "flag" => code_checksum = {}
  /\ InPass /\ code_not_patched = 1 /\ ~disturbed => code_checksum = Sum(CodeInUse, Checked)
  /\ health = "excuse" /\ code_not_patched = 1 => code_checksum # reference_checksum

LEMMA SameCode ==
  ASSUME mapped' = mapped, sram1' = sram1
  PROVE  CodeInUse' = CodeInUse
BY DEF CodeInUse, GET_CODE_BYTE

LEMMA PassInit == Init => PassInv
BY DEF Init, PassInv, InPass, AtRest

LEMMA PassStartUp == StartUp => PassInv'
<1>1. Init_DPU => PassInv'
  BY DEF Init_DPU, PassInv, InPass, AtRest
<1>2. Boot => PassInv'
  BY DEF Boot, PassInv, InPass, AtRest
<1>3. QED BY <1>1, <1>2 DEF StartUp

LEMMA PassOthers == TypeInv /\ ConfigInv /\ PassInv /\ Others => PassInv'
<1> SUFFICES ASSUME TypeInv, ConfigInv, PassInv, Others, health' # "reset" PROVE PassInv'
  BY DEF PassInv, InPass, AtRest
<1>1. /\ UNCHANGED <<checksum_count, i, code_checksum, health>> /\ Running
      /\ InPass' <=> InPass
      /\ Checked' = Checked
  BY OthersKeepPass DEF InPass, Checked, check_start, check_end
<1>2. CASE MemoryPatch
  <2>1. code_not_patched' = 0
    BY <1>2 DEF MemoryPatch
  <2>2. QED BY <1>1, <2>1 DEF PassInv
<1>3. CASE SoftReset \/ HardwareReset
  BY <1>3 DEF SoftReset, HardwareReset, Reboot
<1>4. CASE DataWrite
  <2>1. /\ mapped = "PROM_e" /\ mapped' = "PROM_e"
        /\ UNCHANGED <<reference_checksum, code_not_patched, disturbed>>
    BY <1>4 DEF DataWrite, checking, history
  <2>2. CodeInUse' = CodeInUse
    BY <2>1 DEF CodeInUse, GET_CODE_BYTE
  <2>3. QED BY <1>1, <2>1, <2>2 DEF PassInv
<1>5. CASE BitFlip
  <2>1. disturbed' = TRUE /\ UNCHANGED <<reference_checksum, code_not_patched>>
    BY <1>5 DEF BitFlip, checking
  <2>2. QED BY <1>1, <2>1 DEF PassInv
<1>6. QED BY <1>2, <1>3, <1>4, <1>5 DEF Others

LEMMA PassByte == TypeInv /\ PassInv /\ CalculateChecksum_Byte => PassInv'
<1> SUFFICES ASSUME TypeInv, PassInv, CalculateChecksum_Byte PROVE PassInv'
  OBVIOUS
<1> USE DEF CalculateChecksum_Byte
<1>1. /\ check_start \in Nat /\ check_end \in Nat /\ check_end <= CODE_MEMORY_END
      /\ i \in check_start..check_end /\ CODE_MEMORY_END \in Nat
  BY Pieces, Constants DEF TypeInv, CountType, Place
<1>2. i \in Code /\ i' = i + 1 /\ health # AtRest /\ health' # AtRest
      /\ health' \in {"byte", "compare"} /\ check_start' = check_start /\ check_end' = check_end
  BY <1>1 DEF Code, AtRest, check_start, check_end
<1>3. Checked' = Checked \cup {i} /\ Checked \cap {i} = {} /\ Checked \subseteq Code
  BY <1>1, <1>2 DEF Checked, Code
<1>4. CodeInUse' = CodeInUse /\ CodeInUse[i] = GET_CODE_BYTE(i) /\ CodeInUse[i] \in Byte
  <2>1. CodeInUse' = CodeInUse
    BY SameCode DEF memory
  <2>2. CodeInUse[i] = GET_CODE_BYTE(i)
    BY <1>2 DEF CodeInUse, GET_CODE_BYTE
  <2>3. GET_CODE_BYTE(i) \in Byte
    BY <1>2, Constants DEF GET_CODE_BYTE, TypeInv, MemoryType
  <2>4. QED BY <2>1, <2>2, <2>3
<1>5. Sum(CodeInUse, Checked') = Xor(Sum(CodeInUse, Checked), CodeInUse[i])
  <2>1. Sum(CodeInUse, {i}) = CodeInUse[i]
    BY <1>2, <1>4, SumSingle
  <2>2. Sum(CodeInUse, Checked \cup {i}) = Xor(Sum(CodeInUse, Checked), Sum(CodeInUse, {i}))
    <3>1. {i} \in SUBSET Code /\ Checked \in SUBSET Code /\ Checked \cap {i} = {}
      BY <1>2, <1>3
    <3>2. QED BY <3>1, SumUnion
  <2>3. QED BY <1>3, <2>1, <2>2
<1>6. code_checksum' = Xor(code_checksum, CodeInUse[i])
      /\ UNCHANGED <<code_not_patched, disturbed>>
  BY <1>4 DEF history
<1>7. QED BY <1>2, <1>4, <1>5, <1>6 DEF PassInv, InPass

LEMMA PassNextPiece ==
  ASSUME TypeInv, PassInv, health \in {"compare", "excuse"}, NextPiece, UNCHANGED <<mapped, sram1, code_checksum, code_not_patched, disturbed>>
  PROVE  PassInv'
<1>1. CodeInUse' = CodeInUse /\ health' = AtRest /\ InPass /\ health # AtRest
  <2>1. CodeInUse' = CodeInUse
    BY SameCode
  <2>2. health' = AtRest /\ InPass /\ health # AtRest
    BY DEF NextPiece, InPass, AtRest
  <2>3. QED BY <2>1, <2>2
<1>2. ASSUME checksum_count' # MAX_CHECKSUM_COUNT
      PROVE  Checked' = Checked
  <2>1. check_end' + 1 = check_start /\ i = check_end + 1
    BY <1>2, NextPieceStarts DEF TypeInv, CountType, Place
  <2>2. /\ check_start \in Nat /\ check_end \in Nat /\ check_start <= check_end
        /\ CODE_MEMORY_END \in Nat
    BY Pieces, Constants DEF TypeInv, CountType
  <2>3. check_end' = check_start - 1
    <3>1. checksum_count' \in MIN_CHECKSUM_COUNT..MAX_CHECKSUM_COUNT
      BY NextPieceStarts DEF TypeInv, CountType
    <3>2. check_end' = Product(checksum_count') + (CHECK_SIZE - 1)
      BY <1>2 DEF check_end, check_start, Product
    <3>3. Product(checksum_count') \in Nat /\ CHECK_SIZE \in Nat
      BY <3>1, PieceProducts, Constants DEF MIN_CHECKSUM_COUNT
    <3>4. QED BY <2>1, <2>2, <3>2, <3>3
  <2>4. Checked' = {a \in Code : check_start - 1 < a}
    BY <1>1, <2>3 DEF Checked
  <2>5. Checked = {a \in Code : check_end < a \/ (check_start <= a /\ a < check_end + 1)}
    BY <1>1, <2>1 DEF Checked
  <2>6. QED BY <2>2, <2>4, <2>5 DEF Code
<1>3. QED BY <1>1, <1>2 DEF PassInv, InPass, AtRest

LEMMA PassCheck == TypeInv /\ PassInv /\ CalculateChecksum => PassInv'
<1> SUFFICES ASSUME TypeInv, PassInv, CalculateChecksum PROVE PassInv'
  OBVIOUS
<1>0. /\ check_start \in Nat /\ check_end \in Nat /\ CODE_MEMORY_END \in Nat
      /\ checksum_count = MAX_CHECKSUM_COUNT => check_end = CODE_MEMORY_END
  BY Pieces, Constants DEF TypeInv, CountType
<1>1. CASE CalculateChecksum_Clear
  BY <1>1 DEF CalculateChecksum_Clear, PassInv, InPass, AtRest
<1>2. CASE CalculateChecksum_Flag
  <2> USE <1>2 DEF CalculateChecksum_Flag
  <2>1. /\ code_checksum' = {} /\ health' = "byte"
        /\ i' = check_start' /\ check_end' = CODE_MEMORY_END /\ check_start' \in Nat
    BY <1>0 DEF PassInv, TypeInv, Place, check_start, check_end
  <2>2. Checked' = {}
    BY <1>0, <2>1 DEF Checked, Code
  <2>3. QED BY <2>1, <2>2, SumEmpty DEF PassInv
<1>3. CASE CalculateChecksum_Start
  <2> USE <1>3 DEF CalculateChecksum_Start
  <2>1. /\ InPass /\ health = AtRest /\ i' = check_start' /\ health' = "byte"
        /\ check_end' = check_end /\ check_start' \in Nat
    BY <1>0 DEF InPass, check_start, check_end
  <2>2. Checked' = Checked
    BY <1>0, <2>1 DEF Checked, Code, AtRest
  <2>3. CodeInUse' = CodeInUse /\ UNCHANGED <<code_checksum, code_not_patched, disturbed>>
    BY SameCode DEF memory, history
  <2>4. QED BY <2>1, <2>2, <2>3 DEF PassInv
<1>4. CASE CalculateChecksum_Byte
  BY <1>4, PassByte
<1>5. CASE CalculateChecksum_Compare
  <2> USE <1>5 DEF CalculateChecksum_Compare
  <2>1. CASE NextPiece
    <3>1. health = "compare"
          /\ UNCHANGED <<mapped, sram1, code_checksum, code_not_patched, disturbed>>
      BY DEF memory, history
    <3>2. QED BY <2>1, <3>1, PassNextPiece
  <2>2. CASE /\ health' = "excuse" /\ UNCHANGED checksum_count
             /\ code_checksum # reference_checksum
    <3>1. InPass /\ Checked' = Checked
      <4>1. /\ InPass /\ health # AtRest /\ health' # AtRest /\ i' = i
            /\ check_start' = check_start /\ check_end' = check_end
        BY <2>2 DEF InPass, AtRest, check_start, check_end
      <4>2. QED BY <4>1 DEF Checked
    <3>2. CodeInUse' = CodeInUse
          /\ UNCHANGED <<code_checksum, code_not_patched, reference_checksum, disturbed>>
      BY SameCode DEF memory, history
    <3>3. QED BY <2>2, <3>1, <3>2 DEF PassInv
  <2>3. QED BY <2>1, <2>2
<1>6. CASE CalculateChecksum_Excuse
  <2>1. /\ health = "excuse" /\ NextPiece
        /\ UNCHANGED <<mapped, sram1, code_checksum, code_not_patched, disturbed>>
    BY <1>6 DEF CalculateChecksum_Excuse, memory, history
  <2>2. QED BY <2>1, PassNextPiece
<1>7. CASE CalculateChecksum_Reboot
  BY <1>7 DEF CalculateChecksum_Reboot, Reboot, PassInv, InPass, AtRest
<1>8. QED
  BY <1>1, <1>2, <1>3, <1>4, <1>5, <1>6, <1>7 DEF CalculateChecksum

LEMMA PassNext == TypeInv /\ ConfigInv /\ PassInv /\ [Next]_vars => PassInv'
<1>1. PassInv /\ UNCHANGED vars => PassInv'
  BY DEF PassInv, InPass, Checked, check_start, check_end, CodeInUse, GET_CODE_BYTE,
         vars, memory, checking, history
<1>2. QED BY <1>1, PassStartUp, PassOthers, PassCheck, NextCases

IInv == TypeInv /\ ConfigInv /\ TracksInv /\ PassInv

(* A pass that ends with a mismatch and no excuse has seen every byte as it *)
(* is, so the reference does not match the memory.                         *)
LEMMA MismatchHasCause ==
  ASSUME IInv, CalculateChecksum_Reboot
  PROVE  disturbed \/ patched_aside
<1> SUFFICES ASSUME ~disturbed, ~patched_aside PROVE FALSE
  OBVIOUS
<1>1. /\ health = "excuse" /\ code_not_patched = 1 /\ Running /\ InPass
      /\ checksum_count = 0 /\ i = check_end + 1
  <2>1. health = "excuse" /\ code_not_patched = 1
    BY DEF CalculateChecksum_Reboot
  <2>2. Running /\ InPass
    BY <2>1 DEF Running, InPass, InCheck
  <2>3. checksum_count = 0 /\ i = check_end + 1
    BY <2>1 DEF IInv, TypeInv, Place, MIN_CHECKSUM_COUNT
  <2>4. QED BY <2>1, <2>2, <2>3
<1>2. check_start = 0 /\ check_end \in Nat /\ CODE_MEMORY_END \in Nat
  BY <1>1, Pieces, Constants DEF IInv, TypeInv, CountType
<1>3. Checked = Code
  BY <1>1, <1>2 DEF Checked, Code, AtRest
<1>4. code_checksum = Sum(CodeInUse, Code) /\ code_checksum # reference_checksum
  BY <1>1, <1>3 DEF IInv, PassInv
<1>5. Tracks /\ flipped = {} /\ mapped = memory_mode
  BY <1>1 DEF IInv, TracksInv, ConfigInv
<1>6. CodeInUse = Image(memory_mode)
  BY <1>5 DEF CodeInUse, GET_CODE_BYTE, Image
<1>7. Xor(reference_checksum, code_checksum) = {}
  BY <1>4, <1>5, <1>6 DEF Tracks
<1>8. QED BY <1>4, <1>7 DEF Xor

(* Health Monitoring reboots the DPU for its checksum only when radiation  *)
(* has changed the code or a patch was stored while the PROM was running.  *)
THEOREM ChecksumResetsHaveCause == Spec => ChecksumResetHasCause
<1> DEFINE Step == (reset_class' = "checksum_reset_e" /\ health' = "reset" /\ health # "reset")
                     => disturbed \/ patched_aside
<1>1. IInv /\ [Next]_vars => Step
  <2> SUFFICES ASSUME IInv, [Next]_vars, reset_class' = "checksum_reset_e",
                      health' = "reset", health # "reset"
               PROVE  disturbed \/ patched_aside
    OBVIOUS
  <2>1. CASE StartUp
    BY <2>1 DEF StartUp, Init_DPU, Boot, AtRest
  <2>2. CASE CalculateChecksum
    <3>1. CalculateChecksum_Reboot
      BY <2>2 DEF CalculateChecksum, CalculateChecksum_Clear, CalculateChecksum_Flag,
                  CalculateChecksum_Start, CalculateChecksum_Byte, CalculateChecksum_Compare,
                  CalculateChecksum_Excuse, NextPiece, AtRest
    <3>2. QED BY <3>1, MismatchHasCause
  <2>3. CASE MemoryPatch
    BY <2>3 DEF MemoryPatch, PatchCode, Reboot
  <2>4. CASE SoftReset \/ HardwareReset
    BY <2>4 DEF SoftReset, HardwareReset, Reboot
  <2>5. CASE DataWrite \/ BitFlip
    BY <2>5 DEF DataWrite, BitFlip
  <2>6. CASE UNCHANGED vars
    BY <2>6 DEF vars
  <2>7. QED BY <2>1, <2>2, <2>3, <2>4, <2>5, <2>6, NextCases DEF Others
<1>2. Init => IInv
  BY TypeInit, ConfigInit, TracksInit, PassInit DEF IInv
<1>3. IInv /\ [Next]_vars => IInv'
  BY TypeNext, ConfigNext, TracksNext, PassNext DEF IInv
<1>4. [][Step]_vars <=> ChecksumResetHasCause
  BY DEF ChecksumResetHasCause
<1>5. QED BY <1>1, <1>2, <1>3, <1>4, PTL DEF Spec

=============================================================================
