------------------------------ MODULE Uplinks ------------------------------
(* The words that the spacecraft sends in the runs of MCTcTm, and the sets  *)
(* of them that are the constant Uplink.  Addresses are at the ends of the  *)
(* memory areas, for blocks of two bytes.                                   *)
EXTENDS Integers, Telecommands

\* A telecommand with even parity.
TC(address, code) ==
  LET w == address * 512 + code IN IF Parity(w) = 0 THEN w ELSE w + 256

\* The word that ends a block of one word: execution command, and checksum
\* over the two telecommands and the word.
BlockEnd(command, msb, lsb, word) ==
  command * 256 + XorByte(command, XorWord(XorWord(XorWord(0, msb), lsb), word))

\* The word that would end a block without any word.
EmptyEnd(command, msb, lsb) ==
  command * 256 + XorByte(command, XorWord(XorWord(0, msb), lsb))

WDM == TC(WRITE_DATA_MEMORY_MSB, 254)
WDL == TC(WRITE_DATA_MEMORY_LSB, 254)    \* the last block of SRAM3
WDX == TC(WRITE_DATA_MEMORY_LSB, 255)    \* one byte too far
WCM == TC(WRITE_CODE_MEMORY_MSB, 16)
WCL == TC(WRITE_CODE_MEMORY_LSB, 0)      \* the first block of SRAM1
RDM == TC(READ_DATA_MEMORY_MSB, 254)
RDL == TC(READ_DATA_MEMORY_LSB, 254)
RDX == TC(READ_DATA_MEMORY_LSB, 255)
RDB == TC(READ_DATA_MEMORY_LSB, 252)     \* the last block of four bytes
SSR(code) == TC(SEND_STATUS_REGISTER, code)
SSD == TC(SEND_SCIENCE_DATA_FILE, SEND_SCIENCE_DATA_FILE)
RST == TC(SOFT_RESET, SOFT_RESET)
CLR == TC(ERROR_STATUS_CLEAR, ERROR_STATUS_CLEAR)
ST(n) == TC(SET_TIME_BYTE(n), 1)
Odd == SSR(0) + 256                      \* wrong parity

DataWrites == {WDM, WDL, WDX, BlockEnd(0, WDM, WDL, RST), BlockEnd(0, WDM, WDX, RST),
               EmptyEnd(0, WDM, WDL), RST}
Sessions  == {SSR(0), SSR(4), SSD, RDM, RDB, RDX}
Transfers == {WCM, WCL, CLR, BlockEnd(0, WCM, WCL, CLR), BlockEnd(9, WCM, WCL, CLR),
              BlockEnd(1, WCM, WCL, CLR), RDM, RDL, RDX, SSR(4)}

Commands == Sessions \cup
            {TC(START_ACQUISITION, START_ACQUISITION), TC(STOP_ACQUISITION, STOP_ACQUISITION),
             TC(32, ON_VALUE), WDM, SSD, ST(3), ST(2), Odd}

=============================================================================
