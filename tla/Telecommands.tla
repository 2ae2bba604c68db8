---------------------------- MODULE Telecommands ----------------------------
(***************************************************************************)
(* The telecommand words of the DEBIE-1 DPU software: address and code,    *)
(* the addresses and codes of tc_hand.h, and the classes into which        *)
(* InitTC_LookUp puts the addresses.                                       *)
(***************************************************************************)
EXTENDS Integers, Bytes

TC_ADDRESS(w) == w \div 512
TC_CODE(w)    == LSB(w)

UNUSED_TC_ADDRESS      == 0
START_ACQUISITION      == 1
STOP_ACQUISITION       == 2
ERROR_STATUS_CLEAR     == 3
SEND_STATUS_REGISTER   == 5
SEND_SCIENCE_DATA_FILE == 6
SOFT_RESET             == 9
CLEAR_FAILURES         == {10, 11}     \* watchdog and checksum failures
SET_TIME_BYTE(n)       == 12 + n
SET_TIME               == {SET_TIME_BYTE(n) : n \in 0..3}
WRITE_CODE_MEMORY_MSB  == 16
WRITE_DATA_MEMORY_MSB  == 21
READ_DATA_MEMORY_MSB   == 31
READ_DATA_MEMORY_LSB   == 96
WRITE_DATA_MEMORY_LSB  == 106
WRITE_CODE_MEMORY_LSB  == 111
SWITCH_SU              == {32, 48, 64, 80}
SU_SETTINGS            == {a + k : a \in SWITCH_SU, k \in 1..13}
COEFFICIENTS           == 112..116
TM_READY               == 65535

\* TC_look_up: the codes that belong to an address.
ONLY_EQUAL == {START_ACQUISITION, STOP_ACQUISITION, ERROR_STATUS_CLEAR,
               SEND_SCIENCE_DATA_FILE, SOFT_RESET} \cup CLEAR_FAILURES
ALL_VALID  == SET_TIME \cup SU_SETTINGS \cup COEFFICIENTS \cup
              {WRITE_CODE_MEMORY_MSB, WRITE_CODE_MEMORY_LSB,
               WRITE_DATA_MEMORY_MSB, WRITE_DATA_MEMORY_LSB,
               READ_DATA_MEMORY_MSB, READ_DATA_MEMORY_LSB}
ON_VALUE   == 85
OFF_VALUE  == 115
SELF_TEST  == 153

=============================================================================
