------------------------------ MODULE SpiLink ------------------------------
(* The serial link of PapaBench between the autopilot, its master, and the  *)
(* fly-by-wire, its slave: link_fbw.c and spi.c of the autopilot, spi.c of  *)
(* the fly-by-wire.  A frame carries a message in either direction at the   *)
(* same time, byte by byte from interrupts, with an xor of its bytes at the *)
(* end that is taken to tell an intact frame from any other.  Messages are  *)
(* reduced to what decides about modes.                                     *)
EXTENDS Integers

CONSTANT MAX_PULSE   \* positions of the mode switch are 0..MAX_PULSE

VARIABLES
  spi_cur_slave,               \* autopilot: the slave selected
  link_fbw_receive_complete,   \*            a frame has ended,
  from_fbw,                    \*            and the message it brought, if it was valid
  idx_buf,                     \* fly-by-wire: bytes since spi_reset, none or some
  spi_was_interrupted,         \*              bytes have come since the last message was prepared
  to_mega128,                  \*              the message for the next frame,
  from_mega128                 \*              and the one a frame brought, if it was valid

masterVars == <<spi_cur_slave, link_fbw_receive_complete, from_fbw>>
slaveVars  == <<idx_buf, spi_was_interrupted, to_mega128>>
linkVars   == <<masterVars, slaveVars, from_mega128>>

\* inter_mcu_msg from the fly-by-wire: the channel of the mode switch, and the
\* bits RADIO_REALLY_LOST and AVERAGED_CHANNELS_SENT of the status.
Message == [pulse : 0..MAX_PULSE, lost : BOOLEAN, averaged : BOOLEAN]

\* from_fbw with link_fbw_receive_valid FALSE, from_mega128 likewise.
NoMessage == [pulse |-> -1]
link_fbw_receive_valid == from_fbw # NoMessage
mega128_receive_valid  == from_mega128 # NoMessage

\* Of a message of the autopilot only history is kept: the schedules of the
\* fly-by-wire since its frame ended, and whether its frame was the latest.
Received == [age : Nat, latest : BOOLEAN]
JustReceived == [age |-> 0, latest |-> TRUE]
Outdated     == [age |-> 0, latest |-> FALSE]   \* its age is not counted

\* A channel nobody has written: zero, in the middle of AUTO1.
Neutral == 2

SpiIsSelected == spi_cur_slave = "SPI_SLAVE0"

----------------------------------------------------------------------------

\* The autopilot starts a frame, unless one is under way.
link_fbw_send ==
  /\ ~SpiIsSelected
  /\ spi_cur_slave' = "SPI_SLAVE0"
  /\ from_fbw' = NoMessage
  /\ UNCHANGED <<link_fbw_receive_complete, slaveVars, from_mega128>>

\* The bytes of a frame, up to the interrupt that ends it.  The parties
\* understand each other if the slave was reset before the first byte and the
\* line (mosi, miso) changed nothing.  A slave that was not reset keeps the message
\* it has, or what bytes make of it that are stored out of step once its count of
\* eight bits has passed 255, and that message stays valid.
Frame(mosi, miso) ==
  /\ SpiIsSelected
  /\ spi_cur_slave' = "SPI_NONE"
  /\ link_fbw_receive_complete' = TRUE
  /\ from_fbw' = IF idx_buf = "none" /\ miso THEN to_mega128 ELSE NoMessage
  /\ spi_was_interrupted' = TRUE
  /\ from_mega128' =
       IF idx_buf = "none" THEN IF mosi THEN JustReceived ELSE from_mega128
       ELSE IF mega128_receive_valid THEN Outdated ELSE NoMessage
  /\ idx_buf' = "some"
  /\ UNCHANGED to_mega128

\* Fault: the count of bytes goes on.
spi_reset_Counting == UNCHANGED idx_buf /\ from_mega128' = NoMessage

\* The fly-by-wire gets ready for a frame.  If the master has started one,
\* its bytes have been counted up to here or not, as they had come or not.
spi_reset ==
  /\ idx_buf' \in IF SpiIsSelected THEN {"none", "some"} ELSE {"none"}
  /\ from_mega128' = NoMessage

----------------------------------------------------------------------------

LinkInit ==
  /\ spi_cur_slave = "SPI_NONE"
  /\ link_fbw_receive_complete = FALSE
  /\ from_fbw = NoMessage
  /\ idx_buf = "none"
  /\ spi_was_interrupted = FALSE
  /\ from_mega128 = NoMessage
  /\ to_mega128 = [pulse |-> Neutral, lost |-> FALSE, averaged |-> FALSE]

LinkType ==
  /\ spi_cur_slave \in {"SPI_NONE", "SPI_SLAVE0"}
  /\ link_fbw_receive_complete \in BOOLEAN
  /\ from_fbw \in Message \cup {NoMessage}
  /\ idx_buf \in {"none", "some"}
  /\ spi_was_interrupted \in BOOLEAN
  /\ from_mega128 \in Received \cup {NoMessage}
  /\ to_mega128 \in Message

=============================================================================
