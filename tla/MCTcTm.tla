------------------------------- MODULE MCTcTm -------------------------------
(* TcTm for TLC: the property about whole Write Memory sequences, and the  *)
(* refinement of TmSession.  The words of the uplink are in Uplinks.       *)
EXTENDS TcTm, Uplinks

(* Values of the constant Uplink.  TLC keeps the set that such a definition *)
(* refers to, and would evaluate it in every state without.                 *)
TransfersUplink  == Transfers
DataWritesUplink == DataWrites
CommandsUplink   == Commands

----------------------------------------------------------------------------

\* The telecommands that begin a Write Memory sequence.
MsbAddress(type) == IF type = "code_e" THEN WRITE_CODE_MEMORY_MSB ELSE WRITE_DATA_MEMORY_MSB
LsbAddress(type) == IF type = "code_e" THEN WRITE_CODE_MEMORY_LSB ELSE WRITE_DATA_MEMORY_LSB

\* The checksum over count words mailed, after the first ones.
SumOf(first, count) ==
  LET sum[i \in 0..count] ==
        IF i = 0 THEN 0 ELSE XorWord(sum[i - 1], received[first + i].word)
  IN  sum[count]

\* The block written to memory is the one that was sent: the last words
\* received are the MSB and LSB telecommands of its type and address, then its
\* bytes, then the word with a checksum over all of them.
SentBlock(n) ==
  LET words == MEM_BUFFER_SIZE \div 2
      w(i)  == received[n - 2 - words + i].word    \* w(0) is the MSB telecommand
  IN  /\ n > words + 2
      /\ TC_ADDRESS(w(0)) = MsbAddress(written'.type)
      /\ TC_ADDRESS(w(1)) = LsbAddress(written'.type)
      /\ written'.address = TC_CODE(w(0)) * 256 + TC_CODE(w(1))
      /\ Len(written'.bytes) = MEM_BUFFER_SIZE
      /\ \A i \in 1..words : /\ written'.bytes[2 * i - 1] = MSB(w(i + 1))
                             /\ written'.bytes[2 * i]     = LSB(w(i + 1))
      /\ SumOf(n - 3 - words, words + 3) = 0
PatchIsSentBlock == [][written' # written => SentBlock(Len(received))]_vars

----------------------------------------------------------------------------
(* Refinement mapping *)

InSession == [register_TM_e |-> "registers", SC_TM_e |-> "science", memory_dump_e |-> "dump"]
Kind  == IF TC_state \in DOMAIN InSession THEN InSession[TC_state] ELSE "idle"

From(area, first, count) == [i \in 1..count |-> At(area, first + 2 * (i - 1))]
RegisterPlan    == From("registers", 0, LAST_EVEN \div 2 + 1)
SciencePlan(n)  == From("science", 0, n \div 2)
DumpPlan(first) == <<Response>> \o From("memory", first, MEM_BUFFER_SIZE \div 2) \o <<Checksum>>

SciencePlans == {SciencePlan(n) : n \in FileSizes}
DumpPlans    == {DumpPlan(a) : a \in {b \in 0..END_SRAM3 : InData(b)}}

FirstRead == telemetry_end_pointer - MEM_BUFFER_SIZE
Plan ==
  CASE Kind = "registers" -> RegisterPlan
    [] Kind = "science"   -> SciencePlan(telemetry_end_pointer + 1)
    [] Kind = "dump"      -> DumpPlan(FirstRead)
    [] Kind = "idle"      -> <<>>
LastWord == IF Kind = "idle" THEN Response ELSE tm_word

TM == INSTANCE TmSession WITH
  NoWord  <- Response,
  Plans   <- [registers |-> {RegisterPlan}, science |-> SciencePlans, dump |-> DumpPlans],
  session <- Kind,
  plan    <- Plan,
  word    <- LastWord

\* With handlers that run to their end, telemetry keeps the promise of
\* TmSession: no word is skipped or repeated, no session ends early, and none
\* but register telemetry is replaced.
ImplementsTmSession == TM!Spec

=============================================================================
