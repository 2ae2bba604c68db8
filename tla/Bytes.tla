------------------------------- MODULE Bytes -------------------------------
(***************************************************************************)
(* The operations on bytes and 16-bit words that the DEBIE-1 software uses *)
(* for checksums, parities and the two halves of a telecommand word.       *)
(***************************************************************************)
EXTENDS Integers

Byte == 0..255
Word == 0..65535

MSB(w) == w \div 256
LSB(w) == w % 256

\* Exclusive or of two bytes, bit by bit.
XorByte(a, b) ==
  LET bit(i) == (((a \div i) + (b \div i)) % 2) * i
  IN  bit(1) + bit(2) + bit(4) + bit(8) + bit(16) + bit(32) + bit(64) + bit(128)

\* A checksum extended by both bytes of a word.
XorWord(sum, w) == XorByte(sum, XorByte(MSB(w), LSB(w)))

\* Parity of a word: 1 if it has an odd number of bits.
Parity(w) ==
  LET par8   == XorByte(MSB(w), LSB(w))
      bit(i) == (par8 \div i) % 2
  IN  (bit(1) + bit(2) + bit(4) + bit(8) + bit(16) + bit(32) + bit(64) + bit(128)) % 2

=============================================================================
