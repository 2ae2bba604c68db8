---------------------------- MODULE MCCodeMemory ----------------------------
(* CodeMemory for TLC. *)
EXTENDS CodeMemory, TLC

\* A PROM of five bytes of which two, one in SRAM1 and one below, are not
\* zero and make up for each other.
SmallPROM == 0 :> {1} @@ 1 :> {} @@ 2 :> {1} @@ 3 :> {} @@ 4 :> {}

=============================================================================
