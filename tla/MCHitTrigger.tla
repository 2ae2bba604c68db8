---- MODULE MCHitTrigger ----
(* The hit trigger with a self test of two channels, one of them the one   *)
(* that software triggers.                                                 *)
EXTENDS HitTrigger

TwoChannels == <<"PLASMA_1_PLUS", "PLASMA_2_PLUS">>
====
