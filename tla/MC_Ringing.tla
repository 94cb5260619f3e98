---------------------------- MODULE MC_Ringing ----------------------------
(***************************************************************************)
(* Ringing with three lines.                                               *)
(***************************************************************************)
EXTENDS Ringing

CONSTANTS l1, l2, l3

MCLines == {l1, l2, l3}
=============================================================================
