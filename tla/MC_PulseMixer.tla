--------------------------- MODULE MC_PulseMixer ---------------------------
(***************************************************************************)
(* PulseMixer with one high latency and one low latency sink.              *)
(***************************************************************************)
EXTENDS PulseMixer

CONSTANTS emedia, eeffects

MCSinks == {emedia, eeffects}
MCNeverMuted == {eeffects}
=============================================================================
