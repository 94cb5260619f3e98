---------------------------- MODULE MC_Recording ----------------------------
(***************************************************************************)
(* Recording with two counted sources and the voice activator.             *)
(***************************************************************************)
EXTENDS Recording

CONSTANTS erecord, evoipsource

MCCounted == {erecord, evoipsource}
=============================================================================
