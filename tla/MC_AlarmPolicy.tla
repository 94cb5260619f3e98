-------------------------- MODULE MC_AlarmPolicy --------------------------
(***************************************************************************)
(* AlarmPolicy with its four sinks as model values; only the override of   *)
(* timers changes, that of alarms stays off.                               *)
(***************************************************************************)
EXTENDS AlarmPolicy

MCOverridable == {etimer}
=============================================================================
