-------------------------- MODULE MC_SoundProfile --------------------------
(***************************************************************************)
(* SoundProfile with setPreference used for two preferences.               *)
(***************************************************************************)
EXTENDS SoundProfile

MCRequested == {"RingerOn", "DndOn"}
=============================================================================
