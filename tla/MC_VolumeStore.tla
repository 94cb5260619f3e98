-------------------------- MODULE MC_VolumeStore --------------------------
(***************************************************************************)
(* VolumeStore for the phone, whose scenario can be disabled, with a file  *)
(* in the old format.  Steps of one percent reach every volume.            *)
(***************************************************************************)
EXTENDS VolumeStore

MCSteps == {-20, -2, -1, 1, 2, 20}
MCPercents == {-100, -1, 7}
MCLegacy == 40
MCRequested == {0, 50, 94}
=============================================================================
