--------------------------- MODULE MC_VolumeKeys ---------------------------
(***************************************************************************)
(* VolumeKeys with three requests and two modules.                         *)
(***************************************************************************)
EXTENDS VolumeKeys, TLC

CONSTANTS r1, r2, r3, media, phone

MCRequests == {r1, r2, r3}
MCModules == {media, phone}
=============================================================================
