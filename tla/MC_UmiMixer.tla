---------------------------- MODULE MC_UmiMixer ----------------------------
(***************************************************************************)
(* UmiMixer with two messages of clients.                                  *)
(***************************************************************************)
EXTENDS UmiMixer

CONSTANTS r1, r2

MCRequests == {r1, r2}
=============================================================================
