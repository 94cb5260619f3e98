------------------------ MODULE MC_SharedProperties ------------------------
(***************************************************************************)
(* SharedProperties with two clients and two values.                       *)
(***************************************************************************)
EXTENDS SharedProperties

CONSTANTS c1, c2, v0, v1

MCClients == {c1, c2}
MCValues == {v0, v1}
=============================================================================
