---------------------------- MODULE MC_PulseLink ----------------------------
(***************************************************************************)
(* PulseLink with one sample, two tones, two generators and one upload at  *)
(* a time.                                                                 *)
(***************************************************************************)
EXTENDS PulseLink

CONSTANTS s1, t1, t2, g1, g2, u1

MCSamples == {s1}
MCTones == {t1, t2}
MCGens == {g1, g2}
MCUploads == {u1}
=============================================================================
