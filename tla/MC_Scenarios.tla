--------------------------- MODULE MC_Scenarios ---------------------------
(***************************************************************************)
(* Scenarios with a small table: media has its hardwired back speaker and  *)
(* two headsets of equal priority, phone a removable back speaker, a front *)
(* speaker and Bluetooth SCO, visual voice mail its hardwired back speaker.*)
(* Priorities are those of EScenarioPriority, in tens; names sort as the   *)
(* strings of the scenarios do.                                            *)
(***************************************************************************)
EXTENDS Scenarios, TLC

CONSTANTS media, phone, vvm
CONSTANTS media_back, media_headset, media_headset_mic,
          phone_back, phone_front, phone_sco, vvm_back

MCModules == {media, phone, vvm}

MCScenarios == {media_back, media_headset, media_headset_mic,
                phone_back, phone_front, phone_sco, vvm_back}

MCOwnerOf ==
  [s \in MCScenarios |->
     CASE s \in {media_back, media_headset, media_headset_mic} -> media
       [] s \in {phone_back, phone_front, phone_sco} -> phone
       [] s = vvm_back -> vvm]

MCPriority ==
  media_back :> 1 @@ media_headset :> 7 @@ media_headset_mic :> 7 @@
  phone_back :> 2 @@ phone_front :> 3 @@ phone_sco :> 5 @@ vvm_back :> 3

MCNameOrder ==
  media_back :> 1 @@ media_headset :> 2 @@ media_headset_mic :> 3 @@
  phone_back :> 1 @@ phone_sco :> 2 @@ phone_front :> 3 @@ vvm_back :> 1

MCInitiallyEnabled == {media_back, phone_back, vvm_back}

MCHardwired == {media_back, vvm_back}
=============================================================================
