----------------------------- MODULE MC_Devices -----------------------------
(***************************************************************************)
(* Devices with one USB card, media and phone with the back speaker each.  *)
(***************************************************************************)
EXTENDS Devices, TLC

CONSTANTS media, phone, media_back, phone_back, c1

MCModules == {media, phone}
MCScenarios == {media_back, phone_back}
MCOwnerOf == media_back :> media @@ phone_back :> phone
MCPriority == media_back :> 1 @@ phone_back :> 2
MCNameOrder == media_back :> 1 @@ phone_back :> 1
MCHardwired == {media_back}
MCCards == {c1}
=============================================================================
