----------------------------- MODULE VolumeLock -----------------------------
(***************************************************************************)
(* What lockVolumeKeys promises: one subscription at a time takes the      *)
(* volume keys away from the scenarios, for its own module, and the keys   *)
(* are not handed from one subscription to another without being free.     *)
(*                                                                         *)
(* A subscription may end without giving the keys back: they are then      *)
(* stuck with its module.  VolumeKeys implements this specification, and    *)
(* assumes of the constants what sets their values apart.                  *)
(***************************************************************************)
CONSTANTS
  Requests,  \* calls of lockVolumeKeys
  Modules,   \* modules that have the method
  NoModule,  \* no module
  Free,      \* the owner when nobody has the keys
  Stuck      \* the owner when the subscription that had them is gone

VARIABLES
  owner,   \* who has the keys
  module   \* the module the keys are locked to

LockInit == owner = Free /\ module = NoModule

\* A subscription takes the keys when they are free.
Take(r) == owner = Free /\ owner' = r /\ module' \in Modules

\* The owner's subscription ends, and gives the keys back.
GiveBack == owner \in Requests /\ owner' = Free /\ module' = NoModule

\* The owner's subscription ends, and they stay with its module.
Leave == owner \in Requests /\ owner' = Stuck /\ UNCHANGED module

LockNext == (\E r \in Requests : Take(r)) \/ GiveBack \/ Leave

LockSpec == LockInit /\ [][LockNext]_<<owner, module>>
=============================================================================
