----------------------------- MODULE VolumeKeys -----------------------------
(***************************************************************************)
(* The lock of the volume keys: lockVolumeKeys of the media, phone and     *)
(* ringtone modules, and the end of its subscriptions, in State.           *)
(*                                                                         *)
(* An application subscribes either to lock the keys to a module, which    *)
(* one may do at a time, or as the foreground application of a module,     *)
(* which counts on the module and directs the keys to it whenever it has   *)
(* the focus.  The subscription's end is told by the bus, which hands back *)
(* the message that began it; foregroundApp is optional in it.             *)
(***************************************************************************)
EXTENDS Integers, FiniteSets

CONSTANTS
  Requests,  \* calls of lockVolumeKeys, each of which happens once
  Modules,   \* the modules that have the method
  Media,     \* the media module
  NoModule,  \* NULL
  Free,      \* no request has the keys
  Stuck      \* the request that had them has ended

ASSUME VolumeKeysAssumption ==
  /\ Media \in Modules
  /\ NoModule \notin Modules
  /\ Free # Stuck
  /\ {Free, Stuck} \cap Requests = {}

VARIABLES
  lockedVolumeModule,  \* mLockedVolumeModule
  volumeOverride,      \* mVolumeOverride of each module
  currentModule,       \* sCurrentModule
  call                 \* each request, with what its message says and where it is

vars == <<lockedVolumeModule, volumeOverride, currentModule, call>>

Calls == [state : {"new", "subscribed", "refused", "ended"},
          module : Modules,
          foregroundApp : {"true", "false", "omitted"}]

TypeOK ==
  /\ lockedVolumeModule \in Modules \cup {NoModule}
  /\ volumeOverride \in [Modules -> Nat]
  /\ currentModule \in Modules
  /\ call \in [Requests -> Calls]

Init ==
  /\ lockedVolumeModule = NoModule
  /\ volumeOverride = [m \in Modules |-> 0]
  /\ currentModule = Media
  /\ call \in [Requests -> [state : {"new"}, module : Modules,
                            foregroundApp : {"true", "false", "omitted"}]]

-----------------------------------------------------------------------------
\* The request asks for the override of a foreground application.
Foreground(r) == call[r].foregroundApp = "true"

\* setVolumeOverride
SetVolumeOverride(m, override) ==
  volumeOverride' = [volumeOverride EXCEPT ![m] =
                       IF override THEN @ + 1 ELSE IF @ = 0 THEN 0 ELSE @ - 1]

\* Mutant: the last to ask gets the lock.
MutLockTaken(m) == FALSE

\* setLockedVolumeModule refuses.
Refuses(m) == m # NoModule /\ lockedVolumeModule # NoModule

\* LSMessageReply, with what becomes of the subscription.
Reply(r, state) == call' = [call EXCEPT ![r].state = state]

\* _lockVolumeKeys of a foreground application.  added is LSSubscriptionAdd; when
\* it fails the override is taken back.
LockForeground(r, added) ==
  /\ call[r].state = "new"
  /\ Foreground(r)
  /\ IF added THEN SetVolumeOverride(call[r].module, TRUE) ELSE UNCHANGED volumeOverride
  /\ Reply(r, IF added THEN "subscribed" ELSE "refused")
  /\ UNCHANGED <<lockedVolumeModule, currentModule>>

\* Mutant: the lock stays when the subscription fails.
MutLockKept(r, added) ==
  /\ call[r].state = "new"
  /\ ~Foreground(r)
  /\ LET granted == ~Refuses(call[r].module) IN
     /\ lockedVolumeModule' = IF granted THEN call[r].module ELSE lockedVolumeModule
     /\ Reply(r, IF granted /\ added THEN "subscribed" ELSE "refused")
  /\ UNCHANGED <<volumeOverride, currentModule>>

\* _lockVolumeKeys, the lock.  When LSSubscriptionAdd fails it is released.
LockKeys(r, added) ==
  /\ call[r].state = "new"
  /\ ~Foreground(r)
  /\ LET granted == ~Refuses(call[r].module) IN
     /\ lockedVolumeModule' = IF ~granted THEN lockedVolumeModule
                              ELSE IF added THEN call[r].module ELSE NoModule
     /\ Reply(r, IF granted /\ added THEN "subscribed" ELSE "refused")
  /\ UNCHANGED <<volumeOverride, currentModule>>

-----------------------------------------------------------------------------
\* Mutant: the end of any foreground subscription counts for media.
MutAnyCategory(r, garbage) ==
  IF Foreground(r)
  THEN /\ SetVolumeOverride(Media, FALSE)
       /\ UNCHANGED lockedVolumeModule
  ELSE /\ lockedVolumeModule' =
            IF call[r].foregroundApp = "omitted" /\ garbage THEN lockedVolumeModule
            ELSE NoModule
       /\ UNCHANGED volumeOverride

\* cancelSubscriptionCallback.  Only media's override is taken back.  When the
\* message omits foregroundApp the variable has whatever value was there: garbage.
CancelSubscription(r, garbage) ==
  IF Foreground(r)
  THEN /\ IF call[r].module = Media THEN SetVolumeOverride(Media, FALSE)
          ELSE UNCHANGED volumeOverride
       /\ UNCHANGED lockedVolumeModule
  ELSE /\ lockedVolumeModule' =
            IF call[r].foregroundApp = "omitted" /\ garbage THEN lockedVolumeModule
            ELSE NoModule
       /\ UNCHANGED volumeOverride

\* The bus tells the end of a subscription, and of nothing else.
End(r, garbage) ==
  /\ call[r].state = "subscribed"
  /\ CancelSubscription(r, garbage)
  /\ Reply(r, "ended")
  /\ UNCHANGED currentModule

\* setCurrent: another module has the focus, whoever has the keys.
SetCurrent(m) ==
  /\ currentModule' = m
  /\ UNCHANGED <<lockedVolumeModule, volumeOverride, call>>

Next ==
  \/ \E r \in Requests, added \in BOOLEAN : LockForeground(r, added) \/ LockKeys(r, added)
  \/ \E r \in Requests, garbage \in BOOLEAN : End(r, garbage)
  \/ \E m \in Modules : SetCurrent(m)

Spec == Init /\ [][Next]_vars

-----------------------------------------------------------------------------
(* Properties.                                                             *)

\* getExplicitVolumeControlModule
ExplicitVolumeControlModule ==
  IF lockedVolumeModule # NoModule THEN lockedVolumeModule
  ELSE IF volumeOverride[currentModule] > 0 THEN currentModule
  ELSE NoModule

\* Live subscriptions that have locked the keys, and foreground applications.
Holders == {r \in Requests : call[r].state = "subscribed" /\ ~Foreground(r)}
ForegroundApps(m) ==
  {r \in Requests : call[r].state = "subscribed" /\ Foreground(r) /\ call[r].module = m}

\* The subscription that locked the keys has them to itself until it ends: they
\* are its module's, whatever other requests and their ends do, and whichever
\* module has the focus.
HolderHasTheKeys ==
  /\ \A r \in Holders : ExplicitVolumeControlModule = call[r].module
  /\ \A r, s \in Holders : r = s

\* A foreground application's override lasts as long as its subscription, and
\* media's no longer than the last of them.
OverridesCounted ==
  /\ \A m \in Modules : volumeOverride[m] >= Cardinality(ForegroundApps(m))
  /\ volumeOverride[Media] = Cardinality(ForegroundApps(Media))

\* Refinement: the lock's owner is the request that holds it.
Owner == IF lockedVolumeModule = NoModule THEN Free
         ELSE IF Holders = {} THEN Stuck ELSE CHOOSE r \in Holders : TRUE

Lock == INSTANCE VolumeLock WITH owner <- Owner, module <- lockedVolumeModule

\* The keys are taken when free only, kept to the end of the subscription, and
\* are given back by that end, or stuck, and by nothing else.
ImplementsVolumeLock == Lock!LockSpec
=============================================================================
