--------------------------- MODULE Volumes_proofs ---------------------------
(***************************************************************************)
(* Theorems of VolumeKeys, for any requests, be there infinitely many, and *)
(* any modules; and of VolumeStore, for every set of requests, every       *)
(* default and every content of the file.                                  *)
(*                                                                         *)
(* HolderHasTheKeys is strengthened to KeysInv, which says where the lock  *)
(* is: with no holder, or with one and its module.  The refinement of      *)
(* VolumeLock rests on it, since the owner is computed from the holders.   *)
(* OverridesCounted needs, besides, that only finitely many requests have  *)
(* come so far.                                                            *)
(*                                                                         *)
(* Every volume set is stored, or about to be, since a change arms the     *)
(* timer.  What the steps of volume.cpp compute is recursive: that the     *)
(* recursive function exists, and moves one tic at a time, is by induction *)
(* over a set of numbers, from the minimality principle of well-founded    *)
(* relations.                                                              *)
(***************************************************************************)
EXTENDS VolumeKeys, VolumeStore, FiniteSetTheorems, WellFoundedInduction, TLAPS

\* At most one request holds the keys, and then they are locked to its module.
OneHolder ==
  \/ Holders = {}
  \/ \E r \in Requests : Holders = {r} /\ lockedVolumeModule = call[r].module

KeysInv == TypeOK /\ OneHolder

-----------------------------------------------------------------------------
(* Types.                                                                  *)

\* setVolumeOverride never makes a counter negative.
LEMMA OverrideType ==
  ASSUME TypeOK, NEW m \in Modules, NEW b \in BOOLEAN, SetVolumeOverride(m, b)
  PROVE  volumeOverride' \in [Modules -> Nat]
BY DEF TypeOK, SetVolumeOverride

\* A reply changes where a request is, and nothing else of it.
LEMMA ReplyType ==
  ASSUME TypeOK, NEW r \in Requests,
         NEW s \in {"new", "subscribed", "refused", "ended"}, Reply(r, s)
  PROVE  call' \in [Requests -> Calls]
BY DEF TypeOK, Reply, Calls

LEMMA TypeStep == TypeOK /\ [Next]_vars => TypeOK'
<1> SUFFICES ASSUME TypeOK, [Next]_vars PROVE TypeOK'
  OBVIOUS
<1> USE VolumeKeysAssumption
<1>1. ASSUME NEW r \in Requests, NEW added \in BOOLEAN, LockForeground(r, added)
      PROVE  TypeOK'
  <2>1. call' \in [Requests -> Calls]
    BY <1>1, ReplyType DEF LockForeground
  <2>2. call[r].module \in Modules
    BY DEF TypeOK, Calls
  <2>3. volumeOverride' \in [Modules -> Nat]
    BY <1>1, <2>2, OverrideType DEF LockForeground, TypeOK
  <2>4. QED
    BY <1>1, <2>1, <2>3 DEF LockForeground, TypeOK
<1>2. ASSUME NEW r \in Requests, NEW added \in BOOLEAN, LockKeys(r, added)
      PROVE  TypeOK'
  <2>1. call' \in [Requests -> Calls]
    BY <1>2, ReplyType DEF LockKeys
  <2>2. call[r].module \in Modules
    BY DEF TypeOK, Calls
  <2>3. QED
    BY <1>2, <2>1, <2>2 DEF LockKeys, TypeOK
<1>3. ASSUME NEW r \in Requests, NEW garbage \in BOOLEAN, End(r, garbage)
      PROVE  TypeOK'
  <2>1. call' \in [Requests -> Calls]
    BY <1>3, ReplyType DEF End
  <2>2. volumeOverride' \in [Modules -> Nat]
    BY <1>3, OverrideType DEF End, CancelSubscription, TypeOK
  <2>3. QED
    BY <1>3, <2>1, <2>2 DEF End, CancelSubscription, TypeOK
<1>4. ASSUME NEW m \in Modules, SetCurrent(m) PROVE TypeOK'
  BY <1>4 DEF SetCurrent, TypeOK
<1>5. CASE UNCHANGED vars
  BY <1>5 DEF vars, TypeOK
<1>6. QED
  BY <1>1, <1>2, <1>3, <1>4, <1>5 DEF Next

LEMMA TypeInitially == Init => TypeOK
<1> SUFFICES ASSUME Init PROVE TypeOK
  OBVIOUS
<1>1. call \in [Requests -> Calls]
  BY DEF Init, Calls
<1>2. QED
  BY <1>1, VolumeKeysAssumption DEF Init, TypeOK

\* The state of the keys keeps its types.
THEOREM KeysTypes == Spec => []TypeOK
BY TypeInitially, TypeStep, PTL DEF Spec

-----------------------------------------------------------------------------
(* Who holds the keys.                                                     *)

\* A foreground application's step leaves the holders as they are.
LEMMA ForegroundHolds ==
  ASSUME TypeOK, NEW r \in Requests, Foreground(r), NEW s, Reply(r, s)
  PROVE  Holders' = Holders
BY DEF TypeOK, Calls, Foreground, Reply, Holders

\* A lock that is granted adds a holder.
LEMMA HolderComes ==
  ASSUME TypeOK, NEW r \in Requests, ~Foreground(r), Reply(r, "subscribed")
  PROVE  Holders' = Holders \cup {r}
BY DEF TypeOK, Calls, Foreground, Reply, Holders

\* A lock that is refused, or whose subscription ends, leaves no holder behind.
LEMMA HolderGoes ==
  ASSUME TypeOK, NEW r \in Requests, ~Foreground(r),
         NEW s \in {"refused", "ended"}, Reply(r, s)
  PROVE  Holders' = Holders \ {r}
BY DEF TypeOK, Calls, Foreground, Reply, Holders

\* What a request asks for does not change.
LEMMA RequestKept ==
  ASSUME TypeOK, NEW r \in Requests, NEW s, Reply(r, s), NEW q \in Requests
  PROVE  /\ call'[q].module = call[q].module
         /\ call'[q].foregroundApp = call[q].foregroundApp
BY DEF TypeOK, Calls, Reply

\* With a holder the lock is taken, and every other request is refused.
LEMMA HolderLocks ==
  ASSUME KeysInv, Holders # {}, NEW m \in Modules
  PROVE  lockedVolumeModule \in Modules /\ Refuses(m)
BY VolumeKeysAssumption DEF KeysInv, OneHolder, TypeOK, Calls, Refuses

LEMMA LockKeysStep ==
  ASSUME KeysInv, NEW r \in Requests, NEW added \in BOOLEAN, LockKeys(r, added)
  PROVE  OneHolder'
<1> USE DEF KeysInv
<1>1. call[r].module \in Modules /\ ~Foreground(r) /\ r \notin Holders
  BY DEF TypeOK, Calls, LockKeys, Holders
<1>2. CASE Refuses(call[r].module)
  <2>1. Holders' = Holders
    BY <1>1, <1>2, HolderGoes DEF LockKeys
  <2>2. lockedVolumeModule' = lockedVolumeModule
    BY <1>2 DEF LockKeys
  <2>3. \A q \in Requests : call'[q].module = call[q].module
    BY <1>2, RequestKept DEF LockKeys
  <2>4. QED
    BY <2>1, <2>2, <2>3 DEF OneHolder
<1>3. CASE ~Refuses(call[r].module) /\ added
  <2>1. Holders = {}
    BY <1>1, <1>3, HolderLocks
  <2>2. Holders' = {r}
    BY <1>1, <1>3, <2>1, HolderComes DEF LockKeys
  <2>3. lockedVolumeModule' = call[r].module /\ call'[r].module = call[r].module
    BY <1>3, RequestKept DEF LockKeys
  <2>4. QED
    BY <2>2, <2>3 DEF OneHolder
<1>4. CASE ~Refuses(call[r].module) /\ ~added
  <2>1. Holders = {}
    BY <1>1, <1>4, HolderLocks
  <2>2. Holders' = {}
    BY <1>1, <1>4, <2>1, HolderGoes DEF LockKeys
  <2>3. QED
    BY <2>2 DEF OneHolder
<1>5. QED
  BY <1>2, <1>3, <1>4

LEMMA EndStep ==
  ASSUME KeysInv, NEW r \in Requests, NEW garbage \in BOOLEAN, End(r, garbage)
  PROVE  OneHolder'
<1> USE DEF KeysInv
<1>1. CASE Foreground(r)
  <2>1. Holders' = Holders /\ lockedVolumeModule' = lockedVolumeModule
    BY <1>1, ForegroundHolds DEF End, CancelSubscription
  <2>2. \A q \in Requests : call'[q].module = call[q].module
    BY RequestKept DEF End
  <2>3. QED
    BY <2>1, <2>2 DEF OneHolder
<1>2. CASE ~Foreground(r)
  <2>1. r \in Holders
    BY <1>2 DEF End, Holders
  <2>2. Holders = {r}
    BY <2>1 DEF OneHolder
  <2>3. Holders' = {}
    BY <1>2, <2>2, HolderGoes DEF End
  <2>4. QED
    BY <2>3 DEF OneHolder
<1>3. QED
  BY <1>1, <1>2

LEMMA KeysStep == KeysInv /\ [Next]_vars => KeysInv'
<1> SUFFICES ASSUME KeysInv, [Next]_vars PROVE OneHolder'
  BY TypeStep DEF KeysInv
<1>1. ASSUME NEW r \in Requests, NEW added \in BOOLEAN, LockForeground(r, added)
      PROVE  OneHolder'
  <2>1. Holders' = Holders /\ lockedVolumeModule' = lockedVolumeModule
    BY <1>1, ForegroundHolds DEF LockForeground, KeysInv
  <2>2. \A q \in Requests : call'[q].module = call[q].module
    BY <1>1, RequestKept DEF LockForeground, KeysInv
  <2>3. QED
    BY <2>1, <2>2 DEF OneHolder, KeysInv
<1>2. ASSUME NEW m \in Modules, SetCurrent(m) PROVE OneHolder'
  BY <1>2 DEF SetCurrent, KeysInv, OneHolder, Holders, Foreground
<1>3. CASE UNCHANGED vars
  BY <1>3 DEF vars, KeysInv, OneHolder, Holders, Foreground
<1>4. QED
  BY <1>1, <1>2, <1>3, LockKeysStep, EndStep DEF Next

LEMMA KeysInitially == Init => KeysInv
<1> SUFFICES ASSUME Init PROVE OneHolder
  BY TypeInitially DEF KeysInv
<1>1. Holders = {}
  BY DEF Init, Holders
<1>2. QED
  BY <1>1 DEF OneHolder

LEMMA KeysAlways == Spec => []KeysInv
BY KeysInitially, KeysStep, PTL DEF Spec

\* The subscription that locked the volume keys has them to itself until it ends,
\* whatever other requests, their ends and the focus do (setLockedVolumeModule).
THEOREM TheHolderHasThem == Spec => []HolderHasTheKeys
<1>1. KeysInv => HolderHasTheKeys
  <2> SUFFICES ASSUME KeysInv PROVE HolderHasTheKeys
    OBVIOUS
  <2>1. \A r, s \in Holders : r = s
    BY DEF KeysInv, OneHolder
  <2>2. ASSUME NEW r \in Holders PROVE ExplicitVolumeControlModule = call[r].module
    <3>1. lockedVolumeModule = call[r].module
      BY DEF KeysInv, OneHolder
    <3>2. lockedVolumeModule # NoModule
      BY <3>1, VolumeKeysAssumption DEF KeysInv, TypeOK, Calls, Holders
    <3>3. QED
      BY <3>1, <3>2 DEF ExplicitVolumeControlModule
  <2>3. QED
    BY <2>1, <2>2 DEF HolderHasTheKeys
<1>2. QED
  BY <1>1, KeysAlways, PTL

-----------------------------------------------------------------------------
(* The abstract lock.                                                      *)

\* The owner, from what the code keeps.
OwnerFacts ==
  /\ lockedVolumeModule = NoModule => Owner = Free
  /\ \A r \in Requests : Holders = {r} => Owner = r /\ lockedVolumeModule \in Modules
  /\ Holders = {} /\ lockedVolumeModule # NoModule => Owner = Stuck

LEMMA OwnerIs == KeysInv => OwnerFacts
<1> SUFFICES ASSUME KeysInv PROVE OwnerFacts
  OBVIOUS
<1>1. ASSUME NEW r \in Requests, Holders = {r}
      PROVE  Owner = r /\ lockedVolumeModule \in Modules
  <2>1. lockedVolumeModule = call[r].module
    BY <1>1 DEF KeysInv, OneHolder
  <2>2. lockedVolumeModule \in Modules
    BY <2>1 DEF KeysInv, TypeOK, Calls
  <2>3. QED
    BY <1>1, <2>2, VolumeKeysAssumption DEF Owner
<1>2. QED
  BY <1>1 DEF Owner, OwnerFacts

LEMMA OwnerIsNext == KeysInv' => OwnerFacts'
BY OwnerIs, PTL

\* A step that keeps the holders and the lock keeps the owner.
LEMMA OwnerKept ==
  ASSUME Holders' = Holders, lockedVolumeModule' = lockedVolumeModule
  PROVE  UNCHANGED <<Owner, lockedVolumeModule>>
BY DEF Owner

\* _lockVolumeKeys takes the keys when they are free, or changes nothing.
LEMMA LockKeysTakes ==
  ASSUME KeysInv, KeysInv', NEW r \in Requests, NEW added \in BOOLEAN,
         LockKeys(r, added)
  PROVE  Lock!Take(r) \/ UNCHANGED <<Owner, lockedVolumeModule>>
<1>1. call[r].module \in Modules /\ ~Foreground(r) /\ r \notin Holders
  BY DEF KeysInv, TypeOK, Calls, LockKeys, Holders
<1>2. CASE Refuses(call[r].module)
  <2>1. Holders' = Holders
    BY <1>1, <1>2, HolderGoes DEF LockKeys, KeysInv
  <2>2. lockedVolumeModule' = lockedVolumeModule
    BY <1>2 DEF LockKeys
  <2>3. QED
    BY <2>1, <2>2, OwnerKept
<1>3. CASE ~Refuses(call[r].module)
  <2>1. lockedVolumeModule = NoModule
    BY <1>1, <1>3, VolumeKeysAssumption DEF Refuses
  <2>2. Owner = Free /\ Holders = {}
    BY <1>1, <1>3, <2>1, OwnerIs, HolderLocks DEF OwnerFacts
  <2>3. CASE added
    <3>1. Holders' = {r}
      BY <1>1, <1>3, <2>2, <2>3, HolderComes DEF LockKeys, KeysInv
    <3>2. Owner' = r /\ lockedVolumeModule' \in Modules
      BY <3>1, OwnerIsNext DEF OwnerFacts
    <3>3. QED
      BY <2>2, <3>2 DEF Lock!Take
  <2>4. CASE ~added
    <3>1. lockedVolumeModule' = NoModule
      BY <1>3, <2>4 DEF LockKeys
    <3>2. Owner' = Free
      BY <3>1 DEF Owner
    <3>3. QED
      BY <2>1, <2>2, <3>1, <3>2
  <2>5. QED
    BY <2>3, <2>4
<1>4. QED
  BY <1>2, <1>3

\* The end of a subscription gives the keys back, leaves them stuck, or was not the
\* owner's (cancelSubscriptionCallback).
LEMMA EndGivesBack ==
  ASSUME KeysInv, KeysInv', NEW r \in Requests, NEW garbage \in BOOLEAN,
         End(r, garbage)
  PROVE  \/ Lock!GiveBack \/ Lock!Leave
         \/ UNCHANGED <<Owner, lockedVolumeModule>>
<1>1. CASE Foreground(r)
  <2>1. Holders' = Holders /\ lockedVolumeModule' = lockedVolumeModule
    BY <1>1, ForegroundHolds DEF End, CancelSubscription, KeysInv
  <2>2. QED
    BY <2>1, OwnerKept
<1>2. CASE ~Foreground(r)
  <2>1. r \in Holders
    BY <1>2 DEF End, Holders
  <2>2. Holders = {r}
    BY <2>1 DEF OneHolder, KeysInv
  <2>3. Owner = r /\ lockedVolumeModule # NoModule
    BY <2>2, OwnerIs, VolumeKeysAssumption DEF OwnerFacts
  <2>4. Holders' = {}
    BY <1>2, <2>2, HolderGoes DEF End, KeysInv
  <2>5. CASE lockedVolumeModule' = NoModule
    <3>1. Owner' = Free
      BY <2>5 DEF Owner
    <3>2. QED
      BY <2>3, <2>5, <3>1 DEF Lock!GiveBack
  <2>6. CASE lockedVolumeModule' # NoModule
    <3>1. lockedVolumeModule' = lockedVolumeModule
      BY <1>2, <2>6 DEF End, CancelSubscription
    <3>2. Owner' = Stuck
      BY <2>4, <2>6, OwnerIsNext DEF OwnerFacts
    <3>3. QED
      BY <2>3, <3>1, <3>2 DEF Lock!Leave
  <2>7. QED
    BY <2>5, <2>6
<1>3. QED
  BY <1>1, <1>2

\* Every step of the keys is one of the abstract lock, or does not touch it.
LEMMA StepRefines ==
  KeysInv /\ KeysInv' /\ [Next]_vars => [Lock!LockNext]_<<Owner, lockedVolumeModule>>
<1> SUFFICES ASSUME KeysInv, KeysInv', [Next]_vars
             PROVE  [Lock!LockNext]_<<Owner, lockedVolumeModule>>
  OBVIOUS
<1>1. ASSUME NEW r \in Requests, NEW added \in BOOLEAN, LockForeground(r, added)
      PROVE  UNCHANGED <<Owner, lockedVolumeModule>>
  BY <1>1, ForegroundHolds, OwnerKept DEF LockForeground, KeysInv
<1>2. ASSUME NEW m \in Modules, SetCurrent(m)
      PROVE  UNCHANGED <<Owner, lockedVolumeModule>>
  <2>1. Holders' = Holders /\ lockedVolumeModule' = lockedVolumeModule
    BY <1>2 DEF SetCurrent, Holders, Foreground
  <2>2. QED
    BY <2>1, OwnerKept
<1>3. CASE UNCHANGED vars
  <2>1. Holders' = Holders /\ lockedVolumeModule' = lockedVolumeModule
    BY <1>3 DEF vars, Holders, Foreground
  <2>2. QED
    BY <2>1, OwnerKept
<1>4. QED
  BY <1>1, <1>2, <1>3, LockKeysTakes, EndGivesBack DEF Next, Lock!LockNext

LEMMA InitRefines == Init => Lock!LockInit
BY DEF Init, Lock!LockInit, Owner

\* The code implements the abstract lock: the keys are taken when free only, and
\* given back, or stuck, by the end of the subscription that has them.
THEOREM KeysImplementLock == Spec => ImplementsVolumeLock
BY InitRefines, StepRefines, KeysAlways, PTL
DEF Spec, ImplementsVolumeLock, Lock!LockSpec

-----------------------------------------------------------------------------
(* The overrides of foreground applications.                               *)

\* Only finitely many applications are in the foreground, and each has its override.
AppsInv ==
  \A m \in Modules :
    /\ IsFiniteSet(ForegroundApps(m))
    /\ volumeOverride[m] >= Cardinality(ForegroundApps(m))
    /\ m = Media => volumeOverride[m] = Cardinality(ForegroundApps(m))

\* The steps of a request that locks the keys do not touch the applications.
LEMMA AppsKept ==
  ASSUME TypeOK, NEW r \in Requests, ~Foreground(r), NEW s, Reply(r, s),
         NEW m \in Modules
  PROVE  ForegroundApps(m)' = ForegroundApps(m)
BY DEF TypeOK, Calls, Foreground, Reply, ForegroundApps

LEMMA AppComes ==
  ASSUME TypeOK, NEW r \in Requests, Foreground(r), Reply(r, "subscribed"),
         NEW m \in Modules
  PROVE  ForegroundApps(m)' = IF m = call[r].module THEN ForegroundApps(m) \cup {r}
                              ELSE ForegroundApps(m)
BY DEF TypeOK, Calls, Foreground, Reply, ForegroundApps

LEMMA AppGoes ==
  ASSUME TypeOK, NEW r \in Requests, Foreground(r),
         NEW s \in {"refused", "ended"}, Reply(r, s), NEW m \in Modules
  PROVE  ForegroundApps(m)' = IF m = call[r].module THEN ForegroundApps(m) \ {r}
                              ELSE ForegroundApps(m)
BY DEF TypeOK, Calls, Foreground, Reply, ForegroundApps

\* A foreground application counts when its subscription has been added.
LEMMA AppsLockForeground ==
  ASSUME TypeOK, AppsInv, NEW r \in Requests, NEW added \in BOOLEAN,
         LockForeground(r, added)
  PROVE  AppsInv'
<1>1. SUFFICES ASSUME NEW m \in Modules
               PROVE  /\ IsFiniteSet(ForegroundApps(m)')
                      /\ volumeOverride'[m] >= Cardinality(ForegroundApps(m)')
                      /\ m = Media => volumeOverride'[m] = Cardinality(ForegroundApps(m)')
  BY DEF AppsInv
<1>2. IsFiniteSet(ForegroundApps(m)) /\ Cardinality(ForegroundApps(m)) \in Nat
  BY FS_CardinalityType DEF AppsInv
<1>3. r \notin ForegroundApps(m)
  BY DEF LockForeground, ForegroundApps
<1>4. volumeOverride[m] \in Nat
  BY DEF TypeOK
<1>5. CASE added /\ m = call[r].module
  <2>1. ForegroundApps(m)' = ForegroundApps(m) \cup {r}
    BY <1>5, AppComes DEF LockForeground
  <2>2. /\ IsFiniteSet(ForegroundApps(m)')
        /\ Cardinality(ForegroundApps(m)') = Cardinality(ForegroundApps(m)) + 1
    BY <1>2, <1>3, <2>1, FS_AddElement
  <2>3. volumeOverride'[m] = volumeOverride[m] + 1
    BY <1>5 DEF LockForeground, SetVolumeOverride, TypeOK
  <2>4. QED
    BY <1>2, <1>4, <2>2, <2>3 DEF AppsInv
<1>6. CASE ~(added /\ m = call[r].module)
  <2>1. ForegroundApps(m)' = ForegroundApps(m)
    BY <1>3, <1>6, AppComes, AppGoes DEF LockForeground
  <2>2. volumeOverride'[m] = volumeOverride[m]
    BY <1>6 DEF LockForeground, SetVolumeOverride, TypeOK
  <2>3. QED
    BY <1>2, <2>1, <2>2 DEF AppsInv
<1>7. QED
  BY <1>5, <1>6

\* It stops counting with its subscription if it is media's.
LEMMA AppsEnd ==
  ASSUME TypeOK, AppsInv, NEW r \in Requests, NEW garbage \in BOOLEAN, End(r, garbage)
  PROVE  AppsInv'
<1>1. SUFFICES ASSUME NEW m \in Modules
               PROVE  /\ IsFiniteSet(ForegroundApps(m)')
                      /\ volumeOverride'[m] >= Cardinality(ForegroundApps(m)')
                      /\ m = Media => volumeOverride'[m] = Cardinality(ForegroundApps(m)')
  BY DEF AppsInv
<1>2. IsFiniteSet(ForegroundApps(m)) /\ Cardinality(ForegroundApps(m)) \in Nat
  BY FS_CardinalityType DEF AppsInv
<1>3. volumeOverride[m] \in Nat
  BY DEF TypeOK
<1>4. CASE ~Foreground(r)
  BY <1>2, <1>4, AppsKept DEF End, CancelSubscription, AppsInv
<1>5. CASE Foreground(r) /\ m # call[r].module
  <2>1. ForegroundApps(m)' = ForegroundApps(m)
    BY <1>5, AppGoes DEF End
  <2>2. volumeOverride'[m] = volumeOverride[m]
    BY <1>5, VolumeKeysAssumption DEF End, CancelSubscription, SetVolumeOverride, TypeOK
  <2>3. QED
    BY <1>2, <2>1, <2>2 DEF AppsInv
<1>6. CASE Foreground(r) /\ m = call[r].module
  <2>1. r \in ForegroundApps(m) /\ ForegroundApps(m)' = ForegroundApps(m) \ {r}
    BY <1>6, AppGoes DEF End, ForegroundApps
  <2>2. /\ IsFiniteSet(ForegroundApps(m)')
        /\ Cardinality(ForegroundApps(m)') = Cardinality(ForegroundApps(m)) - 1
    BY <1>2, <2>1, FS_RemoveElement
  <2>3. Cardinality(ForegroundApps(m)) # 0
    BY <1>2, <2>1, FS_EmptySet
  <2>4. CASE m = Media
    <3>1. volumeOverride'[m] = IF volumeOverride[m] = 0 THEN 0 ELSE volumeOverride[m] - 1
      BY <1>6, <2>4 DEF End, CancelSubscription, SetVolumeOverride, TypeOK
    <3>2. QED
      BY <1>2, <1>3, <2>2, <2>3, <2>4, <3>1 DEF AppsInv
  <2>5. CASE m # Media
    <3>1. volumeOverride'[m] = volumeOverride[m]
      BY <1>6, <2>5 DEF End, CancelSubscription
    <3>2. QED
      BY <1>2, <1>3, <2>2, <2>5, <3>1 DEF AppsInv
  <2>6. QED
    BY <2>4, <2>5
<1>7. QED
  BY <1>4, <1>5, <1>6

LEMMA AppsStep == TypeOK /\ AppsInv /\ [Next]_vars => AppsInv'
<1> SUFFICES ASSUME TypeOK, AppsInv, [Next]_vars PROVE AppsInv'
  OBVIOUS
<1>1. ASSUME NEW r \in Requests, NEW added \in BOOLEAN, LockKeys(r, added)
      PROVE  AppsInv'
  <2>1. \A m \in Modules : ForegroundApps(m)' = ForegroundApps(m)
    BY <1>1, AppsKept DEF LockKeys
  <2>2. volumeOverride' = volumeOverride
    BY <1>1 DEF LockKeys
  <2>3. QED
    BY <2>1, <2>2 DEF AppsInv
<1>2. ASSUME NEW m \in Modules, SetCurrent(m) PROVE AppsInv'
  BY <1>2 DEF SetCurrent, AppsInv, ForegroundApps, Foreground
<1>3. CASE UNCHANGED vars
  BY <1>3 DEF vars, AppsInv, ForegroundApps, Foreground
<1>4. QED
  BY <1>1, <1>2, <1>3, AppsLockForeground, AppsEnd DEF Next

LEMMA AppsInitially == Init => AppsInv
<1> SUFFICES ASSUME Init, NEW m \in Modules
             PROVE  /\ IsFiniteSet(ForegroundApps(m))
                    /\ volumeOverride[m] = Cardinality(ForegroundApps(m))
                    /\ volumeOverride[m] >= Cardinality(ForegroundApps(m))
  BY DEF AppsInv
<1>1. ForegroundApps(m) = {}
  BY DEF Init, ForegroundApps
<1>2. volumeOverride[m] = 0
  BY DEF Init
<1>3. QED
  BY <1>1, <1>2, FS_EmptySet

\* A foreground application's override lasts as long as its subscription, and
\* media's no longer than the last (setVolumeOverride).
THEOREM OverridesAreCounted == Spec => []OverridesCounted
<1>1. Spec => []AppsInv
  BY AppsInitially, AppsStep, KeysTypes, PTL DEF Spec
<1>2. AppsInv => OverridesCounted
  BY VolumeKeysAssumption DEF AppsInv, OverridesCounted
<1>3. QED
  BY <1>1, <1>2, PTL

-----------------------------------------------------------------------------
(* Repeated moves.                                                         *)

\* Induction, over a set of numbers.
LEMMA NumbersByOne ==
  ASSUME NEW T, 0 \in T, \A n \in T \cap Nat : n + 1 \in T
  PROVE  Nat \subseteq T
<1> SUFFICES ASSUME Nat \ T # {} PROVE FALSE
  OBVIOUS
<1>1. PICK x \in Nat \ T : \A y \in Nat \ T : ~(<<y, x>> \in OpToRel(<, Nat))
  BY NatLessThanWellFounded, WFMin
<1>2. x # 0 /\ x - 1 \in Nat /\ (x - 1) + 1 = x
  OBVIOUS
<1>3. x - 1 \notin T
  BY <1>2
<1>4. <<x - 1, x>> \in OpToRel(<, Nat)
  BY <1>2 DEF OpToRel
<1>5. QED
  BY <1>1, <1>2, <1>3, <1>4

\* The moves of a request exist, one after the other.
LEMMA MovesExist ==
  ASSUME NEW move \in [Volumes -> Volumes], NEW v \in Volumes, NEW n \in Nat
  PROVE  \E f \in [0 .. n -> Volumes] :
           f[0] = v /\ \A k \in 0 .. n : k # 0 => f[k] = move[f[k - 1]]
<1> DEFINE Moves(f, m) ==
             f[0] = v /\ \A k \in 0 .. m : k # 0 => f[k] = move[f[k - 1]]
           T == {m \in Nat : \E f \in [0 .. m -> Volumes] : Moves(f, m)}
<1>1. 0 \in T
  <2>1. [k \in 0 .. 0 |-> v] \in [0 .. 0 -> Volumes] /\ Moves([k \in 0 .. 0 |-> v], 0)
    OBVIOUS
  <2>2. QED
    BY <2>1
<1>2. ASSUME NEW m \in T \cap Nat PROVE m + 1 \in T
  <2>1. PICK f \in [0 .. m -> Volumes] : Moves(f, m)
    OBVIOUS
  <2>2. PICK g : g = [k \in 0 .. (m + 1) |-> IF k = m + 1 THEN move[f[m]] ELSE f[k]]
    OBVIOUS
  <2>3. g \in [0 .. (m + 1) -> Volumes]
    BY <2>2
  <2>4. /\ \A k \in 0 .. m : g[k] = f[k] /\ k \in 0 .. (m + 1)
        /\ g[m + 1] = move[f[m]]
    BY <2>2
  <2>5. Moves(g, m + 1)
    BY <2>1, <2>4
  <2>6. QED
    BY <2>3, <2>5
<1>3. n \in T
  BY <1>1, <1>2, NumbersByOne
<1>4. QED
  BY <1>3

LEMMA MovedIs ==
  ASSUME NEW move \in [Volumes -> Volumes], NEW v \in Volumes
  PROVE  /\ Moved(move, v) \in [0 .. MaxSteps -> Volumes]
         /\ Moved(move, v)[0] = v
         /\ \A k \in 0 .. MaxSteps : k # 0 => Moved(move, v)[k] = move[Moved(move, v)[k - 1]]
<1>0. MaxSteps \in Nat
  BY DEF MaxSteps
<1>1. PICK f \in [0 .. MaxSteps -> Volumes] :
        f[0] = v /\ \A k \in 0 .. MaxSteps : k # 0 => f[k] = move[f[k - 1]]
  BY <1>0, MovesExist
<1>2. f = [k \in 0 .. MaxSteps |-> IF k = 0 THEN v ELSE move[f[k - 1]]]
  BY <1>1
<1>3. Moved(move, v) =
        CHOOSE g : g = [k \in 0 .. MaxSteps |-> IF k = 0 THEN v ELSE move[g[k - 1]]]
  BY DEF Moved
<1>4. PICK g : g = Moved(move, v)
  OBVIOUS
<1>5. g = [k \in 0 .. MaxSteps |-> IF k = 0 THEN v ELSE move[g[k - 1]]]
  BY <1>2, <1>3, <1>4
<1>6. g[0] = v /\ \A k \in 0 .. MaxSteps : k # 0 => g[k] = move[g[k - 1]]
  BY <1>5 DEF MaxSteps
<1>7. \A k \in Nat : k \in 0 .. MaxSteps => g[k] \in Volumes
  <2> DEFINE T == {k \in Nat : k \in 0 .. MaxSteps => g[k] \in Volumes}
  <2>1. 0 \in T
    BY <1>6
  <2>2. ASSUME NEW k \in T \cap Nat PROVE k + 1 \in T
    <3>1. k + 1 \in 0 .. MaxSteps => k \in 0 .. MaxSteps /\ g[k + 1] = move[g[k]]
      BY <1>6 DEF MaxSteps
    <3>2. QED
      BY <3>1
  <2>3. QED
    BY <2>1, <2>2, NumbersByOne
<1>8. g \in [0 .. MaxSteps -> Volumes]
  BY <1>5, <1>7 DEF MaxSteps
<1>9. QED
  BY <1>4, <1>6, <1>8

-----------------------------------------------------------------------------
(* Tics.                                                                   *)

\* Max and Min of the community modules, where the element is known.
LEMMA MaxIs ==
  ASSUME NEW S \in SUBSET Int, NEW m \in S, \A w \in S : w <= m
  PROVE  Max(S) = m
<1>1. m \in S /\ \A w \in S : m >= w
  OBVIOUS
<1>2. \A x \in S : (\A w \in S : x >= w) => x = m
  OBVIOUS
<1>3. QED
  BY <1>1, <1>2 DEF Max

LEMMA MinIs ==
  ASSUME NEW S \in SUBSET Int, NEW m \in S, \A w \in S : m <= w
  PROVE  Min(S) = m
<1>1. \A x \in S : (\A w \in S : x <= w) => x = m
  OBVIOUS
<1>2. QED
  BY <1>1 DEF Min

\* One step up is one tic, and no step down.
LEMMA UpIsOneTic ==
  ASSUME NEW v \in Volumes
  PROVE  /\ SCVolumeUp[v] \in Volumes /\ SCVolumeUp[v] >= v
         /\ Tic(SCVolumeUp[v]) = IF Tic(v) < MaxTic THEN Tic(v) + 1 ELSE MaxTic
<1> USE DEF Volumes, cVolumePercent_Min, cVolumePercent_Max, VOLUME_KEY_STEP
<1>1. PICK snapped \in Volumes :
        snapped = IF v + VOLUME_KEY_STEP > cVolumePercent_Max - VOLUME_KEY_STEP
                  THEN cVolumePercent_Max ELSE v + VOLUME_KEY_STEP
  OBVIOUS
<1>2. PICK S : S = {w \in snapped .. cVolumePercent_Max :
                      Tic(w) # Tic(v) \/ w = cVolumePercent_Max}
  OBVIOUS
<1>3. Min(S) = snapped
  <2>1. snapped \in S
    BY <1>1, <1>2 DEF Tic
  <2>2. S \in SUBSET Int /\ \A w \in S : snapped <= w
    BY <1>2
  <2>3. QED
    BY <2>1, <2>2, MinIs
<1>4. PICK R : R = {w \in cVolumePercent_Min .. snapped :
                      Tic(w) <= Tic(v) + 1 \/ w = cVolumePercent_Min}
  OBVIOUS
<1>5. SCVolumeUp[v] = Max(R)
  BY <1>1, <1>2, <1>3, <1>4 DEF SCVolumeUp
<1>6. PICK up : up = IF v + 11 <= 89 THEN v + 11 ELSE IF v <= 81 THEN 92 ELSE 100
  OBVIOUS
<1>7. Max(R) = up
  <2>1. up \in R
    BY <1>1, <1>4, <1>6 DEF Tic
  <2>2. R \in SUBSET Int /\ \A w \in R : w <= up
    BY <1>1, <1>4, <1>6 DEF Tic
  <2>3. QED
    BY <2>1, <2>2, MaxIs
<1>8. up \in Volumes /\ up >= v
  BY <1>6
<1>9. Tic(up) = IF Tic(v) < MaxTic THEN Tic(v) + 1 ELSE MaxTic
  BY <1>6 DEF Tic, MaxTic
<1>10. QED
  BY <1>5, <1>7, <1>8, <1>9

\* One step down is one tic, and no step up.
LEMMA DownIsOneTic ==
  ASSUME NEW v \in Volumes
  PROVE  /\ SCVolumeDown[v] \in Volumes /\ SCVolumeDown[v] <= v
         /\ Tic(SCVolumeDown[v]) = IF Tic(v) > 0 THEN Tic(v) - 1 ELSE 0
<1> USE DEF Volumes, cVolumePercent_Min, cVolumePercent_Max, VOLUME_KEY_STEP
<1>1. PICK snapped \in Volumes :
        snapped = IF v - VOLUME_KEY_STEP < cVolumePercent_Min + VOLUME_KEY_STEP
                  THEN cVolumePercent_Min ELSE v - VOLUME_KEY_STEP
  OBVIOUS
<1>2. PICK S : S = {w \in cVolumePercent_Min .. snapped :
                      Tic(w) # Tic(v) \/ w = cVolumePercent_Min}
  OBVIOUS
<1>3. Max(S) = snapped
  <2>1. snapped \in S
    BY <1>1, <1>2 DEF Tic
  <2>2. S \in SUBSET Int /\ \A w \in S : w <= snapped
    BY <1>2
  <2>3. QED
    BY <2>1, <2>2, MaxIs
<1>4. PICK R : R = {w \in snapped .. cVolumePercent_Max :
                      Tic(w) >= Tic(v) - 1 \/ w = cVolumePercent_Max}
  OBVIOUS
<1>5. SCVolumeDown[v] = Min(R)
  BY <1>1, <1>2, <1>3, <1>4 DEF SCVolumeDown
<1>6. PICK down : down = IF v >= 22 THEN v - 11 ELSE IF v >= 16 THEN 5 ELSE 0
  OBVIOUS
<1>7. Min(R) = down
  <2>1. down \in R
    BY <1>1, <1>4, <1>6 DEF Tic
  <2>2. R \in SUBSET Int /\ \A w \in R : down <= w
    BY <1>1, <1>4, <1>6 DEF Tic
  <2>3. QED
    BY <2>1, <2>2, MinIs
<1>8. down \in Volumes /\ down <= v
  BY <1>6
<1>9. Tic(down) = IF Tic(v) > 0 THEN Tic(v) - 1 ELSE 0
  BY <1>6 DEF Tic
<1>10. QED
  BY <1>5, <1>7, <1>8, <1>9

\* k moves up are k tics, up to the end of the scale.
LEMMA UpMovesTics ==
  ASSUME NEW v \in Volumes, NEW k \in 0 .. MaxSteps
  PROVE  LET w == Moved(SCVolumeUp, v)[k]
         IN  /\ w \in Volumes /\ w >= v
             /\ Tic(w) = IF Tic(v) + k < MaxTic THEN Tic(v) + k ELSE MaxTic
<1> DEFINE w(n) == Moved(SCVolumeUp, v)[n]
           Right(n) == /\ w(n) \in Volumes /\ w(n) >= v
                       /\ Tic(w(n)) = IF Tic(v) + n < MaxTic THEN Tic(v) + n ELSE MaxTic
           T == {n \in Nat : n \in 0 .. MaxSteps => Right(n)}
<1>1. SCVolumeUp \in [Volumes -> Volumes]
  BY UpIsOneTic DEF SCVolumeUp
<1>2. /\ w(0) = v
      /\ \A n \in 0 .. MaxSteps : n # 0 => w(n) = SCVolumeUp[w(n - 1)]
  BY <1>1, MovedIs
<1>3. Tic(v) \in Int /\ Tic(v) <= MaxTic /\ MaxTic \in Int
  BY DEF Tic, MaxTic, Volumes, cVolumePercent_Min, cVolumePercent_Max, VOLUME_KEY_STEP
<1>4. 0 \in T
  BY <1>2, <1>3 DEF Volumes, cVolumePercent_Min, cVolumePercent_Max
<1>5. ASSUME NEW n \in T \cap Nat PROVE n + 1 \in T
  <2>1. SUFFICES ASSUME n + 1 \in 0 .. MaxSteps PROVE Right(n + 1)
    OBVIOUS
  <2>2. n \in 0 .. MaxSteps /\ n + 1 # 0 /\ (n + 1) - 1 = n
    BY <2>1 DEF MaxSteps
  <2>3. Right(n)
    BY <2>2
  <2>4. w(n + 1) = SCVolumeUp[w(n)]
    BY <1>2, <2>1, <2>2
  <2>5. PICK x \in Volumes : x = w(n)
    BY <2>3
  <2>6. PICK y : y = w(n + 1)
    OBVIOUS
  <2>7. /\ y \in Volumes /\ y >= x
        /\ Tic(y) = IF Tic(x) < MaxTic THEN Tic(x) + 1 ELSE MaxTic
    BY <2>4, <2>5, <2>6, UpIsOneTic
  <2>8. y >= v
    BY <2>3, <2>5, <2>7 DEF Volumes, cVolumePercent_Min, cVolumePercent_Max
  <2>9. Tic(y) = IF Tic(v) + (n + 1) < MaxTic THEN Tic(v) + (n + 1) ELSE MaxTic
    BY <1>3, <2>3, <2>5, <2>7
  <2>10. QED
    BY <2>6, <2>7, <2>8, <2>9
<1>6. k \in T
  BY <1>4, <1>5, NumbersByOne DEF MaxSteps
<1>7. QED
  BY <1>6

\* k moves down are k tics, down to the end of the scale.
LEMMA DownMovesTics ==
  ASSUME NEW v \in Volumes, NEW k \in 0 .. MaxSteps
  PROVE  LET w == Moved(SCVolumeDown, v)[k]
         IN  /\ w \in Volumes /\ w <= v
             /\ Tic(w) = IF Tic(v) - k > 0 THEN Tic(v) - k ELSE 0
<1> DEFINE w(n) == Moved(SCVolumeDown, v)[n]
           Right(n) == /\ w(n) \in Volumes /\ w(n) <= v
                       /\ Tic(w(n)) = IF Tic(v) - n > 0 THEN Tic(v) - n ELSE 0
           T == {n \in Nat : n \in 0 .. MaxSteps => Right(n)}
<1>1. SCVolumeDown \in [Volumes -> Volumes]
  BY DownIsOneTic DEF SCVolumeDown
<1>2. /\ w(0) = v
      /\ \A n \in 0 .. MaxSteps : n # 0 => w(n) = SCVolumeDown[w(n - 1)]
  BY <1>1, MovedIs
<1>3. Tic(v) \in Int /\ Tic(v) >= 0
  BY DEF Tic, Volumes, cVolumePercent_Min, cVolumePercent_Max, VOLUME_KEY_STEP
<1>4. 0 \in T
  BY <1>2, <1>3 DEF Volumes, cVolumePercent_Min, cVolumePercent_Max
<1>5. ASSUME NEW n \in T \cap Nat PROVE n + 1 \in T
  <2>1. SUFFICES ASSUME n + 1 \in 0 .. MaxSteps PROVE Right(n + 1)
    OBVIOUS
  <2>2. n \in 0 .. MaxSteps /\ n + 1 # 0 /\ (n + 1) - 1 = n
    BY <2>1 DEF MaxSteps
  <2>3. Right(n)
    BY <2>2
  <2>4. w(n + 1) = SCVolumeDown[w(n)]
    BY <1>2, <2>1, <2>2
  <2>5. PICK x \in Volumes : x = w(n)
    BY <2>3
  <2>6. PICK y : y = w(n + 1)
    OBVIOUS
  <2>7. /\ y \in Volumes /\ y <= x
        /\ Tic(y) = IF Tic(x) > 0 THEN Tic(x) - 1 ELSE 0
    BY <2>4, <2>5, <2>6, DownIsOneTic
  <2>8. y <= v
    BY <2>3, <2>5, <2>7 DEF Volumes, cVolumePercent_Min, cVolumePercent_Max
  <2>9. Tic(y) = IF Tic(v) - (n + 1) > 0 THEN Tic(v) - (n + 1) ELSE 0
    BY <1>3, <2>3, <2>5, <2>7
  <2>10. QED
    BY <2>6, <2>7, <2>8, <2>9
<1>6. k \in T
  BY <1>4, <1>5, NumbersByOne DEF MaxSteps
<1>7. QED
  BY <1>6

\* The nearer end of the scale of tics, as the property writes it.
LEMMA TicsClamped ==
  ASSUME NEW t \in Int
  PROVE  Min({MaxTic, Max({0, t})}) =
           IF t < 0 THEN 0 ELSE IF t > MaxTic THEN MaxTic ELSE t
<1>1. MaxTic \in Nat
  BY DEF MaxTic, Tic, cVolumePercent_Max, VOLUME_KEY_STEP
<1>2. PICK m \in {0, t} : m = IF t < 0 THEN 0 ELSE t
  OBVIOUS
<1>3. Max({0, t}) = m
  BY <1>2, MaxIs
<1>4. PICK n \in {MaxTic, m} : n = IF m > MaxTic THEN MaxTic ELSE m
  OBVIOUS
<1>5. Min({MaxTic, m}) = n
  BY <1>1, <1>2, <1>4, MinIs
<1>6. QED
  BY <1>1, <1>2, <1>3, <1>4, <1>5

\* A request of n steps: n tics, and a volume.
LEMMA SteppedIs ==
  ASSUME NEW v \in Volumes, NEW n \in Steps
  PROVE  /\ Stepped[n][v] \in Volumes
         /\ Tic(Stepped[n][v]) = Min({MaxTic, Max({0, Tic(v) + n})})
         /\ n > 0 => Stepped[n][v] >= v
         /\ n < 0 => Stepped[n][v] <= v
<1>1. n \in -MaxSteps .. MaxSteps
  BY VolumeStoreAssumption
<1>2. Tic(v) \in 0 .. MaxTic /\ MaxTic \in Nat
  BY DEF Tic, MaxTic, Volumes, cVolumePercent_Min, cVolumePercent_Max, VOLUME_KEY_STEP
<1>3. Min({MaxTic, Max({0, Tic(v) + n})}) =
        IF Tic(v) + n < 0 THEN 0 ELSE IF Tic(v) + n > MaxTic THEN MaxTic ELSE Tic(v) + n
  BY <1>1, <1>2, TicsClamped DEF MaxSteps
<1>4. CASE n >= 0
  <2>1. n \in 0 .. MaxSteps
    BY <1>1, <1>4 DEF MaxSteps
  <2>2. PICK w : w = Moved(SCVolumeUp, v)[n] /\ w = Stepped[n][v]
    BY <1>4 DEF Stepped
  <2>3. /\ w \in Volumes /\ w >= v
        /\ Tic(w) = IF Tic(v) + n < MaxTic THEN Tic(v) + n ELSE MaxTic
    BY <2>1, <2>2, UpMovesTics
  <2>4. QED
    BY <1>2, <1>3, <1>4, <2>1, <2>2, <2>3
<1>5. CASE n < 0
  <2>1. -n \in 0 .. MaxSteps /\ n \in Int
    BY <1>1, <1>5 DEF MaxSteps
  <2>2. PICK w : w = Moved(SCVolumeDown, v)[-n] /\ w = Stepped[n][v]
    BY <1>1, <1>5 DEF Stepped, MaxSteps
  <2>3. /\ w \in Volumes /\ w <= v
        /\ Tic(w) = IF Tic(v) - (-n) > 0 THEN Tic(v) - (-n) ELSE 0
    BY <2>1, <2>2, DownMovesTics
  <2>4. QED
    BY <1>2, <1>3, <1>5, <2>1, <2>2, <2>3
<1>6. QED
  BY <1>1, <1>4, <1>5 DEF MaxSteps

LEMMA ClampedType ==
  ASSUME NEW v \in Int
  PROVE  Clamped(v) \in Volumes
<1> USE DEF Volumes, cVolumePercent_Min, cVolumePercent_Max
<1>1. PICK m \in {0, v} : m = IF v < 0 THEN 0 ELSE v
  OBVIOUS
<1>2. Max({0, v}) = m
  BY <1>1, MaxIs
<1>3. PICK n \in {100, m} : n = IF m > 100 THEN 100 ELSE m
  OBVIOUS
<1>4. Min({100, m}) = n
  BY <1>1, <1>3, MinIs
<1>5. QED
  BY <1>1, <1>2, <1>3, <1>4 DEF Clamped

-----------------------------------------------------------------------------
(* The store.                                                              *)

\* The identifier of the timer is trusted: if it is set and no timer will
\* expire, the library has failed.
TimerIsTrusted ==
  /\ timer \in {"none", "armed", "gone"}
  /\ failed \in BOOLEAN
  /\ timer = "gone" => failed

StoreSafe == TimerIsTrusted /\ StoredOrPending

USE DEF fileVars

LEMMA StoreSafeInit == StoreInit => StoreSafe
BY DEF StoreInit, StoreSafe, TimerIsTrusted, StoredOrPending, Restored

\* A request that changes the volume arms the timer if none is pending.
LEMMA ChangeSafe ==
  ASSUME StoreSafe, NEW v, NEW named, SetScenarioVolume(v, named)
  PROVE  StoreSafe'
<1>1. TimerIsTrusted'
  BY DEF StoreSafe, TimerIsTrusted, SetScenarioVolume, ScheduleStorePreferences
<1>2. ~failed' => timer' = "armed"
  BY DEF StoreSafe, TimerIsTrusted, SetScenarioVolume, ScheduleStorePreferences
<1> QED
  BY <1>1, <1>2 DEF StoreSafe, StoredOrPending

\* The timer stores the volume, or leaves the trace of a failure.
LEMMA StoringSafe ==
  ASSUME StoreSafe, StoreTimer
  PROVE  StoreSafe'
<1>1. CASE StoreWithoutHandle
  BY <1>1 DEF StoreWithoutHandle, StoreSafe, TimerIsTrusted, StoredOrPending
<1>2. CASE StoreWithoutScenario
  BY <1>2 DEF StoreWithoutScenario, Die, StoreSafe, TimerIsTrusted, StoredOrPending
<1>3. CASE WriteFails
  BY <1>3 DEF WriteFails, StoreSafe, TimerIsTrusted, StoredOrPending
<1>4. CASE Write
  <2>1. Restored' = volume'
    BY <1>4 DEF Write, Restored
  <2>2. TimerIsTrusted'
    BY <1>4 DEF Write, TimerIsTrusted
  <2> QED
    BY <2>1, <2>2 DEF StoreSafe, StoredOrPending
<1> QED
  BY <1>1, <1>2, <1>3, <1>4 DEF StoreTimer

\* A restart reads what was stored, or leaves the trace of a failure.
LEMMA RespawnSafe ==
  ASSUME StoreSafe, Respawn
  PROVE  StoreSafe'
<1>1. PICK handle \in BOOLEAN : Construct(handle, Restored)
  BY DEF Respawn
<1>2. Restored' = Restored
  BY DEF Respawn, Restored
<1>3. ~failed' => volume' = Restored'
  BY <1>1, <1>2 DEF Construct
<1>4. TimerIsTrusted'
  BY <1>1 DEF Construct, TimerIsTrusted
<1> QED
  BY <1>3, <1>4 DEF StoreSafe, StoredOrPending

LEMMA StoreSafeNext == StoreSafe /\ [StoreNext]_storeVars => StoreSafe'
<1> SUFFICES ASSUME StoreSafe, [StoreNext]_storeVars
             PROVE  StoreSafe'
  OBVIOUS
<1>1. CASE Request
  <2>1. PICK v, named : SetScenarioVolume(v, named)
    BY <1>1 DEF Request, SetVolume, OffsetVolumeBySteps, OffsetVolumeByPercent
  <2> QED
    BY <2>1, ChangeSafe
<1>2. CASE DisableScenario
  BY <1>2 DEF DisableScenario, StoreSafe, TimerIsTrusted, StoredOrPending, Restored
<1>3. CASE EnableScenario
  BY <1>3 DEF EnableScenario, StoreSafe, TimerIsTrusted, StoredOrPending, Restored
<1>4. CASE StoreTimer
  BY <1>4, StoringSafe
<1>5. CASE Crash
  BY <1>5 DEF Crash, Die, StoreSafe, TimerIsTrusted, StoredOrPending
<1>6. CASE Respawn
  BY <1>6, RespawnSafe
<1>7. CASE UNCHANGED storeVars
  BY <1>7 DEF storeVars, StoreSafe, TimerIsTrusted, StoredOrPending, Restored
<1> QED
  BY <1>1, <1>2, <1>3, <1>4, <1>5, <1>6, <1>7 DEF StoreNext

\* A volume that a restart would not bring back has a store pending, unless
\* the preferences library has failed (scheduleStorePreferences and
\* storePreferences, prefs.cpp).
THEOREM ChangesArePending == StoreSpec => []StoredOrPending
<1>1. StoreSafe => StoredOrPending
  BY DEF StoreSafe
<1> QED
  BY StoreSafeInit, StoreSafeNext, <1>1, PTL DEF StoreSpec

-----------------------------------------------------------------------------
(* The types of the store.                                                 *)

\* The numbers of the type invariant.
VolumesInRange == volume \in Volumes /\ disk \in Volumes

\* The flags of the type invariant.
FlagsAreBoolean == {running, current, stored, failed} \subseteq BOOLEAN

LEMMA RestoredType == VolumesInRange => Restored \in Volumes
BY VolumeStoreAssumption DEF VolumesInRange, Restored

LEMMA VolumesInRangeInit == StoreInit => VolumesInRange
<1> SUFFICES ASSUME StoreInit PROVE VolumesInRange
  OBVIOUS
<1>1. disk \in Volumes
  BY VolumeStoreAssumption DEF StoreInit
<1>2. Restored \in Volumes
  BY <1>1, VolumeStoreAssumption DEF Restored
<1>3. QED
  BY <1>1, <1>2 DEF StoreInit, VolumesInRange

LEMMA VolumesInRangeNext ==
  VolumesInRange /\ [StoreNext]_storeVars => VolumesInRange'
<1> SUFFICES ASSUME VolumesInRange, [StoreNext]_storeVars PROVE VolumesInRange'
  OBVIOUS
<1>d. Default \in Volumes
  BY VolumeStoreAssumption
<1>1. ASSUME NEW v \in Volumes, NEW named, SetScenarioVolume(v, named)
      PROVE  VolumesInRange'
  BY <1>1 DEF SetScenarioVolume, fileVars, VolumesInRange
<1>2. CASE Request
  <2>1. ASSUME NEW named \in BOOLEAN, NEW v \in Requested, SetVolume(v, named)
        PROVE  VolumesInRange'
    BY <1>1, <2>1, VolumeStoreAssumption DEF SetVolume
  <2>2. ASSUME NEW named \in BOOLEAN, NEW n \in Steps, OffsetVolumeBySteps(n, named)
        PROVE  VolumesInRange'
    <3>1. PICK v : v = Stepped[n][volume]
      OBVIOUS
    <3>2. v \in Volumes
      BY <3>1, SteppedIs DEF VolumesInRange
    <3>3. SetScenarioVolume(v, named)
      BY <2>2, <3>1 DEF OffsetVolumeBySteps
    <3>4. QED
      BY <1>1, <3>2, <3>3
  <2>3. ASSUME NEW named \in BOOLEAN, NEW n \in Percents, OffsetVolumeByPercent(n, named)
        PROVE  VolumesInRange'
    <3>1. PICK v : v = Clamped(volume + n)
      OBVIOUS
    <3>2. volume + n \in Int
      BY VolumeStoreAssumption
      DEF VolumesInRange, Volumes, cVolumePercent_Min, cVolumePercent_Max
    <3>3. v \in Volumes
      BY <3>1, <3>2, ClampedType
    <3>4. SetScenarioVolume(v, named)
      BY <2>3, <3>1 DEF OffsetVolumeByPercent
    <3>5. QED
      BY <1>1, <3>3, <3>4
  <2>4. QED
    BY <1>2, <2>1, <2>2, <2>3 DEF Request
<1>3. CASE DisableScenario \/ EnableScenario
  BY <1>3 DEF DisableScenario, EnableScenario, fileVars, VolumesInRange
<1>4. CASE StoreTimer
  BY <1>4, <1>d DEF StoreTimer, StoreWithoutHandle, StoreWithoutScenario, WriteFails,
                    Write, Die, fileVars, VolumesInRange
<1>5. CASE Crash
  BY <1>5, <1>d DEF Crash, Die, fileVars, VolumesInRange
<1>6. CASE Respawn
  BY <1>6, <1>d, RestoredType DEF Respawn, Construct, fileVars, VolumesInRange
<1>7. CASE UNCHANGED storeVars
  BY <1>7 DEF storeVars, VolumesInRange
<1>8. QED
  BY <1>2, <1>3, <1>4, <1>5, <1>6, <1>7 DEF StoreNext

LEMMA FlagsNext ==
  FlagsAreBoolean /\ [StoreNext]_storeVars => FlagsAreBoolean'
<1> SUFFICES ASSUME FlagsAreBoolean, [StoreNext]_storeVars PROVE FlagsAreBoolean'
  OBVIOUS
<1> USE DEF FlagsAreBoolean
<1>1. CASE Request
  BY <1>1 DEF Request, SetVolume, OffsetVolumeBySteps, OffsetVolumeByPercent,
              SetScenarioVolume, fileVars
<1>2. CASE DisableScenario
  BY <1>2 DEF DisableScenario, fileVars
<1>3. CASE EnableScenario
  BY <1>3 DEF EnableScenario, fileVars
<1>4. CASE StoreTimer
  BY <1>4 DEF StoreTimer, StoreWithoutHandle, StoreWithoutScenario, WriteFails,
              Write, Die, fileVars
<1>5. CASE Crash
  BY <1>5 DEF Crash, Die, fileVars
<1>6. CASE Respawn
  <2>1. PICK handle \in BOOLEAN : Construct(handle, Restored)
    BY <1>6 DEF Respawn
  <2>2. CASE handle = TRUE
    BY <1>6, <2>1, <2>2 DEF Respawn, Construct, fileVars
  <2>3. CASE handle = FALSE
    BY <1>6, <2>1, <2>3 DEF Respawn, Construct, fileVars
  <2>4. QED
    BY <2>2, <2>3
<1>7. CASE UNCHANGED storeVars
  BY <1>7 DEF storeVars
<1>8. QED
  BY <1>1, <1>2, <1>3, <1>4, <1>5, <1>6, <1>7 DEF StoreNext

\* The volumes of the program and of the file stay on the scale of percents,
\* whatever steps and offsets are asked for.
THEOREM StoreTypes == StoreSpec => []StoreTypeOK
<1>1. StoreInit => FlagsAreBoolean
  BY DEF StoreInit, FlagsAreBoolean
<1>2. VolumesInRange /\ FlagsAreBoolean /\ StoreSafe => StoreTypeOK
  BY DEF VolumesInRange, FlagsAreBoolean, StoreSafe, TimerIsTrusted, StoreTypeOK
<1>3. QED
  BY VolumesInRangeInit, VolumesInRangeNext, <1>1, FlagsNext, StoreSafeInit,
     StoreSafeNext, <1>2, PTL DEF StoreSpec

-----------------------------------------------------------------------------
(* The steps of a request.                                                 *)

LEMMA StepMovesTics ==
  ASSUME VolumesInRange, NEW n \in Steps, NEW named \in BOOLEAN,
         OffsetVolumeBySteps(n, named)
  PROVE  /\ Tic(volume') = Min({MaxTic, Max({0, Tic(volume) + n})})
         /\ n > 0 => volume' > volume
         /\ n < 0 => volume' < volume
<1>1. PICK v \in Volumes : v = volume
  BY DEF VolumesInRange
<1>2. PICK w : w = Stepped[n][v]
  OBVIOUS
<1>3. volume' = w /\ w # v
  BY <1>1, <1>2 DEF OffsetVolumeBySteps, SetScenarioVolume
<1>4. /\ w \in Volumes /\ Tic(w) = Min({MaxTic, Max({0, Tic(v) + n})})
      /\ n > 0 => w >= v
      /\ n < 0 => w <= v
  BY <1>2, SteppedIs
<1>5. n \in Int
  BY VolumeStoreAssumption
<1>6. (n > 0 => w > v) /\ (n < 0 => w < v)
  BY <1>1, <1>3, <1>4 DEF Volumes, cVolumePercent_Min, cVolumePercent_Max
<1>7. QED
  BY <1>1, <1>3, <1>4, <1>6

\* A request of n steps moves the volume by n tics, no less and no more, up
\* to the ends of the scale, from every percentage (SCVolumeUp, SCVolumeDown
\* and the loop of _offsetVolumeOrMicGain).
THEOREM StepsAlwaysMoveTics == StoreSpec => StepsMoveTics
<1>1. VolumesInRange =>
        \A n \in Steps, named \in BOOLEAN :
          OffsetVolumeBySteps(n, named) =>
            /\ Tic(volume') = Min({MaxTic, Max({0, Tic(volume) + n})})
            /\ n > 0 => volume' > volume
            /\ n < 0 => volume' < volume
  BY StepMovesTics
<1>2. QED
  BY <1>1, VolumesInRangeInit, VolumesInRangeNext, PTL DEF StoreSpec, StepsMoveTics
=============================================================================
