------------------------- MODULE AlarmPolicy_proofs -------------------------
(***************************************************************************)
(* Theorems of AlarmPolicy, for any bound of the timers pending and any    *)
(* alarms whose override may change.                                       *)
(*                                                                         *)
(* The types need the bound: the counts of lost timers stay within it      *)
(* because an expired timer arms at most one other, so that only a stream  *)
(* that closes adds to those pending.  AlarmFollowsPolicy and              *)
(* VibrationIsStopped are inductive once the types hold: the volume that   *)
(* an alarm should have depends on no other alarm, and every way out of    *)
(* the timer's handler either stops the vibration, or waits again, or      *)
(* finds an alarm that still plays.  That media alone is in full, or has   *)
(* a timer that turns it up, is what is proved of MediaComesBack.          *)
(***************************************************************************)
EXTENDS AlarmPolicy, FiniteSetTheorems, TLAPS

Member(k, S) == IF k \in S THEN 1 ELSE 0

Waits(id) == IF id = "pending" THEN 1 ELSE 0

\* Timers: those of the alarms in S, and the lost ones.
Pending(S, lost) ==
  Member(ealarm, S) + Member(etimer, S) + lost[ealarm] + lost[etimer]

Ids == {"none", "pending", "expired"}

PendingIds(ids) == {k \in Alarms : ids[k] = "pending"}

\* What every step keeps.
PolicyTypes ==
  /\ TypeOK
  /\ Pending(held, heldLost) <= MaxPending
  /\ Pending(PendingIds(vibId), vibLost) <= MaxPending

PolicyInv == PolicyTypes /\ AlarmFollowsPolicy /\ VibrationIsStopped

-----------------------------------------------------------------------------
(* Sinks and counts.                                                       *)

\* Three names are at most three sinks.
LEMMA AtMostThree ==
  ASSUME NEW a, NEW b, NEW c
  PROVE  Cardinality({a, b, c}) <= 3
<1>1. IsFiniteSet({a}) /\ Cardinality({a}) = 1
  BY FS_Singleton
<1>2. IsFiniteSet({a} \cup {b}) /\ Cardinality({a} \cup {b}) \in {1, 2}
  BY <1>1, FS_AddElement
<1>3. Cardinality(({a} \cup {b}) \cup {c}) \in {1, 2, 3}
  BY <1>2, FS_AddElement
<1>4. {a, b, c} = ({a} \cup {b}) \cup {c}
  OBVIOUS
<1>5. QED
  BY <1>3, <1>4

\* No two of the four sinks are the same.
LEMMA SinksDiffer ==
  /\ emedia # ealarm /\ emedia # etimer /\ emedia # ealerts
  /\ ealarm # etimer /\ ealarm # ealerts /\ etimer # ealerts
<1> DEFINE all == {emedia, ealarm, etimer, ealerts}
<1>1. Cardinality(all) = 4
  BY AlarmPolicyAssumption
<1>2. ASSUME NEW a, NEW b, NEW c, all = {a, b, c} PROVE FALSE
  <2> HIDE DEF all
  <2>1. Cardinality({a, b, c}) <= 3
    BY AtMostThree
  <2>2. QED
    BY <1>1, <1>2, <2>1
<1>3. emedia # ealarm /\ emedia # etimer /\ emedia # ealerts
  <2>1. emedia = ealarm => all = {ealarm, etimer, ealerts}
    OBVIOUS
  <2>2. emedia = etimer => all = {ealarm, etimer, ealerts}
    OBVIOUS
  <2>3. emedia = ealerts => all = {ealarm, etimer, ealerts}
    OBVIOUS
  <2>4. QED
    BY <1>2, <2>1, <2>2, <2>3
<1>4. ealarm # etimer /\ ealarm # ealerts /\ etimer # ealerts
  <2>1. ealarm = etimer => all = {emedia, etimer, ealerts}
    OBVIOUS
  <2>2. ealarm = ealerts => all = {emedia, etimer, ealerts}
    OBVIOUS
  <2>3. etimer = ealerts => all = {emedia, ealarm, ealerts}
    OBVIOUS
  <2>4. QED
    BY <1>2, <2>1, <2>2, <2>3
<1>5. QED
  BY <1>3, <1>4

\* Counting the alarms of a set one by one.
LEMMA CountAlarms ==
  ASSUME NEW S \in SUBSET Alarms
  PROVE  Cardinality(S) = Member(ealarm, S) + Member(etimer, S)
<1>1. \/ S = {} \/ S = {ealarm} \/ S = {etimer} \/ S = {ealarm, etimer}
  BY DEF Alarms
<1>2. Cardinality({}) = 0 /\ Cardinality({ealarm}) = 1 /\ Cardinality({etimer}) = 1
  BY FS_EmptySet, FS_Singleton
<1>3. Cardinality({ealarm, etimer}) = 2
  <2>1. PICK T : T = {ealarm}
    OBVIOUS
  <2>2. IsFiniteSet(T) /\ etimer \notin T /\ Cardinality(T) = 1
    BY <1>2, <2>1, FS_Singleton, SinksDiffer
  <2>3. Cardinality(T \cup {etimer}) = 1 + 1
    BY <2>2, FS_AddElement
  <2>4. {ealarm, etimer} = T \cup {etimer}
    BY <2>1
  <2>5. QED
    BY <2>3, <2>4
<1>4. QED
  BY <1>1, <1>2, <1>3, SinksDiffer DEF Member

\* The model's bounds count the timers so.
LEMMA CountsPending ==
  ASSUME TypeOK
  PROVE  /\ MediaPending = Pending(held, heldLost)
         /\ VibratePending = Pending(PendingIds(vibId), vibLost)
<1>1. held \in SUBSET Alarms /\ PendingIds(vibId) \in SUBSET Alarms
  BY DEF TypeOK, PendingIds
<1>2. /\ Cardinality(held) = Member(ealarm, held) + Member(etimer, held)
      /\ Cardinality(PendingIds(vibId))
           = Member(ealarm, PendingIds(vibId)) + Member(etimer, PendingIds(vibId))
  BY <1>1, CountAlarms
<1>3. VibratePending = Cardinality(PendingIds(vibId)) + vibLost[ealarm] + vibLost[etimer]
  BY DEF VibratePending, PendingIds
<1>4. QED
  BY <1>2, <1>3 DEF MediaPending, Pending

-----------------------------------------------------------------------------
(* Types of volumes.                                                       *)

Volumes == {Silent, Ducked, Full}

\* What a stream is wanted at is a volume, whatever the switches say.
LEMMA WantedType ==
  ASSUME NEW k, NEW pl, NEW ring, NEW over, NEW quiet, NEW mute
  PROVE  Wanted(k, pl, ring, over, quiet, mute) \in Volumes
BY DEF Wanted, AlarmVolume, TimerVolume, Volumes

\* So is what media is wanted at.
LEMMA MediaVolumeType ==
  ASSUME NEW pl, NEW v
  PROVE  MediaVolume(pl, v) \in Volumes
BY DEF MediaVolume, Volumes

\* Whether an alert is heard over media is a truth value.
LEMMA SomeAlertType ==
  ASSUME NEW pl, NEW v
  PROVE  SomeAlertIsPlaying(pl, v) \in BOOLEAN
BY DEF SomeAlertIsPlaying

-----------------------------------------------------------------------------
(* What the handlers do to their timers and to the volumes.                *)

\* StartVibrating arms nothing.
LEMMA StartCounts ==
  ASSUME TypeOK, NEW k \in Alarms, NEW possible \in BOOLEAN,
         StartVibrating(k, possible)
  PROVE  /\ vibId' \in [Alarms -> Ids]
         /\ vibLost' = vibLost
         /\ vibrating' \in BOOLEAN
         /\ PendingIds(vibId') \subseteq PendingIds(vibId)
<1>1. CASE UNCHANGED vibVars
  BY <1>1 DEF vibVars, TypeOK, Ids
<1>2. CASE /\ vibId' = IF vibId[k] = "pending" THEN [vibId EXCEPT ![k] = "none"]
                       ELSE vibId
           /\ vibrating' = (vibrating \/ vibId[k] = "none")
           /\ UNCHANGED vibLost
  BY <1>2 DEF TypeOK, Ids, PendingIds
<1>3. QED
  BY <1>1, <1>2 DEF StartVibrating

\* The wait of a module, first or second call: only the first arms a timer.
LEMMA StopCounts ==
  ASSUME TypeOK, NEW k \in Alarms, NEW id \in Ids, NEW lost \in Nat, NEW pl,
         StopVibrating(k, id, lost, pl)
  PROVE  /\ \E x \in Ids, y \in Nat :
              /\ vibId' = [vibId EXCEPT ![k] = x]
              /\ vibLost' = [vibLost EXCEPT ![k] = y]
              /\ Waits(x) + y <= Waits(id) + lost + (IF id = "none" THEN 1 ELSE 0)
         /\ vibrating' \in BOOLEAN
         /\ muted' \in SUBSET Alarms
<1>1. CASE id = "none"
  <2>1. /\ vibId' = [vibId EXCEPT ![k] = "pending"]
        /\ vibLost' = [vibLost EXCEPT ![k] = lost]
        /\ UNCHANGED <<vibrating, muted>>
    BY <1>1 DEF StopVibrating
  <2>2. Waits("pending") + lost
          <= Waits(id) + lost + (IF id = "none" THEN 1 ELSE 0)
    BY <1>1 DEF Waits
  <2>3. QED
    BY <2>1, <2>2 DEF TypeOK, Ids
<1>2. CASE id # "none" /\ ReallyClosed(pl)
  <2>1. /\ vibrating' = FALSE
        /\ muted' = muted \ {k}
        /\ vibId' = [vibId EXCEPT ![k] = "none"]
        /\ vibLost' = [vibLost EXCEPT ![k] = lost + IF id = "pending" THEN 1 ELSE 0]
    BY <1>2 DEF StopVibrating
  <2>2. lost + (IF id = "pending" THEN 1 ELSE 0) \in Nat
    OBVIOUS
  <2>3. Waits("none") + (lost + IF id = "pending" THEN 1 ELSE 0)
          <= Waits(id) + lost + (IF id = "none" THEN 1 ELSE 0)
    BY <1>2 DEF Waits
  <2>4. QED
    BY <2>1, <2>2, <2>3 DEF TypeOK, Ids
<1>3. CASE id # "none" /\ ~ReallyClosed(pl)
  <2>1. /\ vibId' = [vibId EXCEPT ![k] = id]
        /\ vibLost' = [vibLost EXCEPT ![k] = lost]
        /\ UNCHANGED <<vibrating, muted>>
    BY <1>3 DEF StopVibrating
  <2>2. Waits(id) + lost <= Waits(id) + lost + (IF id = "none" THEN 1 ELSE 0)
    BY DEF Waits
  <2>3. QED
    BY <2>1, <2>2 DEF TypeOK
<1>4. QED
  BY <1>1, <1>2, <1>3

\* A timer pending counts as one.
LEMMA PendingOfIds ==
  ASSUME NEW ids, NEW lost
  PROVE  Pending(PendingIds(ids), lost)
           = Waits(ids[ealarm]) + Waits(ids[etimer])
               + lost[ealarm] + lost[etimer]
<1>1. \A j \in Alarms : j \in PendingIds(ids) <=> ids[j] = "pending"
  BY DEF PendingIds
<1>2. ealarm \in Alarms /\ etimer \in Alarms
  BY DEF Alarms
<1>3. Member(ealarm, PendingIds(ids)) = Waits(ids[ealarm])
  BY <1>1, <1>2 DEF Member, Waits
<1>4. Member(etimer, PendingIds(ids)) = Waits(ids[etimer])
  BY <1>1, <1>2 DEF Member, Waits
<1>5. QED
  BY <1>3, <1>4 DEF Pending

\* So the bound holds of what the handler leaves if it held before, less the timer
\* that has expired.
LEMMA StopKeepsBound ==
  ASSUME TypeOK, NEW k \in Alarms, NEW x \in Ids, NEW y \in Nat,
         vibId' = [vibId EXCEPT ![k] = x], vibLost' = [vibLost EXCEPT ![k] = y]
  PROVE  /\ vibId' \in [Alarms -> Ids]
         /\ vibLost' \in [Alarms -> Nat]
         /\ Pending(PendingIds(vibId'), vibLost')
              = Pending(PendingIds(vibId), vibLost)
                  - (Waits(vibId[k]) + vibLost[k]) + (Waits(x) + y)
<1>1. vibId' \in [Alarms -> Ids] /\ vibLost' \in [Alarms -> Nat]
  BY DEF TypeOK, Ids
<1>2. \A j \in Alarms : /\ vibId'[j] = IF j = k THEN x ELSE vibId[j]
                        /\ vibLost'[j] = IF j = k THEN y ELSE vibLost[j]
  BY DEF TypeOK
<1>3. \A j \in Alarms : vibLost[j] \in Nat /\ vibLost'[j] \in Nat
  BY <1>1 DEF TypeOK
<1>4. ealarm \in Alarms /\ etimer \in Alarms /\ (k = ealarm \/ k = etimer)
  BY DEF Alarms
<1>5. \A id : Waits(id) \in Nat
  BY DEF Waits
<1>6. Pending(PendingIds(vibId'), vibLost')
        = Pending(PendingIds(vibId), vibLost)
            - (Waits(vibId[k]) + vibLost[k]) + (Waits(x) + y)
  <2>1. /\ Pending(PendingIds(vibId'), vibLost')
             = Waits(vibId'[ealarm]) + Waits(vibId'[etimer])
                 + vibLost'[ealarm] + vibLost'[etimer]
        /\ Pending(PendingIds(vibId), vibLost)
             = Waits(vibId[ealarm]) + Waits(vibId[etimer])
                 + vibLost[ealarm] + vibLost[etimer]
    BY PendingOfIds
  <2>2. CASE k = ealarm
    <3>1. /\ vibId'[ealarm] = x /\ vibLost'[ealarm] = y
          /\ vibId'[etimer] = vibId[etimer] /\ vibLost'[etimer] = vibLost[etimer]
      BY <1>2, <1>4, <2>2, SinksDiffer
    <3>2. QED
      BY <1>3, <1>4, <1>5, <2>1, <2>2, <3>1
  <2>3. CASE k = etimer
    <3>1. /\ vibId'[etimer] = x /\ vibLost'[etimer] = y
          /\ vibId'[ealarm] = vibId[ealarm] /\ vibLost'[ealarm] = vibLost[ealarm]
      BY <1>2, <1>4, <2>3, SinksDiffer
    <3>2. vibId[k] = vibId[etimer] /\ vibLost[k] = vibLost[etimer]
      BY <2>3
    <3>3. /\ Waits(vibId[ealarm]) \in Nat /\ Waits(vibId[etimer]) \in Nat
          /\ vibLost[ealarm] \in Nat /\ vibLost[etimer] \in Nat /\ Waits(x) \in Nat
      BY <1>3, <1>4, <1>5
    <3>4. QED
      BY <2>1, <3>1, <3>2, <3>3
  <2>4. QED
    BY <1>4, <2>2, <2>3
<1>7. QED
  BY <1>1, <1>6

\* Counts whose sum is within the bound are each within it.
LEMMA WithinBound ==
  ASSUME NEW S, NEW lost \in [Alarms -> Nat], Pending(S, lost) <= MaxPending
  PROVE  lost \in [Alarms -> 0 .. MaxPending]
<1>1. /\ Member(ealarm, S) \in Nat /\ Member(etimer, S) \in Nat
      /\ lost[ealarm] \in Nat /\ lost[etimer] \in Nat
  BY DEF Member, Alarms
<1>2. lost[ealarm] \in 0 .. MaxPending /\ lost[etimer] \in 0 .. MaxPending
  BY <1>1, AlarmPolicyAssumption DEF Pending
<1>3. QED
  BY <1>2 DEF Alarms

\* A media timer that expires, or gives up the others, arms none.
LEMMA NoAlarmCounts ==
  ASSUME NEW k \in Alarms, NEW ids \in SUBSET Alarms, NEW pending \in SUBSET ids,
         k \in ids \/ pending = ids, NEW lost \in [Alarms -> Nat],
         NEW pl, NEW v, NEW recording \in BOOLEAN,
         MediaHearsNoAlarm(k, ids, pending, lost, pl, v, recording)
  PROVE  /\ held' \in SUBSET Alarms
         /\ heldLost' \in [Alarms -> Nat]
         /\ Pending(held', heldLost')
              <= Pending(pending, lost) + (IF k \in ids THEN 0 ELSE 1)
         /\ priority' \in BOOLEAN
         /\ vol' = v \/ vol' = [v EXCEPT ![emedia] = MediaVolume(pl, v)]
<1>1. priority' \in BOOLEAN
  BY DEF MediaHearsNoAlarm, UpdatePriority
<1>2. ealarm \in Alarms /\ etimer \in Alarms /\ (k = ealarm \/ k = etimer)
  BY DEF Alarms
<1>3. lost[ealarm] \in Nat /\ lost[etimer] \in Nat
  BY <1>2
<1>4. \A a, S : Member(a, S) \in {0, 1}
  BY DEF Member
<1>5. CASE k \notin ids
  <2>1. held' = ids \/ held' = ids \cup {k}
    BY <1>5 DEF MediaHearsNoAlarm
  <2>2. heldLost' = lost /\ vol' = v
    BY <1>5 DEF MediaHearsNoAlarm
  <2>3. Member(ealarm, held') + Member(etimer, held')
          <= Member(ealarm, ids) + Member(etimer, ids) + 1
    BY <1>2, <2>1, SinksDiffer DEF Member
  <2>4. Pending(held', heldLost') <= Pending(pending, lost) + 1
    BY <1>3, <1>4, <1>5, <2>2, <2>3 DEF Pending
  <2>5. QED
    BY <1>1, <1>5, <2>1, <2>2, <2>4
<1>6. CASE k \in ids
  <2>1. held' = {} /\ vol' = [v EXCEPT ![emedia] = MediaVolume(pl, v)]
    BY <1>6 DEF MediaHearsNoAlarm
  <2>2. heldLost' = [j \in Alarms |-> lost[j] + Member(j, pending)]
    BY <1>6 DEF MediaHearsNoAlarm, Member
  <2>3. heldLost' \in [Alarms -> Nat]
    BY <1>4, <2>2
  <2>4. /\ heldLost'[ealarm] = lost[ealarm] + Member(ealarm, pending)
        /\ heldLost'[etimer] = lost[etimer] + Member(etimer, pending)
    BY <1>2, <2>2
  <2>5. Member(ealarm, held') = 0 /\ Member(etimer, held') = 0
    BY <2>1 DEF Member
  <2>6. Pending(held', heldLost') = Pending(pending, lost)
    BY <1>3, <1>4, <2>4, <2>5 DEF Pending
  <2>7. Pending(pending, lost) \in Nat
    BY <1>3, <1>4 DEF Pending
  <2>8. QED
    BY <1>1, <1>6, <2>1, <2>3, <2>6, <2>7
<1>7. QED
  BY <1>5, <1>6

\* A set of alarms and their lost timers are counted by a natural number.
LEMMA PendingNat ==
  ASSUME NEW S, NEW lost \in [Alarms -> Nat]
  PROVE  Pending(S, lost) \in Nat
<1>1. lost[ealarm] \in Nat /\ lost[etimer] \in Nat
  BY DEF Alarms
<1>2. QED
  BY <1>1 DEF Pending, Member

\* Taking a lost timer away leaves one less.
LEMMA OneLostLess ==
  ASSUME NEW k \in Alarms, NEW S,
         NEW lost \in [Alarms -> Nat], NEW less \in [Alarms -> Nat],
         less[k] = lost[k] - 1, \A j \in Alarms : j # k => less[j] = lost[j]
  PROVE  Pending(S, less) = Pending(S, lost) - 1
<1>1. ealarm \in Alarms /\ etimer \in Alarms /\ (k = ealarm \/ k = etimer)
  BY DEF Alarms
<1>2. lost[ealarm] \in Nat /\ lost[etimer] \in Nat
  BY <1>1
<1>3. Member(ealarm, S) \in {0, 1} /\ Member(etimer, S) \in {0, 1}
  BY DEF Member
<1>4. less[ealarm] + less[etimer] = lost[ealarm] + lost[etimer] - 1
  BY <1>1, <1>2, SinksDiffer
<1>5. less[ealarm] \in Nat /\ less[etimer] \in Nat
  BY <1>1
<1>6. QED
  BY <1>2, <1>3, <1>4, <1>5 DEF Pending

\* So does taking away one whose id is known.
LEMMA OneHeldLess ==
  ASSUME NEW k \in Alarms, NEW S \in SUBSET Alarms, NEW lost \in [Alarms -> Nat],
         k \in S
  PROVE  Pending(S \ {k}, lost) = Pending(S, lost) - 1
<1>1. ealarm \in Alarms /\ etimer \in Alarms /\ (k = ealarm \/ k = etimer)
  BY DEF Alarms
<1>2. lost[ealarm] \in Nat /\ lost[etimer] \in Nat
  BY <1>1
<1>3. Member(ealarm, S) \in {0, 1} /\ Member(etimer, S) \in {0, 1}
  BY DEF Member
<1>4. Member(ealarm, S \ {k}) + Member(etimer, S \ {k})
        = Member(ealarm, S) + Member(etimer, S) - 1
  BY <1>1, SinksDiffer DEF Member
<1>5. Member(ealarm, S \ {k}) \in {0, 1} /\ Member(etimer, S \ {k}) \in {0, 1}
  BY DEF Member
<1>6. QED
  BY <1>2, <1>3, <1>4, <1>5 DEF Pending

\* The timers pending are counted by natural numbers.
LEMMA PendingIsNat ==
  ASSUME TypeOK
  PROVE  /\ Pending(held, heldLost) \in Nat
         /\ Pending(PendingIds(vibId), vibLost) \in Nat
<1>1. heldLost \in [Alarms -> Nat] /\ vibLost \in [Alarms -> Nat]
  BY DEF TypeOK
<1>2. held \in SUBSET Alarms /\ PendingIds(vibId) \in SUBSET Alarms
  BY DEF TypeOK, PendingIds
<1>3. ealarm \in Alarms
  BY DEF Alarms
<1>4. QED
  BY <1>1, PendingNat

-----------------------------------------------------------------------------
(* The types, in three parts.                                              *)

MediaTimers ==
  /\ held \in SUBSET Alarms
  /\ heldLost \in [Alarms -> Nat]
  /\ Pending(held, heldLost) <= MaxPending

VibrateTimers ==
  /\ vibId \in [Alarms -> Ids]
  /\ vibLost \in [Alarms -> Nat]
  /\ Pending(PendingIds(vibId), vibLost) <= MaxPending

Switches ==
  /\ ringerOn \in BOOLEAN /\ dnd \in BOOLEAN /\ prevRinger \in BOOLEAN
  /\ override \in SUBSET Overridable

Streams ==
  /\ playing \in SUBSET Sinks
  /\ muted \in SUBSET Alarms
  /\ vol \in [Alarms \cup {emedia} -> Volumes]
  /\ priority \in BOOLEAN /\ vibrating \in BOOLEAN /\ late \in BOOLEAN

\* Together they say what PolicyTypes says.
LEMMA TypesInParts ==
  PolicyTypes <=> MediaTimers /\ VibrateTimers /\ Switches /\ Streams
<1>1. ASSUME PolicyTypes PROVE MediaTimers /\ VibrateTimers /\ Switches /\ Streams
  <2>1. /\ heldLost \in [Alarms -> Nat] /\ vibLost \in [Alarms -> Nat]
    BY <1>1 DEF PolicyTypes, TypeOK
  <2>2. QED
    BY <1>1, <2>1 DEF PolicyTypes, TypeOK, MediaTimers, VibrateTimers, Switches,
                      Streams, Ids, Volumes
<1>2. ASSUME MediaTimers /\ VibrateTimers /\ Switches /\ Streams PROVE PolicyTypes
  <2>1. heldLost \in [Alarms -> 0 .. MaxPending] /\ vibLost \in [Alarms -> 0 .. MaxPending]
    BY <1>2, WithinBound DEF MediaTimers, VibrateTimers
  <2>2. QED
    BY <1>2, <2>1 DEF PolicyTypes, TypeOK, MediaTimers, VibrateTimers, Switches,
                      Streams, Ids, Volumes
<1>3. QED
  BY <1>1, <1>2

\* The same of the next state.
LEMMA TypesNext ==
  MediaTimers' /\ VibrateTimers' /\ Switches' /\ Streams' => PolicyTypes'
BY TypesInParts, PTL

\* Timers and switches, where a step leaves them alone.
LEMMA MediaTimersStay ==
  MediaTimers /\ UNCHANGED <<held, heldLost>> => MediaTimers'
BY DEF MediaTimers

LEMMA VibrateTimersStay ==
  VibrateTimers /\ UNCHANGED <<vibId, vibLost>> => VibrateTimers'
BY DEF VibrateTimers

LEMMA SwitchesStay ==
  Switches /\ UNCHANGED switchVars => Switches'
BY DEF Switches, switchVars

\* Volumes keep their type when one of them is set.
LEMMA VolumeSet ==
  ASSUME NEW v \in [Alarms \cup {emedia} -> Volumes], NEW s, NEW x \in Volumes
  PROVE  [v EXCEPT ![s] = x] \in [Alarms \cup {emedia} -> Volumes]
OBVIOUS

-----------------------------------------------------------------------------
(* The types, action by action.                                            *)

\* A stream closes: the bound leaves room for one more timer of each module.
LEMMA StopOnClose ==
  ASSUME PolicyTypes, NEW k \in Alarms, NEW pl,
         VibratePending < MaxPending,
         StopVibrating(k, vibId[k], vibLost[k], pl)
  PROVE  VibrateTimers' /\ vibrating' \in BOOLEAN /\ muted' \in SUBSET Alarms
<1>1. TypeOK
  BY DEF PolicyTypes
<1>2. PICK id \in Ids, lost \in Nat : id = vibId[k] /\ lost = vibLost[k]
  BY <1>1 DEF TypeOK, Ids
<1>3. StopVibrating(k, id, lost, pl)
  BY <1>2
<1>4. PICK x \in Ids, y \in Nat :
        /\ vibId' = [vibId EXCEPT ![k] = x]
        /\ vibLost' = [vibLost EXCEPT ![k] = y]
        /\ Waits(x) + y <= Waits(id) + lost + (IF id = "none" THEN 1 ELSE 0)
  BY <1>1, <1>3, StopCounts
<1>5. vibrating' \in BOOLEAN /\ muted' \in SUBSET Alarms
  BY <1>1, <1>3, StopCounts
<1>6. /\ vibId' \in [Alarms -> Ids]
      /\ vibLost' \in [Alarms -> Nat]
      /\ Pending(PendingIds(vibId'), vibLost')
           = Pending(PendingIds(vibId), vibLost) - (Waits(id) + lost) + (Waits(x) + y)
  <2>1. /\ vibId' = [vibId EXCEPT ![k] = x]
        /\ vibLost' = [vibLost EXCEPT ![k] = y]
    BY <1>4
  <2>2. QED
    BY <1>1, <1>2, <2>1, StopKeepsBound, ZenonT(60)
<1>7. Pending(PendingIds(vibId), vibLost) < MaxPending
  BY <1>1, CountsPending
<1>8. Pending(PendingIds(vibId), vibLost) \in Nat
  BY <1>1, PendingIsNat
<1>9. Waits(id) \in Nat /\ Waits(x) \in Nat
  BY DEF Waits
<1>10. Pending(PendingIds(vibId'), vibLost') <= MaxPending
  BY <1>4, <1>6, <1>7, <1>8, <1>9, AlarmPolicyAssumption
<1>11. QED
  BY <1>5, <1>6, <1>10 DEF VibrateTimers

\* A timer expires, and arms at most one.
LEMMA StopOnTimeout ==
  ASSUME PolicyTypes, NEW k \in Alarms, VibrateTimeout(k)
  PROVE  VibrateTimers' /\ vibrating' \in BOOLEAN /\ muted' \in SUBSET Alarms
<1>1. TypeOK
  BY DEF PolicyTypes
<1>2. PICK id \in Ids, lost \in Nat :
        /\ StopVibrating(k, id, lost, playing)
        /\ Waits(id) + lost + (IF id = "none" THEN 1 ELSE 0)
             <= Waits(vibId[k]) + vibLost[k]
  <2>1. vibId[k] \in Ids /\ vibLost[k] \in Nat
    BY <1>1 DEF TypeOK, Ids
  <2>2. ASSUME vibLost[k] > 0 /\ StopVibrating(k, vibId[k], vibLost[k] - 1, playing)
        PROVE  \E id \in Ids, lost \in Nat :
                 /\ StopVibrating(k, id, lost, playing)
                 /\ Waits(id) + lost + (IF id = "none" THEN 1 ELSE 0)
                      <= Waits(vibId[k]) + vibLost[k]
    <3>1. PICK id \in Ids, lost \in Nat : id = vibId[k] /\ lost = vibLost[k] - 1
      BY <2>1, <2>2
    <3>2. Waits(id) + lost + (IF id = "none" THEN 1 ELSE 0) <= Waits(id) + vibLost[k]
      BY <2>1, <3>1 DEF Waits
    <3>3. QED
      BY <2>2, <3>1, <3>2
  <2>3. ASSUME /\ vibLost[k] = 0 /\ vibId[k] = "pending"
               /\ StopVibrating(k, "expired", 0, playing)
        PROVE  \E id \in Ids, lost \in Nat :
                 /\ StopVibrating(k, id, lost, playing)
                 /\ Waits(id) + lost + (IF id = "none" THEN 1 ELSE 0)
                      <= Waits(vibId[k]) + vibLost[k]
    <3>1. Waits("expired") + 0 + (IF "expired" = "none" THEN 1 ELSE 0)
            <= Waits(vibId[k]) + vibLost[k]
      BY <2>3 DEF Waits
    <3>2. "expired" \in Ids /\ 0 \in Nat
      BY DEF Ids
    <3>3. QED
      BY <2>3, <3>1, <3>2
  <2>4. QED
    BY <2>2, <2>3 DEF VibrateTimeout
<1>3. PICK x \in Ids, y \in Nat :
        /\ vibId' = [vibId EXCEPT ![k] = x]
        /\ vibLost' = [vibLost EXCEPT ![k] = y]
        /\ Waits(x) + y <= Waits(id) + lost + (IF id = "none" THEN 1 ELSE 0)
  BY <1>1, <1>2, StopCounts
<1>4. vibrating' \in BOOLEAN /\ muted' \in SUBSET Alarms
  BY <1>1, <1>2, StopCounts
<1>5. /\ vibId' \in [Alarms -> Ids]
      /\ vibLost' \in [Alarms -> Nat]
      /\ Pending(PendingIds(vibId'), vibLost')
           = Pending(PendingIds(vibId), vibLost)
               - (Waits(vibId[k]) + vibLost[k]) + (Waits(x) + y)
  BY <1>1, <1>3, StopKeepsBound
<1>6. Pending(PendingIds(vibId), vibLost) <= MaxPending
  BY DEF PolicyTypes
<1>7. Pending(PendingIds(vibId), vibLost) \in Nat
  BY <1>1, PendingIsNat
<1>8. /\ Waits(id) \in Nat /\ Waits(x) \in Nat /\ Waits(vibId[k]) \in Nat
      /\ vibLost[k] \in Nat
  BY <1>1 DEF Waits, TypeOK
<1>9. Pending(PendingIds(vibId'), vibLost') <= MaxPending
  BY <1>2, <1>3, <1>5, <1>6, <1>7, <1>8, AlarmPolicyAssumption
<1>10. QED
  BY <1>4, <1>5, <1>9 DEF VibrateTimers

\* StartVibrating leaves no more timers than there were.
LEMMA VibrateOnOpen ==
  ASSUME PolicyTypes, NEW k \in Alarms, NEW possible \in BOOLEAN,
         StartVibrating(k, possible)
  PROVE  VibrateTimers' /\ vibrating' \in BOOLEAN
<1>1. TypeOK /\ VibrateTimers
  BY TypesInParts DEF PolicyTypes
<1>2. /\ vibId' \in [Alarms -> Ids] /\ vibLost' = vibLost /\ vibrating' \in BOOLEAN
      /\ PendingIds(vibId') \subseteq PendingIds(vibId)
  BY <1>1, StartCounts
<1>3. \A s : Member(s, PendingIds(vibId')) <= Member(s, PendingIds(vibId))
  BY <1>2 DEF Member
<1>4. \A s, S : Member(s, S) \in {0, 1}
  BY DEF Member
<1>5. vibLost[ealarm] \in Nat /\ vibLost[etimer] \in Nat
  BY <1>1 DEF VibrateTimers, Alarms
<1>6. Pending(PendingIds(vibId'), vibLost') <= Pending(PendingIds(vibId), vibLost)
  BY <1>2, <1>3, <1>4, <1>5 DEF Pending
<1>7. Pending(PendingIds(vibId'), vibLost') \in Int
  BY <1>2, <1>4, <1>5 DEF Pending
<1>8. Pending(PendingIds(vibId'), vibLost') <= MaxPending
  BY <1>1, <1>6, <1>7, PendingIsNat, AlarmPolicyAssumption DEF VibrateTimers
<1>9. QED
  BY <1>1, <1>2, <1>8 DEF VibrateTimers

\* So does giving up media's timer.
LEMMA MediaHearsAlarmTypes ==
  ASSUME PolicyTypes, NEW k \in Alarms, NEW pl,
         NEW v \in [Alarms \cup {emedia} -> Volumes], MediaHearsAlarm(k, pl, v)
  PROVE  /\ MediaTimers' /\ priority' \in BOOLEAN
         /\ vol' = [v EXCEPT ![emedia] = Silent]
         /\ vol' \in [Alarms \cup {emedia} -> Volumes]
<1>1. TypeOK /\ MediaTimers
  BY TypesInParts DEF PolicyTypes
<1>2. held' = held \ {k} /\ heldLost' = heldLost /\ priority' \in BOOLEAN
  BY DEF MediaHearsAlarm, UpdatePriority
<1>3. vol' = [v EXCEPT ![emedia] = Silent] /\ vol' \in [Alarms \cup {emedia} -> Volumes]
  BY VolumeSet DEF MediaHearsAlarm, Volumes
<1>4. held \in SUBSET Alarms /\ heldLost \in [Alarms -> Nat]
  BY <1>1 DEF MediaTimers
<1>5. k \in held => Pending(held', heldLost') = Pending(held, heldLost) - 1
  BY <1>2, <1>4, OneHeldLess
<1>6. k \notin held => held' = held
  BY <1>2
<1>7. Pending(held, heldLost) \in Nat /\ Pending(held, heldLost) <= MaxPending
  BY <1>1, PendingIsNat DEF MediaTimers
<1>8. Pending(held', heldLost') <= MaxPending
  <2>1. CASE k \in held
    <3>1. Pending(held', heldLost') = Pending(held, heldLost) - 1
      BY <1>5, <2>1
    <3>2. QED
      BY <1>7, <3>1, AlarmPolicyAssumption
  <2>2. CASE k \notin held
    <3>1. Pending(held', heldLost') = Pending(held, heldLost)
      BY <1>2, <1>6, <2>2
    <3>2. QED
      BY <1>7, <3>1
  <2>3. QED
    BY <2>1, <2>2
<1>9. QED
  BY <1>2, <1>3, <1>4, <1>8 DEF MediaTimers

\* A stream opens on an alarm's sink.
LEMMA OpenTypes ==
  ASSUME PolicyTypes, NEW k \in Alarms, FirstStreamOpened(k), late' \in BOOLEAN
  PROVE  PolicyTypes'
<1> DEFINE pl == playing \cup {k}
           v  == [vol EXCEPT ![k] = Wanted(k, pl, ringerOn, override, dnd, muted)]
<1>1. MediaTimers /\ Switches /\ Streams
  BY TypesInParts
<1>2. v \in [Alarms \cup {emedia} -> Volumes]
  BY <1>1, WantedType, VolumeSet DEF Streams
<1>3. playing' = pl /\ MediaHearsAlarm(k, pl, v) /\ UNCHANGED <<switchVars, muted>>
  BY DEF FirstStreamOpened
<1>4. VibrateTimers' /\ vibrating' \in BOOLEAN
  BY VibrateOnOpen DEF FirstStreamOpened
<1>5. MediaTimers' /\ priority' \in BOOLEAN /\ vol' \in [Alarms \cup {emedia} -> Volumes]
  <2> HIDE DEF pl, v
  <2>1. PICK w : w = v
    OBVIOUS
  <2>2. QED
    BY <1>2, <1>3, <2>1, MediaHearsAlarmTypes
<1>6. Streams'
  BY <1>1, <1>3, <1>4, <1>5 DEF Streams, Sinks
<1>7. QED
  BY <1>1, <1>3, <1>4, <1>5, <1>6, SwitchesStay, TypesNext

\* Unmuting sets one volume at most.
LEMMA AfterUnmuteType ==
  ASSUME PolicyTypes, NEW k, NEW pl
  PROVE  AfterUnmute(k, pl) \in [Alarms \cup {emedia} -> Volumes]
<1>1. vol \in [Alarms \cup {emedia} -> Volumes]
  BY TypesInParts DEF Streams
<1>2. CASE muted' = muted
  BY <1>1, <1>2 DEF AfterUnmute
<1>3. CASE muted' # muted
  <2>1. PICK x \in Volumes : x = Wanted(k, pl, ringerOn, override, dnd, muted')
    BY WantedType
  <2>2. AfterUnmute(k, pl) = [vol EXCEPT ![k] = x]
    BY <1>3, <2>1 DEF AfterUnmute
  <2>3. QED
    BY <1>1, <2>2, VolumeSet
<1>4. QED
  BY <1>2, <1>3

\* A timer stays late or does not.
LEMMA StillLateType ==
  ASSUME late \in BOOLEAN, NEW k
  PROVE  StillLate(k) \in BOOLEAN
BY DEF StillLate

\* The last stream of an alarm's sink closes.
LEMMA CloseTypes ==
  ASSUME PolicyTypes, NEW k \in Alarms, LastStreamClosed(k)
  PROVE  PolicyTypes'
<1>0. PICK pl : pl = playing \ {k}
  OBVIOUS
<1>1. TypeOK /\ MediaTimers /\ Switches /\ Streams
  BY TypesInParts DEF PolicyTypes
<1>2. /\ MediaPending < MaxPending /\ VibratePending < MaxPending
      /\ playing' = pl /\ late' = StillLate(k)
      /\ StopVibrating(k, vibId[k], vibLost[k], pl)
      /\ UNCHANGED switchVars
  BY <1>0 DEF LastStreamClosed
<1>3. VibrateTimers' /\ vibrating' \in BOOLEAN /\ muted' \in SUBSET Alarms
  BY <1>2, StopOnClose
<1>4. PICK v \in [Alarms \cup {emedia} -> Volumes] : v = AfterUnmute(k, pl)
  BY AfterUnmuteType
<1>5. PICK recording \in BOOLEAN :
        MediaHearsNoAlarm(k, held, held, heldLost, pl, v, recording)
  BY <1>0, <1>4 DEF LastStreamClosed
<1>6. PICK ids \in SUBSET Alarms, lost \in [Alarms -> Nat] : ids = held /\ lost = heldLost
  BY <1>1 DEF MediaTimers
<1>7. /\ held' \in SUBSET Alarms
      /\ heldLost' \in [Alarms -> Nat]
      /\ Pending(held', heldLost') <= Pending(ids, lost) + (IF k \in ids THEN 0 ELSE 1)
      /\ priority' \in BOOLEAN
      /\ vol' = v \/ vol' = [v EXCEPT ![emedia] = MediaVolume(pl, v)]
  <2>1. MediaHearsNoAlarm(k, ids, ids, lost, pl, v, recording)
    BY <1>5, <1>6
  <2>2. ids \in SUBSET ids
    OBVIOUS
  <2>3. k \in ids \/ ids = ids
    OBVIOUS
  <2>4. /\ held' \in SUBSET Alarms
        /\ heldLost' \in [Alarms -> Nat]
        /\ Pending(held', heldLost') <= Pending(ids, lost) + (IF k \in ids THEN 0 ELSE 1)
        /\ priority' \in BOOLEAN
    BY <2>1, <2>2, <2>3, NoAlarmCounts
  <2>5. vol' = v \/ vol' = [v EXCEPT ![emedia] = MediaVolume(pl, v)]
    BY <2>1 DEF MediaHearsNoAlarm
  <2>6. QED
    BY <2>4, <2>5
<1>8. Pending(held', heldLost') <= MaxPending
  <2>1. Pending(ids, lost) \in Nat /\ Pending(ids, lost) < MaxPending
    BY <1>1, <1>2, <1>6, PendingIsNat, CountsPending
  <2>2. Pending(held', heldLost') \in Nat
    BY <1>7, PendingNat
  <2>3. QED
    BY <1>7, <2>1, <2>2, AlarmPolicyAssumption
<1>9. MediaTimers'
  BY <1>7, <1>8 DEF MediaTimers
<1>10. vol' \in [Alarms \cup {emedia} -> Volumes]
  BY <1>7, MediaVolumeType, VolumeSet
<1>11. Streams'
  BY <1>0, <1>1, <1>2, <1>3, <1>7, <1>10, StillLateType DEF Streams
<1>12. QED
  BY <1>1, <1>2, <1>3, <1>9, <1>11, SwitchesStay, TypesNext

\* An expired timer of an alarm's module.
LEMMA VibrateTimeoutTypes ==
  ASSUME PolicyTypes, NEW k \in Alarms, VibrateTimeout(k)
  PROVE  PolicyTypes'
<1>1. MediaTimers /\ Switches /\ Streams
  BY TypesInParts
<1>2. VibrateTimers' /\ vibrating' \in BOOLEAN /\ muted' \in SUBSET Alarms
  BY StopOnTimeout
<1>3. /\ vol' = AfterUnmute(k, playing) /\ late' = StillLate(k)
      /\ UNCHANGED <<playing, switchVars, mediaVars>>
  BY DEF VibrateTimeout
<1>4. vol' \in [Alarms \cup {emedia} -> Volumes]
  BY <1>3, AfterUnmuteType
<1>5. Streams'
  BY <1>1, <1>2, <1>3, <1>4, StillLateType DEF Streams, mediaVars
<1>6. MediaTimers'
  BY <1>1, <1>3, MediaTimersStay DEF mediaVars
<1>7. QED
  BY <1>1, <1>2, <1>3, <1>5, <1>6, SwitchesStay, TypesNext

\* An expired timer of media.
LEMMA MediaTimeoutTypes ==
  ASSUME PolicyTypes, NEW k \in Alarms, MediaTimeout(k)
  PROVE  PolicyTypes'
<1>1. TypeOK /\ MediaTimers /\ VibrateTimers /\ Switches /\ Streams
  BY TypesInParts DEF PolicyTypes
<1>2. UNCHANGED <<playing, switchVars, late, muted, vibVars>>
  BY DEF MediaTimeout
<1>3. PICK ids, pl, v : ids = held /\ pl = playing /\ v = vol
  OBVIOUS
<1>4. ids \in SUBSET Alarms /\ v \in [Alarms \cup {emedia} -> Volumes]
  BY <1>1, <1>3 DEF MediaTimers, Streams
<1>5. PICK recording \in BOOLEAN, pending \in SUBSET ids, lost \in [Alarms -> Nat] :
        /\ MediaHearsNoAlarm(k, ids, pending, lost, pl, v, recording)
        /\ k \in ids \/ pending = ids
        /\ Pending(pending, lost) = Pending(held, heldLost) - 1
  <2>1. PICK recording \in BOOLEAN :
          \/ /\ heldLost[k] > 0
             /\ MediaHearsNoAlarm(k, held, held, [heldLost EXCEPT ![k] = @ - 1],
                                  playing, vol, recording)
          \/ /\ heldLost[k] = 0 /\ k \in held
             /\ MediaHearsNoAlarm(k, held, held \ {k}, heldLost, playing, vol,
                                  recording)
    BY DEF MediaTimeout
  <2>2. CASE /\ heldLost[k] > 0
             /\ MediaHearsNoAlarm(k, held, held, [heldLost EXCEPT ![k] = @ - 1],
                                  playing, vol, recording)
    <3>1. PICK lost : lost = [heldLost EXCEPT ![k] = @ - 1]
      OBVIOUS
    <3>2. lost \in [Alarms -> Nat] /\ Pending(held, lost) = Pending(held, heldLost) - 1
      <4>1. heldLost \in [Alarms -> Nat] /\ heldLost[k] > 0
        BY <1>1, <2>2 DEF MediaTimers
      <4>2. /\ lost \in [Alarms -> Nat] /\ lost[k] = heldLost[k] - 1
            /\ \A j \in Alarms : j # k => lost[j] = heldLost[j]
        BY <3>1, <4>1
      <4>3. QED
        BY <4>1, <4>2, OneLostLess
    <3>3. MediaHearsNoAlarm(k, ids, ids, lost, pl, v, recording)
      BY <1>3, <2>2, <3>1
    <3>4. ids \in SUBSET ids /\ Pending(ids, lost) = Pending(held, heldLost) - 1
      BY <1>3, <3>2
    <3>5. QED
      BY <3>2, <3>3, <3>4
  <2>3. CASE /\ heldLost[k] = 0 /\ k \in held
             /\ MediaHearsNoAlarm(k, held, held \ {k}, heldLost, playing, vol,
                                  recording)
    <3>1. PICK pending, lost : pending = held \ {k} /\ lost = heldLost
      OBVIOUS
    <3>2. Pending(pending, lost) = Pending(held, heldLost) - 1 /\ lost \in [Alarms -> Nat]
      BY <1>1, <2>3, <3>1, OneHeldLess DEF MediaTimers
    <3>3. MediaHearsNoAlarm(k, ids, pending, lost, pl, v, recording)
      BY <1>3, <2>3, <3>1
    <3>4. pending \in SUBSET ids /\ k \in ids
      BY <1>3, <2>3, <3>1
    <3>5. QED
      BY <3>2, <3>3, <3>4
  <2>4. QED
    BY <2>1, <2>2, <2>3
<1>6. /\ held' \in SUBSET Alarms
      /\ heldLost' \in [Alarms -> Nat]
      /\ Pending(held', heldLost') <= Pending(pending, lost) + (IF k \in ids THEN 0 ELSE 1)
      /\ priority' \in BOOLEAN
  BY <1>4, <1>5, NoAlarmCounts
<1>7. vol' = v \/ vol' = [v EXCEPT ![emedia] = MediaVolume(pl, v)]
  BY <1>5 DEF MediaHearsNoAlarm
<1>8. Pending(held', heldLost') <= MaxPending
  <2>1. Pending(held, heldLost) \in Nat /\ Pending(held, heldLost) <= MaxPending
    BY <1>1, PendingIsNat DEF MediaTimers
  <2>2. Pending(held', heldLost') \in Nat
    BY <1>6, PendingNat
  <2>3. QED
    BY <1>5, <1>6, <2>1, <2>2, AlarmPolicyAssumption
<1>9. MediaTimers'
  BY <1>6, <1>8 DEF MediaTimers
<1>10. Streams'
  <2>1. vol' \in [Alarms \cup {emedia} -> Volumes]
    BY <1>4, <1>7, MediaVolumeType, VolumeSet
  <2>2. QED
    BY <1>1, <1>2, <1>6, <2>1 DEF Streams, vibVars
<1>11. VibrateTimers'
  BY <1>1, <1>2, VibrateTimersStay DEF vibVars
<1>12. QED
  BY <1>1, <1>2, <1>9, <1>10, <1>11, SwitchesStay, TypesNext

\* Steps that leave every timer alone.
LEMMA TimersAlone ==
  ASSUME PolicyTypes, UNCHANGED <<held, heldLost, vibId, vibLost>>, Switches', Streams'
  PROVE  PolicyTypes'
<1>1. MediaTimers /\ VibrateTimers
  BY TypesInParts
<1>2. MediaTimers' /\ VibrateTimers'
  BY <1>1, MediaTimersStay, VibrateTimersStay
<1>3. QED
  BY <1>2, TypesNext

\* Media and alerts open and close.
LEMMA MediaStreamTypes ==
  ASSUME PolicyTypes, MediaOpens \/ MediaCloses \/ AlertOpens \/ AlertCloses
  PROVE  PolicyTypes'
<1>1. Switches /\ Streams
  BY TypesInParts
<1>2. UNCHANGED <<held, heldLost, vibId, vibLost>> /\ UNCHANGED switchVars
  BY DEF MediaOpens, MediaCloses, AlertOpens, AlertCloses, vibVars
<1>3. Switches'
  BY <1>1, <1>2, SwitchesStay
<1>4. /\ playing' \in SUBSET Sinks /\ priority' \in BOOLEAN /\ vibrating' \in BOOLEAN
      /\ late' = late /\ muted' = muted
  BY <1>1 DEF MediaOpens, MediaCloses, AlertOpens, AlertCloses, UpdatePriority, vibVars,
              Streams, Sinks
<1>5. \E x \in Volumes : vol' = [vol EXCEPT ![emedia] = x] \/ vol' = vol
  <2>1. Silent \in Volumes
    BY DEF Volumes
  <2>2. CASE MediaOpens
    <3>1. PICK x \in Volumes :
            x = IF priority' THEN Silent
                ELSE MediaVolume(playing \cup {emedia}, vol)
      BY <2>1, MediaVolumeType
    <3>2. QED
      BY <2>2, <3>1 DEF MediaOpens
  <2>3. CASE AlertCloses
    <3>1. PICK x \in Volumes : x = MediaVolume(playing \ {ealerts}, vol)
      BY MediaVolumeType
    <3>2. QED
      BY <2>3, <3>1 DEF AlertCloses
  <2>4. CASE MediaCloses \/ AlertOpens
    BY <2>1, <2>4 DEF MediaCloses, AlertOpens
  <2>5. QED
    BY <2>2, <2>3, <2>4
<1>6. vol' \in [Alarms \cup {emedia} -> Volumes]
  BY <1>1, <1>5, VolumeSet DEF Streams
<1>7. QED
  BY <1>1, <1>2, <1>3, <1>4, <1>6, TimersAlone DEF Streams

\* What ProgramSoftwareMixer programs.
LEMMA MixerTypes ==
  ASSUME Streams, NEW v, NEW ring, NEW over, NEW quiet,
         ProgramSoftwareMixer(v, ring, over, quiet)
  PROVE  vol' \in [Alarms \cup {emedia} -> Volumes] /\ late' = FALSE
<1>1. vol' = [s \in DOMAIN vol |->
                IF s = emedia THEN MediaVolume(playing, v)
                ELSE Wanted(s, playing, ring, over, quiet, muted)]
  BY DEF ProgramSoftwareMixer
<1>2. DOMAIN vol = Alarms \cup {emedia}
  BY DEF Streams
<1>3. QED
  BY <1>1, <1>2, WantedType, MediaVolumeType DEF ProgramSoftwareMixer

\* Requests leave the timers alone.
LEMMA SwitchTypes ==
  ASSUME PolicyTypes, SetRingerOn \/ SetDndMode
  PROVE  PolicyTypes'
<1>1. Switches /\ Streams
  BY TypesInParts
<1>2. UNCHANGED <<held, heldLost, vibId, vibLost>>
  BY DEF SetRingerOn, SetDndMode, mediaVars, vibVars
<1>3. UNCHANGED <<playing, override, muted, priority, vibrating>>
  BY DEF SetRingerOn, SetDndMode, mediaVars, vibVars
<1>4. Switches'
  BY <1>1, <1>3 DEF SetRingerOn, SetDndMode, SwitchRinger, Switches
<1>5. PICK on, quiet : SwitchRinger(on, quiet)
  <2>1. CASE SetRingerOn
    <3>1. PICK on, quiet : on = ~ringerOn /\ quiet = dnd
      OBVIOUS
    <3>2. QED
      BY <2>1, <3>1 DEF SetRingerOn
  <2>2. CASE SetDndMode
    <3>1. PICK on, quiet : on = (dnd /\ prevRinger) /\ quiet = dnd'
      OBVIOUS
    <3>2. QED
      BY <2>2, <3>1 DEF SetDndMode
  <2>3. QED
    BY <2>1, <2>2
<1>6. vol' \in [Alarms \cup {emedia} -> Volumes] /\ late' \in BOOLEAN
  <2>1. CASE on # ringerOn
    <3>1. ProgramSoftwareMixer(vol, on, override, quiet)
      BY <1>5, <2>1 DEF SwitchRinger
    <3>2. PICK v, over : v = vol /\ over = override
      OBVIOUS
    <3>3. ProgramSoftwareMixer(v, on, over, quiet)
      BY <3>1, <3>2
    <3>4. QED
      BY <1>1, <3>3, MixerTypes
  <2>2. CASE on = ringerOn
    BY <1>1, <1>5, <2>2 DEF SwitchRinger, Streams
  <2>3. QED
    BY <2>1, <2>2
<1>7. Streams'
  BY <1>1, <1>3, <1>6 DEF Streams
<1>8. QED
  BY <1>2, <1>4, <1>7, TimersAlone

\* Types of an override, a mute or its end, and a change of the hardware.
LEMMA OverrideTypes ==
  ASSUME PolicyTypes, NEW k \in Overridable, SetOverride(k)
  PROVE  PolicyTypes'
<1>1. Switches /\ Streams
  BY TypesInParts
<1>2. UNCHANGED <<held, heldLost, vibId, vibLost>>
  BY DEF SetOverride, mediaVars, vibVars
<1>3. Switches'
  BY <1>1 DEF SetOverride, Switches
<1>4. PICK v, ring, over, quiet : ProgramSoftwareMixer(v, ring, over, quiet)
  <2>1. PICK v, ring, over, quiet :
          v = vol /\ ring = ringerOn /\ over = override' /\ quiet = dnd
    OBVIOUS
  <2>2. QED
    BY <2>1 DEF SetOverride
<1>5. vol' \in [Alarms \cup {emedia} -> Volumes] /\ late' = FALSE
  BY <1>1, <1>4, MixerTypes
<1>6. Streams'
  BY <1>1, <1>5 DEF SetOverride, Streams, mediaVars, vibVars
<1>7. QED
  BY <1>2, <1>3, <1>6, TimersAlone

LEMMA MuteTypes ==
  ASSUME PolicyTypes, NEW k \in Alarms, Mute(k) \/ Unmute(k)
  PROVE  PolicyTypes'
<1>1. Switches /\ Streams
  BY TypesInParts
<1>2. UNCHANGED <<held, heldLost, vibId, vibLost>> /\ UNCHANGED switchVars
  BY DEF Mute, Unmute, mediaVars, vibVars
<1>3. Switches'
  BY <1>1, <1>2, SwitchesStay
<1>4. CASE Mute(k)
  <2>1. Silent \in Volumes
    BY DEF Volumes
  <2>2. vol' = [vol EXCEPT ![k] = Silent] \/ vol' = vol
    BY <1>4 DEF Mute
  <2>3. vol' \in [Alarms \cup {emedia} -> Volumes]
    BY <1>1, <2>1, <2>2, VolumeSet DEF Streams
  <2>4. late' \in BOOLEAN /\ muted' \in SUBSET Alarms
    BY <1>1, <1>4 DEF Mute, Streams
  <2>5. Streams'
    BY <1>1, <1>4, <2>3, <2>4 DEF Mute, Streams, mediaVars
  <2>6. QED
    BY <1>2, <1>3, <2>5, TimersAlone
<1>5. CASE Unmute(k)
  <2>1. PICK pl : pl = playing
    OBVIOUS
  <2>2. vol' = AfterUnmute(k, pl)
    BY <1>5, <2>1 DEF Unmute
  <2>3. vol' \in [Alarms \cup {emedia} -> Volumes]
    BY <2>2, AfterUnmuteType
  <2>4. late' \in BOOLEAN
    BY <1>1, <1>5, StillLateType DEF Unmute, Streams
  <2>5. Streams'
    BY <1>1, <1>5, <2>3, <2>4 DEF Unmute, Streams, mediaVars, vibVars
  <2>6. QED
    BY <1>2, <1>3, <2>5, TimersAlone
<1>6. QED
  BY <1>4, <1>5

LEMMA HardwareTypes ==
  ASSUME PolicyTypes, UpdateHardwareSettings
  PROVE  PolicyTypes'
<1>1. Switches /\ Streams
  BY TypesInParts
<1>2. UNCHANGED <<held, heldLost, vibId, vibLost>> /\ UNCHANGED switchVars
  BY DEF UpdateHardwareSettings, mediaVars, vibVars
<1>3. PICK v, ring, over, quiet : ProgramSoftwareMixer(v, ring, over, quiet)
  <2>1. PICK v, ring, over, quiet :
          /\ v = [s \in DOMAIN vol |-> Silent]
          /\ ring = ringerOn /\ over = override /\ quiet = dnd
    OBVIOUS
  <2>2. QED
    BY <2>1 DEF UpdateHardwareSettings
<1>4. vol' \in [Alarms \cup {emedia} -> Volumes] /\ late' = FALSE
  BY <1>1, <1>3, MixerTypes
<1>5. Streams'
  BY <1>1, <1>4 DEF UpdateHardwareSettings, Streams, mediaVars, vibVars
<1>6. QED
  BY <1>1, <1>2, <1>5, SwitchesStay, TimersAlone

\* No step breaks a type or the bound.
LEMMA TypesStep == PolicyTypes /\ [Next]_vars => PolicyTypes'
<1> SUFFICES ASSUME PolicyTypes, [Next]_vars PROVE PolicyTypes'
  OBVIOUS
<1>1. CASE AlarmOpens
  BY <1>1, OpenTypes, TypesInParts DEF AlarmOpens, Alarms, Streams
<1>2. CASE TimerOpens
  BY <1>2, OpenTypes DEF TimerOpens, Alarms
<1>3. ASSUME NEW k \in Alarms, LastStreamClosed(k) PROVE PolicyTypes'
  BY <1>3, CloseTypes
<1>4. CASE MediaOpens \/ MediaCloses \/ AlertOpens \/ AlertCloses
  BY <1>4, MediaStreamTypes
<1>5. ASSUME NEW k \in Alarms, VibrateTimeout(k) \/ MediaTimeout(k) PROVE PolicyTypes'
  BY <1>5, VibrateTimeoutTypes, MediaTimeoutTypes
<1>6. CASE SetRingerOn \/ SetDndMode
  BY <1>6, SwitchTypes
<1>7. ASSUME NEW k \in Overridable, SetOverride(k) PROVE PolicyTypes'
  BY <1>7, OverrideTypes
<1>8. ASSUME NEW k \in Alarms, Mute(k) \/ Unmute(k) PROVE PolicyTypes'
  BY <1>8, MuteTypes
<1>9. CASE UpdateHardwareSettings
  BY <1>9, HardwareTypes
<1>10. CASE UNCHANGED vars
  <2>1. Streams'
    BY <1>10, TypesInParts DEF vars, Streams
  <2>2. Switches'
    BY <1>10, TypesInParts DEF vars, Switches
  <2>3. UNCHANGED <<held, heldLost, vibId, vibLost>>
    BY <1>10 DEF vars
  <2>4. QED
    BY <2>1, <2>2, <2>3, TimersAlone
<1>11. QED
  BY <1>1, <1>2, <1>3, <1>4, <1>5, <1>6, <1>7, <1>8, <1>9, <1>10
     DEF Next, NextStream, NextTimer, NextRequest

\* The initial states.
LEMMA PolicyInitially == Init => PolicyInv
<1> SUFFICES ASSUME Init PROVE PolicyInv
  OBVIOUS
<1>1. Switches /\ Streams
  BY DEF Init, Switches, Streams, Volumes
<1>2. heldLost \in [Alarms -> Nat] /\ vibLost \in [Alarms -> Nat] /\ vibId \in [Alarms -> Ids]
  BY DEF Init, Ids
<1>3. held = {} /\ PendingIds(vibId) = {}
  BY DEF Init, PendingIds
<1>4. /\ heldLost[ealarm] = 0 /\ heldLost[etimer] = 0
      /\ vibLost[ealarm] = 0 /\ vibLost[etimer] = 0
  BY DEF Init, Alarms
<1>5. \A s : Member(s, {}) = 0
  BY DEF Member
<1>6. Pending(held, heldLost) = 0 /\ Pending(PendingIds(vibId), vibLost) = 0
  BY <1>3, <1>4, <1>5 DEF Pending
<1>7. PolicyTypes
  BY <1>1, <1>2, <1>3, <1>6, TypesInParts, AlarmPolicyAssumption
     DEF MediaTimers, VibrateTimers
<1>8. QED
  BY <1>7 DEF Init, PolicyInv, AlarmFollowsPolicy, VibrationIsStopped

-----------------------------------------------------------------------------
(* Alarms and timers follow the policy.                                    *)

Follows(k) ==
  \/ vol[k] = Wanted(k, playing, ringerOn, override, dnd, muted)
  \/ k = etimer /\ late

\* What an alarm should sound like depends on no other alarm, and that of ealarm
\* not on do not disturb.
LEMMA WantedOfOne ==
  ASSUME NEW k \in Alarms, NEW pl, NEW pl2, NEW ring, NEW over, NEW quiet, NEW quiet2,
         NEW mute, NEW mute2,
         k \in pl <=> k \in pl2, k \in mute <=> k \in mute2,
         k = etimer => quiet = quiet2
  PROVE  Wanted(k, pl, ring, over, quiet, mute) = Wanted(k, pl2, ring, over, quiet2, mute2)
BY SinksDiffer DEF Wanted, AlarmVolume, TimerVolume, Alarms

\* An alarm that a step does not concern goes on as it should.
LEMMA FollowsStill ==
  ASSUME AlarmFollowsPolicy, NEW k \in Alarms, k \in playing, k \in playing',
         vol'[k] = vol[k], UNCHANGED <<ringerOn, override, dnd>>,
         k \in muted' <=> k \in muted, k = etimer => late' = late
  PROVE  Follows(k)'
<1>1. Follows(k)
  BY DEF AlarmFollowsPolicy, Follows
<1>2. PICK pl, pl2, mute, mute2 :
        pl = playing /\ pl2 = playing' /\ mute = muted /\ mute2 = muted'
  OBVIOUS
<1>3. Wanted(k, pl, ringerOn, override, dnd, mute)
        = Wanted(k, pl2, ringerOn, override, dnd, mute2)
  <2>1. (k \in pl <=> k \in pl2) /\ (k \in mute <=> k \in mute2)
    BY <1>2
  <2>2. PICK ring, over, quiet : ring = ringerOn /\ over = override /\ quiet = dnd
    OBVIOUS
  <2>3. Wanted(k, pl, ring, over, quiet, mute) = Wanted(k, pl2, ring, over, quiet, mute2)
    BY <2>1, WantedOfOne
  <2>4. QED
    BY <2>2, <2>3
<1>4. Follows(k)' <=> \/ vol'[k] = Wanted(k, pl2, ringerOn, override, dnd, mute2)
                      \/ k = etimer /\ late'
  BY <1>2 DEF Follows
<1>5. Follows(k) <=> \/ vol[k] = Wanted(k, pl, ringerOn, override, dnd, mute)
                     \/ k = etimer /\ late
  BY <1>2 DEF Follows
<1>6. QED
  BY <1>1, <1>3, <1>4, <1>5

\* The invariant is that every alarm that plays follows, one by one.
LEMMA FollowsAll ==
  AlarmFollowsPolicy <=> \A k \in Alarms \cap playing : Follows(k)
BY DEF AlarmFollowsPolicy, Follows

\* The same of the next state.
LEMMA FollowsAllNext ==
  (\A k \in Alarms \cap playing : Follows(k))' => AlarmFollowsPolicy'
BY FollowsAll, PTL

\* Programming the mixer gives every alarm the volume it should have.
LEMMA MixerFollows ==
  ASSUME Streams, NEW v,
         ProgramSoftwareMixer(v, ringerOn', override', dnd'),
         UNCHANGED <<playing, muted>>
  PROVE  AlarmFollowsPolicy'
<1>1. DOMAIN vol = Alarms \cup {emedia}
  BY DEF Streams
<1>2. vol' = [s \in DOMAIN vol |->
                IF s = emedia THEN MediaVolume(playing, v)
                ELSE Wanted(s, playing, ringerOn', override', dnd', muted)]
  BY DEF ProgramSoftwareMixer
<1>3. ASSUME NEW k \in Alarms PROVE Follows(k)'
  <2>1. k # emedia
    BY SinksDiffer DEF Alarms
  <2>2. vol'[k] = Wanted(k, playing, ringerOn', override', dnd', muted)
    BY <1>1, <1>2, <2>1
  <2>3. vol'[k] = Wanted(k, playing', ringerOn', override', dnd', muted')
    BY <2>2
  <2>4. QED
    BY <2>3 DEF Follows
<1>4. (\A k \in Alarms \cap playing : Follows(k))'
  BY <1>3
<1>5. QED
  BY <1>4, FollowsAllNext

\* A stream opens on an alarm's sink.
LEMMA OpenFollows ==
  ASSUME PolicyTypes, AlarmFollowsPolicy, NEW k \in Alarms, FirstStreamOpened(k),
         k = ealarm => late' = late
  PROVE  AlarmFollowsPolicy'
<1>1. PICK pl : pl = playing \cup {k}
  OBVIOUS
<1>2. PICK x \in Volumes : x = Wanted(k, pl, ringerOn, override, dnd, muted)
  BY WantedType
<1>3. /\ playing' = pl /\ UNCHANGED <<switchVars, muted>>
      /\ vol' = [[vol EXCEPT ![k] = x] EXCEPT ![emedia] = Silent]
  BY <1>1, <1>2 DEF FirstStreamOpened, MediaHearsAlarm
<1>4. DOMAIN vol = Alarms \cup {emedia}
  BY TypesInParts DEF Streams
<1>5. /\ vol'[k] = x
      /\ \A j \in Alarms : j # k => vol'[j] = vol[j]
  <2>1. \A j \in Alarms : j # emedia
    BY SinksDiffer DEF Alarms
  <2>2. QED
    BY <1>3, <1>4, <2>1
<1>6. ASSUME NEW j \in Alarms, j \in playing' PROVE Follows(j)'
  <2>1. CASE j = k
    <3>1. vol'[j] = Wanted(j, playing', ringerOn', override', dnd', muted')
      BY <1>2, <1>3, <1>5, <2>1 DEF switchVars
    <3>2. QED
      BY <3>1 DEF Follows
  <2>2. CASE j # k
    <3>1. j = etimer => k = ealarm
      BY <2>2 DEF Alarms
    <3>2. j \in playing /\ vol'[j] = vol[j] /\ UNCHANGED <<ringerOn, override, dnd>>
      BY <1>1, <1>3, <1>5, <1>6, <2>2 DEF switchVars
    <3>3. QED
      BY <1>3, <1>6, <3>1, <3>2, FollowsStill
  <2>3. QED
    BY <2>1, <2>2
<1>7. (\A j \in Alarms \cap playing : Follows(j))'
  BY <1>6
<1>8. QED
  BY <1>7, FollowsAllNext

\* A step that may unmute k, and programs its volume if it does.
LEMMA UnmuteFollows ==
  ASSUME PolicyTypes, AlarmFollowsPolicy, NEW k \in Alarms,
         playing' \subseteq playing, UNCHANGED switchVars,
         muted' = muted \/ muted' = muted \ {k},
         \A j \in Alarms : vol'[j] = AfterUnmute(k, playing')[j],
         late' = StillLate(k)
  PROVE  AlarmFollowsPolicy'
<1>1. vol \in [Alarms \cup {emedia} -> Volumes] /\ late \in BOOLEAN
  BY TypesInParts DEF Streams
<1>2. UNCHANGED <<ringerOn, override, dnd>>
  BY DEF switchVars
<1>3. ASSUME NEW j \in Alarms, j \in playing' PROVE Follows(j)'
  <2>1. j \in playing
    BY <1>3
  <2>2. CASE muted' = muted
    <3>1. vol'[j] = vol[j]
      BY <2>2 DEF AfterUnmute
    <3>2. late' = late
      BY <1>1, <2>2 DEF StillLate
    <3>3. QED
      BY <1>2, <1>3, <2>1, <2>2, <3>1, <3>2, FollowsStill
  <2>3. CASE muted' # muted /\ j = k
    <3>1. PICK x \in Volumes :
            x = Wanted(k, playing', ringerOn, override, dnd, muted')
      BY WantedType
    <3>2. AfterUnmute(k, playing') = [vol EXCEPT ![k] = x]
      BY <2>3, <3>1 DEF AfterUnmute
    <3>3. vol'[j] = x
      BY <1>1, <2>3, <3>2
    <3>4. vol'[j] = Wanted(j, playing', ringerOn', override', dnd', muted')
      BY <1>2, <2>3, <3>1, <3>3
    <3>5. QED
      BY <3>4 DEF Follows
  <2>4. CASE muted' # muted /\ j # k
    <3>1. vol'[j] = vol[j]
      BY <1>1, <2>4 DEF AfterUnmute
    <3>2. j = etimer => late' = late
      BY <1>1, <2>4 DEF StillLate, Alarms
    <3>3. j \in muted' <=> j \in muted
      BY <2>4
    <3>4. QED
      BY <1>2, <1>3, <2>1, <3>1, <3>2, <3>3, FollowsStill
  <2>5. QED
    BY <2>2, <2>3, <2>4
<1>4. (\A j \in Alarms \cap playing : Follows(j))'
  BY <1>3
<1>5. QED
  BY <1>4, FollowsAllNext

\* StopVibrating unmutes k or no alarm.
LEMMA StopMutes ==
  ASSUME NEW k, NEW id, NEW lost, NEW pl, StopVibrating(k, id, lost, pl)
  PROVE  muted' = muted \/ muted' = muted \ {k}
BY DEF StopVibrating

\* A timer that expires, or the mute taken back, programs the volume anew.
LEMMA TimeoutFollows ==
  ASSUME PolicyTypes, AlarmFollowsPolicy, NEW k \in Alarms,
         VibrateTimeout(k) \/ Unmute(k)
  PROVE  AlarmFollowsPolicy'
<1>1. /\ playing' = playing /\ UNCHANGED switchVars
      /\ vol' = AfterUnmute(k, playing) /\ late' = StillLate(k)
  BY DEF VibrateTimeout, Unmute
<1>2. muted' = muted \/ muted' = muted \ {k}
  <2>1. CASE VibrateTimeout(k)
    <3>1. PICK id, lost, pl : StopVibrating(k, id, lost, pl)
      <4>1. PICK one, less, pl : one = vibId[k] /\ less = vibLost[k] - 1 /\ pl = playing
        OBVIOUS
      <4>2. StopVibrating(k, one, less, pl) \/ StopVibrating(k, "expired", 0, pl)
        BY <2>1, <4>1 DEF VibrateTimeout
      <4>3. QED
        BY <4>2
    <3>2. QED
      BY <3>1, StopMutes
  <2>2. CASE Unmute(k)
    BY <2>2 DEF Unmute
  <2>3. QED
    BY <2>1, <2>2
<1>3. \A j \in Alarms : vol'[j] = AfterUnmute(k, playing')[j]
  BY <1>1
<1>4. playing' \subseteq playing
  BY <1>1
<1>5. QED
  BY <1>1, <1>2, <1>3, <1>4, UnmuteFollows

\* The last stream of an alarm closes: what plays on is programmed again.
LEMMA CloseFollows ==
  ASSUME PolicyTypes, AlarmFollowsPolicy, NEW k \in Alarms, LastStreamClosed(k)
  PROVE  AlarmFollowsPolicy'
<1>1. PICK pl : pl = playing \ {k}
  OBVIOUS
<1>2. PICK v \in [Alarms \cup {emedia} -> Volumes] : v = AfterUnmute(k, pl)
  BY AfterUnmuteType
<1>3. /\ playing' = pl /\ UNCHANGED switchVars /\ late' = StillLate(k)
      /\ muted' = muted \/ muted' = muted \ {k}
  <2>1. PICK id, lost : StopVibrating(k, id, lost, pl)
    <3>1. PICK id, lost : id = vibId[k] /\ lost = vibLost[k]
      OBVIOUS
    <3>2. QED
      BY <1>1, <3>1 DEF LastStreamClosed
  <2>2. QED
    BY <1>1, <2>1, StopMutes DEF LastStreamClosed
<1>4. vol' = v \/ \E x : vol' = [v EXCEPT ![emedia] = x]
  BY <1>1, <1>2 DEF LastStreamClosed, MediaHearsNoAlarm
<1>5. \A j \in Alarms : j # emedia
  BY SinksDiffer DEF Alarms
<1>6. \A j \in Alarms : vol'[j] = v[j]
  BY <1>4, <1>5
<1>7. \A j \in Alarms : vol'[j] = AfterUnmute(k, playing')[j]
  BY <1>2, <1>3, <1>6
<1>8. playing' \subseteq playing
  BY <1>1, <1>3
<1>9. QED
  BY <1>3, <1>7, <1>8, UnmuteFollows

\* A step that touches no alarm's volume, nor what it depends on.
LEMMA OthersFollow ==
  ASSUME AlarmFollowsPolicy, \A j \in Alarms : vol'[j] = vol[j],
         \A j \in Alarms : j \in playing' => j \in playing,
         UNCHANGED <<ringerOn, override, dnd, muted, late>>
  PROVE  AlarmFollowsPolicy'
<1>1. ASSUME NEW j \in Alarms, j \in playing' PROVE Follows(j)'
  BY <1>1, FollowsStill
<1>2. (\A j \in Alarms \cap playing : Follows(j))'
  BY <1>1
<1>3. QED
  BY <1>2, FollowsAllNext

\* Media and alerts do so, and so does a timer of media.
LEMMA MediaFollows ==
  ASSUME PolicyTypes, AlarmFollowsPolicy,
         MediaOpens \/ MediaCloses \/ AlertOpens \/ AlertCloses
           \/ (\E k \in Alarms : MediaTimeout(k)) \/ UNCHANGED vars
  PROVE  AlarmFollowsPolicy'
<1>1. vol \in [Alarms \cup {emedia} -> Volumes]
  BY TypesInParts DEF Streams
<1>2. vol' = vol \/ \E x : vol' = [vol EXCEPT ![emedia] = x]
  BY DEF MediaOpens, MediaCloses, AlertOpens, AlertCloses, MediaTimeout,
         MediaHearsNoAlarm, vars
<1>3. \A j \in Alarms : j # emedia /\ j # ealerts
  BY SinksDiffer DEF Alarms
<1>4. \A j \in Alarms : vol'[j] = vol[j]
  BY <1>1, <1>2, <1>3
<1>5. \A j \in Alarms : j \in playing' => j \in playing
  BY <1>3 DEF MediaOpens, MediaCloses, AlertOpens, AlertCloses, MediaTimeout, vars
<1>6. UNCHANGED <<ringerOn, override, dnd, muted, late>>
  BY DEF MediaOpens, MediaCloses, AlertOpens, AlertCloses, MediaTimeout, switchVars, vars
<1>7. QED
  BY <1>4, <1>5, <1>6, OthersFollow

\* The ringer or do not disturb: without a change of the ringer, only a timer
\* may be late.
LEMMA SwitchFollows ==
  ASSUME PolicyTypes, AlarmFollowsPolicy, SetRingerOn \/ SetDndMode
  PROVE  AlarmFollowsPolicy'
<1>1. Streams /\ Switches
  BY TypesInParts
<1>2. UNCHANGED <<playing, override, muted>>
  BY DEF SetRingerOn, SetDndMode
<1>3. SwitchRinger(ringerOn', dnd')
  BY DEF SetRingerOn, SetDndMode, SwitchRinger
<1>4. CASE ringerOn' # ringerOn
  <2>1. PICK v : v = vol
    OBVIOUS
  <2>2. ProgramSoftwareMixer(v, ringerOn', override', dnd')
    BY <1>2, <1>3, <1>4, <2>1 DEF SwitchRinger
  <2>3. QED
    BY <1>1, <1>2, <2>2, MixerFollows
<1>5. CASE ringerOn' = ringerOn
  <2>1. vol' = vol /\ (late' <=> (late \/ dnd' # dnd))
    BY <1>3, <1>5 DEF SwitchRinger
  <2>2. ASSUME NEW k \in Alarms, k \in playing PROVE Follows(k)'
    <3>1. CASE k = etimer /\ late'
      BY <3>1 DEF Follows
    <3>2. CASE ~(k = etimer /\ late')
      <4>1. vol[k] = Wanted(k, playing, ringerOn, override, dnd, muted)
        BY <2>1, <2>2, <3>2 DEF AlarmFollowsPolicy
      <4>2. k = etimer => dnd = dnd'
        BY <2>1, <3>2
      <4>3. PICK pl, ring, over, quiet, quiet2, mute :
              /\ pl = playing /\ ring = ringerOn /\ over = override
              /\ quiet = dnd /\ quiet2 = dnd' /\ mute = muted
        OBVIOUS
      <4>4. Wanted(k, pl, ring, over, quiet, mute) = Wanted(k, pl, ring, over, quiet2, mute)
        BY <4>2, <4>3, WantedOfOne
      <4>5. vol'[k] = Wanted(k, playing', ringerOn', override', dnd', muted')
        BY <1>2, <1>5, <2>1, <4>1, <4>3, <4>4
      <4>6. QED
        BY <4>5 DEF Follows
    <3>3. QED
      BY <3>1, <3>2
  <2>3. (\A k \in Alarms \cap playing : Follows(k))'
    BY <1>2, <2>2
  <2>4. QED
    BY <2>3, FollowsAllNext
<1>6. QED
  BY <1>4, <1>5

\* An override, or a device that comes or goes: all is programmed again.
LEMMA ProgramFollows ==
  ASSUME PolicyTypes, AlarmFollowsPolicy,
         UpdateHardwareSettings \/ \E k \in Overridable : SetOverride(k)
  PROVE  AlarmFollowsPolicy'
<1>1. Streams
  BY TypesInParts
<1>2. UNCHANGED <<playing, muted, ringerOn, dnd>>
  BY DEF UpdateHardwareSettings, SetOverride, switchVars
<1>3. PICK v : ProgramSoftwareMixer(v, ringerOn', override', dnd')
  <2>1. PICK v, w : v = vol /\ w = [s \in DOMAIN vol |-> Silent]
    OBVIOUS
  <2>2. CASE UpdateHardwareSettings
    <3>1. ProgramSoftwareMixer(w, ringerOn, override, dnd)
      BY <2>1, <2>2 DEF UpdateHardwareSettings
    <3>2. override' = override
      BY <2>2 DEF UpdateHardwareSettings, switchVars
    <3>3. QED
      BY <1>2, <3>1, <3>2
  <2>3. CASE \E k \in Overridable : SetOverride(k)
    <3>1. ProgramSoftwareMixer(v, ringerOn, override', dnd)
      BY <2>1, <2>3 DEF SetOverride
    <3>2. QED
      BY <1>2, <3>1
  <2>4. QED
    BY <2>2, <2>3
<1>4. QED
  BY <1>1, <1>2, <1>3, MixerFollows

\* The mute button silences the alarm at once.
LEMMA MuteFollows ==
  ASSUME PolicyTypes, AlarmFollowsPolicy, NEW k \in Alarms, Mute(k)
  PROVE  AlarmFollowsPolicy'
<1>1. vol \in [Alarms \cup {emedia} -> Volumes] /\ late \in BOOLEAN
  BY TypesInParts DEF Streams
<1>2. playing' = playing /\ UNCHANGED <<ringerOn, override, dnd>>
  BY DEF Mute, switchVars
<1>3. CASE k \in playing \cup muted
  <2>1. /\ muted' = muted \cup {k}
        /\ vol' = [vol EXCEPT ![k] = Silent]
        /\ late' = (late /\ k = ealarm)
    BY <1>3 DEF Mute
  <2>2. ASSUME NEW j \in Alarms, j \in playing' PROVE Follows(j)'
    <3>1. CASE j = k
      <4>1. vol'[j] = Silent /\ j \in muted'
        BY <1>1, <2>1, <3>1
      <4>2. Wanted(j, playing', ringerOn', override', dnd', muted') = Silent
        BY <4>1 DEF Wanted, AlarmVolume, TimerVolume, Alarms
      <4>3. QED
        BY <4>1, <4>2 DEF Follows
    <3>2. CASE j # k
      <4>1. vol'[j] = vol[j] /\ (j \in muted' <=> j \in muted)
        BY <1>1, <2>1, <3>2
      <4>2. j = etimer => late' = late
        BY <1>1, <2>1, <3>2 DEF Alarms
      <4>3. QED
        BY <1>2, <2>2, <4>1, <4>2, FollowsStill
    <3>3. QED
      BY <3>1, <3>2
  <2>3. (\A j \in Alarms \cap playing : Follows(j))'
    BY <2>2
  <2>4. QED
    BY <2>3, FollowsAllNext
<1>4. CASE k \notin playing \cup muted
  BY <1>2, <1>4, OthersFollow DEF Mute
<1>5. QED
  BY <1>3, <1>4

\* Whatever the order of streams, switches and timers.
LEMMA FollowsStep ==
  PolicyTypes /\ AlarmFollowsPolicy /\ [Next]_vars => AlarmFollowsPolicy'
<1> SUFFICES ASSUME PolicyTypes, AlarmFollowsPolicy, [Next]_vars
             PROVE  AlarmFollowsPolicy'
  OBVIOUS
<1>1. CASE AlarmOpens \/ TimerOpens
  BY <1>1, OpenFollows, SinksDiffer DEF AlarmOpens, TimerOpens, Alarms
<1>2. ASSUME NEW k \in Alarms, LastStreamClosed(k) PROVE AlarmFollowsPolicy'
  BY <1>2, CloseFollows
<1>3. CASE MediaOpens \/ MediaCloses \/ AlertOpens \/ AlertCloses
  BY <1>3, MediaFollows
<1>4. ASSUME NEW k \in Alarms, VibrateTimeout(k) \/ MediaTimeout(k)
      PROVE  AlarmFollowsPolicy'
  BY <1>4, TimeoutFollows, MediaFollows
<1>5. CASE SetRingerOn \/ SetDndMode
  BY <1>5, SwitchFollows
<1>6. CASE UpdateHardwareSettings \/ \E k \in Overridable : SetOverride(k)
  BY <1>6, ProgramFollows
<1>7. ASSUME NEW k \in Alarms, Mute(k) \/ Unmute(k) PROVE AlarmFollowsPolicy'
  BY <1>7, MuteFollows, TimeoutFollows
<1>8. CASE UNCHANGED vars
  BY <1>8, MediaFollows
<1>9. QED
  BY <1>1, <1>2, <1>3, <1>4, <1>5, <1>6, <1>7, <1>8
     DEF Next, NextStream, NextTimer, NextRequest

-----------------------------------------------------------------------------
(* The vibration is stopped, or will be.                                   *)

\* What plays that vibrates, and the timers that will stop it.
LEMMA VibrationCases ==
  VibrationIsStopped <=>
    (vibrating => \/ ealarm \in playing \/ etimer \in playing \/ ealerts \in playing
                  \/ \E k \in Alarms : VibrationWaits(k))
BY DEF VibrationIsStopped, Alarms

\* The same of the next state.
LEMMA VibrationCasesNext ==
  (vibrating => \/ ealarm \in playing \/ etimer \in playing \/ ealerts \in playing
                \/ \E k \in Alarms : VibrationWaits(k))' => VibrationIsStopped'
BY VibrationCases, PTL

\* The timer's handler ends the vibration, waits again, or finds an alarm.
LEMMA StopEndsOrWaits ==
  ASSUME PolicyTypes, NEW k \in Alarms, NEW id, NEW lost, NEW pl,
         StopVibrating(k, id, lost, pl)
  PROVE  \/ vibrating' = FALSE
         \/ VibrationWaits(k)'
         \/ ealarm \in pl
<1>1. vibId \in [Alarms -> Ids]
  BY TypesInParts DEF VibrateTimers
<1>2. CASE id = "none"
  <2>1. vibId'[k] = "pending"
    BY <1>1, <1>2 DEF StopVibrating
  <2>2. QED
    BY <2>1 DEF VibrationWaits
<1>3. CASE id # "none" /\ ReallyClosed(pl)
  BY <1>3 DEF StopVibrating
<1>4. CASE id # "none" /\ ~ReallyClosed(pl)
  BY <1>4 DEF ReallyClosed
<1>5. QED
  BY <1>2, <1>3, <1>4

\* A step of a module that leaves the device and its timers as they are.
LEMMA VibrationStays ==
  ASSUME VibrationIsStopped, vibrating' => vibrating, UNCHANGED <<vibId, vibLost>>,
         playing \cap (Alarms \cup {ealerts}) \subseteq playing'
  PROVE  VibrationIsStopped'
<1>1. \A k \in Alarms : VibrationWaits(k)' <=> VibrationWaits(k)
  BY DEF VibrationWaits
<1>2. ealarm \in Alarms /\ etimer \in Alarms
  BY DEF Alarms
<1>3. (vibrating => \/ ealarm \in playing \/ etimer \in playing \/ ealerts \in playing
                    \/ \E k \in Alarms : VibrationWaits(k))'
  BY <1>1, <1>2, VibrationCases
<1>4. QED
  BY <1>3, VibrationCasesNext

\* Whatever vibrates, the step leaves a reason for it, or a timer.
LEMMA VibrationStep ==
  PolicyTypes /\ VibrationIsStopped /\ [Next]_vars => VibrationIsStopped'
<1> SUFFICES ASSUME PolicyTypes, VibrationIsStopped, [Next]_vars
             PROVE  VibrationIsStopped'
  OBVIOUS
<1> DEFINE reason == \/ ealarm \in playing \/ etimer \in playing \/ ealerts \in playing
                     \/ \E k \in Alarms : VibrationWaits(k)
<1>1. ASSUME (vibrating => reason)' PROVE VibrationIsStopped'
  BY <1>1, VibrationCasesNext
<1>2. CASE AlarmOpens \/ TimerOpens
  <2>1. reason'
    BY <1>2 DEF AlarmOpens, TimerOpens, FirstStreamOpened
  <2>2. QED
    BY <1>1, <2>1
<1>3. ASSUME NEW k \in Alarms, LastStreamClosed(k) PROVE VibrationIsStopped'
  <2>1. PICK id, lost, pl : id = vibId[k] /\ lost = vibLost[k] /\ pl = playing \ {k}
    OBVIOUS
  <2>2. StopVibrating(k, id, lost, pl) /\ playing' = pl
    BY <1>3, <2>1 DEF LastStreamClosed
  <2>3. vibrating' = FALSE \/ VibrationWaits(k)' \/ ealarm \in playing'
    BY <2>2, StopEndsOrWaits
  <2>4. (vibrating => reason)'
    BY <2>3
  <2>5. QED
    BY <1>1, <2>4
<1>4. ASSUME NEW k \in Alarms, VibrateTimeout(k) PROVE VibrationIsStopped'
  <2>1. PICK id, lost, pl : StopVibrating(k, id, lost, pl) /\ pl = playing
    <3>1. PICK one, less, pl : one = vibId[k] /\ less = vibLost[k] - 1 /\ pl = playing
      OBVIOUS
    <3>2. StopVibrating(k, one, less, pl) \/ StopVibrating(k, "expired", 0, pl)
      BY <1>4, <3>1 DEF VibrateTimeout
    <3>3. QED
      BY <3>1, <3>2
  <2>2. playing' = playing
    BY <1>4 DEF VibrateTimeout
  <2>3. vibrating' = FALSE \/ VibrationWaits(k)' \/ ealarm \in playing'
    BY <2>1, <2>2, StopEndsOrWaits
  <2>4. (vibrating => reason)'
    BY <2>3
  <2>5. QED
    BY <1>1, <2>4
<1>5. CASE AlertOpens
  <2>1. reason'
    BY <1>5 DEF AlertOpens
  <2>2. QED
    BY <1>1, <2>1
<1>6. CASE AlertCloses
  <2>1. vibrating' => ealarm \in playing'
    BY <1>6 DEF AlertCloses
  <2>2. (vibrating => reason)'
    BY <2>1
  <2>3. QED
    BY <1>1, <2>2
<1>7. ASSUME NEW k \in Alarms, Mute(k) PROVE VibrationIsStopped'
  <2>1. (vibrating => reason)'
    BY <1>7 DEF Mute
  <2>2. QED
    BY <1>1, <2>1
<1>8. CASE MediaOpens \/ MediaCloses
  <2>1. playing \cap (Alarms \cup {ealerts}) \subseteq playing'
    BY <1>8, SinksDiffer DEF MediaOpens, MediaCloses, Alarms
  <2>2. UNCHANGED <<vibrating, vibId, vibLost>>
    BY <1>8 DEF MediaOpens, MediaCloses, vibVars
  <2>3. QED
    BY <2>1, <2>2, VibrationStays
<1>9. ASSUME \/ \E k \in Alarms : MediaTimeout(k) \/ Unmute(k)
             \/ SetRingerOn \/ SetDndMode \/ UpdateHardwareSettings \/ UNCHANGED vars
             \/ \E k \in Overridable : SetOverride(k)
      PROVE  VibrationIsStopped'
  <2>1. UNCHANGED <<playing, vibrating, vibId, vibLost>>
    BY <1>9 DEF MediaTimeout, Unmute, SetRingerOn, SetDndMode, UpdateHardwareSettings,
                SetOverride, vars, vibVars
  <2>2. QED
    BY <2>1, VibrationStays
<1>10. QED
  BY <1>2, <1>3, <1>4, <1>5, <1>6, <1>7, <1>8, <1>9
     DEF Next, NextStream, NextTimer, NextRequest

-----------------------------------------------------------------------------
(* The theorems.                                                           *)

\* The three together are inductive.
LEMMA PolicyAlways == Spec => []PolicyInv
<1>1. PolicyInv /\ [Next]_vars => PolicyInv'
  BY TypesStep, FollowsStep, VibrationStep DEF PolicyInv
<1>2. QED
  BY <1>1, PolicyInitially, PTL DEF Spec

\* The variables keep their types and the timers lost never exceed the bound:
\* only a stream that closes adds to the timers pending.
THEOREM PolicyTypesAlways == Spec => []TypeOK
<1>1. PolicyInv => TypeOK
  BY DEF PolicyInv, PolicyTypes
<1>2. QED
  BY <1>1, PolicyAlways, PTL

\* The bounds of the model are never passed by a timer that expires.
THEOREM TimersStayBounded ==
  Spec => [](MediaPending <= MaxPending /\ VibratePending <= MaxPending)
<1>1. PolicyInv => MediaPending <= MaxPending /\ VibratePending <= MaxPending
  BY CountsPending DEF PolicyInv, PolicyTypes
<1>2. QED
  BY <1>1, PolicyAlways, PTL

\* An alarm is heard exactly when the ringer or its override allows it and it is
\* not muted, a timer besides only out of do not disturb, unless that has just
\* changed and nothing has been programmed since.
THEOREM AlarmsAlwaysFollow == Spec => []AlarmFollowsPolicy
<1>1. PolicyInv => AlarmFollowsPolicy
  BY DEF PolicyInv
<1>2. QED
  BY <1>1, PolicyAlways, PTL

\* The device never vibrates without something that plays or a timer to stop it.
THEOREM VibrationAlwaysStopped == Spec => []VibrationIsStopped
<1>1. PolicyInv => VibrationIsStopped
  BY DEF PolicyInv
<1>2. QED
  BY <1>1, PolicyAlways, PTL

-----------------------------------------------------------------------------
(* Media comes back: a timer is pending while it does not play in full.    *)

TimerPending == held # {} \/ \E k \in Alarms : heldLost[k] > 0

MediaAlone == playing = {emedia}

SomebodyWillTurnUp == MediaAlone /\ vol[emedia] # Full => TimerPending

\* Media that plays alone is not ducked, whatever the volumes were.
LEMMA AloneInFull ==
  ASSUME NEW v
  PROVE  MediaVolume({emedia}, v) = Full
<1>1. ealerts \notin {emedia} /\ ealarm \notin {emedia}
  BY SinksDiffer
<1>2. ~SomeAlertIsPlaying({emedia}, v)
  BY <1>1 DEF SomeAlertIsPlaying
<1>3. QED
  BY <1>2 DEF MediaVolume

LEMMA AloneHasNoPriority ==
  ASSUME NEW v
  PROVE  ~SomeAlertIsPlaying({emedia}, v)
<1>1. ealerts \notin {emedia} /\ ealarm \notin {emedia}
  BY SinksDiffer
<1>2. QED
  BY <1>1 DEF SomeAlertIsPlaying

\* The last stream of an alarm: media is turned up, or the timer is armed.
LEMMA NoAlarmTurnsUp ==
  ASSUME NEW k \in Alarms, NEW ids, NEW pending, NEW lost, NEW v, NEW recording,
         vol \in [Alarms \cup {emedia} -> {Silent, Ducked, Full}],
         v \in [Alarms \cup {emedia} -> {Silent, Ducked, Full}],
         MediaHearsNoAlarm(k, ids, pending, lost, {emedia}, v, recording)
  PROVE  held' # {} \/ vol'[emedia] = Full
<1>1. CASE k \notin ids
  <2>1. held' = ids \cup {k}
    BY <1>1 DEF MediaHearsNoAlarm
  <2>2. QED
    BY <2>1
<1>2. CASE k \in ids
  <2>1. vol' = [v EXCEPT ![emedia] = MediaVolume({emedia}, v)]
    BY <1>2 DEF MediaHearsNoAlarm
  <2>2. vol'[emedia] = MediaVolume({emedia}, v)
    BY <2>1
  <2>3. QED
    BY <2>2, AloneInFull
<1>3. QED
  BY <1>1, <1>2

LEMMA TurnUpStep ==
  ASSUME PolicyTypes, PolicyTypes', SomebodyWillTurnUp, [Next]_vars
  PROVE  SomebodyWillTurnUp'
<1> SUFFICES ASSUME playing' = {emedia}, vol'[emedia] # Full
             PROVE  TimerPending'
  BY DEF SomebodyWillTurnUp, MediaAlone
<1> DEFINE V == [Alarms \cup {emedia} -> {Silent, Ducked, Full}]
<1>1. vol \in V /\ vol' \in V /\ emedia \notin Alarms
  BY SinksDiffer DEF PolicyTypes, TypeOK, Alarms
<1>2. CASE AlarmOpens \/ TimerOpens
  BY <1>1, <1>2, SinksDiffer DEF AlarmOpens, TimerOpens, FirstStreamOpened
<1>3. ASSUME NEW k \in Alarms, LastStreamClosed(k) PROVE TimerPending'
  <2>1. PICK ids, lost, pl, v, recording :
          /\ pl = playing \ {k} /\ v = AfterUnmute(k, pl)
          /\ MediaHearsNoAlarm(k, ids, ids, lost, pl, v, recording)
    <3>1. PICK pl, v, ids, lost :
            pl = playing \ {k} /\ v = AfterUnmute(k, pl) /\ ids = held /\ lost = heldLost
      OBVIOUS
    <3>2. PICK recording \in BOOLEAN :
            MediaHearsNoAlarm(k, ids, ids, lost, pl, v, recording)
      BY <1>3, <3>1 DEF LastStreamClosed
    <3>3. QED
      BY <3>1, <3>2
  <2>2. pl = {emedia}
    BY <1>3, <2>1 DEF LastStreamClosed
  <2>3. v \in V
    <3>1. CASE muted' = muted
      BY <1>1, <2>1, <3>1 DEF AfterUnmute
    <3>2. CASE muted' # muted
      <4>1. v = [vol EXCEPT ![k] = Wanted(k, pl, ringerOn, override, dnd, muted')]
        BY <2>1, <3>2 DEF AfterUnmute
      <4>2. Wanted(k, pl, ringerOn, override, dnd, muted') \in {Silent, Ducked, Full}
        BY DEF Wanted, AlarmVolume, TimerVolume
      <4>3. QED
        BY <1>1, <4>1, <4>2
    <3>3. QED
      BY <3>1, <3>2
  <2>4. held' # {}
    BY <1>1, <2>1, <2>2, <2>3, NoAlarmTurnsUp
  <2>5. QED
    BY <2>4 DEF TimerPending
<1>4. ASSUME NEW k \in Alarms, MediaTimeout(k) PROVE TimerPending'
  <2>1. playing = {emedia}
    BY <1>4 DEF MediaTimeout
  <2>2. PICK ids, pending, lost, v, recording :
          v = vol /\ MediaHearsNoAlarm(k, ids, pending, lost, {emedia}, v, recording)
    <3>1. PICK v, ids, less, rest, all : /\ v = vol /\ ids = held /\ all = heldLost
                                         /\ less = [heldLost EXCEPT ![k] = @ - 1]
                                         /\ rest = held \ {k}
      OBVIOUS
    <3>2. \/ \E recording \in BOOLEAN :
               MediaHearsNoAlarm(k, ids, ids, less, {emedia}, v, recording)
          \/ \E recording \in BOOLEAN :
               MediaHearsNoAlarm(k, ids, rest, all, {emedia}, v, recording)
      BY <1>4, <2>1, <3>1 DEF MediaTimeout
    <3>3. QED
      BY <3>1, <3>2
  <2>3. held' # {}
    BY <1>1, <2>2, NoAlarmTurnsUp
  <2>4. QED
    BY <2>3 DEF TimerPending
<1>5. CASE MediaOpens
  <2>1. PICK pl : pl = playing \cup {emedia} /\ pl = {emedia}
    BY <1>5 DEF MediaOpens
  <2>2. UpdatePriority(pl, vol)
    BY <1>5, <2>1 DEF MediaOpens
  <2>3. ~priority'
    BY <2>1, <2>2, AloneHasNoPriority DEF UpdatePriority
  <2>4. vol'[emedia] = MediaVolume(pl, vol)
    BY <1>1, <1>5, <2>1, <2>3 DEF MediaOpens
  <2>5. QED
    BY <2>1, <2>4, AloneInFull
<1>6. CASE AlertCloses
  <2>1. PICK pl : pl = playing \ {ealerts} /\ pl = {emedia}
    BY <1>6 DEF AlertCloses
  <2>2. vol'[emedia] = MediaVolume(pl, vol)
    BY <1>1, <1>6, <2>1 DEF AlertCloses
  <2>3. QED
    BY <2>1, <2>2, AloneInFull
<1>7. CASE MediaCloses \/ AlertOpens
  BY <1>7, SinksDiffer DEF MediaCloses, AlertOpens
<1>8. ASSUME UNCHANGED <<playing, held, heldLost>>, vol'[emedia] = vol[emedia]
      PROVE  TimerPending'
  BY <1>8 DEF SomebodyWillTurnUp, MediaAlone, TimerPending
<1>9. ASSUME NEW v, NEW ring, NEW over, NEW quiet, ProgramSoftwareMixer(v, ring, over, quiet),
             playing' = playing
      PROVE  TimerPending'
  <2>1. vol'[emedia] = MediaVolume(playing, v)
    BY <1>1, <1>9 DEF ProgramSoftwareMixer
  <2>2. QED
    BY <1>9, <2>1, AloneInFull
<1>10. ASSUME NEW k \in Alarms, VibrateTimeout(k) \/ Unmute(k) PROVE TimerPending'
  <2>1. vol' = AfterUnmute(k, playing) /\ UNCHANGED <<playing, held, heldLost>>
    BY <1>10 DEF VibrateTimeout, Unmute, mediaVars
  <2>2. k # emedia
    BY <1>1
  <2>3. vol'[emedia] = vol[emedia]
    BY <1>1, <2>1, <2>2 DEF AfterUnmute
  <2>4. QED
    BY <1>8, <2>1, <2>3
<1>11. ASSUME NEW k \in Alarms, Mute(k) PROVE TimerPending'
  <2>1. vol' = vol \/ vol' = [vol EXCEPT ![k] = Silent]
    BY <1>11 DEF Mute
  <2>2. k # emedia
    BY <1>1
  <2>3. vol'[emedia] = vol[emedia]
    BY <1>1, <2>1, <2>2
  <2>4. UNCHANGED <<playing, held, heldLost>>
    BY <1>11 DEF Mute, mediaVars
  <2>5. QED
    BY <1>8, <2>3, <2>4
<1>12. ASSUME NEW on, NEW quiet, SwitchRinger(on, quiet), UNCHANGED <<playing, mediaVars>>
       PROVE  TimerPending'
  <2>1. CASE on # ringerOn
    <3>1. PICK v, over : v = vol /\ over = override
      OBVIOUS
    <3>2. ProgramSoftwareMixer(v, on, over, quiet)
      BY <1>12, <2>1, <3>1 DEF SwitchRinger
    <3>3. QED
      BY <1>9, <1>12, <3>2
  <2>2. CASE on = ringerOn
    <3>1. vol' = vol
      BY <1>12, <2>2 DEF SwitchRinger
    <3>2. QED
      BY <1>8, <1>12, <3>1 DEF mediaVars
  <2>3. QED
    BY <2>1, <2>2
<1>13. CASE SetRingerOn \/ SetDndMode
  <2>1. PICK on, quiet : SwitchRinger(on, quiet)
    <3>1. PICK a, b, c, d : a = ~ringerOn /\ b = dnd /\ c = (dnd /\ prevRinger) /\ d = dnd'
      OBVIOUS
    <3>2. SwitchRinger(a, b) \/ SwitchRinger(c, d)
      BY <1>13, <3>1 DEF SetRingerOn, SetDndMode
    <3>3. QED
      BY <3>2
  <2>2. UNCHANGED <<playing, mediaVars>>
    BY <1>13 DEF SetRingerOn, SetDndMode
  <2>3. QED
    BY <1>12, <2>1, <2>2
<1>14. ASSUME NEW k \in Overridable, SetOverride(k) PROVE TimerPending'
  <2>1. PICK v, ring, over, quiet :
          v = vol /\ ring = ringerOn /\ over = override' /\ quiet = dnd
    OBVIOUS
  <2>2. ProgramSoftwareMixer(v, ring, over, quiet) /\ playing' = playing
    BY <1>14, <2>1 DEF SetOverride
  <2>3. QED
    BY <1>9, <2>2
<1>15. CASE UpdateHardwareSettings
  <2>1. PICK v, ring, over, quiet : /\ v = [s \in DOMAIN vol |-> Silent]
                                    /\ ring = ringerOn /\ over = override /\ quiet = dnd
    OBVIOUS
  <2>2. ProgramSoftwareMixer(v, ring, over, quiet) /\ playing' = playing
    BY <1>15, <2>1 DEF UpdateHardwareSettings
  <2>3. QED
    BY <1>9, <2>2
<1>16. CASE UNCHANGED vars
  BY <1>8, <1>16 DEF vars
<1>17. QED
  BY <1>2, <1>3, <1>4, <1>5, <1>6, <1>7, <1>10, <1>11, <1>13, <1>14, <1>15, <1>16
     DEF Next, NextStream, NextTimer, NextRequest

\* Media that plays alone and is muted or ducked has a timer pending that will turn
\* it up, whatever order the alarms, alerts, requests and lost timers came in: the
\* wake-up MediaComesBack waits for is never lost.
THEOREM MediaWillBeTurnedUp == Spec => []SomebodyWillTurnUp
<1>1. Init => SomebodyWillTurnUp
  BY DEF Init, SomebodyWillTurnUp, MediaAlone
<1>2. PolicyTypes /\ PolicyTypes' /\ SomebodyWillTurnUp /\ [Next]_vars => SomebodyWillTurnUp'
  BY TurnUpStep
<1>3. PolicyInv => PolicyTypes
  BY DEF PolicyInv
<1>4. QED
  BY <1>1, <1>2, <1>3, PolicyAlways, PTL DEF Spec
=============================================================================
