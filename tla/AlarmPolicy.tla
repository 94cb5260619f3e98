---------------------------- MODULE AlarmPolicy ----------------------------
(***************************************************************************)
(* What alarms, timers and alerts do to each other and to media: alarm.cpp,*)
(* timer.cpp, alert.cpp and media.cpp, while media has the focus, no call  *)
(* is active and media plays on a wired device.                            *)
(*                                                                         *)
(* A stream that opens or closes on a virtual sink is told to the module   *)
(* of the sink, then to media.  Closing an alarm is acted upon late: the   *)
(* alarm's module waits 300 ms before it stops vibrating and unmutes, and  *)
(* media waits 400 ms before it plays again, both by calling their own     *)
(* handler a second time from a timer of the main loop.  One variable per  *)
(* timer holds its id, and tells the first call from the second; a timer   *)
(* whose id was overwritten is still pending.                              *)
(***************************************************************************)
EXTENDS Integers, FiniteSets

CONSTANTS
  emedia,     \* the media sink
  ealarm,     \* the sink of alarm.cpp
  etimer,     \* the sink of timer.cpp
  ealerts,    \* the sink of alert.cpp
  Overridable, \* alarms whose override the user may change
  MaxPending  \* bound: timers pending at once, of media and of the alarms

Alarms == {ealarm, etimer}
Sinks == Alarms \cup {emedia, ealerts}

ASSUME AlarmPolicyAssumption ==
  /\ Cardinality({emedia, ealarm, etimer, ealerts}) = 4
  /\ Overridable \subseteq Alarms
  /\ MaxPending \in Nat

Silent == 0
Ducked == 1
Full == 2

VARIABLES
  playing,    \* mActiveStreams: sinks with an open stream
  ringerOn,   \* the ringer switch
  override,   \* mAlarmOn, mTimerOn: alarms that sound with the ringer off
  dnd,        \* the preference DndOn: do not disturb
  prevRinger, \* the preference PrevRingerOn, while dnd is on
  late,       \* history: dnd has changed since timers were last programmed
  muted,      \* mMuted (always equal to mAlarmMuted, mTimerMuted)
  vol,        \* mPulseStateVolume of media and of the alarms
  priority,   \* mPriorityToAlerts
  held,       \* alarmTimeoutSource, timerTimeoutSource: those that are set
  heldLost,   \* media's pending timers whose id was overwritten
  vibId,      \* alarmTimeout, timerTimeout of the alarms' modules
  vibLost,    \* their pending timers whose id was overwritten
  vibrating   \* isVibrating

switchVars == <<ringerOn, override, dnd, prevRinger>>
mediaVars == <<priority, held, heldLost>>
vibVars == <<vibId, vibLost, vibrating>>
vars == <<playing, ringerOn, override, dnd, prevRinger, late, muted, vol, priority, held, heldLost,
          vibId, vibLost, vibrating>>

TypeOK ==
  /\ playing \subseteq Sinks
  /\ ringerOn \in BOOLEAN
  /\ override \subseteq Overridable
  /\ {dnd, prevRinger, late} \subseteq BOOLEAN
  /\ muted \subseteq Alarms
  /\ vol \in [Alarms \cup {emedia} -> {Silent, Ducked, Full}]
  /\ priority \in BOOLEAN
  /\ held \subseteq Alarms
  /\ heldLost \in [Alarms -> 0 .. MaxPending]
  /\ vibId \in [Alarms -> {"none", "pending", "expired"}]
  /\ vibLost \in [Alarms -> 0 .. MaxPending]
  /\ vibrating \in BOOLEAN

Init ==
  /\ playing = {}
  /\ ringerOn \in BOOLEAN
  /\ override \in SUBSET Overridable
  /\ dnd = FALSE /\ prevRinger = FALSE /\ late = FALSE
  /\ muted = {}
  /\ vol = [s \in Alarms \cup {emedia} |-> Silent]
  /\ priority = FALSE
  /\ held = {}
  /\ heldLost = [k \in Alarms |-> 0]
  /\ vibId = [k \in Alarms |-> "none"]
  /\ vibLost = [k \in Alarms |-> 0]
  /\ vibrating = FALSE

-----------------------------------------------------------------------------
(* Volumes.                                                                *)

\* programAlarmVolumes
AlarmVolume(pl, ring, over, mute) ==
  IF ealarm \in pl /\ (ring \/ ealarm \in over) /\ ealarm \notin mute
  THEN Full ELSE Silent

\* programTimerVolumes: timers keep to do not disturb, alarms do not.
TimerVolume(pl, ring, over, quiet, mute) ==
  IF /\ etimer \in pl /\ (ring \/ etimer \in over) /\ etimer \notin mute
     /\ ~quiet
  THEN Full ELSE Silent

Wanted(k, pl, ring, over, quiet, mute) ==
  IF k = ealarm THEN AlarmVolume(pl, ring, over, mute)
  ELSE TimerVolume(pl, ring, over, quiet, mute)

\* someAlertIsPlaying: an open alert, an alarm that can be heard.
SomeAlertIsPlaying(pl, v) ==
  ealerts \in pl \/ (ealarm \in pl /\ v[ealarm] # Silent)

\* programMediaVolumes, when not asked to mute media.
MediaVolume(pl, v) ==
  IF emedia \notin pl THEN Silent
  ELSE IF SomeAlertIsPlaying(pl, v) THEN Ducked ELSE Full

\* programSoftwareMixer: media first, by the volumes of before, then alarms.
ProgramSoftwareMixer(v, ring, over, quiet) ==
  /\ vol' = [s \in DOMAIN vol |->
               IF s = emedia THEN MediaVolume(playing, v)
               ELSE Wanted(s, playing, ring, over, quiet, muted)]
  /\ late' = FALSE

-----------------------------------------------------------------------------
(* The alarms' modules.                                                    *)

\* alarm.cpp: the wait is over and no alarm has started again.  timer.cpp
\* asks the same question about ealarm.
ReallyClosed(pl) == ealarm \notin pl

\* A stream opens and vibration is possible (user settings, not on the dock,
\* no call) or not.  A pending wait is given up, and the device vibrates on;
\* an id whose timer has expired cannot be removed, and stays.
StartVibrating(k, possible) ==
  IF ~possible THEN UNCHANGED vibVars
  ELSE /\ vibId' = IF vibId[k] = "pending" THEN [vibId EXCEPT ![k] = "none"]
                   ELSE vibId
       /\ vibrating' = (vibrating \/ vibId[k] = "none")
       /\ UNCHANGED vibLost

\* Mutant: the second call unmutes and lets the device vibrate.
MutNotCancelled(k, id, lost, pl) ==
  IF id = "none"
  THEN /\ vibId' = [vibId EXCEPT ![k] = "pending"]
       /\ vibLost' = [vibLost EXCEPT ![k] = lost]
       /\ UNCHANGED <<vibrating, muted>>
  ELSE /\ vibId' = [vibId EXCEPT ![k] = IF ReallyClosed(pl) THEN "none" ELSE id]
       /\ vibLost' = [vibLost EXCEPT ![k] =
                        lost + IF id = "pending" /\ ReallyClosed(pl) THEN 1 ELSE 0]
       /\ muted' = IF ReallyClosed(pl) THEN muted \ {k} ELSE muted
       /\ UNCHANGED vibrating

\* LastStreamClosed with id in the variable and lost other timers pending:
\* the first call arms the timer, the second ends the vibration and unmutes.
\* The volume is programmed only if the module was muted.
StopVibrating(k, id, lost, pl) ==
  IF id = "none"
  THEN /\ vibId' = [vibId EXCEPT ![k] = "pending"]
       /\ vibLost' = [vibLost EXCEPT ![k] = lost]
       /\ UNCHANGED <<vibrating, muted>>
  ELSE IF ReallyClosed(pl)
  THEN /\ vibrating' = FALSE
       /\ muted' = muted \ {k}
       /\ vibId' = [vibId EXCEPT ![k] = "none"]
       /\ vibLost' = [vibLost EXCEPT ![k] = lost + IF id = "pending" THEN 1 ELSE 0]
  ELSE /\ vibId' = [vibId EXCEPT ![k] = id]
       /\ vibLost' = [vibLost EXCEPT ![k] = lost]
       /\ UNCHANGED <<vibrating, muted>>

\* Mutant: unmuting programs nothing.
MutNotProgrammed(k, pl) == vol

\* The volumes after StopVibrating.
AfterUnmute(k, pl) ==
  IF muted' = muted THEN vol
  ELSE [vol EXCEPT ![k] = Wanted(k, pl, ringerOn, override, dnd, muted')]

\* Whether that has programmed the timers.
StillLate(k) == late /\ ~(k = etimer /\ muted' # muted)

-----------------------------------------------------------------------------
(* Media.                                                                  *)

\* "the only time when priority between media & alerts is changed"
UpdatePriority(pl, v) ==
  priority' = (SomeAlertIsPlaying(pl, v) /\ (emedia \in pl \/ priority))

\* FirstStreamOpened on an alarm: media is muted, a pending wait given up.
MediaHearsAlarm(k, pl, v) ==
  /\ UpdatePriority(pl, v)
  /\ vol' = [v EXCEPT ![emedia] = Silent]
  /\ held' = held \ {k}
  /\ UNCHANGED heldLost

\* Mutant: every call arms the timer.
MutAlwaysWaits(k, ids, pending, lost, pl, v, recording) ==
  /\ UpdatePriority(pl, v)
  /\ held' = ids \cup {k}
  /\ heldLost' = [lost EXCEPT ![k] = @ + IF k \in pending THEN 1 ELSE 0]
  /\ vol' = v

\* LastStreamClosed on an alarm.  ids are the variables that are set, pending
\* those whose timer is still to come: the first call arms the timer if media
\* plays or something records, the second forgets all ids and plays again.
MediaHearsNoAlarm(k, ids, pending, lost, pl, v, recording) ==
  /\ UpdatePriority(pl, v)
  /\ IF k \notin ids
     THEN /\ held' = IF emedia \in pl \/ recording THEN ids \cup {k} ELSE ids
          /\ heldLost' = lost
          /\ vol' = v
     ELSE /\ held' = {}
          /\ heldLost' = [j \in Alarms |->
                            lost[j] + IF j \in pending THEN 1 ELSE 0]
          /\ vol' = [v EXCEPT ![emedia] = MediaVolume(pl, v)]

-----------------------------------------------------------------------------
(* Streams.                                                                *)

\* The timers pending.  Expiring ones never add to them, so the bound is on
\* the streams that close.
MediaPending == Cardinality(held) + heldLost[ealarm] + heldLost[etimer]
VibratePending ==
  Cardinality({k \in Alarms : vibId[k] = "pending"})
    + vibLost[ealarm] + vibLost[etimer]

\* onSinkChanged of k's module, then of media.
FirstStreamOpened(k) ==
  LET pl == playing \cup {k}
      v  == [vol EXCEPT ![k] = Wanted(k, pl, ringerOn, override, dnd, muted)]
  IN  /\ k \notin playing
      /\ playing' = pl
      /\ \E possible \in BOOLEAN : StartVibrating(k, possible)
      /\ MediaHearsAlarm(k, pl, v)
      /\ UNCHANGED <<switchVars, muted>>

AlarmOpens == FirstStreamOpened(ealarm) /\ UNCHANGED late

TimerOpens == FirstStreamOpened(etimer) /\ late' = FALSE

LastStreamClosed(k) ==
  LET pl == playing \ {k} IN
  /\ k \in playing
  /\ MediaPending < MaxPending /\ VibratePending < MaxPending
  /\ playing' = pl
  /\ StopVibrating(k, vibId[k], vibLost[k], pl)
  /\ \E recording \in BOOLEAN :
       MediaHearsNoAlarm(k, held, held, heldLost, pl, AfterUnmute(k, pl),
                         recording)
  /\ late' = StillLate(k)
  /\ UNCHANGED switchVars

MediaOpens ==
  LET pl == playing \cup {emedia} IN
  /\ emedia \notin playing
  /\ playing' = pl
  /\ UpdatePriority(pl, vol)
  /\ vol' = [vol EXCEPT ![emedia] =
               IF priority' THEN Silent ELSE MediaVolume(pl, vol)]
  /\ UNCHANGED <<switchVars, late, muted, held, heldLost, vibVars>>

MediaCloses ==
  LET pl == playing \ {emedia} IN
  /\ emedia \in playing
  /\ playing' = pl
  /\ UpdatePriority(pl, vol)
  /\ vol' = [vol EXCEPT ![emedia] = Silent]
  /\ UNCHANGED <<switchVars, late, muted, held, heldLost, vibVars>>

\* alert.cpp, then media, which an alert mutes only when the ringer is on.
AlertOpens ==
  LET pl == playing \cup {ealerts} IN
  /\ ealerts \notin playing
  /\ playing' = pl
  /\ \E possible \in BOOLEAN : vibrating' = (vibrating \/ possible)
  /\ UpdatePriority(pl, vol)
  /\ vol' = IF ringerOn THEN [vol EXCEPT ![emedia] = Silent] ELSE vol
  /\ UNCHANGED <<switchVars, late, muted, held, heldLost, vibId, vibLost>>

AlertCloses ==
  LET pl == playing \ {ealerts} IN
  /\ ealerts \in playing
  /\ playing' = pl
  /\ vibrating' = (vibrating /\ ealarm \in pl)
  /\ UpdatePriority(pl, vol)
  /\ vol' = [vol EXCEPT ![emedia] = MediaVolume(pl, vol)]
  /\ UNCHANGED <<switchVars, late, muted, held, heldLost, vibId, vibLost>>

-----------------------------------------------------------------------------
(* Timers: those of one kind expire in the order they were armed, a lost   *)
(* one before the one whose id is kept.                                    *)

\* alarmTimeoutForVibrate, timerTimeoutForVibrate
VibrateTimeout(k) ==
  /\ \/ vibLost[k] > 0 /\ StopVibrating(k, vibId[k], vibLost[k] - 1, playing)
     \/ /\ vibLost[k] = 0 /\ vibId[k] = "pending"
        /\ StopVibrating(k, "expired", 0, playing)
  /\ vol' = AfterUnmute(k, playing)
  /\ late' = StillLate(k)
  /\ UNCHANGED <<playing, switchVars, mediaVars>>

\* alarmTimeout, timerTimeout
MediaTimeout(k) ==
  /\ \E recording \in BOOLEAN :
       \/ /\ heldLost[k] > 0
          /\ MediaHearsNoAlarm(k, held, held, [heldLost EXCEPT ![k] = @ - 1],
                               playing, vol, recording)
       \/ /\ heldLost[k] = 0 /\ k \in held
          /\ MediaHearsNoAlarm(k, held, held \ {k}, heldLost, playing, vol,
                               recording)
  /\ UNCHANGED <<playing, switchVars, late, muted, vibVars>>

-----------------------------------------------------------------------------
(* Requests.                                                               *)

\* setRingerOn
SwitchRinger(on, quiet) ==
  /\ ringerOn' = on
  /\ IF on # ringerOn
     THEN ProgramSoftwareMixer(vol, on, override, quiet)
     ELSE late' = (late \/ quiet # dnd) /\ UNCHANGED vol

SetRingerOn ==
  /\ SwitchRinger(~ringerOn, dnd)
  /\ UNCHANGED <<playing, override, dnd, prevRinger, muted, mediaVars, vibVars>>

\* setDndMode: the ringer goes off, and afterwards back to what it was; when that
\* does not change it the mixer is not programmed.
SetDndMode ==
  /\ dnd' = ~dnd
  /\ prevRinger' = (dnd' /\ ringerOn)
  /\ SwitchRinger(dnd /\ prevRinger, dnd')
  /\ UNCHANGED <<playing, override, muted, mediaVars, vibVars>>

\* _setTimerOn, setTimerOn; _setAlarmOn, setAlarmOn
SetOverride(k) ==
  /\ override' = IF k \in override THEN override \ {k} ELSE override \cup {k}
  /\ ProgramSoftwareMixer(vol, ringerOn, override', dnd)
  /\ UNCHANGED <<playing, ringerOn, dnd, prevRinger, muted, mediaVars, vibVars>>

\* setMuted(true): an alarm that is neither playing nor muted only stops
\* vibrating.
Mute(k) ==
  /\ vibrating' = FALSE
  /\ IF k \in playing \cup muted
     THEN /\ muted' = muted \cup {k}
          /\ vol' = [vol EXCEPT ![k] = Silent]
          /\ late' = (late /\ k = ealarm)
     ELSE UNCHANGED <<late, muted, vol>>
  /\ UNCHANGED <<playing, switchVars, mediaVars, vibId, vibLost>>

\* setMuted(false)
Unmute(k) ==
  /\ k \in muted
  /\ muted' = muted \ {k}
  /\ vol' = AfterUnmute(k, playing)
  /\ late' = StillLate(k)
  /\ UNCHANGED <<playing, switchVars, mediaVars, vibVars>>

\* A device comes or goes: muteAll, then everything is programmed again.
UpdateHardwareSettings ==
  /\ ProgramSoftwareMixer([s \in DOMAIN vol |-> Silent], ringerOn, override, dnd)
  /\ UNCHANGED <<playing, switchVars, muted, mediaVars, vibVars>>

-----------------------------------------------------------------------------
NextStream ==
  \/ AlarmOpens
  \/ TimerOpens
  \/ \E k \in Alarms : LastStreamClosed(k)
  \/ MediaOpens
  \/ MediaCloses
  \/ AlertOpens
  \/ AlertCloses

NextTimer == \E k \in Alarms : VibrateTimeout(k) \/ MediaTimeout(k)

NextRequest ==
  \/ SetRingerOn
  \/ SetDndMode
  \/ \E k \in Overridable : SetOverride(k)
  \/ \E k \in Alarms : Mute(k) \/ Unmute(k)
  \/ UpdateHardwareSettings

Next == NextStream \/ NextTimer \/ NextRequest

\* The main loop dispatches every expired timer.
Fairness ==
  \A k \in Alarms : WF_vars(MediaTimeout(k)) /\ WF_vars(VibrateTimeout(k))

Spec == Init /\ [][Next]_vars /\ Fairness

-----------------------------------------------------------------------------
(* Properties.                                                             *)

VibrationWaits(k) == vibId[k] = "pending" \/ vibLost[k] > 0

\* An alarm is heard if and only if the ringer switch or its override allows
\* it and the user has not muted it, whatever order the stream, the switch,
\* the mute button and the late timers come in.  A timer, only if besides the
\* user may be disturbed: except when do not disturb has changed with no change
\* of the ringer, which does not silence the timer that sounds.
AlarmFollowsPolicy ==
  \A k \in Alarms \cap playing :
    \/ vol[k] = Wanted(k, playing, ringerOn, override, dnd, muted)
    \/ k = etimer /\ late

\* The device vibrates only while something plays that vibrates, or while a
\* timer is pending that will stop it.
VibrationIsStopped ==
  vibrating => \/ playing \cap (Alarms \cup {ealerts}) # {}
               \/ \E k \in Alarms : VibrationWaits(k)

\* The timers that lost their id do not arm each other for ever: media that
\* goes on playing alone ends up at full volume, whatever the order of alarms,
\* alerts and timers was.
MediaComesBack ==
  (playing = {emedia}) ~> (playing # {emedia} \/ vol[emedia] = Full)
=============================================================================
