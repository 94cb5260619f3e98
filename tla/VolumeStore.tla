---------------------------- MODULE VolumeStore ----------------------------
(***************************************************************************)
(* The volume of a module, on its way from a request to the preferences    *)
(* file: the handlers setVolume and offsetVolume (module.cpp), the tics of *)
(* volume.cpp, the delayed store and the restore of prefs.cpp.             *)
(*                                                                         *)
(* Every module of this commit has one scenario and so one volume.  A      *)
(* change arms a timer of ten seconds, unless its identifier says that one *)
(* is pending; the timer writes the volume to the file.  audiod can die    *)
(* before it does: upstart starts it again, and the constructor of the     *)
(* module reads the file.                                                  *)
(*                                                                         *)
(* The file is reached through a library that can fail: to give a handle,  *)
(* or to write.  Requests that are answered with an error and change       *)
(* nothing, the broadcasts and the subscriptions' updates are left out,    *)
(* and so is the programming of the mixer (PulseMixer, Scenarios).         *)
(***************************************************************************)
EXTENDS Integers, FiniteSetsExt

CONSTANTS
  Requested,  \* the volumes that setVolume asks for
  Steps,      \* the offsets in steps that offsetVolume asks for
  Percents,   \* those in percent
  Default,    \* the volume the module is constructed with
  Legacy,     \* the volume in the old format of the file, Absent if none
  Hardwired   \* mHardwired: the scenario cannot be disabled

cVolumePercent_Min == 0
cVolumePercent_Max == 100
VOLUME_KEY_STEP == 11
MaxSteps == 20  \* the most steps of one request

Volumes == cVolumePercent_Min .. cVolumePercent_Max
Absent == -1

ASSUME VolumeStoreAssumption ==
  /\ Requested \subseteq Volumes
  /\ Steps \subseteq -MaxSteps .. MaxSteps
  /\ Percents \subseteq -cVolumePercent_Max .. cVolumePercent_Max
  /\ Default \in Volumes
  /\ Legacy \in Volumes \cup {Absent}
  /\ Hardwired \in BOOLEAN

VARIABLES
  running,  \* audiod runs
  current,  \* mCurrentScenario # 0: the scenario is enabled
  volume,   \* mVolume
  timer,    \* "none": mStoreTimerID = 0; "armed": the timer will expire;
            \* "gone": the identifier is kept, of a timer that has expired
  stored,   \* the file has an entry of the module, in the new format
  disk,     \* the volume of that entry
  failed    \* history: the library failed, and nothing was stored since

fileVars == <<stored, disk>>
storeVars == <<running, current, volume, timer, stored, disk, failed>>

StoreTypeOK ==
  /\ {running, current, stored, failed} \subseteq BOOLEAN
  /\ volume \in Volumes
  /\ timer \in {"none", "armed", "gone"}
  /\ disk \in Volumes
  /\ timer = "gone" => failed

-----------------------------------------------------------------------------
(***************************************************************************)
(* volume.cpp.  A loop that moves a volume by one until a condition holds  *)
(* ends at the nearest volume that satisfies it.                           *)
(***************************************************************************)

\* PERCENT_TO_TIC, the formula shared with the user interface
Tic(percent) == (percent + 6) \div VOLUME_KEY_STEP

MaxTic == Tic(cVolumePercent_Max)

\* Mutant: the loop that limits a move to one tic is missing.
MutNoLimit ==
  [v \in Volumes |->
     IF v + VOLUME_KEY_STEP > cVolumePercent_Max - VOLUME_KEY_STEP
     THEN cVolumePercent_Max
     ELSE v + VOLUME_KEY_STEP]

SCVolumeUp ==
  [v \in Volumes |->
     LET snapped == IF v + VOLUME_KEY_STEP > cVolumePercent_Max - VOLUME_KEY_STEP
                    THEN cVolumePercent_Max
                    ELSE v + VOLUME_KEY_STEP
         moved == Min({w \in snapped .. cVolumePercent_Max :
                         Tic(w) # Tic(v) \/ w = cVolumePercent_Max})
     IN  Max({w \in cVolumePercent_Min .. moved :
                Tic(w) <= Tic(v) + 1 \/ w = cVolumePercent_Min})]

SCVolumeDown ==
  [v \in Volumes |->
     LET snapped == IF v - VOLUME_KEY_STEP < cVolumePercent_Min + VOLUME_KEY_STEP
                    THEN cVolumePercent_Min
                    ELSE v - VOLUME_KEY_STEP
         moved == Max({w \in cVolumePercent_Min .. snapped :
                         Tic(w) # Tic(v) \/ w = cVolumePercent_Min})
     IN  Min({w \in moved .. cVolumePercent_Max :
                Tic(w) >= Tic(v) - 1 \/ w = cVolumePercent_Max})]

\* The volumes that any number of moves make of v
Moved(move, v) ==
  LET moved[k \in 0 .. MaxSteps] == IF k = 0 THEN v ELSE move[moved[k - 1]]
  IN  moved

\* The volume n steps above v, or -n steps below
Stepped ==
  [n \in Steps |-> [v \in Volumes |->
     IF n >= 0 THEN Moved(SCVolumeUp, v)[n] ELSE Moved(SCVolumeDown, v)[-n]]]

Clamped(v) == Min({cVolumePercent_Max, Max({cVolumePercent_Min, v})})

-----------------------------------------------------------------------------
\* What restorePreferences makes of the file
Restored ==
  IF stored THEN disk ELSE IF Legacy # Absent THEN Legacy ELSE Default

\* The constructor: addScenario and restorePreferences, which leaves the
\* default if the library gives no handle.
Construct(handle, file) ==
  /\ running' = TRUE
  /\ current' = TRUE
  /\ volume' = IF handle THEN file ELSE Default
  /\ timer' = "none"
  /\ failed' = ~handle

\* The process ends, and its memory with it.
Die ==
  /\ running' = FALSE
  /\ current' = TRUE
  /\ volume' = Default
  /\ timer' = "none"
  /\ UNCHANGED <<fileVars, failed>>

StoreInit ==
  /\ stored \in BOOLEAN
  /\ disk = Default
  /\ running = TRUE
  /\ current = TRUE
  /\ volume = Restored
  /\ timer = "none"
  /\ failed = FALSE

\* Mutant: the timer is armed only if the scenario is current.
MutOnlyCurrent == timer' = IF timer = "none" /\ current THEN "armed" ELSE timer

\* scheduleStorePreferences
ScheduleStorePreferences ==
  timer' = IF timer = "none" THEN "armed" ELSE timer

\* setScenarioVolumeOrMicGain, for the scenario by name or the current one
SetScenarioVolume(v, named) ==
  /\ running
  /\ named \/ current
  /\ v # volume
  /\ volume' = v
  /\ ScheduleStorePreferences
  /\ UNCHANGED <<running, current, fileVars, failed>>

SetVolume(v, named) == SetScenarioVolume(v, named)

OffsetVolumeBySteps(n, named) == SetScenarioVolume(Stepped[n][volume], named)

OffsetVolumeByPercent(n, named) ==
  SetScenarioVolume(Clamped(volume + n), named)

DisableScenario ==
  /\ running
  /\ current
  /\ ~Hardwired
  /\ current' = FALSE
  /\ UNCHANGED <<running, volume, timer, fileVars, failed>>

EnableScenario ==
  /\ running
  /\ ~current
  /\ current' = TRUE
  /\ UNCHANGED <<running, volume, timer, fileVars, failed>>

-----------------------------------------------------------------------------
(***************************************************************************)
(* storePreferences, called by the timer, which is not repeated.           *)
(***************************************************************************)

\* No handle: it returns early and keeps the identifier.
StoreWithoutHandle ==
  /\ timer' = "gone"
  /\ failed' = TRUE
  /\ UNCHANGED <<running, current, volume, fileVars>>

\* The volume is read through a null pointer: audiod dies.
StoreWithoutScenario == ~current /\ Die

\* A write that fails is only logged.
WriteFails ==
  /\ current
  /\ timer' = "none"
  /\ failed' = TRUE
  /\ UNCHANGED <<running, current, volume, fileVars>>

Write ==
  /\ current
  /\ stored' = TRUE
  /\ disk' = volume
  /\ timer' = "none"
  /\ failed' = FALSE
  /\ UNCHANGED <<running, current, volume>>

\* Mutant: the identifier is kept after a store that works.
MutIdKept ==
  /\ running
  /\ timer = "armed"
  /\ timer' = "gone"
  /\ IF current THEN stored' = TRUE /\ disk' = volume ELSE UNCHANGED fileVars
  /\ failed' = FALSE
  /\ UNCHANGED <<running, current, volume>>

StoreTimer ==
  /\ running
  /\ timer = "armed"
  /\ StoreWithoutHandle \/ StoreWithoutScenario \/ WriteFails \/ Write

\* audiod dies of anything else.
Crash ==
  /\ running
  /\ Die

\* upstart starts it again.
Respawn ==
  /\ ~running
  /\ \E handle \in BOOLEAN : Construct(handle, Restored)
  /\ UNCHANGED fileVars

Request ==
  \E named \in BOOLEAN :
    \/ \E v \in Requested : SetVolume(v, named)
    \/ \E n \in Steps : OffsetVolumeBySteps(n, named)
    \/ \E n \in Percents : OffsetVolumeByPercent(n, named)

StoreNext ==
  \/ Request
  \/ DisableScenario
  \/ EnableScenario
  \/ StoreTimer
  \/ Crash
  \/ Respawn

\* The main loop serves its timers, and upstart respawns.
Fairness == WF_storeVars(StoreTimer) /\ WF_storeVars(Respawn)

StoreSpec == StoreInit /\ [][StoreNext]_storeVars /\ Fairness

-----------------------------------------------------------------------------
(***************************************************************************)
(* Properties                                                              *)
(***************************************************************************)

\* A volume that a restart would not bring back has a store pending
\* (scheduleStorePreferences, storePreferences and restorePreferences agree),
\* unless the preferences library has failed since the last store.
StoredOrPending ==
  running /\ ~failed /\ volume # Restored => timer = "armed"

\* A request of n steps moves the volume by n tics, no less and no more,
\* up to the ends of the scale, and never leaves it where it was before the
\* end (SCVolumeUp and SCVolumeDown at every percentage).
StepsMoveTics ==
  [][\A n \in Steps, named \in BOOLEAN :
       OffsetVolumeBySteps(n, named) =>
         /\ Tic(volume') = Min({MaxTic, Max({0, Tic(volume) + n})})
         /\ n > 0 => volume' > volume
         /\ n < 0 => volume' < volume]_storeVars

\* "Save preferences in 10 seconds max": a volume that a restart would lose
\* comes to be one that it would restore, whatever requests keep coming,
\* unless the library fails.
ChangesAreStored ==
  (running /\ volume # Restored) ~> ((running /\ volume = Restored) \/ failed)
=============================================================================
