---------------------------- MODULE SoundProfile ----------------------------
(***************************************************************************)
(* The preferences of State: the sound profile, "do not disturb", the      *)
(* switches that are shared properties too, and their store (prefs.cpp).   *)
(*                                                                         *)
(* A handler sets several preferences one after the other, and each is     *)
(* written out at once with all the others.  audiod can end between two of *)
(* them; upstart starts it again and it restores what was written.  What   *)
(* remains of the handler under way is in todo: handlers follow each other *)
(* on the main loop.                                                       *)
(*                                                                         *)
(* Every preference here is boolean.  What a change of the ringer does to  *)
(* sounds is in AlarmPolicy and CallFocus.                                 *)
(***************************************************************************)
EXTENDS Naturals, Sequences

CONSTANTS
  Requested,    \* bound: the preferences that setPreference is used for
  MaxFailures,  \* bound: stores and restores that fail
  Unknown       \* no profile

Profiles == [ringer : BOOLEAN, vibrateOn : BOOLEAN, vibrateOff : BOOLEAN]

\* Preferences that are shared properties as well.  TouchOn stands for AlarmOn,
\* TimerOn and RingtonewithVibrationWhenEnabled too, which are set likewise.
Switches == {"RingerOn", "TouchOn"}

Saved == {"PrevRingerOn", "PrevVibrateWhenRingerOn", "PrevVibrateWhenRingerOff"}
Names == Switches \cup Saved \cup {"VibrateWhenRingerOn", "VibrateWhenRingerOff", "DndOn"}

ASSUME SoundProfileAssumption ==
  /\ Unknown \notin Profiles \cup (BOOLEAN \X BOOLEAN)
  /\ Requested \subseteq Names
  /\ MaxFailures \in Nat

\* The constructor of State.
Defaults == [n \in Names |-> n \in {"VibrateWhenRingerOff", "PrevVibrateWhenRingerOff"}]

VARIABLES
  running,   \* audiod's process
  pref,      \* mBooleanPreferences
  property,  \* the shared properties of Switches
  stored,    \* "state_preferences"
  todo,      \* what the handler under way has still to do
  told,      \* the profile subscribers of getSoundProfile were last sent
  failures,  \* stores and restores that have failed
  failed,    \* history: the last of them did
  apart,     \* history: switches that setPreference has set since the start
  quiet,     \* history: the last change of the profile was one nobody is told of
  dnd        \* history: the profile when DndOn was set, and what holds of it

vars == <<running, pref, property, stored, todo, told, failures, failed, apart, quiet,
          dnd>>

\* setPreference, a set() of a shared property, sendUpdatedProfile.
Tasks == [task : {"pref"}, name : Names, value : BOOLEAN]
         \cup [task : {"property"}, name : Switches, value : BOOLEAN]
         \cup [task : {"post"}]

TypeOK ==
  /\ running \in BOOLEAN
  /\ pref \in [Names -> BOOLEAN]
  /\ property \in [Switches -> BOOLEAN]
  /\ stored \in [Names -> BOOLEAN]
  /\ todo \in Seq(Tasks)
  /\ told \in (BOOLEAN \X BOOLEAN) \cup {Unknown}
  /\ failures \in 0 .. MaxFailures
  /\ {failed, quiet} \subseteq BOOLEAN
  /\ apart \subseteq Switches
  /\ dnd \in [phase : {"none", "on", "back"}, profile : Profiles \cup {Unknown}]

Init ==
  /\ running = TRUE
  /\ pref = Defaults
  /\ property = [s \in Switches |-> Defaults[s]]
  /\ stored = Defaults
  /\ todo = <<>>
  /\ told = Unknown
  /\ failures = 0
  /\ failed = FALSE
  /\ apart = {}
  /\ quiet = TRUE
  /\ dnd = [phase |-> "none", profile |-> Unknown]

-----------------------------------------------------------------------------
Pref(n, v) == [task |-> "pref", name |-> n, value |-> v]
Property(s, v) == [task |-> "property", name |-> s, value |-> v]
Post == [task |-> "post"]

\* The profile that is in force.
Profile == [ringer |-> property["RingerOn"],
            vibrateOn |-> pref["VibrateWhenRingerOn"],
            vibrateOff |-> pref["VibrateWhenRingerOff"]]

\* What respondProfileRequest and sendUpdatedProfile make of it.
Shown == <<Profile.ringer, IF Profile.ringer THEN Profile.vibrateOn ELSE Profile.vibrateOff>>

Idle == running /\ todo = <<>>

\* A call of the store answers, or does not.
Answers(ok) ==
  /\ ok \/ failures < MaxFailures
  /\ failures' = IF ok THEN failures ELSE failures + 1
  /\ failed' = ~ok

\* storePreferences: all of them, or none when the store fails.
StorePreferences(prefs) ==
  \E ok \in BOOLEAN : Answers(ok) /\ stored' = IF ok THEN prefs ELSE stored

\* setPreference: stored when it changes.
SetPreference(n, v) ==
  IF pref[n] # v
  THEN /\ pref' = [pref EXCEPT ![n] = v]
       /\ StorePreferences(pref')
  ELSE UNCHANGED <<pref, stored, failures, failed>>

\* The next thing the handler under way does.
Step ==
  /\ running
  /\ todo # <<>>
  /\ todo' = Tail(todo)
  /\ LET t == Head(todo) IN
     \/ /\ t.task = "pref"
        /\ SetPreference(t.name, t.value)
        /\ UNCHANGED <<property, told>>
     \/ /\ t.task = "property"
        /\ property' = [property EXCEPT ![t.name] = t.value]
        /\ UNCHANGED <<pref, stored, failures, failed, told>>
     \/ /\ t.task = "post"
        /\ told' = Shown
        /\ UNCHANGED <<pref, property, stored, failures, failed>>
  /\ UNCHANGED <<running, apart, quiet, dnd>>

-----------------------------------------------------------------------------
(* Handlers.  Nothing comes between the steps of a handler but the end of  *)
(* audiod, so what it reads it may read at its start.                      *)

\* The handler begins: what it will do, whether subscribers will not be told,
\* and what the history of DndOn becomes.
Begin(tasks, silent, history) ==
  /\ Idle
  /\ todo' = tasks
  /\ quiet' = silent
  /\ dnd' = history
  /\ UNCHANGED <<running, pref, property, stored, told, failures, failed, apart>>

\* The profile may not be any more what "do not disturb" gave back.
Changed == IF dnd.phase = "back" THEN [dnd EXCEPT !.phase = "none"] ELSE dnd

\* setRingerOn
SetRingerOn(ringerOn) ==
  IF property["RingerOn"] # ringerOn
  THEN <<Pref("RingerOn", ringerOn), Property("RingerOn", ringerOn)>>
  ELSE <<>>

SetVibration(on, off) ==
  <<Pref("VibrateWhenRingerOn", on), Pref("VibrateWhenRingerOff", off)>>

\* _setRingerSwitch: subscribers are not told.
SetRingerSwitch(ringer) == Begin(SetRingerOn(ringer), TRUE, Changed)

\* Mutant: subscribers are not told.
MutNotTold(ringer, vibrate) ==
  Begin(SetRingerOn(ringer) \o SetVibration(ringer /\ vibrate, ~ringer /\ vibrate),
        FALSE, Changed)

\* _setSoundProfile, both values valid.
SetSoundProfile(ringer, vibrate) ==
  Begin(SetRingerOn(ringer) \o SetVibration(ringer /\ vibrate, ~ringer /\ vibrate)
          \o <<Post>>, FALSE, Changed)

\* _setSoundProfile with an invalid vibrate: an error, after the ringer is set.
RefuseSoundProfile(ringer) == Begin(SetRingerOn(ringer), TRUE, Changed)

\* storeSoundProfile
StoreSoundProfile ==
  <<Pref("PrevRingerOn", pref["RingerOn"]),
    Pref("PrevVibrateWhenRingerOn", pref["VibrateWhenRingerOn"]),
    Pref("PrevVibrateWhenRingerOff", pref["VibrateWhenRingerOff"])>>

\* retrieveSoundProfile
RetrieveSoundProfile ==
  SetRingerOn(pref["PrevRingerOn"])
    \o SetVibration(pref["PrevVibrateWhenRingerOn"], pref["PrevVibrateWhenRingerOff"])

\* Mutant: the profile is stored after it has been silenced.
MutStoredLate(enable) ==
  /\ pref["DndOn"] # enable
  /\ IF enable
     THEN Begin(<<Pref("DndOn", TRUE)>> \o SetRingerOn(FALSE) \o SetVibration(FALSE, FALSE)
                  \o <<Pref("PrevRingerOn", FALSE), Pref("PrevVibrateWhenRingerOn", FALSE),
                       Pref("PrevVibrateWhenRingerOff", FALSE), Post>>,
                FALSE,
                [phase |-> IF pref["RingerOn"] = property["RingerOn"] THEN "on" ELSE "none",
                 profile |-> Profile])
     ELSE Begin(<<Pref("DndOn", FALSE)>> \o RetrieveSoundProfile \o <<Post>>,
                FALSE, IF dnd.phase = "on" THEN [dnd EXCEPT !.phase = "back"] ELSE dnd)

\* setDndMode.  What it saves of the ringer is the preference, not the property.
SetDndMode(enable) ==
  /\ pref["DndOn"] # enable
  /\ IF enable
     THEN Begin(<<Pref("DndOn", TRUE)>> \o StoreSoundProfile \o SetRingerOn(FALSE)
                  \o SetVibration(FALSE, FALSE) \o <<Post>>,
                FALSE,
                [phase |-> IF pref["RingerOn"] = property["RingerOn"] THEN "on" ELSE "none",
                 profile |-> Profile])
     ELSE Begin(<<Pref("DndOn", FALSE)>> \o RetrieveSoundProfile \o <<Post>>,
                FALSE, IF dnd.phase = "on" THEN [dnd EXCEPT !.phase = "back"] ELSE dnd)

\* setTouchSound
SetTouchSound(touchSound) ==
  /\ pref["TouchOn"] # touchSound
  /\ Begin(<<Property("TouchOn", touchSound), Pref("TouchOn", touchSound)>>, quiet, dnd)

\* setPreferenceRequest: any preference, and nothing that goes with it.
SetPreferenceRequest(n, v) ==
  /\ Idle
  /\ pref' = [pref EXCEPT ![n] = v]
  /\ StorePreferences(pref')
  /\ apart' = apart \cup ({n} \cap Switches)
  /\ quiet' = TRUE
  /\ dnd' = IF n = "TouchOn" THEN dnd ELSE [phase |-> "none", profile |-> Unknown]
  /\ UNCHANGED <<running, property, todo, told>>

\* audiod ends, perhaps in the middle of a handler.
Die ==
  /\ running
  /\ running' = FALSE
  /\ todo' = <<>>
  /\ told' = Unknown
  /\ quiet' = TRUE
  /\ dnd' = IF todo # <<>> \/ failed THEN [phase |-> "none", profile |-> Unknown] ELSE dnd
  /\ UNCHANGED <<pref, property, stored, failures, failed, apart>>

\* Mutant: the property keeps the value State::init gives it.
MutPropertyNotRestored(ok) ==
  /\ ~running
  /\ running' = TRUE
  /\ pref' = IF ok THEN stored ELSE Defaults
  /\ property' = [s \in Switches |-> FALSE]
  /\ apart' = {}
  /\ Answers(ok)
  /\ dnd' = IF ok THEN dnd ELSE [phase |-> "none", profile |-> Unknown]
  /\ UNCHANGED <<stored, todo, told, quiet>>

\* State::init, restorePreferences: what is stored, or the defaults when the
\* store does not answer.
Start(ok) ==
  /\ ~running
  /\ running' = TRUE
  /\ pref' = IF ok THEN stored ELSE Defaults
  /\ property' = [s \in Switches |-> pref'[s]]
  /\ apart' = {}
  /\ Answers(ok)
  /\ dnd' = IF ok THEN dnd ELSE [phase |-> "none", profile |-> Unknown]
  /\ UNCHANGED <<stored, todo, told, quiet>>

Next ==
  \/ Step
  \/ \E b \in BOOLEAN : \/ SetRingerSwitch(b) \/ RefuseSoundProfile(b)
                        \/ SetDndMode(b) \/ SetTouchSound(b) \/ Start(b)
  \/ \E r, v \in BOOLEAN : SetSoundProfile(r, v)
  \/ \E n \in Requested, v \in BOOLEAN : SetPreferenceRequest(n, v)
  \/ Die

Spec == Init /\ [][Next]_vars

-----------------------------------------------------------------------------
(* Properties.                                                             *)

\* Processes that read a shared property see the preference it stands for,
\* across the end of audiod at any point of a handler, unless setPreference, which
\* does not set the property, has been used on it.
PropertyIsPreference ==
  Idle => \A s \in Switches \ apart : property[s] = pref[s]

\* "Do not disturb" gives back the profile that was in force when it was switched
\* on, also when audiod has ended in between and whatever profile was chosen
\* meanwhile; not when audiod ends while the profile is being saved or given back.
DndGivesBack ==
  Idle => /\ dnd.phase = "on" =>
               /\ pref["DndOn"]
               /\ dnd.profile = [ringer |-> pref["PrevRingerOn"],
                                 vibrateOn |-> pref["PrevVibrateWhenRingerOn"],
                                 vibrateOff |-> pref["PrevVibrateWhenRingerOff"]]
          /\ dnd.phase = "back" => Profile = dnd.profile

\* The profile subscribers were sent last is the one in force, unless it was
\* changed by setRingerSwitch, setPreference, or a request that was refused.
SubscribersKnowProfile == (Idle /\ ~quiet) => told = Shown
=============================================================================
