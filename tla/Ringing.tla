------------------------------ MODULE Ringing ------------------------------
(***************************************************************************)
(* The ringtone and its vibration while calls come and go: ringtone.cpp    *)
(* and vibrate.cpp over the calls of CallFocus.                            *)
(*                                                                         *)
(* The ringtone's stream opens and closes when it pleases the phone        *)
(* application: before, during or after the call of a line.  Whoever       *)
(* changes the focus or the ringer switch programs the volume of the       *)
(* ringtone again, by other rules than those of its opening.               *)
(*                                                                         *)
(* With a headset plugged in, a ringtone that cannot be heard is replaced  *)
(* by a buzz every second.  The timer of the buzz carries a number where   *)
(* its callback expects the address of one: audiod dies when it expires,   *)
(* be the buzz cancelled or not, and is started again.  The calls go on    *)
(* without it, and the new audiod does not know of them.                   *)
(*                                                                         *)
(* Left out: the speech and voice recognition volumes, which have no       *)
(* memory, and the beeps for a device that needs them: none says so.       *)
(***************************************************************************)
EXTENDS CallFocus

CONSTANTS
  eringtones, etts,  \* the sinks of ringtones and of speech
  MaxBuzzes          \* bound: timers of the buzz under way

ASSUME RingingAssumption == eringtones # etts /\ MaxBuzzes \in Nat

VARIABLES
  running,    \* audiod runs
  outlived,   \* history: a call was under way when audiod started, and calls have not
              \* all ended since
  playing,    \* mActiveStreams, of the two sinks
  muted,      \* mRingtoneMuted (always equal to mMuted)
  heard,      \* the ringtone was last programmed at its volume, not at 0
  vibrating,  \* isVibrating
  buzzing,    \* mFakeBuzzRunning
  buzzes,     \* timers of the buzz under way
  headset     \* a headset is plugged in

vibVars == <<vibrating, buzzing, buzzes>>
ringVars == <<running, outlived, playing, muted, heard, vibVars, headset>>
rvars == <<vars, ringVars>>

RingTypeOK ==
  /\ TypeOK
  /\ playing \subseteq {eringtones, etts}
  /\ running \in BOOLEAN /\ outlived \in BOOLEAN /\ headset \in BOOLEAN
  /\ muted \in BOOLEAN /\ heard \in BOOLEAN
  /\ vibrating \in BOOLEAN /\ buzzing \in BOOLEAN
  /\ buzzes \in 0 .. MaxBuzzes

RingInit ==
  /\ Init
  /\ running = TRUE /\ outlived = FALSE
  /\ playing = {}
  /\ muted = FALSE /\ heard = FALSE
  /\ vibrating = FALSE /\ buzzing = FALSE /\ buzzes = 0
  /\ headset \in BOOLEAN

-----------------------------------------------------------------------------
(* Pieces of handlers.                                                     *)

\* isRouted(eringtones), without which programVolume programs 0: media and vvm route
\* ringtones with the ringer on, and phone never does.
Routed == ringerOn /\ focus \in {"media", "vvm"}

\* programRingToneVolumes, by way of programVolume
ProgramRingToneVolumes(pl, mute) == heard' = (eringtones \in pl /\ ~mute /\ Routed')

\* Mutant: a buzz that is cancelled buzzes on.
MutBuzzesOn == vibrating' = FALSE /\ UNCHANGED <<buzzing, buzzes>>

\* The timers of the buzz are not removed.
CancelVibrate ==
  /\ vibrating' = FALSE /\ buzzing' = FALSE
  /\ UNCHANGED buzzes

\* setMuted(false), programMuted
Unmute(pl) ==
  /\ muted' = FALSE
  /\ IF muted THEN ProgramRingToneVolumes(pl, FALSE) ELSE UNCHANGED heard

\* startFakeBuzz, fakeBuzz
StartFakeBuzz ==
  IF buzzing THEN UNCHANGED <<buzzing, buzzes>>
  ELSE buzzing' = TRUE /\ buzzes < MaxBuzzes /\ buzzes' = buzzes + 1

\* checkRingtoneVibration: allows is what the preferences say of the ringer's position.
Vibrates(allows, soft) ==
  IF ~onActiveCall /\ allows
  THEN /\ vibrating' = TRUE
       /\ IF headset /\ (soft \/ ~ringerOn \/ muted)
          THEN StartFakeBuzz ELSE UNCHANGED <<buzzing, buzzes>>
  ELSE UNCHANGED vibVars

-----------------------------------------------------------------------------
(* Streams.                                                                *)

\* FirstStreamOpened.  With the ringer off and speech playing it takes the volume of
\* media, without a route.  soft: the volume is below the threshold of the buzz.
RingtoneOpens ==
  /\ running
  /\ eringtones \notin playing
  /\ playing' = playing \cup {eringtones}
  /\ heard' = (~muted /\ Routed)
  /\ \E allows, soft \in BOOLEAN : Vibrates(allows, soft)
  /\ UNCHANGED <<vars, running, outlived, muted, headset>>

SpeechOpens ==
  /\ running
  /\ etts \notin playing
  /\ playing' = playing \cup {etts}
  /\ UNCHANGED <<vars, running, outlived, muted, heard, vibVars, headset>>

\* Mutant: the mute is kept for the next time.
MutStaysMuted(sink) ==
  /\ running
  /\ sink \in playing
  /\ playing' = playing \ {sink}
  /\ IF eringtones \in playing' THEN UNCHANGED vibVars ELSE CancelVibrate
  /\ heard' = (heard /\ sink # eringtones)
  /\ UNCHANGED <<vars, running, outlived, muted, headset>>

\* LastStreamClosed: "stop vibrating & unmute for the next time".
LastStreamClosed(sink) ==
  /\ running
  /\ sink \in playing
  /\ playing' = playing \ {sink}
  /\ IF eringtones \in playing'
     THEN UNCHANGED <<muted, vibVars>>
     ELSE CancelVibrate /\ muted' = FALSE
  /\ heard' = (heard /\ sink # eringtones)
  /\ UNCHANGED <<vars, running, outlived, headset>>

-----------------------------------------------------------------------------
(* Requests and calls.                                                     *)

\* setMuted(true)
Mute ==
  /\ running
  /\ UNCHANGED vars
  /\ CancelVibrate
  /\ IF muted \/ eringtones \in playing
     THEN muted' = TRUE /\ ProgramRingToneVolumes(playing, TRUE)
     ELSE UNCHANGED <<muted, heard>>
  /\ UNCHANGED <<running, outlived, playing, headset>>

\* _setMuted(false)
SetUnmuted ==
  /\ running
  /\ muted
  /\ UNCHANGED vars
  /\ Unmute(playing)
  /\ UNCHANGED <<running, outlived, playing, vibVars, headset>>

\* An alarm, a timer or an alert ends or is muted: the device is shared.
OtherCancels ==
  /\ running
  /\ CancelVibrate
  /\ UNCHANGED <<vars, running, outlived, playing, muted, heard, headset>>

PlugHeadset ==
  /\ running
  /\ headset' = ~headset
  /\ UNCHANGED <<vars, running, outlived, playing, muted, heard, vibVars>>

\* makeCurrent programs the software mixer.
FocusProgrammed ==
  IF focus' = focus THEN UNCHANGED heard ELSE ProgramRingToneVolumes(playing, muted)

\* setCallMode; the end of the last call unmutes the ringtone "for the next call".
CallStep(l) ==
  /\ running
  /\ CallStatusUpdate(l)
  /\ IF line'[l] = "idle" /\ numVoip' = 0 /\ muted
     THEN Unmute(playing)
     ELSE FocusProgrammed /\ UNCHANGED muted
  /\ outlived' = (outlived /\ ~AllIdle')
  /\ UNCHANGED <<running, playing, vibVars, headset>>

VvmStep ==
  /\ running
  /\ StartVvm \/ EndVvm
  /\ FocusProgrammed
  /\ UNCHANGED <<running, outlived, playing, muted, vibVars, headset>>

\* Mutant: setRingerOn does not program the mixer.
MutSwitchOnly ==
  /\ running
  /\ SwitchRinger
  /\ UNCHANGED ringVars

\* setRingerOn, programSoftwareMixer
RingerStep ==
  /\ running
  /\ SwitchRinger
  /\ ProgramRingToneVolumes(playing, muted)
  /\ UNCHANGED <<running, outlived, playing, muted, vibVars, headset>>

\* programSoftwareMixer for any other reason
ProgramSoftwareMixer ==
  /\ running
  /\ UNCHANGED vars
  /\ ProgramRingToneVolumes(playing, muted)
  /\ UNCHANGED <<running, outlived, playing, muted, vibVars, headset>>

-----------------------------------------------------------------------------
(* The buzz, and the end of the process.                                   *)

\* _fakeBuzz reads its count from the address 1.
FakeBuzz ==
  /\ running
  /\ buzzes > 0
  /\ running' = FALSE
  /\ UNCHANGED <<vars, outlived, playing, muted, heard, vibVars, headset>>

\* audiod starts again.  Calls have begun, gone on or ended with nobody to tell, and it
\* is told of none; streams that are still open are told again as they open.
Respawn ==
  /\ ~running
  /\ line' \in [Lines -> {"idle", "ringing", "dialing", "answered"}]
  /\ outlived' = ~AllIdle'
  /\ numVoip' = 0 /\ onActiveCall' = FALSE /\ incoming' = FALSE
  /\ phoneStatus' = "disconnected"
  /\ focus' = "media" /\ vvmActive' = FALSE
  /\ mediaMuted' = FALSE /\ savedPause' = FALSE
  /\ running' = TRUE
  /\ playing' = {} /\ muted' = FALSE /\ heard' = FALSE
  /\ vibrating' = FALSE /\ buzzing' = FALSE /\ buzzes' = 0
  /\ UNCHANGED <<ringerOn, headset>>

RingNext ==
  \/ RingtoneOpens \/ SpeechOpens
  \/ \E sink \in {eringtones, etts} : LastStreamClosed(sink)
  \/ Mute \/ SetUnmuted \/ OtherCancels \/ PlugHeadset
  \/ \E l \in Lines : CallStep(l)
  \/ VvmStep \/ RingerStep \/ ProgramSoftwareMixer
  \/ FakeBuzz \/ Respawn

RingSpec == RingInit /\ [][RingNext]_rvars

-----------------------------------------------------------------------------
(* Properties.                                                             *)

\* Someone who talks is heard through phone, whatever the other lines, vvm and the
\* ringtone have done.  Exception: calls older than audiod, and those told of before the
\* last of them is over.  audiod does not count the older ones (state.cpp:710), so that
\* their end may take the focus from another call.
TalkerHasFocus == ~outlived => AnsweredCallHasFocus

\* A ringtone is heard exactly while the ringer is on, the user has not muted it and
\* phone has not the focus, whatever was switched, answered or ended since it opened.
RingIsHeard ==
  eringtones \in playing => (heard <=> (ringerOn /\ ~muted /\ focus # "phone"))

\* A mute lasts as long as the ringtone it silences, and never into the next call's
\* (ringtone.cpp, "unmute for the next time").
MuteLastsOneRing == muted => eringtones \in playing

\* audiod has nothing vibrate or buzz once the ringtone is over, however it ended.  (What
\* a former audiod started in the vibrator's service is not known to it.)
VibrationFollowsRing == vibrating \/ buzzing => eringtones \in playing
=============================================================================
