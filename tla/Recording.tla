----------------------------- MODULE Recording -----------------------------
(***************************************************************************)
(* Whether the device records: the input half of PulseAudioMixer.cpp and   *)
(* State::updateIsRecording.                                               *)
(*                                                                         *)
(* PulseAudio announces every input stream that opens and closes; audiod   *)
(* counts them, except those of the voice activator, and acts on the first *)
(* and the last.  The media server and a request to force the microphone   *)
(* on count as well.  When nothing needs the microphone any more, it is    *)
(* kept on for a second: a timer of the main loop calls updateIsRecording  *)
(* again, and is never removed when recording starts again meanwhile.      *)
(*                                                                         *)
(* The Bluetooth side of the source eqvoice is left out, and so are the    *)
(* mute commands and setPhoneRecording, which AudioDevice ignores.         *)
(***************************************************************************)
EXTENDS Integers, FiniteSetsExt

CONSTANTS
  Counted,          \* the sources that are counted
  evoiceactivator,  \* the one that is not
  MaxInputs,        \* bound: streams open at once on a source
  Hold,             \* the second the microphone is kept on, in ticks
  MaxTimers         \* bound: timers pending at once

Sources == Counted \cup {evoiceactivator}

ASSUME RecordingAssumption ==
  /\ evoiceactivator \notin Counted
  /\ MaxInputs \in Nat
  /\ Hold \in Nat \ {0}
  /\ MaxTimers \in Nat

None == -1

VARIABLES
  open,           \* the streams PulseAudio has announced, of each source
  onCall,         \* mOnActiveCall
  inputCount,     \* mInputStreamsCurrentlyOpenedCount
  recordOpened,   \* mRecordOpened, for notifications
  inputActive,    \* mInputStreamActive
  mediaRecording, \* mMediaserverIsRecording
  forced,         \* mForceMicOn
  recording,      \* what the device was last told: setRecording
  keep,           \* ticks until sKeepRecordingUntil, None if that is 0
  keepTimers,     \* keepTimers[i]: those that expire in i ticks
  idle            \* history: ticks since the microphone was last needed

inputVars == <<open, inputCount, recordOpened, inputActive>>
deviceVars == <<recording, keep, keepTimers>>
recordingVars == <<inputVars, onCall, mediaRecording, forced, deviceVars, idle>>

RecordingTypeOK ==
  /\ open \in [Sources -> 0 .. MaxInputs]
  /\ inputCount \in Nat
  /\ {onCall, recordOpened, inputActive, mediaRecording, forced, recording}
       \subseteq BOOLEAN
  /\ keep \in None .. Hold
  /\ keepTimers \in [0 .. Hold -> Nat]
  /\ idle \in 0 .. Hold

RecordingInit ==
  /\ open = [s \in Sources |-> 0]
  /\ onCall = FALSE
  /\ inputCount = 0
  /\ recordOpened = FALSE
  /\ inputActive = FALSE
  /\ mediaRecording = FALSE
  /\ forced = FALSE
  /\ recording = FALSE
  /\ keep = None
  /\ keepTimers = [i \in 0 .. Hold |-> 0]
  /\ idle = Hold

-----------------------------------------------------------------------------
\* isRecording
IsRecording == inputActive \/ mediaRecording \/ forced

\* The device is told; the deadline is withdrawn.
Tell(should, tm) == recording' = should /\ keep' = None /\ keepTimers' = tm

\* Mutant: no timer is armed with the deadline.
MutNoTimer(tm) == keep' = Hold /\ keepTimers' = tm /\ UNCHANGED recording

\* The deadline is set, and a timer for it.
KeepOn(tm) ==
  /\ keep' = Hold
  /\ keepTimers' = [tm EXCEPT ![Hold] = @ + 1]
  /\ UNCHANGED recording

Wait(tm) == keepTimers' = tm /\ UNCHANGED <<recording, keep>>

\* Mutant: the deadline is not compared with the time.
MutAnyTimer(should, tm) ==
  IF ~should /\ recording /\ keep = None THEN KeepOn(tm) ELSE Tell(should, tm)

\* updateIsRecording: the device is told at once that it must record, and a
\* second late that it need not.  tm are the timers still pending.
UpdateIsRecording(should, tm) ==
  CASE should = recording -> Tell(should, tm)
    [] should # recording /\ ~should /\ keep = None -> KeepOn(tm)
    [] should # recording /\ (should \/ keep = 0) -> Tell(should, tm)
    [] OTHER -> Wait(tm)

\* The needs have changed, and updateIsRecording hears of it.
NeedsChange == UpdateIsRecording(IsRecording', keepTimers)

History == idle' = IF IsRecording' THEN 0 ELSE idle

-----------------------------------------------------------------------------
(* Input streams.                                                          *)

\* setActiveInputStream, by way of onInputStreamActiveChanged.
SetActiveInputStream(active) ==
  /\ inputActive' = active
  /\ NeedsChange

\* inputStreamOpened for k streams of s: the first matters, outside a call.
InputStreamsOpened(s, k) ==
  /\ inputCount' = IF s = evoiceactivator THEN inputCount ELSE inputCount + k
  /\ IF inputCount = 0 /\ ~onCall
     THEN /\ recordOpened' = (recordOpened \/ s # evoiceactivator)
          /\ SetActiveInputStream(TRUE)
     ELSE UNCHANGED <<recordOpened, inputActive, deviceVars>>

\* Mutant: closing is ignored during a call, as opening is.
MutNotInCalls(s) ==
  LET left == IF s = evoiceactivator THEN inputCount ELSE inputCount - 1 IN
  /\ inputCount' = Max({0, left})
  /\ IF left <= 0 /\ ~onCall
     THEN /\ recordOpened' = (recordOpened /\ s = evoiceactivator)
          /\ SetActiveInputStream(FALSE)
     ELSE UNCHANGED <<recordOpened, inputActive, deviceVars>>

\* inputStreamClosed: the last matters, outside a call or while recording.
InputStreamClosed(s) ==
  LET left == IF s = evoiceactivator THEN inputCount ELSE inputCount - 1 IN
  /\ inputCount' = Max({0, left})
  /\ IF left <= 0 /\ (~onCall \/ recording)
     THEN /\ recordOpened' = (recordOpened /\ s = evoiceactivator)
          /\ SetActiveInputStream(FALSE)
     ELSE UNCHANGED <<recordOpened, inputActive, deviceVars>>

\* Message 'd' of PulseAudio.
InputOpens(s) ==
  /\ open[s] < MaxInputs
  /\ UNCHANGED <<onCall, mediaRecording, forced>>
  /\ open' = [open EXCEPT ![s] = @ + 1]
  /\ InputStreamsOpened(s, 1)
  /\ History

\* Message 'k'.
InputCloses(s) ==
  /\ open[s] > 0
  /\ UNCHANGED <<onCall, mediaRecording, forced>>
  /\ open' = [open EXCEPT ![s] = @ - 1]
  /\ InputStreamClosed(s)
  /\ History

\* Message 'I': k streams of s were open before audiod connected.
StreamsAlreadyOpen(s, k) ==
  /\ \A r \in Sources : open[r] = 0
  /\ UNCHANGED <<onCall, mediaRecording, forced>>
  /\ open' = [open EXCEPT ![s] = k]
  /\ InputStreamsOpened(s, k)
  /\ History

\* _connectSocket to a new PulseAudio: what was counted closes, with a source
\* past the last one; of these closings only that of the last counts.
Reconnect ==
  /\ UNCHANGED <<onCall, mediaRecording, forced>>
  /\ open' = [s \in Sources |-> 0]
  /\ inputCount' = 0
  /\ IF inputCount > 0 /\ (~onCall \/ recording)
     THEN recordOpened' = FALSE /\ SetActiveInputStream(FALSE)
     ELSE UNCHANGED <<recordOpened, inputActive, deviceVars>>
  /\ History

-----------------------------------------------------------------------------
(* The other needs, calls, time.                                           *)

\* setMediaServerIsRecording, called when mRecordingAudio changes.
SetMediaServerIsRecording ==
  /\ mediaRecording' = ~mediaRecording
  /\ UNCHANGED <<inputVars, onCall, forced>>
  /\ NeedsChange
  /\ History

\* setForceMicOn, whatever it was before.
SetForceMicOn ==
  /\ forced' \in BOOLEAN
  /\ UNCHANGED <<inputVars, onCall, mediaRecording>>
  /\ NeedsChange
  /\ History

\* setOnActiveCall
SetOnActiveCall ==
  /\ onCall' = ~onCall
  /\ UNCHANGED <<inputVars, mediaRecording, forced, deviceVars, idle>>

\* _updateIsRecordingCallback
TimerExpires ==
  /\ keepTimers[0] > 0
  /\ UpdateIsRecording(IsRecording, [keepTimers EXCEPT ![0] = @ - 1])
  /\ UNCHANGED <<inputVars, onCall, mediaRecording, forced, idle>>

\* Time passes; the main loop may be late with the timers that have expired.
Tick ==
  /\ keep' = IF keep > 0 THEN keep - 1 ELSE keep
  /\ keepTimers' = [i \in 0 .. Hold |->
                      IF i = 0 THEN keepTimers[0] + keepTimers[1]
                      ELSE IF i < Hold THEN keepTimers[i + 1] ELSE 0]
  /\ idle' = IF IsRecording THEN 0 ELSE Min({idle + 1, Hold})
  /\ UNCHANGED <<inputVars, onCall, mediaRecording, forced, recording>>

-----------------------------------------------------------------------------
TimersBounded == MapThenSumSet(LAMBDA i : keepTimers'[i], 0 .. Hold) <= MaxTimers

NextStream ==
  \/ \E s \in Sources : InputOpens(s) \/ InputCloses(s)
  \/ \E s \in Counted, k \in 1 .. MaxInputs : StreamsAlreadyOpen(s, k)
  \/ Reconnect

NextNeed ==
  \/ SetMediaServerIsRecording
  \/ SetForceMicOn
  \/ SetOnActiveCall

RecordingNext ==
  \/ (NextStream \/ NextNeed) /\ TimersBounded
  \/ TimerExpires
  \/ Tick

\* Time passes and the main loop dispatches every expired timer.
RecordingFairness == WF_recordingVars(TimerExpires) /\ WF_recordingVars(Tick)

RecordingSpec == RecordingInit /\ [][RecordingNext]_recordingVars /\ RecordingFairness

-----------------------------------------------------------------------------
(* Properties.                                                             *)

Mic == INSTANCE Microphone WITH needed <- IsRecording, on <- recording

\* The device is told to stop only after a whole second without need, though
\* timers of earlier seconds are pending and call updateIsRecording.
KeptForASecond == [][recording /\ ~recording' => idle = Hold]_recordingVars

\* Whatever streams open and close, in calls or not, and whichever timers of
\* updateIsRecording are pending, the device records from the moment that it is
\* needed until a whole second after the last need, and neither starts nor stops
\* otherwise.
ImplementsMicrophone == Mic!MicSpec

\* Once nothing needs the microphone any more it is turned off, for good.
MicrophoneReleased == (<>[]~IsRecording) => <>[]~recording

\* When the last stream of all closes, in a call or not, no input is active.
LastCloseIsSeen ==
  [][\A s \in Sources :
       (InputCloses(s) /\ \A r \in Sources : open'[r] = 0) => ~inputActive']_recordingVars
=============================================================================
