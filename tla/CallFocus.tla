----------------------------- MODULE CallFocus -----------------------------
(***************************************************************************)
(* Who has the focus: media, phone or visual voice mail (vvm), as calls    *)
(* come and go.  state.cpp (setCallMode, setOnActiveCall,                  *)
(* setIncomingCallActive, the saved pause), vvm.cpp, and the part of       *)
(* media.cpp that mutes and unmutes the media module.                      *)
(*                                                                         *)
(* The phone application tells audiod of each change of a line (method     *)
(* callStatusUpdate); vvm is started and stopped by request, and stopped   *)
(* when a media stream opens.  Calls are VoIP: of a carrier's calls the    *)
(* program only keeps the call mode.  Voice command is left out:           *)
(* mVoiceCommandEnabled is false and nothing sets it.                      *)
(***************************************************************************)
EXTENDS Integers, FiniteSets

CONSTANT Lines  \* the lines of the phone application

ASSUME CallFocusAssumption == IsFiniteSet(Lines)

VARIABLES
  line,         \* the phone application's own state of each line
  numVoip,      \* mNumVoip
  onActiveCall, \* mOnActiveCall (equal to mVoip)
  incoming,     \* mIncomingCallActive (equal to mIncomingVoipCallActive)
  phoneStatus,  \* mPhoneStatus
  ringerOn,     \* the ringer switch
  focus,        \* sCurrentModule
  vvmActive,    \* mVvmActive
  mediaMuted,   \* mMuted of the media module
  savedPause    \* mPauseAllMediaSaved: the media server was told to pause

callVars == <<numVoip, onActiveCall, incoming, phoneStatus>>
mediaVars == <<mediaMuted, savedPause>>
vars == <<line, numVoip, onActiveCall, incoming, phoneStatus, ringerOn, focus,
          vvmActive, mediaMuted, savedPause>>

TypeOK ==
  /\ line \in [Lines -> {"idle", "ringing", "dialing", "answered"}]
  /\ numVoip \in 0 .. Cardinality(Lines)
  /\ onActiveCall \in BOOLEAN
  /\ incoming \in BOOLEAN
  /\ phoneStatus \in {"disconnected", "incoming", "dialing", "connected"}
  /\ ringerOn \in BOOLEAN
  /\ focus \in {"media", "phone", "vvm"}
  /\ vvmActive \in BOOLEAN
  /\ mediaMuted \in BOOLEAN
  /\ savedPause \in BOOLEAN

Init ==
  /\ line = [l \in Lines |-> "idle"]
  /\ numVoip = 0
  /\ onActiveCall = FALSE
  /\ incoming = FALSE
  /\ phoneStatus = "disconnected"
  /\ ringerOn \in BOOLEAN
  /\ focus = "media"
  /\ vvmActive = FALSE
  /\ mediaMuted = FALSE
  /\ savedPause = FALSE

-----------------------------------------------------------------------------
(* Pieces of handlers; each says what becomes of some variables.           *)

\* stopVvm: without the focus it changes nothing.  With it, no call is active
\* or phone would have it: media becomes current, which unmutes it, and what
\* was paused resumes.  f, a, m, p: focus, vvmActive, mediaMuted, savedPause.
StopVvm(f, a, m, p) ==
  IF f = "vvm" THEN [focus |-> "media", vvm |-> FALSE, muted |-> FALSE, paused |-> FALSE]
  ELSE [focus |-> f, vvm |-> a, muted |-> m, paused |-> p]

\* setIncomingCallActive(true) takes the focus from vvm, once.
BeforeCall ==
  IF incoming
  THEN [focus |-> focus, vvm |-> vvmActive, muted |-> mediaMuted, paused |-> savedPause]
  ELSE StopVvm(focus, vvmActive, mediaMuted, savedPause)

\* Mutant: nothing resumes.
MutNotResumed(status, p) ==
  IF status = phoneStatus THEN p
  ELSE CASE status = "incoming"     -> p \/ ringerOn
         [] status = "disconnected" -> p
         [] OTHER                   -> TRUE

\* phoneStatusChanged, called by mPhoneStatus when its value changes.
PausedBy(status, p) ==
  IF status = phoneStatus THEN p
  ELSE CASE status = "incoming"     -> p \/ ringerOn
         [] status = "disconnected" -> FALSE
         [] OTHER                   -> TRUE

SetPhoneStatus(status, p) ==
  /\ phoneStatus' = status
  /\ savedPause' = PausedBy(status, p)

\* setOnActiveCall: phone becomes current for a call and media after it.
SetOnActiveCall(on) ==
  /\ onActiveCall' = on
  /\ focus' = IF on = onActiveCall THEN focus ELSE IF on THEN "phone" ELSE "media"

-----------------------------------------------------------------------------
(* setCallMode(voip, status), one action per status; onHold and connecting *)
(* change nothing.                                                         *)

\* A line rings.  During a call it only plays a tone.
Incoming(l) ==
  /\ line[l] = "idle"
  /\ line' = [line EXCEPT ![l] = "ringing"]
  /\ numVoip' = numVoip + 1
  /\ IF onActiveCall
     THEN UNCHANGED <<incoming, phoneStatus, focus, vvmActive, mediaVars>>
     ELSE LET b == BeforeCall
          IN  /\ incoming' = TRUE
              /\ focus' = b.focus
              /\ vvmActive' = b.vvm
              /\ mediaMuted' = (b.muted \/ ringerOn)
              /\ SetPhoneStatus("incoming", b.paused)
  /\ UNCHANGED <<onActiveCall, ringerOn>>

\* A line dials: unless a call is active already, phone gets the focus.
Dialing(l) ==
  /\ line[l] = "idle"
  /\ line' = [line EXCEPT ![l] = "dialing"]
  /\ numVoip' = numVoip + 1
  /\ IF onActiveCall
     THEN UNCHANGED <<onActiveCall, incoming, phoneStatus, focus, vvmActive, mediaVars>>
     ELSE LET b == BeforeCall
          IN  /\ incoming' = TRUE
              /\ SetOnActiveCall(TRUE)
              /\ vvmActive' = b.vvm
              /\ mediaMuted' = TRUE
              /\ SetPhoneStatus("dialing", b.paused)
  /\ UNCHANGED ringerOn

\* A call is answered, or goes on after a hold: phone gets the focus, without stopVvm.
Active(l) ==
  /\ line[l] # "idle"
  /\ line' = [line EXCEPT ![l] = "answered"]
  /\ IF onActiveCall
     THEN UNCHANGED <<onActiveCall, incoming, phoneStatus, focus, mediaVars>>
     ELSE /\ incoming' = FALSE
          /\ SetOnActiveCall(TRUE)
          /\ mediaMuted' = TRUE
          /\ SetPhoneStatus("connected", savedPause)
  /\ UNCHANGED <<numVoip, ringerOn, vvmActive>>

\* Mutant: any call that ends is taken for the last.
MutAlwaysLast == 0

\* Only the last call counts.  Media becomes current if a call was active.
CallsLeft == IF numVoip > 0 THEN numVoip - 1 ELSE 0

Disconnected(l) ==
  /\ line[l] # "idle"
  /\ line' = [line EXCEPT ![l] = "idle"]
  /\ numVoip' = CallsLeft
  /\ IF CallsLeft > 0
     THEN UNCHANGED <<onActiveCall, incoming, phoneStatus, focus, mediaVars>>
     ELSE /\ incoming' = FALSE
          /\ SetOnActiveCall(FALSE)
          /\ mediaMuted' = FALSE
          /\ SetPhoneStatus("disconnected", savedPause)
  /\ UNCHANGED <<ringerOn, vvmActive>>

\* _callStatusUpdate, one line of the array at a time.
CallStatusUpdate(l) == Incoming(l) \/ Dialing(l) \/ Active(l) \/ Disconnected(l)

-----------------------------------------------------------------------------
(* Visual voice mail.                                                      *)

\* _VvmControl(active) and startVvm: denied during a call.
StartVvm ==
  /\ ~vvmActive
  /\ focus = "media"
  /\ focus' = "vvm"
  /\ vvmActive' = TRUE
  /\ mediaMuted' = TRUE
  /\ savedPause' = TRUE
  /\ UNCHANGED <<line, callVars, ringerOn>>

\* _VvmControl(not active), and a media stream that opens (onSinkChanged).
EndVvm ==
  LET b == StopVvm(focus, vvmActive, mediaMuted, savedPause) IN
  /\ vvmActive
  /\ focus' = b.focus
  /\ vvmActive' = b.vvm
  /\ mediaMuted' = b.muted
  /\ savedPause' = b.paused
  /\ UNCHANGED <<line, callVars, ringerOn>>

SwitchRinger ==
  /\ ringerOn' = ~ringerOn
  /\ UNCHANGED <<line, callVars, focus, vvmActive, mediaVars>>

-----------------------------------------------------------------------------
Next ==
  \/ \E l \in Lines : CallStatusUpdate(l)
  \/ StartVvm
  \/ EndVvm
  \/ SwitchRinger

Spec == Init /\ [][Next]_vars

-----------------------------------------------------------------------------
(* Properties.                                                             *)

AllIdle == \A l \in Lines : line[l] = "idle"

\* mNumVoip is the number of lines that ring, dial or talk.
CallsAreCounted == numVoip = Cardinality({l \in Lines : line[l] # "idle"})

\* Someone who talks on any line is heard through phone, whatever the other
\* lines and vvm have done.
AnsweredCallHasFocus ==
  (\E l \in Lines : line[l] = "answered") => (onActiveCall /\ focus = "phone")

\* phone has the focus exactly while audiod believes a call is active.
FocusFollowsCall == onActiveCall <=> (focus = "phone")

\* When every call is over and media is current, nothing of them is left:
\* media is not muted, the media server is not told to pause, no call is
\* believed to come in.
QuietAfterCalls ==
  AllIdle => /\ ~incoming /\ phoneStatus = "disconnected"
             /\ focus = "media" => (~mediaMuted /\ ~savedPause)

\* Only the end of the last call takes the focus from phone.
PhoneKeepsFocus ==
  [][focus = "phone" /\ focus' # "phone" => AllIdle']_vars
=============================================================================
