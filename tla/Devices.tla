------------------------------ MODULE Devices ------------------------------
(***************************************************************************)
(* What is plugged in: headset, USB sound cards, hearing aid and RTP, as   *)
(* udev.cpp, state.cpp and PulseAudioMixer.cpp follow it, over the engine  *)
(* of Scenarios.                                                           *)
(*                                                                         *)
(* Scripts started by udev call audiod for every change, one script after  *)
(* another for a device; a call may arrive long after the change, or while *)
(* audiod is restarted.  audiod sends PulseAudio a command that may fail   *)
(* and is never repeated.  PulseAudio outlives audiod, and the other way   *)
(* round.                                                                  *)
(*                                                                         *)
(* No module registers a scenario for a headset: what setHeadsetState      *)
(* enables and disables is found by none of them.  The phone's only        *)
(* scenario is the one that hacSet takes away.                             *)
(***************************************************************************)
EXTENDS Scenarios, Sequences

CONSTANTS
  Phone,             \* the module of hacSet
  PhoneBackSpeaker,  \* its scenario
  Cards,             \* device files of USB sound cards
  MaxCalls,          \* bound: calls under way for a device
  MaxReplies         \* bound: answers about RTP under way

ASSUME DevicesAssumption ==
  /\ Phone \in FocusModules
  /\ PhoneBackSpeaker \in InitiallyEnabled \ Hardwired
  /\ OwnerOf[PhoneBackSpeaker] = Phone
  /\ {MaxCalls, MaxReplies} \subseteq Nat \ {0}

VARIABLES
  jack,       \* the number in the switch's state file
  jackCalls,  \* calls under way about the headset
  headset,    \* mHeadsetState
  plugged,    \* the cards that have a device file
  cardCalls,  \* cardCalls[c]: calls under way about card c
  rtpLoaded,  \* mRTPLoaded
  replies,    \* answers about RTP under way: was it loaded?
  pulse,      \* in PulseAudio: the headset's route, the cards and RTP
  missed,     \* history: cards whose last command was not sent, or is lost
  stray       \* history: "route" or "rtp" in PulseAudio may be of another audiod,
              \* or of none

deviceVars == <<jack, jackCalls, headset, plugged, cardCalls, rtpLoaded, replies,
                pulse, missed, stray>>
dvars == <<vars, deviceVars>>

HeadsetStates == {"none", "headset", "mic"}

DevicesTypeOK ==
  /\ TypeOK
  /\ jack \in 0 .. 2
  /\ jackCalls \in Seq(HeadsetStates)
  /\ headset \in HeadsetStates
  /\ plugged \subseteq Cards
  /\ cardCalls \in [Cards -> Seq(BOOLEAN)]
  /\ rtpLoaded \in BOOLEAN
  /\ replies \in Seq(BOOLEAN)
  /\ pulse \in [route : BOOLEAN, cards : SUBSET Cards, rtp : BOOLEAN]
  /\ missed \subseteq Cards
  /\ stray \subseteq {"route", "rtp"}

\* PulseAudio when it starts.
FreshPulse == [route |-> FALSE, cards |-> {}, rtp |-> FALSE]

\* What udev's rules make of the switch, and readInitialUdevHeadsetState of the same
\* number: they do not agree.
RuleKind(k) == CASE k = 0 -> "none" [] k = 1 -> "mic" [] k = 2 -> "headset"
InitialKind(k) == CASE k = 0 -> "none" [] k = 1 -> "headset" [] k = 2 -> "mic"

DevicesInit ==
  /\ Init
  /\ jack \in 0 .. 2 /\ jackCalls = <<>>
  /\ headset = InitialKind(jack)
  /\ plugged = {} /\ cardCalls = [c \in Cards |-> <<>>]
  /\ rtpLoaded = FALSE /\ replies = <<>>
  /\ pulse = FreshPulse
  /\ missed = {} /\ stray = {"route", "rtp"}

-----------------------------------------------------------------------------
(* The headset.                                                            *)

\* The switch changes: headset.sh calls /udev/event.
MoveJack(k) ==
  /\ k # jack
  /\ Len(jackCalls) < MaxCalls
  /\ jack' = k
  /\ jackCalls' = Append(jackCalls, RuleKind(k))
  /\ UNCHANGED <<vars, headset, plugged, cardCalls, rtpLoaded, replies, pulse, missed, stray>>

\* programHeadsetRoute: the command is sent once, or not at all.
ProgramHeadsetRoute(new, sent) ==
  IF connected /\ sent
  THEN /\ pulse' = [pulse EXCEPT !.route = (new = "headset")]
       /\ stray' = stray \ {"route"}
  ELSE stray' = stray \cup {"route"} /\ UNCHANGED pulse

\* Mutant: a headset with a microphone does not give the route back either.
MutNotFromMic(new, sent) ==
  IF "mic" \in {new, headset}
  THEN UNCHANGED <<pulse, stray>>
  ELSE ProgramHeadsetRoute(new, sent)

\* setHeadsetRoute: a headset with a microphone has no command.
SetHeadsetRoute(new, sent) ==
  IF new = "mic"
  THEN UNCHANGED <<pulse, stray>>
  ELSE ProgramHeadsetRoute(new, sent)

\* setHeadsetState: what it enables and disables is not registered, and its
\* setCurrentScenarioByPriority find each module on the scenario they would choose.
SetHeadsetState(new, sent) ==
  /\ headset' = new
  /\ IF new = headset THEN UNCHANGED <<pulse, stray>> ELSE SetHeadsetRoute(new, sent)

\* _event of a headset; without audiod the script's call is lost.
HeadsetEvent(sent) ==
  /\ jackCalls # <<>>
  /\ jackCalls' = Tail(jackCalls)
  /\ IF running THEN SetHeadsetState(Head(jackCalls), sent)
     ELSE UNCHANGED <<headset, pulse, stray>>
  /\ UNCHANGED <<vars, jack, plugged, cardCalls, rtpLoaded, replies, missed>>

-----------------------------------------------------------------------------
(* USB sound cards.                                                        *)

\* A card comes or goes: usbsoundcard.sh waits for audiod and PulseAudio, then calls.
MoveCard(c) ==
  LET here == c \notin plugged IN
  /\ Len(cardCalls[c]) < MaxCalls
  /\ plugged' = IF here THEN plugged \cup {c} ELSE plugged \ {c}
  /\ cardCalls' = [cardCalls EXCEPT ![c] = Append(@, here)]
  /\ UNCHANGED <<vars, jack, jackCalls, headset, rtpLoaded, replies, pulse, missed, stray>>

\* Mutant: a removal is passed on as an insertion is.
MutAlwaysIn(c, here) == c \in plugged

\* externalSoundcardPathCheck: the device file is as the call says.
PathCheck(c, here) == (c \in plugged) = here

\* loadUSBSinkSource: a call that comes too late is refused; one that cannot be sent is
\* answered with success all the same.
LoadUSBSinkSource(c, here, sent) ==
  CASE connected /\ ~PathCheck(c, here) -> UNCHANGED <<pulse, missed>>
    [] connected /\ PathCheck(c, here) /\ sent ->
         /\ pulse' = [pulse EXCEPT !.cards = IF here THEN @ \cup {c} ELSE @ \ {c}]
         /\ missed' = missed \ {c}
    [] OTHER -> missed' = missed \cup {c} /\ UNCHANGED pulse

\* _event of a card; without audiod the script's call is lost.
CardEvent(c, sent) ==
  /\ cardCalls[c] # <<>>
  /\ cardCalls' = [cardCalls EXCEPT ![c] = Tail(@)]
  /\ IF running
     THEN LoadUSBSinkSource(c, Head(cardCalls[c]), sent)
     ELSE missed' = missed \cup {c} /\ UNCHANGED pulse
  /\ UNCHANGED <<vars, jack, jackCalls, headset, plugged, rtpLoaded, replies, stray>>

-----------------------------------------------------------------------------
(* Hearing aid, and the engine.                                            *)

\* _hacSet, programHac, hacSet.
HacSet(on) ==
  /\ \/ on /\ PhoneBackSpeaker \in enabled /\ DisableScenario(PhoneBackSpeaker)
     \/ ~on /\ PhoneBackSpeaker \notin enabled /\ EnableScenario(PhoneBackSpeaker)
  /\ UNCHANGED deviceVars

\* The focus moves between media and calls.
FocusMoves(m) ==
  /\ MakeCurrent(m)
  /\ UNCHANGED deviceVars

Connects ==
  /\ AudioMixerConnected
  /\ UNCHANGED deviceVars

-----------------------------------------------------------------------------
(* RTP.                                                                    *)

\* programLoadRTP, sent: PulseAudio loads the module or not, and answers.
ProgramLoadRTP(loads) ==
  /\ connected
  /\ Len(replies) < MaxReplies
  /\ replies' = Append(replies, loads)
  /\ pulse' = [pulse EXCEPT !.rtp = @ \/ loads]

\* _loadRTPModule; refused, or not sent, it changes nothing.
LoadRTP(loads) ==
  /\ running
  /\ ~rtpLoaded
  /\ ProgramLoadRTP(loads)
  /\ rtpLoaded' = TRUE
  /\ UNCHANGED <<vars, jack, jackCalls, headset, plugged, cardCalls, missed, stray>>

\* Mutant: the answer is for the subscribers only.
MutNotCleared ==
  /\ running /\ connected
  /\ replies # <<>>
  /\ replies' = Tail(replies)
  /\ UNCHANGED <<vars, jack, jackCalls, headset, plugged, cardCalls, rtpLoaded, pulse,
                 missed, stray>>

\* rtpSubscriptionReply: a failure, even that of an earlier load, makes it unloaded;
\* a success does not make it loaded.
RtpSubscriptionReply ==
  /\ running /\ connected
  /\ replies # <<>>
  /\ replies' = Tail(replies)
  /\ rtpLoaded' = (rtpLoaded /\ Head(replies))
  /\ stray' = IF ~Head(replies) /\ Len(replies) > 1 THEN stray \cup {"rtp"} ELSE stray
  /\ UNCHANGED <<vars, jack, jackCalls, headset, plugged, cardCalls, pulse, missed>>

\* programUnloadRTP, sent.
ProgramUnloadRTP ==
  /\ connected
  /\ pulse' = [pulse EXCEPT !.rtp = FALSE]
  /\ stray' = stray \ {"rtp"}

\* _unloadRTPModule
UnloadRTP ==
  /\ running
  /\ rtpLoaded
  /\ rtpLoaded' = FALSE
  /\ ProgramUnloadRTP
  /\ ProgramAgain
  /\ UNCHANGED <<jack, jackCalls, headset, plugged, cardCalls, replies, missed>>

-----------------------------------------------------------------------------
(* Failures.                                                               *)

\* _pulseStatus, G_IO_HUP
HangUp ==
  /\ PulseGoneAway
  /\ pulse' = FreshPulse /\ replies' = <<>>
  /\ rtpLoaded' = FALSE
  /\ missed' = Cards /\ stray' = {"route"}
  /\ UNCHANGED <<jack, jackCalls, headset, plugged, cardCalls>>

\* PulseAudio is started again while audiod is not connected to it.
PulseRestarts ==
  /\ ~running \/ ~connected
  /\ pulse # FreshPulse
  /\ pulse' = FreshPulse /\ replies' = <<>>
  /\ missed' = Cards /\ stray' = {"route"}
  /\ UNCHANGED <<vars, jack, jackCalls, headset, plugged, cardCalls, rtpLoaded>>

\* Mutant: the switch is not read.
MutNotRead ==
  /\ Respawn
  /\ headset' = "none"
  /\ rtpLoaded' = FALSE /\ replies' = <<>>
  /\ stray' = {"route", "rtp"}
  /\ UNCHANGED <<jack, jackCalls, plugged, cardCalls, pulse, missed>>

\* audiod starts again: readInitialUdevHeadsetState; the route is not sent, there is
\* no connection yet.
Restart ==
  /\ Respawn
  /\ headset' = InitialKind(jack)
  /\ rtpLoaded' = FALSE /\ replies' = <<>>
  /\ stray' = {"route", "rtp"}
  /\ UNCHANGED <<jack, jackCalls, plugged, cardCalls, pulse, missed>>

DevicesNext ==
  \/ \E k \in 0 .. 2 : MoveJack(k)
  \/ \E sent \in BOOLEAN : HeadsetEvent(sent) \/ \E c \in Cards : CardEvent(c, sent)
  \/ \E c \in Cards : MoveCard(c)
  \/ \E on \in BOOLEAN : HacSet(on)
  \/ \E m \in FocusModules : FocusMoves(m)
  \/ \E loads \in BOOLEAN : LoadRTP(loads)
  \/ RtpSubscriptionReply \/ UnloadRTP
  \/ Connects \/ HangUp \/ PulseRestarts \/ Restart

DevicesSpec == DevicesInit /\ [][DevicesNext]_dvars

-----------------------------------------------------------------------------
(* Properties.                                                             *)

\* When the scripts' calls have arrived, a headset is known if and only if one is
\* plugged in, whatever was lost while audiod was restarted.
HeadsetIsKnown ==
  running /\ jackCalls = <<>> => ((headset = "none") = (jack = 0))

\* PulseAudio's route is that of the headset, from a command that was sent to the next
\* restart of either or command that was not: never a headset that is gone.
RouteFollowsHeadset ==
  running /\ connected /\ "route" \notin stray =>
    /\ headset = "headset" => pulse.route
    /\ headset = "none" => ~pulse.route

\* When the calls about it have arrived, PulseAudio has a card loaded if and only if it
\* is plugged in, however often it came and went meanwhile, or a command is missing.
CardsFollowPlugs ==
  running /\ connected =>
    \A c \in Cards \ missed : cardCalls[c] = <<>> => (c \in pulse.cards) = (c \in plugged)

\* What audiod says of RTP: with no answer under way it takes nothing for loaded that
\* is not, and loses what it has loaded only by a restart, or by the failure of an
\* earlier load that is answered after a later one.
RtpIsKnown ==
  running /\ connected /\ replies = <<>> =>
    /\ rtpLoaded => pulse.rtp
    /\ pulse.rtp => rtpLoaded \/ "rtp" \in stray
=============================================================================
