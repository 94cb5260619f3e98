------------------------------ MODULE UmiMixer ------------------------------
(***************************************************************************)
(* The UMI mixer: umiaudiomixer.cpp, the dispatcher of /UMI, the mock UMI  *)
(* module, /master (volumeSettings.cpp) and /soundSettings.                *)
(*                                                                         *)
(* audiod keeps no sound path of its own here: every request of a client   *)
(* becomes a call to the service com.webos.service.audiooutput, whose one  *)
(* reply is forwarded to the client from a callback.  Meanwhile audiod     *)
(* holds a reference to the client's message.  After each connect and      *)
(* disconnect it asks the service for its status, for the subscribers.     *)
(*                                                                         *)
(* The service and the hub are external: a call is performed and answered, *)
(* or answered by the hub when the service is down; replies come in the    *)
(* order they were sent.  A reply that has no returnValue is "garbled".     *)
(* Messages of clients that do not parse are left out.                     *)
(***************************************************************************)
EXTENDS Integers, Sequences, FiniteSets

CONSTANTS
  Requests,     \* the clients' messages that may be pending at once
  MaxConnected, \* bound: connections of the service
  MaxNotifies   \* bound: status calls on behalf of subscribers in flight

NoCall == "none"
Methods == {"master", "soundOut", "connect", "disconnect", "status"}

Nobody == "nobody"  \* asks for the status on behalf of the subscribers

ASSUME UmiMixerAssumption ==
  /\ IsFiniteSet(Requests)
  /\ Nobody \notin Requests
  /\ MaxConnected \in Nat
  /\ MaxNotifies \in Nat

Status == 0 .. MaxConnected
NotSubscribed == -2
NoStatus == -1      \* subscribed, and sent no status yet, or an error

VARIABLES
  configured, \* the mixer exists: mixerObj, mixerHandle are not null
  ready,      \* mIsReadyToProgram
  waiting,    \* the client has sent its message and has no answer
  refs,       \* references audiod holds to each client's message
  told,       \* the status each subscriber was last sent
  calls,      \* the call made for each message and not yet answered
  notifies,   \* status calls without a message, not yet answered
  replies,    \* replies on their way to audiod's callbacks
  serviceUp,  \* the service is up
  connected,  \* how many connections it has
  stale       \* history: a status the subscribers need was lost

mixerVars == <<configured, ready>>
clientVars == <<waiting, refs, told>>
busVars == <<calls, notifies, replies>>
outVars == <<serviceUp, connected>>
umiVars == <<mixerVars, clientVars, busVars, outVars, stale>>

Reply == [to : Requests \cup {Nobody}, method : Methods,
          garbled : BOOLEAN, status : Status \cup {NoStatus}]

UmiTypeOK ==
  /\ {configured, ready, serviceUp, stale} \subseteq BOOLEAN
  /\ connected \in Status
  /\ waiting \in [Requests -> BOOLEAN]
  /\ refs \in [Requests -> 0 .. 1]
  /\ told \in [Requests -> Status \cup {NotSubscribed, NoStatus}]
  /\ calls \in [Requests -> Methods \cup {NoCall}]
  /\ notifies \in 0 .. MaxNotifies
  /\ replies \in Seq(Reply)

\* The mixer exists when the configuration lists it (mixerInit).
UmiInit ==
  /\ configured \in BOOLEAN
  /\ ready = FALSE
  /\ waiting = [s \in Requests |-> FALSE]
  /\ refs = [s \in Requests |-> 0]
  /\ told = [s \in Requests |-> NotSubscribed]
  /\ calls = [s \in Requests |-> NoCall]
  /\ notifies = 0
  /\ replies = <<>>
  /\ serviceUp \in BOOLEAN
  /\ connected = 0
  /\ stale = FALSE

-----------------------------------------------------------------------------
(* The mixer: each of its methods makes one LSCallOneReply, if the service *)
(* is known to be up.                                                      *)

CallOneReply(s, method) ==
  /\ configured
  /\ ready
  /\ calls' = [calls EXCEPT ![s] = method]
  /\ UNCHANGED <<notifies, replies>>

setMasterVolume(s) == CallOneReply(s, "master")
getMasterVolume(s) == CallOneReply(s, "master")
masterVolumeUp(s) == CallOneReply(s, "master")
masterVolumeDown(s) == CallOneReply(s, "master")
masterVolumeMute(s) == CallOneReply(s, "master")
setSoundOut(s) == CallOneReply(s, "soundOut")
connectAudio(s) == CallOneReply(s, "connect")
disconnectAudio(s) == CallOneReply(s, "disconnect")
getConnectionStatus(s) == CallOneReply(s, "status")

\* audiodOutputdServiceStatusCallBack, some time after the service's change.
ServiceStatusCallBack ==
  /\ configured
  /\ ready # serviceUp
  /\ ready' = serviceUp
  /\ UNCHANGED <<configured, clientVars, busVars, outVars, stale>>

-----------------------------------------------------------------------------
(* Requests of clients.                                                    *)

\* A message that is not pending; a subscriber's stays with its subscription.
Arrives(s) == ~waiting[s] /\ refs[s] = 0 /\ told[s] = NotSubscribed

\* Mutant: the message is not referenced while its call is in flight.
MutNotReferenced(s) ==
  /\ waiting' = [waiting EXCEPT ![s] = TRUE]
  /\ UNCHANGED refs

\* The call is made: the message is kept, with one more reference.
Keep(s) ==
  /\ waiting' = [waiting EXCEPT ![s] = TRUE]
  /\ refs' = [refs EXCEPT ![s] = 1]

\* No mixer, or its call failed: an error is the answer, and it is at once.
Refuse(s) == UNCHANGED <<waiting, refs, busVars>>

Ask(s, Sent) ==
  /\ Arrives(s)
  /\ (Sent /\ Keep(s)) \/ Refuse(s)
  /\ UNCHANGED <<mixerVars, told, outVars, stale>>

\* _setVolume and its fellows of /master, _SetSoundOut of /soundSettings.
SetVolume(s) == Ask(s, setMasterVolume(s))
GetVolume(s) == Ask(s, getMasterVolume(s))
MuteVolume(s) == Ask(s, masterVolumeMute(s))
VolumeUp(s) == Ask(s, masterVolumeUp(s))
VolumeDown(s) == Ask(s, masterVolumeDown(s))
SetSoundOut(s) == Ask(s, setSoundOut(s))

\* connectAudioOut, disconnectAudioOut of the mock module
ConnectAudioOut(s) == Ask(s, connectAudio(s))
DisconnectAudioOut(s) == Ask(s, disconnectAudio(s))

\* No module for the audio type: an error at once.
UnknownType(s) == Ask(s, FALSE)

\* _connectAudioOut, _disconnectAudioOut of the dispatcher
DispatchConnect(s) == ConnectAudioOut(s) \/ UnknownType(s)
DispatchDisconnect(s) == DisconnectAudioOut(s) \/ UnknownType(s)

\* _mute: nothing but success.
Mute(s) ==
  /\ Arrives(s)
  /\ UNCHANGED umiVars

\* getAudioOutputStatus for a message: it is referenced before the call, and
\* stays so when the call fails and the client has its error.
getAudioOutputStatus(s, subscribe) ==
  \/ getConnectionStatus(s) /\ Keep(s) /\ UNCHANGED stale
  \/ /\ refs' = [refs EXCEPT ![s] = 1]
     /\ stale' = (stale \/ subscribe)
     /\ UNCHANGED <<waiting, busVars>>

\* _getStatus: the subscription first.
GetStatus(s, subscribe) ==
  /\ Arrives(s)
  /\ told' = [told EXCEPT ![s] = IF subscribe THEN NoStatus ELSE NotSubscribed]
  /\ getAudioOutputStatus(s, subscribe)
  /\ UNCHANGED <<mixerVars, outVars>>

\* The hub forgets a subscriber that cancels or goes away.
Unsubscribe(s) ==
  /\ told[s] # NotSubscribed
  /\ ~waiting[s]
  /\ told' = [told EXCEPT ![s] = NotSubscribed]
  /\ UNCHANGED <<mixerVars, waiting, refs, busVars, outVars, stale>>

-----------------------------------------------------------------------------
(* The service and the hub (external).                                     *)

\* What a call leaves connected.
Effect(method) ==
  CASE method = "connect" -> connected + 1
    [] method = "disconnect" -> connected - 1
    [] OTHER -> connected

\* A reply without the status is lost on the subscribers until the next that
\* all of them get; so is a connect whose garbled reply sets off no status.
Stale(r) ==
  CASE r.method = "status" /\ r.to = Nobody -> r.garbled \/ r.status = NoStatus
    [] r.method = "status" /\ r.to # Nobody -> stale \/ r.garbled \/ r.status = NoStatus
    [] r.method \in {"connect", "disconnect"} -> stale \/ r.garbled
    [] OTHER -> stale

\* The service performs the call and answers; or it fails, or is down and the
\* hub answers.
Answer(s, method) ==
  \E done, garbled \in BOOLEAN :
    /\ done => serviceUp
    /\ connected' = IF done THEN Effect(method) ELSE connected
    /\ connected' \in Status
    /\ LET r == [to |-> s, method |-> method, garbled |-> garbled,
                 status |-> IF method = "status" /\ done /\ ~garbled
                            THEN connected ELSE NoStatus] IN
       /\ replies' = Append(replies, r)
       /\ stale' = Stale(r)

AnswerRequest(s) ==
  /\ calls[s] # NoCall
  /\ Answer(s, calls[s])
  /\ calls' = [calls EXCEPT ![s] = NoCall]
  /\ UNCHANGED <<mixerVars, clientVars, notifies, serviceUp>>

AnswerNotify ==
  /\ notifies > 0
  /\ Answer(Nobody, "status")
  /\ notifies' = notifies - 1
  /\ UNCHANGED <<mixerVars, clientVars, calls, serviceUp>>

\* The service dies, and starts again with nothing connected.
ServiceDies ==
  /\ serviceUp
  /\ serviceUp' = FALSE
  /\ connected' = 0
  /\ stale' = TRUE
  /\ UNCHANGED <<mixerVars, clientVars, busVars>>

ServiceStarts ==
  /\ ~serviceUp
  /\ serviceUp' = TRUE
  /\ UNCHANGED <<mixerVars, clientVars, busVars, connected, stale>>

-----------------------------------------------------------------------------
(* Replies, dispatched by the main loop in order.                          *)

\* The client gets the reply, whatever it holds, and the message is released.
Respond(s) ==
  /\ waiting' = [waiting EXCEPT ![s] = FALSE]
  /\ refs' = [refs EXCEPT ![s] = 0]

\* The callbacks of /master forward whatever they get.  What they keep besides,
\* mVolume and mMuteStatus, is read by nothing and left out.
Forward(r) ==
  /\ r.method = "master"
  /\ Respond(r.to)
  /\ UNCHANGED <<mixerVars, told, notifies, stale>>

\* Mutant: a reply that does not parse is not forwarded, as elsewhere.
MutParseFirst(r) ==
  /\ r.method = "master"
  /\ IF r.garbled THEN UNCHANGED clientVars ELSE Respond(r.to) /\ UNCHANGED told
  /\ UNCHANGED <<mixerVars, notifies, stale>>

\* _setVolumeCallBack, _getVolumeCallBack, _muteVolumeCallBack, _volumeUpCallBack
\* and _volumeDownCallBack
SetVolumeCallBack(r) == Forward(r)
GetVolumeCallBack(r) == Forward(r)
MuteVolumeCallBack(r) == Forward(r)
VolumeUpCallBack(r) == Forward(r)
VolumeDownCallBack(r) == Forward(r)

\* A reply without returnValue: the callback returns; nobody is answered.
Dropped == UNCHANGED <<mixerVars, clientVars, notifies, stale>>

\* _updateSoundOutStatus
UpdateSoundOutStatus(r) ==
  /\ r.method = "soundOut"
  /\ IF r.garbled THEN Dropped
     ELSE Respond(r.to) /\ UNCHANGED <<mixerVars, told, notifies, stale>>

\* notifyGetStatusSubscribers: one more status call, or none if it fails.
NotifyGetStatusSubscribers ==
  \/ /\ configured /\ ready
     /\ notifies' = notifies + 1
     /\ UNCHANGED stale
  \/ stale' = TRUE /\ UNCHANGED notifies

\* _connectStatusCallback and _disConnectStatusCallback, whether or not the
\* service has connected or disconnected anything.
ConnectStatusCallback(r) ==
  /\ r.method = "connect"
  /\ IF r.garbled THEN Dropped
     ELSE /\ Respond(r.to)
          /\ NotifyGetStatusSubscribers
          /\ UNCHANGED <<mixerVars, told>>

\* Mutant: the subscribers are not told of a disconnect.
MutDisconnectUntold(r) ==
  /\ r.method = "disconnect"
  /\ IF r.garbled THEN Dropped
     ELSE Respond(r.to) /\ UNCHANGED <<mixerVars, told, notifies, stale>>

DisConnectStatusCallback(r) ==
  /\ r.method = "disconnect"
  /\ IF r.garbled THEN Dropped
     ELSE /\ Respond(r.to)
          /\ NotifyGetStatusSubscribers
          /\ UNCHANGED <<mixerVars, told>>

\* _getAudioOutputStatusCallback: to the message that asked, or, for a call
\* without a message, to all subscribers.
GetAudioOutputStatusCallback(r) ==
  /\ r.method = "status"
  /\ IF r.garbled THEN Dropped
     ELSE /\ IF r.to # Nobody
             THEN /\ Respond(r.to)
                  /\ told' = [told EXCEPT ![r.to] = IF @ = NotSubscribed THEN @ ELSE r.status]
             ELSE /\ told' = [s \in Requests |-> IF told[s] = NotSubscribed THEN told[s]
                                         ELSE r.status]
                  /\ UNCHANGED <<waiting, refs>>
          /\ UNCHANGED <<mixerVars, notifies, stale>>

Deliver ==
  /\ replies # <<>>
  /\ replies' = Tail(replies)
  /\ UNCHANGED <<calls, outVars>>
  /\ LET r == Head(replies) IN
       \/ SetVolumeCallBack(r) \/ GetVolumeCallBack(r) \/ MuteVolumeCallBack(r)
       \/ VolumeUpCallBack(r) \/ VolumeDownCallBack(r)
       \/ UpdateSoundOutStatus(r)
       \/ ConnectStatusCallback(r) \/ DisConnectStatusCallback(r)
       \/ GetAudioOutputStatusCallback(r)

-----------------------------------------------------------------------------
Pending == Cardinality({s \in Requests : waiting[s]})
Bounded == Pending + notifies < MaxNotifies

NextRequest(s) ==
  \/ SetVolume(s) \/ GetVolume(s) \/ MuteVolume(s) \/ VolumeUp(s) \/ VolumeDown(s)
  \/ SetSoundOut(s)
  \/ Bounded /\ (DispatchConnect(s) \/ DispatchDisconnect(s))
  \/ Mute(s)
  \/ \E b \in BOOLEAN : GetStatus(s, b)
  \/ Unsubscribe(s)

UmiNext ==
  \/ \E s \in Requests : NextRequest(s) \/ AnswerRequest(s)
  \/ AnswerNotify
  \/ Deliver
  \/ ServiceStatusCallBack
  \/ ServiceDies
  \/ ServiceStarts

\* Every call is answered, by the service or by the hub, and the main loop
\* dispatches every reply.
UmiFairness ==
  /\ \A s \in Requests : WF_umiVars(AnswerRequest(s))
  /\ WF_umiVars(AnswerNotify)
  /\ WF_umiVars(Deliver)

UmiSpec == UmiInit /\ [][UmiNext]_umiVars /\ UmiFairness

-----------------------------------------------------------------------------
(* Properties.                                                             *)

InFlight(s) == (IF calls[s] = NoCall THEN 0 ELSE 1)
               + Cardinality({i \in DOMAIN replies : replies[i].to = s})

\* A client's message is referenced as long as the client waits, and for one
\* call at most, so that no callback answers a message it has released or
\* answers one twice; only requests of /master are sure not to be dropped.
OneAnswerEach ==
  \A s \in Requests :
    /\ waiting[s] => refs[s] = 1
    /\ InFlight(s) <= (IF waiting[s] THEN 1 ELSE 0)

\* When nothing is in flight and no status was lost on the way (by a death of
\* the service, a failed call, an incomplete reply), every subscriber was last
\* sent the number of connections the service has.
Quiet == notifies = 0 /\ replies = <<>> /\ \A s \in Requests : calls[s] = NoCall
SubscribersTold ==
  Quiet /\ ~stale => \A s \in Requests : told[s] \in {NotSubscribed, connected}

\* Every request of /master that was sent on is answered, even when the service
\* dies or its reply makes no sense.
MasterRequestsAnswered ==
  \A s \in Requests :
    calls[s] = "master" ~> ~waiting[s]
=============================================================================
