----------------------------- MODULE PulseMixer -----------------------------
(***************************************************************************)
(* The link of audiod to PulseAudio: controls/pulse/PulseAudioMixer.cpp.   *)
(*                                                                         *)
(* PulseAudio announces on a socket every stream that opens and closes on  *)
(* a virtual sink; audiod counts them, tells its modules of first and last *)
(* streams, and sends back the volume of each sink, skipping a command     *)
(* that a local table says PulseAudio has obeyed already.  PulseAudio may  *)
(* go away and come back at any time; audiod retries on a timer.           *)
(*                                                                         *)
(* The modules are abstracted to the volume they want for each sink: they  *)
(* program it when it changes, when the sink's first stream opens, and for *)
(* all sinks when the mixer connects or the scenario changes.              *)
(***************************************************************************)
EXTENDS Integers, Sequences, SequencesExt, FiniteSetsExt

CONSTANTS
  Sinks,        \* virtual sinks
  NeverMuted,   \* the low latency ones: isNeverMutedSink
  MaxVolume,    \* volumes are 0..MaxVolume
  MaxStreams,   \* bound: streams open at once on a sink
  MaxWire,      \* bound: messages of PulseAudio not yet read
  MinTimeout,   \* cMinTimeout
  MaxTimeout,   \* cMaxTimeout
  SendMayFail,  \* may a non-blocking send to a live PulseAudio fail?
  ApiMayFail    \* may its API be down when its socket accepts?

ASSUME PulseMixerAssumption ==
  /\ IsFiniteSet(Sinks) /\ NeverMuted \subseteq Sinks
  /\ MaxVolume \in Nat /\ MaxStreams \in Nat /\ MaxWire \in Nat
  /\ MinTimeout \in Nat \ {0} /\ MaxTimeout \in Nat /\ MinTimeout <= MaxTimeout
  /\ SendMayFail \in BOOLEAN /\ ApiMayFail \in BOOLEAN

Volumes == 0 .. MaxVolume
Unknown == -1

VARIABLES
  (* PulseAudio *)
  up,       \* it runs and accepts connections
  peer,     \* its end of audiod's socket is open
  opened,   \* opened[s]: streams open on sink s
  told,     \* told[s]: volume it was last told for s, Unknown if none
  wire,     \* its messages to audiod, not yet read
  (* audiod *)
  channel,  \* mChannel # NULL
  timers,   \* _timer sources pending in the main loop
  timeout,  \* mTimeout: the delay of the next retry
  count,    \* mPulseStateActiveStreamCount
  total,    \* mOutputStreamsCurrentlyOpenedCount
  playing,  \* mActiveStreams
  device,   \* setActiveOutput: the last value given to the device
  table,    \* mPulseStateVolume
  (* the modules *)
  heard,    \* the sinks whose last onSinkChanged was FirstStreamOpened
  wanted    \* the volume each sink should be heard at

pulseVars == <<up, peer, opened, told, wire>>
streamVars == <<count, total, playing, device, heard>>
linkVars == <<channel, timers, timeout>>
vars == <<up, peer, opened, told, wire, channel, timers, timeout, count, total,
          playing, device, table, heard, wanted>>

\* o: a stream opened; c: one closed; O: n streams are open already.
Messages ==
  [cmd : {"o", "c"}, sink : Sinks] \cup
  [cmd : {"O"}, sink : Sinks, n : 0 .. MaxStreams]

TypeOK ==
  /\ up \in BOOLEAN /\ peer \in BOOLEAN
  /\ opened \in [Sinks -> 0 .. MaxStreams]
  /\ told \in [Sinks -> Volumes \cup {Unknown}]
  /\ wire \in Seq(Messages)
  /\ channel \in BOOLEAN /\ timers \in Nat
  /\ timeout \in MinTimeout .. MaxTimeout
  /\ count \in [Sinks -> 0 .. MaxStreams] /\ total \in Nat
  /\ playing \subseteq Sinks /\ heard \subseteq Sinks /\ device \in BOOLEAN
  /\ table \in [Sinks -> Volumes \cup {Unknown}]
  /\ wanted \in [Sinks -> Volumes]

Init ==
  /\ up = FALSE /\ peer = FALSE /\ wire = <<>>
  /\ opened = [s \in Sinks |-> 0] /\ told = [s \in Sinks |-> Unknown]
  /\ channel = FALSE /\ timers = 1 /\ timeout = MinTimeout
  /\ count = [s \in Sinks |-> 0] /\ total = 0
  /\ playing = {} /\ device = FALSE /\ heard = {}
  /\ table = [s \in Sinks |-> Unknown]
  /\ wanted \in [Sinks -> Volumes]

-----------------------------------------------------------------------------
(* Volumes.                                                                *)

\* programVolume: a high latency sink without a stream is not turned up.
Effective(s, v, cnt) ==
  IF v > 0 /\ s \notin NeverMuted /\ cnt[s] <= 0 THEN 0 ELSE v

\* The sets of commands to S that may get lost: all when the other end is
\* closed; none, unless sends fail, when it is open.
Losses(S, live) ==
  IF ~live THEN {S} ELSE IF SendMayFail THEN SUBSET S ELSE {{}}

\* programSource, once per sink of S: the table takes the value before the
\* command is sent, an unchanged value is not sent, and a failed send is only
\* logged.  tab is the table before, live whether the other end is open.
Program(S, cnt, want, tab, live) ==
  LET val(s) == Effective(s, want[s], cnt)
      sent   == {s \in S : tab[s] # val(s)}
  IN  /\ table' = [s \in Sinks |-> IF s \in S THEN val(s) ELSE tab[s]]
      /\ \E lost \in Losses(sent, live) :
           told' = [s \in Sinks |->
                      IF s \in sent \ lost THEN val(s) ELSE told[s]]

\* A module changes its mind about one sink.
SetVolume(s) ==
  /\ \E v \in Volumes \ {wanted[s]} : wanted' = [wanted EXCEPT ![s] = v]
  /\ IF channel THEN Program({s}, count, wanted', table, peer)
                ELSE UNCHANGED <<table, told>>
  /\ UNCHANGED <<up, peer, opened, wire, linkVars, streamVars>>

\* _updateHardwareSettings: muteAll, then programSoftwareMixer sets every sink
\* again; what was muted and is not turned up again stays muted.
UpdateHardwareSettings ==
  LET val(s) == Effective(s, wanted[s], count)
      muted  == {s \in Sinks : table[s] # 0}
      raised == {s \in Sinks : val(s) # 0}
  IN  /\ channel
      /\ table' = [s \in Sinks |-> val(s)]
      /\ \E lost1 \in Losses(muted, peer), lost2 \in Losses(raised, peer) :
           told' = [s \in Sinks |-> IF s \in raised \ lost2 THEN val(s)
                                    ELSE IF s \in muted \ lost1 THEN 0
                                    ELSE told[s]]
      /\ UNCHANGED <<up, peer, opened, wire, linkVars, streamVars, wanted>>

-----------------------------------------------------------------------------
(* Streams.                                                                *)

\* openCloseSink, until s has n streams: the modules hear of the first stream
\* and of the last.
OpenCloseSink(s, n) ==
  /\ count' = [count EXCEPT ![s] = n]
  /\ playing' = IF n = 0 THEN playing \ {s} ELSE playing \cup {s}
  /\ heard' = IF playing' = playing THEN heard
              ELSE IF n = 0 THEN heard \ {s} ELSE heard \cup {s}

\* outputStreamOpened, k times: the device is told when the total leaves 0.
Opened(s, k) ==
  /\ OpenCloseSink(s, count[s] + k)
  /\ total' = total + k
  /\ device' = (device \/ (total = 0 /\ k > 0))

\* outputStreamClosed, k times: neither counter goes below 0, and the device
\* is told when the total reaches it.
Closed(s, k) ==
  /\ OpenCloseSink(s, Max({0, count[s] - k}))
  /\ total' = Max({0, total - k})
  /\ device' = (device /\ (k = 0 \/ total' > 0))

CountMessage(msg) ==
  CASE msg.cmd = "o" -> Opened(msg.sink, 1)
    [] msg.cmd = "c" -> Closed(msg.sink, 1)
    [] OTHER -> IF msg.n >= count[msg.sink]
                THEN Opened(msg.sink, msg.n - count[msg.sink])
                ELSE Closed(msg.sink, count[msg.sink] - msg.n)

\* onSinkChanged: on a sink's first stream its module programs the volume.
Answer(msg) ==
  IF msg.sink \in heard' \ heard
  THEN Program({msg.sink}, count', wanted, table, peer)
  ELSE UNCHANGED <<table, told>>

-----------------------------------------------------------------------------
(* Steps of audiod.                                                        *)

\* _pulseStatus, input only: one message per call.
ReadMessage ==
  /\ channel /\ peer
  /\ wire # <<>>
  /\ CountMessage(Head(wire))
  /\ Answer(Head(wire))
  /\ wire' = Tail(wire)
  /\ UNCHANGED <<up, peer, opened, linkVars, wanted>>

\* Mutant: no retry is scheduled.
MutNoRetry == timers

\* g_timeout_add, even if a retry were pending.
RetriesPending == timers + 1

\* _pulseStatus with G_IO_HUP: a message still readable is handled first, the
\* others are lost with the socket; the retry starts at once.
HangUp ==
  /\ channel /\ ~peer
  /\ IF wire # <<>>
     THEN CountMessage(Head(wire)) /\ Answer(Head(wire))
     ELSE UNCHANGED <<streamVars, table, told>>
  /\ wire' = <<>>
  /\ channel' = FALSE
  /\ timeout' = MinTimeout
  /\ timers' = RetriesPending
  /\ UNCHANGED <<up, peer, opened, wanted>>

\* The delay doubles, and starts again from the shortest when too long.
NextTimeout == IF 2 * timeout > MaxTimeout THEN MinTimeout ELSE 2 * timeout

\* _timer when connect fails: the timer is armed again.
RetryLater ==
  /\ timers > 0 /\ ~up
  /\ timeout' = NextTimeout
  /\ UNCHANGED <<pulseVars, streamVars, channel, timers, table, wanted>>

\* What _connectSocket resets: the sinks whose modules hear the last stream
\* close, the counters, the table.
SinksClosed == {s \in Sinks : count[s] > 0}

\* Mutant: the counters survive the connection.
MutKeepCount == count

FreshCount == [s \in Sinks |-> 0]

\* Mutant: the table survives the connection.
MutKeepTable == table

FreshTable == [s \in Sinks |-> Unknown]

\* _timer when connect succeeds.  The modules hear the streams close with no
\* channel to program; then onAudioMixerConnected programs every sink.
\* PulseAudio announces the streams that are open already.  When its API does
\* not answer (checkConnection), the timer is armed again all the same.
Connect ==
  /\ timers > 0 /\ up
  /\ channel' = TRUE
  /\ heard' = heard \ SinksClosed
  /\ count' = FreshCount
  /\ total' = 0
  /\ playing' = {}
  /\ device' = (device /\ SinksClosed = {})
  /\ peer' = TRUE
  /\ wire' = SetToSeq({[cmd |-> "O", sink |-> s, n |-> opened[s]] :
                         s \in {r \in Sinks : opened[r] > 0}})
  /\ Program(Sinks, count', wanted, FreshTable, TRUE)
  /\ \/ timers' = timers - 1 /\ UNCHANGED timeout
     \/ ApiMayFail /\ timeout' = NextTimeout /\ UNCHANGED timers
  /\ UNCHANGED <<up, opened, wanted>>

-----------------------------------------------------------------------------
(* Steps of PulseAudio.                                                    *)

Announce(msg) == wire' = IF peer THEN Append(wire, msg) ELSE wire

StreamOpens(s) ==
  /\ up /\ opened[s] < MaxStreams /\ Len(wire) < MaxWire
  /\ opened' = [opened EXCEPT ![s] = @ + 1]
  /\ Announce([cmd |-> "o", sink |-> s])
  /\ UNCHANGED <<up, peer, told, linkVars, streamVars, table, wanted>>

StreamCloses(s) ==
  /\ up /\ opened[s] > 0 /\ Len(wire) < MaxWire
  /\ opened' = [opened EXCEPT ![s] = @ - 1]
  /\ Announce([cmd |-> "c", sink |-> s])
  /\ UNCHANGED <<up, peer, told, linkVars, streamVars, table, wanted>>

\* A new PulseAudio runs: it was told nothing.
PulseStarts ==
  /\ ~up /\ up' = TRUE
  /\ told' = [s \in Sinks |-> Unknown]
  /\ UNCHANGED <<peer, opened, wire, linkVars, streamVars, table, wanted>>

PulseStops ==
  /\ up /\ up' = FALSE
  /\ peer' = FALSE
  /\ opened' = [s \in Sinks |-> 0]
  /\ UNCHANGED <<told, wire, linkVars, streamVars, table, wanted>>

-----------------------------------------------------------------------------
AudiodStep ==
  \/ \E s \in Sinks : SetVolume(s)
  \/ UpdateHardwareSettings
  \/ ReadMessage
  \/ HangUp
  \/ RetryLater
  \/ Connect

PulseStep ==
  \/ \E s \in Sinks : StreamOpens(s) \/ StreamCloses(s)
  \/ PulseStarts
  \/ PulseStops

Next == AudiodStep \/ PulseStep

\* The main loop dispatches ready descriptors and expired timers.
Fairness == WF_vars(ReadMessage) /\ WF_vars(HangUp) /\ WF_vars(Connect)

Spec == Init /\ [][Next]_vars /\ Fairness

-----------------------------------------------------------------------------
(* Properties.                                                             *)

\* What msg makes of n streams of s.
Announced(msg, s, n) ==
  IF msg.sink # s THEN n
  ELSE CASE msg.cmd = "o" -> n + 1
         [] msg.cmd = "c" -> n - 1
         [] OTHER -> msg.n

\* The counts of s, now and after each announcement under way.
AreCounts(c, s) ==
  /\ c[0] = count[s]
  /\ \A i \in 1 .. Len(wire) : c[i] = Announced(wire[i], s, c[i - 1])

\* The counters converge to the streams PulseAudio has, whatever opened and
\* closed before, during and after a reconnection, and on the way no stream is
\* closed that was not counted.
CountsConverge ==
  (channel /\ peer) =>
    \A s \in Sinks : \E c \in [0 .. Len(wire) -> 0 .. MaxStreams] :
      AreCounts(c, s) /\ c[Len(wire)] = opened[s]

\* A sink that plays, or that must always be ready, has in PulseAudio the
\* volume its module wants; the skipped commands were truly redundant.
HeardAtWantedVolume ==
  (channel /\ peer) =>
    \A s \in Sinks : (count[s] > 0 \/ s \in NeverMuted) => told[s] = wanted[s]

\* If PulseAudio comes to stay, audiod ends up connected to it for good.
ReconnectsForGood == <>[]up => <>[](channel /\ peer)
=============================================================================
