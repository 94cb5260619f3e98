------------------------------ MODULE PulseLink ------------------------------
(***************************************************************************)
(* System sounds and DTMF tones over PulseAudio's own API: PulseAudioLink, *)
(* dtmf.cpp and the tones of PulseAudioMixer.                              *)
(*                                                                         *)
(* Two threads share one connection.  The main thread connects, asks for   *)
(* uploads, plays and tones by deferred events, and while a sample is      *)
(* uploaded waits up to five seconds.  A thread of PulseAudioLink runs the *)
(* connection's loop: deferred events and callbacks.  What both threads    *)
(* use is counted (RefObj).  PulseAudio may die at any time; the loop ends *)
(* when the connection is seen to fail, and the main thread connects again *)
(* when it next needs to.                                                  *)
(***************************************************************************)
EXTENDS Naturals, FiniteSets

CONSTANTS
  Samples,  \* sounds with a file to be uploaded
  Tones,    \* DTMF tones
  Gens,     \* bound: PulseDtmfGenerators that exist at a time
  Uploads,  \* bound: PreloadDeferCBData that exist at a time
  None      \* NULL

ASSUME PulseLinkAssumption == Samples # {} /\ None \notin Gens \cup Uploads

VARIABLES
  pulse,     \* PulseAudio runs
  cache,     \* samples it holds
  conn,      \* mContext: "up", "broken" (its end not seen yet), "failed" or "none"
  loaded,    \* mLoadedSounds
  wait,      \* the upload preload() waits for, and whether to play the sample then
  upload,    \* each PreloadDeferCBData, "lost" when its event will not be dispatched
  plays,     \* samples to play: deferred PlaySampleDeferCB
  gen,       \* each PulseDtmfGenerator, and its stream
  current,   \* mCurrentDtmf, and its tone
  dtmf,      \* gDTMFstate, its two bits: DTMF_SOUNDSERVER is both of them
  modem,     \* the modem sounds a long tone
  onCall,    \* getOnActiveCall
  excused    \* history: samples whose upload failed or took too long, or that were
             \* asked for over a connection that proved to be lost

linkVars == <<pulse, cache, conn, loaded, wait, upload, plays, excused>>
toneVars == <<gen, current, dtmf, modem>>
vars == <<linkVars, toneVars, onCall>>

TypeOK ==
  /\ {pulse, modem, onCall} \subseteq BOOLEAN
  /\ cache \subseteq Samples /\ loaded \subseteq Samples /\ excused \subseteq Samples
  /\ conn \in {"none", "up", "broken", "failed"}
  /\ wait \in [upload : Uploads \cup {None}, play : BOOLEAN]
  /\ upload \in [Uploads -> [refs : 0 .. 2, sample : Samples, loading : BOOLEAN,
                             stage : {"deferred", "stream", "done", "lost"}]]
  /\ plays \subseteq Samples
  /\ gen \in [Gens -> [refs : 0 .. 2, long : BOOLEAN,
                       status : {"normal", "stopping", "stopped", "disconnected"},
                       stream : {"none", "deferred", "playing", "draining", "lost"}]]
  /\ current \in [gen : Gens \cup {None}, tone : Tones \cup {None}]
  /\ dtmf \subseteq {"modem", "generator"}

\* No PulseDtmfGenerator.
NoTone == [gen |-> None, tone |-> None]

Init ==
  /\ pulse = TRUE /\ cache = {}
  /\ conn = "none" /\ loaded = {}
  /\ wait = [upload |-> None, play |-> FALSE]
  /\ upload = [u \in Uploads |-> [refs |-> 0, sample |-> CHOOSE s \in Samples : TRUE,
                                  loading |-> FALSE, stage |-> "done"]]
  /\ plays = {}
  /\ gen = [g \in Gens |-> [refs |-> 0, long |-> FALSE, status |-> "disconnected", stream |-> "none"]]
  /\ current = NoTone /\ dtmf = {} /\ modem = FALSE
  /\ onCall = FALSE
  /\ excused = {}

-----------------------------------------------------------------------------
(* The connection.                                                         *)

\* mPulseAudioReady
Ready == conn \in {"up", "broken"}

\* The main thread is at its loop.
Idle == wait.upload = None

\* Mutant: killPulseConnection does not forget what was loaded.
MutStillLoaded(ok, asked) ==
  IF Ready THEN ok /\ UNCHANGED <<conn, loaded, excused>>
  ELSE /\ ok => pulse
       /\ conn' = IF ok THEN "up" ELSE "none"
       /\ UNCHANGED loaded
       /\ excused' = asked

\* checkConnection, connectToPulse, killPulseConnection; asked for the sake of the
\* history.
CheckConnection(ok, asked) ==
  IF Ready THEN ok /\ UNCHANGED <<conn, loaded, excused>>
  ELSE /\ ok => pulse
       /\ conn' = IF ok THEN "up" ELSE "none"
       /\ loaded' = {}
       /\ excused' = asked

\* PulseAudio dies, and is started again.
PulseDies ==
  /\ pulse
  /\ pulse' = FALSE
  /\ cache' = {}
  /\ conn' = IF conn = "up" THEN "broken" ELSE conn
  /\ UNCHANGED <<loaded, wait, upload, plays, excused, toneVars, onCall>>

PulseStarts ==
  /\ ~pulse
  /\ pulse' = TRUE
  /\ UNCHANGED <<cache, conn, loaded, wait, upload, plays, excused, toneVars, onCall>>

\* The end of an upload for the loop's thread: preload_stream_state_cb, or
\* preloadDeferCB without a stream, which leaves it loading.
Ended(u, loading) == [upload[u] EXCEPT !.refs = @ - 1, !.loading = loading, !.stage = "done"]

\* pulseAudioStateChanged, PA_CONTEXT_FAILED: uploads under way fail, the loop
\* ends, and what is deferred or plays in it is never called again.
ContextFailed ==
  /\ conn = "broken"
  /\ conn' = "failed"
  /\ upload' = [u \in Uploads |->
                  CASE upload[u].stage = "stream" -> Ended(u, FALSE)
                    [] upload[u].stage = "deferred" -> [upload[u] EXCEPT !.stage = "lost"]
                    [] OTHER -> upload[u]]
  /\ gen' = [g \in Gens |-> IF gen[g].stream = "none" THEN gen[g]
                            ELSE [gen[g] EXCEPT !.stream = "lost"]]
  /\ plays' = {}
  /\ UNCHANGED <<pulse, cache, loaded, wait, excused, current, dtmf, modem, onCall>>

-----------------------------------------------------------------------------
(* Samples.                                                                *)

\* The deferred play of a sample, if the connection is as good as it was or a new
\* one is made.  Over a new one the sample is not loaded again.
Play(s) ==
  \E ok \in BOOLEAN :
    /\ CheckConnection(ok, {s})
    /\ plays' = IF ok THEN plays \cup {s} ELSE plays

\* play() of a sample that is thought to be loaded.  It is not loaded again when
\* the connection proves to be lost.
PlayLoaded(s) ==
  /\ Idle
  /\ s \in loaded
  /\ Play(s)
  /\ UNCHANGED <<pulse, cache, wait, upload, toneVars, onCall>>

\* Mutant: the thread's reference is the main thread's.
MutOneReference(s) ==
  [refs |-> 1, sample |-> s, loading |-> TRUE, stage |-> "deferred"]

\* preload() makes it, with a reference for each thread.
NewUpload(s) ==
  [refs |-> 2, sample |-> s, loading |-> TRUE, stage |-> "deferred"]

\* preload(), alone or before a play, of a sample that is not: the upload is
\* deferred and the main thread waits for it.
Preload(s, play, u) ==
  /\ Idle
  /\ s \notin loaded
  /\ upload[u].refs = 0 \/ upload[u].stage = "lost"
  /\ CheckConnection(TRUE, {})
  /\ upload' = [upload EXCEPT ![u] = NewUpload(s)]
  /\ wait' = [upload |-> u, play |-> play]
  /\ UNCHANGED <<pulse, cache, plays, toneVars, onCall>>

\* The same without a connection: play() tries to connect once more.
PreloadFails(s, play) ==
  /\ Idle
  /\ s \notin loaded
  /\ ~Ready
  /\ IF play THEN Play(s) ELSE CheckConnection(FALSE, {}) /\ UNCHANGED plays
  /\ UNCHANGED <<pulse, cache, wait, upload, toneVars, onCall>>

\* preloadDeferCB; created is pa_stream_new.
PreloadDefer(u, created) ==
  /\ Ready
  /\ upload[u].stage = "deferred"
  /\ upload' = [upload EXCEPT ![u] = IF created THEN [@ EXCEPT !.stage = "stream"]
                                     ELSE Ended(u, TRUE)]
  /\ UNCHANGED <<pulse, cache, conn, loaded, wait, plays, excused, toneVars, onCall>>

\* preload_stream_write_cb to the end of the file, preload_stream_state_cb; what
\* PulseAudio sent before it died is still dispatched.
StreamState(u, success) ==
  /\ Ready
  /\ upload[u].stage = "stream"
  /\ upload' = [upload EXCEPT ![u] = Ended(u, FALSE)]
  /\ cache' = IF success /\ conn = "up" THEN cache \cup {upload[u].sample} ELSE cache
  /\ excused' = IF success THEN excused \ {upload[u].sample}
                ELSE excused \cup {upload[u].sample}
  /\ UNCHANGED <<pulse, conn, loaded, wait, plays, toneVars, onCall>>

\* The main thread goes on when the upload has ended or five seconds are over;
\* success or failure, the sample counts as loaded, and is played.
WaitEnds ==
  LET u == wait.upload
      s == upload[u].sample
  IN /\ u # None
     /\ upload' = [upload EXCEPT ![u].refs = @ - 1]
     /\ wait' = [upload |-> None, play |-> FALSE]
     /\ LET late == IF upload[u].loading THEN {s} ELSE {} IN
        IF wait.play /\ ~Ready
        THEN Play(s)
        ELSE /\ loaded' = loaded \cup {s}
             /\ excused' = excused \cup late
             /\ plays' = IF wait.play THEN plays \cup {s} ELSE plays
             /\ UNCHANGED conn
     /\ UNCHANGED <<pulse, cache, toneVars, onCall>>

\* PlaySampleDeferCB
PlaySample(s) ==
  /\ Ready
  /\ s \in plays
  /\ plays' = plays \ {s}
  /\ UNCHANGED <<pulse, cache, conn, loaded, wait, upload, excused, toneVars, onCall>>

-----------------------------------------------------------------------------
(* Tones.                                                                  *)

\* stopDtmf: stopping(), unref().
StopDtmf(gs) ==
  IF current = NoTone THEN gs
  ELSE [gs EXCEPT ![current.gen].status = IF @ = "normal" THEN "stopping" ELSE @,
                  ![current.gen].long = FALSE,
                  ![current.gen].refs = @ - 1]

\* A generator that is not in use, in gs.
Unused(gs, g) == gs[g].refs = 0 \/ (gs[g].stream = "lost" /\ current.gen # g)

\* PulseAudioLink::play of a generator: a reference for its stream, if connected.
NewGen(long, connected) ==
  [refs |-> IF connected THEN 2 ELSE 1, long |-> long, status |-> "normal",
   stream |-> IF connected THEN "deferred" ELSE "none"]

\* playDtmf or playOneshotDtmf, after the tone that sounds has been stopped.
PlayTone(t, long) ==
  \E ok \in BOOLEAN, g \in Gens :
    /\ Unused(StopDtmf(gen), g)
    /\ CheckConnection(ok, {})
    /\ gen' = [StopDtmf(gen) EXCEPT ![g] = NewGen(long, ok)]
    /\ current' = [gen |-> g, tone |-> t]

Silent ==
  /\ gen' = StopDtmf(gen)
  /\ current' = NoTone
  /\ UNCHANGED <<conn, loaded, excused>>

AsBefore == UNCHANGED <<gen, current, conn, loaded, excused>>

\* stopCurrentDtmf, when nothing follows.
StopCurrentDtmf == /\ modem' = IF "modem" \in dtmf THEN FALSE ELSE modem
                   /\ IF dtmf = {} THEN AsBefore ELSE Silent

\* _stopDTMF
StopDTMF ==
  /\ Idle
  /\ StopCurrentDtmf
  /\ dtmf' = {}
  /\ UNCHANGED <<pulse, cache, wait, upload, plays, onCall>>

\* _playDTMF with an id that is refused, or while audio is suspended, {} then.
RefuseDTMF(bits) ==
  /\ Idle
  /\ bits # {} => onCall
  /\ StopCurrentDtmf
  /\ dtmf' = bits
  /\ UNCHANGED <<pulse, cache, wait, upload, plays, onCall>>

\* _playDTMF without a call: one tone whether oneshot or not, if the ringer is on.
PlayDTMFIdle(t, oneshot, ringerOn) ==
  /\ Idle
  /\ ~onCall
  /\ modem' = IF "modem" \in dtmf THEN FALSE ELSE modem
  /\ IF ringerOn THEN PlayTone(t, FALSE) ELSE IF dtmf = {} THEN AsBefore ELSE Silent
  /\ dtmf' = IF oneshot THEN {} ELSE {"modem", "generator"}
  /\ UNCHANGED <<pulse, cache, wait, upload, plays, onCall>>

\* _playDTMF during a call: the modem's tone, and none here.
PlayDTMFModem(oneshot) ==
  /\ Idle
  /\ onCall
  /\ IF dtmf = {} THEN AsBefore ELSE Silent
  /\ modem' = IF oneshot THEN (IF "modem" \in dtmf THEN FALSE ELSE modem) ELSE TRUE
  /\ dtmf' = IF oneshot THEN {} ELSE {"modem", "generator"}
  /\ UNCHANGED <<pulse, cache, wait, upload, plays, onCall>>

\* Mutant: the state of the tone that sounds is overwritten, the tone not stopped.
MutOverwrites(t, oneshot) ==
  /\ Idle
  /\ onCall
  /\ IF ~oneshot /\ current.tone = t
     THEN AsBefore ELSE PlayTone(t, ~oneshot)
  /\ dtmf' = IF oneshot THEN {} ELSE {"generator"}
  /\ UNCHANGED <<pulse, cache, wait, upload, plays, modem, onCall>>

\* _playDTMF during a call, feedbackOnly.  A tone that the generator of an earlier
\* one-shot tone was made for is taken to sound already.
PlayDTMFFeedback(t, oneshot) ==
  /\ Idle
  /\ onCall
  /\ modem' = IF "modem" \in dtmf THEN FALSE ELSE modem
  /\ IF ~oneshot /\ dtmf = {} /\ current.tone = t
     THEN AsBefore ELSE PlayTone(t, ~oneshot)
  /\ dtmf' = IF oneshot THEN {} ELSE {"generator"}
  /\ UNCHANGED <<pulse, cache, wait, upload, plays, onCall>>

\* playSystemSound of a "dtmf_" sound.
PlayDtmfSound(t) ==
  /\ Idle
  /\ PlayTone(t, FALSE)
  /\ UNCHANGED <<pulse, cache, wait, upload, plays, dtmf, modem, onCall>>

\* PlayAudioDataProviderDeferCB; without a stream the reference is lost.
PlayAudioDefer(g, created) ==
  /\ Ready
  /\ gen[g].stream = "deferred"
  /\ gen' = [gen EXCEPT ![g].stream = IF created THEN "playing" ELSE "lost"]
  /\ UNCHANGED <<linkVars, current, dtmf, modem, onCall>>

\* PulseDtmfGenerator::stream_write_callback returns false: it was told to stop,
\* or the length of a short tone is reached.
NoMoreData(g) ==
  \/ gen[g].status = "stopping"
  \/ gen[g].status = "normal" /\ ~gen[g].long

\* data_stream_write_callback when stream_write_callback has no more data.
WriteCallback(g) ==
  /\ Ready
  /\ gen[g].stream = "playing"
  /\ NoMoreData(g)
  /\ gen' = [gen EXCEPT ![g].status = "stopped", ![g].stream = "draining"]
  /\ UNCHANGED <<linkVars, current, dtmf, modem, onCall>>

\* Mutant: disconnected() does not unref.
MutNoUnref(g) ==
  /\ Ready
  /\ gen[g].stream = "draining"
  /\ gen' = [gen EXCEPT ![g].status = "disconnected", ![g].stream = "none"]
  /\ UNCHANGED <<linkVars, current, dtmf, modem, onCall>>

\* stream_drain_complete, disconnected().
DrainComplete(g) ==
  /\ Ready
  /\ gen[g].stream = "draining"
  /\ gen' = [gen EXCEPT ![g].status = "disconnected", ![g].stream = "none",
                        ![g].refs = @ - 1]
  /\ UNCHANGED <<linkVars, current, dtmf, modem, onCall>>

\* setOnActiveCall
CallChanges ==
  /\ Idle
  /\ onCall' = ~onCall
  /\ UNCHANGED <<linkVars, toneVars>>

\* _playFeedback: play a sound or a tone, or load the sound only.  Nothing is done
\* for a sound that the ringer, the preferences or a suspension forbid.
PlayFeedback ==
  \/ \E s \in Samples : \/ PlayLoaded(s)
                        \/ \E play \in BOOLEAN : PreloadFails(s, play)
                        \/ \E play \in BOOLEAN, u \in Uploads : Preload(s, play, u)
  \/ \E t \in Tones : PlayDtmfSound(t)

-----------------------------------------------------------------------------
MainStep ==
  \/ PlayFeedback
  \/ WaitEnds
  \/ StopDTMF
  \/ \E bits \in {{}, {"modem"}, {"generator"}} : RefuseDTMF(bits)
  \/ \E t \in Tones, oneshot, ringerOn \in BOOLEAN : PlayDTMFIdle(t, oneshot, ringerOn)
  \/ \E oneshot \in BOOLEAN : PlayDTMFModem(oneshot)
  \/ \E t \in Tones, oneshot \in BOOLEAN : PlayDTMFFeedback(t, oneshot)
  \/ CallChanges

ToneStep(g) ==
  \/ \E created \in BOOLEAN : PlayAudioDefer(g, created)
  \/ WriteCallback(g)
  \/ DrainComplete(g)

LoopStep ==
  \/ \E u \in Uploads, b \in BOOLEAN : PreloadDefer(u, b) \/ StreamState(u, b)
  \/ \E s \in plays : PlaySample(s)
  \/ \E g \in Gens : ToneStep(g)
  \/ ContextFailed

Next == MainStep \/ LoopStep \/ PulseDies \/ PulseStarts

\* The loop's thread goes on, and sees that PulseAudio is gone.
Fairness == WF_vars(ContextFailed) /\ \A g \in Gens : WF_vars(ToneStep(g))

Spec == Init /\ [][Next]_vars /\ Fairness

-----------------------------------------------------------------------------
(* Properties.                                                             *)

One(b) == IF b THEN 1 ELSE 0

\* What the two threads share is referenced once by each that can still use it:
\* neither is left with freed memory, whichever is done first, and nothing is
\* left over but what a failed connection, or stream, never gives back.
HeldIsReferenced ==
  /\ \A u \in Uploads : upload[u].refs = One(wait.upload = u) + One(upload[u].stage # "done")
  /\ \A g \in Gens : gen[g].refs = One(current.gen = g) + One(gen[g].stream # "none")

\* A sample counts as loaded only if the PulseAudio that is connected holds it, or
\* its upload failed or took too long; and a sample that is going to be played is
\* such a one, unless the connection was lost when it was asked for.
LoadedIsCached ==
  conn = "up" => /\ loaded \subseteq cache \cup excused
                 /\ plays \subseteq cache \cup excused

\* A tone that goes on until it is stopped can be: stopDTMF, or the next tone,
\* finds it in gDTMFstate, here as in the modem.
TonesCanBeStopped ==
  /\ modem => "modem" \in dtmf
  /\ \A g \in Gens : gen[g].long => current.gen = g /\ dtmf # {}

\* A generator the main thread has let go of falls silent and is freed, or its
\* connection, or its stream, has failed.
GeneratorsEnd ==
  \A g \in Gens : (current.gen # g) ~> (gen[g].refs = 0 \/ gen[g].stream = "lost" \/ current.gen = g)
=============================================================================
