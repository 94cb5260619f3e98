-------------------------- MODULE PulseLink_proofs --------------------------
(***************************************************************************)
(* Theorems of PulseLink, for any sounds, tones, generators and uploads.   *)
(*                                                                         *)
(* The references need no more than that mCurrentDtmf names a generator    *)
(* whenever it names a tone.  That what counts as loaded is in the cache   *)
(* rests on what the main thread finds after its wait (WaitedIsCached),    *)
(* and that a new connection finds nothing to play (PlaysAreReady).  That  *)
(* long tones can be stopped is inductive of itself: gDTMFstate is read    *)
(* before it is overwritten.  That a generator let go of can end is what   *)
(* is proved of GeneratorsEnd.                                             *)
(***************************************************************************)
EXTENDS PulseLink, TLAPS

Upload == [refs : 0 .. 2, sample : Samples, loading : BOOLEAN,
           stage : {"deferred", "stream", "done", "lost"}]
Gen == [refs : 0 .. 2, long : BOOLEAN,
        status : {"normal", "stopping", "stopped", "disconnected"},
        stream : {"none", "deferred", "playing", "draining", "lost"}]

\* A tone that sounds, or may, has its generator.
CurrentHasGenerator == current.gen = None => current.tone = None

\* What is to be played is deferred on a connection that lasts.
PlaysAreReady == ~Ready => plays = {}

\* An upload that the main thread waits for and that has ended has put its sample
\* in the cache, or failed.
WaitedIsCached ==
  LET u == wait.upload
  IN (conn = "up" /\ u # None /\ ~upload[u].loading) => upload[u].sample \in cache \cup excused

SampleInv == LoadedIsCached /\ PlaysAreReady /\ WaitedIsCached

LinkInv ==
  /\ TypeOK
  /\ CurrentHasGenerator
  /\ HeldIsReferenced
  /\ SampleInv
  /\ TonesCanBeStopped

-----------------------------------------------------------------------------
(* The connection.                                                         *)

\* At start nothing is shared, held or loaded.
LEMMA LinkInitially == Init => LinkInv
<1> SUFFICES ASSUME Init PROVE LinkInv
  OBVIOUS
<1>1. (CHOOSE s \in Samples : TRUE) \in Samples
  BY PulseLinkAssumption
<1>2. upload \in [Uploads -> Upload] /\ gen \in [Gens -> Gen]
  BY <1>1 DEF Init, Upload, Gen
<1>3. TypeOK
  BY <1>2 DEF Init, TypeOK, NoTone, Upload, Gen
<1>4. HeldIsReferenced
  BY PulseLinkAssumption DEF Init, HeldIsReferenced, One, NoTone
<1>5. SampleInv
  BY DEF Init, SampleInv, LoadedIsCached, PlaysAreReady, WaitedIsCached, Ready
<1>6. CurrentHasGenerator /\ TonesCanBeStopped
  BY DEF Init, CurrentHasGenerator, TonesCanBeStopped, NoTone
<1>7. QED
  BY <1>3, <1>4, <1>5, <1>6 DEF LinkInv

\* PulseAudio dies or is started: a connection that was up is not any more.
LEMMA PulseKeeps ==
  ASSUME LinkInv, PulseDies \/ PulseStarts
  PROVE  LinkInv'
<1>1. /\ UNCHANGED <<loaded, wait, upload, plays, excused, toneVars, onCall>>
      /\ conn' = IF conn = "up" /\ PulseDies THEN "broken" ELSE conn
      /\ conn' = "up" => cache' = cache
      /\ cache' \subseteq Samples /\ pulse' \in BOOLEAN
  BY DEF PulseDies, PulseStarts, LinkInv, TypeOK
<1>2. TypeOK'
  <2>1. conn' \in {"none", "up", "broken", "failed"}
    BY <1>1 DEF LinkInv, TypeOK
  <2>2. QED
    BY <1>1, <2>1 DEF LinkInv, TypeOK, toneVars
<1>3. HeldIsReferenced' /\ TonesCanBeStopped' /\ CurrentHasGenerator'
  BY <1>1 DEF LinkInv, HeldIsReferenced, TonesCanBeStopped, CurrentHasGenerator, toneVars
<1>4. conn' = "up" => conn = "up"
  BY <1>1 DEF LinkInv, TypeOK
<1>5. SampleInv'
  BY <1>1, <1>4 DEF LinkInv, SampleInv, LoadedIsCached, PlaysAreReady, WaitedIsCached, Ready
<1>6. QED
  BY <1>2, <1>3, <1>5 DEF LinkInv

\* An upload that ends keeps the main thread's reference only.
LEMMA EndedKeeps ==
  ASSUME LinkInv, NEW u \in Uploads, upload[u].stage # "done", NEW loading \in BOOLEAN
  PROVE  /\ Ended(u, loading) \in Upload
         /\ Ended(u, loading).refs
              = One(wait.upload = u) + One(Ended(u, loading).stage # "done")
         /\ Ended(u, loading).stage = "done"
         /\ Ended(u, loading).sample = upload[u].sample
         /\ Ended(u, loading).loading = loading
<1>1. /\ upload[u] \in Upload
      /\ upload[u].refs = One(wait.upload = u) + 1
  BY DEF LinkInv, TypeOK, HeldIsReferenced, Upload, One
<1>2. One(wait.upload = u) \in 0 .. 1
  BY DEF One
<1>3. upload[u].refs - 1 = One(wait.upload = u) /\ upload[u].refs - 1 \in 0 .. 2
  BY <1>1, <1>2
<1>4. /\ Ended(u, loading) \in Upload
      /\ Ended(u, loading).refs = upload[u].refs - 1
      /\ Ended(u, loading).stage = "done"
      /\ Ended(u, loading).sample = upload[u].sample
      /\ Ended(u, loading).loading = loading
  BY <1>1, <1>3 DEF Ended, Upload
<1>5. One(wait.upload = u) = One(wait.upload = u) + One(Ended(u, loading).stage # "done")
  BY <1>2, <1>4 DEF One
<1>6. QED
  BY <1>3, <1>4, <1>5

\* The connection is seen to fail: each reference that its loop held is given back
\* or lost, and what it held still counts as held.
LEMMA ContextFailedKeeps ==
  ASSUME LinkInv, ContextFailed
  PROVE  LinkInv'
<1>1. /\ conn' = "failed" /\ plays' = {}
      /\ UNCHANGED <<pulse, cache, loaded, wait, excused, current, dtmf, modem, onCall>>
  BY DEF ContextFailed
<1>2. ASSUME NEW u \in Uploads
      PROVE  /\ upload'[u] \in Upload
             /\ upload'[u].refs = One(wait.upload = u) + One(upload'[u].stage # "done")
  <2>1. /\ upload[u] \in Upload
        /\ upload[u].refs = One(wait.upload = u) + One(upload[u].stage # "done")
    <3>1. upload \in [Uploads -> Upload]
      BY DEF LinkInv, TypeOK, Upload
    <3>2. QED
      BY <3>1 DEF LinkInv, HeldIsReferenced
  <2>2. CASE upload[u].stage = "stream"
    <3>1. upload'[u] = Ended(u, FALSE)
      BY <2>2 DEF ContextFailed
    <3>2. upload[u].stage # "done"
      BY <2>2
    <3>3. PICK ended :
            /\ ended = Ended(u, FALSE)
            /\ ended \in Upload
            /\ ended.refs = One(wait.upload = u) + One(ended.stage # "done")
      BY <3>2, EndedKeeps, ZenonT(60)
    <3>4. QED
      BY <3>1, <3>3
  <2>3. CASE upload[u].stage = "deferred"
    <3>1. upload'[u] = [upload[u] EXCEPT !.stage = "lost"]
      BY <2>3 DEF ContextFailed
    <3>2. QED
      BY <2>1, <2>3, <3>1 DEF Upload, One
  <2>4. CASE upload[u].stage \notin {"stream", "deferred"}
    <3>1. upload'[u] = upload[u]
      BY <2>4 DEF ContextFailed
    <3>2. QED
      BY <2>1, <3>1
  <2>5. QED
    BY <2>2, <2>3, <2>4
<1>3. ASSUME NEW g \in Gens
      PROVE  /\ gen'[g] \in Gen
             /\ gen'[g].refs = One(current.gen = g) + One(gen'[g].stream # "none")
             /\ gen'[g].long = gen[g].long
  <2>1. /\ gen[g] \in Gen
        /\ gen[g].refs = One(current.gen = g) + One(gen[g].stream # "none")
    BY DEF LinkInv, TypeOK, HeldIsReferenced, Gen
  <2>2. gen'[g] = IF gen[g].stream = "none" THEN gen[g] ELSE [gen[g] EXCEPT !.stream = "lost"]
    BY DEF ContextFailed
  <2>3. QED
    BY <2>1, <2>2 DEF Gen, One
<1>4. TypeOK'
  <2>1. upload' \in [Uploads -> Upload] /\ gen' \in [Gens -> Gen]
    <3>1. /\ upload' = [u \in Uploads |-> upload'[u]]
          /\ gen' = [g \in Gens |-> gen'[g]]
      BY DEF ContextFailed
    <3>2. QED
      BY <1>2, <1>3, <3>1
  <2>2. QED
    BY <1>1, <2>1 DEF LinkInv, TypeOK, Upload, Gen
<1>5. HeldIsReferenced' /\ TonesCanBeStopped' /\ CurrentHasGenerator'
  BY <1>1, <1>2, <1>3 DEF LinkInv, HeldIsReferenced, TonesCanBeStopped, CurrentHasGenerator
<1>6. SampleInv'
  BY <1>1 DEF SampleInv, LoadedIsCached, PlaysAreReady, WaitedIsCached
<1>7. QED
  BY <1>4, <1>5, <1>6 DEF LinkInv

\* checkConnection leaves the connection as it is, or makes a new one over which
\* nothing is loaded, or none.
LEMMA Checks ==
  ASSUME LinkInv, NEW ok \in BOOLEAN, NEW asked \in SUBSET Samples,
         CheckConnection(ok, asked)
  PROVE  /\ conn' \in {"none", "up", "broken", "failed"}
         /\ loaded' \subseteq Samples /\ excused' \subseteq Samples
         /\ ok <=> conn' \in {"up", "broken"}
         /\ \/ Ready /\ UNCHANGED <<conn, loaded, excused>>
            \/ ~Ready /\ loaded' = {} /\ excused' = asked /\ plays = {}
BY DEF CheckConnection, LinkInv, TypeOK, Ready, SampleInv, PlaysAreReady

-----------------------------------------------------------------------------
(* Samples.                                                                *)

\* A step that is about samples: what is left to show.
LEMMA SampleStepKeeps ==
  ASSUME LinkInv, UNCHANGED <<pulse, toneVars, onCall>>,
         conn' \in {"none", "up", "broken", "failed"},
         cache' \subseteq Samples, loaded' \subseteq Samples, excused' \subseteq Samples,
         plays' \subseteq Samples,
         wait' \in [upload : Uploads \cup {None}, play : BOOLEAN],
         upload' \in [Uploads -> Upload],
         \A u \in Uploads : upload'[u].refs = One(wait'.upload = u) + One(upload'[u].stage # "done"),
         SampleInv'
  PROVE  LinkInv'
<1>1. TypeOK'
  BY DEF LinkInv, TypeOK, toneVars, Upload
<1>2. HeldIsReferenced' /\ CurrentHasGenerator' /\ TonesCanBeStopped'
  BY DEF LinkInv, HeldIsReferenced, CurrentHasGenerator, TonesCanBeStopped, toneVars
<1>3. QED
  BY <1>1, <1>2 DEF LinkInv

\* A sample is deferred to be played: it is one that counts as loaded, or the
\* connection is a new one.
LEMMA PlayKeeps ==
  ASSUME LinkInv, NEW s \in Samples, Play(s), UNCHANGED cache,
         s \in loaded \/ ~Ready,
         \/ UNCHANGED <<wait, upload>>
            /\ wait.upload = None
         \/ wait'.upload = None
  PROVE  /\ conn' \in {"none", "up", "broken", "failed"}
         /\ loaded' \subseteq Samples /\ excused' \subseteq Samples /\ plays' \subseteq Samples
         /\ SampleInv'
<1>1. PICK ok \in BOOLEAN :
        CheckConnection(ok, {s}) /\ plays' = IF ok THEN plays \cup {s} ELSE plays
  BY DEF Play
<1>2. /\ conn' \in {"none", "up", "broken", "failed"}
      /\ loaded' \subseteq Samples /\ excused' \subseteq Samples
      /\ ok <=> Ready'
      /\ \/ Ready /\ UNCHANGED <<conn, loaded, excused>>
         \/ ~Ready /\ loaded' = {} /\ excused' = {s} /\ plays = {}
  BY <1>1, Checks DEF Ready
<1>3. plays' \subseteq Samples
  BY <1>1 DEF LinkInv, TypeOK
<1>4. LoadedIsCached'
  BY <1>1, <1>2 DEF LinkInv, SampleInv, LoadedIsCached
<1>5. PlaysAreReady'
  BY <1>1, <1>2 DEF LinkInv, SampleInv, PlaysAreReady, Ready
<1>6. WaitedIsCached'
  BY DEF WaitedIsCached
<1>7. QED
  BY <1>2, <1>3, <1>4, <1>5, <1>6 DEF SampleInv

\* play() of a sample that counts as loaded, and of one that cannot be loaded.
LEMMA PlayLoadedKeeps ==
  ASSUME LinkInv, NEW s \in Samples, PlayLoaded(s)
  PROVE  LinkInv'
<1>1. /\ wait.upload = None /\ s \in loaded /\ Play(s)
      /\ UNCHANGED <<pulse, cache, wait, upload, toneVars, onCall>>
  BY DEF PlayLoaded, Idle
<1>2. /\ conn' \in {"none", "up", "broken", "failed"}
      /\ loaded' \subseteq Samples /\ excused' \subseteq Samples /\ plays' \subseteq Samples
      /\ SampleInv'
  BY <1>1, PlayKeeps
<1>3. QED
  BY <1>1, <1>2, SampleStepKeeps DEF LinkInv, TypeOK, HeldIsReferenced, Upload

\* A preload without a connection tries one more, and holds nothing.
LEMMA PreloadFailsKeeps ==
  ASSUME LinkInv, NEW s \in Samples, NEW play \in BOOLEAN, PreloadFails(s, play)
  PROVE  LinkInv'
<1>1. /\ wait.upload = None /\ ~Ready
      /\ UNCHANGED <<pulse, cache, wait, upload, toneVars, onCall>>
  BY DEF PreloadFails, Idle
<1>2. /\ conn' \in {"none", "up", "broken", "failed"}
      /\ loaded' \subseteq Samples /\ excused' \subseteq Samples /\ plays' \subseteq Samples
      /\ SampleInv'
  <2>1. CASE play
    BY <1>1, <2>1, PlayKeeps DEF PreloadFails
  <2>2. CASE ~play
    <3>1. CheckConnection(FALSE, {}) /\ plays' = plays
      BY <2>2 DEF PreloadFails
    <3>2. conn' = "none" /\ loaded' = {} /\ excused' = {} /\ plays' = {}
      BY <1>1, <3>1 DEF CheckConnection, LinkInv, SampleInv, PlaysAreReady
    <3>3. QED
      BY <3>2 DEF SampleInv, LoadedIsCached, PlaysAreReady, WaitedIsCached
  <2>3. QED
    BY <2>1, <2>2
<1>3. QED
  BY <1>1, <1>2, SampleStepKeeps DEF LinkInv, TypeOK, HeldIsReferenced, Upload

\* preload() makes an upload with a reference for each thread.
LEMMA PreloadKeeps ==
  ASSUME LinkInv, NEW s \in Samples, NEW play \in BOOLEAN, NEW u \in Uploads,
         Preload(s, play, u)
  PROVE  LinkInv'
<1>1. /\ wait.upload = None
      /\ CheckConnection(TRUE, {})
      /\ upload' = [upload EXCEPT ![u] = NewUpload(s)]
      /\ wait' = [upload |-> u, play |-> play]
      /\ UNCHANGED <<pulse, cache, plays, toneVars, onCall>>
  BY DEF Preload, Idle
<1>2. upload \in [Uploads -> Upload] /\ NewUpload(s) \in Upload
  BY DEF LinkInv, TypeOK, Upload, NewUpload
<1>3. /\ upload' \in [Uploads -> Upload]
      /\ upload'[u] = NewUpload(s)
      /\ \A v \in Uploads \ {u} : upload'[v] = upload[v]
  BY <1>1, <1>2
<1>4. ASSUME NEW v \in Uploads
      PROVE  upload'[v].refs = One(wait'.upload = v) + One(upload'[v].stage # "done")
  <2>1. CASE v = u
    BY <1>1, <1>3, <2>1 DEF NewUpload, One
  <2>2. CASE v # u
    <3>1. wait'.upload # v /\ wait.upload # v
      BY <1>1, <2>2, PulseLinkAssumption
    <3>2. QED
      BY <1>3, <2>2, <3>1 DEF LinkInv, HeldIsReferenced
  <2>3. QED
    BY <2>1, <2>2
<1>5. /\ conn' \in {"up", "broken"}
      /\ loaded' \subseteq Samples /\ excused' \subseteq Samples
      /\ \/ Ready /\ UNCHANGED <<conn, loaded, excused>>
         \/ ~Ready /\ loaded' = {} /\ excused' = {} /\ plays = {}
  BY <1>1, Checks
<1>6. SampleInv'
  <2>1. LoadedIsCached' /\ PlaysAreReady'
    BY <1>1, <1>5 DEF LinkInv, SampleInv, LoadedIsCached, PlaysAreReady, Ready
  <2>2. WaitedIsCached'
    BY <1>1, <1>3 DEF WaitedIsCached, NewUpload
  <2>3. QED
    BY <2>1, <2>2 DEF SampleInv
<1>7. wait' \in [upload : Uploads \cup {None}, play : BOOLEAN]
  BY <1>1
<1>8. QED
  BY <1>1, <1>3, <1>4, <1>5, <1>6, <1>7, SampleStepKeeps DEF LinkInv, TypeOK

\* An upload goes on in the loop's thread: the others are as they were.
LEMMA UploadStepKeeps ==
  ASSUME LinkInv, NEW u \in Uploads, NEW new \in Upload,
         upload' = [upload EXCEPT ![u] = new], UNCHANGED <<wait, conn, loaded, plays>>,
         new.refs = One(wait.upload = u) + One(new.stage # "done")
  PROVE  /\ upload' \in [Uploads -> Upload]
         /\ upload'[u] = new
         /\ \A v \in Uploads \ {u} : upload'[v] = upload[v]
         /\ \A v \in Uploads :
              upload'[v].refs = One(wait'.upload = v) + One(upload'[v].stage # "done")
<1>1. upload \in [Uploads -> Upload]
  BY DEF LinkInv, TypeOK, Upload
<1>2. /\ upload' \in [Uploads -> Upload]
      /\ upload'[u] = new
      /\ \A v \in Uploads \ {u} : upload'[v] = upload[v]
  BY <1>1
<1>3. ASSUME NEW v \in Uploads
      PROVE  upload'[v].refs = One(wait'.upload = v) + One(upload'[v].stage # "done")
  BY <1>2 DEF LinkInv, HeldIsReferenced
<1>4. QED
  BY <1>2, <1>3

\* preloadDeferCB
LEMMA PreloadDeferKeeps ==
  ASSUME LinkInv, NEW u \in Uploads, NEW created \in BOOLEAN, PreloadDefer(u, created)
  PROVE  LinkInv'
<1> DEFINE new == IF created THEN [upload[u] EXCEPT !.stage = "stream"] ELSE Ended(u, TRUE)
<1>1. /\ upload[u].stage = "deferred"
      /\ upload' = [upload EXCEPT ![u] = new]
      /\ UNCHANGED <<pulse, cache, conn, loaded, wait, plays, excused, toneVars, onCall>>
  BY DEF PreloadDefer, LinkInv, TypeOK
<1>2. /\ upload[u] \in Upload
      /\ upload[u].refs = One(wait.upload = u) + One(upload[u].stage # "done")
  BY DEF LinkInv, TypeOK, Upload, HeldIsReferenced
<1>3. /\ new \in Upload
      /\ new.refs = One(wait.upload = u) + One(new.stage # "done")
      /\ new.sample = upload[u].sample
      /\ ~new.loading => ~upload[u].loading
  <2>1. CASE created
    BY <1>1, <1>2, <2>1 DEF Upload, One
  <2>2. CASE ~created
    BY <1>1, <2>2, EndedKeeps
  <2>3. QED
    BY <2>1, <2>2
<1> HIDE DEF new
<1>4. /\ upload' \in [Uploads -> Upload]
      /\ upload'[u] = new
      /\ \A v \in Uploads \ {u} : upload'[v] = upload[v]
      /\ \A v \in Uploads :
           upload'[v].refs = One(wait'.upload = v) + One(upload'[v].stage # "done")
  BY <1>1, <1>3, UploadStepKeeps
<1>5. SampleInv'
  <2>1. LoadedIsCached' /\ PlaysAreReady'
    BY <1>1 DEF LinkInv, SampleInv, LoadedIsCached, PlaysAreReady, Ready
  <2>2. WaitedIsCached'
    BY <1>1, <1>3, <1>4 DEF LinkInv, TypeOK, SampleInv, WaitedIsCached
  <2>3. QED
    BY <2>1, <2>2 DEF SampleInv
<1>6. QED
  BY <1>1, <1>4, <1>5, SampleStepKeeps DEF LinkInv, TypeOK

\* The upload ends: its sample is in the cache of the PulseAudio that is connected,
\* or is excused.
LEMMA StreamStateKeeps ==
  ASSUME LinkInv, NEW u \in Uploads, NEW success \in BOOLEAN, StreamState(u, success)
  PROVE  LinkInv'
<1> DEFINE new == Ended(u, FALSE)
           s == upload[u].sample
<1>1. /\ upload[u].stage = "stream"
      /\ upload' = [upload EXCEPT ![u] = new]
      /\ cache' = IF success /\ conn = "up" THEN cache \cup {s} ELSE cache
      /\ excused' = IF success THEN excused \ {s} ELSE excused \cup {s}
      /\ UNCHANGED <<pulse, conn, loaded, wait, plays, toneVars, onCall>>
  BY DEF StreamState
<1>2. /\ new \in Upload
      /\ new.refs = One(wait.upload = u) + One(new.stage # "done")
      /\ new.sample = s
  BY <1>1, EndedKeeps
<1>3. s \in Samples
  BY DEF LinkInv, TypeOK
<1> HIDE DEF new, s
<1>4. /\ upload' \in [Uploads -> Upload]
      /\ upload'[u] = new
      /\ \A v \in Uploads \ {u} : upload'[v] = upload[v]
      /\ \A v \in Uploads :
           upload'[v].refs = One(wait'.upload = v) + One(upload'[v].stage # "done")
  BY <1>1, <1>2, UploadStepKeeps
<1>5. conn = "up" => /\ cache \cup excused \subseteq cache' \cup excused'
                     /\ s \in cache' \cup excused'
  BY <1>1
<1>6. SampleInv'
  <2>1. LoadedIsCached' /\ PlaysAreReady'
    BY <1>1, <1>5 DEF LinkInv, SampleInv, LoadedIsCached, PlaysAreReady, Ready
  <2>2. WaitedIsCached'
    BY <1>1, <1>2, <1>4, <1>5 DEF LinkInv, TypeOK, SampleInv, WaitedIsCached
  <2>3. QED
    BY <2>1, <2>2 DEF SampleInv
<1>7. cache' \subseteq Samples /\ excused' \subseteq Samples
  BY <1>1, <1>3 DEF LinkInv, TypeOK
<1>8. QED
  BY <1>1, <1>4, <1>6, <1>7, SampleStepKeeps DEF LinkInv, TypeOK

\* The main thread goes on, and gives back its reference.
LEMMA WaitEndsKeeps ==
  ASSUME LinkInv, WaitEnds
  PROVE  LinkInv'
<1> DEFINE u == wait.upload
           s == upload[u].sample
           late == IF upload[u].loading THEN {s} ELSE {}
<1>1. /\ u # None /\ u \in Uploads
      /\ upload' = [upload EXCEPT ![u].refs = @ - 1]
      /\ wait' = [upload |-> None, play |-> FALSE]
      /\ UNCHANGED <<pulse, cache, toneVars, onCall>>
  BY DEF WaitEnds, LinkInv, TypeOK
<1>2. /\ upload[u] \in Upload
      /\ upload[u].refs = 1 + One(upload[u].stage # "done")
  BY <1>1 DEF LinkInv, TypeOK, Upload, HeldIsReferenced, One
<1>3. s \in Samples
  BY <1>2 DEF Upload
<1>4. ASSUME NEW v \in Uploads
      PROVE  /\ upload'[v] \in Upload
             /\ upload'[v].refs = One(wait'.upload = v) + One(upload'[v].stage # "done")
  <2>1. wait'.upload # v
    BY <1>1, PulseLinkAssumption
  <2>2. CASE v = u
    <3>1. upload'[v] = [upload[u] EXCEPT !.refs = upload[u].refs - 1]
      BY <1>1, <2>2 DEF LinkInv, TypeOK
    <3>2. upload[u].refs - 1 = One(upload[u].stage # "done") /\ upload[u].refs - 1 \in 0 .. 2
      BY <1>2 DEF One
    <3>3. QED
      BY <1>2, <2>1, <3>1, <3>2 DEF Upload, One
  <2>3. CASE v # u
    <3>1. upload'[v] = upload[v] /\ upload[v] \in Upload
      BY <1>1, <2>3 DEF LinkInv, TypeOK, Upload
    <3>2. QED
      BY <2>1, <2>3, <3>1 DEF LinkInv, HeldIsReferenced
  <2>4. QED
    BY <2>2, <2>3
<1>5. upload' \in [Uploads -> Upload]
  <2>1. upload \in [Uploads -> Upload]
    BY DEF LinkInv, TypeOK, Upload
  <2>2. upload' = [v \in Uploads |-> upload'[v]]
    BY <1>1, <2>1
  <2>3. QED
    BY <1>4, <2>2
<1>6. /\ conn' \in {"none", "up", "broken", "failed"}
      /\ loaded' \subseteq Samples /\ excused' \subseteq Samples /\ plays' \subseteq Samples
      /\ SampleInv'
  <2>1. CASE wait.play /\ ~Ready
    <3>1. Play(s)
      BY <2>1 DEF WaitEnds
    <3>2. wait'.upload = None /\ UNCHANGED cache
      BY <1>1
    <3>3. QED
      BY <1>3, <2>1, <3>1, <3>2, PlayKeeps
  <2>2. CASE ~(wait.play /\ ~Ready)
    <3>1. /\ loaded' = loaded \cup {s}
          /\ excused' = excused \cup late
          /\ plays' = IF wait.play THEN plays \cup {s} ELSE plays
          /\ conn' = conn
      BY <2>2 DEF WaitEnds
    <3>2. conn = "up" => s \in cache' \cup excused'
      BY <1>1, <3>1 DEF LinkInv, SampleInv, WaitedIsCached
    <3>3. LoadedIsCached'
      BY <1>1, <3>1, <3>2 DEF LinkInv, SampleInv, LoadedIsCached
    <3>4. PlaysAreReady' /\ WaitedIsCached'
      BY <1>1, <2>2, <3>1 DEF LinkInv, SampleInv, PlaysAreReady, WaitedIsCached, Ready
    <3>5. QED
      BY <1>3, <3>1, <3>3, <3>4 DEF LinkInv, TypeOK, SampleInv
  <2>3. QED
    BY <2>1, <2>2
<1>7. wait' \in [upload : Uploads \cup {None}, play : BOOLEAN]
  BY <1>1
<1>8. QED
  BY <1>1, <1>4, <1>5, <1>6, <1>7, SampleStepKeeps DEF LinkInv, TypeOK

\* PlaySampleDeferCB
LEMMA PlaySampleKeeps ==
  ASSUME LinkInv, NEW s, PlaySample(s)
  PROVE  LinkInv'
<1>1. /\ plays' = plays \ {s} /\ plays' \subseteq Samples
      /\ UNCHANGED <<pulse, cache, conn, loaded, wait, upload, excused, toneVars, onCall>>
  BY DEF PlaySample, LinkInv, TypeOK
<1>2. SampleInv'
  BY <1>1 DEF LinkInv, SampleInv, LoadedIsCached, PlaysAreReady, WaitedIsCached, Ready
<1>3. QED
  BY <1>1, <1>2, SampleStepKeeps DEF LinkInv, TypeOK, HeldIsReferenced, Upload

-----------------------------------------------------------------------------
(* Tones.                                                                  *)

\* A step of the main thread that is about tones: what is left to show.
LEMMA ToneStepKeeps ==
  ASSUME LinkInv, UNCHANGED <<pulse, cache, wait, upload, plays, onCall>>,
         wait.upload = None,
         \/ UNCHANGED <<conn, loaded, excused>>
         \/ \E ok \in BOOLEAN : CheckConnection(ok, {}),
         gen' \in [Gens -> Gen],
         current' \in [gen : Gens \cup {None}, tone : Tones \cup {None}],
         \A g \in Gens : gen'[g].refs = One(current'.gen = g) + One(gen'[g].stream # "none"),
         modem' \in BOOLEAN, dtmf' \subseteq {"modem", "generator"},
         CurrentHasGenerator', TonesCanBeStopped'
  PROVE  LinkInv'
<1>1. /\ conn' \in {"none", "up", "broken", "failed"}
      /\ loaded' \subseteq Samples /\ excused' \subseteq Samples
      /\ SampleInv'
  <2>1. CASE UNCHANGED <<conn, loaded, excused>>
    BY <2>1 DEF LinkInv, TypeOK, SampleInv, LoadedIsCached, PlaysAreReady, WaitedIsCached,
       Ready
  <2>2. ASSUME NEW ok \in BOOLEAN, CheckConnection(ok, {})
        PROVE  /\ conn' \in {"none", "up", "broken", "failed"}
               /\ loaded' \subseteq Samples /\ excused' \subseteq Samples
               /\ SampleInv'
    <3>1. /\ conn' \in {"none", "up", "broken", "failed"}
          /\ loaded' \subseteq Samples /\ excused' \subseteq Samples
          /\ \/ Ready /\ UNCHANGED <<conn, loaded, excused>>
             \/ ~Ready /\ loaded' = {} /\ excused' = {} /\ plays = {}
      BY <2>2, Checks
    <3>2. SampleInv'
      BY <3>1 DEF LinkInv, SampleInv, LoadedIsCached, PlaysAreReady, WaitedIsCached, Ready
    <3>3. QED
      BY <3>1, <3>2
  <2>3. QED
    BY <2>1, <2>2
<1>2. TypeOK'
  BY <1>1 DEF LinkInv, TypeOK, Gen
<1>3. HeldIsReferenced'
  BY DEF LinkInv, HeldIsReferenced
<1>4. QED
  BY <1>1, <1>2, <1>3 DEF LinkInv

\* stopDtmf gives back the reference of mCurrentDtmf and ends the long tone, which
\* there is only one of: what remains is what streams refer to.
LEMMA Stops ==
  ASSUME LinkInv
  PROVE  /\ StopDtmf(gen) \in [Gens -> Gen]
         /\ \A g \in Gens : /\ StopDtmf(gen)[g].refs = One(StopDtmf(gen)[g].stream # "none")
                            /\ ~StopDtmf(gen)[g].long
<1>1. /\ gen \in [Gens -> Gen]
      /\ current \in [gen : Gens \cup {None}, tone : Tones \cup {None}]
      /\ \A g \in Gens : gen[g].refs = One(current.gen = g) + One(gen[g].stream # "none")
      /\ \A g \in Gens : gen[g].long => current.gen = g
  BY DEF LinkInv, TypeOK, HeldIsReferenced, TonesCanBeStopped, Gen
<1>2. CASE current = NoTone
  <2>1. StopDtmf(gen) = gen /\ \A g \in Gens : current.gen # g
    BY <1>2, PulseLinkAssumption DEF StopDtmf, NoTone
  <2>2. QED
    BY <1>1, <2>1 DEF One
<1>3. CASE current # NoTone
  <2> DEFINE c == current.gen
             stopped == [gen[c] EXCEPT !.status = IF @ = "normal" THEN "stopping" ELSE @,
                                       !.long = FALSE, !.refs = @ - 1]
  <2>1. c \in Gens
    BY <1>1, <1>3 DEF LinkInv, CurrentHasGenerator, NoTone
  <2>2. StopDtmf(gen) = [gen EXCEPT ![c] = stopped]
    BY <1>1, <1>3, <2>1 DEF StopDtmf
  <2>3. gen[c] \in Gen /\ gen[c].refs = 1 + One(gen[c].stream # "none")
    BY <1>1, <2>1 DEF One
  <2>4. gen[c].refs - 1 = One(gen[c].stream # "none") /\ gen[c].refs - 1 \in 0 .. 2
    BY <2>3 DEF One
  <2>5. stopped \in Gen /\ stopped.refs = One(stopped.stream # "none") /\ ~stopped.long
    BY <2>3, <2>4 DEF Gen
  <2> HIDE DEF stopped
  <2>6. ASSUME NEW g \in Gens
        PROVE  /\ StopDtmf(gen)[g].refs = One(StopDtmf(gen)[g].stream # "none")
               /\ ~StopDtmf(gen)[g].long
    <3>1. CASE g = c
      BY <1>1, <2>1, <2>2, <2>5, <3>1
    <3>2. CASE g # c
      <4>1. StopDtmf(gen)[g] = gen[g]
        BY <1>1, <2>1, <2>2, <3>2
      <4>2. QED
        BY <1>1, <3>2, <4>1 DEF One
    <3>3. QED
      BY <3>1, <3>2
  <2>7. QED
    BY <1>1, <2>1, <2>2, <2>5, <2>6
<1>4. QED
  BY <1>2, <1>3

\* The tone that sounds is stopped, and none follows.
LEMMA Silences ==
  ASSUME LinkInv, Silent
  PROVE  /\ UNCHANGED <<conn, loaded, excused>>
         /\ gen' \in [Gens -> Gen]
         /\ current' \in [gen : Gens \cup {None}, tone : Tones \cup {None}]
         /\ \A g \in Gens : /\ gen'[g].refs = One(current'.gen = g) + One(gen'[g].stream # "none")
                            /\ ~gen'[g].long
         /\ CurrentHasGenerator'
<1>1. gen' = StopDtmf(gen) /\ current' = NoTone /\ UNCHANGED <<conn, loaded, excused>>
  BY DEF Silent
<1>2. \A g \in Gens : current'.gen # g
  BY <1>1, PulseLinkAssumption DEF NoTone
<1>3. QED
  BY <1>1, <1>2, Stops DEF One, NoTone, CurrentHasGenerator

\* The tone that sounds is stopped, and another takes its place.
LEMMA Replaces ==
  ASSUME LinkInv, NEW t \in Tones, NEW long \in BOOLEAN, PlayTone(t, long)
  PROVE  /\ \E ok \in BOOLEAN : CheckConnection(ok, {})
         /\ gen' \in [Gens -> Gen]
         /\ current' \in [gen : Gens \cup {None}, tone : Tones \cup {None}]
         /\ \A g \in Gens : /\ gen'[g].refs = One(current'.gen = g) + One(gen'[g].stream # "none")
                            /\ gen'[g].long => long /\ current'.gen = g
         /\ CurrentHasGenerator'
<1>1. PICK ok \in BOOLEAN, c \in Gens :
        /\ CheckConnection(ok, {})
        /\ gen' = [StopDtmf(gen) EXCEPT ![c] = NewGen(long, ok)]
        /\ current' = [gen |-> c, tone |-> t]
  BY DEF PlayTone
<1>2. /\ NewGen(long, ok) \in Gen
      /\ NewGen(long, ok).refs = 1 + One(NewGen(long, ok).stream # "none")
      /\ NewGen(long, ok).long = long
  BY DEF NewGen, Gen, One
<1>3. /\ gen' \in [Gens -> Gen]
      /\ gen'[c] = NewGen(long, ok)
      /\ \A g \in Gens \ {c} : gen'[g] = StopDtmf(gen)[g]
  BY <1>1, <1>2, Stops
<1>4. ASSUME NEW g \in Gens
      PROVE  /\ gen'[g].refs = One(current'.gen = g) + One(gen'[g].stream # "none")
             /\ gen'[g].long => long /\ current'.gen = g
  <2>1. CASE g = c
    BY <1>1, <1>2, <1>3, <2>1 DEF One
  <2>2. CASE g # c
    BY <1>1, <1>3, <2>2, Stops DEF One
  <2>3. QED
    BY <2>1, <2>2
<1>5. CurrentHasGenerator'
  BY <1>1, PulseLinkAssumption DEF CurrentHasGenerator
<1>6. QED
  BY <1>1, <1>3, <1>4, <1>5

\* Nothing is left of a long tone when gDTMFstate is idle.
LEMMA NoLongTone ==
  ASSUME LinkInv, dtmf = {}, AsBefore
  PROVE  /\ gen' \in [Gens -> Gen]
         /\ current' \in [gen : Gens \cup {None}, tone : Tones \cup {None}]
         /\ \A g \in Gens : /\ gen'[g].refs = One(current'.gen = g) + One(gen'[g].stream # "none")
                            /\ ~gen'[g].long
         /\ CurrentHasGenerator'
         /\ UNCHANGED <<conn, loaded, excused>>
<1>1. UNCHANGED <<gen, current, conn, loaded, excused>>
  BY DEF AsBefore
<1>2. \A g \in Gens : ~gen[g].long
  BY DEF LinkInv, TonesCanBeStopped
<1>3. QED
  BY <1>1, <1>2 DEF LinkInv, TypeOK, HeldIsReferenced, CurrentHasGenerator, Gen

\* _stopDTMF, and _playDTMF of an id that is refused or while audio is suspended.
LEMMA StopKeeps ==
  ASSUME LinkInv, StopCurrentDtmf, wait.upload = None, dtmf' \subseteq {"modem", "generator"},
         UNCHANGED <<pulse, cache, wait, upload, plays, onCall>>
  PROVE  LinkInv'
<1>1. modem' = FALSE
  BY DEF StopCurrentDtmf, LinkInv, TonesCanBeStopped, TypeOK
<1>2. /\ gen' \in [Gens -> Gen]
      /\ current' \in [gen : Gens \cup {None}, tone : Tones \cup {None}]
      /\ \A g \in Gens : /\ gen'[g].refs = One(current'.gen = g) + One(gen'[g].stream # "none")
                         /\ ~gen'[g].long
      /\ CurrentHasGenerator'
      /\ UNCHANGED <<conn, loaded, excused>>
  BY NoLongTone, Silences DEF StopCurrentDtmf
<1>3. TonesCanBeStopped'
  BY <1>1, <1>2 DEF TonesCanBeStopped
<1>4. QED
  BY <1>1, <1>2, <1>3, ToneStepKeeps

\* _playDTMF without a call.
LEMMA IdleTone ==
  ASSUME LinkInv, NEW t \in Tones, NEW oneshot \in BOOLEAN, NEW ringerOn \in BOOLEAN,
         PlayDTMFIdle(t, oneshot, ringerOn)
  PROVE  LinkInv'
<1>1. /\ wait.upload = None
      /\ modem' = FALSE
      /\ dtmf' \subseteq {"modem", "generator"}
      /\ UNCHANGED <<pulse, cache, wait, upload, plays, onCall>>
  BY DEF PlayDTMFIdle, Idle, LinkInv, TonesCanBeStopped, TypeOK
<1>2. /\ gen' \in [Gens -> Gen]
      /\ current' \in [gen : Gens \cup {None}, tone : Tones \cup {None}]
      /\ \A g \in Gens : /\ gen'[g].refs = One(current'.gen = g) + One(gen'[g].stream # "none")
                         /\ ~gen'[g].long
      /\ CurrentHasGenerator'
      /\ \/ UNCHANGED <<conn, loaded, excused>>
         \/ \E ok \in BOOLEAN : CheckConnection(ok, {})
  <2>1. CASE ringerOn
    <3>1. PlayTone(t, FALSE)
      BY <2>1 DEF PlayDTMFIdle
    <3>2. QED
      BY <3>1, Replaces
  <2>2. CASE ~ringerOn
    BY <2>2, NoLongTone, Silences DEF PlayDTMFIdle
  <2>3. QED
    BY <2>1, <2>2
<1>3. TonesCanBeStopped'
  BY <1>1, <1>2 DEF TonesCanBeStopped
<1>4. QED
  BY <1>1, <1>2, <1>3, ToneStepKeeps

\* _playDTMF during a call: the modem's tone.
LEMMA ModemTone ==
  ASSUME LinkInv, NEW oneshot \in BOOLEAN, PlayDTMFModem(oneshot)
  PROVE  LinkInv'
<1>1. /\ wait.upload = None
      /\ modem' = ~oneshot
      /\ dtmf' = IF oneshot THEN {} ELSE {"modem", "generator"}
      /\ UNCHANGED <<pulse, cache, wait, upload, plays, onCall>>
  BY DEF PlayDTMFModem, Idle, LinkInv, TonesCanBeStopped, TypeOK
<1>2. /\ gen' \in [Gens -> Gen]
      /\ current' \in [gen : Gens \cup {None}, tone : Tones \cup {None}]
      /\ \A g \in Gens : /\ gen'[g].refs = One(current'.gen = g) + One(gen'[g].stream # "none")
                         /\ ~gen'[g].long
      /\ CurrentHasGenerator'
      /\ UNCHANGED <<conn, loaded, excused>>
  BY NoLongTone, Silences DEF PlayDTMFModem
<1>3. TonesCanBeStopped'
  BY <1>1, <1>2 DEF TonesCanBeStopped
<1>4. QED
  BY <1>1, <1>2, <1>3, ToneStepKeeps

\* _playDTMF during a call, feedbackOnly: a long tone is in gDTMFstate from its start.
LEMMA FeedbackTone ==
  ASSUME LinkInv, NEW t \in Tones, NEW oneshot \in BOOLEAN, PlayDTMFFeedback(t, oneshot)
  PROVE  LinkInv'
<1>1. /\ wait.upload = None
      /\ modem' = FALSE
      /\ dtmf' = IF oneshot THEN {} ELSE {"generator"}
      /\ UNCHANGED <<pulse, cache, wait, upload, plays, onCall>>
  BY DEF PlayDTMFFeedback, Idle, LinkInv, TonesCanBeStopped, TypeOK
<1>2. /\ gen' \in [Gens -> Gen]
      /\ current' \in [gen : Gens \cup {None}, tone : Tones \cup {None}]
      /\ \A g \in Gens : /\ gen'[g].refs = One(current'.gen = g) + One(gen'[g].stream # "none")
                         /\ gen'[g].long => ~oneshot /\ current'.gen = g
      /\ CurrentHasGenerator'
      /\ \/ UNCHANGED <<conn, loaded, excused>>
         \/ \E ok \in BOOLEAN : CheckConnection(ok, {})
  <2>1. CASE ~oneshot /\ dtmf = {} /\ current.tone = t
    BY <2>1, NoLongTone DEF PlayDTMFFeedback
  <2>2. CASE ~(~oneshot /\ dtmf = {} /\ current.tone = t)
    <3>1. PlayTone(t, ~oneshot)
      BY <2>2 DEF PlayDTMFFeedback
    <3>2. (~oneshot) \in BOOLEAN
      OBVIOUS
    <3>3. QED
      BY <3>1, <3>2, Replaces
  <2>3. QED
    BY <2>1, <2>2
<1>3. TonesCanBeStopped'
  BY <1>1, <1>2 DEF TonesCanBeStopped
<1>4. dtmf' \subseteq {"modem", "generator"}
  BY <1>1
<1>5. QED
  BY <1>1, <1>2, <1>3, <1>4, ToneStepKeeps

\* playSystemSound of a "dtmf_" sound.
LEMMA SoundTone ==
  ASSUME LinkInv, NEW t \in Tones, PlayDtmfSound(t)
  PROVE  LinkInv'
<1>1. /\ wait.upload = None /\ PlayTone(t, FALSE)
      /\ UNCHANGED <<pulse, cache, wait, upload, plays, dtmf, modem, onCall>>
  BY DEF PlayDtmfSound, Idle
<1>2. /\ gen' \in [Gens -> Gen]
      /\ current' \in [gen : Gens \cup {None}, tone : Tones \cup {None}]
      /\ \A g \in Gens : /\ gen'[g].refs = One(current'.gen = g) + One(gen'[g].stream # "none")
                         /\ ~gen'[g].long
      /\ CurrentHasGenerator'
      /\ \E ok \in BOOLEAN : CheckConnection(ok, {})
  BY <1>1, Replaces
<1>3. TonesCanBeStopped'
  BY <1>1, <1>2 DEF TonesCanBeStopped, LinkInv
<1>4. modem' \in BOOLEAN /\ dtmf' \subseteq {"modem", "generator"}
  BY <1>1 DEF LinkInv, TypeOK
<1>5. QED
  BY <1>1, <1>2, <1>3, <1>4, ToneStepKeeps

\* A stream goes on in the loop's thread; it gives back its reference when drained.
LEMMA StreamKeeps ==
  ASSUME LinkInv, NEW g \in Gens, ToneStep(g)
  PROVE  LinkInv'
<1>1. /\ UNCHANGED <<linkVars, current, dtmf, modem, onCall>>
      /\ gen[g].stream # "none"
  BY DEF ToneStep, PlayAudioDefer, WriteCallback, DrainComplete
<1>2. /\ gen \in [Gens -> Gen]
      /\ gen[g].refs = One(current.gen = g) + 1
  BY <1>1 DEF LinkInv, TypeOK, HeldIsReferenced, Gen, One
<1>3. gen[g].refs - 1 = One(current.gen = g) /\ gen[g].refs - 1 \in 0 .. 2
  BY <1>2 DEF One
<1>4. PICK new \in Gen :
        /\ gen' = [gen EXCEPT ![g] = new]
        /\ new.refs = One(current.gen = g) + One(new.stream # "none")
        /\ new.long = gen[g].long
  <2>1. ASSUME NEW created \in BOOLEAN, PlayAudioDefer(g, created)
        PROVE  \E new \in Gen : /\ gen' = [gen EXCEPT ![g] = new]
                                /\ new.refs = One(current.gen = g) + One(new.stream # "none")
                                /\ new.long = gen[g].long
    <3> DEFINE new == [gen[g] EXCEPT !.stream = IF created THEN "playing" ELSE "lost"]
    <3>1. gen' = [gen EXCEPT ![g] = new]
      BY <2>1, <1>2 DEF PlayAudioDefer
    <3>2. new \in Gen /\ new.long = gen[g].long
          /\ new.refs = One(current.gen = g) + One(new.stream # "none")
      BY <1>2 DEF Gen, One
    <3>3. QED
      BY <3>1, <3>2
  <2>2. ASSUME WriteCallback(g)
        PROVE  \E new \in Gen : /\ gen' = [gen EXCEPT ![g] = new]
                                /\ new.refs = One(current.gen = g) + One(new.stream # "none")
                                /\ new.long = gen[g].long
    <3> DEFINE new == [gen[g] EXCEPT !.status = "stopped", !.stream = "draining"]
    <3>1. gen' = [gen EXCEPT ![g] = new]
      BY <2>2, <1>2 DEF WriteCallback
    <3>2. new \in Gen /\ new.long = gen[g].long
          /\ new.refs = One(current.gen = g) + One(new.stream # "none")
      BY <1>2 DEF Gen, One
    <3>3. QED
      BY <3>1, <3>2
  <2>3. ASSUME DrainComplete(g)
        PROVE  \E new \in Gen : /\ gen' = [gen EXCEPT ![g] = new]
                                /\ new.refs = One(current.gen = g) + One(new.stream # "none")
                                /\ new.long = gen[g].long
    <3> DEFINE new == [gen[g] EXCEPT !.status = "disconnected", !.stream = "none",
                                     !.refs = @ - 1]
    <3>1. gen' = [gen EXCEPT ![g] = new]
      BY <2>3, <1>2 DEF DrainComplete
    <3>2. new \in Gen /\ new.long = gen[g].long /\ new.stream = "none"
          /\ new.refs = One(current.gen = g)
      BY <1>2, <1>3 DEF Gen
    <3>3. new.refs = One(current.gen = g) + One(new.stream # "none")
      BY <3>2 DEF One
    <3>4. QED
      BY <3>1, <3>2, <3>3
  <2>4. QED
    BY <2>1, <2>2, <2>3 DEF ToneStep
<1>5. /\ gen' \in [Gens -> Gen] /\ gen'[g] = new
      /\ \A h \in Gens \ {g} : gen'[h] = gen[h]
  BY <1>2, <1>4
<1>6. TypeOK'
  BY <1>1, <1>5 DEF LinkInv, TypeOK, linkVars, Gen
<1>7. HeldIsReferenced'
  BY <1>1, <1>4, <1>5 DEF LinkInv, HeldIsReferenced, linkVars
<1>8. TonesCanBeStopped' /\ CurrentHasGenerator'
  BY <1>1, <1>4, <1>5 DEF LinkInv, TonesCanBeStopped, CurrentHasGenerator
<1>9. SampleInv'
  BY <1>1 DEF LinkInv, SampleInv, LoadedIsCached, PlaysAreReady, WaitedIsCached, Ready,
     linkVars
<1>10. QED
  BY <1>6, <1>7, <1>8, <1>9 DEF LinkInv

\* setOnActiveCall, or nothing.
LEMMA SameLink ==
  ASSUME LinkInv, UNCHANGED <<linkVars, toneVars>>, onCall' \in BOOLEAN
  PROVE  LinkInv'
BY DEF LinkInv, TypeOK, linkVars, toneVars, CurrentHasGenerator, HeldIsReferenced,
   SampleInv, LoadedIsCached, PlaysAreReady, WaitedIsCached, Ready, TonesCanBeStopped

-----------------------------------------------------------------------------
(* The theorems.                                                           *)

\* The main thread, by what it is asked for.
LEMMA MainKeeps ==
  ASSUME LinkInv, MainStep
  PROVE  LinkInv'
<1>1. CASE PlayFeedback
  BY <1>1, PlayLoadedKeeps, PreloadFailsKeeps, PreloadKeeps, SoundTone DEF PlayFeedback
<1>2. CASE WaitEnds
  BY <1>2, WaitEndsKeeps
<1>3. CASE StopDTMF
  BY <1>3, StopKeeps DEF StopDTMF, Idle
<1>4. ASSUME NEW bits \in {{}, {"modem"}, {"generator"}}, RefuseDTMF(bits)
      PROVE  LinkInv'
  BY <1>4, StopKeeps DEF RefuseDTMF, Idle
<1>5. ASSUME NEW t \in Tones, NEW oneshot \in BOOLEAN, NEW ringerOn \in BOOLEAN,
             PlayDTMFIdle(t, oneshot, ringerOn) \/ PlayDTMFFeedback(t, oneshot)
      PROVE  LinkInv'
  BY <1>5, IdleTone, FeedbackTone
<1>6. ASSUME NEW oneshot \in BOOLEAN, PlayDTMFModem(oneshot)
      PROVE  LinkInv'
  BY <1>6, ModemTone
<1>7. CASE CallChanges
  BY <1>7, SameLink DEF CallChanges, LinkInv, TypeOK
<1>8. QED
  BY <1>1, <1>2, <1>3, <1>4, <1>5, <1>6, <1>7 DEF MainStep

\* Either thread, PulseAudio, or none.
LEMMA LinkStep == LinkInv /\ [Next]_vars => LinkInv'
<1> SUFFICES ASSUME LinkInv, [Next]_vars PROVE LinkInv'
  OBVIOUS
<1>1. CASE MainStep
  BY <1>1, MainKeeps
<1>2. CASE LoopStep
  BY <1>2, PreloadDeferKeeps, StreamStateKeeps, PlaySampleKeeps, StreamKeeps,
     ContextFailedKeeps DEF LoopStep
<1>3. CASE PulseDies \/ PulseStarts
  BY <1>3, PulseKeeps
<1>4. CASE UNCHANGED vars
  BY <1>4, SameLink DEF vars, LinkInv, TypeOK
<1>5. QED
  BY <1>1, <1>2, <1>3, <1>4 DEF Next

\* The invariant holds always.
LEMMA LinkAlways == Spec => []LinkInv
BY LinkInitially, LinkStep, PTL DEF Spec

\* The variables keep their types: no reference count leaves 0, 1, 2.
THEOREM LinkTypes == Spec => []TypeOK
BY LinkAlways, PTL DEF LinkInv

\* RefObj: an upload and a generator are referenced by the threads that can still
\* use them and by no one else, in whichever order they are done with them, and
\* whenever the connection fails.
THEOREM HeldIsAlwaysReferenced == Spec => []HeldIsReferenced
BY LinkAlways, PTL DEF LinkInv

\* What mLoadedSounds says is loaded is in the cache of the PulseAudio that is
\* connected, however often it died, but for what the code excuses.
THEOREM LoadedIsAlwaysCached == Spec => []LoadedIsCached
BY LinkAlways, PTL DEF LinkInv, SampleInv

\* gDTMFstate knows of every tone that goes on until it is stopped.
THEOREM TonesCanAlwaysBeStopped == Spec => []TonesCanBeStopped
BY LinkAlways, PTL DEF LinkInv

-----------------------------------------------------------------------------
(* A tone that is let go can go on to its end.                             *)

\* A stream that waits for data belongs to a generator that has some, or is told to
\* stop; one that drains, to one that has stopped.
Alive(h) ==
  /\ h.stream \in {"deferred", "playing"} => h.status \in {"normal", "stopping"}
  /\ h.stream = "draining" => h.status = "stopped"

AllAlive == \A g \in Gens : Alive(gen[g])

Under == {"deferred", "playing", "draining"}

\* Streams that are not lost have a connection whose loop runs.
StreamsHaveALoop == (\E g \in Gens : gen[g].stream \in Under) => Ready

\* A generator that the main thread has let go of, and that is not freed, nor its
\* stream lost: the next step of its stream can be taken at once.
LetGoCanEnd ==
  \A g \in Gens :
    gen[g].refs > 0 /\ current.gen # g /\ gen[g].stream # "lost" =>
      /\ Ready
      /\ gen[g].stream \in Under
      /\ gen[g].stream = "playing" => NoMoreData(g)

\* What a step may do to the generators.
LEMMA GensChange ==
  ASSUME [Next]_vars
  PROVE  \/ gen' = gen
         \/ gen' = StopDtmf(gen)
         \/ \E t \in Tones, long \in BOOLEAN : PlayTone(t, long)
         \/ ContextFailed
         \/ \E g \in Gens : ToneStep(g)
<1>1. CASE MainStep
  BY <1>1 DEF MainStep, PlayFeedback, PlayLoaded, PreloadFails, Preload, PlayDtmfSound,
     WaitEnds, StopDTMF, RefuseDTMF, StopCurrentDtmf, PlayDTMFIdle, PlayDTMFModem,
     PlayDTMFFeedback, CallChanges, Silent, AsBefore, toneVars
<1>2. CASE LoopStep
  BY <1>2 DEF LoopStep, PreloadDefer, StreamState, PlaySample, toneVars
<1>3. CASE PulseDies \/ PulseStarts \/ UNCHANGED vars
  BY <1>3 DEF PulseDies, PulseStarts, vars, toneVars
<1>4. QED
  BY <1>1, <1>2, <1>3 DEF Next

\* stopDtmf tells the generator to stop, if it is not past that.
LEMMA StopsAlive ==
  ASSUME LinkInv, AllAlive, NEW g \in Gens
  PROVE  Alive(StopDtmf(gen)[g]) /\ StopDtmf(gen)[g].stream = gen[g].stream
<1>1. /\ gen \in [Gens -> Gen]
      /\ current \in [gen : Gens \cup {None}, tone : Tones \cup {None}]
  BY DEF LinkInv, TypeOK, Gen
<1>2. CASE current = NoTone \/ current.gen # g
  <2>1. StopDtmf(gen)[g] = gen[g]
    <3>1. CASE current = NoTone
      BY <3>1 DEF StopDtmf
    <3>2. CASE current # NoTone /\ current.gen # g
      <4>1. current.gen \in Gens
        BY <1>1, <3>2 DEF LinkInv, CurrentHasGenerator, NoTone
      <4>2. QED
        BY <1>1, <3>2, <4>1 DEF StopDtmf
    <3>3. QED
      BY <1>2, <3>1, <3>2
  <2>2. QED
    BY <2>1 DEF AllAlive
<1>3. CASE current # NoTone /\ current.gen = g
  <2>1. StopDtmf(gen)[g] = [gen[g] EXCEPT !.status = IF @ = "normal" THEN "stopping" ELSE @,
                                          !.long = FALSE, !.refs = @ - 1]
    BY <1>1, <1>3 DEF StopDtmf
  <2>2. /\ StopDtmf(gen)[g].stream = gen[g].stream
        /\ StopDtmf(gen)[g].status = IF gen[g].status = "normal" THEN "stopping"
                                     ELSE gen[g].status
    BY <1>1, <2>1 DEF Gen
  <2>3. QED
    BY <2>2 DEF AllAlive, Alive
<1>4. QED
  BY <1>2, <1>3

LEMMA AliveStep ==
  ASSUME LinkInv, AllAlive, [Next]_vars
  PROVE  AllAlive'
<1> SUFFICES ASSUME NEW g \in Gens PROVE Alive(gen'[g])
  BY DEF AllAlive
<1>1. gen \in [Gens -> Gen] /\ Alive(gen[g])
  BY DEF LinkInv, TypeOK, Gen, AllAlive
<1>2. CASE gen' = gen
  BY <1>1, <1>2
<1>3. CASE gen' = StopDtmf(gen)
  BY <1>3, StopsAlive
<1>4. ASSUME NEW t \in Tones, NEW long \in BOOLEAN, PlayTone(t, long)
      PROVE  Alive(gen'[g])
  <2>1. PICK ok \in BOOLEAN, c \in Gens :
          gen' = [StopDtmf(gen) EXCEPT ![c] = NewGen(long, ok)]
    BY <1>4 DEF PlayTone
  <2>2. StopDtmf(gen) \in [Gens -> Gen]
    BY Stops
  <2>3. gen'[g] = NewGen(long, ok) \/ gen'[g] = StopDtmf(gen)[g]
    BY <2>1, <2>2
  <2>4. Alive(NewGen(long, ok))
    BY DEF NewGen, Alive
  <2>5. QED
    BY <2>3, <2>4, StopsAlive
<1>5. CASE ContextFailed
  <2>1. gen'[g] = IF gen[g].stream = "none" THEN gen[g] ELSE [gen[g] EXCEPT !.stream = "lost"]
    BY <1>5 DEF ContextFailed
  <2>2. CASE gen[g].stream = "none"
    BY <1>1, <2>1, <2>2
  <2>3. CASE gen[g].stream # "none"
    <3>1. gen'[g].stream = "lost"
      BY <1>1, <2>1, <2>3 DEF Gen
    <3>2. QED
      BY <3>1 DEF Alive
  <2>4. QED
    BY <2>2, <2>3
<1>6. ASSUME NEW c \in Gens, ToneStep(c) PROVE Alive(gen'[g])
  <2>1. CASE g # c
    <3>1. gen'[g] = gen[g]
      BY <1>1, <1>6, <2>1 DEF ToneStep, PlayAudioDefer, WriteCallback, DrainComplete
    <3>2. QED
      BY <1>1, <3>1
  <2>2. CASE g = c
    <3>1. ASSUME NEW created \in BOOLEAN, PlayAudioDefer(g, created) PROVE Alive(gen'[g])
      <4>1. /\ gen[g].stream = "deferred" /\ gen'[g].status = gen[g].status
            /\ gen'[g].stream \in {"playing", "lost"}
        BY <1>1, <3>1 DEF PlayAudioDefer, Gen
      <4>2. QED
        BY <1>1, <4>1 DEF Alive
    <3>2. CASE WriteCallback(g)
      <4>1. gen'[g].status = "stopped" /\ gen'[g].stream = "draining"
        BY <1>1, <3>2 DEF WriteCallback, Gen
      <4>2. QED
        BY <4>1 DEF Alive
    <3>3. CASE DrainComplete(g)
      <4>1. gen'[g].stream = "none"
        BY <1>1, <3>3 DEF DrainComplete, Gen
      <4>2. QED
        BY <4>1 DEF Alive
    <3>4. QED
      BY <1>6, <2>2, <3>1, <3>2, <3>3 DEF ToneStep
  <2>3. QED
    BY <2>1, <2>2
<1>7. QED
  BY <1>2, <1>3, <1>4, <1>5, <1>6, GensChange

\* The connection only fails with all streams, and a new one begins without.
LEMMA ConnChanges ==
  ASSUME [Next]_vars, Ready
  PROVE  Ready' \/ ContextFailed
<1>1. CASE conn' = conn
  BY <1>1 DEF Ready
<1>2. ASSUME NEW ok \in BOOLEAN, NEW asked, CheckConnection(ok, asked) PROVE conn' = conn
  BY <1>2 DEF CheckConnection
<1>3. CASE PulseDies
  BY <1>3 DEF PulseDies, Ready
<1>4. CASE MainStep
  <2>1. \/ conn' = conn
        \/ \E ok \in BOOLEAN : CheckConnection(ok, {})
        \/ \E s \in Samples, ok \in BOOLEAN : CheckConnection(ok, {s})
        \/ WaitEnds
    BY <1>4 DEF MainStep, PlayFeedback, PlayLoaded, PreloadFails, Preload, PlayDtmfSound,
       Play, PlayTone, StopDTMF, RefuseDTMF, StopCurrentDtmf, PlayDTMFIdle, PlayDTMFModem,
       PlayDTMFFeedback, CallChanges, Silent, AsBefore, linkVars
  <2>2. WaitEnds => conn' = conn
    BY DEF WaitEnds
  <2>3. QED
    BY <1>1, <1>2, <2>1, <2>2
<1>5. CASE LoopStep /\ ~ContextFailed
  BY <1>1, <1>5 DEF LoopStep, PreloadDefer, StreamState, PlaySample, ToneStep, PlayAudioDefer,
     WriteCallback, DrainComplete, linkVars
<1>6. CASE PulseStarts \/ UNCHANGED vars
  BY <1>1, <1>6 DEF PulseStarts, vars, linkVars
<1>7. QED
  BY <1>3, <1>4, <1>5, <1>6 DEF Next

LEMMA LoopStepKept ==
  ASSUME LinkInv, AllAlive, StreamsHaveALoop, [Next]_vars
  PROVE  StreamsHaveALoop'
<1> SUFFICES ASSUME NEW g \in Gens, gen'[g].stream \in Under PROVE Ready'
  BY DEF StreamsHaveALoop
<1>1. gen \in [Gens -> Gen]
  BY DEF LinkInv, TypeOK, Gen
<1>2. ~ContextFailed
  <2> SUFFICES ASSUME ContextFailed PROVE FALSE
    OBVIOUS
  <2>1. gen'[g] = IF gen[g].stream = "none" THEN gen[g] ELSE [gen[g] EXCEPT !.stream = "lost"]
    BY DEF ContextFailed
  <2>2. gen'[g].stream \in {"none", "lost"}
    BY <1>1, <2>1 DEF Gen
  <2>3. QED
    BY <2>2 DEF Under
<1>3. CASE gen[g].stream \in Under
  BY <1>2, <1>3, ConnChanges DEF StreamsHaveALoop
<1>4. CASE gen[g].stream \notin Under
  <2>1. ~(gen' = gen) /\ ~(gen' = StopDtmf(gen))
    BY <1>4, StopsAlive
  <2>2. ASSUME NEW c \in Gens, ToneStep(c) PROVE Ready'
    <3>1. Ready /\ conn' = conn
      BY <2>2 DEF ToneStep, PlayAudioDefer, WriteCallback, DrainComplete, linkVars
    <3>2. QED
      BY <3>1 DEF Ready
  <2>3. ASSUME NEW t \in Tones, NEW long \in BOOLEAN, PlayTone(t, long) PROVE Ready'
    <3>1. PICK ok \in BOOLEAN, c \in Gens :
            /\ CheckConnection(ok, {})
            /\ gen' = [StopDtmf(gen) EXCEPT ![c] = NewGen(long, ok)]
      BY <2>3 DEF PlayTone
    <3>2. StopDtmf(gen) \in [Gens -> Gen]
      BY Stops
    <3>3. gen'[g] = NewGen(long, ok) \/ gen'[g] = StopDtmf(gen)[g]
      BY <3>1, <3>2
    <3>4. gen'[g] = NewGen(long, ok)
      BY <1>4, <3>3, StopsAlive
    <3>5. ok
      BY <3>4 DEF NewGen, Under
    <3>6. QED
      BY <3>1, <3>5 DEF CheckConnection, Ready
  <2>4. QED
    BY <1>2, <2>1, <2>2, <2>3, GensChange
<1>5. QED
  BY <1>3, <1>4

\* A generator whose mCurrentDtmf reference is given back is not left waiting: its
\* stream runs in a live loop and has no more data to give, so that the next callback
\* ends it.  GeneratorsEnd rests on it.
THEOREM WhatIsLetGoCanEnd == Spec => []LetGoCanEnd
<1>1. Init => AllAlive /\ StreamsHaveALoop
  BY DEF Init, AllAlive, Alive, StreamsHaveALoop, Under
<1>2. LinkInv /\ AllAlive /\ StreamsHaveALoop /\ [Next]_vars => AllAlive' /\ StreamsHaveALoop'
  BY AliveStep, LoopStepKept
<1>3. LinkInv /\ AllAlive /\ StreamsHaveALoop => LetGoCanEnd
  <2> SUFFICES ASSUME LinkInv, AllAlive, StreamsHaveALoop, NEW g \in Gens,
                      gen[g].refs > 0, current.gen # g, gen[g].stream # "lost"
               PROVE  /\ Ready
                      /\ gen[g].stream \in Under
                      /\ gen[g].stream = "playing" => NoMoreData(g)
    BY DEF LetGoCanEnd
  <2>1. gen[g] \in Gen /\ gen[g].refs = One(gen[g].stream # "none") /\ ~gen[g].long
    BY DEF LinkInv, TypeOK, Gen, HeldIsReferenced, TonesCanBeStopped, One
  <2>2. gen[g].stream \in Under
    BY <2>1 DEF One, Gen, Under
  <2>3. gen[g].stream = "playing" => gen[g].status \in {"normal", "stopping"}
    BY DEF AllAlive, Alive
  <2>4. QED
    BY <2>1, <2>2, <2>3 DEF StreamsHaveALoop, NoMoreData
<1>4. QED
  BY <1>1, <1>2, <1>3, LinkAlways, PTL DEF Spec
=============================================================================
