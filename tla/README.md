# Verification of audiod-pro in TLA+

audiod decides what is heard, where and how loud, on a webOS device. It is one
process with one main loop (GLib): every message of the bus, every message of
PulseAudio and every timer is a callback that runs to its end. Nothing runs in
parallel inside audiod, but for one thread that serves PulseAudio's API
(`PulseLink`). What is hard is the *order* of callbacks: streams,
devices, calls, settings, timers and PulseAudio itself come and go
independently, and each handler assumes something about the ones before it.

One step of a model is therefore one callback, or one call of a method that
callbacks are sequences of; PulseAudio, the phone application and the user are
actors of their own.

## Inventory

| Component (source) | State | Operations | Talks to | Correct if | Module |
|---|---|---|---|---|---|
| Scenario engine (`genericScenarioModule.cpp`, `scenario.cpp`) | table and current scenario of each module, module in focus | enable, disable, set, unset, by priority, make current | PulseAudio mixer; called by State, udev, bus | the current scenario is enabled and the best; PulseAudio is programmed for the focus | `Scenarios` |
| PulseAudio mixer, output (`PulseAudioMixer.cpp`) | socket, retry timer, stream counts, table of volumes sent | connect, retry, hang up, count, program | PulseAudio daemon (socket), modules (callbacks) | counts are those of PulseAudio; a skipped command was redundant; it reconnects | `PulseMixer` |
| PulseAudio mixer, input, and `State::updateIsRecording` | count of input streams, three needs of the microphone, deadline | streams, media server, forced microphone, timer | device | records when needed, and stops a second after | `Recording`, `Microphone` |
| Alarm, timer, alert modules (`modules/alarm.cpp`, `timer.cpp`, `alert.cpp`) | mute, override, vibration timer | sink callbacks, mute, switches, 300 ms timers | mixer, vibrator | heard as the settings say; vibration ends; no mute is left over | `AlarmPolicy` |
| Media module under alerts (`modules/media.cpp`) | priority, three timer ids | sink callbacks, 400 ms timers | mixer | muted during an alarm and restored after | `AlarmPolicy` |
| Calls (`state.cpp`, `module.cpp`, `modules/phone.cpp`) | call count, phone status, saved pause | callStatusUpdate | scenario engine, media server, vvm | phone has the focus during calls; nothing is left behind | `CallFocus` |
| Visual voice mail (`modules/vvm.cpp`) | active flag | control request, stop by media or call | scenario engine | ends, and yields to calls | `CallFocus` |
| Volume of a module and its store (`volume.cpp`, `module.cpp`, `prefs.cpp`) | volume, store timer, file | set, offset, delayed store, restore | preferences library, scenarios | one step is one tic; a volume set is stored in the end | `VolumeStore` |
| Lock of the volume keys, overrides (`module.cpp`, `state.cpp`) | locked module, override counts | subscribe, cancel | scenarios | a lock is released by its owner only | `VolumeKeys`, `VolumeLock` |
| Ringtone (`modules/ringtone.cpp`), vibrator (`controls/vibrate.cpp`) | mute, vibration, fake buzz | sink callbacks, mute, ringer switch, buzz timer | mixer, vibration service | heard as the settings say; mute and vibration end with the ring | `Ringing` |
| Preferences of `State` (`prefs.cpp`, `state.cpp`, `settingsservice.cpp`) | values, file, shared switches | profile, ringer, "do not disturb", setPreference, restore | file, shared properties, subscribers | "do not disturb" gives the profile back; what is shared is what is preferred | `SoundProfile` |
| PulseAudio API (`PulseAudioLink.cpp`, `systemsounds.cpp`), DTMF (`dtmf.cpp`, `tonegenerator.cpp`) | connection, loaded sounds, generators, where a tone sounds | play, preload, tones; callbacks of a second thread | PulseAudio API, modem | shared memory is freed once; a sound is loaded when played; a tone stops | `PulseLink` |
| UMI mixer, sound settings (`controls/umiaudiomixer.cpp`, `umi/`) | readiness, messages held, subscribers | volume, mute, connect, disconnect, status | audio output service, bus | one answer for a request; subscribers know the status | `UmiMixer` |
| Shared properties (`include/IPC_*`, `ipc/`) | value, registrations, sockets | get, set, notify, attach | other processes | a listener hears the present value, over restarts | `SharedProperties` |
| Headset, USB cards, hearing aid, RTP (`services/udev.cpp`, `state.cpp`, `PulseAudioMixer.cpp`, `etc/udev`) | headset state, RTP loaded | udev events, hacSet, RTP load and replies | scripts, PulseAudio, scenarios | audiod knows what is plugged in, and PulseAudio has it | `Devices` |
| A2DP, Bluetooth (`modules/media.cpp`, `state.cpp`) | - | - | - | its delayed update is under `HAVE_BT_SERVICE_V1`, which nothing defines | no |
| Notification, system, navigation modules | one volume each | sink callbacks | mixer | as volume settings | no |
| Voice command (`modules/voicecommand.cpp`) | - | - | - | dead: `mVoiceCommandEnabled` is false and nothing sets it | no |
| System manager (`services/systemmanager.cpp`), bus interface (`module.cpp`, `update.cpp`) | subscriptions | parse, call, reply | bus | - | no |
| Start-up and utilities | - | - | - | - | no |

Callbacks go up (mixer → `AudiodCallbacks` → each module's `onSinkChanged`),
commands go down (module → `ScenarioModule::programVolume` → mixer), and
`State` sits beside both: it turns facts about the device, calls and settings
into calls of the scenario engine. `AudiodCallbacks::onAudioMixerConnected`
closes the loop after a PulseAudio restart.

The hazards, each at its line, are in `PROJECT.json`. In short: sequences of
legal calls (scenario tables, call counts), caches that outlive what they
describe (the table of volumes, timer ids, the focus a module thinks it has),
restarts of PulseAudio and of audiod, sends that fail half-way through, and
timers that are never removed or lose their id.

## The modules

### Scenarios

`enabled`, `current[m]` and `active` are `mEnabled`, `mCurrentScenario` and
`sCurrentModule`. Each operation of `GenericScenarioModule` is one action
(`EnableScenario`, `DisableScenario`, `SetCurrentScenario`,
`UnsetCurrentScenario`, `SetCurrentScenarioByPriority`), `MakeCurrent` and
`RefreshRoute` are those of `ScenarioModule` and media. `SelectedByPriority`
states what the loop over the `std::map` ends with: the first in name order
among the scenarios of the highest priority, if that is higher than the present
one. `ProgramHardwareState` and `ProgramSoftwareMixer` are what a module in
focus sends to PulseAudio; `route` and `mixed` remember for which scenario.
PulseAudio's connection comes and goes (`AudioMixerConnected`,
`PulseGoneAway`), routing may fail (`RouteMayFail`). The mixer reads every
module's scenario without a test, so one without any ends the process, which
upstart starts again (`Respawn`). `chosen` and `unrouted` are history: which
modules are on a scenario imposed by name, and whether the last routing failed
or none was due. `inHfpAgRole` is constantly false in this commit
(`setHfpAgRole` has no caller) and is left out.

### PulseMixer

audiod's end of the socket (`channel`, `timers`, `timeout`, `count`, `total`,
`playing`, `device`, `table`), PulseAudio's end (`up`, `peer`, `opened`,
`told`, `wire`), and the modules reduced to the volume they want for each sink
and whether they have heard its first stream (`wanted`, `heard`). `ReadMessage`
is `_pulseStatus` for one message, `HangUp` its second half, `Connect` and
`RetryLater` the two outcomes of `_timer`. Commands are obeyed at once; the
messages of PulseAudio wait in `wire`, so audiod's picture lags behind. A
message that is readable together with the hang-up is handled before it.
`Losses` gives the commands that may get lost: all when the other end is
closed, none while it is open unless `SendMayFail`.

### AlarmPolicy

Streams open and close on `ealarm`, `etimer`, `ealerts` and `emedia`; each
action is what the modules of the sink, then media, do in their
`onSinkChanged`. Both act on the end of an alarm in two calls, the second from
a timer: `vibId` and `held` are the ids in the variables of the source,
`vibLost` and `heldLost` the pending timers whose id has been overwritten,
which still fire. Timers of one kind fire in the order they were armed; those
of 300 and 400 ms are not ordered among each other. Volumes are `Silent`,
`Ducked` and `Full`.

It is assumed that media has the focus, no call is active and the output is
wired. Calls and the dock enter only as `possible` (vibration may be
impossible), recording only as a free choice where media asks for it. The alert
module's own volume is left out. `dnd` changes with the ringer or alone;
`late` is history: it changed alone while a timer sounded.

### CallFocus

`line` is the phone application's own picture; each of its changes is told to
audiod (`CallStatusUpdate`), one line per message. `Incoming`, `Dialing`,
`Active`, `Disconnected` are the branches of `setCallMode(eCallMode_Voip)`,
with `setIncomingCallActive`, `setOnActiveCall`, `setPhoneStatus` and the
observer of `mPhoneStatus` inside the same step, as they are in the call.
`StartVvm` and `EndVvm` are the voice mail. The build is that with
`AUDIOD_PALM_LEGACY`, where these methods exist. Calls are VoIP: for a
carrier's calls the same method only keeps the call mode. `onHold` and
`connecting` change nothing. `Active` may come again, after a hold; no other
status is sent twice: the count would drift.
`CallFocus` has no run of its own: `Ringing` runs all of its actions.

### Ringing

`CallFocus` with the ringtone's stream, its mute and volume, the ringer, and the
vibrator with its fake buzz. `EXTENDS CallFocus`: each action of the calls is
conjoined with what the same step does to the ringtone (`RingerStep` programs it
again), and each action of the ringtone leaves the calls alone but for the
death of audiod. The buzz replaces an inaudible ringtone when a headset is in;
its timer hands an integer where `_fakeBuzz` expects an address
(`vibrate.cpp:96`), so that audiod ends when it fires. Calls belong to others:
`Respawn` starts audiod with no memory of them and leaves every line in any
state, since calls begin, go on and end meanwhile. `buzzes` counts the timers
under way, which nothing removes. The volume set for ringtones is taken not to
be 0; whether it is below the threshold of the buzz is chosen freely (`soft`).

`programVolume` programs 0 for a sink that the current scenario does not route
(`scenario.cpp:281`). `Routed` says when ringtones are routed: media
(`media.cpp:977`) and the voice mail (`vvm.cpp:273`) configure them for the
ringer on, phone (`phone.cpp:202`) never. So `heard`, whether the ringtone was
last programmed at its volume or at 0, depends on the focus too.

`outlived` is history: a call was under way when audiod started, and the calls
have not all ended since. audiod does not count such a call, and the end of it
may be taken for that of the last one, so that another call loses the focus.
`TalkerHasFocus` excepts that time and is in force again after the last call.
`QuietAfterCalls` has no exception.

### Recording and Microphone

`open` is what PulseAudio has announced; `inputCount`, `recordOpened`,
`inputActive`, `mediaRecording`, `forced` are audiod's. `UpdateIsRecording` is
the function of the same name, part of every action that changes a need.
Time is in ticks, `Hold` of them to the second; `keepTimers[i]` counts the timers
that expire in `i` ticks, since none is ever removed. The loop may be late
(an expired timer stays in `keepTimers[0]`), never early. `idle` is history: ticks
since the microphone was last needed.

`Microphone` is what `updateIsRecording` promises, without streams, deadlines or
timers: what is needed is on at once, and is turned off only after `Hold` ticks
without need. `Recording` implements it, with `needed` read as `isRecording()`
and `on` as what the device was told; a timer that changes nothing, a stream
that is not the first or last, and a call, stutter.

### VolumeStore

One module of audiod and the file of its volume. `volume`, `current` and
`timer` are `mVolume`, `mCurrentScenario # 0` and `mStoreTimerID`; the last has
three values, because an identifier may outlive its timer. `stored` and `disk`
are the file. `SetScenarioVolume` is `setScenarioVolumeOrMicGain`, which both
handlers of `module.cpp` end in; `SCVolumeUp` and `SCVolumeDown` state what the
loops of `volume.cpp` end with; the branches of `StoreTimer` are the exits of
`storePreferences`: no handle, a scenario that was disabled meanwhile (the null
pointer ends the process), a write that fails, a write that works. `Crash` may
come at any time, and `Respawn` is the constructor with `restorePreferences`.
`failed` is history: a call of the preferences library failed and nothing has
been stored since. Every module of this commit creates one scenario. With
several, `storePreferences` would write the volume of the current one for each
(`prefs.cpp:218`), which the model does not show. Requests that fail and change
nothing are left out, and so is the programming of the mixer.

### VolumeKeys and VolumeLock

`lockedVolumeModule`, `volumeOverride` and `currentModule` are the variables of
the source; `call[r]` is a request with what its message says. `LockKeys` and
`LockForeground` are the two halves of `_lockVolumeKeys`, `CancelSubscription`
is `State`'s handler for the end of a subscription, which gets the first message
back. The handler reads `foregroundApp` from a local that it does not
initialise: when the message has no such member both outcomes are possible.
`VolumeLock` is what the method promises, an owner who takes the keys when they
are free and gives them back. `Owner` maps the first to the second; `Stuck` is
the owner when a subscription has ended without giving back.

### SoundProfile

`pref`, `property` and `stored` are a preference in memory, as the shared
property of its name, and in the file. A handler is the sequence of its stores,
`todo`: each one writes the file, and audiod may end between any two. `Start` is
the constructor with `restorePreferences`. `told` is what subscribers of the
profile were sent last. History: `apart` (switches that `setPreference` has set
alone), `quiet` (the last change was one nobody is told of), `dnd` (the profile
when "do not disturb" was switched on), `failed`.

### UmiMixer

audiod keeps no volume of its own here: a client's message is forwarded to
`com.webos.service.audiooutput` and held, with a reference, until the reply.
Each client request is one action, each callback another; the service and the hub
are external (`Answer`, `ServiceDies`, `ServiceStarts`), and a reply may be
`garbled` (without `returnValue`). After each connect and disconnect audiod asks
for the status, for the subscribers (`notifies`). `stale` is history: such a
status was lost, by a death, a failed call or a garbled reply.

### SharedProperties

One property, its clients, and the two directions of their sockets. The value
lies in shared memory: notes and registrations carry none. Sends do not block,
and a full socket loses a note, or half of one (`Send`). Either side may die
(`ServerDies`, `ClientDies`); a client connects again by its timer and registers
if it has a listener. `command` stands for the two flags of a property that is
used as a command. `heard` and `missed` are history.

### PulseLink

The main thread asks for uploads, plays and tones by deferred events; the
thread of `PulseAudioLink` runs them and the callbacks of streams. `refs` are the counts of
`RefObj`, `stage` and `stream` where the other thread is. `preload` waits up to
five seconds: `WaitEnds` may come before the upload is over. `ContextFailed` is
the end of a connection as the loop sees it, after which the main thread makes a
new one when it needs it (`CheckConnection`). The tones are those of `dtmf.cpp`:
`dtmf` is `gDTMFstate`, its two bits, `modem` what the modem does, `current` the
generator the main thread holds. `excused` is history: samples whose upload
failed or came late.

### Devices

`Scenarios` with what is plugged in. `EXTENDS Scenarios`: `HacSet` disables and
enables the phone's only scenario by the engine's own actions, `Connects`,
`HangUp` and `Restart` are its connection and its process, with what they do to
devices. The scripts' calls about a device arrive in order, late or never
(`jackCalls`, `cardCalls`); commands to PulseAudio are sent once, or missed
(`missed`, `stray` are history). `pulse` is what PulseAudio has: it outlives
audiod and loses all in a restart of its own. `replies` are the answers to RTP
loads. Scenarios for headsets are registered by no module of this commit, so
that a headset changes no scenario.

## What the runs check

| Run | States | What it shows |
|---|---|---|
| `Scenarios` | 20 410 | the enabled scenario of the highest priority is current unless one was chosen; routing and volumes in PulseAudio are those of the focus; only a higher priority takes over |
| `PulseMixer` | 136 746 | stream counts converge; a sink that plays is at the volume wanted; audiod reconnects for good |
| `AlarmPolicy` | 567 368 | alarms and timers are heard as the settings say; vibration is stopped; media comes back |
| `Ringing` | 224 448 | an answered call has the focus, but for calls older than audiod; nothing stays paused or muted after the calls, these included; the ringtone is heard exactly as ringer, mute and focus say, and is muted and vibrates for its own time |
| `Recording` | 22 056 | `Microphone` is implemented: on from the moment of need until a second after the last; then off for good; the last close is seen |
| `VolumeStore` | 82 824 | a change is stored or pending, and stored in the end; steps are tics at every percentage |
| `VolumeKeys` | 30 164 | the holder has the keys; overrides are counted; `VolumeLock` is implemented |
| `SoundProfile` | 289 242 | shared switches are the preferences; "do not disturb" gives back the profile; subscribers know it |
| `UmiMixer` | 730 072 | a held message has one call in flight at most; subscribers are told; `/master` always answers |
| `SharedProperties` | 155 950 | a listener has heard the value or will; clients find audiod again |
| `PulseLink` | 368 994 | references match their holders; loaded samples are in PulseAudio; tones can be stopped; generators end |
| `Devices` | 879 696 | the headset is known and routed; cards are loaded as plugged; RTP is known |

All pass. Each module but the abstract `VolumeLock` and `Microphone`, whose types
are those of the refinement, states its type invariant, which the proofs establish; the runs are spent on
what relates two parts of the system.

**Bounds.** `Scenarios`: three modules; media with two headsets of equal
priority (ties), phone with three removable scenarios of different priorities
(it can lose them all), vvm with a hard-wired one. A module's table matters only
by priority, ties and emptiness. `PulseMixer`: one sink that is muted without
streams and one that never is, two streams each (first, middle and last), three
messages in flight (open, close and a total overlap), three volumes, delays from
1 to 3 (they double once and wrap). `AlarmPolicy`: two pending timers of each
kind, which is what overwriting an id takes; only the override of timers changes.
`Ringing`: three lines, so that two calls end while a third goes on, and that
one call outlives audiod while another is counted and a third not; two timers
of the buzz. `Recording`: two counted sources and the uncounted one, two
streams each, `Hold` of 2 ticks and four timers, so that timers of several
abandoned seconds are pending together. `VolumeStore`: the whole scale from 0 to
100 in memory and in the file; requests of one percent reach every volume, those
of 20 steps and 100 percent both ends. `VolumeKeys`: three requests, for a
holder, one that is refused and an application, of two modules, of which media
alone gives its overrides back. `SoundProfile`: `setPreference` on `RingerOn`,
which is a property too, and on `DndOn`, which is not; one failure of the
preferences library at a time. `UmiMixer`: two messages, one connection, two
status calls in flight, so that a status and a change pass each other.
`SharedProperties`: two clients and values, two notes in a client's socket, one
set under way besides registrations. `PulseLink`: one sample, two tones, two
generators (one sounds while another drains), one upload, since `preload` waits.
`Devices`: two modules with one scenario each, one card, two calls and two
answers under way, which is what it takes to pass each other. No symmetry is
used.

**Fairness.** Only what main loops, the hub and upstart give: an expired timer
and a readable descriptor are dispatched in the end (`ReadMessage`, `HangUp`,
`Connect` in `PulseMixer`; the two kinds of timers in `AlarmPolicy`;
`TimerExpires` and the clock in `Recording`; `StoreTimer` in `VolumeStore`; the
steps of either side in `SharedProperties`; the loop of the second thread in
`PulseLink`; `Deliver` in `UmiMixer`), a call of the bus is answered by its
service or by the hub (`AnswerRequest`, `AnswerNotify`), and upstart starts
audiod again (`Respawn` in `VolumeStore`). The store timer has idle priority, so
that it needs a main loop that is idle now and then. Nothing is assumed of the
user, the streams, or PulseAudio: `ReconnectsForGood` begins with `<>[]up`,
`MicrophoneReleased` with `<>[]~IsRecording`, `BackInTouch` with an audiod and a
client that stay up. The other modules have safety properties only and no
fairness.

**Deadlock** is checked in every run.

## What the code does that its text does not say

Met while modelling, and kept in the models as the code has it. Properties are
stated so that they hold with these; each names its exception.

- The last scenario of a module other than media can be disabled, against the
  `VERIFY` at `genericScenarioModule.cpp:65`; the mixer then dereferences a null
  pointer. `hacSet` takes away the phone's only scenario (`state.cpp`): audiod
  dies when media next programs the mixer, and HAC is forgotten.
- A volume whose send failed is recorded as sent and not repeated
  (`PulseAudioMixer.cpp:286`; `AudioMixer.h:115` says low latency sinks' "volume
  should always be set properly").
- A timer that was muted and ends under an alarm stays muted the next time:
  `timer.cpp:246` tests the sink of `alarm.cpp`, from which it was copied.
- Media is programmed before the alarm that should duck it (`scenario.cpp:218`;
  `media.cpp:151` says "when an alert is playing, duck media volumes").
- "Do not disturb" switched while the ringer already stands where it puts it
  does not program the timer that sounds (`timer.cpp:94`, `state.cpp:1413`).
- Voice mail that a call pushed aside cannot be stopped (`vvm.cpp:148`).
- After a PulseAudio restart under the voice activator alone the input stays
  active for ever (`PulseAudioMixer.cpp:991`; `state.h:115`).
- With a headset, a silent ringtone ends audiod after a second, cancelled or not
  (`vibrate.cpp:96`); the media server stays paused and the device vibrates on.
- A call that is older than audiod is not counted. If it ends during another
  call, the focus goes to media while that one goes on (`state.cpp:710`; the
  comment at 712 suspects "bad phone app messages" where the count goes below 0,
  which such a call does too).
- The ringtone of a call that comes in during another is programmed at 0:
  `ringtone.cpp:304` chooses a volume for that case, but phone routes no
  ringtones. So is one over speech with the ringer off, for which
  `ringtone.cpp:323` chooses the volume of media: no module routes ringtones
  with the ringer off.
- The end of a subscription without `foregroundApp` releases the keys or not
  (`state.cpp:1291`); phone and ringtone keep overrides for ever
  (`module.cpp:987`).
- If audiod ends right after `DndOn` is stored, it has no profile of its own
  to give back (`state.cpp:1406`). `setPreference` of `RingerOn` leaves the
  shared property as it was; `_setRingerSwitch` tells no subscriber; a refused
  `_setSoundProfile` has already switched the ringer; a restore that fails lets
  the defaults overwrite the file.
- A garbled reply leaves a client of connect, disconnect or soundOut without an answer and its
  message unreleased; a status call that fails never releases its message.
- A note of change is lost with a full socket, and a lone header leaves the
  client dead, since it shuts its socket down without closing it
  (`IPC_Socket.hpp:198`).
- The first sound after a PulseAudio restart is not heard; a long tone with the
  digit of an earlier one-shot tone is not played; a preload may hold the main
  loop for five seconds.
- udev's rules call state 1 a headset with microphone and 2 one without,
  `readInitialUdevHeadsetState` the other way round (`86-audiod.rules:1`,
  `udev.cpp:131`). A headset plugged in at start is never routed, nor routed
  again after a PulseAudio restart; USB cards are not loaded again either.
- A late failure of an earlier RTP load clears `mRTPLoaded` while RTP is loaded
  (`state.cpp:1996`); a load that fails leaves media's destination on RTP.

## What is proved

The theorems hold for every value of the constants, under the assumption of
each module. The assumptions are few: in `Scenarios`, media is a module with a
hard-wired scenario, and these start enabled; `PulseMixer`'s sinks, the lines of
`CallFocus` and the requests of `UmiMixer` are finite, since they are counted;
`PulseLink` has a sample; bounds are numbers; names that stand for nothing
(`Nobody`, `None`) are not names of something. Where a property is not inductive the
invariant is named, and what it adds.

`Devices_proofs` is about `Scenarios` and `Devices`, for all sets of modules and
scenarios, every priority and every name order.

- `IInv` = `TypeOK`, the choice of every module is one of its enabled
  scenarios or none when there are none (`ChoiceOK`), it is of the highest
  priority unless imposed (`HighestOK`), and the hard-wired scenarios are
  enabled. `HighestUnlessChosen` is not inductive alone: the selection starts
  from the current scenario, so it must be known to be enabled.
  `SelectedIsHighest` is the lemma about the loop; `ReprioritiseKeepsChoices`
  carries it to the two actions that use it. From `IInv` follow
  `CurrentStaysEnabled`, `NoneMeansAllDisabled`, `HighestIsCurrent`,
  `MediaIsNeverWithout`, and, step by step, `NoThefts`.
- `FollowInv` = `TypeOK`, `RouteFollowsFocus`, `MixFollowsFocus`. A module that
  is not in focus programs nothing (`FollowsUntouched`), one that is programs
  what it has just chosen (`UpdateFollows`). Hence `RouteIsOfTheFocus` and
  `MixIsOfTheFocus`.
- `StepOfScenarios`: every step of `Devices` is one of the engine's or leaves it
  alone, hence `DevicesRunScenarios`, and every theorem above holds of the
  composition. `JackInv` and `CardInv` say that the last call under way tells
  the truth, which is what is left when it arrives; `RouteInv` forgets the
  connection, since the route stays in PulseAudio when audiod loses it; `RtpInv`
  allows for what is taken for loaded while a failure is under way.

`Ringing_proofs` is about `CallFocus` and `Ringing`, for every finite set of lines.

- Two invariants, since audiod does not count every call. `KnownInv` holds
  always: `TypeOK`, `FocusFollowsCall`, no more calls counted than there are
  (`CountWithinCalls`), and while phone status is "disconnected", as it is when
  all lines are idle, no call is active and a current media module is neither
  muted nor paused. The end of the last call finds a count of 1 or 0 and resets
  all this, which is why uncounted calls leave nothing behind.
- `CallInv` adds what holds while all calls are counted: `CallsAreCounted`, an
  answered line means an active call, and phone status follows the count. The
  count makes the last `Disconnected` the only one that releases the phone; the
  lemmas `OneMore`, `OneLess` and `AsMany` say how the number of busy lines
  follows one line. Hence, for `CallFocus`, `CallTypes`, `CountIsRight`,
  `TalkerIsHeard` (`AnsweredCallHasFocus`, without exception), `PhoneIffCall`,
  `NothingLeftBehind` and `OnlyTheLastReleases`.
- Every step of `RingNext` is a step of `CallFocus`, a stutter of it, or a
  restart, after which `KnownInv` holds whatever the lines do, and `CallInv` if
  they are idle (`RespawnCalls`). `CallInv` comes back with the end of the last
  call (`KnownWhenIdle`, `OutlivedUntilIdle`). So `KnownInv` and
  `~outlived => CallInv` are invariant in the whole: hence
  `TalkerIsHeardWhileRinging` and, from `KnownInv` alone,
  `NothingLeftByTheRing`.
- `RingInv` is the types and the three properties of the ringtone, inductive
  together: the volume of a ringtone that opens is right because a mute lasts
  only while one plays, and it stays right because whoever changes mute, ringer
  or focus programs it again. `RoutedIs` ties the route to the focus.

`Volumes_proofs` is about `VolumeStore` and `VolumeKeys`.

- `StoreSafe` adds to `StoredOrPending` that an identifier without a timer means
  a failure (`TimerIsTrusted`): without it a change that finds an identifier
  set might arm nothing. A store that works makes `Restored` the volume; a
  respawn either reads `Restored` or fails. Hence `ChangesArePending`.
- A request of n steps is a recursive function (`Moved`). That it exists
  (`MovesExist`, `MovedIs`) and that k moves are k tics (`UpMovesTics`,
  `DownMovesTics`) is proved by induction over a set of numbers
  (`NumbersByOne`, from the library's minimality principle `WFMin`, which takes
  no operator); that one move is one tic (`UpIsOneTic`, `DownIsOneTic`) by giving
  what the loops of `volume.cpp` end with as a formula of the percentage. Hence
  `StepsAlwaysMoveTics`, and with `ClampedType` the type invariant `StoreTypes`.
- `KeysInv` adds to the types that whoever holds the keys has locked them to
  its module (`OneHolder`); it is what makes `Owner` well defined in the
  refinement. Each step is then a `Take`, a `GiveBack`, a `Leave` or a stutter
  (`StepRefines`): `KeysImplementLock`. `AppsInv`, about counters and finite
  sets of applications, gives `OverridesAreCounted`.

`PulseMixer_proofs` is about `PulseMixer` and `Recording`, the two directions of
the mixer.

- `CountsConverge` says that for each sink there are counts, one after each
  message under way, that begin with audiod's and end with PulseAudio's. To be
  inductive it must also speak of the messages a dead PulseAudio has left, of
  which `HangUp` reads one: those lead through legal counts too (`CountsLead`).
  The lemmas on `Leads` put a message at either end of such a sequence.
  `SinksAgree` says that the sinks that play, those with a count and those whose
  module has heard of it are the same; with it, the table has what every module
  wants (`TableIsWanted`), whether or not sends fail. What PulseAudio was told is
  the table only if no send fails: `HeardAlwaysWanted` is for `~SendMayFail`, and
  the hazard at `PulseAudioMixer.cpp:286` is the other case.
- `RetryPending` says that a retry is pending whenever there is no channel, one
  exactly if the API answers: `ARetryIsPending`. `DeviceIsTold`: the total audiod
  keeps is the number of streams its counts give, one by one (`TotalCounts`), so
  that the device is active exactly while a sink plays; the lemmas on
  `StreamsOf` say what a change of one sink's count does to their number.
- `RecordingInv` says why the microphone is on: it is needed, or there is a
  deadline, and then a timer is pending that will notice it (`DeadlineHolds`);
  and that `inputCount` is the number of streams that are open, one by one
  (`StreamsCounted`). Hence `MicrophoneOnAsNeeded`, `MicrophoneKeptForASecond`
  (a timer of an earlier deadline finds a later one and waits for it) and
  `TheLastCloseIsSeen`.
- Each step of `Recording` is a `NeedBegins`, `NeedEnds`, `Elapse` or `TurnOff` of
  `Microphone`, or a stutter (`StepOfMicrophone`): the microphone is turned on
  only by need (`NextOn`), off only at the end of the second (`NextOff`), and
  only time makes `idle` longer (`HistoryOfNext`), which is 0 while there is need
  (`IdleWhileNeeded`). Hence `RecordingImplementsMicrophone`.

`AlarmPolicy_proofs`: the properties are inductive once the types are
(`PolicyInv`), and the types need that lost timers stay within their bound,
since a timer that fires arms at most one (`PolicyTypes`). The volume an alarm
should have depends on no other alarm; every way out of a timer's handler stops
the vibration, waits again, or finds an alarm that plays. `SomebodyWillTurnUp`:
when the last alarm ends media is turned up, or a timer is armed that will do it,
and no step takes the last such timer away without one or the other
(`TurnUpStep`): `MediaWillBeTurnedUp`.

`SoundProfile_proofs`: a handler is a sequence of stores, and nothing holds in
the middle of it, so `SoundInv` speaks of what a preference or property *will
be* when the handler is over (`WillBe`): all the tasks left that set it agree,
and it is so already or one of them sets it. A step keeps that whatever the
handler is (`StepKeeps`), an end of audiod reads back what the file has
(`StoreIsCurrent`), and with nothing left to do it is the property. Hence
`PropertyStaysPreference`, `DndGivesBackAlways`, `SubscribersAlwaysKnow`.

`PulseLink_proofs`: `LinkInv` adds that a tone has its generator
(`CurrentHasGenerator`), that a new connection finds nothing to play
(`PlaysAreReady`), and that an upload the main thread waits for and that has
ended is in the cache or excused (`WaitedIsCached`). Hence
`HeldIsAlwaysReferenced`, `LoadedIsAlwaysCached` and `TonesCanAlwaysBeStopped`.
`WhatIsLetGoCanEnd` says of a generator that was let go of that its stream is in a
loop that runs and has nothing more to play: it rests on `StreamsHaveALoop`, since
streams and loop are lost together.

`Clients_proofs` is about `SharedProperties` and `UmiMixer`, what audiod owes its
clients.

- `SharedInv` is about one client at a time: a listener that is connected is
  registered, or its registration is in its queue (`RegisteredOrWill`), and it
  has heard the value, or a note or its registration will bring it
  (`HeardOrWill`). The registration matters because its answer is a note. Hence
  `ListenersAreRegistered` and `HeardOrAlwaysUnderWay`.
- `UmiInv`: a call or a reply belongs to a client that waits, and there is one
  of them at most (`Owed`); as long as nothing is lost, a change is followed by
  its reply or a status call, or every subscriber is about to know (`WillTell`,
  which looks at the last status among the replies that is for that subscriber:
  an older one must not come after it). `Room` counts the changes under way,
  each of which may become a status call; it bounds `notifies`. Hence
  `OneAnswerAtMost` and `SubscribersAlwaysTold`. From `Owed` also
  `MasterIsNeverDropped`: whose request of `/master` is under way waits, so that
  its message cannot arrive anew, and only its own reply ends it.

**Only model-checked.** The seven liveness properties, since the prover does not
handle fairness. Of each a safety part is proved, that what the wait depends on (a
timer, a call, a registration) is not lost, with the exceptions the theorem names;
that it then happens, and the rest of the wait, are left to TLC.

| Liveness, checked by TLC | What is proved of it |
|---|---|
| `ReconnectsForGood` | `ARetryIsPending` |
| `MediaComesBack` | `MediaWillBeTurnedUp` |
| `MicrophoneReleased` | `MicrophoneOnAsNeeded` |
| `ChangesAreStored` | `ChangesArePending` |
| `MasterRequestsAnswered` | `MasterIsNeverDropped` |
| `BackInTouch` | `ListenersAreRegistered` |
| `GeneratorsEnd` | `WhatIsLetGoCanEnd` |

## Not modelled

See the inventory and the components of `PROJECT.json` for each part and its
reason. Not compiled or not called in this commit, hence without behaviour: A2DP's
delayed update, `setHfpAgRole`, `setCallWithVideo`, `setTTYMode`,
`setSliderState`, `setOnThePuck`, `muteIfRinging`, `_volumeUp` and `_volumeDown`
of `module.cpp`, voice command. The build is that with `AUDIOD_PALM_LEGACY` and
without `AUDIOD_TEST_API`.

Within the modelled parts: formatting and parsing of messages and subscription
updates, Bluetooth, microphone gains, carrier calls, integer and string
preferences, and failures of the audio device class, whose default methods only
store their arguments. In `UmiMixer` the cached volume and mute, the list of
active streams, `inputVolumeMute` and `onSinkChangedReply`. In
`SharedProperties` properties with local copies, the limit of 64 connections,
full sockets towards audiod, a failing attach and SIGPIPE. In `PulseLink` a
feedback sink refused in a call, files that cannot be opened, threads that
cannot be started, a main loop freed under the old thread, `busyTone`,
`playAlert` and identifiers of several characters.

Three behaviours are excluded by a named assumption: a send that fails while
the connection stays up (`SendMayFail` is FALSE in the run, since the command
is then never repeated), a PulseAudio whose socket accepts while its API is down
(`ApiMayFail`; audiod then opens a second socket, which the model has no place
for), and the count of already open streams of the voice activator (message
`I`; the loop would not end).

## Plan

Done: the thirteen modules above, with `VolumeLock` and `Microphone` beside them:
two compositions, two refinements, and proofs about every module. All invariants of
the runs, all their action properties and both refinements are theorems.

Next:
1. An abstract specification of a shared property, a register whose listeners
   hear the last value, implemented by `SharedProperties`.
2. To widen the model, where it adds a behaviour: the filters and single routes
   of the mixer; the carrier's calls.
