----------------------------- MODULE Scenarios -----------------------------
(***************************************************************************)
(* The scenario engine of audiod: genericScenarioModule.cpp, scenario.cpp. *)
(*                                                                         *)
(* A module (media, phone, vvm) owns a table of scenarios.  A scenario     *)
(* names the device the module is heard on (back speaker, headset,         *)
(* Bluetooth SCO) and can be enabled and disabled as devices come and go.  *)
(* Each module has at most one current scenario; one module of all has the *)
(* focus (sCurrentModule), and PulseAudio must be routed and mixed for the *)
(* current scenario of that module.                                        *)
(*                                                                         *)
(* The main loop is single threaded, so a call of one of these methods is  *)
(* one step.  The handlers of state.cpp and of the modules make sequences  *)
(* of these calls; every order of calls is allowed here.                   *)
(***************************************************************************)
EXTENDS Integers

CONSTANTS
  Modules,          \* the scenario modules
  FocusModules,     \* those that some handler makes current
  Media,            \* the module that claims to be the default
  Scenarios,        \* every registered scenario, of every module
  NoScenario,       \* a null mCurrentScenario
  OwnerOf,          \* [Scenarios -> Modules]: whose table it is in
  Priority,         \* [Scenarios -> Nat]: EScenarioPriority
  NameOrder,        \* [Scenarios -> Nat]: rank of the name in the std::map
  InitiallyEnabled, \* enabled at creation
  Hardwired,        \* mHardwired: refuse to be disabled
  RouteMayFail      \* may setRouting fail while the socket is open?

ASSUME ScenariosAssumption ==
  /\ FocusModules \subseteq Modules
  /\ Media \in FocusModules
  /\ NoScenario \notin Scenarios
  /\ OwnerOf \in [Scenarios -> Modules]
  /\ Priority \in [Scenarios -> Nat]
  /\ NameOrder \in [Scenarios -> Nat]
  /\ InitiallyEnabled \subseteq Scenarios
  /\ Hardwired \subseteq InitiallyEnabled
  /\ \E s \in Hardwired : OwnerOf[s] = Media
  /\ RouteMayFail \in BOOLEAN

VARIABLES
  enabled,    \* the scenarios whose mEnabled is set
  current,    \* current[m]: mCurrentScenario of module m
  chosen,     \* history: modules whose current scenario was imposed by name
  active,     \* sCurrentModule
  running,    \* the process lives
  connected,  \* mChannel # NULL: the socket to PulseAudio is open
  route,      \* the scenario of the last routing command sent on this socket
  unrouted,   \* history: the last routing command failed, or was never due
  mixed       \* the scenario the volumes and destinations were last sent for

vars == <<enabled, current, chosen, active, running, connected, route,
          unrouted, mixed>>

TypeOK ==
  /\ enabled \subseteq Scenarios
  /\ current \in [Modules -> Scenarios \cup {NoScenario}]
  /\ chosen \subseteq Modules
  /\ active \in FocusModules
  /\ running \in BOOLEAN
  /\ connected \in BOOLEAN
  /\ route \in Scenarios \cup {NoScenario}
  /\ unrouted \in BOOLEAN
  /\ mixed \in Scenarios \cup {NoScenario}

-----------------------------------------------------------------------------
(* The choice by priority.                                                 *)

\* The enabled scenarios of m.
Table(m, on) == {s \in on : OwnerOf[s] = m}

\* Mutant: the first by name, whatever its priority.
MutByName(s, t) == NameOrder[s] < NameOrder[t]

\* new is what the loop over the table, in name order, ends with when it
\* starts from old: the first by name among the highest, if higher than old.
Outranks(s, t) ==
  \/ Priority[s] > Priority[t]
  \/ Priority[s] = Priority[t] /\ NameOrder[s] < NameOrder[t]

FirstOf(new, S) == new \in S /\ \A t \in S \ {new} : Outranks(new, t)

\* Mutant: >= for >: an equal priority is enough.
MutEqualSteals(m, on, old, new) ==
  LET better == {s \in Table(m, on) :
                   old = NoScenario \/ Priority[s] >= Priority[old]}
  IN  \/ better = {} /\ new = old
      \/ FirstOf(new, better)

SelectedByPriority(m, on, old, new) ==
  LET better == {s \in Table(m, on) :
                   old = NoScenario \/ Priority[s] > Priority[old]}
  IN  \/ better = {} /\ new = old
      \/ FirstOf(new, better)

\* The same with the priority of old lowered below all others (unset).
SelectedInsteadOf(m, on, old, new) ==
  LET others == Table(m, on) \ {old}
  IN  \/ others = {} /\ new = old
      \/ FirstOf(new, others)

-----------------------------------------------------------------------------
(* Programming PulseAudio for scenario cur[m] of the focus module m.       *)

\* setRouting fails without a socket, and may fail with one (checkConnection, a
\* short send).
SetRouting(s) ==
  \/ connected /\ route' = s /\ unrouted' = FALSE
  \/ /\ ~connected \/ RouteMayFail
     /\ unrouted' = TRUE
     /\ UNCHANGED route

\* programHardwareState: nothing without a scenario.
ProgramHardwareState(m, cur) ==
  IF cur[m] = NoScenario
  THEN UNCHANGED <<route, unrouted>>
  ELSE SetRouting(cur[m])

\* programSoftwareMixer programs the volumes of every module, and reads the
\* current scenario of each without a test: a null one ends the process.
ProgramSoftwareMixer(m, cur, conn) ==
  IF ~conn \/ cur[m] = NoScenario
  THEN UNCHANGED <<mixed, running>>
  ELSE IF \E n \in Modules : cur[n] = NoScenario
       THEN running' = FALSE /\ UNCHANGED mixed
       ELSE mixed' = cur[m] /\ UNCHANGED running

\* Mutant: the routing is left as it was.
MutMixerOnly(m, cur) ==
  IF m = active
  THEN ProgramSoftwareMixer(m, cur, connected) /\ UNCHANGED <<route, unrouted>>
  ELSE UNCHANGED <<route, unrouted, mixed, running>>

\* _updateHardwareSettings: only the focus module programs PulseAudio.
UpdateHardwareSettings(m, cur) ==
  IF m = active
  THEN ProgramHardwareState(m, cur) /\ ProgramSoftwareMixer(m, cur, connected)
  ELSE UNCHANGED <<route, unrouted, mixed, running>>

-----------------------------------------------------------------------------
\* Every module has registered its scenarios, media has made itself current,
\* the socket to PulseAudio is not open yet (ControlInterfaceInit).
Startup(on, cur) ==
  /\ on = InitiallyEnabled
  /\ cur \in [Modules -> Scenarios \cup {NoScenario}]
  /\ \A m \in Modules :
       IF Table(m, on) = {}
       THEN cur[m] = NoScenario
       ELSE /\ cur[m] \in Table(m, on)
            /\ \A s \in Table(m, on) : Priority[s] <= Priority[cur[m]]

Init ==
  /\ Startup(enabled, current)
  /\ chosen = {}
  /\ active = Media
  /\ running = TRUE
  /\ connected = FALSE
  /\ route = NoScenario
  /\ unrouted = TRUE
  /\ mixed = NoScenario

\* setCurrentScenarioByPriority, once enabled is on: PulseAudio is programmed
\* only when the scenario has changed.
Reprioritise(m, on) ==
  \E new \in Scenarios \cup {NoScenario} :
    /\ SelectedByPriority(m, on, current[m], new)
    /\ current' = [current EXCEPT ![m] = new]
    /\ chosen' = chosen \ {m}
    /\ IF new = current[m]
       THEN UNCHANGED <<route, unrouted, mixed, running>>
       ELSE UpdateHardwareSettings(m, current')

\* enableScenario: the loop runs even when s was enabled already.
EnableScenario(s) ==
  /\ running
  /\ enabled' = enabled \cup {s}
  /\ Reprioritise(OwnerOf[s], enabled')
  /\ UNCHANGED <<active, connected>>

SetCurrentScenarioByPriority(m) ==
  /\ running
  /\ current[m] = NoScenario \/ current[m] \in enabled
  /\ Reprioritise(m, enabled)
  /\ UNCHANGED <<enabled, active, connected>>

\* setCurrentScenario: an enabled scenario, by name.
SetCurrentScenario(s) ==
  LET m == OwnerOf[s] IN
  /\ running
  /\ s \in enabled
  /\ s # current[m]
  /\ current' = [current EXCEPT ![m] = s]
  /\ chosen' = chosen \cup {m}
  /\ UpdateHardwareSettings(m, current')
  /\ UNCHANGED <<enabled, active, connected>>

\* unsetCurrentScenario: give up the current scenario for the best other one;
\* PulseAudio is programmed again even if there is no other one.
UnsetCurrentScenario(s) ==
  LET m == OwnerOf[s] IN
  /\ running
  /\ s = current[m] /\ s \in enabled
  /\ \E new \in Scenarios :
       /\ SelectedInsteadOf(m, enabled, s, new)
       /\ current' = [current EXCEPT ![m] = new]
       /\ chosen' = chosen \cup {m}
       /\ UpdateHardwareSettings(m, current')
  /\ UNCHANGED <<enabled, active, connected>>

\* What disableScenario accepts.
MayDisable(s) == s \in enabled \ Hardwired

\* disableScenario: the current scenario is replaced from scratch, and no
\* PulseAudio programming happens when nothing is left to replace it.
DisableScenario(s) ==
  LET m == OwnerOf[s] IN
  /\ running
  /\ MayDisable(s)
  /\ enabled' = enabled \ {s}
  /\ IF s # current[m]
     THEN UNCHANGED <<current, chosen, route, unrouted, mixed, running>>
     ELSE \E new \in Scenarios \cup {NoScenario} :
            /\ SelectedByPriority(m, enabled', NoScenario, new)
            /\ current' = [current EXCEPT ![m] = new]
            /\ chosen' = chosen \ {m}
            /\ IF new = NoScenario
               THEN UNCHANGED <<route, unrouted, mixed, running>>
               ELSE UpdateHardwareSettings(m, current')
  /\ UNCHANGED <<active, connected>>

\* makeCurrent: the focus moves, and PulseAudio is programmed for it.
MakeCurrent(m) ==
  /\ running
  /\ m # active
  /\ active' = m
  /\ ProgramHardwareState(m, current)
  /\ ProgramSoftwareMixer(m, current, connected)
  /\ UNCHANGED <<enabled, current, chosen, connected>>

\* _updateRouting: alerts and ringtones make media send its route again.
RefreshRoute ==
  /\ running
  /\ active = Media
  /\ current[Media] # NoScenario
  /\ connected
  /\ route' = current[Media] /\ unrouted' = FALSE
  /\ UNCHANGED <<enabled, current, chosen, active, running, connected, mixed>>

\* programSoftwareMixer of the focus module, after RTP has been unloaded.
ProgramAgain ==
  /\ running
  /\ ProgramSoftwareMixer(active, current, connected)
  /\ UNCHANGED <<enabled, current, chosen, active, connected, route, unrouted>>

\* Mutant: the connection does not program the mixer.
MutNotMixed ==
  /\ running
  /\ ~connected
  /\ connected' = TRUE
  /\ UNCHANGED <<enabled, current, chosen, active, running, route, unrouted,
                 mixed>>

\* _connectSocket, then onAudioMixerConnected: the caches start afresh, and
\* only the software mixer is programmed.
AudioMixerConnected ==
  /\ running
  /\ ~connected
  /\ connected' = TRUE
  /\ ProgramSoftwareMixer(active, current, TRUE)
  /\ UNCHANGED <<enabled, current, chosen, active, route, unrouted>>

\* PulseAudio hangs up: what it was told is lost with it.
PulseGoneAway ==
  /\ running
  /\ connected
  /\ connected' = FALSE
  /\ route' = NoScenario /\ unrouted' = TRUE /\ mixed' = NoScenario
  /\ UNCHANGED <<enabled, current, chosen, active, running>>

\* upstart respawns a process that has ended.
Respawn ==
  /\ ~running
  /\ running' = TRUE
  /\ Startup(enabled', current')
  /\ chosen' = {} /\ active' = Media /\ connected' = FALSE
  /\ route' = NoScenario /\ unrouted' = TRUE /\ mixed' = NoScenario

Next ==
  \/ \E s \in Scenarios : \/ EnableScenario(s)
                          \/ DisableScenario(s)
                          \/ SetCurrentScenario(s)
                          \/ UnsetCurrentScenario(s)
  \/ \E m \in Modules : SetCurrentScenarioByPriority(m)
  \/ \E m \in FocusModules : MakeCurrent(m)
  \/ RefreshRoute
  \/ ProgramAgain
  \/ AudioMixerConnected
  \/ PulseGoneAway
  \/ Respawn

Spec == Init /\ [][Next]_vars

-----------------------------------------------------------------------------
(* Properties.                                                             *)

\* A module is never heard on a device that is gone, nor on a scenario of
\* another module: disableScenario and the selection keep the current
\* scenario enabled and in the module's own table.
CurrentIsEnabled ==
  \A m \in Modules : current[m] # NoScenario => current[m] \in Table(m, enabled)

\* A module goes without a scenario only when nothing it could use is left.
NoneOnlyWhenAllDisabled ==
  \A m \in Modules : current[m] = NoScenario => Table(m, enabled) = {}

\* Unless a caller imposed another by name, a module is heard on a device of
\* the highest priority that is enabled, whatever came and went, in any order.
HighestUnlessChosen ==
  \A m \in Modules \ chosen : \A s \in Table(m, enabled) :
    Priority[s] <= Priority[current[m]]

\* What was wired in cannot be taken away, so media always has a scenario.
MediaKeepsAScenario == Hardwired \subseteq enabled /\ current[Media] # NoScenario

\* PulseAudio is routed for the current scenario of the focus module, unless
\* the last routing command failed or none was due since the connection.
RouteFollowsFocus ==
  (running /\ current[active] # NoScenario /\ ~unrouted)
    => route = current[active]

\* The volumes and destinations in PulseAudio are those of the current
\* scenario of the focus module, across changes of either and reconnections.
MixFollowsFocus ==
  (running /\ connected /\ current[active] # NoScenario)
    => mixed = current[active]

\* A scenario that stays enabled is replaced without being named only by one
\* of a strictly higher priority: equal devices do not steal from each other.
OnlyHigherPrioritySteals ==
  [][\A m \in Modules :
       (running /\ current[m] \in enabled' /\ current'[m] # current[m])
         => \/ Priority[current'[m]] > Priority[current[m]]
            \/ SetCurrentScenario(current'[m])
            \/ UnsetCurrentScenario(current[m])]_vars
=============================================================================
