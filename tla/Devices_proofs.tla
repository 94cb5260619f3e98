--------------------------- MODULE Devices_proofs ---------------------------
(***************************************************************************)
(* Theorems of Scenarios, for every table of scenarios and priorities, and *)
(* of Devices, for any cards, modules and scenarios.                       *)
(*                                                                         *)
(* Devices runs the engine of Scenarios unchanged: its specification       *)
(* implies that of Scenarios, whose theorems hold of it.  The invariants   *)
(* of the devices are strengthened by what the queues say: the last call   *)
(* of a script under way tells the truth, and the last answer about RTP is *)
(* that of the load audiod believes in.                                    *)
(***************************************************************************)
EXTENDS Devices, SequenceTheorems, TLAPS

-----------------------------------------------------------------------------
(* The engine.                                                             *)

USE ScenariosAssumption

Choices == Scenarios \cup {NoScenario}

-----------------------------------------------------------------------------
(* What the selections return.                                             *)

\* _setCurrentScenarioByPriority, started from nothing or from an enabled
\* scenario of the table, ends with none only over an empty table, otherwise
\* with an enabled scenario of the highest priority, and leaves its starting
\* point only for a strictly higher one.
LEMMA SelectedIsHighest ==
  ASSUME NEW m, NEW on \in SUBSET Scenarios, NEW old \in Choices, NEW new,
         old = NoScenario \/ old \in Table(m, on),
         SelectedByPriority(m, on, old, new)
  PROVE  /\ new \in Choices
         /\ new = NoScenario => Table(m, on) = {}
         /\ new # NoScenario => new \in Table(m, on)
         /\ new # NoScenario =>
              \A s \in Table(m, on) : Priority[s] <= Priority[new]
         /\ (old # NoScenario /\ new # old) => Priority[new] > Priority[old]
<1> DEFINE better == {s \in Table(m, on) :
                        old = NoScenario \/ Priority[s] > Priority[old]}
<1>1. \A s \in Table(m, on) : s \in Scenarios /\ Priority[s] \in Nat
  BY DEF Table
<1>2. old # NoScenario => Priority[old] \in Nat
  BY DEF Choices
<1>3. CASE better = {} /\ new = old
  BY <1>1, <1>2, <1>3 DEF Choices
<1>4. CASE FirstOf(new, better)
  <2>1. new \in better /\ \A t \in better \ {new} : Outranks(new, t)
    BY <1>4 DEF FirstOf
  <2>2. new \in Table(m, on) /\ new \in Scenarios
    BY <2>1, <1>1
  <2>3. \A t \in better : Priority[t] <= Priority[new]
    BY <2>1, <2>2, <1>1 DEF Outranks
  <2>4. \A s \in Table(m, on) : Priority[s] <= Priority[new]
    BY <2>1, <2>2, <2>3, <1>1, <1>2
  <2> QED
    BY <2>1, <2>2, <2>4 DEF Choices
<1> QED
  BY <1>3, <1>4 DEF SelectedByPriority

\* unsetCurrentScenario ends with an enabled scenario of the table.
LEMMA SelectedInsteadIsEnabled ==
  ASSUME NEW m, NEW on \in SUBSET Scenarios, NEW old \in Table(m, on), NEW new,
         SelectedInsteadOf(m, on, old, new)
  PROVE  new \in Table(m, on) /\ new \in Scenarios
BY DEF SelectedInsteadOf, FirstOf, Table

-----------------------------------------------------------------------------
(* Types.                                                                  *)

\* Programming PulseAudio keeps the types of what it writes.
LEMMA ProgramHardwareTypes ==
  ASSUME NEW m \in Modules, NEW cur \in [Modules -> Choices], TypeOK,
         ProgramHardwareState(m, cur)
  PROVE  route' \in Choices /\ unrouted' \in BOOLEAN
BY DEF ProgramHardwareState, SetRouting, TypeOK, Choices

LEMMA ProgramSoftwareTypes ==
  ASSUME NEW m \in Modules, NEW cur \in [Modules -> Choices], NEW conn, TypeOK,
         ProgramSoftwareMixer(m, cur, conn)
  PROVE  mixed' \in Choices /\ running' \in BOOLEAN
BY DEF ProgramSoftwareMixer, TypeOK, Choices

LEMMA UpdateTypes ==
  ASSUME NEW m \in Modules, NEW cur \in [Modules -> Choices], TypeOK,
         UpdateHardwareSettings(m, cur)
  PROVE  /\ route' \in Choices /\ unrouted' \in BOOLEAN
         /\ mixed' \in Choices /\ running' \in BOOLEAN
<1>1. CASE m = active
  BY <1>1, ProgramHardwareTypes, ProgramSoftwareTypes
     DEF UpdateHardwareSettings
<1>2. CASE m # active
  BY <1>2 DEF UpdateHardwareSettings, TypeOK, Choices
<1> QED BY <1>1, <1>2

LEMMA ReprioritiseTypes ==
  ASSUME NEW m \in Modules, NEW on, TypeOK, Reprioritise(m, on)
  PROVE  /\ current' \in [Modules -> Choices] /\ chosen' \subseteq Modules
         /\ route' \in Choices /\ unrouted' \in BOOLEAN
         /\ mixed' \in Choices /\ running' \in BOOLEAN
<1>1. PICK new \in Choices :
        /\ current' = [current EXCEPT ![m] = new]
        /\ chosen' = chosen \ {m}
        /\ IF new = current[m]
           THEN UNCHANGED <<route, unrouted, mixed, running>>
           ELSE UpdateHardwareSettings(m, current')
  BY DEF Reprioritise, Choices
<1>2. current' \in [Modules -> Choices] /\ chosen' \subseteq Modules
  BY <1>1 DEF TypeOK, Choices
<1>3. CASE new = current[m]
  BY <1>1, <1>2, <1>3 DEF TypeOK, Choices
<1>4. CASE new # current[m]
  BY <1>1, <1>2, <1>4, UpdateTypes
<1> QED BY <1>3, <1>4

LEMMA TypeInitially == Init => TypeOK
BY DEF Init, Startup, TypeOK

LEMMA TypePreserved == TypeOK /\ [Next]_vars => TypeOK'
<1> SUFFICES ASSUME TypeOK, [Next]_vars PROVE TypeOK'
  OBVIOUS
<1>0. TypeOK' <=> /\ enabled' \subseteq Scenarios
                  /\ current' \in [Modules -> Choices]
                  /\ chosen' \subseteq Modules
                  /\ active' \in FocusModules
                  /\ running' \in BOOLEAN /\ connected' \in BOOLEAN
                  /\ route' \in Choices /\ unrouted' \in BOOLEAN
                  /\ mixed' \in Choices
  BY DEF TypeOK, Choices
<1>1. ASSUME NEW s \in Scenarios, EnableScenario(s) PROVE TypeOK'
  BY <1>0, <1>1, ReprioritiseTypes DEF EnableScenario, TypeOK
<1>2. ASSUME NEW s \in Scenarios, DisableScenario(s) PROVE TypeOK'
  <2> DEFINE m == OwnerOf[s]
  <2>1. /\ m \in Modules /\ enabled' \subseteq Scenarios
        /\ active' \in FocusModules /\ connected' \in BOOLEAN
    BY <1>2 DEF DisableScenario, MayDisable, TypeOK
  <2>2. CASE s # current[m]
    BY <1>0, <1>2, <2>1, <2>2 DEF DisableScenario, MayDisable, TypeOK, Choices
  <2>3. CASE s = current[m]
    <3>1. PICK new \in Choices :
            /\ current' = [current EXCEPT ![m] = new]
            /\ chosen' = chosen \ {m}
            /\ IF new = NoScenario
               THEN UNCHANGED <<route, unrouted, mixed, running>>
               ELSE UpdateHardwareSettings(m, current')
      BY <1>2, <2>3 DEF DisableScenario, MayDisable, Choices
    <3>2. current' \in [Modules -> Choices] /\ chosen' \subseteq Modules
      BY <3>1, <2>1 DEF TypeOK, Choices
    <3>3. CASE new = NoScenario
      BY <1>0, <2>1, <3>1, <3>2, <3>3 DEF TypeOK, Choices
    <3>4. CASE new # NoScenario
      BY <1>0, <2>1, <3>1, <3>2, <3>4, UpdateTypes
    <3> QED BY <3>3, <3>4
  <2> QED BY <2>2, <2>3
<1>3. ASSUME NEW s \in Scenarios, SetCurrentScenario(s) PROVE TypeOK'
  <2>1. OwnerOf[s] \in Modules /\ current' \in [Modules -> Choices]
    BY <1>3 DEF SetCurrentScenario, TypeOK, Choices
  <2> QED
    BY <1>0, <1>3, <2>1, UpdateTypes DEF SetCurrentScenario, TypeOK
<1>4. ASSUME NEW s \in Scenarios, UnsetCurrentScenario(s) PROVE TypeOK'
  <2>1. OwnerOf[s] \in Modules /\ current' \in [Modules -> Choices]
    BY <1>4 DEF UnsetCurrentScenario, TypeOK, Choices
  <2> QED
    BY <1>0, <1>4, <2>1, UpdateTypes DEF UnsetCurrentScenario, TypeOK
<1>5. ASSUME NEW m \in Modules, SetCurrentScenarioByPriority(m) PROVE TypeOK'
  BY <1>0, <1>5, ReprioritiseTypes DEF SetCurrentScenarioByPriority, TypeOK
<1>6. ASSUME NEW m \in FocusModules, MakeCurrent(m) PROVE TypeOK'
  <2>1. m \in Modules /\ current \in [Modules -> Choices]
    BY DEF TypeOK, Choices
  <2>2. route' \in Choices /\ unrouted' \in BOOLEAN
    BY <1>6, <2>1, ProgramHardwareTypes DEF MakeCurrent
  <2>3. mixed' \in Choices /\ running' \in BOOLEAN
    BY <1>6, <2>1, ProgramSoftwareTypes DEF MakeCurrent
  <2> QED
    BY <1>0, <1>6, <2>1, <2>2, <2>3 DEF MakeCurrent, TypeOK
<1>7. ASSUME RefreshRoute PROVE TypeOK'
  BY <1>7 DEF RefreshRoute, TypeOK
<1>8. ASSUME AudioMixerConnected PROVE TypeOK'
  <2>1. active \in Modules /\ current \in [Modules -> Choices]
    BY DEF TypeOK, Choices
  <2>2. mixed' \in Choices /\ running' \in BOOLEAN
    BY <1>8, <2>1, ProgramSoftwareTypes DEF AudioMixerConnected
  <2> QED
    BY <1>0, <1>8, <2>1, <2>2 DEF AudioMixerConnected, TypeOK, Choices
<1>9. ASSUME PulseGoneAway PROVE TypeOK'
  BY <1>9 DEF PulseGoneAway, TypeOK
<1>10. ASSUME Respawn PROVE TypeOK'
  BY <1>10 DEF Respawn, Startup, TypeOK
<1>11. ASSUME ProgramAgain PROVE TypeOK'
  <2>1. active \in Modules /\ current \in [Modules -> Choices]
    BY DEF TypeOK, Choices
  <2>2. mixed' \in Choices /\ running' \in BOOLEAN
    BY <1>11, <2>1, ProgramSoftwareTypes DEF ProgramAgain
  <2> QED
    BY <1>0, <1>11, <2>1, <2>2 DEF ProgramAgain, TypeOK, Choices
<1>12. CASE UNCHANGED vars
  BY <1>12 DEF vars, TypeOK
<1> QED
  BY <1>1, <1>2, <1>3, <1>4, <1>5, <1>6, <1>7, <1>8, <1>9, <1>10,
     <1>11, <1>12 DEF Next

\* Type correctness, for every table.
THEOREM TypeCorrect == Spec => []TypeOK
BY TypeInitially, TypePreserved, PTL DEF Spec

-----------------------------------------------------------------------------
(* The current scenarios.                                                  *)

\* The inductive invariant: the choice of a module is constrained by its own
\* table only, so nothing about the focus or PulseAudio is needed.
ChoiceOK(m, cur, on) ==
  /\ cur[m] # NoScenario => cur[m] \in Table(m, on)
  /\ cur[m] = NoScenario => Table(m, on) = {}

HighestOK(m, cur, on) ==
  \A s \in Table(m, on) : Priority[s] <= Priority[cur[m]]

IInv ==
  /\ TypeOK
  /\ \A m \in Modules : ChoiceOK(m, current, enabled)
  /\ \A m \in Modules \ chosen : HighestOK(m, current, enabled)
  /\ Hardwired \subseteq enabled

\* A step that leaves the table and the choice of n alone keeps both facts.
LEMMA UntouchedModule ==
  ASSUME NEW n \in Modules, NEW on1, NEW on2, NEW cur1, NEW cur2,
         Table(n, on1) = Table(n, on2), cur1[n] = cur2[n]
  PROVE  /\ ChoiceOK(n, cur1, on1) => ChoiceOK(n, cur2, on2)
         /\ HighestOK(n, cur1, on1) => HighestOK(n, cur2, on2)
BY DEF ChoiceOK, HighestOK

\* Enabling or disabling s changes the table of its own module only.
LEMMA OtherTables ==
  ASSUME NEW s \in Scenarios, NEW n \in Modules, n # OwnerOf[s],
         NEW on \in SUBSET Scenarios
  PROVE  /\ Table(n, on) = Table(n, on \cup {s})
         /\ Table(n, on) = Table(n, on \ {s})
BY DEF Table

\* A choice by priority makes the two facts true of its module.
LEMMA SelectionMakesChoiceOK ==
  ASSUME NEW m \in Modules, NEW on \in SUBSET Scenarios, NEW old \in Choices,
         old = NoScenario \/ old \in Table(m, on), NEW new \in Choices,
         SelectedByPriority(m, on, old, new),
         NEW cur, cur[m] = new
  PROVE  ChoiceOK(m, cur, on) /\ HighestOK(m, cur, on)
BY SelectedIsHighest DEF ChoiceOK, HighestOK

LEMMA ReprioritiseKeepsChoices ==
  ASSUME IInv, NEW m \in Modules, NEW on \in SUBSET Scenarios,
         Reprioritise(m, on),
         current[m] = NoScenario \/ current[m] \in Table(m, on),
         \A n \in Modules \ {m} : Table(n, enabled) = Table(n, on)
  PROVE  /\ \A n \in Modules : ChoiceOK(n, current', on)
         /\ \A n \in Modules \ chosen' : HighestOK(n, current', on)
<1>1. PICK new \in Choices :
        /\ SelectedByPriority(m, on, current[m], new)
        /\ current' = [current EXCEPT ![m] = new]
        /\ chosen' = chosen \ {m}
  BY DEF Reprioritise, Choices
<1>2. current'[m] = new /\ \A n \in Modules \ {m} : current'[n] = current[n]
  BY <1>1 DEF IInv, TypeOK
<1>3. ChoiceOK(m, current', on) /\ HighestOK(m, current', on)
  BY <1>1, <1>2, SelectionMakesChoiceOK DEF IInv, TypeOK, Choices
<1>4. \A n \in Modules \ {m} : ChoiceOK(n, current', on)
  BY <1>2, UntouchedModule DEF IInv
<1>5. \A n \in (Modules \ chosen) \ {m} : HighestOK(n, current', on)
  BY <1>2, UntouchedModule DEF IInv
<1> QED BY <1>1, <1>3, <1>4, <1>5

LEMMA StartupChoices ==
  ASSUME NEW on, NEW cur, Startup(on, cur), NEW m \in Modules
  PROVE  ChoiceOK(m, cur, on) /\ HighestOK(m, cur, on)
BY DEF Startup, ChoiceOK, HighestOK, Table

LEMMA IInvInitially == Init => IInv
<1> SUFFICES ASSUME Init PROVE IInv
  OBVIOUS
<1>1. Startup(enabled, current) /\ Hardwired \subseteq enabled
  BY DEF Init, Startup
<1> QED BY <1>1, TypeInitially, StartupChoices DEF IInv

LEMMA IInvPreserved == IInv /\ [Next]_vars => IInv'
<1> SUFFICES ASSUME IInv, [Next]_vars PROVE IInv'
  OBVIOUS
<1>0. TypeOK /\ TypeOK'
  BY TypePreserved DEF IInv
<1>t. enabled \in SUBSET Scenarios /\ current \in [Modules -> Choices]
  BY <1>0 DEF TypeOK, Choices
<1>c. \A m \in Modules : current[m] = NoScenario \/ current[m] \in Table(m, enabled)
  BY DEF IInv, ChoiceOK
<1>i. ASSUME /\ \A m \in Modules : ChoiceOK(m, current', enabled')
             /\ \A m \in Modules \ chosen' : HighestOK(m, current', enabled')
             /\ Hardwired \subseteq enabled'
      PROVE IInv'
  BY <1>0, <1>i DEF IInv, ChoiceOK, HighestOK
<1>u. ASSUME UNCHANGED <<enabled, current, chosen>> PROVE IInv'
  BY <1>i, <1>u DEF IInv
<1>1. ASSUME NEW s \in Scenarios, EnableScenario(s) PROVE IInv'
  <2> DEFINE m == OwnerOf[s]
  <2>1. /\ enabled' = enabled \cup {s} /\ Reprioritise(m, enabled')
        /\ m \in Modules
    BY <1>1 DEF EnableScenario
  <2>2. current[m] = NoScenario \/ current[m] \in Table(m, enabled')
    BY <1>c, <2>1 DEF Table
  <2>3. \A n \in Modules \ {m} : Table(n, enabled) = Table(n, enabled')
    BY <1>t, <2>1, OtherTables, ZenonT(60)
  <2>4. /\ \A n \in Modules : ChoiceOK(n, current', enabled')
        /\ \A n \in Modules \ chosen' : HighestOK(n, current', enabled')
    BY <1>t, <2>1, <2>2, <2>3, ReprioritiseKeepsChoices
  <2> QED BY <1>i, <2>1, <2>4 DEF IInv
<1>2. ASSUME NEW s \in Scenarios, DisableScenario(s) PROVE IInv'
  <2> DEFINE m == OwnerOf[s]
  <2>1. /\ enabled' = enabled \ {s} /\ m \in Modules
        /\ Hardwired \subseteq enabled'
    BY <1>2 DEF DisableScenario, MayDisable, IInv
  <2>2. \A n \in Modules \ {m} : Table(n, enabled) = Table(n, enabled')
    BY <1>t, <2>1, OtherTables, ZenonT(60)
  <2>3. CASE s # current[m]
    <3>1. current' = current /\ chosen' = chosen
      BY <1>2, <2>3 DEF DisableScenario, MayDisable
    <3>2. Table(m, enabled') \subseteq Table(m, enabled)
      BY <2>1 DEF Table
    <3>3. current[m] # NoScenario => current[m] \in Table(m, enabled')
      BY <1>c, <2>1, <2>3 DEF Table
    <3>4. ChoiceOK(m, current', enabled')
      BY <3>1, <3>2, <3>3, <2>1 DEF IInv, ChoiceOK
    <3>5. m \notin chosen => HighestOK(m, current', enabled')
      BY <3>1, <3>2, <2>1 DEF IInv, HighestOK
    <3>6. /\ \A n \in Modules \ {m} : ChoiceOK(n, current', enabled')
          /\ \A n \in (Modules \ chosen) \ {m} : HighestOK(n, current', enabled')
      BY <3>1, <2>2, UntouchedModule DEF IInv
    <3> QED BY <1>i, <2>1, <3>1, <3>4, <3>5, <3>6
  <2>4. CASE s = current[m]
    <3>1. PICK new \in Choices :
            /\ SelectedByPriority(m, enabled', NoScenario, new)
            /\ current' = [current EXCEPT ![m] = new]
            /\ chosen' = chosen \ {m}
      BY <1>2, <2>4 DEF DisableScenario, MayDisable, Choices
    <3>2. current'[m] = new /\ \A n \in Modules \ {m} : current'[n] = current[n]
      BY <3>1, <2>1, <1>t
    <3>3. ChoiceOK(m, current', enabled') /\ HighestOK(m, current', enabled')
      BY <1>t, <2>1, <3>1, <3>2, SelectionMakesChoiceOK DEF Choices
    <3>4. /\ \A n \in Modules \ {m} : ChoiceOK(n, current', enabled')
          /\ \A n \in (Modules \ chosen) \ {m} : HighestOK(n, current', enabled')
      BY <3>2, <2>2, UntouchedModule DEF IInv
    <3> QED BY <1>i, <2>1, <3>1, <3>3, <3>4
  <2> QED BY <2>3, <2>4
<1>3. ASSUME NEW s \in Scenarios, SetCurrentScenario(s) PROVE IInv'
  <2> DEFINE m == OwnerOf[s]
  <2>1. /\ s \in enabled /\ enabled' = enabled /\ m \in Modules
        /\ current' = [current EXCEPT ![m] = s] /\ chosen' = chosen \cup {m}
    BY <1>3 DEF SetCurrentScenario
  <2>2. ChoiceOK(m, current', enabled')
    BY <2>1, <1>t DEF ChoiceOK, Table
  <2>3. \A n \in Modules \ {m} : current'[n] = current[n]
    BY <2>1, <1>t
  <2>4. /\ \A n \in Modules \ {m} : ChoiceOK(n, current', enabled')
        /\ \A n \in (Modules \ chosen) \ {m} : HighestOK(n, current', enabled')
    BY <2>1, <2>3, UntouchedModule DEF IInv
  <2> QED BY <1>i, <2>1, <2>2, <2>4 DEF IInv
<1>4. ASSUME NEW s \in Scenarios, UnsetCurrentScenario(s) PROVE IInv'
  <2> DEFINE m == OwnerOf[s]
  <2>1. PICK new \in Scenarios :
          /\ SelectedInsteadOf(m, enabled, s, new)
          /\ current' = [current EXCEPT ![m] = new]
          /\ chosen' = chosen \cup {m}
    BY <1>4 DEF UnsetCurrentScenario
  <2>2. /\ s \in Table(m, enabled) /\ enabled' = enabled /\ m \in Modules
    BY <1>4 DEF UnsetCurrentScenario, Table
  <2>3. ChoiceOK(m, current', enabled')
    BY <2>1, <2>2, <1>t, SelectedInsteadIsEnabled DEF ChoiceOK
  <2>4. \A n \in Modules \ {m} : current'[n] = current[n]
    BY <2>1, <1>t
  <2>5. /\ \A n \in Modules \ {m} : ChoiceOK(n, current', enabled')
        /\ \A n \in (Modules \ chosen) \ {m} : HighestOK(n, current', enabled')
    BY <2>2, <2>4, UntouchedModule DEF IInv
  <2> QED BY <1>i, <2>1, <2>2, <2>3, <2>5 DEF IInv
<1>5. ASSUME NEW m \in Modules, SetCurrentScenarioByPriority(m) PROVE IInv'
  <2>1. enabled' = enabled /\ Reprioritise(m, enabled)
    BY <1>5 DEF SetCurrentScenarioByPriority
  <2>2. /\ \A n \in Modules : ChoiceOK(n, current', enabled)
        /\ \A n \in Modules \ chosen' : HighestOK(n, current', enabled)
    BY <1>t, <1>c, <2>1, ReprioritiseKeepsChoices
  <2> QED BY <1>i, <2>1, <2>2 DEF IInv
<1>6. ASSUME NEW m \in FocusModules, MakeCurrent(m) PROVE IInv'
  BY <1>u, <1>6 DEF MakeCurrent
<1>7. ASSUME RefreshRoute PROVE IInv'
  BY <1>u, <1>7 DEF RefreshRoute
<1>8. ASSUME AudioMixerConnected PROVE IInv'
  BY <1>u, <1>8 DEF AudioMixerConnected
<1>9. ASSUME PulseGoneAway PROVE IInv'
  BY <1>u, <1>9 DEF PulseGoneAway
<1>10. ASSUME Respawn PROVE IInv'
  <2>1. Startup(enabled', current') /\ Hardwired \subseteq enabled'
    BY <1>10 DEF Respawn, Startup
  <2> QED BY <1>i, <2>1, StartupChoices
<1>11. ASSUME ProgramAgain PROVE IInv'
  BY <1>u, <1>11 DEF ProgramAgain
<1>12. CASE UNCHANGED vars
  BY <1>u, <1>12 DEF vars
<1> QED
  BY <1>1, <1>2, <1>3, <1>4, <1>5, <1>6, <1>7, <1>8, <1>9, <1>10,
     <1>11, <1>12 DEF Next

LEMMA IInvImplies ==
  IInv => /\ CurrentIsEnabled /\ NoneOnlyWhenAllDisabled
          /\ HighestUnlessChosen /\ MediaKeepsAScenario
<1> SUFFICES ASSUME IInv
             PROVE  /\ CurrentIsEnabled /\ NoneOnlyWhenAllDisabled
                    /\ HighestUnlessChosen /\ MediaKeepsAScenario
  OBVIOUS
<1>1. CurrentIsEnabled /\ NoneOnlyWhenAllDisabled
  BY DEF IInv, ChoiceOK, CurrentIsEnabled, NoneOnlyWhenAllDisabled
<1>2. HighestUnlessChosen
  BY DEF IInv, HighestOK, HighestUnlessChosen
<1>3. MediaKeepsAScenario
  <2>1. Media \in Modules /\ \E s \in Table(Media, enabled) : TRUE
    BY DEF IInv, Table
  <2> QED BY <2>1 DEF IInv, ChoiceOK, MediaKeepsAScenario
<1> QED BY <1>1, <1>2, <1>3

LEMMA IInvAlways == Spec => []IInv
BY IInvInitially, IInvPreserved, PTL DEF Spec

\* No module is ever heard on a scenario that is disabled or not its own.
THEOREM CurrentStaysEnabled == Spec => []CurrentIsEnabled
BY IInvAlways, IInvImplies, PTL

\* A module is left without a scenario only when its whole table is disabled.
THEOREM NoneMeansAllDisabled == Spec => []NoneOnlyWhenAllDisabled
BY IInvAlways, IInvImplies, PTL

\* Without a choice by name, the current scenario has the highest priority.
THEOREM HighestIsCurrent == Spec => []HighestUnlessChosen
BY IInvAlways, IInvImplies, PTL

\* Media keeps its hardwired scenarios, hence a scenario to be heard on.
THEOREM MediaIsNeverWithout == Spec => []MediaKeepsAScenario
BY IInvAlways, IInvImplies, PTL

-----------------------------------------------------------------------------
(* What PulseAudio was told.                                               *)

FollowInv == TypeOK /\ RouteFollowsFocus /\ MixFollowsFocus

\* A change of the scenario of m, followed by _updateHardwareSettings, leaves
\* PulseAudio told of the focus module's scenario whether or not m is it.
LEMMA UpdateFollows ==
  ASSUME FollowInv, running, NEW m \in Modules, NEW new \in Choices,
         current' = [current EXCEPT ![m] = new],
         UpdateHardwareSettings(m, current'),
         UNCHANGED <<active, connected>>
  PROVE  RouteFollowsFocus' /\ MixFollowsFocus'
<1>1. current'[m] = new /\ \A n \in Modules \ {m} : current'[n] = current[n]
  BY DEF FollowInv, TypeOK
<1>2. active \in Modules
  BY DEF FollowInv, TypeOK
<1>3. CASE m = active
  BY <1>3 DEF UpdateHardwareSettings, ProgramHardwareState, SetRouting,
              ProgramSoftwareMixer, RouteFollowsFocus, MixFollowsFocus
<1>4. CASE m # active
  BY <1>1, <1>2, <1>4 DEF UpdateHardwareSettings, FollowInv, RouteFollowsFocus,
                          MixFollowsFocus
<1> QED BY <1>3, <1>4

\* A step that changes none of what the two properties read.
LEMMA FollowsUntouched ==
  ASSUME FollowInv, UNCHANGED <<active, running, connected, route, unrouted, mixed>>,
         current'[active] \in {current[active], NoScenario}
  PROVE  RouteFollowsFocus' /\ MixFollowsFocus'
BY DEF FollowInv, RouteFollowsFocus, MixFollowsFocus

LEMMA ReprioritiseFollows ==
  ASSUME FollowInv, running, NEW m \in Modules, NEW on, Reprioritise(m, on),
         UNCHANGED <<active, connected>>
  PROVE  RouteFollowsFocus' /\ MixFollowsFocus'
<1>1. PICK new \in Choices :
        /\ current' = [current EXCEPT ![m] = new]
        /\ IF new = current[m]
           THEN UNCHANGED <<route, unrouted, mixed, running>>
           ELSE UpdateHardwareSettings(m, current')
  BY DEF Reprioritise, Choices
<1>2. CASE new = current[m]
  <2>1. current' = current
    BY <1>1, <1>2 DEF FollowInv, TypeOK
  <2> QED BY <1>1, <1>2, <2>1, FollowsUntouched
<1>3. CASE new # current[m]
  BY <1>1, <1>3, UpdateFollows
<1> QED BY <1>2, <1>3

LEMMA FollowInvPreserved == FollowInv /\ [Next]_vars => FollowInv'
<1> SUFFICES ASSUME FollowInv, [Next]_vars
             PROVE  RouteFollowsFocus' /\ MixFollowsFocus'
  BY TypePreserved DEF FollowInv
<1>t. active \in Modules /\ current \in [Modules -> Choices]
  BY DEF FollowInv, TypeOK, Choices
<1> DEFINE Goal == RouteFollowsFocus' /\ MixFollowsFocus'
<1>1. ASSUME NEW s \in Scenarios, EnableScenario(s) PROVE Goal
  BY <1>1, ReprioritiseFollows DEF EnableScenario
<1>2. ASSUME NEW s \in Scenarios, DisableScenario(s) PROVE Goal
  <2> DEFINE m == OwnerOf[s]
  <2>1. running /\ m \in Modules /\ UNCHANGED <<active, connected>>
    BY <1>2 DEF DisableScenario, MayDisable
  <2>2. CASE s # current[m]
    BY <1>2, <2>1, <2>2, FollowsUntouched DEF DisableScenario, MayDisable
  <2>3. CASE s = current[m]
    <3>1. PICK new \in Choices :
            /\ current' = [current EXCEPT ![m] = new]
            /\ IF new = NoScenario
               THEN UNCHANGED <<route, unrouted, mixed, running>>
               ELSE UpdateHardwareSettings(m, current')
      BY <1>2, <2>3 DEF DisableScenario, MayDisable, Choices
    <3>2. CASE new = NoScenario
      <4>1. current'[active] \in {current[active], NoScenario}
        BY <1>t, <3>1, <3>2
      <4> QED BY <2>1, <3>1, <3>2, <4>1, FollowsUntouched
    <3>3. CASE new # NoScenario
      BY <2>1, <3>1, <3>3, UpdateFollows
    <3> QED BY <3>2, <3>3
  <2> QED BY <2>2, <2>3
<1>3. ASSUME NEW s \in Scenarios, SetCurrentScenario(s) PROVE Goal
  <2>1. OwnerOf[s] \in Modules /\ s \in Choices
    BY DEF Choices
  <2> QED BY <1>3, <2>1, UpdateFollows DEF SetCurrentScenario
<1>4. ASSUME NEW s \in Scenarios, UnsetCurrentScenario(s) PROVE Goal
  <2>1. PICK new \in Choices :
          /\ current' = [current EXCEPT ![OwnerOf[s]] = new]
          /\ UpdateHardwareSettings(OwnerOf[s], current')
    BY <1>4 DEF UnsetCurrentScenario, Choices
  <2> QED BY <1>4, <2>1, UpdateFollows DEF UnsetCurrentScenario
<1>5. ASSUME NEW m \in Modules, SetCurrentScenarioByPriority(m) PROVE Goal
  BY <1>5, ReprioritiseFollows DEF SetCurrentScenarioByPriority
<1>6. ASSUME NEW m \in FocusModules, MakeCurrent(m) PROVE Goal
  BY <1>6 DEF MakeCurrent, ProgramHardwareState, SetRouting, ProgramSoftwareMixer,
              RouteFollowsFocus, MixFollowsFocus
<1>7. ASSUME RefreshRoute PROVE Goal
  BY <1>7 DEF RefreshRoute, FollowInv, RouteFollowsFocus, MixFollowsFocus
<1>8. ASSUME AudioMixerConnected PROVE Goal
  BY <1>8 DEF AudioMixerConnected, ProgramSoftwareMixer, FollowInv,
              RouteFollowsFocus, MixFollowsFocus
<1>9. ASSUME PulseGoneAway PROVE Goal
  BY <1>9 DEF PulseGoneAway, RouteFollowsFocus, MixFollowsFocus
<1>10. ASSUME Respawn PROVE Goal
  BY <1>10 DEF Respawn, RouteFollowsFocus, MixFollowsFocus
<1>11. ASSUME ProgramAgain PROVE Goal
  BY <1>11 DEF ProgramAgain, ProgramSoftwareMixer, FollowInv,
               RouteFollowsFocus, MixFollowsFocus
<1>12. CASE UNCHANGED vars
  BY <1>12 DEF vars, FollowInv, RouteFollowsFocus, MixFollowsFocus
<1> QED
  BY <1>1, <1>2, <1>3, <1>4, <1>5, <1>6, <1>7, <1>8, <1>9, <1>10,
     <1>11, <1>12 DEF Next

LEMMA FollowInvAlways == Spec => []FollowInv
<1>1. Init => FollowInv
  BY TypeInitially DEF Init, FollowInv, RouteFollowsFocus, MixFollowsFocus
<1> QED BY <1>1, FollowInvPreserved, PTL DEF Spec

\* The route last sent is the focus module's scenario, whatever changed.
THEOREM RouteIsOfTheFocus == Spec => []RouteFollowsFocus
<1>1. FollowInv => RouteFollowsFocus
  BY DEF FollowInv
<1> QED BY <1>1, FollowInvAlways, PTL

\* The volumes and destinations last sent are of the focus module's scenario.
THEOREM MixIsOfTheFocus == Spec => []MixFollowsFocus
<1>1. FollowInv => MixFollowsFocus
  BY DEF FollowInv
<1> QED BY <1>1, FollowInvAlways, PTL

-----------------------------------------------------------------------------
(* The action property.                                                    *)

NoTheft ==
  \A m \in Modules :
    (running /\ current[m] \in enabled' /\ current'[m] # current[m])
      => \/ Priority[current'[m]] > Priority[current[m]]
         \/ SetCurrentScenario(current'[m])
         \/ UnsetCurrentScenario(current[m])

LEMMA ReprioritiseNoTheft ==
  ASSUME IInv, NEW m \in Modules, NEW on \in SUBSET Scenarios,
         Reprioritise(m, on),
         current[m] = NoScenario \/ current[m] \in Table(m, on),
         NEW n \in Modules, current[n] \in on, current'[n] # current[n]
  PROVE  Priority[current'[n]] > Priority[current[n]]
<1>1. PICK new \in Choices :
        /\ SelectedByPriority(m, on, current[m], new)
        /\ current' = [current EXCEPT ![m] = new]
  BY DEF Reprioritise, Choices
<1>2. n = m /\ current'[n] = new /\ current[n] # NoScenario
  BY <1>1 DEF IInv, TypeOK
<1>3. current[m] \in Choices
  BY DEF IInv, TypeOK, Choices
<1> QED BY <1>1, <1>2, <1>3, SelectedIsHighest

LEMMA NextNoTheft == IInv /\ [Next]_vars => [NoTheft]_vars
<1> SUFFICES ASSUME IInv, Next, NEW n \in Modules,
                    running, current[n] \in enabled', current'[n] # current[n]
             PROVE  \/ Priority[current'[n]] > Priority[current[n]]
                    \/ SetCurrentScenario(current'[n])
                    \/ UnsetCurrentScenario(current[n])
  BY DEF NoTheft
<1>t. enabled \in SUBSET Scenarios /\ current \in [Modules -> Choices]
  BY DEF IInv, TypeOK, Choices
<1>c. \A m \in Modules : current[m] = NoScenario \/ current[m] \in Table(m, enabled)
  BY DEF IInv, ChoiceOK
<1>1. ASSUME NEW s \in Scenarios, EnableScenario(s)
      PROVE  Priority[current'[n]] > Priority[current[n]]
  <2>1. /\ OwnerOf[s] \in Modules /\ enabled' \in SUBSET Scenarios
        /\ Reprioritise(OwnerOf[s], enabled')
    BY <1>1, <1>t DEF EnableScenario
  <2>2. \/ current[OwnerOf[s]] = NoScenario
        \/ current[OwnerOf[s]] \in Table(OwnerOf[s], enabled')
    BY <1>1, <1>c, <2>1 DEF EnableScenario, Table
  <2> QED BY <2>1, <2>2, ReprioritiseNoTheft
<1>2. ASSUME NEW s \in Scenarios, DisableScenario(s) PROVE FALSE
  <2>1. enabled' = enabled \ {s} /\ OwnerOf[s] \in Modules
    BY <1>2 DEF DisableScenario, MayDisable
  <2>2. s = current[OwnerOf[s]]
    BY <1>2 DEF DisableScenario, MayDisable
  <2>3. n # OwnerOf[s]
    BY <2>1, <2>2
  <2>4. current'[n] = current[n]
    BY <1>2, <1>t, <2>1, <2>3 DEF DisableScenario, MayDisable
  <2> QED BY <2>4
<1>3. ASSUME NEW s \in Scenarios, SetCurrentScenario(s)
      PROVE  SetCurrentScenario(current'[n])
  <2>1. OwnerOf[s] \in Modules /\ current' = [current EXCEPT ![OwnerOf[s]] = s]
    BY <1>3 DEF SetCurrentScenario
  <2>2. current'[n] = s
    BY <1>t, <2>1
  <2> QED BY <1>3, <2>2
<1>4. ASSUME NEW s \in Scenarios, UnsetCurrentScenario(s)
      PROVE  UnsetCurrentScenario(current[n])
  <2>1. OwnerOf[s] \in Modules /\ s = current[OwnerOf[s]]
    BY <1>4 DEF UnsetCurrentScenario
  <2>2. n = OwnerOf[s]
    BY <1>4, <1>t, <2>1 DEF UnsetCurrentScenario
  <2> QED BY <1>4, <2>1, <2>2
<1>5. ASSUME NEW m \in Modules, SetCurrentScenarioByPriority(m)
      PROVE  Priority[current'[n]] > Priority[current[n]]
  <2>1. enabled' = enabled /\ Reprioritise(m, enabled)
    BY <1>5 DEF SetCurrentScenarioByPriority
  <2> QED BY <1>t, <1>c, <2>1, ReprioritiseNoTheft
<1>6. ASSUME NEW m \in FocusModules, MakeCurrent(m) PROVE FALSE
  BY <1>6 DEF MakeCurrent
<1>7. CASE RefreshRoute \/ ProgramAgain \/ AudioMixerConnected \/ PulseGoneAway
  BY <1>7 DEF RefreshRoute, ProgramAgain, AudioMixerConnected, PulseGoneAway
<1>8. CASE Respawn
  BY <1>8 DEF Respawn
<1> QED
  BY <1>1, <1>2, <1>3, <1>4, <1>5, <1>6, <1>7, <1>8 DEF Next

\* A scenario that stays enabled is replaced only on request or by one of a
\* strictly higher priority.
THEOREM NoThefts == Spec => OnlyHigherPrioritySteals
<1>1. [NoTheft]_vars <=>
        [\A m \in Modules :
          (running /\ current[m] \in enabled' /\ current'[m] # current[m])
            => \/ Priority[current'[m]] > Priority[current[m]]
               \/ SetCurrentScenario(current'[m])
               \/ UnsetCurrentScenario(current[m])]_vars
  BY DEF NoTheft
<1> QED
  BY <1>1, IInvAlways, NextNoTheft, PTL DEF Spec, OnlyHigherPrioritySteals

HIDE ScenariosAssumption

-----------------------------------------------------------------------------
(* The composition.                                                        *)

-----------------------------------------------------------------------------
(* The engine within the composition.                                      *)

\* Every step is a call of the engine, or leaves it alone.
LEMMA StepOfScenarios == [DevicesNext]_dvars => [Next]_vars
<1> SUFFICES ASSUME [DevicesNext]_dvars PROVE [Next]_vars
  OBVIOUS
<1> USE ScenariosAssumption, DevicesAssumption
<1>1. ASSUME NEW on \in BOOLEAN, HacSet(on) PROVE Next
  BY <1>1 DEF HacSet, Next
<1>2. ASSUME NEW m \in FocusModules, FocusMoves(m) PROVE Next
  BY <1>2 DEF FocusMoves, Next
<1>3. CASE Connects \/ HangUp \/ Restart \/ UnloadRTP
  BY <1>3 DEF Connects, HangUp, Restart, UnloadRTP, Next
<1>4. CASE RtpSubscriptionReply \/ PulseRestarts \/ UNCHANGED dvars
  BY <1>4 DEF RtpSubscriptionReply, PulseRestarts, dvars
<1>5. ASSUME NEW k \in 0 .. 2, MoveJack(k) PROVE UNCHANGED vars
  BY <1>5 DEF MoveJack
<1>6. ASSUME NEW sent \in BOOLEAN, HeadsetEvent(sent) PROVE UNCHANGED vars
  BY <1>6 DEF HeadsetEvent
<1>7. ASSUME NEW c \in Cards, NEW sent \in BOOLEAN, CardEvent(c, sent) \/ MoveCard(c)
      PROVE  UNCHANGED vars
  BY <1>7 DEF CardEvent, MoveCard
<1>8. ASSUME NEW loads \in BOOLEAN, LoadRTP(loads) PROVE UNCHANGED vars
  BY <1>8 DEF LoadRTP
<1>9. QED
  BY <1>1, <1>2, <1>3, <1>4, <1>5, <1>6, <1>7, <1>8 DEF DevicesNext

\* What is plugged in, and the failures of this module, drive the engine only through its
\* own operations: the composition implements Scenarios, with all its theorems.
THEOREM DevicesRunScenarios == DevicesSpec => Spec
<1>1. DevicesInit => Init
  BY DEF DevicesInit
<1>2. QED
  BY <1>1, StepOfScenarios, PTL DEF DevicesSpec, Spec

-----------------------------------------------------------------------------
(* Types.                                                                  *)

\* The kinds of headset.
LEMMA KindsAreStates ==
  ASSUME NEW k \in 0 .. 2
  PROVE  /\ RuleKind(k) \in HeadsetStates /\ InitialKind(k) \in HeadsetStates
         /\ RuleKind(k) = "none" <=> k = 0
         /\ InitialKind(k) = "none" <=> k = 0
BY DEF RuleKind, InitialKind, HeadsetStates

\* Queues of answers and of a card's calls.
LEMMA Queues ==
  /\ <<>> \in Seq(BOOLEAN)
  /\ \A q \in Seq(BOOLEAN), b \in BOOLEAN : Append(q, b) \in Seq(BOOLEAN)
  /\ \A q \in Seq(BOOLEAN) : q # <<>> => Tail(q) \in Seq(BOOLEAN) /\ Head(q) \in BOOLEAN
OBVIOUS

\* What is left when the first of several is taken ends as before.
LEMMA TailEndsAlike ==
  ASSUME NEW S, NEW q \in Seq(S), q # <<>>, Len(q) # 1
  PROVE  Tail(q) # <<>> /\ Tail(q)[Len(Tail(q))] = q[Len(q)]
<1>1. Len(q) \in Nat /\ Len(q) # 0
  BY EmptySeq, LenProperties
<1>2. Len(q) - 1 \in Nat /\ Len(q) - 1 # 0
  BY <1>1
<1>3. /\ Tail(q) \in Seq(S)
      /\ Len(Tail(q)) = Len(q) - 1
      /\ \A i \in 1 .. Len(Tail(q)) : Tail(q)[i] = q[i+1]
  BY HeadTailProperties
<1>4. Len(Tail(q)) # 0
  BY <1>2, <1>3, Zenon
<1>5. Tail(q) # <<>>
  BY <1>3, <1>4, EmptySeq
<1>6. Len(q) - 1 \in 1 .. Len(Tail(q)) /\ (Len(q) - 1) + 1 = Len(q)
  BY <1>1, <1>2, <1>3
<1>7. QED
  BY <1>3, <1>5, <1>6

\* Equivalent truths are equal.
LEMMA TrueAlike ==
  ASSUME NEW a \in BOOLEAN, NEW b \in BOOLEAN, a <=> b
  PROVE  a = b
OBVIOUS

\* Taking the only one leaves none.
LEMMA TailOfOne ==
  ASSUME NEW S, NEW q \in Seq(S), Len(q) = 1
  PROVE  Tail(q) = <<>> /\ Head(q) = q[1]
<1>1. q # <<>>
  BY EmptySeq
<1>2. Head(q) = q[1] /\ Tail(q) \in Seq(S) /\ Len(Tail(q)) = 0
  BY <1>1, HeadTailProperties
<1>3. QED
  BY <1>2, EmptySeq

LEMMA DevicesTypeInitially == DevicesInit => DevicesTypeOK
<1> SUFFICES ASSUME DevicesInit PROVE DevicesTypeOK
  OBVIOUS
<1>1. TypeOK
  BY TypeInitially DEF DevicesInit
<1>2. headset \in HeadsetStates
  BY KindsAreStates DEF DevicesInit
<1>3. pulse \in [route : BOOLEAN, cards : SUBSET Cards, rtp : BOOLEAN]
  BY DEF DevicesInit, FreshPulse
<1>4. /\ jackCalls \in Seq(HeadsetStates) /\ replies \in Seq(BOOLEAN)
      /\ cardCalls \in [Cards -> Seq(BOOLEAN)]
  BY Queues DEF DevicesInit
<1>5. QED
  BY <1>1, <1>2, <1>3, <1>4 DEF DevicesInit, DevicesTypeOK

LEMMA FreshPulseType ==
  FreshPulse \in [route : BOOLEAN, cards : SUBSET Cards, rtp : BOOLEAN]
BY DEF FreshPulse

LEMMA DevicesTypeStep == DevicesTypeOK /\ [DevicesNext]_dvars => DevicesTypeOK'
<1> SUFFICES ASSUME DevicesTypeOK, [DevicesNext]_dvars PROVE DevicesTypeOK'
  OBVIOUS
<1>0. TypeOK'
  BY StepOfScenarios, TypePreserved DEF DevicesTypeOK
<1>1. ASSUME NEW k \in 0 .. 2, MoveJack(k) PROVE DevicesTypeOK'
  <2>1. jackCalls' \in Seq(HeadsetStates)
    BY <1>1, KindsAreStates DEF MoveJack, DevicesTypeOK
  <2>2. QED
    BY <1>0, <1>1, <2>1 DEF MoveJack, DevicesTypeOK
<1>2. ASSUME NEW sent \in BOOLEAN, HeadsetEvent(sent) PROVE DevicesTypeOK'
  <2>1. Head(jackCalls) \in HeadsetStates /\ jackCalls' \in Seq(HeadsetStates)
    BY <1>2 DEF HeadsetEvent, DevicesTypeOK
  <2>2. pulse' \in [route : BOOLEAN, cards : SUBSET Cards, rtp : BOOLEAN]
    BY <1>2 DEF HeadsetEvent, SetHeadsetState, SetHeadsetRoute, ProgramHeadsetRoute,
                DevicesTypeOK
  <2>3. stray' \subseteq {"route", "rtp"} /\ headset' \in HeadsetStates
    BY <1>2, <2>1 DEF HeadsetEvent, SetHeadsetState, SetHeadsetRoute,
                      ProgramHeadsetRoute, DevicesTypeOK
  <2>4. QED
    BY <1>0, <1>2, <2>1, <2>2, <2>3 DEF HeadsetEvent, DevicesTypeOK
<1>3. ASSUME NEW c \in Cards, MoveCard(c) PROVE DevicesTypeOK'
  <2>1. cardCalls' \in [Cards -> Seq(BOOLEAN)]
    BY <1>3 DEF MoveCard, DevicesTypeOK
  <2>2. QED
    BY <1>0, <1>3, <2>1 DEF MoveCard, DevicesTypeOK
<1>4. ASSUME NEW c \in Cards, NEW sent \in BOOLEAN, CardEvent(c, sent)
      PROVE  DevicesTypeOK'
  <2>1. cardCalls' \in [Cards -> Seq(BOOLEAN)]
    BY <1>4 DEF CardEvent, DevicesTypeOK
  <2>2. /\ pulse' \in [route : BOOLEAN, cards : SUBSET Cards, rtp : BOOLEAN]
        /\ missed' \subseteq Cards
    <3>1. \/ UNCHANGED pulse /\ missed' \in {missed, missed \cup {c}}
          \/ /\ \E S \in {pulse.cards \cup {c}, pulse.cards \ {c}} :
                  pulse' = [pulse EXCEPT !.cards = S]
             /\ missed' = missed \ {c}
      BY <1>4 DEF CardEvent, LoadUSBSinkSource, PathCheck
    <3>2. QED
      BY <3>1 DEF DevicesTypeOK
  <2>3. QED
    BY <1>0, <1>4, <2>1, <2>2 DEF CardEvent, DevicesTypeOK
<1>5. ASSUME NEW on \in BOOLEAN, HacSet(on) PROVE DevicesTypeOK'
  BY <1>0, <1>5 DEF HacSet, deviceVars, DevicesTypeOK
<1>6. ASSUME NEW m \in FocusModules, FocusMoves(m) PROVE DevicesTypeOK'
  BY <1>0, <1>6 DEF FocusMoves, deviceVars, DevicesTypeOK
<1>7. ASSUME NEW loads \in BOOLEAN, LoadRTP(loads) PROVE DevicesTypeOK'
  <2>1. pulse' \in [route : BOOLEAN, cards : SUBSET Cards, rtp : BOOLEAN]
    BY <1>7 DEF LoadRTP, ProgramLoadRTP, DevicesTypeOK
  <2>2. replies' \in Seq(BOOLEAN)
    BY <1>7, Queues DEF LoadRTP, ProgramLoadRTP, DevicesTypeOK
  <2>3. QED
    BY <1>0, <1>7, <2>1, <2>2 DEF LoadRTP, DevicesTypeOK
<1>8. CASE RtpSubscriptionReply
  <2>1. replies' \in Seq(BOOLEAN) /\ rtpLoaded' \in BOOLEAN
    BY <1>8, Queues DEF RtpSubscriptionReply, DevicesTypeOK
  <2>2. stray' \subseteq {"route", "rtp"}
    BY <1>8 DEF RtpSubscriptionReply, DevicesTypeOK
  <2>3. QED
    BY <1>0, <1>8, <2>1, <2>2 DEF RtpSubscriptionReply, DevicesTypeOK
<1>9. CASE UnloadRTP
  <2>1. pulse' \in [route : BOOLEAN, cards : SUBSET Cards, rtp : BOOLEAN]
    BY <1>9 DEF UnloadRTP, ProgramUnloadRTP, DevicesTypeOK
  <2>2. QED
    BY <1>0, <1>9, <2>1 DEF UnloadRTP, ProgramUnloadRTP, DevicesTypeOK
<1>10. CASE Connects
  BY <1>0, <1>10 DEF Connects, deviceVars, DevicesTypeOK
<1>11. CASE HangUp \/ PulseRestarts
  BY <1>0, <1>11, FreshPulseType, Queues DEF HangUp, PulseRestarts, DevicesTypeOK
<1>12. CASE Restart
  <2>1. headset' \in HeadsetStates
    BY <1>12, KindsAreStates DEF Restart, DevicesTypeOK
  <2>2. QED
    BY <1>0, <1>12, <2>1, Queues DEF Restart, DevicesTypeOK
<1>13. CASE UNCHANGED dvars
  BY <1>0, <1>13 DEF dvars, deviceVars, DevicesTypeOK
<1>14. QED
  BY <1>1, <1>2, <1>3, <1>4, <1>5, <1>6, <1>7, <1>8, <1>9, <1>10, <1>11, <1>12, <1>13
  DEF DevicesNext

\* The composition keeps its types.
THEOREM DevicesTypes == DevicesSpec => []DevicesTypeOK
BY DevicesTypeInitially, DevicesTypeStep, PTL DEF DevicesSpec

-----------------------------------------------------------------------------
(* The headset.                                                            *)

\* The last call under way tells what the switch says; with none under way audiod knows.
JackInv ==
  /\ jackCalls # <<>> => jackCalls[Len(jackCalls)] = RuleKind(jack)
  /\ HeadsetIsKnown

\* The route is the headset's until a command is missed, connected or not.
RouteInv ==
  "route" \notin stray =>
    /\ headset = "headset" => pulse.route
    /\ headset = "none" => ~pulse.route

\* Steps that concern neither the headset nor the end of the process.
LEMMA JackKept ==
  ASSUME JackInv, UNCHANGED <<jack, jackCalls, headset>>, running' => running
  PROVE  JackInv'
BY DEF JackInv, HeadsetIsKnown, RuleKind

\* Only Respawn lets audiod run again.
LEMMA RunsOnlyByRestart ==
  ASSUME [DevicesNext]_dvars, running', ~running
  PROVE  Restart
<1>1. [Next]_vars
  BY StepOfScenarios
<1>2. ~Next \/ Respawn
  BY DEF Next, EnableScenario, DisableScenario, SetCurrentScenario, UnsetCurrentScenario,
         SetCurrentScenarioByPriority, MakeCurrent, RefreshRoute, ProgramAgain,
         AudioMixerConnected, PulseGoneAway
<1>3. Respawn
  BY <1>1, <1>2 DEF vars
<1>4. ASSUME NEW on \in BOOLEAN PROVE ~HacSet(on)
  BY DEF HacSet, DisableScenario, EnableScenario
<1>5. ~UNCHANGED vars
  BY DEF vars
<1>6. QED
  BY <1>4, <1>5 DEF DevicesNext, FocusMoves, MakeCurrent, LoadRTP, RtpSubscriptionReply,
     UnloadRTP, Connects, AudioMixerConnected, HangUp, PulseGoneAway, PulseRestarts,
     MoveJack, HeadsetEvent, CardEvent, MoveCard, dvars

LEMMA JackStep == DevicesTypeOK /\ JackInv /\ [DevicesNext]_dvars => JackInv'
<1> SUFFICES ASSUME DevicesTypeOK, JackInv, [DevicesNext]_dvars PROVE JackInv'
  OBVIOUS
<1>1. ASSUME NEW k \in 0 .. 2, MoveJack(k) PROVE JackInv'
  <2>1. /\ jackCalls' # <<>>
        /\ jackCalls'[Len(jackCalls')] = RuleKind(jack')
    BY <1>1, KindsAreStates DEF MoveJack, DevicesTypeOK
  <2>2. QED
    BY <2>1 DEF JackInv, HeadsetIsKnown, RuleKind
<1>2. ASSUME NEW sent \in BOOLEAN, HeadsetEvent(sent) PROVE JackInv'
  <2>1. jack' = jack /\ running' = running
    BY <1>2 DEF HeadsetEvent, vars
  <2>2. CASE Len(jackCalls) = 1
    <3>1. jackCalls' = <<>> /\ Head(jackCalls) = RuleKind(jack)
      BY <1>2, <2>2 DEF HeadsetEvent, JackInv, DevicesTypeOK
    <3>2. running => headset' = RuleKind(jack)
      BY <1>2, <3>1 DEF HeadsetEvent, SetHeadsetState
    <3>3. QED
      BY <2>1, <3>1, <3>2, KindsAreStates DEF JackInv, HeadsetIsKnown, DevicesTypeOK
  <2>3. CASE Len(jackCalls) # 1
    <3>1. /\ jackCalls' # <<>>
          /\ jackCalls'[Len(jackCalls')] = jackCalls[Len(jackCalls)]
          /\ jackCalls # <<>>
      BY <1>2, <2>3, TailEndsAlike DEF HeadsetEvent, DevicesTypeOK
    <3>2. QED
      BY <2>1, <3>1 DEF JackInv, HeadsetIsKnown, RuleKind
  <2>4. QED
    BY <2>2, <2>3
<1>3. CASE Restart
  <2>1. jack' = jack /\ jackCalls' = jackCalls /\ headset' = InitialKind(jack)
    BY <1>3 DEF Restart
  <2>2. QED
    BY <2>1, KindsAreStates DEF JackInv, HeadsetIsKnown, RuleKind, DevicesTypeOK
<1>4. CASE ~Restart /\ UNCHANGED <<jack, jackCalls, headset>>
  BY <1>4, JackKept, RunsOnlyByRestart
<1>5. QED
  BY <1>1, <1>2, <1>3, <1>4
  DEF DevicesNext, CardEvent, MoveCard, HacSet, FocusMoves, LoadRTP, RtpSubscriptionReply,
      UnloadRTP, Connects, HangUp, PulseRestarts, dvars, deviceVars

LEMMA RouteStep == DevicesTypeOK /\ RouteInv /\ [DevicesNext]_dvars => RouteInv'
<1> SUFFICES ASSUME DevicesTypeOK, RouteInv, [DevicesNext]_dvars PROVE RouteInv'
  OBVIOUS
<1>1. ASSUME NEW sent \in BOOLEAN, HeadsetEvent(sent) PROVE RouteInv'
  BY <1>1 DEF HeadsetEvent, SetHeadsetState, SetHeadsetRoute, ProgramHeadsetRoute,
              RouteInv, DevicesTypeOK
<1>2. ASSUME NEW c \in Cards, NEW sent \in BOOLEAN, CardEvent(c, sent)
      PROVE  RouteInv'
  <2>1. UNCHANGED <<headset, stray>> /\ pulse'.route = pulse.route
    BY <1>2 DEF CardEvent, LoadUSBSinkSource, DevicesTypeOK
  <2>2. QED
    BY <2>1 DEF RouteInv
<1>3. ASSUME NEW loads \in BOOLEAN, LoadRTP(loads) PROVE RouteInv'
  BY <1>3 DEF LoadRTP, ProgramLoadRTP, RouteInv, DevicesTypeOK
<1>4. CASE UnloadRTP
  BY <1>4 DEF UnloadRTP, ProgramUnloadRTP, RouteInv, DevicesTypeOK
<1>5. CASE RtpSubscriptionReply
  BY <1>5 DEF RtpSubscriptionReply, RouteInv
<1>6. CASE HangUp \/ PulseRestarts \/ Restart
  BY <1>6 DEF HangUp, PulseRestarts, Restart, RouteInv
<1>7. CASE UNCHANGED <<headset, stray, pulse>>
  BY <1>7 DEF RouteInv
<1>8. QED
  BY <1>1, <1>2, <1>3, <1>4, <1>5, <1>6, <1>7
  DEF DevicesNext, MoveJack, MoveCard, HacSet, FocusMoves, Connects, dvars, deviceVars

LEMMA HeadsetInitially == DevicesInit => JackInv /\ RouteInv
BY KindsAreStates DEF DevicesInit, JackInv, HeadsetIsKnown, RouteInv, Init

\* A headset is known if and only if one is plugged in, once udev's calls have arrived,
\* whatever was lost while audiod was away (readInitialUdevHeadsetState).
THEOREM TheHeadsetIsKnown == DevicesSpec => []HeadsetIsKnown
<1>1. JackInv => HeadsetIsKnown
  BY DEF JackInv
<1>2. QED
  BY <1>1, HeadsetInitially, JackStep, DevicesTypes, PTL DEF DevicesSpec

\* PulseAudio's route is that of the headset from a command sent to the next one missed
\* (programHeadsetRoute).
THEOREM TheRouteIsTheHeadsets == DevicesSpec => []RouteFollowsHeadset
<1>1. RouteInv => RouteFollowsHeadset
  BY DEF RouteInv, RouteFollowsHeadset
<1>2. QED
  BY <1>1, HeadsetInitially, RouteStep, DevicesTypes, PTL DEF DevicesSpec
-----------------------------------------------------------------------------
(* USB sound cards.                                                        *)

\* The last call under way about a card tells whether it is there; with none under way,
\* and no command missing, PulseAudio has what is there.
CardInv ==
  \A c \in Cards :
    /\ cardCalls[c] # <<>> => (cardCalls[c][Len(cardCalls[c])] <=> c \in plugged)
    /\ c \notin missed /\ cardCalls[c] = <<>> => (c \in pulse.cards <=> c \in plugged)

\* A card of which nothing is said goes on as it was.
LEMMA CardsKept ==
  ASSUME CardInv, UNCHANGED <<plugged, cardCalls, missed>>, pulse'.cards = pulse.cards
  PROVE  CardInv'
BY DEF CardInv

LEMMA CardStep == DevicesTypeOK /\ CardInv /\ [DevicesNext]_dvars => CardInv'
<1> SUFFICES ASSUME DevicesTypeOK, CardInv, [DevicesNext]_dvars PROVE CardInv'
  OBVIOUS
<1>1. ASSUME NEW c \in Cards, MoveCard(c) PROVE CardInv'
  <2> SUFFICES ASSUME NEW d \in Cards
               PROVE  /\ cardCalls'[d] # <<>> =>
                           (cardCalls'[d][Len(cardCalls'[d])] <=> d \in plugged')
                      /\ d \notin missed' /\ cardCalls'[d] = <<>> =>
                           (d \in pulse'.cards <=> d \in plugged')
    BY DEF CardInv
  <2>1. CASE d # c
    <3>1. cardCalls'[d] = cardCalls[d] /\ (d \in plugged' <=> d \in plugged)
      BY <1>1, <2>1 DEF MoveCard, DevicesTypeOK
    <3>2. QED
      BY <1>1, <3>1 DEF MoveCard, CardInv
  <2>2. CASE d = c
    <3>1. /\ cardCalls'[c] = Append(cardCalls[c], c \notin plugged)
          /\ c \in plugged' <=> c \notin plugged
      BY <1>1 DEF MoveCard, DevicesTypeOK
    <3>2. cardCalls[c] \in Seq(BOOLEAN)
      BY DEF DevicesTypeOK
    <3>3. /\ cardCalls'[c] # <<>>
          /\ cardCalls'[c][Len(cardCalls'[c])] = (c \notin plugged)
      BY <3>1, <3>2
    <3>4. QED
      BY <2>2, <3>1, <3>3
  <2>3. QED
    BY <2>1, <2>2
<1>2. ASSUME NEW c \in Cards, NEW sent \in BOOLEAN, CardEvent(c, sent)
      PROVE  CardInv'
  <2> SUFFICES ASSUME NEW d \in Cards
               PROVE  /\ cardCalls'[d] # <<>> =>
                           (cardCalls'[d][Len(cardCalls'[d])] <=> d \in plugged')
                      /\ d \notin missed' /\ cardCalls'[d] = <<>> =>
                           (d \in pulse'.cards <=> d \in plugged')
    BY DEF CardInv
  <2>1. CASE d # c
    <3>1. cardCalls'[d] = cardCalls[d] /\ plugged' = plugged
      BY <1>2, <2>1 DEF CardEvent, DevicesTypeOK
    <3>2. missed' \in {missed, missed \cup {c}, missed \ {c}}
      BY <1>2 DEF CardEvent, LoadUSBSinkSource
    <3>3. pulse'.cards \in {pulse.cards, pulse.cards \cup {c}, pulse.cards \ {c}}
      BY <1>2 DEF CardEvent, LoadUSBSinkSource, DevicesTypeOK
    <3>4. QED
      BY <2>1, <3>1, <3>2, <3>3 DEF CardInv
  <2>2. CASE d = c
    <3>1. /\ cardCalls[c] \in Seq(BOOLEAN) /\ cardCalls[c] # <<>>
          /\ cardCalls'[c] = Tail(cardCalls[c]) /\ plugged' = plugged
      BY <1>2 DEF CardEvent, DevicesTypeOK
    <3>2. cardCalls'[c] # <<>> =>
            (cardCalls'[c][Len(cardCalls'[c])] <=> c \in plugged)
      <4>1. Len(cardCalls[c]) # 1 =>
              cardCalls'[c][Len(cardCalls'[c])] = cardCalls[c][Len(cardCalls[c])]
        BY <3>1, TailEndsAlike
      <4>2. Len(cardCalls[c]) = 1 => cardCalls'[c] = <<>>
        BY <3>1, TailOfOne
      <4>3. QED
        BY <3>1, <4>1, <4>2 DEF CardInv
    <3>3. c \notin missed' /\ cardCalls'[c] = <<>> =>
            (c \in pulse'.cards <=> c \in plugged)
      <4> SUFFICES ASSUME c \notin missed', cardCalls'[c] = <<>>
                   PROVE  c \in pulse'.cards <=> c \in plugged
        OBVIOUS
      <4>1. Len(cardCalls[c]) = 1
        BY <3>1, TailEndsAlike
      <4>2. Head(cardCalls[c]) <=> c \in plugged
        <5>1. Head(cardCalls[c]) = cardCalls[c][Len(cardCalls[c])]
          BY <3>1, <4>1, TailOfOne
        <5>2. QED
          BY <3>1, <5>1, Zenon DEF CardInv
      <4>3. Head(cardCalls[c]) \in BOOLEAN
        BY <3>1, Queues
      <4>4. PathCheck(c, Head(cardCalls[c]))
        <5>1. (c \in plugged) \in BOOLEAN
          OBVIOUS
        <5>2. (c \in plugged) = Head(cardCalls[c])
          BY <4>2, <4>3, <5>1, TrueAlike, Zenon
        <5>3. QED
          BY <5>2, Zenon DEF PathCheck
      <4>5. pulse' = [pulse EXCEPT !.cards = IF Head(cardCalls[c]) THEN @ \cup {c}
                                             ELSE @ \ {c}]
        BY <1>2, <4>4 DEF CardEvent, LoadUSBSinkSource
      <4>6. QED
        BY <4>2, <4>5 DEF DevicesTypeOK
    <3>4. QED
      BY <2>2, <3>1, <3>2, <3>3
  <2>3. QED
    BY <2>1, <2>2
<1>3. CASE HangUp \/ PulseRestarts
  <2>1. UNCHANGED <<plugged, cardCalls>> /\ missed' = Cards
    BY <1>3 DEF HangUp, PulseRestarts
  <2>2. QED
    BY <2>1 DEF CardInv
<1>4. ASSUME NEW sent \in BOOLEAN, HeadsetEvent(sent) PROVE CardInv'
  <2>1. pulse'.cards = pulse.cards
    BY <1>4 DEF HeadsetEvent, SetHeadsetState, SetHeadsetRoute, ProgramHeadsetRoute,
                DevicesTypeOK
  <2>2. QED
    BY <1>4, <2>1, CardsKept DEF HeadsetEvent
<1>5. ASSUME NEW loads \in BOOLEAN, LoadRTP(loads) PROVE CardInv'
  <2>1. pulse'.cards = pulse.cards
    BY <1>5 DEF LoadRTP, ProgramLoadRTP, DevicesTypeOK
  <2>2. QED
    BY <1>5, <2>1, CardsKept DEF LoadRTP
<1>6. CASE UnloadRTP
  <2>1. pulse'.cards = pulse.cards
    BY <1>6 DEF UnloadRTP, ProgramUnloadRTP, DevicesTypeOK
  <2>2. QED
    BY <1>6, <2>1, CardsKept DEF UnloadRTP
<1>7. CASE UNCHANGED <<plugged, cardCalls, missed, pulse>>
  BY <1>7, CardsKept
<1>8. QED
  BY <1>1, <1>2, <1>3, <1>4, <1>5, <1>6, <1>7
  DEF DevicesNext, MoveJack, HacSet, FocusMoves, RtpSubscriptionReply, Connects, Restart,
      dvars, deviceVars

\* PulseAudio has the cards that are plugged in, however often they came and went, once
\* the calls have arrived and unless a command is missing (loadUSBSinkSource).
THEOREM TheCardsAreThePlugs == DevicesSpec => []CardsFollowPlugs
<1>1. DevicesInit => CardInv
  BY DEF DevicesInit, CardInv, FreshPulse
<1>2. CardInv => CardsFollowPlugs
  BY DEF CardInv, CardsFollowPlugs
<1>3. QED
  BY <1>1, <1>2, CardStep, DevicesTypes, PTL DEF DevicesSpec

-----------------------------------------------------------------------------
(* RTP.                                                                    *)

\* What audiod takes for loaded is, or a failure is on its way; what is loaded it takes
\* for loaded, and the last answer on its way will not change that.
RtpInv ==
  /\ running /\ rtpLoaded =>
       connected /\ (pulse.rtp \/ \E i \in 1 .. Len(replies) : ~replies[i])
  /\ pulse.rtp /\ "rtp" \notin stray =>
       rtpLoaded /\ (replies # <<>> => replies[Len(replies)])

\* audiod loses its connection by a HangUp or by its own end.
LEMMA DisconnectedOnlyByFailure ==
  ASSUME [DevicesNext]_dvars, connected, ~connected'
  PROVE  HangUp \/ Restart
<1>1. [Next]_vars
  BY StepOfScenarios
<1>2. ~Next \/ Respawn \/ PulseGoneAway
  BY DEF Next, EnableScenario, DisableScenario, SetCurrentScenario, UnsetCurrentScenario,
         SetCurrentScenarioByPriority, MakeCurrent, RefreshRoute, ProgramAgain,
         AudioMixerConnected
<1>3. ~UNCHANGED vars /\ Next
  BY <1>1 DEF vars
<1>4. ASSUME NEW on \in BOOLEAN PROVE ~HacSet(on)
  BY DEF HacSet, DisableScenario, EnableScenario
<1>5. QED
  BY <1>3, <1>4 DEF DevicesNext, FocusMoves, MakeCurrent, LoadRTP, RtpSubscriptionReply,
     UnloadRTP, ProgramAgain, Connects, AudioMixerConnected, PulseRestarts,
     MoveJack, HeadsetEvent, CardEvent, MoveCard, dvars

\* Steps that concern neither RTP nor the connection.
LEMMA RtpKept ==
  ASSUME RtpInv, [DevicesNext]_dvars, ~HangUp, ~Restart,
         UNCHANGED <<rtpLoaded, replies>>, pulse'.rtp = pulse.rtp,
         "rtp" \in stray' <=> "rtp" \in stray
  PROVE  RtpInv'
<1>1. running' => running
  BY RunsOnlyByRestart
<1>2. connected => connected'
  BY DisconnectedOnlyByFailure
<1>3. QED
  BY <1>1, <1>2 DEF RtpInv

LEMMA RtpStep == DevicesTypeOK /\ RtpInv /\ [DevicesNext]_dvars => RtpInv'
<1> SUFFICES ASSUME DevicesTypeOK, RtpInv, [DevicesNext]_dvars PROVE RtpInv'
  OBVIOUS
<1>1. ASSUME NEW loads \in BOOLEAN, LoadRTP(loads) PROVE RtpInv'
  <2>1. /\ replies \in Seq(BOOLEAN) /\ replies' = Append(replies, loads)
        /\ connected' = connected /\ connected /\ ~rtpLoaded /\ rtpLoaded' = TRUE
        /\ stray' = stray
        /\ pulse'.rtp = (pulse.rtp \/ loads)
    BY <1>1 DEF LoadRTP, ProgramLoadRTP, DevicesTypeOK, vars
  <2>2. /\ replies' # <<>> /\ Len(replies') \in 1 .. Len(replies')
        /\ replies'[Len(replies')] = loads
    BY <2>1
  <2>3. QED
    BY <2>1, <2>2 DEF RtpInv
<1>2. CASE RtpSubscriptionReply
  <2>1. /\ replies \in Seq(BOOLEAN) /\ replies # <<>> /\ replies' = Tail(replies)
    BY <1>2, Zenon DEF RtpSubscriptionReply, DevicesTypeOK
  <2>6. UNCHANGED <<running, connected, pulse>>
    BY <1>2 DEF RtpSubscriptionReply, vars
  <2>7. Head(replies) = replies[1]
    BY <2>1, HeadTailProperties
  <2>8. rtpLoaded' <=> rtpLoaded /\ Head(replies)
    BY <1>2, Zenon DEF RtpSubscriptionReply
  <2>9. "rtp" \in stray' <=> "rtp" \in stray \/ (~Head(replies) /\ Len(replies) > 1)
    BY <1>2 DEF RtpSubscriptionReply
  <2>2. rtpLoaded' /\ (\E i \in 1 .. Len(replies) : ~replies[i]) =>
          \E i \in 1 .. Len(replies') : ~replies'[i]
    <3> SUFFICES ASSUME rtpLoaded', NEW i \in 1 .. Len(replies), ~replies[i]
                 PROVE  \E j \in 1 .. Len(replies') : ~replies'[j]
      OBVIOUS
    <3>1. i # 1
      BY <2>7, <2>8
    <3>2. /\ Len(replies') = Len(replies) - 1
          /\ \A j \in 1 .. Len(replies') : replies'[j] = replies[j+1]
      BY <2>1, HeadTailProperties
    <3>3. Len(replies) \in Nat
      BY <2>1, LenProperties
    <3>4. i - 1 \in 1 .. Len(replies') /\ (i - 1) + 1 = i
      BY <3>1, <3>2, <3>3
    <3>5. QED
      BY <3>2, <3>4
  <2>3. Len(replies) # 1 =>
          /\ replies' # <<>> /\ replies'[Len(replies')] = replies[Len(replies)]
          /\ Len(replies) > 1
    <3>1. Len(replies) \in Nat /\ Len(replies) # 0
      BY <2>1, EmptySeq, LenProperties
    <3>2. \A n \in Nat : n # 0 /\ n # 1 => n > 1
      OBVIOUS
    <3>3. Len(replies) # 1 => Len(replies) > 1
      BY <3>1, <3>2, Zenon
    <3>4. QED
      BY <2>1, <3>3, TailEndsAlike
  <2>4. Len(replies) = 1 => replies' = <<>>
    BY <2>1, TailOfOne
  <2>5. QED
    BY <2>1, <2>2, <2>3, <2>4, <2>6, <2>7, <2>8, <2>9 DEF RtpInv
<1>3. CASE UnloadRTP
  BY <1>3 DEF UnloadRTP, ProgramUnloadRTP, RtpInv, DevicesTypeOK
<1>4. CASE HangUp
  BY <1>4 DEF HangUp, FreshPulse, RtpInv
<1>5. CASE PulseRestarts
  BY <1>5 DEF PulseRestarts, FreshPulse, vars, RtpInv
<1>6. CASE Restart
  BY <1>6 DEF Restart, RtpInv
<1>7. ASSUME ~HangUp, ~Restart, NEW sent \in BOOLEAN, HeadsetEvent(sent) PROVE RtpInv'
  <2>1. pulse'.rtp = pulse.rtp /\ ("rtp" \in stray' <=> "rtp" \in stray)
    BY <1>7 DEF HeadsetEvent, SetHeadsetState, SetHeadsetRoute, ProgramHeadsetRoute,
                DevicesTypeOK
  <2>2. QED
    BY <1>7, <2>1, RtpKept DEF HeadsetEvent
<1>8. ASSUME ~HangUp, ~Restart, NEW c \in Cards, NEW sent \in BOOLEAN, CardEvent(c, sent)
      PROVE  RtpInv'
  <2>1. pulse'.rtp = pulse.rtp
    BY <1>8 DEF CardEvent, LoadUSBSinkSource, DevicesTypeOK
  <2>2. QED
    BY <1>8, <2>1, RtpKept DEF CardEvent
<1>9. CASE ~HangUp /\ ~Restart /\ UNCHANGED <<rtpLoaded, replies, pulse, stray>>
  BY <1>9, RtpKept
<1>10. QED
  BY <1>1, <1>2, <1>3, <1>4, <1>5, <1>6, <1>7, <1>8, <1>9
  DEF DevicesNext, MoveJack, MoveCard, HacSet, FocusMoves, Connects, dvars, deviceVars

\* With no answer on its way audiod takes for loaded only what is loaded, and forgets
\* what is only by a restart or the late failure of an earlier load
\* (rtpSubscriptionReply).
THEOREM RtpStaysKnown == DevicesSpec => []RtpIsKnown
<1>1. DevicesInit => RtpInv
  BY DEF DevicesInit, RtpInv, FreshPulse
<1>2. DevicesTypeOK /\ RtpInv => RtpIsKnown
  <2> SUFFICES ASSUME DevicesTypeOK, RtpInv PROVE RtpIsKnown
    OBVIOUS
  <2>1. replies = <<>> => ~ \E i \in 1 .. Len(replies) : ~replies[i]
    OBVIOUS
  <2>2. QED
    BY <2>1 DEF RtpInv, RtpIsKnown
<1>3. QED
  BY <1>1, <1>2, RtpStep, DevicesTypes, PTL DEF DevicesSpec
=============================================================================
