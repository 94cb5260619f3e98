--------------------------- MODULE Ringing_proofs ---------------------------
(***************************************************************************)
(* Theorems of CallFocus and of Ringing, which composes the ringtone with  *)
(* it, for any finite set of lines and any bound of the buzz.              *)
(*                                                                         *)
(* That phone keeps the focus while someone talks rests on the count of    *)
(* the lines being right, and that the last call leaves nothing behind on  *)
(* its end finding a count of 1 or less.  The second does not need the     *)
(* first: KnownInv is what holds while some calls are not counted, and     *)
(* CallInv, on top of it, what holds while all are.                        *)
(*                                                                         *)
(* A step of Ringing is one of CallFocus, or does not touch its variables, *)
(* or is the restart of audiod, after which KnownInv holds whatever the    *)
(* calls do, and CallInv if there are none.  CallInv comes back with the   *)
(* end of the last call (KnownWhenIdle).  RingInv is inductive of itself;  *)
(* RingIsHeard needs MuteLastsOneRing, for the ringtone that opens.        *)
(***************************************************************************)
EXTENDS Ringing, FiniteSetTheorems, TLAPS

-----------------------------------------------------------------------------
(* The calls.                                                              *)

Busy == {l \in Lines : line[l] # "idle"}

\* No more calls are counted than there are.
CountWithinCalls == numVoip <= Cardinality(Busy)

\* While mPhoneStatus is "disconnected" no call comes in or is active, and a current
\* media module is neither muted nor paused.
DisconnectedIsReset == phoneStatus = "disconnected" => (~incoming /\ ~onActiveCall)

MediaQuiet ==
  (focus = "media" /\ phoneStatus = "disconnected") => (~mediaMuted /\ ~savedPause)

IdleIsDisconnected == AllIdle => phoneStatus = "disconnected"

\* What holds also of calls that audiod has not been told of.
KnownInv ==
  /\ TypeOK
  /\ CountWithinCalls
  /\ FocusFollowsCall
  /\ DisconnectedIsReset
  /\ IdleIsDisconnected
  /\ MediaQuiet

StatusFollowsCount == numVoip = 0 <=> phoneStatus = "disconnected"

AnsweredIsActive == (\E l \in Lines : line[l] = "answered") => onActiveCall

\* What holds when it has been told of all.
CallInv ==
  /\ KnownInv
  /\ CallsAreCounted
  /\ AnsweredIsActive
  /\ StatusFollowsCount

-----------------------------------------------------------------------------
(* The lines that are not idle.                                            *)

\* The number of busy lines is a natural number, at most that of the lines.
LEMMA BusyIsFinite ==
  /\ IsFiniteSet(Busy)
  /\ Cardinality(Busy) \in Nat
  /\ Cardinality(Busy) <= Cardinality(Lines)
  /\ Cardinality(Lines) \in Nat
<1>1. IsFiniteSet(Lines) /\ Busy \subseteq Lines
  BY CallFocusAssumption DEF Busy
<1>2. QED
  BY <1>1, FS_Subset, FS_CardinalityType

\* A line that rings or dials (Incoming, Dialing) is one more.
LEMMA OneMore ==
  ASSUME TypeOK, NEW l \in Lines, line[l] = "idle",
         NEW v \in {"ringing", "dialing"}, line' = [line EXCEPT ![l] = v]
  PROVE  Cardinality(Busy') = Cardinality(Busy) + 1
<1>1. Busy' = Busy \cup {l}
  BY DEF Busy, TypeOK
<1>2. l \notin Busy
  BY DEF Busy
<1>3. QED
  BY <1>1, <1>2, BusyIsFinite, FS_AddElement

\* A line that is answered (Active) is still one of them.
LEMMA AsMany ==
  ASSUME TypeOK, NEW l \in Lines, line[l] # "idle",
         line' = [line EXCEPT ![l] = "answered"]
  PROVE  Busy' = Busy
BY DEF Busy, TypeOK

\* A line that hangs up (Disconnected) is one less, and the only one left is
\* the last.
LEMMA OneLess ==
  ASSUME TypeOK, NEW l \in Lines, line[l] # "idle",
         line' = [line EXCEPT ![l] = "idle"]
  PROVE  /\ Cardinality(Busy) > 0
         /\ Cardinality(Busy') = Cardinality(Busy) - 1
         /\ AllIdle' <=> Cardinality(Busy) = 1
<1>1. Busy' = Busy \ {l}
  BY DEF Busy, TypeOK
<1>2. l \in Busy
  BY DEF Busy
<1>3. Cardinality(Busy') = Cardinality(Busy) - 1
  BY <1>1, <1>2, BusyIsFinite, FS_RemoveElement
<1>4. Cardinality(Busy) > 0
  BY <1>2, BusyIsFinite, FS_EmptySet
<1>5. ASSUME Cardinality(Busy) = 1 PROVE AllIdle'
  <2>1. IsFiniteSet(Busy') /\ Cardinality(Busy') = 0
    BY <1>1, <1>3, <1>5, BusyIsFinite, FS_RemoveElement
  <2>2. Busy' = {}
    BY <2>1, FS_EmptySet
  <2>3. QED
    BY <2>2 DEF Busy, AllIdle
<1>6. ASSUME AllIdle' PROVE Cardinality(Busy) = 1
  <2>1. Busy' = {}
    BY <1>6 DEF Busy, AllIdle
  <2>2. Cardinality(Busy') = 0
    BY <2>1, FS_EmptySet
  <2>3. QED
    BY <1>3, <2>2, BusyIsFinite
<1>7. QED
  BY <1>3, <1>4, <1>5, <1>6

-----------------------------------------------------------------------------
(* The pieces of handlers return what their variables can hold.            *)

\* phoneStatusChanged leaves a flag a flag.
LEMMA PausedIsBoolean ==
  ASSUME TypeOK, NEW status, NEW p \in BOOLEAN
  PROVE  PausedBy(status, p) \in BOOLEAN
<1>1. CASE status = phoneStatus
  BY <1>1 DEF PausedBy
<1>2. CASE status # phoneStatus /\ status = "incoming"
  BY <1>2 DEF PausedBy
<1>3. CASE status # phoneStatus /\ status = "disconnected"
  BY <1>3 DEF PausedBy
<1>4. CASE status # phoneStatus /\ status \notin {"incoming", "disconnected"}
  BY <1>4 DEF PausedBy
<1>5. QED
  BY <1>1, <1>2, <1>3, <1>4

\* stopVvm changes vvm into media and nothing else, before a call or not.
LEMMA StopVvmType ==
  ASSUME TypeOK
  PROVE  /\ BeforeCall.focus \in {"media", "phone", "vvm"}
         /\ BeforeCall.vvm \in BOOLEAN
         /\ BeforeCall.muted \in BOOLEAN
         /\ BeforeCall.paused \in BOOLEAN
<1> DEFINE kept == [focus |-> focus, vvm |-> vvmActive, muted |-> mediaMuted,
                    paused |-> savedPause]
           left == [focus |-> "media", vvm |-> FALSE, muted |-> FALSE,
                    paused |-> FALSE]
<1>1. BeforeCall = kept \/ BeforeCall = left
  BY DEF BeforeCall, StopVvm
<1>2. /\ kept.focus = focus /\ kept.vvm = vvmActive
      /\ kept.muted = mediaMuted /\ kept.paused = savedPause
  OBVIOUS
<1>3. /\ left.focus = "media" /\ left.vvm = FALSE
      /\ left.muted = FALSE /\ left.paused = FALSE
  OBVIOUS
<1>4. CASE BeforeCall = kept
  <2> HIDE DEF kept
  <2>1. QED
    BY <1>2, <1>4, Zenon DEF TypeOK
<1>5. CASE BeforeCall = left
  <2> HIDE DEF left
  <2>1. QED
    BY <1>3, <1>5, Zenon DEF TypeOK
<1>6. QED
  BY <1>1, <1>4, <1>5

-----------------------------------------------------------------------------
(* The inductive invariants.                                               *)

\* The state ControlInterfaceInit leaves satisfies the invariant.
LEMMA InitCalls == Init => CallInv
<1> SUFFICES ASSUME Init PROVE CallInv
  OBVIOUS
<1>1. Busy = {}
  BY DEF Init, Busy
<1>2. Cardinality(Busy) = 0
  BY <1>1, FS_EmptySet
<1>3. CallsAreCounted /\ CountWithinCalls
  BY <1>2 DEF Init, Busy, CallsAreCounted, CountWithinCalls
<1>4. TypeOK
  <2>1. 0 \in 0 .. Cardinality(Lines)
    BY BusyIsFinite
  <2>2. line \in [Lines -> {"idle", "ringing", "dialing", "answered"}]
    BY DEF Init
  <2>3. QED
    BY <2>1, <2>2 DEF Init, TypeOK
<1>5. AnsweredIsActive
  BY DEF Init, AnsweredIsActive
<1>6. FocusFollowsCall /\ StatusFollowsCount /\ DisconnectedIsReset /\ MediaQuiet
  BY DEF Init, FocusFollowsCall, StatusFollowsCount, DisconnectedIsReset, MediaQuiet
<1>7. IdleIsDisconnected
  BY DEF Init, IdleIsDisconnected
<1>8. QED
  BY <1>3, <1>4, <1>5, <1>6, <1>7 DEF KnownInv, CallInv

\* A line that rings: the count goes up, vvm may give up the focus to media.
LEMMA KnownIncoming ==
  ASSUME KnownInv, NEW l \in Lines, Incoming(l)
  PROVE  KnownInv' /\ numVoip' > 0
<1>1. Cardinality(Busy') = Cardinality(Busy) + 1
  BY OneMore DEF Incoming, KnownInv
<1>2. numVoip <= Cardinality(Busy) /\ numVoip \in Nat /\ numVoip' = numVoip + 1
  BY BusyIsFinite DEF KnownInv, TypeOK, CountWithinCalls, Incoming
<1>3. CountWithinCalls' /\ numVoip' > 0
  BY <1>1, <1>2, BusyIsFinite DEF CountWithinCalls
<1>4. Cardinality(Busy') <= Cardinality(Lines) /\ Cardinality(Busy') \in Nat
  <2>1. IsFiniteSet(Lines) /\ Busy' \subseteq Lines
    BY CallFocusAssumption DEF Busy
  <2>2. QED
    BY <2>1, FS_Subset, FS_CardinalityType
<1>5. numVoip' \in 0 .. Cardinality(Lines)
  BY <1>1, <1>2, <1>4, BusyIsFinite
<1>6. TypeOK'
  <2>1. TypeOK
    BY DEF KnownInv
  <2>2. line' \in [Lines -> {"idle", "ringing", "dialing", "answered"}]
    BY <2>1 DEF TypeOK, Incoming
  <2>3. CASE onActiveCall
    BY <1>5, <2>1, <2>2, <2>3 DEF TypeOK, Incoming, mediaVars
  <2>4. CASE ~onActiveCall
    <3>1. PausedBy("incoming", BeforeCall.paused) \in BOOLEAN
      BY <2>1, StopVvmType, PausedIsBoolean
    <3>2. savedPause' \in BOOLEAN /\ phoneStatus' = "incoming"
      BY <2>4, <3>1 DEF Incoming, SetPhoneStatus
    <3>3. mediaMuted' \in BOOLEAN /\ vvmActive' \in BOOLEAN
      BY <2>1, <2>4, StopVvmType DEF TypeOK, Incoming
    <3>4. focus' \in {"media", "phone", "vvm"}
      BY <2>1, <2>4, StopVvmType DEF Incoming
    <3>5. incoming' \in BOOLEAN /\ onActiveCall' \in BOOLEAN /\ ringerOn' \in BOOLEAN
      BY <2>1, <2>4 DEF TypeOK, Incoming
    <3>6. QED
      BY <1>5, <2>2, <3>2, <3>3, <3>4, <3>5 DEF TypeOK
  <2>5. QED
    BY <2>3, <2>4
<1>7. FocusFollowsCall'
  BY DEF KnownInv, FocusFollowsCall, Incoming, BeforeCall, StopVvm
<1>8. phoneStatus' # "disconnected"
  BY DEF KnownInv, DisconnectedIsReset, Incoming, SetPhoneStatus
<1>9. line'[l] = "ringing"
  BY DEF KnownInv, TypeOK, Incoming
<1>10. DisconnectedIsReset' /\ MediaQuiet' /\ IdleIsDisconnected'
  BY <1>8, <1>9 DEF DisconnectedIsReset, MediaQuiet, IdleIsDisconnected, AllIdle
<1>11. QED
  BY <1>3, <1>6, <1>7, <1>10 DEF KnownInv

\* If all calls are counted before, so are they after, and if all that talk are
\* known to be active.
LEMMA StepIncoming ==
  ASSUME CallInv, NEW l \in Lines, Incoming(l)
  PROVE  CallInv'
<1>1. KnownInv' /\ numVoip' > 0
  BY KnownIncoming DEF CallInv
<1>2. CallsAreCounted'
  <2>1. Cardinality(Busy') = Cardinality(Busy) + 1
    BY OneMore DEF Incoming, CallInv, KnownInv
  <2>2. numVoip = Cardinality(Busy) /\ numVoip' = numVoip + 1
    BY DEF CallInv, CallsAreCounted, Busy, Incoming
  <2>3. QED
    BY <2>1, <2>2 DEF CallsAreCounted, Busy
<1>3. AnsweredIsActive'
  BY DEF CallInv, KnownInv, TypeOK, AnsweredIsActive, Incoming
<1>4. StatusFollowsCount'
  BY <1>1 DEF CallInv, KnownInv, StatusFollowsCount, DisconnectedIsReset, Incoming,
              SetPhoneStatus
<1>5. QED
  BY <1>1, <1>2, <1>3, <1>4 DEF CallInv

\* A line that dials: the count goes up, phone gets the focus.
LEMMA KnownDialing ==
  ASSUME KnownInv, NEW l \in Lines, Dialing(l)
  PROVE  KnownInv' /\ numVoip' > 0
<1>1. Cardinality(Busy') = Cardinality(Busy) + 1
  BY OneMore DEF Dialing, KnownInv
<1>2. numVoip <= Cardinality(Busy) /\ numVoip \in Nat /\ numVoip' = numVoip + 1
  BY BusyIsFinite DEF KnownInv, TypeOK, CountWithinCalls, Dialing
<1>3. CountWithinCalls' /\ numVoip' > 0
  BY <1>1, <1>2, BusyIsFinite DEF CountWithinCalls
<1>4. Cardinality(Busy') <= Cardinality(Lines) /\ Cardinality(Busy') \in Nat
  <2>1. IsFiniteSet(Lines) /\ Busy' \subseteq Lines
    BY CallFocusAssumption DEF Busy
  <2>2. QED
    BY <2>1, FS_Subset, FS_CardinalityType
<1>5. numVoip' \in 0 .. Cardinality(Lines)
  BY <1>1, <1>2, <1>4, BusyIsFinite
<1>6. TypeOK'
  <2>1. TypeOK
    BY DEF KnownInv
  <2>2. line' \in [Lines -> {"idle", "ringing", "dialing", "answered"}]
    BY <2>1 DEF TypeOK, Dialing, SetOnActiveCall
  <2>3. CASE onActiveCall
    BY <1>5, <2>1, <2>2, <2>3 DEF TypeOK, Dialing, mediaVars
  <2>4. CASE ~onActiveCall
    <3>1. PausedBy("dialing", BeforeCall.paused) \in BOOLEAN
      BY <2>1, StopVvmType, PausedIsBoolean
    <3>2. savedPause' \in BOOLEAN /\ phoneStatus' = "dialing"
      BY <2>4, <3>1 DEF Dialing, SetOnActiveCall, SetPhoneStatus
    <3>3. mediaMuted' \in BOOLEAN /\ vvmActive' \in BOOLEAN
      BY <2>1, <2>4, StopVvmType DEF TypeOK, Dialing, SetOnActiveCall
    <3>4. focus' \in {"media", "phone", "vvm"}
      BY <2>1, <2>4, StopVvmType DEF Dialing, SetOnActiveCall
    <3>5. incoming' \in BOOLEAN /\ onActiveCall' \in BOOLEAN /\ ringerOn' \in BOOLEAN
      BY <2>1, <2>4 DEF TypeOK, Dialing, SetOnActiveCall
    <3>6. QED
      BY <1>5, <2>2, <3>2, <3>3, <3>4, <3>5 DEF TypeOK
  <2>5. QED
    BY <2>3, <2>4
<1>7. FocusFollowsCall'
  BY DEF KnownInv, FocusFollowsCall, Dialing, SetOnActiveCall
<1>8. phoneStatus' # "disconnected"
  BY DEF KnownInv, DisconnectedIsReset, Dialing, SetOnActiveCall, SetPhoneStatus
<1>9. line'[l] = "dialing"
  BY DEF KnownInv, TypeOK, Dialing
<1>10. DisconnectedIsReset' /\ MediaQuiet' /\ IdleIsDisconnected'
  BY <1>8, <1>9 DEF DisconnectedIsReset, MediaQuiet, IdleIsDisconnected, AllIdle
<1>11. QED
  BY <1>3, <1>6, <1>7, <1>10 DEF KnownInv

LEMMA StepDialing ==
  ASSUME CallInv, NEW l \in Lines, Dialing(l)
  PROVE  CallInv'
<1>1. KnownInv' /\ numVoip' > 0
  BY KnownDialing DEF CallInv
<1>2. CallsAreCounted'
  <2>1. Cardinality(Busy') = Cardinality(Busy) + 1
    BY OneMore DEF Dialing, CallInv, KnownInv
  <2>2. numVoip = Cardinality(Busy) /\ numVoip' = numVoip + 1
    BY DEF CallInv, CallsAreCounted, Busy, Dialing
  <2>3. QED
    BY <2>1, <2>2 DEF CallsAreCounted, Busy
<1>3. AnsweredIsActive'
  BY DEF CallInv, KnownInv, TypeOK, AnsweredIsActive, Dialing, SetOnActiveCall
<1>4. StatusFollowsCount'
  BY <1>1 DEF CallInv, KnownInv, StatusFollowsCount, DisconnectedIsReset, Dialing,
              SetOnActiveCall, SetPhoneStatus
<1>5. QED
  BY <1>1, <1>2, <1>3, <1>4 DEF CallInv

\* A line that is answered: the count stays, phone gets the focus.
LEMMA KnownActive ==
  ASSUME KnownInv, NEW l \in Lines, Active(l)
  PROVE  KnownInv' /\ Busy' = Busy
<1>1. Busy' = Busy
  BY AsMany DEF Active, KnownInv
<1>2. CountWithinCalls'
  BY <1>1 DEF KnownInv, CountWithinCalls, Active
<1>3. TypeOK'
  <2>1. TypeOK
    BY DEF KnownInv
  <2>2. line' \in [Lines -> {"idle", "ringing", "dialing", "answered"}]
    BY <2>1 DEF TypeOK, Active, SetOnActiveCall
  <2>3. CASE onActiveCall
    BY <2>1, <2>2, <2>3 DEF TypeOK, Active, mediaVars
  <2>4. CASE ~onActiveCall
    <3>1. PausedBy("connected", savedPause) \in BOOLEAN
      BY <2>1, PausedIsBoolean DEF TypeOK
    <3>2. savedPause' \in BOOLEAN /\ phoneStatus' = "connected"
      BY <2>4, <3>1 DEF Active, SetOnActiveCall, SetPhoneStatus
    <3>3. QED
      BY <2>1, <2>2, <2>4, <3>2 DEF TypeOK, Active, SetOnActiveCall
  <2>5. QED
    BY <2>3, <2>4
<1>4. FocusFollowsCall'
  BY DEF KnownInv, FocusFollowsCall, Active, SetOnActiveCall
<1>5. phoneStatus' # "disconnected"
  BY DEF KnownInv, DisconnectedIsReset, Active, SetOnActiveCall, SetPhoneStatus
<1>6. line'[l] = "answered"
  BY DEF KnownInv, TypeOK, Active
<1>7. DisconnectedIsReset' /\ MediaQuiet' /\ IdleIsDisconnected'
  BY <1>5, <1>6 DEF DisconnectedIsReset, MediaQuiet, IdleIsDisconnected, AllIdle
<1>8. QED
  BY <1>1, <1>2, <1>3, <1>4, <1>7 DEF KnownInv

LEMMA StepActive ==
  ASSUME CallInv, NEW l \in Lines, Active(l)
  PROVE  CallInv'
<1>1. KnownInv' /\ Busy' = Busy
  BY KnownActive DEF CallInv
<1>2. numVoip = Cardinality(Busy) /\ numVoip' = numVoip
  BY DEF CallInv, CallsAreCounted, Busy, Active
<1>3. CallsAreCounted'
  BY <1>1, <1>2 DEF CallsAreCounted, Busy
<1>4. l \in Busy
  BY DEF Busy, Active
<1>5. numVoip' > 0
  BY <1>2, <1>4, BusyIsFinite, FS_EmptySet
<1>6. AnsweredIsActive'
  BY DEF CallInv, AnsweredIsActive, Active, SetOnActiveCall
<1>7. StatusFollowsCount'
  BY <1>2, <1>5
  DEF CallInv, KnownInv, StatusFollowsCount, DisconnectedIsReset, Active,
      SetOnActiveCall, SetPhoneStatus
<1>8. QED
  BY <1>1, <1>3, <1>6, <1>7 DEF CallInv

\* A line that hangs up: only the last resets what the calls had set, and the last that
\* is counted is taken for it.
LEMMA KnownDisconnected ==
  ASSUME KnownInv, NEW l \in Lines, Disconnected(l)
  PROVE  KnownInv'
<1>1. /\ Cardinality(Busy) > 0
      /\ Cardinality(Busy') = Cardinality(Busy) - 1
      /\ AllIdle' => Cardinality(Busy) = 1
  BY OneLess DEF Disconnected, KnownInv
<1>2. numVoip <= Cardinality(Busy) /\ numVoip \in Nat /\ numVoip' = CallsLeft
  BY BusyIsFinite DEF KnownInv, TypeOK, CountWithinCalls, Disconnected
<1>3. CallsLeft <= Cardinality(Busy) - 1 /\ CallsLeft \in Nat
  BY <1>1, <1>2, BusyIsFinite DEF CallsLeft
<1>4. CountWithinCalls'
  BY <1>1, <1>2, <1>3 DEF CountWithinCalls
<1>5. TypeOK'
  <2>1. TypeOK
    BY DEF KnownInv
  <2>2. line' \in [Lines -> {"idle", "ringing", "dialing", "answered"}]
    BY <2>1 DEF TypeOK, Disconnected, SetOnActiveCall
  <2>3. numVoip' \in 0 .. Cardinality(Lines)
    BY <1>1, <1>2, <1>3, BusyIsFinite
  <2>4. CASE CallsLeft > 0
    BY <2>1, <2>2, <2>3, <2>4 DEF TypeOK, Disconnected, mediaVars
  <2>5. CASE ~(CallsLeft > 0)
    <3>1. PausedBy("disconnected", savedPause) \in BOOLEAN
      BY <2>1, PausedIsBoolean DEF TypeOK
    <3>2. savedPause' \in BOOLEAN /\ phoneStatus' = "disconnected"
      BY <2>5, <3>1 DEF Disconnected, SetOnActiveCall, SetPhoneStatus
    <3>3. QED
      BY <2>1, <2>2, <2>3, <2>5, <3>2 DEF TypeOK, Disconnected, SetOnActiveCall
  <2>6. QED
    BY <2>4, <2>5
<1>6. FocusFollowsCall'
  BY DEF KnownInv, FocusFollowsCall, Disconnected, SetOnActiveCall
<1>7. CASE CallsLeft > 0
  <2>1. ~AllIdle'
    BY <1>1, <1>3, <1>7, BusyIsFinite
  <2>2. DisconnectedIsReset' /\ MediaQuiet'
    BY <1>7 DEF KnownInv, DisconnectedIsReset, MediaQuiet, Disconnected, mediaVars
  <2>3. QED
    BY <1>4, <1>5, <1>6, <2>1, <2>2 DEF KnownInv, IdleIsDisconnected
<1>8. CASE ~(CallsLeft > 0)
  <2>1. DisconnectedIsReset' /\ IdleIsDisconnected'
    BY <1>8 DEF DisconnectedIsReset, IdleIsDisconnected, Disconnected,
                SetOnActiveCall, SetPhoneStatus
  <2>2. MediaQuiet'
    <3>1. CASE phoneStatus = "disconnected"
      BY <1>8, <3>1
      DEF KnownInv, DisconnectedIsReset, MediaQuiet, Disconnected, SetOnActiveCall,
          SetPhoneStatus, PausedBy
    <3>2. CASE phoneStatus # "disconnected"
      BY <1>8, <3>2
      DEF MediaQuiet, Disconnected, SetOnActiveCall, SetPhoneStatus, PausedBy
    <3>3. QED
      BY <3>1, <3>2
  <2>3. QED
    BY <1>4, <1>5, <1>6, <2>1, <2>2 DEF KnownInv
<1>9. QED
  BY <1>7, <1>8

LEMMA StepDisconnected ==
  ASSUME CallInv, NEW l \in Lines, Disconnected(l)
  PROVE  CallInv'
<1>1. KnownInv'
  BY KnownDisconnected DEF CallInv
<1>2. /\ Cardinality(Busy) > 0
      /\ Cardinality(Busy') = Cardinality(Busy) - 1
      /\ Cardinality(Busy) = 1 => AllIdle'
  BY OneLess DEF Disconnected, CallInv, KnownInv
<1>3. numVoip = Cardinality(Busy) /\ numVoip' = CallsLeft
  BY DEF CallInv, CallsAreCounted, Busy, Disconnected
<1>4. CallsLeft = numVoip - 1 /\ numVoip \in Nat
  BY <1>2, <1>3, BusyIsFinite DEF CallsLeft
<1>5. CallsAreCounted'
  BY <1>2, <1>3, <1>4 DEF CallsAreCounted, Busy
<1>6. CASE CallsLeft > 0
  <2>1. AnsweredIsActive'
    BY <1>6 DEF CallInv, KnownInv, TypeOK, AnsweredIsActive, Disconnected, SetOnActiveCall
  <2>2. StatusFollowsCount'
    BY <1>3, <1>4, <1>6 DEF CallInv, StatusFollowsCount, Disconnected
  <2>3. QED
    BY <1>1, <1>5, <2>1, <2>2 DEF CallInv
<1>7. CASE ~(CallsLeft > 0)
  <2>1. numVoip = 1 /\ numVoip' = 0 /\ AllIdle'
    BY <1>2, <1>3, <1>4, <1>7
  <2>2. AnsweredIsActive'
    BY <2>1 DEF AnsweredIsActive, AllIdle
  <2>3. StatusFollowsCount'
    BY <1>7, <2>1 DEF StatusFollowsCount, Disconnected, SetOnActiveCall, SetPhoneStatus
  <2>4. QED
    BY <1>1, <1>5, <2>2, <2>3 DEF CallInv
<1>8. QED
  BY <1>6, <1>7

\* vvm takes the focus from media only, gives it back to media only, and the
\* lines are not touched.
LEMMA KnownVvm ==
  ASSUME KnownInv, StartVvm \/ EndVvm \/ SwitchRinger
  PROVE  KnownInv' /\ UNCHANGED <<line, callVars>>
<1>1. UNCHANGED <<line, callVars>>
  BY DEF StartVvm, EndVvm, SwitchRinger
<1>2. CountWithinCalls' /\ DisconnectedIsReset' /\ IdleIsDisconnected'
  BY <1>1 DEF KnownInv, callVars, CountWithinCalls, Busy, DisconnectedIsReset,
              IdleIsDisconnected, AllIdle
<1>3. TypeOK'
  <2>1. CASE StartVvm
    BY <2>1 DEF KnownInv, TypeOK, callVars, StartVvm
  <2>2. CASE EndVvm
    BY <2>2 DEF KnownInv, TypeOK, callVars, EndVvm, StopVvm
  <2>3. CASE SwitchRinger
    BY <2>3 DEF KnownInv, TypeOK, callVars, mediaVars, SwitchRinger
  <2>4. QED
    BY <2>1, <2>2, <2>3
<1>4. FocusFollowsCall'
  BY <1>1 DEF KnownInv, FocusFollowsCall, callVars, StartVvm, EndVvm, SwitchRinger, StopVvm
<1>5. MediaQuiet'
  BY <1>1 DEF KnownInv, MediaQuiet, callVars, mediaVars, StartVvm, EndVvm,
              SwitchRinger, StopVvm
<1>6. QED
  BY <1>1, <1>2, <1>3, <1>4, <1>5 DEF KnownInv

\* Every step keeps either invariant.
LEMMA NextKnown == KnownInv /\ [Next]_vars => KnownInv'
<1> SUFFICES ASSUME KnownInv, [Next]_vars PROVE KnownInv'
  OBVIOUS
<1>1. ASSUME NEW l \in Lines, CallStatusUpdate(l)
      PROVE  KnownInv'
  <2>1. Incoming(l) \/ Dialing(l) \/ Active(l) \/ Disconnected(l)
    BY <1>1 DEF CallStatusUpdate
  <2>2. QED
    BY <2>1, KnownIncoming, KnownDialing, KnownActive, KnownDisconnected
<1>2. CASE StartVvm \/ EndVvm \/ SwitchRinger
  BY <1>2, KnownVvm
<1>3. CASE UNCHANGED vars
  BY <1>3 DEF vars, KnownInv, TypeOK, CountWithinCalls, Busy, FocusFollowsCall,
              DisconnectedIsReset, IdleIsDisconnected, AllIdle, MediaQuiet
<1>4. QED
  BY <1>1, <1>2, <1>3 DEF Next

LEMMA NextCalls == CallInv /\ [Next]_vars => CallInv'
<1> SUFFICES ASSUME CallInv, [Next]_vars PROVE CallInv'
  OBVIOUS
<1>1. ASSUME NEW l \in Lines, CallStatusUpdate(l)
      PROVE  CallInv'
  <2>1. Incoming(l) \/ Dialing(l) \/ Active(l) \/ Disconnected(l)
    BY <1>1 DEF CallStatusUpdate
  <2>2. QED
    BY <2>1, StepIncoming, StepDialing, StepActive, StepDisconnected
<1>2. ASSUME UNCHANGED <<line, callVars>> PROVE CallInv'
  <2>1. KnownInv'
    BY NextKnown DEF CallInv
  <2>2. CallsAreCounted' /\ AnsweredIsActive' /\ StatusFollowsCount'
    BY <1>2 DEF CallInv, callVars, CallsAreCounted, AnsweredIsActive, StatusFollowsCount
  <2>3. QED
    BY <2>1, <2>2 DEF CallInv
<1>3. CASE StartVvm \/ EndVvm \/ SwitchRinger
  BY <1>2, <1>3, KnownVvm DEF CallInv
<1>4. CASE UNCHANGED vars
  BY <1>2, <1>4 DEF vars, callVars
<1>5. QED
  BY <1>1, <1>3, <1>4 DEF Next

\* The invariant holds in every state.
LEMMA CallInvariant == Spec => []CallInv
BY InitCalls, NextCalls, PTL DEF Spec

-----------------------------------------------------------------------------
(* The theorems.                                                           *)

\* The variables of state.cpp, vvm.cpp and media.cpp keep their types; in
\* particular mNumVoip never exceeds the lines.
THEOREM CallTypes == Spec => []TypeOK
<1>1. CallInv => TypeOK
  BY DEF CallInv, KnownInv
<1>2. QED
  BY <1>1, CallInvariant, PTL

\* mNumVoip of setCallMode is the number of lines that are not idle.
THEOREM CountIsRight == Spec => []CallsAreCounted
<1>1. CallInv => CallsAreCounted
  BY DEF CallInv, KnownInv
<1>2. QED
  BY <1>1, CallInvariant, PTL

\* Someone who talks is heard through phone, with any number of lines ringing,
\* dialing and hanging up and with vvm started and stopped in any order.
THEOREM TalkerIsHeard == Spec => []AnsweredCallHasFocus
<1>1. CallInv => AnsweredCallHasFocus
  BY DEF CallInv, KnownInv, AnsweredCallHasFocus, AnsweredIsActive, FocusFollowsCall
<1>2. QED
  BY <1>1, CallInvariant, PTL

\* phone has the focus exactly while mOnActiveCall is set.
THEOREM PhoneIffCall == Spec => []FocusFollowsCall
<1>1. CallInv => FocusFollowsCall
  BY DEF CallInv, KnownInv
<1>2. QED
  BY <1>1, CallInvariant, PTL

\* The end of the last call leaves no mute, no pause and no incoming call.
THEOREM NothingLeftBehind == Spec => []QuietAfterCalls
<1>1. CallInv => QuietAfterCalls
  BY DEF CallInv, KnownInv, QuietAfterCalls, IdleIsDisconnected, DisconnectedIsReset,
         MediaQuiet
<1>2. QED
  BY <1>1, CallInvariant, PTL

\* No step but the end of the last call takes the focus from phone.
THEOREM OnlyTheLastReleases == Spec => PhoneKeepsFocus
<1> DEFINE Kept == focus = "phone" /\ focus' # "phone" => AllIdle'
<1>1. CallInv /\ [Next]_vars => [Kept]_vars
  <2> SUFFICES ASSUME CallInv, Next, focus = "phone", focus' # "phone"
               PROVE  AllIdle'
    BY DEF vars
  <2>1. onActiveCall
    BY DEF CallInv, KnownInv, FocusFollowsCall
  <2>2. ~StartVvm /\ ~EndVvm /\ ~SwitchRinger
    BY DEF StartVvm, EndVvm, SwitchRinger, StopVvm
  <2>3. PICK l \in Lines : Incoming(l) \/ Dialing(l) \/ Active(l) \/ Disconnected(l)
    BY <2>2 DEF Next, CallStatusUpdate
  <2>4. Disconnected(l) /\ ~(CallsLeft > 0)
    BY <2>1, <2>3 DEF Incoming, Dialing, Active, Disconnected, SetOnActiveCall
  <2>5. /\ Cardinality(Busy) > 0
        /\ Cardinality(Busy) = 1 => AllIdle'
    BY <2>4, OneLess DEF Disconnected, CallInv, KnownInv
  <2>6. numVoip = Cardinality(Busy)
    BY DEF CallInv, CallsAreCounted, Busy
  <2>7. numVoip = 1
    BY <2>4, <2>5, <2>6, BusyIsFinite DEF CallsLeft
  <2>8. QED
    BY <2>5, <2>6, <2>7
<1>2. QED
  BY <1>1, CallInvariant, PTL DEF Spec, PhoneKeepsFocus

-----------------------------------------------------------------------------
(* The composition.                                                        *)

RingInv == RingTypeOK /\ RingIsHeard /\ MuteLastsOneRing /\ VibrationFollowsRing

-----------------------------------------------------------------------------
(* The calls within the composition.                                       *)

\* Once all calls are over, those that audiod has not counted make no difference.
LEMMA KnownWhenIdle == KnownInv /\ AllIdle => CallInv
<1> SUFFICES ASSUME KnownInv, AllIdle PROVE CallInv
  OBVIOUS
<1>1. Busy = {}
  BY DEF Busy, AllIdle
<1>2. Cardinality(Busy) = 0
  BY <1>1, FS_EmptySet
<1>3. numVoip = 0
  BY <1>2, BusyIsFinite DEF KnownInv, TypeOK, CountWithinCalls
<1>4. CallsAreCounted
  BY <1>2, <1>3 DEF CallsAreCounted, Busy
<1>5. AnsweredIsActive
  BY DEF AnsweredIsActive, AllIdle
<1>6. StatusFollowsCount
  BY <1>3 DEF KnownInv, IdleIsDisconnected, StatusFollowsCount
<1>7. QED
  BY <1>4, <1>5, <1>6 DEF CallInv

RingCallInv == KnownInv /\ (~outlived => CallInv)

\* A restart forgets the calls, whatever has become of them; if none is left, audiod
\* knows that.
LEMMA RespawnCalls ==
  ASSUME KnownInv, Respawn
  PROVE  RingCallInv'
<1>1. Cardinality(Busy') \in Nat
  <2>1. IsFiniteSet(Lines) /\ Busy' \subseteq Lines
    BY CallFocusAssumption DEF Busy
  <2>2. QED
    BY <2>1, FS_Subset, FS_CardinalityType
<1>2. /\ numVoip' = 0 /\ onActiveCall' = FALSE /\ incoming' = FALSE
      /\ phoneStatus' = "disconnected" /\ focus' = "media"
      /\ vvmActive' = FALSE /\ mediaMuted' = FALSE /\ savedPause' = FALSE
      /\ line' \in [Lines -> {"idle", "ringing", "dialing", "answered"}]
      /\ ringerOn' = ringerOn
  BY DEF Respawn
<1>3. numVoip' \in 0 .. Cardinality(Lines)
  BY <1>2, BusyIsFinite
<1>4. TypeOK'
  BY <1>2, <1>3 DEF KnownInv, TypeOK
<1>5. CountWithinCalls'
  BY <1>1, <1>2 DEF CountWithinCalls
<1>6. FocusFollowsCall' /\ DisconnectedIsReset' /\ IdleIsDisconnected' /\ MediaQuiet'
  BY <1>2 DEF FocusFollowsCall, DisconnectedIsReset, IdleIsDisconnected, MediaQuiet
<1>7. KnownInv'
  BY <1>4, <1>5, <1>6 DEF KnownInv
<1>8. KnownInv' /\ AllIdle' => CallInv'
  BY KnownWhenIdle, PTL
<1>9. ~outlived' => AllIdle'
  BY DEF Respawn
<1>10. QED
  BY <1>7, <1>8, <1>9 DEF RingCallInv

\* Any other step is one of CallFocus, or leaves its variables alone.
LEMMA RingStepIsCallStep ==
  ASSUME [RingNext]_rvars, ~Respawn
  PROVE  [Next]_vars
BY DEF RingNext, rvars, Next, RingtoneOpens, SpeechOpens, LastStreamClosed, Mute,
       SetUnmuted, OtherCancels, PlugHeadset, CallStep, VvmStep, RingerStep,
       ProgramSoftwareMixer, FakeBuzz

\* It takes the end of all calls to be rid of those that audiod has not counted.
LEMMA OutlivedUntilIdle ==
  ASSUME [RingNext]_rvars, ~Respawn, ~outlived'
  PROVE  ~outlived \/ AllIdle'
<1>1. outlived' = outlived \/ outlived' = (outlived /\ ~AllIdle')
  BY DEF RingNext, rvars, ringVars, RingtoneOpens, SpeechOpens, LastStreamClosed, Mute,
         SetUnmuted, OtherCancels, PlugHeadset, CallStep, VvmStep, RingerStep,
         ProgramSoftwareMixer, FakeBuzz
<1>2. QED
  BY <1>1

LEMMA RingCallsStep == RingCallInv /\ [RingNext]_rvars => RingCallInv'
<1> SUFFICES ASSUME RingCallInv, [RingNext]_rvars PROVE RingCallInv'
  OBVIOUS
<1>1. CASE Respawn
  BY <1>1, RespawnCalls DEF RingCallInv
<1>2. CASE ~Respawn
  <2>1. [Next]_vars
    BY <1>2, RingStepIsCallStep
  <2>2. KnownInv'
    BY <2>1, NextKnown DEF RingCallInv
  <2>3. KnownInv' /\ AllIdle' => CallInv'
    BY KnownWhenIdle, PTL
  <2>4. ASSUME ~outlived' PROVE CallInv'
    <3>1. CASE AllIdle'
      BY <2>2, <2>3, <3>1
    <3>2. CASE ~outlived
      BY <2>1, <3>2, NextCalls DEF RingCallInv
    <3>3. QED
      BY <1>2, <2>4, <3>1, <3>2, OutlivedUntilIdle
  <2>5. QED
    BY <2>2, <2>4 DEF RingCallInv
<1>3. QED
  BY <1>1, <1>2

\* The invariants of the calls hold of the composition.
LEMMA RingCallsAlways == RingSpec => []RingCallInv
<1>1. RingInit => RingCallInv
  BY InitCalls DEF RingInit, RingCallInv, CallInv
<1>2. QED
  BY <1>1, RingCallsStep, PTL DEF RingSpec

\* mNumVoip is right across everything that happens around the calls, but for those that
\* are older than audiod; and it is never more than the calls there are.
THEOREM CallsCountedWhileRinging == RingSpec => [](CountWithinCalls /\ (~outlived => CallsAreCounted))
<1>1. RingCallInv => CountWithinCalls /\ (~outlived => CallsAreCounted)
  BY DEF RingCallInv, KnownInv, CallInv
<1>2. QED
  BY <1>1, RingCallsAlways, PTL

\* Someone who talks is heard through phone, over any number of restarts of audiod, until
\* one of them comes in the middle of a call, and again after the last call that was then
\* under way or began before it was over (setCallMode, respawn).
THEOREM TalkerIsHeardWhileRinging == RingSpec => []TalkerHasFocus
<1>1. RingCallInv => TalkerHasFocus
  BY DEF RingCallInv, KnownInv, CallInv, AnsweredIsActive, FocusFollowsCall,
         TalkerHasFocus, AnsweredCallHasFocus
<1>2. QED
  BY <1>1, RingCallsAlways, PTL

\* Nothing that a call mutes or pauses stays so when the last has ended, also for calls
\* that are older than audiod and are not counted.
THEOREM NothingLeftByTheRing == RingSpec => []QuietAfterCalls
<1>1. RingCallInv => QuietAfterCalls
  BY DEF RingCallInv, KnownInv, QuietAfterCalls, IdleIsDisconnected,
         DisconnectedIsReset, MediaQuiet
<1>2. QED
  BY <1>1, RingCallsAlways, PTL

-----------------------------------------------------------------------------
(* The ringtone.                                                           *)

LEMMA RingInitially == RingInit => RingInv
<1> SUFFICES ASSUME RingInit PROVE RingInv
  OBVIOUS
<1>1. TypeOK
  BY InitCalls DEF RingInit, CallInv, KnownInv
<1>2. buzzes \in 0 .. MaxBuzzes
  BY RingingAssumption DEF RingInit
<1>3. playing = {} /\ ~muted /\ ~vibrating /\ ~buzzing
  BY DEF RingInit
<1>4. RingTypeOK
  BY <1>1, <1>2 DEF RingInit, RingTypeOK
<1>5. QED
  BY <1>3, <1>4 DEF RingInv, RingIsHeard, MuteLastsOneRing, VibrationFollowsRing

\* CancelVibrate and Vibrates leave flags and a count within its bound.
LEMMA CancelTypes ==
  ASSUME RingTypeOK, CancelVibrate
  PROVE  vibrating' = FALSE /\ buzzing' = FALSE /\ buzzes' \in 0 .. MaxBuzzes
BY DEF RingTypeOK, CancelVibrate

LEMMA VibratesTypes ==
  ASSUME RingTypeOK, NEW allows \in BOOLEAN, NEW soft \in BOOLEAN,
         Vibrates(allows, soft)
  PROVE  vibrating' \in BOOLEAN /\ buzzing' \in BOOLEAN /\ buzzes' \in 0 .. MaxBuzzes
<1>1. CASE UNCHANGED vibVars
  BY <1>1 DEF vibVars, RingTypeOK
<1>2. CASE vibrating' = TRUE /\ UNCHANGED <<buzzing, buzzes>>
  BY <1>2 DEF RingTypeOK
<1>3. CASE vibrating' = TRUE /\ StartFakeBuzz
  <2>1. CASE UNCHANGED <<buzzing, buzzes>>
    BY <1>3, <2>1 DEF RingTypeOK
  <2>2. CASE buzzing' = TRUE /\ buzzes < MaxBuzzes /\ buzzes' = buzzes + 1
    <3>1. buzzes' \in 0 .. MaxBuzzes
      BY <2>2, RingingAssumption DEF RingTypeOK
    <3>2. QED
      BY <1>3, <2>2, <3>1
  <2>3. QED
    BY <1>3, <2>1, <2>2 DEF StartFakeBuzz
<1>4. QED
  BY <1>1, <1>2, <1>3 DEF Vibrates

\* A ringtone has a route with the ringer on and any module but phone in focus.
LEMMA RoutedIs == TypeOK => (Routed <=> (ringerOn /\ focus # "phone"))
BY DEF TypeOK, Routed

LEMMA RoutedNow == TypeOK' => (Routed' <=> (ringerOn' /\ focus' # "phone"))
BY DEF TypeOK, Routed

\* The properties, once the types are known: one lemma per kind of step.
LEMMA RingStreams ==
  ASSUME RingInv, TypeOK', RingtoneOpens \/ SpeechOpens
  PROVE  RingInv'
<1>1. CASE RingtoneOpens
  <2>1. ~muted /\ playing' = playing \cup {eringtones}
    BY <1>1 DEF RingtoneOpens, RingInv, MuteLastsOneRing
  <2>2. vibrating' \in BOOLEAN /\ buzzing' \in BOOLEAN /\ buzzes' \in 0 .. MaxBuzzes
    BY <1>1, VibratesTypes DEF RingtoneOpens, RingInv
  <2>3. UNCHANGED <<ringerOn, focus, running, outlived, muted, headset>>
    BY <1>1 DEF RingtoneOpens, vars
  <2>4. heard' <=> Routed
    BY <1>1, <2>1 DEF RingtoneOpens
  <2>5. heard' \in BOOLEAN
    BY <1>1 DEF RingtoneOpens
  <2>6. RingTypeOK'
    BY <2>1, <2>2, <2>3, <2>5 DEF RingInv, RingTypeOK
  <2>7. RingIsHeard'
    BY <2>1, <2>3, <2>4, RoutedIs DEF RingIsHeard, RingInv, RingTypeOK
  <2>8. QED
    BY <2>1, <2>3, <2>6, <2>7 DEF RingInv, MuteLastsOneRing, VibrationFollowsRing
<1>2. CASE SpeechOpens
  BY <1>2, RingingAssumption
  DEF SpeechOpens, vars, vibVars, RingInv, RingTypeOK, RingIsHeard,
      MuteLastsOneRing, VibrationFollowsRing
<1>3. QED
  BY <1>1, <1>2

LEMMA RingCloses ==
  ASSUME RingInv, TypeOK', NEW sink \in {eringtones, etts}, LastStreamClosed(sink)
  PROVE  RingInv'
<1>1. CASE eringtones \in playing'
  <2>1. sink # eringtones /\ UNCHANGED <<muted, heard, vibVars, ringerOn, focus>>
    BY <1>1 DEF LastStreamClosed, vars, RingInv, RingTypeOK
  <2>2. QED
    BY <1>1, <2>1
    DEF LastStreamClosed, vars, vibVars, RingInv, RingTypeOK, RingIsHeard,
        MuteLastsOneRing, VibrationFollowsRing
<1>2. CASE eringtones \notin playing'
  <2>1. vibrating' = FALSE /\ buzzing' = FALSE /\ buzzes' \in 0 .. MaxBuzzes /\ muted' = FALSE
    BY <1>2, CancelTypes DEF LastStreamClosed, RingInv
  <2>2. QED
    BY <1>2, <2>1
    DEF LastStreamClosed, vars, RingInv, RingTypeOK, RingIsHeard,
        MuteLastsOneRing, VibrationFollowsRing
<1>3. QED
  BY <1>1, <1>2

\* setMuted, and what an alarm or an alert does to the vibration.
LEMMA RingMutes ==
  ASSUME RingInv, TypeOK', Mute \/ SetUnmuted \/ OtherCancels \/ PlugHeadset
  PROVE  RingInv'
<1>1. CASE Mute
  <2>1. vibrating' = FALSE /\ buzzing' = FALSE /\ buzzes' \in 0 .. MaxBuzzes
    BY <1>1, CancelTypes DEF Mute, RingInv
  <2>2. UNCHANGED <<ringerOn, focus, running, outlived, playing, headset>>
    BY <1>1 DEF Mute, vars
  <2>3. CASE muted \/ eringtones \in playing
    <3>1. muted' = TRUE /\ heard' = FALSE /\ eringtones \in playing
      BY <1>1, <2>3 DEF Mute, ProgramRingToneVolumes, RingInv, MuteLastsOneRing
    <3>2. QED
      BY <2>1, <2>2, <3>1
      DEF RingInv, RingTypeOK, RingIsHeard, MuteLastsOneRing, VibrationFollowsRing
  <2>4. CASE ~(muted \/ eringtones \in playing)
    <3>1. UNCHANGED <<muted, heard>>
      BY <1>1, <2>4 DEF Mute
    <3>2. QED
      BY <2>1, <2>2, <2>4, <3>1
      DEF RingInv, RingTypeOK, RingIsHeard, MuteLastsOneRing, VibrationFollowsRing
  <2>5. QED
    BY <2>3, <2>4
<1>2. CASE SetUnmuted
  <2>1. muted' = FALSE /\ (heard' <=> (eringtones \in playing /\ Routed'))
    BY <1>2 DEF SetUnmuted, Unmute, ProgramRingToneVolumes
  <2>2. heard' \in BOOLEAN
    BY <1>2 DEF SetUnmuted, Unmute, ProgramRingToneVolumes
  <2>3. UNCHANGED <<running, outlived, playing, vibVars, headset>>
    BY <1>2 DEF SetUnmuted
  <2>4. RingIsHeard'
    BY <2>1, <2>3, RoutedNow DEF RingIsHeard
  <2>5. RingTypeOK'
    BY <2>1, <2>2, <2>3 DEF vibVars, RingInv, RingTypeOK
  <2>6. QED
    BY <2>1, <2>3, <2>4, <2>5
    DEF vibVars, RingInv, MuteLastsOneRing, VibrationFollowsRing
<1>3. CASE OtherCancels
  <2>1. vibrating' = FALSE /\ buzzing' = FALSE /\ buzzes' \in 0 .. MaxBuzzes
    BY <1>3, CancelTypes DEF OtherCancels, RingInv
  <2>2. QED
    BY <1>3, <2>1
    DEF OtherCancels, vars, RingInv, RingTypeOK, RingIsHeard, MuteLastsOneRing,
        VibrationFollowsRing
<1>4. CASE PlugHeadset
  BY <1>4
  DEF PlugHeadset, vars, vibVars, RingInv, RingTypeOK, RingIsHeard, MuteLastsOneRing,
      VibrationFollowsRing
<1>5. QED
  BY <1>1, <1>2, <1>3, <1>4

\* Whoever programs the ringtone makes it follow the mute and the route, and else leaves
\* it as it was with the ringer and the focus where they were.
LEMMA RingProgrammed ==
  ASSUME RingInv, TypeOK', outlived' \in BOOLEAN,
         UNCHANGED <<running, playing, vibVars, headset>>,
         \/ UNCHANGED muted /\ ProgramRingToneVolumes(playing, muted)
         \/ UNCHANGED <<muted, ringerOn, focus, heard>>
         \/ muted' = FALSE /\ ProgramRingToneVolumes(playing, FALSE)
  PROVE  RingInv'
<1>1. muted' \in BOOLEAN /\ heard' \in BOOLEAN
  BY DEF ProgramRingToneVolumes, RingInv, RingTypeOK
<1>2. RingTypeOK'
  BY <1>1 DEF RingInv, RingTypeOK, vibVars
<1>3. MuteLastsOneRing' /\ VibrationFollowsRing'
  <2>1. muted' => muted
    OBVIOUS
  <2>2. UNCHANGED <<playing, vibrating, buzzing>>
    BY DEF vibVars
  <2>3. QED
    BY <2>1, <2>2 DEF RingInv, MuteLastsOneRing, VibrationFollowsRing
<1>4. RingIsHeard'
  <2>1. CASE UNCHANGED <<muted, ringerOn, focus, heard>>
    BY <2>1 DEF RingInv, RingIsHeard
  <2>2. CASE heard' <=> (eringtones \in playing' /\ ~muted' /\ Routed')
    BY <2>2, RoutedNow DEF RingIsHeard
  <2>3. CASE UNCHANGED muted /\ ProgramRingToneVolumes(playing, muted)
    BY <2>2, <2>3 DEF ProgramRingToneVolumes
  <2>4. CASE muted' = FALSE /\ ProgramRingToneVolumes(playing, FALSE)
    BY <2>2, <2>4 DEF ProgramRingToneVolumes
  <2>5. QED
    BY <2>1, <2>3, <2>4
<1>5. QED
  BY <1>2, <1>3, <1>4 DEF RingInv

\* Calls, vvm and the ringer switch.
LEMMA RingFocus ==
  ASSUME RingInv, TypeOK',
         (\E l \in Lines : CallStep(l)) \/ VvmStep \/ RingerStep \/ ProgramSoftwareMixer
  PROVE  RingInv'
<1>1. ASSUME NEW l \in Lines, CallStep(l) PROVE RingInv'
  <2>1. UNCHANGED ringerOn
    BY <1>1 DEF CallStep, CallStatusUpdate, Incoming, Dialing, Active, Disconnected
  <2>2. \/ UNCHANGED muted /\ ProgramRingToneVolumes(playing, muted)
        \/ UNCHANGED <<muted, focus, heard>>
        \/ muted' = FALSE /\ ProgramRingToneVolumes(playing, FALSE)
    BY <1>1 DEF CallStep, Unmute, FocusProgrammed
  <2>3. outlived' \in BOOLEAN
    BY <1>1 DEF CallStep
  <2>4. QED
    BY <1>1, <2>1, <2>2, <2>3, RingProgrammed DEF CallStep
<1>2. CASE VvmStep
  <2>1. UNCHANGED ringerOn
    BY <1>2 DEF VvmStep, StartVvm, EndVvm
  <2>2. QED
    BY <1>2, <2>1, RingProgrammed DEF VvmStep, FocusProgrammed, RingInv, RingTypeOK
<1>3. CASE RingerStep
  BY <1>3, RingProgrammed DEF RingerStep, RingInv, RingTypeOK
<1>4. CASE ProgramSoftwareMixer
  BY <1>4, RingProgrammed DEF ProgramSoftwareMixer, RingInv, RingTypeOK
<1>5. QED
  BY <1>1, <1>2, <1>3, <1>4

\* The death of audiod, and its start.
LEMMA RingEnds ==
  ASSUME RingInv, TypeOK', FakeBuzz \/ Respawn
  PROVE  RingInv'
<1>1. CASE FakeBuzz
  BY <1>1
  DEF FakeBuzz, vars, vibVars, RingInv, RingTypeOK, RingIsHeard, MuteLastsOneRing,
      VibrationFollowsRing
<1>2. CASE Respawn
  <2>1. buzzes' \in 0 .. MaxBuzzes
    BY <1>2, RingingAssumption DEF Respawn
  <2>2. playing' = {} /\ ~muted' /\ ~vibrating' /\ ~buzzing'
    BY <1>2 DEF Respawn
  <2>3. RingTypeOK'
    BY <1>2, <2>1 DEF Respawn, RingInv, RingTypeOK
  <2>4. QED
    BY <2>2, <2>3 DEF RingInv, RingIsHeard, MuteLastsOneRing, VibrationFollowsRing
<1>3. QED
  BY <1>1, <1>2

LEMMA RingStep == RingInv /\ TypeOK' /\ [RingNext]_rvars => RingInv'
<1> SUFFICES ASSUME RingInv, TypeOK', [RingNext]_rvars PROVE RingInv'
  OBVIOUS
<1>1. CASE UNCHANGED rvars
  BY <1>1
  DEF rvars, ringVars, vars, vibVars, RingInv, RingTypeOK, RingIsHeard,
      MuteLastsOneRing, VibrationFollowsRing
<1>2. CASE RingNext
  BY <1>2, RingStreams, RingCloses, RingMutes, RingFocus, RingEnds DEF RingNext
<1>3. QED
  BY <1>1, <1>2

LEMMA RingAlways == RingSpec => []RingInv
<1>1. RingCallInv => TypeOK
  BY DEF RingCallInv, KnownInv
<1>2. RingSpec => []TypeOK
  BY <1>1, RingCallsAlways, PTL
<1>3. QED
  BY <1>2, RingInitially, RingStep, PTL DEF RingSpec

\* The composition keeps its types, the count of the buzz within its bound.
THEOREM RingTypes == RingSpec => []RingTypeOK
<1>1. RingInv => RingTypeOK
  BY DEF RingInv
<1>2. QED
  BY <1>1, RingAlways, PTL

\* A ringtone is heard with the ringer on, no mute and the focus not on phone, and at no
\* other time (programRingToneVolumes, isRouted and their callers).
THEOREM TheRingIsHeard == RingSpec => []RingIsHeard
<1>1. RingInv => RingIsHeard
  BY DEF RingInv
<1>2. QED
  BY <1>1, RingAlways, PTL

\* A mute never reaches the next ringtone (LastStreamClosed, setMuted).
THEOREM MuteIsForOneRing == RingSpec => []MuteLastsOneRing
<1>1. RingInv => MuteLastsOneRing
  BY DEF RingInv
<1>2. QED
  BY <1>1, RingAlways, PTL

\* The device is still once the ringtone is over (CancelVibrate).
THEOREM StillAfterTheRing == RingSpec => []VibrationFollowsRing
<1>1. RingInv => VibrationFollowsRing
  BY DEF RingInv
<1>2. QED
  BY <1>1, RingAlways, PTL
=============================================================================
