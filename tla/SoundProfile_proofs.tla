------------------------ MODULE SoundProfile_proofs -------------------------
(***************************************************************************)
(* Theorems of SoundProfile, for any preferences that setPreference is     *)
(* used for and any number of failures of the store.                       *)
(*                                                                         *)
(* A handler is a sequence of tasks, so the invariant is about what        *)
(* preferences and properties WILL be when it is over: the tasks that are  *)
(* left agree on a value, and it is set already or one of them sets it.    *)
(* A step keeps that (StepKeeps), whatever the handler; a handler only     *)
(* has to establish it when it begins; and when nothing is left to do it   *)
(* is the property itself.                                                 *)
(***************************************************************************)
EXTENDS SoundProfile, TLAPS, SequenceTheorems

\* The tasks of a handler, in any order.
TasksOf(s) == {s[i] : i \in 1 .. Len(s)}
Todo == TasksOf(todo)

\* A preference or a shared property of this name.
Held(kind, n) == IF kind = "pref" THEN pref[n] ELSE property[n]
Task(kind, n, v) == [task |-> kind, name |-> n, value |-> v]

\* It is v once the handler under way is over.
WillBe(kind, n, v) ==
  /\ \A t \in Todo : t.task = kind /\ t.name = n => t.value = v
  /\ Held(kind, n) = v \/ Task(kind, n, v) \in Todo

\* The preference and the property of a switch will be the same.
Agree(s) == \E v \in BOOLEAN : WillBe("pref", s, v) /\ WillBe("property", s, v)

\* What is stored is what audiod would lose.
StoreIsCurrent == ~failed => stored = pref

\* Nothing is left of what an audiod that has ended was doing, and nothing stays
\* of its "do not disturb" that was not stored.
DeadIsQuiet ==
  ~running => /\ todo = <<>>
              /\ quiet
              /\ dnd.phase # "none" => ~failed

\* Switches agree that setPreference has not set, and the ringer also while the
\* history of "do not disturb" is about it.
SwitchesAgree ==
  /\ running => \A s \in Switches \ apart : Agree(s)
  /\ dnd.phase # "none" => Agree("RingerOn")

SavedWillBe(p) ==
  /\ WillBe("pref", "DndOn", TRUE)
  /\ WillBe("pref", "PrevRingerOn", p.ringer)
  /\ WillBe("pref", "PrevVibrateWhenRingerOn", p.vibrateOn)
  /\ WillBe("pref", "PrevVibrateWhenRingerOff", p.vibrateOff)

ProfileWillBe(p) ==
  /\ WillBe("pref", "DndOn", FALSE)
  /\ WillBe("property", "RingerOn", p.ringer)
  /\ WillBe("pref", "VibrateWhenRingerOn", p.vibrateOn)
  /\ WillBe("pref", "VibrateWhenRingerOff", p.vibrateOff)

\* The profile in force when "do not disturb" was switched on is saved, and then
\* given back.
DndKept ==
  /\ dnd.phase # "none" => dnd.profile \in Profiles
  /\ dnd.phase = "on" => SavedWillBe(dnd.profile)
  /\ dnd.phase = "back" => ProfileWillBe(dnd.profile)

\* The handler ends by telling subscribers, or they know and it does not touch
\* the profile.
SubscribersWillKnow ==
  ~quiet => \/ todo # <<>> /\ todo[Len(todo)] = Post
            \/ /\ told = Shown
               /\ \A t \in Todo : t.task # "post" => t.name = "TouchOn"

SoundInv ==
  /\ TypeOK
  /\ StoreIsCurrent
  /\ DeadIsQuiet
  /\ SwitchesAgree
  /\ DndKept
  /\ SubscribersWillKnow

-----------------------------------------------------------------------------
(* Tasks of a sequence.                                                    *)

\* Nothing and one, two or three tasks.
LEMMA TasksOfTuples ==
  /\ TasksOf(<<>>) = {}
  /\ \A a : TasksOf(<<a>>) = {a}
  /\ \A a, b : TasksOf(<<a, b>>) = {a, b}
  /\ \A a, b, c : TasksOf(<<a, b, c>>) = {a, b, c}
<1>1. TasksOf(<<>>) = {}
  BY DEF TasksOf
<1>2. ASSUME NEW a PROVE TasksOf(<<a>>) = {a}
  <2>1. 1 .. Len(<<a>>) = {1}
    OBVIOUS
  <2>2. QED
    BY <2>1 DEF TasksOf
<1>3. ASSUME NEW a, NEW b PROVE TasksOf(<<a, b>>) = {a, b}
  <2>1. 1 .. Len(<<a, b>>) = {1, 2}
    OBVIOUS
  <2>2. QED
    BY <2>1 DEF TasksOf
<1>4. ASSUME NEW a, NEW b, NEW c PROVE TasksOf(<<a, b, c>>) = {a, b, c}
  <2>1. 1 .. Len(<<a, b, c>>) = {1, 2, 3}
    OBVIOUS
  <2>2. QED
    BY <2>1 DEF TasksOf
<1>5. QED
  BY <1>1, <1>2, <1>3, <1>4

\* One handler's tasks after another's.
LEMMA TasksOfBoth ==
  ASSUME NEW s \in Seq(Tasks), NEW t \in Seq(Tasks)
  PROVE  s \o t \in Seq(Tasks) /\ TasksOf(s \o t) = TasksOf(s) \cup TasksOf(t)
<1>1. ASSUME NEW x \in TasksOf(s) PROVE x \in TasksOf(s \o t)
  BY <1>1 DEF TasksOf
<1>2. ASSUME NEW x \in TasksOf(t) PROVE x \in TasksOf(s \o t)
  <2>1. PICK i \in 1 .. Len(t) : x = t[i]
    BY <1>2 DEF TasksOf
  <2>2. Len(s) + i \in 1 .. Len(s \o t) /\ (s \o t)[Len(s) + i] = t[i]
    OBVIOUS
  <2>3. QED
    BY <2>1, <2>2 DEF TasksOf
<1>3. ASSUME NEW x \in TasksOf(s \o t) PROVE x \in TasksOf(s) \cup TasksOf(t)
  <2>1. PICK i \in 1 .. Len(s \o t) : x = (s \o t)[i]
    BY <1>3 DEF TasksOf
  <2>2. CASE i <= Len(s)
    BY <2>1, <2>2 DEF TasksOf
  <2>3. CASE i > Len(s)
    <3>1. i - Len(s) \in 1 .. Len(t) /\ (s \o t)[i] = t[i - Len(s)]
      BY <2>3
    <3>2. QED
      BY <2>1, <3>1 DEF TasksOf
  <2>4. QED
    BY <2>2, <2>3
<1>4. QED
  BY <1>1, <1>2, <1>3

\* What is left of a handler when its first task is done.
LEMMA TasksOfRest ==
  ASSUME NEW s \in Seq(Tasks), s # <<>>
  PROVE  TasksOf(s) = {Head(s)} \cup TasksOf(Tail(s))
<1>1. ASSUME NEW x \in TasksOf(s) PROVE x = Head(s) \/ x \in TasksOf(Tail(s))
  <2>1. PICK i \in 1 .. Len(s) : x = s[i]
    BY <1>1 DEF TasksOf
  <2>2. CASE i = 1
    BY <2>1, <2>2
  <2>3. CASE i # 1
    <3>1. i - 1 \in 1 .. Len(Tail(s)) /\ Tail(s)[i - 1] = s[i]
      BY <2>3
    <3>2. QED
      BY <2>1, <3>1 DEF TasksOf
  <2>4. QED
    BY <2>2, <2>3
<1>2. Head(s) \in TasksOf(s)
  <2>1. 1 \in 1 .. Len(s) /\ Head(s) = s[1]
    OBVIOUS
  <2>2. QED
    BY <2>1 DEF TasksOf
<1>3. ASSUME NEW x \in TasksOf(Tail(s)) PROVE x \in TasksOf(s)
  <2>1. PICK i \in 1 .. Len(Tail(s)) : x = Tail(s)[i]
    BY <1>3 DEF TasksOf
  <2>2. i + 1 \in 1 .. Len(s) /\ Tail(s)[i] = s[i + 1]
    OBVIOUS
  <2>3. QED
    BY <2>1, <2>2 DEF TasksOf
<1>4. QED
  BY <1>1, <1>2, <1>3

\* The fields of tasks.
LEMMA TaskFields ==
  /\ \A kind, n, v : /\ Task(kind, n, v).task = kind
                     /\ Task(kind, n, v).name = n
                     /\ Task(kind, n, v).value = v
  /\ Post.task = "post"
BY DEF Task, Post

\* The tasks of setRingerOn.
LEMMA RingerTasks ==
  ASSUME NEW b \in BOOLEAN
  PROVE  /\ SetRingerOn(b) \in Seq(Tasks)
         /\ TasksOf(SetRingerOn(b))
              = IF property["RingerOn"] # b
                THEN {Task("pref", "RingerOn", b), Task("property", "RingerOn", b)} ELSE {}
<1>1. Pref("RingerOn", b) \in Tasks /\ Property("RingerOn", b) \in Tasks
  BY DEF Pref, Property, Tasks, Names, Switches
<1>2. CASE property["RingerOn"] # b
  <2>1. SetRingerOn(b) = <<Pref("RingerOn", b), Property("RingerOn", b)>>
    BY <1>2 DEF SetRingerOn
  <2>2. QED
    BY <1>1, <1>2, <2>1, TasksOfTuples DEF Pref, Property, Task
<1>3. CASE property["RingerOn"] = b
  BY <1>3, TasksOfTuples DEF SetRingerOn
<1>4. QED
  BY <1>2, <1>3

\* They are about the ringer, and agree.
LEMMA RingerFields ==
  ASSUME NEW b \in BOOLEAN, NEW t \in TasksOf(SetRingerOn(b))
  PROVE  t.task \in {"pref", "property"} /\ t.name = "RingerOn" /\ t.value = b
BY RingerTasks, TaskFields

\* The tasks of a change of the two vibration preferences.
LEMMA VibrationTasks ==
  ASSUME NEW b \in BOOLEAN, NEW c \in BOOLEAN
  PROVE  /\ SetVibration(b, c) \in Seq(Tasks)
         /\ TasksOf(SetVibration(b, c)) = {Task("pref", "VibrateWhenRingerOn", b),
                                           Task("pref", "VibrateWhenRingerOff", c)}
<1>1. /\ Pref("VibrateWhenRingerOn", b) \in Tasks
      /\ Pref("VibrateWhenRingerOff", c) \in Tasks
  BY DEF Pref, Tasks, Names
<1>2. QED
  BY <1>1, TasksOfTuples DEF SetVibration, Pref, Task

\* The tasks of storeSoundProfile.
LEMMA StoreTasks ==
  ASSUME TypeOK
  PROVE  /\ StoreSoundProfile \in Seq(Tasks)
         /\ TasksOf(StoreSoundProfile)
              = {Task("pref", "PrevRingerOn", pref["RingerOn"]),
                 Task("pref", "PrevVibrateWhenRingerOn", pref["VibrateWhenRingerOn"]),
                 Task("pref", "PrevVibrateWhenRingerOff", pref["VibrateWhenRingerOff"])}
<1>1. {pref["RingerOn"], pref["VibrateWhenRingerOn"], pref["VibrateWhenRingerOff"]}
        \subseteq BOOLEAN
  BY DEF TypeOK, Names, Switches
<1>2. /\ Pref("PrevRingerOn", pref["RingerOn"]) \in Tasks
      /\ Pref("PrevVibrateWhenRingerOn", pref["VibrateWhenRingerOn"]) \in Tasks
      /\ Pref("PrevVibrateWhenRingerOff", pref["VibrateWhenRingerOff"]) \in Tasks
  BY <1>1 DEF Pref, Tasks, Names, Saved
<1>3. QED
  BY <1>2, TasksOfTuples DEF StoreSoundProfile, Pref, Task

\* What is set when "do not disturb" is switched on is set to one value.
LEMMA OneValueEach ==
  ASSUME NEW a, NEW b, NEW c, NEW d, NEW n, NEW v, NEW set,
         set = {Task("pref", "DndOn", a), Task("pref", "PrevRingerOn", b),
                Task("pref", "PrevVibrateWhenRingerOn", c),
                Task("pref", "PrevVibrateWhenRingerOff", d)},
         Task("pref", n, v) \in set
  PROVE  \A t \in set : t.name = n => t.value = v
BY TaskFields

\* One preference, and the post to subscribers.
LEMMA SingleTasks ==
  /\ \A n \in Names, v \in BOOLEAN :
       /\ <<Pref(n, v)>> \in Seq(Tasks)
       /\ TasksOf(<<Pref(n, v)>>) = {Task("pref", n, v)}
  /\ <<Post>> \in Seq(Tasks)
  /\ TasksOf(<<Post>>) = {Post}
<1>1. /\ \A n \in Names, v \in BOOLEAN : Pref(n, v) \in Tasks
      /\ Post \in Tasks
  BY DEF Pref, Post, Tasks
<1>2. QED
  BY <1>1, TasksOfTuples DEF Pref, Task

-----------------------------------------------------------------------------
(* A step of the handler under way.                                        *)

\* What is stored, set, or told is of its type.
LEMMA StepTypes ==
  ASSUME SoundInv, Step
  PROVE  TypeOK' /\ StoreIsCurrent'
<1>1. TypeOK /\ StoreIsCurrent
  BY DEF SoundInv
<1>2. todo' \in Seq(Tasks) /\ Head(todo) \in Tasks
  BY <1>1 DEF Step, TypeOK
<1>3. UNCHANGED <<running, apart, quiet, dnd>>
  BY DEF Step
<1>4. CASE /\ Head(todo).task = "pref"
           /\ SetPreference(Head(todo).name, Head(todo).value)
           /\ UNCHANGED <<property, told>>
  <2>1. Head(todo).name \in Names /\ Head(todo).value \in BOOLEAN
    BY <1>2, <1>4 DEF Tasks
  <2>2. CASE UNCHANGED <<pref, stored, failures, failed>>
    BY <1>1, <1>2, <1>3, <1>4, <2>2 DEF TypeOK, StoreIsCurrent
  <2>3. CASE /\ pref' = [pref EXCEPT ![Head(todo).name] = Head(todo).value]
             /\ StorePreferences(pref')
    <3>1. pref' \in [Names -> BOOLEAN]
      BY <1>1, <2>1, <2>3 DEF TypeOK
    <3>2. PICK ok \in BOOLEAN : Answers(ok) /\ stored' = IF ok THEN pref' ELSE stored
      BY <2>3 DEF StorePreferences
    <3>3. failures' \in 0 .. MaxFailures /\ failed' = ~ok
      BY <1>1, <3>2, SoundProfileAssumption DEF Answers, TypeOK
    <3>4. StoreIsCurrent'
      BY <3>2, <3>3 DEF StoreIsCurrent
    <3>5. stored' \in [Names -> BOOLEAN]
      BY <1>1, <3>1, <3>2 DEF TypeOK
    <3>6. QED
      BY <1>1, <1>2, <1>3, <1>4, <3>1, <3>3, <3>4, <3>5 DEF TypeOK
  <2>4. QED
    BY <1>4, <2>2, <2>3 DEF SetPreference
<1>5. CASE /\ Head(todo).task = "property"
           /\ property' = [property EXCEPT ![Head(todo).name] = Head(todo).value]
           /\ UNCHANGED <<pref, stored, failures, failed, told>>
  <2>1. Head(todo).name \in Switches /\ Head(todo).value \in BOOLEAN
    BY <1>2, <1>5 DEF Tasks
  <2>2. property' \in [Switches -> BOOLEAN]
    BY <1>1, <1>5, <2>1 DEF TypeOK
  <2>3. QED
    BY <1>1, <1>2, <1>3, <1>5, <2>2 DEF TypeOK, StoreIsCurrent
<1>6. CASE /\ Head(todo).task = "post"
           /\ told' = Shown
           /\ UNCHANGED <<pref, property, stored, failures, failed>>
  <2>1. /\ property["RingerOn"] \in BOOLEAN
        /\ pref["VibrateWhenRingerOn"] \in BOOLEAN
        /\ pref["VibrateWhenRingerOff"] \in BOOLEAN
    BY <1>1 DEF TypeOK, Names, Switches
  <2>2. Shown \in BOOLEAN \X BOOLEAN
    BY <2>1 DEF Shown, Profile
  <2>3. QED
    BY <1>1, <1>2, <1>3, <1>6, <2>2 DEF TypeOK, StoreIsCurrent
<1>7. QED
  BY <1>4, <1>5, <1>6 DEF Step

\* What the first task sets, and what it leaves alone.
LEMMA StepSets ==
  ASSUME TypeOK, Step
  PROVE  /\ Head(todo) \in Tasks
         /\ \A kind \in {"pref", "property"} :
              \A n \in IF kind = "pref" THEN Names ELSE Switches :
                Held(kind, n)' = IF Head(todo).task = kind /\ Head(todo).name = n
                                 THEN Head(todo).value ELSE Held(kind, n)
<1>1. Head(todo) \in Tasks
  BY DEF Step, TypeOK
<1>2. ASSUME NEW n \in Names
      PROVE  pref'[n] = IF Head(todo).task = "pref" /\ Head(todo).name = n
                        THEN Head(todo).value ELSE pref[n]
  <2>1. CASE Head(todo).task = "pref" /\ SetPreference(Head(todo).name, Head(todo).value)
    BY <2>1 DEF SetPreference, TypeOK
  <2>2. CASE Head(todo).task # "pref" /\ UNCHANGED pref
    BY <2>2
  <2>3. QED
    BY <2>1, <2>2 DEF Step
<1>3. ASSUME NEW n \in Switches
      PROVE  property'[n] = IF Head(todo).task = "property" /\ Head(todo).name = n
                            THEN Head(todo).value ELSE property[n]
  <2>1. CASE /\ Head(todo).task = "property"
             /\ property' = [property EXCEPT ![Head(todo).name] = Head(todo).value]
    BY <2>1 DEF TypeOK
  <2>2. CASE Head(todo).task # "property" /\ UNCHANGED property
    BY <2>2
  <2>3. QED
    BY <2>1, <2>2 DEF Step
<1>4. QED
  BY <1>1, <1>2, <1>3 DEF Held

\* What will be so when the handler is over will still be so after its next step.
LEMMA StepKeeps ==
  ASSUME TypeOK, Step, NEW kind \in {"pref", "property"},
         NEW n \in IF kind = "pref" THEN Names ELSE Switches, NEW v \in BOOLEAN,
         WillBe(kind, n, v)
  PROVE  WillBe(kind, n, v)'
<1>1. Todo = {Head(todo)} \cup Todo'
  BY TasksOfRest DEF Todo, Step, TypeOK
<1>2. \A t \in Todo' : t.task = kind /\ t.name = n => t.value = v
  BY <1>1 DEF WillBe
<1>3. CASE Head(todo).task = kind /\ Head(todo).name = n
  <2>1. Head(todo).value = v
    BY <1>1, <1>3 DEF WillBe
  <2>2. Held(kind, n)' = v
    BY <1>3, <2>1, StepSets
  <2>3. QED
    BY <1>2, <2>2 DEF WillBe
<1>4. CASE ~(Head(todo).task = kind /\ Head(todo).name = n)
  <2>1. Held(kind, n)' = Held(kind, n)
    BY <1>4, StepSets
  <2>2. Task(kind, n, v) # Head(todo)
    BY <1>4 DEF Task
  <2>3. Held(kind, n)' = v \/ Task(kind, n, v) \in Todo'
    BY <1>1, <2>1, <2>2 DEF WillBe
  <2>4. QED
    BY <1>2, <2>3 DEF WillBe, Task
<1>5. QED
  BY <1>3, <1>4

\* The last task of a handler that tells subscribers is to tell them, and what
\* comes before it does not matter.
LEMMA StepTells ==
  ASSUME SoundInv, Step
  PROVE  SubscribersWillKnow'
<1>1. TypeOK /\ todo # <<>> /\ todo' = Tail(todo) /\ quiet' = quiet
  BY DEF SoundInv, Step
<1>2. todo \in Seq(Tasks)
  BY <1>1 DEF TypeOK
<1>3. Todo = {Head(todo)} \cup Todo'
  BY <1>1, <1>2, TasksOfRest DEF Todo
<1>4. CASE quiet
  BY <1>1, <1>4 DEF SubscribersWillKnow
<1>5. CASE Head(todo).task = "post" /\ told' = Shown /\ UNCHANGED <<pref, property>>
  <2>1. told' = Shown'
    BY <1>5 DEF Shown, Profile
  <2>2. CASE todo[Len(todo)] = Post /\ Len(todo) > 1
    <3>1. Tail(todo) # <<>> /\ Tail(todo)[Len(Tail(todo))] = todo[Len(todo)]
      BY <1>2, <2>2
    <3>2. QED
      BY <1>1, <2>2, <3>1 DEF SubscribersWillKnow, Post
  <2>3. CASE Len(todo) <= 1
    <3>1. todo' = <<>>
      BY <1>1, <1>2, <2>3
    <3>2. Todo' = {}
      BY <3>1, TasksOfTuples DEF Todo
    <3>3. QED
      BY <2>1, <3>2 DEF SubscribersWillKnow
  <2>4. CASE \A t \in Todo : t.task # "post" => t.name = "TouchOn"
    BY <1>3, <2>1, <2>4 DEF SubscribersWillKnow
  <2>5. CASE ~quiet
    BY <1>2, <2>2, <2>3, <2>4, <2>5 DEF SubscribersWillKnow, SoundInv
  <2>6. QED
    BY <1>4, <2>5
<1>6. CASE Head(todo).task # "post" /\ told' = told /\ ~quiet
  <2>1. CASE todo[Len(todo)] = Post
    <3>1. Len(todo) # 1
      BY <1>2, <1>1, <1>6, <2>1 DEF Post
    <3>2. ASSUME NEW q \in Seq(Tasks), q # <<>>, Len(q) # 1
          PROVE  Tail(q) # <<>> /\ Tail(q)[Len(Tail(q))] = q[Len(q)]
      <4>1. Len(q) \in Nat /\ Len(q) # 0
        BY <3>2, EmptySeq
      <4>2. Len(Tail(q)) = Len(q) - 1
        BY <3>2, <4>1
      <4>3. Len(Tail(q)) \in Nat /\ Len(Tail(q)) # 0
        BY <3>2, <4>1, <4>2
      <4>4. Tail(q) # <<>>
        BY <4>3, EmptySeq
      <4>5. Tail(q)[Len(q) - 1] = q[Len(q)]
        BY <3>2, <4>1, <4>2, <4>3
      <4>6. QED
        BY <4>2, <4>4, <4>5
    <3>3. Tail(todo) # <<>> /\ Tail(todo)[Len(Tail(todo))] = todo[Len(todo)]
      BY <1>1, <1>2, <3>1, <3>2
    <3>4. QED
      BY <1>1, <2>1, <3>3 DEF SubscribersWillKnow, Post
  <2>2. CASE told = Shown /\ \A t \in Todo : t.task # "post" => t.name = "TouchOn"
    <3>1. Head(todo).name = "TouchOn"
      BY <1>3, <1>6, <2>2
    <3>2. /\ Held("property", "RingerOn")' = Held("property", "RingerOn")
          /\ Held("pref", "VibrateWhenRingerOn")' = Held("pref", "VibrateWhenRingerOn")
          /\ Held("pref", "VibrateWhenRingerOff")' = Held("pref", "VibrateWhenRingerOff")
      <4>1. /\ "RingerOn" \in Switches
            /\ "VibrateWhenRingerOn" \in Names
            /\ "VibrateWhenRingerOff" \in Names
        BY DEF Switches, Names
      <4>2. QED
        BY <1>1, <3>1, <4>1, StepSets
    <3>3. Shown' = Shown
      BY <3>2 DEF Shown, Profile, Held
    <3>4. QED
      BY <1>3, <1>6, <2>2, <3>3 DEF SubscribersWillKnow
  <2>3. QED
    BY <1>6, <2>1, <2>2 DEF SubscribersWillKnow, SoundInv
<1>7. QED
  BY <1>4, <1>5, <1>6 DEF Step

\* A step of a handler keeps the invariant.
LEMMA StepSound ==
  ASSUME SoundInv, Step
  PROVE  SoundInv'
<1>1. TypeOK /\ running /\ UNCHANGED <<running, apart, quiet, dnd>>
  BY DEF SoundInv, Step
<1>2. ASSUME NEW n \in Names, NEW v \in BOOLEAN, WillBe("pref", n, v)
      PROVE  WillBe("pref", n, v)'
  BY <1>1, <1>2, StepKeeps
<1>3. ASSUME NEW s \in Switches, NEW v \in BOOLEAN, WillBe("property", s, v)
      PROVE  WillBe("property", s, v)'
  BY <1>1, <1>3, StepKeeps
<1>4. Switches \subseteq Names /\ "RingerOn" \in Switches
  BY DEF Switches, Names
<1>5. ASSUME NEW s \in Switches, Agree(s) PROVE Agree(s)'
  BY <1>2, <1>3, <1>4, <1>5 DEF Agree
<1>6. SwitchesAgree'
  BY <1>1, <1>4, <1>5 DEF SwitchesAgree, SoundInv
<1>7. DndKept'
  <2>1. DndKept /\ dnd' = dnd
    BY <1>1 DEF SoundInv
  <2>2. /\ Saved \subseteq Names
        /\ {"DndOn", "VibrateWhenRingerOn", "VibrateWhenRingerOff"} \subseteq Names
    BY DEF Names
  <2>3. ASSUME NEW p \in Profiles, SavedWillBe(p) PROVE SavedWillBe(p)'
    BY <1>2, <2>2, <2>3 DEF SavedWillBe, Profiles, Saved
  <2>4. ASSUME NEW p \in Profiles, ProfileWillBe(p) PROVE ProfileWillBe(p)'
    BY <1>2, <1>3, <1>4, <2>2, <2>4 DEF ProfileWillBe, Profiles
  <2>5. QED
    BY <2>1, <2>3, <2>4 DEF DndKept
<1>8. DeadIsQuiet'
  BY <1>1 DEF DeadIsQuiet
<1>9. QED
  BY <1>6, <1>7, <1>8, StepTypes, StepTells DEF SoundInv

-----------------------------------------------------------------------------
(* A handler begins.                                                       *)

Histories == [phase : {"none", "on", "back"}, profile : Profiles \cup {Unknown}]

\* With nothing left to do, what will be is.
LEMMA IdleIs ==
  ASSUME todo = <<>>, NEW kind, NEW n, NEW v
  PROVE  WillBe(kind, n, v) <=> Held(kind, n) = v
BY TasksOfTuples DEF WillBe, Todo

\* The beginning itself sets and stores nothing.
LEMMA BeginTypes ==
  ASSUME SoundInv, running, todo' \in Seq(Tasks), quiet' \in BOOLEAN, dnd' \in Histories,
         UNCHANGED <<running, pref, property, stored, told, failures, failed, apart>>
  PROVE  TypeOK' /\ StoreIsCurrent' /\ DeadIsQuiet'
BY DEF SoundInv, TypeOK, StoreIsCurrent, DeadIsQuiet, Histories

\* What a handler does not touch will be as it is.
LEMMA NotTouched ==
  ASSUME todo = <<>>, UNCHANGED <<pref, property>>, NEW kind, NEW n, NEW v,
         WillBe(kind, n, v), \A t \in Todo' : t.task = kind => t.name # n
  PROVE  WillBe(kind, n, v)'
<1>1. Held(kind, n)' = v
  BY IdleIs DEF Held
<1>2. QED
  BY <1>1 DEF WillBe

\* A handler that sets the ringer sets both, or neither and then they agree if
\* they did.
LEMMA RingerAgrees ==
  ASSUME TypeOK, todo = <<>>, UNCHANGED <<pref, property>>, NEW b \in BOOLEAN, NEW others,
         Todo' = TasksOf(SetRingerOn(b)) \cup others,
         \A t \in others : t.task \in {"pref", "property"} => t.name \notin Switches,
         NEW s \in Switches, pref[s] = property[s]
  PROVE  Agree(s)' /\ (s = "RingerOn" => WillBe("property", s, b)')
<1>1. pref[s] \in BOOLEAN
  BY DEF TypeOK, Switches, Names
<1>2. /\ \A t \in TasksOf(SetRingerOn(b)) : t.name = "RingerOn" /\ t.value = b
      /\ property["RingerOn"] # b => /\ Task("pref", "RingerOn", b) \in Todo'
                                     /\ Task("property", "RingerOn", b) \in Todo'
  BY RingerTasks DEF Task
<1>3. CASE s # "RingerOn" \/ (property["RingerOn"] = b /\ TasksOf(SetRingerOn(b)) = {})
  <2>1. \A t \in Todo' : t.task \in {"pref", "property"} => t.name # s
    BY <1>2, <1>3
  <2>2. Held("pref", s)' = pref[s] /\ Held("property", s)' = pref[s]
    BY DEF Held
  <2>3. PICK v \in BOOLEAN : v = pref[s]
    BY <1>1
  <2>4. WillBe("pref", s, v)' /\ WillBe("property", s, v)'
    BY <2>1, <2>2, <2>3 DEF WillBe
  <2>5. s = "RingerOn" => v = b
    BY <1>3, <2>3
  <2>6. QED
    BY <2>4, <2>5 DEF Agree
<1>4. CASE s = "RingerOn" /\ property["RingerOn"] # b
  <2>1. \A t \in Todo' : t.task \in {"pref", "property"} /\ t.name = s => t.value = b
    BY <1>2, <1>4
  <2>2. WillBe("pref", s, b)' /\ WillBe("property", s, b)'
    BY <1>2, <1>4, <2>1 DEF WillBe
  <2>3. QED
    BY <2>2 DEF Agree
<1>5. CASE property["RingerOn"] = b
  BY <1>3, <1>5, RingerTasks
<1>6. QED
  BY <1>3, <1>4, <1>5

\* A handler whose last task is to tell subscribers.
LEMMA TellsAtTheEnd ==
  ASSUME NEW s \in Seq(Tasks), todo' = s \o <<Post>>
  PROVE  /\ todo' \in Seq(Tasks)
         /\ Todo' = TasksOf(s) \cup {Post}
         /\ SubscribersWillKnow'
<1>1. <<Post>> \in Seq(Tasks) /\ TasksOf(<<Post>>) = {Post}
  BY SingleTasks
<1>2. /\ Len(s) + 1 \in 1 .. Len(s \o <<Post>>)
      /\ Len(s \o <<Post>>) = Len(s) + 1
      /\ (s \o <<Post>>)[Len(s) + 1] = Post
  OBVIOUS
<1>3. todo' # <<>>
  BY <1>1, <1>2, EmptySeq
<1>4. QED
  BY <1>1, <1>2, <1>3, TasksOfBoth DEF Todo, SubscribersWillKnow

\* What is so of switches when a handler begins.
LEMMA AgreeNow ==
  ASSUME SoundInv, Idle, NEW s \in Switches,
         s \notin apart \/ (s = "RingerOn" /\ dnd.phase # "none")
  PROVE  pref[s] = property[s]
BY IdleIs DEF SoundInv, SwitchesAgree, Agree, Idle, Held

\* The tasks of _setSoundProfile, setRingerSwitch and what comes before an error,
\* with what they leave of "do not disturb".
LEMMA ProfileChangeSound ==
  ASSUME SoundInv, Idle, NEW b \in BOOLEAN, NEW others,
         todo' \in Seq(Tasks), quiet' \in BOOLEAN, dnd' = Changed,
         UNCHANGED <<running, pref, property, stored, told, failures, failed, apart>>,
         Todo' = TasksOf(SetRingerOn(b)) \cup others,
         \A t \in others :
           \/ t.task = "post"
           \/ t.task = "pref" /\ t.name \in {"VibrateWhenRingerOn", "VibrateWhenRingerOff"},
         SubscribersWillKnow'
  PROVE  SoundInv'
<1>1. TypeOK /\ todo = <<>> /\ running
  BY DEF SoundInv, Idle
<1>2. dnd \in Histories
  BY <1>1 DEF TypeOK, Histories
<1>3. dnd' \in Histories /\ dnd'.phase # "back" /\ dnd'.profile = dnd.profile
      /\ (dnd'.phase # "none" => dnd'.phase = dnd.phase)
  BY <1>2 DEF Changed, Histories
<1>4. TypeOK' /\ StoreIsCurrent' /\ DeadIsQuiet'
  BY <1>1, <1>3, BeginTypes
<1>5. \A t \in others : t.task \in {"pref", "property"} => t.name \notin Switches
  BY DEF Switches
<1>6. ASSUME NEW s \in Switches, pref[s] = property[s] PROVE Agree(s)'
  BY <1>1, <1>5, <1>6, RingerAgrees
<1>7. SwitchesAgree'
  <2>1. ASSUME NEW s \in Switches \ apart PROVE Agree(s)'
    BY <1>6, <2>1, AgreeNow
  <2>2. dnd.phase # "none" => Agree("RingerOn")'
    <3>1. "RingerOn" \in Switches
      BY DEF Switches
    <3>2. QED
      BY <1>6, <3>1, AgreeNow
  <2>3. QED
    BY <1>3, <2>1, <2>2 DEF SwitchesAgree
<1>8. ASSUME NEW n \in Saved \cup {"DndOn"}, NEW v, WillBe("pref", n, v)
      PROVE  WillBe("pref", n, v)'
  <2>1. \A t \in Todo' : t.task = "pref" => t.name # n
    BY RingerTasks DEF Task, Saved
  <2>2. QED
    BY <1>1, <1>8, <2>1, NotTouched
<1>9. DndKept'
  <2>1. DndKept
    BY DEF SoundInv
  <2>2. ASSUME NEW p, SavedWillBe(p) PROVE SavedWillBe(p)'
    BY <1>8, <2>2 DEF SavedWillBe, Saved
  <2>3. QED
    BY <1>3, <2>1, <2>2 DEF DndKept
<1>10. QED
  BY <1>4, <1>7, <1>9 DEF SoundInv

\* _setRingerSwitch, and _setSoundProfile with an invalid vibrate.
LEMMA SilentChangeSound ==
  ASSUME SoundInv, NEW b \in BOOLEAN, Begin(SetRingerOn(b), TRUE, Changed)
  PROVE  SoundInv'
<1>1. /\ Idle /\ todo' = SetRingerOn(b) /\ quiet' = TRUE /\ dnd' = Changed
      /\ UNCHANGED <<running, pref, property, stored, told, failures, failed, apart>>
  BY DEF Begin
<1> DEFINE others == {}
<1>2. /\ todo' \in Seq(Tasks)
      /\ Todo' = TasksOf(SetRingerOn(b)) \cup others
      /\ \A t \in others : t.task = "post"
  BY <1>1, RingerTasks DEF Todo
<1>3. SubscribersWillKnow'
  BY <1>1 DEF SubscribersWillKnow
<1> HIDE DEF others
<1>4. QED
  BY <1>1, <1>2, <1>3, ProfileChangeSound

\* _setSoundProfile
LEMMA SetProfileSound ==
  ASSUME SoundInv, NEW ringer \in BOOLEAN, NEW vibrate \in BOOLEAN,
         SetSoundProfile(ringer, vibrate)
  PROVE  SoundInv'
<1> DEFINE vib == SetVibration(ringer /\ vibrate, ~ringer /\ vibrate)
<1>1. /\ Idle /\ todo' = SetRingerOn(ringer) \o vib \o <<Post>>
      /\ quiet' = FALSE /\ dnd' = Changed
      /\ UNCHANGED <<running, pref, property, stored, told, failures, failed, apart>>
  BY DEF Begin, SetSoundProfile
<1>2. /\ SetRingerOn(ringer) \in Seq(Tasks) /\ vib \in Seq(Tasks)
      /\ \A t \in TasksOf(vib) :
           t.task = "pref" /\ t.name \in {"VibrateWhenRingerOn", "VibrateWhenRingerOff"}
  <2>1. ASSUME NEW on \in BOOLEAN, NEW off \in BOOLEAN
        PROVE  /\ SetVibration(on, off) \in Seq(Tasks)
               /\ \A t \in TasksOf(SetVibration(on, off)) :
                    /\ t.task = "pref"
                    /\ t.name \in {"VibrateWhenRingerOn", "VibrateWhenRingerOff"}
    BY VibrationTasks DEF Task
  <2>2. (ringer /\ vibrate) \in BOOLEAN /\ (~ringer /\ vibrate) \in BOOLEAN
    OBVIOUS
  <2>3. QED
    BY <2>1, <2>2, RingerTasks
<1> HIDE DEF vib
<1>3. /\ SetRingerOn(ringer) \o vib \in Seq(Tasks)
      /\ TasksOf(SetRingerOn(ringer) \o vib) = TasksOf(SetRingerOn(ringer)) \cup TasksOf(vib)
  BY <1>2, TasksOfBoth
<1>4. /\ todo' \in Seq(Tasks) /\ SubscribersWillKnow'
      /\ Todo' = TasksOf(SetRingerOn(ringer)) \cup (TasksOf(vib) \cup {Post})
  BY <1>1, <1>3, TellsAtTheEnd
<1>5. Post.task = "post"
  BY DEF Post
<1>6. QED
  BY <1>1, <1>2, <1>4, <1>5, ProfileChangeSound

\* The tasks of setDndMode.
LEMMA DndTasks ==
  ASSUME TypeOK, Idle, NEW first \in Seq(Tasks), NEW b \in BOOLEAN, NEW on \in BOOLEAN,
         NEW off \in BOOLEAN,
         todo' = first \o SetRingerOn(b) \o SetVibration(on, off) \o <<Post>>
  PROVE  /\ todo' \in Seq(Tasks) /\ SubscribersWillKnow'
         /\ Todo' = TasksOf(SetRingerOn(b))
                      \cup (TasksOf(first) \cup {Task("pref", "VibrateWhenRingerOn", on),
                                                 Task("pref", "VibrateWhenRingerOff", off),
                                                 Post})
         /\ \A t \in Todo' \ (TasksOf(SetRingerOn(b)) \cup TasksOf(first)) :
              t.task = "post" \/ t.name \in {"VibrateWhenRingerOn", "VibrateWhenRingerOff"}
<1> DEFINE one == first \o SetRingerOn(b)
           two == one \o SetVibration(on, off)
<1>1. one \in Seq(Tasks) /\ TasksOf(one) = TasksOf(first) \cup TasksOf(SetRingerOn(b))
  BY RingerTasks, TasksOfBoth
<1> HIDE DEF one
<1>2. /\ two \in Seq(Tasks)
      /\ TasksOf(two) = TasksOf(one) \cup {Task("pref", "VibrateWhenRingerOn", on),
                                           Task("pref", "VibrateWhenRingerOff", off)}
  <2>1. /\ SetVibration(on, off) \in Seq(Tasks)
        /\ TasksOf(SetVibration(on, off)) = {Task("pref", "VibrateWhenRingerOn", on),
                                             Task("pref", "VibrateWhenRingerOff", off)}
    BY VibrationTasks
  <2>2. QED
    BY <1>1, <2>1, TasksOfBoth
<1>3. todo' = two \o <<Post>>
  BY DEF one
<1> HIDE DEF two
<1>4. /\ todo' \in Seq(Tasks) /\ SubscribersWillKnow'
      /\ Todo' = TasksOf(two) \cup {Post}
  BY <1>2, <1>3, TellsAtTheEnd
<1>5. \A t \in {Task("pref", "VibrateWhenRingerOn", on),
              Task("pref", "VibrateWhenRingerOff", off), Post} :
        t.task = "post" \/ t.name \in {"VibrateWhenRingerOn", "VibrateWhenRingerOff"}
  BY TaskFields
<1>6. QED
  BY <1>1, <1>2, <1>4, <1>5

\* setDndMode, on: the profile in force is saved before it is silenced.
LEMMA DndOnSound ==
  ASSUME SoundInv, SetDndMode(TRUE)
  PROVE  SoundInv'
<1> DEFINE first == <<Pref("DndOn", TRUE)>> \o StoreSoundProfile
<1>1. /\ Idle
      /\ todo' = first \o SetRingerOn(FALSE) \o SetVibration(FALSE, FALSE) \o <<Post>>
      /\ quiet' = FALSE
      /\ dnd' = [phase |-> IF pref["RingerOn"] = property["RingerOn"] THEN "on" ELSE "none",
                 profile |-> Profile]
      /\ UNCHANGED <<running, pref, property, stored, told, failures, failed, apart>>
  BY DEF SetDndMode, Begin
<1>2. TypeOK /\ todo = <<>> /\ running
  BY <1>1 DEF SoundInv, Idle
<1>3. /\ first \in Seq(Tasks)
      /\ TasksOf(first)
           = {Task("pref", "DndOn", TRUE),
              Task("pref", "PrevRingerOn", pref["RingerOn"]),
              Task("pref", "PrevVibrateWhenRingerOn", pref["VibrateWhenRingerOn"]),
              Task("pref", "PrevVibrateWhenRingerOff", pref["VibrateWhenRingerOff"])}
  <2>1. "DndOn" \in Names
    BY DEF Names
  <2>2. /\ <<Pref("DndOn", TRUE)>> \in Seq(Tasks)
        /\ TasksOf(<<Pref("DndOn", TRUE)>>) = {Task("pref", "DndOn", TRUE)}
    BY <2>1, SingleTasks
  <2>3. /\ first \in Seq(Tasks)
        /\ TasksOf(first) = TasksOf(<<Pref("DndOn", TRUE)>>) \cup TasksOf(StoreSoundProfile)
    BY <1>2, <2>2, StoreTasks, TasksOfBoth
  <2>4. QED
    BY <1>2, <2>2, <2>3, StoreTasks
<1> HIDE DEF first
<1> DEFINE others == TasksOf(first) \cup {Task("pref", "VibrateWhenRingerOn", FALSE),
                                          Task("pref", "VibrateWhenRingerOff", FALSE),
                                          Post}
<1>4. /\ todo' \in Seq(Tasks) /\ SubscribersWillKnow'
      /\ Todo' = TasksOf(SetRingerOn(FALSE)) \cup others
      /\ \A t \in Todo' \ (TasksOf(SetRingerOn(FALSE)) \cup TasksOf(first)) :
           t.task = "post" \/ t.name \in {"VibrateWhenRingerOn", "VibrateWhenRingerOff"}
  BY <1>1, <1>2, <1>3, DndTasks
<1>5. Profile \in Profiles
  BY <1>2 DEF TypeOK, Profile, Profiles, Switches, Names
<1>6. dnd' \in Histories /\ dnd'.phase # "back" /\ dnd'.profile = Profile
      /\ (dnd'.phase # "none" => pref["RingerOn"] = property["RingerOn"])
  BY <1>1, <1>5 DEF Histories
<1>7. TypeOK' /\ StoreIsCurrent' /\ DeadIsQuiet'
  BY <1>1, <1>2, <1>4, <1>6, BeginTypes
<1>8. \A t \in others : t.task \in {"pref", "property"} => t.name \notin Switches
  BY <1>3 DEF Switches, Task, Post
<1>9. ASSUME NEW s \in Switches, pref[s] = property[s] PROVE Agree(s)'
  BY <1>1, <1>2, <1>4, <1>8, <1>9, RingerAgrees
<1>10. SwitchesAgree'
  <2>1. ASSUME NEW s \in Switches \ apart PROVE Agree(s)'
    BY <1>1, <1>9, <2>1, AgreeNow
  <2>2. dnd'.phase # "none" => Agree("RingerOn")'
    BY <1>6, <1>9 DEF Switches
  <2>3. QED
    BY <1>1, <2>1, <2>2 DEF SwitchesAgree
<1>11. ASSUME NEW n \in {"DndOn"} \cup Saved, NEW v, Task("pref", n, v) \in TasksOf(first)
       PROVE  WillBe("pref", n, v)'
  <2>1. Task("pref", n, v) \in Todo'
    BY <1>4, <1>11
  <2>2. \A t \in TasksOf(first) : t.name = n => t.value = v
    <3>1. PICK a \in BOOLEAN : a = TRUE
      OBVIOUS
    <3>2. TasksOf(first) = {Task("pref", "DndOn", a),
              Task("pref", "PrevRingerOn", pref["RingerOn"]),
              Task("pref", "PrevVibrateWhenRingerOn", pref["VibrateWhenRingerOn"]),
              Task("pref", "PrevVibrateWhenRingerOff", pref["VibrateWhenRingerOff"])}
      BY <1>3, <3>1
    <3>3. QED
      BY <3>2, <1>11, OneValueEach
  <2>3. \A t \in Todo' : t.task = "pref" /\ t.name = n => t \in TasksOf(first)
    <3>1. \A t \in TasksOf(SetRingerOn(FALSE)) : t.name = "RingerOn"
      BY RingerFields
    <3>2. QED
      BY <1>4, <3>1, TaskFields DEF Saved
  <2>4. QED
    BY <2>1, <2>2, <2>3 DEF WillBe
<1>12. DndKept'
  <2>1. ASSUME NEW p, p = Profile, pref["RingerOn"] = property["RingerOn"]
        PROVE  SavedWillBe(p)'
    <3>1. /\ p.ringer = pref["RingerOn"]
          /\ p.vibrateOn = pref["VibrateWhenRingerOn"]
          /\ p.vibrateOff = pref["VibrateWhenRingerOff"]
      BY <2>1 DEF Profile
    <3>2. QED
      BY <1>3, <1>11, <3>1 DEF SavedWillBe, Saved
  <2>2. QED
    BY <1>5, <1>6, <2>1 DEF DndKept, Histories
<1>13. QED
  BY <1>4, <1>7, <1>10, <1>12 DEF SoundInv

\* setDndMode, off: the profile that is given back is the one that was saved.
LEMMA DndOffSound ==
  ASSUME SoundInv, SetDndMode(FALSE)
  PROVE  SoundInv'
<1> DEFINE first == <<Pref("DndOn", FALSE)>>
<1>1. /\ Idle
      /\ pref["DndOn"] # FALSE
      /\ quiet' = FALSE
      /\ dnd' = IF dnd.phase = "on" THEN [dnd EXCEPT !.phase = "back"] ELSE dnd
      /\ UNCHANGED <<running, pref, property, stored, told, failures, failed, apart>>
  BY DEF SetDndMode, Begin
<1>2. TypeOK /\ todo = <<>> /\ running /\ DndKept
  BY <1>1 DEF SoundInv, Idle
<1>3. PICK b \in BOOLEAN, on \in BOOLEAN, off \in BOOLEAN :
        /\ b = pref["PrevRingerOn"]
        /\ on = pref["PrevVibrateWhenRingerOn"]
        /\ off = pref["PrevVibrateWhenRingerOff"]
        /\ first \in Seq(Tasks)
        /\ \A t \in TasksOf(first) : t.task = "pref" /\ t.name = "DndOn" /\ t.value = FALSE
        /\ Task("pref", "DndOn", FALSE) \in TasksOf(first)
  <2>1. "DndOn" \in Names /\ Saved \subseteq Names
    BY DEF Names
  <2>2. TasksOf(first) = {Task("pref", "DndOn", FALSE)} /\ first \in Seq(Tasks)
    BY <2>1, SingleTasks
  <2>3. \A t \in TasksOf(first) : t.task = "pref" /\ t.name = "DndOn" /\ t.value = FALSE
    BY <2>2 DEF Task
  <2>4. /\ pref["PrevRingerOn"] \in BOOLEAN
        /\ pref["PrevVibrateWhenRingerOn"] \in BOOLEAN
        /\ pref["PrevVibrateWhenRingerOff"] \in BOOLEAN
    BY <1>2, <2>1 DEF TypeOK, Saved
  <2>5. QED
    BY <2>2, <2>3, <2>4
<1>4. todo' = first \o SetRingerOn(b) \o SetVibration(on, off) \o <<Post>>
  <2>1. ASSUME NEW s \in Seq(Tasks), NEW t \in Seq(Tasks), NEW u \in Seq(Tasks),
               NEW v \in Seq(Tasks)
        PROVE  s \o (t \o u) \o v = s \o t \o u \o v
    <3>1. s \o (t \o u) = s \o t \o u
      BY ConcatAssociative, SMTT(60)
    <3>2. QED
      BY <3>1
  <2>2. todo' = first \o (SetRingerOn(b) \o SetVibration(on, off)) \o <<Post>>
    BY <1>3 DEF SetDndMode, Begin, RetrieveSoundProfile
  <2>3. /\ SetRingerOn(b) \in Seq(Tasks) /\ SetVibration(on, off) \in Seq(Tasks)
        /\ <<Post>> \in Seq(Tasks)
    BY <1>3, RingerTasks, VibrationTasks, SingleTasks
  <2>4. QED
    BY <1>3, <2>1, <2>2, <2>3
<1> HIDE DEF first
<1> DEFINE others == TasksOf(first) \cup {Task("pref", "VibrateWhenRingerOn", on),
                                          Task("pref", "VibrateWhenRingerOff", off), Post}
<1>5. /\ todo' \in Seq(Tasks) /\ SubscribersWillKnow'
      /\ Todo' = TasksOf(SetRingerOn(b)) \cup others
  <2>1. first \in Seq(Tasks)
    BY <1>3
  <2>2. QED
    BY <1>1, <1>2, <1>4, <2>1, DndTasks
<1> HIDE DEF others
<1>6. dnd.phase # "back"
  <2>1. dnd.phase = "back" => Held("pref", "DndOn") = FALSE
    BY <1>2, IdleIs DEF DndKept, ProfileWillBe
  <2>2. QED
    BY <1>1, <2>1 DEF Held
<1>7. /\ dnd' \in Histories /\ dnd'.phase # "on" /\ dnd'.profile = dnd.profile
      /\ (dnd'.phase # "none" => dnd.phase = "on" /\ dnd'.phase = "back")
  <2>1. dnd \in Histories
    BY <1>2 DEF TypeOK, Histories
  <2>2. QED
    BY <1>1, <1>6, <2>1 DEF Histories
<1>8. TypeOK' /\ StoreIsCurrent' /\ DeadIsQuiet'
  BY <1>1, <1>2, <1>5, <1>7, BeginTypes
<1>9. \A t \in others : t.task \in {"pref", "property"} => t.name \notin Switches
  BY <1>3, TaskFields DEF Switches, others
<1>10. ASSUME NEW s \in Switches, pref[s] = property[s]
       PROVE  Agree(s)' /\ (s = "RingerOn" => WillBe("property", s, b)')
  <2>1. UNCHANGED <<pref, property>>
    BY <1>1
  <2>2. QED
    BY <1>2, <1>3, <1>5, <1>9, <1>10, <2>1, RingerAgrees
<1>11. dnd.phase = "on" => pref["RingerOn"] = property["RingerOn"]
  BY <1>1, AgreeNow DEF Switches
<1>12. SwitchesAgree'
  <2>1. ASSUME NEW s \in Switches \ apart PROVE Agree(s)'
    BY <1>1, <1>10, <2>1, AgreeNow
  <2>2. dnd'.phase # "none" => Agree("RingerOn")'
    BY <1>7, <1>10, <1>11 DEF Switches
  <2>3. QED
    BY <1>1, <2>1, <2>2 DEF SwitchesAgree
<1>13. /\ WillBe("pref", "DndOn", FALSE)'
       /\ WillBe("pref", "VibrateWhenRingerOn", on)'
       /\ WillBe("pref", "VibrateWhenRingerOff", off)'
  <2>1. \A t \in TasksOf(SetRingerOn(b)) : t.name = "RingerOn"
    BY <1>3, RingerFields
  <2>2. Task("pref", "DndOn", FALSE) \in Todo'
    BY <1>3, <1>5 DEF others
  <2>3. \A t \in Todo' : t.task = "pref" /\ t.name = "DndOn" => t.value = FALSE
    BY <1>3, <1>5, <2>1, TaskFields DEF others
  <2>4. /\ Task("pref", "VibrateWhenRingerOn", on) \in Todo'
        /\ Task("pref", "VibrateWhenRingerOff", off) \in Todo'
    BY <1>5 DEF others
  <2>5. \A t \in Todo' :
          t.task = "pref" => /\ t.name = "VibrateWhenRingerOn" => t.value = on
                             /\ t.name = "VibrateWhenRingerOff" => t.value = off
    BY <1>3, <1>5, <2>1, TaskFields DEF others
  <2>6. WillBe("pref", "DndOn", FALSE)'
    BY <2>2, <2>3 DEF WillBe
  <2>7. QED
    BY <2>4, <2>5, <2>6 DEF WillBe
<1>14. DndKept'
  <2>1. ASSUME NEW p, SavedWillBe(p), pref["RingerOn"] = property["RingerOn"]
        PROVE  ProfileWillBe(p)'
    <3>1. p.ringer = b /\ p.vibrateOn = on /\ p.vibrateOff = off
      BY <1>2, <1>3, <2>1, IdleIs DEF SavedWillBe, Held
    <3>2. WillBe("property", "RingerOn", b)'
      BY <1>10, <2>1 DEF Switches
    <3>3. QED
      BY <1>13, <3>1, <3>2 DEF ProfileWillBe
  <2>2. QED
    BY <1>2, <1>7, <1>11, <2>1 DEF DndKept
<1>15. QED
  BY <1>5, <1>8, <1>12, <1>14 DEF SoundInv

\* setTouchSound: the property, then the preference.
LEMMA TouchSound ==
  ASSUME SoundInv, NEW b \in BOOLEAN, SetTouchSound(b)
  PROVE  SoundInv'
<1>1. /\ Idle /\ quiet' = quiet /\ dnd' = dnd
      /\ todo' = <<Property("TouchOn", b), Pref("TouchOn", b)>>
      /\ UNCHANGED <<running, pref, property, stored, told, failures, failed, apart>>
  BY DEF SetTouchSound, Begin
<1>2. TypeOK /\ todo = <<>> /\ running
  BY <1>1 DEF SoundInv, Idle
<1>3. /\ todo' \in Seq(Tasks)
      /\ Todo' = {Task("property", "TouchOn", b), Task("pref", "TouchOn", b)}
  <2>1. Property("TouchOn", b) \in Tasks /\ Pref("TouchOn", b) \in Tasks
    BY DEF Property, Pref, Tasks, Names, Switches
  <2>2. QED
    BY <1>1, <2>1, TasksOfTuples DEF Todo, Property, Pref, Task
<1>4. \A t \in Todo' : t.name = "TouchOn" /\ t.value = b
  BY <1>3, TaskFields
<1>5. TypeOK' /\ StoreIsCurrent' /\ DeadIsQuiet'
  BY <1>1, <1>2, <1>3, BeginTypes DEF TypeOK, Histories
<1>6. ASSUME NEW kind, NEW n, n # "TouchOn", NEW v, WillBe(kind, n, v)
      PROVE  WillBe(kind, n, v)'
  BY <1>1, <1>2, <1>4, <1>6, NotTouched
<1>7. SwitchesAgree'
  <2>1. Agree("TouchOn")'
    BY <1>3, <1>4 DEF Agree, WillBe
  <2>2. Agree("RingerOn") => Agree("RingerOn")'
    BY <1>6 DEF Agree
  <2>3. QED
    BY <1>1, <2>1, <2>2 DEF SwitchesAgree, Switches, SoundInv
<1>8. DndKept'
  <2>1. DndKept
    BY DEF SoundInv
  <2>2. ASSUME NEW p, SavedWillBe(p) PROVE SavedWillBe(p)'
    BY <1>6, <2>2 DEF SavedWillBe
  <2>3. ASSUME NEW p, ProfileWillBe(p) PROVE ProfileWillBe(p)'
    BY <1>6, <2>3 DEF ProfileWillBe
  <2>4. QED
    BY <1>1, <2>1, <2>2, <2>3 DEF DndKept
<1>9. SubscribersWillKnow'
  BY <1>1, <1>2, <1>4 DEF SubscribersWillKnow, SoundInv, Shown, Profile
<1>10. QED
  BY <1>5, <1>7, <1>8, <1>9 DEF SoundInv

-----------------------------------------------------------------------------
(* setPreference from outside, and the end and the start of audiod.        *)

\* setPreferenceRequest
LEMMA RequestSound ==
  ASSUME SoundInv, NEW n \in Requested, NEW v \in BOOLEAN, SetPreferenceRequest(n, v)
  PROVE  SoundInv'
<1>1. TypeOK /\ Idle /\ todo = <<>> /\ todo' = <<>> /\ n \in Names
  BY SoundProfileAssumption DEF SoundInv, SetPreferenceRequest, Idle
<1>2. /\ pref' = [pref EXCEPT ![n] = v]
      /\ apart' = apart \cup ({n} \cap Switches)
      /\ quiet' = TRUE
      /\ dnd' = IF n = "TouchOn" THEN dnd ELSE [phase |-> "none", profile |-> Unknown]
      /\ UNCHANGED <<running, property, todo, told>>
  BY DEF SetPreferenceRequest
<1>3. PICK ok \in BOOLEAN : Answers(ok) /\ stored' = IF ok THEN pref' ELSE stored
  BY DEF SetPreferenceRequest, StorePreferences
<1>4. failures' \in 0 .. MaxFailures /\ failed' = ~ok
  BY <1>1, <1>3, SoundProfileAssumption DEF Answers, TypeOK
<1>5. StoreIsCurrent'
  BY <1>3, <1>4 DEF StoreIsCurrent
<1>6. TypeOK'
  <2>1. pref' \in [Names -> BOOLEAN] /\ stored' \in [Names -> BOOLEAN]
    BY <1>1, <1>2, <1>3 DEF TypeOK
  <2>2. dnd' \in [phase : {"none", "on", "back"}, profile : Profiles \cup {Unknown}]
    BY <1>1, <1>2 DEF TypeOK
  <2>3. QED
    BY <1>1, <1>2, <1>4, <2>1, <2>2 DEF TypeOK
<1>7. DeadIsQuiet' /\ SubscribersWillKnow'
  BY <1>1, <1>2 DEF DeadIsQuiet, SubscribersWillKnow, Idle
<1>8. ASSUME NEW kind, NEW m \in Names, m # n, NEW w, WillBe(kind, m, w)
      PROVE  WillBe(kind, m, w)'
  <2>1. Todo = {} /\ Todo' = {}
    BY <1>1, TasksOfTuples DEF Todo
  <2>2. Held(kind, m)' = Held(kind, m)
    BY <1>1, <1>2, <1>8 DEF Held, TypeOK
  <2>3. QED
    BY <1>8, <2>1, <2>2 DEF WillBe
<1>9. ASSUME NEW s \in Switches, s # n, Agree(s) PROVE Agree(s)'
  <2>1. s \in Names
    BY DEF Names
  <2>2. QED
    BY <1>8, <1>9, <2>1 DEF Agree
<1>10. SwitchesAgree'
  BY <1>2, <1>9 DEF SwitchesAgree, SoundInv, Switches
<1>11. DndKept'
  <2>1. CASE n = "TouchOn"
    <3>1. DndKept /\ dnd' = dnd
      BY <1>2, <2>1 DEF SoundInv
    <3>2. {"DndOn", "VibrateWhenRingerOn", "VibrateWhenRingerOff", "RingerOn"} \cup Saved
            \subseteq Names
      BY DEF Names, Switches
    <3>3. ASSUME NEW p, SavedWillBe(p) PROVE SavedWillBe(p)'
      BY <1>8, <2>1, <3>2, <3>3 DEF SavedWillBe, Saved
    <3>4. ASSUME NEW p, ProfileWillBe(p) PROVE ProfileWillBe(p)'
      BY <1>8, <2>1, <3>2, <3>4 DEF ProfileWillBe
    <3>5. QED
      BY <3>1, <3>3, <3>4 DEF DndKept
  <2>2. CASE n # "TouchOn"
    BY <1>2, <2>2 DEF DndKept
  <2>3. QED
    BY <2>1, <2>2
<1>12. QED
  BY <1>5, <1>6, <1>7, <1>10, <1>11 DEF SoundInv

\* audiod ends.
LEMMA DieSound ==
  ASSUME SoundInv, Die
  PROVE  SoundInv'
<1>1. /\ TypeOK /\ running' = FALSE /\ todo' = <<>> /\ quiet' = TRUE /\ told' = Unknown
      /\ dnd' = IF todo # <<>> \/ failed THEN [phase |-> "none", profile |-> Unknown] ELSE dnd
      /\ UNCHANGED <<pref, property, stored, failures, failed, apart>>
  BY DEF SoundInv, Die
<1>2. TypeOK'
  <2>1. dnd' \in [phase : {"none", "on", "back"}, profile : Profiles \cup {Unknown}]
    BY <1>1 DEF TypeOK
  <2>2. UNCHANGED <<pref, property, stored, failures, failed, apart>>
    BY <1>1
  <2>3. /\ told' \in (BOOLEAN \X BOOLEAN) \cup {Unknown}
        /\ running' \in BOOLEAN
        /\ todo' \in Seq(Tasks) /\ quiet' \in BOOLEAN
    BY <1>1, EmptySeq
  <2>4. QED
    BY <1>1, <2>1, <2>2, <2>3 DEF TypeOK
<1>3. StoreIsCurrent' /\ SubscribersWillKnow' /\ DeadIsQuiet'
  BY <1>1 DEF SoundInv, StoreIsCurrent, SubscribersWillKnow, DeadIsQuiet
<1>4. CASE todo # <<>> \/ failed
  BY <1>1, <1>2, <1>3, <1>4 DEF SoundInv, SwitchesAgree, DndKept
<1>5. CASE todo = <<>> /\ ~failed
  <2>1. ASSUME NEW kind, NEW n, NEW v, WillBe(kind, n, v) PROVE WillBe(kind, n, v)'
    BY <1>1, <1>5, <2>1 DEF WillBe, Held, Todo
  <2>2. SwitchesAgree'
    BY <1>1, <1>5, <2>1 DEF SoundInv, SwitchesAgree, Agree
  <2>3. DndKept'
    <3>1. DndKept /\ dnd' = dnd
      BY <1>1, <1>5 DEF SoundInv
    <3>2. ASSUME NEW p, SavedWillBe(p) PROVE SavedWillBe(p)'
      BY <2>1, <3>2 DEF SavedWillBe
    <3>3. ASSUME NEW p, ProfileWillBe(p) PROVE ProfileWillBe(p)'
      BY <2>1, <3>3 DEF ProfileWillBe
    <3>4. QED
      BY <3>1, <3>2, <3>3 DEF DndKept
  <2>4. QED
    BY <1>2, <1>3, <2>2, <2>3 DEF SoundInv
<1>6. QED
  BY <1>4, <1>5

\* audiod starts: what "do not disturb" had left was stored.
LEMMA StartSound ==
  ASSUME SoundInv, NEW ok \in BOOLEAN, Start(ok)
  PROVE  SoundInv'
<1>1. /\ TypeOK /\ ~running /\ running' = TRUE
      /\ pref' = IF ok THEN stored ELSE Defaults
      /\ property' = [s \in Switches |-> pref'[s]]
      /\ apart' = {}
      /\ Answers(ok)
      /\ dnd' = IF ok THEN dnd ELSE [phase |-> "none", profile |-> Unknown]
      /\ UNCHANGED <<stored, todo, told, quiet>>
  BY DEF SoundInv, Start
<1>2. todo = <<>> /\ todo' = <<>> /\ quiet' /\ Todo = {} /\ Todo' = {}
  BY <1>1, TasksOfTuples DEF SoundInv, DeadIsQuiet, Todo
<1>3. failures' \in 0 .. MaxFailures /\ failed' = ~ok
  BY <1>1, SoundProfileAssumption DEF Answers, TypeOK
<1>4. TypeOK'
  <2>1. Defaults \in [Names -> BOOLEAN]
    BY DEF Defaults
  <2>2. pref' \in [Names -> BOOLEAN]
    BY <1>1, <2>1 DEF TypeOK
  <2>3. property' \in [Switches -> BOOLEAN]
    BY <1>1, <2>2 DEF Names
  <2>4. dnd' \in [phase : {"none", "on", "back"}, profile : Profiles \cup {Unknown}]
    BY <1>1 DEF TypeOK
  <2>5. QED
    BY <1>1, <1>3, <2>2, <2>3, <2>4 DEF TypeOK
<1>5. StoreIsCurrent' /\ DeadIsQuiet' /\ SubscribersWillKnow'
  BY <1>1, <1>2, <1>3 DEF StoreIsCurrent, DeadIsQuiet, SubscribersWillKnow
<1>6. ASSUME NEW s \in Switches PROVE Agree(s)' /\ property'[s] = pref'[s]
  <2>1. pref'[s] \in BOOLEAN /\ property'[s] = pref'[s]
    BY <1>1, <1>4 DEF TypeOK, Names
  <2>2. PICK v \in BOOLEAN : v = pref'[s]
    BY <2>1
  <2>3. WillBe("pref", s, v)' /\ WillBe("property", s, v)'
    BY <1>2, <2>1, <2>2 DEF WillBe, Held
  <2>4. QED
    BY <2>1, <2>3 DEF Agree
<1>7. SwitchesAgree'
  BY <1>6 DEF SwitchesAgree, Switches
<1>8. DndKept'
  <2>1. CASE dnd'.phase # "none"
    <3>1. ok /\ dnd' = dnd /\ pref' = pref
      BY <1>1, <2>1 DEF SoundInv, DeadIsQuiet, StoreIsCurrent
    <3>2. ASSUME NEW n, NEW v, WillBe("pref", n, v) PROVE WillBe("pref", n, v)'
      BY <1>2, <3>1, <3>2 DEF WillBe, Held
    <3>3. property'["RingerOn"] = property["RingerOn"]
      <4>1. Agree("RingerOn")
        BY <2>1, <3>1 DEF SoundInv, SwitchesAgree
      <4>2. pref["RingerOn"] = property["RingerOn"]
        BY <1>2, <4>1 DEF Agree, WillBe, Held
      <4>3. QED
        BY <1>6, <3>1, <4>2 DEF Switches
    <3>4. ASSUME NEW v, WillBe("property", "RingerOn", v)
          PROVE  WillBe("property", "RingerOn", v)'
      BY <1>2, <3>3, <3>4 DEF WillBe, Held
    <3>5. ASSUME NEW p, SavedWillBe(p) PROVE SavedWillBe(p)'
      BY <3>2, <3>5 DEF SavedWillBe
    <3>6. ASSUME NEW p, ProfileWillBe(p) PROVE ProfileWillBe(p)'
      BY <3>2, <3>4, <3>6 DEF ProfileWillBe
    <3>7. QED
      BY <3>1, <3>5, <3>6 DEF DndKept, SoundInv
  <2>2. CASE dnd'.phase = "none"
    BY <2>2 DEF DndKept
  <2>3. QED
    BY <2>1, <2>2
<1>9. QED
  BY <1>4, <1>5, <1>7, <1>8 DEF SoundInv

-----------------------------------------------------------------------------
(* The theorems.                                                           *)

\* The state of a first start.
LEMMA SoundInitially == Init => SoundInv
<1> SUFFICES ASSUME Init PROVE SoundInv
  OBVIOUS
<1>1. Defaults \in [Names -> BOOLEAN] /\ Switches \subseteq Names
  BY DEF Defaults, Names
<1>2. TypeOK
  <2>1. todo \in Seq(Tasks)
    BY EmptySeq DEF Init
  <2>2. property \in [Switches -> BOOLEAN]
    BY <1>1 DEF Init
  <2>3. failures \in 0 .. MaxFailures
    BY SoundProfileAssumption DEF Init
  <2>4. dnd \in [phase : {"none", "on", "back"}, profile : Profiles \cup {Unknown}]
    BY DEF Init
  <2>5. QED
    BY <1>1, <2>1, <2>2, <2>3, <2>4 DEF Init, TypeOK
<1>3. Todo = {} /\ todo = <<>>
  BY TasksOfTuples DEF Todo, Init
<1>4. ASSUME NEW s \in Switches PROVE Agree(s)
  <2>1. PICK v \in BOOLEAN : v = Defaults[s]
    BY <1>1
  <2>2. WillBe("pref", s, v) /\ WillBe("property", s, v)
    BY <1>3, <2>1 DEF WillBe, Held, Init
  <2>3. QED
    BY <2>2 DEF Agree
<1>5. QED
  BY <1>2, <1>4 DEF SoundInv, StoreIsCurrent, DeadIsQuiet, SwitchesAgree, DndKept,
     SubscribersWillKnow, Init

\* Every handler, every task of one, and the end and start of audiod.
LEMMA SoundStep == SoundInv /\ [Next]_vars => SoundInv'
<1> SUFFICES ASSUME SoundInv, [Next]_vars PROVE SoundInv'
  OBVIOUS
<1>1. CASE Step
  BY <1>1, StepSound
<1>2. ASSUME NEW b \in BOOLEAN, SetRingerSwitch(b) \/ RefuseSoundProfile(b)
      PROVE  SoundInv'
  BY <1>2, SilentChangeSound DEF SetRingerSwitch, RefuseSoundProfile
<1>3. ASSUME NEW b \in BOOLEAN, SetDndMode(b) PROVE SoundInv'
  <2>1. CASE b = TRUE
    BY <1>3, <2>1, DndOnSound
  <2>2. CASE b = FALSE
    BY <1>3, <2>2, DndOffSound
  <2>3. QED
    BY <2>1, <2>2
<1>4. ASSUME NEW b \in BOOLEAN, SetTouchSound(b) \/ Start(b) PROVE SoundInv'
  BY <1>4, TouchSound, StartSound
<1>5. ASSUME NEW r \in BOOLEAN, NEW v \in BOOLEAN, SetSoundProfile(r, v) PROVE SoundInv'
  BY <1>5, SetProfileSound
<1>6. ASSUME NEW n \in Requested, NEW v \in BOOLEAN, SetPreferenceRequest(n, v)
      PROVE  SoundInv'
  BY <1>6, RequestSound
<1>7. CASE Die
  BY <1>7, DieSound
<1>8. CASE UNCHANGED vars
  <2>1. UNCHANGED <<running, pref, property, stored, todo, told, failures, failed, apart,
                    quiet, dnd>>
    BY <1>8 DEF vars
  <2>2. Todo' = Todo /\ Shown' = Shown
    BY <2>1 DEF Todo, Shown, Profile
  <2>3. ASSUME NEW kind, NEW n, NEW v PROVE WillBe(kind, n, v)' <=> WillBe(kind, n, v)
    BY <2>1, <2>2 DEF WillBe, Held
  <2>4. SwitchesAgree'
    BY <2>1, <2>3 DEF SoundInv, SwitchesAgree, Agree
  <2>5. DndKept'
    BY <2>1, <2>3 DEF SoundInv, DndKept, SavedWillBe, ProfileWillBe
  <2>6. TypeOK' /\ StoreIsCurrent' /\ DeadIsQuiet' /\ SubscribersWillKnow'
    BY <2>1, <2>2 DEF SoundInv, TypeOK, StoreIsCurrent, DeadIsQuiet, SubscribersWillKnow
  <2>7. QED
    BY <2>4, <2>5, <2>6 DEF SoundInv
<1>9. QED
  BY <1>1, <1>2, <1>3, <1>4, <1>5, <1>6, <1>7, <1>8 DEF Next

\* The invariant holds of the specification.
LEMMA SoundAlways == Spec => []SoundInv
BY SoundInitially, SoundStep, PTL DEF Spec

\* The variables keep their types, and todo is made of tasks.
THEOREM SoundTypes == Spec => []TypeOK
BY SoundAlways, PTL DEF SoundInv

\* A shared property that processes read is the preference it stands for: across
\* every handler, and the end of audiod between any two tasks of one.
THEOREM PropertyStaysPreference == Spec => []PropertyIsPreference
<1>1. SoundInv => PropertyIsPreference
  <2> SUFFICES ASSUME SoundInv, Idle, NEW s \in Switches \ apart
               PROVE  property[s] = pref[s]
    BY DEF PropertyIsPreference
  <2>1. QED
    BY AgreeNow
<1>2. QED
  BY <1>1, SoundAlways, PTL

\* setDndMode saves the profile before it silences it and gives back what it saved,
\* whatever handlers come in between and wherever audiod ends.
THEOREM DndGivesBackAlways == Spec => []DndGivesBack
<1>1. SoundInv => DndGivesBack
  <2> SUFFICES ASSUME SoundInv, Idle PROVE
        /\ dnd.phase = "on" =>
             /\ pref["DndOn"]
             /\ dnd.profile = [ringer |-> pref["PrevRingerOn"],
                               vibrateOn |-> pref["PrevVibrateWhenRingerOn"],
                               vibrateOff |-> pref["PrevVibrateWhenRingerOff"]]
        /\ dnd.phase = "back" => Profile = dnd.profile
    BY DEF DndGivesBack
  <2>1. todo = <<>> /\ DndKept
    BY DEF SoundInv, Idle
  <2>2. ASSUME NEW p \in Profiles, SavedWillBe(p)
        PROVE  /\ pref["DndOn"]
               /\ p = [ringer |-> pref["PrevRingerOn"],
                       vibrateOn |-> pref["PrevVibrateWhenRingerOn"],
                       vibrateOff |-> pref["PrevVibrateWhenRingerOff"]]
    BY <2>1, <2>2, IdleIs DEF SavedWillBe, Held, Profiles
  <2>3. ASSUME NEW p \in Profiles, ProfileWillBe(p) PROVE Profile = p
    BY <2>1, <2>3, IdleIs DEF ProfileWillBe, Held, Profiles, Profile
  <2>4. QED
    BY <2>1, <2>2, <2>3 DEF DndKept
<1>2. QED
  BY <1>1, SoundAlways, PTL

\* Whoever subscribed to getSoundProfile was sent the profile in force, when no
\* handler is under way and the last change was one that is told.
THEOREM SubscribersAlwaysKnow == Spec => []SubscribersKnowProfile
<1>1. SoundInv => SubscribersKnowProfile
  BY DEF SoundInv, SubscribersWillKnow, SubscribersKnowProfile, Idle
<1>2. QED
  BY <1>1, SoundAlways, PTL
=============================================================================
