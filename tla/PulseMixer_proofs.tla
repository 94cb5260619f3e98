------------------------- MODULE PulseMixer_proofs --------------------------
(***************************************************************************)
(* Theorems of PulseMixer and of Recording, the two directions of the      *)
(* PulseAudio mixer, for any finite set of sinks and any bounds.           *)
(*                                                                         *)
(* Output: CountsConverge is inductive only when it also speaks of the     *)
(* messages of a PulseAudio that is gone, of which HangUp still reads one: *)
(* they lead through legal counts, to wherever.  HeardAtWantedVolume rests *)
(* on two facts: the table has what the module wants, since the modules    *)
(* hear of every first stream (SinksAgree); and the table is what          *)
(* PulseAudio was told, as long as no send fails.  Besides: a retry is     *)
(* pending without a connection, and the device is active as long as any   *)
(* stream is counted.                                                      *)
(*                                                                         *)
(* Input: RecordingInv says why the microphone is on, by need or by a      *)
(* deadline that a timer is there to notice, and that the streams counted  *)
(* are those that are open.  With it Recording implements Microphone.      *)
(***************************************************************************)
EXTENDS PulseMixer, Recording, FiniteSetTheorems, SequenceTheorems, TLAPS

LinkInv ==
  /\ peer => up /\ channel
  /\ ~channel => wire = <<>>

CountsLead ==
  \A s \in Sinks : \E c \in [0 .. Len(wire) -> 0 .. MaxStreams] :
    AreCounts(c, s) /\ (peer => c[Len(wire)] = opened[s])

\* What audiod's three records of the streams have in common.
SinksAgree ==
  /\ playing = {s \in Sinks : count[s] > 0}
  /\ heard = playing

\* The table has the volume that the module wants, for the sinks that matter.
TableIsWanted ==
  channel => \A s \in Sinks : (count[s] > 0 \/ s \in NeverMuted) => table[s] = wanted[s]

\* The table is what PulseAudio was told.
TableIsTold == (peer /\ ~SendMayFail) => told = table

MixerInv ==
  /\ TypeOK
  /\ LinkInv
  /\ CountsLead
  /\ SinksAgree
  /\ TableIsWanted
  /\ TableIsTold

-----------------------------------------------------------------------------
(* Announcements that lead from one count to another.                      *)

\* The messages w, read one by one, take n streams of s to m.
Leads(w, s, n, m) ==
  \E c \in [0 .. Len(w) -> 0 .. MaxStreams] :
    /\ c[0] = n /\ c[Len(w)] = m
    /\ \A i \in 1 .. Len(w) : c[i] = Announced(w[i], s, c[i - 1])

\* The invariant in these words.
LEMMA CountsLeadWire ==
  CountsLead <=>
    \A s \in Sinks : \E m : Leads(wire, s, count[s], m) /\ (peer => m = opened[s])
<1>1. ASSUME NEW s \in Sinks,
             NEW c \in [0 .. Len(wire) -> 0 .. MaxStreams],
             AreCounts(c, s), peer => c[Len(wire)] = opened[s]
      PROVE  \E m : Leads(wire, s, count[s], m) /\ (peer => m = opened[s])
  BY <1>1 DEF AreCounts, Leads
<1>2. ASSUME NEW s \in Sinks, NEW m, Leads(wire, s, count[s], m), peer => m = opened[s]
      PROVE  \E c \in [0 .. Len(wire) -> 0 .. MaxStreams] :
               AreCounts(c, s) /\ (peer => c[Len(wire)] = opened[s])
  BY <1>2 DEF AreCounts, Leads
<1>3. QED
  BY <1>1, <1>2 DEF CountsLead

\* The same of the next state.
LEMMA CountsLeadWireNext ==
  (\A s \in Sinks : \E m : Leads(wire, s, count[s], m) /\ (peer => m = opened[s]))'
    => CountsLead'
BY CountsLeadWire, PTL

\* Nothing to read leaves the count as it is.
LEMMA LeadsNowhere ==
  ASSUME NEW s, NEW n \in 0 .. MaxStreams
  PROVE  Leads(<<>>, s, n, n)
<1> DEFINE c == [i \in 0 .. 0 |-> n]
<1>1. Len(<<>>) = 0
  OBVIOUS
<1>2. c \in [0 .. 0 -> 0 .. MaxStreams] /\ c[0] = n
  OBVIOUS
<1>3. \A i \in 1 .. 0 : FALSE
  OBVIOUS
<1> HIDE DEF c
<1>4. QED
  BY <1>1, <1>2, <1>3 DEF Leads

\* One message more leads one further.
LEMMA LeadsFurther ==
  ASSUME NEW w \in Seq(Messages), NEW msg \in Messages, NEW s, NEW n, NEW m,
         Leads(w, s, n, m), Announced(msg, s, m) \in 0 .. MaxStreams
  PROVE  Leads(Append(w, msg), s, n, Announced(msg, s, m))
<1>1. PICK c \in [0 .. Len(w) -> 0 .. MaxStreams] :
        /\ c[0] = n /\ c[Len(w)] = m
        /\ \A i \in 1 .. Len(w) : c[i] = Announced(w[i], s, c[i - 1])
  BY DEF Leads
<1> DEFINE x == Append(w, msg)
           l == Len(w)
           d == [i \in 0 .. l + 1 |-> IF i <= l THEN c[i] ELSE Announced(msg, s, m)]
<1>2. /\ l \in Nat /\ Len(x) = l + 1 /\ x[l + 1] = msg
      /\ \A i \in 1 .. l : x[i] = w[i]
  OBVIOUS
<1>3. d \in [0 .. l + 1 -> 0 .. MaxStreams]
  BY <1>2
<1>4. /\ d[0] = n /\ d[l] = m /\ d[l + 1] = Announced(msg, s, m)
      /\ \A i \in 0 .. l : d[i] = c[i]
  BY <1>1, <1>2
<1> HIDE DEF x, l, d
<1>5. ASSUME NEW i \in 1 .. l + 1 PROVE d[i] = Announced(x[i], s, d[i - 1])
  <2>1. CASE i = l + 1
    BY <1>2, <1>4, <2>1
  <2>2. CASE i # l + 1
    <3>1. i \in 1 .. l /\ i - 1 \in 0 .. l /\ i \in 0 .. l
      BY <1>2, <2>2
    <3>2. c[i] = Announced(w[i], s, c[i - 1])
      BY <1>1, <3>1 DEF l
    <3>3. QED
      BY <1>2, <1>4, <3>1, <3>2
  <2>3. QED
    BY <2>1, <2>2
<1>6. Leads(x, s, n, Announced(msg, s, m))
  BY <1>2, <1>3, <1>4, <1>5 DEF Leads
<1>7. QED
  BY <1>6 DEF x

\* Reading the first message leaves the others.
LEMMA LeadsOn ==
  ASSUME NEW w \in Seq(Messages), w # <<>>, NEW s, NEW n, NEW m, Leads(w, s, n, m)
  PROVE  /\ Announced(Head(w), s, n) \in 0 .. MaxStreams
         /\ Leads(Tail(w), s, Announced(Head(w), s, n), m)
<1>1. PICK c \in [0 .. Len(w) -> 0 .. MaxStreams] :
        /\ c[0] = n /\ c[Len(w)] = m
        /\ \A i \in 1 .. Len(w) : c[i] = Announced(w[i], s, c[i - 1])
  BY DEF Leads
<1> DEFINE x == Tail(w)
           l == Len(w)
           d == [i \in 0 .. l - 1 |-> c[i + 1]]
<1>2. /\ l \in Nat \ {0} /\ Len(x) = l - 1 /\ Head(w) = w[1]
      /\ \A i \in 1 .. l - 1 : x[i] = w[i + 1]
  BY EmptySeq
<1>3. c[1] = Announced(Head(w), s, n) /\ c[1] \in 0 .. MaxStreams
  BY <1>1, <1>2
<1>4. d \in [0 .. l - 1 -> 0 .. MaxStreams]
  BY <1>2
<1>5. /\ d[0] = c[1] /\ d[l - 1] = m
      /\ \A i \in 0 .. l - 1 : d[i] = c[i + 1]
  BY <1>1, <1>2
<1> HIDE DEF x, l, d
<1>6. ASSUME NEW i \in 1 .. l - 1 PROVE d[i] = Announced(x[i], s, d[i - 1])
  <2>1. i \in 0 .. l - 1 /\ i - 1 \in 0 .. l - 1 /\ i + 1 \in 1 .. l /\ (i + 1) - 1 = i
        /\ (i - 1) + 1 = i
    BY <1>2
  <2>2. c[i + 1] = Announced(w[i + 1], s, c[i])
    BY <1>1, <2>1 DEF l
  <2>3. d[i] = c[i + 1] /\ d[i - 1] = c[i]
    BY <1>5, <2>1
  <2>4. QED
    BY <1>2, <2>2, <2>3
<1>7. Leads(x, s, c[1], m)
  BY <1>2, <1>4, <1>5, <1>6 DEF Leads
<1>8. QED
  BY <1>3, <1>7 DEF x

-----------------------------------------------------------------------------
(* What PulseAudio announces to a new connection.                          *)

\* SetToSeq lists every element of a finite set once.
LEMMA ListsOnce ==
  ASSUME NEW S, IsFiniteSet(S)
  PROVE  /\ SetToSeq(S) \in Seq(S)
         /\ \A i, j \in 1 .. Len(SetToSeq(S)) :
              SetToSeq(S)[i] = SetToSeq(S)[j] => i = j
         /\ \A x \in S : \E i \in 1 .. Len(SetToSeq(S)) : SetToSeq(S)[i] = x
<1> DEFINE n == Cardinality(S)
           f == SetToSeq(S)
<1>1. n \in Nat /\ ExistsBijection(1 .. n, S)
  BY FS_CardinalityType
<1>2. \E g \in [1 .. n -> S] : IsInjective(g)
  BY <1>1 DEF ExistsBijection, Bijection, Injection
<1>3. f \in [1 .. n -> S] /\ IsInjective(f)
  BY <1>2 DEF SetToSeq
<1> HIDE DEF f
<1>4. f \in Seq(S) /\ Len(f) = n
  BY <1>1, <1>3
<1>5. f \in Surjection(1 .. n, S)
  <2>1. f \in Injection(1 .. n, S)
    BY <1>3 DEF Injection
  <2>2. Cardinality(1 .. n) = n
    BY <1>1, FS_Interval
  <2>3. QED
    BY <2>1, <2>2, FS_Injection
<1>6. \A x \in S : \E i \in 1 .. n : f[i] = x
  BY <1>5 DEF Surjection
<1>7. \A i, j \in 1 .. n : f[i] = f[j] => i = j
  BY <1>3 DEF IsInjective
<1>8. QED
  BY <1>4, <1>6, <1>7 DEF f

\* The streams that are open already, as PulseAudio announces them.
Opening(s, n) == [cmd |-> "O", sink |-> s, n |-> n]

OpenAlready(counts) ==
  SetToSeq({[cmd |-> "O", sink |-> s, n |-> counts[s]] :
              s \in {r \in Sinks : counts[r] > 0}})

\* The initial count of a sink is a message.
LEMMA OpeningIsMessage ==
  ASSUME NEW s \in Sinks, NEW n \in 0 .. MaxStreams
  PROVE  Opening(s, n) \in Messages
BY DEF Opening, Messages

\* They take every count from 0 to the streams open.
LEMMA LeadsFromZero ==
  ASSUME NEW counts \in [Sinks -> 0 .. MaxStreams]
  PROVE  /\ OpenAlready(counts) \in Seq(Messages)
         /\ \A s \in Sinks : Leads(OpenAlready(counts), s, 0, counts[s])
<1> DEFINE R == {r \in Sinks : counts[r] > 0}
           M == {Opening(s, counts[s]) : s \in R}
           w == OpenAlready(counts)
           l == Len(w)
<1>1. IsFiniteSet(M)
  <2>1. IsFiniteSet(R)
    BY PulseMixerAssumption, FS_Subset
  <2>2. PICK f : f = [s \in R |-> Opening(s, counts[s])]
    OBVIOUS
  <2>3. f \in Surjection(R, M)
    BY <2>2 DEF Surjection
  <2>4. QED
    BY <2>1, <2>3, FS_Surjection
<1>2. w = SetToSeq(M)
  BY DEF OpenAlready, Opening
<1>3. /\ w \in Seq(M)
      /\ \A i, j \in 1 .. l : w[i] = w[j] => i = j
      /\ \A x \in M : \E i \in 1 .. l : w[i] = x
  <2> HIDE DEF M, w
  <2>1. QED
    BY <1>1, <1>2, ListsOnce
<1>4. M \subseteq Messages
  BY OpeningIsMessage
<1>5. w \in Seq(Messages)
  <2> HIDE DEF w, M
  <2>1. QED
    BY <1>3, <1>4
<1>6. \A s \in R : Opening(s, counts[s]).cmd = "O" /\ Opening(s, counts[s]).sink = s
                   /\ Opening(s, counts[s]).n = counts[s]
  BY DEF Opening
<1>7. \A i \in 1 .. l : \E s \in R : w[i] = Opening(s, counts[s])
  <2> HIDE DEF w
  <2>1. \A i \in 1 .. l : w[i] \in M
    BY <1>3
  <2>2. QED
    BY <2>1
<1>8. ASSUME NEW s \in Sinks PROVE Leads(w, s, 0, counts[s])
  <2> HIDE DEF w
  <2>0. l \in Nat
    BY <1>3
  <2>1. CASE s \notin R
    <3>1. counts[s] = 0
      BY <2>1
    <3>2. ASSUME NEW i \in 1 .. l PROVE w[i].sink # s
      BY <1>6, <1>7, <2>1
    <3> DEFINE c == [i \in 0 .. l |-> 0]
    <3>3. c \in [0 .. l -> 0 .. MaxStreams] /\ c[0] = 0 /\ c[l] = 0
      BY <2>0, PulseMixerAssumption
    <3>4. ASSUME NEW i \in 1 .. l PROVE c[i] = Announced(w[i], s, c[i - 1])
      BY <2>0, <3>2 DEF Announced
    <3> HIDE DEF c
    <3>5. QED
      BY <3>1, <3>3, <3>4 DEF Leads
  <2>2. CASE s \in R
    <3>1. PICK k \in 1 .. l : w[k] = Opening(s, counts[s])
      BY <1>3, <2>2
    <3>2. ASSUME NEW i \in 1 .. l, i # k PROVE w[i].sink # s
      <4>1. PICK r \in R : w[i] = Opening(r, counts[r])
        BY <1>7
      <4>2. r # s
        BY <1>3, <3>1, <3>2, <4>1
      <4>3. QED
        BY <1>6, <4>1, <4>2
    <3> DEFINE c == [i \in 0 .. l |-> IF i < k THEN 0 ELSE counts[s]]
    <3>3. c \in [0 .. l -> 0 .. MaxStreams] /\ c[0] = 0 /\ c[l] = counts[s]
      BY <2>0, PulseMixerAssumption
    <3>4. ASSUME NEW i \in 1 .. l PROVE c[i] = Announced(w[i], s, c[i - 1])
      <4>1. CASE i = k
        <5>1. w[i].cmd = "O" /\ w[i].sink = s /\ w[i].n = counts[s]
          BY <1>6, <2>2, <3>1, <4>1
        <5>2. c[i] = counts[s]
          BY <2>0, <4>1
        <5>3. QED
          BY <5>1, <5>2 DEF Announced
      <4>2. CASE i # k
        <5>1. c[i] = c[i - 1]
          BY <2>0, <4>2
        <5>2. QED
          BY <3>2, <4>2, <5>1 DEF Announced
      <4>3. QED
        BY <4>1, <4>2
    <3> HIDE DEF c
    <3>5. QED
      BY <3>3, <3>4 DEF Leads
  <2>3. QED
    BY <2>1, <2>2
<1>9. QED
  BY <1>5, <1>8

-----------------------------------------------------------------------------
(* Counting.                                                               *)

\* Max of the community modules, of 0 and one more number.
LEMMA MaxWithZero ==
  ASSUME NEW x \in Int
  PROVE  Max({0, x}) = IF x > 0 THEN x ELSE 0
<1> DEFINE m == IF x > 0 THEN x ELSE 0
<1>1. m \in {0, x} /\ \A y \in {0, x} : m >= y
  OBVIOUS
<1>2. ASSUME NEW z \in {0, x}, \A y \in {0, x} : z >= y PROVE z = m
  BY <1>2
<1> HIDE DEF m
<1>3. Max({0, x}) = m
  BY <1>1, <1>2 DEF Max
<1>4. QED
  BY <1>3 DEF m

\* The fields of a message.
LEMMA MessageFields ==
  ASSUME NEW msg \in Messages
  PROVE  /\ msg.sink \in Sinks
         /\ \/ msg.cmd = "o" \/ msg.cmd = "c"
            \/ msg.cmd = "O" /\ msg.n \in 0 .. MaxStreams
BY DEF Messages

\* A message that takes the count of its sink to a legal one is counted so: the
\* limits at 0 change nothing.
LEMMA CountsMessage ==
  ASSUME TypeOK, NEW msg \in Messages, CountMessage(msg),
         Announced(msg, msg.sink, count[msg.sink]) \in 0 .. MaxStreams
  PROVE  /\ OpenCloseSink(msg.sink, Announced(msg, msg.sink, count[msg.sink]))
         /\ total' \in Nat /\ device' \in BOOLEAN
<1>1. PICK s, n : s = msg.sink /\ n = count[s]
  OBVIOUS
<1>2. s \in Sinks /\ n \in 0 .. MaxStreams
  BY <1>1, MessageFields DEF TypeOK
<1>3. MaxStreams \in Nat /\ total \in Nat /\ device \in BOOLEAN
  BY PulseMixerAssumption DEF TypeOK
<1>4. ASSUME NEW k \in Nat, Closed(s, k)
      PROVE  total' \in Nat /\ device' \in BOOLEAN
  <2>1. total' = Max({0, total - k})
    BY <1>4 DEF Closed
  <2>2. total - k \in Int
    BY <1>3
  <2>3. total' \in Nat
    BY <2>1, <2>2, MaxWithZero
  <2>4. QED
    BY <1>3, <1>4, <2>3 DEF Closed
<1>5. ASSUME NEW k \in Nat, Opened(s, k)
      PROVE  total' \in Nat /\ device' \in BOOLEAN
  BY <1>3, <1>5 DEF Opened
<1>6. CASE msg.cmd = "o"
  <2>1. Opened(s, 1) /\ Announced(msg, s, n) = n + 1
    BY <1>1, <1>6 DEF CountMessage, Announced
  <2>2. OpenCloseSink(s, n + 1)
    BY <1>1, <2>1 DEF Opened
  <2>3. QED
    BY <1>1, <1>5, <2>1, <2>2
<1>7. CASE msg.cmd = "c"
  <2>1. Closed(s, 1) /\ Announced(msg, s, n) = n - 1
    BY <1>1, <1>7 DEF CountMessage, Announced
  <2>2. n - 1 \in 0 .. MaxStreams
    BY <1>1, <2>1
  <2>3. Max({0, n - 1}) = n - 1
    BY <1>2, <2>2, MaxWithZero
  <2>4. OpenCloseSink(s, n - 1)
    BY <1>1, <2>1, <2>3 DEF Closed
  <2>5. QED
    BY <1>1, <1>4, <2>1, <2>4
<1>8. CASE msg.cmd = "O" /\ msg.n \in 0 .. MaxStreams
  <2>1. PICK m \in 0 .. MaxStreams : m = msg.n
    BY <1>8
  <2>2. Announced(msg, s, n) = m
    BY <1>1, <1>8, <2>1 DEF Announced
  <2>3. CASE m >= n
    <3>1. m - n \in Nat /\ n + (m - n) = m
      BY <1>2, <2>3
    <3>2. Opened(s, m - n)
      BY <1>1, <1>8, <2>1, <2>3 DEF CountMessage
    <3>3. OpenCloseSink(s, m)
      BY <1>1, <3>1, <3>2 DEF Opened
    <3>4. QED
      BY <1>1, <1>5, <2>2, <3>1, <3>2, <3>3
  <2>4. CASE ~(m >= n)
    <3>1. n - m \in Nat /\ n - (n - m) = m
      BY <1>2, <2>4
    <3>2. Closed(s, n - m)
      BY <1>1, <1>8, <2>1, <2>4 DEF CountMessage
    <3>3. Max({0, m}) = m
      BY <2>1, MaxWithZero
    <3>4. OpenCloseSink(s, m)
      BY <1>1, <3>1, <3>2, <3>3 DEF Closed
    <3>5. QED
      BY <1>1, <1>4, <2>2, <3>1, <3>2, <3>4
  <2>5. QED
    BY <2>3, <2>4
<1>9. QED
  BY <1>6, <1>7, <1>8, MessageFields

\* openCloseSink keeps audiod's records of a sink together, and its module hears
\* of the first stream.
LEMMA SinkCounted ==
  ASSUME TypeOK, SinksAgree, NEW s \in Sinks, NEW n \in 0 .. MaxStreams,
         OpenCloseSink(s, n)
  PROVE  /\ count' \in [Sinks -> 0 .. MaxStreams] /\ count'[s] = n
         /\ \A r \in Sinks : r # s => count'[r] = count[r]
         /\ SinksAgree' /\ playing' \subseteq Sinks /\ heard' \subseteq Sinks
         /\ s \in heard' \ heard <=> (count[s] = 0 /\ n > 0)
<1>1. /\ count \in [Sinks -> 0 .. MaxStreams]
      /\ count' = [count EXCEPT ![s] = n]
  BY DEF TypeOK, OpenCloseSink
<1>2. /\ count' \in [Sinks -> 0 .. MaxStreams] /\ count'[s] = n
      /\ \A r \in Sinks : r # s => count'[r] = count[r]
  BY <1>1
<1>3. playing' = IF n = 0 THEN playing \ {s} ELSE playing \cup {s}
  BY DEF OpenCloseSink
<1>4. playing = {r \in Sinks : count[r] > 0} /\ heard = playing
  BY DEF SinksAgree
<1>5. n > 0 <=> n # 0
  BY PulseMixerAssumption
<1>6. playing' = {r \in Sinks : count'[r] > 0}
  BY <1>2, <1>3, <1>4, <1>5
<1>7. heard' = playing'
  BY <1>3, <1>4 DEF OpenCloseSink
<1>8. count[s] = 0 <=> ~(count[s] > 0)
  BY <1>1, PulseMixerAssumption
<1>9. s \in heard' \ heard <=> (count[s] = 0 /\ n > 0)
  BY <1>2, <1>4, <1>6, <1>7, <1>8
<1>10. QED
  BY <1>2, <1>6, <1>7, <1>9 DEF SinksAgree

-----------------------------------------------------------------------------
(* Programming.                                                            *)

Tables == [Sinks -> Volumes \cup {Unknown}]

\* What a sink is told is a volume.
LEMMA EffectiveType ==
  ASSUME NEW s, NEW v \in Volumes, NEW cnt
  PROVE  Effective(s, v, cnt) \in Volumes
BY PulseMixerAssumption DEF Effective, Volumes

\* A sink that plays, or is never muted, gets what is wanted.
LEMMA EffectiveIsWanted ==
  ASSUME NEW s, NEW v, NEW cnt, cnt[s] > 0 \/ s \in NeverMuted, cnt[s] \in Nat
  PROVE  Effective(s, v, cnt) = v
BY DEF Effective

\* A command to a live PulseAudio is lost only if sends fail.
LEMMA NoLoss ==
  ASSUME NEW S, NEW live, live, ~SendMayFail, NEW lost \in Losses(S, live)
  PROVE  lost = {}
BY DEF Losses

\* programSource for the sinks of S: the table, and what PulseAudio is told.
LEMMA Programs ==
  ASSUME NEW S \in SUBSET Sinks, NEW cnt, NEW want \in [Sinks -> Volumes],
         NEW tab \in Tables, NEW live \in BOOLEAN, told \in Tables,
         Program(S, cnt, want, tab, live)
  PROVE  /\ table' \in Tables /\ told' \in Tables
         /\ \A s \in Sinks : table'[s] = IF s \in S THEN Effective(s, want[s], cnt)
                                         ELSE tab[s]
         /\ (live /\ ~SendMayFail /\ \A s \in Sinks : s \in S \/ told[s] = tab[s])
              /\ (\A s \in S : told[s] = tab[s] \/ tab[s] = Unknown)
              => told' = table'
<1> DEFINE val(s) == Effective(s, want[s], cnt)
           sent   == {s \in S : tab[s] # val(s)}
<1>1. table' = [s \in Sinks |-> IF s \in S THEN val(s) ELSE tab[s]]
  BY DEF Program
<1>2. PICK lost \in Losses(sent, live) :
        told' = [s \in Sinks |-> IF s \in sent \ lost THEN val(s) ELSE told[s]]
  BY DEF Program
<1>3. \A s \in Sinks : val(s) \in Volumes
  BY EffectiveType
<1> HIDE DEF val
<1>4. table' \in Tables
  BY <1>1, <1>3 DEF Tables
<1>5. told' \in Tables
  BY <1>2, <1>3 DEF Tables
<1>6. ASSUME live, ~SendMayFail, \A s \in Sinks : s \in S \/ told[s] = tab[s],
             \A s \in S : told[s] = tab[s] \/ tab[s] = Unknown
      PROVE  told' = table'
  <2>1. lost = {}
    BY <1>2, <1>6, NoLoss
  <2>2. ASSUME NEW s \in Sinks PROVE told'[s] = table'[s]
    <3>1. CASE s \in sent
      BY <1>1, <1>2, <2>1, <3>1
    <3>2. CASE s \in S /\ s \notin sent
      <4>1. told'[s] = told[s] /\ table'[s] = val(s) /\ tab[s] = val(s)
        BY <1>1, <1>2, <3>2
      <4>2. tab[s] # Unknown
        BY <1>3, <4>1, PulseMixerAssumption DEF Volumes, Unknown
      <4>3. QED
        BY <1>6, <3>2, <4>1, <4>2
    <3>3. CASE s \notin S
      BY <1>1, <1>2, <1>6, <3>3
    <3>4. QED
      BY <3>1, <3>2, <3>3
  <2>3. QED
    BY <1>4, <1>5, <2>2 DEF Tables
<1>7. QED
  BY <1>1, <1>4, <1>5, <1>6 DEF val

-----------------------------------------------------------------------------
(* The types, in four parts.                                               *)

PulseTypes ==
  /\ up \in BOOLEAN /\ peer \in BOOLEAN
  /\ opened \in [Sinks -> 0 .. MaxStreams] /\ wire \in Seq(Messages)

StreamTypes ==
  /\ count \in [Sinks -> 0 .. MaxStreams] /\ total \in Nat
  /\ playing \subseteq Sinks /\ heard \subseteq Sinks /\ device \in BOOLEAN

LinkTypes == channel \in BOOLEAN /\ timers \in Nat /\ timeout \in MinTimeout .. MaxTimeout

TableTypes == table \in Tables /\ told \in Tables /\ wanted \in [Sinks -> Volumes]

\* The types in parts, as the steps disturb them.
LEMMA TypesInParts == TypeOK <=> PulseTypes /\ StreamTypes /\ LinkTypes /\ TableTypes
BY DEF TypeOK, PulseTypes, StreamTypes, LinkTypes, TableTypes, Tables

LEMMA TypesNext == PulseTypes' /\ StreamTypes' /\ LinkTypes' /\ TableTypes' => TypeOK'
BY TypesInParts, PTL

\* What a step does not touch keeps its part of the invariant.
LEMMA StreamsStay ==
  StreamTypes /\ SinksAgree /\ UNCHANGED streamVars => StreamTypes' /\ SinksAgree'
BY DEF StreamTypes, SinksAgree, streamVars

LEMMA LinkStays == LinkTypes /\ UNCHANGED linkVars => LinkTypes'
BY DEF LinkTypes, linkVars

LEMMA CountsStay == CountsLead /\ UNCHANGED <<count, wire, peer, opened>> => CountsLead'
BY DEF CountsLead, AreCounts

-----------------------------------------------------------------------------
(* The invariant, action by action.                                        *)

\* At start there is no connection, and nothing is counted or told.
LEMMA MixerInitially == Init => MixerInv
<1> SUFFICES ASSUME Init PROVE MixerInv
  OBVIOUS
<1>1. MinTimeout \in MinTimeout .. MaxTimeout /\ 0 \in 0 .. MaxStreams
  BY PulseMixerAssumption
<1>2. PulseTypes /\ StreamTypes /\ LinkTypes
  <2>1. <<>> \in Seq(Messages)
    OBVIOUS
  <2>2. count \in [Sinks -> 0 .. MaxStreams] /\ opened \in [Sinks -> 0 .. MaxStreams]
    BY <1>1 DEF Init
  <2>3. timeout \in MinTimeout .. MaxTimeout
    BY <1>1 DEF Init
  <2>4. QED
    BY <2>1, <2>2, <2>3 DEF Init, PulseTypes, StreamTypes, LinkTypes
<1>3. TableTypes
  BY DEF Init, TableTypes, Tables
<1>4. LinkInv /\ SinksAgree /\ TableIsWanted /\ TableIsTold
  BY DEF Init, LinkInv, SinksAgree, TableIsWanted, TableIsTold
<1>5. ASSUME NEW s \in Sinks
      PROVE  \E m : Leads(wire, s, count[s], m) /\ (peer => m = opened[s])
  <2>1. wire = <<>> /\ count[s] = 0 /\ ~peer
    BY DEF Init
  <2>2. Leads(<<>>, s, 0, 0)
    BY <1>1, LeadsNowhere
  <2>3. QED
    BY <2>1, <2>2
<1>6. CountsLead
  BY <1>5, CountsLeadWire
<1>7. QED
  BY <1>2, <1>3, <1>4, <1>6, TypesInParts DEF MixerInv

\* A module changes its mind.
LEMMA SetVolumeKeeps ==
  ASSUME MixerInv, NEW s \in Sinks, SetVolume(s)
  PROVE  MixerInv'
<1>1. PulseTypes /\ StreamTypes /\ LinkTypes /\ TableTypes
  BY TypesInParts DEF MixerInv
<1>2. LinkInv /\ CountsLead /\ SinksAgree /\ TableIsWanted /\ TableIsTold
  BY DEF MixerInv
<1>3. UNCHANGED <<up, peer, opened, wire, linkVars, streamVars>>
  BY DEF SetVolume
<1>4. PICK v \in Volumes : wanted' = [wanted EXCEPT ![s] = v]
  BY DEF SetVolume
<1>5. wanted' \in [Sinks -> Volumes] /\ \A r \in Sinks : r # s => wanted'[r] = wanted[r]
  BY <1>1, <1>4 DEF TableTypes
<1>6. PulseTypes' /\ StreamTypes' /\ LinkTypes' /\ LinkInv' /\ CountsLead' /\ SinksAgree'
  BY <1>1, <1>2, <1>3, StreamsStay, LinkStays, CountsStay
     DEF PulseTypes, LinkInv, linkVars, streamVars
<1>7. UNCHANGED <<channel, count>>
  BY <1>3 DEF linkVars, streamVars
<1>8. CASE channel
  <2>1. PICK S, cnt, want, tab, live :
          S = {s} /\ cnt = count /\ want = wanted' /\ tab = table /\ live = peer
    OBVIOUS
  <2>2. Program(S, cnt, want, tab, live)
    BY <1>8, <2>1 DEF SetVolume
  <2>3. /\ want \in [Sinks -> Volumes] /\ tab \in Tables /\ live \in BOOLEAN
        /\ told \in Tables /\ S \in SUBSET Sinks
    BY <1>1, <1>5, <2>1 DEF TableTypes, PulseTypes
  <2>4. /\ table' \in Tables /\ told' \in Tables
        /\ \A r \in Sinks : table'[r] = IF r \in S THEN Effective(r, want[r], cnt)
                                        ELSE tab[r]
        /\ (live /\ ~SendMayFail /\ \A r \in Sinks : r \in S \/ told[r] = tab[r])
             /\ (\A r \in S : told[r] = tab[r] \/ tab[r] = Unknown)
             => told' = table'
    BY <2>2, <2>3, Programs
  <2>5. TableTypes'
    BY <1>5, <2>4 DEF TableTypes
  <2>6. TableIsTold'
    BY <1>2, <1>3, <2>1, <2>4 DEF TableIsTold
  <2>7. TableIsWanted'
    <3>1. ASSUME NEW r \in Sinks, count'[r] > 0 \/ r \in NeverMuted
          PROVE  table'[r] = wanted'[r]
      <4>1. CASE r = s
        <5>1. cnt[s] \in Nat /\ (cnt[s] > 0 \/ s \in NeverMuted)
          BY <1>1, <1>7, <2>1, <3>1, <4>1 DEF StreamTypes
        <5>2. Effective(s, want[s], cnt) = want[s]
          BY <5>1, EffectiveIsWanted
        <5>3. QED
          BY <2>1, <2>4, <4>1, <5>2
      <4>2. CASE r # s
        <5>1. table'[r] = table[r] /\ wanted'[r] = wanted[r]
          BY <1>5, <2>1, <2>4, <4>2
        <5>2. table[r] = wanted[r]
          BY <1>2, <1>7, <1>8, <3>1 DEF TableIsWanted
        <5>3. QED
          BY <5>1, <5>2
      <4>3. QED
        BY <4>1, <4>2
    <3>2. QED
      BY <3>1 DEF TableIsWanted
  <2>8. QED
    BY <1>6, <2>5, <2>6, <2>7, TypesNext DEF MixerInv
<1>9. CASE ~channel
  <2>1. UNCHANGED <<table, told>>
    BY <1>9 DEF SetVolume
  <2>2. TableTypes' /\ TableIsWanted' /\ TableIsTold'
    BY <1>1, <1>2, <1>3, <1>5, <1>7, <1>9, <2>1
       DEF TableTypes, TableIsWanted, TableIsTold
  <2>3. QED
    BY <1>6, <2>2, TypesNext DEF MixerInv
<1>10. QED
  BY <1>8, <1>9

\* The scenario changes: all is muted, then set again.
LEMMA HardwareKeeps ==
  ASSUME MixerInv, UpdateHardwareSettings
  PROVE  MixerInv'
<1>1. PulseTypes /\ StreamTypes /\ LinkTypes /\ TableTypes
  BY TypesInParts DEF MixerInv
<1>2. LinkInv /\ CountsLead /\ SinksAgree /\ TableIsWanted /\ TableIsTold
  BY DEF MixerInv
<1>3. UNCHANGED <<up, peer, opened, wire, linkVars, streamVars, wanted>>
  BY DEF UpdateHardwareSettings
<1>4. PulseTypes' /\ StreamTypes' /\ LinkTypes' /\ LinkInv' /\ CountsLead' /\ SinksAgree'
  BY <1>1, <1>2, <1>3, StreamsStay, LinkStays, CountsStay
     DEF PulseTypes, LinkInv, linkVars, streamVars
<1> DEFINE val(s) == Effective(s, wanted[s], count)
           muted  == {s \in Sinks : table[s] # 0}
           raised == {s \in Sinks : val(s) # 0}
<1>5. table' = [s \in Sinks |-> val(s)]
  BY DEF UpdateHardwareSettings
<1>6. PICK lost1 \in Losses(muted, peer), lost2 \in Losses(raised, peer) :
        told' = [s \in Sinks |-> IF s \in raised \ lost2 THEN val(s)
                                 ELSE IF s \in muted \ lost1 THEN 0
                                 ELSE told[s]]
  BY DEF UpdateHardwareSettings
<1>7. \A s \in Sinks : val(s) \in Volumes
  BY <1>1, EffectiveType DEF TableTypes
<1>8. ASSUME NEW s \in Sinks, count[s] > 0 \/ s \in NeverMuted PROVE val(s) = wanted[s]
  BY <1>1, <1>8, EffectiveIsWanted DEF StreamTypes
<1> HIDE DEF val
<1>9. 0 \in Volumes
  BY PulseMixerAssumption DEF Volumes
<1>10. table' \in Tables /\ told' \in Tables
  BY <1>1, <1>5, <1>6, <1>7, <1>9 DEF TableTypes, Tables
<1>11. TableTypes'
  BY <1>1, <1>3, <1>10 DEF TableTypes
<1>12. TableIsWanted'
  BY <1>3, <1>5, <1>8 DEF TableIsWanted, streamVars
<1>13. ASSUME peer, ~SendMayFail PROVE told' = table'
  <2>1. lost1 = {} /\ lost2 = {}
    BY <1>6, <1>13, NoLoss
  <2>2. told = table
    BY <1>2, <1>13 DEF TableIsTold
  <2>3. \A s \in Sinks : told'[s] = table'[s]
    BY <1>5, <1>6, <2>1, <2>2
  <2>4. QED
    BY <1>10, <2>3 DEF Tables
<1>14. TableIsTold'
  BY <1>3, <1>13 DEF TableIsTold
<1>15. QED
  BY <1>4, <1>11, <1>12, <1>14, TypesNext DEF MixerInv

\* The first announcement is read: counted, told to the module, which programs
\* its volume if the sink is new to it.
LEMMA Reads ==
  ASSUME MixerInv, channel, wire # <<>>, CountMessage(Head(wire)), Answer(Head(wire)),
         wanted' = wanted
  PROVE  /\ StreamTypes' /\ SinksAgree' /\ TableTypes'
         /\ \A s \in Sinks : count'[s] = Announced(Head(wire), s, count[s])
         /\ \A s \in Sinks : (count'[s] > 0 \/ s \in NeverMuted) => table'[s] = wanted'[s]
         /\ (peer /\ ~SendMayFail) => told' = table'
<1>1. TypeOK /\ PulseTypes /\ StreamTypes /\ LinkTypes /\ TableTypes
  BY TypesInParts DEF MixerInv
<1>2. LinkInv /\ CountsLead /\ SinksAgree /\ TableIsWanted /\ TableIsTold
  BY DEF MixerInv
<1>3. PICK msg : msg = Head(wire)
  OBVIOUS
<1>4. msg \in Messages /\ wire \in Seq(Messages)
  BY <1>1, <1>3 DEF PulseTypes
<1>5. PICK s \in Sinks : s = msg.sink
  BY <1>4, MessageFields
<1>6. PICK n : n = Announced(msg, s, count[s])
  OBVIOUS
<1>7. n \in 0 .. MaxStreams
  <2>1. PICK w, c, m : w = wire /\ c = count[s] /\ Leads(w, s, c, m)
    BY <1>2, CountsLeadWire
  <2>2. w \in Seq(Messages) /\ w # <<>>
    BY <1>4, <2>1
  <2>3. Announced(Head(w), s, c) \in 0 .. MaxStreams
    BY <2>1, <2>2, LeadsOn
  <2>4. QED
    BY <1>3, <1>6, <2>1, <2>3
<1>8. OpenCloseSink(s, n) /\ total' \in Nat /\ device' \in BOOLEAN
  <2>1. CountMessage(msg) /\ Announced(msg, msg.sink, count[msg.sink]) \in 0 .. MaxStreams
    BY <1>3, <1>5, <1>6, <1>7
  <2>2. QED
    BY <1>1, <1>4, <1>5, <1>6, <2>1, CountsMessage
<1>9. /\ count' \in [Sinks -> 0 .. MaxStreams] /\ count'[s] = n
      /\ \A r \in Sinks : r # s => count'[r] = count[r]
      /\ SinksAgree' /\ playing' \subseteq Sinks /\ heard' \subseteq Sinks
      /\ s \in heard' \ heard <=> (count[s] = 0 /\ n > 0)
  BY <1>1, <1>2, <1>7, <1>8, SinkCounted
<1>10. StreamTypes'
  BY <1>8, <1>9 DEF StreamTypes
<1>11. ASSUME NEW r \in Sinks PROVE count'[r] = Announced(Head(wire), r, count[r])
  <2>1. CASE r = s
    BY <1>3, <1>6, <1>9, <2>1
  <2>2. CASE r # s
    BY <1>3, <1>5, <1>9, <2>2 DEF Announced
  <2>3. QED
    BY <2>1, <2>2
<1>12. /\ TableTypes'
       /\ \A r \in Sinks : (count'[r] > 0 \/ r \in NeverMuted) => table'[r] = wanted'[r]
       /\ (peer /\ ~SendMayFail) => told' = table'
  <2>1. CASE s \in heard' \ heard
    <3>1. PICK S, cnt, want, tab, live :
            S = {s} /\ cnt = count' /\ want = wanted /\ tab = table /\ live = peer
      OBVIOUS
    <3>2. Program(S, cnt, want, tab, live)
      BY <1>3, <1>5, <2>1, <3>1 DEF Answer
    <3>3. /\ want \in [Sinks -> Volumes] /\ tab \in Tables /\ live \in BOOLEAN
          /\ told \in Tables /\ S \in SUBSET Sinks
      BY <1>1, <3>1 DEF TableTypes, PulseTypes
    <3>4. /\ table' \in Tables /\ told' \in Tables
          /\ \A r \in Sinks : table'[r] = IF r \in S THEN Effective(r, want[r], cnt)
                                          ELSE tab[r]
          /\ (live /\ ~SendMayFail /\ \A r \in Sinks : r \in S \/ told[r] = tab[r])
               /\ (\A r \in S : told[r] = tab[r] \/ tab[r] = Unknown)
               => told' = table'
      BY <3>2, <3>3, Programs
    <3>5. TableTypes'
      BY <1>1, <3>4 DEF TableTypes
    <3>6. (peer /\ ~SendMayFail) => told' = table'
      BY <1>2, <3>1, <3>4 DEF TableIsTold
    <3>7. ASSUME NEW r \in Sinks, count'[r] > 0 \/ r \in NeverMuted
          PROVE  table'[r] = wanted'[r]
      <4>1. CASE r = s
        <5>1. cnt[s] \in Nat /\ (cnt[s] > 0 \/ s \in NeverMuted)
          BY <1>9, <3>1, <3>7, <4>1
        <5>2. Effective(s, want[s], cnt) = want[s]
          BY <5>1, EffectiveIsWanted
        <5>3. QED
          BY <3>1, <3>4, <4>1, <5>2
      <4>2. CASE r # s
        <5>1. table'[r] = table[r] /\ count'[r] = count[r]
          BY <1>9, <3>1, <3>4, <4>2
        <5>2. QED
          BY <1>2, <3>7, <5>1 DEF TableIsWanted
      <4>3. QED
        BY <4>1, <4>2
    <3>8. QED
      BY <3>5, <3>6, <3>7
  <2>2. CASE s \notin heard' \ heard
    <3>1. UNCHANGED <<table, told>>
      BY <1>3, <1>5, <2>2 DEF Answer
    <3>2. ~(count[s] = 0 /\ n > 0)
      BY <1>9, <2>2
    <3>3. ASSUME NEW r \in Sinks, count'[r] > 0 \/ r \in NeverMuted
          PROVE  table'[r] = wanted'[r]
      <4>1. count[r] > 0 \/ r \in NeverMuted
        <5>1. CASE r = s
          <6>1. count[s] \in Nat
            BY <1>1 DEF StreamTypes
          <6>2. QED
            BY <1>9, <3>2, <3>3, <5>1, <6>1
        <5>2. CASE r # s
          BY <1>9, <3>3, <5>2
        <5>3. QED
          BY <5>1, <5>2
      <4>2. QED
        BY <1>2, <3>1, <4>1 DEF TableIsWanted
    <3>4. QED
      BY <1>1, <1>2, <3>1, <3>3 DEF TableTypes, TableIsTold
  <2>3. QED
    BY <2>1, <2>2
<1>13. QED
  BY <1>9, <1>10, <1>11, <1>12

\* A message that is read takes the count of its sink one message ahead.
LEMMA ReadKeeps ==
  ASSUME MixerInv, ReadMessage
  PROVE  MixerInv'
<1>1. PulseTypes /\ LinkTypes /\ LinkInv /\ CountsLead
  BY TypesInParts DEF MixerInv
<1>2. /\ channel /\ peer /\ wire # <<>> /\ wire' = Tail(wire)
      /\ UNCHANGED <<up, peer, opened, linkVars, wanted>>
  BY DEF ReadMessage
<1>3. /\ StreamTypes' /\ SinksAgree' /\ TableTypes'
      /\ \A s \in Sinks : count'[s] = Announced(Head(wire), s, count[s])
      /\ \A s \in Sinks : (count'[s] > 0 \/ s \in NeverMuted) => table'[s] = wanted'[s]
      /\ (peer /\ ~SendMayFail) => told' = table'
  BY <1>2, Reads DEF ReadMessage
<1>4. TableIsWanted' /\ TableIsTold'
  BY <1>2, <1>3 DEF TableIsWanted, TableIsTold
<1>5. PulseTypes' /\ LinkTypes' /\ LinkInv'
  <2>1. Tail(wire) \in Seq(Messages)
    BY <1>1, <1>2, HeadTailProperties DEF PulseTypes
  <2>2. PulseTypes'
    BY <1>1, <1>2, <2>1 DEF PulseTypes
  <2>3. LinkInv'
    BY <1>1, <1>2 DEF LinkInv, linkVars
  <2>4. QED
    BY <1>1, <1>2, <2>2, <2>3, LinkStays
<1>6. ASSUME NEW s \in Sinks
      PROVE  \E m : Leads(wire', s, count'[s], m) /\ (peer' => m = opened'[s])
  <2>1. PICK w, c, m :
          w = wire /\ c = count[s] /\ Leads(w, s, c, m) /\ (peer => m = opened[s])
    BY <1>1, CountsLeadWire
  <2>2. w \in Seq(Messages) /\ w # <<>>
    BY <1>1, <1>2, <2>1 DEF PulseTypes
  <2>3. Leads(Tail(w), s, Announced(Head(w), s, c), m)
    BY <2>1, <2>2, LeadsOn
  <2>4. QED
    BY <1>2, <1>3, <2>1, <2>3
<1>7. CountsLead'
  BY <1>6, CountsLeadWireNext
<1>8. QED
  BY <1>3, <1>4, <1>5, <1>7, TypesNext DEF MixerInv

\* PulseAudio is gone: at most one message is counted, the rest is dropped.
LEMMA HangUpKeeps ==
  ASSUME MixerInv, HangUp
  PROVE  MixerInv'
<1>1. PulseTypes /\ StreamTypes /\ LinkTypes /\ TableTypes /\ SinksAgree
  BY TypesInParts DEF MixerInv
<1>2. /\ channel /\ ~peer /\ wire' = <<>> /\ channel' = FALSE
      /\ timeout' = MinTimeout /\ timers' = timers + 1
      /\ UNCHANGED <<up, peer, opened, wanted>>
  BY DEF HangUp, RetriesPending
<1>3. StreamTypes' /\ SinksAgree' /\ TableTypes'
  <2>1. CASE wire # <<>>
    <3>1. CountMessage(Head(wire)) /\ Answer(Head(wire))
      BY <2>1 DEF HangUp
    <3>2. QED
      BY <1>2, <2>1, <3>1, Reads
  <2>2. CASE wire = <<>>
    <3>1. UNCHANGED <<streamVars, table, told>>
      BY <2>2 DEF HangUp
    <3>2. QED
      BY <1>1, <1>2, <3>1, StreamsStay DEF TableTypes
  <2>3. QED
    BY <2>1, <2>2
<1>4. PulseTypes'
  <2>1. <<>> \in Seq(Messages)
    OBVIOUS
  <2>2. QED
    BY <1>1, <1>2, <2>1 DEF PulseTypes
<1>5. LinkTypes'
  <2>1. MinTimeout \in MinTimeout .. MaxTimeout
    BY PulseMixerAssumption
  <2>2. timers + 1 \in Nat
    BY <1>1 DEF LinkTypes
  <2>3. QED
    BY <1>2, <2>1, <2>2 DEF LinkTypes
<1>6. LinkInv' /\ TableIsWanted' /\ TableIsTold'
  BY <1>2 DEF LinkInv, TableIsWanted, TableIsTold
<1>7. ASSUME NEW s \in Sinks
      PROVE  \E m : Leads(wire', s, count'[s], m) /\ (peer' => m = opened'[s])
  <2>1. PICK n \in 0 .. MaxStreams : n = count'[s]
    BY <1>3 DEF StreamTypes
  <2>2. Leads(<<>>, s, n, n)
    BY LeadsNowhere
  <2>3. QED
    BY <1>2, <2>1, <2>2
<1>8. CountsLead'
  BY <1>7, CountsLeadWireNext
<1>9. QED
  BY <1>3, <1>4, <1>5, <1>6, <1>8, TypesNext DEF MixerInv

\* The delay of a retry stays between the two bounds.
LEMMA DelayType ==
  ASSUME LinkTypes
  PROVE  NextTimeout \in MinTimeout .. MaxTimeout
BY PulseMixerAssumption DEF LinkTypes, NextTimeout

\* A connection that is refused changes only the timeout.
LEMMA RetryKeeps ==
  ASSUME MixerInv, RetryLater
  PROVE  MixerInv'
<1>1. PulseTypes /\ StreamTypes /\ LinkTypes /\ TableTypes
  BY TypesInParts DEF MixerInv
<1>2. LinkInv /\ CountsLead /\ SinksAgree /\ TableIsWanted /\ TableIsTold
  BY DEF MixerInv
<1>3. /\ timeout' = NextTimeout
      /\ UNCHANGED <<pulseVars, streamVars, channel, timers, table, wanted>>
  BY DEF RetryLater
<1>4. LinkTypes'
  BY <1>1, <1>3, DelayType DEF LinkTypes
<1>5. PulseTypes' /\ TableTypes' /\ LinkInv' /\ TableIsWanted' /\ TableIsTold'
  BY <1>1, <1>2, <1>3 DEF PulseTypes, TableTypes, LinkInv, TableIsWanted, TableIsTold,
                          pulseVars, streamVars
<1>6. CountsLead' /\ StreamTypes' /\ SinksAgree'
  BY <1>1, <1>2, <1>3, CountsStay, StreamsStay DEF pulseVars, streamVars
<1>7. QED
  BY <1>4, <1>5, <1>6, TypesNext DEF MixerInv

\* A new connection: everything starts again from zero, and is programmed.
LEMMA ConnectKeeps ==
  ASSUME MixerInv, Connect
  PROVE  MixerInv'
<1>1. PulseTypes /\ StreamTypes /\ LinkTypes /\ TableTypes /\ SinksAgree
  BY TypesInParts DEF MixerInv
<1>2. /\ timers > 0 /\ up /\ channel' = TRUE /\ peer' = TRUE
      /\ count' = [s \in Sinks |-> 0] /\ total' = 0 /\ playing' = {}
      /\ heard' = heard \ SinksClosed
      /\ device' = (device /\ SinksClosed = {})
      /\ wire' = OpenAlready(opened)
      /\ UNCHANGED <<up, opened, wanted>>
  BY DEF Connect, FreshCount, OpenAlready
<1>3. heard' = {}
  BY <1>1, <1>2 DEF SinksAgree, SinksClosed
<1>4. StreamTypes' /\ SinksAgree'
  <2>1. 0 \in 0 .. MaxStreams
    BY PulseMixerAssumption
  <2>2. count' \in [Sinks -> 0 .. MaxStreams] /\ \A s \in Sinks : ~(count'[s] > 0)
    BY <1>2, <2>1
  <2>3. device' \in BOOLEAN
    BY <1>1, <1>2 DEF StreamTypes
  <2>4. QED
    BY <1>2, <1>3, <2>2, <2>3 DEF StreamTypes, SinksAgree
<1>5. PulseTypes' /\ LinkInv'
  <2>1. OpenAlready(opened) \in Seq(Messages)
    BY <1>1, LeadsFromZero DEF PulseTypes
  <2>2. QED
    BY <1>1, <1>2, <2>1 DEF PulseTypes, LinkInv
<1>6. LinkTypes'
  <2>1. CASE timers' = timers - 1 /\ UNCHANGED timeout
    BY <1>1, <1>2, <2>1 DEF LinkTypes
  <2>2. CASE timeout' = NextTimeout /\ UNCHANGED timers
    BY <1>1, <1>2, <2>2, DelayType DEF LinkTypes
  <2>3. QED
    BY <2>1, <2>2 DEF Connect
<1>7. CountsLead'
  <2>1. ASSUME NEW s \in Sinks
        PROVE  \E m : Leads(wire', s, count'[s], m) /\ (peer' => m = opened'[s])
    <3>1. Leads(OpenAlready(opened), s, 0, opened[s])
      BY <1>1, LeadsFromZero DEF PulseTypes
    <3>2. QED
      BY <1>2, <3>1
  <2>2. QED
    BY <2>1, CountsLeadWireNext
<1>8. PICK S, cnt, want, tab, live :
        /\ S = Sinks /\ cnt = count' /\ want = wanted /\ tab = FreshTable /\ live = TRUE
        /\ Program(S, cnt, want, tab, live)
  <2>1. PICK S, cnt, want, tab, live :
          S = Sinks /\ cnt = count' /\ want = wanted /\ tab = FreshTable /\ live = TRUE
    OBVIOUS
  <2>2. Program(S, cnt, want, tab, live)
    BY <2>1 DEF Connect
  <2>3. QED
    BY <2>1, <2>2
<1>9. /\ want \in [Sinks -> Volumes] /\ tab \in Tables /\ live \in BOOLEAN
      /\ told \in Tables /\ S \in SUBSET Sinks
      /\ \A s \in Sinks : tab[s] = Unknown
  BY <1>1, <1>8 DEF TableTypes, Tables, FreshTable
<1>10. /\ table' \in Tables /\ told' \in Tables
       /\ \A r \in Sinks : table'[r] = IF r \in S THEN Effective(r, want[r], cnt)
                                       ELSE tab[r]
       /\ (live /\ ~SendMayFail /\ \A r \in Sinks : r \in S \/ told[r] = tab[r])
            /\ (\A r \in S : told[r] = tab[r] \/ tab[r] = Unknown)
            => told' = table'
  <2>1. Program(S, cnt, want, tab, live)
    BY <1>8
  <2>2. QED
    BY <1>9, <2>1, Programs
<1>11. TableTypes'
  BY <1>1, <1>2, <1>10 DEF TableTypes
<1>12. TableIsTold'
  <2>1. live /\ (\A r \in Sinks : r \in S \/ told[r] = tab[r])
             /\ (\A r \in S : told[r] = tab[r] \/ tab[r] = Unknown)
    BY <1>8, <1>9
  <2>2. QED
    BY <1>10, <2>1 DEF TableIsTold
<1>13. TableIsWanted'
  <2>1. ASSUME NEW s \in Sinks, count'[s] > 0 \/ s \in NeverMuted
        PROVE  table'[s] = wanted'[s]
    <3>1. cnt[s] \in Nat /\ (cnt[s] > 0 \/ s \in NeverMuted)
      BY <1>2, <1>8, <2>1
    <3>2. Effective(s, want[s], cnt) = want[s]
      BY <3>1, EffectiveIsWanted
    <3>3. QED
      BY <1>2, <1>8, <1>10, <3>2
  <2>2. QED
    BY <2>1 DEF TableIsWanted
<1>14. QED
  BY <1>4, <1>5, <1>6, <1>7, <1>11, <1>12, <1>13, TypesNext DEF MixerInv

\* PulseAudio announces what it opens and closes, when somebody listens.
LEMMA AnnounceKeeps ==
  ASSUME MixerInv, NEW s \in Sinks, NEW msg \in Messages,
         Announce(msg), opened' \in [Sinks -> 0 .. MaxStreams],
         \A r \in Sinks : opened'[r] = Announced(msg, r, opened[r]),
         UNCHANGED <<up, peer, told, linkVars, streamVars, table, wanted>>
  PROVE  MixerInv'
<1>1. PulseTypes /\ StreamTypes /\ LinkTypes /\ TableTypes
  BY TypesInParts DEF MixerInv
<1>2. LinkInv /\ CountsLead /\ SinksAgree /\ TableIsWanted /\ TableIsTold
  BY DEF MixerInv
<1>3. /\ StreamTypes' /\ SinksAgree' /\ LinkTypes'
      /\ TableTypes' /\ TableIsWanted' /\ TableIsTold'
  BY <1>1, <1>2, StreamsStay, LinkStays
     DEF TableTypes, TableIsWanted, TableIsTold, linkVars, streamVars
<1>4. wire' = IF peer THEN Append(wire, msg) ELSE wire
  BY DEF Announce
<1>5. PulseTypes' /\ LinkInv'
  <2>1. Append(wire, msg) \in Seq(Messages)
    BY <1>1 DEF PulseTypes
  <2>2. QED
    BY <1>1, <1>2, <1>4, <2>1 DEF PulseTypes, LinkInv, linkVars
<1>6. ASSUME NEW r \in Sinks
      PROVE  \E m : Leads(wire', r, count'[r], m) /\ (peer' => m = opened'[r])
  <2>1. PICK w, c, m :
          w = wire /\ c = count[r] /\ Leads(w, r, c, m) /\ (peer => m = opened[r])
    BY <1>2, CountsLeadWire
  <2>2. count' = count /\ peer' = peer
    BY DEF streamVars
  <2>3. CASE ~peer
    BY <1>4, <2>1, <2>2, <2>3
  <2>4. CASE peer
    <3>1. m = opened[r] /\ Announced(msg, r, m) = opened'[r]
      BY <2>1, <2>4
    <3>2. w \in Seq(Messages) /\ Announced(msg, r, m) \in 0 .. MaxStreams
      BY <1>1, <2>1, <3>1 DEF PulseTypes
    <3>3. Leads(Append(w, msg), r, c, Announced(msg, r, m))
      BY <2>1, <3>2, LeadsFurther
    <3>4. QED
      BY <1>4, <2>1, <2>2, <2>4, <3>1, <3>3
  <2>5. QED
    BY <2>3, <2>4
<1>7. CountsLead'
  BY <1>6, CountsLeadWireNext
<1>8. QED
  BY <1>3, <1>5, <1>7, TypesNext DEF MixerInv

\* A stream of PulseAudio puts its message on the wire.
LEMMA StreamKeeps ==
  ASSUME MixerInv, NEW s \in Sinks, StreamOpens(s) \/ StreamCloses(s)
  PROVE  MixerInv'
<1>1. opened \in [Sinks -> 0 .. MaxStreams]
  BY TypesInParts DEF MixerInv, PulseTypes
<1>2. MaxStreams \in Nat
  BY PulseMixerAssumption
<1>3. CASE StreamOpens(s)
  <2>1. PICK msg : msg = [cmd |-> "o", sink |-> s]
    OBVIOUS
  <2>2. msg \in Messages
    BY <2>1 DEF Messages
  <2>3. /\ opened[s] < MaxStreams /\ opened' = [opened EXCEPT ![s] = @ + 1]
        /\ Announce(msg)
        /\ UNCHANGED <<up, peer, told, linkVars, streamVars, table, wanted>>
    BY <1>3, <2>1 DEF StreamOpens
  <2>4. opened' \in [Sinks -> 0 .. MaxStreams]
    BY <1>1, <1>2, <2>3
  <2>5. \A r \in Sinks : opened'[r] = Announced(msg, r, opened[r])
    BY <1>1, <2>1, <2>3 DEF Announced
  <2>6. QED
    BY <2>2, <2>3, <2>4, <2>5, AnnounceKeeps
<1>4. CASE StreamCloses(s)
  <2>1. PICK msg : msg = [cmd |-> "c", sink |-> s]
    OBVIOUS
  <2>2. msg \in Messages
    BY <2>1 DEF Messages
  <2>3. /\ opened[s] > 0 /\ opened' = [opened EXCEPT ![s] = @ - 1]
        /\ Announce(msg)
        /\ UNCHANGED <<up, peer, told, linkVars, streamVars, table, wanted>>
    BY <1>4, <2>1 DEF StreamCloses
  <2>4. opened' \in [Sinks -> 0 .. MaxStreams]
    BY <1>1, <1>2, <2>3
  <2>5. \A r \in Sinks : opened'[r] = Announced(msg, r, opened[r])
    BY <1>1, <2>1, <2>3 DEF Announced
  <2>6. QED
    BY <2>2, <2>3, <2>4, <2>5, AnnounceKeeps
<1>5. QED
  BY <1>3, <1>4

\* PulseAudio starts, or stops with all its streams.
LEMMA PulseKeeps ==
  ASSUME MixerInv, PulseStarts \/ PulseStops
  PROVE  MixerInv'
<1>1. PulseTypes /\ StreamTypes /\ LinkTypes /\ TableTypes
  BY TypesInParts DEF MixerInv
<1>2. LinkInv /\ CountsLead /\ SinksAgree /\ TableIsWanted /\ TableIsTold
  BY DEF MixerInv
<1>3. UNCHANGED <<wire, linkVars, streamVars, table, wanted>> /\ ~peer'
  BY <1>2 DEF PulseStarts, PulseStops, LinkInv
<1>4. StreamTypes' /\ SinksAgree' /\ LinkTypes'
  BY <1>1, <1>2, <1>3, StreamsStay, LinkStays
<1>5. LinkInv' /\ TableIsWanted' /\ TableIsTold'
  BY <1>2, <1>3 DEF LinkInv, TableIsWanted, TableIsTold, linkVars, streamVars
<1>6. told' \in Tables /\ up' \in BOOLEAN /\ peer' \in BOOLEAN
  BY <1>1 DEF PulseStarts, PulseStops, TableTypes, PulseTypes, Tables
<1>7. opened' \in [Sinks -> 0 .. MaxStreams]
  BY <1>1, PulseMixerAssumption DEF PulseStarts, PulseStops, PulseTypes
<1>8. PulseTypes' /\ TableTypes'
  BY <1>1, <1>3, <1>6, <1>7 DEF PulseTypes, TableTypes
<1>9. ASSUME NEW s \in Sinks
      PROVE  \E m : Leads(wire', s, count'[s], m) /\ (peer' => m = opened'[s])
  <2>1. PICK m : Leads(wire, s, count[s], m)
    BY <1>2, CountsLeadWire
  <2>2. count' = count
    BY <1>3 DEF streamVars
  <2>3. QED
    BY <1>3, <2>1, <2>2
<1>10. CountsLead'
  BY <1>9, CountsLeadWireNext
<1>11. QED
  BY <1>4, <1>5, <1>8, <1>10, TypesNext DEF MixerInv

\* Every step keeps the invariant.
LEMMA MixerStep == MixerInv /\ [Next]_vars => MixerInv'
<1> SUFFICES ASSUME MixerInv, [Next]_vars PROVE MixerInv'
  OBVIOUS
<1>1. ASSUME NEW s \in Sinks, SetVolume(s) PROVE MixerInv'
  BY <1>1, SetVolumeKeeps
<1>2. CASE UpdateHardwareSettings
  BY <1>2, HardwareKeeps
<1>3. CASE ReadMessage
  BY <1>3, ReadKeeps
<1>4. CASE HangUp
  BY <1>4, HangUpKeeps
<1>5. CASE RetryLater
  BY <1>5, RetryKeeps
<1>6. CASE Connect
  BY <1>6, ConnectKeeps
<1>7. ASSUME NEW s \in Sinks, StreamOpens(s) \/ StreamCloses(s) PROVE MixerInv'
  BY <1>7, StreamKeeps
<1>8. CASE PulseStarts \/ PulseStops
  BY <1>8, PulseKeeps
<1>9. CASE UNCHANGED vars
  <2>1. PulseTypes' /\ StreamTypes' /\ LinkTypes' /\ TableTypes'
    BY <1>9, TypesInParts DEF MixerInv, vars, PulseTypes, StreamTypes, LinkTypes, TableTypes
  <2>2. LinkInv' /\ SinksAgree' /\ TableIsWanted' /\ TableIsTold'
    BY <1>9 DEF MixerInv, vars, LinkInv, SinksAgree, TableIsWanted, TableIsTold
  <2>3. CountsLead'
    BY <1>9, CountsStay DEF MixerInv, vars
  <2>4. QED
    BY <2>1, <2>2, <2>3, TypesNext DEF MixerInv
<1>10. QED
  BY <1>1, <1>2, <1>3, <1>4, <1>5, <1>6, <1>7, <1>8, <1>9 DEF Next, AudiodStep, PulseStep

-----------------------------------------------------------------------------
(* The theorems.                                                           *)

\* The invariant holds always.
LEMMA MixerAlways == Spec => []MixerInv
BY MixerInitially, MixerStep, PTL DEF Spec

\* The variables keep their types: no counter of audiod leaves the range of what
\* PulseAudio may have open, whatever is lost with a connection.
THEOREM MixerTypes == Spec => []TypeOK
<1>1. MixerInv => TypeOK
  BY DEF MixerInv
<1>2. QED
  BY <1>1, MixerAlways, PTL

\* Audiod's counters converge to the streams that PulseAudio has, through counts it
\* really had, before, during and after a reconnection.
THEOREM CountsAlwaysConverge == Spec => []CountsConverge
<1>1. MixerInv => CountsConverge
  BY DEF MixerInv, CountsLead, CountsConverge
<1>2. QED
  BY <1>1, MixerAlways, PTL

\* While connected, the volume table has what the module of every sink that plays or
\* is never muted wants, even if commands get lost.
THEOREM TableAlwaysWanted == Spec => []TableIsWanted
<1>1. MixerInv => TableIsWanted
  BY DEF MixerInv
<1>2. QED
  BY <1>1, MixerAlways, PTL

\* So does PulseAudio itself, if no send to it fails: no command that was skipped
\* because of the table was needed.
THEOREM HeardAlwaysWanted ==
  ASSUME ~SendMayFail
  PROVE  Spec => []HeardAtWantedVolume
<1>1. MixerInv => HeardAtWantedVolume
  BY DEF MixerInv, TableIsWanted, TableIsTold, HeardAtWantedVolume
<1>2. QED
  BY <1>1, MixerAlways, PTL

-----------------------------------------------------------------------------
(* Retries: a timer is pending whenever there is no connection.            *)

RetryPending ==
  /\ ~channel => timers > 0
  /\ ~ApiMayFail => timers = IF channel THEN 0 ELSE 1

LEMMA RetryStep ==
  ASSUME TypeOK, RetryPending, [Next]_vars
  PROVE  RetryPending'
<1>1. timers \in Nat /\ ApiMayFail \in BOOLEAN
  BY PulseMixerAssumption DEF TypeOK
<1>2. CASE HangUp
  <2>1. channel /\ channel' = FALSE /\ timers' = timers + 1
    BY <1>2 DEF HangUp, RetriesPending
  <2>2. QED
    BY <1>1, <2>1 DEF RetryPending
<1>3. CASE Connect
  <2>1. channel' = TRUE /\ timers > 0
    BY <1>3 DEF Connect
  <2>2. timers' = timers - 1 \/ ApiMayFail
    BY <1>3 DEF Connect
  <2>3. ~ApiMayFail => timers = 1
    BY <2>1 DEF RetryPending
  <2>4. QED
    BY <1>1, <2>1, <2>2, <2>3 DEF RetryPending
<1>4. CASE ~HangUp /\ ~Connect
  <2>1. UNCHANGED <<channel, timers>>
    BY <1>4 DEF Next, AudiodStep, PulseStep, SetVolume, UpdateHardwareSettings, ReadMessage,
       RetryLater, StreamOpens, StreamCloses, PulseStarts, PulseStops, linkVars, vars
  <2>2. QED
    BY <2>1 DEF RetryPending
<1>5. QED
  BY <1>2, <1>3, <1>4

\* No wake-up is lost: while there is no connection a call of _timer is pending, and
\* with an API that answers there is exactly one, and none while connected, however
\* often PulseAudio came and went.  ReconnectsForGood rests on it.
THEOREM ARetryIsPending == Spec => []RetryPending
<1>1. Init => RetryPending
  BY DEF Init, RetryPending
<1>2. TypeOK /\ RetryPending /\ [Next]_vars => RetryPending'
  BY RetryStep
<1>3. QED
  BY <1>1, <1>2, MixerTypes, PTL DEF Spec

-----------------------------------------------------------------------------
(* The device is active as long as any stream is counted.                  *)

\* The streams that c counts, one by one; and those of other sinks than s.
StreamsOf(c) == {p \in Sinks \X (1 .. MaxStreams) : p[2] <= c[p[1]]}

StreamsBut(c, s) == {p \in Sinks \X (1 .. MaxStreams) : p[1] # s /\ p[2] <= c[p[1]]}

Counts == [Sinks -> 0 .. MaxStreams]

TotalCounts == total = Cardinality(StreamsOf(count))

DeviceTold == device <=> total > 0

DeviceFollowsStreams == device <=> playing # {}

\* The streams are those of one sink and those of the others.
LEMMA StreamsOfSink ==
  ASSUME NEW c \in Counts, NEW s \in Sinks
  PROVE  /\ Cardinality(StreamsBut(c, s)) \in Nat
         /\ c[s] \in Nat
         /\ Cardinality(StreamsOf(c)) = Cardinality(StreamsBut(c, s)) + c[s]
<1> DEFINE pairs == Sinks \X (1 .. MaxStreams)
           rest == StreamsBut(c, s)
           own == {s} \X (1 .. c[s])
<1>1. MaxStreams \in Nat /\ c[s] \in Nat /\ c[s] <= MaxStreams
  BY PulseMixerAssumption DEF Counts
<1>2. IsFiniteSet(pairs)
  <2>1. IsFiniteSet(Sinks) /\ IsFiniteSet(1 .. MaxStreams)
    BY <1>1, PulseMixerAssumption, FS_Interval
  <2>2. PICK A, B : A = Sinks /\ B = 1 .. MaxStreams
    OBVIOUS
  <2>3. IsFiniteSet(A \X B)
    BY <2>1, <2>2, FS_Product
  <2>4. QED
    BY <2>2, <2>3
<1>3. IsFiniteSet(rest) /\ Cardinality(rest) \in Nat
  <2>1. rest \in SUBSET pairs
    BY DEF StreamsBut
  <2>2. IsFiniteSet(rest)
    BY <1>2, <2>1, FS_Subset
  <2>3. QED
    BY <2>2, FS_CardinalityType
<1>4. IsFiniteSet(own) /\ Cardinality(own) = c[s]
  <2>1. PICK A, B : A = {s} /\ B = 1 .. c[s]
    OBVIOUS
  <2>2. IsFiniteSet(A) /\ Cardinality(A) = 1
    BY <2>1, FS_Singleton
  <2>3. IsFiniteSet(B) /\ Cardinality(B) = c[s]
    BY <1>1, <2>1, FS_Interval
  <2>4. IsFiniteSet(A \X B) /\ Cardinality(A \X B) = Cardinality(A) * Cardinality(B)
    BY <2>2, <2>3, FS_Product
  <2>5. Cardinality(A) * Cardinality(B) = c[s]
    BY <1>1, <2>2, <2>3
  <2>6. QED
    BY <2>1, <2>4, <2>5
<1>5. StreamsOf(c) = rest \cup own
  <2>1. ASSUME NEW r \in Sinks, NEW i \in 1 .. MaxStreams
        PROVE  i <= c[r] <=> (r # s /\ i <= c[r]) \/ (r = s /\ i \in 1 .. c[s])
    BY <1>1
  <2>2. own \subseteq pairs
    BY <1>1
  <2>3. \A p \in pairs : p \in StreamsOf(c) <=> p \in rest \cup own
    BY <2>1 DEF StreamsOf, StreamsBut
  <2>4. StreamsOf(c) \subseteq pairs /\ rest \subseteq pairs
    BY DEF StreamsOf, StreamsBut
  <2>5. QED
    BY <2>2, <2>3, <2>4
<1>6. rest \cap own = {}
  BY DEF StreamsBut
<1>7. Cardinality(rest \cap own) = 0
  BY <1>6, FS_EmptySet
<1>8. Cardinality(rest \cup own) = Cardinality(rest) + Cardinality(own)
                                    - Cardinality(rest \cap own)
  <2> HIDE DEF rest, own
  <2>1. QED
    BY <1>3, <1>4, FS_Union
<1>9. QED
  BY <1>1, <1>3, <1>4, <1>5, <1>7, <1>8

\* A change of one sink's count changes the total by as much.
LEMMA TotalChanges ==
  ASSUME NEW c \in Counts, NEW d \in Counts, NEW s \in Sinks,
         \A r \in Sinks : r # s => d[r] = c[r]
  PROVE  /\ Cardinality(StreamsOf(c)) \in Nat /\ Cardinality(StreamsOf(d)) \in Nat
         /\ Cardinality(StreamsOf(c)) >= c[s]
         /\ Cardinality(StreamsOf(d)) = Cardinality(StreamsOf(c)) + d[s] - c[s]
<1>1. StreamsBut(d, s) = StreamsBut(c, s)
  BY DEF StreamsBut
<1>2. PICK m : m = Cardinality(StreamsBut(c, s))
  OBVIOUS
<1>3. m \in Nat /\ c[s] \in Nat /\ Cardinality(StreamsOf(c)) = m + c[s]
  BY <1>2, StreamsOfSink
<1>4. d[s] \in Nat /\ Cardinality(StreamsOf(d)) = m + d[s]
  BY <1>1, <1>2, StreamsOfSink
<1>5. QED
  BY <1>3, <1>4

\* There are none if and only if no sink has any.
LEMMA NoneCounted ==
  ASSUME NEW c \in Counts
  PROVE  /\ Cardinality(StreamsOf(c)) \in Nat
         /\ Cardinality(StreamsOf(c)) = 0 <=> \A s \in Sinks : ~(c[s] > 0)
<1>1. CASE \A s \in Sinks : ~(c[s] > 0)
  <2>1. \A s \in Sinks, i \in 1 .. MaxStreams : ~(i <= c[s])
    BY <1>1, PulseMixerAssumption DEF Counts
  <2>2. StreamsOf(c) = {}
    BY <2>1 DEF StreamsOf
  <2>3. QED
    BY <1>1, <2>2, FS_EmptySet
<1>2. ASSUME NEW s \in Sinks, c[s] > 0
      PROVE  Cardinality(StreamsOf(c)) \in Nat /\ Cardinality(StreamsOf(c)) > 0
  <2>1. Cardinality(StreamsBut(c, s)) \in Nat /\ c[s] \in Nat
    BY StreamsOfSink
  <2>2. Cardinality(StreamsOf(c)) = Cardinality(StreamsBut(c, s)) + c[s]
    BY StreamsOfSink
  <2>3. QED
    BY <1>2, <2>1, <2>2
<1>3. QED
  BY <1>1, <1>2

\* The sink of a message: its count, the total and the device go together.
LEMMA OpenedTotals ==
  ASSUME TypeOK, SinksAgree, TotalCounts, DeviceTold, NEW s \in Sinks, NEW k \in Nat,
         count[s] + k \in 0 .. MaxStreams, Opened(s, k)
  PROVE  TotalCounts' /\ DeviceTold'
<1>1. count \in Counts /\ count[s] \in Nat
  BY PulseMixerAssumption DEF TypeOK, Counts
<1>2. PICK n \in 0 .. MaxStreams : n = count[s] + k
  OBVIOUS
<1>3. OpenCloseSink(s, n) /\ total' = total + k /\ device' = (device \/ (total = 0 /\ k > 0))
  BY <1>2 DEF Opened
<1>4. /\ count' \in Counts /\ count'[s] = n
      /\ \A r \in Sinks : r # s => count'[r] = count[r]
  BY <1>3, SinkCounted DEF Counts
<1>5. PICK c, d : c = count /\ d = count'
  OBVIOUS
<1>6. /\ Cardinality(StreamsOf(c)) \in Nat
      /\ Cardinality(StreamsOf(d)) = Cardinality(StreamsOf(c)) + d[s] - c[s]
  BY <1>1, <1>4, <1>5, TotalChanges
<1>7. total = Cardinality(StreamsOf(c))
  BY <1>5 DEF TotalCounts
<1>8. total' = Cardinality(StreamsOf(d)) /\ total \in Nat
  BY <1>1, <1>2, <1>3, <1>4, <1>5, <1>6, <1>7
<1>9. TotalCounts'
  BY <1>5, <1>8 DEF TotalCounts
<1>10. total' > 0 <=> total > 0 \/ (total = 0 /\ k > 0)
  BY <1>3, <1>8
<1>11. QED
  BY <1>3, <1>9, <1>10 DEF DeviceTold

LEMMA ClosedTotals ==
  ASSUME TypeOK, SinksAgree, TotalCounts, DeviceTold, NEW s \in Sinks, NEW k \in Nat,
         count[s] - k \in 0 .. MaxStreams, Closed(s, k)
  PROVE  TotalCounts' /\ DeviceTold'
<1>1. count \in Counts /\ count[s] \in Nat /\ MaxStreams \in Nat
  BY PulseMixerAssumption DEF TypeOK, Counts
<1>2. PICK n \in 0 .. MaxStreams : n = count[s] - k
  OBVIOUS
<1>3. Max({0, count[s] - k}) = n
  <2>1. n \in Int /\ ~(n > 0) => n = 0
    BY <1>1
  <2>2. n \in Int
    BY <1>1
  <2>3. Max({0, n}) = n
    BY <2>1, <2>2, MaxWithZero
  <2>4. QED
    BY <1>2, <2>3
<1>4. /\ OpenCloseSink(s, n) /\ total' = Max({0, total - k})
      /\ device' = (device /\ (k = 0 \/ total' > 0))
  BY <1>3 DEF Closed
<1>5. /\ count' \in Counts /\ count'[s] = n
      /\ \A r \in Sinks : r # s => count'[r] = count[r]
  BY <1>4, SinkCounted DEF Counts
<1>6. PICK c, d : c = count /\ d = count'
  OBVIOUS
<1>7. /\ Cardinality(StreamsOf(c)) \in Nat /\ Cardinality(StreamsOf(c)) >= c[s]
      /\ Cardinality(StreamsOf(d)) = Cardinality(StreamsOf(c)) + d[s] - c[s]
  BY <1>1, <1>5, <1>6, TotalChanges
<1>8. total = Cardinality(StreamsOf(c))
  BY <1>6 DEF TotalCounts
<1>9. total - k \in Nat /\ total \in Nat /\ Cardinality(StreamsOf(d)) = total - k
  BY <1>1, <1>2, <1>5, <1>6, <1>7, <1>8
<1>10. total' = total - k
  <2>1. PICK x \in Nat : x = total - k
    BY <1>9
  <2>2. Max({0, x}) = x
    BY MaxWithZero
  <2>3. QED
    BY <1>4, <2>1, <2>2
<1>11. TotalCounts'
  BY <1>6, <1>9, <1>10 DEF TotalCounts
<1>12. (total > 0 /\ (k = 0 \/ total' > 0)) <=> total' > 0
  BY <1>9, <1>10
<1>13. QED
  BY <1>4, <1>11, <1>12 DEF DeviceTold

LEMMA MessageTotals ==
  ASSUME TypeOK, SinksAgree, TotalCounts, DeviceTold, NEW msg \in Messages,
         CountMessage(msg), Announced(msg, msg.sink, count[msg.sink]) \in 0 .. MaxStreams
  PROVE  TotalCounts' /\ DeviceTold'
<1>1. PICK s, n : s = msg.sink /\ n = count[s]
  OBVIOUS
<1>2. s \in Sinks /\ n \in 0 .. MaxStreams /\ MaxStreams \in Nat
  BY <1>1, MessageFields, PulseMixerAssumption DEF TypeOK
<1>3. CASE msg.cmd = "o"
  <2>1. Opened(s, 1) /\ count[s] + 1 \in 0 .. MaxStreams
    BY <1>1, <1>3 DEF CountMessage, Announced
  <2>2. QED
    BY <1>2, <2>1, OpenedTotals
<1>4. CASE msg.cmd = "c"
  <2>1. Closed(s, 1) /\ count[s] - 1 \in 0 .. MaxStreams
    BY <1>1, <1>4 DEF CountMessage, Announced
  <2>2. QED
    BY <1>2, <2>1, ClosedTotals
<1>5. CASE msg.cmd = "O" /\ msg.n \in 0 .. MaxStreams
  <2>1. PICK m \in 0 .. MaxStreams : m = msg.n
    BY <1>5
  <2>2. CASE m >= n
    <3>1. PICK k \in Nat : k = m - n
      BY <1>2, <2>2
    <3>2. Opened(s, k)
      BY <1>1, <1>5, <2>1, <2>2, <3>1 DEF CountMessage
    <3>3. count[s] + k \in 0 .. MaxStreams
      BY <1>1, <1>2, <3>1
    <3>4. QED
      BY <1>2, <3>2, <3>3, OpenedTotals
  <2>3. CASE ~(m >= n)
    <3>1. PICK k \in Nat : k = n - m
      BY <1>2, <2>3
    <3>2. Closed(s, k)
      BY <1>1, <1>5, <2>1, <2>3, <3>1 DEF CountMessage
    <3>3. count[s] - k \in 0 .. MaxStreams
      BY <1>1, <1>2, <3>1
    <3>4. QED
      BY <1>2, <3>2, <3>3, ClosedTotals
  <2>4. QED
    BY <2>2, <2>3
<1>6. QED
  BY <1>3, <1>4, <1>5, MessageFields

\* Every message that is read takes its count to a legal one.
LEMMA ReadTotals ==
  ASSUME MixerInv, TotalCounts, DeviceTold, wire # <<>>, CountMessage(Head(wire))
  PROVE  TotalCounts' /\ DeviceTold'
<1>1. TypeOK /\ SinksAgree /\ CountsLead /\ wire \in Seq(Messages)
  BY DEF MixerInv, TypeOK
<1>2. PICK w, msg : w = wire /\ msg = Head(w)
  OBVIOUS
<1>3. w \in Seq(Messages) /\ w # <<>> /\ msg \in Messages
  BY <1>1, <1>2
<1>4. PICK s \in Sinks : s = msg.sink
  BY <1>3, MessageFields
<1>5. PICK c, m : c = count[s] /\ Leads(w, s, c, m)
  BY <1>1, <1>2, CountsLeadWire
<1>6. Announced(Head(w), s, c) \in 0 .. MaxStreams
  BY <1>3, <1>5, LeadsOn
<1>7. CountMessage(msg) /\ Announced(msg, msg.sink, count[msg.sink]) \in 0 .. MaxStreams
  BY <1>2, <1>4, <1>5, <1>6
<1>8. QED
  BY <1>1, <1>3, <1>7, MessageTotals

LEMMA TotalsStep ==
  ASSUME MixerInv, TotalCounts, DeviceTold, [Next]_vars
  PROVE  TotalCounts' /\ DeviceTold'
<1>1. CASE UNCHANGED streamVars
  BY <1>1 DEF streamVars, TotalCounts, DeviceTold
<1>2. CASE ReadMessage
  BY <1>2, ReadTotals DEF ReadMessage
<1>3. CASE HangUp
  BY <1>1, <1>3, ReadTotals DEF HangUp
<1>4. CASE Connect
  <2>1. count' = FreshCount /\ total' = 0 /\ device' = (device /\ SinksClosed = {})
    BY <1>4 DEF Connect
  <2>2. MaxStreams \in Nat /\ count \in Counts
    BY PulseMixerAssumption DEF MixerInv, TypeOK, Counts
  <2>3. PICK d : d = FreshCount
    OBVIOUS
  <2>4. d \in Counts /\ \A s \in Sinks : ~(d[s] > 0)
    BY <2>2, <2>3 DEF FreshCount, Counts
  <2>5. Cardinality(StreamsOf(d)) = 0
    BY <2>4, NoneCounted
  <2>6. TotalCounts'
    BY <2>1, <2>3, <2>5 DEF TotalCounts
  <2>7. SinksClosed = {} => total = 0
    <3>1. PICK c \in Counts : c = count
      BY <2>2
    <3>2. SinksClosed = {} => \A s \in Sinks : ~(c[s] > 0)
      BY <3>1 DEF SinksClosed
    <3>3. SinksClosed = {} => Cardinality(StreamsOf(c)) = 0
      BY <3>2, NoneCounted
    <3>4. QED
      BY <3>1, <3>3 DEF TotalCounts
  <2>8. ~device'
    <3>1. total = 0 => ~(total > 0)
      OBVIOUS
    <3>2. SinksClosed = {} => ~device
      BY <2>7, <3>1 DEF DeviceTold
    <3>3. CASE SinksClosed = {}
      BY <2>1, <3>2, <3>3
    <3>4. CASE SinksClosed # {}
      BY <2>1, <3>4
    <3>5. QED
      BY <3>3, <3>4
  <2>9. QED
    BY <2>1, <2>6, <2>8 DEF DeviceTold
<1>5. CASE ~ReadMessage /\ ~HangUp /\ ~Connect
  <2>1. UNCHANGED streamVars
    BY <1>5 DEF Next, AudiodStep, PulseStep, SetVolume, UpdateHardwareSettings, RetryLater,
       StreamOpens, StreamCloses, PulseStarts, PulseStops, streamVars, vars
  <2>2. QED
    BY <1>1, <2>1
<1>6. QED
  BY <1>2, <1>3, <1>4, <1>5

\* mOutputStreamsCurrentlyOpenedCount is the sum of the counts of the sinks, and the
\* device was last told to be active if and only if some sink plays, whatever is
\* lost with the connections: no reset leaves it on, or off, for good.
THEOREM DeviceIsTold == Spec => [](TotalCounts /\ DeviceFollowsStreams)
<1>1. Init => TotalCounts /\ DeviceTold
  <2> SUFFICES ASSUME Init PROVE TotalCounts /\ DeviceTold
    OBVIOUS
  <2>1. PICK c : c = count
    OBVIOUS
  <2>2. c \in Counts /\ \A s \in Sinks : ~(c[s] > 0)
    BY <2>1, PulseMixerAssumption DEF Init, Counts
  <2>3. Cardinality(StreamsOf(c)) = 0
    BY <2>2, NoneCounted
  <2>4. QED
    BY <2>1, <2>3 DEF Init, TotalCounts, DeviceTold
<1>2. MixerInv /\ TotalCounts /\ DeviceTold /\ [Next]_vars => TotalCounts' /\ DeviceTold'
  BY TotalsStep
<1>3. MixerInv /\ TotalCounts /\ DeviceTold => DeviceFollowsStreams
  <2> SUFFICES ASSUME MixerInv, TotalCounts, DeviceTold PROVE DeviceFollowsStreams
    OBVIOUS
  <2>1. PICK c \in Counts : c = count
    BY DEF MixerInv, TypeOK, Counts
  <2>2. /\ Cardinality(StreamsOf(c)) \in Nat
        /\ Cardinality(StreamsOf(c)) = 0 <=> \A s \in Sinks : ~(c[s] > 0)
    BY NoneCounted
  <2>3. total > 0 <=> ~(\A s \in Sinks : ~(c[s] > 0))
    BY <2>1, <2>2 DEF TotalCounts
  <2>4. playing # {} <=> ~(\A s \in Sinks : ~(c[s] > 0))
    BY <2>1 DEF MixerInv, SinksAgree
  <2>5. QED
    BY <2>3, <2>4 DEF DeviceTold, DeviceFollowsStreams
<1>4. QED
  BY <1>1, <1>2, <1>3, MixerAlways, PTL DEF Spec

-----------------------------------------------------------------------------
(* Input: the microphone is on when needed, or up to a deadline.           *)

\* A deadline is pending only while the microphone is on and not needed; when it
\* comes the microphone has not been needed for a second, and there is a timer to
\* notice.
DeadlineHolds ==
  keep # None => /\ recording /\ ~IsRecording
                 /\ idle + keep >= Hold
                 /\ keepTimers[keep] > 0

\* The microphone is on when it is needed, and else only up to the deadline.
OnAsNeeded ==
  /\ IsRecording => recording
  /\ recording => IsRecording \/ keep # None

\* The streams that are counted, one by one.
CountedStreams == {p \in Counted \X (1 .. MaxInputs) : p[2] <= open[p[1]]}

StreamsCounted ==
  IsFiniteSet(CountedStreams) /\ inputCount = Cardinality(CountedStreams)

RecordingInv == RecordingTypeOK /\ DeadlineHolds /\ OnAsNeeded /\ StreamsCounted

\* The types of the parts.
NeedTypes ==
  /\ open \in [Sources -> 0 .. MaxInputs]
  /\ inputCount \in Nat
  /\ recordOpened \in BOOLEAN /\ inputActive \in BOOLEAN
  /\ onCall \in BOOLEAN /\ mediaRecording \in BOOLEAN /\ forced \in BOOLEAN

DeviceTypes ==
  /\ recording \in BOOLEAN
  /\ keep \in None .. Hold
  /\ keepTimers \in [0 .. Hold -> Nat]
  /\ idle \in 0 .. Hold

LEMMA RecordingTypesInParts == RecordingTypeOK <=> NeedTypes /\ DeviceTypes
BY DEF RecordingTypeOK, NeedTypes, DeviceTypes

LEMMA RecordingTypesNext == NeedTypes' /\ DeviceTypes' => RecordingTypeOK'
BY RecordingTypesInParts, PTL

\* updateIsRecording, whatever has become needed and whichever timers are pending:
\* only the one that has just expired may be missing of those before.
LEMMA UpdateKeeps ==
  ASSUME DeviceTypes, DeadlineHolds, OnAsNeeded,
         NEW should \in BOOLEAN, NEW tm \in [0 .. Hold -> Nat],
         UpdateIsRecording(should, tm),
         keep \notin {None, 0} => tm[keep] > 0,
         IsRecording' = should,
         idle' \in 0 .. Hold, ~should => idle' = idle
  PROVE  DeviceTypes' /\ DeadlineHolds' /\ OnAsNeeded'
<1>1. keep \in Int /\ Hold \in Nat \ {0} /\ idle \in Int /\ None = -1
  BY RecordingAssumption DEF DeviceTypes, None
<1>2. CASE Tell(should, tm)
  <2>1. recording' = should /\ keep' = None /\ keepTimers' = tm
    BY <1>2 DEF Tell
  <2>2. QED
    BY <2>1, <1>1 DEF DeviceTypes, DeadlineHolds, OnAsNeeded
<1>3. CASE KeepOn(tm) /\ ~should /\ recording
  <2>1. keep' = Hold /\ keepTimers' = [tm EXCEPT ![Hold] = @ + 1] /\ recording'
    BY <1>3 DEF KeepOn
  <2>2. Hold \in 0 .. Hold /\ idle' \in 0 .. Hold
    BY <1>1
  <2>3. keepTimers' \in [0 .. Hold -> Nat] /\ keepTimers'[Hold] > 0
    BY <2>1, <2>2
  <2>4. recording' \in BOOLEAN
    BY <1>3 DEF KeepOn, DeviceTypes
  <2>5. DeviceTypes'
    BY <2>1, <2>2, <2>3, <2>4, <1>1 DEF DeviceTypes
  <2>6. idle' + keep' >= Hold
    <3>1. idle' \in Int /\ idle' >= 0
      BY <2>2, <1>1
    <3>2. keep' = Hold /\ Hold \in Int
      BY <2>1, <1>1
    <3>3. \A i, h \in Int : i >= 0 => i + h >= h
      OBVIOUS
    <3>4. QED
      BY <3>1, <3>2, <3>3
  <2>7. keep' # None
    BY <2>1, <1>1
  <2>8. QED
    BY <2>1, <2>3, <2>5, <2>6, <2>7, <1>3 DEF DeadlineHolds, OnAsNeeded
<1>4. CASE Wait(tm) /\ ~should /\ recording /\ keep \notin {None, 0}
  <2>1. keep' = keep /\ keepTimers' = tm /\ recording' = recording /\ idle' = idle
    BY <1>4 DEF Wait
  <2>2. DeviceTypes'
    BY <2>1 DEF DeviceTypes
  <2>3. QED
    BY <2>1, <2>2, <1>4 DEF DeadlineHolds, OnAsNeeded
<1>5. QED
  BY <1>2, <1>3, <1>4 DEF UpdateIsRecording, DeviceTypes

\* What changes a need and tells updateIsRecording of it.
LEMMA NeedKeeps ==
  ASSUME RecordingInv, NeedsChange, History, NeedTypes'
  PROVE  RecordingTypeOK' /\ DeadlineHolds' /\ OnAsNeeded'
<1>1. PICK should : should = IsRecording'
  OBVIOUS
<1>2. should \in BOOLEAN
  BY <1>1 DEF IsRecording, NeedTypes
<1>3. PICK tm : tm = keepTimers
  OBVIOUS
<1>4. DeviceTypes /\ DeadlineHolds /\ OnAsNeeded
  BY RecordingTypesInParts DEF RecordingInv
<1>5. UpdateIsRecording(should, tm)
  BY <1>1, <1>3 DEF NeedsChange
<1>6. tm \in [0 .. Hold -> Nat] /\ (keep \notin {None, 0} => tm[keep] > 0)
  BY <1>3, <1>4 DEF DeviceTypes, DeadlineHolds
<1>7. idle' = IF should THEN 0 ELSE idle
  BY <1>1 DEF History
<1>8. idle' \in 0 .. Hold /\ (~should => idle' = idle)
  BY <1>7, <1>4, RecordingAssumption DEF DeviceTypes
<1>9. DeviceTypes' /\ DeadlineHolds' /\ OnAsNeeded'
  BY <1>1, <1>2, <1>4, <1>5, <1>6, <1>8, UpdateKeeps
<1>10. QED
  BY <1>9, RecordingTypesNext

\* What changes no need and tells nobody.
LEMMA OthersKeep ==
  ASSUME RecordingInv, UNCHANGED <<inputActive, mediaRecording, forced>>,
         UNCHANGED deviceVars, idle' = idle \/ History, NeedTypes'
  PROVE  RecordingTypeOK' /\ DeadlineHolds' /\ OnAsNeeded'
<1>1. IsRecording' = IsRecording
  BY DEF IsRecording
<1>2. DeviceTypes /\ DeadlineHolds /\ OnAsNeeded
  BY RecordingTypesInParts DEF RecordingInv
<1>3. idle' = idle \/ (IsRecording /\ idle' = 0)
  BY <1>1 DEF History
<1>4. DeviceTypes'
  BY <1>2, <1>3, RecordingAssumption DEF DeviceTypes, deviceVars
<1>5. DeadlineHolds' /\ OnAsNeeded'
  BY <1>1, <1>2, <1>3 DEF DeadlineHolds, OnAsNeeded, deviceVars
<1>6. QED
  BY <1>4, <1>5, RecordingTypesNext

-----------------------------------------------------------------------------
(* Streams are counted.                                                    *)

\* A stream more, a stream less of s.
LEMMA OneStreamMore ==
  ASSUME StreamsCounted, NeedTypes, NEW s \in Sources, open[s] < MaxInputs,
         open'[s] = open[s] + 1, \A r \in Sources \ {s} : open'[r] = open[r],
         inputCount' = IF s = evoiceactivator THEN inputCount ELSE inputCount + 1
  PROVE  StreamsCounted'
<1>1. \A r \in Sources : open[r] \in Nat
  BY DEF NeedTypes
<1>2. Counted \subseteq Sources /\ evoiceactivator \notin Counted /\ MaxInputs \in Nat
  BY RecordingAssumption DEF Sources
<1>3. CASE s = evoiceactivator
  <2>1. \A r \in Counted : open'[r] = open[r]
    BY <1>2, <1>3
  <2>2. CountedStreams' = CountedStreams
    BY <2>1 DEF CountedStreams
  <2>3. QED
    BY <2>2, <1>3 DEF StreamsCounted
<1>4. CASE s \in Counted
  <2>1. \A r \in Counted : open'[r] = IF r = s THEN open[r] + 1 ELSE open[r]
    BY <1>2, <1>4
  <2>2. <<s, open[s] + 1>> \in Counted \X (1 .. MaxInputs)
    BY <1>1, <1>2, <1>4
  <2>3. \A p \in Counted \X (1 .. MaxInputs) :
          p[2] <= open'[p[1]] <=> p[2] <= open[p[1]] \/ p = <<s, open[s] + 1>>
    <3> SUFFICES ASSUME NEW r \in Counted, NEW i \in 1 .. MaxInputs
                 PROVE  i <= open'[r] <=> i <= open[r] \/ (r = s /\ i = open[s] + 1)
      OBVIOUS
    <3>1. open[r] \in Nat /\ i \in Int
      BY <1>1, <1>2
    <3>2. QED
      BY <3>1, <2>1
  <2>4. CountedStreams' = CountedStreams \cup {<<s, open[s] + 1>>}
    BY <2>2, <2>3 DEF CountedStreams
  <2>5. <<s, open[s] + 1>> \notin CountedStreams
    BY <1>1 DEF CountedStreams
  <2>6. /\ IsFiniteSet(CountedStreams')
        /\ Cardinality(CountedStreams') = Cardinality(CountedStreams) + 1
    BY <2>4, <2>5, FS_AddElement DEF StreamsCounted
  <2>7. inputCount' = inputCount + 1
    BY <1>2, <1>4
  <2>8. QED
    BY <2>6, <2>7 DEF StreamsCounted
<1>5. QED
  BY <1>3, <1>4 DEF Sources

LEMMA OneStreamLess ==
  ASSUME StreamsCounted, NeedTypes, NEW s \in Sources, open[s] > 0,
         open'[s] = open[s] - 1, \A r \in Sources \ {s} : open'[r] = open[r],
         inputCount' = Max({0, IF s = evoiceactivator THEN inputCount ELSE inputCount - 1})
  PROVE  /\ StreamsCounted'
         /\ inputCount' = IF s = evoiceactivator THEN inputCount ELSE inputCount - 1
<1>1. \A r \in Sources : open[r] \in Nat
  BY DEF NeedTypes
<1>2. Counted \subseteq Sources /\ evoiceactivator \notin Counted /\ MaxInputs \in Nat
  BY RecordingAssumption DEF Sources
<1>0. inputCount \in Nat
  BY DEF NeedTypes
<1>3. CASE s = evoiceactivator
  <2>1. \A r \in Counted : open'[r] = open[r]
    BY <1>2, <1>3
  <2>2. CountedStreams' = CountedStreams
    BY <2>1 DEF CountedStreams
  <2>3. inputCount' = inputCount
    BY <1>0, <1>3, MaxWithZero
  <2>4. QED
    BY <2>2, <2>3, <1>3 DEF StreamsCounted
<1>4. CASE s \in Counted
  <2>1. \A r \in Counted : open'[r] = IF r = s THEN open[r] - 1 ELSE open[r]
    BY <1>2, <1>4
  <2>2. open[s] \in 1 .. MaxInputs
    BY <1>2, <1>4 DEF NeedTypes
  <2>3. \A p \in Counted \X (1 .. MaxInputs) :
          p[2] <= open'[p[1]] <=> p[2] <= open[p[1]] /\ p # <<s, open[s]>>
    <3> SUFFICES ASSUME NEW r \in Counted, NEW i \in 1 .. MaxInputs
                 PROVE  i <= open'[r] <=> i <= open[r] /\ ~(r = s /\ i = open[s])
      OBVIOUS
    <3>1. open[r] \in Nat /\ i \in Int
      BY <1>1, <1>2
    <3>2. QED
      BY <3>1, <2>1
  <2>4. CountedStreams' = CountedStreams \ {<<s, open[s]>>}
    BY <2>2, <2>3 DEF CountedStreams
  <2>5. <<s, open[s]>> \in CountedStreams
    BY <2>2, <1>4 DEF CountedStreams
  <2>6. /\ IsFiniteSet(CountedStreams')
        /\ Cardinality(CountedStreams') = Cardinality(CountedStreams) - 1
    BY <2>4, <2>5, FS_RemoveElement DEF StreamsCounted
  <2>7. Cardinality(CountedStreams') \in Nat /\ inputCount = Cardinality(CountedStreams)
    BY <2>6, FS_CardinalityType DEF StreamsCounted
  <2>8. inputCount - 1 \in Int /\ inputCount - 1 >= 0
    BY <2>6, <2>7, <1>0
  <2>9. Max({0, inputCount - 1}) = inputCount - 1
    BY <2>8, MaxWithZero
  <2>10. inputCount' = inputCount - 1
    BY <1>2, <1>4, <2>9
  <2>11. QED
    BY <2>6, <2>7, <2>10, <1>2, <1>4 DEF StreamsCounted
<1>5. QED
  BY <1>3, <1>4 DEF Sources

\* Nothing is open: nothing is counted.
LEMMA NoStreams ==
  ASSUME StreamsCounted, NeedTypes, \A s \in Sources : open[s] = 0
  PROVE  inputCount = 0
<1>1. \A p \in Counted \X (1 .. MaxInputs) : ~(p[2] <= open[p[1]])
  BY DEF Sources
<1>2. CountedStreams = {}
  BY <1>1 DEF CountedStreams
<1>3. QED
  BY <1>2, FS_EmptySet DEF StreamsCounted

\* The streams of one source alone, any number of them.
LEMMA StreamsOfOne ==
  ASSUME NEW s \in Counted, NEW k \in 0 .. MaxInputs, open'[s] = k,
         \A r \in Sources \ {s} : open'[r] = 0, inputCount' = k
  PROVE  StreamsCounted'
<1>1. MaxInputs \in Nat /\ k \in Nat
  BY RecordingAssumption
<1>2. \A p \in Counted \X (1 .. MaxInputs) :
        p[2] <= open'[p[1]] <=> p[1] = s /\ p[2] <= k
  <2> SUFFICES ASSUME NEW r \in Counted, NEW i \in 1 .. MaxInputs
               PROVE  i <= open'[r] <=> r = s /\ i <= k
    OBVIOUS
  <2>1. open'[r] = IF r = s THEN k ELSE 0
    BY DEF Sources
  <2>2. QED
    BY <2>1, <1>1
<1>3. CountedStreams' = {s} \X (1 .. k)
  BY <1>1, <1>2 DEF CountedStreams
<1>4. IsFiniteSet({s}) /\ Cardinality({s}) = 1
  BY FS_Singleton
<1>5. IsFiniteSet(1 .. k) /\ Cardinality(1 .. k) = k
  BY <1>1, FS_Interval
<1>6. IsFiniteSet({s} \X (1 .. k)) /\ Cardinality({s} \X (1 .. k)) = 1 * k
  <2>1. PICK A, B : A = {s} /\ B = 1 .. k
    OBVIOUS
  <2>2. IsFiniteSet(A \X B) /\ Cardinality(A \X B) = Cardinality(A) * Cardinality(B)
    BY <1>4, <1>5, <2>1, FS_Product
  <2>3. QED
    BY <1>4, <1>5, <2>1, <2>2
<1>7. QED
  BY <1>1, <1>3, <1>6 DEF StreamsCounted

\* Nothing open, nothing counted, in the next state.
LEMMA NoneOpenNext ==
  ASSUME \A s \in Sources : open'[s] = 0, inputCount' = 0
  PROVE  StreamsCounted'
<1>1. \A p \in Counted \X (1 .. MaxInputs) : ~(p[2] <= open'[p[1]])
  BY DEF Sources
<1>2. CountedStreams' = {}
  BY <1>1 DEF CountedStreams
<1>3. QED
  BY <1>2, FS_EmptySet DEF StreamsCounted

-----------------------------------------------------------------------------
(* The steps.                                                              *)

\* Either half of a change of the input: told, or nothing changes.
LEMMA InputKeeps ==
  ASSUME RecordingInv, open' \in [Sources -> 0 .. MaxInputs], inputCount' \in Nat,
         recordOpened' \in BOOLEAN,
         UNCHANGED <<onCall, mediaRecording, forced>>, History,
         \/ \E active \in BOOLEAN : SetActiveInputStream(active)
         \/ UNCHANGED <<inputActive, deviceVars>>
  PROVE  RecordingTypeOK' /\ DeadlineHolds' /\ OnAsNeeded'
<1>1. NeedTypes
  BY RecordingTypesInParts DEF RecordingInv
<1>2. CASE UNCHANGED <<inputActive, deviceVars>>
  <2>1. NeedTypes'
    BY <1>1, <1>2 DEF NeedTypes
  <2>2. QED
    BY <1>2, <2>1, OthersKeep
<1>3. CASE \E active \in BOOLEAN : SetActiveInputStream(active)
  <2>1. PICK active \in BOOLEAN : SetActiveInputStream(active)
    BY <1>3
  <2>2. inputActive' \in BOOLEAN /\ NeedsChange
    BY <2>1 DEF SetActiveInputStream
  <2>3. NeedTypes'
    BY <1>1, <2>2 DEF NeedTypes
  <2>4. QED
    BY <2>2, <2>3, NeedKeeps
<1>4. QED
  BY <1>2, <1>3

LEMMA OpenedKeeps ==
  ASSUME RecordingInv, NEW s \in Sources, NEW k \in Nat, InputStreamsOpened(s, k),
         open' \in [Sources -> 0 .. MaxInputs],
         UNCHANGED <<onCall, mediaRecording, forced>>, History
  PROVE  /\ RecordingTypeOK' /\ DeadlineHolds' /\ OnAsNeeded'
         /\ inputCount' = IF s = evoiceactivator THEN inputCount ELSE inputCount + k
<1>1. NeedTypes
  BY RecordingTypesInParts DEF RecordingInv
<1>2. inputCount' = IF s = evoiceactivator THEN inputCount ELSE inputCount + k
  BY DEF InputStreamsOpened
<1>3. inputCount' \in Nat
  BY <1>1, <1>2 DEF NeedTypes
<1>4. recordOpened' \in BOOLEAN
  BY <1>1 DEF InputStreamsOpened, NeedTypes
<1>5. \/ \E active \in BOOLEAN : SetActiveInputStream(active)
      \/ UNCHANGED <<inputActive, deviceVars>>
  BY DEF InputStreamsOpened
<1>6. QED
  BY <1>2, <1>3, <1>4, <1>5, InputKeeps

LEMMA OpensKeeps ==
  ASSUME RecordingInv, NEW s \in Sources, InputOpens(s)
  PROVE  RecordingInv'
<1>1. NeedTypes
  BY RecordingTypesInParts DEF RecordingInv
<1>2. /\ open[s] < MaxInputs /\ open' = [open EXCEPT ![s] = @ + 1]
      /\ InputStreamsOpened(s, 1) /\ History
      /\ UNCHANGED <<onCall, mediaRecording, forced>>
  BY DEF InputOpens
<1>3. /\ open'[s] = open[s] + 1
      /\ \A r \in Sources \ {s} : open'[r] = open[r]
  BY <1>1, <1>2 DEF NeedTypes
<1>4. open[s] + 1 \in 0 .. MaxInputs
  BY <1>1, <1>2, RecordingAssumption DEF NeedTypes
<1>5. open' \in [Sources -> 0 .. MaxInputs]
  BY <1>1, <1>2, <1>4 DEF NeedTypes
<1>6. /\ RecordingTypeOK' /\ DeadlineHolds' /\ OnAsNeeded'
      /\ inputCount' = IF s = evoiceactivator THEN inputCount ELSE inputCount + 1
  BY <1>2, <1>5, OpenedKeeps
<1>7. StreamsCounted'
  BY <1>1, <1>2, <1>3, <1>6, OneStreamMore DEF RecordingInv
<1>8. QED
  BY <1>6, <1>7 DEF RecordingInv

LEMMA AlreadyOpenKeeps ==
  ASSUME RecordingInv, NEW s \in Counted, NEW k \in 1 .. MaxInputs,
         StreamsAlreadyOpen(s, k)
  PROVE  RecordingInv'
<1>1. NeedTypes /\ StreamsCounted
  BY RecordingTypesInParts DEF RecordingInv
<1>2. /\ \A r \in Sources : open[r] = 0
      /\ open' = [open EXCEPT ![s] = k]
      /\ InputStreamsOpened(s, k) /\ History
      /\ UNCHANGED <<onCall, mediaRecording, forced>>
  BY DEF StreamsAlreadyOpen
<1>3. s \in Sources /\ s # evoiceactivator
  BY RecordingAssumption DEF Sources
<1>4. k \in 0 .. MaxInputs /\ k \in Nat
  BY RecordingAssumption
<1>5. /\ open' \in [Sources -> 0 .. MaxInputs]
      /\ open'[s] = k /\ \A r \in Sources \ {s} : open'[r] = 0
  BY <1>1, <1>2, <1>3, <1>4 DEF NeedTypes
<1>6. /\ RecordingTypeOK' /\ DeadlineHolds' /\ OnAsNeeded'
      /\ inputCount' = IF s = evoiceactivator THEN inputCount ELSE inputCount + k
  BY <1>2, <1>3, <1>4, <1>5, OpenedKeeps
<1>7. inputCount = 0
  BY <1>1, <1>2, NoStreams
<1>8. inputCount' = k
  BY <1>3, <1>4, <1>6, <1>7
<1>9. StreamsCounted'
  BY <1>4, <1>5, <1>8, StreamsOfOne
<1>10. QED
  BY <1>6, <1>9 DEF RecordingInv

\* A stream that closes is counted, and told if the closing matters.
LEMMA ClosesKeeps ==
  ASSUME RecordingInv, NEW s \in Sources, InputCloses(s)
  PROVE  RecordingInv'
<1>1. NeedTypes /\ StreamsCounted
  BY RecordingTypesInParts DEF RecordingInv
<1>2. /\ open[s] > 0 /\ open' = [open EXCEPT ![s] = @ - 1]
      /\ InputStreamClosed(s) /\ History
      /\ UNCHANGED <<onCall, mediaRecording, forced>>
  BY DEF InputCloses
<1>3. /\ open'[s] = open[s] - 1
      /\ \A r \in Sources \ {s} : open'[r] = open[r]
  BY <1>1, <1>2 DEF NeedTypes
<1>4. open[s] - 1 \in 0 .. MaxInputs
  BY <1>1, <1>2, RecordingAssumption DEF NeedTypes
<1>5. open' \in [Sources -> 0 .. MaxInputs]
  BY <1>1, <1>2, <1>4 DEF NeedTypes
<1>6. inputCount' = Max({0, IF s = evoiceactivator THEN inputCount ELSE inputCount - 1})
  BY <1>2 DEF InputStreamClosed
<1>7. StreamsCounted'
  BY <1>1, <1>2, <1>3, <1>6, OneStreamLess
<1>8. inputCount' \in Nat
  BY <1>7, FS_CardinalityType DEF StreamsCounted
<1>9. recordOpened' \in BOOLEAN
  BY <1>1, <1>2 DEF InputStreamClosed, NeedTypes
<1>10. \/ \E active \in BOOLEAN : SetActiveInputStream(active)
       \/ UNCHANGED <<inputActive, deviceVars>>
  BY <1>2 DEF InputStreamClosed
<1>11. RecordingTypeOK' /\ DeadlineHolds' /\ OnAsNeeded'
  BY <1>2, <1>5, <1>8, <1>9, <1>10, InputKeeps
<1>12. QED
  BY <1>7, <1>11 DEF RecordingInv

LEMMA ReconnectKeeps ==
  ASSUME RecordingInv, Reconnect
  PROVE  RecordingInv'
<1>1. NeedTypes
  BY RecordingTypesInParts DEF RecordingInv
<1>2. open' = [s \in Sources |-> 0] /\ inputCount' = 0
  BY DEF Reconnect
<1>3. open' \in [Sources -> 0 .. MaxInputs]
  BY <1>2, RecordingAssumption
<1>4. recordOpened' \in BOOLEAN
  BY <1>1 DEF Reconnect, NeedTypes
<1>5. \/ \E active \in BOOLEAN : SetActiveInputStream(active)
      \/ UNCHANGED <<inputActive, deviceVars>>
  BY DEF Reconnect
<1>6. UNCHANGED <<onCall, mediaRecording, forced>> /\ History
  BY DEF Reconnect
<1>7. RecordingTypeOK' /\ DeadlineHolds' /\ OnAsNeeded'
  BY <1>2, <1>3, <1>4, <1>5, <1>6, InputKeeps
<1>8. StreamsCounted'
  BY <1>2, NoneOpenNext
<1>9. QED
  BY <1>7, <1>8 DEF RecordingInv

\* What leaves the streams alone leaves their count alone.
LEMMA CountsStayAsTheyAre == StreamsCounted /\ UNCHANGED inputVars => StreamsCounted'
BY DEF StreamsCounted, CountedStreams, inputVars

LEMMA RecordingNeedKeeps ==
  ASSUME RecordingInv, NextNeed
  PROVE  RecordingInv'
<1>1. NeedTypes
  BY RecordingTypesInParts DEF RecordingInv
<1>2. UNCHANGED inputVars
  BY DEF NextNeed, SetMediaServerIsRecording, SetForceMicOn, SetOnActiveCall
<1>3. NeedTypes'
  BY <1>1, <1>2
     DEF NeedTypes, inputVars, NextNeed, SetMediaServerIsRecording, SetForceMicOn,
         SetOnActiveCall
<1>4. CASE SetMediaServerIsRecording \/ SetForceMicOn
  <2>1. NeedsChange /\ History
    BY <1>4 DEF SetMediaServerIsRecording, SetForceMicOn
  <2>2. RecordingTypeOK' /\ DeadlineHolds' /\ OnAsNeeded'
    BY <1>3, <2>1, NeedKeeps
  <2>3. QED
    BY <1>2, <2>2, CountsStayAsTheyAre DEF RecordingInv
<1>5. CASE SetOnActiveCall
  <2>1. /\ UNCHANGED <<inputActive, mediaRecording, forced>>
        /\ UNCHANGED deviceVars /\ idle' = idle
    BY <1>5 DEF SetOnActiveCall, inputVars
  <2>2. RecordingTypeOK' /\ DeadlineHolds' /\ OnAsNeeded'
    BY <1>3, <2>1, OthersKeep
  <2>3. QED
    BY <1>2, <2>2, CountsStayAsTheyAre DEF RecordingInv
<1>6. QED
  BY <1>4, <1>5 DEF NextNeed

\* A timer that expires is the one whose deadline has come, or an earlier one.
LEMMA ExpiryKeeps ==
  ASSUME RecordingInv, TimerExpires
  PROVE  RecordingInv'
<1>1. NeedTypes /\ DeviceTypes /\ DeadlineHolds /\ OnAsNeeded /\ Hold \in Nat
  BY RecordingTypesInParts, RecordingAssumption DEF RecordingInv
<1>2. PICK should : should = IsRecording
  OBVIOUS
<1>3. PICK tm : tm = [keepTimers EXCEPT ![0] = @ - 1]
  OBVIOUS
<1>4. UpdateIsRecording(should, tm)
  BY <1>2, <1>3 DEF TimerExpires
<1>5. UNCHANGED <<inputVars, onCall, mediaRecording, forced, idle>>
  BY DEF TimerExpires
<1>6. IsRecording' = should /\ should \in BOOLEAN
  BY <1>1, <1>2, <1>5 DEF IsRecording, inputVars, NeedTypes
<1>7. keepTimers[0] > 0 /\ keepTimers[0] \in Nat
  BY <1>1 DEF TimerExpires, DeviceTypes
<1>8. keepTimers[0] - 1 \in Nat
  BY <1>7
<1>9. tm \in [0 .. Hold -> Nat]
  BY <1>1, <1>3, <1>8 DEF DeviceTypes
<1>10. keep \notin {None, 0} => tm[keep] > 0
  <2> SUFFICES ASSUME keep # None, keep # 0 PROVE tm[keep] > 0
    OBVIOUS
  <2>1. keep \in 0 .. Hold
    BY <1>1 DEF DeviceTypes, None
  <2>2. tm[keep] = keepTimers[keep]
    BY <1>1, <1>3, <2>1 DEF DeviceTypes
  <2>3. QED
    BY <1>1, <2>2 DEF DeadlineHolds
<1>11. idle' \in 0 .. Hold /\ idle' = idle
  BY <1>1, <1>5 DEF DeviceTypes
<1>12. DeviceTypes' /\ DeadlineHolds' /\ OnAsNeeded'
  BY <1>1, <1>4, <1>6, <1>9, <1>10, <1>11, UpdateKeeps
<1>13. NeedTypes'
  BY <1>1, <1>5 DEF NeedTypes, inputVars
<1>14. QED
  BY <1>5, <1>12, <1>13, RecordingTypesNext, CountsStayAsTheyAre DEF RecordingInv

\* Min of the community modules, of two numbers.
LEMMA MinOfTwo ==
  ASSUME NEW x \in Int, NEW y \in Int
  PROVE  Min({x, y}) = IF x <= y THEN x ELSE y
<1> DEFINE m == IF x <= y THEN x ELSE y
<1>1. m \in {x, y} /\ \A z \in {x, y} : m <= z
  OBVIOUS
<1>2. ASSUME NEW w \in {x, y}, \A z \in {x, y} : w <= z PROVE w = m
  BY <1>2
<1> HIDE DEF m
<1>3. Min({x, y}) = m
  BY <1>1, <1>2 DEF Min
<1>4. QED
  BY <1>3 DEF m

\* With time the deadline comes nearer, and its timer with it.
LEMMA TickKeeps ==
  ASSUME RecordingInv, Tick
  PROVE  RecordingInv'
<1>1. NeedTypes /\ DeviceTypes /\ DeadlineHolds /\ OnAsNeeded
  BY RecordingTypesInParts DEF RecordingInv
<1>2. Hold \in Nat \ {0} /\ idle \in 0 .. Hold /\ keep \in Int /\ keep >= -1 /\ keep <= Hold
  BY <1>1, RecordingAssumption DEF DeviceTypes, None
<1>3. UNCHANGED <<inputVars, onCall, mediaRecording, forced, recording>>
  BY DEF Tick
<1>4. NeedTypes' /\ StreamsCounted' /\ IsRecording' = IsRecording /\ recording' = recording
  BY <1>1, <1>3, CountsStayAsTheyAre
     DEF RecordingInv, NeedTypes, inputVars, IsRecording
<1>5. keep' = IF keep > 0 THEN keep - 1 ELSE keep
  BY DEF Tick
<1>6. idle' = IF IsRecording THEN 0 ELSE IF idle + 1 <= Hold THEN idle + 1 ELSE Hold
  BY <1>2, MinOfTwo DEF Tick
<1>7. /\ keepTimers' = [i \in 0 .. Hold |->
                         IF i = 0 THEN keepTimers[0] + keepTimers[1]
                         ELSE IF i < Hold THEN keepTimers[i + 1] ELSE 0]
      /\ \A i \in 0 .. Hold : keepTimers[i] \in Nat
  BY <1>1 DEF Tick, DeviceTypes
<1>8. keepTimers' \in [0 .. Hold -> Nat]
  <2>1. ASSUME NEW i \in 0 .. Hold
        PROVE  (IF i = 0 THEN keepTimers[0] + keepTimers[1]
                ELSE IF i < Hold THEN keepTimers[i + 1] ELSE 0) \in Nat
    <3>1. 0 \in 0 .. Hold /\ 1 \in 0 .. Hold /\ (i < Hold => i + 1 \in 0 .. Hold)
      BY <1>2
    <3>2. QED
      BY <1>7, <3>1
  <2>2. QED
    BY <1>7, <2>1
<1>9. DeviceTypes'
  <2>1. keep' \in None .. Hold
    BY <1>2, <1>5 DEF None
  <2>2. idle' \in 0 .. Hold
    BY <1>2, <1>6
  <2>3. recording' \in BOOLEAN
    BY <1>1, <1>4 DEF DeviceTypes
  <2>4. QED
    BY <1>8, <2>1, <2>2, <2>3 DEF DeviceTypes
<1>10. OnAsNeeded'
  BY <1>1, <1>2, <1>4, <1>5 DEF OnAsNeeded, None
<1>11. DeadlineHolds'
  <2> SUFFICES ASSUME keep' # None
               PROVE  /\ recording' /\ ~IsRecording'
                      /\ idle' + keep' >= Hold
                      /\ keepTimers'[keep'] > 0
    BY DEF DeadlineHolds
  <2>1. keep # None /\ keep >= 0
    BY <1>2, <1>5 DEF None
  <2>2. recording /\ ~IsRecording /\ idle + keep >= Hold /\ keepTimers[keep] > 0
    BY <1>1, <2>1 DEF DeadlineHolds
  <2>3. idle' + keep' >= Hold
    BY <1>2, <1>5, <1>6, <2>1, <2>2
  <2>4. keepTimers'[keep'] > 0
    <3>1. keep' \in 0 .. Hold /\ 0 \in 0 .. Hold /\ 1 \in 0 .. Hold /\ keep \in 0 .. Hold
      BY <1>2, <1>5, <2>1
    <3>2. keepTimers'[keep'] = IF keep' = 0 THEN keepTimers[0] + keepTimers[1]
                               ELSE IF keep' < Hold THEN keepTimers[keep' + 1] ELSE 0
      BY <1>7, <3>1
    <3>3. keepTimers[0] \in Nat /\ keepTimers[1] \in Nat /\ keepTimers[keep] \in Nat
      BY <1>7, <3>1
    <3>4. CASE keep' = 0
      <4>1. keep \in {0, 1}
        BY <1>2, <1>5, <2>1, <3>4
      <4>2. QED
        BY <2>2, <3>2, <3>3, <3>4, <4>1
    <3>5. CASE keep' # 0
      <4>1. keep' + 1 = keep /\ keep' < Hold
        BY <1>2, <1>5, <2>1, <3>5
      <4>2. QED
        BY <2>2, <3>2, <3>5, <4>1
    <3>6. QED
      BY <3>4, <3>5
  <2>5. QED
    BY <1>4, <2>2, <2>3, <2>4
<1>12. QED
  BY <1>4, <1>9, <1>10, <1>11, RecordingTypesNext DEF RecordingInv

LEMMA RecordingInitially == RecordingInit => RecordingInv
<1> SUFFICES ASSUME RecordingInit PROVE RecordingInv
  OBVIOUS
<1>1. \A p \in Counted \X (1 .. MaxInputs) : ~(p[2] <= open[p[1]])
  BY DEF RecordingInit, Sources
<1>2. CountedStreams = {}
  BY <1>1 DEF CountedStreams
<1>3. StreamsCounted
  BY <1>2, FS_EmptySet DEF StreamsCounted, RecordingInit
<1>4. RecordingTypeOK
  <2>1. Hold \in Nat /\ MaxInputs \in Nat
    BY RecordingAssumption
  <2>2. NeedTypes
    <3>1. open \in [Sources -> 0 .. MaxInputs] /\ inputCount \in Nat
      BY <2>1 DEF RecordingInit
    <3>2. QED
      BY <3>1 DEF RecordingInit, NeedTypes
  <2>3. DeviceTypes
    <3>1. keep \in None .. Hold /\ idle \in 0 .. Hold
      BY <2>1 DEF RecordingInit, None
    <3>2. keepTimers \in [0 .. Hold -> Nat]
      BY <2>1 DEF RecordingInit
    <3>3. QED
      BY <3>1, <3>2 DEF RecordingInit, DeviceTypes
  <2>4. QED
    BY <2>2, <2>3, RecordingTypesInParts
<1>5. QED
  BY <1>3, <1>4 DEF RecordingInit, RecordingInv, DeadlineHolds, OnAsNeeded, IsRecording

LEMMA RecordingStep == RecordingInv /\ [RecordingNext]_recordingVars => RecordingInv'
<1> SUFFICES ASSUME RecordingInv, [RecordingNext]_recordingVars PROVE RecordingInv'
  OBVIOUS
<1>1. CASE NextStream
  BY <1>1, OpensKeeps, ClosesKeeps, AlreadyOpenKeeps, ReconnectKeeps DEF NextStream
<1>2. CASE NextNeed
  BY <1>2, RecordingNeedKeeps
<1>3. CASE TimerExpires
  BY <1>3, ExpiryKeeps
<1>4. CASE Tick
  BY <1>4, TickKeeps
<1>5. CASE UNCHANGED recordingVars
  BY <1>5 DEF recordingVars, inputVars, deviceVars, RecordingInv, RecordingTypeOK,
     DeadlineHolds, OnAsNeeded, IsRecording, StreamsCounted, CountedStreams
<1>6. QED
  BY <1>1, <1>2, <1>3, <1>4, <1>5 DEF RecordingNext

LEMMA RecordingAlways == RecordingSpec => []RecordingInv
BY RecordingInitially, RecordingStep, PTL DEF RecordingSpec

\* updateIsRecording turns the microphone off only at the deadline.
LEMMA OffAtTheDeadline ==
  ASSUME DeviceTypes, DeadlineHolds, NEW should, NEW tm,
         UpdateIsRecording(should, tm), recording, ~recording'
  PROVE  idle = Hold
<1>1. ~KeepOn(tm) /\ ~Wait(tm)
  BY DEF KeepOn, Wait
<1>2. CASE Tell(should, tm)
  <2>1. should # TRUE
    BY <1>2 DEF Tell
  <2>2. keep = 0
    BY <2>1, <1>1 DEF UpdateIsRecording, Tell
  <2>3. QED
    BY <2>2, RecordingAssumption DEF DeadlineHolds, DeviceTypes, None
<1>3. QED
  BY <1>1, <1>2 DEF UpdateIsRecording

OffStep == recording /\ ~recording' => idle = Hold

LEMMA NextOff == RecordingInv /\ [RecordingNext]_recordingVars => [OffStep]_recordingVars
<1> SUFFICES ASSUME RecordingInv, RecordingNext, recording, ~recording'
             PROVE  idle = Hold
  BY DEF OffStep
<1>1. DeviceTypes /\ DeadlineHolds
  BY RecordingTypesInParts DEF RecordingInv
<1>2. CASE NeedsChange
  <2>1. PICK should : should = IsRecording'
    OBVIOUS
  <2>2. PICK tm : tm = keepTimers
    OBVIOUS
  <2>3. UpdateIsRecording(should, tm)
    BY <1>2, <2>1, <2>2 DEF NeedsChange
  <2>4. QED
    BY <1>1, <2>3, OffAtTheDeadline
<1>3. CASE TimerExpires
  <2>1. PICK should : should = IsRecording
    OBVIOUS
  <2>2. PICK tm : tm = [keepTimers EXCEPT ![0] = @ - 1]
    OBVIOUS
  <2>3. UpdateIsRecording(should, tm)
    BY <1>3, <2>1, <2>2 DEF TimerExpires
  <2>4. QED
    BY <1>1, <2>3, OffAtTheDeadline
<1>4. NeedsChange \/ TimerExpires \/ recording' = recording
  BY DEF RecordingNext, NextStream, NextNeed, InputOpens, InputCloses, StreamsAlreadyOpen,
     Reconnect, InputStreamsOpened, InputStreamClosed, SetActiveInputStream,
     SetMediaServerIsRecording, SetForceMicOn, SetOnActiveCall, Tick, deviceVars
<1>5. QED
  BY <1>2, <1>3, <1>4

LastClose ==
  \A s \in Sources :
    (InputCloses(s) /\ \A r \in Sources : open'[r] = 0) => ~inputActive'

LEMMA NextLastClose ==
  RecordingInv /\ [RecordingNext]_recordingVars => [LastClose]_recordingVars
<1> SUFFICES ASSUME RecordingInv, NEW s \in Sources, InputCloses(s),
                    \A r \in Sources : open'[r] = 0
             PROVE  ~inputActive'
  BY DEF LastClose
<1>1. NeedTypes /\ OnAsNeeded /\ StreamsCounted
  BY RecordingTypesInParts DEF RecordingInv
<1>2. open[s] > 0 /\ open' = [open EXCEPT ![s] = @ - 1] /\ InputStreamClosed(s)
  BY DEF InputCloses
<1>3. /\ open'[s] = open[s] - 1
      /\ \A r \in Sources \ {s} : open'[r] = open[r]
  BY <1>1, <1>2 DEF NeedTypes
<1>4. inputCount' = Max({0, IF s = evoiceactivator THEN inputCount ELSE inputCount - 1})
  BY <1>2 DEF InputStreamClosed
<1>5. /\ StreamsCounted'
      /\ inputCount' = IF s = evoiceactivator THEN inputCount ELSE inputCount - 1
  BY <1>1, <1>2, <1>3, <1>4, OneStreamLess
<1>6. inputCount' = 0
  <2>1. \A p \in Counted \X (1 .. MaxInputs) : ~(p[2] <= open'[p[1]])
    BY DEF Sources
  <2>2. CountedStreams' = {}
    BY <2>1 DEF CountedStreams
  <2>3. QED
    BY <1>5, <2>2, FS_EmptySet DEF StreamsCounted
<1>7. (IF s = evoiceactivator THEN inputCount ELSE inputCount - 1) <= 0
  BY <1>5, <1>6
<1>8. CASE ~onCall \/ recording
  <2>1. SetActiveInputStream(FALSE)
    BY <1>2, <1>7, <1>8 DEF InputStreamClosed
  <2>2. QED
    BY <2>1 DEF SetActiveInputStream
<1>9. CASE ~(~onCall \/ recording)
  <2>1. inputActive' = inputActive
    BY <1>2, <1>9 DEF InputStreamClosed
  <2>2. QED
    BY <1>1, <1>9, <2>1 DEF OnAsNeeded, IsRecording
<1>10. QED
  BY <1>8, <1>9

\* The variables keep their types.
THEOREM RecordingTypes == RecordingSpec => []RecordingTypeOK
<1>1. RecordingInv => RecordingTypeOK
  BY DEF RecordingInv
<1>2. QED
  BY <1>1, RecordingAlways, PTL

\* updateIsRecording: the microphone is on exactly as needed, but for one second
\* after; and for the end of that second a timer is always pending, however many
\* seconds were begun and abandoned before.
THEOREM MicrophoneOnAsNeeded ==
  RecordingSpec =>
    [](/\ IsRecording => recording
       /\ recording /\ ~IsRecording => keep # None /\ keepTimers[keep] > 0)
<1>1. RecordingInv => /\ IsRecording => recording
                      /\ recording /\ ~IsRecording => keep # None /\ keepTimers[keep] > 0
  BY DEF RecordingInv, OnAsNeeded, DeadlineHolds
<1>2. QED
  BY <1>1, RecordingAlways, PTL

\* The microphone goes off only after a whole second without need, whichever of
\* the pending timers calls updateIsRecording.
THEOREM MicrophoneKeptForASecond == RecordingSpec => KeptForASecond
<1>1. [OffStep]_recordingVars <=> [recording /\ ~recording' => idle = Hold]_recordingVars
  BY DEF OffStep
<1>2. QED
  BY <1>1, RecordingAlways, NextOff, PTL DEF RecordingSpec, KeptForASecond

\* inputStreamClosed ends the activity of the input at the last close, within a
\* call too, whatever was opened and counted before.
THEOREM TheLastCloseIsSeen == RecordingSpec => LastCloseIsSeen
<1>1. [LastClose]_recordingVars <=>
        [\A s \in Sources :
          (InputCloses(s) /\ \A r \in Sources : open'[r] = 0) => ~inputActive']_recordingVars
  BY DEF LastClose
<1>2. QED
  BY <1>1, RecordingAlways, NextLastClose, PTL DEF RecordingSpec, LastCloseIsSeen

-----------------------------------------------------------------------------
(* Recording implements Microphone.                                        *)

\* The history restarts with each need.
IdleWhileNeeded == IsRecording => idle = 0

\* updateIsRecording turns the microphone on only if it is needed.
LEMMA OnOnlyIfNeeded ==
  ASSUME NEW should, NEW tm, UpdateIsRecording(should, tm), ~recording, recording'
  PROVE  should
<1>1. ~KeepOn(tm) /\ ~Wait(tm)
  BY DEF KeepOn, Wait
<1>2. Tell(should, tm)
  BY <1>1 DEF UpdateIsRecording
<1>3. QED
  BY <1>2 DEF Tell

LEMMA NextOn ==
  ASSUME [RecordingNext]_recordingVars, ~recording, recording'
  PROVE  IsRecording'
<1>1. CASE NeedsChange
  <2>1. PICK should : should = IsRecording'
    OBVIOUS
  <2>2. PICK tm : tm = keepTimers
    OBVIOUS
  <2>3. UpdateIsRecording(should, tm)
    BY <1>1, <2>1, <2>2 DEF NeedsChange
  <2>4. should
    BY <2>3, OnOnlyIfNeeded
  <2>5. QED
    BY <2>1, <2>4
<1>2. CASE TimerExpires
  <2>1. PICK should : should = IsRecording
    OBVIOUS
  <2>2. PICK tm : tm = [keepTimers EXCEPT ![0] = @ - 1]
    OBVIOUS
  <2>3. UpdateIsRecording(should, tm)
    BY <1>2, <2>1, <2>2 DEF TimerExpires
  <2>4. should
    BY <2>3, OnOnlyIfNeeded
  <2>5. IsRecording' = IsRecording
    BY <1>2 DEF TimerExpires, IsRecording, inputVars
  <2>6. QED
    BY <2>1, <2>4, <2>5
<1>3. NeedsChange \/ TimerExpires \/ recording' = recording
  BY DEF RecordingNext, NextStream, NextNeed, InputOpens, InputCloses, StreamsAlreadyOpen,
     Reconnect, InputStreamsOpened, InputStreamClosed, SetActiveInputStream,
     SetMediaServerIsRecording, SetForceMicOn, SetOnActiveCall, Tick, deviceVars,
     recordingVars
<1>4. QED
  BY <1>1, <1>2, <1>3

\* Only time makes the history longer.
LEMMA HistoryOfNext ==
  ASSUME RecordingInv, [RecordingNext]_recordingVars
  PROVE  \/ Tick
         \/ History
         \/ UNCHANGED <<idle, IsRecording>>
<1>1. CASE NextStream \/ SetMediaServerIsRecording \/ SetForceMicOn
  BY <1>1 DEF NextStream, InputOpens, InputCloses, StreamsAlreadyOpen, Reconnect,
     SetMediaServerIsRecording, SetForceMicOn
<1>2. CASE SetOnActiveCall \/ TimerExpires \/ UNCHANGED recordingVars
  BY <1>2 DEF SetOnActiveCall, TimerExpires, recordingVars, inputVars, IsRecording
<1>3. QED
  BY <1>1, <1>2 DEF RecordingNext, NextNeed

LEMMA NextIdle ==
  ASSUME RecordingInv, IdleWhileNeeded, [RecordingNext]_recordingVars
  PROVE  IdleWhileNeeded'
<1>1. CASE Tick
  <2>1. IsRecording' = IsRecording
    BY <1>1 DEF Tick, IsRecording, inputVars
  <2>2. QED
    BY <1>1, <2>1 DEF Tick, IdleWhileNeeded
<1>2. QED
  BY <1>1, HistoryOfNext DEF IdleWhileNeeded, History

\* A step of Recording, by what it does to the need.
LEMMA StepOfMicrophone ==
  ASSUME RecordingInv, RecordingInv', IdleWhileNeeded, [RecordingNext]_recordingVars
  PROVE  [Mic!MicNext]_(Mic!micVars)
<1>1. /\ recording \in BOOLEAN /\ recording' \in BOOLEAN
      /\ idle \in 0 .. Hold /\ Hold \in Nat \ {0}
  <2>1. DeviceTypes /\ recording \in BOOLEAN
    BY RecordingTypesInParts DEF RecordingInv, DeviceTypes
  <2>2. recording' \in BOOLEAN
    BY DEF RecordingInv, RecordingTypeOK
  <2>3. QED
    BY <2>1, <2>2, RecordingAssumption DEF DeviceTypes
<1>2. (IsRecording => recording) /\ (IsRecording' => recording')
  BY DEF RecordingInv, OnAsNeeded
<1>3. recording /\ ~recording' => idle = Hold
  <2>1. [OffStep]_recordingVars
    BY NextOff
  <2>2. recordingVars' = recordingVars => recording' = recording
    BY DEF recordingVars, deviceVars
  <2>3. QED
    BY <2>1, <2>2 DEF OffStep
<1>4. IsRecording \in BOOLEAN /\ IsRecording' \in BOOLEAN
  BY DEF IsRecording
<1>5. CASE Tick
  <2>1. IsRecording' = IsRecording /\ recording' = recording
    BY <1>5 DEF Tick, IsRecording, inputVars
  <2>2. idle' = IF IsRecording THEN 0 ELSE IF idle + 1 <= Hold THEN idle + 1 ELSE Hold
    BY <1>1, <1>5, MinOfTwo DEF Tick
  <2>3. CASE IsRecording
    BY <2>1, <2>2, <2>3 DEF IdleWhileNeeded, Mic!micVars
  <2>4. CASE ~IsRecording /\ idle < Hold
    <3>1. idle' = idle + 1
      BY <1>1, <2>2, <2>4
    <3>2. Mic!Elapse
      BY <2>1, <2>4, <3>1 DEF Mic!Elapse
    <3>3. QED
      BY <3>2 DEF Mic!MicNext
  <2>5. CASE ~IsRecording /\ idle = Hold
    <3>1. idle' = idle
      BY <1>1, <2>2, <2>5
    <3>2. QED
      BY <2>1, <3>1 DEF Mic!micVars
  <2>6. QED
    BY <1>1, <2>3, <2>4, <2>5
<1>6. CASE History \/ UNCHANGED <<idle, IsRecording>>
  <2>1. (IsRecording' => idle' = 0) /\ (~IsRecording' => idle' = idle)
    BY <1>6 DEF History, IdleWhileNeeded
  <2>2. CASE IsRecording /\ IsRecording'
    <3>1. IsRecording' = IsRecording /\ recording' = recording /\ idle' = idle
      BY <1>1, <1>2, <1>4, <2>1, <2>2 DEF IdleWhileNeeded
    <3>2. QED
      BY <3>1 DEF Mic!micVars
  <2>3. CASE IsRecording /\ ~IsRecording'
    <3>1. recording /\ idle = 0 /\ idle' = idle
      BY <1>2, <2>1, <2>3 DEF IdleWhileNeeded
    <3>2. recording'
      BY <1>1, <1>3, <3>1
    <3>3. Mic!NeedEnds
      BY <1>1, <2>3, <3>1, <3>2 DEF Mic!NeedEnds
    <3>4. QED
      BY <3>3 DEF Mic!MicNext
  <2>4. CASE ~IsRecording /\ IsRecording'
    <3>1. Mic!NeedBegins
      BY <1>2, <2>1, <2>4 DEF Mic!NeedBegins
    <3>2. QED
      BY <3>1 DEF Mic!MicNext
  <2>5. CASE ~IsRecording /\ ~IsRecording'
    <3>1. idle' = idle /\ IsRecording' = IsRecording
      BY <1>4, <2>1, <2>5
    <3>2. recording' => recording
      BY <2>5, NextOn
    <3>3. CASE recording' = recording
      BY <3>1, <3>3 DEF Mic!micVars
    <3>4. CASE recording /\ ~recording'
      <4>1. Mic!TurnOff
        BY <1>3, <2>5, <3>1, <3>4 DEF Mic!TurnOff
      <4>2. QED
        BY <4>1 DEF Mic!MicNext
    <3>5. QED
      BY <1>1, <3>2, <3>3, <3>4
  <2>6. QED
    BY <1>4, <2>2, <2>3, <2>4, <2>5
<1>7. QED
  BY <1>5, <1>6, HistoryOfNext

LEMMA InitOfMicrophone == RecordingInit => Mic!MicInit /\ IdleWhileNeeded
BY DEF RecordingInit, Mic!MicInit, IdleWhileNeeded, IsRecording

\* updateIsRecording, its deadline and its timers implement the microphone that is
\* on from a need to a whole second after the last one.
THEOREM RecordingImplementsMicrophone == RecordingSpec => ImplementsMicrophone
<1>1. RecordingSpec => [](RecordingInv /\ IdleWhileNeeded)
  <2>1. /\ RecordingInv /\ IdleWhileNeeded /\ [RecordingNext]_recordingVars
           => IdleWhileNeeded'
    BY NextIdle
  <2>2. RecordingInit => IdleWhileNeeded
    BY InitOfMicrophone
  <2>3. QED
    BY <2>1, <2>2, RecordingAlways, PTL DEF RecordingSpec
<1>2. RecordingInv /\ RecordingInv' /\ IdleWhileNeeded /\ [RecordingNext]_recordingVars
        => [Mic!MicNext]_(Mic!micVars)
  BY StepOfMicrophone
<1>3. RecordingInit => Mic!MicInit
  BY InitOfMicrophone
<1>4. QED
  BY <1>1, <1>2, <1>3, PTL DEF RecordingSpec, ImplementsMicrophone, Mic!MicSpec
=============================================================================
