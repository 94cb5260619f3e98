--------------------------- MODULE Clients_proofs ---------------------------
(***************************************************************************)
(* Theorems of SharedProperties and UmiMixer, what audiod owes clients,    *)
(* for any set of clients, any finite set of requests and any bounds.      *)
(*                                                                         *)
(* SharedInv: a client with a listener has the value, or a note of it or   *)
(* its registration is in a queue, client by client; that is what makes    *)
(* HeardOrUnderWay inductive.                                              *)
(*                                                                         *)
(* UmiInv: a call or a reply is for a client that waits (Owed); a change,  *)
(* until the subscribers are told, is somewhere (WillTell); and each       *)
(* status call for the subscribers stands for one change (Room).           *)
(* WillTell looks at the last reply that will reach a subscriber, so the   *)
(* order of the replies is what it is about.  Owed also gives that no      *)
(* request of /master is dropped.                                          *)
(***************************************************************************)
EXTENDS SharedProperties, UmiMixer, FiniteSetTheorems, SequenceTheorems, TLAPS

\* A registration, a whole note, in a queue.
Registers(q) == \E i \in DOMAIN q : q[i].register
Notes(q) == \E i \in DOMAIN q : q[i] = "note"

\* audiod's end of a client: it is to be notified only by an audiod that runs and
\* has accepted it.
ServerSide(c) ==
  /\ property[c] => server[c] \in {"open", "closing"}
  /\ ~running => server[c] = "none"

\* A connected client with listeners is known to audiod, or the registration is on
\* its way.
RegisteredOrWill(c) ==
  Connected(c) /\ listener[c] /\ ~property[c] => Registers(up[c])

HeardOrWill(c) ==
  (~command /\ Connected(c) /\ listener[c] /\ ~missed[c]) =>
    heard[c] = value \/ Notes(down[c]) \/ Registers(up[c])

ClientInv(c) == ServerSide(c) /\ RegisteredOrWill(c) /\ HeardOrWill(c)

SharedInv == TypeOK /\ \A c \in Clients : ClientInv(c)

UpMessages == [register : BOOLEAN, set : Values]

\* The types, with the queues of one client by themselves.
SimpleTypes ==
  /\ command \in BOOLEAN /\ running \in BOOLEAN
  /\ value \in Values
  /\ server \in [Clients -> {"none", "backlog", "open", "closing"}]
  /\ property \in [Clients -> BOOLEAN]
  /\ conn \in [Clients -> {"retry", "up", "dead"}]
  /\ listener \in [Clients -> BOOLEAN]
  /\ heard \in [Clients -> Values \cup {Unheard}]

UpTypes == up \in [Clients -> Seq(UpMessages)]
DownTypes == down \in [Clients -> Seq({"note", "half"})] /\ missed \in [Clients -> BOOLEAN]

LEMMA SharedTypesInParts == TypeOK <=> SimpleTypes /\ UpTypes /\ DownTypes
BY DEF TypeOK, SimpleTypes, UpTypes, DownTypes, UpMessages

LEMMA SharedTypesNext == SimpleTypes' /\ UpTypes' /\ DownTypes' => TypeOK'
BY SharedTypesInParts, PTL

-----------------------------------------------------------------------------
(* Queues.                                                                 *)

LEMMA RegistersAppend ==
  ASSUME NEW q \in Seq(UpMessages), NEW m \in UpMessages
  PROVE  /\ Append(q, m) \in Seq(UpMessages)
         /\ Registers(q) \/ m.register => Registers(Append(q, m))
<1>1. /\ Append(q, m) \in Seq(UpMessages)
      /\ DOMAIN Append(q, m) = 1 .. (Len(q) + 1) /\ DOMAIN q = 1 .. Len(q) /\ Len(q) \in Nat
      /\ \A i \in 1 .. Len(q) : Append(q, m)[i] = q[i]
      /\ Append(q, m)[Len(q) + 1] = m
  OBVIOUS
<1>2. ASSUME NEW i \in DOMAIN q, q[i].register PROVE Registers(Append(q, m))
  <2>1. i \in DOMAIN Append(q, m) /\ Append(q, m)[i] = q[i]
    BY <1>1
  <2>2. QED
    BY <1>2, <2>1 DEF Registers
<1>3. ASSUME m.register PROVE Registers(Append(q, m))
  <2>1. Len(q) + 1 \in DOMAIN Append(q, m)
    BY <1>1
  <2>2. QED
    BY <1>1, <1>3, <2>1 DEF Registers
<1>4. QED
  BY <1>1, <1>2, <1>3 DEF Registers

LEMMA RegistersTail ==
  ASSUME NEW q \in Seq(UpMessages), q # <<>>
  PROVE  /\ Tail(q) \in Seq(UpMessages) /\ Head(q) \in UpMessages
         /\ Registers(q) /\ ~Head(q).register => Registers(Tail(q))
<1>1. /\ Tail(q) \in Seq(UpMessages) /\ Head(q) \in UpMessages /\ Head(q) = q[1]
      /\ DOMAIN Tail(q) = 1 .. (Len(q) - 1) /\ DOMAIN q = 1 .. Len(q) /\ Len(q) \in Nat
      /\ \A i \in 1 .. (Len(q) - 1) : Tail(q)[i] = q[i + 1]
  OBVIOUS
<1>2. ASSUME NEW i \in DOMAIN q, q[i].register, ~Head(q).register PROVE Registers(Tail(q))
  <2>1. i # 1
    BY <1>1, <1>2
  <2>2. i - 1 \in DOMAIN Tail(q) /\ Tail(q)[i - 1] = q[(i - 1) + 1] /\ (i - 1) + 1 = i
    BY <1>1, <2>1
  <2>3. QED
    BY <1>2, <2>2 DEF Registers
<1>3. QED
  BY <1>1, <1>2 DEF Registers

LEMMA NotesAppend ==
  ASSUME NEW q \in Seq({"note", "half"}), NEW n \in {"note", "half"}
  PROVE  /\ Append(q, n) \in Seq({"note", "half"})
         /\ Notes(q) \/ n = "note" => Notes(Append(q, n))
<1>1. /\ Append(q, n) \in Seq({"note", "half"})
      /\ DOMAIN Append(q, n) = 1 .. (Len(q) + 1) /\ DOMAIN q = 1 .. Len(q) /\ Len(q) \in Nat
      /\ \A i \in 1 .. Len(q) : Append(q, n)[i] = q[i]
      /\ Append(q, n)[Len(q) + 1] = n
  OBVIOUS
<1>2. ASSUME NEW i \in DOMAIN q, q[i] = "note" PROVE Notes(Append(q, n))
  <2>1. i \in DOMAIN Append(q, n) /\ Append(q, n)[i] = q[i]
    BY <1>1
  <2>2. QED
    BY <1>2, <2>1 DEF Notes
<1>3. ASSUME n = "note" PROVE Notes(Append(q, n))
  <2>1. Len(q) + 1 \in DOMAIN Append(q, n)
    BY <1>1
  <2>2. QED
    BY <1>1, <1>3, <2>1 DEF Notes
<1>4. QED
  BY <1>1, <1>2, <1>3 DEF Notes

-----------------------------------------------------------------------------
(* Notes.                                                                  *)

\* What a change of the value, or a registration, leaves of the notes: those
\* already sent; and for a client in who one more, unless that is known to be lost.
NotesFollow(who) ==
  /\ DownTypes'
  /\ \A d \in Clients :
       /\ Notes(down[d]) => Notes(down'[d])
       /\ d \in who => Notes(down'[d]) \/ missed'[d]
       /\ missed[d] => missed'[d] \/ Notes(down'[d])

LEMMA SendFollows ==
  ASSUME DownTypes, NEW d \in Clients, NEW cut
  PROVE  /\ Send(d, cut) \in Seq({"note", "half"})
         /\ Notes(down[d]) => Notes(Send(d, cut))
         /\ Len(down[d]) >= MaxQueue \/ Notes(Send(d, cut))
<1>1. down[d] \in Seq({"note", "half"}) /\ Len(down[d]) \in Nat /\ MaxQueue \in Nat
  BY SharedPropertiesAssumption DEF DownTypes
<1>2. CASE Len(down[d]) < MaxQueue
  <2>1. Send(d, cut) = Append(down[d], "note")
    BY <1>2 DEF Send
  <2>2. Append(down[d], "note") \in Seq({"note", "half"}) /\ Notes(Append(down[d], "note"))
    BY <1>1, NotesAppend
  <2>3. QED
    BY <2>1, <2>2
<1>3. CASE ~(Len(down[d]) < MaxQueue)
  <2>1. Send(d, cut) = Append(down[d], "half") \/ Send(d, cut) = down[d]
    BY <1>3 DEF Send
  <2>2. /\ Append(down[d], "half") \in Seq({"note", "half"})
        /\ Notes(down[d]) => Notes(Append(down[d], "half"))
    BY <1>1, NotesAppend
  <2>3. Len(down[d]) >= MaxQueue
    BY <1>1, <1>3
  <2>4. QED
    BY <1>1, <2>1, <2>2, <2>3
<1>4. QED
  BY <1>2, <1>3

LEMMA NotifyFollows ==
  ASSUME DownTypes, NEW who \in SUBSET Clients, Notify(who)
  PROVE  NotesFollow(who)
<1>1. PICK cut \in SUBSET who :
        /\ down' = [c \in Clients |-> IF c \in who THEN Send(c, c \in cut) ELSE down[c]]
        /\ missed' = [c \in Clients |-> IF c \in who THEN Len(down[c]) >= MaxQueue
                                        ELSE missed[c]]
  BY DEF Notify
<1>2. ASSUME NEW d \in Clients
      PROVE  /\ down'[d] \in Seq({"note", "half"}) /\ missed'[d] \in BOOLEAN
             /\ Notes(down[d]) => Notes(down'[d])
             /\ d \in who => Notes(down'[d]) \/ missed'[d]
             /\ missed[d] => missed'[d] \/ Notes(down'[d])
  <2>1. PICK b : b = (d \in cut)
    OBVIOUS
  <2>2. CASE d \in who
    <3>1. down'[d] = Send(d, b)
      BY <1>1, <2>1, <2>2
    <3>2. missed'[d] = (Len(down[d]) >= MaxQueue)
      BY <1>1, <2>2
    <3>3. /\ missed'[d] \in BOOLEAN
          /\ Len(down[d]) >= MaxQueue => missed'[d]
      <4>1. CASE Len(down[d]) >= MaxQueue
        <5>1. (Len(down[d]) >= MaxQueue) = TRUE
          BY <4>1, Zenon
        <5>2. QED
          BY <3>2, <5>1, Zenon
      <4>2. CASE ~(Len(down[d]) >= MaxQueue)
        <5>1. (Len(down[d]) >= MaxQueue) = FALSE
          BY <4>2
        <5>2. QED
          BY <3>2, <4>2, <5>1, Zenon
      <4>3. QED
        BY <4>1, <4>2
    <3>4. /\ down'[d] \in Seq({"note", "half"})
          /\ Notes(down[d]) => Notes(down'[d])
          /\ Len(down[d]) >= MaxQueue \/ Notes(down'[d])
      BY <3>1, SendFollows
    <3>5. QED
      BY <3>3, <3>4
  <2>3. CASE d \notin who
    <3>1. down'[d] = down[d] /\ missed'[d] = missed[d]
      BY <1>1, <2>3
    <3>2. QED
      BY <3>1, <2>3 DEF DownTypes
  <2>4. QED
    BY <2>2, <2>3
<1>3. down' = [c \in Clients |-> down'[c]] /\ missed' = [c \in Clients |-> missed'[c]]
  BY <1>1
<1>4. QED
  BY <1>2, <1>3 DEF NotesFollow, DownTypes

\* doSet: those that are to be notified of a change are, or have missed it.
LEMMA DoSetFollows ==
  ASSUME TypeOK, NEW v \in Values, DoSet(v)
  PROVE  /\ value' \in Values
         /\ NotesFollow({})
         /\ value' # value =>
              NotesFollow({d \in Clients : server[d] = "open" /\ property[d]})
<1>1. DownTypes /\ value \in Values
  BY SharedTypesInParts DEF SimpleTypes
<1>2. CASE v # value \/ command
  <2>1. PICK who : who = {d \in Clients : server[d] = "open" /\ property[d]}
    OBVIOUS
  <2>2. value' = v /\ Notify(who)
    BY <1>2, <2>1 DEF DoSet
  <2>3. NotesFollow(who)
    BY <1>1, <2>1, <2>2, NotifyFollows
  <2>4. NotesFollow({})
    BY <2>3 DEF NotesFollow
  <2>5. QED
    BY <2>1, <2>2, <2>3, <2>4
<1>3. CASE ~(v # value \/ command)
  <2>1. UNCHANGED <<value, down, missed>>
    BY <1>3 DEF DoSet
  <2>2. QED
    BY <1>1, <2>1 DEF NotesFollow, DownTypes
<1>4. QED
  BY <1>2, <1>3

-----------------------------------------------------------------------------
(* The invariant of one client.                                            *)

\* A client that a step does not touch.
LEMMA UntouchedKeeps ==
  ASSUME NEW d \in Clients, ClientInv(d), UNCHANGED <<command, running, value>>,
         server'[d] = server[d], property'[d] = property[d], conn'[d] = conn[d],
         listener'[d] = listener[d], heard'[d] = heard[d], missed'[d] = missed[d],
         up'[d] = up[d], down'[d] = down[d]
  PROVE  ClientInv(d)'
BY DEF ClientInv, ServerSide, RegisteredOrWill, HeardOrWill, Connected

\* A client that is not connected, or not to audiod.
LEMMA ApartKeeps ==
  ASSUME NEW d \in Clients, conn'[d] # "up" \/ server'[d] \notin {"backlog", "open"},
         property'[d] => server'[d] \in {"open", "closing"},
         ~running' => server'[d] = "none"
  PROVE  ClientInv(d)'
BY DEF ClientInv, ServerSide, RegisteredOrWill, HeardOrWill, Connected

\* A change of the value finds every client registered, or about to be: the first
\* are notified, the others will be.
LEMMA SetKeeps ==
  ASSUME SharedInv, NEW v \in Values, DoSet(v), UNCHANGED <<command, running>>,
         NEW d \in Clients,
         server'[d] = server[d], property'[d] = property[d], conn'[d] = conn[d],
         listener'[d] = listener[d], heard'[d] = heard[d],
         Registers(up[d]) => Registers(up'[d])
  PROVE  ClientInv(d)'
<1>1. ClientInv(d) /\ TypeOK
  BY DEF SharedInv
<1>2. /\ NotesFollow({})
      /\ value' # value =>
           NotesFollow({c \in Clients : server[c] = "open" /\ property[c]})
  BY <1>1, DoSetFollows
<1>3. ServerSide(d)' /\ RegisteredOrWill(d)'
  BY <1>1 DEF ClientInv, ServerSide, RegisteredOrWill, Connected
<1>4. HeardOrWill(d)'
  <2> SUFFICES ASSUME ~command, Connected(d), listener[d], ~missed'[d]
               PROVE  heard[d] = value' \/ Notes(down'[d]) \/ Registers(up'[d])
    BY DEF HeardOrWill, Connected
  <2>1. Notes(down[d]) => Notes(down'[d])
    BY <1>2 DEF NotesFollow
  <2>2. missed[d] => Notes(down'[d])
    BY <1>2 DEF NotesFollow
  <2>3. CASE value' = value
    BY <1>1, <2>1, <2>2, <2>3 DEF ClientInv, HeardOrWill
  <2>4. CASE value' # value /\ property[d]
    <3>1. server[d] = "open"
      BY <1>1, <2>4 DEF ClientInv, ServerSide, Connected
    <3>2. d \in {c \in Clients : server[c] = "open" /\ property[c]}
      BY <2>4, <3>1
    <3>3. QED
      BY <1>2, <2>4, <3>2 DEF NotesFollow
  <2>5. CASE ~property[d]
    BY <1>1, <2>5 DEF ClientInv, RegisteredOrWill
  <2>6. QED
    BY <2>3, <2>4, <2>5
<1>5. QED
  BY <1>3, <1>4 DEF ClientInv

-----------------------------------------------------------------------------
(* The steps of audiod.                                                    *)

LEMMA ServerSetsKeeps ==
  ASSUME SharedInv, NEW v \in Values, ServerSets(v)
  PROVE  SharedInv'
<1>1. DoSet(v) /\ UNCHANGED <<command, running, server, property, conn, listener, up, heard>>
  BY DEF ServerSets
<1>2. value' \in Values /\ DownTypes'
  BY <1>1, DoSetFollows DEF SharedInv, NotesFollow
<1>3. TypeOK'
  BY <1>1, <1>2, SharedTypesInParts, SharedTypesNext DEF SharedInv, SimpleTypes, UpTypes
<1>4. ASSUME NEW d \in Clients PROVE ClientInv(d)'
  BY <1>1, SetKeeps
<1>5. QED
  BY <1>3, <1>4 DEF SharedInv

LEMMA AcceptKeeps ==
  ASSUME SharedInv, NEW c \in Clients, Accept(c)
  PROVE  SharedInv'
<1>1. SimpleTypes /\ UpTypes /\ DownTypes
  BY SharedTypesInParts DEF SharedInv
<1>2. /\ running /\ server[c] = "backlog"
      /\ server' = [server EXCEPT ![c] = "open"]
      /\ property' = [property EXCEPT ![c] = FALSE]
      /\ UNCHANGED <<command, running, value, conn, listener, up, down, heard, missed>>
  BY DEF Accept
<1>3. TypeOK'
  BY <1>1, <1>2, SharedTypesNext DEF SimpleTypes, UpTypes, DownTypes
<1>4. ASSUME NEW d \in Clients PROVE ClientInv(d)'
  <2>1. ClientInv(d)
    BY DEF SharedInv
  <2>2. CASE d = c
    <3>1. server'[c] = "open" /\ property'[c] = FALSE
      BY <1>1, <1>2 DEF SimpleTypes
    <3>2. ~property[c]
      BY <1>2, <2>1, <2>2 DEF ClientInv, ServerSide
    <3>3. QED
      BY <1>2, <2>1, <2>2, <3>1, <3>2
         DEF ClientInv, ServerSide, RegisteredOrWill, HeardOrWill, Connected
  <2>3. CASE d # c
    <3>1. server'[d] = server[d] /\ property'[d] = property[d]
      BY <1>1, <1>2, <2>3 DEF SimpleTypes
    <3>2. QED
      BY <1>2, <2>1, <3>1, UntouchedKeeps
  <2>4. QED
    BY <2>2, <2>3
<1>5. QED
  BY <1>3, <1>4 DEF SharedInv

\* A registration that arrives is kept and answered by a note.
LEMMA RegisterKeeps ==
  ASSUME SharedInv, NEW c \in Clients, ServerReceives(c), Head(up[c]).register
  PROVE  SharedInv'
<1>1. SimpleTypes /\ UpTypes /\ DownTypes
  BY SharedTypesInParts DEF SharedInv
<1>2. /\ running /\ server[c] = "open" /\ up[c] # <<>>
      /\ up' = [up EXCEPT ![c] = Tail(@)]
      /\ property' = [property EXCEPT ![c] = TRUE]
      /\ UNCHANGED <<command, running, value, server, conn, listener, heard>>
  BY DEF ServerReceives, DataReceived
<1>3. IF command THEN UNCHANGED <<down, missed>> ELSE Notify({c})
  <2>1. PICK m : m = Head(up[c])
    OBVIOUS
  <2>2. DataReceived(c, m) /\ m.register
    BY <2>1 DEF ServerReceives
  <2>3. QED
    BY <1>2, <2>2 DEF DataReceived
<1>4. DownTypes' /\ (~command => NotesFollow({c}))
  <2>1. CASE command
    BY <1>1, <1>3, <2>1 DEF DownTypes
  <2>2. CASE ~command
    <3>1. NotesFollow({c})
      BY <1>1, <1>3, <2>2, NotifyFollows
    <3>2. QED
      BY <3>1 DEF NotesFollow
  <2>3. QED
    BY <2>1, <2>2
<1>5. up[c] \in Seq(UpMessages) /\ Tail(up[c]) \in Seq(UpMessages)
  BY <1>1, <1>2, RegistersTail DEF UpTypes
<1>6. SimpleTypes' /\ UpTypes'
  BY <1>1, <1>2, <1>5 DEF SimpleTypes, UpTypes
<1>7. ASSUME NEW d \in Clients PROVE ClientInv(d)'
  <2>1. ClientInv(d)
    BY DEF SharedInv
  <2>2. ~command => /\ Notes(down[d]) => Notes(down'[d])
                    /\ missed[d] => missed'[d] \/ Notes(down'[d])
    BY <1>4 DEF NotesFollow
  <2>3. CASE d = c
    <3>1. property'[c] = TRUE
      BY <1>1, <1>2 DEF SimpleTypes
    <3>2. ~command => Notes(down'[c]) \/ missed'[c]
      BY <1>4 DEF NotesFollow
    <3>3. QED
      BY <1>2, <2>3, <3>1, <3>2
         DEF ClientInv, ServerSide, RegisteredOrWill, HeardOrWill, Connected
  <2>4. CASE d # c
    <3>1. property'[d] = property[d] /\ up'[d] = up[d]
      BY <1>1, <1>2, <2>4 DEF SimpleTypes, UpTypes
    <3>2. QED
      BY <1>2, <2>1, <2>2, <3>1
         DEF ClientInv, ServerSide, RegisteredOrWill, HeardOrWill, Connected
  <2>5. QED
    BY <2>3, <2>4
<1>8. QED
  BY <1>4, <1>6, <1>7, SharedTypesNext DEF SharedInv

LEMMA SetReceivedKeeps ==
  ASSUME SharedInv, NEW c \in Clients, ServerReceives(c), ~Head(up[c]).register
  PROVE  SharedInv'
<1>1. SimpleTypes /\ UpTypes /\ DownTypes /\ TypeOK
  BY SharedTypesInParts DEF SharedInv
<1>2. /\ up[c] # <<>>
      /\ up' = [up EXCEPT ![c] = Tail(@)]
      /\ UNCHANGED <<command, running, server, conn, listener, heard, property>>
  BY DEF ServerReceives, DataReceived
<1>3. /\ up[c] \in Seq(UpMessages) /\ Tail(up[c]) \in Seq(UpMessages)
      /\ Head(up[c]) \in UpMessages
      /\ Registers(up[c]) => Registers(Tail(up[c]))
  BY <1>1, <1>2, RegistersTail DEF UpTypes
<1>4. PICK v \in Values : DoSet(v)
  <2>1. PICK m \in UpMessages : m = Head(up[c])
    BY <1>3
  <2>2. DataReceived(c, m) /\ ~m.register
    BY <2>1 DEF ServerReceives
  <2>3. PICK v : v = m.set
    OBVIOUS
  <2>4. v \in Values
    BY <2>3 DEF UpMessages
  <2>5. DoSet(v)
    BY <2>2, <2>3 DEF DataReceived, RequestReceived
  <2>6. QED
    BY <2>4, <2>5
<1>5. value' \in Values /\ DownTypes'
  BY <1>1, <1>4, DoSetFollows DEF NotesFollow
<1>6. SimpleTypes' /\ UpTypes'
  BY <1>1, <1>2, <1>3, <1>5 DEF SimpleTypes, UpTypes
<1>7. ASSUME NEW d \in Clients PROVE ClientInv(d)'
  <2>1. Registers(up[d]) => Registers(up'[d])
    BY <1>1, <1>2, <1>3 DEF UpTypes
  <2>2. QED
    BY <1>2, <1>4, <2>1, SetKeeps
<1>8. QED
  BY <1>5, <1>6, <1>7, SharedTypesNext DEF SharedInv

\* A client that has hung up is forgotten; the message still read may be a set.
LEMMA HangUpKeeps ==
  ASSUME SharedInv, NEW c \in Clients, ServerHangUp(c)
  PROVE  SharedInv'
<1>1. SimpleTypes /\ UpTypes /\ DownTypes /\ TypeOK
  BY SharedTypesInParts DEF SharedInv
<1>2. /\ running /\ up' = [up EXCEPT ![c] = <<>>]
      /\ server' = [server EXCEPT ![c] = "none"]
      /\ property' = [property EXCEPT ![c] = FALSE]
      /\ UNCHANGED <<command, running, conn, listener, heard>>
  BY DEF ServerHangUp, SocketClosed
<1>3. \/ UNCHANGED <<value, down, missed>>
      \/ \E v \in Values : DoSet(v)
  <2>1. CASE up[c] # <<>> /\ ~Head(up[c]).register
    <3>1. Head(up[c]) \in UpMessages
      BY <1>1, <2>1, RegistersTail DEF UpTypes
    <3>2. PICK v : v = Head(up[c]).set
      OBVIOUS
    <3>3. v \in Values
      BY <3>1, <3>2 DEF UpMessages
    <3>4. DoSet(v)
      BY <2>1, <3>2 DEF ServerHangUp, RequestReceived
    <3>5. QED
      BY <3>3, <3>4
  <2>2. CASE ~(up[c] # <<>> /\ ~Head(up[c]).register)
    BY <2>2 DEF ServerHangUp
  <2>3. QED
    BY <2>1, <2>2
<1>4. value' \in Values /\ DownTypes'
  BY <1>1, <1>3, DoSetFollows DEF NotesFollow, DownTypes, SimpleTypes
<1>5. SimpleTypes' /\ UpTypes'
  BY <1>1, <1>2, <1>4 DEF SimpleTypes, UpTypes
<1>6. ASSUME NEW d \in Clients PROVE ClientInv(d)'
  <2>1. CASE d = c
    <3>1. server'[c] = "none" /\ property'[c] = FALSE
      BY <1>1, <1>2 DEF SimpleTypes
    <3>2. QED
      BY <2>1, <3>1, ApartKeeps
  <2>2. CASE d # c
    <3>1. server'[d] = server[d] /\ property'[d] = property[d] /\ up'[d] = up[d]
      BY <1>1, <1>2, <2>2 DEF SimpleTypes, UpTypes
    <3>2. CASE UNCHANGED <<value, down, missed>>
      BY <1>2, <3>1, <3>2, UntouchedKeeps DEF SharedInv
    <3>3. CASE \E v \in Values : DoSet(v)
      BY <1>2, <3>1, <3>3, SetKeeps
    <3>4. QED
      BY <1>3, <3>2, <3>3
  <2>3. QED
    BY <2>1, <2>2
<1>7. QED
  BY <1>4, <1>5, <1>6, SharedTypesNext DEF SharedInv

LEMMA DiesKeeps ==
  ASSUME SharedInv, ServerDies
  PROVE  SharedInv'
<1>1. SimpleTypes /\ UpTypes /\ DownTypes
  BY SharedTypesInParts DEF SharedInv
<1>2. <<>> \in Seq(UpMessages)
  OBVIOUS
<1>3. SimpleTypes' /\ UpTypes' /\ DownTypes'
  BY <1>1, <1>2 DEF ServerDies, SimpleTypes, UpTypes, DownTypes
<1>4. ASSUME NEW d \in Clients PROVE ClientInv(d)'
  <2>1. server'[d] = "none" /\ property'[d] = FALSE
    BY DEF ServerDies
  <2>2. QED
    BY <2>1, ApartKeeps
<1>5. QED
  BY <1>3, <1>4, SharedTypesNext DEF SharedInv

LEMMA StartsKeeps ==
  ASSUME SharedInv, ServerStarts
  PROVE  SharedInv'
<1>1. SimpleTypes /\ UpTypes /\ DownTypes
  BY SharedTypesInParts DEF SharedInv
<1>2. SimpleTypes' /\ UpTypes' /\ DownTypes'
  BY <1>1, SharedPropertiesAssumption
     DEF ServerStarts, SimpleTypes, UpTypes, DownTypes, socketVars
<1>3. ASSUME NEW d \in Clients PROVE ClientInv(d)'
  <2>1. server[d] = "none" /\ ~property[d]
    BY DEF SharedInv, ClientInv, ServerSide, ServerStarts
  <2>2. server'[d] = "none" /\ ~property'[d]
    BY <2>1 DEF ServerStarts, socketVars
  <2>3. QED
    BY <2>2, ApartKeeps
<1>4. QED
  BY <1>2, <1>3, SharedTypesNext DEF SharedInv

-----------------------------------------------------------------------------
(* The steps of clients.                                                   *)

LEMMA RegisterIsMessage ==
  /\ Register \in UpMessages /\ Register.register
  /\ <<>> \in Seq(UpMessages) /\ <<Register>> \in Seq(UpMessages)
  /\ Registers(<<Register>>)
<1>1. Register \in UpMessages /\ Register.register
  BY SharedPropertiesAssumption DEF Register, UpMessages
<1>2. 1 \in DOMAIN <<Register>> /\ <<Register>>[1] = Register
  OBVIOUS
<1>3. QED
  BY <1>1, <1>2 DEF Registers

\* A new connection carries the registration first, if anyone listens.
LEMMA ConnectKeeps ==
  ASSUME SharedInv, NEW c \in Clients, Connect(c)
  PROVE  SharedInv'
<1>1. SimpleTypes /\ UpTypes /\ DownTypes
  BY SharedTypesInParts DEF SharedInv
<1>2. /\ running /\ server[c] = "none"
      /\ conn' = [conn EXCEPT ![c] = "up"]
      /\ server' = [server EXCEPT ![c] = "backlog"]
      /\ up' = [up EXCEPT ![c] = AttachSharedMemory(c)]
      /\ down' = [down EXCEPT ![c] = <<>>]
      /\ missed' = [missed EXCEPT ![c] = FALSE]
      /\ UNCHANGED <<command, running, value, property, listener, heard>>
  BY DEF Connect, TryToConnectOnce
<1>3. /\ AttachSharedMemory(c) \in Seq(UpMessages)
      /\ listener[c] => Registers(AttachSharedMemory(c))
  BY RegisterIsMessage DEF AttachSharedMemory
<1>4. SimpleTypes'
  BY <1>1, <1>2 DEF SimpleTypes
<1>5. UpTypes'
  BY <1>1, <1>2, <1>3 DEF UpTypes
<1>6. DownTypes'
  <2>1. <<>> \in Seq({"note", "half"})
    OBVIOUS
  <2>2. QED
    BY <1>1, <1>2, <2>1 DEF DownTypes
<1>7. ASSUME NEW d \in Clients PROVE ClientInv(d)'
  <2>1. ClientInv(d)
    BY DEF SharedInv
  <2>2. CASE d = c
    <3>1. server'[c] = "backlog" /\ up'[c] = AttachSharedMemory(c)
      BY <1>1, <1>2 DEF SimpleTypes, UpTypes
    <3>2. ~property[c]
      BY <1>2, <2>1, <2>2 DEF ClientInv, ServerSide
    <3>3. listener[c] => Registers(up'[c])
      BY <1>3, <3>1
    <3>4. QED
      BY <1>2, <2>2, <3>1, <3>2, <3>3
         DEF ClientInv, ServerSide, RegisteredOrWill, HeardOrWill
  <2>3. CASE d # c
    <3>1. /\ server'[d] = server[d] /\ conn'[d] = conn[d] /\ up'[d] = up[d]
          /\ down'[d] = down[d] /\ missed'[d] = missed[d]
      BY <1>1, <1>2, <2>3 DEF SimpleTypes, UpTypes, DownTypes
    <3>2. QED
      BY <1>2, <2>1, <3>1, UntouchedKeeps
  <2>4. QED
    BY <2>2, <2>3
<1>8. QED
  BY <1>4, <1>5, <1>6, <1>7, SharedTypesNext DEF SharedInv

\* The first listener of a connected client registers.
LEMMA SendChangesKeeps ==
  ASSUME SharedInv, NEW c \in Clients, SendChanges(c)
  PROVE  SharedInv'
<1>1. SimpleTypes /\ UpTypes /\ DownTypes
  BY SharedTypesInParts DEF SharedInv
<1>2. /\ listener' = [listener EXCEPT ![c] = TRUE]
      /\ up' = [up EXCEPT ![c] = IF Connected(c) THEN Append(@, Register) ELSE @]
      /\ UNCHANGED <<command, running, value, server, property, conn, down, heard, missed>>
  BY DEF SendChanges
<1>3. /\ up[c] \in Seq(UpMessages) /\ Append(up[c], Register) \in Seq(UpMessages)
      /\ Registers(Append(up[c], Register))
  BY <1>1, RegisterIsMessage, RegistersAppend DEF UpTypes
<1>4. up'[c] = (IF Connected(c) THEN Append(up[c], Register) ELSE up[c])
  BY <1>1, <1>2 DEF UpTypes
<1>5. up'[c] \in Seq(UpMessages)
  BY <1>3, <1>4
<1>6. SimpleTypes' /\ UpTypes' /\ DownTypes'
  BY <1>1, <1>2, <1>5 DEF SimpleTypes, UpTypes, DownTypes
<1>7. ASSUME NEW d \in Clients PROVE ClientInv(d)'
  <2>1. ClientInv(d)
    BY DEF SharedInv
  <2>2. CASE d = c
    <3>1. Connected(c) => Registers(up'[c])
      BY <1>3, <1>4
    <3>2. Connected(c)' <=> Connected(c)
      BY <1>2 DEF Connected
    <3>3. QED
      BY <1>2, <2>1, <2>2, <3>1, <3>2
         DEF ClientInv, ServerSide, RegisteredOrWill, HeardOrWill
  <2>3. CASE d # c
    <3>1. listener'[d] = listener[d] /\ up'[d] = up[d]
      BY <1>1, <1>2, <2>3 DEF SimpleTypes, UpTypes
    <3>2. QED
      BY <1>2, <2>1, <3>1, UntouchedKeeps
  <2>4. QED
    BY <2>2, <2>3
<1>8. QED
  BY <1>6, <1>7, SharedTypesNext DEF SharedInv

LEMMA ClientSetsKeeps ==
  ASSUME SharedInv, NEW c \in Clients, NEW v \in Values, ClientSets(c, v)
  PROVE  SharedInv'
<1>1. SimpleTypes /\ UpTypes /\ DownTypes
  BY SharedTypesInParts DEF SharedInv
<1>2. /\ up' = [up EXCEPT ![c] = Append(@, SetTo(v))]
      /\ UNCHANGED <<command, running, value, server, property, conn, listener, down,
                     heard, missed>>
  BY DEF ClientSets
<1>3. SetTo(v) \in UpMessages
  BY DEF SetTo, UpMessages
<1>4. /\ up[c] \in Seq(UpMessages) /\ Append(up[c], SetTo(v)) \in Seq(UpMessages)
      /\ Registers(up[c]) => Registers(Append(up[c], SetTo(v)))
  BY <1>1, <1>3, RegistersAppend DEF UpTypes
<1>5. SimpleTypes' /\ UpTypes' /\ DownTypes'
  BY <1>1, <1>2, <1>4 DEF SimpleTypes, UpTypes, DownTypes
<1>6. ASSUME NEW d \in Clients PROVE ClientInv(d)'
  <2>1. ClientInv(d)
    BY DEF SharedInv
  <2>2. Registers(up[d]) => Registers(up'[d])
    BY <1>1, <1>2, <1>4 DEF UpTypes
  <2>3. QED
    BY <1>2, <2>1, <2>2
       DEF ClientInv, ServerSide, RegisteredOrWill, HeardOrWill, Connected
<1>7. QED
  BY <1>5, <1>6, SharedTypesNext DEF SharedInv

LEMMA NotesTail ==
  ASSUME NEW q \in Seq({"note", "half"}), q # <<>>
  PROVE  Tail(q) \in Seq({"note", "half"})
OBVIOUS

\* A listener that is called has heard the present value.
LEMMA ListenKeeps ==
  ASSUME SharedInv, NEW c \in Clients, ClientReceives(c), Head(down[c]) = "note"
  PROVE  SharedInv'
<1>1. SimpleTypes /\ UpTypes /\ DownTypes
  BY SharedTypesInParts DEF SharedInv
<1>2. /\ down[c] # <<>>
      /\ heard' = [heard EXCEPT ![c] = value]
      /\ down' = [down EXCEPT ![c] = Tail(@)]
      /\ UNCHANGED <<conn, server>>
      /\ UNCHANGED <<command, running, value, property, listener, up, missed>>
  BY DEF ClientReceives, Listen
<1>3. Tail(down[c]) \in Seq({"note", "half"})
  BY <1>1, <1>2, NotesTail DEF DownTypes
<1>4. SimpleTypes' /\ UpTypes' /\ DownTypes'
  BY <1>1, <1>2, <1>3 DEF SimpleTypes, UpTypes, DownTypes
<1>5. ASSUME NEW d \in Clients PROVE ClientInv(d)'
  <2>1. ClientInv(d)
    BY DEF SharedInv
  <2>2. CASE d = c
    <3>1. heard'[c] = value
      BY <1>1, <1>2 DEF SimpleTypes
    <3>2. QED
      BY <1>2, <2>1, <2>2, <3>1
         DEF ClientInv, ServerSide, RegisteredOrWill, HeardOrWill, Connected
  <2>3. CASE d # c
    <3>1. heard'[d] = heard[d] /\ down'[d] = down[d]
      BY <1>1, <1>2, <2>3 DEF SimpleTypes, DownTypes
    <3>2. QED
      BY <1>2, <2>1, <3>1, UntouchedKeeps
  <2>4. QED
    BY <2>2, <2>3
<1>6. QED
  BY <1>4, <1>5, SharedTypesNext DEF SharedInv

\* The end of a connection on the client's side: it is not connected after it.
LEMMA LeavesKeeps ==
  ASSUME SharedInv, NEW c \in Clients,
         conn' \in [Clients -> {"retry", "up", "dead"}],
         conn'[c] # "up" \/ server'[c] \notin {"backlog", "open"},
         \A d \in Clients \ {c} :
           /\ conn'[d] = conn[d] /\ server'[d] = server[d] /\ listener'[d] = listener[d]
           /\ heard'[d] = heard[d] /\ down'[d] = down[d],
         \/ server' = server
         \/ server' = [server EXCEPT ![c] = IF @ = "none" THEN @ ELSE "closing"],
         listener' \in [Clients -> BOOLEAN],
         heard' \in [Clients -> Values \cup {Unheard}],
         down' = [down EXCEPT ![c] = <<>>],
         UNCHANGED <<command, running, value, property, up, missed>>
  PROVE  SharedInv'
<1>1. SimpleTypes /\ UpTypes /\ DownTypes
  BY SharedTypesInParts DEF SharedInv
<1>2. server'[c] = server[c] \/ (server[c] # "none" /\ server'[c] = "closing")
  BY <1>1 DEF SimpleTypes
<1>3. server' \in [Clients -> {"none", "backlog", "open", "closing"}]
  BY <1>1 DEF SimpleTypes
<1>4. SimpleTypes' /\ UpTypes'
  BY <1>1, <1>3 DEF SimpleTypes, UpTypes
<1>5. DownTypes'
  <2>1. <<>> \in Seq({"note", "half"})
    OBVIOUS
  <2>2. QED
    BY <1>1, <2>1 DEF DownTypes
<1>6. ASSUME NEW d \in Clients PROVE ClientInv(d)'
  <2>1. ClientInv(d)
    BY DEF SharedInv
  <2>2. CASE d = c
    <3>1. /\ property'[c] => server'[c] \in {"open", "closing"}
          /\ ~running' => server'[c] = "none"
      BY <1>2, <2>1, <2>2 DEF ClientInv, ServerSide
    <3>2. QED
      BY <2>2, <3>1, ApartKeeps
  <2>3. CASE d # c
    BY <2>1, <2>3, UntouchedKeeps
  <2>4. QED
    BY <2>2, <2>3
<1>7. QED
  BY <1>4, <1>5, <1>6, SharedTypesNext DEF SharedInv

LEMMA ShutdownKeeps ==
  ASSUME SharedInv, NEW c \in Clients, ClientReceives(c), Head(down[c]) # "note"
  PROVE  SharedInv'
<1>1. SimpleTypes /\ UpTypes /\ DownTypes
  BY SharedTypesInParts DEF SharedInv
<1>2. /\ conn' = [conn EXCEPT ![c] = "dead"]
      /\ down' = [down EXCEPT ![c] = <<>>]
      /\ server' = [server EXCEPT ![c] = IF @ = "none" THEN @ ELSE "closing"]
      /\ UNCHANGED heard
      /\ UNCHANGED <<command, running, value, property, listener, up, missed>>
  BY DEF ClientReceives, Shutdown, EndSeen
<1>3. conn'[c] = "dead" /\ conn' \in [Clients -> {"retry", "up", "dead"}]
  BY <1>1, <1>2 DEF SimpleTypes
<1>4. \A d \in Clients \ {c} :
        /\ conn'[d] = conn[d] /\ server'[d] = server[d] /\ listener'[d] = listener[d]
        /\ heard'[d] = heard[d] /\ down'[d] = down[d]
  BY <1>1, <1>2 DEF SimpleTypes, DownTypes
<1>5. listener' \in [Clients -> BOOLEAN] /\ heard' \in [Clients -> Values \cup {Unheard}]
  BY <1>1, <1>2 DEF SimpleTypes
<1>6. QED
  BY <1>2, <1>3, <1>4, <1>5, LeavesKeeps

LEMMA ClientHangUpKeeps ==
  ASSUME SharedInv, NEW c \in Clients, ClientHangUp(c)
  PROVE  SharedInv'
<1>1. SimpleTypes /\ UpTypes /\ DownTypes
  BY SharedTypesInParts DEF SharedInv
<1>2. /\ conn' = [conn EXCEPT ![c] = "retry"]
      /\ down' = [down EXCEPT ![c] = <<>>]
      /\ heard' = [heard EXCEPT ![c] = value] \/ heard' = heard
      /\ UNCHANGED <<command, running, value, server, property, listener, up, missed>>
  BY DEF ClientHangUp, Listen
<1>3. conn'[c] = "retry" /\ conn' \in [Clients -> {"retry", "up", "dead"}]
  BY <1>1, <1>2 DEF SimpleTypes
<1>4. \A d \in Clients \ {c} :
        /\ conn'[d] = conn[d] /\ server'[d] = server[d] /\ listener'[d] = listener[d]
        /\ heard'[d] = heard[d] /\ down'[d] = down[d]
  BY <1>1, <1>2 DEF SimpleTypes, DownTypes
<1>5. listener' \in [Clients -> BOOLEAN] /\ heard' \in [Clients -> Values \cup {Unheard}]
  BY <1>1, <1>2 DEF SimpleTypes
<1>6. QED
  BY <1>2, <1>3, <1>4, <1>5, LeavesKeeps

LEMMA ClientDiesKeeps ==
  ASSUME SharedInv, NEW c \in Clients, ClientDies(c)
  PROVE  SharedInv'
<1>1. SimpleTypes /\ UpTypes /\ DownTypes
  BY SharedTypesInParts DEF SharedInv
<1>2. /\ conn' = [conn EXCEPT ![c] = "retry"]
      /\ server' = [server EXCEPT ![c] = IF @ = "none" THEN @ ELSE "closing"]
      /\ listener' = [listener EXCEPT ![c] = FALSE]
      /\ heard' = [heard EXCEPT ![c] = Unheard]
      /\ down' = [down EXCEPT ![c] = <<>>]
      /\ UNCHANGED <<command, running, value, property, up, missed>>
  BY DEF ClientDies, EndSeen
<1>3. conn'[c] = "retry" /\ conn' \in [Clients -> {"retry", "up", "dead"}]
  BY <1>1, <1>2 DEF SimpleTypes
<1>4. \A d \in Clients \ {c} :
        /\ conn'[d] = conn[d] /\ server'[d] = server[d] /\ listener'[d] = listener[d]
        /\ heard'[d] = heard[d] /\ down'[d] = down[d]
  BY <1>1, <1>2 DEF SimpleTypes, DownTypes
<1>5. listener' \in [Clients -> BOOLEAN] /\ heard' \in [Clients -> Values \cup {Unheard}]
  BY <1>1, <1>2 DEF SimpleTypes
<1>6. QED
  BY <1>2, <1>3, <1>4, <1>5, LeavesKeeps

-----------------------------------------------------------------------------
LEMMA SharedInitially == Init => SharedInv
<1> SUFFICES ASSUME Init PROVE SharedInv
  OBVIOUS
<1>1. <<>> \in Seq(UpMessages) /\ <<>> \in Seq({"note", "half"})
  OBVIOUS
<1>2. SimpleTypes
  BY SharedPropertiesAssumption DEF Init, SimpleTypes
<1>3. UpTypes /\ DownTypes
  BY <1>1 DEF Init, UpTypes, DownTypes
<1>4. ASSUME NEW d \in Clients PROVE ClientInv(d)
  BY DEF Init, ClientInv, ServerSide, RegisteredOrWill, HeardOrWill, Connected
<1>5. QED
  BY <1>2, <1>3, <1>4, SharedTypesInParts DEF SharedInv

LEMMA SharedStep == SharedInv /\ [Next]_vars => SharedInv'
<1> SUFFICES ASSUME SharedInv, [Next]_vars PROVE SharedInv'
  OBVIOUS
<1>1. ASSUME NEW c \in Clients, ServerStep(c) PROVE SharedInv'
  BY <1>1, AcceptKeeps, RegisterKeeps, SetReceivedKeeps, HangUpKeeps DEF ServerStep
<1>2. ASSUME NEW c \in Clients, ClientStep(c) PROVE SharedInv'
  BY <1>2, ConnectKeeps, ListenKeeps, ShutdownKeeps, ClientHangUpKeeps DEF ClientStep
<1>3. ASSUME NEW c \in Clients, SendChanges(c) \/ ClientDies(c) PROVE SharedInv'
  BY <1>3, SendChangesKeeps, ClientDiesKeeps
<1>4. ASSUME NEW c \in Clients, NEW v \in Values, ClientSets(c, v) PROVE SharedInv'
  BY <1>4, ClientSetsKeeps
<1>5. ASSUME NEW v \in Values, ServerSets(v) PROVE SharedInv'
  BY <1>5, ServerSetsKeeps
<1>6. CASE ServerDies \/ ServerStarts
  BY <1>6, DiesKeeps, StartsKeeps
<1>7. CASE UNCHANGED vars
  <2>1. UNCHANGED <<command, running, value, server, property, conn, listener, up, down,
                    heard, missed>>
    BY <1>7 DEF vars
  <2>2. TypeOK'
    BY <2>1 DEF SharedInv, TypeOK
  <2>3. ASSUME NEW d \in Clients PROVE ClientInv(d)'
    BY <2>1, UntouchedKeeps DEF SharedInv
  <2>4. QED
    BY <2>2, <2>3 DEF SharedInv
<1>8. QED
  BY <1>1, <1>2, <1>3, <1>4, <1>5, <1>6, <1>7 DEF Next

LEMMA SharedAlways == Spec => []SharedInv
BY SharedInitially, SharedStep, PTL DEF Spec

\* The variables keep their types.
THEOREM SharedTypes == Spec => []TypeOK
<1>1. SharedInv => TypeOK
  BY DEF SharedInv
<1>2. QED
  BY <1>1, SharedAlways, PTL

\* A client with listeners that is connected is known to audiod, or will be by
\* a registration on its way: no order of connecting, listening, dying and
\* accepting leaves it out.
THEOREM ListenersAreRegistered ==
  Spec => [](\A c \in Clients :
               Connected(c) /\ listener[c] =>
                 property[c] \/ \E i \in DOMAIN up[c] : up[c][i].register)
<1>1. SharedInv => \A c \in Clients :
                     Connected(c) /\ listener[c] =>
                       property[c] \/ \E i \in DOMAIN up[c] : up[c][i].register
  BY DEF SharedInv, ClientInv, RegisteredOrWill, Registers
<1>2. QED
  BY <1>1, SharedAlways, PTL

\* Its listeners have been called with the present value, or a note or a
\* registration that sets one off is under way, unless the last note was lost.
THEOREM HeardOrAlwaysUnderWay == Spec => []HeardOrUnderWay
<1>1. SharedInv => HeardOrUnderWay
  BY DEF SharedInv, ClientInv, HeardOrWill, HeardOrUnderWay, UnderWay, Notes, Registers
<1>2. QED
  BY <1>1, SharedAlways, PTL

-----------------------------------------------------------------------------
(* The UMI mixer: replies under way.                                       *)

Changes == {"connect", "disconnect"}

\* A reply, the reply of a change, of which there is one at most, for a message.
Answering(q, s) == \E i \in DOMAIN q : q[i].to = s
Changing(q, s) == \E i \in DOMAIN q : q[i].to = s /\ q[i].method \in Changes
AnsweredOnce(q, s) ==
  \A i, j \in DOMAIN q : q[i].to = s /\ q[j].to = s => i = j

\* A reply that sets off a status call for the subscribers.
ChangeComes(q) == \E i \in DOMAIN q : q[i].method \in Changes /\ ~q[i].garbled

\* A reply that tells a subscriber the status; and that the last thing s will know
\* of it, once q is delivered, is n: told is what it knows already.
Informs(r, s) == r.method = "status" /\ ~r.garbled /\ r.to \in {s, Nobody}

WillKnow(q, known, s, n) ==
  \/ \E i \in DOMAIN q :
       /\ Informs(q[i], s) /\ q[i].status = n
       /\ \A j \in DOMAIN q : j > i => ~Informs(q[j], s)
  \/ known = n /\ \A i \in DOMAIN q : ~Informs(q[i], s)

LEMMA AppendReply ==
  ASSUME NEW q \in Seq(Reply), NEW r \in Reply
  PROVE  /\ Append(q, r) \in Seq(Reply)
         /\ \A i \in DOMAIN q : i \in DOMAIN Append(q, r) /\ Append(q, r)[i] = q[i]
         /\ Len(q) + 1 \in DOMAIN Append(q, r) /\ Append(q, r)[Len(q) + 1] = r
         /\ \A i \in DOMAIN q : i < Len(q) + 1
         /\ \A i \in DOMAIN Append(q, r) : i \in DOMAIN q \/ i = Len(q) + 1
         /\ Len(q) \in Nat
OBVIOUS

LEMMA TailReply ==
  ASSUME NEW q \in Seq(Reply), q # <<>>
  PROVE  /\ Tail(q) \in Seq(Reply) /\ Head(q) \in Reply
         /\ 1 \in DOMAIN q /\ Head(q) = q[1]
         /\ \A i \in DOMAIN q : i = 1 \/ (i - 1 \in DOMAIN Tail(q) /\ Tail(q)[i - 1] = q[i])
         /\ \A i \in DOMAIN Tail(q) : i + 1 \in DOMAIN q /\ Tail(q)[i] = q[i + 1] /\ i + 1 # 1
         /\ DOMAIN q \subseteq Int /\ DOMAIN Tail(q) \subseteq Int
         /\ \A i \in DOMAIN q : i >= 1
<1>1. /\ Tail(q) \in Seq(Reply) /\ Head(q) \in Reply /\ Head(q) = q[1]
      /\ DOMAIN q = 1 .. Len(q) /\ Len(q) \in Nat /\ Len(q) >= 1
      /\ DOMAIN Tail(q) = 1 .. (Len(q) - 1)
      /\ \A i \in 1 .. (Len(q) - 1) : Tail(q)[i] = q[i + 1]
  OBVIOUS
<1>2. ASSUME NEW i \in DOMAIN q, i # 1
      PROVE  i - 1 \in DOMAIN Tail(q) /\ Tail(q)[i - 1] = q[i]
  <2>1. i - 1 \in 1 .. (Len(q) - 1) /\ (i - 1) + 1 = i
    BY <1>1, <1>2
  <2>2. QED
    BY <1>1, <2>1
<1>3. QED
  BY <1>1, <1>2

\* One more reply.
LEMMA AppendAnswers ==
  ASSUME NEW q \in Seq(Reply), NEW r \in Reply, NEW s
  PROVE  /\ Answering(Append(q, r), s) => Answering(q, s) \/ r.to = s
         /\ Changing(Append(q, r), s) => Changing(q, s) \/ (r.to = s /\ r.method \in Changes)
         /\ AnsweredOnce(q, s) /\ ~(r.to = s /\ Answering(q, s))
              => AnsweredOnce(Append(q, r), s)
         /\ ChangeComes(q) \/ (r.method \in Changes /\ ~r.garbled)
              => ChangeComes(Append(q, r))
<1>1. Answering(Append(q, r), s) => Answering(q, s) \/ r.to = s
  BY AppendReply DEF Answering
<1>2. Changing(Append(q, r), s) => Changing(q, s) \/ (r.to = s /\ r.method \in Changes)
  BY AppendReply DEF Changing
<1>3. AnsweredOnce(q, s) /\ ~(r.to = s /\ Answering(q, s))
        => AnsweredOnce(Append(q, r), s)
  BY AppendReply DEF AnsweredOnce, Answering
<1>4. ChangeComes(q) \/ (r.method \in Changes /\ ~r.garbled) => ChangeComes(Append(q, r))
  BY AppendReply DEF ChangeComes
<1>5. QED
  BY <1>1, <1>2, <1>3, <1>4

LEMMA AppendInforms ==
  ASSUME NEW q \in Seq(Reply), NEW r \in Reply, NEW s, NEW known, NEW n
  PROVE  /\ Informs(r, s) /\ r.status = n => WillKnow(Append(q, r), known, s, n)
         /\ ~Informs(r, s) /\ WillKnow(q, known, s, n)
              => WillKnow(Append(q, r), known, s, n)
<1>1. ASSUME Informs(r, s), r.status = n PROVE WillKnow(Append(q, r), known, s, n)
  <2>1. \A j \in DOMAIN Append(q, r) : ~(j > Len(q) + 1)
    BY AppendReply
  <2>2. QED
    BY <1>1, <2>1, AppendReply DEF WillKnow
<1>2. ASSUME ~Informs(r, s), WillKnow(q, known, s, n)
      PROVE  WillKnow(Append(q, r), known, s, n)
  <2>1. CASE known = n /\ \A i \in DOMAIN q : ~Informs(q[i], s)
    <3>1. \A i \in DOMAIN Append(q, r) : ~Informs(Append(q, r)[i], s)
      BY <1>2, <2>1, AppendReply
    <3>2. QED
      BY <2>1, <3>1 DEF WillKnow
  <2>2. ASSUME NEW i \in DOMAIN q, Informs(q[i], s), q[i].status = n,
               \A j \in DOMAIN q : j > i => ~Informs(q[j], s)
        PROVE  WillKnow(Append(q, r), known, s, n)
    <3>1. /\ i \in DOMAIN Append(q, r) /\ Append(q, r)[i] = q[i]
          /\ \A j \in DOMAIN Append(q, r) : j > i => ~Informs(Append(q, r)[j], s)
      BY <1>2, <2>2, AppendReply
    <3>2. QED
      BY <2>2, <3>1 DEF WillKnow
  <2>3. QED
    BY <1>2, <2>1, <2>2 DEF WillKnow
<1>3. QED
  BY <1>1, <1>2

\* One reply less.
LEMMA TailAnswers ==
  ASSUME NEW q \in Seq(Reply), q # <<>>, NEW s
  PROVE  /\ Answering(Tail(q), s) => Answering(q, s)
         /\ Changing(Tail(q), s) => Changing(q, s)
         /\ AnsweredOnce(q, s) => AnsweredOnce(Tail(q), s)
         /\ AnsweredOnce(q, s) /\ Head(q).to = s => ~Answering(Tail(q), s)
         /\ Head(q).to = s => Answering(q, s)
         /\ Head(q).to = s /\ Head(q).method \in Changes => Changing(q, s)
         /\ ChangeComes(q) => ChangeComes(Tail(q))
                              \/ (Head(q).method \in Changes /\ ~Head(q).garbled)
<1>1. Answering(Tail(q), s) => Answering(q, s)
  BY TailReply DEF Answering
<1>2. Changing(Tail(q), s) => Changing(q, s)
  BY TailReply DEF Changing
<1>3. AnsweredOnce(q, s) => AnsweredOnce(Tail(q), s)
  <2> SUFFICES ASSUME AnsweredOnce(q, s), NEW i \in DOMAIN Tail(q), NEW j \in DOMAIN Tail(q),
                      Tail(q)[i].to = s, Tail(q)[j].to = s
               PROVE  i = j
    BY DEF AnsweredOnce
  <2>1. i + 1 = j + 1 /\ i \in Int /\ j \in Int
    BY TailReply DEF AnsweredOnce
  <2>2. QED
    BY <2>1
<1>4. AnsweredOnce(q, s) /\ Head(q).to = s => ~Answering(Tail(q), s)
  BY TailReply DEF AnsweredOnce, Answering
<1>5. /\ Head(q).to = s => Answering(q, s)
      /\ Head(q).to = s /\ Head(q).method \in Changes => Changing(q, s)
  BY TailReply DEF Answering, Changing
<1>6. ChangeComes(q) => ChangeComes(Tail(q))
                        \/ (Head(q).method \in Changes /\ ~Head(q).garbled)
  <2>1. ASSUME NEW i \in DOMAIN q, q[i].method \in Changes, ~q[i].garbled
        PROVE  ChangeComes(Tail(q)) \/ (Head(q).method \in Changes /\ ~Head(q).garbled)
    <3>1. CASE i = 1
      BY <2>1, <3>1, TailReply
    <3>2. CASE i # 1
      <4>1. i - 1 \in DOMAIN Tail(q) /\ Tail(q)[i - 1] = q[i]
        BY <3>2, TailReply
      <4>2. QED
        BY <2>1, <4>1 DEF ChangeComes
    <3>3. QED
      BY <3>1, <3>2
  <2>2. QED
    BY <2>1 DEF ChangeComes
<1>7. QED
  BY <1>1, <1>2, <1>3, <1>4, <1>5, <1>6

LEMMA TailInforms ==
  ASSUME NEW q \in Seq(Reply), q # <<>>, NEW s, NEW known, NEW n,
         WillKnow(q, known, s, n)
  PROVE  WillKnow(Tail(q), IF Informs(Head(q), s) THEN Head(q).status ELSE known, s, n)
<1>1. ASSUME NEW i \in DOMAIN q, Informs(q[i], s), q[i].status = n,
             \A j \in DOMAIN q : j > i => ~Informs(q[j], s), i # 1
      PROVE  WillKnow(Tail(q), IF Informs(Head(q), s) THEN Head(q).status ELSE known, s, n)
  <2>1. i - 1 \in DOMAIN Tail(q) /\ Tail(q)[i - 1] = q[i]
    BY <1>1, TailReply
  <2>2. ASSUME NEW j \in DOMAIN Tail(q), j > i - 1 PROVE ~Informs(Tail(q)[j], s)
    <3>1. j + 1 \in DOMAIN q /\ Tail(q)[j] = q[j + 1] /\ j \in Int /\ i \in Int
      BY TailReply
    <3>2. j + 1 > i
      BY <2>2, <3>1
    <3>3. QED
      BY <1>1, <3>1, <3>2
  <2>3. QED
    BY <1>1, <2>1, <2>2 DEF WillKnow
<1>2. ASSUME Informs(q[1], s), q[1].status = n, \A j \in DOMAIN q : j > 1 => ~Informs(q[j], s)
      PROVE  WillKnow(Tail(q), IF Informs(Head(q), s) THEN Head(q).status ELSE known, s, n)
  <2>1. ASSUME NEW j \in DOMAIN Tail(q) PROVE ~Informs(Tail(q)[j], s)
    <3>1. /\ j + 1 \in DOMAIN q /\ Tail(q)[j] = q[j + 1]
          /\ j + 1 # 1 /\ j + 1 >= 1 /\ j + 1 \in Int
      BY TailReply
    <3>2. j + 1 > 1
      BY <3>1
    <3>3. QED
      BY <1>2, <3>1, <3>2
  <2>2. (IF Informs(Head(q), s) THEN Head(q).status ELSE known) = n
    BY <1>2, TailReply
  <2>3. QED
    BY <2>1, <2>2 DEF WillKnow
<1>3. ASSUME known = n, \A i \in DOMAIN q : ~Informs(q[i], s)
      PROVE  WillKnow(Tail(q), IF Informs(Head(q), s) THEN Head(q).status ELSE known, s, n)
  <2>1. \A i \in DOMAIN Tail(q) : ~Informs(Tail(q)[i], s)
    BY <1>3, TailReply
  <2>2. (IF Informs(Head(q), s) THEN Head(q).status ELSE known) = n
    BY <1>3, TailReply
  <2>3. QED
    BY <2>1, <2>2 DEF WillKnow
<1>4. QED
  BY <1>1, <1>2, <1>3 DEF WillKnow

-----------------------------------------------------------------------------
(* The inductive invariant.                                                *)

\* A message is referenced while its client waits; a call, or a reply, is for a
\* client that waits, and there is one of them at most.
Owed(s) ==
  /\ waiting[s] => refs[s] = 1
  /\ calls[s] # NoCall => waiting[s] /\ ~Answering(replies, s)
  /\ Answering(replies, s) => waiting[s]
  /\ AnsweredOnce(replies, s)

\* What is asked for on behalf of the subscribers is the status.
ForSubscribers ==
  \A i \in DOMAIN replies : replies[i].to = Nobody => replies[i].method = "status"

\* The changes under way, each of which may set off a status call.
MayChange == {s \in Requests : calls[s] \in Changes \/ Changing(replies, s)}
Room == Cardinality(MayChange) + notifies <= MaxNotifies

\* Nothing lost, nothing that makes audiod ask for all subscribers: then each of
\* them is about to know, or has asked itself.
WillTell ==
  \/ stale
  \/ notifies > 0
  \/ ChangeComes(replies)
  \/ \A s \in Requests : told[s] # NotSubscribed =>
       calls[s] = "status" \/ WillKnow(replies, told[s], s, connected)

UmiInv ==
  /\ UmiTypeOK
  /\ \A s \in Requests : Owed(s)
  /\ ForSubscribers
  /\ Room
  /\ WillTell

-----------------------------------------------------------------------------
(* The steps, by what they do to each part of the invariant.               *)

\* A request that becomes a call.
Sends(s, m) ==
  /\ Arrives(s) /\ Keep(s)
  /\ calls' = [calls EXCEPT ![s] = m]
  /\ m \in Changes => Bounded
  /\ UNCHANGED <<mixerVars, told, notifies, replies, outVars, stale>>

LEMMA RequestSteps ==
  ASSUME NEW s \in Requests, NextRequest(s)
  PROVE  \/ UNCHANGED umiVars
         \/ \E m \in Methods : Sends(s, m)
         \/ \E b \in BOOLEAN : GetStatus(s, b)
         \/ Unsubscribe(s)
<1>1. ASSUME NEW m \in Methods \ Changes, Ask(s, CallOneReply(s, m))
      PROVE  UNCHANGED umiVars \/ Sends(s, m)
  BY <1>1 DEF Ask, CallOneReply, Refuse, Sends, umiVars, mixerVars, busVars, clientVars,
     outVars
<1>2. ASSUME NEW m \in Changes, Bounded, Ask(s, CallOneReply(s, m))
      PROVE  UNCHANGED umiVars \/ Sends(s, m)
  BY <1>2 DEF Ask, CallOneReply, Refuse, Sends, umiVars, mixerVars, busVars, clientVars,
     outVars
<1>3. UnknownType(s) => UNCHANGED umiVars
  BY DEF UnknownType, Ask, Refuse, umiVars, mixerVars, busVars, clientVars, outVars
<1>4. "master" \in Methods \ Changes /\ "soundOut" \in Methods \ Changes
      /\ "connect" \in Changes /\ "disconnect" \in Changes /\ Changes \subseteq Methods
  BY DEF Methods, Changes
<1>5. CASE SetVolume(s) \/ GetVolume(s) \/ MuteVolume(s) \/ VolumeUp(s) \/ VolumeDown(s)
  <2>1. Ask(s, CallOneReply(s, "master"))
    BY <1>5 DEF SetVolume, GetVolume, MuteVolume, VolumeUp, VolumeDown, setMasterVolume,
       getMasterVolume, masterVolumeMute, masterVolumeUp, masterVolumeDown
  <2>2. QED
    BY <1>1, <1>4, <2>1
<1>6. CASE SetSoundOut(s)
  <2>1. Ask(s, CallOneReply(s, "soundOut"))
    BY <1>6 DEF SetSoundOut, setSoundOut
  <2>2. QED
    BY <1>1, <1>4, <2>1
<1>7. CASE Bounded /\ (DispatchConnect(s) \/ DispatchDisconnect(s))
  <2>1. \/ Ask(s, CallOneReply(s, "connect"))
        \/ Ask(s, CallOneReply(s, "disconnect"))
        \/ UnknownType(s)
    BY <1>7 DEF DispatchConnect, DispatchDisconnect, ConnectAudioOut, DisconnectAudioOut,
       connectAudio, disconnectAudio
  <2>2. QED
    BY <1>2, <1>3, <1>4, <1>7, <2>1
<1>8. CASE Mute(s)
  BY <1>8 DEF Mute
<1>9. QED
  BY <1>5, <1>6, <1>7, <1>8 DEF NextRequest

\* What a status request does: the call, or an error and a status the new
\* subscriber does not get.
LEMMA StatusSteps ==
  ASSUME UmiTypeOK, NEW s \in Requests, NEW b \in BOOLEAN, GetStatus(s, b)
  PROVE  /\ Arrives(s)
         /\ \/ Keep(s) /\ calls' = [calls EXCEPT ![s] = "status"] /\ UNCHANGED stale
            \/ /\ refs' = [refs EXCEPT ![s] = 1]
               /\ UNCHANGED <<waiting, calls>>
               /\ (told'[s] = NotSubscribed /\ UNCHANGED stale) \/ stale' = TRUE
         /\ told' = [told EXCEPT ![s] = told'[s]] /\ told'[s] \in {NotSubscribed, NoStatus}
         /\ UNCHANGED <<mixerVars, notifies, replies, outVars>>
<1>1. told' = [told EXCEPT ![s] = told'[s]] /\ told'[s] \in {NotSubscribed, NoStatus}
      /\ (~b => told'[s] = NotSubscribed)
  BY DEF GetStatus, UmiTypeOK
<1>2. /\ Arrives(s) /\ UNCHANGED <<mixerVars, notifies, replies, outVars>>
      /\ \/ Keep(s) /\ calls' = [calls EXCEPT ![s] = "status"] /\ UNCHANGED stale
         \/ /\ refs' = [refs EXCEPT ![s] = 1]
            /\ UNCHANGED <<waiting, calls>>
            /\ stale' = (stale \/ b)
  BY DEF GetStatus, getAudioOutputStatus, getConnectionStatus, CallOneReply, busVars
<1>3. stale \in BOOLEAN
  BY DEF UmiTypeOK
<1>4. stale' = (stale \/ b) => (~b /\ UNCHANGED stale) \/ stale' = TRUE
  BY <1>3, Zenon
<1>5. QED
  BY <1>1, <1>2, <1>4

\* An answer: one reply more.  Only a change alters what is connected, and then the
\* subscribers hear of it or something is lost; a status is the service's or lost.
AnswerIs(r) ==
  /\ r \in Reply
  /\ replies' = Append(replies, r)
  /\ connected' \in Status
  /\ stale' \in BOOLEAN
  /\ r.method \notin Changes => UNCHANGED connected
  /\ ~stale' /\ r.method \in Changes => ~r.garbled
  /\ ~stale' /\ r.method = "status" => ~r.garbled /\ r.status = connected'
  /\ (r.to = Nobody /\ r.method = "status") \/ (~stale' => ~stale)

LEMMA AnswerSteps ==
  ASSUME UmiTypeOK, NEW s \in Requests \cup {Nobody}, NEW m \in Methods, Answer(s, m)
  PROVE  \E r \in Reply : r.to = s /\ r.method = m /\ AnswerIs(r)
<1>1. PICK done \in BOOLEAN, garbled \in BOOLEAN :
        /\ connected' = IF done THEN Effect(m) ELSE connected
        /\ connected' \in Status
        /\ LET r == [to |-> s, method |-> m, garbled |-> garbled,
                     status |-> IF m = "status" /\ done /\ ~garbled
                                THEN connected ELSE NoStatus] IN
           /\ replies' = Append(replies, r)
           /\ stale' = Stale(r)
  BY DEF Answer
<1>2. PICK n : n = IF m = "status" /\ done /\ ~garbled THEN connected ELSE NoStatus
  OBVIOUS
<1>3. PICK r : r = [to |-> s, method |-> m, garbled |-> garbled, status |-> n]
  OBVIOUS
<1>4. replies' = Append(replies, r) /\ stale' = Stale(r)
  BY <1>1, <1>2, <1>3
<1>5. connected \in Status /\ stale \in BOOLEAN /\ connected # NoStatus
  BY UmiMixerAssumption DEF UmiTypeOK, Status, NoStatus
<1>6. r \in Reply /\ r.to = s /\ r.method = m /\ r.garbled = garbled /\ r.status = n
  BY <1>2, <1>3, <1>5 DEF Reply
<1>7. m \notin Changes => Effect(m) = connected
  BY DEF Effect, Changes
<1>8. m \notin Changes => connected' = connected
  BY <1>1, <1>7
<1>9. stale' \in BOOLEAN /\ (~stale' /\ m \in Changes => ~garbled)
      /\ (~stale' /\ m = "status" => ~garbled /\ n # NoStatus)
      /\ ((s = Nobody /\ m = "status") \/ (~stale' => ~stale))
  <2>1. CASE m = "status" /\ s = Nobody
    <3>1. stale' = (garbled \/ n = NoStatus)
      <4>1. r.method = "status" /\ r.to = Nobody
        BY <1>6, <2>1
      <4>2. Stale(r) = (r.garbled \/ r.status = NoStatus)
        BY <4>1 DEF Stale
      <4>3. QED
        BY <1>4, <1>6, <4>2
    <3>2. m \notin Changes
      BY <2>1 DEF Changes
    <3>3. QED
      BY <2>1, <3>1, <3>2
  <2>2. CASE m = "status" /\ s # Nobody
    <3>1. stale' = (stale \/ garbled \/ n = NoStatus)
      BY <1>4, <1>6, <2>2 DEF Stale
    <3>2. m \notin Changes
      BY <2>2 DEF Changes
    <3>3. QED
      BY <1>5, <2>2, <3>1, <3>2
  <2>3. CASE m \in Changes
    <3>1. stale' = (stale \/ garbled)
      BY <1>4, <1>6, <2>3 DEF Stale, Changes
    <3>2. m # "status"
      BY <2>3 DEF Changes
    <3>3. QED
      BY <1>5, <3>1, <3>2
  <2>4. CASE m # "status" /\ m \notin Changes
    <3>1. stale' = stale
      BY <1>4, <1>6, <2>4 DEF Stale, Changes
    <3>2. QED
      BY <1>5, <2>4, <3>1
  <2>5. QED
    BY <2>1, <2>2, <2>3, <2>4
<1>10. ~stale' /\ m = "status" => ~garbled /\ n = connected'
  <2>1. m = "status" => connected' = connected
    BY <1>8 DEF Changes
  <2>2. QED
    BY <1>2, <1>9, <2>1
<1>11. QED
  BY <1>1, <1>4, <1>6, <1>8, <1>9, <1>10 DEF AnswerIs

\* A reply delivered: its client, if any, is answered, unless it is dropped; a change
\* that is not dropped sets off a status call, or the loss is recorded; and those a
\* status is for are told.
DeliveryIs(r) ==
  /\ replies # <<>> /\ r = Head(replies) /\ replies' = Tail(replies)
  /\ UNCHANGED <<mixerVars, calls, outVars>>
  /\ (r.to # Nobody /\ Respond(r.to)) \/ UNCHANGED <<waiting, refs>>
  /\ UNCHANGED notifies \/ (r.method \in Changes /\ r.to # Nobody /\ notifies' = notifies + 1)
  /\ \/ stale' = TRUE
     \/ UNCHANGED stale /\ (r.method \in Changes /\ ~r.garbled => notifies' = notifies + 1)
  /\ \A s \in Requests : told'[s] = IF told[s] # NotSubscribed /\ Informs(r, s)
                                    THEN r.status ELSE told[s]
  /\ told' \in [Requests -> Status \cup {NotSubscribed, NoStatus}]

LEMMA DeliverySteps ==
  ASSUME UmiTypeOK, ForSubscribers, Deliver
  PROVE  \E r \in Reply : DeliveryIs(r)
<1>1. PICK r : r = Head(replies)
  OBVIOUS
<1>2. replies \in Seq(Reply) /\ replies # <<>> /\ replies' = Tail(replies)
      /\ UNCHANGED <<calls, outVars>>
  BY DEF Deliver, UmiTypeOK
<1>3. r \in Reply /\ 1 \in DOMAIN replies /\ r = replies[1]
  BY <1>1, <1>2, TailReply
<1>4. r.to = Nobody => r.method = "status"
  BY <1>3 DEF ForSubscribers
<1>5. /\ r.garbled \in BOOLEAN /\ r.status \in Status \cup {NoStatus}
      /\ r.to \in Requests \cup {Nobody}
  BY <1>3 DEF Reply
<1>6. told \in [Requests -> Status \cup {NotSubscribed, NoStatus}]
  BY DEF UmiTypeOK
<1>7. ASSUME UNCHANGED told, \A s \in Requests : ~Informs(r, s)
      PROVE  /\ \A s \in Requests : told'[s] = IF told[s] # NotSubscribed /\ Informs(r, s)
                                               THEN r.status ELSE told[s]
             /\ told' \in [Requests -> Status \cup {NotSubscribed, NoStatus}]
  BY <1>6, <1>7
<1>8. r.method # "status" \/ r.garbled => \A s \in Requests : ~Informs(r, s)
  BY DEF Informs
<1>9. CASE Forward(r)
  <2>1. r.method \notin Changes /\ r.method # "status" /\ Respond(r.to)
        /\ UNCHANGED <<mixerVars, told, notifies, stale>>
    BY <1>9 DEF Forward, Changes
  <2>2. QED
    BY <1>1, <1>2, <1>3, <1>4, <1>7, <1>8, <2>1 DEF DeliveryIs
<1>10. CASE Dropped /\ r.garbled
  BY <1>1, <1>2, <1>3, <1>7, <1>8, <1>10 DEF DeliveryIs, Dropped, clientVars
<1>11. CASE UpdateSoundOutStatus(r) /\ ~r.garbled
  <2>1. r.method \notin Changes /\ r.method # "status" /\ Respond(r.to)
        /\ UNCHANGED <<mixerVars, told, notifies, stale>>
    BY <1>11 DEF UpdateSoundOutStatus, Changes
  <2>2. QED
    BY <1>1, <1>2, <1>3, <1>4, <1>7, <1>8, <2>1 DEF DeliveryIs
<1>12. CASE (ConnectStatusCallback(r) \/ DisConnectStatusCallback(r)) /\ ~r.garbled
  <2>1. r.method \in Changes /\ r.method # "status" /\ Respond(r.to)
        /\ NotifyGetStatusSubscribers /\ UNCHANGED <<mixerVars, told>>
    BY <1>12 DEF ConnectStatusCallback, DisConnectStatusCallback, Changes
  <2>2. (notifies' = notifies + 1 /\ UNCHANGED stale) \/ (stale' = TRUE /\ UNCHANGED notifies)
    BY <2>1 DEF NotifyGetStatusSubscribers
  <2>3. QED
    BY <1>1, <1>2, <1>3, <1>4, <1>7, <1>8, <2>1, <2>2 DEF DeliveryIs
<1>13. CASE GetAudioOutputStatusCallback(r) /\ ~r.garbled
  <2>1. /\ r.method = "status" /\ r.method \notin Changes
        /\ UNCHANGED <<mixerVars, notifies, stale>>
    BY <1>13 DEF GetAudioOutputStatusCallback, Changes
  <2>2. CASE r.to # Nobody
    <3>1. Respond(r.to) /\ r.to \in Requests
          /\ told' = [told EXCEPT ![r.to] =
                        IF told[r.to] = NotSubscribed THEN told[r.to] ELSE r.status]
      BY <1>5, <1>13, <2>2 DEF GetAudioOutputStatusCallback
    <3>2. \A s \in Requests : told'[s] = IF told[s] # NotSubscribed /\ Informs(r, s)
                                         THEN r.status ELSE told[s]
      BY <1>6, <1>13, <2>1, <2>2, <3>1 DEF Informs
    <3>3. told' \in [Requests -> Status \cup {NotSubscribed, NoStatus}]
      BY <1>5, <1>6, <3>1
    <3>4. QED
      BY <1>1, <1>2, <1>3, <2>1, <2>2, <3>1, <3>2, <3>3 DEF DeliveryIs
  <2>3. CASE r.to = Nobody
    <3>1. UNCHANGED <<waiting, refs>>
          /\ told' = [s \in Requests |-> IF told[s] = NotSubscribed THEN told[s] ELSE r.status]
      BY <1>13, <2>3 DEF GetAudioOutputStatusCallback
    <3>2. \A s \in Requests : told'[s] = IF told[s] # NotSubscribed /\ Informs(r, s)
                                         THEN r.status ELSE told[s]
      BY <1>13, <2>1, <2>3, <3>1 DEF Informs
    <3>3. told' \in [Requests -> Status \cup {NotSubscribed, NoStatus}]
      BY <1>5, <1>6, <3>1
    <3>4. QED
      BY <1>1, <1>2, <1>3, <2>1, <3>1, <3>2, <3>3 DEF DeliveryIs
  <2>4. QED
    BY <2>2, <2>3
<1>14. \/ Forward(r) \/ (Dropped /\ r.garbled)
       \/ UpdateSoundOutStatus(r) /\ ~r.garbled
       \/ (ConnectStatusCallback(r) \/ DisConnectStatusCallback(r)) /\ ~r.garbled
       \/ GetAudioOutputStatusCallback(r) /\ ~r.garbled
  BY <1>1 DEF Deliver, SetVolumeCallBack, GetVolumeCallBack, MuteVolumeCallBack,
     VolumeUpCallBack, VolumeDownCallBack, UpdateSoundOutStatus, ConnectStatusCallback, DisConnectStatusCallback,
     GetAudioOutputStatusCallback
<1>15. QED
  BY <1>3, <1>9, <1>10, <1>11, <1>12, <1>13, <1>14

-----------------------------------------------------------------------------
(* Messages.                                                               *)

\* Owed is about one message; where neither it nor its replies change, it stays.
LEMMA OwedKept ==
  ASSUME NEW s \in Requests, Owed(s), waiting'[s] = waiting[s], refs'[s] = refs[s],
         calls'[s] = calls[s],
         Answering(replies', s) => Answering(replies, s),
         AnsweredOnce(replies, s) => AnsweredOnce(replies', s)
  PROVE  Owed(s)'
<1>1. AnsweredOnce(replies', s) /\ (Answering(replies', s) => waiting[s])
      /\ (waiting[s] => refs[s] = 1)
      /\ (calls[s] # NoCall => waiting[s] /\ ~Answering(replies', s))
  BY DEF Owed
<1>2. QED
  BY <1>1 DEF Owed, Answering, AnsweredOnce

\* A message that is not pending has no call and no reply.
LEMMA NothingOwed ==
  ASSUME NEW s \in Requests, Owed(s), ~waiting[s]
  PROVE  calls[s] = NoCall /\ ~Answering(replies, s)
BY DEF Owed

LEMMA OwedSteps ==
  ASSUME UmiInv, UmiNext, NEW t \in Requests
  PROVE  Owed(t)'
<1>1. /\ UmiTypeOK /\ ForSubscribers /\ \A s \in Requests : Owed(s)
      /\ waiting \in [Requests -> BOOLEAN] /\ refs \in [Requests -> 0 .. 1]
      /\ calls \in [Requests -> Methods \cup {NoCall}]
      /\ replies \in Seq(Reply)
  BY DEF UmiInv, UmiTypeOK
<1>2. ASSUME UNCHANGED <<waiting, refs, calls, replies>> PROVE Owed(t)'
  BY <1>1, <1>2, OwedKept
<1>3. ASSUME NEW s \in Requests, NEW m \in Methods, Arrives(s), Keep(s),
             calls' = [calls EXCEPT ![s] = m], UNCHANGED replies
      PROVE  Owed(t)'
  <2>1. CASE s = t
    <3>1. ~Answering(replies, t) /\ AnsweredOnce(replies, t)
      BY <1>1, <1>3, <2>1, NothingOwed DEF Arrives, Owed
    <3>2. waiting'[t] /\ refs'[t] = 1
      BY <1>1, <1>3, <2>1 DEF Keep
    <3>3. QED
      BY <1>3, <3>1, <3>2 DEF Owed, Answering, AnsweredOnce
  <2>2. CASE s # t
    <3>1. waiting'[t] = waiting[t] /\ refs'[t] = refs[t] /\ calls'[t] = calls[t]
      BY <1>1, <1>3, <2>2 DEF Keep
    <3>2. QED
      BY <1>1, <1>3, <3>1, OwedKept
  <2>3. QED
    BY <2>1, <2>2
<1>4. ASSUME NEW s \in Requests, NextRequest(s) PROVE Owed(t)'
  <2>1. CASE UNCHANGED umiVars
    BY <1>2, <2>1 DEF umiVars, clientVars, busVars
  <2>2. ASSUME NEW m \in Methods, Sends(s, m) PROVE Owed(t)'
    BY <1>3, <2>2 DEF Sends
  <2>3. ASSUME NEW b \in BOOLEAN, GetStatus(s, b) PROVE Owed(t)'
    <3>1. CASE Keep(s) /\ calls' = [calls EXCEPT ![s] = "status"]
      BY <1>1, <1>3, <2>3, <3>1, StatusSteps DEF Methods
    <3>2. CASE refs' = [refs EXCEPT ![s] = 1] /\ UNCHANGED <<waiting, calls>>
      <4>1. Arrives(s) /\ UNCHANGED replies
        BY <1>1, <2>3, StatusSteps
      <4>2. CASE s = t
        <5>1. /\ ~waiting[t] /\ calls[t] = NoCall
              /\ ~Answering(replies, t) /\ AnsweredOnce(replies, t)
          BY <1>1, <4>1, <4>2, NothingOwed DEF Arrives, Owed
        <5>2. QED
          BY <3>2, <4>1, <5>1 DEF Owed, Answering, AnsweredOnce
      <4>3. CASE s # t
        BY <1>1, <3>2, <4>1, <4>3, OwedKept
      <4>4. QED
        BY <4>2, <4>3
    <3>3. QED
      BY <1>1, <2>3, <3>1, <3>2, StatusSteps
  <2>4. CASE Unsubscribe(s)
    BY <1>2, <2>4 DEF Unsubscribe, busVars
  <2>5. QED
    BY <1>4, <2>1, <2>2, <2>3, <2>4, RequestSteps
<1>5. ASSUME NEW s \in Requests, AnswerRequest(s) PROVE Owed(t)'
  <2>1. calls[s] # NoCall /\ calls[s] \in Methods /\ calls' = [calls EXCEPT ![s] = NoCall]
        /\ Answer(s, calls[s]) /\ UNCHANGED <<waiting, refs>>
    BY <1>1, <1>5 DEF AnswerRequest, clientVars
  <2>2. PICK m \in Methods : m = calls[s]
    BY <2>1
  <2>3. PICK r \in Reply : r.to = s /\ AnswerIs(r)
    BY <1>1, <2>1, <2>2, AnswerSteps
  <2>4. replies' = Append(replies, r)
    BY <2>3 DEF AnswerIs
  <2>5. CASE s = t
    <3>1. waiting[t] /\ refs[t] = 1 /\ ~Answering(replies, t) /\ AnsweredOnce(replies, t)
      BY <1>1, <2>1, <2>5 DEF Owed
    <3>2. AnsweredOnce(Append(replies, r), t)
      BY <1>1, <3>1, AppendAnswers
    <3>3. waiting'[t] /\ refs'[t] = 1 /\ calls'[t] = NoCall
      BY <1>1, <2>1, <2>5, <3>1
    <3>4. QED
      BY <2>4, <3>2, <3>3 DEF Owed, Answering, AnsweredOnce
  <2>6. CASE s # t
    <3>1. /\ Answering(Append(replies, r), t) => Answering(replies, t)
          /\ AnsweredOnce(replies, t) => AnsweredOnce(Append(replies, r), t)
      BY <1>1, <2>3, <2>6, AppendAnswers
    <3>2. calls'[t] = calls[t]
      BY <1>1, <2>1, <2>6
    <3>3. QED
      BY <1>1, <2>1, <2>4, <3>1, <3>2, OwedKept
  <2>7. QED
    BY <2>5, <2>6
<1>6. CASE AnswerNotify
  <2>1. Answer(Nobody, "status") /\ UNCHANGED <<waiting, refs, calls>>
    BY <1>6 DEF AnswerNotify, clientVars
  <2>2. PICK r \in Reply : r.to = Nobody /\ AnswerIs(r)
    BY <1>1, <2>1, AnswerSteps DEF Methods
  <2>3. t # Nobody
    BY UmiMixerAssumption
  <2>4. /\ Answering(Append(replies, r), t) => Answering(replies, t)
        /\ AnsweredOnce(replies, t) => AnsweredOnce(Append(replies, r), t)
    BY <1>1, <2>2, <2>3, AppendAnswers
  <2>5. QED
    BY <1>1, <2>1, <2>2, <2>4, OwedKept DEF AnswerIs
<1>7. CASE Deliver
  <2>1. PICK r \in Reply : DeliveryIs(r)
    BY <1>1, <1>7, DeliverySteps
  <2>2. replies # <<>> /\ r = Head(replies) /\ replies' = Tail(replies) /\ UNCHANGED calls
    BY <2>1 DEF DeliveryIs
  <2>3. CASE UNCHANGED <<waiting, refs>>
    BY <1>1, <2>2, <2>3, OwedKept, TailAnswers
  <2>4. CASE Respond(r.to) /\ r.to = t
    <3>1. Answering(replies, t) /\ AnsweredOnce(replies, t) /\ calls[t] = NoCall
      BY <1>1, <2>2, <2>4, TailAnswers DEF Owed
    <3>2. ~Answering(Tail(replies), t) /\ AnsweredOnce(Tail(replies), t)
      BY <1>1, <2>2, <2>4, <3>1, TailAnswers
    <3>3. ~waiting'[t]
      BY <1>1, <2>4 DEF Respond
    <3>4. QED
      BY <2>2, <3>1, <3>2, <3>3 DEF Owed, Answering, AnsweredOnce
  <2>5. CASE Respond(r.to) /\ r.to # t
    <3>1. waiting'[t] = waiting[t] /\ refs'[t] = refs[t]
      BY <1>1, <2>5 DEF Respond
    <3>2. QED
      BY <1>1, <2>2, <3>1, OwedKept, TailAnswers
  <2>6. QED
    BY <2>1, <2>3, <2>4, <2>5 DEF DeliveryIs
<1>8. CASE ServiceStatusCallBack \/ ServiceDies \/ ServiceStarts
  BY <1>2, <1>8 DEF ServiceStatusCallBack, ServiceDies, ServiceStarts, clientVars, busVars
<1>9. QED
  BY <1>4, <1>5, <1>6, <1>7, <1>8 DEF UmiNext

LEMMA ForSubscribersSteps ==
  ASSUME UmiInv, UmiNext
  PROVE  ForSubscribers'
<1>1. UmiTypeOK /\ ForSubscribers /\ replies \in Seq(Reply)
      /\ calls \in [Requests -> Methods \cup {NoCall}]
  BY DEF UmiInv, UmiTypeOK
<1>2. ASSUME UNCHANGED replies PROVE ForSubscribers'
  BY <1>1, <1>2 DEF ForSubscribers
<1>3. ASSUME NEW r \in Reply, r.to = Nobody => r.method = "status",
             replies' = Append(replies, r)
      PROVE  ForSubscribers'
  BY <1>1, <1>3, AppendReply DEF ForSubscribers
<1>4. ASSUME NEW s \in Requests, NextRequest(s) PROVE ForSubscribers'
  BY <1>1, <1>2, <1>4, RequestSteps, StatusSteps
     DEF Sends, Unsubscribe, umiVars, busVars
<1>5. ASSUME NEW s \in Requests, AnswerRequest(s) PROVE ForSubscribers'
  <2>1. calls[s] \in Methods /\ Answer(s, calls[s]) /\ s # Nobody
    BY <1>1, <1>5, UmiMixerAssumption DEF AnswerRequest
  <2>2. PICK m \in Methods : m = calls[s]
    BY <2>1
  <2>3. QED
    BY <1>1, <1>3, <2>1, <2>2, AnswerSteps DEF AnswerIs
<1>6. CASE AnswerNotify
  <2>1. PICK r \in Reply : r.to = Nobody /\ r.method = "status" /\ AnswerIs(r)
    BY <1>1, <1>6, AnswerSteps DEF AnswerNotify, Methods
  <2>2. QED
    BY <1>3, <2>1 DEF AnswerIs
<1>7. CASE Deliver
  <2>1. replies # <<>> /\ replies' = Tail(replies)
    BY <1>7 DEF Deliver
  <2>2. QED
    BY <1>1, <2>1, TailReply DEF ForSubscribers
<1>8. CASE ServiceStatusCallBack \/ ServiceDies \/ ServiceStarts
  BY <1>2, <1>8 DEF ServiceStatusCallBack, ServiceDies, ServiceStarts, busVars
<1>9. QED
  BY <1>4, <1>5, <1>6, <1>7, <1>8 DEF UmiNext

-----------------------------------------------------------------------------
(* Room for the status calls of the subscribers.                           *)

LEMMA ChangesAreFew ==
  /\ IsFiniteSet(MayChange) /\ Cardinality(MayChange) \in Nat
  /\ \A S \in SUBSET Requests : IsFiniteSet(S) /\ Cardinality(S) \in Nat
<1>1. MayChange \subseteq Requests
  BY DEF MayChange
<1>2. \A S \in SUBSET Requests : IsFiniteSet(S)
  BY UmiMixerAssumption, FS_Subset
<1>3. QED
  BY <1>1, <1>2, FS_CardinalityType

LEMMA RoomKept ==
  ASSUME UmiTypeOK, Room, MayChange' \subseteq MayChange, notifies' \in Nat,
         notifies' <= notifies
  PROVE  Room'
<1>1. PICK M : M = MayChange'
  OBVIOUS
<1>2. Cardinality(M) <= Cardinality(MayChange) /\ Cardinality(M) \in Nat
      /\ Cardinality(MayChange) \in Nat
  BY <1>1, ChangesAreFew, FS_Subset, FS_CardinalityType
<1>3. notifies \in Nat /\ MaxNotifies \in Nat
  BY UmiMixerAssumption DEF UmiTypeOK
<1>4. Cardinality(M) + notifies' <= MaxNotifies
  BY <1>2, <1>3 DEF Room
<1>5. QED
  BY <1>1, <1>4 DEF Room

LEMMA SameChanges ==
  ASSUME UNCHANGED <<calls, replies>> PROVE MayChange' = MayChange
BY DEF MayChange, Changing

\* One change more: it is among the requests of waiting clients.
LEMMA OneChangeMore ==
  ASSUME UmiInv, Bounded, NEW s \in Requests, ~waiting[s],
         MayChange' \subseteq MayChange \cup {s}, UNCHANGED notifies
  PROVE  Room'
<1>1. PICK M : M = MayChange'
  OBVIOUS
<1>2. PICK W : W = {t \in Requests : waiting[t]}
  OBVIOUS
<1>3. MayChange \subseteq W
  BY <1>2 DEF MayChange, UmiInv, Owed, Changes, NoCall, Changing, Answering
<1>4. Cardinality(MayChange) <= Cardinality(W) /\ Cardinality(W) \in Nat
      /\ Cardinality(MayChange) \in Nat
  BY <1>2, <1>3, ChangesAreFew, FS_Subset
<1>5. s \notin MayChange
  BY <1>2, <1>3
<1>6. Cardinality(MayChange \cup {s}) = Cardinality(MayChange) + 1
      /\ IsFiniteSet(MayChange \cup {s})
  BY <1>5, ChangesAreFew, FS_AddElement
<1>7. Cardinality(M) <= Cardinality(MayChange) + 1 /\ Cardinality(M) \in Nat
  BY <1>1, <1>6, FS_Subset, FS_CardinalityType
<1>8. Cardinality(W) + notifies < MaxNotifies
  BY <1>2 DEF Bounded, Pending
<1>9. notifies \in Nat /\ MaxNotifies \in Nat
  BY UmiMixerAssumption DEF UmiInv, UmiTypeOK
<1>10. Cardinality(M) + notifies <= MaxNotifies
  BY <1>4, <1>7, <1>8, <1>9
<1>11. QED
  BY <1>1, <1>10 DEF Room

\* A change becomes a status call.
LEMMA OneChangeLess ==
  ASSUME UmiTypeOK, Room, NEW s \in MayChange, MayChange' \subseteq MayChange \ {s},
         notifies' = notifies + 1
  PROVE  Room'
<1>1. PICK M : M = MayChange'
  OBVIOUS
<1>2. Cardinality(MayChange \ {s}) = Cardinality(MayChange) - 1
      /\ IsFiniteSet(MayChange \ {s})
  BY ChangesAreFew, FS_RemoveElement
<1>3. Cardinality(M) <= Cardinality(MayChange) - 1 /\ Cardinality(M) \in Nat
      /\ Cardinality(MayChange) \in Nat
  BY <1>1, <1>2, ChangesAreFew, FS_Subset, FS_CardinalityType
<1>4. notifies \in Nat /\ MaxNotifies \in Nat
  BY UmiMixerAssumption DEF UmiTypeOK
<1>5. Cardinality(M) + (notifies + 1) <= MaxNotifies
  BY <1>3, <1>4 DEF Room
<1>6. QED
  BY <1>1, <1>5 DEF Room

LEMMA RoomSteps ==
  ASSUME UmiInv, UmiNext
  PROVE  Room' /\ notifies' \in Nat
<1>1. /\ UmiTypeOK /\ ForSubscribers /\ Room /\ \A s \in Requests : Owed(s)
      /\ calls \in [Requests -> Methods \cup {NoCall}]
      /\ replies \in Seq(Reply) /\ notifies \in Nat
  BY DEF UmiInv, UmiTypeOK
<1>2. ASSUME UNCHANGED <<calls, replies, notifies>> PROVE Room' /\ notifies' \in Nat
  BY <1>1, <1>2, SameChanges, RoomKept
<1>3. ASSUME NEW s \in Requests, NEW m, calls' = [calls EXCEPT ![s] = m],
             m \notin Changes, UNCHANGED <<replies, notifies>>
      PROVE  Room' /\ notifies' \in Nat
  <2>1. MayChange' \subseteq MayChange
    BY <1>1, <1>3 DEF MayChange, Changing
  <2>2. QED
    BY <1>1, <1>3, <2>1, RoomKept
<1>4. ASSUME NEW s \in Requests, NextRequest(s) PROVE Room' /\ notifies' \in Nat
  <2>1. CASE UNCHANGED umiVars
    BY <1>2, <2>1 DEF umiVars, busVars
  <2>2. ASSUME NEW m \in Methods, Sends(s, m) PROVE Room' /\ notifies' \in Nat
    <3>1. calls' = [calls EXCEPT ![s] = m] /\ UNCHANGED <<replies, notifies>> /\ ~waiting[s]
          /\ (m \in Changes => Bounded)
      BY <2>2 DEF Sends, Arrives
    <3>2. CASE m \in Changes
      <4>1. MayChange' \subseteq MayChange \cup {s}
        BY <1>1, <3>1 DEF MayChange, Changing
      <4>2. QED
        BY <1>1, <3>1, <3>2, <4>1, OneChangeMore
    <3>3. QED
      BY <1>3, <3>1, <3>2
  <2>3. ASSUME NEW b \in BOOLEAN, GetStatus(s, b) PROVE Room' /\ notifies' \in Nat
    <3>1. UNCHANGED <<replies, notifies>>
          /\ (calls' = [calls EXCEPT ![s] = "status"] \/ UNCHANGED calls)
      BY <1>1, <2>3, StatusSteps
    <3>2. "status" \notin Changes
      BY DEF Changes
    <3>3. QED
      BY <1>2, <1>3, <3>1, <3>2
  <2>4. CASE Unsubscribe(s)
    BY <1>2, <2>4 DEF Unsubscribe, busVars
  <2>5. QED
    BY <1>4, <2>1, <2>2, <2>3, <2>4, RequestSteps
<1>5. ASSUME NEW s \in Requests, AnswerRequest(s) PROVE Room' /\ notifies' \in Nat
  <2>1. calls[s] \in Methods /\ Answer(s, calls[s]) /\ calls' = [calls EXCEPT ![s] = NoCall]
        /\ UNCHANGED notifies
    BY <1>1, <1>5 DEF AnswerRequest
  <2>2. PICK m \in Methods : m = calls[s]
    BY <2>1
  <2>3. PICK r \in Reply : r.to = s /\ r.method = m /\ replies' = Append(replies, r)
    BY <1>1, <2>1, <2>2, AnswerSteps DEF AnswerIs
  <2>4. \A t \in Requests : Changing(replies', t) =>
          Changing(replies, t) \/ (t = s /\ calls[s] \in Changes)
    BY <1>1, <2>2, <2>3, AppendAnswers
  <2>5. NoCall \notin Changes
    BY DEF NoCall, Changes
  <2>6. MayChange' \subseteq MayChange
    BY <1>1, <2>1, <2>4, <2>5 DEF MayChange
  <2>7. QED
    BY <1>1, <2>1, <2>6, RoomKept
<1>6. CASE AnswerNotify
  <2>1. UNCHANGED calls /\ notifies > 0 /\ notifies' = notifies - 1
    BY <1>6 DEF AnswerNotify
  <2>2. PICK r \in Reply : r.method = "status" /\ replies' = Append(replies, r)
    BY <1>1, <1>6, AnswerSteps DEF AnswerNotify, AnswerIs, Methods
  <2>3. r.method \notin Changes
    BY <2>2 DEF Changes
  <2>4. \A t \in Requests : Changing(replies', t) => Changing(replies, t)
    BY <1>1, <2>2, <2>3, AppendAnswers
  <2>5. MayChange' \subseteq MayChange
    BY <2>1, <2>4 DEF MayChange
  <2>6. QED
    BY <1>1, <2>1, <2>5, RoomKept
<1>7. CASE Deliver
  <2>1. PICK r \in Reply : DeliveryIs(r)
    BY <1>1, <1>7, DeliverySteps
  <2>2. replies # <<>> /\ r = Head(replies) /\ replies' = Tail(replies) /\ UNCHANGED calls
    BY <2>1 DEF DeliveryIs
  <2>3. \A t \in Requests : Changing(replies', t) => Changing(replies, t)
    BY <1>1, <2>2, TailAnswers
  <2>4. MayChange' \subseteq MayChange
    BY <2>2, <2>3 DEF MayChange
  <2>5. CASE UNCHANGED notifies
    BY <1>1, <2>4, <2>5, RoomKept
  <2>6. CASE r.method \in Changes /\ r.to # Nobody /\ notifies' = notifies + 1
    <3>1. r.to \in Requests
      BY <2>6 DEF Reply
    <3>2. PICK s \in Requests : s = r.to
      BY <3>1
    <3>3. Changing(replies, s) /\ Answering(replies, s)
      BY <1>1, <2>2, <2>6, <3>2, TailAnswers
    <3>4. calls[s] = NoCall /\ AnsweredOnce(replies, s)
      BY <1>1, <3>3 DEF Owed
    <3>5. ~Answering(replies', s)
      BY <1>1, <2>2, <3>2, <3>4, TailAnswers
    <3>6. s \in MayChange /\ s \notin MayChange'
      BY <2>2, <3>3, <3>4, <3>5 DEF MayChange, Changing, Answering, NoCall, Changes
    <3>7. QED
      BY <1>1, <2>4, <2>6, <3>6, OneChangeLess
  <2>7. QED
    BY <2>1, <2>5, <2>6 DEF DeliveryIs
<1>8. CASE ServiceStatusCallBack \/ ServiceDies \/ ServiceStarts
  BY <1>2, <1>8 DEF ServiceStatusCallBack, ServiceDies, ServiceStarts, busVars
<1>9. QED
  BY <1>4, <1>5, <1>6, <1>7, <1>8 DEF UmiNext

-----------------------------------------------------------------------------
(* Subscribers.                                                            *)

\* A subscriber that asks, or is about to know.
AsksOrKnows(s) ==
  told[s] # NotSubscribed =>
    calls[s] = "status" \/ WillKnow(replies, told[s], s, connected)

\* What a step must do for WillTell: WillTell as a step about one subscriber.
LEMMA WillTellFrom ==
  ASSUME WillTell,
         stale' \in BOOLEAN,
         ~stale' => ~stale,
         notifies > 0 => stale' \/ notifies' > 0 \/ ChangeComes(replies'),
         ChangeComes(replies) => stale' \/ notifies' > 0 \/ ChangeComes(replies'),
         stale' \/ notifies' > 0 \/ ChangeComes(replies')
           \/ \A s \in Requests : AsksOrKnows(s) => AsksOrKnows(s)'
  PROVE  WillTell'
<1>1. CASE stale' \/ notifies' > 0 \/ ChangeComes(replies')
  BY <1>1 DEF WillTell, ChangeComes
<1>2. CASE /\ ~(stale' \/ notifies' > 0 \/ ChangeComes(replies'))
           /\ \A s \in Requests : AsksOrKnows(s) => AsksOrKnows(s)'
  <2>1. \A s \in Requests : AsksOrKnows(s)
    BY <1>2 DEF WillTell, AsksOrKnows
  <2>2. \A s \in Requests : AsksOrKnows(s)'
    BY <1>2, <2>1
  <2>3. QED
    BY <2>2 DEF WillTell, AsksOrKnows
<1>3. QED
  BY <1>1, <1>2

LEMMA WillTellSteps ==
  ASSUME UmiInv, UmiNext
  PROVE  WillTell'
<1>1. /\ UmiTypeOK /\ ForSubscribers /\ WillTell /\ \A s \in Requests : Owed(s)
      /\ calls \in [Requests -> Methods \cup {NoCall}] /\ stale \in BOOLEAN
      /\ told \in [Requests -> Status \cup {NotSubscribed, NoStatus}]
      /\ replies \in Seq(Reply) /\ notifies \in Nat
  BY DEF UmiInv, UmiTypeOK
<1>2. ASSUME UNCHANGED <<told, calls, notifies, replies, connected, stale>> PROVE WillTell'
  BY <1>1, <1>2 DEF WillTell, ChangeComes, WillKnow, Informs
<1>3. ASSUME UNCHANGED <<notifies, replies, connected>>,
             stale' \in BOOLEAN, ~stale' => ~stale,
             ~stale' => \A t \in Requests :
               told'[t] = NotSubscribed \/ calls'[t] = "status"
               \/ (told'[t] = told[t] /\ calls'[t] = calls[t])
      PROVE  WillTell'
  <2>1. ~stale' => \A t \in Requests : AsksOrKnows(t) => AsksOrKnows(t)'
    BY <1>3 DEF AsksOrKnows, WillKnow, Informs
  <2>2. QED
    BY <1>1, <1>3, <2>1, WillTellFrom
<1>4. ASSUME NEW s \in Requests, NextRequest(s) PROVE WillTell'
  <2>1. CASE UNCHANGED umiVars
    BY <1>2, <2>1 DEF umiVars, busVars, clientVars, outVars
  <2>2. ASSUME NEW m \in Methods, Sends(s, m) PROVE WillTell'
    <3>1. /\ told[s] = NotSubscribed /\ calls' = [calls EXCEPT ![s] = m]
          /\ UNCHANGED <<told, notifies, replies, connected, stale>>
      BY <2>2 DEF Sends, Arrives, outVars
    <3>2. \A t \in Requests : told'[t] = NotSubscribed
            \/ (told'[t] = told[t] /\ calls'[t] = calls[t])
      BY <1>1, <3>1
    <3>3. QED
      BY <1>1, <1>3, <3>1, <3>2
  <2>3. ASSUME NEW b \in BOOLEAN, GetStatus(s, b) PROVE WillTell'
    <3>1. /\ told' = [told EXCEPT ![s] = told'[s]]
          /\ UNCHANGED <<notifies, replies, connected>>
      BY <1>1, <2>3, StatusSteps DEF outVars
    <3>2. \/ calls' = [calls EXCEPT ![s] = "status"] /\ UNCHANGED stale
          \/ UNCHANGED <<calls, stale>> /\ told'[s] = NotSubscribed
          \/ stale' = TRUE
      BY <1>1, <2>3, StatusSteps
    <3>3. CASE calls' = [calls EXCEPT ![s] = "status"] /\ UNCHANGED stale
      <4>1. \A t \in Requests : calls'[t] = "status"
              \/ (told'[t] = told[t] /\ calls'[t] = calls[t])
        BY <1>1, <3>1, <3>3
      <4>2. QED
        BY <1>1, <1>3, <3>1, <3>3, <4>1
    <3>4. CASE UNCHANGED <<calls, stale>> /\ told'[s] = NotSubscribed
      <4>1. \A t \in Requests : told'[t] = NotSubscribed
              \/ (told'[t] = told[t] /\ calls'[t] = calls[t])
        BY <1>1, <3>1, <3>4
      <4>2. QED
        BY <1>1, <1>3, <3>1, <3>4, <4>1
    <3>5. CASE stale' = TRUE
      BY <3>5 DEF WillTell
    <3>6. QED
      BY <3>2, <3>3, <3>4, <3>5
  <2>4. CASE Unsubscribe(s)
    <3>1. /\ told' = [told EXCEPT ![s] = NotSubscribed]
          /\ UNCHANGED <<calls, notifies, replies, connected, stale>>
      BY <2>4 DEF Unsubscribe, busVars, outVars
    <3>2. \A t \in Requests : told'[t] = NotSubscribed
            \/ (told'[t] = told[t] /\ calls'[t] = calls[t])
      BY <1>1, <3>1
    <3>3. QED
      BY <1>1, <1>3, <3>1, <3>2
  <2>5. QED
    BY <1>4, <2>1, <2>2, <2>3, <2>4, RequestSteps
<1>5. ASSUME NEW s \in Requests, AnswerRequest(s) PROVE WillTell'
  <2>1. calls[s] \in Methods /\ Answer(s, calls[s]) /\ calls' = [calls EXCEPT ![s] = NoCall]
        /\ UNCHANGED <<notifies, told>> /\ s # Nobody
    BY <1>1, <1>5, UmiMixerAssumption DEF AnswerRequest, clientVars
  <2>2. PICK m \in Methods : m = calls[s]
    BY <2>1
  <2>3. PICK r \in Reply : r.to = s /\ r.method = m /\ AnswerIs(r)
    BY <1>1, <2>1, <2>2, AnswerSteps
  <2>4. /\ replies' = Append(replies, r) /\ stale' \in BOOLEAN /\ (~stale' => ~stale)
        /\ (m \notin Changes => UNCHANGED connected)
        /\ (~stale' /\ m \in Changes => ~r.garbled)
        /\ (~stale' /\ m = "status" => ~r.garbled /\ r.status = connected')
    BY <2>1, <2>3 DEF AnswerIs
  <2>5. ChangeComes(replies) => ChangeComes(replies')
    BY <1>1, <2>4, AppendAnswers
  <2>6. CASE m \in Changes
    <3>1. ~stale' => ChangeComes(replies')
      BY <1>1, <2>3, <2>4, <2>6, AppendAnswers
    <3>2. QED
      BY <2>4, <3>1 DEF WillTell, ChangeComes
  <2>7. CASE m \notin Changes
    <3>1. ASSUME ~stale', NEW t \in Requests, AsksOrKnows(t) PROVE AsksOrKnows(t)'
      <4>1. PICK known, n : known = told[t] /\ n = connected
        OBVIOUS
      <4>2. told'[t] = known /\ connected' = n
        BY <2>1, <2>4, <2>7, <4>1
      <4>3. CASE t = s /\ m = "status"
        <5>1. Informs(r, t) /\ r.status = n
          BY <2>3, <2>4, <3>1, <4>2, <4>3 DEF Informs
        <5>2. WillKnow(Append(replies, r), known, t, n)
          BY <1>1, <5>1, AppendInforms
        <5>3. QED
          BY <2>4, <4>2, <5>2 DEF AsksOrKnows, WillKnow, Informs
      <4>4. CASE ~(t = s /\ m = "status")
        <5>1. ~Informs(r, t)
          BY <2>1, <2>3, <4>4 DEF Informs
        <5>2. CASE calls[t] = "status"
          <6>1. calls'[t] = "status"
            BY <1>1, <2>1, <2>2, <4>4, <5>2
          <6>2. QED
            BY <6>1 DEF AsksOrKnows
        <5>3. CASE told[t] = NotSubscribed
          BY <4>1, <4>2, <5>3 DEF AsksOrKnows
        <5>4. CASE WillKnow(replies, told[t], t, connected)
          <6>1. WillKnow(Append(replies, r), known, t, n)
            BY <1>1, <4>1, <5>1, <5>4, AppendInforms
          <6>2. QED
            BY <2>4, <4>2, <6>1 DEF AsksOrKnows, WillKnow, Informs
        <5>5. QED
          BY <3>1, <5>2, <5>3, <5>4 DEF AsksOrKnows
      <4>5. QED
        BY <4>3, <4>4
    <3>2. QED
      BY <1>1, <2>1, <2>4, <2>5, <3>1, WillTellFrom
  <2>8. QED
    BY <2>6, <2>7
<1>6. CASE AnswerNotify
  <2>1. PICK r \in Reply : r.to = Nobody /\ r.method = "status" /\ AnswerIs(r)
    BY <1>1, <1>6, AnswerSteps DEF AnswerNotify, Methods
  <2>2. UNCHANGED <<told, calls>>
    BY <1>6 DEF AnswerNotify, clientVars
  <2>3. /\ replies' = Append(replies, r) /\ stale' \in BOOLEAN
        /\ (~stale' => ~r.garbled /\ r.status = connected')
    BY <2>1 DEF AnswerIs
  <2>4. ASSUME ~stale', NEW t \in Requests PROVE AsksOrKnows(t)'
    <3>1. PICK known, n : known = told[t] /\ n = connected'
      OBVIOUS
    <3>2. Informs(r, t) /\ r.status = n
      BY <2>1, <2>3, <2>4, <3>1 DEF Informs
    <3>3. WillKnow(Append(replies, r), known, t, n)
      BY <1>1, <3>2, AppendInforms
    <3>4. QED
      BY <2>2, <2>3, <3>1, <3>3 DEF AsksOrKnows, WillKnow, Informs
  <2>5. QED
    BY <2>3, <2>4 DEF WillTell, AsksOrKnows
<1>7. CASE Deliver
  <2>1. PICK r \in Reply : DeliveryIs(r)
    BY <1>1, <1>7, DeliverySteps
  <2>2. /\ replies # <<>> /\ r = Head(replies) /\ replies' = Tail(replies)
        /\ UNCHANGED <<calls, connected>>
        /\ notifies' = notifies \/ notifies' = notifies + 1
        /\ \A s \in Requests : told'[s] = IF told[s] # NotSubscribed /\ Informs(r, s)
                                          THEN r.status ELSE told[s]
    BY <2>1 DEF DeliveryIs, outVars
  <2>3. CASE stale' = TRUE
    BY <2>3 DEF WillTell
  <2>4. CASE /\ UNCHANGED stale
             /\ r.method \in Changes /\ ~r.garbled => notifies' = notifies + 1
    <3>1. notifies > 0 => notifies' > 0
      BY <1>1, <2>2
    <3>2. r.method \in Changes /\ ~r.garbled => notifies' > 0
      BY <1>1, <2>4
    <3>3. ChangeComes(replies) => ChangeComes(replies') \/ notifies' > 0
      BY <1>1, <2>2, <3>2, TailAnswers
    <3>4. ASSUME NEW t \in Requests, AsksOrKnows(t) PROVE AsksOrKnows(t)'
      <4>1. PICK known, n : known = told[t] /\ n = connected
        OBVIOUS
      <4>2. CASE told[t] = NotSubscribed
        BY <2>2, <4>2 DEF AsksOrKnows
      <4>3. CASE calls[t] = "status"
        BY <2>2, <4>3 DEF AsksOrKnows
      <4>4. CASE told[t] # NotSubscribed /\ WillKnow(replies, told[t], t, connected)
        <5>1. WillKnow(Tail(replies), IF Informs(Head(replies), t)
                                      THEN Head(replies).status ELSE known, t, n)
          BY <1>1, <2>2, <4>1, <4>4, TailInforms
        <5>2. told'[t] = IF Informs(Head(replies), t) THEN Head(replies).status ELSE known
          BY <2>2, <4>1, <4>4
        <5>3. WillKnow(replies', told'[t], t, connected')
          BY <2>2, <4>1, <5>1, <5>2
        <5>4. QED
          BY <5>3 DEF AsksOrKnows, WillKnow, Informs
      <4>5. QED
        BY <3>4, <4>2, <4>3, <4>4 DEF AsksOrKnows
    <3>5. QED
      BY <1>1, <2>4, <3>1, <3>3, <3>4, WillTellFrom
  <2>5. QED
    BY <2>1, <2>3, <2>4 DEF DeliveryIs
<1>8. CASE ServiceStatusCallBack \/ ServiceStarts
  BY <1>2, <1>8 DEF ServiceStatusCallBack, ServiceStarts, clientVars, busVars, outVars
<1>9. CASE ServiceDies
  BY <1>9 DEF ServiceDies, WillTell
<1>10. QED
  BY <1>4, <1>5, <1>6, <1>7, <1>8, <1>9 DEF UmiNext

-----------------------------------------------------------------------------
(* The invariant holds.                                                    *)

LEMMA FlagSet ==
  ASSUME NEW f \in [Requests -> BOOLEAN], NEW s \in Requests
  PROVE  [f EXCEPT ![s] = TRUE] \in [Requests -> BOOLEAN]
         /\ [f EXCEPT ![s] = FALSE] \in [Requests -> BOOLEAN]
OBVIOUS

LEMMA UmiTypesSteps ==
  ASSUME UmiInv, UmiNext, notifies' \in Nat, Room'
  PROVE  UmiTypeOK'
<1>1. /\ UmiTypeOK /\ ForSubscribers
      /\ {configured, ready, serviceUp, stale} \subseteq BOOLEAN
      /\ connected \in Status
      /\ waiting \in [Requests -> BOOLEAN]
      /\ refs \in [Requests -> 0 .. 1]
      /\ told \in [Requests -> Status \cup {NotSubscribed, NoStatus}]
      /\ calls \in [Requests -> Methods \cup {NoCall}]
      /\ notifies \in 0 .. MaxNotifies /\ replies \in Seq(Reply)
  BY DEF UmiInv, UmiTypeOK
<1>2. notifies' \in 0 .. MaxNotifies
  <2>1. PICK M : M = MayChange'
    OBVIOUS
  <2>2. M \subseteq Requests
    BY <2>1 DEF MayChange
  <2>3. Cardinality(M) \in Nat
    BY <2>2, ChangesAreFew
  <2>4. Cardinality(M) + notifies' <= MaxNotifies
    BY <2>1 DEF Room
  <2>5. QED
    BY <2>3, <2>4, UmiMixerAssumption
<1>3. ASSUME NEW s \in Requests, NextRequest(s) PROVE UmiTypeOK'
  <2>1. CASE UNCHANGED umiVars
    BY <1>1, <2>1 DEF UmiTypeOK, umiVars, mixerVars, busVars, clientVars, outVars
  <2>2. ASSUME NEW m \in Methods, Sends(s, m) PROVE UmiTypeOK'
    <3>1. waiting' \in [Requests -> BOOLEAN]
      BY <1>1, <2>2, FlagSet DEF Sends, Keep
    <3>2. calls' \in [Requests -> Methods \cup {NoCall}] /\ refs' \in [Requests -> 0 .. 1]
      BY <1>1, <2>2 DEF Sends, Keep
    <3>3. QED
      BY <1>1, <2>2, <3>1, <3>2 DEF UmiTypeOK, Sends, mixerVars, outVars
  <2>3. ASSUME NEW b \in BOOLEAN, GetStatus(s, b) PROVE UmiTypeOK'
    <3>1. /\ told' = [told EXCEPT ![s] = told'[s]] /\ told'[s] \in {NotSubscribed, NoStatus}
          /\ UNCHANGED <<configured, ready, notifies, replies, serviceUp, connected>>
          /\ UNCHANGED stale \/ stale' = TRUE
          /\ \/ Keep(s) /\ calls' = [calls EXCEPT ![s] = "status"]
             \/ refs' = [refs EXCEPT ![s] = 1] /\ UNCHANGED <<waiting, calls>>
      <4>1. /\ told' = [told EXCEPT ![s] = told'[s]] /\ told'[s] \in {NotSubscribed, NoStatus}
            /\ UNCHANGED <<mixerVars, notifies, replies, outVars>>
        BY <1>1, <2>3, StatusSteps
      <4>2. /\ UNCHANGED stale \/ stale' = TRUE
            /\ \/ Keep(s) /\ calls' = [calls EXCEPT ![s] = "status"]
               \/ refs' = [refs EXCEPT ![s] = 1] /\ UNCHANGED <<waiting, calls>>
        BY <1>1, <2>3, StatusSteps, ZenonT(60)
      <4>3. UNCHANGED <<configured, ready, notifies, replies, serviceUp, connected>>
        BY <4>1 DEF mixerVars, outVars
      <4>4. QED
        BY <4>1, <4>2, <4>3
    <3>2. told' \in [Requests -> Status \cup {NotSubscribed, NoStatus}]
      BY <1>1, <3>1
    <3>3. waiting' \in [Requests -> BOOLEAN]
      BY <1>1, <3>1, FlagSet DEF Keep
    <3>4. refs' \in [Requests -> 0 .. 1] /\ calls' \in [Requests -> Methods \cup {NoCall}]
      BY <1>1, <3>1 DEF Keep, Methods
    <3>5. QED
      BY <1>1, <3>1, <3>2, <3>3, <3>4 DEF UmiTypeOK
  <2>4. CASE Unsubscribe(s)
    BY <1>1, <2>4 DEF UmiTypeOK, Unsubscribe, mixerVars, busVars, outVars
  <2>5. QED
    BY <1>3, <2>1, <2>2, <2>3, <2>4, RequestSteps
<1>4. ASSUME NEW s \in Requests, AnswerRequest(s) PROVE UmiTypeOK'
  <2>1. calls[s] \in Methods /\ Answer(s, calls[s]) /\ calls' = [calls EXCEPT ![s] = NoCall]
        /\ UNCHANGED <<configured, ready, waiting, refs, told, notifies, serviceUp>>
    BY <1>1, <1>4 DEF AnswerRequest, mixerVars, clientVars
  <2>2. PICK m \in Methods : m = calls[s]
    BY <2>1
  <2>3. PICK r \in Reply : AnswerIs(r)
    BY <1>1, <2>1, <2>2, AnswerSteps
  <2>4. replies' \in Seq(Reply) /\ connected' \in Status /\ stale' \in BOOLEAN
    BY <1>1, <2>3, AppendReply DEF AnswerIs
  <2>5. calls' \in [Requests -> Methods \cup {NoCall}]
    BY <1>1, <2>1
  <2>6. QED
    BY <1>1, <2>1, <2>4, <2>5 DEF UmiTypeOK
<1>5. CASE AnswerNotify
  <2>1. PICK r \in Reply : AnswerIs(r)
    BY <1>1, <1>5, AnswerSteps DEF AnswerNotify, Methods
  <2>2. replies' \in Seq(Reply) /\ connected' \in Status /\ stale' \in BOOLEAN
    BY <1>1, <2>1, AppendReply DEF AnswerIs
  <2>3. UNCHANGED <<configured, ready, waiting, refs, told, calls, serviceUp>>
    BY <1>5 DEF AnswerNotify, mixerVars, clientVars
  <2>4. QED
    BY <1>1, <1>2, <2>2, <2>3 DEF UmiTypeOK
<1>6. CASE Deliver
  <2>1. PICK r \in Reply : DeliveryIs(r)
    BY <1>1, <1>6, DeliverySteps
  <2>2. /\ UNCHANGED <<configured, ready, calls, serviceUp, connected>>
        /\ replies' \in Seq(Reply)
        /\ told' \in [Requests -> Status \cup {NotSubscribed, NoStatus}]
        /\ UNCHANGED stale \/ stale' = TRUE
    BY <1>1, <2>1, TailReply DEF DeliveryIs, mixerVars, outVars
  <2>3. r.to # Nobody => r.to \in Requests
    BY DEF Reply
  <2>4. waiting' \in [Requests -> BOOLEAN]
    BY <1>1, <2>1, <2>3, FlagSet DEF DeliveryIs, Respond
  <2>5. refs' \in [Requests -> 0 .. 1]
    BY <1>1, <2>1, <2>3 DEF DeliveryIs, Respond
  <2>6. QED
    BY <1>1, <1>2, <2>2, <2>4, <2>5 DEF UmiTypeOK
<1>7. CASE ServiceStatusCallBack
  BY <1>1, <1>7 DEF ServiceStatusCallBack, UmiTypeOK, clientVars, busVars, outVars
<1>8. CASE ServiceDies
  <2>1. 0 \in Status
    BY UmiMixerAssumption DEF Status
  <2>2. QED
    BY <1>1, <1>8, <2>1 DEF ServiceDies, UmiTypeOK, mixerVars, clientVars, busVars
<1>9. CASE ServiceStarts
  BY <1>1, <1>9 DEF ServiceStarts, UmiTypeOK, mixerVars, clientVars, busVars
<1>10. QED
  BY <1>3, <1>4, <1>5, <1>6, <1>7, <1>8, <1>9 DEF UmiNext

LEMMA UmiInvInit == UmiInit => UmiInv
<1> SUFFICES ASSUME UmiInit PROVE UmiInv
  OBVIOUS
<1>1. UmiTypeOK
  <2>1. 0 \in Status /\ 0 \in 0 .. MaxNotifies
    BY UmiMixerAssumption DEF Status
  <2>2. waiting \in [Requests -> BOOLEAN]
    BY DEF UmiInit
  <2>3. /\ refs \in [Requests -> 0 .. 1]
        /\ told \in [Requests -> Status \cup {NotSubscribed, NoStatus}]
        /\ calls \in [Requests -> Methods \cup {NoCall}]
        /\ replies \in Seq(Reply) /\ connected = 0 /\ notifies = 0
    BY DEF UmiInit
  <2>4. /\ configured \in BOOLEAN /\ ready \in BOOLEAN
        /\ serviceUp \in BOOLEAN /\ stale \in BOOLEAN
    BY DEF UmiInit
  <2>5. {configured, ready, serviceUp, stale} \subseteq BOOLEAN
    BY <2>4, Zenon
  <2>6. QED
    BY <2>1, <2>2, <2>3, <2>5 DEF UmiTypeOK
<1>2. /\ DOMAIN replies = {} /\ calls \in [Requests -> {NoCall}]
      /\ told \in [Requests -> {NotSubscribed}]
      /\ \A s \in Requests : ~waiting[s]
  BY DEF UmiInit
<1>3. (\A s \in Requests : Owed(s)) /\ ForSubscribers /\ WillTell
  BY <1>2 DEF Owed, ForSubscribers, WillTell, Answering, AnsweredOnce
<1>4. MayChange = {}
  BY <1>2 DEF MayChange, Changing, Changes, NoCall
<1>5. Room
  BY <1>4, FS_EmptySet, UmiMixerAssumption DEF Room, UmiInit
<1>6. QED
  BY <1>1, <1>3, <1>5 DEF UmiInv

LEMMA UmiInvNext == UmiInv /\ [UmiNext]_umiVars => UmiInv'
<1>1. UmiInv /\ UmiNext => UmiInv'
  BY UmiTypesSteps, OwedSteps, ForSubscribersSteps, RoomSteps, WillTellSteps DEF UmiInv
<1>2. UmiInv /\ UNCHANGED umiVars => UmiInv'
  <2> SUFFICES ASSUME UmiInv, UNCHANGED umiVars PROVE UmiInv'
    OBVIOUS
  <2>1. UNCHANGED <<configured, ready, waiting, refs, told, calls, notifies, replies,
                    serviceUp, connected, stale>>
    BY DEF umiVars, mixerVars, clientVars, busVars, outVars
  <2>2. UmiTypeOK'
    BY <2>1 DEF UmiInv, UmiTypeOK
  <2>3. (\A s \in Requests : Owed(s))'
    BY <2>1 DEF UmiInv, Owed, Answering, AnsweredOnce
  <2>4. ForSubscribers'
    BY <2>1 DEF UmiInv, ForSubscribers
  <2>5. Room'
    BY <2>1, SameChanges DEF UmiInv, Room
  <2>6. WillTell'
    BY <2>1 DEF UmiInv, WillTell, ChangeComes, WillKnow, Informs
  <2>7. QED
    BY <2>2, <2>3, <2>4, <2>5, <2>6 DEF UmiInv
<1>3. QED
  BY <1>1, <1>2

LEMMA UmiInvAlways == UmiSpec => []UmiInv
<1>1. UmiInv /\ [UmiNext]_umiVars => UmiInv'
  BY UmiInvNext
<1>2. QED
  BY <1>1, UmiInvInit, PTL DEF UmiSpec

\* The variables of the mixer keep their types; the status calls for the subscribers
\* are bounded by the requests that audiod accepts.
THEOREM UmiTypes == UmiSpec => []UmiTypeOK
<1>1. UmiInv => UmiTypeOK
  BY DEF UmiInv
<1>2. QED
  BY <1>1, UmiInvAlways, PTL

\* A client's message is referenced as long as the client waits, and at most one call
\* or reply is under way for it, none once it is answered: LSMessageRef before each
\* call, LSMessageUnref in each callback (umiaudiomixer.cpp).
THEOREM OneAnswerAtMost == UmiSpec => []OneAnswerEach
<1>1. ASSUME UmiInv, NEW s \in Requests
      PROVE  InFlight(s) <= (IF waiting[s] THEN 1 ELSE 0)
  <2>1. Owed(s) /\ DOMAIN replies = 1 .. Len(replies)
    BY <1>1 DEF UmiInv, UmiTypeOK
  <2>2. PICK R : R = {i \in DOMAIN replies : replies[i].to = s}
    OBVIOUS
  <2>3. CASE Answering(replies, s)
    <3>1. PICK i \in DOMAIN replies : replies[i].to = s
      BY <2>3 DEF Answering
    <3>2. R = {i}
      BY <2>1, <2>2, <3>1 DEF Owed, AnsweredOnce
    <3>3. Cardinality(R) = 1
      BY <3>2, FS_Singleton
    <3>4. calls[s] = NoCall /\ waiting[s]
      BY <2>1, <2>3 DEF Owed
    <3>5. QED
      BY <2>2, <3>3, <3>4 DEF InFlight
  <2>4. CASE ~Answering(replies, s)
    <3>1. R = {}
      BY <2>2, <2>4 DEF Answering
    <3>2. Cardinality(R) = 0
      BY <3>1, FS_EmptySet
    <3>3. calls[s] # NoCall => waiting[s]
      BY <2>1 DEF Owed
    <3>4. QED
      BY <2>2, <3>2, <3>3 DEF InFlight
  <2>5. QED
    BY <2>3, <2>4
<1>2. UmiInv => OneAnswerEach
  BY <1>1 DEF OneAnswerEach, UmiInv, Owed
<1>3. QED
  BY <1>2, UmiInvAlways, PTL

\* When nothing is under way and no status was lost, every subscriber was last sent
\* what is connected, whatever changes and status requests overlapped: the status
\* call after each change (notifyGetStatusSubscribers) and the order of the replies.
THEOREM SubscribersAlwaysTold == UmiSpec => []SubscribersTold
<1>1. ASSUME UmiInv, Quiet, ~stale, NEW s \in Requests
      PROVE  told[s] \in {NotSubscribed, connected}
  <2>1. notifies = 0 /\ DOMAIN replies = {} /\ calls[s] # "status"
    BY <1>1 DEF Quiet, NoCall
  <2>2. ~ChangeComes(replies)
    BY <2>1 DEF ChangeComes
  <2>3. told[s] # NotSubscribed => WillKnow(replies, told[s], s, connected)
    BY <1>1, <2>1, <2>2 DEF UmiInv, WillTell
  <2>4. QED
    BY <2>1, <2>3 DEF WillKnow
<1>2. UmiInv => SubscribersTold
  BY <1>1 DEF SubscribersTold
<1>3. QED
  BY <1>2, UmiInvAlways, PTL

-----------------------------------------------------------------------------
(* Requests of /master are not dropped.                                    *)

MasterReply(q, s) == \E i \in DOMAIN q : q[i].to = s /\ q[i].method = "master"

\* The call for a request of /master, or the reply to it, is under way.
MasterUnderWay(s) == calls[s] = "master" \/ MasterReply(replies, s)

\* One more reply drops none; the one for a master call is such a reply.
LEMMA AppendMaster ==
  ASSUME NEW q \in Seq(Reply), NEW r \in Reply, NEW s
  PROVE  /\ MasterReply(q, s) => MasterReply(Append(q, r), s)
         /\ r.to = s /\ r.method = "master" => MasterReply(Append(q, r), s)
BY AppendReply DEF MasterReply

\* One reply less is that reply or another's.
LEMMA TailMaster ==
  ASSUME NEW q \in Seq(Reply), q # <<>>, NEW s, MasterReply(q, s)
  PROVE  MasterReply(Tail(q), s) \/ (Head(q).to = s /\ Head(q).method = "master")
<1>1. PICK i \in DOMAIN q : q[i].to = s /\ q[i].method = "master"
  BY DEF MasterReply
<1>2. CASE i = 1
  BY <1>1, <1>2, TailReply
<1>3. CASE i # 1
  <2>1. i - 1 \in DOMAIN Tail(q) /\ Tail(q)[i - 1] = q[i]
    BY <1>3, TailReply
  <2>2. QED
    BY <1>1, <2>1, Zenon DEF MasterReply
<1>4. QED
  BY <1>2, <1>3

\* Who has one waits, so that its message is not one that arrives.
LEMMA MasterWaits ==
  ASSUME NEW s \in Requests, Owed(s), MasterUnderWay(s)
  PROVE  waiting[s]
<1>1. calls[s] # NoCall \/ Answering(replies, s)
  BY DEF MasterUnderWay, MasterReply, Answering, NoCall
<1>2. QED
  BY <1>1 DEF Owed

LEMMA MasterKept ==
  ASSUME NEW s \in Requests, MasterUnderWay(s), calls'[s] = calls[s],
         MasterReply(replies, s) => MasterReply(replies', s)
  PROVE  MasterUnderWay(s)'
BY DEF MasterUnderWay, MasterReply

LEMMA MasterSteps ==
  ASSUME UmiInv, UmiNext, NEW t \in Requests, MasterUnderWay(t)
  PROVE  MasterUnderWay(t)' \/ ~waiting'[t]
<1>1. /\ UmiTypeOK /\ waiting[t] /\ waiting \in [Requests -> BOOLEAN]
      /\ calls \in [Requests -> Methods \cup {NoCall}] /\ replies \in Seq(Reply)
  BY MasterWaits DEF UmiInv, UmiTypeOK
<1>2. ASSUME UNCHANGED <<calls, replies>> PROVE MasterUnderWay(t)'
  BY <1>2, MasterKept
<1>3. ASSUME NEW s \in Requests, NEW m \in Methods, Arrives(s), UNCHANGED replies,
             calls' = [calls EXCEPT ![s] = m]
      PROVE  MasterUnderWay(t)'
  <2>1. s # t
    BY <1>1, <1>3 DEF Arrives
  <2>2. calls'[t] = calls[t]
    BY <1>1, <1>3, <2>1
  <2>3. QED
    BY <1>3, <2>2, MasterKept
<1>4. ASSUME NEW s \in Requests, NextRequest(s) PROVE MasterUnderWay(t)'
  <2>1. CASE UNCHANGED umiVars
    BY <1>2, <2>1 DEF umiVars, busVars
  <2>2. ASSUME NEW m \in Methods, Sends(s, m) PROVE MasterUnderWay(t)'
    BY <1>3, <2>2 DEF Sends
  <2>3. ASSUME NEW b \in BOOLEAN, GetStatus(s, b) PROVE MasterUnderWay(t)'
    <3>1. /\ Arrives(s) /\ UNCHANGED replies
          /\ UNCHANGED calls \/ calls' = [calls EXCEPT ![s] = "status"]
      BY <1>1, <2>3, StatusSteps
    <3>2. "status" \in Methods
      BY DEF Methods
    <3>3. QED
      BY <1>2, <1>3, <3>1, <3>2
  <2>4. CASE Unsubscribe(s)
    BY <1>2, <2>4 DEF Unsubscribe, busVars
  <2>5. QED
    BY <1>4, <2>1, <2>2, <2>3, <2>4, RequestSteps
<1>5. ASSUME NEW s \in Requests, AnswerRequest(s) PROVE MasterUnderWay(t)'
  <2>1. PICK m \in Methods : m = calls[s]
    BY <1>1, <1>5 DEF AnswerRequest
  <2>2. PICK r \in Reply : r.to = s /\ r.method = m /\ replies' = Append(replies, r)
    BY <1>1, <1>5, <2>1, AnswerSteps DEF AnswerRequest, AnswerIs
  <2>3. MasterReply(replies, t) => MasterReply(replies', t)
    BY <1>1, <2>2, AppendMaster
  <2>4. CASE s = t /\ calls[t] = "master"
    <3>1. MasterReply(replies', t)
      BY <1>1, <2>1, <2>2, <2>4, AppendMaster
    <3>2. QED
      BY <3>1 DEF MasterUnderWay, MasterReply
  <2>5. CASE s = t /\ calls[t] # "master"
    <3>1. MasterReply(replies', t)
      BY <2>3, <2>5 DEF MasterUnderWay
    <3>2. QED
      BY <3>1 DEF MasterUnderWay, MasterReply
  <2>6. CASE s # t
    <3>1. calls'[t] = calls[t]
      BY <1>1, <1>5, <2>6 DEF AnswerRequest
    <3>2. QED
      BY <2>3, <3>1, MasterKept
  <2>7. QED
    BY <2>4, <2>5, <2>6
<1>6. CASE AnswerNotify
  <2>1. "status" \in Methods /\ Answer(Nobody, "status") /\ UNCHANGED calls
    BY <1>6 DEF AnswerNotify, Methods
  <2>2. PICK r \in Reply : replies' = Append(replies, r)
    BY <1>1, <2>1, AnswerSteps DEF AnswerIs
  <2>3. MasterReply(replies, t) => MasterReply(replies', t)
    BY <1>1, <2>2, AppendMaster
  <2>4. QED
    BY <2>1, <2>3, MasterKept
<1>7. CASE Deliver
  <2>1. replies # <<>> /\ replies' = Tail(replies) /\ UNCHANGED calls
    BY <1>7 DEF Deliver
  <2>2. CASE Head(replies).to = t /\ Head(replies).method = "master"
    <3>1. Forward(Head(replies))
      BY <1>7, <2>2 DEF Deliver, SetVolumeCallBack, GetVolumeCallBack, MuteVolumeCallBack,
         VolumeUpCallBack, VolumeDownCallBack, UpdateSoundOutStatus, ConnectStatusCallback,
         DisConnectStatusCallback, GetAudioOutputStatusCallback
    <3>2. waiting' = [waiting EXCEPT ![t] = FALSE]
      BY <2>2, <3>1 DEF Forward, Respond
    <3>3. QED
      BY <1>1, <3>2
  <2>3. CASE ~(Head(replies).to = t /\ Head(replies).method = "master")
    <3>1. MasterReply(replies, t) => MasterReply(replies', t)
      BY <1>1, <2>1, <2>3, TailMaster
    <3>2. QED
      BY <2>1, <3>1, MasterKept
  <2>4. QED
    BY <2>2, <2>3
<1>8. CASE ServiceStatusCallBack \/ ServiceDies \/ ServiceStarts
  BY <1>2, <1>8 DEF ServiceStatusCallBack, ServiceDies, ServiceStarts, busVars
<1>9. QED
  BY <1>4, <1>5, <1>6, <1>7, <1>8 DEF UmiNext

\* No request of /master that was sent on is dropped: its call or its reply stays
\* under way until the client has its answer, whatever the service does, however its
\* replies look and whatever else is answered meanwhile.
THEOREM MasterIsNeverDropped ==
  UmiSpec => [][\A s \in Requests :
                  MasterUnderWay(s) => MasterUnderWay(s)' \/ ~waiting'[s]]_umiVars
<1>1. UmiInv /\ [UmiNext]_umiVars
        => [\A s \in Requests :
              MasterUnderWay(s) => MasterUnderWay(s)' \/ ~waiting'[s]]_umiVars
  BY MasterSteps
<1>2. QED
  BY <1>1, UmiInvAlways, PTL DEF UmiSpec
=============================================================================
