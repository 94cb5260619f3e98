-------------------------- MODULE SharedProperties --------------------------
(***************************************************************************)
(* A property audiod shares with other processes: IPC_Property and         *)
(* IPC_Socket.                                                             *)
(*                                                                         *)
(* The value lies in shared memory, which audiod writes and every client   *)
(* reads.  What goes over the sockets are requests to set it, the clients' *)
(* registrations, and notes that it has changed; a note holds no value:    *)
(* its receiver reads the memory and calls its listeners.  Clients connect *)
(* again by themselves when audiod ends, which upstart starts again.       *)
(*                                                                         *)
(* Sending does not block.  When a client's socket is full a note is lost, *)
(* whole or but for its header, and a header alone ruins all that follows. *)
(* The sockets to audiod are taken to have room.                           *)
(***************************************************************************)
EXTENDS Naturals, Sequences

CONSTANTS
  Clients,   \* processes that attach to the properties
  Values,    \* values of the property
  Default,   \* the one it is created with
  Unheard,   \* no value
  MaxQueue,  \* notes a client's socket has room for
  MaxUp      \* bound: messages to audiod under way

ASSUME SharedPropertiesAssumption ==
  /\ Default \in Values
  /\ Unheard \notin Values
  /\ MaxQueue \in Nat \ {0}
  /\ MaxUp \in Nat \ {0}

VARIABLES
  command,  \* flags: NoNotificationOnConnect and NotifyClientsEvenIfNoChange
  running,  \* audiod's process
  value,    \* mValue, in shared memory
  server,   \* audiod's end of each client's socket
  property, \* mProperties of each Client: it is to be notified
  conn,     \* the client's end: "dead" is closed and will not be reopened
  listener, \* the client's mSignal is not empty
  up,       \* messages to audiod
  down,     \* notes to the client, "half" for a header without its payload
  heard,    \* history: the value each client's listener was last called with
  missed    \* history: the last note to the client was lost

socketVars == <<server, conn, up, down>>
vars == <<command, running, value, server, property, conn, listener, up, down,
          heard, missed>>

TypeOK ==
  /\ {command, running} \subseteq BOOLEAN
  /\ value \in Values
  /\ server \in [Clients -> {"none", "backlog", "open", "closing"}]
  /\ property \in [Clients -> BOOLEAN]
  /\ conn \in [Clients -> {"retry", "up", "dead"}]
  /\ listener \in [Clients -> BOOLEAN]
  /\ up \in [Clients -> Seq([register : BOOLEAN, set : Values])]
  /\ down \in [Clients -> Seq({"note", "half"})]
  /\ heard \in [Clients -> Values \cup {Unheard}]
  /\ missed \in [Clients -> BOOLEAN]

Init ==
  /\ command \in BOOLEAN
  /\ running = TRUE
  /\ value = Default
  /\ server = [c \in Clients |-> "none"]
  /\ property = [c \in Clients |-> FALSE]
  /\ conn = [c \in Clients |-> "retry"]
  /\ listener = [c \in Clients |-> FALSE]
  /\ up = [c \in Clients |-> <<>>]
  /\ down = [c \in Clients |-> <<>>]
  /\ heard = [c \in Clients |-> Unheard]
  /\ missed = [c \in Clients |-> FALSE]

-----------------------------------------------------------------------------
(* audiod.                                                                 *)

Register == [register |-> TRUE, set |-> Default]
SetTo(v) == [register |-> FALSE, set |-> v]

\* IPC_Socket::send of a note: lost when the socket is full, perhaps after the
\* header has gone.
Send(c, cut) ==
  IF Len(down[c]) < MaxQueue THEN Append(down[c], "note")
  ELSE IF cut /\ Len(down[c]) = MaxQueue THEN Append(down[c], "half")
  ELSE down[c]

\* sendChangeNotification to those in who.
Notify(who) ==
  \E cut \in SUBSET who :
    /\ down' = [c \in Clients |-> IF c \in who THEN Send(c, c \in cut) ELSE down[c]]
    /\ missed' = [c \in Clients |-> IF c \in who THEN Len(down[c]) >= MaxQueue
                                    ELSE missed[c]]

\* doSet: clients that are to be notified are, if there is a change.
DoSet(v) ==
  IF v # value \/ command
  THEN value' = v /\ Notify({c \in Clients : server[c] = "open" /\ property[c]})
  ELSE UNCHANGED <<value, down, missed>>

\* requestReceived from a client: a set without an own behaviour.
RequestReceived(v) == DoSet(v)

\* A component of audiod sets the property.
ServerSets(v) ==
  /\ running
  /\ DoSet(v)
  /\ UNCHANGED <<command, running, server, property, conn, listener, up, heard>>

\* listenCallback: a Client that is to be notified of nothing yet.
Accept(c) ==
  /\ running
  /\ server[c] = "backlog"
  /\ server' = [server EXCEPT ![c] = "open"]
  /\ property' = [property EXCEPT ![c] = FALSE]
  /\ UNCHANGED <<command, running, value, conn, listener, up, down, heard, missed>>

\* Mutant: registration sets off no note.
MutNoFirstNote(c, m) ==
  IF m.register
  THEN property' = [property EXCEPT ![c] = TRUE] /\ UNCHANGED <<value, down, missed>>
  ELSE DoSet(m.set) /\ UNCHANGED property

\* Client::dataReceived
DataReceived(c, m) ==
  IF m.register
  THEN /\ property' = [property EXCEPT ![c] = TRUE]
       /\ IF command THEN UNCHANGED <<down, missed>>
          ELSE Notify(IF server[c] = "open" THEN {c} ELSE {})
       /\ UNCHANGED value
  ELSE RequestReceived(m.set) /\ UNCHANGED property

\* connectionCallback, data.
ServerReceives(c) ==
  /\ running
  /\ server[c] = "open"
  /\ up[c] # <<>>
  /\ up' = [up EXCEPT ![c] = Tail(@)]
  /\ DataReceived(c, Head(up[c]))
  /\ UNCHANGED <<command, running, server, conn, listener, heard>>

\* socketClosed: the client is forgotten, and what it is to be notified of.
SocketClosed(c) ==
  /\ server' = [server EXCEPT ![c] = "none"]
  /\ property' = [property EXCEPT ![c] = FALSE]

\* connectionCallback, the client has hung up: one message is still read, the
\* others are lost with the connection.
ServerHangUp(c) ==
  /\ running
  /\ server[c] = "closing"
  /\ up' = [up EXCEPT ![c] = <<>>]
  /\ IF up[c] # <<>> /\ ~Head(up[c]).register
     THEN RequestReceived(Head(up[c]).set) ELSE UNCHANGED <<value, down, missed>>
  /\ SocketClosed(c)
  /\ UNCHANGED <<command, running, conn, listener, heard>>

\* The process ends; what it has sent can still be read.
ServerDies ==
  /\ running
  /\ running' = FALSE
  /\ server' = [c \in Clients |-> "none"]
  /\ property' = [c \in Clients |-> FALSE]
  /\ up' = [c \in Clients |-> <<>>]
  /\ UNCHANGED <<command, value, conn, listener, down, heard, missed>>

\* createSharedProperties: the memory is opened and constructed in place, under
\* the eyes of the clients that have mapped it, then audiod listens.
ServerStarts ==
  /\ ~running
  /\ running' = TRUE
  /\ value' = Default
  /\ UNCHANGED <<command, property, listener, socketVars, heard, missed>>

-----------------------------------------------------------------------------
(* Clients.                                                                *)

\* Mutant: a client registers with its first listener only.
MutRegisteredOnce(c) == <<>>

\* attachSharedMemory, onConnectedClient: what the new connection carries first.
AttachSharedMemory(c) == IF listener[c] THEN <<Register>> ELSE <<>>

\* tryToConnectOnce, when audiod listens; audiod has not accepted it yet.
TryToConnectOnce(c) ==
  /\ running
  /\ server[c] = "none"
  /\ conn' = [conn EXCEPT ![c] = "up"]
  /\ server' = [server EXCEPT ![c] = "backlog"]
  /\ up' = [up EXCEPT ![c] = AttachSharedMemory(c)]
  /\ down' = [down EXCEPT ![c] = <<>>]
  /\ missed' = [missed EXCEPT ![c] = FALSE]

\* tryAndRetryToConnect; an attempt that fails is repeated by its timer.
Connect(c) ==
  /\ conn[c] = "retry"
  /\ TryToConnectOnce(c)
  /\ UNCHANGED <<command, running, value, property, listener, heard>>

Connected(c) == conn[c] = "up" /\ server[c] \in {"backlog", "open"}

\* sendChanges: the first listener registers, if the client is connected.
SendChanges(c) ==
  /\ ~listener[c]
  /\ listener' = [listener EXCEPT ![c] = TRUE]
  /\ up' = [up EXCEPT ![c] = IF Connected(c) THEN Append(@, Register) ELSE @]
  /\ UNCHANGED <<command, running, value, server, property, conn, down, heard, missed>>

\* IPC_ClientProperty::set
ClientSets(c, v) ==
  /\ Connected(c)
  /\ Len(up[c]) < MaxUp
  /\ up' = [up EXCEPT ![c] = Append(@, SetTo(v))]
  /\ UNCHANGED <<command, running, value, server, property, conn, listener, down,
                 heard, missed>>

\* changeNotificationReceived, notifyListeners: the value is the present one.
Listen(c) == heard' = [heard EXCEPT ![c] = value]

\* audiod sees the end of the connection when it next looks.
EndSeen(c) == server' = [server EXCEPT ![c] = IF @ = "none" THEN @ ELSE "closing"]

\* shutdown(), on this side without close(), so that no hang-up is seen here and
\* nothing connects again.
Shutdown(c) ==
  /\ conn' = [conn EXCEPT ![c] = "dead"]
  /\ down' = [down EXCEPT ![c] = <<>>]
  /\ EndSeen(c)

\* receiveData.  After a header alone the next header is taken for its payload
\* and the bytes that follow for a header.
ClientReceives(c) ==
  /\ conn[c] = "up"
  /\ down[c] # <<>>
  /\ IF Head(down[c]) = "note"
     THEN /\ Listen(c)
          /\ down' = [down EXCEPT ![c] = Tail(@)]
          /\ UNCHANGED <<conn, server>>
     ELSE /\ Len(down[c]) > 1
          /\ Shutdown(c)
          /\ UNCHANGED heard
  /\ UNCHANGED <<command, running, value, property, listener, up, missed>>

\* statusCallback, audiod has hung up: one note is still read.
ClientHangUp(c) ==
  /\ conn[c] = "up"
  /\ server[c] = "none"
  /\ conn' = [conn EXCEPT ![c] = "retry"]
  /\ down' = [down EXCEPT ![c] = <<>>]
  /\ IF down[c] # <<>> /\ Head(down[c]) = "note" THEN Listen(c) ELSE UNCHANGED heard
  /\ UNCHANGED <<command, running, value, server, property, listener, up, missed>>

\* The client's process ends and starts again.
ClientDies(c) ==
  /\ conn' = [conn EXCEPT ![c] = "retry"]
  /\ EndSeen(c)
  /\ listener' = [listener EXCEPT ![c] = FALSE]
  /\ heard' = [heard EXCEPT ![c] = Unheard]
  /\ down' = [down EXCEPT ![c] = <<>>]
  /\ UNCHANGED <<command, running, value, property, up, missed>>

-----------------------------------------------------------------------------
ServerStep(c) == Accept(c) \/ ServerReceives(c) \/ ServerHangUp(c)
ClientStep(c) == Connect(c) \/ ClientReceives(c) \/ ClientHangUp(c)

Next ==
  \/ \E c \in Clients : ServerStep(c) \/ ClientStep(c) \/ SendChanges(c) \/ ClientDies(c)
  \/ \E c \in Clients, v \in Values : ClientSets(c, v)
  \/ \E v \in Values : ServerSets(v)
  \/ ServerDies
  \/ ServerStarts

\* The main loops dispatch what has arrived and the timer of a client that is
\* not connected.
Fairness == \A c \in Clients : WF_vars(ServerStep(c)) /\ WF_vars(ClientStep(c))

Spec == Init /\ [][Next]_vars /\ Fairness

-----------------------------------------------------------------------------
(* Properties.                                                             *)

\* A listener of a connected client has been called with the present value, or
\* will be: a note is on its way, or the registration that sets one off; unless
\* the last note was lost.  Commands are not sent on connection and left out.
UnderWay(c) ==
  \/ \E i \in DOMAIN down[c] : down[c][i] = "note"
  \/ \E i \in DOMAIN up[c] : up[c][i].register

HeardOrUnderWay ==
  \A c \in Clients :
    (~command /\ Connected(c) /\ listener[c] /\ ~missed[c]) =>
      heard[c] = value \/ UnderWay(c)

\* The register of a client that listens is with audiod, or will be.
InTouch(c) == server[c] = "open" /\ (listener[c] => property[c])

\* When audiod stays up and the client does not die, the client is connected and
\* registered in the end, or a header without its payload has left it dead.
BackInTouch ==
  \A c \in Clients :
    (<>[]running /\ <>[][~ClientDies(c)]_vars) => <>[](InTouch(c) \/ conn[c] = "dead")
=============================================================================
