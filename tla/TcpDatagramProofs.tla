------------------------- MODULE TcpDatagramProofs -------------------------
(***************************************************************************)
(* Theorems about the TCP datagrams.  The client, for any set of sockets:  *)
(* its types, and that its three threads never make two connections or two *)
(* receive requests.  The server, for any set of clients: its map has no   *)
(* client that is closed, and loses none that is open and nobody's.  The   *)
(* serializer, for any bytes, limits and lengths: it implements the        *)
(* channel of datagrams, and keeps nothing of what it was given in full.   *)
(***************************************************************************)
EXTENDS TcpDatagramClient, TcpDatagramServer, DatagramSerializer, SequenceTheorems, TLAPS

-----------------------------------------------------------------------------
(* The client *)

USE SocketAssumption

(* Closing closes the sockets of S and no other. *)
LEMMA ClosingState ==
  ASSUME TypeOK, NEW S
  PROVE  /\ Closing(S) \in [Sockets -> {"closed", "connecting", "open"}]
         /\ \A s \in Sockets : Closing(S)[s] = IF s \in S THEN "closed" ELSE socket[s]
  BY DEF Closing, TypeOK

(* A client that closes or that waits to connect again leaves no socket    *)
(* behind, if the loop is between two callbacks.                           *)
LEMMA CloseSocketsClosesAll ==
  ASSUME IInv, CloseSockets, ~Connecting
  PROVE  /\ socket' \in [Sockets -> {"closed", "connecting", "open"}]
         /\ \A s \in Sockets : socket'[s] = "closed"
         /\ socketConnect' = NoSocket /\ socketMessage' = NoSocket
  BY ClosingState DEF IInv, Referenced, Live, CloseSockets, TypeOK

(* With no socket but closed ones, the invariant says little. *)
LEMMA NoLive ==
  ASSUME TypeOK', \A s \in Sockets : socket'[s] = "closed",
         timers' <= 1, Failing' => timers' = 0, Connecting' => timers' = 0 /\ ~flagOpened',
         flagOpened' => socketMessage' = NoSocket
  PROVE  IInv'
  BY DEF IInv, OneConnection, OneReceive, Referenced, Requests, Live

LEMMA ErrorInv ==
  ASSUME IInv, NEW s \in Sockets, io = Idle, OnMessageError(s),
         receiving' \in [Sockets -> Nat], \A t \in Sockets : receiving'[t] <= receiving[t],
         sending' \subseteq Sockets, partial' \in Sockets \cup {Empty, Stale},
         UNCHANGED <<flagAutoReconnect, mixed>>,
         \/ io' = Idle
         \/ io' = In("receive", s) /\ receiving[s] > 0 /\ receiving'[s] = receiving[s] - 1
  PROVE  IInv'
<1> USE DEF IInv
<1>0. ~Connecting /\ ~Failing /\ ~Connecting' /\ ~Failing'
  BY DEF Connecting, Failing, Idle, In
<1>t. io' = Idle \/ io' \in [at : {"receive"}, socket : Sockets]
  BY DEF In
<1>1. CASE UNCHANGED references
  <2>1. TypeOK'
    BY <1>1, <1>t DEF references, TypeOK
  <2>2. OneConnection' /\ Referenced'
    BY <1>0, <1>1 DEF references, OneConnection, Referenced, Live
  <2>3. OneReceive' /\ Requests'
    <3>1. \A t \in Sockets : receiving[t] \in Nat /\ receiving'[t] \in Nat
      BY DEF TypeOK
    <3>2. \A t \in Sockets : receiving[t] = 0 => receiving'[t] = 0
      BY <3>1
    <3>3. OneReceive'
      BY <1>1, <3>1 DEF references, OneReceive
    <3>4. ASSUME NEW t \in Sockets, socket[t] = "open", io'.at = "receive"
          PROVE  receiving'[t] = 0
      <4>1. receiving[s] > 0 /\ receiving'[s] = receiving[s] - 1
        BY <3>4 DEF Idle
      <4>2. CASE t = s
        BY <3>1, <3>4, <4>1, <4>2 DEF OneReceive
      <4>3. CASE t # s
        <5>1. socket[s] = "closed"
          BY <3>4, <4>3 DEF OneConnection, Live
        <5> QED BY <3>4, <4>1, <5>1 DEF Requests
      <4> QED BY <4>2, <4>3
    <3> QED BY <1>0, <1>1, <3>2, <3>3, <3>4 DEF references, Requests
  <2> QED BY <2>1, <2>2, <2>3
<1>2. CASE socketMessage = s /\ flagOpened /\ CloseSockets /\ timers' \in {timers, timers + 1}
  <2>1. socket[s] = "open" /\ timers = 0
    BY <1>2 DEF Referenced, OneConnection, Live
  <2>2. /\ socket' \in [Sockets -> {"closed", "connecting", "open"}]
        /\ \A t \in Sockets : socket'[t] = "closed"
        /\ socketConnect' = NoSocket /\ socketMessage' = NoSocket
    BY <1>0, <1>2, CloseSocketsClosesAll
  <2>3. flagOpened' \in BOOLEAN
    BY <1>1, <1>2 DEF OnMessageError, CloseClient, Reconnect, TypeOK, references
  <2>4. TypeOK'
    BY <1>2, <1>t, <2>1, <2>2, <2>3 DEF TypeOK
  <2> QED BY <1>0, <1>2, <2>1, <2>2, <2>4, NoLive
<1> QED BY <1>1, <1>2 DEF OnMessageError, CloseClient, Reconnect

LEMMA InitInv == Init => IInv
<1> SUFFICES ASSUME Init PROVE IInv
  OBVIOUS
<1>1. TypeOK
  BY DEF Init, TypeOK, Idle
<1>2. io.at = "idle" /\ Live = {} /\ \A s \in Sockets : socket[s] = "closed"
  BY DEF Init, Idle, Live
<1> QED BY <1>1, <1>2 DEF Init, IInv, OneConnection, OneReceive, Referenced, Requests, Failing,
                          Connecting

(* A socket is created only when every other one is closed. *)
LEMMA CreateInv ==
  ASSUME IInv, NEW pending, pending = 0,
         \A s \in Sockets : socket[s] = "closed", ~Connecting, ~Failing,
         CreateSocket(pending) \/ CreateFails(pending),
         UNCHANGED <<flagAutoReconnect, requests, io>>
  PROVE  IInv'
<1> USE DEF IInv, requests
<1>0. ~Connecting' /\ ~Failing'
  BY DEF Connecting, Failing
<1>1. CASE CreateSocket(pending)
  <2>1. PICK s \in Sockets :
          /\ Free(s)
          /\ socket' = [Closing({socketMessage}) EXCEPT ![s] = "connecting"]
          /\ socketConnect' = s /\ socketMessage' = NoSocket
          /\ timers' = pending
          /\ partial' = IF partial = s THEN Stale ELSE partial
          /\ UNCHANGED <<flagOpened, mixed>>
    BY <1>1 DEF CreateSocket
  <2>2. /\ socket' \in [Sockets -> {"closed", "connecting", "open"}]
        /\ \A t \in Sockets : socket'[t] = IF t = s THEN "connecting" ELSE "closed"
    BY <2>1, ClosingState
  <2>3. TypeOK'
    BY <2>1, <2>2 DEF TypeOK
  <2>4. OneConnection' /\ Referenced'
    BY <1>0, <1>1, <2>1, <2>2 DEF OneConnection, Referenced, Live
  <2>5. OneReceive' /\ Requests'
    BY <2>1, <2>2 DEF OneReceive, Requests, Free
  <2> QED BY <2>3, <2>4, <2>5
<1>2. CASE CreateFails(pending)
  <2>1. /\ socket' \in [Sockets -> {"closed", "connecting", "open"}]
        /\ \A t \in Sockets : socket'[t] = "closed"
        /\ timers' \in {0, 1}
    BY <1>2, ClosingState DEF CreateFails
  <2>2. TypeOK'
    BY <1>2, <2>1 DEF CreateFails, serializer, TypeOK
  <2> QED BY <1>0, <1>2, <2>1, <2>2, NoLive DEF CreateFails
<1> QED BY <1>1, <1>2

(* The steps of the loop in onConnect. *)
LEMMA CallbackInv ==
  ASSUME IInv, Callback
  PROVE  IInv'
<1> USE DEF IInv
<1>1. CASE Forget
  <2>1. io.socket \in Sockets /\ io'.socket = io.socket
    BY <1>1 DEF Forget, TypeOK, Idle, In
  <2>2. TypeOK'
    BY <1>1, <2>1 DEF Forget, TypeOK, requests, serializer, In
  <2>3. CASE io.at = "onConnect"
    <3>1. io'.at = "assign"
      BY <1>1, <2>3 DEF Forget, In
    <3>2. OneConnection'
      BY <1>1, <2>3, <3>1 DEF Forget, OneConnection, Live, Failing
    <3>3. Referenced'
      BY <1>1, <2>1, <2>3, <3>1 DEF Forget, OneConnection, Referenced, Live, Connecting
    <3>4. OneReceive' /\ Requests'
      BY <1>1, <2>3, <3>1 DEF Forget, OneReceive, Requests, Connecting, requests
    <3> QED BY <2>2, <3>2, <3>3, <3>4
  <2>4. CASE io.at = "onConnectError"
    <3>1. io'.at = "failed"
      BY <1>1, <2>4 DEF Forget, In
    <3>2. timers = 0 /\ \A s \in Sockets : socket[s] = "closed"
      BY <2>4 DEF OneConnection, Live, Failing
    <3>3. flagOpened => socketMessage = NoSocket
      BY <3>2 DEF Referenced, TypeOK
    <3> QED BY <1>1, <2>2, <3>1, <3>2, <3>3, NoLive DEF Forget, Connecting
  <2> QED BY <1>1, <2>3, <2>4 DEF Forget
<1>2. CASE Assign
  <2>1. io.socket \in Sockets /\ io'.socket = io.socket /\ io'.at = "receive" /\ io.at = "assign"
    BY <1>2 DEF Assign, TypeOK, Idle, In
  <2>2. TypeOK'
    BY <1>2, <2>1 DEF Assign, TypeOK, requests, serializer, In
  <2>3. OneConnection'
    BY <1>2, <2>1 DEF Assign, OneConnection, Live, Failing
  <2>4. Referenced'
    BY <1>2, <2>1 DEF Assign, OneConnection, Referenced, Live, Connecting
  <2>5. OneReceive' /\ Requests'
    BY <1>2, <2>1 DEF Assign, OneReceive, Requests, Connecting, requests
  <2> QED BY <2>2, <2>3, <2>4, <2>5
<1>3. CASE PostReceive
  <2>1. io.at = "receive" /\ io' = Idle /\ io'.at = "idle"
    BY <1>3 DEF PostReceive, Idle
  <2>2. \A s \in Sockets :
          /\ receiving[s] \in Nat
          /\ receiving'[s] = IF s = socketMessage /\ socket[s] = "open" THEN receiving[s] + 1
                             ELSE receiving[s]
    BY <1>3 DEF PostReceive, TypeOK
  <2>3. TypeOK'
    <3>1. receiving' \in [Sockets -> Nat]
      BY <1>3 DEF PostReceive, TypeOK
    <3> QED BY <1>3, <3>1 DEF PostReceive, TypeOK, references, serializer
  <2>4. OneConnection' /\ Referenced'
    BY <1>3, <2>1 DEF PostReceive, OneConnection, Referenced, Live, Failing, Connecting, references
  <2>5. OneReceive' /\ Requests'
    BY <1>3, <2>1, <2>2 DEF PostReceive, OneReceive, Requests, Connecting, references
  <2> QED BY <2>3, <2>4, <2>5
<1>4. CASE ConnectFailed
  <2>1. /\ timers = 0 /\ \A s \in Sockets : socket[s] = "closed"
        /\ flagOpened => socketMessage = NoSocket
    BY <1>4 DEF ConnectFailed, OneConnection, Live, Failing, Referenced, TypeOK
  <2>2. io' = Idle /\ ~Connecting' /\ ~Failing'
    BY <1>4 DEF ConnectFailed, Connecting, Failing, Idle
  <2>3. CASE flagAutoReconnect /\ flagOpened /\ CloseSockets /\ timers' = timers + 1 /\ UNCHANGED flagOpened
    <3>1. /\ socket' \in [Sockets -> {"closed", "connecting", "open"}]
          /\ \A t \in Sockets : socket'[t] = "closed"
          /\ socketConnect' = NoSocket /\ socketMessage' = NoSocket
      BY <2>1, <2>3, ClosingState DEF CloseSockets
    <3>2. TypeOK'
      BY <1>4, <2>1, <2>2, <2>3, <3>1 DEF ConnectFailed, TypeOK, requests, serializer
    <3> QED BY <2>1, <2>2, <2>3, <3>1, <3>2, NoLive
  <2>4. CASE UNCHANGED references
    <3>1. TypeOK'
      BY <1>4, <2>2, <2>4 DEF ConnectFailed, TypeOK, references, requests, serializer
    <3> QED BY <2>1, <2>2, <2>4, <3>1, NoLive DEF references
  <2> QED BY <1>4, <2>3, <2>4 DEF ConnectFailed, Reconnect
<1> QED BY <1>1, <1>2, <1>3, <1>4 DEF Callback

(* What the loop calls back when it is between two callbacks. *)
LEMMA EventInv ==
  ASSUME IInv, NEW s \in Sockets, Event(s)
  PROVE  IInv'
<1> USE DEF IInv
<1>1. CASE Connected(s)
  <2>1. /\ socket[s] = "connecting" /\ io = Idle
        /\ \A t \in Sockets : socket[t] = "closed" => receiving[t] = 0
        /\ io' = In("onConnect", s)
        /\ socket' \in [Sockets -> {"closed", "connecting", "open"}]
        /\ \A t \in Sockets : socket'[t] = IF t = s THEN "open" ELSE socket[t]
    BY <1>1 DEF Connected, Answered, TypeOK
  <2>2. /\ io'.at = "onConnect" /\ io'.socket = s /\ ~Failing' /\ timers = 0
        /\ \A t \in Sockets : t # s => socket[t] = "closed"
    BY <2>1 DEF In, Failing, OneConnection, Live
  <2>3. TypeOK'
    BY <1>1, <2>1 DEF Connected, TypeOK, requests, serializer, In
  <2>4. OneConnection' /\ Referenced'
    BY <1>1, <2>1, <2>2 DEF Connected, OneConnection, Referenced, Live, Connecting
  <2>5. OneReceive' /\ Requests'
    BY <1>1, <2>1, <2>2 DEF Connected, OneReceive, Requests, requests
  <2> QED BY <2>3, <2>4, <2>5
<1>2. CASE Refused(s)
  <2>1. /\ socket[s] = "connecting"
        /\ io'.at = "onConnectError" /\ io' = In("onConnectError", s)
        /\ socket' \in [Sockets -> {"closed", "connecting", "open"}]
        /\ \A t \in Sockets : socket'[t] = IF t = s THEN "closed" ELSE socket[t]
    BY <1>2 DEF Refused, Answered, TypeOK, In
  <2>2. timers = 0 /\ \A t \in Sockets : socket'[t] = "closed"
    BY <2>1 DEF OneConnection, Live
  <2>3. flagOpened => socketMessage = NoSocket
    BY <2>1 DEF OneConnection, Referenced, Live, TypeOK
  <2>4. TypeOK'
    BY <1>2, <2>1 DEF Refused, TypeOK, requests, serializer, In
  <2> QED BY <1>2, <2>1, <2>2, <2>3, <2>4, NoLive DEF Refused, Connecting
<1>3. CASE ReceiveError(s)
  BY <1>3, ErrorInv DEF ReceiveError, serializer, TypeOK
<1>4. CASE ReceiveGarbage(s)
  BY <1>4, ErrorInv DEF ReceiveGarbage, TypeOK
<1>5. CASE SendError(s)
  BY <1>5, ErrorInv DEF SendError, serializer, TypeOK
<1>6. CASE SendDone(s)
  BY <1>6 DEF SendDone, references, serializer, TypeOK, OneConnection, OneReceive, Referenced,
              Requests, Live, Failing, Connecting
<1>7. CASE ReceiveData(s)
  <2>1. /\ io = Idle /\ io' = In("receive", s) /\ receiving[s] > 0
        /\ receiving' \in [Sockets -> Nat]
        /\ \A t \in Sockets : receiving'[t] = IF t = s THEN receiving[s] - 1 ELSE receiving[t]
    BY <1>7 DEF ReceiveData, TypeOK
  <2>2. TypeOK'
    BY <1>7, <2>1 DEF ReceiveData, Parse, TypeOK, references, In
  <2>3. OneConnection' /\ Referenced'
    BY <1>7, <2>1 DEF ReceiveData, references, OneConnection, Referenced, Live, Failing, Connecting,
                      Idle, In
  <2>4. \A t \in Sockets : socket[t] = "open" => t = s /\ receiving'[t] = 0
    BY <2>1 DEF OneConnection, OneReceive, Requests, Live, TypeOK
  <2>5. \A t \in Sockets : receiving[t] = 0 => receiving'[t] = 0
    BY <2>1 DEF TypeOK
  <2>6. OneReceive' /\ Requests'
    BY <1>7, <2>1, <2>4, <2>5 DEF ReceiveData, references, OneReceive, Requests
  <2> QED BY <2>2, <2>3, <2>6
<1> QED BY <1>1, <1>2, <1>3, <1>4, <1>5, <1>6, <1>7 DEF Event

LEMMA StepInv == IInv /\ [Next]_vars => IInv'
<1> SUFFICES ASSUME IInv, [Next]_vars PROVE IInv'
  OBVIOUS
<1> USE DEF IInv
<1>1. CASE Connect
  <2>1. ~Connecting /\ ~Failing
    BY <1>1 DEF Connect, Connecting, Failing, Idle
  <2>2. \A s \in Sockets : socket[s] = "closed"
    BY <1>1, <2>1 DEF Connect, Referenced, Live
  <2> QED BY <1>1, <2>1, <2>2, CreateInv DEF Connect
<1>2. CASE TimerConnects \/ TimerFails
  <2>1. timers = 1
    BY <1>2 DEF TimerConnects, TimerFails, OneConnection, TypeOK
  <2>2. ~Connecting /\ ~Failing /\ \A s \in Sockets : socket[s] = "closed"
    BY <2>1 DEF OneConnection, Referenced, Live
  <2>3. timers - 1 = 0
    BY <2>1
  <2> QED BY <1>2, <2>2, <2>3, CreateInv DEF TimerConnects, TimerFails
<1>3. CASE TimerAfterClose
  BY <1>3 DEF TimerAfterClose, TypeOK, OneConnection, OneReceive, Referenced, Requests, Live,
              Failing, Connecting, requests, serializer
<1>4. CASE Close
  <2>1. /\ flagOpened' = FALSE /\ socketConnect' = NoSocket /\ socketMessage' = NoSocket
        /\ UNCHANGED <<timers, flagAutoReconnect, io, receiving, sending, partial, mixed>>
        /\ socket' = Closing({socketConnect, socketMessage})
    BY <1>4 DEF Close, CloseClient, CloseSockets, requests, serializer
  <2>2. /\ socket' \in [Sockets -> {"closed", "connecting", "open"}]
        /\ \A s \in Sockets :
             socket'[s] = IF s \in {socketConnect, socketMessage} THEN "closed" ELSE socket[s]
    BY <2>1, ClosingState
  <2>3. TypeOK'
    BY <2>1, <2>2 DEF TypeOK
  <2>4. CASE \E s \in Sockets : socket'[s] # "closed"
    <3>1. PICK s \in Sockets : socket'[s] # "closed"
      BY <2>4
    <3>2. s \in Live /\ s \notin {socketConnect, socketMessage} /\ socket'[s] = socket[s]
      BY <2>2, <3>1 DEF Live
    <3>3. Connecting /\ io.socket = s
      BY <3>2 DEF Referenced
    <3>4. \A t \in Sockets : t # s => socket[t] = "closed" /\ socket'[t] = "closed"
      BY <2>2, <3>2 DEF OneConnection, Live
    <3>5. \A t \in Sockets : socket'[t] = socket[t]
      BY <3>2, <3>4
    <3> QED BY <2>1, <2>3, <3>2, <3>3, <3>4, <3>5
            DEF OneConnection, OneReceive, Referenced, Requests, Live, Failing, Connecting
  <2>5. CASE \A s \in Sockets : socket'[s] = "closed"
    <3>1. timers' <= 1 /\ (Failing' => timers' = 0) /\ (Connecting' => timers' = 0)
      BY <2>1 DEF OneConnection, Referenced, Failing, Connecting
    <3> QED BY <2>1, <2>3, <2>5, <3>1, NoLive
  <2> QED BY <2>4, <2>5
<1>5. CASE Send
  BY <1>5 DEF Send, references, serializer, TypeOK, OneConnection, OneReceive, Referenced,
              Requests, Live, Failing, Connecting
<1>6. CASE UNCHANGED vars
  BY <1>6 DEF vars, references, requests, serializer, TypeOK, OneConnection, OneReceive,
              Referenced, Requests, Live, Failing, Connecting
<1> QED BY <1>1, <1>2, <1>3, <1>4, <1>5, <1>6, CallbackInv, EventInv DEF Next

LEMMA Inductive == Spec => []IInv
<1> QED BY InitInv, StepInv, PTL DEF Spec

(* A socket is closed, connecting or open, a client refers to sockets or   *)
(* none, and the loop is in one of the callbacks, on a socket.             *)
THEOREM TypeCorrect == Spec => []TypeOK
<1>1. IInv => TypeOK
  BY DEF IInv
<1> QED BY <1>1, Inductive, PTL

(* However errors, timeouts, calls of the application and the unlocked     *)
(* writes of onConnect interleave, a client never has two connections, nor *)
(* a connection and a timer that will make another one.                    *)
THEOREM NeverTwoConnections == Spec => []OneConnection
<1>1. IInv => OneConnection
  BY DEF IInv
<1> QED BY <1>1, Inductive, PTL

(* Two requests never write into the one receive buffer at a time.         *)
THEOREM NeverTwoReceives == Spec => []OneReceive
<1>1. IInv => OneReceive
  BY DEF IInv
<1> QED BY <1>1, Inductive, PTL

-----------------------------------------------------------------------------
(* The server *)

ServerTypeOK ==
  /\ clients \subseteq Clients /\ held \subseteq Clients
  /\ state \in [Clients -> {"none", "open", "closed"}]
  /\ accepting \in [client : Clients \cup {NoClient},
                    next : {"none", "put", "connect", "end"}]

(* A client that onAccept is about to put in the map is open, as nobody has *)
(* had it yet who might close it.                                           *)
AcceptedIsOpen ==
  accepting.next = "put" =>
    /\ accepting.client \in Clients \ held
    /\ state[accepting.client] = "open"

(* Who is held was accepted once; so no client is accepted that is held.    *)
HeldWereAccepted ==
  /\ \A c \in held : state[c] # "none"
  /\ accepting.next # "none" =>
       accepting.client \in Clients /\ state[accepting.client] # "none"

(* Nothing stands for a client between two onAccept.                        *)
IdleOwnsNothing ==
  accepting.next = "none" =>
    /\ accepting.client = NoClient
    /\ \A c \in Clients : state[c] = "open" => c \in clients \cup held

ServerInv == IdleOwnsNothing /\ ServerTypeOK /\ AcceptedIsOpen /\ HeldWereAccepted /\ ClientsAreOpen

(* What Destroy leaves: the open clients that are referred to.              *)
LEMMA DestroyFacts ==
  ASSUME NEW named, ServerTypeOK
  PROVE  /\ Destroy(named) \in [Clients -> {"none", "open", "closed"}]
         /\ \A c \in Clients :
              /\ Destroy(named)[c] = "none" <=> state[c] = "none"
              /\ Destroy(named)[c] = "open" <=>
                   state[c] = "open" /\ c \in named
  BY DEF Destroy, ServerTypeOK

(* The server starts with no clients.                                       *)
LEMMA ServerInitInv == ServerInit => ServerInv
  BY DEF ServerInit, ServerInv, ServerTypeOK, AcceptedIsOpen, HeldWereAccepted,
         IdleOwnsNothing, ClientsAreOpen, NoAccept

(* Every step keeps the invariant, when what stands for no client is none.   *)
LEMMA ServerStepInv ==
  ASSUME NoClient \notin Clients, ServerInv, [ServerNext]_serverVars
  PROVE  ServerInv'
<1> USE DEF ServerInv, ServerTypeOK, AcceptedIsOpen, HeldWereAccepted,
                IdleOwnsNothing, ClientsAreOpen, NoAccept
<1>1. CASE Start
  BY <1>1 DEF Start
<1>2. CASE PutClient
  BY <1>2 DEF PutClient
<1>3. CASE AcceptEnds
  <2>1. state' = Destroy(clients \cup held) /\ accepting' = NoAccept
    BY <1>3 DEF AcceptEnds
  <2>2. UNCHANGED <<clients, held>>
    BY <1>3 DEF AcceptEnds
  <2> HIDE DEF NoAccept
  <2>3. /\ accepting'.client = NoClient /\ accepting'.next = "none"
        /\ accepting' \in [client : Clients \cup {NoClient},
                           next : {"none", "put", "connect", "end"}]
    BY <2>1 DEF NoAccept
  <2>4. /\ state' \in [Clients -> {"none", "open", "closed"}]
        /\ \A c \in Clients :
             /\ state'[c] = "none" <=> state[c] = "none"
             /\ state'[c] = "open" <=> state[c] = "open" /\ c \in clients \cup held
    BY <2>1, DestroyFacts
  <2>5. ServerTypeOK' /\ AcceptedIsOpen'
    BY <2>2, <2>3, <2>4
  <2>6. HeldWereAccepted'
    BY <2>2, <2>3, <2>4
  <2>7. IdleOwnsNothing' /\ ClientsAreOpen'
    BY <2>2, <2>3, <2>4
  <2> QED BY <2>5, <2>6, <2>7
<1>4. CASE CloseClients
  <2>1. /\ state' = Destroy(held \cup {accepting.client})
        /\ clients' = {} /\ UNCHANGED <<held, accepting>>
    BY <1>4 DEF CloseClients
  <2> QED BY <2>1, DestroyFacts
<1>5. CASE CloseServer
  BY <1>5 DEF CloseServer
<1>6. ASSUME NEW keeps \in BOOLEAN, OnConnect(keeps) PROVE ServerInv'
  BY <1>6 DEF OnConnect
<1>7. ASSUME NEW c \in Clients, Accept(c) PROVE ServerInv'
  <2>1. /\ accepting' = [client |-> c, next |-> "put"]
        /\ state[c] = "none" /\ accepting = NoAccept
        /\ state' = [state EXCEPT ![c] = "open"]
        /\ UNCHANGED <<clients, held>>
    BY <1>7 DEF Accept
  <2>2. c \notin clients \cup held
    BY <2>1
  <2>3. /\ state' \in [Clients -> {"none", "open", "closed"}]
        /\ \A d \in Clients : state'[d] = IF d = c THEN "open" ELSE state[d]
    BY <2>1
  <2>4. ServerTypeOK'
    BY <2>1, <2>3
  <2>5. IdleOwnsNothing' /\ AcceptedIsOpen' /\ HeldWereAccepted'
    BY <2>1, <2>2, <2>3
  <2>6. ClientsAreOpen'
    BY <2>1, <2>2, <2>3
  <2> QED BY <2>4, <2>5, <2>6
<1>8. ASSUME NEW c \in Clients, CloseAccepted(c) PROVE ServerInv'
  <2>1. ~(accepting.next = "put" /\ c = accepting.client)
    BY <1>8 DEF CloseAccepted
  <2> QED BY <1>8, <2>1 DEF CloseAccepted
<1>9. ASSUME NEW c \in Clients, LetGo(c) PROVE ServerInv'
  <2>1. /\ held' = held \ {c}
        /\ state' = Destroy(clients \cup held' \cup {accepting.client})
        /\ UNCHANGED <<clients, accepting>>
    BY <1>9 DEF LetGo
  <2>2. /\ state' \in [Clients -> {"none", "open", "closed"}]
        /\ \A d \in Clients :
             /\ state'[d] = "none" <=> state[d] = "none"
             /\ state'[d] = "open" <=>
                  state[d] = "open" /\ d \in clients \cup held' \cup {accepting.client}
    BY <2>1, DestroyFacts
  <2>3. held' \subseteq held
    BY <1>9 DEF LetGo
  <2>4. ServerTypeOK' /\ HeldWereAccepted' /\ AcceptedIsOpen'
    BY <2>1, <2>2, <2>3
  <2>5. IdleOwnsNothing'
    BY <2>1, <2>2, <2>3
  <2>6. ClientsAreOpen'
    BY <2>1, <2>2, <2>3
  <2> QED BY <2>4, <2>5, <2>6
<1>10. CASE UNCHANGED serverVars
  BY <1>10 DEF serverVars
<1> QED BY <1>1, <1>2, <1>3, <1>4, <1>5, <1>6, <1>7, <1>8, <1>9, <1>10 DEF ServerNext

(* Whatever connections are accepted, dropped and closed, and however close *)
(* of the server comes between, a client of the map is open, and an open    *)
(* client is in the map, or held by onAccept or by the application.         *)
THEOREM ServerKeepsOpenClients ==
  ASSUME NoClient \notin Clients
  PROVE  ServerSpec => []ClientsAreOpen
<1>1. ServerInit => ServerInv
  BY ServerInitInv
<1>2. ServerInv /\ [ServerNext]_serverVars => ServerInv'
  BY ServerStepInv
<1>3. ServerInv => ClientsAreOpen
  BY DEF ServerInv
<1> QED BY <1>1, <1>2, <1>3, PTL DEF ServerSpec

-----------------------------------------------------------------------------
(* The serializer *)

(* What the receiver has not parsed, as if no byte was lost: rest[k] is    *)
(* what follows the k-th datagram in the stream of the sender.             *)
Framed(rest) ==
  /\ rest \in [0 .. Len(sent) -> Seq(Byte)]
  /\ rest[Len(sent)] = <<>>
  /\ \A k \in 1 .. Len(sent) :
       rest[k - 1] = WriteLength(Len(sent[k])) \o (sent[k] \o rest[k])

Parsed == Len(received) + Len(datagrams)

(* The datagrams parsed are the first that were sent.                      *)
InOrderInv ==
  /\ Parsed <= Len(sent)
  /\ \A i \in 1 .. Len(received) : received[i] = sent[i]
  /\ \A i \in 1 .. Len(datagrams) : datagrams[i] = sent[Len(received) + i]

(* What is kept of the current datagram, what is left of the piece and     *)
(* what was not given yet are the rest of the sender's stream.             *)
HeldInv(rest) ==
  ~failed =>
    /\ lenCurrentDatagram = 0 =>
         /\ buf = <<>> /\ Len(bufSize) < LengthSize
         /\ bufSize \o (data \o stream) = rest[Parsed]
    /\ lenCurrentDatagram # 0 =>
         /\ Parsed < Len(sent)
         /\ bufSize = <<>>
         /\ lenCurrentDatagram = Len(sent[Parsed + 1])
         /\ Len(buf) < lenCurrentDatagram
         /\ buf \o (data \o stream) = sent[Parsed + 1] \o rest[Parsed + 1]

SerializerTypeInv ==
  /\ sent \in Seq(Seq(Byte)) /\ received \in Seq(Seq(Byte)) /\ datagrams \in Seq(Seq(Byte))
  /\ stream \in Seq(Byte) /\ data \in Seq(Byte)
  /\ bufSize \in Seq(Byte) /\ buf \in Seq(Byte)
  /\ lenCurrentDatagram \in Nat
  /\ parsing \in BOOLEAN /\ failed \in BOOLEAN
  /\ \A i \in 1 .. Len(sent) : Len(sent[i]) \in 1 .. MaxLength

ParsingInv ==
  /\ ~parsing => data = <<>> /\ datagrams = <<>>
  /\ failed =>
       /\ ~parsing
       /\ \E i \in 1 .. Len(sent) : ~Allowed(Len(sent[i]), ReceiverMax)

SerializerInv ==
  /\ SerializerTypeInv
  /\ ParsingInv
  /\ InOrderInv
  /\ \E rest : Framed(rest) /\ HeldInv(rest)

(* A length is read as it was written.                                     *)
LEMMA DivMod ==
  \A n \in Nat, w \in Nat \ {0} :
    /\ n \div w \in Nat /\ n % w \in 0 .. w - 1
    /\ n = w * (n \div w) + (n % w)
  OBVIOUS

LEMMA LessFactor ==
  \A b \in Nat \ {0} : \A x, y \in Nat : b * x < b * y => x < y
  OBVIOUS

LEMMA WriteLengthFacts ==
  ASSUME NEW n \in 0 .. MaxLength
  PROVE  /\ WriteLength(n) \in Seq(Byte)
         /\ Len(WriteLength(n)) = LengthSize
         /\ ReadLength(WriteLength(n)) = n
<1> DEFINE n1 == n \div Base
           n2 == n1 \div Base
           n3 == n2 \div Base
<1>0. n \in Nat /\ Base \in Nat \ {0} /\ Base > 1 BY SizeAssumption
<1>1. n1 \in Nat /\ n % Base \in Byte /\ n = Base * n1 + (n % Base)
  BY <1>0, DivMod DEF Byte
<1>2. n2 \in Nat /\ n1 % Base \in Byte /\ n1 = Base * n2 + (n1 % Base)
  BY <1>0, <1>1, DivMod DEF Byte
<1>3. n3 \in Nat /\ n2 % Base \in Byte /\ n2 = Base * n3 + (n2 % Base)
  BY <1>0, <1>2, DivMod DEF Byte
<1>4. WriteLength(n) = <<n % Base, n1 % Base, n2 % Base, n3 % Base>>
  BY DEF WriteLength
<1> HIDE DEF n1, n2, n3
<1>5. /\ Base * n1 <= n
      /\ Base * n2 <= n1
      /\ Base * n3 <= n2
  <2>1. n % Base \in Nat /\ n1 % Base \in Nat /\ n2 % Base \in Nat
    BY <1>0, <1>1, <1>2, <1>3 DEF Byte
  <2>2. Base * n1 \in Nat /\ Base * n2 \in Nat /\ Base * n3 \in Nat
    BY <1>0, <1>1, <1>2, <1>3
  <2> QED BY <2>1, <2>2, <1>1, <1>2, <1>3
<1>6. n3 < Base
  <2> DEFINE B2 == Base * Base
             B3 == Base * B2
  <2>1. B2 \in Nat /\ B3 \in Nat /\ n < Base * B3
    BY <1>0, SizeAssumption
  <2> HIDE DEF B3
  <2>2. n1 < B3
    <3>1. Base * n1 < Base * B3
      BY <2>1, <1>5, <1>1, <1>0
    <3> QED BY <3>1, <2>1, <1>1, <1>0, LessFactor
  <2>2a. n1 < Base * B2
    BY <2>2 DEF B3
  <2>3. n2 < B2
    <3> HIDE DEF B2
    <3>1. Base * n2 < Base * B2
      BY <2>1, <2>2a, <1>5, <1>2, <1>1, <1>0
    <3> QED BY <3>1, <2>1, <1>2, <1>0, LessFactor
  <2>4. Base * n3 < Base * Base
    BY <2>1, <2>3, <1>5, <1>3, <1>2, <1>0 DEF B2
  <2> QED BY <2>4, <1>3, <1>0, LessFactor
<1>7. n3 % Base = n3
  BY <1>6, <1>3, <1>0
<1>8. n3 % Base \in Byte
  BY <1>7, <1>6, <1>3, <1>0 DEF Byte
<1> DEFINE w == WriteLength(n)
<1>9. /\ w[1] = n % Base
      /\ w[2] = n1 % Base
      /\ w[3] = n2 % Base
      /\ w[4] = n3
  BY <1>4, <1>7
<1>10. ReadLength(w) = w[1] + Base * (w[2] + Base * (w[3] + Base * w[4]))
  BY DEF ReadLength
<1>11. w \in Seq(Byte) /\ Len(w) = LengthSize
  BY <1>4, <1>8, <1>1, <1>2, <1>3 DEF LengthSize
<1> HIDE DEF w
<1>12. ReadLength(w) = n
  <2>0. /\ n % Base \in Nat /\ n1 % Base \in Nat /\ n2 % Base \in Nat
        /\ Base * n1 \in Nat /\ Base * n2 \in Nat /\ Base * n3 \in Nat
    BY <1>0, <1>1, <1>2, <1>3 DEF Byte
  <2>1. w[3] + Base * w[4] = n2
    BY <2>0, <1>9, <1>3
  <2>2. w[2] + Base * n2 = n1
    BY <2>0, <1>9, <1>2
  <2>3. w[1] + Base * n1 = n
    BY <2>0, <1>9, <1>1
  <2> QED BY <2>1, <2>2, <2>3, <1>10
<1> QED BY <1>11, <1>12 DEF w

(* Two ways to cut the same sequence at the same place.                    *)
LEMMA CutOnce ==
  ASSUME NEW S, NEW a \in Seq(S), NEW b \in Seq(S), NEW c \in Seq(S), NEW d \in Seq(S),
         a \o b = c \o d, Len(a) = Len(c)
  PROVE  a = c /\ b = d
<1>1. \A i \in 1 .. Len(a) : a[i] = c[i]
  <2> TAKE i \in 1 .. Len(a)
  <2>1. (a \o b)[i] = a[i] /\ (c \o d)[i] = c[i]
    BY ConcatProperties
  <2> QED BY <2>1
<1>2. a = c
  BY <1>1, SeqEqual
<1> QED BY <1>2, ConcatSimplifications

LEMMA JoinBytes ==
  \A s, t \in Seq(Byte) : s \o t \in Seq(Byte) /\ Len(s \o t) = Len(s) + Len(t)
BY ConcatProperties

LEMMA JoinInTurn ==
  ASSUME NEW s \in Seq(Byte), NEW t \in Seq(Byte), NEW u \in Seq(Byte)
  PROVE  (s \o t) \o u = s \o (t \o u)
BY ConcatAssociative

LEMMA JoinNothing == \A s \in Seq(Byte) : s \o <<>> = s /\ <<>> \o s = s
BY ConcatEmptySeq

(* A piece of a sequence and what follows it are the sequence.             *)
LEMMA CutAt ==
  ASSUME NEW S, NEW s \in Seq(S), NEW n \in 0 .. Len(s)
  PROVE  /\ SubSeq(s, 1, n) \in Seq(S) /\ Len(SubSeq(s, 1, n)) = n
         /\ SubSeq(s, n + 1, Len(s)) \in Seq(S)
         /\ SubSeq(s, 1, n) \o SubSeq(s, n + 1, Len(s)) = s
<1>0. Len(s) \in Nat /\ \A i \in 1 .. Len(s) : s[i] \in S
  BY ElementOfSeq, LenProperties
<1>1. SubSeq(s, 1, n) \in Seq(S) /\ Len(SubSeq(s, 1, n)) = n
  BY <1>0, SubSeqProperties
<1>2. SubSeq(s, n + 1, Len(s)) \in Seq(S)
  BY <1>0, SubSeqProperties
<1>3. SubSeq(s, 1, n) \o SubSeq(s, n + 1, Len(s)) = SubSeq(s, 1, Len(s))
  <2>1. /\ 1 \in 1 .. Len(s) + 1 /\ n \in 1 - 1 .. Len(s) /\ Len(s) \in n .. Len(s)
    BY <1>0
  <2> QED BY <2>1, ConcatAdjacentSubSeq
<1> QED BY <1>1, <1>2, <1>3, SubSeqFull

LEMMA SerializerInitInv == SerializerInit => SerializerInv
<1> SUFFICES ASSUME SerializerInit PROVE SerializerInv
  OBVIOUS
<1> USE DEF SerializerInit
<1>1. SerializerTypeInv
  <2>1. <<>> \in Seq(Byte) /\ <<>> \in Seq(Seq(Byte))
    BY EmptySeq
  <2>2. \A i \in 1 .. Len(sent) : Len(sent[i]) \in 1 .. MaxLength
    OBVIOUS
  <2> QED BY <2>1, <2>2 DEF SerializerTypeInv
<1>2. ParsingInv /\ InOrderInv
  BY DEF ParsingInv, InOrderInv, Parsed
<1>3. Framed([k \in 0 .. 0 |-> <<>>])
  BY DEF Framed
<1>4. HeldInv([k \in 0 .. 0 |-> <<>>])
  BY DEF HeldInv, Parsed, LengthSize
<1> QED BY <1>1, <1>2, <1>3, <1>4 DEF SerializerInv
-----------------------------------------------------------------------------
LEMMA ParsedFacts ==
  ASSUME SerializerTypeInv, InOrderInv, NEW rest, Framed(rest)
  PROVE  /\ Len(sent) \in Nat /\ Parsed \in 0 .. Len(sent)
         /\ \A k \in 1 .. Len(sent) : sent[k] \in Seq(Byte) /\ Len(sent[k]) \in 1 .. MaxLength
         /\ \A k \in 0 .. Len(sent) : rest[k] \in Seq(Byte)
         /\ Parsed < Len(sent) =>
              rest[Parsed] = WriteLength(Len(sent[Parsed + 1]))
                               \o (sent[Parsed + 1] \o rest[Parsed + 1])
<1>1. Len(sent) \in Nat /\ Parsed \in 0 .. Len(sent)
  <2>1. Len(sent) \in Nat /\ Len(received) \in Nat /\ Len(datagrams) \in Nat
    BY LenProperties DEF SerializerTypeInv
  <2> QED BY <2>1 DEF InOrderInv, Parsed
<1>2. \A k \in 1 .. Len(sent) : sent[k] \in Seq(Byte) /\ Len(sent[k]) \in 1 .. MaxLength
  BY ElementOfSeq DEF SerializerTypeInv
<1>3. \A k \in 0 .. Len(sent) : rest[k] \in Seq(Byte)
  BY DEF Framed
<1>4. ASSUME Parsed < Len(sent)
      PROVE  rest[Parsed] = WriteLength(Len(sent[Parsed + 1]))
                              \o (sent[Parsed + 1] \o rest[Parsed + 1])
  <2>1. Parsed + 1 \in 1 .. Len(sent) /\ (Parsed + 1) - 1 = Parsed
    BY <1>1, <1>4
  <2> QED BY <2>1 DEF Framed
<1> QED BY <1>1, <1>2, <1>3, <1>4

LEMMA BuildInv ==
  ASSUME SerializerInv, NEW d \in Datagram, Build(d)
  PROVE  SerializerInv'
<1> USE DEF SerializerInv
<1>0. PICK rest : Framed(rest) /\ HeldInv(rest)
  OBVIOUS
<1> DEFINE length == WriteLength(Len(d))
           frame == length \o d
<1>1. d \in Seq(Byte) /\ Len(d) \in 1 .. MaxLength
  <2>1. PICK m \in 0 .. MaxLength : d \in [1 .. m -> Byte]
    BY DEF Datagram, BoundedSeq, SeqOf
  <2>2. m \in Nat /\ d \in Seq(Byte) /\ Len(d) = m
    BY <2>1
  <2>3. Len(d) > 0
    BY DEF Build, Allowed
  <2> QED BY <2>1, <2>2, <2>3
<1>2. length \in Seq(Byte)
  <2>1. Len(d) \in 0 .. MaxLength BY <1>1, SizeAssumption
  <2> QED BY <2>1, WriteLengthFacts
<1>3. frame \in Seq(Byte)
  BY <1>1, <1>2, JoinBytes
<1>4. /\ sent' = Append(sent, d)
      /\ stream' = (stream \o length) \o d
      /\ UNCHANGED <<data, parsing, datagrams, bufSize, lenCurrentDatagram, buf, received, failed>>
  BY DEF Build, parser
<1> HIDE DEF length
<1>5. /\ stream \in Seq(Byte) /\ data \in Seq(Byte)
      /\ bufSize \in Seq(Byte) /\ buf \in Seq(Byte)
      /\ sent \in Seq(Seq(Byte)) /\ Len(sent) \in Nat
  BY LenProperties DEF SerializerTypeInv
<1>6. stream' = stream \o frame
  <2>1. stream \in Seq(Byte)
    BY <1>5
  <2>2. d \in Seq(Byte)
    BY <1>1
  <2>3. (stream \o length) \o d = stream \o (length \o d)
    BY <2>1, <2>2, <1>2, JoinInTurn
  <2> QED BY <2>3, <1>4
<1> HIDE DEF frame
<1>7. /\ sent' \in Seq(Seq(Byte)) /\ Len(sent') = Len(sent) + 1
      /\ \A k \in 1 .. Len(sent) : sent'[k] = sent[k]
      /\ sent'[Len(sent) + 1] = d
  BY <1>1, <1>4, <1>5, AppendProperties
<1>8. /\ Parsed \in 0 .. Len(sent)
      /\ \A k \in 1 .. Len(sent) : sent[k] \in Seq(Byte) /\ Len(sent[k]) \in 1 .. MaxLength
      /\ \A k \in 0 .. Len(sent) : rest[k] \in Seq(Byte)
  BY <1>0, ParsedFacts
<1>9. Parsed' = Parsed
  BY <1>4 DEF Parsed
<1>10. SerializerTypeInv'
  <2>1. \A i \in 1 .. Len(sent') : Len(sent'[i]) \in 1 .. MaxLength
    <3> TAKE i \in 1 .. Len(sent')
    <3>1. CASE i \in 1 .. Len(sent) BY <3>1, <1>7, <1>8
    <3>2. CASE i = Len(sent) + 1 BY <3>2, <1>1, <1>7
    <3> QED BY <3>1, <3>2, <1>5, <1>7
  <2>2. stream' \in Seq(Byte)
    BY <1>3, <1>5, <1>6, JoinBytes
  <2> QED BY <2>1, <2>2, <1>4, <1>7 DEF SerializerTypeInv
<1>11. ParsingInv'
  <2>1. ASSUME NEW i \in 1 .. Len(sent), ~Allowed(Len(sent[i]), ReceiverMax)
        PROVE  \E j \in 1 .. Len(sent') : ~Allowed(Len(sent'[j]), ReceiverMax)
    <3>1. i \in 1 .. Len(sent') /\ sent'[i] = sent[i] BY <1>5, <1>7
    <3> QED BY <2>1, <3>1
  <2> QED BY <2>1, <1>4 DEF ParsingInv
<1>12. InOrderInv'
  <2>1. Len(received) \in Nat /\ Len(datagrams) \in Nat
    BY LenProperties DEF SerializerTypeInv
  <2>2. Len(received) + Len(datagrams) <= Len(sent)
    BY DEF InOrderInv, Parsed
  <2>3. /\ \A i \in 1 .. Len(received) : i \in 1 .. Len(sent)
        /\ \A i \in 1 .. Len(datagrams) : Len(received) + i \in 1 .. Len(sent)
    <3>1. ASSUME NEW i \in 1 .. Len(received) PROVE i \in 1 .. Len(sent)
      BY <2>1, <2>2, <1>5
    <3>2. ASSUME NEW i \in 1 .. Len(datagrams) PROVE Len(received) + i \in 1 .. Len(sent)
      BY <2>1, <2>2, <1>5
    <3> QED BY <3>1, <3>2
  <2>4. Parsed' <= Len(sent')
    BY <1>5, <1>7, <1>8, <1>9
  <2> QED BY <2>3, <2>4, <1>4, <1>7 DEF InOrderInv
<1>13. PICK more : more = [k \in 0 .. Len(sent) + 1 |-> IF k <= Len(sent) THEN rest[k] \o frame ELSE <<>>]
  OBVIOUS
<1>14. /\ \A k \in 0 .. Len(sent) : more[k] = rest[k] \o frame
       /\ more[Len(sent) + 1] = <<>>
  <2>1. ASSUME NEW k \in 0 .. Len(sent) PROVE more[k] = rest[k] \o frame
    <3>1. k \in 0 .. Len(sent) + 1 /\ k <= Len(sent)
      BY <1>5
    <3> QED BY <3>1, <1>13
  <2>2. Len(sent) + 1 \in 0 .. Len(sent) + 1 /\ ~(Len(sent) + 1 <= Len(sent))
    BY <1>5
  <2>3. more[Len(sent) + 1] = <<>>
    BY <2>2, <1>13
  <2> QED BY <2>1, <2>3
<1>15. /\ rest[Len(sent)] = <<>>
       /\ \A k \in 1 .. Len(sent) : rest[k - 1] = WriteLength(Len(sent[k])) \o (sent[k] \o rest[k])
  BY <1>0 DEF Framed
<1>16. Framed(more)'
  <2>1. \A k \in 0 .. Len(sent) + 1 : more[k] \in Seq(Byte)
    <3> TAKE k \in 0 .. Len(sent) + 1
    <3>1. CASE k \in 0 .. Len(sent) BY <3>1, <1>3, <1>8, <1>14, JoinBytes
    <3>2. CASE k = Len(sent) + 1 BY <3>2, <1>14, EmptySeq
    <3> QED BY <3>1, <3>2, <1>5
  <2>2. more \in [0 .. Len(sent') -> Seq(Byte)]
    BY <2>1, <1>7, <1>13
  <2>3. more[Len(sent')] = <<>>
    BY <1>7, <1>14
  <2>4. ASSUME NEW k \in 1 .. Len(sent')
        PROVE  more[k - 1] = WriteLength(Len(sent'[k])) \o (sent'[k] \o more[k])
    <3>1. CASE k \in 1 .. Len(sent)
      <4> DEFINE w == WriteLength(Len(sent[k]))
      <4>1. k - 1 \in 0 .. Len(sent) /\ k \in 0 .. Len(sent)
        BY <3>1, <1>5
      <4>2. w \in Seq(Byte) /\ sent[k] \in Seq(Byte) /\ rest[k] \in Seq(Byte)
        <5>1. Len(sent[k]) \in 0 .. MaxLength BY <3>1, <1>8, SizeAssumption
        <5> QED BY <5>1, <4>1, <3>1, <1>8, WriteLengthFacts
      <4>3. rest[k - 1] = w \o (sent[k] \o rest[k])
        BY <3>1, <1>15
      <4> HIDE DEF w
      <4>4. sent[k] \o rest[k] \in Seq(Byte)
        BY <4>2, JoinBytes
      <4>5. (w \o (sent[k] \o rest[k])) \o frame = w \o ((sent[k] \o rest[k]) \o frame)
        BY <4>2, <4>4, <1>3, JoinInTurn
      <4>6. (sent[k] \o rest[k]) \o frame = sent[k] \o (rest[k] \o frame)
        BY <4>2, <1>3, JoinInTurn
      <4>7. more[k - 1] = w \o (sent[k] \o more[k])
        BY <4>1, <4>3, <4>5, <4>6, <1>14
      <4> QED BY <4>7, <3>1, <1>7 DEF w
    <3>2. CASE k = Len(sent) + 1
      <4>1. k - 1 \in 0 .. Len(sent) /\ k - 1 = Len(sent)
        BY <3>2, <1>5
      <4>2. more[k - 1] = <<>> \o frame
        BY <4>1, <1>14, <1>15
      <4>3. <<>> \o frame = frame /\ d \o <<>> = d
        BY <1>1, <1>3, JoinNothing
      <4>4. sent'[k] = d /\ more[k] = <<>>
        BY <3>2, <1>7, <1>14
      <4> QED BY <4>2, <4>3, <4>4 DEF frame, length
    <3>3. k \in 1 .. Len(sent) \/ k = Len(sent) + 1 BY <1>5, <1>7
    <3> QED BY <3>1, <3>2, <3>3
  <2> QED BY <2>2, <2>3, <2>4 DEF Framed
<1>17. HeldInv(more)'
  <2>1. ASSUME NEW kept \in Seq(Byte)
        PROVE  kept \o (data \o stream') = (kept \o (data \o stream)) \o frame
    <3>1. data \o stream \in Seq(Byte)
      BY <1>5, JoinBytes
    <3>2. (data \o stream) \o frame = data \o (stream \o frame)
      <4>1. data \in Seq(Byte)
        BY <1>5
      <4>2. stream \in Seq(Byte)
        BY <1>5
      <4> QED BY <4>1, <4>2, <1>3, JoinInTurn
    <3>3. (kept \o (data \o stream)) \o frame = kept \o ((data \o stream) \o frame)
      BY <3>1, <1>3, JoinInTurn
    <3> QED BY <3>2, <3>3, <1>6
  <2>2. ASSUME ~failed, lenCurrentDatagram = 0
        PROVE  /\ buf = <<>> /\ Len(bufSize) < LengthSize
               /\ bufSize \o (data \o stream') = more[Parsed]
    <3>1. /\ buf = <<>> /\ Len(bufSize) < LengthSize
          /\ bufSize \o (data \o stream) = rest[Parsed]
      BY <2>2, <1>0 DEF HeldInv
    <3> QED BY <3>1, <2>1, <1>5, <1>8, <1>14
  <2>3. ASSUME ~failed, lenCurrentDatagram # 0
        PROVE  /\ Parsed < Len(sent')
               /\ bufSize = <<>>
               /\ lenCurrentDatagram = Len(sent'[Parsed + 1])
               /\ Len(buf) < lenCurrentDatagram
               /\ buf \o (data \o stream') = sent'[Parsed + 1] \o more[Parsed + 1]
    <3>1. /\ Parsed < Len(sent)
          /\ bufSize = <<>>
          /\ lenCurrentDatagram = Len(sent[Parsed + 1])
          /\ Len(buf) < lenCurrentDatagram
          /\ buf \o (data \o stream) = sent[Parsed + 1] \o rest[Parsed + 1]
      BY <2>3, <1>0 DEF HeldInv
    <3>2. Parsed + 1 \in 1 .. Len(sent) /\ Parsed + 1 \in 0 .. Len(sent) /\ Parsed < Len(sent')
      BY <3>1, <1>5, <1>7, <1>8
    <3>3. sent'[Parsed + 1] = sent[Parsed + 1] /\ more[Parsed + 1] = rest[Parsed + 1] \o frame
      BY <3>2, <1>7, <1>14
    <3>4. sent[Parsed + 1] \in Seq(Byte) /\ rest[Parsed + 1] \in Seq(Byte)
      BY <3>2, <1>8
    <3>5. (sent[Parsed + 1] \o rest[Parsed + 1]) \o frame = sent[Parsed + 1] \o (rest[Parsed + 1] \o frame)
      BY <3>4, <1>3, JoinInTurn
    <3>6. buf \o (data \o stream') = (buf \o (data \o stream)) \o frame
      BY <2>1, <1>5
    <3> QED BY <3>1, <3>2, <3>3, <3>5, <3>6
  <2> QED BY <2>2, <2>3, <1>4, <1>9 DEF HeldInv
<1> QED BY <1>10, <1>11, <1>12, <1>16, <1>17


(* The other actions build no datagram: rest stays as it is.               *)
LEMMA FramedStays ==
  ASSUME NEW rest, Framed(rest), UNCHANGED sent
  PROVE  Framed(rest)'
BY DEF Framed

LEMMA StartParseInv ==
  ASSUME SerializerInv, NEW n \in 1 .. Len(stream), StartParse(n)
  PROVE  SerializerInv'
<1> USE DEF SerializerInv
<1>0. PICK rest : Framed(rest) /\ HeldInv(rest)
  OBVIOUS
<1>1. /\ ~parsing /\ ~failed
      /\ parsing' = TRUE /\ datagrams' = <<>>
      /\ data' = SubSeq(stream, 1, n)
      /\ stream' = SubSeq(stream, n + 1, Len(stream))
      /\ UNCHANGED <<sent, bufSize, lenCurrentDatagram, buf, received, failed>>
  BY DEF StartParse, parser
<1>2. stream \in Seq(Byte) /\ Len(stream) \in Nat
  BY LenProperties DEF SerializerTypeInv
<1>3. data = <<>> /\ datagrams = <<>>
  BY <1>1 DEF ParsingInv
<1>4. data' \in Seq(Byte) /\ stream' \in Seq(Byte) /\ data' \o stream' = stream
  BY <1>1, <1>2, CutAt
<1>5. <<>> \o stream = stream
  BY <1>2, JoinNothing
<1>6. Parsed' = Parsed
  BY <1>1, <1>3 DEF Parsed
<1>7. SerializerTypeInv'
  BY <1>1, <1>3, <1>4 DEF SerializerTypeInv
<1>8. ParsingInv'
  BY <1>1 DEF ParsingInv
<1>9. InOrderInv'
  BY <1>1, <1>3, <1>6 DEF InOrderInv
<1>10. HeldInv(rest)'
  BY <1>0, <1>1, <1>3, <1>4, <1>5, <1>6 DEF HeldInv
<1> QED BY <1>0, <1>1, <1>7, <1>8, <1>9, <1>10, FramedStays

LEMMA ParsePartOfLengthInv ==
  ASSUME SerializerInv, ParsePartOfLength
  PROVE  SerializerInv'
<1> USE DEF SerializerInv
<1>0. PICK rest : Framed(rest) /\ HeldInv(rest)
  OBVIOUS
<1>1. /\ parsing /\ lenCurrentDatagram = 0
      /\ Len(data) < LengthSize - Len(bufSize)
      /\ bufSize' = bufSize \o data
      /\ data' = <<>>
      /\ UNCHANGED <<sent, stream, parsing, datagrams, lenCurrentDatagram, buf, received, failed>>
  BY DEF ParsePartOfLength
<1>2. data \in Seq(Byte) /\ Len(data) \in Nat
  BY LenProperties DEF SerializerTypeInv
<1>3. bufSize \in Seq(Byte) /\ Len(bufSize) \in Nat
  BY LenProperties DEF SerializerTypeInv
<1>4. stream \in Seq(Byte)
  BY DEF SerializerTypeInv
<1>5. bufSize' \in Seq(Byte) /\ Len(bufSize') = Len(bufSize) + Len(data)
  BY <1>1, <1>2, <1>3, JoinBytes
<1>6. Len(bufSize') < LengthSize
  BY <1>1, <1>2, <1>3, <1>5 DEF LengthSize
<1>7. bufSize' \o (data' \o stream') = bufSize \o (data \o stream)
  <2>1. data \in Seq(Byte) BY <1>2
  <2>2. bufSize \in Seq(Byte) BY <1>3
  <2>3. (bufSize \o data) \o stream = bufSize \o (data \o stream)
    BY <2>1, <2>2, <1>4, JoinInTurn
  <2>4. <<>> \o stream = stream
    BY <1>4, JoinNothing
  <2> QED BY <2>3, <2>4, <1>1
<1>8. Parsed' = Parsed
  BY <1>1 DEF Parsed
<1>9. SerializerTypeInv'
  BY <1>1, <1>5, EmptySeq DEF SerializerTypeInv
<1>10. ParsingInv' /\ InOrderInv'
  BY <1>1, <1>8 DEF ParsingInv, InOrderInv
<1>11. HeldInv(rest)'
  BY <1>0, <1>1, <1>6, <1>7, <1>8 DEF HeldInv
<1> QED BY <1>0, <1>1, <1>9, <1>10, <1>11, FramedStays

LEMMA ParsePartOfContentInv ==
  ASSUME SerializerInv, ParsePartOfContent
  PROVE  SerializerInv'
<1> USE DEF SerializerInv
<1>0. PICK rest : Framed(rest) /\ HeldInv(rest)
  OBVIOUS
<1>1. /\ parsing /\ lenCurrentDatagram # 0
      /\ Len(data) < lenCurrentDatagram - Len(buf)
      /\ buf' = buf \o data
      /\ data' = <<>>
      /\ UNCHANGED <<sent, stream, parsing, datagrams, bufSize, lenCurrentDatagram, received, failed>>
  BY DEF ParsePartOfContent
<1>2. data \in Seq(Byte) /\ Len(data) \in Nat
  BY LenProperties DEF SerializerTypeInv
<1>3. buf \in Seq(Byte) /\ Len(buf) \in Nat
  BY LenProperties DEF SerializerTypeInv
<1>4. stream \in Seq(Byte) /\ lenCurrentDatagram \in Nat
  BY DEF SerializerTypeInv
<1>5. buf' \in Seq(Byte) /\ Len(buf') = Len(buf) + Len(data)
  BY <1>1, <1>2, <1>3, JoinBytes
<1>6. Len(buf') < lenCurrentDatagram
  BY <1>1, <1>2, <1>3, <1>4, <1>5
<1>7. buf' \o (data' \o stream') = buf \o (data \o stream)
  <2>1. data \in Seq(Byte) BY <1>2
  <2>2. buf \in Seq(Byte) BY <1>3
  <2>3. stream \in Seq(Byte) BY <1>4
  <2>4. (buf \o data) \o stream = buf \o (data \o stream)
    BY <2>1, <2>2, <2>3, JoinInTurn
  <2>5. <<>> \o stream = stream
    BY <2>3, JoinNothing
  <2> QED BY <2>4, <2>5, <1>1
<1>8. Parsed' = Parsed
  BY <1>1 DEF Parsed
<1>9. SerializerTypeInv'
  BY <1>1, <1>5, EmptySeq DEF SerializerTypeInv
<1>10. ParsingInv' /\ InOrderInv'
  BY <1>1, <1>8 DEF ParsingInv, InOrderInv
<1>11. HeldInv(rest)'
  BY <1>0, <1>1, <1>6, <1>7, <1>8 DEF HeldInv
<1> QED BY <1>0, <1>1, <1>9, <1>10, <1>11, FramedStays


(* A length that is complete is that of the next datagram.                 *)
LEMMA LengthOfNext ==
  ASSUME SerializerInv, NEW rest, Framed(rest), HeldInv(rest),
         ~failed, data # <<>>, lenCurrentDatagram = 0,
         NEW n, n = LengthSize - Len(bufSize), n <= Len(data)
  PROVE  /\ Parsed < Len(sent)
         /\ ReadLength(bufSize \o SubSeq(data, 1, n)) = Len(sent[Parsed + 1])
         /\ SubSeq(data, n + 1, Len(data)) \in Seq(Byte)
         /\ SubSeq(data, n + 1, Len(data)) \o stream = sent[Parsed + 1] \o rest[Parsed + 1]
<1> USE DEF SerializerInv
<1> DEFINE head == bufSize \o SubSeq(data, 1, n)
           left == SubSeq(data, n + 1, Len(data))
<1>1. bufSize \in Seq(Byte) /\ data \in Seq(Byte) /\ stream \in Seq(Byte)
  BY DEF SerializerTypeInv
<1>2. /\ Len(bufSize) \in Nat /\ Len(bufSize) < LengthSize /\ Len(data) \in Nat
      /\ bufSize \o (data \o stream) = rest[Parsed]
  BY <1>1, LenProperties DEF HeldInv
<1>3. n \in 0 .. Len(data) /\ Len(bufSize) + n = LengthSize
  BY <1>2 DEF LengthSize
<1>4. /\ head \in Seq(Byte) /\ Len(head) = LengthSize
      /\ left \in Seq(Byte)
      /\ head \o (left \o stream) = rest[Parsed]
  <2>1. bufSize \in Seq(Byte)
    BY <1>1
  <2>2. data \in Seq(Byte)
    BY <1>1
  <2>3. stream \in Seq(Byte)
    BY <1>1
  <2>4. n \in 0 .. Len(data)
    BY <1>3
  <2> DEFINE first == SubSeq(data, 1, n)
  <2>5. first \in Seq(Byte) /\ Len(first) = n
    BY <2>2, <2>4, CutAt
  <2>6. left \in Seq(Byte) /\ first \o left = data
    BY <2>2, <2>4, CutAt
  <2>7. head = bufSize \o first
    OBVIOUS
  <2> HIDE DEF first, left, head
  <2>8. first \in Seq(Byte)
    BY <2>5
  <2>9. left \in Seq(Byte)
    BY <2>6
  <2>10. bufSize \o first \in Seq(Byte) /\ Len(bufSize \o first) = Len(bufSize) + Len(first)
    BY <2>1, <2>8, JoinBytes
  <2>11. (bufSize \o first) \o (left \o stream) = bufSize \o ((first \o left) \o stream)
    <3>1. left \o stream \in Seq(Byte)
      BY <2>3, <2>9, JoinBytes
    <3>2. (bufSize \o first) \o (left \o stream) = bufSize \o (first \o (left \o stream))
      BY <2>1, <2>8, <3>1, JoinInTurn
    <3>3. (first \o left) \o stream = first \o (left \o stream)
      BY <2>3, <2>8, <2>9, JoinInTurn
    <3> QED BY <3>2, <3>3
  <2> QED BY <2>5, <2>6, <2>7, <2>10, <2>11, <1>2, <1>3
<1> HIDE DEF head, left
<1>5. left \o stream \in Seq(Byte)
  BY <1>1, <1>4, JoinBytes
<1>6. /\ Len(sent) \in Nat /\ Parsed \in 0 .. Len(sent)
      /\ \A k \in 1 .. Len(sent) : sent[k] \in Seq(Byte) /\ Len(sent[k]) \in 1 .. MaxLength
      /\ \A k \in 0 .. Len(sent) : rest[k] \in Seq(Byte)
      /\ Parsed < Len(sent) =>
           rest[Parsed] = WriteLength(Len(sent[Parsed + 1]))
                            \o (sent[Parsed + 1] \o rest[Parsed + 1])
  BY ParsedFacts
<1>7. Parsed < Len(sent)
  <2>1. ASSUME Parsed = Len(sent) PROVE FALSE
    <3>1. rest[Parsed] = <<>>
      BY <2>1 DEF Framed
    <3>2. Len(rest[Parsed]) = Len(head) + Len(left \o stream)
      BY <1>4, <1>5, JoinBytes
    <3>3. Len(left \o stream) \in Nat
      BY <1>5, LenProperties
    <3> QED BY <3>1, <3>2, <3>3, <1>4 DEF LengthSize
  <2> QED BY <2>1, <1>6
<1> DEFINE next == sent[Parsed + 1]
           after == rest[Parsed + 1]
           length == WriteLength(Len(next))
<1>8. next \in Seq(Byte) /\ Len(next) \in 1 .. MaxLength /\ after \in Seq(Byte)
  <2>1. Parsed + 1 \in 1 .. Len(sent) /\ Parsed + 1 \in 0 .. Len(sent)
    BY <1>6, <1>7
  <2> QED BY <2>1, <1>6
<1>9. rest[Parsed] = length \o (next \o after)
  BY <1>6, <1>7
<1>10. length \in Seq(Byte) /\ Len(length) = LengthSize /\ ReadLength(length) = Len(next)
  <2>1. Len(next) \in 0 .. MaxLength
    BY <1>8, SizeAssumption
  <2> QED BY <2>1, WriteLengthFacts
<1> HIDE DEF length, next, after
<1>11. next \o after \in Seq(Byte)
  BY <1>8, JoinBytes
<1>12. head = length /\ left \o stream = next \o after
  <2>1. head \o (left \o stream) = length \o (next \o after) /\ Len(head) = Len(length)
    BY <1>4, <1>9, <1>10
  <2>2. head \in Seq(Byte)
    BY <1>4
  <2>3. length \in Seq(Byte)
    BY <1>10
  <2> QED BY <2>1, <2>2, <2>3, <1>5, <1>11, CutOnce
<1>13. ReadLength(head) = Len(next)
  BY <1>10, <1>12
<1> QED BY <1>4, <1>7, <1>12, <1>13 DEF head, left, next, after

LEMMA ParseLengthInv ==
  ASSUME SerializerInv, ParseLength
  PROVE  SerializerInv'
<1> USE DEF SerializerInv
<1>0. PICK rest : Framed(rest) /\ HeldInv(rest)
  OBVIOUS
<1> DEFINE n == LengthSize - Len(bufSize)
           length == ReadLength(bufSize \o SubSeq(data, 1, n))
           left == SubSeq(data, n + 1, Len(data))
<1>1. /\ parsing /\ data # <<>> /\ lenCurrentDatagram = 0 /\ n <= Len(data)
      /\ UNCHANGED <<sent, stream, received>>
  BY DEF ParseLength
<1>2. ~failed
  BY <1>1 DEF ParsingInv
<1>3. /\ Parsed < Len(sent)
      /\ length = Len(sent[Parsed + 1])
      /\ left \in Seq(Byte)
      /\ left \o stream = sent[Parsed + 1] \o rest[Parsed + 1]
  BY <1>0, <1>1, <1>2, LengthOfNext
<1> HIDE DEF length, left
<1>4. Len(sent) \in Nat /\ Parsed \in 0 .. Len(sent) /\ Parsed + 1 \in 1 .. Len(sent)
  <2>1. Len(sent) \in Nat /\ Parsed \in 0 .. Len(sent)
    BY <1>0, ParsedFacts
  <2> QED BY <2>1, <1>3
<1>5. length \in 1 .. MaxLength /\ length \in Nat
  <2>1. \A k \in 1 .. Len(sent) : Len(sent[k]) \in 1 .. MaxLength
    BY DEF SerializerTypeInv
  <2>2. length \in 1 .. MaxLength
    BY <2>1, <1>3, <1>4
  <2> QED BY <2>2
<1>6. CASE /\ Allowed(length, ReceiverMax)
           /\ lenCurrentDatagram' = length
           /\ bufSize' = <<>>
           /\ data' = left
           /\ UNCHANGED <<buf, parsing, datagrams, failed>>
  <2>1. Parsed' = Parsed
    BY <1>1, <1>6 DEF Parsed
  <2>2. SerializerTypeInv'
    BY <1>1, <1>3, <1>5, <1>6, EmptySeq DEF SerializerTypeInv
  <2>3. ParsingInv' /\ InOrderInv'
    BY <1>1, <1>6, <2>1 DEF ParsingInv, InOrderInv
  <2>4. buf = <<>>
    BY <1>0, <1>1, <1>2 DEF HeldInv
  <2>5. buf' \o (data' \o stream') = sent[Parsed + 1] \o rest[Parsed + 1]
    <3>1. stream \in Seq(Byte) /\ left \o stream \in Seq(Byte)
      BY <1>3, JoinBytes DEF SerializerTypeInv
    <3>2. <<>> \o (left \o stream) = left \o stream
      BY <3>1, JoinNothing
    <3> QED BY <3>2, <2>4, <1>1, <1>3, <1>6
  <2>6. Len(buf') < lenCurrentDatagram' /\ lenCurrentDatagram' # 0
    BY <2>4, <1>5, <1>6
  <2>7. HeldInv(rest)'
    BY <2>1, <2>5, <2>6, <1>1, <1>3, <1>6 DEF HeldInv
  <2> QED BY <2>2, <2>3, <2>7, <1>0, <1>1, FramedStays
<1>7. CASE /\ ~Allowed(length, ReceiverMax)
           /\ Clear
           /\ data' = <<>> /\ datagrams' = <<>> /\ parsing' = FALSE /\ failed' = TRUE
  <2>1. SerializerTypeInv'
    BY <1>1, <1>7, EmptySeq DEF SerializerTypeInv, Clear
  <2>2. ParsingInv'
    BY <1>1, <1>3, <1>4, <1>7 DEF ParsingInv
  <2>3. InOrderInv'
    <3>1. Len(received) \in Nat /\ Len(datagrams) \in Nat
      BY LenProperties DEF SerializerTypeInv
    <3>2. Len(received) <= Len(sent)
      BY <3>1, <1>4 DEF Parsed
    <3>3. Parsed' = Len(received)
      BY <3>1, <1>1, <1>7 DEF Parsed
    <3>4. \A i \in 1 .. Len(received) : received[i] = sent[i]
      BY DEF InOrderInv
    <3>5. Parsed' <= Len(sent')
      BY <3>2, <3>3, <1>1
    <3> QED BY <3>4, <3>5, <1>1, <1>7 DEF InOrderInv
  <2>4. HeldInv(rest)'
    BY <1>7 DEF HeldInv
  <2> QED BY <2>1, <2>2, <2>3, <2>4, <1>0, <1>1, FramedStays
<1> QED BY <1>6, <1>7 DEF ParseLength, length, left


(* The content that completes a datagram is that of the next one.          *)
LEMMA ContentOfNext ==
  ASSUME SerializerInv, NEW rest, Framed(rest), HeldInv(rest),
         ~failed, lenCurrentDatagram # 0,
         NEW n, n = lenCurrentDatagram - Len(buf), n <= Len(data)
  PROVE  /\ Parsed < Len(sent)
         /\ buf \o SubSeq(data, 1, n) = sent[Parsed + 1]
         /\ SubSeq(data, n + 1, Len(data)) \in Seq(Byte)
         /\ SubSeq(data, n + 1, Len(data)) \o stream = rest[Parsed + 1]
<1> USE DEF SerializerInv
<1> DEFINE head == buf \o SubSeq(data, 1, n)
           left == SubSeq(data, n + 1, Len(data))
<1>1. buf \in Seq(Byte)
  BY DEF SerializerTypeInv
<1>2. data \in Seq(Byte)
  BY DEF SerializerTypeInv
<1>3. stream \in Seq(Byte)
  BY DEF SerializerTypeInv
<1>4. /\ Parsed < Len(sent)
      /\ lenCurrentDatagram = Len(sent[Parsed + 1])
      /\ Len(buf) < lenCurrentDatagram
      /\ buf \o (data \o stream) = sent[Parsed + 1] \o rest[Parsed + 1]
  BY DEF HeldInv
<1>5. n \in 0 .. Len(data) /\ Len(buf) + n = lenCurrentDatagram
  <2>1. Len(buf) \in Nat /\ Len(data) \in Nat /\ lenCurrentDatagram \in Nat
    BY <1>1, <1>2, LenProperties DEF SerializerTypeInv
  <2> QED BY <2>1, <1>4
<1>6. n \in 0 .. Len(data)
  BY <1>5
<1>7. /\ head \in Seq(Byte) /\ Len(head) = Len(buf) + n
      /\ left \in Seq(Byte)
      /\ head \o (left \o stream) = buf \o (data \o stream)
  <2> DEFINE first == SubSeq(data, 1, n)
  <2>1. first \in Seq(Byte) /\ Len(first) = n
    BY <1>2, <1>6, CutAt
  <2>2. left \in Seq(Byte) /\ first \o left = data
    BY <1>2, <1>6, CutAt
  <2>3. head = buf \o first
    OBVIOUS
  <2> HIDE DEF first, left, head
  <2>4. first \in Seq(Byte)
    BY <2>1
  <2>5. left \in Seq(Byte)
    BY <2>2
  <2>6. buf \o first \in Seq(Byte) /\ Len(buf \o first) = Len(buf) + Len(first)
    BY <1>1, <2>4, JoinBytes
  <2>7. (buf \o first) \o (left \o stream) = buf \o ((first \o left) \o stream)
    <3>1. left \o stream \in Seq(Byte)
      BY <1>3, <2>5, JoinBytes
    <3>2. (buf \o first) \o (left \o stream) = buf \o (first \o (left \o stream))
      BY <1>1, <2>4, <3>1, JoinInTurn
    <3>3. (first \o left) \o stream = first \o (left \o stream)
      BY <1>3, <2>4, <2>5, JoinInTurn
    <3> QED BY <3>2, <3>3
  <2> QED BY <2>1, <2>2, <2>3, <2>6, <2>7
<1> HIDE DEF head, left
<1>8. head \in Seq(Byte)
  BY <1>7
<1>9. left \o stream \in Seq(Byte)
  BY <1>3, <1>7, JoinBytes
<1>10. Parsed + 1 \in 1 .. Len(sent) /\ Parsed + 1 \in 0 .. Len(sent)
  <2>1. Len(sent) \in Nat /\ Parsed \in 0 .. Len(sent)
    BY ParsedFacts
  <2> QED BY <2>1, <1>4
<1> DEFINE next == sent[Parsed + 1]
           after == rest[Parsed + 1]
<1>11. next \in Seq(Byte)
  BY <1>10, ParsedFacts
<1>12. after \in Seq(Byte)
  BY <1>10, ParsedFacts
<1>13. head \o (left \o stream) = next \o after /\ Len(head) = Len(next)
  BY <1>4, <1>5, <1>7
<1> HIDE DEF next, after
<1>14. head = next /\ left \o stream = after
  BY <1>8, <1>9, <1>11, <1>12, <1>13, CutOnce
<1> QED BY <1>4, <1>7, <1>14 DEF head, left, next, after

LEMMA ParseContentInv ==
  ASSUME SerializerInv, ParseContent
  PROVE  SerializerInv'
<1> USE DEF SerializerInv
<1>0. PICK rest : Framed(rest) /\ HeldInv(rest)
  OBVIOUS
<1> DEFINE n == lenCurrentDatagram - Len(buf)
           datagram == buf \o SubSeq(data, 1, n)
           left == SubSeq(data, n + 1, Len(data))
<1>1. /\ parsing /\ lenCurrentDatagram # 0 /\ n <= Len(data)
      /\ datagrams' = Append(datagrams, datagram)
      /\ bufSize' = <<>> /\ lenCurrentDatagram' = 0 /\ buf' = <<>>
      /\ data' = left
      /\ UNCHANGED <<sent, stream, parsing, received, failed>>
  BY DEF ParseContent, Clear
<1>2. ~failed
  BY <1>1 DEF ParsingInv
<1>3. /\ Parsed < Len(sent)
      /\ datagram = sent[Parsed + 1]
      /\ left \in Seq(Byte)
      /\ left \o stream = rest[Parsed + 1]
  BY <1>0, <1>1, <1>2, ContentOfNext
<1> HIDE DEF n, datagram, left
<1>4. Len(sent) \in Nat /\ Parsed \in 0 .. Len(sent) /\ Parsed + 1 \in 1 .. Len(sent)
  <2>1. Len(sent) \in Nat /\ Parsed \in 0 .. Len(sent)
    BY <1>0, ParsedFacts
  <2> QED BY <2>1, <1>3
<1>5. datagram \in Seq(Byte)
  BY <1>0, <1>3, <1>4, ParsedFacts
<1>6. /\ datagrams \in Seq(Seq(Byte)) /\ Len(datagrams) \in Nat
      /\ Len(received) \in Nat
  BY LenProperties DEF SerializerTypeInv
<1>7. /\ datagrams' \in Seq(Seq(Byte)) /\ Len(datagrams') = Len(datagrams) + 1
      /\ \A i \in 1 .. Len(datagrams) : datagrams'[i] = datagrams[i]
      /\ datagrams'[Len(datagrams) + 1] = datagram
  BY <1>1, <1>5, <1>6, AppendProperties
<1>8. Parsed' = Parsed + 1
  BY <1>1, <1>6, <1>7 DEF Parsed
<1>9. SerializerTypeInv'
  <2>1. 0 \in Nat
    OBVIOUS
  <2> QED BY <2>1, <1>1, <1>3, <1>7, EmptySeq DEF SerializerTypeInv
<1>10. ParsingInv'
  BY <1>1, <1>2 DEF ParsingInv
<1>11. InOrderInv'
  <2>1. Parsed' <= Len(sent')
    BY <1>1, <1>4, <1>8
  <2>2. ASSUME NEW i \in 1 .. Len(datagrams')
        PROVE  datagrams'[i] = sent[Len(received) + i]
    <3>1. CASE i \in 1 .. Len(datagrams)
      BY <3>1, <1>7 DEF InOrderInv
    <3>2. CASE i = Len(datagrams) + 1
      <4>1. Len(received) + i = Parsed + 1
        BY <3>2, <1>6 DEF Parsed
      <4> QED BY <4>1, <3>2, <1>3, <1>7
    <3>3. i \in 1 .. Len(datagrams) \/ i = Len(datagrams) + 1
      BY <1>6, <1>7
    <3> QED BY <3>1, <3>2, <3>3
  <2>3. \A i \in 1 .. Len(received) : received[i] = sent[i]
    BY DEF InOrderInv
  <2> QED BY <2>1, <2>2, <2>3, <1>1 DEF InOrderInv
<1>12. HeldInv(rest)'
  <2>1. stream \in Seq(Byte)
    BY DEF SerializerTypeInv
  <2>2. left \o stream \in Seq(Byte)
    BY <2>1, <1>3, JoinBytes
  <2>3. <<>> \o (left \o stream) = left \o stream
    BY <2>2, JoinNothing
  <2>4. bufSize' \o (data' \o stream') = rest[Parsed']
    BY <2>3, <1>1, <1>3, <1>8
  <2>5. Len(bufSize') < LengthSize
    BY <1>1 DEF LengthSize
  <2> QED BY <2>4, <2>5, <1>1 DEF HeldInv
<1> QED BY <1>0, <1>1, <1>9, <1>10, <1>11, <1>12, FramedStays

LEMMA DeliverInv ==
  ASSUME SerializerInv, Deliver
  PROVE  SerializerInv'
<1> USE DEF SerializerInv
<1>0. PICK rest : Framed(rest) /\ HeldInv(rest)
  OBVIOUS
<1>1. /\ parsing /\ data = <<>>
      /\ parsing' = FALSE
      /\ received' = received \o datagrams
      /\ datagrams' = <<>>
      /\ UNCHANGED <<sent, stream, data, bufSize, lenCurrentDatagram, buf, failed>>
  BY DEF Deliver, parser
<1>2. /\ datagrams \in Seq(Seq(Byte)) /\ Len(datagrams) \in Nat
      /\ received \in Seq(Seq(Byte)) /\ Len(received) \in Nat
  BY LenProperties DEF SerializerTypeInv
<1>3. /\ received' \in Seq(Seq(Byte)) /\ Len(received') = Len(received) + Len(datagrams)
      /\ \A i \in 1 .. Len(received) + Len(datagrams) :
           received'[i] = IF i <= Len(received) THEN received[i] ELSE datagrams[i - Len(received)]
  BY <1>1, <1>2, ConcatProperties
<1>4. Parsed' = Parsed
  BY <1>1, <1>2, <1>3 DEF Parsed
<1>5. SerializerTypeInv'
  BY <1>1, <1>3, EmptySeq DEF SerializerTypeInv
<1>6. ParsingInv'
  BY <1>1 DEF ParsingInv
<1>7. InOrderInv'
  <2>1. ASSUME NEW i \in 1 .. Len(received')
        PROVE  received'[i] = sent[i]
    <3>1. i \in 1 .. Len(received) + Len(datagrams)
      BY <1>3
    <3>2. CASE i <= Len(received)
      <4>1. i \in 1 .. Len(received) /\ received'[i] = received[i]
        BY <3>1, <3>2, <1>2, <1>3
      <4> QED BY <4>1 DEF InOrderInv
    <3>3. CASE ~(i <= Len(received))
      <4> DEFINE j == i - Len(received)
      <4>1. received'[i] = datagrams[j]
        BY <3>1, <3>3, <1>3
      <4>2. j \in 1 .. Len(datagrams) /\ Len(received) + j = i
        BY <3>1, <3>3, <1>2
      <4> HIDE DEF j
      <4>3. datagrams[j] = sent[Len(received) + j]
        BY <4>2 DEF InOrderInv
      <4> QED BY <4>1, <4>2, <4>3
    <3> QED BY <3>2, <3>3
  <2> QED BY <2>1, <1>1, <1>4 DEF InOrderInv
<1>8. HeldInv(rest)'
  BY <1>0, <1>1, <1>4 DEF HeldInv
<1> QED BY <1>0, <1>1, <1>5, <1>6, <1>7, <1>8, FramedStays


LEMMA SerializerStepInv ==
  ASSUME SerializerInv, [SerializerNext]_serializerVars
  PROVE  SerializerInv'
<1>1. ASSUME NEW d \in Datagram, Build(d) PROVE SerializerInv'
  BY <1>1, BuildInv
<1>2. ASSUME NEW n \in 1 .. Len(stream), StartParse(n) PROVE SerializerInv'
  BY <1>2, StartParseInv
<1>3. CASE ParseLength
  BY <1>3, ParseLengthInv
<1>4. CASE ParsePartOfLength
  BY <1>4, ParsePartOfLengthInv
<1>5. CASE ParseContent
  BY <1>5, ParseContentInv
<1>6. CASE ParsePartOfContent
  BY <1>6, ParsePartOfContentInv
<1>7. CASE Deliver
  BY <1>7, DeliverInv
<1>8. CASE UNCHANGED serializerVars
  <2>1. PICK rest : Framed(rest) /\ HeldInv(rest)
    BY DEF SerializerInv
  <2>2. UNCHANGED <<sent, stream, data, parsing, datagrams, bufSize, lenCurrentDatagram,
                    buf, received, failed>>
    BY <1>8 DEF serializerVars, parser
  <2>3. SerializerTypeInv' /\ ParsingInv' /\ InOrderInv'
    BY <2>2 DEF SerializerInv, SerializerTypeInv, ParsingInv, InOrderInv, Parsed
  <2>4. Framed(rest)' /\ HeldInv(rest)'
    BY <2>1, <2>2 DEF Framed, HeldInv, Parsed
  <2> QED BY <2>3, <2>4 DEF SerializerInv
<1> QED BY <1>1, <1>2, <1>3, <1>4, <1>5, <1>6, <1>7, <1>8 DEF SerializerNext

(* When nothing is left of the stream, nothing is kept of it: what is kept *)
(* is less than a length, or less than the content that follows it.        *)
LEMMA NothingKept ==
  ASSUME SerializerInv, stream = <<>>, ~parsing, ~failed
  PROVE  received = sent /\ bufSize = <<>> /\ buf = <<>>
<1> USE DEF SerializerInv
<1>0. PICK rest : Framed(rest) /\ HeldInv(rest)
  OBVIOUS
<1>1. data = <<>> /\ datagrams = <<>>
  BY DEF ParsingInv
<1>2. bufSize \in Seq(Byte)
  BY DEF SerializerTypeInv
<1>3. buf \in Seq(Byte)
  BY DEF SerializerTypeInv
<1>4. /\ <<>> \o <<>> = <<>>
      /\ bufSize \o <<>> = bufSize /\ buf \o <<>> = buf
  <2>1. <<>> \in Seq(Byte)
    BY EmptySeq
  <2> QED BY <2>1, <1>2, <1>3, JoinNothing
<1>5. Parsed = Len(received) /\ Len(received) \in Nat
  BY <1>1, LenProperties DEF Parsed, SerializerTypeInv
<1>6. Len(sent) \in Nat /\ Parsed \in 0 .. Len(sent)
  BY <1>0, ParsedFacts
<1>7. ASSUME Parsed < Len(sent) PROVE FALSE
  <2>1. Parsed + 1 \in 1 .. Len(sent) /\ Parsed + 1 \in 0 .. Len(sent)
    BY <1>6, <1>7
  <2> DEFINE next == sent[Parsed + 1]
             after == rest[Parsed + 1]
             length == WriteLength(Len(next))
  <2>2. next \in Seq(Byte)
    BY <2>1, <1>0, ParsedFacts
  <2>3. after \in Seq(Byte)
    BY <2>1, <1>0, ParsedFacts
  <2>4. length \in Seq(Byte) /\ Len(length) = LengthSize
    <3>1. Len(next) \in 1 .. MaxLength
      BY <2>1, <1>0, ParsedFacts
    <3>2. Len(next) \in 0 .. MaxLength
      BY <3>1, SizeAssumption
    <3> QED BY <3>2, WriteLengthFacts
  <2>5. rest[Parsed] = length \o (next \o after)
    BY <1>0, <1>7, ParsedFacts
  <2>6. lenCurrentDatagram = 0 => bufSize \o (data \o stream) = rest[Parsed] /\ Len(bufSize) < LengthSize
    BY <1>0 DEF HeldInv
  <2>7. lenCurrentDatagram # 0 => buf \o (data \o stream) = next \o after /\ Len(buf) < Len(next)
    BY <1>0 DEF HeldInv
  <2> HIDE DEF length, next, after
  <2>8. /\ next \o after \in Seq(Byte) /\ Len(next \o after) = Len(next) + Len(after)
    BY <2>2, <2>3, JoinBytes
  <2>9. Len(length \o (next \o after)) = Len(length) + Len(next \o after)
    BY <2>4, <2>8, JoinBytes
  <2>10. Len(next) \in Nat /\ Len(after) \in Nat /\ Len(bufSize) \in Nat /\ Len(buf) \in Nat
    BY <2>2, <2>3, <1>2, <1>3, LenProperties
  <2>11. CASE lenCurrentDatagram = 0
    <3>1. Len(bufSize) = Len(length) + (Len(next) + Len(after))
      BY <2>5, <2>6, <2>8, <2>9, <2>11, <1>1, <1>4
    <3> QED BY <3>1, <2>4, <2>6, <2>10, <2>11 DEF LengthSize
  <2>12. CASE lenCurrentDatagram # 0
    <3>1. Len(buf) = Len(next) + Len(after)
      BY <2>7, <2>8, <2>12, <1>1, <1>4
    <3> QED BY <3>1, <2>7, <2>10, <2>12
  <2> QED BY <2>11, <2>12
<1>8. Parsed = Len(sent)
  BY <1>6, <1>7
<1>9. received = sent
  <2>1. \A i \in 1 .. Len(received) : received[i] = sent[i]
    BY DEF InOrderInv
  <2>2. received \in Seq(Seq(Byte)) /\ sent \in Seq(Seq(Byte)) /\ Len(received) = Len(sent)
    BY <1>5, <1>8 DEF SerializerTypeInv
  <2> QED BY <2>1, <2>2, SeqEqual
<1>10. lenCurrentDatagram = 0
  <2>1. lenCurrentDatagram # 0 => Parsed < Len(sent)
    BY <1>0 DEF HeldInv
  <2> QED BY <2>1, <1>6, <1>8
<1>11. buf = <<>> /\ bufSize \o (data \o stream) = rest[Parsed]
  BY <1>0, <1>10 DEF HeldInv
<1>12. rest[Parsed] = <<>>
  BY <1>0, <1>8 DEF Framed
<1> QED BY <1>1, <1>4, <1>9, <1>11, <1>12

(* However the connection cuts the stream, a receiver that has taken every *)
(* byte has every datagram and keeps nothing; it gives up only when a      *)
(* datagram was sent that is above its limit.                              *)
THEOREM NothingIsHeldBack == SerializerSpec => []NothingHeldBack
<1>1. SerializerInit => SerializerInv
  BY SerializerInitInv
<1>2. SerializerInv /\ [SerializerNext]_serializerVars => SerializerInv'
  BY SerializerStepInv
<1>3. SerializerInv => NothingHeldBack
  <2> SUFFICES ASSUME SerializerInv PROVE NothingHeldBack
    OBVIOUS
  <2>1. stream = <<>> /\ ~parsing /\ ~failed => received = sent /\ bufSize = <<>> /\ buf = <<>>
    BY NothingKept
  <2>2. ASSUME failed PROVE \E i \in DOMAIN sent : ~Allowed(Len(sent[i]), ReceiverMax)
    <3>1. PICK i \in 1 .. Len(sent) : ~Allowed(Len(sent[i]), ReceiverMax)
      BY <2>2 DEF SerializerInv, ParsingInv
    <3>2. sent \in Seq(Seq(Byte))
      BY DEF SerializerInv, SerializerTypeInv
    <3>3. DOMAIN sent = 1 .. Len(sent)
      BY <3>2, LenProperties
    <3> QED BY <3>1, <3>3
  <2> QED BY <2>1, <2>2 DEF NothingHeldBack
<1> QED BY <1>1, <1>2, <1>3, PTL DEF SerializerSpec

LEMMA ChannelInit == SerializerInit => Channel!Init
BY DEF SerializerInit, Channel!Init

(* Build is a Send of the channel, a Deliver of datagrams is a Receive,    *)
(* and every other step leaves the channel as it is.                       *)
LEMMA ChannelStep ==
  ASSUME SerializerInv, SerializerInv', [SerializerNext]_serializerVars
  PROVE  [Channel!Next]_<<sent, received>>
<1>1. ASSUME NEW d \in Datagram, Build(d) PROVE Channel!Next
  BY <1>1 DEF Build, Channel!Next, Channel!Send
<1>2. ASSUME Deliver, datagrams # <<>> PROVE Channel!Next
  <2>1. /\ received' = received \o datagrams /\ datagrams' = <<>> /\ sent' = sent
    BY <1>2 DEF Deliver
  <2>2. /\ datagrams \in Seq(Seq(Byte)) /\ Len(datagrams) \in Nat
        /\ received \in Seq(Seq(Byte)) /\ Len(received) \in Nat
        /\ received' \in Seq(Seq(Byte)) /\ Len(received') \in Nat
        /\ sent \in Seq(Seq(Byte)) /\ Len(sent) \in Nat
    BY LenProperties DEF SerializerInv, SerializerTypeInv
  <2>3. Len(received') = Len(received) + Len(datagrams)
    BY <2>1, <2>2, ConcatProperties
  <2>4. Len(datagrams) # 0
    BY <1>2, <2>2, EmptySeq
  <2>5. /\ Len(received') <= Len(sent)
        /\ \A i \in 1 .. Len(received') : received'[i] = sent[i]
    <3>1. Len(datagrams') = 0
      BY <2>1
    <3>2. Parsed' = Len(received')
      BY <3>1, <2>2 DEF Parsed
    <3> QED BY <3>2, <2>1 DEF SerializerInv, InOrderInv
  <2>6. Len(received') \in (Len(received) + 1) .. Len(sent)
    BY <2>2, <2>3, <2>4, <2>5
  <2>7. received' = SubSeq(sent, 1, Len(received'))
    <3>1. /\ SubSeq(sent, 1, Len(received')) \in Seq(Seq(Byte))
          /\ Len(SubSeq(sent, 1, Len(received'))) = Len(received')
          /\ \A i \in 1 .. Len(received') : SubSeq(sent, 1, Len(received'))[i] = sent[i]
      <4>1. \A i \in 1 .. Len(received') : sent[i] \in Seq(Byte)
        BY <2>2, <2>5, ElementOfSeq
      <4> DEFINE m == Len(received')
                 front == SubSeq(sent, 1, m)
      <4>2. m \in Nat /\ \A i \in 1 .. m : sent[i] \in Seq(Byte)
        BY <2>2, <4>1
      <4> HIDE DEF m
      <4>3. /\ front \in Seq(Seq(Byte))
            /\ Len(front) = IF 1 <= m THEN m - 1 + 1 ELSE 0
            /\ \A i \in 1 .. m - 1 + 1 : front[i] = sent[1 + i - 1]
        BY <4>2, SubSeqProperties
      <4> HIDE DEF front
      <4>4. Len(front) = m /\ \A i \in 1 .. m : front[i] = sent[i]
        BY <4>2, <4>3
      <4> QED BY <4>3, <4>4 DEF m, front
    <3> QED BY <3>1, <2>2, <2>5, SeqEqual
  <2> QED BY <2>1, <2>6, <2>7 DEF Channel!Next, Channel!Receive
<1>3. ASSUME Deliver, datagrams = <<>> PROVE UNCHANGED <<sent, received>>
  <2>1. received \in Seq(Seq(Byte))
    BY DEF SerializerInv, SerializerTypeInv
  <2>2. received \o <<>> = received
    BY <2>1, ConcatEmptySeq
  <2> QED BY <2>2, <1>3 DEF Deliver
<1>4. ASSUME NEW n \in 1 .. Len(stream), StartParse(n) PROVE UNCHANGED <<sent, received>>
  BY <1>4 DEF StartParse
<1>5. CASE ParseLength
  BY <1>5 DEF ParseLength
<1>6. CASE ParsePartOfLength
  BY <1>6 DEF ParsePartOfLength
<1>7. CASE ParseContent
  BY <1>7 DEF ParseContent
<1>8. CASE ParsePartOfContent
  BY <1>8 DEF ParsePartOfContent
<1>9. CASE UNCHANGED serializerVars
  BY <1>9 DEF serializerVars
<1> QED BY <1>1, <1>2, <1>3, <1>4, <1>5, <1>6, <1>7, <1>8, <1>9 DEF SerializerNext

(* The listener gets the datagrams that were sent, whole, in order and     *)
(* each once: the serializer implements DatagramChannel.                   *)
THEOREM SerializerImplementsChannel == SerializerSpec => ChannelSpec
<1>1. SerializerInit => SerializerInv
  BY SerializerInitInv
<1>2. SerializerInv /\ [SerializerNext]_serializerVars => SerializerInv'
  BY SerializerStepInv
<1>3. SerializerInit => Channel!Init
  BY ChannelInit
<1>4. SerializerInv /\ SerializerInv' /\ [SerializerNext]_serializerVars
        => [Channel!Next]_<<sent, received>>
  BY ChannelStep
<1> QED BY <1>1, <1>2, <1>3, <1>4, PTL DEF SerializerSpec, ChannelSpec, Channel!Spec


=============================================================================
