------------------------- MODULE TcpDatagramClient -------------------------
(***************************************************************************)
(* The life of a TcpDatagramClient: it connects, receives a stream that    *)
(* its serializer cuts into datagrams, and on an error closes or connects  *)
(* again after a while.                                                    *)
(*                                                                         *)
(* Three threads meet in it: the loop that calls back (onConnect,          *)
(* onReceiveStream, onSendStream), the timer that connects again and the   *)
(* application.  They share the object's lock, but onConnect writes the    *)
(* sockets without it; so the loop's callbacks are several steps here and  *)
(* what holds the lock is one.                                             *)
(***************************************************************************)
EXTENDS Naturals

CONSTANTS
  Sockets,   \* the sockets, used again once nothing refers to them
  NoSocket   \* the null reference

ASSUME SocketAssumption == NoSocket \notin Sockets

VARIABLES
  flagOpened,        \* m_flagOpened
  flagAutoReconnect, \* m_flagAutoReconnect, given at creation
  socketConnect,     \* m_socketConnect
  socketMessage,     \* m_socketMessage
  timers,            \* timeouts of _reconnect that have not fired
  socket,            \* the state of each AsyncTcpSocket
  receiving,         \* receive requests that each socket has not completed
  sending,           \* sockets with a send request not completed
  io,                \* the callback the loop is in, and its socket
  partial,           \* m_datagram: the socket whose bytes it holds a part of a datagram of
  mixed              \* history: a datagram was made of the bytes of two connections

references  == <<flagOpened, socketConnect, socketMessage, timers, socket>>
requests    == <<receiving, sending>>
serializer  == <<partial, mixed>>
vars == <<references, flagAutoReconnect, requests, io, serializer>>

-----------------------------------------------------------------------------
Idle == [at |-> "idle", socket |-> NoSocket]
In(where, s) == [at |-> where, socket |-> s]

(* m_datagram holds no byte; it holds bytes of a socket that is gone. *)
Empty == "empty"
Stale == "stale"

Free(s) ==
  /\ socket[s] = "closed" /\ s \notin {socketConnect, socketMessage}
  /\ receiving[s] = 0 /\ s \notin sending /\ io.socket # s

(* The sockets when those of S are closed. *)
Closing(S) == [s \in Sockets |-> IF s \in S THEN "closed" ELSE socket[s]]

(* _close *)
CloseSockets ==
  /\ socket' = Closing({socketConnect, socketMessage})
  /\ socketConnect' = NoSocket
  /\ socketMessage' = NoSocket

(* close, which does nothing the second time. *)
CloseClient ==
  \/ flagOpened /\ CloseSockets /\ flagOpened' = FALSE /\ UNCHANGED timers
  \/ ~flagOpened /\ UNCHANGED references

(* _reconnect *)
Reconnect ==
  \/ flagOpened /\ CloseSockets /\ timers' = timers + 1 /\ UNCHANGED flagOpened
  \/ ~flagOpened /\ UNCHANGED references

(* connect: the open connection is closed, a connecting one is only        *)
(* forgotten; pending is the number of timers without the one that fired.  *)
CreateSocket(pending) ==
  \E s \in Sockets :
    /\ flagOpened /\ Free(s)
    /\ socket' = [Closing({socketMessage}) EXCEPT ![s] = "connecting"]
    /\ socketConnect' = s /\ socketMessage' = NoSocket
    /\ timers' = pending
    /\ partial' = IF partial = s THEN Stale ELSE partial
    /\ UNCHANGED <<flagOpened, mixed>>

CreateFails(pending) ==
  /\ flagOpened
  /\ socket' = Closing({socketMessage})
  /\ socketConnect' = NoSocket /\ socketMessage' = NoSocket
  /\ timers' = IF flagAutoReconnect THEN pending + 1 ELSE pending
  /\ UNCHANGED <<flagOpened, serializer>>

-----------------------------------------------------------------------------
(* The application and the timer *)

(* The application connects a client that is neither connecting nor        *)
(* connected and that does not wait to connect again (flagAutoConnect is   *)
(* the first such call).                                                   *)
Connect ==
  /\ socketConnect = NoSocket /\ socketMessage = NoSocket /\ timers = 0 /\ io = Idle
  /\ CreateSocket(timers) \/ CreateFails(timers)
  /\ UNCHANGED <<flagAutoReconnect, requests, io>>

(* Mutant: the timer is not used up. *)
TimerRepeats ==
  /\ timers > 0
  /\ CreateSocket(timers)
  /\ UNCHANGED <<flagAutoReconnect, requests, io>>

TimerConnects ==
  /\ timers > 0
  /\ CreateSocket(timers - 1)
  /\ UNCHANGED <<flagAutoReconnect, requests, io>>

TimerFails ==
  /\ timers > 0
  /\ CreateFails(timers - 1)
  /\ UNCHANGED <<flagAutoReconnect, requests, io>>

TimerAfterClose ==
  /\ timers > 0 /\ ~flagOpened
  /\ timers' = timers - 1
  /\ UNCHANGED <<flagOpened, socketConnect, socketMessage, socket, flagAutoReconnect,
                 requests, io, serializer>>

Close ==
  /\ flagOpened
  /\ CloseClient
  /\ UNCHANGED <<flagAutoReconnect, requests, io, serializer>>

Send ==
  /\ flagOpened /\ socketMessage # NoSocket
  /\ socket[socketMessage] = "open"
  /\ sending' = sending \cup {socketMessage}
  /\ UNCHANGED <<references, flagAutoReconnect, receiving, io, serializer>>

-----------------------------------------------------------------------------
(* The loop: onConnect *)

(* The loop answers in order: what it still calls back for a closed socket *)
(* comes before the answer for the socket that connects after it.          *)
Answered(s) ==
  /\ io = Idle /\ socket[s] = "connecting"
  /\ \A t \in Sockets : socket[t] = "closed" => receiving[t] = 0 /\ t \notin sending

Connected(s) ==
  /\ Answered(s)
  /\ socket' = [socket EXCEPT ![s] = "open"]
  /\ io' = In("onConnect", s)
  /\ UNCHANGED <<flagOpened, socketConnect, socketMessage, timers, flagAutoReconnect,
                 requests, serializer>>

Refused(s) ==
  /\ Answered(s)
  /\ socket' = [socket EXCEPT ![s] = "closed"]
  /\ io' = In("onConnectError", s)
  /\ UNCHANGED <<flagOpened, socketConnect, socketMessage, timers, flagAutoReconnect,
                 requests, serializer>>

(* m_socketConnect.setNull(), without the lock. *)
Forget ==
  /\ io.at \in {"onConnect", "onConnectError"}
  /\ socketConnect' = NoSocket
  /\ io' = In(IF io.at = "onConnect" THEN "assign" ELSE "failed", io.socket)
  /\ UNCHANGED <<flagOpened, socketMessage, timers, socket, flagAutoReconnect, requests,
                 serializer>>

(* m_socketMessage = socket, without the lock; then the listener. *)
Assign ==
  /\ io.at = "assign"
  /\ socketMessage' = io.socket
  /\ io' = In("receive", io.socket)
  /\ UNCHANGED <<flagOpened, socketConnect, timers, socket, flagAutoReconnect, requests,
                 serializer>>

(* After the listener: the next receive request, on the socket of now; a   *)
(* closed socket refuses it.                                               *)
PostReceive ==
  /\ io.at = "receive"
  /\ receiving' = [s \in Sockets |->
                     IF s = socketMessage /\ socket[s] = "open" THEN receiving[s] + 1
                     ELSE receiving[s]]
  /\ io' = Idle
  /\ UNCHANGED <<references, flagAutoReconnect, sending, serializer>>

(* Mutant: a refused connection is reported and not tried again. *)
ConnectFailedForGood ==
  /\ io.at = "failed"
  /\ UNCHANGED references
  /\ io' = Idle
  /\ UNCHANGED <<flagAutoReconnect, requests, serializer>>

ConnectFailed ==
  /\ io.at = "failed"
  /\ IF flagAutoReconnect THEN Reconnect ELSE UNCHANGED references
  /\ io' = Idle
  /\ UNCHANGED <<flagAutoReconnect, requests, serializer>>

-----------------------------------------------------------------------------
(* The loop: onReceiveStream, onSendStream *)

(* Mutant: an error of a socket that is no longer the connection's counts. *)
OnAnyMessageError(s) == CloseClient \/ (flagAutoReconnect /\ Reconnect)

(* onMessageError: the first error of the connection ends it; the listener *)
(* may close the client.                                                   *)
OnMessageError(s) ==
  \/ socketMessage = s /\ (CloseClient \/ (flagAutoReconnect /\ Reconnect))
  \/ socketMessage # s /\ UNCHANGED references

(* Mutant: an error is reported that no receive request asked for. *)
ReceiveErrorUnasked(s) ==
  /\ io = Idle /\ socket[s] # "closed"
  /\ receiving' = [receiving EXCEPT ![s] = @ - 1]
  /\ OnMessageError(s)
  /\ UNCHANGED <<flagAutoReconnect, sending, io, serializer>>

ReceiveError(s) ==
  /\ io = Idle /\ receiving[s] > 0
  /\ receiving' = [receiving EXCEPT ![s] = @ - 1]
  /\ OnMessageError(s)
  /\ UNCHANGED <<flagAutoReconnect, sending, io, serializer>>

(* Bytes of s: datagrams end in them, and they end in a datagram or not.   *)
(* When the serializer holds bytes of another connection, the first        *)
(* datagram is made of both.                                               *)
Parse(s) ==
  /\ partial' \in {Empty, s} \cup {partial}
  /\ mixed' = (mixed \/ (partial \notin {Empty, s} /\ partial' # partial))

ReceiveData(s) ==
  /\ io = Idle /\ receiving[s] > 0
  /\ receiving' = [receiving EXCEPT ![s] = @ - 1]
  /\ Parse(s)
  /\ io' = In("receive", s)
  /\ UNCHANGED <<references, flagAutoReconnect, sending>>

(* The length that comes next is zero or above the limit: the serializer   *)
(* is cleared and the datagrams before it are dropped.                     *)
ReceiveGarbage(s) ==
  /\ io = Idle /\ receiving[s] > 0
  /\ receiving' = [receiving EXCEPT ![s] = @ - 1]
  /\ partial' = Empty
  /\ OnMessageError(s)
  /\ io' = In("receive", s)
  /\ UNCHANGED <<flagAutoReconnect, sending, mixed>>

(* Mutant: the end of a send asks for more data. *)
SendDoneReceives(s) ==
  /\ io = Idle /\ s \in sending
  /\ sending' = sending \ {s}
  /\ receiving' = [receiving EXCEPT ![s] = IF socket[s] = "open" THEN @ + 1 ELSE @]
  /\ UNCHANGED <<references, flagAutoReconnect, io, serializer>>

SendDone(s) ==
  /\ io = Idle /\ s \in sending
  /\ sending' = sending \ {s}
  /\ UNCHANGED <<references, flagAutoReconnect, receiving, io, serializer>>

SendError(s) ==
  /\ io = Idle /\ s \in sending
  /\ sending' = sending \ {s}
  /\ OnMessageError(s)
  /\ UNCHANGED <<flagAutoReconnect, receiving, io, serializer>>

-----------------------------------------------------------------------------
Init ==
  /\ flagOpened = TRUE /\ flagAutoReconnect \in BOOLEAN
  /\ socketConnect = NoSocket /\ socketMessage = NoSocket
  /\ timers = 0
  /\ socket = [s \in Sockets |-> "closed"]
  /\ receiving = [s \in Sockets |-> 0] /\ sending = {}
  /\ io = Idle
  /\ partial = Empty /\ mixed = FALSE

Callback == Forget \/ Assign \/ PostReceive \/ ConnectFailed

Event(s) ==
  \/ Connected(s) \/ Refused(s)
  \/ ReceiveError(s) \/ ReceiveData(s) \/ ReceiveGarbage(s)
  \/ SendDone(s) \/ SendError(s)

Next ==
  \/ Connect \/ TimerConnects \/ TimerFails \/ TimerAfterClose \/ Close \/ Send
  \/ Callback
  \/ \E s \in Sockets : Event(s)

Spec == Init /\ [][Next]_vars

(* The loop and the timer run.  Of the connections that are tried again    *)
(* and again, not all fail.                                                *)
Fairness ==
  /\ WF_vars(Callback)
  /\ WF_vars(TimerFails) /\ SF_vars(TimerConnects)
  /\ WF_vars(\E s \in Sockets : Refused(s)) /\ SF_vars(\E s \in Sockets : Connected(s))
  /\ \A s \in Sockets : WF_vars(ReceiveError(s)) /\ WF_vars(SendDone(s))

FairSpec == Spec /\ Fairness

-----------------------------------------------------------------------------
(* Properties *)

TypeOK ==
  /\ flagOpened \in BOOLEAN /\ flagAutoReconnect \in BOOLEAN
  /\ {socketConnect, socketMessage} \subseteq Sockets \cup {NoSocket}
  /\ timers \in Nat
  /\ socket \in [Sockets -> {"closed", "connecting", "open"}]
  /\ receiving \in [Sockets -> Nat] /\ sending \subseteq Sockets
  /\ \/ io = Idle
     \/ io \in [at : {"onConnect", "onConnectError", "assign", "failed", "receive"},
                socket : Sockets]
  /\ partial \in Sockets \cup {Empty, Stale} /\ mixed \in BOOLEAN

Live == {s \in Sockets : socket[s] # "closed"}
Failing == io.at \in {"onConnectError", "failed"}

(* There is never more than one connection being made, open or waited for: *)
(* a connection that fails in the loop, in a send and in the serializer is *)
(* tried again once, and no socket is left open behind the next one.       *)
OneConnection ==
  /\ \A s, t \in Live : s = t
  /\ timers <= 1
  /\ Live # {} => timers = 0 /\ ~Failing
  /\ Failing => timers = 0

(* The client has one buffer to receive into. *)
OneReceive == \A s \in Sockets : socket[s] = "open" => receiving[s] <= 1

(* The strengthening of both that every step preserves.  An open client    *)
(* has no closed socket for its connection, a socket that is not closed is *)
(* referred to, and nobody but the loop holds a receive request back.      *)
Connecting == io.at \in {"onConnect", "assign"}

Referenced ==
  /\ \A s \in Live : s \in {socketConnect, socketMessage} \/ (Connecting /\ io.socket = s)
  /\ Connecting => timers = 0 /\ (Live = {} \/ socket[io.socket] = "open")
  /\ flagOpened => /\ socketMessage # NoSocket => socket[socketMessage] = "open"
                   /\ Connecting => socket[io.socket] = "open"

Requests ==
  /\ \A s \in Sockets :
       /\ socket[s] = "connecting" => receiving[s] = 0
       /\ socket[s] = "open" /\ (Connecting \/ io.at = "receive") => receiving[s] = 0
  /\ \A s, t \in Sockets : socket[s] = "open" /\ socket[t] = "closed" => receiving[t] = 0

IInv == TypeOK /\ OneConnection /\ OneReceive /\ Referenced /\ Requests

(* A datagram is made of the bytes of one connection (datagram.h,          *)
(* DatagramSerializer: the stream is lengths and contents).                *)
WholeDatagrams == ~mixed

(* An automatic client that is connected and not closed comes back to      *)
(* receive, whatever fails.                                                *)
Receives == socketMessage # NoSocket /\ receiving[socketMessage] > 0
ComesBack ==
  flagAutoReconnect => [](socketConnect # NoSocket => []<>(Receives \/ ~flagOpened))

=============================================================================
