-------------------------------- MODULE Hns --------------------------------
(***************************************************************************)
(* The host name service of SLibx: one HnsService and the HnsClients that  *)
(* open a session with it, keep it alive, look each other up and relay     *)
(* messages through it, over UDP.                                          *)
(*                                                                         *)
(* The service decrypts every packet of a session with a key that all its  *)
(* clients share, so a session is told from another one only by its id;    *)
(* the session ids are what this module is about.  Encryption, nonces and  *)
(* checksums are abstracted: a packet that fails its checksum is lost, and *)
(* a packet whose session body does not hash (the clients' and the         *)
(* service's m_iv are shared by threads without a lock) is RejectRequest.  *)
(***************************************************************************)
EXTENDS Udp

CONSTANTS
  Clients,      \* client ids, each used by one HnsClient
  MessageIds,   \* ids of the messages that the clients relay
  InitThreads,  \* slots for the threads that answer Initialize Session
  MaxSession,   \* bound: no session id above this one is issued
  MaxPort,      \* bound: how often the address of a client changes
  MaxStart,     \* bound: how often the service is started again
  MaxRequest    \* bound: requests of the applications (query, message, broadcast)

ASSUME BoundAssumption ==
  /\ MaxSession \in Nat /\ MaxPort \in Nat /\ MaxStart \in Nat
  /\ MaxPackets \in Nat /\ MaxRequest \in Nat /\ Repeats \in BOOLEAN

VARIABLES
  (* HnsService *)
  sessions,          \* m_sessions: session id -> [clientId, udpSessionAddress]
  mapClientSessions, \* m_mapClientSessions: client id -> session id, NoSession if absent
  lastSessionId,     \* the static counter of _generateNewSessionId, 0 until it is seeded
  now,               \* the clock in milliseconds, read to seed the counter
  init,              \* the threads of _udp_receive_L1_initializeSession
  broadcasts,        \* the threads of _udp_send_L2_relayBroadcastMessage
  heard,             \* timeLastCommunicatedUdp and its source: where each client was last heard
  start,             \* how often the service was started again
  (* HnsClient *)
  sessionId,         \* m_sessionId
  recent,            \* the last packet came less than the connection timeout ago
  port,              \* the client's address is <<client, port[client]>>
  (* history *)
  issued,            \* history: every <<session id, client, start>> ever created
  requested,         \* bound counter: requests of the applications so far
  sent,              \* history: <<sender, target, message id>> handed to the service
  received           \* history: <<sender, target, message id>> passed to a listener

serviceVars == <<sessions, mapClientSessions, lastSessionId, now, init,
                 broadcasts, heard, start>>
clientVars  == <<sessionId, recent, port>>
history     == <<issued, requested, sent, received>>
vars        == <<serviceVars, clientVars, net, history>>

-----------------------------------------------------------------------------
(* Addresses and packets.  An address belongs to one client for ever: an   *)
(* address that a client leaves is not taken over by another one.          *)

NoSession  == 0
NoSessions == [id \in {} |-> <<>>]
Address    == Clients \X Nat
Unknown    == <<>>                   \* the empty ClientAddress of "not found"

AddressOf(c) == <<c, port[c]>>

(* A request of level 2 (MethodId 3) carries the id of the sender's        *)
(* session; src is the address it is sent from.                            *)
InitPacket == [kind : {"init"}, src : Address, client : Clients]
Request ==
       [kind : {"keepAlive"}, src : Address, session : Nat]
  \cup [kind : {"queryHost"}, src : Address, session : Nat, target : Clients]
  \cup [kind : {"sendMessage"}, src : Address, session : Nat, target : Clients, id : MessageIds]
  \cup [kind : {"broadcast"}, src : Address, session : Nat, id : MessageIds]

(* What the service sends.  `session` of a data packet is history: the      *)
(* session it was written for, which MethodId 4 does not put in the packet. *)
InitResponse == [kind : {"initResponse"}, dst : Address, session : Nat]
Data ==
       [kind : {"keepAliveResponse"}, dst : Address, session : Nat]
  \cup [kind : {"hostInfo"}, dst : Address, session : Nat, target : Clients,
        address : Address \cup {Unknown}]
  \cup [kind : {"message", "broadcastMessage"}, dst : Address, session : Nat,
        sender : Clients, id : MessageIds]
ErrorPacket == [kind : {"error"}, dst : Address]
Packet == InitPacket \cup Request \cup InitResponse \cup Data \cup ErrorPacket

-----------------------------------------------------------------------------
(* HnsClient *)

(* Mutant: isConnected without the timeout. *)
HasSession(c) == sessionId[c] # NoSession

(* isConnected: there is a session and the service was heard in time. *)
Connected(c) == sessionId[c] # NoSession /\ recent[c]

InitOf(c)      == [kind |-> "init", src |-> AddressOf(c), client |-> c]
KeepAliveOf(c) == [kind |-> "keepAlive", src |-> AddressOf(c), session |-> sessionId[c]]

(* runStep when the keep-alive interval is over: connect() sends a keep    *)
(* alive on the session, or asks for a session.                            *)
RunStep(c) ==
  /\ Send({IF Connected(c) THEN KeepAliveOf(c) ELSE InitOf(c)})
  /\ UNCHANGED <<serviceVars, clientVars, history>>

(* queryHost, sendMessage and broadcastMessage do nothing unless connected. *)
QueryHost(c, d) ==
  /\ requested < MaxRequest /\ requested' = requested + 1
  /\ Connected(c)
  /\ Send({[kind |-> "queryHost", src |-> AddressOf(c), session |-> sessionId[c],
            target |-> d]})
  /\ UNCHANGED <<serviceVars, clientVars, issued, sent, received>>

SendMessage(c, d, m) ==
  /\ requested < MaxRequest /\ requested' = requested + 1
  /\ Connected(c)
  /\ Send({[kind |-> "sendMessage", src |-> AddressOf(c), session |-> sessionId[c],
            target |-> d, id |-> m]})
  /\ sent' = sent \cup {<<c, d, m>>}
  /\ UNCHANGED <<serviceVars, clientVars, issued, received>>

Others(c) == Clients \ {c}

Broadcast(c, m) ==
  /\ requested < MaxRequest /\ requested' = requested + 1
  /\ Connected(c)
  /\ Send({[kind |-> "broadcast", src |-> AddressOf(c), session |-> sessionId[c], id |-> m]})
  /\ sent' = sent \cup {<<c, d, m>> : d \in Others(c)}
  /\ UNCHANGED <<serviceVars, clientVars, issued, received>>

(* A packet to the current address of the client. *)
ArrivesAt(p, c, kinds) == p \in net /\ p.kind \in kinds /\ p.dst = AddressOf(c)

(* _receive_L1_initializeSessionResponse: whichever response comes last    *)
(* names the session.                                                      *)
ReceiveInitResponse(c, p) ==
  /\ ArrivesAt(p, c, {"initResponse"})
  /\ sessionId' = [sessionId EXCEPT ![c] = p.session]
  /\ recent' = [recent EXCEPT ![c] = TRUE]
  /\ Reply(p, {})
  /\ UNCHANGED <<serviceVars, port, history>>

(* _receive_L1_sendDataFromServiceToClient: any packet that decrypts, on a *)
(* connected client, proves the service alive; a message goes to the       *)
(* listener.                                                               *)
ReceiveData(c, p) ==
  /\ ArrivesAt(p, c, {"keepAliveResponse", "hostInfo", "message", "broadcastMessage"})
  /\ Connected(c)
  /\ received' = IF p.kind \in {"message", "broadcastMessage"}
                 THEN received \cup {<<p.sender, c, p.id>>} ELSE received
  /\ recent' = [recent EXCEPT ![c] = TRUE]
  /\ Reply(p, {})
  /\ UNCHANGED <<serviceVars, sessionId, port, issued, requested, sent>>

(* MethodId 5: the client asks for a session again. *)
ReceiveError(c, p) ==
  /\ ArrivesAt(p, c, {"error"})
  /\ Reply(p, {InitOf(c)})
  /\ UNCHANGED <<serviceVars, clientVars, history>>

(* The connection timeout passes without a packet of the service. *)
Expire(c) ==
  /\ recent[c]
  /\ recent' = [recent EXCEPT ![c] = FALSE]
  /\ UNCHANGED <<serviceVars, sessionId, port, net, history>>

(* The client is released and another one created for its id (addService,  *)
(* or the program starts again).  A released client takes no packet and no *)
(* step, which is a client whose packets are lost.                         *)
Recreate(c) ==
  /\ sessionId' = [sessionId EXCEPT ![c] = NoSession]
  /\ recent' = [recent EXCEPT ![c] = FALSE]
  /\ UNCHANGED <<serviceVars, port, net, history>>

-----------------------------------------------------------------------------
(* HnsService.  The thread that receives starts a thread for each request  *)
(* to initialize a session; these threads share the two maps, which lock   *)
(* each call and nothing beyond it.                                        *)

Idle == <<>>                        \* a thread slot that is free

InitResponseTo(a, id) == [kind |-> "initResponse", dst |-> a, session |-> id]

(* Mutant: the counter is not seeded. *)
UnseededSessionId == lastSessionId + 1

(* _generateNewSessionId: the counter starts from the clock. *)
NewSessionId == (IF lastSessionId = 0 THEN now ELSE lastSessionId) + 1

MoveTo(id, a) ==
  [sessions EXCEPT ![id] = [clientId |-> @.clientId, udpSessionAddress |-> a]]

(* The client has a session: it moves to the address the request came from *)
(* and is the answer.                                                      *)
FindSession(p) ==
  LET id == mapClientSessions[p.client]
  IN  /\ p.kind = "init" /\ id # NoSession
      /\ sessions' = MoveTo(id, p.src)
      /\ heard' = [heard EXCEPT ![p.client] = p.src]
      /\ Reply(p, {InitResponseTo(p.src, id)})
      /\ UNCHANGED <<mapClientSessions, lastSessionId, now, init, broadcasts, start,
                     clientVars, history>>

(* Mutant: the answer leaves before the session is in the map by client id. *)
CreateSessionAnswering(t, p) ==
  /\ p.kind = "init" /\ mapClientSessions[p.client] = NoSession
  /\ init[t] = Idle
  /\ NewSessionId <= MaxSession
  /\ lastSessionId' = NewSessionId
  /\ sessions' = [id \in DOMAIN sessions \cup {NewSessionId} |->
                    IF id = NewSessionId
                    THEN [clientId |-> p.client, udpSessionAddress |-> p.src]
                    ELSE sessions[id]]
  /\ issued' = issued \cup {<<NewSessionId, p.client, start>>}
  /\ init' = [init EXCEPT ![t] = [client |-> p.client, src |-> p.src, session |-> NewSessionId]]
  /\ Reply(p, {InitResponseTo(p.src, NewSessionId)})
  /\ UNCHANGED <<mapClientSessions, now, broadcasts, heard, start, clientVars,
                 requested, sent, received>>

(* The client has none: a thread creates one, and is left with publishing  *)
(* it.  Until it does, another thread finds none either.                   *)
CreateSession(t, p) ==
  /\ p.kind = "init" /\ mapClientSessions[p.client] = NoSession
  /\ init[t] = Idle
  /\ NewSessionId <= MaxSession
  /\ lastSessionId' = NewSessionId
  /\ sessions' = [id \in DOMAIN sessions \cup {NewSessionId} |->
                    IF id = NewSessionId
                    THEN [clientId |-> p.client, udpSessionAddress |-> p.src]
                    ELSE sessions[id]]
  /\ issued' = issued \cup {<<NewSessionId, p.client, start>>}
  /\ init' = [init EXCEPT ![t] = [client |-> p.client, src |-> p.src, session |-> NewSessionId]]
  /\ Reply(p, {})
  /\ UNCHANGED <<mapClientSessions, now, broadcasts, heard, start, clientVars,
                 requested, sent, received>>

(* The map by client id is written after the map by session id; the answer *)
(* leaves when both are.                                                   *)
PublishSession(t) ==
  /\ init[t] # Idle
  /\ mapClientSessions' = [mapClientSessions EXCEPT ![init[t].client] = init[t].session]
  /\ heard' = [heard EXCEPT ![init[t].client] = init[t].src]
  /\ Send({InitResponseTo(sessions[init[t].session].udpSessionAddress, init[t].session)})
  /\ init' = [init EXCEPT ![t] = Idle]
  /\ UNCHANGED <<sessions, lastSessionId, now, broadcasts, start, clientVars, history>>

(* _udp_receive_L1_sendDataFromClientToService: a packet for a session     *)
(* that the service does not know is ignored (Lose); any other one that    *)
(* hashes moves the session to the address it came from, and is served.    *)
Accepts(p, kinds) == p \in net /\ p.kind \in kinds /\ p.session \in DOMAIN sessions

(* Mutant: only Initialize Session records the address. *)
NotMoved(p) == sessions

Moved(p) == MoveTo(p.session, p.src)

Serve(p) ==
  /\ sessions' = Moved(p)
  /\ heard' = [heard EXCEPT ![sessions[p.session].clientId] = p.src]
  /\ UNCHANGED <<mapClientSessions, lastSessionId, now, init, start, clientVars, history>>

ServeKeepAlive(p) ==
  /\ Accepts(p, {"keepAlive"})
  /\ Serve(p)
  /\ Reply(p, {[kind |-> "keepAliveResponse", dst |-> p.src, session |-> p.session]})
  /\ UNCHANGED broadcasts

(* The answer names the address of the target's session; the listener may  *)
(* leave a query or a message unanswered, which is a loss.                 *)
ServeQueryHost(p) ==
  /\ Accepts(p, {"queryHost"})
  /\ Serve(p)
  /\ LET id == mapClientSessions[p.target]
     IN  Reply(p, {[kind |-> "hostInfo", dst |-> p.src, session |-> p.session,
                    target |-> p.target,
                    address |-> IF id = NoSession THEN Unknown
                                ELSE Moved(p)[id].udpSessionAddress]})
  /\ UNCHANGED broadcasts

RelayTo(id, at, kind, c, m) ==
  [kind |-> kind, dst |-> at[id].udpSessionAddress, session |-> id, sender |-> c, id |-> m]

ServeMessage(p) ==
  /\ Accepts(p, {"sendMessage"})
  /\ Serve(p)
  /\ LET id == mapClientSessions[p.target]
     IN  Reply(p, IF id = NoSession THEN {}
                  ELSE {RelayTo(id, Moved(p), "message", sessions[p.session].clientId, p.id)})
  /\ UNCHANGED broadcasts

(* A broadcast is relayed by a thread of its own. *)
ServeBroadcast(p) ==
  /\ Accepts(p, {"broadcast"})
  /\ Serve(p)
  /\ broadcasts' = broadcasts \cup {<<sessions[p.session].clientId, p.id>>}
  /\ Reply(p, {})

(* Mutant: the sender is a target of its broadcast. *)
AllTargets(c) == {mapClientSessions[d] : d \in Clients} \ {NoSession}

(* The sessions in the map by client id, but for the sender's. *)
BroadcastTargets(c) == {mapClientSessions[d] : d \in Others(c)} \ {NoSession}

RelayBroadcast(b) ==
  /\ b \in broadcasts
  /\ broadcasts' = broadcasts \ {b}
  /\ Send({RelayTo(id, sessions, "broadcastMessage", b[1], b[2]) : id \in BroadcastTargets(b[1])})
  /\ UNCHANGED <<sessions, mapClientSessions, lastSessionId, now, init, heard, start,
                 clientVars, history>>

(* The body does not hash: an error goes to the session's last address. *)
RejectRequest(p) ==
  /\ Accepts(p, {"keepAlive", "queryHost", "sendMessage", "broadcast"})
  /\ Reply(p, {[kind |-> "error", dst |-> sessions[p.session].udpSessionAddress]})
  /\ UNCHANGED <<serviceVars, clientVars, history>>

(* Mutant: release leaves the map by client id. *)
RestartKeepingClients ==
  /\ start < MaxStart
  /\ start' = start + 1
  /\ sessions' = NoSessions
  /\ init' = [t \in InitThreads |-> Idle]
  /\ broadcasts' = {}
  /\ heard' = [c \in Clients |-> Unknown]
  /\ lastSessionId' \in {0, lastSessionId}
  /\ now' = IF lastSessionId > now THEN lastSessionId ELSE now
  /\ UNCHANGED <<mapClientSessions, clientVars, net, history>>

(* The service ends and starts again with no session: in the same process, *)
(* where the counter goes on, or in a new one, where the clock is past     *)
(* every id issued (fewer than one session was created per millisecond and *)
(* the clock was not set back).                                            *)
Restart ==
  /\ start < MaxStart
  /\ start' = start + 1
  /\ sessions' = NoSessions
  /\ mapClientSessions' = [c \in Clients |-> NoSession]
  /\ init' = [t \in InitThreads |-> Idle]
  /\ broadcasts' = {}
  /\ heard' = [c \in Clients |-> Unknown]
  /\ lastSessionId' \in {0, lastSessionId}
  /\ now' = IF lastSessionId > now THEN lastSessionId ELSE now
  /\ UNCHANGED <<clientVars, net, history>>

-----------------------------------------------------------------------------
(* The network: a packet is lost or not taken by its receiver (an unknown  *)
(* session, a client that is not connected or has left its address); a     *)
(* client gets another address.                                            *)
Lose(p) ==
  /\ p \in net
  /\ net' = net \ {p}
  /\ UNCHANGED <<serviceVars, clientVars, history>>

Move(c) ==
  /\ \A d \in Clients : port[d] < MaxPort
  /\ port' = [port EXCEPT ![c] = @ + 1]
  /\ UNCHANGED <<serviceVars, sessionId, recent, net, history>>

-----------------------------------------------------------------------------
Init ==
  /\ sessions = NoSessions
  /\ mapClientSessions = [c \in Clients |-> NoSession]
  /\ lastSessionId = 0 /\ now = 0 /\ start = 0
  /\ init = [t \in InitThreads |-> Idle]
  /\ broadcasts = {}
  /\ heard = [c \in Clients |-> Unknown]
  /\ sessionId = [c \in Clients |-> NoSession]
  /\ recent = [c \in Clients |-> FALSE]
  /\ port = [c \in Clients |-> 0]
  /\ net = {} /\ issued = {} /\ requested = 0 /\ sent = {} /\ received = {}

ClientStep(c) ==
  \/ RunStep(c) \/ Expire(c) \/ Recreate(c) \/ Move(c)
  \/ \E d \in Clients : QueryHost(c, d)
  \/ \E d \in Clients, m \in MessageIds : SendMessage(c, d, m)
  \/ \E m \in MessageIds : Broadcast(c, m)
  \/ \E p \in net : ReceiveInitResponse(c, p) \/ ReceiveData(c, p) \/ ReceiveError(c, p)

ThreadStep(t) == PublishSession(t) \/ \E p \in net : CreateSession(t, p)

ServiceStep ==
  \/ \E p \in net : \/ FindSession(p) \/ ServeKeepAlive(p) \/ ServeQueryHost(p) \/ ServeMessage(p)
                    \/ ServeBroadcast(p) \/ RejectRequest(p)
  \/ \E b \in broadcasts : RelayBroadcast(b)
  \/ Restart

Next ==
  \/ \E c \in Clients : ClientStep(c)
  \/ \E t \in InitThreads : ThreadStep(t)
  \/ ServiceStep
  \/ \E p \in net : Lose(p)

Spec == Init /\ [][Next]_vars

(* The threads run: the interval thread of the switch calls runStep over   *)
(* and over, the service's threads go on, the clock passes the connection  *)
(* timeout.  Of the packets that are sent again and again, init requests   *)
(* and their answers, the network does not lose all.                       *)
InitializeSession(c) ==
  \E p \in net : /\ p.kind = "init" /\ p.client = c
                 /\ FindSession(p) \/ \E t \in InitThreads : CreateSession(t, p)

Fairness ==
  /\ \A c \in Clients :
       /\ SF_vars(RunStep(c)) /\ WF_vars(Expire(c))
       /\ SF_vars(InitializeSession(c))
       /\ SF_vars(\E p \in net : ReceiveInitResponse(c, p))
  /\ \A t \in InitThreads : WF_vars(PublishSession(t))
  /\ WF_vars(\E p \in net : Lose(p))

FairSpec == Spec /\ Fairness

-----------------------------------------------------------------------------
(* Properties *)

InitThread == [client : Clients, src : Address, session : DOMAIN sessions]

Session == [clientId : Clients, udpSessionAddress : Address]

(* The variables have their types: the service's maps, the threads, the    *)
(* clients' state and the packets in flight.                               *)
TypeOK ==
  /\ DOMAIN sessions \subseteq Nat /\ sessions \in [DOMAIN sessions -> Session]
  /\ mapClientSessions \in [Clients -> DOMAIN sessions \cup {NoSession}]
  /\ lastSessionId \in Nat /\ now \in Nat /\ start \in Nat
  /\ init \in [InitThreads -> InitThread \cup {Idle}]
  /\ broadcasts \subseteq Clients \X MessageIds
  /\ heard \in [Clients -> Address \cup {Unknown}]
  /\ recent \in [Clients -> BOOLEAN]
  /\ sessionId \in [Clients -> Nat] /\ port \in [Clients -> Nat]
  /\ net \subseteq Packet
  /\ issued \subseteq Nat \X Clients \X Nat
  /\ requested \in Nat
  /\ sent \subseteq Clients \X Clients \X MessageIds
  /\ received \subseteq Clients \X Clients \X MessageIds

(* A session id that a client holds or that waits for it in the network    *)
(* never names another client's session, whatever restarts came between:   *)
(* _generateNewSessionId does not give an id a second time, and the        *)
(* service tells clients apart by nothing else.                            *)
SessionOwnership ==
  /\ \A c \in Clients :
       sessionId[c] \in DOMAIN sessions => sessions[sessionId[c]].clientId = c
  /\ \A p \in net : p.kind = "initResponse" /\ p.session \in DOMAIN sessions =>
       sessions[p.session].clientId = p.dst[1]

(* A session that the running service answered with is one it can serve,   *)
(* and its client is found by the others: the answer to Initialize Session *)
(* leaves after both maps hold the session, even when two threads answer   *)
(* the same client.                                                        *)
AnsweredIsRegistered ==
  \A x \in issued :
    /\ x[3] = start
    /\ \/ sessionId[x[2]] = x[1]
       \/ \E p \in net : p.kind = "initResponse" /\ p.session = x[1]
    => x[1] \in DOMAIN sessions /\ mapClientSessions[x[2]] # NoSession

(* The sessions of a client. *)
SessionsOf(c) == {id \in DOMAIN sessions : sessions[id].clientId = c}

(* Where a client was last heard is where queries and messages for it go,  *)
(* as long as it has one session: init requests, keep alives and requests  *)
(* all move that session.                                                  *)
QueryIsCurrent ==
  \A c \in Clients :
    mapClientSessions[c] # NoSession /\ Cardinality(SessionsOf(c)) = 1 =>
      sessions[mapClientSessions[c]].udpSessionAddress = heard[c]

(* The strengthening of SessionOwnership and of the relay that every step  *)
(* preserves.  An id is issued to one client; whoever holds it, and every   *)
(* packet that carries it, is that client.                                 *)
Owns(c, id) == \E x \in issued : x[1] = id /\ x[2] = c

IssuedInv ==
  \A x, y \in issued :
    /\ x[1] > NoSession
    /\ x[1] < NewSessionId
    /\ x[1] = y[1] => x[2] = y[2]

SessionInv ==
  /\ \A id \in DOMAIN sessions :
       /\ Owns(sessions[id].clientId, id)
       /\ sessions[id].udpSessionAddress[1] = sessions[id].clientId
  /\ \A c \in Clients :
       /\ mapClientSessions[c] # NoSession => sessions[mapClientSessions[c]].clientId = c
       /\ sessionId[c] # NoSession => Owns(c, sessionId[c])
  /\ \A t \in InitThreads :
       init[t] # Idle => sessions[init[t].session].clientId = init[t].client

SentByBroadcast(c, m) == \A d \in Others(c) : <<c, d, m>> \in sent

RequestInv(p) ==
  /\ p.kind = "init" => p.src[1] = p.client
  /\ p.kind \in {"keepAlive", "queryHost", "sendMessage", "broadcast"} => Owns(p.src[1], p.session)
  /\ p.kind = "sendMessage" => <<p.src[1], p.target, p.id>> \in sent
  /\ p.kind = "broadcast" => SentByBroadcast(p.src[1], p.id)

AnswerInv(p) ==
  /\ p.kind = "initResponse" => Owns(p.dst[1], p.session)
  /\ p.kind \in {"message", "broadcastMessage"} => <<p.sender, p.dst[1], p.id>> \in sent

NetInv == \A p \in net : RequestInv(p) /\ AnswerInv(p)

RelayInv ==
  /\ \A b \in broadcasts : SentByBroadcast(b[1], b[2])
  /\ received \subseteq sent

IInv == TypeOK /\ IssuedInv /\ SessionInv /\ NetInv /\ RelayInv

(* The strengthening of AnsweredIsRegistered, on top of IInv: a session the *)
(* service holds was created since it started, and an id is carried by a   *)
(* packet only after the maps have it.                                     *)
CurrentInv ==
  /\ IsFiniteSet(DOMAIN sessions)
  /\ \A x \in issued : x[3] <= start
  /\ \A id \in DOMAIN sessions : <<id, sessions[id].clientId, start>> \in issued

Carries(p, id) ==
  /\ p.kind \in {"initResponse", "keepAlive", "queryHost", "sendMessage", "broadcast"}
  /\ p.session = id

Registered(c, id) == id \in DOMAIN sessions /\ mapClientSessions[c] # NoSession

AnsweredInv ==
  \A x \in issued :
    x[3] = start /\ (sessionId[x[2]] = x[1] \/ \E p \in net : Carries(p, x[1])) =>
      Registered(x[2], x[1])

(* The strengthening of QueryIsCurrent: threads initialize different       *)
(* sessions; the only session of a client stays where its thread created   *)
(* it until that thread publishes it.                                      *)
ThreadInv ==
  \A t \in InitThreads : init[t] # Idle =>
    LET c == init[t].client
        s == init[t].session
    IN  /\ \A u \in InitThreads \ {t} : init[u] # Idle => init[u].session # s
        /\ SessionsOf(c) = {s} =>
             mapClientSessions[c] = NoSession /\ sessions[s].udpSessionAddress = init[t].src

QueryInv ==
  \A c \in Clients :
    mapClientSessions[c] # NoSession /\ SessionsOf(c) = {mapClientSessions[c]} =>
      sessions[mapClientSessions[c]].udpSessionAddress = heard[c]

AnswerIInv  == IInv /\ CurrentInv /\ AnsweredInv
AddressIInv == AnswerIInv /\ ThreadInv /\ QueryInv

(* The relay: a listener gets a message only if its sender sent it to that *)
(* client, under the sender's own id, and no broadcast comes back.         *)
Relay == INSTANCE HnsRelay
RelaySpec == Relay!Spec

(* The session a client believes in is one the running service holds for   *)
(* it.                                                                     *)
Served(c) ==
  /\ Connected(c)
  /\ sessionId[c] \in DOMAIN sessions
  /\ sessions[sessionId[c]].clientId = c

(* The header (hns_service.h, "Send Data (Service->Client)") gives every    *)
(* packet of MethodId 4 the SessionId it belongs to; so a client would take *)
(* data of its present session only.                                       *)
DataIsOfTheSession ==
  [][\A c \in Clients, p \in net : ReceiveData(c, p) => p.session = sessionId[c]]_vars

(* The answer to Query Host (hns_service.h) is the address of the client    *)
(* and the time since it was last communicated with; so of a client that   *)
(* is served, and that no thread is initializing, it would be the address  *)
(* it was last heard at.                                                   *)
ServedAddressIsCurrent ==
  \A c \in Clients :
    Served(c) /\ (\A t \in InitThreads : init[t] # Idle => init[t].client # c) =>
      sessions[mapClientSessions[c]].udpSessionAddress = heard[c]

(* A client always gets to be served again, after the service lost all its *)
(* sessions without telling anyone: requests on a session that is gone are *)
(* ignored, not refused, so only the connection timeout brings the client  *)
(* back to Initialize Session.                                             *)
Reconnects == \A c \in Clients : []<>Served(c)

=============================================================================
