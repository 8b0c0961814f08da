----------------------------- MODULE HnsProofs ------------------------------
(***************************************************************************)
(* Theorems about Hns, for any clients, messages, threads and bounds: the  *)
(* types, the ownership of session ids across restarts of the service, and *)
(* that the service implements the abstract relay HnsRelay.                *)
(***************************************************************************)
EXTENDS Hns, TLAPS, FiniteSetTheorems

(* Whatever the network loses or repeats, a step puts nothing into it but  *)
(* the packets it sends.                                                   *)
LEMMA SendNet ==
  ASSUME NEW packets, Send(packets)
  PROVE  net' \subseteq net \cup packets
  BY DEF Send

LEMMA ReplyNet ==
  ASSUME NEW p, NEW packets, Reply(p, packets)
  PROVE  net' \subseteq net \cup packets
<1>1. PICK rest \in {net \ {p}} \cup (IF Repeats THEN {net} ELSE {}) :
        net' = IF Cardinality(rest \cup packets) <= MaxPackets THEN rest \cup packets ELSE rest
  BY DEF Reply
<1>2. rest \subseteq net
  OBVIOUS
<1> QED BY <1>1, <1>2

(* The packets of each kind have the fields their senders give them. *)
LEMMA PacketKinds ==
  /\ \A a \in Address, c \in Clients : [kind |-> "init", src |-> a, client |-> c] \in Packet
  /\ \A a \in Address, s \in Nat :
       /\ [kind |-> "keepAlive", src |-> a, session |-> s] \in Packet
       /\ [kind |-> "initResponse", dst |-> a, session |-> s] \in Packet
       /\ [kind |-> "keepAliveResponse", dst |-> a, session |-> s] \in Packet
       /\ \A d \in Clients :
            [kind |-> "queryHost", src |-> a, session |-> s, target |-> d] \in Packet
       /\ \A d \in Clients, m \in MessageIds :
            [kind |-> "sendMessage", src |-> a, session |-> s, target |-> d, id |-> m] \in Packet
       /\ \A m \in MessageIds :
            [kind |-> "broadcast", src |-> a, session |-> s, id |-> m] \in Packet
       /\ \A d \in Clients, b \in Address \cup {Unknown} :
            [kind |-> "hostInfo", dst |-> a, session |-> s, target |-> d, address |-> b] \in Packet
       /\ \A d \in Clients, m \in MessageIds, k \in {"message", "broadcastMessage"} :
            [kind |-> k, dst |-> a, session |-> s, sender |-> d, id |-> m] \in Packet
  /\ \A a \in Address : [kind |-> "error", dst |-> a] \in Packet
  BY DEF Packet, InitPacket, Request, InitResponse, Data, ErrorPacket

LEMMA PacketFields ==
  ASSUME NEW p \in Packet
  PROVE  /\ p.kind = "init" => p.src \in Address /\ p.client \in Clients
         /\ p.kind \in {"keepAlive", "queryHost", "sendMessage", "broadcast"} =>
              p.src \in Address /\ p.session \in Nat
         /\ p.kind \in {"queryHost", "sendMessage"} => p.target \in Clients
         /\ p.kind \in {"sendMessage", "broadcast", "message", "broadcastMessage"} =>
              p.id \in MessageIds
         /\ p.kind \in {"initResponse", "keepAliveResponse", "hostInfo", "message",
                        "broadcastMessage"} => p.dst \in Address /\ p.session \in Nat
         /\ p.kind \in {"message", "broadcastMessage"} => p.sender \in Clients
  BY DEF Packet, InitPacket, Request, InitResponse, Data, ErrorPacket

-----------------------------------------------------------------------------
(* Types *)

LEMMA AddressType ==
  ASSUME TypeOK, NEW c \in Clients
  PROVE  AddressOf(c) \in Address
  BY DEF TypeOK, AddressOf, Address

LEMMA NewSessionIdType ==
  ASSUME TypeOK
  PROVE  NewSessionId \in Nat \ {0}
  BY DEF TypeOK, NewSessionId

LEMMA SessionType ==
  ASSUME TypeOK, NEW id \in DOMAIN sessions
  PROVE  /\ id \in Nat
         /\ sessions[id].clientId \in Clients
         /\ sessions[id].udpSessionAddress \in Address
  BY DEF TypeOK, Session

LEMMA MapType ==
  ASSUME TypeOK, NEW c \in Clients, mapClientSessions[c] # NoSession
  PROVE  mapClientSessions[c] \in DOMAIN sessions
  BY DEF TypeOK

(* Moving a session to another address keeps the maps well formed. *)
LEMMA MovedType ==
  ASSUME TypeOK, NEW s \in DOMAIN sessions, NEW a \in Address,
         sessions' = MoveTo(s, a)
  PROVE  /\ DOMAIN sessions' = DOMAIN sessions
         /\ sessions' \in [DOMAIN sessions' -> Session]
  BY DEF TypeOK, Session, MoveTo

(* The types of what a client's step may change. *)
LEMMA ClientStepType ==
  ASSUME TypeOK, NEW c \in Clients, ClientStep(c)
  PROVE  TypeOK'
<1> USE AddressType DEF TypeOK, InitThread
<1>1. CASE RunStep(c)
  <2>a. InitOf(c) \in Packet /\ KeepAliveOf(c) \in Packet
    BY PacketKinds DEF InitOf, KeepAliveOf
  <2>1. net' \subseteq Packet
    BY <1>1, <2>a, SendNet DEF RunStep
  <2> QED BY <1>1, <2>1 DEF RunStep, serviceVars, clientVars, history
<1>2. CASE Expire(c)
  BY <1>2 DEF Expire, serviceVars, history
<1>3. CASE Recreate(c)
  BY <1>3 DEF Recreate, serviceVars, history, NoSession
<1>4. CASE Move(c)
  BY <1>4 DEF Move, serviceVars, history
<1>5. ASSUME NEW d \in Clients, QueryHost(c, d) PROVE TypeOK'
  <2>a. [kind |-> "queryHost", src |-> AddressOf(c), session |-> sessionId[c], target |-> d] \in Packet
    BY PacketKinds
  <2>1. net' \subseteq Packet
    BY <1>5, <2>a, SendNet DEF QueryHost
  <2> QED BY <1>5, <2>1 DEF QueryHost, serviceVars, clientVars
<1>6. ASSUME NEW d \in Clients, NEW m \in MessageIds, SendMessage(c, d, m) PROVE TypeOK'
  <2>a. [kind |-> "sendMessage", src |-> AddressOf(c), session |-> sessionId[c],
         target |-> d, id |-> m] \in Packet
    BY PacketKinds
  <2>1. net' \subseteq Packet
    BY <1>6, <2>a, SendNet DEF SendMessage
  <2> QED BY <1>6, <2>1 DEF SendMessage, serviceVars, clientVars
<1>7. ASSUME NEW m \in MessageIds, Broadcast(c, m) PROVE TypeOK'
  <2>a. [kind |-> "broadcast", src |-> AddressOf(c), session |-> sessionId[c], id |-> m] \in Packet
    BY PacketKinds
  <2>1. net' \subseteq Packet
    BY <1>7, <2>a, SendNet DEF Broadcast
  <2>2. sent' \subseteq Clients \X Clients \X MessageIds
    BY <1>7 DEF Broadcast, Others
  <2> QED BY <1>7, <2>1, <2>2 DEF Broadcast, serviceVars, clientVars
<1>8. ASSUME NEW p \in net, ReceiveInitResponse(c, p) PROVE TypeOK'
  <2>1. net' \subseteq Packet
    BY <1>8, ReplyNet DEF ReceiveInitResponse
  <2>2. p.session \in Nat
    BY <1>8, PacketFields DEF ReceiveInitResponse, ArrivesAt
  <2> QED BY <1>8, <2>1, <2>2 DEF ReceiveInitResponse, serviceVars, history
<1>9. ASSUME NEW p \in net, ReceiveData(c, p) PROVE TypeOK'
  <2>1. net' \subseteq Packet
    BY <1>9, ReplyNet DEF ReceiveData
  <2>2. received' \subseteq Clients \X Clients \X MessageIds
    BY <1>9, PacketFields DEF ReceiveData
  <2> QED BY <1>9, <2>1, <2>2 DEF ReceiveData, serviceVars
<1>10. ASSUME NEW p \in net, ReceiveError(c, p) PROVE TypeOK'
  <2>1. net' \subseteq Packet
    BY <1>10, ReplyNet, PacketKinds DEF ReceiveError, InitOf
  <2> QED BY <1>10, <2>1 DEF ReceiveError, serviceVars, clientVars, history
<1> QED BY <1>1, <1>2, <1>3, <1>4, <1>5, <1>6, <1>7, <1>8, <1>9, <1>10 DEF ClientStep

LEMMA ThreadType ==
  ASSUME TypeOK, NEW t \in InitThreads, init[t] # Idle
  PROVE  /\ init[t].client \in Clients
         /\ init[t].src \in Address
         /\ init[t].session \in DOMAIN sessions
<1>1. init[t] \in InitThread
  BY DEF TypeOK
<1> QED BY <1>1 DEF InitThread

LEMMA ThreadStepType ==
  ASSUME TypeOK, NEW t \in InitThreads, ThreadStep(t)
  PROVE  TypeOK'
<1>1. CASE PublishSession(t)
  <2>1. /\ init[t].client \in Clients /\ init[t].src \in Address
        /\ init[t].session \in DOMAIN sessions
    BY <1>1, ThreadType DEF PublishSession
  <2>2. InitResponseTo(sessions[init[t].session].udpSessionAddress, init[t].session) \in Packet
    BY <2>1, SessionType, PacketKinds DEF InitResponseTo
  <2>3. net' \subseteq Packet
    BY <1>1, <2>2, SendNet DEF PublishSession, TypeOK
  <2> QED BY <1>1, <2>1, <2>3 DEF PublishSession, TypeOK, clientVars, history, InitThread
<1>2. ASSUME NEW p \in net, CreateSession(t, p) PROVE TypeOK'
  <2>1. p \in Packet /\ p.kind = "init"
    BY <1>2 DEF CreateSession, TypeOK
  <2>2. p.client \in Clients /\ p.src \in Address
    BY <2>1, PacketFields
  <2>3. net' \subseteq Packet
    BY <1>2, ReplyNet DEF CreateSession, TypeOK
  <2>4. /\ DOMAIN sessions' = DOMAIN sessions \cup {NewSessionId}
        /\ sessions' \in [DOMAIN sessions' -> Session]
    BY <1>2, <2>2 DEF CreateSession, TypeOK, Session
  <2>5. init' \in [InitThreads -> InitThread' \cup {Idle}]
    <3>1. InitThread \subseteq InitThread'
      BY <2>4 DEF InitThread
    <3>2. [client |-> p.client, src |-> p.src, session |-> NewSessionId] \in InitThread'
      BY <2>2, <2>4 DEF InitThread
    <3> QED BY <1>2, <3>1, <3>2 DEF CreateSession, TypeOK
  <2>6. issued' \subseteq Nat \X Clients \X Nat
    BY <1>2, <2>2, NewSessionIdType DEF CreateSession, TypeOK
  <2> QED BY <1>2, <2>3, <2>4, <2>5, <2>6, NewSessionIdType DEF CreateSession, TypeOK, clientVars
<1> QED BY <1>1, <1>2 DEF ThreadStep

(* A request that is served moves its session to the address it came from. *)
LEMMA ServeType ==
  ASSUME TypeOK, NEW p \in net, NEW kinds,
         kinds \subseteq {"keepAlive", "queryHost", "sendMessage", "broadcast"},
         Accepts(p, kinds), Serve(p), net' \subseteq Packet,
         broadcasts' \subseteq Clients \X MessageIds
  PROVE  TypeOK'
<1>1. p.session \in DOMAIN sessions /\ p.src \in Address
  BY PacketFields DEF Accepts, TypeOK
<1>2. /\ DOMAIN sessions' = DOMAIN sessions
      /\ sessions' \in [DOMAIN sessions' -> Session]
  BY <1>1, MovedType DEF Serve, Moved
<1>3. heard' \in [Clients -> Address \cup {Unknown}]
  BY <1>1, SessionType DEF Serve, TypeOK
<1> QED BY <1>2, <1>3 DEF Serve, TypeOK, InitThread, clientVars, history

LEMMA ServiceStepType ==
  ASSUME TypeOK, ServiceStep
  PROVE  TypeOK'
<1>1. ASSUME NEW p \in net, FindSession(p) PROVE TypeOK'
  <2>1. /\ p.client \in Clients /\ p.src \in Address
        /\ mapClientSessions[p.client] \in DOMAIN sessions
    BY <1>1, PacketFields, MapType DEF FindSession, TypeOK
  <2>2. InitResponseTo(p.src, mapClientSessions[p.client]) \in Packet
    BY <2>1, SessionType, PacketKinds DEF InitResponseTo
  <2>3. net' \subseteq Packet
    BY <1>1, <2>2, ReplyNet DEF FindSession, TypeOK
  <2>4. /\ DOMAIN sessions' = DOMAIN sessions
        /\ sessions' \in [DOMAIN sessions' -> Session]
    BY <1>1, <2>1, MovedType DEF FindSession
  <2>5. heard' \in [Clients -> Address \cup {Unknown}]
    BY <1>1, <2>1 DEF FindSession, TypeOK
  <2> QED BY <1>1, <2>3, <2>4, <2>5 DEF FindSession, TypeOK, InitThread, clientVars, history
<1>2. ASSUME NEW p \in net, ServeKeepAlive(p) PROVE TypeOK'
  <2>1. p.src \in Address /\ p.session \in Nat
    BY <1>2, PacketFields DEF ServeKeepAlive, Accepts, TypeOK
  <2>2. [kind |-> "keepAliveResponse", dst |-> p.src, session |-> p.session] \in Packet
    BY <2>1, PacketKinds
  <2>3. net' \subseteq Packet
    BY <1>2, <2>2, ReplyNet DEF ServeKeepAlive, TypeOK
  <2> QED BY <1>2, <2>3, ServeType DEF ServeKeepAlive, TypeOK
<1>3. ASSUME NEW p \in net, ServeQueryHost(p) PROVE TypeOK'
  <2> DEFINE id == mapClientSessions[p.target]
             a  == IF id = NoSession THEN Unknown ELSE Moved(p)[id].udpSessionAddress
  <2>1. p.src \in Address /\ p.session \in DOMAIN sessions /\ p.session \in Nat /\ p.target \in Clients
    BY <1>3, PacketFields DEF ServeQueryHost, Accepts, TypeOK
  <2>2. a \in Address \cup {Unknown}
    BY <2>1, MapType, SessionType DEF Moved, MoveTo, TypeOK
  <2>3. [kind |-> "hostInfo", dst |-> p.src, session |-> p.session, target |-> p.target,
         address |-> a] \in Packet
    BY <2>1, <2>2, PacketKinds
  <2>4. net' \subseteq Packet
    BY <1>3, <2>3, ReplyNet DEF ServeQueryHost, TypeOK
  <2> QED BY <1>3, <2>4, ServeType DEF ServeQueryHost, TypeOK
<1>4. ASSUME NEW p \in net, ServeMessage(p) PROVE TypeOK'
  <2> DEFINE id == mapClientSessions[p.target]
             q  == RelayTo(id, Moved(p), "message", sessions[p.session].clientId, p.id)
  <2>1. /\ p.src \in Address /\ p.session \in DOMAIN sessions
        /\ p.target \in Clients /\ p.id \in MessageIds
    BY <1>4, PacketFields DEF ServeMessage, Accepts, TypeOK
  <2>2. id # NoSession => q \in Packet
    <3> SUFFICES ASSUME id # NoSession PROVE q \in Packet
      OBVIOUS
    <3>1. id \in DOMAIN sessions
      BY <2>1, MapType
    <3>2. Moved(p)[id].udpSessionAddress \in Address
      BY <2>1, <3>1, SessionType DEF Moved, MoveTo, TypeOK
    <3> QED BY <2>1, <3>1, <3>2, SessionType, PacketKinds DEF RelayTo
  <2>3. net' \subseteq Packet
    BY <1>4, <2>2, ReplyNet DEF ServeMessage, TypeOK
  <2> QED BY <1>4, <2>3, ServeType DEF ServeMessage, TypeOK
<1>5. ASSUME NEW p \in net, ServeBroadcast(p) PROVE TypeOK'
  <2>1. p.session \in DOMAIN sessions /\ p.id \in MessageIds
    BY <1>5, PacketFields DEF ServeBroadcast, Accepts, TypeOK
  <2>2. broadcasts' \subseteq Clients \X MessageIds
    BY <1>5, <2>1, SessionType DEF ServeBroadcast, TypeOK
  <2>3. net' \subseteq Packet
    BY <1>5, ReplyNet DEF ServeBroadcast, TypeOK
  <2> QED BY <1>5, <2>2, <2>3, ServeType DEF ServeBroadcast
<1>6. ASSUME NEW p \in net, RejectRequest(p) PROVE TypeOK'
  <2>1. [kind |-> "error", dst |-> sessions[p.session].udpSessionAddress] \in Packet
    BY <1>6, SessionType, PacketKinds DEF RejectRequest, Accepts
  <2>2. net' \subseteq Packet
    BY <1>6, <2>1, ReplyNet DEF RejectRequest, TypeOK
  <2> QED BY <1>6, <2>2 DEF RejectRequest, TypeOK, serviceVars, clientVars, history, InitThread
<1>7. ASSUME NEW b \in broadcasts, RelayBroadcast(b) PROVE TypeOK'
  <2>1. b[1] \in Clients /\ b[2] \in MessageIds
    BY DEF TypeOK
  <2>2. ASSUME NEW id \in BroadcastTargets(b[1])
        PROVE  RelayTo(id, sessions, "broadcastMessage", b[1], b[2]) \in Packet
    <3>1. id \in DOMAIN sessions
      BY <2>2, MapType DEF BroadcastTargets, Others
    <3> QED BY <2>1, <3>1, SessionType, PacketKinds DEF RelayTo
  <2>3. net' \subseteq Packet
    BY <1>7, <2>2, SendNet DEF RelayBroadcast, TypeOK
  <2> QED BY <1>7, <2>3 DEF RelayBroadcast, TypeOK, clientVars, history, InitThread
<1>8. CASE Restart
  <2>1. /\ DOMAIN sessions' = {}
        /\ sessions' \in [DOMAIN sessions' -> Session]
    BY <1>8 DEF Restart, NoSessions
  <2>2. lastSessionId' \in Nat /\ now' \in Nat /\ start' \in Nat
    BY <1>8 DEF Restart, TypeOK
  <2> QED BY <1>8, <2>1, <2>2 DEF Restart, TypeOK, clientVars, history
<1> QED BY <1>1, <1>2, <1>3, <1>4, <1>5, <1>6, <1>7, <1>8 DEF ServiceStep

LEMMA InitType == Init => TypeOK
<1> SUFFICES ASSUME Init PROVE TypeOK
  OBVIOUS
<1>1. DOMAIN sessions = {} /\ sessions \in [DOMAIN sessions -> Session]
  BY DEF Init, NoSessions
<1> QED BY <1>1 DEF Init, TypeOK, NoSession

LEMMA StepType == TypeOK /\ [Next]_vars => TypeOK'
<1> SUFFICES ASSUME TypeOK, [Next]_vars PROVE TypeOK'
  OBVIOUS
<1>1. ASSUME NEW p \in net, Lose(p) PROVE TypeOK'
  BY <1>1 DEF Lose, TypeOK, serviceVars, clientVars, history, InitThread
<1>2. CASE UNCHANGED vars
  BY <1>2 DEF vars, TypeOK, serviceVars, clientVars, history, InitThread
<1> QED BY <1>1, <1>2, ClientStepType, ThreadStepType, ServiceStepType DEF Next

(* The variables keep their types whatever the network, the threads and    *)
(* the restarts do; in particular every client id of the map and every     *)
(* thread refers to a session that the service holds.                      *)
THEOREM TypeCorrect == Spec => []TypeOK
<1> QED BY InitType, StepType, PTL DEF Spec

-----------------------------------------------------------------------------
(* Ownership of session ids and the relay *)

(* A session id has one owner. *)
LEMMA OneOwner ==
  ASSUME IssuedInv, NEW id, NEW c, NEW d, Owns(c, id), Owns(d, id)
  PROVE  c = d
  BY DEF IssuedInv, Owns

(* The session of a request that the service accepts is its sender's. *)
LEMMA AcceptedFromOwner ==
  ASSUME IInv, NEW p,
         Accepts(p, {"keepAlive", "queryHost", "sendMessage", "broadcast"})
  PROVE  sessions[p.session].clientId = p.src[1]
<1>1. Owns(p.src[1], p.session)
  BY DEF Accepts, IInv, NetInv, RequestInv
<1>2. Owns(sessions[p.session].clientId, p.session)
  BY DEF Accepts, IInv, SessionInv
<1> QED BY <1>1, <1>2, OneOwner DEF IInv

(* The histories only grow, so what is said of a packet stays true, and a  *)
(* step preserves NetInv if it does so for the packets it sends.           *)
LEMMA NetKept ==
  ASSUME NetInv, issued \subseteq issued', sent \subseteq sent', NEW p \in net
  PROVE  (RequestInv(p) /\ AnswerInv(p))'
<1>1. RequestInv(p) /\ AnswerInv(p)
  BY DEF NetInv
<1>2. \A c, id : Owns(c, id) => Owns(c, id)'
  BY DEF Owns
<1>3. \A c, m : SentByBroadcast(c, m) => SentByBroadcast(c, m)'
  BY DEF SentByBroadcast
<1>4. RequestInv(p)'
  BY <1>1, <1>2, <1>3 DEF RequestInv
<1>5. AnswerInv(p)'
  BY <1>1, <1>2 DEF AnswerInv
<1> QED BY <1>4, <1>5

LEMMA NetStep ==
  ASSUME NetInv, NEW packets, net' \subseteq net \cup packets,
         issued \subseteq issued', sent \subseteq sent',
         \A q \in packets : (RequestInv(q) /\ AnswerInv(q))'
  PROVE  NetInv'
  BY NetKept DEF NetInv

LEMMA NetLess ==
  ASSUME NetInv, net' \subseteq net, issued \subseteq issued', sent \subseteq sent'
  PROVE  NetInv'
  BY NetKept DEF NetInv

LEMMA AddressOwner ==
  ASSUME TypeOK, NEW c \in Clients
  PROVE  AddressOf(c)[1] = c
  BY DEF AddressOf

(* What a client sends on its session carries an id that the client owns. *)
LEMMA ConnectedOwns ==
  ASSUME IInv, NEW c \in Clients, Connected(c)
  PROVE  Owns(c, sessionId[c])
  BY DEF IInv, SessionInv, Connected

(* No step of a client touches what the service keeps. *)
LEMMA ClientStepFrame ==
  ASSUME NEW c \in Clients, ClientStep(c)
  PROVE  /\ UNCHANGED <<serviceVars, issued>>
         /\ sent \subseteq sent'
  BY DEF ClientStep, RunStep, Expire, Recreate, Move, QueryHost, SendMessage, Broadcast,
         ReceiveInitResponse, ReceiveData, ReceiveError, serviceVars, clientVars, history

LEMMA ClientStepNet ==
  ASSUME IInv, NEW c \in Clients, ClientStep(c)
  PROVE  NetInv'
<1>f. /\ issued' = issued /\ sent \subseteq sent' /\ NetInv /\ TypeOK
      /\ \A d, id : Owns(d, id) => Owns(d, id)'
  BY ClientStepFrame DEF IInv, Owns
<1>a. AddressOf(c)[1] = c
  BY <1>f, AddressOwner
<1>0. CASE net' \subseteq net
  BY <1>0, <1>f, NetLess
<1>i. ASSUME NEW q \in {InitOf(c)} PROVE (RequestInv(q) /\ AnswerInv(q))'
  BY <1>a DEF InitOf, RequestInv, AnswerInv
<1>1. CASE RunStep(c)
  <2>1. CASE Connected(c)
    <3>1. ASSUME NEW q \in {KeepAliveOf(c)} PROVE (RequestInv(q) /\ AnswerInv(q))'
      BY <1>f, <1>a, <2>1, ConnectedOwns DEF KeepAliveOf, RequestInv, AnswerInv
    <3> QED BY <1>f, <1>1, <2>1, <3>1, SendNet, NetStep DEF RunStep
  <2>2. CASE ~Connected(c)
    BY <1>f, <1>i, <1>1, <2>2, SendNet, NetStep DEF RunStep
  <2> QED BY <2>1, <2>2
<1>2. ASSUME NEW d \in Clients, QueryHost(c, d) PROVE NetInv'
  <2> DEFINE r == [kind |-> "queryHost", src |-> AddressOf(c), session |-> sessionId[c],
                   target |-> d]
  <2>1. ASSUME NEW q \in {r} PROVE (RequestInv(q) /\ AnswerInv(q))'
    BY <1>f, <1>a, <1>2, ConnectedOwns DEF QueryHost, RequestInv, AnswerInv
  <2> QED BY <1>f, <1>2, <2>1, SendNet, NetStep DEF QueryHost
<1>3. ASSUME NEW d \in Clients, NEW m \in MessageIds, SendMessage(c, d, m) PROVE NetInv'
  <2> DEFINE r == [kind |-> "sendMessage", src |-> AddressOf(c), session |-> sessionId[c],
                   target |-> d, id |-> m]
  <2>1. ASSUME NEW q \in {r} PROVE (RequestInv(q) /\ AnswerInv(q))'
    <3>1. Owns(q.src[1], q.session)'
      BY <1>f, <1>a, <1>3, ConnectedOwns DEF SendMessage
    <3>2. <<q.src[1], q.target, q.id>> \in sent'
      BY <1>a, <1>3 DEF SendMessage
    <3> QED BY <3>1, <3>2 DEF RequestInv, AnswerInv
  <2> QED BY <1>f, <1>3, <2>1, SendNet, NetStep DEF SendMessage
<1>4. ASSUME NEW m \in MessageIds, Broadcast(c, m) PROVE NetInv'
  <2> DEFINE r == [kind |-> "broadcast", src |-> AddressOf(c), session |-> sessionId[c], id |-> m]
  <2>1. ASSUME NEW q \in {r} PROVE (RequestInv(q) /\ AnswerInv(q))'
    <3>1. Owns(q.src[1], q.session)'
      BY <1>f, <1>a, <1>4, ConnectedOwns DEF Broadcast
    <3>2. SentByBroadcast(q.src[1], q.id)'
      BY <1>a, <1>4 DEF Broadcast, SentByBroadcast, Others
    <3> QED BY <3>1, <3>2 DEF RequestInv, AnswerInv
  <2> QED BY <1>f, <1>4, <2>1, SendNet, NetStep DEF Broadcast
<1>5. ASSUME NEW p \in net, ReceiveInitResponse(c, p) \/ ReceiveData(c, p) PROVE net' \subseteq net
  BY <1>5, ReplyNet DEF ReceiveInitResponse, ReceiveData
<1>6. ASSUME NEW p \in net, ReceiveError(c, p) PROVE NetInv'
  BY <1>f, <1>i, <1>6, ReplyNet, NetStep DEF ReceiveError
<1>7. CASE Expire(c) \/ Recreate(c) \/ Move(c)
  <2>1. net' = net
    BY <1>7 DEF Expire, Recreate, Move
  <2> QED BY <1>0, <2>1
<1> QED BY <1>0, <1>1, <1>2, <1>3, <1>4, <1>5, <1>6, <1>7 DEF ClientStep

LEMMA ClientStepInv ==
  ASSUME IInv, NEW c \in Clients, ClientStep(c)
  PROVE  IssuedInv' /\ SessionInv' /\ RelayInv'
<1>f. /\ UNCHANGED <<sessions, mapClientSessions, lastSessionId, now, init, broadcasts, issued>>
      /\ sent \subseteq sent'
  BY ClientStepFrame DEF serviceVars
<1>o. \A d, id : Owns(d, id)' <=> Owns(d, id)
  BY <1>f DEF Owns
<1>1. IssuedInv'
  BY <1>f DEF IInv, IssuedInv, NewSessionId
<1>2. \A d \in Clients : sessionId'[d] # NoSession => Owns(d, sessionId'[d])
  <2>0. \A d \in Clients : sessionId[d] # NoSession => Owns(d, sessionId[d])
    BY DEF IInv, SessionInv
  <2>1. CASE sessionId' = sessionId
    BY <2>0, <2>1
  <2>2. CASE Recreate(c)
    BY <2>0, <2>2 DEF Recreate, IInv, TypeOK
  <2>3. ASSUME NEW p \in net, ReceiveInitResponse(c, p)
        PROVE  \A d \in Clients : sessionId'[d] # NoSession => Owns(d, sessionId'[d])
    <3>1. Owns(p.dst[1], p.session)
      BY <2>3 DEF IInv, NetInv, AnswerInv, ReceiveInitResponse, ArrivesAt
    <3>2. Owns(c, p.session)
      BY <2>3, <3>1, AddressOwner DEF IInv, ReceiveInitResponse, ArrivesAt
    <3> QED BY <2>0, <2>3, <3>2 DEF ReceiveInitResponse, IInv, TypeOK
  <2> QED BY <2>1, <2>2, <2>3 DEF ClientStep, RunStep, Expire, Move, QueryHost, SendMessage,
                                  Broadcast, ReceiveData, ReceiveError, clientVars
<1>3. SessionInv'
  BY <1>f, <1>o, <1>2 DEF IInv, SessionInv
<1>4. received' \subseteq sent'
  <2>1. ASSUME NEW p \in net, ReceiveData(c, p) PROVE received' \subseteq sent'
    <3>1. p.kind \in {"message", "broadcastMessage"} => <<p.sender, c, p.id>> \in sent
      BY <2>1, AddressOwner DEF ReceiveData, ArrivesAt, IInv, NetInv, AnswerInv
    <3> QED BY <1>f, <2>1, <3>1 DEF ReceiveData, IInv, RelayInv
  <2> QED BY <1>f, <2>1 DEF ClientStep, RunStep, Expire, Recreate, Move, QueryHost, SendMessage,
                Broadcast, ReceiveInitResponse, ReceiveError, history, IInv, RelayInv
<1>5. RelayInv'
  BY <1>f, <1>4 DEF IInv, RelayInv, SentByBroadcast
<1> QED BY <1>1, <1>3, <1>5

(* A session created now has an id that was never given before: it is in   *)
(* neither map, no client holds it and no packet carries it.               *)
LEMMA NewSessionIdFresh ==
  ASSUME IInv
  PROVE  /\ \A c : ~Owns(c, NewSessionId)
         /\ NewSessionId \notin DOMAIN sessions
<1>1. \A c : ~Owns(c, NewSessionId)
  BY NewSessionIdType DEF IInv, TypeOK, IssuedInv, Owns
<1> QED BY <1>1 DEF IInv, SessionInv

LEMMA CreateSessionInv ==
  ASSUME IInv, NEW t \in InitThreads, NEW p \in net, CreateSession(t, p)
  PROVE  IssuedInv' /\ SessionInv' /\ NetInv' /\ RelayInv'
<1> DEFINE new == NewSessionId
<1>t. /\ TypeOK /\ NetInv /\ p \in Packet /\ p.kind = "init"
      /\ p.client \in Clients /\ p.src[1] = p.client
  <2>1. TypeOK /\ NetInv /\ p \in Packet /\ p.kind = "init"
    BY DEF IInv, TypeOK, CreateSession
  <2> QED BY <2>1, PacketFields DEF NetInv, RequestInv
<1>n. /\ new \in Nat \ {0} /\ new \notin DOMAIN sessions
      /\ \A c : ~Owns(c, new)
  BY <1>t, NewSessionIdType, NewSessionIdFresh
<1>i. issued' = issued \cup {<<new, p.client, start>>}
  BY DEF CreateSession
<1>o. /\ \A c, id : Owns(c, id) => Owns(c, id)'
      /\ \A id : id = new => Owns(p.client, id)'
  <2>1. \A c, id : Owns(c, id) => Owns(c, id)'
    BY <1>i DEF Owns
  <2>2. ASSUME NEW id, id = new PROVE Owns(p.client, id)'
    <3> DEFINE x == <<id, p.client, start>>
    <3>1. x \in issued' /\ x[1] = id /\ x[2] = p.client
      BY <1>i, <2>2
    <3> QED BY <3>1 DEF Owns
  <2> QED BY <2>1, <2>2
<1>1. IssuedInv'
  <2>0. NewSessionId' = new + 1
    BY <1>n DEF CreateSession, NewSessionId
  <2>1. \A x \in issued : x \in Nat \X Clients \X Nat /\ x[1] > NoSession /\ x[1] < new
    BY <1>t DEF IInv, IssuedInv, TypeOK
  <2>2. \A x \in issued' : x[1] > NoSession /\ x[1] < new + 1
    BY <1>i, <1>n, <2>1 DEF NoSession
  <2>3. \A x, y \in issued' : x[1] = y[1] => x[2] = y[2]
    BY <1>i, <1>n, <2>1 DEF IInv, IssuedInv
  <2> QED BY <2>0, <2>2, <2>3 DEF IssuedInv
<1>2. SessionInv'
  <2>1. /\ DOMAIN sessions' = DOMAIN sessions \cup {new}
        /\ sessions'[new] = [clientId |-> p.client, udpSessionAddress |-> p.src]
        /\ \A id \in DOMAIN sessions : sessions'[id] = sessions[id]
    BY <1>n DEF CreateSession
  <2>2. ASSUME NEW id \in DOMAIN sessions'
        PROVE  /\ Owns(sessions[id].clientId, id)'
               /\ sessions'[id].udpSessionAddress[1] = sessions'[id].clientId
    <3>1. CASE id = new
      BY <1>t, <1>o, <2>1, <3>1
    <3>2. CASE id \in DOMAIN sessions
      BY <1>o, <2>1, <3>2 DEF IInv, SessionInv
    <3> QED BY <2>1, <2>2, <3>1, <3>2
  <2>3. ASSUME NEW c \in Clients
        PROVE  /\ mapClientSessions'[c] # NoSession => sessions'[mapClientSessions'[c]].clientId = c
               /\ sessionId'[c] # NoSession => Owns(c, sessionId[c])'
    <3>1. mapClientSessions' = mapClientSessions /\ sessionId' = sessionId
      BY DEF CreateSession, clientVars
    <3>2. mapClientSessions[c] # NoSession => mapClientSessions[c] \in DOMAIN sessions
      BY <1>t, MapType
    <3> QED BY <1>o, <2>1, <3>1, <3>2 DEF IInv, SessionInv
  <2>4. ASSUME NEW u \in InitThreads, init'[u] # Idle
        PROVE  sessions'[init'[u].session].clientId = init'[u].client
    <3>1. CASE u = t
      <4>1. init'[u] = [client |-> p.client, src |-> p.src, session |-> new]
        BY <1>t, <3>1 DEF CreateSession, TypeOK
      <4> QED BY <2>1, <4>1
    <3>2. CASE u # t
      <4>1. init'[u] = init[u]
        BY <1>t, <3>2 DEF CreateSession, TypeOK
      <4>2. init[u].session \in DOMAIN sessions
        BY <1>t, <2>4, <4>1, ThreadType
      <4> QED BY <2>1, <2>4, <4>1, <4>2 DEF IInv, SessionInv
    <3> QED BY <3>1, <3>2
  <2> QED BY <2>2, <2>3, <2>4 DEF SessionInv
<1>3. NetInv'
  <2>1. net' \subseteq net
    BY ReplyNet DEF CreateSession
  <2> QED BY <1>t, <1>i, <2>1, NetLess DEF CreateSession
<1>4. RelayInv'
  BY DEF CreateSession, IInv, RelayInv, SentByBroadcast
<1> QED BY <1>1, <1>2, <1>3, <1>4

LEMMA PublishSessionInv ==
  ASSUME IInv, NEW t \in InitThreads, PublishSession(t)
  PROVE  IssuedInv' /\ SessionInv' /\ NetInv' /\ RelayInv'
<1> DEFINE id == init[t].session
           r  == InitResponseTo(sessions[id].udpSessionAddress, id)
<1>t. TypeOK /\ NetInv /\ init[t] # Idle
  BY DEF IInv, PublishSession
<1>f. UNCHANGED <<sessions, lastSessionId, now, sessionId, issued, sent, received, broadcasts>>
  BY DEF PublishSession, clientVars, history
<1>o. \A c, s : Owns(c, s)' <=> Owns(c, s)
  BY <1>f DEF Owns
<1>s. /\ id \in DOMAIN sessions /\ init[t].client \in Clients
      /\ sessions[id].clientId = init[t].client
      /\ Owns(sessions[id].clientId, id)
      /\ sessions[id].udpSessionAddress[1] = sessions[id].clientId
  BY <1>t, ThreadType DEF IInv, SessionInv
<1>1. IssuedInv'
  BY <1>f DEF IInv, IssuedInv, NewSessionId
<1>2. SessionInv'
  <2>1. ASSUME NEW c \in Clients, mapClientSessions'[c] # NoSession
        PROVE  sessions[mapClientSessions'[c]].clientId = c
    BY <1>t, <1>s, <2>1 DEF PublishSession, TypeOK, IInv, SessionInv
  <2>2. ASSUME NEW u \in InitThreads, init'[u] # Idle
        PROVE  init'[u] = init[u]
    BY <1>t, <2>2 DEF PublishSession, TypeOK
  <2> QED BY <1>f, <1>o, <2>1, <2>2 DEF IInv, SessionInv
<1>3. NetInv'
  <2>1. ASSUME NEW q \in {r} PROVE (RequestInv(q) /\ AnswerInv(q))'
    BY <1>s, <1>o DEF InitResponseTo, RequestInv, AnswerInv
  <2> QED BY <1>t, <1>f, <2>1, SendNet, NetStep DEF PublishSession
<1>4. RelayInv'
  BY <1>f DEF IInv, RelayInv, SentByBroadcast
<1> QED BY <1>1, <1>2, <1>3, <1>4

(* A session moves only to an address of its own client. *)
LEMMA MoveInv ==
  ASSUME IInv, NEW s \in DOMAIN sessions, NEW a, a[1] = sessions[s].clientId,
         sessions' = MoveTo(s, a),
         UNCHANGED <<mapClientSessions, lastSessionId, now, init, sessionId, issued>>
  PROVE  IssuedInv' /\ SessionInv'
<1>1. IssuedInv'
  BY DEF IInv, IssuedInv, NewSessionId
<1>2. /\ DOMAIN sessions' = DOMAIN sessions
      /\ \A id \in DOMAIN sessions :
           /\ sessions'[id].clientId = sessions[id].clientId
           /\ \/ sessions'[id].udpSessionAddress = sessions[id].udpSessionAddress
              \/ id = s /\ sessions'[id].udpSessionAddress = a
  BY DEF MoveTo, IInv, TypeOK
<1>3. \A c, id : Owns(c, id)' <=> Owns(c, id)
  BY DEF Owns
<1>4. /\ \A c \in Clients : mapClientSessions[c] # NoSession =>
           mapClientSessions[c] \in DOMAIN sessions
      /\ \A t \in InitThreads : init[t] # Idle => init[t].session \in DOMAIN sessions
  BY MapType, ThreadType DEF IInv
<1>5. SessionInv'
  BY <1>2, <1>3, <1>4 DEF IInv, SessionInv
<1> QED BY <1>1, <1>5

(* A request that is served moves a session to an address of its client,   *)
(* and what it is answered with goes there.                                *)
LEMMA ServeInv ==
  ASSUME IInv, NEW p,
         Accepts(p, {"keepAlive", "queryHost", "sendMessage", "broadcast"}), Serve(p)
  PROVE  IssuedInv' /\ SessionInv'
<1>1. p.session \in DOMAIN sessions /\ p.src[1] = sessions[p.session].clientId
  BY AcceptedFromOwner DEF Accepts
<1> QED BY <1>1, MoveInv DEF Serve, Moved, clientVars, history

(* The address a session has after the move is its client's. *)
LEMMA MovedOwner ==
  ASSUME IInv, NEW s \in DOMAIN sessions, NEW a, a[1] = sessions[s].clientId,
         NEW id \in DOMAIN sessions
  PROVE  MoveTo(s, a)[id].udpSessionAddress[1] = sessions[id].clientId
<1>1. sessions[id].udpSessionAddress[1] = sessions[id].clientId
  BY DEF IInv, SessionInv
<1>2. \/ MoveTo(s, a)[id].udpSessionAddress = sessions[id].udpSessionAddress
      \/ id = s /\ MoveTo(s, a)[id].udpSessionAddress = a
  BY DEF MoveTo
<1> QED BY <1>1, <1>2

LEMMA ServiceStepInv ==
  ASSUME IInv, ServiceStep
  PROVE  IssuedInv' /\ SessionInv' /\ NetInv' /\ RelayInv'
<1>t. TypeOK /\ NetInv /\ RelayInv
  BY DEF IInv
<1> DEFINE Requests == {"keepAlive", "queryHost", "sendMessage", "broadcast"}
<1>1. ASSUME NEW p \in net, FindSession(p)
      PROVE  IssuedInv' /\ SessionInv' /\ NetInv' /\ RelayInv'
  <2> DEFINE id == mapClientSessions[p.client]
  <2>f. UNCHANGED <<mapClientSessions, lastSessionId, now, init, sessionId, issued, sent,
                    received, broadcasts>>
    BY <1>1 DEF FindSession, clientVars, history
  <2>1. /\ p.client \in Clients /\ p.src[1] = p.client
        /\ id \in DOMAIN sessions /\ sessions[id].clientId = p.client
        /\ Owns(p.client, id)
    <3>1. p.client \in Clients /\ p.src[1] = p.client
      BY <1>1, <1>t, PacketFields DEF FindSession, TypeOK, NetInv, RequestInv
    <3>2. id \in DOMAIN sessions /\ sessions[id].clientId = p.client
      BY <1>1, <1>t, <3>1, MapType DEF FindSession, IInv, SessionInv
    <3> QED BY <3>1, <3>2 DEF IInv, SessionInv
  <2>2. IssuedInv' /\ SessionInv'
    BY <1>1, <2>f, <2>1, MoveInv DEF FindSession
  <2>3. ASSUME NEW q \in {InitResponseTo(p.src, id)} PROVE (RequestInv(q) /\ AnswerInv(q))'
    BY <2>f, <2>1 DEF InitResponseTo, RequestInv, AnswerInv, Owns
  <2>4. NetInv'
    BY <1>1, <1>t, <2>f, <2>3, ReplyNet, NetStep DEF FindSession
  <2> QED BY <1>t, <2>f, <2>2, <2>4 DEF RelayInv, SentByBroadcast
<1>2. ASSUME NEW p \in net, ServeKeepAlive(p)
      PROVE  IssuedInv' /\ SessionInv' /\ NetInv' /\ RelayInv'
  <2> DEFINE r == [kind |-> "keepAliveResponse", dst |-> p.src, session |-> p.session]
  <2>1. Accepts(p, Requests) /\ Serve(p) /\ UNCHANGED <<issued, sent, received, broadcasts>>
    BY <1>2 DEF ServeKeepAlive, Accepts, Serve, history
  <2>2. \A q \in {r} : (RequestInv(q) /\ AnswerInv(q))'
    BY DEF RequestInv, AnswerInv
  <2>3. NetInv'
    BY <1>2, <1>t, <2>1, <2>2, ReplyNet, NetStep DEF ServeKeepAlive
  <2> QED BY <1>t, <2>1, <2>3, ServeInv DEF RelayInv, SentByBroadcast
<1>3. ASSUME NEW p \in net, ServeQueryHost(p)
      PROVE  IssuedInv' /\ SessionInv' /\ NetInv' /\ RelayInv'
  <2> DEFINE id == mapClientSessions[p.target]
             r  == [kind |-> "hostInfo", dst |-> p.src, session |-> p.session,
                    target |-> p.target,
                    address |-> IF id = NoSession THEN Unknown
                                ELSE Moved(p)[id].udpSessionAddress]
  <2>1. Accepts(p, Requests) /\ Serve(p) /\ UNCHANGED <<issued, sent, received, broadcasts>>
    BY <1>3 DEF ServeQueryHost, Accepts, Serve, history
  <2>2. \A q \in {r} : (RequestInv(q) /\ AnswerInv(q))'
    BY DEF RequestInv, AnswerInv
  <2>3. NetInv'
    BY <1>3, <1>t, <2>1, <2>2, ReplyNet, NetStep DEF ServeQueryHost
  <2> QED BY <1>t, <2>1, <2>3, ServeInv DEF RelayInv, SentByBroadcast
<1>4. ASSUME NEW p \in net, ServeMessage(p)
      PROVE  IssuedInv' /\ SessionInv' /\ NetInv' /\ RelayInv'
  <2> DEFINE id == mapClientSessions[p.target]
             c  == sessions[p.session].clientId
             r  == RelayTo(id, Moved(p), "message", c, p.id)
  <2>1. Accepts(p, Requests) /\ Serve(p) /\ UNCHANGED <<issued, sent, received, broadcasts>>
    BY <1>4 DEF ServeMessage, Accepts, Serve, history
  <2>2. p.session \in DOMAIN sessions /\ c = p.src[1] /\ p.target \in Clients
    BY <1>4, <1>t, <2>1, AcceptedFromOwner, PacketFields DEF ServeMessage, Accepts, TypeOK
  <2>3. <<c, p.target, p.id>> \in sent
    BY <1>4, <1>t, <2>2 DEF ServeMessage, Accepts, NetInv, RequestInv
  <2>4. CASE id = NoSession
    <3>1. net' \subseteq net
      BY <1>4, <2>4, ReplyNet DEF ServeMessage
    <3> QED BY <1>t, <2>1, <3>1, NetLess, ServeInv DEF RelayInv, SentByBroadcast
  <2>5. CASE id # NoSession
    <3>1. id \in DOMAIN sessions /\ sessions[id].clientId = p.target
      BY <1>t, <2>2, <2>5, MapType DEF IInv, SessionInv
    <3>2. r.dst[1] = p.target
      BY <2>2, <3>1, MovedOwner DEF RelayTo, Moved
    <3>3. r.kind = "message" /\ r.sender = c /\ r.id = p.id
      BY DEF RelayTo
    <3>4. ASSUME NEW q \in {r} PROVE (RequestInv(q) /\ AnswerInv(q))'
      <4>1. q.kind = "message" /\ <<q.sender, q.dst[1], q.id>> \in sent
        BY <2>3, <3>2, <3>3, <3>4
      <4> QED BY <2>1, <4>1 DEF RequestInv, AnswerInv
    <3>5. NetInv'
      BY <1>4, <1>t, <2>1, <2>5, <3>4, ReplyNet, NetStep DEF ServeMessage
    <3> QED BY <1>t, <2>1, <3>5, ServeInv DEF RelayInv, SentByBroadcast
  <2> QED BY <2>4, <2>5
<1>5. ASSUME NEW p \in net, ServeBroadcast(p)
      PROVE  IssuedInv' /\ SessionInv' /\ NetInv' /\ RelayInv'
  <2>1. Accepts(p, Requests) /\ Serve(p) /\ UNCHANGED <<issued, sent, received>>
    BY <1>5 DEF ServeBroadcast, Accepts, Serve, history
  <2>2. SentByBroadcast(sessions[p.session].clientId, p.id)
    BY <1>5, <1>t, <2>1, AcceptedFromOwner DEF ServeBroadcast, Accepts, NetInv, RequestInv
  <2>3. net' \subseteq net
    BY <1>5, ReplyNet DEF ServeBroadcast
  <2>4. NetInv'
    BY <1>t, <2>1, <2>3, NetLess
  <2>5. RelayInv'
    <3>1. broadcasts' = broadcasts \cup {<<sessions[p.session].clientId, p.id>>}
      BY <1>5 DEF ServeBroadcast
    <3>2. \A b \in broadcasts' : SentByBroadcast(b[1], b[2])
      BY <1>t, <2>2, <3>1 DEF RelayInv
    <3> QED BY <1>t, <2>1, <3>2 DEF RelayInv, SentByBroadcast
  <2> QED BY <2>1, <2>4, <2>5, ServeInv
<1>6. ASSUME NEW p \in net, RejectRequest(p)
      PROVE  IssuedInv' /\ SessionInv' /\ NetInv' /\ RelayInv'
  <2> DEFINE r == [kind |-> "error", dst |-> sessions[p.session].udpSessionAddress]
  <2>f. UNCHANGED <<sessions, mapClientSessions, lastSessionId, now, init, sessionId, issued,
                    sent, received, broadcasts>>
    BY <1>6 DEF RejectRequest, serviceVars, clientVars, history
  <2>1. \A q \in {r} : (RequestInv(q) /\ AnswerInv(q))'
    BY DEF RequestInv, AnswerInv
  <2>2. NetInv'
    BY <1>6, <1>t, <2>f, <2>1, ReplyNet, NetStep DEF RejectRequest
  <2> QED BY <2>f, <2>2 DEF IInv, IssuedInv, NewSessionId, SessionInv, Owns, RelayInv, SentByBroadcast
<1>7. ASSUME NEW b \in broadcasts, RelayBroadcast(b)
      PROVE  IssuedInv' /\ SessionInv' /\ NetInv' /\ RelayInv'
  <2> DEFINE packets == {RelayTo(id, sessions, "broadcastMessage", b[1], b[2]) :
                           id \in BroadcastTargets(b[1])}
  <2>f. UNCHANGED <<sessions, mapClientSessions, lastSessionId, now, init, sessionId, issued,
                    sent, received>>
    BY <1>7 DEF RelayBroadcast, clientVars, history
  <2>1. ASSUME NEW q \in packets PROVE (RequestInv(q) /\ AnswerInv(q))'
    <3>1. PICK d \in Others(b[1]) :
            /\ mapClientSessions[d] # NoSession
            /\ q = RelayTo(mapClientSessions[d], sessions, "broadcastMessage", b[1], b[2])
      BY <2>1 DEF BroadcastTargets
    <3>2. d \in Clients /\ mapClientSessions[d] \in DOMAIN sessions
      BY <1>t, <3>1, MapType DEF Others
    <3>3. q.dst[1] = d
      BY <3>1, <3>2 DEF RelayTo, IInv, SessionInv
    <3>4. <<b[1], d, b[2]>> \in sent
      BY <1>t, <1>7, <3>1 DEF RelayInv, SentByBroadcast
    <3>5. q.kind = "broadcastMessage" /\ <<q.sender, q.dst[1], q.id>> \in sent
      BY <3>1, <3>3, <3>4 DEF RelayTo
    <3> QED BY <2>f, <3>5 DEF RequestInv, AnswerInv
  <2>2. NetInv'
    BY <1>7, <1>t, <2>f, <2>1, SendNet, NetStep DEF RelayBroadcast
  <2>3. broadcasts' \subseteq broadcasts
    BY <1>7 DEF RelayBroadcast
  <2> QED BY <2>f, <2>2, <2>3 DEF IInv, IssuedInv, NewSessionId, SessionInv, Owns, RelayInv,
                                  SentByBroadcast
<1>8. CASE Restart
  <2>f. UNCHANGED <<sessionId, net, issued, sent, received>>
    BY <1>8 DEF Restart, clientVars, history
  <2>1. IssuedInv'
    <3>1. NewSessionId' >= NewSessionId /\ NewSessionId' \in Nat /\ NewSessionId \in Nat
      BY <1>8, <1>t DEF Restart, NewSessionId, TypeOK
    <3>2. \A x \in issued : x[1] \in Nat
      BY <1>t DEF TypeOK
    <3> QED BY <2>f, <3>1, <3>2 DEF IInv, IssuedInv
  <2>2. SessionInv'
    <3>1. /\ DOMAIN sessions' = {}
          /\ \A c \in Clients : mapClientSessions'[c] = NoSession
          /\ \A t \in InitThreads : init'[t] = Idle
      BY <1>8 DEF Restart, NoSessions
    <3>2. \A c, id : Owns(c, id)' <=> Owns(c, id)
      BY <2>f DEF Owns
    <3> QED BY <2>f, <3>1, <3>2 DEF IInv, SessionInv
  <2>3. NetInv'
    BY <1>t, <2>f, NetLess
  <2>4. broadcasts' = {}
    BY <1>8 DEF Restart
  <2> QED BY <1>t, <2>f, <2>1, <2>2, <2>3, <2>4 DEF RelayInv
<1> QED BY <1>1, <1>2, <1>3, <1>4, <1>5, <1>6, <1>7, <1>8 DEF ServiceStep

LEMMA InitInv == Init => IInv
<1> SUFFICES ASSUME Init PROVE IInv
  OBVIOUS
<1>1. TypeOK
  BY InitType
<1>2. DOMAIN sessions = {}
  BY DEF Init, NoSessions
<1>3. SessionInv
  BY <1>2 DEF Init, SessionInv
<1> QED BY <1>1, <1>3 DEF Init, IInv, IssuedInv, NetInv, RelayInv

LEMMA StepInv == IInv /\ [Next]_vars => IInv'
<1> SUFFICES ASSUME IInv, [Next]_vars PROVE IInv'
  OBVIOUS
<1>1. TypeOK'
  BY StepType DEF IInv
<1>2. ASSUME NEW c \in Clients, ClientStep(c) PROVE IInv'
  BY <1>1, <1>2, ClientStepInv, ClientStepNet DEF IInv
<1>3. ASSUME NEW t \in InitThreads, ThreadStep(t) PROVE IInv'
  BY <1>1, <1>3, CreateSessionInv, PublishSessionInv DEF IInv, ThreadStep
<1>4. CASE ServiceStep
  BY <1>1, <1>4, ServiceStepInv DEF IInv
<1>5. CASE UNCHANGED <<serviceVars, clientVars, history>> /\ net' \subseteq net
  <2>1. NetInv'
    BY <1>5, NetLess DEF IInv, history
  <2> QED BY <1>1, <1>5, <2>1 DEF serviceVars, clientVars, history, IInv, IssuedInv, NewSessionId,
                                  SessionInv, Owns, RelayInv, SentByBroadcast
<1> QED BY <1>2, <1>3, <1>4, <1>5 DEF Next, Lose, vars

LEMMA Inductive == Spec => []IInv
<1> QED BY InitInv, StepInv, PTL DEF Spec

(* A session id that a client holds, or that is on its way to one, never   *)
(* names the session of another client, whatever restarts, threads and     *)
(* repeated packets came between.                                          *)
THEOREM OwnershipOfSessions == Spec => []SessionOwnership
<1>1. IInv => SessionOwnership
  <2> SUFFICES ASSUME IInv PROVE SessionOwnership
    OBVIOUS
  <2>1. \A id \in DOMAIN sessions : id # NoSession /\ Owns(sessions[id].clientId, id)
    BY DEF IInv, SessionInv, IssuedInv, Owns, TypeOK, NoSession
  <2>2. ASSUME NEW c \in Clients, sessionId[c] \in DOMAIN sessions
        PROVE  sessions[sessionId[c]].clientId = c
    <3>1. Owns(c, sessionId[c])
      BY <2>1, <2>2 DEF IInv, SessionInv
    <3> QED BY <2>1, <2>2, <3>1, OneOwner DEF IInv
  <2>3. ASSUME NEW p \in net, p.kind = "initResponse", p.session \in DOMAIN sessions
        PROVE  sessions[p.session].clientId = p.dst[1]
    <3>1. Owns(p.dst[1], p.session)
      BY <2>3 DEF IInv, NetInv, AnswerInv
    <3> QED BY <2>1, <2>3, <3>1, OneOwner DEF IInv
  <2> QED BY <2>2, <2>3 DEF SessionOwnership
<1> QED BY <1>1, Inductive, PTL

-----------------------------------------------------------------------------
(* Answered sessions *)

(* A packet carries an id that its client owns. *)
LEMMA CarriedOwned ==
  ASSUME NetInv, NEW p \in net, NEW id, Carries(p, id)
  PROVE  \E c : Owns(c, id)
  BY DEF NetInv, RequestInv, AnswerInv, Carries

(* A step that sends nothing new about an id, and keeps what the service   *)
(* registered, preserves AnsweredInv: each id that a packet of the step    *)
(* carries, or that the step gives to a client, was carried or held before *)
(* or is registered.                                                       *)
LEMMA AnsweredStep ==
  ASSUME AnsweredInv, UNCHANGED <<issued, start>>,
         \A c, id : Registered(c, id) => Registered(c, id)',
         \A x \in issued : x[3] = start /\ sessionId'[x[2]] = x[1] /\ sessionId[x[2]] # x[1] =>
           Registered(x[2], x[1])',
         \A q \in net' \ net : \A x \in issued :
           x[3] = start /\ Carries(q, x[1]) => Registered(x[2], x[1])'
  PROVE  AnsweredInv'
<1> SUFFICES ASSUME NEW x \in issued, x[3] = start,
                    sessionId'[x[2]] = x[1] \/ \E p \in net' : Carries(p, x[1])
             PROVE  Registered(x[2], x[1])'
  BY DEF AnsweredInv, Carries
<1>1. CASE sessionId'[x[2]] = x[1]
  BY <1>1 DEF AnsweredInv
<1>2. ASSUME NEW p \in net', Carries(p, x[1]) PROVE Registered(x[2], x[1])'
  <2>1. CASE p \in net
    BY <1>2, <2>1 DEF AnsweredInv
  <2>2. CASE p \notin net
    BY <1>2, <2>2
  <2> QED BY <2>1, <2>2
<1> QED BY <1>1, <1>2

(* A client's step: what it sends carries the id it holds, and the id it    *)
(* takes was carried by the answer.                                        *)
LEMMA ClientStepAnswered ==
  ASSUME AnswerIInv, NEW c \in Clients, ClientStep(c)
  PROVE  AnsweredInv'
<1>f. /\ UNCHANGED <<issued, start, sessions, mapClientSessions>>
      /\ IInv /\ TypeOK /\ NetInv /\ IssuedInv /\ AnsweredInv
      /\ \A d, id : Registered(d, id) => Registered(d, id)'
  BY ClientStepFrame DEF AnswerIInv, IInv, serviceVars, Registered
<1>o. ASSUME NEW x \in issued, NEW id, Owns(c, id), x[1] = id PROVE x[2] = c
  BY <1>f, <1>o DEF IssuedInv, Owns
<1>h. ASSUME Connected(c), NEW x \in issued, x[3] = start, x[1] = sessionId[c]
      PROVE  Registered(x[2], x[1])'
  <2>1. x[2] = c
    BY <1>f, <1>h, <1>o, ConnectedOwns
  <2> QED BY <1>f, <1>h, <2>1 DEF AnsweredInv
<1> DEFINE OnSession(q) == q.kind \in {"keepAlive", "queryHost", "sendMessage", "broadcast"} =>
                            q.session = sessionId[c]
<1>s. ASSUME NEW q, Connected(c), q.kind # "initResponse", OnSession(q)
      PROVE  \A x \in issued : x[3] = start /\ Carries(q, x[1]) => Registered(x[2], x[1])'
  BY <1>s, <1>h DEF Carries
<1>i. \A x : ~Carries(InitOf(c), x)
  BY DEF Carries, InitOf
<1>1. CASE RunStep(c)
  <2>1. sessionId' = sessionId
    BY <1>1 DEF RunStep, clientVars
  <2>2. CASE Connected(c)
    <3>1. \A x \in issued : x[3] = start /\ Carries(KeepAliveOf(c), x[1]) => Registered(x[2], x[1])'
      BY <1>s, <2>2 DEF KeepAliveOf
    <3>2. net' \subseteq net \cup {KeepAliveOf(c)}
      BY <1>1, <2>2, SendNet DEF RunStep
    <3> QED BY <1>f, <2>1, <3>1, <3>2, AnsweredStep
  <2>3. CASE ~Connected(c)
    <3>1. net' \subseteq net \cup {InitOf(c)}
      BY <1>1, <2>3, SendNet DEF RunStep
    <3> QED BY <1>f, <1>i, <2>1, <3>1, AnsweredStep
  <2> QED BY <2>2, <2>3
<1>2. ASSUME NEW d \in Clients, QueryHost(c, d) PROVE AnsweredInv'
  <2> DEFINE r == [kind |-> "queryHost", src |-> AddressOf(c), session |-> sessionId[c],
                   target |-> d]
  <2>1. net' \subseteq net \cup {r} /\ sessionId' = sessionId /\ Connected(c)
    BY <1>2, SendNet DEF QueryHost, clientVars
  <2>2. \A x \in issued : x[3] = start /\ Carries(r, x[1]) => Registered(x[2], x[1])'
    BY <1>s, <2>1
  <2> QED BY <1>f, <2>1, <2>2, AnsweredStep
<1>3. ASSUME NEW d \in Clients, NEW m \in MessageIds, SendMessage(c, d, m) PROVE AnsweredInv'
  <2> DEFINE r == [kind |-> "sendMessage", src |-> AddressOf(c), session |-> sessionId[c],
                   target |-> d, id |-> m]
  <2>1. net' \subseteq net \cup {r} /\ sessionId' = sessionId /\ Connected(c)
    BY <1>3, SendNet DEF SendMessage, clientVars
  <2>2. \A x \in issued : x[3] = start /\ Carries(r, x[1]) => Registered(x[2], x[1])'
    BY <1>s, <2>1
  <2> QED BY <1>f, <2>1, <2>2, AnsweredStep
<1>4. ASSUME NEW m \in MessageIds, Broadcast(c, m) PROVE AnsweredInv'
  <2> DEFINE r == [kind |-> "broadcast", src |-> AddressOf(c), session |-> sessionId[c], id |-> m]
  <2>1. net' \subseteq net \cup {r} /\ sessionId' = sessionId /\ Connected(c)
    BY <1>4, SendNet DEF Broadcast, clientVars
  <2>2. \A x \in issued : x[3] = start /\ Carries(r, x[1]) => Registered(x[2], x[1])'
    BY <1>s, <2>1
  <2> QED BY <1>f, <2>1, <2>2, AnsweredStep
<1>5. ASSUME NEW p \in net, ReceiveInitResponse(c, p) PROVE AnsweredInv'
  <2>1. net' \subseteq net \cup {}
    BY <1>5, ReplyNet DEF ReceiveInitResponse
  <2>2. ASSUME NEW x \in issued, x[3] = start, sessionId'[x[2]] = x[1], sessionId[x[2]] # x[1]
        PROVE  Registered(x[2], x[1])'
    <3>1. x[1] = p.session
      BY <1>5, <1>f, <2>2 DEF ReceiveInitResponse, TypeOK
    <3>2. Carries(p, x[1])
      BY <1>5, <3>1 DEF ReceiveInitResponse, ArrivesAt, Carries
    <3> QED BY <1>f, <2>2, <3>2 DEF AnsweredInv
  <2> QED BY <1>f, <2>1, <2>2, AnsweredStep
<1>6. ASSUME NEW p \in net, ReceiveData(c, p) PROVE AnsweredInv'
  <2>1. net' \subseteq net \cup {} /\ sessionId' = sessionId
    BY <1>6, ReplyNet DEF ReceiveData
  <2> QED BY <1>f, <2>1, AnsweredStep
<1>7. ASSUME NEW p \in net, ReceiveError(c, p) PROVE AnsweredInv'
  <2>1. net' \subseteq net \cup {InitOf(c)} /\ sessionId' = sessionId
    BY <1>7, ReplyNet DEF ReceiveError, clientVars
  <2> QED BY <1>f, <1>i, <2>1, AnsweredStep
<1>8. CASE Expire(c) \/ Move(c)
  <2>1. net' \subseteq net \cup {} /\ sessionId' = sessionId
    BY <1>8 DEF Expire, Move
  <2> QED BY <1>f, <2>1, AnsweredStep
<1>9. CASE Recreate(c)
  <2>1. net' \subseteq net \cup {}
    BY <1>9 DEF Recreate
  <2>2. ASSUME NEW x \in issued, sessionId'[x[2]] = x[1] PROVE sessionId[x[2]] = x[1]
    BY <1>9, <1>f, <2>2 DEF Recreate, IssuedInv, TypeOK
  <2> QED BY <1>f, <2>1, <2>2, AnsweredStep
<1> QED BY <1>1, <1>2, <1>3, <1>4, <1>5, <1>6, <1>7, <1>8, <1>9 DEF ClientStep

(* A step that leaves the clients alone and only adds to the maps.          *)
LEMMA AnsweredLess ==
  ASSUME AnsweredInv, UNCHANGED <<issued, start, sessionId>>, net' \subseteq net,
         \A c, id : Registered(c, id) => Registered(c, id)'
  PROVE  AnsweredInv'
<1>1. \A x \in issued : sessionId'[x[2]] = x[1] => sessionId[x[2]] = x[1]
  OBVIOUS
<1>2. net' \ net = {}
  OBVIOUS
<1> QED BY <1>1, <1>2, AnsweredStep

(* The new session carries an id that no client holds and no packet        *)
(* carries, so it has not been answered yet.                               *)
LEMMA CreateSessionAnswered ==
  ASSUME AnswerIInv, NEW t \in InitThreads, NEW p \in net, CreateSession(t, p)
  PROVE  AnsweredInv'
<1>f. /\ issued' = issued \cup {<<NewSessionId, p.client, start>>}
      /\ UNCHANGED <<start, sessionId, mapClientSessions>> /\ net' \subseteq net
      /\ DOMAIN sessions \subseteq DOMAIN sessions'
      /\ IInv /\ TypeOK /\ NetInv /\ AnsweredInv
  BY ReplyNet DEF CreateSession, clientVars, AnswerIInv, IInv
<1>c. p.client \in Clients
  BY PacketFields DEF CreateSession, IInv, AnswerIInv, TypeOK
<1>n. \A c : ~Owns(c, NewSessionId)
  BY <1>f, NewSessionIdFresh
<1>1. sessionId[p.client] # NewSessionId
  BY <1>f, <1>c, <1>n, NewSessionIdType DEF IInv, SessionInv, NoSession
<1>2. \A q \in net : ~Carries(q, NewSessionId)
  BY <1>f, <1>n, CarriedOwned
<1> SUFFICES ASSUME NEW x \in issued', x[3] = start,
                    sessionId[x[2]] = x[1] \/ \E q \in net' : Carries(q, x[1])
             PROVE  Registered(x[2], x[1])'
  BY <1>f DEF AnsweredInv, Carries
<1>3. CASE x = <<NewSessionId, p.client, start>>
  BY <1>1, <1>2, <1>3, <1>f
<1>4. CASE x \in issued
  BY <1>4, <1>f DEF AnsweredInv, Registered
<1> QED BY <1>3, <1>4, <1>f

(* The answer leaves when both maps hold the session.                       *)
LEMMA PublishSessionAnswered ==
  ASSUME AnswerIInv, NEW t \in InitThreads, PublishSession(t)
  PROVE  AnsweredInv'
<1> DEFINE c == init[t].client
           s == init[t].session
           r == InitResponseTo(sessions[s].udpSessionAddress, s)
<1>f. /\ UNCHANGED <<issued, start, sessionId, sessions>> /\ net' \subseteq net \cup {r}
      /\ IInv /\ TypeOK /\ IssuedInv /\ AnsweredInv
  BY SendNet DEF PublishSession, clientVars, history, AnswerIInv, IInv
<1>1. /\ c \in Clients /\ s \in DOMAIN sessions /\ s # NoSession
      /\ Owns(c, s)
  <2>1. c \in Clients /\ s \in DOMAIN sessions /\ sessions[s].clientId = c
    BY <1>f, ThreadType DEF PublishSession, IInv, SessionInv
  <2>2. Owns(c, s)
    BY <1>f, <2>1 DEF IInv, SessionInv
  <2>3. s # NoSession
    BY <1>f, <2>2 DEF IssuedInv, Owns, NoSession, TypeOK
  <2> QED BY <2>1, <2>2, <2>3
<1>2. mapClientSessions' = [mapClientSessions EXCEPT ![c] = s]
  BY DEF PublishSession
<1>3. \A d, id : d \in Clients /\ Registered(d, id) => Registered(d, id)'
  BY <1>f, <1>1, <1>2 DEF Registered, TypeOK
<1>4. \A x \in issued : Carries(r, x[1]) => Registered(x[2], x[1])'
  <2> SUFFICES ASSUME NEW x \in issued, x[1] = s PROVE Registered(x[2], x[1])'
    BY DEF Carries, InitResponseTo
  <2>1. x[2] = c
    BY <1>f, <1>1 DEF IssuedInv, Owns
  <2>2. mapClientSessions'[c] = s
    BY <1>f, <1>1, <1>2 DEF TypeOK
  <2> QED BY <1>f, <1>1, <2>1, <2>2 DEF Registered
<1> SUFFICES ASSUME NEW x \in issued, x[3] = start,
                    sessionId[x[2]] = x[1] \/ \E q \in net' : Carries(q, x[1])
             PROVE  Registered(x[2], x[1])'
  BY <1>f DEF AnsweredInv, Carries
<1>5. x[2] \in Clients
  BY <1>f DEF TypeOK
<1> QED BY <1>f, <1>3, <1>4, <1>5 DEF AnsweredInv

(* Serving a request, or an init request of a client with a session, keeps *)
(* the maps; the latter answers with a session that they hold.             *)
LEMMA ServiceStepAnswered ==
  ASSUME AnswerIInv, ServiceStep
  PROVE  AnsweredInv'
<1>f. IInv /\ TypeOK /\ NetInv /\ IssuedInv /\ AnsweredInv /\ CurrentInv
  BY DEF AnswerIInv, IInv
<1> DEFINE Requests == {"keepAlive", "queryHost", "sendMessage", "broadcast"}
<1>s. ASSUME NEW p, Accepts(p, Requests), Serve(p)
      PROVE  /\ UNCHANGED <<issued, start, sessionId>>
             /\ \A c, id : Registered(c, id) => Registered(c, id)'
  BY <1>s DEF Serve, Moved, MoveTo, Registered, clientVars, history
<1>q. ASSUME NEW q, q.kind \in {"keepAliveResponse", "hostInfo", "message", "broadcastMessage", "error"}
      PROVE  \A id : ~Carries(q, id)
  BY <1>q DEF Carries
<1>1. ASSUME NEW p \in net, FindSession(p) PROVE AnsweredInv'
  <2> DEFINE id == mapClientSessions[p.client]
             r  == InitResponseTo(p.src, id)
  <2>1. p.client \in Clients
    BY <1>1, <1>f, PacketFields DEF FindSession, TypeOK
  <2>2. id \in DOMAIN sessions /\ id # NoSession /\ Owns(p.client, id)
    BY <1>1, <1>f, <2>1, MapType DEF FindSession, IInv, SessionInv
  <2>3. /\ UNCHANGED <<issued, start, sessionId, mapClientSessions>>
        /\ DOMAIN sessions' = DOMAIN sessions
        /\ net' \subseteq net \cup {r}
    BY <1>1, ReplyNet DEF FindSession, MoveTo, clientVars, history
  <2>4. \A c, s : Registered(c, s) => Registered(c, s)'
    BY <2>3 DEF Registered
  <2>5. \A x \in issued : Carries(r, x[1]) => Registered(x[2], x[1])'
    <3> SUFFICES ASSUME NEW x \in issued, x[1] = id PROVE Registered(x[2], x[1])'
      BY DEF Carries, InitResponseTo
    <3>1. x[2] = p.client
      BY <1>f, <2>2 DEF IssuedInv, Owns
    <3> QED BY <2>2, <2>3, <3>1 DEF Registered
  <2> QED BY <1>f, <2>3, <2>4, <2>5, AnsweredStep
<1>2. ASSUME NEW p \in net, ServeKeepAlive(p) PROVE AnsweredInv'
  <2> DEFINE r == [kind |-> "keepAliveResponse", dst |-> p.src, session |-> p.session]
  <2>1. Accepts(p, Requests) /\ Serve(p) /\ net' \subseteq net \cup {r}
    BY <1>2, ReplyNet DEF ServeKeepAlive, Accepts
  <2>2. \A x : ~Carries(r, x)
    BY <1>q
  <2> QED BY <1>f, <1>s, <2>1, <2>2, AnsweredStep
<1>3. ASSUME NEW p \in net, ServeQueryHost(p) PROVE AnsweredInv'
  <2> DEFINE id == mapClientSessions[p.target]
             r  == [kind |-> "hostInfo", dst |-> p.src, session |-> p.session,
                    target |-> p.target,
                    address |-> IF id = NoSession THEN Unknown
                                ELSE Moved(p)[id].udpSessionAddress]
  <2>1. Accepts(p, Requests) /\ Serve(p) /\ net' \subseteq net \cup {r}
    BY <1>3, ReplyNet DEF ServeQueryHost, Accepts
  <2>2. \A x : ~Carries(r, x)
    BY <1>q
  <2> QED BY <1>f, <1>s, <2>1, <2>2, AnsweredStep
<1>4. ASSUME NEW p \in net, ServeMessage(p) PROVE AnsweredInv'
  <2> DEFINE id == mapClientSessions[p.target]
             r  == RelayTo(id, Moved(p), "message", sessions[p.session].clientId, p.id)
  <2>1. Accepts(p, Requests) /\ Serve(p) /\ net' \subseteq net \cup {r}
    BY <1>4, ReplyNet DEF ServeMessage, Accepts
  <2>2. \A x : ~Carries(r, x)
    BY <1>q DEF RelayTo
  <2> QED BY <1>f, <1>s, <2>1, <2>2, AnsweredStep
<1>5. ASSUME NEW p \in net, ServeBroadcast(p) PROVE AnsweredInv'
  <2>1. Accepts(p, Requests) /\ Serve(p) /\ net' \subseteq net
    BY <1>5, ReplyNet DEF ServeBroadcast, Accepts
  <2> QED BY <1>f, <1>s, <2>1, AnsweredLess
<1>6. ASSUME NEW p \in net, RejectRequest(p) PROVE AnsweredInv'
  <2> DEFINE r == [kind |-> "error", dst |-> sessions[p.session].udpSessionAddress]
  <2>1. /\ UNCHANGED <<issued, start, sessionId, sessions, mapClientSessions>>
        /\ net' \subseteq net \cup {r}
    BY <1>6, ReplyNet DEF RejectRequest, serviceVars, clientVars, history
  <2>2. \A x : ~Carries(r, x)
    BY <1>q
  <2>3. \A c, s : Registered(c, s) => Registered(c, s)'
    BY <2>1 DEF Registered
  <2> QED BY <1>f, <2>1, <2>2, <2>3, AnsweredStep
<1>7. ASSUME NEW b \in broadcasts, RelayBroadcast(b) PROVE AnsweredInv'
  <2> DEFINE packets == {RelayTo(id, sessions, "broadcastMessage", b[1], b[2]) :
                           id \in BroadcastTargets(b[1])}
  <2>1. /\ UNCHANGED <<issued, start, sessionId, sessions, mapClientSessions>>
        /\ net' \subseteq net \cup packets
    BY <1>7, SendNet DEF RelayBroadcast, clientVars, history
  <2>2. ASSUME NEW q \in net' \ net PROVE \A x : ~Carries(q, x)
    BY <1>q, <2>1, <2>2 DEF RelayTo
  <2>3. \A c, s : Registered(c, s) => Registered(c, s)'
    BY <2>1 DEF Registered
  <2> QED BY <1>f, <2>1, <2>2, <2>3, AnsweredStep
<1>8. CASE Restart
  <2>1. start' = start + 1 /\ issued' = issued
    BY <1>8 DEF Restart, history
  <2>2. \A x \in issued : x[3] # start'
    BY <1>f, <2>1 DEF CurrentInv, TypeOK
  <2> QED BY <2>1, <2>2 DEF AnsweredInv
<1> QED BY <1>1, <1>2, <1>3, <1>4, <1>5, <1>6, <1>7, <1>8 DEF ServiceStep

(* What the service holds was created since it started: sessions are        *)
(* added, moved, or forgotten all at once.                                 *)
LEMMA StepCurrent ==
  ASSUME IInv, CurrentInv, [Next]_vars
  PROVE  CurrentInv'
<1>t. TypeOK /\ TypeOK'
  BY StepType DEF IInv
<1>k. ASSUME UNCHANGED <<issued, start>>, DOMAIN sessions' = DOMAIN sessions,
             \A id \in DOMAIN sessions : sessions'[id].clientId = sessions[id].clientId
      PROVE  CurrentInv'
  BY <1>k DEF CurrentInv
<1>m. ASSUME NEW s \in DOMAIN sessions, NEW a, sessions' = MoveTo(s, a), UNCHANGED <<issued, start>>
      PROVE  CurrentInv'
  <2>1. /\ DOMAIN sessions' = DOMAIN sessions
        /\ \A id \in DOMAIN sessions : sessions'[id].clientId = sessions[id].clientId
    BY <1>m, <1>t DEF MoveTo, TypeOK
  <2> QED BY <1>k, <1>m, <2>1
<1>1. ASSUME NEW c \in Clients, ClientStep(c) PROVE CurrentInv'
  BY <1>1, <1>k, ClientStepFrame DEF serviceVars
<1>2. ASSUME NEW t \in InitThreads, PublishSession(t) PROVE CurrentInv'
  BY <1>2, <1>k DEF PublishSession, history
<1>3. ASSUME NEW t \in InitThreads, NEW p \in net, CreateSession(t, p) PROVE CurrentInv'
  <2>1. /\ issued' = issued \cup {<<NewSessionId, p.client, start>>} /\ start' = start
        /\ DOMAIN sessions' = DOMAIN sessions \cup {NewSessionId}
        /\ sessions'[NewSessionId].clientId = p.client
        /\ \A id \in DOMAIN sessions \ {NewSessionId} : sessions'[id] = sessions[id]
    BY <1>3 DEF CreateSession
  <2>2. IsFiniteSet(DOMAIN sessions')
    BY <2>1, FS_AddElement DEF CurrentInv
  <2>3. \A x \in issued' : x[3] <= start'
    BY <1>t, <2>1 DEF CurrentInv, TypeOK
  <2>4. \A id \in DOMAIN sessions' : <<id, sessions'[id].clientId, start'>> \in issued'
    BY <2>1 DEF CurrentInv
  <2> QED BY <2>2, <2>3, <2>4 DEF CurrentInv
<1>4. ASSUME NEW p \in net, FindSession(p) PROVE CurrentInv'
  <2>1. p.client \in Clients
    BY <1>4, <1>t, PacketFields DEF FindSession, TypeOK
  <2> QED BY <1>4, <1>t, <1>m, <2>1, MapType DEF FindSession, history
<1>5. ASSUME NEW p, Accepts(p, {"keepAlive", "queryHost", "sendMessage", "broadcast"}), Serve(p)
      PROVE  CurrentInv'
  BY <1>5, <1>m DEF Accepts, Serve, Moved, history
<1>6. ASSUME NEW p \in net, ServeKeepAlive(p) \/ ServeQueryHost(p) \/ ServeMessage(p) \/ ServeBroadcast(p)
      PROVE  CurrentInv'
  <2>1. Accepts(p, {"keepAlive", "queryHost", "sendMessage", "broadcast"}) /\ Serve(p)
    BY <1>6 DEF ServeKeepAlive, ServeQueryHost, ServeMessage, ServeBroadcast, Accepts
  <2> QED BY <1>5, <2>1
<1>7. CASE Restart
  <2>1. start' = start + 1 /\ issued' = issued /\ DOMAIN sessions' = {}
    BY <1>7 DEF Restart, NoSessions, history
  <2> QED BY <1>t, <2>1, FS_EmptySet DEF CurrentInv, TypeOK
<1>8. CASE UNCHANGED <<sessions, start, issued>>
  BY <1>8, <1>k
<1> QED BY <1>1, <1>2, <1>3, <1>4, <1>6, <1>7, <1>8
    DEF Next, ThreadStep, ServiceStep, RejectRequest, RelayBroadcast, Lose, vars, serviceVars, history

LEMMA AnswerInductive == Spec => []AnswerIInv
<1>1. Init => AnswerIInv
  <2> SUFFICES ASSUME Init PROVE AnswerIInv
    OBVIOUS
  <2>1. DOMAIN sessions = {}
    BY DEF Init, NoSessions
  <2> QED BY <2>1, InitInv, FS_EmptySet DEF Init, AnswerIInv, CurrentInv, AnsweredInv
<1>2. AnswerIInv /\ [Next]_vars => AnswerIInv'
  <2> SUFFICES ASSUME AnswerIInv, [Next]_vars PROVE AnswerIInv'
    OBVIOUS
  <2>1. IInv' /\ CurrentInv'
    BY StepInv, StepCurrent DEF AnswerIInv
  <2>2. ASSUME NEW t \in InitThreads, ThreadStep(t) PROVE AnsweredInv'
    BY <2>2, CreateSessionAnswered, PublishSessionAnswered DEF ThreadStep
  <2>3. ASSUME UNCHANGED <<serviceVars, clientVars, history>>, net' \subseteq net
        PROVE  AnsweredInv'
    <3>1. \A c, id : Registered(c, id) => Registered(c, id)'
      BY <2>3 DEF Registered, serviceVars
    <3> QED BY <2>3, <3>1, AnsweredLess DEF AnswerIInv, serviceVars, clientVars, history
  <2>4. AnsweredInv'
    BY <2>2, <2>3, ClientStepAnswered, ServiceStepAnswered DEF Next, Lose, vars
  <2> QED BY <2>1, <2>4 DEF AnswerIInv
<1> QED BY <1>1, <1>2, PTL DEF Spec

(* A session that the running service answered with is one it can serve,   *)
(* and its client is found by the others, however many threads answer the  *)
(* same client and whatever answers of an earlier service are in flight.   *)
THEOREM AnsweredSessions == Spec => []AnsweredIsRegistered
<1>1. AnswerIInv => AnsweredIsRegistered
  BY DEF AnswerIInv, AnsweredInv, AnsweredIsRegistered, Carries, Registered
<1> QED BY <1>1, AnswerInductive, PTL

-----------------------------------------------------------------------------
(* Addresses *)

(* Whoever serves a request on a session moves it; such a session is        *)
(* published, so no thread is about to overwrite where its client was      *)
(* heard.                                                                  *)
LEMMA MoveAddress ==
  ASSUME IInv, ThreadInv, QueryInv,
         NEW s \in DOMAIN sessions, NEW a, sessions' = MoveTo(s, a),
         mapClientSessions[sessions[s].clientId] # NoSession,
         heard' = [heard EXCEPT ![sessions[s].clientId] = a],
         UNCHANGED <<mapClientSessions, init>>
  PROVE  ThreadInv' /\ QueryInv'
<1> DEFINE o == sessions[s].clientId
<1>t. TypeOK /\ o \in Clients
  BY SessionType DEF IInv
<1>1. /\ DOMAIN sessions' = DOMAIN sessions
      /\ \A id \in DOMAIN sessions :
           /\ sessions'[id].clientId = sessions[id].clientId
           /\ id # s => sessions'[id] = sessions[id]
      /\ sessions'[s].udpSessionAddress = a
  BY <1>t DEF MoveTo, TypeOK
<1>2. \A c : SessionsOf(c)' = SessionsOf(c)
  BY <1>1 DEF SessionsOf
<1>3. ThreadInv'
  <2> SUFFICES ASSUME NEW t \in InitThreads, init[t] # Idle
               PROVE  LET c == init[t].client
                          x == init[t].session
                      IN  /\ \A u \in InitThreads \ {t} : init[u] # Idle => init[u].session # x
                          /\ SessionsOf(c) = {x} =>
                               /\ mapClientSessions[c] = NoSession
                               /\ sessions'[x].udpSessionAddress = init[t].src
    BY <1>2 DEF ThreadInv
  <2>1. init[t].session \in DOMAIN sessions /\ sessions[init[t].session].clientId = init[t].client
    BY <1>t, ThreadType DEF IInv, SessionInv
  <2> QED BY <1>1, <2>1 DEF ThreadInv
<1>4. ASSUME NEW c \in Clients, mapClientSessions[c] # NoSession,
             SessionsOf(c) = {mapClientSessions[c]}
      PROVE  sessions'[mapClientSessions[c]].udpSessionAddress = heard'[c]
  <2>1. mapClientSessions[c] \in DOMAIN sessions /\ sessions[mapClientSessions[c]].clientId = c
    BY <1>t, <1>4, MapType DEF IInv, SessionInv
  <2>2. CASE s = mapClientSessions[c]
    BY <1>t, <1>1, <2>1, <2>2 DEF TypeOK
  <2>3. CASE s # mapClientSessions[c]
    <3>1. o # c
      BY <1>4, <2>3 DEF SessionsOf
    <3>2. heard'[c] = heard[c]
      BY <1>t, <3>1 DEF TypeOK
    <3> QED BY <1>1, <1>4, <2>1, <2>3, <3>2 DEF QueryInv
  <2> QED BY <2>2, <2>3
<1> QED BY <1>2, <1>3, <1>4 DEF QueryInv

(* A request is accepted on a session that the maps hold for its client.    *)
LEMMA AcceptedRegistered ==
  ASSUME AnswerIInv, NEW p,
         Accepts(p, {"keepAlive", "queryHost", "sendMessage", "broadcast"})
  PROVE  /\ p.session \in DOMAIN sessions
         /\ mapClientSessions[sessions[p.session].clientId] # NoSession
<1> DEFINE x == <<p.session, sessions[p.session].clientId, start>>
<1>1. p.session \in DOMAIN sessions /\ p \in net /\ Carries(p, p.session)
  BY DEF Accepts, Carries
<1>2. x \in issued
  BY <1>1 DEF AnswerIInv, CurrentInv
<1>3. Registered(x[2], x[1])
  <2>1. x[1] = p.session /\ x[3] = start
    OBVIOUS
  <2> QED BY <1>1, <1>2, <2>1 DEF AnswerIInv, AnsweredInv
<1> QED BY <1>1, <1>3 DEF Registered

(* A thread creates a session that no other thread has; it is the only one  *)
(* of its client only if the client had none.                              *)
LEMMA CreateSessionAddress ==
  ASSUME AddressIInv, NEW t \in InitThreads, NEW p \in net, CreateSession(t, p)
  PROVE  ThreadInv' /\ QueryInv'
<1> DEFINE new == NewSessionId
<1>t. /\ IInv /\ TypeOK /\ ThreadInv /\ QueryInv /\ init[t] = Idle
      /\ p.client \in Clients /\ mapClientSessions[p.client] = NoSession
      /\ UNCHANGED <<mapClientSessions, heard>>
  <2>1. p \in Packet
    BY DEF AddressIInv, AnswerIInv, IInv, TypeOK
  <2> QED BY <2>1, PacketFields DEF AddressIInv, AnswerIInv, IInv, CreateSession
<1>n. new \notin DOMAIN sessions
  BY <1>t, NewSessionIdFresh
<1>1. /\ DOMAIN sessions' = DOMAIN sessions \cup {new}
      /\ sessions'[new] = [clientId |-> p.client, udpSessionAddress |-> p.src]
      /\ \A id \in DOMAIN sessions : sessions'[id] = sessions[id]
  BY <1>n DEF CreateSession
<1>2. /\ \A c : c # p.client => SessionsOf(c)' = SessionsOf(c)
      /\ SessionsOf(p.client)' = SessionsOf(p.client) \cup {new}
      /\ new \notin SessionsOf(p.client)
  BY <1>n, <1>1 DEF SessionsOf
<1>3. init' = [init EXCEPT ![t] = [client |-> p.client, src |-> p.src, session |-> new]]
  BY DEF CreateSession
<1>u. ASSUME NEW u \in InitThreads, u # t, init'[u] # Idle
      PROVE  /\ init'[u] = init[u] /\ init[u] # Idle
             /\ init[u].session \in DOMAIN sessions /\ init[u].session # new
             /\ init[u].session \in SessionsOf(init[u].client)
  <2>1. init'[u] = init[u] /\ init[u] # Idle
    BY <1>t, <1>3, <1>u DEF TypeOK
  <2> QED BY <1>t, <1>n, <2>1, ThreadType DEF IInv, SessionInv, SessionsOf
<1>v. init'[t] = [client |-> p.client, src |-> p.src, session |-> new]
  BY <1>t, <1>3 DEF TypeOK
<1>4. ThreadInv'
  <2> DEFINE Own(v, c, x) ==
               /\ \A u \in InitThreads \ {v} : init'[u] # Idle => init'[u].session # x
               /\ SessionsOf(c)' = {x} =>
                    /\ mapClientSessions[c] = NoSession
                    /\ sessions'[x].udpSessionAddress = init'[v].src
  <2>1. ASSUME NEW c, NEW x, c = p.client, x = new PROVE Own(t, c, x)
    BY <1>t, <1>1, <1>u, <1>v, <2>1
  <2>2. ASSUME NEW v \in InitThreads, v # t, init'[v] # Idle,
               NEW c, NEW x, c = init[v].client, x = init[v].session
        PROVE  Own(v, c, x)
    <3>1. \A u \in InitThreads \ {v} : init'[u] # Idle => init'[u].session # x
      BY <1>t, <1>u, <1>v, <2>2 DEF ThreadInv
    <3>2. CASE c = p.client
      <4>1. {x, new} \subseteq SessionsOf(c)' /\ x # new
        BY <1>u, <1>2, <2>2, <3>2
      <4> QED BY <3>1, <4>1
    <3>3. CASE c # p.client
      <4>1. SessionsOf(c)' = SessionsOf(c)
        BY <1>2, <3>3
      <4>2. sessions'[x] = sessions[x] /\ init'[v].src = init[v].src
        BY <1>1, <1>u, <2>2
      <4> QED BY <1>t, <1>u, <2>2, <3>1, <4>1, <4>2 DEF ThreadInv
    <3> QED BY <3>2, <3>3
  <2>3. ASSUME NEW v \in InitThreads, init'[v] # Idle,
               NEW c, NEW x, c = init'[v].client, x = init'[v].session
        PROVE  Own(v, c, x)
    <3>1. CASE v = t
      BY <1>v, <2>1, <2>3, <3>1
    <3>2. CASE v # t
      BY <1>u, <2>2, <2>3, <3>2
    <3> QED BY <3>1, <3>2
  <2> QED BY <1>t, <2>3 DEF ThreadInv, SessionsOf
<1>5. QueryInv'
  <2> SUFFICES ASSUME NEW c \in Clients, mapClientSessions[c] # NoSession,
                      SessionsOf(c)' = {mapClientSessions[c]}
               PROVE  sessions'[mapClientSessions[c]].udpSessionAddress = heard[c]
    BY <1>t DEF QueryInv
  <2>1. c # p.client /\ mapClientSessions[c] \in DOMAIN sessions
    BY <1>t, MapType
  <2> QED BY <1>t, <1>1, <1>2, <2>1 DEF QueryInv
<1> QED BY <1>4, <1>5

(* A thread publishes the only session of its client where it created it.  *)
LEMMA PublishSessionAddress ==
  ASSUME AddressIInv, NEW t \in InitThreads, PublishSession(t)
  PROVE  ThreadInv' /\ QueryInv'
<1> DEFINE c == init[t].client
           s == init[t].session
<1>t. /\ IInv /\ TypeOK /\ ThreadInv /\ QueryInv /\ init[t] # Idle
      /\ sessions' = sessions
      /\ mapClientSessions' = [mapClientSessions EXCEPT ![c] = s]
      /\ heard' = [heard EXCEPT ![c] = init[t].src]
      /\ init' = [init EXCEPT ![t] = Idle]
  BY DEF AddressIInv, AnswerIInv, IInv, PublishSession
<1>s. c \in Clients /\ s \in DOMAIN sessions /\ s \in SessionsOf(c)
  BY <1>t, ThreadType DEF IInv, SessionInv, SessionsOf
<1>1. \A d : SessionsOf(d)' = SessionsOf(d)
  BY <1>t DEF SessionsOf
<1>2. ThreadInv'
  <2> SUFFICES ASSUME NEW v \in InitThreads, init'[v] # Idle
               PROVE  LET d == init'[v].client
                          x == init'[v].session
                      IN  /\ \A u \in InitThreads \ {v} : init'[u] # Idle => init'[u].session # x
                          /\ SessionsOf(d) = {x} =>
                               /\ mapClientSessions'[d] = NoSession
                               /\ sessions[x].udpSessionAddress = init'[v].src
    BY <1>t, <1>1 DEF ThreadInv
  <2>1. /\ v # t /\ init'[v] = init[v] /\ init[v].session # s
        /\ \A u \in InitThreads : init'[u] # Idle => init'[u] = init[u]
    BY <1>t DEF TypeOK, ThreadInv
  <2>2. init[v].client \in Clients
    BY <1>t, <2>1, ThreadType
  <2>3. SessionsOf(init[v].client) = {init[v].session} => init[v].client # c
    BY <1>s, <2>1
  <2> QED BY <1>t, <2>1, <2>2, <2>3 DEF ThreadInv, TypeOK
<1>3. QueryInv'
  <2> SUFFICES ASSUME NEW d \in Clients, mapClientSessions'[d] # NoSession,
                      SessionsOf(d) = {mapClientSessions'[d]}
               PROVE  sessions[mapClientSessions'[d]].udpSessionAddress = heard'[d]
    BY <1>t, <1>1 DEF QueryInv
  <2>1. CASE d = c
    <3>1. mapClientSessions'[d] = s /\ heard'[d] = init[t].src
      BY <1>t, <1>s, <2>1 DEF TypeOK
    <3> QED BY <1>t, <2>1, <3>1 DEF ThreadInv
  <2>2. CASE d # c
    <3>1. mapClientSessions'[d] = mapClientSessions[d] /\ heard'[d] = heard[d]
      BY <1>t, <2>2 DEF TypeOK
    <3> QED BY <1>t, <3>1 DEF QueryInv
  <2> QED BY <2>1, <2>2
<1> QED BY <1>2, <1>3

LEMMA AddressInductive == Spec => []AddressIInv
<1>1. Init => ThreadInv /\ QueryInv
  BY DEF Init, ThreadInv, QueryInv
<1>2. AddressIInv /\ [Next]_vars => (ThreadInv /\ QueryInv)'
  <2> SUFFICES ASSUME AddressIInv, [Next]_vars PROVE ThreadInv' /\ QueryInv'
    OBVIOUS
  <2>t. AnswerIInv /\ IInv /\ TypeOK /\ ThreadInv /\ QueryInv
    BY DEF AddressIInv, AnswerIInv, IInv
  <2>1. ASSUME UNCHANGED <<sessions, mapClientSessions, init, heard>>
        PROVE  ThreadInv' /\ QueryInv'
    BY <2>t, <2>1 DEF ThreadInv, QueryInv, SessionsOf
  <2>2. ASSUME NEW c \in Clients, ClientStep(c) PROVE ThreadInv' /\ QueryInv'
    BY <2>1, <2>2, ClientStepFrame DEF serviceVars
  <2>3. ASSUME NEW t \in InitThreads, ThreadStep(t) PROVE ThreadInv' /\ QueryInv'
    BY <2>3, CreateSessionAddress, PublishSessionAddress DEF ThreadStep
  <2>4. ASSUME NEW p \in net, FindSession(p) PROVE ThreadInv' /\ QueryInv'
    <3> DEFINE s == mapClientSessions[p.client]
    <3>1. p.client \in Clients
      BY <2>4, <2>t, PacketFields DEF FindSession, TypeOK
    <3>2. s \in DOMAIN sessions /\ sessions[s].clientId = p.client /\ s # NoSession
      BY <2>4, <2>t, <3>1, MapType DEF FindSession, IInv, SessionInv
    <3> QED BY <2>4, <2>t, <3>2, MoveAddress DEF FindSession
  <2>5. ASSUME NEW p \in net,
               ServeKeepAlive(p) \/ ServeQueryHost(p) \/ ServeMessage(p) \/ ServeBroadcast(p)
        PROVE  ThreadInv' /\ QueryInv'
    <3>1. Accepts(p, {"keepAlive", "queryHost", "sendMessage", "broadcast"}) /\ Serve(p)
      BY <2>5 DEF ServeKeepAlive, ServeQueryHost, ServeMessage, ServeBroadcast, Accepts
    <3>2. /\ p.session \in DOMAIN sessions
          /\ mapClientSessions[sessions[p.session].clientId] # NoSession
      BY <2>t, <3>1, AcceptedRegistered
    <3> QED BY <2>t, <3>1, <3>2, MoveAddress DEF Serve, Moved
  <2>6. CASE Restart
    <3>1. /\ \A c \in Clients : mapClientSessions'[c] = NoSession
          /\ \A t \in InitThreads : init'[t] = Idle
      BY <2>6 DEF Restart
    <3> QED BY <3>1 DEF ThreadInv, QueryInv
  <2>7. ASSUME NEW p \in net, RejectRequest(p) PROVE ThreadInv' /\ QueryInv'
    BY <2>1, <2>7 DEF RejectRequest, serviceVars
  <2>8. ASSUME NEW b \in broadcasts, RelayBroadcast(b) PROVE ThreadInv' /\ QueryInv'
    BY <2>1, <2>8 DEF RelayBroadcast
  <2>9. CASE ServiceStep
    BY <2>4, <2>5, <2>6, <2>7, <2>8, <2>9 DEF ServiceStep
  <2>10. ASSUME UNCHANGED serviceVars PROVE ThreadInv' /\ QueryInv'
    BY <2>1, <2>10 DEF serviceVars
  <2> QED BY <2>2, <2>3, <2>9, <2>10 DEF Next, Lose, vars
<1> QED BY <1>1, <1>2, AnswerInductive, PTL DEF Spec, AddressIInv

(* Of a client with one session, the service answers queries and relays     *)
(* messages to the address it last heard the client at: two threads, a     *)
(* request and a change of address cannot leave an older one behind.       *)
THEOREM QueriesAreCurrent == Spec => []QueryIsCurrent
<1>1. AddressIInv => QueryIsCurrent
  <2> SUFFICES ASSUME AddressIInv, NEW c \in Clients, mapClientSessions[c] # NoSession,
                      Cardinality(SessionsOf(c)) = 1
               PROVE  sessions[mapClientSessions[c]].udpSessionAddress = heard[c]
    BY DEF QueryIsCurrent
  <2>1. IsFiniteSet(SessionsOf(c))
    <3>1. SessionsOf(c) \subseteq DOMAIN sessions
      BY DEF SessionsOf
    <3> QED BY <3>1, FS_Subset DEF AddressIInv, AnswerIInv, CurrentInv
  <2>2. PICK x : SessionsOf(c) = {x}
    BY <2>1, FS_Singleton
  <2>3. mapClientSessions[c] \in SessionsOf(c)
    BY MapType DEF AddressIInv, AnswerIInv, IInv, SessionInv, SessionsOf
  <2> QED BY <2>2, <2>3 DEF AddressIInv, QueryInv
<1> QED BY <1>1, AddressInductive, PTL

-----------------------------------------------------------------------------
(* The relay *)

(* Each step of the service and its clients is a step of the abstract      *)
(* relay or leaves the two histories alone.                                *)
LEMMA RelayStep ==
  ASSUME IInv, [Next]_vars
  PROVE  [Relay!Next]_<<sent, received>>
<1> USE DEF history
<1>1. ASSUME NEW c \in Clients, ClientStep(c) PROVE [Relay!Next]_<<sent, received>>
  <2>1. ASSUME NEW d \in Clients, NEW m \in MessageIds, SendMessage(c, d, m)
        PROVE  Relay!Send(c, d, m)
    BY <2>1 DEF SendMessage, Relay!Send
  <2>2. ASSUME NEW m \in MessageIds, Broadcast(c, m)
        PROVE  Relay!Broadcast(c, m)
    BY <2>2 DEF Broadcast, Others, Relay!Broadcast
  <2>3. ASSUME NEW p \in net, ReceiveData(c, p)
        PROVE  \/ UNCHANGED <<sent, received>>
               \/ \E x \in sent : Relay!Deliver(x)
    <3>1. CASE p.kind \in {"message", "broadcastMessage"}
      <4>1. <<p.sender, c, p.id>> \in sent
        BY <2>3, <3>1, AddressOwner DEF ReceiveData, ArrivesAt, IInv, NetInv, AnswerInv
      <4>2. Relay!Deliver(<<p.sender, c, p.id>>)
        BY <2>3, <3>1, <4>1 DEF ReceiveData, Relay!Deliver
      <4> QED BY <4>1, <4>2
    <3>2. CASE p.kind \notin {"message", "broadcastMessage"}
      BY <2>3, <3>2 DEF ReceiveData
    <3> QED BY <3>1, <3>2
  <2>4. CASE UNCHANGED <<sent, received>>
    BY <2>4
  <2> QED BY <1>1, <2>1, <2>2, <2>3, <2>4
          DEF Relay!Next, ClientStep, RunStep, Expire, Recreate, Move, QueryHost,
              ReceiveInitResponse, ReceiveError
<1>2. ASSUME NEW t \in InitThreads, ThreadStep(t) PROVE UNCHANGED <<sent, received>>
  BY <1>2 DEF ThreadStep, PublishSession, CreateSession
<1>3. CASE ServiceStep
  <2>1. UNCHANGED <<sent, received>>
    BY <1>3 DEF ServiceStep, FindSession, ServeKeepAlive, ServeQueryHost, ServeMessage,
                ServeBroadcast, Serve, RejectRequest, RelayBroadcast, Restart
  <2> QED BY <2>1
<1>4. ASSUME NEW p \in net, Lose(p) PROVE UNCHANGED <<sent, received>>
  BY <1>4 DEF Lose
<1>5. CASE UNCHANGED vars
  BY <1>5 DEF vars
<1> QED BY <1>1, <1>2, <1>3, <1>4, <1>5 DEF Next

(* The service implements the relay: a listener gets only what was sent to *)
(* its client, under the id of the client that sent it.                    *)
THEOREM ImplementsRelay == Spec => RelaySpec
<1>1. Init => Relay!Init
  BY DEF Init, Relay!Init
<1>2. IInv /\ [Next]_vars => [Relay!Next]_<<sent, received>>
  BY RelayStep
<1> QED BY <1>1, <1>2, Inductive, PTL DEF Spec, RelaySpec, Relay!Spec

=============================================================================
