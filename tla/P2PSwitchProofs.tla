-------------------------- MODULE P2PSwitchProofs ---------------------------
(***************************************************************************)
(* Theorems about P2PSwitch, for any hosts, addresses, networks, services, *)
(* messages and bounds: the types, and that the switches implement the     *)
(* abstract relay HnsRelay.                                                *)
(***************************************************************************)
EXTENDS P2PSwitch, TLAPS

(* Whatever the network loses or repeats, a step puts nothing into it but  *)
(* the packets it sends.                                                   *)
LEMMA SendNet ==
  ASSUME NEW packets, Send(packets)
  PROVE  net' \subseteq net \cup packets
  BY DEF Send

LEMMA ReplyNet ==
  ASSUME NEW p, NEW packets, Reply(p, packets)
  PROVE  net' \subseteq net \cup packets
<1>1. PICK rest \in {net \ {p}} \cup (IF Repeats THEN {net} ELSE {}) :
        net' = IF Cardinality(rest \cup packets) <= MaxPackets THEN rest \cup packets ELSE rest
  BY DEF Reply
<1>2. rest \subseteq net
  OBVIOUS
<1> QED BY <1>1, <1>2

(* The packets of each kind have the fields their senders give them. *)
LEMMA PacketKinds ==
  /\ \A a, b \in Addresses : [kind |-> "knock", src |-> a, dst |-> b] \in Packet
  /\ \A a, b \in Addresses, h \in Hosts, t \in Hosts \cup {AnyHost} :
       [kind |-> "ping", src |-> a, dst |-> b, source |-> h, target |-> t] \in Packet
  /\ \A a, b \in Addresses, h, t \in Hosts, n \in Nat :
       [kind |-> "pong", src |-> a, dst |-> b, source |-> h, target |-> t, session |-> n] \in Packet
  /\ \A a \in Addresses, h, t \in Hosts, n \in Nat, m \in MessageIds :
       [kind |-> "message", dst |-> a, session |-> n, source |-> h, target |-> t, id |-> m] \in Packet
  /\ \A v \in Services, h, t \in Hosts :
       /\ \A m \in MessageIds, k \in {"relay", "broadcast"} :
            [kind |-> k, service |-> v, source |-> h, target |-> t, id |-> m] \in Packet
       /\ [kind |-> "query", service |-> v, source |-> h, target |-> t] \in Packet
       /\ \A a \in Addresses :
            [kind |-> "answer", service |-> v, source |-> h, target |-> t, address |-> a] \in Packet
  BY DEF Packet, Knocks, Pings, Pongs, DirectMessages, Relayed

LEMMA PacketFields ==
  ASSUME NEW p \in Packet
  PROVE  /\ p.kind \in {"knock", "ping", "pong"} => p.src \in Addresses
         /\ p.kind \in {"pong", "message"} => p.session \in Nat
         /\ p.kind # "knock" => p.source \in Hosts
         /\ p.kind \notin {"knock", "ping"} => p.target \in Hosts
         /\ p.kind \in {"message", "relay", "broadcast"} => p.id \in MessageIds
         /\ p.kind \in {"relay", "broadcast", "query", "answer"} => p.service \in Services
         /\ p.kind = "answer" => p.address \in Addresses
  BY DEF Packet, Knocks, Pings, Pongs, DirectMessages, Relayed

-----------------------------------------------------------------------------
(* Types *)

LEMMA AtType ==
  ASSUME TypeOK, NEW h \in Hosts
  PROVE  at[h] \in Addresses
  BY DEF TypeOK

(* The session _registerDirectUdpSession returns, and what becomes of it.  *)
LEMMA SessionForType ==
  ASSUME TypeOK, NEW h \in Hosts, NEW t \in Hosts, NEW a \in Addresses,
         NEW s \in SessionFor(h, t, a)
  PROVE  /\ s \in Session /\ s.id > 0
         /\ s.id <= lastSessionId[h] \/ s.id = lastSessionId[h] + 1
<1>1. CASE {r \in SessionsWith(h, t) : r.address = a} # {}
  <2>1. s \in sessions[h]
    BY <1>1 DEF SessionFor, SessionsWith
  <2>2. s \in Session /\ s.id \in 1..lastSessionId[h]
    BY <2>1 DEF TypeOK
  <2> QED BY <2>2 DEF TypeOK, Session
<1>2. CASE {r \in SessionsWith(h, t) : r.address = a} = {}
  <2>1. s = [id |-> lastSessionId[h] + 1, host |-> t, address |-> a,
             remote |-> NoId, recent |-> FALSE, connected |-> FALSE]
    BY <1>2 DEF SessionFor
  <2>2. lastSessionId[h] \in Nat
    BY DEF TypeOK
  <2> QED BY <2>1, <2>2 DEF Session, NoId
<1> QED BY <1>1, <1>2

LEMMA RegisterType ==
  ASSUME TypeOK, BoundAssumption, NEW h \in Hosts, NEW s \in Session, s.id > 0,
         s.id <= lastSessionId[h] \/ s.id = lastSessionId[h] + 1,
         NEW u \in Session, u.id = s.id, Register(h, s, u)
  PROVE  /\ sessions' \in [Hosts -> SUBSET Session]
         /\ lastSessionId' \in [Hosts -> 0..MaxSession]
         /\ \A g \in Hosts : \A r \in sessions'[g] : r.id \in 1..lastSessionId'[g]
<1>1. sessions' = [sessions EXCEPT ![h] = (@ \ {s}) \cup {u}]
  BY DEF Register
<1>2. lastSessionId' = [lastSessionId EXCEPT ![h] = IF s.id > @ THEN s.id ELSE @]
  BY DEF Register
<1>3. lastSessionId[h] \in 0..MaxSession /\ s.id \in Nat /\ s.id <= MaxSession /\ MaxSession \in Nat
  BY DEF TypeOK, Register, Session, BoundAssumption
<1>4. lastSessionId'[h] \in 0..MaxSession /\ lastSessionId'[h] >= lastSessionId[h]
      /\ s.id <= lastSessionId'[h]
  BY <1>2, <1>3 DEF TypeOK
<1>5. sessions' \in [Hosts -> SUBSET Session]
  BY <1>1 DEF TypeOK
<1>6. lastSessionId' \in [Hosts -> 0..MaxSession]
  BY <1>2, <1>4 DEF TypeOK
<1>7. ASSUME NEW g \in Hosts, NEW r \in sessions'[g] PROVE r.id \in 1..lastSessionId'[g]
  <2>1. CASE g # h
    BY <1>1, <1>2, <1>7, <2>1 DEF TypeOK
  <2>2. CASE g = h /\ r = u
    BY <1>3, <1>4, <2>2
  <2>3. CASE g = h /\ r # u
    <3>1. r \in sessions[h]
      BY <1>1, <1>7, <2>3 DEF TypeOK
    <3>2. r.id \in 1..lastSessionId[h]
      BY <3>1 DEF TypeOK
    <3> QED BY <1>3, <1>4, <2>3, <3>2
  <2> QED BY <2>1, <2>2, <2>3
<1> QED BY <1>5, <1>6, <1>7

(* Marking a session, or some sessions, leaves their ids alone. *)
LEMMA MarkType ==
  ASSUME TypeOK, NEW h \in Hosts, NEW marked \in SUBSET Session,
         \A u \in marked : \E s \in sessions[h] : u.id = s.id,
         sessions' = [sessions EXCEPT ![h] = marked],
         UNCHANGED lastSessionId
  PROVE  /\ sessions' \in [Hosts -> SUBSET Session]
         /\ \A g \in Hosts : \A r \in sessions'[g] : r.id \in 1..lastSessionId'[g]
  BY DEF TypeOK

LEMMA MarkOneType ==
  ASSUME TypeOK, NEW h \in Hosts, NEW s \in sessions[h], NEW recent \in BOOLEAN,
         sessions' = [sessions EXCEPT ![h] = (@ \ {s}) \cup {[s EXCEPT !.recent = recent]}],
         UNCHANGED lastSessionId
  PROVE  /\ sessions' \in [Hosts -> SUBSET Session]
         /\ \A g \in Hosts : \A r \in sessions'[g] : r.id \in 1..lastSessionId'[g]
<1> DEFINE u == [s EXCEPT !.recent = recent]
<1>1. sessions[h] \in SUBSET Session /\ s \in Session
  BY DEF TypeOK
<1>2. u \in Session /\ u.id = s.id
  BY <1>1 DEF Session
<1>3. sessions' = [sessions EXCEPT ![h] = (sessions[h] \ {s}) \cup {u}]
  BY DEF TypeOK
<1> HIDE DEF u
<1> DEFINE marked == (sessions[h] \ {s}) \cup {u}
<1>4. marked \in SUBSET Session
  BY <1>1, <1>2
<1>5. \A v \in marked : \E r \in sessions[h] : v.id = r.id
  BY <1>2
<1>6. sessions' = [sessions EXCEPT ![h] = marked]
  BY <1>3
<1> HIDE DEF marked
<1> QED BY ONLY TypeOK, h \in Hosts, UNCHANGED lastSessionId, <1>4, <1>5, <1>6, MarkType

LEMMA SendOnType ==
  ASSUME TypeOK, NEW h \in Hosts, NEW s \in sessions[h], NEW m \in MessageIds, SendOn(h, s, m)
  PROVE  net' \subseteq Packet
<1>1. s \in Session
  BY DEF TypeOK
<1>2. [kind |-> "message", dst |-> s.address, session |-> s.remote,
       source |-> h, target |-> s.host, id |-> m] \in Packet
  BY <1>1, PacketKinds DEF Session
<1> QED BY <1>2, SendNet DEF SendOn, TypeOK

LEMMA RelayToType ==
  ASSUME TypeOK, NEW h \in Hosts, NEW targets \in SUBSET (Hosts \X Services),
         NEW m \in MessageIds, RelayTo(h, targets, m)
  PROVE  net' \subseteq Packet
<1> DEFINE packets == {[kind |-> "relay", service |-> x[2], source |-> h, target |-> x[1], id |-> m] :
                       x \in targets}
<1>1. ASSUME NEW x \in targets
      PROVE  [kind |-> "relay", service |-> x[2], source |-> h, target |-> x[1], id |-> m] \in Packet
  <2>1. x[1] \in Hosts /\ x[2] \in Services
    OBVIOUS
  <2>2. "relay" \in {"relay", "broadcast"}
    OBVIOUS
  <2> QED BY ONLY <2>1, <2>2, PacketKinds, h \in Hosts, m \in MessageIds
<1>2. net' \subseteq net \cup packets
  BY SendNet DEF RelayTo
<1> QED BY <1>1, <1>2 DEF TypeOK

LEMMA ApplicationType ==
  ASSUME TypeOK, BoundAssumption, NEW h \in Hosts, Application(h)
  PROVE  TypeOK'
<1> USE DEF switchVars, world
<1>1. ASSUME NEW t \in Hosts, AddHost(h, t) PROVE TypeOK'
  BY <1>1 DEF AddHost, Edit, TypeOK, BoundAssumption
<1>2. ASSUME NEW t \in Hosts, RemoveHost(h, t) PROVE TypeOK'
  <2>1. sessions' = [sessions EXCEPT ![h] = @ \ SessionsWith(h, t)]
    BY <1>2 DEF RemoveHost
  <2>2. sessions' \in [Hosts -> SUBSET Session]
    BY <2>1 DEF TypeOK
  <2>3. \A g \in Hosts : \A r \in sessions'[g] : r.id \in 1..lastSessionId'[g]
    BY <1>2, <2>1 DEF RemoveHost, TypeOK
  <2> QED BY <1>2, <2>2, <2>3 DEF RemoveHost, Edit, TypeOK, BoundAssumption
<1>3. ASSUME NEW t \in Hosts, NEW m \in MessageIds, SendMessage(h, t, m) PROVE TypeOK'
  <2>1. net' \subseteq Packet
    <3>1. ASSUME NEW s \in FirstConnected(h, t), SendOn(h, s, m) PROVE net' \subseteq Packet
      <4>1. s \in sessions[h]
        BY DEF FirstConnected, SessionsWith
      <4> QED BY <3>1, <4>1, SendOnType
    <3>2. CASE RelayTo(h, Turning(h, t), m)
      <4>1. Turning(h, t) \in SUBSET (Hosts \X Services)
        BY DEF Turning, TypeOK
      <4> QED BY <3>2, <4>1, RelayToType
    <3>3. CASE RelayTo(h, {t} \X Services, m)
      BY <3>3, RelayToType
    <3>4. CASE UNCHANGED net
      BY <3>4 DEF TypeOK
    <3> QED BY <1>3, <3>1, <3>2, <3>3, <3>4 DEF SendMessage
  <2> QED BY <1>3, <2>1 DEF SendMessage, Request, TypeOK, BoundAssumption
<1>4. ASSUME NEW m \in MessageIds, NEW s \in sessions[h], SendThrough(h, s, m) PROVE TypeOK'
  <2>1. net' \subseteq Packet
    BY <1>4, SendOnType DEF SendThrough
  <2>2. s.host \in Hosts
    BY DEF TypeOK, Session
  <2> QED BY <1>4, <2>1, <2>2 DEF SendThrough, Request, TypeOK, BoundAssumption
<1>5. ASSUME NEW m \in MessageIds, SendBroadcast(h, m) PROVE TypeOK'
  <2>1. PICK v \in Services, t \in Hosts \ {h} :
          Send({[kind |-> "broadcast", service |-> v, source |-> h, target |-> t, id |-> m]})
    BY <1>5 DEF SendBroadcast
  <2>a. [kind |-> "broadcast", service |-> v, source |-> h, target |-> t, id |-> m] \in Packet
    BY "broadcast" \in {"relay", "broadcast"}, PacketKinds
  <2>2. net' \subseteq Packet
    BY <2>1, <2>a, SendNet DEF TypeOK
  <2> QED BY <1>5, <2>2 DEF SendBroadcast, Request, TypeOK, BoundAssumption
<1> QED BY <1>1, <1>2, <1>3, <1>4, <1>5 DEF Application

LEMMA IntervalType ==
  ASSUME TypeOK, NEW h \in Hosts, Interval(h)
  PROVE  TypeOK'
<1> USE DEF switchVars, world, history
<1>1. ASSUME NEW t \in Hosts, NEW due, CheckHost(h, t, due) PROVE TypeOK'
  <2> DEFINE marked == {IF s.host = t THEN [s EXCEPT !.connected = s.recent] ELSE s : s \in sessions[h]}
             pings  == {Ping(h, a, t) : a \in due}
  <2>1. sessions' = [sessions EXCEPT ![h] = marked]
    BY <1>1 DEF CheckHost, TypeOK
  <2>2. marked \in SUBSET Session /\ \A u \in marked : \E s \in sessions[h] : u.id = s.id
    BY DEF TypeOK, Session
  <2>3. /\ sessions' \in [Hosts -> SUBSET Session]
        /\ \A g \in Hosts : \A r \in sessions'[g] : r.id \in 1..lastSessionId'[g]
    <3>1. UNCHANGED lastSessionId
      BY <1>1 DEF CheckHost
    <3> HIDE DEF marked
    <3> QED BY ONLY TypeOK, h \in Hosts, <2>1, <2>2, <3>1, MarkType
  <2>4. due \subseteq Addresses
    BY <1>1 DEF CheckHost, SessionsWith, TypeOK, Session
  <2>5. pings \subseteq Packet
    BY <2>4, AtType, PacketKinds DEF Ping
  <2>6. net' \subseteq net \cup pings
    BY <1>1, SendNet DEF CheckHost
  <2>7. turnConnected' \in [Hosts -> SUBSET (Hosts \X Services)]
    BY <1>1 DEF CheckHost, TypeOK
  <2> QED BY <1>1, <2>3, <2>5, <2>6, <2>7 DEF CheckHost, TypeOK
<1>2. ASSUME NEW t \in Hosts, NEW v \in Services, QueryHost(h, t, v) PROVE TypeOK'
  BY <1>2, AtType DEF QueryHost, TypeOK
<1>3. ASSUME NEW t \in Hosts, QueryAddresses(h, t) PROVE TypeOK'
  <2> DEFINE queries == {[kind |-> "query", service |-> x[2], source |-> h, target |-> x[1]] :
                         x \in Turning(h, t)}
  <2>1. Turning(h, t) \subseteq Hosts \X Services
    BY DEF Turning, TypeOK
  <2>2. ASSUME NEW x \in Turning(h, t)
        PROVE  [kind |-> "query", service |-> x[2], source |-> h, target |-> x[1]] \in Packet
    <3>1. x[1] \in Hosts /\ x[2] \in Services
      BY <2>1
    <3> QED BY <3>1, PacketKinds
  <2>3. net' \subseteq net \cup queries
    BY <1>3, SendNet DEF QueryAddresses
  <2> QED BY <1>3, <2>2, <2>3 DEF QueryAddresses, TypeOK
<1>4. ASSUME NEW t \in Hosts, NEW a \in Addresses, Knock(h, t, a) PROVE TypeOK'
  <2>1. net' \subseteq Packet
    BY <1>4, AtType, SendNet, PacketKinds DEF Knock, TypeOK
  <2> QED BY <1>4, <2>1 DEF Knock, TypeOK
<1>5. ASSUME NEW t \in Hosts, BroadcastPing(h, t) PROVE TypeOK'
  <2>1. Ping(h, at[t], AnyHost) \in Packet
    BY AtType, PacketKinds DEF Ping
  <2>2. net' \subseteq Packet
    BY <1>5, <2>1, SendNet DEF BroadcastPing, TypeOK
  <2> QED BY <1>5, <2>2 DEF BroadcastPing, TypeOK
<1> QED BY <1>1, <1>2, <1>3, <1>4, <1>5 DEF Interval

(* What onServiceMessageUdp changes. *)
LEMMA ServiceMessageType ==
  ASSUME TypeOK, NEW h \in Hosts, NEW p \in net, NEW kind, ServiceMessage(h, p, kind),
         kind \in {"relay", "query", "answer"}
  PROVE  /\ hosts' \in [Hosts -> SUBSET Hosts]
         /\ turnRecent' \in [Hosts -> SUBSET (Hosts \X Services)]
         /\ p \in Packet /\ p.kind = kind /\ p.target = h
         /\ p.source \in Hosts /\ p.service \in Services
<1>1. p \in Packet /\ p.kind = kind /\ p.target = h
  BY DEF ServiceMessage, TypeOK
<1>2. p.source \in Hosts /\ p.service \in Services
  BY <1>1, PacketFields
<1> QED BY <1>1, <1>2 DEF ServiceMessage, TypeOK

LEMMA ReceiveType ==
  ASSUME TypeOK, BoundAssumption, NEW h \in Hosts, Receive(h)
  PROVE  TypeOK'
<1> USE DEF switchVars, world, history
<1>1. ASSUME NEW p \in net, ReceiveKnock(h, p) PROVE TypeOK'
  <2>1. p.src \in Addresses
    BY <1>1, PacketFields DEF ReceiveKnock, ArrivesAt, TypeOK
  <2>2. Ping(h, p.src, AnyHost) \in Packet
    BY <2>1, AtType, PacketKinds DEF Ping
  <2>3. net' \subseteq Packet
    BY <1>1, <2>2, ReplyNet DEF ReceiveKnock, TypeOK
  <2> QED BY <1>1, <2>3 DEF ReceiveKnock, TypeOK
<1>2. ASSUME NEW p \in net, ReceivePing(h, p) PROVE TypeOK'
  <2>1. p.source \in Hosts /\ p.src \in Addresses
    BY <1>2, PacketFields DEF ReceivePing, ArrivesAt, TypeOK
  <2>2. PICK s \in SessionFor(h, p.source, p.src) :
          /\ Register(h, s, s)
          /\ Reply(p, {[kind |-> "pong", src |-> at[h], dst |-> p.src,
                        source |-> p.source, target |-> h, session |-> s.id]})
    BY <1>2 DEF ReceivePing
  <2>3. s \in Session /\ s.id > 0 /\ (s.id <= lastSessionId[h] \/ s.id = lastSessionId[h] + 1)
    BY <2>1, SessionForType
  <2>4. /\ sessions' \in [Hosts -> SUBSET Session]
        /\ lastSessionId' \in [Hosts -> 0..MaxSession]
        /\ \A g \in Hosts : \A r \in sessions'[g] : r.id \in 1..lastSessionId'[g]
    BY <2>2, <2>3, RegisterType
  <2>5. [kind |-> "pong", src |-> at[h], dst |-> p.src,
         source |-> p.source, target |-> h, session |-> s.id] \in Packet
    BY <2>1, <2>3, AtType, PacketKinds DEF Session
  <2>6. net' \subseteq Packet
    BY <2>2, <2>5, ReplyNet DEF TypeOK
  <2>7. hosts' \in [Hosts -> SUBSET Hosts]
    BY <1>2, <2>1 DEF ReceivePing, TypeOK
  <2> QED BY <1>2, <2>4, <2>6, <2>7 DEF ReceivePing, TypeOK
<1>3. ASSUME NEW p \in net, ReceivePong(h, p) PROVE TypeOK'
  <2>1. p.target \in Hosts /\ p.src \in Addresses /\ p.session \in Nat
    BY <1>3, PacketFields DEF ReceivePong, ArrivesAt, TypeOK
  <2>2. PICK s \in SessionFor(h, p.target, p.src) :
          Register(h, s, [s EXCEPT !.remote = p.session, !.recent = TRUE])
    BY <1>3 DEF ReceivePong
  <2>3. s \in Session /\ s.id > 0 /\ (s.id <= lastSessionId[h] \/ s.id = lastSessionId[h] + 1)
    BY <2>1, SessionForType
  <2>4. LET u == [s EXCEPT !.remote = p.session, !.recent = TRUE]
        IN  u \in Session /\ u.id = s.id
    BY <2>1, <2>3 DEF Session
  <2>5. /\ sessions' \in [Hosts -> SUBSET Session]
        /\ lastSessionId' \in [Hosts -> 0..MaxSession]
        /\ \A g \in Hosts : \A r \in sessions'[g] : r.id \in 1..lastSessionId'[g]
    BY <2>2, <2>3, <2>4, RegisterType
  <2>6. net' \subseteq Packet
    BY <1>3, ReplyNet DEF ReceivePong, TypeOK
  <2> QED BY <1>3, <2>5, <2>6 DEF ReceivePong, TypeOK
<1>4. ASSUME NEW p \in net, ReceiveDirect(h, p) PROVE TypeOK'
  <2>1. p.source \in Hosts /\ p.id \in MessageIds
    BY <1>4, PacketFields DEF ReceiveDirect, ArrivesAt, TypeOK
  <2>2. PICK s \in sessions[h] :
          Heard(h, s) /\ s.host = p.source /\ received' = received \cup {<<s.host, h, p.id>>}
    BY <1>4 DEF ReceiveDirect
  <2>5. /\ sessions' \in [Hosts -> SUBSET Session]
        /\ \A g \in Hosts : \A r \in sessions'[g] : r.id \in 1..lastSessionId'[g]
    BY <1>4, <2>2, MarkOneType DEF ReceiveDirect, Heard
  <2>6. net' \subseteq Packet
    BY <1>4, ReplyNet DEF ReceiveDirect, TypeOK
  <2> QED BY <1>4, <2>1, <2>2, <2>5, <2>6 DEF ReceiveDirect, TypeOK
<1>5. ASSUME NEW p \in net, ReceiveRelay(h, p) PROVE TypeOK'
  <2>1. /\ hosts' \in [Hosts -> SUBSET Hosts]
        /\ turnRecent' \in [Hosts -> SUBSET (Hosts \X Services)]
        /\ p \in Packet /\ p.kind = "relay" /\ p.source \in Hosts
    BY <1>5, ServiceMessageType DEF ReceiveRelay
  <2>2. p.id \in MessageIds
    BY <2>1, PacketFields
  <2>3. net' \subseteq Packet
    BY <1>5, ReplyNet DEF ReceiveRelay, TypeOK
  <2> QED BY <1>5, <2>1, <2>2, <2>3 DEF ReceiveRelay, ServiceMessage, TypeOK
<1>6. ASSUME NEW p \in net, ReceiveQuery(h, p) PROVE TypeOK'
  <2>1. /\ hosts' \in [Hosts -> SUBSET Hosts]
        /\ turnRecent' \in [Hosts -> SUBSET (Hosts \X Services)]
        /\ p.source \in Hosts /\ p.service \in Services
    BY <1>6, ServiceMessageType DEF ReceiveQuery
  <2>2. AnswerTo(h, p) \in Packet
    BY <2>1, AtType, PacketKinds DEF AnswerTo
  <2>3. net' \subseteq Packet
    BY <1>6, <2>2, ReplyNet DEF ReceiveQuery, TypeOK
  <2> QED BY <1>6, <2>1, <2>3 DEF ReceiveQuery, ServiceMessage, TypeOK
<1>7. ASSUME NEW p \in net, ReceiveAnswer(h, p) PROVE TypeOK'
  <2>1. /\ hosts' \in [Hosts -> SUBSET Hosts]
        /\ turnRecent' \in [Hosts -> SUBSET (Hosts \X Services)]
        /\ p \in Packet /\ p.kind = "answer" /\ p.source \in Hosts
    BY <1>7, ServiceMessageType DEF ReceiveAnswer
  <2>2. p.address \in Addresses
    BY <2>1, PacketFields
  <2>3. net' \subseteq Packet
    BY <1>7, ReplyNet DEF ReceiveAnswer, TypeOK
  <2> QED BY <1>7, <2>1, <2>2, <2>3 DEF ReceiveAnswer, ServiceMessage, TypeOK
<1>8. ASSUME NEW p \in net, ReceiveBroadcast(h, p) PROVE TypeOK'
  <2>1. p.source \in Hosts /\ p.id \in MessageIds
    BY <1>8, PacketFields DEF ReceiveBroadcast, TypeOK
  <2>2. net' \subseteq Packet
    BY <1>8, ReplyNet DEF ReceiveBroadcast, TypeOK
  <2> QED BY <1>8, <2>1, <2>2 DEF ReceiveBroadcast, TypeOK
<1> QED BY <1>1, <1>2, <1>3, <1>4, <1>5, <1>6, <1>7, <1>8 DEF Receive

LEMMA EnvironmentType ==
  ASSUME TypeOK, BoundAssumption, NEW h \in Hosts, Environment(h)
  PROVE  TypeOK'
<1> USE DEF switchVars, world, history
<1>1. ASSUME NEW s \in sessions[h], Expire(h, s) PROVE TypeOK'
  <2>3. /\ sessions' \in [Hosts -> SUBSET Session]
        /\ \A g \in Hosts : \A r \in sessions'[g] : r.id \in 1..lastSessionId'[g]
    BY <1>1, MarkOneType DEF Expire
  <2> QED BY <1>1, <2>3 DEF Expire, TypeOK
<1>2. ASSUME NEW x \in turnRecent[h], ExpireTurning(h, x) PROVE TypeOK'
  BY <1>2 DEF ExpireTurning, TypeOK
<1>3. ASSUME NEW a \in Addresses, Move(h, a) PROVE TypeOK'
  BY <1>3 DEF Move, TypeOK, BoundAssumption
<1>4. CASE Restart(h)
  <2>1. /\ hosts' \in [Hosts -> SUBSET Hosts]
        /\ sessions' \in [Hosts -> SUBSET Session]
        /\ turnRecent' \in [Hosts -> SUBSET (Hosts \X Services)]
        /\ turnConnected' \in [Hosts -> SUBSET (Hosts \X Services)]
        /\ punching' \in [Hosts -> SUBSET (Hosts \X Addresses)]
    BY <1>4 DEF Restart, TypeOK
  <2>2. PICK id \in {0, lastSessionId[h]} : lastSessionId' = [lastSessionId EXCEPT ![h] = id]
    BY <1>4 DEF Restart
  <2>3. lastSessionId' \in [Hosts -> 0..MaxSession]
    BY <2>2 DEF TypeOK, BoundAssumption
  <2>4. \A g \in Hosts : \A r \in sessions'[g] : r.id \in 1..lastSessionId'[g]
    BY <1>4, <2>2 DEF Restart, TypeOK
  <2> QED BY <1>4, <2>1, <2>3, <2>4 DEF Restart, TypeOK, BoundAssumption
<1> QED BY <1>1, <1>2, <1>3, <1>4 DEF Environment

LEMMA InitType == Init => TypeOK
  BY BoundAssumption DEF Init, TypeOK, BoundAssumption

LEMMA StepType == TypeOK /\ [Next]_vars => TypeOK'
<1> SUFFICES ASSUME TypeOK, [Next]_vars PROVE TypeOK'
  OBVIOUS
<1>1. ASSUME NEW h \in Hosts, Application(h) \/ Interval(h) \/ Receive(h) \/ Environment(h)
      PROVE  TypeOK'
  BY <1>1, BoundAssumption, ApplicationType, IntervalType, ReceiveType, EnvironmentType
<1>2. ASSUME NEW p \in net, Lose(p) PROVE TypeOK'
  BY <1>2 DEF Lose, TypeOK, switchVars, world, history
<1>3. CASE UNCHANGED vars
  BY <1>3 DEF vars, TypeOK, switchVars, world, history
<1> QED BY <1>1, <1>2, <1>3 DEF Next

(* The types, for any number of hosts, addresses, services and messages. *)
THEOREM TypeCorrect == Spec => []TypeOK
  BY InitType, StepType, PTL DEF Spec

-----------------------------------------------------------------------------
(* The relay *)

(* A message on its way was handed over by its source for its target. *)
NetInv ==
  \A p \in net :
    p.kind \in {"message", "relay", "broadcast"} => <<p.source, p.target, p.id>> \in sent

IInv == TypeOK /\ NetInv

(* NetInv holds of what was there, and of packets that carry no message or *)
(* one that was sent.                                                      *)
LEMMA NetKept ==
  ASSUME NetInv, NEW packets, net' \subseteq net \cup packets, sent \subseteq sent',
         \A p \in packets : p.kind \in {"message", "relay", "broadcast"} =>
           <<p.source, p.target, p.id>> \in sent'
  PROVE  NetInv'
  BY DEF NetInv

LEMMA ApplicationInv ==
  ASSUME IInv, NEW h \in Hosts, Application(h)
  PROVE  NetInv' /\ [Relay!Next]_<<sent, received>>
<1> USE DEF switchVars, world
<1>1. ASSUME NEW t \in Hosts, AddHost(h, t) \/ RemoveHost(h, t)
      PROVE  NetInv' /\ [Relay!Next]_<<sent, received>>
  BY <1>1 DEF AddHost, RemoveHost, IInv, NetInv
<1>2. ASSUME NEW t \in Hosts, NEW m \in MessageIds, SendMessage(h, t, m)
      PROVE  NetInv' /\ [Relay!Next]_<<sent, received>>
  <2>1. sent' = sent \cup {<<h, t, m>>} /\ received' = received
    BY <1>2 DEF SendMessage
  <2>2. ASSUME NEW s \in FirstConnected(h, t), SendOn(h, s, m) PROVE NetInv'
    <3>1. s.host = t
      BY DEF FirstConnected, SessionsWith
    <3> DEFINE packet == [kind |-> "message", dst |-> s.address, session |-> s.remote,
                          source |-> h, target |-> s.host, id |-> m]
    <3>2. net' \subseteq net \cup {packet}
      BY <2>2, SendNet DEF SendOn
    <3>3. <<packet.source, packet.target, packet.id>> \in sent'
      BY <2>1, <3>1
    <3> QED BY <2>1, <3>2, <3>3, NetKept DEF IInv
  <2>3. ASSUME NEW targets, \A x \in targets : x[1] = t, RelayTo(h, targets, m) PROVE NetInv'
    <3> DEFINE packets == {[kind |-> "relay", service |-> x[2], source |-> h, target |-> x[1],
                            id |-> m] : x \in targets}
    <3>1. net' \subseteq net \cup packets
      BY <2>3, SendNet DEF RelayTo
    <3>2. \A p \in packets : <<p.source, p.target, p.id>> \in sent'
      BY <2>1, <2>3
    <3> QED BY <2>1, <3>1, <3>2, NetKept DEF IInv
  <2>4. ASSUME RelayTo(h, Turning(h, t), m) PROVE NetInv'
    BY <2>3, <2>4 DEF Turning
  <2>5. ASSUME RelayTo(h, {t} \X Services, m) PROVE NetInv'
    BY <2>3, <2>5
  <2>6. ASSUME UNCHANGED net PROVE NetInv'
    BY <2>1, <2>6 DEF IInv, NetInv
  <2>7. NetInv'
    BY <1>2, <2>2, <2>4, <2>5, <2>6 DEF SendMessage
  <2>8. Relay!Send(h, t, m)
    BY <2>1 DEF Relay!Send
  <2> QED BY <2>7, <2>8 DEF Relay!Next
<1>3. ASSUME NEW m \in MessageIds, NEW s \in sessions[h], SendThrough(h, s, m)
      PROVE  NetInv' /\ [Relay!Next]_<<sent, received>>
  <2>1. sent' = sent \cup {<<h, s.host, m>>} /\ received' = received /\ s.host \in Hosts
    BY <1>3 DEF SendThrough, IInv, TypeOK, Session
  <2> DEFINE packet == [kind |-> "message", dst |-> s.address, session |-> s.remote,
                        source |-> h, target |-> s.host, id |-> m]
  <2>2. net' \subseteq net \cup {packet}
    BY <1>3, SendNet DEF SendThrough, SendOn
  <2>3. <<packet.source, packet.target, packet.id>> \in sent'
    BY <2>1
  <2>4. Relay!Send(h, s.host, m)
    BY <2>1 DEF Relay!Send
  <2> QED BY <2>1, <2>2, <2>3, <2>4, NetKept DEF IInv, Relay!Next
<1>4. ASSUME NEW m \in MessageIds, SendBroadcast(h, m)
      PROVE  NetInv' /\ [Relay!Next]_<<sent, received>>
  <2>1. sent' = sent \cup {<<h, t, m>> : t \in Hosts \ {h}} /\ received' = received
    BY <1>4 DEF SendBroadcast
  <2>2. PICK v \in Services, t \in Hosts \ {h} :
          Send({[kind |-> "broadcast", service |-> v, source |-> h, target |-> t, id |-> m]})
    BY <1>4 DEF SendBroadcast
  <2>3. NetInv'
    BY <2>1, <2>2, SendNet, NetKept DEF IInv
  <2>4. Relay!Broadcast(h, m)
    BY <2>1 DEF Relay!Broadcast
  <2> QED BY <2>3, <2>4 DEF Relay!Next
<1> QED BY <1>1, <1>2, <1>3, <1>4 DEF Application

LEMMA IntervalInv ==
  ASSUME IInv, NEW h \in Hosts, Interval(h)
  PROVE  NetInv' /\ UNCHANGED <<sent, received>>
<1> USE DEF switchVars, world, history
<1>1. ASSUME NEW t \in Hosts, NEW due, CheckHost(h, t, due) PROVE NetInv'
  <2>1. net' \subseteq net \cup {Ping(h, a, t) : a \in due}
    BY <1>1, SendNet DEF CheckHost
  <2> QED BY <1>1, <2>1, NetKept DEF CheckHost, Ping, IInv
<1>2. ASSUME NEW t \in Hosts, QueryAddresses(h, t) PROVE NetInv'
  <2>1. net' \subseteq net \cup {[kind |-> "query", service |-> x[2], source |-> h, target |-> x[1]] :
                                 x \in Turning(h, t)}
    BY <1>2, SendNet DEF QueryAddresses
  <2> QED BY <1>2, <2>1, NetKept DEF QueryAddresses, IInv
<1>3. ASSUME NEW t \in Hosts, NEW a \in Addresses, Knock(h, t, a) PROVE NetInv'
  BY <1>3, SendNet, NetKept DEF Knock, IInv
<1>4. ASSUME NEW t \in Hosts, BroadcastPing(h, t) PROVE NetInv'
  BY <1>4, SendNet, NetKept DEF BroadcastPing, Ping, IInv
<1>5. ASSUME NEW t \in Hosts, NEW v \in Services, QueryHost(h, t, v) PROVE NetInv'
  BY <1>5 DEF QueryHost, IInv, NetInv
<1>6. UNCHANGED <<sent, received>>
  BY DEF Interval, CheckHost, QueryHost, QueryAddresses, Knock, BroadcastPing
<1> QED BY <1>1, <1>2, <1>3, <1>4, <1>5, <1>6 DEF Interval

LEMMA ReceiveInv ==
  ASSUME IInv, NEW h \in Hosts, Receive(h)
  PROVE  NetInv' /\ [Relay!Next]_<<sent, received>>
<1> USE DEF switchVars, world, history
<1>1. ASSUME NEW p \in net, ReceiveKnock(h, p) PROVE NetInv' /\ UNCHANGED <<sent, received>>
  BY <1>1, ReplyNet, NetKept DEF ReceiveKnock, Ping, IInv
<1>2. ASSUME NEW p \in net, ReceivePing(h, p) PROVE NetInv' /\ UNCHANGED <<sent, received>>
  <2>1. PICK s \in SessionFor(h, p.source, p.src) :
          Reply(p, {[kind |-> "pong", src |-> at[h], dst |-> p.src,
                     source |-> p.source, target |-> h, session |-> s.id]})
    BY <1>2 DEF ReceivePing
  <2> QED BY <1>2, <2>1, ReplyNet, NetKept DEF ReceivePing, IInv
<1>3. ASSUME NEW p \in net, ReceivePong(h, p) PROVE NetInv' /\ UNCHANGED <<sent, received>>
  BY <1>3, ReplyNet, NetKept DEF ReceivePong, IInv
<1>4. ASSUME NEW p \in net, ReceiveQuery(h, p) PROVE NetInv' /\ UNCHANGED <<sent, received>>
  BY <1>4, ReplyNet, NetKept DEF ReceiveQuery, ServiceMessage, AnswerTo, IInv
<1>5. ASSUME NEW p \in net, ReceiveAnswer(h, p) PROVE NetInv' /\ UNCHANGED <<sent, received>>
  BY <1>5, ReplyNet, NetKept DEF ReceiveAnswer, ServiceMessage, IInv
<1>6. ASSUME NEW p \in net, ReceiveDirect(h, p) \/ ReceiveRelay(h, p) \/ ReceiveBroadcast(h, p)
      PROVE  NetInv' /\ \E x \in sent : Relay!Deliver(x)
  <2>1. p.kind \in {"message", "relay", "broadcast"} /\ p.target = h
    BY <1>6 DEF ReceiveDirect, ReceiveRelay, ReceiveBroadcast, ServiceMessage, ArrivesAt
  <2>2. <<p.source, h, p.id>> \in sent
    BY <2>1 DEF IInv, NetInv
  <2>3. sent' = sent /\ received' = received \cup {<<p.source, h, p.id>>} /\ Reply(p, {})
    BY <1>6 DEF ReceiveDirect, ReceiveRelay, ReceiveBroadcast, ServiceMessage
  <2>4. NetInv'
    BY <2>3, ReplyNet, NetKept DEF IInv
  <2>5. Relay!Deliver(<<p.source, h, p.id>>)
    BY <2>2, <2>3 DEF Relay!Deliver
  <2> QED BY <2>2, <2>4, <2>5
<1> QED BY <1>1, <1>2, <1>3, <1>4, <1>5, <1>6 DEF Receive, Relay!Next

LEMMA StepInv == IInv /\ [Next]_vars => IInv' /\ [Relay!Next]_<<sent, received>>
<1> SUFFICES ASSUME IInv, [Next]_vars
             PROVE  IInv' /\ [Relay!Next]_<<sent, received>>
  OBVIOUS
<1>1. TypeOK'
  BY StepType DEF IInv
<1>2. ASSUME NEW h \in Hosts, Environment(h) PROVE NetInv' /\ UNCHANGED <<sent, received>>
  BY <1>2 DEF Environment, Expire, ExpireTurning, Move, Restart, IInv, NetInv,
              switchVars, world, history
<1>3. ASSUME NEW p \in net, Lose(p) PROVE NetInv' /\ UNCHANGED <<sent, received>>
  BY <1>3 DEF Lose, IInv, NetInv, history
<1>4. ASSUME UNCHANGED vars PROVE NetInv' /\ UNCHANGED <<sent, received>>
  BY <1>4 DEF vars, history, IInv, NetInv
<1> QED BY <1>1, <1>2, <1>3, <1>4, ApplicationInv, IntervalInv, ReceiveInv DEF Next, IInv

(* The switches implement the relay, whatever hosts start again, whichever *)
(* ids they issue again and whoever gets an address that another host had: *)
(* a listener gets only what was sent to its host, from the host it names. *)
THEOREM ImplementsRelay == Spec => RelaySpec
<1>1. Init => IInv /\ Relay!Init
  BY InitType DEF Init, IInv, NetInv, Relay!Init
<1> QED BY <1>1, StepInv, PTL DEF Spec, RelaySpec, Relay!Spec

=============================================================================
