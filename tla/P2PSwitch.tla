----------------------------- MODULE P2PSwitch ------------------------------
(***************************************************************************)
(* The P2P switches of SLibx, one on each host: the sessions they open     *)
(* with each other by ping, directly over UDP, and the messages they send  *)
(* through a session or through a host name service.                       *)
(*                                                                         *)
(* A direct message is addressed by a number that the peer gave in its     *)
(* last ping response, while hosts start again and addresses change hands. *)
(* The host name services are used as Hns and HnsRelay describe them: a    *)
(* query answers with the address the host is heard from, a message may be *)
(* lost, repeated or reordered.  What one thread does with one packet, or  *)
(* with one host, is one step.                                             *)
(***************************************************************************)
EXTENDS Udp

CONSTANTS
  Hosts,         \* host ids, one switch each
  Addresses,     \* UDP addresses; a host has one, and may leave it to another
  Home,          \* the address each host has at first
  Lans,          \* the local networks: sets of hosts that hear each other's broadcast pings
  Services,      \* host name services, each with a session for every host
  MessageIds,    \* ids of messages, not 0
  AddressSize,   \* bytes of a local address in a Query Addresses Response
  LocalCount,    \* how many local addresses a host has
  Here,          \* the host whose interval thread is assumed to run
  MaxSession,    \* bound: no session id above this one is issued
  MaxMove,       \* bound: how often a host gets another address
  MaxStart,      \* bound: how often a switch is started again
  MaxEdit,       \* bound: how often an application adds or removes a host
  MaxRequest     \* bound: messages of the applications

ASSUME BoundAssumption ==
  /\ MaxSession \in Nat /\ MaxMove \in Nat /\ MaxStart \in Nat
  /\ MaxPackets \in Nat /\ MaxEdit \in Nat /\ MaxRequest \in Nat /\ Repeats \in BOOLEAN
  /\ AddressSize \in Nat /\ LocalCount \in Nat
  /\ \A lan \in Lans : lan \subseteq Hosts
  /\ Here \in Hosts
  /\ Home \in [Hosts -> Addresses]
  /\ \A h, t \in Hosts : Home[h] = Home[t] => h = t

VARIABLES
  hosts,          \* m_hosts of each switch
  sessions,       \* m_sessionsDirectUdp, in the map and in its hosts, of each switch
  turnRecent,     \* <<host, service>> with a turning session heard in time
  turnConnected,  \* <<host, service>> whose turning session has m_flagConnected
  punching,       \* <<host, address>>: m_addressesUdpHolePunching of the hosts
  lastSessionId,  \* the static counter of _generateNewSessionId, of each process
  at,             \* the address of each host
  moves, starts, edits, requested,  \* bound counters
  sent,           \* history: <<sender, target, message id>> handed to a switch
  received        \* history: <<sender, target, message id>> passed to a listener

switchVars == <<hosts, sessions, turnRecent, turnConnected, punching, lastSessionId>>
world      == <<at, moves, starts>>
history    == <<edits, requested, sent, received>>
vars       == <<switchVars, world, net, history>>

-----------------------------------------------------------------------------
(* Sessions and packets *)

AnyHost == ""      \* the empty target of a ping
NoId    == 0       \* m_remoteSessionId before the first ping response

(* recent: heard less than the connection timeout ago.  The list of the    *)
(* sessions of a host is in the order of their ids.                        *)
Session == [id : Nat, host : Hosts, address : Addresses, remote : Nat,
            recent : BOOLEAN, connected : BOOLEAN]

SessionsWith(h, t) == {s \in sessions[h] : s.host = t}

Knocks == [kind : {"knock"}, src : Addresses, dst : Addresses]
Pings  == [kind : {"ping"}, src : Addresses, dst : Addresses,
           source : Hosts, target : Hosts \cup {AnyHost}]
Pongs  == [kind : {"pong"}, src : Addresses, dst : Addresses,
           source : Hosts, target : Hosts, session : Nat]
DirectMessages == [kind : {"message"}, dst : Addresses, session : Nat,
                   source : Hosts, target : Hosts, id : MessageIds]
Relayed ==
       [kind : {"relay", "broadcast"}, service : Services, source : Hosts,
        target : Hosts, id : MessageIds]
  \cup [kind : {"query"}, service : Services, source : Hosts, target : Hosts]
  \cup [kind : {"answer"}, service : Services, source : Hosts, target : Hosts,
        address : Addresses]
Packet == Knocks \cup Pings \cup Pongs \cup DirectMessages \cup Relayed

Ping(h, a, target) ==
  [kind |-> "ping", src |-> at[h], dst |-> a, source |-> h, target |-> target]

-----------------------------------------------------------------------------
(* The application *)

Edit    == edits < MaxEdit /\ edits' = edits + 1
Request == requested < MaxRequest /\ requested' = requested + 1

(* addHost *)
AddHost(h, t) ==
  /\ Edit
  /\ h # t
  /\ hosts' = [hosts EXCEPT ![h] = @ \cup {t}]
  /\ UNCHANGED <<sessions, turnRecent, turnConnected, punching, lastSessionId,
                 world, net, requested, sent, received>>

(* removeHost: the sessions go with the host. *)
RemoveHost(h, t) ==
  /\ Edit
  /\ t \in hosts[h]
  /\ hosts'    = [hosts EXCEPT ![h] = @ \ {t}]
  /\ sessions' = [sessions EXCEPT ![h] = @ \ SessionsWith(h, t)]
  /\ turnRecent'    = [turnRecent EXCEPT ![h] = @ \ ({t} \X Services)]
  /\ turnConnected' = [turnConnected EXCEPT ![h] = @ \ ({t} \X Services)]
  /\ punching' = [punching EXCEPT ![h] = @ \ ({t} \X Addresses)]
  /\ UNCHANGED <<lastSessionId, world, net, requested, sent, received>>

(* _send_direct_message_udp: nothing is sent while the id is not known. *)
SendOn(h, s, m) ==
  Send(IF s.remote = NoId THEN {}
       ELSE {[kind |-> "message", dst |-> s.address, session |-> s.remote,
              source |-> h, target |-> s.host, id |-> m]})

RelayTo(h, targets, m) ==
  Send({[kind |-> "relay", service |-> x[2], source |-> h, target |-> x[1], id |-> m] :
        x \in targets})

(* The session _sendMessage takes: the first one of the host that is       *)
(* marked as connected.                                                    *)
FirstConnected(h, t) ==
  {s \in SessionsWith(h, t) :
     s.connected /\ \A r \in SessionsWith(h, t) : r.connected => s.id <= r.id}

(* Mutant: the list of the switch in place of that of the host. *)
AllTurning(h, t) == turnConnected[h]

Turning(h, t) == {x \in turnConnected[h] : x[1] = t}

(* sendMessage: the modes that allow it take a direct session; turnOnly,   *)
(* and directAndTurn where there is none, all connected turning sessions;  *)
(* alwaysSend, where there is none, all services; directOnly nothing.      *)
SendMessage(h, t, m) ==
  /\ Request
  /\ t \in hosts[h]
  /\ \/ \E s \in FirstConnected(h, t) : SendOn(h, s, m)
     \/ RelayTo(h, Turning(h, t), m)
     \/ FirstConnected(h, t) = {} /\ RelayTo(h, {t} \X Services, m)
     \/ FirstConnected(h, t) = {} /\ UNCHANGED net
  /\ sent' = sent \cup {<<h, t, m>>}
  /\ UNCHANGED <<switchVars, world, edits, received>>

(* sendMessage on a session that the application was given.  A turning one *)
(* is a relay, as in SendMessage.                                          *)
SendThrough(h, s, m) ==
  /\ Request
  /\ s \in sessions[h]
  /\ SendOn(h, s, m)
  /\ sent' = sent \cup {<<h, s.host, m>>}
  /\ UNCHANGED <<switchVars, world, edits, received>>

(* sendBroadcastMessage; the copies to the others are lost one by one. *)
SendBroadcast(h, m) ==
  /\ Request
  /\ \E v \in Services, t \in Hosts \ {h} :
       Send({[kind |-> "broadcast", service |-> v, source |-> h, target |-> t, id |-> m]})
  /\ sent' = sent \cup {<<h, t, m>> : t \in Hosts \ {h}}
  /\ UNCHANGED <<switchVars, world, edits, received>>

-----------------------------------------------------------------------------
(* The interval thread, for a host t of switch h *)

(* The sessions heard in time are marked as connected and the others not;  *)
(* a ping goes to those of the others whose keep-alive interval is over.   *)
CheckHost(h, t, due) ==
  /\ t \in hosts[h]
  /\ due \subseteq {s.address : s \in {r \in SessionsWith(h, t) : ~r.recent}}
  /\ sessions' = [sessions EXCEPT ![h] =
       {IF s.host = t THEN [s EXCEPT !.connected = s.recent] ELSE s : s \in @}]
  /\ turnConnected' = [turnConnected EXCEPT ![h] =
       {x \in @ : x[1] # t} \cup {x \in turnRecent[h] : x[1] = t}]
  /\ Send({Ping(h, a, t) : a \in due})
  /\ UNCHANGED <<hosts, turnRecent, punching, lastSessionId, world, history>>

(* queryHost at a service, and its answer, onServiceQueryHostUdp, which    *)
(* says how long ago the service heard the host.                           *)
QueryHost(h, t, v) ==
  /\ t \in hosts[h]
  /\ punching' = [punching EXCEPT ![h] = @ \cup {<<t, at[t]>>}]
  /\ \E timely \in BOOLEAN :
       turnRecent' = IF timely THEN [turnRecent EXCEPT ![h] = @ \cup {<<t, v>>}]
                     ELSE turnRecent
  /\ UNCHANGED <<hosts, sessions, turnConnected, lastSessionId, world, net, history>>

(* _send_method_message_query_addresses_request: message 0, turning only. *)
QueryAddresses(h, t) ==
  /\ t \in hosts[h]
  /\ Turning(h, t) # {}
  /\ Send({[kind |-> "query", service |-> x[2], source |-> h, target |-> x[1]] :
           x \in Turning(h, t)})
  /\ UNCHANGED <<switchVars, world, history>>

(* Hole punching: a byte to each address the host was said to have.  The   *)
(* ports around it that are tried as well lead to nobody.                  *)
Knock(h, t, a) ==
  /\ <<t, a>> \in punching[h]
  /\ Send({[kind |-> "knock", src |-> at[h], dst |-> a]})
  /\ UNCHANGED <<switchVars, world, history>>

(* The ping to the broadcast addresses, as one of the others receives it. *)
BroadcastPing(h, t) ==
  /\ h # t /\ \E lan \in Lans : {h, t} \subseteq lan
  /\ Send({Ping(h, at[t], AnyHost)})
  /\ UNCHANGED <<switchVars, world, history>>

-----------------------------------------------------------------------------
(* The receiving thread *)

ArrivesAt(p, h, kind) == p \in net /\ p.kind = kind /\ p.dst = at[h]

ReceiveKnock(h, p) ==
  /\ ArrivesAt(p, h, "knock")
  /\ Reply(p, {Ping(h, p.src, AnyHost)})
  /\ UNCHANGED <<switchVars, world, history>>

(* _registerDirectUdpSession: the session with t at address a, or a new    *)
(* one.                                                                    *)
SessionFor(h, t, a) ==
  LET found == {s \in SessionsWith(h, t) : s.address = a}
  IN  IF found # {} THEN found
      ELSE {[id |-> lastSessionId[h] + 1, host |-> t, address |-> a,
             remote |-> NoId, recent |-> FALSE, connected |-> FALSE]}

Register(h, s, updated) ==
  /\ s.id <= MaxSession
  /\ sessions' = [sessions EXCEPT ![h] = (@ \ {s}) \cup {updated}]
  /\ lastSessionId' = [lastSessionId EXCEPT ![h] = IF s.id > @ THEN s.id ELSE @]

(* _receive_ping_request_udp: the answer gives the id of the session here. *)
ReceivePing(h, p) ==
  /\ ArrivesAt(p, h, "ping")
  /\ p.source # h
  /\ p.target \in {h, AnyHost}
  /\ hosts' = [hosts EXCEPT ![h] = @ \cup {p.source}]
  /\ \E s \in SessionFor(h, p.source, p.src) :
       /\ Register(h, s, s)
       /\ Reply(p, {[kind |-> "pong", src |-> at[h], dst |-> p.src,
                     source |-> p.source, target |-> h, session |-> s.id]})
  /\ UNCHANGED <<turnRecent, turnConnected, punching, world, history>>

(* Mutant: the id of the peer is taken from its first response only. *)
ReceiveFirstPong(h, p) ==
  /\ ArrivesAt(p, h, "pong")
  /\ p.source = h
  /\ p.target \in hosts[h]
  /\ \E s \in SessionFor(h, p.target, p.src) :
       Register(h, s, [s EXCEPT !.remote = IF @ = NoId THEN p.session ELSE @,
                                !.recent = TRUE])
  /\ Reply(p, {})
  /\ UNCHANGED <<hosts, turnRecent, turnConnected, punching, world, history>>

(* _receive_ping_response_udp *)
ReceivePong(h, p) ==
  /\ ArrivesAt(p, h, "pong")
  /\ p.source = h
  /\ p.target \in hosts[h]
  /\ \E s \in SessionFor(h, p.target, p.src) :
       Register(h, s, [s EXCEPT !.remote = p.session, !.recent = TRUE])
  /\ Reply(p, {})
  /\ UNCHANGED <<hosts, turnRecent, turnConnected, punching, world, history>>

Heard(h, s) == sessions' = [sessions EXCEPT ![h] = (@ \ {s}) \cup {[s EXCEPT !.recent = TRUE]}]

(* Mutant: a message is the session's host's, whoever it says it is from. *)
ReceiveFromAnyone(h, p) ==
  /\ ArrivesAt(p, h, "message")
  /\ p.target = h
  /\ \E s \in sessions[h] :
       /\ s.id = p.session
       /\ Heard(h, s)
       /\ received' = received \cup {<<s.host, h, p.id>>}
  /\ Reply(p, {})
  /\ UNCHANGED <<hosts, turnRecent, turnConnected, punching, lastSessionId,
                 world, edits, requested, sent>>

(* _receive_direct_message_udp *)
ReceiveDirect(h, p) ==
  /\ ArrivesAt(p, h, "message")
  /\ p.target = h
  /\ \E s \in sessions[h] :
       /\ s.id = p.session
       /\ s.host = p.source
       /\ Heard(h, s)
       /\ received' = received \cup {<<s.host, h, p.id>>}
  /\ Reply(p, {})
  /\ UNCHANGED <<hosts, turnRecent, turnConnected, punching, lastSessionId,
                 world, edits, requested, sent>>

(* onServiceMessageUdp: the host is registered, its turning session heard. *)
ServiceMessage(h, p, kind) ==
  /\ p \in net /\ p.kind = kind /\ p.target = h /\ p.source # h
  /\ hosts' = [hosts EXCEPT ![h] = @ \cup {p.source}]
  /\ turnRecent' = [turnRecent EXCEPT ![h] = @ \cup {<<p.source, p.service>>}]
  /\ UNCHANGED <<sessions, turnConnected, lastSessionId, world, edits, requested, sent>>

ReceiveRelay(h, p) ==
  /\ ServiceMessage(h, p, "relay")
  /\ received' = received \cup {<<p.source, h, p.id>>}
  /\ Reply(p, {})
  /\ UNCHANGED punching

(* The writer of the answer stops at SLIB_P2P_ADDRESS_MAX_SIZE bytes: one  *)
(* for the method, one for the count, then the addresses, at most 16; an   *)
(* address that does not fit leaves the request without an answer.         *)
AnswerLimit == 64
AnswerFits  == 2 + AddressSize * (IF LocalCount > 16 THEN 16 ELSE LocalCount) <= AnswerLimit

AnswerTo(h, p) ==
  [kind |-> "answer", service |-> p.service, source |-> h, target |-> p.source,
   address |-> at[h]]

(* _receive_method_message_query_addresses_request *)
ReceiveQuery(h, p) ==
  /\ ServiceMessage(h, p, "query")
  /\ Reply(p, IF AnswerFits THEN {AnswerTo(h, p)} ELSE {})
  /\ UNCHANGED <<punching, received>>

(* _receive_method_message_query_addresses_response.  Of the addresses in  *)
(* it, all but the one that leads to the host lead to nobody.              *)
ReceiveAnswer(h, p) ==
  /\ ServiceMessage(h, p, "answer")
  /\ punching' = [punching EXCEPT ![h] = @ \cup {<<p.source, p.address>>}]
  /\ Reply(p, {})
  /\ UNCHANGED received

(* onServiceBroadcastMessageUdp *)
ReceiveBroadcast(h, p) ==
  /\ p \in net /\ p.kind = "broadcast" /\ p.target = h
  /\ received' = received \cup {<<p.source, h, p.id>>}
  /\ Reply(p, {})
  /\ UNCHANGED <<switchVars, world, edits, requested, sent>>

-----------------------------------------------------------------------------
(* Time, the network and the hosts *)

Expire(h, s) ==
  /\ s \in sessions[h] /\ s.recent
  /\ sessions' = [sessions EXCEPT ![h] = (@ \ {s}) \cup {[s EXCEPT !.recent = FALSE]}]
  /\ UNCHANGED <<hosts, turnRecent, turnConnected, punching, lastSessionId,
                 world, net, history>>

ExpireTurning(h, x) ==
  /\ x \in turnRecent[h]
  /\ turnRecent' = [turnRecent EXCEPT ![h] = @ \ {x}]
  /\ UNCHANGED <<hosts, sessions, turnConnected, punching, lastSessionId,
                 world, net, history>>

(* A packet that is lost, or that whoever has its address ignores. *)
Lose(p) ==
  /\ p \in net
  /\ net' = net \ {p}
  /\ UNCHANGED <<switchVars, world, history>>

(* A host gets an address that no host has, maybe one that another left. *)
Move(h, a) ==
  /\ moves < MaxMove /\ moves' = moves + 1
  /\ a \notin {at[t] : t \in Hosts}
  /\ at' = [at EXCEPT ![h] = a]
  /\ UNCHANGED <<switchVars, starts, net, history>>

(* Mutant: the sessions outlive the process. *)
RestartKeepingSessions(h) ==
  /\ starts < MaxStart /\ starts' = starts + 1
  /\ hosts'    = [hosts EXCEPT ![h] = {}]
  /\ turnRecent'    = [turnRecent EXCEPT ![h] = {}]
  /\ turnConnected' = [turnConnected EXCEPT ![h] = {}]
  /\ punching' = [punching EXCEPT ![h] = {}]
  /\ \E id \in {0, lastSessionId[h]} : lastSessionId' = [lastSessionId EXCEPT ![h] = id]
  /\ UNCHANGED <<sessions, at, moves, net, history>>

(* The process ends and start is called again.  Nothing is assumed of the  *)
(* clock that seeds the ids: they go on or begin again.                    *)
Restart(h) ==
  /\ starts < MaxStart /\ starts' = starts + 1
  /\ hosts'    = [hosts EXCEPT ![h] = {}]
  /\ sessions' = [sessions EXCEPT ![h] = {}]
  /\ turnRecent'    = [turnRecent EXCEPT ![h] = {}]
  /\ turnConnected' = [turnConnected EXCEPT ![h] = {}]
  /\ punching' = [punching EXCEPT ![h] = {}]
  /\ \E id \in {0, lastSessionId[h]} : lastSessionId' = [lastSessionId EXCEPT ![h] = id]
  /\ UNCHANGED <<at, moves, net, history>>

-----------------------------------------------------------------------------
Init ==
  /\ hosts         = [h \in Hosts |-> {}]
  /\ sessions      = [h \in Hosts |-> {}]
  /\ turnRecent    = [h \in Hosts |-> {}]
  /\ turnConnected = [h \in Hosts |-> {}]
  /\ punching      = [h \in Hosts |-> {}]
  /\ lastSessionId = [h \in Hosts |-> 0]
  /\ at = Home
  /\ moves = 0 /\ starts = 0 /\ edits = 0 /\ requested = 0
  /\ net = {} /\ sent = {} /\ received = {}

Application(h) ==
  \/ \E t \in Hosts : AddHost(h, t) \/ RemoveHost(h, t)
  \/ \E m \in MessageIds :
       \/ \E t \in Hosts : SendMessage(h, t, m)
       \/ \E s \in sessions[h] : SendThrough(h, s, m)
       \/ SendBroadcast(h, m)

Interval(h) ==
  \E t \in Hosts :
    \/ \E due \in SUBSET {s.address : s \in SessionsWith(h, t)} : CheckHost(h, t, due)
    \/ \E v \in Services : QueryHost(h, t, v)
    \/ QueryAddresses(h, t)
    \/ \E a \in Addresses : Knock(h, t, a)
    \/ BroadcastPing(h, t)

Receive(h) ==
  \E p \in net :
    \/ ReceiveKnock(h, p) \/ ReceivePing(h, p) \/ ReceivePong(h, p)
    \/ ReceiveDirect(h, p) \/ ReceiveRelay(h, p) \/ ReceiveQuery(h, p)
    \/ ReceiveAnswer(h, p) \/ ReceiveBroadcast(h, p)

Environment(h) ==
  \/ \E s \in sessions[h] : Expire(h, s)
  \/ \E x \in turnRecent[h] : ExpireTurning(h, x)
  \/ \E a \in Addresses : Move(h, a)
  \/ Restart(h)

Next ==
  \/ \E h \in Hosts : Application(h) \/ Interval(h) \/ Receive(h) \/ Environment(h)
  \/ \E p \in net : Lose(p)

Spec == Init /\ [][Next]_vars

(* The interval thread of the switch Here goes round its hosts and sends   *)
(* its broadcast pings for ever, much faster than a session times out; of  *)
(* the packets sent again and again not all are lost.  A session that is   *)
(* not heard times out (the applications' messages are bounded, so they do *)
(* not keep it).  Nothing is assumed of the interval threads of the others *)
(* and nothing of the services.                                            *)
Connects(h, t, a) ==
  /\ \E s \in SessionsWith(h, t) : s.address = a /\ s.recent /\ ~s.connected
  /\ CheckHost(h, t, {})

SendsPing(h, t, a) == CheckHost(h, t, {a}) /\ net' # net

Fairness ==
  /\ \A t \in Hosts \ {Here} :
       /\ \A a \in Addresses :
            WF_vars(\E s \in SessionsWith(Here, t) : s.address = a /\ Expire(Here, s))
       /\ SF_vars(BroadcastPing(Here, t))
       /\ WF_vars(CheckHost(Here, t, {}))
       /\ SF_vars(SendsPing(Here, t, at[t]))
       /\ SF_vars(Connects(Here, t, at[t]))
       /\ SF_vars(\E p \in net : ReceivePing(t, p) /\ p.source = Here)
       /\ SF_vars(\E p \in net : ReceivePong(Here, p) /\ p.target = t)
  /\ WF_vars(\E p \in net : Lose(p))

FairSpec == Spec /\ Fairness

-----------------------------------------------------------------------------
(* Properties *)

(* Types, the bounds, and that ids of sessions are below the counter. *)
TypeOK ==
  /\ hosts \in [Hosts -> SUBSET Hosts]
  /\ sessions \in [Hosts -> SUBSET Session]
  /\ turnRecent \in [Hosts -> SUBSET (Hosts \X Services)]
  /\ turnConnected \in [Hosts -> SUBSET (Hosts \X Services)]
  /\ punching \in [Hosts -> SUBSET (Hosts \X Addresses)]
  /\ lastSessionId \in [Hosts -> 0..MaxSession]
  /\ \A h \in Hosts : \A s \in sessions[h] : s.id \in 1..lastSessionId[h]
  /\ at \in [Hosts -> Addresses]
  /\ moves \in 0..MaxMove /\ starts \in 0..MaxStart
  /\ edits \in 0..MaxEdit /\ requested \in 0..MaxRequest
  /\ net \subseteq Packet
  /\ sent \subseteq Hosts \X Hosts \X MessageIds
  /\ received \subseteq Hosts \X Hosts \X MessageIds

(* Whatever hosts start again, issue the same ids again and take over each *)
(* other's addresses: a switch passes to its listener only what was sent   *)
(* to its host, as from the host that sent it.                             *)
Relay == INSTANCE HnsRelay WITH Clients <- Hosts
RelaySpec == Relay!Spec

(* A message that h sends to t directly, now, is one that t takes. *)
Reaches(h, t) ==
  \E s \in FirstConnected(h, t) :
    /\ s.address = at[t]
    /\ \E r \in SessionsWith(t, h) : r.id = s.remote

(* On one local network the switch Here gets to reach the hosts it has,    *)
(* over and over, also after they started again or moved: the sessions     *)
(* that lead nowhere time out, and new ids come with the answers to pings. *)
Reachable ==
  \A t \in Hosts \ {Here} : []<>(t \in hosts[Here] => Reaches(Here, t))

(* Who is asked for its addresses answers, with up to 16 of them, unless   *)
(* the network is full.                                                    *)
AddressesAnswered ==
  [][\A h \in Hosts : \A p \in net :
       ReceiveQuery(h, p) => AnswerTo(h, p) \in net' \/ Cardinality(net') = MaxPackets]_vars

=============================================================================
