------------------------------ MODULE SRouter ------------------------------
(***************************************************************************)
(* Routers that join their networks through each other.  A router has a    *)
(* device, on its own network, and remotes, which are other routers known  *)
(* by name: a static remote by the address of its configuration, over UDP  *)
(* and over TCP as well if configured so; a dynamic one by where its last  *)
(* keep alive came from.  An IPv4 packet that comes from an interface goes *)
(* to the targets of the routes that it matches.                           *)
(***************************************************************************)
EXTENDS Naturals, FiniteSets, Sequences, Functions

CONSTANTS
  Routers,
  Packets,      \* [src, dst, kind, port, part]: what hosts may send
  LanOf,        \* host -> the router whose device it is behind
  Config,       \* router -> remote's name -> [address, tcp]
  Routes,       \* router -> sequence of [src, dst, kinds, ports, targets, break], sets
  UseNat,       \* routers whose device has use_nat
  Mtu,          \* and others, whose device has mtu_outgoing
  Home,         \* router -> its first UDP address
  Pool,         \* router -> the addresses that it may have
  Limits        \* bounds, one is chosen: [sent, the packets that hosts send,
                \*   events, the moves, releases and broken connections,
                \*   net, the messages on their way]

VARIABLES
  phase,        \* router -> created, running or released
  address,      \* router -> where its UDP messages come from
  link,         \* router -> its TCP connection, 0 when there is none
  remotes,      \* router -> name -> [address, client]: m_address, m_tcp
  remoteAt,     \* m_mapRemotesBySocketAddress and ByTcpClient: router -> end -> name
  net,          \* messages of routers
  parts,        \* m_fragmentation: fragments that wait in the router's device
  flows,        \* m_nat: the hosts that a port of the router's device stands for
  brought,      \* what was brought to devices (history)
  lan,          \* what devices wrote (history)
  sent,         \* what hosts sent (history)
  events,
  limit

node == <<phase, remotes, remoteAt>>
device == <<parts, flows, brought, lan>>
world == <<address, link, events, limit>>
routerVars == <<node, device, world, net, sent>>

-----------------------------------------------------------------------------
(* An end of a message is a UDP address or a TcpDatagramClient: that of the *)
(* router r which connects, or what the server made of its connection n.    *)
Udp(a) == <<"udp", a, 0>>
Tcp(r, n) == <<"tcp", r, n>>
None == <<"none", "none", 0>>
Ends == {Udp(a) : a \in UNION {Pool[r] : r \in Routers}}
        \cup {Tcp(r, n) : r \in Routers, n \in UNION {0 .. l.events + 1 : l \in Limits}}

Device == "device"
NoName == "none"
All == "all"                    \* a broadcast

NoPacket == [src |-> NoName, dst |-> NoName, kind |-> NoName, port |-> NoName,
             part |-> 0]

IsPacket(p) ==
  p = [src |-> p.src, dst |-> p.dst, kind |-> p.kind, port |-> p.port, part |-> p.part]

(* Routers have names of their own; a router has addresses; its routes name *)
(* its device and its remotes.  What translates is on its own network.      *)
ASSUME RouterAssumption ==
  /\ {Device, NoName, All} \cap Routers = {}
  /\ \A p \in Packets : IsPacket(p)
  /\ DOMAIN Home = Routers /\ \A r \in Routers : Home[r] \in Pool[r]
  /\ \A l \in Limits : l.events \in Nat
  /\ \A r \in Routers :
       /\ DOMAIN Config[r] \subseteq Routers
       /\ \A i \in DOMAIN Routes[r] : Routes[r][i].targets \subseteq DOMAIN Config[r] \cup {Device}
  /\ UseNat \subseteq Routers /\ \A r \in UseNat : LanOf[r] = r

Static(r, q) == Config[r][q].address # None

(* registerRemote, of each remote that is configured.                       *)
Registered(r) ==
  [q \in DOMAIN Config[r] |->
     [address |-> Config[r][q].address,
      client |-> IF Config[r][q].tcp THEN Tcp(r, 0) ELSE None]]

RegisteredEnd(r, q) == IF Config[r][q].tcp THEN Tcp(r, 0) ELSE Config[r][q].address

RegisteredAt(r) ==
  [e \in Ends |->
     LET at == {q \in DOMAIN Config[r] : Static(r, q) /\ RegisteredEnd(r, q) = e}
     IN IF at = {} THEN NoName ELSE CHOOSE q \in at : TRUE]

-----------------------------------------------------------------------------
(* Messages.  for is the remote that it is sent to; path (history) has the  *)
(* routers that its packet has passed.                                      *)

(* _sendRemoteMessage sends through both when a remote has both.            *)
Sends(r, q, method, packet, path) ==
  LET remote == remotes[r][q]
      c == remote.client
      Message(chan, from) ==
        [by |-> r, for |-> q, chan |-> chan, from |-> from, method |-> method,
         packet |-> packet, path |-> path]
  IN (IF c # None /\ link[c[2]] # 0 /\ c[3] \in {0, link[c[2]]}
      THEN {Message(Tcp(c[2], link[c[2]]),
                    IF c[2] = r THEN Tcp(r, link[r]) ELSE Tcp(c[2], 0))} ELSE {})
     \cup
     (IF remote.address # None
      THEN {Message(remote.address, Udp(address[r]))} ELSE {})

(* More than the bound are lost.                                            *)
SendOver(n, ms) ==
  IF Cardinality(n \cup ms) <= limit.net THEN net' = n \cup ms
  ELSE \E some \in SUBSET ms : Cardinality(n \cup some) <= limit.net /\ net' = n \cup some

ArrivesAt(m, r) ==
  IF m.chan[1] = "udp" THEN m.chan = Udp(address[r])
  ELSE r = m.for /\ link[m.chan[2]] = m.chan[3]

-----------------------------------------------------------------------------
(* Routes *)

Matches(route, p) ==
  /\ p.kind \in route.kinds
  /\ p.dst \in route.dst /\ p.src \in route.src
  /\ p.part = 2 \/ p.port \in route.ports     \* a later fragment has no ports

(* Mutant: a route breaks when it has sent the packet somewhere.            *)
StopsWhenSent(route, source) == route.break /\ route.targets \ {source} # {}

Stops(route, source) == route.break

(* Mutant: the packet goes to all targets.                                  *)
AllTargets(route, source) == route.targets

OtherTargets(route, source) == route.targets \ {source}

(* The routes that a packet from source gets to and matches: none before    *)
(* them that it matches stops it.                                           *)
Applied(r, source, p) ==
  {i \in DOMAIN Routes[r] :
     /\ Matches(Routes[r][i], p)
     /\ \A j \in DOMAIN Routes[r] :
          j < i /\ Matches(Routes[r][j], p) => ~Stops(Routes[r][j], source)}

(* forwardIPv4Packet: the interfaces that a packet is written to.           *)
Targets(r, source, p) ==
  UNION {OtherTargets(Routes[r][i], source) : i \in Applied(r, source, p)}

Translates(r, source) == source = Device /\ r \in UseNat

(* The hosts that m_nat may take a packet to be for.  (NAT's port stands for *)
(* the host it is for; in a later fragment there is data where it looks.)   *)
Open(r, p) ==
  IF p.dst # r THEN {}
  ELSE IF p.part = 2 THEN flows[r] ELSE flows[r] \cap {p.port}

(* Mutant: what is for no single host is not translated, and passes.        *)
IncomingBroadcasts(r, source, p) ==
  IF ~Translates(r, source) \/ p.dst = All THEN {p}
  ELSE {[p EXCEPT !.dst = h, !.port = "app"] : h \in Open(r, p)}

(* translateIncomingPacket: what a packet may go on as.                     *)
Incoming(r, source, p) ==
  IF ~Translates(r, source) THEN {p}
  ELSE {[p EXCEPT !.dst = h, !.port = "app"] : h \in Open(r, p)}

(* _writeIPv4Packet drops what it has no MAC address for.                   *)
Transmit(r, p) == lan' = lan \/ lan' = lan \cup {[at |-> r, packet |-> p]}

(* translateOutgoingPacket opens a port for the host that sends, or fails;  *)
(* it finds none to translate in a later fragment, and takes data for it.   *)
WriteTranslated(r, p) ==
  \/ UNCHANGED <<flows, lan>>
  \/ /\ flows' = [flows EXCEPT ![r] = @ \cup {p.src}]
     /\ Transmit(r, [p EXCEPT !.src = r, !.port = IF p.part = 2 THEN @ ELSE p.src])

Other(p) == [p EXCEPT !.part = 3 - p.part]

(* writeIPv4Packet of the device: fragments wait for each other, where they  *)
(* expire, and go on as one packet; but what is copied to be translated is  *)
(* the fragment that came last.                                             *)
WriteToDevice(r, p) ==
  LET combine == r \in Mtu /\ p.part # 0
  IN /\ brought' = brought \cup {[at |-> r, packet |-> p]}
     /\ \/ /\ combine
           /\ parts' = [parts EXCEPT ![r] = (@ \ {Other(p)}) \cup {p}]
           /\ UNCHANGED <<flows, lan>>
        \/ /\ combine => Other(p) \in parts[r]
           /\ parts' = IF combine THEN [parts EXCEPT ![r] = @ \ {Other(p)}] ELSE parts
           /\ IF r \in UseNat /\ p.dst # All THEN WriteTranslated(r, p)
              ELSE /\ Transmit(r, IF combine THEN [p EXCEPT !.part = 0] ELSE p)
                   /\ UNCHANGED flows

(* forwardIPv4Packet, of a packet from the interface source; n is what is   *)
(* on its way without the message that brought it.                          *)
WriteToTargets(r, source, packet, path, n) ==
  LET out == Targets(r, source, packet)
  IN /\ SendOver(n, UNION {Sends(r, q, "packet", packet, path) : q \in out \ {Device}})
     /\ IF Device \in out THEN WriteToDevice(r, packet) ELSE UNCHANGED device

Forward(r, source, p, path, n) ==
  \/ \E packet \in Incoming(r, source, p) : WriteToTargets(r, source, packet, path, n)
  \/ Translates(r, source) /\ net' = n /\ UNCHANGED device

-----------------------------------------------------------------------------
(* processReadL2Frame                                                       *)
Capture(r, p) ==
  /\ phase[r] = "running"
  /\ LanOf[p.src] = r /\ p \notin sent /\ Cardinality(sent) < limit.sent
  /\ sent' = sent \cup {p}
  /\ Forward(r, Device, p, <<r>>, net)
  /\ UNCHANGED <<node, world>>

(* _idle of a remote, every five seconds.                                   *)
KeepAlive(r, q) ==
  /\ phase[r] = "running"
  /\ SendOver(net, Sends(r, q, "keepalive", NoPacket, << >>))
  /\ UNCHANGED <<node, device, world, sent>>

(* Mutant: a dynamic remote stays where it was first heard.                 *)
HeardFirst(remote, e) ==
  IF remote.address # None \/ remote.client # None THEN remote
  ELSE [address |-> IF e[1] = "udp" THEN e ELSE None,
        client |-> IF e[1] = "tcp" THEN e ELSE None]

Heard(remote, e) ==
  [address |-> IF e[1] = "udp" THEN e ELSE None,
   client |-> IF e[1] = "tcp" THEN e ELSE None]

(* _receiveRouterKeepAlive: the ends of a remote are added to the maps and  *)
(* never removed.                                                           *)
ReceiveKeepAlive(r, m) ==
  /\ m.method = "keepalive"
  /\ IF m.by \in DOMAIN Config[r]
     THEN /\ remotes' = IF Static(r, m.by) THEN remotes
                        ELSE [remotes EXCEPT ![r][m.by] = Heard(@, m.from)]
          /\ remoteAt' = [remoteAt EXCEPT ![r][m.from] = m.by]
     ELSE UNCHANGED <<remotes, remoteAt>>
  /\ UNCHANGED <<phase, device>>

RemoteOf(r, m) == remoteAt[r][m.from]

ReceivePacket(r, m, n) ==
  LET q == RemoteOf(r, m)
  IN /\ m.method = "packet"
     /\ IF q # NoName THEN Forward(r, q, m.packet, Append(m.path, r), n)
        ELSE net' = n /\ UNCHANGED device
     /\ UNCHANGED node

(* _receiveRemoteMessage.  A datagram of UDP may come again.                *)
Receive(r, m, again) ==
  LET n == IF again THEN net ELSE net \ {m}
  IN /\ phase[r] = "running" /\ ArrivesAt(m, r)
     /\ again => m.chan[1] = "udp"
     /\ \/ ReceiveKeepAlive(r, m) /\ net' = n
        \/ ReceivePacket(r, m, n)
     /\ UNCHANGED <<world, sent>>

(* It is lost, as it is when nobody is there, or its connection is not.     *)
Drop(m) ==
  /\ net' = net \ {m}
  /\ UNCHANGED <<node, device, world, sent>>

Start(r) ==
  /\ phase[r] = "created"
  /\ phase' = [phase EXCEPT ![r] = "running"]
  /\ UNCHANGED <<remotes, remoteAt, device, world, net, sent>>

Linked(r, b) == b = r \/ \E q \in DOMAIN Config[b] : q = r /\ Config[b][q].tcp

Release(r) ==
  /\ phase[r] = "running" /\ events < limit.events
  /\ phase' = [phase EXCEPT ![r] = "released"]
  /\ link' = [b \in Routers |-> IF Linked(r, b) THEN 0 ELSE link[b]]
  /\ events' = events + 1
  /\ UNCHANGED <<remotes, remoteAt, address, limit, device, net, sent>>

(* The program creates the router again from its configuration.             *)
Create(r) ==
  /\ phase[r] = "released"
  /\ phase' = [phase EXCEPT ![r] = "created"]
  /\ remotes' = [remotes EXCEPT ![r] = Registered(r)]
  /\ remoteAt' = [remoteAt EXCEPT ![r] = RegisteredAt(r)]
  /\ parts' = [parts EXCEPT ![r] = {}]
  /\ flows' = [flows EXCEPT ![r] = {}]
  /\ UNCHANGED <<brought, lan, world, net, sent>>

Connect(r, q) ==
  /\ Config[r][q].tcp /\ link[r] = 0
  /\ phase[r] = "running" /\ phase[q] = "running"
  /\ link' = [link EXCEPT ![r] = events + 1]
  /\ UNCHANGED <<node, device, address, events, limit, net, sent>>

Disconnect(r) ==
  /\ link[r] # 0 /\ events < limit.events
  /\ link' = [link EXCEPT ![r] = 0]
  /\ events' = events + 1
  /\ UNCHANGED <<node, device, address, limit, net, sent>>

Move(r, a) ==
  /\ a \in Pool[r] \ {address[r]} /\ events < limit.events
  /\ address' = [address EXCEPT ![r] = a]
  /\ events' = events + 1
  /\ UNCHANGED <<node, device, link, limit, net, sent>>

Init ==
  /\ phase = [r \in Routers |-> "created"]
  /\ address = Home
  /\ link = [r \in Routers |-> 0]
  /\ remotes = [r \in Routers |-> Registered(r)]
  /\ remoteAt = [r \in Routers |-> RegisteredAt(r)]
  /\ net = {} /\ brought = {} /\ lan = {} /\ sent = {} /\ events = 0 /\ limit \in Limits
  /\ parts = [r \in Routers |-> {}] /\ flows = [r \in Routers |-> {}]

Next ==
  \/ \E r \in Routers :
       \/ Start(r) \/ Release(r) \/ Create(r) \/ Disconnect(r)
       \/ \E a \in Pool[r] : Move(r, a)
       \/ \E p \in Packets : Capture(r, p)
       \/ \E q \in DOMAIN Config[r] : KeepAlive(r, q) \/ Connect(r, q)
       \/ \E m \in net, again \in BOOLEAN : Receive(r, m, again)
  \/ \E m \in net : Drop(m)

Spec == Init /\ [][Next]_routerVars

(* Where r sees the messages of q come from, on the channel of m.           *)
OwnEnd(q, m) ==
  IF m.chan[1] = "udp" THEN Udp(address[q])
  ELSE IF m.chan[2] = q THEN Tcp(q, link[q]) ELSE Tcp(m.chan[2], 0)

KeepAliveSent(r, q) ==
  /\ KeepAlive(r, q)
  /\ \E m \in net' \ net : m.by = r

KeepAliveArrives(r, q) ==
  \E m \in net : /\ m.method = "keepalive" /\ m.by = q /\ m.from = OwnEnd(q, m)
                 /\ Receive(r, m, FALSE)

Leaves ==
  \E m \in net : Drop(m) \/ \E r \in Routers : Receive(r, m, FALSE)

Up ==
  \E r \in Routers :
    Start(r) \/ Create(r) \/ \E q \in DOMAIN Config[r] : Connect(r, q)

(* Packets change no remote, no link and no address: fairness is stated,    *)
(* and what must come about is checked, where no host sends any.            *)
Quiet == limit.sent = 0

(* The program creates what it released and starts what it created, and a   *)
(* connection is tried again; what is on its way arrives or is lost; the    *)
(* timer runs, and of the keep alives that are sent again and again from    *)
(* one place not all are lost.                                              *)
Fairness ==
  /\ WF_routerVars(Quiet /\ Leaves) /\ WF_routerVars(Quiet /\ Up)
  /\ \A r \in Routers : \A q \in DOMAIN Config[r] :
       ~Static(r, q) => /\ SF_routerVars(Quiet /\ KeepAliveSent(q, r))
                        /\ SF_routerVars(Quiet /\ KeepAliveArrives(r, q))

FairSpec == Spec /\ Fairness

-----------------------------------------------------------------------------
(* No router gets a packet that has passed it: forwardIPv4Packet leaves out *)
(* the interface that it found for where the message came from, and nothing *)
(* else stops a packet that goes round, as no time to live is counted.      *)
LoopFree ==
  \A m \in net : m.method = "packet" => m.for \notin Range(m.path)

(* A packet is written to the network of its destination and to no other:   *)
(* of the routes that match it at each router, the first that breaks is the *)
(* last, also when it sends the packet nowhere.                             *)
OwnNetwork ==
  \A e \in lan : e.packet.dst # All => LanOf[e.packet.dst] = e.at

(* A packet from behind a device that translates reaches no host but one,   *)
(* of which a packet for a host was brought to that device before: whatever  *)
(* is a fragment, and where NAT takes data for a port, and no broadcast.    *)
SendersOnly ==
  \A e \in lan :
    LanOf[e.packet.src] \in UseNat \ {e.at} =>
      \E f \in brought : /\ f.at = LanOf[e.packet.src]
                         /\ f.packet.src = e.packet.dst /\ f.packet.dst # All

-----------------------------------------------------------------------------
(* What these need of a configuration, and what every step preserves.      *)

(* A route to the device for a destination elsewhere comes after one that   *)
(* stops whatever it matches.                                              *)
StopsBefore(r, i, dst) ==
  \E j \in DOMAIN Routes[r] :
    /\ j < i /\ Routes[r][j].break /\ dst \in Routes[r][j].dst
    /\ Routes[r][i].src \subseteq Routes[r][j].src
    /\ Routes[r][i].kinds \subseteq Routes[r][j].kinds
    /\ Routes[r][i].ports \subseteq Routes[r][j].ports

DeviceRoutesAreOwn ==
  \A r \in Routers : \A i \in DOMAIN Routes[r] : \A dst \in Routes[r][i].dst \ {All} :
    Device \in Routes[r][i].targets /\ LanOf[dst] # r => StopsBefore(r, i, dst)

(* Every router but the hub knows the hub only, and is known to it by name  *)
(* or by a UDP address; no address is ever two routers'.                   *)
Star(hub) ==
  /\ \A r \in Routers :
       /\ DOMAIN Config[r] \subseteq IF r = hub THEN Routers \ {hub} ELSE {hub}
       /\ \A q \in DOMAIN Config[r] :
            /\ Config[r][q].address \in {None} \cup {Udp(a) : a \in Pool[q]}
            /\ Config[r][q].tcp => r # hub /\ Static(r, q)
  /\ \A r, q \in Routers : r # q => Pool[r] \cap Pool[q] = {}

(* Where routers are and how they are connected.                            *)
WorldInv ==
  /\ DOMAIN address = Routers /\ DOMAIN link = Routers
  /\ \A r \in Routers : address[r] \in Pool[r] /\ link[r] \in 0 .. events + 1
  /\ limit \in Limits /\ events \in 0 .. limit.events

(* The two maps of a router name its remotes, and its remotes ends.         *)
EndsInv ==
  /\ DOMAIN remotes = Routers /\ DOMAIN remoteAt = Routers
  /\ \A r \in Routers :
       /\ DOMAIN remotes[r] = DOMAIN Config[r] /\ DOMAIN remoteAt[r] = Ends
       /\ \A e \in Ends : remoteAt[r][e] \in DOMAIN Config[r] \cup {NoName}
       /\ \A q \in DOMAIN Config[r] :
            LET c == remotes[r][q].client
            IN  c = None \/ \E o \in Routers : c = Tcp(o, c[3])
  /\ \A m \in net : m.by \in Routers /\ m.from \in Ends

MapsInv == WorldInv /\ EndsInv

(* In a star: an end at which r hears q is q's address, or their connection, *)
(* which is named after the one of them that is not the hub.               *)
EndOf(hub, r, e, q) ==
  IF e[1] = "udp" THEN \E a \in Pool[q] : e = Udp(a)
  ELSE IF r = hub THEN e[2] = q ELSE e[2] = r /\ q = hub

StarRemote(hub, r, q, remote) ==
  /\ remote.address # None => \E a \in Pool[q] : remote.address = Udp(a)
  /\ remote.client # None => remote.client[2] = IF r = hub THEN q ELSE r

StarMessage(hub, m) ==
  /\ m.for \in DOMAIN Config[m.by]
  /\ EndOf(hub, m.for, m.from, m.by)
  /\ m.chan[1] = "udp" => \E a \in Pool[m.for] : m.chan = Udp(a)
  /\ m.method = "packet" =>
       IF m.by = hub
       THEN m.path = <<hub>> \/ \E o \in Routers \ {hub, m.for} : m.path = <<o, hub>>
       ELSE m.path = <<m.by>>

StarInv(hub) ==
  /\ \A r \in Routers :
       /\ \A q \in DOMAIN Config[r] : StarRemote(hub, r, q, remotes[r][q])
       /\ \A e \in Ends : remoteAt[r][e] # NoName => EndOf(hub, r, e, remoteAt[r][e])
  /\ \A m \in net : StarMessage(hub, m)

(* Whom p is for has sent to the network that p comes from, if that one's   *)
(* device translates.                                                      *)
Asked(p) ==
  LanOf[p.src] \in UseNat =>
    \E f \in brought : /\ f.at = LanOf[p.src]
                       /\ f.packet.src = p.dst /\ f.packet.dst # All

(* A port is opened when a packet is brought.                               *)
FlowInv ==
  \A r \in UseNat : \A h \in flows[r] :
    \E f \in brought : f.at = r /\ f.packet.src = h /\ f.packet.dst # All

PartsInv ==
  /\ DOMAIN parts = Routers /\ DOMAIN flows = Routers
  /\ \A r \in Routers : \A p \in parts[r] : IsPacket(p) /\ Asked(p)

PacketInv ==
  \A m \in net : m.method = "packet" => IsPacket(m.packet) /\ Asked(m.packet)

SendersInv == FlowInv /\ PartsInv /\ PacketInv /\ SendersOnly

(* A dynamic remote is sent to where it is, however often it moves, is      *)
(* created again or loses its connection.                                   *)
Reached(r, q) ==
  Quiet /\ phase[r] = "running" /\ phase[q] = "running" =>
    \/ remotes[r][q].address = Udp(address[q])
    \/ link[q] # 0 /\ remotes[r][q].client = Tcp(q, link[q])

Reaches ==
  \A r \in Routers : \A q \in DOMAIN Config[r] : ~Static(r, q) => []<>Reached(r, q)

=============================================================================
