---------------------------- MODULE SRouterProofs ----------------------------
(***************************************************************************)
(* Theorems about SRouter, for any routers, routes, packets and bounds:    *)
(* what passes a device that translates, which network a packet is written *)
(* to, and that a packet does not come round in a star of routers.         *)
(***************************************************************************)
EXTENDS SRouter, SequenceTheorems, TLAPS

(* A packet that is put together or translated has the fields it had, but   *)
(* for those that change.                                                  *)
LEMMA IncomingPacket ==
  ASSUME NEW r, NEW source, NEW p, IsPacket(p), NEW packet \in Incoming(r, source, p)
  PROVE  /\ IsPacket(packet) /\ packet.src = p.src
         /\ ~Translates(r, source) => packet = p
         /\ Translates(r, source) => packet.dst \in flows[r]
<1>1. CASE ~Translates(r, source)
  BY <1>1 DEF Incoming
<1>2. CASE Translates(r, source)
  <2>1. PICK h \in Open(r, p) : packet = [p EXCEPT !.dst = h, !.port = "app"]
    BY <1>2 DEF Incoming
  <2>2. h \in flows[r]
    BY DEF Open
  <2> QED BY <1>2, <2>1, <2>2 DEF IsPacket
<1> QED BY <1>1, <1>2

LEMMA WholePacket ==
  ASSUME NEW p, IsPacket(p)
  PROVE  [p EXCEPT !.part = 0].src = p.src /\ [p EXCEPT !.part = 0].dst = p.dst
  BY DEF IsPacket

LEMMA TranslatedPacket ==
  ASSUME NEW r, NEW p, IsPacket(p), NEW port
  PROVE  [p EXCEPT !.src = r, !.port = port].src = r /\ [p EXCEPT !.src = r, !.port = port].dst = p.dst
  BY DEF IsPacket

(* What a router sends carries the packet it was given, by itself, with the *)
(* path it was given.                                                      *)
LEMMA SentMessage ==
  ASSUME NEW r, NEW q, NEW method, NEW packet, NEW path,
         NEW m \in Sends(r, q, method, packet, path)
  PROVE  /\ m.by = r /\ m.for = q /\ m.method = method /\ m.packet = packet /\ m.path = path
         /\ \/ /\ m.chan = remotes[r][q].address /\ m.chan # None
               /\ m.from = Udp(address[r])
            \/ LET c == remotes[r][q].client
               IN  /\ c # None /\ link[c[2]] # 0
                   /\ m.chan = Tcp(c[2], link[c[2]])
                   /\ m.from = IF c[2] = r THEN Tcp(r, link[r]) ELSE Tcp(c[2], 0)
  BY DEF Sends

LEMMA SentOver ==
  ASSUME NEW n, NEW ms, SendOver(n, ms)
  PROVE  net' \subseteq n \cup ms
  BY DEF SendOver

(* A router that forwards a packet puts messages of itself to remotes that  *)
(* are targets on their way, and writes to its device if that is a target.  *)
LEMMA Forwarded ==
  ASSUME NEW r, NEW source, NEW p, NEW path, NEW n, Forward(r, source, p, path, n)
  PROVE  \/ UNCHANGED device /\ net' = n
         \/ \E packet \in Incoming(r, source, p) :
              /\ \A m \in net' \ n : \E q \in Targets(r, source, packet) \ {Device} :
                   m \in Sends(r, q, "packet", packet, path)
              /\ \/ UNCHANGED device
                 \/ Device \in Targets(r, source, packet) /\ WriteToDevice(r, packet)
<1>1. CASE UNCHANGED device /\ net' = n
  BY <1>1
<1>2. ASSUME NEW packet \in Incoming(r, source, p), WriteToTargets(r, source, packet, path, n)
      PROVE  /\ \A m \in net' \ n : \E q \in Targets(r, source, packet) \ {Device} :
                  m \in Sends(r, q, "packet", packet, path)
             /\ \/ UNCHANGED device
                \/ Device \in Targets(r, source, packet) /\ WriteToDevice(r, packet)
  <2> DEFINE out == Targets(r, source, packet)
  <2>1. net' \subseteq n \cup UNION {Sends(r, q, "packet", packet, path) : q \in out \ {Device}}
    BY <1>2, SentOver DEF WriteToTargets
  <2> QED BY <1>2, <2>1 DEF WriteToTargets
<1> QED BY <1>1, <1>2 DEF Forward

-----------------------------------------------------------------------------
(* The maps of a router *)

LEMMA EndTypes ==
  ASSUME WorldInv
  PROVE  /\ \A r \in Routers : Udp(address[r]) \in Ends
         /\ \A o \in Routers : Tcp(o, 0) \in Ends /\ Tcp(o, link[o]) \in Ends
<1>1. \A r \in Routers : Udp(address[r]) \in Ends
  BY DEF WorldInv, Ends
<1>2. 0 .. limit.events + 1 \subseteq UNION {0 .. l.events + 1 : l \in Limits}
  BY DEF WorldInv
<1>3. limit.events \in Nat /\ events \in Nat
  BY RouterAssumption DEF WorldInv
<1>4. ASSUME NEW o \in Routers, NEW k \in {0, link[o]} PROVE Tcp(o, k) \in Ends
  <2>1. k \in 0 .. limit.events + 1
    BY <1>3 DEF WorldInv
  <2> QED BY <1>2, <2>1 DEF Ends
<1> QED BY <1>1, <1>4

LEMMA EndKinds ==
  ASSUME NEW e \in Ends
  PROVE  \/ e[1] = "udp" /\ \E r \in Routers : \E a \in Pool[r] : e = Udp(a)
         \/ e[1] = "tcp" /\ \E o \in Routers : e = Tcp(o, e[3])
  BY DEF Ends, Udp, Tcp

(* What a router sends comes from one of its ends.                          *)
LEMMA SentEnds ==
  ASSUME MapsInv, NEW r \in Routers, NEW q \in DOMAIN Config[r], NEW method, NEW packet, NEW path,
         NEW m \in Sends(r, q, method, packet, path)
  PROVE  m.by \in Routers /\ m.from \in Ends
<1>1. remotes[r][q].client # None => remotes[r][q].client[2] \in Routers
  BY DEF MapsInv, EndsInv, Tcp
<1> QED BY <1>1, EndTypes, SentMessage DEF MapsInv

(* What a router keeps of its remotes when it is created.                   *)
LEMMA RegisteredEnds ==
  ASSUME NEW r \in Routers
  PROVE  /\ DOMAIN Registered(r) = DOMAIN Config[r]
         /\ DOMAIN RegisteredAt(r) = Ends
         /\ \A q \in DOMAIN Config[r] :
              LET c == Registered(r)[q].client
              IN  c = None \/ \E o \in Routers : c = Tcp(o, c[3])
         /\ \A e \in Ends : LET q == RegisteredAt(r)[e]
                            IN  \/ q = NoName
                                \/ /\ q \in DOMAIN Config[r]
                                   /\ Static(r, q) /\ RegisteredEnd(r, q) = e
  BY DEF Registered, RegisteredAt, Tcp

LEMMA WorldStep == WorldInv /\ [Next]_routerVars => WorldInv'
<1> SUFFICES ASSUME WorldInv, [Next]_routerVars PROVE WorldInv'
  OBVIOUS
<1>t. limit.events \in Nat /\ events \in Nat
  BY RouterAssumption DEF WorldInv
<1>1. CASE UNCHANGED world
  BY <1>1 DEF world, WorldInv
<1>2. ASSUME NEW r \in Routers, Release(r) PROVE WorldInv'
  BY <1>t, <1>2 DEF Release, WorldInv
<1>3. ASSUME NEW r \in Routers, Disconnect(r) PROVE WorldInv'
  BY <1>t, <1>3 DEF Disconnect, WorldInv
<1>4. ASSUME NEW r \in Routers, NEW a \in Pool[r], Move(r, a) PROVE WorldInv'
  BY <1>t, <1>4 DEF Move, WorldInv
<1>5. ASSUME NEW r \in Routers, NEW q, Connect(r, q) PROVE WorldInv'
  BY <1>t, <1>5 DEF Connect, WorldInv
<1> QED BY <1>1, <1>2, <1>3, <1>4, <1>5
    DEF Next, Start, Create, Capture, KeepAlive, Receive, Drop, routerVars

(* A step that changes no map and sends from ends of routers.               *)
LEMMA EndsKept ==
  ASSUME EndsInv, UNCHANGED <<remotes, remoteAt>>,
         \A m \in net' \ net : m.by \in Routers /\ m.from \in Ends
  PROVE  EndsInv'
  BY DEF EndsInv

LEMMA TargetsAreRemotes ==
  ASSUME NEW r \in Routers, NEW source, NEW p
  PROVE  Targets(r, source, p) \ {Device} \subseteq DOMAIN Config[r] \ {source}
  BY RouterAssumption DEF Targets, Applied, OtherTargets

LEMMA ForwardEnds ==
  ASSUME MapsInv, NEW r \in Routers, NEW source, NEW p, NEW path, NEW n,
         n \subseteq net, Forward(r, source, p, path, n), UNCHANGED node
  PROVE  EndsInv'
<1>1. ASSUME NEW m \in net' \ net PROVE m.by \in Routers /\ m.from \in Ends
  <2>1. PICK packet \in Incoming(r, source, p) :
          \E q \in Targets(r, source, packet) \ {Device} : m \in Sends(r, q, "packet", packet, path)
    BY <1>1, Forwarded
  <2>2. PICK q \in DOMAIN Config[r] : m \in Sends(r, q, "packet", packet, path)
    BY <2>1, TargetsAreRemotes
  <2> QED BY <2>2, SentEnds
<1> QED BY <1>1, EndsKept DEF MapsInv, node

LEMMA HeardEnd ==
  ASSUME NEW remote, NEW e \in Ends
  PROVE  LET h == Heard(remote, e)
         IN  /\ \/ h.client = None /\ h.address = e
                \/ h.client = e /\ h.address = None
             /\ h.client = None \/ \E o \in Routers : h.client = Tcp(o, h.client[3])
<1>1. CASE e[1] = "udp"
  BY <1>1 DEF Heard
<1>2. CASE e[1] = "tcp"
  BY <1>2, EndKinds DEF Heard
<1> QED BY <1>1, <1>2, EndKinds

LEMMA MapsStep == MapsInv /\ [Next]_routerVars => MapsInv'
<1> SUFFICES ASSUME MapsInv, [Next]_routerVars PROVE EndsInv'
  BY WorldStep DEF MapsInv
<1>t. EndsInv
  BY DEF MapsInv
<1>1. ASSUME NEW r \in Routers, NEW p, Capture(r, p) PROVE EndsInv'
  BY <1>1, ForwardEnds DEF Capture
<1>2. ASSUME NEW r \in Routers, NEW q \in DOMAIN Config[r], KeepAlive(r, q) PROVE EndsInv'
  <2>1. \A m \in net' \ net : m.by \in Routers /\ m.from \in Ends
    BY <1>2, SentOver, SentEnds DEF KeepAlive
  <2> QED BY <1>t, <1>2, <2>1, EndsKept DEF KeepAlive, node
<1>3. ASSUME NEW r \in Routers, NEW m \in net, NEW again \in BOOLEAN, Receive(r, m, again)
      PROVE  EndsInv'
  <2> DEFINE n == IF again THEN net ELSE net \ {m}
  <2>1. CASE ReceiveKeepAlive(r, m) /\ net' = n
    <3>1. CASE m.by \notin DOMAIN Config[r]
      BY <1>t, <2>1, <3>1, EndsKept DEF ReceiveKeepAlive
    <3>2. CASE m.by \in DOMAIN Config[r]
      <4>1. m.from \in Ends
        BY <1>t DEF EndsInv
      <4>2. remoteAt' = [remoteAt EXCEPT ![r][m.from] = m.by]
        BY <2>1, <3>2 DEF ReceiveKeepAlive
      <4>3. \/ remotes' = remotes
            \/ remotes' = [remotes EXCEPT ![r][m.by] = Heard(@, m.from)]
        BY <2>1, <3>2 DEF ReceiveKeepAlive
      <4>4. /\ DOMAIN remotes' = Routers /\ \A s \in Routers : DOMAIN remotes'[s] = DOMAIN Config[s]
            /\ \A s \in Routers : \A q \in DOMAIN Config[s] :
                 \/ remotes'[s][q] = remotes[s][q]
                 \/ remotes'[s][q] = Heard(remotes[s][q], m.from)
        BY <1>t, <3>2, <4>3 DEF EndsInv
      <4>5. \A s \in Routers : \A q \in DOMAIN Config[s] :
              LET c == remotes'[s][q].client
              IN  c = None \/ \E o \in Routers : c = Tcp(o, c[3])
        BY <1>t, <4>1, <4>4, HeardEnd DEF EndsInv
      <4>6. /\ DOMAIN remoteAt' = Routers
            /\ \A s \in Routers : /\ DOMAIN remoteAt'[s] = Ends
                                 /\ \A e \in Ends : remoteAt'[s][e] \in DOMAIN Config[s] \cup {NoName}
        BY <1>t, <3>2, <4>1, <4>2 DEF EndsInv
      <4> QED BY <1>t, <2>1, <4>4, <4>5, <4>6 DEF EndsInv
    <3> QED BY <3>1, <3>2
  <2>2. CASE ReceivePacket(r, m, n)
    BY <1>t, <2>2, ForwardEnds, EndsKept DEF ReceivePacket, node
  <2> QED BY <1>3, <2>1, <2>2 DEF Receive
<1>4. ASSUME NEW r \in Routers, Create(r) PROVE EndsInv'
  BY <1>t, <1>4, RegisteredEnds DEF Create, EndsInv
<1>5. ASSUME UNCHANGED <<remotes, remoteAt>>, net' \subseteq net PROVE EndsInv'
  BY <1>t, <1>5, EndsKept
<1> QED BY <1>1, <1>2, <1>3, <1>4, <1>5
    DEF Next, Start, Release, Disconnect, Move, Connect, Drop, node, routerVars

LEMMA MapsInit == Init => MapsInv
<1> SUFFICES ASSUME Init PROVE MapsInv
  OBVIOUS
<1>1. WorldInv
  BY RouterAssumption DEF Init, WorldInv
<1>2. EndsInv
  BY RegisteredEnds DEF Init, EndsInv
<1> QED BY <1>1, <1>2 DEF MapsInv

LEMMA MapsInductive == Spec => []MapsInv
  BY MapsInit, MapsStep, PTL DEF Spec

-----------------------------------------------------------------------------
(* What passes a device that translates *)

(* What was brought stays brought.                                          *)
LEMMA AskedKept ==
  ASSUME brought \subseteq brought'
  PROVE  \A p : Asked(p) => Asked(p)'
  BY DEF Asked

(* A step that brings nothing to a device.                                  *)
LEMMA SendersLess ==
  ASSUME SendersInv, UNCHANGED <<brought, lan>>,
         DOMAIN parts' = DOMAIN parts, DOMAIN flows' = DOMAIN flows,
         \A r \in Routers : parts'[r] \subseteq parts[r] /\ flows'[r] \subseteq flows[r],
         \A m \in net' \ net : m.method = "packet" => IsPacket(m.packet) /\ Asked(m.packet)
  PROVE  SendersInv'
<1>1. \A p : Asked(p)' <=> Asked(p)
  BY DEF Asked
<1>2. FlowInv'
  BY RouterAssumption DEF SendersInv, FlowInv
<1>3. PartsInv'
  BY <1>1 DEF SendersInv, PartsInv
<1>4. PacketInv'
  BY <1>1 DEF SendersInv, PacketInv
<1>5. SendersOnly'
  BY DEF SendersInv, SendersOnly
<1> QED BY <1>2, <1>3, <1>4, <1>5 DEF SendersInv

(* What a device transmits of a packet: that one, or what it made with its  *)
(* other part, or the translation of it.                                   *)
LEMMA Transmitted ==
  ASSUME NEW r, NEW p, IsPacket(p), WriteToDevice(r, p)
  PROVE  \/ lan' = lan
         \/ \E e : /\ lan' = lan \cup {e} /\ e.at = r /\ e.packet.dst = p.dst
                   /\ e.packet.src = IF r \in UseNat /\ p.dst # All THEN r ELSE p.src
<1>1. CASE r \in UseNat /\ p.dst # All /\ lan' # lan
  <2> DEFINE port == IF p.part = 2 THEN p.port ELSE p.src
             out == [p EXCEPT !.src = r, !.port = port]
             e == [at |-> r, packet |-> out]
  <2>1. lan' = lan \cup {e}
    BY <1>1 DEF WriteToDevice, WriteTranslated, Transmit
  <2>2. out.src = r /\ out.dst = p.dst
    <3> HIDE DEF port
    <3> QED BY TranslatedPacket
  <2>3. e.at = r /\ e.packet = out
    OBVIOUS
  <2> HIDE DEF e, out
  <2> QED BY <1>1, <2>1, <2>2, <2>3
<1>2. CASE ~(r \in UseNat /\ p.dst # All) /\ lan' # lan
  <2> DEFINE out == IF r \in Mtu /\ p.part # 0 THEN [p EXCEPT !.part = 0] ELSE p
             e == [at |-> r, packet |-> out]
  <2>1. lan' = lan \cup {e}
    BY <1>2 DEF WriteToDevice, Transmit
  <2>2. out.src = p.src /\ out.dst = p.dst
    BY WholePacket
  <2>3. e.at = r /\ e.packet = out
    OBVIOUS
  <2> HIDE DEF e, out
  <2> QED BY <1>2, <2>1, <2>2, <2>3
<1> QED BY <1>1, <1>2

(* The device gets a packet that was asked for, if it had to be: a port is  *)
(* opened for who sends what is brought.                                   *)
LEMMA WriteSenders ==
  ASSUME FlowInv, PartsInv, SendersOnly,
         NEW r \in Routers, NEW p, IsPacket(p), Asked(p), WriteToDevice(r, p)
  PROVE  FlowInv' /\ PartsInv' /\ SendersOnly' /\ brought \subseteq brought'
<1> DEFINE b == [at |-> r, packet |-> p]
<1>1. brought' = brought \cup {b} /\ b.at = r /\ b.packet = p
  BY DEF WriteToDevice
<1>2. \A x : Asked(x) => Asked(x)'
  BY <1>1, AskedKept
<1>3. \/ flows' = flows
      \/ p.dst # All /\ flows' = [flows EXCEPT ![r] = @ \cup {p.src}]
  BY DEF WriteToDevice, WriteTranslated
<1>4. /\ DOMAIN parts' = Routers
      /\ \A q \in Routers : parts'[q] \subseteq parts[q] \cup {p}
  BY DEF WriteToDevice, PartsInv
<1> HIDE DEF b
<1>5. PartsInv'
  BY <1>2, <1>3, <1>4 DEF PartsInv
<1>6. FlowInv'
  <2> SUFFICES ASSUME NEW q \in UseNat, NEW h \in flows'[q]
               PROVE  \E f \in brought' : f.at = q /\ f.packet.src = h /\ f.packet.dst # All
    BY DEF FlowInv
  <2>1. q \in Routers
    BY RouterAssumption
  <2>2. CASE h \in flows[q]
    BY <1>1, <2>2 DEF FlowInv
  <2>3. CASE h \notin flows[q]
    <3>1. q = r /\ h = p.src /\ p.dst # All
      BY <1>3, <2>1, <2>3 DEF PartsInv
    <3> QED BY <1>1, <3>1
  <2> QED BY <2>2, <2>3
<1>7. SendersOnly'
  <2> SUFFICES ASSUME NEW x \in lan', LanOf[x.packet.src] \in UseNat \ {x.at}
               PROVE  \E f \in brought' : /\ f.at = LanOf[x.packet.src]
                                          /\ f.packet.src = x.packet.dst
                                          /\ f.packet.dst # All
    BY DEF SendersOnly
  <2>1. CASE x \in lan
    BY <1>1, <2>1 DEF SendersOnly
  <2>2. CASE x \notin lan
    <3>1. /\ x.at = r /\ x.packet.dst = p.dst
          /\ x.packet.src = IF r \in UseNat /\ p.dst # All THEN r ELSE p.src
      BY <2>2, Transmitted
    <3>2. x.packet.src = p.src
      BY <3>1, RouterAssumption
    <3> QED BY <1>1, <3>1, <3>2 DEF Asked
  <2> QED BY <2>1, <2>2
<1> QED BY <1>1, <1>5, <1>6, <1>7

(* A packet from behind a device that translates goes on only to who has a  *)
(* port there; any other one goes on as it came.                           *)
LEMMA ForwardSenders ==
  ASSUME SendersInv, NEW r \in Routers, NEW source, NEW p, NEW path, NEW n,
         IsPacket(p), n \subseteq net,
         source = Device => LanOf[p.src] = r,
         source # Device => Asked(p),
         Forward(r, source, p, path, n)
  PROVE  SendersInv'
<1>1. ASSUME NEW packet \in Incoming(r, source, p)
      PROVE  IsPacket(packet) /\ Asked(packet)
  <2>1. /\ IsPacket(packet) /\ packet.src = p.src
        /\ ~Translates(r, source) => packet = p
        /\ Translates(r, source) => packet.dst \in flows[r]
    BY <1>1, IncomingPacket
  <2>2. CASE source # Device
    BY <2>1, <2>2 DEF Translates
  <2>3. CASE source = Device /\ r \notin UseNat
    BY <2>1, <2>3 DEF Asked
  <2>4. CASE source = Device /\ r \in UseNat
    BY <2>1, <2>4 DEF Translates, Asked, SendersInv, FlowInv
  <2> QED BY <2>1, <2>2, <2>3, <2>4
<1>2. CASE UNCHANGED device /\ net' = n
  BY <1>2, SendersLess DEF device
<1>3. ASSUME NEW packet \in Incoming(r, source, p),
             \A m \in net' \ n : \E q \in Targets(r, source, packet) \ {Device} :
               m \in Sends(r, q, "packet", packet, path)
      PROVE  \A m \in net' \ net : m.packet = packet
  BY <1>3, SentMessage
<1>4. ASSUME NEW packet \in Incoming(r, source, p), \A m \in net' \ net : m.packet = packet,
             UNCHANGED device
      PROVE  SendersInv'
  BY <1>1, <1>4, SendersLess DEF device
<1>5. ASSUME NEW packet \in Incoming(r, source, p), \A m \in net' \ net : m.packet = packet,
             WriteToDevice(r, packet)
      PROVE  SendersInv'
  <2>1. FlowInv' /\ PartsInv' /\ SendersOnly' /\ brought \subseteq brought'
    BY <1>1, <1>5, WriteSenders DEF SendersInv
  <2>2. PacketInv'
    BY <1>1, <1>5, <2>1, AskedKept DEF SendersInv, PacketInv
  <2> QED BY <2>1, <2>2 DEF SendersInv
<1> QED BY <1>2, <1>3, <1>4, <1>5, Forwarded

LEMMA SendersInductive == Spec => []SendersInv
<1>1. Init => SendersInv
  BY RouterAssumption DEF Init, SendersInv, FlowInv, PartsInv, PacketInv, SendersOnly
<1>2. MapsInv /\ SendersInv /\ [Next]_routerVars => SendersInv'
  <2> SUFFICES ASSUME MapsInv, SendersInv, [Next]_routerVars PROVE SendersInv'
    OBVIOUS
  <2>1. ASSUME UNCHANGED device, \A m \in net' \ net : m.method # "packet" PROVE SendersInv'
    BY <2>1, SendersLess DEF device
  <2>2. ASSUME NEW r \in Routers, NEW p \in Packets, Capture(r, p) PROVE SendersInv'
    BY <2>2, ForwardSenders, RouterAssumption DEF Capture
  <2>3. ASSUME NEW r \in Routers, NEW q \in DOMAIN Config[r], KeepAlive(r, q) PROVE SendersInv'
    <3>1. \A m \in net' \ net : m.method # "packet"
      BY <2>3, SentOver, SentMessage DEF KeepAlive
    <3> QED BY <2>1, <2>3, <3>1 DEF KeepAlive
  <2>4. ASSUME NEW r \in Routers, NEW m \in net, NEW again \in BOOLEAN, Receive(r, m, again)
        PROVE  SendersInv'
    <3> DEFINE n == IF again THEN net ELSE net \ {m}
    <3>1. CASE ReceiveKeepAlive(r, m) /\ net' = n
      BY <2>1, <3>1 DEF ReceiveKeepAlive
    <3>2. CASE ReceivePacket(r, m, n)
      <4>1. IsPacket(m.packet) /\ Asked(m.packet)
        BY <3>2 DEF ReceivePacket, SendersInv, PacketInv
      <4>2. CASE RemoteOf(r, m) # NoName /\ RemoteOf(r, m) # Device
        BY <3>2, <4>1, <4>2, ForwardSenders DEF ReceivePacket
      <4>3. CASE RemoteOf(r, m) = NoName
        BY <2>1, <3>2, <4>3 DEF ReceivePacket
      <4>4. RemoteOf(r, m) # Device
        BY RouterAssumption DEF RemoteOf, MapsInv, EndsInv, NoName, Device
      <4> QED BY <4>2, <4>3, <4>4
    <3> QED BY <2>4, <3>1, <3>2 DEF Receive
  <2>5. ASSUME NEW r \in Routers, Create(r) PROVE SendersInv'
    BY <2>5, SendersLess DEF Create, SendersInv, PartsInv
  <2>6. CASE UNCHANGED <<device, net>>
    BY <2>1, <2>6
  <2>7. ASSUME NEW m \in net, Drop(m) PROVE SendersInv'
    BY <2>1, <2>7 DEF Drop
  <2> QED BY <2>2, <2>3, <2>4, <2>5, <2>6, <2>7
      DEF Next, Start, Release, Disconnect, Move, Connect, routerVars
<1> QED BY <1>1, <1>2, MapsInductive, PTL DEF Spec

(* A packet from behind a device that translates reaches no host but one,   *)
(* of which a packet for a host was brought to that device before, whatever  *)
(* the routes say, and wherever fragments are combined.                     *)
THEOREM OnlySendersAreReached == Spec => []SendersOnly
<1>1. SendersInv => SendersOnly
  BY DEF SendersInv
<1> QED BY <1>1, SendersInductive, PTL

-----------------------------------------------------------------------------
(* The network that a packet is written to *)

(* If routes to the device for destinations elsewhere come after others     *)
(* that stop, the targets of a packet have the device only at home.        *)
LEMMA DeviceTarget ==
  ASSUME DeviceRoutesAreOwn, NEW r \in Routers, NEW source, NEW p, p.dst # All,
         Device \in Targets(r, source, p)
  PROVE  LanOf[p.dst] = r
<1>1. PICK i \in Applied(r, source, p) : Device \in Routes[r][i].targets
  BY DEF Targets, OtherTargets
<1>2. i \in DOMAIN Routes[r] /\ Matches(Routes[r][i], p)
  BY DEF Applied
<1>3. \A j \in DOMAIN Routes[r] :
        j < i /\ Matches(Routes[r][j], p) => ~Stops(Routes[r][j], source)
  BY DEF Applied
<1>4. SUFFICES ASSUME LanOf[p.dst] # r PROVE FALSE
  OBVIOUS
<1>5. StopsBefore(r, i, p.dst)
  BY <1>1, <1>2, <1>4 DEF DeviceRoutesAreOwn, Matches
<1>6. PICK j \in DOMAIN Routes[r] :
        /\ j < i /\ Routes[r][j].break /\ p.dst \in Routes[r][j].dst
        /\ Routes[r][i].src \subseteq Routes[r][j].src
        /\ Routes[r][i].kinds \subseteq Routes[r][j].kinds
        /\ Routes[r][i].ports \subseteq Routes[r][j].ports
  BY <1>5 DEF StopsBefore
<1>7. Matches(Routes[r][j], p)
  BY <1>2, <1>6 DEF Matches
<1> QED BY <1>3, <1>6, <1>7 DEF Stops

LEMMA ForwardOwn ==
  ASSUME DeviceRoutesAreOwn, OwnNetwork, NEW r \in Routers, NEW source, NEW p, NEW path, NEW n,
         IsPacket(p), Forward(r, source, p, path, n)
  PROVE  OwnNetwork'
<1>1. CASE UNCHANGED lan
  BY <1>1 DEF OwnNetwork
<1>2. ASSUME NEW packet \in Incoming(r, source, p), WriteToDevice(r, packet), lan' # lan,
             Device \in Targets(r, source, packet)
      PROVE  OwnNetwork'
  <2>1. IsPacket(packet)
    BY <1>2, IncomingPacket
  <2>2. PICK e : lan' = lan \cup {e} /\ e.at = r /\ e.packet.dst = packet.dst
    BY <1>2, <2>1, Transmitted
  <2>3. packet.dst # All => LanOf[packet.dst] = r
    BY <1>2, DeviceTarget
  <2> QED BY <2>2, <2>3 DEF OwnNetwork
<1> QED BY <1>1, <1>2, Forwarded DEF device

(* A packet is written to the network of its destination and to no other:   *)
(* a route that stops does so also when it sends the packet nowhere, so a   *)
(* packet for another network does not fall through to the device.         *)
THEOREM WrittenToOwnNetwork ==
  ASSUME DeviceRoutesAreOwn
  PROVE  Spec => []OwnNetwork
<1>1. Init => OwnNetwork
  BY DEF Init, OwnNetwork
<1>2. MapsInv /\ SendersInv /\ OwnNetwork /\ [Next]_routerVars => OwnNetwork'
  <2> SUFFICES ASSUME MapsInv, SendersInv, OwnNetwork, [Next]_routerVars PROVE OwnNetwork'
    OBVIOUS
  <2>1. ASSUME NEW r \in Routers, NEW p \in Packets, Capture(r, p) PROVE OwnNetwork'
    BY <2>1, ForwardOwn, RouterAssumption DEF Capture
  <2>2. ASSUME NEW r \in Routers, NEW m \in net, NEW n, ReceivePacket(r, m, n) PROVE OwnNetwork'
    <3>1. IsPacket(m.packet)
      BY <2>2 DEF ReceivePacket, SendersInv, PacketInv
    <3>2. CASE RemoteOf(r, m) # NoName
      BY <2>2, <3>1, <3>2, ForwardOwn DEF ReceivePacket
    <3>3. CASE RemoteOf(r, m) = NoName
      BY <2>2, <3>3 DEF ReceivePacket, device, OwnNetwork
    <3> QED BY <3>2, <3>3
  <2>3. CASE UNCHANGED lan
    BY <2>3 DEF OwnNetwork
  <2>4. ASSUME NEW r \in Routers, NEW m \in net, NEW again \in BOOLEAN, Receive(r, m, again)
        PROVE  OwnNetwork'
    <3> DEFINE n == IF again THEN net ELSE net \ {m}
    <3>1. ReceiveKeepAlive(r, m) \/ ReceivePacket(r, m, n)
      BY <2>4 DEF Receive
    <3> HIDE DEF n
    <3> QED BY <2>2, <2>3, <3>1 DEF ReceiveKeepAlive, device
  <2> QED BY <2>1, <2>3, <2>4
      DEF Next, Start, Release, Create, Disconnect, Move, Connect, KeepAlive,
          Drop, device, routerVars
<1> QED BY <1>1, <1>2, MapsInductive, SendersInductive, PTL DEF Spec

-----------------------------------------------------------------------------
(* A star of routers *)

(* The path of a packet that a second router takes.                         *)
LEMMA AppendedTo ==
  ASSUME NEW a, NEW b
  PROVE  Append(<<a>>, b) = <<a, b>>
<1> DEFINE s == Append(<<a>>, b)
           t == <<a, b>>
<1>1. <<a>> \in Seq({a, b}) /\ t \in Seq({a, b})
  OBVIOUS
<1>2. s \in Seq({a, b}) /\ Len(s) = 2 /\ s[1] = a /\ s[2] = b
  BY <1>1
<1>3. Len(t) = 2 /\ t[1] = a /\ t[2] = b
  OBVIOUS
<1> HIDE DEF s, t
<1>4. \A i \in 1 .. Len(s) : s[i] = t[i]
  BY <1>2, <1>3
<1>5. s = t
  BY <1>1, <1>2, <1>3, <1>4, SeqEqual
<1> QED BY <1>5 DEF s, t

(* An end at which a router hears somebody is nobody else's.                *)
LEMMA EndOfOne ==
  ASSUME NEW hub \in Routers, Star(hub), NEW r, NEW e \in Ends,
         NEW q \in Routers, NEW s \in Routers, EndOf(hub, r, e, q), EndOf(hub, r, e, s)
  PROVE  q = s
  BY DEF EndOf, Star, Udp

(* What a router sends goes to the one it is for, from an end that is the   *)
(* sender's.                                                               *)
LEMMA StarSent ==
  ASSUME MapsInv, NEW hub \in Routers, Star(hub), StarInv(hub),
         NEW r \in Routers, NEW q \in DOMAIN Config[r], NEW method, NEW packet, NEW path,
         NEW m \in Sends(r, q, method, packet, path),
         method = "packet" =>
           IF r = hub THEN path = <<hub>> \/ \E o \in Routers \ {hub, q} : path = <<o, hub>>
           ELSE path = <<r>>
  PROVE  StarMessage(hub, m)
<1>1. /\ m.by = r /\ m.for = q /\ m.method = method /\ m.path = path
      /\ \/ /\ m.chan = remotes[r][q].address /\ m.chan # None
            /\ m.from = Udp(address[r])
         \/ LET c == remotes[r][q].client
            IN  /\ c # None /\ link[c[2]] # 0
                /\ m.chan = Tcp(c[2], link[c[2]])
                /\ m.from = IF c[2] = r THEN Tcp(r, link[r]) ELSE Tcp(c[2], 0)
  BY SentMessage
<1>2. q \in Routers /\ q # r /\ (r = hub \/ q = hub)
  BY RouterAssumption DEF Star
<1>3. StarRemote(hub, r, q, remotes[r][q])
  BY DEF StarInv
<1>4. address[r] \in Pool[r]
  BY DEF MapsInv, WorldInv
<1>5. EndOf(hub, q, m.from, r)
  BY <1>1, <1>2, <1>3, <1>4 DEF EndOf, StarRemote, Udp, Tcp
<1>6. m.chan[1] = "udp" => \E a \in Pool[q] : m.chan = Udp(a)
  BY <1>1, <1>3 DEF StarRemote, Tcp
<1> QED BY <1>1, <1>5, <1>6 DEF StarMessage

(* The remotes that a router is created with.                               *)
LEMMA StarRegistered ==
  ASSUME NEW hub \in Routers, Star(hub), NEW r \in Routers
  PROVE  /\ \A q \in DOMAIN Config[r] : StarRemote(hub, r, q, Registered(r)[q])
         /\ \A e \in Ends : RegisteredAt(r)[e] # NoName => EndOf(hub, r, e, RegisteredAt(r)[e])
<1>1. ASSUME NEW q \in DOMAIN Config[r] PROVE StarRemote(hub, r, q, Registered(r)[q])
  BY <1>1 DEF StarRemote, Registered, Star, Tcp
<1>2. ASSUME NEW e \in Ends, RegisteredAt(r)[e] # NoName
      PROVE  EndOf(hub, r, e, RegisteredAt(r)[e])
  <2> DEFINE q == RegisteredAt(r)[e]
  <2>1. q \in DOMAIN Config[r] /\ Static(r, q) /\ RegisteredEnd(r, q) = e
    BY <1>2, RegisteredEnds
  <2> HIDE DEF q
  <2>2. EndOf(hub, r, e, q)
    <3>1. CASE Config[r][q].tcp
      BY <2>1, <3>1 DEF EndOf, Star, RegisteredEnd, Tcp
    <3>2. CASE ~Config[r][q].tcp
      BY <2>1, <3>2 DEF EndOf, Star, RegisteredEnd, Static, Udp
    <3> QED BY <3>1, <3>2
  <2> QED BY <2>2 DEF q
<1> QED BY <1>1, <1>2

(* A message arrives at the router it is for, which hears its sender.       *)
LEMMA StarArrival ==
  ASSUME MapsInv, NEW hub \in Routers, Star(hub), StarInv(hub),
         NEW r \in Routers, NEW m \in net, ArrivesAt(m, r)
  PROVE  /\ m.for = r /\ m.by \in Routers /\ m.from \in Ends
         /\ EndOf(hub, r, m.from, m.by)
         /\ RemoteOf(r, m) # NoName => RemoteOf(r, m) = m.by
<1>1. StarMessage(hub, m) /\ m.by \in Routers /\ m.from \in Ends
  BY DEF StarInv, MapsInv, EndsInv
<1>2. m.for \in Routers
  BY <1>1, RouterAssumption DEF StarMessage
<1>3. m.for = r
  <2>1. CASE m.chan[1] = "udp"
    <3>1. m.chan = Udp(address[r]) /\ address[r] \in Pool[r]
      BY <2>1 DEF ArrivesAt, MapsInv, WorldInv
    <3>2. PICK a \in Pool[m.for] : m.chan = Udp(a)
      BY <1>1, <2>1 DEF StarMessage
    <3>3. a = address[r]
      BY <3>1, <3>2 DEF Udp
    <3> QED BY <1>2, <3>1, <3>2, <3>3 DEF Star
  <2>2. CASE m.chan[1] # "udp"
    BY <2>2 DEF ArrivesAt
  <2> QED BY <2>1, <2>2
<1>4. EndOf(hub, r, m.from, m.by)
  BY <1>1, <1>3 DEF StarMessage
<1>5. RemoteOf(r, m) # NoName => RemoteOf(r, m) = m.by
  <2> DEFINE s == RemoteOf(r, m)
  <2>1. s # NoName => s \in Routers /\ EndOf(hub, r, m.from, s)
    BY <1>1, RouterAssumption DEF RemoteOf, MapsInv, EndsInv, StarInv
  <2> HIDE DEF s
  <2>2. s # NoName => s = m.by
    BY <1>1, <1>4, <2>1, EndOfOne
  <2> QED BY <2>2 DEF s
<1> QED BY <1>1, <1>3, <1>4, <1>5

LEMMA StarKept ==
  ASSUME NEW hub, StarInv(hub), UNCHANGED <<remotes, remoteAt>>,
         \A m \in net' \ net : StarMessage(hub, m)
  PROVE  StarInv(hub)'
<1>1. \A m \in net' : StarMessage(hub, m)'
  BY DEF StarInv, StarMessage, EndOf
<1>2. \A r \in Routers :
       /\ \A q \in DOMAIN Config[r] : StarRemote(hub, r, q, remotes[r][q])'
       /\ \A e \in Ends : (remoteAt[r][e] # NoName => EndOf(hub, r, e, remoteAt[r][e]))'
  BY DEF StarInv, StarRemote, EndOf
<1> QED BY <1>1, <1>2 DEF StarInv

LEMMA StarForward ==
  ASSUME MapsInv, NEW hub \in Routers, Star(hub), StarInv(hub),
         NEW r \in Routers, NEW source, NEW p, NEW path, NEW n,
         n \subseteq net, Forward(r, source, p, path, n), UNCHANGED node,
         \A q \in DOMAIN Config[r] \ {source} :
           IF r = hub THEN path = <<hub>> \/ \E o \in Routers \ {hub, q} : path = <<o, hub>>
           ELSE path = <<r>>
  PROVE  StarInv(hub)'
<1>1. ASSUME NEW m \in net' \ net PROVE StarMessage(hub, m)
  <2>1. PICK packet \in Incoming(r, source, p) :
          \E q \in Targets(r, source, packet) \ {Device} : m \in Sends(r, q, "packet", packet, path)
    BY <1>1, Forwarded
  <2>2. PICK q \in DOMAIN Config[r] \ {source} : m \in Sends(r, q, "packet", packet, path)
    BY <2>1, TargetsAreRemotes
  <2> QED BY <2>2, StarSent
<1> QED BY <1>1, StarKept DEF node

(* What is heard of a remote puts it where its message came from.           *)
LEMMA StarHeard ==
  ASSUME MapsInv, NEW hub \in Routers, Star(hub), StarInv(hub),
         NEW r \in Routers, NEW m \in net, ArrivesAt(m, r), ReceiveKeepAlive(r, m),
         m.by \in DOMAIN Config[r], net' \subseteq net
  PROVE  StarInv(hub)'
<1>a. m.from \in Ends /\ EndOf(hub, r, m.from, m.by)
  BY StarArrival
<1>1. /\ \/ remotes' = remotes
         \/ remotes' = [remotes EXCEPT ![r][m.by] = Heard(@, m.from)]
      /\ remoteAt' = [remoteAt EXCEPT ![r][m.from] = m.by]
  BY DEF ReceiveKeepAlive
<1>2. \A s \in Routers : \A q \in DOMAIN Config[s] :
        \/ remotes'[s][q] = remotes[s][q]
        \/ s = r /\ q = m.by /\ remotes'[s][q] = Heard(remotes[s][q], m.from)
  BY <1>1 DEF MapsInv, EndsInv
<1>3. ASSUME NEW remote PROVE StarRemote(hub, r, m.by, Heard(remote, m.from))
  <2> DEFINE h == Heard(remote, m.from)
  <2>1. CASE m.from[1] = "udp"
    <3>1. h.client = None /\ h.address = m.from
      BY <2>1 DEF Heard
    <3>2. \E a \in Pool[m.by] : m.from = Udp(a)
      BY <1>a, <2>1 DEF EndOf
    <3> HIDE DEF h
    <3> QED BY <3>1, <3>2 DEF StarRemote, h
  <2>2. CASE m.from[1] # "udp"
    <3>1. m.from[1] = "tcp" /\ h.client = m.from /\ h.address = None
      BY <1>a, <2>2, EndKinds DEF Heard
    <3>2. m.from[2] = IF r = hub THEN m.by ELSE r
      BY <1>a, <2>2 DEF EndOf
    <3> HIDE DEF h
    <3> QED BY <3>1, <3>2 DEF StarRemote, h
  <2> QED BY <2>1, <2>2
<1>4. \A s \in Routers : \A q \in DOMAIN Config[s] : StarRemote(hub, s, q, remotes'[s][q])
  BY <1>2, <1>3 DEF StarInv
<1>5. \A s \in Routers : \A e \in Ends :
        \/ remoteAt'[s][e] = remoteAt[s][e]
        \/ s = r /\ e = m.from /\ remoteAt'[s][e] = m.by
  BY <1>1 DEF MapsInv, EndsInv
<1>6. \A s \in Routers : \A e \in Ends :
        remoteAt'[s][e] # NoName => EndOf(hub, s, e, remoteAt'[s][e])
  BY <1>a, <1>5 DEF StarInv
<1>7. \A x \in net' : StarMessage(hub, x)
  BY DEF StarInv
<1> QED BY <1>4, <1>6, <1>7 DEF StarInv, StarMessage, StarRemote, EndOf

LEMMA StarStep ==
  ASSUME NEW hub \in Routers, Star(hub), MapsInv, StarInv(hub), [Next]_routerVars
  PROVE  StarInv(hub)'
<1>1. ASSUME NEW r \in Routers, NEW p \in Packets, Capture(r, p) PROVE StarInv(hub)'
  BY <1>1, StarForward DEF Capture
<1>2. ASSUME NEW r \in Routers, NEW q \in DOMAIN Config[r], KeepAlive(r, q) PROVE StarInv(hub)'
  <2>1. ASSUME NEW m \in net' \ net PROVE StarMessage(hub, m)
    <3>1. m \in Sends(r, q, "keepalive", NoPacket, << >>)
      BY <1>2, <2>1, SentOver DEF KeepAlive
    <3> QED BY <3>1, StarSent
  <2> QED BY <1>2, <2>1, StarKept DEF KeepAlive, node
<1>3. ASSUME NEW r \in Routers, NEW m \in net, NEW again \in BOOLEAN, Receive(r, m, again)
      PROVE  StarInv(hub)'
  <2> DEFINE n == IF again THEN net ELSE net \ {m}
  <2>1. ArrivesAt(m, r)
    BY <1>3 DEF Receive
  <2>2. CASE ReceiveKeepAlive(r, m) /\ net' = n
    <3>1. CASE m.by \notin DOMAIN Config[r]
      BY <2>2, <3>1, StarKept DEF ReceiveKeepAlive
    <3>2. CASE m.by \in DOMAIN Config[r]
      BY <2>1, <2>2, <3>2, StarHeard
    <3> QED BY <3>1, <3>2
  <2>3. CASE ReceivePacket(r, m, n)
    <3>1. CASE RemoteOf(r, m) = NoName
      BY <2>3, <3>1, StarKept DEF ReceivePacket, node
    <3>2. CASE RemoteOf(r, m) # NoName
      <4>1. m.for = r /\ RemoteOf(r, m) = m.by /\ m.by \in Routers
        BY <2>1, <3>2, StarArrival
      <4>2. StarMessage(hub, m) /\ m.method = "packet"
        BY <2>3 DEF StarInv, ReceivePacket
      <4>3. ASSUME NEW q \in DOMAIN Config[r] \ {m.by}
            PROVE  r = hub /\ m.by # hub /\ q # hub /\ q \in Routers
        BY <4>1, <4>2, <4>3, RouterAssumption DEF StarMessage, Star
      <4> DEFINE path == Append(m.path, r)
      <4>4. \A q \in DOMAIN Config[r] \ {m.by} :
              IF r = hub THEN path = <<hub>> \/ \E o \in Routers \ {hub, q} : path = <<o, hub>>
              ELSE path = <<r>>
        <5> SUFFICES ASSUME NEW q \in DOMAIN Config[r] \ {m.by}
                     PROVE  r = hub /\ \E o \in Routers \ {hub, q} : path = <<o, hub>>
          OBVIOUS
        <5>1. m.path = <<m.by>>
          BY <4>2, <4>3 DEF StarMessage
        <5>2. Append(<<m.by>>, hub) = <<m.by, hub>>
          BY AppendedTo
        <5>3. path = <<m.by, hub>>
          BY <4>3, <5>1, <5>2
        <5> QED BY <4>1, <4>3, <5>3
      <4>5. Forward(r, m.by, m.packet, path, n) /\ UNCHANGED node /\ n \subseteq net
        BY <2>3, <3>2, <4>1 DEF ReceivePacket
      <4> HIDE DEF path, n
      <4> QED BY <4>4, <4>5, StarForward
    <3> QED BY <3>1, <3>2
  <2> QED BY <1>3, <2>2, <2>3 DEF Receive
<1>4. ASSUME NEW r \in Routers, Create(r) PROVE StarInv(hub)'
  <2>1. /\ remotes' = [remotes EXCEPT ![r] = Registered(r)]
        /\ remoteAt' = [remoteAt EXCEPT ![r] = RegisteredAt(r)] /\ net' = net
    BY <1>4 DEF Create
  <2>2. \A s \in Routers : \A q \in DOMAIN Config[s] : StarRemote(hub, s, q, remotes'[s][q])
    BY <2>1, StarRegistered DEF StarInv, MapsInv, EndsInv
  <2>3. \A s \in Routers : \A e \in Ends :
          remoteAt'[s][e] # NoName => EndOf(hub, s, e, remoteAt'[s][e])
    BY <2>1, StarRegistered DEF StarInv, MapsInv, EndsInv
  <2> QED BY <2>1, <2>2, <2>3 DEF StarInv, StarMessage, StarRemote, EndOf
<1>5. ASSUME UNCHANGED <<remotes, remoteAt>>, net' \subseteq net PROVE StarInv(hub)'
  BY <1>5, StarKept
<1> QED BY <1>1, <1>2, <1>3, <1>4, <1>5
    DEF Next, Start, Release, Disconnect, Move, Connect, Drop, node, routerVars

(* In a star of routers no packet comes back to a router that it has        *)
(* passed, whatever the routes say, and however routers move, stop, are     *)
(* created again and lose their connections: the interface that a message   *)
(* came from is always found, and left out.                                *)
THEOREM NoLoopInStar ==
  ASSUME NEW hub \in Routers, Star(hub)
  PROVE  Spec => []LoopFree
<1>1. Init => StarInv(hub)
  BY StarRegistered DEF Init, StarInv
<1>2. MapsInv /\ StarInv(hub) /\ [Next]_routerVars => StarInv(hub)'
  BY StarStep
<1>3. MapsInv /\ StarInv(hub) => LoopFree
  <2> SUFFICES ASSUME MapsInv, StarInv(hub), NEW m \in net, m.method = "packet",
                      m.for \in Range(m.path)
               PROVE  FALSE
    BY DEF LoopFree
  <2>1. StarMessage(hub, m) /\ m.by \in Routers
    BY DEF StarInv, MapsInv, EndsInv
  <2>2. m.for # m.by /\ (m.by = hub => m.for # hub) /\ (m.by # hub => m.for = hub)
    BY <2>1 DEF StarMessage, Star
  <2>3. CASE m.by = hub
    BY <2>1, <2>2, <2>3 DEF StarMessage, Range
  <2>4. CASE m.by # hub
    BY <2>1, <2>2, <2>4 DEF StarMessage, Range
  <2> QED BY <2>3, <2>4
<1> QED BY <1>1, <1>2, <1>3, MapsInductive, PTL DEF Spec

=============================================================================
