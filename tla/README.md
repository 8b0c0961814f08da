# SLibx: specifications, model checking and proofs

TLA+ modules for SLibx (`src/`), a C++ library of network and application
components. This project states what its concurrent and distributed parts
promise, model-checks them on small instances with TLC and proves the most
important results for every instance with TLAPS.

Run everything from this directory:

    tlc -workers 2 -config MCHns.cfg MCHns          # and so on, see "Runs"
    tlapm HnsProofs.tla
    tlapm P2PSwitchProofs.tla
    tlapm TcpDatagramProofs.tla
    tlapm SRouterProofs.tla
    tlapm StreamerProofs.tla
    tlapm SecureFilePackageProofs.tla
    tlapm DbIpProofs.tla
    tlapm SAppProofs.tla                            # about ten minutes

`PROJECT.json` lists the components, the runs, the mutants that show that each
property can fail, the source lines of each definition, the findings and the
hazards that the properties are for.

## Inventory

Paths are below `src/src/slibx/`, headers below `src/inc/slibx/`.

**HNS service** (`p2p/p2p_hns_service.cpp`). A host name service over UDP.
State: `m_sessions` (session id to session), `m_mapClientSessions` (client id
to session), a static id counter, the address of each session. Operations:
initialize a session, keep alive, query a host, relay a message, relay a
broadcast, start, release. One thread receives; each Initialize Session and
each broadcast gets a thread of its own. Each map locks a call, nothing locks
two. Hard: those threads, restarts that lose every session, moving clients.
Correct when a session id means one client for ever, when whatever was answered
can be served, when queries name the address last heard, and when a message
reaches only whom it was sent to.

**HNS client** (`p2p/p2p_hns_client.cpp`). State: session id, time of the last
packet of the service. `runStep` sends a keep alive or asks for a session;
packets name the session, deliver messages or ask to connect again. Hard: late
and repeated answers, timeouts. Correct when it always comes back to be served.

**P2P switch** (`p2p/p2p_switch.cpp`). State: `m_hosts` with their direct and
turning (relayed) sessions and addresses for hole punching,
`m_sessionsDirectUdp` by id, services whose host names are resolved every ten
seconds, one HNS client per address. An interval thread pings, queries and
punches; a receiving thread registers hosts and sessions. It calls the HNS
client and is called back by it. Hard: session ids that the peer chose and
loses when it starts again, addresses that change hands, the lock held by
`release` while it waits for threads that take it, work done before the lock.
Correct when a message reaches only whom it was sent to, when a switch gets to
reach its peers whatever they do, when removed services and hosts stay
removed, and when `release` ends (the last two are not modelled).

**TCP datagrams** (`snet/snet_datagram.cpp`). `DatagramSerializer` cuts a
stream into datagrams; `TcpDatagramClient` keeps a connection, with automatic
reconnection; `TcpDatagramServer` accepts clients and keeps them in a map.
Three threads meet in the client and the server: the I/O loop, the timer and
the application. Correct when datagrams come whole and in order, when there is
one connection and one receive request, when an automatic client comes back,
and when the server's map has open clients only and no open client is lost.

**Software router** (`snet/srouter.cpp`). Interfaces (a device on its own
network, and remotes, which are other routers), routes, ARP proxies. Remotes
are found by socket address or by TCP client, and keep alives add to both
maps. It uses TCP datagrams for its remotes. Hard: messages lost, late and
repeated, routers that move, are released and created again, connections that
break. Correct when a packet takes the routes that match up to a break, never
comes round, when a device that translates lets packets out only to hosts that
sent something from behind it, and when a remote is sent to where it is.

**Country lookup** (`snet/snet_dbip.cpp`). Ranges and binary search. Correct
when it finds the range that holds an address.

**Streamer** (`streamer/`). A graph's thread pulls packets from a source through
filters to a sink; error-correction filters send the last packets again; the
network source has a queue of 1000 and an event. Hard: `release` and `start`
against the thread, several threads in one filter without a lock, one event for
many packets, a network that loses, repeats and reorders. Correct when a packet
is passed over only if all of its copies were lost, when no packet waits for a
thread that waits, and when nothing reaches the sink after `release`.

**Secure file package** (`sfile/secure_file_pack.cpp`). Builds, lists, searches
and extracts an encrypted package. Hard: sources that change while they are
packed, a writer that stops anywhere, lengths of names, sizes of 64 bits that
are read as an `int`. Correct when an index names what was written, the search
finds it and an extraction that returns true has written it.

**SApp compiler** (`sdev/`). `SAppDocument` reads the raw files, images and XML
of an application into registries, generates C++ from them and simulates
layouts in windows. Sequential. Hard: errors that leave half of the registries
or of the generated files, nested menus with platforms, names that refer to
other views, imported layouts that are processed within others. Correct when a
generation that succeeds is one whole, and when menus, layouts and their
simulation agree with the document.

**Certificate** (`soc/`) is an empty class.

## Modules

| Module | Models | Proofs |
| --- | --- | --- |
| `Hns` | one HNS service and its clients over UDP | `HnsProofs` |
| `P2PSwitch` | one switch on each host, its sessions and messages | `P2PSwitchProofs` |
| `HnsRelay` | abstract: what is promised of messages | refined by `Hns` and `P2PSwitch` |
| `Udp` | the network of `Hns` and `P2PSwitch`: the variable `net` | |
| `MCP2PSwitch` | homes and symmetry for the instances of `P2PSwitch` | |
| `MCHns` | symmetry for the instances of `Hns` | |
| `DatagramSerializer` | building and parsing over one connection | `TcpDatagramProofs` |
| `DatagramChannel` | abstract: datagrams whole, in order, once | refined by `DatagramSerializer` |
| `TcpDatagramClient` | the life of a client: loop, timer, application | `TcpDatagramProofs` |
| `TcpDatagramServer` | the server's map and the life of its clients | `TcpDatagramProofs` |
| `MCTcp` | client, serializer and server, each a part of one model | |
| `SRouter` | routers joined through each other: remotes, routes, NAT | `SRouterProofs` |
| `MCSRouter` | three routers, their routes and packets | |
| `SAppResources` | how files become registries: images, strings, drawables, menus | `SAppProofs` |
| `SAppLayouts` | how an element becomes a layout's items | `SAppProofs` |
| `SAppDocument` | the document: reading, generation, simulation | `SAppProofs` |
| `MCSAppDocument` | the projects on disk | |
| `SecureFilePackage` | writing, opening, searching and extracting a package | `SecureFilePackageProofs` |
| `DbIp` | reading of ranges and the lookup | `DbIpProofs` |
| `Streamer` | error correction, the source's queue, the graph | `StreamerProofs` |
| `MCLibrary` | document, package, lookup and stream, each a part of one model | |

### Hns

`sessions` and `mapClientSessions` are the two maps, `lastSessionId` the
counter with `now` the clock that seeds it, `init` the threads between writing
the two maps, `broadcasts` the threads that relay. A client has `sessionId`
and `recent` (its last packet came less than the timeout ago), and its address
is `<<client, port>>`. `net` is a set of packets: one may be lost, taken in any
order, and, with `Repeats`, taken again.

Each handler is one action, but Initialize Session with no session is two:
`CreateSession` (lookup, new id, put by id) and `PublishSession` (put by
client, answer), because another thread may look up in between. What a handler
sends is part of its action. History variables: `issued`, `sent`, `received`,
`heard`. A data packet carries the session it was written for, as history; the
real one does not.

Abstracted: encryption, nonces and checksums. Every session of a service has
the same key, so decryption tells no sessions apart. The threads that share
`m_iv` without a lock may produce a packet that does not hash; that is a lost
packet, or `RejectRequest` with its Error packet. Certificates and the
listener's authentication only drop a request, which is a loss.

Assumed, and not in the code: the clock is not set back and fewer than one
session per millisecond is created over the life of a process (`Restart` takes
`now` past every id issued); an address that a client left is not taken over
by another client; a `SocketAddress` is read and written whole, though the
service's threads write it without a lock.

### P2PSwitch

`hosts` are the keys of `m_hosts`. `sessions` are the direct sessions, in the
map by id and in the lists of their hosts, which are in the order of the ids:
`FirstConnected` is the one `_sendMessage` meets first. Of a session's time
only `recent` is kept, heard less than the timeout ago; `connected` is
`m_flagConnected`, which the interval thread sets later. A turning session has
no more than these two, hence `turnRecent` and `turnConnected`. `punching` is
`m_addressesUdpHolePunching`. `lastSessionId` is the static counter.

What one thread does with one packet, or the interval thread with the sessions
of one host, is one action. The keep-alive interval is free: `CheckHost` pings
any of the sessions that are not recent (`due`). The modes of `sendMessage` are
the disjuncts of `SendMessage`.

The services are abstract: a relayed message, as `HnsRelay` has it, may arrive
or not, and a query answers with the address of the host. The composition
rests on `HnsProofs`, where `Hns` implements `HnsRelay`. A session of every
host with every service is assumed; an address that a service answers late,
after the host moved, is covered by `punching`, which only grows.

Abstracted: checksums and xor; connection flags of a host and its best
sessions, which nothing reads; knocks on predicted ports, which lead to nobody;
all addresses in an answer but the one that leads to the host, as long as the
answer fits (`AnswerFits`). A broadcast ping or message is received by some and
lost by others, so each copy is an action. `Lans` are the networks a broadcast
ping reaches. `Restart` assumes nothing of the clock: ids go on or begin again.
An application that keeps a session after its host is gone is left out.

Not modelled: adding, removing and resolving services, and `release`. A
packet handled in one step hides `removeHost` between its parts, which is
left out.

### DatagramSerializer

Each turn of the loop of `parse` is an action, with the pieces the connection
delivers chosen freely. A byte has `Base` values and a length four bytes, the
least significant first, which hold every length up to `MaxLength`; the limits
of the two ends are constants and may differ. Running out of memory is left out.

### TcpDatagramClient

`socketConnect`, `socketMessage`, `flagOpened` are the members of that name.
What holds the object's lock is one action; `onConnect` writes without it, so
it is three (`Forget`, `Assign`, `PostReceive` or `ConnectFailed`). `timers`
counts the timeouts of `_reconnect` that have not fired. `receiving` counts
requests on each socket. `partial` says whose bytes the serializer holds.
`Sockets` are used again once nothing refers to them, so three suffice: the
one the loop is in, the one being connected and the one closed before it.

`AsyncTcpSocket` and its loop are outside `src/`. They are taken to refuse
requests on a closed socket, to complete each request once, and to answer in
order (`Answered`). The application of the model connects an idle client only;
`connect()` during an attempt forgets a socket, which is listed as a hazard.

### TcpDatagramServer

`clients` is `m_clients`; `state` says which of the client objects are open.
A client closes itself in its destructor, so an object that nobody refers to
(`Destroy`) is closed: references are the map, the loop's `onAccept`
(`accepting`) and the application (`held`). `onAccept` is four steps, `Accept`,
`PutClient`, `OnConnect` and `AcceptEnds`, and `close` is two, since the map
and `m_server` are not cleared together. The loop does one thing at a time:
while it accepts, an error of another client waits.

### MCTcp

The three TCP modules as the parts of one model; a behaviour is one of the part
it begins in. Fairness is that of the client; nothing it speaks of is enabled
in the other parts, where no client was connected. `SocketAssumption` and
`SizeAssumption` are evaluated for the instance.

### SRouter

`remotes` are the `SRouterRemote` objects of each router with their `m_address`
and `m_tcp`; `remoteAt` is both maps, by socket address and by TCP client, as
one function on the ends a message may come from (`Ends`). An end is a UDP
address, the `TcpDatagramClient` a router connects with, or the one that the
other's server made of its n-th connection; `link` numbers connections so that
a late message is not one of the next connection. `Sends` is
`_sendRemoteMessage`, which sends over both channels of a remote that has both.
A message carries the remote it is `for` and the `path` of its packet, as
history.

`Forward` is `forwardIPv4Packet` whole: translation of what comes in
(`Incoming`, the packets that it may go on as, none when it is dropped), the routes
up to one that breaks (`Applied`), and what is written to each target. `parts` is
`m_fragmentation` and `flows` is `m_nat`, where the port that NAT allots stands for
the host it is for. A packet has two fragments at most. The second has no
ports: NAT takes its data for one, which may be that of any open flow (`Open`).
`WriteToDevice` is `writeIPv4Packet` of the device, with its order kept. Fragments
wait for each other, where they expire, and go on as one packet; but a device that
translates copies the fragment that came last, not the packet that was put
together, and translates that. Translation may fail, and `Transmit`, the lookup of
a MAC address and the frame, may find none; then nothing is written, but a port
that was opened stays open. What a device does not do in the code, such as
combining where `mtu_outgoing` is not set, is not done here. History: `brought`, what
routes brought to devices; `lan`, what devices wrote; `sent`, what hosts sent.

`NatTable`, `IPv4Fragmentation` and the MAC table are outside `src/`. They are
taken to do no more than their use shows: a port leads back to the host it was
opened for, fragments of one packet are put together or expire, a lookup finds
an address or not. A packet that is longer than `mtu_outgoing` is written as
fragments of itself; that leaves its addresses as they are and is left out.
More messages than the bound `net` are lost.

`Release`, `Create` and `Start` are the program's; `Create` is a new router of
the same configuration. `Move` is the network's. Abstracted: encryption, which
only drops what does not decrypt, checksums, the names of devices and the
parsing of the configuration. Not modelled: ARP proxies and the Ethernet
forwarding of frames, the listener, the status.

### SAppResources, SAppLayouts, SAppDocument

A project is its directories, in the order the system lists them, and the
elements of its XML files. An element is a record of its tag, name, attributes
and children, and an attribute that refers to a resource has the name of it as
its value. The code reads by functions that call each other; the reader is their
work list. Its state is the registries, the menu and the layout that are being
read, and `todo`, the calls still to be made. `Turn` makes the first of them, which
returns with what it put into the registries (`Return`), is replaced by the calls
that it makes (`Make`), or ends the reading (`Refuse`): then nothing is left to do
and what was read before it stays, as in the code. `Read` is the reader after
`MaxCalls` turns. The items of a menu, and of a layout, are one list in the order
in which they are met, each with its depth; `Inside` is read off the depths.

`SAppResources` has the registration of raw files and images and the parsing of
everything but layouts. `IsRoot` is the comparison of a name with `'root'`, a
multi-character constant, as the libraries' `String` makes it; the theorems
suppose nothing of it. `SAppLayouts` has the parsing of a layout: names given
and generated, positions by rule (`AlignRules`), dimensions by unit, the font an
item inherits, which children of an element are views, and the test of a
layout's `sp` (`CheckSP`). Values are kept as far
as the properties tell them apart: of a dimension its unit, of the sides the
left one and the width, of the controls a group, a view, a scroll view, a tab
and an import.

`SAppDocument` has the state: `disk`, the registries, the generated files, what
was simulated. A generated file is the names it declares or defines, those it
refers to, whether its `#if`s are closed (`whole`), and the generation that
wrote it (`gen`). An item of a submenu that does not resolve is left out while
its `#if`, written before it, stays open (`LeftOpen`), so what follows it is
under that `#if` as well and the file is not whole. `GenerateCpp(k, header)` is
`generateCpp` with a write that fails behind the first k kinds. A simulation is
two passes, one that creates the views and one that lays them out. An import
runs passes of its own over the layout it names, so a pass has a stack of
frames, each with its layout, the item it has reached and how far it got with
it; `Step` is what the innermost does next, and `Pass` is where `MaxCalls` steps
lead. A pass keeps the views that each simulator has registered (`views`): one
that creates registers the view of an item by its name, behind those of the
items inside it; one that lays out finds the last view of a name (`Found`) and
ends where there is none, as in a layout of which the creation failed. So an
item may take the view of another item of its name (`mistaken`).
`m_layoutSimulationParams` is overwritten by the pass of an imported layout; of
its scaled pixel an `sp` given in `sp` leaves what an earlier pass left there
(`None`). An import of itself overflows the stack, and an import through the
view of an item that is none has no defined outcome (both are `crashed`).

Not modelled: the list of the windows that simulate, attributes of single
controls (they differ in name, not in how they are read), texts of values and
of code, logging, native windows.

### SecureFilePackage

`createFromFiles` is six actions, so that the sources may change (`Change`) or
the writer stop (`StopCreating`) between the header of a content, its content,
the header of the index and the index. A content is a block with the size in its
header, the version that was read and the size written; `ReadFile` reads as many
bytes as the size is when it is taken for an `int` (`Narrow`, with `IntRange`
values for 2^32), and on into what is behind when the content is short. An
extraction may be stopped by its progress behind any file (`done`), and nobody
asks whether a write failed (`failed`). A list said to be sorted, as `create`
says of what it takes from the directory, keeps its order (`Listed`); another is
sorted (`Sorted`). `Clip` is what the fixed field of an index keeps of a name;
`Garbled` are names with fewer characters than bytes, whose length the header
gives in bytes. `Index` shows what a reader sees of an index that is not there
or under another password. `FindFile` is the binary search with its own order,
in which '/' compares as a tab (`Order`).

### DbIp

`Search` is defined by what `BinarySearch::search`, outside `src/`, returns.
A turn of the loop of `create` takes one more line, with which the file may end
(`Create`), so every file of up to `MaxLines` lines of the pool occurs, in order
or not.

### Streamer

The sender's filter keeps the last `Level + 1` packets (`window`) and sends them
as one datagram; `net` never forgets one, so each may arrive any number of
times, late or never. `OnPacket` and `SetEvent` are the two calls of the
receiving callback; `OnPacket(d, n)` gets the first n packets of a datagram, since
what is longer than the buffer is cut. (The code cuts at a byte; a packet that is
cut in two does not parse, and the receiver has those before it.) A thread of
the graph waits, takes packets, takes the sink and then the filters (`TakeSink`,
`TakeFilters`). The receive filter is one for all threads and has no lock, so what
it does with a datagram is as many steps as it reads and writes
`m_lastReceivedPacketNumber`: three comparisons that each read it (`TestAhead`,
`TestBehind`, `TestZero`), `TakePacket`, which writes it whatever another thread has
written by then, and `EndDatagram`. `Send` gives the sink
what came out, `SendRaw` what no filter has seen. `release` clears sink and filters
and waits for the thread of the last `start`, in that order. History: `fed`, the
datagrams filtered since the last number went back, and `calm` of a thread's `work`,
that it has not gone back since this thread began with its datagram. Datagrams
arrive when all have been sent: as they arrive in any order, this leaves no
behaviour out but a sender that starts again in between.

### MCLibrary

Document, package, lookup and stream know nothing of each other; `part` chooses
one for a behaviour.

## Properties and runs

Every property of a passing run has a mutant in `PROJECT.json`: a small wrong
version of one definition, marked `Mutant` in the module, that violates it.

`hns` (two clients, two threads, session ids to 2, one move, one restart, two
packets in flight, one application request; 569 thousand states up to
symmetry).

- `SessionOwnership`: a session id held, or on its way, is never another
  client's, also after the service started again.
- `AnsweredIsRegistered`: what a client was answered with is in both maps.
- `QueryIsCurrent`: a client with one session is queried at its last address.
- `RelaySpec`: the service implements `HnsRelay`. Loss, repetition and
  reordering are allowed; a wrong target, a wrong sender, or a broadcast back to
  its sender is not.

Two session ids and two threads are what a race needs; one restart is what a
stale id needs; two packets in flight are a late answer and a new one.

`hns_live` (fairness below; a restart, four ids): `Reconnects`, every client
is served again and again. Requests on a lost session are not refused, so this
rests on the timeout alone: with `HasSession` in place of `Connected` a client
sends keep alives for ever.

`switch` (three switches, `a` and `b` on networks with `c`, one restart, ids to
2, one packet in flight, one message; 671 thousand states): `RelaySpec` over
direct sessions. One restart makes an id stale and has it issued again, to the
other peer: without the test of the source host, `c` passes on a message of one
host as the other's. `switch_services` (three switches, one service, two
edits): the same for messages, broadcasts and queries through a service, with
hosts added and removed. Addresses that change hands, several packets in flight
and repeated packets are left to the theorem, which has no bounds.

`switch_live` (two switches on one network, one move, one restart, one edit, ids to 4; 97
thousand states): `Reachable`, a host that the switch has gets to be reached
directly, over and over: what it sends on the session it takes now is
addressed to where the host is now and to a session the host has now. That
relates the states of two switches, of which either may have lost its own.

`tcp` (197 thousand states). The client with three sockets:
`OneConnection`, `OneReceive`, `ComesBack`. The serializer with two byte
values, four-byte lengths, contents to four bytes, two datagrams, a sender with
no limit and a receiver with one of three: `ChannelSpec` and `NothingHeldBack`.
Every cut within lengths and contents and across both datagrams occurs; three
bytes of content are needed for a content that comes in two parts before its
last one. The server with three clients: `ClientsAreOpen`, a client in the map
is open, and one that is open is in the map or still somebody's, so that it will
be closed. One client may be in `onAccept`, one held by the application and one
in the map alone.

`srouter` (236 thousand states). Router `a` knows `b` and `c` as dynamic remotes
and its device translates and combines fragments; `b` has two addresses to move
between; `c` is connected by UDP and TCP and combines fragments. Three mixtures
of packets, events (moves, releases, broken connections) and messages on their
way: three packets and one message, so that two fragments meet in the device
that translates and something comes back; one packet, one event and two
messages, so that a packet meets a move; two events and two messages.

- `LoopFree`: no router gets a packet that passed it. Nothing counts a time to
  live; it rests on the interface that the maps find for where a message came
  from, while both maps keep every end they ever had. The routes are those of a
  star, whose centre is `a`: with routes that form a circle nothing in the code
  would stop a packet.
- `OwnNetwork`: a packet is written to the network of its destination only. Each
  router has a last route for every host that those before it do not name, so
  it rests on a break that counts even when the route sends nothing.
- `SendersOnly`: a packet from behind a device that translates reaches no host
  but one of which a packet for a host was brought to that device before, and is
  no broadcast. It does not say that the two belong to one flow, because the code
  does not see to it: where a fragment has no ports, its data is taken for one.
  The mutant lets broadcasts pass
  translation.
- `Reaches`: a dynamic remote is sent to where it is, over and over, with the
  fairness below.

`library` (970 thousand states, about two minutes).

Of the document (some 460 projects and an edit): `BuiltWhole`, a
generation that succeeds on sound resources leaves no file of an earlier one,
and each source defines what its header declares and refers to nothing else;
`Sound` leaves out what `generateCpp` passes over in silence, images that do not
load and `#if`s that are not closed. `NewerFirst`: after a partial generation no
file is newer than one before it. `MenuItemsOnce`: in a file of menus whose `#if`s
are all closed, an item is compiled where its flags say, once under its name, and
the simulation shows none that is not. (Where an item of a submenu does not
resolve, the `#if` that it leaves open is around all that follows, and the file
does not compile: that is what `whole` says, and such projects occur.)
`SameNameOnlyNested`, `AlignedToEarlier`: what a name means and what a view is placed
by. `MistakenOnlyForOuter`: the view that a simulation takes for an item's is its own
or that of an item around it; only an item whose creation did not come to its end
may take one of those inside it. `MeasuredByOwn`: what an item measures by. Each
states the exception that the code makes. `MaxCalls` is 60, which
is enough for every project and every layout of the run: `ReadToTheEnd` and
`PassedToTheEnd`, which TLC evaluates, say that no reading and no pass is cut short.

Of the package (five names, of which one is clipped, one is garbled and three
differ in whether '/' or '.' comes first; two changes of the sources, two
passwords; an `int` of four values, -2 to 1, and sizes of 0, 1, 2 and 5, of which 2
reads as -2 and 5 as 1):
`FoundWhenOrdered`, `IndexedIsWritten`, `ExtractedInFull`. The last is of extractions
that return true and of contents that are not empty and whose size is an `int`: a
file of 2^31 bytes or more is left out or cut, and one whose write failed is
missing, and `extract` returns true all the same. Where sorting and
searching disagree on the order, a file may not be found, which
`FoundWhenOrdered` excludes by `InSearchOrder`.

Of the lookup (six lines, two families, every file of up to five):
`CountryIsOfTheRange` against the set of lines that hold the address. The last
range of a family answers for its first address only.

Of the stream (one level of correction, 1 for the 100 that a number may be behind and
a queue of 2 for 1000; five packets, of which the last is empty; five starts of the
sender and of the graph and arrivals in all, two threads): `GapMeansLoss`, a packet
is passed over only when no datagram that was filtered had it; `WakesForQueue`, no
datagram is left to threads that all wait; `OneRawPerThread` and
`QuietAfterRelease`, what reaches the sink around a release. `QuietAfterRelease` is of
a graph that was started once, since `release` waits for the last start only.
Packets 0 to 3 are not empty, and 1 and 2 have no empty one near them: with 0
before and 3 behind, both are passed over. A late number is passed by (0 behind
1) or, when it is far enough behind, taken for a new start (0 behind 2, as are the
numbers of a sender that started again); and two threads compare with the same
last number, of which the later one sets it back. A datagram that is cut counts
as none that was filtered.

Four runs show a disagreement and end with a counterexample:

- `hns_data`: `hns_service.h` gives each packet from the service the id of its
  session; the code does not write it. A client takes data of its earlier
  session (`DataIsOfTheSession`).
- `hns_address`: two threads create two sessions for one client, and Query
  Host then answers with the address of the one it abandoned
  (`ServedAddressIsCurrent`). `QueryIsCurrent` is the part that holds.
- `switch_answer`: the answer to a query for addresses may name 16, says
  `switch.h`; its writer stops at 64 bytes and a host with four addresses
  answers nothing (`AddressesAnswered`).
- `tcp_client_mixed`: the serializer is not cleared on reconnection, so one
  datagram is made of two connections' bytes (`WholeDatagrams`).

Deadlock is not checked: bounds on ids, requests, events and arrivals, a closed
client and a released graph stop the models.

### Fairness

`Hns`. `runStep` is called over and over by the switch's interval thread; a
step of it changes nothing while the network is full, so it is strongly fair.
So are the steps that take init requests and their answers: the network loses
packets, not all of those sent again and again. The service's threads and the
passing of the timeout are weakly fair. A packet nobody takes leaves the
network.

`P2PSwitch`. The interval thread of the switch `Here` goes round for ever: its
broadcast pings and its checks are taken again and again, and a round is short
next to the timeout, so a session heard in time is marked as connected before
it is not (strong fairness of `SendsPing` and `Connects`). Not all pings and
answers are lost (strong fairness of their receipt). A session that is not
heard times out (weak). Nothing is assumed of the interval threads of the
others, nor of the services. Messages of applications are bounded, and have to
be: direct messages keep a session alive whose address the peer has left, as
nobody looks at the address they come from.

`TcpDatagramClient`. The loop runs (weak fairness of its callbacks and of
completions) in the run `tcp`. A timer fires; of the attempts made again and
again not all fail to get a socket or a connection (strong fairness). Nothing is
assumed of the application.

`SRouter`. Fairness is stated where hosts send nothing (`Quiet`): packets change
no remote, no link and no address, so they cannot disturb what must come about.
What was released is created and started, and a connection is tried again
(weak, `Up`); what is on its way arrives or is lost (weak, `Leaves`); the timer
of the remotes runs, and of the keep alives sent again and again from one place
not all are lost (strong, `KeepAliveSent`, `KeepAliveArrives`).

## Proofs

`HnsProofs`, for all clients, messages, threads and bounds:

- `TypeCorrect`: `Spec => []TypeOK`.
- `OwnershipOfSessions`: `Spec => []SessionOwnership`. The property alone is not
  inductive: a stale id is harmless only because every id in the system was
  issued to its holder and the next id is above all of them. `IInv` says so:
  `IssuedInv` (ids issued are positive, below the next and of one client),
  `SessionInv` (whoever holds an id was issued it; the maps agree on clients),
  `NetInv` (so does each packet) and `RelayInv`. `IssuedInv` holds across
  `Restart` because the counter goes on or the clock has passed it.
- `ImplementsRelay`: `Spec => RelaySpec`; each step is a step of `HnsRelay` or a
  stutter, by `NetInv` and `RelayInv`.
- `AnsweredSessions`: `Spec => []AnsweredIsRegistered`. `AnswerIInv` adds to `IInv`
  that every session the service holds was issued since it started
  (`CurrentInv`), and that an id is carried by a packet, in either direction, or
  held by a client only after both maps have it (`AnsweredInv`): what is written
  between the two maps is with the thread alone.
- `QueriesAreCurrent`: `Spec => []QueryIsCurrent`. `AddressIInv` adds that two threads
  never initialize one session, and that the only session of a client stays
  where its thread created it until that thread publishes it (`ThreadInv`); so
  does `QueryInv`, the property over sets of sessions in place of their number.

`P2PSwitchProofs`, for all hosts, addresses, networks, services and bounds:

- `TypeCorrect`: `Spec => []TypeOK`, with session ids up to the counter.
- `ImplementsRelay`: `Spec => RelaySpec`. `IInv` adds `NetInv`: a message on its
  way was handed over by its source for its target. Ids and addresses need no
  invariant, because the receiver tests the target and the source of a direct
  message against itself and its session; the mutant `ReceiveFromAnyone` shows
  that the second test carries the proof.

Both have lemmas on `Udp` (`SendNet`, `ReplyNet`): a step leaves in the network
nothing but what was there and what it sends.

`TcpDatagramProofs`. Of the client, for any set of sockets:

- `TypeCorrect`: `Spec => []TypeOK`.
- `NeverTwoConnections`, `NeverTwoReceives`: `IInv` adds `Referenced` (a socket
  that is not closed is referred to by the client or by the loop's callback;
  an open client has no closed socket for its connection) and `Requests` (who
  is about to ask for data has not asked). `Answered`, the order of the loop,
  is used where a completion of an old socket would otherwise meet a new one.

Of the server, for any set of clients and a `NoClient` that is none of them:

- `ServerKeepsOpenClients`: `ClientsAreOpen` always holds. `ServerInv` adds that
  the client `onAccept` is about to put in the map is open and nobody else's
  (`AcceptedIsOpen`), that what is held was accepted once (`HeldWereAccepted`), and
  that between two `onAccept` an open client is in the map or held
  (`IdleOwnsNothing`). The first is why the order of `put` and `onConnect` matters:
  the mutant `PutLater` puts a client in the map that its listener may have
  closed.

Of the serializer, for any base, limits and number of datagrams, whatever the
pieces a connection delivers:

- `SerializerImplementsChannel`: `SerializerSpec => ChannelSpec`, the refinement.
  The parser keeps bytes, the channel datagrams, so `SerializerInv` says that
  there is a `rest`, where `rest[k]` is what follows the k-th datagram in the
  sender's stream (`Framed`), and that the bytes kept, those of the piece and those
  not given yet are the `rest` of what was parsed (`HeldInv`). With it each turn of
  the loop is a stutter, and the end of `parse` takes the datagrams that come next.
- `NothingIsHeldBack`: `NothingHeldBack`, from the same invariant. Lengths come
  back as they were written by arithmetic (`WriteLengthFacts`).

`SRouterProofs`, for all routers, routes, packets, flows and bounds under
`RouterAssumption`, which says that a router is no device, has the address it
begins with, and has routes to its device and its remotes only:

- `OnlySendersAreReached`: `SendersOnly`. `SendersInv` says that a port is open for
  a host only when a packet of it was brought to the device (`FlowInv`), and that
  every packet on its way and every fragment that is kept was `Asked` for, that is,
  is for such a host if it comes from behind a device that translates (`PartsInv`,
  `PacketInv`). The fragments are why the property is not inductive alone: what
  is put together leaves long after it came. It holds whichever devices
  translate and combine, and whatever translation, the MAC table or the expiry of
  fragments drops.
- `WrittenToOwnNetwork`: `OwnNetwork` for routes that are `DeviceRoutesAreOwn`: one to
  the device for a destination elsewhere comes after one that stops whatever it
  matches. The code leaves the routes to the configuration; without this a
  route could name the device for any destination. The proof shows that the
  turns of `Forward` keep to it, so that a break counts even when its route sends
  nothing.
- `NoLoopInStar`: `LoopFree` for routers in a star (`Star(hub)`): each knows the hub
  only, and UDP addresses do not change hands between routers. `StarInv` says
  that an end in the maps is one of the remote that it names, although maps keep
  every end, and that a message comes from such an end, so that the hub knows
  whom a packet came from and a packet has passed one router and the hub at most. Any
  packets, moves, releases and broken connections, in any number. In a circle of routers
  packets do come round; the code has nothing against it, and the theorem
  supposes none.

`MCSRouter` has TLC evaluate `Star("a")` and `DeviceRoutesAreOwn` for the routers of the
run, so both theorems speak of it.

`StreamerProofs`, for all levels, queue sizes and bounds:

- `StreamWakesForQueue`: by `EventForQueue`, which speaks of all threads, those not
  started included: a datagram that comes before the first start leaves the
  event set.
- `StreamGaps`: `GapMeansLoss`. `GapInv` says that what the sender repeats, what is on
  its way, in the queue or with a thread is a run of consecutive packets up to
  the one that was new, or the first part of it (`SentInv`, `ArrivedInv`); that what
  a thread has parsed of its datagram is not beyond the last number, unless that
  has gone back meanwhile (`WorkInv`, `ParsedInv`); and that a filtered datagram does
  not end beyond it either, unless an empty packet ended its parsing (`FedInv`).
  Any number of threads may be in the one filter, each between its comparison and
  its write: the last number then goes back at most, which the history `fed`
  and `calm` notice. `StreamAssumption` says that level, sizes and packet numbers
  are natural numbers.
- `StreamOneRaw`, for a finite set of threads: `OneRawPerThread`, by `RawInv`: once the
  filters have gone so has the sink, so what reaches it unfiltered and the
  threads about to send (`Filtering`) are no more than the threads that were started.
- `StreamQuiet`, for a finite set of numbered threads: `QuietAfterRelease`, because a
  graph that was started once has one thread, which is the one `release` waits for.

`SecureFilePackageProofs`, for any finite set of names, any lists, sizes and passwords:

- `IndexIsWritten`: `IndexedIsWritten`. `PackageInv` says that while a package is
  written its lists so far agree one to one with its contents
  (`ListsOneToOne`), that every content is whole but the last one of a `CopyFile`
  under way, and that the source read then is a file (`JobInv`), whatever changes meanwhile.
- `ExtractionIsFull`: `ExtractedInFull`, for any range of an `int` and any sizes, from
  the same invariant and the facts that a size that is an `int` stays what it is
  (`FittingIsKept`) and that `Extract` is the only step that writes to the target.
- `SearchFinds`: `FoundWhenOrdered`. `Find` is a recursive function on intervals, which
  narrow (`HalfFacts`): that it is defined (`FindExists`), that what it finds has the name
  (`FindIsOfName`) and that an entry of the name stays in the interval until it is
  found (`FindInOrder`) are shown for a narrowest interval where they would fail
  (`LeastNumber`). `SearchAssumption` says that `SearchOrder` orders all the names
  that an index may have.

`DbIpProofs`, for any lines and addresses:

- `CountryIsFound`: `CountryIsOfTheRange`, from `ListsInv` (a family's list has the
  lines of the file that are whole and its own). Where the search ends is the
  least index that is not below the address, which is there because the
  order of numbers is well-founded (`LeastNumber`); so the range before it is the
  only one that may hold the address.

`SAppProofs`, for any projects, edits, elements and bounds:

- `DocumentNewerFirst`: `NewerFirst`, by `GenInv`: no file is of a generation to come.
- `DocumentSameNameOnlyNested`, `DocumentAlignedToEarlier`: what holds of every document
  that can be read (`ReadOK`), at whatever turn the reading ends, holds always
  (`ResInv`). The reader keeps `ReaderInv` at each turn (`ReaderTurn`, one lemma for
  each call). Names are the hard part, as an item is in the list before its name is
  in use: `LayoutInv` says that the calls to come belong to items that are still
  open and are in the order of their depths, deepest first (`DeepestFirst`,
  `InsideFirst`, `OutsideBehind`); that the name of an item is in use or to be
  entered, behind all that is inside the item (`Entering`, `NamesToCome`); and
  that a name in use is of an item that nothing to come is inside of
  (`NamesAreLeft`). So an item that takes a name, or refers to one, is
  either inside of the other or met after it was left.
- `DocumentMenuItemsOnce`: `MenuItemsOnce`, by `MenuInv`: the items read so far are limited
  to the platforms of those around them, and names in use on a platform are those of
  its items (`MenuOK`, `MenuReading`). Around an item there is one chain of submenus,
  and along it the platforms only get fewer, so the `#if`s that are left out leave
  the item where its own flags say. In a file that is whole no item of a submenu
  fails to resolve, so no other `#if` is around an item (`OnFacts`).
- `DocumentBuiltWhole`: `BuiltWhole`. `ResOK` says that the raw file of each image is
  registered; that a generation came to its end says that no kind failed, which
  with `Sound` gives every reference its declaration.
- `DocumentMeasuredByOwn`: `MeasuredByOwn`, for layouts that import each other to any
  depth. `SimInv` says that every pass but the innermost waits at an import, and
  that the parameters are the innermost's own unless it has met an import already
  (`FramesOK`, `ByOwn`); `SimulatedInv` relates what was measured to the document.
- `DocumentMistakenOnlyForOuter`: `MistakenOnlyForOuter`, from the same two invariants
  (`MistakenOK`). That two items of one name are one inside the other
  (`DocumentSameNameOnlyNested`), and that views are registered from the inside out,
  make the view found the outermost of those that exist (`FoundFacts`).

What a reading or a pass is after n turns is a recursive function; that it is
defined, and that each turn keeps the invariant, is shown at the least number
where it would fail, as for the search of a package. The theorems hold of every
`MaxCalls`, hence of readings that are cut short anywhere too. All but the first
suppose `AutoNamesDiffer`: the names that the code makes for items without one
differ when their numbers do. They are a prefix and the digits of a number, but
the prover knows no string by its letters; TLC evaluates it for the numbers of
the run (`MadeNamesDiffer`).

The only assumptions are those on constants: `BoundAssumption`,
`SocketAssumption`, `SizeAssumption`, `RouterAssumption`, `PackageAssumption`,
`SearchAssumption`, `StreamAssumption`, `LineAssumption`, `MaxCallsAssumption`,
`ElementsAssumption`, `StylesAssumption` and `ProjectsAssumption` (an element's children
are a list of elements, and so on), which TLC evaluates, and those that a theorem
states. The inductive invariants of the theorems were also checked by TLC, on the
instances above, but for `SerializerInv`, whose `rest` is not bounded.

With these, every property that a passing run checks is a theorem but for liveness
(`Reconnects`, `Reachable`, `ComesBack`, `Reaches`), which the prover does not reach.
It is only model-checked. Those runs need the bounds on restarts, moves and messages
that the section on properties names.

## Not modelled

- Services of a switch that are added, removed and resolved again, and
  `release` against its threads. Two hazards name what may go wrong there: `release`
  waits with the lock held for a thread that takes it, and a service that was
  removed may get its connection back. They need the receiving and the interval
  thread split between every two locks, in a module of its own.
- `connect()` of a client while a connection is being made, which forgets a
  socket; `OneConnection` does not hold with it.
- Of the router: ARP proxies, forwarding of Ethernet frames, the listener, the
  status, the splitting of what leaves a device into fragments, and the parsing of
  the configuration.
- Of the streamer: audio devices and Opus, which are drivers and a codec, and the
  filter that checks a hash, which drops a packet as the network does.
- Of the SApp compiler: the attributes of single controls, the text of values and
  of code, native windows. They are long, alike and sequential; their state is
  one item's attributes.
- Of the SApp compiler, the list of the windows that simulate layouts.
  `_closeAllSimulationWindows` closes each window of a locked list and then empties
  it, while a window that closes takes itself out of it. Whether `close` calls
  `onClose` within the loop, and what a locked list does when it is changed, is
  decided by the libraries, which are not in the repository; a model that left it
  open would allow everything, and one that chose would show its own choice.
- The certificate class, which is empty.

Some hazards have no property, and `PROJECT.json` says why at each: those of the
parts above, and a few that the models reach and the code allows. A client that
is closed within `onConnect` may keep an open socket; pings of a direct session
stop while messages keep it alive; a second `start` of a graph outlives its
`release`; errors of single drawables and menu items are passed over. The
properties that come near them state these as exceptions.
