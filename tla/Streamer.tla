------------------------------ MODULE Streamer ------------------------------
(***************************************************************************)
(* A stream over UDP: the error correction of a sender, the queue of a     *)
(* network source, and the graph whose thread takes packets from it through *)
(* the filters to the sink, until release.                                  *)
(* A packet is its number, the run of the sender that gave it, and whether *)
(* it is empty; a datagram is the sequence of packets it repeats.          *)
(***************************************************************************)
EXTENDS Integers, FiniteSets, Sequences, SequencesExt

CONSTANTS
  Level,         \* of error correction
  Behind,        \* 100: how far back a number is that starts anew
  QueueSize,     \* 1000: of the source's queue
  MaxPackets,    \* bound: packets of a run
  MaxEvents,     \* bound: starts of the sender and of the graph, and
                 \* datagrams that arrive
  EmptyNumbers,  \* the numbers of the packets that are empty
  Threads        \* starts of the graph, as they are numbered

ASSUME StreamAssumption ==
  {Level, Behind, QueueSize} \subseteq Nat /\ EmptyNumbers \subseteq Nat

VARIABLES
  number, run, window,     \* the send filter: m_lastSentPacketNumber, m_packetsSend
  net,                     \* the datagrams that were sent: each may arrive any
                           \* number of times, late or never
  arrivals,                \* a bound
  adding,                  \* onPacket, between the queue and the event
  queue, event,            \* m_queue, m_event
  sink, filters,           \* whether m_sink and m_filters are set
  thread,                  \* what each thread is about to do
  held,                    \* the datagram that it has taken
  work,                    \* how many of its packets are parsed, what is taken of
                           \* them, and whether m_lastReceivedPacketNumber has not
                           \* gone back since (history)
  releasing,               \* what release is about to do
  last,                    \* m_lastReceivedPacketNumber, and the run it is of
  fed,                     \* datagrams filtered since that went back (history)
  delivered,               \* packets that reached the sink (history)
  raw                      \* datagrams that did so unfiltered (history)

sender == <<number, run, window>>
netSource == <<net, arrivals, adding, queue, event>>
graph == <<sink, filters, thread, held, work, releasing>>
receiver == <<last, fed, delivered, raw>>
stVars == <<sender, netSource, graph, receiver>>

NoDatagram == << >>
NoWork == [at |-> 0, out |-> {}, calm |-> FALSE]

Started == {t \in Threads : thread[t] # "none"}

MoreEvents == run + Cardinality(Started) + arrivals < MaxEvents

-----------------------------------------------------------------------------
(* The sender and the network *)

LastN(s, n) == IF Len(s) <= n THEN s ELSE SubSeq(s, Len(s) - n + 1, Len(s))

(* Mutant: one packet less is repeated.                                    *)
PushShort(packets, p) == LastN(Append(packets, p), Level)

(* m_packetsSend.push(packet, m_level + 1)                                 *)
Push(packets, p) == LastN(Append(packets, p), Level + 1)

SendPacket ==
  LET p == [num |-> number, run |-> run, empty |-> number \in EmptyNumbers]
  IN /\ number < MaxPackets
     /\ number' = number + 1
     /\ window' = Push(window, p)
     /\ net' = net \cup {window'}
     /\ UNCHANGED <<run, arrivals, adding, queue, event, graph, receiver>>

RestartSender ==
  /\ MoreEvents /\ arrivals = 0
  /\ run' = run + 1
  /\ number' = 0
  /\ window' = << >>
  /\ UNCHANGED <<netSource, graph, receiver>>

(* Datagrams arrive in any order, so it takes nothing away to let the first *)
(* arrive when all have been sent.                                         *)
AllSent == number = MaxPackets

(* A datagram longer than the buffer of the source's thread is cut: of its  *)
(* packets, the first n are left.  onPacket: a queue that is full loses its *)
(* oldest.                                                                  *)
OnPacket(d, n) ==
  /\ ~adding
  /\ AllSent /\ MoreEvents
  /\ arrivals' = arrivals + 1
  /\ adding' = TRUE
  /\ queue' = LastN(Append(queue, SubSeq(d, 1, n)), QueueSize)
  /\ UNCHANGED <<sender, net, event, graph, receiver>>

SetEvent ==
  /\ adding
  /\ adding' = FALSE
  /\ event' = TRUE
  /\ UNCHANGED <<sender, net, arrivals, queue, graph, receiver>>

-----------------------------------------------------------------------------
(* The graph *)

Start(t) ==
  /\ sink /\ MoreEvents
  /\ thread[t] = "none" /\ \A u \in Threads : u < t => thread[u] # "none"
  /\ thread' = [thread EXCEPT ![t] = "wait"]
  /\ UNCHANGED <<sender, netSource, sink, filters, held, work, releasing, receiver>>

(* run: wait resets the event; then packets are taken until there is none.  *)
Wait(t) ==
  /\ thread[t] = "wait" /\ event
  /\ event' = FALSE
  /\ thread' = [thread EXCEPT ![t] = "receive"]
  /\ UNCHANGED <<sender, net, arrivals, adding, queue, sink, filters, held, work, releasing, receiver>>

ReceivePacket(t) ==
  /\ thread[t] = "receive"
  /\ IF queue = << >>
     THEN thread' = [thread EXCEPT ![t] = "wait"] /\ UNCHANGED <<queue, held>>
     ELSE /\ thread' = [thread EXCEPT ![t] = "feed"]
          /\ held' = [held EXCEPT ![t] = Head(queue)]
          /\ queue' = Tail(queue)
  /\ UNCHANGED <<sender, net, arrivals, adding, event, sink, filters, work, releasing, receiver>>

(* feedPacket takes the sink first, *)
TakeSink(t) ==
  /\ thread[t] = "feed"
  /\ thread' = [thread EXCEPT ![t] = IF sink THEN "filter" ELSE "receive"]
  /\ UNCHANGED <<sender, netSource, sink, filters, held, work, releasing, receiver>>

(* and then the filters: those it finds are used, whatever becomes of them. *)
(* With none left, the datagram itself is for the sink.                     *)
TakeFilters(t) ==
  /\ thread[t] = "filter"
  /\ IF filters
     THEN /\ thread' = [thread EXCEPT ![t] = "parse"]
          /\ work' = [work EXCEPT ![t] = [NoWork EXCEPT !.calm = TRUE]]
     ELSE thread' = [thread EXCEPT ![t] = "raw"] /\ UNCHANGED work
  /\ UNCHANGED <<sender, netSource, sink, filters, held, releasing, receiver>>

Current(t) == held[t][work[t].at + 1]

More(t) == work[t].at < Len(held[t]) /\ ~Current(t).empty

(* The receive filter parses the packets of a datagram in turn, up to an     *)
(* empty one, and takes those that are ahead of the last number, or far      *)
(* behind it, or any when it is 0.  It is one for all threads and has no     *)
(* lock: each reads the last number for each comparison,                    *)
TestAhead(t) ==
  /\ thread[t] = "parse" /\ More(t)
  /\ thread' = [thread EXCEPT ![t] = IF Current(t).num > last.num THEN "take" ELSE "behind"]
  /\ UNCHANGED <<sender, netSource, sink, filters, held, work, releasing, receiver>>

TestBehind(t) ==
  /\ thread[t] = "behind"
  /\ thread' = [thread EXCEPT ![t] = IF Current(t).num + Behind < last.num THEN "take" ELSE "zero"]
  /\ UNCHANGED <<sender, netSource, sink, filters, held, work, releasing, receiver>>

TestZero(t) ==
  /\ thread[t] = "zero"
  /\ thread' = [thread EXCEPT ![t] = IF last.num = 0 THEN "take" ELSE "parse"]
  /\ work' = IF last.num = 0 THEN work ELSE [work EXCEPT ![t].at = @ + 1]
  /\ UNCHANGED <<sender, netSource, sink, filters, held, releasing, receiver>>

(* and then writes it, whatever another has written by then.                *)
TakePacket(t) ==
  LET p == Current(t)
      back == p.num < last.num
  IN /\ thread[t] = "take"
     /\ thread' = [thread EXCEPT ![t] = "parse"]
     /\ last' = p
     /\ fed' = IF back THEN {} ELSE fed
     /\ work' = [u \in Threads |->
          [at |-> IF u = t THEN work[u].at + 1 ELSE work[u].at,
           out |-> IF u = t THEN work[u].out \cup {p} ELSE work[u].out,
           calm |-> work[u].calm /\ ~back]]
     /\ UNCHANGED <<sender, netSource, sink, filters, held, releasing, delivered, raw>>

(* Not cut on its way.                                                      *)
Whole(d) == d \in net

EndDatagram(t) ==
  /\ thread[t] = "parse" /\ ~More(t)
  /\ thread' = [thread EXCEPT ![t] = "send"]
  /\ fed' = IF work[t].calm /\ Whole(held[t]) THEN fed \cup {Last(held[t])} ELSE fed
  /\ UNCHANGED <<sender, netSource, sink, filters, held, work, releasing, last, delivered, raw>>

(* Mutant: the thread waits again behind one packet.                       *)
SendAndWait(t) ==
  /\ thread[t] = "send"
  /\ thread' = [thread EXCEPT ![t] = "wait"]
  /\ held' = [held EXCEPT ![t] = NoDatagram]
  /\ work' = [work EXCEPT ![t] = NoWork]
  /\ delivered' = delivered \cup work[t].out
  /\ UNCHANGED <<sender, netSource, sink, filters, releasing, last, fed, raw>>

(* What came out of the filters is sent to the sink that was taken,         *)
Send(t) ==
  /\ thread[t] = "send"
  /\ thread' = [thread EXCEPT ![t] = "receive"]
  /\ held' = [held EXCEPT ![t] = NoDatagram]
  /\ work' = [work EXCEPT ![t] = NoWork]
  /\ delivered' = delivered \cup work[t].out
  /\ UNCHANGED <<sender, netSource, sink, filters, releasing, last, fed, raw>>

(* or what no filter has seen.                                              *)
SendRaw(t) ==
  /\ thread[t] = "raw"
  /\ thread' = [thread EXCEPT ![t] = "receive"]
  /\ held' = [held EXCEPT ![t] = NoDatagram]
  /\ raw' = raw + 1
  /\ UNCHANGED <<sender, netSource, sink, filters, work, releasing, last, fed, delivered>>

LastStarted(t) == t \in Started /\ \A u \in Started : u <= t

(* A thread that is told to finish ends at the head of a loop.             *)
StopThread(t) ==
  /\ releasing = "join" /\ LastStarted(t)
  /\ thread[t] \in {"wait", "receive"}
  /\ thread' = [thread EXCEPT ![t] = "done"]
  /\ UNCHANGED <<sender, netSource, sink, filters, held, work, releasing, receiver>>

(* release: the source and the sink, the filters, then the thread of the    *)
(* last start.                                                              *)
(* Mutant: the sink stays.                                                 *)
ReleaseLeavesSink ==
  /\ releasing = "no"
  /\ releasing' = "filters"
  /\ UNCHANGED <<sender, netSource, sink, filters, thread, held, work, receiver>>

ReleaseSink ==
  /\ releasing = "no"
  /\ sink' = FALSE
  /\ releasing' = "filters"
  /\ UNCHANGED <<sender, netSource, filters, thread, held, work, receiver>>

ReleaseFilters ==
  /\ releasing = "filters"
  /\ filters' = FALSE
  /\ releasing' = "join"
  /\ UNCHANGED <<sender, netSource, sink, thread, held, work, receiver>>

(* Mutant: the thread is not waited for.                                   *)
MayReturnEarly == TRUE

MayReturn == \A t \in Threads : LastStarted(t) => thread[t] = "done"

Released ==
  /\ releasing = "join" /\ MayReturn
  /\ releasing' = "released"
  /\ UNCHANGED <<sender, netSource, sink, filters, thread, held, work, receiver>>

StreamInit ==
  /\ number = 0 /\ run = 1 /\ window = << >>
  /\ net = {} /\ arrivals = 0 /\ adding = FALSE /\ queue = << >> /\ event = FALSE
  /\ sink = TRUE /\ filters = TRUE /\ releasing = "no"
  /\ thread = [t \in Threads |-> "none"]
  /\ held = [t \in Threads |-> NoDatagram]
  /\ work = [t \in Threads |-> NoWork]
  /\ last = [num |-> 0, run |-> 1, empty |-> FALSE]
  /\ fed = {} /\ delivered = {} /\ raw = 0

StreamNext ==
  \/ SendPacket \/ RestartSender
  \/ \E d \in net : \E n \in 0 .. Len(d) : OnPacket(d, n)
  \/ SetEvent
  \/ \E t \in Threads :
       \/ Start(t) \/ Wait(t) \/ ReceivePacket(t) \/ TakeSink(t) \/ TakeFilters(t)
       \/ TestAhead(t) \/ TestBehind(t) \/ TestZero(t)
       \/ TakePacket(t) \/ EndDatagram(t) \/ Send(t) \/ SendRaw(t) \/ StopThread(t)
  \/ ReleaseSink \/ ReleaseFilters \/ Released

StreamSpec == StreamInit /\ [][StreamNext]_stVars

-----------------------------------------------------------------------------
(* A datagram is as many packets as the level has it repeat, or those since *)
(* the sender started; what arrives of it may be less.                      *)
StreamPacket == [num : Nat, run : Nat, empty : BOOLEAN]

Pieces ==
  {d \in Seq(StreamPacket) :
     \A i \in 1 .. Len(d) :
       /\ d[i].num = d[1].num + i - 1 /\ d[i].run = d[1].run
       /\ d[i].empty <=> d[i].num \in EmptyNumbers}

Datagrams ==
  {d \in Pieces : Len(d) \in 1 .. Level + 1 /\ (d[1].num = 0 \/ Len(d) = Level + 1)}

EmptyAmong(from, to) == \E n \in EmptyNumbers : n \in from .. to

(* The strengthening of GapMeansLoss: what was parsed is not beyond the last *)
(* number, if that has not gone back since; nor is what was filtered, but    *)
(* for what an empty packet kept from being parsed.                         *)
SentInv ==
  /\ number \in Nat /\ run \in Nat
  /\ IF number = 0 THEN window = << >>
     ELSE /\ window \in Datagrams
          /\ Last(window).num = number - 1 /\ Last(window).run = run

ArrivedInv ==
  net \subseteq Datagrams /\ queue \in Seq(Pieces) /\ held \in [Threads -> Pieces]

Work == [at : Nat, out : SUBSET StreamPacket, calm : BOOLEAN]

Parsing == {"parse", "behind", "zero", "take"}

ParsedInv(t) ==
  /\ work[t].at <= Len(held[t])
  /\ thread[t] \in {"behind", "zero", "take"} => More(t)
  /\ thread[t] \in {"behind", "zero"} /\ work[t].calm => Current(t).num <= last.num
  /\ work[t].calm => \A n \in 1 .. work[t].at : held[t][n].num <= last.num

WorkInv ==
  /\ work \in [Threads -> Work]
  /\ \A t \in Threads : thread[t] \in Parsing => ParsedInv(t)

FedInv ==
  /\ last \in StreamPacket /\ fed \subseteq StreamPacket
  /\ \A p \in fed : p.num <= last.num \/ EmptyAmong(p.num - Level, p.num)

GapInv == SentInv /\ ArrivedInv /\ WorkInv /\ FedInv

(* A packet that is passed over when the last number goes on, rather than    *)
(* taken for the sink, was in no datagram that the filter has had, or is at, *)
(* since that number last went back: all of the Level + 1 that repeat it     *)
(* were lost, cut, dropped from the queue, or are not parsed yet.  (An empty *)
(* one takes those behind it along.)  It holds for any number of threads in  *)
(* the one filter; that they set its number back is the most they do.        *)
CameOut(r, k) ==
  \E p \in delivered \cup UNION {work[t].out : t \in Threads} : p.run = r /\ p.num = k

GapMeansLoss ==
  [][\A t \in Threads : thread[t] = "take" /\ thread'[t] = "parse" /\ last'.run = last.run =>
       LET had == IF work'[t].calm /\ Whole(held[t]) THEN fed' \cup {Last(held[t])} ELSE fed'
       IN \A k \in last.num + 1 .. last'.num :
            \/ CameOut(last.run, k)'
            \/ EmptyAmong(k - Level, k + Level)
            \/ \A p \in had : p.run = last.run => p.num \notin k .. k + Level]_stVars

(* A thread that took the sink before release and the filters behind it    *)
(* sends its datagram as it came; no other does.                           *)
OneRawPerThread == raw <= Cardinality(Started)

(* Nothing reaches the sink behind a release, if the graph was started once. *)
QuietAfterRelease ==
  [][releasing = "released" /\ Cardinality(Started) <= 1 =>
       UNCHANGED <<delivered, raw>>]_stVars

(* No datagram waits on a thread that waits on it: when all threads wait,  *)
(* the queue is empty, or the event is set or about to be.                 *)
WakesForQueue ==
  queue # << >> /\ Started # {} /\ (\A t \in Started : thread[t] = "wait") =>
    event \/ adding

=============================================================================
