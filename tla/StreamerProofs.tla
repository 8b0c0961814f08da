--------------------------- MODULE StreamerProofs ---------------------------
(* That no datagram waits in the queue for a thread that waits for it, that *)
(* a thread sends one datagram past the filters at most, that nothing       *)
(* reaches the sink when release has returned, and that the last number of  *)
(* the filter passes over a packet only when all that repeat it were lost.  *)
EXTENDS Streamer, FiniteSetTheorems, SequenceTheorems, TLAPS

Places == {"none", "wait", "receive", "feed", "filter", "raw", "parse", "behind", "zero", "take",
           "send", "done"}

ThreadsTypeOK ==
  /\ thread \in [Threads -> Places]
  /\ releasing \in {"no", "filters", "join", "released"}

(* Whoever is to look at the queue without waiting is none of the threads   *)
(* that wait; before the first starts, the event stays set.                 *)
EventForQueue ==
  queue # << >> /\ (\A t \in Threads : thread[t] \in {"none", "wait"}) => event \/ adding

(* No thread starts behind release, as there is no sink, and the last one   *)
(* that did has ended when release returns.                                 *)
LastHasEnded ==
  /\ releasing # "no" => ~sink
  /\ releasing = "released" => \A t \in Threads : LastStarted(t) => thread[t] = "done"

StreamInv == ThreadsTypeOK /\ EventForQueue /\ LastHasEnded

(* A stream starts with nothing in the queue and no thread.                 *)
LEMMA StreamInitInv == StreamInit => StreamInv
  BY DEF StreamInit, StreamInv, ThreadsTypeOK, EventForQueue, LastHasEnded, Places

(* A step of a thread that was started leaves the same threads started.     *)
LEMMA SameStarted ==
  ASSUME ThreadsTypeOK, NEW t \in Threads, thread[t] # "none",
         NEW to \in Places \ {"none"}, thread' = [thread EXCEPT ![t] = to]
  PROVE  /\ thread' \in [Threads -> Places]
         /\ Started' = Started
         /\ \A u \in Threads : LastStarted(u)' <=> LastStarted(u)
         /\ thread'[t] = to /\ \A u \in Threads \ {t} : thread'[u] = thread[u]
<1>1. /\ thread' \in [Threads -> Places]
      /\ thread'[t] = to /\ \A u \in Threads \ {t} : thread'[u] = thread[u]
  BY DEF ThreadsTypeOK
<1>2. Started' = Started
  BY <1>1 DEF Started
<1> QED BY <1>1, <1>2 DEF LastStarted, ThreadsTypeOK

(* Where a thread that has a datagram goes.                                 *)
LEMMA TurnOf ==
  ASSUME NEW t \in Threads, ~UNCHANGED thread,
         TakeFilters(t) \/ TestAhead(t) \/ TestBehind(t) \/ TestZero(t) \/ TakePacket(t)
           \/ EndDatagram(t) \/ Send(t) \/ SendRaw(t)
  PROVE  \E to \in {"parse", "raw", "behind", "zero", "take", "send", "receive"} :
           thread' = [thread EXCEPT ![t] = to]
<1>1. CASE TakeFilters(t)
  BY <1>1 DEF TakeFilters
<1>2. CASE TestAhead(t) \/ TestBehind(t) \/ TestZero(t)
  BY <1>2 DEF TestAhead, TestBehind, TestZero
<1>3. CASE TakePacket(t) \/ EndDatagram(t) \/ Send(t) \/ SendRaw(t)
  BY <1>3 DEF TakePacket, EndDatagram, Send, SendRaw
<1> QED BY <1>1, <1>2, <1>3

LEMMA StreamStepInv ==
  ASSUME StreamInv, [StreamNext]_stVars
  PROVE  StreamInv'
<1> USE DEF StreamInv, ThreadsTypeOK, EventForQueue, LastHasEnded
<1>1. CASE SendPacket \/ RestartSender \/ SetEvent
  BY <1>1 DEF SendPacket, RestartSender, SetEvent, graph, netSource, LastStarted, Started
<1>2. ASSUME NEW d \in net, NEW n \in 0 .. Len(d), OnPacket(d, n) PROVE StreamInv'
  BY <1>2 DEF OnPacket, graph, LastStarted, Started
<1>3. ASSUME NEW t \in Threads, Start(t) PROVE StreamInv'
  BY <1>3 DEF Start, netSource, Places
<1>4. ASSUME NEW t \in Threads, Wait(t) PROVE StreamInv'
  <2>1. thread[t] = "wait" /\ thread' = [thread EXCEPT ![t] = "receive"]
        /\ UNCHANGED <<sink, releasing>>
    BY <1>4 DEF Wait
  <2> QED BY <2>1, SameStarted DEF Places
<1>5. ASSUME NEW t \in Threads, ReceivePacket(t) PROVE StreamInv'
  <2>1. CASE queue = << >>
    <3>1. thread[t] = "receive" /\ thread' = [thread EXCEPT ![t] = "wait"]
          /\ UNCHANGED <<sink, releasing, queue>>
      BY <1>5, <2>1 DEF ReceivePacket
    <3> QED BY <2>1, <3>1, SameStarted DEF Places
  <2>2. CASE queue # << >>
    <3>1. thread[t] = "receive" /\ thread' = [thread EXCEPT ![t] = "feed"]
          /\ UNCHANGED <<sink, releasing>>
      BY <1>5, <2>2 DEF ReceivePacket
    <3> QED BY <3>1, SameStarted DEF Places
  <2> QED BY <2>1, <2>2
<1>6. ASSUME NEW t \in Threads, TakeSink(t) PROVE StreamInv'
  <2>1. PICK to \in {"filter", "receive"} : thread' = [thread EXCEPT ![t] = to]
    BY <1>6 DEF TakeSink
  <2>2. thread[t] = "feed" /\ UNCHANGED <<sink, releasing>>
    BY <1>6 DEF TakeSink
  <2> QED BY <2>1, <2>2, SameStarted DEF Places
<1>7. ASSUME NEW t \in Threads,
             TakeFilters(t) \/ TestAhead(t) \/ TestBehind(t) \/ TestZero(t) \/ TakePacket(t)
               \/ EndDatagram(t)
               \/ Send(t) \/ SendRaw(t)
      PROVE  StreamInv'
  <2>1. CASE UNCHANGED thread
    BY <1>7, <2>1 DEF TestAhead, TestBehind, TestZero, TakeFilters, TakePacket, EndDatagram,
      Send, SendRaw, netSource, LastStarted, Started
  <2>2. CASE ~UNCHANGED thread
    <3>1. PICK to \in {"parse", "raw", "behind", "zero", "take", "send", "receive"} :
            thread' = [thread EXCEPT ![t] = to]
      BY <1>7, <2>2, TurnOf
    <3>2. /\ thread[t] \in {"filter", "raw", "parse", "behind", "zero", "take", "send"}
          /\ UNCHANGED <<sink, releasing>>
      BY <1>7 DEF TestAhead, TestBehind, TestZero, TakeFilters, TakePacket, EndDatagram, Send,
        SendRaw
    <3> QED BY <3>1, <3>2, SameStarted DEF Places
  <2> QED BY <2>1, <2>2
<1>8. ASSUME NEW t \in Threads, StopThread(t) PROVE StreamInv'
  <2>1. /\ thread[t] # "none" /\ thread' = [thread EXCEPT ![t] = "done"]
        /\ UNCHANGED <<sink, releasing>> /\ releasing = "join"
    BY <1>8 DEF StopThread
  <2> QED BY <2>1, SameStarted DEF Places
<1>9. CASE ReleaseSink \/ ReleaseFilters
  BY <1>9 DEF ReleaseSink, ReleaseFilters, netSource, LastStarted, Started
<1>10. CASE Released
  BY <1>10 DEF Released, MayReturn, netSource, LastStarted, Started
<1>11. CASE UNCHANGED stVars
  BY <1>11 DEF stVars, netSource, graph, LastStarted, Started
<1> QED BY <1>1, <1>2, <1>3, <1>4, <1>5, <1>6, <1>7, <1>8, <1>9, <1>10, <1>11 DEF StreamNext

(* However packets arrive and threads start, stop and take them: when all   *)
(* threads wait, the queue is empty, or the event is set or about to be.     *)
THEOREM StreamWakesForQueue == StreamSpec => []WakesForQueue
<1>1. StreamInv => WakesForQueue
  BY DEF StreamInv, ThreadsTypeOK, EventForQueue, WakesForQueue, Started
<1>2. StreamInv /\ [StreamNext]_stVars => StreamInv'
  BY StreamStepInv
<1> QED BY <1>1, <1>2, StreamInitInv, PTL DEF StreamSpec

-----------------------------------------------------------------------------
(* Datagrams that pass no filter *)

(* The threads that have taken the sink and are about to take the filters,  *)
(* or have found none.                                                      *)
Filtering == {t \in Threads : thread[t] \in {"filter", "raw"}}

(* No thread takes the sink when the filters have gone, as it went first: a *)
(* datagram that reaches it unfiltered is of one that took it before.       *)
RawInv ==
  /\ raw \in Nat /\ filters \in BOOLEAN
  /\ filters => raw = 0 /\ \A t \in Threads : thread[t] # "raw"
  /\ releasing = "no" => filters
  /\ ~filters => /\ releasing # "filters" /\ ~sink
                /\ raw + Cardinality(Filtering) <= Cardinality(Started)

LEMMA FilteringAreStarted ==
  ASSUME IsFiniteSet(Threads)
  PROVE  /\ IsFiniteSet(Filtering) /\ IsFiniteSet(Started)
         /\ Cardinality(Filtering) \in Nat /\ Cardinality(Started) \in Nat
         /\ Cardinality(Filtering) <= Cardinality(Started)
<1>1. Filtering \subseteq Started /\ Started \subseteq Threads
  BY DEF Filtering, Started
<1>2. IsFiniteSet(Started)
  BY <1>1, FS_Subset
<1> QED BY <1>1, <1>2, FS_Subset, FS_CardinalityType

(* A thread that has sent a datagram as it came is one less.                *)
LEMMA OneLessFilters ==
  ASSUME IsFiniteSet(Threads), ThreadsTypeOK, NEW t \in Threads, thread[t] = "raw",
         thread' = [thread EXCEPT ![t] = "receive"]
  PROVE  /\ Started' = Started
         /\ Cardinality(Filtering') = Cardinality(Filtering) - 1
<1>1. Started' = Started
  BY SameStarted DEF Places
<1>2. \A u \in Threads : thread'[u] = IF u = t THEN "receive" ELSE thread[u]
  BY DEF ThreadsTypeOK
<1>3. Filtering' = Filtering \ {t} /\ t \in Filtering
  BY <1>2 DEF Filtering
<1> QED BY <1>1, <1>3, FilteringAreStarted, FS_RemoveElement

LEMMA RawStep ==
  ASSUME IsFiniteSet(Threads), StreamInv, RawInv, [StreamNext]_stVars
  PROVE  RawInv'
<1> USE DEF RawInv
<1>s. IsFiniteSet(Started) /\ Started \subseteq Threads
  BY FilteringAreStarted DEF Started
<1>k. ASSUME UNCHANGED <<raw, filters, sink, releasing, thread>> PROVE RawInv'
  BY <1>k DEF Filtering, Started
<1>m. ASSUME UNCHANGED <<raw, filters, sink, releasing>>, Started' = Started,
             ~filters => Filtering' = Filtering,
             \A u \in Threads : thread'[u] = "raw" => thread[u] = "raw" \/ ~filters
      PROVE  RawInv'
  BY <1>m
<1>1. CASE SendPacket \/ RestartSender \/ SetEvent \/ UNCHANGED stVars
  BY <1>1, <1>k DEF SendPacket, RestartSender, SetEvent, stVars, graph, receiver
<1>2. ASSUME NEW d \in net, NEW n \in 0 .. Len(d), OnPacket(d, n) PROVE RawInv'
  BY <1>2, <1>k DEF OnPacket, graph, receiver
<1>3. ASSUME NEW t \in Threads, Start(t) PROVE RawInv'
  BY <1>3 DEF Start, receiver, StreamInv, ThreadsTypeOK
<1>4. ASSUME NEW t \in Threads, NEW to \in Places \ {"none", "filter", "raw"},
             thread[t] \notin {"none", "filter", "raw"}, thread' = [thread EXCEPT ![t] = to],
             UNCHANGED <<raw, filters, sink, releasing>>
      PROVE  RawInv'
  <2>1. /\ Started' = Started /\ thread'[t] = to
        /\ \A u \in Threads \ {t} : thread'[u] = thread[u]
    BY <1>4, SameStarted DEF StreamInv
  <2>2. Filtering' = Filtering
    BY <1>4, <2>1 DEF Filtering
  <2>3. \A u \in Threads : thread'[u] = "raw" => thread[u] = "raw"
    BY <1>4, <2>1
  <2> QED BY <1>4, <2>1, <2>2, <2>3, <1>m
<1>5. ASSUME NEW t \in Threads, Wait(t) PROVE RawInv'
  BY <1>5, <1>4 DEF Wait, Places, receiver
<1>6. ASSUME NEW t \in Threads, ReceivePacket(t) PROVE RawInv'
  <2>1. PICK to \in {"wait", "feed"} : thread' = [thread EXCEPT ![t] = to]
    BY <1>6 DEF ReceivePacket
  <2> QED BY <1>6, <2>1, <1>4 DEF ReceivePacket, Places, receiver
<1>7. ASSUME NEW t \in Threads, TakeSink(t) PROVE RawInv'
  <2>1. CASE sink
    BY <1>7, <2>1 DEF TakeSink, receiver
  <2>2. CASE ~sink
    BY <1>7, <2>2, <1>4 DEF TakeSink, Places, receiver
  <2> QED BY <2>1, <2>2
<1>8. ASSUME NEW t \in Threads, TakeFilters(t) PROVE RawInv'
  <2>1. thread[t] = "filter" /\ UNCHANGED <<raw, filters, sink, releasing>>
    BY <1>8 DEF TakeFilters, receiver
  <2>2. CASE filters
    <3>1. thread' = [thread EXCEPT ![t] = "parse"]
      BY <1>8, <2>2 DEF TakeFilters
    <3> QED BY <2>1, <2>2, <3>1 DEF StreamInv, ThreadsTypeOK
  <2>3. CASE ~filters
    <3>1. thread' = [thread EXCEPT ![t] = "raw"]
      BY <1>8, <2>3 DEF TakeFilters
    <3>2. /\ Started' = Started /\ thread'[t] = "raw"
          /\ \A u \in Threads \ {t} : thread'[u] = thread[u]
      BY <2>1, <3>1, SameStarted DEF StreamInv, Places
    <3>3. Filtering' = Filtering
      BY <2>1, <3>2 DEF Filtering
    <3> QED BY <2>1, <2>3, <3>2, <3>3
  <2> QED BY <2>2, <2>3
<1>13. ASSUME NEW t \in Threads, SendRaw(t) PROVE RawInv'
  <2>1. /\ thread[t] = "raw" /\ thread' = [thread EXCEPT ![t] = "receive"]
        /\ UNCHANGED <<sink, filters, releasing>> /\ raw' = raw + 1 /\ ~filters
    BY <1>13 DEF SendRaw
  <2>2. Started' = Started /\ Cardinality(Filtering') = Cardinality(Filtering) - 1
    BY <2>1, OneLessFilters DEF StreamInv
  <2> QED BY <2>1, <2>2, FilteringAreStarted
<1>14. ASSUME NEW t \in Threads,
              TestAhead(t) \/ TestBehind(t) \/ TestZero(t) \/ TakePacket(t)
                \/ EndDatagram(t) \/ Send(t)
       PROVE  RawInv'
  <2>1. /\ thread[t] \in {"parse", "behind", "zero", "take", "send"}
        /\ UNCHANGED <<raw, filters, sink, releasing>>
    BY <1>14 DEF TestAhead, TestBehind, TestZero, TakePacket, EndDatagram, Send, receiver
  <2>2. CASE UNCHANGED thread
    BY <2>1, <2>2, <1>k
  <2>3. CASE ~UNCHANGED thread
    <3>1. PICK to \in {"parse", "behind", "zero", "take", "send", "receive"} :
            thread' = [thread EXCEPT ![t] = to]
      BY <1>14, <2>3 DEF TestAhead, TestBehind, TestZero, TakePacket, EndDatagram, Send
    <3> QED BY <2>1, <3>1, <1>4 DEF Places
  <2> QED BY <2>2, <2>3
<1>9. ASSUME NEW t \in Threads, StopThread(t) PROVE RawInv'
  BY <1>9, <1>4 DEF StopThread, Places, receiver
<1>10. CASE ReleaseSink
  BY <1>10 DEF ReleaseSink, receiver
<1>11. CASE ReleaseFilters
  <2>1. /\ filters' = FALSE /\ releasing' = "join" /\ releasing = "filters"
        /\ UNCHANGED <<sink, thread, raw>>
    BY <1>11 DEF ReleaseFilters, receiver
  <2>2. ~sink /\ raw = 0
    BY <2>1 DEF StreamInv, LastHasEnded
  <2>3. Filtering' = Filtering /\ Started' = Started
    BY <2>1 DEF Filtering, Started
  <2>4. 0 + Cardinality(Filtering) <= Cardinality(Started)
    BY FilteringAreStarted
  <2> QED BY <2>1, <2>2, <2>3, <2>4
<1>12. CASE Released
  BY <1>12, <1>s DEF Released, receiver, Filtering, Started
<1> QED BY <1>1, <1>2, <1>3, <1>5, <1>6, <1>7, <1>8, <1>9, <1>10, <1>11, <1>12,
     <1>13, <1>14 DEF StreamNext

(* Whatever threads are started and wherever release meets them, each sends *)
(* one datagram past the filters at most.                                   *)
THEOREM StreamOneRaw ==
  ASSUME IsFiniteSet(Threads)
  PROVE  StreamSpec => []OneRawPerThread
<1>1. StreamInit => StreamInv /\ RawInv
  BY StreamInitInv DEF StreamInit, RawInv
<1>2. StreamInv /\ RawInv /\ [StreamNext]_stVars => StreamInv' /\ RawInv'
  BY StreamStepInv, RawStep
<1>3. StreamInv /\ RawInv => OneRawPerThread
  BY FilteringAreStarted DEF RawInv, OneRawPerThread
<1> QED BY <1>1, <1>2, <1>3, PTL DEF StreamSpec

-----------------------------------------------------------------------------
(* After release *)

(* Of a graph that was started once, the one thread is the last.             *)
LEMMA OneIsLast ==
  ASSUME Threads \subseteq Nat, IsFiniteSet(Threads),
         Cardinality(Started) <= 1, NEW t \in Started
  PROVE  LastStarted(t)
<1>1. IsFiniteSet(Started)
  BY FS_Subset DEF Started
<1>2. Started = {t}
  <2>1. Started # {}
    OBVIOUS
  <2>2. Cardinality(Started) \in Nat /\ Cardinality(Started) # 0
    BY <1>1, <2>1, FS_CardinalityType, FS_EmptySet
  <2>3. Cardinality(Started) = 1
    BY <2>2
  <2>4. PICK u : Started = {u}
    BY <1>1, <2>3, FS_Singleton
  <2> QED BY <2>4
<1>3. t \in Nat
  BY DEF Started
<1> QED BY <1>2, <1>3 DEF LastStarted

(* Nothing reaches the sink of a graph that was started once when release   *)
(* has returned.                                                            *)
THEOREM StreamQuiet ==
  ASSUME Threads \subseteq Nat, IsFiniteSet(Threads)
  PROVE  StreamSpec => QuietAfterRelease
<1>1. ASSUME StreamInv, [StreamNext]_stVars,
             releasing = "released", Cardinality(Started) <= 1
      PROVE  UNCHANGED <<delivered, raw>>
  <2>1. ASSUME NEW t \in Threads, Send(t) \/ SendRaw(t) PROVE FALSE
    <3>1. thread[t] \in {"send", "raw"} /\ t \in Started
      BY <2>1 DEF Send, SendRaw, Started
    <3>2. thread[t] = "done"
      BY <1>1, <3>1, OneIsLast DEF StreamInv, LastHasEnded
    <3> QED BY <3>1, <3>2
  <2>2. CASE SendPacket \/ RestartSender \/ SetEvent \/ ReleaseSink \/ ReleaseFilters \/ Released
    BY <2>2 DEF SendPacket, RestartSender, SetEvent, ReleaseSink, ReleaseFilters, Released, receiver
  <2>3. ASSUME NEW d \in net, NEW n \in 0 .. Len(d), OnPacket(d, n)
        PROVE  UNCHANGED <<delivered, raw>>
    BY <2>3 DEF OnPacket, receiver
  <2>4. ASSUME NEW t \in Threads,
               \/ Start(t) \/ Wait(t) \/ ReceivePacket(t) \/ TakeSink(t) \/ TakeFilters(t)
               \/ TestAhead(t) \/ TestBehind(t) \/ TestZero(t) \/ TakePacket(t)
               \/ EndDatagram(t) \/ StopThread(t)
        PROVE  UNCHANGED <<delivered, raw>>
    BY <2>4 DEF Start, Wait, ReceivePacket, TakeSink, TakeFilters, TestAhead, TestBehind,
      TestZero, TakePacket, EndDatagram, StopThread, receiver
  <2>5. CASE UNCHANGED stVars
    BY <2>5 DEF stVars, receiver
  <2> QED BY <1>1, <2>1, <2>2, <2>3, <2>4, <2>5 DEF StreamNext
<1>2. StreamInv /\ [StreamNext]_stVars =>
        [releasing = "released" /\ Cardinality(Started) <= 1 =>
           UNCHANGED <<delivered, raw>>]_stVars
  BY <1>1
<1>3. StreamInv /\ [StreamNext]_stVars => StreamInv'
  BY StreamStepInv
<1> QED BY <1>2, <1>3, StreamInitInv, PTL DEF StreamSpec, QuietAfterRelease

-----------------------------------------------------------------------------
(* Gaps *)

(* A piece of a datagram is packets with numbers in a row.                   *)
LEMMA PacketFacts ==
  ASSUME NEW d \in Pieces
  PROVE  /\ Len(d) \in Nat
         /\ \A i \in 1 .. Len(d) :
              /\ d[i] \in StreamPacket /\ d[i].num \in Nat /\ d[i].empty \in BOOLEAN
              /\ d[i].num = d[1].num + i - 1
<1>1. d \in Seq(StreamPacket)
  BY DEF Pieces
<1>2. Len(d) \in Nat /\ \A i \in 1 .. Len(d) : d[i] \in StreamPacket
  BY <1>1, LenProperties, ElementOfSeq
<1>3. \A i \in 1 .. Len(d) : d[i].num \in Nat /\ d[i].empty \in BOOLEAN
  BY <1>2 DEF StreamPacket
<1> QED BY <1>2, <1>3 DEF Pieces

(* What is left of a piece that is cut is one.                              *)
LEMMA CutFacts ==
  ASSUME NEW d \in Pieces, NEW n \in 0 .. Len(d)
  PROVE  SubSeq(d, 1, n) \in Pieces
<1> DEFINE c == SubSeq(d, 1, n)
<1>1. Len(d) \in Nat /\ d \in Seq(StreamPacket)
      /\ \A i \in 1 .. Len(d) : d[i] \in StreamPacket
  BY PacketFacts DEF Pieces
<1>2. n \in Nat /\ n <= Len(d)
  BY <1>1
<1>3. /\ c \in Seq(StreamPacket) /\ Len(c) = n
      /\ \A i \in 1 .. n : c[i] = d[i]
  <2>1. \A i \in 1 .. n : d[i] \in StreamPacket
    BY <1>1, <1>2
  <2>2. /\ SubSeq(d, 1, n) \in Seq(StreamPacket)
        /\ Len(SubSeq(d, 1, n)) = IF 1 <= n THEN n - 1 + 1 ELSE 0
        /\ \A i \in 1 .. n - 1 + 1 : SubSeq(d, 1, n)[i] = d[1 + i - 1]
    BY <1>1, <1>2, <2>1, SubSeqProperties
  <2> QED BY <1>2, <2>2
<1> HIDE DEF c
<1>4. ASSUME NEW i \in 1 .. n
      PROVE  /\ c[i].num = c[1].num + i - 1 /\ c[i].run = c[1].run
             /\ c[i].empty <=> c[i].num \in EmptyNumbers
  <2>1. i \in 1 .. Len(d) /\ 1 \in 1 .. n
    BY <1>1, <1>2
  <2> QED BY <1>3, <2>1 DEF Pieces
<1> QED BY <1>3, <1>4 DEF Pieces, c

(* A datagram has the Level packets before its last one, as far as there    *)
(* are any; the empty ones have empty numbers.                              *)
LEMMA DatagramNumbers ==
  ASSUME NEW d \in Datagrams, Level \in Nat
  PROVE  /\ d \in Pieces
         /\ Len(d) \in 1 .. Level + 1 /\ Last(d) = d[Len(d)]
         /\ Last(d) \in StreamPacket /\ Last(d).num \in Nat
         /\ \A n \in 1 .. Len(d) :
              /\ d[n].num \in Nat /\ d[n].run = Last(d).run
              /\ d[n].num \in Last(d).num - Level .. Last(d).num
              /\ d[n].empty => d[n].num \in EmptyNumbers
         /\ \A k \in Nat : Last(d).num \in k .. k + Level =>
              \E n \in 1 .. Len(d) : d[n].num = k
<1> DEFINE len == Len(d)
           from == d[1].num
<1>0. d \in Pieces
  BY DEF Datagrams
<1>1. /\ len \in 1 .. Level + 1 /\ (from = 0 \/ len = Level + 1)
      /\ \A n \in 1 .. len :
           /\ d[n].num = from + n - 1 /\ d[n].run = d[1].run
           /\ d[n].empty <=> d[n].num \in EmptyNumbers
  BY DEF Datagrams, Pieces
<1>2. \A n \in 1 .. len : d[n].num \in Nat /\ d[n] \in StreamPacket
  BY <1>0, PacketFacts
<1>3. from \in Nat /\ len \in 1 .. len /\ len \in Nat
  BY <1>1, <1>2
<1>4. /\ Last(d) = d[len] /\ Last(d).num = from + len - 1 /\ Last(d).run = d[1].run
      /\ Last(d) \in StreamPacket
  BY <1>1, <1>2, <1>3 DEF Last
<1> HIDE DEF len, from
<1>5. ASSUME NEW n \in 1 .. len
      PROVE  d[n].num \in Last(d).num - Level .. Last(d).num
  <2>1. d[n].num = from + n - 1
    BY <1>1
  <2> QED BY <1>1, <1>3, <1>4, <2>1
<1>6. ASSUME NEW k \in Nat, Last(d).num \in k .. k + Level
      PROVE  \E n \in 1 .. len : d[n].num = k
  <2> DEFINE n == k - from + 1
  <2>1. n \in 1 .. len /\ from + n - 1 = k
    BY <1>1, <1>3, <1>4, <1>6
  <2> HIDE DEF n
  <2> QED BY <1>1, <2>1
<1>7. Last(d).num \in Nat
  BY <1>3, <1>4
<1> QED BY <1>0, <1>1, <1>2, <1>4, <1>5, <1>6, <1>7 DEF len

-----------------------------------------------------------------------------
(* Of a queue that is full the last ones stay.                              *)
LEMMA LastNFacts ==
  ASSUME NEW S, NEW s \in Seq(S), NEW n \in Nat
  PROVE  /\ LastN(s, n) \in Seq(S)
         /\ Len(LastN(s, n)) = IF Len(s) <= n THEN Len(s) ELSE n
         /\ \A i \in 1 .. Len(LastN(s, n)) :
              LastN(s, n)[i] = s[Len(s) - Len(LastN(s, n)) + i]
<1>1. Len(s) \in Nat
  BY LenProperties
<1>2. CASE Len(s) <= n
  <2>1. LastN(s, n) = s
    BY <1>2 DEF LastN
  <2> QED BY <1>1, <1>2, <2>1
<1>3. CASE ~(Len(s) <= n)
  <2> DEFINE m == Len(s) - n + 1
             len == Len(s)
  <2>1. m \in 1 .. len + 1 /\ len \in Nat /\ m \in Int /\ m > 0
    BY <1>1, <1>3
  <2>2. LastN(s, n) = SubSeq(s, m, len)
    BY <1>3 DEF LastN
  <2>3. \A i \in m .. len : s[i] \in S
    BY <2>1, ElementOfSeq
  <2>4. /\ SubSeq(s, m, len) \in Seq(S)
        /\ Len(SubSeq(s, m, len)) = IF m <= len THEN len - m + 1 ELSE 0
        /\ \A i \in 1 .. len - m + 1 : SubSeq(s, m, len)[i] = s[m + i - 1]
    BY <2>1, <2>3, SubSeqProperties
  <2>5. Len(LastN(s, n)) = n
    BY <1>1, <1>3, <2>2, <2>4
  <2>6. LastN(s, n) \in Seq(S)
    BY <2>2, <2>4
  <2>7. \A i \in 1 .. n : LastN(s, n)[i] = s[len - n + i]
    BY <1>1, <2>2, <2>4
  <2> QED BY <1>3, <2>5, <2>6, <2>7
<1> QED BY <1>2, <1>3

(* The packets that are repeated behind the next packet.                    *)
LEMMA PushFacts ==
  ASSUME Level \in Nat, SentInv, NEW p \in StreamPacket,
         p.num = number, p.run = run, p.empty <=> number \in EmptyNumbers
  PROVE  /\ Push(window, p) \in Datagrams
         /\ Last(Push(window, p)) = p
<1> DEFINE w == Append(window, p)
           wlen == Len(window)
           d == Push(window, p)
           len == Len(d)
<1>1. number \in Nat /\ run \in Nat
  BY DEF SentInv
<1>2. window \in Seq(StreamPacket) /\ wlen \in Nat
  <2>1. CASE number = 0
    BY <2>1 DEF SentInv
  <2>2. CASE number # 0
    BY <2>2, LenProperties DEF SentInv, Datagrams, Pieces
  <2> QED BY <2>1, <2>2
<1>3. wlen <= Level + 1 /\ (wlen = number \/ (wlen = Level + 1 /\ number >= wlen))
  <2>1. CASE number = 0
    BY <1>1, <2>1 DEF SentInv
  <2>2. CASE number # 0
    <3>1. window \in Datagrams /\ Last(window).num = number - 1
      BY <2>2 DEF SentInv
    <3>2. /\ wlen \in 1 .. Level + 1
          /\ window[1].num = 0 \/ wlen = Level + 1
          /\ window[wlen].num = window[1].num + wlen - 1
      BY <1>2, <3>1 DEF Datagrams, Pieces
    <3>3. window[wlen].num = number - 1 /\ window[1].num \in Nat
      BY <3>1, <3>2, PacketFacts DEF Last, Datagrams
    <3> QED BY <1>1, <3>2, <3>3
  <2> QED BY <2>1, <2>2
<1>4. ASSUME NEW i \in 1 .. wlen
      PROVE  /\ window[i].num = number - wlen + i - 1 /\ window[i].run = run
             /\ window[i].empty <=> window[i].num \in EmptyNumbers
  <2>1. number # 0
    BY <1>2, <1>4 DEF SentInv
  <2>2. /\ window \in Datagrams /\ Last(window).num = number - 1
        /\ Last(window).run = run
    BY <2>1 DEF SentInv
  <2>3. wlen \in 1 .. wlen /\ 1 \in 1 .. wlen
    BY <1>2, <1>4
  <2>4. /\ window[wlen].num = window[1].num + wlen - 1
        /\ window[wlen].run = window[1].run
        /\ window[i].num = window[1].num + i - 1 /\ window[i].run = window[1].run
        /\ window[i].empty <=> window[i].num \in EmptyNumbers
    BY <2>2, <2>3 DEF Datagrams, Pieces
  <2>5. window[wlen].num = number - 1 /\ window[wlen].run = run
        /\ window[1].num \in Nat
    BY <2>2, <2>3, PacketFacts DEF Last, Datagrams
  <2> QED BY <1>1, <1>2, <2>4, <2>5
<1>5. /\ w \in Seq(StreamPacket) /\ Len(w) = wlen + 1 /\ w[wlen + 1] = p
      /\ \A i \in 1 .. wlen : w[i] = window[i]
  BY <1>2, AppendProperties
<1>6. ASSUME NEW i \in 1 .. wlen + 1
      PROVE  /\ w[i].num = number - wlen + i - 1 /\ w[i].run = run
             /\ w[i].empty <=> w[i].num \in EmptyNumbers
  <2>1. CASE i = wlen + 1
    BY <1>1, <1>2, <1>5, <2>1
  <2>2. CASE i # wlen + 1
    <3>1. i \in 1 .. wlen
      BY <1>2, <2>2
    <3> QED BY <1>4, <1>5, <3>1
  <2> QED BY <2>1, <2>2
<1>7. /\ d \in Seq(StreamPacket)
      /\ len = IF wlen + 1 <= Level + 1 THEN wlen + 1 ELSE Level + 1
      /\ \A i \in 1 .. len : d[i] = w[wlen + 1 - len + i]
  <2>1. d = LastN(w, Level + 1) /\ Level + 1 \in Nat
    BY DEF Push
  <2>2. w \in Seq(StreamPacket) /\ Len(w) = wlen + 1
    BY <1>5
  <2> HIDE DEF w, d, wlen
  <2>3. /\ LastN(w, Level + 1) \in Seq(StreamPacket)
        /\ Len(LastN(w, Level + 1)) = IF Len(w) <= Level + 1 THEN Len(w) ELSE Level + 1
        /\ \A i \in 1 .. Len(LastN(w, Level + 1)) :
             LastN(w, Level + 1)[i] = w[Len(w) - Len(LastN(w, Level + 1)) + i]
    BY <2>1, <2>2, LastNFacts
  <2> QED BY <1>2, <2>1, <2>2, <2>3
<1> HIDE DEF w, wlen, d, len
<1>8. len \in 1 .. Level + 1 /\ len <= wlen + 1 /\ len \in Nat
  BY <1>2, <1>7
<1>9. ASSUME NEW i \in 1 .. len
      PROVE  /\ d[i].num = number - len + i /\ d[i].run = run
             /\ d[i].empty <=> d[i].num \in EmptyNumbers
  <2> DEFINE j == wlen + 1 - len + i
  <2>1. j \in 1 .. wlen + 1 /\ d[i] = w[j] /\ number - wlen + j - 1 = number - len + i
    BY <1>1, <1>2, <1>7, <1>8
  <2> HIDE DEF j
  <2> QED BY <1>6, <2>1
<1>10. d[1].num = 0 \/ len = Level + 1
  <2>1. d[1].num = number - len + 1
    BY <1>8, <1>9
  <2> QED BY <1>1, <1>2, <1>3, <1>7, <2>1
<1>11. ASSUME NEW i \in 1 .. len
       PROVE  d[i].num = d[1].num + i - 1 /\ d[i].run = d[1].run
  <2>1. d[1].num = number - len + 1 /\ d[1].run = run
    BY <1>8, <1>9
  <2>2. d[i].num = number - len + i /\ d[i].run = run
    BY <1>9
  <2> QED BY <1>1, <1>8, <2>1, <2>2
<1>12. d \in Datagrams
  BY <1>7, <1>8, <1>9, <1>10, <1>11 DEF Datagrams, Pieces, len
<1>13. d[len] = p
  <2>1. len \in 1 .. len /\ wlen + 1 - len + len = wlen + 1
    BY <1>2, <1>8
  <2> QED BY <1>5, <1>7, <2>1
<1> QED BY <1>12, <1>13 DEF Last, d, len

LEMMA GapInitInv == StreamInit => GapInv
<1> SUFFICES ASSUME StreamInit PROVE GapInv
  OBVIOUS
<1>1. SentInv
  BY DEF StreamInit, SentInv
<1>2. ArrivedInv
  <2>1. << >> \in Pieces
    BY EmptySeq DEF Pieces
  <2> QED BY <2>1, EmptySeq DEF StreamInit, ArrivedInv, NoDatagram
<1>3. WorkInv
  BY DEF StreamInit, WorkInv, NoWork, Work, Parsing
<1>4. FedInv
  BY DEF StreamInit, FedInv, StreamPacket
<1> QED BY <1>1, <1>2, <1>3, <1>4 DEF GapInv

(* The sender.                                                              *)
LEMMA SentStep ==
  ASSUME GapInv, [StreamNext]_stVars
  PROVE  SentInv' /\ net' \subseteq Datagrams
<1>1. Level \in Nat /\ SentInv /\ net \subseteq Datagrams /\ number \in Nat /\ run \in Nat
  BY StreamAssumption DEF GapInv, SentInv, ArrivedInv
<1>2. CASE UNCHANGED <<sender, net>>
  BY <1>1, <1>2 DEF SentInv, sender
<1>3. CASE SendPacket
  <2> DEFINE e == number \in EmptyNumbers
             p == [num |-> number, run |-> run, empty |-> e]
  <2>1. /\ number' = number + 1 /\ run' = run /\ window' = Push(window, p)
        /\ net' = net \cup {window'}
    BY <1>3 DEF SendPacket
  <2>2. /\ p \in StreamPacket /\ p.num = number /\ p.run = run
        /\ p.empty <=> number \in EmptyNumbers
    <3>1. e \in BOOLEAN
      OBVIOUS
    <3> HIDE DEF e
    <3>2. p \in StreamPacket /\ p.num = number /\ p.run = run /\ p.empty = e
      BY <1>1, <3>1 DEF StreamPacket
    <3> QED BY <3>2 DEF e
  <2> HIDE DEF p
  <2>3. Push(window, p) \in Datagrams /\ Last(Push(window, p)) = p
    BY <1>1, <2>2, PushFacts
  <2>4. window' \in Datagrams /\ Last(window') = p
    BY <2>1, <2>3
  <2>5. /\ number' \in Nat /\ number' # 0 /\ run' \in Nat
        /\ Last(window').num = number' - 1 /\ Last(window').run = run'
    BY <1>1, <2>1, <2>2, <2>4
  <2> QED BY <1>1, <2>1, <2>4, <2>5 DEF SentInv
<1>4. CASE RestartSender
  BY <1>1, <1>4 DEF RestartSender, SentInv, netSource
<1> QED BY <1>2, <1>3, <1>4 DEF StreamNext, stVars, SetEvent, OnPacket, Start, Wait,
     ReceivePacket, TakeSink, TakeFilters, TestAhead, TestBehind, TestZero, TakePacket,
     EndDatagram, Send, SendRaw, StopThread, ReleaseSink, ReleaseFilters, Released, netSource

(* The queue, and what the threads hold of it.                              *)
LEMMA HeldStep ==
  ASSUME GapInv, [StreamNext]_stVars
  PROVE  ArrivedInv'
<1>1. net' \subseteq Datagrams
  BY SentStep
<1>2. /\ net \subseteq Datagrams /\ queue \in Seq(Pieces) /\ held \in [Threads -> Pieces]
  BY DEF GapInv, ArrivedInv
<1>3. CASE UNCHANGED <<queue, held>>
  BY <1>1, <1>2, <1>3 DEF ArrivedInv
<1>4. ASSUME NEW d \in net, NEW n \in 0 .. Len(d), OnPacket(d, n) PROVE ArrivedInv'
  <2>1. queue' = LastN(Append(queue, SubSeq(d, 1, n)), QueueSize) /\ UNCHANGED held
    BY <1>4 DEF OnPacket, graph
  <2>2. SubSeq(d, 1, n) \in Pieces /\ QueueSize \in Nat
    BY <1>2, CutFacts, StreamAssumption DEF Datagrams
  <2>3. Append(queue, SubSeq(d, 1, n)) \in Seq(Pieces)
    BY <1>2, <2>2, AppendProperties
  <2>4. queue' \in Seq(Pieces)
    BY <2>1, <2>2, <2>3, LastNFacts
  <2> QED BY <1>1, <1>2, <2>1, <2>4 DEF ArrivedInv
<1>5. ASSUME NEW t \in Threads, ReceivePacket(t), queue # << >> PROVE ArrivedInv'
  <2>1. held' = [held EXCEPT ![t] = Head(queue)] /\ queue' = Tail(queue)
    BY <1>5 DEF ReceivePacket
  <2>2. Head(queue) \in Pieces /\ Tail(queue) \in Seq(Pieces)
    BY <1>2, <1>5, HeadTailProperties
  <2> QED BY <1>1, <1>2, <2>1, <2>2 DEF ArrivedInv
<1>6. ASSUME NEW t \in Threads, ReceivePacket(t), queue = << >> PROVE ArrivedInv'
  BY <1>3, <1>6 DEF ReceivePacket
<1>7. ASSUME NEW t \in Threads, Send(t) \/ SendRaw(t) PROVE ArrivedInv'
  <2>1. held' = [held EXCEPT ![t] = << >>] /\ UNCHANGED queue
    BY <1>7 DEF Send, SendRaw, NoDatagram, netSource
  <2>2. << >> \in Pieces
    BY EmptySeq DEF Pieces
  <2> QED BY <1>1, <1>2, <2>1, <2>2 DEF ArrivedInv
<1> QED BY <1>3, <1>4, <1>5, <1>6, <1>7 DEF StreamNext, stVars, SendPacket, RestartSender,
     SetEvent, Start, Wait, TakeSink, TakeFilters, TestAhead, TestBehind, TestZero, TakePacket,
     EndDatagram, StopThread, ReleaseSink, ReleaseFilters, Released, netSource, graph

(* What the threads have parsed.                                            *)
LEMMA WorkStep ==
  ASSUME GapInv, ThreadsTypeOK, [StreamNext]_stVars
  PROVE  WorkInv'
<1>1. /\ work \in [Threads -> Work] /\ held \in [Threads -> Pieces]
      /\ last \in StreamPacket /\ last.num \in Nat /\ thread \in [Threads -> Places]
      /\ \A u \in Threads : thread[u] \in Parsing => ParsedInv(u)
  BY DEF GapInv, ArrivedInv, WorkInv, FedInv, StreamPacket, ThreadsTypeOK
<1>2. \A u \in Threads :
        /\ Len(held[u]) \in Nat /\ work[u].at \in Nat /\ work[u].calm \in BOOLEAN
        /\ \A i \in 1 .. Len(held[u]) : held[u][i] \in StreamPacket /\ held[u][i].num \in Nat
  BY <1>1, PacketFacts DEF Work
<1>3. ASSUME UNCHANGED <<work, held, last>>,
             \A u \in Threads : thread'[u] \in Parsing =>
               thread'[u] = thread[u]
      PROVE  WorkInv'
  BY <1>1, <1>3 DEF WorkInv, ParsedInv, More, Current
<1>4. ASSUME NEW t \in Threads, NEW to \in Places \ Parsing,
             thread' = [thread EXCEPT ![t] = to], UNCHANGED <<work, held, last>>
      PROVE  WorkInv'
  BY <1>1, <1>3, <1>4
<1>5. ASSUME NEW t \in Threads, ReceivePacket(t) \/ Send(t) \/ SendRaw(t) PROVE WorkInv'
  <2> DEFINE Turned ==
               /\ \E to \in {"wait", "feed", "receive"} : thread' = [thread EXCEPT ![t] = to]
               /\ \A u \in Threads \ {t} : held'[u] = held[u] /\ work'[u] = work[u]
               /\ work' \in [Threads -> Work] /\ last' = last
  <2>r. ASSUME ReceivePacket(t), queue = << >> PROVE Turned
    BY <1>1, <2>r DEF ReceivePacket, receiver
  <2>q. ASSUME ReceivePacket(t), queue # << >> PROVE Turned
    BY <1>1, <2>q DEF ReceivePacket, receiver
  <2>s. ASSUME Send(t) PROVE Turned
    <3>1. NoWork \in Work
      BY DEF NoWork, Work
    <3> QED BY <1>1, <2>s, <3>1 DEF Send
  <2>w. ASSUME SendRaw(t) PROVE Turned
    BY <1>1, <2>w DEF SendRaw
  <2>1. Turned
    BY <1>5, <2>r, <2>q, <2>s, <2>w
  <2>2. /\ thread'[t] \notin Parsing
        /\ \A u \in Threads \ {t} : thread'[u] = thread[u]
    BY <1>1, <2>1 DEF Parsing
  <2> QED BY <1>1, <2>1, <2>2 DEF WorkInv, ParsedInv, More, Current
<1>6. ASSUME NEW t \in Threads, TakeFilters(t) PROVE WorkInv'
  <2>1. CASE ~filters
    BY <1>4, <1>6, <2>1 DEF TakeFilters, Places, Parsing, receiver
  <2>2. CASE filters
    <3>1. /\ thread' = [thread EXCEPT ![t] = "parse"]
          /\ work' = [work EXCEPT ![t] = [at |-> 0, out |-> {}, calm |-> TRUE]]
          /\ UNCHANGED <<held, last>>
      BY <1>6, <2>2 DEF TakeFilters, NoWork, receiver
    <3>2. work' \in [Threads -> Work]
      BY <1>1, <3>1 DEF Work
    <3>3. ParsedInv(t)'
      BY <1>1, <1>2, <3>1 DEF ParsedInv
    <3>4. ASSUME NEW u \in Threads \ {t}, thread'[u] \in Parsing PROVE ParsedInv(u)'
      BY <1>1, <3>1, <3>4 DEF ParsedInv, More, Current
    <3> QED BY <3>2, <3>3, <3>4 DEF WorkInv
  <2> QED BY <2>1, <2>2
<1>7. ASSUME NEW t \in Threads, TestAhead(t) \/ TestBehind(t),
             NEW to \in {"take", "behind", "zero"}, thread' = [thread EXCEPT ![t] = to]
      PROVE  WorkInv'
  <2>1. /\ thread[t] \in {"parse", "behind"} /\ More(t) /\ ParsedInv(t)
        /\ UNCHANGED <<work, held, last>>
    BY <1>1, <1>7 DEF TestAhead, TestBehind, ParsedInv, Parsing, receiver
  <2>2. ParsedInv(t)'
    <3>1. to \in {"behind", "zero"} /\ work[t].calm => Current(t).num <= last.num
      <4>1. CASE TestAhead(t)
        <5>1. to = "take" \/ ~(Current(t).num > last.num)
          BY <1>1, <1>7, <4>1 DEF TestAhead
        <5>2. Current(t).num \in Nat
          BY <1>2, <2>1 DEF Current, More
        <5> QED BY <1>1, <5>1, <5>2
      <4>2. CASE TestBehind(t)
        BY <2>1, <4>2 DEF TestBehind, ParsedInv
      <4> QED BY <1>7, <4>1, <4>2
    <3>2. thread'[t] = to
      BY <1>1, <1>7
    <3> QED BY <2>1, <3>1, <3>2 DEF ParsedInv, More, Current
  <2>3. ASSUME NEW u \in Threads \ {t}, thread'[u] \in Parsing PROVE ParsedInv(u)'
    <3>1. thread'[u] = thread[u]
      BY <1>1, <1>7
    <3> QED BY <1>1, <2>1, <2>3, <3>1 DEF ParsedInv, More, Current
  <2> QED BY <1>1, <2>1, <2>2, <2>3 DEF WorkInv
<1>t. ASSUME NEW t \in Threads, TestAhead(t) \/ TestBehind(t) PROVE WorkInv'
  <2>1. PICK to \in {"take", "behind", "zero"} : thread' = [thread EXCEPT ![t] = to]
    BY <1>t DEF TestAhead, TestBehind
  <2> QED BY <1>7, <1>t, <2>1
<1>z. ASSUME NEW t \in Threads, TestZero(t) PROVE WorkInv'
  <2>1. thread[t] = "zero" /\ More(t) /\ UNCHANGED <<held, last>> /\ ParsedInv(t)
    BY <1>1, <1>z DEF TestZero, ParsedInv, Parsing, receiver
  <2>2. CASE last.num = 0
    <3>1. thread' = [thread EXCEPT ![t] = "take"] /\ work' = work
      BY <1>z, <2>2 DEF TestZero
    <3>2. ParsedInv(t)'
      BY <1>1, <2>1, <3>1 DEF ParsedInv, More, Current
    <3>3. ASSUME NEW u \in Threads \ {t}, thread'[u] \in Parsing PROVE ParsedInv(u)'
      <4>1. thread'[u] = thread[u]
        BY <1>1, <3>1
      <4> QED BY <1>1, <2>1, <3>1, <3>3, <4>1 DEF ParsedInv, More, Current
    <3> QED BY <1>1, <3>1, <3>2, <3>3 DEF WorkInv
  <2>3. CASE last.num # 0
    <3> DEFINE n == work[t].at + 1
    <3>1. work' = [work EXCEPT ![t].at = n] /\ thread' = [thread EXCEPT ![t] = "parse"]
      BY <1>z, <2>3 DEF TestZero
    <3>2. /\ work' \in [Threads -> Work]
          /\ work'[t].at = n /\ work'[t].calm = work[t].calm
          /\ \A u \in Threads \ {t} : work'[u] = work[u]
      BY <1>1, <3>1 DEF Work
    <3>3. n \in 1 .. Len(held[t]) /\ (work[t].calm => held[t][n].num <= last.num)
      BY <1>1, <1>2, <2>1 DEF More, Current, ParsedInv
    <3>4. ASSUME work[t].calm, NEW i \in 1 .. n PROVE held[t][i].num <= last.num
      <4>1. CASE i = n
        BY <3>3, <3>4, <4>1
      <4>2. CASE i # n
        <5>1. i \in 1 .. work[t].at
          BY <1>2, <4>2
        <5> QED BY <2>1, <3>4, <5>1 DEF ParsedInv
      <4> QED BY <4>1, <4>2
    <3>5. thread'[t] = "parse" /\ \A u \in Threads \ {t} : thread'[u] = thread[u]
      BY <1>1, <3>1
    <3> HIDE DEF n
    <3>6. ParsedInv(t)'
      BY <1>2, <2>1, <3>2, <3>3, <3>4, <3>5 DEF ParsedInv
    <3>7. ASSUME NEW u \in Threads \ {t}, thread'[u] \in Parsing PROVE ParsedInv(u)'
      BY <1>1, <2>1, <3>2, <3>5, <3>7 DEF ParsedInv, More, Current
    <3> QED BY <3>2, <3>6, <3>7 DEF WorkInv
  <2> QED BY <2>2, <2>3
<1>8. ASSUME NEW t \in Threads, TakePacket(t) PROVE WorkInv'
  <2> DEFINE n == work[t].at + 1
             p == held[t][n]
             back == p.num < last.num
  <2>1. /\ thread[t] = "take" /\ More(t) /\ ParsedInv(t) /\ held' = held
        /\ thread' = [thread EXCEPT ![t] = "parse"] /\ last' = p
        /\ work' = [u \in Threads |->
             [at |-> IF u = t THEN work[u].at + 1 ELSE work[u].at,
              out |-> IF u = t THEN work[u].out \cup {p} ELSE work[u].out,
              calm |-> work[u].calm /\ ~back]]
    BY <1>1, <1>8 DEF TakePacket, ParsedInv, Parsing, Current
  <2>2. n \in 1 .. Len(held[t]) /\ p \in StreamPacket /\ p.num \in Nat
    BY <1>2, <2>1 DEF More
  <2>3. /\ work'[t].at = n
        /\ \A u \in Threads : /\ u # t => work'[u].at = work[u].at
                              /\ work'[u].calm => work[u].calm /\ ~back
    BY <2>1
  <2>4. ASSUME NEW u \in Threads PROVE work'[u] \in Work
    <3>1. /\ work[u] \in Work /\ work[u].at \in Nat /\ work[u].out \subseteq StreamPacket
          /\ (work[u].calm /\ ~back) \in BOOLEAN
      BY <1>1 DEF Work
    <3> QED BY <2>1, <2>2, <3>1 DEF Work
  <2>5. work' \in [Threads -> Work]
    BY <2>1, <2>4
  <2>6. ParsedInv(t)'
    <3>1. ASSUME work'[t].calm, NEW i \in 1 .. n PROVE held[t][i].num <= p.num
      <4>1. CASE i = n
        BY <2>2, <4>1
      <4>2. CASE i # n
        <5>1. i \in 1 .. work[t].at /\ i \in 1 .. Len(held[t])
          BY <1>2, <2>2, <4>2
        <5>2. held[t][i].num <= last.num /\ ~back /\ held[t][i].num \in Nat
          BY <1>2, <2>1, <2>3, <3>1, <5>1 DEF ParsedInv
        <5> QED BY <1>1, <2>2, <5>2
      <4> QED BY <4>1, <4>2
    <3>2. thread'[t] = "parse"
      BY <1>1, <2>1
    <3> QED BY <1>2, <2>1, <2>2, <2>3, <3>1, <3>2 DEF ParsedInv
  <2>7. ASSUME NEW u \in Threads \ {t}, thread'[u] \in Parsing PROVE ParsedInv(u)'
    <3>1. thread'[u] = thread[u] /\ ParsedInv(u)
      BY <1>1, <2>1, <2>7
    <3>2. ASSUME work'[u].calm, NEW i \in 1 .. work[u].at PROVE held[u][i].num <= p.num
      <4>1. held[u][i].num <= last.num /\ ~back
        BY <2>3, <3>1, <3>2 DEF ParsedInv
      <4>2. i \in 1 .. Len(held[u]) /\ held[u][i].num \in Nat
        BY <1>2, <3>1 DEF ParsedInv
      <4> QED BY <1>1, <2>2, <4>1, <4>2
    <3>3. ASSUME work'[u].calm, thread[u] \in {"behind", "zero"}
          PROVE  More(u) /\ Current(u).num <= p.num
      <4>1. More(u) /\ Current(u).num <= last.num /\ ~back
        BY <2>3, <3>1, <3>3 DEF ParsedInv
      <4>2. Current(u).num \in Nat
        BY <1>2, <4>1 DEF More, Current
      <4> QED BY <1>1, <2>2, <4>1, <4>2
    <3> HIDE DEF p, back
    <3> QED BY <2>1, <2>3, <3>1, <3>2, <3>3 DEF ParsedInv, More, Current
  <2> QED BY <2>5, <2>6, <2>7 DEF WorkInv
<1>9. ASSUME NEW t \in Threads,
             Start(t) \/ Wait(t) \/ TakeSink(t) \/ EndDatagram(t) \/ StopThread(t)
      PROVE  WorkInv'
  <2>1. PICK to \in {"wait", "receive", "filter", "send", "done"} :
          thread' = [thread EXCEPT ![t] = to]
    BY <1>9 DEF Start, Wait, TakeSink, EndDatagram, StopThread
  <2> QED BY <1>4, <1>9, <2>1 DEF Start, Wait, TakeSink, EndDatagram, StopThread, Places, Parsing,
    receiver
<1>10. CASE UNCHANGED <<work, held, last, thread>>
  BY <1>3, <1>10
<1> QED BY <1>5, <1>6, <1>t, <1>z, <1>8, <1>9, <1>10 DEF StreamNext, stVars, SendPacket,
     RestartSender, SetEvent, OnPacket, ReleaseSink, ReleaseFilters, Released, graph, receiver

(* What the filters had.                                                    *)
LEMMA FedStep ==
  ASSUME GapInv, [StreamNext]_stVars
  PROVE  FedInv'
<1>1. FedInv /\ last \in StreamPacket /\ last.num \in Nat /\ Level \in Nat
      /\ held \in [Threads -> Pieces] /\ net \subseteq Datagrams /\ work \in [Threads -> Work]
  BY StreamAssumption DEF GapInv, FedInv, StreamPacket, ArrivedInv, WorkInv
<1>2. CASE UNCHANGED <<last, fed>>
  BY <1>1, <1>2 DEF FedInv
<1>3. ASSUME NEW t \in Threads, TakePacket(t) PROVE FedInv'
  <2> DEFINE p == Current(t)
  <2>1. last' = p /\ fed' = (IF p.num < last.num THEN {} ELSE fed) /\ thread[t] = "take"
    BY <1>3 DEF TakePacket
  <2>2. p \in StreamPacket
    <3>1. ParsedInv(t) /\ More(t) /\ work[t].at \in Nat
      BY <1>1, <2>1 DEF GapInv, WorkInv, ParsedInv, Parsing, Work
    <3>2. Len(held[t]) \in Nat /\ \A i \in 1 .. Len(held[t]) : held[t][i] \in StreamPacket
      BY <1>1, PacketFacts
    <3>3. work[t].at + 1 \in 1 .. Len(held[t])
      BY <3>1, <3>2 DEF More
    <3> QED BY <3>2, <3>3 DEF Current
  <2> HIDE DEF p
  <2>3. ASSUME NEW q \in fed'
        PROVE  q.num <= p.num \/ EmptyAmong(q.num - Level, q.num)
    <3>1. ~(p.num < last.num) /\ q \in fed
      BY <2>1, <2>3
    <3>2. q.num <= last.num \/ EmptyAmong(q.num - Level, q.num)
      BY <1>1, <3>1 DEF FedInv
    <3>3. q.num \in Nat /\ p.num \in Nat
      BY <1>1, <2>2, <3>1 DEF FedInv, StreamPacket
    <3> QED BY <1>1, <3>1, <3>2, <3>3
  <2> QED BY <1>1, <2>1, <2>2, <2>3 DEF FedInv
<1>4. ASSUME NEW t \in Threads, EndDatagram(t) PROVE FedInv'
  <2> DEFINE d == held[t]
  <2>1. last' = last /\ thread[t] = "parse" /\ ~More(t)
        /\ fed' = IF work[t].calm /\ Whole(d) THEN fed \cup {Last(d)} ELSE fed
    BY <1>4 DEF EndDatagram
  <2>2. CASE ~(work[t].calm /\ Whole(d))
    BY <1>2, <2>1, <2>2
  <2>3. CASE work[t].calm /\ Whole(d)
    <3>1. d \in Datagrams
      BY <1>1, <2>3 DEF Whole
    <3>2. ParsedInv(t) /\ work[t].at \in Nat
      BY <1>1, <2>1 DEF GapInv, WorkInv, Parsing, Work
    <3> HIDE DEF d
    <3>3. /\ Len(d) \in 1 .. Level + 1 /\ Last(d) = d[Len(d)]
          /\ Last(d) \in StreamPacket /\ Last(d).num \in Nat
          /\ \A n \in 1 .. Len(d) :
               /\ d[n].num \in Last(d).num - Level .. Last(d).num
               /\ d[n].empty => d[n].num \in EmptyNumbers
      BY <1>1, <3>1, DatagramNumbers
    <3>4. CASE work[t].at = Len(d)
      <4>1. d[Len(d)].num <= last.num
        BY <2>3, <3>2, <3>3, <3>4 DEF ParsedInv, d
      <4> QED BY <1>1, <2>1, <2>3, <3>3, <4>1 DEF FedInv
    <3>5. CASE work[t].at # Len(d)
      <4>1. work[t].at + 1 \in 1 .. Len(d) /\ d[work[t].at + 1].empty
        BY <2>1, <3>2, <3>3, <3>5 DEF ParsedInv, More, Current, d
      <4>2. EmptyAmong(Last(d).num - Level, Last(d).num)
        BY <3>3, <4>1 DEF EmptyAmong
      <4> QED BY <1>1, <2>1, <2>3, <3>3, <4>2 DEF FedInv
    <3> QED BY <3>4, <3>5
  <2> QED BY <2>2, <2>3
<1> QED BY <1>2, <1>3, <1>4 DEF StreamNext, stVars, SendPacket, RestartSender, SetEvent,
     OnPacket, Start, Wait, ReceivePacket, TakeSink, TakeFilters, TestAhead, TestBehind, TestZero,
     Send, SendRaw,
     StopThread, ReleaseSink, ReleaseFilters, Released, receiver

(* A wider range has the empty packets of a narrower one.                   *)
LEMMA WiderRange ==
  ASSUME NEW a \in Int, NEW b \in Int, NEW c \in Int, NEW e \in Int,
         a <= b, c <= e, EmptyAmong(b, c)
  PROVE  EmptyAmong(a, e)
<1>1. PICK n \in EmptyNumbers : n \in b .. c
  BY DEF EmptyAmong
<1>2. n \in a .. e
  BY <1>1
<1> QED BY <1>1, <1>2 DEF EmptyAmong

(* Only one that takes a packet goes on to parse behind it.                 *)
LEMMA TakenBy ==
  ASSUME StreamInv, [StreamNext]_stVars, NEW t \in Threads,
         thread[t] = "take", thread'[t] = "parse"
  PROVE  TakePacket(t)
<1>1. thread \in [Threads -> Places]
  BY DEF StreamInv, ThreadsTypeOK
<1>2. ~UNCHANGED thread
  OBVIOUS
<1>3. ASSUME NEW u \in Threads, NEW to, thread' = [thread EXCEPT ![u] = to]
      PROVE  u = t
  BY <1>1, <1>3
<1>4. ASSUME NEW u \in Threads,
             \/ Start(u) \/ Wait(u) \/ ReceivePacket(u) \/ TakeSink(u) \/ TakeFilters(u)
             \/ TestAhead(u) \/ TestBehind(u) \/ TestZero(u) \/ EndDatagram(u) \/ Send(u)
             \/ SendRaw(u) \/ StopThread(u)
      PROVE  FALSE
  <2>1. PICK to : thread' = [thread EXCEPT ![u] = to]
    BY <1>4 DEF Start, Wait, ReceivePacket, TakeSink, TakeFilters, TestAhead, TestBehind,
      TestZero, EndDatagram,       Send, SendRaw, StopThread
  <2>2. u = t
    BY <1>3, <2>1
  <2> QED BY <1>4, <2>2 DEF Start, Wait, ReceivePacket, TakeSink, TakeFilters, TestAhead,
    TestBehind, TestZero, EndDatagram, Send, SendRaw, StopThread
<1>5. ASSUME NEW u \in Threads, TakePacket(u) PROVE TakePacket(t)
  BY <1>3, <1>5 DEF TakePacket
<1> QED BY <1>2, <1>4, <1>5 DEF StreamNext, stVars, SendPacket, RestartSender, SetEvent, OnPacket,
     ReleaseSink, ReleaseFilters, Released, graph

(* However datagrams are repeated, overtake each other, arrive twice or cut, *)
(* or are dropped from the queue, and whatever threads meet in the filter:   *)
(* what the last number passes over was in none of the datagrams that the    *)
(* filter had since it went back, or an empty packet is near.                *)
THEOREM StreamGaps == StreamSpec => GapMeansLoss
<1> DEFINE Had(t) == IF work'[t].calm /\ Whole(held[t]) THEN fed' \cup {Last(held[t])} ELSE fed'
           Passes ==
             \A t \in Threads :
               thread[t] = "take" /\ thread'[t] = "parse" /\ last'.run = last.run =>
                 \A k \in last.num + 1 .. last'.num :
                   \/ CameOut(last.run, k)'
                   \/ EmptyAmong(k - Level, k + Level)
                   \/ \A p \in Had(t) : p.run = last.run => p.num \notin k .. k + Level
<1>1. ASSUME StreamInv, GapInv, [StreamNext]_stVars PROVE Passes
  <2> SUFFICES ASSUME NEW t \in Threads, thread[t] = "take", thread'[t] = "parse",
                      last'.run = last.run, NEW k \in last.num + 1 .. last'.num,
                      NEW q \in Had(t), q.run = last.run, q.num \in k .. k + Level
               PROVE  CameOut(last.run, k)' \/ EmptyAmong(k - Level, k + Level)
    OBVIOUS
  <2>1. TakePacket(t)
    BY <1>1, TakenBy
  <2> DEFINE d == held[t]
             n == work[t].at + 1
             p == d[n]
  <2>2. /\ last' = p /\ fed' = (IF p.num < last.num THEN {} ELSE fed)
        /\ work'[t].calm => work[t].calm
        /\ p \in work'[t].out
    BY <2>1 DEF TakePacket, Current
  <2>3. /\ last \in StreamPacket /\ last.num \in Nat /\ Level \in Nat
        /\ \A f \in fed : f.num \in Nat /\ (f.num <= last.num \/ EmptyAmong(f.num - Level, f.num))
    BY <1>1, StreamAssumption DEF GapInv, FedInv, StreamPacket
  <2>4. /\ ParsedInv(t) /\ More(t) /\ work[t].at \in Nat /\ d \in Pieces
        /\ net \subseteq Datagrams
    BY <1>1 DEF GapInv, WorkInv, ArrivedInv, ParsedInv, Parsing, Work
  <2>5. /\ n \in 1 .. Len(d) /\ Len(d) \in Nat
        /\ \A i \in 1 .. Len(d) : d[i].num \in Nat /\ d[i].num = d[1].num + i - 1
    <3>1. /\ Len(d) \in Nat
          /\ \A i \in 1 .. Len(d) : d[i].num \in Nat /\ d[i].num = d[1].num + i - 1
      BY <2>4, PacketFacts
    <3>2. work[t].at < Len(d)
      BY <2>4 DEF More
    <3>3. n \in 1 .. Len(d)
      BY <2>4, <3>1, <3>2
    <3> HIDE DEF d, n
    <3> QED BY <3>1, <3>3
  <2> HIDE DEF d, n
  <2>6. p.num \in Nat /\ k \in Nat /\ last.num < k /\ k <= p.num
    BY <2>2, <2>3, <2>5
  <2>7. CASE k = p.num
    BY <2>2, <2>7 DEF CameOut
  <2>8. CASE q \in fed'
    <3>1. q \in fed
      BY <2>2, <2>8
    <3>2. q.num \in Nat /\ (q.num <= last.num \/ EmptyAmong(q.num - Level, q.num))
      BY <2>3, <3>1
    <3>3. EmptyAmong(q.num - Level, q.num)
      BY <2>3, <2>6, <3>2
    <3>4. k - Level <= q.num - Level /\ q.num <= k + Level
      BY <2>3, <2>6, <3>2
    <3> QED BY <2>3, <2>6, <3>2, <3>3, <3>4, WiderRange
  <2>9. CASE k # p.num /\ q \notin fed'
    <3>1. work'[t].calm /\ Whole(d) /\ q = Last(d)
      BY <2>9 DEF d
    <3>2. d \in Datagrams
      BY <2>4, <3>1 DEF Whole
    <3>3. PICK i \in 1 .. Len(d) : d[i].num = k
      BY <2>3, <2>6, <3>1, <3>2, DatagramNumbers
    <3>n. /\ d[i].num = d[1].num + i - 1 /\ p.num = d[1].num + n - 1
          /\ d[1].num \in Nat /\ i \in Nat \ {0} /\ n \in Nat
      <4>1. 1 \in 1 .. Len(d)
        BY <2>5
      <4> HIDE DEF d, n
      <4>2. d[1].num \in Nat /\ d[i].num = d[1].num + i - 1 /\ p.num = d[1].num + n - 1
        BY <2>5, <4>1
      <4>3. i \in Nat \ {0} /\ n \in Nat
        BY <2>5
      <4> QED BY <4>2, <4>3
    <3>l. i < n
      <4>1. d[i].num < p.num
        BY <2>6, <2>9, <3>3
      <4> QED BY <3>n, <4>1
    <3>4. i \in 1 .. work[t].at
      BY <2>4, <3>n, <3>l DEF n
    <3>5. d[i].num <= last.num
      BY <2>2, <2>4, <3>1, <3>4 DEF ParsedInv, d
    <3> QED BY <2>3, <2>6, <3>3, <3>5
  <2> QED BY <2>7, <2>8, <2>9
<1>2. StreamInv /\ GapInv /\ [StreamNext]_stVars => StreamInv' /\ GapInv'
  BY StreamStepInv, SentStep, HeldStep, WorkStep, FedStep DEF StreamInv, GapInv
<1>3. StreamInit => StreamInv /\ GapInv
  BY StreamInitInv, GapInitInv
<1>4. StreamInv /\ GapInv /\ [StreamNext]_stVars => [Passes]_stVars
  BY <1>1
<1> QED BY <1>2, <1>3, <1>4, PTL DEF StreamSpec, GapMeansLoss

=============================================================================
