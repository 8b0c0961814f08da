------------------------- MODULE DatagramSerializer -------------------------
(***************************************************************************)
(* DatagramSerializer over one connection: a sender builds datagrams into  *)
(* a stream of bytes, the receiver parses the stream in the pieces that    *)
(* the connection delivers.  Each turn of the loop of parse() is a step.   *)
(***************************************************************************)
EXTENDS Naturals, Sequences, SequencesExt

CONSTANTS
  Base,            \* values of a byte, 256 in the code
  SenderMax,       \* MaxDatagramSize of the sender, 0 for no limit
  ReceiverMax,     \* MaxDatagramSize of the receiver, 0 for no limit
  MaxLength,       \* bound: length of a datagram that is sent
  MaxSent          \* bound: datagrams sent

ASSUME SizeAssumption ==
  /\ Base \in Nat \ {0, 1}
  /\ {SenderMax, ReceiverMax, MaxLength, MaxSent} \subseteq Nat
  /\ MaxLength < Base * (Base * (Base * Base))

VARIABLES
  sent,               \* history: the datagrams built
  stream,             \* bytes the receiver has not been given
  data,               \* what is left of the bytes given to parse()
  parsing,            \* parse() runs
  datagrams,          \* its result queue
  bufSize,            \* the first m_lenBufSize bytes of m_bufSize
  lenCurrentDatagram, \* m_lenCurrentDatagram
  buf,                \* m_buf, of m_posCurrentDatagram bytes
  received,           \* history: the datagrams given to the listener
  failed              \* parse() returned false, and the connection ended

parser == <<bufSize, lenCurrentDatagram, buf>>
serializerVars == <<sent, stream, data, parsing, datagrams, parser, received, failed>>

-----------------------------------------------------------------------------
Byte == 0 .. Base - 1
Datagram == BoundedSeq(Byte, MaxLength)

Allowed(n, max) == n > 0 /\ (max = 0 \/ n <= max)

(* MIO::writeUint32LE and readUint32LE.                                    *)
LengthSize == 4

WriteLength(n) ==
  LET n1 == n \div Base
      n2 == n1 \div Base
      n3 == n2 \div Base
  IN <<n % Base, n1 % Base, n2 % Base, n3 % Base>>

(* Mutant: the most significant byte first. *)
ReadLengthBE(bytes) == bytes[4] + Base * (bytes[3] + Base * (bytes[2] + Base * bytes[1]))

ReadLength(bytes) == bytes[1] + Base * (bytes[2] + Base * (bytes[3] + Base * bytes[4]))

(* build, when the size is allowed *)
Build(d) ==
  /\ Len(sent) < MaxSent
  /\ Allowed(Len(d), SenderMax)
  /\ sent' = Append(sent, d)
  /\ stream' = stream \o WriteLength(Len(d)) \o d
  /\ UNCHANGED <<data, parsing, datagrams, parser, received, failed>>

(* A receive request completes with the next n bytes. *)
StartParse(n) ==
  /\ ~parsing /\ ~failed
  /\ parsing' = TRUE /\ datagrams' = <<>>
  /\ data' = SubSeq(stream, 1, n)
  /\ stream' = SubSeq(stream, n + 1, Len(stream))
  /\ UNCHANGED <<sent, parser, received, failed>>

(* clear *)
Clear == bufSize' = <<>> /\ lenCurrentDatagram' = 0 /\ buf' = <<>>

(* The length is complete within the data and is taken or refused; when it *)
(* is refused the datagrams before it are dropped with the result queue.   *)
ParseLength ==
  LET n == LengthSize - Len(bufSize)
      length == ReadLength(bufSize \o SubSeq(data, 1, n))
  IN  /\ parsing /\ data # <<>> /\ lenCurrentDatagram = 0 /\ n <= Len(data)
      /\ \/ /\ Allowed(length, ReceiverMax)
            /\ lenCurrentDatagram' = length
            /\ bufSize' = <<>>
            /\ data' = SubSeq(data, n + 1, Len(data))
            /\ UNCHANGED <<buf, parsing, datagrams, failed>>
         \/ /\ ~Allowed(length, ReceiverMax)
            /\ Clear
            /\ data' = <<>> /\ datagrams' = <<>> /\ parsing' = FALSE /\ failed' = TRUE
      /\ UNCHANGED <<sent, stream, received>>

ParsePartOfLength ==
  /\ parsing /\ data # <<>> /\ lenCurrentDatagram = 0
  /\ Len(data) < LengthSize - Len(bufSize)
  /\ bufSize' = bufSize \o data
  /\ data' = <<>>
  /\ UNCHANGED <<sent, stream, parsing, datagrams, lenCurrentDatagram, buf, received, failed>>

ParseContent ==
  LET n == lenCurrentDatagram - Len(buf)
  IN  /\ parsing /\ data # <<>> /\ lenCurrentDatagram # 0 /\ n <= Len(data)
      /\ datagrams' = Append(datagrams, buf \o SubSeq(data, 1, n))
      /\ Clear
      /\ data' = SubSeq(data, n + 1, Len(data))
      /\ UNCHANGED <<sent, stream, parsing, received, failed>>

(* Mutant: a part of the content that fills the piece is not kept. *)
ParsePartOfContentLost ==
  /\ parsing /\ data # <<>> /\ lenCurrentDatagram # 0
  /\ Len(data) < lenCurrentDatagram - Len(buf)
  /\ buf' = data
  /\ data' = <<>>
  /\ UNCHANGED <<sent, stream, parsing, datagrams, bufSize, lenCurrentDatagram, received, failed>>

ParsePartOfContent ==
  /\ parsing /\ data # <<>> /\ lenCurrentDatagram # 0
  /\ Len(data) < lenCurrentDatagram - Len(buf)
  /\ buf' = buf \o data
  /\ data' = <<>>
  /\ UNCHANGED <<sent, stream, parsing, datagrams, bufSize, lenCurrentDatagram, received, failed>>

(* parse() is done: onReceiveStream passes the queue to the listener. *)
Deliver ==
  /\ parsing /\ data = <<>>
  /\ parsing' = FALSE
  /\ received' = received \o datagrams
  /\ datagrams' = <<>>
  /\ UNCHANGED <<sent, stream, data, parser, failed>>

-----------------------------------------------------------------------------
SerializerInit ==
  /\ sent = <<>> /\ stream = <<>>
  /\ data = <<>> /\ parsing = FALSE /\ datagrams = <<>>
  /\ bufSize = <<>> /\ lenCurrentDatagram = 0 /\ buf = <<>>
  /\ received = <<>> /\ failed = FALSE

SerializerNext ==
  \/ \E d \in Datagram : Build(d)
  \/ \E n \in 1 .. Len(stream) : StartParse(n)
  \/ ParseLength \/ ParsePartOfLength \/ ParseContent \/ ParsePartOfContent
  \/ Deliver

SerializerSpec == SerializerInit /\ [][SerializerNext]_serializerVars

-----------------------------------------------------------------------------
(* Properties *)

(* However the stream is cut into pieces, what the listener gets are the   *)
(* datagrams that were sent, in order.                                     *)
Channel == INSTANCE DatagramChannel
ChannelSpec == Channel!Spec

(* When the receiver has taken every byte, it has every datagram and holds *)
(* no byte back; it fails only for a datagram above its own limit.         *)
NothingHeldBack ==
  /\ stream = <<>> /\ ~parsing /\ ~failed => received = sent /\ bufSize = <<>> /\ buf = <<>>
  /\ failed => \E i \in DOMAIN sent : ~Allowed(Len(sent[i]), ReceiverMax)

=============================================================================
