-------------------------- MODULE DatagramChannel --------------------------
(***************************************************************************)
(* What the datagram format promises over one stream: the receiver gets    *)
(* the datagrams that were sent, whole, in order and each once.  A         *)
(* connection may end before all of them are there.                        *)
(***************************************************************************)
EXTENDS Sequences, Naturals

CONSTANT Datagram

VARIABLES sent, received

Init == sent = <<>> /\ received = <<>>

Send(d) == sent' = Append(sent, d) /\ UNCHANGED received

Receive ==
  \E n \in (Len(received) + 1) .. Len(sent) :
    received' = SubSeq(sent, 1, n) /\ UNCHANGED sent

Next == Receive \/ \E d \in Datagram : Send(d)

Spec == Init /\ [][Next]_<<sent, received>>

=============================================================================
