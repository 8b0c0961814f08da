-------------------------------- MODULE Udp ---------------------------------
(***************************************************************************)
(* The network of the UDP protocols of SLibx, outside src/: a packet may   *)
(* be lost, at once when the network is full; there is no order; a packet  *)
(* that was received may be received again.                                *)
(***************************************************************************)
EXTENDS Naturals, FiniteSets

CONSTANTS
  MaxPackets,  \* bound: packets in flight
  Repeats      \* whether the network may deliver a packet more than once

VARIABLE net   \* packets in flight

Send(packets) ==
  net' = IF Cardinality(net \cup packets) <= MaxPackets THEN net \cup packets ELSE net

(* A handler takes p and sends packets. *)
Reply(p, packets) ==
  \E rest \in {net \ {p}} \cup (IF Repeats THEN {net} ELSE {}) :
    net' = IF Cardinality(rest \cup packets) <= MaxPackets THEN rest \cup packets ELSE rest

=============================================================================
