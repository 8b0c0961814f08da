------------------------------ MODULE HnsRelay ------------------------------
(***************************************************************************)
(* What the host name service promises of the messages it relays: a        *)
(* channel that may lose, repeat and reorder them, but that passes to a    *)
(* client only what some client sent to it, under the id of that sender.   *)
(***************************************************************************)
CONSTANTS Clients, MessageIds

VARIABLES
  sent,     \* <<sender, target, message id>> handed over for sending
  received  \* <<sender, target, message id>> passed to the target

Message == Clients \X Clients \X MessageIds

Init == sent = {} /\ received = {}

Send(c, d, m) == sent' = sent \cup {<<c, d, m>>} /\ UNCHANGED received

(* A broadcast is sent to every client but its sender. *)
Broadcast(c, m) ==
  /\ sent' = sent \cup {<<c, d, m>> : d \in Clients \ {c}}
  /\ UNCHANGED received

Deliver(x) == x \in sent /\ received' = received \cup {x} /\ UNCHANGED sent

Next ==
  \/ \E c, d \in Clients, m \in MessageIds : Send(c, d, m)
  \/ \E c \in Clients, m \in MessageIds : Broadcast(c, m)
  \/ \E x \in sent : Deliver(x)

Spec == Init /\ [][Next]_<<sent, received>>

=============================================================================
