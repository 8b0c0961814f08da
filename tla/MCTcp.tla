------------------------------- MODULE MCTcp -------------------------------
(***************************************************************************)
(* The parts of the TCP datagrams in one model: a client that connects, a  *)
(* server, and the serializer of either.  Each behaviour is one of the     *)
(* part that it chose; nothing that the client must do is enabled before   *)
(* it connects, so its fairness asks nothing of the others.                *)
(***************************************************************************)
EXTENDS TcpDatagramClient, TcpDatagramServer, DatagramSerializer

VARIABLE part

clientVars == vars

TcpInit ==
  /\ part \in {"client", "serializer", "server"}
  /\ Init /\ SerializerInit /\ ServerInit

TcpNext ==
  /\ \/ part = "client" /\ Next /\ UNCHANGED <<serializerVars, serverVars>>
     \/ part = "serializer" /\ SerializerNext /\ UNCHANGED <<clientVars, serverVars>>
     \/ part = "server" /\ ServerNext /\ UNCHANGED <<clientVars, serializerVars>>
  /\ UNCHANGED part

TcpSpec ==
  /\ TcpInit /\ [][TcpNext]_<<part, clientVars, serializerVars, serverVars>>
  /\ Fairness
=============================================================================
