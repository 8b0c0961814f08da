------------------------- MODULE TcpDatagramServer -------------------------
(***************************************************************************)
(* TcpDatagramServer: the loop accepts connections and makes a client of   *)
(* each, while the application closes clients and the server.  A client is *)
(* destroyed, and so closed, when the last reference to it goes: that of   *)
(* the map, of onAccept, or of the application.                            *)
(***************************************************************************)
CONSTANTS
  Clients,      \* the client objects there may be
  NoClient

VARIABLES
  server,       \* m_server: created, running, or closed and null
  closing,      \* close() has removed the clients and not yet m_server
  clients,      \* m_clients
  state,        \* of each client: none, open or closed
  accepting,    \* the client of the onAccept that runs, and what it does next
  held          \* the clients that the application refers to

serverVars == <<server, closing, clients, state, accepting, held>>

-----------------------------------------------------------------------------
NoAccept == [client |-> NoClient, next |-> "none"]

(* The states of the clients when nothing but these refers to them.         *)
Destroy(references) ==
  [c \in Clients |-> IF state[c] = "open" /\ c \notin references
                     THEN "closed" ELSE state[c]]

Start ==
  /\ server = "created"
  /\ server' = "running"
  /\ UNCHANGED <<closing, clients, state, accepting, held>>

(* onAccept: _createForServer, *)
Accept(c) ==
  /\ server = "running" /\ accepting = NoAccept /\ state[c] = "none"
  /\ state' = [state EXCEPT ![c] = "open"]
  /\ accepting' = [client |-> c, next |-> "put"]
  /\ UNCHANGED <<server, closing, clients, held>>

(* Mutant: the client is put in the map when it is connected.               *)
PutLater ==
  \/ /\ accepting.next = "put"
     /\ accepting' = [accepting EXCEPT !.next = "connect"]
     /\ UNCHANGED <<server, closing, clients, state, held>>
  \/ /\ accepting.next = "end"
     /\ clients' = clients \cup {accepting.client}
     /\ accepting' = NoAccept
     /\ UNCHANGED <<server, closing, state, held>>

(* m_clients.put, *)
PutClient ==
  /\ accepting.next = "put"
  /\ clients' = clients \cup {accepting.client}
  /\ accepting' = [accepting EXCEPT !.next = "connect"]
  /\ UNCHANGED <<server, closing, state, held>>

(* and onConnect, which gives the client to the listener.                   *)
OnConnect(keeps) ==
  /\ accepting.next = "connect"
  /\ held' = IF keeps THEN held \cup {accepting.client} ELSE held
  /\ accepting' = [accepting EXCEPT !.next = "end"]
  /\ UNCHANGED <<server, closing, clients, state>>

AcceptEnds ==
  /\ accepting.next = "end"
  /\ accepting' = NoAccept
  /\ state' = Destroy(clients \cup held)
  /\ UNCHANGED <<server, closing, clients, held>>

(* close of a client: an error, which only the loop reports, or a call of   *)
(* the application, also from within onConnect.                             *)
CloseAccepted(c) ==
  /\ state[c] = "open"
  /\ accepting = NoAccept \/ c \in held \/ (accepting.client = c /\ accepting.next = "end")
  /\ state' = [state EXCEPT ![c] = "closed"]
  /\ clients' = clients \ {c}
  /\ UNCHANGED <<server, closing, accepting, held>>

LetGo(c) ==
  /\ c \in held
  /\ held' = held \ {c}
  /\ state' = Destroy(clients \cup held' \cup {accepting.client})
  /\ UNCHANGED <<server, closing, clients, accepting>>

(* close removes the clients, and then, with the lock, the server.          *)
CloseClients ==
  /\ ~closing
  /\ closing' = TRUE
  /\ clients' = {}
  /\ state' = Destroy(held \cup {accepting.client})
  /\ UNCHANGED <<server, accepting, held>>

CloseServer ==
  /\ closing
  /\ closing' = FALSE
  /\ server' = "closed"
  /\ UNCHANGED <<clients, state, accepting, held>>

ServerInit ==
  /\ server = "created" /\ closing = FALSE
  /\ clients = {} /\ held = {}
  /\ state = [c \in Clients |-> "none"]
  /\ accepting = NoAccept

ServerNext ==
  \/ Start \/ PutClient \/ AcceptEnds \/ CloseClients \/ CloseServer
  \/ \E keeps \in BOOLEAN : OnConnect(keeps)
  \/ \E c \in Clients : Accept(c) \/ CloseAccepted(c) \/ LetGo(c)

ServerSpec == ServerInit /\ [][ServerNext]_serverVars

-----------------------------------------------------------------------------
(* The map has only clients that are open, and an open client is in it or  *)
(* somebody else's: what is accepted while close runs is left in the map,  *)
(* where the next close (the destructor's) finds it.                       *)
ClientsAreOpen ==
  \A c \in Clients :
    /\ c \in clients => state[c] = "open"
    /\ state[c] = "open" => c \in clients \cup held \cup {accepting.client}

=============================================================================
