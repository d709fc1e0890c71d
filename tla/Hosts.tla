-------------------------------- MODULE Hosts --------------------------------
(***************************************************************************)
(* What the engines of a node see of the network: the wish list of the     *)
(* node model (datamodel/nodemodel.cpp), which the connector thread serves *)
(* (net/networkconnectorengine.cpp), the open connections of the model     *)
(* (datamodel/model.cpp), and the status reports of the observer           *)
(* (net/networklistener.cpp), which are queued to the main thread and may  *)
(* be about the past when they get there.                                  *)
(*                                                                         *)
(* A module of an engine extends this one and says what else an action     *)
(* changes. The order of the wish list is left out: it is a set, of which  *)
(* any member may be next. Where a connection came from and how two        *)
(* connections to the same node are sorted out is told in Connections;     *)
(* here a connection may close at any time.                                *)
(***************************************************************************)
EXTENDS Naturals, Sequences, FiniteSets, SequencesExt, ListFilter

CONSTANTS
    Nodes,          \* the other nodes of the network
    Self,           \* this node
    NoNode,         \* KNullHash where a node is expected
    Known,          \* nodes that are in the node table
    Dropped,        \* nodes the connector forgets a wish for without a word:
                    \* no usable address, or at the head of its own list
    ConnIds,        \* bound: connections that exist at the same time
    MaxEvents       \* bound: status events waiting in the main thread

Peers == Nodes \cup {Self}

ASSUME HostsAssumption == /\ Self \notin Nodes
                          /\ NoNode \notin Peers
                          /\ Known \subseteq Nodes
                          /\ Dropped \subseteq Nodes
                          /\ MaxEvents \in Nat

VARIABLES
    wishList,     \* NodeModel::iConnectionWishList
    connections,  \* Model::iConnections
    statusEvents  \* queued calls of nodeConnectionAttemptStatus

hostVars == <<wishList, connections, statusEvents>>

NoConnection == [peer |-> NoNode, incoming |-> FALSE, state |-> "None"]

\* "Handshake": the peer's address is known, its node is not. "Ready": the
\* state is Open and node() is set. "Closing": node() is still set.
Connection == [peer : Nodes, incoming : BOOLEAN, state : {"Handshake", "Ready", "Closing"}]
StatusEvent == [status : {"Open", "Closing"}, peer : Nodes]

HostsTypeOK ==
    /\ wishList \subseteq Nodes
    /\ connections \in [ConnIds -> Connection \cup {NoConnection}]
    /\ statusEvents \in Seq(StatusEvent)

HostsInit ==
    /\ wishList = {}
    /\ connections = [c \in ConnIds |-> NoConnection]
    /\ statusEvents = <<>>

Alive == {c \in ConnIds : connections[c] # NoConnection}

\* NodeModel::isNodeAlreadyConnected(const Node&): this node counts as
\* connected, and so does one whose address some connection has, although its
\* handshake is still going on or it is about to close.
HasAddressOf(n) == n = Self \/ \E c \in Alive : connections[c].peer = n

\* NodeModel::isNodeAlreadyConnected(const Hash&).
IsConnected(n) ==
    n = Self \/ \E c \in Alive : connections[c].peer = n /\ connections[c].state = "Ready"

\* The connections Model::addItemToSend finds: bytes for other nodes are deleted.
Reachable(n) == \E c \in Alive : connections[c].peer = n /\ connections[c].state = "Ready"

\* NodeModel::addNodeToConnectionWishList(const Hash&) returns true: the node
\* has been wished for already or is found in the node table.
CanWish(n) == n \in Nodes /\ (n \in wishList \/ n \in Known)

\* Model::getConnections() where node() is set.
Identified == {c \in Alive : connections[c].state \in {"Ready", "Closing"}}

-----------------------------------------------------------------------------
\* Ids of connections are taken in order: they carry no meaning.
FreeId(c) == c \notin Alive /\ \A d \in ConnIds \ Alive : c <= d

NewConnection(n, incoming) ==
    \E c \in ConnIds :
       /\ FreeId(c)
       /\ connections' = [connections EXCEPT
                            ![c] = [peer |-> n, incoming |-> incoming, state |-> "Handshake"]]

\* NetworkConnectorEngine::tryServeWishListItem and spawnNewConnection.
ServeWishListItem(n) ==
    /\ n \in wishList
    /\ wishList' = wishList \ {n}
    /\ IF n \in Dropped THEN UNCHANGED connections ELSE NewConnection(n, FALSE)
    /\ UNCHANGED statusEvents

\* NetworkListener::incomingConnection, as soon as the peer's address is known.
IncomingConnection(n) ==
    /\ NewConnection(n, TRUE)
    /\ UNCHANGED <<wishList, statusEvents>>

\* Connection::socketReady and NetworkListener::connectionReady.
ConnectionReady(c) ==
    /\ c \in Alive /\ connections[c].state = "Handshake"
    /\ Len(statusEvents) < MaxEvents
    /\ connections' = [connections EXCEPT ![c].state = "Ready"]
    /\ statusEvents' = Append(statusEvents, [status |-> "Open", peer |-> connections[c].peer])
    /\ UNCHANGED wishList

\* The read loop ends, for any reason.
ConnectionCloses(c) ==
    /\ c \in Alive /\ connections[c].state = "Ready"
    /\ connections' = [connections EXCEPT ![c].state = "Closing"]
    /\ UNCHANGED <<wishList, statusEvents>>

\* NetworkListener::connectionClosed: reported when the hash is known, as that
\* of the node that was attempted or of the one that was met.
ConnectionClosed_MetOnly(c) ==
    /\ c \in Alive /\ connections[c].state \in {"Handshake", "Closing"}
    /\ Len(statusEvents) < MaxEvents
    /\ connections' = [connections EXCEPT ![c] = NoConnection]
    /\ statusEvents' =
         IF connections[c].state = "Closing"
         THEN Append(statusEvents, [status |-> "Closing", peer |-> connections[c].peer])
         ELSE statusEvents
    /\ UNCHANGED wishList
ConnectionClosed(c) ==
    /\ c \in Alive /\ connections[c].state \in {"Handshake", "Closing"}
    /\ Len(statusEvents) < MaxEvents
    /\ connections' = [connections EXCEPT ![c] = NoConnection]
    /\ statusEvents' =
         IF connections[c].state = "Closing" \/ ~connections[c].incoming
         THEN Append(statusEvents, [status |-> "Closing", peer |-> connections[c].peer])
         ELSE statusEvents
    /\ UNCHANGED wishList

\* Something is on its way that ends in a report on node n.
ReportComing(n) ==
    \/ n \in wishList
    \/ \E c \in Alive : connections[c].peer = n /\ (connections[c].state # "Handshake"
                                                    \/ ~connections[c].incoming)
    \/ \E i \in DOMAIN statusEvents : statusEvents[i].peer = n

\* A connection attempt ends one way or the other.
HandshakeEnds(c) == connections[c].state = "Handshake" /\ (ConnectionReady(c) \/ ConnectionClosed(c))
=============================================================================
