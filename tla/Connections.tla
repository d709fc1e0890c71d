----------------------------- MODULE Connections -----------------------------
(***************************************************************************)
(* The life of the connections of one node, from the socket to the delete: *)
(* Connection::run in a thread per connection (net/connection.cpp), the    *)
(* list of them in the model (datamodel/model.cpp), the observer that      *)
(* reports what becomes of them (net/networklistener.cpp), the connector   *)
(* thread that opens them (net/networkconnectorengine.cpp) and the         *)
(* shutdown of the program (controller.cpp).                               *)
(*                                                                         *)
(* Model::lock(), a recursive mutex, protects the list. A section of code  *)
(* between lock() and unlock() is one step, taken when the mutex is free   *)
(* or the thread's own; lock is the thread that holds the mutex for longer *)
(* than a section, because it left one without releasing it.               *)
(*                                                                         *)
(* What a connection reads and writes is the subject of PacketReader; here *)
(* its read loop is left when it is told to.                               *)
(*                                                                         *)
(* A definition whose name is that of the next one and a suffix is a wrong *)
(* version of it, which one of the properties tells from the right one.    *)
(***************************************************************************)
EXTENDS ThisNode, Sequences, FiniteSets, SequencesExt

CONSTANTS
    NoNode,         \* KNullHash: connection to an address, not to a node
    OwnAddress,     \* peers whose address is one of this host's own
    SlowClose,      \* a connection may need longer than the shutdown waits
    CutsShort,      \* QThread::terminate may hit a thread that has the mutex
    ConnIds,        \* bound: connections that are ever opened
    NoThread,       \* nobody holds the mutex
    Connector       \* the thread of NetworkConnectorEngine

\* Its own advertisement may lead this node back to itself.
Peers == Nodes \cup {Self}

ASSUME NodeAssumption == /\ NoNode \notin Peers
                         /\ OwnAddress \subseteq Peers
ASSUME ThreadAssumption == /\ NoThread \notin ConnIds
                           /\ Connector \notin ConnIds \cup {NoThread}
ASSUME SettingAssumption == SlowClose \in BOOLEAN /\ CutsShort \in BOOLEAN

VARIABLES
    list,        \* Model::iConnections
    phase,       \* where Connection::run of each connection is
    peer,        \* the node at the other end of the socket
    incoming,    \* iSocketIsIncoming
    wanted,      \* iFpOfNodeWeTrying
    state,       \* iConnectionState
    socket,      \* of iSocket
    needsToRun,  \* iNeedsToRun
    known,       \* iNodeOfConnectedPeer is set
    reports,     \* history: nodeConnectionAttemptStatus signals emitted
    freed,       \* history: connections whose object is deleted
    lock,        \* who holds the mutex outside a section
    main         \* how far the main thread is with the shutdown

identity   == <<peer, incoming>>
threadVars == <<phase, state, socket, needsToRun, wanted, known>>
vars == <<list, threadVars, identity, reports, freed, lock, main>>

Phases == {"none", "starting", "handshake", "identified", "reading", "ended", "finished"}

TypeOK ==
    /\ list \in Seq(ConnIds)
    /\ phase \in [ConnIds -> Phases]
    /\ peer \in [ConnIds -> Peers \cup {NoNode}]
    /\ incoming \in [ConnIds -> BOOLEAN]
    /\ wanted \in [ConnIds -> Nodes \cup {NoNode}]
    /\ state \in [ConnIds -> {"Initial", "Open", "Closing"}]
    /\ socket \in [ConnIds -> {"connecting", "up", "down"}]
    /\ needsToRun \in [ConnIds -> BOOLEAN]
    /\ known \in [ConnIds -> BOOLEAN]
    /\ reports \in [ConnIds -> Seq({"Open", "Closing"})]
    /\ freed \subseteq ConnIds
    /\ lock \in ConnIds \cup {NoThread, Connector}
    /\ main \in {"running", "stopping", "closing", "waiting", "deleting", "over"}

Init ==
    /\ list = <<>>
    /\ phase = [c \in ConnIds |-> "none"]
    /\ peer = [c \in ConnIds |-> NoNode]
    /\ incoming = [c \in ConnIds |-> FALSE]
    /\ wanted = [c \in ConnIds |-> NoNode]
    /\ state = [c \in ConnIds |-> "Initial"]
    /\ socket = [c \in ConnIds |-> "connecting"]
    /\ needsToRun = [c \in ConnIds |-> TRUE]
    /\ known = [c \in ConnIds |-> FALSE]
    /\ reports = [c \in ConnIds |-> <<>>]
    /\ freed = {} /\ lock = NoThread /\ main = "running"

Free == lock = NoThread
MayLock(c) == lock \in {NoThread, c}

\* The thread is in this phase and its object has not been deleted under it.
At(c, p) == phase[c] = p /\ c \notin freed

-----------------------------------------------------------------------------
(* Connections come into being.                                            *)

\* NodeModel::closeOldestInactiveConnection: the one that was silent longest
\* of those that are not of the local network and that nothing is asked of.
CloseOldestInactive(candidates) ==
    \/ UNCHANGED needsToRun
    \/ \E c \in candidates : needsToRun' = [needsToRun EXCEPT ![c] = FALSE]

\* Model::addOpenNetworkConnection, and the thread is started.
AddOpenNetworkConnection(c) ==
    /\ phase[c] = "none"
    /\ list' = Append(list, c)
    /\ IF Len(list') > MaxOpen THEN CloseOldestInactive(ToSet(list)) ELSE UNCHANGED needsToRun
    /\ phase' = [phase EXCEPT ![c] = "starting"]
    /\ UNCHANGED <<state, socket, known, reports, freed, lock, main>>

\* NetworkListener::incomingConnection, in the main thread.
IncomingConnection(c, n) ==
    /\ main = "running"
    /\ Free
    /\ AddOpenNetworkConnection(c)
    /\ peer' = [peer EXCEPT ![c] = n]
    /\ incoming' = [incoming EXCEPT ![c] = TRUE]
    /\ UNCHANGED wanted

\* NetworkConnectorEngine::spawnNewConnection, with the node that is expected
\* at the address, if any, and the one that is really there. The connector
\* looks at its own iNeedsToRun only between two of these.
SpawnNewConnection(c, expected, n) ==
    /\ main \in {"running", "stopping"}
    /\ Free
    /\ AddOpenNetworkConnection(c)
    /\ peer' = [peer EXCEPT ![c] = n]
    /\ wanted' = [wanted EXCEPT ![c] = expected]
    /\ UNCHANGED incoming

\* updateListOfNodesToConnect makes room for a neighbour in the ring.
MakeRoomForNeighbour ==
    /\ main \in {"running", "stopping"}
    /\ Free
    /\ Len(list) > MaxOpen
    /\ CloseOldestInactive(ToSet(list))
    /\ UNCHANGED <<list, phase, state, socket, wanted, known, identity, reports, freed,
                   lock, main>>

-----------------------------------------------------------------------------
(* Connection::run.                                                        *)

\* Certificate and key are taken from the model; or the descriptor of an
\* incoming socket is of no use and run() is through.
StartRun(c) ==
    /\ At(c, "starting")
    /\ \/ MayLock(c) /\ phase' = [phase EXCEPT ![c] = "handshake"]
       \/ incoming[c] /\ phase' = [phase EXCEPT ![c] = "ended"]
    /\ UNCHANGED <<list, state, socket, needsToRun, wanted, known, identity, reports,
                   freed, lock, main>>

\* The first open connection to the same node that the loop over the list
\* meets is the one that counts, whether it goes on or is about to end.
SameNode(c) == {i \in 1 .. Len(list) : /\ list[i] # c
                                       /\ state[list[i]] = "Open"
                                       /\ peer[list[i]] = peer[c]}
IsDouble(c) ==
    \E i \in SameNode(c) : /\ \A j \in SameNode(c) : i <= j
                           /\ needsToRun[list[i]]

\* Model::connectionStateChanged(Open).
KeepsRunning(c) == needsToRun[c] /\ peer[c] # Self /\ ~IsDouble(c)

\* The slot socketReady: the handshake is done. At an address of our own it
\* closes the socket and returns with the mutex held.
SocketReady(c) ==
    /\ At(c, "handshake")
    /\ state[c] = "Initial" /\ socket[c] = "connecting"
    /\ MayLock(c)
    /\ state' = [state EXCEPT ![c] = "Open"]
    /\ IF peer[c] \in OwnAddress
       THEN /\ needsToRun' = [needsToRun EXCEPT ![c] = FALSE]
            /\ socket' = [socket EXCEPT ![c] = "down"]
            /\ lock' = c
       ELSE /\ needsToRun' = [needsToRun EXCEPT ![c] = KeepsRunning(c)]
            /\ socket' = [socket EXCEPT ![c] = "up"]
            /\ UNCHANGED lock
    /\ UNCHANGED <<list, phase, wanted, known, identity, reports, freed, main>>

\* Ten seconds are over, if only just: the socket is aborted.
HandshakeTimesOut(c) ==
    /\ At(c, "handshake")
    /\ phase' = [phase EXCEPT ![c] = "ended"]
    /\ socket' = [socket EXCEPT ![c] = "down"]
    /\ needsToRun' = [needsToRun EXCEPT ![c] = FALSE]
    /\ UNCHANGED <<list, state, wanted, known, identity, reports, freed, lock, main>>

\* Somebody else than was asked for, or this node.
WrongPeer(c) == peer[c] = Self \/ wanted[c] \notin {NoNode, peer[c]}

\* The certificate tells who the peer is: somebody else than was expected, or
\* this node, is closed, yet becomes the connection's node. An outgoing
\* connection whose two ends have the same address does not get that far: one
\* to an own address, or one that is down already and has no address any more.
Identify(c) ==
    /\ At(c, "handshake") /\ state[c] = "Open"
    /\ IF ~incoming[c] /\ (peer[c] \in OwnAddress \/ socket[c] = "down")
       THEN /\ phase' = [phase EXCEPT ![c] = "ended"]
            /\ needsToRun' = [needsToRun EXCEPT ![c] = FALSE]
            /\ UNCHANGED <<socket, known>>
       ELSE /\ MayLock(c)
            /\ needsToRun' = [needsToRun EXCEPT ![c] = @ /\ ~WrongPeer(c)]
            /\ socket' = [socket EXCEPT ![c] = IF WrongPeer(c) THEN "down" ELSE @]
            /\ known' = [known EXCEPT ![c] = TRUE]
            /\ phase' = [phase EXCEPT ![c] = "identified"]
    /\ UNCHANGED <<list, state, wanted, identity, reports, freed, lock, main>>

\* readLoop begins, and NetworkListener::connectionReady reports so.
ConnectionReady(c) ==
    /\ At(c, "identified") /\ MayLock(c)
    /\ reports' = [reports EXCEPT ![c] = Append(@, state[c])]
    /\ phase' = [phase EXCEPT ![c] = "reading"]
    /\ UNCHANGED <<list, state, socket, needsToRun, wanted, known, identity, freed, lock, main>>

\* Nothing came of a read for too long, or a write failed.
GivesUp(c) ==
    /\ At(c, "reading") /\ needsToRun[c] /\ MayLock(c)
    /\ state' = [state EXCEPT ![c] = "Closing"]
    /\ socket' = [socket EXCEPT ![c] = "down"]
    /\ needsToRun' = [needsToRun EXCEPT ![c] = FALSE]
    /\ UNCHANGED <<list, phase, wanted, known, identity, reports, freed, lock, main>>

\* readLoop is left and the peer waited for; an incoming connection says so.
ReadLoopEnds_OutgoingStays(c) ==
    /\ At(c, "reading")
    /\ ~needsToRun[c] /\ incoming[c]
    /\ MayLock(c) /\ state' = [state EXCEPT ![c] = "Closing"]
    /\ phase' = [phase EXCEPT ![c] = "ended"]
    /\ socket' = [socket EXCEPT ![c] = "down"]
    /\ UNCHANGED <<list, needsToRun, wanted, known, identity, reports, freed, lock, main>>
ReadLoopEnds(c) ==
    /\ At(c, "reading")
    /\ ~needsToRun[c]
    /\ IF incoming[c] THEN MayLock(c) /\ state' = [state EXCEPT ![c] = "Closing"]
                      ELSE UNCHANGED state
    /\ phase' = [phase EXCEPT ![c] = "ended"]
    /\ socket' = [socket EXCEPT ![c] = "down"]
    /\ UNCHANGED <<list, needsToRun, wanted, known, identity, reports, freed, lock, main>>

\* Whether there is a hash to report: the one attempted or the node's own.
HasHash_Attempted(c) == wanted[c] # NoNode
HasHash(c) == wanted[c] # NoNode \/ known[c]

\* Model::removeOpenNetworkConnection, the list: its first entry for c goes.
RemoveOpenNetworkConnection_Kept(c) == UNCHANGED list
RemoveOpenNetworkConnection(c) ==
    IF Contains(list, c)
    THEN \E i \in 1 .. Len(list) :
            /\ list[i] = c
            /\ \A j \in 1 .. (i - 1) : list[j] # c
            /\ list' = RemoveAt(list, i)
    ELSE UNCHANGED list

\* run() ends: NetworkListener::connectionClosed takes the connection off the
\* list and reports.
ConnectionClosed(c) ==
    /\ At(c, "ended") /\ MayLock(c)
    /\ state' = [state EXCEPT ![c] = "Closing"]
    /\ RemoveOpenNetworkConnection(c)
    /\ reports' = IF HasHash(c) THEN [reports EXCEPT ![c] = Append(@, "Closing")] ELSE reports
    /\ known' = [known EXCEPT ![c] = FALSE]
    /\ phase' = [phase EXCEPT ![c] = "finished"]
    /\ UNCHANGED <<socket, needsToRun, wanted, identity, freed, lock, main>>

\* The thread has finished and the object is deleted with it.
DeleteLater(c) ==
    /\ At(c, "finished") /\ MayLock(c)
    /\ freed' = freed \cup {c}
    /\ UNCHANGED <<list, threadVars, identity, reports, lock, main>>

-----------------------------------------------------------------------------
(* What others do to a connection.                                         *)

\* The slots socketError, sslErrors and disconnected.
PeerDisconnects(c) ==
    /\ At(c, "handshake") \/ At(c, "reading")
    /\ socket[c] # "down"
    /\ socket' = [socket EXCEPT ![c] = "down"]
    /\ needsToRun' = [needsToRun EXCEPT ![c] = FALSE]
    /\ UNCHANGED <<list, phase, state, wanted, known, identity, reports, freed, lock, main>>

\* Model::timerEvent, forciblyCloseSocket: no traffic for 32 minutes.
CloseDead(c) ==
    /\ main = "running" /\ Free
    /\ At(c, "reading")
    /\ needsToRun' = [needsToRun EXCEPT ![c] = FALSE]
    /\ wanted' = [wanted EXCEPT ![c] = NoNode]
    /\ UNCHANGED <<list, phase, state, socket, known, identity, reports, freed, lock, main>>

-----------------------------------------------------------------------------
(* Controller::~Controller.                                                *)

\* Nothing is accepted any more ...
Quit ==
    /\ main = "running"
    /\ main' = "stopping"
    /\ UNCHANGED <<list, threadVars, identity, reports, freed, lock>>

\* ... the connector thread is terminated wherever it is ...
TerminateConnector ==
    /\ main = "stopping"
    /\ main' = "closing"
    /\ lock' \in {lock} \cup IF CutsShort /\ Free THEN {Connector} ELSE {}
    /\ UNCHANGED <<list, threadVars, identity, reports, freed>>

\* ... closeAllConnections(false) tells the connections to close ...
CloseAllConnections_Newest ==
    /\ main = "closing"
    /\ main' = "waiting"
    /\ needsToRun' = [c \in ConnIds |-> needsToRun[c] /\ (list = <<>> \/ c # Last(list))]
    /\ UNCHANGED <<list, phase, state, socket, wanted, known, identity, reports, freed, lock>>
CloseAllConnections ==
    /\ main = "closing"
    /\ main' = "waiting"
    /\ needsToRun' = [c \in ConnIds |-> needsToRun[c] /\ c \notin ToSet(list)]
    /\ UNCHANGED <<list, phase, state, socket, wanted, known, identity, reports, freed, lock>>

\* ... which they have thirty seconds for ...
StopWaiting ==
    /\ main = "waiting"
    /\ list = <<>> \/ SlowClose
    /\ main' = "deleting"
    /\ UNCHANGED <<list, threadVars, identity, reports, freed, lock>>

\* ... before closeAllConnections(true) deletes what is left; the observer and
\* the model go after it.
DeleteRemaining ==
    /\ main = "deleting"
    /\ list # <<>> => Free
    /\ freed' = freed \cup ToSet(list)
    /\ main' = "over"
    /\ UNCHANGED <<list, threadVars, identity, reports, lock>>

-----------------------------------------------------------------------------
ThreadStep(c) ==
    \/ StartRun(c) \/ SocketReady(c) \/ HandshakeTimesOut(c) \/ Identify(c)
    \/ ConnectionReady(c) \/ ReadLoopEnds(c) \/ ConnectionClosed(c) \/ DeleteLater(c)

Shutdown == TerminateConnector \/ CloseAllConnections \/ StopWaiting \/ DeleteRemaining

Next ==
    \/ \E c \in ConnIds, n \in Peers : IncomingConnection(c, n)
    \/ \E c \in ConnIds, e \in Nodes \cup {NoNode}, n \in Peers : SpawnNewConnection(c, e, n)
    \/ MakeRoomForNeighbour
    \/ \E c \in ConnIds : ThreadStep(c) \/ GivesUp(c) \/ PeerDisconnects(c) \/ CloseDead(c)
    \/ Quit
    \/ Shutdown

Spec == Init /\ [][Next]_vars

\* Each thread runs. The peers, the network, the user and the clock that finds
\* a connection dead need not do anything.
FairSpec == Spec /\ WF_vars(Shutdown) /\ \A c \in ConnIds : WF_vars(ThreadStep(c))

-----------------------------------------------------------------------------
(* Properties.                                                             *)

\* The publishing engine and the request executor wait for the report on a
\* connection attempt: an attempt that named a node, and a connection that was
\* reported open, ends with exactly one "Closing" after at most one "Open".
ReportsAreComplete ==
    \A c \in ConnIds :
        LET closed == phase[c] = "finished" /\ reports[c] # <<>>
        IN /\ reports[c] \in {<<>>, <<"Open">>, <<"Closing">>, <<"Open", "Closing">>}
           /\ phase[c] = "finished" /\ wanted[c] # NoNode => closed
           /\ closed <=> "Closing" \in ToSet(reports[c])

\* Packets are taken only from the node that was asked for, and never from
\* this node itself, whoever sits at the address: the certificate decides,
\* not the address, and it is looked at twice, before and after the list of
\* connections.
ReadsFromRightNode ==
    \A c \in ConnIds :
        phase[c] = "reading" /\ needsToRun[c] => /\ peer[c] # Self
                                                 /\ wanted[c] \in {NoNode, peer[c]}

\* The list holds every connection whose thread has not closed it, once, and
\* no object that is deleted: others walk over the list and use what is in it.
\* model.cpp on the shutdown: the connections "have been deleted too", "usually
\* the loop below is looped 0 times".
NoDanglingConnection ==
    /\ IsInjective(list)
    /\ ToSet(list) = {c \in ConnIds : phase[c] \notin {"none", "finished"}}
    /\ ToSet(list) \cap freed = {}

\* The mutex is lost: it is held outside of any section.
LockLost == lock # NoThread

\* A connection that is told to close, for whatever reason and by whomever,
\* leaves the list, whichever stage it is in. Without the mutex it cannot.
ClosesWhenTold ==
    \A c \in ConnIds :
        phase[c] # "none" /\ ~needsToRun[c] ~> phase[c] = "finished" \/ LockLost

\* The shutdown needs no force: without SlowClose, main waits as long as there
\* is a connection in the list, and none is left there that nobody told to
\* close or that the main thread itself keeps from closing.
ShutdownEnds == main = "stopping" ~> main = "over" \/ LockLost

-----------------------------------------------------------------------------
(* What the comments of the code promise and the code does not do.         *)

\* connection.cpp: "we must first lock(), then release()".
LockIsReleased == \A c \in ConnIds : phase[c] # "none" => lock # c

\* model.cpp: "check that we don't have duplicate connection".
NoDuplicateConnection ==
    \A c, d \in ToSet(list) :
        /\ state[c] = "Open" /\ needsToRun[c]
        /\ state[d] = "Open" /\ needsToRun[d]
        /\ peer[c] = peer[d]
        => c = d
=============================================================================
