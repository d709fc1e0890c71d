----------------------------- MODULE Publishing -----------------------------
(***************************************************************************)
(* How a node of classified-ads pushes its own and its forwarded content   *)
(* to other nodes: the "publish" table (datamodel/model.cpp), the          *)
(* PublishingEngine that works on one row of it at a time                  *)
(* (net/publishingengine.cpp), the connection wish list it fills, the      *)
(* connector thread that serves the list, the connections that come and go *)
(* in their own threads, the queued status events they send back, and the  *)
(* queue of network requests the engine hands its work to.                 *)
(*                                                                         *)
(* One recursive mutex, Model::lock(), serialises the threads. The engine, *)
(* the request executor and the status slots run in the main thread; the   *)
(* connector and every connection run in threads of their own. pc says     *)
(* where PublishingEngine::run() is: in "timer" it is not running and the  *)
(* main thread may do something else, and in Unlocked places another       *)
(* thread may take the mutex.                                              *)
(*                                                                         *)
(* A definition whose name is that of the next one and a suffix is a wrong *)
(* version of it, which one of the properties below tells from the right   *)
(* one.                                                                    *)
(***************************************************************************)
EXTENDS Naturals, Sequences, FiniteSets, SequencesExt

CONSTANTS
    Nodes,          \* the other nodes of the network
    Self,           \* this node; its own row may sit in the node table too
    Profiles,       \* hashes published once, to the nodes after the hash
    Ads,            \* hashes of classified ads, published twice
    Group,          \* the 2nd address of an ad: hash of its classification
    NoHash,         \* KNullHash
    HostsEnough,    \* 5 in the code: bangpath1..bangpath5
    BangPaths,      \* paths content may arrive with from a peer, <<>> included
    NodesAfter,     \* NodesAfter[a]: lists getNodesAfterHash(a) may return
    Unroutable,     \* nodes whose only address is of a family we do not have
    Listed,         \* nodes the connector finds by itself
    NoNode,         \* "the connector's own list is empty"
    RetryInterval,  \* ten minutes, in ticks of the clock
    MaxTime,        \* bound: the clock stops here
    ConnIds,        \* bound: connections that exist at the same time
    MaxIncoming,    \* bound: incoming ones among them
    MaxEvents       \* bound: status events waiting in the main thread

Peers == Nodes \cup {Self}
Hashes == Profiles \cup Ads
Addresses == Hashes \cup {Group}

\* A row of the table is known by its item type and its hash.
RowKeys == ({"UserProfile"} \X Profiles)
             \cup ({"ClassifiedAdPublish", "ClassifiedAd2NdAddr"} \X Ads)

ASSUME PeersAssumption == /\ Self \notin Nodes
                          /\ NoNode \notin Peers
                          /\ Unroutable \subseteq Nodes
                          /\ Listed \subseteq Nodes
ASSUME HashAssumption == /\ NoHash \notin Addresses
                         /\ Profiles \cap Ads = {}
ASSUME NumberAssumption ==
    /\ {HostsEnough, RetryInterval, MaxTime, MaxIncoming, MaxEvents} \subseteq Nat
    /\ HostsEnough > 0
    /\ RetryInterval < MaxTime
    /\ ConnIds \subseteq Nat
    /\ IsFiniteSet(ConnIds)
ASSUME PathAssumption == /\ BangPaths \subseteq Seq(Peers)
                         /\ NodesAfter \in [Addresses -> SUBSET Seq(Peers)]

VARIABLES
    publish,      \* the rows: [bangpath, lastTried, secondary] by row key
    now,          \* the clock
    pc,           \* where PublishingEngine::run() is
    cursor,       \* index of the loop the engine is in
    nodesToTry,   \* result of getNodesAfterHash not yet distributed
    workItem,     \* iWorkItem
    candidates,   \* iNodeCandidatesToTryPush
    successful,   \* iNodesSuccessfullyConnected
    failed,       \* iNodesFailurefullyConnected
    wishList,     \* NodeModel::iConnectionWishList
    nextAddress,  \* head of NetworkConnectorEngine::iAddressesInOrderToConnect
    connections,  \* Model::iConnections
    statusEvents, \* queued calls of nodeConnectionAttemptStatus
    requests,     \* publish requests in Model::iNetReqQueue
    asked         \* history: nodes a request was queued for, since the last add

tableVars   == <<publish, now>>
engineVars  == <<pc, cursor, nodesToTry, workItem, candidates, successful, failed>>
networkVars == <<wishList, nextAddress, connections, statusEvents>>
vars == <<tableVars, engineVars, networkVars, requests, asked>>

NoWork == [hash |-> NoHash, pushed |-> <<>>]
NoConnection == [peer |-> NoNode, incoming |-> FALSE, state |-> "None"]

Row == [bangpath : Seq(Peers), lastTried : Nat, secondary : Addresses \cup {NoHash}]
WorkItem == {NoWork} \cup [hash : Hashes, pushed : Seq(Peers)]
\* "Initial": handshake pending. "Open": encrypted, peer node not known yet.
\* "Ready": iNodeOfConnectedPeer is set and the observers have been told.
Connection == [peer : Nodes, incoming : BOOLEAN, state : {"Initial", "Open", "Ready"}]
StatusEvent == [status : {"Open", "Closing"}, peer : Nodes]
Request == [node : Nodes, hash : Hashes]

TypeOK ==
    /\ DOMAIN publish \subseteq RowKeys
    /\ publish \in [DOMAIN publish -> Row]
    /\ now \in Nat
    /\ pc \in {"timer", "distribute", "initial", "sendConnected",
               "askEntry", "ask", "success", "failEntry", "fail"}
    /\ cursor \in Nat
    /\ nodesToTry \in Seq(Peers)
    /\ workItem \in WorkItem
    /\ candidates \in Seq(Peers)
    /\ successful \in SUBSET Nodes
    /\ failed \in SUBSET Nodes
    /\ wishList \in Seq(Nodes)
    /\ nextAddress \in Nodes \cup {NoNode}
    /\ connections \in [ConnIds -> Connection \cup {NoConnection}]
    /\ statusEvents \in Seq(StatusEvent)
    /\ requests \in SUBSET Request
    /\ asked \in [Hashes -> Seq(Nodes)]

Init ==
    /\ publish = [key \in {} |-> [bangpath |-> <<>>, lastTried |-> 0, secondary |-> NoHash]]
    /\ now = RetryInterval + 1
    /\ pc = "timer" /\ cursor = 0
    /\ nodesToTry = <<>> /\ workItem = NoWork /\ candidates = <<>>
    /\ successful = {} /\ failed = {}
    /\ wishList = <<>> /\ nextAddress = NoNode
    /\ connections = [c \in ConnIds |-> NoConnection]
    /\ statusEvents = <<>> /\ requests = {}
    /\ asked = [h \in Hashes |-> <<>>]

-----------------------------------------------------------------------------
\* The mutex is free for another thread.
Unlocked == pc \in {"timer", "initial", "askEntry", "failEntry"}

Alive == {c \in ConnIds : connections[c] # NoConnection}

\* NodeModel::isNodeAlreadyConnected(const Node&): this node counts as
\* connected, and so does a connection whose address is known although its
\* handshake is still going on.
IsNodeAlreadyConnected(n) ==
    \/ n = Self
    \/ \E c \in Alive : /\ connections[c].peer = n
                        /\ connections[c].state # "Initial" \/ ~connections[c].incoming

\* A connection whose node() is set.
HasNodeConnection(n) ==
    \E c \in Alive : connections[c].peer = n /\ connections[c].state = "Ready"

RowsOf(h) == {key \in DOMAIN publish : key[2] = h}

-----------------------------------------------------------------------------
(***************************************************************************)
(* Adding content: Model::addItemToBePublished.                            *)
(***************************************************************************)

\* One call: insert the row of this type or, if it exists, reset the rows of
\* the hash, whatever their type. A secondary address is stored as the hash
\* of the content itself.
AddRow(table, type, h, path, secondary) ==
    LET fresh == [bangpath |-> path, lastTried |-> 0,
                  secondary |-> IF secondary = NoHash THEN NoHash ELSE h]
    IN IF <<type, h>> \in DOMAIN table
       THEN [key \in DOMAIN table |-> IF key[2] = h THEN fresh ELSE table[key]]
       ELSE [key \in DOMAIN table \cup {<<type, h>>} |->
                IF key = <<type, h>> THEN fresh ELSE table[key]]

\* A profile is added once; an ad is added twice in a row, once for its
\* content address and once for the address of its classification.
RowsAdded(h, path) ==
    IF h \in Ads
    THEN AddRow(AddRow(publish, "ClassifiedAdPublish", h, path, NoHash),
                "ClassifiedAd2NdAddr", h, path, Group)
    ELSE AddRow(publish, "UserProfile", h, path, NoHash)

\* The user publishes the content, or a peer's publish of it arrived.
AddItemToBePublished(h, path) ==
    /\ Unlocked
    /\ Len(path) < HostsEnough           \* else "consider it published"
    /\ publish' = RowsAdded(h, path)
    /\ asked' = [asked EXCEPT ![h] = <<>>]
    /\ UNCHANGED <<now, engineVars, networkVars, requests>>

\* Time is read at one place, where the engine picks a row: it may as well
\* pass while the engine is not running.
Tick ==
    /\ pc = "timer" /\ now < MaxTime
    /\ now' = now + 1
    /\ UNCHANGED <<publish, engineVars, networkVars, requests, asked>>

-----------------------------------------------------------------------------
(***************************************************************************)
(* Handing the work item to one node: publishToNode and the                *)
(* addNodeToPublishedItem it calls. Everything here runs with the mutex    *)
(* held.                                                                   *)
(***************************************************************************)

\* The bangpath the select by hash alone finds: the one of any row of the
\* hash, and an empty one when no row is left.
BangPathsFound(h) ==
    IF RowsOf(h) = {} THEN {<<>>} ELSE {publish[key].bangpath : key \in RowsOf(h)}

\* How many hosts are enough: five, or fewer when getHotAddresses(), which
\* leaves out the nodes we are connected to, is shorter than that.
HostCounts == 0 .. HostsEnough

\* The rows of the hash get this bangpath, whatever their item type.
StoreBangPath_NotStored(h, path) == UNCHANGED publish
StoreBangPath_FirstRow(h, path) ==
    publish' = IF RowsOf(h) = {} THEN publish
               ELSE [publish EXCEPT ![CHOOSE key \in RowsOf(h) : TRUE].bangpath = path]
StoreBangPath(h, path) ==
    publish' = [key \in DOMAIN publish |->
                  IF key[2] = h THEN [publish[key] EXCEPT !.bangpath = path] ELSE publish[key]]

\* The rows of the hash are deleted and the engine gets a null hash back.
ConsiderPublished_HashKept(h) ==
    /\ publish' = [key \in DOMAIN publish \ RowsOf(h) |-> publish[key]]
    /\ UNCHANGED workItem
ConsiderPublished(h) ==
    /\ publish' = [key \in DOMAIN publish \ RowsOf(h) |-> publish[key]]
    /\ workItem' = NoWork

\* The table and the work item after node n has been recorded for hash h.
AddNodeToPublishedItem(h, n) ==
    \E path \in BangPathsFound(h), enough \in HostCounts :
       IF Len(path) >= enough
       THEN ConsiderPublished(h)
       ELSE LET longer == IF Contains(path, n) THEN path ELSE Append(path, n)
            IN /\ StoreBangPath(h, longer)
               /\ workItem' = [hash |-> h, pushed |-> longer]

\* The work item's node n gets a request, unless it is in the bangpath;
\* Model::addNetworkRequest leaves out a request to this node itself.
QueueForNode(n) ==
    IF Contains(workItem.pushed, n)
    THEN UNCHANGED <<publish, workItem, requests, asked>>
    ELSE LET h == workItem.hash
         IN /\ IF n = Self
               THEN UNCHANGED <<requests, asked>>
               ELSE /\ requests' = requests \cup {[node |-> n, hash |-> h]}
                    /\ asked' = [asked EXCEPT ![h] = Append(@, n)]
            /\ AddNodeToPublishedItem(h, n)

\* The candidate list loses its last entry for node n.
RemoveCandidate(n) ==
    IF Contains(candidates, n)
    THEN \E i \in 1 .. Len(candidates) :
            /\ candidates[i] = n
            /\ \A j \in (i + 1) .. Len(candidates) : candidates[j] # n
            /\ candidates' = RemoveAt(candidates, i)
    ELSE UNCHANGED candidates

\* PublishingEngine::publishToNode. When the hash it is given belongs to the
\* candidate it deletes (dangling), the status lists are searched for whatever
\* the freed memory holds: for n, or for nothing that is in them.
PublishToNode(n, dangling) ==
    /\ QueueForNode(n)
    /\ RemoveCandidate(n)
    /\ \E seen \in {{n}} \cup IF dangling THEN {{}} ELSE {} :
          /\ successful' = successful \ seen
          /\ failed' = failed \ seen

-----------------------------------------------------------------------------
(***************************************************************************)
(* PublishingEngine::run, from one release of the mutex to the next; the   *)
(* loops that hold it are taken one iteration at a time.                   *)
(***************************************************************************)

\* Rows not tried for ten minutes, those tried last coming first.
Eligible == {key \in DOMAIN publish : publish[key].lastTried + RetryInterval < now}
NextRows == {key \in Eligible :
               \A other \in Eligible : publish[other].lastTried <= publish[key].lastTried}

\* Where an item of this row is to be published.
AddressOf(key) ==
    IF key[1] = "ClassifiedAd2NdAddr" /\ publish[key].secondary # NoHash
    THEN publish[key].secondary ELSE key[2]

\* Model::nextItemToPublish, then getNodesAfterHash around the item's address.
PickItem(key) ==
    /\ pc = "timer" /\ workItem = NoWork
    /\ key \in NextRows
    /\ publish' = [k \in DOMAIN publish |->
                      IF k[2] = key[2] THEN [publish[k] EXCEPT !.lastTried = now]
                                       ELSE publish[k]]
    /\ \E list \in NodesAfter[AddressOf(key)] :
          IF list = <<>>
          THEN UNCHANGED <<pc, nodesToTry, workItem, candidates>>
          ELSE /\ nodesToTry' = list
               /\ candidates' = <<>>
               /\ workItem' = [hash |-> key[2], pushed |-> publish[key].bangpath]
               /\ pc' = "distribute"
    /\ successful' = {} /\ failed' = {}
    /\ UNCHANGED <<now, cursor, networkVars, requests, asked>>

\* One node of the list: push to it when it is connected, else keep it.
DistributeNode ==
    /\ pc = "distribute" /\ nodesToTry # <<>>
    /\ LET n == Head(nodesToTry)
       IN IF IsNodeAlreadyConnected(n)
          THEN IF workItem = NoWork
               THEN UNCHANGED <<publish, workItem, requests, asked, candidates, successful, failed>>
               ELSE PublishToNode(n, FALSE)
          ELSE /\ candidates' = Append(candidates, n)
               /\ UNCHANGED <<publish, workItem, requests, asked, successful, failed>>
    /\ nodesToTry' = Tail(nodesToTry)
    /\ UNCHANGED <<now, pc, cursor, networkVars>>

\* The list is distributed and the mutex released; the item may be done.
EndDistribute ==
    /\ pc = "distribute" /\ nodesToTry = <<>>
    /\ pc' = IF workItem = NoWork THEN "timer" ELSE "initial"
    /\ UNCHANGED <<tableVars, cursor, nodesToTry, workItem, candidates, successful,
                   failed, networkVars, requests, asked>>

\* InitialStage, sendPublishItemToAlreadyConnectedNodes takes the mutex.
BeginSendConnected ==
    /\ pc = "initial"
    /\ pc' = "sendConnected" /\ cursor' = Len(candidates)
    /\ UNCHANGED <<tableVars, nodesToTry, workItem, candidates, successful, failed,
                   networkVars, requests, asked>>

\* A candidate that got connected meanwhile is pushed to, or left out when
\* the item has been at it already.
SendConnectedNode ==
    /\ pc = "sendConnected" /\ cursor > 0 /\ workItem # NoWork
    /\ LET n == candidates[cursor]
       IN IF ~HasNodeConnection(n)
          THEN UNCHANGED <<publish, workItem, requests, asked, candidates, successful, failed>>
          ELSE IF Contains(workItem.pushed, n)
               THEN /\ candidates' = RemoveAt(candidates, cursor)
                    /\ UNCHANGED <<publish, workItem, requests, asked, successful, failed>>
               ELSE PublishToNode(n, TRUE)
    /\ cursor' = cursor - 1
    /\ UNCHANGED <<now, pc, nodesToTry, networkVars>>

EndSendConnected ==
    /\ pc = "sendConnected"
    /\ cursor = 0 \/ workItem = NoWork
    /\ pc' = "askEntry" /\ cursor' = 0
    /\ UNCHANGED <<tableVars, nodesToTry, workItem, candidates, successful,
                   failed, networkVars, requests, asked>>

\* NodeModel::addNodeToConnectionWishList(Node*).
AddNodeToConnectionWishList(n) ==
    wishList' = IF n = Self \/ Contains(wishList, n) THEN wishList
                ELSE Append(wishList, n)

\* askConnectionsForNodesOnPublishList takes the mutex ...
BeginAsk ==
    /\ pc = "askEntry"
    /\ pc' = "ask" /\ cursor' = 1
    /\ UNCHANGED <<tableVars, nodesToTry, workItem, candidates, successful, failed,
                   networkVars, requests, asked>>

\* ... wishes for a connection to every candidate left ...
AskForNode ==
    /\ pc = "ask" /\ cursor <= Len(candidates)
    /\ AddNodeToConnectionWishList(candidates[cursor])
    /\ cursor' = cursor + 1
    /\ UNCHANGED <<tableVars, pc, nodesToTry, workItem, candidates, successful, failed,
                   nextAddress, connections, statusEvents, requests, asked>>

\* ... and run() returns in stage AwaitingConnection.
EndAsk ==
    /\ pc = "ask" /\ cursor > Len(candidates)
    /\ pc' = "timer" /\ cursor' = 0
    /\ UNCHANGED <<tableVars, nodesToTry, workItem, candidates, successful,
                   failed, networkVars, requests, asked>>

\* AwaitingConnection: checkForSuccessfullyConnectedNodes takes the mutex.
BeginCheckSuccess ==
    /\ pc = "timer" /\ workItem # NoWork
    /\ pc' = "success" /\ cursor' = Len(candidates)
    /\ UNCHANGED <<tableVars, nodesToTry, workItem, candidates, successful, failed,
                   networkVars, requests, asked>>

CheckSuccessfulNode ==
    /\ pc = "success" /\ cursor > 0 /\ workItem # NoWork
    /\ IF candidates[cursor] \in successful
       THEN PublishToNode(candidates[cursor], TRUE)
       ELSE UNCHANGED <<publish, workItem, requests, asked, candidates, successful, failed>>
    /\ cursor' = cursor - 1
    /\ UNCHANGED <<now, pc, nodesToTry, networkVars>>

EndCheckSuccess ==
    /\ pc = "success"
    /\ cursor = 0 \/ workItem = NoWork
    /\ successful' = {}
    /\ pc' = "failEntry" /\ cursor' = 0
    /\ UNCHANGED <<tableVars, nodesToTry, workItem, candidates, failed,
                   networkVars, requests, asked>>

\* checkForUnSuccessfullyConnectedNodes takes the mutex again ...
BeginCheckFailure ==
    /\ pc = "failEntry"
    /\ pc' = "fail" /\ cursor' = Len(candidates)
    /\ UNCHANGED <<tableVars, nodesToTry, workItem, candidates, successful, failed,
                   networkVars, requests, asked>>

CheckFailedNode ==
    /\ pc = "fail" /\ cursor > 0 /\ workItem # NoWork
    /\ candidates' = IF candidates[cursor] \in failed THEN RemoveAt(candidates, cursor)
                                                      ELSE candidates
    /\ cursor' = cursor - 1
    /\ UNCHANGED <<tableVars, pc, nodesToTry, workItem, successful, failed, networkVars,
                   requests, asked>>

\* ... and an item without candidates is left behind when run() returns.
EndCheckFailure_KeepsItem ==
    /\ pc = "fail"
    /\ cursor = 0 \/ workItem = NoWork
    /\ failed' = {}
    /\ pc' = "timer" /\ cursor' = 0
    /\ UNCHANGED <<tableVars, nodesToTry, workItem, candidates, successful, networkVars,
                   requests, asked>>
EndCheckFailure ==
    /\ pc = "fail"
    /\ cursor = 0 \/ workItem = NoWork
    /\ failed' = {}
    /\ workItem' = IF candidates = <<>> THEN NoWork ELSE workItem
    /\ pc' = "timer" /\ cursor' = 0
    /\ UNCHANGED <<tableVars, nodesToTry, candidates, successful, networkVars, requests,
                   asked>>

\* The slot PublishingEngine::nodeConnectionAttemptStatus, called from the
\* event loop of the main thread in the order the events were queued.
NodeConnectionAttemptStatus ==
    /\ pc = "timer" /\ statusEvents # <<>>
    /\ LET event == Head(statusEvents)
       IN IF Contains(candidates, event.peer)
          THEN IF event.status = "Open"
               THEN successful' = successful \cup {event.peer} /\ UNCHANGED failed
               ELSE failed' = failed \cup {event.peer} /\ UNCHANGED successful
          ELSE UNCHANGED <<successful, failed>>
    /\ statusEvents' = Tail(statusEvents)
    /\ UNCHANGED <<tableVars, pc, cursor, nodesToTry, workItem, candidates, wishList,
                   nextAddress, connections, requests, asked>>

-----------------------------------------------------------------------------
(***************************************************************************)
(* The request executor (datamodel/netrequestexecutor.cpp), main thread:   *)
(* a publish request is sent to its node when there is an open connection  *)
(* to it and is gone either way.                                           *)
(***************************************************************************)
ExecutePublishRequest(r) ==
    /\ pc = "timer"
    /\ requests' = requests \ {r}
    /\ UNCHANGED <<tableVars, engineVars, networkVars, asked>>

-----------------------------------------------------------------------------
(***************************************************************************)
(* The connector thread (net/networkconnectorengine.cpp).                  *)
(***************************************************************************)
FreeId(c) == c \notin Alive /\ \A d \in ConnIds \ Alive : c <= d

Incoming == {c \in Alive : connections[c].incoming}

NewConnection(n, incoming) ==
    \E c \in ConnIds :
       /\ FreeId(c)
       /\ connections' = [connections EXCEPT
                            ![c] = [peer |-> n, incoming |-> incoming, state |-> "Initial"]]

\* tryServeWishListItem: an item with no address we could connect to, or with
\* the address at the head of the connector's own list, is forgotten.
ServeWishListItem ==
    /\ Unlocked /\ wishList # <<>>
    /\ LET n == Head(wishList)
       IN IF n \in Unroutable \/ n = nextAddress
          THEN UNCHANGED connections
          ELSE NewConnection(n, FALSE)
    /\ wishList' = Tail(wishList)
    /\ UNCHANGED <<tableVars, engineVars, nextAddress, statusEvents, requests, asked>>

\* updateListOfNodesToConnect builds the connector's own list anew, of nodes
\* no connection has identified itself as; only its head matters here.
UpdateListOfNodesToConnect ==
    /\ Unlocked
    /\ nextAddress' \in {n \in Listed : ~HasNodeConnection(n)} \cup {NoNode}
    /\ nextAddress' # nextAddress
    /\ UNCHANGED <<tableVars, engineVars, wishList, connections, statusEvents, requests,
                   asked>>

\* run(): connect to the head of the list; another node becomes the head.
ConnectNextAddress ==
    /\ Unlocked /\ nextAddress # NoNode
    /\ NewConnection(nextAddress, FALSE)
    /\ nextAddress' \in (Listed \ {nextAddress}) \cup {NoNode}
    /\ UNCHANGED <<tableVars, engineVars, wishList, statusEvents, requests, asked>>

-----------------------------------------------------------------------------
(***************************************************************************)
(* The connections (net/connection.cpp) and their observer                 *)
(* (net/networklistener.cpp), each in a thread of its own.                 *)
(***************************************************************************)
IncomingConnection(n) ==
    /\ Unlocked
    /\ Cardinality(Incoming) < MaxIncoming
    /\ NewConnection(n, TRUE)
    /\ UNCHANGED <<tableVars, engineVars, wishList, nextAddress, statusEvents, requests,
                   asked>>

\* socketReady: the encrypted channel is up.
SocketReady(c) ==
    /\ Unlocked /\ c \in Alive /\ connections[c].state = "Initial"
    /\ connections' = [connections EXCEPT ![c].state = "Open"]
    /\ UNCHANGED <<tableVars, engineVars, wishList, nextAddress, statusEvents, requests,
                   asked>>

\* The peer's fingerprint becomes the node and the observer emits the status.
ConnectionReady(c) ==
    /\ Unlocked /\ c \in Alive /\ connections[c].state = "Open"
    /\ Len(statusEvents) < MaxEvents
    /\ connections' = [connections EXCEPT ![c].state = "Ready"]
    /\ statusEvents' = Append(statusEvents, [status |-> "Open", peer |-> connections[c].peer])
    /\ UNCHANGED <<tableVars, engineVars, wishList, nextAddress, requests, asked>>

\* connectionClosed: for any reason, at any time. The requests of the node go
\* with it, and the status is emitted when the hash is known: the one that was
\* attempted, or the one of the node.
ConnectionClosed_NodeOnly(c) ==
    /\ Unlocked /\ c \in Alive
    /\ Len(statusEvents) < MaxEvents
    /\ connections' = [connections EXCEPT ![c] = NoConnection]
    /\ requests' = {r \in requests : connections[c].state = "Ready" => r.node # connections[c].peer}
    /\ statusEvents' = IF connections[c].state = "Ready"
                       THEN Append(statusEvents,
                                   [status |-> "Closing", peer |-> connections[c].peer])
                       ELSE statusEvents
    /\ UNCHANGED <<tableVars, engineVars, wishList, nextAddress, asked>>
ConnectionClosed(c) ==
    /\ Unlocked /\ c \in Alive
    /\ Len(statusEvents) < MaxEvents
    /\ connections' = [connections EXCEPT ![c] = NoConnection]
    /\ requests' = IF connections[c].state = "Ready"
                   THEN {r \in requests : r.node # connections[c].peer}
                   ELSE requests
    /\ statusEvents' = IF connections[c].state = "Ready" \/ ~connections[c].incoming
                       THEN Append(statusEvents,
                                   [status |-> "Closing", peer |-> connections[c].peer])
                       ELSE statusEvents
    /\ UNCHANGED <<tableVars, engineVars, wishList, nextAddress, asked>>

-----------------------------------------------------------------------------
EngineStep ==
    \/ \E key \in DOMAIN publish : PickItem(key)
    \/ DistributeNode \/ EndDistribute
    \/ BeginSendConnected \/ SendConnectedNode \/ EndSendConnected
    \/ BeginAsk \/ AskForNode \/ EndAsk
    \/ BeginCheckSuccess \/ CheckSuccessfulNode \/ EndCheckSuccess
    \/ BeginCheckFailure \/ CheckFailedNode \/ EndCheckFailure

Next ==
    \/ \E h \in Hashes, path \in BangPaths : AddItemToBePublished(h, path)
    \/ Tick
    \/ EngineStep
    \/ NodeConnectionAttemptStatus
    \/ \E r \in requests : ExecutePublishRequest(r)
    \/ ServeWishListItem
    \/ UpdateListOfNodesToConnect
    \/ ConnectNextAddress
    \/ \E n \in Nodes : IncomingConnection(n)
    \/ \E c \in ConnIds : SocketReady(c) \/ ConnectionReady(c) \/ ConnectionClosed(c)

Spec == Init /\ [][Next]_vars

\* An outgoing connection on its way to being ready, or to being closed.
Handshake ==
    \E c \in ConnIds :
       /\ ~connections[c].incoming
       /\ connections[c].state \in {"Initial", "Open"}
       /\ SocketReady(c) \/ ConnectionReady(c) \/ ConnectionClosed(c)

\* run() is called every five seconds and does not block. In between the main
\* thread's event loop delivers what is posted to it and the mutex is free for
\* whoever waits for it: run() disables the others again and again but never
\* for good, hence the strong fairness. The connector loops every 800 ms; an
\* outgoing connection is given up when its handshake takes too long, and
\* reports when it is through with it. No content, tick or peer is obliged to
\* come.
Fairness ==
    /\ WF_vars(EngineStep)
    /\ SF_vars(NodeConnectionAttemptStatus)
    /\ SF_vars(ServeWishListItem)
    /\ SF_vars(Handshake)

FairSpec == Spec /\ Fairness

-----------------------------------------------------------------------------
(***************************************************************************)
(* Safety.                                                                 *)
(***************************************************************************)

\* Until the content is added anew, no node is asked to take it twice: not by
\* a later candidate list, not after ten minutes, not for its other address
\* (QueueForNode's test against a work item that must not be stale).
AskedOnce == \A h \in Hashes : IsInjective(asked[h])

\* A node that was asked is in the bangpath of every row the content has left,
\* and in the engine's copy of it: this is what keeps it from being asked again
\* ten minutes later or for the other row.
AskedIsRecorded ==
    /\ \A key \in DOMAIN publish :
          ToSet(asked[key[2]]) \subseteq ToSet(publish[key].bangpath)
    /\ workItem # NoWork => ToSet(asked[workItem.hash]) \subseteq ToSet(workItem.pushed)

\* addNodeToPublishedItem selects a row by hash alone and takes the first one
\* SQLite returns: that is right only because the rows of a hash never differ
\* in their bangpath.
RowsAgree ==
    \A k1, k2 \in DOMAIN publish :
       k1[2] = k2[2] => publish[k1].bangpath = publish[k2].bangpath

\* While the engine works on an item, its row exists: otherwise the select of
\* addNodeToPublishedItem returns an item whose type nothing initialised.
WorkItemHasRow == workItem # NoWork => RowsOf(workItem.hash) # {}

\* The loops go through the candidate list by index while publishToNode takes
\* nodes out of it: the index stays inside the list.
CursorInRange ==
    /\ pc \in {"sendConnected", "success", "fail"} => cursor <= Len(candidates)
    /\ pc = "ask" => cursor \in 1 .. Len(candidates) + 1

\* A connection to n that is bound to report, whatever becomes of it.
WillReport(n) ==
    \E c \in Alive : /\ connections[c].peer = n
                     /\ connections[c].state # "Ready" /\ ~connections[c].incoming

\* No lost wake-up. The engine waits in AwaitingConnection for every candidate,
\* so while it waits something must still be on its way to report on each: the
\* wish, the connection attempt, the queued event or the noted result. The
\* nodes whose wish may be dropped without a word are excepted here.
NoOrphanCandidate ==
    pc = "timer" /\ workItem # NoWork =>
       \A n \in ToSet(candidates) \ (Unroutable \cup Listed) :
          \/ Contains(wishList, n)
          \/ WillReport(n)
          \/ \E i \in DOMAIN statusEvents : statusEvents[i].peer = n
          \/ n \in successful \cup failed

-----------------------------------------------------------------------------
(***************************************************************************)
(* Liveness.                                                               *)
(***************************************************************************)

\* "If unsuccessful, move to next host": the engine, which holds one work item
\* at a time for the whole node, is done with it sooner or later.
FinishesWork == workItem # NoWork ~> workItem = NoWork

-----------------------------------------------------------------------------
(***************************************************************************)
(* What the comments of the code promise and the code does not do.         *)
(***************************************************************************)

\* publishingengine.cpp: "ask for notification that item has been sent ; upon
\* receiving, update the bangpath in publish-tables": a request that goes away
\* without a connection to send it over leaves its node out of the bangpath.
BangPathMeansSent ==
    [][\A r \in requests \ requests' :
          \/ HasNodeConnection(r.node)'
          \/ \A key \in RowsOf(r.hash)' : ~Contains(publish[key].bangpath, r.node)']_vars

\* model.cpp: an ad's row has "the group controller address" as second address.
SecondaryAddressKept ==
    \A key \in DOMAIN publish :
       publish[key].secondary \in {NoHash, IF key[2] \in Ads THEN Group ELSE NoHash}

=============================================================================
