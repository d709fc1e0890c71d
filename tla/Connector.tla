------------------------------ MODULE Connector ------------------------------
(***************************************************************************)
(* Which nodes this node connects to: the loop of the connector thread     *)
(* (net/networkconnectorengine.cpp), the lists of the node model it works  *)
(* from (datamodel/nodemodel.cpp) and the reports of the connections that  *)
(* change them. How one connection lives is the subject of Connections;    *)
(* here it is an attempt, open, or open and greeted, or told to close.     *)
(*                                                                         *)
(* Every action runs with the mutex of the model held; pc says where the   *)
(* connector is in its loop. A host that is tried stands for its address   *)
(* and for the node that lives there; the seed host, whose name is in the  *)
(* program, has no row. Left out: name lookups, addresses of this host     *)
(* among those to connect to and the black list made of them, polling for  *)
(* private messages, broadcasts of this node.                              *)
(***************************************************************************)
EXTENDS NodeTable

CONSTANTS
    Seed,          \* canode.katiska.org
    Up,            \* the hosts that answer, if not every time
    Greetings,     \* bound: what nodes may say of themselves and of others
    Neighbours,    \* 5: nodes asked for in each direction of the ring
    MaxHot,        \* 300: hot addresses fetched at a time
    MaxRows,       \* rows the node table is truncated to
    TurnsPerList,  \* turns of the loop between two refreshes of its list
    Wished,        \* bound: nodes somebody may wish to be connected to
    MaxWishes      \* bound: length of the wish list

Hosts == Nodes \cup {Seed}

ASSUME HostAssumption == /\ Seed \notin Everybody
                         /\ Up \subseteq Hosts
                         /\ Greetings \subseteq Greeting
                         /\ Wished \subseteq Nodes
                         /\ {Neighbours, MaxHot, MaxRows, TurnsPerList, MaxWishes}
                               \subseteq Nat

VARIABLES
    table,          \* table node
    recentlyFailed, \* iRecentlyFailedNodes, oldest first
    hot,            \* iHotAddresses
    wishList,       \* iConnectionWishList: [node, usable]
    addresses,      \* iAddressesInOrderToConnect
    connections,    \* state of the connection with each host
    fresh,          \* those of them that came there since the last refresh
    failReports,    \* connectionAttemptFailed signals on their way
    pc,             \* "wish" when a turn begins, "no wish" when it goes on
    turns,          \* turns until the list is refreshed
    room            \* connectedCount < KMaxOpenConnections, at the end of a turn

modelVars == <<table, recentlyFailed, fresh, hot>>
loopVars == <<pc, turns, room>>
connectorVars == <<modelVars, wishList, addresses, connections, failReports, loopVars>>

failed == ToSet(recentlyFailed)
Alive == {h \in Hosts : connections[h] # "None"}
Open == {h \in Hosts : connections[h] \in {"Open", "Greeted", "Told"}}
Connected == Open \ {Seed}     \* connections whose node() is set

ConnectorTypeOK ==
    /\ DOMAIN table \subseteq Everybody /\ table \in [DOMAIN table -> Row]
    /\ recentlyFailed \in Seq(Nodes) /\ fresh \subseteq failed
    /\ hot \in Seq(Hosts) /\ addresses \in Seq(Hosts)
    /\ wishList \in Seq([node : Nodes, usable : BOOLEAN])
    /\ connections \in [Hosts -> {"None", "Attempt", "Open", "Greeted", "Told"}]
    /\ failReports \in Seq(Nodes)
    /\ pc \in {"wish", "no wish"}
    /\ turns \in 0 .. TurnsPerList
    /\ room \in BOOLEAN

ConnectorInit ==
    /\ table = InsertNode(<<>>, [node |-> Self, contact |-> Now, address |-> "v4"])
    /\ recentlyFailed = <<>> /\ fresh = {} /\ hot = <<>>
    /\ wishList = <<>> /\ addresses = <<>>
    /\ connections = [h \in Hosts |-> "None"]
    /\ failReports = <<>>
    /\ pc = "wish" /\ turns = 0 /\ room = TRUE

-----------------------------------------------------------------------------
(***************************************************************************)
(* The loop of the connector thread.                                       *)
(***************************************************************************)

\* spawnNewConnection. A second connection to the same host closes as a double.
TryConnecting(h) ==
    connections' = IF connections[h] = "None" THEN [connections EXCEPT ![h] = "Attempt"]
                                              ELSE connections

\* tryServeWishListItem: a wish without an address we can use, or for what is
\* first on the list anyway, is forgotten, and the turn goes on without it.
TryServeWishListItem ==
    /\ pc = "wish" /\ wishList # <<>>
    /\ LET n == Head(wishList).node
       IN IF Head(wishList).usable /\ ~(addresses # <<>> /\ Head(addresses) = n)
          THEN TryConnecting(n) /\ UNCHANGED pc
          ELSE pc' = "no wish" /\ UNCHANGED connections
    /\ wishList' = Tail(wishList)
    /\ UNCHANGED <<modelVars, addresses, failReports, turns, room>>

\* "if there is nothing in wishlist, do normal procedure"
NothingWished == pc = "no wish" \/ wishList = <<>>

\* pruneConnectionProspectList
Prune(list, connected) == SelectSeq(list, LAMBDA n : n # Self /\ n \notin connected)
HasConnected(list, connected) == \E i \in DOMAIN list : list[i] # Self /\ list[i] \in connected

\* The list, from its end, without what cannot be used or is there already.
AppendAll(list, more) ==
    FoldRight(LAMBDA n, acc : IF Contains(acc, n) THEN acc ELSE Append(acc, n), more, list)
UsableOf(list) == SelectSeq(list, LAMBDA n : Usable(table, n))

\* getHotAddresses: fetched when there are none; the seed host is added when
\* there are still none, or when nobody is connected (after the program's
\* first half minute, which is left out). A second copy of it would be skipped by who reads the list.
GetHotAddresses ==
    LET fetched == IF hot = <<>> THEN HotConnections(table, failed, Connected, MaxHot) ELSE hot
    IN IF (fetched = <<>> \/ Open = {}) /\ ~Contains(fetched, Seed)
       THEN Append(fetched, Seed) ELSE fetched

\* Nodes with a connection, in the order of the list of connections.
ConnectedList == SetToSeq(Connected)

Before == GetNodesBeforeHash(table, failed, Self, Neighbours)
After == GetNodesAfterHash(table, failed, ConnectedList, Self, Neighbours)

\* closeOldestInactiveConnection, for each side of the ring on which we have
\* no neighbour: the connection that was silent longest, unless there are
\* requests for its node.
MakeRoom ==
    LET sides == Cardinality({s \in {"before", "after"} :
                                ~HasConnected(IF s = "before" THEN Before ELSE After, Connected)})
    IN IF Cardinality(Alive) > MaxOpen
       THEN \E told \in SUBSET Open :
               /\ Cardinality(told) <= sides
               /\ connections' = [h \in Hosts |-> IF h \in told THEN "Told" ELSE connections[h]]
       ELSE UNCHANGED connections

\* updateListOfNodesToConnect: both sides of the ring, then the hot addresses,
\* the last ones of each first.
UpdateListOfNodesToConnect ==
    /\ NothingWished /\ turns = 0
    /\ turns' = TurnsPerList /\ pc' = "no wish" /\ fresh' = {}
    /\ UNCHANGED <<table, recentlyFailed, wishList, failReports, room>>
    /\ MakeRoom
    /\ hot' = GetHotAddresses
    /\ addresses' = LET ring == AppendAll(AppendAll(<<>>, UsableOf(Prune(Before, Connected))),
                                          UsableOf(Prune(After, Connected)))
                    IN AppendAll(ring, SelectSeq(hot', LAMBDA h : h \notin Alive))

\* The first of the list, if there is room for a connection by the count of the
\* last turn, which is then taken anew.
ConnectFirst ==
    /\ NothingWished /\ turns > 0
    /\ turns' = turns - 1 /\ pc' = "wish"
    /\ IF room /\ addresses # <<>>
       THEN TryConnecting(Head(addresses)) /\ addresses' = Tail(addresses)
       ELSE UNCHANGED <<addresses, connections>>
    /\ room' = (Cardinality(Open) < MaxOpen)
    /\ UNCHANGED <<modelVars, wishList, failReports>>

-----------------------------------------------------------------------------
(***************************************************************************)
(* The connections.                                                        *)
(***************************************************************************)
AttemptSucceeds(h) ==
    /\ connections[h] = "Attempt" /\ h \in Up
    /\ connections' = [connections EXCEPT ![h] = "Open"]
    /\ UNCHANGED <<modelVars, wishList, addresses, failReports, loopVars>>

\* Refused or timed out, which it may be for a while. What is reported of the seed host is a null hash,
\* which keeps nobody from being tried. Events are
\* processed before an attempt can fail once more.
AttemptFails(h) ==
    /\ connections[h] = "Attempt" /\ ~Contains(failReports, h)
    /\ connections' = [connections EXCEPT ![h] = "None"]
    /\ failReports' = IF h = Seed THEN failReports ELSE Append(failReports, h)
    /\ UNCHANGED <<modelVars, wishList, addresses, loopVars>>

ConnectedBy(n) ==
    /\ n \in Nodes /\ connections[n] = "None"
    /\ connections' = [connections EXCEPT ![n] = "Open"]
    /\ UNCHANGED <<modelVars, wishList, addresses, failReports, loopVars>>

ConnectionCloses(h) ==
    /\ h \in Open
    /\ connections' = [connections EXCEPT ![h] = "None"]
    /\ UNCHANGED <<modelVars, wishList, addresses, failReports, loopVars>>

\* The first packet: the node's greeting of its own, with the contact being now.
InitialGreeting(g) ==
    /\ g.node \in Nodes /\ connections[g.node] = "Open" /\ g.contact = Now
    /\ table' = NodeGreetingReceived(table, g)
    /\ recentlyFailed' = Filter(recentlyFailed, failed \ {g.node})
    /\ fresh' = fresh \ {g.node}
    /\ connections' = [connections EXCEPT ![g.node] = "Greeted"]
    /\ UNCHANGED <<hot, wishList, addresses, failReports, loopVars>>

\* A later greeting tells of another node. The seed host sends some, too.
LaterGreeting(g) ==
    /\ Open \ {h \in Nodes : connections[h] = "Open"} # {}
    /\ g.node # Self                                 \* "Received my own node ref"
    /\ table' = NodeGreetingReceived(table, g)
    /\ table' # table
    /\ UNCHANGED <<recentlyFailed, fresh, hot, wishList, addresses, connections, failReports, loopVars>>

-----------------------------------------------------------------------------
(***************************************************************************)
(* The main thread.                                                        *)
(***************************************************************************)

\* offerNodeToRecentlyFailedList, by the signal a connection sent.
OfferNodeToRecentlyFailedList_HotKept ==
    /\ failReports # <<>>
    /\ failReports' = Tail(failReports)
    /\ IF Head(failReports) \in failed
       THEN UNCHANGED <<recentlyFailed, fresh, hot>>
       ELSE /\ recentlyFailed' = Append(recentlyFailed, Head(failReports))
            /\ fresh' = fresh \cup {Head(failReports)}
            /\ hot' = hot
    /\ UNCHANGED <<table, wishList, addresses, connections, loopVars>>
OfferNodeToRecentlyFailedList ==
    /\ failReports # <<>>
    /\ failReports' = Tail(failReports)
    /\ IF Head(failReports) \in failed
       THEN UNCHANGED <<recentlyFailed, fresh, hot>>
       ELSE /\ recentlyFailed' = Append(recentlyFailed, Head(failReports))
            /\ fresh' = fresh \cup {Head(failReports)}
            /\ hot' = <<>>
    /\ UNCHANGED <<table, wishList, addresses, connections, loopVars>>

\* timerEvent: the ten minutes are over for the node that failed first. The
\* list was refreshed meanwhile, which it is every fifty seconds.
TimerEvent_TheYoung ==
    /\ recentlyFailed # <<>> /\ Head(recentlyFailed) \in fresh
    /\ recentlyFailed' = Tail(recentlyFailed)
    /\ fresh' = fresh \ {Head(recentlyFailed)}
    /\ UNCHANGED <<table, hot, wishList, addresses, connections, failReports, loopVars>>
TimerEvent ==
    /\ recentlyFailed # <<>> /\ Head(recentlyFailed) \notin fresh
    /\ recentlyFailed' = Tail(recentlyFailed)
    /\ UNCHANGED <<table, fresh, hot, wishList, addresses, connections, failReports, loopVars>>

\* The executor's update of the times, every five minutes.
UpdateTimes ==
    /\ table' = UpdateLastConnectTimes(table, Connected)
    /\ table' # table
    /\ UNCHANGED <<recentlyFailed, fresh, hot, wishList, addresses, connections, failReports, loopVars>>

\* One turn of truncateDataTableToMaxRows.
TruncateTable ==
    /\ Cardinality(DOMAIN table) > MaxRows
    /\ \E gone \in Oldest(table) : table' = [n \in DOMAIN table \ {gone} |-> table[n]]
    /\ UNCHANGED <<recentlyFailed, fresh, hot, wishList, addresses, connections, failReports, loopVars>>

\* Wishes come seconds apart: there is always a turn again that finds none.
\* When within a turn one is added makes no difference.
RoomForWish(n) ==
    /\ pc = "no wish" /\ Len(wishList) < MaxWishes
    /\ \A i \in DOMAIN wishList : wishList[i].node # n

\* addNodeToConnectionWishList by hash, for an engine.
WishFor(n) ==
    /\ RoomForWish(n)
    /\ n \in DOMAIN table \cap Wished
    /\ wishList' = Append(wishList, [node |-> n, usable |-> Usable(table, n)])
    /\ UNCHANGED <<modelVars, addresses, connections, failReports, loopVars>>

\* addNodeFromBroadcast: a node of the local network says where it is.
AddNodeFromBroadcast(n) ==
    /\ RoomForWish(n)
    /\ n \in Wished \ Open
    /\ wishList' = Append(wishList, [node |-> n, usable |-> TRUE])
    /\ UNCHANGED <<modelVars, addresses, connections, failReports, loopVars>>

-----------------------------------------------------------------------------
Turn == TryServeWishListItem \/ UpdateListOfNodesToConnect \/ ConnectFirst

Outcome(h) ==
    \/ AttemptSucceeds(h) \/ AttemptFails(h)
    \/ connections[h] = "Told" /\ ConnectionCloses(h)

ConnectorNext ==
    \/ Turn
    \/ \E h \in Hosts : \/ AttemptSucceeds(h) \/ AttemptFails(h) \/ ConnectionCloses(h)
    \/ OfferNodeToRecentlyFailedList \/ TimerEvent
    \/ \E n \in Nodes : ConnectedBy(n) \/ WishFor(n) \/ AddNodeFromBroadcast(n)
    \/ \E g \in Greetings : InitialGreeting(g) \/ LaterGreeting(g)
    \/ UpdateTimes \/ TruncateTable

\* The loop takes a turn every 800 milliseconds; it always can (and TLC is
\* spared the question whether it can, which weak fairness asks at each step).
\* An attempt ends after ten seconds at the latest, one of a host that is up well
\* in the end; who is told to close does; the timer and the event loop of the
\* main thread go on. Nobody has to connect to us, to tell us of nodes or
\* to hang up.
ConnectorFairness ==
    /\ []<><<Turn>>_connectorVars
    /\ \A h \in Hosts : WF_connectorVars(Outcome(h))
    /\ \A h \in Up : SF_connectorVars(AttemptSucceeds(h))
    /\ WF_connectorVars(OfferNodeToRecentlyFailedList) /\ WF_connectorVars(TimerEvent)

ConnectorSpec == ConnectorInit /\ [][ConnectorNext]_connectorVars
FairConnectorSpec == ConnectorSpec /\ ConnectorFairness

-----------------------------------------------------------------------------
(***************************************************************************)
(* Properties.                                                             *)
(***************************************************************************)

\* The ring is searched right: when there are enough nodes to choose from, the
\* queries around any hash, also where the ring rolls over, return the nearest
\* ones, nearest first and each once. (With fewer the second query finds again
\* what the first one found.)
RingIsSearched ==
    \A hash \in Everybody, k \in 1 .. Cardinality(DOMAIN table) :
       /\ Cardinality(Candidates(table, failed)) >= k =>
             Nearest(GetNodesAfterHash(table, failed, ConnectedList, hash, k), k,
                     Candidates(table, failed), LAMBDA n : Distance(hash, n))
       /\ Cardinality(RecentCandidates(table, failed)) >= k =>
             Nearest(GetNodesBeforeHash(table, failed, hash, k), k,
                     RecentCandidates(table, failed), LAMBDA n : Distance(n, hash))

\* A node that failed rests: it is not among the hot addresses, although these
\* are fetched once and used for every refresh of the list.
FailedNodesRest == ToSet(hot) \cap failed = {}

\* A node next to us on the ring whose host is up is connected sooner or later,
\* and again when the connection is lost, whatever else is on the lists and
\* however often attempts failed before; unless connections are at their limit
\* ("first check that nodes around us in hash-ring are connected").
NextToUs(n) ==
    n \in ToSet(GetNodesBeforeHash(table, {}, Self, Neighbours))
          \cup ToSet(GetNodesAfterHash(table, {}, <<>>, Self, Neighbours))
NeighboursAreConnected ==
    \A n \in Up \ {Seed} :
       []<>(\/ connections[n] \in {"Open", "Greeted"}
            \/ Cardinality(Open) >= MaxOpen
            \/ ~NextToUs(n) \/ ~Usable(table, n))
=============================================================================
