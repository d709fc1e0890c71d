------------------------------ MODULE Retrieval ------------------------------
(***************************************************************************)
(* Fetching content that is not in the local tables: the controller        *)
(* (controller.cpp), which shows a dialog until the content is there or    *)
(* given up, and the retrieval engine (net/retrievalengine.cpp), a timer   *)
(* of the main thread that works on one item at a time. The requests it    *)
(* makes go to the queue of NetRequests.                                   *)
(*                                                                         *)
(* Time is one flag: the stamp of the item in work is older than its state *)
(* allows (10 seconds for Processing, a minute for the two after it). An   *)
(* item stands for a hash and its type.                                    *)
(***************************************************************************)
EXTENDS Hosts

CONSTANTS
    Items,          \* content that may be asked for
    NoItem,         \* KNullHash where content is expected
    Comments,       \* the items that are profile comments
    NodesAfter,     \* what getNodesAfterHash returns for an item
    Offers,         \* requests that may be made: [item, dest, background]
    MaxRequests     \* bound: requests that are ever made

ASSUME RetrievalAssumption ==
    /\ NoItem \notin Items
    /\ Comments \subseteq Items
    /\ NodesAfter \in [Items -> Seq(Peers)]
    /\ Offers \subseteq [item : Items, dest : Nodes \cup {NoNode}, background : BOOLEAN]
    /\ MaxRequests \in Nat

VARIABLES
    downloadQueue, \* iDownloadQueue
    current,       \* iObjectBeingRetrieved
    due,           \* its time stamp is old enough for the next stage
    candidates,    \* iNodeCandidatesToTryQuery
    succeeded,     \* iNodesSuccessfullyConnected, a list without duplicates
    failed,        \* iNodesFailurefullyConnected, likewise
    dialog,        \* a progress dialog is on the screen
    waitedFor,     \* Controller::iHashOfObjectBeingWaitedFor
    queries,       \* history: <<item, node>> that the last step of run() queued
    owed,          \* history: items asked for and neither received nor given up
    requests       \* history: number of requests so far

engineVars == <<downloadQueue, current, due, candidates, succeeded, failed>>
dialogVars == <<dialog, waitedFor>>
vars == <<engineVars, dialogVars, queries, owed, requests, hostVars>>

States == {"NewRequest", "Processing", "NodeIsInWishList", "RequestBeingSentAround",
           "ReadyToSend"}
Work == [item : Items \cup {NoItem}, dest : Nodes \cup {NoNode}, state : States]

TypeOK ==
    /\ HostsTypeOK
    /\ downloadQueue \in Seq(Work)
    /\ current \in Work
    /\ candidates \in Seq(Peers)
    /\ succeeded \subseteq Nodes /\ failed \subseteq Nodes
    /\ {due, dialog} \subseteq BOOLEAN
    /\ waitedFor \in Items \cup {NoItem}
    /\ queries \in Seq(Items \X Peers)
    /\ owed \subseteq Items
    /\ requests \in 0 .. MaxRequests

Nothing == [item |-> NoItem, dest |-> NoNode, state |-> "ReadyToSend"]

Init ==
    /\ HostsInit
    /\ downloadQueue = <<>> /\ current = Nothing /\ due = FALSE
    /\ candidates = <<>> /\ succeeded = {} /\ failed = {}
    /\ dialog = FALSE /\ waitedFor = NoItem
    /\ queries = <<>> /\ owed = {} /\ requests = 0

Idle == current.item = NoItem
Wanted == {current.item} \cup {w.item : w \in ToSet(downloadQueue)}

\* RetrievalEngine::emptyNodeCandidateList and the two lists of reports.
ClearLists == candidates' = <<>> /\ succeeded' = {} /\ failed' = {}

-----------------------------------------------------------------------------
(***************************************************************************)
(* Requests.                                                               *)
(***************************************************************************)

\* RetrievalEngine::startRetrieving. Priority work puts the item in work back,
\* also when there is none, and goes to the head of the queue.
StartRetrieving_LosesCurrent(item, dest, isPriorityWork) ==
    LET new == [item |-> item, dest |-> dest, state |-> "NewRequest"]
        isAlreadyInQueue == \E w \in ToSet(downloadQueue) : w.item = item
    IN IF ~isAlreadyInQueue /\ ~isPriorityWork
       THEN downloadQueue' = Append(downloadQueue, new)
            /\ UNCHANGED <<current, candidates, succeeded, failed>>
       ELSE IF isPriorityWork /\ current.item # item
       THEN /\ downloadQueue' = <<new>> \o downloadQueue
            /\ current' = [current EXCEPT !.item = NoItem]
            /\ ClearLists
       ELSE UNCHANGED <<downloadQueue, current, candidates, succeeded, failed>>
StartRetrieving(item, dest, isPriorityWork) ==
    LET new == [item |-> item, dest |-> dest, state |-> "NewRequest"]
        isAlreadyInQueue == \E w \in ToSet(downloadQueue) : w.item = item
    IN IF ~isAlreadyInQueue /\ ~isPriorityWork
       THEN downloadQueue' = Append(downloadQueue, new)
            /\ UNCHANGED <<current, candidates, succeeded, failed>>
       ELSE IF isPriorityWork /\ current.item # item
       THEN /\ downloadQueue' = <<new, current>> \o downloadQueue
            /\ current' = [current EXCEPT !.item = NoItem]
            /\ ClearLists
       ELSE UNCHANGED <<downloadQueue, current, candidates, succeeded, failed>>

\* Controller::startRetrievingContent. What is called background by the callers
\* is called priority by the engine.
StartRetrievingContent(o) ==
    /\ StartRetrieving(o.item, o.dest, o.background)
    /\ waitedFor' = o.item
    /\ owed' = owed \cup {o.item}
    /\ requests < MaxRequests /\ requests' = requests + 1

\* Controller::userInterfaceAction, and the attachments of a message or an ad,
\* which are fetched in the background. The dialog is modal.
UserInterfaceAction(o) ==
    /\ ~dialog
    /\ StartRetrievingContent(o)
    /\ dialog' = ~o.background
    /\ queries' = <<>>
    /\ UNCHANGED <<due, hostVars>>

-----------------------------------------------------------------------------
(***************************************************************************)
(* run(), every five seconds.                                              *)
(***************************************************************************)

\* sendQueryToNode for the members of a list one after the other: the node is
\* struck off the reports.
SendQueries(nodes) ==
    /\ queries' = [i \in DOMAIN nodes |-> <<current.item, nodes[i]>>]
    /\ succeeded' = succeeded \ ToSet(nodes)
    /\ failed' = failed \ ToSet(nodes)

Working(state) == current.item # NoItem /\ current.state = state

\* An item that was put back while there was none in work.
TakeNothing ==
    /\ Idle /\ downloadQueue # <<>> /\ Head(downloadQueue).item = NoItem
    /\ current' = [Head(downloadQueue) EXCEPT !.state = "NewRequest"]
    /\ downloadQueue' = Tail(downloadQueue)
    /\ due' = FALSE
    /\ queries' = <<>>
    /\ UNCHANGED <<candidates, succeeded, failed, owed, requests, dialogVars, hostVars>>

\* The next item is taken and handled in its state NewRequest: its node is
\* asked or wished for. (What the connected nodes are asked is who is near.)
BeginRetrieval ==
    LET work == Head(downloadQueue)
        asked == work.dest # NoNode /\ IsConnected(work.dest)
        wished == work.dest # NoNode /\ ~asked
    IN /\ Idle /\ downloadQueue # <<>> /\ work.item # NoItem
       /\ downloadQueue' = Tail(downloadQueue)
       /\ current' = [work EXCEPT !.state = "Processing"]
       /\ due' = FALSE
       /\ candidates' = IF wished THEN <<work.dest>> ELSE <<>>
       /\ succeeded' = {} /\ failed' = {}
       /\ queries' = IF asked THEN <<<<work.item, work.dest>>>> ELSE <<>>
       /\ wishList' = wishList \cup {n \in {work.dest} : wished /\ CanWish(n)}
       /\ UNCHANGED <<connections, statusEvents, dialogVars, owed, requests>>

\* Ten seconds later the nodes after the hash are asked or wished for.
AskNodesAfterHash ==
    LET others == SelectSeq(NodesAfter[current.item], LAMBDA n : n # Self)
        absent == SelectSeq(others, LAMBDA n : ~IsConnected(n))
    IN /\ Working("Processing") /\ due
       /\ SendQueries(SelectSeq(others, IsConnected))
       /\ candidates' = candidates \o absent
       /\ wishList' = wishList \cup ToSet(absent)
       /\ current' = [current EXCEPT !.state = "NodeIsInWishList"]
       /\ due' = (candidates' = <<>>)
       /\ UNCHANGED <<downloadQueue, owed, requests, dialogVars, connections, statusEvents>>

\* After a minute every connected node is asked. The bound of ten connections is
\* above the number of connections here.
AskEverybody ==
    /\ Working("NodeIsInWishList") /\ due
    /\ \E order \in SetToAllKPermutations(Identified) :
          /\ Len(order) = Cardinality(Identified)
          /\ SendQueries([i \in DOMAIN order |-> connections[order[i]].peer])
    /\ current' = [current EXCEPT !.state = "RequestBeingSentAround"]
    /\ due' = FALSE
    /\ UNCHANGED <<downloadQueue, candidates, owed, requests, dialogVars, hostVars>>

\* After another minute it is given up: notifyOfContentNotReceived of the
\* engine and of the controller.
GiveUp_Silently ==
    /\ Working("RequestBeingSentAround") /\ due
    /\ current' = [current EXCEPT !.item = NoItem, !.state = "ReadyToSend"]
    /\ owed' = owed \ {current.item}
    /\ UNCHANGED dialogVars
    /\ queries' = <<>>
    /\ UNCHANGED <<downloadQueue, due, candidates, succeeded, failed, requests, hostVars>>
GiveUp_KeepsItem ==
    /\ Working("RequestBeingSentAround") /\ due
    /\ current' = [current EXCEPT !.state = "ReadyToSend"]
    /\ owed' = owed \ {current.item}
    /\ UNCHANGED dialogVars
    /\ queries' = <<>>
    /\ UNCHANGED <<downloadQueue, due, candidates, succeeded, failed, requests, hostVars>>
GiveUp ==
    /\ Working("RequestBeingSentAround") /\ due
    /\ current' = [current EXCEPT !.item = NoItem, !.state = "ReadyToSend"]
    /\ owed' = owed \ {current.item}
    /\ IF waitedFor = current.item
       THEN waitedFor' = NoItem /\ dialog' = FALSE
       ELSE UNCHANGED <<waitedFor, dialog>>
    /\ queries' = <<>>
    /\ UNCHANGED <<downloadQueue, due, candidates, succeeded, failed, requests, hostVars>>

\* Before that, the reports are looked through: candidates that got connected
\* are asked, from the end of the list, and those that did not are struck off.
\* checkForSuccessfullyConnectedNodes, checkForUnSuccessfullyConnectedNodes.
CheckNodes ==
    LET AskOnce(asked, n) == IF n \in succeeded \ ToSet(asked) THEN Append(asked, n) ELSE asked
        asked == FoldLeft(AskOnce, <<>>, Reverse(candidates))
    IN /\ (Working("NodeIsInWishList") \/ Working("RequestBeingSentAround")) /\ ~due
       /\ queries' = [i \in DOMAIN asked |-> <<current.item, asked[i]>>]
       /\ candidates' = SelectSeq(candidates, LAMBDA n : n \notin failed \ ToSet(asked))
       /\ succeeded' = {} /\ failed' = {}
       /\ UNCHANGED <<downloadQueue, current, due, owed, requests, dialogVars, hostVars>>

Run == \/ TakeNothing \/ BeginRetrieval
       \/ AskNodesAfterHash \/ AskEverybody \/ GiveUp
       \/ CheckNodes

\* The time of a stage is over.
Wait ==
    /\ ~Idle /\ ~due
    /\ due' = TRUE
    /\ queries' = <<>>
    /\ UNCHANGED <<downloadQueue, current, candidates, succeeded, failed, owed, requests,
                   dialogVars, hostVars>>

-----------------------------------------------------------------------------
(***************************************************************************)
(* Slots of the main thread.                                               *)
(***************************************************************************)

\* RetrievalEngine::nodeConnectionAttemptStatus.
NodeConnectionAttemptStatus ==
    LET event == Head(statusEvents)
        mine == event.peer \in ToSet(candidates)
    IN /\ statusEvents # <<>>
       /\ succeeded' = succeeded \cup {n \in {event.peer} : mine /\ event.status = "Open"}
       /\ failed' = failed \cup {n \in {event.peer} : mine /\ event.status # "Open"}
       /\ statusEvents' = Tail(statusEvents)
       /\ queries' = <<>>
       /\ UNCHANGED <<downloadQueue, current, due, candidates, owed, requests, dialogVars,
                      wishList, connections>>

\* Controller::notifyOfContentReceived, then the engine's, which does not know
\* of comments. (That the controller goes on to the comment of a profile, when it
\* has been lost since the user chose it, is left out.)
NotifyOfContentReceived(item) ==
    /\ owed' = owed \ {item}
    /\ IF waitedFor = item
       THEN waitedFor' = NoItem /\ dialog' = FALSE
       ELSE UNCHANGED dialogVars
    /\ downloadQueue' = Filter(downloadQueue,
                              {w \in ToSet(downloadQueue) : w.item # item \/ item \in Comments})
    /\ IF current.item = item /\ item \notin Comments
       THEN current' = [current EXCEPT !.item = NoItem, !.state = "ReadyToSend"] /\ ClearLists
       ELSE UNCHANGED <<current, candidates, succeeded, failed>>
    /\ queries' = <<>>
    /\ UNCHANGED <<due, requests, hostVars>>

\* The user closes the dialog.
Cancel ==
    /\ dialog /\ dialog' = FALSE
    /\ queries' = <<>>
    /\ UNCHANGED <<engineVars, waitedFor, owed, requests, hostVars>>

OtherThreads ==
    /\ \/ \E n \in Nodes : ServeWishListItem(n) \/ IncomingConnection(n)
       \/ \E c \in ConnIds : ConnectionReady(c) \/ ConnectionCloses(c) \/ ConnectionClosed(c)
    /\ queries' = <<>>
    /\ UNCHANGED <<engineVars, dialogVars, owed, requests>>

Next ==
    \/ \E o \in Offers : UserInterfaceAction(o)
    \/ Run \/ Wait
    \/ NodeConnectionAttemptStatus
    \/ \E item \in Items : NotifyOfContentReceived(item)
    \/ Cancel
    \/ OtherThreads

Spec == Init /\ [][Next]_vars

\* The timer fires, run() does not block and time passes.
FairSpec == Spec /\ WF_vars(Run) /\ WF_vars(Wait)

-----------------------------------------------------------------------------
(***************************************************************************)
(* Correctness.                                                            *)
(***************************************************************************)

\* Nothing that was asked for is lost when other work pushes in front of it,
\* however often: what was neither received nor reported as missing is in work
\* or in the queue (startRetrieving).
NoneForgotten == owed \subseteq Wanted

\* The dialog never waits for something nobody fetches: its closing is left to
\* two events of the engine's item (controller.cpp, iHashOfObjectBeingWaitedFor).
DialogIsWorkedFor == dialog => waitedFor \in Wanted \ {NoItem}

\* The candidates of one item are never asked for another (run(), the state
\* NewRequest; startRetrieving; notifyOfContentReceived).
CandidatesAreItsOwn ==
    ~Idle => ToSet(candidates) \subseteq {current.dest} \cup ToSet(NodesAfter[current.item])

\* A node that is in the list of candidates twice, for being the named one and
\* near, or for getNodesAfterHash returning it twice, is asked once in a pass
\* over the reports (sendQueryToNode, which strikes it off them).
OneQueryPerReport ==
    [][~due /\ current' = current => IsInjective(queries')]_vars

\* Whatever the network does and whoever pushes in, every item that was asked
\* for is received or reported as missing.
EveryItemEnds == \A item \in Items : item \in owed ~> item \notin owed

\* mcontroller.h:84: aIsBackgroundDl "is true if the retrieval may be queued into
\* background as a low-priority item": it does not interrupt other work.
BackgroundWaits ==
    [][requests' # requests /\ ~dialog' /\ ~Idle => current' = current]_vars

\* retrievalengine.h: "when content is received, we may want to check if it was
\* the content we were waiting for": then it is not fetched any longer.
ReceivedIsNotFetched ==
    [][\A item \in owed \ owed' : item \in Wanted' => current.item = item /\ current' # current]_vars
=============================================================================
