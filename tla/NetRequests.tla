----------------------------- MODULE NetRequests -----------------------------
(***************************************************************************)
(* The queue of network requests of one node (Model::iNetReqQueue) and its *)
(* executor (datamodel/netrequestexecutor.cpp), a timer of the main        *)
(* thread. Requests are queued by the user interface, by the engines and,  *)
(* for peers, by the parser, in the threads of the connections.            *)
(*                                                                         *)
(* run() goes through the queue from its end, by index, and releases the   *)
(* mutex after each entry; a step here is what happens between two         *)
(* releases. The bytes of a message and the content they are made of are   *)
(* left out: whether the content is found is a choice.                     *)
(*                                                                         *)
(* A definition whose name is that of the next one and a suffix is a wrong *)
(* version of it, which one of the properties tells from the right one.    *)
(***************************************************************************)
EXTENDS Hosts

CONSTANTS
    Items,          \* hashes of content
    Offers,         \* requests that may be queued: [kind, dest, item]
    NodeLists,      \* lists getNodesAfterHash may return, duplicates included
    MaxRequests,    \* bound: requests that are ever queued
    MaxArticles     \* bound: articles a profile has that are sent one by one

\* Request types that are handled alike have one name.
Kinds == {"nodesAround",   \* RequestForNodesAroundHash
          "publish",       \* ...Publish of profile, file, comment, ad, record
          "message",       \* PrivateMessagePublish
          "fetchFile",     \* RequestForBinaryBlob, RequestForUserProfile
          "fetchAd",       \* RequestForClassifiedAd
          "fetchComment",  \* RequestForProfileComment
          "poll",          \* RequestForProfilePoll
          "ads",           \* RequestAdsClassified
          "reply",         \* NodeGreeting, BinaryBlob, UserProfile, ...: a peer asked
          "listing"}       \* PrivateMessagesForProfile, UserProfileCommentsForProfile

Ids == 1 .. MaxRequests
Offer == [kind : Kinds, dest : Nodes \cup {NoNode}, item : Items]

ASSUME RequestAssumption == /\ Offers \subseteq Offer
                            /\ NodeLists \subseteq Seq(Peers)
                            /\ {MaxRequests, MaxArticles} \subseteq Nat

VARIABLES
    queue,      \* Model::iNetReqQueue
    pc,         \* run() is "idle", in its "walk" over the queue, or "crashed"
    cursor,     \* index of the entry the walk takes next
    late,       \* history: requests queued since the walk began
    accepted,   \* history: number of requests queued so far
    told,       \* history: <<request, node>> whose bytes were queued
    toldAgain   \* history: those that were queued once more later on

walkVars    == <<pc, cursor>>
historyVars == <<late, accepted, told, toldAgain>>
vars == <<queue, walkVars, historyVars, hostVars>>

States == {"new", "processing", "inWishList", "sentAround", "ready"}
Entry == [id : Ids, kind : Kinds, dest : Nodes \cup {NoNode}, item : Items,
          state : States, around : SUBSET Nodes, stale : BOOLEAN]

TypeOK ==
    /\ HostsTypeOK
    /\ queue \in Seq(Entry)
    /\ pc \in {"idle", "walk", "crashed"}
    /\ cursor \in Nat
    /\ late \subseteq Ids
    /\ accepted \in 0 .. MaxRequests
    /\ told \subseteq Ids \X Nodes
    /\ toldAgain \subseteq told

Init ==
    /\ HostsInit
    /\ queue = <<>> /\ pc = "idle" /\ cursor = 0
    /\ late = {} /\ accepted = 0 /\ told = {} /\ toldAgain = {}

Queued == {queue[i].id : i \in DOMAIN queue}

-----------------------------------------------------------------------------
\* Model::addNetworkRequest, for one request and for several.
NewEntry(id, kind, dest, item) ==
    [id |-> id, kind |-> kind, dest |-> dest, item |-> item,
     state |-> "new", around |-> {}, stale |-> FALSE]

AddNetworkRequest_InFront(o) ==
    /\ accepted < MaxRequests
    /\ queue' = <<NewEntry(accepted + 1, o.kind, o.dest, o.item)>> \o queue
    /\ accepted' = accepted + 1
    /\ late' = late \cup {accepted + 1}
    /\ UNCHANGED <<walkVars, told, toldAgain, hostVars>>
AddNetworkRequest(o) ==
    /\ accepted < MaxRequests
    /\ queue' = Append(queue, NewEntry(accepted + 1, o.kind, o.dest, o.item))
    /\ accepted' = accepted + 1
    /\ late' = late \cup {accepted + 1}
    /\ UNCHANGED <<walkVars, told, toldAgain, hostVars>>

\* Ten minutes pass without activity on an entry.
Age(i) ==
    /\ ~queue[i].stale
    /\ queue' = [queue EXCEPT ![i].stale = TRUE]
    /\ UNCHANGED <<walkVars, historyVars, hostVars>>

\* doSendRequestToNode: the bytes <<request, node>> are made, and
\* Model::addItemToSend queues them where a connection is open.
DoSend_Unreached(bytes) ==
    LET queued == {b \in bytes : b[2] \in Nodes}
    IN /\ told' = told \cup queued
       /\ toldAgain' = toldAgain \cup (queued \cap told)
DoSend(bytes) ==
    LET queued == {b \in bytes : b[2] \in Nodes /\ Reachable(b[2])}
    IN /\ told' = told \cup queued
       /\ toldAgain' = toldAgain \cup (queued \cap told)

-----------------------------------------------------------------------------
(***************************************************************************)
(* What becomes of an entry: the entry afterwards, the nodes its bytes are *)
(* made for, the nodes wished for, and the requests it is turned into.     *)
(***************************************************************************)
Outcome(e, send, wish) == [entry |-> e, send |-> send, wish |-> wish]

Done(e) == [e EXCEPT !.state = "ready"]
Sent(e) == [e EXCEPT !.state = "ready", !.stale = FALSE]

\* sendRequestToNodesAroundHash: to the connected nodes of the list at once,
\* the others are wished for; self is taken for connected.
SendRequestToNodesAroundHash(e, list) ==
    LET connected == {n \in ToSet(list) : HasAddressOf(n)}
        wished == {n \in ToSet(list) \ connected : n \notin e.around /\ CanWish(n)}
        around == e.around \cup wished
    IN Outcome([e EXCEPT !.around = around,
                         !.state = IF list # <<>> /\ around # {} THEN "sentAround" ELSE "ready",
                         !.stale = @ /\ connected = {} /\ wished = {}],
               connected, wished)

\* Send to the destination if it is connected, or wish for it, or else.
SendOrWish(e, otherwise) ==
    IF e.dest # NoNode /\ IsConnected(e.dest)
    THEN Outcome(Sent(e), {e.dest}, {})
    ELSE IF e.dest # NoNode /\ CanWish(e.dest)
         THEN Outcome([e EXCEPT !.state = "inWishList", !.stale = FALSE], {}, {e.dest})
         ELSE Outcome(otherwise, {}, {})

\* processRequestForPrivateMessagePublish.
ProcessMessage(e) == SendOrWish(e, Done(e))

\* processRequestForBinaryBlob, ...ClassifiedAd, ...UserProfile: what cannot be
\* wished for stays in the queue as it is.
ProcessFetch(e) == SendOrWish(e, e)

\* processRequestForUserProfileComment.
ProcessFetchComment(e, list) ==
    IF e.dest = NoNode THEN SendRequestToNodesAroundHash(e, list) ELSE SendOrWish(e, e)

\* processRequestForProfilePoll: to the node of the profile, if it is known,
\* and in any case to the nodes around the profile's hash.
ProcessPoll(e, list) ==
    LET direct == IF e.dest # NoNode /\ IsConnected(e.dest) THEN {e.dest} ELSE {}
        wish   == IF e.dest # NoNode /\ direct = {} /\ CanWish(e.dest) THEN {e.dest} ELSE {}
        rest   == SendRequestToNodesAroundHash([e EXCEPT !.stale = FALSE], list)
    IN Outcome(rest.entry, rest.send \cup direct, rest.wish \cup wish)

\* processAdsClassified: a peer is answered, if there are ads; the user's own
\* question goes to the nodes around the hash of the classification.
ProcessAdsClassified(e, list, found) ==
    IF e.dest = NoNode THEN SendRequestToNodesAroundHash(e, list)
    ELSE Outcome(Done(e), IF found THEN {e.dest} ELSE {}, {})

\* processNodeGreeting, processBinaryBlob, processUserProfile, ...: what is
\* found in the tables is sent to the peer that asked.
ProcessReply(e, found) == Outcome(Done(e), IF found THEN {e.dest} ELSE {}, {})

\* processRequestForContentPublish: likewise for what is to be published.
ProcessContentPublish(e, found) == ProcessReply(e, found)

\* processRequestForNodesAroundHash: the first connections in the list.
ProcessNodesAround(e, some) == Outcome(Done(e), {connections[c].peer : c \in some}, {})

\* The switch of run().
Outcomes(e) ==
    CASE e.kind = "message" -> {ProcessMessage(e)}
      [] e.kind \in {"fetchFile", "fetchAd"} -> {ProcessFetch(e)}
      [] e.kind = "fetchComment" -> {ProcessFetchComment(e, list) : list \in NodeLists}
      [] e.kind = "poll" -> {ProcessPoll(e, list) : list \in NodeLists}
      [] e.kind = "ads" -> {ProcessAdsClassified(e, list, found) :
                              list \in NodeLists, found \in BOOLEAN}
      [] e.kind = "nodesAround" -> {ProcessNodesAround(e, some) : some \in SUBSET Identified}
      [] e.kind = "listing" -> {Outcome(Done(e), {}, {})}
      [] e.kind = "publish" -> {ProcessContentPublish(e, found) : found \in BOOLEAN}
      [] e.kind = "reply" -> {ProcessReply(e, found) : found \in BOOLEAN}

\* processPrivateMessagesForProfile, processUserProfileCommentsForProfile: one
\* request of its own for each article that is found, and for the profile.
Articles(e) == IF e.kind = "listing" THEN 0 .. MaxArticles ELSE {0}
EntriesFor(e, count) ==
    [k \in 1 .. count |-> NewEntry(accepted + k, "reply", e.dest, e.item)]

-----------------------------------------------------------------------------
(***************************************************************************)
(* run().                                                                  *)
(***************************************************************************)
BeginWalk ==
    /\ pc = "idle"
    /\ pc' = "walk" /\ cursor' = Len(queue) /\ late' = {}
    /\ UNCHANGED <<queue, accepted, told, toldAgain, hostVars>>

\* Entries that are done or ten minutes old are removed.
Removable_DoneOnly(e) == e.state = "ready"
Removable(e) == e.state = "ready" \/ e.stale

\* The queue with entry i changed to e and then looked at for removal.
Revised(i, e, appended) ==
    LET revised == [queue EXCEPT ![i] = e] \o appended
    IN IF Removable(e) THEN RemoveAt(revised, i) ELSE revised

\* An entry is new: it is processed.
HandleNewEntry ==
    /\ pc = "walk" /\ cursor \in DOMAIN queue
    /\ LET e == [queue[cursor] EXCEPT !.state = "processing"]
       IN /\ queue[cursor].state = "new"
          /\ \E o \in Outcomes(e), count \in Articles(e) :
                /\ accepted + count <= MaxRequests
                /\ queue' = Revised(cursor, o.entry, EntriesFor(e, count))
                /\ accepted' = accepted + count
                /\ late' = late \cup {accepted + k : k \in 1 .. count}
                /\ DoSend({e.id} \X o.send)
                /\ wishList' = wishList \cup o.wish
    /\ cursor' = cursor - 1
    /\ UNCHANGED <<pc, connections, statusEvents>>

\* Another one is only looked at for removal.
HandleOldEntry ==
    /\ pc = "walk" /\ cursor \in DOMAIN queue
    /\ queue[cursor].state # "new"
    /\ queue' = Revised(cursor, queue[cursor], <<>>)
    /\ cursor' = cursor - 1
    /\ UNCHANGED <<pc, historyVars, hostVars>>

\* Entries were removed while the mutex was free and the index is past the end
\* of the list: requests[i] reads memory behind it. There may be anything, or
\* nothing that looks like an entry to work on.
HandlePastEnd ==
    /\ pc = "walk" /\ cursor > Len(queue)
    /\ \/ pc' = "crashed" /\ UNCHANGED cursor
       \/ cursor' = cursor - 1 /\ UNCHANGED pc
    /\ UNCHANGED <<queue, historyVars, hostVars>>

\* Every 300 seconds the nodes of the connections get a new connect time.
EndWalk ==
    /\ pc = "walk" /\ cursor = 0
    /\ pc' = "idle"
    /\ UNCHANGED <<queue, cursor, historyVars, hostVars>>

-----------------------------------------------------------------------------
(***************************************************************************)
(* The slot nodeConnectionAttemptStatus: delivered by the event loop of    *)
(* the main thread, never within a walk.                                   *)
(***************************************************************************)

\* One node of the list around has reported.
NodeReported(e, n) ==
    [e EXCEPT !.around = @ \ {n}, !.state = IF e.around = {n} THEN "ready" ELSE @]

\* What the report makes of an entry that waits for it; found: the message is
\* still there; list: the nodes after the hash of the destination.
OutcomeOfReport(e, event, list, found) ==
    LET n == event.peer
        open == event.status = "Open"
        fresh == [e EXCEPT !.stale = FALSE]
    IN IF e.dest = n /\ e.state = "inWishList"
       THEN IF open
            THEN Outcome(Sent(e), IF e.kind = "message" /\ ~found THEN {} ELSE {n}, {})
            ELSE SendRequestToNodesAroundHash(e, list)
       ELSE IF n \in e.around /\ e.state = "sentAround"
       THEN IF open THEN Outcome(NodeReported(fresh, n), {n}, {})
                    ELSE Outcome(NodeReported(e, n), {}, {})
       ELSE Outcome(e, {}, {})

NodeConnectionAttemptStatus ==
    /\ pc = "idle" /\ statusEvents # <<>>
    /\ \E lists \in [DOMAIN queue -> NodeLists], found \in BOOLEAN :
          LET outcome == [i \in DOMAIN queue |->
                            OutcomeOfReport(queue[i], Head(statusEvents), lists[i], found)]
          IN /\ queue' = [i \in DOMAIN queue |-> outcome[i].entry]
             /\ DoSend(UNION {{queue[i].id} \X outcome[i].send : i \in DOMAIN queue})
             /\ wishList' = wishList \cup UNION {outcome[i].wish : i \in DOMAIN queue}
    /\ statusEvents' = Tail(statusEvents)
    /\ UNCHANGED <<walkVars, late, accepted, connections>>

-----------------------------------------------------------------------------
\* Model::notifyOfContentReceived, a slot of the main thread: what was fetched
\* need not be fetched any more. An ad that a peer asked for stays.
Settled(e, kind, item) ==
    /\ e.kind = kind /\ e.item = item
    /\ kind = "fetchAd" => e.dest = NoNode
NotifyOfContentReceived(kind, item) ==
    /\ pc = "idle"
    /\ kind \in {"fetchFile", "fetchAd"}
    /\ \E i \in DOMAIN queue : Settled(queue[i], kind, item)
    /\ queue' = Filter(queue, {e \in ToSet(queue) : ~Settled(e, kind, item)})
    /\ UNCHANGED <<walkVars, historyVars, hostVars>>

\* Model::removeOpenNetworkConnection, in the thread of the connection: the
\* requests for its node go with it, whoever wants them.
RemoveOpenNetworkConnection(c) ==
    /\ ConnectionClosed(c)
    /\ queue' = IF c \in Identified
                THEN Filter(queue, {e \in ToSet(queue) : e.dest # connections[c].peer})
                ELSE queue
    /\ UNCHANGED <<walkVars, historyVars>>

\* The rest of the network does not touch the queue.
OtherThreads ==
    /\ \/ \E n \in Nodes : ServeWishListItem(n) \/ IncomingConnection(n)
       \/ \E c \in ConnIds : ConnectionReady(c) \/ ConnectionCloses(c)
    /\ UNCHANGED <<queue, walkVars, historyVars>>

-----------------------------------------------------------------------------
Run == BeginWalk \/ HandleNewEntry \/ HandleOldEntry \/ HandlePastEnd \/ EndWalk

Next ==
    \/ \E o \in Offers : AddNetworkRequest(o)
    \/ \E i \in DOMAIN queue : Age(i)
    \/ Run
    \/ NodeConnectionAttemptStatus
    \/ \E kind \in Kinds, item \in Items : NotifyOfContentReceived(kind, item)
    \/ \E c \in ConnIds : RemoveOpenNetworkConnection(c)
    \/ OtherThreads

Spec == Init /\ [][Next]_vars

\* The timer fires every second, run() does not block, and time passes.
Fairness ==
    /\ WF_vars(Run)
    /\ WF_vars(\E i \in DOMAIN queue : queue[i].state # "new" /\ Age(i))

FairSpec == Spec /\ Fairness

-----------------------------------------------------------------------------
(***************************************************************************)
(* Safety.                                                                 *)
(***************************************************************************)

\* The walk goes down through a list that shrinks under it and grows behind it:
\* it passes over no request. What is new behind the index came during the walk
\* (run(), which releases the mutex after each entry).
NoneOverlooked ==
    pc = "walk" =>
       \A i \in DOMAIN queue : i > cursor /\ queue[i].state = "new" => queue[i].id \in late

\* The nodes a request waits for.
WaitsFor(e) == IF e.state = "inWishList" THEN {e.dest}
               ELSE IF e.state = "sentAround" THEN e.around ELSE {}

\* No lost wake-up: on each node a request waits for a report is still to come,
\* from the wish, the connection or the queued event; else the request would
\* block its place until it is ten minutes old. Excepted are the nodes whose
\* wish the connector may drop without a word.
NoOrphanRequest ==
    \A i \in DOMAIN queue : \A n \in WaitsFor(queue[i]) \ Dropped : ReportComing(n)

\* A request waits for somebody, or does not say that it does: a list of nodes
\* that has run empty would never be looked at again.
WaitsForSomebody == \A i \in DOMAIN queue : queue[i].state = "sentAround" => queue[i].around # {}

\* However often a node's connection is opened, closed and reported, the same
\* request is not told to it again (removeOne in the slot, the test of
\* iWishListForNodesAround in sendRequestToNodesAroundHash).
ToldOnce == toldAgain = {}

-----------------------------------------------------------------------------
(***************************************************************************)
(* The queue implements the abstract service.                              *)
(***************************************************************************)
Pending == {queue[i].id : i \in {j \in DOMAIN queue : queue[j].state # "ready"}}

Service == INSTANCE RequestService WITH
              Requests <- Ids, Hosts <- Nodes,
              pending <- Pending, ended <- (1 .. accepted) \ Pending,
              told <- told, reachable <- {n \in Nodes : Reachable(n)}

\* A request is told only while it is pending and only to nodes with an open
\* connection; what has ended, by being done, too old, settled or of no use
\* any more, stays ended (every action on iNetReqQueue).
ImplementsService == Service!Spec

\* Every request ends, whatever the network does, unless the index has left the
\* list: the worst that can happen to it are ten minutes without activity.
EveryRequestEnds ==
    \A r \in Ids : r \in Pending ~> r \notin Pending \/ pc = "crashed"

-----------------------------------------------------------------------------
(***************************************************************************)
(* What the comments of the code promise and the code does not do.         *)
(***************************************************************************)

\* netrequestexecutor.cpp:333: "if node of the profile is known, it is stored at
\* aEntry.iDestinationNode and naturally we send the poll there": a poll that is
\* still in the queue when its node gets connected is sent to it.
PollGoesToItsNode ==
    [][\A i \in DOMAIN queue :
          LET e == queue[i]
          IN /\ e.kind = "poll" /\ e.state = "sentAround"
             /\ statusEvents # <<>> /\ statusEvents' = Tail(statusEvents)
             /\ Head(statusEvents) = [status |-> "Open", peer |-> e.dest]
             /\ Reachable(e.dest)
             => <<e.id, e.dest>> \in told']_vars
=============================================================================
