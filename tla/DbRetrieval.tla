----------------------------- MODULE DbRetrieval -----------------------------
(***************************************************************************)
(* Keeping database records up to date: the queries of the user's programs *)
(* that net/dbretrievalengine.cpp, a timer of the main thread, sends to    *)
(* the nodes after the hash of the collection, to each as soon as it is    *)
(* connected and from then on every 15 minutes.                            *)
(*                                                                         *)
(* What a query may ask for is reduced to a collection, a record, a span   *)
(* of time and the words it looks for. The list of the nodes a query was   *)
(* sent to is a set.                                                       *)
(***************************************************************************)
EXTENDS Hosts

CONSTANTS
    Queries,        \* search terms that may be asked for
    AnyRecord,      \* KNullHash where a record is expected
    Records,        \* records there may be: [collection, id, time, words]
    NodesAfter,     \* what getNodesAfterHash returns for a collection
    MaxQueries      \* bound: queries that are held at the same time

SearchTerms(t) == /\ t.iModifiedAfter \in Nat /\ t.iModifiedBefore \in Nat
                  /\ t.iFromCollection \in DOMAIN NodesAfter

DbRetrievalAssumption ==
    /\ \A t \in Queries : SearchTerms(t)
    /\ \A c \in DOMAIN NodesAfter : NodesAfter[c] \in Seq(Peers)
    /\ MaxQueries \in Nat

VARIABLES
    searchTerms,   \* iSearchTerms, with the nodes that ought to get the query
    candidates,    \* iNodeCandidatesToTryQuery
    succeeded,     \* iNodesSuccessfullyConnected
    turnedAway     \* history: <<query, older query>>, the last if not begun

vars == <<searchTerms, candidates, succeeded, turnedAway, hostVars>>

\* asked: iListOfNodes. old: the last refresh was 15 minutes ago. chosen, told:
\* history, the nodes it is meant for and those to which bytes were queued.
Query == [terms : Queries, asked : SUBSET Peers, old : BOOLEAN,
          chosen : SUBSET Peers, told : SUBSET Nodes]

TypeOK ==
    /\ HostsTypeOK
    /\ searchTerms \in Seq(Query) /\ Len(searchTerms) <= MaxQueries
    /\ candidates \subseteq Nodes /\ succeeded \subseteq candidates
    /\ turnedAway \subseteq Queries \X Queries

Init ==
    /\ HostsInit
    /\ searchTerms = <<>> /\ candidates = {} /\ succeeded = {} /\ turnedAway = {}

Held == {searchTerms[i].terms : i \in DOMAIN searchTerms}

\* CaDbRecord::SearchStructure::operator<.
Less(t, u) ==
    /\ t.iFromCollection = u.iFromCollection
    /\ t.iById = u.iById
    /\ t.iModifiedAfter <= u.iModifiedAfter
    /\ t.iModifiedBefore >= u.iModifiedBefore
    /\ t.iBySearchPhrase \subseteq u.iBySearchPhrase

\* CaDbRecordModel::searchRecords: the records a query finds.
SearchRecords(t) ==
    {r \in Records : /\ r.collection = t.iFromCollection
                     /\ t.iById \in {AnyRecord, r.id}
                     /\ t.iModifiedAfter <= r.time /\ r.time <= t.iModifiedBefore
                     /\ t.iBySearchPhrase \subseteq r.words}

\* sendQueryToNode: to the first open connection of the node, if there is one.
Told(nodes) == {n \in nodes \cap Nodes : Reachable(n)}

-----------------------------------------------------------------------------
\* startRetrieving: nodes that are connected, or about to be, are marked as
\* asked; the others are wished for.
StartRetrieving(t) ==
    LET near == ToSet(NodesAfter[t.iFromCollection])
        older == {u \in Held : Less(t, u)}
        connected == {n \in near : HasAddressOf(n)}
    IN IF older # {}
       THEN /\ turnedAway' = {t} \X older
            /\ UNCHANGED <<searchTerms, candidates, succeeded, hostVars>>
       ELSE /\ Len(searchTerms) < MaxQueries
            /\ searchTerms' = Append(searchTerms,
                 [terms |-> t, asked |-> connected, old |-> FALSE,
                  chosen |-> near, told |-> Told(connected)])
            /\ candidates' = candidates \cup (near \ connected)
            /\ wishList' = wishList \cup (near \ connected)
            /\ turnedAway' = {}
            /\ UNCHANGED <<succeeded, connections, statusEvents>>

\* run(), every five seconds: to every node that got connected the queries it
\* has not been asked, and the queries of 15 minutes ago to all that still are.
Refreshed_NeverAgain(q) ==
    LET new == succeeded \ q.asked
    IN [q EXCEPT !.asked = @ \cup new, !.told = @ \cup Told(new),
                 !.old = @ /\ new = {}]
Refreshed(q) ==
    LET new == succeeded \ q.asked
        old == q.old /\ new = {}
        again == {n \in q.asked : old /\ IsConnected(n)}
    IN [q EXCEPT !.asked = @ \cup new, !.told = @ \cup Told(new \cup again), !.old = FALSE]

Run ==
    /\ searchTerms' = [i \in DOMAIN searchTerms |-> Refreshed(searchTerms[i])]
    /\ succeeded' = {}
    /\ UNCHANGED <<candidates, turnedAway, hostVars>>

\* Fifteen minutes pass.
Age(i) ==
    /\ ~searchTerms[i].old
    /\ searchTerms' = [searchTerms EXCEPT ![i].old = TRUE]
    /\ UNCHANGED <<candidates, succeeded, turnedAway, hostVars>>

\* nodeConnectionAttemptStatus. (The list of failures is not used.)
NodeConnectionAttemptStatus ==
    LET event == Head(statusEvents)
    IN /\ statusEvents # <<>>
       /\ succeeded' = succeeded \cup
                       {n \in {event.peer} : n \in candidates /\ event.status = "Open"}
       /\ statusEvents' = Tail(statusEvents)
       /\ UNCHANGED <<searchTerms, candidates, turnedAway, wishList, connections>>

\* notifyOfContentReceived: a query for one record ends with the record.
NotifyOfContentReceived(id) ==
    /\ searchTerms' = SelectSeq(searchTerms, LAMBDA q : q.terms.iById # id)
    /\ UNCHANGED <<candidates, succeeded, turnedAway, hostVars>>

StopRetrieving ==
    /\ searchTerms' = <<>> /\ candidates' = {} /\ succeeded' = {}
    /\ UNCHANGED <<turnedAway, hostVars>>

OtherThreads ==
    /\ \/ \E n \in Nodes : ServeWishListItem(n) \/ IncomingConnection(n)
       \/ \E c \in ConnIds : ConnectionReady(c) \/ ConnectionCloses(c) \/ ConnectionClosed(c)
    /\ UNCHANGED <<searchTerms, candidates, succeeded, turnedAway>>

Next ==
    \/ \E t \in Queries : StartRetrieving(t)
    \/ Run
    \/ \E i \in DOMAIN searchTerms : Age(i)
    \/ NodeConnectionAttemptStatus
    \/ \E r \in Records : NotifyOfContentReceived(r.id)
    \/ StopRetrieving
    \/ OtherThreads

Spec == Init /\ [][Next]_vars

\* The main thread delivers what is queued, the timer fires, run() does not
\* block, and time passes.
FairSpec == /\ Spec /\ WF_vars(Run) /\ WF_vars(NodeConnectionAttemptStatus)
            /\ \A i \in 1 .. MaxQueries : WF_vars(i \in DOMAIN searchTerms /\ Age(i))

-----------------------------------------------------------------------------
\* No lost wake-up: a node that ought to get a query and is connected has been
\* marked for it, or the report that it got connected is still to be used.
\* Violated when a node is connected between the look at the connections and
\* the entry in the list of candidates, or when two reports come between two
\* passes (startRetrieving, nodeConnectionAttemptStatus, run()).
NoneMissed ==
    \A i \in DOMAIN searchTerms : \A n \in searchTerms[i].chosen \ {Self} :
       Reachable(n) => \/ n \in searchTerms[i].asked \cup succeeded
                       \/ \E k \in DOMAIN statusEvents :
                             statusEvents[k] = [status |-> "Open", peer |-> n]

\* A node that ought to get a query and stays connected gets it, and be it after
\* 15 minutes: it may be marked while its handshake is going on, or be reported
\* when it has gone already, and then nothing is sent.
KeptInformed ==
    \A t \in Queries, n \in Nodes :
       LET Owed == \E i \in DOMAIN searchTerms :
                      /\ searchTerms[i].terms = t
                      /\ n \in searchTerms[i].chosen \ searchTerms[i].told
       IN Owed /\ Reachable(n) ~> ~Owed \/ ~Reachable(n)

\* dbretrievalengine.cpp:134: a query is not begun when its "search conditions
\* are already included in at least one query": what it would find, the older
\* one finds.
IncludedInOlder == \A p \in turnedAway : SearchRecords(p[1]) \subseteq SearchRecords(p[2])

\* dbretrievalengine.cpp:50: iListOfNodes "contains book-keeping about nodes that
\* already have been sent the query".
MarkedIsTold == \A i \in DOMAIN searchTerms : searchTerms[i].asked \subseteq searchTerms[i].told
=============================================================================
