----------------------------- MODULE MCRetrievals -----------------------------
(***************************************************************************)
(* Small instances of Retrieval and of DbRetrieval over the same Hosts. In *)
(* a behaviour one of the two engines has something to do.                 *)
(***************************************************************************)
EXTENDS Retrieval, TLC

CONSTANTS n1, n2, self, file, comment, coll, record, none,
          DbQueries   \* queries of records that may be begun

\* The user opens a comment or fetches an attachment; both may name a node.
MC_Offers ==
    {[item |-> file, dest |-> NoNode, background |-> TRUE],
     [item |-> file, dest |-> n1, background |-> FALSE],
     [item |-> comment, dest |-> n1, background |-> FALSE]}

\* A list with duplicates, as getNodesAfterHash makes them, and another one.
MC_NodesAfter == file :> <<n1, self, n1>> @@ comment :> <<n2>>

Terms(id, after) == [iFromCollection |-> coll, iById |-> id, iModifiedAfter |-> after,
                     iModifiedBefore |-> 2, iBySearchPhrase |-> {}]

\* One record, those of late and all of a collection.
MC_Queries == {Terms(record, 0), Terms(none, 1), Terms(none, 0)}
MC_TwoQueries == {Terms(record, 0), Terms(none, 1)}
MC_Records == {[collection |-> coll, id |-> record, time |-> t, words |-> {}] : t \in 0 .. 2}

VARIABLES searchTerms, dbCandidates, dbSucceeded, turnedAway,
          engine   \* the one that has something to do

D == INSTANCE DbRetrieval WITH
         Queries <- DbQueries, AnyRecord <- none, Records <- MC_Records,
         NodesAfter <- coll :> <<n1, self, n1>>, MaxQueries <- 2,
         candidates <- dbCandidates, succeeded <- dbSucceeded

ASSUME DbRetrievalAssumption == D!DbRetrievalAssumption

recordVars == <<searchTerms, dbCandidates, dbSucceeded, turnedAway>>
contentVars == <<engineVars, dialogVars, queries, owed, requests>>
allVars == <<contentVars, recordVars, hostVars, engine>>

\* Bounds: the slots of connections while content is fetched, and the nodes that
\* are met while records are.
ContentSlots == {1}
RecordPeers == {n1}

ContentStep(A) ==
    /\ engine = "content" /\ A
    /\ UNCHANGED <<recordVars, engine>>
RecordStep(A) ==
    /\ engine = "records" /\ A
    /\ UNCHANGED <<contentVars, engine>>

BothInit == Init /\ D!Init /\ engine \in {"content", "records"}
BothNext == \/ ContentStep(Next /\ Alive' \subseteq ContentSlots)
            \/ RecordStep(D!Next /\ \A c \in Alive' : connections'[c].peer \in RecordPeers)

\* The fairness of each.
BothSpec ==
    /\ BothInit /\ [][BothNext]_allVars
    /\ WF_allVars(ContentStep(Run)) /\ WF_allVars(ContentStep(Wait))
    /\ WF_allVars(RecordStep(D!Run))
    /\ WF_allVars(RecordStep(D!NodeConnectionAttemptStatus))
    /\ \A i \in 1 .. 2 : WF_allVars(RecordStep(i \in DOMAIN searchTerms /\ D!Age(i)))

-----------------------------------------------------------------------------
\* No wake-up of the record engine is lost (NoneMissed of DbRetrieval).
NoneMissed == D!NoneMissed

\* A node that ought to get a query of records and stays connected gets it
\* (KeptInformed of DbRetrieval).
KeptInformed == D!KeptInformed

\* What a query that is not begun would find, the older one finds
\* (IncludedInOlder of DbRetrieval; the code does not keep it).
IncludedInOlder == D!IncludedInOlder

BothTypeOK == TypeOK /\ D!TypeOK
=============================================================================
