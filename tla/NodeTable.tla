------------------------------ MODULE NodeTable ------------------------------
(***************************************************************************)
(* The table of known nodes (datamodel/nodemodel.cpp) and the questions    *)
(* the engines ask of it. A node is its hash, a position on the ring; the  *)
(* queries compare the first 32 bits, which are taken to tell nodes apart. *)
(*                                                                         *)
(* A row has the time of the last contact with the node (last_conn_time),  *)
(* the time that decides which row is the first to go                      *)
(* (time_last_reference) and what kind of address the node gave. Names of  *)
(* the DNS and of Tor, the port and the flags shown in the user interface  *)
(* are left out.                                                           *)
(*                                                                         *)
(* A definition whose name is that of the next one and a suffix is a wrong *)
(* version of it.                                                          *)
(***************************************************************************)
EXTENDS ThisNode, Sequences, FiniteSets, SequencesExt, ListFilter

CONSTANTS
    Now,       \* the time; it stands still
    Fortnight, \* two weeks in the same unit
    HasIpv6    \* this host can use IPv6

\* This node has a row of its own.
Everybody == Nodes \cup {Self}

ASSUME RingAssumption == /\ Everybody \subseteq Nat
                         /\ IsFiniteSet(Nodes)
                         /\ Now \in Nat /\ Fortnight \in Nat
                         /\ HasIpv6 \in BOOLEAN

Addresses == {"none", "v4", "v6"}
Row == [contact : 0 .. Now, reference : 0 .. Now, address : Addresses]

\* What a node greeting says of a node.
Greeting == [node : Everybody, contact : 0 .. Now, address : Addresses]

-----------------------------------------------------------------------------
(***************************************************************************)
(* Writing.                                                                *)
(***************************************************************************)

\* insertNodeToDb
InsertNode(table, g) ==
    [n \in DOMAIN table \cup {g.node} |->
        IF n = g.node
        THEN [contact |-> g.contact, reference |-> g.contact, address |-> g.address]
        ELSE table[n]]

\* nodeGreetingReceived: the side that had contact last is believed; of two
\* that had it at the same time, we are. updateNodeInDb does not touch the
\* reference.
NodeGreetingReceived(table, g) ==
    IF g.node \notin DOMAIN table THEN InsertNode(table, g)
    ELSE IF g.contact > table[g.node].contact
         THEN [table EXCEPT ![g.node].contact = g.contact, ![g.node].address = g.address]
         ELSE table

\* updateNodeLastConnectTimeInDb, for each of the nodes.
UpdateLastConnectTimes(table, connected) ==
    [n \in DOMAIN table |->
        IF n \in connected THEN [table[n] EXCEPT !.contact = Now, !.reference = Now]
                           ELSE table[n]]

\* deleteOldestDataRowInTable: the rows one of which goes.
Oldest(table) ==
    {n \in DOMAIN table : \A m \in DOMAIN table : table[n].reference <= table[m].reference}

-----------------------------------------------------------------------------
(***************************************************************************)
(* Reading.                                                                *)
(***************************************************************************)

\* The set in order, Ahead(a, b) saying that a comes before b.
Ordered(S, Ahead(_, _)) ==
    [i \in 1 .. Cardinality(S) |->
        CHOOSE n \in S : Cardinality({m \in S : Ahead(m, n)}) = i - 1]
Upwards(S) == Ordered(S, <)
Downwards(S) == Ordered(S, >)

\* "order by ... limit k"
Limit(seq, k) == IF Len(seq) <= k THEN seq ELSE SubSeq(seq, 1, k)

HasAddress(table, n) == table[n].address # "none"
Usable(table, n) == table[n].address \in {"v4"} \cup IF HasIpv6 THEN {"v6"} ELSE {}

\* The rows getNodesAfterHash looks at, without a limit of inactivity.
Candidates(table, failed) == {n \in DOMAIN table : HasAddress(table, n) /\ n \notin failed}

\* getNodesBeforeHash looks at those contacted in the two weeks before the
\* last contact with anybody.
LatestContact(table) == Max({table[n].contact : n \in DOMAIN table} \cup {0})
RecentCandidates(table, failed) ==
    {n \in Candidates(table, failed) : table[n].contact + Fortnight >= LatestContact(table)}

\* "don't try returning more than we have"
AtMost(table, k) == IF k > Cardinality(DOMAIN table) THEN Cardinality(DOMAIN table) ELSE k

\* The nodes from the hash upwards and then, if they are too few, from zero.
\* The second query does not know what the first one found. If there are still
\* too few the nodes we are connected to are appended, one more than is missing.
GetNodesAfterHash_RollsFromHash(table, failed, connected, hash, k) ==
    LET most == AtMost(table, k)
        found == Candidates(table, failed)
        first == Limit(Upwards({n \in found : n >= hash}), most)
        both == first \o Limit(Upwards({n \in found : n >= hash}), most - Len(first))
    IN IF Len(both) < most THEN both \o Limit(connected, most - Len(both) + 1) ELSE both
GetNodesAfterHash(table, failed, connected, hash, k) ==
    LET most == AtMost(table, k)
        found == Candidates(table, failed)
        first == Limit(Upwards({n \in found : n >= hash}), most)
        both == first \o Limit(Upwards(found), most - Len(first))
    IN IF Len(both) < most THEN both \o Limit(connected, most - Len(both) + 1) ELSE both

GetNodesBeforeHash(table, failed, hash, k) ==
    LET most == AtMost(table, k)
        found == RecentCandidates(table, failed)
        first == Limit(Downwards({n \in found : n <= hash}), most)
    IN first \o Limit(Downwards(found), most - Len(first))

\* retrieveListOfHotConnections: those we can reach, latest contact first.
HotConnections(table, failed, connected, most) ==
    LET found == {n \in DOMAIN table : /\ n # Self /\ n \notin failed /\ n \notin connected
                                       /\ Usable(table, n)}
    IN Limit(Ordered(found, LAMBDA a, b :
                 \/ table[a].contact > table[b].contact
                 \/ table[a].contact = table[b].contact /\ a < b), most)

-----------------------------------------------------------------------------
(***************************************************************************)
(* What the two queries about the ring are to find.                        *)
(***************************************************************************)

\* How far it is from a hash to a node, going up the ring of that many places.
Distance(from, to) == IF to >= from THEN to - from ELSE to + Max(Everybody) + 1 - from

\* The k candidates nearest to the hash, nearest first.
Nearest(seq, k, found, Away(_)) ==
    /\ Len(seq) = k
    /\ ToSet(seq) \subseteq found
    /\ \A i, j \in 1 .. k : i < j => Away(seq[i]) < Away(seq[j])
    /\ \A n \in found \ ToSet(seq), m \in ToSet(seq) : Away(m) < Away(n)
=============================================================================
