-------------------------- MODULE ConnectionsProofs --------------------------
(***************************************************************************)
(* Proofs about the connections of this node. First about Connections, for *)
(* any nodes, number of connections and limit, with every way to lose the  *)
(* mutex. Each thread goes through the phases of run() in one direction,   *)
(* and what it has reported, whether it knows its node and whether it is   *)
(* in the list go with the phase it is in; that is the inductive           *)
(* invariant. Then about the node table and Connector, for any ring: what  *)
(* the queries around a hash find, and that failed nodes rest.             *)
(***************************************************************************)
EXTENDS Connections, Connector,
        SequenceLemmas, SequenceTheorems, FiniteSetTheorems, TLAPS

\* What a connection has reported in the phase it is in.
ReportInv ==
    \A c \in ConnIds :
       /\ phase[c] \in {"none", "starting", "handshake", "identified"} => reports[c] = <<>>
       /\ phase[c] = "identified" => state[c] = "Open" /\ known[c]
       /\ phase[c] = "reading" => reports[c] = <<"Open">> /\ known[c]
       /\ phase[c] = "ended" => \/ reports[c] = <<>>
                                \/ reports[c] = <<"Open">> /\ known[c]
       /\ phase[c] = "finished" =>
             /\ reports[c] \in {<<>>, <<"Closing">>, <<"Open", "Closing">>}
             /\ wanted[c] # NoNode => reports[c] # <<>>

\* Who is at the other end once the certificate has been looked at.
PeerInv ==
    \A c \in ConnIds :
       phase[c] \in {"identified", "reading"} /\ needsToRun[c] =>
          /\ peer[c] # Self
          /\ wanted[c] \in {NoNode, peer[c]}

\* Connections whose thread has not closed them yet.
Unclosed == {c \in ConnIds : phase[c] \notin {"none", "finished"}}

ListInv == IsInjective(list) /\ ToSet(list) = Unclosed

\* As long as the shutdown waits for all connections it deletes none itself.
FreedInv ==
    ~SlowClose =>
       /\ \A c \in freed : phase[c] = "finished"
       /\ main \in {"deleting", "over"} => list = <<>>

Inv == TypeOK /\ ReportInv /\ PeerInv /\ ListInv /\ FreedInv

-----------------------------------------------------------------------------
\* Reports are sequences, the shortest of which are built here.
LEMMA ShortSequences ==
    /\ Append(<<>>, "Open") = <<"Open">>
    /\ Append(<<>>, "Closing") = <<"Closing">>
    /\ Append(<<"Open">>, "Closing") = <<"Open", "Closing">>
<1> DEFINE S == {"Open", "Closing"}
           s == Append(<<"Open">>, "Closing")
           t == <<"Open", "Closing">>
<1>1. Append(<<>>, "Open") = <<"Open">>
  OBVIOUS
<1>2. Append(<<>>, "Closing") = <<"Closing">>
  OBVIOUS
<1>3. <<"Open">> \in Seq(S) /\ Len(<<"Open">>) = 1 /\ <<"Open">>[1] = "Open"
  OBVIOUS
<1>4. s \in Seq(S) /\ Len(s) = 2 /\ s[1] = "Open" /\ s[2] = "Closing"
  BY <1>3, AppendProperties
<1>5. t \in Seq(S) /\ Len(t) = 2 /\ t[1] = "Open" /\ t[2] = "Closing"
  OBVIOUS
<1> HIDE DEF s, t
<1>6. \A i \in 1 .. Len(s) : s[i] = t[i]
  <2>1. TAKE i \in 1 .. Len(s)
  <2>2. i = 1 \/ i = 2
    BY <1>4
  <2>3. QED
    BY <1>4, <1>5, <2>2
<1>7. s = t
  BY <1>4, <1>5, <1>6, SeqEqual
<1>8. QED
  BY <1>1, <1>2, <1>7 DEF s, t

\* What the empty sequence contains.
LEMMA EmptyList == ToSet(<<>>) = {} /\ IsInjective(<<>>)
BY DEF ToSet, IsInjective

\* The initial states satisfy the inductive invariant.
LEMMA InitInv == Init => Inv
<1> SUFFICES ASSUME Init PROVE Inv
  OBVIOUS
<1>1. TypeOK
  BY DEF Init, TypeOK, Phases
<1>2. ReportInv /\ PeerInv
  BY DEF Init, ReportInv, PeerInv
<1>3. ListInv /\ FreedInv
  BY EmptyList DEF Init, ListInv, FreedInv, Unclosed
<1>4. QED
  BY <1>1, <1>2, <1>3 DEF Inv

-----------------------------------------------------------------------------
\* Closing the oldest connection only tells connections to close.
LEMMA CloseOldestType ==
    ASSUME Inv, NEW candidates \in SUBSET ConnIds, CloseOldestInactive(candidates)
    PROVE  /\ needsToRun' \in [ConnIds -> BOOLEAN]
           /\ \A c \in ConnIds : needsToRun'[c] => needsToRun[c]
BY DEF Inv, TypeOK, CloseOldestInactive

\* A connection is opened: it joins the list in its first phase.
LEMMA AddOpenInv ==
    ASSUME Inv, NEW c \in ConnIds, AddOpenNetworkConnection(c),
           main \in {"running", "stopping"},
           peer' \in [ConnIds -> Peers \cup {NoNode}],
           incoming' \in [ConnIds -> BOOLEAN],
           wanted' \in [ConnIds -> Nodes \cup {NoNode}],
           \A d \in ConnIds \ {c} : peer'[d] = peer[d] /\ wanted'[d] = wanted[d]
    PROVE  Inv'
<1>1. /\ phase[c] = "none" /\ phase' = [phase EXCEPT ![c] = "starting"]
      /\ list' = Append(list, c)
      /\ UNCHANGED <<state, socket, known, reports, freed, lock, main>>
  BY DEF AddOpenNetworkConnection
<1>2. list \in Seq(ConnIds) /\ ToSet(list) \subseteq ConnIds /\ c \notin ToSet(list)
  BY <1>1 DEF Inv, TypeOK, ListInv, Unclosed
<1>3. list' \in Seq(ConnIds) /\ ToSet(list') = ToSet(list) \cup {c} /\ IsInjective(list')
  BY <1>1, <1>2, AppendMembers DEF Inv, ListInv
<1>4. /\ needsToRun' \in [ConnIds -> BOOLEAN]
      /\ \A d \in ConnIds : needsToRun'[d] => needsToRun[d]
  BY <1>2, CloseOldestType DEF AddOpenNetworkConnection, Inv, TypeOK
<1>5. TypeOK'
  BY <1>1, <1>3, <1>4 DEF Inv, TypeOK, Phases
<1>6. ReportInv' /\ PeerInv'
  BY <1>1, <1>4 DEF Inv, TypeOK, ReportInv, PeerInv
<1>7. ListInv'
  BY <1>1, <1>3 DEF Inv, TypeOK, ListInv, Unclosed
<1>8. FreedInv'
  BY <1>1 DEF Inv, TypeOK, FreedInv
<1>9. QED
  BY <1>5, <1>6, <1>7, <1>8 DEF Inv

\* Both ways to open a connection preserve the invariant.
LEMMA OpeningInv ==
    ASSUME Inv, NEW c \in ConnIds, NEW n \in Peers, NEW e \in Nodes \cup {NoNode},
           IncomingConnection(c, n) \/ SpawnNewConnection(c, e, n)
    PROVE  Inv'
<1>1. CASE IncomingConnection(c, n)
  BY <1>1, AddOpenInv DEF IncomingConnection, Inv, TypeOK
<1>2. CASE SpawnNewConnection(c, e, n)
  BY <1>2, AddOpenInv DEF SpawnNewConnection, Inv, TypeOK
<1>3. QED
  BY <1>1, <1>2

\* Making room preserves the invariant.
LEMMA MakeRoomInv == Inv /\ MakeRoomForNeighbour => Inv'
<1> SUFFICES ASSUME Inv, MakeRoomForNeighbour PROVE Inv'
  OBVIOUS
<1>1. /\ UNCHANGED <<list, phase, state, socket, wanted, known, identity, reports, freed,
                    lock, main>>
  BY DEF MakeRoomForNeighbour
<1>2. ToSet(list) \subseteq ConnIds
  BY DEF Inv, ListInv, Unclosed
<1>3. /\ needsToRun' \in [ConnIds -> BOOLEAN]
      /\ \A c \in ConnIds : needsToRun'[c] => needsToRun[c]
  BY <1>2, CloseOldestType DEF MakeRoomForNeighbour
<1>4. QED
  BY <1>1, <1>3 DEF Inv, TypeOK, ReportInv, PeerInv, ListInv, Unclosed, FreedInv, identity

-----------------------------------------------------------------------------
\* The steps of a thread that leave the list alone.
LEMMA EarlyStepsInv ==
    ASSUME Inv, NEW c \in ConnIds,
           StartRun(c) \/ SocketReady(c) \/ HandshakeTimesOut(c) \/ Identify(c)
    PROVE  Inv'
<1>1. /\ UNCHANGED <<list, identity, wanted, reports, freed, main>>
      /\ phase[c] \in {"starting", "handshake"}
      /\ \A d \in ConnIds \ {c} : /\ phase'[d] = phase[d] /\ state'[d] = state[d]
                                  /\ known'[d] = known[d]
                                  /\ needsToRun'[d] = needsToRun[d]
  BY DEF StartRun, SocketReady, HandshakeTimesOut, Identify, At, Inv, TypeOK
<1>2. TypeOK'
  <2>1. CASE StartRun(c)
    BY <2>1 DEF StartRun, Inv, TypeOK, Phases, identity
  <2>2. CASE SocketReady(c)
    BY <2>2 DEF SocketReady, KeepsRunning, IsDouble, Inv, TypeOK, identity
  <2>3. CASE HandshakeTimesOut(c)
    BY <2>3 DEF HandshakeTimesOut, Inv, TypeOK, Phases, identity
  <2>4. CASE Identify(c)
    BY <2>4 DEF Identify, WrongPeer, Inv, TypeOK, Phases, identity
  <2>5. QED
    BY <2>1, <2>2, <2>3, <2>4
<1>3. /\ phase'[c] \in {"handshake", "ended", "identified"}
      /\ phase'[c] = "identified" =>
            /\ state'[c] = "Open" /\ known'[c]
            /\ needsToRun'[c] => ~WrongPeer(c)
  BY DEF StartRun, SocketReady, HandshakeTimesOut, Identify, At, Inv, TypeOK
<1>4. ReportInv'
  BY <1>1, <1>3 DEF Inv, ReportInv
<1>5. PeerInv'
  BY <1>1, <1>3 DEF Inv, PeerInv, WrongPeer, identity
<1>6. Unclosed' = Unclosed
  BY <1>1, <1>3 DEF Unclosed
<1>7. ListInv' /\ FreedInv'
  BY <1>1, <1>6 DEF Inv, TypeOK, ListInv, FreedInv
<1>8. QED
  BY <1>2, <1>4, <1>5, <1>7 DEF Inv

\* The steps around the read loop.
LEMMA ReadStepsInv ==
    ASSUME Inv, NEW c \in ConnIds,
           ConnectionReady(c) \/ GivesUp(c) \/ ReadLoopEnds(c)
    PROVE  Inv'
<1>1. /\ UNCHANGED <<list, identity, wanted, known, freed, main>>
      /\ phase[c] \in {"identified", "reading"}
      /\ \A d \in ConnIds \ {c} : /\ phase'[d] = phase[d] /\ state'[d] = state[d]
                                  /\ reports'[d] = reports[d]
      /\ \A d \in ConnIds : needsToRun'[d] => needsToRun[d]
  BY DEF ConnectionReady, GivesUp, ReadLoopEnds, At, Inv, TypeOK
<1>2. TypeOK'
  <2>1. CASE ConnectionReady(c)
    <3>1. Append(reports[c], state[c]) \in Seq({"Open", "Closing"})
      BY <2>1, ShortSequences DEF ConnectionReady, At, Inv, TypeOK, ReportInv
    <3>2. QED
      BY <2>1, <3>1 DEF ConnectionReady, Inv, TypeOK, Phases, identity
  <2>2. CASE GivesUp(c)
    BY <2>2 DEF GivesUp, Inv, TypeOK, identity
  <2>3. CASE ReadLoopEnds(c)
    BY <2>3 DEF ReadLoopEnds, Inv, TypeOK, Phases, identity
  <2>4. QED
    BY <2>1, <2>2, <2>3
<1>3. /\ phase'[c] = "reading" => reports'[c] = <<"Open">> /\ known[c]
      /\ phase'[c] = "ended" => reports'[c] = <<"Open">> /\ known[c]
      /\ phase'[c] \in {"reading", "ended"}
  BY ShortSequences DEF ConnectionReady, GivesUp, ReadLoopEnds, At, Inv, TypeOK, ReportInv
<1>4. ReportInv'
  BY <1>1, <1>3 DEF Inv, ReportInv
<1>5. PeerInv'
  BY <1>1, <1>3 DEF Inv, PeerInv, identity
<1>6. Unclosed' = Unclosed
  BY <1>1, <1>3 DEF Unclosed
<1>7. ListInv' /\ FreedInv'
  BY <1>1, <1>6 DEF Inv, TypeOK, ListInv, FreedInv
<1>8. QED
  BY <1>2, <1>4, <1>5, <1>7 DEF Inv

-----------------------------------------------------------------------------
\* Taking a connection off the list takes off just that one.
LEMMA RemoveOpenProperties ==
    ASSUME TypeOK, ListInv, NEW c \in ConnIds, RemoveOpenNetworkConnection(c)
    PROVE  /\ list' \in Seq(ConnIds)
           /\ IsInjective(list')
           /\ ToSet(list') = ToSet(list) \ {c}
<1>1. list \in Seq(ConnIds) /\ IsInjective(list)
  BY DEF TypeOK, ListInv
<1>2. CASE Contains(list, c)
  <2>1. PICK i \in 1 .. Len(list) : list[i] = c /\ list' = RemoveAt(list, i)
    BY <1>2 DEF RemoveOpenNetworkConnection
  <2>2. QED
    BY <1>1, <2>1, RemoveAtMembers
<1>3. CASE ~Contains(list, c)
  <2>1. list' = list /\ c \notin ToSet(list)
    BY <1>1, <1>3, ContainsMember DEF RemoveOpenNetworkConnection
  <2>2. QED
    BY <1>1, <2>1
<1>4. QED
  BY <1>2, <1>3

\* run() ends: the connection leaves the list and reports for the last time.
LEMMA ConnectionClosedInv ==
    ASSUME Inv, NEW c \in ConnIds, ConnectionClosed(c)
    PROVE  Inv'
<1>1. /\ phase[c] = "ended" /\ phase' = [phase EXCEPT ![c] = "finished"]
      /\ state' = [state EXCEPT ![c] = "Closing"]
      /\ known' = [known EXCEPT ![c] = FALSE]
      /\ RemoveOpenNetworkConnection(c)
      /\ UNCHANGED <<socket, needsToRun, wanted, identity, freed, lock, main>>
  BY DEF ConnectionClosed, At
<1>2. /\ list' \in Seq(ConnIds)
      /\ IsInjective(list')
      /\ ToSet(list') = ToSet(list) \ {c}
  BY <1>1, RemoveOpenProperties DEF Inv
<1>3. /\ reports' \in [ConnIds -> Seq({"Open", "Closing"})]
      /\ \A d \in ConnIds \ {c} : reports'[d] = reports[d]
      /\ reports'[c] \in {<<>>, <<"Closing">>, <<"Open", "Closing">>}
      /\ wanted[c] # NoNode => reports'[c] # <<>>
  <2>1. reports[c] = <<>> \/ (reports[c] = <<"Open">> /\ known[c])
    BY <1>1 DEF Inv, ReportInv
  <2>2. CASE HasHash(c)
    <3>1. reports' = [reports EXCEPT ![c] = Append(reports[c], "Closing")]
      BY <2>2 DEF ConnectionClosed
    <3>2. Append(reports[c], "Closing") \in {<<"Closing">>, <<"Open", "Closing">>}
      BY <2>1, ShortSequences
    <3>3. Append(reports[c], "Closing") \in Seq({"Open", "Closing"})
      BY AppendProperties DEF Inv, TypeOK
    <3>4. QED
      BY <3>1, <3>2, <3>3 DEF Inv, TypeOK
  <2>3. CASE ~HasHash(c)
    BY <2>1, <2>3 DEF ConnectionClosed, HasHash, Inv, TypeOK
  <2>4. QED
    BY <2>2, <2>3
<1>4. TypeOK'
  BY <1>1, <1>2, <1>3 DEF Inv, TypeOK, Phases, identity
<1>5. ReportInv'
  BY <1>1, <1>3 DEF Inv, TypeOK, ReportInv
<1>6. PeerInv'
  BY <1>1 DEF Inv, TypeOK, PeerInv, identity
<1>7. ListInv'
  BY <1>1, <1>2 DEF Inv, TypeOK, ListInv, Unclosed
<1>8. FreedInv'
  <2>1. ~SlowClose => main' \notin {"deleting", "over"} \/ list = <<>>
    BY <1>1 DEF Inv, FreedInv
  <2>2. list # <<>>
    BY <1>1, EmptyList DEF Inv, ListInv, Unclosed
  <2>3. QED
    BY <1>1, <2>1, <2>2 DEF Inv, TypeOK, FreedInv
<1>9. QED
  BY <1>4, <1>5, <1>6, <1>7, <1>8 DEF Inv

\* A finished connection is deleted.
LEMMA DeleteLaterInv ==
    ASSUME Inv, NEW c \in ConnIds, DeleteLater(c)
    PROVE  Inv'
BY DEF DeleteLater, At, Inv, TypeOK, ReportInv, PeerInv, ListInv, Unclosed, FreedInv,
       threadVars, identity

\* What others do to a connection: it only gets told to close, or forgets
\* which node it was opened for.
LEMMA OthersInv ==
    ASSUME Inv, NEW c \in ConnIds, PeerDisconnects(c) \/ CloseDead(c)
    PROVE  Inv'
<1>1. /\ UNCHANGED <<list, phase, state, known, identity, reports, freed, lock, main>>
      /\ \A d \in ConnIds : needsToRun'[d] => needsToRun[d]
      /\ \A d \in ConnIds : \/ wanted'[d] = wanted[d]
                            \/ wanted'[d] = NoNode
  BY DEF PeerDisconnects, CloseDead, Inv, TypeOK
<1>2. TypeOK'
  BY DEF PeerDisconnects, CloseDead, Inv, TypeOK, identity
<1>3. ReportInv' /\ PeerInv'
  BY <1>1 DEF Inv, ReportInv, PeerInv, identity
<1>4. ListInv' /\ FreedInv'
  BY <1>1 DEF Inv, ListInv, Unclosed, FreedInv
<1>5. QED
  BY <1>2, <1>3, <1>4 DEF Inv

-----------------------------------------------------------------------------
\* The shutdown up to the last deletions.
LEMMA ShutdownBeginsInv ==
    ASSUME Inv, Quit \/ TerminateConnector \/ CloseAllConnections
    PROVE  Inv'
<1>1. /\ UNCHANGED <<list, phase, state, socket, wanted, known, identity, reports, freed>>
      /\ main' \in {"stopping", "closing", "waiting"}
      /\ lock' \in {lock, Connector}
      /\ needsToRun' \in [ConnIds -> BOOLEAN]
      /\ \A d \in ConnIds : needsToRun'[d] => needsToRun[d]
  BY DEF Quit, TerminateConnector, CloseAllConnections, threadVars, Inv, TypeOK
<1>2. TypeOK'
  BY <1>1 DEF Inv, TypeOK, identity
<1>3. ReportInv' /\ PeerInv'
  BY <1>1 DEF Inv, ReportInv, PeerInv, identity
<1>4. ListInv' /\ FreedInv'
  BY <1>1 DEF Inv, ListInv, Unclosed, FreedInv
<1>5. QED
  BY <1>2, <1>3, <1>4 DEF Inv

\* The end of the shutdown: without SlowClose there is nothing to delete.
LEMMA ShutdownEndsInv ==
    ASSUME Inv, StopWaiting \/ DeleteRemaining
    PROVE  Inv'
<1>1. UNCHANGED <<list, threadVars, identity, reports, lock>>
  BY DEF StopWaiting, DeleteRemaining
<1>2. TypeOK'
  BY <1>1 DEF StopWaiting, DeleteRemaining, Inv, TypeOK, ListInv, Unclosed, threadVars, identity
<1>3. ReportInv' /\ PeerInv' /\ ListInv'
  BY <1>1 DEF Inv, ReportInv, PeerInv, ListInv, Unclosed, threadVars, identity
<1>4. FreedInv'
  <2>1. CASE StopWaiting
    BY <1>1, <2>1 DEF StopWaiting, Inv, FreedInv, threadVars
  <2>2. CASE DeleteRemaining
    BY <1>1, <2>2, EmptyList DEF DeleteRemaining, Inv, FreedInv, threadVars
  <2>3. QED
    BY <2>1, <2>2
<1>5. QED
  BY <1>2, <1>3, <1>4 DEF Inv

-----------------------------------------------------------------------------
\* Every step preserves the inductive invariant.
LEMMA NextInv == Inv /\ [Next]_vars => Inv'
<1> SUFFICES ASSUME Inv, [Next]_vars PROVE Inv'
  OBVIOUS
<1>1. CASE UNCHANGED vars
  BY <1>1 DEF vars, threadVars, identity, Inv, TypeOK, ReportInv, PeerInv, ListInv,
              Unclosed, FreedInv
<1>2. CASE \/ \E c \in ConnIds, n \in Peers : IncomingConnection(c, n)
           \/ \E c \in ConnIds, e \in Nodes \cup {NoNode}, n \in Peers :
                 SpawnNewConnection(c, e, n)
  BY <1>2, OpeningInv
<1>3. CASE MakeRoomForNeighbour
  BY <1>3, MakeRoomInv
<1>4. ASSUME NEW c \in ConnIds, ThreadStep(c) PROVE Inv'
  BY <1>4, EarlyStepsInv, ReadStepsInv, ConnectionClosedInv, DeleteLaterInv DEF ThreadStep
<1>5. ASSUME NEW c \in ConnIds, GivesUp(c) \/ PeerDisconnects(c) \/ CloseDead(c) PROVE Inv'
  BY <1>5, ReadStepsInv, OthersInv
<1>6. CASE Quit \/ Shutdown
  BY <1>6, ShutdownBeginsInv, ShutdownEndsInv DEF Shutdown
<1>7. QED
  BY <1>1, <1>2, <1>3, <1>4, <1>5, <1>6 DEF Next

\* The inductive invariant holds in every reachable state.
LEMMA SpecInv == Spec => []Inv
BY InitInv, NextInv, PTL DEF Spec

\* Every reachable state has the types stated; in particular a connection is
\* reported as open or closing only.
THEOREM TypeCorrect == Spec => []TypeOK
<1>1. Inv => TypeOK
  BY DEF Inv
<1>2. QED
  BY <1>1, SpecInv, PTL

\* Whoever sits at an address, packets are read from the node that was asked
\* for and never from this node itself.
THEOREM ReadsAreFromRightNode == Spec => []ReadsFromRightNode
<1>1. Inv => ReadsFromRightNode
  BY DEF Inv, PeerInv, ReadsFromRightNode
<1>2. QED
  BY <1>1, SpecInv, PTL

\* Whatever becomes of a connection attempt, those who wait for a report get
\* one, and get it once.
THEOREM ReportsAreAlwaysComplete == Spec => []ReportsAreComplete
<1>1. Inv => ReportsAreComplete
  <2> SUFFICES ASSUME Inv, NEW c \in ConnIds
               PROVE  LET closed == phase[c] = "finished" /\ reports[c] # <<>>
                      IN /\ reports[c] \in {<<>>, <<"Open">>, <<"Closing">>,
                                            <<"Open", "Closing">>}
                         /\ phase[c] = "finished" /\ wanted[c] # NoNode => closed
                         /\ closed <=> "Closing" \in ToSet(reports[c])
    BY DEF ReportsAreComplete
  <2>1. phase[c] \in Phases
    BY DEF Inv, TypeOK
  <2>2. /\ phase[c] # "finished" => reports[c] \in {<<>>, <<"Open">>}
        /\ phase[c] = "finished" => reports[c] \in {<<>>, <<"Closing">>, <<"Open", "Closing">>}
    BY <2>1 DEF Inv, ReportInv, Phases
  <2>3. phase[c] = "finished" /\ wanted[c] # NoNode => reports[c] # <<>>
    BY DEF Inv, ReportInv
  <2>4. /\ "Closing" \notin ToSet(<<>>)
        /\ "Closing" \notin ToSet(<<"Open">>)
        /\ "Closing" \in ToSet(<<"Closing">>)
        /\ "Closing" \in ToSet(<<"Open", "Closing">>)
    BY DEF ToSet
  <2>5. <<"Closing">> # <<>> /\ <<"Open", "Closing">> # <<>>
    OBVIOUS
  <2>6. QED
    BY <2>2, <2>3, <2>4, <2>5
<1>2. QED
  BY <1>1, SpecInv, PTL

\* The list holds what is alive, once each, and nothing that is deleted: if
\* the connections close in the time the shutdown gives them.
THEOREM NothingDangles ==
    ASSUME ~SlowClose
    PROVE  Spec => []NoDanglingConnection
<1>1. Inv => NoDanglingConnection
  BY DEF Inv, ListInv, Unclosed, FreedInv, NoDanglingConnection
<1>2. QED
  BY <1>1, SpecInv, PTL

-----------------------------------------------------------------------------
(***************************************************************************)
(* The queries about the ring (NodeTable). A list in order is one in which *)
(* each entry has as many of the set ahead of it as its place says; R      *)
(* holds the pairs of which the first comes before the second.             *)
(***************************************************************************)
IsOrder(R, S) ==
    /\ \A a \in S : <<a, a>> \notin R
    /\ \A a, b \in S : a # b => <<a, b>> \in R \/ <<b, a>> \in R
    /\ \A a, b, c \in S : <<a, b>> \in R /\ <<b, c>> \in R => <<a, c>> \in R
AheadOf(n, R, S) == {m \in S : <<m, n>> \in R}

InOrder(s, R, S) ==
    /\ s \in Seq(S) /\ Len(s) = Cardinality(S)
    /\ \A i \in 1 .. Len(s) : Cardinality(AheadOf(s[i], R, S)) = i - 1

LEMMA FewerAhead ==
    ASSUME NEW S, IsFiniteSet(S), NEW R, IsOrder(R, S), NEW a \in S, NEW b \in S, <<a, b>> \in R
    PROVE  Cardinality(AheadOf(a, R, S)) < Cardinality(AheadOf(b, R, S))
<1>1. /\ AheadOf(a, R, S) \subseteq AheadOf(b, R, S)
      /\ a \in AheadOf(b, R, S) /\ a \notin AheadOf(a, R, S)
  BY DEF IsOrder, AheadOf
<1>2. IsFiniteSet(AheadOf(b, R, S))
  BY FS_Subset DEF AheadOf
<1>3. /\ Cardinality(AheadOf(a, R, S)) <= Cardinality(AheadOf(b, R, S))
      /\ Cardinality(AheadOf(a, R, S)) # Cardinality(AheadOf(b, R, S))
      /\ IsFiniteSet(AheadOf(a, R, S))
  BY <1>1, <1>2, FS_Subset
<1>4. QED
  BY <1>2, <1>3, FS_CardinalityType

LEMMA AheadIsSmaller ==
    ASSUME NEW S, IsFiniteSet(S), NEW R, IsOrder(R, S), NEW a \in S
    PROVE  Cardinality(AheadOf(a, R, S)) \in 0 .. (Cardinality(S) - 1)
<1>1. AheadOf(a, R, S) \subseteq S \ {a}
  BY DEF IsOrder, AheadOf
<1>2. IsFiniteSet(S \ {a}) /\ Cardinality(S \ {a}) = Cardinality(S) - 1
  BY FS_RemoveElement
<1>3. /\ IsFiniteSet(AheadOf(a, R, S))
      /\ Cardinality(AheadOf(a, R, S)) <= Cardinality(S \ {a})
  BY <1>1, <1>2, FS_Subset
<1>4. QED
  BY <1>2, <1>3, FS_CardinalityType

\* Each place of the list is that of one of the set.
LEMMA PlaceIsTaken ==
    ASSUME NEW S, IsFiniteSet(S), NEW R, IsOrder(R, S), NEW i \in 1 .. Cardinality(S)
    PROVE  \E n \in S : Cardinality(AheadOf(n, R, S)) = i - 1
<1> DEFINE c == Cardinality(S)
           T == 0 .. (c - 1)
           rank == [n \in S |-> Cardinality(AheadOf(n, R, S))]
<1>1. c \in Nat
  BY FS_CardinalityType
<1>2. rank \in [S -> T]
  BY AheadIsSmaller
<1>3. \A a, b \in S : rank[a] = rank[b] => a = b
  <2> SUFFICES ASSUME NEW a \in S, NEW b \in S, a # b PROVE rank[a] # rank[b]
    OBVIOUS
  <2>1. rank[a] \in Nat /\ rank[b] \in Nat
    BY <1>2, <1>1
  <2>2. CASE <<a, b>> \in R
    BY <2>1, <2>2, FewerAhead
  <2>3. CASE <<b, a>> \in R
    BY <2>1, <2>3, FewerAhead
  <2>4. QED
    BY <2>2, <2>3 DEF IsOrder
<1> HIDE DEF rank
<1>4. rank \in Injection(S, T)
  BY <1>2, <1>3 DEF Injection, IsInjective
<1>5. IsFiniteSet(T) /\ Cardinality(T) = c
  <2>1. c - 1 \in Int /\ 0 \in Int /\ (0 > c - 1 => c = 0)
    BY <1>1
  <2>2. IsFiniteSet(T) /\ Cardinality(T) = IF 0 > c - 1 THEN 0 ELSE c - 1 - 0 + 1
    BY <2>1, FS_Interval
  <2> HIDE DEF T
  <2>3. QED
    BY <1>1, <2>1, <2>2
<1>6. rank \in Surjection(S, T)
  BY <1>4, <1>5, FS_Injection
<1>7. i - 1 \in T
  BY <1>1
<1>8. PICK n \in S : rank[n] = i - 1
  BY <1>6, <1>7 DEF Surjection
<1>9. QED
  BY <1>8 DEF rank

\* A list with an entry for each place is in order.
LEMMA PlacesAreInOrder ==
    ASSUME NEW S, IsFiniteSet(S), NEW R, NEW s \in [1 .. Cardinality(S) -> S],
           \A i \in 1 .. Cardinality(S) : Cardinality(AheadOf(s[i], R, S)) = i - 1
    PROVE  InOrder(s, R, S)
<1>1. Cardinality(S) \in Nat
  BY FS_CardinalityType
<1>2. s \in Seq(S) /\ Len(s) = Cardinality(S)
  BY <1>1
<1>3. QED
  BY <1>2 DEF InOrder

LEMMA InOrderIsSorted ==
    ASSUME NEW S, IsFiniteSet(S), NEW R, IsOrder(R, S), NEW s, InOrder(s, R, S)
    PROVE  /\ \A i, j \in 1 .. Len(s) : i < j => <<s[i], s[j]>> \in R
           /\ \A n \in S : \E i \in 1 .. Len(s) : s[i] = n
<1>1. Len(s) = Cardinality(S) /\ Len(s) \in Nat /\ \A i \in 1 .. Len(s) : s[i] \in S
  BY FS_CardinalityType DEF InOrder
<1>2. ASSUME NEW a \in S, NEW b \in S, Cardinality(AheadOf(a, R, S)) < Cardinality(AheadOf(b, R, S))
      PROVE  <<a, b>> \in R
  <2>1. /\ Cardinality(AheadOf(a, R, S)) \in Nat /\ Cardinality(AheadOf(b, R, S)) \in Nat
    BY <1>1, AheadIsSmaller
  <2>2. a # b /\ <<b, a>> \notin R
    BY <1>2, <2>1, FewerAhead
  <2>3. QED
    BY <2>2 DEF IsOrder
<1>3. ASSUME NEW i \in 1 .. Len(s), NEW j \in 1 .. Len(s), i < j PROVE <<s[i], s[j]>> \in R
  <2>1. Cardinality(AheadOf(s[i], R, S)) = i - 1 /\ Cardinality(AheadOf(s[j], R, S)) = j - 1
    BY DEF InOrder
  <2>2. i - 1 < j - 1
    BY <1>1, <1>3
  <2>3. QED
    BY <1>1, <1>2, <2>1, <2>2
<1>4. ASSUME NEW n \in S PROVE \E i \in 1 .. Len(s) : s[i] = n
  <2> DEFINE i == Cardinality(AheadOf(n, R, S)) + 1
  <2>1. i \in 1 .. Len(s)
    BY <1>1, AheadIsSmaller
  <2>2. Cardinality(AheadOf(s[i], R, S)) = i - 1
    BY <2>1 DEF InOrder
  <2>3. Cardinality(AheadOf(n, R, S)) = i - 1 /\ s[i] \in S
    BY <1>1, <2>1, AheadIsSmaller
  <2> HIDE DEF i
  <2>4. i - 1 \in Nat
    BY <1>1, <2>1
  <2>5. <<s[i], n>> \notin R /\ <<n, s[i]>> \notin R
    BY <2>2, <2>3, <2>4, <1>2, FewerAhead
  <2>6. s[i] = n
    BY <2>3, <2>5 DEF IsOrder
  <2>7. QED
    BY <2>1, <2>6
<1>5. QED
  BY <1>3, <1>4

\* The two directions of the ring.
LEMMA UpwardsInOrder ==
    ASSUME NEW S \in SUBSET Nat, IsFiniteSet(S)
    PROVE  LET R == {p \in Nat \X Nat : p[1] < p[2]}
           IN  IsOrder(R, S) /\ InOrder(Upwards(S), R, S)
<1> DEFINE R == {p \in Nat \X Nat : p[1] < p[2]}
           s == Upwards(S)
<1>1. \A a, b \in S : <<a, b>> \in R <=> a < b
  OBVIOUS
<1>2. \A a, b \in S : a \in Nat /\ b \in Nat
  OBVIOUS
<1> HIDE DEF R
<1>3. IsOrder(R, S)
  BY <1>1, <1>2 DEF IsOrder
<1>4. \A n \in S : {m \in S : m < n} = AheadOf(n, R, S)
  BY <1>1 DEF AheadOf
<1>5. ASSUME NEW i \in 1 .. Cardinality(S)
      PROVE  s[i] \in S /\ Cardinality(AheadOf(s[i], R, S)) = i - 1
  <2>1. PICK n \in S : Cardinality(AheadOf(n, R, S)) = i - 1
    BY <1>3, PlaceIsTaken
  <2>2. Cardinality({m \in S : m < n}) = i - 1
    BY <1>4, <2>1
  <2>3. s[i] = CHOOSE l \in S : Cardinality({m \in S : m < l}) = i - 1
    BY DEF Upwards, Ordered
  <2>4. s[i] \in S /\ Cardinality({m \in S : m < s[i]}) = i - 1
    BY <2>2, <2>3, Zenon
  <2>5. QED
    BY <1>4, <2>4
<1>6. s \in [1 .. Cardinality(S) -> S]
  <2>1. s = [i \in 1 .. Cardinality(S) |->
                CHOOSE n \in S : Cardinality({m \in S : m < n}) = i - 1]
    BY DEF Upwards, Ordered
  <2> HIDE DEF s
  <2>2. \A i \in 1 .. Cardinality(S) :
           (CHOOSE n \in S : Cardinality({m \in S : m < n}) = i - 1) \in S
    BY <1>5, <2>1
  <2>3. QED
    BY <2>1, <2>2, Zenon
<1> HIDE DEF s
<1>7. InOrder(s, R, S)
  BY <1>5, <1>6, PlacesAreInOrder
<1>8. QED
  BY <1>3, <1>7 DEF R, s

LEMMA DownwardsInOrder ==
    ASSUME NEW S \in SUBSET Nat, IsFiniteSet(S)
    PROVE  LET R == {p \in Nat \X Nat : p[1] > p[2]}
           IN  IsOrder(R, S) /\ InOrder(Downwards(S), R, S)
<1> DEFINE R == {p \in Nat \X Nat : p[1] > p[2]}
           s == Downwards(S)
<1>1. \A a, b \in S : <<a, b>> \in R <=> a > b
  OBVIOUS
<1>2. \A a, b \in S : a \in Nat /\ b \in Nat
  OBVIOUS
<1> HIDE DEF R
<1>3. IsOrder(R, S)
  BY <1>1, <1>2 DEF IsOrder
<1>4. \A n \in S : {m \in S : m > n} = AheadOf(n, R, S)
  BY <1>1 DEF AheadOf
<1>5. ASSUME NEW i \in 1 .. Cardinality(S)
      PROVE  s[i] \in S /\ Cardinality(AheadOf(s[i], R, S)) = i - 1
  <2>1. PICK n \in S : Cardinality(AheadOf(n, R, S)) = i - 1
    BY <1>3, PlaceIsTaken
  <2>2. Cardinality({m \in S : m > n}) = i - 1
    BY <1>4, <2>1
  <2>3. s[i] = CHOOSE l \in S : Cardinality({m \in S : m > l}) = i - 1
    BY DEF Downwards, Ordered
  <2>4. s[i] \in S /\ Cardinality({m \in S : m > s[i]}) = i - 1
    BY <2>2, <2>3, Zenon
  <2>5. QED
    BY <1>4, <2>4
<1>6. s \in [1 .. Cardinality(S) -> S]
  <2>1. s = [i \in 1 .. Cardinality(S) |->
                CHOOSE n \in S : Cardinality({m \in S : m > n}) = i - 1]
    BY DEF Downwards, Ordered
  <2> HIDE DEF s
  <2>2. \A i \in 1 .. Cardinality(S) :
           (CHOOSE n \in S : Cardinality({m \in S : m > n}) = i - 1) \in S
    BY <1>5, <2>1
  <2>3. QED
    BY <2>1, <2>2, Zenon
<1> HIDE DEF s
<1>7. InOrder(s, R, S)
  BY <1>5, <1>6, PlacesAreInOrder
<1>8. QED
  BY <1>3, <1>7 DEF R, s

LEMMA LimitProperties ==
    ASSUME NEW S, NEW s \in Seq(S), NEW k \in Nat
    PROVE  /\ Limit(s, k) \in Seq(S)
           /\ Len(Limit(s, k)) = IF Len(s) <= k THEN Len(s) ELSE k
           /\ \A i \in 1 .. Len(Limit(s, k)) : Limit(s, k)[i] = s[i]
<1>1. CASE Len(s) <= k
  BY <1>1 DEF Limit
<1>2. CASE ~(Len(s) <= k)
  <2>1. Limit(s, k) = SubSeq(s, 1, k)
    BY <1>2 DEF Limit
  <2>2. Len(s) \in Nat /\ k < Len(s) /\ \A i \in 1 .. Len(s) : s[i] \in S
    BY <1>2, LenProperties
  <2>3. \A i \in 1 .. k : s[i] \in S
    BY <2>2
  <2>4. /\ SubSeq(s, 1, k) \in Seq(S)
        /\ Len(SubSeq(s, 1, k)) = k
        /\ \A i \in 1 .. k : SubSeq(s, 1, k)[i] = s[i]
    BY <2>2, <2>3, SubSeqProperties
  <2>5. QED
    BY <1>2, <2>1, <2>2, <2>4
<1>3. QED
  BY <1>1, <1>2

\* One query from the hash on and one from the end of the ring: A is the part
\* of the set from the hash on, B the part behind it.
IsRing(found, A, B, R, away) ==
    /\ IsFiniteSet(found) /\ A \subseteq found /\ B = found \ A
    /\ IsOrder(R, found) /\ away \in [found -> Nat]
    /\ \A x, y \in A : <<x, y>> \in R => away[x] < away[y]
    /\ \A x, y \in B : <<x, y>> \in R => away[x] < away[y]
    /\ \A a \in A : \A b \in B : <<b, a>> \in R /\ away[a] < away[b]

FirstOf(both, k, found, away) ==
    /\ both \in Seq(found) /\ Len(both) = k
    /\ \A i, j \in 1 .. k : i < j => away[both[i]] < away[both[j]]
    /\ \A n \in found : \/ \E i \in 1 .. k : both[i] = n
                        \/ \A i \in 1 .. k : away[both[i]] < away[n]

LEMMA TwoQueriesFindNearest ==
    ASSUME NEW found, NEW A, NEW B, NEW R, NEW away, IsRing(found, A, B, R, away),
           NEW ups, InOrder(ups, R, A), NEW all, InOrder(all, R, found),
           NEW k \in Nat, k <= Cardinality(found)
    PROVE  FirstOf(Limit(ups, k) \o Limit(all, k - Len(Limit(ups, k))), k, found, away)
<1> DEFINE a == Cardinality(A)
           b == Cardinality(B)
           both == Limit(ups, k) \o Limit(all, k - Len(Limit(ups, k)))
<1> HIDE DEF both
<1>0. /\ IsFiniteSet(found) /\ A \subseteq found /\ B = found \ A
      /\ IsOrder(R, found) /\ away \in [found -> Nat]
      /\ \A x, y \in A : <<x, y>> \in R => away[x] < away[y]
      /\ \A x, y \in B : <<x, y>> \in R => away[x] < away[y]
      /\ \A x \in A : \A y \in B : <<y, x>> \in R /\ away[x] < away[y]
  BY DEF IsRing
<1>1. /\ IsFiniteSet(A) /\ IsFiniteSet(B) /\ a \in Nat /\ b \in Nat
      /\ Cardinality(found) = a + b
  <2>1. IsFiniteSet(A) /\ IsFiniteSet(B)
    BY <1>0, FS_Subset
  <2>2. A \cap B = {} /\ A \cup B = found /\ Cardinality({}) = 0
    BY <1>0, FS_EmptySet
  <2>3. a \in Nat /\ b \in Nat
    BY <2>1, FS_CardinalityType
  <2>4. Cardinality(A \cup B) = a + b - Cardinality(A \cap B)
    BY <2>1, FS_Union
  <2>5. Cardinality(A \cup B) = Cardinality(found) /\ Cardinality(A \cap B) = 0
    BY <2>2, Zenon
  <2>6. Cardinality(found) = a + b
    BY <2>3, <2>4, <2>5
  <2>7. QED
    BY <2>1, <2>3, <2>6
<1> HIDE DEF a, b
<1>2. IsOrder(R, A)
  BY <1>0 DEF IsOrder
<1>3. /\ ups \in Seq(A) /\ Len(ups) = a /\ all \in Seq(found) /\ Len(all) = a + b
      /\ ups \in Seq(found)
  BY <1>0, <1>1, SeqMonotonic DEF InOrder, a
<1>4. /\ \A i \in 1 .. a : ups[i] \in A
      /\ \A i \in 1 .. (a + b) : all[i] \in found
  BY <1>3, ElementOfSeq
\* The first of the whole list are those of B.
<1>5. ASSUME NEW j \in 1 .. (a + b) PROVE all[j] \in B <=> j <= b
  <2> DEFINE n == all[j]
             ahead == AheadOf(n, R, found)
  <2>1. n \in found /\ Cardinality(ahead) = j - 1
    BY <1>3, <1>4 DEF InOrder
  <2>2. IsFiniteSet(ahead)
    BY <1>0, FS_Subset DEF AheadOf
  <2>3. CASE n \in A
    <3>1. B \subseteq ahead
      BY <1>0, <2>3 DEF AheadOf
    <3>2. b <= j - 1
      BY <2>1, <2>2, <3>1, FS_Subset DEF b
    <3>3. QED
      BY <1>0, <1>1, <2>3, <3>2
  <2>4. CASE n \in B
    <3>1. ahead \subseteq B
      BY <1>0, <2>4 DEF AheadOf, IsOrder
    <3>2. n \in B /\ n \notin ahead
      BY <1>0, <2>4 DEF AheadOf, IsOrder
    <3>3. IsFiniteSet(B \ {n}) /\ Cardinality(B \ {n}) = b - 1 /\ ahead \subseteq B \ {n}
      BY <1>1, <3>1, <3>2, FS_RemoveElement DEF b
    <3>4. j - 1 <= b - 1
      BY <2>1, <3>3, FS_Subset
    <3>5. QED
      BY <1>1, <2>4, <3>4
  <2>5. QED
    BY <1>0, <2>1, <2>3, <2>4
<1> DEFINE m == IF a <= k THEN a ELSE k
           first == Limit(ups, k)
           second == Limit(all, k - m)
<1>6. /\ m \in Nat /\ m <= k /\ k - m \in Nat /\ k - m <= b /\ (k # m => m = a)
      /\ m = IF a <= k THEN a ELSE k
      /\ k - m = IF a + b <= k - m THEN a + b ELSE k - m
  BY <1>1
<1> HIDE DEF m
<1>7. /\ first \in Seq(found) /\ Len(first) = m
      /\ \A i \in 1 .. m : first[i] = ups[i]
  <2>1. ups \in Seq(found) /\ Len(ups) = a
    BY <1>3
  <2>2. /\ first \in Seq(found)
        /\ Len(first) = IF Len(ups) <= k THEN Len(ups) ELSE k
        /\ \A i \in 1 .. Len(first) : first[i] = ups[i]
    BY <2>1, LimitProperties
  <2> HIDE DEF first
  <2>3. QED
    BY <1>6, <2>1, <2>2
<1>8. /\ second \in Seq(found) /\ Len(second) = k - m
      /\ \A i \in 1 .. (k - m) : second[i] = all[i]
  <2>1. all \in Seq(found) /\ Len(all) = a + b
    BY <1>3
  <2>2. /\ second \in Seq(found)
        /\ Len(second) = IF Len(all) <= k - m THEN Len(all) ELSE k - m
        /\ \A i \in 1 .. Len(second) : second[i] = all[i]
    BY <1>6, <2>1, LimitProperties
  <2> HIDE DEF second
  <2>3. QED
    BY <1>6, <2>1, <2>2
<1>9. both = first \o second
  BY <1>7 DEF both
<1> HIDE DEF first, second
<1>10. both \in Seq(found) /\ Len(both) = k
       /\ \A i \in 1 .. k : both[i] = IF i <= m THEN ups[i] ELSE all[i - m]
  <2>1. /\ both \in Seq(found) /\ Len(both) = m + (k - m)
        /\ \A i \in 1 .. (m + (k - m)) :
               both[i] = IF i <= m THEN first[i] ELSE second[i - m]
    <3>1. first \in Seq(found) /\ second \in Seq(found)
      BY <1>7, <1>8
    <3>2. /\ first \o second \in Seq(found)
          /\ Len(first \o second) = Len(first) + Len(second)
          /\ \A i \in 1 .. (Len(first) + Len(second)) :
                (first \o second)[i] = IF i <= Len(first) THEN first[i] ELSE second[i - Len(first)]
      BY <3>1, ConcatProperties
    <3>3. Len(first) = m /\ Len(second) = k - m
      BY <1>7, <1>8
    <3>4. QED
      BY <1>9, <3>2, <3>3, Zenon
  <2>2. m + (k - m) = k
    BY <1>6
  <2>3. \A i \in 1 .. k : /\ i <= m => i \in 1 .. m
                          /\ ~(i <= m) => i - m \in 1 .. (k - m)
    BY <1>6
  <2>4. QED
    BY <1>7, <1>8, <2>1, <2>2, <2>3
<1>11. \A i \in 1 .. k : /\ i <= m => i \in 1 .. a /\ both[i] = ups[i] /\ both[i] \in A
                         /\ i > m => /\ i - m \in 1 .. b /\ both[i] = all[i - m]
                                     /\ both[i] \in B /\ m = a
  <2> SUFFICES ASSUME NEW i \in 1 .. k
               PROVE  /\ i <= m => i \in 1 .. a /\ both[i] = ups[i] /\ both[i] \in A
                      /\ i > m => /\ i - m \in 1 .. b /\ both[i] = all[i - m]
                                  /\ both[i] \in B /\ m = a
    OBVIOUS
  <2>1. CASE i <= m
    <3>1. i \in 1 .. a
      BY <1>1, <1>6, <2>1
    <3>2. QED
      BY <1>4, <1>6, <1>10, <2>1, <3>1
  <2>2. CASE i > m
    <3>1. i - m \in 1 .. b /\ i - m \in 1 .. (a + b) /\ ~(i <= m) /\ m = a
      BY <1>1, <1>6, <2>2
    <3>2. i - m <= b /\ both[i] = all[i - m]
      BY <1>1, <1>10, <3>1
    <3>3. QED
      BY <1>5, <2>2, <3>1, <3>2
  <2>3. QED
    BY <1>6, <2>1, <2>2
<1>12. /\ \A i, j \in 1 .. a : i < j => <<ups[i], ups[j]>> \in R
       /\ \A n \in A : \E i \in 1 .. a : ups[i] = n
  <2>1. /\ \A i, j \in 1 .. Len(ups) : i < j => <<ups[i], ups[j]>> \in R
        /\ \A n \in A : \E i \in 1 .. Len(ups) : ups[i] = n
    BY <1>1, <1>2, InOrderIsSorted
  <2>2. Len(ups) = a
    BY <1>3
  <2>3. QED
    BY <2>1, <2>2, Zenon
<1>13. /\ \A i, j \in 1 .. (a + b) : i < j => <<all[i], all[j]>> \in R
       /\ \A n \in found : \E i \in 1 .. (a + b) : all[i] = n
  <2>1. /\ \A i, j \in 1 .. Len(all) : i < j => <<all[i], all[j]>> \in R
        /\ \A n \in found : \E i \in 1 .. Len(all) : all[i] = n
    BY <1>0, InOrderIsSorted
  <2>2. Len(all) = a + b
    BY <1>3
  <2>3. QED
    BY <2>1, <2>2, Zenon

<1>14. ASSUME NEW i \in 1 .. k, NEW j \in 1 .. k, i < j
       PROVE  away[both[i]] < away[both[j]]
  <2>1. CASE j <= m
    <3>1. i <= m /\ i \in 1 .. a /\ j \in 1 .. a
      BY <1>6, <1>11, <1>14, <2>1
    <3>2. both[i] \in A /\ both[j] \in A /\ <<both[i], both[j]>> \in R
      BY <1>11, <1>12, <1>14, <2>1, <3>1
    <3>3. QED
      BY <1>0, <3>2
  <2>2. CASE i <= m /\ j > m
    BY <1>0, <1>11, <2>2
  <2>3. CASE i > m
    <3>1. j > m /\ i - m \in 1 .. b /\ j - m \in 1 .. b /\ i - m < j - m
      BY <1>6, <1>11, <1>14, <2>3
    <3>2. i - m \in 1 .. (a + b) /\ j - m \in 1 .. (a + b)
      BY <1>1, <3>1
    <3>3. both[i] \in B /\ both[j] \in B /\ <<both[i], both[j]>> \in R
      BY <1>11, <1>13, <2>3, <3>1, <3>2
    <3>4. QED
      BY <1>0, <3>3
  <2>4. QED
    BY <1>6, <2>1, <2>2, <2>3
<1>15. ASSUME NEW n \in A
       PROVE  (\E i \in 1 .. k : both[i] = n) \/ \A i \in 1 .. k : away[both[i]] < away[n]
  <2>1. PICK p \in 1 .. a : ups[p] = n
    BY <1>12
  <2>2. CASE p <= m
    <3>1. p \in 1 .. k /\ both[p] = n
      BY <1>1, <1>6, <1>10, <2>1, <2>2
    <3>2. QED
      BY <3>1
  <2>3. CASE p > m
    <3> SUFFICES ASSUME NEW i \in 1 .. k PROVE away[both[i]] < away[n]
      OBVIOUS
    <3>1. i <= m /\ i < p
      BY <1>1, <1>6, <2>3
    <3>2. i \in 1 .. a /\ both[i] = ups[i] /\ both[i] \in A
      BY <1>11, <3>1
    <3>3. <<both[i], n>> \in R
      BY <1>12, <2>1, <3>1, <3>2
    <3>4. QED
      BY <1>0, <3>2, <3>3
  <2>4. QED
    BY <1>1, <1>6, <2>2, <2>3
<1>16. ASSUME NEW n \in B
       PROVE  (\E i \in 1 .. k : both[i] = n) \/ \A i \in 1 .. k : away[both[i]] < away[n]
  <2>1. PICK p \in 1 .. (a + b) : all[p] = n
    BY <1>0, <1>13
  <2>2. p <= b
    BY <1>5, <2>1
  <2>3. CASE p <= k - m
    <3>1. p + m \in 1 .. k /\ ~(p + m <= m) /\ (p + m) - m = p
      BY <1>1, <1>6, <2>3
    <3>2. both[p + m] = n
      BY <1>10, <2>1, <3>1
    <3>3. QED
      BY <3>1, <3>2
  <2>4. CASE p > k - m
    <3> SUFFICES ASSUME NEW i \in 1 .. k PROVE away[both[i]] < away[n]
      OBVIOUS
    <3>1. CASE i <= m
      BY <1>0, <1>11, <3>1
    <3>2. CASE i > m
      <4>1. i - m \in 1 .. b /\ both[i] = all[i - m] /\ both[i] \in B
        BY <1>11, <3>2
      <4>2. i - m < p /\ i - m \in 1 .. (a + b)
        BY <1>1, <1>6, <2>4, <4>1
      <4>3. <<both[i], n>> \in R
        BY <1>13, <2>1, <4>1, <4>2
      <4>4. QED
        BY <1>0, <4>1, <4>3
    <3>3. QED
      BY <1>6, <3>1, <3>2
  <2>5. QED
    BY <1>1, <1>6, <2>3, <2>4
<1>17. QED
  BY <1>0, <1>10, <1>14, <1>15, <1>16 DEF both, FirstOf

\* The places of the ring.
LEMMA RingEnds ==
    /\ IsFiniteSet(Everybody) /\ Everybody \subseteq Nat
    /\ Max(Everybody) \in Nat
    /\ \A n \in Everybody : n <= Max(Everybody)
<1>1. IsFiniteSet(Everybody) /\ Everybody \subseteq Nat
  BY RingAssumption, FS_AddElement DEF Everybody
<1> DEFINE S == Everybody
           R == {p \in Nat \X Nat : p[1] < p[2]}
           s == Upwards(S)
<1>2. Self \in S
  BY DEF Everybody
<1> HIDE DEF S
<1>3. IsOrder(R, S) /\ InOrder(s, R, S)
  BY <1>1, UpwardsInOrder DEF S
<1> HIDE DEF s, R
<1>4. /\ \A i, j \in 1 .. Len(s) : i < j => <<s[i], s[j]>> \in R
      /\ \A n \in S : \E i \in 1 .. Len(s) : s[i] = n
  <2>1. IsFiniteSet(S)
    BY <1>1 DEF S
  <2>2. QED
    BY <1>3, <2>1, InOrderIsSorted
<1>5. Len(s) \in Nat /\ \A i \in 1 .. Len(s) : s[i] \in S
  BY <1>3 DEF InOrder
<1>6. Len(s) \in 1 .. Len(s)
  BY <1>2, <1>4, <1>5
<1>7. \A n \in S : s[Len(s)] >= n
  <2> SUFFICES ASSUME NEW n \in S PROVE s[Len(s)] >= n
    OBVIOUS
  <2>1. PICK i \in 1 .. Len(s) : s[i] = n
    BY <1>4
  <2>2. CASE i = Len(s)
    BY <1>1, <1>5, <2>1, <2>2 DEF S
  <2>3. CASE i < Len(s)
    <3>1. <<n, s[Len(s)]>> \in R
      BY <1>4, <1>6, <2>1, <2>3
    <3>2. QED
      BY <3>1 DEF R
  <2>4. QED
    BY <1>5, <2>2, <2>3
<1>8. \E m \in S : \A n \in S : m >= n
  BY <1>5, <1>6, <1>7
<1>9. Max(S) \in S /\ \A n \in S : Max(S) >= n
  BY <1>8, Zenon DEF Max
<1>10. QED
  BY <1>1, <1>9 DEF S

LEMMA AfterFindsNearest ==
    ASSUME NEW found \in SUBSET Everybody, NEW hash \in Everybody,
           NEW k \in Nat, k <= Cardinality(found)
    PROVE  LET first == Limit(Upwards({n \in found : n >= hash}), k)
           IN  Nearest(first \o Limit(Upwards(found), k - Len(first)), k, found,
                       LAMBDA n : Distance(hash, n))
<1> DEFINE R == {p \in Nat \X Nat : p[1] < p[2]}
           A == {n \in found : n >= hash}
           B == found \ A
           m == Max(Everybody)
           away == [n \in found |-> Distance(hash, n)]
           both == Limit(Upwards(A), k) \o Limit(Upwards(found), k - Len(Limit(Upwards(A), k)))
<1>1. /\ IsFiniteSet(found) /\ found \in SUBSET Nat /\ A \in SUBSET found
      /\ IsFiniteSet(A) /\ A \in SUBSET Nat /\ hash \in Nat /\ m \in Nat
      /\ \A n \in found : n <= m
      /\ hash <= m
  <2>1. IsFiniteSet(found)
    BY RingEnds, FS_Subset
  <2>2. A \in SUBSET found
    OBVIOUS
  <2>3. IsFiniteSet(A)
    BY <2>1, <2>2, FS_Subset
  <2>4. QED
    BY <2>1, <2>3, RingEnds
<1>2. /\ IsOrder(R, found) /\ InOrder(Upwards(found), R, found)
      /\ InOrder(Upwards(A), R, A)
  BY <1>1, UpwardsInOrder
<1>3. /\ \A a \in A : away[a] = a - hash
      /\ \A b \in B : away[b] = b + m + 1 - hash
  BY DEF Distance
<1>4. /\ \A a \in A : a \in found /\ a \in Nat /\ a >= hash /\ a <= m
      /\ \A b \in B : b \in found /\ b \in Nat /\ b < hash
  BY <1>1
<1> HIDE DEF m, A, B, away
<1>5. away \in [found -> Nat]
  <2>1. \A n \in found : n \in A \/ n \in B
    BY DEF B
  <2>2. \A n \in found : away[n] \in Nat
    BY <1>1, <1>3, <1>4, <2>1
  <2>3. QED
    BY <2>2 DEF away
<1>6. /\ \A x, y \in A : <<x, y>> \in R => away[x] < away[y]
      /\ \A x, y \in B : <<x, y>> \in R => away[x] < away[y]
      /\ \A a \in A : \A b \in B : away[a] < away[b] /\ <<b, a>> \in R
  BY <1>1, <1>3, <1>4
<1> HIDE DEF R
<1>7. /\ both \in Seq(found) /\ Len(both) = k
      /\ \A i, j \in 1 .. k : i < j => away[both[i]] < away[both[j]]
      /\ \A n \in found : \/ \E i \in 1 .. k : both[i] = n
                          \/ \A i \in 1 .. k : away[both[i]] < away[n]
  <2>1. IsRing(found, A, B, R, away)
    BY <1>1, <1>2, <1>5, <1>6 DEF IsRing, B
  <2>2. FirstOf(both, k, found, away)
    BY <1>2, <2>1, TwoQueriesFindNearest
  <2>3. QED
    BY <2>2 DEF FirstOf
<1> HIDE DEF both
<1>8. \A i \in 1 .. k : both[i] \in found
  BY <1>7, ElementOfSeq
<1>9. ToSet(both) = {both[i] : i \in 1 .. k}
  BY <1>7 DEF ToSet
<1>10. \A n \in found : away[n] = Distance(hash, n)
  BY DEF away
<1>11. Nearest(both, k, found, LAMBDA n : Distance(hash, n))
  BY <1>7, <1>8, <1>9, <1>10 DEF Nearest
<1>12. QED
  BY <1>11 DEF both, A

LEMMA BeforeFindsNearest ==
    ASSUME NEW found \in SUBSET Everybody, NEW hash \in Everybody,
           NEW k \in Nat, k <= Cardinality(found)
    PROVE  LET first == Limit(Downwards({n \in found : n <= hash}), k)
           IN  Nearest(first \o Limit(Downwards(found), k - Len(first)), k, found,
                       LAMBDA n : Distance(n, hash))
<1> DEFINE R == {p \in Nat \X Nat : p[1] > p[2]}
           A == {n \in found : n <= hash}
           B == found \ A
           m == Max(Everybody)
           away == [n \in found |-> Distance(n, hash)]
           both == Limit(Downwards(A), k) \o Limit(Downwards(found), k - Len(Limit(Downwards(A), k)))
<1>1. /\ IsFiniteSet(found) /\ found \in SUBSET Nat /\ A \in SUBSET found
      /\ IsFiniteSet(A) /\ A \in SUBSET Nat /\ hash \in Nat /\ m \in Nat
      /\ \A n \in found : n <= m
      /\ hash <= m
  <2>1. IsFiniteSet(found)
    BY RingEnds, FS_Subset
  <2>2. A \in SUBSET found
    OBVIOUS
  <2>3. IsFiniteSet(A)
    BY <2>1, <2>2, FS_Subset
  <2>4. QED
    BY <2>1, <2>3, RingEnds
<1>2. /\ IsOrder(R, found) /\ InOrder(Downwards(found), R, found)
      /\ InOrder(Downwards(A), R, A)
  BY <1>1, DownwardsInOrder
<1>3. /\ \A a \in A : away[a] = hash - a
      /\ \A b \in B : away[b] = hash + m + 1 - b
  BY DEF Distance
<1>4. /\ \A a \in A : a \in found /\ a \in Nat /\ a <= hash
      /\ \A b \in B : b \in found /\ b \in Nat /\ b > hash /\ b <= m
  BY <1>1
<1> HIDE DEF m, A, B, away
<1>5. away \in [found -> Nat]
  <2>1. \A n \in found : n \in A \/ n \in B
    BY DEF B
  <2>2. \A n \in found : away[n] \in Nat
    BY <1>1, <1>3, <1>4, <2>1
  <2>3. QED
    BY <2>2 DEF away
<1>6. /\ \A x, y \in A : <<x, y>> \in R => away[x] < away[y]
      /\ \A x, y \in B : <<x, y>> \in R => away[x] < away[y]
      /\ \A a \in A : \A b \in B : away[a] < away[b] /\ <<b, a>> \in R
  BY <1>1, <1>3, <1>4
<1> HIDE DEF R
<1>7. /\ both \in Seq(found) /\ Len(both) = k
      /\ \A i, j \in 1 .. k : i < j => away[both[i]] < away[both[j]]
      /\ \A n \in found : \/ \E i \in 1 .. k : both[i] = n
                          \/ \A i \in 1 .. k : away[both[i]] < away[n]
  <2>1. IsRing(found, A, B, R, away)
    BY <1>1, <1>2, <1>5, <1>6 DEF IsRing, B
  <2>2. FirstOf(both, k, found, away)
    BY <1>2, <2>1, TwoQueriesFindNearest
  <2>3. QED
    BY <2>2 DEF FirstOf
<1> HIDE DEF both
<1>8. \A i \in 1 .. k : both[i] \in found
  BY <1>7, ElementOfSeq
<1>9. ToSet(both) = {both[i] : i \in 1 .. k}
  BY <1>7 DEF ToSet
<1>10. \A n \in found : away[n] = Distance(n, hash)
  BY DEF away
<1>11. Nearest(both, k, found, LAMBDA n : Distance(n, hash))
  BY <1>7, <1>8, <1>9, <1>10 DEF Nearest
<1>12. QED
  BY <1>11 DEF both, A

-----------------------------------------------------------------------------
(***************************************************************************)
(* The connector. Whatever is on the list of hot addresses was taken from  *)
(* the table when no node on it had failed, and the list is dropped when   *)
(* one does.                                                               *)
(***************************************************************************)
TableOK(t) == DOMAIN t \subseteq Everybody /\ t \in [DOMAIN t -> Row]
ConnectorInv ==
    /\ TableOK(table)
    /\ recentlyFailed \in Seq(Nodes) /\ failReports \in Seq(Nodes)
    /\ hot \in Seq(Hosts)
    /\ FailedNodesRest

LEMMA InsertedIsOK ==
    ASSUME NEW t, TableOK(t), NEW g \in Greeting
    PROVE  TableOK(InsertNode(t, g))
BY DEF TableOK, InsertNode, Greeting, Row

LEMMA GreetedIsOK ==
    ASSUME NEW t, TableOK(t), NEW g \in Greeting
    PROVE  TableOK(NodeGreetingReceived(t, g))
<1>1. CASE g.node \notin DOMAIN t
  BY <1>1, InsertedIsOK DEF NodeGreetingReceived
<1>2. CASE g.node \in DOMAIN t
  BY <1>2 DEF NodeGreetingReceived, TableOK, Greeting, Row
<1>3. QED
  BY <1>1, <1>2

\* What getNodesAfterHash and getNodesBeforeHash return is nearest if there is
\* enough to choose from.
LEMMA RingIsSearchedAnyTime == TableOK(table) => RingIsSearched
<1> SUFFICES ASSUME TableOK(table), NEW hash \in Everybody, NEW k \in 1 .. Cardinality(DOMAIN table)
             PROVE  /\ Cardinality(Candidates(table, failed)) >= k =>
                          Nearest(GetNodesAfterHash(table, failed, ConnectedList, hash, k), k,
                                  Candidates(table, failed), LAMBDA n : Distance(hash, n))
                    /\ Cardinality(RecentCandidates(table, failed)) >= k =>
                          Nearest(GetNodesBeforeHash(table, failed, hash, k), k,
                                  RecentCandidates(table, failed), LAMBDA n : Distance(n, hash))
  BY DEF RingIsSearched
<1> DEFINE found == Candidates(table, failed)
           recent == RecentCandidates(table, failed)
           first == Limit(Upwards({n \in found : n >= hash}), k)
           both == first \o Limit(Upwards(found), k - Len(first))
           back == Limit(Downwards({n \in recent : n <= hash}), k)
           bothBack == back \o Limit(Downwards(recent), k - Len(back))
<1>1. /\ DOMAIN table \in SUBSET Everybody /\ found \in SUBSET Everybody
      /\ recent \in SUBSET Everybody
  BY DEF TableOK, Candidates, RecentCandidates
<1>2. k \in Nat /\ AtMost(table, k) = k
  <2>1. Cardinality(DOMAIN table) \in Nat
    BY <1>1, RingEnds, FS_Subset, FS_CardinalityType
  <2>2. QED
    BY <2>1 DEF AtMost
<1>3. ASSUME Cardinality(found) >= k
      PROVE  Nearest(GetNodesAfterHash(table, failed, ConnectedList, hash, k), k,
                     found, LAMBDA n : Distance(hash, n))
  <2>1. Cardinality(found) \in Nat
    BY <1>1, RingEnds, FS_Subset, FS_CardinalityType
  <2>2. Nearest(both, k, found, LAMBDA n : Distance(hash, n))
    BY <1>1, <1>2, <1>3, <2>1, AfterFindsNearest
  <2>3. Len(both) = k
    BY <2>2 DEF Nearest
  <2>4. GetNodesAfterHash(table, failed, ConnectedList, hash, k) = both
    BY <1>2, <2>3 DEF GetNodesAfterHash
  <2>5. QED
    BY <2>2, <2>4, Zenon
<1>4. ASSUME Cardinality(recent) >= k
      PROVE  Nearest(GetNodesBeforeHash(table, failed, hash, k), k,
                     recent, LAMBDA n : Distance(n, hash))
  <2>1. Cardinality(recent) \in Nat
    BY <1>1, RingEnds, FS_Subset, FS_CardinalityType
  <2>2. Nearest(bothBack, k, recent, LAMBDA n : Distance(n, hash))
    BY <1>1, <1>2, <1>4, <2>1, BeforeFindsNearest
  <2>3. GetNodesBeforeHash(table, failed, hash, k) = bothBack
    BY <1>2, Zenon DEF GetNodesBeforeHash
  <2>4. QED
    BY <2>2, <2>3, Zenon
<1>5. QED
  BY <1>3, <1>4

\* The hot addresses are of nodes that have not failed.
LEMMA HotHaveNotFailed ==
    ASSUME NEW t, TableOK(t), NEW gone, NEW connected, NEW most \in Nat
    PROVE  HotConnections(t, gone, connected, most) \in Seq(Nodes \ gone)
<1> DEFINE S == {n \in DOMAIN t : /\ n # Self /\ n \notin gone /\ n \notin connected
                                  /\ Usable(t, n)}
           Ahead(m, n) == \/ t[m].contact > t[n].contact
                          \/ t[m].contact = t[n].contact /\ m < n
           R == {p \in S \X S : Ahead(p[1], p[2])}
           s == [i \in 1 .. Cardinality(S) |->
                    CHOOSE n \in S : Cardinality({m \in S : Ahead(m, n)}) = i - 1]
<1>1. HotConnections(t, gone, connected, most) = Limit(s, most)
  BY Zenon DEF HotConnections, Ordered
<1>2. /\ S \subseteq Nodes \ gone /\ IsFiniteSet(S)
      /\ \A n \in S : n \in Nat /\ t[n].contact \in Nat
  <2>1. S \in SUBSET Everybody /\ S \subseteq Nodes \ gone
    BY DEF TableOK, Everybody
  <2>2. IsFiniteSet(S)
    BY <2>1, RingEnds, FS_Subset
  <2>3. \A n \in S : t[n] \in Row
    BY DEF TableOK
  <2>4. \A n \in S : t[n].contact \in 0 .. Now
    BY <2>3 DEF Row
  <2> HIDE DEF S
  <2>5. Everybody \subseteq Nat /\ 0 .. Now \subseteq Nat
    BY RingAssumption
  <2>6. QED
    BY <2>1, <2>2, <2>4, <2>5
<1>3. \A a, b \in S : <<a, b>> \in R <=> Ahead(a, b)
  OBVIOUS
<1> HIDE DEF S, R
<1>4. IsOrder(R, S)
  <2>1. \A a \in S : ~Ahead(a, a)
    BY <1>2
  <2>2. \A a, b \in S : a # b => Ahead(a, b) \/ Ahead(b, a)
    BY <1>2
  <2>3. \A a, b, c \in S : Ahead(a, b) /\ Ahead(b, c) => Ahead(a, c)
    BY <1>2
  <2> HIDE DEF Ahead
  <2>4. QED
    BY <1>3, <2>1, <2>2, <2>3 DEF IsOrder
<1> HIDE DEF Ahead
<1>5. \A n \in S : {m \in S : Ahead(m, n)} = AheadOf(n, R, S)
  BY <1>3 DEF AheadOf
<1>6. ASSUME NEW i \in 1 .. Cardinality(S)
      PROVE  (CHOOSE n \in S : Cardinality({m \in S : Ahead(m, n)}) = i - 1) \in S
  <2>1. PICK n \in S : Cardinality(AheadOf(n, R, S)) = i - 1
    BY <1>2, <1>4, PlaceIsTaken
  <2>2. Cardinality({m \in S : Ahead(m, n)}) = i - 1
    BY <1>5, <2>1
  <2>3. QED
    BY <2>2, Zenon
<1>7. s \in [1 .. Cardinality(S) -> S]
  BY <1>6, Zenon
<1> HIDE DEF s
<1>8. Cardinality(S) \in Nat
  BY <1>2, FS_CardinalityType
<1>9. s \in Seq(Nodes \ gone)
  BY <1>2, <1>7, <1>8
<1>10. Limit(s, most) \in Seq(Nodes \ gone)
  BY <1>9, LimitProperties
<1>11. QED
  BY <1>1, <1>10

LEMMA ConnectorStarts == ConnectorInit => ConnectorInv
<1> SUFFICES ASSUME ConnectorInit PROVE ConnectorInv
  OBVIOUS
<1>1. TableOK(table)
  <2>1. TableOK(<<>>)
    BY DEF TableOK
  <2>2. [node |-> Self, contact |-> Now, address |-> "v4"] \in Greeting
    BY RingAssumption DEF Greeting, Everybody, Addresses
  <2>3. QED
    BY <2>1, <2>2, InsertedIsOK DEF ConnectorInit
<1>2. /\ recentlyFailed \in Seq(Nodes) /\ failReports \in Seq(Nodes) /\ hot \in Seq(Hosts)
      /\ ToSet(hot) = {}
  BY DEF ConnectorInit, ToSet
<1>3. QED
  BY <1>1, <1>2 DEF ConnectorInv, FailedNodesRest

LEMMA ListRefreshed ==
    ASSUME ConnectorInv, hot' = GetHotAddresses
    PROVE  hot' \in Seq(Hosts) /\ ToSet(hot') \cap failed = {}
<1> DEFINE fetched == IF hot = <<>> THEN HotConnections(table, failed, Connected, MaxHot) ELSE hot
<1>1. fetched \in Seq(Hosts) /\ ToSet(fetched) \cap failed = {}
  <2>1. CASE hot = <<>>
    <3> DEFINE h == HotConnections(table, failed, Connected, MaxHot)
    <3>1. h \in Seq(Nodes \ failed)
      BY HostAssumption, HotHaveNotFailed DEF ConnectorInv
    <3>2. fetched = h
      BY <2>1
    <3> HIDE DEF h, fetched
    <3>3. h \in Seq(Hosts) /\ \A i \in DOMAIN h : h[i] \notin failed
      BY <3>1, SeqMonotonic, ElementOfSeq, LenProperties DEF Hosts
    <3>4. QED
      BY <3>2, <3>3 DEF ToSet
  <2>2. CASE hot # <<>>
    BY <2>2 DEF ConnectorInv, FailedNodesRest
  <2>3. QED
    BY <2>1, <2>2
<1>2. hot' = fetched \/ hot' = Append(fetched, Seed)
  BY DEF GetHotAddresses
<1> HIDE DEF fetched
<1>3. Seed \notin failed /\ Seed \in Hosts
  <2>1. Seed \notin Nodes
    BY HostAssumption DEF Everybody
  <2>2. \A n \in failed : n \in Nodes
    BY ElementOfSeq, LenProperties DEF ConnectorInv, failed, ToSet
  <2>3. QED
    BY <2>1, <2>2 DEF Hosts
<1>4. Append(fetched, Seed) \in Seq(Hosts) /\ ToSet(Append(fetched, Seed)) = ToSet(fetched) \cup {Seed}
  BY <1>1, <1>3, AppendMembers
<1>5. QED
  BY <1>1, <1>2, <1>3, <1>4

LEMMA TimesUpdatedIsOK ==
    ASSUME NEW t, TableOK(t), NEW connected
    PROVE  TableOK(UpdateLastConnectTimes(t, connected))
<1> DEFINE u == UpdateLastConnectTimes(t, connected)
<1>1. DOMAIN u = DOMAIN t
  BY DEF UpdateLastConnectTimes
<1>2. ASSUME NEW n \in DOMAIN t PROVE u[n] \in Row
  <2>1. t[n] \in Row /\ Now \in 0 .. Now
    BY RingAssumption DEF TableOK
  <2>2. u[n] = IF n \in connected THEN [t[n] EXCEPT !.contact = Now, !.reference = Now] ELSE t[n]
    BY DEF UpdateLastConnectTimes
  <2>3. [t[n] EXCEPT !.contact = Now, !.reference = Now] \in Row
    BY <2>1 DEF Row
  <2>4. QED
    BY <2>1, <2>2, <2>3
<1>3. u = [n \in DOMAIN t |->
              IF n \in connected THEN [t[n] EXCEPT !.contact = Now, !.reference = Now] ELSE t[n]]
  BY DEF UpdateLastConnectTimes
<1>4. u \in [DOMAIN t -> Row]
  BY <1>2, <1>3, Zenon
<1> HIDE DEF u
<1>5. TableOK(u)
  BY <1>1, <1>4 DEF TableOK
<1>6. QED
  BY <1>5 DEF u

\* What a step leaves of the lists the rest of failed nodes depends on.
ListsKept == UNCHANGED <<recentlyFailed, failReports, hot>>

LEMMA WithListsKept ==
    ASSUME ConnectorInv, ListsKept, TableOK(table')
    PROVE  ConnectorInv'
BY DEF ConnectorInv, ListsKept, FailedNodesRest, failed

LEMMA AttemptFailsKeeps ==
    ASSUME ConnectorInv, NEW h \in Hosts, AttemptFails(h)
    PROVE  ConnectorInv'
<1>1. failReports' \in Seq(Nodes)
  <2>1. CASE h = Seed
    BY <2>1 DEF AttemptFails, ConnectorInv
  <2>2. CASE h # Seed
    BY <2>2, AppendMembers DEF AttemptFails, ConnectorInv, Hosts
  <2>3. QED
    BY <2>1, <2>2
<1>2. UNCHANGED <<table, recentlyFailed, hot>>
  BY DEF AttemptFails, modelVars
<1>3. QED
  BY <1>1, <1>2 DEF ConnectorInv, FailedNodesRest, failed

LEMMA RefreshKeeps ==
    ASSUME ConnectorInv, UpdateListOfNodesToConnect
    PROVE  ConnectorInv'
<1>1. UNCHANGED <<table, recentlyFailed, failReports>> /\ hot' = GetHotAddresses
  BY DEF UpdateListOfNodesToConnect
<1>2. hot' \in Seq(Hosts) /\ ToSet(hot') \cap failed = {}
  BY <1>1, ListRefreshed
<1>3. QED
  BY <1>1, <1>2 DEF ConnectorInv, FailedNodesRest, failed

LEMMA InitialGreetingKeeps ==
    ASSUME ConnectorInv, NEW g \in Greetings, InitialGreeting(g)
    PROVE  ConnectorInv'
<1>1. g \in Greeting
  BY HostAssumption
<1>2. TableOK(table')
  BY <1>1, GreetedIsOK DEF InitialGreeting, ConnectorInv
<1>3. recentlyFailed' \in Seq(Nodes) /\ ToSet(recentlyFailed') \subseteq failed
  BY FilterProperties DEF InitialGreeting, ConnectorInv, failed
<1>4. UNCHANGED <<hot, failReports>>
  BY DEF InitialGreeting
<1>5. QED
  BY <1>2, <1>3, <1>4 DEF ConnectorInv, FailedNodesRest, failed

LEMMA OfferKeeps ==
    ASSUME ConnectorInv, OfferNodeToRecentlyFailedList
    PROVE  ConnectorInv'
<1>1. /\ failReports # <<>> /\ failReports' = Tail(failReports)
      /\ UNCHANGED table
  BY DEF OfferNodeToRecentlyFailedList
<1>2. Head(failReports) \in Nodes /\ failReports' \in Seq(Nodes)
  BY <1>1, TailMembers DEF ConnectorInv
<1>3. CASE Head(failReports) \in failed
  <2>1. UNCHANGED <<recentlyFailed, hot>>
    BY <1>3 DEF OfferNodeToRecentlyFailedList
  <2>2. QED
    BY <1>1, <1>2, <2>1 DEF ConnectorInv, FailedNodesRest, failed
<1>4. CASE Head(failReports) \notin failed
  <2>1. recentlyFailed' = Append(recentlyFailed, Head(failReports)) /\ hot' = <<>>
    BY <1>4 DEF OfferNodeToRecentlyFailedList
  <2>2. recentlyFailed' \in Seq(Nodes)
    BY <1>2, <2>1, AppendMembers DEF ConnectorInv
  <2>3. hot' \in Seq(Hosts) /\ ToSet(hot') = {}
    BY <2>1 DEF ToSet
  <2>4. QED
    BY <1>1, <1>2, <2>2, <2>3 DEF ConnectorInv, FailedNodesRest
<1>5. QED
  BY <1>3, <1>4

LEMMA TimerKeeps ==
    ASSUME ConnectorInv, TimerEvent
    PROVE  ConnectorInv'
<1>1. /\ recentlyFailed # <<>> /\ recentlyFailed' = Tail(recentlyFailed)
      /\ UNCHANGED <<table, hot, failReports>>
  BY DEF TimerEvent
<1>2. recentlyFailed' \in Seq(Nodes) /\ ToSet(recentlyFailed') \subseteq failed
  BY <1>1, TailMembers DEF ConnectorInv, failed
<1>3. QED
  BY <1>1, <1>2 DEF ConnectorInv, FailedNodesRest, failed

LEMMA TruncateKeeps ==
    ASSUME ConnectorInv, TruncateTable
    PROVE  ConnectorInv'
<1>1. PICK gone \in Oldest(table) : table' = [n \in DOMAIN table \ {gone} |-> table[n]]
  BY DEF TruncateTable
<1>2. TableOK(table')
  BY <1>1 DEF ConnectorInv, TableOK
<1>3. ListsKept
  BY DEF TruncateTable, ListsKept
<1>4. QED
  BY <1>2, <1>3, WithListsKept

\* One step per action. Those of the loop and of connections that write neither
\* the table nor a list of failed nodes are taken together.
LEMMA ConnectorStep == ConnectorInv /\ [ConnectorNext]_connectorVars => ConnectorInv'
<1> SUFFICES ASSUME ConnectorInv, [ConnectorNext]_connectorVars PROVE ConnectorInv'
  OBVIOUS
<1>1. ASSUME UNCHANGED <<table, recentlyFailed, hot, failReports>> PROVE ConnectorInv'
  BY <1>1, WithListsKept DEF ListsKept, ConnectorInv
<1>2. CASE TryServeWishListItem
  BY <1>1, <1>2 DEF TryServeWishListItem, modelVars
<1>3. CASE UpdateListOfNodesToConnect
  BY <1>3, RefreshKeeps
<1>4. CASE ConnectFirst
  BY <1>1, <1>4 DEF ConnectFirst, modelVars
<1>5. ASSUME NEW h \in Hosts, AttemptSucceeds(h) PROVE ConnectorInv'
  BY <1>1, <1>5 DEF AttemptSucceeds, modelVars
<1>6. ASSUME NEW h \in Hosts, AttemptFails(h) PROVE ConnectorInv'
  BY <1>6, AttemptFailsKeeps
<1>7. ASSUME NEW h \in Hosts, ConnectionCloses(h) PROVE ConnectorInv'
  BY <1>1, <1>7 DEF ConnectionCloses, modelVars
<1>8. CASE OfferNodeToRecentlyFailedList
  BY <1>8, OfferKeeps
<1>9. CASE TimerEvent
  BY <1>9, TimerKeeps
<1>10. ASSUME NEW n \in Nodes, ConnectedBy(n) PROVE ConnectorInv'
  BY <1>1, <1>10 DEF ConnectedBy, modelVars
<1>11. ASSUME NEW n \in Nodes, WishFor(n) PROVE ConnectorInv'
  BY <1>1, <1>11 DEF WishFor, modelVars
<1>12. ASSUME NEW n \in Nodes, AddNodeFromBroadcast(n) PROVE ConnectorInv'
  BY <1>1, <1>12 DEF AddNodeFromBroadcast, modelVars
<1>13. ASSUME NEW g \in Greetings, InitialGreeting(g) PROVE ConnectorInv'
  BY <1>13, InitialGreetingKeeps
<1>14. ASSUME NEW g \in Greetings, LaterGreeting(g) PROVE ConnectorInv'
  <2>1. TableOK(table')
    BY <1>14, HostAssumption, GreetedIsOK DEF LaterGreeting, ConnectorInv
  <2>2. QED
    BY <1>14, <2>1, WithListsKept DEF LaterGreeting, ListsKept
<1>15. CASE UpdateTimes
  <2>1. TableOK(table')
    BY <1>15, TimesUpdatedIsOK DEF UpdateTimes, ConnectorInv
  <2>2. QED
    BY <1>15, <2>1, WithListsKept DEF UpdateTimes, ListsKept
<1>16. CASE TruncateTable
  BY <1>16, TruncateKeeps
<1>17. CASE UNCHANGED connectorVars
  BY <1>1, <1>17 DEF connectorVars, modelVars
<1>18. QED
  BY <1>2, <1>3, <1>4, <1>5, <1>6, <1>7, <1>8, <1>9, <1>10, <1>11, <1>12, <1>13,
     <1>14, <1>15, <1>16, <1>17 DEF ConnectorNext, Turn

LEMMA ConnectorInvariant == ConnectorSpec => []ConnectorInv
BY ConnectorStarts, ConnectorStep, PTL DEF ConnectorSpec

\* The queries of getNodesAfterHash and getNodesBeforeHash return the nearest
\* nodes around any hash, in order and each once, for every ring and every
\* number asked for, whenever there are that many to choose from.
THEOREM RingStaysSearched == ConnectorSpec => []RingIsSearched
<1>1. ConnectorInv => RingIsSearched
  BY RingIsSearchedAnyTime DEF ConnectorInv
<1>2. QED
  BY <1>1, ConnectorInvariant, PTL

\* No node on the list of offerNodeToRecentlyFailedList is among the hot
\* addresses that were fetched before it failed.
THEOREM FailedNodesAlwaysRest == ConnectorSpec => []FailedNodesRest
<1>1. ConnectorInv => FailedNodesRest
  BY DEF ConnectorInv
<1>2. QED
  BY <1>1, ConnectorInvariant, PTL
=============================================================================
