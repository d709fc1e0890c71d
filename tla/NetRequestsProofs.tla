-------------------------- MODULE NetRequestsProofs --------------------------
(***************************************************************************)
(* Proofs about NetRequests, for any nodes, offers, lists of nodes and     *)
(* number of connections and requests.                                     *)
(*                                                                         *)
(* What is said of one entry is collected in GoodEntry, so that the        *)
(* invariant is that the queue is a sequence of good entries: taking some  *)
(* out then needs no argument of its own. NoOrphanRequest and ToldOnce are *)
(* not inductive without the rest of it: an entry that is turned from its  *)
(* own node to the nodes around the hash must not have nodes around yet,   *)
(* and must not have been told to anybody.                                 *)
(***************************************************************************)
EXTENDS NetRequests, SequenceLemmas, SequenceTheorems, TLAPS

-----------------------------------------------------------------------------
(***************************************************************************)
(* The network steps of Hosts keep the types of its variables, and a       *)
(* report on a node that is on its way stays on its way, from the wish     *)
(* over the connection to the queued event, until the executor takes it.   *)
(***************************************************************************)
\* The steps of other threads that Hosts describes.
NetworkStep ==
    \/ \E n \in Nodes : ServeWishListItem(n) \/ IncomingConnection(n)
    \/ \E c \in ConnIds : ConnectionReady(c) \/ ConnectionCloses(c) \/ ConnectionClosed(c)

\* An id without a connection is told from one with a connection by its state.
LEMMA NoConnectionIsNone ==
    /\ NoConnection \notin Connection
    /\ \A x \in Connection : x # NoConnection
BY DEF NoConnection, Connection

\* What is known of a connection.
LEMMA AliveConnection ==
    ASSUME HostsTypeOK, NEW c \in Alive
    PROVE  /\ c \in ConnIds
           /\ connections[c] \in Connection
           /\ connections[c].peer \in Nodes
BY DEF HostsTypeOK, Alive, Connection

LEMMA HostsInitTypeOK == HostsInit => HostsTypeOK
BY EmptySeq DEF HostsInit, HostsTypeOK

\* An event is taken from the queue of the main thread.
LEMMA EventTaken ==
    ASSUME HostsTypeOK, statusEvents # <<>>
    PROVE  /\ Head(statusEvents) \in StatusEvent
           /\ Tail(statusEvents) \in Seq(StatusEvent)
BY HeadTailProperties DEF HostsTypeOK

-----------------------------------------------------------------------------
\* A connection attempt: one id that was free gets a connection.
LEMMA NewConnectionProperties ==
    ASSUME HostsTypeOK, NEW n \in Nodes, NEW incoming \in BOOLEAN,
           NewConnection(n, incoming)
    PROVE  /\ connections' \in [ConnIds -> Connection \cup {NoConnection}]
           /\ \A d \in Alive : d \in ConnIds /\ connections'[d] = connections[d]
           /\ \E d \in ConnIds : connections'[d] = [peer |-> n, incoming |-> incoming,
                                                    state |-> "Handshake"]
<1>1. PICK c \in ConnIds :
         /\ c \notin Alive
         /\ connections' = [connections EXCEPT
                              ![c] = [peer |-> n, incoming |-> incoming, state |-> "Handshake"]]
  BY DEF NewConnection, FreeId
<1>2. [peer |-> n, incoming |-> incoming, state |-> "Handshake"] \in Connection
  BY DEF Connection
<1>3. connections \in [ConnIds -> Connection \cup {NoConnection}]
  BY DEF HostsTypeOK
<1>4. QED
  BY <1>1, <1>2, <1>3 DEF Alive

\* The same with one connection's own steps: the others stay as they are, and
\* this one is still there unless it was taken off the list.
LEMMA OwnStepProperties ==
    ASSUME HostsTypeOK, NEW c \in ConnIds,
           ConnectionReady(c) \/ ConnectionCloses(c) \/ ConnectionClosed(c)
    PROVE  /\ HostsTypeOK'
           /\ wishList' = wishList
           /\ \A d \in Alive \ {c} : d \in ConnIds /\ connections'[d] = connections[d]
           /\ \A i \in DOMAIN statusEvents : i \in DOMAIN statusEvents'
                                             /\ statusEvents'[i] = statusEvents[i]
           /\ c \in Alive
<1>1. c \in Alive
  BY DEF ConnectionReady, ConnectionCloses, ConnectionClosed
<1>2. /\ connections[c] \in Connection /\ connections[c].peer \in Nodes
      /\ connections \in [ConnIds -> Connection \cup {NoConnection}]
      /\ statusEvents \in Seq(StatusEvent)
  BY <1>1, AliveConnection DEF HostsTypeOK
<1>3. wishList' = wishList
  BY DEF ConnectionReady, ConnectionCloses, ConnectionClosed
<1>4. /\ connections' \in [ConnIds -> Connection \cup {NoConnection}]
      /\ \A d \in ConnIds \ {c} : connections'[d] = connections[d]
  <2>1. ASSUME NEW state \in {"Ready", "Closing"},
               connections' = [connections EXCEPT ![c].state = state]
        PROVE  /\ connections' \in [ConnIds -> Connection \cup {NoConnection}]
               /\ \A d \in ConnIds \ {c} : connections'[d] = connections[d]
    <3>1. [connections[c] EXCEPT !.state = state] \in Connection
      BY <1>2 DEF Connection
    <3>2. QED
      BY <1>2, <2>1, <3>1
  <2>2. CASE connections' = [connections EXCEPT ![c] = NoConnection]
    BY <1>2, <2>2
  <2>3. QED
    BY <2>1, <2>2 DEF ConnectionReady, ConnectionCloses, ConnectionClosed
<1>5. /\ statusEvents' \in Seq(StatusEvent)
      /\ \A i \in DOMAIN statusEvents : i \in DOMAIN statusEvents'
                                        /\ statusEvents'[i] = statusEvents[i]
  <2>1. ASSUME NEW status \in {"Open", "Closing"},
               statusEvents' = Append(statusEvents, [status |-> status,
                                                     peer |-> connections[c].peer])
        PROVE  <1>5!:
    <3>1. [status |-> status, peer |-> connections[c].peer] \in StatusEvent
      BY <1>2 DEF StatusEvent
    <3>2. /\ statusEvents' \in Seq(StatusEvent) /\ Len(statusEvents') = Len(statusEvents) + 1
          /\ \A i \in 1 .. Len(statusEvents) : statusEvents'[i] = statusEvents[i]
      BY <1>2, <2>1, <3>1, AppendProperties
    <3>3. /\ DOMAIN statusEvents = 1 .. Len(statusEvents) /\ Len(statusEvents) \in Nat
          /\ DOMAIN statusEvents' = 1 .. Len(statusEvents')
      BY <1>2, <3>2, LenProperties
    <3>4. QED
      BY <3>2, <3>3
  <2>2. CASE statusEvents' = statusEvents
    BY <1>2, <2>2
  <2>3. QED
    BY <2>1, <2>2 DEF ConnectionReady, ConnectionCloses, ConnectionClosed
<1>6. QED
  BY <1>1, <1>3, <1>4, <1>5 DEF HostsTypeOK, Alive

\* A report comes from the wish, from a connection or from an event.
LEMMA ReportFromConnection ==
    ASSUME NEW n, NEW c \in ConnIds, connections'[c] # NoConnection,
           connections'[c].peer = n,
           connections'[c].state # "Handshake" \/ ~connections'[c].incoming
    PROVE  ReportComing(n)'
BY DEF ReportComing, Alive

\* A connection that would report does so when it is taken off the list.
LEMMA OwnStepReports ==
    ASSUME HostsTypeOK, NEW c \in ConnIds,
           ConnectionReady(c) \/ ConnectionCloses(c) \/ ConnectionClosed(c),
           NEW n, connections[c].peer = n,
           connections[c].state # "Handshake" \/ ~connections[c].incoming
    PROVE  ReportComing(n)'
<1>1. /\ c \in Alive /\ connections[c] \in Connection
      /\ connections \in [ConnIds -> Connection \cup {NoConnection}]
      /\ statusEvents \in Seq(StatusEvent)
  BY AliveConnection, OwnStepProperties DEF HostsTypeOK
<1>2. ASSUME NEW state \in {"Ready", "Closing"},
             connections' = [connections EXCEPT ![c].state = state]
      PROVE  ReportComing(n)'
  <2>1. connections'[c] = [connections[c] EXCEPT !.state = state]
    BY <1>1, <1>2
  <2>2. /\ connections'[c] # NoConnection
        /\ connections'[c].peer = n /\ connections'[c].state # "Handshake"
    BY <1>1, <2>1 DEF NoConnection, Connection
  <2>3. QED
    BY <2>2, ReportFromConnection
<1>3. CASE ConnectionClosed(c)
  <2>1. connections[c].state = "Closing" \/ ~connections[c].incoming
    BY <1>1, <1>3 DEF ConnectionClosed
  <2>2. statusEvents' = Append(statusEvents, [status |-> "Closing", peer |-> n])
    BY <1>3, <2>1 DEF ConnectionClosed
  <2>3. [status |-> "Closing", peer |-> n] \in StatusEvent
    BY <1>1 DEF StatusEvent, Connection
  <2>4. /\ statusEvents' \in Seq(StatusEvent)
        /\ Len(statusEvents') = Len(statusEvents) + 1
        /\ statusEvents'[Len(statusEvents) + 1] = [status |-> "Closing", peer |-> n]
    BY <1>1, <2>2, <2>3, AppendProperties
  <2>5. Len(statusEvents) + 1 \in DOMAIN statusEvents'
    BY <1>1, <2>4, LenProperties
  <2>6. statusEvents'[Len(statusEvents) + 1].peer = n
    BY <2>4
  <2>7. QED
    BY <2>5, <2>6 DEF ReportComing
<1>4. QED
  BY <1>2, <1>3 DEF ConnectionReady, ConnectionCloses

-----------------------------------------------------------------------------
\* The types, whatever the network does.
LEMMA NetworkStepTypeOK ==
    ASSUME HostsTypeOK, NetworkStep
    PROVE  HostsTypeOK'
<1>1. ASSUME NEW n \in Nodes, ServeWishListItem(n) PROVE HostsTypeOK'
  <2>1. wishList' \subseteq Nodes /\ statusEvents' = statusEvents
    BY <1>1 DEF ServeWishListItem, HostsTypeOK
  <2>2. connections' \in [ConnIds -> Connection \cup {NoConnection}]
    BY <1>1, NewConnectionProperties DEF ServeWishListItem, HostsTypeOK
  <2>3. QED
    BY <2>1, <2>2 DEF HostsTypeOK
<1>2. ASSUME NEW n \in Nodes, IncomingConnection(n) PROVE HostsTypeOK'
  BY <1>2, NewConnectionProperties DEF IncomingConnection, HostsTypeOK
<1>3. ASSUME NEW c \in ConnIds,
             ConnectionReady(c) \/ ConnectionCloses(c) \/ ConnectionClosed(c)
      PROVE  HostsTypeOK'
  BY <1>3, OwnStepProperties
<1>4. QED
  BY <1>1, <1>2, <1>3 DEF NetworkStep

\* A report on its way stays on its way, unless it is on a node for which the
\* connector may drop the wish.
LEMMA ReportStaysComing ==
    ASSUME HostsTypeOK, NetworkStep, NEW n, n \notin Dropped, ReportComing(n)
    PROVE  ReportComing(n)'
<1>1. ASSUME statusEvents' = statusEvents,
             \A d \in Alive : d \in ConnIds /\ connections'[d] = connections[d],
             n \in wishList => ReportComing(n)'
      PROVE  ReportComing(n)'
  BY <1>1, ReportFromConnection DEF ReportComing, Alive
<1>2. ASSUME NEW m \in Nodes, ServeWishListItem(m) PROVE ReportComing(n)'
  <2>1. CASE m \in Dropped
    <3>1. connections' = connections /\ statusEvents' = statusEvents
          /\ wishList' = wishList \ {m} /\ m # n
      BY <1>2, <2>1 DEF ServeWishListItem
    <3>2. QED
      BY <3>1 DEF ReportComing, Alive
  <2>2. CASE m \notin Dropped
    <3>1. NewConnection(m, FALSE) /\ statusEvents' = statusEvents /\ wishList' = wishList \ {m}
      BY <1>2, <2>2 DEF ServeWishListItem
    <3>2. \A d \in Alive : d \in ConnIds /\ connections'[d] = connections[d]
      BY <3>1, NewConnectionProperties
    <3>3. PICK d \in ConnIds : connections'[d] = [peer |-> m, incoming |-> FALSE,
                                                  state |-> "Handshake"]
      BY <3>1, NewConnectionProperties
    <3>4. connections'[d] # NoConnection
      BY <3>3 DEF NoConnection
    <3>5. ReportComing(m)'
      BY <3>3, <3>4, ReportFromConnection
    <3>6. CASE n = m
      BY <3>5, <3>6
    <3>7. CASE n # m
      <4>1. n \in wishList => ReportComing(n)'
        BY <3>1, <3>7 DEF ReportComing
      <4>2. QED
        BY <1>1, <3>1, <3>2, <4>1
    <3>8. QED
      BY <3>6, <3>7
  <2>3. QED
    BY <2>1, <2>2
<1>3. ASSUME NEW m \in Nodes, IncomingConnection(m) PROVE ReportComing(n)'
  <2>1. /\ wishList' = wishList /\ statusEvents' = statusEvents
        /\ \A d \in Alive : d \in ConnIds /\ connections'[d] = connections[d]
    BY <1>3, NewConnectionProperties DEF IncomingConnection
  <2>2. QED
    BY <1>1, <2>1 DEF ReportComing
<1>4. ASSUME NEW c \in ConnIds,
             ConnectionReady(c) \/ ConnectionCloses(c) \/ ConnectionClosed(c)
      PROVE  ReportComing(n)'
  <2>1. CASE n \in wishList \/ \E i \in DOMAIN statusEvents : statusEvents[i].peer = n
    BY <1>4, <2>1, OwnStepProperties DEF ReportComing
  <2>2. ASSUME NEW d \in Alive, connections[d].peer = n,
               connections[d].state # "Handshake" \/ ~connections[d].incoming
        PROVE  ReportComing(n)'
    <3>1. CASE d = c
      BY <1>4, <2>2, <3>1, OwnStepReports
    <3>2. CASE d # c
      <4>1. d \in ConnIds /\ connections'[d] = connections[d]
        BY <1>4, <3>2, OwnStepProperties
      <4>2. QED
        BY <2>2, <4>1, ReportFromConnection DEF Alive
    <3>3. QED
      BY <3>1, <3>2
  <2>3. QED
    BY <2>1, <2>2 DEF ReportComing
<1>5. QED
  BY <1>2, <1>3, <1>4 DEF NetworkStep

\* So does it when the engine wishes for nodes, and when it takes an event that
\* is about another node.
LEMMA WishesAdded ==
    ASSUME NEW n, ReportComing(n), wishList \subseteq wishList',
           UNCHANGED <<connections, statusEvents>>
    PROVE  ReportComing(n)'
BY DEF ReportComing, Alive

LEMMA ReportStaysQueued ==
    ASSUME HostsTypeOK, statusEvents # <<>>, NEW n, n # Head(statusEvents).peer,
           ReportComing(n), wishList \subseteq wishList',
           statusEvents' = Tail(statusEvents), UNCHANGED connections
    PROVE  ReportComing(n)'
<1>1. CASE \E i \in DOMAIN statusEvents : statusEvents[i].peer = n
  <2>1. PICK i \in DOMAIN statusEvents : statusEvents[i].peer = n
    BY <1>1
  <2>2. /\ DOMAIN statusEvents = 1 .. Len(statusEvents) /\ Len(statusEvents) \in Nat
        /\ statusEvents' \in Seq(StatusEvent)
        /\ Len(statusEvents') = Len(statusEvents) - 1
        /\ \A k \in 1 .. Len(statusEvents') : statusEvents'[k] = statusEvents[k + 1]
    BY HeadTailProperties, LenProperties DEF HostsTypeOK
  <2>3. DOMAIN statusEvents' = 1 .. (Len(statusEvents) - 1)
    BY <2>2, LenProperties
  <2>4. Head(statusEvents) = statusEvents[1]
    BY DEF HostsTypeOK
  <2>5. i # 1
    BY <2>1, <2>4
  <2>6. i - 1 \in DOMAIN statusEvents' /\ statusEvents'[i - 1] = statusEvents[i]
    BY <2>2, <2>3, <2>5
  <2>7. QED
    BY <2>1, <2>6 DEF ReportComing
<1>2. CASE ~\E i \in DOMAIN statusEvents : statusEvents[i].peer = n
  BY <1>2 DEF ReportComing, Alive
<1>3. QED
  BY <1>1, <1>2

-----------------------------------------------------------------------------
(***************************************************************************)
(* The executor.                                                           *)
(***************************************************************************)
\* The states in which nobody has been told of a request.
Early == {"new", "processing", "inWishList"}

\* What is always true of an entry of the queue.
GoodEntry ==
    {e \in Entry :
        /\ e.id <= accepted
        /\ e.state \in Early => e.around = {} /\ \A t \in told : t[1] # e.id
        /\ e.state = "sentAround" => \A n \in e.around : <<e.id, n>> \notin told
        /\ \A n \in WaitsFor(e) \ Dropped : ReportComing(n)}

DistinctIds(q) == \A i, j \in 1 .. Len(q) : q[i].id = q[j].id => i = j

\* Behind index c there is nothing new but what came late.
NewOnesAreLate(q, c, recent) ==
    \A i \in 1 .. Len(q) : i > c /\ q[i].state = "new" => q[i].id \in recent

IInv ==
    /\ HostsTypeOK
    /\ queue \in Seq(GoodEntry)
    /\ DistinctIds(queue)
    /\ pc \in {"idle", "walk", "crashed"}
    /\ cursor \in Nat
    /\ pc = "walk" => NewOnesAreLate(queue, cursor, late)
    /\ accepted \in 0 .. MaxRequests
    /\ late \subseteq Ids
    /\ told \subseteq (1 .. accepted) \X Nodes
    /\ toldAgain = {}

-----------------------------------------------------------------------------
\* Taking entries out disturbs neither of the two.
LEMMA ThinningKeeps ==
    ASSUME NEW s \in Seq(Entry), NEW t \in Seq(Entry), Thins(t, s)
    PROVE  /\ DistinctIds(s) => DistinctIds(t)
           /\ \A c \in Nat : \A recent : NewOnesAreLate(s, c, recent) => NewOnesAreLate(t, c, recent)
<1>1. PICK from \in [1 .. Len(t) -> 1 .. Len(s)] :
         /\ \A k \in 1 .. Len(t) : t[k] = s[from[k]] /\ k <= from[k]
         /\ \A j, k \in 1 .. Len(t) : from[j] = from[k] => j = k
  BY DEF Thins
<1>2. DistinctIds(s) => DistinctIds(t)
  BY <1>1 DEF DistinctIds
<1>3. ASSUME NEW c \in Nat, NEW recent, NewOnesAreLate(s, c, recent)
      PROVE  NewOnesAreLate(t, c, recent)
  <2>1. ASSUME NEW i \in 1 .. Len(t), i > c, t[i].state = "new"
        PROVE  t[i].id \in recent
    <3>1. from[i] \in 1 .. Len(s) /\ from[i] > c /\ s[from[i]] = t[i]
      BY <1>1, <2>1
    <3>2. QED
      BY <1>3, <2>1, <3>1 DEF NewOnesAreLate
  <2>2. QED
    BY <2>1 DEF NewOnesAreLate
<1>4. QED
  BY <1>2, <1>3

\* What is known of entry i of a queue of good entries.
LEMMA EntryOfQueue ==
    ASSUME IInv, NEW i \in DOMAIN queue
    PROVE  /\ queue[i] \in GoodEntry /\ queue[i] \in Entry
           /\ i \in 1 .. Len(queue) /\ Len(queue) \in Nat
<1>1. DOMAIN queue = 1 .. Len(queue) /\ Len(queue) \in Nat
  BY LenProperties DEF IInv
<1>2. queue[i] \in GoodEntry
  BY <1>1, ElementOfSeq DEF IInv
<1>3. QED
  BY <1>1, <1>2 DEF GoodEntry

LEMMA GoodEntries ==
    GoodEntry \subseteq Entry
BY DEF GoodEntry

-----------------------------------------------------------------------------
(***************************************************************************)
(* What becomes of an entry.                                               *)
(***************************************************************************)

\* An outcome o for entry e, where the nodes in reported have reported: whom
\* the entry waits for afterwards has been wished for or was waited for before
\* and has not reported; nobody is told whom the entry still waits for.
GoodOutcome(e, o, reported) ==
    /\ o.entry \in Entry /\ o.entry.id = e.id
    /\ e.state # "new" => o.entry.state # "new"
    /\ o.wish \subseteq Nodes
    /\ WaitsFor(o.entry) \subseteq o.wish \cup (WaitsFor(e) \ reported)
    /\ o.entry.state \in Early => e.state \in Early /\ o.send = {} /\ o.entry.around = {}
    /\ o.entry.state = "sentAround" =>
          /\ o.send \cap o.entry.around = {}
          /\ e.state \in Early \/ (e.state = "sentAround" /\ o.entry.around \subseteq e.around)
    /\ o.send # {} => e.state \in Early \/ (e.state = "sentAround" /\ o.send \subseteq e.around)

\* So an entry that is ready stays ready.
LEMMA ReadyStaysReady ==
    ASSUME NEW e \in Entry, e.state = "ready", NEW o, NEW reported, GoodOutcome(e, o, reported)
    PROVE  o.entry.state = "ready"
BY DEF GoodOutcome, Entry, States, Early

LEMMA OutcomeFields ==
    ASSUME NEW e, NEW send, NEW wish
    PROVE  /\ Outcome(e, send, wish).entry = e
           /\ Outcome(e, send, wish).send = send
           /\ Outcome(e, send, wish).wish = wish
BY DEF Outcome

\* sendRequestToNodesAroundHash, for an entry that nobody has been told of.
LEMMA AroundIsGood ==
    ASSUME NEW e \in Entry, e.state \in Early, e.around = {},
           NEW list \in Seq(Peers), NEW reported
    PROVE  LET o == SendRequestToNodesAroundHash(e, list)
           IN /\ GoodOutcome(e, o, reported)
              /\ \A n \in o.wish : ~HasAddressOf(n)
              /\ o.entry.state # "new"
              /\ o.entry.state = "sentAround" => o.entry.around = o.wish
              /\ o.entry.state \notin Early
<1> DEFINE connected == {n \in ToSet(list) : HasAddressOf(n)}
           wished == {n \in ToSet(list) \ connected : n \notin e.around /\ CanWish(n)}
           after == [e EXCEPT !.around = e.around \cup wished,
                              !.state = IF list # <<>> /\ e.around \cup wished # {}
                                        THEN "sentAround" ELSE "ready",
                              !.stale = e.stale /\ connected = {} /\ wished = {}]
           o == SendRequestToNodesAroundHash(e, list)
<1>1. o = Outcome(after, connected, wished)
  BY DEF SendRequestToNodesAroundHash
<1>2. wished \subseteq Nodes /\ wished \cap connected = {}
  BY DEF CanWish
<1>3. \A n \in wished : ~HasAddressOf(n)
  OBVIOUS
<1> DEFINE state == IF list # <<>> /\ e.around \cup wished # {} THEN "sentAround" ELSE "ready"
           stale == e.stale /\ connected = {} /\ wished = {}
<1>4. state \in {"sentAround", "ready"} /\ stale \in BOOLEAN
  OBVIOUS
<1>5. after = [e EXCEPT !.around = wished, !.state = state, !.stale = stale]
  OBVIOUS
<1> HIDE DEF connected, wished, after, o, state, stale
<1>6. /\ after \in Entry /\ after.id = e.id /\ after.state = state
      /\ after.around = wished
  BY <1>2, <1>4, <1>5 DEF Entry, States
<1>7. o.entry = after /\ o.send = connected /\ o.wish = wished
  BY <1>1, OutcomeFields
<1>8. WaitsFor(o.entry) \subseteq o.wish
  BY <1>4, <1>6, <1>7 DEF WaitsFor
<1>9. GoodOutcome(e, o, reported)
  BY <1>2, <1>4, <1>6, <1>7, <1>8 DEF GoodOutcome, Early
<1>10. QED
  BY <1>3, <1>4, <1>6, <1>7, <1>9 DEF o, Early

\* An outcome that leaves the entry to be removed.
LEMMA DoneIsGood ==
    ASSUME NEW e \in Entry, e.state \in Early, NEW send, NEW reported
    PROVE  GoodOutcome(e, Outcome(Done(e), send, {}), reported)
<1>1. Done(e) \in Entry /\ Done(e).id = e.id /\ Done(e).state = "ready"
  BY DEF Done, Entry, States
<1>2. WaitsFor(Done(e)) = {}
  BY <1>1 DEF WaitsFor
<1>3. QED
  BY <1>1, <1>2, OutcomeFields DEF GoodOutcome, Early

LEMMA SentIsGood ==
    ASSUME NEW e \in Entry, e.state \in Early, NEW send, NEW reported
    PROVE  GoodOutcome(e, Outcome(Sent(e), send, {}), reported)
<1>1. Sent(e) \in Entry /\ Sent(e).id = e.id /\ Sent(e).state = "ready"
  BY DEF Sent, Entry, States
<1>2. WaitsFor(Sent(e)) = {}
  BY <1>1 DEF WaitsFor
<1>3. QED
  BY <1>1, <1>2, OutcomeFields DEF GoodOutcome, Early

\* Nothing is done: the entry stays what it is.
LEMMA UnchangedIsGood ==
    ASSUME NEW e \in Entry, e.state \in Early => e.around = {}, NEW reported,
           WaitsFor(e) \cap reported = {}
    PROVE  GoodOutcome(e, Outcome(e, {}, {}), reported)
BY OutcomeFields DEF GoodOutcome, Entry, States, Early

\* Send to the destination, or wish for it, or else.
LEMMA SendOrWishIsGood ==
    ASSUME NEW e \in Entry, e.state = "processing", e.around = {},
           NEW otherwise \in {e, Done(e)}, NEW reported
    PROVE  GoodOutcome(e, SendOrWish(e, otherwise), reported)
<1>1. CASE e.dest # NoNode /\ IsConnected(e.dest)
  BY <1>1, SentIsGood DEF SendOrWish, Early
<1>2. CASE ~(e.dest # NoNode /\ IsConnected(e.dest)) /\ e.dest # NoNode /\ CanWish(e.dest)
  <2> DEFINE w == [e EXCEPT !.state = "inWishList", !.stale = FALSE]
  <2>1. SendOrWish(e, otherwise) = Outcome(w, {}, {e.dest})
    BY <1>2 DEF SendOrWish
  <2>2. /\ w \in Entry /\ w.id = e.id /\ w.state = "inWishList" /\ w.around = {}
        /\ w.dest = e.dest
    BY DEF Entry, States
  <2>3. e.dest \in Nodes
    BY <1>2 DEF CanWish
  <2> HIDE DEF w
  <2>4. WaitsFor(w) = {e.dest}
    BY <2>2 DEF WaitsFor
  <2>5. QED
    BY <2>1, <2>2, <2>3, <2>4, OutcomeFields DEF GoodOutcome, Early
<1>3. CASE ~(e.dest # NoNode /\ IsConnected(e.dest)) /\ ~(e.dest # NoNode /\ CanWish(e.dest))
  <2>1. SendOrWish(e, otherwise) = Outcome(otherwise, {}, {})
    BY <1>3 DEF SendOrWish
  <2>2. WaitsFor(e) = {}
    BY DEF WaitsFor
  <2>3. CASE otherwise = e
    BY <2>1, <2>2, <2>3, UnchangedIsGood
  <2>4. CASE otherwise = Done(e)
    BY <2>1, <2>4, DoneIsGood DEF Early
  <2>5. QED
    BY <2>3, <2>4
<1>4. QED
  BY <1>1, <1>2, <1>3

\* processRequestForProfilePoll: the node of the profile is told at once only if
\* it is connected, and then it is not wished for as one of those around.
LEMMA PollIsGood ==
    ASSUME NEW e \in Entry, e.state = "processing", e.around = {},
           NEW list \in Seq(Peers), NEW reported
    PROVE  GoodOutcome(e, ProcessPoll(e, list), reported)
<1> DEFINE direct == IF e.dest # NoNode /\ IsConnected(e.dest) THEN {e.dest} ELSE {}
           wish   == IF e.dest # NoNode /\ direct = {} /\ CanWish(e.dest) THEN {e.dest} ELSE {}
           young  == [e EXCEPT !.stale = FALSE]
           rest   == SendRequestToNodesAroundHash(young, list)
           o      == ProcessPoll(e, list)
<1>1. o = Outcome(rest.entry, rest.send \cup direct, rest.wish \cup wish)
  BY DEF ProcessPoll
<1>2. wish \subseteq Nodes
  BY DEF CanWish
<1>3. \A n \in direct : HasAddressOf(n)
  BY DEF IsConnected, HasAddressOf
<1>4. /\ young \in Entry /\ young.id = e.id /\ young.state = "processing"
      /\ young.around = {} /\ WaitsFor(young) = {} /\ WaitsFor(e) = {}
  BY DEF Entry, States, WaitsFor
<1> HIDE DEF direct, wish, young, o
<1>5. /\ GoodOutcome(young, rest, reported)
      /\ \A n \in rest.wish : ~HasAddressOf(n)
      /\ rest.entry.state # "new"
      /\ rest.entry.state = "sentAround" => rest.entry.around = rest.wish
      /\ rest.entry.state \notin Early
  BY <1>4, AroundIsGood DEF Early
<1> HIDE DEF rest
<1>6. /\ o.entry = rest.entry /\ o.send = rest.send \cup direct
      /\ o.wish = rest.wish \cup wish
  BY <1>1, OutcomeFields
<1>7. rest.entry.state = "sentAround" => direct \cap rest.entry.around = {}
  BY <1>3, <1>5
<1>8. QED
  BY <1>2, <1>4, <1>5, <1>6, <1>7 DEF GoodOutcome, o, Early

LEMMA NodeListsAreLists ==
    ASSUME NEW list \in NodeLists
    PROVE  list \in Seq(Peers)
BY RequestAssumption

\* The switch of run(), for an entry that was new.
LEMMA OutcomesAreGood ==
    ASSUME NEW e \in Entry, e.state = "processing", e.around = {}, NEW o \in Outcomes(e)
    PROVE  GoodOutcome(e, o, {})
<1>1. e.state \in Early
  BY DEF Early
<1>2. e.kind \in Kinds
  BY DEF Entry
<1>3. CASE e.kind = "message"
  <2>1. o = ProcessMessage(e)
    BY <1>3 DEF Outcomes
  <2>2. QED
    BY <2>1, SendOrWishIsGood DEF ProcessMessage
<1>4. CASE e.kind \in {"fetchFile", "fetchAd"}
  <2>1. o = ProcessFetch(e)
    BY <1>4 DEF Outcomes
  <2>2. QED
    BY <2>1, SendOrWishIsGood DEF ProcessFetch
<1>5. CASE e.kind = "fetchComment"
  <2>1. PICK list \in NodeLists : o = ProcessFetchComment(e, list)
    BY <1>5 DEF Outcomes
  <2>2. QED
    BY <1>1, <2>1, NodeListsAreLists, AroundIsGood, SendOrWishIsGood DEF ProcessFetchComment
<1>6. CASE e.kind = "poll"
  <2>1. PICK list \in NodeLists : o = ProcessPoll(e, list)
    BY <1>6 DEF Outcomes
  <2>2. QED
    BY <2>1, NodeListsAreLists, PollIsGood
<1>7. CASE e.kind = "ads"
  <2>1. PICK list \in NodeLists, found \in BOOLEAN : o = ProcessAdsClassified(e, list, found)
    BY <1>7 DEF Outcomes
  <2>2. QED
    BY <1>1, <2>1, NodeListsAreLists, AroundIsGood, DoneIsGood DEF ProcessAdsClassified
<1>8. CASE e.kind = "nodesAround"
  <2>1. PICK some \in SUBSET Identified : o = ProcessNodesAround(e, some)
    BY <1>8 DEF Outcomes
  <2>2. QED
    BY <1>1, <2>1, DoneIsGood DEF ProcessNodesAround
<1>9. CASE e.kind = "listing"
  <2>1. o = Outcome(Done(e), {}, {})
    BY <1>9 DEF Outcomes
  <2>2. QED
    BY <1>1, <2>1, DoneIsGood
<1>10. CASE e.kind \in {"publish", "reply"}
  <2>1. PICK found \in BOOLEAN : o = ProcessReply(e, found)
    BY <1>10 DEF Outcomes, ProcessContentPublish
  <2>2. QED
    BY <1>1, <2>1, DoneIsGood DEF ProcessReply
<1>11. QED
  BY <1>2, <1>3, <1>4, <1>5, <1>6, <1>7, <1>8, <1>9, <1>10 DEF Kinds

\* A report, for any entry.
LEMMA ReportIsGood ==
    ASSUME NEW e \in Entry, e.state \in Early => e.around = {},
           NEW event \in StatusEvent, NEW list \in Seq(Peers), NEW found \in BOOLEAN
    PROVE  GoodOutcome(e, OutcomeOfReport(e, event, list, found), {event.peer})
<1> DEFINE n == event.peer
           fresh == [e EXCEPT !.stale = FALSE]
           o == OutcomeOfReport(e, event, list, found)
<1>1. CASE e.dest = n /\ e.state = "inWishList"
  <2>1. \/ \E send : o = Outcome(Sent(e), send, {})
        \/ o = SendRequestToNodesAroundHash(e, list)
    BY <1>1 DEF OutcomeOfReport
  <2>2. QED
    BY <1>1, <2>1, SentIsGood, AroundIsGood DEF Early
<1>2. CASE n \in e.around /\ e.state = "sentAround"
  <2>1. ASSUME NEW d \in Entry, d.id = e.id, d.around = e.around, d.state = "sentAround",
               NEW send \in SUBSET {n}, o = Outcome(NodeReported(d, n), send, {})
        PROVE  GoodOutcome(e, o, {n})
    <3> DEFINE r == NodeReported(d, n)
    <3>1. /\ r \in Entry /\ r.id = e.id /\ r.around = e.around \ {n}
          /\ r.state = IF e.around = {n} THEN "ready" ELSE "sentAround"
      BY <2>1 DEF NodeReported, Entry, States
    <3> HIDE DEF r
    <3>2. o.entry = r /\ o.send = send /\ o.wish = {}
      BY <2>1, OutcomeFields DEF r
    <3>3. WaitsFor(r) \subseteq e.around \ {n} /\ WaitsFor(e) = e.around
      BY <1>2, <3>1 DEF WaitsFor
    <3> HIDE DEF o, n
    <3>4. QED
      BY <1>2, <3>1, <3>2, <3>3 DEF GoodOutcome, Early
  <2>2. /\ fresh \in Entry /\ fresh.id = e.id /\ fresh.around = e.around
        /\ fresh.state = e.state
    BY DEF Entry
  <2>3. \/ o = Outcome(NodeReported(fresh, n), {n}, {})
        \/ o = Outcome(NodeReported(e, n), {}, {})
    BY <1>2 DEF OutcomeOfReport
  <2>4. CASE o = Outcome(NodeReported(fresh, n), {n}, {})
    <3> HIDE DEF fresh
    <3>1. {n} \in SUBSET {n}
      OBVIOUS
    <3>2. QED
      BY <1>2, <2>1, <2>2, <2>4, <3>1
  <2>5. CASE o = Outcome(NodeReported(e, n), {}, {})
    <3>1. {} \in SUBSET {n}
      OBVIOUS
    <3>2. QED
      BY <1>2, <2>1, <2>5, <3>1
  <2>6. QED
    BY <2>3, <2>4, <2>5
<1>3. CASE ~(e.dest = n /\ e.state = "inWishList") /\ ~(n \in e.around /\ e.state = "sentAround")
  <2>1. o = Outcome(e, {}, {})
    BY <1>3 DEF OutcomeOfReport
  <2>2. WaitsFor(e) \cap {n} = {}
    BY <1>3 DEF WaitsFor
  <2>3. QED
    BY <2>1, <2>2, UnchangedIsGood
<1>4. QED
  BY <1>1, <1>2, <1>3

-----------------------------------------------------------------------------
(***************************************************************************)
(* What a step makes of good entries.                                      *)
(***************************************************************************)

\* An entry the step does not touch: no report is lost, and nobody is told of it.
LEMMA EntryStaysGood ==
    ASSUME NEW e \in GoodEntry, accepted \in Nat, accepted' \in Nat, accepted <= accepted',
           \A t \in told' \ told : t[1] # e.id,
           \A n \in WaitsFor(e) \ Dropped : ReportComing(n) => ReportComing(n)'
    PROVE  e \in GoodEntry'
<1>1. e \in Entry /\ e.id \in Nat /\ e.id <= accepted
  BY RequestAssumption DEF GoodEntry, Entry, Ids
<1>2. e.id <= accepted'
  BY <1>1
<1>3. e.state \in Early => e.around = {} /\ \A t \in told' : t[1] # e.id
  BY DEF GoodEntry
<1>4. e.state = "sentAround" => \A n \in e.around : <<e.id, n>> \notin told'
  <2>1. \A n : <<e.id, n>>[1] = e.id
    OBVIOUS
  <2>2. QED
    BY <2>1 DEF GoodEntry
<1>5. \A n \in WaitsFor(e) \ Dropped : ReportComing(n)'
  BY DEF GoodEntry
<1>6. QED
  BY <1>1, <1>2, <1>3, <1>4, <1>5 DEF GoodEntry

\* Nobody is told twice.
LEMMA NotToldBefore ==
    ASSUME NEW e \in GoodEntry, NEW o, NEW reported, GoodOutcome(e, o, reported),
           NEW n \in o.send
    PROVE  <<e.id, n>> \notin told /\ e.state # "ready"
<1>1. e.state \in Early \/ (e.state = "sentAround" /\ n \in e.around)
  BY DEF GoodOutcome
<1>2. CASE e.state \in Early
  <2>1. \A t \in told : t[1] # e.id
    BY <1>2 DEF GoodEntry
  <2>2. <<e.id, n>>[1] = e.id
    OBVIOUS
  <2>3. QED
    BY <1>2, <2>1, <2>2 DEF Early
<1>3. CASE e.state = "sentAround" /\ n \in e.around
  BY <1>3 DEF GoodEntry
<1>4. QED
  BY <1>1, <1>2, <1>3

\* An entry the step handles.
LEMMA OutcomeIsGood ==
    ASSUME NEW e \in GoodEntry, NEW o, NEW reported, GoodOutcome(e, o, reported),
           accepted \in Nat, accepted' \in Nat, accepted <= accepted',
           \A t \in told' \ told : t[1] = e.id => t[2] \in o.send,
           \A n \in o.wish : n \in wishList',
           \A n : n \notin Dropped \cup reported /\ ReportComing(n) => ReportComing(n)'
    PROVE  o.entry \in GoodEntry'
<1> DEFINE f == o.entry
<1>1. f \in Entry /\ f.id = e.id /\ e.id \in Nat /\ e.id <= accepted /\ e \in Entry
  BY RequestAssumption DEF GoodEntry, GoodOutcome, Entry, Ids
<1>2. f.id <= accepted'
  BY <1>1
<1>3. \A n : <<e.id, n>>[1] = e.id /\ <<e.id, n>>[2] = n
  OBVIOUS
<1>4. ASSUME f.state \in Early
      PROVE  f.around = {} /\ \A t \in told' : t[1] # f.id
  <2>1. e.state \in Early /\ o.send = {} /\ f.around = {}
    BY <1>4 DEF GoodOutcome
  <2>2. QED
    BY <1>1, <2>1 DEF GoodEntry
<1>5. ASSUME f.state = "sentAround", NEW n \in f.around
      PROVE  <<f.id, n>> \notin told'
  <2>1. /\ n \notin o.send
        /\ e.state \in Early \/ (e.state = "sentAround" /\ n \in e.around)
    BY <1>5 DEF GoodOutcome
  <2>2. <<e.id, n>> \notin told
    BY <1>3, <2>1 DEF GoodEntry
  <2>3. QED
    BY <1>1, <1>3, <2>1, <2>2
<1>6. ASSUME NEW n \in WaitsFor(f) \ Dropped
      PROVE  ReportComing(n)'
  <2>1. n \in o.wish \/ n \in WaitsFor(e) \ reported
    BY <1>6 DEF GoodOutcome
  <2>2. CASE n \in o.wish
    BY <2>2 DEF ReportComing
  <2>3. CASE n \in WaitsFor(e) \ reported
    BY <1>6, <2>3 DEF GoodEntry
  <2>4. QED
    BY <2>1, <2>2, <2>3
<1> HIDE DEF f
<1>7. f \in GoodEntry'
  BY <1>1, <1>2, <1>4, <1>5, <1>6 DEF GoodEntry
<1>8. QED
  BY <1>7 DEF f

\* A request that is queued now.
LEMMA NewEntryIsGood ==
    ASSUME NEW id \in Nat, accepted \in Nat, accepted < id, id <= MaxRequests, id <= accepted',
           NEW kind \in Kinds, NEW dest \in Nodes \cup {NoNode}, NEW item \in Items,
           \A t \in told' : t[1] < id
    PROVE  /\ NewEntry(id, kind, dest, item) \in GoodEntry'
           /\ NewEntry(id, kind, dest, item).id = id
<1> DEFINE e == NewEntry(id, kind, dest, item)
<1>1. /\ e \in Entry /\ e.id = id /\ e.state = "new" /\ e.around = {}
  BY DEF NewEntry, Entry, States, Ids
<1> HIDE DEF e
<1>2. WaitsFor(e) = {}
  BY <1>1 DEF WaitsFor
<1>3. \A t \in told' : t[1] # e.id
  BY <1>1
<1>4. e \in GoodEntry'
  BY <1>1, <1>2, <1>3 DEF GoodEntry, Early
<1>5. QED
  BY <1>1, <1>4 DEF e

LEMMA InitIInv == Init => IInv
<1>1. SUFFICES ASSUME Init PROVE IInv
  OBVIOUS
<1>2. HostsTypeOK
  BY <1>1, HostsInitTypeOK DEF Init
<1>3. queue = <<>> /\ queue \in Seq(GoodEntry) /\ Len(queue) = 0
  BY <1>1, EmptySeq DEF Init
<1>4. DistinctIds(queue)
  BY <1>3 DEF DistinctIds
<1>5. QED
  BY <1>1, <1>2, <1>3, <1>4, RequestAssumption DEF Init, IInv

-----------------------------------------------------------------------------
(***************************************************************************)
(* The steps of Next.                                                      *)
(***************************************************************************)

\* A step that tells nobody anything and loses no report leaves all entries good.
LEMMA AllStayGood ==
    ASSUME IInv, accepted' \in Nat, accepted <= accepted', told' = told,
           \A n : n \notin Dropped /\ ReportComing(n) => ReportComing(n)'
    PROVE  GoodEntry \subseteq GoodEntry' /\ queue \in Seq(GoodEntry')
<1>1. ASSUME NEW e \in GoodEntry PROVE e \in GoodEntry'
  BY <1>1, EntryStaysGood, RequestAssumption DEF IInv
<1>2. QED
  BY <1>1, SeqMonotonic DEF IInv

LEMMA SameReports ==
    ASSUME UNCHANGED hostVars
    PROVE  /\ \A n : ReportComing(n) => ReportComing(n)'
           /\ HostsTypeOK => HostsTypeOK'
BY DEF hostVars, ReportComing, Alive, HostsTypeOK

\* A queue that is part of the old one, told nothing new.
LEMMA ThinnedQueue ==
    ASSUME IInv, HostsTypeOK', NEW K, queue' = Filter(queue, K),
           UNCHANGED <<walkVars, historyVars>>,
           \A n : n \notin Dropped /\ ReportComing(n) => ReportComing(n)'
    PROVE  IInv'
<1>1. UNCHANGED <<pc, cursor, late, accepted, told, toldAgain>> /\ accepted \in Nat
  BY RequestAssumption DEF walkVars, historyVars, IInv
<1>2. queue \in Seq(GoodEntry')
  BY <1>1, AllStayGood
<1>3. queue' \in Seq(GoodEntry') /\ Thins(queue', queue)
  BY <1>2, FilterProperties, FilterThins
<1>4. queue \in Seq(Entry) /\ queue' \in Seq(Entry)
  BY <1>2, <1>3, SeqMonotonic, GoodEntries DEF GoodEntry
<1>5. DistinctIds(queue') /\ (pc = "walk" => NewOnesAreLate(queue', cursor, late))
  BY <1>3, <1>4, ThinningKeeps DEF IInv
<1>6. QED
  BY <1>1, <1>3, <1>5 DEF IInv

LEMMA AddPreserves ==
    ASSUME IInv, NEW o \in Offers, AddNetworkRequest(o)
    PROVE  IInv'
<1> DEFINE e == NewEntry(accepted + 1, o.kind, o.dest, o.item)
<1>1. /\ accepted \in Nat /\ accepted' = accepted + 1 /\ accepted + 1 \in Ids
      /\ accepted' \in 0 .. MaxRequests
      /\ queue' = Append(queue, e) /\ late' = late \cup {accepted + 1}
      /\ UNCHANGED <<pc, cursor, told, toldAgain, hostVars>>
  BY RequestAssumption DEF AddNetworkRequest, walkVars, IInv, Ids
<1>2. /\ o.kind \in Kinds /\ o.dest \in Nodes \cup {NoNode} /\ o.item \in Items
  BY RequestAssumption DEF Offer
<1>3. \A t \in told' : t[1] < accepted + 1
  BY <1>1 DEF IInv
<1>4. e \in GoodEntry' /\ e.id = accepted + 1
  <2>1. /\ accepted + 1 \in Nat /\ accepted < accepted + 1
        /\ accepted + 1 <= MaxRequests /\ accepted + 1 <= accepted'
    BY <1>1, RequestAssumption DEF Ids
  <2>2. QED
    BY <1>1, <1>2, <1>3, <2>1, NewEntryIsGood, Zenon
<1> HIDE DEF e
<1>5. queue \in Seq(GoodEntry')
  BY <1>1, AllStayGood, SameReports
<1>6. /\ queue' \in Seq(GoodEntry') /\ Len(queue') = Len(queue) + 1
      /\ \A i \in 1 .. Len(queue) : queue'[i] = queue[i]
      /\ queue'[Len(queue) + 1] = e
  BY <1>1, <1>4, <1>5, AppendProperties
<1>7. Len(queue) \in Nat /\ \A i \in 1 .. Len(queue) : queue[i].id <= accepted /\ queue[i].id \in Nat
  <2>1. \A x \in GoodEntry : x.id <= accepted /\ x.id \in Nat
    BY RequestAssumption DEF GoodEntry, Entry, Ids
  <2>2. QED
    BY <2>1, ElementOfSeq, LenProperties DEF IInv
<1>8. DistinctIds(queue')
  <2>1. DistinctIds(queue)
    BY DEF IInv
  <2>2. ASSUME NEW i \in 1 .. Len(queue'), NEW j \in 1 .. Len(queue'),
               queue'[i].id = queue'[j].id
        PROVE  i = j
    <3>1. i \in 1 .. Len(queue) \/ i = Len(queue) + 1
      BY <1>6, <1>7
    <3>2. j \in 1 .. Len(queue) \/ j = Len(queue) + 1
      BY <1>6, <1>7
    <3>3. QED
      BY <1>1, <1>4, <1>6, <1>7, <2>1, <2>2, <3>1, <3>2 DEF DistinctIds
  <2>3. QED
    BY <2>2 DEF DistinctIds
<1>9. pc' = "walk" => NewOnesAreLate(queue', cursor', late')
  BY <1>1, <1>4, <1>6, <1>7 DEF IInv, NewOnesAreLate
<1>10. HostsTypeOK'
  BY <1>1, SameReports DEF IInv
<1>11. told' \subseteq (1 .. accepted') \X Nodes /\ late' \subseteq Ids
  BY <1>1 DEF IInv, Ids
<1>12. QED
  BY <1>1, <1>6, <1>8, <1>9, <1>10, <1>11 DEF IInv

\* A queue of the same length whose entries have kept their ids.
LEMMA SameIds ==
    ASSUME IInv, Len(queue') = Len(queue),
           \A i \in 1 .. Len(queue) :
              /\ queue'[i].id = queue[i].id
              /\ queue'[i].state = "new" => queue[i].state = "new"
    PROVE  /\ DistinctIds(queue')
           /\ \A c, recent : NewOnesAreLate(queue, c, recent) => NewOnesAreLate(queue', c, recent)
BY DEF IInv, DistinctIds, NewOnesAreLate

LEMMA AgePreserves ==
    ASSUME IInv, NEW i \in DOMAIN queue, Age(i)
    PROVE  IInv'
<1> DEFINE e == [queue[i] EXCEPT !.stale = TRUE]
<1>1. /\ UNCHANGED <<pc, cursor, late, accepted, told, toldAgain, hostVars>>
      /\ queue' = [queue EXCEPT ![i] = e]
  BY DEF Age, walkVars, historyVars
<1>2. queue \in Seq(GoodEntry') /\ GoodEntry \subseteq GoodEntry'
  BY <1>1, AllStayGood, SameReports, RequestAssumption DEF IInv
<1>3. i \in 1 .. Len(queue) /\ queue[i] \in GoodEntry
  BY EntryOfQueue
<1>4. e \in GoodEntry
  <2>1. /\ e \in Entry /\ e.id = queue[i].id /\ e.state = queue[i].state
        /\ e.around = queue[i].around /\ e.dest = queue[i].dest
    BY <1>3 DEF GoodEntry, Entry
  <2> HIDE DEF e
  <2>2. WaitsFor(e) = WaitsFor(queue[i])
    BY <2>1 DEF WaitsFor
  <2>3. QED
    BY <1>3, <2>1, <2>2 DEF GoodEntry
<1>5. e.id = queue[i].id /\ e.state = queue[i].state
  BY <1>3 DEF GoodEntry, Entry
<1> HIDE DEF e
<1>6. /\ queue' \in Seq(GoodEntry') /\ Len(queue') = Len(queue)
      /\ \A j \in 1 .. Len(queue) : queue'[j] = IF j = i THEN e ELSE queue[j]
  BY <1>1, <1>2, <1>3, <1>4, ExceptSeq
<1>7. DistinctIds(queue') /\ (pc = "walk" => NewOnesAreLate(queue', cursor, late))
  BY <1>5, <1>6, SameIds DEF IInv
<1>8. QED
  BY <1>1, <1>6, <1>7, SameReports DEF IInv

LEMMA NotifyPreserves ==
    ASSUME IInv, NEW kind, NEW item, NotifyOfContentReceived(kind, item)
    PROVE  IInv'
<1>1. HostsTypeOK' /\ \A n : ReportComing(n) => ReportComing(n)'
  BY SameReports DEF NotifyOfContentReceived, IInv
<1>2. QED
  BY <1>1, ThinnedQueue DEF NotifyOfContentReceived

LEMMA RemovePreserves ==
    ASSUME IInv, NEW c \in ConnIds, RemoveOpenNetworkConnection(c)
    PROVE  IInv'
<1>1. NetworkStep /\ HostsTypeOK
  BY DEF NetworkStep, RemoveOpenNetworkConnection, IInv
<1>2. HostsTypeOK' /\ \A n : n \notin Dropped /\ ReportComing(n) => ReportComing(n)'
  BY <1>1, NetworkStepTypeOK, ReportStaysComing
<1>3. CASE c \in Identified
  BY <1>2, <1>3, ThinnedQueue DEF RemoveOpenNetworkConnection
<1>4. CASE c \notin Identified
  <2>1. UNCHANGED <<queue, pc, cursor, late, accepted, told, toldAgain>> /\ accepted \in Nat
    BY <1>4, RequestAssumption DEF RemoveOpenNetworkConnection, walkVars, historyVars, IInv
  <2>2. queue' \in Seq(GoodEntry')
    BY <1>2, <2>1, AllStayGood
  <2>3. QED
    BY <1>2, <2>1, <2>2 DEF IInv
<1>5. QED
  BY <1>3, <1>4

LEMMA OtherThreadsPreserve ==
    ASSUME IInv, OtherThreads
    PROVE  IInv'
<1>1. NetworkStep /\ HostsTypeOK
  BY DEF NetworkStep, OtherThreads, IInv
<1>2. HostsTypeOK' /\ \A n : n \notin Dropped /\ ReportComing(n) => ReportComing(n)'
  BY <1>1, NetworkStepTypeOK, ReportStaysComing
<1>3. UNCHANGED <<queue, pc, cursor, late, accepted, told, toldAgain>> /\ accepted \in Nat
  BY RequestAssumption DEF OtherThreads, walkVars, historyVars, IInv
<1>4. queue' \in Seq(GoodEntry')
  BY <1>2, <1>3, AllStayGood
<1>5. QED
  BY <1>2, <1>3, <1>4 DEF IInv

-----------------------------------------------------------------------------
\* What addItemToSend leaves of told: pairs of a pending request and a node that
\* can be reached.
LEMMA DoSendProperties ==
    ASSUME NEW bytes, DoSend(bytes), \A b \in bytes : b \notin told
    PROVE  /\ told \subseteq told'
           /\ \A t \in told' \ told : t \in bytes /\ t[2] \in Nodes /\ Reachable(t[2])
           /\ toldAgain' = toldAgain
BY DEF DoSend

\* The bytes of one request.
LEMMA BytesOfOne ==
    ASSUME NEW id, NEW send, NEW b \in {id} \X send
    PROVE  b = <<id, b[2]>> /\ b[1] = id /\ b[2] \in send
OBVIOUS

\* The queue with the entry at the cursor changed to e, and requests added that
\* e is turned into: in both cases, e stays or is removed.
LEMMA RevisedQueue ==
    ASSUME IInv, pc = "walk", cursor \in DOMAIN queue, NEW e \in GoodEntry',
           e.id = queue[cursor].id, e.state # "new",
           \A i \in 1 .. Len(queue) : i # cursor => queue[i] \in GoodEntry',
           NEW new \in Seq(GoodEntry'),
           \A k \in 1 .. Len(new) : new[k].id = accepted + k /\ new[k].id \in late',
           late \subseteq late', accepted \in Nat
    PROVE  /\ Revised(cursor, e, new) \in Seq(GoodEntry')
           /\ DistinctIds(Revised(cursor, e, new))
           /\ NewOnesAreLate(Revised(cursor, e, new), cursor - 1, late')
           /\ ToSet(Revised(cursor, e, new)) \subseteq ToSet(queue) \cup {e} \cup ToSet(new)
<1> DEFINE s == [queue EXCEPT ![cursor] = e]
           m == s \o new
           q == Revised(cursor, e, new)
<1>1. /\ cursor \in 1 .. Len(queue) /\ Len(queue) \in Nat
      /\ \A i \in 1 .. Len(queue) : queue[i].id \in Nat /\ queue[i].id <= accepted
  <2>1. \A x \in GoodEntry : x.id <= accepted /\ x.id \in Nat
    BY RequestAssumption DEF GoodEntry, Entry, Ids
  <2>2. QED
    BY <2>1, EntryOfQueue, ElementOfSeq DEF IInv
<1>2. /\ Len(s) = Len(queue) /\ s \in Seq(GoodEntry')
      /\ \A i \in 1 .. Len(queue) : s[i] = IF i = cursor THEN e ELSE queue[i]
  <2>1. queue \in [1 .. Len(queue) -> GoodEntry]
    BY LenProperties DEF IInv
  <2>2. /\ DOMAIN s = 1 .. Len(queue)
        /\ \A i \in 1 .. Len(queue) : s[i] = IF i = cursor THEN e ELSE queue[i]
    BY <1>1, <2>1
  <2>3. s \in [1 .. Len(queue) -> GoodEntry']
    BY <1>1, <2>1, <2>2
  <2> HIDE DEF s
  <2>4. s \in Seq(GoodEntry') /\ Len(s) = Len(queue)
    <3> DEFINE n == Len(queue)
    <3>1. n \in Nat /\ DOMAIN s = 1 .. n /\ s \in [1 .. n -> GoodEntry']
      BY <1>1, <2>2, <2>3, LenProperties
    <3> HIDE DEF n
    <3>2. s \in Seq(GoodEntry') /\ Len(s) = n
      BY <3>1
    <3>3. QED
      BY <3>2 DEF n
  <2>5. QED
    BY <2>2, <2>4
<1> HIDE DEF s
<1>3. /\ m \in Seq(GoodEntry') /\ Len(m) = Len(queue) + Len(new) /\ Len(new) \in Nat
      /\ \A i \in 1 .. (Len(queue) + Len(new)) :
            m[i] = IF i <= Len(queue) THEN s[i] ELSE new[i - Len(queue)]
  <2>1. /\ m \in Seq(GoodEntry') /\ Len(m) = Len(s) + Len(new)
        /\ \A i \in 1 .. (Len(s) + Len(new)) :
              m[i] = IF i <= Len(s) THEN s[i] ELSE new[i - Len(s)]
    <3>1. s \in Seq(GoodEntry')
      BY <1>2
    <3>2. QED
      BY <3>1, ConcatProperties, Zenon
  <2>2. Len(new) \in Nat
    BY LenProperties
  <2>3. QED
    BY <1>2, <2>1, <2>2
<1> HIDE DEF m
<1>4. \A i \in 1 .. Len(m) : \/ i \in 1 .. Len(queue) /\ m[i] = s[i] /\ m[i].id = queue[i].id
                             \/ \E k \in 1 .. Len(new) : i = Len(queue) + k /\ m[i] = new[k]
  <2>1. SUFFICES ASSUME NEW i \in 1 .. Len(m)
                 PROVE  \/ i \in 1 .. Len(queue) /\ m[i] = s[i] /\ m[i].id = queue[i].id
                        \/ \E k \in 1 .. Len(new) : i = Len(queue) + k /\ m[i] = new[k]
    OBVIOUS
  <2>2. CASE i <= Len(queue)
    BY <1>1, <1>2, <1>3, <2>2
  <2>3. CASE ~(i <= Len(queue))
    <3>1. i - Len(queue) \in 1 .. Len(new) /\ i = Len(queue) + (i - Len(queue))
      BY <1>1, <1>3, <2>3
    <3>2. QED
      BY <1>3, <2>3, <3>1
  <2>4. QED
    BY <2>2, <2>3
<1>5. DistinctIds(m)
  <2>1. ASSUME NEW i \in 1 .. Len(m), NEW j \in 1 .. Len(m), m[i].id = m[j].id
        PROVE  i = j
    <3>1. CASE i \in 1 .. Len(queue) /\ m[i].id = queue[i].id
      <4>1. j \in 1 .. Len(queue) /\ m[j].id = queue[j].id
        <5>1. ASSUME NEW k \in 1 .. Len(new), m[j] = new[k] PROVE FALSE
          <6>1. m[i].id <= accepted /\ m[i].id \in Nat
            BY <1>1, <3>1
          <6>2. m[j].id = accepted + k /\ k \in Nat /\ k >= 1
            BY <1>3, <5>1
          <6>3. QED
            BY <2>1, <6>1, <6>2
        <5>2. QED
          BY <1>4, <5>1
      <4>2. QED
        BY <2>1, <3>1, <4>1 DEF IInv, DistinctIds
    <3>2. ASSUME NEW k \in 1 .. Len(new), i = Len(queue) + k, m[i] = new[k]
          PROVE  i = j
      <4>1. ~(j \in 1 .. Len(queue) /\ m[j].id = queue[j].id)
        BY <1>1, <1>3, <2>1, <3>2
      <4>2. PICK l \in 1 .. Len(new) : j = Len(queue) + l /\ m[j] = new[l]
        BY <1>4, <4>1
      <4>3. accepted + k = accepted + l /\ k \in Nat /\ l \in Nat
        BY <1>3, <2>1, <3>2, <4>2
      <4>4. QED
        BY <3>2, <4>2, <4>3
    <3>3. QED
      BY <1>4, <3>1, <3>2
  <2>2. QED
    BY <2>1 DEF DistinctIds
<1>6. NewOnesAreLate(m, cursor - 1, late')
  <2>1. ASSUME NEW i \in 1 .. Len(m), i > cursor - 1, m[i].state = "new"
        PROVE  m[i].id \in late'
    <3>1. CASE i \in 1 .. Len(queue) /\ m[i] = s[i]
      <4>1. i # cursor
        BY <1>2, <2>1, <3>1
      <4>2. i > cursor /\ m[i] = queue[i]
        BY <1>1, <1>2, <2>1, <3>1, <4>1
      <4>3. QED
        BY <2>1, <3>1, <4>2 DEF IInv, NewOnesAreLate
    <3>2. ASSUME NEW k \in 1 .. Len(new), m[i] = new[k]
          PROVE  m[i].id \in late'
      BY <3>2
    <3>3. QED
      BY <1>4, <3>1, <3>2
  <2>2. QED
    BY <2>1 DEF NewOnesAreLate
<1>6a. ToSet(m) \subseteq ToSet(queue) \cup {e} \cup ToSet(new)
  <2>1. ASSUME NEW i \in 1 .. Len(m) PROVE m[i] \in ToSet(queue) \cup {e} \cup ToSet(new)
    <3>1. DOMAIN queue = 1 .. Len(queue) /\ DOMAIN new = 1 .. Len(new)
      BY LenProperties DEF IInv
    <3>2. QED
      BY <1>2, <1>4, <3>1 DEF ToSet
  <2>2. DOMAIN m = 1 .. Len(m)
    BY <1>3, LenProperties
  <2>3. QED
    BY <2>1, <2>2 DEF ToSet
<1>7. CASE Removable(e)
  <2>1. q = RemoveAt(m, cursor)
    BY <1>7 DEF Revised, m, s
  <2>2. cursor \in 1 .. Len(m)
    BY <1>1, <1>3
  <2>3. q \in Seq(GoodEntry') /\ Thins(q, m)
    BY <1>3, <2>1, <2>2, RemoveAtProperties, RemoveAtThins
  <2>4. m \in Seq(Entry) /\ q \in Seq(Entry)
    BY <1>3, <2>3, SeqMonotonic DEF GoodEntry
  <2>5. cursor - 1 \in Nat
    BY <1>1
  <2>6. ToSet(q) \subseteq ToSet(m)
    BY <2>3, <2>4, ThinsMembers
  <2>7. QED
    BY <1>5, <1>6, <1>6a, <2>3, <2>4, <2>5, <2>6, ThinningKeeps
<1>8. CASE ~Removable(e)
  <2>1. q = m
    BY <1>8 DEF Revised, m, s
  <2>2. QED
    BY <1>3, <1>5, <1>6, <1>6a, <2>1
<1>9. QED
  BY <1>7, <1>8

-----------------------------------------------------------------------------
\* A new entry that is taken for processing.
LEMMA TakenEntry ==
    ASSUME IInv, NEW i \in DOMAIN queue, queue[i].state = "new",
           NEW e, e = [queue[i] EXCEPT !.state = "processing"]
    PROVE  /\ e \in GoodEntry /\ e \in Entry
           /\ e.state = "processing" /\ e.around = {}
           /\ e.id = queue[i].id /\ e.id \in 1 .. accepted
           /\ e.dest \in Nodes \cup {NoNode} /\ e.item \in Items
<1>1. queue[i] \in GoodEntry /\ queue[i] \in Entry
  BY EntryOfQueue
<1>2. queue[i].around = {} /\ \A t \in told : t[1] # queue[i].id
  BY <1>1 DEF GoodEntry, Early
<1>3. /\ e \in Entry /\ e.id = queue[i].id /\ e.state = "processing"
      /\ e.around = queue[i].around
  BY <1>1 DEF Entry, States
<1>4. e.id \in 1 .. accepted /\ accepted \in Nat
  BY <1>1, <1>3, RequestAssumption DEF GoodEntry, Entry, Ids, IInv
<1>5. WaitsFor(e) = {}
  BY <1>3 DEF WaitsFor
<1>6. e \in GoodEntry
  <2>1. e.id <= accepted
    BY <1>4
  <2>2. e.state # "sentAround"
    BY <1>3
  <2>3. e.around = {} /\ \A t \in told : t[1] # e.id
    BY <1>2, <1>3
  <2>4. \A n \in WaitsFor(e) \ Dropped : ReportComing(n)
    BY <1>5
  <2>5. QED
    BY <1>3, <2>1, <2>2, <2>3, <2>4, Zenon DEF GoodEntry
<1>7. QED
  BY <1>2, <1>3, <1>4, <1>6 DEF Entry

\* The requests a listing is turned into.
LEMMA ArticleEntries ==
    ASSUME NEW e, e.dest \in Nodes \cup {NoNode}, e.item \in Items,
           NEW count \in Nat, accepted \in Nat, accepted' = accepted + count,
           accepted' <= MaxRequests, \A t \in told' : t[1] \in Nat /\ t[1] <= accepted
    PROVE  LET new == EntriesFor(e, count)
           IN /\ new \in Seq(GoodEntry') /\ Len(new) = count
              /\ \A k \in 1 .. count : new[k].id = accepted + k
<1> DEFINE new == EntriesFor(e, count)
<1>1. /\ DOMAIN new = 1 .. count
      /\ \A k \in 1 .. count : new[k] = NewEntry(accepted + k, "reply", e.dest, e.item)
  BY DEF EntriesFor
<1> HIDE DEF new
<1>2. ASSUME NEW k \in 1 .. count
      PROVE  new[k] \in GoodEntry' /\ new[k].id = accepted + k
  <2>1. /\ accepted + k \in Nat /\ accepted < accepted + k
        /\ accepted + k <= MaxRequests /\ accepted + k <= accepted'
    BY RequestAssumption
  <2>2. \A t \in told' : t[1] < accepted + k
    BY <2>1
  <2>3. "reply" \in Kinds
    BY DEF Kinds
  <2>4. /\ NewEntry(accepted + k, "reply", e.dest, e.item) \in GoodEntry'
        /\ NewEntry(accepted + k, "reply", e.dest, e.item).id = accepted + k
    <3> DEFINE id == accepted + k
    <3>1. /\ id \in Nat /\ accepted < id /\ id <= MaxRequests /\ id <= accepted'
          /\ \A t \in told' : t[1] < id
      BY <2>1, <2>2
    <3> HIDE DEF id
    <3>2. NewEntry(id, "reply", e.dest, e.item) \in GoodEntry' /\ NewEntry(id, "reply", e.dest, e.item).id = id
      BY <2>3, <3>1, NewEntryIsGood
    <3>3. QED
      BY <3>2 DEF id
  <2>5. QED
    BY <1>1, <2>4
<1>3. new \in Seq(GoodEntry') /\ Len(new) = count
  BY <1>1, <1>2 DEF EntriesFor, new
<1>4. QED
  BY <1>2, <1>3 DEF new

\* What a step of the queue does for those who put requests into it: only what is
\* pending is told, to nodes that can be reached, and what has ended stays ended.
Unfinished(q) == {x.id : x \in {y \in ToSet(q) : y.state # "ready"}}

Continues == Unfinished(queue') \cap (1 .. accepted) \subseteq Unfinished(queue)

Serves ==
    /\ accepted <= accepted'
    /\ connections' = connections
    /\ told \subseteq told'
    /\ \A t \in told' \ told : t[1] \in Pending /\ t[2] \in Nodes /\ Reachable(t[2])
    /\ Continues

LEMMA PendingIsUnfinished ==
    /\ Pending = Unfinished(queue)
    /\ Pending' = Unfinished(queue')
BY DEF Pending, Unfinished, ToSet

LEMMA HandleNewPreserves ==
    ASSUME IInv, HandleNewEntry
    PROVE  IInv' /\ Serves
<1> DEFINE e == [queue[cursor] EXCEPT !.state = "processing"]
<1>1. /\ pc = "walk" /\ cursor \in DOMAIN queue /\ queue[cursor].state = "new"
      /\ cursor' = cursor - 1 /\ UNCHANGED <<pc, connections, statusEvents>>
  BY DEF HandleNewEntry
<1>2. PICK o \in Outcomes(e), count \in Articles(e) :
         /\ accepted + count <= MaxRequests
         /\ queue' = Revised(cursor, o.entry, EntriesFor(e, count))
         /\ accepted' = accepted + count
         /\ late' = late \cup {accepted + k : k \in 1 .. count}
         /\ DoSend({e.id} \X o.send)
         /\ wishList' = wishList \cup o.wish
  BY DEF HandleNewEntry
<1>3. /\ e \in GoodEntry /\ e \in Entry
      /\ e.state = "processing" /\ e.around = {}
      /\ e.id = queue[cursor].id /\ e.id \in 1 .. accepted
      /\ e.dest \in Nodes \cup {NoNode} /\ e.item \in Items
  BY <1>1, TakenEntry
<1> HIDE DEF e
<1>4. GoodOutcome(e, o, {})
  BY <1>3, OutcomesAreGood
<1>5. /\ count \in Nat /\ accepted \in Nat /\ accepted' \in 0 .. MaxRequests
      /\ accepted <= accepted'
  <2>1. count \in Nat
    BY RequestAssumption DEF Articles
  <2>2. QED
    BY <1>2, <2>1, RequestAssumption DEF IInv
<1>6. /\ told \subseteq told' /\ toldAgain' = toldAgain
      /\ \A t \in told' \ told : /\ t = <<e.id, t[2]>> /\ t[1] = e.id /\ t[2] \in o.send
                                /\ t[2] \in Nodes /\ Reachable(t[2])
  <2>1. \A b \in {e.id} \X o.send : b = <<e.id, b[2]>> /\ b[1] = e.id /\ b[2] \in o.send
    BY BytesOfOne
  <2>2. \A b \in {e.id} \X o.send : b \notin told
    BY <1>3, <1>4, <2>1, NotToldBefore
  <2>3. QED
    BY <1>2, <2>1, <2>2, DoSendProperties
<1>7. \A n : ReportComing(n) => ReportComing(n)'
  BY <1>1, <1>2, WishesAdded
<1>8. HostsTypeOK'
  <2>1. o.wish \subseteq Nodes
    BY <1>4 DEF GoodOutcome
  <2>2. QED
    BY <1>1, <1>2, <2>1 DEF IInv, HostsTypeOK
<1>9. o.entry \in GoodEntry'
  BY <1>2, <1>3, <1>4, <1>5, <1>6, <1>7, OutcomeIsGood
<1>10. ASSUME NEW i \in 1 .. Len(queue), i # cursor
       PROVE  queue[i] \in GoodEntry'
  <2>1. i \in DOMAIN queue /\ queue[i] \in GoodEntry /\ cursor \in 1 .. Len(queue)
    BY <1>1, EntryOfQueue, ElementOfSeq, LenProperties DEF IInv
  <2>2. queue[i].id # e.id
    BY <1>3, <1>10, <2>1 DEF IInv, DistinctIds
  <2>3. \A t \in told' \ told : t[1] # queue[i].id
    BY <1>6, <2>2
  <2>4. QED
    BY <1>5, <1>7, <2>1, <2>3, EntryStaysGood, RequestAssumption
<1>11. told \subseteq (1 .. accepted) \X Nodes /\ told' \subseteq (1 .. accepted) \X Nodes
  BY <1>3, <1>6 DEF IInv
<1>12. /\ EntriesFor(e, count) \in Seq(GoodEntry') /\ Len(EntriesFor(e, count)) = count
       /\ \A k \in 1 .. count : EntriesFor(e, count)[k].id = accepted + k
  <2>1. \A t \in told' : t[1] \in Nat /\ t[1] <= accepted
    BY <1>5, <1>11
  <2>2. QED
    BY <1>2, <1>3, <1>5, <2>1, ArticleEntries
<1> DEFINE new == EntriesFor(e, count)
<1> HIDE DEF new
<1>13. /\ queue' \in Seq(GoodEntry') /\ DistinctIds(queue')
       /\ NewOnesAreLate(queue', cursor - 1, late')
       /\ ToSet(queue') \subseteq ToSet(queue) \cup {o.entry} \cup ToSet(new)
  <2>1. new \in Seq(GoodEntry') /\ Len(new) = count
    BY <1>12 DEF new
  <2>2. \A k \in 1 .. Len(new) : new[k].id = accepted + k /\ new[k].id \in late'
    BY <1>2, <1>12 DEF new
  <2>3. o.entry.id = queue[cursor].id /\ o.entry.state # "new"
    BY <1>3, <1>4 DEF GoodOutcome
  <2>4. queue' = Revised(cursor, o.entry, new) /\ late \subseteq late'
    BY <1>2 DEF new
  <2>5. QED
    BY <1>1, <1>5, <1>9, <1>10, <2>1, <2>2, <2>3, <2>4, RevisedQueue
<1>14. late' \subseteq Ids
  <2>1. ASSUME NEW k \in 1 .. count PROVE accepted + k \in Ids
    BY <1>2, <1>5, RequestAssumption DEF Ids
  <2>2. late \subseteq Ids
    BY DEF IInv
  <2>3. QED
    BY <1>2, <2>1, <2>2
<1>15. told' \subseteq (1 .. accepted') \X Nodes
  <2>1. accepted' \in Nat /\ (1 .. accepted) \subseteq (1 .. accepted')
    <3>1. accepted' = accepted + count
      BY <1>2
    <3>2. QED
      BY <1>5, <3>1
  <2>2. QED
    BY <1>11, <2>1
<1>16. cursor' \in Nat
  BY <1>1, EntryOfQueue
<1>17. Continues
  <2>1. \A x \in ToSet(new) : x.id \notin 1 .. accepted
    <3>1. DOMAIN new = 1 .. count
      BY <1>12, LenProperties DEF new
    <3>2. \A k \in 1 .. count : new[k].id = accepted + k
      BY <1>12 DEF new
    <3>3. QED
      BY <1>5, <3>1, <3>2 DEF ToSet
  <2>2. o.entry.id \in Unfinished(queue)
    BY <1>1, <1>3, <1>4 DEF GoodOutcome, Unfinished, ToSet
  <2>3. QED
    BY <1>13, <2>1, <2>2 DEF Continues, Unfinished
<1>18. Serves
  BY <1>1, <1>3, <1>5, <1>6, <1>17 DEF Serves, Pending
<1>19. QED
  BY <1>1, <1>5, <1>6, <1>8, <1>13, <1>14, <1>15, <1>16, <1>18 DEF IInv

\* The rest of run().
LEMMA HandleOldPreserves ==
    ASSUME IInv, HandleOldEntry
    PROVE  IInv' /\ ToSet(queue') \subseteq ToSet(queue)
<1>1. /\ pc = "walk" /\ cursor \in DOMAIN queue /\ queue[cursor].state # "new"
      /\ queue' = Revised(cursor, queue[cursor], <<>>) /\ cursor' = cursor - 1
      /\ UNCHANGED <<pc, late, accepted, told, toldAgain, hostVars>>
  BY DEF HandleOldEntry, historyVars
<1>2. HostsTypeOK' /\ accepted \in Nat
  BY <1>1, SameReports, RequestAssumption DEF IInv
<1>3. GoodEntry \subseteq GoodEntry' /\ queue \in Seq(GoodEntry')
  BY <1>1, <1>2, AllStayGood, SameReports
<1>4. /\ queue[cursor] \in GoodEntry' /\ <<>> \in Seq(GoodEntry') /\ Len(<<>>) = 0
      /\ \A i \in 1 .. Len(queue) : queue[i] \in GoodEntry'
  BY <1>1, <1>3, EntryOfQueue, ElementOfSeq, EmptySeq
<1>5. /\ queue' \in Seq(GoodEntry') /\ DistinctIds(queue')
      /\ NewOnesAreLate(queue', cursor - 1, late')
      /\ ToSet(queue') \subseteq ToSet(queue)
  <2> DEFINE new == <<>>
  <2>1. /\ new \in Seq(GoodEntry') /\ late \subseteq late'
        /\ \A k \in 1 .. Len(new) : new[k].id = accepted + k /\ new[k].id \in late'
    BY <1>1, <1>4
  <2>2. queue' = Revised(cursor, queue[cursor], new) /\ ToSet(new) = {}
    BY <1>1 DEF ToSet
  <2>3. queue[cursor] \in ToSet(queue)
    BY <1>1 DEF ToSet
  <2>4. new \in Seq(GoodEntry') /\ accepted \in Nat
    BY <1>2, <2>1
  <2> HIDE DEF new
  <2> DEFINE e == queue[cursor]
  <2>5. /\ e \in GoodEntry' /\ e.id = queue[cursor].id /\ e.state # "new"
        /\ \A i \in 1 .. Len(queue) : i # cursor => queue[i] \in GoodEntry'
    BY <1>1, <1>4
  <2>6. cursor \in DOMAIN queue /\ pc = "walk" /\ e \in ToSet(queue) /\ queue' = Revised(cursor, e, new)
    BY <1>1, <2>2, <2>3
  <2> HIDE DEF e
  <2>7. /\ Revised(cursor, e, new) \in Seq(GoodEntry') /\ DistinctIds(Revised(cursor, e, new))
        /\ NewOnesAreLate(Revised(cursor, e, new), cursor - 1, late')
        /\ ToSet(Revised(cursor, e, new)) \subseteq ToSet(queue) \cup {e} \cup ToSet(new)
    BY <2>1, <2>4, <2>5, <2>6, RevisedQueue
  <2>8. QED
    BY <2>2, <2>6, <2>7
<1>6. cursor' \in Nat
  BY <1>1, EntryOfQueue
<1>7. QED
  BY <1>1, <1>2, <1>5, <1>6 DEF IInv

LEMMA WalkPreserves ==
    ASSUME IInv, BeginWalk \/ HandlePastEnd \/ EndWalk
    PROVE  IInv'
<1>1. UNCHANGED <<queue, accepted, told, toldAgain, hostVars>> /\ accepted \in Nat
  BY RequestAssumption DEF BeginWalk, HandlePastEnd, EndWalk, historyVars, IInv
<1>2. HostsTypeOK' /\ queue' \in Seq(GoodEntry') /\ Len(queue) \in Nat
  BY <1>1, SameReports, AllStayGood, LenProperties DEF IInv
<1>3. DistinctIds(queue')
  BY <1>1 DEF IInv
<1>4. CASE BeginWalk
  <2>1. NewOnesAreLate(queue', cursor', late') /\ cursor' \in Nat
    BY <1>1, <1>2, <1>4 DEF BeginWalk, NewOnesAreLate
  <2>2. QED
    BY <1>1, <1>2, <1>3, <1>4, <2>1 DEF BeginWalk, IInv
<1>5. CASE HandlePastEnd
  <2>1. pc' # "crashed" => cursor' = cursor - 1 /\ cursor - 1 \in Nat /\ cursor - 1 >= Len(queue)
    BY <1>2, <1>5 DEF HandlePastEnd, IInv
  <2>2. pc' = "walk" => NewOnesAreLate(queue', cursor', late')
    BY <1>1, <1>2, <2>1 DEF NewOnesAreLate
  <2>3. late' = late /\ pc' \in {"walk", "crashed"} /\ cursor' \in Nat
    BY <1>5, <2>1 DEF HandlePastEnd, historyVars, IInv
  <2>4. QED
    BY <1>1, <1>2, <1>3, <2>2, <2>3 DEF IInv
<1>6. CASE EndWalk
  <2>1. pc' = "idle" /\ late' = late /\ cursor' = cursor
    BY <1>6 DEF EndWalk, historyVars
  <2>2. QED
    BY <1>1, <1>2, <1>3, <2>1 DEF IInv
<1>7. QED
  BY <1>4, <1>5, <1>6

\* The slot: the report is taken from the queue of events, and no entry waits
\* for its node afterwards.
LEMMA StatusPreserves ==
    ASSUME IInv, NodeConnectionAttemptStatus
    PROVE  IInv' /\ Serves
<1> DEFINE event == Head(statusEvents)
           n == event.peer
<1>1. /\ pc = "idle" /\ statusEvents # <<>> /\ statusEvents' = Tail(statusEvents)
      /\ UNCHANGED <<pc, cursor, late, accepted, connections>>
      /\ event \in StatusEvent /\ statusEvents' \in Seq(StatusEvent)
      /\ accepted \in Nat
  BY EventTaken, RequestAssumption DEF NodeConnectionAttemptStatus, walkVars, IInv
<1>2. PICK lists \in [DOMAIN queue -> NodeLists], found \in BOOLEAN :
         LET outcome == [i \in DOMAIN queue |->
                           OutcomeOfReport(queue[i], Head(statusEvents), lists[i], found)]
         IN /\ queue' = [i \in DOMAIN queue |-> outcome[i].entry]
            /\ DoSend(UNION {{queue[i].id} \X outcome[i].send : i \in DOMAIN queue})
            /\ wishList' = wishList \cup UNION {outcome[i].wish : i \in DOMAIN queue}
  BY DEF NodeConnectionAttemptStatus
<1> DEFINE outcome == [i \in DOMAIN queue |-> OutcomeOfReport(queue[i], event, lists[i], found)]
           bytes == UNION {{queue[i].id} \X outcome[i].send : i \in DOMAIN queue}
<1>3. /\ queue' = [i \in DOMAIN queue |-> outcome[i].entry]
      /\ DoSend(bytes)
      /\ wishList' = wishList \cup UNION {outcome[i].wish : i \in DOMAIN queue}
  BY <1>2
<1>4. DOMAIN queue = 1 .. Len(queue) /\ Len(queue) \in Nat
  BY LenProperties DEF IInv
<1>5. ASSUME NEW i \in DOMAIN queue
      PROVE  /\ queue[i] \in GoodEntry /\ queue[i] \in Entry
             /\ GoodOutcome(queue[i], outcome[i], {n})
  <2>1. queue[i] \in GoodEntry /\ queue[i] \in Entry
    BY EntryOfQueue
  <2>2. queue[i].state \in Early => queue[i].around = {}
    BY <2>1 DEF GoodEntry
  <2>3. lists[i] \in Seq(Peers)
    BY NodeListsAreLists
  <2>4. outcome[i] = OutcomeOfReport(queue[i], event, lists[i], found)
    OBVIOUS
  <2> HIDE DEF event, outcome
  <2>5. QED
    BY <1>1, <2>1, <2>2, <2>3, <2>4, ReportIsGood
<1> HIDE DEF event, outcome, bytes
<1>6. ASSUME NEW b \in bytes
      PROVE  \E i \in DOMAIN queue : /\ b = <<queue[i].id, b[2]>> /\ b[1] = queue[i].id
                                    /\ b[2] \in outcome[i].send
  <2>1. PICK i \in DOMAIN queue : b \in {queue[i].id} \X outcome[i].send
    BY DEF bytes
  <2>2. QED
    BY <2>1, BytesOfOne
<1>7. ASSUME NEW b \in bytes
      PROVE  b \notin told /\ b[1] \in Pending
  <2>1. PICK i \in DOMAIN queue : /\ b = <<queue[i].id, b[2]>> /\ b[1] = queue[i].id
                                  /\ b[2] \in outcome[i].send
    BY <1>6
  <2>2. <<queue[i].id, b[2]>> \notin told /\ queue[i].state # "ready"
    BY <1>5, <2>1, NotToldBefore
  <2>3. QED
    BY <2>1, <2>2 DEF Pending
<1>8. /\ told \subseteq told' /\ toldAgain' = toldAgain
      /\ \A t \in told' \ told : t \in bytes /\ t[2] \in Nodes /\ Reachable(t[2])
  BY <1>3, <1>7, DoSendProperties
<1>9. ASSUME NEW m, m \notin Dropped \cup {n}, ReportComing(m)
      PROVE  ReportComing(m)'
  BY <1>1, <1>3, <1>9, ReportStaysQueued DEF IInv, event
<1>10. ASSUME NEW i \in DOMAIN queue
       PROVE  outcome[i].entry \in GoodEntry'
  <2>1. ASSUME NEW t \in told' \ told, t[1] = queue[i].id
        PROVE  t[2] \in outcome[i].send
    <3>1. PICK j \in DOMAIN queue : t[1] = queue[j].id /\ t[2] \in outcome[j].send
      BY <1>6, <1>8
    <3>2. j = i
      BY <1>4, <2>1, <3>1 DEF IInv, DistinctIds
    <3>3. QED
      BY <3>1, <3>2
  <2>2. \A m \in outcome[i].wish : m \in wishList'
    BY <1>3
  <2>3. accepted' \in Nat /\ accepted <= accepted'
    BY <1>1
  <2>4. QED
    BY <1>1, <1>5, <1>9, <2>1, <2>2, <2>3, OutcomeIsGood
<1>11. queue' \in Seq(GoodEntry') /\ Len(queue') = Len(queue)
  BY <1>3, <1>4, <1>10
<1>12. \A i \in 1 .. Len(queue) :
          /\ queue'[i].id = queue[i].id
          /\ queue'[i].state = "new" => queue[i].state = "new"
  BY <1>3, <1>4, <1>5 DEF GoodOutcome
<1>13. DistinctIds(queue')
  BY <1>11, <1>12, SameIds
<1>14. HostsTypeOK'
  <2>1. wishList' \subseteq Nodes
    <3>1. \A i \in DOMAIN queue : outcome[i].wish \subseteq Nodes
      BY <1>5 DEF GoodOutcome
    <3>2. wishList \subseteq Nodes
      BY DEF IInv, HostsTypeOK
    <3>3. QED
      BY <1>3, <3>1, <3>2
  <2>2. QED
    BY <1>1, <2>1 DEF IInv, HostsTypeOK
<1>15. told' \subseteq (1 .. accepted) \X Nodes
  <2>1. ASSUME NEW t \in told' \ told PROVE t \in (1 .. accepted) \X Nodes
    <3>1. PICK i \in DOMAIN queue : t = <<queue[i].id, t[2]>>
      BY <1>6, <1>8
    <3>2. queue[i].id \in 1 .. accepted
      BY <1>1, <1>5, RequestAssumption DEF GoodEntry, Entry, Ids
    <3>3. QED
      BY <1>8, <3>1, <3>2
  <2>2. QED
    BY <2>1 DEF IInv
<1>16. Continues
  <2>1. \A i \in DOMAIN queue : outcome[i].entry.state = "ready" \/ queue[i].state # "ready"
    <3>1. ASSUME NEW i \in DOMAIN queue, queue[i].state = "ready"
          PROVE  outcome[i].entry.state = "ready"
      BY <1>5, <3>1, ReadyStaysReady
    <3>2. QED
      BY <3>1
  <2>2. DOMAIN queue' = DOMAIN queue /\ \A i \in DOMAIN queue : queue'[i] = outcome[i].entry
    BY <1>3
  <2>3. \A i \in DOMAIN queue : queue'[i].id = queue[i].id
    BY <1>4, <1>12
  <2>4. QED
    BY <2>1, <2>2, <2>3 DEF Continues, Unfinished, ToSet
<1>17. Serves
  BY <1>1, <1>7, <1>8, <1>16 DEF Serves
<1>18. QED
  BY <1>1, <1>8, <1>11, <1>13, <1>14, <1>15, <1>17 DEF IInv

-----------------------------------------------------------------------------
(***************************************************************************)
(* The invariant and what follows from it.                                 *)
(***************************************************************************)
LEMMA NextIInv ==
    ASSUME IInv, [Next]_vars
    PROVE  IInv'
<1>1. ASSUME NEW o \in Offers, AddNetworkRequest(o) PROVE IInv'
  BY <1>1, AddPreserves
<1>2. ASSUME NEW i \in DOMAIN queue, Age(i) PROVE IInv'
  BY <1>2, AgePreserves
<1>3. CASE Run
  BY <1>3, HandleNewPreserves, HandleOldPreserves, WalkPreserves DEF Run
<1>4. CASE NodeConnectionAttemptStatus
  BY <1>4, StatusPreserves
<1>5. ASSUME NEW kind \in Kinds, NEW item \in Items, NotifyOfContentReceived(kind, item)
      PROVE  IInv'
  BY <1>5, NotifyPreserves
<1>6. ASSUME NEW c \in ConnIds, RemoveOpenNetworkConnection(c) PROVE IInv'
  BY <1>6, RemovePreserves
<1>7. CASE OtherThreads
  BY <1>7, OtherThreadsPreserve
<1>8. CASE UNCHANGED vars
  <2>1. UNCHANGED <<queue, pc, cursor, late, accepted, told, toldAgain, hostVars>>
    BY <1>8 DEF vars, walkVars, historyVars
  <2>2. HostsTypeOK' /\ queue' \in Seq(GoodEntry')
    BY <2>1, SameReports, AllStayGood, RequestAssumption DEF IInv
  <2>3. QED
    BY <2>1, <2>2 DEF IInv
<1>9. QED
  BY <1>1, <1>2, <1>3, <1>4, <1>5, <1>6, <1>7, <1>8 DEF Next

\* The conjunction of what is proved below of the queue and its walk holds in
\* every reachable state (all actions of netrequestexecutor.cpp and model.cpp
\* on iNetReqQueue).
THEOREM InvariantHolds == Spec => []IInv
BY InitIInv, NextIInv, PTL DEF Spec

\* Every variable keeps its type, for any number of nodes and requests.
THEOREM TypesHold == Spec => []TypeOK
<1>1. ASSUME IInv PROVE TypeOK
  <2>1. queue \in Seq(Entry)
    BY <1>1, GoodEntries, SeqMonotonic DEF IInv
  <2>2. told \subseteq Ids \X Nodes
    BY <1>1, RequestAssumption DEF IInv, Ids
  <2>3. QED
    BY <1>1, <2>1, <2>2 DEF IInv, TypeOK
<1>2. QED
  BY <1>1, InvariantHolds, PTL

\* The walk by index passes over no request, however many are removed or added
\* while the mutex is free (run()).
THEOREM NoneIsOverlooked == Spec => []NoneOverlooked
<1>1. ASSUME IInv PROVE NoneOverlooked
  <2>1. DOMAIN queue = 1 .. Len(queue)
    BY <1>1, LenProperties DEF IInv
  <2>2. QED
    BY <1>1, <2>1 DEF IInv, NoneOverlooked, NewOnesAreLate
<1>2. QED
  BY <1>1, InvariantHolds, PTL

\* No lost wake-up: a report is on its way on every node a request waits for
\* (addNodeToConnectionWishList to nodeConnectionAttemptStatus), except where
\* the connector may drop the wish.
THEOREM NoRequestIsOrphan == Spec => []NoOrphanRequest
<1>1. ASSUME IInv PROVE NoOrphanRequest
  BY <1>1, EntryOfQueue DEF NoOrphanRequest, GoodEntry
<1>2. QED
  BY <1>1, InvariantHolds, PTL

\* The bytes of one request are queued at most once for one node, however often
\* its connection comes and goes (sendRequestToNodesAroundHash and the slot).
THEOREM NobodyIsToldTwice == Spec => []ToldOnce
<1>1. ASSUME IInv PROVE ToldOnce
  BY <1>1 DEF IInv, ToldOnce
<1>2. QED
  BY <1>1, InvariantHolds, PTL

-----------------------------------------------------------------------------
(***************************************************************************)
(* The queue implements RequestService: its own steps serve requests, those *)
(* of the connections are changes of the network.                          *)
(***************************************************************************)
LEMMA FewerContinue ==
    ASSUME ToSet(queue') \subseteq ToSet(queue)
    PROVE  Unfinished(queue') \subseteq Unfinished(queue) /\ Continues
BY DEF Unfinished, Continues

LEMMA AddServes ==
    ASSUME IInv, NEW o \in Offers, AddNetworkRequest(o)
    PROVE  Serves
<1> DEFINE e == NewEntry(accepted + 1, o.kind, o.dest, o.item)
<1>1. /\ accepted \in Nat /\ accepted' = accepted + 1 /\ queue' = Append(queue, e)
      /\ told' = told /\ connections' = connections /\ e.id = accepted + 1
  BY RequestAssumption DEF AddNetworkRequest, IInv, hostVars, NewEntry
<1> HIDE DEF e
<1>2. ToSet(queue') = ToSet(queue) \cup {e}
  <2>1. /\ queue \in Seq(GoodEntry \cup {e}) /\ e \in GoodEntry \cup {e}
    BY SeqMonotonic DEF IInv
  <2>2. QED
    BY <1>1, <2>1, AppendMembers
<1>3. e.id \notin 1 .. accepted /\ accepted <= accepted'
  BY <1>1
<1>4. Continues
  BY <1>2, <1>3 DEF Continues, Unfinished
<1>5. QED
  BY <1>1, <1>3, <1>4 DEF Serves

LEMMA AgeServes ==
    ASSUME IInv, NEW i \in DOMAIN queue, Age(i)
    PROVE  Serves
<1>1. /\ accepted \in Nat /\ accepted' = accepted /\ told' = told /\ connections' = connections
      /\ queue' = [queue EXCEPT ![i].stale = TRUE]
  BY RequestAssumption DEF Age, IInv, historyVars, hostVars
<1>2. ASSUME NEW j \in DOMAIN queue
      PROVE  queue'[j].id = queue[j].id /\ queue'[j].state = queue[j].state
  <2>1. queue[j] \in Entry
    BY EntryOfQueue
  <2>2. queue'[j] = IF j = i THEN [queue[j] EXCEPT !.stale = TRUE] ELSE queue[j]
    BY <1>1
  <2>3. QED
    BY <2>1, <2>2 DEF Entry
<1>3. DOMAIN queue' = DOMAIN queue
  BY <1>1
<1>4. Continues
  BY <1>2, <1>3 DEF Continues, Unfinished, ToSet
<1>5. QED
  BY <1>1, <1>4 DEF Serves

\* The rest of run(), and what settles requests: nothing is told.
LEMMA QuietServes ==
    ASSUME IInv,
           \/ HandleOldEntry \/ BeginWalk \/ HandlePastEnd \/ EndWalk
           \/ \E kind \in Kinds, item \in Items : NotifyOfContentReceived(kind, item)
    PROVE  Serves
<1>1. accepted \in Nat
  BY RequestAssumption DEF IInv
<1>1a. accepted' = accepted /\ told' = told /\ connections' = connections
  BY DEF HandleOldEntry, BeginWalk, HandlePastEnd, EndWalk, NotifyOfContentReceived,
         historyVars, hostVars
<1>2. ToSet(queue') \subseteq ToSet(queue)
  <2>1. CASE HandleOldEntry
    BY <2>1, HandleOldPreserves
  <2>2. CASE BeginWalk \/ HandlePastEnd \/ EndWalk
    BY <2>2 DEF BeginWalk, HandlePastEnd, EndWalk
  <2>3. ASSUME NEW kind \in Kinds, NEW item \in Items, NotifyOfContentReceived(kind, item)
        PROVE  ToSet(queue') \subseteq ToSet(queue)
    BY <2>3, FilterProperties DEF NotifyOfContentReceived, IInv
  <2>4. QED
    BY <2>1, <2>2, <2>3
<1>3. QED
  BY <1>1, <1>1a, <1>2, FewerContinue DEF Serves

LEMMA ProgressIsMade ==
    ASSUME IInv, IInv', accepted <= accepted', Continues
    PROVE  Service!Progress
<1>1. accepted \in Nat /\ accepted' \in Nat /\ accepted' <= MaxRequests
  BY RequestAssumption DEF IInv
<1>2. (1 .. accepted) \subseteq (1 .. accepted') /\ (1 .. accepted') \subseteq Ids
  BY <1>1, RequestAssumption DEF Ids
<1>3. Pending \subseteq 1 .. accepted /\ Pending' \subseteq 1 .. accepted'
  <2>1. \A x \in GoodEntry : x.id \in 1 .. accepted
    BY <1>1, RequestAssumption DEF GoodEntry, Entry, Ids
  <2>2. \A x \in GoodEntry' : x.id \in 1 .. accepted'
    BY <1>1, RequestAssumption DEF GoodEntry, Entry, Ids
  <2>3. \A i \in DOMAIN queue : queue[i] \in GoodEntry
    BY EntryOfQueue
  <2>4. \A i \in DOMAIN queue' : queue'[i] \in GoodEntry'
    BY ElementOfSeq, LenProperties DEF IInv
  <2>5. QED
    BY <2>1, <2>2, <2>3, <2>4 DEF Pending
<1>4. Pending' \cap (1 .. accepted) \subseteq Pending
  BY PendingIsUnfinished DEF Continues
<1> HIDE DEF Pending
<1>5. QED
  BY <1>2, <1>3, <1>4 DEF Service!Progress

\* A step of the queue is a step of the service.
LEMMA QueueServes ==
    ASSUME IInv, IInv', Serves
    PROVE  Service!Next
<1>1. Service!Progress
  BY ProgressIsMade DEF Serves
<1>2. {n \in Nodes : Reachable(n)}' = {n \in Nodes : Reachable(n)}
  BY DEF Reachable, Alive, Serves
<1>3. QED
  BY <1>1, <1>2 DEF Service!Next, Service!Serve, Serves

\* A step of a connection, which tells nobody anything, is one of the network.
LEMMA NetworkServes ==
    ASSUME IInv, IInv',
           OtherThreads \/ \E c \in ConnIds : RemoveOpenNetworkConnection(c)
    PROVE  Service!Next
<1>1. accepted \in Nat /\ accepted' = accepted /\ told' = told
  <2>1. accepted \in Nat
    BY RequestAssumption DEF IInv
  <2>2. QED
    BY <2>1 DEF OtherThreads, RemoveOpenNetworkConnection, historyVars
<1>2. ToSet(queue') \subseteq ToSet(queue)
  <2>1. queue \in Seq(GoodEntry)
    BY DEF IInv
  <2>2. \A K : ToSet(Filter(queue, K)) \subseteq ToSet(queue)
    BY <2>1, FilterProperties
  <2>3. queue' = queue \/ \E K : queue' = Filter(queue, K)
    BY DEF OtherThreads, RemoveOpenNetworkConnection
  <2>4. QED
    BY <2>2, <2>3
<1>3. Continues /\ Pending' \subseteq Pending
  BY <1>2, FewerContinue, PendingIsUnfinished
<1>4. Service!Progress
  BY <1>1, <1>3, ProgressIsMade
<1>5. {n \in Nodes : Reachable(n)}' \subseteq Nodes
  OBVIOUS
<1>6. QED
  BY <1>1, <1>3, <1>4, <1>5 DEF Service!Next, Service!NetworkChanges

\* Whatever connections come and go, a request is told only while it is pending
\* and only to nodes with an open connection, and what has ended, by being done,
\* too old, settled or of no use, stays ended.
THEOREM ServiceIsImplemented == Spec => ImplementsService
<1>1. Init => Service!Init
  <2>1. SUFFICES ASSUME Init PROVE Service!Init
    OBVIOUS
  <2>2. Pending = {} /\ 1 .. accepted = {} /\ told = {}
    BY <2>1 DEF Init, Pending
  <2>3. {n \in Nodes : Reachable(n)} = {}
    BY <2>1 DEF Init, HostsInit, Reachable, Alive
  <2>4. QED
    BY <2>2, <2>3 DEF Service!Init
<1>2. ASSUME IInv, [Next]_vars PROVE [Service!Next]_(Service!vars)
  <2>1. IInv'
    BY <1>2, NextIInv
  <2>2. CASE Serves
    BY <1>2, <2>1, <2>2, QueueServes
  <2>3. CASE OtherThreads \/ \E c \in ConnIds : RemoveOpenNetworkConnection(c)
    BY <1>2, <2>1, <2>3, NetworkServes
  <2>4. CASE UNCHANGED vars
    <3>1. UNCHANGED <<queue, accepted, told, connections>>
      BY <2>4 DEF vars, historyVars, hostVars
    <3>2. QED
      BY <3>1 DEF Service!vars, Pending, Reachable, Alive
  <2>5. CASE Next /\ ~(OtherThreads \/ \E c \in ConnIds : RemoveOpenNetworkConnection(c))
    <3>1. Serves
      BY <1>2, <2>5, AddServes, AgeServes, HandleNewPreserves, StatusPreserves, QuietServes
         DEF Next, Run
    <3>2. QED
      BY <2>2, <3>1
  <2>6. QED
    BY <1>2, <2>3, <2>4, <2>5
<1>3. QED
  BY <1>1, <1>2, InvariantHolds, PTL DEF Spec, ImplementsService, Service!Spec
=============================================================================
