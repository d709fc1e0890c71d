------------------------------ MODULE Flooding ------------------------------
(***************************************************************************)
(* Messages between nodes.  Most go from one node to another and are       *)
(* understood there or not.  Published content goes on from there: each    *)
(* node that takes it pushes it to nodes that are not in its bangpath,     *)
(* which is how content finds its way to the nodes responsible for it.     *)
(* The module follows one copy along its way, with the pushes its holders  *)
(* make to other nodes before they pass this one on.                       *)
(*                                                                         *)
(* Formatter and parser are Wire's; the choice of the node to push to is   *)
(* Publishing's, of which only the bangpath matters here.                  *)
(***************************************************************************)
EXTENDS Wire

CONSTANTS Nodes,     \* their fingerprints' last words, which are not zero
          Origin,    \* where all messages start
          Messages   \* what is sent, as records Format takes

ASSUME NodesAssumption == Nodes \subseteq Nat \ {0} /\ Origin \in Nodes

VARIABLES sent,    \* the message as its sender means it
          status,  \* "idle", "on wire", "heard"
          wire,    \* its bytes
          whole,   \* the message was not cut
          to,      \* the node it is sent to
          first,   \* it is the first packet of its connection
          heard,   \* what the parser made of it
          holder,  \* who has the copy that is followed
          path,    \* the bangpath in the holder's publish table
          hasRow,  \* the holder's publish table has the item
          route    \* the nodes the copy has been at

vars == <<sent, status, wire, whole, to, first, heard, holder, path, hasRow, route>>

Slots == 5           \* bangpath columns of the publish table
IsPublished == sent.t \in Publishes
Listed == {path[i] : i \in 1..Len(path)}
Visited == {route[i] : i \in 1..Len(route)}

Init ==
    /\ sent \in Messages
    /\ status = "idle" /\ wire = <<>> /\ whole = TRUE /\ heard = {}
    /\ to = Origin /\ first = FALSE
    /\ holder = Origin /\ route = <<Origin>>
    /\ path = <<>> /\ hasRow = (sent.t \in Publishes)

PutOnWire(m, n) ==
    /\ sent' = m
    /\ wire' = Format(m)
    /\ status' = IF wire' = <<>> THEN "idle" ELSE "on wire"
    /\ whole' = TRUE /\ heard' = {}
    /\ to' = n

\* The request carries the bangpath as it is before the node is added to it;
\* with all five columns taken the row is deleted.
AddNode(n) ==
    IF Len(path) >= Slots
    THEN hasRow' = FALSE /\ UNCHANGED path
    ELSE path' = Append(path, n) /\ UNCHANGED hasRow
Push(n) ==
    /\ IsPublished /\ hasRow
    /\ n # holder /\ n \notin Listed
    /\ PutOnWire([sent EXCEPT !.path = path], n)
    /\ AddNode(n)
    /\ UNCHANGED <<first, holder, route>>

Send(n) ==
    /\ ~IsPublished
    /\ n # holder
    /\ status = "idle"
    /\ first' \in (IF sent.t = "KProtocolVersion" THEN BOOLEAN ELSE {FALSE})
    /\ PutOnWire(sent, n)
    /\ UNCHANGED <<holder, path, hasRow, route>>

\* A peer may send less than the message: only the first bytes of it.
Cut(k) ==
    /\ status = "on wire" /\ whole
    /\ Len(route) = 1 /\ Len(path) <= 1    \* bound: the first message only
    /\ wire' = SubSeq(wire, 1, k)
    /\ whole' = FALSE
    /\ UNCHANGED <<sent, status, to, first, heard, holder, path, hasRow, route>>

\* addItemToBePublished leaves out what has a full bangpath.
Forwardable_Always(p) == TRUE
Forwardable(p) == Len(p) < Slots
TakeOver(item) ==
    /\ holder' = to
    /\ path' = item.path
    /\ hasRow' = Forwardable(item.path)
    /\ route' = Append(route, to)

Hear ==
    /\ status = "on wire"
    /\ heard' = ParseMessage(wire, holder, first)
    /\ status' = "heard"
    /\ IF IsPublished /\ whole /\ heard' # {}
       THEN \E item \in heard' : TakeOver(item)
       ELSE UNCHANGED <<holder, path, hasRow, route>>
    /\ UNCHANGED <<sent, wire, whole, to, first>>

Next ==
    \/ \E n \in Nodes : Push(n) \/ Send(n)
    \/ \E k \in 4..(Len(wire) - 1) : Cut(k)
    \/ Hear

Spec == Init /\ [][Next]_vars

-----------------------------------------------------------------------------
(* What a message should be understood as. *)

\* The path gets its sender while there is room; the parser refuses comments
\* from the future, records of no collection and a first greeting that is not
\* about its sender; a phrase that is too long is one that is not.
Understood(m, from) ==
    CASE m.t \in Comments /\ m.time > Latest -> {}
      [] m.t \in DbRecords /\ m.collection = 0 -> {}
      [] m.t \in Publishes /\ ~(m.t \in Comments /\ m.time > Latest) ->
             {[m EXCEPT !.path = IF Len(@) < 5 THEN Append(@, from) ELSE @]}
      [] m.t = "KProtocolVersion" ->
             IF first /\ m.nodes[1].node # from THEN {}
             ELSE {[t |-> m.t, nodes |-> m.nodes, ends |-> TRUE]}
      [] m.t = "KRandomNumbersPacket" -> {[t |-> m.t]}
      [] m.t = "KSearchRequest" /\ Len(m.phrase) > MaxPhrase ->
             {[m EXCEPT !.phrase = Payload("bananas", 1)]}
      [] OTHER -> {m}

\* Who sent the message that has been heard.
Sender == IF Len(route) > 1 /\ route[Len(route)] = to THEN route[Len(route) - 1] ELSE Origin

\* The node at the other end hands to its models what was meant, and a
\* publisher's bangpath with itself added: formatter and parser agree for all
\* types of message, field by field.
UnderstoodAsMeant == status = "heard" /\ whole => heard = Understood(sent, Sender)

\* A message that lacks its end is refused, but for the parts that older
\* versions do not send: the time of content, the interval of a query for ads,
\* and further greetings.  Where a greeting breaks off within its first five
\* bytes the parser never returns.
LessIsMeant(m, less) ==
    \/ m.t \in ContentSends \cup ContentPublishes
       /\ \E full \in Understood(m, Sender) : less = [full EXCEPT !.time = 0]
    \/ m.t = "KAdsClassifiedAtHash" /\ less = [m EXCEPT !.start = 0, !.end = MaxTime]
    \/ m.t = "KAdsClassifiedAtHash" /\ less = [m EXCEPT !.end = MaxTime]
    \/ m.t = "KProtocolVersion" /\ less.nodes = SubSeq(m.nodes, 1, Len(less.nodes))
    \/ m.t = "KRandomNumbersPacket"
CutIsRefused ==
    status = "heard" /\ ~whole => \A less \in heard : LessIsMeant(sent, less)

\* Published content is never offered to a node it has passed through on its
\* way here: while it travels on, all of them are in its bangpath, which has
\* room for five.
AncestorsAreSpared == status = "on wire" /\ IsPublished => to \notin Visited
=============================================================================
