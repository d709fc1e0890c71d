--------------------------- MODULE RequestService ---------------------------
(***************************************************************************)
(* What the queue of network requests promises to those who put requests   *)
(* into it, whatever connections come and go: a request that is pending is *)
(* told to nodes that can be reached at that moment; some day it ends, and *)
(* then it is over.                                                        *)
(***************************************************************************)
CONSTANTS Requests, Hosts

VARIABLES
    pending,    \* requests somebody still works on
    ended,      \* requests nobody will hear of any more
    told,       \* <<r, n>>: the bytes of request r were queued for node n
    reachable   \* nodes with an open connection

vars == <<pending, ended, told, reachable>>

TypeOK ==
    /\ pending \subseteq Requests
    /\ ended \subseteq Requests
    /\ told \subseteq Requests \X Hosts
    /\ reachable \subseteq Hosts

Init == pending = {} /\ ended = {} /\ told = {} /\ reachable = {}

\* A request that was accepted stays pending until it ends; the end is final.
Progress ==
    /\ ended \subseteq ended'
    /\ pending \subseteq pending' \cup ended'
    /\ pending' \cap ended' = {}
    /\ pending' \cup ended' \subseteq Requests

\* Requests are accepted, told to nodes and ended, several at a time. Only a
\* request that is pending is told, and only to a node that can be reached.
Serve ==
    /\ Progress
    /\ told \subseteq told'
    /\ \A t \in told' \ told : t[1] \in pending /\ t[2] \in reachable
    /\ UNCHANGED reachable

\* Connections come and go; requests that can no longer be of use end.
NetworkChanges ==
    /\ Progress
    /\ pending' \subseteq pending
    /\ reachable' \subseteq Hosts
    /\ UNCHANGED told

Next == Serve \/ NetworkChanges

Spec == Init /\ [][Next]_vars

\* Every request that is accepted ends.
EveryRequestEnds == \A r \in Requests : r \in pending ~> r \in ended
=============================================================================
