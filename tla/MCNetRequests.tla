---------------------------- MODULE MCNetRequests ----------------------------
(***************************************************************************)
(* Small instances of NetRequests for TLC.                                 *)
(***************************************************************************)
EXTENDS NetRequests

CONSTANTS n1, n2, self, item

Of(kinds, dests) == [kind : kinds, dest : dests, item : {item}]

\* For peers and for this node, with and without a destination; of kinds that
\* differ only in the content they look up, one.
MC_Offers == Of({"message", "fetchFile", "poll", "listing"}, {n1})
               \cup Of({"fetchComment", "nodesAround"}, {NoNode})

MC_Lists == {<<>>, <<self, n2, n1, n2>>}
=============================================================================
