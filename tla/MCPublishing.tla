---------------------------- MODULE MCPublishing ----------------------------
(***************************************************************************)
(* Small instances of Publishing for TLC.                                  *)
(***************************************************************************)
EXTENDS Publishing

CONSTANTS n1, n2, self, ad, profile, other, group

\* Paths content arrives with: published here, or forwarded by n1.
MC_BangPaths == {<<>>, <<n1>>}

\* Content of our own only.
MC_BangPathsOwn == {<<>>}

\* Candidate lists: none, both nodes, this node among them, and one node twice
\* (where the two queries of getNodesAfterHash overlap).
MC_NodesAfter ==
    [a \in Addresses |-> {<<>>, <<n1, n2>>, <<self, n1>>, <<n1, n1>>}]

\* Lists without this node, for the runs about waiting.
MC_NodesAfterOthers == [a \in Addresses |-> {<<n1>>, <<n2, n1>>}]
MC_NodesAfterOne == [a \in Addresses |-> {<<n1>>}]
MC_NodesAfterBoth == [a \in Addresses |-> {<<n2, n1>>}]
=============================================================================
