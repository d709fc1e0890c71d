------------------------------ MODULE ThisNode ------------------------------
(***************************************************************************)
(* This node, the others, and how many connections it may have: what the   *)
(* modules about its connections have in common.                           *)
(***************************************************************************)
EXTENDS Naturals

CONSTANTS
    Nodes,   \* the other nodes
    Self,    \* this node
    MaxOpen  \* KMaxOpenConnections

ASSUME ThisNodeAssumption == Self \notin Nodes /\ MaxOpen \in Nat
=============================================================================
