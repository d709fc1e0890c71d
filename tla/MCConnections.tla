---------------------------- MODULE MCConnections ----------------------------
(***************************************************************************)
(* Small instances of Connections for TLC: the nodes are model values.     *)
(***************************************************************************)
EXTENDS Connections

CONSTANTS n1, n2
=============================================================================
