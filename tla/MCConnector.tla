---------------------------- MODULE MCConnector ----------------------------
(***************************************************************************)
(* A small ring for TLC: this node between two others.                     *)
(***************************************************************************)
EXTENDS Connector

MC_Greetings ==
    {[node |-> 1, contact |-> Now, address |-> "v4"],
     [node |-> 3, contact |-> 0, address |-> "v4"]}
=============================================================================
