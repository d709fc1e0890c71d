----------------------------- MODULE MCScripts -----------------------------
(* Content of a type scripts are told of and of one they are not.           *)
EXTENDS Scripts
CONSTANTS ad, blob
=============================================================================
