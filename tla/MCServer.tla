------------------------------ MODULE MCServer ------------------------------
(* A TLC instance of Server.                                               *)
EXTENDS Server
=============================================================================
