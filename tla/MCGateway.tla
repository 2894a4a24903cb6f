----------------------------- MODULE MCGateway -----------------------------
(* A TLC instance of Gateway: one request in flight, tight limits.         *)
EXTENDS Gateway

MCMax == [api |-> 3, auth |-> 2, login |-> 2]
=============================================================================
