--------------------------- MODULE MCAuthSession ---------------------------
(* TLC instances of AuthSession.                                           *)
EXTENDS AuthSession, TLC

Symmetry == Permutations(Request) \cup Permutations(Token) \cup Permutations(Link)
=============================================================================
