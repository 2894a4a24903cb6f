--------------------------- MODULE MCAttachments ---------------------------
(* TLC instances of Attachments.                                           *)
EXTENDS Attachments, TLC

Symmetry == Permutations(Request) \cup Permutations(File) \cup Permutations(Employee)
=============================================================================
