----------------------------- MODULE MCAccounts -----------------------------
(* A TLC instance of Accounts.                                             *)
EXTENDS Accounts, TLC

Symmetry ==
  Permutations(Request) \cup Permutations(Profile)
    \cup Permutations(Email) \cup Permutations(User \ Admin)
=============================================================================
