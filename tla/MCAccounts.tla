------------------------------ MODULE MCAccounts ------------------------------
(* One student, whose accounts and codes are all that requests of one       *)
(* student touch, two usernames, and three requests of any kind.            *)
EXTENDS Accounts, TLC

Interchangeable == Permutations(Requests) \cup Permutations(Names)
=============================================================================
