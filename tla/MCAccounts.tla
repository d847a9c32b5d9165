------------------------------- MODULE MCAccounts -------------------------------
(* Two people who may try each other's name, address and code. *)
EXTENDS Accounts, TLC
CONSTANTS ann, bob, annAt, bobAt, r1, r2
Symmetry == Permutations({r1, r2}) \cup Permutations({ann, bob}) \cup Permutations({annAt, bobAt})
================================================================================
