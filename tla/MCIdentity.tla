----------------------------- MODULE MCIdentity -----------------------------
(* A small instance of Identity: one account and a spare address.           *)
EXTENDS Identity, TLC

CONSTANTS u1, e1

OneAddress == u1 :> e1

Tokens == Permutations(Calls) \cup Permutations(Sessions) \cup Permutations(Links)
=============================================================================
