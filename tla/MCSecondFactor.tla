--------------------------- MODULE MCSecondFactor ---------------------------
(* Small instances of SecondFactor.                                         *)
EXTENDS SecondFactor, TLC

Tokens == Permutations(Calls) \cup Permutations(Flows) \cup Permutations(Sessions)
          \cup Permutations(Factors) \cup Permutations(Recoveries)
=============================================================================
