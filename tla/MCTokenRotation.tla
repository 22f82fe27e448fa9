--------------------------- MODULE MCTokenRotation ---------------------------
(* Instances of TokenRotation for TLC. *)
EXTENDS TokenRotation, TLC

\* Tokens, exchanges and renewals are interchangeable in the safety properties.
Interchangeable ==
  Permutations(Jtis) \cup Permutations(Handlers) \cup Permutations(Renewals)
=============================================================================
