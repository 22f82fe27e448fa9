--------------------------- MODULE MCProvisioning ---------------------------
(* Instances of Provisioning for TLC. *)
EXTENDS Provisioning, TLC

\* The elements of each set are interchangeable.
Interchangeable ==
  UNION {Permutations(S) : S \in {Sites, Tokens, Nodes, Agents, Requests}}
=============================================================================
