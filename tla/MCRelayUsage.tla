---------------------------- MODULE MCRelayUsage ----------------------------
(* Model-checking instance of RelayUsage. *)
EXTENDS RelayUsage, TLC

IdSymmetry == Permutations(Connections)

=============================================================================
