-------------------------- MODULE MCSessionTunnel --------------------------
(* Model-checking instance of SessionTunnel. *)
EXTENDS SessionTunnel, TLC

ClientSymmetry == Permutations(Clients)

=============================================================================
