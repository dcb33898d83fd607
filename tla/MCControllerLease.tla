-------------------------- MODULE MCControllerLease --------------------------
(* Model-checking instance of ControllerLease. *)
EXTENDS ControllerLease, TLC

ClientSymmetry == Permutations(Clients)

=============================================================================
