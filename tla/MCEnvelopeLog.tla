--------------------------- MODULE MCEnvelopeLog ---------------------------
(* Model-checking instance of EnvelopeLog. *)
EXTENDS EnvelopeLog, TLC

PayloadSymmetry == Permutations(Payloads)

=============================================================================
