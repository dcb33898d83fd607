-------------------------- MODULE MCDeviceTunnel --------------------------
(* Model-checking instances of DeviceTunnel: a desktop that reattaches, and *)
(* one desktop over a daemon that restarts.                                 *)
EXTENDS DeviceTunnel, TLC

CONSTANT Desktop

Attachment(n) == [client |-> Desktop, attachmentGeneration |-> n, leaseGeneration |-> 1]

MCAttached == {Attachment(1)}

MCReattached == {Attachment(1), Attachment(2)}

TunnelSymmetry == Permutations(Tunnels)

=============================================================================
