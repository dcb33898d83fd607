-------------------------- MODULE MCCommandLedger --------------------------
(* Model-checking instance of CommandLedger: two desktops, of which the    *)
(* second takes the lease over, and a reattachment of the first.           *)
EXTENDS CommandLedger

CONSTANTS Desktop1, Desktop2

ScopeOf(client, attachment, lease) ==
    [client |-> client, attachmentGeneration |-> attachment, leaseGeneration |-> lease]

MCScopes == {ScopeOf(Desktop1, 1, 1), ScopeOf(Desktop1, 2, 1), ScopeOf(Desktop2, 1, 2)}

=============================================================================
