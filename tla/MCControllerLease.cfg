CONSTANTS
    Clients = {c1, c2}
    Envelopes = {e}
    None = None
    MaxTime = 1
    MaxDeviceGeneration = 1
    MaxAttachmentGeneration = 1
    MaxLeaseGeneration = 3
    MaxGrantSeconds = 1
    MaxAdmissions = 1
    MaxSockets = 2
    MaxInFlight = 2
    MaxPublished = 2

SYMMETRY ClientSymmetry

SPECIFICATION Spec

INVARIANTS
    TypeOK
    DesktopStreamIsFenced
    ControlAgrees

PROPERTIES
    HandoverAdvancesGeneration
