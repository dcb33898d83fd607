CONSTANTS
    Clients = {c1, c2}
    Payloads = {p}
    None = None
    Undefined = Undefined
    MaxStoredEnvelopes = 1
    MaxReplayEnvelopes = 1
    RetentionSeconds = 1
    MaxSequence = 1
    MaxTime = 1
    MaxDeviceGeneration = 2
    MaxAttachmentGeneration = 1
    MaxLeaseGeneration = 2
    MaxGrantSeconds = 1
    MaxAdmissions = 1
    MaxSockets = 1
    MaxInFlight = 1

SPECIFICATION Spec

PROPERTY PublishIsFenced
