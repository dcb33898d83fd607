CONSTANTS
    Payloads = {p1, p2}
    MaxStoredEnvelopes = 3
    MaxReplayEnvelopes = 2
    RetentionSeconds = 1
    MaxSequence = 3
    MaxTime = 2
    None = None

SYMMETRY PayloadSymmetry

SPECIFICATION Spec

INVARIANT ReplayGapReported
