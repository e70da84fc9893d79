\* Two Kea servers, one reconcile at a time.
CONSTANTS
    Primary = kea1
    Secondary = kea2
    None = None
    Racing = FALSE
    Sender = {s1, s2, s3}
    MaxConcurrent = 1
    Generation = {g1, g2}
SPECIFICATION Spec
INVARIANTS TypeOK PrimaryFirst Restored Delivers Truthful
PROPERTY TransportKept
