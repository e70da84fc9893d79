\* Two Kea servers, two reconciles at once.
CONSTANTS
    Primary = kea1
    Secondary = kea2
    None = None
    Racing = TRUE
    Sender = {s1, s2}
    MaxConcurrent = 2
    Generation = {g1}
SPECIFICATION Spec
INVARIANT Restored
