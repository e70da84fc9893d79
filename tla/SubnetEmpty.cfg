\* A Kea that answers an empty subnet4-list with a non-zero result.
CONSTANTS
    Primary = kea1
    Secondary = None
    None = None
    Racing = FALSE
    w1 = w1  w2 = w2  w3 = w3  p1 = p1  p2 = p2  c1 = c1  c2 = c2
    Proc = {p1}
    Worker <- MCWorker
    ProcOf <- MCOneProc
    Cidr = {c1, c2}
    Prefix <- MCPrefix
    EmptyListOk = FALSE
    MaxFaults = 0
    MaxInitId = 0
SPECIFICATION FairSpec
PROPERTY EventuallyProvisioned
