\* Two replicas without leader election, one Kea server, fairness.
CONSTANTS
    Primary = kea1
    Secondary = None
    None = None
    Racing = FALSE
    w1 = w1  w2 = w2  w3 = w3  p1 = p1  p2 = p2  c1 = c1  c2 = c2
    Proc = {p1, p2}
    Worker <- MCWorker
    ProcOf <- MCTwoProcs
    Cidr = {c1, c2}
    Prefix <- MCPrefix
    EmptyListOk = TRUE
    MaxFaults = 1
    MaxInitId = 2
SPECIFICATION FairSpec
INVARIANTS TypeOK Agreement
PROPERTIES Implements CallsReturn EventuallyProvisioned
