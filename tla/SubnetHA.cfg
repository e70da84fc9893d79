\* One process, two Kea servers whose subnet ids may differ, overlapping Sends.
CONSTANTS
    Primary = kea1
    Secondary = kea2
    None = None
    Racing = TRUE
    w1 = w1  w2 = w2  w3 = w3  p1 = p1  p2 = p2  c1 = c1  c2 = c2
    Proc = {p1}
    Worker <- MCWorker
    ProcOf <- MCOneProc
    Cidr = {c1, c2}
    Prefix <- MCPrefix
    EmptyListOk = TRUE
    MaxFaults = 1
    MaxInitId = 2
SPECIFICATION Spec
INVARIANTS ResultIsReal SingleAdd
SYMMETRY Symmetry
