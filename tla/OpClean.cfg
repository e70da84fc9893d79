\* Two NCs that list one MAC, deletion, a crash, no other faults.
CONSTANTS
    Primary = kea1
    Secondary = None
    None = None
    Racing = FALSE
    BadPrefix = Bad
    n1 = n1  n2 = n2  w1 = w1  w2 = w2  p1 = p1  m1 = m1  m2 = m2  c1 = c1  c2 = c2  x1 = x1
    Proc = {p1}
    Worker = {w1, w2}
    ProcOf <- BothInP1
    NC = {n1, n2}
    NcOf <- TwoNcs
    NN = {x1}
    NnName <- OneNamed
    Cidr = {c1}
    Mac = {m1}
    Specs <- KeaShared
    NnStates <- FixedNn
    InitIds <- NoSubnets
    LeaseIn <- NoLease1
    EmptyListOk = TRUE
    Strict = FALSE
    Deletable = {n1}
    Recreate = FALSE
    MaxConcurrent = 2
    MaxFaults = 0
    MaxEdits = 0
    MaxCrashes = 1
SPECIFICATION Spec
INVARIANT NoOrphanReservations
PROPERTY ImplementsLedger
CHECK_DEADLOCK FALSE
