\* One NC of any provider and any NetworkNamespace, strict; faults.
CONSTANTS
    Primary = kea1
    Secondary = None
    None = None
    Racing = FALSE
    BadPrefix = Bad
    n1 = n1  n2 = n2  w1 = w1  w2 = w2  p1 = p1  m1 = m1  m2 = m2  c1 = c1  c2 = c2  x1 = x1
    Proc = {p1}
    Worker = {w1}
    ProcOf <- OneProc
    NC = {n1}
    NcOf <- OneNc
    NN = {x1}
    NnName <- Named1
    Cidr = {c1}
    Mac = {m1, m2}
    Specs <- AnySpec
    NnStates <- AnyNn
    InitIds <- NoSubnets
    LeaseIn <- LocalM1
    EmptyListOk = TRUE
    Strict = TRUE
    Deletable = {}
    Recreate = FALSE
    MaxConcurrent = 1
    MaxFaults = 1
    MaxEdits = 1
    MaxCrashes = 0
SPECIFICATION Spec
INVARIANTS TypeOK ReadyMeansReserved OnlyClaimedNCs
CHECK_DEADLOCK FALSE
