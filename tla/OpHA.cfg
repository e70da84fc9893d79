\* Two Kea servers with different ids, a late prefix, a new provider or re-creation, a fault, a crash; fairness.
CONSTANTS
    Primary = kea1
    Secondary = kea2
    None = None
    Racing = FALSE
    BadPrefix = Bad
    n1 = n1  n2 = n2  w1 = w1  w2 = w2  p1 = p1  m1 = m1  m2 = m2  c1 = c1  c2 = c2  x1 = x1
    Proc = {p1}
    Worker = {w1}
    ProcOf <- OneProc
    NC = {n1}
    NcOf <- OneNc
    NN = {x1}
    NnName <- Named1
    Cidr = {c1}
    Mac = {m1}
    Specs <- KeaOrOther
    NnStates <- LatePrefix
    InitIds <- OtherIds
    LeaseIn <- NoLease1
    EmptyListOk = TRUE
    Strict = FALSE
    Deletable = {n1}
    Recreate = TRUE
    MaxConcurrent = 1
    MaxFaults = 1
    MaxEdits = 1
    MaxCrashes = 1
SPECIFICATION FairSpec
PROPERTIES EventuallyReady DeletionCompletes EventuallyOnPrimary
CHECK_DEADLOCK FALSE
