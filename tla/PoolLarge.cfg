\* Prefixes of at most 29 bits.
CONSTANTS
    Address <- MCOctets
    Length = {0, 1, 7, 8, 9, 15, 16, 17, 23, 24, 25, 26, 27, 28, 29}
SPECIFICATION Spec
INVARIANTS PoolInNetwork LargeAccepted
CHECK_DEADLOCK FALSE
