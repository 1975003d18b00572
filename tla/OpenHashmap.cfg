SPECIFICATION MapSpec
CONSTANTS
    Keys = {k1, k2, k3, k4}
    Hashes <- MCHashes
    Buckets0 = 3
    Amounts = {1}
    MaxAsked = 2
    Faults <- FaultKinds
\* Every key reaches MaxAsked.
CHECK_DEADLOCK FALSE
SYMMETRY MCSymmetry
INVARIANTS
    EveryNodeFound
PROPERTY ImplementsCounters
