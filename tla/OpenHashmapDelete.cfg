SPECIFICATION DeletingSpec
CONSTANTS
    Keys = {k1, k2, k3, k4}
    Hashes <- MCHashes
    Buckets0 = 3
    Amounts = {1}
    MaxAsked = 1
    Faults = {}
\* Every key reaches MaxAsked.
CHECK_DEADLOCK FALSE
PROPERTY DeleteKeepsOthers
