SPECIFICATION FairSpec
CONSTANTS
    MaxWorkers = 2
    NBlocks <- MCBlocks
    Faults <- FaultKinds
\* The analyser ends, or waits for ever when it is abandoned.
CHECK_DEADLOCK FALSE
INVARIANTS
    CountedOnce
    ReportComplete
    ReleaseAfterQuiet
    ReadsOwnBlock
PROPERTIES
    EndsUnlessAbandoned
    ImplementsTally
