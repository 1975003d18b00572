SPECIFICATION FairSpec
CONSTANTS
    MaxWorkers = 2
    NBlocks <- MCBlocks
    Faults = {"fopen"}
\* The analyser ends, or waits for ever when it is abandoned.
CHECK_DEADLOCK FALSE
PROPERTY DeadWorkerIsNoticed
