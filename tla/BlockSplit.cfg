SPECIFICATION Spec
CONSTANTS
    BlockSize = 2
    PageSize = 4
    MaxFile = 7
    MaxChanges = 1
    Files <- MCFiles
\* The cutting ends.
CHECK_DEADLOCK FALSE
INVARIANTS
    JobFitsBuffer
    WildWriteNeedsTruncation
    LinesParsedOnce
