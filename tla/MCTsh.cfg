SPECIFICATION FairSpec
CONSTANT MaxPid = 2
INVARIANTS
    TypeOK
    TableMatchesChildren
    JobNumbers
    ForegroundIsWaitedFor
    SignalsOwnJobs
PROPERTY
    ZombiesReaped
CHECK_DEADLOCK FALSE
