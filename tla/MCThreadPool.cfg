SPECIFICATION FairSpec
CONSTANTS
    MAX_THREADS = 2
    ThreadCounts = {1, 2}
    QueueSize = 3
    Conns = {c1, c2}
    NoConn = NoConn
    Main = Main
    Nobody = Nobody
INVARIANTS
    TypeOK
    HandlersSerialized
    NoTaskLost
    NoLostWakeup
    NoUseAfterDestroy
PROPERTIES
    ImplementsExecutor
    TasksServed
CHECK_DEADLOCK FALSE
