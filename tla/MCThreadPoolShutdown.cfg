SPECIFICATION FairSpec
CONSTANTS
    MAX_THREADS = 2
    ThreadCounts = {2}
    QueueSize = 3
    Conns = {c1}
    NoConn = NoConn
    Main = Main
    Nobody = Nobody
PROPERTY
    ShutdownCompletes
CHECK_DEADLOCK FALSE
