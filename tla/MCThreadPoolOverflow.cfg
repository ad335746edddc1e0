SPECIFICATION FairSpec
CONSTANTS
    MAX_THREADS = 2
    ThreadCounts = {2}
    QueueSize = 2
    Conns = {c1, c2}
    NoConn = NoConn
    Main = Main
    Nobody = Nobody
INVARIANT
    NoTaskLost
CHECK_DEADLOCK FALSE
