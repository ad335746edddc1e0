SPECIFICATION ServerSpec
CONSTANTS
    MAX_THREADS = 1
    ThreadCounts = {1}
    QueueSize = 2
    Conns = {c1}
    NoConn = NoConn
    Main = Main
    Nobody = Nobody
    Threads = {1}
    NumSeats = 2
    Customers = {alice, bob}
    NoCustomer = NoCustomer
    STANDBY_SIZE = 1
    NoThread = NoThread
INVARIANT
    CancelGivesUp
CHECK_DEADLOCK FALSE
