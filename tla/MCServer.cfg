SPECIFICATION ServerSpec
CONSTANTS
    MAX_THREADS = 2
    ThreadCounts = {2}
    QueueSize = 3
    Conns = {c1, c2}
    NoConn = NoConn
    Main = Main
    Nobody = Nobody
    Threads = {1, 2}
    NumSeats = 2
    Customers = {alice, bob}
    NoCustomer = NoCustomer
    STANDBY_SIZE = 1
    NoThread = NoThread
SYMMETRY Symmetry
INVARIANTS
    ServerTypeOK
    TruthfulReply
    ListingIsSnapshot
    StandbyConsistent
PROPERTIES
    ImplementsSeatBook
    OccupiedIsFinal
    OnlyHolderMoves
CHECK_DEADLOCK FALSE
