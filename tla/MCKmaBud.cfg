SPECIFICATION Spec
CONSTANTS
    MAXPAGES = 3
    PAGESIZE = 512
    Smallest = 32
    Levels = 4
    AllocHeader = 24
    PageHeader = 168
    Pointer = 8
    Requests = {r1, r2, r3, r4}
    Sizes = {40, 100, 110, 240, 300, 400, 510}
SYMMETRY Symmetry
INVARIANTS TypeOK NothingOverlaps ListsOrdered PagesAccounted
PROPERTY ImplementsAllocator
CHECK_DEADLOCK FALSE
