------------------------------- MODULE KmaBud -------------------------------
(***************************************************************************)
(* kma/kma_bud.c, the buddy allocator, called by the driver for the        *)
(* REQUEST and FREE lines of a trace.  A call of kma_malloc or kma_free is *)
(* one step.                                                               *)
(*                                                                         *)
(* Every page starts with a header: the number of blocks in use on the     *)
(* page and, for each block size, the list of its free blocks.  A block is *)
(* known by its offset from the start of its page.                         *)
(***************************************************************************)
EXTENDS KmaDriver, FiniteSets, FiniteSetsExt, SequencesExt

CONSTANTS
    Smallest,    \* bytes of the smallest block, a power of two (32)
    Levels,      \* how many times a page can be halved to get one of them
    AllocHeader, \* sizeof(allocheaderT)
    PageHeader   \* sizeof(pageheaderT)

ASSUME LevelsAssumption == {Smallest, Levels, AllocHeader, PageHeader} \subseteq Nat \ {0}

\* The powers of two up to the number of the smallest blocks on a page.
Pow2[n \in 0 .. Levels] == IF n = 0 THEN 1 ELSE 2 * Pow2[n - 1]

Buffers == {Smallest * Pow2[n] : n \in 0 .. Levels}

round_up(x) == Smallest * Pow2[Min({n \in 0 .. Levels : Smallest * Pow2[n] >= x})]

\* The page header leaves half a page, and its block, which is asked for without the
\* header in front of it, has room for both: on a 64-bit machine 24 and 168 bytes in
\* a block of 256.
ASSUME SizeAssumption ==
    /\ PAGESIZE = Smallest * Pow2[Levels]
    /\ 2 * (AllocHeader + PageHeader) <= PAGESIZE
    /\ AllocHeader + PageHeader <= round_up(PageHeader)

VARIABLES
    pages,    \* the list that starts with first_page
    header    \* the header of each page of the list

vars == <<pages, header, driverVars>>

\* The free list for a size: that of the smallest blocks that are large enough.
get_required_buffer(size) == Min({s \in Buffers : s >= size})

REALSIZE(size) == size + AllocHeader

EmptyLists == [s \in Buffers |-> <<>>]

NoHeader == [used |-> 0, free |-> EmptyLists]

Init ==
    /\ pages = <<>>
    /\ header = [p \in Page |-> NoHeader]
    /\ DriverInit
-----------------------------------------------------------------------------
(* Free lists of one page. *)

\* split_buffer: the first block of a size becomes two of half of it.
split_buffer(free, s) ==
    LET b == Head(free[s]) IN
    [free EXCEPT ![s] = Tail(@), ![s \div 2] = @ \o <<b, b + s \div 2>>]

\* The lists once the first block of size s has been split down to size need, which
\* takes at most one round per level.
Halve(h, need) ==
    IF h.size = need THEN h
    ELSE [free |-> split_buffer(h.free, h.size), size |-> h.size \div 2]

Carve(free, s, need) ==
    LET after[n \in 0 .. Levels] ==
            IF n = 0 THEN [free |-> free, size |-> s] ELSE Halve(after[n - 1], need)
    IN  after[Levels].free

\* The lists of a page fresh from init_page whose first block, that of the header,
\* has been split off and taken.
NewLists(block) ==
    LET free == Carve([EmptyLists EXCEPT ![PAGESIZE] = <<0>>], PAGESIZE, block)
    IN  [free EXCEPT ![block] = Tail(@)]

\* get_buddy: where the block that block b of size s was split from has its other half.
get_buddy(b, s) == IF (b \div s) % 2 = 1 THEN b - s ELSE b + s

\* kma_free links block b into the list of size s: at the front, or in front of the
\* first block after it, or, when no block is after it, not at all.
\* Mutant: always at the front.
Insert_front(list, b) == <<b>> \o list

Insert(list, b) ==
    LET later == {i \in 1 .. Len(list) : list[i] > b} IN
    IF list = <<>> THEN <<b>>
    ELSE IF later = {} THEN list
    ELSE InsertAt(list, Min(later), b)

\* Only a block that did not go to the front makes kma_free look for buddies to join.
Joins(list, b) == list # <<>> /\ list[1] <= b

\* The positions, in the list of size s, of a block followed by its buddy.
Pairs(free, s) == {i \in 1 .. Len(free[s]) - 1 : get_buddy(free[s][i], s) = free[s][i + 1]}

\* kma_free puts block b back; again says whether it goes on to coalesce.
\* A block of the size of a page is not put back: its page goes.
Link(free, b, size) ==
    LET s == get_required_buffer(size) IN
    IF round_up(size) = PAGESIZE
    THEN [free |-> free, again |-> FALSE]
    ELSE [free |-> [free EXCEPT ![s] = Insert(@, b)], again |-> Joins(free[s], b)]

\* One round of coalesce: the first pair of the smallest size leaves its list,
\* with all that is in front of it, and kma_free gets it back as one block.
\* Mutant: only the first half leaves the list.
Round_keepsBuddy(h) ==
    LET joinable == {s \in Buffers : Pairs(h.free, s) # {}}
        s == Min(joinable)
        i == Min(Pairs(h.free, s))
    IN  IF ~h.again \/ joinable = {}
        THEN [h EXCEPT !.again = FALSE]
        ELSE Link([h.free EXCEPT ![s] = SubSeq(@, i + 1, Len(@))], h.free[s][i], 2 * s)

Round(h) ==
    LET joinable == {s \in Buffers : Pairs(h.free, s) # {}}
        s == Min(joinable)
        i == Min(Pairs(h.free, s))
    IN  IF ~h.again \/ joinable = {}
        THEN [h EXCEPT !.again = FALSE]
        ELSE Link([h.free EXCEPT ![s] = SubSeq(@, i + 2, Len(@))], h.free[s][i], 2 * s)

\* Each round takes a block off the lists, so as many rounds as a page has blocks
\* of the smallest size are enough.
coalesce(h) ==
    LET after[n \in 0 .. Pow2[Levels]] == IF n = 0 THEN h ELSE Round(after[n - 1])
    IN  after[Pow2[Levels]].free
-----------------------------------------------------------------------------
(* kma_malloc.  k is the heap: the page list, the headers and the pool.    *)

Heap == [pages |-> pages, header |-> header, pool |-> pool]

HeapIs(k) == pages' = k.pages /\ header' = k.header /\ pool' = k.pool

\* init_page, and the first block of the page taken for the header.
AddPage(k, block) ==
    LET p == NextPage(k.pool) IN
    [pages |-> Append(k.pages, p),
     header |-> [k.header EXCEPT ![p] = [used |-> 0, free |-> NewLists(block)]],
     pool |-> get_page(k.pool)]

\* Before the first allocation kma_malloc calls itself for the header of the first page.
WithFirstPage(k) == IF k.pages = <<>> THEN AddPage(k, round_up(REALSIZE(PageHeader))) ELSE k

WithNewPage(k) == AddPage(k, round_up(PageHeader))

Need(size) == round_up(REALSIZE(size))

\* The sizes, from need upwards, with a free block, and the pages that have it.
Fitting(k, need) == {s \in Buffers : s >= need /\ \E p \in Range(k.pages) : k.header[p].free[s] # <<>>}

\* get_free_buffer looks through all the pages for one size before the next.
BestSize(k, need) == Min(Fitting(k, need))

BestPage(k, need) ==
    LET s == BestSize(k, need)
    IN  k.pages[Min({i \in 1 .. Len(k.pages) : k.header[k.pages[i]].free[s] # <<>>})]

\* The first block of that size on that page, split down to need, and the heap without it.
Taken(k, need) == Head(k.header[BestPage(k, need)].free[BestSize(k, need)])

Take(k, need) ==
    LET p == BestPage(k, need)
        free == Carve(k.header[p].free, BestSize(k, need), need)
    IN  [k EXCEPT !.header[p] = [used |-> @.used + 1, free |-> [free EXCEPT ![need] = Tail(@)]]]

\* The process ends.
Exit(v) ==
    /\ Ends(v)
    /\ pages' = <<>>
    /\ header' = [p \in Page |-> NoHeader]

\* kma_malloc finds a free block on one of its pages.
AllocateBlock(r, size) ==
    LET k == WithFirstPage(Heap) IN
    /\ Fitting(k, Need(size)) # {}
    /\ HeapIs(Take(k, Need(size)))
    /\ Grant(r, size, BestPage(k, Need(size)), Taken(k, Need(size)))

\* It finds none, appends a page to the list and looks again.
AllocateOnNewPage(r, size) ==
    LET k == WithFirstPage(Heap)
        new == WithNewPage(k)
    IN  /\ Fitting(k, Need(size)) = {} /\ Need(size) < PAGESIZE
        /\ ~Exhausted(k.pool)
        /\ HeapIs(Take(new, Need(size)))
        /\ Grant(r, size, BestPage(new, Need(size)), Taken(new, Need(size)))

\* More than half a page: the request gets all of a new page that follows the header.
\* Mutants: the free lists of the page are left as init_page and the header made
\* them; the block is not counted.
AllocateWholePage_keepsLists(r, size) ==
    LET k == WithFirstPage(Heap)
        new == WithNewPage(k)
        p == Last(new.pages)
    IN  /\ Need(size) = PAGESIZE
        /\ ~Exhausted(k.pool)
        /\ HeapIs([new EXCEPT !.header[p].used = @ + 1])
        /\ Grant(r, size, p, AllocHeader + PageHeader)

AllocateWholePage_uncounted(r, size) ==
    LET k == WithFirstPage(Heap)
        new == WithNewPage(k)
        p == Last(new.pages)
    IN  /\ Need(size) = PAGESIZE
        /\ ~Exhausted(k.pool)
        /\ HeapIs([new EXCEPT !.header[p].free = EmptyLists])
        /\ Grant(r, size, p, AllocHeader + PageHeader)

AllocateWholePage(r, size) ==
    LET k == WithFirstPage(Heap)
        new == WithNewPage(k)
        p == Last(new.pages)
    IN  /\ Need(size) = PAGESIZE
        /\ ~Exhausted(k.pool)
        /\ HeapIs([new EXCEPT !.header[p] = [used |-> @.used + 1, free |-> EmptyLists]])
        /\ Grant(r, size, p, AllocHeader + PageHeader)

\* get_page has no page left and ends the process.
OutOfPages(size) ==
    LET k == WithFirstPage(Heap) IN
    /\ Fitting(k, Need(size)) = {} /\ Exhausted(k.pool)
    /\ Exit("error")

TooBig(size) == REALSIZE(size) + PageHeader > PAGESIZE

\* kma_malloc returns NULL.
Refuse(size) ==
    /\ TooBig(size)
    /\ IF MayBeRefused(size) THEN UNCHANGED vars ELSE Exit("error")

\* A line REQUEST of the trace.
allocate(r, size) ==
    /\ Running /\ ~requests[r].used
    /\ \/ Refuse(size)
       \/ /\ ~TooBig(size)
          /\ \/ AllocateBlock(r, size)
             \/ AllocateOnNewPage(r, size)
             \/ AllocateWholePage(r, size)
             \/ OutOfPages(size)
-----------------------------------------------------------------------------
(* kma_free.                                                               *)

Released(p, b, size) ==
    [used |-> header[p].used - 1, free |-> coalesce(Link(header[p].free, b, size))]

\* Blocks remain on the page.
KeepPage(p, after) ==
    /\ after.used # 0
    /\ header' = [header EXCEPT ![p] = after]
    /\ UNCHANGED <<pages, pool>>

\* The page goes back to the pool; the first page of the list may become the next one.
\* Mutant: the page stays in the list.
DropPage_linked(p, after) ==
    /\ after.used = 0
    /\ header' = [header EXCEPT ![p] = NoHeader]
    /\ pages' = IF p = Head(pages) THEN Tail(pages) ELSE pages
    /\ pool' = free_page(pool, p)

DropPage(p, after) ==
    /\ after.used = 0
    /\ header' = [header EXCEPT ![p] = NoHeader]
    /\ pages' = RemoveAt(pages, CHOOSE i \in DOMAIN pages : pages[i] = p)
    /\ pool' = free_page(pool, p)

\* A line FREE of the trace.
deallocate(r) ==
    /\ Running /\ requests[r].used
    /\ LET p == requests[r].page
           after == Released(p, requests[r].offset, requests[r].size)
       IN  KeepPage(p, after) \/ DropPage(p, after)
    /\ requests' = [requests EXCEPT ![r] = Unused]
    /\ UNCHANGED verdict

\* The trace ends, or has a line that ends the process.
Stop ==
    /\ EndOfTrace \/ WrongLine
    /\ pages' = <<>>
    /\ header' = [p \in Page |-> NoHeader]

Next == Stop \/ \E r \in Requests : deallocate(r) \/ \E size \in Sizes : allocate(r, size)

Spec == Init /\ [][Next]_vars
-----------------------------------------------------------------------------
(* Properties.                                                             *)

\* The types of the allocator and of the driver.
\* In particular the count of blocks of a page never becomes negative.
TypeOK ==
    /\ pages \in Seq(Page)
    /\ \A p \in Page : header[p].used \in Nat /\ header[p].free \in [Buffers -> Seq(0 .. PAGESIZE)]
    /\ DriverTypeOK

\* The memory each request has.
Memory ==
    [r \in Requests |->
        [page |-> requests[r].page, offset |-> requests[r].offset, size |-> requests[r].size]]

A == INSTANCE Allocator WITH live <- Memory

\* Whatever is requested and freed, in whatever order, kma_malloc never hands out
\* memory that somebody has: the buddy system is an allocator.
ImplementsAllocator == A!Spec

\* The memory of page p by purpose: its header, the requests' blocks, the free blocks.
HeaderPart == [page |-> 0, offset |-> 0, size |-> AllocHeader + PageHeader]

LiveParts(p) ==
    {[page |-> 0, offset |-> requests[r].offset, size |-> requests[r].size] :
        r \in {q \in Live : requests[q].page = p}}

FreeParts(p) ==
    UNION {{[page |-> 0, offset |-> b, size |-> s] : b \in Range(header[p].free[s])} : s \in Buffers}

Parts(p) == {HeaderPart} \cup LiveParts(p) \cup FreeParts(p)

\* On every page the header, the blocks in use and the free blocks of all sizes are
\* apart from each other and inside the page: no free, split or join ever makes
\* a block free that overlaps one in use, or free twice.
NothingOverlaps ==
    \A p \in Range(pages) :
        /\ \A a, b \in Parts(p) : a = b \/ A!Disjoint(a, b)
        /\ \A a \in Parts(p) : a.offset + a.size <= PAGESIZE
        /\ LiveParts(p) \cap FreeParts(p) = {}

\* The free lists are ordered by address without repetition, and a block lies at a
\* multiple of its size: get_buddy, and the test alloc->next of coalesce, rest on it.
ListsOrdered ==
    \A p \in Range(pages), s \in Buffers :
        LET list == header[p].free[s] IN
        /\ \A i \in 1 .. Len(list) : list[i] % s = 0
        /\ \A i \in 1 .. Len(list) - 1 : list[i] < list[i + 1]

\* Pages are given back when the last block on them is, not before and not later:
\* the count of a page is the number of requests that have memory there, only the
\* first page may be without, and the pool has lent exactly the pages of the list.
PagesAccounted ==
    /\ \A r \in Live : requests[r].page \in Range(pages)
    /\ \A i \in 1 .. Len(pages) :
        LET p == pages[i] IN
        /\ header[p].used = Cardinality({r \in Live : requests[r].page = p})
        /\ i > 1 => header[p].used > 0
    /\ pool.num_in_use = Len(pages) /\ Cardinality(Range(pages)) = Len(pages)
    /\ Range(pages) \cap Range(pool.next_free_page) = {}

\* kma.c, at the end of a trace: when every request has been freed no page is in use
\* ("not all pages freed").
AllPagesFreed == Running /\ Live = {} => pool.num_in_use = 0

-----------------------------------------------------------------------------
(* The strengthenings that make the safety properties inductive; they are  *)
(* used by KmaBudProofs.                                                    *)

\* [a, a + m) and [b, b + n) have no byte in common.
Apart(a, m, b, n) == a + m <= b \/ b + n <= a

\* A block of size s lies on a multiple of s and inside the page.
Placed(b, s) == b \in Nat /\ b % s = 0 /\ b + s <= PAGESIZE

Ordered(list) == \A i, j \in DOMAIN list : i < j => list[i] < list[j]

\* Lists that are ordered, of blocks that are in place and apart.
FreeOK(free) ==
    /\ free \in [Buffers -> Seq(Nat)]
    /\ \A s \in Buffers : Ordered(free[s])
    /\ \A s \in Buffers : \A b \in Range(free[s]) : Placed(b, s)
    /\ \A s, t \in Buffers : \A b \in Range(free[s]), c \in Range(free[t]) :
          b # c \/ s # t => Apart(b, s, c, t)

\* The memory from a to a + n has no free block in it.
Clear(free, a, n) == \A s \in Buffers : \A b \in Range(free[s]) : Apart(b, s, a, n)

Headers == AllocHeader + PageHeader

\* What a request of a size holds: the block it has taken, or all that follows the
\* headers of a page.
Extent(size) == IF Need(size) = PAGESIZE THEN PAGESIZE - Headers ELSE Need(size)

LiveOn(p) == {r \in Live : requests[r].page = p}

\* A request's memory is behind the headers of a page: the rest of the page, or a
\* block as it was taken.
InPlace(m) ==
    /\ m.size \in Sizes /\ ~TooBig(m.size)
    /\ m.offset >= Headers
    /\ IF Need(m.size) = PAGESIZE THEN m.offset = Headers ELSE Placed(m.offset, Need(m.size))

MemoryApart(m, o) == Apart(m.offset, Extent(m.size), o.offset, Extent(o.size))

LiveInv ==
    /\ \A r \in Live : InPlace(requests[r])
    /\ \A r, q \in Live : r # q /\ requests[r].page = requests[q].page
                       => MemoryApart(requests[r], requests[q])

\* Heaps of pages that are lent, each once.
HeapTypeOK(k) ==
    /\ k \in [pages : Seq(Page),
              header : [Page -> [used : Nat, free : [Buffers -> Seq(Nat)]]],
              pool : Pool]
    /\ \A i, j \in DOMAIN k.pages : k.pages[i] = k.pages[j] => i = j
    /\ PoolMatches(k.pool, Range(k.pages))

\* Each page counts the requests on it, and its free lists are sound and leave the
\* headers and the requests' memory alone.
HeapOK(k) ==
    /\ HeapTypeOK(k)
    /\ \A p \in Page :
        /\ IsFiniteSet(LiveOn(p)) /\ k.header[p].used = Cardinality(LiveOn(p))
        /\ FreeOK(k.header[p].free)
    /\ \A p \in Range(k.pages) : Clear(k.header[p].free, 0, Headers)
    /\ \A r \in Live :
        LET m == requests[r] IN
        /\ m.page \in Range(k.pages)
        /\ Clear(k.header[m.page].free, m.offset, Extent(m.size))

\* Only the first page of the list may have no request.
BusyInv(k) == \A i \in DOMAIN k.pages : i > 1 => k.header[k.pages[i]].used > 0

RequestInv == \A r \in Requests : requests[r].used \/ requests[r] = Unused

IInv == DriverTypeOK /\ RequestInv /\ LiveInv /\ HeapOK(Heap) /\ BusyInv(Heap)
=============================================================================
