-------------------------------- MODULE KmaRm --------------------------------
(***************************************************************************)
(* kma/kma_rm.c, the resource map allocator: one list of the free blocks   *)
(* of all pages, ordered by address, searched for the first that fits.     *)
(*                                                                         *)
(* The list is kept in the memory it describes.  Its head is the first     *)
(* word of first_page; the first word of any other page points to the      *)
(* structure get_page returned, and the header of a free block is in the   *)
(* first bytes of the block.  A block is known by its page and its offset  *)
(* there.  When a header would be written over memory that is not free,    *)
(* the process is said to be damaged and is not followed any further.      *)
(***************************************************************************)
EXTENDS KmaDriver, FiniteSets, FiniteSetsExt, SequencesExt

CONSTANTS
    Header,      \* sizeof(blockheaderT)
    NoPage       \* first_page when it is NULL

ASSUME HeaderAssumption ==
    Header \in Nat \ {0} /\ Pointer <= Header /\ Header + Pointer < PAGESIZE /\ NoPage \notin Page

VARIABLES
    first_page,
    blocks,      \* the list FIRST_PAGE_BLOCK begins, NULL when it is empty
    culprit      \* the size whose header has damaged the process

vars == <<first_page, blocks, culprit, driverVars>>

REAL_PAGE_SIZE == PAGESIZE - Header

\* A page's memory: what follows its first word, REAL_PAGE_SIZE bytes of it.
PageEnd == Pointer + REAL_PAGE_SIZE

Area == Pointer .. PageEnd - 1

Block == [page : Page, offset : 0 .. PAGESIZE, size : 0 .. PAGESIZE]

Init == first_page = NoPage /\ blocks = <<>> /\ culprit = 0 /\ DriverInit

Before(a, b) == a.page < b.page \/ (a.page = b.page /\ a.offset < b.offset)

\* The blocks of the list that come after block b in memory, by their positions.
Later(list, b) == {i \in DOMAIN list : Before(b, list[i])}

\* The process ends.
Exit(v) == Ends(v) /\ first_page' = NoPage /\ blocks' = <<>> /\ UNCHANGED culprit

\* The memory each request has.
Memory ==
    [r \in Requests |->
        [page |-> requests[r].page, offset |-> requests[r].offset, size |-> requests[r].size]]

\* Memory by purpose, as bytes of a page: what requests have, and what is free.
LiveParts(p) == {Memory[r] : r \in {q \in Live : requests[q].page = p}}

FreeParts(list, p) == {b \in Range(list) : b.page = p}

Overlap(a, b) == a.offset < b.offset + b.size /\ b.offset < a.offset + a.size

\* The header of block b of the list overwrites memory that is not the block's: that
\* of another page, of a request, or of another block.
HeaderOver(parts, b) ==
    LET bytes == [b EXCEPT !.size = Header] IN
    b.offset + Header > PAGESIZE \/ \E part \in parts : Overlap(bytes, part)

Overwrites(list, b) == HeaderOver(LiveParts(b.page) \cup (FreeParts(list, b.page) \ {b}), b)

Damage(size) ==
    /\ Ends("damage")
    /\ first_page' = NoPage /\ blocks' = <<>>
    /\ culprit' = size
-----------------------------------------------------------------------------
(* kma_malloc.  h is the heap: the list and the pool.                       *)

Heap == [first |-> first_page, list |-> blocks, pool |-> pool]

HeapIs(h) ==
    /\ first_page' = h.first /\ blocks' = h.list /\ pool' = h.pool
    /\ UNCHANGED culprit

WholePage(p) == [page |-> p, offset |-> Pointer, size |-> REAL_PAGE_SIZE]

\* The first call obtains the first page, before it looks at the size.
WithFirstPage(h) ==
    IF h.first # NoPage THEN h
    ELSE [first |-> NextPage(h.pool), list |-> <<WholePage(NextPage(h.pool))>>, pool |-> get_page(h.pool)]

\* find_first_fit takes no block that would leave less than a header.
\* Mutant: it takes any block that is large enough.
Fits_exact(list, size) == {i \in DOMAIN list : list[i].size >= size}

Fits(list, size) == {i \in DOMAIN list : list[i].size >= size + Header}

\* update_malloc_headers gives up the front of a block.
Shrink(b, size) == [b EXCEPT !.offset = @ + size, !.size = @ - size]

AllocateFirstFit(r, size) ==
    LET h == WithFirstPage(Heap)
        i == Min(Fits(h.list, size))
        list == [h.list EXCEPT ![i] = Shrink(@, size)]
    IN  /\ Fits(h.list, size) # {}
        /\ IF Overwrites(list, list[i])
           THEN Damage(size)
           ELSE /\ HeapIs([h EXCEPT !.list = list])
                /\ Grant(r, size, h.list[i].page, h.list[i].offset)

\* new_page: the request gets the front of a page, and the rest of it is a block.
Rest(p, size) == Shrink(WholePage(p), size)

\* The rest goes in front of the first block after it, or to the end of the list.
\* A block that comes before all others has no previous_block to be linked to.
\* Mutants: the rest is linked at the end of the list whatever comes after it;
\* previous_block is never set.
Link_atEnd(list, b) == Append(list, b)

Link(list, b) == IF Later(list, b) = {} THEN Append(list, b) ELSE InsertAt(list, Min(Later(list, b)), b)

LinkFails_always(list, b) == Later(list, b) # {}

LinkFails(list, b) == 1 \in Later(list, b)

AllocateOnNewPage(r, size) ==
    LET h == WithFirstPage(Heap)
        p == NextPage(h.pool)
        rest == Rest(p, size)
    IN  /\ Fits(h.list, size) = {}
        /\ ~Exhausted(h.pool)
        /\ ~Overwrites(<<>>, rest) /\ ~LinkFails(h.list, rest)
        /\ HeapIs([h EXCEPT !.list = Link(@, rest), !.pool = get_page(@)])
        /\ Grant(r, size, p, Pointer)

\* The three ways in which new_page does not do its work.
NewPageFails(size) ==
    LET h == WithFirstPage(Heap)
        rest == Rest(NextPage(h.pool), size)
    IN  /\ Fits(h.list, size) = {}
        /\ \/ Exhausted(h.pool) /\ Exit("error")
           \/ ~Exhausted(h.pool) /\ Overwrites(<<>>, rest) /\ Damage(size)
           \/ ~Exhausted(h.pool) /\ ~Overwrites(<<>>, rest) /\ LinkFails(h.list, rest) /\ Exit("crash")

\* kma_malloc returns NULL.
Refuse(size) ==
    IF MayBeRefused(size)
    THEN HeapIs(WithFirstPage(Heap)) /\ UNCHANGED <<requests, verdict>>
    ELSE Exit("error")

\* A line REQUEST of the trace.
allocate(r, size) ==
    /\ Running /\ ~requests[r].used
    /\ \/ size > REAL_PAGE_SIZE /\ Refuse(size)
       \/ /\ size <= REAL_PAGE_SIZE
          /\ AllocateFirstFit(r, size) \/ AllocateOnNewPage(r, size) \/ NewPageFails(size)
-----------------------------------------------------------------------------
(* kma_free.                                                               *)

\* A block that comes after all free blocks is not put into the list.
Insert(list, b) == IF Later(list, b) = {} THEN list ELSE InsertAt(list, Min(Later(list, b)), b)

Adjacent(a, b) == a.page = b.page /\ a.offset + a.size = b.offset

\* coalesce goes through the list and joins a block with those that follow it.
\* Mutants: blocks are joined wherever they lie; the sizes are not added.
Join_anywhere(done, b) ==
    IF done # <<>> /\ Last(done).page = b.page
    THEN [done EXCEPT ![Len(done)].size = @ + b.size]
    ELSE Append(done, b)

Join_keepsSize(done, b) ==
    IF done # <<>> /\ Adjacent(Last(done), b) THEN done ELSE Append(done, b)

Join(done, b) ==
    IF done # <<>> /\ Adjacent(Last(done), b)
    THEN [done EXCEPT ![Len(done)].size = @ + b.size]
    ELSE Append(done, b)

coalesce(list) ==
    LET joined[n \in 0 .. Len(list)] == IF n = 0 THEN <<>> ELSE Join(joined[n - 1], list[n])
    IN  joined[Len(list)]

Without(list, b) == RemoveAt(list, CHOOSE i \in DOMAIN list : list[i] = b)

\* clear_empty_pages walks along the list h.list has when it starts.  prev says
\* what previous is: NULL, a block of the list, or one whose page has just gone,
\* through which nothing can be relinked.
Clear(h, list, i) ==
    LET b == list[i] IN
    IF b.size # REAL_PAGE_SIZE THEN [h EXCEPT !.prev = "listed"]
    ELSE IF b.page # h.first /\ h.prev # "null"
    THEN [h EXCEPT !.list = IF h.prev = "listed" THEN Without(@, b) ELSE @,
                   !.pool = free_page(@, b.page), !.prev = "gone"]
    ELSE IF b.page # h.first
    THEN [h EXCEPT !.list = SubSeq(list, i + 1, Len(list)),
                   !.pool = free_page(@, b.page), !.prev = "gone"]
    ELSE IF i < Len(list)
    THEN [first |-> list[i + 1].page, list |-> SubSeq(list, i + 1, Len(list)),
          pool |-> free_page(h.pool, h.first), prev |-> "gone"]
    ELSE [first |-> NoPage, list |-> <<>>, pool |-> free_page(h.pool, h.first), prev |-> "gone"]

clear_empty_pages(h) ==
    LET walk[i \in 0 .. Len(h.list)] ==
            IF i = 0
            THEN [first |-> h.first, list |-> h.list, pool |-> h.pool, prev |-> "null"]
            ELSE Clear(walk[i - 1], h.list, i)
        end == walk[Len(h.list)]
    IN  [first |-> end.first, list |-> end.list, pool |-> end.pool]

Freed(b) == clear_empty_pages([Heap EXCEPT !.list = coalesce(Insert(@, b))])

\* A line FREE of the trace.
deallocate(r) ==
    LET b == Memory[r]
        others == LiveParts(b.page) \ {b}
    IN  /\ Running /\ requests[r].used
        /\ IF Later(blocks, b) # {} /\ HeaderOver(others \cup FreeParts(blocks, b.page), b)
           THEN Damage(b.size)
           ELSE /\ HeapIs(Freed(b))
                /\ requests' = [requests EXCEPT ![r] = Unused]
                /\ UNCHANGED verdict

\* The trace ends, or has a line that ends the process.
Stop ==
    /\ EndOfTrace \/ WrongLine
    /\ first_page' = NoPage /\ blocks' = <<>>
    /\ UNCHANGED culprit

Next == Stop \/ \E r \in Requests : deallocate(r) \/ \E size \in Sizes : allocate(r, size)

Spec == Init /\ [][Next]_vars
-----------------------------------------------------------------------------
(* Properties.                                                             *)

TypeOK ==
    /\ DriverTypeOK
    /\ first_page \in Page \cup {NoPage}
    /\ blocks \in Seq(Block)
    /\ culprit \in Sizes \cup {0}

A == INSTANCE Allocator WITH live <- Memory

\* Whatever is requested and freed, in whatever order, kma_malloc never hands out
\* memory that somebody has: the resource map is an allocator.
ImplementsAllocator == A!Spec

\* The pages that have a free block.
Pages == {b.page : b \in Range(blocks)}

\* Byte x of page p is in block b.
Has(b, p, x) == b.page = p /\ b.offset <= x /\ x < b.offset + b.size

\* Between two calls no memory is lost, free twice, or both free and in use: the
\* blocks and the requests' memory are apart and together make up every page the
\* pool has lent, in whatever order they were split off and freed; and a page other
\* than the first is lent only as long as some request has memory there.
NothingLost ==
    /\ \A r \in Live : requests[r].page \in Pages
    /\ pool.num_in_use = Cardinality(Pages)
    /\ \A p \in Pages :
        LET parts == LiveParts(p) \cup FreeParts(blocks, p) IN
        /\ \A a, b \in parts : a = b \/ A!Disjoint(a, b)
        /\ LiveParts(p) \cap FreeParts(blocks, p) = {}
        /\ \A a \in parts : a.offset >= Pointer /\ a.offset + a.size <= PageEnd
        /\ \A x \in Area : \E a \in parts : Has(a, p, x)
        /\ p # first_page => LiveParts(p) # {}

\* What kma_free rests on: the list begins on the first page, is ordered by address
\* without two blocks that could be one, and has a block behind all that is in use
\* on a page.  Without the last part a block could come back and find no place in
\* the list.
ListComplete ==
    /\ first_page = IF blocks = <<>> THEN NoPage ELSE Head(blocks).page
    /\ \A i \in 1 .. Len(blocks) - 1 :
        Before(blocks[i], blocks[i + 1]) /\ ~Adjacent(blocks[i], blocks[i + 1])
    /\ \A r \in Live : \E b \in Range(blocks) :
        b.page = requests[r].page /\ b.offset >= requests[r].offset + requests[r].size

\* Only two kinds of sizes make a header fall on memory that is not free: one too
\* small for a header, when the block comes back, and one so large that the header
\* of the rest does not fit on its page.  No trace of other sizes does, in whatever
\* order the blocks are split, freed and joined.
DamageIsBySize ==
    verdict = "damage" => culprit < Header \/ culprit > PAGESIZE - Pointer - Header

\* new_page crashes only when the pool returns a page below the first one: the
\* first page must have been given back before.
CrashNeedsLowerPage ==
    [][Running /\ verdict' = "crash"
        => ~Exhausted(pool) /\ first_page # NoPage /\ NextPage(pool) < first_page]_vars
-----------------------------------------------------------------------------
(* The strengthening that makes the safety properties inductive; it is     *)
(* used by KmaRmProofs.                                                    *)

\* A block with some memory, inside the memory of its page.
Piece == {b \in Block : b.size > 0 /\ b.offset >= Pointer /\ b.offset + b.size <= PageEnd}

\* Block a ends at least k bytes before block b begins, or lies on a page before.
Precedes(a, b, k) == a.page < b.page \/ (a.page = b.page /\ a.offset + a.size + k <= b.offset)

\* Ordered by address, without overlap; with k = 1 no two blocks could be one.
Spaced(list, k) == \A i, j \in DOMAIN list : i < j => Precedes(list[i], list[j], k)

PagesOf(list) == {b.page : b \in Range(list)}

FirstOf(list) == IF list = <<>> THEN NoPage ELSE Head(list).page

FreeAt(list, p, x) == \E b \in Range(list) : Has(b, p, x)

TakenAt(taken, p, x) == \E m \in taken : Has(m, p, x)

\* The list and the memory taken: every byte of a page is free or taken and not both,
\* and the last one is never taken.
MapOK(list, taken) ==
    /\ taken \subseteq Piece
    /\ \A m \in taken : m.page \in PagesOf(list)
    /\ \A p \in PagesOf(list) :
        /\ \A x \in Area : FreeAt(list, p, x) <=> ~TakenAt(taken, p, x)
        /\ FreeAt(list, p, PageEnd - 1)

HeapOK(h, taken) ==
    /\ h.list \in Seq(Piece) /\ Spaced(h.list, 1)
    /\ MapOK(h.list, taken)
    /\ h.first = FirstOf(h.list)
    /\ PoolMatches(h.pool, PagesOf(h.list))
    /\ \A p \in PagesOf(h.list) \ {h.first} : \E m \in taken : m.page = p

Taken == {Memory[r] : r \in Live}

RequestInv == \A r \in Requests : requests[r].used \/ requests[r] = Unused

LiveInv ==
    /\ \A r \in Live : requests[r].size \in Sizes
    /\ \A r, q \in Live : r # q => A!Disjoint(Memory[r], Memory[q])

CulpritInv == culprit \in Sizes \cup {0} /\ DamageIsBySize

IInv == DriverTypeOK /\ RequestInv /\ LiveInv /\ CulpritInv /\ HeapOK(Heap, Taken)
=============================================================================
