------------------------------- MODULE KmaPage -------------------------------
(***************************************************************************)
(* kma/kma_page.c: the pool of MAXPAGES equal pages that the allocators    *)
(* take their memory from.  The pages nobody has form a stack, linked      *)
(* through their first words; the pool itself is obtained with the first   *)
(* page and released with the last.  The allocators keep the pool in a     *)
(* variable of theirs and call these operators.                            *)
(***************************************************************************)
EXTENDS Naturals, Sequences, FiniteSets

CONSTANTS MAXPAGES, PAGESIZE

ASSUME PoolAssumption == MAXPAGES \in Nat \ {0} /\ PAGESIZE \in Nat \ {0}

\* A page is known by its position in the pool, so pages compare as their
\* addresses do.
Page == 0 .. MAXPAGES - 1

Pool == [pool : BOOLEAN, next_free_page : Seq(Page), num_in_use : Nat]

NoPool == [pool |-> FALSE, next_free_page |-> <<>>, num_in_use |-> 0]

\* initPages links every page to the one after it.
initPages == [i \in 1 .. MAXPAGES |-> i - 1]

FreePages(p) == IF p.pool THEN p.next_free_page ELSE initPages

\* get_page would end the process ("all pages already allocated").
Exhausted(p) == FreePages(p) = <<>>

\* The page get_page returns, and the pool afterwards.
NextPage(p) == Head(FreePages(p))

\* Mutant: the page is not counted.
get_page_uncounted(p) ==
    [pool |-> TRUE, next_free_page |-> Tail(FreePages(p)), num_in_use |-> p.num_in_use]

get_page(p) ==
    [pool |-> TRUE, next_free_page |-> Tail(FreePages(p)), num_in_use |-> p.num_in_use + 1]

\* The last page to come back takes the pool with it.
free_page(p, page) ==
    IF p.num_in_use = 1
    THEN NoPool
    ELSE [p EXCEPT !.next_free_page = <<page>> \o @, !.num_in_use = @ - 1]

\* The pool and the pages that are lent: it counts them, the stack has every other
\* page once, and there is no pool when none is lent.
PoolMatches(p, lent) ==
    /\ p \in Pool
    /\ lent \subseteq Page
    /\ p.num_in_use = Cardinality(lent)
    /\ lent = {} => p = NoPool
    /\ lent # {} =>
        /\ p.pool
        /\ \A m, n \in DOMAIN p.next_free_page :
              p.next_free_page[m] = p.next_free_page[n] => m = n
        /\ {p.next_free_page[n] : n \in DOMAIN p.next_free_page} = Page \ lent
=============================================================================
