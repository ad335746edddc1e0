------------------------------ MODULE KmaRmProofs ------------------------------
(***************************************************************************)
(* Proofs about KmaRm, the resource map allocator: its types, that no      *)
(* memory is lost or used twice, that the list has what kma_free rests on, *)
(* what can damage or crash it, and that it implements Allocator.          *)
(*                                                                         *)
(* The invariant is about bytes: on every page that is lent each byte is   *)
(* either in a block of the list or some request's, and the last byte of a *)
(* page is always in the list.  Splitting, inserting and joining blocks    *)
(* are then statements about the same bytes.                               *)
(***************************************************************************)
EXTENDS KmaRm, KmaProofs

LEMMA Constants ==
    /\ PAGESIZE \in Nat \ {0} /\ Header \in Nat \ {0} /\ Pointer \in Nat \ {0}
    /\ Pointer <= Header /\ Sizes \subseteq Nat \ {0}
    /\ REAL_PAGE_SIZE \in Nat \ {0} /\ REAL_PAGE_SIZE = PAGESIZE - Header
    /\ Pointer < REAL_PAGE_SIZE
    /\ PageEnd \in Nat /\ PageEnd = Pointer + REAL_PAGE_SIZE
    /\ PageEnd <= PAGESIZE /\ Pointer < PageEnd
    /\ NoPage \notin Page /\ MAXPAGES \in Nat \ {0}
BY HeaderAssumption, TraceAssumption, PoolAssumption DEF REAL_PAGE_SIZE, PageEnd

LEMMA PieceIs ==
    ASSUME NEW b \in Piece
    PROVE  /\ b.page \in Page /\ b.page \in Nat /\ b.offset \in Nat /\ b.size \in Nat \ {0}
           /\ b.offset >= Pointer /\ b.offset + b.size <= PageEnd
           /\ b = [page |-> b.page, offset |-> b.offset, size |-> b.size]
BY Constants DEF Piece, Block, Page

LEMMA PieceOf ==
    ASSUME NEW p \in Page, NEW a \in Nat, NEW n \in Nat \ {0}, a >= Pointer, a + n <= PageEnd
    PROVE  [page |-> p, offset |-> a, size |-> n] \in Piece
BY Constants DEF Piece, Block

-----------------------------------------------------------------------------
(* The order of the blocks. *)

LEMMA PrecedesTransitive ==
    ASSUME NEW a \in Piece, NEW b \in Piece, NEW c \in Piece, NEW k \in {0, 1},
           Precedes(a, b, k), Precedes(b, c, k)
    PROVE  Precedes(a, c, k)
BY PieceIs DEF Precedes

LEMMA PrecedesIsBefore ==
    ASSUME NEW a \in Piece, NEW b \in Piece, NEW k \in {0, 1}, Precedes(a, b, k)
    PROVE  Before(a, b) /\ ~Before(b, a) /\ a # b /\ Precedes(a, b, 0)
BY PieceIs DEF Precedes, Before

\* Two blocks in order that could not be one have memory between them.
LEMMA ApartFromNext ==
    ASSUME NEW a \in Piece, NEW b \in Piece, Precedes(a, b, 0), ~Adjacent(a, b)
    PROVE  Precedes(a, b, 1)
<1>1. a.page \in Nat /\ a.offset \in Nat /\ a.size \in Nat
  BY PieceIs
<1>2. b.page \in Nat /\ b.offset \in Nat /\ b.size \in Nat
  BY PieceIs
<1>3. CASE a.page = b.page
  <2>1. a.offset + a.size <= b.offset /\ a.offset + a.size # b.offset
    BY <1>1, <1>2, <1>3 DEF Precedes, Adjacent
  <2>2. a.offset + a.size + 1 <= b.offset
    BY <1>1, <1>2, <2>1
  <2> QED BY <1>3, <2>2 DEF Precedes
<1>4. CASE a.page # b.page
  BY <1>4 DEF Precedes
<1> QED BY <1>3, <1>4

\* A block that keeps only its end keeps its place in the order.
LEMMA EndKeepsPlace ==
    ASSUME NEW b \in Piece, NEW d \in Piece, NEW u \in Piece, d.page = b.page,
           d.offset >= b.offset, d.offset + d.size = b.offset + b.size
    PROVE  /\ Precedes(b, u, 1) => Precedes(d, u, 1)
           /\ Precedes(u, b, 1) => Precedes(u, d, 1)
<1>1. b.offset \in Nat /\ b.size \in Nat /\ d.offset \in Nat /\ d.size \in Nat
  BY PieceIs
<1>2. u.offset \in Nat /\ u.size \in Nat
  BY PieceIs
<1>3. b.offset + b.size + 1 <= u.offset => d.offset + d.size + 1 <= u.offset
  BY <1>1, <1>2
<1>4. u.offset + u.size + 1 <= b.offset => u.offset + u.size + 1 <= d.offset
  BY <1>1, <1>2
<1> QED BY <1>3, <1>4 DEF Precedes

LEMMA SpacedWeakly ==
    ASSUME NEW list \in Seq(Piece), Spaced(list, 1)
    PROVE  Spaced(list, 0)
<1> SUFFICES ASSUME NEW i \in 1 .. Len(list), NEW j \in 1 .. Len(list), i < j
             PROVE  Precedes(list[i], list[j], 0)
  BY DEF Spaced
<1>1. list[i] \in Piece /\ list[j] \in Piece /\ Precedes(list[i], list[j], 1)
  BY DEF Spaced
<1> QED BY <1>1, PrecedesIsBefore

\* Linking a block in front of the first that comes after it keeps the order.
LEMMA LinkIs ==
    ASSUME NEW list \in Seq(Piece), NEW k \in {0, 1}, Spaced(list, k), NEW b \in Piece,
           \A c \in Range(list) : Precedes(c, b, k) \/ Precedes(b, c, k),
           NEW n, n = Link(list, b)
    PROVE  n \in Seq(Piece) /\ Spaced(n, k) /\ Range(n) = Range(list) \cup {b}
<1>1. PICK len \in Nat : len = Len(list) /\ DOMAIN list = 1 .. len
  OBVIOUS
<1>2. \A j \in 1 .. len : list[j] \in Piece
  BY <1>1
<1>3. ASSUME NEW j \in 1 .. len
      PROVE  IF j \in Later(list, b) THEN Precedes(b, list[j], k) ELSE Precedes(list[j], b, k)
  <2>1. Precedes(list[j], b, k) \/ Precedes(b, list[j], k)
    BY <1>1 DEF Range
  <2>2. j \in Later(list, b) <=> Before(b, list[j])
    BY <1>1 DEF Later
  <2> QED BY <1>2, <2>1, <2>2, PrecedesIsBefore
<1>4. CASE Later(list, b) = {}
  <2>1. n = Append(list, b)
    BY <1>4 DEF Link
  <2>2. /\ n \in Seq(Piece) /\ DOMAIN n = 1 .. len + 1
        /\ \A j \in 1 .. len : n[j] = list[j]
        /\ n[len + 1] = b
    BY <1>1, <2>1, AppendIs
  <2>3. ASSUME NEW i \in 1 .. len + 1, NEW j \in 1 .. len + 1, i < j PROVE Precedes(n[i], n[j], k)
    <3>1. i \in 1 .. len /\ n[i] = list[i] /\ (j \in 1 .. len \/ j = len + 1)
      BY <2>2, <2>3
    <3>2. CASE j = len + 1
      BY <1>3, <1>4, <2>2, <3>1, <3>2
    <3>3. CASE j \in 1 .. len
      BY <1>1, <2>2, <2>3, <3>1, <3>3 DEF Spaced
    <3> QED BY <3>1, <3>2, <3>3
  <2>4. Range(n) = Range(list) \cup {b}
    <3>1. ASSUME NEW e \in Range(n) PROVE e \in Range(list) \cup {b}
      <4>1. PICK j \in 1 .. len + 1 : e = n[j]
        BY <2>2 DEF Range
      <4>2. j \in 1 .. len \/ j = len + 1
        OBVIOUS
      <4> QED BY <1>1, <2>2, <4>1, <4>2 DEF Range
    <3>2. ASSUME NEW j \in 1 .. len PROVE list[j] \in Range(n)
      <4>1. j \in DOMAIN n
        BY <2>2
      <4> QED BY <2>2, <4>1 DEF Range
    <3>3. b \in Range(n)
      <4>1. len + 1 \in DOMAIN n
        BY <2>2
      <4> QED BY <2>2, <4>1 DEF Range
    <3> QED BY <1>1, <3>1, <3>2, <3>3 DEF Range
  <2> QED BY <2>2, <2>3, <2>4 DEF Spaced
<1>5. CASE Later(list, b) # {}
  <2>1. PICK i : i = Min(Later(list, b))
    OBVIOUS
  <2>2. i \in Later(list, b) /\ \A j \in Later(list, b) : i <= j
    <3>1. Later(list, b) \in SUBSET Nat
      BY <1>1 DEF Later
    <3> QED BY <1>5, <2>1, <3>1, MinIsLeast
  <2>3. i \in 1 .. Len(list) /\ i \in 1 .. len
    BY <1>1, <2>2 DEF Later
  <2>4. n = InsertAt(list, i, b)
    BY <1>5, <2>1 DEF Link
  <2>5. n \in Seq(Piece) /\ Len(n) = len + 1
    BY <1>1, <2>3, <2>4, InsertAtLen
  <2>6. n[i] = b
    BY <2>3, <2>4, InsertAtNew
  <2>7. /\ \A j \in 1 .. Len(list) : j < i => n[j] = list[j]
        /\ \A j \in 1 .. Len(list) : j >= i => n[j + 1] = list[j]
    BY <2>3, <2>4, InsertAtOld
  <2>8. DOMAIN n = 1 .. len + 1
    BY <2>5
  <2> DEFINE was(j) == IF j < i THEN j ELSE j - 1
  <2>9. ASSUME NEW j \in 1 .. len + 1, j # i
        PROVE  was(j) \in 1 .. len /\ n[j] = list[was(j)] /\ (was(j) < i <=> j < i)
    <3>1. CASE j < i
      BY <1>1, <2>3, <2>7, <3>1
    <3>2. CASE j > i
      <4>1. PICK m \in 1 .. len : m = j - 1 /\ m >= i /\ j = m + 1
        BY <2>3, <3>2
      <4>2. n[m + 1] = list[m]
        BY <1>1, <2>7, <4>1
      <4> QED BY <2>3, <3>2, <4>1, <4>2
    <3> QED BY <2>3, <2>9, <3>1, <3>2
  <2>10. ASSUME NEW j \in 1 .. len, j < i PROVE Precedes(list[j], b, k)
    <3>1. j \notin Later(list, b)
      BY <2>2, <2>3, <2>10
    <3> QED BY <1>3, <3>1
  <2>11. ASSUME NEW j \in 1 .. len, j >= i PROVE Precedes(b, list[j], k)
    <3>1. Precedes(b, list[i], k)
      BY <1>3, <2>2, <2>3
    <3>2. j = i \/ Precedes(list[i], list[j], k)
      BY <1>1, <2>3, <2>11 DEF Spaced
    <3> QED BY <1>2, <2>3, <3>1, <3>2, PrecedesTransitive
  <2>12. ASSUME NEW l \in 1 .. len + 1, NEW j \in 1 .. len + 1, l < j PROVE Precedes(n[l], n[j], k)
    <3>1. CASE l = i
      <4>1. j # i /\ ~(j < i) /\ i \in Nat
        BY <2>3, <2>12, <3>1
      <4>2. was(j) \in 1 .. len /\ n[j] = list[was(j)] /\ was(j) >= i
        BY <2>9, <4>1
      <4> QED BY <2>6, <2>11, <3>1, <4>2
    <3>2. CASE j = i
      <4>1. l # i /\ l < i
        BY <2>3, <2>12, <3>2
      <4>2. was(l) \in 1 .. len /\ n[l] = list[was(l)] /\ was(l) < i
        BY <2>9, <4>1
      <4> QED BY <2>6, <2>10, <3>2, <4>2
    <3>3. CASE l # i /\ j # i
      <4>1. /\ was(l) \in 1 .. len /\ n[l] = list[was(l)]
            /\ was(j) \in 1 .. len /\ n[j] = list[was(j)]
        BY <2>9, <3>3
      <4>2. was(l) < was(j)
        BY <2>3, <2>12, <3>3
      <4> HIDE DEF was
      <4> QED BY <1>1, <4>1, <4>2 DEF Spaced
    <3> QED BY <3>1, <3>2, <3>3
  <2>13. Range(n) = Range(list) \cup {b}
    <3>1. ASSUME NEW e \in Range(n) PROVE e \in Range(list) \cup {b}
      <4>1. PICK j \in 1 .. len + 1 : e = n[j]
        BY <2>8 DEF Range
      <4>2. CASE j = i
        BY <2>6, <4>1, <4>2
      <4>3. CASE j # i
        <5>1. was(j) \in 1 .. len /\ e = list[was(j)]
          BY <2>9, <4>1, <4>3
        <5> QED BY <1>1, <5>1 DEF Range
      <4> QED BY <4>2, <4>3
    <3>2. ASSUME NEW j \in 1 .. len PROVE list[j] \in Range(n)
      <4>1. CASE j < i
        <5>1. n[j] = list[j] /\ j \in DOMAIN n
          BY <1>1, <2>7, <2>8, <4>1
        <5> QED BY <5>1 DEF Range
      <4>2. CASE j >= i
        <5>1. n[j + 1] = list[j] /\ j + 1 \in DOMAIN n
          BY <1>1, <2>7, <2>8, <4>2
        <5> QED BY <5>1 DEF Range
      <4> QED BY <2>3, <4>1, <4>2
    <3>3. b \in Range(n)
      BY <2>3, <2>6, <2>8 DEF Range
    <3> QED BY <1>1, <3>1, <3>2, <3>3 DEF Range
  <2> QED BY <2>5, <2>8, <2>12, <2>13 DEF Spaced
<1> QED BY <1>4, <1>5

-----------------------------------------------------------------------------
(* Bytes, pages and the first page. *)

LEMMA HasIs ==
    ASSUME NEW b \in Piece, NEW p, NEW x \in Nat, Has(b, p, x)
    PROVE  p = b.page /\ p \in Page /\ x \in Area
BY PieceIs, Constants DEF Has, Area

LEMMA UnionOfBytes ==
    ASSUME NEW a \in Nat, NEW m \in Nat, NEW n \in Nat, NEW x \in Nat
    PROVE  a <= x /\ x < a + (m + n) <=> (a <= x /\ x < a + m) \/ (a + m <= x /\ x < (a + m) + n)
OBVIOUS

\* A block that is the union of two has the bytes of both.
LEMMA HasUnion ==
    ASSUME NEW d \in Piece, NEW c \in Piece, NEW b \in Piece, c.page = b.page, d.page = b.page,
           d.offset = c.offset, c.offset + c.size = b.offset, d.size = c.size + b.size,
           NEW p, NEW x \in Nat
    PROVE  Has(d, p, x) <=> Has(c, p, x) \/ Has(b, p, x)
<1>1. c.offset \in Nat /\ c.size \in Nat /\ b.size \in Nat
  BY PieceIs
<1>2. PICK a, m, n : a = c.offset /\ m = c.size /\ n = b.size
  OBVIOUS
<1>3. a <= x /\ x < a + (m + n) <=> (a <= x /\ x < a + m) \/ (a + m <= x /\ x < (a + m) + n)
  BY <1>1, <1>2, UnionOfBytes
<1>4. Has(d, p, x) <=> p = b.page /\ a <= x /\ x < a + (m + n)
  BY <1>2 DEF Has
<1>5. Has(c, p, x) <=> p = b.page /\ a <= x /\ x < a + m
  BY <1>2 DEF Has
<1>6. Has(b, p, x) <=> p = b.page /\ a + m <= x /\ x < (a + m) + n
  BY <1>2 DEF Has
<1> QED BY <1>3, <1>4, <1>5, <1>6

LEMMA PagesByBytes ==
    ASSUME NEW list \in Seq(Piece), NEW p \in Page
    PROVE  p \in PagesOf(list) <=> \E x \in Nat : FreeAt(list, p, x)
<1>1. ASSUME p \in PagesOf(list) PROVE \E x \in Nat : FreeAt(list, p, x)
  <2>1. PICK b \in Range(list) : b.page = p
    BY <1>1 DEF PagesOf
  <2>2. b \in Piece
    BY InRange
  <2>3. Has(b, p, b.offset) /\ b.offset \in Nat
    BY <2>1, <2>2, PieceIs DEF Has
  <2> QED BY <2>3 DEF FreeAt
<1>2. ASSUME NEW x \in Nat, FreeAt(list, p, x) PROVE p \in PagesOf(list)
  BY <1>2 DEF FreeAt, Has, PagesOf
<1> QED BY <1>1, <1>2

LEMMA PagesArePages ==
    ASSUME NEW list \in Seq(Piece)
    PROVE  PagesOf(list) \subseteq Page
<1> SUFFICES ASSUME NEW b \in Range(list) PROVE b.page \in Page
  BY DEF PagesOf
<1>1. b \in Piece
  BY InRange
<1> QED BY <1>1, PieceIs

\* The list begins on the lowest of its pages.
LEMMA FirstIs ==
    ASSUME NEW list \in Seq(Piece), NEW k \in {0, 1}, Spaced(list, k)
    PROVE  /\ list # <<>> => FirstOf(list) \in PagesOf(list) /\ \A p \in PagesOf(list) : FirstOf(list) <= p
           /\ list = <<>> => FirstOf(list) = NoPage /\ PagesOf(list) = {}
<1>1. CASE list = <<>>
  BY <1>1 DEF FirstOf, PagesOf, Range
<1>2. CASE list # <<>>
  <2>1. 1 \in DOMAIN list /\ FirstOf(list) = list[1].page /\ DOMAIN list = 1 .. Len(list)
    BY <1>2 DEF FirstOf
  <2>2. FirstOf(list) \in PagesOf(list)
    BY <2>1 DEF PagesOf, Range
  <2>3. ASSUME NEW p \in PagesOf(list) PROVE FirstOf(list) <= p
    <3>1. PICK j \in DOMAIN list : list[j].page = p
      BY DEF PagesOf, Range
    <3>2. list[1] \in Piece /\ list[j] \in Piece
      BY <2>1
    <3>3. j = 1 \/ Precedes(list[1], list[j], k)
      BY <2>1 DEF Spaced
    <3> QED BY <2>1, <3>1, <3>2, <3>3, PieceIs DEF Precedes
  <2> QED BY <1>2, <2>2, <2>3
<1> QED BY <1>1, <1>2

LEMMA SameFirst ==
    ASSUME NEW list \in Seq(Piece), Spaced(list, 0), NEW n \in Seq(Piece), Spaced(n, 0),
           PagesOf(n) = PagesOf(list)
    PROVE  FirstOf(n) = FirstOf(list)
<1>1. \A p \in PagesOf(list) : p \in Nat
  BY PagesArePages DEF Page
<1>2. /\ list # <<>> => FirstOf(list) \in PagesOf(list) /\ \A p \in PagesOf(list) : FirstOf(list) <= p
      /\ list = <<>> => FirstOf(list) = NoPage /\ PagesOf(list) = {}
  BY FirstIs
<1>3. /\ n # <<>> => FirstOf(n) \in PagesOf(n) /\ \A p \in PagesOf(n) : FirstOf(n) <= p
      /\ n = <<>> => FirstOf(n) = NoPage /\ PagesOf(n) = {}
  BY FirstIs
<1>4. CASE list = <<>> \/ n = <<>>
  BY <1>2, <1>3, <1>4
<1>5. CASE list # <<>> /\ n # <<>>
  BY <1>1, <1>2, <1>3, <1>5
<1> QED BY <1>4, <1>5

\* Lists of the same bytes describe the memory equally well.
LEMMA SameBytes ==
    ASSUME NEW list \in Seq(Piece), NEW n \in Seq(Piece),
           \A p \in Page, x \in Nat : FreeAt(n, p, x) <=> FreeAt(list, p, x)
    PROVE  /\ PagesOf(n) = PagesOf(list)
           /\ \A taken : MapOK(list, taken) => MapOK(n, taken)
<1>1. PagesOf(n) = PagesOf(list)
  BY PagesByBytes, PagesArePages
<1>2. Area \subseteq Nat /\ PageEnd - 1 \in Nat
  BY Constants DEF Area
<1>3. ASSUME NEW taken, MapOK(list, taken) PROVE MapOK(n, taken)
  <2>1. PagesOf(list) \subseteq Page
    BY PagesArePages
  <2>2. ASSUME NEW p \in PagesOf(n), NEW x \in Area PROVE FreeAt(n, p, x) <=> ~TakenAt(taken, p, x)
    BY <1>1, <1>2, <1>3, <2>1 DEF MapOK
  <2>3. ASSUME NEW p \in PagesOf(n) PROVE FreeAt(n, p, PageEnd - 1)
    BY <1>1, <1>2, <1>3, <2>1 DEF MapOK
  <2> QED BY <1>1, <1>3, <2>2, <2>3 DEF MapOK
<1> QED BY <1>1, <1>3

\* What is taken and what is free have no byte in common.
LEMMA TakenApart ==
    ASSUME NEW list \in Seq(Piece), NEW taken, MapOK(list, taken),
           NEW m \in taken, NEW b \in Range(list)
    PROVE  A!Disjoint(m, b)
<1>1. m \in Piece /\ b \in Piece
  BY InRange DEF MapOK
<1> SUFFICES ASSUME m.page = b.page,
                    m.offset < b.offset + b.size, b.offset < m.offset + m.size
             PROVE  FALSE
  BY <1>1, PieceIs DEF A!Disjoint
<1>2. PICK x \in Nat : x = IF m.offset >= b.offset THEN m.offset ELSE b.offset
  BY <1>1, PieceIs
<1>3. Has(m, m.page, x) /\ Has(b, m.page, x)
  BY <1>1, <1>2, PieceIs DEF Has
<1>4. x \in Area /\ m.page \in PagesOf(list)
  BY <1>1, <1>3, HasIs DEF MapOK
<1>5. FreeAt(list, m.page, x) /\ TakenAt(taken, m.page, x)
  BY <1>3 DEF FreeAt, TakenAt
<1> QED BY <1>4, <1>5 DEF MapOK

\* Behind all that is taken on a page there is a block of the list.
LEMMA BlockBehind ==
    ASSUME NEW list \in Seq(Piece), NEW taken, MapOK(list, taken), NEW m \in taken
    PROVE  \E b \in Range(list) : b.page = m.page /\ b.offset >= m.offset + m.size
<1>1. m \in Piece /\ FreeAt(list, m.page, PageEnd - 1)
  BY DEF MapOK
<1>2. PICK b \in Range(list) : Has(b, m.page, PageEnd - 1)
  BY <1>1 DEF FreeAt
<1>3. b \in Piece /\ A!Disjoint(m, b)
  BY InRange, TakenApart
<1>4. /\ b.offset \in Nat /\ b.size \in Nat /\ b.offset + b.size <= PageEnd
      /\ m.offset \in Nat /\ m.size \in Nat \ {0} /\ m.offset + m.size <= PageEnd
      /\ PageEnd \in Nat
  BY <1>1, <1>3, PieceIs, Constants
<1>5. b.page = m.page /\ PageEnd - 1 < b.offset + b.size
  BY <1>2 DEF Has
<1>6. m.offset + m.size <= b.offset \/ b.offset + b.size <= m.offset
  BY <1>3, <1>5 DEF A!Disjoint
<1> QED BY <1>4, <1>5, <1>6

-----------------------------------------------------------------------------
(* coalesce. *)

\* What the first n blocks of the list have become: ordered blocks of the same bytes,
\* no two of which could be one; the last of them ends where the n-th block does.
Joined(g, list, n) ==
    /\ g \in Seq(Piece) /\ Spaced(g, 1)
    /\ \A p \in Page, x \in Nat : FreeAt(g, p, x) <=> \E j \in 1 .. n : Has(list[j], p, x)
    /\ n = 0 => g = <<>>
    /\ n > 0 => /\ g # <<>> /\ Last(g).page = list[n].page
                /\ Last(g).offset + Last(g).size = list[n].offset + list[n].size

LEMMA JoinedInside ==
    ASSUME NEW a \in Nat, NEW m \in Nat \ {0}, NEW b \in Nat, NEW n \in Nat \ {0}, NEW e,
           a + m = b, b + n <= e
    PROVE  m + n \in Nat \ {0} /\ a + (m + n) <= e
<1>1. a + (m + n) = b + n
  OBVIOUS
<1> QED BY <1>1

LEMMA JoinKeeps ==
    ASSUME NEW list \in Seq(Piece), Spaced(list, 0), NEW n \in Nat, n + 1 \in 1 .. Len(list),
           NEW g, Joined(g, list, n), NEW h, h = Join(g, list[n + 1])
    PROVE  Joined(h, list, n + 1)
<1>1. PICK b : b = list[n + 1]
  OBVIOUS
<1>2. /\ b \in Piece /\ b.page \in Nat /\ b.offset \in Nat /\ b.size \in Nat \ {0}
      /\ b.offset + b.size <= PageEnd
  <2>1. b \in Piece
    BY <1>1
  <2> QED BY <2>1, PieceIs
<1>3. PICK len \in Nat : len = Len(g) /\ DOMAIN g = 1 .. len
  BY DEF Joined
<1>4. g \in Seq(Piece) /\ \A j \in 1 .. len : g[j] \in Piece
  BY <1>3 DEF Joined
<1>5. \A i, j \in 1 .. len : i < j => Precedes(g[i], g[j], 1)
  BY <1>3 DEF Joined, Spaced
<1>6. ASSUME NEW p \in Page, NEW x \in Nat,
             FreeAt(h, p, x) <=> FreeAt(g, p, x) \/ Has(b, p, x)
      PROVE  FreeAt(h, p, x) <=> \E j \in 1 .. n + 1 : Has(list[j], p, x)
  <2>1. FreeAt(g, p, x) <=> \E j \in 1 .. n : Has(list[j], p, x)
    BY DEF Joined
  <2>2. (\E j \in 1 .. n + 1 : Has(list[j], p, x)) <=> (\E j \in 1 .. n : Has(list[j], p, x)) \/ Has(b, p, x)
    BY <1>1
  <2> QED BY <1>6, <2>1, <2>2
<1>7. g # <<>> =>
        /\ len \in 1 .. len /\ Last(g) = g[len] /\ n > 0
        /\ g[len].page = list[n].page /\ g[len].offset + g[len].size = list[n].offset + list[n].size
        /\ Precedes(g[len], b, 0)
  <2> SUFFICES ASSUME g # <<>>
               PROVE  /\ len \in 1 .. len /\ Last(g) = g[len] /\ n > 0
                      /\ g[len].page = list[n].page
                      /\ g[len].offset + g[len].size = list[n].offset + list[n].size
                      /\ Precedes(g[len], b, 0)
    OBVIOUS
  <2>1. len \in 1 .. len /\ Last(g) = g[len] /\ n > 0
    BY <1>3, <1>4 DEF Joined, Last
  <2>2. g[len].page = list[n].page /\ g[len].offset + g[len].size = list[n].offset + list[n].size
    BY <2>1 DEF Joined
  <2>3. n \in DOMAIN list /\ n + 1 \in DOMAIN list /\ n < n + 1
    BY <2>1
  <2>4. Precedes(list[n], b, 0)
    BY <1>1, <2>3 DEF Spaced
  <2>5. list[n] \in Piece /\ g[len] \in Piece
    BY <1>4, <2>1, <2>3
  <2>6. Precedes(g[len], b, 0)
    BY <1>2, <2>2, <2>4, <2>5, PieceIs DEF Precedes
  <2> QED BY <2>1, <2>2, <2>6
<1>8. CASE g # <<>> /\ Adjacent(Last(g), b)
  <2>1. PICK c : c = g[len]
    OBVIOUS
  <2>2. /\ len \in 1 .. len /\ c \in Piece /\ c.page = b.page /\ c.offset + c.size = b.offset
    BY <1>4, <1>7, <1>8, <2>1 DEF Adjacent
  <2>0. /\ c.page \in Page /\ c.offset \in Nat /\ c.size \in Nat \ {0} /\ c.offset >= Pointer
        /\ c = [page |-> c.page, offset |-> c.offset, size |-> c.size]
    BY <2>2, PieceIs
  <2>3. PICK d : d = [c EXCEPT !.size = @ + b.size]
    OBVIOUS
  <2>4. d.page = c.page /\ d.offset = c.offset /\ d.size = c.size + b.size /\ d \in Piece
    <3>1. d = [page |-> c.page, offset |-> c.offset, size |-> c.size + b.size]
      BY <2>3, <2>0
    <3>2. c.size + b.size \in Nat \ {0} /\ c.offset + (c.size + b.size) <= PageEnd
      <4>1. PICK a, m, o, k : a = c.offset /\ m = c.size /\ o = b.offset /\ k = b.size
        OBVIOUS
      <4>2. /\ a \in Nat /\ m \in Nat \ {0} /\ o \in Nat /\ k \in Nat \ {0}
            /\ a + m = o /\ o + k <= PageEnd
        BY <1>2, <2>2, <2>0, <4>1
      <4>3. m + k \in Nat \ {0} /\ a + (m + k) <= PageEnd
        BY <4>2, JoinedInside
      <4> QED BY <4>1, <4>3
    <3> QED BY <2>0, <3>1, <3>2, PieceOf
  <2>5. h = [g EXCEPT ![len] = d]
    BY <1>1, <1>3, <1>8, <2>1, <2>3 DEF Join
  <2>6. /\ h \in Seq(Piece) /\ Len(h) = len /\ DOMAIN h = 1 .. len
        /\ h[len] = d /\ \A j \in 1 .. len : j # len => h[j] = g[j]
    BY <1>3, <1>4, <2>2, <2>4, <2>5
  <2>7. ASSUME NEW i \in 1 .. len, NEW j \in 1 .. len, i < j PROVE Precedes(h[i], h[j], 1)
    <3>1. h[i] = g[i]
      BY <2>6, <2>7
    <3>2. CASE j = len
      <4>1. Precedes(g[i], c, 1) /\ g[i] \in Piece
        BY <1>4, <1>5, <2>1, <2>7, <3>2
      <4> QED BY <2>2, <2>4, <2>6, <3>1, <3>2, <4>1 DEF Precedes
    <3>3. CASE j # len
      BY <1>5, <2>6, <2>7, <3>1, <3>3
    <3> QED BY <3>2, <3>3
  <2>8. ASSUME NEW p \in Page, NEW x \in Nat
        PROVE  FreeAt(h, p, x) <=> FreeAt(g, p, x) \/ Has(b, p, x)
    <3>1. Has(d, p, x) <=> Has(c, p, x) \/ Has(b, p, x)
      <4>1. /\ d \in Piece /\ c \in Piece /\ b \in Piece /\ c.page = b.page /\ d.page = b.page
            /\ d.offset = c.offset /\ c.offset + c.size = b.offset /\ d.size = c.size + b.size
        BY <1>2, <2>2, <2>4
      <4> QED BY <4>1, HasUnion
    <3>2. FreeAt(h, p, x) <=> \E j \in 1 .. len : Has(h[j], p, x)
      BY <2>6 DEF FreeAt, Range
    <3>3. FreeAt(g, p, x) <=> \E j \in 1 .. len : Has(g[j], p, x)
      BY <1>3 DEF FreeAt, Range
    <3> QED BY <2>1, <2>2, <2>6, <3>1, <3>2, <3>3
  <2>9. \A p \in Page, x \in Nat : FreeAt(h, p, x) <=> \E j \in 1 .. n + 1 : Has(list[j], p, x)
    BY <1>6, <2>8
  <2>10. h # <<>> /\ Last(h) = d
    BY <2>2, <2>6 DEF Last
  <2>11. d.page = b.page /\ d.offset + d.size = b.offset + b.size
    BY <1>2, <2>2, <2>4, <2>0
  <2> QED BY <1>1, <2>6, <2>7, <2>9, <2>10, <2>11 DEF Joined, Spaced
<1>9. CASE ~(g # <<>> /\ Adjacent(Last(g), b))
  <2>1. h = Append(g, b)
    BY <1>1, <1>9 DEF Join
  <2>2. /\ h \in Seq(Piece) /\ DOMAIN h = 1 .. len + 1
        /\ \A j \in 1 .. len : h[j] = g[j]
        /\ h[len + 1] = b
        /\ h # <<>> /\ Last(h) = b
    BY <1>2, <1>3, <1>4, <2>1, AppendIs
  <2>3. ASSUME NEW i \in 1 .. len PROVE Precedes(g[i], b, 1)
    <3>1. g # <<>>
      BY <1>3
    <3>2. Precedes(g[len], b, 1) /\ g[len] \in Piece
      <4>1. Precedes(g[len], b, 0) /\ ~Adjacent(g[len], b) /\ g[len] \in Piece
        BY <1>4, <1>7, <1>9, <3>1
      <4>2. Precedes(g[len], b, 1)
        BY <1>2, <4>1, ApartFromNext
      <4> QED BY <4>1, <4>2
    <3>3. i = len \/ Precedes(g[i], g[len], 1)
      BY <1>5
    <3> QED BY <1>2, <1>4, <3>2, <3>3, PrecedesTransitive
  <2>4. ASSUME NEW i \in 1 .. len + 1, NEW j \in 1 .. len + 1, i < j PROVE Precedes(h[i], h[j], 1)
    <3>1. i \in 1 .. len /\ h[i] = g[i] /\ (j \in 1 .. len \/ j = len + 1)
      BY <2>2, <2>4
    <3>2. CASE j = len + 1
      BY <2>2, <2>3, <3>1, <3>2
    <3>3. CASE j \in 1 .. len
      BY <1>5, <2>2, <2>4, <3>1, <3>3
    <3> QED BY <3>1, <3>2, <3>3
  <2>5. ASSUME NEW p \in Page, NEW x \in Nat
        PROVE  FreeAt(h, p, x) <=> FreeAt(g, p, x) \/ Has(b, p, x)
    <3>1. FreeAt(h, p, x) <=> \E j \in 1 .. len + 1 : Has(h[j], p, x)
      BY <2>2 DEF FreeAt, Range
    <3>2. FreeAt(g, p, x) <=> \E j \in 1 .. len : Has(g[j], p, x)
      BY <1>3 DEF FreeAt, Range
    <3> QED BY <2>2, <3>1, <3>2
  <2>6. \A p \in Page, x \in Nat : FreeAt(h, p, x) <=> \E j \in 1 .. n + 1 : Has(list[j], p, x)
    BY <1>6, <2>5
  <2> QED BY <1>1, <2>2, <2>4, <2>6 DEF Joined, Spaced
<1> QED BY <1>8, <1>9

\* The function coalesce is defined by exists.
IsJoined(g, list, n) ==
    g = [i \in 0 .. n |-> IF i = 0 THEN <<>> ELSE Join(g[i - 1], list[i])]

LEMMA JoinedExists ==
    ASSUME NEW list \in Seq(Piece), NEW N \in Nat
    PROVE  \E g : IsJoined(g, list, N)
<1> DEFINE S == {n \in Nat : \E g : IsJoined(g, list, n)}
<1>1. 0 \in S
  <2> DEFINE g == [i \in 0 .. 0 |-> <<>>]
  <2>1. g = [i \in 0 .. 0 |-> IF i = 0 THEN <<>> ELSE Join(g[i - 1], list[i])]
    OBVIOUS
  <2> QED BY <2>1 DEF IsJoined
<1>2. ASSUME NEW n \in S PROVE n + 1 \in S
  <2>1. n \in Nat /\ n + 1 \in Nat
    OBVIOUS
  <2>2. PICK g : IsJoined(g, list, n)
    OBVIOUS
  <2> DEFINE h == [i \in 0 .. n + 1 |-> IF i = n + 1 THEN Join(g[n], list[n + 1]) ELSE g[i]]
  <2>3. ASSUME NEW i \in 0 .. n + 1
        PROVE  h[i] = IF i = 0 THEN <<>> ELSE Join(h[i - 1], list[i])
    <3>1. CASE i = n + 1
      <4>1. h[i] = Join(g[n], list[n + 1]) /\ h[i - 1] = g[n] /\ i # 0
        BY <2>1, <3>1
      <4> QED BY <3>1, <4>1
    <3>2. CASE i # n + 1
      <4>1. i \in 0 .. n /\ h[i] = g[i] /\ (i # 0 => h[i - 1] = g[i - 1])
        BY <2>1, <3>2
      <4>2. g[i] = IF i = 0 THEN <<>> ELSE Join(g[i - 1], list[i])
        BY <2>2, <4>1 DEF IsJoined
      <4> QED BY <4>1, <4>2
    <3> QED BY <3>1, <3>2
  <2>4. IsJoined(h, list, n + 1)
    <3>1. h = [i \in 0 .. n + 1 |-> h[i]]
      OBVIOUS
    <3> HIDE DEF h
    <3> QED BY <2>3, <3>1 DEF IsJoined
  <2> QED BY <2>1, <2>4
<1>3. S = Nat
  <2>1. S \in SUBSET Nat
    OBVIOUS
  <2> HIDE DEF S
  <2> QED BY <1>1, <1>2, <2>1, Induction
<1> QED BY <1>3

\* coalesce leaves the bytes of the list as they are.
LEMMA CoalesceIs ==
    ASSUME NEW list \in Seq(Piece), Spaced(list, 0), NEW n, n = coalesce(list)
    PROVE  /\ n \in Seq(Piece) /\ Spaced(n, 1)
           /\ \A p \in Page, x \in Nat : FreeAt(n, p, x) <=> FreeAt(list, p, x)
<1> DEFINE joined[i \in 0 .. Len(list)] == IF i = 0 THEN <<>> ELSE Join(joined[i - 1], list[i])
<1>1. PICK len \in Nat : len = Len(list) /\ DOMAIN list = 1 .. len
  OBVIOUS
<1>2. n = joined[len]
  BY <1>1 DEF coalesce
<1>3. PICK g : IsJoined(g, list, len)
  BY <1>1, JoinedExists
<1>4. g = [i \in 0 .. Len(list) |-> IF i = 0 THEN <<>> ELSE Join(g[i - 1], list[i])]
  BY <1>1, <1>3 DEF IsJoined
<1>5. joined = [i \in 0 .. Len(list) |-> IF i = 0 THEN <<>> ELSE Join(joined[i - 1], list[i])]
  BY <1>4
<1> HIDE DEF joined
<1>6. joined[0] = <<>> /\ \A i \in 1 .. len : joined[i] = Join(joined[i - 1], list[i])
  BY <1>1, <1>5
<1> DEFINE S == {i \in Nat : i <= len => Joined(joined[i], list, i)}
<1>7. 0 \in S
  <2>1. <<>> \in Seq(Piece) /\ Spaced(<<>>, 1)
    BY DEF Spaced
  <2>2. \A p \in Page, x \in Nat : FreeAt(<<>>, p, x) <=> \E j \in 1 .. 0 : Has(list[j], p, x)
    BY DEF FreeAt, Range
  <2>3. Joined(<<>>, list, 0)
    BY <2>1, <2>2 DEF Joined
  <2> QED BY <1>6, <2>3
<1>8. ASSUME NEW i \in S PROVE i + 1 \in S
  <2>1. i \in Nat /\ i + 1 \in Nat
    OBVIOUS
  <2> SUFFICES ASSUME i + 1 <= len PROVE Joined(joined[i + 1], list, i + 1)
    BY <2>1
  <2>2. Joined(joined[i], list, i) /\ i + 1 \in 1 .. Len(list)
    BY <1>1, <2>1
  <2>3. joined[i + 1] = Join(joined[i], list[i + 1])
    BY <1>1, <1>6, <2>1, <2>2
  <2> QED BY <2>1, <2>2, <2>3, JoinKeeps
<1>9. S = Nat
  <2>1. S \in SUBSET Nat
    OBVIOUS
  <2> HIDE DEF S
  <2> QED BY <1>7, <1>8, <2>1, Induction
<1>10. Joined(n, list, len)
  BY <1>2, <1>9
<1>11. ASSUME NEW p \in Page, NEW x \in Nat PROVE FreeAt(n, p, x) <=> FreeAt(list, p, x)
  <2>1. FreeAt(n, p, x) <=> \E j \in 1 .. len : Has(list[j], p, x)
    BY <1>10 DEF Joined
  <2> QED BY <1>1, <2>1 DEF FreeAt, Range
<1> QED BY <1>10, <1>11 DEF Joined

-----------------------------------------------------------------------------
(* clear_empty_pages. *)

IsWhole(b) == b.size = REAL_PAGE_SIZE

LEMMA NoRoomBeside ==
    ASSUME NEW a \in Nat, NEW o \in Nat, NEW n \in Nat \ {0}, NEW k \in Nat, NEW p \in Nat, NEW r \in Nat,
           a >= p, o >= p, o + n <= p + r, a + r <= p + r
    PROVE  ~(a + r + k <= o) /\ ~(o + n + k <= a)
<1>1. a = p
  OBVIOUS
<1>2. ~(a + r + k <= o)
  BY <1>1
<1>3. ~(o + n + k <= a)
  BY <1>1
<1> QED BY <1>2, <1>3

\* A block of a whole page is the only one there.
LEMMA WholeAlone ==
    ASSUME NEW list \in Seq(Piece), NEW k \in {0, 1}, Spaced(list, k),
           NEW b \in Range(list), NEW c \in Range(list), IsWhole(b), c.page = b.page
    PROVE  c = b
<1>1. PICK i \in 1 .. Len(list), j \in 1 .. Len(list) : b = list[i] /\ c = list[j]
  BY InRange
<1>2. /\ b.page \in Nat /\ b.offset \in Nat /\ b.size \in Nat \ {0}
      /\ b.offset >= Pointer /\ b.offset + b.size <= PageEnd
  <2>1. b \in Piece
    BY <1>1
  <2> QED BY <2>1, PieceIs
<1>3. /\ c.page \in Nat /\ c.offset \in Nat /\ c.size \in Nat \ {0}
      /\ c.offset >= Pointer /\ c.offset + c.size <= PageEnd
  <2>1. c \in Piece
    BY <1>1
  <2> QED BY <2>1, PieceIs
<1>4. /\ i < j => Precedes(b, c, k)
      /\ j < i => Precedes(c, b, k)
  BY <1>1 DEF Spaced
<1>5. b.size = REAL_PAGE_SIZE /\ REAL_PAGE_SIZE \in Nat /\ PageEnd = Pointer + REAL_PAGE_SIZE /\ Pointer \in Nat
  BY Constants DEF IsWhole
<1>6. ~Precedes(b, c, k) /\ ~Precedes(c, b, k)
  <2>1. k \in Nat /\ ~(b.page < c.page) /\ ~(c.page < b.page)
    BY <1>2, <1>3
  <2>4. PICK a, o, m, e, r : a = b.offset /\ o = c.offset /\ m = c.size /\ e = Pointer /\ r = REAL_PAGE_SIZE
    OBVIOUS
  <2>5. /\ a \in Nat /\ o \in Nat /\ m \in Nat \ {0} /\ e \in Nat /\ r \in Nat
        /\ a >= e /\ o >= e /\ o + m <= e + r /\ a + r <= e + r
    BY <1>2, <1>3, <1>5, <2>4
  <2>6. ~(a + r + k <= o) /\ ~(o + m + k <= a)
    BY <2>1, <2>5, NoRoomBeside
  <2>2. ~(b.offset + b.size + k <= c.offset)
    BY <1>5, <2>4, <2>6
  <2>3. ~(c.offset + c.size + k <= b.offset)
    BY <2>4, <2>6
  <2> QED BY <2>1, <2>2, <2>3 DEF Precedes
<1> QED BY <1>1, <1>4, <1>6

LEMMA SpacedDistinct ==
    ASSUME NEW list \in Seq(Piece), NEW k \in {0, 1}, Spaced(list, k)
    PROVE  \A m, n \in DOMAIN list : list[m] = list[n] => m = n
<1> SUFFICES ASSUME NEW m \in 1 .. Len(list), NEW n \in 1 .. Len(list), list[m] = list[n], m # n PROVE FALSE
  OBVIOUS
<1>1. list[m] \in Piece /\ list[n] \in Piece
  OBVIOUS
<1>2. Precedes(list[m], list[n], k) \/ Precedes(list[n], list[m], k)
  BY DEF Spaced
<1> QED BY <1>1, <1>2, PrecedesIsBefore

\* What Without and SubSeq leave of a list.
LEMMA WithoutIs ==
    ASSUME NEW list \in Seq(Piece), Spaced(list, 1), NEW b \in Range(list),
           NEW n, n = Without(list, b)
    PROVE  n \in Seq(Piece) /\ Spaced(n, 1) /\ Range(n) = Range(list) \ {b}
<1>1. PICK i : i = CHOOSE j \in DOMAIN list : list[j] = b
  OBVIOUS
<1>2. i \in 1 .. Len(list) /\ list[i] = b
  <2>1. \E j \in DOMAIN list : list[j] = b
    BY InRange
  <2> QED BY <1>1, <2>1
<1>3. n = RemoveAt(list, i)
  BY <1>1 DEF Without
<1>4. n \in Seq(Piece) /\ Len(n) = Len(list) - 1 /\ Range(n) = Range(list) \ {b}
  BY <1>2, <1>3, SpacedDistinct, RemoveOneIs
<1>5. \A j \in 1 .. Len(list) - 1 : j < i => n[j] = list[j]
  <2>1. \A j \in 1 .. Len(list) - 1 : j < i => RemoveAt(list, i)[j] = list[j]
    BY <1>2, RemoveAtIs
  <2> QED BY <1>3, <2>1, Zenon
<1>6. \A j \in 1 .. Len(list) - 1 : j >= i => n[j] = list[j + 1]
  <2>1. \A j \in 1 .. Len(list) - 1 : j >= i => RemoveAt(list, i)[j] = list[j + 1]
    BY <1>2, RemoveAtIs
  <2> QED BY <1>3, <2>1, Zenon
<1> DEFINE was(j) == IF j < i THEN j ELSE j + 1
<1>7. ASSUME NEW j \in 1 .. Len(list) - 1 PROVE was(j) \in 1 .. Len(list) /\ n[j] = list[was(j)]
  BY <1>2, <1>5, <1>6
<1>8. DOMAIN n = 1 .. Len(list) - 1
  BY <1>4
<1>9. ASSUME NEW l \in 1 .. Len(list) - 1, NEW j \in 1 .. Len(list) - 1, l < j
      PROVE  Precedes(n[l], n[j], 1)
  <2>1. was(l) \in 1 .. Len(list) /\ n[l] = list[was(l)] /\ was(j) \in 1 .. Len(list) /\ n[j] = list[was(j)]
    BY <1>7
  <2>2. was(l) < was(j)
    BY <1>2, <1>9
  <2> HIDE DEF was
  <2> QED BY <2>1, <2>2 DEF Spaced
<1> QED BY <1>4, <1>8, <1>9 DEF Spaced

\* The blocks of the list from the i-th on.
From(list, i) == {list[j] : j \in i .. Len(list)}

LEMMA SuffixIs ==
    ASSUME NEW list \in Seq(Piece), Spaced(list, 1), NEW i \in 1 .. Len(list) + 1,
           NEW n, n = SubSeq(list, i, Len(list))
    PROVE  /\ n \in Seq(Piece) /\ Spaced(n, 1) /\ Range(n) = From(list, i)
           /\ i <= Len(list) => FirstOf(n) = list[i].page
           /\ i = Len(list) + 1 => n = <<>>
<1>1. PICK len \in Nat : len = Len(list) /\ DOMAIN list = 1 .. len
  OBVIOUS
<1>2. /\ n \in Seq(Piece) /\ Len(n) = len - i + 1 /\ DOMAIN n = 1 .. len - i + 1
      /\ \A j \in 1 .. len - i + 1 : n[j] = list[i + j - 1]
  BY <1>1
<1>3. Spaced(n, 1)
  <2> SUFFICES ASSUME NEW l \in 1 .. len - i + 1, NEW j \in 1 .. len - i + 1, l < j
               PROVE  Precedes(n[l], n[j], 1)
    BY <1>2 DEF Spaced
  <2>1. /\ i + l - 1 \in DOMAIN list /\ i + j - 1 \in DOMAIN list /\ i + l - 1 < i + j - 1
    BY <1>1
  <2> QED BY <1>2, <2>1 DEF Spaced
<1>4. Range(n) = From(list, i)
  <2>1. ASSUME NEW e \in Range(n) PROVE \E j \in i .. len : e = list[j]
    <3>1. PICK j \in 1 .. len - i + 1 : e = n[j]
      BY <1>2 DEF Range
    <3>2. i + j - 1 \in i .. len
      BY <1>1
    <3> QED BY <1>2, <3>1, <3>2
  <2>2. ASSUME NEW j \in i .. len PROVE list[j] \in Range(n)
    <3>1. PICK m \in 1 .. len - i + 1 : i + m - 1 = j
      <4>1. j - i + 1 \in 1 .. len - i + 1 /\ i + (j - i + 1) - 1 = j
        BY <1>1
      <4> QED BY <4>1
    <3>2. n[m] = list[j]
      BY <1>2, <3>1
    <3> QED BY <1>2, <3>2 DEF Range
  <2> QED BY <1>1, <2>1, <2>2 DEF From
<1>5. i <= Len(list) => FirstOf(n) = list[i].page
  <2> SUFFICES ASSUME i <= Len(list) PROVE FirstOf(n) = list[i].page
    OBVIOUS
  <2>1. 1 \in 1 .. len - i + 1 /\ i + 1 - 1 = i
    BY <1>1
  <2>2. n[1] = list[i]
    <3>1. n[1] = list[i + 1 - 1]
      BY <1>2, <2>1
    <3> QED BY <2>1, <3>1
  <2>3. n # <<>>
    <3>1. len - i + 1 # 0 /\ Len(<<>>) = 0
      BY <1>1
    <3> QED BY <1>2, <3>1
  <2> QED BY <2>2, <2>3 DEF FirstOf
<1>6. i = Len(list) + 1 => n = <<>>
  BY <1>1, <1>2
<1> QED BY <1>2, <1>3, <1>4, <1>5, <1>6

\* The first page is known by being the lowest.
LEMMA LeastIsFirst ==
    ASSUME NEW list \in Seq(Piece), Spaced(list, 1), NEW p \in PagesOf(list),
           \A q \in PagesOf(list) : p <= q
    PROVE  FirstOf(list) = p
<1>1. list # <<>>
  BY DEF PagesOf, Range
<1>2. FirstOf(list) \in PagesOf(list) /\ FirstOf(list) <= p
  BY <1>1, FirstIs
<1>3. p \in Nat /\ FirstOf(list) \in Nat
  BY <1>2, PagesArePages DEF Page
<1> QED BY <1>2, <1>3

\* The walk after i blocks: of the whole pages among them nothing is left.
Gone(list, i) == {list[j] : j \in {m \in 1 .. i : IsWhole(list[m])}}

Cleared(h, list, i) ==
    /\ h = [first |-> h.first, list |-> h.list, pool |-> h.pool, prev |-> h.prev]
    /\ h.list \in Seq(Piece) /\ Spaced(h.list, 1)
    /\ Range(h.list) = Range(list) \ Gone(list, i)
    /\ h.first = FirstOf(h.list)
    /\ PoolMatches(h.pool, PagesOf(h.list))
    /\ h.prev = IF i = 0 THEN "null" ELSE IF IsWhole(list[i]) THEN "gone" ELSE "listed"

\* Whole pages can only be the first one and one other.
WholeOnly(list) == \E q : \A c \in Range(list) : IsWhole(c) => c.page \in {FirstOf(list), q}

\* A block the walk has reached is still in the list, and every block of the list
\* that lies before it comes before it in memory.
LEMMA StillListed ==
    ASSUME NEW list \in Seq(Piece), Spaced(list, 1), NEW i \in Nat, i + 1 \in 1 .. Len(list),
           NEW h, Cleared(h, list, i)
    PROVE  /\ list[i + 1] \in Range(h.list)
           /\ \A j \in i + 1 .. Len(list) : list[j] \in Range(h.list)
<1>1. ASSUME NEW j \in i + 1 .. Len(list) PROVE list[j] \in Range(h.list)
  <2>1. j \in DOMAIN list /\ list[j] \in Range(list)
    BY DEF Range
  <2>2. ASSUME NEW m \in 1 .. i PROVE list[m] # list[j]
    <3>1. m \in DOMAIN list /\ m # j
      OBVIOUS
    <3> QED BY <2>1, <3>1, SpacedDistinct
  <2>3. list[j] \notin Gone(list, i)
    BY <2>2 DEF Gone
  <2> QED BY <2>1, <2>3 DEF Cleared
<1>2. i + 1 \in i + 1 .. Len(list)
  OBVIOUS
<1> QED BY <1>1, <1>2

\* A whole page is first in the list when the walk reaches it at the start, or right
\* after another whole page.
LEMMA WholeIsFirst ==
    ASSUME NEW list \in Seq(Piece), Spaced(list, 1), NEW i \in Nat, i + 1 \in 1 .. Len(list),
           NEW h, Cleared(h, list, i), WholeOnly(list), IsWhole(list[i + 1]), h.prev # "listed"
    PROVE  h.first = list[i + 1].page
<1>1. PICK b : b = list[i + 1]
  OBVIOUS
<1>2. b \in Piece /\ b \in Range(list) /\ b \in Range(h.list)
  BY <1>1, StillListed DEF Range
<1>3. h.list \in Seq(Piece) /\ Spaced(h.list, 1) /\ h.first = FirstOf(h.list)
  BY DEF Cleared
<1>4. ASSUME \A j \in 1 .. i : list[j] \in Gone(list, i) PROVE h.first = b.page
  <2>1. ASSUME NEW p \in PagesOf(h.list) PROVE b.page <= p
    <3>1. PICK c \in Range(h.list) : c.page = p
      BY DEF PagesOf
    <3>2. c \in Range(list) \ Gone(list, i)
      BY DEF Cleared
    <3>3. PICK j \in 1 .. Len(list) : list[j] = c
      BY <3>2, InRange
    <3>4. j = i + 1 \/ i + 1 < j
      BY <1>4, <3>2, <3>3
    <3>5. c \in Piece /\ (c = b \/ Precedes(b, c, 1))
      BY <1>1, <3>3, <3>4 DEF Spaced
    <3>6. b.page \in Nat /\ c.page \in Nat
      BY <1>2, <3>5, PieceIs
    <3> QED BY <3>1, <3>5, <3>6 DEF Precedes
  <2>2. b.page \in PagesOf(h.list)
    BY <1>2 DEF PagesOf
  <2> QED BY <1>3, <2>1, <2>2, LeastIsFirst
<1>5. CASE i = 0
  BY <1>1, <1>4, <1>5
<1>6. CASE i # 0
  <2>1. i \in DOMAIN list /\ IsWhole(list[i])
    BY <1>6 DEF Cleared
  <2>2. PICK c : c = list[i]
    OBVIOUS
  <2>3. c \in Piece /\ c \in Range(list) /\ IsWhole(c) /\ Precedes(c, b, 1)
    BY <1>1, <2>1, <2>2 DEF Range, Spaced
  <2>4. c # b
    BY <1>2, <2>3, PrecedesIsBefore
  <2>5. c.page # b.page
    BY <1>1, <1>2, <2>3, <2>4, WholeAlone
  <2>6. c.page < b.page /\ c.page \in Nat /\ b.page \in Nat
    BY <1>2, <2>3, <2>5, PieceIs DEF Precedes
  <2>7. list # <<>> /\ FirstOf(list) = list[1].page /\ 1 \in DOMAIN list
    BY <2>1 DEF FirstOf
  <2>8. list[1] \in Piece /\ list[1] \in Range(list) /\ FirstOf(list) <= c.page /\ FirstOf(list) \in Nat
    <3>1. list[1] \in Piece /\ list[1] \in Range(list)
      BY <2>7 DEF Range
    <3>2. c.page \in PagesOf(list)
      BY <2>3 DEF PagesOf
    <3> QED BY <2>7, <3>1, <3>2, FirstIs, PieceIs
  <2>9. c.page = FirstOf(list)
    <3>1. PICK q : \A e \in Range(list) : IsWhole(e) => e.page \in {FirstOf(list), q}
      BY DEF WholeOnly
    <3>2. c.page \in {FirstOf(list), q} /\ b.page \in {FirstOf(list), q}
      BY <1>1, <1>2, <2>3, <3>1
    <3> QED BY <2>6, <2>8, <3>2
  <2>10. list[1] = c
    BY <2>3, <2>7, <2>8, <2>9, WholeAlone
  <2>11. i = 1
    BY <2>1, <2>2, <2>7, <2>10, SpacedDistinct
  <2>12. \A j \in 1 .. i : list[j] \in Gone(list, i)
    BY <2>1, <2>11 DEF Gone
  <2> QED BY <1>1, <1>4, <2>12
<1> QED BY <1>5, <1>6

\* Taking a block off the list that is all there is of its page.
LEMMA PageGoes ==
    ASSUME NEW list \in Seq(Piece), Spaced(list, 1), NEW b \in Range(list), IsWhole(b),
           NEW n \in Seq(Piece), Range(n) = Range(list) \ {b},
           NEW pl, PoolMatches(pl, PagesOf(list))
    PROVE  PagesOf(n) = PagesOf(list) \ {b.page} /\ PoolMatches(free_page(pl, b.page), PagesOf(n))
<1>1. PagesOf(n) = PagesOf(list) \ {b.page}
  <2>1. ASSUME NEW c \in Range(list), c.page = b.page PROVE c = b
    BY <2>1, WholeAlone
  <2> QED BY <2>1 DEF PagesOf
<1>2. b.page \in PagesOf(list)
  BY DEF PagesOf
<1> QED BY <1>1, <1>2, FreePageTakesBack

\* What comes after the first block of the list, when that is a whole page.
LEMMA RestOfList ==
    ASSUME NEW list \in Seq(Piece), Spaced(list, 1), NEW i \in Nat, i + 1 \in 1 .. Len(list),
           NEW h, Cleared(h, list, i), IsWhole(list[i + 1]), h.first = list[i + 1].page
    PROVE  From(list, i + 2) = Range(h.list) \ {list[i + 1]}
<1>1. PICK b : b = list[i + 1]
  OBVIOUS
<1>2. b \in Piece /\ b \in Range(list) /\ b \in Range(h.list) /\ i + 1 \in DOMAIN list
  BY <1>1, StillListed DEF Range
<1>3. h.list \in Seq(Piece) /\ Spaced(h.list, 1) /\ b.page = FirstOf(h.list) /\ h.list # <<>>
  BY <1>1, <1>2 DEF Cleared, Range
<1>4. ASSUME NEW j \in i + 2 .. Len(list) PROVE list[j] \in Range(h.list) \ {b}
  <2>1. j \in i + 1 .. Len(list) /\ j # i + 1 /\ j \in DOMAIN list
    OBVIOUS
  <2>2. list[j] # b
    BY <1>1, <1>2, <2>1, SpacedDistinct
  <2>3. list[j] \in Range(h.list)
    BY <2>1, StillListed
  <2> QED BY <2>2, <2>3
<1>5. ASSUME NEW c \in Range(h.list), c # b PROVE \E j \in i + 2 .. Len(list) : c = list[j]
  <2>1. c \in Range(list) /\ c.page \in PagesOf(h.list)
    BY DEF Cleared, PagesOf
  <2>2. PICK j \in 1 .. Len(list) : list[j] = c
    BY <2>1, InRange
  <2>3. j # i + 1
    BY <1>1, <1>5, <2>2
  <2>4. CASE j > i + 1
    BY <2>2, <2>4
  <2>5. CASE j < i + 1
    <3>1. Precedes(c, b, 1) /\ c \in Piece
      BY <1>1, <1>2, <2>2, <2>5 DEF Spaced
    <3>2. b.page <= c.page
      BY <1>3, <2>1, FirstIs
    <3>3. c.page = b.page
      BY <1>2, <3>1, <3>2, PieceIs DEF Precedes
    <3>4. c = b
      BY <1>1, <1>2, <2>1, <3>3, WholeAlone
    <3> QED BY <1>5, <3>4
  <2> QED BY <2>3, <2>4, <2>5
<1> QED BY <1>1, <1>4, <1>5 DEF From

LEMMA ClearKeeps ==
    ASSUME NEW list \in Seq(Piece), Spaced(list, 1), NEW i \in Nat, i + 1 \in 1 .. Len(list),
           NEW h, Cleared(h, list, i), WholeOnly(list), NEW k, k = Clear(h, list, i + 1)
    PROVE  Cleared(k, list, i + 1)
<1>1. PICK b : b = list[i + 1]
  OBVIOUS
<1>2. b \in Piece /\ b \in Range(list) /\ b \in Range(h.list)
  <2>1. b \in Piece /\ b \in Range(list)
    BY <1>1 DEF Range
  <2>2. list[i + 1] \in Range(h.list)
    BY StillListed
  <2> QED BY <1>1, <2>1, <2>2
<1>3. /\ h.list \in Seq(Piece) /\ Spaced(h.list, 1) /\ Range(h.list) = Range(list) \ Gone(list, i)
      /\ h.first = FirstOf(h.list) /\ PoolMatches(h.pool, PagesOf(h.list))
      /\ h = [first |-> h.first, list |-> h.list, pool |-> h.pool, prev |-> h.prev]
      /\ h.prev = IF i = 0 THEN "null" ELSE IF IsWhole(list[i]) THEN "gone" ELSE "listed"
  BY DEF Cleared
<1>4. Gone(list, i + 1) = Gone(list, i) \cup (IF IsWhole(b) THEN {b} ELSE {})
  <2>1. {m \in 1 .. i + 1 : IsWhole(list[m])}
          = {m \in 1 .. i : IsWhole(list[m])} \cup (IF IsWhole(b) THEN {i + 1} ELSE {})
    BY <1>1
  <2> QED BY <1>1, <2>1 DEF Gone
<1>5. i + 1 # 0
  OBVIOUS
<1>6. CASE ~IsWhole(b)
  <2>1. k = [h EXCEPT !.prev = "listed"]
    BY <1>1, <1>6 DEF Clear, IsWhole
  <2>2. k = [first |-> h.first, list |-> h.list, pool |-> h.pool, prev |-> "listed"]
    BY <1>3, <2>1
  <2>3. k.first = h.first /\ k.list = h.list /\ k.pool = h.pool /\ k.prev = "listed"
    BY <2>2
  <2> QED BY <1>1, <1>3, <1>4, <1>5, <1>6, <2>2, <2>3 DEF Cleared
<1>7. CASE IsWhole(b)
  <2>1. ASSUME NEW n \in Seq(Piece), Spaced(n, 1), Range(n) = Range(h.list) \ {b},
               k = [first |-> FirstOf(n), list |-> n, pool |-> free_page(h.pool, b.page), prev |-> "gone"]
        PROVE  Cleared(k, list, i + 1)
    <3>1. PoolMatches(free_page(h.pool, b.page), PagesOf(n))
      BY <1>2, <1>3, <1>7, <2>1, PageGoes
    <3>2. Range(n) = Range(list) \ Gone(list, i + 1)
      BY <1>3, <1>4, <1>7, <2>1
    <3>3. /\ k.first = FirstOf(n) /\ k.list = n /\ k.prev = "gone"
          /\ k.pool = free_page(h.pool, b.page)
      BY <2>1
    <3> QED BY <1>1, <1>5, <1>7, <2>1, <3>1, <3>2, <3>3 DEF Cleared
  <2>2. CASE b.page # h.first
    <3>1. h.prev = "listed"
      BY <1>1, <1>7, <2>2, WholeIsFirst
    <3>2. PICK n : n = Without(h.list, b)
      OBVIOUS
    <3>3. n \in Seq(Piece) /\ Spaced(n, 1) /\ Range(n) = Range(h.list) \ {b}
      BY <1>2, <1>3, <3>2, WithoutIs
    <3>4. k = [h EXCEPT !.list = n, !.pool = free_page(h.pool, b.page), !.prev = "gone"]
      <4>1. b.size = REAL_PAGE_SIZE /\ h.prev # "null"
        BY <1>7, <3>1 DEF IsWhole
      <4> QED BY <1>1, <2>2, <3>1, <3>2, <4>1 DEF Clear
    <3>5. k = [first |-> h.first, list |-> n, pool |-> free_page(h.pool, b.page), prev |-> "gone"]
      BY <1>3, <3>4
    <3>6. FirstOf(n) = h.first
      <4>1. PagesOf(n) = PagesOf(h.list) \ {b.page}
        BY <1>2, <1>3, <1>7, <3>3, PageGoes
      <4>2. h.list # <<>>
        BY <1>2 DEF Range
      <4>3. h.first \in PagesOf(h.list) /\ \A p \in PagesOf(h.list) : h.first <= p
        BY <1>3, <4>2, FirstIs
      <4> QED BY <2>2, <3>3, <4>1, <4>3, LeastIsFirst
    <3> QED BY <2>1, <3>3, <3>5, <3>6
  <2>3. CASE b.page = h.first
    <3>0. PICK m \in 1 .. Len(list) + 1 : m = i + 2
      OBVIOUS
    <3>1. PICK n : n = SubSeq(list, m, Len(list))
      OBVIOUS
    <3>2. (i + 1) + 1 = m /\ (i + 1 < Len(list) <=> m <= Len(list)) /\ (m <= Len(list) \/ m = Len(list) + 1)
      BY <3>0
    <3>3. /\ n \in Seq(Piece) /\ Spaced(n, 1) /\ Range(n) = From(list, m)
          /\ m <= Len(list) => FirstOf(n) = list[m].page
          /\ m = Len(list) + 1 => n = <<>>
      <4>1. n \in Seq(Piece)
        BY <3>1, SuffixIs
      <4>2. Spaced(n, 1)
        BY <3>1, SuffixIs
      <4>3. Range(n) = From(list, m)
        BY <3>1, SuffixIs
      <4>4. m <= Len(list) => FirstOf(n) = list[m].page
        BY <3>1, SuffixIs
      <4>5. m = Len(list) + 1 => n = <<>>
        BY <3>1, SuffixIs
      <4> QED BY <4>1, <4>2, <4>3, <4>4, <4>5
    <3>4. From(list, m) = Range(h.list) \ {b}
      <4>1. IsWhole(list[i + 1]) /\ h.first = list[i + 1].page
        BY <1>1, <1>7, <2>3
      <4>2. From(list, i + 2) = Range(h.list) \ {list[i + 1]}
        BY <4>1, RestOfList
      <4> QED BY <1>1, <3>0, <4>2
    <3>5. k = [first |-> FirstOf(n), list |-> n, pool |-> free_page(h.pool, b.page), prev |-> "gone"]
      <4>1. b.size = REAL_PAGE_SIZE
        BY <1>7 DEF IsWhole
      <4>2. CASE i + 1 < Len(list)
        <5>1. k = [first |-> list[(i + 1) + 1].page, list |-> SubSeq(list, (i + 1) + 1, Len(list)),
                   pool |-> free_page(h.pool, h.first), prev |-> "gone"]
          BY <1>1, <2>3, <4>1, <4>2 DEF Clear
        <5>2. FirstOf(n) = list[m].page
          BY <3>2, <3>3, <4>2
        <5> QED BY <2>3, <3>1, <3>2, <5>1, <5>2
      <4>3. CASE ~(i + 1 < Len(list))
        <5>1. k = [first |-> NoPage, list |-> <<>>, pool |-> free_page(h.pool, h.first), prev |-> "gone"]
          BY <1>1, <2>3, <4>1, <4>3 DEF Clear
        <5>2. n = <<>>
          BY <3>2, <3>3, <4>3
        <5> QED BY <2>3, <5>1, <5>2 DEF FirstOf
      <4> QED BY <4>2, <4>3
    <3> QED BY <2>1, <3>3, <3>4, <3>5
  <2> QED BY <2>2, <2>3
<1> QED BY <1>6, <1>7

\* The function clear_empty_pages is defined by exists.
IsWalk(g, x, list, n) ==
    g = [i \in 0 .. n |-> IF i = 0 THEN x ELSE Clear(g[i - 1], list, i)]

LEMMA WalkExists ==
    ASSUME NEW x, NEW list, NEW N \in Nat
    PROVE  \E g : IsWalk(g, x, list, N)
<1> DEFINE S == {n \in Nat : \E g : IsWalk(g, x, list, n)}
<1>1. 0 \in S
  <2> DEFINE g == [i \in 0 .. 0 |-> x]
  <2>1. g = [i \in 0 .. 0 |-> IF i = 0 THEN x ELSE Clear(g[i - 1], list, i)]
    OBVIOUS
  <2> QED BY <2>1 DEF IsWalk
<1>2. ASSUME NEW n \in S PROVE n + 1 \in S
  <2>1. n \in Nat /\ n + 1 \in Nat
    OBVIOUS
  <2>2. PICK g : IsWalk(g, x, list, n)
    OBVIOUS
  <2> DEFINE h == [i \in 0 .. n + 1 |-> IF i = n + 1 THEN Clear(g[n], list, n + 1) ELSE g[i]]
  <2>3. ASSUME NEW i \in 0 .. n + 1
        PROVE  h[i] = IF i = 0 THEN x ELSE Clear(h[i - 1], list, i)
    <3>1. CASE i = n + 1
      <4>1. h[i] = Clear(g[n], list, n + 1) /\ h[i - 1] = g[n] /\ i # 0
        BY <2>1, <3>1
      <4> QED BY <3>1, <4>1
    <3>2. CASE i # n + 1
      <4>1. i \in 0 .. n /\ h[i] = g[i] /\ (i # 0 => h[i - 1] = g[i - 1])
        BY <2>1, <3>2
      <4>2. g[i] = IF i = 0 THEN x ELSE Clear(g[i - 1], list, i)
        BY <2>2, <4>1 DEF IsWalk
      <4> QED BY <4>1, <4>2
    <3> QED BY <3>1, <3>2
  <2>4. IsWalk(h, x, list, n + 1)
    <3>1. h = [i \in 0 .. n + 1 |-> h[i]]
      OBVIOUS
    <3> HIDE DEF h
    <3> QED BY <2>3, <3>1 DEF IsWalk
  <2> QED BY <2>1, <2>4
<1>3. S = Nat
  <2>1. S \in SUBSET Nat
    OBVIOUS
  <2> HIDE DEF S
  <2> QED BY <1>1, <1>2, <2>1, Induction
<1> QED BY <1>3

\* clear_empty_pages takes the whole pages off the list and gives them back.
LEMMA ClearIs ==
    ASSUME NEW h, h.list \in Seq(Piece), Spaced(h.list, 1), h.first = FirstOf(h.list),
           PoolMatches(h.pool, PagesOf(h.list)), WholeOnly(h.list),
           NEW n, n = clear_empty_pages(h)
    PROVE  /\ n.list \in Seq(Piece) /\ Spaced(n.list, 1) /\ n.first = FirstOf(n.list)
           /\ PoolMatches(n.pool, PagesOf(n.list))
           /\ Range(n.list) = {b \in Range(h.list) : ~IsWhole(b)}
           /\ n = [first |-> n.first, list |-> n.list, pool |-> n.pool]
<1>0. PICK list \in Seq(Piece) : list = h.list
  OBVIOUS
<1> DEFINE x == [first |-> h.first, list |-> h.list, pool |-> h.pool, prev |-> "null"]
           walk[i \in 0 .. Len(h.list)] == IF i = 0 THEN x ELSE Clear(walk[i - 1], h.list, i)
<1>1. PICK len \in Nat : len = Len(list) /\ DOMAIN list = 1 .. len
  OBVIOUS
<1>2. /\ n = [first |-> walk[len].first, list |-> walk[len].list, pool |-> walk[len].pool]
  BY <1>0, <1>1 DEF clear_empty_pages
<1>3. x.first = h.first /\ x.list = list /\ x.pool = h.pool /\ x.prev = "null"
  BY <1>0
<1>4. x = [first |-> x.first, list |-> x.list, pool |-> x.pool, prev |-> x.prev]
  OBVIOUS
<1> HIDE DEF x
<1>5. PICK g : IsWalk(g, x, list, len)
  BY <1>1, WalkExists
<1>6. g = [i \in 0 .. Len(h.list) |-> IF i = 0 THEN x ELSE Clear(g[i - 1], h.list, i)]
  BY <1>0, <1>1, <1>5 DEF IsWalk
<1>7. walk = [i \in 0 .. Len(h.list) |-> IF i = 0 THEN x ELSE Clear(walk[i - 1], h.list, i)]
  BY <1>6
<1> HIDE DEF walk
<1>8. walk[0] = x /\ \A i \in 1 .. len : walk[i] = Clear(walk[i - 1], list, i)
  <2>1. 0 .. Len(h.list) = 0 .. len /\ h.list = list
    BY <1>0, <1>1
  <2>2. walk = [i \in 0 .. len |-> IF i = 0 THEN x ELSE Clear(walk[i - 1], list, i)]
    BY <1>7, <2>1
  <2>3. 0 \in 0 .. len /\ \A i \in 1 .. len : i \in 0 .. len /\ i # 0
    BY <1>1
  <2> QED BY <2>2, <2>3
<1> DEFINE S == {i \in Nat : i <= len => Cleared(walk[i], list, i)}
<1>9. 0 \in S
  <2>1. Gone(list, 0) = {}
    BY DEF Gone
  <2>2. Cleared(x, list, 0)
    BY <1>0, <1>3, <1>4, <2>1 DEF Cleared
  <2> QED BY <1>8, <2>2
<1>10. ASSUME NEW i \in S PROVE i + 1 \in S
  <2>1. i \in Nat /\ i + 1 \in Nat
    OBVIOUS
  <2> SUFFICES ASSUME i + 1 <= len PROVE Cleared(walk[i + 1], list, i + 1)
    BY <2>1
  <2>2. Cleared(walk[i], list, i) /\ i + 1 \in 1 .. Len(list)
    BY <1>1, <2>1
  <2>3. walk[i + 1] = Clear(walk[i], list, i + 1)
    BY <1>1, <1>8, <2>1, <2>2
  <2>4. WholeOnly(list) /\ Spaced(list, 1)
    BY <1>0
  <2> QED BY <2>1, <2>2, <2>3, <2>4, ClearKeeps
<1>11. S = Nat
  <2>1. S \in SUBSET Nat
    OBVIOUS
  <2> HIDE DEF S
  <2> QED BY <1>9, <1>10, <2>1, Induction
<1>12. Cleared(walk[len], list, len)
  BY <1>11
<1>13. n.first = walk[len].first /\ n.list = walk[len].list /\ n.pool = walk[len].pool
  BY <1>2
<1>14. Range(list) \ Gone(list, len) = {b \in Range(list) : ~IsWhole(b)}
  <2>1. Gone(list, len) = {b \in Range(list) : IsWhole(b)}
    BY <1>1 DEF Gone, Range
  <2> QED BY <2>1
<1> QED BY <1>0, <1>2, <1>12, <1>13, <1>14 DEF Cleared

-----------------------------------------------------------------------------
(* kma_free, on a heap and the memory taken. *)

LEMMA RangeSpaced ==
    ASSUME NEW list \in Seq(Piece), NEW k \in {0, 1}, Spaced(list, k),
           NEW b \in Range(list), NEW c \in Range(list), b # c
    PROVE  Precedes(b, c, k) \/ Precedes(c, b, k)
<1>1. PICK i \in 1 .. Len(list), j \in 1 .. Len(list) : b = list[i] /\ c = list[j]
  BY InRange
<1>2. i # j
  BY <1>1
<1> QED BY <1>1, <1>2 DEF Spaced

LEMMA ApartIsOrdered ==
    ASSUME NEW a \in Piece, NEW b \in Piece
    PROVE  /\ A!Disjoint(a, b) <=> Precedes(a, b, 0) \/ Precedes(b, a, 0)
           /\ A!Disjoint(a, b) <=> A!Disjoint(b, a)
<1>1. /\ a.page \in Nat /\ a.offset \in Nat /\ a.size \in Nat \ {0}
      /\ b.page \in Nat /\ b.offset \in Nat /\ b.size \in Nat \ {0}
  BY PieceIs
<1> QED BY <1>1 DEF A!Disjoint, Precedes

LEMMA WholeUntaken ==
    ASSUME NEW list \in Seq(Piece), NEW taken, MapOK(list, taken),
           NEW c \in Range(list), IsWhole(c), NEW m \in taken
    PROVE  m.page # c.page
<1> SUFFICES ASSUME m.page = c.page PROVE FALSE
  OBVIOUS
<1>1. m \in Piece /\ c \in Piece
  BY InRange DEF MapOK
<1>2. /\ m.offset \in Nat /\ m.size \in Nat \ {0} /\ m.offset >= Pointer /\ m.offset + m.size <= PageEnd
  BY <1>1, PieceIs
<1>3. /\ c.offset \in Nat /\ c.size \in Nat \ {0} /\ c.offset >= Pointer /\ c.offset + c.size <= PageEnd
  BY <1>1, PieceIs
<1>4. m.offset + m.size <= c.offset \/ c.offset + c.size <= m.offset
  BY TakenApart DEF A!Disjoint
<1>5. c.size = REAL_PAGE_SIZE /\ PageEnd = Pointer + REAL_PAGE_SIZE /\ Pointer \in Nat /\ REAL_PAGE_SIZE \in Nat
  BY Constants DEF IsWhole
<1> QED BY <1>2, <1>3, <1>4, <1>5

\* A page of which nothing is taken is one block, when none is left to be joined.
LEMMA EmptyIsWhole ==
    ASSUME NEW list \in Seq(Piece), Spaced(list, 1), NEW taken, MapOK(list, taken),
           NEW p \in PagesOf(list), \A m \in taken : m.page # p
    PROVE  \E c \in Range(list) : c.page = p /\ IsWhole(c)
<1>1. ASSUME NEW x \in Area PROVE FreeAt(list, p, x)
  BY DEF MapOK, TakenAt, Has
<1>2. Pointer \in Area /\ Pointer \in Nat /\ PageEnd \in Nat /\ PageEnd = Pointer + REAL_PAGE_SIZE /\ REAL_PAGE_SIZE \in Nat
  BY Constants DEF Area
<1>3. PICK c \in Range(list) : Has(c, p, Pointer)
  BY <1>1, <1>2 DEF FreeAt
<1>4. c \in Piece
  BY InRange
<1>5. /\ c.page = p /\ c.offset = Pointer /\ c.size \in Nat \ {0}
      /\ c.offset + c.size <= PageEnd
  <2>1. c.offset \in Nat /\ c.size \in Nat \ {0} /\ c.offset >= Pointer /\ c.offset + c.size <= PageEnd
    BY <1>4, PieceIs
  <2> QED BY <1>2, <1>3, <2>1 DEF Has
<1>6. c.offset + c.size = PageEnd
  <2> SUFFICES ASSUME c.offset + c.size < PageEnd PROVE FALSE
    BY <1>2, <1>5
  <2>1. PICK e \in Area : e = c.offset + c.size
    BY <1>2, <1>5 DEF Area
  <2>2. PICK d \in Range(list) : Has(d, p, e)
    BY <1>1 DEF FreeAt
  <2>3. d \in Piece
    BY InRange
  <2>4. d.offset \in Nat /\ d.size \in Nat \ {0} /\ d.offset >= Pointer
    BY <2>3, PieceIs
  <2>5. d.page = p /\ d.offset <= e /\ e < d.offset + d.size /\ p \in Nat
    BY <1>4, <1>5, <2>2, PieceIs DEF Has
  <2>6. d # c
    BY <2>1, <2>5
  <2>7. Precedes(c, d, 1) \/ Precedes(d, c, 1)
    BY <2>6, RangeSpaced
  <2>8. c.page \in Nat /\ d.page = c.page /\ c.offset \in Nat /\ c.size \in Nat /\ e \in Nat
    BY <1>2, <1>5, <2>1, <2>5
  <2>9. ~Precedes(c, d, 1)
    <3>1. ~(e + 1 <= d.offset)
      BY <2>4, <2>5, <2>8
    <3> QED BY <2>1, <2>8, <3>1 DEF Precedes
  <2>10. ~Precedes(d, c, 1)
    <3>1. ~(d.offset + d.size + 1 <= c.offset)
      BY <1>2, <1>5, <2>4
    <3> QED BY <2>8, <3>1 DEF Precedes
  <2> QED BY <2>7, <2>9, <2>10
<1> QED BY <1>2, <1>5, <1>6 DEF IsWhole

\* Of a page that keeps a block, clear_empty_pages keeps all blocks.
LEMMA ClearKeepsPages ==
    ASSUME NEW list \in Seq(Piece), Spaced(list, 1), NEW n \in Seq(Piece),
           Range(n) = {b \in Range(list) : ~IsWhole(b)},
           NEW p \in PagesOf(n)
    PROVE  p \in PagesOf(list) /\ \A b \in Range(list) : b.page = p => b \in Range(n)
<1>1. PICK d \in Range(n) : d.page = p
  BY DEF PagesOf
<1>2. d \in Range(list) /\ ~IsWhole(d)
  OBVIOUS
<1>3. ASSUME NEW b \in Range(list), b.page = p PROVE b \in Range(n)
  <2>1. CASE IsWhole(b)
    <3>1. d = b
      BY <1>1, <1>2, <1>3, <2>1, WholeAlone
    <3> QED BY <3>1
  <2>2. CASE ~IsWhole(b)
    BY <2>2
  <2> QED BY <2>1, <2>2
<1> QED BY <1>1, <1>2, <1>3 DEF PagesOf

\* There is always a place for the block in the list.
LEMMA FreeFindsPlace ==
    ASSUME NEW list \in Seq(Piece), NEW taken, MapOK(list, taken), NEW b \in taken
    PROVE  Later(list, b) # {}
<1>1. PICK c \in Range(list) : c.page = b.page /\ c.offset >= b.offset + b.size
  BY BlockBehind
<1>2. PICK i \in 1 .. Len(list) : list[i] = c
  BY InRange
<1>3. b \in Piece /\ c \in Piece
  BY <1>2 DEF MapOK
<1>4. b.offset \in Nat /\ b.size \in Nat \ {0} /\ c.offset \in Nat
  BY <1>3, PieceIs
<1>5. Before(b, list[i])
  BY <1>1, <1>2, <1>4 DEF Before
<1> QED BY <1>5 DEF Later

\* The block goes into the list and is joined with its neighbours.
LEMMA FreeJoins ==
    ASSUME NEW list \in Seq(Piece), Spaced(list, 1), NEW taken, MapOK(list, taken),
           NEW b \in taken, \A m \in taken \ {b} : A!Disjoint(m, b),
           NEW n, n = coalesce(Insert(list, b))
    PROVE  /\ n \in Seq(Piece) /\ Spaced(n, 1)
           /\ PagesOf(n) = PagesOf(list) /\ FirstOf(n) = FirstOf(list)
           /\ MapOK(n, taken \ {b})
<1>1. PICK l : l = Insert(list, b)
  OBVIOUS
<1>2. b \in Piece /\ b.page \in PagesOf(list) /\ Spaced(list, 0)
  BY SpacedWeakly DEF MapOK
<1>3. l = Link(list, b)
  BY <1>1, FreeFindsPlace DEF Insert, Link
<1>4. ASSUME NEW c \in Range(list) PROVE Precedes(c, b, 0) \/ Precedes(b, c, 0)
  <2>1. A!Disjoint(b, c) /\ c \in Piece
    BY TakenApart, InRange
  <2> QED BY <1>2, <2>1, ApartIsOrdered
<1>5. l \in Seq(Piece) /\ Spaced(l, 0) /\ Range(l) = Range(list) \cup {b}
  <2>1. 0 \in {0, 1}
    OBVIOUS
  <2> QED BY <1>2, <1>3, <1>4, <2>1, LinkIs
<1>6. n = coalesce(l)
  BY <1>1
<1>7. n \in Seq(Piece) /\ Spaced(n, 1) /\ \A p \in Page, x \in Nat : FreeAt(n, p, x) <=> FreeAt(l, p, x)
  BY <1>5, <1>6, CoalesceIs
<1>8. PagesOf(n) = PagesOf(list)
  <2>1. PagesOf(n) = PagesOf(l)
    BY <1>5, <1>7, SameBytes
  <2>2. PagesOf(l) = PagesOf(list)
    BY <1>2, <1>5 DEF PagesOf
  <2> QED BY <2>1, <2>2
<1>9. FirstOf(n) = FirstOf(list)
  <2>1. Spaced(n, 0)
    BY <1>7, SpacedWeakly
  <2> QED BY <1>2, <1>7, <1>8, <2>1, SameFirst
<1>10. ASSUME NEW p \in Page, NEW x \in Nat PROVE FreeAt(n, p, x) <=> FreeAt(list, p, x) \/ Has(b, p, x)
  <2>1. FreeAt(n, p, x) <=> FreeAt(l, p, x)
    BY <1>7
  <2> QED BY <1>5, <2>1 DEF FreeAt
<1>11. PagesOf(list) \subseteq Page /\ Area \subseteq Nat /\ PageEnd - 1 \in Nat
  BY PagesArePages, Constants DEF Area
<1>12. ASSUME NEW p \in PagesOf(list), NEW x \in Area
       PROVE  FreeAt(n, p, x) <=> ~TakenAt(taken \ {b}, p, x)
  <2>1. FreeAt(list, p, x) <=> ~TakenAt(taken, p, x)
    BY DEF MapOK
  <2>2. TakenAt(taken, p, x) <=> TakenAt(taken \ {b}, p, x) \/ Has(b, p, x)
    BY DEF TakenAt
  <2>3. ASSUME TakenAt(taken \ {b}, p, x), Has(b, p, x) PROVE FALSE
    <3>1. PICK m \in taken \ {b} : Has(m, p, x)
      BY <2>3 DEF TakenAt
    <3>2. A!Disjoint(m, b) /\ m \in Piece
      BY DEF MapOK
    <3>3. m.offset \in Nat /\ m.size \in Nat /\ b.offset \in Nat /\ b.size \in Nat /\ x \in Nat
      BY <1>2, <1>11, <3>2, PieceIs
    <3> QED BY <2>3, <3>1, <3>2, <3>3 DEF A!Disjoint, Has
  <2> QED BY <1>10, <1>11, <2>1, <2>2, <2>3
<1>13. ASSUME NEW p \in PagesOf(list) PROVE FreeAt(n, p, PageEnd - 1)
  <2>1. FreeAt(list, p, PageEnd - 1)
    BY DEF MapOK
  <2> QED BY <1>10, <1>11, <2>1
<1>14. MapOK(n, taken \ {b})
  BY <1>8, <1>12, <1>13 DEF MapOK
<1> QED BY <1>7, <1>8, <1>9, <1>14

LEMMA FreeIs ==
    ASSUME NEW h, NEW taken, HeapOK(h, taken),
           NEW b \in taken, \A m \in taken \ {b} : A!Disjoint(m, b),
           NEW k, k.list = coalesce(Insert(h.list, b)), k.first = h.first, k.pool = h.pool,
           NEW n, n = clear_empty_pages(k)
    PROVE  HeapOK(n, taken \ {b})
<1>1. /\ h.list \in Seq(Piece) /\ Spaced(h.list, 1) /\ MapOK(h.list, taken)
      /\ h.first = FirstOf(h.list) /\ PoolMatches(h.pool, PagesOf(h.list))
      /\ \A p \in PagesOf(h.list) \ {h.first} : \E m \in taken : m.page = p
  BY DEF HeapOK
<1>2. PICK rest : rest = taken \ {b}
  OBVIOUS
<1>3. PICK list, l : list = h.list /\ l = k.list
  OBVIOUS
<1>4. /\ l \in Seq(Piece) /\ Spaced(l, 1) /\ PagesOf(l) = PagesOf(list) /\ FirstOf(l) = FirstOf(list)
      /\ MapOK(l, rest)
  BY <1>1, <1>2, <1>3, FreeJoins
<1>5. WholeOnly(l)
  <2>1. ASSUME NEW c \in Range(l), IsWhole(c), c.page # FirstOf(l), c.page # b.page PROVE FALSE
    <3>1. c.page \in PagesOf(list) \ {h.first}
      BY <1>1, <1>3, <1>4, <2>1 DEF PagesOf
    <3>2. PICK m \in taken : m.page = c.page
      BY <1>1, <1>3, <3>1
    <3>3. m \in rest
      BY <1>2, <2>1, <3>2
    <3> QED BY <1>4, <2>1, <3>2, <3>3, WholeUntaken
  <2> QED BY <2>1 DEF WholeOnly
<1>6. /\ n.list \in Seq(Piece) /\ Spaced(n.list, 1) /\ n.first = FirstOf(n.list)
      /\ PoolMatches(n.pool, PagesOf(n.list))
      /\ Range(n.list) = {c \in Range(l) : ~IsWhole(c)}
  <2>1. k.first = FirstOf(k.list) /\ PoolMatches(k.pool, PagesOf(k.list))
    BY <1>1, <1>3, <1>4
  <2> QED BY <1>3, <1>4, <1>5, <2>1, ClearIs
<1>7. PICK left : left = n.list
  OBVIOUS
<1>8. ASSUME NEW p \in PagesOf(left)
      PROVE  p \in PagesOf(l) /\ \A c \in Range(l) : c.page = p => c \in Range(left)
  BY <1>4, <1>6, <1>7, ClearKeepsPages
<1>9. ASSUME NEW p \in PagesOf(left), NEW x PROVE FreeAt(left, p, x) <=> FreeAt(l, p, x)
  BY <1>6, <1>7, <1>8 DEF FreeAt, Has
<1>10. MapOK(left, rest)
  <2>1. rest \subseteq Piece
    BY <1>4 DEF MapOK
  <2>2. ASSUME NEW m \in rest PROVE m.page \in PagesOf(left)
    <3>1. PICK c \in Range(l) : c.page = m.page
      BY <1>4 DEF MapOK, PagesOf
    <3>2. ~IsWhole(c)
      BY <1>4, <3>1, WholeUntaken
    <3> QED BY <1>6, <1>7, <3>1, <3>2 DEF PagesOf
  <2>3. ASSUME NEW p \in PagesOf(left), NEW x \in Area PROVE FreeAt(left, p, x) <=> ~TakenAt(rest, p, x)
    BY <1>4, <1>8, <1>9 DEF MapOK
  <2>4. ASSUME NEW p \in PagesOf(left) PROVE FreeAt(left, p, PageEnd - 1)
    BY <1>4, <1>8, <1>9 DEF MapOK
  <2> QED BY <2>1, <2>2, <2>3, <2>4 DEF MapOK
<1>11. ASSUME NEW p \in PagesOf(left) PROVE \E m \in rest : m.page = p
  <2> SUFFICES ASSUME \A m \in rest : m.page # p PROVE FALSE
    OBVIOUS
  <2>1. PICK c \in Range(l) : c.page = p /\ IsWhole(c)
    BY <1>4, <1>8, EmptyIsWhole
  <2> QED BY <1>6, <1>7, <1>8, <2>1
<1> QED BY <1>2, <1>6, <1>7, <1>10, <1>11 DEF HeapOK

-----------------------------------------------------------------------------
(* kma_malloc, on a heap and the memory taken. *)

\* The header of a block that has room for it falls on the block itself.
LEMMA HeaderInside ==
    ASSUME NEW b \in Piece, b.size >= Header, NEW parts \in SUBSET Piece,
           \A part \in parts : part.page = b.page /\ A!Disjoint(b, part)
    PROVE  ~HeaderOver(parts, b)
<1>1. /\ b.offset \in Nat /\ b.size \in Nat \ {0} /\ b.offset + b.size <= PageEnd
      /\ b = [page |-> b.page, offset |-> b.offset, size |-> b.size]
  BY PieceIs
<1>2. PICK bytes : bytes = [b EXCEPT !.size = Header]
  OBVIOUS
<1>3. bytes.offset = b.offset /\ bytes.size = Header
  BY <1>1, <1>2
<1>4. Header \in Nat /\ PageEnd \in Nat /\ PAGESIZE \in Nat /\ PageEnd <= PAGESIZE
  BY Constants
<1>5. ~(b.offset + Header > PAGESIZE)
  BY <1>1, <1>4
<1>6. ASSUME NEW part \in parts PROVE ~Overlap(bytes, part)
  <2>1. part.offset \in Nat /\ part.size \in Nat \ {0}
    BY PieceIs
  <2>2. b.offset + b.size <= part.offset \/ part.offset + part.size <= b.offset
    BY DEF A!Disjoint
  <2> QED BY <1>1, <1>3, <1>4, <2>1, <2>2 DEF Overlap
<1> QED BY <1>2, <1>5, <1>6 DEF HeaderOver

\* A block is split: the front of it is taken, the rest of it stays in its place.
SplitOff(list, i, size, n, m) ==
    /\ n = [list EXCEPT ![i] = Shrink(@, size)]
    /\ m = [page |-> list[i].page, offset |-> list[i].offset, size |-> size]

LEMMA SplitIs ==
    ASSUME NEW list \in Seq(Piece), Spaced(list, 1), NEW i \in 1 .. Len(list),
           NEW size \in Nat \ {0}, list[i].size >= size + Header,
           NEW n, NEW m, SplitOff(list, i, size, n, m)
    PROVE  /\ n \in Seq(Piece) /\ Spaced(n, 1) /\ PagesOf(n) = PagesOf(list) /\ m \in Piece
           /\ n[i] \in Range(n) /\ n[i].size >= Header /\ n[i].page = m.page
           /\ n[i].offset + n[i].size = list[i].offset + list[i].size
           /\ \A p \in Page, x \in Nat : FreeAt(list, p, x) <=> FreeAt(n, p, x) \/ Has(m, p, x)
           /\ \A c \in Range(n) : A!Disjoint(m, c)
<1>1. PICK len \in Nat : len = Len(list) /\ DOMAIN list = 1 .. len
  OBVIOUS
<1>2. PICK b : b = list[i]
  OBVIOUS
<1>3. b \in Piece /\ b \in Range(list)
  BY <1>1, <1>2 DEF Range
<1>4. /\ b.page \in Page /\ b.offset \in Nat /\ b.size \in Nat \ {0}
      /\ b.offset >= Pointer /\ b.offset + b.size <= PageEnd /\ b.page \in Nat
      /\ b = [page |-> b.page, offset |-> b.offset, size |-> b.size]
  BY <1>3, PieceIs
<1>5. Header \in Nat \ {0} /\ PageEnd \in Nat /\ Pointer \in Nat
  BY Constants
<1>6. PICK d : d = Shrink(b, size)
  OBVIOUS
<1>7. d = [page |-> b.page, offset |-> b.offset + size, size |-> b.size - size]
  BY <1>4, <1>6 DEF Shrink
<1>8. d.page = b.page /\ d.offset = b.offset + size /\ d.size = b.size - size
  BY <1>7
<1>9. d \in Piece /\ m \in Piece
  <2>0. b.size >= size + Header
    BY <1>2
  <2>1. b.offset + size \in Nat /\ b.size - size \in Nat \ {0} /\ b.offset + size >= Pointer
        /\ (b.offset + size) + (b.size - size) <= PageEnd
    <3>1. PICK o, k : o = b.offset /\ k = b.size
      OBVIOUS
    <3>2. o \in Nat /\ k \in Nat /\ o >= Pointer /\ o + k <= PageEnd /\ k >= size + Header
      BY <1>4, <2>0, <3>1
    <3>3. o + size \in Nat /\ k - size \in Nat \ {0} /\ o + size >= Pointer
      BY <1>5, <3>2
    <3>4. (o + size) + (k - size) = o + k
      BY <3>2
    <3> QED BY <3>1, <3>2, <3>3, <3>4
  <2>2. d \in Piece
    BY <1>4, <1>7, <2>1, PieceOf
  <2>3. b.offset + size <= PageEnd
    BY <1>2, <1>4, <1>5
  <2> QED BY <1>2, <1>4, <2>2, <2>3, PieceOf DEF SplitOff
<1>10. n = [list EXCEPT ![i] = d]
  BY <1>2, <1>6 DEF SplitOff
<1>11. /\ n \in Seq(Piece) /\ DOMAIN n = 1 .. len /\ n[i] = d
       /\ \A j \in 1 .. len : j # i => n[j] = list[j]
  BY <1>1, <1>9, <1>10
<1>12. m.page = b.page /\ m.offset = b.offset /\ m.size = size
  BY <1>2 DEF SplitOff
<1>13. d.page = b.page /\ d.offset >= b.offset /\ d.offset + d.size = b.offset + b.size
  BY <1>4, <1>8
<1>14. ASSUME NEW l \in 1 .. len, NEW j \in 1 .. len, l < j PROVE Precedes(n[l], n[j], 1)
  <2>1. Precedes(list[l], list[j], 1) /\ list[l] \in Piece /\ list[j] \in Piece
    BY <1>1, <1>14 DEF Spaced
  <2>2. /\ list[l].offset \in Nat /\ list[l].size \in Nat /\ list[l].page \in Nat
        /\ list[j].offset \in Nat /\ list[j].size \in Nat /\ list[j].page \in Nat
    BY <2>1, PieceIs
  <2>3. CASE l = i
    <3>1. n[l] = d /\ n[j] = list[j] /\ list[l] = b
      BY <1>2, <1>11, <1>14, <2>3
    <3>2. Precedes(d, list[j], 1)
      BY <1>3, <1>9, <1>13, <2>1, <3>1, EndKeepsPlace
    <3> QED BY <3>1, <3>2
  <2>4. CASE j = i
    <3>1. n[j] = d /\ n[l] = list[l] /\ list[j] = b
      BY <1>2, <1>11, <1>14, <2>4
    <3>2. Precedes(list[l], d, 1)
      BY <1>3, <1>9, <1>13, <2>1, <3>1, EndKeepsPlace
    <3> QED BY <3>1, <3>2
  <2>5. CASE l # i /\ j # i
    BY <1>11, <2>1, <2>5
  <2> QED BY <2>3, <2>4, <2>5
<1>15. ASSUME NEW p \in Page, NEW x \in Nat
       PROVE  FreeAt(list, p, x) <=> FreeAt(n, p, x) \/ Has(m, p, x)
  <2>1. Has(b, p, x) <=> Has(d, p, x) \/ Has(m, p, x)
    <3>1. m.offset + m.size = d.offset /\ b.size = m.size + d.size
      BY <1>4, <1>8, <1>12
    <3> QED BY <1>3, <1>8, <1>9, <1>12, <3>1, HasUnion
  <2>2. FreeAt(list, p, x) <=> \E j \in 1 .. len : Has(list[j], p, x)
    BY <1>1 DEF FreeAt, Range
  <2>3. FreeAt(n, p, x) <=> \E j \in 1 .. len : Has(n[j], p, x)
    BY <1>11 DEF FreeAt, Range
  <2>4. i \in 1 .. len
    BY <1>1
  <2> QED BY <1>2, <1>11, <2>1, <2>2, <2>3, <2>4
<1>16. PagesOf(n) = PagesOf(list)
  <2>1. \A j \in 1 .. len : n[j].page = list[j].page
    BY <1>2, <1>8, <1>11
  <2> QED BY <1>1, <1>11, <2>1 DEF PagesOf, Range
<1>17. ASSUME NEW c \in Range(n) PROVE A!Disjoint(m, c)
  <2>1. PICK j \in 1 .. len : c = n[j]
    BY <1>11 DEF Range
  <2>2. CASE j = i
    BY <1>4, <1>8, <1>11, <1>12, <2>1, <2>2 DEF A!Disjoint
  <2>3. CASE j # i
    <3>1. c = list[j] /\ c \in Piece
      BY <1>1, <1>11, <2>1, <2>3
    <3>2. Precedes(b, c, 1) \/ Precedes(c, b, 1)
      BY <1>1, <1>2, <2>3, <3>1 DEF Spaced
    <3>3. c.offset \in Nat /\ c.size \in Nat /\ c.page \in Nat
      BY <3>1, PieceIs
    <3>4. size <= b.size
      BY <1>2, <1>4, <1>5
    <3>5. CASE Precedes(b, c, 1)
      <4>1. b.page # c.page \/ b.offset + size <= c.offset
        BY <1>4, <3>3, <3>4, <3>5 DEF Precedes
      <4> QED BY <1>12, <4>1 DEF A!Disjoint
    <3>6. CASE Precedes(c, b, 1)
      <4>1. b.page # c.page \/ c.offset + c.size <= b.offset
        BY <1>4, <3>3, <3>6 DEF Precedes
      <4> QED BY <1>12, <4>1 DEF A!Disjoint
    <3> QED BY <3>2, <3>5, <3>6
  <2> QED BY <2>2, <2>3
<1>18. n[i] \in Range(n) /\ n[i].size >= Header /\ n[i].page = m.page
       /\ n[i].offset + n[i].size = list[i].offset + list[i].size
  <2>1. d.size >= Header /\ d.offset + d.size = b.offset + b.size
    BY <1>2, <1>4, <1>5, <1>8
  <2> QED BY <1>1, <1>2, <1>8, <1>11, <1>12, <2>1 DEF Range
<1> QED BY <1>9, <1>11, <1>14, <1>15, <1>16, <1>17, <1>18 DEF Spaced

LEMMA PartApart ==
    ASSUME NEW m \in Piece, NEW c \in Piece, NEW t \in Piece, A!Disjoint(t, c),
           m.page = c.page, m.offset = c.offset, m.size <= c.size
    PROVE  A!Disjoint(m, t)
<1>1. c.offset \in Nat /\ c.size \in Nat /\ m.size \in Nat /\ t.offset \in Nat /\ t.size \in Nat
  BY PieceIs
<1>2. c.offset + c.size <= t.offset => m.offset + m.size <= t.offset
  BY <1>1
<1> QED BY <1>2 DEF A!Disjoint

\* Memory that comes out of the list is nobody's.
LEMMA FitIs ==
    ASSUME NEW h, NEW taken, HeapOK(h, taken), NEW i \in 1 .. Len(h.list),
           NEW size \in Nat \ {0}, h.list[i].size >= size + Header,
           NEW k, k.first = h.first, k.pool = h.pool,
           NEW m, SplitOff(h.list, i, size, k.list, m)
    PROVE  /\ HeapOK(k, taken \cup {m}) /\ m \in Piece /\ k.list[i] \in Range(k.list)
           /\ \A t \in taken : A!Disjoint(m, t)
           /\ k.list[i].size >= Header
<1>1. /\ h.list \in Seq(Piece) /\ Spaced(h.list, 1) /\ MapOK(h.list, taken)
      /\ h.first = FirstOf(h.list) /\ PoolMatches(h.pool, PagesOf(h.list))
      /\ \A p \in PagesOf(h.list) \ {h.first} : \E t \in taken : t.page = p
  BY DEF HeapOK
<1>2. PICK list, n : list = h.list /\ n = k.list
  OBVIOUS
<1>3. SplitOff(list, i, size, n, m)
  BY <1>2
<1>4. /\ list \in Seq(Piece) /\ Spaced(list, 1) /\ i \in 1 .. Len(list)
      /\ list[i].size >= size + Header
  BY <1>1, <1>2
<1>5. /\ n \in Seq(Piece) /\ Spaced(n, 1) /\ PagesOf(n) = PagesOf(list) /\ m \in Piece
      /\ n[i] \in Range(n) /\ n[i].size >= Header /\ n[i].page = m.page
      /\ \A c \in Range(n) : A!Disjoint(m, c)
  BY <1>3, <1>4, SplitIs
<1>6. \A p \in Page, x \in Nat : FreeAt(list, p, x) <=> FreeAt(n, p, x) \/ Has(m, p, x)
  BY <1>3, <1>4, SplitIs
<1>7. n[i].offset + n[i].size = list[i].offset + list[i].size
  BY <1>3, <1>4, SplitIs
<1>8. MapOK(list, taken) /\ taken \subseteq Piece
  BY <1>1, <1>2 DEF MapOK
<1>9. list[i] \in Range(list) /\ list[i] \in Piece
  BY <1>4 DEF Range
<1>10. /\ m.page = list[i].page /\ m.offset = list[i].offset /\ m.size = size
       /\ list[i].offset \in Nat /\ list[i].size \in Nat /\ Header \in Nat \ {0}
  <2>1. m.page = list[i].page /\ m.offset = list[i].offset /\ m.size = size
    BY <1>3 DEF SplitOff
  <2>2. list[i].offset \in Nat /\ list[i].size \in Nat
    BY <1>9, PieceIs
  <2> QED BY <2>1, <2>2, Constants
<1>11. ASSUME NEW t \in taken PROVE A!Disjoint(m, t)
  <2>1. A!Disjoint(t, list[i])
    BY <1>4, <1>8, <1>9, TakenApart
  <2>2. m.size <= list[i].size /\ t \in Piece
    BY <1>4, <1>8, <1>10
  <2> QED BY <1>5, <1>9, <1>10, <2>1, <2>2, PartApart
<1>12. Area \subseteq Nat /\ PageEnd - 1 \in Nat /\ PageEnd \in Nat /\ PagesOf(list) \subseteq Page
  BY <1>4, PagesArePages, Constants DEF Area
<1>13. ASSUME NEW p \in PagesOf(list), NEW x \in Area
       PROVE  FreeAt(n, p, x) <=> ~TakenAt(taken \cup {m}, p, x)
  <2>1. FreeAt(list, p, x) <=> ~TakenAt(taken, p, x)
    BY <1>8 DEF MapOK
  <2>2. TakenAt(taken \cup {m}, p, x) <=> TakenAt(taken, p, x) \/ Has(m, p, x)
    BY DEF TakenAt
  <2>3. FreeAt(list, p, x) <=> FreeAt(n, p, x) \/ Has(m, p, x)
    BY <1>6, <1>12
  <2>4. ASSUME FreeAt(n, p, x), Has(m, p, x) PROVE FALSE
    <3>1. PICK c \in Range(n) : Has(c, p, x)
      BY <2>4 DEF FreeAt
    <3>2. A!Disjoint(m, c) /\ c \in Piece
      BY <1>5, InRange
    <3>3. c.offset \in Nat /\ c.size \in Nat /\ x \in Nat
      BY <1>12, <3>2, PieceIs
    <3> QED BY <1>10, <2>4, <3>1, <3>2, <3>3 DEF A!Disjoint, Has
  <2> QED BY <2>1, <2>2, <2>3, <2>4
<1>14. ASSUME NEW p \in PagesOf(list) PROVE FreeAt(n, p, PageEnd - 1)
  <2>1. FreeAt(list, p, PageEnd - 1)
    BY <1>8 DEF MapOK
  <2>2. ~Has(m, p, PageEnd - 1)
    <3>1. list[i].offset + list[i].size <= PageEnd
      BY <1>9, PieceIs
    <3> QED BY <1>4, <1>10, <1>12, <3>1 DEF Has
  <2> QED BY <1>6, <1>12, <2>1, <2>2
<1>15. m.page \in PagesOf(list)
  BY <1>9, <1>10 DEF PagesOf
<1>16. MapOK(n, taken \cup {m})
  <2>1. taken \cup {m} \subseteq Piece
    BY <1>5, <1>8
  <2>2. \A t \in taken \cup {m} : t.page \in PagesOf(n)
    BY <1>5, <1>8, <1>15 DEF MapOK
  <2> QED BY <1>5, <1>13, <1>14, <2>1, <2>2 DEF MapOK
<1>17. FirstOf(n) = FirstOf(list)
  <2>1. Spaced(list, 0) /\ Spaced(n, 0)
    BY <1>4, <1>5, SpacedWeakly
  <2> QED BY <1>4, <1>5, <2>1, SameFirst
<1>18. HeapOK(k, taken \cup {m})
  BY <1>1, <1>2, <1>5, <1>16, <1>17 DEF HeapOK
<1> QED BY <1>2, <1>5, <1>11, <1>18

\* The rest of a new page is a block up to the end of the page.
LEMMA RestIs ==
    ASSUME NEW p \in Page, NEW size \in Nat \ {0}, Pointer + size + Header <= PAGESIZE,
           NEW b, b = Rest(p, size)
    PROVE  b \in Piece /\ b.page = p /\ b.offset = Pointer + size /\ b.offset + b.size = PageEnd
<1>1. b = [page |-> p, offset |-> Pointer + size, size |-> REAL_PAGE_SIZE - size]
  BY DEF Rest, Shrink, WholePage
<1>2. /\ REAL_PAGE_SIZE \in Nat /\ REAL_PAGE_SIZE = PAGESIZE - Header /\ PageEnd = Pointer + REAL_PAGE_SIZE
      /\ Pointer \in Nat \ {0} /\ Header \in Nat /\ PAGESIZE \in Nat
  BY Constants
<1>3. /\ Pointer + size \in Nat /\ REAL_PAGE_SIZE - size \in Nat \ {0} /\ Pointer + size >= Pointer
      /\ (Pointer + size) + (REAL_PAGE_SIZE - size) = PageEnd /\ PageEnd <= PageEnd
  BY <1>2
<1>4. b \in Piece
  BY <1>1, <1>3, PieceOf
<1> QED BY <1>1, <1>3, <1>4

\* The request gets the front of a page that nobody had, and the rest goes into the list.
PutNew(h, size, k, m) ==
    /\ k.list = Link(h.list, Rest(NextPage(h.pool), size))
    /\ k.first = h.first /\ k.pool = get_page(h.pool)
    /\ m = [page |-> NextPage(h.pool), offset |-> Pointer, size |-> size]

LEMMA NewIs ==
    ASSUME NEW h, NEW taken, HeapOK(h, taken), ~Exhausted(h.pool), h.list # <<>>,
           NEW size \in Nat \ {0}, Pointer + size + Header <= PAGESIZE,
           1 \notin Later(h.list, Rest(NextPage(h.pool), size)),
           NEW k, NEW m, PutNew(h, size, k, m)
    PROVE  /\ HeapOK(k, taken \cup {m}) /\ m \in Piece
           /\ \A t \in taken : A!Disjoint(m, t)
<1>1. /\ h.list \in Seq(Piece) /\ Spaced(h.list, 1) /\ MapOK(h.list, taken)
      /\ h.first = FirstOf(h.list) /\ PoolMatches(h.pool, PagesOf(h.list))
      /\ \A p \in PagesOf(h.list) \ {h.first} : \E t \in taken : t.page = p
  BY DEF HeapOK
<1>2. PICK list, n, p, b : list = h.list /\ n = k.list /\ p = NextPage(h.pool) /\ b = Rest(p, size)
  OBVIOUS
<1>3. p \in Page \ PagesOf(list) /\ PoolMatches(k.pool, PagesOf(list) \cup {p})
  <2>1. NextPage(h.pool) \in Page \ PagesOf(h.list)
    BY <1>1, GetPageLends
  <2>2. PoolMatches(get_page(h.pool), PagesOf(h.list) \cup {NextPage(h.pool)})
    BY <1>1, GetPageLends
  <2> QED BY <1>2, <2>1, <2>2 DEF PutNew
<1>4. b \in Piece /\ b.page = p /\ b.offset = Pointer + size /\ b.offset + b.size = PageEnd
  BY <1>2, <1>3, RestIs
<1>5. m.page = p /\ m.offset = Pointer /\ m.size = size /\ m = [page |-> p, offset |-> Pointer, size |-> size]
  BY <1>2 DEF PutNew
<1>6. /\ Pointer \in Nat \ {0} /\ PageEnd \in Nat /\ PageEnd - 1 \in Nat /\ Area = Pointer .. PageEnd - 1
      /\ Pointer + size < PageEnd
  BY Constants DEF Area
<1>7. m \in Piece
  <2>1. p \in Page /\ Pointer \in Nat /\ Pointer >= Pointer /\ Pointer + size <= PageEnd
    BY <1>3, <1>6
  <2> QED BY <1>5, <2>1, PieceOf
<1>8. ASSUME NEW c \in Range(list) PROVE Precedes(c, b, 1) \/ Precedes(b, c, 1)
  <2>1. c \in Piece /\ c.page \in PagesOf(list)
    BY <1>1, <1>2, InRange DEF PagesOf
  <2>2. c.page \in Nat /\ b.page \in Nat /\ c.page # b.page
    BY <1>3, <1>4, <2>1, PieceIs
  <2> QED BY <2>2 DEF Precedes
<1>9. n = Link(list, b)
  BY <1>2 DEF PutNew
<1>10. n \in Seq(Piece) /\ Spaced(n, 1) /\ Range(n) = Range(list) \cup {b}
  <2>1. 1 \in {0, 1}
    OBVIOUS
  <2> QED BY <1>1, <1>2, <1>4, <1>8, <1>9, <2>1, LinkIs
<1>11. PagesOf(n) = PagesOf(list) \cup {p}
  BY <1>4, <1>10 DEF PagesOf
<1>12. FirstOf(n) = FirstOf(list)
  <2>1. /\ FirstOf(list) \in PagesOf(list) /\ \A q \in PagesOf(list) : FirstOf(list) <= q
    BY <1>1, <1>2, FirstIs
  <2>2. list[1] \in Piece /\ 1 \in DOMAIN list /\ FirstOf(list) = list[1].page
    BY <1>1, <1>2 DEF FirstOf
  <2>3. ~(b.page < list[1].page)
    BY <1>2, <2>2 DEF Later, Before
  <2>4. FirstOf(list) <= p
    BY <1>4, <2>2, <2>3, PieceIs
  <2>5. \A q \in PagesOf(n) : FirstOf(list) <= q
    BY <1>11, <2>1, <2>4
  <2> QED BY <1>10, <1>11, <2>1, <2>5, LeastIsFirst
<1>13. /\ taken \subseteq Piece /\ \A t \in taken : t.page \in PagesOf(list)
       /\ \A q \in PagesOf(list) :
            /\ \A x \in Area : FreeAt(list, q, x) <=> ~TakenAt(taken, q, x)
            /\ FreeAt(list, q, PageEnd - 1)
  BY <1>1, <1>2 DEF MapOK
<1>14. ASSUME NEW t \in taken PROVE A!Disjoint(m, t)
  BY <1>3, <1>5, <1>13 DEF A!Disjoint
<1>15. ASSUME NEW q, NEW x
       PROVE  /\ FreeAt(n, q, x) <=> FreeAt(list, q, x) \/ Has(b, q, x)
              /\ TakenAt(taken \cup {m}, q, x) <=> TakenAt(taken, q, x) \/ Has(m, q, x)
  BY <1>10 DEF FreeAt, TakenAt
<1>16. ASSUME NEW q \in PagesOf(list), NEW x \in Area
       PROVE  /\ FreeAt(n, q, x) <=> ~TakenAt(taken \cup {m}, q, x)
              /\ FreeAt(n, q, PageEnd - 1)
  <2>1. q # p
    BY <1>3
  <2>2. \A y : ~Has(b, q, y) /\ ~Has(m, q, y)
    BY <1>4, <1>5, <2>1 DEF Has
  <2> QED BY <1>13, <1>15, <2>2
<1>17. ASSUME NEW x \in Area
       PROVE  /\ FreeAt(n, p, x) <=> ~TakenAt(taken \cup {m}, p, x)
              /\ FreeAt(n, p, PageEnd - 1)
  <2>1. ~FreeAt(list, p, x)
    BY <1>3 DEF FreeAt, Has, PagesOf
  <2>2. ~TakenAt(taken, p, x)
    BY <1>3, <1>13 DEF TakenAt, Has
  <2>3. Has(b, p, x) <=> ~Has(m, p, x)
    BY <1>4, <1>5, <1>6 DEF Has
  <2>4. Has(b, p, PageEnd - 1)
    BY <1>4, <1>6 DEF Has
  <2> QED BY <1>15, <2>1, <2>2, <2>3, <2>4
<1>18. MapOK(n, taken \cup {m})
  <2>1. taken \cup {m} \subseteq Piece
    BY <1>7, <1>13
  <2>2. \A t \in taken \cup {m} : t.page \in PagesOf(n)
    BY <1>5, <1>11, <1>13
  <2>3. Pointer \in Area
    BY <1>6
  <2> QED BY <1>11, <1>16, <1>17, <2>1, <2>2, <2>3 DEF MapOK
<1>19. \A q \in PagesOf(n) \ {k.first} : \E t \in taken \cup {m} : t.page = q
  <2>1. k.first = h.first
    BY DEF PutNew
  <2> QED BY <1>1, <1>2, <1>5, <1>11, <2>1
<1>20. k.first = FirstOf(n)
  BY <1>1, <1>2, <1>12 DEF PutNew
<1> QED BY <1>2, <1>3, <1>7, <1>10, <1>11, <1>14, <1>18, <1>19, <1>20 DEF HeapOK

\* A heap without a first page is the heap of a process that has no page.
LEMMA NoFirstPage ==
    ASSUME NEW h, NEW taken, HeapOK(h, taken), h.first = NoPage
    PROVE  h.list = <<>> /\ taken = {} /\ h.pool = NoPool /\ ~Exhausted(h.pool)
<1>1. /\ h.list \in Seq(Piece) /\ Spaced(h.list, 1) /\ MapOK(h.list, taken)
      /\ h.first = FirstOf(h.list) /\ PoolMatches(h.pool, PagesOf(h.list))
  BY DEF HeapOK
<1>2. h.list = <<>>
  <2> SUFFICES ASSUME h.list # <<>> PROVE FALSE
    OBVIOUS
  <2>1. FirstOf(h.list) \in PagesOf(h.list)
    BY <1>1, FirstIs
  <2> QED BY <1>1, <2>1, PagesArePages, Constants
<1>3. PagesOf(h.list) = {}
  BY <1>2 DEF PagesOf, Range
<1>4. taken = {}
  BY <1>1, <1>3 DEF MapOK
<1>5. h.pool = NoPool
  BY <1>1, <1>3 DEF PoolMatches
<1>6. ~Exhausted(h.pool)
  <2>1. FreePages(h.pool) = initPages
    BY <1>5 DEF FreePages, NoPool
  <2>2. initPages \in Seq(Page) /\ 1 \in DOMAIN initPages
    BY Constants DEF initPages, Page
  <2>3. initPages # <<>>
    BY <2>2
  <2> QED BY <2>1, <2>3 DEF Exhausted
<1> QED BY <1>2, <1>4, <1>5, <1>6

\* The first page is one block at first.
LEMMA FirstPageKeeps ==
    ASSUME NEW h, NEW taken, HeapOK(h, taken), NEW k, k = WithFirstPage(h)
    PROVE  HeapOK(k, taken) /\ k.list # <<>>
<1>1. CASE h.first # NoPage
  <2>1. k = h
    BY <1>1 DEF WithFirstPage
  <2>2. h.list # <<>>
    BY <1>1 DEF HeapOK, FirstOf
  <2> QED BY <2>1, <2>2
<1>2. CASE h.first = NoPage
  <2>1. h.list = <<>> /\ taken = {} /\ ~Exhausted(h.pool)
    BY <1>2, NoFirstPage
  <2>2. PICK p, b : p = NextPage(h.pool) /\ b = WholePage(p)
    OBVIOUS
  <2>3. p \in Page /\ PoolMatches(get_page(h.pool), {p})
    <3>1. PoolMatches(h.pool, PagesOf(h.list)) /\ PagesOf(h.list) = {}
      BY <2>1 DEF HeapOK, PagesOf, Range
    <3>2. NextPage(h.pool) \in Page
      BY <2>1, <3>1, GetPageLends
    <3>3. PoolMatches(get_page(h.pool), {} \cup {NextPage(h.pool)})
      BY <2>1, <3>1, GetPageLends
    <3> QED BY <2>2, <3>2, <3>3
  <2>4. b \in Piece /\ b.page = p /\ b.offset = Pointer /\ b.offset + b.size = PageEnd
    <3>1. b = [page |-> p, offset |-> Pointer, size |-> REAL_PAGE_SIZE]
      BY <2>2 DEF WholePage
    <3>2. Pointer \in Nat /\ REAL_PAGE_SIZE \in Nat \ {0} /\ Pointer + REAL_PAGE_SIZE = PageEnd
          /\ Pointer >= Pointer /\ PageEnd <= PageEnd
      BY Constants
    <3>3. b \in Piece
      BY <2>3, <3>1, <3>2, PieceOf
    <3> QED BY <3>1, <3>2, <3>3
  <2>5. k.first = p /\ k.list = <<b>> /\ k.pool = get_page(h.pool)
    BY <1>2, <2>2 DEF WithFirstPage
  <2>6. PICK n : n = <<b>>
    OBVIOUS
  <2>7. n \in Seq(Piece) /\ n # <<>> /\ DOMAIN n = {1} /\ n[1] = b /\ Range(n) = {b}
    BY <2>4, <2>6 DEF Range
  <2>8. Spaced(n, 1)
    BY <2>7 DEF Spaced
  <2>9. PagesOf(n) = {p} /\ FirstOf(n) = p
    BY <2>4, <2>7 DEF PagesOf, FirstOf
  <2>10. MapOK(n, {})
    <3>1. Area = Pointer .. PageEnd - 1 /\ PageEnd \in Nat /\ Pointer \in Nat /\ PageEnd - 1 \in Area
      BY Constants DEF Area
    <3>2. ASSUME NEW x \in Area PROVE FreeAt(n, p, x)
      BY <2>4, <2>7, <3>1 DEF FreeAt, Has
    <3> QED BY <2>9, <3>1, <3>2 DEF MapOK, TakenAt
  <2>11. PagesOf(n) \ {p} = {}
    BY <2>9
  <2> QED BY <2>1, <2>3, <2>5, <2>6, <2>7, <2>8, <2>9, <2>10, <2>11 DEF HeapOK
<1> QED BY <1>1, <1>2

-----------------------------------------------------------------------------
(* The state. *)

LEMMA HeapIsHeap == Heap.first = first_page /\ Heap.list = blocks /\ Heap.pool = pool
BY DEF Heap

LEMMA EmptyHeapOK ==
    ASSUME NEW h, h.first = NoPage, h.list = <<>>, h.pool = NoPool
    PROVE  HeapOK(h, {})
<1>1. PagesOf(h.list) = {} /\ FirstOf(h.list) = NoPage /\ h.list \in Seq(Piece)
  BY DEF PagesOf, Range, FirstOf
<1>2. Spaced(h.list, 1)
  BY DEF Spaced
<1>3. MapOK(h.list, {})
  BY <1>1 DEF MapOK
<1>4. PoolMatches(h.pool, PagesOf(h.list))
  BY <1>1, NoPoolMatches
<1> QED BY <1>1, <1>2, <1>3, <1>4 DEF HeapOK

\* Of a process that has ended, and of one that begins, nothing is left but the verdict.
Nothing ==
    /\ first_page = NoPage /\ blocks = <<>> /\ pool = NoPool
    /\ requests = [r \in Requests |-> Unused]

LEMMA NothingHeld == Nothing /\ verdict \in Verdict /\ CulpritInv => IInv
<1> SUFFICES ASSUME Nothing, verdict \in Verdict, CulpritInv PROVE IInv
  OBVIOUS
<1>1. requests = [r \in Requests |-> Unused] /\ pool = NoPool
  BY DEF Nothing
<1>2. Unused \in [used : BOOLEAN, size : Sizes \cup {0}, page : Page, offset : 0 .. PAGESIZE]
  BY Constants DEF Unused, Page
<1>3. DriverTypeOK
  <2>1. NoPool \in Pool
    BY NoPoolMatches DEF PoolMatches
  <2> QED BY <1>1, <1>2, <2>1 DEF DriverTypeOK
<1>4. \A r \in Requests : requests[r] = Unused /\ ~requests[r].used
  BY <1>1 DEF Unused
<1>5. Live = {} /\ Taken = {}
  BY <1>4 DEF Live, Taken
<1>6. RequestInv /\ LiveInv
  BY <1>4, <1>5 DEF RequestInv, LiveInv
<1>7. HeapOK(Heap, Taken)
  <2>1. Heap.first = NoPage /\ Heap.list = <<>> /\ Heap.pool = NoPool
    BY HeapIsHeap DEF Nothing
  <2> QED BY <1>5, <2>1, EmptyHeapOK
<1> QED BY <1>3, <1>6, <1>7 DEF IInv

LEMMA Initially == Init => IInv
<1> SUFFICES ASSUME Init PROVE IInv
  OBVIOUS
<1>1. Nothing /\ verdict \in Verdict
  BY DEF Init, DriverInit, Nothing, Verdict
<1>2. CulpritInv
  BY DEF Init, DriverInit, CulpritInv, DamageIsBySize
<1> QED BY <1>1, <1>2, NothingHeld

LEMMA StutterKeeps == IInv /\ UNCHANGED vars => IInv'
<1> SUFFICES ASSUME IInv, UNCHANGED vars PROVE IInv'
  OBVIOUS
<1>1. /\ first_page' = first_page /\ blocks' = blocks /\ culprit' = culprit
      /\ pool' = pool /\ requests' = requests /\ verdict' = verdict
  BY DEF vars, driverVars
<1>2. DriverTypeOK'
  BY <1>1 DEF IInv, DriverTypeOK
<1>3. RequestInv'
  BY <1>1 DEF IInv, RequestInv
<1>4. Memory' = Memory /\ Live' = Live /\ Heap' = Heap
  BY <1>1 DEF Memory, Live, Heap
<1>5. LiveInv'
  BY <1>1, <1>4 DEF IInv, LiveInv
<1>6. CulpritInv'
  BY <1>1 DEF IInv, CulpritInv, DamageIsBySize
<1>7. HeapOK(Heap, Taken)'
  <2>1. Taken' = Taken
    BY <1>4 DEF Taken
  <2> QED BY <1>4, <2>1 DEF IInv
<1> QED BY <1>2, <1>3, <1>5, <1>6, <1>7 DEF IInv

LEMMA MemoryIs ==
    ASSUME NEW r \in Requests
    PROVE  /\ Memory[r] = [page |-> requests[r].page, offset |-> requests[r].offset, size |-> requests[r].size]
           /\ Memory[r].page = requests[r].page /\ Memory[r].offset = requests[r].offset
           /\ Memory[r].size = requests[r].size
BY DEF Memory

LEMMA LiveIs ==
    ASSUME IInv, NEW r \in Live
    PROVE  /\ r \in Requests /\ requests[r].used
           /\ Memory[r] \in Taken /\ Memory[r] \in Piece /\ Memory[r].size \in Sizes
           /\ \A q \in Live : r # q => Memory[r] # Memory[q] /\ A!Disjoint(Memory[r], Memory[q])
<1>1. r \in Requests /\ requests[r].used /\ Memory[r] \in Taken
  BY DEF Live, Taken
<1>2. Memory[r] \in Piece
  BY <1>1 DEF IInv, HeapOK, MapOK
<1>3. Memory[r].size \in Sizes
  BY <1>1, MemoryIs DEF IInv, LiveInv
<1>4. ASSUME NEW q \in Live, r # q PROVE A!Disjoint(Memory[r], Memory[q])
  BY <1>4 DEF IInv, LiveInv
<1>5. ~A!Disjoint(Memory[r], Memory[r])
  <2>1. Memory[r].offset \in Nat /\ Memory[r].size \in Nat \ {0}
    BY <1>2, PieceIs
  <2> QED BY <2>1 DEF A!Disjoint
<1> QED BY <1>1, <1>2, <1>3, <1>4, <1>5

LEMMA LivePartsAre ==
    ASSUME NEW p
    PROVE  LiveParts(p) = {t \in Taken : t.page = p}
<1>1. ASSUME NEW r \in Live PROVE Memory[r].page = requests[r].page
  BY MemoryIs DEF Live
<1> QED BY <1>1 DEF LiveParts, Taken

LEMMA HeapByParts ==
    ASSUME NEW h, NEW taken, HeapOK(h, taken),
           NEW g, g.first = h.first, g.list = h.list, g.pool = h.pool
    PROVE  HeapOK(g, taken)
BY DEF HeapOK

LEMMA EndKeeps ==
    ASSUME NEW v \in Verdict, Ends(v), first_page' = NoPage, blocks' = <<>>, CulpritInv'
    PROVE  IInv'
<1>1. Nothing'
  BY DEF Ends, Nothing
<1>2. verdict' \in Verdict
  BY DEF Ends
<1>3. (Nothing /\ verdict \in Verdict /\ CulpritInv => IInv)'
  BY NothingHeld, PTL
<1> QED BY <1>1, <1>2, <1>3

LEMMA ExitKeeps ==
    ASSUME IInv, NEW v \in Verdict \ {"damage"}, Ends(v), first_page' = NoPage, blocks' = <<>>,
           culprit' = culprit
    PROVE  IInv'
<1>1. CulpritInv'
  <2>1. culprit \in Sizes \cup {0}
    BY DEF IInv, CulpritInv
  <2>2. verdict' # "damage"
    BY DEF Ends
  <2> QED BY <2>1, <2>2 DEF CulpritInv, DamageIsBySize
<1> QED BY <1>1, EndKeeps

LEMMA DamageKeeps ==
    ASSUME NEW size \in Sizes, Damage(size), size < Header \/ size > PAGESIZE - Pointer - Header
    PROVE  IInv'
<1>1. culprit' = size
  BY DEF Damage
<1>2. CulpritInv'
  BY <1>1 DEF CulpritInv, DamageIsBySize
<1> QED BY <1>2, EndKeeps DEF Damage, Verdict

\* A request gets memory that nobody has.
LEMMA GrantKeeps ==
    ASSUME IInv, NEW r \in Requests, ~requests[r].used, NEW size \in Sizes,
           NEW k, NEW m \in Piece, m.size = size, HeapOK(k, Taken \cup {m}),
           \A t \in Taken : A!Disjoint(m, t),
           HeapIs(k), Grant(r, size, m.page, m.offset)
    PROVE  IInv'
<1>1. /\ requests \in [Requests -> [used : BOOLEAN, size : Sizes \cup {0},
                                    page : Page, offset : 0 .. PAGESIZE]]
      /\ verdict \in Verdict
  BY DEF IInv, DriverTypeOK
<1>2. /\ m.page \in Page /\ m.offset \in Nat /\ m.size \in Nat \ {0} /\ m.offset + m.size <= PageEnd
      /\ m = [page |-> m.page, offset |-> m.offset, size |-> m.size]
  BY PieceIs
<1>3. m.offset \in 0 .. PAGESIZE
  BY <1>2, Constants
<1>4. PICK req : req = [used |-> TRUE, size |-> size, page |-> m.page, offset |-> m.offset]
  OBVIOUS
<1>5. /\ req \in [used : BOOLEAN, size : Sizes \cup {0}, page : Page, offset : 0 .. PAGESIZE]
      /\ req.used = TRUE /\ req.size = size /\ req.page = m.page /\ req.offset = m.offset
  BY <1>2, <1>3, <1>4
<1>6. requests' = [requests EXCEPT ![r] = req] /\ verdict' = verdict
  BY <1>4 DEF Grant
<1>7. first_page' = k.first /\ blocks' = k.list /\ pool' = k.pool /\ culprit' = culprit
  BY DEF HeapIs
<1>8. requests'[r] = req /\ \A q \in Requests \ {r} : requests'[q] = requests[q]
  BY <1>1, <1>6
<1>9. DriverTypeOK'
  <2>1. requests' \in [Requests -> [used : BOOLEAN, size : Sizes \cup {0},
                                    page : Page, offset : 0 .. PAGESIZE]]
    BY <1>1, <1>5, <1>6
  <2>2. k.pool \in Pool
    BY DEF HeapOK, PoolMatches
  <2> QED BY <1>1, <1>6, <1>7, <2>1, <2>2 DEF DriverTypeOK
<1>10. RequestInv'
  BY <1>5, <1>8 DEF IInv, RequestInv
<1>11. Live' = Live \cup {r}
  BY <1>5, <1>8 DEF Live
<1>12. r \notin Live /\ Live \subseteq Requests
  BY DEF Live
<1>13. Memory'[r] = m
  BY <1>2, <1>5, <1>8 DEF Memory
<1>14. ASSUME NEW q \in Live PROVE Memory'[q] = Memory[q] /\ requests'[q] = requests[q]
  BY <1>8, <1>12 DEF Memory
<1>15. Taken' = Taken \cup {m}
  <2>1. Taken' = {Memory'[q] : q \in Live'}
    BY DEF Taken
  <2>2. \A e : e \in Taken' <=> e \in Taken \cup {m}
    BY <1>11, <1>13, <1>14, <2>1 DEF Taken
  <2> QED BY <2>2
<1>16. LiveInv'
  <2>1. ASSUME NEW q \in Live' PROVE requests'[q].size \in Sizes
    BY <1>5, <1>8, <1>11, <1>14 DEF IInv, LiveInv
  <2>2. ASSUME NEW q \in Live PROVE A!Disjoint(m, Memory[q]) /\ A!Disjoint(Memory[q], m)
    <3>1. Memory[q] \in Taken /\ Memory[q] \in Piece
      BY LiveIs
    <3> QED BY <3>1, ApartIsOrdered
  <2>3. ASSUME NEW q \in Live', NEW s \in Live', q # s
        PROVE  A!Disjoint(Memory'[q], Memory'[s])
    <3>1. CASE q = r
      BY <1>11, <1>13, <1>14, <2>2, <2>3, <3>1
    <3>2. CASE s = r
      BY <1>11, <1>13, <1>14, <2>2, <2>3, <3>2
    <3>3. CASE q # r /\ s # r
      <4>1. q \in Live /\ s \in Live
        BY <1>11, <3>3
      <4>2. A!Disjoint(Memory[q], Memory[s])
        BY <2>3, <4>1 DEF IInv, LiveInv
      <4> QED BY <1>14, <4>1, <4>2
    <3> QED BY <3>1, <3>2, <3>3
  <2> QED BY <2>1, <2>3 DEF LiveInv, A!Disjoint
<1>17. CulpritInv'
  BY <1>6, <1>7 DEF IInv, CulpritInv, DamageIsBySize
<1>18. HeapOK(Heap, Taken)'
  <2>1. Heap'.first = k.first /\ Heap'.list = k.list /\ Heap'.pool = k.pool
    BY <1>7 DEF Heap
  <2>2. HeapOK(Heap', Taken')
    BY <1>15, <2>1, HeapByParts
  <2> QED BY <2>2 DEF HeapOK, MapOK, TakenAt
<1> QED BY <1>9, <1>10, <1>16, <1>17, <1>18 DEF IInv

\* The header of a block of the list falls on no memory but the block's.
LEMMA NoOverwrite ==
    ASSUME NEW list \in Seq(Piece), Spaced(list, 1), NEW taken, MapOK(list, taken),
           Taken \subseteq taken, NEW b \in Range(list), b.size >= Header
    PROVE  ~Overwrites(list, b)
<1>1. PICK parts : parts = LiveParts(b.page) \cup (FreeParts(list, b.page) \ {b})
  OBVIOUS
<1>2. b \in Piece
  BY InRange
<1>3. ASSUME NEW part \in parts
      PROVE  part \in Piece /\ part.page = b.page /\ A!Disjoint(b, part)
  <2>1. CASE part \in LiveParts(b.page)
    <3>1. part \in taken /\ part.page = b.page
      BY <2>1, LivePartsAre
    <3>2. A!Disjoint(part, b) /\ part \in Piece
      BY <3>1, TakenApart DEF MapOK
    <3> QED BY <1>2, <3>1, <3>2, ApartIsOrdered
  <2>2. CASE part \in FreeParts(list, b.page) \ {b}
    <3>1. part \in Range(list) /\ part.page = b.page /\ part # b
      BY <2>2 DEF FreeParts
    <3>2. part \in Piece
      BY <3>1, InRange
    <3>3. Precedes(b, part, 1) \/ Precedes(part, b, 1)
      BY <3>1, RangeSpaced
    <3>4. Precedes(b, part, 0) \/ Precedes(part, b, 0)
      BY <1>2, <3>2, <3>3, PrecedesIsBefore
    <3> QED BY <1>2, <3>1, <3>2, <3>4, ApartIsOrdered
  <2> QED BY <1>1, <2>1, <2>2
<1>4. ~HeaderOver(parts, b)
  <2>1. parts \in SUBSET Piece
    BY <1>3
  <2> QED BY <1>2, <1>3, <2>1, HeaderInside
<1> QED BY <1>1, <1>4 DEF Overwrites

\* The heap kma_malloc works on.
LEMMA HeapToUse ==
    ASSUME IInv, NEW h, h = WithFirstPage(Heap)
    PROVE  /\ HeapOK(h, Taken) /\ h.list # <<>> /\ h.list \in Seq(Piece)
           /\ h = [first |-> h.first, list |-> h.list, pool |-> h.pool]
<1>1. HeapOK(h, Taken) /\ h.list # <<>>
  BY FirstPageKeeps DEF IInv
<1>2. h = [first |-> h.first, list |-> h.list, pool |-> h.pool]
  BY DEF WithFirstPage, Heap
<1> QED BY <1>1, <1>2 DEF HeapOK

\* A block that is split never damages anything.
LEMMA FirstFitKeeps ==
    ASSUME IInv, NEW r \in Requests, ~requests[r].used, NEW size \in Sizes,
           AllocateFirstFit(r, size)
    PROVE  IInv' /\ verdict' = verdict
<1>1. PICK h : h = WithFirstPage(Heap)
  OBVIOUS
<1>2. /\ HeapOK(h, Taken) /\ h.list \in Seq(Piece)
      /\ h = [first |-> h.first, list |-> h.list, pool |-> h.pool]
  BY <1>1, HeapToUse
<1>3. PICK i : i = Min(Fits(h.list, size))
  OBVIOUS
<1>4. PICK n : n = [h.list EXCEPT ![i] = Shrink(@, size)]
  OBVIOUS
<1>5. PICK k : k = [h EXCEPT !.list = n]
  OBVIOUS
<1>6. /\ Fits(h.list, size) # {}
      /\ IF Overwrites(n, n[i])
         THEN Damage(size)
         ELSE HeapIs(k) /\ Grant(r, size, h.list[i].page, h.list[i].offset)
  BY <1>1, <1>3, <1>4, <1>5 DEF AllocateFirstFit
<1>7. i \in 1 .. Len(h.list) /\ h.list[i].size >= size + Header
  <2>1. Fits(h.list, size) \in SUBSET Nat
    BY <1>2 DEF Fits
  <2>2. i \in Fits(h.list, size)
    BY <1>3, <1>6, <2>1, MinIsLeast
  <2> QED BY <1>2, <2>2 DEF Fits
<1>8. k.first = h.first /\ k.pool = h.pool /\ k.list = n
  BY <1>2, <1>5
<1>9. PICK m : m = [page |-> h.list[i].page, offset |-> h.list[i].offset, size |-> size]
  OBVIOUS
<1>10. SplitOff(h.list, i, size, k.list, m)
  BY <1>4, <1>8, <1>9 DEF SplitOff
<1>11. m.size = size /\ m.page = h.list[i].page /\ m.offset = h.list[i].offset
  BY <1>9
<1>12. size \in Nat \ {0}
  BY Constants
<1>13. /\ HeapOK(k, Taken \cup {m}) /\ m \in Piece /\ k.list[i] \in Range(k.list)
       /\ \A t \in Taken : A!Disjoint(m, t)
       /\ k.list[i].size >= Header
  BY <1>2, <1>7, <1>8, <1>10, <1>12, FitIs
<1>14. ~Overwrites(n, n[i])
  <2>1. n \in Seq(Piece) /\ Spaced(n, 1) /\ MapOK(n, Taken \cup {m})
    BY <1>8, <1>13 DEF HeapOK
  <2> QED BY <1>8, <1>13, <2>1, NoOverwrite
<1>15. HeapIs(k) /\ Grant(r, size, m.page, m.offset)
  BY <1>6, <1>11, <1>14
<1>16. IInv'
  BY <1>11, <1>13, <1>15, GrantKeeps
<1> QED BY <1>15, <1>16 DEF Grant

\* The rest of a new page has no room for its header only when too much is asked for.
LEMMA OverwritesNew ==
    ASSUME IInv, NEW h, HeapOK(h, Taken), ~Exhausted(h.pool), NEW size \in Sizes,
           NEW b, b = Rest(NextPage(h.pool), size)
    PROVE  Overwrites(<<>>, b) <=> Pointer + size + Header > PAGESIZE
<1>1. b.page = NextPage(h.pool) /\ b.offset = Pointer + size
  BY DEF Rest, Shrink, WholePage
<1>2. NextPage(h.pool) \notin PagesOf(h.list)
  BY GetPageLends DEF HeapOK
<1>3. LiveParts(b.page) = {}
  <2>1. \A t \in Taken : t.page \in PagesOf(h.list)
    BY DEF HeapOK, MapOK
  <2> QED BY <1>1, <1>2, <2>1, LivePartsAre
<1>4. FreeParts(<<>>, b.page) = {}
  BY DEF FreeParts, Range
<1>5. Overwrites(<<>>, b) <=> HeaderOver({}, b)
  BY <1>3, <1>4 DEF Overwrites
<1> QED BY <1>1, <1>5 DEF HeaderOver

LEMMA NewPageKeeps ==
    ASSUME IInv, NEW r \in Requests, ~requests[r].used, NEW size \in Sizes,
           AllocateOnNewPage(r, size)
    PROVE  IInv' /\ verdict' = verdict
<1>1. PICK h : h = WithFirstPage(Heap)
  OBVIOUS
<1>2. /\ HeapOK(h, Taken) /\ h.list # <<>>
      /\ h = [first |-> h.first, list |-> h.list, pool |-> h.pool]
  BY <1>1, HeapToUse
<1>3. PICK p, b : p = NextPage(h.pool) /\ b = Rest(p, size)
  OBVIOUS
<1>4. PICK k : k = [h EXCEPT !.list = Link(@, b), !.pool = get_page(@)]
  OBVIOUS
<1>5. /\ ~Exhausted(h.pool) /\ ~Overwrites(<<>>, b) /\ ~LinkFails(h.list, b)
      /\ HeapIs(k) /\ Grant(r, size, p, Pointer)
  BY <1>1, <1>3, <1>4 DEF AllocateOnNewPage
<1>6. k.first = h.first /\ k.pool = get_page(h.pool) /\ k.list = Link(h.list, b)
  BY <1>2, <1>4
<1>7. PICK m : m = [page |-> p, offset |-> Pointer, size |-> size]
  OBVIOUS
<1>8. m.size = size /\ m.page = p /\ m.offset = Pointer
  BY <1>7
<1>9. PutNew(h, size, k, m)
  BY <1>3, <1>6, <1>7 DEF PutNew
<1>10. size \in Nat \ {0} /\ Pointer + size + Header <= PAGESIZE
  <2>1. ~(Pointer + size + Header > PAGESIZE)
    BY <1>2, <1>3, <1>5, OverwritesNew
  <2> QED BY <2>1, Constants
<1>11. 1 \notin Later(h.list, Rest(NextPage(h.pool), size))
  BY <1>3, <1>5 DEF LinkFails
<1>12. /\ HeapOK(k, Taken \cup {m}) /\ m \in Piece
       /\ \A t \in Taken : A!Disjoint(m, t)
  BY <1>2, <1>5, <1>9, <1>10, <1>11, NewIs
<1>13. IInv'
  BY <1>5, <1>8, <1>12, GrantKeeps
<1> QED BY <1>5, <1>13 DEF Grant

LEMMA NewPageFailsKeeps ==
    ASSUME IInv, NEW size \in Sizes, NewPageFails(size)
    PROVE  IInv'
<1>1. PICK h : h = WithFirstPage(Heap)
  OBVIOUS
<1>2. HeapOK(h, Taken)
  BY <1>1, HeapToUse
<1>3. PICK b : b = Rest(NextPage(h.pool), size)
  OBVIOUS
<1>4. \/ Exit("error") \/ Exit("crash")
      \/ ~Exhausted(h.pool) /\ Overwrites(<<>>, b) /\ Damage(size)
  BY <1>1, <1>3 DEF NewPageFails
<1>5. CASE Exit("error") \/ Exit("crash")
  BY <1>5, ExitKeeps DEF Exit, Verdict
<1>6. CASE ~Exhausted(h.pool) /\ Overwrites(<<>>, b) /\ Damage(size)
  <2>1. Pointer + size + Header > PAGESIZE
    BY <1>2, <1>3, <1>6, OverwritesNew
  <2>2. size > PAGESIZE - Pointer - Header
    BY <2>1, Constants
  <2> QED BY <1>6, <2>2, DamageKeeps
<1> QED BY <1>4, <1>5, <1>6

LEMMA RefuseKeeps ==
    ASSUME IInv, NEW size \in Sizes, Refuse(size)
    PROVE  IInv'
<1>1. CASE ~MayBeRefused(size)
  BY <1>1, ExitKeeps DEF Refuse, Exit, Verdict
<1>2. CASE MayBeRefused(size)
  <2>1. PICK h : h = WithFirstPage(Heap)
    OBVIOUS
  <2>2. HeapOK(h, Taken)
    BY <2>1, HeapToUse
  <2>3. HeapIs(h) /\ requests' = requests /\ verdict' = verdict
    BY <1>2, <2>1 DEF Refuse
  <2>4. first_page' = h.first /\ blocks' = h.list /\ pool' = h.pool /\ culprit' = culprit
    BY <2>3 DEF HeapIs
  <2>5. DriverTypeOK'
    <3>1. h.pool \in Pool
      BY <2>2 DEF HeapOK, PoolMatches
    <3> QED BY <2>3, <2>4, <3>1 DEF IInv, DriverTypeOK
  <2>6. RequestInv'
    BY <2>3 DEF IInv, RequestInv
  <2>7. Memory' = Memory /\ Live' = Live
    BY <2>3 DEF Memory, Live
  <2>8. LiveInv'
    BY <2>3, <2>7 DEF IInv, LiveInv
  <2>9. CulpritInv'
    BY <2>3, <2>4 DEF IInv, CulpritInv, DamageIsBySize
  <2>10. HeapOK(Heap, Taken)'
    <3>1. Taken' = Taken
      BY <2>7 DEF Taken
    <3>2. Heap'.first = h.first /\ Heap'.list = h.list /\ Heap'.pool = h.pool
      BY <2>4 DEF Heap
    <3>3. HeapOK(Heap', Taken')
      BY <2>2, <3>1, <3>2, HeapByParts
    <3> QED BY <3>3 DEF HeapOK, MapOK, TakenAt
  <2> QED BY <2>5, <2>6, <2>8, <2>9, <2>10 DEF IInv
<1> QED BY <1>1, <1>2

\* What is given back goes into the list, unless it has no room for a header.
LEMMA DeallocateKeeps ==
    ASSUME IInv, NEW r \in Requests, deallocate(r)
    PROVE  IInv'
<1>1. PICK b : b = Memory[r]
  OBVIOUS
<1>2. requests[r].used /\ r \in Live
  BY DEF deallocate, Live
<1>3. /\ b \in Taken /\ b \in Piece /\ b.size \in Sizes
      /\ \A q \in Live : r # q => b # Memory[q] /\ A!Disjoint(b, Memory[q])
  BY <1>1, <1>2, LiveIs
<1>4. PICK others : others = (LiveParts(b.page) \ {b}) \cup FreeParts(blocks, b.page)
  OBVIOUS
<1>5. IF Later(blocks, b) # {} /\ HeaderOver(others, b)
      THEN Damage(b.size)
      ELSE /\ HeapIs(Freed(b)) /\ requests' = [requests EXCEPT ![r] = Unused]
           /\ verdict' = verdict
  BY <1>1, <1>4 DEF deallocate
<1>6. /\ blocks \in Seq(Piece) /\ Spaced(blocks, 1) /\ MapOK(blocks, Taken) /\ HeapOK(Heap, Taken)
  BY HeapIsHeap DEF IInv, HeapOK
<1>7. ASSUME NEW t \in Taken \ {b} PROVE A!Disjoint(b, t) /\ A!Disjoint(t, b) /\ t \in Piece
  <2>1. PICK q \in Live : t = Memory[q]
    BY DEF Taken
  <2>2. q # r
    BY <1>1, <1>7, <2>1
  <2>3. A!Disjoint(b, t) /\ t \in Piece
    BY <1>3, <2>1, <2>2, LiveIs
  <2> QED BY <1>3, <2>3, ApartIsOrdered
<1>8. CASE Later(blocks, b) # {} /\ HeaderOver(others, b)
  <2>1. ASSUME NEW part \in others PROVE part \in Piece /\ part.page = b.page /\ A!Disjoint(b, part)
    <3>1. CASE part \in LiveParts(b.page) \ {b}
      BY <1>7, <3>1, LivePartsAre
    <3>2. CASE part \in FreeParts(blocks, b.page)
      <4>1. part \in Range(blocks) /\ part.page = b.page
        BY <3>2 DEF FreeParts
      <4> QED BY <1>3, <1>6, <4>1, InRange, TakenApart
    <3> QED BY <1>4, <3>1, <3>2
  <2>2. ~(b.size >= Header)
    <3>1. others \in SUBSET Piece
      BY <2>1
    <3> QED BY <1>3, <1>8, <2>1, <3>1, HeaderInside
  <2>3. b.size < Header
    <3>1. b.size \in Nat /\ Header \in Nat
      BY <1>3, PieceIs, Constants
    <3> QED BY <2>2, <3>1
  <2> QED BY <1>3, <1>5, <1>8, <2>3, DamageKeeps
<1>9. CASE ~(Later(blocks, b) # {} /\ HeaderOver(others, b))
  <2>1. PICK k : k = [Heap EXCEPT !.list = coalesce(Insert(@, b))]
    OBVIOUS
  <2>2. PICK n : n = clear_empty_pages(k)
    OBVIOUS
  <2>3. k.first = Heap.first /\ k.pool = Heap.pool /\ k.list = coalesce(Insert(Heap.list, b))
    BY <2>1 DEF Heap
  <2>4. HeapOK(n, Taken \ {b})
    BY <1>3, <1>6, <1>7, <2>2, <2>3, FreeIs
  <2>5. HeapIs(n) /\ requests' = [requests EXCEPT ![r] = Unused] /\ verdict' = verdict
    BY <1>5, <1>9, <2>1, <2>2 DEF Freed
  <2>6. first_page' = n.first /\ blocks' = n.list /\ pool' = n.pool /\ culprit' = culprit
    BY <2>5 DEF HeapIs
  <2>7. /\ requests \in [Requests -> [used : BOOLEAN, size : Sizes \cup {0},
                                      page : Page, offset : 0 .. PAGESIZE]]
        /\ verdict \in Verdict
    BY DEF IInv, DriverTypeOK
  <2>8. /\ Unused \in [used : BOOLEAN, size : Sizes \cup {0}, page : Page, offset : 0 .. PAGESIZE]
        /\ ~Unused.used
    BY Constants DEF Unused, Page
  <2>9. requests'[r] = Unused /\ \A q \in Requests \ {r} : requests'[q] = requests[q]
    BY <2>5, <2>7
  <2>10. DriverTypeOK'
    <3>1. requests' \in [Requests -> [used : BOOLEAN, size : Sizes \cup {0},
                                      page : Page, offset : 0 .. PAGESIZE]]
      BY <2>5, <2>7, <2>8
    <3>2. n.pool \in Pool
      BY <2>4 DEF HeapOK, PoolMatches
    <3> QED BY <2>5, <2>6, <2>7, <3>1, <3>2 DEF DriverTypeOK
  <2>11. RequestInv'
    BY <2>9 DEF IInv, RequestInv
  <2>12. Live' = Live \ {r}
    BY <2>8, <2>9 DEF Live
  <2>13. ASSUME NEW q \in Live' PROVE Memory'[q] = Memory[q] /\ requests'[q] = requests[q] /\ q \in Live
    BY <2>9, <2>12 DEF Memory, Live
  <2>14. Taken' = Taken \ {b}
    <3>1. Taken' = {Memory'[q] : q \in Live'}
      BY DEF Taken
    <3>2. \A q \in Live : q # r => Memory[q] # b
      BY <1>3
    <3>3. \A e : e \in Taken' <=> e \in Taken \ {b}
      BY <1>1, <2>12, <2>13, <3>1, <3>2 DEF Taken
    <3> QED BY <3>3
  <2>15. LiveInv'
    <3>1. ASSUME NEW q \in Live' PROVE requests'[q].size \in Sizes
      BY <2>13 DEF IInv, LiveInv
    <3>2. ASSUME NEW q \in Live', NEW s \in Live', q # s PROVE A!Disjoint(Memory'[q], Memory'[s])
      BY <2>13, <3>2 DEF IInv, LiveInv
    <3> QED BY <3>1, <3>2 DEF LiveInv, A!Disjoint
  <2>16. CulpritInv'
    BY <2>5, <2>6 DEF IInv, CulpritInv, DamageIsBySize
  <2>17. HeapOK(Heap, Taken)'
    <3>1. Heap'.first = n.first /\ Heap'.list = n.list /\ Heap'.pool = n.pool
      BY <2>6 DEF Heap
    <3>2. HeapOK(Heap', Taken')
      BY <2>4, <2>14, <3>1, HeapByParts
    <3> QED BY <3>2 DEF HeapOK, MapOK, TakenAt
  <2> QED BY <2>10, <2>11, <2>15, <2>16, <2>17 DEF IInv
<1> QED BY <1>8, <1>9

LEMMA StopKeeps == ASSUME IInv, Stop PROVE IInv'
<1>1. PICK v \in Verdict \ {"damage"} : Ends(v)
  BY DEF Stop, EndOfTrace, WrongLine, Verdict
<1> QED BY <1>1, ExitKeeps DEF Stop

LEMMA Inductive == IInv /\ [Next]_vars => IInv'
<1> SUFFICES ASSUME IInv, [Next]_vars PROVE IInv'
  OBVIOUS
<1>1. CASE Stop
  BY <1>1, StopKeeps
<1>2. ASSUME NEW r \in Requests, deallocate(r) PROVE IInv'
  BY <1>2, DeallocateKeeps
<1>3. ASSUME NEW r \in Requests, NEW size \in Sizes, allocate(r, size) PROVE IInv'
  <2>1. ~requests[r].used
    BY <1>3 DEF allocate
  <2>2. CASE Refuse(size)
    BY <2>2, RefuseKeeps
  <2>3. CASE AllocateFirstFit(r, size)
    BY <2>1, <2>3, FirstFitKeeps
  <2>4. CASE AllocateOnNewPage(r, size)
    BY <2>1, <2>4, NewPageKeeps
  <2>5. CASE NewPageFails(size)
    BY <2>5, NewPageFailsKeeps
  <2> QED BY <1>3, <2>2, <2>3, <2>4, <2>5 DEF allocate
<1>4. CASE UNCHANGED vars
  BY <1>4, StutterKeeps
<1> QED BY <1>1, <1>2, <1>3, <1>4 DEF Next

\* The invariant the theorems rest on: every byte of every page that is lent is in a
\* block of the list or in some request's memory, and never in both.
THEOREM Invariant == Spec => []IInv
<1> QED BY Initially, Inductive, PTL DEF Spec

-----------------------------------------------------------------------------
(* The properties. *)

\* The variables keep their types: the list is one of blocks inside pages.
THEOREM TypeCorrect == Spec => []TypeOK
<1>1. IInv => TypeOK
  <2> SUFFICES ASSUME IInv PROVE TypeOK
    OBVIOUS
  <2>1. /\ blocks \in Seq(Piece) /\ Spaced(blocks, 1) /\ first_page = FirstOf(blocks)
    BY HeapIsHeap DEF IInv, HeapOK
  <2>2. first_page \in Page \cup {NoPage}
    <3>1. blocks # <<>> => FirstOf(blocks) \in PagesOf(blocks)
      BY <2>1, FirstIs
    <3>2. blocks = <<>> => FirstOf(blocks) = NoPage
      BY DEF FirstOf
    <3> QED BY <2>1, <3>1, <3>2, PagesArePages
  <2>3. blocks \in Seq(Block)
    <3>1. Piece \subseteq Block
      BY DEF Piece
    <3> QED BY <2>1, <3>1
  <2> QED BY <2>2, <2>3 DEF IInv, CulpritInv, TypeOK
<1> QED BY <1>1, Invariant, PTL

\* kma_free always finds the list as it needs it: it begins on the first page, is
\* ordered and joined, and has a block behind everything in use.
THEOREM ListStaysComplete == Spec => []ListComplete
<1>1. IInv => ListComplete
  <2> SUFFICES ASSUME IInv PROVE ListComplete
    OBVIOUS
  <2>1. /\ blocks \in Seq(Piece) /\ Spaced(blocks, 1) /\ first_page = FirstOf(blocks)
        /\ MapOK(blocks, Taken)
    BY HeapIsHeap DEF IInv, HeapOK
  <2>2. first_page = IF blocks = <<>> THEN NoPage ELSE Head(blocks).page
    BY <2>1 DEF FirstOf
  <2>3. ASSUME NEW i \in 1 .. Len(blocks) - 1
        PROVE  Before(blocks[i], blocks[i + 1]) /\ ~Adjacent(blocks[i], blocks[i + 1])
    <3>1. i \in DOMAIN blocks /\ i + 1 \in DOMAIN blocks /\ i < i + 1
      BY <2>1
    <3>2. PICK a, b : a = blocks[i] /\ b = blocks[i + 1]
      OBVIOUS
    <3>3. a \in Piece /\ b \in Piece /\ Precedes(a, b, 1)
      BY <2>1, <3>1, <3>2 DEF Spaced
    <3>4. /\ a.page \in Nat /\ a.offset \in Nat /\ a.size \in Nat
          /\ b.page \in Nat /\ b.offset \in Nat
      BY <3>3, PieceIs
    <3>5. Before(a, b) /\ ~Adjacent(a, b)
      BY <3>3, <3>4 DEF Precedes, Before, Adjacent
    <3> QED BY <3>2, <3>5
  <2>4. ASSUME NEW r \in Live
        PROVE  \E b \in Range(blocks) : b.page = requests[r].page
                                        /\ b.offset >= requests[r].offset + requests[r].size
    <3>1. Memory[r] \in Taken /\ r \in Requests
      BY LiveIs
    <3>2. \E b \in Range(blocks) : b.page = Memory[r].page /\ b.offset >= Memory[r].offset + Memory[r].size
      BY <2>1, <3>1, BlockBehind
    <3> QED BY <3>1, <3>2, MemoryIs
  <2> QED BY <2>2, <2>3, <2>4 DEF ListComplete
<1> QED BY <1>1, Invariant, PTL

\* In whatever order blocks are split, given back and joined, the free blocks and the
\* requests' memory are apart and make up every page that is lent.
THEOREM NothingEverLost == Spec => []NothingLost
<1>1. IInv => NothingLost
  <2> SUFFICES ASSUME IInv PROVE NothingLost
    OBVIOUS
  <2>1. /\ blocks \in Seq(Piece) /\ Spaced(blocks, 1) /\ first_page = FirstOf(blocks)
        /\ MapOK(blocks, Taken) /\ PoolMatches(pool, PagesOf(blocks))
        /\ \A p \in PagesOf(blocks) \ {first_page} : \E m \in Taken : m.page = p
    BY HeapIsHeap DEF IInv, HeapOK
  <2>2. Pages = PagesOf(blocks)
    BY DEF Pages, PagesOf
  <2>3. ASSUME NEW r \in Live PROVE requests[r].page \in Pages
    <3>1. Memory[r] \in Taken /\ r \in Requests
      BY LiveIs
    <3> QED BY <2>1, <2>2, <3>1, MemoryIs DEF MapOK
  <2>4. pool.num_in_use = Cardinality(Pages)
    BY <2>1, <2>2 DEF PoolMatches
  <2>5. ASSUME NEW p \in Pages
        PROVE  /\ \A a, b \in LiveParts(p) \cup FreeParts(blocks, p) : a = b \/ A!Disjoint(a, b)
               /\ LiveParts(p) \cap FreeParts(blocks, p) = {}
               /\ \A a \in LiveParts(p) \cup FreeParts(blocks, p) :
                    a.offset >= Pointer /\ a.offset + a.size <= PageEnd
               /\ \A x \in Area : \E a \in LiveParts(p) \cup FreeParts(blocks, p) : Has(a, p, x)
               /\ p # first_page => LiveParts(p) # {}
    <3>1. ASSUME NEW a \in LiveParts(p) PROVE a \in Taken /\ a \in Piece /\ a.page = p
      BY <2>1, LivePartsAre DEF MapOK
    <3>2. ASSUME NEW a \in FreeParts(blocks, p) PROVE a \in Range(blocks) /\ a \in Piece /\ a.page = p
      <4>1. a \in Range(blocks) /\ a.page = p
        BY DEF FreeParts
      <4> QED BY <2>1, <4>1, InRange
    <3>3. ASSUME NEW a \in LiveParts(p), NEW b \in LiveParts(p), a # b PROVE A!Disjoint(a, b)
      <4>1. PICK r \in Live, q \in Live : a = Memory[r] /\ b = Memory[q]
        BY <3>1 DEF Taken
      <4> QED BY <3>3, <4>1, LiveIs
    <3>4. ASSUME NEW a \in LiveParts(p), NEW b \in FreeParts(blocks, p)
          PROVE  A!Disjoint(a, b) /\ A!Disjoint(b, a) /\ a # b
      <4>1. A!Disjoint(a, b) /\ a \in Piece /\ b \in Piece
        BY <2>1, <3>1, <3>2, TakenApart
      <4>2. A!Disjoint(b, a)
        BY <4>1, ApartIsOrdered
      <4>3. ~A!Disjoint(a, a)
        <5>1. a.offset \in Nat /\ a.size \in Nat \ {0}
          BY <4>1, PieceIs
        <5> QED BY <5>1 DEF A!Disjoint
      <4> QED BY <4>1, <4>2, <4>3
    <3>5. ASSUME NEW a \in FreeParts(blocks, p), NEW b \in FreeParts(blocks, p), a # b PROVE A!Disjoint(a, b)
      <4>1. a \in Piece /\ b \in Piece
        BY <3>2
      <4>2. Precedes(a, b, 1) \/ Precedes(b, a, 1)
        BY <2>1, <3>2, <3>5, RangeSpaced
      <4>3. Precedes(a, b, 0) \/ Precedes(b, a, 0)
        BY <4>1, <4>2, PrecedesIsBefore
      <4> QED BY <4>1, <4>3, ApartIsOrdered
    <3>6. ASSUME NEW a \in LiveParts(p) \cup FreeParts(blocks, p)
          PROVE  a.offset >= Pointer /\ a.offset + a.size <= PageEnd
      BY <3>1, <3>2, PieceIs
    <3>7. ASSUME NEW x \in Area PROVE \E a \in LiveParts(p) \cup FreeParts(blocks, p) : Has(a, p, x)
      <4>1. FreeAt(blocks, p, x) \/ TakenAt(Taken, p, x)
        BY <2>1, <2>2 DEF MapOK
      <4>2. CASE FreeAt(blocks, p, x)
        <5>1. PICK a \in Range(blocks) : Has(a, p, x)
          BY <4>2 DEF FreeAt
        <5>2. a \in FreeParts(blocks, p)
          BY <5>1 DEF FreeParts, Has
        <5> QED BY <5>1, <5>2
      <4>3. CASE TakenAt(Taken, p, x)
        <5>1. PICK a \in Taken : Has(a, p, x)
          BY <4>3 DEF TakenAt
        <5>2. a \in LiveParts(p)
          BY <5>1, LivePartsAre DEF Has
        <5> QED BY <5>1, <5>2
      <4> QED BY <4>1, <4>2, <4>3
    <3>8. p # first_page => LiveParts(p) # {}
      BY <2>1, <2>2, LivePartsAre
    <3>9. \A a, b \in LiveParts(p) \cup FreeParts(blocks, p) : a = b \/ A!Disjoint(a, b)
      BY <3>3, <3>4, <3>5
    <3>10. LiveParts(p) \cap FreeParts(blocks, p) = {}
      BY <3>4
    <3> QED BY <3>6, <3>7, <3>8, <3>9, <3>10
  <2> QED BY <2>3, <2>4, <2>5 DEF NothingLost
<1> QED BY <1>1, Invariant, PTL

\* A header falls on memory that is not free only by a size that is too small for one,
\* or so large that the rest of its page is.
THEOREM DamageBySizeOnly == Spec => []DamageIsBySize
<1>1. IInv => DamageIsBySize
  BY DEF IInv, CulpritInv
<1> QED BY <1>1, Invariant, PTL

-----------------------------------------------------------------------------
(* new_page and the page below the first. *)

\* The list a process begins with leaves no page below it.
LEMMA NothingBelowAtFirst ==
    ASSUME IInv, first_page = NoPage, NEW h, h = WithFirstPage(Heap), NEW size \in Sizes,
           ~Exhausted(h.pool)
    PROVE  ~LinkFails(h.list, Rest(NextPage(h.pool), size))
<1>1. HeapOK(Heap, Taken) /\ HeapOK(h, Taken)
  BY HeapToUse DEF IInv
<1>2. Heap.pool = NoPool
  BY <1>1, HeapIsHeap, NoFirstPage
<1>3. h.list = <<WholePage(NextPage(NoPool))>>
  BY <1>2, HeapIsHeap DEF WithFirstPage
<1>4. NextPage(NoPool) = 0
  <2>1. FreePages(NoPool) = initPages
    BY DEF FreePages, NoPool
  <2>2. initPages \in Seq(Page) /\ 1 \in DOMAIN initPages /\ initPages[1] = 0
    BY Constants DEF initPages, Page
  <2>3. initPages # <<>> /\ Head(initPages) = initPages[1]
    BY <2>2
  <2> QED BY <2>1, <2>2, <2>3 DEF NextPage
<1>5. PICK b, c : b = Rest(NextPage(h.pool), size) /\ c = WholePage(0)
  OBVIOUS
<1>6. b.page = NextPage(h.pool) /\ c.page = 0 /\ h.list = <<c>>
  BY <1>3, <1>4, <1>5 DEF Rest, Shrink, WholePage
<1>7. b.page \in Page \ PagesOf(h.list)
  <2>1. PoolMatches(h.pool, PagesOf(h.list))
    BY <1>1 DEF HeapOK
  <2>2. NextPage(h.pool) \in Page \ PagesOf(h.list)
    BY <2>1, GetPageLends
  <2> QED BY <1>6, <2>2
<1>8. b.page \in Nat /\ b.page # 0
  <2>1. 0 \in PagesOf(h.list)
    BY <1>6 DEF PagesOf, Range
  <2> QED BY <1>7, <2>1 DEF Page
<1>9. ~Before(b, c)
  BY <1>6, <1>8 DEF Before
<1> QED BY <1>5, <1>6, <1>9 DEF LinkFails, Later

LEMMA CrashIsBelow ==
    ASSUME IInv, NEW size \in Sizes, NEW h, h = WithFirstPage(Heap), ~Exhausted(h.pool),
           LinkFails(h.list, Rest(NextPage(h.pool), size))
    PROVE  ~Exhausted(pool) /\ first_page # NoPage /\ NextPage(pool) < first_page
<1>1. first_page # NoPage
  BY NothingBelowAtFirst
<1>2. h = Heap /\ h.list = blocks /\ h.pool = pool /\ HeapOK(Heap, Taken)
  BY <1>1, HeapIsHeap DEF WithFirstPage, IInv
<1>3. /\ blocks \in Seq(Piece) /\ first_page = FirstOf(blocks) /\ PoolMatches(pool, PagesOf(blocks))
  BY <1>2, HeapIsHeap DEF HeapOK
<1>4. blocks # <<>>
  BY <1>1, <1>3 DEF FirstOf
<1>5. PICK b, c : b = Rest(NextPage(pool), size) /\ c = blocks[1]
  OBVIOUS
<1>6. b.page = NextPage(pool)
  BY <1>5 DEF Rest, Shrink, WholePage
<1>7. b.page \in Page \ PagesOf(blocks)
  BY <1>2, <1>3, <1>6, GetPageLends
<1>8. c.page = first_page /\ c.page \in PagesOf(blocks)
  BY <1>3, <1>4, <1>5 DEF FirstOf, PagesOf, Range
<1>9. Before(b, c)
  BY <1>2, <1>5 DEF LinkFails, Later
<1>10. b.page < c.page
  BY <1>7, <1>8, <1>9 DEF Before
<1> QED BY <1>1, <1>2, <1>6, <1>8, <1>10

LEMMA CrashStep ==
    IInv /\ [Next]_vars
    => [Running /\ verdict' = "crash"
        => ~Exhausted(pool) /\ first_page # NoPage /\ NextPage(pool) < first_page]_vars
<1> SUFFICES ASSUME IInv, Next, Running, verdict' = "crash"
             PROVE  ~Exhausted(pool) /\ first_page # NoPage /\ NextPage(pool) < first_page
  OBVIOUS
<1>1. verdict = "running" /\ verdict' # verdict
  BY DEF Running
<1>2. ~Stop
  BY DEF Stop, EndOfTrace, WrongLine, Ends
<1>3. ASSUME NEW r \in Requests, deallocate(r) PROVE FALSE
  BY <1>1, <1>3 DEF deallocate, Damage, Ends
<1>4. ASSUME NEW r \in Requests, NEW size \in Sizes, allocate(r, size)
      PROVE  NewPageFails(size)
  <2>1. ~requests[r].used
    BY <1>4 DEF allocate
  <2>2. ~Refuse(size)
    BY <1>1 DEF Refuse, Exit, Ends
  <2>3. ~AllocateFirstFit(r, size)
    BY <1>1, <2>1, FirstFitKeeps
  <2>4. ~AllocateOnNewPage(r, size)
    BY <1>1, <2>1, NewPageKeeps
  <2> QED BY <1>4, <2>2, <2>3, <2>4 DEF allocate
<1>5. PICK size \in Sizes : NewPageFails(size)
  BY <1>2, <1>3, <1>4 DEF Next
<1>6. PICK h : h = WithFirstPage(Heap)
  OBVIOUS
<1>7. ~Exhausted(h.pool) /\ LinkFails(h.list, Rest(NextPage(h.pool), size))
  BY <1>5, <1>6 DEF NewPageFails, Exit, Damage, Ends
<1> QED BY <1>6, <1>7, CrashIsBelow

\* The only crash of this allocator is that of new_page with a page below the first,
\* and to get there the first page must have been given back.
THEOREM CrashOnlyBelow == Spec => CrashNeedsLowerPage
<1> QED BY CrashStep, Invariant, PTL DEF Spec, CrashNeedsLowerPage

-----------------------------------------------------------------------------
(* The resource map implements Allocator. *)

\* What the requests have: some memory on a page, apart from that of the others.
MemoryOK ==
    \A r \in Live :
        /\ r \in Requests /\ Memory[r].size > 0
        /\ Memory[r].offset + Memory[r].size <= PAGESIZE
        /\ \A q \in Live \ {r} : A!Disjoint(Memory[r], Memory[q])

LEMMA MemoryIsOK == IInv => MemoryOK
<1> SUFFICES ASSUME IInv, NEW r \in Live
             PROVE  /\ r \in Requests /\ Memory[r].size > 0
                    /\ Memory[r].offset + Memory[r].size <= PAGESIZE
                    /\ \A q \in Live \ {r} : A!Disjoint(Memory[r], Memory[q])
  BY DEF MemoryOK
<1>1. /\ r \in Requests /\ Memory[r] \in Piece
      /\ \A q \in Live : r # q => A!Disjoint(Memory[r], Memory[q])
  BY LiveIs
<1>2. /\ Memory[r].offset \in Nat /\ Memory[r].size \in Nat \ {0}
      /\ Memory[r].offset + Memory[r].size <= PageEnd
  BY <1>1, PieceIs
<1> QED BY <1>1, <1>2, Constants

\* A request has memory exactly while it is in use.
LEMMA HeldIs ==
    ASSUME IInv, NEW r \in Requests
    PROVE  requests[r].used <=> Memory[r] # A!NoMemory
<1>1. CASE requests[r].used
  <2>1. Memory[r].size > 0
    BY <1>1, MemoryIsOK DEF MemoryOK, Live
  <2> QED BY <1>1, <2>1 DEF A!NoMemory
<1>2. CASE ~requests[r].used
  <2>1. requests[r] = Unused
    BY <1>2 DEF IInv, RequestInv
  <2> QED BY <1>2, <2>1 DEF Unused, A!NoMemory, Memory
<1> QED BY <1>1, <1>2

LEMMA GrantIsMalloc ==
    ASSUME IInv, MemoryOK', NEW r \in Requests, ~requests[r].used,
           NEW size, NEW p, NEW b, Grant(r, size, p, b)
    PROVE  A!Malloc(r)
<1>1. requests \in [Requests -> [used : BOOLEAN, size : Sizes \cup {0},
                                 page : Page, offset : 0 .. PAGESIZE]]
  BY DEF IInv, DriverTypeOK
<1>2. requests'[r].used /\ \A q \in Requests \ {r} : requests'[q] = requests[q]
  BY <1>1 DEF Grant
<1>3. r \in Live' /\ \A q \in Requests \ {r} : requests[q].used => q \in Live'
  BY <1>2 DEF Live
<1>4. Memory'[r].size > 0 /\ Memory'[r].offset + Memory'[r].size <= PAGESIZE
  BY <1>3 DEF MemoryOK
<1>5. A!OthersKeep(r)
  BY <1>2 DEF A!OthersKeep, Memory
<1>6. ASSUME NEW q \in Requests \ {r}, Memory[q] # A!NoMemory
      PROVE  A!Disjoint(Memory'[r], Memory[q])
  <2>1. requests[q].used
    BY <1>6, HeldIs
  <2>2. A!Disjoint(Memory'[r], Memory'[q])
    BY <1>3, <2>1 DEF MemoryOK, A!Disjoint
  <2> QED BY <1>2, <2>2 DEF Memory
<1>7. Memory[r] = A!NoMemory
  BY HeldIs
<1> QED BY <1>4, <1>5, <1>6, <1>7 DEF A!Malloc

LEMMA AllocatorNext == IInv /\ MemoryOK' /\ [Next]_vars => [A!Next]_Memory
<1> SUFFICES ASSUME IInv, MemoryOK', [Next]_vars PROVE A!Next \/ Memory' = Memory
  OBVIOUS
<1>1. ASSUME requests' = [r \in Requests |-> Unused] PROVE A!Next
  <2>1. Memory' = [r \in Requests |-> A!NoMemory]
    BY <1>1 DEF Memory, Unused, A!NoMemory
  <2> QED BY <2>1 DEF A!Next, A!Exit
<1>2. ASSUME NEW r \in Requests, NEW size \in Sizes, allocate(r, size)
      PROVE  A!Next \/ Memory' = Memory
  <2>1. ~requests[r].used
    BY <1>2 DEF allocate
  <2>2. CASE Refuse(size)
    BY <1>1, <2>2 DEF Refuse, Exit, Ends, Memory
  <2>3. CASE NewPageFails(size)
    BY <1>1, <2>3 DEF NewPageFails, Exit, Damage, Ends
  <2>4. ASSUME NEW p, NEW b, Grant(r, size, p, b) PROVE A!Next
    BY <2>1, <2>4, GrantIsMalloc DEF A!Next
  <2>5. CASE AllocateFirstFit(r, size)
    BY <1>1, <2>4, <2>5 DEF AllocateFirstFit, Damage, Ends
  <2>6. CASE AllocateOnNewPage(r, size)
    BY <2>4, <2>6 DEF AllocateOnNewPage
  <2> QED BY <1>2, <2>2, <2>3, <2>5, <2>6 DEF allocate
<1>3. ASSUME NEW r \in Requests, deallocate(r) PROVE A!Next
  <2>1. CASE requests' = [q \in Requests |-> Unused]
    BY <1>1, <2>1
  <2>2. CASE requests' # [q \in Requests |-> Unused]
    <3>1. requests[r].used /\ requests' = [requests EXCEPT ![r] = Unused]
      BY <1>3, <2>2 DEF deallocate, Damage, Ends
    <3>2. Memory[r] # A!NoMemory
      BY <3>1, HeldIs
    <3>3. requests'[r] = Unused /\ \A q \in Requests \ {r} : requests'[q] = requests[q]
      BY <3>1 DEF IInv, DriverTypeOK
    <3>4. Memory'[r] = A!NoMemory
      BY <3>3 DEF Memory, Unused, A!NoMemory
    <3>5. A!OthersKeep(r)
      BY <3>3 DEF A!OthersKeep, Memory
    <3> QED BY <3>2, <3>4, <3>5 DEF A!Next, A!Free
  <2> QED BY <2>1, <2>2
<1>4. CASE Stop
  BY <1>1, <1>4 DEF Stop, EndOfTrace, WrongLine, Ends
<1>5. CASE UNCHANGED vars
  BY <1>5 DEF vars, driverVars, Memory
<1> QED BY <1>2, <1>3, <1>4, <1>5 DEF Next

\* The resource map is an allocator: whatever is requested and freed, in whatever
\* order, kma_malloc hands out memory inside a page that nobody else has.
THEOREM MapIsAllocator == Spec => ImplementsAllocator
<1>1. Init => A!Init
  BY DEF Init, DriverInit, Memory, Unused, A!Init, A!NoMemory
<1>2. IInv /\ MemoryOK' /\ [Next]_vars => [A!Next]_Memory
  BY AllocatorNext
<1> QED BY <1>1, <1>2, MemoryIsOK, Invariant, PTL DEF Spec, ImplementsAllocator, A!Spec
=============================================================================
