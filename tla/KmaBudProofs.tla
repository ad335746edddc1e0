----------------------------- MODULE KmaBudProofs -----------------------------
(***************************************************************************)
(* Proofs about KmaBud, for every size of the pages and of the headers,    *)
(* every set of requests and of sizes.                                     *)
(***************************************************************************)
EXTENDS KmaBud, KmaProofs, SequenceTheorems

-----------------------------------------------------------------------------
(* The sizes. *)

LEMMA Constants ==
    /\ Smallest \in Nat \ {0} /\ Levels \in Nat \ {0}
    /\ AllocHeader \in Nat \ {0} /\ PageHeader \in Nat \ {0}
    /\ PAGESIZE \in Nat \ {0} /\ Pointer \in Nat \ {0} /\ Sizes \subseteq Nat \ {0}
    /\ Headers \in Nat \ {0}
BY LevelsAssumption, PoolAssumption, TraceAssumption DEF Headers

LEMMA Pow2Is ==
    /\ Pow2[0] = 1
    /\ \A n \in 1 .. Levels : Pow2[n] = 2 * Pow2[n - 1]
    /\ \A n \in 0 .. Levels : Pow2[n] \in Nat \ {0}
<1> DEFINE V == Nat \ {0}
           step == [i \in 1 .. Levels |-> [v \in V |-> 2 * v]]
           f == [n \in 0 .. Levels |-> IF n = 0 THEN 1 ELSE 2 * Pow2[n - 1]]
<1>1. Levels \in Nat /\ 1 \in V /\ step \in Steps(Levels, V)
  BY Constants DEF Steps
<1>2. PICK g : IsRounds(g, Levels, V, 1, step)
  <2> HIDE DEF V, step
  <2> QED BY <1>1, RoundsExist
<1>3. ASSUME NEW i \in 1 .. Levels PROVE i - 1 \in 0 .. Levels /\ g[i] = 2 * g[i - 1]
  <2>1. i - 1 \in 0 .. Levels
    BY <1>1
  <2>2. g[i - 1] \in V /\ g[i] = step[i][g[i - 1]]
    BY <1>2, <2>1 DEF IsRounds
  <2> QED BY <2>1, <2>2
<1>4. g = [n \in 0 .. Levels |-> IF n = 0 THEN 1 ELSE 2 * g[n - 1]]
  BY <1>1, <1>2, <1>3 DEF IsRounds
<1>5. Pow2 = f
  BY <1>4 DEF Pow2
<1>6. Pow2[0] = 1 /\ \A n \in 1 .. Levels : Pow2[n] = 2 * Pow2[n - 1]
  BY <1>1, <1>5
<1>7. \A n \in 0 .. Levels : Pow2[n] \in V
  <2>1. Pow2[0] \in V /\ \A i \in 1 .. Levels : Pow2[i - 1] \in V => Pow2[i] \in V
    BY <1>6
  <2> HIDE DEF V
  <2> QED BY <1>1, <2>1, RoundsStay
<1> QED BY <1>6, <1>7

\* A larger power is a multiple of a smaller one.
LEMMA Pow2Multiple ==
    ASSUME NEW m \in 0 .. Levels, NEW n \in m .. Levels
    PROVE  \E k \in Nat \ {0} : Pow2[n] = k * Pow2[m]
<1> DEFINE S == {d \in Nat : m + d <= Levels => \E k \in Nat \ {0} : Pow2[m + d] = k * Pow2[m]}
<1>1. Levels \in Nat /\ Pow2[m] \in Nat
  BY Constants, Pow2Is
<1>2. 0 \in S
  <2>1. Pow2[m + 0] = 1 * Pow2[m]
    BY <1>1
  <2> QED BY <2>1
<1>3. ASSUME NEW d \in S PROVE d + 1 \in S
  <2> SUFFICES ASSUME m + (d + 1) <= Levels PROVE \E k \in Nat \ {0} : Pow2[m + (d + 1)] = k * Pow2[m]
    OBVIOUS
  <2>1. PICK k \in Nat \ {0} : Pow2[m + d] = k * Pow2[m]
    BY <1>1
  <2>2. m + (d + 1) \in 1 .. Levels /\ (m + (d + 1)) - 1 = m + d
    BY <1>1
  <2>3. Pow2[m + (d + 1)] = 2 * Pow2[m + d]
    BY <2>2, Pow2Is
  <2>4. 2 * (k * Pow2[m]) = (2 * k) * Pow2[m] /\ 2 * k \in Nat \ {0}
    BY <1>1
  <2> QED BY <2>1, <2>3, <2>4
<1>4. S = Nat
  <2>1. S \in SUBSET Nat
    OBVIOUS
  <2> HIDE DEF S
  <2> QED BY <1>2, <1>3, <2>1, Induction
<1>5. n - m \in Nat /\ m + (n - m) = n /\ n <= Levels
  BY <1>1
<1>6. n - m \in S
  BY <1>4, <1>5, Zenon
<1> QED BY <1>5, <1>6

LEMMA Scaling ==
    ASSUME NEW a \in Nat, NEW b \in Nat, NEW p \in Nat \ {0}
    PROVE  /\ a * p <= b * p => a <= b
           /\ a <= b => a * p <= b * p
           /\ p * a <= p * b <=> a <= b
OBVIOUS

\* The sizes of blocks: s is a level, larger ones are multiples of twice s.
LEMMA BuffersAre ==
    /\ Buffers \subseteq Nat \ {0}
    /\ Smallest \in Buffers /\ PAGESIZE \in Buffers
    /\ \A s \in Buffers : Smallest <= s /\ s <= PAGESIZE
    /\ \A s, t \in Buffers : s < t => 2 * s \in Buffers /\ \E k \in Nat \ {0} : t = k * (2 * s)
    /\ \A s \in Buffers : s # Smallest => s \div 2 \in Buffers /\ 2 * (s \div 2) = s
<1> USE Constants
<1>1. \A n \in 0 .. Levels : Pow2[n] \in Nat \ {0} /\ Smallest * Pow2[n] \in Nat \ {0}
  <2>1. \A x, y \in Nat \ {0} : x * y \in Nat \ {0}
    OBVIOUS
  <2> QED BY Pow2Is, <2>1
<1>2. Buffers \subseteq Nat \ {0}
  BY <1>1 DEF Buffers
<1>3. Smallest \in Buffers
  <2>1. Smallest = Smallest * Pow2[0] /\ 0 \in 0 .. Levels
    BY Pow2Is
  <2> QED BY <2>1 DEF Buffers
<1>4. PAGESIZE \in Buffers
  BY SizeAssumption DEF Buffers
<1>5. ASSUME NEW m \in 0 .. Levels, NEW n \in m .. Levels
      PROVE  \E k \in Nat \ {0} : Smallest * Pow2[n] = k * (Smallest * Pow2[m])
  <2>1. PICK k \in Nat \ {0} : Pow2[n] = k * Pow2[m]
    BY Pow2Multiple
  <2>2. Smallest * (k * Pow2[m]) = k * (Smallest * Pow2[m])
    BY <1>1
  <2> QED BY <2>1, <2>2
<1>6. \A x \in Nat, k \in Nat \ {0} : x <= k * x
  OBVIOUS
<1>7. ASSUME NEW m \in 0 .. Levels, NEW n \in m .. Levels
      PROVE  Smallest * Pow2[m] <= Smallest * Pow2[n]
  BY <1>1, <1>5, <1>6
<1>8. ASSUME NEW s \in Buffers PROVE Smallest <= s /\ s <= PAGESIZE
  <2>1. PICK n \in 0 .. Levels : s = Smallest * Pow2[n]
    BY DEF Buffers
  <2>2. n \in 0 .. Levels /\ Levels \in n .. Levels /\ 0 \in 0 .. Levels
    OBVIOUS
  <2>3. Smallest = Smallest * Pow2[0]
    BY Pow2Is
  <2> QED BY <1>7, <2>1, <2>2, <2>3, SizeAssumption
<1>9. ASSUME NEW s \in Buffers, NEW t \in Buffers, s < t
      PROVE  2 * s \in Buffers /\ \E k \in Nat \ {0} : t = k * (2 * s)
  <2>1. PICK m \in 0 .. Levels : s = Smallest * Pow2[m]
    BY DEF Buffers
  <2>2. PICK n \in 0 .. Levels : t = Smallest * Pow2[n]
    BY DEF Buffers
  <2>3. m < n
    <3> SUFFICES ASSUME n <= m PROVE FALSE
      OBVIOUS
    <3>1. t <= s
      BY <1>7, <2>1, <2>2
    <3> QED BY <1>2, <1>9, <3>1
  <2>4. m + 1 \in 1 .. Levels /\ m + 1 \in 0 .. Levels /\ n \in m + 1 .. Levels /\ (m + 1) - 1 = m
    BY <2>3
  <2>5. Smallest * Pow2[m + 1] = 2 * s
    <3>1. Pow2[m + 1] = 2 * Pow2[m]
      BY <2>4, Pow2Is
    <3> QED BY <1>1, <2>1, <3>1
  <2>6. 2 * s \in Buffers
    BY <2>4, <2>5 DEF Buffers
  <2>7. PICK k \in Nat \ {0} : Smallest * Pow2[n] = k * (Smallest * Pow2[m + 1])
    BY <1>5, <2>4
  <2> QED BY <2>2, <2>5, <2>6, <2>7
<1>10. ASSUME NEW s \in Buffers, s # Smallest PROVE s \div 2 \in Buffers /\ 2 * (s \div 2) = s
  <2>1. PICK n \in 0 .. Levels : s = Smallest * Pow2[n]
    BY DEF Buffers
  <2>2. n # 0
    BY <1>10, <2>1, Pow2Is
  <2>3. n \in 1 .. Levels /\ n - 1 \in 0 .. Levels
    BY <2>2
  <2> DEFINE half == Smallest * Pow2[n - 1]
  <2>4. s = 2 * half /\ half \in Nat
    <3>1. Pow2[n] = 2 * Pow2[n - 1]
      BY <2>3, Pow2Is
    <3> QED BY <1>1, <2>1, <2>3, <3>1
  <2>5. half \in Buffers
    BY <2>3 DEF Buffers
  <2> HIDE DEF half
  <2>6. s \div 2 = half
    BY <2>4
  <2> QED BY <2>4, <2>5, <2>6
<1> QED BY <1>2, <1>3, <1>4, <1>8, <1>9, <1>10

\* round_up finds the size of the smallest block that is large enough, and so does
\* get_required_buffer.
LEMMA RoundUpIs ==
    ASSUME NEW x \in Nat, x <= PAGESIZE
    PROVE  /\ round_up(x) \in Buffers /\ x <= round_up(x)
           /\ \A s \in Buffers : x <= s => round_up(x) <= s
           /\ get_required_buffer(x) = round_up(x)
<1> DEFINE N == {n \in 0 .. Levels : Smallest * Pow2[n] >= x}
           B == {s \in Buffers : s >= x}
           n == Min(N)
           b == Min(B)
<1>1. Levels \in 0 .. Levels /\ Smallest * Pow2[Levels] >= x /\ N \in SUBSET Nat
  BY Constants, SizeAssumption
<1>2. n \in N /\ \A m \in N : n <= m
  <2>1. N # {} /\ N \in SUBSET Nat
    BY <1>1
  <2> HIDE DEF N
  <2> QED BY <2>1, MinIsLeast
<1>3. b \in B /\ \A s \in B : b <= s
  <2>1. PAGESIZE \in B /\ B \in SUBSET Nat
    BY BuffersAre, Constants
  <2> HIDE DEF B
  <2> QED BY <2>1, MinIsLeast
<1> HIDE DEF n, b
<1>4. n \in 0 .. Levels /\ Smallest * Pow2[n] >= x /\ round_up(x) = Smallest * Pow2[n]
  BY <1>2 DEF round_up, n
<1>5. round_up(x) \in Buffers
  BY <1>4 DEF Buffers
<1>6. b \in Buffers /\ b >= x /\ get_required_buffer(x) = b
  BY <1>3 DEF get_required_buffer, b
<1>7. b <= round_up(x)
  BY <1>3, <1>4, <1>5
<1>8. round_up(x) <= b
  <2>1. PICK m \in 0 .. Levels : b = Smallest * Pow2[m]
    BY <1>6 DEF Buffers
  <2>2. n <= m
    BY <1>2, <1>6, <2>1
  <2>3. Pow2[n] <= Pow2[m]
    <3>1. m \in n .. Levels /\ n \in 0 .. Levels
      BY <1>4, <2>2
    <3>2. PICK k \in Nat \ {0} : Pow2[m] = k * Pow2[n]
      BY <3>1, Pow2Multiple
    <3>3. \A u \in Nat, w \in Nat \ {0} : u <= w * u
      OBVIOUS
    <3> QED BY <1>4, <3>2, <3>3, Pow2Is
  <2>4. Pow2[n] \in Nat /\ Pow2[m] \in Nat /\ Smallest \in Nat \ {0}
    BY <1>4, Pow2Is, Constants
  <2>5. Smallest * Pow2[n] <= Smallest * Pow2[m]
    BY <2>3, <2>4, Scaling
  <2> QED BY <1>4, <2>1, <2>5
<1>9. round_up(x) = b
  <2>1. round_up(x) \in Nat /\ b \in Nat
    BY <1>5, <1>6, BuffersAre
  <2> QED BY <1>7, <1>8, <2>1
<1>10. \A s \in Buffers : x <= s => b <= s
  BY <1>3, BuffersAre
<1> QED BY <1>4, <1>5, <1>6, <1>9, <1>10

\* A block in its place is in place as a block of any smaller size.
LEMMA PlacedSmaller ==
    ASSUME NEW s \in Buffers, NEW t \in Buffers, s <= t, NEW b \in Nat, Placed(b, t)
    PROVE  Placed(b, s) /\ b + s <= b + t
<1>1. s \in Nat \ {0} /\ t \in Nat \ {0}
  BY BuffersAre
<1>2. CASE s = t
  BY <1>1, <1>2
<1>3. CASE s < t
  <2>1. PICK k \in Nat \ {0} : t = k * (2 * s)
    BY <1>3, BuffersAre
  <2>2. b = (b \div t) * t /\ b \div t \in Nat
    BY <1>1 DEF Placed
  <2> DEFINE m == b \div t
  <2>3. m \in Nat /\ b = m * (k * (2 * s))
    BY <2>1, <2>2
  <2> HIDE DEF m
  <2>4. b = (m * (2 * k)) * s /\ m * (2 * k) \in Nat
    <3>1. m * (k * (2 * s)) = (m * (2 * k)) * s
      BY <1>1, <2>3
    <3> QED BY <2>3, <3>1
  <2>5. \A u \in Nat, w \in Nat \ {0} : (u * w) % w = 0
    OBVIOUS
  <2>6. b % s = 0
    BY <1>1, <2>4, <2>5
  <2> QED BY <1>1, <1>3, <2>6, Constants DEF Placed
<1> QED BY <1>1, <1>2, <1>3

-----------------------------------------------------------------------------
(* The free lists of a page. *)

Lists == [Buffers -> Seq(Nat)]

\* Memory that no block of some lists touches is not touched by other lists: not at
\* all; unless the block b of size s does; if it is not empty.
ClearKept(free, new) == \A a, n \in Nat : Clear(free, a, n) => Clear(new, a, n)

ClearBut(free, new, b, s) ==
    \A a, n \in Nat : Clear(free, a, n) /\ Apart(b, s, a, n) => Clear(new, a, n)

StayClear(free, new) == \A a \in Nat, n \in Nat \ {0} : Clear(free, a, n) => Clear(new, a, n)

\* Lists with fewer blocks.
LEMMA FewerFree ==
    ASSUME NEW free, FreeOK(free), NEW less \in Lists,
           \A s \in Buffers : Ordered(less[s]) /\ Range(less[s]) \subseteq Range(free[s])
    PROVE  /\ FreeOK(less)
           /\ ClearKept(free, less)
<1>1. FreeOK(less)
  BY DEF FreeOK, Lists
<1>2. ClearKept(free, less)
  BY DEF Clear, ClearKept
<1> QED BY <1>1, <1>2

LEMMA ApartSymmetric ==
    ASSUME NEW a, NEW m, NEW b, NEW n, Apart(a, m, b, n)
    PROVE  Apart(b, n, a, m)
BY DEF Apart

\* Lists with one block more, where no other is.
LEMMA OneMoreFree ==
    ASSUME NEW free, FreeOK(free), NEW more \in Lists,
           NEW u \in Buffers, NEW b \in Nat, Placed(b, u), Clear(free, b, u),
           \A s \in Buffers : Ordered(more[s]),
           \A s \in Buffers : \A c \in Range(more[s]) : c \in Range(free[s]) \/ (s = u /\ c = b)
    PROVE  /\ FreeOK(more)
           /\ ClearBut(free, more, b, u)
<1>1. \A s \in Buffers : \A c \in Range(more[s]) : Placed(c, s)
  BY DEF FreeOK
<1>2. ASSUME NEW s \in Buffers, NEW t \in Buffers, NEW c \in Range(more[s]), NEW d \in Range(more[t]),
             c # d \/ s # t
      PROVE  Apart(c, s, d, t)
  <2>1. CASE c \in Range(free[s]) /\ d \in Range(free[t])
    BY <1>2, <2>1 DEF FreeOK
  <2>2. CASE c \in Range(free[s]) /\ ~(d \in Range(free[t]))
    BY <2>2 DEF Clear
  <2>3. CASE ~(c \in Range(free[s])) /\ d \in Range(free[t])
    <3>1. s = u /\ c = b
      BY <2>3
    <3>2. Apart(d, t, b, u)
      BY <2>3 DEF Clear
    <3> QED BY <3>1, <3>2, ApartSymmetric
  <2>4. CASE ~(c \in Range(free[s])) /\ ~(d \in Range(free[t]))
    BY <1>2, <2>4
  <2> QED BY <2>1, <2>2, <2>3, <2>4
<1>3. FreeOK(more)
  BY <1>1, <1>2 DEF FreeOK, Lists
<1>4. ClearBut(free, more, b, u)
  BY DEF Clear, ClearBut
<1> QED BY <1>3, <1>4

\* Insert keeps the order of a list.
LEMMA InsertKeepsOrder ==
    ASSUME NEW list \in Seq(Nat), Ordered(list), NEW b \in Nat, b \notin Range(list)
    PROVE  /\ Insert(list, b) \in Seq(Nat) /\ Ordered(Insert(list, b))
           /\ \A c \in Range(Insert(list, b)) : c \in Range(list) \/ c = b
<1> DEFINE later == {k \in 1 .. Len(list) : list[k] > b}
<1>1. CASE list = <<>>
  <2>1. Insert(list, b) = <<b>>
    BY <1>1 DEF Insert
  <2>2. <<b>> \in Seq(Nat) /\ Ordered(<<b>>) /\ \A c \in Range(<<b>>) : c = b
    BY DEF Ordered, Range
  <2> QED BY <2>1, <2>2
<1>2. CASE list # <<>> /\ later = {}
  BY <1>2 DEF Insert
<1>3. CASE list # <<>> /\ later # {}
  <2>1. PICK i : i \in later /\ (\A m \in later : i <= m) /\ i = Min(later)
    <3>1. later \in SUBSET Nat
      OBVIOUS
    <3> HIDE DEF later
    <3> QED BY <1>3, <3>1, MinIsLeast
  <2>2. PICK new : new = InsertAt(list, i, b)
    OBVIOUS
  <2>3. Insert(list, b) = new
    BY <1>3, <2>1, <2>2 DEF Insert
  <2>4. i \in 1 .. Len(list) /\ list[i] > b /\ Len(list) \in Nat /\ i \in Nat
    BY <2>1
  <2>5. \A m \in 1 .. Len(list) : m < i => list[m] < b
    <3> SUFFICES ASSUME NEW m \in 1 .. Len(list), m < i PROVE list[m] < b
      OBVIOUS
    <3>1. m \notin later
      BY <2>1, <2>4
    <3>2. list[m] # b /\ list[m] \in Nat
      BY DEF Range
    <3> QED BY <3>1, <3>2
  <2> HIDE DEF later
  <2>6. /\ new \in Seq(Nat) /\ Len(new) = Len(list) + 1 /\ new[i] = b
        /\ \A m \in 1 .. Len(list) : m < i => new[m] = list[m]
        /\ \A m \in 1 .. Len(list) : m >= i => new[m + 1] = list[m]
    <3>0. i \in 1 .. Len(list)
      BY <2>4
    <3>1. InsertAt(list, i, b) \in Seq(Nat) /\ Len(InsertAt(list, i, b)) = Len(list) + 1
      BY <3>0, InsertAtLen
    <3>2. InsertAt(list, i, b)[i] = b
      BY <3>0, InsertAtNew
    <3>3. /\ \A m \in 1 .. Len(list) : m < i => InsertAt(list, i, b)[m] = list[m]
          /\ \A m \in 1 .. Len(list) : m >= i => InsertAt(list, i, b)[m + 1] = list[m]
      BY <3>0, InsertAtOld
    <3> QED BY <2>2, <3>1, <3>2, <3>3
  <2>7. DOMAIN new = 1 .. Len(list) + 1 /\ DOMAIN list = 1 .. Len(list)
    BY <2>6
  <2>8. \A m \in 1 .. Len(list) : m >= i => list[m] > b
    <3> SUFFICES ASSUME NEW m \in 1 .. Len(list), m > i PROVE list[m] > b
      BY <2>4
    <3>1. list[i] < list[m]
      BY <2>4, <2>7 DEF Ordered
    <3>2. list[i] \in Nat /\ list[m] \in Nat
      BY <2>4
    <3> QED BY <2>4, <3>1, <3>2
  \* Where an element of the new list comes from.
  <2>9. ASSUME NEW m \in DOMAIN new
        PROVE  \/ m < i /\ m \in DOMAIN list /\ new[m] = list[m] /\ list[m] < b
               \/ m = i /\ new[m] = b
               \/ m > i /\ m - 1 \in DOMAIN list /\ new[m] = list[m - 1] /\ list[m - 1] > b
    <3>1. m \in 1 .. Len(list) + 1 /\ m \in Nat
      BY <2>7
    <3>2. CASE m < i
      <4>1. m \in 1 .. Len(list)
        BY <2>4, <3>1, <3>2
      <4>2. new[m] = list[m] /\ list[m] < b
        BY <2>5, <2>6, <3>2, <4>1
      <4> QED BY <2>7, <3>2, <4>1, <4>2
    <3>3. CASE m = i
      BY <2>6, <3>3
    <3>4. CASE m > i
      <4>1. m - 1 \in 1 .. Len(list) /\ m - 1 >= i /\ (m - 1) + 1 = m
        BY <2>4, <3>1, <3>4
      <4>2. new[(m - 1) + 1] = list[m - 1] /\ list[m - 1] > b
        BY <2>6, <2>8, <4>1
      <4> QED BY <2>7, <3>4, <4>1, <4>2
    <3> QED BY <2>4, <3>1, <3>2, <3>3, <3>4
  <2>10. ASSUME NEW m \in DOMAIN new, NEW n \in DOMAIN new, m < n PROVE new[m] < new[n]
    <3>1. \A z \in DOMAIN list : list[z] \in Nat
      OBVIOUS
    <3>2. m \in Nat /\ n \in Nat
      BY <2>7
    <3>3. CASE m < i /\ n < i
      <4>1. m \in DOMAIN list /\ new[m] = list[m] /\ n \in DOMAIN list /\ new[n] = list[n]
        BY <2>4, <2>9, <3>2, <3>3
      <4> QED BY <2>10, <4>1 DEF Ordered
    <3>4. CASE m < i /\ n = i
      BY <2>9, <3>2, <3>4, <2>4
    <3>5. CASE m <= i /\ n > i
      <4>1. \/ m < i /\ m \in DOMAIN list /\ new[m] = list[m] /\ list[m] < b
            \/ m = i /\ new[m] = b
        BY <2>4, <2>9, <3>2, <3>5
      <4>2. n - 1 \in DOMAIN list /\ new[n] = list[n - 1] /\ list[n - 1] > b
        BY <2>4, <2>9, <3>2, <3>5
      <4>3. new[m] <= b /\ new[m] \in Nat
        BY <3>1, <4>1
      <4>4. list[n - 1] \in Nat
        BY <3>1, <4>2
      <4> QED BY <4>2, <4>3, <4>4
    <3>6. CASE m > i
      <4>1. m - 1 \in DOMAIN list /\ n - 1 \in DOMAIN list /\ m - 1 < n - 1
            /\ new[m] = list[m - 1] /\ new[n] = list[n - 1]
        BY <2>9, <2>10, <3>2, <3>6, <2>4
      <4> QED BY <4>1 DEF Ordered
    <3> QED BY <2>4, <2>10, <3>2, <3>3, <3>4, <3>5, <3>6
  <2>11. ASSUME NEW c \in Range(new) PROVE c \in Range(list) \/ c = b
    <3>1. PICK m \in DOMAIN new : c = new[m]
      BY DEF Range
    <3>2. c = b \/ \E z \in DOMAIN list : c = list[z]
      BY <2>9, <3>1
    <3> QED BY <3>2 DEF Range
  <2> QED BY <2>3, <2>6, <2>10, <2>11 DEF Ordered
<1> QED BY <1>1, <1>2, <1>3

\* kma_free links a block that lies in place where no free block is.
LEMMA LinkKeeps ==
    ASSUME NEW free, FreeOK(free), NEW size \in Nat, size <= PAGESIZE,
           NEW b \in Nat, Placed(b, round_up(size)), Clear(free, b, round_up(size))
    PROVE  /\ Link(free, b, size) \in [free : Lists, again : BOOLEAN]
           /\ FreeOK(Link(free, b, size).free)
           /\ ClearBut(free, Link(free, b, size).free, b, round_up(size))
<1>1. PICK u \in Buffers : u = round_up(size) /\ u = get_required_buffer(size) /\ u \in Nat \ {0}
  BY RoundUpIs, BuffersAre
<1>2. CASE u = PAGESIZE
  BY <1>1, <1>2 DEF Link, FreeOK, Lists, ClearBut
<1>3. CASE u # PAGESIZE
  <2>1. PICK new : new = Insert(free[u], b)
    OBVIOUS
  <2>2. PICK more : more = [free EXCEPT ![u] = new]
    OBVIOUS
  <2>3. Link(free, b, size) = [free |-> more, again |-> Joins(free[u], b)]
    BY <1>1, <1>3, <2>1, <2>2 DEF Link
  <2>4. free \in Lists /\ free[u] \in Seq(Nat) /\ Ordered(free[u])
    BY DEF FreeOK, Lists
  <2>5. b \notin Range(free[u])
    <3>1. ~Apart(b, u, b, u)
      BY <1>1 DEF Apart
    <3> QED BY <1>1, <3>1 DEF Clear
  <2>6. new \in Seq(Nat) /\ Ordered(new) /\ \A c \in Range(new) : c \in Range(free[u]) \/ c = b
    BY <2>1, <2>4, <2>5, InsertKeepsOrder
  <2>7. more \in Lists /\ more[u] = new /\ \A s \in Buffers : s # u => more[s] = free[s]
    BY <2>2, <2>4, <2>6 DEF Lists
  <2>8. \A s \in Buffers : Ordered(more[s])
    BY <2>6, <2>7 DEF FreeOK
  <2>9. \A s \in Buffers : \A c \in Range(more[s]) : c \in Range(free[s]) \/ (s = u /\ c = b)
    BY <2>6, <2>7
  <2>10. Placed(b, u) /\ Clear(free, b, u)
    BY <1>1
  <2>11. FreeOK(more) /\ ClearBut(free, more, b, u)
    BY <2>7, <2>8, <2>9, <2>10, OneMoreFree
  <2>12. Joins(free[u], b) \in BOOLEAN
    BY DEF Joins
  <2> QED BY <1>1, <2>3, <2>7, <2>11, <2>12
<1> QED BY <1>2, <1>3

\* What is behind a position of a list.
LEMMA SuffixOrdered ==
    ASSUME NEW list \in Seq(Nat), Ordered(list), NEW i \in 1 .. Len(list)
    PROVE  LET rest == SubSeq(list, i + 1, Len(list)) IN
           /\ rest \in Seq(Nat) /\ Ordered(rest)
           /\ \A c \in Range(rest) : c \in Range(list) /\ c > list[i]
<1> DEFINE rest == SubSeq(list, i + 1, Len(list))
<1>1. /\ rest \in Seq(Nat) /\ DOMAIN rest = 1 .. Len(list) - i /\ Len(list) \in Nat
      /\ \A j \in 1 .. Len(list) - i : rest[j] = list[i + j]
  <2>1. rest \in Seq(Nat) /\ Len(rest) = Len(list) - i /\ Len(list) \in Nat
    OBVIOUS
  <2>2. \A j \in 1 .. Len(list) - i : rest[j] = list[i + j]
    OBVIOUS
  <2> HIDE DEF rest
  <2>3. DOMAIN rest = 1 .. Len(list) - i
    BY <2>1
  <2> QED BY <2>1, <2>2, <2>3
<1> HIDE DEF rest
<1>2. \A j \in DOMAIN rest : i + j \in DOMAIN list /\ i + j > i /\ rest[j] = list[i + j]
  <2>1. ASSUME NEW j \in 1 .. Len(list) - i
        PROVE  i + j \in 1 .. Len(list) /\ i + j > i /\ rest[j] = list[i + j]
    <3>1. rest[j] = list[i + j]
      BY <1>1
    <3>2. Len(list) \in Nat
      BY <1>1
    <3>3. i + j \in 1 .. Len(list) /\ i + j > i
      BY <3>2
    <3> QED BY <3>1, <3>3
  <2>2. DOMAIN list = 1 .. Len(list)
    OBVIOUS
  <2> QED BY <1>1, <2>1, <2>2
<1>3. Ordered(rest)
  <2> SUFFICES ASSUME NEW j \in DOMAIN rest, NEW k \in DOMAIN rest, j < k PROVE rest[j] < rest[k]
    BY DEF Ordered
  <2>1. i + j < i + k
    BY <1>1
  <2> QED BY <1>2, <2>1 DEF Ordered
<1>4. ASSUME NEW c \in Range(rest) PROVE c \in Range(list) /\ c > list[i]
  <2>1. PICK j \in DOMAIN rest : c = rest[j]
    BY DEF Range
  <2>2. i \in DOMAIN list /\ i + j \in DOMAIN list /\ i < i + j /\ c = list[i + j]
    BY <1>2, <2>1
  <2>3. list[i] < list[i + j] /\ list[i] \in Nat /\ list[i + j] \in Nat
    BY <2>2 DEF Ordered
  <2> QED BY <2>2, <2>3 DEF Range
<1> QED BY <1>1, <1>3, <1>4 DEF rest

\* A multiple of y that is not an odd one is a multiple of 2 * y.
LEMMA EvenMultiple ==
    ASSUME NEW x \in Nat, NEW y \in Nat \ {0}, x % y = 0, (x \div y) % 2 # 1
    PROVE  x % (2 * y) = 0
<1>1. PICK q \in Nat : q = x \div y /\ x = q * y
  OBVIOUS
<1>2. PICK m \in Nat : q = 2 * m
  BY <1>1
<1>3. PICK z \in Nat \ {0} : z = 2 * y
  OBVIOUS
<1>4. x = m * z
  <2>1. (2 * m) * y = m * (2 * y)
    OBVIOUS
  <2> QED BY <1>1, <1>2, <1>3, <2>1
<1>5. \A u \in Nat, w \in Nat \ {0} : (u * w) % w = 0
  OBVIOUS
<1>6. (m * z) % z = 0
  BY <1>5
<1> QED BY <1>3, <1>4, <1>6

\* The first pair of a size: two blocks of it that make one of the double size.
LEMMA PairIs ==
    ASSUME NEW free, FreeOK(free), NEW s \in Buffers, NEW i \in Pairs(free, s)
    PROVE  /\ i \in 1 .. Len(free[s]) /\ i + 1 \in 1 .. Len(free[s])
           /\ free[s][i] \in Nat /\ free[s][i + 1] = free[s][i] + s
           /\ s < PAGESIZE /\ 2 * s \in Buffers /\ Placed(free[s][i], 2 * s)
<1> DEFINE b == free[s][i]
           c == free[s][i + 1]
<1>1. free[s] \in Seq(Nat) /\ Ordered(free[s]) /\ s \in Nat \ {0} /\ PAGESIZE \in Nat
  BY BuffersAre, Constants DEF FreeOK
<1>2. i \in 1 .. Len(free[s]) /\ i + 1 \in 1 .. Len(free[s]) /\ i < i + 1 /\ Len(free[s]) \in Nat
  BY <1>1 DEF Pairs
<1>3. b < c /\ b \in Nat /\ c \in Nat
  BY <1>1, <1>2 DEF Ordered
<1>4. Placed(b, s) /\ Placed(c, s)
  BY <1>1, <1>2 DEF FreeOK, Range
<1>5. c = IF (b \div s) % 2 = 1 THEN b - s ELSE b + s
  BY DEF Pairs, get_buddy
<1> HIDE DEF b, c
<1>6. c = b + s /\ (b \div s) % 2 # 1
  BY <1>1, <1>3, <1>5
<1>8. b % (2 * s) = 0
  BY <1>1, <1>3, <1>4, <1>6, EvenMultiple DEF Placed
<1>9. b + 2 * s <= PAGESIZE
  BY <1>1, <1>3, <1>4, <1>6 DEF Placed
<1>10. s < PAGESIZE
  BY <1>1, <1>3, <1>9
<1>11. 2 * s \in Buffers
  BY <1>1, <1>10, BuffersAre
<1> QED BY <1>2, <1>3, <1>6, <1>8, <1>9, <1>10, <1>11 DEF Placed, b, c

\* Two halves that are apart from something make a whole that is.
LEMMA WholeApart ==
    ASSUME NEW b \in Nat, NEW s \in Nat, NEW a \in Nat, NEW n \in Nat \ {0},
           Apart(b, s, a, n), Apart(b + s, s, a, n)
    PROVE  Apart(b, 2 * s, a, n) /\ Apart(a, n, b, 2 * s)
BY DEF Apart

LEMMA DoubleIs == ASSUME NEW s \in Buffers PROVE s <= PAGESIZE /\ s \in Nat /\ round_up(s) = s
<1>1. s <= PAGESIZE /\ s \in Nat /\ s <= s
  BY BuffersAre
<1>2. round_up(s) \in Buffers /\ s <= round_up(s) /\ round_up(s) <= s
  BY <1>1, RoundUpIs
<1>3. round_up(s) \in Nat
  BY <1>2, BuffersAre
<1> QED BY <1>1, <1>2, <1>3

FreeState == [free : Lists, again : BOOLEAN]

\* A round of coalesce.
LEMMA RoundKeeps ==
    ASSUME NEW h \in FreeState, FreeOK(h.free)
    PROVE  Round(h) \in FreeState /\ FreeOK(Round(h).free) /\ StayClear(h.free, Round(h).free)
<1> DEFINE joinable == {s \in Buffers : Pairs(h.free, s) # {}}
<1>1. CASE ~h.again \/ joinable = {}
  <2>1. Round(h) = [h EXCEPT !.again = FALSE]
    BY <1>1 DEF Round
  <2>2. Round(h) \in FreeState /\ Round(h).free = h.free
    BY <2>1 DEF FreeState
  <2> QED BY <2>2 DEF StayClear
<1>2. CASE h.again /\ joinable # {}
  <2>1. PICK s : s \in joinable /\ s = Min(joinable)
    <3>1. joinable \in SUBSET Nat
      BY BuffersAre
    <3> HIDE DEF joinable
    <3> QED BY <1>2, <3>1, MinIsLeast
  <2>2. PICK i : i \in Pairs(h.free, s) /\ i = Min(Pairs(h.free, s))
    <3>0. h.free[s] \in Seq(Nat)
      BY <2>1 DEF FreeState, Lists
    <3>2. Pairs(h.free, s) # {}
      BY <2>1, Zenon
    <3>3. PICK n \in Nat : n = Len(h.free[s])
      BY <3>0
    <3>4. \A i \in Pairs(h.free, s) : i \in 1 .. n - 1
      BY <3>3, Zenon DEF Pairs
    <3>5. Pairs(h.free, s) \in SUBSET Nat
      BY <3>3, <3>4
    <3> QED BY <3>2, <3>5, MinIsLeast
  <2>3. s \in Buffers
    BY <2>1
  <2>4. PICK b \in Nat : b = h.free[s][i]
    BY <2>2, <2>3, PairIs
  <2>5. /\ i \in 1 .. Len(h.free[s]) /\ i + 1 \in 1 .. Len(h.free[s])
        /\ h.free[s][i + 1] = b + s
        /\ s < PAGESIZE /\ 2 * s \in Buffers /\ Placed(b, 2 * s)
    BY <2>2, <2>3, <2>4, PairIs
  <2>6. PICK rest : rest = SubSeq(h.free[s], (i + 1) + 1, Len(h.free[s]))
    OBVIOUS
  <2>7. PICK less : less = [h.free EXCEPT ![s] = rest]
    OBVIOUS
  <2>8. Round(h) = Link(less, b, 2 * s)
    <3>1. i \in Nat
      BY <2>5
    <3>2. (i + 1) + 1 = i + 2
      BY <3>1
    <3>3. rest = SubSeq(h.free[s], i + 2, Len(h.free[s]))
      BY <2>6, <3>2
    <3>4. ~(~h.again \/ joinable = {})
      BY <1>2
    <3> QED BY <2>1, <2>2, <2>4, <2>7, <3>3, <3>4 DEF Round
  <2> HIDE DEF joinable
  <2>9. h.free \in Lists /\ h.free[s] \in Seq(Nat) /\ Ordered(h.free[s])
    BY <2>3 DEF FreeState, FreeOK, Lists
  <2>10. /\ rest \in Seq(Nat) /\ Ordered(rest)
         /\ \A c \in Range(rest) : c \in Range(h.free[s]) /\ c > b + s
    BY <2>5, <2>6, <2>9, SuffixOrdered
  <2>11. less \in Lists /\ less[s] = rest /\ \A t \in Buffers : t # s => less[t] = h.free[t]
    BY <2>3, <2>7, <2>9, <2>10 DEF Lists
  <2>12. \A t \in Buffers : Ordered(less[t]) /\ Range(less[t]) \subseteq Range(h.free[t])
    BY <2>10, <2>11 DEF FreeOK
  <2>13. FreeOK(less) /\ ClearKept(h.free, less)
    BY <2>11, <2>12, FewerFree
  <2>14. b \in Range(h.free[s]) /\ b + s \in Range(h.free[s]) /\ s \in Nat \ {0}
    <3>1. DOMAIN h.free[s] = 1 .. Len(h.free[s])
      BY <2>9
    <3>2. b \in Range(h.free[s])
      BY <2>4, <2>5, <3>1 DEF Range
    <3>3. b + s \in Range(h.free[s])
      BY <2>5, <3>1 DEF Range
    <3> QED BY <2>3, <3>2, <3>3, BuffersAre
  <2>15. ASSUME NEW t \in Buffers, NEW c \in Range(less[t]) PROVE Apart(c, t, b, 2 * s)
    <3>1. c \in Range(h.free[t]) /\ c \in Nat /\ t \in Nat \ {0}
      BY <2>12, <2>15, BuffersAre DEF FreeOK, Placed
    <3>2. t # s \/ (c # b /\ c # b + s)
      BY <2>4, <2>10, <2>11, <2>14, <2>15
    <3>3. Apart(b, s, c, t) /\ Apart(b + s, s, c, t)
      BY <2>3, <2>14, <3>1, <3>2 DEF FreeOK
    <3> QED BY <2>14, <3>1, <3>3, WholeApart
  <2>16. Clear(less, b, 2 * s)
    BY <2>15 DEF Clear
  <2>17. 2 * s \in Nat /\ 2 * s <= PAGESIZE /\ round_up(2 * s) = 2 * s
    BY <2>5, DoubleIs
  <2>18. /\ Link(less, b, 2 * s) \in FreeState
         /\ FreeOK(Link(less, b, 2 * s).free)
         /\ ClearBut(less, Link(less, b, 2 * s).free, b, 2 * s)
    <3>1. Placed(b, round_up(2 * s)) /\ Clear(less, b, round_up(2 * s))
      BY <2>5, <2>16, <2>17
    <3>2. PICK u \in Nat : u = 2 * s
      BY <2>17
    <3> QED BY <2>13, <2>17, <3>1, <3>2, LinkKeeps DEF FreeState
  <2>19. ASSUME NEW a \in Nat, NEW n \in Nat \ {0}, Clear(h.free, a, n) PROVE Apart(b, 2 * s, a, n)
    <3>1. Apart(b, s, a, n) /\ Apart(b + s, s, a, n)
      BY <2>3, <2>14, <2>19 DEF Clear
    <3> QED BY <2>14, <3>1, WholeApart
  <2>20. StayClear(h.free, Round(h).free)
    BY <2>8, <2>13, <2>18, <2>19 DEF StayClear, ClearKept, ClearBut
  <2> QED BY <2>8, <2>18, <2>20
<1> QED BY <1>1, <1>2

\* So coalesce takes sound lists to sound lists, and never joins memory that is in use.
LEMMA CoalesceKeeps ==
    ASSUME NEW h \in FreeState, FreeOK(h.free)
    PROVE  FreeOK(coalesce(h)) /\ StayClear(h.free, coalesce(h))
<1> DEFINE N == Pow2[Levels]
           V == {g \in FreeState : FreeOK(g.free) /\ StayClear(h.free, g.free)}
           step == [i \in 1 .. N |-> [v \in V |-> Round(v)]]
           after[n \in 0 .. N] == IF n = 0 THEN h ELSE Round(after[n - 1])
           f == [n \in 0 .. N |-> IF n = 0 THEN h ELSE Round(after[n - 1])]
<1>1. N \in Nat /\ coalesce(h) = after[N].free
  BY Constants, Pow2Is DEF coalesce
<1>2. h \in V
  BY DEF StayClear
<1>3. ASSUME NEW v \in V PROVE Round(v) \in V
  BY RoundKeeps DEF StayClear
<1>4. step \in Steps(N, V)
  BY <1>3 DEF Steps
<1>5. PICK g : IsRounds(g, N, V, h, step)
  <2> HIDE DEF N, V, step
  <2> QED BY <1>1, <1>2, <1>4, RoundsExist
<1>6. g \in [0 .. N -> V] /\ g[0] = h
  BY <1>5 DEF IsRounds
<1>7. ASSUME NEW i \in 1 .. N PROVE i - 1 \in 0 .. N /\ g[i] = Round(g[i - 1])
  <2>1. i - 1 \in 0 .. N
    BY <1>1
  <2>2. g[i - 1] \in V /\ g[i] = step[i][g[i - 1]]
    BY <1>5, <1>6, <2>1 DEF IsRounds
  <2> QED BY <2>1, <2>2
<1>8. g = [n \in 0 .. N |-> IF n = 0 THEN h ELSE Round(g[n - 1])]
  BY <1>1, <1>6, <1>7
<1>9. after = f
  BY <1>8
<1>10. f[0] = h /\ \A i \in 1 .. N : f[i] = Round(after[i - 1])
  BY <1>1
<1>11. after[0] = h /\ \A i \in 1 .. N : after[i] = Round(after[i - 1])
  BY <1>9, <1>10, Zenon
<1> HIDE DEF N, V, after, f
<1>12. after[0] \in V /\ \A i \in 1 .. N : after[i - 1] \in V => after[i] \in V
  BY <1>2, <1>3, <1>11
<1>13. after[N] \in V
  <2>1. \A i \in 0 .. N : after[i] \in V
    BY <1>1, <1>12, RoundsStay
  <2> QED BY <1>1, <2>1
<1> QED BY <1>1, <1>13 DEF V

-----------------------------------------------------------------------------
(* Splitting blocks. *)

LEMMA TailIs ==
    ASSUME NEW list \in Seq(Nat), Ordered(list), list # <<>>
    PROVE  /\ Head(list) \in Nat /\ Head(list) \in Range(list)
           /\ Tail(list) \in Seq(Nat) /\ Ordered(Tail(list))
           /\ \A c \in Range(Tail(list)) : c \in Range(list) /\ c > Head(list)
           /\ \A c \in Range(list) : c = Head(list) \/ c \in Range(Tail(list))
<1>1. PICK n \in Nat : n = Len(list) /\ 1 <= n
  OBVIOUS
<1>2. PICK rest : rest = Tail(list)
  OBVIOUS
<1>3. /\ DOMAIN list = 1 .. n /\ Head(list) = list[1] /\ \A j \in 1 .. n : list[j] \in Nat
  BY <1>1
<1>4. /\ rest \in Seq(Nat) /\ DOMAIN rest = 1 .. n - 1
      /\ \A j \in 1 .. n - 1 : rest[j] = list[j + 1]
  BY <1>1, <1>2
<1>5. \A j \in 1 .. n - 1 : j + 1 \in 1 .. n /\ j + 1 > 1
  BY <1>1
<1>6. 1 \in 1 .. n
  BY <1>1
<1>7. Ordered(rest)
  <2> SUFFICES ASSUME NEW j \in 1 .. n - 1, NEW k \in 1 .. n - 1, j < k PROVE rest[j] < rest[k]
    BY <1>4 DEF Ordered
  <2>1. j + 1 < k + 1
    BY <1>1
  <2>2. list[j + 1] < list[k + 1]
    BY <1>3, <1>5, <2>1 DEF Ordered
  <2> QED BY <1>4, <2>2
<1>8. ASSUME NEW c \in Range(rest) PROVE c \in Range(list) /\ c > Head(list)
  <2>1. PICK j \in 1 .. n - 1 : c = rest[j]
    BY <1>4 DEF Range
  <2>2. j + 1 \in 1 .. n /\ j + 1 > 1 /\ c = list[j + 1]
    BY <1>4, <1>5, <2>1
  <2>3. list[1] < list[j + 1]
    BY <1>3, <1>6, <2>2 DEF Ordered
  <2>4. list[1] \in Nat /\ list[j + 1] \in Nat
    BY <1>3, <1>6, <2>2
  <2> QED BY <1>3, <2>2, <2>3, <2>4 DEF Range
<1>9. ASSUME NEW c \in Range(list) PROVE c = Head(list) \/ c \in Range(rest)
  <2>1. PICK j \in 1 .. n : c = list[j]
    BY <1>3 DEF Range
  <2>2. CASE j = 1
    BY <1>3, <2>1, <2>2
  <2>3. CASE j # 1
    <3>1. j - 1 \in 1 .. n - 1 /\ (j - 1) + 1 = j
      BY <1>1, <2>3
    <3>2. rest[j - 1] = c
      BY <1>4, <2>1, <3>1
    <3> QED BY <1>4, <3>1, <3>2 DEF Range
  <2> QED BY <2>2, <2>3
<1>10. Head(list) \in Nat /\ Head(list) \in Range(list)
  BY <1>3, <1>6 DEF Range
<1> QED BY <1>2, <1>4, <1>7, <1>8, <1>9, <1>10

\* The first block of a size leaves its list: nothing else is where it lies.
Without(free, u) == [free EXCEPT ![u] = Tail(@)]

HeadTaken(free, u, less, b) ==
           /\ b \in Nat /\ Placed(b, u) /\ b \in Range(free[u])
           /\ less \in Lists /\ FreeOK(less)
           /\ ClearKept(free, less)
           /\ Clear(less, b, u)
           /\ \A t \in Buffers : \A c \in Range(free[t]) : (t = u /\ c = b) \/ c \in Range(less[t])

LEMMA TakeHead ==
    ASSUME NEW free, FreeOK(free), NEW u \in Buffers, free[u] # <<>>
    PROVE  HeadTaken(free, u, Without(free, u), Head(free[u]))
<1>0. PICK less, b : less = Without(free, u) /\ b = Head(free[u])
  OBVIOUS
<1>1. free \in Lists /\ free[u] \in Seq(Nat) /\ Ordered(free[u]) /\ u \in Nat \ {0}
  BY BuffersAre DEF FreeOK, Lists
<1>2. PICK rest : rest = Tail(free[u])
  OBVIOUS
<1>3. /\ b \in Nat /\ b \in Range(free[u])
      /\ rest \in Seq(Nat) /\ Ordered(rest)
      /\ \A c \in Range(rest) : c \in Range(free[u]) /\ c > b
      /\ \A c \in Range(free[u]) : c = b \/ c \in Range(rest)
  BY <1>0, <1>1, <1>2, TailIs
<1>4. less \in Lists /\ less[u] = rest /\ \A t \in Buffers : t # u => less[t] = free[t]
  BY <1>0, <1>1, <1>2, <1>3 DEF Lists, Without
<1>5. \A t \in Buffers : Ordered(less[t]) /\ Range(less[t]) \subseteq Range(free[t])
  BY <1>3, <1>4 DEF FreeOK
<1>6. FreeOK(less) /\ ClearKept(free, less)
  BY <1>4, <1>5, FewerFree
<1>7. ASSUME NEW t \in Buffers, NEW c \in Range(less[t]) PROVE Apart(c, t, b, u)
  <2>1. t # u \/ c # b
    <3> SUFFICES ASSUME t = u PROVE c # b
      OBVIOUS
    <3>1. c \in Range(rest)
      BY <1>4, <1>7
    <3>2. c > b
      BY <1>3, <3>1
    <3> QED BY <1>3, <3>2
  <2>2. c \in Range(free[t])
    BY <1>5
  <2> QED BY <1>3, <2>1, <2>2 DEF FreeOK
<1>8. \A t \in Buffers : \A c \in Range(free[t]) : (t = u /\ c = b) \/ c \in Range(less[t])
  BY <1>3, <1>4
<1>9. Placed(b, u)
  BY <1>3 DEF FreeOK
<1>10. Clear(less, b, u)
  BY <1>7 DEF Clear
<1> QED BY <1>0, <1>3, <1>4, <1>6, <1>8, <1>9, <1>10 DEF HeadTaken

LEMMA HalvesApart ==
    ASSUME NEW b \in Nat, NEW v \in Nat, NEW a \in Nat, NEW n \in Nat
    PROVE  /\ Apart(b, 2 * v, a, n) => Apart(b, v, a, n) /\ Apart(b + v, v, a, n)
           /\ Apart(a, n, b, 2 * v) => Apart(a, n, b, v) /\ Apart(a, n, b + v, v)
           /\ Apart(b, v, b + v, v)
BY DEF Apart

\* How far the splitting of the first block of size s, block b, has come.
HalfState == [free : Lists, size : Buffers]

Carving(h, free, s, need, b) ==
    /\ h \in HalfState /\ need <= h.size /\ h.size <= s
    /\ FreeOK(h.free) /\ StayClear(free, h.free)
    /\ h.free[h.size] # <<>> /\ Head(h.free[h.size]) = b
    /\ \A t \in Buffers : need <= t /\ t < h.size => h.free[t] = <<>>
    /\ h.size < s => h.free[h.size] = <<b, b + h.size>> /\ b + s \div 2 \in Range(h.free[s \div 2])

\* A block split in two.
LEMMA SplitKeeps ==
    ASSUME NEW free, FreeOK(free), NEW v \in Buffers, NEW u \in Buffers, u = 2 * v,
           free[u] # <<>>, free[v] = <<>>, NEW b, b = Head(free[u]),
           NEW new, new = split_buffer(free, u)
    PROVE  /\ b \in Nat /\ new \in Lists /\ FreeOK(new) /\ StayClear(free, new)
           /\ new[v] = <<b, b + v>> /\ new[u] = Tail(free[u])
           /\ \A t \in Buffers : t # u /\ t # v => new[t] = free[t]
<1>1. PICK less : less = Without(free, u)
  OBVIOUS
<1>2. /\ b \in Nat /\ Placed(b, u) /\ b \in Range(free[u])
      /\ less \in Lists /\ FreeOK(less)
      /\ ClearKept(free, less)
      /\ Clear(less, b, u)
  BY <1>1, TakeHead DEF HeadTaken
<1>3. v \in Nat \ {0} /\ u \in Nat \ {0} /\ u # v /\ u \div 2 = v /\ v <= u
  BY BuffersAre
<1>4. free \in Lists
  BY DEF FreeOK, Lists
<1>5. PICK mid : mid = [less EXCEPT ![v] = <<b>>]
  OBVIOUS
<1>6. b + v \in Nat /\ <<b>> \in Seq(Nat) /\ <<b, b + v>> \in Seq(Nat)
  BY <1>2, <1>3
<1>7. less[v] = <<>> /\ less[u] = Tail(free[u]) /\ \A t \in Buffers : t # u => less[t] = free[t]
  BY <1>1, <1>3, <1>4 DEF Lists, Without
<1>8. mid \in Lists /\ mid[v] = <<b>> /\ \A t \in Buffers : t # v => mid[t] = less[t]
  BY <1>2, <1>5, <1>6 DEF Lists
<1>9. new = [free EXCEPT ![u] = Tail(@), ![v] = <<b, b + v>>]
  <2>1. free[v] \o <<b, b + u \div 2>> = <<b, b + v>>
    BY <1>3, <1>6
  <2> QED BY <1>3, <1>4, <2>1 DEF split_buffer, Lists
<1>10. new \in Lists /\ new[v] = <<b, b + v>> /\ \A t \in Buffers : t # v => new[t] = less[t]
  <2>1. Tail(free[u]) \in Seq(Nat)
    BY <1>4 DEF Lists
  <2>2. PICK tail, two : tail = Tail(free[u]) /\ two = <<b, b + v>>
    OBVIOUS
  <2>3. new = [free EXCEPT ![u] = tail, ![v] = two] /\ tail \in Seq(Nat) /\ two \in Seq(Nat)
    BY <1>6, <1>9, <2>1, <2>2
  <2>4. new[v] = two /\ \A t \in Buffers : t # u /\ t # v => new[t] = free[t]
    BY <1>4, <2>3 DEF Lists
  <2>5. new[u] = tail
    BY <1>3, <1>4, <2>3 DEF Lists
  <2>6. new \in Lists
    BY <1>4, <2>3 DEF Lists
  <2> QED BY <1>7, <2>2, <2>4, <2>5, <2>6
<1>11. /\ Ordered(<<b>>) /\ Range(<<b>>) = {b}
       /\ Ordered(<<b, b + v>>) /\ Range(<<b, b + v>>) = {b, b + v}
  BY <1>2, <1>3 DEF Ordered, Range
<1>12. \A t \in Buffers : Ordered(less[t])
  BY <1>2 DEF FreeOK
\* First the lower half.
<1>13. /\ FreeOK(mid)
       /\ ClearBut(less, mid, b, v)
  <2>1. Placed(b, v)
    BY <1>2, <1>3, PlacedSmaller
  <2>2. Clear(less, b, v)
    <3>1. \A t \in Buffers : \A c \in Range(less[t]) : Apart(c, t, b, v)
      <4> SUFFICES ASSUME NEW t \in Buffers, NEW c \in Range(less[t]) PROVE Apart(c, t, b, v)
        OBVIOUS
      <4>1. Apart(c, t, b, 2 * v)
        BY <1>2 DEF Clear
      <4>2. c \in Nat /\ t \in Nat
        BY <1>2, BuffersAre DEF FreeOK, Placed
      <4> QED BY <1>2, <1>3, <4>1, <4>2, HalvesApart
    <3> QED BY <3>1 DEF Clear
  <2>3. \A t \in Buffers : Ordered(mid[t])
    BY <1>8, <1>11, <1>12
  <2>4. \A t \in Buffers : \A c \in Range(mid[t]) : c \in Range(less[t]) \/ (t = v /\ c = b)
    BY <1>8, <1>11
  <2> QED BY <1>2, <1>8, <2>1, <2>2, <2>3, <2>4, OneMoreFree
\* Then the upper half.
<1>14. /\ FreeOK(new)
       /\ ClearBut(mid, new, b + v, v)
  <2>1. Placed(b + v, v)
    <3>1. Placed(b, v)
      BY <1>2, <1>3, PlacedSmaller
    <3>2. \A x \in Nat, y \in Nat \ {0} : x % y = 0 => (x + y) % y = 0
      <4> SUFFICES ASSUME NEW x \in Nat, NEW y \in Nat \ {0}, x % y = 0 PROVE (x + y) % y = 0
        OBVIOUS
      <4>1. PICK q \in Nat : x = q * y
        <5>1. x = (x \div y) * y /\ x \div y \in Nat
          OBVIOUS
        <5> QED BY <5>1
      <4>2. x + y = (q + 1) * y /\ q + 1 \in Nat
        BY <4>1
      <4>3. \A z \in Nat, w \in Nat \ {0} : (z * w) % w = 0
        OBVIOUS
      <4> QED BY <4>2, <4>3
    <3>3. (b + v) % v = 0
      BY <1>2, <1>3, <3>1, <3>2 DEF Placed
    <3> QED BY <1>2, <1>3, <1>6, <3>3, Constants DEF Placed
  <2>2. Clear(mid, b + v, v)
    <3>1. Clear(less, b + v, v)
      <4>1. \A t \in Buffers : \A c \in Range(less[t]) : Apart(c, t, b + v, v)
        <5> SUFFICES ASSUME NEW t \in Buffers, NEW c \in Range(less[t]) PROVE Apart(c, t, b + v, v)
          OBVIOUS
        <5>1. Apart(c, t, b, 2 * v)
          BY <1>2 DEF Clear
        <5>2. c \in Nat /\ t \in Nat
          BY <1>2, BuffersAre DEF FreeOK, Placed
        <5> QED BY <1>2, <1>3, <5>1, <5>2, HalvesApart
      <4> QED BY <4>1 DEF Clear
    <3>2. Apart(b, v, b + v, v)
      BY <1>2, <1>3, HalvesApart
    <3> QED BY <1>3, <1>6, <1>13, <3>1, <3>2 DEF ClearBut
  <2>3. \A t \in Buffers : Ordered(new[t])
    BY <1>10, <1>11, <1>12
  <2>4. \A t \in Buffers : \A c \in Range(new[t]) : c \in Range(mid[t]) \/ (t = v /\ c = b + v)
    BY <1>8, <1>10, <1>11
  <2>5. PICK d \in Nat : d = b + v
    BY <1>6
  <2>6. Placed(d, v) /\ Clear(mid, d, v)
    BY <2>1, <2>2, <2>5
  <2>7. \A t \in Buffers : \A c \in Range(new[t]) : c \in Range(mid[t]) \/ (t = v /\ c = d)
    BY <2>4, <2>5
  <2>8. FreeOK(new) /\ ClearBut(mid, new, d, v)
    <3>1. new \in Lists /\ FreeOK(mid)
      BY <1>10, <1>13
    <3>2. Placed(d, v)
      BY <2>6
    <3>3. Clear(mid, d, v)
      BY <2>6
    <3>4. FreeOK(new)
      BY <3>1, <2>3, <3>2, <3>3, <2>7, OneMoreFree, SMTT(60)
    <3>5. ClearBut(mid, new, d, v)
      BY <3>1, <2>3, <3>2, <3>3, <2>7, OneMoreFree, Zenon
    <3> QED BY <3>4, <3>5
  <2> QED BY <2>5, <2>8
<1>15. ASSUME NEW a \in Nat, NEW n \in Nat \ {0}, Clear(free, a, n) PROVE Clear(new, a, n)
  <2>1. Apart(b, 2 * v, a, n)
    BY <1>2, <1>15 DEF Clear
  <2>2. Apart(b, v, a, n) /\ Apart(b + v, v, a, n)
    BY <1>2, <1>3, <2>1, HalvesApart
  <2>3. PICK d \in Nat : d = b + v
    BY <1>6
  <2>4. Clear(less, a, n)
    BY <1>2, <1>15 DEF ClearKept
  <2>5. Clear(mid, a, n)
    BY <1>13, <2>2, <2>4 DEF ClearBut
  <2> QED BY <1>14, <2>2, <2>3, <2>5 DEF ClearBut
<1> QED BY <1>2, <1>3, <1>7, <1>10, <1>14, <1>15 DEF StayClear

LEMMA BufferHalves ==
    ASSUME NEW s \in Buffers, NEW t \in Buffers, s < t
    PROVE  t \div 2 \in Buffers /\ 2 * (t \div 2) = t /\ s <= t \div 2 /\ t \div 2 < t
<1>1. s \in Nat \ {0} /\ t \in Nat \ {0} /\ Smallest <= s /\ Smallest \in Nat
  BY BuffersAre, Constants
<1>2. PICK k \in Nat \ {0} : t = k * (2 * s)
  BY BuffersAre
<1>3. t # Smallest
  BY <1>1
<1>4. t \div 2 \in Buffers /\ 2 * (t \div 2) = t
  BY <1>3, BuffersAre
<1>5. t = 2 * (k * s) /\ k * s \in Nat
  BY <1>1, <1>2
<1>6. \A x \in Nat, y \in Nat \ {0} : x <= y * x
  OBVIOUS
<1>7. s <= k * s
  BY <1>1, <1>6
<1> QED BY <1>1, <1>4, <1>5, <1>7

\* A round of splitting.
LEMMA HalveKeeps ==
    ASSUME NEW free, NEW s \in Buffers, NEW need \in Buffers, NEW b,
           NEW h, Carving(h, free, s, need, b)
    PROVE  Carving(Halve(h, need), free, s, need, b)
<1>1. CASE h.size = need
  BY <1>1 DEF Halve
<1>2. CASE h.size # need
  <2>1. PICK u \in Buffers : u = h.size
    BY DEF Carving, HalfState
  <2>2. u \in Nat \ {0} /\ need \in Nat \ {0} /\ s \in Nat \ {0} /\ need < u /\ u <= s
    BY <1>2, <2>1, BuffersAre DEF Carving
  <2>3. PICK v \in Buffers : v = u \div 2 /\ 2 * v = u /\ need <= v /\ v < u
    BY <2>2, BufferHalves
  <2>4. PICK new : new = split_buffer(h.free, u)
    OBVIOUS
  <2>5. PICK g : g = [free |-> new, size |-> v]
    OBVIOUS
  <2>6. Halve(h, need) = g
    BY <1>2, <2>1, <2>3, <2>4, <2>5 DEF Halve
  <2>7. /\ FreeOK(h.free) /\ StayClear(free, h.free) /\ h.free[u] # <<>> /\ h.free[v] = <<>>
        /\ b = Head(h.free[u])
    BY <2>1, <2>2, <2>3, BuffersAre DEF Carving
  <2>8. /\ b \in Nat /\ new \in Lists /\ FreeOK(new) /\ StayClear(h.free, new)
        /\ new[v] = <<b, b + v>> /\ new[u] = Tail(h.free[u])
        /\ \A t \in Buffers : t # u /\ t # v => new[t] = h.free[t]
    BY <2>3, <2>4, <2>7, SplitKeeps
  <2>9. g \in HalfState /\ g.free = new /\ g.size = v
    BY <2>5, <2>8 DEF HalfState
  <2>10. StayClear(free, new)
    BY <2>7, <2>8 DEF StayClear
  <2>11. new[v] # <<>> /\ Head(new[v]) = b
    BY <2>8
  <2>12. ASSUME NEW t \in Buffers, need <= t, t < v PROVE new[t] = <<>>
    <3>1. t \in Nat /\ v \in Nat /\ t < u /\ t # u /\ t # v
      BY <2>2, <2>3, <2>12, BuffersAre
    <3>2. h.free[t] = <<>>
      BY <2>1, <2>12, <3>1 DEF Carving
    <3> QED BY <2>8, <3>1, <3>2
  <2>13. b + s \div 2 \in Range(new[s \div 2])
    <3>1. CASE u = s
      <4>1. s \div 2 = v /\ 2 \in DOMAIN <<b, b + v>> /\ <<b, b + v>>[2] = b + v
        BY <2>3, <3>1
      <4> QED BY <2>8, <4>1 DEF Range
    <3>2. CASE u # s
      <4>1. u < s
        BY <2>2, <3>2
      <4>2. s \div 2 \in Buffers /\ u <= s \div 2
        BY <4>1, BufferHalves
      <4>3. h.free[u] = <<b, b + u>> /\ b + s \div 2 \in Range(h.free[s \div 2])
        BY <2>1, <4>1 DEF Carving
      <4>4. CASE s \div 2 = u
        <5>1. new[u] = <<b + u>>
          BY <2>8, <4>3
        <5>2. 1 \in DOMAIN <<b + u>> /\ <<b + u>>[1] = b + u
          OBVIOUS
        <5> QED BY <4>4, <5>1, <5>2 DEF Range
      <4>5. CASE s \div 2 # u
        <5>1. s \div 2 # v
          <6>1. v \in Nat /\ s \div 2 \in Nat
            BY <4>2, BuffersAre
          <6> QED BY <2>2, <2>3, <4>2, <6>1
        <5>2. new[s \div 2] = h.free[s \div 2]
          BY <2>8, <4>2, <4>5, <5>1
        <5> QED BY <4>3, <5>2
      <4> QED BY <4>4, <4>5
    <3> QED BY <3>1, <3>2
  <2>14. v <= s
    BY <2>2, <2>3, BuffersAre
  <2> QED BY <2>3, <2>6, <2>8, <2>9, <2>10, <2>11, <2>12, <2>13, <2>14 DEF Carving
<1> QED BY <1>1, <1>2

\* What is left on a page when a block of size need has been taken from the first of
\* size s, there being none of a size between.
CarvedOff(free, s, need) == Without(Carve(free, s, need), need)

LEMMA CarveKeeps ==
    ASSUME NEW free, FreeOK(free), NEW s \in Buffers, NEW need \in Buffers, need <= s,
           free[s] # <<>>, \A t \in Buffers : need <= t /\ t < s => free[t] = <<>>
    PROVE  /\ Carve(free, s, need) \in Lists /\ Carve(free, s, need)[need] # <<>>
           /\ Head(free[s]) \in Nat /\ Placed(Head(free[s]), s) /\ Head(free[s]) \in Range(free[s])
           /\ CarvedOff(free, s, need) \in Lists /\ FreeOK(CarvedOff(free, s, need))
           /\ StayClear(free, CarvedOff(free, s, need))
           /\ Clear(CarvedOff(free, s, need), Head(free[s]), need)
           /\ need < s => CarvedOff(free, s, need)[s \div 2] # <<>>
<1> DEFINE b == Head(free[s])
           x == [free |-> free, size |-> s]
           V == {h \in HalfState : Carving(h, free, s, need, b)}
           step == [i \in 1 .. Levels |-> [v \in V |-> Halve(v, need)]]
           after[n \in 0 .. Levels] == IF n = 0 THEN x ELSE Halve(after[n - 1], need)
           f == [n \in 0 .. Levels |-> IF n = 0 THEN x ELSE Halve(after[n - 1], need)]
<1>1. Levels \in Nat \ {0} /\ Carve(free, s, need) = after[Levels].free
  BY Constants DEF Carve
<1>2. free \in Lists /\ s \in Nat \ {0} /\ need \in Nat \ {0}
  BY BuffersAre DEF FreeOK, Lists
<1>3. /\ b \in Nat /\ Placed(b, s) /\ b \in Range(free[s])
  BY TakeHead DEF HeadTaken
<1>4. x \in V
  <2>1. x.free = free /\ x.size = s /\ x \in HalfState /\ ~(s < s) /\ s <= s
    BY <1>2 DEF HalfState
  <2> HIDE DEF x, b
  <2>2. Carving(x, free, s, need, b)
    BY <2>1 DEF Carving, StayClear, b
  <2> QED BY <2>1, <2>2
<1> HIDE DEF b, x
<1>5. ASSUME NEW v \in V PROVE Halve(v, need) \in V
  <2>1. Carving(Halve(v, need), free, s, need, b)
    BY HalveKeeps
  <2> QED BY <2>1 DEF Carving
<1>6. step \in Steps(Levels, V)
  BY <1>5 DEF Steps
<1>7. PICK g : IsRounds(g, Levels, V, x, step)
  <2> HIDE DEF V, step
  <2> QED BY <1>1, <1>4, <1>6, RoundsExist
<1>8. g \in [0 .. Levels -> V] /\ g[0] = x
  BY <1>7 DEF IsRounds
<1>9. ASSUME NEW i \in 1 .. Levels PROVE i - 1 \in 0 .. Levels /\ g[i] = Halve(g[i - 1], need)
  <2>1. i - 1 \in 0 .. Levels
    BY <1>1
  <2>2. g[i - 1] \in V /\ g[i] = step[i][g[i - 1]]
    BY <1>7, <1>8, <2>1 DEF IsRounds
  <2> QED BY <2>1, <2>2
<1>10. g = [n \in 0 .. Levels |-> IF n = 0 THEN x ELSE Halve(g[n - 1], need)]
  BY <1>1, <1>8, <1>9
<1>11. after = f
  BY <1>10
<1>12. f[0] = x /\ \A i \in 1 .. Levels : f[i] = Halve(after[i - 1], need)
  BY <1>1
<1>13. after[0] = x /\ \A i \in 1 .. Levels : after[i] = Halve(after[i - 1], need)
  BY <1>11, <1>12, Zenon
<1> HIDE DEF V, after, f
<1>14. after[0] \in V /\ \A i \in 1 .. Levels : after[i - 1] \in V => after[i] \in V
  BY <1>4, <1>5, <1>13
<1>15. \A i \in 0 .. Levels : after[i] \in V
  BY <1>1, <1>14, RoundsStay
<1>16. \A i \in 0 .. Levels : Carving(after[i], free, s, need, b)
  BY <1>15 DEF V
\* Every round halves the size, so that Levels of them suffice.
<1>17. after[Levels].size = need
  <2> DEFINE S == {n \in Nat : n <= Levels => \/ after[n].size = need
                                              \/ after[n].size * Pow2[n] = s}
  <2>1. 0 \in S
    <3>1. after[0].size = s /\ Pow2[0] = 1
      BY <1>13, Pow2Is DEF x
    <3> QED BY <1>2, <3>1
  <2>2. ASSUME NEW n \in S PROVE n + 1 \in S
    <3> SUFFICES ASSUME n + 1 <= Levels
                 PROVE  after[n + 1].size = need \/ after[n + 1].size * Pow2[n + 1] = s
      OBVIOUS
    <3>1. n \in 0 .. Levels /\ n + 1 \in 1 .. Levels /\ (n + 1) - 1 = n
      BY <1>1
    <3>2. after[n + 1] = Halve(after[n], need)
      BY <1>13, <3>1
    <3>3. CASE after[n].size = need
      BY <3>2, <3>3 DEF Halve
    <3>4. CASE after[n].size # need
      <4>1. PICK u \in Buffers : u = after[n].size /\ need <= u
        BY <1>16, <3>1 DEF Carving, HalfState
      <4>2. need < u /\ u \in Nat
        BY <1>2, <3>4, <4>1, BuffersAre
      <4>3. PICK v \in Nat : v = u \div 2 /\ 2 * v = u
        BY <4>2, BufferHalves, BuffersAre
      <4>4. after[n + 1].size = v
        BY <3>2, <3>4, <4>1, <4>3 DEF Halve
      <4>5. u * Pow2[n] = s
        BY <3>1, <3>4, <4>1
      <4>6. PICK p \in Nat : p = Pow2[n] /\ Pow2[n + 1] = 2 * p
        BY <3>1, Pow2Is
      <4>7. v * (2 * p) = (2 * v) * p
        OBVIOUS
      <4> QED BY <4>3, <4>4, <4>5, <4>6, <4>7
    <3> QED BY <3>3, <3>4
  <2>3. S = Nat
    <3>1. S \in SUBSET Nat
      OBVIOUS
    <3> HIDE DEF S
    <3> QED BY <2>1, <2>2, <3>1, Induction
  <2>4. Levels \in S
    BY <1>1, <2>3
  <2>5. CASE after[Levels].size * Pow2[Levels] = s
    <3>1. PICK u \in Buffers : u = after[Levels].size /\ need <= u
      BY <1>1, <1>16 DEF Carving, HalfState
    <3>2. PICK p \in Nat \ {0} : p = Pow2[Levels]
      BY <1>1, Pow2Is
    <3>3. u * p <= Smallest * p /\ u \in Nat /\ Smallest \in Nat
      BY <2>5, <3>1, <3>2, SizeAssumption, BuffersAre, Constants
    <3>4. u <= Smallest
      BY <3>2, <3>3, Scaling
    <3>5. Smallest <= need
      BY BuffersAre
    <3> QED BY <1>2, <3>1, <3>3, <3>4, <3>5
  <2> QED BY <1>1, <2>4, <2>5
<1>18. PICK c : c = after[Levels].free
  OBVIOUS
<1>19. /\ FreeOK(c) /\ StayClear(free, c) /\ c[need] # <<>> /\ Head(c[need]) = b
       /\ need < s => c[need] = <<b, b + need>> /\ b + s \div 2 \in Range(c[s \div 2])
  <2>1. PICK e : e = after[Levels]
    OBVIOUS
  <2>2. Carving(e, free, s, need, b) /\ e.size = need /\ e.free = c
    BY <1>1, <1>16, <1>17, <1>18, <2>1
  <2> QED BY <2>2 DEF Carving
<1>20. PICK d : d = Without(c, need) /\ d = CarvedOff(free, s, need) /\ c = Carve(free, s, need)
  BY <1>1, <1>18 DEF CarvedOff
<1>21. HeadTaken(c, need, d, b)
  <2>1. HeadTaken(c, need, Without(c, need), Head(c[need]))
    BY <1>19, TakeHead
  <2> QED BY <1>19, <1>20, <2>1
<1>22. /\ d \in Lists /\ FreeOK(d) /\ ClearKept(c, d) /\ Clear(d, b, need)
       /\ \A t \in Buffers : \A e \in Range(c[t]) : (t = need /\ e = b) \/ e \in Range(d[t])
  BY <1>21 DEF HeadTaken
<1>23. StayClear(free, d)
  BY <1>19, <1>22 DEF StayClear, ClearKept
<1>24. ASSUME need < s PROVE d[s \div 2] # <<>>
  <2>1. s \div 2 \in Buffers /\ s \div 2 # 0 /\ s \div 2 \in Nat
    BY <1>24, BufferHalves, BuffersAre
  <2>2. b + s \div 2 # b
    BY <1>3, <2>1
  <2>3. b + s \div 2 \in Range(d[s \div 2])
    BY <1>19, <1>22, <1>24, <2>1, <2>2
  <2> QED BY <2>3 DEF Range
<1>25. c \in Lists
  BY <1>19 DEF FreeOK, Lists
<1> QED BY <1>3, <1>19, <1>20, <1>22, <1>23, <1>24, <1>25 DEF b

-----------------------------------------------------------------------------
(* Pages. *)

Half == PAGESIZE \div 2

LEMMA HalfIs ==
    /\ Half \in Buffers /\ Half \in Nat /\ 2 * Half = PAGESIZE /\ Half < PAGESIZE
    /\ \A s \in Buffers : s < PAGESIZE => s <= Half
<1>1. Smallest \in Buffers /\ PAGESIZE \in Buffers /\ Smallest < PAGESIZE
  <2>1. Levels \in 1 .. Levels /\ Levels - 1 \in 0 .. Levels /\ Smallest \in Nat \ {0}
    BY Constants
  <2>2. PICK p \in Nat \ {0} : Pow2[Levels] = 2 * p
    BY <2>1, Pow2Is
  <2>3. \A x, y \in Nat \ {0} : x < x * (2 * y)
    <3> SUFFICES ASSUME NEW x \in Nat \ {0}, NEW y \in Nat \ {0} PROVE x < x * (2 * y)
      OBVIOUS
    <3>1. x * (2 * y) = 2 * (x * y) /\ x * y >= x
      OBVIOUS
    <3> QED BY <3>1
  <2>4. Smallest < PAGESIZE
    BY <2>1, <2>2, <2>3, SizeAssumption
  <2> QED BY <2>4, BuffersAre
<1>2. Half \in Buffers /\ 2 * Half = PAGESIZE /\ Half < PAGESIZE
  BY <1>1, BufferHalves DEF Half
<1>3. \A s \in Buffers : s < PAGESIZE => s <= Half
  BY <1>1, BufferHalves DEF Half
<1>4. Half \in Nat
  BY <1>2, BuffersAre
<1> QED BY <1>2, <1>3, <1>4

\* The first blocks of the two kinds of new pages have room for the headers, and leave
\* half the page.
LEMMA FirstBlocks ==
    ASSUME NEW block, block = round_up(PageHeader) \/ block = round_up(REALSIZE(PageHeader))
    PROVE  block \in Buffers /\ Headers <= block /\ block < PAGESIZE
<1>1. /\ PageHeader \in Nat /\ REALSIZE(PageHeader) = Headers /\ Headers \in Nat
      /\ PageHeader <= Headers /\ Headers <= Half /\ Half \in Buffers /\ Half < PAGESIZE
      /\ PAGESIZE \in Nat /\ Half \in Nat
  BY Constants, SizeAssumption, HalfIs DEF Headers, REALSIZE
<1>2. PageHeader <= Half /\ PageHeader <= PAGESIZE /\ Headers <= PAGESIZE
  BY <1>1
<1>3. round_up(PageHeader) \in Buffers /\ round_up(PageHeader) <= Half
  BY <1>1, <1>2, RoundUpIs
<1>4. round_up(Headers) \in Buffers /\ round_up(Headers) <= Half /\ Headers <= round_up(Headers)
  BY <1>1, <1>2, RoundUpIs
<1>5. Headers <= round_up(PageHeader)
  BY SizeAssumption DEF Headers
<1>6. \A s \in Buffers : s \in Nat
  BY BuffersAre
<1>7. CASE block = round_up(PageHeader)
  <2>1. block \in Buffers /\ block <= Half /\ Headers <= block
    BY <1>3, <1>5, <1>7
  <2>2. block \in Nat
    BY <1>6, <2>1
  <2> QED BY <1>1, <2>1, <2>2
<1>8. CASE block = round_up(REALSIZE(PageHeader))
  <2>1. block = round_up(Headers)
    BY <1>1, <1>8
  <2>2. block \in Buffers /\ block <= Half /\ Headers <= block
    BY <1>4, <2>1
  <2>3. block \in Nat
    BY <1>6, <2>2
  <2> QED BY <1>1, <2>2, <2>3
<1> QED BY <1>7, <1>8

\* A fresh page.
LEMMA NewListsAre ==
    ASSUME NEW block \in Buffers, block < PAGESIZE
    PROVE  /\ NewLists(block) \in Lists /\ FreeOK(NewLists(block))
           /\ Clear(NewLists(block), 0, block) /\ NewLists(block)[Half] # <<>>
<1> DEFINE free == [EmptyLists EXCEPT ![PAGESIZE] = <<0>>]
<1>1. PAGESIZE \in Buffers /\ PAGESIZE \in Nat \ {0}
  BY BuffersAre, Constants
<1>2. /\ free \in Lists /\ free[PAGESIZE] = <<0>>
      /\ \A t \in Buffers : t # PAGESIZE => free[t] = <<>>
  <2>1. <<0>> \in Seq(Nat) /\ <<>> \in Seq(Nat)
    OBVIOUS
  <2>2. EmptyLists \in Lists /\ \A t \in Buffers : EmptyLists[t] = <<>>
    BY <2>1 DEF Lists, EmptyLists
  <2> QED BY <1>1, <2>1, <2>2 DEF Lists
<1> HIDE DEF free
<1>3. Ordered(<<0>>) /\ Ordered(<<>>) /\ Range(<<0>>) = {0} /\ Range(<<>>) = {}
  BY DEF Ordered, Range
<1>4. \A t \in Buffers : \A b \in Range(free[t]) : t = PAGESIZE /\ b = 0
  BY <1>2, <1>3
<1>5. Placed(0, PAGESIZE)
  BY <1>1 DEF Placed
<1>6. FreeOK(free)
  <2>1. \A t \in Buffers : Ordered(free[t])
    BY <1>2, <1>3
  <2> QED BY <1>2, <1>4, <1>5, <2>1 DEF FreeOK, Lists
<1>7. free[PAGESIZE] # <<>> /\ Head(free[PAGESIZE]) = 0
  BY <1>2
<1>8. \A t \in Buffers : block <= t /\ t < PAGESIZE => free[t] = <<>>
  BY <1>1, <1>2, BuffersAre
<1>9. block <= PAGESIZE
  BY <1>1, BuffersAre
<1>10. NewLists(block) = CarvedOff(free, PAGESIZE, block)
  BY DEF NewLists, CarvedOff, Without, free
<1>11. /\ CarvedOff(free, PAGESIZE, block) \in Lists /\ FreeOK(CarvedOff(free, PAGESIZE, block))
       /\ Clear(CarvedOff(free, PAGESIZE, block), Head(free[PAGESIZE]), block)
       /\ CarvedOff(free, PAGESIZE, block)[PAGESIZE \div 2] # <<>>
  BY <1>1, <1>6, <1>7, <1>8, <1>9, CarveKeeps
<1> QED BY <1>7, <1>10, <1>11 DEF Half

\* A request that is not too big.
LEMMA NeedIs ==
    ASSUME NEW size \in Sizes, ~TooBig(size)
    PROVE  /\ Need(size) \in Buffers /\ Need(size) \in Nat \ {0}
           /\ size \in Nat \ {0} /\ size <= PAGESIZE /\ size <= Extent(size)
           /\ Extent(size) \in Nat \ {0} /\ Headers < PAGESIZE
           /\ Need(size) # PAGESIZE => Extent(size) = Need(size) /\ round_up(size) <= Need(size)
           /\ round_up(size) \in Buffers
<1>1. size \in Nat \ {0} /\ AllocHeader \in Nat \ {0} /\ PageHeader \in Nat \ {0} /\ PAGESIZE \in Nat \ {0}
  BY Constants
<1>2. /\ REALSIZE(size) \in Nat /\ REALSIZE(size) = size + AllocHeader
      /\ size + AllocHeader + PageHeader <= PAGESIZE
  BY <1>1 DEF REALSIZE, TooBig
<1>3. Need(size) \in Buffers /\ REALSIZE(size) <= Need(size)
  BY <1>1, <1>2, RoundUpIs DEF Need
<1>4. Need(size) \in Nat \ {0}
  BY <1>3, BuffersAre
<1>5. Headers < PAGESIZE /\ Headers = AllocHeader + PageHeader /\ 2 * Headers <= PAGESIZE
  BY <1>1, SizeAssumption DEF Headers
<1>6. Extent(size) \in Nat \ {0} /\ size <= Extent(size)
  BY <1>1, <1>2, <1>3, <1>4, <1>5 DEF Extent
<1>7. size <= PAGESIZE /\ size <= Need(size)
  BY <1>1, <1>2, <1>3, <1>4
<1>8. round_up(size) \in Buffers /\ round_up(size) <= Need(size)
  BY <1>1, <1>3, <1>7, RoundUpIs
<1> QED BY <1>1, <1>3, <1>4, <1>5, <1>6, <1>7, <1>8 DEF Extent

-----------------------------------------------------------------------------
(* What kma_malloc does to the heap. *)

HeapType == [pages : Seq(Page), header : [Page -> [used : Nat, free : Lists]], pool : Pool]

LEMMA HeapTyped ==
    ASSUME NEW k, HeapTypeOK(k)
    PROVE  /\ k \in HeapType /\ PoolMatches(k.pool, Range(k.pages))
           /\ \A i, j \in DOMAIN k.pages : k.pages[i] = k.pages[j] => i = j
BY DEF HeapTypeOK, HeapType, Lists

\* AddPage appends a page with sound lists that has half of it free.
LEMMA AddPageKeeps ==
    ASSUME NEW k, HeapOK(k), ~Exhausted(k.pool),
           NEW block \in Buffers, Headers <= block, block < PAGESIZE
    PROVE  LET n == AddPage(k, block)
               p == NextPage(k.pool)
           IN  /\ HeapOK(n) /\ p \in Page \ Range(k.pages)
               /\ n.pages = Append(k.pages, p) /\ LiveOn(p) = {}
               /\ \A q \in Page \ {p} : n.header[q] = k.header[q]
               /\ n.header[p].used = 0 /\ n.header[p].free[Half] # <<>>
<1>1. PICK p : p = NextPage(k.pool)
  OBVIOUS
<1>2. PICK n : n = AddPage(k, block)
  OBVIOUS
<1>3. /\ k \in HeapType /\ PoolMatches(k.pool, Range(k.pages))
      /\ \A i, j \in DOMAIN k.pages : k.pages[i] = k.pages[j] => i = j
  BY HeapTyped DEF HeapOK
<1>4. p \in Page \ Range(k.pages) /\ PoolMatches(get_page(k.pool), Range(k.pages) \cup {p})
  BY <1>1, <1>3, GetPageLends
<1>5. PICK lists : lists = NewLists(block)
  OBVIOUS
<1>6. /\ lists \in Lists /\ FreeOK(lists) /\ Clear(lists, 0, block) /\ lists[Half] # <<>>
  BY <1>5, NewListsAre
<1>7. PICK new : new = [used |-> 0, free |-> lists]
  OBVIOUS
<1>8. new.used = 0 /\ new.free = lists /\ new \in [used : Nat, free : Lists]
  BY <1>6, <1>7
<1>9. /\ n.pages = Append(k.pages, p) /\ n.header = [k.header EXCEPT ![p] = new]
      /\ n.pool = get_page(k.pool)
      /\ n = [pages |-> n.pages, header |-> n.header, pool |-> n.pool]
  BY <1>1, <1>2, <1>5, <1>7 DEF AddPage
<1>10. /\ k.pages \in Seq(Page) /\ k.header \in [Page -> [used : Nat, free : Lists]]
  BY <1>3 DEF HeapType
<1>11. /\ n.header \in [Page -> [used : Nat, free : Lists]] /\ n.header[p] = new
       /\ \A q \in Page \ {p} : n.header[q] = k.header[q]
  BY <1>4, <1>8, <1>9, <1>10
<1>12. PICK m \in Nat :
         /\ n.pages \in Seq(Page) /\ DOMAIN n.pages = 1 .. m + 1 /\ DOMAIN k.pages = 1 .. m
         /\ \A i \in 1 .. m : n.pages[i] = k.pages[i]
         /\ n.pages[m + 1] = p
  <2>1. PICK m \in Nat : m = Len(k.pages)
    BY <1>10
  <2>2. p \in Page
    BY <1>4
  <2>3. /\ Append(k.pages, p) \in Seq(Page) /\ DOMAIN Append(k.pages, p) = 1 .. m + 1
        /\ DOMAIN k.pages = 1 .. m
    BY <1>10, <2>1, <2>2, AppendIs
  <2>4. /\ \A i \in 1 .. m : Append(k.pages, p)[i] = k.pages[i]
        /\ Append(k.pages, p)[m + 1] = p
    BY <1>10, <2>1, <2>2, AppendIs
  <2> QED BY <1>9, <2>3, <2>4
<1>13. \A i \in 1 .. m : k.pages[i] \in Range(k.pages) /\ k.pages[i] # p
  BY <1>4, <1>12 DEF Range
<1>14. Range(n.pages) = Range(k.pages) \cup {p}
  <2>1. ASSUME NEW z \in Range(n.pages) PROVE z \in Range(k.pages) \cup {p}
    <3>1. PICK i \in 1 .. m + 1 : z = n.pages[i]
      BY <1>12 DEF Range
    <3>2. i \in 1 .. m \/ i = m + 1
      OBVIOUS
    <3> QED BY <1>12, <1>13, <3>1, <3>2
  <2>2. ASSUME NEW z \in Range(k.pages) PROVE z \in Range(n.pages)
    <3>1. PICK i \in 1 .. m : z = k.pages[i]
      BY <1>12 DEF Range
    <3>2. i \in 1 .. m + 1 /\ z = n.pages[i]
      BY <1>12, <3>1
    <3> QED BY <1>12, <3>2 DEF Range
  <2>3. m + 1 \in 1 .. m + 1
    OBVIOUS
  <2>4. p \in Range(n.pages)
    BY <1>12, <2>3 DEF Range
  <2> QED BY <2>1, <2>2, <2>4
<1>15. \A i, j \in 1 .. m + 1 : n.pages[i] = n.pages[j] => i = j
  <2> SUFFICES ASSUME NEW i \in 1 .. m + 1, NEW j \in 1 .. m + 1, n.pages[i] = n.pages[j] PROVE i = j
    OBVIOUS
  <2>1. (i \in 1 .. m \/ i = m + 1) /\ (j \in 1 .. m \/ j = m + 1)
    OBVIOUS
  <2>2. CASE i \in 1 .. m /\ j \in 1 .. m
    <3>1. k.pages[i] = k.pages[j]
      BY <1>12, <2>2
    <3> QED BY <1>3, <1>12, <2>2, <3>1
  <2>3. CASE i \in 1 .. m /\ j = m + 1
    BY <1>12, <1>13, <2>3
  <2>4. CASE i = m + 1 /\ j \in 1 .. m
    BY <1>12, <1>13, <2>4
  <2> QED BY <2>1, <2>2, <2>3, <2>4
<1>16. HeapTypeOK(n)
  <2>1. n.pool \in Pool
    BY <1>4, <1>9 DEF PoolMatches
  <2>2. n \in HeapType
    BY <1>9, <1>11, <1>12, <2>1 DEF HeapType
  <2>3. PoolMatches(n.pool, Range(n.pages))
    BY <1>4, <1>9, <1>14
  <2> QED BY <1>12, <1>15, <2>2, <2>3 DEF HeapTypeOK, HeapType, Lists
<1>17. LiveOn(p) = {}
  BY <1>4 DEF HeapOK, LiveOn
<1>18. Clear(lists, 0, Headers)
  <2>1. ASSUME NEW s \in Buffers, NEW b \in Range(lists[s]) PROVE Apart(b, s, 0, Headers)
    <3>1. Apart(b, s, 0, block)
      BY <1>6 DEF Clear
    <3>2. b \in Nat /\ s \in Nat /\ block \in Nat /\ Headers \in Nat
      BY <1>6, BuffersAre, Constants DEF FreeOK, Placed
    <3> QED BY <3>1, <3>2 DEF Apart
  <2> QED BY <2>1 DEF Clear
<1>19. ASSUME NEW q \in Page
       PROVE  /\ IsFiniteSet(LiveOn(q)) /\ n.header[q].used = Cardinality(LiveOn(q))
              /\ FreeOK(n.header[q].free)
  <2>1. CASE q = p
    BY <1>6, <1>8, <1>11, <1>17, <2>1, FS_EmptySet
  <2>2. CASE q # p
    BY <1>11, <2>2 DEF HeapOK
  <2> QED BY <2>1, <2>2
<1>20. ASSUME NEW q \in Range(n.pages) PROVE Clear(n.header[q].free, 0, Headers)
  <2>1. CASE q = p
    BY <1>8, <1>11, <1>18, <2>1
  <2>2. CASE q # p
    <3>1. q \in Range(k.pages) /\ q \in Page \ {p}
      BY <1>4, <1>12, <1>14, <2>2 DEF Range
    <3>2. Clear(k.header[q].free, 0, Headers)
      BY <3>1 DEF HeapOK
    <3> QED BY <1>11, <3>1, <3>2
  <2> QED BY <2>1, <2>2
<1>21. ASSUME NEW r \in Live
       PROVE  /\ requests[r].page \in Range(n.pages)
              /\ Clear(n.header[requests[r].page].free, requests[r].offset, Extent(requests[r].size))
  <2>1. /\ requests[r].page \in Range(k.pages)
        /\ Clear(k.header[requests[r].page].free, requests[r].offset, Extent(requests[r].size))
    BY DEF HeapOK
  <2>2. requests[r].page \in Page \ {p}
    BY <1>4, <1>10, <2>1 DEF Range
  <2> QED BY <1>11, <1>14, <2>1, <2>2
<1>22. HeapOK(n)
  BY <1>16, <1>19, <1>20, <1>21 DEF HeapOK
<1> QED BY <1>1, <1>2, <1>4, <1>6, <1>8, <1>9, <1>11, <1>17, <1>22

\* The block that is taken: it was the first free block of some size on some page of
\* the list, or a part of that.
Picked(k, need, s, p, b) ==
    /\ s \in Buffers /\ need <= s
    /\ p \in Range(k.pages) /\ p \in Page
    /\ k.header[p].free[s] # <<>> /\ b = Head(k.header[p].free[s])
    /\ \A t \in Buffers : need <= t /\ t < s => \A q \in Range(k.pages) : k.header[q].free[t] = <<>>

LEMMA BestIs ==
    ASSUME NEW k, HeapTypeOK(k), NEW need \in Buffers, Fitting(k, need) # {}
    PROVE  Picked(k, need, BestSize(k, need), BestPage(k, need), Taken(k, need))
<1>1. PICK s : s \in Fitting(k, need) /\ (\A t \in Fitting(k, need) : s <= t) /\ s = BestSize(k, need)
  <2>1. Fitting(k, need) \in SUBSET Nat
    BY BuffersAre DEF Fitting
  <2> QED BY <2>1, MinIsLeast DEF BestSize
<1>2. s \in Buffers /\ s >= need /\ \E p \in Range(k.pages) : k.header[p].free[s] # <<>>
  BY <1>1 DEF Fitting
<1>3. need \in Nat /\ s \in Nat /\ need <= s
  BY <1>2, BuffersAre
<1>4. k.pages \in Seq(Page)
  BY HeapTyped DEF HeapType
<1> DEFINE I == {i \in 1 .. Len(k.pages) : k.header[k.pages[i]].free[s] # <<>>}
<1>5. I # {} /\ I \in SUBSET Nat
  <2>1. PICK p \in Range(k.pages) : k.header[p].free[s] # <<>>
    BY <1>2
  <2>2. PICK i \in DOMAIN k.pages : p = k.pages[i]
    BY DEF Range
  <2>3. i \in I
    BY <1>4, <2>1, <2>2
  <2>4. I \in SUBSET Nat
    OBVIOUS
  <2> QED BY <2>3, <2>4
<1>6. PICK i : i \in I /\ i = Min(I)
  <2> HIDE DEF I
  <2> QED BY <1>5, MinIsLeast
<1>7. PICK p : p = k.pages[i] /\ p = BestPage(k, need)
  BY <1>1, <1>6 DEF BestPage
<1>8. /\ p \in Range(k.pages) /\ p \in Page /\ k.header[p].free[s] # <<>>
  <2>1. i \in DOMAIN k.pages /\ k.header[k.pages[i]].free[s] # <<>>
    <3>1. i \in 1 .. Len(k.pages) /\ k.header[k.pages[i]].free[s] # <<>>
      BY <1>6, Zenon
    <3> HIDE DEF I
    <3>2. DOMAIN k.pages = 1 .. Len(k.pages)
      BY <1>4
    <3> QED BY <3>1, <3>2
  <2> HIDE DEF I
  <2>2. k.pages[i] \in Page
    BY <1>4, <2>1
  <2> QED BY <1>7, <2>1, <2>2 DEF Range
<1>9. ASSUME NEW t \in Buffers, need <= t, t < s, NEW q \in Range(k.pages) PROVE k.header[q].free[t] = <<>>
  <2>1. t \in Nat /\ ~(s <= t)
    BY <1>3, <1>9, BuffersAre
  <2>2. t \notin Fitting(k, need)
    BY <1>1, <2>1
  <2> QED BY <1>3, <1>9, <2>1, <2>2 DEF Fitting
<1>10. Taken(k, need) = Head(k.header[p].free[s])
  BY <1>1, <1>7 DEF Taken
<1> QED BY <1>1, <1>2, <1>3, <1>7, <1>8, <1>9, <1>10 DEF Picked

\* A heap in which the memory from b to b + m of page p has been taken out of the free
\* blocks of heap k.
TakenFrom(k, n, p, b, m) ==
    /\ n \in HeapType /\ n.pages = k.pages /\ n.pool = k.pool
    /\ \A q \in Page \ {p} : n.header[q] = k.header[q]
    /\ n.header[p].used = k.header[p].used + 1
    /\ FreeOK(n.header[p].free)
    /\ StayClear(k.header[p].free, n.header[p].free)
    /\ Clear(n.header[p].free, b, m)

LEMMA TakeKeeps ==
    ASSUME NEW k, HeapOK(k), NEW need \in Buffers, Fitting(k, need) # {}
    PROVE  LET p == BestPage(k, need)
               b == Taken(k, need)
           IN  /\ TakenFrom(k, Take(k, need), p, b, need)
               /\ p \in Range(k.pages) /\ p \in Page /\ b \in Nat /\ Placed(b, need)
               /\ \A a \in Nat, n \in Nat : Clear(k.header[p].free, a, n) => Apart(b, need, a, n)
<1>1. PICK s, p, b : /\ s = BestSize(k, need) /\ p = BestPage(k, need) /\ b = Taken(k, need)
                     /\ Picked(k, need, s, p, b)
  BY BestIs DEF HeapOK
<1>2. PICK free : free = k.header[p].free
  OBVIOUS
<1>3. /\ s \in Buffers /\ need <= s /\ p \in Range(k.pages) /\ p \in Page
      /\ free[s] # <<>> /\ b = Head(free[s])
      /\ \A t \in Buffers : need <= t /\ t < s => free[t] = <<>>
  BY <1>1, <1>2 DEF Picked
<1>4. FreeOK(free)
  BY <1>2, <1>3 DEF HeapOK
<1>5. PICK rest : rest = CarvedOff(free, s, need)
  OBVIOUS
<1>6. /\ b \in Nat /\ Placed(b, s) /\ b \in Range(free[s])
      /\ rest \in Lists /\ FreeOK(rest) /\ StayClear(free, rest) /\ Clear(rest, b, need)
  BY <1>3, <1>4, <1>5, CarveKeeps
<1>7. k \in HeapType
  BY HeapTyped DEF HeapOK
<1>8. PICK new : new = [used |-> k.header[p].used + 1, free |-> rest]
  OBVIOUS
<1>9. /\ new.used = k.header[p].used + 1 /\ new.free = rest /\ new \in [used : Nat, free : Lists]
  BY <1>3, <1>6, <1>7, <1>8 DEF HeapType
<1>10. PICK n : n = Take(k, need)
  OBVIOUS
<1>11. n = [k EXCEPT !.header = [k.header EXCEPT ![p] = new]]
  BY <1>1, <1>2, <1>5, <1>8, <1>10 DEF Take, CarvedOff, Without
<1>12. PICK hd : hd = [k.header EXCEPT ![p] = new]
  OBVIOUS
<1>13. /\ hd \in [Page -> [used : Nat, free : Lists]] /\ hd[p] = new
       /\ \A q \in Page \ {p} : hd[q] = k.header[q]
  BY <1>3, <1>7, <1>9, <1>12 DEF HeapType
<1>14. n \in HeapType /\ n.pages = k.pages /\ n.pool = k.pool /\ n.header = hd
  BY <1>7, <1>11, <1>12, <1>13 DEF HeapType
<1>15. TakenFrom(k, n, p, b, need)
  BY <1>2, <1>6, <1>9, <1>13, <1>14 DEF TakenFrom
<1>16. Placed(b, need)
  BY <1>3, <1>6, PlacedSmaller
<1>17. ASSUME NEW a \in Nat, NEW m \in Nat, Clear(free, a, m) PROVE Apart(b, need, a, m)
  <2>1. Apart(b, s, a, m)
    BY <1>3, <1>6, <1>17 DEF Clear
  <2>2. need \in Nat /\ s \in Nat
    BY <1>3, BuffersAre
  <2> QED BY <1>3, <1>6, <2>1, <2>2 DEF Apart
<1> QED BY <1>1, <1>2, <1>3, <1>6, <1>10, <1>15, <1>16, <1>17

-----------------------------------------------------------------------------
(* The inductive invariant, action by action. *)

LEMMA HeapIsHeap ==
    /\ Heap.pages = pages /\ Heap.header = header /\ Heap.pool = pool
    /\ Heap'.pages = pages' /\ Heap'.header = header' /\ Heap'.pool = pool'
BY DEF Heap

\* The memory of a request, as LiveInv has it.
LEMMA LiveIs ==
    ASSUME DriverTypeOK, LiveInv, NEW r \in Live
    PROVE  LET m == requests[r] IN
           /\ r \in Requests /\ m.page \in Page /\ m.offset \in Nat
           /\ m.size \in Sizes /\ ~TooBig(m.size) /\ m.offset >= Headers
           /\ IF Need(m.size) = PAGESIZE THEN m.offset = Headers ELSE Placed(m.offset, Need(m.size))
           /\ m.offset + Extent(m.size) <= PAGESIZE
           /\ Extent(m.size) \in Nat \ {0}
<1>1. PICK m : m = requests[r]
  OBVIOUS
<1>2. r \in Requests /\ m.page \in Page /\ m.offset \in 0 .. PAGESIZE
  BY <1>1 DEF Live, DriverTypeOK
<1>3. /\ m.size \in Sizes /\ ~TooBig(m.size) /\ m.offset >= Headers
      /\ IF Need(m.size) = PAGESIZE THEN m.offset = Headers ELSE Placed(m.offset, Need(m.size))
  BY <1>1 DEF LiveInv, InPlace
<1>4. PICK size \in Sizes : size = m.size /\ ~TooBig(size)
  BY <1>3
<1>5. /\ Extent(size) \in Nat \ {0} /\ Headers < PAGESIZE
      /\ Need(size) # PAGESIZE => Extent(size) = Need(size)
  BY <1>4, NeedIs
<1>6. m.offset + Extent(size) <= PAGESIZE
  <2>1. CASE Need(size) = PAGESIZE
    <3>1. m.offset = Headers /\ Extent(size) = PAGESIZE - Headers
      BY <1>3, <1>4, <2>1 DEF Extent
    <3> QED BY <1>5, <3>1, Constants
  <2>2. CASE Need(size) # PAGESIZE
    BY <1>3, <1>4, <1>5, <2>2 DEF Placed
  <2> QED BY <2>1, <2>2
<1> QED BY <1>1, <1>2, <1>3, <1>4, <1>5, <1>6

\* kma_malloc hands out memory that it has taken from the free blocks.
LEMMA GrantKeeps ==
    ASSUME DriverTypeOK, RequestInv, LiveInv,
           NEW r \in Requests, ~requests[r].used, NEW size \in Sizes, ~TooBig(size),
           NEW k, HeapOK(k), NEW n, NEW p \in Range(k.pages), NEW b \in Nat,
           TakenFrom(k, n, p, b, Extent(size)), BusyInv(n),
           b >= Headers,
           IF Need(size) = PAGESIZE THEN b = Headers ELSE Placed(b, Need(size)),
           \A q \in LiveOn(p) : Apart(b, Extent(size), requests[q].offset, Extent(requests[q].size)),
           HeapIs(n), Grant(r, size, p, b)
    PROVE  IInv'
<1>1. /\ k \in HeapType /\ PoolMatches(k.pool, Range(k.pages))
      /\ \A i, j \in DOMAIN k.pages : k.pages[i] = k.pages[j] => i = j
  BY HeapTyped DEF HeapOK
<1>2. p \in Page
  BY <1>1 DEF HeapType, Range
<1>3. PICK new : new = [used |-> TRUE, size |-> size, page |-> p, offset |-> b]
  OBVIOUS
<1>4. new.used = TRUE /\ new.size = size /\ new.page = p /\ new.offset = b
  BY <1>3
<1>5. /\ requests' = [requests EXCEPT ![r] = new] /\ verdict' = verdict
  BY <1>3 DEF Grant
<1>6. requests'[r] = new /\ \A q \in Requests \ {r} : requests'[q] = requests[q]
  BY <1>5 DEF DriverTypeOK
<1>7. Extent(size) \in Nat \ {0} /\ b + Extent(size) <= PAGESIZE /\ b \in 0 .. PAGESIZE
  <2>1. Extent(size) \in Nat \ {0} /\ Headers < PAGESIZE /\ Headers \in Nat /\ PAGESIZE \in Nat
    BY NeedIs, Constants
  <2>2. CASE Need(size) = PAGESIZE
    BY <2>1, <2>2 DEF Extent
  <2>3. CASE Need(size) # PAGESIZE
    BY <2>1, <2>3 DEF Extent, Placed
  <2> QED BY <2>1, <2>2, <2>3
<1>8. DriverTypeOK'
  <2>1. pool' \in Pool
    BY DEF HeapIs, TakenFrom, HeapType
  <2>2. requests' \in [Requests -> [used : BOOLEAN, size : Sizes \cup {0},
                                    page : Page, offset : 0 .. PAGESIZE]]
    <3>1. new \in [used : BOOLEAN, size : Sizes \cup {0}, page : Page, offset : 0 .. PAGESIZE]
      BY <1>2, <1>3, <1>7
    <3> QED BY <1>5, <3>1 DEF DriverTypeOK
  <2> QED BY <1>5, <2>1, <2>2 DEF DriverTypeOK
<1>9. RequestInv'
  BY <1>4, <1>6 DEF RequestInv
<1>10. Live' = Live \cup {r} /\ r \notin Live
  BY <1>4, <1>6 DEF Live
<1>11. LiveOn(p)' = LiveOn(p) \cup {r} /\ r \notin LiveOn(p)
  BY <1>4, <1>6, <1>10 DEF LiveOn, Live
<1>12. ASSUME NEW q \in Page \ {p} PROVE LiveOn(q)' = LiveOn(q)
  BY <1>4, <1>6, <1>10 DEF LiveOn, Live
<1>13. ASSUME NEW x \in Live PROVE requests'[x] = requests[x] /\ x # r /\ x \in Live'
  BY <1>6, <1>10 DEF Live
<1>14. LiveInv'
  <2>0. new.offset = b /\ new.size = size /\ InPlace(new)
    BY <1>4 DEF InPlace
  <2>1. ASSUME NEW q \in Live, requests[q].page = p PROVE MemoryApart(new, requests[q])
    <3>1. q \in LiveOn(p)
      BY <2>1 DEF LiveOn
    <3> QED BY <2>0, <3>1 DEF MemoryApart
  <2>2. ASSUME NEW x \in Live' PROVE InPlace(requests'[x])
    BY <1>6, <1>10, <1>13, <2>0 DEF LiveInv
  <2>3. ASSUME NEW x \in Live', NEW q \in Live', x # q, requests'[x].page = requests'[q].page
        PROVE  MemoryApart(requests'[x], requests'[q])
    <3>1. CASE x = r
      <4>1. q \in Live /\ requests'[q] = requests[q]
        BY <1>10, <1>13, <2>3, <3>1
      <4> QED BY <1>4, <1>6, <2>1, <2>3, <3>1, <4>1
    <3>2. CASE q = r
      <4>1. x \in Live /\ requests'[x] = requests[x]
        BY <1>10, <1>13, <2>3, <3>2
      <4>2. MemoryApart(new, requests[x])
        BY <1>4, <1>6, <2>1, <2>3, <3>2, <4>1
      <4> QED BY <1>6, <3>2, <4>1, <4>2, ApartSymmetric DEF MemoryApart
    <3>3. CASE x # r /\ q # r
      <4>1. x \in Live /\ requests'[x] = requests[x] /\ q \in Live /\ requests'[q] = requests[q]
        BY <1>10, <1>13, <3>3
      <4> QED BY <2>3, <4>1 DEF LiveInv
    <3> QED BY <3>1, <3>2, <3>3
  <2> QED BY <2>2, <2>3 DEF LiveInv
<1>15. /\ n \in HeapType /\ n.pages = k.pages /\ n.pool = k.pool
       /\ \A q \in Page \ {p} : n.header[q] = k.header[q]
       /\ n.header[p].used = k.header[p].used + 1
       /\ FreeOK(n.header[p].free)
       /\ StayClear(k.header[p].free, n.header[p].free)
       /\ Clear(n.header[p].free, b, Extent(size))
  BY DEF TakenFrom
<1>16. pages' = n.pages /\ header' = n.header /\ pool' = n.pool
  BY DEF HeapIs
<1>17. HeapTypeOK(Heap)'
  <2>1. /\ n.pages \in Seq(Page) /\ n.header \in [Page -> [used : Nat, free : Lists]] /\ n.pool \in Pool
    BY <1>15 DEF HeapType
  <2>2. Heap' \in [pages : Seq(Page), header : [Page -> [used : Nat, free : Lists]], pool : Pool]
    BY <1>16, <2>1 DEF Heap
  <2>3. \A i, j \in DOMAIN pages' : pages'[i] = pages'[j] => i = j
    BY <1>1, <1>15, <1>16
  <2>4. PoolMatches(pool', Range(pages'))
    BY <1>1, <1>15, <1>16
  <2> QED BY <2>2, <2>3, <2>4, HeapIsHeap DEF HeapTypeOK, Lists
<1>18. ASSUME NEW q \in Page
       PROVE  /\ IsFiniteSet(LiveOn(q)') /\ header'[q].used = Cardinality(LiveOn(q)')
              /\ FreeOK(header'[q].free)
  <2>1. IsFiniteSet(LiveOn(q)) /\ k.header[q].used = Cardinality(LiveOn(q)) /\ FreeOK(k.header[q].free)
    BY DEF HeapOK
  <2>2. CASE q = p
    <3>1. IsFiniteSet(LiveOn(p)) /\ k.header[p].used = Cardinality(LiveOn(p))
      BY <2>1, <2>2
    <3>2. IsFiniteSet(LiveOn(p) \cup {r}) /\ Cardinality(LiveOn(p) \cup {r}) = Cardinality(LiveOn(p)) + 1
      BY <1>11, <3>1, FS_AddElement
    <3> QED BY <1>11, <1>15, <1>16, <2>2, <3>1, <3>2
  <2>3. CASE q # p
    BY <1>12, <1>15, <1>16, <2>1, <2>3
  <2> QED BY <2>2, <2>3
<1>19. ASSUME NEW q \in Range(k.pages) PROVE Clear(header'[q].free, 0, Headers)
  <2>1. Clear(k.header[q].free, 0, Headers) /\ q \in Page
    BY <1>1 DEF HeapOK, HeapType, Range
  <2>2. CASE q = p
    BY <1>15, <1>16, <2>1, <2>2, Constants DEF StayClear
  <2>3. CASE q # p
    BY <1>15, <1>16, <2>1, <2>3
  <2> QED BY <2>2, <2>3
<1>20. ASSUME NEW x \in Live'
       PROVE  /\ requests'[x].page \in Range(k.pages)
              /\ Clear(header'[requests'[x].page].free, requests'[x].offset, Extent(requests'[x].size))
  <2>1. CASE x = r
    BY <1>4, <1>6, <1>15, <1>16, <2>1
  <2>2. CASE x # r
    <3>1. x \in Live /\ requests'[x] = requests[x]
      BY <1>10, <1>13, <2>2
    <3>2. PICK q, a, m : q = requests[x].page /\ a = requests[x].offset /\ m = Extent(requests[x].size)
      OBVIOUS
    <3>3. q \in Range(k.pages) /\ Clear(k.header[q].free, a, m)
      BY <3>1, <3>2 DEF HeapOK
    <3>4. a \in Nat /\ m \in Nat \ {0} /\ q \in Page
      BY <3>1, <3>2, LiveIs
    <3>5. Clear(n.header[q].free, a, m)
      <4>1. CASE q = p
        BY <1>15, <3>3, <3>4, <4>1 DEF StayClear
      <4>2. CASE q # p
        BY <1>15, <3>3, <3>4, <4>2
      <4> QED BY <4>1, <4>2
    <3> QED BY <1>16, <3>1, <3>2, <3>3, <3>5
  <2> QED BY <2>1, <2>2
<1>21. HeapOK(Heap)'
  <2>1. \A q \in Range(pages') : Clear(header'[q].free, 0, Headers)
    BY <1>15, <1>16, <1>19
  <2>2. \A x \in Live' : /\ requests'[x].page \in Range(pages')
                         /\ Clear(header'[requests'[x].page].free, requests'[x].offset,
                                  Extent(requests'[x].size))
    BY <1>15, <1>16, <1>20
  <2> QED BY <1>17, <1>18, <2>1, <2>2, HeapIsHeap DEF HeapOK
<1>22. BusyInv(Heap)'
  BY <1>16, HeapIsHeap DEF BusyInv
<1> QED BY <1>8, <1>9, <1>14, <1>21, <1>22 DEF IInv

\* The page list before kma_malloc looks for a block.
LEMMA FirstPageKeeps ==
    ASSUME IInv
    PROVE  HeapOK(WithFirstPage(Heap)) /\ BusyInv(WithFirstPage(Heap))
<1>1. HeapOK(Heap) /\ BusyInv(Heap)
  BY DEF IInv
<1>2. CASE Heap.pages # <<>>
  BY <1>1, <1>2 DEF WithFirstPage
<1>3. CASE Heap.pages = <<>>
  <2>1. PICK block : block = round_up(REALSIZE(PageHeader))
    OBVIOUS
  <2>2. block \in Buffers /\ Headers <= block /\ block < PAGESIZE
    BY <2>1, FirstBlocks
  <2>3. ~Exhausted(Heap.pool)
    <3>1. PoolMatches(Heap.pool, Range(Heap.pages))
      BY <1>1, HeapTyped DEF HeapOK
    <3>2. Range(Heap.pages) = {}
      BY <1>3 DEF Range
    <3>3. Heap.pool = NoPool
      BY <3>1, <3>2 DEF PoolMatches
    <3>4. FreePages(Heap.pool) = initPages
      BY <3>3 DEF FreePages, NoPool
    <3>5. initPages # <<>>
      BY PoolAssumption DEF initPages
    <3> QED BY <3>4, <3>5 DEF Exhausted
  <2>4. PICK n : n = AddPage(Heap, block)
    OBVIOUS
  <2>5. HeapOK(n) /\ n.pages = Append(Heap.pages, NextPage(Heap.pool))
    BY <1>1, <2>2, <2>3, <2>4, AddPageKeeps
  <2>6. DOMAIN n.pages = {1}
    BY <1>3, <2>5
  <2>7. BusyInv(n)
    BY <2>6 DEF BusyInv
  <2>8. WithFirstPage(Heap) = n
    BY <1>3, <2>1, <2>4 DEF WithFirstPage
  <2> QED BY <2>5, <2>7, <2>8
<1> QED BY <1>2, <1>3

\* Taking a block and handing it out.
LEMMA TakeGrants ==
    ASSUME DriverTypeOK, RequestInv, LiveInv,
           NEW r \in Requests, ~requests[r].used, NEW size \in Sizes, ~TooBig(size),
           NEW k, HeapOK(k), Fitting(k, Need(size)) # {}, BusyInv(Take(k, Need(size))),
           HeapIs(Take(k, Need(size))),
           Grant(r, size, BestPage(k, Need(size)), Taken(k, Need(size)))
    PROVE  IInv'
<1>1. PICK need : need = Need(size)
  OBVIOUS
<1>2. /\ need \in Buffers /\ need \in Nat \ {0}
      /\ need # PAGESIZE => Extent(size) = need
  BY <1>1, NeedIs
<1>3. PICK p, b, n : p = BestPage(k, need) /\ b = Taken(k, need) /\ n = Take(k, need)
  OBVIOUS
<1>4. /\ TakenFrom(k, n, p, b, need)
      /\ p \in Range(k.pages) /\ p \in Page /\ b \in Nat /\ Placed(b, need)
      /\ \A a \in Nat, m \in Nat : Clear(k.header[p].free, a, m) => Apart(b, need, a, m)
  BY <1>1, <1>2, <1>3, TakeKeeps
<1>5. b >= Headers
  <2>1. Clear(k.header[p].free, 0, Headers) /\ Headers \in Nat
    BY <1>4, Constants DEF HeapOK
  <2>2. Apart(b, need, 0, Headers)
    BY <1>4, <2>1
  <2> QED BY <1>2, <1>4, <2>1, <2>2 DEF Apart
<1>6. need # PAGESIZE
  BY <1>2, <1>4, <1>5, Constants DEF Placed
<1>7. ASSUME NEW q \in LiveOn(p)
      PROVE  Apart(b, Extent(size), requests[q].offset, Extent(requests[q].size))
  <2>1. q \in Live /\ requests[q].page = p
    BY DEF LiveOn
  <2>2. PICK a, m : a = requests[q].offset /\ m = Extent(requests[q].size)
    OBVIOUS
  <2>3. Clear(k.header[p].free, a, m)
    BY <2>1, <2>2 DEF HeapOK
  <2>4. a \in Nat /\ m \in Nat
    BY <2>1, <2>2, LiveIs
  <2> QED BY <1>2, <1>4, <1>6, <2>2, <2>3, <2>4
<1>8. Extent(size) = need /\ Need(size) # PAGESIZE /\ Placed(b, Need(size))
  BY <1>1, <1>2, <1>4, <1>6
<1>9. TakenFrom(k, n, p, b, Extent(size))
  BY <1>4, <1>8
<1>10. BusyInv(n) /\ HeapIs(n) /\ Grant(r, size, p, b)
  BY <1>1, <1>3
<1> QED BY <1>4, <1>5, <1>7, <1>8, <1>9, <1>10, GrantKeeps

LEMMA AllocateBlockKeeps ==
    ASSUME IInv, NEW r \in Requests, ~requests[r].used, NEW size \in Sizes, ~TooBig(size),
           AllocateBlock(r, size)
    PROVE  IInv'
<1>1. PICK k : k = WithFirstPage(Heap)
  OBVIOUS
<1>2. HeapOK(k) /\ BusyInv(k)
  BY <1>1, FirstPageKeeps
<1>3. PICK need : need = Need(size)
  OBVIOUS
<1>4. /\ Fitting(k, need) # {} /\ HeapIs(Take(k, need))
      /\ Grant(r, size, BestPage(k, need), Taken(k, need))
  BY <1>1, <1>3 DEF AllocateBlock
<1>5. need \in Buffers
  BY <1>3, NeedIs
<1>6. PICK p, b, n : p = BestPage(k, need) /\ b = Taken(k, need) /\ n = Take(k, need)
  OBVIOUS
<1>7. TakenFrom(k, n, p, b, need) /\ p \in Page
  BY <1>2, <1>4, <1>5, <1>6, TakeKeeps
<1>8. BusyInv(n)
  <2>1. k \in HeapType
    BY <1>2, HeapTyped DEF HeapOK
  <2> SUFFICES ASSUME NEW i \in DOMAIN k.pages, i > 1 PROVE n.header[k.pages[i]].used > 0
    BY <1>7 DEF BusyInv, TakenFrom
  <2>2. k.pages[i] \in Page /\ k.header[k.pages[i]].used > 0 /\ k.header[k.pages[i]].used \in Nat
    BY <1>2, <2>1 DEF BusyInv, HeapType
  <2>3. CASE k.pages[i] = p
    BY <1>7, <2>2, <2>3 DEF TakenFrom
  <2>4. CASE k.pages[i] # p
    BY <1>7, <2>2, <2>4 DEF TakenFrom
  <2> QED BY <2>3, <2>4
<1> QED BY <1>2, <1>3, <1>4, <1>6, <1>8, TakeGrants DEF IInv

LEMMA AllocateOnNewPageKeeps ==
    ASSUME IInv, NEW r \in Requests, ~requests[r].used, NEW size \in Sizes, ~TooBig(size),
           AllocateOnNewPage(r, size)
    PROVE  IInv'
<1>1. PICK k : k = WithFirstPage(Heap)
  OBVIOUS
<1>2. HeapOK(k) /\ BusyInv(k)
  BY <1>1, FirstPageKeeps
<1>3. PICK need : need = Need(size)
  OBVIOUS
<1>4. PICK x : x = WithNewPage(k)
  OBVIOUS
<1>5. /\ Fitting(k, need) = {} /\ need < PAGESIZE /\ ~Exhausted(k.pool)
      /\ HeapIs(Take(x, need)) /\ Grant(r, size, BestPage(x, need), Taken(x, need))
  BY <1>1, <1>3, <1>4 DEF AllocateOnNewPage
<1>6. need \in Buffers
  BY <1>3, NeedIs
<1>7. PICK block : block = round_up(PageHeader)
  OBVIOUS
<1>8. block \in Buffers /\ Headers <= block /\ block < PAGESIZE
  BY <1>7, FirstBlocks
<1>9. PICK new : new = NextPage(k.pool)
  OBVIOUS
<1>10. /\ HeapOK(x) /\ new \in Page \ Range(k.pages)
       /\ x.pages = Append(k.pages, new)
       /\ \A q \in Page \ {new} : x.header[q] = k.header[q]
       /\ x.header[new].used = 0 /\ x.header[new].free[Half] # <<>>
  BY <1>2, <1>4, <1>5, <1>7, <1>8, <1>9, AddPageKeeps DEF WithNewPage
<1>11. k \in HeapType /\ x \in HeapType /\ HeapTypeOK(x)
  BY <1>2, <1>10, HeapTyped DEF HeapOK
<1>12. PICK m \in Nat :
         /\ DOMAIN x.pages = 1 .. m + 1 /\ DOMAIN k.pages = 1 .. m
         /\ \A i \in 1 .. m : x.pages[i] = k.pages[i]
         /\ x.pages[m + 1] = new
  <2>1. k.pages \in Seq(Page) /\ new \in Page
    BY <1>10, <1>11 DEF HeapType
  <2>2. /\ Len(k.pages) \in Nat /\ DOMAIN Append(k.pages, new) = 1 .. Len(k.pages) + 1
        /\ DOMAIN k.pages = 1 .. Len(k.pages)
    BY <2>1, AppendIs
  <2>3. /\ \A i \in 1 .. Len(k.pages) : Append(k.pages, new)[i] = k.pages[i]
        /\ Append(k.pages, new)[Len(k.pages) + 1] = new
    BY <2>1, AppendIs
  <2> QED BY <1>10, <2>2, <2>3
<1>13. Fitting(x, need) # {}
  <2>1. new \in Range(x.pages)
    BY <1>12 DEF Range
  <2>2. Half \in Buffers /\ need <= Half /\ Half \in Nat /\ need \in Nat
    BY <1>5, <1>6, HalfIs, BuffersAre
  <2>3. Half >= need
    BY <2>2
  <2>4. Half \in Fitting(x, need)
    BY <1>10, <2>1, <2>2, <2>3 DEF Fitting
  <2> QED BY <2>4
<1>14. PICK s, p, b, n : /\ s = BestSize(x, need) /\ p = BestPage(x, need)
                        /\ b = Taken(x, need) /\ n = Take(x, need)
  OBVIOUS
<1>15. TakenFrom(x, n, p, b, need) /\ p \in Range(x.pages) /\ p \in Page
  BY <1>6, <1>10, <1>13, <1>14, TakeKeeps
\* No page had a block that is large enough, so it is the new one that has it.
<1>16. p = new
  <2> SUFFICES ASSUME p # new PROVE FALSE
    OBVIOUS
  <2>1. Picked(x, need, s, p, b)
    BY <1>6, <1>11, <1>13, <1>14, BestIs
  <2>2. s \in Buffers /\ s >= need /\ k.header[p].free[s] # <<>>
    <3>1. need \in Nat /\ s \in Nat
      BY <1>6, <2>1, BuffersAre DEF Picked
    <3> QED BY <1>10, <1>15, <2>1, <3>1 DEF Picked
  <2>3. p \in Range(k.pages)
    <3>1. PICK i \in 1 .. m + 1 : p = x.pages[i]
      BY <1>12, <1>15 DEF Range
    <3>2. i \in 1 .. m
      BY <1>12, <3>1
    <3> QED BY <1>12, <3>1, <3>2 DEF Range
  <2>4. s \in Fitting(k, need)
    BY <2>2, <2>3 DEF Fitting
  <2> QED BY <1>5, <2>4
<1>17. BusyInv(n)
  <2> SUFFICES ASSUME NEW i \in 1 .. m + 1, i > 1 PROVE n.header[x.pages[i]].used > 0
    BY <1>12, <1>15 DEF BusyInv, TakenFrom
  <2>1. CASE i = m + 1
    BY <1>10, <1>12, <1>15, <1>16, <2>1 DEF TakenFrom
  <2>2. CASE i # m + 1
    <3>1. i \in 1 .. m /\ i \in DOMAIN k.pages
      BY <1>12, <2>2
    <3>2. k.pages[i] \in Range(k.pages) /\ k.pages[i] \in Page \ {new}
      BY <1>10, <1>11, <3>1 DEF Range, HeapType
    <3>3. k.header[k.pages[i]].used > 0
      BY <1>2, <3>1 DEF BusyInv
    <3> QED BY <1>10, <1>12, <1>15, <1>16, <3>1, <3>2, <3>3 DEF TakenFrom
  <2> QED BY <2>1, <2>2
<1> QED BY <1>3, <1>5, <1>10, <1>13, <1>14, <1>17, TakeGrants DEF IInv

LEMMA AllocateWholePageKeeps ==
    ASSUME IInv, NEW r \in Requests, ~requests[r].used, NEW size \in Sizes, ~TooBig(size),
           AllocateWholePage(r, size)
    PROVE  IInv'
<1>1. PICK k : k = WithFirstPage(Heap)
  OBVIOUS
<1>2. HeapOK(k) /\ BusyInv(k)
  BY <1>1, FirstPageKeeps
<1>3. PICK x, p : x = WithNewPage(k) /\ p = Last(x.pages)
  OBVIOUS
<1>4. PICK full : full = [used |-> x.header[p].used + 1, free |-> EmptyLists]
  OBVIOUS
<1>5. PICK n : n = [x EXCEPT !.header = [x.header EXCEPT ![p] = full]]
  OBVIOUS
<1>6. /\ Need(size) = PAGESIZE /\ ~Exhausted(k.pool) /\ HeapIs(n)
      /\ Grant(r, size, p, Headers)
  BY <1>1, <1>3, <1>4, <1>5 DEF AllocateWholePage, Headers
<1>7. PICK block : block = round_up(PageHeader)
  OBVIOUS
<1>8. block \in Buffers /\ Headers <= block /\ block < PAGESIZE
  BY <1>7, FirstBlocks
<1>9. PICK new : new = NextPage(k.pool)
  OBVIOUS
<1>10. /\ HeapOK(x) /\ new \in Page \ Range(k.pages)
       /\ x.pages = Append(k.pages, new) /\ LiveOn(new) = {}
       /\ \A q \in Page \ {new} : x.header[q] = k.header[q]
       /\ x.header[new].used = 0
  BY <1>2, <1>3, <1>6, <1>7, <1>8, <1>9, AddPageKeeps DEF WithNewPage
<1>11. k \in HeapType /\ x \in HeapType
  BY <1>2, <1>10, HeapTyped DEF HeapOK
<1>12. PICK m \in Nat :
         /\ DOMAIN x.pages = 1 .. m + 1 /\ DOMAIN k.pages = 1 .. m
         /\ \A i \in 1 .. m : x.pages[i] = k.pages[i]
         /\ x.pages[m + 1] = new /\ p = new
  <2>1. k.pages \in Seq(Page) /\ new \in Page
    BY <1>10, <1>11 DEF HeapType
  <2>2. /\ Len(k.pages) \in Nat /\ DOMAIN Append(k.pages, new) = 1 .. Len(k.pages) + 1
        /\ DOMAIN k.pages = 1 .. Len(k.pages)
    BY <2>1, AppendIs
  <2>3. /\ \A i \in 1 .. Len(k.pages) : Append(k.pages, new)[i] = k.pages[i]
        /\ Append(k.pages, new)[Len(k.pages) + 1] = new
    BY <2>1, AppendIs
  <2>4. Last(Append(k.pages, new)) = new
    BY <2>1, AppendIs
  <2> QED BY <1>3, <1>10, <2>2, <2>3, <2>4
<1>13. p \in Range(x.pages) /\ p \in Page
  <2>1. m + 1 \in DOMAIN x.pages
    BY <1>12
  <2> QED BY <1>10, <1>12, <2>1 DEF Range
<1>14. EmptyLists \in Lists /\ \A t \in Buffers : EmptyLists[t] = <<>> /\ Range(EmptyLists[t]) = {}
  <2>1. <<>> \in Seq(Nat) /\ Range(<<>>) = {}
    BY DEF Range
  <2> QED BY <2>1 DEF EmptyLists, Lists
<1>15. FreeOK(EmptyLists) /\ \A a, z \in Nat : Clear(EmptyLists, a, z)
  <2>1. Ordered(<<>>)
    BY DEF Ordered
  <2>2. FreeOK(EmptyLists)
    BY <1>14, <2>1 DEF FreeOK, Lists
  <2>3. \A a, z \in Nat : Clear(EmptyLists, a, z)
    BY <1>14 DEF Clear
  <2> QED BY <2>2, <2>3
<1>16. /\ full.used = x.header[p].used + 1 /\ full.free = EmptyLists
       /\ full \in [used : Nat, free : Lists]
  BY <1>4, <1>11, <1>13, <1>14 DEF HeapType
<1>17. PICK hd : hd = [x.header EXCEPT ![p] = full]
  OBVIOUS
<1>18. /\ hd \in [Page -> [used : Nat, free : Lists]] /\ hd[p] = full
       /\ \A q \in Page \ {p} : hd[q] = x.header[q]
  BY <1>11, <1>13, <1>16, <1>17 DEF HeapType
<1>19. n \in HeapType /\ n.pages = x.pages /\ n.pool = x.pool /\ n.header = hd
  BY <1>5, <1>11, <1>17, <1>18 DEF HeapType
<1>20. /\ Extent(size) \in Nat \ {0} /\ Headers \in Nat /\ Headers >= Headers
  BY NeedIs, Constants
<1>21. TakenFrom(x, n, p, Headers, Extent(size))
  <2>1. StayClear(x.header[p].free, EmptyLists)
    BY <1>15 DEF StayClear
  <2>2. Clear(EmptyLists, Headers, Extent(size))
    BY <1>15, <1>20
  <2> QED BY <1>15, <1>16, <1>18, <1>19, <2>1, <2>2 DEF TakenFrom
<1>22. BusyInv(n)
  <2> SUFFICES ASSUME NEW i \in 1 .. m + 1, i > 1 PROVE hd[x.pages[i]].used > 0
    BY <1>12, <1>19 DEF BusyInv
  <2>1. CASE i = m + 1
    BY <1>10, <1>12, <1>16, <1>18, <2>1
  <2>2. CASE i # m + 1
    <3>1. i \in 1 .. m /\ i \in DOMAIN k.pages
      BY <1>12, <2>2
    <3>2. k.pages[i] \in Range(k.pages) /\ k.pages[i] \in Page \ {new}
      BY <1>10, <1>11, <3>1 DEF Range, HeapType
    <3>3. k.header[k.pages[i]].used > 0
      BY <1>2, <3>1 DEF BusyInv
    <3> QED BY <1>10, <1>12, <1>18, <3>1, <3>2, <3>3
  <2> QED BY <2>1, <2>2
<1>23. \A q \in LiveOn(p) : Apart(Headers, Extent(size), requests[q].offset, Extent(requests[q].size))
  BY <1>10, <1>12
<1>24. IF Need(size) = PAGESIZE THEN Headers = Headers ELSE Placed(Headers, Need(size))
  BY <1>6
<1> QED BY <1>6, <1>10, <1>13, <1>20, <1>21, <1>22, <1>23, <1>24, GrantKeeps DEF IInv

\* No page, no request.
NothingHeld ==
    /\ DriverTypeOK /\ RequestInv /\ Live = {}
    /\ Heap = [pages |-> <<>>, header |-> [p \in Page |-> NoHeader], pool |-> NoPool]

LEMMA NothingHeldOK == NothingHeld => IInv
<1> SUFFICES ASSUME NothingHeld PROVE IInv
  OBVIOUS
<1>0. /\ DriverTypeOK /\ RequestInv /\ Live = {}
      /\ Heap = [pages |-> <<>>, header |-> [p \in Page |-> NoHeader], pool |-> NoPool]
  BY DEF NothingHeld
<1>1. Heap.pages = <<>> /\ Heap.header = [p \in Page |-> NoHeader] /\ Heap.pool = NoPool
  BY <1>0
<1>2. EmptyLists \in Lists /\ \A t \in Buffers : EmptyLists[t] = <<>> /\ Range(EmptyLists[t]) = {}
  <2>1. <<>> \in Seq(Nat) /\ Range(<<>>) = {}
    BY DEF Range
  <2> QED BY <2>1 DEF EmptyLists, Lists
<1>3. FreeOK(EmptyLists)
  <2>1. Ordered(<<>>)
    BY DEF Ordered
  <2> QED BY <1>2, <2>1 DEF FreeOK, Lists
<1>4. NoHeader.used = 0 /\ NoHeader.free = EmptyLists /\ NoHeader \in [used : Nat, free : Lists]
  BY <1>2 DEF NoHeader
<1>5. PICK hd : hd = [p \in Page |-> NoHeader]
  OBVIOUS
<1>6. hd \in [Page -> [used : Nat, free : Lists]] /\ \A p \in Page : hd[p] = NoHeader
  BY <1>4, <1>5
<1>7. NoPool \in Pool /\ PoolMatches(NoPool, {}) /\ Range(<<>>) = {} /\ DOMAIN <<>> = {} /\ <<>> \in Seq(Page)
  BY NoPoolMatches DEF PoolMatches, Range
<1>8. HeapTypeOK(Heap)
  <2>1. Heap \in [pages : Seq(Page), header : [Page -> [used : Nat, free : Lists]], pool : Pool]
    BY <1>0, <1>5, <1>6, <1>7
  <2> QED BY <1>1, <1>7, <2>1 DEF HeapTypeOK, Lists
<1>9. \A p \in Page : /\ IsFiniteSet(LiveOn(p)) /\ Heap.header[p].used = Cardinality(LiveOn(p))
                      /\ FreeOK(Heap.header[p].free)
  <2>1. \A p \in Page : LiveOn(p) = {}
    BY <1>0 DEF LiveOn
  <2> QED BY <1>1, <1>3, <1>4, <1>5, <1>6, <2>1, FS_EmptySet
<1>10. HeapOK(Heap)
  BY <1>0, <1>1, <1>7, <1>8, <1>9 DEF HeapOK
<1>11. LiveInv
  BY <1>0 DEF LiveInv
<1>12. BusyInv(Heap)
  BY <1>1, <1>7 DEF BusyInv
<1> QED BY <1>0, <1>10, <1>11, <1>12 DEF IInv

LEMMA NothingHeldIs ==
    ASSUME NEW f, f = [r \in Requests |-> Unused]
    PROVE  /\ f \in [Requests -> [used : BOOLEAN, size : Sizes \cup {0}, page : Page, offset : 0 .. PAGESIZE]]
           /\ \A r \in Requests : f[r] = Unused /\ ~f[r].used
<1>1. 0 \in Page /\ 0 \in 0 .. PAGESIZE
  BY PoolAssumption DEF Page
<1>2. Unused \in [used : BOOLEAN, size : Sizes \cup {0}, page : Page, offset : 0 .. PAGESIZE]
  BY <1>1 DEF Unused
<1>3. ~Unused.used
  BY DEF Unused
<1> QED BY <1>2, <1>3

\* The process ends.
LEMMA ExitKeeps ==
    ASSUME NEW v \in Verdict, Ends(v), pages' = <<>>, header' = [p \in Page |-> NoHeader]
    PROVE  IInv'
<1>1. verdict' = v /\ pool' = NoPool /\ requests' = [r \in Requests |-> Unused]
  BY DEF Ends
<1>2. /\ requests' \in [Requests -> [used : BOOLEAN, size : Sizes \cup {0}, page : Page, offset : 0 .. PAGESIZE]]
      /\ \A r \in Requests : requests'[r] = Unused /\ ~requests'[r].used
  BY <1>1, NothingHeldIs
<1>3. NoPool \in Pool
  BY NoPoolMatches DEF PoolMatches
<1>4. DriverTypeOK' /\ RequestInv' /\ Live' = {}
  BY <1>1, <1>2, <1>3 DEF DriverTypeOK, RequestInv, Live
<1>5. NothingHeld'
  BY <1>1, <1>4 DEF NothingHeld, Heap
<1>6. (NothingHeld => IInv)'
  BY NothingHeldOK, PTL
<1> QED BY <1>5, <1>6

LEMMA InitOK == Init => IInv
<1> SUFFICES ASSUME Init PROVE IInv
  OBVIOUS
<1>1. /\ pages = <<>> /\ header = [p \in Page |-> NoHeader] /\ pool = NoPool
      /\ requests = [r \in Requests |-> Unused] /\ verdict = "running"
  BY DEF Init, DriverInit
<1>2. /\ requests \in [Requests -> [used : BOOLEAN, size : Sizes \cup {0}, page : Page, offset : 0 .. PAGESIZE]]
      /\ \A r \in Requests : requests[r] = Unused /\ ~requests[r].used
  BY <1>1, NothingHeldIs
<1>3. NoPool \in Pool
  BY NoPoolMatches DEF PoolMatches
<1>4. DriverTypeOK /\ RequestInv /\ Live = {}
  BY <1>1, <1>2, <1>3 DEF DriverTypeOK, RequestInv, Live, Verdict
<1>5. NothingHeld
  BY <1>1, <1>4 DEF NothingHeld, Heap
<1> QED BY <1>5, NothingHeldOK

\* A request goes, and its page keeps what the other requests on it have.
LEMMA ReleaseKeeps ==
    ASSUME IInv, NEW r \in Live, NEW p, p = requests[r].page,
           NEW n, HeapTypeOK(n), BusyInv(n),
           \A q \in Page \ {p} : n.header[q] = header[q],
           n.header[p].used = header[p].used - 1, FreeOK(n.header[p].free),
           Range(pages) \ {p} \subseteq Range(n.pages), Range(n.pages) \subseteq Range(pages),
           p \in Range(n.pages) \/ LiveOn(p) = {r},
           p \in Range(n.pages) => Clear(n.header[p].free, 0, Headers),
           \A q \in LiveOn(p) \ {r} :
              Clear(n.header[p].free, requests[q].offset, Extent(requests[q].size)),
           HeapIs(n), requests' = [requests EXCEPT ![r] = Unused], verdict' = verdict
    PROVE  IInv'
<1>1. HeapOK(Heap) /\ BusyInv(Heap) /\ DriverTypeOK /\ RequestInv /\ LiveInv
  BY DEF IInv
<1>2. r \in Requests /\ p \in Page
  BY <1>1, LiveIs
<1>3. requests'[r] = Unused /\ \A q \in Requests \ {r} : requests'[q] = requests[q]
  BY <1>1, <1>2 DEF DriverTypeOK
<1>4. Live' = Live \ {r}
  BY <1>2, <1>3 DEF Live, Unused
<1>5. ASSUME NEW x \in Live' PROVE requests'[x] = requests[x] /\ x \in Live /\ x # r
  BY <1>3, <1>4 DEF Live
<1>6. LiveOn(p)' = LiveOn(p) \ {r} /\ r \in LiveOn(p)
  BY <1>4, <1>5 DEF LiveOn
<1>7. ASSUME NEW q \in Page \ {p} PROVE LiveOn(q)' = LiveOn(q)
  <2>1. r \notin LiveOn(q)
    BY DEF LiveOn
  <2> QED BY <1>4, <1>5, <2>1 DEF LiveOn
<1>8. DriverTypeOK'
  <2>1. PICK f : f = [x \in Requests |-> Unused]
    OBVIOUS
  <2>2. Unused \in [used : BOOLEAN, size : Sizes \cup {0}, page : Page, offset : 0 .. PAGESIZE]
    BY <1>2, <2>1, NothingHeldIs
  <2>3. pool' \in Pool
    BY HeapTyped DEF HeapIs, HeapType
  <2> QED BY <1>1, <2>2, <2>3 DEF DriverTypeOK
<1>9. RequestInv'
  <2>1. \A x \in Requests : requests[x].used \/ requests[x] = Unused
    BY <1>1 DEF RequestInv
  <2>2. \A x \in Requests : requests'[x].used \/ requests'[x] = Unused
    BY <1>3, <2>1
  <2> QED BY <2>2 DEF RequestInv
<1>10. LiveInv'
  <2>1. ASSUME NEW x \in Live' PROVE InPlace(requests'[x])
    BY <1>1, <1>5 DEF LiveInv
  <2>2. ASSUME NEW x \in Live', NEW q \in Live', x # q, requests'[x].page = requests'[q].page
        PROVE  MemoryApart(requests'[x], requests'[q])
    BY <1>1, <1>5, <2>2 DEF LiveInv
  <2> QED BY <2>1, <2>2 DEF LiveInv
<1>11. pages' = n.pages /\ header' = n.header /\ pool' = n.pool
  BY DEF HeapIs
<1>12. HeapTypeOK(Heap)'
  <2>1. n \in HeapType /\ PoolMatches(n.pool, Range(n.pages))
        /\ \A i, j \in DOMAIN n.pages : n.pages[i] = n.pages[j] => i = j
    BY HeapTyped
  <2>2. /\ n.pages \in Seq(Page) /\ n.header \in [Page -> [used : Nat, free : Lists]] /\ n.pool \in Pool
    BY <2>1 DEF HeapType
  <2>3. Heap' \in [pages : Seq(Page), header : [Page -> [used : Nat, free : Lists]], pool : Pool]
    BY <1>11, <2>2 DEF Heap
  <2> QED BY <1>11, <2>1, <2>3, HeapIsHeap DEF HeapTypeOK, Lists
<1>13. ASSUME NEW q \in Page
       PROVE  /\ IsFiniteSet(LiveOn(q)') /\ header'[q].used = Cardinality(LiveOn(q)')
              /\ FreeOK(header'[q].free)
  <2>1. IsFiniteSet(LiveOn(q)) /\ header[q].used = Cardinality(LiveOn(q)) /\ FreeOK(header[q].free)
    BY <1>1, HeapIsHeap DEF HeapOK
  <2>2. CASE q = p
    <3>1. IsFiniteSet(LiveOn(p)) /\ header[p].used = Cardinality(LiveOn(p))
      BY <2>1, <2>2
    <3>2. IsFiniteSet(LiveOn(p) \ {r}) /\ Cardinality(LiveOn(p) \ {r}) = Cardinality(LiveOn(p)) - 1
      BY <1>6, <3>1, FS_RemoveElement
    <3> QED BY <1>6, <1>11, <2>2, <3>1, <3>2
  <2>3. CASE q # p
    BY <1>7, <1>11, <2>1, <2>3
  <2> QED BY <2>2, <2>3
<1>14. ASSUME NEW q \in Range(n.pages) PROVE Clear(header'[q].free, 0, Headers)
  <2>1. CASE q = p
    BY <1>11, <2>1
  <2>2. CASE q # p
    <3>1. q \in Range(pages) /\ q \in Page
      <4>1. n.pages \in Seq(Page)
        BY HeapTyped DEF HeapType
      <4> QED BY <4>1, InRange
    <3>2. Clear(header[q].free, 0, Headers)
      BY <1>1, <3>1, HeapIsHeap DEF HeapOK
    <3> QED BY <1>11, <2>2, <3>1, <3>2
  <2> QED BY <2>1, <2>2
<1>15. ASSUME NEW x \in Live'
       PROVE  /\ requests'[x].page \in Range(n.pages)
              /\ Clear(header'[requests'[x].page].free, requests'[x].offset, Extent(requests'[x].size))
  <2>1. requests'[x] = requests[x] /\ x \in Live /\ x # r
    BY <1>5
  <2>2. PICK q, a, m : q = requests[x].page /\ a = requests[x].offset /\ m = Extent(requests[x].size)
    OBVIOUS
  <2>3. q \in Range(pages) /\ Clear(header[q].free, a, m) /\ q \in Page
    BY <1>1, <2>1, <2>2, LiveIs, HeapIsHeap DEF HeapOK
  <2>4. CASE q = p
    <3>1. x \in LiveOn(p) \ {r}
      BY <2>1, <2>2, <2>4 DEF LiveOn
    <3>2. Clear(n.header[p].free, a, m) /\ p \in Range(n.pages)
      BY <2>2, <3>1
    <3> QED BY <1>11, <2>1, <2>2, <2>4, <3>2
  <2>5. CASE q # p
    BY <1>11, <2>1, <2>2, <2>3, <2>5
  <2> QED BY <2>4, <2>5
<1>16. HeapOK(Heap)'
  <2>1. \A q \in Range(pages') : Clear(header'[q].free, 0, Headers)
    BY <1>11, <1>14
  <2>2. \A x \in Live' : /\ requests'[x].page \in Range(pages')
                         /\ Clear(header'[requests'[x].page].free, requests'[x].offset,
                                  Extent(requests'[x].size))
    BY <1>11, <1>15
  <2> QED BY <1>12, <1>13, <2>1, <2>2, HeapIsHeap DEF HeapOK
<1>17. BusyInv(Heap)'
  BY <1>11, HeapIsHeap DEF BusyInv
<1> QED BY <1>8, <1>9, <1>10, <1>16, <1>17 DEF IInv

LEMMA ClearShrinks ==
    ASSUME NEW free, FreeOK(free), NEW a \in Nat, NEW n \in Nat, NEW m \in Nat, m <= n, Clear(free, a, n)
    PROVE  Clear(free, a, m)
<1> SUFFICES ASSUME NEW s \in Buffers, NEW b \in Range(free[s]) PROVE Apart(b, s, a, m)
  BY DEF Clear
<1>1. Apart(b, s, a, n)
  BY DEF Clear
<1>2. b \in Nat /\ s \in Nat
  BY BuffersAre DEF FreeOK, Placed
<1> QED BY <1>1, <1>2 DEF Apart

\* A request that has more than half a page has its page to itself.
LEMMA WholePageAlone ==
    ASSUME DriverTypeOK, LiveInv, NEW r \in Live, Need(requests[r].size) = PAGESIZE
    PROVE  LiveOn(requests[r].page) = {r}
<1>1. ASSUME NEW q \in LiveOn(requests[r].page), q # r PROVE FALSE
  <2>1. q \in Live /\ requests[q].page = requests[r].page
    BY <1>1 DEF LiveOn
  <2>2. MemoryApart(requests[q], requests[r])
    BY <1>1, <2>1 DEF LiveInv
  <2>3. /\ requests[r].offset = Headers /\ Extent(requests[r].size) = PAGESIZE - Headers
        /\ requests[r].offset + Extent(requests[r].size) <= PAGESIZE
    BY LiveIs DEF Extent
  <2>4. PICK a, n : a = requests[q].offset /\ n = Extent(requests[q].size)
    OBVIOUS
  <2>5. a \in Nat /\ n \in Nat \ {0} /\ a >= Headers /\ a + n <= PAGESIZE
    BY <2>1, <2>4, LiveIs
  <2>6. a + n <= Headers \/ Headers + (PAGESIZE - Headers) <= a
    BY <2>2, <2>3, <2>4 DEF MemoryApart, Apart
  <2> QED BY <2>5, <2>6, Constants
<1> QED BY <1>1 DEF LiveOn

\* The heap before a request is freed.
LEMMA ReleasedIs ==
    ASSUME IInv, NEW r \in Live, NEW p, p = requests[r].page,
           NEW after, after = Released(p, requests[r].offset, requests[r].size)
    PROVE  /\ p \in Range(pages) /\ p \in Page /\ r \in LiveOn(p)
           /\ IsFiniteSet(LiveOn(p)) /\ header[p].used = Cardinality(LiveOn(p))
           /\ after.used = header[p].used - 1 /\ after.used \in Nat
           /\ after.used = 0 <=> LiveOn(p) = {r}
           /\ after = [used |-> after.used, free |-> after.free]
<1>1. HeapOK(Heap) /\ DriverTypeOK /\ LiveInv
  BY DEF IInv
<1>2. p \in Range(pages) /\ p \in Page /\ r \in LiveOn(p)
  BY <1>1, LiveIs, HeapIsHeap DEF HeapOK, LiveOn
<1>3. IsFiniteSet(LiveOn(p)) /\ header[p].used = Cardinality(LiveOn(p))
  BY <1>1, <1>2, HeapIsHeap DEF HeapOK
<1>4. after.used = header[p].used - 1 /\ after = [used |-> after.used, free |-> after.free]
  BY DEF Released
<1>5. IsFiniteSet(LiveOn(p) \ {r}) /\ Cardinality(LiveOn(p) \ {r}) = Cardinality(LiveOn(p)) - 1
  BY <1>2, <1>3, FS_RemoveElement
<1>6. Cardinality(LiveOn(p) \ {r}) \in Nat
  BY <1>5, FS_CardinalityType
<1>7. Cardinality(LiveOn(p) \ {r}) = 0 <=> LiveOn(p) \ {r} = {}
  BY <1>5, FS_EmptySet
<1>8. after.used = Cardinality(LiveOn(p) \ {r})
  BY <1>3, <1>4, <1>5
<1> QED BY <1>2, <1>3, <1>4, <1>6, <1>7, <1>8

LEMMA KeepPageKeeps ==
    ASSUME IInv, NEW r \in Live, NEW p, p = requests[r].page,
           NEW after, after = Released(p, requests[r].offset, requests[r].size),
           KeepPage(p, after), requests' = [requests EXCEPT ![r] = Unused], verdict' = verdict
    PROVE  IInv'
<1>1. HeapOK(Heap) /\ BusyInv(Heap) /\ DriverTypeOK /\ LiveInv
  BY DEF IInv
<1>2. /\ p \in Range(pages) /\ p \in Page /\ r \in LiveOn(p)
      /\ after.used = header[p].used - 1 /\ after.used \in Nat
      /\ after.used = 0 <=> LiveOn(p) = {r}
      /\ after = [used |-> after.used, free |-> after.free]
  BY ReleasedIs
<1>3. /\ after.used # 0 /\ header' = [header EXCEPT ![p] = after]
      /\ pages' = pages /\ pool' = pool
  BY DEF KeepPage
<1>4. PICK size, b, need : size = requests[r].size /\ b = requests[r].offset /\ need = Need(size)
  OBVIOUS
<1>5. /\ size \in Sizes /\ ~TooBig(size) /\ b \in Nat /\ b >= Headers
      /\ need # PAGESIZE => Placed(b, need)
  BY <1>1, <1>4, LiveIs
<1>6. need # PAGESIZE
  BY <1>1, <1>2, <1>3, <1>4, WholePageAlone
<1>7. /\ need \in Buffers /\ need \in Nat \ {0} /\ Extent(size) = need
      /\ size \in Nat /\ size <= PAGESIZE
      /\ round_up(size) <= need /\ round_up(size) \in Buffers
  BY <1>4, <1>5, <1>6, NeedIs
<1>8. PICK u : u = round_up(size) /\ u \in Nat \ {0} /\ u \in Buffers /\ u <= need
  BY <1>7, BuffersAre
<1>9. PICK free : free = header[p].free
  OBVIOUS
<1>10. FreeOK(free) /\ Clear(free, b, need) /\ Clear(free, 0, Headers)
  BY <1>1, <1>2, <1>4, <1>7, <1>9, HeapIsHeap DEF HeapOK
<1>11. Placed(b, u) /\ Clear(free, b, u)
  BY <1>5, <1>6, <1>7, <1>8, <1>10, PlacedSmaller, ClearShrinks
<1>12. PICK h : h = Link(free, b, size)
  OBVIOUS
<1>13. h \in FreeState /\ FreeOK(h.free) /\ ClearBut(free, h.free, b, u)
  BY <1>5, <1>7, <1>8, <1>10, <1>11, <1>12, LinkKeeps DEF FreeState
<1>14. PICK new : new = coalesce(h)
  OBVIOUS
<1>15. FreeOK(new) /\ StayClear(h.free, new)
  BY <1>13, <1>14, CoalesceKeeps
<1>16. after.free = new
  BY <1>4, <1>9, <1>12, <1>14 DEF Released
<1>17. ASSUME NEW a \in Nat, NEW n \in Nat \ {0}, Clear(free, a, n), Apart(b, need, a, n)
       PROVE  Clear(new, a, n)
  <2>1. Apart(b, u, a, n)
    BY <1>5, <1>7, <1>8, <1>17 DEF Apart
  <2>2. Clear(h.free, a, n)
    BY <1>13, <1>17, <2>1 DEF ClearBut
  <2> QED BY <1>15, <2>2 DEF StayClear
<1>18. Clear(new, 0, Headers)
  <2>1. Headers \in Nat \ {0} /\ Apart(b, need, 0, Headers)
    BY <1>5, <1>7, Constants DEF Apart
  <2> QED BY <1>10, <1>17, <2>1
<1>19. ASSUME NEW q \in LiveOn(p) \ {r}
       PROVE  Clear(new, requests[q].offset, Extent(requests[q].size))
  <2>1. q \in Live /\ requests[q].page = p /\ q # r
    BY DEF LiveOn
  <2>2. PICK a, n : a = requests[q].offset /\ n = Extent(requests[q].size)
    OBVIOUS
  <2>3. a \in Nat /\ n \in Nat \ {0} /\ Clear(free, a, n)
    BY <1>1, <1>9, <2>1, <2>2, LiveIs, HeapIsHeap DEF HeapOK
  <2>4. MemoryApart(requests[r], requests[q])
    BY <1>1, <2>1 DEF LiveInv
  <2>5. Apart(b, need, a, n)
    BY <1>4, <1>7, <2>2, <2>4 DEF MemoryApart
  <2> QED BY <1>17, <2>2, <2>3, <2>5
<1>20. HeapTypeOK(Heap) /\ Heap \in HeapType
  BY <1>1, HeapTyped DEF HeapOK
<1>21. header \in [Page -> [used : Nat, free : Lists]] /\ pages \in Seq(Page) /\ pool \in Pool
  BY <1>20, HeapIsHeap DEF HeapType
<1>22. PICK hd : hd = [header EXCEPT ![p] = after]
  OBVIOUS
<1>23. /\ hd \in [Page -> [used : Nat, free : Lists]] /\ hd[p] = after
       /\ \A q \in Page \ {p} : hd[q] = header[q]
  <2>1. after \in [used : Nat, free : Lists]
    BY <1>2, <1>15, <1>16 DEF FreeOK, Lists
  <2> QED BY <1>2, <1>21, <1>22, <2>1
<1>24. PICK n : n = [pages |-> pages, header |-> hd, pool |-> pool]
  OBVIOUS
<1>25. n.pages = pages /\ n.header = hd /\ n.pool = pool /\ HeapIs(n)
  BY <1>3, <1>22, <1>24 DEF HeapIs
<1>26. HeapTypeOK(n)
  <2>1. n \in HeapType
    BY <1>21, <1>23, <1>24 DEF HeapType
  <2> QED BY <1>20, <1>25, <2>1, HeapIsHeap DEF HeapTypeOK, HeapType, Lists
<1>27. BusyInv(n)
  <2> SUFFICES ASSUME NEW i \in DOMAIN pages, i > 1 PROVE hd[pages[i]].used > 0
    BY <1>25 DEF BusyInv
  <2>1. header[pages[i]].used > 0 /\ pages[i] \in Page
    BY <1>1, <1>21, HeapIsHeap DEF BusyInv
  <2>2. after.used > 0
    <3>1. after.used \in Nat /\ after.used # 0
      BY <1>2, <1>3
    <3> QED BY <3>1
  <2> QED BY <1>23, <2>1, <2>2
<1>28. /\ \A q \in Page \ {p} : n.header[q] = header[q]
       /\ n.header[p].used = header[p].used - 1 /\ n.header[p].free = new
  BY <1>2, <1>16, <1>23, <1>25
<1>29. /\ Range(pages) \ {p} \subseteq Range(n.pages) /\ Range(n.pages) \subseteq Range(pages)
       /\ p \in Range(n.pages)
  BY <1>2, <1>25
<1>30. /\ FreeOK(n.header[p].free) /\ Clear(n.header[p].free, 0, Headers)
       /\ \A q \in LiveOn(p) \ {r} :
             Clear(n.header[p].free, requests[q].offset, Extent(requests[q].size))
  BY <1>15, <1>18, <1>19, <1>28
<1> QED BY <1>25, <1>26, <1>27, <1>28, <1>29, <1>30, ReleaseKeeps

LEMMA DropPageKeeps ==
    ASSUME IInv, NEW r \in Live, NEW p, p = requests[r].page,
           NEW after, after = Released(p, requests[r].offset, requests[r].size),
           DropPage(p, after), requests' = [requests EXCEPT ![r] = Unused], verdict' = verdict
    PROVE  IInv'
<1>1. HeapOK(Heap) /\ BusyInv(Heap)
  BY DEF IInv
<1>2. /\ p \in Range(pages) /\ p \in Page
      /\ after.used = header[p].used - 1 /\ LiveOn(p) = {r} <=> after.used = 0
  BY ReleasedIs
<1>3. PICK rest, hd, new :
        /\ rest = RemoveAt(pages, CHOOSE i \in DOMAIN pages : pages[i] = p)
        /\ hd = [header EXCEPT ![p] = NoHeader] /\ new = free_page(pool, p)
  OBVIOUS
<1>4. after.used = 0 /\ header' = hd /\ pages' = rest /\ pool' = new
  BY <1>3 DEF DropPage
<1>5. /\ HeapTypeOK(Heap) /\ Heap \in HeapType /\ PoolMatches(pool, Range(pages))
      /\ \A i, j \in DOMAIN pages : pages[i] = pages[j] => i = j
  BY <1>1, HeapTyped, HeapIsHeap DEF HeapOK
<1>6. header \in [Page -> [used : Nat, free : Lists]] /\ pages \in Seq(Page) /\ pool \in Pool
  BY <1>5, HeapIsHeap DEF HeapType
<1>7. PICK i : i = (CHOOSE j \in DOMAIN pages : pages[j] = p) /\ i \in 1 .. Len(pages) /\ pages[i] = p
  <2>1. \E j \in DOMAIN pages : pages[j] = p
    BY <1>2 DEF Range
  <2>2. DOMAIN pages = 1 .. Len(pages)
    BY <1>6
  <2> QED BY <2>1, <2>2
<1>8. /\ rest \in Seq(Page)
      /\ \A m, n \in DOMAIN rest : rest[m] = rest[n] => m = n
      /\ Range(rest) = Range(pages) \ {p}
      /\ \A j \in DOMAIN rest : j > 1 => \E m \in DOMAIN pages : m > 1 /\ rest[j] = pages[m]
  <2>1. pages \in Seq(Page)
    BY <1>6
  <2>2. \A m, n \in DOMAIN pages : pages[m] = pages[n] => m = n
    BY <1>5
  <2>3. i \in 1 .. Len(pages) /\ pages[i] = p
    BY <1>7
  <2>4. rest = RemoveAt(pages, i)
    BY <1>3, <1>7
  <2>5. rest \in Seq(Page)
    BY <2>1, <2>2, <2>3, <2>4, RemoveOneIs
  <2>6. \A m, n \in DOMAIN rest : rest[m] = rest[n] => m = n
    BY <2>1, <2>2, <2>3, <2>4, RemoveOneIs
  <2>7. Range(rest) = Range(pages) \ {pages[i]}
    BY <2>1, <2>2, <2>3, <2>4, RemoveOneIs
  <2>8. \A j \in DOMAIN rest : j > 1 => \E m \in DOMAIN pages : m > 1 /\ rest[j] = pages[m]
    BY <2>1, <2>2, <2>3, <2>4, RemoveOneIs
  <2> QED BY <2>3, <2>5, <2>6, <2>7, <2>8
<1>9. PoolMatches(new, Range(rest))
  BY <1>2, <1>3, <1>5, <1>8, FreePageTakesBack
<1>10. EmptyLists \in Lists /\ FreeOK(EmptyLists) /\ \A a, z \in Nat : Clear(EmptyLists, a, z)
  <2>1. <<>> \in Seq(Nat) /\ Range(<<>>) = {} /\ Ordered(<<>>)
    BY DEF Range, Ordered
  <2>2. EmptyLists \in Lists /\ \A t \in Buffers : EmptyLists[t] = <<>>
    BY <2>1 DEF EmptyLists, Lists
  <2>3. FreeOK(EmptyLists)
    BY <2>1, <2>2 DEF FreeOK, Lists
  <2>4. \A a, z \in Nat : Clear(EmptyLists, a, z)
    BY <2>1, <2>2 DEF Clear
  <2> QED BY <2>2, <2>3, <2>4
<1>11. NoHeader.used = 0 /\ NoHeader.free = EmptyLists /\ NoHeader \in [used : Nat, free : Lists]
  BY <1>10 DEF NoHeader
<1>12. /\ hd \in [Page -> [used : Nat, free : Lists]] /\ hd[p] = NoHeader
       /\ \A q \in Page \ {p} : hd[q] = header[q]
  BY <1>2, <1>3, <1>6, <1>11
<1>13. PICK n : n = [pages |-> rest, header |-> hd, pool |-> new]
  OBVIOUS
<1>14. n.pages = rest /\ n.header = hd /\ n.pool = new /\ HeapIs(n)
  BY <1>4, <1>13 DEF HeapIs
<1>15. HeapTypeOK(n)
  <2>1. new \in Pool
    BY <1>9 DEF PoolMatches
  <2>2. n \in HeapType
    BY <1>8, <1>12, <1>13, <2>1 DEF HeapType
  <2> QED BY <1>8, <1>9, <1>14, <2>2 DEF HeapTypeOK, HeapType, Lists
<1>16. BusyInv(n)
  <2> SUFFICES ASSUME NEW j \in DOMAIN rest, j > 1 PROVE hd[rest[j]].used > 0
    BY <1>14 DEF BusyInv
  <2>1. PICK m \in DOMAIN pages : m > 1 /\ rest[j] = pages[m]
    BY <1>8
  <2>2. header[pages[m]].used > 0
    BY <1>1, <2>1, HeapIsHeap DEF BusyInv
  <2>3. rest[j] \in Range(rest) /\ rest[j] \in Page
    BY <1>8 DEF Range
  <2> QED BY <1>8, <1>12, <2>1, <2>2, <2>3
<1>17. /\ \A q \in Page \ {p} : n.header[q] = header[q]
       /\ n.header[p].used = header[p].used - 1 /\ FreeOK(n.header[p].free)
  BY <1>2, <1>4, <1>10, <1>11, <1>12, <1>14
<1>18. /\ Range(pages) \ {p} \subseteq Range(n.pages) /\ Range(n.pages) \subseteq Range(pages)
       /\ p \notin Range(n.pages) /\ LiveOn(p) = {r}
  BY <1>2, <1>4, <1>8, <1>14
<1> QED BY <1>14, <1>15, <1>16, <1>17, <1>18, ReleaseKeeps

-----------------------------------------------------------------------------
(* The theorems. *)

LEMMA StutterKeeps == ASSUME IInv, UNCHANGED vars PROVE IInv'
<1>1. /\ pages' = pages /\ header' = header /\ pool' = pool
      /\ requests' = requests /\ verdict' = verdict
  BY DEF vars, driverVars
<1>2. DriverTypeOK' /\ RequestInv'
  BY <1>1 DEF IInv, DriverTypeOK, RequestInv
<1>3. Live' = Live /\ Heap' = Heap /\ \A p : LiveOn(p)' = LiveOn(p)
  BY <1>1 DEF Live, Heap, LiveOn
<1>4. LiveInv'
  BY <1>1, <1>3 DEF IInv, LiveInv, InPlace, MemoryApart
<1>5. HeapOK(Heap)' /\ BusyInv(Heap)'
  BY <1>1, <1>3 DEF IInv, HeapOK, HeapTypeOK, BusyInv
<1> QED BY <1>2, <1>4, <1>5 DEF IInv

LEMMA Inductive == IInv /\ [Next]_vars => IInv'
<1> SUFFICES ASSUME IInv, [Next]_vars PROVE IInv'
  OBVIOUS
<1> USE DEF Verdict
<1>1. ASSUME NEW r \in Requests, NEW size \in Sizes, allocate(r, size) PROVE IInv'
  <2>1. ~requests[r].used
    BY <1>1 DEF allocate
  <2>2. CASE Refuse(size)
    <3>1. CASE UNCHANGED vars
      BY <3>1, StutterKeeps
    <3>2. CASE Exit("error")
      BY <3>2, ExitKeeps DEF Exit
    <3> QED BY <2>2, <3>1, <3>2 DEF Refuse
  <2>3. CASE ~TooBig(size) /\ AllocateBlock(r, size)
    BY <2>1, <2>3, AllocateBlockKeeps
  <2>4. CASE ~TooBig(size) /\ AllocateOnNewPage(r, size)
    BY <2>1, <2>4, AllocateOnNewPageKeeps
  <2>5. CASE ~TooBig(size) /\ AllocateWholePage(r, size)
    BY <2>1, <2>5, AllocateWholePageKeeps
  <2>6. CASE OutOfPages(size)
    BY <2>6, ExitKeeps DEF OutOfPages, Exit
  <2> QED BY <1>1, <2>2, <2>3, <2>4, <2>5, <2>6 DEF allocate
<1>2. ASSUME NEW r \in Requests, deallocate(r) PROVE IInv'
  <2>1. r \in Live /\ requests' = [requests EXCEPT ![r] = Unused] /\ verdict' = verdict
    BY <1>2 DEF deallocate, Live
  <2>2. PICK p, after : /\ p = requests[r].page
                        /\ after = Released(p, requests[r].offset, requests[r].size)
    OBVIOUS
  <2>3. KeepPage(p, after) \/ DropPage(p, after)
    BY <1>2, <2>2 DEF deallocate
  <2> QED BY <2>1, <2>2, <2>3, KeepPageKeeps, DropPageKeeps
<1>3. CASE Stop
  <2>1. PICK v \in Verdict : Ends(v) /\ pages' = <<>> /\ header' = [p \in Page |-> NoHeader]
    <3>1. pages' = <<>> /\ header' = [p \in Page |-> NoHeader] /\ (EndOfTrace \/ WrongLine)
      BY <1>3 DEF Stop
    <3>2. CASE EndOfTrace
      <4>1. Ends("leak") \/ Ends("PASS")
        BY <3>2 DEF EndOfTrace
      <4> QED BY <3>1, <4>1
    <3>3. CASE WrongLine
      BY <3>1, <3>3 DEF WrongLine
    <3> QED BY <3>1, <3>2, <3>3
  <2> QED BY <2>1, ExitKeeps
<1>4. CASE UNCHANGED vars
  BY <1>4, StutterKeeps
<1> QED BY <1>1, <1>2, <1>3, <1>4 DEF Next

\* The inductive invariant: in every reachable state the lists of every page are in order
\* and apart, from each other, from the headers and from the requests' memory, and the
\* counts and the pool match.
THEOREM Invariant == Spec => []IInv
<1>1. Init => IInv
  BY InitOK
<1>2. IInv /\ [Next]_vars => IInv'
  BY Inductive
<1> QED BY <1>1, <1>2, PTL DEF Spec

-----------------------------------------------------------------------------
(* What the invariant says of a page of the list. *)

LEMMA ListsAre ==
    ASSUME IInv, NEW p \in Page, NEW s \in Buffers
    PROVE  LET list == header[p].free[s] IN
           /\ FreeOK(header[p].free) /\ list \in Seq(Nat) /\ Ordered(list)
           /\ \A b \in Range(list) : Placed(b, s)
           /\ s \in Nat \ {0} /\ s <= PAGESIZE
<1>1. FreeOK(header[p].free)
  BY HeapIsHeap DEF IInv, HeapOK
<1>2. s \in Nat \ {0} /\ s <= PAGESIZE
  BY BuffersAre, DoubleIs
<1> QED BY <1>1, <1>2 DEF FreeOK

\* The types of the allocator and of the driver.  In particular the count of blocks of
\* a page never becomes negative: kma_free decrements it without a test.
THEOREM TypeCorrect == Spec => []TypeOK
<1>1. ASSUME IInv PROVE TypeOK
  <2>1. HeapTypeOK(Heap) /\ HeapOK(Heap) /\ DriverTypeOK
    BY <1>1 DEF IInv, HeapOK
  <2>2. pages \in Seq(Page) /\ header \in [Page -> [used : Nat, free : Lists]]
    BY <2>1, HeapTyped, HeapIsHeap DEF HeapType
  <2>3. ASSUME NEW p \in Page
        PROVE  header[p].used \in Nat /\ header[p].free \in [Buffers -> Seq(0 .. PAGESIZE)]
    <3>1. PICK free : free = header[p].free
      OBVIOUS
    <3>2. free \in [Buffers -> Seq(Nat)]
      BY <2>2, <3>1 DEF Lists
    <3>3. ASSUME NEW s \in Buffers PROVE free[s] \in Seq(0 .. PAGESIZE)
      <4>1. PICK list : list = free[s]
        OBVIOUS
      <4>2. list \in Seq(Nat) /\ s \in Nat \ {0} /\ \A b \in Range(list) : Placed(b, s)
        BY <1>1, <3>1, <4>1, ListsAre
      <4>3. \A i \in 1 .. Len(list) : list[i] \in 0 .. PAGESIZE
        <5> SUFFICES ASSUME NEW i \in 1 .. Len(list) PROVE list[i] \in 0 .. PAGESIZE
          OBVIOUS
        <5>1. list[i] \in Range(list)
          BY <4>2 DEF Range
        <5>2. Placed(list[i], s)
          BY <4>2, <5>1
        <5> QED BY <4>2, <5>2, Constants DEF Placed
      <4>4. list = [i \in 1 .. Len(list) |-> list[i]] /\ Len(list) \in Nat
        BY <4>2
      <4>5. list \in Seq(0 .. PAGESIZE)
        BY <4>3, <4>4, Constants
      <4> QED BY <4>1, <4>5
    <3> QED BY <2>2, <3>1, <3>2, <3>3
  <2> QED BY <2>1, <2>2, <2>3 DEF TypeOK
<1> QED BY <1>1, Invariant, PTL

\* The lists that get_buddy and coalesce rest on are ordered by address, and a block
\* lies at a multiple of its size.
THEOREM ListsStayOrdered == Spec => []ListsOrdered
<1>1. ASSUME IInv PROVE ListsOrdered
  <2> SUFFICES ASSUME NEW p \in Range(pages), NEW s \in Buffers
               PROVE  LET list == header[p].free[s] IN
                      /\ \A i \in 1 .. Len(list) : list[i] % s = 0
                      /\ \A i \in 1 .. Len(list) - 1 : list[i] < list[i + 1]
    BY DEF ListsOrdered
  <2>1. p \in Page
    <3>1. pages \in Seq(Page)
      BY <1>1, HeapTyped, HeapIsHeap DEF IInv, HeapOK, HeapType
    <3> QED BY <3>1 DEF Range
  <2>2. PICK list : list = header[p].free[s]
    OBVIOUS
  <2>3. list \in Seq(Nat) /\ Ordered(list) /\ \A b \in Range(list) : Placed(b, s)
    BY <1>1, <2>1, <2>2, ListsAre
  <2>4. DOMAIN list = 1 .. Len(list) /\ Len(list) \in Nat
    BY <2>3
  <2>5. \A i \in 1 .. Len(list) : list[i] \in Range(list)
    BY <2>4 DEF Range
  <2>6. \A i \in 1 .. Len(list) : list[i] % s = 0
    BY <2>3, <2>5 DEF Placed
  <2>7. \A i \in 1 .. Len(list) - 1 : list[i] < list[i + 1]
    BY <2>3, <2>4 DEF Ordered
  <2> QED BY <2>2, <2>6, <2>7
<1> QED BY <1>1, Invariant, PTL

\* kma_free gives a page back with the last block on it, not before and not later.
THEOREM PagesStayAccounted == Spec => []PagesAccounted
<1>1. ASSUME IInv PROVE PagesAccounted
  <2>1. HeapOK(Heap) /\ BusyInv(Heap)
    BY <1>1 DEF IInv
  <2>2. /\ pages \in Seq(Page) /\ PoolMatches(pool, Range(pages))
        /\ \A i, j \in DOMAIN pages : pages[i] = pages[j] => i = j
    BY <2>1, HeapTyped, HeapIsHeap DEF HeapOK, HeapType
  <2>3. DOMAIN pages = 1 .. Len(pages)
    BY <2>2
  <2>4. \A r \in Live : requests[r].page \in Range(pages)
    BY <2>1, HeapIsHeap DEF HeapOK
  <2>5. ASSUME NEW i \in 1 .. Len(pages)
        PROVE  /\ header[pages[i]].used = Cardinality({r \in Live : requests[r].page = pages[i]})
               /\ i > 1 => header[pages[i]].used > 0
    <3>1. pages[i] \in Page
      BY <2>2
    <3>2. header[pages[i]].used = Cardinality(LiveOn(pages[i]))
      BY <2>1, <3>1, HeapIsHeap DEF HeapOK
    <3>3. i > 1 => header[pages[i]].used > 0
      BY <2>1, <2>3, HeapIsHeap DEF BusyInv
    <3> QED BY <3>2, <3>3 DEF LiveOn
  <2>6. Cardinality(Range(pages)) = Len(pages)
    BY <2>2, DistinctCount
  <2>7. pool.num_in_use = Cardinality(Range(pages))
    BY <2>2 DEF PoolMatches
  <2>8. Range(pages) \cap Range(pool.next_free_page) = {}
    <3>1. CASE Range(pages) = {}
      BY <3>1
    <3>2. CASE Range(pages) # {}
      <4>1. {pool.next_free_page[n] : n \in DOMAIN pool.next_free_page} = Page \ Range(pages)
        BY <2>2, <3>2 DEF PoolMatches
      <4> QED BY <4>1 DEF Range
    <3> QED BY <3>1, <3>2
  <2> QED BY <2>4, <2>5, <2>6, <2>7, <2>8 DEF PagesAccounted
<1> QED BY <1>1, Invariant, PTL

-----------------------------------------------------------------------------
(* The parts of a page. *)

\* Two blocks that are apart still are when only part of their memory is looked at.
LEMMA ApartWithin ==
    ASSUME NEW a \in Nat, NEW m \in Nat, NEW b \in Nat, NEW n \in Nat, Apart(a, m, b, n),
           NEW i \in Nat, NEW j \in Nat, i <= m, j <= n
    PROVE  Apart(a, i, b, j)
BY DEF Apart

LEMMA FreePartIs ==
    ASSUME IInv, NEW p \in Page, NEW a \in FreeParts(p)
    PROVE  \E s \in Buffers : \E b \in Range(header[p].free[s]) :
              /\ a = [page |-> 0, offset |-> b, size |-> s]
              /\ b \in Nat /\ s \in Nat \ {0} /\ b + s <= PAGESIZE
<1>1. PICK s \in Buffers : \E b \in Range(header[p].free[s]) : a = [page |-> 0, offset |-> b, size |-> s]
  BY DEF FreeParts
<1>2. PICK b \in Range(header[p].free[s]) : a = [page |-> 0, offset |-> b, size |-> s]
  BY <1>1
<1>3. Placed(b, s) /\ s \in Nat \ {0}
  BY ListsAre
<1> QED BY <1>2, <1>3 DEF Placed

LEMMA LivePartIs ==
    ASSUME IInv, NEW p, NEW a \in LiveParts(p)
    PROVE  \E r \in LiveOn(p) :
              /\ a = [page |-> 0, offset |-> requests[r].offset, size |-> requests[r].size]
              /\ requests[r].offset \in Nat /\ requests[r].offset >= Headers
              /\ requests[r].size \in Nat \ {0} /\ Extent(requests[r].size) \in Nat \ {0}
              /\ requests[r].size <= Extent(requests[r].size)
              /\ requests[r].offset + Extent(requests[r].size) <= PAGESIZE
<1>1. PICK r \in LiveOn(p) : a = [page |-> 0, offset |-> requests[r].offset, size |-> requests[r].size]
  BY DEF LiveParts, LiveOn
<1>2. r \in Live
  BY DEF LiveOn
<1>3. PICK m : m = requests[r]
  OBVIOUS
<1>4. /\ m.offset \in Nat /\ m.size \in Sizes /\ ~TooBig(m.size) /\ m.offset >= Headers
      /\ m.offset + Extent(m.size) <= PAGESIZE /\ Extent(m.size) \in Nat \ {0}
  BY <1>2, <1>3, LiveIs DEF IInv
<1>5. m.size \in Nat \ {0} /\ m.size <= Extent(m.size)
  BY <1>4, NeedIs
<1> QED BY <1>1, <1>3, <1>4, <1>5

LEMMA PartsApart ==
    ASSUME IInv, NEW p \in Range(pages)
    PROVE  /\ \A a, b \in Parts(p) : a = b \/ A!Disjoint(a, b)
           /\ \A a \in Parts(p) : a.offset + a.size <= PAGESIZE
           /\ LiveParts(p) \cap FreeParts(p) = {}
<1>1. HeapOK(Heap) /\ LiveInv
  BY DEF IInv
<1>2. p \in Page
  <2>1. pages \in Seq(Page)
    BY <1>1, HeapTyped, HeapIsHeap DEF HeapOK, HeapType
  <2> QED BY <2>1 DEF Range
<1>3. PICK free : free = header[p].free
  OBVIOUS
<1>4. FreeOK(free) /\ Clear(free, 0, Headers)
  BY <1>1, <1>2, <1>3, HeapIsHeap DEF HeapOK
<1>5. /\ Headers \in Nat \ {0} /\ Headers <= PAGESIZE /\ PAGESIZE \in Nat
      /\ HeaderPart = [page |-> 0, offset |-> 0, size |-> Headers]
  <2>1. AllocHeader \in Nat /\ PageHeader \in Nat /\ PAGESIZE \in Nat /\ Headers \in Nat \ {0}
    BY Constants
  <2>2. 2 * (AllocHeader + PageHeader) <= PAGESIZE
    BY SizeAssumption
  <2> QED BY <2>1, <2>2 DEF Headers, HeaderPart
<1>6. ASSUME NEW a \in LiveParts(p), NEW b \in LiveParts(p), a # b
      PROVE  A!Disjoint(a, b)
  <2>1. PICK r \in LiveOn(p) :
          /\ a = [page |-> 0, offset |-> requests[r].offset, size |-> requests[r].size]
          /\ requests[r].offset \in Nat
          /\ requests[r].size \in Nat \ {0} /\ Extent(requests[r].size) \in Nat \ {0}
          /\ requests[r].size <= Extent(requests[r].size)
    BY LivePartIs
  <2>2. PICK q \in LiveOn(p) :
          /\ b = [page |-> 0, offset |-> requests[q].offset, size |-> requests[q].size]
          /\ requests[q].offset \in Nat
          /\ requests[q].size \in Nat \ {0} /\ Extent(requests[q].size) \in Nat \ {0}
          /\ requests[q].size <= Extent(requests[q].size)
    BY LivePartIs
  <2>3. r # q /\ r \in Live /\ q \in Live /\ requests[r].page = requests[q].page
    BY <1>6, <2>1, <2>2 DEF LiveOn
  <2>4. Apart(requests[r].offset, Extent(requests[r].size), requests[q].offset, Extent(requests[q].size))
    BY <1>1, <2>3 DEF LiveInv, MemoryApart
  <2>5. Apart(requests[r].offset, requests[r].size, requests[q].offset, requests[q].size)
    BY <2>1, <2>2, <2>4, ApartWithin
  <2> QED BY <2>1, <2>2, <2>5 DEF Apart, A!Disjoint
<1>7. ASSUME NEW a \in LiveParts(p), NEW c \in FreeParts(p)
      PROVE  A!Disjoint(a, c) /\ A!Disjoint(c, a) /\ a # c
  <2>1. PICK r \in LiveOn(p) :
          /\ a = [page |-> 0, offset |-> requests[r].offset, size |-> requests[r].size]
          /\ requests[r].offset \in Nat
          /\ requests[r].size \in Nat \ {0} /\ Extent(requests[r].size) \in Nat \ {0}
          /\ requests[r].size <= Extent(requests[r].size)
    BY LivePartIs
  <2>2. PICK s \in Buffers : \E b \in Range(header[p].free[s]) :
              /\ c = [page |-> 0, offset |-> b, size |-> s]
              /\ b \in Nat /\ s \in Nat \ {0} /\ b + s <= PAGESIZE
    BY <1>2, FreePartIs
  <2>3. PICK b \in Range(header[p].free[s]) :
              /\ c = [page |-> 0, offset |-> b, size |-> s]
              /\ b \in Nat /\ s \in Nat \ {0} /\ b + s <= PAGESIZE
    BY <2>2
  <2>4. Clear(free, requests[r].offset, Extent(requests[r].size))
    BY <1>1, <1>3, HeapIsHeap DEF HeapOK, LiveOn
  <2>5. Apart(b, s, requests[r].offset, Extent(requests[r].size))
    BY <1>3, <2>3, <2>4 DEF Clear
  <2>6. Apart(b, s, requests[r].offset, requests[r].size)
    <3>1. b \in Nat /\ s \in Nat /\ s <= s
      BY <2>3
    <3>2. /\ requests[r].offset \in Nat /\ Extent(requests[r].size) \in Nat
          /\ requests[r].size \in Nat /\ requests[r].size <= Extent(requests[r].size)
      BY <2>1
    <3> QED BY <2>5, <3>1, <3>2, ApartWithin
  <2>7. a.page = 0 /\ a.offset \in Nat /\ a.size \in Nat \ {0}
    BY <2>1
  <2>8. c.page = 0 /\ c.offset \in Nat /\ c.size \in Nat \ {0} /\ Apart(c.offset, c.size, a.offset, a.size)
    BY <2>1, <2>3, <2>6
  <2> QED BY <2>7, <2>8 DEF Apart, A!Disjoint
<1>8. ASSUME NEW c \in FreeParts(p), NEW d \in FreeParts(p), c # d
      PROVE  A!Disjoint(c, d)
  <2>1. PICK s \in Buffers : \E b \in Range(header[p].free[s]) : c = [page |-> 0, offset |-> b, size |-> s]
    BY <1>2, FreePartIs
  <2>2. PICK b \in Range(free[s]) : c = [page |-> 0, offset |-> b, size |-> s]
    BY <1>3, <2>1
  <2>3. PICK t \in Buffers : \E e \in Range(header[p].free[t]) : d = [page |-> 0, offset |-> e, size |-> t]
    BY <1>2, FreePartIs
  <2>4. PICK e \in Range(free[t]) : d = [page |-> 0, offset |-> e, size |-> t]
    BY <1>3, <2>3
  <2>5. b # e \/ s # t
    BY <1>8, <2>2, <2>4
  <2>6. Apart(b, s, e, t)
    BY <1>4, <2>5 DEF FreeOK
  <2> QED BY <2>2, <2>4, <2>6 DEF Apart, A!Disjoint
<1>9. ASSUME NEW a \in LiveParts(p) \cup FreeParts(p)
      PROVE  /\ A!Disjoint(HeaderPart, a) /\ A!Disjoint(a, HeaderPart)
             /\ a.offset + a.size <= PAGESIZE
  <2>1. CASE a \in LiveParts(p)
    <3>1. PICK r \in LiveOn(p) :
              /\ a = [page |-> 0, offset |-> requests[r].offset, size |-> requests[r].size]
              /\ requests[r].offset \in Nat /\ requests[r].offset >= Headers
              /\ requests[r].size \in Nat \ {0} /\ Extent(requests[r].size) \in Nat \ {0}
              /\ requests[r].size <= Extent(requests[r].size)
              /\ requests[r].offset + Extent(requests[r].size) <= PAGESIZE
      BY <2>1, LivePartIs
    <3>2. /\ a.offset \in Nat /\ a.offset >= Headers /\ a.size \in Nat
          /\ a.offset + a.size <= PAGESIZE
      BY <1>5, <3>1
    <3> QED BY <1>5, <3>2 DEF A!Disjoint
  <2>2. CASE a \in FreeParts(p)
    <3>1. PICK s \in Buffers : \E b \in Range(header[p].free[s]) :
              /\ a = [page |-> 0, offset |-> b, size |-> s]
              /\ b \in Nat /\ s \in Nat \ {0} /\ b + s <= PAGESIZE
      BY <1>2, <2>2, FreePartIs
    <3>2. PICK b \in Range(header[p].free[s]) :
              /\ a = [page |-> 0, offset |-> b, size |-> s]
              /\ b \in Nat /\ s \in Nat \ {0} /\ b + s <= PAGESIZE
      BY <3>1
    <3>3. Apart(b, s, 0, Headers)
      BY <1>3, <1>4, <3>2 DEF Clear
    <3>4. a.offset = b /\ a.size = s /\ a.page = 0
      BY <3>2
    <3> QED BY <1>5, <3>2, <3>3, <3>4 DEF Apart, A!Disjoint
  <2> QED BY <2>1, <2>2
<1>10. ASSUME NEW a \in Parts(p), NEW b \in Parts(p) PROVE a = b \/ A!Disjoint(a, b)
  BY <1>6, <1>7, <1>8, <1>9 DEF Parts
<1>11. ASSUME NEW a \in Parts(p) PROVE a.offset + a.size <= PAGESIZE
  <2>1. HeaderPart.offset + HeaderPart.size <= PAGESIZE
    BY <1>5
  <2> QED BY <1>9, <2>1 DEF Parts
<1>12. LiveParts(p) \cap FreeParts(p) = {}
  BY <1>7
<1> QED BY <1>10, <1>11, <1>12

\* No free, split or join ever makes a block free that overlaps one in use, or free
\* twice: on every page of the list the header, the requests' memory and the free
\* blocks are apart and inside the page.
THEOREM NothingEverOverlaps == Spec => []NothingOverlaps
<1>1. IInv => NothingOverlaps
  BY PartsApart DEF NothingOverlaps
<1> QED BY <1>1, Invariant, PTL

-----------------------------------------------------------------------------
(* The buddy system implements Allocator. *)

\* What the requests have: some memory on a page, apart from that of the others.
MemoryOK ==
    \A r \in Live :
        /\ r \in Requests /\ Memory[r].size > 0
        /\ Memory[r].offset + Memory[r].size <= PAGESIZE
        /\ \A q \in Live \ {r} : A!Disjoint(Memory[r], Memory[q])

LEMMA MemoryIsOK == IInv => MemoryOK
<1> SUFFICES ASSUME IInv, NEW r \in Live
             PROVE  /\ r \in Requests /\ Memory[r].size > 0
                    /\ Memory[r].offset + Memory[r].size <= PAGESIZE
                    /\ \A q \in Live \ {r} : A!Disjoint(Memory[r], Memory[q])
  BY DEF MemoryOK
<1>1. ASSUME NEW q \in Live
      PROVE  /\ q \in Requests
             /\ Memory[q].page = requests[q].page
             /\ Memory[q].offset = requests[q].offset
             /\ Memory[q].size = requests[q].size
             /\ requests[q].offset \in Nat
             /\ requests[q].size \in Nat \ {0} /\ Extent(requests[q].size) \in Nat \ {0}
             /\ requests[q].size <= Extent(requests[q].size)
             /\ requests[q].offset + Extent(requests[q].size) <= PAGESIZE
  <2>1. PICK m : m = requests[q]
    OBVIOUS
  <2>2. /\ q \in Requests /\ m.offset \in Nat /\ m.size \in Sizes /\ ~TooBig(m.size)
        /\ m.offset + Extent(m.size) <= PAGESIZE /\ Extent(m.size) \in Nat \ {0}
    BY <2>1, LiveIs DEF IInv
  <2>3. m.size \in Nat \ {0} /\ m.size <= Extent(m.size)
    BY <2>2, NeedIs
  <2> QED BY <2>1, <2>2, <2>3 DEF Memory
<1>2. Memory[r].offset + Memory[r].size <= PAGESIZE
  BY <1>1, Constants
<1>3. ASSUME NEW q \in Live \ {r} PROVE A!Disjoint(Memory[r], Memory[q])
  <2>1. CASE requests[r].page # requests[q].page
    BY <1>1, <2>1 DEF A!Disjoint
  <2>2. CASE requests[r].page = requests[q].page
    <3>1. Apart(requests[r].offset, Extent(requests[r].size), requests[q].offset, Extent(requests[q].size))
      BY <2>2 DEF IInv, LiveInv, MemoryApart
    <3>2. Apart(requests[r].offset, requests[r].size, requests[q].offset, requests[q].size)
      BY <1>1, <3>1, ApartWithin
    <3> QED BY <1>1, <3>2 DEF Apart, A!Disjoint
  <2> QED BY <2>1, <2>2
<1> QED BY <1>1, <1>2, <1>3

\* A request has memory exactly while it is in use.
LEMMA HeldIs ==
    ASSUME IInv, NEW r \in Requests
    PROVE  requests[r].used <=> Memory[r] # A!NoMemory
<1>1. CASE requests[r].used
  <2>1. Memory[r].size > 0
    BY <1>1, MemoryIsOK DEF MemoryOK, Live
  <2> QED BY <1>1, <2>1 DEF A!NoMemory
<1>2. CASE ~requests[r].used
  <2>1. requests[r] = Unused
    BY <1>2 DEF IInv, RequestInv
  <2> QED BY <1>2, <2>1 DEF Unused, A!NoMemory, Memory
<1> QED BY <1>1, <1>2

LEMMA GrantIsMalloc ==
    ASSUME IInv, MemoryOK', NEW r \in Requests, ~requests[r].used,
           NEW size, NEW p, NEW b, Grant(r, size, p, b)
    PROVE  A!Malloc(r)
<1>1. requests \in [Requests -> [used : BOOLEAN, size : Sizes \cup {0},
                                 page : Page, offset : 0 .. PAGESIZE]]
  BY DEF IInv, DriverTypeOK
<1>2. requests'[r].used /\ \A q \in Requests \ {r} : requests'[q] = requests[q]
  BY <1>1 DEF Grant
<1>3. r \in Live' /\ \A q \in Requests \ {r} : requests[q].used => q \in Live'
  BY <1>2 DEF Live
<1>4. Memory'[r].size > 0 /\ Memory'[r].offset + Memory'[r].size <= PAGESIZE
  BY <1>3 DEF MemoryOK
<1>5. A!OthersKeep(r)
  BY <1>2 DEF A!OthersKeep, Memory
<1>6. ASSUME NEW q \in Requests \ {r}, Memory[q] # A!NoMemory
      PROVE  A!Disjoint(Memory'[r], Memory[q])
  <2>1. requests[q].used
    BY <1>6, HeldIs
  <2>2. A!Disjoint(Memory'[r], Memory'[q])
    BY <1>3, <2>1 DEF MemoryOK, A!Disjoint
  <2> QED BY <1>2, <2>2 DEF Memory
<1>7. Memory[r] = A!NoMemory
  BY HeldIs
<1> QED BY <1>4, <1>5, <1>6, <1>7 DEF A!Malloc

LEMMA AllocatorNext == IInv /\ MemoryOK' /\ [Next]_vars => [A!Next]_Memory
<1> SUFFICES ASSUME IInv, MemoryOK', [Next]_vars PROVE A!Next \/ Memory' = Memory
  OBVIOUS
<1>1. ASSUME requests' = [r \in Requests |-> Unused] PROVE A!Next
  <2>1. Memory' = [r \in Requests |-> A!NoMemory]
    BY <1>1 DEF Memory, Unused, A!NoMemory
  <2> QED BY <2>1 DEF A!Next, A!Exit
<1>2. ASSUME NEW r \in Requests, NEW size \in Sizes, allocate(r, size)
      PROVE  A!Next \/ Memory' = Memory
  <2>1. ~requests[r].used
    BY <1>2 DEF allocate
  <2>2. CASE Refuse(size)
    BY <1>1, <2>2 DEF Refuse, vars, driverVars, Exit, Ends, Memory
  <2>3. CASE OutOfPages(size)
    BY <1>1, <2>3 DEF OutOfPages, Exit, Ends
  <2>4. CASE AllocateBlock(r, size) \/ AllocateOnNewPage(r, size) \/ AllocateWholePage(r, size)
    <3>1. PICK p, b : Grant(r, size, p, b)
      BY <2>4 DEF AllocateBlock, AllocateOnNewPage, AllocateWholePage
    <3>2. A!Malloc(r)
      BY <2>1, <3>1, GrantIsMalloc
    <3> QED BY <3>2 DEF A!Next
  <2> QED BY <1>2, <2>2, <2>3, <2>4 DEF allocate
<1>3. ASSUME NEW r \in Requests, deallocate(r) PROVE A!Next
  <2>1. requests[r].used /\ requests' = [requests EXCEPT ![r] = Unused]
    BY <1>3 DEF deallocate
  <2>2. Memory[r] # A!NoMemory
    BY <2>1, HeldIs
  <2>3. requests'[r] = Unused /\ \A q \in Requests \ {r} : requests'[q] = requests[q]
    BY <2>1 DEF IInv, DriverTypeOK
  <2>4. Memory'[r] = A!NoMemory
    BY <2>3 DEF Memory, Unused, A!NoMemory
  <2>5. A!OthersKeep(r)
    BY <2>3 DEF A!OthersKeep, Memory
  <2> QED BY <2>2, <2>4, <2>5 DEF A!Next, A!Free
<1>4. CASE Stop
  BY <1>1, <1>4 DEF Stop, EndOfTrace, WrongLine, Ends
<1>5. CASE UNCHANGED vars
  BY <1>5 DEF vars, driverVars, Memory
<1> QED BY <1>2, <1>3, <1>4, <1>5 DEF Next

\* The buddy system is an allocator: whatever is requested and freed, in whatever
\* order, kma_malloc hands out memory inside a page that nobody else has.
THEOREM BuddyIsAllocator == Spec => ImplementsAllocator
<1>1. Init => A!Init
  BY DEF Init, DriverInit, Memory, Unused, A!Init, A!NoMemory
<1>2. IInv /\ MemoryOK' /\ [Next]_vars => [A!Next]_Memory
  BY AllocatorNext
<1> QED BY <1>1, <1>2, MemoryIsOK, Invariant, PTL DEF Spec, ImplementsAllocator, A!Spec
=============================================================================
