------------------------------ MODULE KmaProofs ------------------------------
(***************************************************************************)
(* Lemmas that the proofs about both allocators rest on: induction, in the *)
(* form of sets of natural numbers, what a function defined by recursion   *)
(* over the rounds of a loop returns, the least element of a set, and what *)
(* the page layer does to the pages that are lent.                         *)
(***************************************************************************)
EXTENDS KmaDriver, SequencesExt, FiniteSetTheorems, WellFoundedInduction, TLAPS

Below == {mn \in Nat \X Nat : mn[1] < mn[2]}

LEMMA BelowWellFounded == IsWellFoundedOn(Below, Nat)
BY NatLessThanWellFounded DEF OpToRel, Below

\* A set of naturals that is not empty has a least element.
LEMMA LeastExists ==
    ASSUME NEW S \in SUBSET Nat, S # {}
    PROVE  \E n \in S : \A m \in S : n <= m
<1>1. PICK x \in S : \A y \in S : ~ (<<y, x>> \in Below)
  <2>1. S \subseteq Nat
    OBVIOUS
  <2> QED BY <2>1, BelowWellFounded, WFMin, Zenon
<1>2. \A y \in S : ~ (y < x)
  <2> SUFFICES ASSUME NEW y \in S, y < x PROVE FALSE
    OBVIOUS
  <2>1. <<y, x>> \in Nat \X Nat /\ <<y, x>>[1] < <<y, x>>[2]
    OBVIOUS
  <2>2. <<y, x>> \in Below
    BY <2>1 DEF Below
  <2> QED BY <1>1, <2>2
<1> QED BY <1>2

\* Induction.
LEMMA Induction ==
    ASSUME NEW S \in SUBSET Nat, 0 \in S, \A n \in S : n + 1 \in S
    PROVE  S = Nat
<1> SUFFICES ASSUME Nat \ S # {} PROVE FALSE
  OBVIOUS
<1>1. PICK n \in Nat \ S : \A m \in Nat \ S : n <= m
  <2> DEFINE T == Nat \ S
  <2>1. T \in SUBSET Nat /\ T # {}
    OBVIOUS
  <2> HIDE DEF T
  <2>2. \E n \in T : \A m \in T : n <= m
    BY <2>1, LeastExists
  <2> QED BY <2>2 DEF T
<1>2. n # 0 /\ n - 1 \in Nat
  OBVIOUS
<1>3. n - 1 \in S
  BY <1>1, <1>2
<1> QED BY <1>2, <1>3

\* Min is the least element.
LEMMA MinIsLeast ==
    ASSUME NEW S \in SUBSET Nat, S # {}
    PROVE  Min(S) \in S /\ \A m \in S : Min(S) <= m
<1>1. \E n \in S : \A m \in S : n <= m
  BY LeastExists
<1> QED BY <1>1 DEF Min

-----------------------------------------------------------------------------
(* A loop of N rounds: after[i] is what i rounds have made of x.           *)

Steps(N, V) == [1 .. N -> [V -> V]]

IsRounds(g, N, V, x, step) ==
    g \in [0 .. N -> V] /\ g[0] = x /\ \A i \in 1 .. N : g[i] = step[i][g[i - 1]]

\* The function after exists, and its values stay in V if every round stays there.
LEMMA RoundsExist ==
    ASSUME NEW N \in Nat, NEW V, NEW x \in V, NEW step \in Steps(N, V)
    PROVE  \E g : IsRounds(g, N, V, x, step)
<1> DEFINE Upto(n) == {g \in [0 .. n -> V] :
                          g[0] = x /\ \A i \in 1 .. n : g[i] = step[i][g[i - 1]]}
           S == {n \in Nat : n <= N => Upto(n) # {}}
<1>1. 0 \in S
  <2>1. [i \in 0 .. 0 |-> x] \in Upto(0)
    OBVIOUS
  <2> QED BY <2>1
<1>2. ASSUME NEW n \in S PROVE n + 1 \in S
  <2>0. n \in Nat /\ n + 1 \in Nat
    OBVIOUS
  <2> SUFFICES ASSUME n + 1 <= N PROVE Upto(n + 1) # {}
    BY <2>0, Zenon
  <2>1. PICK g \in Upto(n) : TRUE
    OBVIOUS
  <2> DEFINE h == [i \in 0 .. n + 1 |-> IF i = n + 1 THEN step[i][g[n]] ELSE g[i]]
  <2>2. n + 1 \in 1 .. N /\ g[n] \in V
    OBVIOUS
  <2>3. step[n + 1][g[n]] \in V
    BY <2>2 DEF Steps
  <2>4. h \in [0 .. n + 1 -> V]
    <3> SUFFICES ASSUME NEW i \in 0 .. n + 1 PROVE h[i] \in V
      BY Zenon
    <3> CASE i = n + 1
      BY <2>3
    <3> CASE i # n + 1
      <4>1. i \in 0 .. n
        OBVIOUS
      <4> QED BY <4>1
    <3> QED OBVIOUS
  <2>5. h[0] = x
    OBVIOUS
  <2>6. ASSUME NEW i \in 1 .. n + 1 PROVE h[i] = step[i][h[i - 1]]
    <3>1. i - 1 \in 0 .. n /\ h[i - 1] = g[i - 1]
      OBVIOUS
    <3> CASE i = n + 1
      BY <3>1
    <3> CASE i # n + 1
      <4>1. i \in 1 .. n
        OBVIOUS
      <4> QED BY <3>1, <4>1
    <3> QED OBVIOUS
  <2>7. h \in Upto(n + 1)
    BY <2>4, <2>5, <2>6, Zenon
  <2> QED BY <2>7
<1>3. S = Nat
  <2>1. S \in SUBSET Nat
    OBVIOUS
  <2> HIDE DEF S
  <2> QED BY <1>1, <1>2, <2>1, Induction
<1>4. Upto(N) # {}
  <2>1. N \in S
    BY <1>3
  <2> QED BY <2>1
<1> QED BY <1>4 DEF IsRounds

LEMMA RoundsStay ==
    ASSUME NEW N \in Nat, NEW V, NEW g, g[0] \in V,
           \A i \in 1 .. N : g[i - 1] \in V => g[i] \in V
    PROVE  \A i \in 0 .. N : g[i] \in V
<1> DEFINE S == {n \in Nat : n <= N => g[n] \in V}
<1>1. 0 \in S
  OBVIOUS
<1>2. ASSUME NEW n \in S PROVE n + 1 \in S
  <2> SUFFICES ASSUME n + 1 <= N PROVE g[n + 1] \in V
    OBVIOUS
  <2>1. n + 1 \in 1 .. N /\ (n + 1) - 1 = n /\ g[n] \in V
    OBVIOUS
  <2> QED BY <2>1
<1>3. S = Nat
  <2>1. S \in SUBSET Nat
    OBVIOUS
  <2> HIDE DEF S
  <2> QED BY <1>1, <1>2, <2>1, Induction
<1> QED BY <1>3

-----------------------------------------------------------------------------
(* Sequences. *)

LEMMA ConcatIs ==
    ASSUME NEW S, NEW u \in Seq(S), NEW v \in Seq(S)
    PROVE  /\ u \o v \in Seq(S) /\ Len(u \o v) = Len(u) + Len(v)
           /\ Len(u) \in Nat /\ Len(v) \in Nat
           /\ \A j \in 1 .. Len(u) : (u \o v)[j] = u[j]
           /\ \A j \in 1 .. Len(v) : (u \o v)[Len(u) + j] = v[j]
OBVIOUS

LEMMA InsertAtIs ==
    ASSUME NEW S, NEW seq \in Seq(S), NEW e \in S, NEW i \in 1 .. Len(seq)
    PROVE  /\ InsertAt(seq, i, e) \in Seq(S)
           /\ Len(InsertAt(seq, i, e)) = Len(seq) + 1
           /\ InsertAt(seq, i, e)[i] = e
           /\ \A j \in 1 .. Len(seq) : j < i => InsertAt(seq, i, e)[j] = seq[j]
           /\ \A j \in 1 .. Len(seq) : j >= i => InsertAt(seq, i, e)[j + 1] = seq[j]
<1> DEFINE a == SubSeq(seq, 1, i - 1)
           b == SubSeq(seq, i, Len(seq))
           ae == a \o <<e>>
<1>1. a \in Seq(S) /\ Len(a) = i - 1 /\ \A j \in 1 .. i - 1 : a[j] = seq[j]
  OBVIOUS
<1>2. /\ b \in Seq(S) /\ Len(b) = Len(seq) - i + 1
      /\ \A j \in 1 .. Len(seq) - i + 1 : b[j] = seq[i + j - 1]
  OBVIOUS
<1>3. InsertAt(seq, i, e) = ae \o b
  BY DEF InsertAt
<1> HIDE DEF a, b, ae
<1>4. /\ ae \in Seq(S) /\ Len(ae) = i
      /\ \A j \in 1 .. i - 1 : ae[j] = a[j]
      /\ ae[i] = e
  BY <1>1 DEF ae
<1>5. /\ ae \o b \in Seq(S) /\ Len(ae \o b) = Len(seq) + 1 /\ Len(seq) \in Nat
      /\ \A j \in 1 .. i : (ae \o b)[j] = ae[j]
      /\ \A j \in 1 .. Len(seq) - i + 1 : (ae \o b)[i + j] = b[j]
  <2>1. /\ ae \o b \in Seq(S) /\ Len(ae \o b) = Len(ae) + Len(b)
        /\ \A j \in 1 .. Len(ae) : (ae \o b)[j] = ae[j]
        /\ \A j \in 1 .. Len(b) : (ae \o b)[Len(ae) + j] = b[j]
    <3>1. ae \in Seq(S)
      BY <1>4
    <3>2. b \in Seq(S)
      BY <1>2
    <3>3. ae \o b \in Seq(S)
      BY <3>1, <3>2, ConcatIs
    <3>4. Len(ae \o b) = Len(ae) + Len(b)
      BY <3>1, <3>2, ConcatIs
    <3>5. \A j \in 1 .. Len(ae) : (ae \o b)[j] = ae[j]
      BY <3>1, <3>2, ConcatIs
    <3>6. \A j \in 1 .. Len(b) : (ae \o b)[Len(ae) + j] = b[j]
      BY <3>1, <3>2, ConcatIs
    <3> QED BY <3>3, <3>4, <3>5, <3>6
  <2> QED BY <1>2, <1>4, <2>1
<1>6. (ae \o b)[i] = e
  BY <1>4, <1>5
<1>7. ASSUME NEW j \in 1 .. Len(seq), j < i PROVE (ae \o b)[j] = seq[j]
  <2>1. j \in 1 .. i - 1 /\ j \in 1 .. i
    BY <1>7
  <2> QED BY <1>1, <1>4, <1>5, <2>1
<1>8. ASSUME NEW j \in 1 .. Len(seq), j >= i PROVE (ae \o b)[j + 1] = seq[j]
  <2>1. j - i + 1 \in 1 .. Len(seq) - i + 1 /\ i + (j - i + 1) - 1 = j /\ i + (j - i + 1) = j + 1
    BY <1>5, <1>8
  <2>2. b[j - i + 1] = seq[i + (j - i + 1) - 1]
    BY <1>2, <2>1
  <2>3. (ae \o b)[i + (j - i + 1)] = b[j - i + 1]
    BY <1>5, <2>1
  <2> QED BY <2>1, <2>2, <2>3
<1> QED BY <1>3, <1>5, <1>6, <1>7, <1>8

\* The same, a fact at a time.
LEMMA InsertAtLen ==
    ASSUME NEW S, NEW seq \in Seq(S), NEW e \in S, NEW i \in 1 .. Len(seq)
    PROVE  InsertAt(seq, i, e) \in Seq(S) /\ Len(InsertAt(seq, i, e)) = Len(seq) + 1
BY InsertAtIs

LEMMA InsertAtNew ==
    ASSUME NEW S, NEW seq \in Seq(S), NEW e \in S, NEW i \in 1 .. Len(seq)
    PROVE  InsertAt(seq, i, e)[i] = e
BY InsertAtIs

LEMMA InsertAtOld ==
    ASSUME NEW S, NEW seq \in Seq(S), NEW e \in S, NEW i \in 1 .. Len(seq)
    PROVE  /\ \A j \in 1 .. Len(seq) : j < i => InsertAt(seq, i, e)[j] = seq[j]
           /\ \A j \in 1 .. Len(seq) : j >= i => InsertAt(seq, i, e)[j + 1] = seq[j]
<1>1. \A j \in 1 .. Len(seq) : j < i => InsertAt(seq, i, e)[j] = seq[j]
  BY InsertAtIs
<1>2. \A j \in 1 .. Len(seq) : j >= i => InsertAt(seq, i, e)[j + 1] = seq[j]
  BY InsertAtIs
<1> QED BY <1>1, <1>2

LEMMA RemoveAtIs ==
    ASSUME NEW S, NEW seq \in Seq(S), NEW i \in 1 .. Len(seq)
    PROVE  /\ RemoveAt(seq, i) \in Seq(S)
           /\ Len(RemoveAt(seq, i)) = Len(seq) - 1
           /\ \A j \in 1 .. Len(seq) - 1 : j < i => RemoveAt(seq, i)[j] = seq[j]
           /\ \A j \in 1 .. Len(seq) - 1 : j >= i => RemoveAt(seq, i)[j] = seq[j + 1]
<1> DEFINE a == SubSeq(seq, 1, i - 1)
           b == SubSeq(seq, i + 1, Len(seq))
<1>1. a \in Seq(S) /\ Len(a) = i - 1 /\ \A j \in 1 .. i - 1 : a[j] = seq[j]
  OBVIOUS
<1>2. /\ b \in Seq(S) /\ Len(b) = Len(seq) - i
      /\ \A j \in 1 .. Len(seq) - i : b[j] = seq[i + j]
  OBVIOUS
<1>3. RemoveAt(seq, i) = a \o b
  BY DEF RemoveAt
<1> HIDE DEF a, b
<1>4. PICK c : c = a \o b
  OBVIOUS
<1>5. /\ c \in Seq(S) /\ Len(c) = Len(seq) - 1 /\ Len(seq) \in Nat
      /\ \A j \in 1 .. i - 1 : c[j] = a[j]
      /\ \A j \in 1 .. Len(seq) - i : c[(i - 1) + j] = b[j]
  <2>1. a \in Seq(S) /\ b \in Seq(S)
    BY <1>1, <1>2
  <2>2. c \in Seq(S)
    BY <1>4, <2>1, ConcatIs
  <2>3. Len(c) = Len(a) + Len(b)
    BY <1>4, <2>1, ConcatIs
  <2>4. \A j \in 1 .. Len(a) : c[j] = a[j]
    BY <1>4, <2>1, ConcatIs
  <2>5. \A j \in 1 .. Len(b) : c[Len(a) + j] = b[j]
    BY <1>4, <2>1, ConcatIs
  <2>6. Len(seq) \in Nat /\ Len(a) = i - 1 /\ Len(b) = Len(seq) - i
    BY <1>1, <1>2
  <2>7. /\ \A j \in 1 .. i - 1 : c[j] = a[j]
        /\ \A j \in 1 .. Len(seq) - i : c[(i - 1) + j] = b[j]
    BY <2>4, <2>5, <2>6
  <2>8. Len(c) = Len(seq) - 1
    BY <2>3, <2>6
  <2> QED BY <2>2, <2>6, <2>7, <2>8
<1>6. ASSUME NEW j \in 1 .. Len(seq) - 1
      PROVE  c[j] = IF j < i THEN seq[j] ELSE seq[j + 1]
  <2>1. CASE j < i
    <3>1. j \in 1 .. i - 1
      BY <2>1
    <3>2. c[j] = a[j]
      BY <1>5, <3>1
    <3>3. a[j] = seq[j]
      BY <1>1, <3>1
    <3> QED BY <2>1, <3>2, <3>3
  <2>2. CASE j >= i
    <3>1. PICK k : k = j - (i - 1)
      OBVIOUS
    <3>2. /\ k \in 1 .. Len(seq) - i /\ i + k = j + 1 /\ (i - 1) + k = j
          /\ ~(j < i)
      BY <1>5, <2>2, <3>1
    <3>3. b[k] = seq[i + k]
      BY <1>2, <3>2
    <3>4. c[(i - 1) + k] = b[k]
      BY <1>5, <3>2
    <3> QED BY <3>2, <3>3, <3>4
  <2> QED BY <1>5, <2>1, <2>2
<1>7. \A j \in 1 .. Len(seq) - 1 : j < i => c[j] = seq[j]
  BY <1>6
<1>8. \A j \in 1 .. Len(seq) - 1 : j >= i => c[j] = seq[j + 1]
  <2>1. \A j \in 1 .. Len(seq) - 1 : j >= i => ~(j < i)
    OBVIOUS
  <2> QED BY <1>6, <2>1
<1> QED BY <1>3, <1>4, <1>5, <1>7, <1>8

\* Append, an element at a time.
LEMMA AppendIs ==
    ASSUME NEW S, NEW list \in Seq(S), NEW e \in S
    PROVE  /\ Append(list, e) \in Seq(S) /\ Len(list) \in Nat
           /\ DOMAIN Append(list, e) = 1 .. Len(list) + 1 /\ DOMAIN list = 1 .. Len(list)
           /\ \A i \in 1 .. Len(list) : Append(list, e)[i] = list[i]
           /\ Append(list, e)[Len(list) + 1] = e
           /\ Append(list, e) # <<>> /\ Last(Append(list, e)) = e
BY DEF Last

LEMMA InRange ==
    ASSUME NEW S, NEW list \in Seq(S), NEW e \in Range(list)
    PROVE  e \in S /\ \E i \in 1 .. Len(list) : list[i] = e
<1>1. DOMAIN list = 1 .. Len(list) /\ \A i \in 1 .. Len(list) : list[i] \in S
  OBVIOUS
<1> QED BY <1>1 DEF Range

\* A list of distinct elements without one of them.
LEMMA RemoveOneIs ==
    ASSUME NEW S, NEW list \in Seq(S),
           \A m, n \in DOMAIN list : list[m] = list[n] => m = n,
           NEW i \in 1 .. Len(list), NEW rest, rest = RemoveAt(list, i)
    PROVE  /\ rest \in Seq(S) /\ Len(rest) = Len(list) - 1
           /\ \A m, n \in DOMAIN rest : rest[m] = rest[n] => m = n
           /\ Range(rest) = Range(list) \ {list[i]}
           /\ \A j \in DOMAIN rest : j > 1 => \E m \in DOMAIN list : m > 1 /\ rest[j] = list[m]
<1>1. PICK len \in Nat : len = Len(list) /\ DOMAIN list = 1 .. len
  OBVIOUS
<1>2. /\ rest \in Seq(S) /\ Len(rest) = len - 1
      /\ \A j \in 1 .. len - 1 : j < i => rest[j] = list[j]
      /\ \A j \in 1 .. len - 1 : j >= i => rest[j] = list[j + 1]
  <2>1. RemoveAt(list, i) \in Seq(S)
    BY RemoveAtIs
  <2>2. Len(RemoveAt(list, i)) = Len(list) - 1
    BY RemoveAtIs
  <2>3. \A j \in 1 .. Len(list) - 1 : j < i => RemoveAt(list, i)[j] = list[j]
    BY RemoveAtIs
  <2>4. \A j \in 1 .. Len(list) - 1 : j >= i => RemoveAt(list, i)[j] = list[j + 1]
    BY RemoveAtIs
  <2> QED BY <1>1, <2>1, <2>2, <2>3, <2>4
<1>3. DOMAIN rest = 1 .. len - 1 /\ i \in 1 .. len
  BY <1>1, <1>2
\* Where an element of the rest has been.
<1> DEFINE was(j) == IF j < i THEN j ELSE j + 1
<1>4. ASSUME NEW j \in 1 .. len - 1
      PROVE  /\ was(j) \in 1 .. len /\ was(j) # i /\ rest[j] = list[was(j)]
             /\ j > 1 => was(j) > 1
  BY <1>1, <1>2, <1>3
<1>5. ASSUME NEW j \in 1 .. len - 1, NEW m \in 1 .. len - 1, was(j) = was(m) PROVE j = m
  BY <1>1, <1>3, <1>5
<1>6. ASSUME NEW m \in 1 .. len, m # i PROVE \E j \in 1 .. len - 1 : was(j) = m
  <2>1. CASE m < i
    <3>1. m \in 1 .. len - 1 /\ was(m) = m
      BY <1>1, <1>3, <2>1
    <3> QED BY <3>1
  <2>2. CASE m > i
    <3>1. m - 1 \in 1 .. len - 1 /\ was(m - 1) = m
      BY <1>1, <1>3, <2>2
    <3> QED BY <3>1
  <2> QED BY <1>1, <1>3, <1>6, <2>1, <2>2
<1> HIDE DEF was
<1>7. \A m, n \in DOMAIN rest : rest[m] = rest[n] => m = n
  <2> SUFFICES ASSUME NEW m \in 1 .. len - 1, NEW n \in 1 .. len - 1, rest[m] = rest[n] PROVE m = n
    BY <1>3
  <2>1. list[was(m)] = list[was(n)] /\ was(m) \in 1 .. len /\ was(n) \in 1 .. len
    BY <1>4
  <2> QED BY <1>1, <1>5, <2>1
<1>8. Range(rest) = Range(list) \ {list[i]}
  <2>1. ASSUME NEW e \in Range(rest) PROVE e \in Range(list) \ {list[i]}
    <3>1. PICK j \in 1 .. len - 1 : e = rest[j]
      BY <1>3 DEF Range
    <3>2. e = list[was(j)] /\ was(j) \in 1 .. len /\ was(j) # i
      BY <1>4, <3>1
    <3>3. list[was(j)] # list[i]
      BY <1>1, <1>3, <3>2
    <3> QED BY <1>1, <3>2, <3>3 DEF Range
  <2>2. ASSUME NEW e \in Range(list) \ {list[i]} PROVE e \in Range(rest)
    <3>1. PICK m \in 1 .. len : e = list[m]
      BY <1>1 DEF Range
    <3>2. m # i
      BY <3>1
    <3>3. PICK j \in 1 .. len - 1 : was(j) = m
      BY <1>6, <3>2
    <3>4. rest[j] = e
      BY <1>4, <3>1, <3>3
    <3> QED BY <1>3, <3>4 DEF Range
  <2> QED BY <2>1, <2>2
<1>9. ASSUME NEW j \in DOMAIN rest, j > 1 PROVE \E m \in DOMAIN list : m > 1 /\ rest[j] = list[m]
  BY <1>1, <1>3, <1>4, <1>9
<1> QED BY <1>1, <1>2, <1>7, <1>8, <1>9

\* A list of distinct elements has as many as it is long.
LEMMA DistinctCount ==
    ASSUME NEW S, NEW list \in Seq(S), \A m, n \in DOMAIN list : list[m] = list[n] => m = n
    PROVE  Cardinality(Range(list)) = Len(list)
<1>1. DOMAIN list = 1 .. Len(list) /\ Len(list) \in Nat
  OBVIOUS
<1>2. list \in [1 .. Len(list) -> Range(list)]
  BY <1>1 DEF Range
<1>3. list \in Bijection(1 .. Len(list), Range(list))
  <2>1. list \in Injection(1 .. Len(list), Range(list))
    BY <1>1, <1>2, Zenon DEF Injection, IsInjective
  <2>2. \A e \in Range(list) : \E m \in 1 .. Len(list) : list[m] = e
    BY <1>1, Zenon DEF Range
  <2>3. list \in Surjection(1 .. Len(list), Range(list))
    BY <1>2, <2>2, Zenon DEF Surjection
  <2> QED BY <2>1, <2>3 DEF Bijection
<1>4. ExistsBijection(1 .. Len(list), Range(list))
  BY <1>3 DEF ExistsBijection
<1> QED BY <1>1, <1>4, FS_CountingElements

-----------------------------------------------------------------------------
(* The page layer. *)

LEMMA PagesFinite == ASSUME NEW lent \in SUBSET Page PROVE IsFiniteSet(lent) /\ Cardinality(lent) \in Nat
<1>1. IsFiniteSet(Page)
  BY PoolAssumption, FS_Interval DEF Page
<1> QED BY <1>1, FS_Subset, FS_CardinalityType

LEMMA NoPoolMatches == PoolMatches(NoPool, {})
BY FS_EmptySet DEF PoolMatches, Pool, NoPool

\* The stack of free pages, also of a pool that is about to be obtained.
LEMMA FreePagesAre ==
    ASSUME NEW p, NEW lent, PoolMatches(p, lent)
    PROVE  /\ FreePages(p) \in Seq(Page)
           /\ \A m, n \in DOMAIN FreePages(p) : FreePages(p)[m] = FreePages(p)[n] => m = n
           /\ {FreePages(p)[n] : n \in DOMAIN FreePages(p)} = Page \ lent
<1>1. CASE lent # {}
  BY <1>1 DEF PoolMatches, FreePages, Pool
<1>2. CASE lent = {}
  <2>1. FreePages(p) = initPages
    BY <1>2 DEF PoolMatches, FreePages, NoPool
  <2>2. initPages \in Seq(Page) /\ DOMAIN initPages = 1 .. MAXPAGES
    BY PoolAssumption DEF initPages, Page
  <2>3. \A m, n \in DOMAIN initPages : initPages[m] = initPages[n] => m = n
    BY PoolAssumption DEF initPages
  <2>4. {initPages[n] : n \in DOMAIN initPages} = Page
    <3>1. ASSUME NEW q \in Page PROVE q + 1 \in 1 .. MAXPAGES /\ initPages[q + 1] = q
      BY PoolAssumption DEF initPages, Page
    <3>2. ASSUME NEW n \in 1 .. MAXPAGES PROVE initPages[n] \in Page
      BY PoolAssumption DEF initPages, Page
    <3> QED BY <2>2, <3>1, <3>2
  <2> QED BY <1>2, <2>1, <2>2, <2>3, <2>4
<1> QED BY <1>1, <1>2

\* get_page lends a page nobody has.
LEMMA GetPageLends ==
    ASSUME NEW p, NEW lent, PoolMatches(p, lent), ~Exhausted(p)
    PROVE  /\ NextPage(p) \in Page \ lent
           /\ PoolMatches(get_page(p), lent \cup {NextPage(p)})
<1> DEFINE free == FreePages(p)
           q == NextPage(p)
<1>1. /\ free \in Seq(Page) /\ free # <<>>
      /\ \A m, n \in DOMAIN free : free[m] = free[n] => m = n
      /\ {free[n] : n \in DOMAIN free} = Page \ lent
  BY FreePagesAre DEF Exhausted
<1>2. q = free[1] /\ 1 \in DOMAIN free
  BY <1>1 DEF NextPage
<1>3. q \in Page \ lent
  BY <1>1, <1>2
<1>4. /\ Tail(free) \in Seq(Page) /\ Len(Tail(free)) = Len(free) - 1
      /\ \A n \in 1 .. Len(free) - 1 : Tail(free)[n] = free[n + 1]
  BY <1>1
<1>5. DOMAIN Tail(free) = 1 .. Len(free) - 1 /\ DOMAIN free = 1 .. Len(free) /\ Len(free) \in Nat
  BY <1>1, <1>4
<1> DEFINE rest == Tail(free)
           new == get_page(p)
<1>6. /\ new.pool = TRUE /\ new.next_free_page = rest /\ new.num_in_use = p.num_in_use + 1
      /\ new \in Pool
  BY <1>4 DEF get_page, PoolMatches, Pool
<1>7. Cardinality(lent \cup {q}) = Cardinality(lent) + 1
  <2>1. lent \in SUBSET Page
    BY DEF PoolMatches
  <2> QED BY <1>3, <2>1, PagesFinite, FS_AddElement
<1> HIDE DEF free, rest, new, q
<1>8. \A m, n \in DOMAIN rest : rest[m] = rest[n] => m = n
  <2> SUFFICES ASSUME NEW m \in DOMAIN rest, NEW n \in DOMAIN rest, rest[m] = rest[n] PROVE m = n
    OBVIOUS
  <2>1. m + 1 \in DOMAIN free /\ n + 1 \in DOMAIN free /\ free[m + 1] = free[n + 1]
    BY <1>4, <1>5 DEF rest
  <2>2. m + 1 = n + 1
    BY <1>1, <2>1
  <2> QED BY <1>5, <2>2 DEF rest
<1>9. {rest[n] : n \in DOMAIN rest} = Page \ (lent \cup {q})
  <2>1. ASSUME NEW n \in DOMAIN rest PROVE rest[n] \in Page \ (lent \cup {q})
    <3>1. n + 1 \in DOMAIN free /\ n + 1 # 1 /\ rest[n] = free[n + 1]
      BY <1>4, <1>5 DEF rest
    <3> QED BY <1>1, <1>2, <3>1
  <2>2. ASSUME NEW z \in Page \ (lent \cup {q}) PROVE \E n \in DOMAIN rest : rest[n] = z
    <3>1. PICK n \in DOMAIN free : free[n] = z
      BY <1>1
    <3>2. n # 1
      BY <1>2, <3>1
    <3>3. n - 1 \in DOMAIN rest /\ rest[n - 1] = free[n]
      BY <1>4, <1>5, <3>2 DEF rest
    <3> QED BY <3>1, <3>3
  <2> QED BY <2>1, <2>2
<1>10. PoolMatches(new, lent \cup {q})
  BY <1>3, <1>6, <1>7, <1>8, <1>9 DEF PoolMatches
<1> QED BY <1>3, <1>10 DEF new, q

\* free_page takes back a page that is lent.
LEMMA FreePageTakesBack ==
    ASSUME NEW p, NEW lent, PoolMatches(p, lent), NEW q \in lent
    PROVE  PoolMatches(free_page(p, q), lent \ {q})
<1> DEFINE new == free_page(p, q)
           left == lent \ {q}
<1>1. lent \in SUBSET Page /\ IsFiniteSet(lent) /\ Cardinality(lent) \in Nat /\ p.num_in_use = Cardinality(lent)
  <2>1. lent \in SUBSET Page
    BY DEF PoolMatches
  <2> QED BY <2>1, PagesFinite DEF PoolMatches
<1>2. Cardinality(left) = Cardinality(lent) - 1 /\ IsFiniteSet(left) /\ Cardinality(left) \in Nat
  BY <1>1, FS_RemoveElement, FS_CardinalityType
<1>3. Cardinality(left) = 0 <=> left = {}
  BY <1>2, FS_EmptySet
<1>4. CASE left = {}
  <2>1. new = NoPool
    BY <1>1, <1>2, <1>3, <1>4 DEF free_page
  <2> QED BY <1>4, <2>1, NoPoolMatches
<1>5. CASE left # {}
  <2>1. p.num_in_use # 1
    BY <1>1, <1>2, <1>3, <1>5
  <2> DEFINE free == p.next_free_page
             more == <<q>> \o free
  <2>2. /\ free \in Seq(Page) /\ q \in Page
        /\ \A m, n \in DOMAIN free : free[m] = free[n] => m = n
        /\ {free[n] : n \in DOMAIN free} = Page \ lent
    BY DEF PoolMatches, Pool
  <2>3. /\ new = [p EXCEPT !.next_free_page = more, !.num_in_use = @ - 1]
    BY <2>1 DEF free_page
  <2>4. /\ more \in Seq(Page) /\ Len(more) = Len(free) + 1 /\ more[1] = q
        /\ \A n \in 1 .. Len(free) : more[n + 1] = free[n]
    BY <2>2
  <2>5. DOMAIN more = 1 .. Len(free) + 1 /\ DOMAIN free = 1 .. Len(free) /\ Len(free) \in Nat
    BY <2>2, <2>4
  <2> HIDE DEF more
  <2>6. /\ new \in Pool /\ new.pool = p.pool /\ new.next_free_page = more
        /\ new.num_in_use = p.num_in_use - 1
    <3>1. p \in Pool /\ p.num_in_use - 1 \in Nat
      BY <1>1, <1>2 DEF PoolMatches
    <3> QED BY <2>3, <2>4, <3>1 DEF Pool
  <2> HIDE DEF free, new
  <2>7. \A m, n \in DOMAIN more : more[m] = more[n] => m = n
    <3> SUFFICES ASSUME NEW m \in DOMAIN more, NEW n \in DOMAIN more, more[m] = more[n] PROVE m = n
      OBVIOUS
    <3>1. \A i \in DOMAIN more : i # 1 => i - 1 \in DOMAIN free /\ more[i] = free[i - 1] /\ more[i] # q
      BY <2>2, <2>4, <2>5
    <3>2. CASE m = 1 \/ n = 1
      BY <2>4, <3>1, <3>2
    <3>3. CASE m # 1 /\ n # 1
      <4>1. m - 1 = n - 1
        BY <2>2, <3>1, <3>3
      <4> QED BY <2>5, <4>1
    <3> QED BY <3>2, <3>3
  <2>8. {more[n] : n \in DOMAIN more} = Page \ left
    <3>1. ASSUME NEW n \in DOMAIN more PROVE more[n] \in Page \ left
      <4>1. CASE n = 1
        BY <2>2, <2>4, <4>1
      <4>2. CASE n # 1
        <5>1. n - 1 \in DOMAIN free /\ more[n] = free[n - 1]
          BY <2>4, <2>5, <4>2
        <5> QED BY <2>2, <5>1
      <4> QED BY <4>1, <4>2
    <3>2. ASSUME NEW z \in Page \ left PROVE \E n \in DOMAIN more : more[n] = z
      <4>1. CASE z = q
        BY <2>4, <2>5, <4>1
      <4>2. CASE z # q
        <5>1. PICK n \in DOMAIN free : free[n] = z
          BY <2>2, <4>2
        <5>2. n + 1 \in DOMAIN more /\ more[n + 1] = z
          BY <2>4, <2>5, <5>1
        <5> QED BY <5>2
      <4> QED BY <4>1, <4>2
    <3> QED BY <3>1, <3>2
  <2>9. p.pool = TRUE
    BY DEF PoolMatches
  <2> QED BY <1>1, <1>2, <1>5, <2>6, <2>7, <2>8, <2>9 DEF PoolMatches, new
<1> QED BY <1>4, <1>5
=============================================================================
