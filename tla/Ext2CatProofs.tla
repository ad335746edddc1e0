--------------------------- MODULE Ext2CatProofs ---------------------------
(***************************************************************************)
(* Proofs about the ext2 reader, for every image, path and size of a block *)
(* (Ext2Assumption): the inode a path leads to is the one the image lists  *)
(* under it, and what is copied is the file.                               *)
(***************************************************************************)
EXTENDS Ext2Cat, WellFoundedInduction, TLAPS

LEMMA Constants ==
    /\ EXT2_NDIR_BLOCKS \in Nat \ {0} /\ ADDR_PER_BLOCK \in Nat \ {0}
    /\ block_size \in Nat \ {0} /\ block_size = 4 * ADDR_PER_BLOCK
    /\ MaxBlocks = EXT2_NDIR_BLOCKS + ADDR_PER_BLOCK
BY Ext2Assumption DEF block_size, MaxBlocks

-----------------------------------------------------------------------------
(* Induction, in the form of sets of natural numbers, and loops.           *)

Below == {mn \in Nat \X Nat : mn[1] < mn[2]}

LEMMA BelowWellFounded == IsWellFoundedOn(Below, Nat)
BY NatLessThanWellFounded DEF OpToRel, Below

\* A set of naturals that is not empty has a least element.
LEMMA LeastExists ==
    ASSUME NEW S \in SUBSET Nat, S # {}
    PROVE  \E n \in S : \A m \in S : n <= m
<1>1. PICK x \in S : \A y \in S : ~ (<<y, x>> \in Below)
  <2>1. S \subseteq Nat
    OBVIOUS
  <2> QED BY <2>1, BelowWellFounded, WFMin, Zenon
<1>2. \A y \in S : ~ (y < x)
  <2> SUFFICES ASSUME NEW y \in S, y < x PROVE FALSE
    OBVIOUS
  <2>1. <<y, x>> \in Nat \X Nat /\ <<y, x>>[1] < <<y, x>>[2]
    OBVIOUS
  <2>2. <<y, x>> \in Below
    BY <2>1 DEF Below
  <2> QED BY <1>1, <2>2
<1> QED BY <1>2

\* Induction.
LEMMA Induction ==
    ASSUME NEW S \in SUBSET Nat, 0 \in S, \A n \in S : n + 1 \in S
    PROVE  S = Nat
<1> SUFFICES ASSUME Nat \ S # {} PROVE FALSE
  OBVIOUS
<1>1. PICK n \in Nat \ S : \A m \in Nat \ S : n <= m
  <2> DEFINE T == Nat \ S
  <2>1. T \in SUBSET Nat /\ T # {}
    OBVIOUS
  <2> HIDE DEF T
  <2>2. \E n \in T : \A m \in T : n <= m
    BY <2>1, LeastExists
  <2> QED BY <2>2 DEF T
<1>2. n # 0 /\ n - 1 \in Nat
  OBVIOUS
<1>3. n - 1 \in S
  BY <1>1, <1>2
<1> QED BY <1>2, <1>3

(* A loop of N rounds: after[i] is what i rounds have made of x.           *)

Steps(N, V) == [1 .. N -> [V -> V]]

IsRounds(g, N, V, x, step) ==
    g \in [0 .. N -> V] /\ g[0] = x /\ \A i \in 1 .. N : g[i] = step[i][g[i - 1]]

\* The function after exists, and its values stay in V if every round stays there.
LEMMA RoundsExist ==
    ASSUME NEW N \in Nat, NEW V, NEW x \in V, NEW step \in Steps(N, V)
    PROVE  \E g : IsRounds(g, N, V, x, step)
<1> DEFINE Upto(n) == {g \in [0 .. n -> V] :
                          g[0] = x /\ \A i \in 1 .. n : g[i] = step[i][g[i - 1]]}
           S == {n \in Nat : n <= N => Upto(n) # {}}
<1>1. 0 \in S
  <2>1. [i \in 0 .. 0 |-> x] \in Upto(0)
    OBVIOUS
  <2> QED BY <2>1
<1>2. ASSUME NEW n \in S PROVE n + 1 \in S
  <2>0. n \in Nat /\ n + 1 \in Nat
    OBVIOUS
  <2> SUFFICES ASSUME n + 1 <= N PROVE Upto(n + 1) # {}
    BY <2>0, Zenon
  <2>1. PICK g \in Upto(n) : TRUE
    OBVIOUS
  <2> DEFINE h == [i \in 0 .. n + 1 |-> IF i = n + 1 THEN step[i][g[n]] ELSE g[i]]
  <2>2. n + 1 \in 1 .. N /\ g[n] \in V
    OBVIOUS
  <2>3. step[n + 1][g[n]] \in V
    BY <2>2 DEF Steps
  <2>4. h \in [0 .. n + 1 -> V]
    <3> SUFFICES ASSUME NEW i \in 0 .. n + 1 PROVE h[i] \in V
      BY Zenon
    <3> CASE i = n + 1
      BY <2>3
    <3> CASE i # n + 1
      <4>1. i \in 0 .. n
        OBVIOUS
      <4> QED BY <4>1
    <3> QED OBVIOUS
  <2>5. h[0] = x
    OBVIOUS
  <2>6. ASSUME NEW i \in 1 .. n + 1 PROVE h[i] = step[i][h[i - 1]]
    <3>1. i - 1 \in 0 .. n /\ h[i - 1] = g[i - 1]
      OBVIOUS
    <3> CASE i = n + 1
      BY <3>1
    <3> CASE i # n + 1
      <4>1. i \in 1 .. n
        OBVIOUS
      <4> QED BY <3>1, <4>1
    <3> QED OBVIOUS
  <2>7. h \in Upto(n + 1)
    BY <2>4, <2>5, <2>6, Zenon
  <2> QED BY <2>7
<1>3. S = Nat
  <2>1. S \in SUBSET Nat
    OBVIOUS
  <2> HIDE DEF S
  <2> QED BY <1>1, <1>2, <2>1, Induction
<1>4. Upto(N) # {}
  <2>1. N \in S
    BY <1>3
  <2> QED BY <2>1
<1> QED BY <1>4 DEF IsRounds

-----------------------------------------------------------------------------
(* Blocks and bytes.                                                       *)

LEMMA DivIs ==
    ASSUME NEW x \in Nat, NEW b \in Nat \ {0}
    PROVE  x \div b \in Nat /\ (x \div b) * b <= x /\ x < (x \div b) * b + b
OBVIOUS

LEMMA DivSmall ==
    ASSUME NEW n \in Nat, NEW b \in Nat \ {0}, n < b
    PROVE  n \div b = 0 /\ n % b = n
OBVIOUS

LEMMA TimesMonotone ==
    ASSUME NEW a \in Nat, NEW c \in Nat, NEW b \in Nat, a <= c
    PROVE  a * b \in Nat /\ c * b \in Nat /\ a * b <= c * b
<1>1. PICK k \in Nat : c = a + k
  <2>1. c - a \in Nat /\ c = a + (c - a)
    OBVIOUS
  <2> QED BY <2>1
<1>2. c * b = a * b + k * b /\ k * b \in Nat /\ a * b \in Nat
  BY <1>1
<1> QED BY <1>2

LEMMA NextMultiple ==
    ASSUME NEW a \in Nat, NEW b \in Nat
    PROVE  a * b \in Nat /\ (a + 1) * b = a * b + b /\ (a + 1) * b \in Nat
OBVIOUS

\* A file has a k-th block, counted from 0, if it has a byte behind the first k blocks.
LEMMA BlocksAre ==
    ASSUME NEW fs, NEW ino, get_inode(fs, ino).i_size \in Nat, NEW k \in Nat
    PROVE  /\ Blocks(fs, ino) \in Nat
           /\ k < Blocks(fs, ino) <=> k * block_size < get_inode(fs, ino).i_size
<1> DEFINE size == get_inode(fs, ino).i_size
           x == size + block_size - 1
           q == x \div block_size
<1>1. x \in Nat /\ block_size \in Nat \ {0} /\ size \in Nat
  BY Constants
<1>2. q \in Nat /\ q * block_size <= x /\ x < q * block_size + block_size
  BY <1>1, DivIs
<1>3. Blocks(fs, ino) = q
  BY DEF Blocks
<1>4. ASSUME k < q PROVE k * block_size < size
  <2>1. (k + 1) * block_size <= q * block_size
    BY <1>1, <1>2, <1>4, TimesMonotone
  <2>2. (k + 1) * block_size = k * block_size + block_size /\ k * block_size \in Nat
    BY <1>1, NextMultiple
  <2>3. q * block_size \in Nat
    BY <1>1, <1>2, TimesMonotone
  <2> HIDE DEF q
  <2> QED BY <1>1, <1>2, <2>1, <2>2, <2>3
<1>5. ASSUME ~(k < q) PROVE ~(k * block_size < size)
  <2>1. q * block_size <= k * block_size /\ q * block_size \in Nat /\ k * block_size \in Nat
    BY <1>1, <1>2, <1>5, TimesMonotone
  <2> HIDE DEF q
  <2> QED BY <1>1, <1>2, <2>1
<1> QED BY <1>2, <1>3, <1>4, <1>5

-----------------------------------------------------------------------------
(* The path.                                                               *)

\* The path has a name for each slash that follows its first character, and one more.
LEMMA SplitIs ==
    ASSUME NEW p \in Paths
    PROVE  split_path(p) \in Seq(Seq(Characters)) /\ Len(split_path(p)) \in Nat \ {0}
<1> DEFINE V == Seq(Seq(Characters)) \ {<<>>}
           text == Tail(p)
           N == Len(text)
           x == << <<>> >>
           Cut(v, i) == IF text[i] = "/" THEN Append(v, <<>>)
                        ELSE [v EXCEPT ![Len(v)] = Append(@, text[i])]
           step == [i \in 1 .. N |-> [v \in V |-> Cut(v, i)]]
           cut[n \in 0 .. N] ==
               IF n = 0 THEN << <<>> >>
               ELSE IF text[n] = "/" THEN Append(cut[n - 1], <<>>)
               ELSE [cut[n - 1] EXCEPT ![Len(cut[n - 1])] = Append(@, text[n])]
           f == [n \in 0 .. N |->
                   IF n = 0 THEN << <<>> >>
                   ELSE IF text[n] = "/" THEN Append(cut[n - 1], <<>>)
                   ELSE [cut[n - 1] EXCEPT ![Len(cut[n - 1])] = Append(@, text[n])]]
<1>1. text \in Seq(Characters) /\ N \in Nat
  BY Ext2Assumption
<1>2. split_path(p) = cut[N]
  BY DEF split_path
<1>3. x \in V
  <2>1. <<>> \in Seq(Characters)
    OBVIOUS
  <2> QED BY <2>1
<1>4. ASSUME NEW v \in V, NEW i \in 1 .. N PROVE Cut(v, i) \in V
  <2> HIDE DEF text
  <2>1. v \in Seq(Seq(Characters)) /\ Len(v) \in Nat \ {0} /\ text[i] \in Characters
    BY <1>1
  <2>2. CASE text[i] = "/"
    <3>1. <<>> \in Seq(Characters)
      OBVIOUS
    <3>2. Append(v, <<>>) \in Seq(Seq(Characters)) /\ Len(Append(v, <<>>)) = Len(v) + 1
      BY <2>1, <3>1
    <3> QED BY <2>1, <2>2, <3>2
  <2>3. CASE text[i] # "/"
    <3> DEFINE w == Append(v[Len(v)], text[i])
    <3>1. v[Len(v)] \in Seq(Characters)
      BY <2>1
    <3>2. w \in Seq(Characters)
      BY <2>1, <3>1
    <3> HIDE DEF w
    <3>3. [v EXCEPT ![Len(v)] = w] \in Seq(Seq(Characters)) /\ Len([v EXCEPT ![Len(v)] = w]) = Len(v)
      BY <2>1, <3>2
    <3>4. [v EXCEPT ![Len(v)] = w] # <<>>
      BY <2>1, <3>3
    <3> QED BY <2>3, <3>3, <3>4 DEF w
  <2> QED BY <2>2, <2>3
<1>5. step \in Steps(N, V)
  BY <1>4 DEF Steps
<1>6. PICK g : IsRounds(g, N, V, x, step)
  <2> HIDE DEF V, step, N, x
  <2> QED BY <1>1, <1>3, <1>5, RoundsExist
<1>7. g \in [0 .. N -> V] /\ g[0] = x
  BY <1>6 DEF IsRounds
<1>8. ASSUME NEW i \in 1 .. N PROVE i - 1 \in 0 .. N /\ g[i] = Cut(g[i - 1], i)
  <2>1. i - 1 \in 0 .. N
    BY <1>1
  <2>2. g[i - 1] \in V /\ g[i] = step[i][g[i - 1]]
    BY <1>6, <1>7, <2>1 DEF IsRounds
  <2> QED BY <2>1, <2>2
<1>9. g = [n \in 0 .. N |->
             IF n = 0 THEN << <<>> >>
             ELSE IF text[n] = "/" THEN Append(g[n - 1], <<>>)
             ELSE [g[n - 1] EXCEPT ![Len(g[n - 1])] = Append(@, text[n])]]
  <2>1. g = [n \in 0 .. N |-> g[n]]
    BY <1>7
  <2>2. ASSUME NEW n \in 0 .. N PROVE g[n] = IF n = 0 THEN x ELSE Cut(g[n - 1], n)
    <3>1. n # 0 => n \in 1 .. N
      BY <1>1
    <3> HIDE DEF Cut, x, V, step, text
    <3> QED BY <1>7, <1>8, <3>1
  <2>3. g = [n \in 0 .. N |-> IF n = 0 THEN x ELSE Cut(g[n - 1], n)]
    <3> HIDE DEF Cut, x, V, step, text
    <3> QED BY <2>1, <2>2
  <2> QED BY <2>3, Zenon
<1>10. cut = f
  BY <1>9
<1>11. \A n \in 0 .. N : cut[n] = IF n = 0 THEN x ELSE Cut(cut[n - 1], n)
  BY <1>10
<1> HIDE DEF V, cut, text
<1>12. \A n \in 0 .. N : cut[n] \in V
  <2> DEFINE S == {n \in Nat : n <= N => cut[n] \in V}
  <2>1. 0 \in S
    <3>1. 0 \in 0 .. N /\ cut[0] = x
      <4> HIDE DEF Cut, x
      <4> QED BY <1>1, <1>11
    <3> QED BY <1>3, <3>1
  <2>2. ASSUME NEW n \in S PROVE n + 1 \in S
    <3>1. n \in Nat /\ n + 1 \in Nat /\ (n + 1) - 1 = n /\ n + 1 # 0
      OBVIOUS
    <3> SUFFICES ASSUME n + 1 <= N PROVE cut[n + 1] \in V
      BY <3>1
    <3>2. n + 1 \in 1 .. N /\ n + 1 \in 0 .. N /\ cut[n] \in V
      BY <1>1, <3>1
    <3>3. cut[n + 1] = Cut(cut[n], n + 1)
      BY <1>11, <3>1, <3>2
    <3> HIDE DEF Cut
    <3> QED BY <1>4, <3>2, <3>3
  <2>3. S = Nat
    <3>1. S \in SUBSET Nat
      OBVIOUS
    <3> HIDE DEF S
    <3> QED BY <2>1, <2>2, <3>1, Induction
  <2> QED BY <1>1, <2>3
<1>13. cut[N] \in V
  BY <1>1, <1>12
<1> QED BY <1>2, <1>13 DEF V

LEMMA EntriesAre ==
    ASSUME NEW fs \in Images, NEW dir
    PROVE  Entries(fs, dir) \subseteq EntryIn(fs)
<1> SUFFICES ASSUME NEW b \in DOMAIN fs.entries PROVE Range(fs.entries[b]) \subseteq EntryIn(fs)
  BY DEF Entries
<1>1. fs.entries[b] \in Seq(EntryIn(fs))
  BY Ext2Assumption DEF ImageOK
<1> QED BY <1>1 DEF Range

LEMMA ListedIs ==
    ASSUME NEW fs \in Images, NEW dir, NEW name
    PROVE  Listed(fs, dir, name) \in DOMAIN fs.inodes \cup {0}
<1>1. CASE \E e \in Entries(fs, dir) : e.name = name
  <2>1. (CHOOSE e \in Entries(fs, dir) : e.name = name) \in EntryIn(fs)
    BY <1>1, EntriesAre
  <2> QED BY <1>1, <2>1 DEF Listed, EntryIn
<1>2. CASE ~ \E e \in Entries(fs, dir) : e.name = name
  BY <1>2 DEF Listed
<1> QED BY <1>1, <1>2

\* What the image lists under the first n names, from what it lists under the names before.
LEMMA NamedIs ==
    ASSUME NEW fs \in Images, NEW p \in Paths
    PROVE  /\ Named(fs, p)[0] = EXT2_ROOT_INO
           /\ \A n \in 1 .. Len(split_path(p)) :
                Named(fs, p)[n] = IF Named(fs, p)[n - 1] = 0 THEN 0 ELSE Listed(fs, Named(fs, p)[n - 1], split_path(p)[n])
           /\ \A n \in 0 .. Len(split_path(p)) : Named(fs, p)[n] \in DOMAIN fs.inodes \cup {0}
<1> DEFINE names == split_path(p)
           N == Len(names)
           V == DOMAIN fs.inodes \cup {0}
           step == [i \in 1 .. N |-> [v \in V |-> IF v = 0 THEN 0 ELSE Listed(fs, v, names[i])]]
<1>1. N \in Nat
  BY SplitIs
<1>2. EXT2_ROOT_INO \in V
  BY Ext2Assumption DEF ImageOK
<1>3. step \in Steps(N, V)
  <2>1. \A v \in V, i \in 1 .. N : Listed(fs, v, names[i]) \in V
    BY ListedIs
  <2> HIDE DEF N
  <2> QED BY <2>1 DEF Steps
<1>4. PICK g : IsRounds(g, N, V, EXT2_ROOT_INO, step)
  <2> HIDE DEF N, V, step
  <2> QED BY <1>1, <1>2, <1>3, RoundsExist
<1>5. g \in [0 .. N -> V] /\ g[0] = EXT2_ROOT_INO
  BY <1>4 DEF IsRounds
<1> HIDE DEF N, names
<1>6. ASSUME NEW i \in 1 .. N
      PROVE  g[i] = IF g[i - 1] = 0 THEN 0 ELSE Listed(fs, g[i - 1], names[i])
  <2>1. i - 1 \in 0 .. N
    BY <1>1
  <2>2. g[i - 1] \in V /\ g[i] = step[i][g[i - 1]]
    BY <1>4, <1>5, <2>1 DEF IsRounds
  <2> QED BY <2>2
<1>7. g = [n \in 0 .. N |->
             IF n = 0 THEN EXT2_ROOT_INO
             ELSE IF g[n - 1] = 0 THEN 0 ELSE Listed(fs, g[n - 1], names[n])]
  <2>1. g = [n \in 0 .. N |-> g[n]]
    BY <1>5
  <2>2. ASSUME NEW n \in 0 .. N
        PROVE  g[n] = IF n = 0 THEN EXT2_ROOT_INO
                      ELSE IF g[n - 1] = 0 THEN 0 ELSE Listed(fs, g[n - 1], names[n])
    <3>1. n # 0 => n \in 1 .. N
      BY <1>1
    <3> QED BY <1>5, <1>6, <3>1
  <2> QED BY <2>1, <2>2
<1>8. Named(fs, p) = [n \in 0 .. N |->
                 IF n = 0 THEN EXT2_ROOT_INO
                 ELSE IF Named(fs, p)[n - 1] = 0 THEN 0 ELSE Listed(fs, Named(fs, p)[n - 1], names[n])]
  BY <1>7 DEF Named, N, names
<1>9. Named(fs, p)[0] = EXT2_ROOT_INO
  BY <1>1, <1>8
<1>10. ASSUME NEW n \in 1 .. N
       PROVE  Named(fs, p)[n] = IF Named(fs, p)[n - 1] = 0 THEN 0 ELSE Listed(fs, Named(fs, p)[n - 1], names[n])
  <2>1. n \in 0 .. N /\ n # 0
    BY <1>1
  <2> QED BY <1>8, <2>1
<1>11. ASSUME NEW n \in 0 .. N PROVE Named(fs, p)[n] \in V
  <2>1. n # 0 => n \in 1 .. N
    BY <1>1
  <2> QED BY <1>2, <1>9, <1>10, <2>1, ListedIs
<1> QED BY <1>9, <1>10, <1>11 DEF N, names

\* A path that is lost is lost to its end.
LEMMA LostStaysLost ==
    ASSUME NEW fs \in Images, NEW p \in Paths,
           NEW k \in 0 .. Len(split_path(p)), Named(fs, p)[k] = 0
    PROVE  Named(fs, p)[Len(split_path(p))] = 0
<1> DEFINE N == Len(split_path(p))
           S == {n \in Nat : k <= n /\ n <= N => Named(fs, p)[n] = 0}
<1>1. N \in Nat /\ k \in Nat /\ k <= N
  BY SplitIs
<1> HIDE DEF N
<1>2. 0 \in S
  BY <1>1
<1>3. ASSUME NEW n \in S PROVE n + 1 \in S
  <2>1. n \in Nat /\ n + 1 \in Nat /\ (n + 1) - 1 = n
    OBVIOUS
  <2> SUFFICES ASSUME k <= n + 1, n + 1 <= N PROVE Named(fs, p)[n + 1] = 0
    BY <2>1
  <2>2. CASE k = n + 1
    BY <2>2
  <2>3. CASE k # n + 1
    <3>1. Named(fs, p)[n] = 0 /\ n + 1 \in 1 .. N
      BY <1>1, <2>1, <2>3
    <3> QED BY <2>1, <3>1, NamedIs DEF N
  <2> QED BY <2>2, <2>3
<1>4. S = Nat
  <2>1. S \in SUBSET Nat
    OBVIOUS
  <2> HIDE DEF S
  <2> QED BY <1>2, <1>3, <2>1, Induction
<1>5. Named(fs, p)[N] = 0
  BY <1>1, <1>4
<1> QED BY <1>5 DEF N

-----------------------------------------------------------------------------
(* The search of a directory.                                              *)

\* The entries that are compared with a name, block by block.
LEMMA ComparedAre ==
    ASSUME NEW fs \in Images, NEW dir \in DOMAIN fs.inodes, NEW k \in 0 .. EXT2_NDIR_BLOCKS - 1,
           NEW b, b = get_inode(fs, dir).i_block[k]
    PROVE  /\ b \in DOMAIN fs.entries /\ b \in Nat
           /\ Compared(fs, b) \in Seq(EntryIn(fs)) /\ fs.entries[b] \in Seq(EntryIn(fs))
           /\ ~(k < Blocks(fs, dir)) => Compared(fs, b) = <<>>
           /\ \A j \in DOMAIN Compared(fs, b) : Compared(fs, b)[j] \in Entries(fs, dir) \cup Behind(fs, dir)
           /\ \A j \in DOMAIN fs.entries[b] :
                j \in DOMAIN Compared(fs, b) /\ Compared(fs, b)[j] = fs.entries[b][j]
<1>1. /\ fs.inodes[dir] \in Inode /\ PointersOK(fs, fs.inodes[dir])
      /\ fs.entries[0] = <<>>
  BY Ext2Assumption DEF ImageOK
<1>2. {b, b + 1} \subseteq DOMAIN fs.entries /\ (k * block_size >= get_inode(fs, dir).i_size => b = 0)
  BY <1>1 DEF PointersOK, get_inode
<1>3. b \in Nat /\ get_inode(fs, dir).i_size \in Nat
  BY <1>1, Constants DEF Inode, get_inode
<1>4. fs.entries[b] \in Seq(EntryIn(fs)) /\ fs.entries[b + 1] \in Seq(EntryIn(fs))
  BY <1>2, Ext2Assumption DEF ImageOK
<1>5. FirstEntry(fs, b + 1) \in EntryIn(fs)
  <2>1. <<>> \in Seq(Characters)
    OBVIOUS
  <2>2. Zero \in EntryIn(fs)
    BY <2>1 DEF Zero, EntryIn
  <2>3. fs.entries[b + 1] # <<>> => Head(fs.entries[b + 1]) \in EntryIn(fs)
    BY <1>4
  <2> QED BY <2>2, <2>3 DEF FirstEntry
<1> DEFINE s == fs.entries[b]
           e == FirstEntry(fs, b + 1)
<1>6. /\ Append(s, e) \in Seq(EntryIn(fs))
      /\ \A j \in DOMAIN Append(s, e) : Append(s, e)[j] \in Range(s) \cup {e}
      /\ \A j \in DOMAIN s : j \in DOMAIN Append(s, e) /\ Append(s, e)[j] = s[j]
  <2> HIDE DEF s, e
  <2>1. s \in Seq(EntryIn(fs)) /\ e \in EntryIn(fs)
    BY <1>4, <1>5 DEF s, e
  <2> QED BY <2>1 DEF Range
<1>7. Compared(fs, b) = s \/ Compared(fs, b) = Append(s, e)
  BY DEF Compared
<1>8. /\ Compared(fs, b) \in Seq(EntryIn(fs))
      /\ \A j \in DOMAIN Compared(fs, b) : Compared(fs, b)[j] \in Range(s) \cup {e}
      /\ \A j \in DOMAIN s : j \in DOMAIN Compared(fs, b) /\ Compared(fs, b)[j] = s[j]
  <2>1. s \in Seq(EntryIn(fs)) /\ \A j \in DOMAIN s : s[j] \in Range(s)
    BY <1>4 DEF Range
  <2> HIDE DEF s, e
  <2> QED BY <1>6, <1>7, <2>1
<1>9. ASSUME ~(k < Blocks(fs, dir)) PROVE Compared(fs, b) = <<>>
  <2>1. ~(k * block_size < get_inode(fs, dir).i_size) /\ k * block_size \in Nat
    BY <1>3, <1>9, BlocksAre, Constants, NextMultiple
  <2>2. b = 0
    BY <1>2, <1>3, <2>1
  <2> QED BY <1>1, <2>2 DEF Compared
<1>10. ASSUME k < Blocks(fs, dir)
       PROVE  Range(s) \cup {e} \subseteq Entries(fs, dir) \cup Behind(fs, dir)
  <2>1. k \in 0 .. MaxBlocks - 1 /\ k < EXT2_NDIR_BLOCKS
    BY Constants
  <2>2. BlockOf(fs, dir, k) = b
    BY <2>1 DEF BlockOf
  <2>3. b \in BlocksOf(fs, dir)
    BY <1>10, <2>1, <2>2 DEF BlocksOf
  <2> QED BY <1>2, <2>3 DEF Entries, Behind
<1>11. \A j \in DOMAIN Compared(fs, b) : Compared(fs, b)[j] \in Entries(fs, dir) \cup Behind(fs, dir)
  <2>1. DOMAIN <<>> = {}
    OBVIOUS
  <2> HIDE DEF s, e
  <2> QED BY <1>8, <1>9, <1>10, <2>1
<1> QED BY <1>2, <1>3, <1>4, <1>8, <1>9, <1>11

LEMMA LeastOf ==
    ASSUME NEW S \in SUBSET Nat, S # {}
    PROVE  Min(S) \in S
<1>1. \E n \in S : \A m \in S : n <= m
  BY LeastExists
<1> QED BY <1>1 DEF Min

\* What is found is an entry that was compared and matches; if nothing is found, no
\* entry of a direct block has the name.
LEMMA SearchFinds ==
    ASSUME NEW fs \in Images, NEW dir \in DOMAIN fs.inodes, NEW name \in Seq(Characters)
    PROVE  LET res == get_inode_from_dir(fs, dir, name) IN
           \/ \E k \in 0 .. EXT2_NDIR_BLOCKS - 1 :
                LET b == get_inode(fs, dir).i_block[k] IN
                \E j \in DOMAIN Compared(fs, b) :
                    Compared(fs, b)[j].inode = res /\ IsPrefix(Compared(fs, b)[j].name, name)
           \/ /\ res = 0
              /\ \A k \in 0 .. EXT2_NDIR_BLOCKS - 1 :
                    LET b == get_inode(fs, dir).i_block[k] IN
                    \A j \in DOMAIN fs.entries[b] : fs.entries[b][j].name # name
<1> DEFINE i_block == get_inode(fs, dir).i_block
           blocks == {k \in 0 .. EXT2_NDIR_BLOCKS - 1 : Hits(fs, i_block[k], name) # {}}
<1>0. EXT2_NDIR_BLOCKS \in Nat \ {0}
  BY Constants
<1>1. CASE blocks # {}
  <2>1. blocks \in SUBSET Nat
    BY <1>0
  <2>2. Min(blocks) \in blocks
    <3> HIDE DEF blocks
    <3> QED BY <1>1, <2>1, LeastOf
  <2> DEFINE b == i_block[Min(blocks)]
  <2>3. Min(blocks) \in 0 .. EXT2_NDIR_BLOCKS - 1 /\ Hits(fs, b, name) # {}
    BY <2>2
  <2>4. Compared(fs, b) \in Seq(EntryIn(fs))
    <3> HIDE DEF blocks
    <3> QED BY <2>3, ComparedAre
  <2>5. Hits(fs, b, name) \in SUBSET Nat
    <3> HIDE DEF b
    <3> QED BY <2>4 DEF Hits
  <2>6. Min(Hits(fs, b, name)) \in Hits(fs, b, name)
    BY <2>3, <2>5, LeastOf
  <2>7. get_inode_from_dir(fs, dir, name) = Compared(fs, b)[Min(Hits(fs, b, name))].inode
    BY <1>1 DEF get_inode_from_dir
  <2> HIDE DEF blocks
  <2> QED BY <2>3, <2>6, <2>7 DEF Hits, Matches
<1>2. CASE blocks = {}
  <2>1. get_inode_from_dir(fs, dir, name) = 0
    BY <1>2 DEF get_inode_from_dir
  <2>2. ASSUME NEW k \in 0 .. EXT2_NDIR_BLOCKS - 1, NEW b, b = i_block[k],
               NEW j \in DOMAIN fs.entries[b], fs.entries[b][j].name = name
        PROVE  FALSE
    <3>1. b = get_inode(fs, dir).i_block[k]
      BY <2>2
    <3>2. j \in DOMAIN Compared(fs, b) /\ Compared(fs, b)[j] = fs.entries[b][j]
      <4> HIDE DEF i_block, blocks
      <4> QED BY <3>1, ComparedAre
    <3>3. Compared(fs, b)[j].name = name
      BY <2>2, <3>2
    <3>4. IsPrefix(name, name)
      BY DEF IsPrefix
    <3>5. j \in Hits(fs, b, name)
      BY <3>2, <3>3, <3>4 DEF Hits, Matches
    <3> QED BY <1>2, <2>2, <3>5
  <2> QED BY <2>1, <2>2
<1> QED BY <1>1, <1>2

\* The search returns the inode listed, unless there is an impostor or the directory
\* has blocks that are not searched.
LEMMA SearchExact ==
    ASSUME NEW fs \in Images, NEW dir \in DOMAIN fs.inodes, NEW name \in Seq(Characters)
    PROVE  LET res == get_inode_from_dir(fs, dir, name) IN
           /\ res \in DOMAIN fs.inodes \cup {0}
           /\ Impostors(fs, dir, name) = {} /\ ~(Blocks(fs, dir) > EXT2_NDIR_BLOCKS) => res = Listed(fs, dir, name)
<1> DEFINE res == get_inode_from_dir(fs, dir, name)
<1>0. EXT2_NDIR_BLOCKS \in Nat \ {0} /\ get_inode(fs, dir).i_size \in Nat /\ Blocks(fs, dir) \in Nat
  <2>1. fs.inodes[dir] \in Inode
    BY Ext2Assumption DEF ImageOK
  <2>2. get_inode(fs, dir).i_size \in Nat
    BY <2>1 DEF Inode, get_inode
  <2> QED BY <2>2, Constants, BlocksAre
<1>1. ASSUME NEW k \in 0 .. EXT2_NDIR_BLOCKS - 1, NEW b, b = get_inode(fs, dir).i_block[k],
             NEW j \in DOMAIN Compared(fs, b), Compared(fs, b)[j].inode = res,
             IsPrefix(Compared(fs, b)[j].name, name)
      PROVE  /\ res \in DOMAIN fs.inodes \cup {0}
             /\ Impostors(fs, dir, name) = {} => res = Listed(fs, dir, name)
  <2> DEFINE e == Compared(fs, b)[j]
  <2>1. Compared(fs, b) \in Seq(EntryIn(fs)) /\ e \in Entries(fs, dir) \cup Behind(fs, dir)
    BY <1>1, ComparedAre
  <2>2. e \in EntryIn(fs)
    BY <1>1, <2>1
  <2>5. e.inode # Listed(fs, dir, name) => e \in Impostors(fs, dir, name)
    <3> HIDE DEF e
    <3>1. IsPrefix(e.name, name)
      BY <1>1 DEF e
    <3> QED BY <2>1, <3>1 DEF Impostors
  <2> QED BY <1>1, <2>2, <2>5 DEF EntryIn
<1>2. ASSUME res = 0, ~(Blocks(fs, dir) > EXT2_NDIR_BLOCKS),
             \A k \in 0 .. EXT2_NDIR_BLOCKS - 1 :
                LET b == get_inode(fs, dir).i_block[k] IN
                \A j \in DOMAIN fs.entries[b] : fs.entries[b][j].name # name
      PROVE  res = Listed(fs, dir, name)
  <2>1. ASSUME NEW e \in Entries(fs, dir), e.name = name PROVE FALSE
    <3>1. PICK b \in BlocksOf(fs, dir) \cap DOMAIN fs.entries : e \in Range(fs.entries[b])
      BY DEF Entries
    <3>2. PICK k \in 0 .. MaxBlocks - 1 : k < Blocks(fs, dir) /\ b = BlockOf(fs, dir, k)
      BY <3>1 DEF BlocksOf
    <3>3. k \in 0 .. EXT2_NDIR_BLOCKS - 1 /\ k < EXT2_NDIR_BLOCKS
      BY <1>0, <1>2, <3>2
    <3>4. b = get_inode(fs, dir).i_block[k]
      BY <3>2, <3>3 DEF BlockOf
    <3>5. PICK j \in DOMAIN fs.entries[b] : e = fs.entries[b][j]
      BY <3>1 DEF Range
    <3> QED BY <1>2, <2>1, <3>3, <3>4, <3>5
  <2> QED BY <1>2, <2>1 DEF Listed
<1> QED BY <1>1, <1>2, SearchFinds

-----------------------------------------------------------------------------
(* The walk.                                                               *)

LEMMA RootIs ==
    ASSUME TypeOK
    PROVE  /\ get_inode(image, root) \in Inode /\ get_inode(image, root).i_size \in Nat
           /\ get_inode(image, root).i_block \in [0 .. EXT2_NDIR_BLOCKS -> Nat]
           /\ Blocks(image, root) \in Nat
<1>1. get_inode(image, root) \in Inode
  BY Ext2Assumption DEF TypeOK, ImageOK, get_inode
<1>2. get_inode(image, root).i_size \in Nat /\ get_inode(image, root).i_block \in [0 .. EXT2_NDIR_BLOCKS -> Nat]
  BY <1>1 DEF Inode
<1> QED BY <1>1, <1>2, BlocksAre

LEMMA Initially == Init => IInv
<1> SUFFICES ASSUME Init PROVE IInv
  OBVIOUS
<1>1. TypeOK
  <2>1. EXT2_ROOT_INO \in DOMAIN image.inodes
    BY Ext2Assumption DEF Init, ImageOK
  <2> QED BY <2>1 DEF Init, TypeOK
<1>2. PartsInv /\ WalkInv /\ CopyInv
  BY DEF Init, PartsInv, WalkInv, CopyInv, Arrived, LookupExact, CopyExact
<1> QED BY <1>1, <1>2 DEF IInv

LEMMA StutterKeeps == IInv /\ UNCHANGED vars => IInv'
BY DEF IInv, TypeOK, PartsInv, WalkInv, CopyInv, Arrived, LookupExact, CopyExact, vars

LEMMA FailKeeps == IInv /\ Fail => IInv'
BY DEF IInv, TypeOK, PartsInv, WalkInv, CopyInv, Arrived, LookupExact, CopyExact, Fail, Exits

LEMMA MapKeeps == IInv /\ mmap_fs => IInv'
<1> SUFFICES ASSUME IInv, mmap_fs PROVE IInv'
  OBVIOUS
<1>1. /\ split_path(path) \in Seq(Seq(Characters)) /\ Len(split_path(path)) \in Nat \ {0}
      /\ Named(image, path)[0] = EXT2_ROOT_INO
  BY SplitIs, NamedIs DEF IInv, TypeOK
<1>2. parts' = split_path(path) /\ path' = path /\ image' = image /\ pc' = "walking"
  BY DEF mmap_fs
<1>3. TypeOK' /\ PartsInv' /\ CopyInv'
  BY <1>2 DEF IInv, TypeOK, PartsInv, WalkInv, CopyInv, Arrived, CopyExact, mmap_fs
<1>4. root' = Named(image, path)[part' - 1] /\ part' \in 1 .. Len(parts')
  BY <1>1, <1>2 DEF IInv, WalkInv, mmap_fs
<1>5. answer' = "none"
  BY DEF IInv, WalkInv, mmap_fs
<1>6. WalkInv'
  BY <1>2, <1>4, <1>5 DEF WalkInv, LookupExact
<1> QED BY <1>3, <1>6 DEF IInv

\* What the search of the next name returns.
LEMMA NextNameIs ==
    ASSUME IInv, pc = "walking"
    PROVE  LET res == get_inode_from_dir(image, root, parts[part]) IN
           /\ parts = split_path(path) /\ part \in 1 .. Len(parts) /\ Len(parts) \in Nat \ {0}
           /\ res \in DOMAIN image.inodes \cup {0}
           /\ res = Named(image, path)[part] \/ Misleading(image, path)
<1>1. parts = split_path(path) /\ part \in 1 .. Len(parts) /\ image \in Images /\ path \in Paths
      /\ root \in DOMAIN image.inodes /\ (root = Named(image, path)[part - 1] \/ Misleading(image, path))
  BY DEF IInv, PartsInv, WalkInv, TypeOK
<1>2. parts \in Seq(Seq(Characters)) /\ Len(parts) \in Nat \ {0}
  BY <1>1, SplitIs
<1>3. parts[part] \in Seq(Characters)
  BY <1>1, <1>2
<1> DEFINE res == get_inode_from_dir(image, root, parts[part])
<1>4. /\ res \in DOMAIN image.inodes \cup {0}
      /\ Impostors(image, root, parts[part]) = {} /\ ~(Blocks(image, root) > EXT2_NDIR_BLOCKS)
            => res = Listed(image, root, parts[part])
  BY <1>1, <1>3, SearchExact
<1>5. ASSUME ~Misleading(image, path) PROVE res = Named(image, path)[part]
  <2>1. root = Named(image, path)[part - 1] /\ root # 0
    BY <1>1, <1>5, Ext2Assumption DEF ImageOK
  <2>2. Impostors(image, root, parts[part]) = {} /\ ~(Blocks(image, root) > EXT2_NDIR_BLOCKS)
    BY <1>1, <1>5, <2>1 DEF Misleading
  <2>3. Named(image, path)[part] = Listed(image, root, parts[part])
    BY <1>1, <2>1, NamedIs
  <2> QED BY <1>4, <2>2, <2>3
<1> QED BY <1>1, <1>2, <1>4, <1>5

LEMMA EnterKeeps == IInv /\ Enter => IInv'
<1> SUFFICES ASSUME IInv, Enter PROVE IInv'
  OBVIOUS
<1> DEFINE res == get_inode_from_dir(image, root, parts[part])
<1>1. /\ pc = "walking" /\ res # 0 /\ root' = res /\ part' = part + 1
      /\ pc' = (IF part = Len(parts) THEN "direct" ELSE "walking")
      /\ UNCHANGED <<image, path, parts, out, bytes_read, answer>>
  BY DEF Enter
<1>2. /\ parts = split_path(path) /\ part \in 1 .. Len(parts) /\ Len(parts) \in Nat \ {0}
      /\ res \in DOMAIN image.inodes \cup {0}
      /\ res = Named(image, path)[part] \/ Misleading(image, path)
  BY <1>1, NextNameIs
<1> HIDE DEF res
<1>3. out = <<>> /\ bytes_read = 0 /\ answer = "none"
  BY <1>1 DEF IInv, CopyInv, WalkInv
<1>4. TypeOK' /\ PartsInv'
  BY <1>1, <1>2 DEF IInv, TypeOK, PartsInv
<1>5. WalkInv'
  <2>1. CASE part = Len(parts)
    BY <1>1, <1>2, <1>3, <2>1 DEF WalkInv, LookupExact
  <2>2. CASE part # Len(parts)
    <3>1. part + 1 \in 1 .. Len(parts) /\ (part + 1) - 1 = part
      BY <1>2, <2>2
    <3> QED BY <1>1, <1>2, <1>3, <2>2, <3>1 DEF WalkInv, LookupExact
  <2> QED BY <2>1, <2>2
<1>6. CopyInv'
  <2>1. get_inode(image', root').i_size \in Nat
    BY <1>4, Ext2Assumption DEF TypeOK, ImageOK, Inode, get_inode
  <2>2. Len(out') = 0 /\ DOMAIN out' = {} /\ bytes_read' = 0 /\ answer' = "none" /\ out' = <<>>
    BY <1>1, <1>3
  <2>3. 0 * block_size = 0 /\ 0 <= EXT2_NDIR_BLOCKS
    BY Constants
  <2>4. pc' \in {"direct", "walking"}
    BY <1>1
  <2> QED BY <2>1, <2>2, <2>3, <2>4 DEF CopyInv, CopyExact, Arrived
<1> QED BY <1>4, <1>5, <1>6 DEF IInv

LEMMA DoesNotExistKeeps == IInv /\ DoesNotExist => IInv'
<1> SUFFICES ASSUME IInv, DoesNotExist PROVE IInv'
  OBVIOUS
<1>1. /\ pc = "walking" /\ get_inode_from_dir(image, root, parts[part]) = 0
      /\ pc' = "exited" /\ answer' = "does not exist"
      /\ UNCHANGED <<image, path, parts, part, root, out, bytes_read>>
  BY DEF DoesNotExist, Exits
<1>2. /\ parts = split_path(path) /\ part \in 1 .. Len(parts) /\ Len(parts) \in Nat \ {0}
      /\ 0 = Named(image, path)[part] \/ Misleading(image, path)
  BY <1>1, NextNameIs
<1>3. TypeOK' /\ PartsInv' /\ CopyInv'
  BY <1>1, <1>2 DEF IInv, TypeOK, PartsInv, CopyInv, CopyExact, Arrived
<1>4. Named(image, path)[Len(parts)] = 0 \/ Misleading(image, path)
  <2>1. image \in Images /\ path \in Paths /\ part \in 0 .. Len(parts)
    BY <1>2 DEF IInv, TypeOK
  <2> QED BY <1>2, <2>1, LostStaysLost
<1>5. WalkInv'
  BY <1>1, <1>4 DEF WalkInv, LookupExact
<1> QED BY <1>3, <1>5 DEF IInv

-----------------------------------------------------------------------------
(* The copy.                                                               *)

\* What is copied next, when something is left.
LEMMA NextPiece ==
    ASSUME IInv, Arrived, bytes_left > 0
    PROVE  LET n == Len(out)
               size == get_inode(image, root).i_size
           IN
           /\ n \in Nat /\ n * block_size < size /\ size \in Nat
           /\ bytes_read = n * block_size
           /\ bytes_to_read = BytesOf(image, root, n) /\ bytes_to_read \in Nat
           /\ bytes_read + bytes_to_read =
                IF (n + 1) * block_size < size THEN (n + 1) * block_size ELSE size
<1> DEFINE n == Len(out)
           size == get_inode(image, root).i_size
           N == n * block_size
<1>1. n \in Nat /\ size \in Nat /\ bytes_read \in Nat /\ block_size \in Nat \ {0}
  BY RootIs, Constants DEF IInv, TypeOK
<1>2. N \in Nat /\ (n + 1) * block_size = N + block_size
  BY <1>1, NextMultiple
<1>3. bytes_read = IF N < size THEN N ELSE size
  BY DEF IInv, CopyInv
<1>4. size - bytes_read > 0
  BY DEF bytes_left
<1> HIDE DEF N
<1>5. N < size /\ bytes_read = N
  BY <1>1, <1>2, <1>3, <1>4
<1>6. bytes_to_read = IF size - N > block_size THEN block_size ELSE size - N
  BY <1>5 DEF bytes_to_read, bytes_left
<1>7. BytesOf(image, root, n) = IF size - N > block_size THEN block_size ELSE size - N
  BY DEF BytesOf, N
<1> HIDE DEF n, size
<1>8. bytes_to_read \in Nat /\ N + bytes_to_read = IF N + block_size < size THEN N + block_size ELSE size
  BY <1>1, <1>2, <1>5, <1>6
<1>9. /\ n \in Nat /\ N < size /\ size \in Nat /\ bytes_read = N
      /\ bytes_to_read = BytesOf(image, root, n) /\ bytes_to_read \in Nat
      /\ bytes_read + bytes_to_read = IF (n + 1) * block_size < size THEN (n + 1) * block_size ELSE size
  BY <1>1, <1>2, <1>5, <1>6, <1>7, <1>8
<1> QED BY <1>9 DEF n, size, N

\* A step of either loop: block b, which is the next of the file as long as there is
\* one indirect block, is copied, or is not in the image.
LEMMA CopyKeeps ==
    ASSUME IInv, pc \in {"direct", "indirect"}, bytes_left > 0, NEW b, Copy(b),
           Len(out) < MaxBlocks => b = BlockOf(image, root, Len(out)),
           pc = "direct" => Len(out) < EXT2_NDIR_BLOCKS,
           UNCHANGED <<image, path, parts, part, root>>
    PROVE  IInv'
<1> DEFINE n == Len(out)
           size == get_inode(image, root).i_size
           piece == [block |-> b, bytes |-> bytes_to_read]
<1>0. Arrived /\ answer = "none" /\ TypeOK
  BY DEF Arrived, IInv, WalkInv
<1>1. /\ n \in Nat /\ n * block_size < size /\ size \in Nat
      /\ bytes_read = n * block_size
      /\ bytes_to_read = BytesOf(image, root, n) /\ bytes_to_read \in Nat
      /\ bytes_read + bytes_to_read =
            IF (n + 1) * block_size < size THEN (n + 1) * block_size ELSE size
  BY <1>0, NextPiece
<1>2. CASE b \in DOMAIN image.entries
  <2>1. out' = Append(out, piece) /\ bytes_read' = bytes_read + bytes_to_read /\ UNCHANGED <<pc, answer>>
    BY <1>2 DEF Copy
  <2>2. out \in Seq([block : DOMAIN image.entries, bytes : Nat])
    BY <1>0 DEF TypeOK
  <2>3. piece \in [block : DOMAIN image.entries, bytes : Nat]
    BY <1>1, <1>2
  <2>4. /\ out' \in Seq([block : DOMAIN image.entries, bytes : Nat])
        /\ Len(out') = n + 1 /\ out'[n + 1] = piece
        /\ DOMAIN out = 1 .. n /\ DOMAIN out' = 1 .. n + 1
        /\ \A k \in 1 .. n : out'[k] = out[k]
    <3> HIDE DEF piece
    <3> QED BY <2>1, <2>2, <2>3
  <2>5. TypeOK'
    BY <1>0, <1>1, <2>1, <2>4 DEF TypeOK
  <2>6. PartsInv' /\ WalkInv'
    BY <1>0, <2>1 DEF IInv, PartsInv, WalkInv, Arrived, LookupExact
  <2>7. ASSUME NEW k \in DOMAIN out', k <= MaxBlocks
        PROVE  out'[k] = [block |-> BlockOf(image, root, k - 1), bytes |-> BytesOf(image, root, k - 1)]
    <3>1. CASE k = n + 1
      <4>1. n < MaxBlocks /\ k - 1 = n
        BY <1>1, <2>7, <3>1, Constants
      <4> QED BY <1>1, <2>4, <3>1, <4>1
    <3>2. CASE k # n + 1
      <4>1. k \in 1 .. n
        BY <1>1, <2>4, <2>7, <3>2
      <4> QED BY <1>0, <2>4, <2>7, <4>1 DEF IInv, CopyInv
    <3> QED BY <3>1, <3>2
  <2>8. bytes_read' = IF (n + 1) * block_size < size THEN (n + 1) * block_size ELSE size
    BY <1>1, <2>1
  <2>9. ((n + 1) - 1) * block_size < size
    <3>1. (n + 1) - 1 = n
      BY <1>1
    <3> QED BY <1>1, <3>1
  <2>10. pc' = "direct" => n + 1 <= EXT2_NDIR_BLOCKS
    BY <1>1, <2>1, Constants
  <2>11. pc' = "indirect" => n + 1 >= EXT2_NDIR_BLOCKS
    <3>1. ASSUME pc = "indirect" PROVE n >= EXT2_NDIR_BLOCKS
      <4>1. bytes_read # size
        BY <1>1
      <4> QED BY <3>1, <4>1 DEF IInv, CopyInv
    <3> QED BY <1>1, <2>1, <3>1, Constants
  <2>12. CopyInv'
    <3> HIDE DEF n
    <3>1. /\ Len(out') = n + 1 /\ get_inode(image', root') = get_inode(image, root)
          /\ pc' \in {"direct", "indirect"} /\ answer' = "none" /\ image' = image /\ root' = root
      BY <1>0, <2>1, <2>4
    <3> QED BY <2>7, <2>8, <2>9, <2>10, <2>11, <3>1 DEF CopyInv, CopyExact
  <2> QED BY <2>5, <2>6, <2>12 DEF IInv
<1>3. CASE b \notin DOMAIN image.entries
  <2>1. pc' = "exited" /\ answer' = "fault" /\ UNCHANGED <<out, bytes_read>>
    BY <1>3 DEF Copy, Exits
  <2>2. n < Blocks(image, root)
    BY <1>1, BlocksAre
  <2>3. n < MaxBlocks => BlockOf(image, root, n) \notin DOMAIN image.entries
    BY <1>3
  <2>4. CopyExact'
    BY <2>1, <2>2, <2>3 DEF CopyExact
  <2> QED BY <1>0, <2>1, <2>4 DEF IInv, TypeOK, PartsInv, WalkInv, CopyInv, Arrived, LookupExact
<1> QED BY <1>2, <1>3

LEMMA CopyDirectKeeps == IInv /\ CopyDirect => IInv'
<1> SUFFICES ASSUME IInv, CopyDirect PROVE IInv'
  OBVIOUS
<1> DEFINE b == get_inode(image, root).i_block[Len(out)]
<1>1. pc = "direct" /\ bytes_left > 0 /\ Len(out) < EXT2_NDIR_BLOCKS /\ Copy(b)
      /\ UNCHANGED <<image, path, parts, part, root>>
  BY DEF CopyDirect
<1>2. b = BlockOf(image, root, Len(out))
  BY <1>1 DEF BlockOf
<1> HIDE DEF b
<1> QED BY <1>1, <1>2, CopyKeeps

LEMMA CopyIndirectKeeps == IInv /\ CopyIndirect => IInv'
<1> SUFFICES ASSUME IInv, CopyIndirect PROVE IInv'
  OBVIOUS
<1> DEFINE b == Pointer(next_block)
<1>1. pc = "indirect" /\ bytes_left > 0 /\ Copy(b) /\ UNCHANGED <<image, path, parts, part, root>>
  BY DEF CopyIndirect, MorePointers
<1>2. ASSUME Len(out) < MaxBlocks PROVE b = BlockOf(image, root, Len(out))
  <2> DEFINE n == next_block
             start == get_inode(image, root).i_block[EXT2_NDIR_BLOCKS]
  <2>1. Len(out) \in Nat /\ bytes_read # get_inode(image, root).i_size /\ TypeOK /\ Arrived
    BY <1>1, NextPiece DEF IInv, TypeOK, bytes_left, Arrived
  <2>2. Len(out) >= EXT2_NDIR_BLOCKS
    BY <1>1, <2>1 DEF IInv, CopyInv
  <2>3. n \in Nat /\ n < ADDR_PER_BLOCK /\ n = Len(out) - EXT2_NDIR_BLOCKS
    BY <1>2, <2>1, <2>2, Constants DEF next_block
  <2>4. n \div ADDR_PER_BLOCK = 0 /\ n % ADDR_PER_BLOCK = n
    BY <2>3, Constants, DivSmall
  <2>5. start \in Nat
    BY <2>1, RootIs, Constants
  <2>6. Pointer(n) = image.pointers[start][n + 1]
    <3> HIDE DEF n
    <3>1. start + 0 = start
      BY <2>5
    <3> QED BY <2>4, <3>1 DEF Pointer
  <2>7. BlockOf(image, root, Len(out)) = image.pointers[start][Len(out) - EXT2_NDIR_BLOCKS + 1]
    BY <2>1, <2>2, Constants DEF BlockOf
  <2> QED BY <2>3, <2>6, <2>7
<1> HIDE DEF b
<1> QED BY <1>1, <1>2, CopyKeeps

LEMMA DirectDoneKeeps == IInv /\ DirectDone => IInv'
<1> SUFFICES ASSUME IInv, DirectDone PROVE IInv'
  OBVIOUS
<1>1. /\ pc = "direct" /\ (bytes_left = 0 \/ Len(out) = EXT2_NDIR_BLOCKS) /\ pc' = "indirect"
      /\ UNCHANGED <<image, path, parts, part, root, out, bytes_read, answer>>
  BY DEF DirectDone
<1>2. TypeOK' /\ PartsInv' /\ WalkInv'
  BY <1>1 DEF IInv, TypeOK, PartsInv, WalkInv, Arrived, LookupExact
<1>3. Len(out) >= EXT2_NDIR_BLOCKS \/ bytes_read = get_inode(image, root).i_size
  <2>1. get_inode(image, root).i_size \in Nat /\ bytes_read \in Nat
    BY RootIs DEF IInv, TypeOK
  <2> QED BY <1>1, <2>1, Constants DEF bytes_left
<1>4. CopyInv'
  BY <1>1, <1>3 DEF IInv, CopyInv, CopyExact, Arrived
<1> QED BY <1>2, <1>4 DEF IInv

\* The loop over the pointers ends in time: before its bound if one indirect block is enough.
LEMMA WriteKeeps == IInv /\ write => IInv'
<1> SUFFICES ASSUME IInv, write PROVE IInv'
  OBVIOUS
<1> DEFINE n == Len(out)
           size == get_inode(image, root).i_size
<1>1. /\ pc = "indirect" /\ ~MorePointers
      /\ pc' = "exited" /\ answer' = (IF bytes_left > 0 THEN "truncated" ELSE "copied")
      /\ UNCHANGED <<image, path, parts, part, root, out, bytes_read>>
  BY DEF write, Exits
<1>2. Arrived /\ TypeOK
  BY <1>1 DEF Arrived, IInv
<1>3. answer' \in {"truncated", "copied"}
  BY <1>1
<1>4. TypeOK' /\ PartsInv' /\ WalkInv'
  BY <1>1, <1>2, <1>3 DEF IInv, TypeOK, PartsInv, WalkInv, Arrived, LookupExact
<1>5. n \in Nat /\ size \in Nat /\ Blocks(image, root) \in Nat /\ bytes_read \in Nat
      /\ block_size = 4 * ADDR_PER_BLOCK /\ block_size \in Nat
  BY <1>2, RootIs, Constants DEF TypeOK
<1>6. /\ n = 0 \/ (n - 1) * block_size < size
      /\ bytes_read = IF n * block_size < size THEN n * block_size ELSE size
      /\ \A k \in DOMAIN out : k <= MaxBlocks =>
            out[k] = [block |-> BlockOf(image, root, k - 1), bytes |-> BytesOf(image, root, k - 1)]
  BY <1>2 DEF IInv, CopyInv
<1>7. n <= Blocks(image, root)
  <2>1. CASE n = 0
    BY <1>5, <2>1
  <2>2. CASE n # 0
    <3>1. n - 1 \in Nat /\ (n - 1) * block_size < size
      BY <1>5, <1>6, <2>2
    <3>2. n - 1 < Blocks(image, root)
      BY <1>5, <3>1, BlocksAre
    <3> HIDE DEF n
    <3> QED BY <1>5, <3>1, <3>2
  <2> QED BY <2>1, <2>2
<1>8. ASSUME Blocks(image, root) <= MaxBlocks PROVE ~(bytes_left > 0)
  <2> SUFFICES ASSUME bytes_left > 0 PROVE FALSE
    OBVIOUS
  <2>1. ~(n - EXT2_NDIR_BLOCKS < block_size)
    BY <1>1 DEF MorePointers, next_block
  <2>2. MaxBlocks = EXT2_NDIR_BLOCKS + ADDR_PER_BLOCK
        /\ EXT2_NDIR_BLOCKS \in Nat \ {0} /\ ADDR_PER_BLOCK \in Nat \ {0}
    BY Constants
  <2> HIDE DEF n
  <2> QED BY <1>5, <1>7, <1>8, <2>1, <2>2
<1>9. ASSUME ~(bytes_left > 0) PROVE n = Blocks(image, root) /\ bytes_read = size
  <2>1. n * block_size \in Nat
    BY <1>5, NextMultiple
  <2>2. ~(size - bytes_read > 0)
    BY <1>9 DEF bytes_left
  <2>3. bytes_read = size /\ ~(n * block_size < size)
    <3> HIDE DEF n, size
    <3> QED BY <1>5, <1>6, <2>1, <2>2
  <2>4. ~(n < Blocks(image, root))
    BY <1>5, <2>3, BlocksAre
  <2> HIDE DEF n
  <2> QED BY <1>5, <1>7, <2>3, <2>4
<1>10. CopyInv'
  <2>1. /\ image' = image /\ root' = root /\ out' = out /\ bytes_read' = bytes_read
        /\ pc' = "exited" /\ answer' \in {"truncated", "copied"}
        /\ (~(bytes_left > 0) => answer' = "copied")
    BY <1>1
  <2>2. CopyExact'
    <3> HIDE DEF n, size
    <3>1. ASSUME Blocks(image, root) <= MaxBlocks
          PROVE  answer' = "copied" /\ n = Blocks(image, root) /\ bytes_read = size
      BY <1>8, <1>9, <2>1, <3>1
    <3> QED BY <1>6, <2>1, <3>1 DEF CopyExact, n, size
  <2> QED BY <1>6, <2>1, <2>2 DEF CopyInv
<1> QED BY <1>4, <1>10 DEF IInv

-----------------------------------------------------------------------------
(* The theorems.                                                           *)

LEMMA Inductive == IInv /\ [Next]_vars => IInv'
BY StutterKeeps, FailKeeps, MapKeeps, EnterKeeps, DoesNotExistKeeps, CopyDirectKeeps,
   DirectDoneKeeps, CopyIndirectKeeps, WriteKeeps DEF Next

\* The invariant that the properties are parts of holds in every state of the program.
THEOREM Invariant == Spec => []IInv
BY Initially, Inductive, PTL DEF Spec

\* get_inode_by_path finds the inode the image lists under a path, and none exactly
\* if there is none, except where one name hides another (Misleading).
THEOREM PathsResolved == Spec => []LookupExact
<1>1. IInv => LookupExact
  BY DEF IInv, WalkInv
<1> QED BY <1>1, Invariant, PTL

\* ext2cat writes the file, block by block and to its last byte, and leaves off in
\* time although its second loop is bounded by bytes instead of pointers.  Where it
\* reads memory outside the image, the image places a block of the file there, or the
\* file needs more than one indirect block.
THEOREM FilesCopied == Spec => []CopyExact
<1>1. IInv => CopyExact
  BY DEF IInv, CopyInv
<1> QED BY <1>1, Invariant, PTL
=============================================================================
