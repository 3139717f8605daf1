--------------------------- MODULE BlockMapProofs ---------------------------
(***************************************************************************)
(* Proofs about the blocks of files for any number of processes, files and *)
(* blocks, and index blocks of any size: every block is in one place of    *)
(* one file or free, also half-way through a truncation, and after a       *)
(* crash.                                                                  *)
(***************************************************************************)
EXTENDS BlockMap, Counting

\* The index blocks of a file with addresses a on blocks with contents c.
Indirect(a, b) == b = a[NDIRECT] /\ b # 0
Double(a, b) == b = a[NDIRECT + 1] /\ b # 0
Inner(a, c, b) ==
    a[NDIRECT + 1] # 0 /\ \E k \in Entries : c[a[NDIRECT + 1]][k] = b /\ b # 0
IsIndex(a, c, b) == Indirect(a, b) \/ Double(a, b) \/ Inner(a, c, b)

\* Block t is entry k of block b, where block 0 is the inode.
Link(a, c, b, k, t) ==
    /\ t # 0
    /\ \/ b = 0 /\ k \in Slots /\ a[k] = t
       \/ IsIndex(a, c, b) /\ k \in Entries /\ c[b][k] = t

\* itrunc has freed what the index block b of inode i names, and not yet b.
Emptied(i, b) ==
    \E p \in Procs :
        /\ ino[p] = i
        /\ \/ pc[p] = "indirect block" /\ Indirect(addrs[i], b)
           \/ pc[p] = "inner block" /\ b = ptr[addrs[i][NDIRECT + 1]][bn[p]]

LinkOf(i, b, k, t) == Link(addrs[i], ptr, b, k, t) /\ ~Emptied(i, b)

\* Files share no block, within a file or with each other, and their blocks are
\* those marked in use.
Unique ==
    \A i, j \in Inodes, b, d \in Addr, k, l \in Nat, t \in Blocks :
        LinkOf(i, b, k, t) /\ LinkOf(j, d, l, t) => i = j /\ b = d /\ k = l
Exact ==
    \A t \in Blocks : t \in bitmap <=> \E i \in Inodes, b \in Addr, k \in Nat : LinkOf(i, b, k, t)

\* The file has a block n.
Has(a, c, n) ==
    LET d == n - NDIRECT - NINDIRECT
        dbl == a[NDIRECT + 1]
        inner == c[dbl][d \div NINDIRECT]
    IN  IF n < NDIRECT THEN a[n] # 0
        ELSE IF n < NDIRECT + NINDIRECT
             THEN a[NDIRECT] # 0 /\ c[a[NDIRECT]][n - NDIRECT] # 0
             ELSE dbl # 0 /\ inner # 0 /\ c[inner][d % NINDIRECT] # 0

Types ==
    /\ TypeOK
    /\ disk \in [bitmap : SUBSET Blocks, ptr : [Blocks -> [Entries -> Addr]],
                 addrs : [Inodes -> [Slots -> Addr]], size : [Inodes -> 0..MAXFILE]]

\* One process has an inode; what the steps of writei and itrunc have done.
Holders ==
    \A p, q \in Procs : pc[p] # "idle" /\ pc[q] # "idle" /\ ino[p] = ino[q] => p = q

WritingAt(p) ==
    /\ pc[p] = "bmap" => bn[p] < stop[p]
    /\ pc[p] \in {"bmap", "iupdate"} =>
          /\ bn[p] <= stop[p]
          /\ \A n \in 0..(MAXFILE - 1) :
                n < size[ino[p]] \/ n < bn[p] => Has(addrs[ino[p]], ptr, n)
Writing == \A p \in Procs : WritingAt(p)

TruncAt(p) ==
    LET a == addrs[ino[p]]
        dbl == a[NDIRECT + 1]
    IN  /\ pc[p] \in {"idle", "direct", "indirect", "indirect block"} => bn[p] = 0
        /\ pc[p] \in {"indirect", "indirect block"} => a[NDIRECT] # 0
        /\ pc[p] \in {"double", "inner block"} =>
              dbl # 0 /\ bn[p] \in Entries /\ \A k \in Entries : k < bn[p] => ptr[dbl][k] = 0
        /\ pc[p] = "inner block" => ptr[dbl][bn[p]] \notin {0, dbl}
Truncs == \A p \in Procs : TruncAt(p)

\* The inode in memory of a file that no operation works on is the one on disk,
\* and has its blocks.
SyncedAt(i) == addrs[i] = daddrs[i] /\ size[i] = dsize[i]
FilledAt(i) == \A n \in 0..(MAXFILE - 1) : n < size[i] => Has(addrs[i], ptr, n)
Synced == \A i \in Inodes : ~Locked(i) => SyncedAt(i)
Filled == \A i \in Inodes : ~Locked(i) => FilledAt(i)

\* The same for what the disk holds after the last commit.
DiskUnique ==
    \A i, j \in Inodes, b, d \in Addr, k, l \in Nat, t \in Blocks :
        Link(disk.addrs[i], disk.ptr, b, k, t) /\ Link(disk.addrs[j], disk.ptr, d, l, t)
        => i = j /\ b = d /\ k = l
DiskExact ==
    \A t \in Blocks : t \in disk.bitmap <=>
        \E i \in Inodes, b \in Addr, k \in Nat : Link(disk.addrs[i], disk.ptr, b, k, t)
DiskFilled ==
    \A i \in Inodes, n \in 0..(MAXFILE - 1) : n < disk.size[i] => Has(disk.addrs[i], disk.ptr, n)
Disk == DiskUnique /\ DiskExact /\ DiskFilled

IInv == /\ Types /\ Holders /\ Writing /\ Truncs /\ Synced /\ Filled
        /\ Unique /\ Exact /\ Disk /\ ~panic

-----------------------------------------------------------------------------
(* The shape of a file.                                                    *)

Addrs == [Slots -> Addr]
Contents == [Blocks -> [Entries -> Addr]]

\* The slots of the index blocks, and the entries of those.
LEMMA Sizes ==
  /\ NDIRECT \in Nat /\ NINDIRECT \in Nat \ {0} /\ NBLOCKS \in Nat
  /\ DNINDIRECT \in Nat /\ MAXFILE \in Nat
  /\ NDIRECT \in Slots /\ NDIRECT + 1 \in Slots /\ 0 \in Entries
  /\ Slots \subseteq Nat /\ Entries \subseteq Nat /\ Blocks \subseteq Nat
  /\ Blocks = Addr \ {0} /\ 0 \in Addr
  <1>1. /\ NDIRECT \in Nat /\ NINDIRECT \in Nat /\ NINDIRECT # 0 /\ NBLOCKS \in Nat
    BY BlockMapAssumption
  <1>2. DNINDIRECT \in Nat
    BY <1>1 DEF DNINDIRECT
  <1>3. MAXFILE \in Nat
    BY <1>1, <1>2 DEF MAXFILE
  <1>4. NDIRECT \in Slots /\ NDIRECT + 1 \in Slots /\ 0 \in Entries
    BY <1>1 DEF Slots, Entries
  <1> QED
    BY <1>1, <1>2, <1>3, <1>4 DEF Slots, Entries, Blocks, Addr

\* bmap divides the number of a block into the index of the inner index block
\* and the one in it: both are inside an index block.
LEMMA Positions ==
  ASSUME NEW n \in 0..(MAXFILE - 1), n >= NDIRECT + NINDIRECT
  PROVE  /\ (n - NDIRECT - NINDIRECT) \div NINDIRECT \in Entries
         /\ (n - NDIRECT - NINDIRECT) % NINDIRECT \in Entries
  <1> DEFINE d == n - NDIRECT - NINDIRECT
             N == NINDIRECT
             q == d \div N
             r == d % N
  <1>1. NDIRECT \in Nat /\ N \in Nat /\ N > 0 /\ MAXFILE = NDIRECT + N + N * N /\ N * N \in Nat
    BY Sizes DEF MAXFILE, DNINDIRECT
  <1>2. d \in Nat /\ d < N * N
    BY <1>1
  <1>3. /\ q \in Int /\ r \in Int /\ d = N * q + r /\ 0 <= r /\ r < N
    <2> HIDE DEF d, N
    <2> QED
      BY <1>1, <1>2
  <1> HIDE DEF d, N, q, r
  <1>4. q >= 0
    <2>1. SUFFICES ASSUME q <= -1 PROVE FALSE
      BY <1>3
    <2>2. N * q <= -N
      BY <1>1, <1>3, <2>1
    <2> QED
      BY <1>1, <1>2, <1>3, <2>2
  <1>5. q < N
    <2>1. SUFFICES ASSUME q >= N PROVE FALSE
      BY <1>1, <1>3
    <2>2. N * q >= N * N
      BY <1>1, <1>3, <2>1
    <2> QED
      BY <1>1, <1>2, <1>3, <2>2
  <1> QED
    BY <1>1, <1>3, <1>4, <1>5 DEF Entries, d, N, q, r

\* Block n of a file stays where it is when only slots that are zero change.
LEMMA HasStays ==
  ASSUME NEW a \in Addrs, NEW c \in Contents, NEW a2 \in Addrs, NEW c2 \in Contents,
         \A k \in Slots : a[k] # 0 => a2[k] = a[k],
         \A b \in Blocks, k \in Entries : IsIndex(a, c, b) /\ c[b][k] # 0 => c2[b][k] = c[b][k],
         NEW n \in 0..(MAXFILE - 1), Has(a, c, n)
  PROVE  Has(a2, c2, n)
  <1>0. n \in Nat /\ NDIRECT \in Nat /\ NINDIRECT \in Nat
    BY Sizes
  <1>1. CASE n < NDIRECT
    <2>1. n \in Slots
      BY <1>0, <1>1 DEF Slots
    <2> QED
      BY <1>1, <2>1 DEF Has
  <1>2. CASE ~(n < NDIRECT) /\ n < NDIRECT + NINDIRECT
    <2>1. n - NDIRECT \in Entries
      BY <1>0, <1>2 DEF Entries
    <2>2. a[NDIRECT] # 0 /\ c[a[NDIRECT]][n - NDIRECT] # 0
      BY <1>2 DEF Has
    <2>3. a[NDIRECT] \in Blocks /\ IsIndex(a, c, a[NDIRECT]) /\ a2[NDIRECT] = a[NDIRECT]
      BY <2>2, Sizes DEF IsIndex, Indirect, Addrs
    <2> QED
      BY <1>2, <2>1, <2>2, <2>3 DEF Has
  <1>3. CASE ~(n < NDIRECT) /\ ~(n < NDIRECT + NINDIRECT)
    <2> DEFINE q == (n - NDIRECT - NINDIRECT) \div NINDIRECT
               r == (n - NDIRECT - NINDIRECT) % NINDIRECT
               dbl == a[NDIRECT + 1]
    <2>1. n >= NDIRECT + NINDIRECT
      BY <1>0, <1>3
    <2>2. q \in Entries /\ r \in Entries
      BY <2>1, Positions
    <2>3. dbl # 0 /\ c[dbl][q] # 0 /\ c[c[dbl][q]][r] # 0
      BY <1>3 DEF Has
    <2>4. dbl \in Blocks /\ IsIndex(a, c, dbl) /\ a2[NDIRECT + 1] = dbl
      BY <2>3, Sizes DEF IsIndex, Double, Addrs
    <2>5. c[dbl][q] \in Blocks
      BY <2>2, <2>3, <2>4, Sizes DEF Contents
    <2>6. IsIndex(a, c, c[dbl][q])
      BY <2>2, <2>3 DEF IsIndex, Inner
    <2>7. c2[dbl][q] = c[dbl][q] /\ c2[c[dbl][q]][r] = c[c[dbl][q]][r]
      BY <2>2, <2>3, <2>4, <2>5, <2>6
    <2> QED
      BY <1>3, <2>3, <2>4, <2>7 DEF Has
  <1> QED
    BY <1>1, <1>2, <1>3

\* An index block is a block.
LEMMA IndexIsBlock ==
  ASSUME NEW a \in Addrs, NEW c \in Contents
  PROVE  \A b : IsIndex(a, c, b) => b \in Blocks
  <1>1. a[NDIRECT] \in Addr /\ a[NDIRECT + 1] \in Addr
    BY Sizes DEF Addrs
  <1>2. a[NDIRECT + 1] # 0 => a[NDIRECT + 1] \in Blocks
    BY <1>1, Sizes
  <1>3. \A k \in Entries : a[NDIRECT + 1] # 0 => c[a[NDIRECT + 1]][k] \in Addr
    BY <1>2 DEF Contents
  <1> QED
    BY <1>1, <1>3, Sizes DEF IsIndex, Indirect, Double, Inner

\* Nor do the links of a file when none of its index blocks changes.
LEMMA LinksStay ==
  ASSUME NEW a \in Addrs, NEW c \in Contents, NEW c2 \in Contents,
         \A b \in Blocks : IsIndex(a, c, b) => c2[b] = c[b]
  PROVE  /\ \A b : IsIndex(a, c2, b) <=> IsIndex(a, c, b)
         /\ \A b, k, t : Link(a, c2, b, k, t) <=> Link(a, c, b, k, t)
  <1>1. \A b : IsIndex(a, c2, b) <=> IsIndex(a, c, b)
    <2>1. CASE a[NDIRECT + 1] = 0
      BY <2>1 DEF IsIndex, Inner, Indirect, Double
    <2>2. CASE a[NDIRECT + 1] # 0
      <3>1. a[NDIRECT + 1] \in Blocks /\ IsIndex(a, c, a[NDIRECT + 1])
        BY <2>2, Sizes DEF IsIndex, Double, Addrs
      <3> QED
        BY <3>1 DEF IsIndex, Inner, Indirect, Double
    <2> QED
      BY <2>1, <2>2
  <1>2. \A b : IsIndex(a, c, b) => b \in Blocks
    BY IndexIsBlock
  <1> QED
    BY <1>1, <1>2, Zenon DEF Link

-----------------------------------------------------------------------------
(* Who links to a block.                                                   *)

\* A link is from the inode or an index block to a block.
LEMMA LinkTypes ==
  ASSUME NEW a \in Addrs, NEW c \in Contents
  PROVE  \A b, k, t : Link(a, c, b, k, t) => b \in Addr /\ k \in Nat /\ t \in Blocks
  <1>1. SUFFICES ASSUME NEW b, NEW k, NEW t, Link(a, c, b, k, t)
                 PROVE  b \in Addr /\ k \in Nat /\ t \in Blocks
    OBVIOUS
  <1>2. CASE b = 0 /\ k \in Slots /\ a[k] = t
    BY <1>1, <1>2, Sizes DEF Link, Addrs
  <1>3. CASE IsIndex(a, c, b) /\ k \in Entries /\ c[b][k] = t
    BY <1>1, <1>3, Sizes, IndexIsBlock DEF Link, Contents
  <1> QED
    BY <1>1, <1>2, <1>3 DEF Link

Parent(i, b, d, k) ==
    \/ Indirect(addrs[i], b) /\ d = 0 /\ k = NDIRECT
    \/ Double(addrs[i], b) /\ d = 0 /\ k = NDIRECT + 1
    \/ /\ Double(addrs[i], d) /\ k \in Entries /\ ptr[d][k] = b /\ b # 0
       /\ d # addrs[i][NDIRECT] /\ b # addrs[i][NDIRECT] /\ b # d

\* What the lemmas about links need of the invariant.
Shape == Types /\ Holders /\ Truncs /\ Unique

\* The addresses in memory are addresses.
LEMMA ShapeTypes ==
  ASSUME Shape
  PROVE  /\ \A i \in Inodes : addrs[i] \in Addrs
         /\ ptr \in Contents /\ bitmap \subseteq Blocks
         /\ \A p \in Procs : ino[p] \in Inodes
         /\ \A i \in Inodes, k \in Slots : addrs[i][k] \in Addr
  BY DEF Shape, Types, TypeOK, Addrs, Contents

\* Every link to an index block is where bmap and itrunc look for it: an index
\* block is no data block, and has one role in one file.
LEMMA Parents ==
  ASSUME Shape, NEW i \in Inodes
  PROVE  /\ \A b : IsIndex(addrs[i], ptr, b) => \E d, k : Parent(i, b, d, k)
         /\ \A b, d, k : Parent(i, b, d, k) => LinkOf(i, d, k, b)
         /\ addrs[i][NDIRECT + 1] # 0 =>
               /\ addrs[i][NDIRECT] # addrs[i][NDIRECT + 1]
               /\ \A k \in Entries : ptr[addrs[i][NDIRECT + 1]][k] # 0 =>
                     Parent(i, ptr[addrs[i][NDIRECT + 1]][k], addrs[i][NDIRECT + 1], k)
  <1> DEFINE a == addrs[i]
             ind == a[NDIRECT]
             dbl == a[NDIRECT + 1]
  <1>0. /\ a \in Addrs /\ ptr \in Contents /\ ind \in Addr /\ dbl \in Addr
        /\ NDIRECT \in Nat /\ NDIRECT + 1 \in Nat /\ NDIRECT # NDIRECT + 1 /\ 0 \in Addr
        /\ NDIRECT \in Slots /\ NDIRECT + 1 \in Slots
    BY ShapeTypes, Sizes
  <1>1. \A b : Emptied(i, b) => b # 0 /\ (b = ind \/ (b # dbl /\ \E k \in Entries : b = ptr[dbl][k]))
    <2>1. SUFFICES ASSUME NEW b, NEW p \in Procs, ino[p] = i,
                          \/ pc[p] = "indirect block" /\ Indirect(a, b)
                          \/ pc[p] = "inner block" /\ b = ptr[dbl][bn[p]]
                   PROVE  b # 0 /\ (b = ind \/ (b # dbl /\ \E k \in Entries : b = ptr[dbl][k]))
      BY DEF Emptied
    <2>2. CASE pc[p] = "indirect block" /\ Indirect(a, b)
      BY <2>2 DEF Indirect
    <2>3. CASE pc[p] = "inner block" /\ b = ptr[dbl][bn[p]]
      <3>1. ptr[dbl][bn[p]] \notin {0, dbl} /\ bn[p] \in Entries
        BY <2>1, <2>3 DEF Shape, Truncs, TruncAt
      <3> QED
        BY <2>3, <3>1
    <2> QED
      BY <2>1, <2>2, <2>3
  <1>2. ind # 0 => LinkOf(i, 0, NDIRECT, ind)
    BY <1>0, <1>1 DEF LinkOf, Link
  <1>3. dbl # 0 => LinkOf(i, 0, NDIRECT + 1, dbl)
    BY <1>0, <1>1 DEF LinkOf, Link
  <1>4. ind # 0 => ind # dbl
    <2>1. ASSUME ind # 0, ind = dbl PROVE FALSE
      <3>1. LinkOf(i, 0, NDIRECT, ind) /\ LinkOf(i, 0, NDIRECT + 1, ind)
        BY <1>2, <1>3, <2>1
      <3>2. ind \in Blocks
        BY <1>0, <2>1, Sizes
      <3> QED
        BY <1>0, <3>1, <3>2 DEF Shape, Unique
    <2> QED
      BY <2>1
  <1>5. dbl # 0 => ~Emptied(i, dbl) /\ dbl \in Blocks /\ IsIndex(a, ptr, dbl)
    BY <1>0, <1>1, <1>4, Sizes DEF IsIndex, Double
  <1>6. ASSUME dbl # 0, NEW k \in Entries, ptr[dbl][k] # 0
        PROVE  LinkOf(i, dbl, k, ptr[dbl][k]) /\ Parent(i, ptr[dbl][k], dbl, k)
    <2> DEFINE b == ptr[dbl][k]
    <2>1. LinkOf(i, dbl, k, b)
      BY <1>5, <1>6 DEF LinkOf, Link
    <2>2. b \in Blocks
      BY <1>0, <1>5, <1>6, Sizes DEF Contents
    <2>3. k \in Nat
      BY Sizes
    <2>4. b # ind
      BY <1>0, <1>2, <1>6, <2>1, <2>2, <2>3 DEF Shape, Unique
    <2>5. b # dbl
      BY <1>0, <1>3, <1>6, <2>1, <2>2, <2>3 DEF Shape, Unique
    <2>6. dbl # ind
      BY <1>4, <1>6
    <2> QED
      BY <1>6, <2>1, <2>4, <2>5, <2>6 DEF Parent, Double
  <1>7. \A b : IsIndex(a, ptr, b) => \E d, k : Parent(i, b, d, k)
    BY <1>6 DEF IsIndex, Indirect, Double, Inner, Parent
  <1>8. \A b, d, k : Parent(i, b, d, k) => LinkOf(i, d, k, b)
    BY <1>2, <1>3, <1>6 DEF Indirect, Double, Parent
  <1> QED
    BY <1>4, <1>6, <1>7, <1>8

\* One file has an index block, in one role, and it is in use.
LEMMA OneParent ==
  ASSUME Shape, NEW i \in Inodes, NEW b, IsIndex(addrs[i], ptr, b)
  PROVE  /\ b \in Blocks
         /\ \A j \in Inodes : \A d, k : LinkOf(j, d, k, b) => j = i /\ Parent(i, b, d, k)
         /\ \A j \in Inodes : IsIndex(addrs[j], ptr, b) => j = i
         /\ Exact => b \in bitmap
  <1>1. b \in Blocks
    BY ShapeTypes, IndexIsBlock
  <1>2. PICK d, k : Parent(i, b, d, k)
    BY Parents
  <1>3. LinkOf(i, d, k, b)
    BY <1>2, Parents
  <1>4. \A j \in Inodes : \A e, l : LinkOf(j, e, l, b) => e \in Addr /\ l \in Nat
    BY ShapeTypes, LinkTypes DEF LinkOf
  <1>5. \A j \in Inodes : \A e, l : LinkOf(j, e, l, b) => j = i /\ e = d /\ l = k
    BY <1>1, <1>3, <1>4 DEF Shape, Unique
  <1>6. \A j \in Inodes : IsIndex(addrs[j], ptr, b) => \E e, l : LinkOf(j, e, l, b)
    BY Parents
  <1>7. Exact => b \in bitmap
    BY <1>1, <1>3, <1>4 DEF Exact
  <1> QED
    BY <1>1, <1>2, <1>5, <1>6, <1>7

\* A block that is allocated becomes one link more.
LEMMA Grows ==
  ASSUME Unique, Exact, NEW i \in Inodes, NEW b \in Addr, NEW k \in Nat, NEW s \in Blocks,
         s \notin bitmap, bitmap' = bitmap \cup {s},
         \A j \in Inodes, d \in Addr, l \in Nat, t \in Blocks :
            LinkOf(j, d, l, t)' <=> LinkOf(j, d, l, t) \/ (j = i /\ d = b /\ l = k /\ t = s)
  PROVE  Unique' /\ Exact'
  <1>1. \A j \in Inodes, d \in Addr, l \in Nat : ~LinkOf(j, d, l, s)
    BY DEF Exact
  <1>2. Unique'
    BY <1>1 DEF Unique
  <1>3. Exact'
    BY DEF Exact
  <1> QED
    BY <1>2, <1>3

\* Blocks that are freed lose their links.
LEMMA Shrinks ==
  ASSUME Unique, Exact, NEW S, bitmap' = bitmap \ S,
         \A j \in Inodes, d \in Addr, l \in Nat, t \in Blocks :
            LinkOf(j, d, l, t)' <=> LinkOf(j, d, l, t) /\ t \notin S
  PROVE  Unique' /\ Exact'
  <1>1. Unique'
    BY DEF Unique
  <1>2. Exact'
    BY DEF Exact
  <1> QED
    BY <1>1, <1>2

-----------------------------------------------------------------------------
(* An operation leaves the other files alone.                              *)

\* What a step of p, which works on inode i, does not change.
Apart(p, i) ==
    /\ \A q \in Procs \ {p} : /\ pc'[q] = pc[q] /\ ino'[q] = ino[q]
                              /\ bn'[q] = bn[q] /\ stop'[q] = stop[q]
    /\ \A j \in Inodes \ {i} : /\ addrs'[j] = addrs[j] /\ size'[j] = size[j]
                               /\ daddrs'[j] = daddrs[j] /\ dsize'[j] = dsize[j]
    /\ \A j \in Inodes \ {i}, b \in Blocks : IsIndex(addrs[j], ptr, b) => ptr'[b] = ptr[b]
    /\ pc[p] = "idle" \/ ino[p] = i
    /\ pc'[p] = "idle" \/ ino'[p] = i
    /\ pc[p] = "idle" => ~Locked(i)

\* Nobody else works on i.
LEMMA ApartOthers ==
  ASSUME Shape, NEW p \in Procs, NEW i \in Inodes, Apart(p, i)
  PROVE  \A q \in Procs \ {p} : pc[q] # "idle" => ino[q] # i
  BY DEF Apart, Shape, Holders, Locked

\* The blocks of the others stay theirs.
LEMMA ApartLinks ==
  ASSUME Shape, Types', NEW p \in Procs, NEW i \in Inodes, Apart(p, i)
  PROVE  \A j \in Inodes \ {i} : \A b, k, t : LinkOf(j, b, k, t)' <=> LinkOf(j, b, k, t)
  <1>1. ASSUME NEW j \in Inodes \ {i}
        PROVE  \A b, k, t : LinkOf(j, b, k, t)' <=> LinkOf(j, b, k, t)
    <2>1. addrs'[j] = addrs[j] /\ addrs[j] \in Addrs /\ ptr \in Contents /\ ptr' \in Contents
      BY ShapeTypes DEF Apart, Types, TypeOK, Contents
    <2>2. /\ \A b, k, t : Link(addrs[j], ptr', b, k, t) <=> Link(addrs[j], ptr, b, k, t)
      BY <2>1, LinksStay DEF Apart
    <2>3. ASSUME NEW b PROVE Emptied(j, b)' <=> Emptied(j, b)
      <3>1. ASSUME NEW q \in Procs \ {p}, pc[q] = "inner block", ino[q] = j
            PROVE  ptr'[addrs[j][NDIRECT + 1]] = ptr[addrs[j][NDIRECT + 1]]
        <4>1. addrs[j][NDIRECT + 1] # 0 /\ addrs[j][NDIRECT + 1] \in Blocks
          BY <2>1, <3>1, Sizes DEF Shape, Truncs, TruncAt, Addrs
        <4>2. IsIndex(addrs[j], ptr, addrs[j][NDIRECT + 1])
          BY <4>1 DEF IsIndex, Double
        <4> QED
          BY <4>1, <4>2 DEF Apart
      <3>2. \A q \in Procs : pc[q] \in {"indirect block", "inner block"} /\ ino[q] = j => q # p
        BY DEF Apart
      <3>3. \A q \in Procs : pc'[q] \in {"indirect block", "inner block"} /\ ino'[q] = j => q # p
        BY DEF Apart
      <3>4. \A q \in Procs \ {p} : pc'[q] = pc[q] /\ ino'[q] = ino[q] /\ bn'[q] = bn[q]
        BY DEF Apart
      <3> DEFINE E(q) == /\ ino[q] = j
                         /\ \/ pc[q] = "indirect block" /\ Indirect(addrs[j], b)
                            \/ pc[q] = "inner block" /\ b = ptr[addrs[j][NDIRECT + 1]][bn[q]]
      <3>5. ASSUME NEW q \in Procs PROVE E(q)' <=> E(q)
        <4>1. CASE q = p
          BY <3>2, <3>3, <4>1
        <4>2. CASE q # p
          BY <2>1, <3>1, <3>4, <4>2 DEF Indirect
        <4> QED
          BY <4>1, <4>2
      <3>6. (Emptied(j, b) <=> \E q \in Procs : E(q)) /\ (Emptied(j, b)' <=> \E q \in Procs : E(q)')
        BY DEF Emptied
      <3> HIDE DEF E
      <3> QED
        BY <3>5, <3>6
    <2> QED
      BY <2>1, <2>2, <2>3 DEF LinkOf
  <1> QED
    BY <1>1

\* What the invariant says of the others stays so.
LEMMA ApartStep ==
  ASSUME IInv, Types', NEW p \in Procs, NEW i \in Inodes, Apart(p, i),
         WritingAt(p)', TruncAt(p)', pc'[p] = "idle" => SyncedAt(i)' /\ FilledAt(i)',
         Unique', Exact', Disk', ~panic'
  PROVE  IInv'
  <1>0. Shape /\ ptr \in Contents /\ ptr' \in Contents /\ \A j \in Inodes : addrs[j] \in Addrs
    <2>1. Shape
      BY DEF IInv, Shape
    <2> QED
      BY <2>1, ShapeTypes DEF Types, TypeOK, Contents
  <1>1. \A q \in Procs \ {p} : pc[q] # "idle" => ino[q] # i
    BY <1>0, ApartOthers
  <1>2. ASSUME NEW j \in Inodes \ {i}, NEW n \in 0..(MAXFILE - 1), Has(addrs[j], ptr, n)
        PROVE  Has(addrs'[j], ptr', n)
    <2>1. addrs'[j] = addrs[j] /\ \A b \in Blocks : IsIndex(addrs[j], ptr, b) => ptr'[b] = ptr[b]
      BY DEF Apart
    <2> QED
      BY <1>0, <1>2, <2>1, HasStays
  <1>3. \A q \in Procs \ {p} : ino[q] \in Inodes
    BY <1>0, ShapeTypes
  <1>4. Holders'
    BY <1>1 DEF Apart, IInv, Holders
  <1>5. ASSUME NEW q \in Procs \ {p} PROVE WritingAt(q)'
    <2>1. /\ pc'[q] = pc[q] /\ ino'[q] = ino[q] /\ bn'[q] = bn[q] /\ stop'[q] = stop[q]
          /\ WritingAt(q)
      BY DEF Apart, IInv, Writing
    <2>2. CASE pc[q] \in {"bmap", "iupdate"}
      <3>1. ino[q] \in Inodes \ {i} /\ size'[ino[q]] = size[ino[q]]
        BY <1>1, <1>3, <2>2 DEF Apart
      <3> QED
        BY <1>2, <2>1, <3>1 DEF WritingAt
    <2>3. CASE pc[q] \notin {"bmap", "iupdate"}
      BY <2>1, <2>3 DEF WritingAt
    <2> QED
      BY <2>2, <2>3
  <1>6. ASSUME NEW q \in Procs \ {p} PROVE TruncAt(q)'
    <2>1. /\ pc'[q] = pc[q] /\ ino'[q] = ino[q] /\ bn'[q] = bn[q] /\ TruncAt(q)
      BY DEF Apart, IInv, Truncs
    <2> DEFINE a == addrs[ino[q]]
               dbl == a[NDIRECT + 1]
    <2>2. pc[q] # "idle" => addrs'[ino[q]] = a
      BY <1>1, <1>3 DEF Apart
    <2>3. pc[q] \in {"double", "inner block"} => ptr'[dbl] = ptr[dbl]
      <3>1. SUFFICES ASSUME pc[q] \in {"double", "inner block"} PROVE ptr'[dbl] = ptr[dbl]
        OBVIOUS
      <3>2. dbl # 0 /\ ino[q] \in Inodes \ {i}
        BY <1>1, <1>3, <2>1, <3>1 DEF TruncAt
      <3>3. dbl \in Blocks /\ IsIndex(a, ptr, dbl)
        BY <1>0, <3>2, Sizes DEF IsIndex, Double, Addrs
      <3> QED
        BY <3>2, <3>3 DEF Apart
    <2> QED
      BY <2>1, <2>2, <2>3 DEF TruncAt
  <1>7. Writing' /\ Truncs'
    BY <1>5, <1>6 DEF Writing, Truncs
  <1>8. \A j \in Inodes \ {i} : ~Locked(j)' => ~Locked(j)
    BY DEF Locked, Apart
  <1>9. ~Locked(i)' => pc'[p] = "idle"
    BY DEF Locked, Apart
  <1>10. ASSUME NEW j \in Inodes, ~Locked(j)' PROVE SyncedAt(j)' /\ FilledAt(j)'
    <2>1. CASE j = i
      BY <1>9, <1>10, <2>1
    <2>2. CASE j # i
      <3>1. SyncedAt(j) /\ FilledAt(j)
        BY <1>8, <1>10, <2>2 DEF IInv, Synced, Filled
      <3>2. SyncedAt(j)'
        BY <2>2, <3>1 DEF SyncedAt, Apart
      <3>3. size'[j] = size[j]
        BY <2>2 DEF Apart
      <3>4. FilledAt(j)'
        BY <1>2, <2>2, <3>1, <3>3 DEF FilledAt
      <3> QED
        BY <3>2, <3>4
    <2> QED
      BY <2>1, <2>2
  <1>11. Synced' /\ Filled'
    BY <1>10 DEF Synced, Filled
  <1> QED
    BY <1>4, <1>7, <1>11 DEF IInv

-----------------------------------------------------------------------------
(* bmap.                                                                   *)

\* The slot s that bmap comes to for block n of inode i: a slot of the inode or
\* of one of its index blocks; it holds a block just when the file has block n,
\* and then it is none that holds an index block.
SlotIs(i, n, s) ==
    /\ s = <<s[1], s[2]>>
    /\ \/ s[1] = 0 /\ s[2] \in Slots
       \/ s[1] \in Blocks /\ IsIndex(addrs[i], ptr, s[1]) /\ s[2] \in Entries
    /\ Deref(i, s) # 0 <=> Has(addrs[i], ptr, n)
    /\ Deref(i, s) # 0 => \A b : ~Parent(i, b, s[1], s[2])

\* The decisions of bmap.
LEMMA SlotCases ==
  ASSUME Shape, NEW i \in Inodes, NEW n \in 0..(MAXFILE - 1)
  PROVE  SlotIs(i, n, SlotOf(i, n))
  <1> DEFINE a == addrs[i]
             ind == a[NDIRECT]
             dbl == a[NDIRECT + 1]
             q == (n - NDIRECT - NINDIRECT) \div NINDIRECT
             r == (n - NDIRECT - NINDIRECT) % NINDIRECT
  <1>0. /\ n \in Nat /\ NDIRECT \in Nat /\ NINDIRECT \in Nat /\ a \in Addrs /\ ptr \in Contents
        /\ NDIRECT \in Slots /\ NDIRECT + 1 \in Slots /\ ind \in Addr /\ dbl \in Addr
        /\ 0 \notin Blocks /\ \A x \in Addr : x # 0 => x \in Blocks
    BY Sizes, ShapeTypes
  <1>1. CASE n < NDIRECT
    <2>1. SlotOf(i, n) = <<0, n>> /\ n \in Slots /\ n # NDIRECT /\ n # NDIRECT + 1
      BY <1>0, <1>1 DEF SlotOf, Slots
    <2>2. Has(a, ptr, n) <=> a[n] # 0
      BY <1>1 DEF Has
    <2>3. \A b : ~Parent(i, b, 0, n)
      BY <2>1 DEF Parent, Double
    <2> QED
      BY <2>1, <2>2, <2>3 DEF SlotIs, Deref
  <1>2. CASE ~(n < NDIRECT) /\ n < NDIRECT + NINDIRECT
    <2>1. n - NDIRECT < NINDIRECT /\ n - NDIRECT \in Entries
      BY <1>0, <1>2 DEF Entries
    <2>2. Has(a, ptr, n) <=> ind # 0 /\ ptr[ind][n - NDIRECT] # 0
      BY <1>2 DEF Has
    <2>3. CASE ind = 0
      <3>1. SlotOf(i, n) = <<0, NDIRECT>>
        BY <1>2, <2>1, <2>3 DEF SlotOf
      <3> QED
        BY <1>0, <2>2, <2>3, <3>1 DEF SlotIs, Deref
    <2>4. CASE ind # 0
      <3>1. SlotOf(i, n) = <<ind, n - NDIRECT>>
        BY <1>2, <2>1, <2>4 DEF SlotOf
      <3>2. \A b : ~Parent(i, b, ind, n - NDIRECT)
        BY <2>4 DEF Parent
      <3>3. IsIndex(a, ptr, ind) /\ ind \in Blocks
        BY <1>0, <2>4 DEF IsIndex, Indirect
      <3> HIDE DEF a, ind
      <3> QED
        BY <2>1, <2>2, <2>4, <3>1, <3>2, <3>3 DEF SlotIs, Deref, a
    <2> QED
      BY <2>3, <2>4
  <1>3. CASE ~(n < NDIRECT) /\ ~(n < NDIRECT + NINDIRECT)
    <2>1. ~(n - NDIRECT < NINDIRECT) /\ q \in Entries /\ r \in Entries
      <3>1. n >= NDIRECT + NINDIRECT
        BY <1>0, <1>3
      <3> QED
        BY <1>0, <1>3, <3>1, Positions
    <2>2. Has(a, ptr, n) <=> dbl # 0 /\ ptr[dbl][q] # 0 /\ ptr[ptr[dbl][q]][r] # 0
      BY <1>3 DEF Has
    <2>3. SlotOf(i, n) = IF dbl = 0 THEN <<0, NDIRECT + 1>>
                         ELSE IF ptr[dbl][q] = 0 THEN <<dbl, q>> ELSE <<ptr[dbl][q], r>>
      BY <1>3, <2>1 DEF SlotOf
    <2> HIDE DEF q, r
    <2>4. CASE dbl = 0
      BY <1>0, <2>2, <2>3, <2>4 DEF SlotIs, Deref
    <2>5. CASE dbl # 0 /\ ptr[dbl][q] = 0
      <3>1. IsIndex(a, ptr, dbl) /\ dbl \in Blocks
        BY <1>0, <2>5 DEF IsIndex, Double
      <3> HIDE DEF a, dbl
      <3> QED
        BY <1>0, <2>1, <2>2, <2>3, <2>5, <3>1 DEF SlotIs, Deref, a
    <2>6. CASE dbl # 0 /\ ptr[dbl][q] # 0
      <3>1. dbl \in Blocks
        BY <1>0, <2>6
      <3>2. ptr[dbl][q] \in Blocks
        BY <1>0, <2>1, <2>6, <3>1 DEF Contents
      <3>3. IsIndex(a, ptr, ptr[dbl][q])
        BY <2>1, <2>6 DEF IsIndex, Inner
      <3>4. Parent(i, ptr[dbl][q], dbl, q)
        BY <2>1, <2>6, Parents
      <3>5. ptr[dbl][q] # dbl
        BY <2>6, <3>4 DEF Parent, Double, Indirect
      <3>6. \A b : ~Parent(i, b, ptr[dbl][q], r)
        BY <2>6, <3>5 DEF Parent, Double
      <3>7. SlotOf(i, n) = <<ptr[dbl][q], r>>
        BY <2>3, <2>6
      <3> HIDE DEF a, dbl
      <3> QED
        BY <1>0, <2>1, <2>2, <2>6, <3>2, <3>3, <3>6, <3>7 DEF SlotIs, Deref, a
    <2> QED
      BY <2>4, <2>5, <2>6
  <1> QED
    BY <1>1, <1>2, <1>3

-----------------------------------------------------------------------------
(* Types.                                                                  *)

Pcs == {"idle", "bmap", "iupdate"} \cup TruncSteps

\* What is in the memory of the system, and in that of the processes.
Memory == /\ bitmap \subseteq Blocks /\ ptr \in Contents /\ addrs \in [Inodes -> Addrs]
          /\ size \in [Inodes -> 0..MAXFILE]
Dinodes == daddrs \in [Inodes -> Addrs] /\ dsize \in [Inodes -> 0..MAXFILE]
Locals == /\ pc \in [Procs -> Pcs] /\ ino \in [Procs -> Inodes]
          /\ bn \in [Procs -> Nat] /\ stop \in [Procs -> 0..MAXFILE]
Snapshots == [bitmap : SUBSET Blocks, ptr : Contents, addrs : [Inodes -> Addrs],
              size : [Inodes -> 0..MAXFILE]]

\* The types, part by part.
LEMMA TypeParts ==
  /\ Types <=> Memory /\ Dinodes /\ Locals /\ disk \in Snapshots /\ panic \in BOOLEAN
  /\ Types' <=> Memory' /\ Dinodes' /\ Locals' /\ disk' \in Snapshots /\ panic' \in BOOLEAN
  <1>1. ASSUME disk \in Snapshots PROVE disk.bitmap \subseteq Blocks
    BY <1>1 DEF Snapshots
  <1>2. ASSUME disk' \in Snapshots PROVE disk'.bitmap \subseteq Blocks
    BY <1>2 DEF Snapshots
  <1>3. Types <=> Memory /\ Dinodes /\ Locals /\ disk \in Snapshots /\ panic \in BOOLEAN
    BY <1>1, Zenon DEF Types, TypeOK, Memory, Dinodes, Locals, Snapshots, Addrs, Contents, Pcs
  <1>4. Types' <=> Memory' /\ Dinodes' /\ Locals' /\ disk' \in Snapshots /\ panic' \in BOOLEAN
    BY <1>2, Zenon DEF Types, TypeOK, Memory, Dinodes, Locals, Snapshots, Addrs, Contents, Pcs
  <1> QED
    BY <1>3, <1>4

\* The contents of a block of data, and of one that is zeroed.
LEMMA DataTypes ==
  /\ NoPtrs \in [Entries -> Addr] /\ AnyInode \in Inodes /\ 0 \in 0..MAXFILE
  /\ \A b \in Blocks : Data \in [Entries -> Addr]
  <1>1. NoPtrs \in [Entries -> Addr]
    BY Sizes DEF NoPtrs
  <1>2. AnyInode \in Inodes
    BY BlockMapAssumption DEF AnyInode
  <1>3. ASSUME NEW b \in Blocks PROVE 1 \in Addr
    BY Sizes DEF Blocks, Addr
  <1>4. \A b \in Blocks : Data \in [Entries -> Addr]
    BY <1>3 DEF Data
  <1> QED
    BY <1>1, <1>2, <1>4, Sizes

\* bfree keeps the types.
LEMMA BfreeTypes ==
  ASSUME Types, NEW S, NEW c \in Contents, Bfree(S, c)
  PROVE  bitmap' \subseteq Blocks /\ ptr' \in Contents /\ panic' \in BOOLEAN
  <1>1. \A b \in Blocks : (IF b \in S THEN Data ELSE c[b]) \in [Entries -> Addr]
    BY DataTypes DEF Contents
  <1>2. bitmap \subseteq Blocks
    BY TypeParts DEF Memory
  <1>3. bitmap' \subseteq Blocks
    BY <1>2 DEF Bfree
  <1>4. ptr' \in Contents
    BY <1>1 DEF Bfree, Contents
  <1>5. panic' \in BOOLEAN
    BY DEF Bfree
  <1> QED
    BY <1>3, <1>4, <1>5

\* The larger of two sizes is one of them.
LEMMA MaxOfTwo ==
  ASSUME NEW x \in 0..MAXFILE, NEW y \in 0..MAXFILE
  PROVE  /\ Max({x, y}) \in 0..MAXFILE /\ Max({x, y}) >= x /\ Max({x, y}) >= y
         /\ Max({x, y}) \in {x, y}
  <1>1. /\ {x, y} \subseteq Int /\ {x, y} # {} /\ MAXFILE \in Int /\ \A z \in {x, y} : z <= MAXFILE
    BY Sizes
  <1>2. Max({x, y}) \in {x, y} /\ \A z \in {x, y} : Max({x, y}) >= z
    BY <1>1, MaxInt
  <1> QED
    BY <1>2

\* The first free block is free.
LEMMA MinFree == Free # {} => Min(Free) \in Blocks /\ Min(Free) \notin bitmap
  <1>1. Free \subseteq Nat
    BY Sizes DEF Free
  <1>2. Free # {} => Min(Free) \in Free
    BY <1>1, MinNat
  <1> QED
    BY <1>2 DEF Free

-----------------------------------------------------------------------------
(* The steps of writei.                                                    *)

\* Only p can have emptied an index block of the inode it holds.
LEMMA EmptiedBy ==
  ASSUME Shape, NEW p \in Procs, NEW i \in Inodes, Apart(p, i)
  PROVE  /\ \A b : Emptied(i, b) <=>
               \/ pc[p] = "indirect block" /\ Indirect(addrs[i], b)
               \/ pc[p] = "inner block" /\ b = ptr[addrs[i][NDIRECT + 1]][bn[p]]
         /\ \A b : Emptied(i, b)' <=>
               \/ pc'[p] = "indirect block" /\ Indirect(addrs'[i], b)
               \/ pc'[p] = "inner block" /\ b = ptr'[addrs'[i][NDIRECT + 1]][bn'[p]]
  <1>1. \A q \in Procs \ {p} : pc[q] # "idle" => ino[q] # i
    BY ApartOthers
  <1>2. \A q \in Procs \ {p} : pc'[q] # "idle" => ino'[q] # i
    BY <1>1 DEF Apart
  <1>3. pc[p] \in {"indirect block", "inner block"} => ino[p] = i
    BY DEF Apart
  <1>4. pc'[p] \in {"indirect block", "inner block"} => ino'[p] = i
    BY DEF Apart
  <1>5. ASSUME NEW b
        PROVE  Emptied(i, b) <=>
                 \/ pc[p] = "indirect block" /\ Indirect(addrs[i], b)
                 \/ pc[p] = "inner block" /\ b = ptr[addrs[i][NDIRECT + 1]][bn[p]]
    BY <1>1, <1>3 DEF Emptied
  <1>6. ASSUME NEW b
        PROVE  Emptied(i, b)' <=>
                 \/ pc'[p] = "indirect block" /\ Indirect(addrs'[i], b)
                 \/ pc'[p] = "inner block" /\ b = ptr'[addrs'[i][NDIRECT + 1]][bn'[p]]
    BY <1>2, <1>4 DEF Emptied, Indirect
  <1> QED
    BY <1>5, <1>6

\* A step that changes no link.
LEMMA SameLinks ==
  ASSUME IInv, Types', NEW p \in Procs, NEW i \in Inodes, Apart(p, i), bitmap' = bitmap,
         \A b \in Addr, k \in Nat, t \in Blocks : LinkOf(i, b, k, t)' <=> LinkOf(i, b, k, t)
  PROVE  Unique' /\ Exact'
  <1>1. \A j \in Inodes, b \in Addr, k \in Nat, t \in Blocks : LinkOf(j, b, k, t)' <=> LinkOf(j, b, k, t)
    BY ApartLinks DEF IInv, Shape
  <1>2. Unique'
    BY <1>1 DEF IInv, Unique
  <1>3. Exact'
    BY <1>1 DEF IInv, Exact
  <1> QED
    BY <1>2, <1>3

\* A step that changes no block and no inode in memory, and no emptied block.
LEMMA Unmoved ==
  ASSUME IInv, Types', NEW p \in Procs, NEW i \in Inodes, Apart(p, i),
         UNCHANGED <<bitmap, ptr, addrs>>,
         {pc[p], pc'[p]} \cap {"indirect block", "inner block"} = {}
  PROVE  Unique' /\ Exact'
  <1>1. \A b : ~Emptied(i, b) /\ ~Emptied(i, b)'
    BY EmptiedBy DEF IInv, Shape
  <1>2. \A b, k, t : Link(addrs[i], ptr, b, k, t)' <=> Link(addrs[i], ptr, b, k, t)
    BY Zenon DEF Link, IsIndex, Indirect, Double, Inner
  <1>3. \A b \in Addr, k \in Nat, t \in Blocks : LinkOf(i, b, k, t)' <=> LinkOf(i, b, k, t)
    BY <1>1, <1>2, Zenon DEF LinkOf
  <1>4. bitmap' = bitmap
    OBVIOUS
  <1> QED
    BY <1>3, <1>4, SameLinks

\* begin_op, ilock and the beginning of writei or itrunc.
LEMMA BeginStep ==
  ASSUME IInv, NEW p \in Procs, NEW i \in Inodes,
         (\E off \in 0..MAXFILE, n \in 1..MAXWRITE : BeginWrite(p, i, off, n)) \/ BeginTrunc(p, i)
  PROVE  IInv'
  <1> DEFINE Began == /\ Locals' /\ ino'[p] = i /\ pc'[p] \in {"direct", "bmap"}
                      /\ \A q \in Procs \ {p} : /\ pc'[q] = pc[q] /\ ino'[q] = ino[q]
                                                /\ bn'[q] = bn[q] /\ stop'[q] = stop[q]
                      /\ pc'[p] = "direct" => bn'[p] = 0
                      /\ pc'[p] = "bmap" => bn'[p] <= size[i] /\ bn'[p] < stop'[p]
  <1>0. /\ Memory /\ Dinodes /\ Locals /\ disk \in Snapshots /\ panic \in BOOLEAN /\ ~panic
        /\ size[i] \in Nat
    BY TypeParts, Sizes DEF IInv, Memory
  <1>1. /\ pc[p] = "idle" /\ ~Locked(i) /\ bn[p] = 0
        /\ ino' = [ino EXCEPT ![p] = i]
        /\ UNCHANGED <<bitmap, ptr, inode, dinode, disk, panic>>
    BY DEF BeginWrite, BeginTrunc, BeginOp, IInv, Truncs, TruncAt
  <1>2. Began
    <2>1. CASE BeginTrunc(p, i)
      <3>1. pc' = [pc EXCEPT ![p] = "direct"] /\ bn' = bn /\ stop' = stop
        BY <2>1 DEF BeginTrunc
      <3> QED
        BY <1>0, <1>1, <3>1 DEF Locals, Pcs, TruncSteps
    <2>2. ASSUME NEW off \in 0..MAXFILE, NEW n \in 1..MAXWRITE, BeginWrite(p, i, off, n)
          PROVE  Began
      <3>1. /\ pc' = [pc EXCEPT ![p] = "bmap"] /\ off <= size[i] /\ off + n <= MAXFILE
            /\ bn' = [bn EXCEPT ![p] = off] /\ stop' = [stop EXCEPT ![p] = off + n]
        BY <2>2 DEF BeginWrite
      <3>2. off \in Nat /\ off + n \in 0..MAXFILE /\ off < off + n
        BY <3>1, Sizes, BlockMapAssumption
      <3> QED
        BY <1>0, <1>1, <3>1, <3>2 DEF Locals, Pcs
    <2> QED
      BY <2>1, <2>2
  <1> HIDE DEF Began
  <1>3. Apart(p, i)
    BY <1>1, <1>2 DEF Apart, Began, inode, dinode
  <1>4. Types'
    BY <1>0, <1>1, <1>2, TypeParts DEF Began, Memory, Dinodes, inode, dinode
  <1>5. WritingAt(p)'
    <2>1. FilledAt(i) /\ addrs' = addrs /\ size' = size /\ ptr' = ptr
      BY <1>1 DEF IInv, Filled, inode
    <2>2. CASE pc'[p] = "direct"
      BY <2>2 DEF WritingAt
    <2>3. CASE pc'[p] = "bmap"
      <3>1. ino'[p] = i /\ bn'[p] \in Nat /\ stop'[p] \in Nat /\ bn'[p] <= size[i] /\ bn'[p] < stop'[p]
        BY <1>2, <2>3, Sizes DEF Began, Locals
      <3>2. \A n \in 0..(MAXFILE - 1) : n < bn'[p] => n < size[i]
        BY <1>0, <3>1, Sizes
      <3>3. bn'[p] <= stop'[p]
        BY <3>1
      <3> QED
        BY <2>1, <2>3, <3>1, <3>2, <3>3 DEF WritingAt, FilledAt
    <2> QED
      BY <1>2, <2>2, <2>3 DEF Began
  <1>6. TruncAt(p)'
    BY <1>2 DEF TruncAt, Began
  <1>7. Unique' /\ Exact'
    BY <1>1, <1>2, <1>3, <1>4, Unmoved DEF Began, inode
  <1>8. Disk' /\ ~panic'
    BY <1>0, <1>1 DEF IInv, Disk, DiskUnique, DiskExact, DiskFilled
  <1>9. pc'[p] # "idle"
    BY <1>2 DEF Began
  <1> QED
    BY <1>3, <1>4, <1>5, <1>6, <1>7, <1>8, <1>9, ApartStep

\* Most steps leave the committed blocks alone.
LEMMA SameDisk ==
  ASSUME IInv, disk' = disk
  PROVE  Disk'
  BY DEF IInv, Disk, DiskUnique, DiskExact, DiskFilled

\* bmap returns 0 or either_copyin fails: the loop of writei ends.
LEMMA StopStep ==
  ASSUME IInv, NEW p \in Procs, BmapFull(p) \/ CopyFails(p)
  PROVE  IInv'
  <1> DEFINE i == ino[p]
  <1>0. /\ Memory /\ Dinodes /\ Locals /\ disk \in Snapshots /\ panic \in BOOLEAN /\ ~panic
        /\ i \in Inodes /\ WritingAt(p)
    BY TypeParts DEF IInv, Locals, Writing
  <1>1. /\ pc[p] = "bmap" /\ pc' = [pc EXCEPT ![p] = "iupdate"]
        /\ UNCHANGED <<bitmap, ptr, addrs, size, daddrs, dsize, disk, ino, bn, stop, panic>>
    BY DEF BmapFull, CopyFails, inode, dinode, args, log
  <1>2. /\ Locals' /\ pc'[p] = "iupdate"
        /\ \A q \in Procs \ {p} : pc'[q] = pc[q]
    BY <1>0, <1>1 DEF Locals, Pcs
  <1>3. Apart(p, i)
    BY <1>1, <1>2 DEF Apart
  <1>4. Types'
    BY <1>0, <1>1, <1>2, TypeParts DEF Memory, Dinodes
  <1>5. WritingAt(p)'
    BY <1>0, <1>1, <1>2 DEF WritingAt
  <1>6. TruncAt(p)'
    BY <1>2 DEF TruncAt
  <1>7. Unique' /\ Exact'
    BY <1>0, <1>1, <1>2, <1>3, <1>4, Unmoved
  <1>8. disk' = disk /\ panic' = panic
    BY <1>1
  <1>9. Disk' /\ ~panic'
    BY <1>0, <1>8, SameDisk
  <1> QED
    BY <1>0, <1>2, <1>3, <1>4, <1>5, <1>6, <1>7, <1>9, ApartStep

\* The number b of an empty block has been put into slot y of block x.
Added(a, c, a2, c2, x, y, b) ==
    /\ \/ x = 0 /\ y \in Slots /\ a[y] = 0
       \/ x # 0 /\ IsIndex(a, c, x) /\ y \in Entries /\ c[x][y] = 0
    /\ \A k \in Slots : a2[k] = IF x = 0 /\ k = y THEN b ELSE a[k]
    /\ \A d \in Blocks, k \in Entries :
          c2[d][k] = IF d = b THEN 0 ELSE IF d = x /\ k = y THEN b ELSE c[d][k]

\* A new block in an empty slot of a file is one link more, and nothing is
\* linked from it, since balloc zeroes it.
LEMMA LinkAdded ==
  ASSUME NEW a \in Addrs, NEW c \in Contents, NEW a2 \in Addrs, NEW c2 \in Contents,
         NEW x, NEW y, NEW b \in Blocks, ~IsIndex(a, c, b), Added(a, c, a2, c2, x, y, b)
  PROVE  /\ \A d : IsIndex(a, c, d) => IsIndex(a2, c2, d)
         /\ \A d : IsIndex(a2, c2, d) => IsIndex(a, c, d) \/ d = b
         /\ \A d, k, t : Link(a2, c2, d, k, t) <=>
                            Link(a, c, d, k, t) \/ (d = x /\ k = y /\ t = b)
  <1> DEFINE dbl == a[NDIRECT + 1]
  <1>0. /\ NDIRECT \in Slots /\ NDIRECT + 1 \in Slots /\ 0 \notin Blocks /\ b # 0
        /\ \A d : IsIndex(a, c, d) => d \in Blocks
        /\ \A d : IsIndex(a2, c2, d) => d \in Blocks
    BY Sizes, IndexIsBlock
  <1>1. \A d : Indirect(a, d) => Indirect(a2, d)
    BY <1>0 DEF Indirect, Added
  <1>2. \A d : Indirect(a2, d) => Indirect(a, d) \/ d = b
    BY <1>0 DEF Indirect, Added
  <1>3. \A d : Double(a, d) => Double(a2, d)
    BY <1>0 DEF Double, Added
  <1>4. \A d : Double(a2, d) => Double(a, d) \/ d = b
    BY <1>0 DEF Double, Added
  <1>5. dbl # 0 => dbl \in Blocks /\ dbl # b /\ IsIndex(a, c, dbl) /\ a2[NDIRECT + 1] = dbl
    BY <1>0 DEF IsIndex, Double, Added
  <1>6. \A d : Inner(a, c, d) => Inner(a2, c2, d)
    BY <1>5 DEF Inner, Added
  <1>7. ASSUME NEW d, Inner(a2, c2, d) PROVE Inner(a, c, d) \/ d = b
    <2>1. CASE dbl # 0
      BY <1>5, <1>7, <2>1 DEF Inner, Added
    <2>2. CASE dbl = 0
      <3>1. a2[NDIRECT + 1] = b
        BY <1>0, <1>7, <2>2 DEF Inner, Added
      <3>2. \A k \in Entries : c2[b][k] = 0
        BY DEF Added
      <3> QED
        BY <1>7, <3>1, <3>2 DEF Inner
    <2> QED
      BY <2>1, <2>2
  <1>8. /\ \A d : IsIndex(a, c, d) => IsIndex(a2, c2, d)
        /\ \A d : IsIndex(a2, c2, d) => IsIndex(a, c, d) \/ d = b
    BY <1>1, <1>2, <1>3, <1>4, <1>6, <1>7 DEF IsIndex
  <1>9. ASSUME NEW d, NEW k, NEW t, Link(a2, c2, d, k, t)
        PROVE  Link(a, c, d, k, t) \/ (d = x /\ k = y /\ t = b)
    BY <1>0, <1>8, <1>9 DEF Link, Added
  <1>10. ASSUME NEW d, NEW k, NEW t, Link(a, c, d, k, t) PROVE Link(a2, c2, d, k, t)
    BY <1>0, <1>8, <1>10 DEF Link, Added
  <1>11. Link(a2, c2, x, y, b)
    BY <1>0, <1>8 DEF Link, Added
  <1> QED
    BY <1>8, <1>9, <1>10, <1>11

\* What a step of writei sees: its block is inside the file, and bmap comes to
\* a slot of it.  No index block of the file is emptied.
LEMMA WriteSees ==
  ASSUME IInv, NEW p \in Procs, pc[p] = "bmap"
  PROVE  /\ Memory /\ Dinodes /\ Locals /\ disk \in Snapshots /\ panic \in BOOLEAN /\ ~panic
         /\ Shape /\ ino[p] \in Inodes /\ addrs[ino[p]] \in Addrs /\ ptr \in Contents
         /\ bn[p] \in 0..(MAXFILE - 1) /\ bn[p] < stop[p] /\ stop[p] \in 0..MAXFILE
         /\ SlotIs(ino[p], bn[p], SlotOf(ino[p], bn[p]))
         /\ WritingAt(p)
  <1>1. Memory /\ Dinodes /\ Locals /\ disk \in Snapshots /\ panic \in BOOLEAN /\ ~panic
    BY TypeParts DEF IInv
  <1>2. Shape /\ WritingAt(p)
    BY DEF IInv, Shape, Writing
  <1>3. ino[p] \in Inodes /\ bn[p] \in Nat /\ stop[p] \in 0..MAXFILE
    BY <1>1 DEF Locals
  <1>4. bn[p] < stop[p]
    BY <1>2 DEF WritingAt
  <1>5. bn[p] \in 0..(MAXFILE - 1)
    BY <1>3, <1>4, Sizes
  <1>6. addrs[ino[p]] \in Addrs /\ ptr \in Contents
    BY <1>2, <1>3, ShapeTypes
  <1> QED
    BY <1>1, <1>2, <1>3, <1>4, <1>5, <1>6, SlotCases

\* balloc within bmap.
LEMMA AllocStep ==
  ASSUME IInv, NEW p \in Procs, BmapAlloc(p)
  PROVE  IInv'
  <1>a. PICK i \in Inodes : i = ino[p]
    BY WriteSees DEF BmapAlloc
  <1> DEFINE s == SlotOf(i, bn[p])
             x == s[1]
             y == s[2]
             b == Min(Free)
  <1>0. /\ Memory /\ Dinodes /\ Locals /\ disk \in Snapshots /\ panic \in BOOLEAN /\ ~panic
        /\ Shape /\ i \in Inodes /\ addrs[i] \in Addrs /\ ptr \in Contents
        /\ SlotIs(i, bn[p], s) /\ WritingAt(p) /\ pc[p] = "bmap"
    BY <1>a, WriteSees DEF BmapAlloc
  <1>1. b \in Blocks /\ b \notin bitmap /\ 0 \notin Blocks
    BY MinFree, Sizes DEF BmapAlloc, Balloc
  <1>2. \A j \in Inodes : ~IsIndex(addrs[j], ptr, b)
    BY <1>0, <1>1, OneParent DEF IInv
  <1>3. /\ UNCHANGED <<size, daddrs, dsize, disk, pc, ino, bn, stop, panic>>
        /\ bitmap' = bitmap \cup {b}
        /\ x = 0 => addrs' = [addrs EXCEPT ![i][y] = b] /\ ptr' = [ptr EXCEPT ![b] = NoPtrs]
        /\ x # 0 => addrs' = addrs /\ ptr' = [[ptr EXCEPT ![b] = NoPtrs] EXCEPT ![x][y] = b]
        /\ Deref(i, s) = 0
    BY <1>a DEF BmapAlloc, Balloc, dinode, log, args, Lookup
  <1>4. \/ x = 0 /\ y \in Slots /\ addrs[i][y] = 0
        \/ x # 0 /\ x \in Blocks /\ IsIndex(addrs[i], ptr, x) /\ y \in Entries /\ ptr[x][y] = 0
    BY <1>0, <1>1, <1>3 DEF SlotIs, Deref
  <1> HIDE DEF s, x, y, b
  <1>5. x # b
    BY <1>0, <1>1, <1>2, <1>4
  <1>6. addrs \in [Inodes -> [Slots -> Addr]] /\ ptr \in [Blocks -> [Entries -> Addr]] /\ b \in Addr
        /\ NoPtrs \in [Entries -> Addr]
    BY <1>0, <1>1, Sizes, DataTypes DEF Memory, Addrs, Contents
  <1>7. /\ addrs' \in [Inodes -> [Slots -> Addr]] /\ ptr' \in [Blocks -> [Entries -> Addr]]
        /\ \A j \in Inodes \ {i} : addrs'[j] = addrs[j]
        /\ \A k \in Slots : addrs'[i][k] = IF x = 0 /\ k = y THEN b ELSE addrs[i][k]
        /\ \A d \in Blocks \ {b, x} : ptr'[d] = ptr[d]
        /\ \A d \in Blocks, k \in Entries :
             ptr'[d][k] = IF d = b THEN 0 ELSE IF d = x /\ k = y THEN b ELSE ptr[d][k]
    <2>0. \A k \in Entries : NoPtrs[k] = 0
      BY DEF NoPtrs
    <2>1. CASE x = 0
      <3>1. addrs' = [addrs EXCEPT ![i] = [addrs[i] EXCEPT ![y] = b]] /\ ptr' = [ptr EXCEPT ![b] = NoPtrs]
        BY <1>3, <2>1
      <3>2. [addrs[i] EXCEPT ![y] = b] \in [Slots -> Addr]
        BY <1>0, <1>6
      <3>3. \A k \in Slots : [addrs[i] EXCEPT ![y] = b][k] = IF k = y THEN b ELSE addrs[i][k]
        BY <1>0, <1>6
      <3>4. \A j \in Inodes : addrs'[j] = IF j = i THEN [addrs[i] EXCEPT ![y] = b] ELSE addrs[j]
        BY <3>1, <1>6
      <3>5. \A d \in Blocks : ptr'[d] = IF d = b THEN NoPtrs ELSE ptr[d]
        BY <3>1, <1>6
      <3>6. addrs' \in [Inodes -> [Slots -> Addr]]
        BY <1>6, <3>1, <3>2
      <3>7. ptr' \in [Blocks -> [Entries -> Addr]]
        BY <1>6, <3>1
      <3> QED
        BY <1>0, <1>1, <2>0, <2>1, <3>3, <3>4, <3>5, <3>6, <3>7
    <2>2. CASE x # 0
      <3> DEFINE z == [ptr EXCEPT ![b] = NoPtrs]
      <3>0. x \in Blocks /\ y \in Entries
        BY <1>4, <2>2
      <3>1. addrs' = addrs /\ ptr' = [z EXCEPT ![x] = [z[x] EXCEPT ![y] = b]]
        BY <1>3, <2>2
      <3>2. z \in [Blocks -> [Entries -> Addr]] /\ \A d \in Blocks : z[d] = IF d = b THEN NoPtrs ELSE ptr[d]
        BY <1>6
      <3> HIDE DEF z
      <3>3. z[x] = ptr[x] /\ ptr[x] \in [Entries -> Addr]
        BY <1>5, <1>6, <3>0, <3>2
      <3>4. /\ [ptr[x] EXCEPT ![y] = b] \in [Entries -> Addr]
            /\ \A k \in Entries : [ptr[x] EXCEPT ![y] = b][k] = IF k = y THEN b ELSE ptr[x][k]
        BY <1>6, <3>3
      <3>5. /\ ptr' \in [Blocks -> [Entries -> Addr]]
            /\ \A d \in Blocks : ptr'[d] = IF d = x THEN [ptr[x] EXCEPT ![y] = b] ELSE z[d]
        BY <3>1, <3>2, <3>3, <3>4
      <3> QED
        BY <1>5, <1>6, <2>0, <2>2, <3>1, <3>2, <3>4, <3>5
    <2> QED
      BY <2>1, <2>2
  <1>8. addrs'[i] \in Addrs /\ ptr' \in Contents
    BY <1>0, <1>7 DEF Addrs, Contents
  <1>9. Types'
    <2>1. Memory'
      BY <1>0, <1>1, <1>3, <1>7 DEF Memory, Addrs, Contents
    <2> QED
      BY <1>0, <1>3, <2>1, TypeParts DEF Dinodes, Locals
  <1>10. Apart(p, i)
    <2>1. ASSUME NEW j \in Inodes \ {i}, NEW d \in Blocks, IsIndex(addrs[j], ptr, d)
          PROVE  ptr'[d] = ptr[d]
      <3>1. d # b
        BY <1>2, <2>1
      <3>2. d # x
        BY <1>0, <1>1, <1>4, <2>1, OneParent
      <3> QED
        BY <1>7, <3>1, <3>2
    <2> QED
      BY <1>a, <1>0, <1>3, <1>7, <2>1 DEF Apart
  <1>11. \A d, k, t : Link(addrs'[i], ptr', d, k, t) <=>
                         Link(addrs[i], ptr, d, k, t) \/ (d = x /\ k = y /\ t = b)
    <2>1. ~IsIndex(addrs[i], ptr, b) /\ b \in Blocks /\ addrs[i] \in Addrs /\ ptr \in Contents
      BY <1>0, <1>1, <1>2
    <2>2. Added(addrs[i], ptr, addrs'[i], ptr', x, y, b)
      BY <1>4, <1>7 DEF Added
    <2> QED
      BY <1>8, <2>1, <2>2, LinkAdded
  <1>12. \A d : ~Emptied(i, d) /\ ~Emptied(i, d)'
    BY <1>0, <1>3, <1>10, EmptiedBy
  <1>13. \A j \in Inodes, d \in Addr, l \in Nat, t \in Blocks :
            LinkOf(j, d, l, t)' <=> LinkOf(j, d, l, t) \/ (j = i /\ d = x /\ l = y /\ t = b)
    <2>1. ASSUME NEW j \in Inodes \ {i} PROVE \A d, l, t : LinkOf(j, d, l, t)' <=> LinkOf(j, d, l, t)
      BY <1>0, <1>9, <1>10, ApartLinks
    <2>2. \A d, l, t : LinkOf(i, d, l, t)' <=> LinkOf(i, d, l, t) \/ (d = x /\ l = y /\ t = b)
      BY <1>3, <1>11, <1>12 DEF LinkOf
    <2> QED
      BY <2>1, <2>2
  <1>14. Unique' /\ Exact'
    <2>1. x \in Addr /\ y \in Nat
      BY <1>4, Sizes
    <2>2. Unique /\ Exact /\ i \in Inodes /\ b \in Blocks /\ b \notin bitmap /\ bitmap' = bitmap \cup {b}
      BY <1>0, <1>1, <1>3 DEF IInv
    <2> QED
      BY <1>13, <2>1, <2>2, Grows
  <1>15. WritingAt(p)'
    <2>1. \A k \in Slots : addrs[i][k] # 0 => addrs'[i][k] = addrs[i][k]
      BY <1>4, <1>7
    <2>2. \A d \in Blocks, k \in Entries :
             IsIndex(addrs[i], ptr, d) /\ ptr[d][k] # 0 => ptr'[d][k] = ptr[d][k]
      BY <1>0, <1>1, <1>2, <1>4, <1>7
    <2>3. \A n \in 0..(MAXFILE - 1) : Has(addrs[i], ptr, n) => Has(addrs'[i], ptr', n)
      BY <1>0, <1>8, <2>1, <2>2, HasStays
    <2> QED
      BY <1>a, <1>0, <1>3, <2>3 DEF WritingAt
  <1>16. TruncAt(p)' /\ pc'[p] # "idle"
    BY <1>0, <1>3 DEF TruncAt
  <1>17. Disk' /\ ~panic'
    <2>1. disk' = disk /\ panic' = panic
      BY <1>3
    <2> QED
      BY <1>0, <2>1, SameDisk
  <1> QED
    BY <1>0, <1>9, <1>10, <1>14, <1>15, <1>16, <1>17, ApartStep

\* A block that is written is no index block.
LEMMA WriteStep ==
  ASSUME IInv, NEW p \in Procs, WriteBlock(p)
  PROVE  IInv'
  <1>a. PICK i \in Inodes : i = ino[p]
    BY WriteSees DEF WriteBlock
  <1>b. PICK n \in 0..(MAXFILE - 1) : n = bn[p]
    BY WriteSees DEF WriteBlock
  <1> DEFINE s == SlotOf(i, n)
             b == Lookup(i, n)
  <1>0. /\ Memory /\ Dinodes /\ Locals /\ disk \in Snapshots /\ panic \in BOOLEAN /\ ~panic
        /\ Shape /\ addrs[i] \in Addrs /\ ptr \in Contents
        /\ n < stop[p] /\ stop[p] \in 0..MAXFILE
        /\ SlotIs(i, n, s) /\ WritingAt(p) /\ pc[p] = "bmap"
    BY <1>a, <1>b, WriteSees DEF WriteBlock
  <1>1. /\ UNCHANGED <<bitmap, addrs, size, daddrs, dsize, disk, ino, stop, panic>>
        /\ b # 0 /\ ptr' = [ptr EXCEPT ![b] = Data]
        /\ bn' = [bn EXCEPT ![p] = n + 1]
        /\ pc' = [pc EXCEPT ![p] = IF n + 1 = stop[p] THEN "iupdate" ELSE "bmap"]
    BY <1>a, <1>b DEF WriteBlock, inode, dinode, log
  <1>2. /\ Locals' /\ bn'[p] = n + 1 /\ pc'[p] \in {"bmap", "iupdate"}
        /\ pc'[p] = "bmap" => n + 1 # stop[p]
        /\ \A q \in Procs \ {p} : pc'[q] = pc[q] /\ bn'[q] = bn[q]
    <2>1. n + 1 \in Nat
      BY Sizes
    <2> QED
      BY <1>0, <1>1, <2>1 DEF Locals, Pcs
  <1>3. b \in Blocks
    BY <1>0, <1>1, Sizes DEF SlotIs, Lookup, Deref, Addrs, Contents
  <1>4. ptr' \in Contents /\ \A d \in Blocks \ {b} : ptr'[d] = ptr[d]
    <2>1. Data \in [Entries -> Addr]
      BY <1>3, DataTypes
    <2> HIDE DEF b
    <2> QED
      BY <1>0, <1>1, <2>1 DEF Contents
  <1>5. Types'
    <2>1. Memory'
      BY <1>0, <1>1, <1>4 DEF Memory
    <2> QED
      BY <1>0, <1>1, <1>2, <2>1, TypeParts DEF Dinodes
  <1>6. Has(addrs[i], ptr, n) /\ \A d : ~Parent(i, d, s[1], s[2])
    BY <1>0, <1>1 DEF SlotIs, Lookup
  <1>7. \A j \in Inodes : ~IsIndex(addrs[j], ptr, b)
    <2>1. Link(addrs[i], ptr, s[1], s[2], b)
      BY <1>0, <1>1, Sizes DEF SlotIs, Lookup, Deref, Link
    <2>2. ~Emptied(i, s[1])
      <3>1. \A q \in Procs : ino[q] = i => q = p \/ pc[q] = "idle"
        BY <1>a, <1>0 DEF Shape, Holders
      <3> QED
        BY <1>0, <3>1 DEF Emptied
    <2>3. LinkOf(i, s[1], s[2], b)
      BY <2>1, <2>2 DEF LinkOf
    <2> HIDE DEF b, s
    <2>4. SUFFICES ASSUME NEW j \in Inodes, IsIndex(addrs[j], ptr, b) PROVE FALSE
      OBVIOUS
    <2>5. \A e, l : LinkOf(i, e, l, b) => i = j /\ Parent(j, b, e, l)
      BY <1>0, <2>4, OneParent
    <2> QED
      BY <1>6, <2>3, <2>5
  <1> HIDE DEF b, s
  <1>8. \A j \in Inodes, d \in Blocks : IsIndex(addrs[j], ptr, d) => ptr'[d] = ptr[d]
    BY <1>4, <1>7
  <1>9. Apart(p, i)
    BY <1>a, <1>0, <1>1, <1>2, <1>8 DEF Apart
  <1>10. \A d, k, t : Link(addrs'[i], ptr', d, k, t) <=> Link(addrs[i], ptr, d, k, t)
    BY <1>0, <1>1, <1>4, <1>8, LinksStay
  <1>11. \A d : ~Emptied(i, d) /\ ~Emptied(i, d)'
    BY <1>0, <1>2, <1>9, EmptiedBy
  <1>12. Unique' /\ Exact'
    <2>1. \A d \in Addr, k \in Nat, t \in Blocks : LinkOf(i, d, k, t)' <=> LinkOf(i, d, k, t)
      BY <1>10, <1>11 DEF LinkOf
    <2>2. bitmap' = bitmap
      BY <1>1
    <2> QED
      BY <1>5, <1>9, <2>1, <2>2, SameLinks
  <1>13. WritingAt(p)'
    <2>1. \A m \in 0..(MAXFILE - 1) : Has(addrs[i], ptr, m) => Has(addrs[i], ptr', m)
      BY <1>0, <1>4, <1>8, HasStays
    <2>2. \A m \in 0..(MAXFILE - 1) : m < size[i] \/ m < n => Has(addrs[i], ptr, m)
      BY <1>a, <1>b, <1>0 DEF WritingAt
    <2>3. n + 1 <= stop[p] /\ (pc'[p] = "bmap" => n + 1 < stop[p])
      BY <1>0, <1>2, Sizes
    <2>4. \A m \in 0..(MAXFILE - 1) : m < n + 1 => m < n \/ m = n
      BY Sizes
    <2>5. \A m \in 0..(MAXFILE - 1) : m < size[i] \/ m < n + 1 => Has(addrs[i], ptr', m)
      BY <1>6, <2>1, <2>2, <2>4
    <2> QED
      BY <1>a, <1>1, <1>2, <2>3, <2>5 DEF WritingAt
  <1>14. TruncAt(p)' /\ pc'[p] # "idle"
    BY <1>2 DEF TruncAt
  <1>15. Disk' /\ ~panic'
    <2>1. disk' = disk /\ panic' = panic
      BY <1>1
    <2> QED
      BY <1>0, <2>1, SameDisk
  <1> QED
    BY <1>5, <1>9, <1>12, <1>13, <1>14, <1>15, ApartStep

\* A step that changes nothing.
LEMMA Stutter ==
  ASSUME IInv, UNCHANGED <<bitmap, ptr, addrs, size, daddrs, dsize, disk, pc, ino, bn, stop, panic>>
  PROVE  IInv'
  <1>1. Memory /\ Dinodes /\ Locals /\ disk \in Snapshots /\ panic \in BOOLEAN
    BY TypeParts DEF IInv
  <1>2. Types'
    BY <1>1, TypeParts DEF Memory, Dinodes, Locals
  <1>3. Holders' /\ Writing' /\ Truncs'
    BY DEF IInv, Holders, Writing, WritingAt, Truncs, TruncAt
  <1>4. Synced' /\ Filled'
    BY DEF IInv, Synced, Filled, SyncedAt, FilledAt, Locked
  <1>5. \A i, b, k, t : LinkOf(i, b, k, t)' <=> LinkOf(i, b, k, t)
    BY DEF LinkOf, Emptied
  <1>6. Unique' /\ Exact'
    BY <1>5 DEF IInv, Unique, Exact
  <1>7. Disk' /\ ~panic'
    <2>1. panic' = panic /\ disk' = disk
      OBVIOUS
    <2> QED
      BY <2>1, SameDisk DEF IInv
  <1> QED
    BY <1>2, <1>3, <1>4, <1>6, <1>7 DEF IInv

\* readi finds every block below the size.
LEMMA ReadStep ==
  ASSUME IInv, NEW i \in Inodes, NEW n \in 0..(MAXFILE - 1), Read(i, n)
  PROVE  IInv'
  <1>1. Has(addrs[i], ptr, n)
    BY DEF IInv, Filled, FilledAt, Read
  <1>2. SlotIs(i, n, SlotOf(i, n))
    BY SlotCases DEF IInv, Shape
  <1>3. Lookup(i, n) # 0
    BY <1>1, <1>2 DEF SlotIs, Lookup
  <1>4. panic \in BOOLEAN /\ ~panic
    BY TypeParts DEF IInv
  <1>5. panic' = panic
    BY <1>3, <1>4 DEF Read
  <1> QED
    BY <1>5, Stutter DEF Read, inode, dinode, log, args

-----------------------------------------------------------------------------
(* The end of writei and itrunc, and the commit.                           *)

\* When nobody is in an operation the inodes on disk are those in memory, and a
\* commit takes a consistent snapshot.
LEMMA Commit ==
  ASSUME Types', \A p \in Procs : pc'[p] = "idle", \A i \in Inodes : SyncedAt(i)' /\ FilledAt(i)',
         Unique', Exact', disk' = Snapshot(bitmap', ptr', daddrs', dsize')
  PROVE  Disk'
  <1>1. /\ disk'.bitmap = bitmap' /\ disk'.ptr = ptr'
        /\ disk'.addrs = daddrs' /\ disk'.size = dsize'
    BY DEF Snapshot
  <1>2. \A i \in Inodes : daddrs'[i] = addrs'[i] /\ dsize'[i] = size'[i]
    BY DEF SyncedAt
  <1>3. \A i, b : ~Emptied(i, b)'
    BY DEF Emptied
  <1>4. \A i \in Inodes : \A b, k, t :
           LinkOf(i, b, k, t)' <=> Link(disk'.addrs[i], disk'.ptr, b, k, t)
    BY <1>1, <1>2, <1>3 DEF LinkOf
  <1>5. DiskUnique' /\ DiskExact'
    BY <1>1, <1>4 DEF DiskUnique, DiskExact, Unique, Exact
  <1>6. DiskFilled'
    BY <1>1, <1>2 DEF DiskFilled, FilledAt
  <1> QED
    BY <1>5, <1>6 DEF Disk

\* The new size is covered by blocks, the inode goes to disk with it, and the
\* last operation to leave commits.
LEMMA EndStep ==
  ASSUME IInv, NEW p \in Procs, EndWrite(p) \/ EndTrunc(p)
  PROVE  IInv'
  <1>a. PICK i \in Inodes : i = ino[p]
    BY TypeParts DEF IInv, Locals
  <1>0. /\ Memory /\ Dinodes /\ Locals /\ disk \in Snapshots /\ panic \in BOOLEAN /\ ~panic
        /\ Shape /\ WritingAt(p)
    BY TypeParts DEF IInv, Shape, Writing
  <1>b. PICK v \in 0..MAXFILE :
          /\ size' = [size EXCEPT ![i] = v] /\ dsize' = [dsize EXCEPT ![i] = v]
          /\ \A n \in 0..(MAXFILE - 1) : n < v => Has(addrs[i], ptr, n)
    <2>1. CASE EndWrite(p)
      <3> DEFINE v == Max({size[i], bn[p]})
      <3>1. size[i] \in 0..MAXFILE /\ bn[p] \in Nat /\ stop[p] \in 0..MAXFILE
        BY <1>0 DEF Memory, Locals
      <3>2. /\ bn[p] <= stop[p]
            /\ \A n \in 0..(MAXFILE - 1) : n < size[i] \/ n < bn[p] => Has(addrs[i], ptr, n)
        BY <1>a, <1>0, <2>1 DEF EndWrite, WritingAt
      <3>3. bn[p] \in 0..MAXFILE
        BY <3>1, <3>2, Sizes
      <3>4. v \in 0..MAXFILE /\ v \in {size[i], bn[p]}
        BY <3>1, <3>3, MaxOfTwo
      <3>5. size' = [size EXCEPT ![i] = v]
        BY <1>a, <2>1 DEF EndWrite
      <3>6. size'[i] = v
        BY <1>0, <3>5 DEF Memory
      <3>7. dsize' = [dsize EXCEPT ![i] = v]
        BY <1>a, <2>1, <3>6 DEF EndWrite
      <3> HIDE DEF v
      <3>8. \A n \in 0..(MAXFILE - 1) : n < v => Has(addrs[i], ptr, n)
        BY <3>2, <3>4
      <3> QED
        BY <3>4, <3>5, <3>7, <3>8
    <2>2. CASE EndTrunc(p)
      <3>1. size' = [size EXCEPT ![i] = 0] /\ dsize' = [dsize EXCEPT ![i] = 0]
        BY <1>a, <2>2 DEF EndTrunc
      <3>2. 0 \in 0..MAXFILE /\ \A n \in 0..(MAXFILE - 1) : ~(n < 0)
        BY Sizes
      <3> QED
        BY <3>1, <3>2
    <2> QED
      BY <2>1, <2>2
  <1>1. /\ pc[p] \in {"iupdate", "done"}
        /\ UNCHANGED <<bitmap, ptr, addrs, panic>>
        /\ daddrs' = [daddrs EXCEPT ![i] = addrs[i]]
        /\ pc' = [pc EXCEPT ![p] = "idle"] /\ ino' = [ino EXCEPT ![p] = AnyInode]
        /\ bn' = [bn EXCEPT ![p] = 0] /\ stop' = [stop EXCEPT ![p] = 0]
        /\ \/ disk' = disk
           \/ /\ \A q \in Procs \ {p} : pc[q] = "idle"
              /\ disk' = Snapshot(bitmap', ptr', daddrs', dsize')
    BY <1>a DEF EndWrite, EndTrunc, EndOp, log
  <1>2. /\ Locals' /\ pc'[p] = "idle" /\ bn'[p] = 0
        /\ \A q \in Procs \ {p} : /\ pc'[q] = pc[q] /\ ino'[q] = ino[q]
                                  /\ bn'[q] = bn[q] /\ stop'[q] = stop[q]
    BY <1>0, <1>1, DataTypes DEF Locals, Pcs
  <1>3. /\ Memory' /\ Dinodes' /\ size'[i] = v /\ dsize'[i] = v /\ daddrs'[i] = addrs[i]
        /\ \A j \in Inodes \ {i} : size'[j] = size[j] /\ daddrs'[j] = daddrs[j] /\ dsize'[j] = dsize[j]
    BY <1>0, <1>1, <1>b DEF Memory, Dinodes
  <1>4. Types'
    <2>1. Snapshot(bitmap', ptr', daddrs', dsize') \in Snapshots
      BY <1>3 DEF Memory, Dinodes, Snapshot, Snapshots
    <2>2. disk' \in Snapshots /\ panic' \in BOOLEAN
      BY <1>0, <1>1, <2>1
    <2> QED
      BY <1>2, <1>3, <2>2, TypeParts
  <1>5. Apart(p, i)
    BY <1>a, <1>1, <1>2, <1>3 DEF Apart
  <1>6. Unique' /\ Exact'
    BY <1>1, <1>2, <1>4, <1>5, Unmoved
  <1>7. SyncedAt(i)' /\ FilledAt(i)'
    BY <1>b, <1>1, <1>3 DEF SyncedAt, FilledAt
  <1>8. Disk'
    <2>1. CASE disk' = disk
      BY <2>1, SameDisk
    <2>2. ASSUME \A q \in Procs \ {p} : pc[q] = "idle",
                 disk' = Snapshot(bitmap', ptr', daddrs', dsize')
          PROVE  Disk'
      <3>1. \A q \in Procs : pc'[q] = "idle"
        BY <1>2, <2>2
      <3>2. ASSUME NEW j \in Inodes \ {i} PROVE SyncedAt(j)' /\ FilledAt(j)'
        <4>1. ~Locked(j)
          BY <1>a, <2>2 DEF Locked
        <4>2. SyncedAt(j) /\ FilledAt(j)
          BY <4>1 DEF IInv, Synced, Filled
        <4> QED
          BY <1>1, <1>3, <4>2 DEF SyncedAt, FilledAt
      <3> QED
        BY <1>4, <1>6, <1>7, <2>2, <3>1, <3>2, Commit
    <2> QED
      BY <1>1, <2>1, <2>2
  <1>9. WritingAt(p)' /\ TruncAt(p)' /\ ~panic'
    <2>1. panic' = panic
      BY <1>1
    <2> QED
      BY <1>0, <1>2, <2>1 DEF WritingAt, TruncAt
  <1> QED
    BY <1>4, <1>5, <1>6, <1>7, <1>8, <1>9, ApartStep

-----------------------------------------------------------------------------
(* The steps of itrunc.                                                    *)

\* What the steps of itrunc that free blocks have in common: process p, which
\* has inode i, frees the blocks S, all of them its own, and goes to "step".
Freeing(p, i, S, c, step) ==
    /\ ino[p] = i /\ pc[p] \in TruncSteps
    /\ Bfree(S, c)
    /\ \A t \in S : \E b, k : LinkOf(i, b, k, t)
    /\ \A j \in Inodes \ {i}, b \in Blocks : IsIndex(addrs[j], ptr, b) => c[b] = ptr[b]
    /\ addrs' \in [Inodes -> Addrs] /\ \A j \in Inodes \ {i} : addrs'[j] = addrs[j]
    /\ pc' = [pc EXCEPT ![p] = step]
    /\ UNCHANGED <<size, daddrs, dsize, disk, ino, bn, stop>>

\* They free no block of another file, and none that is free.
LEMMA FreeSees ==
  ASSUME IInv, NEW p \in Procs, NEW i \in Inodes, NEW S, NEW c \in Contents,
         NEW step \in TruncSteps, Freeing(p, i, S, c, step)
  PROVE  /\ Types' /\ Shape /\ Apart(p, i) /\ ~panic' /\ pc'[p] = step
         /\ ptr \in Contents /\ ptr' \in Contents /\ addrs[i] \in Addrs /\ addrs'[i] \in Addrs
         /\ bitmap' = bitmap \ S
  <1>0. /\ Memory /\ Dinodes /\ Locals /\ disk \in Snapshots /\ panic \in BOOLEAN /\ ~panic
        /\ Shape /\ Exact /\ Types
    BY TypeParts DEF IInv, Shape
  <1>1. /\ ino[p] = i /\ pc[p] \in TruncSteps /\ Bfree(S, c)
        /\ addrs' \in [Inodes -> Addrs] /\ pc' = [pc EXCEPT ![p] = step]
        /\ size' = size /\ daddrs' = daddrs /\ dsize' = dsize /\ disk' = disk
        /\ ino' = ino /\ bn' = bn /\ stop' = stop
        /\ \A j \in Inodes \ {i} : addrs'[j] = addrs[j]
    BY DEF Freeing
  <1>2. \A d \in Blocks : ptr'[d] = IF d \in S THEN Data ELSE c[d]
    BY <1>1 DEF Bfree
  <1>3. bitmap' \subseteq Blocks /\ ptr' \in Contents /\ panic' \in BOOLEAN
    BY <1>0, <1>1, BfreeTypes
  <1>4. addrs[i] \in Addrs /\ ptr \in Contents
    BY <1>0, ShapeTypes
  <1>5. S \subseteq bitmap
    <2>1. SUFFICES ASSUME NEW t \in S PROVE t \in bitmap
      OBVIOUS
    <2>2. PICK b, k : LinkOf(i, b, k, t)
      BY DEF Freeing
    <2>3. b \in Addr /\ k \in Nat /\ t \in Blocks
      BY <1>4, <2>2, LinkTypes DEF LinkOf
    <2> QED
      BY <1>0, <2>2, <2>3 DEF Exact
  <1>6. panic' = panic
    BY <1>0, <1>1, <1>5 DEF Bfree
  <1>7. /\ Locals' /\ pc'[p] = step /\ pc[p] # "idle" /\ step # "idle"
        /\ \A q \in Procs \ {p} : pc'[q] = pc[q]
    BY <1>0, <1>1 DEF Locals, Pcs, TruncSteps
  <1>8. Types'
    <2>1. Memory'
      BY <1>0, <1>1, <1>3 DEF Memory
    <2>2. Dinodes' /\ disk' \in Snapshots
      BY <1>0, <1>1 DEF Dinodes
    <2> QED
      BY <1>3, <1>7, <2>1, <2>2, TypeParts
  <1>9. Apart(p, i)
    <2>1. ASSUME NEW j \in Inodes \ {i}, NEW d \in Blocks, IsIndex(addrs[j], ptr, d)
          PROVE  ptr'[d] = ptr[d]
      <3>1. d \notin S
        <4>1. ASSUME d \in S PROVE FALSE
          <5>1. PICK b, k : LinkOf(i, b, k, d)
            BY <4>1 DEF Freeing
          <5>2. \A e, l : LinkOf(i, e, l, d) => i = j
            BY <1>0, <2>1, OneParent
          <5> QED
            BY <5>1, <5>2
        <4> QED
          BY <4>1
      <3>2. c[d] = ptr[d]
        BY <2>1 DEF Freeing
      <3> QED
        BY <1>2, <3>1, <3>2
    <2> QED
      BY <1>1, <1>7, <2>1 DEF Apart
  <1> QED
    BY <1>0, <1>1, <1>2, <1>3, <1>4, <1>6, <1>7, <1>8, <1>9 DEF Bfree

\* When just the links to the freed blocks are gone, the invariant is kept.
LEMMA FreeStep ==
  ASSUME IInv, NEW p \in Procs, NEW i \in Inodes, NEW S, NEW c \in Contents,
         NEW step \in TruncSteps, Freeing(p, i, S, c, step), TruncAt(p)',
         \A b, k, t : LinkOf(i, b, k, t)' <=> LinkOf(i, b, k, t) /\ t \notin S
  PROVE  IInv'
  <1>1. Types' /\ Shape /\ Apart(p, i) /\ ~panic' /\ pc'[p] = step /\ bitmap' = bitmap \ S
    BY FreeSees
  <1>2. ASSUME NEW j \in Inodes \ {i}
        PROVE  \A b \in Addr, k \in Nat, t \in Blocks :
                  LinkOf(j, b, k, t)' <=> LinkOf(j, b, k, t) /\ t \notin S
    <2>1. \A b, k, t : LinkOf(j, b, k, t)' <=> LinkOf(j, b, k, t)
      BY <1>1, ApartLinks
    <2>2. ASSUME NEW b \in Addr, NEW k \in Nat, NEW t \in Blocks, LinkOf(j, b, k, t), t \in S
          PROVE  FALSE
      <3>1. PICK d, l : LinkOf(i, d, l, t)
        BY <2>2 DEF Freeing
      <3>2. d \in Addr /\ l \in Nat
        BY <1>1, <3>1, ShapeTypes, LinkTypes DEF LinkOf
      <3> QED
        BY <1>1, <2>2, <3>1, <3>2 DEF Shape, Unique
    <2> QED
      BY <2>1, <2>2
  <1>3. Unique' /\ Exact'
    <2>1. \A j \in Inodes, b \in Addr, k \in Nat, t \in Blocks :
             LinkOf(j, b, k, t)' <=> LinkOf(j, b, k, t) /\ t \notin S
      BY <1>2
    <2> QED
      BY <1>1, <2>1, Shrinks DEF IInv
  <1>4. Disk'
    <2>1. disk' = disk
      BY DEF Freeing
    <2> QED
      BY <2>1, SameDisk
  <1>5. WritingAt(p)' /\ pc'[p] # "idle"
    BY <1>1 DEF WritingAt, TruncSteps
  <1> QED
    BY <1>1, <1>3, <1>4, <1>5, ApartStep

\* Only the process that has the inode empties its index blocks.
LEMMA NoneEmptied ==
  ASSUME Shape, NEW p \in Procs, NEW i \in Inodes, ino[p] = i,
         pc[p] \notin {"idle", "indirect block", "inner block"}
  PROVE  \A b : ~Emptied(i, b)
  <1>1. \A q \in Procs : ino[q] = i => q = p \/ pc[q] = "idle"
    BY DEF Shape, Holders
  <1> QED
    BY <1>1 DEF Emptied

\* The blocks that an index block names.
LEMMA NonzeroEntries ==
  ASSUME NEW c \in Contents, NEW b \in Blocks
  PROVE  /\ \A t \in Nonzero(c[b]) : t # 0 /\ \E k \in Entries : c[b][k] = t
         /\ \A k \in Entries : c[b][k] # 0 => c[b][k] \in Nonzero(c[b])
  <1>1. DOMAIN c[b] = Entries
    BY DEF Contents
  <1> QED
    BY <1>1 DEF Nonzero

\* They are blocks of the file until itrunc frees them.
LEMMA EntriesOwned ==
  ASSUME Shape, NEW p \in Procs, NEW i \in Inodes, ino[p] = i,
         pc[p] \notin {"idle", "indirect block", "inner block"},
         NEW e, IsIndex(addrs[i], ptr, e)
  PROVE  \A t \in Nonzero(ptr[e]) : \E k \in Entries : LinkOf(i, e, k, t)
  <1>1. e \in Blocks /\ ptr \in Contents
    BY ShapeTypes, IndexIsBlock
  <1>2. \A b : ~Emptied(i, b)
    BY NoneEmptied
  <1>3. ASSUME NEW t \in Nonzero(ptr[e]) PROVE t # 0 /\ \E k \in Entries : ptr[e][k] = t
    BY <1>1, NonzeroEntries
  <1> QED
    BY <1>2, <1>3 DEF LinkOf, Link

\* The loops of itrunc that free what an index block e names: its links are gone
\* though its contents stay.
LEMMA EmptyLinks ==
  ASSUME IInv, NEW p \in Procs, NEW i \in Inodes, NEW e, NEW step \in TruncSteps,
         Freeing(p, i, Nonzero(ptr[e]), ptr, step), addrs' = addrs,
         pc[p] \notin {"idle", "indirect block", "inner block"},
         IsIndex(addrs[i], ptr, e), \A t, k : ~Parent(i, t, e, k),
         \/ step = "indirect block" /\ e = addrs[i][NDIRECT]
         \/ /\ step = "inner block" /\ addrs[i][NDIRECT + 1] # 0 /\ addrs[i][NDIRECT] # e
            /\ e = ptr[addrs[i][NDIRECT + 1]][bn[p]]
  PROVE  /\ \A d \in Blocks : IsIndex(addrs[i], ptr, d) => ptr'[d] = ptr[d]
         /\ \A b, k, t : LinkOf(i, b, k, t)' <=> LinkOf(i, b, k, t) /\ t \notin Nonzero(ptr[e])
  <1> DEFINE S == Nonzero(ptr[e])
             dbl == addrs[i][NDIRECT + 1]
  <1>0. /\ Shape /\ Apart(p, i) /\ pc'[p] = step
        /\ ptr \in Contents /\ ptr' \in Contents /\ addrs[i] \in Addrs
        /\ \A d \in Blocks : ptr'[d] = IF d \in S THEN Data ELSE ptr[d]
        /\ bn'[p] = bn[p] /\ addrs'[i] = addrs[i]
    <2>1. ptr \in Contents
      BY ShapeTypes DEF IInv, Shape
    <2>2. bn'[p] = bn[p] /\ addrs'[i] = addrs[i]
      BY DEF Freeing
    <2>3. \A d \in Blocks : ptr'[d] = IF d \in S THEN Data ELSE ptr[d]
      BY DEF Freeing, Bfree
    <2>4. Apart(p, i)
      BY <2>1, FreeSees
    <2>5. pc'[p] = step
      BY <2>1, FreeSees
    <2>6. ptr' \in Contents
      BY <2>1, FreeSees
    <2>7. Shape /\ addrs[i] \in Addrs
      BY ShapeTypes DEF IInv, Shape
    <2> QED
      BY <2>1, <2>2, <2>3, <2>4, <2>5, <2>6, <2>7
  <1>1. e \in Blocks /\ 0 \notin Blocks
    BY <1>0, IndexIsBlock, Sizes
  <1>2. \A b : ~Emptied(i, b)
    BY <1>0, NoneEmptied DEF Freeing
  <1>3. \A t \in S : \E k \in Entries : LinkOf(i, e, k, t)
    BY <1>0, EntriesOwned DEF Freeing
  <1>4. ASSUME NEW d, IsIndex(addrs[i], ptr, d) PROVE d \notin S
    <2>1. SUFFICES ASSUME d \in S PROVE FALSE
      OBVIOUS
    <2>2. PICK k \in Entries : LinkOf(i, e, k, d)
      BY <1>3, <2>1
    <2>3. Parent(i, d, e, k)
      BY <1>0, <1>4, <2>2, OneParent
    <2> QED
      BY <2>3
  <1>5. \A d \in Blocks : IsIndex(addrs[i], ptr, d) => ptr'[d] = ptr[d]
    BY <1>0, <1>4
  <1>6. \A b, k, t : Link(addrs'[i], ptr', b, k, t) <=> Link(addrs[i], ptr, b, k, t)
    BY <1>0, <1>5, LinksStay
  <1>7. \A b : Emptied(i, b)' <=> b = e
    <2>1. \A b : Emptied(i, b)' <=> \/ step = "indirect block" /\ Indirect(addrs[i], b)
                                    \/ step = "inner block" /\ b = ptr'[dbl][bn[p]]
      <3>1. \A b : Emptied(i, b)' <=>
               \/ pc'[p] = "indirect block" /\ Indirect(addrs'[i], b)
               \/ pc'[p] = "inner block" /\ b = ptr'[addrs'[i][NDIRECT + 1]][bn'[p]]
        BY <1>0, EmptiedBy
      <3> QED
        BY <1>0, <3>1, Zenon
    <2>2. dbl # 0 => ptr'[dbl] = ptr[dbl]
      <3>1. dbl # 0 => dbl \in Blocks /\ IsIndex(addrs[i], ptr, dbl)
        BY <1>0, Sizes DEF IsIndex, Double, Addrs
      <3> QED
        BY <1>5, <3>1
    <2> QED
      BY <1>1, <2>1, <2>2 DEF Indirect
  <1>8. ASSUME NEW b, NEW k, NEW t, LinkOf(i, b, k, t), t \in S PROVE b = e
    <2>1. PICK l \in Entries : LinkOf(i, e, l, t)
      BY <1>3, <1>8
    <2>2. b \in Addr /\ k \in Nat /\ t \in Blocks /\ e \in Addr /\ l \in Nat
      BY <1>0, <1>8, <2>1, LinkTypes DEF LinkOf
    <2> QED
      BY <1>0, <1>8, <2>1, <2>2 DEF Shape, Unique
  <1>9. ASSUME NEW k, NEW t, Link(addrs[i], ptr, e, k, t) PROVE t \in S
    <2>1. t # 0 /\ k \in Entries /\ ptr[e][k] = t
      BY <1>1, <1>9 DEF Link
    <2> QED
      BY <1>0, <1>1, <2>1, NonzeroEntries
  <1>10. \A b, k, t : LinkOf(i, b, k, t)' <=> Link(addrs'[i], ptr', b, k, t) /\ b # e
    BY <1>7 DEF LinkOf
  <1>11. \A b, k, t : LinkOf(i, b, k, t) <=> Link(addrs[i], ptr, b, k, t)
    BY <1>2 DEF LinkOf
  <1> HIDE DEF S
  <1>12. \A b, k, t : LinkOf(i, b, k, t)' <=> LinkOf(i, b, k, t) /\ t \notin S
    <2>1. ASSUME NEW b, NEW k, NEW t, LinkOf(i, b, k, t)'
          PROVE  LinkOf(i, b, k, t) /\ t \notin S
      <3>1. LinkOf(i, b, k, t) /\ b # e
        BY <1>6, <1>10, <1>11, <2>1
      <3> QED
        BY <1>8, <3>1
    <2>2. ASSUME NEW b, NEW k, NEW t, LinkOf(i, b, k, t), t \notin S PROVE LinkOf(i, b, k, t)'
      <3>1. b # e
        BY <1>9, <1>11, <2>2
      <3> QED
        BY <1>6, <1>10, <1>11, <2>2, <3>1
    <2> QED
      BY <2>1, <2>2
  <1> QED
    BY <1>5, <1>12 DEF S

\* The frees of an index block e that names no block any more, and of its number
\* in slot y of block x.
LEMMA ReleaseLinks ==
  ASSUME IInv, NEW p \in Procs, NEW i \in Inodes, NEW e, NEW x, NEW y, NEW c \in Contents,
         NEW step \in TruncSteps, Freeing(p, i, {e}, c, step), Parent(i, e, x, y),
         \A d : IsIndex(addrs'[i], ptr', d) <=> IsIndex(addrs[i], ptr, d) /\ d # e,
         \A k \in Slots : addrs'[i][k] = IF x = 0 /\ k = y THEN 0 ELSE addrs[i][k],
         \A d \in Blocks, k \in Entries :
            d # e => ptr'[d][k] = IF d = x /\ k = y THEN 0 ELSE ptr[d][k],
         \A k, t : ~LinkOf(i, e, k, t),
         \A b : Emptied(i, b) => b = e,
         \A b : ~Emptied(i, b)'
  PROVE  \A b, k, t : LinkOf(i, b, k, t)' <=> LinkOf(i, b, k, t) /\ t \notin {e}
  <1>0. /\ Shape /\ ptr \in Contents /\ ptr' \in Contents /\ addrs[i] \in Addrs /\ addrs'[i] \in Addrs
        /\ 0 \notin Blocks
    BY FreeSees, Sizes
  <1>1. IsIndex(addrs[i], ptr, e) /\ e # 0
    <2>1. IsIndex(addrs[i], ptr, e)
      BY DEF Parent, IsIndex, Indirect, Double, Inner
    <2> QED
      BY <1>0, <2>1, IndexIsBlock
  <1>2. \A b, k : LinkOf(i, b, k, e) => b = x /\ k = y
    <2>1. LinkOf(i, x, y, e)
      BY <1>0, Parents
    <2>2. \A b, k : LinkOf(i, b, k, e) => b \in Addr /\ k \in Nat /\ e \in Blocks
      BY <1>0, LinkTypes DEF LinkOf
    <2> QED
      BY <1>0, <2>1, <2>2 DEF Shape, Unique
  <1>3. Link(addrs[i], ptr, x, y, e)
    BY <1>0, Parents DEF LinkOf
  <1>4. ASSUME NEW b, NEW k, NEW t, Link(addrs'[i], ptr', b, k, t)
        PROVE  Link(addrs[i], ptr, b, k, t) /\ ~(b = x /\ k = y) /\ b # e
    <2>1. CASE b = 0 /\ k \in Slots /\ addrs'[i][k] = t
      BY <1>1, <1>4, <2>1 DEF Link
    <2>2. CASE IsIndex(addrs'[i], ptr', b) /\ k \in Entries /\ ptr'[b][k] = t
      <3>1. IsIndex(addrs[i], ptr, b) /\ b # e /\ b \in Blocks
        BY <1>0, <2>2, IndexIsBlock
      <3> QED
        BY <1>0, <1>4, <2>2, <3>1 DEF Link
    <2> QED
      BY <1>4, <2>1, <2>2 DEF Link
  <1>5. ASSUME NEW b, NEW k, NEW t, Link(addrs[i], ptr, b, k, t), ~(b = x /\ k = y), b # e
        PROVE  Link(addrs'[i], ptr', b, k, t)
    <2>1. CASE b = 0 /\ k \in Slots /\ addrs[i][k] = t
      BY <1>5, <2>1 DEF Link
    <2>2. CASE IsIndex(addrs[i], ptr, b) /\ k \in Entries /\ ptr[b][k] = t
      <3>1. IsIndex(addrs'[i], ptr', b) /\ b \in Blocks
        BY <1>0, <1>5, <2>2, IndexIsBlock
      <3> QED
        BY <1>0, <1>5, <2>2, <3>1 DEF Link
    <2> QED
      BY <1>5, <2>1, <2>2 DEF Link
  <1>6. \A t : Link(addrs[i], ptr, x, y, t) => t = e
    <2>1. x # 0 => IsIndex(addrs[i], ptr, x) /\ x \in Blocks
      BY <1>0, IndexIsBlock DEF Parent, IsIndex, Double
    <2> QED
      BY <1>0, <1>3, <2>1, IndexIsBlock DEF Link
  <1>7. \A b, k, t : LinkOf(i, b, k, t)' <=> Link(addrs'[i], ptr', b, k, t)
    BY DEF LinkOf
  <1>8. ASSUME NEW b, NEW k, NEW t, LinkOf(i, b, k, t)'
        PROVE  LinkOf(i, b, k, t) /\ t \notin {e}
    <2>1. Link(addrs[i], ptr, b, k, t) /\ ~(b = x /\ k = y) /\ b # e
      BY <1>4, <1>7, <1>8
    <2>2. LinkOf(i, b, k, t)
      BY <2>1 DEF LinkOf
    <2> QED
      BY <1>2, <2>1, <2>2
  <1>9. ASSUME NEW b, NEW k, NEW t, LinkOf(i, b, k, t), t \notin {e}
        PROVE  LinkOf(i, b, k, t)'
    <2>1. Link(addrs[i], ptr, b, k, t) /\ b # e
      BY <1>9 DEF LinkOf
    <2>2. ~(b = x /\ k = y)
      BY <1>6, <1>9, <2>1
    <2> QED
      BY <1>5, <1>7, <2>1, <2>2
  <1> QED
    BY <1>8, <1>9

\* The loop over the indirect block.
LEMMA TruncIndirectStep ==
  ASSUME IInv, NEW p \in Procs, TruncIndirect(p)
  PROVE  IInv'
  <1>a. PICK i \in Inodes : i = ino[p]
    BY TypeParts DEF IInv, Locals
  <1>b. PICK e : e = addrs[i][NDIRECT]
    OBVIOUS
  <1>1. /\ pc[p] = "indirect" /\ Bfree(Nonzero(ptr[e]), ptr)
        /\ pc' = [pc EXCEPT ![p] = "indirect block"] /\ addrs' = addrs
        /\ UNCHANGED <<size, daddrs, dsize, disk, ino, bn, stop>>
    BY <1>a, <1>b DEF TruncIndirect, inode, dinode, log, args
  <1>2. /\ Shape /\ e # 0 /\ bn[p] = 0 /\ addrs \in [Inodes -> Addrs] /\ ptr \in Contents
        /\ pc \in [Procs -> Pcs]
    <2>1. TruncAt(p) /\ Shape
      BY DEF IInv, Truncs, Shape
    <2>2. e # 0 /\ bn[p] = 0
      BY <1>a, <1>b, <1>1, <2>1 DEF TruncAt
    <2> QED
      BY <2>1, <2>2, TypeParts DEF IInv, Memory, Locals
  <1>3. IsIndex(addrs[i], ptr, e) /\ \A t, k : ~Parent(i, t, e, k)
    BY <1>b, <1>2 DEF IsIndex, Indirect, Parent
  <1>4. "indirect block" \in TruncSteps /\ pc[p] \in TruncSteps
    BY <1>1 DEF TruncSteps
  <1>5. Freeing(p, i, Nonzero(ptr[e]), ptr, "indirect block")
    <2>1. \A t \in Nonzero(ptr[e]) : \E b, k : LinkOf(i, b, k, t)
      BY <1>a, <1>1, <1>2, <1>3, EntriesOwned
    <2> QED
      BY <1>a, <1>1, <1>2, <1>4, <2>1 DEF Freeing
  <1>6. \A b, k, t : LinkOf(i, b, k, t)' <=> LinkOf(i, b, k, t) /\ t \notin Nonzero(ptr[e])
    BY <1>b, <1>1, <1>3, <1>4, <1>5, EmptyLinks
  <1>7. TruncAt(p)'
    <2>1. pc'[p] = "indirect block" /\ ino'[p] = i /\ bn'[p] = 0 /\ addrs'[i][NDIRECT] # 0
      BY <1>a, <1>b, <1>1, <1>2
    <2> QED
      BY <2>1 DEF TruncAt
  <1> QED
    BY <1>2, <1>4, <1>5, <1>6, <1>7, FreeStep

\* The loop over an index block that the doubly indirect block names.
LEMMA TruncDoubleStep ==
  ASSUME IInv, NEW p \in Procs, TruncDouble(p)
  PROVE  IInv'
  <1>a. PICK i \in Inodes : i = ino[p]
    BY TypeParts DEF IInv, Locals
  <1> DEFINE dbl == addrs[i][NDIRECT + 1]
  <1>b. PICK e : e = ptr[dbl][bn[p]]
    OBVIOUS
  <1>1. /\ pc[p] = "double" /\ e # 0 /\ Bfree(Nonzero(ptr[e]), ptr)
        /\ pc' = [pc EXCEPT ![p] = "inner block"] /\ addrs' = addrs
        /\ UNCHANGED <<size, daddrs, dsize, disk, ino, bn, stop>>
    BY <1>a, <1>b DEF TruncDouble, inode, dinode, log, args
  <1>2. /\ Shape /\ addrs \in [Inodes -> Addrs] /\ ptr \in Contents /\ pc \in [Procs -> Pcs]
        /\ dbl # 0 /\ bn[p] \in Entries /\ \A k \in Entries : k < bn[p] => ptr[dbl][k] = 0
    <2>1. TruncAt(p) /\ Shape
      BY DEF IInv, Truncs, Shape
    <2>2. dbl # 0 /\ bn[p] \in Entries /\ \A k \in Entries : k < bn[p] => ptr[dbl][k] = 0
      BY <1>a, <1>1, <2>1 DEF TruncAt
    <2> QED
      BY <2>1, <2>2, TypeParts DEF IInv, Memory, Locals
  <1>3. IsIndex(addrs[i], ptr, e)
    BY <1>b, <1>1, <1>2 DEF IsIndex, Inner
  <1>4. e # addrs[i][NDIRECT] /\ e # dbl /\ \A t, k : ~Parent(i, t, e, k)
    <2>1. Parent(i, e, dbl, bn[p])
      BY <1>b, <1>1, <1>2, Parents
    <2>2. e # addrs[i][NDIRECT] /\ e # dbl
      BY <1>2, <2>1 DEF Parent, Double, Indirect
    <2> QED
      BY <1>1, <2>2 DEF Parent, Double
  <1>5. "inner block" \in TruncSteps /\ pc[p] \in TruncSteps
    BY <1>1 DEF TruncSteps
  <1>6. Freeing(p, i, Nonzero(ptr[e]), ptr, "inner block")
    <2>1. \A t \in Nonzero(ptr[e]) : \E b, k : LinkOf(i, b, k, t)
      BY <1>a, <1>1, <1>2, <1>3, EntriesOwned
    <2> QED
      BY <1>a, <1>1, <1>2, <1>5, <2>1 DEF Freeing
  <1>7. /\ \A d \in Blocks : IsIndex(addrs[i], ptr, d) => ptr'[d] = ptr[d]
        /\ \A b, k, t : LinkOf(i, b, k, t)' <=> LinkOf(i, b, k, t) /\ t \notin Nonzero(ptr[e])
    <2>1. /\ addrs[i][NDIRECT + 1] # 0 /\ addrs[i][NDIRECT] # e /\ addrs' = addrs
          /\ e = ptr[addrs[i][NDIRECT + 1]][bn[p]]
          /\ pc[p] \notin {"idle", "indirect block", "inner block"}
      BY <1>b, <1>1, <1>2, <1>4
    <2> HIDE DEF dbl
    <2>2. \A d \in Blocks : IsIndex(addrs[i], ptr, d) => ptr'[d] = ptr[d]
      BY <1>3, <1>4, <1>5, <1>6, <2>1, EmptyLinks
    <2>3. \A b, k, t : LinkOf(i, b, k, t)' <=> LinkOf(i, b, k, t) /\ t \notin Nonzero(ptr[e])
      BY <1>3, <1>4, <1>5, <1>6, <2>1, EmptyLinks
    <2> QED
      BY <2>2, <2>3
  <1>8. TruncAt(p)'
    <2>1. dbl \in Blocks /\ IsIndex(addrs[i], ptr, dbl)
      BY <1>2, Sizes DEF IsIndex, Double, Addrs
    <2>2. ptr'[dbl] = ptr[dbl]
      BY <1>7, <2>1
    <2>3. /\ pc'[p] = "inner block" /\ ino'[p] = i /\ bn'[p] = bn[p]
          /\ addrs'[i][NDIRECT + 1] = dbl
      BY <1>a, <1>1, <1>2
    <2>4. ptr[dbl][bn[p]] \notin {0, dbl}
      BY <1>b, <1>1, <1>4
    <2> HIDE DEF dbl
    <2> QED
      BY <1>2, <2>2, <2>3, <2>4 DEF TruncAt
  <1> QED
    BY <1>2, <1>5, <1>6, <1>7, <1>8, FreeStep

\* The indirect block itself.
LEMMA TruncIndirectBlockStep ==
  ASSUME IInv, NEW p \in Procs, TruncIndirectBlock(p)
  PROVE  IInv'
  <1>a. PICK i \in Inodes : i = ino[p]
    BY TypeParts DEF IInv, Locals
  <1>b. PICK e : e = addrs[i][NDIRECT]
    OBVIOUS
  <1>c. PICK step \in {"double", "done"} :
          /\ pc' = [pc EXCEPT ![p] = step]
          /\ step = "double" => addrs[i][NDIRECT + 1] # 0
    BY <1>a DEF TruncIndirectBlock
  <1> DEFINE dbl == addrs[i][NDIRECT + 1]
  <1>1. /\ pc[p] = "indirect block" /\ Bfree({e}, ptr)
        /\ addrs' = [addrs EXCEPT ![i][NDIRECT] = 0]
        /\ UNCHANGED <<size, daddrs, dsize, disk, ino, bn, stop>>
    BY <1>a, <1>b DEF TruncIndirectBlock, dinode, log, args
  <1>2. /\ Shape /\ addrs \in [Inodes -> [Slots -> Addr]] /\ ptr \in Contents /\ pc \in [Procs -> Pcs]
        /\ e # 0 /\ bn[p] = 0 /\ addrs[i] \in Addrs
    <2>1. TruncAt(p) /\ Shape
      BY DEF IInv, Truncs, Shape
    <2>2. e # 0 /\ bn[p] = 0
      BY <1>a, <1>b, <1>1, <2>1 DEF TruncAt
    <2>3. addrs \in [Inodes -> Addrs]
      BY TypeParts DEF IInv, Memory
    <2> QED
      BY <2>1, <2>2, <2>3, TypeParts DEF IInv, Memory, Locals, Addrs
  <1>3. /\ addrs' \in [Inodes -> [Slots -> Addr]]
        /\ \A j \in Inodes \ {i} : addrs'[j] = addrs[j]
        /\ \A k \in Slots : addrs'[i][k] = IF k = NDIRECT THEN 0 ELSE addrs[i][k]
    <2>1. addrs' = [addrs EXCEPT ![i] = [addrs[i] EXCEPT ![NDIRECT] = 0]]
      BY <1>1
    <2>2. /\ [addrs[i] EXCEPT ![NDIRECT] = 0] \in [Slots -> Addr]
          /\ \A k \in Slots : [addrs[i] EXCEPT ![NDIRECT] = 0][k] = IF k = NDIRECT THEN 0 ELSE addrs[i][k]
      BY <1>2, Sizes
    <2> QED
      BY <1>2, <2>1, <2>2
  <1>4. /\ Parent(i, e, 0, NDIRECT) /\ LinkOf(i, 0, NDIRECT, e)
        /\ \A d, k : Parent(i, e, d, k) => d = 0
        /\ e # dbl /\ \A k \in Entries : dbl # 0 => ptr[dbl][k] # e
    <2>1. Parent(i, e, 0, NDIRECT)
      BY <1>b, <1>2 DEF Parent, Indirect
    <2>2. dbl # 0 => e # dbl /\ \A k \in Entries : ptr[dbl][k] # 0 => Parent(i, ptr[dbl][k], dbl, k)
      BY <1>b, <1>2, Parents
    <2>3. \A k \in Entries : dbl # 0 => ptr[dbl][k] # e
      BY <1>b, <1>2, <2>2, Sizes DEF Parent, Indirect, Double
    <2> QED
      BY <1>b, <1>2, <2>1, <2>2, <2>3, Parents DEF Parent
  <1>5. step \in TruncSteps /\ pc[p] \in TruncSteps
    BY <1>1 DEF TruncSteps
  <1>6. Freeing(p, i, {e}, ptr, step)
    <2>1. \A t \in {e} : \E b, k : LinkOf(i, b, k, t)
      BY <1>4
    <2>2. addrs' \in [Inodes -> Addrs]
      BY <1>3 DEF Addrs
    <2>3. Bfree({e}, ptr) /\ UNCHANGED <<size, daddrs, dsize, disk, ino, bn, stop>>
      BY <1>1
    <2> QED
      BY <1>a, <1>c, <1>3, <1>5, <2>1, <2>2, <2>3 DEF Freeing
  <1>7. \A d \in Blocks : ptr'[d] = IF d = e THEN Data ELSE ptr[d]
    BY <1>1 DEF Bfree
  <1>8. Apart(p, i)
    BY <1>2, <1>5, <1>6, FreeSees
  <1>9. pc'[p] = step
    BY <1>2, <1>c
  <1>10. /\ \A b : Emptied(i, b) <=> b = e
         /\ \A b : ~Emptied(i, b)'
    <2>1. \A b : Emptied(i, b) <=> Indirect(addrs[i], b)
      BY <1>1, <1>2, <1>8, EmptiedBy
    <2>2. \A b : ~Emptied(i, b)'
      BY <1>2, <1>8, <1>9, EmptiedBy
    <2> QED
      BY <1>b, <1>2, <2>1, <2>2 DEF Indirect
  <1>11. \A d : IsIndex(addrs'[i], ptr', d) <=> IsIndex(addrs[i], ptr, d) /\ d # e
    <2>1. addrs'[i][NDIRECT] = 0 /\ addrs'[i][NDIRECT + 1] = dbl
      BY <1>3, Sizes
    <2>2. dbl # 0 => dbl \in Blocks /\ ptr'[dbl] = ptr[dbl]
      BY <1>2, <1>4, <1>7, Sizes DEF Addrs
    <2>3. \A d : Inner(addrs'[i], ptr', d) <=> Inner(addrs[i], ptr, d)
      BY <2>1, <2>2 DEF Inner
    <2>4. \A d : Double(addrs'[i], d) <=> Double(addrs[i], d)
      BY <2>1 DEF Double
    <2>5. \A d : ~Indirect(addrs'[i], d)
      BY <2>1 DEF Indirect
    <2>6. ~Inner(addrs[i], ptr, e) /\ ~Double(addrs[i], e)
      BY <1>4 DEF Inner, Double
    <2>7. \A d : Indirect(addrs[i], d) <=> d = e
      BY <1>b, <1>2 DEF Indirect
    <2> QED
      BY <2>3, <2>4, <2>5, <2>6, <2>7 DEF IsIndex
  <1>12. \A b, k, t : LinkOf(i, b, k, t)' <=> LinkOf(i, b, k, t) /\ t \notin {e}
    <2>1. \A k \in Slots : addrs'[i][k] = IF 0 = 0 /\ k = NDIRECT THEN 0 ELSE addrs[i][k]
      BY <1>3
    <2>2. \A d \in Blocks, k \in Entries :
             d # e => ptr'[d][k] = IF d = 0 /\ k = NDIRECT THEN 0 ELSE ptr[d][k]
      BY <1>7, Sizes
    <2>3. \A k, t : ~LinkOf(i, e, k, t)
      BY <1>10 DEF LinkOf
    <2> QED
      BY <1>2, <1>4, <1>5, <1>6, <1>10, <1>11, <2>1, <2>2, <2>3, ReleaseLinks
  <1>13. TruncAt(p)'
    <2>1. ino'[p] = i /\ bn'[p] = 0 /\ addrs'[i][NDIRECT + 1] = dbl
      <3>1. ino' = ino /\ bn' = bn
        BY <1>1
      <3> QED
        BY <1>a, <1>2, <1>3, <3>1, Sizes
    <2>2. 0 \in Entries /\ \A k \in Entries : ~(k < 0)
      BY Sizes DEF Entries
    <2> HIDE DEF dbl
    <2> QED
      BY <1>c, <1>9, <2>1, <2>2 DEF TruncAt, dbl
  <1> QED
    BY <1>2, <1>5, <1>6, <1>12, <1>13, FreeStep

\* What the steps on the doubly indirect block see.
LEMMA DoubleSees ==
  ASSUME IInv, NEW p \in Procs, NEW i \in Inodes, i = ino[p], pc[p] \in {"double", "inner block"}
  PROVE  /\ Shape /\ addrs \in [Inodes -> [Slots -> Addr]] /\ ptr \in [Blocks -> [Entries -> Addr]]
         /\ pc \in [Procs -> Pcs] /\ bn \in [Procs -> Nat] /\ addrs[i] \in Addrs /\ ptr \in Contents
         /\ addrs[i][NDIRECT + 1] \in Blocks /\ addrs[i][NDIRECT + 1] # 0
         /\ bn[p] \in Entries
         /\ \A k \in Entries : k < bn[p] => ptr[addrs[i][NDIRECT + 1]][k] = 0
         /\ pc[p] = "inner block" => ptr[addrs[i][NDIRECT + 1]][bn[p]] \notin {0, addrs[i][NDIRECT + 1]}
         /\ addrs[i][NDIRECT + 1] # addrs[i][NDIRECT]
         /\ \A k \in Entries : ptr[addrs[i][NDIRECT + 1]][k] # 0 =>
               Parent(i, ptr[addrs[i][NDIRECT + 1]][k], addrs[i][NDIRECT + 1], k)
  <1>1. Shape /\ TruncAt(p)
    BY DEF IInv, Truncs, Shape
  <1>2. /\ addrs \in [Inodes -> [Slots -> Addr]] /\ ptr \in [Blocks -> [Entries -> Addr]]
        /\ pc \in [Procs -> Pcs] /\ bn \in [Procs -> Nat] /\ addrs[i] \in Addrs /\ ptr \in Contents
    BY TypeParts DEF IInv, Memory, Locals, Addrs, Contents
  <1>3. /\ addrs[i][NDIRECT + 1] # 0 /\ bn[p] \in Entries
        /\ \A k \in Entries : k < bn[p] => ptr[addrs[i][NDIRECT + 1]][k] = 0
        /\ pc[p] = "inner block" => ptr[addrs[i][NDIRECT + 1]][bn[p]] \notin {0, addrs[i][NDIRECT + 1]}
    BY <1>1 DEF TruncAt
  <1>4. addrs[i][NDIRECT + 1] \in Blocks
    BY <1>2, <1>3, Sizes DEF Addrs
  <1> QED
    BY <1>1, <1>2, <1>3, <1>4, Parents

\* An index block that the doubly indirect block names; it forgets the number.
LEMMA TruncInnerBlockStep ==
  ASSUME IInv, NEW p \in Procs, TruncInnerBlock(p)
  PROVE  IInv'
  <1>a. PICK i \in Inodes : i = ino[p]
    BY TypeParts DEF IInv, Locals
  <1>b. PICK dbl, n, e : dbl = addrs[i][NDIRECT + 1] /\ n = bn[p] /\ e = ptr[dbl][n]
    OBVIOUS
  <1>c. PICK c : c = [ptr EXCEPT ![dbl][n] = 0]
    OBVIOUS
  <1>1. /\ pc[p] = "inner block" /\ Bfree({e}, c)
        /\ pc' = [pc EXCEPT ![p] = "double"] /\ addrs' = addrs
        /\ UNCHANGED <<size, daddrs, dsize, disk, ino, bn, stop>>
    BY <1>a, <1>b, <1>c DEF TruncInnerBlock, inode, dinode, log, args
  <1>2. /\ Shape /\ addrs \in [Inodes -> [Slots -> Addr]] /\ ptr \in [Blocks -> [Entries -> Addr]]
        /\ pc \in [Procs -> Pcs] /\ addrs[i] \in Addrs /\ ptr \in Contents
        /\ dbl \in Blocks /\ dbl # 0 /\ n \in Entries /\ dbl # addrs[i][NDIRECT]
        /\ \A k \in Entries : k < n => ptr[dbl][k] = 0
        /\ e \notin {0, dbl}
        /\ \A k \in Entries : ptr[dbl][k] # 0 => Parent(i, ptr[dbl][k], dbl, k)
    BY <1>a, <1>b, <1>1, DoubleSees
  <1>3. /\ c \in Contents
        /\ \A d \in Blocks \ {dbl} : c[d] = ptr[d]
        /\ \A k \in Entries : c[dbl][k] = IF k = n THEN 0 ELSE ptr[dbl][k]
    <2>1. c = [ptr EXCEPT ![dbl] = [ptr[dbl] EXCEPT ![n] = 0]]
      BY <1>c
    <2>2. /\ [ptr[dbl] EXCEPT ![n] = 0] \in [Entries -> Addr]
          /\ \A k \in Entries : [ptr[dbl] EXCEPT ![n] = 0][k] = IF k = n THEN 0 ELSE ptr[dbl][k]
      BY <1>2, Sizes
    <2> QED
      BY <1>2, <2>1, <2>2 DEF Contents
  <1>4. /\ Parent(i, e, dbl, n) /\ LinkOf(i, dbl, n, e) /\ e # addrs[i][NDIRECT]
        /\ \A k \in Entries : ptr[dbl][k] = e => k = n
    <2>1. Parent(i, e, dbl, n)
      BY <1>b, <1>2
    <2>2. \A k \in Entries : ptr[dbl][k] = e => LinkOf(i, dbl, k, e)
      BY <1>2, Parents
    <2>3. dbl \in Addr /\ e \in Blocks /\ \A k \in Entries : k \in Nat
      BY <1>b, <1>2, Sizes DEF Contents
    <2>4. \A k \in Entries : ptr[dbl][k] = e => k = n
      BY <1>b, <1>2, <2>2, <2>3 DEF Shape, Unique
    <2> QED
      BY <1>b, <1>2, <2>1, <2>2, <2>4 DEF Parent, Indirect, Double
  <1>5. "double" \in TruncSteps /\ pc[p] \in TruncSteps
    BY <1>1 DEF TruncSteps
  <1>6. Freeing(p, i, {e}, c, "double")
    <2>1. \A t \in {e} : \E b, k : LinkOf(i, b, k, t)
      BY <1>4
    <2>2. addrs' \in [Inodes -> Addrs]
      BY <1>1, <1>2 DEF Addrs
    <2>3. \A j \in Inodes \ {i}, b \in Blocks : IsIndex(addrs[j], ptr, b) => c[b] = ptr[b]
      <3>1. IsIndex(addrs[i], ptr, dbl)
        BY <1>b, <1>2 DEF IsIndex, Double
      <3>2. \A j \in Inodes : IsIndex(addrs[j], ptr, dbl) => j = i
        BY <1>2, <3>1, OneParent
      <3> QED
        BY <1>3, <3>2
    <2> QED
      BY <1>a, <1>1, <1>5, <2>1, <2>2, <2>3 DEF Freeing
  <1>7. \A d \in Blocks : ptr'[d] = IF d = e THEN Data ELSE c[d]
    BY <1>1 DEF Bfree
  <1>8. Apart(p, i)
    BY <1>3, <1>5, <1>6, FreeSees
  <1>9. pc'[p] = "double" /\ addrs' = addrs /\ ino' = ino /\ bn' = bn
    BY <1>1, <1>2
  <1>10. /\ \A b : Emptied(i, b) <=> b = e
         /\ \A b : ~Emptied(i, b)'
    <2>1. \A b : Emptied(i, b) <=> b = ptr[addrs[i][NDIRECT + 1]][bn[p]]
      <3>1. \A b : Emptied(i, b) <=>
               \/ pc[p] = "indirect block" /\ Indirect(addrs[i], b)
               \/ pc[p] = "inner block" /\ b = ptr[addrs[i][NDIRECT + 1]][bn[p]]
        BY <1>2, <1>8, EmptiedBy
      <3>2. pc[p] = "inner block"
        BY <1>1
      <3> QED
        BY <3>1, <3>2, Zenon
    <2>2. \A b : ~Emptied(i, b)'
      BY <1>2, <1>8, <1>9, EmptiedBy
    <2> QED
      BY <1>b, <2>1, <2>2
  <1>11. ptr'[dbl] = c[dbl]
    BY <1>2, <1>7
  <1>12. \A d : IsIndex(addrs'[i], ptr', d) <=> IsIndex(addrs[i], ptr, d) /\ d # e
    <2>1. \A d : Inner(addrs[i], ptr', d) <=> Inner(addrs[i], ptr, d) /\ d # e
      BY <1>b, <1>3, <1>4, <1>11 DEF Inner
    <2>2. ~Indirect(addrs[i], e) /\ ~Double(addrs[i], e)
      BY <1>b, <1>2, <1>4 DEF Indirect, Double
    <2> QED
      BY <1>9, <2>1, <2>2 DEF IsIndex
  <1>13. \A b, k, t : LinkOf(i, b, k, t)' <=> LinkOf(i, b, k, t) /\ t \notin {e}
    <2>1. \A k \in Slots : addrs'[i][k] = IF dbl = 0 /\ k = n THEN 0 ELSE addrs[i][k]
      BY <1>2, <1>9
    <2>2. \A d \in Blocks, k \in Entries :
             d # e => ptr'[d][k] = IF d = dbl /\ k = n THEN 0 ELSE ptr[d][k]
      BY <1>3, <1>7
    <2>3. \A k, t : ~LinkOf(i, e, k, t)
      BY <1>10 DEF LinkOf
    <2> QED
      BY <1>3, <1>4, <1>5, <1>6, <1>10, <1>12, <2>1, <2>2, <2>3, ReleaseLinks
  <1>14. TruncAt(p)'
    <2>1. \A k \in Entries : k < n => ptr'[dbl][k] = 0
      BY <1>2, <1>3, <1>11
    <2> QED
      BY <1>a, <1>b, <1>2, <1>9, <2>1 DEF TruncAt
  <1> QED
    BY <1>3, <1>5, <1>6, <1>13, <1>14, FreeStep

\* The doubly indirect block itself, when all its entries are zero.
LEMMA TruncDoubleBlockStep ==
  ASSUME IInv, NEW p \in Procs, TruncDoubleBlock(p)
  PROVE  IInv'
  <1>a. PICK i \in Inodes : i = ino[p]
    BY TypeParts DEF IInv, Locals
  <1>b. PICK e : e = addrs[i][NDIRECT + 1]
    OBVIOUS
  <1>1. /\ pc[p] = "double" /\ Bfree({e}, ptr)
        /\ bn[p] = NINDIRECT - 1 /\ ptr[e][bn[p]] = 0
        /\ addrs' = [addrs EXCEPT ![i][NDIRECT + 1] = 0]
        /\ pc' = [pc EXCEPT ![p] = "done"]
        /\ UNCHANGED <<size, daddrs, dsize, disk, ino, bn, stop>>
    BY <1>a, <1>b DEF TruncDoubleBlock, dinode, log, args
  <1>2. /\ Shape /\ addrs \in [Inodes -> [Slots -> Addr]]
        /\ pc \in [Procs -> Pcs] /\ addrs[i] \in Addrs /\ ptr \in Contents
        /\ e \in Blocks /\ e # 0 /\ e # addrs[i][NDIRECT]
        /\ \A k \in Entries : k < bn[p] => ptr[e][k] = 0
    BY <1>a, <1>b, <1>1, DoubleSees
  <1>3. /\ addrs' \in [Inodes -> [Slots -> Addr]]
        /\ \A j \in Inodes \ {i} : addrs'[j] = addrs[j]
        /\ \A k \in Slots : addrs'[i][k] = IF k = NDIRECT + 1 THEN 0 ELSE addrs[i][k]
    <2>1. addrs' = [addrs EXCEPT ![i] = [addrs[i] EXCEPT ![NDIRECT + 1] = 0]]
      BY <1>1
    <2>2. /\ [addrs[i] EXCEPT ![NDIRECT + 1] = 0] \in [Slots -> Addr]
          /\ \A k \in Slots : [addrs[i] EXCEPT ![NDIRECT + 1] = 0][k]
                                 = IF k = NDIRECT + 1 THEN 0 ELSE addrs[i][k]
      BY <1>2, Sizes
    <2> QED
      BY <1>2, <2>1, <2>2
  <1>4. \A k \in Entries : ptr[e][k] = 0
    <2>1. \A k \in Entries : k < bn[p] \/ k = bn[p]
      BY <1>1, Sizes DEF Entries
    <2> QED
      BY <1>1, <1>2, <2>1
  <1>5. Parent(i, e, 0, NDIRECT + 1) /\ LinkOf(i, 0, NDIRECT + 1, e)
    <2>1. Parent(i, e, 0, NDIRECT + 1)
      BY <1>b, <1>2 DEF Parent, Double
    <2> QED
      BY <1>2, <2>1, Parents
  <1>6. "done" \in TruncSteps /\ pc[p] \in TruncSteps
    BY <1>1 DEF TruncSteps
  <1>7. Freeing(p, i, {e}, ptr, "done")
    <2>1. \A t \in {e} : \E b, k : LinkOf(i, b, k, t)
      BY <1>5
    <2>2. addrs' \in [Inodes -> Addrs]
      BY <1>3 DEF Addrs
    <2>3. Bfree({e}, ptr) /\ UNCHANGED <<size, daddrs, dsize, disk, ino, bn, stop>>
      BY <1>1
    <2>4. pc' = [pc EXCEPT ![p] = "done"]
      BY <1>1
    <2> QED
      BY <1>a, <1>3, <1>6, <2>1, <2>2, <2>3, <2>4 DEF Freeing
  <1>8. \A d \in Blocks : ptr'[d] = IF d = e THEN Data ELSE ptr[d]
    BY <1>1 DEF Bfree
  <1>9. Apart(p, i) /\ pc'[p] = "done"
    <2>1. Apart(p, i)
      BY <1>2, <1>6, <1>7, FreeSees
    <2>2. pc'[p] = "done"
      BY <1>1, <1>2
    <2> QED
      BY <2>1, <2>2
  <1>10. (\A b : ~Emptied(i, b)) /\ (\A b : ~Emptied(i, b)')
    <2>1. \A b : ~Emptied(i, b)
      BY <1>1, <1>2, <1>9, EmptiedBy
    <2>2. \A b : ~Emptied(i, b)'
      BY <1>2, <1>9, EmptiedBy
    <2> QED
      BY <2>1, <2>2
  <1>11. \A d : IsIndex(addrs'[i], ptr', d) <=> IsIndex(addrs[i], ptr, d) /\ d # e
    <2>1. addrs'[i][NDIRECT] = addrs[i][NDIRECT] /\ addrs'[i][NDIRECT + 1] = 0
      BY <1>3, Sizes
    <2>2. \A d : ~Inner(addrs'[i], ptr', d) /\ ~Inner(addrs[i], ptr, d)
      BY <1>b, <1>4, <2>1 DEF Inner
    <2>3. \A d : Indirect(addrs'[i], d) <=> Indirect(addrs[i], d)
      BY <2>1 DEF Indirect
    <2>4. \A d : ~Double(addrs'[i], d)
      BY <2>1 DEF Double
    <2>5. ~Indirect(addrs[i], e) /\ \A d : Double(addrs[i], d) <=> d = e
      BY <1>b, <1>2 DEF Indirect, Double
    <2> QED
      BY <2>2, <2>3, <2>4, <2>5 DEF IsIndex
  <1>12. \A b, k, t : LinkOf(i, b, k, t)' <=> LinkOf(i, b, k, t) /\ t \notin {e}
    <2>1. \A k \in Slots : addrs'[i][k] = IF 0 = 0 /\ k = NDIRECT + 1 THEN 0 ELSE addrs[i][k]
      BY <1>3
    <2>2. \A d \in Blocks, k \in Entries :
             d # e => ptr'[d][k] = IF d = 0 /\ k = NDIRECT + 1 THEN 0 ELSE ptr[d][k]
      BY <1>8, Sizes
    <2>3. \A k, t : ~LinkOf(i, e, k, t)
      BY <1>2, <1>4 DEF LinkOf, Link
    <2> QED
      BY <1>2, <1>5, <1>6, <1>7, <1>10, <1>11, <2>1, <2>2, <2>3, ReleaseLinks
  <1>13. TruncAt(p)'
    BY <1>9 DEF TruncAt
  <1> QED
    BY <1>2, <1>6, <1>7, <1>12, <1>13, FreeStep

\* The loop over the doubly indirect block goes on.
LEMMA TruncDoubleNextStep ==
  ASSUME IInv, NEW p \in Procs, TruncDoubleNext(p)
  PROVE  IInv'
  <1>a. PICK i \in Inodes : i = ino[p]
    BY TypeParts DEF IInv, Locals
  <1>b. PICK dbl, n : dbl = addrs[i][NDIRECT + 1] /\ n = bn[p]
    OBVIOUS
  <1>0. /\ Memory /\ Dinodes /\ Locals /\ disk \in Snapshots /\ panic \in BOOLEAN /\ ~panic
    BY TypeParts DEF IInv
  <1>1. /\ pc[p] = "double" /\ ptr[dbl][n] = 0 /\ n < NINDIRECT - 1
        /\ bn' = [bn EXCEPT ![p] = n + 1]
        /\ UNCHANGED <<bitmap, ptr, addrs, size, daddrs, dsize, disk, pc, ino, stop, panic>>
    BY <1>a, <1>b DEF TruncDoubleNext, inode, dinode, log
  <1>2. dbl # 0 /\ n \in Entries /\ \A k \in Entries : k < n => ptr[dbl][k] = 0
    BY <1>a, <1>b, <1>1, DoubleSees
  <1>3. n + 1 \in Entries /\ n + 1 \in Nat /\ \A k \in Entries : k < n + 1 => k < n \/ k = n
    BY <1>1, <1>2, Sizes DEF Entries
  <1>4. /\ Locals' /\ bn'[p] = n + 1 /\ \A q \in Procs \ {p} : bn'[q] = bn[q]
    BY <1>0, <1>1, <1>3 DEF Locals
  <1>5. pc' = pc /\ ino' = ino /\ addrs' = addrs /\ ptr' = ptr /\ disk' = disk /\ panic' = panic
    BY <1>1
  <1>6. Types'
    BY <1>0, <1>1, <1>4, TypeParts DEF Memory, Dinodes
  <1>7. Apart(p, i)
    BY <1>a, <1>1, <1>4 DEF Apart
  <1>8. Unique' /\ Exact'
    BY <1>1, <1>5, <1>6, <1>7, Unmoved
  <1>9. TruncAt(p)'
    <2>1. \A k \in Entries : k < n + 1 => ptr[dbl][k] = 0
      BY <1>1, <1>2, <1>3
    <2> QED
      BY <1>a, <1>b, <1>1, <1>2, <1>3, <1>4, <1>5, <2>1 DEF TruncAt
  <1>10. WritingAt(p)' /\ pc'[p] # "idle"
    BY <1>1, <1>5 DEF WritingAt
  <1>11. Disk' /\ ~panic'
    BY <1>0, <1>5, SameDisk
  <1> QED
    BY <1>6, <1>7, <1>8, <1>9, <1>10, <1>11, ApartStep

\* The loop over the direct blocks; no index block is among them.
LEMMA TruncDirectStep ==
  ASSUME IInv, NEW p \in Procs, TruncDirect(p)
  PROVE  IInv'
  <1>a. PICK i \in Inodes : i = ino[p]
    BY TypeParts DEF IInv, Locals
  <1>b. PICK S : S = Nonzero([k \in 0..(NDIRECT - 1) |-> addrs[i][k]])
    OBVIOUS
  <1>c. PICK step \in {"indirect", "double", "done"} :
          /\ pc' = [pc EXCEPT ![p] = step]
          /\ step = "indirect" => addrs[i][NDIRECT] # 0
          /\ step = "double" => addrs[i][NDIRECT + 1] # 0
    BY <1>a DEF TruncDirect
  <1>1. /\ pc[p] = "direct" /\ Bfree(S, ptr)
        /\ UNCHANGED <<size, daddrs, dsize, disk, ino, bn, stop>>
    BY <1>a, <1>b DEF TruncDirect, dinode, log, args
  <1>2. addrs' = [addrs EXCEPT ![i] = [k \in Slots |-> IF k < NDIRECT THEN 0 ELSE addrs[i][k]]]
    BY <1>a DEF TruncDirect
  <1>3. /\ Shape /\ addrs \in [Inodes -> [Slots -> Addr]] /\ ptr \in Contents /\ pc \in [Procs -> Pcs]
        /\ bn[p] = 0 /\ addrs[i] \in Addrs
    <2>1. TruncAt(p) /\ Shape
      BY DEF IInv, Truncs, Shape
    <2>2. bn[p] = 0
      BY <1>1, <2>1 DEF TruncAt
    <2> QED
      BY <2>1, <2>2, TypeParts DEF IInv, Memory, Locals, Addrs
  <1>4. /\ addrs' \in [Inodes -> [Slots -> Addr]]
        /\ \A j \in Inodes \ {i} : addrs'[j] = addrs[j]
        /\ \A k \in Slots : addrs'[i][k] = IF k < NDIRECT THEN 0 ELSE addrs[i][k]
    <2>1. [k \in Slots |-> IF k < NDIRECT THEN 0 ELSE addrs[i][k]] \in [Slots -> Addr]
      BY <1>3, Sizes DEF Addrs
    <2> QED
      BY <1>2, <1>3, <2>1
  <1>5. /\ \A k \in Slots : k < NDIRECT <=> k \in 0..(NDIRECT - 1)
        /\ 0..(NDIRECT - 1) \subseteq Slots
        /\ ~(NDIRECT < NDIRECT) /\ ~(NDIRECT + 1 < NDIRECT)
    BY Sizes DEF Slots
  <1>6. \A t : t \in S <=> t # 0 /\ \E k \in Slots : k < NDIRECT /\ addrs[i][k] = t
    <2>1. \A t : t \in S <=> t # 0 /\ \E k \in 0..(NDIRECT - 1) : addrs[i][k] = t
      BY <1>b DEF Nonzero
    <2> QED
      BY <1>5, <2>1
  <1>7. \A b : ~Emptied(i, b)
    BY <1>a, <1>1, <1>3, NoneEmptied
  <1>8. \A t \in S : \E k \in Slots : k < NDIRECT /\ LinkOf(i, 0, k, t)
    BY <1>6, <1>7 DEF LinkOf, Link
  <1>9. step \in TruncSteps /\ pc[p] \in TruncSteps
    BY <1>1 DEF TruncSteps
  <1>10. Freeing(p, i, S, ptr, step)
    <2>1. \A t \in S : \E b, k : LinkOf(i, b, k, t)
      BY <1>8
    <2>2. addrs' \in [Inodes -> Addrs]
      BY <1>4 DEF Addrs
    <2> QED
      BY <1>a, <1>c, <1>1, <1>4, <1>9, <2>1, <2>2 DEF Freeing
  <1>11. Apart(p, i) /\ pc'[p] = step /\ ptr' \in Contents /\ addrs'[i] \in Addrs
    <2>1. Apart(p, i)
      BY <1>3, <1>9, <1>10, FreeSees
    <2>2. ptr' \in Contents /\ addrs'[i] \in Addrs
      BY <1>3, <1>9, <1>10, FreeSees
    <2> QED
      BY <1>c, <1>3, <2>1, <2>2
  <1>12. \A b : ~Emptied(i, b)'
    BY <1>3, <1>11, EmptiedBy
  <1>13. ASSUME NEW d, IsIndex(addrs[i], ptr, d) PROVE d \notin S
    <2>1. SUFFICES ASSUME d \in S PROVE FALSE
      OBVIOUS
    <2>2. PICK k \in Slots : k < NDIRECT /\ LinkOf(i, 0, k, d)
      BY <1>8, <2>1
    <2>3. \A e, l : LinkOf(i, e, l, d) => Parent(i, d, e, l)
      BY <1>3, <1>13, OneParent
    <2>4. Parent(i, d, 0, k)
      BY <2>2, <2>3
    <2> QED
      BY <1>5, <2>2, <2>4 DEF Parent, Double
  <1>14. \A d \in Blocks : IsIndex(addrs[i], ptr, d) => ptr'[d] = ptr[d]
    BY <1>1, <1>13 DEF Bfree
  <1>15. addrs'[i][NDIRECT] = addrs[i][NDIRECT] /\ addrs'[i][NDIRECT + 1] = addrs[i][NDIRECT + 1]
    BY <1>4, <1>5, Sizes
  <1>16. \A d : IsIndex(addrs'[i], ptr', d) <=> IsIndex(addrs[i], ptr, d)
    <2>1. \A d : IsIndex(addrs[i], ptr', d) <=> IsIndex(addrs[i], ptr, d)
      BY <1>3, <1>11, <1>14, LinksStay
    <2> QED
      BY <1>15, <2>1 DEF IsIndex, Indirect, Double, Inner
  <1>17. /\ \A d : IsIndex(addrs[i], ptr, d) => d \in Blocks
         /\ 0 \notin Blocks
    BY <1>3, IndexIsBlock, Sizes
  <1>18. ASSUME NEW b, NEW k, NEW t, LinkOf(i, b, k, t)'
         PROVE  LinkOf(i, b, k, t) /\ t \notin S
    <2>1. Link(addrs'[i], ptr', b, k, t)
      BY <1>18 DEF LinkOf
    <2>2. Link(addrs[i], ptr, b, k, t) /\ ~(b = 0 /\ k < NDIRECT)
      <3>1. CASE b = 0 /\ k \in Slots /\ addrs'[i][k] = t
        BY <1>4, <2>1, <3>1 DEF Link
      <3>2. CASE IsIndex(addrs'[i], ptr', b) /\ k \in Entries /\ ptr'[b][k] = t
        BY <1>14, <1>16, <1>17, <2>1, <3>2 DEF Link
      <3> QED
        BY <2>1, <3>1, <3>2 DEF Link
    <2>3. LinkOf(i, b, k, t)
      BY <1>7, <2>2 DEF LinkOf
    <2>4. ASSUME t \in S PROVE FALSE
      <3>1. PICK l \in Slots : l < NDIRECT /\ LinkOf(i, 0, l, t)
        BY <1>8, <2>4
      <3>2. b \in Addr /\ k \in Nat /\ t \in Blocks /\ 0 \in Addr /\ l \in Nat
        BY <1>3, <2>3, LinkTypes, Sizes DEF LinkOf
      <3> QED
        BY <1>3, <2>2, <2>3, <3>1, <3>2 DEF Shape, Unique
    <2> QED
      BY <2>3, <2>4
  <1>19. ASSUME NEW b, NEW k, NEW t, LinkOf(i, b, k, t), t \notin S
         PROVE  LinkOf(i, b, k, t)'
    <2>1. Link(addrs[i], ptr, b, k, t)
      BY <1>19 DEF LinkOf
    <2>2. Link(addrs'[i], ptr', b, k, t)
      <3>1. CASE b = 0 /\ k \in Slots /\ addrs[i][k] = t
        BY <1>4, <1>6, <1>19, <2>1, <3>1 DEF Link
      <3>2. CASE IsIndex(addrs[i], ptr, b) /\ k \in Entries /\ ptr[b][k] = t
        BY <1>14, <1>16, <1>17, <2>1, <3>2 DEF Link
      <3> QED
        BY <2>1, <3>1, <3>2 DEF Link
    <2> QED
      BY <1>12, <2>2 DEF LinkOf
  <1>20. TruncAt(p)'
    <2>1. ino'[p] = i /\ bn'[p] = 0
      <3>1. ino' = ino /\ bn' = bn
        BY <1>1
      <3> QED
        BY <1>a, <1>3, <3>1
    <2>2. 0 \in Entries /\ \A k \in Entries : ~(k < 0)
      BY Sizes DEF Entries
    <2> QED
      BY <1>c, <1>11, <1>15, <2>1, <2>2 DEF TruncAt
  <1> QED
    BY <1>3, <1>9, <1>10, <1>18, <1>19, <1>20, FreeStep

-----------------------------------------------------------------------------
(* The invariant.                                                          *)

\* Recovery restores what the last commit wrote.
LEMMA CrashStep ==
  ASSUME IInv, Crash
  PROVE  IInv'
  <1>0. disk \in Snapshots /\ Disk /\ panic \in BOOLEAN /\ ~panic
    BY TypeParts DEF IInv
  <1>1. /\ bitmap' = disk.bitmap /\ ptr' = disk.ptr
        /\ daddrs' = disk.addrs /\ dsize' = disk.size /\ addrs' = disk.addrs /\ size' = disk.size
        /\ pc' = [q \in Procs |-> "idle"] /\ ino' = [q \in Procs |-> AnyInode]
        /\ bn' = [q \in Procs |-> 0] /\ stop' = [q \in Procs |-> 0]
        /\ disk' = disk /\ panic' = panic
    BY DEF Crash
  <1>2. Memory' /\ Dinodes'
    BY <1>0, <1>1 DEF Snapshots, Memory, Dinodes
  <1>3. Locals'
    BY <1>1, DataTypes DEF Locals, Pcs
  <1>4. Types'
    BY <1>0, <1>1, <1>2, <1>3, TypeParts
  <1>5. \A p \in Procs : pc'[p] = "idle" /\ bn'[p] = 0
    BY <1>1
  <1>6. Holders' /\ Writing' /\ Truncs'
    BY <1>5 DEF Holders, Writing, WritingAt, Truncs, TruncAt
  <1>7. Synced'
    BY <1>1 DEF Synced, SyncedAt
  <1>8. Filled'
    BY <1>0, <1>1 DEF Filled, FilledAt, Disk, DiskFilled
  <1>9. \A i, b : ~Emptied(i, b)'
    BY <1>5 DEF Emptied
  <1>10. \A i \in Inodes : \A b, k, t :
            LinkOf(i, b, k, t)' <=> Link(disk.addrs[i], disk.ptr, b, k, t)
    BY <1>1, <1>9 DEF LinkOf
  <1>11. Unique' /\ Exact'
    BY <1>0, <1>1, <1>10 DEF Unique, Exact, Disk, DiskUnique, DiskExact
  <1>12. Disk' /\ ~panic'
    BY <1>0, <1>1, SameDisk
  <1> QED
    BY <1>4, <1>6, <1>7, <1>8, <1>11, <1>12 DEF IInv

\* At first no block is in use.
LEMMA InitIInv == Init => IInv
  <1> SUFFICES ASSUME Init PROVE IInv
    OBVIOUS
  <1>1. /\ bitmap = {} /\ ptr = [b \in Blocks |-> Data]
        /\ addrs = [i \in Inodes |-> [k \in Slots |-> 0]] /\ size = [i \in Inodes |-> 0]
        /\ daddrs = addrs /\ dsize = size /\ disk = Snapshot(bitmap, ptr, daddrs, dsize)
        /\ pc = [p \in Procs |-> "idle"] /\ ino = [p \in Procs |-> AnyInode]
        /\ bn = [p \in Procs |-> 0] /\ stop = [p \in Procs |-> 0] /\ panic = FALSE
    BY DEF Init
  <1>2. Memory /\ Dinodes
    <2>1. [k \in Slots |-> 0] \in Addrs
      BY Sizes DEF Addrs
    <2>2. \A b \in Blocks : Data \in [Entries -> Addr]
      BY DataTypes
    <2> QED
      BY <1>1, <2>1, <2>2, DataTypes DEF Memory, Dinodes, Contents
  <1>3. Locals
    BY <1>1, DataTypes DEF Locals, Pcs
  <1>4. disk \in Snapshots /\ panic \in BOOLEAN /\ ~panic
    BY <1>1, <1>2 DEF Memory, Dinodes, Snapshot, Snapshots
  <1>5. Types
    BY <1>2, <1>3, <1>4, TypeParts
  <1>6. \A p \in Procs : pc[p] = "idle" /\ bn[p] = 0
    BY <1>1
  <1>7. Holders /\ Writing /\ Truncs
    BY <1>6 DEF Holders, Writing, WritingAt, Truncs, TruncAt
  <1>8. \A i \in Inodes, n \in 0..(MAXFILE - 1) : ~(n < size[i])
    BY <1>1, Sizes
  <1>9. Synced /\ Filled
    BY <1>1, <1>8 DEF Synced, Filled, SyncedAt, FilledAt
  <1>10. \A i \in Inodes, k \in Slots : addrs[i][k] = 0
    BY <1>1
  <1>11. \A i \in Inodes : \A b, k, t : ~Link(addrs[i], ptr, b, k, t)
    BY <1>10, Sizes DEF Link, IsIndex, Indirect, Double, Inner
  <1>12. Unique /\ Exact
    BY <1>1, <1>11 DEF Unique, Exact, LinkOf
  <1>13. Disk
    <2>1. disk.bitmap = bitmap /\ disk.ptr = ptr /\ disk.addrs = addrs /\ disk.size = size
      BY <1>1 DEF Snapshot
    <2> QED
      <3>1. DiskUnique /\ DiskExact
        <4>1. \A i \in Inodes : \A b, k, t : ~Link(disk.addrs[i], disk.ptr, b, k, t)
          BY <1>11, <2>1
        <4>2. disk.bitmap = {}
          BY <1>1, <2>1
        <4> QED
          BY <4>1, <4>2 DEF DiskUnique, DiskExact
      <3>2. DiskFilled
        BY <1>8, <2>1 DEF DiskFilled
      <3> QED
        BY <3>1, <3>2 DEF Disk
  <1> QED
    BY <1>4, <1>5, <1>7, <1>9, <1>12, <1>13 DEF IInv

\* One action after the other.
LEMMA NextIInv == IInv /\ [Next]_vars => IInv'
  <1> SUFFICES ASSUME IInv, [Next]_vars PROVE IInv'
    OBVIOUS
  <1>1. ASSUME NEW p \in Procs, NEW i \in Inodes, NEW off \in 0..MAXFILE, NEW n \in 1..MAXWRITE,
               BeginWrite(p, i, off, n)
        PROVE  IInv'
    BY <1>1, BeginStep
  <1>2. ASSUME NEW p \in Procs, BmapAlloc(p) PROVE IInv'
    BY <1>2, AllocStep
  <1>3. ASSUME NEW p \in Procs, BmapFull(p) \/ CopyFails(p) PROVE IInv'
    BY <1>3, StopStep
  <1>4. ASSUME NEW p \in Procs, WriteBlock(p) PROVE IInv'
    BY <1>4, WriteStep
  <1>5. ASSUME NEW p \in Procs, EndWrite(p) \/ EndTrunc(p) PROVE IInv'
    BY <1>5, EndStep
  <1>6. ASSUME NEW i \in Inodes, NEW n \in 0..(MAXFILE - 1), Read(i, n) PROVE IInv'
    BY <1>6, ReadStep
  <1>7. ASSUME NEW p \in Procs, NEW i \in Inodes, BeginTrunc(p, i) PROVE IInv'
    BY <1>7, BeginStep
  <1>8. ASSUME NEW p \in Procs, TruncDirect(p) PROVE IInv'
    BY <1>8, TruncDirectStep
  <1>9. ASSUME NEW p \in Procs, TruncIndirect(p) PROVE IInv'
    BY <1>9, TruncIndirectStep
  <1>10. ASSUME NEW p \in Procs, TruncIndirectBlock(p) PROVE IInv'
    BY <1>10, TruncIndirectBlockStep
  <1>11. ASSUME NEW p \in Procs, TruncDouble(p) PROVE IInv'
    BY <1>11, TruncDoubleStep
  <1>12. ASSUME NEW p \in Procs, TruncDoubleNext(p) PROVE IInv'
    BY <1>12, TruncDoubleNextStep
  <1>13. ASSUME NEW p \in Procs, TruncInnerBlock(p) PROVE IInv'
    BY <1>13, TruncInnerBlockStep
  <1>14. ASSUME NEW p \in Procs, TruncDoubleBlock(p) PROVE IInv'
    BY <1>14, TruncDoubleBlockStep
  <1>15. CASE Crash
    BY <1>15, CrashStep
  <1>16. CASE UNCHANGED vars
    BY <1>16, Stutter DEF vars, inode, dinode, log, args
  <1> QED
    BY <1>1, <1>2, <1>3, <1>4, <1>5, <1>6, <1>7, <1>8, <1>9, <1>10, <1>11, <1>12, <1>13,
       <1>14, <1>15, <1>16 DEF Next

\* The invariant holds in every state.
THEOREM Invariance == Spec => []IInv
  BY InitIInv, NextIInv, PTL DEF Spec

\* Block numbers stay on the disk and sizes within MAXFILE.
THEOREM TypeCorrect == Spec => []TypeOK
  <1>1. IInv => TypeOK
    BY DEF IInv, Types
  <1> QED
    BY <1>1, Invariance, PTL

\* bfree is not called on a free block, and a read does not allocate.
THEOREM NoPanicCorrect == Spec => []NoPanic
  <1>1. IInv => NoPanic
    BY DEF IInv, NoPanic
  <1> QED
    BY <1>1, Invariance, PTL

\* A file that no operation works on has a block for each of its size, and is
\* the same on disk.
THEOREM HolesCorrect == Spec => []NoHoles
  <1>1. ASSUME IInv PROVE NoHoles
    <2>1. Shape /\ \A i \in Inodes : size[i] \in 0..MAXFILE
      BY <1>1, TypeParts DEF IInv, Shape, Memory
    <2>2. ASSUME NEW i \in Inodes, ~Locked(i), NEW n \in 0..(size[i] - 1) PROVE Lookup(i, n) # 0
      <3>1. n \in 0..(MAXFILE - 1) /\ n < size[i]
        BY <2>1, Sizes
      <3>2. Has(addrs[i], ptr, n)
        BY <1>1, <2>2, <3>1 DEF IInv, Filled, FilledAt
      <3>3. SlotIs(i, n, SlotOf(i, n))
        BY <2>1, <3>1, SlotCases
      <3> QED
        BY <3>2, <3>3 DEF SlotIs, Lookup
    <2>3. \A i \in Inodes : ~Locked(i) => addrs[i] = daddrs[i] /\ size[i] = dsize[i]
      BY <1>1 DEF IInv, Synced, SyncedAt
    <2> QED
      BY <2>2, <2>3 DEF NoHoles
  <1> QED
    BY <1>1, Invariance, PTL

\* The slots that refer to blocks are the links.
LEMMA RefsAreLinks ==
  ASSUME NEW a \in Addrs, NEW c \in Contents
  PROVE  /\ \A s \in Refs(a, c) : s = <<s[1], s[2]>> /\ Link(a, c, s[1], s[2], Target(a, c, s))
         /\ \A b, k, t : Link(a, c, b, k, t) =>
               <<b, k>> \in Refs(a, c) /\ Target(a, c, <<b, k>>) = t
  <1> DEFINE dbl == a[NDIRECT + 1]
  <1>0. /\ DOMAIN a = Slots /\ 0 \notin Blocks
        /\ \A b : IsIndex(a, c, b) => b \in Blocks
        /\ \A b \in Blocks : DOMAIN c[b] = Entries
        /\ a[NDIRECT] \in Addr /\ dbl \in Addr
    BY Sizes, IndexIsBlock DEF Addrs, Contents
  <1>1. \A s : s \in Used(0, a) <=> \E k \in Slots : a[k] # 0 /\ s = <<0, k>>
    BY <1>0 DEF Used
  <1>2. \A b : IsIndex(a, c, b) =>
           \A s : s \in Index(c, b) <=> \E k \in Entries : c[b][k] # 0 /\ s = <<b, k>>
    BY <1>0 DEF Index, Used
  <1>3. Index(c, 0) = {}
    BY DEF Index
  <1>4. ASSUME NEW b, IsIndex(a, c, b) PROVE Index(c, b) \subseteq Refs(a, c)
    <2>1. CASE Indirect(a, b)
      BY <2>1 DEF Refs, Indirect
    <2>2. CASE Double(a, b)
      BY <2>2 DEF Refs, Double
    <2>3. CASE Inner(a, c, b)
      <3>1. PICK k \in Entries : dbl # 0 /\ c[dbl][k] = b /\ b # 0
        BY <2>3 DEF Inner
      <3>2. <<dbl, k>> \in Index(c, dbl)
        BY <1>2, <3>1 DEF IsIndex, Double
      <3>3. b = c[dbl][<<dbl, k>>[2]]
        BY <3>1
      <3> QED
        BY <3>2, <3>3 DEF Refs
    <2> QED
      BY <1>4, <2>1, <2>2, <2>3 DEF IsIndex
  <1>5. ASSUME NEW s \in Refs(a, c)
        PROVE  s \in Used(0, a) \/ \E b : IsIndex(a, c, b) /\ s \in Index(c, b)
    <2>1. CASE s \in Index(c, a[NDIRECT])
      BY <1>3, <2>1 DEF IsIndex, Indirect
    <2>2. CASE s \in Index(c, dbl)
      BY <1>3, <2>2 DEF IsIndex, Double
    <2>3. ASSUME NEW r \in Index(c, dbl), s \in Index(c, c[dbl][r[2]])
          PROVE  \E b : IsIndex(a, c, b) /\ s \in Index(c, b)
      <3>1. dbl # 0 /\ IsIndex(a, c, dbl)
        BY <1>3, <2>3 DEF IsIndex, Double
      <3>2. PICK k \in Entries : c[dbl][k] # 0 /\ r = <<dbl, k>>
        BY <1>2, <2>3, <3>1
      <3>3. IsIndex(a, c, c[dbl][r[2]])
        BY <3>1, <3>2 DEF IsIndex, Inner
      <3> QED
        BY <2>3, <3>3
    <2> QED
      BY <2>1, <2>2, <2>3 DEF Refs
  <1>6. ASSUME NEW s \in Refs(a, c)
        PROVE  s = <<s[1], s[2]>> /\ Link(a, c, s[1], s[2], Target(a, c, s))
    <2>1. CASE s \in Used(0, a)
      BY <1>1, <2>1 DEF Link, Target
    <2>2. ASSUME NEW b, IsIndex(a, c, b), s \in Index(c, b)
          PROVE  s = <<s[1], s[2]>> /\ Link(a, c, s[1], s[2], Target(a, c, s))
      <3>1. PICK k \in Entries : c[b][k] # 0 /\ s = <<b, k>>
        BY <1>2, <2>2
      <3> QED
        BY <1>0, <2>2, <3>1 DEF Link, Target
    <2> QED
      BY <1>5, <2>1, <2>2
  <1>7. ASSUME NEW b, NEW k, NEW t, Link(a, c, b, k, t)
        PROVE  <<b, k>> \in Refs(a, c) /\ Target(a, c, <<b, k>>) = t
    <2>1. CASE b = 0 /\ k \in Slots /\ a[k] = t
      <3>1. <<b, k>> \in Used(0, a)
        BY <1>1, <1>7, <2>1 DEF Link
      <3> QED
        BY <2>1, <3>1 DEF Refs, Target
    <2>2. CASE IsIndex(a, c, b) /\ k \in Entries /\ c[b][k] = t
      <3>1. <<b, k>> \in Index(c, b) /\ b # 0
        BY <1>0, <1>2, <1>7, <2>2 DEF Link
      <3> QED
        BY <1>4, <2>2, <3>1 DEF Target
    <2> QED
      BY <1>7, <2>1, <2>2 DEF Link
  <1> QED
    BY <1>6, <1>7

\* A block of a file that is not being truncated is in one place of one file,
\* and marked in use.
THEOREM OwnedOnceCorrect == Spec => []BlocksOwnedOnce
  <1>1. ASSUME IInv PROVE BlocksOwnedOnce
    <2>0. Unique /\ Exact /\ ptr \in Contents /\ \A i \in Inodes : addrs[i] \in Addrs
      BY <1>1, ShapeTypes DEF IInv, Shape
    <2>1. \A i \in Whole : i \in Inodes /\ \A b : ~Emptied(i, b)
      BY DEF Whole, Truncating, TruncSteps, Emptied
    <2>2. ASSUME NEW i \in Whole, NEW s \in Refs(addrs[i], ptr)
          PROVE  /\ s = <<s[1], s[2]>> /\ s[1] \in Addr /\ s[2] \in Nat
                 /\ Target(addrs[i], ptr, s) \in Blocks
                 /\ LinkOf(i, s[1], s[2], Target(addrs[i], ptr, s))
      <3>1. s = <<s[1], s[2]>> /\ Link(addrs[i], ptr, s[1], s[2], Target(addrs[i], ptr, s))
        BY <2>0, <2>1, RefsAreLinks
      <3> QED
        BY <2>0, <2>1, <3>1, LinkTypes DEF LinkOf
    <2>3. NoSharing(Whole, addrs, ptr)
      <3>1. SUFFICES ASSUME NEW i \in Whole, NEW j \in Whole,
                            NEW s \in Refs(addrs[i], ptr), NEW t \in Refs(addrs[j], ptr),
                            Target(addrs[i], ptr, s) = Target(addrs[j], ptr, t)
                     PROVE  i = j /\ s = t
        BY DEF NoSharing
      <3>2. i = j /\ s[1] = t[1] /\ s[2] = t[2]
        BY <2>0, <2>1, <2>2, <3>1 DEF Unique
      <3> QED
        BY <2>2, <3>2
    <2>4. AllTargets(Whole, addrs, ptr) \subseteq bitmap
      BY <2>0, <2>1, <2>2 DEF AllTargets, Exact
    <2> QED
      BY <2>3, <2>4 DEF BlocksOwnedOnce
  <1> QED
    BY <1>1, Invariance, PTL

\* What a crash leaves on the disk has every block in one place of one file, or
\* free.
THEOREM CrashCorrect == Spec => []CrashConsistent
  <1>1. ASSUME IInv PROVE CrashConsistent
    <2>0. /\ DiskUnique /\ DiskExact /\ disk.ptr \in Contents /\ disk.bitmap \subseteq Blocks
          /\ \A i \in Inodes : disk.addrs[i] \in Addrs
      BY <1>1, TypeParts DEF IInv, Disk, Snapshots
    <2>1. ASSUME NEW i \in Inodes, NEW s \in Refs(disk.addrs[i], disk.ptr)
          PROVE  /\ s = <<s[1], s[2]>> /\ s[1] \in Addr /\ s[2] \in Nat
                 /\ Target(disk.addrs[i], disk.ptr, s) \in Blocks
                 /\ Link(disk.addrs[i], disk.ptr, s[1], s[2], Target(disk.addrs[i], disk.ptr, s))
      <3>1. /\ s = <<s[1], s[2]>>
            /\ Link(disk.addrs[i], disk.ptr, s[1], s[2], Target(disk.addrs[i], disk.ptr, s))
        BY <2>0, RefsAreLinks
      <3> QED
        BY <2>0, <3>1, LinkTypes
    <2>2. NoSharing(Inodes, disk.addrs, disk.ptr)
      <3>1. SUFFICES ASSUME NEW i \in Inodes, NEW j \in Inodes,
                            NEW s \in Refs(disk.addrs[i], disk.ptr),
                            NEW t \in Refs(disk.addrs[j], disk.ptr),
                            Target(disk.addrs[i], disk.ptr, s) = Target(disk.addrs[j], disk.ptr, t)
                     PROVE  i = j /\ s = t
        BY DEF NoSharing
      <3>2. i = j /\ s[1] = t[1] /\ s[2] = t[2]
        BY <2>0, <2>1, <3>1 DEF DiskUnique
      <3> QED
        BY <2>1, <3>2
    <2>3. AllTargets(Inodes, disk.addrs, disk.ptr) \subseteq disk.bitmap
      BY <2>0, <2>1 DEF AllTargets, DiskExact
    <2>4. disk.bitmap \subseteq AllTargets(Inodes, disk.addrs, disk.ptr)
      <3>1. SUFFICES ASSUME NEW t \in disk.bitmap PROVE t \in AllTargets(Inodes, disk.addrs, disk.ptr)
        OBVIOUS
      <3>2. PICK i \in Inodes, b \in Addr, k \in Nat : Link(disk.addrs[i], disk.ptr, b, k, t)
        BY <2>0 DEF DiskExact
      <3>3. <<b, k>> \in Refs(disk.addrs[i], disk.ptr) /\ Target(disk.addrs[i], disk.ptr, <<b, k>>) = t
        BY <2>0, <3>2, RefsAreLinks
      <3> QED
        BY <3>3 DEF AllTargets
    <2>5. AllTargets(Inodes, disk.addrs, disk.ptr) = disk.bitmap
      BY <2>3, <2>4
    <2> QED
      BY <2>2, <2>5 DEF CrashConsistent
  <1> QED
    BY <1>1, Invariance, PTL
=============================================================================
