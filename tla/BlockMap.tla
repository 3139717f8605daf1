------------------------------ MODULE BlockMap ------------------------------
(***************************************************************************)
(* The blocks of files in HW4/source/fs.c: the free bitmap (balloc,        *)
(* bfree), the direct, indirect and doubly indirect pointers of an inode   *)
(* (bmap), writing, reading and truncating a file (writei, readi, itrunc), *)
(* and the copy of the inode on disk (iupdate).                            *)
(*                                                                         *)
(* A file is counted in whole blocks.  An operation holds the lock of its  *)
(* inode from Begin to End, so two processes work on different inodes and  *)
(* meet in the bitmap, which balloc and bfree change under the lock of its *)
(* buffer: a step is at most one allocation, or the frees of one loop.     *)
(*                                                                         *)
(* The log is external: everything written since the last commit is lost   *)
(* in a crash, and end_op commits when no operation is left in the         *)
(* transaction.                                                            *)
(***************************************************************************)
EXTENDS Integers, FiniteSets, FiniteSetsExt

CONSTANTS Procs, Inodes,
          NDIRECT, NINDIRECT,  \* 11 and 256 in fs.h
          NBLOCKS,             \* blocks of the disk that files can use
          MAXWRITE,            \* blocks in one call of writei (3 in filewrite)
          LOGOPS               \* operations that fit into the log together

ASSUME BlockMapAssumption ==
    /\ NDIRECT \in Nat /\ NINDIRECT \in Nat \ {0}
    /\ NBLOCKS \in Nat /\ MAXWRITE \in Nat \ {0}
    /\ LOGOPS \in Nat \ {0}
    /\ IsFiniteSet(Inodes) /\ Inodes # {}

DNINDIRECT == NINDIRECT * NINDIRECT
MAXFILE == NDIRECT + NINDIRECT + DNINDIRECT

Blocks == 1..NBLOCKS      \* 0 is no block
Addr == 0..NBLOCKS
Slots == 0..(NDIRECT + 1)       \* of ip->addrs
Entries == 0..(NINDIRECT - 1)   \* of an index block

VARIABLES
    bitmap,     \* the blocks marked in use
    ptr,        \* the contents of blocks, read as block numbers
    addrs, size,    \* of the inodes in memory
    daddrs, dsize,  \* of the inodes on disk
    disk,       \* what the disk holds after the last commit
    joined,     \* operations that began since then
    pc, ino, bn, stop,  \* of each process: its step, inode, block and the end
    panic

inode == <<addrs, size>>
dinode == <<daddrs, dsize>>
args == <<ino, bn, stop>>
log == <<disk, joined>>
vars == <<bitmap, ptr, inode, dinode, log, pc, args, panic>>

\* The arguments of a process that is not in an operation do not matter.
AnyInode == CHOOSE i \in Inodes : TRUE

NoPtrs == [k \in Entries |-> 0]

\* What a block of file data looks like when it is read as block numbers: any
\* numbers, here always 1.  A free block holds whatever was in it: since
\* nothing but balloc, which zeroes it, may read it, Data stands for that too.
Data == [k \in Entries |-> 1]

Snapshot(m, c, a, s) == [bitmap |-> m, ptr |-> c, addrs |-> a, size |-> s]

Init ==
    /\ bitmap = {}
    /\ ptr = [b \in Blocks |-> Data]
    /\ addrs = [i \in Inodes |-> [k \in Slots |-> 0]]
    /\ size = [i \in Inodes |-> 0]
    /\ daddrs = addrs /\ dsize = size
    /\ disk = Snapshot(bitmap, ptr, daddrs, dsize)
    /\ joined = 0
    /\ pc = [p \in Procs |-> "idle"]
    /\ ino = [p \in Procs |-> AnyInode]
    /\ bn = [p \in Procs |-> 0] /\ stop = [p \in Procs |-> 0]
    /\ panic = FALSE

-----------------------------------------------------------------------------
(* bmap.                                                                   *)

Free == Blocks \ bitmap

\* The slot that holds the number of block n of inode i: in ip->addrs (block
\* 0) or in an index block.  When an index block on the way is missing, the
\* slot is the one that should hold it.
SlotOf(i, n) ==
    LET ind == addrs[i][NDIRECT]
        dbl == addrs[i][NDIRECT + 1]
        m == n - NDIRECT
        d == m - NINDIRECT
        position == d \div NINDIRECT
        offset == d % NINDIRECT
    IN  IF n < NDIRECT THEN <<0, n>>
        ELSE IF m < NINDIRECT THEN (IF ind = 0 THEN <<0, NDIRECT>> ELSE <<ind, m>>)
        ELSE IF dbl = 0 THEN <<0, NDIRECT + 1>>
        ELSE IF ptr[dbl][position] = 0 THEN <<dbl, position>>
        ELSE <<ptr[dbl][position], offset>>

Deref(i, s) == IF s[1] = 0 THEN addrs[i][s[2]] ELSE ptr[s[1]][s[2]]

\* The block of the file, 0 when there is none.
Lookup(i, n) == Deref(i, SlotOf(i, n))

\* Mutant: the new block is not zeroed.
BallocWithoutBzero(i, s) ==
    LET b == Min(Free)
    IN  /\ Free # {}
        /\ bitmap' = bitmap \cup {b}
        /\ IF s[1] = 0
           THEN addrs' = [addrs EXCEPT ![i][s[2]] = b] /\ ptr' = ptr
           ELSE addrs' = addrs /\ ptr' = [ptr EXCEPT ![s[1]][s[2]] = b]

\* balloc: the first free block, marked and zeroed; its number goes into slot s.
Balloc(i, s) ==
    LET b == Min(Free)
        zeroed == [ptr EXCEPT ![b] = NoPtrs]
    IN  /\ Free # {}
        /\ bitmap' = bitmap \cup {b}
        /\ IF s[1] = 0
           THEN addrs' = [addrs EXCEPT ![i][s[2]] = b] /\ ptr' = zeroed
           ELSE addrs' = addrs /\ ptr' = [zeroed EXCEPT ![s[1]][s[2]] = b]

\* bfree of a set of blocks, each of them in use; c is the contents of the
\* blocks that stay.
Bfree(S, c) ==
    /\ bitmap' = bitmap \ S
    /\ ptr' = [b \in Blocks |-> IF b \in S THEN Data ELSE c[b]]
    /\ panic' = (panic \/ ~(S \subseteq bitmap))

-----------------------------------------------------------------------------
(* Transactions and locks.                                                 *)

Locked(i) == \E p \in Procs : pc[p] # "idle" /\ ino[p] = i

\* begin_op waits while the log may overflow; then the inode is locked.
BeginOp(p, i) ==
    /\ pc[p] = "idle" /\ ~Locked(i)
    /\ joined < LOGOPS /\ joined' = joined + 1
    /\ disk' = disk

\* iunlock and end_op: the last one to leave commits.
EndOp(p) ==
    /\ pc' = [pc EXCEPT ![p] = "idle"]
    /\ bn' = [bn EXCEPT ![p] = 0] /\ stop' = [stop EXCEPT ![p] = 0]
    /\ IF \A q \in Procs \ {p} : pc[q] = "idle"
       THEN disk' = Snapshot(bitmap', ptr', daddrs', dsize') /\ joined' = 0
       ELSE UNCHANGED log
    /\ ino' = [ino EXCEPT ![p] = AnyInode]

\* A crash: recovery installs the committed blocks, the memory is gone.
Crash ==
    /\ bitmap' = disk.bitmap /\ ptr' = disk.ptr
    /\ daddrs' = disk.addrs /\ dsize' = disk.size
    /\ addrs' = disk.addrs /\ size' = disk.size
    /\ pc' = [p \in Procs |-> "idle"]
    /\ bn' = [p \in Procs |-> 0] /\ stop' = [p \in Procs |-> 0]
    /\ ino' = [p \in Procs |-> AnyInode]
    /\ joined' = 0
    /\ UNCHANGED <<disk, panic>>

-----------------------------------------------------------------------------
(* writei of the blocks off .. off + n - 1.                                *)

BeginWrite(p, i, off, n) ==
    /\ BeginOp(p, i)
    /\ off <= size[i]
    /\ off + n <= MAXFILE
    /\ pc' = [pc EXCEPT ![p] = "bmap"]
    /\ ino' = [ino EXCEPT ![p] = i]
    /\ bn' = [bn EXCEPT ![p] = off] /\ stop' = [stop EXCEPT ![p] = off + n]
    /\ UNCHANGED <<bitmap, ptr, inode, dinode, panic>>

\* bmap finds a slot on its way empty and fills it.
BmapAlloc(p) ==
    /\ pc[p] = "bmap"
    /\ Lookup(ino[p], bn[p]) = 0
    /\ Balloc(ino[p], SlotOf(ino[p], bn[p]))
    /\ UNCHANGED <<size, dinode, log, pc, args, panic>>

\* balloc returns 0: bmap returns 0 and the loop of writei ends.  An index
\* block that was allocated on the way stays.
BmapFull(p) ==
    /\ pc[p] = "bmap"
    /\ Lookup(ino[p], bn[p]) = 0
    /\ Free = {}
    /\ pc' = [pc EXCEPT ![p] = "iupdate"]
    /\ UNCHANGED <<bitmap, ptr, inode, dinode, log, args, panic>>

WriteBlock(p) ==
    /\ pc[p] = "bmap"
    /\ Lookup(ino[p], bn[p]) # 0
    /\ ptr' = [ptr EXCEPT ![Lookup(ino[p], bn[p])] = Data]
    /\ bn' = [bn EXCEPT ![p] = @ + 1]
    /\ pc' = [pc EXCEPT ![p] = IF bn[p] + 1 = stop[p] THEN "iupdate" ELSE "bmap"]
    /\ UNCHANGED <<bitmap, inode, dinode, log, ino, stop, panic>>

\* either_copyin fails on the user's address.
CopyFails(p) ==
    /\ pc[p] = "bmap"
    /\ Lookup(ino[p], bn[p]) # 0
    /\ pc' = [pc EXCEPT ![p] = "iupdate"]
    /\ UNCHANGED <<bitmap, ptr, inode, dinode, log, args, panic>>

\* Mutant: the inode goes to disk only when its size has changed.
EndWriteLazy(p) ==
    /\ pc[p] = "iupdate"
    /\ size' = [size EXCEPT ![ino[p]] = Max({@, bn[p]})]
    /\ IF size' = size THEN UNCHANGED dinode
       ELSE /\ daddrs' = [daddrs EXCEPT ![ino[p]] = addrs[ino[p]]]
            /\ dsize' = [dsize EXCEPT ![ino[p]] = size'[ino[p]]]
    /\ UNCHANGED <<bitmap, ptr, addrs, panic>>
    /\ EndOp(p)

\* Mutant: the size counts the blocks that could not be written.
EndWriteAsAsked(p) ==
    /\ pc[p] = "iupdate"
    /\ size' = [size EXCEPT ![ino[p]] = Max({@, stop[p]})]
    /\ daddrs' = [daddrs EXCEPT ![ino[p]] = addrs[ino[p]]]
    /\ dsize' = [dsize EXCEPT ![ino[p]] = size'[ino[p]]]
    /\ UNCHANGED <<bitmap, ptr, addrs, panic>>
    /\ EndOp(p)

\* The size, and the inode goes to disk even if the size did not change.
EndWrite(p) ==
    /\ pc[p] = "iupdate"
    /\ size' = [size EXCEPT ![ino[p]] = Max({@, bn[p]})]
    /\ daddrs' = [daddrs EXCEPT ![ino[p]] = addrs[ino[p]]]
    /\ dsize' = [dsize EXCEPT ![ino[p]] = size'[ino[p]]]
    /\ UNCHANGED <<bitmap, ptr, addrs, panic>>
    /\ EndOp(p)

\* readi of block n: bmap must not find it missing, since a read is not in a
\* transaction and log_write panics there.
Read(i, n) ==
    /\ ~Locked(i)
    /\ n < size[i]
    /\ panic' = (panic \/ Lookup(i, n) = 0)
    /\ UNCHANGED <<bitmap, ptr, inode, dinode, log, pc, args>>

-----------------------------------------------------------------------------
(* itrunc, from iput or from open with O_TRUNC.                            *)

BeginTrunc(p, i) ==
    /\ BeginOp(p, i)
    /\ pc' = [pc EXCEPT ![p] = "direct"]
    /\ ino' = [ino EXCEPT ![p] = i]
    /\ UNCHANGED <<bitmap, ptr, inode, dinode, bn, stop, panic>>

Nonzero(f) == {f[k] : k \in DOMAIN f} \ {0}

\* The direct blocks.
TruncDirect(p) ==
    LET i == ino[p] IN
    /\ pc[p] = "direct"
    /\ Bfree(Nonzero([k \in 0..(NDIRECT - 1) |-> addrs[i][k]]), ptr)
    /\ addrs' = [addrs EXCEPT ![i] =
                   [k \in Slots |-> IF k < NDIRECT THEN 0 ELSE @[k]]]
    /\ pc' = [pc EXCEPT ![p] = IF addrs[i][NDIRECT] # 0 THEN "indirect"
                               ELSE IF addrs[i][NDIRECT + 1] # 0 THEN "double"
                               ELSE "done"]
    /\ UNCHANGED <<size, dinode, log, args>>

\* The blocks named by the indirect block.
TruncIndirect(p) ==
    /\ pc[p] = "indirect"
    /\ Bfree(Nonzero(ptr[addrs[ino[p]][NDIRECT]]), ptr)
    /\ pc' = [pc EXCEPT ![p] = "indirect block"]
    /\ UNCHANGED <<inode, dinode, log, args>>

\* Mutant: ip->addrs[NDIRECT] is not cleared.
TruncIndirectBlockKept(p) ==
    LET i == ino[p] IN
    /\ pc[p] = "indirect block"
    /\ Bfree({addrs[i][NDIRECT]}, ptr)
    /\ pc' = [pc EXCEPT ![p] = IF addrs[i][NDIRECT + 1] # 0 THEN "double" ELSE "done"]
    /\ UNCHANGED <<inode, dinode, log, args>>

TruncIndirectBlock(p) ==
    LET i == ino[p] IN
    /\ pc[p] = "indirect block"
    /\ Bfree({addrs[i][NDIRECT]}, ptr)
    /\ addrs' = [addrs EXCEPT ![i][NDIRECT] = 0]
    /\ pc' = [pc EXCEPT ![p] = IF addrs[i][NDIRECT + 1] # 0 THEN "double" ELSE "done"]
    /\ UNCHANGED <<size, dinode, log, args>>

\* The loop over the doubly indirect block; bn is its index.  An entry is
\* zero, or names an index block whose blocks are freed before it is.
TruncDouble(p) ==
    LET inner == ptr[addrs[ino[p]][NDIRECT + 1]][bn[p]] IN
    /\ pc[p] = "double"
    /\ inner # 0
    /\ Bfree(Nonzero(ptr[inner]), ptr)
    /\ pc' = [pc EXCEPT ![p] = "inner block"]
    /\ UNCHANGED <<inode, dinode, log, args>>

TruncDoubleNext(p) ==
    /\ pc[p] = "double"
    /\ ptr[addrs[ino[p]][NDIRECT + 1]][bn[p]] = 0
    /\ bn[p] < NINDIRECT - 1
    /\ bn' = [bn EXCEPT ![p] = @ + 1]
    /\ UNCHANGED <<bitmap, ptr, inode, dinode, log, pc, ino, stop, panic>>

TruncInnerBlock(p) ==
    LET dbl == addrs[ino[p]][NDIRECT + 1] IN
    /\ pc[p] = "inner block"
    /\ Bfree({ptr[dbl][bn[p]]}, [ptr EXCEPT ![dbl][bn[p]] = 0])
    /\ pc' = [pc EXCEPT ![p] = "double"]
    /\ UNCHANGED <<inode, dinode, log, args>>

\* The loop has ended.
TruncDoubleBlock(p) ==
    LET i == ino[p]
        dbl == addrs[i][NDIRECT + 1]
    IN  /\ pc[p] = "double"
        /\ bn[p] = NINDIRECT - 1 /\ ptr[dbl][bn[p]] = 0
        /\ Bfree({dbl}, ptr)
        /\ addrs' = [addrs EXCEPT ![i][NDIRECT + 1] = 0]
        /\ pc' = [pc EXCEPT ![p] = "done"]
        /\ UNCHANGED <<size, dinode, log, args>>

EndTrunc(p) ==
    /\ pc[p] = "done"
    /\ size' = [size EXCEPT ![ino[p]] = 0]
    /\ daddrs' = [daddrs EXCEPT ![ino[p]] = addrs[ino[p]]]
    /\ dsize' = [dsize EXCEPT ![ino[p]] = 0]
    /\ UNCHANGED <<bitmap, ptr, addrs, panic>>
    /\ EndOp(p)

-----------------------------------------------------------------------------
Next ==
    \/ \E p \in Procs, i \in Inodes, off \in 0..MAXFILE, n \in 1..MAXWRITE :
          BeginWrite(p, i, off, n)
    \/ \E p \in Procs : \/ BmapAlloc(p) \/ BmapFull(p) \/ WriteBlock(p)
                        \/ CopyFails(p) \/ EndWrite(p)
    \/ \E i \in Inodes, n \in 0..(MAXFILE - 1) : Read(i, n)
    \/ \E p \in Procs, i \in Inodes : BeginTrunc(p, i)
    \/ \E p \in Procs : \/ TruncDirect(p) \/ TruncIndirect(p)
                        \/ TruncIndirectBlock(p) \/ TruncDouble(p)
                        \/ TruncDoubleNext(p) \/ TruncInnerBlock(p)
                        \/ TruncDoubleBlock(p) \/ EndTrunc(p)
    \/ Crash

Spec == Init /\ [][Next]_vars

-----------------------------------------------------------------------------
(* Properties.                                                             *)

TruncSteps == {"direct", "indirect", "indirect block", "double", "inner block", "done"}

\* Block numbers stay on the disk, sizes within MAXFILE.
TypeOK ==
    /\ bitmap \subseteq Blocks
    /\ ptr \in [Blocks -> [Entries -> Addr]]
    /\ addrs \in [Inodes -> [Slots -> Addr]]
    /\ size \in [Inodes -> 0..MAXFILE]
    /\ daddrs \in [Inodes -> [Slots -> Addr]]
    /\ dsize \in [Inodes -> 0..MAXFILE]
    /\ disk.bitmap \subseteq Blocks
    /\ pc \in [Procs -> {"idle", "bmap", "iupdate"} \cup TruncSteps]
    /\ ino \in [Procs -> Inodes]
    /\ bn \in [Procs -> Nat] /\ stop \in [Procs -> 0..MAXFILE]
    /\ panic \in BOOLEAN

\* The slots of a file with addresses a and blocks c that hold a block number,
\* each as <<index block or 0, position>>.
Used(b, f) == {<<b, k>> : k \in {j \in DOMAIN f : f[j] # 0}}
Index(c, b) == IF b = 0 THEN {} ELSE Used(b, c[b])
Refs(a, c) ==
    LET dbl == a[NDIRECT + 1]
    IN  Used(0, a) \cup Index(c, a[NDIRECT]) \cup Index(c, dbl)
        \cup UNION {Index(c, c[dbl][s[2]]) : s \in Index(c, dbl)}
Target(a, c, s) == IF s[1] = 0 THEN a[s[2]] ELSE c[s[1]][s[2]]

\* The files of the set I share no block, within a file or with each other.
NoSharing(I, a, c) ==
    \A i, j \in I : \A s \in Refs(a[i], c), t \in Refs(a[j], c) :
        Target(a[i], c, s) = Target(a[j], c, t) => i = j /\ s = t
AllTargets(I, a, c) ==
    UNION {{Target(a[i], c, s) : s \in Refs(a[i], c)} : i \in I}

Truncating(i) == \E p \in Procs : pc[p] \in TruncSteps /\ ino[p] = i
Whole == {i \in Inodes : ~Truncating(i)}

\* While allocations and truncations of several processes interleave, a block
\* belongs to one place of one file, and is marked in use.
BlocksOwnedOnce ==
    /\ NoSharing(Whole, addrs, ptr)
    /\ AllTargets(Whole, addrs, ptr) \subseteq bitmap

\* Whatever the crash interrupts, the disk has every block in exactly one
\* place of one file or on the free list: nothing shared and nothing leaked,
\* after allocations that failed half-way too.
CrashConsistent ==
    /\ NoSharing(Inodes, disk.addrs, disk.ptr)
    /\ AllTargets(Inodes, disk.addrs, disk.ptr) = disk.bitmap

\* bfree is not called on a free block, and a read does not allocate.
NoPanic == ~panic

\* A file has a block for each of its size, in memory and on disk.
NoHoles ==
    /\ \A i \in Inodes : ~Locked(i) => \A n \in 0..(size[i] - 1) : Lookup(i, n) # 0
    /\ \A i \in Inodes : ~Locked(i) => addrs[i] = daddrs[i] /\ size[i] = dsize[i]

=============================================================================
