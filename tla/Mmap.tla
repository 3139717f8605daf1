-------------------------------- MODULE Mmap --------------------------------
(***************************************************************************)
(* Memory-mapped files in HW3/source: the VMA table of every process       *)
(* (proc.h), mmap and munmap (sysfile.c), the page fault that fills a page *)
(* (trap.c), and what fork, exit, wait and exec do with the table          *)
(* (proc.c).  Around it: the open files and their reference counts, the    *)
(* page tables of the mapped region and the physical pages.                *)
(*                                                                         *)
(* Addresses are counted in pages.  The region ends at TOP, which is       *)
(* MAXVA - 2*PGSIZE in the code.  A process has its VMAs, its descriptors  *)
(* and its page table for itself; reference counts change under            *)
(* ftable.lock and a file is read and written under its inode's lock, so a *)
(* system call is one step.                                                *)
(***************************************************************************)
EXTENDS Integers, FiniteSets, FiniteSetsExt

CONSTANTS
    Procs, initproc,   \* the process table; initproc never exits
    NOFILE, VMASIZE,   \* descriptors and VMAs per process
    Files,             \* the slots of ftable
    NFRAMES,           \* physical pages, the last ones below PHYSTOP
    TOP,               \* pages in the region (bound: mmap does not go below 0)
    MaxLen,            \* bound: the longest mapping, in pages
    MaxFile,           \* bound: file sizes and offsets, in pages
    Modes, Prots, Flags,  \* the arguments tried: see the sets below
    Offsets,           \* TRUE: a page may be touched first past its first byte
    None               \* no file, no page

AllModes == {"O_RDONLY", "O_WRONLY", "O_RDWR"}
AllProts == {"READ", "READ|WRITE"}
AllFlags == {"MAP_SHARED", "MAP_PRIVATE"}

\* The PTEs and contents of pages: shifted when the page was not filled from
\* the file offset of its first byte, dirty when the program has stored to it.
Pte == [frame : 1..(NFRAMES + 1), perm : AllProts, shifted : BOOLEAN, dirty : BOOLEAN]

ASSUME MmapAssumption ==
    /\ initproc \in Procs /\ IsFiniteSet(Procs)
    /\ NOFILE \in Nat /\ VMASIZE \in Nat /\ TOP \in Nat /\ MaxLen \in Nat
    /\ MaxFile \in Nat /\ NFRAMES \in Nat
    /\ None \notin Files \cup Pte
    /\ Offsets \subseteq BOOLEAN
    /\ Modes \subseteq AllModes /\ Prots \subseteq AllProts /\ Flags \subseteq AllFlags

Fds == 0..(NOFILE - 1)
Slots == 0..(VMASIZE - 1)
Pages == 0..(TOP - 1)
Frames == 1..NFRAMES

VARIABLES
    state,      \* p->state: UNUSED, RUNNING (alive), ZOMBIE
    ofile,      \* p->ofile
    vma,        \* p->vma
    pagetable,  \* the present PTEs of p in the region, and what their page holds
    ref,        \* f->ref
    mode,       \* f->readable, f->writable
    size,       \* the size of the file's inode, in pages
    saved,      \* the pages of the file that hold data written through a mapping
    free,       \* the free list of kalloc
    panic       \* the kernel's last words, "no" while it runs

vars == <<state, ofile, vma, pagetable, ref, mode, size, saved, free, panic>>

\* A free entry: the other fields of a VMA are not read while used is 0.
NoVma == [used |-> 0, addr |-> 0, length |-> 0, prot |-> "READ",
          flags |-> "MAP_PRIVATE", file |-> None, offset |-> 0]

\* The tables after boot.
BootState == [p \in Procs |-> IF p = initproc THEN "RUNNING" ELSE "UNUSED"]
NoFds   == [p \in Procs |-> [d \in Fds |-> None]]
NoVmas  == [p \in Procs |-> [i \in Slots |-> NoVma]]
NoPages == [p \in Procs |-> [a \in Pages |-> None]]

Init ==
    /\ state = BootState /\ ofile = NoFds /\ vma = NoVmas /\ pagetable = NoPages
    /\ ref = [f \in Files |-> 0] /\ mode = [f \in Files |-> "O_RDONLY"]
    /\ size = [f \in Files |-> 0] /\ saved = [f \in Files |-> {}]
    /\ free = Frames
    /\ panic = "no"

-----------------------------------------------------------------------------
Alive(p) == panic = "no" /\ state[p] = "RUNNING"
readable(f) == mode[f] \in {"O_RDONLY", "O_RDWR"}
writable(f) == mode[f] \in {"O_WRONLY", "O_RDWR"}

\* panic() stops the machine: what the tables held is gone.  A page that is
\* freed twice breaks the free list: the model stops there too.
Panics(why) ==
    /\ panic' = why
    /\ state' = BootState /\ ofile' = NoFds /\ vma' = NoVmas /\ pagetable' = NoPages
    /\ ref' = [f \in Files |-> 0] /\ mode' = [f \in Files |-> "O_RDONLY"]
    /\ size' = [f \in Files |-> 0] /\ saved' = [f \in Files |-> {}]
    /\ free' = Frames

end(v) == v.addr + v.length
Covers(v, a) == v.used = 1 /\ v.addr <= a /\ a < end(v)

\* The first entry that holds page a: the loop at the head of sys_munmap and
\* of the page fault.
Matching(p, a) == {i \in Slots : Covers(vma[p][i], a)}
Mapped(p) == {a \in Pages : pagetable[p][a] # None}

\* The frames of a set of p's pages.  kfree panics beyond PHYSTOP.
FramesOf(p, S) == {pagetable[p][a].frame : a \in S}
BadFree(p, S) ==
    \/ ~(FramesOf(p, S) \subseteq Frames \ free)
    \/ \E a, b \in S : a # b /\ pagetable[p][a].frame = pagetable[p][b].frame

\* What process p holds of file f.
FdRefs(p, f) == {d \in Fds : ofile[p][d] = f}
VmaRefs(p, f) == {i \in Slots : vma[p][i].used = 1 /\ vma[p][i].file = f}
Held(p, f) == Cardinality(FdRefs(p, f)) + Cardinality(VmaRefs(p, f))

-----------------------------------------------------------------------------
(* Descriptors.                                                            *)

FreeFds(p) == {d \in Fds : ofile[p][d] = None}

\* sys_open: filealloc and fdalloc; the file may have any size.  The calls
\* that fail leave everything as it was.
Open(p, m, n) ==
    /\ Alive(p)
    /\ FreeFds(p) # {}
    /\ \E f \in Files :
        /\ ref[f] = 0
        /\ ref' = [ref EXCEPT ![f] = 1]
        /\ mode' = [mode EXCEPT ![f] = m]
        /\ size' = [size EXCEPT ![f] = n]
        /\ saved' = [saved EXCEPT ![f] = {}]
        /\ ofile' = [ofile EXCEPT ![p][Min(FreeFds(p))] = f]
    /\ UNCHANGED <<state, vma, pagetable, free, panic>>

\* Mutant: dup without filedup.
DupWithoutRef(p, d) ==
    /\ Alive(p)
    /\ ofile[p][d] # None
    /\ FreeFds(p) # {}
    /\ ofile' = [ofile EXCEPT ![p][Min(FreeFds(p))] = ofile[p][d]]
    /\ UNCHANGED <<state, vma, pagetable, ref, mode, size, saved, free, panic>>

Dup(p, d) ==
    /\ Alive(p)
    /\ ofile[p][d] # None
    /\ FreeFds(p) # {}
    /\ ref' = [ref EXCEPT ![ofile[p][d]] = @ + 1]
    /\ ofile' = [ofile EXCEPT ![p][Min(FreeFds(p))] = ofile[p][d]]
    /\ UNCHANGED <<state, vma, pagetable, mode, size, saved, free, panic>>

Close(p, d) ==
    /\ Alive(p)
    /\ ofile[p][d] # None
    /\ IF ref[ofile[p][d]] < 1 THEN Panics("fileclose")
       ELSE /\ ref' = [ref EXCEPT ![ofile[p][d]] = @ - 1]
            /\ ofile' = [ofile EXCEPT ![p][d] = None]
            /\ UNCHANGED <<state, vma, pagetable, mode, size, saved, free, panic>>

-----------------------------------------------------------------------------
(* mmap.                                                                   *)

FreeSlots(p) == {i \in Slots : vma[p][i].used = 0}

\* The loop that looks for a free entry: it goes over the used ones before the
\* first free one, each time moving below an entry and once more by its length.
AssignedAddr(p) ==
    LET below[n \in 0..VMASIZE] ==
          IF n = 0 THEN TOP
          ELSE LET v == vma[p][n - 1]
               IN  IF v.addr < below[n - 1] THEN v.addr - v.length ELSE below[n - 1]
    IN  below[Min(FreeSlots(p))]

\* The checks of the protection against the way the file was opened; READ is
\* part of every protection tried.
MayMap(f, prot, flags) ==
    /\ readable(f)
    /\ prot = "READ|WRITE" /\ flags = "MAP_SHARED" => writable(f)

\* The result of argfd is not looked at: with a bad descriptor f is not
\* initialised, and is any file or none at all.
ArgFile(p, d) == IF ofile[p][d] # None THEN {ofile[p][d]} ELSE Files \cup {None}

Mmap(p, len, prot, flags, d, off) ==
    /\ Alive(p)
    /\ \E f \in ArgFile(p, d) :
        \/ f = None /\ Panics("kerneltrap")
        \/ f # None /\ MayMap(f, prot, flags) /\ FreeSlots(p) = {}
           /\ Panics("syscall mmap")
        \/ f # None /\ MayMap(f, prot, flags) /\ FreeSlots(p) # {}
           /\ ref[f] < 1 /\ Panics("filedup")
        \/ /\ f # None /\ MayMap(f, prot, flags) /\ FreeSlots(p) # {}
           /\ ref[f] >= 1
           /\ AssignedAddr(p) - len >= 0
           /\ vma' = [vma EXCEPT ![p][Min(FreeSlots(p))] =
                 [used |-> 1, addr |-> AssignedAddr(p) - len, length |-> len,
                  prot |-> prot, flags |-> flags, file |-> f, offset |-> off]]
           /\ ref' = [ref EXCEPT ![f] = @ + 1]
           /\ UNCHANGED <<state, ofile, pagetable, mode, size, saved, free, panic>>

-----------------------------------------------------------------------------
(* munmap of the pages start <= a < stop, called with an address on start.  *)

FilePage(v, a) == v.offset + (a - v.addr)
InRange(p, start, stop) == {a \in Mapped(p) : start <= a /\ a < stop}

\* The write-back loop, in the order of the pages: writei fails beyond the end
\* of the file and extends it at its end.
WriteBack(p, v, start, stop) ==
    LET after[a \in start..stop] ==   \* the size after page a - 1; -1: failed
          IF a = start THEN size[v.file]
          ELSE IF after[a - 1] = -1 THEN -1
          ELSE IF pagetable[p][a - 1] = None THEN after[a - 1]
          ELSE IF FilePage(v, a - 1) > after[a - 1] THEN -1
          ELSE IF FilePage(v, a - 1) = after[a - 1] THEN after[a - 1] + 1
          ELSE after[a - 1]
    IN  [a \in start..stop |-> after[a]]

NeedsWriteBack(v) == v.flags = "MAP_SHARED" /\ v.prot = "READ|WRITE"

\* uvmunmap: clears the PTEs, and frees their pages if do_free.
FreesPages(v) == v.flags # "MAP_SHARED"

\* Mutant: a munmap from the start of a VMA removes all of it.
WholeFromStart(v, start, stop) == start = v.addr

\* The call covers the whole VMA.
Whole(v, start, stop) == start = v.addr /\ stop = end(v)

\* Mutant: the result of writei is not looked at.
WriteErrorIgnored(v, wb, stop) == FALSE

\* A write failed: munmap returns -1 at once.
WriteFailed(v, wb, stop) == NeedsWriteBack(v) /\ wb[stop] = -1

Munmap(p, start, stop) ==
    /\ Alive(p)
    /\ Matching(p, start) # {}
    /\ LET i == Min(Matching(p, start))
           v == vma[p][i]
           gone == InRange(p, start, stop)
           wb == WriteBack(p, v, start, stop)
           failed == WriteFailed(v, wb, stop)
           done == {a \in gone : ~NeedsWriteBack(v) \/ wb[a + 1] # -1}
           freed == IF FreesPages(v) /\ ~failed THEN gone ELSE {}
           closes == Whole(v, start, stop) /\ ~failed
       IN  IF BadFree(p, freed) THEN Panics("kfree")
           ELSE IF closes /\ ref[v.file] < 1 THEN Panics("fileclose")
           ELSE /\ IF NeedsWriteBack(v)
                   THEN /\ size' = [size EXCEPT ![v.file] =
                                      Max({wb[a] : a \in start..stop})]
                        /\ saved' = [saved EXCEPT ![v.file] = @ \cup
                               {FilePage(v, a) : a \in
                                   {b \in done : pagetable[p][b].dirty}}]
                   ELSE UNCHANGED <<size, saved>>
                /\ pagetable' = [pagetable EXCEPT ![p] =
                       [a \in Pages |-> IF a \in gone /\ ~failed THEN None ELSE @[a]]]
                /\ free' = free \cup FramesOf(p, freed)
                /\ IF closes
                   THEN /\ vma' = [vma EXCEPT ![p][i] = NoVma]
                        /\ ref' = [ref EXCEPT ![v.file] = @ - 1]
                   ELSE UNCHANGED <<vma, ref>>
                /\ UNCHANGED <<state, ofile, mode, panic>>

-----------------------------------------------------------------------------
(* A load or a store of the program on page a; odd says that the address is *)
(* not the page's first byte.                                               *)

Permitted(pte, write) == write => pte.perm = "READ|WRITE"

Store(p, a) ==
    /\ Alive(p)
    /\ pagetable[p][a] # None
    /\ Permitted(pagetable[p][a], TRUE)
    /\ pagetable' = [pagetable EXCEPT ![p][a].dirty = TRUE]
    /\ UNCHANGED <<state, ofile, vma, ref, mode, size, saved, free, panic>>

\* exit: close the descriptors, unmap and close the VMAs in order, become a
\* zombie.  Modified pages are not written back.
ExitProc(p) ==
    LET unmapped == {a \in Mapped(p) : Matching(p, a) # {}}
        freed == {a \in unmapped : FreesPages(vma[p][Min(Matching(p, a))])}
    IN  IF \E f \in Files : ref[f] < Held(p, f) THEN Panics("fileclose")
        ELSE IF BadFree(p, freed) THEN Panics("kfree")
        ELSE /\ state' = [state EXCEPT ![p] = "ZOMBIE"]
             /\ ofile' = [ofile EXCEPT ![p] = [d \in Fds |-> None]]
             /\ vma' = [vma EXCEPT ![p] = [i \in Slots |-> NoVma]]
             /\ pagetable' = [pagetable EXCEPT ![p] =
                    [a \in Pages |-> IF a \in unmapped THEN None ELSE @[a]]]
             /\ free' = free \cup FramesOf(p, freed)
             /\ ref' = [f \in Files |-> ref[f] - Held(p, f)]
             /\ UNCHANGED <<mode, size, saved, panic>>

\* mappages (external) maps every page that the PGSIZE bytes from the faulting
\* address touch: past the first byte of page a that is the next page too, with
\* the physical page behind the one that was allocated.  The page after the
\* region is the trap frame.
FaultPages(a, odd) == IF odd THEN {a, a + 1} ELSE {a}
Remaps(p, a, odd) ==
    \E b \in FaultPages(a, odd) : b \notin Pages \/ b \in Mapped(p)

\* scause 13 and 15: the access has no usable PTE.
PageFault(p, a, odd, write) ==
    /\ Alive(p)
    /\ pagetable[p][a] # None => ~Permitted(pagetable[p][a], write)
    /\ IF Matching(p, a) = {}
       THEN Panics("page fault trap: no matching VMA")
       ELSE IF free = {}
       THEN IF p = initproc THEN Panics("init exiting")
            ELSE ExitProc(p)    \* killed: exit(-1) at the end of usertrap
       ELSE IF Remaps(p, a, odd)
       THEN Panics("mappages: remap")
       ELSE LET v == vma[p][Min(Matching(p, a))] IN
            /\ \E fr \in free :
                 /\ free' = free \ {fr}
                 /\ pagetable' = [pagetable EXCEPT ![p] =
                        [b \in Pages |->
                           IF b \in FaultPages(a, odd)
                           THEN [frame |-> fr + (b - a), perm |-> v.prot,
                                 shifted |-> odd, dirty |-> FALSE]
                           ELSE @[b]]]
            /\ UNCHANGED <<state, ofile, vma, ref, mode, size, saved, panic>>

-----------------------------------------------------------------------------
(* fork, exit, wait, exec.                                                 *)

\* Mutant: the child shares the physical pages of the mappings.
ForkSharesPages(p, np) ==
    /\ Alive(p)
    /\ state[np] = "UNUSED"
    /\ state' = [state EXCEPT ![np] = "RUNNING"]
    /\ ofile' = [ofile EXCEPT ![np] = ofile[p]]
    /\ vma' = [vma EXCEPT ![np] = vma[p]]
    /\ pagetable' = [pagetable EXCEPT ![np] = pagetable[p]]
    /\ ref' = [f \in Files |-> ref[f] + Held(p, f)]
    /\ UNCHANGED <<mode, size, saved, free, panic>>

\* uvmcopy stops at p->sz, below the region: the child starts without pages.
Fork(p, np) ==
    /\ Alive(p)
    /\ state[np] = "UNUSED"
    /\ state' = [state EXCEPT ![np] = "RUNNING"]
    /\ ofile' = [ofile EXCEPT ![np] =
           [d \in Fds |-> IF ofile[p][d] # None THEN ofile[p][d] ELSE @[d]]]
    /\ vma' = [vma EXCEPT ![np] =
           [i \in Slots |-> IF vma[p][i].used = 1 THEN vma[p][i] ELSE @[i]]]
    /\ ref' = [f \in Files |-> ref[f] + Held(p, f)]
    /\ UNCHANGED <<pagetable, mode, size, saved, free, panic>>

\* Mutant: the process ends with its files and mappings.
ExitReleasesNothing(p) ==
    /\ Alive(p)
    /\ p # initproc
    /\ state' = [state EXCEPT ![p] = "ZOMBIE"]
    /\ UNCHANGED <<ofile, vma, pagetable, ref, mode, size, saved, free, panic>>

Exit(p) ==
    /\ Alive(p)
    /\ p # initproc
    /\ ExitProc(p)

\* freeproc, from wait: freewalk insists that every leaf PTE is gone.  The VMA
\* table and the descriptors are not cleared here.
Freeproc(p) ==
    /\ panic = "no"
    /\ state[p] = "ZOMBIE"
    /\ IF Mapped(p) # {} THEN Panics("freewalk: leaf")
       ELSE /\ state' = [state EXCEPT ![p] = "UNUSED"]
            /\ UNCHANGED <<ofile, vma, pagetable, ref, mode, size, saved, free, panic>>

\* exec installs a new page table and frees the old one, with the same
\* condition; the VMA table stays as it is.
Exec(p) ==
    /\ Alive(p)
    /\ Mapped(p) # {}
    /\ Panics("exec: freewalk: leaf")

Halted == panic # "no" /\ UNCHANGED vars

MunmapStep(p, start, stop) == start <= stop /\ Munmap(p, start, stop)

OtherStep ==
    \/ \E p \in Procs, m \in Modes, n \in 0..MaxFile : Open(p, m, n)
    \/ \E p \in Procs, d \in Fds : Dup(p, d)
    \/ \E p \in Procs, d \in Fds : Close(p, d)
    \/ \E p \in Procs, len \in 1..MaxLen, prot \in Prots, flags \in Flags,
          d \in Fds, off \in 0..MaxFile : Mmap(p, len, prot, flags, d, off)
    \/ \E p \in Procs, a \in Pages : Store(p, a)
    \/ \E p \in Procs, a \in Pages, odd \in Offsets, write \in BOOLEAN :
          PageFault(p, a, odd, write)
    \/ \E p, np \in Procs : Fork(p, np)
    \/ \E p \in Procs : Exit(p)
    \/ \E p \in Procs : Freeproc(p)
    \/ \E p \in Procs : Exec(p)
    \/ Halted

Next ==
    \/ OtherStep
    \/ \E p \in Procs, start \in Pages, stop \in 0..TOP : MunmapStep(p, start, stop)

Spec == Init /\ [][Next]_vars

-----------------------------------------------------------------------------
(* Properties.                                                             *)

Vma == [used : {1}, addr : 0..TOP, length : 1..MaxLen, prot : AllProts,
        flags : AllFlags, file : Files, offset : 0..MaxFile]

\* The tables have their types; a VMA lies inside the region.
TypeOK ==
    /\ state \in [Procs -> {"UNUSED", "RUNNING", "ZOMBIE"}]
    /\ ofile \in [Procs -> [Fds -> Files \cup {None}]]
    /\ vma \in [Procs -> [Slots -> Vma \cup {NoVma}]]
    /\ \A p \in Procs, i \in Slots : end(vma[p][i]) <= TOP
    /\ pagetable \in [Procs -> [Pages -> Pte \cup {None}]]
    /\ ref \in [Files -> Nat]
    /\ mode \in [Files -> AllModes]
    /\ size \in [Files -> Nat]
    /\ saved \in [Files -> SUBSET Nat]
    /\ free \subseteq Frames

FdHolders(f)  == {x \in Procs \X Fds : ofile[x[1]][x[2]] = f}
VmaHolders(f) == {x \in Procs \X Slots : /\ vma[x[1]][x[2]].used = 1
                                         /\ vma[x[1]][x[2]].file = f}

\* f->ref is the number of descriptors and of VMAs, of all processes, that
\* name f: no file is closed under a mapping and none stays open for ever.
FileRefs ==
    panic = "no" =>
        \A f \in Files :
            ref[f] = Cardinality(FdHolders(f)) + Cardinality(VmaHolders(f))

\* Every present PTE of the region belongs to a VMA of the process: a page is
\* never left behind when its VMA goes, so freewalk finds none in wait().
NoStrayPte ==
    \A p \in Procs : \A a \in Mapped(p) : Matching(p, a) # {}

\* A physical page is in one PTE at most, and never on the free list then.
FramesOwned ==
    \A p, q \in Procs : \A a \in Mapped(p), b \in Mapped(q) :
        /\ pagetable[p][a].frame = pagetable[q][b].frame => p = q /\ a = b
        /\ pagetable[p][a].frame \notin free

\* A process that is not alive holds no file, no VMA and no page; fork relies
\* on it, since freeproc and allocproc clear none of them.
DeadHoldsNothing ==
    \A p \in Procs : state[p] # "RUNNING" =>
        /\ \A d \in Fds : ofile[p][d] = None
        /\ \A i \in Slots : vma[p][i].used = 0
        /\ Mapped(p) = {}

\* A munmap that stays within one VMA loses nothing: each page that the call
\* covers is still mapped afterwards, or it was not a modified page of a shared
\* mapping, or it is in the file.
MunmapSaves ==
    [][ pagetable' # pagetable =>
          \A p \in Procs : \A start \in Mapped(p), stop \in Pages, i \in Slots :
            /\ start <= stop
            /\ \A a \in start..stop : Matching(p, a) = {i}
            /\ Munmap(p, start, stop + 1)
            => \A a \in InRange(p, start, stop + 1) :
                  \/ pagetable'[p][a] # None
                  \/ ~pagetable[p][a].dirty
                  \/ ~NeedsWriteBack(vma[p][i])
                  \/ FilePage(vma[p][i], a) \in saved'[vma[p][i].file] ]_vars

-----------------------------------------------------------------------------
(* What the comments say and the code does not do.                         *)

\* proc.h: "Each VMA represents a contiguous region of virtual memory": the
\* regions of a process are apart from each other.
VmasDisjoint ==
    \A p \in Procs : \A a \in Pages : Cardinality(Matching(p, a)) <= 1

\* proc.c: freeproc frees "the data hanging from it, including user pages":
\* a physical page is free or mapped.
NoPageLeak ==
    panic = "no" =>
        Frames = free \cup {pagetable[x[1]][x[2]].frame :
                              x \in {y \in Procs \X Pages : y[2] \in Mapped(y[1])}}

\* trap.c: "allocate a page of physical memory": a fault maps one page.
FaultMapsOnePage ==
    [][ \A p \in Procs :
          \A a, b \in Pages \ Mapped(p) :
              pagetable'[p][a] # None /\ pagetable'[p][b] # None => a = b ]_vars

\* trap.c: "Read 4096 bytes of the relevant file onto that page": the page
\* starts at the file offset that belongs to its first byte.
PagesFilledFromStart ==
    \A p \in Procs : \A a \in Mapped(p) : ~pagetable[p][a].shifted

\* sysfile.c: "If an unmapped page has been modified and the file is mapped
\* MAP_SHARED, write the page back to the file".
UnmappedPagesSaved ==
    [][ \A p \in Procs : \A a \in Mapped(p) :
          LET v == vma[p][Min(Matching(p, a))]
          IN  /\ pagetable'[p][a] = None
              /\ state'[p] = "RUNNING" /\ panic' = "no"
              /\ pagetable[p][a].dirty
              /\ v.flags = "MAP_SHARED"
              => FilePage(v, a) \in saved'[v.file] ]_vars
=============================================================================
