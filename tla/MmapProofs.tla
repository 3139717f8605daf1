----------------------------- MODULE MmapProofs -----------------------------
(***************************************************************************)
(* Proofs about mapped files for tables of any size: the types, the        *)
(* reference counts of files, and who owns which page.                     *)
(***************************************************************************)
EXTENDS Mmap, Counting

\* A process that is not alive holds no file and no VMA.
DeadTables ==
    \A p \in Procs : state[p] # "RUNNING" =>
        (\A d \in Fds : ofile[p][d] = None) /\ (\A i \in Slots : vma[p][i].used = 0)

DeadPages == \A p \in Procs : state[p] # "RUNNING" => Mapped(p) = {}

-----------------------------------------------------------------------------
(* The loops.                                                              *)

\* The first descriptor, entry or VMA of a kind is one of that kind.
LEMMA FirstFd == ASSUME NEW S, S \subseteq Fds, S # {} PROVE Min(S) \in S
  <1>1. S \subseteq Nat
    BY MmapAssumption DEF Fds
  <1> QED
    BY <1>1, MinNat

\* The same for the entries of p->vma.
LEMMA FirstSlot == ASSUME NEW S, S \subseteq Slots, S # {} PROVE Min(S) \in S
  <1>1. S \subseteq Nat
    BY MmapAssumption DEF Slots
  <1> QED
    BY <1>1, MinNat

\* The address that sys_mmap looks for is never above the region.
LEMMA AssignedBelow ==
  ASSUME NEW p \in Procs, FreeSlots(p) # {},
         \A i \in Slots : vma[p][i].addr \in Int /\ vma[p][i].length \in Nat
  PROVE  AssignedAddr(p) \in Int /\ AssignedAddr(p) <= TOP
  <1> DEFINE V == {u \in Int : u <= TOP}
             Turn(n, u) == IF vma[p][n - 1].addr < u THEN vma[p][n - 1].addr - vma[p][n - 1].length
                           ELSE u
             F == [x \in (1..VMASIZE) \X V |-> Turn(x[1], x[2])]
             Body(b) == [n \in 0..VMASIZE |-> IF n = 0 THEN TOP ELSE Turn(n, b[n - 1])]
             below == CHOOSE b : b = Body(b)
  <1>0. VMASIZE \in Nat /\ TOP \in Nat /\ TOP \in V
    BY MmapAssumption
  <1>1. ASSUME NEW n \in 1..VMASIZE, NEW u \in V PROVE Turn(n, u) \in V
    <2>1. n - 1 \in Slots
      BY <1>0 DEF Slots
    <2> QED
      BY <1>0, <2>1
  <1> HIDE DEF Turn, V
  <1>2. F \in [(1..VMASIZE) \X V -> V]
    BY <1>1
  <1>3. \A n \in 1..VMASIZE, u \in V : F[<<n, u>>] = Turn(n, u)
    OBVIOUS
  <1> HIDE DEF F
  <1>4. PICK g \in [0..VMASIZE -> V] : IsLoop(g, TOP, VMASIZE, F)
    BY <1>0, <1>2, LoopFunction
  <1>5. ASSUME NEW n \in 0..VMASIZE PROVE g[n] = IF n = 0 THEN TOP ELSE Turn(n, g[n - 1])
    <2>1. n # 0 => n \in 1..VMASIZE /\ n - 1 \in 0..VMASIZE
      BY <1>0
    <2> QED
      BY <1>3, <1>4, <2>1 DEF IsLoop
  <1>6. g = Body(g)
    BY <1>5
  <1>7. below = Body(below)
    BY <1>6
  <1> HIDE DEF below
  <1>8. \A n \in 0..VMASIZE : below[n] = IF n = 0 THEN TOP ELSE Turn(n, below[n - 1])
    BY <1>7
  <1>9. 0..VMASIZE \subseteq {n \in 0..VMASIZE : below[n] \in V}
    <2>1. 0 \in {n \in 0..VMASIZE : below[n] \in V}
      BY <1>0, <1>8
    <2>2. ASSUME NEW n \in 0..(VMASIZE - 1), below[n] \in V
          PROVE  n + 1 \in 0..VMASIZE /\ below[n + 1] \in V
      <3>1. n + 1 \in 1..VMASIZE /\ n + 1 \in 0..VMASIZE /\ n + 1 # 0 /\ (n + 1) - 1 = n
        BY <1>0
      <3>2. below[n + 1] = Turn(n + 1, below[n])
        BY <1>8, <3>1
      <3> QED
        BY <1>1, <2>2, <3>1, <3>2
    <2> QED
      BY <1>0, <2>1, <2>2, LoopInduction
  <1>10. Min(FreeSlots(p)) \in 0..VMASIZE
    <2>1. Min(FreeSlots(p)) \in Slots
      BY FirstSlot DEF FreeSlots
    <2> QED
      BY <1>0, <2>1 DEF Slots
  <1>11. AssignedAddr(p) = below[Min(FreeSlots(p))]
    BY DEF AssignedAddr, below, Turn
  <1> QED
    BY <1>9, <1>10, <1>11 DEF V

\* One turn of the write-back loop of munmap, for page a - 1.
WriteTurn(p, v, a, u) ==
    IF u = -1 THEN -1
    ELSE IF pagetable[p][a - 1] = None THEN u
    ELSE IF FilePage(v, a - 1) > u THEN -1
    ELSE IF FilePage(v, a - 1) = u THEN u + 1
    ELSE u

\* A turn fails or makes the file one page longer at most, and does nothing after
\* a failure.
LEMMA WriteTurnValue ==
  ASSUME NEW p \in Procs, NEW v, v.offset \in Int, v.addr \in Int, NEW a \in Int, NEW u \in Int
  PROVE  /\ WriteTurn(p, v, a, u) \in Int
         /\ WriteTurn(p, v, a, u) = -1 \/ WriteTurn(p, v, a, u) <= u + 1
         /\ u = -1 => WriteTurn(p, v, a, u) = -1
  <1>1. FilePage(v, a - 1) \in Int
    BY DEF FilePage
  <1> QED
    BY <1>1 DEF WriteTurn

\* The loop of munmap that writes pages back starts with the size of the file and
\* takes one turn for each page.
LEMMA WriteBackLoop ==
  ASSUME NEW p \in Procs, NEW v, NEW start \in Pages, NEW stop \in Nat, start <= stop,
         size[v.file] \in Nat, v.offset \in Int, v.addr \in Int
  PROVE  \A a \in start..stop :
            WriteBack(p, v, start, stop)[a] =
               IF a = start THEN size[v.file]
               ELSE WriteTurn(p, v, a, WriteBack(p, v, start, stop)[a - 1])
  <1> DEFINE N == stop - start
             Turn(a, u) == WriteTurn(p, v, a, u)
             F == [x \in (1..N) \X Int |-> Turn(start + x[1], x[2])]
             Body(b) == [a \in start..stop |-> IF a = start THEN size[v.file] ELSE Turn(a, b[a - 1])]
             after == CHOOSE b : b = Body(b)
  <1>0. N \in Nat /\ start \in Nat /\ size[v.file] \in Int /\ start + N = stop
    BY MmapAssumption DEF Pages
  <1>1. ASSUME NEW a \in Int, NEW u \in Int PROVE Turn(a, u) \in Int
    BY WriteTurnValue
  <1> HIDE DEF Turn
  <1>2. F \in [(1..N) \X Int -> Int]
    <2>1. \A x \in (1..N) \X Int : start + x[1] \in Int /\ x[2] \in Int
      BY <1>0
    <2> QED
      BY <1>1, <2>1
  <1>3. \A n \in 1..N, u \in Int : F[<<n, u>>] = Turn(start + n, u)
    OBVIOUS
  <1> HIDE DEF F, N
  <1>4. PICK g \in [0..N -> Int] : IsLoop(g, size[v.file], N, F)
    BY <1>0, <1>2, LoopFunction
  <1> DEFINE h == [a \in start..stop |-> g[a - start]]
  <1>5. ASSUME NEW a \in start..stop
        PROVE  h[a] = IF a = start THEN size[v.file] ELSE Turn(a, h[a - 1])
    <2>1. a - start \in 0..N /\ start + (a - start) = a /\ (a - start = 0 <=> a = start)
      BY <1>0
    <2>2. a # start => /\ a - start \in 1..N /\ (a - start) - 1 \in 0..N
                       /\ (a - 1) - start = (a - start) - 1 /\ a - 1 \in start..stop
      BY <1>0
    <2>3. a # start => h[a - 1] = g[(a - start) - 1]
      BY <2>2
    <2> QED
      BY <1>3, <1>4, <2>1, <2>2, <2>3 DEF IsLoop
  <1>6. h = Body(h)
    BY <1>5
  <1> HIDE DEF h
  <1>7. after = Body(after)
    BY <1>6
  <1> HIDE DEF after
  <1>8. \A a \in start..stop : after[a] = IF a = start THEN size[v.file] ELSE Turn(a, after[a - 1])
    BY <1>7
  <1>9. WriteBack(p, v, start, stop) = [a \in start..stop |-> after[a]]
    BY DEF WriteBack, after, Turn, WriteTurn
  <1>10. \A a \in start..stop : a # start => a - 1 \in start..stop
    BY <1>0
  <1> QED
    BY <1>8, <1>9, <1>10 DEF Turn

\* No turn extends the file by more than a page.
LEMMA WriteBackValues ==
  ASSUME NEW p \in Procs, NEW v, NEW start \in Pages, NEW stop \in Nat, start <= stop,
         size[v.file] \in Nat, v.offset \in Int, v.addr \in Int
  PROVE  /\ WriteBack(p, v, start, stop)[start] = size[v.file]
         /\ \A a \in start..stop : /\ WriteBack(p, v, start, stop)[a] \in Int
                                   /\ WriteBack(p, v, start, stop)[a] <= size[v.file] + (a - start)
  <1> DEFINE N == stop - start
             after == WriteBack(p, v, start, stop)
             Turn(a, u) == WriteTurn(p, v, a, u)
  <1>0. N \in Nat /\ start \in Nat /\ size[v.file] \in Int /\ start + N = stop
    BY MmapAssumption DEF Pages
  <1>1. ASSUME NEW a \in Int, NEW u \in Int
        PROVE  Turn(a, u) \in Int /\ (Turn(a, u) = -1 \/ Turn(a, u) <= u + 1)
    BY WriteTurnValue
  <1>8. \A a \in start..stop : after[a] = IF a = start THEN size[v.file] ELSE Turn(a, after[a - 1])
    BY WriteBackLoop
  <1> HIDE DEF N, after, Turn
  <1> DEFINE S == {n \in 0..N : after[start + n] \in Int /\ after[start + n] <= size[v.file] + n}
  <1>9. 0..N \subseteq S
    <2>1. 0 \in S
      BY <1>0, <1>8
    <2>2. ASSUME NEW n \in 0..(N - 1), n \in S PROVE n + 1 \in S
      <3>1. /\ start + (n + 1) \in start..stop /\ start + (n + 1) # start
            /\ (start + (n + 1)) - 1 = start + n /\ n + 1 \in 0..N
        BY <1>0
      <3>2. after[start + (n + 1)] = Turn(start + (n + 1), after[start + n])
        BY <1>8, <3>1
      <3>3. after[start + n] \in Int /\ after[start + n] <= size[v.file] + n
        BY <2>2
      <3>4. start + (n + 1) \in Int
        BY <1>0
      <3>5. after[start + (n + 1)] \in Int /\ after[start + (n + 1)] <= size[v.file] + (n + 1)
        <4>1. \/ after[start + (n + 1)] = -1
              \/ after[start + (n + 1)] <= after[start + n] + 1
          BY <1>1, <3>2, <3>3, <3>4
        <4>2. after[start + (n + 1)] \in Int
          BY <1>1, <3>2, <3>3, <3>4
        <4>3. n \in Nat
          BY <1>0
        <4>4. \A x \in Int, y \in Int, s \in Nat, m \in Nat :
                 (x = -1 \/ x <= y + 1) /\ y <= s + m => x <= s + (m + 1)
          OBVIOUS
        <4> QED
          BY <3>3, <4>1, <4>2, <4>3, <4>4
      <3> QED
        BY <3>1, <3>5
    <2> HIDE DEF S
    <2> QED
      BY <1>0, <2>1, <2>2, LoopInduction
  <1>11. ASSUME NEW a \in start..stop
         PROVE  after[a] \in Int /\ after[a] <= size[v.file] + (a - start)
    <2>1. a - start \in 0..N /\ start + (a - start) = a
      BY <1>0
    <2> QED
      BY <1>9, <2>1
  <1>12. start \in start..stop
    BY <1>0
  <1> QED
    BY <1>8, <1>11, <1>12 DEF after

\* Once a write has failed, all later turns fail.
LEMMA WriteBackFails ==
  ASSUME NEW p \in Procs, NEW v, NEW start \in Pages, NEW stop \in Nat, start <= stop,
         size[v.file] \in Nat, v.offset \in Int, v.addr \in Int,
         NEW a \in start..stop, WriteBack(p, v, start, stop)[a] = -1
  PROVE  WriteBack(p, v, start, stop)[stop] = -1
  <1> DEFINE wb == WriteBack(p, v, start, stop)
             N == stop - a
             S == {n \in 0..N : wb[a + n] = -1}
  <1>0. a \in Nat /\ N \in Nat /\ a + 0 = a /\ a + N = stop /\ start \in Nat
    BY MmapAssumption DEF Pages
  <1>1. 0 \in S
    BY <1>0
  <1>2. ASSUME NEW n \in 0..(N - 1), n \in S PROVE n + 1 \in S
    <2>1. /\ a + (n + 1) \in start..stop /\ a + (n + 1) # start
          /\ (a + (n + 1)) - 1 = a + n /\ n + 1 \in 0..N /\ a + (n + 1) \in Int
      BY <1>0
    <2>2. wb[a + (n + 1)] = WriteTurn(p, v, a + (n + 1), wb[a + n])
      BY <2>1, WriteBackLoop
    <2>3. wb[a + n] = -1
      BY <1>2
    <2>4. wb[a + (n + 1)] = -1
      BY <2>2, <2>3 DEF WriteTurn
    <2> QED
      BY <2>1, <2>4
  <1> HIDE DEF S
  <1>3. N \in S
    <2>1. 0..N \subseteq S
      BY <1>0, <1>1, <1>2, LoopInduction
    <2> QED
      BY <1>0, <2>1
  <1> QED
    BY <1>0, <1>3 DEF S

-----------------------------------------------------------------------------
(* What each step does to the descriptors, VMAs, counts and pages.         *)

\* open and dup: a free descriptor names f.
Gets(p, d, f) ==
    /\ state[p] = "RUNNING" /\ ofile[p][d] = None
    /\ ref' = [ref EXCEPT ![f] = @ + 1]
    /\ ofile' = [ofile EXCEPT ![p][d] = f]
    /\ UNCHANGED <<state, vma, pagetable, free, panic>>

\* close.
Drops(p, d, f) ==
    /\ state[p] = "RUNNING" /\ ofile[p][d] = f /\ ref[f] >= 1
    /\ ref' = [ref EXCEPT ![f] = @ - 1]
    /\ ofile' = [ofile EXCEPT ![p][d] = None]
    /\ UNCHANGED <<state, vma, pagetable, free, panic>>

\* mmap: a free entry becomes v.
Maps(p, i, v) ==
    /\ state[p] = "RUNNING" /\ vma[p][i].used = 0 /\ end(v) <= TOP
    /\ ref' = [ref EXCEPT ![v.file] = @ + 1]
    /\ vma' = [vma EXCEPT ![p][i] = v]
    /\ UNCHANGED <<state, ofile, pagetable, free, panic>>

\* The pages in S go, and those in T are freed.
Clears(p, S, T) ==
    /\ S \subseteq Mapped(p) /\ T \subseteq S /\ FramesOf(p, T) \subseteq Frames
    /\ pagetable' = [pagetable EXCEPT ![p] = [a \in Pages |-> IF a \in S THEN None ELSE @[a]]]
    /\ free' = free \cup FramesOf(p, T)

\* munmap of some pages, and of a whole VMA.
Unmaps(p, S, T) ==
    /\ state[p] = "RUNNING" /\ Clears(p, S, T)
    /\ UNCHANGED <<state, ofile, vma, ref, panic>>

Removes(p, i, S, T) ==
    /\ state[p] = "RUNNING" /\ Clears(p, S, T)
    /\ \A a \in Mapped(p) : Covers(vma[p][i], a) => a \in S
    /\ vma[p][i].used = 1 /\ ref[vma[p][i].file] >= 1
    /\ vma' = [vma EXCEPT ![p][i] = NoVma]
    /\ ref' = [ref EXCEPT ![vma[p][i].file] = @ - 1]
    /\ UNCHANGED <<state, ofile, panic>>

\* A page fault: frame fr for page a, and the one behind it for the page after.
Fills(p, a, odd, fr, prot) ==
    /\ state[p] = "RUNNING" /\ Matching(p, a) # {} /\ fr \in free /\ ~Remaps(p, a, odd)
    /\ free' = free \ {fr}
    /\ pagetable' = [pagetable EXCEPT ![p] =
           [b \in Pages |-> IF b \in FaultPages(a, odd)
                            THEN [frame |-> fr + (b - a), perm |-> prot,
                                  shifted |-> odd, dirty |-> FALSE]
                            ELSE @[b]]]
    /\ UNCHANGED <<state, ofile, vma, ref, panic>>

Exits(p, T) ==
    /\ state[p] = "RUNNING"
    /\ Clears(p, {a \in Mapped(p) : Matching(p, a) # {}}, T)
    /\ \A f \in Files : ref[f] >= Held(p, f)
    /\ state' = [state EXCEPT ![p] = "ZOMBIE"]
    /\ ofile' = [ofile EXCEPT ![p] = [d \in Fds |-> None]]
    /\ vma' = [vma EXCEPT ![p] = [i \in Slots |-> NoVma]]
    /\ ref' = [f \in Files |-> ref[f] - Held(p, f)]
    /\ UNCHANGED panic

\* How many descriptors and VMAs of p name f is a number.
LEMMA HeldNat ==
  ASSUME NEW p \in Procs, NEW f
  PROVE  /\ IsFiniteSet(FdRefs(p, f)) /\ IsFiniteSet(VmaRefs(p, f))
         /\ Held(p, f) \in Nat
  <1>1. IsFiniteSet(Fds) /\ IsFiniteSet(Slots)
    BY FS_Interval, MmapAssumption DEF Fds, Slots
  <1>2. IsFiniteSet(FdRefs(p, f)) /\ IsFiniteSet(VmaRefs(p, f))
    BY <1>1, FS_Subset DEF FdRefs, VmaRefs
  <1> QED
    BY <1>2, FS_CardinalityType DEF Held

\* exit, if nothing panics.
LEMMA ExitCases ==
  ASSUME TypeOK, NEW p \in Procs, state[p] = "RUNNING", ExitProc(p)
  PROVE  \/ \E why : why # "no" /\ Panics(why)
         \/ \E T \in SUBSET Pages : Exits(p, T)
  <1> DEFINE unmapped == {a \in Mapped(p) : Matching(p, a) # {}}
             freed == {a \in unmapped : FreesPages(vma[p][Min(Matching(p, a))])}
  <1>1. CASE \E f \in Files : ref[f] < Held(p, f)
    <2>1. Panics("fileclose")
      BY <1>1 DEF ExitProc
    <2> QED
      BY <2>1
  <1>2. CASE ~(\E f \in Files : ref[f] < Held(p, f)) /\ BadFree(p, freed)
    <2>1. Panics("kfree")
      BY <1>2 DEF ExitProc
    <2> QED
      BY <2>1
  <1>3. CASE ~(\E f \in Files : ref[f] < Held(p, f)) /\ ~BadFree(p, freed)
    <2>1. \A f \in Files : ref[f] >= Held(p, f)
      BY <1>3, HeldNat DEF TypeOK
    <2>2. FramesOf(p, freed) \subseteq Frames
      BY <1>3 DEF BadFree
    <2>3. unmapped \subseteq Mapped(p) /\ freed \subseteq unmapped /\ freed \in SUBSET Pages
      BY DEF Mapped
    <2>4. /\ pagetable' = [pagetable EXCEPT ![p] =
                 [a \in Pages |-> IF a \in unmapped THEN None ELSE @[a]]]
          /\ free' = free \cup FramesOf(p, freed)
          /\ state' = [state EXCEPT ![p] = "ZOMBIE"]
          /\ ofile' = [ofile EXCEPT ![p] = [d \in Fds |-> None]]
          /\ vma' = [vma EXCEPT ![p] = [i \in Slots |-> NoVma]]
          /\ ref' = [f \in Files |-> ref[f] - Held(p, f)]
          /\ panic' = panic
      BY <1>3 DEF ExitProc
    <2> HIDE DEF unmapped, freed
    <2>5. Clears(p, unmapped, freed)
      BY <2>2, <2>3, <2>4 DEF Clears
    <2>6. Exits(p, freed)
      BY <2>1, <2>4, <2>5 DEF Exits, unmapped
    <2> QED
      BY <2>3, <2>6
  <1> QED
    BY <1>1, <1>2, <1>3

\* munmap, if nothing panics.
LEMMA MunmapCases ==
  ASSUME TypeOK, NEW p \in Procs, NEW start \in Pages, NEW stop \in 0..TOP, Munmap(p, start, stop)
  PROVE  \/ \E why : why # "no" /\ Panics(why)
         \/ \E S, T \in SUBSET Pages : Unmaps(p, S, T)
         \/ \E i \in Slots, S, T \in SUBSET Pages : Removes(p, i, S, T)
  <1> DEFINE i == Min(Matching(p, start))
             v == vma[p][i]
             gone == InRange(p, start, stop)
             wb == WriteBack(p, v, start, stop)
             failed == WriteFailed(v, wb, stop)
             freed == IF FreesPages(v) /\ ~failed THEN gone ELSE {}
             closes == Whole(v, start, stop) /\ ~failed
             S == IF failed THEN {} ELSE gone
  <1>1. Matching(p, start) # {} /\ state[p] = "RUNNING"
    BY DEF Munmap, Alive
  <1>2. i \in Slots /\ v.used = 1
    <2>1. i \in Matching(p, start)
      BY <1>1, FirstSlot DEF Matching
    <2> QED
      BY <2>1 DEF Matching, Covers
  <1>3. CASE BadFree(p, freed)
    <2>1. Panics("kfree")
      BY <1>3 DEF Munmap
    <2> QED
      BY <2>1
  <1>4. CASE ~BadFree(p, freed) /\ closes /\ ref[v.file] < 1
    <2>1. Panics("fileclose")
      BY <1>4 DEF Munmap
    <2> QED
      BY <2>1
  <1>5. CASE ~BadFree(p, freed) /\ ~(closes /\ ref[v.file] < 1)
    <2>1. /\ pagetable' = [pagetable EXCEPT ![p] =
                 [a \in Pages |-> IF a \in gone /\ ~failed THEN None ELSE @[a]]]
          /\ free' = free \cup FramesOf(p, freed)
          /\ IF closes
             THEN /\ vma' = [vma EXCEPT ![p][i] = NoVma]
                  /\ ref' = [ref EXCEPT ![v.file] = @ - 1]
             ELSE UNCHANGED <<vma, ref>>
          /\ UNCHANGED <<state, ofile, mode, panic>>
      BY <1>5 DEF Munmap
    <2>2. gone \subseteq Mapped(p) /\ gone \subseteq Pages
      BY DEF InRange, Mapped
    <2>3. \A a \in Pages : a \in gone /\ ~failed <=> a \in S
      OBVIOUS
    <2>4. freed \subseteq S /\ S \subseteq Mapped(p) /\ S \in SUBSET Pages /\ freed \in SUBSET Pages
      BY <2>2
    <2>5. FramesOf(p, freed) \subseteq Frames
      BY <1>5 DEF BadFree
    <2>6. Whole(v, start, stop) /\ ~failed => \A a \in Mapped(p) : Covers(v, a) => a \in S
      BY DEF Whole, Covers, InRange
    <2>7. closes => ref[v.file] >= 1
      <3>1. v.file \in Files
        BY <1>2 DEF TypeOK, Vma, NoVma
      <3> QED
        BY <1>5, <3>1 DEF TypeOK
    <2> HIDE DEF gone, failed, freed, S, v, i, wb
    <2>8. Clears(p, S, freed)
      BY <2>1, <2>3, <2>4, <2>5 DEF Clears
    <2>9. CASE closes
      <3>1. Removes(p, i, S, freed)
        BY <1>1, <1>2, <2>1, <2>6, <2>7, <2>8, <2>9 DEF Removes, v
      <3> QED
        BY <1>2, <2>4, <3>1
    <2>10. CASE ~closes
      <3>1. Unmaps(p, S, freed)
        BY <1>1, <2>1, <2>8, <2>10 DEF Unmaps
      <3> QED
        BY <2>4, <3>1
    <2> QED
      BY <2>9, <2>10
  <1> QED
    BY <1>3, <1>4, <1>5

\* Every step is one of these.
LEMMA NextCases ==
  ASSUME TypeOK, [Next]_vars
  PROVE  \/ \E why : why # "no" /\ Panics(why)
         \/ \E p \in Procs, d \in Fds, f \in Files : Gets(p, d, f) \/ Drops(p, d, f)
         \/ \E p \in Procs, i \in Slots, v \in Vma : Maps(p, i, v)
         \/ \E p \in Procs, S, T \in SUBSET Pages : Unmaps(p, S, T)
         \/ \E p \in Procs, i \in Slots, S, T \in SUBSET Pages : Removes(p, i, S, T)
         \/ \E p \in Procs, a \in Pages : Store(p, a)
         \/ \E p \in Procs, a \in Pages, odd \in Offsets, fr \in Frames, prot \in AllProts :
               Fills(p, a, odd, fr, prot)
         \/ \E p \in Procs, T \in SUBSET Pages : Exits(p, T)
         \/ \E p, np \in Procs : Fork(p, np)
         \/ \E p \in Procs : Freeproc(p) /\ state' = [state EXCEPT ![p] = "UNUSED"]
                             /\ UNCHANGED <<ofile, vma, pagetable, ref, free, panic>>
         \/ UNCHANGED vars
  <1>1. ASSUME NEW p \in Procs, NEW m \in Modes, NEW n \in 0..MaxFile, Open(p, m, n)
        PROVE  \E d \in Fds, f \in Files : Gets(p, d, f)
    <2>1. FreeFds(p) # {} /\ state[p] = "RUNNING"
      BY <1>1 DEF Open, Alive
    <2>2. PICK f \in Files : /\ ref[f] = 0 /\ ref' = [ref EXCEPT ![f] = 1]
                             /\ ofile' = [ofile EXCEPT ![p][Min(FreeFds(p))] = f]
                             /\ UNCHANGED <<state, vma, pagetable, free, panic>>
      BY <1>1 DEF Open
    <2>3. PICK d \in Fds : d = Min(FreeFds(p)) /\ ofile[p][d] = None
      BY <2>1, FirstFd DEF FreeFds
    <2>4. [ref EXCEPT ![f] = 1] = [ref EXCEPT ![f] = @ + 1]
      BY <2>2
    <2>5. Gets(p, d, f)
      BY <2>1, <2>2, <2>3, <2>4 DEF Gets
    <2> QED
      BY <2>5
  <1>2. ASSUME NEW p \in Procs, NEW e \in Fds, Dup(p, e)
        PROVE  \E d \in Fds, f \in Files : Gets(p, d, f)
    <2>1. FreeFds(p) # {} /\ state[p] = "RUNNING" /\ ofile[p][e] \in Files
      BY <1>2 DEF Dup, Alive, TypeOK
    <2>2. PICK d \in Fds : d = Min(FreeFds(p)) /\ ofile[p][d] = None
      BY <2>1, FirstFd DEF FreeFds
    <2>3. Gets(p, d, ofile[p][e])
      BY <1>2, <2>1, <2>2 DEF Gets, Dup
    <2> QED
      BY <2>1, <2>3
  <1>3. ASSUME NEW p \in Procs, NEW d \in Fds, Close(p, d)
        PROVE  (\E why : why # "no" /\ Panics(why)) \/ \E f \in Files : Drops(p, d, f)
    <2>1. state[p] = "RUNNING" /\ ofile[p][d] \in Files
      BY <1>3 DEF Close, Alive, TypeOK
    <2>2. CASE ref[ofile[p][d]] < 1
      <3>1. Panics("fileclose")
        BY <1>3, <2>2 DEF Close
      <3> QED
        BY <3>1
    <2>3. CASE ~(ref[ofile[p][d]] < 1)
      <3>1. ref[ofile[p][d]] >= 1
        BY <2>1, <2>3 DEF TypeOK
      <3>2. Drops(p, d, ofile[p][d])
        BY <1>3, <2>1, <2>3, <3>1 DEF Close, Drops
      <3> QED
        BY <2>1, <3>2
    <2> QED
      BY <2>2, <2>3
  <1>4. ASSUME NEW p \in Procs, NEW len \in 1..MaxLen, NEW prot \in Prots, NEW flags \in Flags,
               NEW d \in Fds, NEW off \in 0..MaxFile, Mmap(p, len, prot, flags, d, off)
        PROVE  \/ \E why : why # "no" /\ Panics(why)
               \/ \E i \in Slots, v \in Vma : Maps(p, i, v)
    <2>1. PICK f \in ArgFile(p, d) :
             \/ Panics("kerneltrap") \/ Panics("syscall mmap") \/ Panics("filedup")
             \/ /\ f # None /\ FreeSlots(p) # {}
                /\ AssignedAddr(p) - len >= 0
                /\ vma' = [vma EXCEPT ![p][Min(FreeSlots(p))] =
                     [used |-> 1, addr |-> AssignedAddr(p) - len, length |-> len,
                      prot |-> prot, flags |-> flags, file |-> f, offset |-> off]]
                /\ ref' = [ref EXCEPT ![f] = @ + 1]
                /\ UNCHANGED <<state, ofile, pagetable, mode, size, saved, free, panic>>
      BY <1>4 DEF Mmap
    <2>2. CASE Panics("kerneltrap") \/ Panics("syscall mmap") \/ Panics("filedup")
      BY <2>2
    <2>3. CASE /\ f # None /\ FreeSlots(p) # {}
               /\ AssignedAddr(p) - len >= 0
               /\ vma' = [vma EXCEPT ![p][Min(FreeSlots(p))] =
                    [used |-> 1, addr |-> AssignedAddr(p) - len, length |-> len,
                     prot |-> prot, flags |-> flags, file |-> f, offset |-> off]]
               /\ ref' = [ref EXCEPT ![f] = @ + 1]
               /\ UNCHANGED <<state, ofile, pagetable, mode, size, saved, free, panic>>
      <3> DEFINE v == [used |-> 1, addr |-> AssignedAddr(p) - len, length |-> len,
                       prot |-> prot, flags |-> flags, file |-> f, offset |-> off]
      <3>1. f \in Files
        BY <2>3 DEF ArgFile, TypeOK
      <3>2. \A i \in Slots : vma[p][i].addr \in Int /\ vma[p][i].length \in Nat
        <4>1. ASSUME NEW i \in Slots PROVE vma[p][i].addr \in Int /\ vma[p][i].length \in Nat
          <5>1. vma[p][i] \in Vma \cup {NoVma}
            BY DEF TypeOK
          <5> QED
            BY <5>1, MmapAssumption DEF Vma, NoVma
        <4> QED
          BY <4>1
      <3>3. AssignedAddr(p) \in Int /\ AssignedAddr(p) <= TOP
        BY <2>3, <3>2, AssignedBelow
      <3>4. len \in Nat /\ len \in 1..MaxLen /\ TOP \in Nat
        BY MmapAssumption
      <3>5. AssignedAddr(p) - len \in 0..TOP /\ (AssignedAddr(p) - len) + len <= TOP
        BY <2>3, <3>3, <3>4
      <3>6. v \in Vma
        BY <3>1, <3>5, MmapAssumption DEF Vma
      <3>7. end(v) <= TOP
        BY <3>5 DEF end
      <3>8. PICK i \in Slots : i = Min(FreeSlots(p)) /\ vma[p][i].used = 0
        BY <2>3, FirstSlot DEF FreeSlots
      <3>9. v.file = f /\ state[p] = "RUNNING"
        BY <1>4 DEF Mmap, Alive
      <3> HIDE DEF v
      <3>10. vma' = [vma EXCEPT ![p][i] = v]
        BY <2>3, <3>8 DEF v
      <3>11. Maps(p, i, v)
        BY <2>3, <3>7, <3>8, <3>9, <3>10 DEF Maps
      <3> QED
        BY <3>6, <3>11
    <2> QED
      BY <2>1, <2>2, <2>3
  <1>5. ASSUME NEW p \in Procs, NEW a \in Pages, NEW odd \in Offsets, NEW write \in BOOLEAN,
               PageFault(p, a, odd, write)
        PROVE  \/ \E why : why # "no" /\ Panics(why)
               \/ \E T \in SUBSET Pages : Exits(p, T)
               \/ \E fr \in Frames, prot \in AllProts : Fills(p, a, odd, fr, prot)
    <2>0. state[p] = "RUNNING"
      BY <1>5 DEF PageFault, Alive
    <2>1. CASE Matching(p, a) = {}
      <3>1. Panics("page fault trap: no matching VMA")
        BY <1>5, <2>1 DEF PageFault
      <3> QED
        BY <3>1
    <2>2. CASE Matching(p, a) # {} /\ free = {}
      <3>1. Panics("init exiting") \/ ExitProc(p)
        BY <1>5, <2>2 DEF PageFault
      <3> QED
        BY <2>0, <3>1, ExitCases
    <2>3. CASE Matching(p, a) # {} /\ free # {} /\ Remaps(p, a, odd)
      <3>1. Panics("mappages: remap")
        BY <1>5, <2>3 DEF PageFault
      <3> QED
        BY <3>1
    <2>4. CASE Matching(p, a) # {} /\ free # {} /\ ~Remaps(p, a, odd)
      <3> DEFINE v == vma[p][Min(Matching(p, a))]
      <3>1. PICK fr \in free :
              /\ free' = free \ {fr}
              /\ pagetable' = [pagetable EXCEPT ![p] =
                     [b \in Pages |->
                        IF b \in FaultPages(a, odd)
                        THEN [frame |-> fr + (b - a), perm |-> v.prot,
                              shifted |-> odd, dirty |-> FALSE]
                        ELSE @[b]]]
              /\ UNCHANGED <<state, ofile, vma, ref, mode, size, saved, panic>>
        BY <1>5, <2>4 DEF PageFault
      <3>2. Min(Matching(p, a)) \in Slots
        BY <2>4, FirstSlot DEF Matching
      <3>3. v.prot \in AllProts
        BY <3>2 DEF TypeOK, Vma, NoVma, AllProts
      <3>4. fr \in Frames
        BY DEF TypeOK
      <3>5. Fills(p, a, odd, fr, v.prot)
        BY <2>0, <2>4, <3>1 DEF Fills
      <3> QED
        BY <3>3, <3>4, <3>5
    <2> QED
      BY <2>1, <2>2, <2>3, <2>4
  <1>6. ASSUME NEW p \in Procs, Exit(p)
        PROVE  \/ \E why : why # "no" /\ Panics(why)
               \/ \E T \in SUBSET Pages : Exits(p, T)
    <2>1. state[p] = "RUNNING" /\ ExitProc(p)
      BY <1>6 DEF Exit, Alive
    <2> QED
      BY <2>1, ExitCases
  <1>7. ASSUME NEW p \in Procs, Freeproc(p)
        PROVE  \/ \E why : why # "no" /\ Panics(why)
               \/ Freeproc(p) /\ state' = [state EXCEPT ![p] = "UNUSED"]
                  /\ UNCHANGED <<ofile, vma, pagetable, ref, free, panic>>
    <2>1. \/ Panics("freewalk: leaf")
          \/ /\ state' = [state EXCEPT ![p] = "UNUSED"]
             /\ UNCHANGED <<ofile, vma, pagetable, ref, mode, size, saved, free, panic>>
      BY <1>7 DEF Freeproc
    <2> QED
      BY <1>7, <2>1
  <1>8. ASSUME NEW p \in Procs, Exec(p) PROVE \E why : why # "no" /\ Panics(why)
    <2>1. Panics("exec: freewalk: leaf")
      BY <1>8 DEF Exec
    <2> QED
      BY <2>1
  <1>9. ASSUME NEW p \in Procs, NEW start \in Pages, NEW stop \in 0..TOP,
               MunmapStep(p, start, stop)
        PROVE  \/ \E why : why # "no" /\ Panics(why)
               \/ \E S, T \in SUBSET Pages : Unmaps(p, S, T)
               \/ \E i \in Slots, S, T \in SUBSET Pages : Removes(p, i, S, T)
    BY <1>9, MunmapCases DEF MunmapStep
  <1>10. CASE OtherStep
    BY <1>10, <1>1, <1>2, <1>3, <1>4, <1>5, <1>6, <1>7, <1>8 DEF OtherStep, Halted
  <1> QED
    BY <1>9, <1>10 DEF Next

-----------------------------------------------------------------------------
(* Types.                                                                  *)

Tables ==
    /\ state \in [Procs -> {"UNUSED", "RUNNING", "ZOMBIE"}]
    /\ ofile \in [Procs -> [Fds -> Files \cup {None}]]
    /\ vma \in [Procs -> [Slots -> Vma \cup {NoVma}]]
    /\ \A p \in Procs, i \in Slots : end(vma[p][i]) <= TOP
    /\ pagetable \in [Procs -> [Pages -> Pte \cup {None}]]
    /\ ref \in [Files -> Nat]
    /\ free \subseteq Frames

\* Pages that go leave a page table, and their frames are frames.
LEMMA ClearsType ==
  ASSUME TypeOK, NEW p \in Procs, NEW S, NEW T, Clears(p, S, T)
  PROVE  /\ pagetable' \in [Procs -> [Pages -> Pte \cup {None}]]
         /\ free' \subseteq Frames
  BY DEF Clears, TypeOK

\* The tables keep their types.
LEMMA TablesStep == ASSUME TypeOK, [Next]_vars PROVE Tables'
  <1>0. Tables
    BY DEF TypeOK, Tables
  <1>1. ASSUME NEW why, Panics(why) PROVE Tables'
    BY <1>1, MmapAssumption
       DEF Panics, Tables, BootState, NoFds, NoVmas, NoPages, NoVma, end
  <1>2. ASSUME NEW p \in Procs, NEW d \in Fds, NEW f \in Files, Gets(p, d, f) PROVE Tables'
    BY <1>0, <1>2 DEF Gets, Tables
  <1>3. ASSUME NEW p \in Procs, NEW d \in Fds, NEW f \in Files, Drops(p, d, f) PROVE Tables'
    BY <1>0, <1>3 DEF Drops, Tables
  <1>4. ASSUME NEW p \in Procs, NEW i \in Slots, NEW v \in Vma, Maps(p, i, v) PROVE Tables'
    <2>1. v.file \in Files
      BY DEF Vma
    <2>2. vma' = [vma EXCEPT ![p][i] = v] /\ end(v) <= TOP
      BY <1>4 DEF Maps
    <2>3. vma' \in [Procs -> [Slots -> Vma \cup {NoVma}]]
      BY <1>0, <2>2 DEF Tables
    <2>4. \A q \in Procs, j \in Slots : vma'[q][j] = IF q = p /\ j = i THEN v ELSE vma[q][j]
      BY <1>0, <2>2 DEF Tables
    <2>5. \A q \in Procs, j \in Slots : end(vma'[q][j]) <= TOP
      BY <1>0, <2>2, <2>4 DEF Tables
    <2>6. ref' \in [Files -> Nat]
      BY <1>0, <1>4, <2>1 DEF Maps, Tables
    <2> QED
      BY <1>0, <1>4, <2>3, <2>5, <2>6 DEF Maps, Tables, end
  <1>5. ASSUME NEW p \in Procs, NEW S, NEW T, Unmaps(p, S, T) PROVE Tables'
    <2>1. Clears(p, S, T) /\ UNCHANGED <<state, ofile, vma, ref>>
      BY <1>5 DEF Unmaps
    <2> QED
      BY <1>0, <2>1, ClearsType DEF Tables, end
  <1>6. ASSUME NEW p \in Procs, NEW i \in Slots, NEW S, NEW T, Removes(p, i, S, T) PROVE Tables'
    <2>1. Clears(p, S, T) /\ UNCHANGED <<state, ofile>>
      BY <1>6 DEF Removes
    <2>2. /\ vma[p][i].used = 1 /\ ref[vma[p][i].file] >= 1
          /\ vma' = [vma EXCEPT ![p][i] = NoVma]
          /\ ref' = [ref EXCEPT ![vma[p][i].file] = @ - 1]
      BY <1>6 DEF Removes
    <2>3. vma[p][i].file \in Files
      BY <1>0, <2>2 DEF Tables, Vma, NoVma
    <2>4. ref' \in [Files -> Nat]
      BY <1>0, <2>2, <2>3 DEF Tables
    <2>5. vma' \in [Procs -> [Slots -> Vma \cup {NoVma}]]
      BY <1>0, <2>2 DEF Tables
    <2>6. \A q \in Procs, j \in Slots : vma'[q][j] = IF q = p /\ j = i THEN NoVma ELSE vma[q][j]
      BY <1>0, <2>2 DEF Tables
    <2>7. end(NoVma) <= TOP
      BY MmapAssumption DEF end, NoVma
    <2>8. \A q \in Procs, j \in Slots : end(vma'[q][j]) <= TOP
      BY <1>0, <2>6, <2>7 DEF Tables
    <2> QED
      BY <1>0, <2>1, <2>4, <2>5, <2>8, ClearsType DEF Tables, end
  <1>7. ASSUME NEW p \in Procs, NEW a \in Pages, Store(p, a) PROVE Tables'
    <2>1. pagetable[p][a] \in Pte
      BY <1>0, <1>7 DEF Store, Tables
    <2>2. [pagetable[p][a] EXCEPT !.dirty = TRUE] \in Pte
      BY <2>1 DEF Pte
    <2>3. pagetable' = [pagetable EXCEPT ![p][a].dirty = TRUE]
      BY <1>7 DEF Store
    <2>4. pagetable' \in [Procs -> [Pages -> Pte \cup {None}]]
      BY <1>0, <2>2, <2>3 DEF Tables
    <2> QED
      BY <1>0, <1>7, <2>4 DEF Store, Tables, end
  <1>8. ASSUME NEW p \in Procs, NEW a \in Pages, NEW odd \in Offsets, NEW fr \in Frames,
               NEW prot \in AllProts, Fills(p, a, odd, fr, prot) PROVE Tables'
    <2>1. odd \in BOOLEAN /\ NFRAMES \in Nat
      BY MmapAssumption
    <2>2. ASSUME NEW b \in FaultPages(a, odd)
          PROVE  [frame |-> fr + (b - a), perm |-> prot, shifted |-> odd, dirty |-> FALSE] \in Pte
      <3>1. b - a \in {0, 1}
        BY MmapAssumption DEF FaultPages, Pages
      <3>2. fr + (b - a) \in 1..(NFRAMES + 1)
        BY <2>1, <3>1 DEF Frames
      <3> QED
        BY <2>1, <3>2 DEF Pte
    <2>3. /\ free' = free \ {fr} /\ UNCHANGED <<state, ofile, vma, ref>>
          /\ pagetable' = [pagetable EXCEPT ![p] =
                 [b \in Pages |-> IF b \in FaultPages(a, odd)
                                  THEN [frame |-> fr + (b - a), perm |-> prot,
                                        shifted |-> odd, dirty |-> FALSE]
                                  ELSE @[b]]]
      BY <1>8 DEF Fills
    <2>4. pagetable' \in [Procs -> [Pages -> Pte \cup {None}]]
      BY <1>0, <2>2, <2>3 DEF Tables
    <2> QED
      BY <1>0, <2>3, <2>4 DEF Tables, end
  <1>9. ASSUME NEW p \in Procs, NEW T, Exits(p, T) PROVE Tables'
    <2>1. Clears(p, {a \in Mapped(p) : Matching(p, a) # {}}, T)
      BY <1>9 DEF Exits
    <2>2. pagetable' \in [Procs -> [Pages -> Pte \cup {None}]] /\ free' \subseteq Frames
      BY <2>1, ClearsType
    <2>3. ref' \in [Files -> Nat]
      <3>1. ASSUME NEW f \in Files PROVE ref[f] - Held(p, f) \in Nat
        <4>1. ref[f] \in Nat /\ Held(p, f) \in Nat /\ ref[f] >= Held(p, f)
          BY <1>0, <1>9, HeldNat DEF Exits, Tables
        <4> QED
          BY <4>1
      <3> QED
        BY <1>9, <3>1 DEF Exits
    <2>4. end(NoVma) <= TOP
      BY MmapAssumption DEF end, NoVma
    <2>5. vma' = [vma EXCEPT ![p] = [i \in Slots |-> NoVma]]
      BY <1>9 DEF Exits
    <2>6. vma' \in [Procs -> [Slots -> Vma \cup {NoVma}]]
      BY <1>0, <2>5 DEF Tables
    <2>7. \A q \in Procs, j \in Slots : vma'[q][j] = IF q = p THEN NoVma ELSE vma[q][j]
      BY <1>0, <2>5 DEF Tables
    <2>8. \A q \in Procs, j \in Slots : end(vma'[q][j]) <= TOP
      BY <1>0, <2>4, <2>7 DEF Tables
    <2>9. /\ state' = [state EXCEPT ![p] = "ZOMBIE"]
          /\ ofile' = [ofile EXCEPT ![p] = [d \in Fds |-> None]]
      BY <1>9 DEF Exits
    <2> QED
      BY <1>0, <2>2, <2>3, <2>6, <2>8, <2>9 DEF Tables, end
  <1>10. ASSUME NEW p \in Procs, NEW np \in Procs, Fork(p, np) PROVE Tables'
    <2>1. /\ state' = [state EXCEPT ![np] = "RUNNING"]
          /\ ofile' = [ofile EXCEPT ![np] =
                 [d \in Fds |-> IF ofile[p][d] # None THEN ofile[p][d] ELSE @[d]]]
          /\ vma' = [vma EXCEPT ![np] =
                 [i \in Slots |-> IF vma[p][i].used = 1 THEN vma[p][i] ELSE @[i]]]
          /\ ref' = [f \in Files |-> ref[f] + Held(p, f)]
          /\ UNCHANGED <<pagetable, free>>
      BY <1>10 DEF Fork
    <2>2. \A f \in Files : ref[f] + Held(p, f) \in Nat
      <3>1. \A f \in Files : ref[f] \in Nat /\ Held(p, f) \in Nat
        BY <1>0, HeldNat DEF Tables
      <3> QED
        BY <3>1
    <2>3. vma' \in [Procs -> [Slots -> Vma \cup {NoVma}]]
      BY <1>0, <2>1 DEF Tables
    <2>4. \A q \in Procs, j \in Slots : vma'[q][j] \in {vma[p][j], vma[q][j]}
      BY <1>0, <2>1 DEF Tables
    <2>5. \A q \in Procs, j \in Slots : end(vma'[q][j]) <= TOP
      BY <1>0, <2>4 DEF Tables
    <2>6. ofile' \in [Procs -> [Fds -> Files \cup {None}]]
      BY <1>0, <2>1 DEF Tables
    <2> QED
      BY <1>0, <2>1, <2>2, <2>3, <2>5, <2>6 DEF Tables, end
  <1>11. ASSUME NEW p \in Procs, state' = [state EXCEPT ![p] = "UNUSED"],
                UNCHANGED <<ofile, vma, pagetable, ref, free, panic>>
         PROVE  Tables'
    BY <1>0, <1>11 DEF Tables, end
  <1>12. CASE UNCHANGED vars
    BY <1>0, <1>12 DEF Tables, end, vars
  <1> QED
    BY <1>1, <1>2, <1>3, <1>4, <1>5, <1>6, <1>7, <1>8, <1>9, <1>10, <1>11, <1>12, NextCases

\* The size of a file stays a number: munmap sets it to the greatest size that
\* its write-back loop has reached.
LEMMA SizeStep ==
  ASSUME TypeOK, [Next]_vars
  PROVE  /\ mode' \in [Files -> AllModes] /\ size' \in [Files -> Nat]
         /\ saved' \in [Files -> SUBSET Nat]
  <1> DEFINE OK == /\ mode' \in [Files -> AllModes] /\ size' \in [Files -> Nat]
                   /\ saved' \in [Files -> SUBSET Nat]
  <1>0. /\ mode \in [Files -> AllModes] /\ size \in [Files -> Nat]
        /\ saved \in [Files -> SUBSET Nat]
    BY DEF TypeOK
  <1>1. ASSUME NEW why, Panics(why) PROVE OK
    BY <1>1 DEF Panics, AllModes
  <1>2. CASE UNCHANGED <<mode, size, saved>>
    BY <1>0, <1>2
  <1>3. ASSUME NEW p \in Procs, NEW m \in Modes, NEW n \in 0..MaxFile, Open(p, m, n) PROVE OK
    <2>1. m \in AllModes /\ n \in Nat
      BY MmapAssumption
    <2>2. PICK f \in Files : mode' = [mode EXCEPT ![f] = m] /\ size' = [size EXCEPT ![f] = n]
                             /\ saved' = [saved EXCEPT ![f] = {}]
      BY <1>3 DEF Open
    <2> QED
      BY <1>0, <2>1, <2>2
  <1>4. ASSUME NEW p \in Procs, ExitProc(p) PROVE OK
    BY <1>1, <1>2, <1>4 DEF ExitProc
  <1>5. ASSUME NEW p \in Procs, NEW start \in Pages, NEW stop \in 0..TOP, start <= stop,
               Munmap(p, start, stop)
        PROVE  OK
    <2> DEFINE i == Min(Matching(p, start))
               v == vma[p][i]
               wb == WriteBack(p, v, start, stop)
               done == {a \in InRange(p, start, stop) : ~NeedsWriteBack(v) \/ wb[a + 1] # -1}
    <2>1. i \in Slots /\ v.used = 1
      <3>1. i \in Matching(p, start)
        BY <1>5, FirstSlot DEF Munmap, Matching
      <3> QED
        BY <3>1 DEF Matching, Covers
    <2>2. v.file \in Files /\ v.addr \in Int /\ v.offset \in Int
      <3>1. v \in Vma \cup {NoVma}
        BY <2>1 DEF TypeOK
      <3> QED
        BY <2>1, <3>1 DEF Vma, NoVma
    <2>3. \/ Panics("kfree") \/ Panics("fileclose")
          \/ UNCHANGED <<mode, size, saved>>
          \/ /\ size' = [size EXCEPT ![v.file] = Max({wb[a] : a \in start..stop})]
             /\ saved' = [saved EXCEPT ![v.file] = @ \cup
                           {FilePage(v, a) : a \in {b \in done : pagetable[p][b].dirty}}]
             /\ mode' = mode
      BY <1>5 DEF Munmap
    <2>12. {FilePage(v, a) : a \in {b \in done : pagetable[p][b].dirty}} \in SUBSET Nat
      <3>1. v.addr <= start /\ v.addr \in Nat /\ v.offset \in Nat
        <4>1. i \in Matching(p, start)
          BY <1>5, FirstSlot DEF Munmap, Matching
        <4>2. v \in Vma
          BY <2>1 DEF TypeOK, NoVma
        <4> QED
          BY <4>1, <4>2, MmapAssumption DEF Matching, Covers, Vma
      <3>2. \A a \in done : a \in Nat /\ start <= a
        BY MmapAssumption DEF InRange, Mapped, Pages
      <3>3. \A a \in done : FilePage(v, a) \in Nat
        <4>1. start \in Nat
          BY MmapAssumption DEF Pages
        <4> HIDE DEF v, done
        <4> QED
          BY <3>1, <3>2, <4>1 DEF FilePage
      <3> QED
        BY <3>3
    <2> HIDE DEF i, v, wb, done
    <2>4. size[v.file] \in Nat /\ stop \in Nat /\ start \in Nat
      BY <2>2, MmapAssumption DEF TypeOK, Pages
    <2>5. wb[start] = size[v.file] /\ \A a \in start..stop : wb[a] \in Int /\ wb[a] <= size[v.file] + (a - start)
      BY <1>5, <2>2, <2>4, WriteBackValues DEF wb
    <2> DEFINE W == {wb[a] : a \in start..stop}
    <2>6. W \subseteq Int /\ size[v.file] \in W
      BY <1>5, <2>4, <2>5
    <2>7. \A x \in W : x <= size[v.file] + (stop - start)
      <3>1. ASSUME NEW a \in start..stop PROVE wb[a] <= size[v.file] + (stop - start)
        <4>1. a \in Int /\ a <= stop /\ start \in Int /\ stop \in Int
          BY <2>4
        <4>2. wb[a] \in Int /\ wb[a] <= size[v.file] + (a - start)
          BY <2>5
        <4>3. \A x, s, u, b, c \in Int : x <= s + (b - u) /\ b <= c => x <= s + (c - u)
          OBVIOUS
        <4> QED
          BY <2>4, <4>1, <4>2, <4>3
      <3> QED
        BY <3>1
    <2> HIDE DEF W
    <2>8. size[v.file] + (stop - start) \in Int
      BY <2>4
    <2>9. Max(W) \in W /\ Max(W) >= size[v.file]
      BY <2>6, <2>7, <2>8, MaxInt
    <2>10. Max(W) \in Nat
      <3>1. \A m \in Int, n \in Nat : m >= n => m \in Nat
        OBVIOUS
      <3>2. Max(W) \in Int
        BY <2>6, <2>9
      <3> QED
        BY <2>4, <2>9, <3>1, <3>2, Zenon
    <2>11. CASE /\ size' = [size EXCEPT ![v.file] = Max({wb[a] : a \in start..stop})]
                /\ saved' = [saved EXCEPT ![v.file] = @ \cup
                              {FilePage(v, a) : a \in {b \in done : pagetable[p][b].dirty}}]
                /\ mode' = mode
      BY <1>0, <2>2, <2>10, <2>11, <2>12 DEF W
    <2> QED
      BY <1>1, <1>2, <2>3, <2>11
  <1>6. ASSUME NEW p \in Procs, NEW d \in Fds, Dup(p, d) \/ Close(p, d) PROVE OK
    BY <1>1, <1>2, <1>6 DEF Dup, Close
  <1>7. ASSUME NEW p \in Procs, NEW len \in 1..MaxLen, NEW prot \in Prots, NEW flags \in Flags,
               NEW d \in Fds, NEW off \in 0..MaxFile, Mmap(p, len, prot, flags, d, off)
        PROVE  OK
    BY <1>1, <1>2, <1>7 DEF Mmap
  <1>8. ASSUME NEW p \in Procs, NEW a \in Pages, NEW odd \in Offsets, NEW write \in BOOLEAN,
               PageFault(p, a, odd, write)
        PROVE  OK
    BY <1>1, <1>2, <1>4, <1>8 DEF PageFault
  <1>9. ASSUME NEW p \in Procs, Exit(p) \/ Freeproc(p) \/ Exec(p) PROVE OK
    BY <1>1, <1>2, <1>4, <1>9 DEF Exit, Freeproc, Exec
  <1>10. ASSUME NEW p \in Procs, NEW a \in Pages, Store(p, a) PROVE OK
    BY <1>2, <1>10 DEF Store
  <1>11. ASSUME NEW p \in Procs, NEW np \in Procs, Fork(p, np) PROVE OK
    BY <1>2, <1>11 DEF Fork
  <1>12. CASE OtherStep
    BY <1>2, <1>12, <1>3, <1>6, <1>7, <1>8, <1>9, <1>10, <1>11 DEF OtherStep, Halted, vars
  <1> QED
    BY <1>2, <1>5, <1>12 DEF Next, MunmapStep, vars

\* The tables have their types, and every VMA lies inside the region.
THEOREM TypeCorrect == Spec => []TypeOK
  <1>1. Init => TypeOK
    BY MmapAssumption DEF Init, TypeOK, BootState, NoFds, NoVmas, NoPages, NoVma, end, AllModes
  <1>2. ASSUME TypeOK, [Next]_vars PROVE TypeOK'
    BY <1>2, TablesStep, SizeStep DEF TypeOK, Tables, end
  <1> QED
    BY <1>1, <1>2, PTL DEF Spec

-----------------------------------------------------------------------------
(* Reference counts.                                                       *)

\* exit empties the tables of a process, and nothing but fork fills those of one
\* that is not alive.
LEMMA DeadTablesStep == ASSUME TypeOK, DeadTables, [Next]_vars PROVE DeadTables'
  <1>1. ASSUME NEW why, Panics(why) PROVE DeadTables'
    BY <1>1 DEF Panics, DeadTables, NoFds, NoVmas, NoVma
  <1>2. ASSUME NEW p \in Procs, NEW d \in Fds, NEW f \in Files,
               Gets(p, d, f) \/ Drops(p, d, f) PROVE DeadTables'
    BY <1>2 DEF Gets, Drops, DeadTables, TypeOK
  <1>3. ASSUME NEW p \in Procs, NEW i \in Slots, NEW v \in Vma, Maps(p, i, v) PROVE DeadTables'
    BY <1>3 DEF Maps, DeadTables, TypeOK
  <1>4. ASSUME NEW p \in Procs, NEW S, NEW T, Unmaps(p, S, T) PROVE DeadTables'
    BY <1>4 DEF Unmaps, DeadTables
  <1>5. ASSUME NEW p \in Procs, NEW i \in Slots, NEW S, NEW T, Removes(p, i, S, T) PROVE DeadTables'
    BY <1>5 DEF Removes, DeadTables, TypeOK
  <1>6. ASSUME NEW p \in Procs, NEW a \in Pages, Store(p, a) PROVE DeadTables'
    BY <1>6 DEF Store, DeadTables
  <1>7. ASSUME NEW p \in Procs, NEW a \in Pages, NEW odd, NEW fr, NEW prot,
               Fills(p, a, odd, fr, prot) PROVE DeadTables'
    BY <1>7 DEF Fills, DeadTables
  <1>8. ASSUME NEW p \in Procs, NEW T, Exits(p, T) PROVE DeadTables'
    BY <1>8 DEF Exits, DeadTables, TypeOK, NoVma
  <1>9. ASSUME NEW p \in Procs, NEW np \in Procs, Fork(p, np) PROVE DeadTables'
    BY <1>9 DEF Fork, DeadTables, TypeOK
  <1>10. ASSUME NEW p \in Procs, Freeproc(p), state' = [state EXCEPT ![p] = "UNUSED"],
                UNCHANGED <<ofile, vma, pagetable, ref, free, panic>>
         PROVE  DeadTables'
    BY <1>10 DEF Freeproc, DeadTables, TypeOK
  <1>11. CASE UNCHANGED vars
    BY <1>11 DEF DeadTables, vars
  <1> QED
    BY <1>1, <1>2, <1>3, <1>4, <1>5, <1>6, <1>7, <1>8, <1>9, <1>10, <1>11, NextCases

\* The descriptors and VMAs that name a file are finitely many.
LEMMA HoldersFinite ==
  ASSUME NEW f
  PROVE  /\ IsFiniteSet(FdHolders(f)) /\ Cardinality(FdHolders(f)) \in Nat
         /\ IsFiniteSet(VmaHolders(f)) /\ Cardinality(VmaHolders(f)) \in Nat
  <1>1. IsFiniteSet(Fds) /\ IsFiniteSet(Slots)
    BY FS_Interval, MmapAssumption DEF Fds, Slots
  <1>2. IsFiniteSet(Procs \X Fds) /\ IsFiniteSet(Procs \X Slots)
    BY <1>1, FS_Product, MmapAssumption
  <1>3. IsFiniteSet(FdHolders(f)) /\ IsFiniteSet(VmaHolders(f))
    BY <1>2, FS_Subset DEF FdHolders, VmaHolders
  <1> QED
    BY <1>3, FS_CardinalityType

\* What one process holds of a file, and what the others hold.
LEMMA HoldersRow ==
  ASSUME NEW p \in Procs, NEW f
  PROVE  LET FdRest  == {x \in FdHolders(f) : x[1] # p}
             VmaRest == {x \in VmaHolders(f) : x[1] # p}
         IN  /\ Cardinality(FdRest) \in Nat /\ Cardinality(VmaRest) \in Nat
             /\ Cardinality(FdRefs(p, f)) \in Nat /\ Cardinality(VmaRefs(p, f)) \in Nat
             /\ Cardinality(FdHolders(f)) = Cardinality(FdRest) + Cardinality(FdRefs(p, f))
             /\ Cardinality(VmaHolders(f)) = Cardinality(VmaRest) + Cardinality(VmaRefs(p, f))
  <1>1. IsFiniteSet(Fds) /\ IsFiniteSet(Slots) /\ IsFiniteSet(Procs)
    BY FS_Interval, MmapAssumption DEF Fds, Slots
  <1>2. FdHolders(f) \subseteq Procs \X Fds /\ VmaHolders(f) \subseteq Procs \X Slots
    BY DEF FdHolders, VmaHolders
  <1>3. FdRefs(p, f) = {d \in Fds : <<p, d>> \in FdHolders(f)}
    BY DEF FdRefs, FdHolders
  <1>4. VmaRefs(p, f) = {i \in Slots : <<p, i>> \in VmaHolders(f)}
    BY DEF VmaRefs, VmaHolders
  <1>5. /\ Cardinality({x \in FdHolders(f) : x[1] # p}) \in Nat
        /\ Cardinality(FdRefs(p, f)) \in Nat
        /\ Cardinality(FdHolders(f)) = Cardinality({x \in FdHolders(f) : x[1] # p}) + Cardinality(FdRefs(p, f))
    BY <1>1, <1>2, <1>3, CountRow
  <1>6. /\ Cardinality({x \in VmaHolders(f) : x[1] # p}) \in Nat
        /\ Cardinality(VmaRefs(p, f)) \in Nat
        /\ Cardinality(VmaHolders(f)) = Cardinality({x \in VmaHolders(f) : x[1] # p}) + Cardinality(VmaRefs(p, f))
    BY <1>1, <1>2, <1>4, CountRow
  <1> QED
    BY <1>5, <1>6

\* The descriptors and VMAs of all processes that name a file are counted.
Counted(f) == ref[f] = Cardinality(FdHolders(f)) + Cardinality(VmaHolders(f))

\* fork copies what the parent holds to a process that held nothing.
LEMMA ForkCounts ==
  ASSUME TypeOK, DeadTables, NEW p \in Procs, NEW np \in Procs, Fork(p, np),
         NEW f \in Files, Counted(f)
  PROVE  Counted(f)'
  <1>1. /\ ofile' = [ofile EXCEPT ![np] =
              [d \in Fds |-> IF ofile[p][d] # None THEN ofile[p][d] ELSE @[d]]]
        /\ vma' = [vma EXCEPT ![np] =
              [i \in Slots |-> IF vma[p][i].used = 1 THEN vma[p][i] ELSE @[i]]]
        /\ ref' = [g \in Files |-> ref[g] + Held(p, g)]
        /\ state[np] = "UNUSED" /\ state[p] = "RUNNING"
    BY DEF Fork, Alive
  <1>2. p # np /\ (\A d \in Fds : ofile[np][d] = None) /\ (\A i \in Slots : vma[np][i].used = 0)
    BY <1>1 DEF DeadTables
  <1>3. None # f
    BY MmapAssumption
  <1>4. \A q \in Procs, d \in Fds : ofile'[q][d] = IF q = np THEN ofile[p][d] ELSE ofile[q][d]
    BY <1>1, <1>2 DEF TypeOK
  <1>5. ASSUME NEW q \in Procs, NEW i \in Slots
        PROVE  vma'[q][i].used = 1 /\ vma'[q][i].file = f
               <=> IF q = np THEN vma[p][i].used = 1 /\ vma[p][i].file = f
                   ELSE vma[q][i].used = 1 /\ vma[q][i].file = f
    <2>1. vma'[q][i] = IF q = np THEN IF vma[p][i].used = 1 THEN vma[p][i] ELSE vma[np][i]
                       ELSE vma[q][i]
      BY <1>1 DEF TypeOK
    <2> QED
      BY <1>2, <2>1
  <1>6. IsFiniteSet(Fds) /\ IsFiniteSet(Slots) /\ IsFiniteSet(Procs)
    BY FS_Interval, MmapAssumption DEF Fds, Slots
  <1>7. Cardinality(FdHolders(f)') = Cardinality(FdHolders(f)) + Cardinality(FdRefs(p, f))
    <2>1. FdHolders(f)' \subseteq Procs \X Fds
      BY DEF FdHolders
    <2>2. FdRefs(p, f) = {d \in Fds : <<np, d>> \in FdHolders(f)'}
      BY <1>4 DEF FdRefs, FdHolders
    <2>3. FdHolders(f) = {x \in FdHolders(f)' : x[1] # np}
      BY <1>2, <1>3, <1>4 DEF FdHolders
    <2> HIDE DEF FdHolders
    <2> QED
      BY <1>6, <2>1, <2>2, <2>3, CountRow
  <1>8. Cardinality(VmaHolders(f)') = Cardinality(VmaHolders(f)) + Cardinality(VmaRefs(p, f))
    <2>1. VmaHolders(f)' \subseteq Procs \X Slots
      BY DEF VmaHolders
    <2>2. VmaRefs(p, f) = {i \in Slots : <<np, i>> \in VmaHolders(f)'}
      BY <1>5 DEF VmaRefs, VmaHolders
    <2>3. VmaHolders(f) = {x \in VmaHolders(f)' : x[1] # np}
      BY <1>2, <1>5 DEF VmaHolders
    <2> QED
      BY <1>6, <2>1, <2>2, <2>3, CountRow
  <1>9. /\ Cardinality(FdHolders(f)) \in Nat /\ Cardinality(VmaHolders(f)) \in Nat
        /\ Cardinality(FdRefs(p, f)) \in Nat /\ Cardinality(VmaRefs(p, f)) \in Nat
    BY HoldersFinite, HoldersRow
  <1>10. ref'[f] = ref[f] + (Cardinality(FdRefs(p, f)) + Cardinality(VmaRefs(p, f)))
    BY <1>1 DEF Held
  <1> QED
    BY <1>7, <1>8, <1>9, <1>10 DEF Counted

\* exit gives back all that the process holds.
LEMMA ExitCounts ==
  ASSUME TypeOK, NEW p \in Procs, NEW T, Exits(p, T), NEW f \in Files, Counted(f)
  PROVE  Counted(f)'
  <1>1. /\ ofile' = [ofile EXCEPT ![p] = [d \in Fds |-> None]]
        /\ vma' = [vma EXCEPT ![p] = [i \in Slots |-> NoVma]]
        /\ ref' = [g \in Files |-> ref[g] - Held(p, g)]
    BY DEF Exits
  <1>2. None # f
    BY MmapAssumption
  <1>3. \A q \in Procs, d \in Fds : ofile'[q][d] = IF q = p THEN None ELSE ofile[q][d]
    BY <1>1 DEF TypeOK
  <1>4. \A q \in Procs, i \in Slots : vma'[q][i] = IF q = p THEN NoVma ELSE vma[q][i]
    BY <1>1 DEF TypeOK
  <1>5. FdHolders(f)' = {x \in FdHolders(f) : x[1] # p}
    BY <1>2, <1>3 DEF FdHolders
  <1>6. VmaHolders(f)' = {x \in VmaHolders(f) : x[1] # p}
    BY <1>4 DEF VmaHolders, NoVma
  <1>7. /\ Cardinality(FdHolders(f)') \in Nat /\ Cardinality(VmaHolders(f)') \in Nat
        /\ Cardinality(FdRefs(p, f)) \in Nat /\ Cardinality(VmaRefs(p, f)) \in Nat
        /\ Cardinality(FdHolders(f)) = Cardinality(FdHolders(f)') + Cardinality(FdRefs(p, f))
        /\ Cardinality(VmaHolders(f)) = Cardinality(VmaHolders(f)') + Cardinality(VmaRefs(p, f))
    BY <1>5, <1>6, HoldersRow
  <1>8. ref'[f] = ref[f] - (Cardinality(FdRefs(p, f)) + Cardinality(VmaRefs(p, f)))
    BY <1>1 DEF Held
  <1> QED
    BY <1>7, <1>8 DEF Counted

\* open, dup and close count one descriptor more or less.
LEMMA FdCounts ==
  ASSUME TypeOK, NEW p \in Procs, NEW d \in Fds, NEW g \in Files, Gets(p, d, g) \/ Drops(p, d, g),
         NEW f \in Files, Counted(f)
  PROVE  Counted(f)'
  <1>1. None # f /\ None # g
    BY MmapAssumption
  <1>2. VmaHolders(f)' = VmaHolders(f)
    BY DEF Gets, Drops, VmaHolders
  <1>3. /\ IsFiniteSet(FdHolders(f)) /\ Cardinality(FdHolders(f)) \in Nat
        /\ Cardinality(VmaHolders(f)) \in Nat
    BY HoldersFinite
  <1>4. CASE Gets(p, d, g)
    <2>1. ref' = [ref EXCEPT ![g] = @ + 1] /\ ofile' = [ofile EXCEPT ![p][d] = g] /\ ofile[p][d] = None
      BY <1>4 DEF Gets
    <2>2. \A q \in Procs, e \in Fds : ofile'[q][e] = IF q = p /\ e = d THEN g ELSE ofile[q][e]
      BY <2>1 DEF TypeOK
    <2>3. CASE f = g
      <3>1. FdHolders(f)' = FdHolders(f) \cup {<<p, d>>} /\ <<p, d>> \notin FdHolders(f)
        BY <1>1, <2>1, <2>2, <2>3 DEF FdHolders
      <3>2. Cardinality(FdHolders(f)') = Cardinality(FdHolders(f)) + 1
        BY <1>3, <3>1, CountAdd
      <3>3. ref'[f] = ref[f] + 1
        BY <2>1, <2>3 DEF TypeOK
      <3> QED
        BY <1>2, <1>3, <3>2, <3>3 DEF Counted
    <2>4. CASE f # g
      <3>1. FdHolders(f)' = FdHolders(f)
        BY <1>1, <2>1, <2>2, <2>4 DEF FdHolders
      <3>2. ref'[f] = ref[f]
        BY <2>1, <2>4 DEF TypeOK
      <3> QED
        BY <1>2, <3>1, <3>2 DEF Counted
    <2> QED
      BY <2>3, <2>4
  <1>5. CASE Drops(p, d, g)
    <2>1. ref' = [ref EXCEPT ![g] = @ - 1] /\ ofile' = [ofile EXCEPT ![p][d] = None] /\ ofile[p][d] = g
      BY <1>5 DEF Drops
    <2>2. \A q \in Procs, e \in Fds : ofile'[q][e] = IF q = p /\ e = d THEN None ELSE ofile[q][e]
      BY <2>1 DEF TypeOK
    <2>3. CASE f = g
      <3>1. FdHolders(f)' = FdHolders(f) \ {<<p, d>>} /\ <<p, d>> \in FdHolders(f)
        BY <1>1, <2>1, <2>2, <2>3 DEF FdHolders
      <3>2. Cardinality(FdHolders(f)') = Cardinality(FdHolders(f)) - 1
        BY <1>3, <3>1, CountRemove
      <3>3. ref'[f] = ref[f] - 1
        BY <2>1, <2>3 DEF TypeOK
      <3> QED
        BY <1>2, <1>3, <3>2, <3>3 DEF Counted
    <2>4. CASE f # g
      <3>1. FdHolders(f)' = FdHolders(f)
        BY <1>1, <2>1, <2>2, <2>4 DEF FdHolders
      <3>2. ref'[f] = ref[f]
        BY <2>1, <2>4 DEF TypeOK
      <3> QED
        BY <1>2, <3>1, <3>2 DEF Counted
    <2> QED
      BY <2>3, <2>4
  <1> QED
    BY <1>4, <1>5

\* mmap counts one VMA more.
LEMMA MapCounts ==
  ASSUME TypeOK, NEW p \in Procs, NEW i \in Slots, NEW v \in Vma, Maps(p, i, v),
         NEW f \in Files, Counted(f)
  PROVE  Counted(f)'
  <1>1. /\ ref' = [ref EXCEPT ![v.file] = @ + 1] /\ vma' = [vma EXCEPT ![p][i] = v]
        /\ vma[p][i].used = 0
    BY DEF Maps
  <1>2. FdHolders(f)' = FdHolders(f)
    BY DEF Maps, FdHolders
  <1>3. /\ IsFiniteSet(VmaHolders(f)) /\ Cardinality(FdHolders(f)) \in Nat
        /\ Cardinality(VmaHolders(f)) \in Nat
    BY HoldersFinite
  <1>4. \A q \in Procs, j \in Slots : vma'[q][j] = IF q = p /\ j = i THEN v ELSE vma[q][j]
    BY <1>1 DEF TypeOK
  <1>5. v.used = 1 /\ v.file \in Files
    BY DEF Vma
  <1>6. CASE f = v.file
    <2>1. VmaHolders(f)' = VmaHolders(f) \cup {<<p, i>>} /\ <<p, i>> \notin VmaHolders(f)
      BY <1>1, <1>4, <1>5, <1>6 DEF VmaHolders
    <2>2. Cardinality(VmaHolders(f)') = Cardinality(VmaHolders(f)) + 1
      BY <1>3, <2>1, CountAdd
    <2>3. ref'[f] = ref[f] + 1
      BY <1>1, <1>6 DEF TypeOK
    <2> QED
      BY <1>2, <1>3, <2>2, <2>3 DEF Counted
  <1>7. CASE f # v.file
    <2>1. VmaHolders(f)' = VmaHolders(f)
      BY <1>1, <1>4, <1>5, <1>7 DEF VmaHolders
    <2>2. ref'[f] = ref[f]
      BY <1>1, <1>7 DEF TypeOK
    <2> QED
      BY <1>2, <2>1, <2>2 DEF Counted
  <1> QED
    BY <1>6, <1>7

\* munmap of a whole VMA counts one less.
LEMMA RemoveCounts ==
  ASSUME TypeOK, NEW p \in Procs, NEW i \in Slots, NEW S, NEW T, Removes(p, i, S, T),
         NEW f \in Files, Counted(f)
  PROVE  Counted(f)'
  <1> DEFINE g == vma[p][i].file
  <1>1. /\ ref' = [ref EXCEPT ![g] = @ - 1] /\ vma' = [vma EXCEPT ![p][i] = NoVma]
        /\ vma[p][i].used = 1
    BY DEF Removes
  <1>2. FdHolders(f)' = FdHolders(f)
    BY DEF Removes, FdHolders
  <1>3. /\ IsFiniteSet(VmaHolders(f)) /\ Cardinality(FdHolders(f)) \in Nat
        /\ Cardinality(VmaHolders(f)) \in Nat
    BY HoldersFinite
  <1>4. \A q \in Procs, j \in Slots : vma'[q][j] = IF q = p /\ j = i THEN NoVma ELSE vma[q][j]
    BY <1>1 DEF TypeOK
  <1>5. NoVma.used = 0
    BY DEF NoVma
  <1>6. CASE f = g
    <2>1. VmaHolders(f)' = VmaHolders(f) \ {<<p, i>>} /\ <<p, i>> \in VmaHolders(f)
      BY <1>1, <1>4, <1>5, <1>6 DEF VmaHolders
    <2>2. Cardinality(VmaHolders(f)') = Cardinality(VmaHolders(f)) - 1
      BY <1>3, <2>1, CountRemove
    <2>3. ref'[f] = ref[f] - 1
      BY <1>1, <1>6 DEF TypeOK
    <2> QED
      BY <1>2, <1>3, <2>2, <2>3 DEF Counted
  <1>7. CASE f # g
    <2>1. VmaHolders(f)' = VmaHolders(f)
      BY <1>1, <1>4, <1>5, <1>7 DEF VmaHolders
    <2>2. ref'[f] = ref[f]
      BY <1>1, <1>7 DEF TypeOK
    <2> QED
      BY <1>2, <2>1, <2>2 DEF Counted
  <1> QED
    BY <1>6, <1>7

IInv == TypeOK /\ DeadTables /\ FileRefs

\* No step miscounts the holders of a file.
LEMMA FileRefsStep == ASSUME IInv, [Next]_vars PROVE FileRefs'
  <1> SUFFICES ASSUME panic' = "no", NEW f \in Files PROVE Counted(f)'
    BY DEF FileRefs, Counted
  <1>0. TypeOK /\ DeadTables
    BY DEF IInv
  <1>1. panic = "no" => Counted(f)
    BY DEF IInv, FileRefs, Counted
  <1>2. ASSUME NEW why, why # "no", Panics(why) PROVE FALSE
    BY <1>2 DEF Panics
  <1>3. ASSUME NEW p \in Procs, NEW d \in Fds, NEW g \in Files,
               Gets(p, d, g) \/ Drops(p, d, g) PROVE Counted(f)'
    <2>1. panic = "no"
      BY <1>3 DEF Gets, Drops
    <2> QED
      BY <1>0, <1>1, <1>3, <2>1, FdCounts
  <1>4. ASSUME NEW p \in Procs, NEW i \in Slots, NEW v \in Vma, Maps(p, i, v) PROVE Counted(f)'
    <2>1. panic = "no"
      BY <1>4 DEF Maps
    <2> QED
      BY <1>0, <1>1, <1>4, <2>1, MapCounts
  <1>5. ASSUME UNCHANGED <<ofile, vma, ref, panic>> PROVE Counted(f)'
    BY <1>1, <1>5 DEF Counted, FdHolders, VmaHolders
  <1>6. ASSUME NEW p \in Procs, NEW i \in Slots, NEW S, NEW T, Removes(p, i, S, T) PROVE Counted(f)'
    <2>1. panic = "no"
      BY <1>6 DEF Removes
    <2> QED
      BY <1>0, <1>1, <1>6, <2>1, RemoveCounts
  <1>7. ASSUME NEW p \in Procs, NEW T, Exits(p, T) PROVE Counted(f)'
    <2>1. panic = "no"
      BY <1>7 DEF Exits
    <2> QED
      BY <1>0, <1>1, <1>7, <2>1, ExitCounts
  <1>8. ASSUME NEW p \in Procs, NEW np \in Procs, Fork(p, np) PROVE Counted(f)'
    <2>1. panic = "no"
      BY <1>8 DEF Fork, Alive
    <2> QED
      BY <1>0, <1>1, <1>8, <2>1, ForkCounts
  <1>9. ASSUME NEW p \in Procs, NEW S, NEW T, Unmaps(p, S, T) PROVE Counted(f)'
    BY <1>5, <1>9 DEF Unmaps
  <1>10. ASSUME NEW p \in Procs, NEW a \in Pages, Store(p, a) PROVE Counted(f)'
    BY <1>5, <1>10 DEF Store
  <1>11. ASSUME NEW p \in Procs, NEW a \in Pages, NEW odd, NEW fr, NEW prot,
                Fills(p, a, odd, fr, prot) PROVE Counted(f)'
    BY <1>5, <1>11 DEF Fills
  <1>12. CASE UNCHANGED vars
    BY <1>5, <1>12 DEF vars
  <1> QED
    BY <1>0, <1>2, <1>3, <1>4, <1>5, <1>6, <1>7, <1>8, <1>9, <1>10, <1>11, <1>12, NextCases

\* The inductive invariant of the counts.
LEMMA CountInvariant == Spec => []IInv
  <1>1. Init => IInv
    <2> SUFFICES ASSUME Init PROVE IInv
      OBVIOUS
    <2>1. TypeOK /\ DeadTables
      BY MmapAssumption
         DEF Init, TypeOK, DeadTables, BootState, NoFds, NoVmas, NoPages, NoVma, end, AllModes
    <2>2. ASSUME NEW f \in Files PROVE ref[f] = Cardinality(FdHolders(f)) + Cardinality(VmaHolders(f))
      <3>1. FdHolders(f) = {} /\ VmaHolders(f) = {}
        BY MmapAssumption DEF Init, FdHolders, VmaHolders, NoFds, NoVmas, NoVma
      <3>2. Cardinality(FdHolders(f)) = 0 /\ Cardinality(VmaHolders(f)) = 0
        BY <3>1, FS_EmptySet
      <3> QED
        BY <3>2 DEF Init
    <2> QED
      BY <2>1, <2>2 DEF IInv, FileRefs
  <1>2. ASSUME IInv, [Next]_vars PROVE IInv'
    <2>1. TypeOK'
      BY <1>2, TablesStep, SizeStep DEF IInv, TypeOK, Tables, end
    <2>2. DeadTables'
      BY <1>2, DeadTablesStep DEF IInv
    <2> QED
      BY <1>2, <2>1, <2>2, FileRefsStep DEF IInv
  <1> QED
    BY <1>1, <1>2, PTL DEF Spec

\* f->ref counts the descriptors and VMAs that name f, of all processes, whatever
\* order of mmap, munmap, fork, exit and wait: no file is closed under a mapping.
THEOREM FileRefsCorrect == Spec => []FileRefs
  <1>1. IInv => FileRefs
    BY DEF IInv
  <1> QED
    BY <1>1, CountInvariant, PTL

-----------------------------------------------------------------------------
(* Pages, for programs that touch each page first at its first byte.       *)

\* No PTE is for the page behind the one that was allocated.
InMemory == \A p \in Procs : \A a \in Mapped(p) : pagetable[p][a].frame \in Frames

PInv == IInv /\ DeadPages /\ NoStrayPte /\ FramesOwned /\ InMemory

\* The page tables after pages have gone.
LEMMA ClearsPages ==
  ASSUME TypeOK, NEW p \in Procs, NEW S, NEW T, Clears(p, S, T)
  PROVE  /\ \A q \in Procs : Mapped(q)' = IF q = p THEN Mapped(p) \ S ELSE Mapped(q)
         /\ \A q \in Procs : \A a \in Mapped(q)' : pagetable'[q][a] = pagetable[q][a]
         /\ S \subseteq Mapped(p) /\ T \subseteq S /\ free' = free \cup FramesOf(p, T)
  <1>1. \A q \in Procs, a \in Pages :
           pagetable'[q][a] = IF q = p /\ a \in S THEN None ELSE pagetable[q][a]
    BY DEF Clears, TypeOK
  <1>2. S \subseteq Mapped(p) /\ T \subseteq S /\ free' = free \cup FramesOf(p, T)
    BY DEF Clears
  <1> QED
    BY <1>1, <1>2 DEF Mapped

\* Pages that go take their frames with them: no other page has them.
LEMMA ClearsOwned ==
  ASSUME TypeOK, FramesOwned, InMemory, NEW p \in Procs, NEW S, NEW T, Clears(p, S, T)
  PROVE  FramesOwned' /\ InMemory'
  <1>1. /\ \A q \in Procs : Mapped(q)' = IF q = p THEN Mapped(p) \ S ELSE Mapped(q)
        /\ \A q \in Procs : \A a \in Mapped(q)' : pagetable'[q][a] = pagetable[q][a]
        /\ S \subseteq Mapped(p) /\ T \subseteq S /\ free' = free \cup FramesOf(p, T)
    BY ClearsPages
  <1>2. \A q \in Procs : Mapped(q)' \subseteq Mapped(q)
    BY <1>1
  <1>3. ASSUME NEW q \in Procs, NEW a \in Mapped(q)' PROVE pagetable'[q][a].frame \notin free'
    <2>1. a \in Mapped(q) /\ pagetable'[q][a] = pagetable[q][a] /\ pagetable[q][a].frame \notin free
      BY <1>1, <1>2 DEF FramesOwned
    <2>2. ASSUME pagetable[q][a].frame \in FramesOf(p, T) PROVE FALSE
      <3>1. PICK b \in T : pagetable[q][a].frame = pagetable[p][b].frame
        BY <2>2 DEF FramesOf
      <3>2. b \in Mapped(p) /\ b \in S
        BY <1>1
      <3>3. q = p /\ a = b
        BY <2>1, <3>1, <3>2 DEF FramesOwned
      <3> QED
        BY <1>1, <3>2, <3>3
    <2> QED
      BY <1>1, <2>1, <2>2
  <1>4. ASSUME NEW q \in Procs, NEW r \in Procs, NEW a \in Mapped(q)', NEW b \in Mapped(r)',
               pagetable'[q][a].frame = pagetable'[r][b].frame
        PROVE  q = r /\ a = b
    BY <1>1, <1>2, <1>4 DEF FramesOwned
  <1>5. InMemory'
    BY <1>1, <1>2 DEF InMemory
  <1> QED
    BY <1>3, <1>4, <1>5 DEF FramesOwned

\* What a step does to the pages and VMAs of one process.
LEMMA PagesStep ==
  ASSUME Offsets \subseteq {FALSE}, PInv, [Next]_vars
  PROVE  DeadPages' /\ NoStrayPte' /\ FramesOwned' /\ InMemory'
  <1> DEFINE OK == DeadPages' /\ NoStrayPte' /\ FramesOwned' /\ InMemory'
  <1>0. InMemory /\ TypeOK /\ DeadTables /\ DeadPages /\ NoStrayPte /\ FramesOwned
    BY DEF PInv, IInv
  <1>1. ASSUME NEW why, Panics(why) PROVE OK
    <2>1. \A q \in Procs : Mapped(q)' = {}
      BY <1>1 DEF Panics, Mapped, NoPages
    <2> QED
      BY <2>1 DEF DeadPages, NoStrayPte, FramesOwned, InMemory
  <1>2. ASSUME UNCHANGED <<state, vma, pagetable, free>> PROVE OK
    BY <1>0, <1>2 DEF DeadPages, NoStrayPte, FramesOwned, InMemory, Mapped, Matching
  <1>3. ASSUME NEW p \in Procs, NEW d \in Fds, NEW f \in Files,
               Gets(p, d, f) \/ Drops(p, d, f) PROVE OK
    BY <1>2, <1>3 DEF Gets, Drops
  <1>4. ASSUME NEW p \in Procs, NEW i \in Slots, NEW v \in Vma, Maps(p, i, v) PROVE OK
    <2>1. /\ vma[p][i].used = 0 /\ vma' = [vma EXCEPT ![p][i] = v]
          /\ UNCHANGED <<state, pagetable, free>>
      BY <1>4 DEF Maps
    <2>2. \A q \in Procs, j \in Slots : vma'[q][j] = IF q = p /\ j = i THEN v ELSE vma[q][j]
      BY <1>0, <2>1 DEF TypeOK
    <2>3. \A q \in Procs : Mapped(q)' = Mapped(q)
      BY <2>1 DEF Mapped
    <2>4. ASSUME NEW q \in Procs, NEW a, NEW j \in Matching(q, a) PROVE j \in Matching(q, a)'
      <3>1. j \in Slots /\ Covers(vma[q][j], a)
        BY DEF Matching
      <3>2. ~(q = p /\ j = i)
        BY <2>1, <3>1 DEF Covers
      <3>3. vma'[q][j] = vma[q][j]
        BY <2>2, <3>1, <3>2
      <3> QED
        BY <3>1, <3>3 DEF Matching
    <2>5. NoStrayPte'
      BY <1>0, <2>3, <2>4 DEF NoStrayPte
    <2>6. DeadPages' /\ FramesOwned' /\ InMemory'
      BY <1>0, <2>1, <2>3 DEF DeadPages, FramesOwned, InMemory
    <2> QED
      BY <2>5, <2>6
  <1>5. ASSUME NEW p \in Procs, NEW S, NEW T, Unmaps(p, S, T) PROVE OK
    <2>1. Clears(p, S, T) /\ UNCHANGED <<state, vma>>
      BY <1>5 DEF Unmaps
    <2>2. \A q \in Procs : Mapped(q)' \subseteq Mapped(q)
      BY <1>0, <2>1, ClearsPages
    <2>3. DeadPages'
      BY <1>0, <2>1, <2>2 DEF DeadPages
    <2>4. NoStrayPte'
      BY <1>0, <2>1, <2>2 DEF NoStrayPte, Matching
    <2> QED
      BY <1>0, <2>1, <2>3, <2>4, ClearsOwned
  <1>6. ASSUME NEW p \in Procs, NEW i \in Slots, NEW S, NEW T, Removes(p, i, S, T) PROVE OK
    <2>1. /\ Clears(p, S, T) /\ UNCHANGED state
          /\ \A a \in Mapped(p) : Covers(vma[p][i], a) => a \in S
          /\ vma' = [vma EXCEPT ![p][i] = NoVma]
      BY <1>6 DEF Removes
    <2>2. \A q \in Procs : Mapped(q)' = IF q = p THEN Mapped(p) \ S ELSE Mapped(q)
      BY <1>0, <2>1, ClearsPages
    <2>3. DeadPages'
      BY <1>0, <2>1, <2>2 DEF DeadPages
    <2>4. \A q \in Procs, j \in Slots : vma'[q][j] = IF q = p /\ j = i THEN NoVma ELSE vma[q][j]
      BY <1>0, <2>1 DEF TypeOK
    <2>5. ASSUME NEW q \in Procs, NEW a \in Mapped(q)' PROVE Matching(q, a)' # {}
      <3>1. a \in Mapped(q) /\ (q = p => a \notin S)
        BY <2>2
      <3>2. PICK j \in Slots : Covers(vma[q][j], a)
        BY <1>0, <3>1 DEF NoStrayPte, Matching
      <3>3. ~(q = p /\ j = i)
        BY <2>1, <3>1, <3>2
      <3>4. vma'[q][j] = vma[q][j]
        BY <2>4, <3>3
      <3>5. j \in Matching(q, a)'
        BY <3>2, <3>4 DEF Matching
      <3> QED
        BY <3>5
    <2>6. NoStrayPte'
      BY <2>5 DEF NoStrayPte
    <2> QED
      BY <1>0, <2>1, <2>3, <2>6, ClearsOwned
  <1>7. ASSUME NEW p \in Procs, NEW a \in Pages, Store(p, a) PROVE OK
    <2>1. /\ pagetable[p][a] # None /\ pagetable' = [pagetable EXCEPT ![p][a].dirty = TRUE]
          /\ UNCHANGED <<state, vma, free>>
      BY <1>7 DEF Store
    <2>2. pagetable[p][a] \in Pte
      BY <1>0, <2>1 DEF TypeOK
    <2> DEFINE pte == [pagetable[p][a] EXCEPT !.dirty = TRUE]
    <2>3. pte \in Pte /\ pte.frame = pagetable[p][a].frame
      BY <2>2 DEF Pte
    <2>4. \A q \in Procs, b \in Pages :
             pagetable'[q][b] = IF q = p /\ b = a THEN pte ELSE pagetable[q][b]
      BY <1>0, <2>1 DEF TypeOK
    <2> HIDE DEF pte
    <2>5. pte # None
      BY <2>3, MmapAssumption DEF Pte
    <2>6. \A q \in Procs : Mapped(q)' = Mapped(q)
      BY <2>1, <2>4, <2>5 DEF Mapped
    <2>7. \A q \in Procs : \A b \in Mapped(q) : pagetable'[q][b].frame = pagetable[q][b].frame
      BY <2>3, <2>4 DEF Mapped
    <2>8. FramesOwned' /\ InMemory'
      BY <1>0, <2>1, <2>6, <2>7 DEF FramesOwned, InMemory
    <2>9. DeadPages' /\ NoStrayPte'
      BY <1>0, <2>1, <2>6 DEF DeadPages, NoStrayPte, Matching
    <2> QED
      BY <2>8, <2>9
  <1>8. ASSUME NEW p \in Procs, NEW a \in Pages, NEW odd \in Offsets, NEW fr \in Frames,
               NEW prot, Fills(p, a, odd, fr, prot) PROVE OK
    <2>1. odd = FALSE
      OBVIOUS
    <2>2. FaultPages(a, odd) = {a} /\ a \notin Mapped(p)
      BY <1>8, <2>1 DEF FaultPages, Fills, Remaps
    <2> DEFINE pte == [frame |-> fr + (a - a), perm |-> prot, shifted |-> odd, dirty |-> FALSE]
    <2>3. /\ state[p] = "RUNNING" /\ Matching(p, a) # {} /\ fr \in free /\ free' = free \ {fr}
          /\ UNCHANGED <<state, vma>>
          /\ pagetable' = [pagetable EXCEPT ![p] =
                 [b \in Pages |-> IF b \in FaultPages(a, odd)
                                  THEN [frame |-> fr + (b - a), perm |-> prot,
                                        shifted |-> odd, dirty |-> FALSE]
                                  ELSE @[b]]]
      BY <1>8 DEF Fills
    <2>4. \A q \in Procs, b \in Pages :
             pagetable'[q][b] = IF q = p /\ b = a THEN pte ELSE pagetable[q][b]
      BY <1>0, <2>2, <2>3 DEF TypeOK
    <2>5. pte.frame = fr
      BY MmapAssumption DEF Pages, Frames
    <2> HIDE DEF pte
    <2>6. \A q \in Procs : Mapped(q)' \subseteq IF q = p THEN Mapped(p) \cup {a} ELSE Mapped(q)
      BY <2>4 DEF Mapped
    <2>7. \A q \in Procs : \A b \in Mapped(q) : pagetable'[q][b].frame = pagetable[q][b].frame
      BY <2>2, <2>4 DEF Mapped
    <2>8. pagetable'[p][a].frame = fr
      BY <2>4, <2>5
    <2>9. \A q \in Procs : \A b \in Mapped(q) : pagetable[q][b].frame # fr
      BY <1>0, <2>3 DEF FramesOwned
    <2>10. DeadPages'
      BY <1>0, <2>3, <2>6 DEF DeadPages
    <2>11. NoStrayPte'
      BY <1>0, <2>3, <2>6 DEF NoStrayPte, Matching
    <2>12. ASSUME NEW q \in Procs, NEW b \in Mapped(q)'
           PROVE  \/ q = p /\ b = a /\ pagetable'[q][b].frame = fr
                  \/ b \in Mapped(q) /\ pagetable'[q][b].frame = pagetable[q][b].frame
                     /\ pagetable[q][b].frame # fr
      BY <2>6, <2>7, <2>8, <2>9
    <2>13. FramesOwned'
      <3>1. ASSUME NEW q \in Procs, NEW b \in Mapped(q)' PROVE pagetable'[q][b].frame \notin free'
        BY <1>0, <2>3, <2>12 DEF FramesOwned
      <3>2. ASSUME NEW q \in Procs, NEW r \in Procs, NEW b \in Mapped(q)', NEW c \in Mapped(r)',
                   pagetable'[q][b].frame = pagetable'[r][c].frame
            PROVE  q = r /\ b = c
        BY <1>0, <2>12, <3>2 DEF FramesOwned
      <3> QED
        BY <3>1, <3>2 DEF FramesOwned
    <2>14. InMemory'
      BY <1>0, <2>12 DEF InMemory
    <2> QED
      BY <2>10, <2>11, <2>13, <2>14
  <1>9. ASSUME NEW p \in Procs, NEW T, Exits(p, T) PROVE OK
    <2> DEFINE S == {a \in Mapped(p) : Matching(p, a) # {}}
    <2>1. /\ Clears(p, S, T)
          /\ state' = [state EXCEPT ![p] = "ZOMBIE"]
          /\ vma' = [vma EXCEPT ![p] = [i \in Slots |-> NoVma]]
      BY <1>9 DEF Exits
    <2>2. S = Mapped(p)
      BY <1>0 DEF NoStrayPte
    <2> HIDE DEF S
    <2>3. \A q \in Procs : Mapped(q)' = IF q = p THEN {} ELSE Mapped(q)
      BY <1>0, <2>1, <2>2, ClearsPages
    <2>4. DeadPages'
      BY <1>0, <2>1, <2>3 DEF DeadPages, TypeOK
    <2>5. \A q \in Procs : q # p => vma'[q] = vma[q]
      BY <1>0, <2>1 DEF TypeOK
    <2>6. NoStrayPte'
      BY <1>0, <2>3, <2>5 DEF NoStrayPte, Matching
    <2> QED
      BY <1>0, <2>1, <2>4, <2>6, ClearsOwned
  <1>10. ASSUME NEW p \in Procs, NEW np \in Procs, Fork(p, np) PROVE OK
    <2>1. /\ state[np] = "UNUSED" /\ UNCHANGED <<pagetable, free>>
          /\ state' = [state EXCEPT ![np] = "RUNNING"]
          /\ vma' = [vma EXCEPT ![np] =
                 [i \in Slots |-> IF vma[p][i].used = 1 THEN vma[p][i] ELSE @[i]]]
      BY <1>10 DEF Fork
    <2>2. \A q \in Procs : Mapped(q)' = Mapped(q)
      BY <2>1 DEF Mapped
    <2>3. Mapped(np) = {}
      BY <1>0, <2>1 DEF DeadPages
    <2>4. \A q \in Procs : q # np => vma'[q] = vma[q]
      BY <1>0, <2>1 DEF TypeOK
    <2>5. NoStrayPte'
      BY <1>0, <2>2, <2>3, <2>4 DEF NoStrayPte, Matching
    <2>6. DeadPages'
      BY <1>0, <2>1, <2>2, <2>3 DEF DeadPages, TypeOK
    <2>7. FramesOwned' /\ InMemory'
      BY <1>0, <2>1, <2>2 DEF FramesOwned, InMemory
    <2> QED
      BY <2>5, <2>6, <2>7
  <1>11. ASSUME NEW p \in Procs, Freeproc(p), state' = [state EXCEPT ![p] = "UNUSED"],
                UNCHANGED <<ofile, vma, pagetable, ref, free, panic>>
         PROVE  OK
    <2>1. state[p] = "ZOMBIE"
      BY <1>11 DEF Freeproc
    <2>2. \A q \in Procs : Mapped(q)' = Mapped(q) /\ \A a : Matching(q, a)' = Matching(q, a)
      BY <1>11 DEF Mapped, Matching
    <2>3. DeadPages'
      BY <1>0, <1>11, <2>1, <2>2 DEF DeadPages, TypeOK
    <2> QED
      BY <1>0, <1>11, <2>2, <2>3 DEF NoStrayPte, FramesOwned, InMemory
  <1>12. CASE UNCHANGED vars
    BY <1>2, <1>12 DEF vars
  <1> QED
    BY <1>0, <1>1, <1>3, <1>4, <1>5, <1>6, <1>7, <1>8, <1>9, <1>10, <1>11, <1>12, NextCases

\* The inductive invariant of the pages.
LEMMA PageInvariant == ASSUME Offsets \subseteq {FALSE} PROVE Spec => []PInv
  <1>1. Init => DeadPages /\ NoStrayPte /\ FramesOwned /\ InMemory
    <2> SUFFICES ASSUME Init PROVE DeadPages /\ NoStrayPte /\ FramesOwned /\ InMemory
      OBVIOUS
    <2>1. \A q \in Procs : Mapped(q) = {}
      BY DEF Init, Mapped, NoPages
    <2> QED
      BY <2>1 DEF DeadPages, NoStrayPte, FramesOwned, InMemory
  <1>2. ASSUME IInv, IInv', DeadPages, NoStrayPte, FramesOwned, InMemory, [Next]_vars PROVE PInv'
    BY <1>2, PagesStep DEF PInv
  <1>3. PInv <=> IInv /\ DeadPages /\ NoStrayPte /\ FramesOwned /\ InMemory
    BY DEF PInv
  <1> QED
    BY <1>1, <1>2, <1>3, CountInvariant, PTL DEF Spec

\* Every PTE of the region belongs to a VMA: munmap and exit leave no page behind
\* for freewalk in wait() to stumble on, as long as faults are on first bytes.
THEOREM NoStrayPteCorrect == ASSUME Offsets \subseteq {FALSE} PROVE Spec => []NoStrayPte
  <1>1. PInv => NoStrayPte
    BY DEF PInv
  <1> QED
    BY <1>1, PageInvariant, PTL

\* No physical page is in two PTEs or in one and on the free list, although fork,
\* munmap, exit and the page fault hand pages around: kfree never frees one twice.
THEOREM FramesOwnedCorrect == ASSUME Offsets \subseteq {FALSE} PROVE Spec => []FramesOwned
  <1>1. PInv => FramesOwned
    BY DEF PInv
  <1> QED
    BY <1>1, PageInvariant, PTL

\* What fork relies on and allocproc does not establish: the entry of the process
\* table that it fills has no descriptor, no VMA and no page of its last process.
THEOREM DeadHoldsNothingCorrect == ASSUME Offsets \subseteq {FALSE} PROVE Spec => []DeadHoldsNothing
  <1>1. PInv => DeadHoldsNothing
    BY DEF PInv, IInv, DeadTables, DeadPages, DeadHoldsNothing
  <1> QED
    BY <1>1, PageInvariant, PTL

-----------------------------------------------------------------------------
(* What the kernel's own checks never see.                                 *)

\* kfree gets no page that is free, gone twice, or no page at all.
LEMMA GoodFree ==
  ASSUME PInv, NEW p \in Procs, NEW S, S \subseteq Mapped(p)
  PROVE  ~BadFree(p, S)
  <1>1. \A a \in S : a \in Mapped(p) /\ pagetable[p][a].frame \in Frames
                     /\ pagetable[p][a].frame \notin free
    BY DEF PInv, InMemory, FramesOwned
  <1>2. \A a, b \in S : pagetable[p][a].frame = pagetable[p][b].frame => a = b
    BY DEF PInv, FramesOwned
  <1> QED
    BY <1>1, <1>2 DEF BadFree, FramesOf

\* What a process holds of a file has been counted.
LEMMA GoodRef ==
  ASSUME IInv, panic = "no", NEW p \in Procs, NEW f \in Files
  PROVE  /\ ~(ref[f] < Held(p, f))
         /\ \A d \in Fds : ofile[p][d] = f => ~(ref[f] < 1)
         /\ \A i \in Slots : vma[p][i].used = 1 /\ vma[p][i].file = f => ~(ref[f] < 1)
  <1> DEFINE FdRest  == {x \in FdHolders(f) : x[1] # p}
             VmaRest == {x \in VmaHolders(f) : x[1] # p}
             hf == Cardinality(FdRefs(p, f))
             hv == Cardinality(VmaRefs(p, f))
  <1>1. ref[f] = Cardinality(FdHolders(f)) + Cardinality(VmaHolders(f))
    BY DEF IInv, FileRefs
  <1>2. /\ Cardinality(FdRest) \in Nat /\ Cardinality(VmaRest) \in Nat /\ hf \in Nat /\ hv \in Nat
        /\ Cardinality(FdHolders(f)) = Cardinality(FdRest) + hf
        /\ Cardinality(VmaHolders(f)) = Cardinality(VmaRest) + hv
    BY HoldersRow
  <1>3. Held(p, f) = hf + hv
    BY DEF Held
  <1>4. ASSUME NEW d \in Fds, ofile[p][d] = f PROVE hf # 0
    <2>1. d \in FdRefs(p, f)
      BY <1>4 DEF FdRefs
    <2> QED
      BY <2>1, HeldNat, FS_EmptySet
  <1>5. ASSUME NEW i \in Slots, vma[p][i].used = 1 /\ vma[p][i].file = f PROVE hv # 0
    <2>1. i \in VmaRefs(p, f)
      BY <1>5 DEF VmaRefs
    <2> QED
      BY <2>1, HeldNat, FS_EmptySet
  <1> HIDE DEF FdRest, VmaRest, hf, hv
  <1> QED
    BY <1>1, <1>2, <1>3, <1>4, <1>5

\* The panics and the double free that the counts and the page tables rule out.
Impossible == {"kfree", "fileclose", "freewalk: leaf"}
NoBadPanic == panic \notin Impossible

\* exit goes through.
LEMMA ExitGoesThrough ==
  ASSUME PInv, panic = "no", NEW p \in Procs, ExitProc(p)
  PROVE  panic' = "no"
  <1> DEFINE freed == {a \in {b \in Mapped(p) : Matching(p, b) # {}} :
                          FreesPages(vma[p][Min(Matching(p, a))])}
  <1>1. ~(\E f \in Files : ref[f] < Held(p, f))
    BY GoodRef DEF PInv
  <1>2. ~BadFree(p, freed)
    BY GoodFree
  <1> QED
    BY <1>1, <1>2 DEF ExitProc

\* munmap goes through.
LEMMA MunmapGoesThrough ==
  ASSUME PInv, panic = "no", NEW p \in Procs, NEW start \in Pages, NEW stop \in Nat,
         Munmap(p, start, stop)
  PROVE  LET v == vma[p][Min(Matching(p, start))]
             gone == InRange(p, start, stop)
             wb == WriteBack(p, v, start, stop)
             failed == WriteFailed(v, wb, stop)
             done == {a \in gone : ~NeedsWriteBack(v) \/ wb[a + 1] # -1}
         IN  /\ panic' = "no"
             /\ NeedsWriteBack(v) =>
                   saved' = [saved EXCEPT ![v.file] = @ \cup
                               {FilePage(v, a) : a \in {b \in done : pagetable[p][b].dirty}}]
             /\ pagetable' = [pagetable EXCEPT ![p] =
                   [a \in Pages |-> IF a \in gone /\ ~failed THEN None ELSE @[a]]]
  <1> DEFINE i == Min(Matching(p, start))
             v == vma[p][i]
             gone == InRange(p, start, stop)
             wb == WriteBack(p, v, start, stop)
             failed == WriteFailed(v, wb, stop)
             freed == IF FreesPages(v) /\ ~failed THEN gone ELSE {}
             closes == Whole(v, start, stop) /\ ~failed
  <1>1. i \in Slots /\ v.used = 1
    <2>1. i \in Matching(p, start)
      BY FirstSlot DEF Munmap, Matching
    <2> QED
      BY <2>1 DEF Matching, Covers
  <1>2. v.file \in Files
    BY <1>1 DEF PInv, IInv, TypeOK, Vma, NoVma
  <1>3. ~BadFree(p, freed)
    <2>1. freed \subseteq Mapped(p)
      BY DEF InRange
    <2> QED
      BY <2>1, GoodFree
  <1>4. ~(ref[v.file] < 1)
    BY <1>1, <1>2, GoodRef DEF PInv
  <1> QED
    BY <1>3, <1>4 DEF Munmap

\* The kernel's checks in kfree, fileclose and freewalk never fail, whatever the
\* programs map, unmap, fork and touch, as long as faults are on first bytes.
THEOREM NoBadPanicCorrect == ASSUME Offsets \subseteq {FALSE} PROVE Spec => []NoBadPanic
  <1>1. Init => NoBadPanic
    BY DEF Init, NoBadPanic, Impossible
  <1>2. ASSUME PInv, NoBadPanic, [Next]_vars PROVE NoBadPanic'
    <2>0. "no" \notin Impossible
      BY DEF Impossible
    <2>1. CASE UNCHANGED panic
      BY <1>2, <2>1 DEF NoBadPanic
    <2>2. ASSUME NEW p \in Procs, NEW d \in Fds, Close(p, d) PROVE NoBadPanic'
      <3>1. panic = "no" /\ ofile[p][d] \in Files
        BY <1>2, <2>2 DEF Close, Alive, PInv, IInv, TypeOK
      <3>2. ~(ref[ofile[p][d]] < 1)
        BY <1>2, <3>1, GoodRef DEF PInv
      <3> QED
        BY <2>1, <2>2, <3>2 DEF Close
    <2>3. ASSUME NEW p \in Procs, NEW start \in Pages, NEW stop \in 0..TOP, Munmap(p, start, stop)
          PROVE  NoBadPanic'
      <3>1. panic = "no" /\ stop \in Nat
        BY <2>3, MmapAssumption DEF Munmap, Alive
      <3> QED
        BY <1>2, <2>0, <2>3, <3>1, MunmapGoesThrough DEF NoBadPanic
    <2>4. ASSUME NEW p \in Procs, panic = "no", ExitProc(p) PROVE NoBadPanic'
      BY <1>2, <2>0, <2>4, ExitGoesThrough DEF NoBadPanic
    <2>5. ASSUME NEW p \in Procs, NEW a \in Pages, NEW odd \in Offsets, NEW write \in BOOLEAN,
                 PageFault(p, a, odd, write) PROVE NoBadPanic'
      <3>1. \/ Panics("page fault trap: no matching VMA") \/ Panics("init exiting")
            \/ Panics("mappages: remap") \/ (ExitProc(p) /\ panic = "no") \/ UNCHANGED panic
        BY <2>5 DEF PageFault, Alive
      <3> QED
        BY <2>1, <2>4, <3>1 DEF Panics, NoBadPanic, Impossible
    <2>6. ASSUME NEW p \in Procs, NEW len, NEW prot, NEW flags, NEW d \in Fds, NEW off,
                 Mmap(p, len, prot, flags, d, off) PROVE NoBadPanic'
      <3>1. \/ Panics("kerneltrap") \/ Panics("syscall mmap") \/ Panics("filedup")
            \/ UNCHANGED panic
        BY <2>6 DEF Mmap
      <3> QED
        BY <2>1, <3>1 DEF Panics, NoBadPanic, Impossible
    <2>7. ASSUME NEW p \in Procs, Freeproc(p) PROVE NoBadPanic'
      <3>1. Mapped(p) = {}
        BY <1>2, <2>7 DEF Freeproc, PInv, DeadPages
      <3> QED
        BY <2>1, <2>7, <3>1 DEF Freeproc
    <2>8. ASSUME NEW p \in Procs, Exec(p) PROVE NoBadPanic'
      BY <2>8 DEF Exec, Panics, NoBadPanic, Impossible
    <2>9. ASSUME NEW p \in Procs, Exit(p) PROVE NoBadPanic'
      BY <2>4, <2>9 DEF Exit, Alive
    <2>10. CASE OtherStep
      <3>1. ASSUME NEW p \in Procs, NEW m, NEW n, Open(p, m, n) PROVE UNCHANGED panic
        BY <3>1 DEF Open
      <3>2. ASSUME NEW p \in Procs, NEW d \in Fds, Dup(p, d) PROVE UNCHANGED panic
        BY <3>2 DEF Dup
      <3>3. ASSUME NEW p \in Procs, NEW a \in Pages, Store(p, a) PROVE UNCHANGED panic
        BY <3>3 DEF Store
      <3>4. ASSUME NEW p \in Procs, NEW np \in Procs, Fork(p, np) PROVE UNCHANGED panic
        BY <3>4 DEF Fork
      <3>5. Halted => UNCHANGED panic
        BY DEF Halted, vars
      <3> QED
        BY <2>1, <2>2, <2>5, <2>6, <2>7, <2>8, <2>9, <2>10, <3>1, <3>2, <3>3, <3>4, <3>5
           DEF OtherStep
    <2>11. UNCHANGED vars => UNCHANGED panic
      BY DEF vars
    <2> QED
      BY <1>2, <2>1, <2>3, <2>10, <2>11 DEF Next, MunmapStep
  <1> QED
    BY <1>1, <1>2, PageInvariant, PTL DEF Spec

\* A munmap within one VMA unmaps no modified page of a shared mapping that is not
\* in the file: sys_munmap writes all of them or returns before uvmunmap.
THEOREM MunmapSavesCorrect == ASSUME Offsets \subseteq {FALSE} PROVE Spec => MunmapSaves
  <1> DEFINE Saves ==
        pagetable' # pagetable =>
          \A p \in Procs : \A start \in Mapped(p), stop \in Pages, i \in Slots :
            /\ start <= stop
            /\ \A a \in start..stop : Matching(p, a) = {i}
            /\ Munmap(p, start, stop + 1)
            => \A a \in InRange(p, start, stop + 1) :
                  \/ pagetable'[p][a] # None
                  \/ ~pagetable[p][a].dirty
                  \/ ~NeedsWriteBack(vma[p][i])
                  \/ FilePage(vma[p][i], a) \in saved'[vma[p][i].file]
  <1>1. ASSUME PInv, NEW p \in Procs, NEW start \in Mapped(p), NEW stop \in Pages, NEW i \in Slots,
               start <= stop, \A a \in start..stop : Matching(p, a) = {i},
               Munmap(p, start, stop + 1), NEW a \in InRange(p, start, stop + 1),
               pagetable'[p][a] = None, pagetable[p][a].dirty, NeedsWriteBack(vma[p][i])
        PROVE  FilePage(vma[p][i], a) \in saved'[vma[p][i].file]
    <2> DEFINE v == vma[p][i]
               gone == InRange(p, start, stop + 1)
               wb == WriteBack(p, v, start, stop + 1)
               done == {b \in gone : ~NeedsWriteBack(v) \/ wb[b + 1] # -1}
    <2>0. TypeOK /\ panic = "no" /\ start \in Pages /\ start \in Nat /\ stop \in Nat /\ stop + 1 \in Nat
      BY <1>1, MmapAssumption DEF PInv, IInv, Munmap, Alive, Mapped, Pages
    <2>1. Matching(p, start) = {i}
      BY <1>1, <2>0
    <2>2. Min(Matching(p, start)) = i
      BY <2>1, FirstSlot
    <2>3. v.used = 1
      BY <2>1 DEF Matching, Covers
    <2>4. v.file \in Files /\ v.addr \in Int /\ v.offset \in Int /\ size[v.file] \in Nat
      <3>1. v \in Vma
        BY <2>0, <2>3 DEF TypeOK, NoVma
      <3> QED
        BY <2>0, <3>1 DEF TypeOK, Vma
    <2>5. /\ saved' = [saved EXCEPT ![v.file] = @ \cup
                         {FilePage(v, b) : b \in {c \in done : pagetable[p][c].dirty}}]
          /\ pagetable' = [pagetable EXCEPT ![p] =
                [b \in Pages |-> IF b \in gone /\ ~WriteFailed(v, wb, stop + 1) THEN None ELSE @[b]]]
      BY <1>1, <2>0, <2>2, MunmapGoesThrough
    <2>6. /\ a \in Pages /\ pagetable[p][a] # None
          /\ a + 1 \in start..(stop + 1) /\ start <= stop + 1
      BY <1>1, <2>0, MmapAssumption DEF InRange, Mapped, Pages
    <2>7. ~WriteFailed(v, wb, stop + 1)
      BY <1>1, <2>0, <2>5, <2>6 DEF TypeOK
    <2>8. wb[stop + 1] # -1
      BY <1>1, <2>7 DEF WriteFailed
    <2>9. wb[a + 1] # -1
      BY <2>0, <2>4, <2>6, <2>8, WriteBackFails
    <2>10. a \in done /\ pagetable[p][a].dirty
      BY <1>1, <2>9
    <2> HIDE DEF done, v
    <2>11. saved'[v.file] = saved[v.file] \cup
                {FilePage(v, b) : b \in {c \in done : pagetable[p][c].dirty}}
      BY <2>0, <2>4, <2>5 DEF TypeOK
    <2> QED
      BY <2>10, <2>11 DEF v
  <1>2. ASSUME PInv, [Next]_vars PROVE [Saves]_vars
    BY <1>1, <1>2
  <1> QED
    BY <1>2, PageInvariant, PTL DEF Spec, MunmapSaves
=============================================================================
