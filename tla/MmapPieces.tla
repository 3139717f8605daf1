----------------------------- MODULE MmapPieces -----------------------------
(***************************************************************************)
(* Mmap with a history of the pages of each VMA that munmap has removed    *)
(* since the VMA was made: the code keeps no such record, it compares each *)
(* call with the whole region.                                             *)
(***************************************************************************)
EXTENDS Mmap, TLC

VARIABLE removed   \* the pages of p->vma[i] that munmap calls have removed

pieceVars == <<vars, removed>>

NothingRemoved == [p \in Procs |-> [i \in Slots |-> {}]]

\* A new or a freed entry starts afresh.
Kept(r) == [p \in Procs |-> [i \in Slots |->
              IF vma'[p][i] = vma[p][i] THEN r[p][i] ELSE {}]]

PieceInit == Init /\ removed = NothingRemoved

PieceNext ==
    \/ OtherStep /\ removed' = Kept(removed)
    \/ \E p \in Procs, start \in Pages, stop \in 0..TOP :
        /\ MunmapStep(p, start, stop)
        /\ LET i == Min(Matching(p, start))
               pages == start..(stop - 1)
           IN  removed' = IF \A a \in pages : pagetable'[p][a] = None
                          THEN Kept([removed EXCEPT ![p][i] = @ \cup pages])
                          ELSE removed

PieceSpec == PieceInit /\ [][PieceNext]_pieceVars

\* sysfile.c: "If munmap removes all pages of a previous mmap, it should
\* decrease the reference count of the corresponding struct file": a VMA whose
\* pages are all removed is not in use any more.
RemovedVmaReleased ==
    \A p \in Procs, i \in Slots :
        vma[p][i].used = 1 =>
            ~(vma[p][i].addr..(end(vma[p][i]) - 1) \subseteq removed[p][i])
=============================================================================
