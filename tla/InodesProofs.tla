---------------------------- MODULE InodesProofs ----------------------------
(***************************************************************************)
(* Proofs about the inode table of HW4/source/fs.c and the system calls    *)
(* that use it, for any number of processes, names and inodes: reference   *)
(* counts, link counts, and when an inode is freed.                        *)
(***************************************************************************)
EXTENDS Inodes, Counting

Ops == {"none", "open", "O_NOFOLLOW", "O_CREATE", "close", "symlink", "link", "unlink"}
Afters == {"idle", "release dir", "namei target"}
Thread == [pc : Pcs, op : Ops, name : Names \cup {NoName}, arg : Names \cup {NoName},
           ino : Inums \cup {0}, retry : 0..MAXLINKS, nul : Int, after : Afters]

Types == TypeOK /\ th \in [Procs -> Thread]

NoInoPcs   == {"idle", "namei", "namei target", "create", "release dir", "unlink"}
PutPcs     == {"iunlock", "iput", "free", "freed", "iput end"}
NewPcs     == {"ialloc", "create ilock", "create nlink", "dirlink"}
UnlinkPcs  == {"unlink ilock", "unlink entry"}
LockedPcs  == {"iunlock", "free", "freed", "locked", "create nlink", "dirlink", "writei",
               "unlink entry", "unlink nlink", "bad nlink"}
LinkPcs    == {"link", "bad", "bad nlink"}
CountedPcs == {"dirlink", "unlink nlink"} \cup LinkPcs
DonePcs    == {"freed", "iput end"}

\* Where a system call can be, and the locals that it has there.
Place(p) ==
    /\ ip(p) = 0 <=> th[p].pc \in NoInoPcs
    /\ th[p].pc \in {"create", "writei"} \cup NewPcs => op(p) \in {"O_CREATE", "symlink"}
    /\ th[p].pc \in {"unlink", "unlink nlink"} \cup UnlinkPcs => op(p) = "unlink"
    /\ th[p].pc \in LinkPcs => op(p) = "link"
    /\ th[p].pc = "writei" => op(p) = "symlink"
    /\ op(p) \in {"O_CREATE", "symlink", "link", "unlink"} => th[p].name \in Names
    /\ op(p) \in {"symlink", "link"} => th[p].arg \in Names
    /\ op(p) \in {"open", "O_NOFOLLOW", "O_CREATE"} => fdino[p] = 0
    /\ th[p].after = "release dir" => th[p].pc \in PutPcs \cup {"release dir"}
    /\ th[p].after = "namei target" => op(p) = "open"
    /\ \/ th[p].pc \in PutPcs /\ th[p].after = "namei target"
       \/ th[p].pc \in {"namei target", "ilock target"}
       => th[p].retry < MAXLINKS

Places == \A p \in Procs : Place(p)

\* The lock of an inode and that of the directory are held where the code
\* between their acquire and release is.
HoldsDir(p) ==
    \/ th[p].pc \in NewPcs \cup UnlinkPcs \cup {"release dir"}
    \/ th[p].pc \in PutPcs /\ th[p].after = "release dir"

InodeLocks ==
    /\ \A p \in Procs : th[p].pc \in LockedPcs => ilk[ip(p)] = p
    /\ \A i \in Inums : ilk[i] # None => ip(ilk[i]) = i /\ th[ilk[i]].pc \in LockedPcs

DirLock == \A p \in Procs : dlock = p <=> HoldsDir(p)

\* Nothing changes the name that a system call has looked up while it has the
\* directory.
LookedUp ==
    \A p \in Procs :
        /\ th[p].pc \in NewPcs => entry[th[p].name] = 0
        /\ th[p].pc \in UnlinkPcs => entry[th[p].name] = ip(p)

\* A new inode is unknown to everybody else, except who still holds the entry of
\* the old one; so is an inode that iput frees.
NewInodes ==
    \A p \in Procs : th[p].pc \in NewPcs =>
        /\ \A q \in Procs \ {p} : ip(q) = ip(p) => th[q].pc \in DonePcs
        /\ \A q \in Procs : fdino[q] # ip(p)
        /\ disk[ip(p)].nlink = IF th[p].pc = "dirlink" THEN 1 ELSE 0

Freeing ==
    \A p \in Procs : th[p].pc = "free" =>
        /\ \A q \in Procs \ {p} : ip(q) # ip(p)
        /\ \A q \in Procs : fdino[q] # ip(p)
        /\ mem[ip(p)].nlink = 0

\* A free inode has no links, and an entry in use that is valid says what is on
\* disk, except after its inode is freed.
Cached ==
    /\ \A i \in Inums : disk[i].type = "free" => disk[i].nlink = 0
    /\ \A p \in Procs : th[p].pc \in LockedPcs => valid[ip(p)]
    /\ \A i \in Inums : ref[i] > 0 /\ valid[i] =>
          \/ mem[i] = disk[i] /\ disk[i].type # "free"
          \/ \E p \in Procs : ip(p) = i /\ th[p].pc = "freed"

\* None of the kernel's checks in ilock and sys_unlink fails.
NoPanic == panic = "no"

Counts == RefCounts /\ LinkCounts
Owners == NewInodes /\ Freeing /\ NoUseAfterFree

IInv ==
    /\ Types /\ Places /\ InodeLocks /\ DirLock /\ LookedUp
    /\ Owners /\ Cached /\ Counts /\ NoPanic

-----------------------------------------------------------------------------
(* What a step of process p does: the new pc l and the inode i it has then. *)

Goes(p, l, i) ==
    /\ th'[p].pc = l /\ th'[p].ino = i
    /\ \A q \in Procs \ {p} : th'[q] = th[q]

SameDir(p) == HoldsDir(p)' <=> HoldsDir(p)

\* The steps that look at things only.
Local(p, l) ==
    /\ Goes(p, l, ip(p)) /\ ~HoldsDir(p) /\ ~HoldsDir(p)'
    /\ th[p].pc \in LockedPcs <=> l \in LockedPcs
    /\ th[p].pc \in CountedPcs <=> l \in CountedPcs
    /\ th[p].pc \notin {"free"} \cup DonePcs /\ l \notin {"free"} \cup DonePcs
    /\ UNCHANGED <<entry, dlock, disk, table, fdino, panic>>

\* iunlock, and the steps of iput.
Unlocks(p) ==
    /\ th[p].pc = "iunlock" /\ Goes(p, "iput", ip(p)) /\ SameDir(p)
    /\ ilk' = [ilk EXCEPT ![ip(p)] = None]
    /\ UNCHANGED <<entry, dlock, disk, ref, valid, mem, fdino, panic>>

Drops(p, l) ==
    /\ th[p].pc \in {"iput", "iput end"} /\ (th[p].pc = "iput" => ~LastRef(ip(p)))
    /\ l \in Afters /\ Goes(p, l, 0) /\ SameDir(p)
    /\ ref' = [ref EXCEPT ![ip(p)] = @ - 1]
    /\ UNCHANGED <<entry, dlock, disk, valid, mem, ilk, fdino, panic>>

LastPut(p) ==
    /\ th[p].pc = "iput" /\ LastRef(ip(p)) /\ Goes(p, "free", ip(p)) /\ SameDir(p)
    /\ ilk[ip(p)] = None /\ ilk' = [ilk EXCEPT ![ip(p)] = p]
    /\ UNCHANGED <<entry, dlock, disk, ref, valid, mem, fdino, panic>>

Frees(p) ==
    /\ th[p].pc = "free" /\ Goes(p, "freed", ip(p)) /\ SameDir(p)
    /\ mem' = [mem EXCEPT ![ip(p)].type = "free"]
    /\ disk' = [disk EXCEPT ![ip(p)] = mem'[ip(p)]]
    /\ UNCHANGED <<entry, dlock, ref, valid, ilk, fdino, panic>>

Releases(p) ==
    /\ th[p].pc = "freed" /\ Goes(p, "iput end", ip(p)) /\ SameDir(p)
    /\ valid' = [valid EXCEPT ![ip(p)] = FALSE]
    /\ ilk' = [ilk EXCEPT ![ip(p)] = None]
    /\ UNCHANGED <<entry, dlock, disk, ref, mem, fdino, panic>>

\* The name n is found, and its inode i got from the table.
Finds(p, n, i, l) ==
    /\ th[p].pc \in {"namei", "namei target", "create", "unlink"}
    /\ dlock = None /\ entry[n] = i /\ iget(i) /\ Goes(p, l, i)
    /\ l \in {"ilock", "ilock target", "unlink ilock"}
    /\ l = "unlink ilock" => th'[p].name = n
    /\ HoldsDir(p)' <=> l = "unlink ilock"
    /\ dlock' = IF l = "unlink ilock" THEN p ELSE dlock
    /\ UNCHANGED <<entry, disk, mem, ilk, fdino, panic>>

\* ilock.
NextLocked(l) == CASE l = "create ilock" -> "create nlink"
                   [] l = "unlink ilock" -> "unlink entry"
                   [] l = "bad" -> "bad nlink"
                   [] OTHER -> "locked"

Locks(p) ==
    /\ th[p].pc \in {"ilock", "ilock target", "create ilock", "unlink ilock", "bad"}
    /\ ilock(p, ip(p)) /\ Goes(p, NextLocked(th[p].pc), ip(p)) /\ SameDir(p)
    /\ th'[p].name = th[p].name
    /\ UNCHANGED <<entry, dlock, disk, ref, fdino>>

\* The end of open, and close.
Opens(p) ==
    /\ th[p].pc = "locked" /\ fdino[p] = 0 /\ Goes(p, "idle", 0) /\ SameDir(p)
    /\ ilk' = [ilk EXCEPT ![ip(p)] = None]
    /\ fdino' = [fdino EXCEPT ![p] = ip(p)]
    /\ UNCHANGED <<entry, dlock, disk, ref, valid, mem, panic>>

Closes(p) ==
    /\ th[p].pc = "idle" /\ fdino[p] # 0 /\ Goes(p, "iput", fdino[p]) /\ SameDir(p)
    /\ fdino' = [fdino EXCEPT ![p] = 0]
    /\ UNCHANGED <<entry, dlock, disk, table, panic>>

\* ialloc: inode i is marked, and then got from the table.
Marks(p, i, ty) ==
    /\ th[p].pc = "create" /\ dlock = None /\ disk[i].type = "free"
    /\ Goes(p, "ialloc", i) /\ entry[th'[p].name] = 0
    /\ disk' = [disk EXCEPT ![i] = [type |-> ty, nlink |-> 0]]
    /\ dlock' = p
    /\ UNCHANGED <<entry, table, fdino, panic>>

GetsNew(p) ==
    /\ th[p].pc = "ialloc" /\ iget(ip(p)) /\ Goes(p, "create ilock", ip(p))
    /\ th'[p].name = th[p].name
    /\ UNCHANGED <<entry, dlock, disk, mem, ilk, fdino, panic>>

\* The link count of a locked inode becomes n, in memory and on disk.
Relinks(p, l, n) ==
    /\ SetNlink(ip(p), n) /\ Goes(p, l, ip(p)) /\ SameDir(p)
    /\ \/ th[p].pc = "create nlink" /\ l = "dirlink" /\ n = 1 /\ th'[p].name = th[p].name
       \/ th[p].pc = "dirlink" /\ l = "iunlock" /\ n = 0
       \/ th[p].pc \in {"unlink nlink", "bad nlink"} /\ l = "iunlock" /\ n = mem[ip(p)].nlink - 1
       \/ th[p].pc = "locked" /\ l = "link" /\ n = mem[ip(p)].nlink + 1
    /\ ilk' = IF l = "link" THEN [ilk EXCEPT ![ip(p)] = None] ELSE ilk
    /\ UNCHANGED <<entry, dlock, ref, valid, fdino, panic>>

\* The name n is written to the directory.
Enters(p, n, l) ==
    /\ dlock = IF th[p].pc = "dirlink" THEN p ELSE None
    /\ dlock' = None
    /\ entry[n] = 0 /\ n \in Names /\ Goes(p, l, ip(p)) /\ ~HoldsDir(p)'
    /\ entry' = [entry EXCEPT ![n] = ip(p)]
    /\ \/ th[p].pc = "dirlink" /\ l \in {"locked", "writei"}
       \/ th[p].pc = "link" /\ l = "iput"
    /\ UNCHANGED <<disk, table, fdino, panic>>

\* sys_unlink clears the entry of its name.
Clears(p) ==
    /\ th[p].pc = "unlink entry" /\ Goes(p, "unlink nlink", ip(p)) /\ ~HoldsDir(p)'
    /\ panic' = IF mem[ip(p)].nlink < 1 THEN "unlink: nlink < 1" ELSE panic
    /\ entry' = [entry EXCEPT ![th[p].name] = 0]
    /\ dlock' = None
    /\ UNCHANGED <<disk, table, fdino>>

LeavesDir(p) ==
    /\ th[p].pc = "release dir" /\ Goes(p, "idle", 0) /\ ~HoldsDir(p)'
    /\ dlock' = None
    /\ UNCHANGED <<entry, disk, table, fdino, panic>>

Case(p) ==
    \/ \E l \in Pcs : Local(p, l) \/ Drops(p, l)
    \/ Unlocks(p) \/ LastPut(p) \/ Frees(p) \/ Releases(p) \/ Locks(p) \/ Opens(p) \/ Closes(p)
    \/ \E n \in Names, i \in Inums, l \in Pcs : Finds(p, n, i, l)
    \/ \E i \in Inums, ty \in {"T_FILE", "T_SYMLINK"} : Marks(p, i, ty)
    \/ GetsNew(p) \/ Clears(p) \/ LeavesDir(p)
    \/ \E l \in Pcs, n \in Int : Relinks(p, l, n)
    \/ \E n \in Names, l \in Pcs : Enters(p, n, l)

Moved(p) == Place(p)' /\ th' \in [Procs -> Thread] /\ target' \in [Inums -> Names \cup {NoName}]

\* 0 is no inode number.
LEMMA InumsAboveZero == 0 \notin Inums
  <1>1. NINODES \in Nat
    BY InodesAssumption
  <1> QED
    BY <1>1 DEF Inums

\* What the locals of a process can be.
LEMMA ThreadFields ==
  ASSUME NEW t \in Thread
  PROVE  /\ t.pc \in Pcs /\ t.op \in Ops /\ t.name \in Names \cup {NoName}
         /\ t.arg \in Names \cup {NoName} /\ t.ino \in Inums \cup {0} /\ t.retry \in 0..MAXLINKS
         /\ t.nul \in Int /\ t.after \in Afters
  BY DEF Thread

Keeps(p) ==
    /\ th'[p].op = op(p) /\ th'[p].name = th[p].name /\ th'[p].arg = th[p].arg
    /\ th'[p].retry = th[p].retry

\* A step that goes to l,
LEMMA GotoMoves ==
  ASSUME th \in [Procs -> Thread], NEW p \in Procs, NEW l \in Pcs, Goto(p, l)
  PROVE  /\ Goes(p, l, ip(p)) /\ Keeps(p) /\ th'[p].after = th[p].after
         /\ th' \in [Procs -> Thread]
  BY DEF Goes, Keeps, ip, op, Thread, Goto

\* and to a after the reference has been put.
LEMMA PutMoves ==
  ASSUME th \in [Procs -> Thread], NEW p \in Procs, NEW a \in Afters, UnlockPut(p, a)
  PROVE  /\ Goes(p, "iunlock", ip(p)) /\ Keeps(p) /\ th'[p].after = a
         /\ th' \in [Procs -> Thread]
  <1>1. "iunlock" \in Pcs
    BY DEF Pcs
  <1> QED
    BY <1>1 DEF Goes, Keeps, ip, op, Thread, UnlockPut

\* A process that is in no system call.
LEMMA IdleThread ==
  /\ Idle \in Thread /\ Idle.pc = "idle" /\ Idle.ino = 0 /\ Idle.op = "none"
  /\ Idle.after = "idle" /\ Idle.retry = 0
  <1>1. "idle" \in Pcs /\ "none" \in Ops /\ "idle" \in Afters /\ 0 \in 0..MAXLINKS
    BY InodesAssumption DEF Pcs, Ops, Afters
  <1> QED
    BY <1>1 DEF Idle, Thread

\* The end of a system call.
LEMMA ReturnMoves ==
  ASSUME th \in [Procs -> Thread], NEW p \in Procs, Return(p)
  PROVE  /\ Goes(p, "idle", 0) /\ th'[p].op = "none" /\ th'[p].after = "idle"
         /\ th' \in [Procs -> Thread]
  BY IdleThread DEF Goes, Return

\* An inode is found, and the step goes to l.
LEMMA InoMoves ==
  ASSUME th \in [Procs -> Thread], NEW p \in Procs, NEW l \in Pcs, NEW i \in Inums \cup {0},
         th' = [th EXCEPT ![p].pc = l, ![p].ino = i]
  PROVE  /\ Goes(p, l, i) /\ Keeps(p) /\ th'[p].after = th[p].after
         /\ th' \in [Procs -> Thread]
  <1> DEFINE t == [th[p] EXCEPT !.pc = l, !.ino = i]
  <1>1. th[p] \in Thread
    OBVIOUS
  <1>2. /\ t \in Thread /\ t.pc = l /\ t.ino = i /\ t.op = th[p].op /\ t.name = th[p].name
        /\ t.arg = th[p].arg /\ t.retry = th[p].retry /\ t.after = th[p].after
    BY <1>1 DEF Thread
  <1>3. th' = [th EXCEPT ![p] = t]
    BY <1>1 DEF Thread
  <1> HIDE DEF t
  <1>4. th' \in [Procs -> Thread] /\ th'[p] = t /\ \A q \in Procs \ {p} : th'[q] = th[q]
    BY <1>2, <1>3
  <1> QED
    BY <1>2, <1>4 DEF Goes, Keeps, op

\* ref-- and what follows.
LEMMA DropCases ==
  ASSUME Types, NEW p \in Procs, Place(p), DropRef(p),
         th[p].pc = "iput end" \/ (th[p].pc = "iput" /\ ~LastRef(ip(p))), panic = "no"
  PROVE  Case(p) /\ Moved(p)
  <1> USE DEF NoInoPcs, PutPcs, NewPcs, UnlinkPcs, LinkPcs, LockedPcs, CountedPcs, DonePcs
  <1>0. th \in [Procs -> Thread] /\ th[p] \in Thread /\ th[p].after \in Afters
    BY DEF Types, Thread
  <1>1. UNCHANGED <<target, fdino>> /\ target' \in [Inums -> Names \cup {NoName}]
    BY DEF DropRef, Types, TypeOK
  <1>2. CASE th[p].after = "idle"
    <2>1. Goes(p, "idle", 0) /\ th'[p].op = "none" /\ th'[p].after = "idle" /\ th' \in [Procs -> Thread]
      BY <1>0, <1>2, ReturnMoves DEF DropRef
    <2>2. Moved(p)
      BY <1>1, <2>1 DEF Moved, Place, Keeps, Goes, ip, op
    <2>3. Drops(p, "idle")
      BY <1>2, <2>1 DEF DropRef, Drops, SameDir, HoldsDir, Goes, Afters, table
    <2> QED
      BY <2>2, <2>3 DEF Case, Pcs
  <1>3. CASE th[p].after # "idle"
    <2>0. th[p].after \in Pcs /\ 0 \in Inums \cup {0} /\ th[p].after \in {"release dir", "namei target"}
      BY <1>0, <1>3 DEF Afters, Pcs
    <2>1. /\ Goes(p, th[p].after, 0) /\ Keeps(p) /\ th'[p].after = th[p].after
          /\ th' \in [Procs -> Thread]
      BY <1>0, <1>3, <2>0, InoMoves DEF DropRef
    <2>2. Moved(p)
      BY <1>1, <1>3, <2>0, <2>1 DEF Moved, Place, Keeps, Goes, ip, op
    <2>3. Drops(p, th[p].after)
      BY <1>0, <1>3, <2>0, <2>1 DEF DropRef, Drops, SameDir, HoldsDir, Goes, table
    <2> QED
      BY <2>0, <2>2, <2>3 DEF Case
  <1> QED
    BY <1>2, <1>3

\* iunlock, iput and the steps after it.
LEMMA PutCases ==
  ASSUME Types, NEW p \in Procs, Place(p),
         Iunlock(p) \/ iput(p) \/ IputFree(p) \/ IputRelease(p) \/ IputEnd(p)
  PROVE  Case(p) /\ Moved(p)
  <1> USE DEF NoInoPcs, PutPcs, NewPcs, UnlinkPcs, LinkPcs, LockedPcs, CountedPcs, DonePcs
  <1>0. /\ th \in [Procs -> Thread] /\ target \in [Inums -> Names \cup {NoName}]
        /\ ip(p) # 0 => ip(p) \in Inums
    BY DEF Types, TypeOK, ip
  <1>1. CASE Iunlock(p)
    <2>1. th[p].pc = "iunlock" /\ Goto(p, "iput") /\ "iput" \in Pcs
      BY <1>1 DEF Iunlock, At, Pcs
    <2>2. Goes(p, "iput", ip(p)) /\ Keeps(p) /\ th'[p].after = th[p].after /\ th' \in [Procs -> Thread]
      BY <1>0, <2>1, GotoMoves
    <2>3. Moved(p)
      BY <1>0, <1>1, <2>1, <2>2 DEF Iunlock, Moved, Place, Keeps, Goes, ip, op
    <2>4. Unlocks(p)
      BY <1>1, <2>1, <2>2 DEF Iunlock, iunlock, Unlocks, SameDir, HoldsDir, Goes
    <2> QED
      BY <2>3, <2>4 DEF Case
  <1>2. CASE iput(p)
    <2>1. CASE LastRef(ip(p))
      <3>1. th[p].pc = "iput" /\ Goto(p, "free") /\ "free" \in Pcs
        BY <1>2, <2>1 DEF iput, At, Pcs
      <3>2. Goes(p, "free", ip(p)) /\ Keeps(p) /\ th'[p].after = th[p].after /\ th' \in [Procs -> Thread]
        BY <1>0, <3>1, GotoMoves
      <3>3. Moved(p)
        BY <1>0, <1>2, <2>1, <3>1, <3>2 DEF iput, Moved, Place, Keeps, Goes, ip, op
      <3>4. LastPut(p)
        BY <1>2, <2>1, <3>1, <3>2 DEF iput, LastPut, SameDir, HoldsDir, Goes
      <3> QED
        BY <3>3, <3>4 DEF Case
    <2>2. CASE ~LastRef(ip(p))
      <3>1. th[p].pc = "iput" /\ DropRef(p) /\ panic = "no"
        BY <1>2, <2>2 DEF iput, At
      <3> QED
        BY <2>2, <3>1, DropCases
    <2> QED
      BY <2>1, <2>2
  <1>3. CASE IputFree(p)
    <2>1. th[p].pc = "free" /\ Goto(p, "freed") /\ "freed" \in Pcs
      BY <1>3 DEF IputFree, At, Pcs
    <2>2. Goes(p, "freed", ip(p)) /\ Keeps(p) /\ th'[p].after = th[p].after /\ th' \in [Procs -> Thread]
      BY <1>0, <2>1, GotoMoves
    <2>3. Moved(p)
      <3>1. target' \in [Inums -> Names \cup {NoName}] /\ UNCHANGED fdino
        BY <1>0, <1>3 DEF IputFree
      <3> QED
        BY <2>1, <2>2, <3>1 DEF Moved, Place, Keeps, Goes, ip, op
    <2>4. Frees(p)
      BY <1>3, <2>1, <2>2 DEF IputFree, Frees, SameDir, HoldsDir, Goes
    <2> QED
      BY <2>3, <2>4 DEF Case
  <1>4. CASE IputRelease(p)
    <2>1. th[p].pc = "freed" /\ Goto(p, "iput end") /\ "iput end" \in Pcs
      BY <1>4 DEF IputRelease, At, Pcs
    <2>2. Goes(p, "iput end", ip(p)) /\ Keeps(p) /\ th'[p].after = th[p].after /\ th' \in [Procs -> Thread]
      BY <1>0, <2>1, GotoMoves
    <2>3. Moved(p)
      BY <1>0, <1>4, <2>1, <2>2 DEF IputRelease, Moved, Place, Keeps, Goes, ip, op
    <2>4. Releases(p)
      BY <1>4, <2>1, <2>2 DEF IputRelease, iunlock, Releases, SameDir, HoldsDir, Goes
    <2> QED
      BY <2>3, <2>4 DEF Case
  <1>5. CASE IputEnd(p)
    BY <1>5, DropCases DEF IputEnd, At
  <1> QED
    BY <1>1, <1>2, <1>3, <1>4, <1>5

\* A look-up that finds nothing ends the system call.
LEMMA NotFoundCase ==
  ASSUME Types, NEW p \in Procs, Place(p), Return(p), panic = "no",
         th[p].pc \in {"namei", "namei target", "create", "unlink"}, ~HoldsDir(p),
         UNCHANGED <<entry, dlock, disk, target, table, fdino, panic>>
  PROVE  Case(p) /\ Moved(p)
  <1> USE DEF NoInoPcs, PutPcs, NewPcs, UnlinkPcs, LinkPcs, LockedPcs, CountedPcs, DonePcs
  <1>0. th \in [Procs -> Thread] /\ target' \in [Inums -> Names \cup {NoName}] /\ ip(p) = 0
    BY DEF Types, TypeOK, Place
  <1>1. Goes(p, "idle", 0) /\ th'[p].op = "none" /\ th'[p].after = "idle" /\ th' \in [Procs -> Thread]
    BY <1>0, ReturnMoves
  <1>2. Moved(p)
    BY <1>0, <1>1 DEF Moved, Place, Goes, ip, op
  <1>3. Local(p, "idle") /\ "idle" \in Pcs
    BY <1>0, <1>1 DEF Local, HoldsDir, Goes, Pcs
  <1> QED
    BY <1>2, <1>3 DEF Case

\* The system call goes on with the inode that it has found.
LEMMA FoundCase ==
  ASSUME Types, NEW p \in Procs, Place(p), NEW n \in Names, NEW l \in Pcs,
         th[p].name = n, entry[n] # 0, dlock = None, panic = "no", iget(entry[n]),
         th' = [th EXCEPT ![p].pc = l, ![p].ino = entry[n]],
         \/ th[p].pc \in {"namei", "create"} /\ l = "ilock"
         \/ th[p].pc = "namei target" /\ l = "ilock target"
         \/ th[p].pc = "unlink" /\ l = "unlink ilock",
         dlock' = IF l = "unlink ilock" THEN p ELSE dlock,
         UNCHANGED <<entry, disk, target, mem, ilk, fdino, panic>>
  PROVE  Case(p) /\ Moved(p)
  <1> USE DEF NoInoPcs, PutPcs, NewPcs, UnlinkPcs, LinkPcs, LockedPcs, CountedPcs, DonePcs
  <1> DEFINE i == entry[n]
  <1>0. /\ th \in [Procs -> Thread] /\ target' \in [Inums -> Names \cup {NoName}]
        /\ i \in Inums /\ 0 \notin Inums
    <2>1. th \in [Procs -> Thread] /\ target' \in [Inums -> Names \cup {NoName}]
      BY DEF Types, TypeOK
    <2>2. i \in Inums \cup {0}
      BY DEF Types, TypeOK
    <2> QED
      BY <2>1, <2>2, InumsAboveZero
  <1>1. Goes(p, l, i) /\ Keeps(p) /\ th'[p].after = th[p].after /\ th' \in [Procs -> Thread]
    BY <1>0, InoMoves
  <1>2. Moved(p)
    BY <1>0, <1>1 DEF Moved, Place, Keeps, Goes, ip, op
  <1>3. Finds(p, n, i, l)
    BY <1>0, <1>1 DEF Finds, HoldsDir, Goes, Keeps, Place
  <1> QED
    BY <1>0, <1>2, <1>3 DEF Case

\* namei, and the look-ups of create and sys_unlink.
LEMMA LookupCases ==
  ASSUME Types, NEW p \in Procs, Place(p),
         NameiPath(p) \/ NameiTarget(p) \/ CreateFound(p) \/ UnlinkLookup(p)
  PROVE  Case(p) /\ Moved(p)
  <1> USE DEF NoInoPcs, PutPcs, NewPcs, UnlinkPcs, LinkPcs, LockedPcs, CountedPcs, DonePcs
  <1>0. /\ th[p].name \in Names \cup {NoName} /\ panic = "no"
        /\ \A n \in Names : entry[n] \in Inums \cup {0}
    BY DEF Types, TypeOK, Thread, NameiPath, NameiTarget, Namei, CreateFound, UnlinkLookup, At
  <1>1. ASSUME NEW from \in {"namei", "namei target"}, NEW to \in {"ilock", "ilock target"},
               Namei(p, from, to), from = "namei" <=> to = "ilock"
        PROVE  Case(p) /\ Moved(p)
    <2> DEFINE n == th[p].name
    <2>1. /\ th[p].pc = from /\ dlock = None /\ to \in Pcs
          /\ UNCHANGED <<entry, dlock, disk, target, mem, ilk, fdino, panic>>
      BY <1>1 DEF Namei, At, Pcs
    <2>2. ~HoldsDir(p)
      BY <2>1 DEF HoldsDir
    <2>3. CASE n = NoName \/ entry[n] = 0
      <3>1. Return(p) /\ UNCHANGED table
        BY <1>1, <2>1, <2>3 DEF Namei, table
      <3> QED
        BY <1>0, <2>1, <2>2, <3>1, NotFoundCase
    <2>4. CASE n # NoName /\ entry[n] # 0
      <3>1. n \in Names /\ iget(entry[n]) /\ th' = [th EXCEPT ![p].pc = to, ![p].ino = entry[n]]
        BY <1>0, <1>1, <2>4 DEF Namei
      <3>2. to # "unlink ilock"
        BY <1>1
      <3> HIDE DEF n
      <3> QED
        BY <1>0, <1>1, <2>1, <2>4, <3>1, <3>2, FoundCase DEF n
    <2> QED
      BY <2>3, <2>4
  <1>2. CASE NameiPath(p) \/ NameiTarget(p)
    BY <1>1, <1>2 DEF NameiPath, NameiTarget
  <1>3. CASE CreateFound(p)
    <2>1. /\ th[p].pc = "create" /\ dlock = None /\ entry[th[p].name] # 0 /\ "ilock" \in Pcs
          /\ iget(entry[th[p].name])
          /\ th' = [th EXCEPT ![p].pc = "ilock", ![p].ino = entry[th[p].name]]
          /\ UNCHANGED <<entry, dlock, disk, target, mem, ilk, fdino, panic>>
      BY <1>3 DEF CreateFound, At, Pcs
    <2>2. th[p].name \in Names
      BY <2>1 DEF Place
    <2> QED
      BY <1>0, <2>1, <2>2, FoundCase
  <1>4. CASE UnlinkLookup(p)
    <2>1. th[p].pc = "unlink" /\ dlock = None /\ "unlink ilock" \in Pcs
      BY <1>4 DEF UnlinkLookup, At, Pcs
    <2>2. th[p].name \in Names
      BY <2>1 DEF Place
    <2>3. CASE entry[th[p].name] = 0
      <3>1. /\ Return(p) /\ UNCHANGED table
            /\ UNCHANGED <<entry, dlock, disk, target, fdino, panic>>
        BY <1>4, <2>3 DEF UnlinkLookup, table
      <3>2. ~HoldsDir(p)
        BY <2>1 DEF HoldsDir
      <3> QED
        BY <1>0, <2>1, <3>1, <3>2, NotFoundCase
    <2>4. CASE entry[th[p].name] # 0
      <3>1. /\ iget(entry[th[p].name]) /\ dlock' = p
            /\ th' = [th EXCEPT ![p].pc = "unlink ilock", ![p].ino = entry[th[p].name]]
            /\ UNCHANGED <<entry, disk, target, mem, ilk, fdino, panic>>
        BY <1>4, <2>4 DEF UnlinkLookup
      <3> QED
        BY <1>0, <2>1, <2>2, <2>4, <3>1, FoundCase
    <2> QED
      BY <2>3, <2>4
  <1> QED
    BY <1>2, <1>3, <1>4

\* ilock.
LEMMA LockCases ==
  ASSUME Types, NEW p \in Procs, Place(p),
         Ilock(p) \/ LockTarget(p) \/ CreateLock(p) \/ UnlinkLock(p) \/ LinkBadLock(p)
  PROVE  Case(p) /\ Moved(p)
  <1> USE DEF NoInoPcs, PutPcs, NewPcs, UnlinkPcs, LinkPcs, LockedPcs, CountedPcs, DonePcs
  <1>0. th \in [Procs -> Thread] /\ target \in [Inums -> Names \cup {NoName}]
    BY DEF Types, TypeOK
  <1>1. ASSUME NEW l, NEW m,
               \/ l = "ilock" /\ m = "locked"
               \/ l = "create ilock" /\ m = "create nlink"
               \/ l = "unlink ilock" /\ m = "unlink entry"
               \/ l = "bad" /\ m = "bad nlink",
               th[p].pc = l, ilock(p, ip(p)), Goto(p, m),
               UNCHANGED <<entry, dlock, disk, target, ref, fdino>>
        PROVE  Case(p) /\ Moved(p)
    <2>1. m \in Pcs /\ m = NextLocked(l)
      BY <1>1 DEF Pcs, NextLocked
    <2>2. Goes(p, m, ip(p)) /\ Keeps(p) /\ th'[p].after = th[p].after /\ th' \in [Procs -> Thread]
      BY <1>0, <1>1, <2>1, GotoMoves
    <2>3. Moved(p)
      BY <1>0, <1>1, <2>2 DEF Moved, Place, Keeps, Goes, ip, op
    <2>4. Locks(p)
      BY <1>1, <2>1, <2>2 DEF Locks, SameDir, HoldsDir, Goes, Keeps
    <2> QED
      BY <2>3, <2>4 DEF Case
  <1>2. CASE Ilock(p) \/ CreateLock(p) \/ UnlinkLock(p) \/ LinkBadLock(p)
    <2>1. CASE Ilock(p)
      <3>1. th[p].pc = "ilock" /\ ilock(p, ip(p)) /\ Goto(p, "locked")
            /\ UNCHANGED <<entry, dlock, disk, target, ref, fdino>>
        BY <2>1 DEF Ilock, At
      <3> QED
        BY <1>1, <3>1
    <2>2. CASE CreateLock(p)
      <3>1. th[p].pc = "create ilock" /\ ilock(p, ip(p)) /\ Goto(p, "create nlink")
            /\ UNCHANGED <<entry, dlock, disk, target, ref, fdino>>
        BY <2>2 DEF CreateLock, At
      <3> QED
        BY <1>1, <3>1
    <2>3. CASE UnlinkLock(p)
      <3>1. th[p].pc = "unlink ilock" /\ ilock(p, ip(p)) /\ Goto(p, "unlink entry")
            /\ UNCHANGED <<entry, dlock, disk, target, ref, fdino>>
        BY <2>3 DEF UnlinkLock, At
      <3> QED
        BY <1>1, <3>1
    <2>4. CASE LinkBadLock(p)
      <3>1. th[p].pc = "bad" /\ ilock(p, ip(p)) /\ Goto(p, "bad nlink")
            /\ UNCHANGED <<entry, dlock, disk, target, ref, fdino>>
        BY <2>4 DEF LinkBadLock, At
      <3> QED
        BY <1>1, <3>1
    <2> QED
      BY <1>2, <2>1, <2>2, <2>3, <2>4
  <1>3. CASE LockTarget(p)
    <2>1. /\ th[p].pc = "ilock target" /\ ilock(p, ip(p))
          /\ UNCHANGED <<entry, dlock, disk, target, ref, fdino>>
      BY <1>3 DEF LockTarget, At
    <2>2. PICK r \in 0..MAXLINKS : th' = [th EXCEPT ![p].pc = "locked", ![p].retry = r]
      <3>1. th[p].retry \in 0..MAXLINKS /\ th[p].retry < MAXLINKS /\ MAXLINKS \in Nat
        BY <1>0, <2>1, InodesAssumption DEF Place, Thread
      <3>2. CASE mem'[ip(p)].type = "T_SYMLINK"
        <4>1. th[p].retry + 1 \in 0..MAXLINKS
          BY <3>1
        <4>2. th' = [th EXCEPT ![p].pc = "locked", ![p].retry = th[p].retry + 1]
          BY <1>0, <1>3, <3>2 DEF LockTarget
        <4> QED
          BY <4>1, <4>2
      <3>3. CASE mem'[ip(p)].type # "T_SYMLINK"
        <4>1. th' = [th EXCEPT ![p].pc = "locked", ![p].retry = th[p].retry]
          BY <1>0, <1>3, <3>3 DEF LockTarget
        <4> QED
          BY <3>1, <4>1
      <3> QED
        BY <3>2, <3>3
    <2>3. "locked" \in Pcs /\ NextLocked("ilock target") = "locked"
      BY DEF Pcs, NextLocked
    <2>4. /\ Goes(p, "locked", ip(p)) /\ th' \in [Procs -> Thread]
          /\ th'[p].op = op(p) /\ th'[p].name = th[p].name /\ th'[p].arg = th[p].arg
          /\ th'[p].after = th[p].after
      BY <1>0, <2>2, <2>3 DEF Goes, op, ip, Thread
    <2>5. Moved(p)
      BY <1>0, <2>1, <2>4 DEF Moved, Place, Goes, ip, op
    <2>6. Locks(p)
      BY <2>1, <2>3, <2>4 DEF Locks, SameDir, HoldsDir, Goes
    <2> QED
      BY <2>5, <2>6 DEF Case
  <1> QED
    BY <1>2, <1>3

\* open and close.
LEMMA FileCases ==
  ASSUME Types, NEW p \in Procs, Place(p), OpenDone(p) \/ sys_close(p)
  PROVE  Case(p) /\ Moved(p)
  <1> USE DEF NoInoPcs, PutPcs, NewPcs, UnlinkPcs, LinkPcs, LockedPcs, CountedPcs, DonePcs
  <1>0. /\ th \in [Procs -> Thread] /\ target' \in [Inums -> Names \cup {NoName}]
        /\ fdino \in [Procs -> Inums \cup {0}]
    BY DEF Types, TypeOK, OpenDone, sys_close
  <1>1. CASE OpenDone(p)
    <2>1. /\ th[p].pc = "locked" /\ op(p) \in {"open", "O_NOFOLLOW", "O_CREATE"}
          /\ Return(p) /\ ilk' = [ilk EXCEPT ![ip(p)] = None]
          /\ fdino' = [fdino EXCEPT ![p] = ip(p)]
          /\ UNCHANGED <<entry, dlock, disk, ref, valid, mem, panic>>
      BY <1>1 DEF OpenDone, Opened, Opening, At, iunlock
    <2>2. Goes(p, "idle", 0) /\ th'[p].op = "none" /\ th'[p].after = "idle" /\ th' \in [Procs -> Thread]
      BY <1>0, <2>1, ReturnMoves
    <2>3. Moved(p)
      BY <1>0, <2>2 DEF Moved, Place, Goes, ip, op
    <2>4. Opens(p)
      BY <2>1, <2>2 DEF Opens, SameDir, HoldsDir, Goes, Place
    <2> QED
      BY <2>3, <2>4 DEF Case
  <1>2. CASE sys_close(p)
    <2>1. /\ th[p].pc = "idle" /\ fdino[p] # 0
          /\ th' = [th EXCEPT ![p] = [Idle EXCEPT !.pc = "iput", !.op = "close", !.ino = fdino[p]]]
          /\ fdino' = [fdino EXCEPT ![p] = 0]
          /\ UNCHANGED <<entry, dlock, disk, table, panic>>
      BY <1>2 DEF sys_close, At
    <2> DEFINE t == [Idle EXCEPT !.pc = "iput", !.op = "close", !.ino = fdino[p]]
    <2>2. "iput" \in Pcs /\ "close" \in Ops
      BY DEF Pcs, Ops
    <2>3. t \in Thread /\ t.pc = "iput" /\ t.op = "close" /\ t.ino = fdino[p] /\ t.after = "idle"
      BY <1>0, <2>2, IdleThread DEF Thread
    <2> HIDE DEF t
    <2>4. /\ Goes(p, "iput", fdino[p]) /\ th' \in [Procs -> Thread]
          /\ th'[p].op = "close" /\ th'[p].after = "idle"
      BY <1>0, <2>1, <2>3 DEF Goes, t
    <2>5. Moved(p)
      BY <1>0, <2>1, <2>4 DEF Moved, Place, Goes, ip, op
    <2>6. Closes(p)
      BY <2>1, <2>4 DEF Closes, SameDir, HoldsDir, Goes
    <2> QED
      BY <2>5, <2>6 DEF Case
  <1> QED
    BY <1>1, <1>2

\* ialloc.
LEMMA AllocCases ==
  ASSUME Types, NEW p \in Procs, Place(p), Ialloc(p) \/ IallocGet(p)
  PROVE  Case(p) /\ Moved(p)
  <1> USE DEF NoInoPcs, PutPcs, NewPcs, UnlinkPcs, LinkPcs, LockedPcs, CountedPcs, DonePcs
  <1>0. /\ th \in [Procs -> Thread] /\ target' \in [Inums -> Names \cup {NoName}]
        /\ panic = "no"
    BY DEF Types, TypeOK, Ialloc, IallocGet, At
  <1>1. CASE Ialloc(p) /\ FreeInodes = {}
    <2>1. /\ th[p].pc = "create" /\ Return(p)
          /\ UNCHANGED <<entry, dlock, disk, target, table, fdino, panic>>
      BY <1>1 DEF Ialloc, At
    <2>2. ~HoldsDir(p)
      BY <2>1 DEF HoldsDir
    <2> QED
      BY <1>0, <2>1, <2>2, NotFoundCase
  <1>2. CASE Ialloc(p) /\ FreeInodes # {}
    <2> DEFINE i == Min(FreeInodes)
               ty == IF op(p) = "symlink" THEN "T_SYMLINK" ELSE "T_FILE"
    <2>1. i \in FreeInodes
      <3>1. FreeInodes \subseteq Nat
        BY DEF FreeInodes, Inums
      <3> QED
        BY <1>2, <3>1, MinNat
    <2>2. i \in Inums /\ disk[i].type = "free" /\ i # 0
      BY <2>1, InumsAboveZero DEF FreeInodes
    <2>3. /\ th[p].pc = "create" /\ dlock = None /\ entry[th[p].name] = 0 /\ dlock' = p
          /\ disk' = [disk EXCEPT ![i] = [type |-> ty, nlink |-> 0]]
          /\ th' = [th EXCEPT ![p].pc = "ialloc", ![p].ino = i]
          /\ UNCHANGED <<entry, target, table, fdino, panic>>
      BY <1>2 DEF Ialloc, At
    <2>4. ty \in {"T_FILE", "T_SYMLINK"} /\ "ialloc" \in Pcs
      BY DEF Pcs
    <2> HIDE DEF i, ty
    <2>5. Goes(p, "ialloc", i) /\ Keeps(p) /\ th'[p].after = th[p].after /\ th' \in [Procs -> Thread]
      BY <1>0, <2>2, <2>3, <2>4, InoMoves
    <2>6. Moved(p)
      BY <1>0, <2>2, <2>3, <2>5 DEF Moved, Place, Keeps, Goes, ip, op
    <2>7. Marks(p, i, ty)
      BY <2>2, <2>3, <2>5 DEF Marks, Keeps
    <2> QED
      BY <2>2, <2>4, <2>6, <2>7 DEF Case
  <1>3. CASE IallocGet(p)
    <2>1. th[p].pc = "ialloc" /\ Goto(p, "create ilock") /\ "create ilock" \in Pcs
      BY <1>3 DEF IallocGet, At, Pcs
    <2>2. /\ Goes(p, "create ilock", ip(p)) /\ Keeps(p) /\ th'[p].after = th[p].after
          /\ th' \in [Procs -> Thread]
      BY <1>0, <2>1, GotoMoves
    <2>3. Moved(p)
      BY <1>0, <1>3, <2>1, <2>2 DEF IallocGet, Moved, Place, Keeps, Goes, ip, op
    <2>4. GetsNew(p)
      BY <1>3, <2>1, <2>2 DEF IallocGet, GetsNew, Keeps
    <2> QED
      BY <2>3, <2>4 DEF Case
  <1> QED
    BY <1>1, <1>2, <1>3

\* A change of a link count is a case of its own.
LEMMA RelinkCase ==
  ASSUME NEW p \in Procs, NEW l \in Pcs, NEW n \in Int, Relinks(p, l, n)
  PROVE  Case(p)
  BY DEF Case

\* The steps that change a link count.
LEMMA RelinkCases ==
  ASSUME Types, NEW p \in Procs, Place(p),
         CreateNlink(p) \/ CreateFails(p) \/ UnlinkNlink(p) \/ LinkNlink(p) \/ LinkBad(p)
  PROVE  Case(p) /\ Moved(p)
  <1> USE DEF NoInoPcs, PutPcs, NewPcs, UnlinkPcs, LinkPcs, LockedPcs, CountedPcs, DonePcs
  <1>0. /\ th \in [Procs -> Thread] /\ target' \in [Inums -> Names \cup {NoName}]
        /\ "idle" \in Afters /\ "release dir" \in Afters
        /\ "dirlink" \in Pcs /\ "iunlock" \in Pcs /\ "link" \in Pcs
    BY DEF Types, TypeOK, CreateNlink, CreateFails, UnlinkNlink, LinkNlink, LinkBad, Afters, Pcs
  <1>1. th[p].pc \notin NoInoPcs => mem[ip(p)].nlink \in Int
    BY DEF Types, TypeOK, Place, Dinode, ip
  <1>6. 0 \in Int /\ 1 \in Int
    OBVIOUS
  <1>2. CASE CreateNlink(p)
    <2>1. th[p].pc = "create nlink" /\ Goto(p, "dirlink")
      BY <1>2 DEF CreateNlink, At
    <2>2. Goes(p, "dirlink", ip(p)) /\ Keeps(p) /\ th'[p].after = th[p].after /\ th' \in [Procs -> Thread]
      BY <1>0, <2>1, GotoMoves
    <2>3. Moved(p)
      BY <1>0, <1>2, <2>1, <2>2 DEF CreateNlink, Moved, Place, Keeps, Goes, ip, op
    <2>4. Relinks(p, "dirlink", 1)
      BY <1>2, <2>1, <2>2 DEF CreateNlink, Relinks, SameDir, HoldsDir, Goes, Keeps
    <2> QED
      BY <1>0, <1>6, <2>3, <2>4, RelinkCase
  <1>3. CASE CreateFails(p)
    <2>1. th[p].pc = "dirlink" /\ UnlockPut(p, "release dir")
      BY <1>3 DEF CreateFails, At
    <2>2. Goes(p, "iunlock", ip(p)) /\ Keeps(p) /\ th'[p].after = "release dir" /\ th' \in [Procs -> Thread]
      BY <1>0, <2>1, PutMoves
    <2>3. Moved(p)
      BY <1>0, <1>3, <2>1, <2>2 DEF CreateFails, Moved, Place, Keeps, Goes, ip, op
    <2>4. Relinks(p, "iunlock", 0)
      BY <1>3, <2>1, <2>2 DEF CreateFails, Relinks, SameDir, HoldsDir, Goes, Keeps
    <2> QED
      BY <1>0, <1>6, <2>3, <2>4, RelinkCase
  <1>4. CASE UnlinkNlink(p) \/ LinkBad(p)
    <2>1. /\ th[p].pc \in {"unlink nlink", "bad nlink"} /\ UnlockPut(p, "idle")
          /\ SetNlink(ip(p), mem[ip(p)].nlink - 1)
          /\ UNCHANGED <<entry, dlock, target, ref, valid, ilk, fdino, panic>>
      BY <1>4 DEF UnlinkNlink, LinkBad, At
    <2>2. Goes(p, "iunlock", ip(p)) /\ Keeps(p) /\ th'[p].after = "idle" /\ th' \in [Procs -> Thread]
      BY <1>0, <2>1, PutMoves
    <2>3. Moved(p)
      BY <1>0, <2>1, <2>2 DEF Moved, Place, Keeps, Goes, ip, op
    <2>4. Relinks(p, "iunlock", mem[ip(p)].nlink - 1)
      BY <2>1, <2>2 DEF Relinks, SameDir, HoldsDir, Goes, Keeps, Place
    <2>5. th[p].pc \notin NoInoPcs
      BY <2>1
    <2>6. mem[ip(p)].nlink - 1 \in Int
      <3>1. mem[ip(p)].nlink \in Int
        BY <1>1, <2>5
      <3> QED
        BY <3>1
    <2> QED
      BY <1>0, <2>3, <2>4, <2>6, RelinkCase
  <1>5. CASE LinkNlink(p)
    <2>1. /\ th[p].pc = "locked" /\ op(p) = "link" /\ Goto(p, "link")
          /\ SetNlink(ip(p), mem[ip(p)].nlink + 1) /\ ilk' = [ilk EXCEPT ![ip(p)] = None]
          /\ UNCHANGED <<entry, dlock, target, ref, valid, fdino, panic>>
      BY <1>5 DEF LinkNlink, At, iunlock
    <2>2. Goes(p, "link", ip(p)) /\ Keeps(p) /\ th'[p].after = th[p].after /\ th' \in [Procs -> Thread]
      BY <1>0, <2>1, GotoMoves
    <2>3. Moved(p)
      BY <1>0, <2>1, <2>2 DEF Moved, Place, Keeps, Goes, ip, op
    <2>4. Relinks(p, "link", mem[ip(p)].nlink + 1)
      BY <2>1, <2>2 DEF Relinks, SameDir, HoldsDir, Goes, Keeps, Place
    <2>5. mem[ip(p)].nlink + 1 \in Int
      BY <1>1, <2>1
    <2> QED
      BY <1>0, <2>3, <2>4, <2>5, RelinkCase
  <1> QED
    BY <1>2, <1>3, <1>4, <1>5

\* The steps that change the directory.
LEMMA DirCases ==
  ASSUME Types, NEW p \in Procs, Place(p), DirLock, LookedUp,
         CreateDirlink(p) \/ ReleaseDir(p) \/ UnlinkEntry(p) \/ LinkDirlink(p)
  PROVE  Case(p) /\ Moved(p)
  <1> USE DEF NoInoPcs, PutPcs, NewPcs, UnlinkPcs, LinkPcs, LockedPcs, CountedPcs, DonePcs
  <1>0. /\ th \in [Procs -> Thread] /\ target' \in [Inums -> Names \cup {NoName}]
        /\ {"locked", "writei", "idle", "iput", "unlink nlink"} \subseteq Pcs
    BY DEF Types, TypeOK, CreateDirlink, ReleaseDir, UnlinkEntry, LinkDirlink, Pcs
  <1>1. CASE CreateDirlink(p)
    <2> DEFINE l == IF op(p) = "symlink" THEN "writei" ELSE "locked"
    <2>1. /\ th[p].pc = "dirlink" /\ Goto(p, l) /\ entry' = [entry EXCEPT ![th[p].name] = ip(p)]
          /\ dlock' = None /\ UNCHANGED <<disk, target, table, fdino, panic>>
      BY <1>1 DEF CreateDirlink, At
    <2>2. dlock = p /\ entry[th[p].name] = 0 /\ th[p].name \in Names
      BY <2>1 DEF DirLock, LookedUp, HoldsDir, Place
    <2>3. l \in {"locked", "writei"} /\ (l = "writei" <=> op(p) = "symlink")
      OBVIOUS
    <2> HIDE DEF l
    <2>4. Goes(p, l, ip(p)) /\ Keeps(p) /\ th'[p].after = th[p].after /\ th' \in [Procs -> Thread]
      BY <1>0, <2>1, <2>3, GotoMoves
    <2>5. Moved(p)
      BY <1>0, <2>1, <2>3, <2>4 DEF Moved, Place, Keeps, Goes, ip, op
    <2>6. Enters(p, th[p].name, l)
      BY <2>1, <2>2, <2>3, <2>4 DEF Enters, HoldsDir, Goes, Keeps
    <2> QED
      BY <1>0, <2>2, <2>3, <2>5, <2>6 DEF Case
  <1>2. CASE ReleaseDir(p)
    <2>1. /\ th[p].pc = "release dir" /\ Return(p) /\ dlock' = None
          /\ UNCHANGED <<entry, disk, target, table, fdino, panic>>
      BY <1>2 DEF ReleaseDir, At
    <2>2. Goes(p, "idle", 0) /\ th'[p].op = "none" /\ th'[p].after = "idle" /\ th' \in [Procs -> Thread]
      BY <1>0, <2>1, ReturnMoves
    <2>3. Moved(p)
      BY <1>0, <2>1, <2>2 DEF Moved, Place, Goes, ip, op
    <2>4. LeavesDir(p)
      BY <2>1, <2>2 DEF LeavesDir, HoldsDir, Goes
    <2> QED
      BY <2>3, <2>4 DEF Case
  <1>3. CASE UnlinkEntry(p)
    <2>1. /\ th[p].pc = "unlink entry" /\ Goto(p, "unlink nlink")
          /\ panic' = IF mem[ip(p)].nlink < 1 THEN "unlink: nlink < 1" ELSE panic
          /\ entry' = [entry EXCEPT ![th[p].name] = 0]
          /\ dlock' = None /\ UNCHANGED <<disk, target, table, fdino>>
      BY <1>3 DEF UnlinkEntry, At
    <2>2. Goes(p, "unlink nlink", ip(p)) /\ Keeps(p) /\ th'[p].after = th[p].after /\ th' \in [Procs -> Thread]
      BY <1>0, <2>1, GotoMoves
    <2>3. Moved(p)
      BY <1>0, <2>1, <2>2 DEF Moved, Place, Keeps, Goes, ip, op
    <2>4. Clears(p)
      BY <2>1, <2>2 DEF Clears, HoldsDir, Goes
    <2> QED
      BY <2>3, <2>4 DEF Case
  <1>4. CASE LinkDirlink(p)
    <2>1. /\ th[p].pc = "link" /\ Goto(p, "iput") /\ dlock = None /\ entry[th[p].arg] = 0
          /\ entry' = [entry EXCEPT ![th[p].arg] = ip(p)]
          /\ UNCHANGED <<dlock, disk, target, table, fdino, panic>>
      BY <1>4 DEF LinkDirlink, At
    <2>2. Goes(p, "iput", ip(p)) /\ Keeps(p) /\ th'[p].after = th[p].after /\ th' \in [Procs -> Thread]
      BY <1>0, <2>1, GotoMoves
    <2>3. th[p].arg \in Names /\ op(p) = "link" /\ th[p].after # "release dir"
      BY <2>1 DEF Place
    <2>4. Moved(p)
      BY <1>0, <2>1, <2>2, <2>3 DEF Moved, Place, Keeps, Goes, ip, op
    <2>5. Enters(p, th[p].arg, "iput")
      BY <2>1, <2>2, <2>3 DEF Enters, HoldsDir, Goes, Keeps
    <2> QED
      BY <1>0, <2>3, <2>4, <2>5 DEF Case
  <1> QED
    BY <1>1, <1>2, <1>3, <1>4
\* The beginning of a system call.
LEMMA BeginCase ==
  ASSUME Types, NEW p \in Procs, Place(p), NEW l, NEW o \in Ops, NEW n \in Names,
         NEW a \in Names \cup {NoName}, Begin(p, l, o, n, a), UNCHANGED target,
         \/ l = "create" /\ o \in {"O_CREATE", "symlink"}
         \/ l = "namei" /\ o \in {"open", "O_NOFOLLOW", "link"}
         \/ l = "unlink" /\ o = "unlink",
         o \in {"symlink", "link"} => a \in Names,
         o \in {"open", "O_NOFOLLOW", "O_CREATE"} => fdino[p] = 0
  PROVE  Case(p) /\ Moved(p)
  <1> USE DEF NoInoPcs, PutPcs, NewPcs, UnlinkPcs, LinkPcs, LockedPcs, CountedPcs, DonePcs
  <1> DEFINE t == [Idle EXCEPT !.pc = l, !.op = o, !.name = n, !.arg = a]
  <1>0. /\ th \in [Procs -> Thread] /\ target' \in [Inums -> Names \cup {NoName}]
        /\ l \in Pcs /\ UNCHANGED fdino
    BY DEF Types, TypeOK, Pcs, Begin
  <1>1. th[p].pc = "idle" /\ th' = [th EXCEPT ![p] = t] /\ ip(p) = 0
    BY DEF Begin, At, Place
  <1>2. /\ t \in Thread /\ t.pc = l /\ t.ino = 0 /\ t.op = o /\ t.name = n /\ t.arg = a
        /\ t.after = "idle" /\ t.retry = 0
    BY <1>0, IdleThread DEF Thread
  <1> HIDE DEF t
  <1>3. /\ Goes(p, l, 0) /\ th' \in [Procs -> Thread] /\ th'[p] = t
    BY <1>0, <1>1, <1>2 DEF Goes
  <1>4. 0 < MAXLINKS
    BY InodesAssumption
  <1>5. Moved(p)
    BY <1>0, <1>2, <1>3, <1>4 DEF Moved, Place, ip, op
  <1>6. Local(p, l)
    BY <1>1, <1>2, <1>3 DEF Begin, Local, HoldsDir, table
  <1> QED
    BY <1>0, <1>5, <1>6 DEF Case

\* The system calls.
LEMMA CallCases ==
  ASSUME Types, NEW p \in Procs, Place(p), SysCall(p)
  PROVE  Case(p) /\ Moved(p)
  <1>1. ASSUME NEW n \in Names, NEW m \in {"open", "O_NOFOLLOW", "O_CREATE"}, sys_open(p, n, m)
        PROVE  Case(p) /\ Moved(p)
    <2> DEFINE l == IF m = "O_CREATE" THEN "create" ELSE "namei"
    <2>1. Begin(p, l, m, n, NoName) /\ fdino[p] = 0
      BY <1>1 DEF sys_open
    <2>2. UNCHANGED target /\ m \in Ops
      BY <2>1 DEF Begin, Ops
    <2>3. \/ l = "create" /\ m \in {"O_CREATE", "symlink"}
          \/ l = "namei" /\ m \in {"open", "O_NOFOLLOW", "link"}
      OBVIOUS
    <2> HIDE DEF l
    <2> QED
      BY <2>1, <2>2, <2>3, BeginCase
  <1>2. ASSUME NEW t \in Names, NEW n \in Names, sys_symlink(p, t, n) PROVE Case(p) /\ Moved(p)
    <2>1. Begin(p, "create", "symlink", n, t) /\ UNCHANGED target /\ "symlink" \in Ops
      BY <1>2 DEF sys_symlink, Begin, Ops
    <2> QED
      BY <2>1, BeginCase
  <1>3. ASSUME NEW n \in Names, sys_unlink(p, n) PROVE Case(p) /\ Moved(p)
    <2>1. Begin(p, "unlink", "unlink", n, NoName) /\ UNCHANGED target /\ "unlink" \in Ops
      BY <1>3 DEF sys_unlink, Begin, Ops
    <2> QED
      BY <2>1, BeginCase
  <1>4. ASSUME NEW old \in Names, NEW new \in Names, sys_link(p, old, new) PROVE Case(p) /\ Moved(p)
    <2>1. Begin(p, "namei", "link", old, new) /\ UNCHANGED target /\ "link" \in Ops
      BY <1>4 DEF sys_link, Begin, Ops
    <2> QED
      BY <2>1, BeginCase
  <1> QED
    BY <1>1, <1>2, <1>3, <1>4, FileCases DEF SysCall

\* A step that gives up the inode it has looked at.
LEMMA GiveUpCase ==
  ASSUME Types, NEW p \in Procs, Place(p), th[p].pc \in {"locked", "writei"}, UnlockPut(p, "idle"),
         target' \in [Inums -> Names \cup {NoName}],
         UNCHANGED <<entry, dlock, disk, table, fdino, panic>>
  PROVE  Case(p) /\ Moved(p)
  <1> USE DEF NoInoPcs, PutPcs, NewPcs, UnlinkPcs, LinkPcs, LockedPcs, CountedPcs, DonePcs
  <1>0. th \in [Procs -> Thread] /\ "idle" \in Afters /\ "iunlock" \in Pcs
    BY DEF Types, Afters, Pcs
  <1>1. Goes(p, "iunlock", ip(p)) /\ Keeps(p) /\ th'[p].after = "idle" /\ th' \in [Procs -> Thread]
    BY <1>0, PutMoves
  <1>2. Moved(p)
    BY <1>1 DEF Moved, Place, Keeps, Goes, ip, op
  <1>3. Local(p, "iunlock")
    BY <1>1 DEF Local, HoldsDir, Goes
  <1> QED
    BY <1>0, <1>2, <1>3 DEF Case

\* The steps that look at an inode, or at the directory, and change neither.
LEMMA LocalCases ==
  ASSUME Types, NEW p \in Procs, Place(p),
         ReadLink(p) \/ TooManyLinks(p) \/ OpenNoFile(p) \/ CreateRefused(p) \/ LinkFails(p)
         \/ SymlinkWrite(p)
  PROVE  Case(p) /\ Moved(p)
  <1> USE DEF NoInoPcs, PutPcs, NewPcs, UnlinkPcs, LinkPcs, LockedPcs, CountedPcs, DonePcs
  <1>0. /\ th \in [Procs -> Thread] /\ target \in [Inums -> Names \cup {NoName}]
        /\ "iunlock" \in Pcs /\ "bad" \in Pcs /\ "namei target" \in Afters
    BY DEF Types, TypeOK, Pcs, Afters
  <1>1. CASE TooManyLinks(p) \/ OpenNoFile(p) \/ CreateRefused(p)
    <2>1. /\ th[p].pc = "locked" /\ UnlockPut(p, "idle")
          /\ UNCHANGED <<entry, dlock, disk, target, table, fdino, panic>>
      BY <1>1 DEF TooManyLinks, OpenNoFile, CreateRefused, Opened, Opening, At
    <2> QED
      BY <1>0, <2>1, GiveUpCase
  <1>2. CASE SymlinkWrite(p)
    <2>1. /\ th[p].pc = "writei" /\ UnlockPut(p, "idle")
          /\ UNCHANGED <<entry, dlock, disk, table, fdino, panic>>
      BY <1>2 DEF SymlinkWrite, At
    <2>2. th[p].arg \in Names
      BY <2>1 DEF Place
    <2>3. target' \in [Inums -> Names \cup {NoName}]
      BY <1>0, <1>2, <2>2 DEF SymlinkWrite
    <2> QED
      BY <2>1, <2>3, GiveUpCase
  <1>3. CASE LinkFails(p)
    <2>1. /\ th[p].pc = "link" /\ Goto(p, "bad")
          /\ UNCHANGED <<entry, dlock, disk, target, table, fdino, panic>>
      BY <1>3 DEF LinkFails, At
    <2>2. Goes(p, "bad", ip(p)) /\ Keeps(p) /\ th'[p].after = th[p].after /\ th' \in [Procs -> Thread]
      BY <1>0, <2>1, GotoMoves
    <2>3. Moved(p)
      BY <1>0, <2>1, <2>2 DEF Moved, Place, Keeps, Goes, ip, op
    <2>4. Local(p, "bad")
      BY <2>1, <2>2 DEF Local, HoldsDir, Goes
    <2> QED
      BY <1>0, <2>3, <2>4 DEF Case
  <1>4. CASE ReadLink(p)
    <2> DEFINE t == target[ip(p)]
    <2>1. /\ th[p].pc = "locked" /\ op(p) = "open" /\ th[p].retry < MAXLINKS
          /\ UNCHANGED <<entry, dlock, disk, target, table, fdino, panic>>
      BY <1>4 DEF ReadLink, Opening, Follows, At
    <2>2. t \in Names \cup {NoName} /\ th[p].name \in Names \cup {NoName} /\ th[p].nul \in Int
      <3>1. ip(p) \in Inums
        BY <1>0, <2>1 DEF Place, Thread, ip
      <3> QED
        BY <1>0, <3>1 DEF Thread
    <2>3. \A m \in Names : namelen[m] \in Int
      BY InodesAssumption
    <2> HIDE DEF t
    <2>4. PICK b \in Buffers(t, th[p].name, th[p].nul) :
             th' = [th EXCEPT ![p].pc = "iunlock", ![p].after = "namei target",
                              ![p].name = b, ![p].nul = Ends(t, b, th[p].nul)]
      BY <1>4 DEF ReadLink, t
    <2>5. b \in Names \cup {NoName}
      BY <2>2 DEF Buffers
    <2>6. Ends(t, b, th[p].nul) \in Int
      BY <2>2, <2>3 DEF Ends
    <2> DEFINE nul == Ends(t, b, th[p].nul)
    <2> HIDE DEF nul
    <2>7. /\ Goes(p, "iunlock", ip(p)) /\ th' \in [Procs -> Thread]
          /\ th'[p].op = op(p) /\ th'[p].retry = th[p].retry /\ th'[p].after = "namei target"
      <3>1. nul \in Int
        BY <2>6 DEF nul
      <3>2. th' = [th EXCEPT ![p].pc = "iunlock", ![p].after = "namei target",
                             ![p].name = b, ![p].nul = nul]
        BY <2>4 DEF nul
      <3> DEFINE r == [th[p] EXCEPT !.pc = "iunlock", !.after = "namei target", !.name = b, !.nul = nul]
      <3>8. r \in Thread
        <4>1. th[p] \in Thread
          BY <1>0
        <4> QED
          BY <1>0, <2>5, <3>1, <4>1 DEF Thread
      <3>9. th' = [th EXCEPT ![p] = r]
        BY <1>0, <3>2
      <3>4. th'[p] = [th[p] EXCEPT !.pc = "iunlock", !.after = "namei target", !.name = b, !.nul = nul]
        BY <1>0, <3>2
      <3>3. th' \in [Procs -> Thread]
        <4> HIDE DEF r
        <4> QED
          BY <1>0, <3>8, <3>9
      <3>5. \A q \in Procs \ {p} : th'[q] = th[q]
        BY <1>0, <3>2
      <3>6. th[p] \in Thread
        BY <1>0
      <3>7. /\ th'[p].pc = "iunlock" /\ th'[p].ino = th[p].ino /\ th'[p].op = th[p].op
            /\ th'[p].retry = th[p].retry /\ th'[p].after = "namei target"
        BY <3>4, <3>6 DEF Thread
      <3> QED
        BY <3>3, <3>5, <3>7 DEF Goes, op, ip
    <2>8. Moved(p)
      BY <1>0, <2>1, <2>7 DEF Moved, Place, Goes, ip, op
    <2>9. Local(p, "iunlock")
      BY <2>1, <2>7 DEF Local, HoldsDir, Goes
    <2> QED
      BY <1>0, <2>8, <2>9 DEF Case
  <1> QED
    BY <1>1, <1>2, <1>3, <1>4

\* Every step is one of these.
LEMMA NextCases ==
  ASSUME Types, Places, DirLock, LookedUp, [Next]_vars
  PROVE  (\E p \in Procs : Case(p) /\ Moved(p)) \/ UNCHANGED vars
  <1>1. ASSUME NEW p \in Procs, SysCall(p) \/ Step(p) PROVE Case(p) /\ Moved(p)
    <2>1. Place(p)
      BY DEF Places
    <2>2. CASE SysCall(p)
      BY <2>1, <2>2, CallCases
    <2>3. CASE Step(p)
      BY <2>1, <2>3, PutCases, LookupCases, LockCases, FileCases, AllocCases, RelinkCases, DirCases,
         LocalCases
         DEF Step
    <2> QED
      BY <1>1, <2>2, <2>3
  <1> QED
    BY <1>1 DEF Next

-----------------------------------------------------------------------------
(* What the inductive invariant says of the inode that a process has.      *)

Holders(i) == {p \in Procs : ip(p) = i /\ th[p].pc # "ialloc"}
Files(i) == {p \in Procs : fdino[p] = i}
NamesOf(i) == {n \in Names : entry[n] = i}
Counted(i) == {p \in Procs : ip(p) = i /\ th[p].pc \in CountedPcs}

\* The sets that ip->ref and ip->nlink count are finite.
LEMMA CountsFinite ==
  ASSUME NEW i
  PROVE  /\ IsFiniteSet(Holders(i)) /\ IsFiniteSet(Files(i))
         /\ IsFiniteSet(NamesOf(i)) /\ IsFiniteSet(Counted(i))
         /\ Cardinality(Holders(i)) \in Nat /\ Cardinality(Files(i)) \in Nat
         /\ Cardinality(NamesOf(i)) \in Nat /\ Cardinality(Counted(i)) \in Nat
  <1>1. /\ IsFiniteSet(Holders(i)) /\ IsFiniteSet(Files(i))
        /\ IsFiniteSet(NamesOf(i)) /\ IsFiniteSet(Counted(i))
    BY InodesAssumption, FS_Subset DEF Holders, Files, NamesOf, Counted
  <1> QED
    BY <1>1, FS_CardinalityType

\* ip->ref and ip->nlink as the sums of such counts.
LEMMA CountsMean ==
  ASSUME Counts, panic = "no", NEW i \in Inums
  PROVE  /\ ref[i] = Cardinality(Holders(i)) + Cardinality(Files(i))
         /\ disk[i].nlink = Cardinality(NamesOf(i)) + Cardinality(Counted(i))
  <1>1. Counted(i) = {p \in Procs : ip(p) = i /\
                      th[p].pc \in {"dirlink", "unlink nlink", "link", "bad", "bad nlink"}}
    BY DEF Counted, CountedPcs, LinkPcs
  <1> QED
    BY <1>1 DEF Counts, RefCounts, LinkCounts, Holders, Files, NamesOf

\* A set with an element has at least one, and with another one at least two.
LEMMA AtLeast ==
  ASSUME NEW S, IsFiniteSet(S), NEW x \in S
  PROVE  /\ Cardinality(S) >= 1
         /\ \A y \in S \ {x} : Cardinality(S) >= 2
  <1>1. /\ IsFiniteSet(S \ {x}) /\ Cardinality(S) = Cardinality(S \ {x}) + 1
        /\ Cardinality(S \ {x}) \in Nat
    <2>1. IsFiniteSet(S \ {x}) /\ Cardinality(S \ {x}) = Cardinality(S) - 1
      BY CountRemove
    <2>2. Cardinality(S) \in Nat /\ Cardinality(S \ {x}) \in Nat
      BY <2>1, FS_CardinalityType
    <2> QED
      BY <2>1, <2>2
  <1>2. ASSUME NEW y \in S \ {x} PROVE Cardinality(S \ {x}) >= 1
    <2>1. Cardinality(S \ {x}) # 0
      BY <1>1, FS_EmptySet
    <2> QED
      BY <1>1, <2>1
  <1> QED
    BY <1>1, <1>2

\* Pointers to an entry count: nobody else has one if ip->ref is 1.
LEMMA Pointers ==
  ASSUME Counts, panic = "no", NEW i \in Inums
  PROVE  /\ \A p \in Procs : fdino[p] = i => ref[i] >= 1
         /\ \A p \in Holders(i) :
               /\ ref[i] >= 1
               /\ \A q \in Procs : fdino[q] = i => ref[i] >= 2
               /\ \A q \in Holders(i) : q # p => ref[i] >= 2
  <1> DEFINE h == Cardinality(Holders(i))
             f == Cardinality(Files(i))
  <1>1. ref[i] = h + f /\ h \in Nat /\ f \in Nat
    BY CountsMean, CountsFinite
  <1>2. \A p \in Procs : fdino[p] = i => f >= 1
    BY CountsFinite, AtLeast DEF Files
  <1>3. \A p \in Holders(i) : h >= 1 /\ \A q \in Holders(i) : q # p => h >= 2
    BY CountsFinite, AtLeast
  <1> HIDE DEF h, f
  <1>4. ASSUME NEW p \in Holders(i)
        PROVE  /\ ref[i] >= 1
               /\ \A q \in Procs : fdino[q] = i => ref[i] >= 2
               /\ \A q \in Holders(i) : q # p => ref[i] >= 2
    BY <1>1, <1>2, <1>3
  <1>5. \A p \in Procs : fdino[p] = i => ref[i] >= 1
    BY <1>1, <1>2
  <1> QED
    BY <1>4, <1>5

\* An inode with a name has a link, and so has one that a system call counts.
LEMMA Links ==
  ASSUME Counts, panic = "no", NEW i \in Inums
  PROVE  /\ \A n \in Names : entry[n] = i => disk[i].nlink >= 1
         /\ \A p \in Counted(i) : disk[i].nlink >= 1
  <1> DEFINE h == Cardinality(NamesOf(i))
             f == Cardinality(Counted(i))
  <1>1. disk[i].nlink = h + f /\ h \in Nat /\ f \in Nat
    BY CountsMean, CountsFinite
  <1>2. \A n \in Names : entry[n] = i => h >= 1
    BY CountsFinite, AtLeast DEF NamesOf
  <1>3. \A p \in Counted(i) : f >= 1
    BY CountsFinite, AtLeast
  <1> QED
    BY <1>1, <1>2, <1>3

\* A process that is past namei has an inode: in use, and what it holds locked
\* is read and not free.
Knows(p) ==
    /\ ip(p) \in Inums
    /\ th[p].pc # "ialloc" => p \in Holders(ip(p)) /\ ref[ip(p)] >= 1
    /\ th[p].pc \in LockedPcs => ilk[ip(p)] = p /\ valid[ip(p)]
    /\ th[p].pc \notin DonePcs => disk[ip(p)].type # "free"
    /\ th[p].pc \in LockedPcs \ DonePcs => mem[ip(p)] = disk[ip(p)]

\* What a process knows between iget and iput of its inode.
LEMMA Known ==
  ASSUME IInv, NEW p \in Procs, th[p].pc \notin NoInoPcs
  PROVE  Knows(p)
  <1> DEFINE i == ip(p)
  <1>1. i \in Inums /\ i # 0
    <2>1. i # 0
      BY DEF IInv, Places, Place
    <2>2. i \in Inums \cup {0}
      BY DEF IInv, Types, TypeOK, ip
    <2> QED
      BY <2>1, <2>2
  <1>2. th[p].pc # "ialloc" => p \in Holders(i) /\ ref[i] >= 1
    BY <1>1, Pointers DEF IInv, NoPanic, Holders
  <1>3. th[p].pc \in LockedPcs => ilk[i] = p /\ valid[i]
    BY DEF IInv, InodeLocks, Cached
  <1>4. th[p].pc \notin DonePcs => disk[i].type # "free"
    BY <1>1 DEF IInv, Owners, NoUseAfterFree, DonePcs
  <1>5. ASSUME th[p].pc \in LockedPcs \ DonePcs PROVE mem[i] = disk[i]
    <2>1. ref[i] > 0 /\ valid[i] /\ ilk[i] = p
      <3>1. ref[i] \in Nat
        BY <1>1 DEF IInv, Types, TypeOK
      <3>2. th[p].pc # "ialloc"
        BY <1>5 DEF LockedPcs
      <3>3. ref[i] > 0
        BY <1>2, <3>1, <3>2
      <3> QED
        BY <1>3, <1>5, <3>3
    <2>2. ~ \E q \in Procs : ip(q) = i /\ th[q].pc = "freed"
      <3>1. SUFFICES ASSUME NEW q \in Procs, ip(q) = i, th[q].pc = "freed" PROVE FALSE
        OBVIOUS
      <3>2. ilk[i] = q
        BY <3>1 DEF IInv, InodeLocks, LockedPcs
      <3> QED
        BY <1>5, <2>1, <3>1, <3>2 DEF DonePcs
    <2> QED
      BY <1>1, <2>1, <2>2 DEF IInv, Cached
  <1> QED
    BY <1>1, <1>2, <1>3, <1>4, <1>5 DEF Knows

-----------------------------------------------------------------------------
(* Each part of the inductive invariant, across the cases.                 *)

\* The step of a process leaves the other processes where they are.
LEMMA OthersStay ==
  ASSUME Types, NEW p \in Procs, Case(p)
  PROVE  \A q \in Procs \ {p} : th'[q] = th[q] /\ fdino'[q] = fdino[q]
  <1>1. \E l, i : Goes(p, l, i)
    BY DEF Case, Local, Drops, Unlocks, LastPut, Frees, Releases, Locks, Opens, Closes, Finds,
           Marks, GetsNew, Clears, LeavesDir, Relinks, Enters
  <1>2. \/ fdino' = fdino
        \/ \E i : fdino' = [fdino EXCEPT ![p] = i]
    BY DEF Case, Local, Drops, Unlocks, LastPut, Frees, Releases, Locks, Opens, Closes, Finds,
           Marks, GetsNew, Clears, LeavesDir, Relinks, Enters
  <1>3. fdino \in [Procs -> Inums \cup {0}]
    BY DEF Types, TypeOK
  <1>4. \A q \in Procs \ {p} : fdino'[q] = fdino[q]
    BY <1>2, <1>3
  <1> QED
    BY <1>1, <1>4 DEF Goes

\* The variables keep their types: a reference that is dropped was counted.
LEMMA TypesStep ==
  ASSUME IInv, NEW p \in Procs, Case(p), Moved(p)
  PROVE  Types'
  <1> USE DEF NoInoPcs, PutPcs, NewPcs, UnlinkPcs, LinkPcs, LockedPcs, CountedPcs
  <1>1. /\ entry \in [Names -> Inums \cup {0}] /\ dlock \in Procs \cup {None}
        /\ disk \in [Inums -> Dinode] /\ mem \in [Inums -> Dinode]
        /\ ref \in [Inums -> Nat] /\ valid \in [Inums -> BOOLEAN]
        /\ ilk \in [Inums -> Procs \cup {None}] /\ fdino \in [Procs -> Inums \cup {0}]
    BY DEF IInv, Types, TypeOK
  <1>2. th[p].pc \notin NoInoPcs => ip(p) \in Inums
    BY Known DEF Knows
  <1>3. th' \in [Procs -> Thread] /\ target' \in [Inums -> Names \cup {NoName}]
    BY DEF Moved
  <1>4. SUFFICES
          /\ entry' \in [Names -> Inums \cup {0}] /\ dlock' \in Procs \cup {None}
          /\ disk' \in [Inums -> Dinode] /\ mem' \in [Inums -> Dinode]
          /\ ref' \in [Inums -> Nat] /\ valid' \in [Inums -> BOOLEAN]
          /\ ilk' \in [Inums -> Procs \cup {None}] /\ fdino' \in [Procs -> Inums \cup {0}]
    BY <1>3 DEF Types, TypeOK, Thread
  <1> DEFINE Goal == /\ entry' \in [Names -> Inums \cup {0}] /\ dlock' \in Procs \cup {None}
                     /\ disk' \in [Inums -> Dinode] /\ mem' \in [Inums -> Dinode]
                     /\ ref' \in [Inums -> Nat] /\ valid' \in [Inums -> BOOLEAN]
                     /\ ilk' \in [Inums -> Procs \cup {None}] /\ fdino' \in [Procs -> Inums \cup {0}]
  <1>5. CASE \E l \in Pcs : Local(p, l)
    BY <1>1, <1>5 DEF Local, table
  <1>6. ASSUME NEW l \in Pcs, Drops(p, l) PROVE Goal
    <2>1. ip(p) \in Inums /\ ref[ip(p)] >= 1
      BY <1>6, Known DEF Drops, Knows
    <2>2. ref[ip(p)] \in Nat
      BY <1>1, <2>1
    <2>3. ref[ip(p)] - 1 \in Nat
      BY <2>1, <2>2
    <2> QED
      BY <1>1, <1>6, <2>3 DEF Drops
  <1>7. CASE Unlocks(p) \/ LastPut(p) \/ Closes(p) \/ LeavesDir(p)
    BY <1>1, <1>7 DEF Unlocks, LastPut, Closes, LeavesDir, table
  <1>8. CASE Frees(p) \/ Releases(p)
    <2>1. \A i \in Inums : [mem[i] EXCEPT !.type = "free"] \in Dinode
      BY <1>1 DEF Dinode
    <2>2. CASE Frees(p)
      <3>1. ip(p) \in Inums /\ mem'[ip(p)] = [mem[ip(p)] EXCEPT !.type = "free"]
        BY <1>1, <1>2, <2>2 DEF Frees
      <3>2. mem' = [mem EXCEPT ![ip(p)] = [mem[ip(p)] EXCEPT !.type = "free"]]
        BY <2>2 DEF Frees
      <3>3. mem' \in [Inums -> Dinode] /\ disk' \in [Inums -> Dinode]
        BY <1>1, <2>1, <2>2, <3>1, <3>2 DEF Frees
      <3> QED
        BY <1>1, <2>2, <3>3 DEF Frees
    <2>3. CASE Releases(p)
      BY <1>1, <2>3 DEF Releases
    <2> QED
      BY <1>8, <2>2, <2>3
  <1>9. CASE Locks(p)
    BY <1>1, <1>2, <1>9 DEF Locks, ilock
  <1>10. CASE Opens(p)
    BY <1>1, <1>2, <1>10 DEF Opens
  <1>11. ASSUME NEW n \in Names, NEW i \in Inums, NEW l \in Pcs, Finds(p, n, i, l) PROVE Goal
    <2>1. ref[i] + 1 \in Nat
      BY <1>1
    <2> QED
      BY <1>1, <1>11, <2>1 DEF Finds, iget
  <1>12. ASSUME NEW i \in Inums, NEW ty \in {"T_FILE", "T_SYMLINK"}, Marks(p, i, ty) PROVE Goal
    <2>1. [type |-> ty, nlink |-> 0] \in Dinode
      BY DEF Dinode
    <2> QED
      BY <1>1, <1>12, <2>1 DEF Marks, table
  <1>13. CASE GetsNew(p)
    <2>1. ip(p) \in Inums
      BY <1>2, <1>13 DEF GetsNew
    <2>2. ref[ip(p)] + 1 \in Nat
      BY <1>1, <2>1
    <2> QED
      BY <1>1, <1>13, <2>2 DEF GetsNew, iget
  <1>14. CASE Clears(p)
    BY <1>1, <1>14 DEF Clears, table
  <1>15. ASSUME NEW l \in Pcs, NEW n \in Int, Relinks(p, l, n) PROVE Goal
    <2>1. ip(p) \in Inums
      BY <1>2, <1>15 DEF Relinks
    <2>2. [mem[ip(p)] EXCEPT !.nlink = n] \in Dinode
      BY <1>1, <2>1 DEF Dinode
    <2>3. /\ mem' = [mem EXCEPT ![ip(p)] = [mem[ip(p)] EXCEPT !.nlink = n]]
          /\ disk' = [disk EXCEPT ![ip(p)] = mem'[ip(p)]]
      BY <1>15 DEF Relinks, SetNlink
    <2>4. mem' \in [Inums -> Dinode] /\ disk' \in [Inums -> Dinode]
      BY <1>1, <2>1, <2>2, <2>3
    <2>5. ilk' \in [Inums -> Procs \cup {None}]
      BY <1>1, <1>15 DEF Relinks
    <2> QED
      BY <1>1, <1>15, <2>4, <2>5 DEF Relinks
  <1>16. ASSUME NEW n \in Names, NEW l \in Pcs, Enters(p, n, l) PROVE Goal
    BY <1>1, <1>2, <1>16 DEF Enters, table
  <1> QED
    BY <1>5, <1>6, <1>7, <1>8, <1>9, <1>10, <1>11, <1>12, <1>13, <1>14, <1>15, <1>16 DEF Case

\* The locals of the others do not change.
LEMMA PlacesStep ==
  ASSUME IInv, NEW p \in Procs, Case(p), Moved(p)
  PROVE  Places'
  <1>1. ASSUME NEW q \in Procs, q # p PROVE Place(q)'
    <2>1. th'[q] = th[q] /\ fdino'[q] = fdino[q]
      BY <1>1, OthersStay DEF IInv
    <2>2. Place(q)
      BY DEF IInv, Places
    <2> QED
      BY <2>1, <2>2 DEF Place, ip, op
  <1> QED
    BY <1>1 DEF Places, Moved

\* A step keeps the lock of its inode, releases it, or takes it.
LEMMA LockTurns ==
  ASSUME IInv, NEW p \in Procs, NEW l, NEW i, Goes(p, l, i),
         \/ /\ ilk' = ilk /\ (th[p].pc \in LockedPcs <=> l \in LockedPcs)
            /\ th[p].pc \in LockedPcs => i = ip(p)
         \/ /\ ilk' = [ilk EXCEPT ![ip(p)] = None]
            /\ th[p].pc \in LockedPcs /\ l \notin LockedPcs
         \/ /\ ilk' = [ilk EXCEPT ![ip(p)] = p] /\ ip(p) \in Inums /\ ilk[ip(p)] = None
            /\ th[p].pc \notin LockedPcs /\ l \in LockedPcs /\ i = ip(p)
  PROVE  InodeLocks'
  <1>1. ilk \in [Inums -> Procs \cup {None}] /\ None \notin Procs
    BY InodesAssumption DEF IInv, Types, TypeOK
  <1>2. InodeLocks
    BY DEF IInv
  <1>3. th[p].pc \in LockedPcs => ip(p) \in Inums /\ ilk[ip(p)] = p
    BY Known DEF Knows, LockedPcs, NoInoPcs
  <1>4. th'[p].pc = l /\ ip(p)' = i
    BY DEF Goes, ip
  <1>5. \A q \in Procs \ {p} : th'[q].pc = th[q].pc /\ ip(q)' = ip(q)
    BY DEF Goes, ip
  <1>7. \A q \in Procs : th[q].pc \in LockedPcs => ip(q) \in Inums
    BY Known DEF Knows, LockedPcs, NoInoPcs
  <1> HIDE DEF LockedPcs, ip
  <1>6. ASSUME NEW q \in Procs, th'[q].pc \in LockedPcs PROVE ilk'[ip(q)'] = q
    <2>1. CASE q = p
      BY <1>1, <1>2, <1>3, <1>4, <1>6, <2>1 DEF InodeLocks
    <2>2. CASE q # p
      <3>1. th[q].pc \in LockedPcs /\ ip(q)' = ip(q) /\ ilk[ip(q)] = q /\ ip(q) \in Inums
        BY <1>2, <1>5, <1>6, <1>7, <2>2 DEF InodeLocks
      <3>2. ilk'[ip(q)] = ilk[ip(q)]
        BY <1>1, <1>3, <2>2, <3>1
      <3> QED
        BY <3>1, <3>2
    <2> QED
      BY <2>1, <2>2
  <1>8. ASSUME NEW j \in Inums, ilk'[j] # None
        PROVE  th'[ilk'[j]].ino = j /\ th'[ilk'[j]].pc \in LockedPcs
    <2>1. ilk[j] # None => ilk[j] \in Procs /\ th[ilk[j]].ino = j /\ th[ilk[j]].pc \in LockedPcs
      BY <1>1, <1>2 DEF InodeLocks, ip
    <2>2. CASE ilk'[j] = p /\ ilk[j] # p
      <3>1. ilk' = [ilk EXCEPT ![ip(p)] = p] /\ j = ip(p) /\ l \in LockedPcs /\ i = ip(p)
        BY <1>1, <1>8, <2>2
      <3> QED
        BY <1>4, <2>2, <3>1 DEF ip
    <2>3. CASE ilk'[j] = p /\ ilk[j] = p
      <3>1. th[p].pc \in LockedPcs /\ j = ip(p) /\ p # None
        BY <1>1, <2>1, <2>3 DEF ip
      <3>2. l \in LockedPcs /\ i = ip(p)
        BY <1>1, <2>3, <3>1
      <3> QED
        BY <1>4, <2>3, <3>1, <3>2 DEF ip
    <2>4. CASE ilk'[j] # p
      <3>1. ilk'[j] = ilk[j]
        BY <1>1, <1>8, <2>4
      <3>2. ilk[j] \in Procs \ {p}
        BY <1>1, <1>8, <2>4, <3>1
      <3> QED
        BY <1>5, <1>8, <2>1, <3>1, <3>2 DEF ip
    <2> QED
      BY <2>2, <2>3, <2>4
  <1> QED
    BY <1>6, <1>8 DEF InodeLocks, ip

\* A lock that is held is held by the system call between acquire and release.
LEMMA InodeLocksStep ==
  ASSUME IInv, NEW p \in Procs, Case(p), Moved(p)
  PROVE  InodeLocks'
  <1> USE DEF NoInoPcs, PutPcs, NewPcs, UnlinkPcs, LinkPcs, LockedPcs
  <1>1. th[p].pc \notin NoInoPcs => ip(p) \in Inums
    BY Known DEF Knows
  <1>2. CASE \E l \in Pcs : Local(p, l)
    BY <1>2, LockTurns DEF Local, table
  <1>3. CASE \E l \in Pcs : Drops(p, l)
    <2>1. PICK l \in Pcs : Drops(p, l)
      BY <1>3
    <2>2. l \notin LockedPcs /\ th[p].pc \notin LockedPcs
      BY <2>1 DEF Drops, Afters
    <2> QED
      BY <2>1, <2>2, LockTurns DEF Drops
  <1>4. CASE Unlocks(p)
    BY <1>4, LockTurns DEF Unlocks
  <1>5. CASE LastPut(p)
    BY <1>1, <1>5, LockTurns DEF LastPut
  <1>6. CASE Frees(p)
    BY <1>6, LockTurns DEF Frees
  <1>7. CASE Releases(p)
    BY <1>7, LockTurns DEF Releases
  <1>8. CASE Locks(p)
    <2>1. /\ th[p].pc \notin LockedPcs /\ NextLocked(th[p].pc) \in LockedPcs
          /\ ip(p) \in Inums
      BY <1>1, <1>8 DEF Locks, NextLocked
    <2> QED
      BY <1>8, <2>1, LockTurns DEF Locks, ilock
  <1>9. CASE Opens(p)
    BY <1>9, LockTurns DEF Opens
  <1>10. CASE Closes(p)
    BY <1>10, LockTurns DEF Closes, table
  <1>11. CASE \E n \in Names, i \in Inums, l \in Pcs : Finds(p, n, i, l)
    <2>1. PICK n \in Names, i \in Inums, l \in Pcs : Finds(p, n, i, l)
      BY <1>11
    <2>2. l \notin LockedPcs /\ th[p].pc \notin LockedPcs
      BY <2>1 DEF Finds
    <2> QED
      BY <2>1, <2>2, LockTurns DEF Finds
  <1>12. CASE \E i \in Inums, ty \in {"T_FILE", "T_SYMLINK"} : Marks(p, i, ty)
    BY <1>12, LockTurns DEF Marks, table
  <1>13. CASE GetsNew(p) \/ LeavesDir(p)
    BY <1>13, LockTurns DEF GetsNew, LeavesDir, table
  <1>14. CASE Clears(p)
    BY <1>14, LockTurns DEF Clears, table
  <1>15. CASE \E l \in Pcs, n \in Int : Relinks(p, l, n)
    <2>1. PICK l \in Pcs, n \in Int : Relinks(p, l, n)
      BY <1>15
    <2>2. Goes(p, l, ip(p)) /\ th[p].pc \in LockedPcs
      BY <2>1 DEF Relinks
    <2>3. \/ ilk' = ilk /\ l \in LockedPcs
          \/ ilk' = [ilk EXCEPT ![ip(p)] = None] /\ l \notin LockedPcs
      BY <2>1 DEF Relinks
    <2> HIDE DEF LockedPcs
    <2> QED
      BY <2>2, <2>3, LockTurns
  <1>16. CASE \E n \in Names, l \in Pcs : Enters(p, n, l)
    <2>1. PICK n \in Names, l \in Pcs : Enters(p, n, l)
      BY <1>16
    <2>2. /\ Goes(p, l, ip(p)) /\ ilk' = ilk
          /\ th[p].pc \in LockedPcs <=> l \in LockedPcs
      BY <2>1 DEF Enters, table
    <2> QED
      BY <2>2, LockTurns
  <1> QED
    BY <1>2, <1>3, <1>4, <1>5, <1>6, <1>7, <1>8, <1>9, <1>10, <1>11, <1>12, <1>13, <1>14, <1>15,
       <1>16 DEF Case

\* One process at a time is between the acquire and the release of the directory.
LEMMA DirLockStep ==
  ASSUME IInv, NEW p \in Procs, Case(p), Moved(p)
  PROVE  DirLock'
  <1>1. DirLock /\ None \notin Procs
    BY InodesAssumption DEF IInv
  <1>2. \A q \in Procs \ {p} : HoldsDir(q)' <=> HoldsDir(q)
    <2>1. \A q \in Procs \ {p} : th'[q] = th[q]
      BY OthersStay DEF IInv
    <2> QED
      BY <2>1 DEF HoldsDir
  <1>3. SUFFICES \/ dlock' = dlock /\ SameDir(p)
                 \/ dlock = None /\ dlock' = p /\ HoldsDir(p)'
                 \/ dlock \in {p, None} /\ dlock' = None /\ ~HoldsDir(p)'
    <2>1. ASSUME NEW q \in Procs, q # p PROVE dlock' = q <=> HoldsDir(q)'
      <3>1. HoldsDir(q)' <=> dlock = q
        BY <1>1, <1>2, <2>1 DEF DirLock
      <3>2. dlock' = q <=> dlock = q
        BY <1>1, <1>3, <2>1
      <3> QED
        BY <3>1, <3>2
    <2>2. dlock' = p <=> HoldsDir(p)'
      BY <1>1, <1>3 DEF DirLock, SameDir
    <2> QED
      BY <2>1, <2>2 DEF DirLock
  <1>4. CASE \E l \in Pcs : Local(p, l) \/ Drops(p, l)
    BY <1>4 DEF Local, Drops, SameDir
  <1>5. CASE Unlocks(p) \/ LastPut(p) \/ Frees(p) \/ Releases(p) \/ Locks(p) \/ Opens(p) \/ Closes(p)
    BY <1>5 DEF Unlocks, LastPut, Frees, Releases, Locks, Opens, Closes
  <1>6. ASSUME NEW n \in Names, NEW i \in Inums, NEW l \in Pcs, Finds(p, n, i, l)
        PROVE  \/ dlock' = dlock /\ SameDir(p)
               \/ dlock = None /\ dlock' = p /\ HoldsDir(p)'
    <2>1. dlock = None /\ ~HoldsDir(p)
      BY <1>1, <1>6 DEF Finds, DirLock
    <2> QED
      BY <1>6, <2>1 DEF Finds, SameDir
  <1>7. ASSUME NEW i \in Inums, NEW ty \in {"T_FILE", "T_SYMLINK"}, Marks(p, i, ty)
        PROVE  dlock = None /\ dlock' = p /\ HoldsDir(p)'
    BY <1>7 DEF Marks, HoldsDir, Goes, NewPcs
  <1>8. CASE GetsNew(p)
    BY <1>8 DEF GetsNew, SameDir, HoldsDir, Goes, NewPcs
  <1>9. CASE Clears(p) \/ LeavesDir(p)
    <2>1. HoldsDir(p)
      BY <1>9 DEF Clears, LeavesDir, HoldsDir, UnlinkPcs
    <2> QED
      BY <1>1, <1>9, <2>1 DEF Clears, LeavesDir, DirLock
  <1>10. CASE \E l \in Pcs, n \in Int : Relinks(p, l, n)
    BY <1>10 DEF Relinks
  <1>11. CASE \E n \in Names, l \in Pcs : Enters(p, n, l)
    BY <1>11 DEF Enters
  <1> QED
    BY <1>4, <1>5, <1>6, <1>7, <1>8, <1>9, <1>10, <1>11 DEF Case

\* Nobody changes the entry that a system call has looked up in the directory.
LEMMA LookedUpStep ==
  ASSUME IInv, NEW p \in Procs, Case(p), Moved(p)
  PROVE  LookedUp'
  <1> USE DEF NewPcs, UnlinkPcs
  <1>1. LookedUp /\ DirLock /\ None \notin Procs
    BY InodesAssumption DEF IInv
  <1>2. entry' = entry \/ dlock \in {p, None}
    <2>1. Clears(p) => dlock = p
      BY <1>1 DEF Clears, DirLock, HoldsDir
    <2> QED
      BY <2>1 DEF Case, Local, Drops, Unlocks, LastPut, Frees, Releases, Locks, Opens, Closes, Finds,
           Marks, GetsNew, LeavesDir, Relinks, Enters
  <1>3. ASSUME NEW q \in Procs, q # p
        PROVE  /\ th'[q].pc \in NewPcs => entry'[th'[q].name] = 0
               /\ th'[q].pc \in UnlinkPcs => entry'[th'[q].name] = ip(q)'
    <2>1. th'[q] = th[q] /\ ip(q)' = ip(q)
      BY <1>3, OthersStay DEF IInv, ip
    <2>2. th[q].pc \in NewPcs \cup UnlinkPcs => dlock = q
      BY <1>1 DEF DirLock, HoldsDir
    <2> QED
      BY <1>1, <1>2, <1>3, <2>1, <2>2 DEF LookedUp
  <1>12. SUFFICES /\ th'[p].pc \in NewPcs => entry'[th'[p].name] = 0
                  /\ th'[p].pc \in UnlinkPcs => entry'[th'[p].name] = ip(p)'
    BY <1>3 DEF LookedUp
  <1>4. CASE ~HoldsDir(p)'
    BY <1>4 DEF HoldsDir
  <1>5. CASE th'[p].pc \in PutPcs \cup {"release dir"} \cup Afters
    BY <1>5 DEF PutPcs, Afters
  <1>6. CASE Locks(p)
    BY <1>1, <1>6 DEF Locks, LookedUp, Goes, ip, NextLocked
  <1>7. CASE GetsNew(p)
    BY <1>1, <1>7 DEF GetsNew, LookedUp, Goes, ip
  <1>8. CASE \E i \in Inums, ty \in {"T_FILE", "T_SYMLINK"} : Marks(p, i, ty)
    BY <1>8 DEF Marks, Goes
  <1>9. CASE \E n \in Names, i \in Inums, l \in Pcs : Finds(p, n, i, l)
    BY <1>9 DEF Finds, Goes, ip
  <1>10. CASE \E l \in Pcs, n \in Int : Relinks(p, l, n)
    BY <1>1, <1>10 DEF Relinks, LookedUp, Goes
  <1>11. \/ ~HoldsDir(p)'
         \/ th'[p].pc \in PutPcs \cup {"release dir"} \cup Afters
         \/ Locks(p) \/ GetsNew(p)
         \/ \E i \in Inums, ty \in {"T_FILE", "T_SYMLINK"} : Marks(p, i, ty)
         \/ \E n \in Names, i \in Inums, l \in Pcs : Finds(p, n, i, l)
         \/ \E l \in Pcs, n \in Int : Relinks(p, l, n)
    BY DEF Case, Local, Drops, Unlocks, LastPut, Frees, Releases, Opens, Closes, Clears, LeavesDir,
           Enters, Goes, Afters, PutPcs
  <1> QED
    BY <1>4, <1>5, <1>6, <1>7, <1>8, <1>9, <1>10, <1>11

\* How a step changes who points to an inode, and the inode: a process gets an
\* inode by its name, from ialloc or with its open file; it changes the one it
\* has locked.
Turns(p) ==
    /\ \A j \in Inums : ip(p)' = j /\ ip(p) # j =>
          \/ dlock = None /\ \E n \in Names : entry[n] = j
          \/ dlock = None /\ disk[j].type = "free" /\ disk'[j].type # "free"
          \/ fdino[p] = j
    /\ \A j \in Inums : fdino'[p] = j => fdino[p] = j \/ (ip(p) = j /\ th[p].pc = "locked")
    /\ th[p].pc \in DonePcs /\ ip(p)' = ip(p) => th'[p].pc \in DonePcs
    /\ \A j \in Inums : disk'[j] # disk[j] =>
          \/ ip(p) = j /\ th[p].pc \in LockedPcs \ DonePcs
          \/ dlock = None /\ disk[j].type = "free" /\ disk'[j].type # "free" /\ disk'[j].nlink = 0
    /\ \A j \in Inums : mem'[j] # mem[j] => ip(p) = j /\ th[p].pc \notin NoInoPcs
    /\ \A j \in Inums, n \in Names : entry'[n] = j =>
          entry[n] = j \/ (ip(p) = j /\ th[p].pc \in {"dirlink", "link"})
    /\ \A j \in Inums : disk'[j].type = "free" => disk[j].type = "free" \/ (Frees(p) /\ j = ip(p))

\* Every step is of that kind.
LEMMA CaseTurns ==
  ASSUME IInv, NEW p \in Procs, Case(p)
  PROVE  Turns(p)
  <1> USE DEF NoInoPcs, PutPcs, NewPcs, UnlinkPcs, LinkPcs, LockedPcs, DonePcs
  <1>1. /\ entry \in [Names -> Inums \cup {0}] /\ disk \in [Inums -> Dinode]
        /\ mem \in [Inums -> Dinode] /\ fdino \in [Procs -> Inums \cup {0}]
    BY DEF IInv, Types, TypeOK
  <1>2. 0 \notin Inums /\ (th[p].pc \notin NoInoPcs <=> ip(p) # 0)
    BY InumsAboveZero DEF IInv, Places, Place
  <1>3. CASE \E l \in Pcs : Local(p, l)
    BY <1>2, <1>3 DEF Local, Goes, Turns, ip, table
  <1>4. CASE \E l \in Pcs : Drops(p, l)
    BY <1>2, <1>4 DEF Drops, Goes, Turns, ip
  <1>5. CASE Unlocks(p) \/ LastPut(p) \/ Releases(p)
    BY <1>2, <1>5 DEF Unlocks, LastPut, Releases, Goes, Turns, ip
  <1>6. CASE Frees(p)
    <2>1. \A j \in Inums : j # ip(p) => mem'[j] = mem[j] /\ disk'[j] = disk[j]
      BY <1>1, <1>6 DEF Frees
    <2>2. th[p].pc = "free" /\ th'[p].pc = "freed" /\ ip(p)' = ip(p) /\ UNCHANGED <<entry, fdino>>
      BY <1>6 DEF Frees, Goes, ip
    <2> QED
      BY <1>6, <2>1, <2>2 DEF Turns
  <1>7. CASE Locks(p)
    <2>1. \A j \in Inums : j # ip(p) => mem'[j] = mem[j]
      BY <1>1, <1>7 DEF Locks, ilock
    <2>2. /\ th[p].pc \notin NoInoPcs \cup DonePcs /\ ip(p)' = ip(p)
          /\ UNCHANGED <<entry, fdino, disk>>
      BY <1>7 DEF Locks, Goes, ip
    <2> QED
      BY <2>1, <2>2 DEF Turns
  <1>8. CASE Opens(p)
    BY <1>1, <1>2, <1>8 DEF Opens, Goes, Turns, ip
  <1>9. CASE Closes(p)
    BY <1>1, <1>2, <1>9 DEF Closes, Goes, Turns, ip, table
  <1>10. CASE \E n \in Names, i \in Inums, l \in Pcs : Finds(p, n, i, l)
    BY <1>1, <1>2, <1>10 DEF Finds, Goes, Turns, ip
  <1>11. ASSUME NEW i \in Inums, NEW ty \in {"T_FILE", "T_SYMLINK"}, Marks(p, i, ty) PROVE Turns(p)
    <2>1. \A j \in Inums : j # i => disk'[j] = disk[j]
      BY <1>1, <1>11 DEF Marks
    <2>2. disk'[i].type # "free" /\ disk'[i].nlink = 0 /\ disk[i].type = "free" /\ dlock = None
      BY <1>1, <1>11 DEF Marks
    <2>3. ip(p)' = i /\ th[p].pc = "create" /\ UNCHANGED <<entry, mem, fdino>>
      BY <1>11 DEF Marks, Goes, ip, table
    <2> QED
      BY <2>1, <2>2, <2>3 DEF Turns
  <1>12. CASE GetsNew(p) \/ Clears(p) \/ LeavesDir(p)
    BY <1>1, <1>2, <1>12 DEF GetsNew, Clears, LeavesDir, Goes, Turns, ip, table
  <1>13. ASSUME NEW l \in Pcs, NEW n \in Int, Relinks(p, l, n) PROVE Turns(p)
    <2>1. \A j \in Inums : j # ip(p) => mem'[j] = mem[j] /\ disk'[j] = disk[j]
      BY <1>1, <1>13 DEF Relinks, SetNlink
    <2>2. /\ th[p].pc \in LockedPcs \ DonePcs /\ ip(p)' = ip(p)
          /\ UNCHANGED <<entry, fdino>>
      BY <1>13 DEF Relinks, Goes, ip
    <2>3. ip(p) \in Inums /\ mem[ip(p)] = disk[ip(p)] /\ disk[ip(p)].type # "free"
      BY <2>2, Known DEF Knows
    <2>4. disk'[ip(p)].type # "free"
      BY <1>1, <1>13, <2>3 DEF Relinks, SetNlink, Dinode
    <2> QED
      BY <2>1, <2>2, <2>4 DEF Turns
  <1>14. ASSUME NEW n \in Names, NEW l \in Pcs, Enters(p, n, l) PROVE Turns(p)
    <2>1. \A m \in Names : m # n => entry'[m] = entry[m]
      BY <1>1, <1>14 DEF Enters
    <2>2. entry'[n] = ip(p) /\ th[p].pc \in {"dirlink", "link"} /\ ip(p)' = ip(p)
          /\ UNCHANGED <<disk, mem, fdino>>
      BY <1>1, <1>14 DEF Enters, Goes, ip, table
    <2> QED
      BY <2>1, <2>2 DEF Turns
  <1> QED
    BY <1>3, <1>4, <1>5, <1>6, <1>7, <1>8, <1>9, <1>10, <1>11, <1>12, <1>13, <1>14 DEF Case

\* How create gets to where its inode is new,
LEMMA NewTurn ==
  ASSUME IInv, NEW p \in Procs, Case(p), th'[p].pc \in NewPcs
  PROVE  \/ /\ th[p].pc \in NewPcs /\ ip(p)' = ip(p) /\ UNCHANGED fdino
            /\ disk'[ip(p)].nlink = IF th'[p].pc = "dirlink" THEN 1 ELSE 0
         \/ \E i \in Inums, ty \in {"T_FILE", "T_SYMLINK"} : Marks(p, i, ty)
  <1> USE DEF NoInoPcs, PutPcs, NewPcs, UnlinkPcs, LinkPcs, LockedPcs, DonePcs
  <1>1. \/ GetsNew(p) \/ Locks(p) \/ \E l \in Pcs, n \in Int : Relinks(p, l, n)
        \/ \E i \in Inums, ty \in {"T_FILE", "T_SYMLINK"} : Marks(p, i, ty)
    BY DEF Case, Local, HoldsDir, Drops, Afters, Unlocks, LastPut, Frees, Releases, Opens, Closes,
           Finds, Clears, LeavesDir, Enters, Goes
  <1>2. th[p].pc \in NewPcs => disk[ip(p)].nlink = IF th[p].pc = "dirlink" THEN 1 ELSE 0
    BY DEF IInv, Owners, NewInodes
  <1>3. CASE GetsNew(p) \/ Locks(p)
    BY <1>2, <1>3 DEF GetsNew, Locks, Goes, NextLocked, ip
  <1>4. ASSUME NEW l \in Pcs, NEW n \in Int, Relinks(p, l, n)
        PROVE  /\ th[p].pc \in NewPcs /\ ip(p)' = ip(p) /\ UNCHANGED fdino
               /\ disk'[ip(p)].nlink = IF th'[p].pc = "dirlink" THEN 1 ELSE 0
    <2>1. th[p].pc = "create nlink" /\ th'[p].pc = "dirlink" /\ n = 1 /\ ip(p)' = ip(p)
      BY <1>4 DEF Relinks, Goes, ip
    <2>2. ip(p) \in Inums /\ mem \in [Inums -> Dinode] /\ disk \in [Inums -> Dinode]
      BY <2>1, Known DEF Knows, IInv, Types, TypeOK
    <2>3. disk'[ip(p)] = [mem[ip(p)] EXCEPT !.nlink = n] /\ mem[ip(p)] \in Dinode
      BY <1>4, <2>2 DEF Relinks, SetNlink
    <2>4. disk'[ip(p)].nlink = 1
      BY <2>1, <2>3 DEF Dinode
    <2>5. UNCHANGED fdino
      BY <1>4 DEF Relinks
    <2> QED
      BY <2>1, <2>4, <2>5
  <1> QED
    BY <1>1, <1>3, <1>4

\* and how iput gets to where it frees the inode.
LEMMA FreeTurn ==
  ASSUME IInv, NEW p \in Procs, Case(p), th'[p].pc = "free"
  PROVE  LastPut(p)
  BY DEF Case, Local, Drops, Afters, Unlocks, Frees, Releases, Opens, Closes, Locks, NextLocked,
         Finds, Marks, GetsNew, Relinks, Clears, LeavesDir, Enters, Goes

\* Nobody but its maker gets a new inode before its name is written.
LEMMA NewInodesStep ==
  ASSUME IInv, NEW p \in Procs, Case(p), Moved(p)
  PROVE  NewInodes'
  <1>1. /\ disk \in [Inums -> Dinode] /\ fdino \in [Procs -> Inums \cup {0}]
        /\ NewInodes /\ NoUseAfterFree /\ DirLock /\ None \notin Procs
    BY InodesAssumption DEF IInv, Types, TypeOK, Owners
  <1>2. Turns(p)
    BY CaseTurns
  <1>3. \A q \in Procs \ {p} : th'[q] = th[q] /\ ip(q)' = ip(q) /\ fdino'[q] = fdino[q]
    BY OthersStay DEF IInv, ip
  <1> DEFINE New(q) == /\ \A r \in Procs \ {q} : ip(r)' = ip(q)' => th'[r].pc \in DonePcs
                       /\ \A r \in Procs : fdino'[r] # ip(q)'
                       /\ disk'[ip(q)'].nlink = IF th'[q].pc = "dirlink" THEN 1 ELSE 0
  <1>4. ASSUME NEW q \in Procs, q # p, th'[q].pc \in NewPcs PROVE New(q)
    <2> DEFINE j == ip(q)
    <2>1. th[q].pc \in NewPcs /\ j \in Inums /\ ip(q)' = j /\ th'[q] = th[q]
      <3>1. th[q].pc \in NewPcs /\ ip(q)' = j /\ th'[q] = th[q]
        BY <1>3, <1>4
      <3>2. j \in Inums
        BY <3>1, Known DEF Knows, NewPcs, NoInoPcs
      <3> QED
        BY <3>1, <3>2
    <2>2. dlock # None
      BY <1>1, <2>1 DEF DirLock, HoldsDir
    <2>3. /\ \A r \in Procs \ {q} : ip(r) = j => th[r].pc \in DonePcs
          /\ \A r \in Procs : fdino[r] # j
          /\ disk[j].nlink = IF th[q].pc = "dirlink" THEN 1 ELSE 0
      BY <1>1, <2>1 DEF NewInodes
    <2> HIDE DEF j
    <2>4. ip(p)' = j => ip(p) = j
      BY <1>2, <2>1, <2>2, <2>3 DEF Turns
    <2>5. ip(p)' = j => th'[p].pc \in DonePcs
      BY <1>2, <1>4, <2>3, <2>4 DEF Turns
    <2>6. fdino'[p] # j
      BY <1>2, <1>4, <2>1, <2>3 DEF Turns, DonePcs
    <2>7. disk'[j] = disk[j]
      BY <1>2, <1>4, <2>1, <2>2, <2>3 DEF Turns
    <2>8. \A r \in Procs \ {q} : ip(r)' = j => th'[r].pc \in DonePcs
      BY <1>3, <2>3, <2>5
    <2>9. \A r \in Procs : fdino'[r] # j
      BY <1>3, <2>3, <2>6
    <2> QED
      BY <2>1, <2>3, <2>7, <2>8, <2>9
  <1>5. ASSUME th'[p].pc \in NewPcs PROVE New(p)
    <2>1. CASE /\ th[p].pc \in NewPcs /\ ip(p)' = ip(p) /\ UNCHANGED fdino
               /\ disk'[ip(p)].nlink = IF th'[p].pc = "dirlink" THEN 1 ELSE 0
      BY <1>1, <1>3, <2>1 DEF NewInodes
    <2>2. ASSUME NEW i \in Inums, NEW ty \in {"T_FILE", "T_SYMLINK"}, Marks(p, i, ty)
          PROVE  New(p)
      <3>1. /\ disk[i].type = "free" /\ ip(p)' = i /\ th'[p].pc = "ialloc" /\ i # 0
            /\ UNCHANGED fdino
        BY <2>2, InumsAboveZero DEF Marks, Goes, ip
      <3>2. disk'[i].nlink = 0
        BY <1>1, <2>2 DEF Marks
      <3>3. \A r \in Procs \ {p} : ip(r) = i => th[r].pc \in DonePcs
        BY <1>1, <3>1 DEF NoUseAfterFree, DonePcs
      <3>4. \A r \in Procs : fdino[r] # i
        BY <1>1, <3>1 DEF NoUseAfterFree
      <3> QED
        BY <1>3, <3>1, <3>2, <3>3, <3>4
    <2> QED
      BY <1>5, <2>1, <2>2, NewTurn
  <1> QED
    BY <1>4, <1>5 DEF NewInodes

\* Nobody gets an inode that iput is about to free: it has no name, and its one
\* reference is iput's.
LEMMA FreeingStep ==
  ASSUME IInv, NEW p \in Procs, Case(p), Moved(p)
  PROVE  Freeing'
  <1>1. /\ mem \in [Inums -> Dinode] /\ ref \in [Inums -> Nat]
        /\ fdino \in [Procs -> Inums \cup {0}]
        /\ Freeing /\ NewInodes /\ Counts /\ panic = "no"
    BY DEF IInv, Types, TypeOK, Owners, NoPanic
  <1>2. Turns(p)
    BY CaseTurns
  <1>3. \A q \in Procs \ {p} : th'[q] = th[q] /\ ip(q)' = ip(q) /\ fdino'[q] = fdino[q]
    BY OthersStay DEF IInv, ip
  <1> DEFINE Sole(q) == /\ \A r \in Procs \ {q} : ip(r)' # ip(q)'
                        /\ \A r \in Procs : fdino'[r] # ip(q)'
                        /\ mem'[ip(q)'].nlink = 0
  <1>4. ASSUME NEW q \in Procs, q # p, th'[q].pc = "free" PROVE Sole(q)
    <2> DEFINE j == ip(q)
    <2>1. th[q].pc = "free" /\ ip(q)' = j
      BY <1>3, <1>4
    <2>2. j \in Inums /\ mem[j] = disk[j] /\ disk[j].type # "free"
      BY <2>1, Known DEF Knows, LockedPcs, DonePcs, NoInoPcs
    <2>3. /\ \A r \in Procs \ {q} : ip(r) # j
          /\ \A r \in Procs : fdino[r] # j
          /\ mem[j].nlink = 0
      BY <1>1, <2>1 DEF Freeing
    <2> HIDE DEF j
    <2>4. \A n \in Names : entry[n] # j
      <3>1. ~ (disk[j].nlink >= 1)
        BY <2>2, <2>3
      <3> QED
        BY <1>1, <2>2, <3>1, Links
    <2>5. ip(p) # j
      BY <1>4, <2>3
    <2>6. ip(p)' # j /\ fdino'[p] # j /\ mem'[j] = mem[j]
      BY <1>2, <2>2, <2>3, <2>4, <2>5 DEF Turns
    <2>7. \A r \in Procs \ {q} : ip(r)' # j
      BY <1>3, <2>3, <2>6
    <2>8. \A r \in Procs : fdino'[r] # j
      BY <1>3, <2>3, <2>6
    <2> QED
      BY <2>1, <2>3, <2>6, <2>7, <2>8
  <1>5. ASSUME th'[p].pc = "free" PROVE Sole(p)
    <2> DEFINE j == ip(p)
    <2>1. LastPut(p)
      BY <1>5, FreeTurn
    <2>2. /\ th[p].pc = "iput" /\ ip(p)' = j /\ UNCHANGED <<mem, fdino>>
          /\ ref[j] = 1 /\ mem[j].nlink = 0
      BY <2>1 DEF LastPut, LastRef, Goes, ip
    <2>3. j \in Inums /\ p \in Holders(j)
      BY <2>2, Known DEF Knows, NoInoPcs
    <2>4. ~ (ref[j] >= 2)
      BY <2>2
    <2>5. \A r \in Procs : fdino[r] # j
      BY <1>1, <2>3, <2>4, Pointers
    <2>6. ASSUME NEW r \in Procs \ {p}, ip(r) = j PROVE FALSE
      <3>1. CASE th[r].pc = "ialloc"
        <4>1. th[p].pc \in DonePcs
          BY <1>1, <2>6, <3>1 DEF NewInodes, NewPcs
        <4> QED
          BY <2>2, <4>1 DEF DonePcs
      <3>2. CASE th[r].pc # "ialloc"
        <4>1. r \in Holders(j)
          BY <2>6, <3>2 DEF Holders
        <4> QED
          BY <1>1, <2>3, <2>4, <4>1, Pointers
      <3> QED
        BY <3>1, <3>2
    <2> HIDE DEF j
    <2>7. \A r \in Procs \ {p} : ip(r)' # j
      BY <1>3, <2>6 DEF j
    <2> QED
      BY <2>2, <2>5, <2>7
  <1> QED
    BY <1>4, <1>5 DEF Freeing

\* An inode is freed on disk only when nobody can come to it any more.
LEMMA NoUseAfterFreeStep ==
  ASSUME IInv, NEW p \in Procs, Case(p), Moved(p)
  PROVE  NoUseAfterFree'
  <1>1. /\ Freeing /\ NoUseAfterFree /\ Counts /\ panic = "no"
        /\ \A n \in Names : entry'[n] \in Inums \cup {0}
        /\ \A q \in Procs : ip(q)' \in Inums \cup {0} /\ fdino'[q] \in Inums \cup {0}
    <2>1. Types'
      BY TypesStep
    <2> QED
      BY <2>1 DEF IInv, Types, TypeOK, Owners, NoPanic, ip
  <1>2. Turns(p)
    BY CaseTurns
  <1>3. \A q \in Procs \ {p} : th'[q] = th[q] /\ ip(q)' = ip(q) /\ fdino'[q] = fdino[q]
    BY OthersStay DEF IInv, ip
  <1>4. 0 \notin Inums
    BY InumsAboveZero
  <1> DEFINE Unused(j) ==
        /\ \A q \in Procs : ip(q)' = j => th'[q].pc \in DonePcs
        /\ \A q \in Procs : fdino'[q] # j
        /\ \A n \in Names : entry'[n] # j
  <1>5. ASSUME NEW j \in Inums, disk'[j].type = "free", disk[j].type = "free"
        PROVE  Unused(j)
    <2>1. \A q \in Procs : ip(q) = j => th[q].pc \in DonePcs
      BY <1>1, <1>4, <1>5 DEF NoUseAfterFree, DonePcs
    <2>2. (\A q \in Procs : fdino[q] # j) /\ (\A n \in Names : entry[n] # j)
      BY <1>1, <1>4, <1>5 DEF NoUseAfterFree
    <2>3. ip(p)' = j => ip(p) = j
      BY <1>2, <1>5, <2>2 DEF Turns
    <2>4. ip(p)' = j => th'[p].pc \in DonePcs
      BY <1>2, <2>1, <2>3 DEF Turns
    <2>5. fdino'[p] # j
      BY <1>2, <2>1, <2>2 DEF Turns, DonePcs
    <2>6. \A n \in Names : entry'[n] # j
      BY <1>2, <2>1, <2>2 DEF Turns, DonePcs
    <2>7. \A q \in Procs : ip(q)' = j => th'[q].pc \in DonePcs
      BY <1>3, <2>1, <2>4
    <2>8. \A q \in Procs : fdino'[q] # j
      BY <1>3, <2>2, <2>5
    <2> QED
      BY <2>6, <2>7, <2>8
  <1>6. ASSUME Frees(p) PROVE Unused(ip(p))
    <2> DEFINE j == ip(p)
    <2>1. th[p].pc = "free" /\ th'[p].pc = "freed" /\ ip(p)' = j /\ UNCHANGED <<entry, fdino>>
      BY <1>6 DEF Frees, Goes, ip
    <2>2. j \in Inums /\ mem[j] = disk[j]
      BY <2>1, Known DEF Knows, LockedPcs, DonePcs, NoInoPcs
    <2>3. /\ \A r \in Procs \ {p} : ip(r) # j
          /\ \A r \in Procs : fdino[r] # j
          /\ mem[j].nlink = 0
      BY <1>1, <2>1 DEF Freeing
    <2> HIDE DEF j
    <2>4. \A n \in Names : entry[n] # j
      <3>1. ~ (disk[j].nlink >= 1)
        BY <2>2, <2>3
      <3> QED
        BY <1>1, <2>2, <3>1, Links
    <2>5. \A q \in Procs : ip(q)' = j => th'[q].pc \in DonePcs
      BY <1>3, <2>1, <2>3 DEF DonePcs
    <2> QED
      BY <2>1, <2>3, <2>4, <2>5 DEF j
  <1>7. \A j \in Inums : disk'[j].type = "free" => Unused(j)
    BY <1>2, <1>5, <1>6 DEF Turns
  <1>8. /\ \A q \in Procs : ip(q)' # 0 /\ th'[q].pc \notin DonePcs => disk'[ip(q)'].type # "free"
        /\ \A q \in Procs : fdino'[q] # 0 => disk'[fdino'[q]].type # "free"
        /\ \A n \in Names : entry'[n] # 0 => disk'[entry'[n]].type # "free"
    BY <1>1, <1>7
  <1> QED
    BY <1>8 DEF NoUseAfterFree, DonePcs

\* What a step leaves valid, and what it does to the cached copy of an inode.
CacheKept(p, j) ==
    \/ mem'[j] = disk'[j] /\ disk'[j].type # "free"
    \/ ip(p)' = j /\ th'[p].pc = "freed"
    \/ /\ ref[j] > 0 /\ valid[j] /\ mem'[j] = mem[j] /\ disk'[j] = disk[j]
       /\ th[p].pc = "freed" => ip(p) # j
    \/ disk[j].type = "free" /\ valid[j] /\ ref[j] > 0 /\ th[p].pc # "freed"

CacheTurns(p) ==
    /\ \A j \in Inums : valid[j] /\ ref[j] > 0 => valid'[j] \/ (Releases(p) /\ j = ip(p))
    /\ \A j \in Inums : valid'[j] /\ ref'[j] > 0 => CacheKept(p, j)
    /\ th'[p].pc \in LockedPcs =>
          \/ th[p].pc \in LockedPcs /\ ip(p)' = ip(p)
          \/ LastPut(p) /\ ip(p)' = ip(p)
          \/ Locks(p) /\ ip(p)' = ip(p)

\* Every step treats the table entries in that way.
LEMMA CaseCacheTurns ==
  ASSUME IInv, NEW p \in Procs, Case(p)
  PROVE  CacheTurns(p)
  <1> USE DEF NoInoPcs, PutPcs, NewPcs, UnlinkPcs, LinkPcs, LockedPcs, DonePcs
  <1>1. /\ disk \in [Inums -> Dinode] /\ mem \in [Inums -> Dinode]
        /\ ref \in [Inums -> Nat] /\ valid \in [Inums -> BOOLEAN]
    BY DEF IInv, Types, TypeOK
  <1>2. th[p].pc \notin NoInoPcs => Knows(p)
    BY Known
  <1>3. CASE \E l \in Pcs : Local(p, l)
    BY <1>1, <1>3 DEF Local, Goes, CacheTurns, CacheKept, ip, table
  <1>4. ASSUME NEW l \in Pcs, Drops(p, l) PROVE CacheTurns(p)
    <2>1. \A j \in Inums : ref'[j] > 0 => ref[j] > 0
      <3>1. \A k \in Nat : k - 1 > 0 => k > 0
        OBVIOUS
      <3> QED
        BY <1>1, <1>4, <3>1 DEF Drops
    <2>2. /\ th[p].pc # "freed" /\ th'[p].pc \notin LockedPcs
          /\ UNCHANGED <<disk, valid, mem>>
      BY <1>4 DEF Drops, Goes, Afters
    <2> QED
      BY <2>1, <2>2 DEF CacheTurns, CacheKept
  <1>5. CASE Unlocks(p) \/ LastPut(p)
    BY <1>1, <1>5 DEF Unlocks, LastPut, Goes, CacheTurns, CacheKept, ip
  <1>6. CASE Frees(p)
    <2>1. \A j \in Inums : j # ip(p) => mem'[j] = mem[j] /\ disk'[j] = disk[j]
      BY <1>1, <1>6 DEF Frees
    <2>2. th[p].pc = "free" /\ th'[p].pc = "freed" /\ ip(p)' = ip(p) /\ UNCHANGED <<ref, valid>>
      BY <1>6 DEF Frees, Goes, ip
    <2> QED
      BY <2>1, <2>2 DEF CacheTurns, CacheKept
  <1>7. CASE Releases(p)
    <2>1. \A j \in Inums : (j # ip(p) => valid'[j] = valid[j]) /\ (j = ip(p) => ~valid'[j])
      BY <1>1, <1>7 DEF Releases
    <2>2. th'[p].pc = "iput end" /\ ip(p)' = ip(p) /\ UNCHANGED <<ref, mem, disk>>
      BY <1>7 DEF Releases, Goes, ip
    <2> QED
      BY <1>7, <2>1, <2>2 DEF CacheTurns, CacheKept
  <1>8. CASE Locks(p)
    <2>1. \A j \in Inums : j # ip(p) => mem'[j] = mem[j] /\ valid'[j] = valid[j]
      BY <1>1, <1>8 DEF Locks, ilock
    <2>2. /\ th[p].pc \notin NoInoPcs \cup DonePcs /\ ip(p)' = ip(p) /\ UNCHANGED <<ref, disk>>
      BY <1>8 DEF Locks, Goes, ip
    <2>3. ip(p) \in Inums /\ disk[ip(p)].type # "free"
      BY <1>2, <2>2 DEF Knows
    <2>4. valid'[ip(p)] /\ mem'[ip(p)] = IF valid[ip(p)] THEN mem[ip(p)] ELSE disk[ip(p)]
      BY <1>1, <1>8, <2>3 DEF Locks, ilock
    <2> QED
      BY <1>8, <2>1, <2>2, <2>3, <2>4 DEF CacheTurns, CacheKept
  <1>9. CASE Opens(p) \/ Closes(p)
    BY <1>1, <1>9 DEF Opens, Closes, Goes, CacheTurns, CacheKept, ip, table
  <1>10. ASSUME NEW i \in Inums, iget(i), UNCHANGED <<disk, mem>>,
                th[p].pc # "freed", th'[p].pc \notin LockedPcs
         PROVE  CacheTurns(p)
    <2>1. \A j \in Inums : valid'[j] <=> IF j = i THEN ref[j] > 0 /\ valid[j] ELSE valid[j]
      BY <1>1, <1>10 DEF iget
    <2>2. \A j \in Inums : j # i => ref'[j] = ref[j]
      BY <1>1, <1>10 DEF iget
    <2> QED
      BY <1>10, <2>1, <2>2 DEF CacheTurns, CacheKept
  <1>11. ASSUME NEW n \in Names, NEW i \in Inums, NEW l \in Pcs, Finds(p, n, i, l)
         PROVE  CacheTurns(p)
    <2>1. th'[p].pc \notin LockedPcs /\ th[p].pc # "freed" /\ iget(i) /\ UNCHANGED <<disk, mem>>
      BY <1>11 DEF Finds, Goes
    <2> QED
      BY <1>10, <2>1
  <1>12. CASE GetsNew(p)
    <2>1. /\ th'[p].pc \notin LockedPcs /\ th[p].pc = "ialloc" /\ iget(ip(p))
          /\ UNCHANGED <<disk, mem>>
      BY <1>12 DEF GetsNew, Goes
    <2>2. ip(p) \in Inums
      BY <1>2, <2>1 DEF Knows
    <2> QED
      BY <1>10, <2>1, <2>2
  <1>13. ASSUME NEW i \in Inums, NEW ty \in {"T_FILE", "T_SYMLINK"}, Marks(p, i, ty)
         PROVE  CacheTurns(p)
    <2>1. \A j \in Inums : j # i => disk'[j] = disk[j]
      BY <1>1, <1>13 DEF Marks
    <2>2. /\ th[p].pc = "create" /\ th'[p].pc = "ialloc" /\ disk[i].type = "free"
          /\ UNCHANGED <<mem, ref, valid>>
      BY <1>13 DEF Marks, Goes, table
    <2> QED
      BY <2>1, <2>2 DEF CacheTurns, CacheKept
  <1>14. CASE Clears(p) \/ LeavesDir(p)
    BY <1>14 DEF Clears, LeavesDir, Goes, CacheTurns, CacheKept, ip, table
  <1>15. ASSUME NEW l \in Pcs, NEW n \in Int, Relinks(p, l, n) PROVE CacheTurns(p)
    <2>1. \A j \in Inums : j # ip(p) => mem'[j] = mem[j] /\ disk'[j] = disk[j]
      BY <1>1, <1>15 DEF Relinks, SetNlink
    <2>2. th[p].pc \in LockedPcs \ DonePcs /\ ip(p)' = ip(p) /\ UNCHANGED <<ref, valid>>
      BY <1>15 DEF Relinks, Goes, ip
    <2>3. ip(p) \in Inums /\ mem[ip(p)] = disk[ip(p)] /\ disk[ip(p)].type # "free"
      BY <1>2, <2>2 DEF Knows
    <2>4. disk'[ip(p)].type # "free" /\ mem'[ip(p)] = disk'[ip(p)]
      BY <1>1, <1>15, <2>3 DEF Relinks, SetNlink, Dinode
    <2> QED
      BY <2>1, <2>2, <2>4 DEF CacheTurns, CacheKept
  <1>16. CASE \E n \in Names, l \in Pcs : Enters(p, n, l)
    BY <1>16 DEF Enters, Goes, CacheTurns, CacheKept, ip, table
  <1> QED
    BY <1>3, <1>4, <1>5, <1>6, <1>7, <1>8, <1>9, <1>11, <1>12, <1>13, <1>14, <1>15, <1>16 DEF Case

\* A valid entry in use is what is on disk, or is being released.
LEMMA CachedStep ==
  ASSUME IInv, NEW p \in Procs, Case(p), Moved(p)
  PROVE  Cached'
  <1> USE DEF NoInoPcs, PutPcs, NewPcs, UnlinkPcs, LinkPcs, LockedPcs, DonePcs
  <1>1. /\ disk \in [Inums -> Dinode] /\ mem \in [Inums -> Dinode]
        /\ ref \in [Inums -> Nat] /\ valid \in [Inums -> BOOLEAN] /\ ref' \in [Inums -> Nat]
        /\ Cached /\ Freeing /\ NoUseAfterFree /\ InodeLocks
    <2>1. Types'
      BY TypesStep
    <2> QED
      BY <2>1 DEF IInv, Types, TypeOK, Owners
  <1>2. Turns(p)
    BY CaseTurns
  <1>3. \A q \in Procs \ {p} : th'[q] = th[q] /\ ip(q)' = ip(q)
    BY OthersStay DEF IInv, ip
  <1>4. ASSUME NEW j \in Inums, disk'[j].type = "free" PROVE disk'[j].nlink = 0
    <2>1. CASE Frees(p) /\ j = ip(p)
      <3>1. mem[j].nlink = 0
        BY <1>1, <2>1 DEF Freeing, Frees
      <3>2. disk'[j] = [mem[j] EXCEPT !.type = "free"]
        BY <1>1, <2>1 DEF Frees
      <3> QED
        BY <1>1, <3>1, <3>2 DEF Dinode
    <2>2. CASE ~(Frees(p) /\ j = ip(p))
      <3>1. disk[j].type = "free" /\ disk[j].nlink = 0
        BY <1>1, <1>2, <1>4, <2>2 DEF Turns, Cached
      <3>2. ip(p) = j => th[p].pc \notin LockedPcs \ DonePcs
        BY <3>1, Known DEF Knows
      <3>3. disk'[j] = disk[j]
        BY <1>2, <1>4, <3>2 DEF Turns
      <3> QED
        BY <3>1, <3>3
    <2> QED
      BY <2>1, <2>2
  <1>5. CacheTurns(p)
    BY CaseCacheTurns
  <1>6. \A q \in Procs : th[q].pc \in LockedPcs =>
           ip(q) \in Inums /\ valid[ip(q)] /\ ref[ip(q)] > 0 /\ ilk[ip(q)] = q
    <2>1. SUFFICES ASSUME NEW q \in Procs, th[q].pc \in LockedPcs
                   PROVE  ip(q) \in Inums /\ valid[ip(q)] /\ ref[ip(q)] > 0 /\ ilk[ip(q)] = q
      OBVIOUS
    <2>2. Knows(q)
      BY <2>1, Known
    <2>3. ip(q) \in Inums /\ valid[ip(q)] /\ ref[ip(q)] >= 1 /\ ilk[ip(q)] = q
      BY <2>1, <2>2 DEF Knows
    <2>4. \A k \in Nat : k >= 1 => k > 0
      OBVIOUS
    <2> QED
      BY <1>1, <2>3, <2>4
  <1>7. ASSUME NEW q \in Procs, th'[q].pc \in LockedPcs PROVE valid'[ip(q)']
    <2>1. CASE q # p
      <3>1. th[q].pc \in LockedPcs /\ ip(q)' = ip(q)
        BY <1>3, <1>7, <2>1
      <3>2. ~ (Releases(p) /\ ip(q) = ip(p))
        BY <1>6, <2>1, <3>1 DEF Releases
      <3> QED
        BY <1>5, <1>6, <3>1, <3>2 DEF CacheTurns
    <2>2. CASE q = p
      <3>1. CASE th[p].pc \in LockedPcs /\ ip(p)' = ip(p)
        <4>1. ~ Releases(p)
          BY <1>7, <2>2 DEF Releases, Goes
        <4> QED
          BY <1>5, <1>6, <2>2, <3>1, <4>1 DEF CacheTurns
      <3>2. CASE LastPut(p) /\ ip(p)' = ip(p)
        BY <2>2, <3>2 DEF LastPut, LastRef
      <3>3. CASE Locks(p) /\ ip(p)' = ip(p)
        <4>1. ip(p) \in Inums
          BY <3>3, Known DEF Locks, Knows
        <4> QED
          BY <1>1, <2>2, <3>3, <4>1 DEF Locks, ilock
      <3> QED
        BY <1>5, <1>7, <2>2, <3>1, <3>2, <3>3 DEF CacheTurns
    <2> QED
      BY <2>1, <2>2
  <1>8. ASSUME NEW j \in Inums, ref'[j] > 0, valid'[j]
        PROVE  \/ mem'[j] = disk'[j] /\ disk'[j].type # "free"
               \/ \E q \in Procs : ip(q)' = j /\ th'[q].pc = "freed"
    <2>1. CacheKept(p, j)
      BY <1>5, <1>8 DEF CacheTurns
    <2>2. \A q \in Procs \ {p} : ip(q) = j /\ th[q].pc = "freed"
                                => ip(q)' = j /\ th'[q].pc = "freed"
      BY <1>3
    <2>3. ref[j] > 0 /\ valid[j] =>
             \/ mem[j] = disk[j] /\ disk[j].type # "free"
             \/ \E q \in Procs : ip(q) = j /\ th[q].pc = "freed"
      BY <1>1 DEF Cached
    <2> QED
      BY <2>1, <2>2, <2>3 DEF CacheKept
  <1> QED
    BY <1>4, <1>7, <1>8 DEF Cached

\* A pointer to the entry comes, goes, or passes between the system call and its
\* open file.
Holding(p, i) == ip(p) = i /\ th[p].pc # "ialloc"

RefTurn(p, i) ==
    LET moved == Holding(p, i)' <=> ~Holding(p, i)
        file  == fdino'[p] = i <=> fdino[p] = i
    IN \/ ref'[i] = ref[i] /\ ~moved /\ file
       \/ ref'[i] = ref[i] - 1 /\ moved /\ Holding(p, i) /\ file
       \/ ref'[i] = ref[i] + 1 /\ moved /\ ~Holding(p, i) /\ file
       \/ ref'[i] = ref[i] /\ moved /\ Holding(p, i) /\ fdino[p] # i /\ fdino'[p] = i
       \/ ref'[i] = ref[i] /\ moved /\ ~Holding(p, i) /\ fdino[p] = i /\ fdino'[p] # i

\* Every step changes ip->ref with the pointers.
LEMMA CaseRefTurn ==
  ASSUME IInv, NEW p \in Procs, Case(p), NEW i \in Inums
  PROVE  RefTurn(p, i)
  <1> USE DEF NoInoPcs, PutPcs, NewPcs, UnlinkPcs, LinkPcs, LockedPcs, DonePcs
  <1>1. ref \in [Inums -> Nat] /\ fdino \in [Procs -> Inums \cup {0}] /\ 0 \notin Inums
    BY InumsAboveZero DEF IInv, Types, TypeOK
  <1>2. th[p].pc \notin NoInoPcs <=> ip(p) # 0
    BY DEF IInv, Places, Place
  <1>3. th[p].pc \in NoInoPcs => ~Holding(p, i)
    BY <1>1, <1>2 DEF Holding
  <1>4. ASSUME UNCHANGED <<ref, fdino>>, ip(p)' = ip(p), th[p].pc # "ialloc", th'[p].pc # "ialloc"
        PROVE  RefTurn(p, i)
    BY <1>4 DEF RefTurn, Holding
  <1>5. ASSUME NEW l \in Pcs, Local(p, l) PROVE RefTurn(p, i)
    <2>1. /\ UNCHANGED <<ref, fdino>> /\ ip(p)' = ip(p)
          /\ th[p].pc # "ialloc" /\ th'[p].pc # "ialloc"
      BY <1>5 DEF Local, Goes, HoldsDir, ip, table
    <2> QED
      BY <1>4, <2>1
  <1>6. ASSUME NEW l \in Pcs, Drops(p, l) PROVE RefTurn(p, i)
    <2>1. /\ ip(p)' = 0 /\ th[p].pc # "ialloc" /\ UNCHANGED fdino
          /\ ref' = [ref EXCEPT ![ip(p)] = @ - 1]
      BY <1>6 DEF Drops, Goes, ip
    <2>2. CASE ip(p) = i
      BY <1>1, <2>1, <2>2 DEF RefTurn, Holding
    <2>3. CASE ip(p) # i
      BY <1>1, <2>1, <2>3 DEF RefTurn, Holding
    <2> QED
      BY <2>2, <2>3
  <1>7. CASE Unlocks(p) \/ LastPut(p) \/ Frees(p) \/ Releases(p)
    <2>1. /\ UNCHANGED <<ref, fdino>> /\ ip(p)' = ip(p)
          /\ th[p].pc # "ialloc" /\ th'[p].pc # "ialloc"
      BY <1>7 DEF Unlocks, LastPut, Frees, Releases, Goes, ip
    <2> QED
      BY <1>4, <2>1
  <1>8. CASE Locks(p)
    <2>1. /\ UNCHANGED <<ref, fdino>> /\ ip(p)' = ip(p)
          /\ th[p].pc # "ialloc" /\ th'[p].pc # "ialloc"
      BY <1>8 DEF Locks, NextLocked, Goes, ip
    <2> QED
      BY <1>4, <2>1
  <1>9. CASE Opens(p)
    <2>1. /\ th[p].pc = "locked" /\ fdino[p] = 0 /\ ip(p)' = 0 /\ fdino'[p] = ip(p) /\ ref' = ref
      BY <1>1, <1>9 DEF Opens, Goes, ip
    <2> QED
      BY <1>1, <2>1 DEF RefTurn, Holding
  <1>10. CASE Closes(p)
    <2>1. /\ th[p].pc = "idle" /\ ip(p)' = fdino[p] /\ fdino'[p] = 0 /\ ref' = ref
          /\ th'[p].pc = "iput"
      BY <1>1, <1>10 DEF Closes, Goes, ip, table
    <2> QED
      BY <1>1, <1>3, <2>1 DEF RefTurn, Holding
  <1>11. ASSUME NEW j \in Inums, iget(j), ip(p)' = j, th'[p].pc # "ialloc",
                th[p].pc \in NoInoPcs \cup {"ialloc"}, UNCHANGED fdino
         PROVE  RefTurn(p, i)
    <2>1. ref'[i] = IF i = j THEN ref[i] + 1 ELSE ref[i]
      BY <1>1, <1>11 DEF iget
    <2>2. ~Holding(p, i)
      BY <1>3, <1>11 DEF Holding
    <2> QED
      BY <1>11, <2>1, <2>2 DEF RefTurn, Holding
  <1>12. ASSUME NEW n \in Names, NEW j \in Inums, NEW l \in Pcs, Finds(p, n, j, l)
         PROVE  RefTurn(p, i)
    <2>1. /\ iget(j) /\ ip(p)' = j /\ th'[p].pc # "ialloc" /\ th[p].pc \in NoInoPcs
          /\ UNCHANGED fdino
      BY <1>12 DEF Finds, Goes, ip
    <2> QED
      BY <1>11, <2>1
  <1>13. CASE GetsNew(p)
    <2>1. /\ iget(ip(p)) /\ ip(p)' = ip(p) /\ th'[p].pc # "ialloc" /\ th[p].pc = "ialloc"
          /\ UNCHANGED fdino
      BY <1>13 DEF GetsNew, Goes, ip
    <2>2. ip(p) \in Inums
      BY <2>1, Known DEF Knows
    <2> QED
      BY <1>11, <2>1, <2>2
  <1>14. ASSUME NEW j \in Inums, NEW ty \in {"T_FILE", "T_SYMLINK"}, Marks(p, j, ty)
         PROVE  RefTurn(p, i)
    <2>1. th[p].pc = "create" /\ th'[p].pc = "ialloc" /\ UNCHANGED <<ref, fdino>>
      BY <1>14 DEF Marks, Goes, table
    <2> QED
      BY <1>3, <2>1 DEF RefTurn, Holding
  <1>15. CASE Clears(p) \/ LeavesDir(p)
    <2>1. UNCHANGED <<ref, fdino>> /\ ip(p)' = ip(p) /\ th[p].pc # "ialloc" /\ th'[p].pc # "ialloc"
      BY <1>2, <1>15 DEF Clears, LeavesDir, Goes, ip, table
    <2> QED
      BY <1>4, <2>1
  <1>16. ASSUME NEW l \in Pcs, NEW n \in Int, Relinks(p, l, n) PROVE RefTurn(p, i)
    <2>1. UNCHANGED <<ref, fdino>> /\ ip(p)' = ip(p) /\ th[p].pc # "ialloc" /\ th'[p].pc # "ialloc"
      BY <1>16 DEF Relinks, Goes, ip
    <2> QED
      BY <1>4, <2>1
  <1>17. ASSUME NEW n \in Names, NEW l \in Pcs, Enters(p, n, l) PROVE RefTurn(p, i)
    <2>1. UNCHANGED <<ref, fdino>> /\ ip(p)' = ip(p) /\ th[p].pc # "ialloc" /\ th'[p].pc # "ialloc"
      BY <1>17 DEF Enters, Goes, ip, table
    <2> QED
      BY <1>4, <2>1
  <1> QED
    BY <1>5, <1>6, <1>7, <1>8, <1>9, <1>10, <1>12, <1>13, <1>14, <1>15, <1>16, <1>17 DEF Case

\* ip->ref counts the pointers.
LEMMA RefCountsStep ==
  ASSUME IInv, NEW p \in Procs, Case(p), Moved(p)
  PROVE  RefCounts'
  <1>1. SUFFICES ASSUME NEW i \in Inums
                 PROVE  ref'[i] = Cardinality(Holders(i)') + Cardinality(Files(i)')
    BY DEF RefCounts, Holders, Files
  <1>2. \A q \in Procs \ {p} : th'[q] = th[q] /\ fdino'[q] = fdino[q]
    BY OthersStay DEF IInv
  <1> DEFINE h == Cardinality(Holders(i))
             f == Cardinality(Files(i))
             h1 == Cardinality(Holders(i)')
             f1 == Cardinality(Files(i)')
  <1>3. /\ h \in Nat /\ h1 \in Nat
        /\ h1 = h - Bit(p \in Holders(i)) + Bit(p \in Holders(i)')
    <2>1. \A q : q # p => (q \in Holders(i) <=> q \in Holders(i)')
      BY <1>2 DEF Holders, ip
    <2> QED
      BY <2>1, CountsFinite, CountChange
  <1>4. /\ f \in Nat /\ f1 \in Nat
        /\ f1 = f - Bit(p \in Files(i)) + Bit(p \in Files(i)')
    <2>1. \A q : q # p => (q \in Files(i) <=> q \in Files(i)')
      BY <1>2 DEF Files
    <2> QED
      BY <2>1, CountsFinite, CountChange
  <1>5. ref[i] = h + f
    BY CountsMean DEF IInv, NoPanic
  <1>6. /\ p \in Holders(i) <=> Holding(p, i)
        /\ p \in Holders(i)' <=> Holding(p, i)'
        /\ p \in Files(i) <=> fdino[p] = i
        /\ p \in Files(i)' <=> fdino'[p] = i
    BY DEF Holders, Holding, Files
  <1>7. RefTurn(p, i)
    BY CaseRefTurn
  <1> HIDE DEF h, f, h1, f1
  <1>8. ref'[i] = h1 + f1
    BY <1>3, <1>4, <1>5, <1>6, <1>7 DEF RefTurn, Bit
  <1> QED
    BY <1>8 DEF h1, f1

\* A link is counted before its name is written and after it is cleared.
Announced(p, i) == ip(p) = i /\ th[p].pc \in CountedPcs

LinkTurn(p, i) ==
    LET counted == Announced(p, i)
        names   == \A n \in Names : entry'[n] = i <=> entry[n] = i
        Name(n) == \A m \in Names \ {n} : entry'[m] = entry[m]
    IN \/ disk'[i].nlink = disk[i].nlink /\ names /\ (Announced(p, i)' <=> counted)
       \/ disk'[i].nlink = disk[i].nlink + 1 /\ names /\ ~counted /\ Announced(p, i)'
       \/ disk'[i].nlink = disk[i].nlink - 1 /\ names /\ counted /\ ~Announced(p, i)'
       \/ /\ disk'[i].nlink = disk[i].nlink /\ counted /\ ~Announced(p, i)'
          /\ \E n \in Names : Name(n) /\ entry[n] # i /\ entry'[n] = i
       \/ /\ disk'[i].nlink = disk[i].nlink /\ ~counted /\ Announced(p, i)'
          /\ \E n \in Names : Name(n) /\ entry[n] = i /\ entry'[n] # i

\* Every step changes the link count, or the directory, in that order.
LEMMA CaseLinkTurn ==
  ASSUME IInv, NEW p \in Procs, Case(p), NEW i \in Inums
  PROVE  LinkTurn(p, i)
  <1> USE DEF NoInoPcs, PutPcs, NewPcs, UnlinkPcs, LinkPcs, LockedPcs, DonePcs, CountedPcs
  <1>1. /\ entry \in [Names -> Inums \cup {0}] /\ disk \in [Inums -> Dinode]
        /\ mem \in [Inums -> Dinode] /\ 0 \notin Inums
    BY InumsAboveZero DEF IInv, Types, TypeOK
  <1>2. th[p].pc \notin NoInoPcs => Knows(p)
    BY Known
  <1>3. ASSUME UNCHANGED <<entry, disk>>, Announced(p, i)' <=> Announced(p, i) PROVE LinkTurn(p, i)
    BY <1>3 DEF LinkTurn
  <1>4. ASSUME NEW l \in Pcs, Local(p, l) PROVE LinkTurn(p, i)
    <2>1. UNCHANGED <<entry, disk>> /\ (Announced(p, i)' <=> Announced(p, i))
      BY <1>4 DEF Local, Goes, Announced, ip
    <2> QED
      BY <1>3, <2>1
  <1>5. ASSUME NEW l \in Pcs, Drops(p, l) PROVE LinkTurn(p, i)
    <2>1. UNCHANGED <<entry, disk>> /\ (Announced(p, i)' <=> Announced(p, i))
      BY <1>5 DEF Drops, Goes, Announced, ip, Afters
    <2> QED
      BY <1>3, <2>1
  <1>6. CASE Unlocks(p) \/ LastPut(p) \/ Releases(p) \/ Opens(p) \/ Closes(p) \/ GetsNew(p) \/ LeavesDir(p)
    <2>1. UNCHANGED <<entry, disk>> /\ (Announced(p, i)' <=> Announced(p, i))
      BY <1>6 DEF Unlocks, LastPut, Releases, Opens, Closes, GetsNew, LeavesDir, Goes, Announced, ip
    <2> QED
      BY <1>3, <2>1
  <1>7. CASE Locks(p)
    <2>1. UNCHANGED <<entry, disk>> /\ (Announced(p, i)' <=> Announced(p, i))
      BY <1>7 DEF Locks, NextLocked, Goes, Announced, ip
    <2> QED
      BY <1>3, <2>1
  <1>8. ASSUME NEW n \in Names, NEW j \in Inums, NEW l \in Pcs, Finds(p, n, j, l)
        PROVE  LinkTurn(p, i)
    <2>1. UNCHANGED <<entry, disk>> /\ (Announced(p, i)' <=> Announced(p, i))
      BY <1>8 DEF Finds, Goes, Announced, ip
    <2> QED
      BY <1>3, <2>1
  <1>9. CASE Frees(p)
    <2>1. th[p].pc = "free" /\ th'[p].pc = "freed" /\ UNCHANGED entry
      BY <1>9 DEF Frees, Goes
    <2>2. ip(p) \in Inums /\ mem[ip(p)] = disk[ip(p)]
      BY <1>2, <2>1 DEF Knows
    <2>3. disk' = [disk EXCEPT ![ip(p)] = [mem[ip(p)] EXCEPT !.type = "free"]]
      BY <1>1, <1>9, <2>2 DEF Frees
    <2>4. disk'[i].nlink = disk[i].nlink
      BY <1>1, <2>2, <2>3 DEF Dinode
    <2>5. ~Announced(p, i) /\ ~Announced(p, i)'
      BY <2>1 DEF Announced
    <2> QED
      BY <2>1, <2>4, <2>5 DEF LinkTurn
  <1>10. ASSUME NEW j \in Inums, NEW ty \in {"T_FILE", "T_SYMLINK"}, Marks(p, j, ty)
         PROVE  LinkTurn(p, i)
    <2>1. /\ th[p].pc = "create" /\ th'[p].pc = "ialloc" /\ disk[j].type = "free"
          /\ UNCHANGED entry
      BY <1>10 DEF Marks, Goes
    <2>2. disk[j].nlink = 0
      BY <2>1 DEF IInv, Cached
    <2>3. disk'[i].nlink = disk[i].nlink
      BY <1>1, <1>10, <2>2 DEF Marks
    <2>4. ~Announced(p, i) /\ ~Announced(p, i)'
      BY <2>1 DEF Announced
    <2> QED
      BY <2>1, <2>3, <2>4 DEF LinkTurn
  <1>11. ASSUME NEW l \in Pcs, NEW n \in Int, Relinks(p, l, n) PROVE LinkTurn(p, i)
    <2>1. /\ th[p].pc \in LockedPcs \ DonePcs /\ ip(p)' = ip(p) /\ th'[p].pc = l
          /\ UNCHANGED entry
      BY <1>11 DEF Relinks, Goes, ip
    <2>2. ip(p) \in Inums /\ mem[ip(p)] = disk[ip(p)]
      BY <1>2, <2>1 DEF Knows
    <2>3. disk' = [disk EXCEPT ![ip(p)] = [mem[ip(p)] EXCEPT !.nlink = n]]
      BY <1>1, <1>11, <2>2 DEF Relinks, SetNlink
    <2>4. CASE i # ip(p)
      <3>1. disk'[i] = disk[i] /\ ~Announced(p, i) /\ ~Announced(p, i)'
        BY <1>1, <2>1, <2>3, <2>4 DEF Announced
      <3> QED
        BY <2>1, <3>1 DEF LinkTurn
    <2>5. CASE i = ip(p)
      <3>1. disk'[i].nlink = n /\ disk[i].nlink \in Int /\ mem[i].nlink = disk[i].nlink
        BY <1>1, <2>2, <2>3, <2>5 DEF Dinode
      <3>2. \/ n = disk[i].nlink + 1 /\ th[p].pc \notin CountedPcs /\ l \in CountedPcs
            \/ n = disk[i].nlink - 1 /\ th[p].pc \in CountedPcs /\ l \notin CountedPcs
        <4>1. th[p].pc \in NewPcs => disk[i].nlink = IF th[p].pc = "dirlink" THEN 1 ELSE 0
          BY <2>5 DEF IInv, Owners, NewInodes
        <4>2. mem[ip(p)].nlink = disk[i].nlink
          BY <2>5, <3>1
        <4>3. CASE th[p].pc = "create nlink" /\ l = "dirlink" /\ n = 1
          <5>1. disk[i].nlink = 0
            BY <4>1, <4>3
          <5>3. \A k \in Int : k = 0 => k + 1 = 1
            OBVIOUS
          <5>2. n = disk[i].nlink + 1
            BY <3>1, <4>3, <5>1, <5>3, Zenon
          <5> QED
            BY <4>3, <5>2
        <4>4. CASE th[p].pc = "dirlink" /\ l = "iunlock" /\ n = 0
          BY <4>1, <4>4
        <4>5. CASE /\ th[p].pc \in {"unlink nlink", "bad nlink"} /\ l = "iunlock"
                   /\ n = mem[ip(p)].nlink - 1
          BY <4>2, <4>5
        <4>6. CASE th[p].pc = "locked" /\ l = "link" /\ n = mem[ip(p)].nlink + 1
          BY <4>2, <4>6
        <4> QED
          BY <1>11, <4>3, <4>4, <4>5, <4>6 DEF Relinks
      <3> QED
        BY <2>1, <2>5, <3>1, <3>2 DEF LinkTurn, Announced
    <2> QED
      BY <2>4, <2>5
  <1>12. ASSUME NEW n \in Names, NEW l \in Pcs, Enters(p, n, l) PROVE LinkTurn(p, i)
    <2>1. /\ th[p].pc \in CountedPcs /\ th'[p].pc \notin CountedPcs /\ ip(p)' = ip(p)
          /\ UNCHANGED disk /\ entry[n] = 0
      BY <1>12 DEF Enters, Goes, ip
    <2>2. entry'[n] = ip(p) /\ \A m \in Names \ {n} : entry'[m] = entry[m]
      BY <1>1, <1>12 DEF Enters
    <2> QED
      BY <1>1, <2>1, <2>2 DEF LinkTurn, Announced
  <1>13. CASE Clears(p)
    <2>1. /\ th[p].pc = "unlink entry" /\ th'[p].pc = "unlink nlink" /\ ip(p)' = ip(p)
          /\ UNCHANGED disk
      BY <1>13 DEF Clears, Goes, ip
    <2>2. th[p].name \in Names /\ entry[th[p].name] = ip(p)
      BY <2>1 DEF IInv, Places, Place, LookedUp
    <2>3. entry'[th[p].name] = 0 /\ \A m \in Names \ {th[p].name} : entry'[m] = entry[m]
      BY <1>1, <1>13, <2>2 DEF Clears
    <2> QED
      BY <1>1, <2>1, <2>2, <2>3 DEF LinkTurn, Announced
  <1> QED
    BY <1>4, <1>5, <1>6, <1>7, <1>8, <1>9, <1>10, <1>11, <1>12, <1>13 DEF Case

\* The link count on disk is that of names and of names to come or gone.
LEMMA LinkCountsStep ==
  ASSUME IInv, NEW p \in Procs, Case(p), Moved(p)
  PROVE  LinkCounts'
  <1>1. SUFFICES ASSUME NEW i \in Inums
                 PROVE  disk'[i].nlink = Cardinality(NamesOf(i)') + Cardinality(Counted(i)')
    BY DEF LinkCounts, NamesOf, Counted, CountedPcs, LinkPcs
  <1>2. \A q \in Procs \ {p} : th'[q] = th[q]
    BY OthersStay DEF IInv
  <1> DEFINE h == Cardinality(NamesOf(i))
             f == Cardinality(Counted(i))
             h1 == Cardinality(NamesOf(i)')
             f1 == Cardinality(Counted(i)')
  <1>3. /\ f \in Nat /\ f1 \in Nat
        /\ f1 = f - Bit(p \in Counted(i)) + Bit(p \in Counted(i)')
    <2>1. \A q : q # p => (q \in Counted(i) <=> q \in Counted(i)')
      BY <1>2 DEF Counted, ip
    <2> QED
      BY <2>1, CountsFinite, CountChange
  <1>4. /\ p \in Counted(i) <=> Announced(p, i)
        /\ p \in Counted(i)' <=> Announced(p, i)'
    BY DEF Counted, Announced
  <1>5. disk[i].nlink = h + f /\ h \in Nat
    BY CountsMean, CountsFinite DEF IInv, NoPanic
  <1>6. ASSUME \A n \in Names : entry'[n] = i <=> entry[n] = i PROVE h1 = h
    <2>1. NamesOf(i)' = NamesOf(i)
      BY <1>6 DEF NamesOf
    <2> QED
      BY <2>1
  <1>7. ASSUME NEW n \in Names, \A m \in Names \ {n} : entry'[m] = entry[m]
        PROVE  h1 \in Nat /\ h1 = h - Bit(entry[n] = i) + Bit(entry'[n] = i)
    <2>1. \A m : m # n => (m \in NamesOf(i) <=> m \in NamesOf(i)')
      BY <1>7 DEF NamesOf
    <2>2. (n \in NamesOf(i) <=> entry[n] = i) /\ (n \in NamesOf(i)' <=> entry'[n] = i)
      BY DEF NamesOf
    <2>3. h1 \in Nat /\ h1 = h - Bit(n \in NamesOf(i)) + Bit(n \in NamesOf(i)')
      BY <2>1, CountsFinite, CountChange
    <2> QED
      BY <2>2, <2>3 DEF Bit
  <1>8. LinkTurn(p, i)
    BY CaseLinkTurn
  <1> HIDE DEF h, f, h1, f1
  <1>9. disk'[i].nlink = h1 + f1
    BY <1>3, <1>4, <1>5, <1>6, <1>7, <1>8 DEF LinkTurn, Bit
  <1> QED
    BY <1>9 DEF h1, f1

\* The checks of ilock and sys_unlink hold.
LEMMA NoPanicStep ==
  ASSUME IInv, NEW p \in Procs, Case(p), Moved(p)
  PROVE  NoPanic'
  <1>1. panic = "no"
    BY DEF IInv, NoPanic
  <1>2. CASE Locks(p)
    <2>1. /\ th[p].pc \notin NoInoPcs \cup DonePcs \cup {"ialloc"} /\ ilock(p, ip(p))
      BY <1>2 DEF Locks, NoInoPcs, DonePcs
    <2>2. ip(p) \in Inums /\ ref[ip(p)] >= 1 /\ disk[ip(p)].type # "free"
      BY <2>1, Known DEF Knows
    <2>3. ~ (ref[ip(p)] < 1)
      <3>1. ref[ip(p)] \in Nat
        BY <2>2 DEF IInv, Types, TypeOK
      <3> QED
        BY <2>2, <3>1
    <2> QED
      BY <1>1, <2>1, <2>2, <2>3 DEF NoPanic, ilock
  <1>3. CASE Clears(p)
    <2>1. th[p].pc = "unlink entry"
      BY <1>3 DEF Clears
    <2>2. ip(p) \in Inums /\ mem[ip(p)] = disk[ip(p)]
      BY <2>1, Known DEF Knows, LockedPcs, DonePcs, NoInoPcs
    <2>3. th[p].name \in Names /\ entry[th[p].name] = ip(p)
      BY <2>1 DEF IInv, Places, Place, LookedUp, UnlinkPcs
    <2>4. disk[ip(p)].nlink >= 1
      BY <1>1, <2>2, <2>3, Links DEF IInv
    <2>5. disk[ip(p)].nlink \in Int
      BY <2>2 DEF IInv, Types, TypeOK, Dinode
    <2>6. ~ (mem[ip(p)].nlink < 1)
      BY <2>2, <2>4, <2>5
    <2> QED
      BY <1>1, <1>3, <2>6 DEF Clears, NoPanic
  <1>4. CASE panic' = panic
    BY <1>1, <1>4 DEF NoPanic
  <1>5. panic' = panic \/ Locks(p) \/ Clears(p)
    BY DEF Case, Local, Drops, Unlocks, LastPut, Frees, Releases, Opens, Closes, Finds,
           Marks, GetsNew, LeavesDir, Relinks, Enters
  <1> QED
    BY <1>2, <1>3, <1>4, <1>5

-----------------------------------------------------------------------------
(* The theorems.                                                           *)

\* With empty directory, table and disk, everything holds.
LEMMA InitIInv == Init => IInv
  <1>1. SUFFICES ASSUME Init PROVE IInv
    OBVIOUS
  <1> USE <1>1
  <1>2. \A p \in Procs : th[p] = Idle /\ fdino[p] = 0
    BY DEF Init
  <1>3. \A p \in Procs : /\ th[p].pc = "idle" /\ ip(p) = 0 /\ op(p) = "none"
                         /\ th[p].after = "idle" /\ th[p].retry = 0
    BY <1>2, IdleThread DEF ip, op
  <1>4. \A i \in Inums : disk[i] = Free /\ mem[i] = Free /\ ref[i] = 0 /\ ~valid[i] /\ ilk[i] = None
    BY DEF Init
  <1>5. Free \in Dinode /\ Free.nlink = 0
    BY DEF Free, Dinode
  <1>6. 0 \notin Inums /\ None \notin Procs
    BY InumsAboveZero, InodesAssumption
  <1>7. Types
    <2>1. th \in [Procs -> Thread]
      BY IdleThread DEF Init
    <2>2. TypeOK
      BY <1>5, <2>1 DEF Init, TypeOK, Thread
    <2> QED
      BY <2>1, <2>2 DEF Types
  <1>8. Places
    BY <1>3 DEF Places, Place, NoInoPcs, PutPcs, NewPcs, UnlinkPcs, LinkPcs
  <1>9. InodeLocks /\ DirLock /\ LookedUp
    <2>1. \A p \in Procs : ~HoldsDir(p)
      BY <1>3 DEF HoldsDir, NewPcs, UnlinkPcs, PutPcs
    <2> QED
      BY <1>3, <1>4, <1>6, <2>1
         DEF InodeLocks, DirLock, LookedUp, LockedPcs, NewPcs, UnlinkPcs, Init
  <1>10. Owners
    BY <1>2, <1>3 DEF Owners, NewInodes, Freeing, NoUseAfterFree, NewPcs, Init
  <1>11. Cached
    BY <1>3, <1>4, <1>5 DEF Cached, LockedPcs
  <1>12. Counts
    <2>1. ASSUME NEW i \in Inums
          PROVE  /\ {p \in Procs : ip(p) = i /\ th[p].pc # "ialloc"} = {}
                 /\ {p \in Procs : fdino[p] = i} = {}
                 /\ {n \in Names : entry[n] = i} = {}
                 /\ {p \in Procs : ip(p) = i /\
                      th[p].pc \in {"dirlink", "unlink nlink", "link", "bad", "bad nlink"}} = {}
      BY <1>2, <1>3, <1>6 DEF Init
    <2>2. Cardinality({}) = 0
      BY FS_EmptySet
    <2>5. 0 = 0 + 0
      OBVIOUS
    <2>3. RefCounts
      <3>1. ASSUME NEW i \in Inums
            PROVE  ref[i] = Cardinality({p \in Procs : ip(p) = i /\ th[p].pc # "ialloc"})
                            + Cardinality({p \in Procs : fdino[p] = i})
        BY <1>4, <2>1, <2>2, <2>5, Zenon
      <3> QED
        BY <3>1 DEF RefCounts
    <2>4. LinkCounts
      <3>1. ASSUME NEW i \in Inums
            PROVE  disk[i].nlink =
                     Cardinality({n \in Names : entry[n] = i})
                     + Cardinality({p \in Procs : ip(p) = i /\
                         th[p].pc \in {"dirlink", "unlink nlink", "link", "bad", "bad nlink"}})
        BY <1>4, <1>5, <2>1, <2>2, <2>5, Zenon
      <3> QED
        BY <3>1 DEF LinkCounts
    <2> QED
      BY <2>3, <2>4 DEF Counts
  <1>13. NoPanic
    BY DEF Init, NoPanic
  <1> QED
    BY <1>7, <1>8, <1>9, <1>10, <1>11, <1>12, <1>13 DEF IInv

\* Every step of every system call keeps the invariant.
LEMMA NextIInv == IInv /\ [Next]_vars => IInv'
  <1>1. SUFFICES ASSUME IInv, [Next]_vars PROVE IInv'
    OBVIOUS
  <1>2. ASSUME NEW p \in Procs, Case(p), Moved(p) PROVE IInv'
    <2>1. Types' /\ Places' /\ InodeLocks' /\ DirLock' /\ LookedUp'
      BY <1>1, <1>2, TypesStep, PlacesStep, InodeLocksStep, DirLockStep, LookedUpStep
    <2>2. Owners'
      BY <1>1, <1>2, NewInodesStep, FreeingStep, NoUseAfterFreeStep DEF Owners
    <2>3. Cached' /\ Counts' /\ NoPanic'
      BY <1>1, <1>2, CachedStep, RefCountsStep, LinkCountsStep, NoPanicStep DEF Counts
    <2> QED
      BY <2>1, <2>2, <2>3 DEF IInv
  <1>3. CASE UNCHANGED vars
    <2>1. /\ UNCHANGED <<entry, dlock, disk, target, ref, valid, mem, ilk, fdino, th, panic>>
          /\ IInv
      BY <1>1, <1>3 DEF vars, table
    <2>2. Types' /\ Places' /\ LookedUp' /\ NoPanic'
      BY <2>1 DEF IInv, Types, TypeOK, Places, Place, LookedUp, NoPanic, ip, op
    <2>3. InodeLocks' /\ DirLock'
      BY <2>1 DEF IInv, InodeLocks, DirLock, HoldsDir, ip
    <2>4. Owners'
      BY <2>1 DEF IInv, Owners, NewInodes, Freeing, NoUseAfterFree, ip
    <2>5. Cached'
      BY <2>1 DEF IInv, Cached, ip
    <2>6. Counts'
      BY <2>1 DEF IInv, Counts, RefCounts, LinkCounts, ip
    <2> QED
      BY <2>2, <2>3, <2>4, <2>5, <2>6 DEF IInv
  <1> QED
    BY <1>1, <1>2, <1>3, NextCases DEF IInv

\* The inductive invariant of the inode table and its system calls.
THEOREM Invariant == Spec => []IInv
  BY InitIInv, NextIInv, PTL DEF Spec

\* The variables have their types: no count of references goes below 0, and open
\* does not follow more links than it may.
THEOREM TypeCorrect == Spec => []TypeOK
  <1>1. IInv => TypeOK
    BY DEF IInv, Types
  <1> QED
    BY <1>1, Invariant, PTL

\* ip->ref is the number of pointers to the entry that iget has given out and
\* iput has not taken back.
THEOREM RefCountsCorrect == Spec => []RefCounts
  <1>1. IInv => RefCounts
    BY DEF IInv, Counts
  <1> QED
    BY <1>1, Invariant, PTL

\* The link count on disk agrees with the directory, up to the system calls that
\* are between the two.
THEOREM LinkCountsCorrect == Spec => []LinkCounts
  <1>1. IInv => LinkCounts
    BY DEF IInv, Counts
  <1> QED
    BY <1>1, Invariant, PTL

\* iput frees no inode that a name, a file or a system call still leads to.
THEOREM NoUseAfterFreeCorrect == Spec => []NoUseAfterFree
  <1>1. IInv => NoUseAfterFree
    BY DEF IInv, Owners
  <1> QED
    BY <1>1, Invariant, PTL

\* What ilock finds in a valid entry is what is on disk.
THEOREM CacheCorrect == Spec => []CacheCoherent
  <1>1. ASSUME IInv PROVE CacheCoherent
    <2>1. SUFFICES ASSUME NEW i \in Inums, ref[i] > 0, valid[i], ilk[i] = None
                   PROVE  mem[i] = disk[i]
      BY DEF CacheCoherent
    <2>2. ASSUME NEW p \in Procs, ip(p) = i, th[p].pc = "freed" PROVE FALSE
      <3>1. ilk[i] = p
        BY <1>1, <2>2 DEF IInv, InodeLocks, LockedPcs
      <3> QED
        BY <2>1, <3>1, InodesAssumption
    <2> QED
      BY <1>1, <2>1, <2>2 DEF IInv, Cached
  <1> QED
    BY <1>1, Invariant, PTL

\* fs.c, iput: "ip->ref == 1 means no other process can have ip locked, so this
\* acquiresleep() won't block (or deadlock)."
THEOREM IputCorrect == Spec => []IputDoesNotBlock
  <1>1. ASSUME IInv PROVE IputDoesNotBlock
    <2>1. SUFFICES ASSUME NEW p \in Procs, At(p, "iput"), LastRef(ip(p)), ilk[ip(p)] # None
                   PROVE  FALSE
      BY DEF IputDoesNotBlock
    <2>2. ip(p) \in Inums /\ p \in Holders(ip(p))
      BY <1>1, <2>1, Known DEF Knows, NoInoPcs, At
    <2> DEFINE i == ip(p)
               q == ilk[i]
    <2>3. q \in Procs
      BY <1>1, <2>1, <2>2 DEF IInv, Types, TypeOK
    <2>4. ip(q) = i /\ th[q].pc \in LockedPcs
      BY <1>1, <2>1, <2>2 DEF IInv, InodeLocks
    <2>5. q # p /\ q \in Holders(i)
      BY <2>1, <2>3, <2>4 DEF At, LockedPcs, Holders
    <2> HIDE DEF i, q
    <2>6. ref[i] >= 2 /\ ref[i] = 1
      BY <1>1, <2>1, <2>2, <2>5, Pointers DEF IInv, NoPanic, LastRef, i
    <2> QED
      BY <2>6
  <1> QED
    BY <1>1, Invariant, PTL

\* The panics of ilock ("ilock", "ilock: no type") and of sys_unlink ("unlink:
\* nlink < 1") are never reached.
THEOREM NoPanicCorrect == Spec => [](panic = "no")
  <1>1. IInv => panic = "no"
    BY DEF IInv, NoPanic
  <1> QED
    BY <1>1, Invariant, PTL
=============================================================================
