------------------------------- MODULE Inodes -------------------------------
(***************************************************************************)
(* Inodes and names in HW4/source: the inode table (iget, ilock, iunlock,  *)
(* iput, ialloc and iupdate of fs.c) under the system calls of sysfile.c   *)
(* that use it: open, with O_CREATE, O_NOFOLLOW and symbolic links, close, *)
(* link, unlink and symlink.                                               *)
(*                                                                         *)
(* There is one directory, the root, of files and symbolic links; its      *)
(* lock is dlock, and it is never freed.  A table entry stands             *)
(* for one inode number, so the table is never full.  A process has at     *)
(* most one open file.  A step lies between two operations on a sleep-lock *)
(* or on itable.lock.  The contents of files and the log are left to       *)
(* BlockMap.                                                               *)
(***************************************************************************)
EXTENDS Integers, FiniteSets, FiniteSetsExt

CONSTANTS Procs, None,
          Names, NoName,   \* NoName is in no directory
          namelen,         \* the length of each name
          NINODES,
          MAXLINKS,        \* symbolic links that open follows (10 in the code)
          Calls            \* the system calls that processes make

ASSUME InodesAssumption ==
    /\ None \notin Procs /\ NoName \notin Names
    /\ IsFiniteSet(Procs) /\ IsFiniteSet(Names)
    /\ namelen \in [Names -> Nat \ {0}]
    /\ NINODES \in Nat /\ MAXLINKS \in Nat \ {0}
    /\ Calls \subseteq {"open", "O_NOFOLLOW", "O_CREATE", "close", "symlink",
                         "link", "unlink"}

Inums == 1..NINODES

VARIABLES
    entry,    \* the directory: the inode of each name, 0 for none
    dlock,    \* who holds the lock of the directory
    disk,     \* the dinodes: type and nlink
    target,   \* the contents of a symbolic link
    ref, valid, mem,  \* of the table entries: mem is ip->type and ip->nlink
    ilk,      \* who holds ip->lock
    fdino,    \* the inode of the process's open file, 0 for none
    th,       \* where each process is in its system call, and its locals
    panic

table == <<ref, valid, mem, ilk>>
vars == <<entry, dlock, disk, target, table, fdino, th, panic>>

\* pc; the system call op; the path name and the other argument; ino is ip (0:
\* none); retry is symlink_retry; nul is where the buffer of the link's target
\* is known to hold a 0 byte (-1: nowhere); after is what follows iput.
Idle == [pc |-> "idle", op |-> "none", name |-> NoName, arg |-> NoName, ino |-> 0,
         retry |-> 0, nul |-> -1, after |-> "idle"]

Free == [type |-> "free", nlink |-> 0]

Init ==
    /\ entry = [n \in Names |-> 0] /\ dlock = None
    /\ disk = [i \in Inums |-> Free] /\ target = [i \in Inums |-> NoName]
    /\ ref = [i \in Inums |-> 0] /\ valid = [i \in Inums |-> FALSE]
    /\ mem = [i \in Inums |-> Free] /\ ilk = [i \in Inums |-> None]
    /\ fdino = [p \in Procs |-> 0]
    /\ th = [p \in Procs |-> Idle]
    /\ panic = "no"

At(p, l) == panic = "no" /\ th[p].pc = l
Goto(p, l) == th' = [th EXCEPT ![p].pc = l]
Return(p) == th' = [th EXCEPT ![p] = Idle]
op(p) == th[p].op
ip(p) == th[p].ino

-----------------------------------------------------------------------------
(* The inode table.                                                        *)

\* Mutant: an entry that is in use already is not counted again.
IgetUncounted(i) ==
    /\ ref' = [ref EXCEPT ![i] = 1]
    /\ valid' = [valid EXCEPT ![i] = ref[i] > 0 /\ @]

iget(i) ==
    /\ ref' = [ref EXCEPT ![i] = @ + 1]
    /\ valid' = [valid EXCEPT ![i] = ref[i] > 0 /\ @]

\* ilock: reads the inode from disk if the entry is not valid.
ilock(p, i) ==
    /\ ilk[i] = None
    /\ ilk' = [ilk EXCEPT ![i] = p]
    /\ valid' = [valid EXCEPT ![i] = TRUE]
    /\ mem' = [mem EXCEPT ![i] = IF valid[i] THEN @ ELSE disk[i]]
    /\ panic' = IF ref[i] < 1 THEN "ilock"
                ELSE IF ~valid[i] /\ disk[i].type = "free" THEN "ilock: no type"
                ELSE panic

iunlock(i) == ilk' = [ilk EXCEPT ![i] = None]

\* A change of ip->nlink and iupdate.
SetNlink(i, n) ==
    /\ mem' = [mem EXCEPT ![i].nlink = n]
    /\ disk' = [disk EXCEPT ![i] = mem'[i]]

\* Mutant: iput without iunlock.
PutOnly(p, l) == th' = [th EXCEPT ![p].pc = "iput", ![p].after = l]

\* iunlockput in the middle of a system call; l is what follows.
UnlockPut(p, l) == th' = [th EXCEPT ![p].pc = "iunlock", ![p].after = l]

Iunlock(p) ==
    /\ At(p, "iunlock")
    /\ iunlock(ip(p))
    /\ Goto(p, "iput")
    /\ UNCHANGED <<entry, dlock, disk, target, ref, valid, mem, fdino, panic>>

\* The last reference to an inode without links.
LastRef(i) == ref[i] = 1 /\ valid[i] /\ mem[i].nlink = 0

\* ref--, and the system call goes on.
DropRef(p) ==
    /\ ref' = [ref EXCEPT ![ip(p)] = @ - 1]
    /\ IF th[p].after = "idle" THEN Return(p)
       ELSE th' = [th EXCEPT ![p].pc = th[p].after, ![p].ino = 0]
    /\ UNCHANGED <<entry, dlock, disk, target, valid, mem, ilk, fdino, panic>>

\* Mutant: iput does not look at ip->ref.
IputUnchecked(p) ==
    /\ At(p, "iput")
    /\ IF valid[ip(p)] /\ mem[ip(p)].nlink = 0
       THEN /\ ilk[ip(p)] = None
            /\ ilk' = [ilk EXCEPT ![ip(p)] = p]
            /\ Goto(p, "free")
            /\ UNCHANGED <<entry, dlock, disk, target, ref, valid, mem, fdino, panic>>
       ELSE DropRef(p)

iput(p) ==
    /\ At(p, "iput")
    /\ IF LastRef(ip(p))
       THEN /\ ilk[ip(p)] = None
            /\ ilk' = [ilk EXCEPT ![ip(p)] = p]
            /\ Goto(p, "free")
            /\ UNCHANGED <<entry, dlock, disk, target, ref, valid, mem, fdino, panic>>
       ELSE DropRef(p)

\* itrunc, and the type on disk: from here on ialloc can take the inode.
IputFree(p) ==
    /\ At(p, "free")
    /\ mem' = [mem EXCEPT ![ip(p)].type = "free"]
    /\ disk' = [disk EXCEPT ![ip(p)] = mem'[ip(p)]]
    /\ target' = [target EXCEPT ![ip(p)] = NoName]
    /\ Goto(p, "freed")
    /\ UNCHANGED <<entry, dlock, ref, valid, ilk, fdino, panic>>

IputRelease(p) ==
    /\ At(p, "freed")
    /\ valid' = [valid EXCEPT ![ip(p)] = FALSE]
    /\ iunlock(ip(p))
    /\ Goto(p, "iput end")
    /\ UNCHANGED <<entry, dlock, disk, target, ref, mem, fdino, panic>>

IputEnd(p) == At(p, "iput end") /\ DropRef(p)

-----------------------------------------------------------------------------
(* namei, and the end of open.                                             *)

\* Looks the name up under the lock of the directory; to is the next step.
Namei(p, from, to) ==
    LET i == IF th[p].name = NoName THEN 0 ELSE entry[th[p].name] IN
    /\ At(p, from)
    /\ dlock = None
    /\ IF i = 0 THEN Return(p) /\ UNCHANGED <<ref, valid>>
       ELSE iget(i) /\ th' = [th EXCEPT ![p].pc = to, ![p].ino = i]
    /\ UNCHANGED <<entry, dlock, disk, target, mem, ilk, fdino, panic>>

NameiPath(p) == Namei(p, "namei", "ilock")
NameiTarget(p) == Namei(p, "namei target", "ilock target")

Ilock(p) ==
    /\ At(p, "ilock")
    /\ ilock(p, ip(p))
    /\ Goto(p, "locked")
    /\ UNCHANGED <<entry, dlock, disk, target, ref, fdino>>

\* Mutant: links are not counted.
LockTargetUncounted(p) ==
    /\ At(p, "ilock target")
    /\ ilock(p, ip(p))
    /\ Goto(p, "locked")
    /\ UNCHANGED <<entry, dlock, disk, target, ref, fdino>>

\* ilock of what a link names: another link is counted.
LockTarget(p) ==
    /\ At(p, "ilock target")
    /\ ilock(p, ip(p))
    /\ th' = [th EXCEPT ![p].pc = "locked",
                        ![p].retry = IF mem'[ip(p)].type = "T_SYMLINK" THEN @ + 1 ELSE @]
    /\ UNCHANGED <<entry, dlock, disk, target, ref, fdino>>

IsLink(p) == mem[ip(p)].type = "T_SYMLINK"
Opening(p) == At(p, "locked") /\ op(p) \in {"open", "O_NOFOLLOW"}

Follows(p) == IsLink(p) /\ op(p) = "open" /\ th[p].retry < MAXLINKS

\* The names that the buffer can hold once readi has filled its first bytes
\* with t, the target without its 0 byte.  The byte after them is what it was: 0
\* where the last name ended, a part of a longer last name, or anything.  An
\* empty link leaves the buffer as it is.
Buffers(t, buf, nul) ==
    IF t = NoName THEN IF nul = -1 THEN Names \cup {NoName} ELSE {buf}
    ELSE IF namelen[t] = nul THEN {t}
    ELSE IF namelen[t] < nul THEN {NoName}
    ELSE {t, NoName}

\* Where the 0 byte is when the buffer then holds b.
Ends(t, b, nul) ==
    IF t = NoName THEN nul
    ELSE IF b = t THEN namelen[t]
    ELSE IF namelen[t] < nul THEN nul
    ELSE -1

ReadLink(p) ==
    LET t == target[ip(p)] IN
    /\ Opening(p) /\ Follows(p)
    /\ \E b \in Buffers(t, th[p].name, th[p].nul) :
          th' = [th EXCEPT ![p].pc = "iunlock", ![p].after = "namei target",
                           ![p].name = b, ![p].nul = Ends(t, b, th[p].nul)]
    /\ UNCHANGED <<entry, dlock, disk, target, table, fdino, panic>>

TooManyLinks(p) ==
    /\ Opening(p) /\ th[p].retry >= MAXLINKS
    /\ UnlockPut(p, "idle")
    /\ UNCHANGED <<entry, dlock, disk, target, table, fdino, panic>>

\* open succeeds, also when create found or made the file.
Opened(p) ==
    \/ Opening(p) /\ (op(p) = "O_NOFOLLOW" \/ ~IsLink(p))
    \/ At(p, "locked") /\ op(p) = "O_CREATE" /\ ~IsLink(p)

OpenDone(p) ==
    /\ Opened(p)
    /\ iunlock(ip(p))
    /\ fdino' = [fdino EXCEPT ![p] = ip(p)]
    /\ Return(p)
    /\ UNCHANGED <<entry, dlock, disk, target, ref, valid, mem, panic>>

\* No file structure or no descriptor is left.
OpenNoFile(p) ==
    /\ Opened(p)
    /\ UnlockPut(p, "idle")
    /\ UNCHANGED <<entry, dlock, disk, target, table, fdino, panic>>

-----------------------------------------------------------------------------
(* create, and sys_symlink.                                                *)

\* The name exists: a file is opened if a file is wanted, else create fails.
CreateFound(p) ==
    /\ At(p, "create")
    /\ dlock = None
    /\ entry[th[p].name] # 0
    /\ iget(entry[th[p].name])
    /\ th' = [th EXCEPT ![p].pc = "ilock", ![p].ino = entry[th[p].name]]
    /\ UNCHANGED <<entry, dlock, disk, target, mem, ilk, fdino, panic>>

CreateRefused(p) ==
    /\ At(p, "locked")
    /\ op(p) = "symlink" \/ (op(p) = "O_CREATE" /\ IsLink(p))
    /\ UnlockPut(p, "idle")
    /\ UNCHANGED <<entry, dlock, disk, target, table, fdino, panic>>

FreeInodes == {i \in Inums : disk[i].type = "free"}

\* ialloc, with the directory locked: the first free inode is marked, and got
\* from the table in a step of its own.
Ialloc(p) ==
    LET i == Min(FreeInodes) IN
    /\ At(p, "create")
    /\ dlock = None
    /\ entry[th[p].name] = 0
    /\ IF FreeInodes = {} THEN Return(p) /\ UNCHANGED <<dlock, disk>>
       ELSE /\ disk' = [disk EXCEPT ![i] =
                 [type |-> IF op(p) = "symlink" THEN "T_SYMLINK" ELSE "T_FILE",
                  nlink |-> 0]]
            /\ dlock' = p
            /\ th' = [th EXCEPT ![p].pc = "ialloc", ![p].ino = i]
    /\ UNCHANGED <<entry, target, table, fdino, panic>>

IallocGet(p) ==
    /\ At(p, "ialloc")
    /\ iget(ip(p))
    /\ Goto(p, "create ilock")
    /\ UNCHANGED <<entry, dlock, disk, target, mem, ilk, fdino, panic>>

CreateLock(p) ==
    /\ At(p, "create ilock")
    /\ ilock(p, ip(p))
    /\ Goto(p, "create nlink")
    /\ UNCHANGED <<entry, dlock, disk, target, ref, fdino>>

CreateNlink(p) ==
    /\ At(p, "create nlink")
    /\ SetNlink(ip(p), 1)
    /\ Goto(p, "dirlink")
    /\ UNCHANGED <<entry, dlock, target, ref, valid, ilk, fdino, panic>>

CreateDirlink(p) ==
    /\ At(p, "dirlink")
    /\ entry' = [entry EXCEPT ![th[p].name] = ip(p)]
    /\ dlock' = None
    /\ Goto(p, IF op(p) = "symlink" THEN "writei" ELSE "locked")
    /\ UNCHANGED <<disk, target, table, fdino, panic>>

\* The entry cannot be written: the new inode goes.
CreateFails(p) ==
    /\ At(p, "dirlink")
    /\ SetNlink(ip(p), 0)
    /\ UnlockPut(p, "release dir")
    /\ UNCHANGED <<entry, dlock, target, ref, valid, ilk, fdino, panic>>

ReleaseDir(p) ==
    /\ At(p, "release dir")
    /\ dlock' = None
    /\ Return(p)
    /\ UNCHANGED <<entry, disk, target, table, fdino, panic>>

\* sys_symlink writes the target; when that fails the empty link stays.
SymlinkWrite(p) ==
    /\ At(p, "writei")
    /\ \E t \in {th[p].arg, NoName} : target' = [target EXCEPT ![ip(p)] = t]
    /\ UnlockPut(p, "idle")
    /\ UNCHANGED <<entry, dlock, disk, table, fdino, panic>>

-----------------------------------------------------------------------------
(* sys_unlink and sys_link.                                                *)

UnlinkLookup(p) ==
    LET i == entry[th[p].name] IN
    /\ At(p, "unlink")
    /\ dlock = None
    /\ IF i = 0 THEN Return(p) /\ UNCHANGED <<dlock, ref, valid>>
       ELSE /\ iget(i) /\ dlock' = p
            /\ th' = [th EXCEPT ![p].pc = "unlink ilock", ![p].ino = i]
    /\ UNCHANGED <<entry, disk, target, mem, ilk, fdino, panic>>

UnlinkLock(p) ==
    /\ At(p, "unlink ilock")
    /\ ilock(p, ip(p))
    /\ Goto(p, "unlink entry")
    /\ UNCHANGED <<entry, dlock, disk, target, ref, fdino>>

UnlinkEntry(p) ==
    /\ At(p, "unlink entry")
    /\ panic' = IF mem[ip(p)].nlink < 1 THEN "unlink: nlink < 1" ELSE panic
    /\ entry' = [entry EXCEPT ![th[p].name] = 0]
    /\ dlock' = None
    /\ Goto(p, "unlink nlink")
    /\ UNCHANGED <<disk, target, table, fdino>>

\* Mutant: no iupdate.
UnlinkNlinkInMemory(p) ==
    /\ At(p, "unlink nlink")
    /\ mem' = [mem EXCEPT ![ip(p)].nlink = @ - 1]
    /\ UnlockPut(p, "idle")
    /\ UNCHANGED <<entry, dlock, disk, target, ref, valid, ilk, fdino, panic>>

UnlinkNlink(p) ==
    /\ At(p, "unlink nlink")
    /\ SetNlink(ip(p), mem[ip(p)].nlink - 1)
    /\ UnlockPut(p, "idle")
    /\ UNCHANGED <<entry, dlock, target, ref, valid, ilk, fdino, panic>>

\* The count goes up before the entry is written.
LinkNlink(p) ==
    /\ At(p, "locked") /\ op(p) = "link"
    /\ SetNlink(ip(p), mem[ip(p)].nlink + 1)
    /\ iunlock(ip(p))
    /\ Goto(p, "link")
    /\ UNCHANGED <<entry, dlock, target, ref, valid, fdino, panic>>

LinkDirlink(p) ==
    /\ At(p, "link")
    /\ dlock = None
    /\ entry[th[p].arg] = 0
    /\ entry' = [entry EXCEPT ![th[p].arg] = ip(p)]
    /\ Goto(p, "iput")
    /\ UNCHANGED <<dlock, disk, target, table, fdino, panic>>

\* The new name exists, or cannot be written.  The reference that dirlink takes
\* and drops while it holds the directory is one to an inode with a name.
LinkFails(p) ==
    /\ At(p, "link")
    /\ dlock = None
    /\ Goto(p, "bad")
    /\ UNCHANGED <<entry, dlock, disk, target, table, fdino, panic>>

LinkBadLock(p) ==
    /\ At(p, "bad")
    /\ ilock(p, ip(p))
    /\ Goto(p, "bad nlink")
    /\ UNCHANGED <<entry, dlock, disk, target, ref, fdino>>

\* Mutant: the count is not taken back.
LinkBadCounted(p) ==
    /\ At(p, "bad nlink")
    /\ UnlockPut(p, "idle")
    /\ UNCHANGED <<entry, dlock, disk, target, table, fdino, panic>>

LinkBad(p) ==
    /\ At(p, "bad nlink")
    /\ SetNlink(ip(p), mem[ip(p)].nlink - 1)
    /\ UnlockPut(p, "idle")
    /\ UNCHANGED <<entry, dlock, target, ref, valid, ilk, fdino, panic>>

-----------------------------------------------------------------------------
(* The beginning of a system call.                                         *)

Begin(p, l, o, n, a) ==
    /\ At(p, "idle") /\ o \in Calls
    /\ th' = [th EXCEPT ![p] = [Idle EXCEPT !.pc = l, !.op = o, !.name = n, !.arg = a]]
    /\ UNCHANGED <<entry, dlock, disk, target, table, fdino, panic>>

sys_open(p, n, mode) ==
    /\ fdino[p] = 0
    /\ Begin(p, IF mode = "O_CREATE" THEN "create" ELSE "namei", mode, n, NoName)
sys_symlink(p, t, n) == Begin(p, "create", "symlink", n, t)
sys_unlink(p, n) == Begin(p, "unlink", "unlink", n, NoName)
sys_link(p, old, new) == Begin(p, "namei", "link", old, new)

\* fileclose: iput of the file's inode.
sys_close(p) ==
    /\ At(p, "idle") /\ "close" \in Calls
    /\ fdino[p] # 0
    /\ th' = [th EXCEPT ![p] = [Idle EXCEPT !.pc = "iput", !.op = "close",
                                            !.ino = fdino[p]]]
    /\ fdino' = [fdino EXCEPT ![p] = 0]
    /\ UNCHANGED <<entry, dlock, disk, target, table, panic>>

SysCall(p) ==
    \/ \E n \in Names, mode \in {"open", "O_NOFOLLOW", "O_CREATE"} : sys_open(p, n, mode)
    \/ \E t, n \in Names : sys_symlink(p, t, n)
    \/ \E n \in Names : sys_unlink(p, n)
    \/ \E old, new \in Names : sys_link(p, old, new)
    \/ sys_close(p)

Step(p) ==
    \/ Iunlock(p) \/ iput(p) \/ IputFree(p) \/ IputRelease(p) \/ IputEnd(p)
    \/ NameiPath(p) \/ NameiTarget(p) \/ Ilock(p) \/ LockTarget(p)
    \/ ReadLink(p) \/ TooManyLinks(p) \/ OpenDone(p) \/ OpenNoFile(p)
    \/ CreateFound(p) \/ CreateRefused(p) \/ Ialloc(p) \/ IallocGet(p)
    \/ CreateLock(p) \/ CreateNlink(p) \/ CreateDirlink(p) \/ CreateFails(p) \/ ReleaseDir(p)
    \/ SymlinkWrite(p)
    \/ UnlinkLookup(p) \/ UnlinkLock(p) \/ UnlinkEntry(p) \/ UnlinkNlink(p)
    \/ LinkNlink(p) \/ LinkDirlink(p) \/ LinkFails(p) \/ LinkBadLock(p) \/ LinkBad(p)

Next == \E p \in Procs : SysCall(p) \/ Step(p)

\* A process in a system call is scheduled, and obtains a sleep-lock that is
\* free again and again.
Fairness == \A p \in Procs : SF_vars(Step(p))

Spec == Init /\ [][Next]_vars
FairSpec == Spec /\ Fairness

-----------------------------------------------------------------------------
(* Properties.                                                             *)

Pcs == {"idle", "iunlock", "iput", "free", "freed", "iput end", "namei",
        "namei target", "ilock", "ilock target", "locked", "create", "ialloc", "create ilock",
        "create nlink", "dirlink", "release dir", "writei", "unlink",
        "unlink ilock", "unlink entry", "unlink nlink", "link", "bad", "bad nlink"}
Dinode == [type : {"free", "T_FILE", "T_SYMLINK"}, nlink : Int]

\* The variables have their types; no more links are counted than allowed.
TypeOK ==
    /\ entry \in [Names -> Inums \cup {0}]
    /\ dlock \in Procs \cup {None}
    /\ disk \in [Inums -> Dinode] /\ mem \in [Inums -> Dinode]
    /\ target \in [Inums -> Names \cup {NoName}]
    /\ ref \in [Inums -> Nat] /\ valid \in [Inums -> BOOLEAN]
    /\ ilk \in [Inums -> Procs \cup {None}]
    /\ fdino \in [Procs -> Inums \cup {0}]
    /\ \A p \in Procs : /\ th[p].pc \in Pcs
                        /\ th[p].ino \in Inums \cup {0}
                        /\ th[p].retry \in 0..MAXLINKS

\* ip->ref counts the pointers to the entry: open files, and the system calls
\* that hold one.
RefCounts ==
    \A i \in Inums :
        ref[i] = Cardinality({p \in Procs : ip(p) = i /\ th[p].pc # "ialloc"})
                 + Cardinality({p \in Procs : fdino[p] = i})

\* The link count on disk is the number of names, and of system calls that are
\* between the change of the count and the change of the directory.
LinkCounts ==
    panic = "no" =>
        \A i \in Inums :
            disk[i].nlink =
                Cardinality({n \in Names : entry[n] = i})
                + Cardinality({p \in Procs : ip(p) = i /\
                    th[p].pc \in {"dirlink", "unlink nlink", "link", "bad", "bad nlink"}})

\* An inode is not freed under an open file, a name or a system call that holds
\* a pointer to it, even when the last name and the last file go at once.
NoUseAfterFree ==
    /\ \A p \in Procs : ip(p) # 0 /\ th[p].pc \notin {"freed", "iput end"}
                        => disk[ip(p)].type # "free"
    /\ \A p \in Procs : fdino[p] # 0 => disk[fdino[p]].type # "free"
    /\ \A n \in Names : entry[n] # 0 => disk[entry[n]].type # "free"

\* fs.c: "If that was the last reference and the inode has no links to it, free
\* the inode (and its content) on disk": an inode without links that nothing
\* points to is free.
NoInodeLeak ==
    \A i \in Inums :
        disk[i].type = "free" \/ disk[i].nlink > 0
        \/ \E p \in Procs : i \in {ip(p), fdino[p]}

\* What ilock finds in a valid entry is what is on disk: an entry that is
\* recycled, or reused by ialloc while iput still holds it, is read again.
CacheCoherent ==
    \A i \in Inums : ref[i] > 0 /\ valid[i] /\ ilk[i] = None => mem[i] = disk[i]

\* "so this acquiresleep() won't block": iput takes the lock of an inode with
\* itable.lock held, and nobody has it.
IputDoesNotBlock ==
    \A p \in Procs : At(p, "iput") /\ LastRef(ip(p)) => ilk[ip(p)] = None

\* Every system call returns: no deadlock between the directory's lock and the
\* locks of inodes, no endless walk along links.
CallsReturn == \A p \in Procs : th[p].pc # "idle" ~> th[p].pc = "idle"

\* sysfile.c: "read the target string into target": the name that open goes
\* on with is the one that symlink wrote.
TargetIsRead ==
    [][ \A p \in Procs :
          At(p, "locked") /\ th'[p].after = "namei target" /\ target[ip(p)] # NoName
          => th'[p].name = target[ip(p)] ]_vars
=============================================================================
