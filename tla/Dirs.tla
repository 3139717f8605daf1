-------------------------------- MODULE Dirs --------------------------------
(***************************************************************************)
(* Directories and path names in HW4/source: namex, dirlookup and dirlink  *)
(* of fs.c under mkdir, mknod, unlink and chdir of sysfile.c, which        *)
(* several processes call at once on one tree.                             *)
(*                                                                         *)
(* A step lies between two operations on a sleep-lock; a lock that is      *)
(* taken and given back within a step is not seen.  iput is one step: what *)
(* can happen inside it, and the copy of the inode in memory, are the      *)
(* subject of Inodes.  A path element stands for its first DIRSIZ bytes,   *)
(* and a directory is a map from names: the order of its slots, of which   *)
(* isdirempty passes over the first two, is left out.                      *)
(*                                                                         *)
(* Two variables record history and change nothing: gone holds the         *)
(* directories whose ".." was freed since it was written, and strayed says *)
(* whether anybody has looked ".." up in one of them.                      *)
(***************************************************************************)
EXTENDS Integers, FiniteSets, FiniteSetsExt, Sequences, SequencesExt

CONSTANTS Procs, None,
          Names,     \* path elements other than "." and ".."
          NINODES,
          Paths      \* the path names of the calls: [abs, elems]

Elems == Names \cup {".", ".."}

ASSUME DirsAssumption ==
    /\ None \notin Procs
    /\ {".", ".."} \cap Names = {}
    /\ NINODES \in Nat \ {0}
    /\ IsFiniteSet(Procs) /\ IsFiniteSet(Names)
    /\ \A a \in Paths : a.abs \in BOOLEAN /\ a.elems \in Seq(Elems)

ROOTINO == 1
Inums == ROOTINO..NINODES

VARIABLES
    type, nlink,   \* the fields of an inode
    ents,          \* the contents of a directory: an inode, or 0, for each name
    ref, valid,    \* of the table entry of the inode
    lk,            \* who holds ip->lock
    cwd,           \* p->cwd
    th,            \* where each process is in its system call, and its locals
    panic,
    gone, strayed  \* history

vars == <<type, nlink, ents, ref, valid, lk, cwd, th, panic, gone, strayed>>

NoEntries == [n \in Elems |-> 0]

\* pc; the system call op; path is what namex has left of the path, at is its
\* ip, and par its argument nameiparent; name is the last element;
\* ip and dp are the locals of the call; puts names the locals whose
\* iunlockputs come next, and after is what follows them.
Idle == [pc |-> "idle", op |-> "none", path |-> <<>>, at |-> 0, par |-> FALSE,
         name |-> ".", ip |-> 0, dp |-> 0, puts |-> <<>>,
         after |-> "idle"]

\* The disk of mkfs (external): a root that is its own parent, with a link count
\* of 1.  Every process starts there.
Init ==
    /\ type = [i \in Inums |-> IF i = ROOTINO THEN "T_DIR" ELSE "free"]
    /\ nlink = [i \in Inums |-> IF i = ROOTINO THEN 1 ELSE 0]
    /\ ents = [i \in Inums |-> IF i = ROOTINO
                 THEN [NoEntries EXCEPT !["."] = ROOTINO, ![".."] = ROOTINO]
                 ELSE NoEntries]
    /\ ref = [i \in Inums |-> IF i = ROOTINO THEN Cardinality(Procs) ELSE 0]
    /\ valid = [i \in Inums |-> FALSE]
    /\ lk = [i \in Inums |-> None]
    /\ cwd = [p \in Procs |-> ROOTINO]
    /\ th = [p \in Procs |-> Idle]
    /\ panic = "no"
    /\ gone = {}
    /\ strayed = FALSE

At(p, l) == panic = "no" /\ th[p].pc = l
Goto(p, l) == th' = [th EXCEPT ![p].pc = l]
Return(p) == th' = [th EXCEPT ![p] = Idle]
op(p) == th[p].op
ip(p) == th[p].ip
dp(p) == th[p].dp

-----------------------------------------------------------------------------
(* The inode table.                                                        *)

idup(i) == ref' = [ref EXCEPT ![i] = @ + 1] /\ UNCHANGED valid

iget(i) ==
    /\ ref' = [ref EXCEPT ![i] = @ + 1]
    /\ valid' = [valid EXCEPT ![i] = ref[i] > 0 /\ @]

\* ilock waits for the lock and reads the inode; the inode must not be free.
CanLock(i) == lk[i] = None
Locked(i) == valid' = [valid EXCEPT ![i] = TRUE]
NoType(i) == type[i] = "free"
PanicNoType ==
    /\ panic' = "ilock: no type"
    /\ UNCHANGED <<type, nlink, ents, ref, valid, lk, cwd, th, gone, strayed>>

\* iput: ref--, and the last reference to an inode without links frees it.
iput(i) ==
    LET frees == ref[i] = 1 /\ valid[i] /\ nlink[i] = 0 IN
    /\ ref' = [ref EXCEPT ![i] = @ - 1]
    /\ valid' = [valid EXCEPT ![i] = @ /\ ~frees]
    /\ type' = [type EXCEPT ![i] = IF frees THEN "free" ELSE @]
    /\ ents' = [ents EXCEPT ![i] = IF frees THEN NoEntries ELSE @]
    /\ gone' = IF frees THEN (gone \cup {d \in Inums : ents[d][".."] = i}) \ {i} ELSE gone
    /\ UNCHANGED nlink

\* What p does next is iunlockput of the locals s, and then l: the iunlock of
\* the first belongs to this step, its iput to the next.
UnlockPuts(p, s, l) ==
    th' = [th EXCEPT ![p].pc = "iput", ![p].puts = s, ![p].after = l]

Iput(p) ==
    LET f == Head(th[p].puts)
        rest == Tail(th[p].puts)
    IN
    /\ At(p, "iput")
    /\ iput(th[p][f])
    /\ IF rest # <<>>
       THEN /\ th' = [th EXCEPT ![p][f] = 0, ![p].puts = rest]
            /\ LET i == th[p][Head(rest)] IN
               lk' = [lk EXCEPT ![i] = IF @ = p THEN None ELSE @]
       ELSE /\ IF th[p].after = "idle" THEN Return(p)
               ELSE th' = [th EXCEPT ![p][f] = 0, ![p].puts = rest, ![p].pc = th[p].after]
            /\ UNCHANGED lk
    /\ UNCHANGED <<cwd, panic, strayed>>

-----------------------------------------------------------------------------
(* Path names.                                                             *)

\* The beginning of namex: from the root, or from the current directory.
StartsAt(p, path) == IF path.abs THEN ROOTINO ELSE cwd[p]
namex(p, path) == IF path.abs THEN iget(ROOTINO) ELSE idup(cwd[p])

\* One turn of the loop of namex.  The name is looked up under the lock of the
\* directory, and the lock is given back before the next inode is locked.
Walking(p) == At(p, "namex") /\ th[p].path # <<>> /\ CanLock(th[p].at)
LastElem(p) == th[p].par /\ Len(th[p].path) = 1

WalkPanics(p) == Walking(p) /\ NoType(th[p].at) /\ PanicNoType

\* No directory, or no such name in it.
WalkFails(p) ==
    LET i == th[p].at IN
    /\ Walking(p) /\ ~NoType(i)
    /\ type[i] # "T_DIR" \/ (~LastElem(p) /\ ents[i][Head(th[p].path)] = 0)
    /\ Locked(i)
    /\ UnlockPuts(p, <<"at">>, "idle")
    /\ UNCHANGED <<type, nlink, ents, ref, lk, cwd, panic, gone, strayed>>

\* "Stop one level early."
WalkStops(p) ==
    LET i == th[p].at IN
    /\ Walking(p) /\ type[i] = "T_DIR" /\ LastElem(p)
    /\ Locked(i)
    /\ th' = [th EXCEPT ![p].pc = op(p), ![p].dp = i, ![p].at = 0,
                        ![p].name = Head(th[p].path), ![p].path = <<>>]
    /\ UNCHANGED <<type, nlink, ents, ref, lk, cwd, panic, gone, strayed>>

\* A look at ".." follows an inode number that was freed.
Strays(d, n) == strayed' = (strayed \/ (n = ".." /\ d \in gone))

\* dirlookup finds the next inode, which is got from the table.
WalkDown(p) ==
    LET i == th[p].at
        next == ents[i][Head(th[p].path)]
    IN
    /\ Walking(p) /\ type[i] = "T_DIR" /\ ~LastElem(p) /\ next # 0
    /\ ref' = [ref EXCEPT ![next] = @ + 1]
    /\ valid' = [valid EXCEPT ![i] = TRUE, ![next] = IF next = i THEN TRUE ELSE ref[next] > 0 /\ @]
    /\ th' = [th EXCEPT ![p].pc = "iput", ![p].puts = <<"dp">>, ![p].after = "namex",
                        ![p].dp = i, ![p].at = next, ![p].path = Tail(@)]
    /\ Strays(i, Head(th[p].path))
    /\ UNCHANGED <<type, nlink, ents, lk, cwd, panic, gone>>

\* The path is at its end: namei returns the inode, nameiparent has no parent.
WalkEnds(p) ==
    /\ At(p, "namex") /\ th[p].path = <<>>
    /\ IF th[p].par THEN UnlockPuts(p, <<"at">>, "idle")
       ELSE th' = [th EXCEPT ![p].pc = op(p), ![p].ip = th[p].at, ![p].at = 0]
    /\ UNCHANGED <<type, nlink, ents, ref, valid, lk, cwd, panic, gone, strayed>>

-----------------------------------------------------------------------------
(* create: mkdir and mknod.                                                *)

Creating(p) == op(p) \in {"mkdir", "mknod"} /\ At(p, op(p)) /\ CanLock(dp(p))
FreeInodes == {i \in Inums : type[i] = "free"}

\* Mutant: create locks the inode it found before it unlocks the directory.
CreateFoundLocked(p) ==
    LET i == ents[dp(p)][th[p].name] IN
    /\ Creating(p) /\ i # 0
    /\ iget(i)
    /\ lk' = [lk EXCEPT ![dp(p)] = p]
    /\ th' = [th EXCEPT ![p].pc = "exists", ![p].ip = i]
    /\ Strays(dp(p), th[p].name)
    /\ UNCHANGED <<type, nlink, ents, cwd, panic, gone>>

\* The name exists: create gives it up, under its lock.
CreateFound(p) ==
    LET i == ents[dp(p)][th[p].name] IN
    /\ Creating(p) /\ i # 0
    /\ iget(i)
    /\ th' = [th EXCEPT ![p].pc = "iput", ![p].puts = <<"dp">>, ![p].after = "exists",
                        ![p].ip = i]
    /\ Strays(dp(p), th[p].name)
    /\ UNCHANGED <<type, nlink, ents, lk, cwd, panic, gone>>

CreateExists(p) ==
    /\ At(p, "exists") /\ CanLock(ip(p))
    /\ IF NoType(ip(p)) THEN PanicNoType
       ELSE /\ Locked(ip(p))
            /\ UnlockPuts(p, <<"ip">>, "idle")
            /\ UNCHANGED <<type, nlink, ents, ref, lk, cwd, panic, gone, strayed>>

\* ialloc, and the inode is got from the table; or there is none.
CreateAlloc(p) ==
    LET i == Min(FreeInodes) IN
    /\ Creating(p) /\ ents[dp(p)][th[p].name] = 0
    /\ IF FreeInodes = {}
       THEN UnlockPuts(p, <<"dp">>, "idle") /\ UNCHANGED <<type, nlink, ref, valid, lk>>
       ELSE /\ type' = [type EXCEPT ![i] = IF op(p) = "mkdir" THEN "T_DIR" ELSE "T_DEVICE"]
            /\ nlink' = [nlink EXCEPT ![i] = 0]
            /\ iget(i)
            /\ lk' = [lk EXCEPT ![dp(p)] = p]
            /\ th' = [th EXCEPT ![p].pc = "create", ![p].ip = i]
    /\ UNCHANGED <<ents, cwd, panic, gone, strayed>>

\* Mutant: "." and ".." are swapped.
DotsSwapped(i, d) == [ents[i] EXCEPT !["."] = d, ![".."] = i]

\* The entries of a new directory.
WithDots(i, d) == [ents[i] EXCEPT !["."] = i, ![".."] = d]

\* dirlink refuses a name that is there: somebody may have come to the new
\* directory before it is locked.
DotsFree(i) == ents[i]["."] = 0 /\ ents[i][".."] = 0

\* Mutant: no link for "..".
CreateDoneUncounted(p) ==
    LET i == ip(p) IN
    /\ At(p, "create") /\ CanLock(i)
    /\ op(p) = "mkdir" => DotsFree(i)
    /\ Locked(i)
    /\ nlink' = [nlink EXCEPT ![i] = 1]
    /\ ents' = [ents EXCEPT ![i] = IF op(p) = "mkdir" THEN WithDots(i, dp(p)) ELSE @,
                            ![dp(p)][th[p].name] = i]
    /\ lk' = [lk EXCEPT ![i] = p, ![dp(p)] = None]
    /\ UnlockPuts(p, <<"dp", "ip">>, "idle")
    /\ UNCHANGED <<type, ref, cwd, panic, gone, strayed>>

\* ilock of the new inode, ".", ".." and the name; the caller's iunlockput
\* follows the one of the parent.
CreateDone(p) ==
    LET i == ip(p) IN
    /\ At(p, "create") /\ CanLock(i)
    /\ op(p) = "mkdir" => DotsFree(i)
    /\ Locked(i)
    /\ nlink' = [nlink EXCEPT ![i] = 1, ![dp(p)] = IF op(p) = "mkdir" THEN @ + 1 ELSE @]
    /\ ents' = [ents EXCEPT ![i] = IF op(p) = "mkdir" THEN WithDots(i, dp(p)) ELSE @,
                            ![dp(p)][th[p].name] = i]
    /\ lk' = [lk EXCEPT ![i] = p, ![dp(p)] = None]
    /\ UnlockPuts(p, <<"dp", "ip">>, "idle")
    /\ UNCHANGED <<type, ref, cwd, panic, gone, strayed>>

\* An entry cannot be written (no block is left) or is there: the new inode goes,
\* and then the lock of the parent.
CreateFails(p) ==
    LET i == ip(p) IN
    /\ At(p, "create") /\ CanLock(i)
    /\ Locked(i)
    /\ nlink' = [nlink EXCEPT ![i] = 0]
    /\ \/ UNCHANGED ents
       \/ /\ op(p) = "mkdir" /\ ents[i]["."] = 0
          /\ ents' = [ents EXCEPT ![i]["."] = i]
       \/ /\ op(p) = "mkdir" /\ DotsFree(i)
          /\ ents' = [ents EXCEPT ![i] = WithDots(i, dp(p))]
    /\ UnlockPuts(p, <<"ip", "dp">>, "idle")
    /\ UNCHANGED <<type, ref, lk, cwd, panic, gone, strayed>>

-----------------------------------------------------------------------------
(* sys_unlink.                                                             *)

Unlinking(p) == At(p, "unlink") /\ CanLock(dp(p))

DotName(p) == th[p].name \in {".", ".."}

\* "Cannot unlink "." or "..""; or there is no such name.
UnlinkRefused(p) ==
    /\ Unlinking(p)
    /\ DotName(p) \/ ents[dp(p)][th[p].name] = 0
    /\ UnlockPuts(p, <<"dp">>, "idle")
    /\ UNCHANGED <<type, nlink, ents, ref, valid, lk, cwd, panic, gone, strayed>>

UnlinkLookup(p) ==
    LET i == ents[dp(p)][th[p].name] IN
    /\ Unlinking(p) /\ ~DotName(p) /\ i # 0
    /\ iget(i)
    /\ lk' = [lk EXCEPT ![dp(p)] = p]
    /\ th' = [th EXCEPT ![p].pc = "unlink entry", ![p].ip = i]
    /\ UNCHANGED <<type, nlink, ents, cwd, panic, gone, strayed>>

\* Mutant: a directory is empty whatever it holds.
AlwaysEmpty(i) == TRUE

isdirempty(i) == \A n \in Names : ents[i][n] = 0

UnlinkNotEmpty(p) ==
    LET i == ip(p) IN
    /\ At(p, "unlink entry") /\ CanLock(i)
    /\ type[i] = "T_DIR" /\ nlink[i] >= 1 /\ ~isdirempty(i)
    /\ Locked(i)
    /\ UnlockPuts(p, <<"ip", "dp">>, "idle")
    /\ UNCHANGED <<type, nlink, ents, ref, lk, cwd, panic, gone, strayed>>

\* The entry goes, and with a directory the link of its "..".
UnlinkEntry(p) ==
    LET i == ip(p) IN
    /\ At(p, "unlink entry") /\ CanLock(i)
    /\ type[i] = "T_DIR" => isdirempty(i)
    /\ panic' = IF NoType(i) THEN "ilock: no type"
                ELSE IF nlink[i] < 1 THEN "unlink: nlink < 1" ELSE panic
    /\ Locked(i)
    /\ ents' = [ents EXCEPT ![dp(p)][th[p].name] = 0]
    /\ nlink' = [nlink EXCEPT ![dp(p)] = IF type[i] = "T_DIR" THEN @ - 1 ELSE @]
    /\ lk' = [lk EXCEPT ![i] = p, ![dp(p)] = None]
    /\ UnlockPuts(p, <<"dp">>, "unlink nlink")
    /\ UNCHANGED <<type, ref, cwd, gone, strayed>>

UnlinkNlink(p) ==
    /\ At(p, "unlink nlink")
    /\ nlink' = [nlink EXCEPT ![ip(p)] = @ - 1]
    /\ lk' = [lk EXCEPT ![ip(p)] = None]
    /\ UnlockPuts(p, <<"ip">>, "idle")
    /\ UNCHANGED <<type, ents, ref, valid, cwd, panic, gone, strayed>>

-----------------------------------------------------------------------------
(* sys_chdir.                                                              *)

ChdirPanics(p) == At(p, "chdir") /\ CanLock(ip(p)) /\ NoType(ip(p)) /\ PanicNoType

\* The inode that namei returned is locked, and a directory or not.
Chdir(p) ==
    /\ At(p, "chdir") /\ CanLock(ip(p)) /\ ~NoType(ip(p))
    /\ Locked(ip(p))
    /\ IF type[ip(p)] = "T_DIR" THEN Goto(p, "chdir put")
       ELSE UnlockPuts(p, <<"ip">>, "idle")
    /\ UNCHANGED <<type, nlink, ents, ref, lk, cwd, panic, gone, strayed>>

\* The old directory is put, the new one keeps the reference of namei.
ChdirPut(p) ==
    /\ At(p, "chdir put")
    /\ iput(cwd[p])
    /\ cwd' = [cwd EXCEPT ![p] = ip(p)]
    /\ Return(p)
    /\ UNCHANGED <<lk, panic, strayed>>

-----------------------------------------------------------------------------
(* The beginning of a system call.                                         *)

Begin(p, o, path, par) ==
    /\ At(p, "idle")
    /\ namex(p, path)
    /\ th' = [th EXCEPT ![p] = [Idle EXCEPT !.pc = "namex", !.op = o, !.path = path.elems,
                                 !.at = StartsAt(p, path), !.par = par]]
    /\ UNCHANGED <<type, nlink, ents, lk, cwd, panic, gone, strayed>>

sys_mkdir(p, path) == Begin(p, "mkdir", path, TRUE)
sys_mknod(p, path) == Begin(p, "mknod", path, TRUE)
sys_unlink(p, path) == Begin(p, "unlink", path, TRUE)
sys_chdir(p, path) == Begin(p, "chdir", path, FALSE)

SysCall(p) ==
    \E path \in Paths : \/ sys_mkdir(p, path) \/ sys_mknod(p, path)
                        \/ sys_unlink(p, path) \/ sys_chdir(p, path)

Step(p) ==
    \/ Iput(p)
    \/ WalkPanics(p) \/ WalkFails(p) \/ WalkStops(p) \/ WalkDown(p) \/ WalkEnds(p)
    \/ CreateFound(p) \/ CreateExists(p) \/ CreateAlloc(p) \/ CreateDone(p) \/ CreateFails(p)
    \/ UnlinkRefused(p) \/ UnlinkLookup(p) \/ UnlinkNotEmpty(p) \/ UnlinkEntry(p)
    \/ UnlinkNlink(p)
    \/ ChdirPanics(p) \/ Chdir(p) \/ ChdirPut(p)

Next == \E p \in Procs : SysCall(p) \/ Step(p)

Spec == Init /\ [][Next]_vars

-----------------------------------------------------------------------------
(* Properties.                                                             *)

Pcs == {"idle", "iput", "namex", "mkdir", "mknod", "exists", "create", "unlink",
        "unlink entry", "unlink nlink", "chdir", "chdir put"}
Locals == {"at", "ip", "dp"}

\* The variables have their types.
TypeOK ==
    /\ type \in [Inums -> {"free", "T_DIR", "T_DEVICE"}]
    /\ nlink \in [Inums -> Int] /\ ref \in [Inums -> Nat]
    /\ ents \in [Inums -> [Elems -> Inums \cup {0}]]
    /\ valid \in [Inums -> BOOLEAN]
    /\ lk \in [Inums -> Procs \cup {None}]
    /\ cwd \in [Procs -> Inums]
    /\ \A p \in Procs : /\ th[p].pc \in Pcs
                        /\ \A f \in Locals : th[p][f] \in Inums \cup {0}
                        /\ Range(th[p].puts) \subseteq Locals

\* ip->ref counts the pointers to the entry: current directories, and the
\* locals of system calls.
RefCounts ==
    \A i \in Inums :
        ref[i] = Cardinality({p \in Procs : cwd[p] = i})
                 + Cardinality({x \in Procs \X Locals : th[x[1]][x[2]] = i})

\* The names of an inode, as pairs of a directory and an element.
NamesOf(i) == {x \in Inums \X Names : ents[x[1]][x[2]] = i}
Dirs == {i \in Inums : type[i] = "T_DIR"}

\* While nobody follows a ".." that was freed, no assertion of ilock or unlink
\* fails and the directories form a tree: what a name names is not free, a
\* directory has one name at most, and its ".." is where the name is.
Tree ==
    ~strayed =>
        /\ panic = "no"
        /\ \A i \in Inums : NamesOf(i) # {} => type[i] # "free"
        /\ \A i \in Dirs : /\ Cardinality(NamesOf(i)) <= 1
                           /\ \A x \in NamesOf(i) : ents[i][".."] = x[1]

\* The directories that i names.
Subdirs(i) == {d \in Dirs : \E n \in Names : ents[i][n] = d}

\* The link count of a directory that has a name, or is the root, counts it and
\* the ".." of its subdirectories; no file has fewer links than names.
LinkCounts ==
    ~strayed =>
        \A i \in Inums :
            /\ type[i] = "T_DIR" /\ (i = ROOTINO \/ NamesOf(i) # {})
               => nlink[i] = 1 + Cardinality(Subdirs(i))
            /\ nlink[i] >= Cardinality(NamesOf(i))

\* The inodes with a path from the root: they are in every set that has the root
\* and what its members name.
Closed(S) ==
    /\ ROOTINO \in S
    /\ \A d \in S : \A n \in Names : ents[d][n] \in S \cup {0}
Reachable ==
    LET C == {S \in SUBSET Inums : Closed(S)}
    IN {i \in Inums : \A S \in C : i \in S}

\* What DirTree sees of the disk.
Seen == [i \in Reachable |-> [kind |-> type[i], entry |-> [n \in Names |-> ents[i][n]]]]

Namespace == INSTANCE DirTree WITH
    Nodes <- Inums, Root <- ROOTINO, NoNode <- 0, tree <- Seen, lost <- strayed

\* mkdir, mknod and unlink, interleaved lock by lock, are single steps on a tree
\* of names: a new inode appears with its name and empty, and unlink takes one
\* inode out of the tree and nothing with it, also when somebody creates a name
\* in the directory that is removed.
ImplementsDirTree == Namespace!Spec

\* The inode whose lock p waits for, 0 for none.
Wants(p) ==
    CASE At(p, "namex") /\ th[p].path # <<>> -> th[p].at
      [] th[p].pc \in {"mkdir", "mknod", "unlink"} -> dp(p)
      [] th[p].pc \in {"exists", "create", "unlink entry", "chdir"} -> ip(p)
      [] OTHER -> 0

\* No deadlock: no processes wait for locks of each other, nor one for its own,
\* whatever mixture of names, "." and ".." their paths are.
NoDeadlock ==
    \A S \in (SUBSET Procs) \ {{}} :
        \E p \in S : Wants(p) = 0 \/ lk[Wants(p)] \notin S

\* ilock's assertion: panic("ilock: no type") does not happen.
NoDirPanic == panic = "no"

\* Names name inodes that are not free, whatever ".." somebody follows.
AlwaysTree == panic = "no" => \A i \in Inums : NamesOf(i) # {} => type[i] # "free"
=============================================================================
