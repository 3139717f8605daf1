----------------------------- MODULE DirsProofs -----------------------------
(***************************************************************************)
(* Proofs about the directories of HW4/source, for any number of           *)
(* processes, names and inodes and any path names: locks are taken from    *)
(* the root downwards, so that nobody waits for ever, and as long as       *)
(* nobody follows a ".." that was freed, the directories are a tree with   *)
(* the right link counts, and Dirs implements DirTree.                     *)
(***************************************************************************)
EXTENDS Dirs, Counting

Calls == {"mkdir", "mknod", "unlink", "chdir"}
Afters == {"idle", "namex", "exists", "unlink nlink"}
Inum0 == Inums \cup {0}
Thread == [pc : Pcs, op : Calls \cup {"none"}, path : Seq(Elems), at : Inum0, par : BOOLEAN,
           name : Elems, ip : Inum0, dp : Inum0, puts : Seq(Locals), after : Afters]

at(p) == th[p].at

Types ==
    /\ type \in [Inums -> {"free", "T_DIR", "T_DEVICE"}]
    /\ nlink \in [Inums -> Int] /\ ref \in [Inums -> Nat]
    /\ ents \in [Inums -> [Elems -> Inum0]]
    /\ valid \in [Inums -> BOOLEAN]
    /\ lk \in [Inums -> Procs \cup {None}]
    /\ cwd \in [Procs -> Inums]
    /\ th \in [Procs -> Thread]
    /\ gone \subseteq Inums /\ strayed \in BOOLEAN

\* Where a process is: its pc, and in iput what it puts and where it goes then.
PhaseOf(t) ==
    IF t.pc # "iput" THEN t.pc
    ELSE IF t.puts = <<"at">> THEN "put at"
    ELSE IF t.puts = <<"ip">> THEN "put ip"
    ELSE IF t.puts = <<"dp", "ip">> THEN "put new"
    ELSE IF t.puts = <<"ip", "dp">> THEN "put back"
    ELSE IF t.after = "idle" THEN "put dp"
    ELSE IF t.after = "namex" THEN "put walk"
    ELSE IF t.after = "exists" THEN "put exists"
    ELSE "put entry"

PutPhases == {"put at", "put ip", "put new", "put back", "put dp", "put walk", "put exists",
              "put entry"}
Phases == (Pcs \ {"iput"}) \cup PutPhases
MakePhases == {"mkdir", "mknod"}
AtPhases == {"namex", "put at", "put walk"}
IpPhases == {"exists", "create", "unlink entry", "unlink nlink", "chdir", "chdir put",
             "put exists", "put ip", "put new", "put back", "put entry"}
DpPhases == {"mkdir", "mknod", "unlink", "create", "unlink entry",
             "put walk", "put exists", "put dp", "put new", "put back", "put entry"}

\* The combinations of puts and after.
PutsOK(t) ==
    \/ t.puts \in {<<"at">>, <<"ip">>, <<"dp", "ip">>, <<"ip", "dp">>} /\ t.after = "idle"
    \/ t.puts = <<"dp">>

\* Which locals a process has, and in which calls it can be.
CallOK(l, o, par) ==
    /\ l \in {"mkdir", "mknod", "unlink"} => o = l
    /\ l \in {"namex", "put walk"} => o \in Calls /\ (par <=> o # "chdir")
    /\ l \in {"exists", "put exists", "create", "put new"} => o \in MakePhases
    /\ l \in {"unlink entry", "unlink nlink", "put entry"} => o = "unlink"
    /\ l = "put back" => o \in {"mkdir", "mknod", "unlink"}

PlaceOf(t) ==
    /\ t.pc = "iput" => PutsOK(t)
    /\ t.at # 0 <=> PhaseOf(t) \in AtPhases
    /\ t.ip # 0 <=> PhaseOf(t) \in IpPhases
    /\ t.dp # 0 <=> PhaseOf(t) \in DpPhases
    /\ CallOK(PhaseOf(t), t.op, t.par)
    /\ PhaseOf(t) = "unlink entry" => t.name \in Names

Phase(p) == PhaseOf(th[p])
Place(p) == PlaceOf(th[p])
Places == \A p \in Procs : Place(p)

\* The inode whose lock a process holds, 0 for none.
LockOf(p) ==
    IF Phase(p) \in {"create", "unlink entry", "put back"} THEN dp(p)
    ELSE IF Phase(p) \in {"put new", "put entry", "unlink nlink"} THEN ip(p)
    ELSE 0

Locks == \A p \in Procs : \A i \in Inums : lk[i] = p <=> LockOf(p) = i

\* A process that is about to change a directory knows it for one; a new inode
\* has the type that was asked for.
Held ==
    \A p \in Procs :
        /\ Phase(p) \in {"mkdir", "mknod", "unlink", "create", "unlink entry"} => type[dp(p)] = "T_DIR"
        /\ Phase(p) = "create" =>
              type[ip(p)] = IF op(p) = "mkdir" THEN "T_DIR" ELSE "T_DEVICE"

\* Only directories have entries, and nothing changes the name that a system
\* call has looked up while it holds the directory.
Contents ==
    /\ \A i \in Inums : type[i] # "T_DIR" => ents[i] = NoEntries
    /\ \A p \in Procs :
          /\ Phase(p) = "create" => ents[dp(p)][th[p].name] = 0
          /\ Phase(p) = "unlink entry" => ents[dp(p)][th[p].name] = ip(p)

\* The order of locks: a directory comes before what it names or will name.
InOrder(rank) ==
    /\ \A d \in Inums : \A n \in Names : ents[d][n] # 0 => rank[d] < rank[ents[d][n]]
    /\ \A p \in Procs : Phase(p) = "create" => rank[dp(p)] < rank[ip(p)]
Ranked == \E b \in Nat : \E rank \in [Inums -> 0..b] : InOrder(rank)

Always == Types /\ Places /\ RefCounts /\ Locks /\ Held /\ Contents /\ Ranked

-----------------------------------------------------------------------------
(* What holds as long as nobody has strayed.                               *)

Points(p, i) == at(p) = i \/ ip(p) = i \/ dp(p) = i \/ cwd[p] = i

\* A process that makes an inode, or gives it up; one that removes it.
Makes(p) == Phase(p) = "create" \/ (Phase(p) = "put back" /\ op(p) # "unlink")
Removes(p) == Phase(p) \in {"put entry", "unlink nlink"}
New(i) == \E p \in Procs : Makes(p) /\ ip(p) = i
Nameless(i) == \A d \in Inums : \A n \in Names : ents[d][n] # i

\* What a process or a name points to is not free.
Live ==
    /\ \A p \in Procs : \A i \in Inums : Points(p, i) => type[i] # "free"
    /\ \A d \in Inums : \A n \in Names : ents[d][n] # 0 => type[ents[d][n]] # "free"
    /\ type[ROOTINO] # "free"

\* A new inode is unknown to everybody else.
NewAlone ==
    \A p \in Procs : Makes(p) =>
        /\ nlink[ip(p)] = 0 /\ ref[ip(p)] = 1 /\ Nameless(ip(p))
        /\ \A n \in Names : ents[ip(p)][n] = 0
        /\ Phase(p) = "create" => ents[ip(p)] = NoEntries
        /\ Phase(p) = "put back" => valid[ip(p)]

\* "." and "..".
DotsRight ==
    \A d \in Inums : type[d] = "T_DIR" /\ ~New(d) =>
        /\ ents[d]["."] = d /\ ents[d][".."] # 0
        /\ d \notin gone => type[ents[d][".."]] # "free" /\ ~New(ents[d][".."])

\* An inode has one name, and the ".." of a directory leads to it.
OneName ==
    /\ \A d, e \in Inums : \A m, n \in Names :
          ents[d][m] # 0 /\ ents[d][m] = ents[e][n] => d = e /\ m = n
    /\ \A d \in Inums : \A n \in Names : ents[d][n] # 0 =>
          /\ ents[d][n] # ROOTINO
          /\ type[ents[d][n]] = "T_DIR" => ents[ents[d][n]][".."] = d
    /\ \A p \in Procs : Removes(p) => ip(p) # ROOTINO /\ Nameless(ip(p))

\* The link count: one for the name, for the root, or for the name that unlink
\* has just removed, and one for each subdirectory.  A device whose directory was
\* removed and freed keeps the count of the name that it had there.
Counted(i) == i = ROOTINO \/ ~Nameless(i) \/ \E p \in Procs : Removes(p) /\ ip(p) = i
LinkOK(i) ==
    /\ nlink[i] >= Bit(Counted(i)) + Cardinality(Subdirs(i))
    /\ type[i] # "T_DEVICE" => nlink[i] = Bit(Counted(i)) + Cardinality(Subdirs(i))
Links == \A i \in Inums : LinkOK(i)

Sound == panic = "no" /\ Live /\ NewAlone /\ DotsRight /\ OneName /\ Links

IInv == Always /\ (~strayed => Sound)
-----------------------------------------------------------------------------
(* What a step of process p does: the phase l and the locals it has then.  *)

Goes(p, l, a, i, d) ==
    /\ Phase(p)' = l /\ th'[p].at = a /\ th'[p].ip = i /\ th'[p].dp = d
    /\ \A q \in Procs \ {p} : th'[q] = th[q]

Gets(i) == ref' = [ref EXCEPT ![i] = @ + 1]

\* The steps that look at things only.
LookTurns == {<<"namex", "put at">>, <<"exists", "put ip">>, <<"mkdir", "put dp">>,
              <<"mknod", "put dp">>, <<"unlink", "put dp">>, <<"unlink entry", "put back">>,
              <<"chdir", "chdir put">>, <<"chdir", "put ip">>}
Looks(p, l) ==
    /\ <<Phase(p), l>> \in LookTurns
    /\ Goes(p, l, at(p), ip(p), dp(p)) /\ th'[p].op = op(p)
    /\ UNCHANGED <<type, nlink, ents, ref, lk, cwd, panic, gone, strayed>>

\* The end of namex: the parent, or the inode itself.
Stops(p, l) ==
    /\ Phase(p) = "namex" /\ l \in {"mkdir", "mknod", "unlink"} /\ type[at(p)] = "T_DIR"
    /\ Goes(p, l, 0, 0, at(p))
    /\ UNCHANGED <<type, nlink, ents, ref, lk, cwd, panic, gone, strayed>>

Ends(p) ==
    /\ Phase(p) = "namex"
    /\ Goes(p, "chdir", 0, at(p), 0)
    /\ UNCHANGED <<type, nlink, ents, ref, lk, cwd, panic, gone, strayed>>

\* A reference is taken to the inode i.
Begins(p, i) ==
    /\ Phase(p) = "idle" /\ i \in {ROOTINO, cwd[p]}
    /\ Goes(p, "namex", i, 0, 0) /\ Gets(i)
    /\ UNCHANGED <<type, nlink, ents, lk, cwd, panic, gone, strayed>>

Descends(p, n, i) ==
    /\ Phase(p) = "namex" /\ type[at(p)] = "T_DIR" /\ ents[at(p)][n] = i
    /\ Goes(p, "put walk", i, 0, at(p)) /\ Gets(i) /\ Strays(at(p), n)
    /\ UNCHANGED <<type, nlink, ents, lk, cwd, panic, gone>>

Finds(p, n, i) ==
    /\ Phase(p) \in MakePhases /\ ents[dp(p)][n] = i
    /\ Goes(p, "put exists", 0, i, dp(p)) /\ Gets(i) /\ Strays(dp(p), n)
    /\ UNCHANGED <<type, nlink, ents, lk, cwd, panic, gone>>

Targets(p, n, i) ==
    /\ Phase(p) = "unlink" /\ n \in Names /\ ents[dp(p)][n] = i /\ lk[dp(p)] = None
    /\ Goes(p, "unlink entry", 0, i, dp(p)) /\ th'[p].name = n /\ Gets(i)
    /\ lk' = [lk EXCEPT ![dp(p)] = p]
    /\ UNCHANGED <<type, nlink, ents, cwd, panic, gone, strayed>>

\* A reference to i is given back.
Dropped(p) == IF Phase(p) = "put at" THEN at(p)
              ELSE IF Phase(p) \in {"put ip", "put back"} THEN ip(p) ELSE dp(p)
DropTurns == {<<"put at", "idle">>, <<"put walk", "namex">>, <<"put exists", "exists">>,
              <<"put ip", "idle">>, <<"put dp", "idle">>, <<"put new", "put ip">>,
              <<"put back", "put dp">>, <<"put entry", "unlink nlink">>}
Drops(p, i, l) ==
    /\ <<Phase(p), l>> \in DropTurns /\ i = Dropped(p) /\ iput(i)
    /\ Goes(p, l, IF Phase(p) = "put at" THEN 0 ELSE at(p),
                  IF Phase(p) \in {"put ip", "put back"} THEN 0 ELSE ip(p),
                  IF Phase(p) \in {"put at", "put ip", "put back"} THEN dp(p) ELSE 0)
    /\ lk' = IF Phase(p) = "put new" THEN [lk EXCEPT ![ip(p)] = IF @ = p THEN None ELSE @]
             ELSE IF Phase(p) = "put back" THEN [lk EXCEPT ![dp(p)] = IF @ = p THEN None ELSE @]
             ELSE lk
    /\ UNCHANGED <<cwd, panic, strayed>>

Swaps(p, i) ==
    /\ Phase(p) = "chdir put" /\ i = cwd[p] /\ iput(i)
    /\ Goes(p, "idle", 0, 0, 0)
    /\ cwd' = [cwd EXCEPT ![p] = ip(p)]
    /\ UNCHANGED <<lk, panic, strayed>>

\* A new inode, and the end of create.
Allocs(p, i) ==
    /\ Phase(p) \in MakePhases /\ type[i] = "free" /\ lk[dp(p)] = None
    /\ Goes(p, "create", 0, i, dp(p)) /\ th'[p].op = op(p) /\ Gets(i)
    /\ ents[dp(p)][th'[p].name] = 0
    /\ type' = [type EXCEPT ![i] = IF op(p) = "mkdir" THEN "T_DIR" ELSE "T_DEVICE"]
    /\ nlink' = [nlink EXCEPT ![i] = 0]
    /\ lk' = [lk EXCEPT ![dp(p)] = p]
    /\ UNCHANGED <<ents, cwd, panic, gone, strayed>>

Enters(p) ==
    /\ Phase(p) = "create" /\ lk[ip(p)] = None
    /\ Goes(p, "put new", 0, ip(p), dp(p))
    /\ nlink' = [nlink EXCEPT ![ip(p)] = 1,
                              ![dp(p)] = IF op(p) = "mkdir" THEN @ + 1 ELSE @]
    /\ ents' = [ents EXCEPT ![ip(p)] = IF op(p) = "mkdir" THEN WithDots(ip(p), dp(p)) ELSE @,
                            ![dp(p)][th[p].name] = ip(p)]
    /\ lk' = [lk EXCEPT ![ip(p)] = p, ![dp(p)] = None]
    /\ UNCHANGED <<type, ref, cwd, panic, gone, strayed>>

GivesUp(p) ==
    /\ Phase(p) = "create" /\ lk[ip(p)] = None /\ valid'[ip(p)]
    /\ Goes(p, "put back", 0, ip(p), dp(p)) /\ th'[p].op = op(p)
    /\ nlink' = [nlink EXCEPT ![ip(p)] = 0]
    /\ ents' \in [Inums -> [Elems -> Inum0]]
    /\ \A d \in Inums : \A n \in Elems :
          d # ip(p) \/ n \notin {".", ".."} \/ op(p) # "mkdir" => ents'[d][n] = ents[d][n]
    /\ UNCHANGED <<type, ref, lk, cwd, panic, gone, strayed>>

\* unlink removes the name, and then the link.
Clears(p) ==
    /\ Phase(p) = "unlink entry" /\ lk[ip(p)] = None
    /\ Goes(p, "put entry", 0, ip(p), dp(p))
    /\ type[ip(p)] = "T_DIR" => isdirempty(ip(p))
    /\ panic' = IF type[ip(p)] = "free" THEN "ilock: no type"
                ELSE IF nlink[ip(p)] < 1 THEN "unlink: nlink < 1" ELSE panic
    /\ ents' = [ents EXCEPT ![dp(p)][th[p].name] = 0]
    /\ nlink' = [nlink EXCEPT ![dp(p)] = IF type[ip(p)] = "T_DIR" THEN @ - 1 ELSE @]
    /\ lk' = [lk EXCEPT ![ip(p)] = p, ![dp(p)] = None]
    /\ UNCHANGED <<type, ref, cwd, gone, strayed>>

Unlinks(p) ==
    /\ Phase(p) = "unlink nlink"
    /\ Goes(p, "put ip", 0, ip(p), 0)
    /\ nlink' = [nlink EXCEPT ![ip(p)] = @ - 1]
    /\ lk' = [lk EXCEPT ![ip(p)] = None]
    /\ UNCHANGED <<type, ents, ref, cwd, panic, gone, strayed>>

\* ilock meets a free inode.
Panics(p, i) ==
    /\ i \in {at(p), ip(p)} /\ i \in Inums /\ type[i] = "free"
    /\ UNCHANGED <<type, nlink, ents, ref, lk, cwd, th, gone, strayed>>

Case(p) ==
    \/ \E l \in Phases : Looks(p, l) \/ Stops(p, l)
    \/ Ends(p)
    \/ \E i \in Inums : Begins(p, i) \/ Swaps(p, i) \/ Allocs(p, i) \/ Panics(p, i)
    \/ \E i \in Inums, n \in Elems : Descends(p, n, i) \/ Finds(p, n, i) \/ Targets(p, n, i)
    \/ \E i \in Inums, l \in Phases : Drops(p, i, l)
    \/ Enters(p) \/ GivesUp(p) \/ Clears(p) \/ Unlinks(p)

\* Copies in memory stay valid as long as there are references, unless the inode is freed.
CopiesKept ==
    /\ valid' \in [Inums -> BOOLEAN]
    /\ \A j \in Inums : valid[j] /\ ref[j] > 0 /\ type'[j] # "free" => valid'[j]

Moved(p) == th' \in [Procs -> Thread] /\ Place(p)' /\ CopiesKept

\* 0 is no inode number.
LEMMA InumsAboveZero == 0 \notin Inums
  <1>1. NINODES \in Nat
    BY DirsAssumption
  <1> QED
    BY <1>1 DEF Inums, ROOTINO

LEMMA RootIsInum == ROOTINO \in Inums
  <1>1. NINODES \in Nat \ {0}
    BY DirsAssumption
  <1> QED
    BY <1>1 DEF Inums, ROOTINO

\* What the locals of a process can be.
LEMMA ThreadFields ==
  ASSUME NEW t \in Thread
  PROVE  /\ t.pc \in Pcs /\ t.op \in Calls \cup {"none"} /\ t.path \in Seq(Elems)
         /\ t.at \in Inum0 /\ t.par \in BOOLEAN /\ t.name \in Elems /\ t.ip \in Inum0
         /\ t.dp \in Inum0 /\ t.puts \in Seq(Locals) /\ t.after \in Afters
  BY DEF Thread

\* A process comes to t.
LEMMA Becomes ==
  ASSUME th \in [Procs -> Thread], NEW p \in Procs, NEW t \in Thread, PlaceOf(t),
         th' = [th EXCEPT ![p] = t]
  PROVE  /\ Goes(p, PhaseOf(t), t.at, t.ip, t.dp) /\ th'[p] = t
         /\ th' \in [Procs -> Thread] /\ Place(p)'
  <1>1. th'[p] = t /\ \A q \in Procs \ {p} : th'[q] = th[q]
    OBVIOUS
  <1> QED
    BY <1>1 DEF Goes, Phase, Place

LEMMA PutSequences ==
  /\ <<"at">> \in Seq(Locals) /\ <<"ip">> \in Seq(Locals) /\ <<"dp">> \in Seq(Locals)
  /\ <<"dp", "ip">> \in Seq(Locals) /\ <<"ip", "dp">> \in Seq(Locals)
  /\ <<"at">> # <<"ip">> /\ <<"at">> # <<"dp">> /\ <<"ip">> # <<"dp">>
  /\ <<"dp", "ip">> \notin {<<"at">>, <<"ip">>, <<"dp">>, <<"ip", "dp">>}
  /\ <<"ip", "dp">> \notin {<<"at">>, <<"ip">>, <<"dp">>}
  BY DEF Locals

\* The phase of a process that is in iput.
PhaseFor(s, l) ==
    IF s = <<"at">> THEN "put at" ELSE IF s = <<"ip">> THEN "put ip"
    ELSE IF s = <<"dp", "ip">> THEN "put new" ELSE IF s = <<"ip", "dp">> THEN "put back"
    ELSE IF l = "idle" THEN "put dp" ELSE IF l = "namex" THEN "put walk"
    ELSE IF l = "exists" THEN "put exists" ELSE "put entry"

LEMMA PutStep ==
  ASSUME Types, NEW p \in Procs, Place(p), NEW s \in Seq(Locals), NEW l \in Afters,
         UnlockPuts(p, s, l),
         s = <<"dp">> \/ (s \in {<<"at">>, <<"ip">>, <<"dp", "ip">>, <<"ip", "dp">>} /\ l = "idle"),
         at(p) # 0 <=> PhaseFor(s, l) \in AtPhases,
         ip(p) # 0 <=> PhaseFor(s, l) \in IpPhases,
         dp(p) # 0 <=> PhaseFor(s, l) \in DpPhases,
         CallOK(PhaseFor(s, l), op(p), th[p].par)
  PROVE  /\ Goes(p, PhaseFor(s, l), at(p), ip(p), dp(p)) /\ th'[p].op = op(p)
         /\ th' \in [Procs -> Thread] /\ Place(p)'
  <1>1. th \in [Procs -> Thread] /\ th[p] \in Thread
    BY DEF Types
  <1>0. PICK u : u = [th[p] EXCEPT !.pc = "iput", !.puts = s, !.after = l]
    OBVIOUS
  <1>2. /\ u \in Thread /\ u.pc = "iput" /\ u.puts = s /\ u.after = l
        /\ u.op = th[p].op /\ u.par = th[p].par /\ u.name = th[p].name
        /\ u.at = th[p].at /\ u.ip = th[p].ip /\ u.dp = th[p].dp
    BY <1>0, <1>1 DEF Thread, Pcs
  <1>3. th' = [th EXCEPT ![p] = u]
    BY <1>0, <1>1 DEF UnlockPuts
  <1>4. PhaseOf(u) = PhaseFor(s, l)
    BY <1>2 DEF PhaseOf, PhaseFor
  <1>5. PutsOK(u)
    BY <1>2 DEF PutsOK
  <1>6. PhaseFor(s, l) # "unlink entry"
    BY DEF PhaseFor
  <1>7. PlaceOf(u)
    BY <1>2, <1>4, <1>5, <1>6 DEF PlaceOf, at, ip, dp, op
  <1>8. /\ Goes(p, PhaseOf(u), u.at, u.ip, u.dp) /\ th'[p] = u
        /\ th' \in [Procs -> Thread] /\ Place(p)'
    BY <1>1, <1>2, <1>3, <1>7, Becomes
  <1>9. th'[p].op = op(p)
    BY <1>2, <1>8 DEF op
  <1>10. Goes(p, PhaseFor(s, l), at(p), ip(p), dp(p))
    BY <1>2, <1>4, <1>8 DEF at, ip, dp
  <1> QED
    BY <1>8, <1>9, <1>10

\* The shapes of iput.
LEMMA PhasesFor ==
  /\ PhaseFor(<<"at">>, "idle") = "put at" /\ PhaseFor(<<"ip">>, "idle") = "put ip"
  /\ PhaseFor(<<"dp", "ip">>, "idle") = "put new" /\ PhaseFor(<<"ip", "dp">>, "idle") = "put back"
  /\ PhaseFor(<<"dp">>, "idle") = "put dp" /\ PhaseFor(<<"dp">>, "namex") = "put walk"
  /\ PhaseFor(<<"dp">>, "exists") = "put exists"
  /\ PhaseFor(<<"dp">>, "unlink nlink") = "put entry"
  BY PutSequences DEF PhaseFor

\* What is known of a process whose pc is l.
LEMMA PlaceNow ==
  ASSUME Types, NEW p \in Procs, Place(p), NEW l, th[p].pc = l, l # "iput"
  PROVE  /\ th[p] \in Thread /\ Phase(p) = l
         /\ at(p) # 0 <=> l \in AtPhases
         /\ ip(p) # 0 <=> l \in IpPhases
         /\ dp(p) # 0 <=> l \in DpPhases
         /\ CallOK(l, op(p), th[p].par)
         /\ at(p) \in Inum0 /\ ip(p) \in Inum0 /\ dp(p) \in Inum0
         /\ op(p) \in Calls \cup {"none"}
         /\ l = "unlink entry" => th[p].name \in Names
  <1>1. th[p] \in Thread
    BY DEF Types
  <1>2. Phase(p) = l
    BY DEF Phase, PhaseOf
  <1>3. /\ at(p) \in Inum0 /\ ip(p) \in Inum0 /\ dp(p) \in Inum0
        /\ op(p) \in Calls \cup {"none"}
    BY <1>1, ThreadFields DEF at, ip, dp, op
  <1> QED
    BY <1>1, <1>2, <1>3 DEF Place, PlaceOf, Phase, at, ip, dp, op

\* An operation that ends with iunlockput and has changed nothing.
LEMMA LookCase ==
  ASSUME Types, NEW p \in Procs, Place(p), th[p].pc # "iput",
         NEW s \in {<<"at">>, <<"ip">>, <<"dp">>, <<"ip", "dp">>},
         NEW l, l = PhaseFor(s, "idle"), UnlockPuts(p, s, "idle"),
         <<Phase(p), l>> \in LookTurns,
         UNCHANGED <<type, nlink, ents, ref, lk, cwd, panic, gone, strayed>>,
         CopiesKept
  PROVE  Case(p) /\ Moved(p)
  <1>1. /\ at(p) # 0 <=> Phase(p) \in AtPhases
        /\ ip(p) # 0 <=> Phase(p) \in IpPhases
        /\ dp(p) # 0 <=> Phase(p) \in DpPhases
        /\ CallOK(Phase(p), op(p), th[p].par)
    BY PlaceNow DEF Phase, PhaseOf
  <1>2. s \in Seq(Locals) /\ "idle" \in Afters
    BY PutSequences DEF Afters
  <1>3. /\ <<Phase(p), l>> \in {<<"namex", "put at">>, <<"exists", "put ip">>, <<"mkdir", "put dp">>,
              <<"mknod", "put dp">>, <<"unlink", "put dp">>, <<"unlink entry", "put back">>,
              <<"chdir", "put ip">>}
        /\ l \in Phases
    <2>1. l # "chdir put"
      BY DEF PhaseFor
    <2> QED
      BY <2>1 DEF LookTurns, Phases, PutPhases
  <1>4. /\ at(p) # 0 <=> l \in AtPhases
        /\ ip(p) # 0 <=> l \in IpPhases
        /\ dp(p) # 0 <=> l \in DpPhases
    BY <1>1, <1>3 DEF AtPhases, IpPhases, DpPhases
  <1>5. CallOK(l, op(p), th[p].par)
    BY <1>1, <1>3 DEF CallOK, MakePhases
  <1>6. s = <<"dp">> \/ s \in {<<"at">>, <<"ip">>, <<"dp", "ip">>, <<"ip", "dp">>}
    OBVIOUS
  <1>7. /\ Goes(p, l, at(p), ip(p), dp(p)) /\ th'[p].op = op(p)
        /\ th' \in [Procs -> Thread] /\ Place(p)'
    BY <1>2, <1>4, <1>5, <1>6, PutStep
  <1> QED
    BY <1>3, <1>7 DEF Case, Moved, Looks

LEMMA IdleThread == Idle \in Thread /\ PlaceOf(Idle) /\ PhaseOf(Idle) = "idle"
  <1>1. "." \in Elems /\ <<>> \in Seq(Elems) /\ <<>> \in Seq(Locals) /\ 0 \in Inum0
    BY DEF Elems, Inum0
  <1>2. "idle" \in Pcs /\ "idle" \in Afters /\ "none" \in Calls \cup {"none"}
    BY DEF Pcs, Afters
  <1>3. Idle \in Thread
    BY <1>1, <1>2 DEF Idle, Thread
  <1>4. PhaseOf(Idle) = "idle"
    BY DEF Idle, PhaseOf
  <1>5. PlaceOf(Idle)
    BY <1>4 DEF Idle, PlaceOf, CallOK, AtPhases, IpPhases, DpPhases
  <1> QED
    BY <1>3, <1>4, <1>5

\* The beginning of a call.
LEMMA BeginCase ==
  ASSUME Types, NEW p \in Procs, Place(p), NEW o \in Calls, NEW path \in Paths,
         NEW par \in BOOLEAN, par <=> o # "chdir", Begin(p, o, path, par)
  PROVE  Case(p) /\ Moved(p)
  <1>1. th \in [Procs -> Thread] /\ th[p].pc = "idle" /\ cwd[p] \in Inums
    BY DEF Types, Begin, At
  <1> DEFINE i == StartsAt(p, path)
  <1>2. i \in Inums /\ i \in {ROOTINO, cwd[p]} /\ i # 0
    BY <1>1, RootIsInum, InumsAboveZero DEF StartsAt
  <1>3. Gets(i) /\ CopiesKept
    BY <1>1, RootIsInum DEF Begin, namex, iget, idup, Gets, StartsAt, Types, CopiesKept
  <1> HIDE DEF i
  <1>4. PICK t : t = [Idle EXCEPT !.pc = "namex", !.op = o, !.path = path.elems, !.at = i, !.par = par]
    OBVIOUS
  <1>5. path.elems \in Seq(Elems)
    BY DirsAssumption
  <1>6. /\ t.pc = "namex" /\ t.op = o /\ t.path = path.elems /\ t.at = i /\ t.par = par
        /\ t.name = "." /\ t.ip = 0 /\ t.dp = 0
    BY <1>4 DEF Idle
  <1>7. t \in Thread
    <2>1. "namex" \in Pcs /\ i \in Inum0 /\ o \in Calls \cup {"none"}
      BY <1>2 DEF Pcs, Inum0
    <2> QED
      BY <1>4, <1>5, <2>1, IdleThread DEF Thread
  <1>8. th' = [th EXCEPT ![p] = t]
    BY <1>4 DEF Begin, i
  <1>9. PhaseOf(t) = "namex"
    BY <1>6 DEF PhaseOf
  <1>10. PlaceOf(t)
    BY <1>2, <1>6, <1>9 DEF PlaceOf, CallOK, AtPhases, IpPhases, DpPhases
  <1>11. Goes(p, "namex", i, 0, 0) /\ th' \in [Procs -> Thread] /\ Place(p)'
    BY <1>1, <1>6, <1>7, <1>8, <1>9, <1>10, Becomes
  <1>12. Phase(p) = "idle"
    BY <1>1 DEF Phase, PhaseOf
  <1>13. Begins(p, i)
    BY <1>2, <1>3, <1>11, <1>12 DEF Begins, Begin
  <1> QED
    BY <1>2, <1>3, <1>11, <1>13 DEF Case, Moved

\* namex.
LEMMA WalkCases ==
  ASSUME Types, NEW p \in Procs, Place(p),
         WalkPanics(p) \/ WalkFails(p) \/ WalkStops(p) \/ WalkDown(p) \/ WalkEnds(p)
  PROVE  Case(p) /\ Moved(p)
  <1>0. th \in [Procs -> Thread] /\ th[p].pc = "namex"
    BY DEF Types, WalkPanics, WalkFails, WalkStops, WalkDown, WalkEnds, Walking, At
  <1>1. /\ th[p] \in Thread /\ Phase(p) = "namex"
        /\ at(p) # 0 /\ ip(p) = 0 /\ dp(p) = 0 /\ at(p) \in Inums
        /\ op(p) \in Calls /\ (th[p].par <=> op(p) # "chdir")
    BY <1>0, PlaceNow DEF AtPhases, IpPhases, DpPhases, CallOK, Inum0
  <1>2. Locked(at(p)) => CopiesKept
    BY <1>1 DEF Locked, Types, CopiesKept
  <1>3. ASSUME WalkPanics(p) PROVE Case(p) /\ Moved(p)
    <2>1. Panics(p, at(p)) /\ th' = th /\ CopiesKept
      BY <1>1, <1>3 DEF WalkPanics, NoType, PanicNoType, Panics, at, CopiesKept, Types
    <2> QED
      BY <1>1, <2>1 DEF Case, Moved, Types, Place
  <1>4. ASSUME WalkFails(p) PROVE Case(p) /\ Moved(p)
    <2>1. /\ UnlockPuts(p, <<"at">>, "idle") /\ CopiesKept
          /\ UNCHANGED <<type, nlink, ents, ref, lk, cwd, panic, gone, strayed>>
      BY <1>2, <1>4 DEF WalkFails, at, CopiesKept
    <2>2. <<Phase(p), PhaseFor(<<"at">>, "idle")>> \in LookTurns
      BY <1>1, PhasesFor DEF LookTurns
    <2> QED
      BY <1>0, <2>1, <2>2, LookCase
  <1>5. ASSUME WalkStops(p) PROVE Case(p) /\ Moved(p)
    <2>1. th[p].par /\ op(p) \in {"mkdir", "mknod", "unlink"} /\ th[p].path # <<>>
      BY <1>1, <1>5 DEF WalkStops, LastElem, Walking, Calls
    <2>2. PICK t : t = [th[p] EXCEPT !.pc = op(p), !.dp = at(p), !.at = 0,
                                     !.name = Head(th[p].path), !.path = <<>>]
      OBVIOUS
    <2>3. th' = [th EXCEPT ![p] = t]
      BY <1>0, <1>5, <2>2 DEF WalkStops, at
    <2>4. Head(th[p].path) \in Elems
      BY <1>1, <2>1, ThreadFields
    <2>5. t \in Thread /\ t.pc = op(p) /\ t.dp = at(p) /\ t.at = 0 /\ t.ip = 0 /\ t.op = op(p)
      <3>0. op(p) \in Pcs
        BY <2>1 DEF Pcs
      <3>1. op(p) \in Pcs /\ at(p) \in Inum0 /\ 0 \in Inum0 /\ <<>> \in Seq(Elems)
        BY <1>1, <3>0 DEF Inum0
      <3>2. t \in Thread
        BY <1>1, <2>2, <2>4, <3>1 DEF Thread
      <3> QED
        BY <1>1, <2>2, <3>2 DEF Thread, ip, op
    <2>6. PhaseOf(t) = op(p)
      BY <2>1, <2>5 DEF PhaseOf
    <2>7. PlaceOf(t)
      BY <1>1, <2>1, <2>5, <2>6 DEF PlaceOf, CallOK, AtPhases, IpPhases, DpPhases, MakePhases
    <2>8. Goes(p, op(p), 0, 0, at(p)) /\ th' \in [Procs -> Thread] /\ Place(p)'
      BY <1>0, <2>3, <2>5, <2>6, <2>7, Becomes
    <2>9. Stops(p, op(p)) /\ CopiesKept
      BY <1>1, <1>2, <1>5, <2>1, <2>8 DEF WalkStops, Stops, at, CopiesKept
    <2>10. op(p) \in Phases
      BY <2>1 DEF Phases, Pcs
    <2> QED
      BY <2>8, <2>9, <2>10 DEF Case, Moved
  <1>6. ASSUME WalkDown(p) PROVE Case(p) /\ Moved(p)
    <2>0. th[p].path # <<>> /\ th[p].path \in Seq(Elems)
      BY <1>1, <1>6, ThreadFields DEF WalkDown, Walking
    <2>1. PICK n \in Elems : n = Head(th[p].path)
      BY <2>0
    <2>2. PICK i : i = ents[at(p)][n]
      OBVIOUS
    <2>3. i \in Inums /\ i # 0
      <3>1. ents[at(p)] \in [Elems -> Inum0]
        BY <1>1 DEF Types
      <3>2. i \in Inum0
        BY <2>1, <2>2, <3>1
      <3>3. i # 0
        BY <1>6, <2>1, <2>2 DEF WalkDown, at
      <3> QED
        BY <3>2, <3>3 DEF Inum0
    <2>4. PICK t : t = [th[p] EXCEPT !.pc = "iput", !.puts = <<"dp">>, !.after = "namex",
                                     !.dp = at(p), !.at = i, !.path = Tail(@)]
      OBVIOUS
    <2>5. th' = [th EXCEPT ![p] = t]
      BY <1>0, <1>1, <1>6, <2>1, <2>2, <2>4 DEF WalkDown, at
    <2>6. Tail(th[p].path) \in Seq(Elems)
      BY <2>0
    <2>7. /\ t \in Thread /\ t.pc = "iput" /\ t.puts = <<"dp">> /\ t.after = "namex"
          /\ t.dp = at(p) /\ t.at = i /\ t.ip = 0 /\ t.op = op(p) /\ t.par = th[p].par
      BY <1>1, <2>3, <2>4, <2>6, PutSequences DEF Thread, Pcs, Inum0, Afters, ip, op
    <2>8. PhaseOf(t) = "put walk"
      BY <2>7, PutSequences DEF PhaseOf
    <2>9. PlaceOf(t)
      BY <1>1, <2>3, <2>7, <2>8 DEF PlaceOf, CallOK, AtPhases, IpPhases, DpPhases, PutsOK
    <2>10. Goes(p, "put walk", i, 0, at(p)) /\ th' \in [Procs -> Thread] /\ Place(p)'
      BY <1>0, <2>5, <2>7, <2>8, <2>9, Becomes
    <2>11. /\ Gets(i) /\ type[at(p)] = "T_DIR" /\ Strays(at(p), n)
           /\ UNCHANGED <<type, nlink, ents, lk, cwd, panic, gone>>
      BY <1>6, <2>1, <2>2 DEF WalkDown, Gets, at
    <2>12. CopiesKept
      <3>1. valid' = [valid EXCEPT ![at(p)] = TRUE,
                                   ![i] = IF i = at(p) THEN TRUE ELSE ref[i] > 0 /\ @]
        BY <1>6, <2>1, <2>2 DEF WalkDown, at
      <3> QED
        BY <3>1 DEF Types, CopiesKept
    <2>13. Descends(p, n, i)
      BY <1>1, <2>2, <2>10, <2>11 DEF Descends
    <2> QED
      BY <2>3, <2>10, <2>12, <2>13 DEF Case, Moved
  <1>7. ASSUME WalkEnds(p) PROVE Case(p) /\ Moved(p)
    <2>0. /\ UNCHANGED <<type, nlink, ents, ref, lk, cwd, panic, gone, strayed>>
          /\ CopiesKept
      BY <1>7 DEF WalkEnds, Types, CopiesKept
    <2>1. CASE th[p].par
      <3>1. UnlockPuts(p, <<"at">>, "idle")
        BY <1>7, <2>1 DEF WalkEnds
      <3>2. <<Phase(p), PhaseFor(<<"at">>, "idle")>> \in LookTurns
        BY <1>1, PhasesFor DEF LookTurns
      <3> QED
        BY <1>0, <2>0, <3>1, <3>2, LookCase
    <2>2. CASE ~th[p].par
      <3>1. op(p) = "chdir"
        BY <1>1, <2>2
      <3>2. PICK t : t = [th[p] EXCEPT !.pc = "chdir", !.ip = at(p), !.at = 0]
        OBVIOUS
      <3>3. th' = [th EXCEPT ![p] = t]
        BY <1>0, <1>7, <2>2, <3>1, <3>2 DEF WalkEnds, at
      <3>4. t \in Thread /\ t.pc = "chdir" /\ t.ip = at(p) /\ t.at = 0 /\ t.dp = 0 /\ t.op = op(p)
        BY <1>1, <3>2 DEF Thread, Pcs, Inum0, dp, op
      <3>5. PhaseOf(t) = "chdir"
        BY <3>4 DEF PhaseOf
      <3>6. PlaceOf(t)
        BY <1>1, <3>4, <3>5 DEF PlaceOf, CallOK, AtPhases, IpPhases, DpPhases
      <3>7. Goes(p, "chdir", 0, at(p), 0) /\ th' \in [Procs -> Thread] /\ Place(p)'
        BY <1>0, <3>3, <3>4, <3>5, <3>6, Becomes
      <3> QED
        BY <1>1, <2>0, <3>7 DEF Case, Moved, Ends
    <2> QED
      BY <2>1, <2>2
  <1> QED
    BY <1>3, <1>4, <1>5, <1>6, <1>7

\* create.
LEMMA CreateCases ==
  ASSUME Types, NEW p \in Procs, Place(p), CreateFound(p) \/ CreateExists(p) \/ CreateAlloc(p)
  PROVE  Case(p) /\ Moved(p)
  <1>1. th \in [Procs -> Thread] /\ th[p] \in Thread
    BY DEF Types
  <1>2. ASSUME Creating(p)
        PROVE  /\ Phase(p) = op(p) /\ op(p) \in MakePhases /\ th[p].pc # "iput"
               /\ at(p) = 0 /\ ip(p) = 0 /\ dp(p) # 0 /\ dp(p) \in Inums /\ lk[dp(p)] = None
               /\ th[p].name \in Elems
    <2>1. th[p].pc = op(p) /\ op(p) \in {"mkdir", "mknod"} /\ lk[dp(p)] = None
      BY <1>2 DEF Creating, At, CanLock
    <2>2. th[p].name \in Elems
      BY <1>1, ThreadFields
    <2> QED
      BY <2>1, <2>2, PlaceNow DEF AtPhases, IpPhases, DpPhases, MakePhases, Inum0
  <1>3. ASSUME CreateFound(p) PROVE Case(p) /\ Moved(p)
    <2>1. PICK n \in Elems : n = th[p].name
      BY <1>2, <1>3 DEF CreateFound
    <2>2. PICK i : i = ents[dp(p)][n]
      OBVIOUS
    <2>3. i \in Inums /\ i # 0
      <3>1. ents[dp(p)] \in [Elems -> Inum0]
        BY <1>2, <1>3 DEF Types, CreateFound
      <3>2. i \in Inum0
        BY <2>1, <2>2, <3>1
      <3>3. i # 0
        BY <1>3, <2>1, <2>2 DEF CreateFound
      <3> QED
        BY <3>2, <3>3 DEF Inum0
    <2>4. PICK t : t = [th[p] EXCEPT !.pc = "iput", !.puts = <<"dp">>, !.after = "exists", !.ip = i]
      OBVIOUS
    <2>5. th' = [th EXCEPT ![p] = t]
      BY <1>1, <1>3, <2>1, <2>2, <2>4 DEF CreateFound
    <2>6. /\ t \in Thread /\ t.pc = "iput" /\ t.puts = <<"dp">> /\ t.after = "exists"
          /\ t.dp = dp(p) /\ t.at = at(p) /\ t.ip = i /\ t.op = op(p) /\ t.par = th[p].par
      BY <1>1, <2>3, <2>4, PutSequences DEF Thread, Pcs, Inum0, Afters, dp, op, at
    <2>7. PhaseOf(t) = "put exists"
      BY <2>6, PutSequences DEF PhaseOf
    <2>8. PlaceOf(t)
      BY <1>2, <1>3, <2>3, <2>6, <2>7
         DEF CreateFound, PlaceOf, CallOK, AtPhases, IpPhases, DpPhases, PutsOK
    <2>9. Goes(p, "put exists", 0, i, dp(p)) /\ th' \in [Procs -> Thread] /\ Place(p)'
      <3>1. /\ Goes(p, PhaseOf(t), t.at, t.ip, t.dp)
            /\ th' \in [Procs -> Thread] /\ Place(p)'
        BY <1>1, <2>5, <2>6, <2>8, Becomes
      <3>2. at(p) = 0
        BY <1>2, <1>3 DEF CreateFound
      <3> QED
        BY <2>6, <2>7, <3>1, <3>2
    <2>10. /\ Gets(i) /\ Strays(dp(p), n) /\ CopiesKept
           /\ UNCHANGED <<type, nlink, ents, lk, cwd, panic, gone>>
      BY <1>3, <2>1, <2>2, <2>3 DEF CreateFound, iget, Gets, Types, CopiesKept
    <2>11. Finds(p, n, i)
      BY <1>2, <1>3, <2>2, <2>9, <2>10 DEF Finds, CreateFound
    <2> QED
      BY <2>3, <2>9, <2>10, <2>11 DEF Case, Moved
  <1>4. ASSUME CreateExists(p) PROVE Case(p) /\ Moved(p)
    <2>1. /\ Phase(p) = "exists" /\ th[p].pc = "exists" /\ ip(p) \in Inums
      BY <1>4, PlaceNow DEF CreateExists, At, IpPhases, Inum0
    <2>2. CASE type[ip(p)] = "free"
      <3>1. Panics(p, ip(p)) /\ th' = th /\ CopiesKept
        BY <1>4, <2>1, <2>2 DEF CreateExists, NoType, PanicNoType, Panics, CopiesKept, Types
      <3> QED
        BY <2>1, <3>1 DEF Case, Moved, Types, Place
    <2>3. CASE type[ip(p)] # "free"
      <3>1. /\ UnlockPuts(p, <<"ip">>, "idle") /\ CopiesKept
            /\ UNCHANGED <<type, nlink, ents, ref, lk, cwd, panic, gone, strayed>>
        BY <1>4, <2>3 DEF CreateExists, NoType, Locked, Types, CopiesKept
      <3>2. <<Phase(p), PhaseFor(<<"ip">>, "idle")>> \in LookTurns
        BY <2>1, PhasesFor DEF LookTurns
      <3>3. th[p].pc # "iput"
        BY <2>1
      <3> QED
        BY <3>1, <3>2, <3>3, LookCase
    <2> QED
      BY <2>2, <2>3
  <1>5. ASSUME CreateAlloc(p) PROVE Case(p) /\ Moved(p)
    <2>0. Creating(p) /\ ents[dp(p)][th[p].name] = 0
      BY <1>5 DEF CreateAlloc
    <2>1. CASE FreeInodes = {}
      <3>1. /\ UnlockPuts(p, <<"dp">>, "idle") /\ CopiesKept
            /\ UNCHANGED <<type, nlink, ents, ref, lk, cwd, panic, gone, strayed>>
        BY <1>5, <2>1 DEF CreateAlloc, Types, CopiesKept
      <3>2. <<Phase(p), PhaseFor(<<"dp">>, "idle")>> \in LookTurns
        BY <1>2, <2>0, PhasesFor DEF LookTurns, MakePhases
      <3> QED
        BY <1>2, <2>0, <3>1, <3>2, LookCase
    <2>2. CASE FreeInodes # {}
      <3>1. PICK i : i = Min(FreeInodes)
        OBVIOUS
      <3>2. i \in Inums /\ type[i] = "free" /\ i # 0
        <4>1. FreeInodes \subseteq Nat /\ FreeInodes \subseteq Inums
          BY DirsAssumption DEF FreeInodes, Inums, ROOTINO
        <4>2. i \in FreeInodes
          BY <2>2, <3>1, <4>1, MinNat
        <4> QED
          BY <4>1, <4>2, InumsAboveZero DEF FreeInodes
      <3>3. PICK t : t = [th[p] EXCEPT !.pc = "create", !.ip = i]
        OBVIOUS
      <3>4. th' = [th EXCEPT ![p] = t]
        BY <1>1, <1>5, <2>2, <3>1, <3>3 DEF CreateAlloc
      <3>5. /\ t \in Thread /\ t.pc = "create" /\ t.name = th[p].name
            /\ t.dp = dp(p) /\ t.at = at(p) /\ t.ip = i /\ t.op = op(p) /\ t.par = th[p].par
        BY <1>1, <3>2, <3>3 DEF Thread, Pcs, Inum0, dp, op, at
      <3>6. PhaseOf(t) = "create"
        BY <3>5 DEF PhaseOf
      <3>7. PlaceOf(t)
        BY <1>2, <2>0, <3>2, <3>5, <3>6 DEF PlaceOf, CallOK, AtPhases, IpPhases, DpPhases
      <3>8. /\ Goes(p, "create", 0, i, dp(p)) /\ th'[p] = t
            /\ th' \in [Procs -> Thread] /\ Place(p)'
        <4>1. /\ Goes(p, PhaseOf(t), t.at, t.ip, t.dp) /\ th'[p] = t
              /\ th' \in [Procs -> Thread] /\ Place(p)'
          BY <1>1, <3>4, <3>5, <3>7, Becomes
        <4>2. at(p) = 0
          BY <1>2, <2>0
        <4> QED
          BY <3>5, <3>6, <4>1, <4>2
      <3>9. /\ Gets(i) /\ CopiesKept
            /\ type' = [type EXCEPT ![i] = IF op(p) = "mkdir" THEN "T_DIR" ELSE "T_DEVICE"]
            /\ nlink' = [nlink EXCEPT ![i] = 0]
            /\ lk' = [lk EXCEPT ![dp(p)] = p]
            /\ UNCHANGED <<ents, cwd, panic, gone, strayed>>
        BY <1>5, <2>2, <3>1, <3>2 DEF CreateAlloc, iget, Gets, Types, CopiesKept
      <3>10. th'[p].op = op(p) /\ th'[p].name = th[p].name
        BY <3>5, <3>8
      <3>11. Phase(p) \in MakePhases /\ lk[dp(p)] = None
        BY <1>2, <2>0
      <3>12. Allocs(p, i)
        BY <2>0, <3>2, <3>8, <3>9, <3>10, <3>11 DEF Allocs
      <3> QED
        BY <3>2, <3>8, <3>9, <3>12 DEF Case, Moved
    <2> QED
      BY <2>1, <2>2
  <1> QED
    BY <1>3, <1>4, <1>5

LEMMA MakeCases ==
  ASSUME Types, NEW p \in Procs, Place(p), CreateDone(p) \/ CreateFails(p)
  PROVE  Case(p) /\ Moved(p)
  <1>1. /\ th[p].pc = "create" /\ Phase(p) = "create" /\ op(p) \in MakePhases
        /\ at(p) = 0 /\ ip(p) # 0 /\ dp(p) # 0 /\ ip(p) \in Inums /\ dp(p) \in Inums
    <2>1. th[p].pc = "create"
      BY DEF CreateDone, CreateFails, At
    <2> QED
      BY <2>1, PlaceNow DEF AtPhases, IpPhases, DpPhases, CallOK, Inum0
  <1>2. lk[ip(p)] = None /\ CopiesKept
    BY DEF CreateDone, CreateFails, CanLock, Locked, Types, CopiesKept
  <1>3. "idle" \in Afters
    BY DEF Afters
  <1>4. ASSUME CreateDone(p) PROVE Case(p) /\ Moved(p)
    <2>1. UnlockPuts(p, <<"dp", "ip">>, "idle")
      BY <1>4 DEF CreateDone
    <2>2. /\ at(p) # 0 <=> "put new" \in AtPhases
          /\ ip(p) # 0 <=> "put new" \in IpPhases
          /\ dp(p) # 0 <=> "put new" \in DpPhases
          /\ CallOK("put new", op(p), th[p].par)
      BY <1>1 DEF AtPhases, IpPhases, DpPhases, CallOK
    <2>3. /\ Goes(p, "put new", at(p), ip(p), dp(p)) /\ th'[p].op = op(p)
          /\ th' \in [Procs -> Thread] /\ Place(p)'
      BY <1>3, <2>1, <2>2, PutStep, PhasesFor, PutSequences
    <2>4. Enters(p)
      BY <1>1, <1>2, <1>4, <2>3 DEF CreateDone, Enters
    <2> QED
      BY <1>2, <2>3, <2>4 DEF Case, Moved
  <1>5. ASSUME CreateFails(p) PROVE Case(p) /\ Moved(p)
    <2>1. UnlockPuts(p, <<"ip", "dp">>, "idle")
      BY <1>5 DEF CreateFails
    <2>2. /\ at(p) # 0 <=> "put back" \in AtPhases
          /\ ip(p) # 0 <=> "put back" \in IpPhases
          /\ dp(p) # 0 <=> "put back" \in DpPhases
          /\ CallOK("put back", op(p), th[p].par)
      BY <1>1 DEF AtPhases, IpPhases, DpPhases, CallOK, MakePhases
    <2>3. /\ Goes(p, "put back", at(p), ip(p), dp(p)) /\ th'[p].op = op(p)
          /\ th' \in [Procs -> Thread] /\ Place(p)'
      BY <1>3, <2>1, <2>2, PutStep, PhasesFor, PutSequences
    <2>4. /\ ents \in [Inums -> [Elems -> Inum0]] /\ {".", ".."} \subseteq Elems
          /\ ip(p) \in Inum0 /\ dp(p) \in Inum0
      BY <1>1 DEF Types, Elems, Inum0
    <2>5. /\ ents' \in [Inums -> [Elems -> Inum0]]
          /\ \A d \in Inums : \A n \in Elems :
                d # ip(p) \/ n \notin {".", ".."} \/ op(p) # "mkdir" => ents'[d][n] = ents[d][n]
      <3>1. CASE UNCHANGED ents
        BY <2>4, <3>1
      <3>2. CASE op(p) = "mkdir" /\ ents' = [ents EXCEPT ![ip(p)]["."] = ip(p)]
        BY <1>1, <2>4, <3>2
      <3>3. CASE op(p) = "mkdir" /\ ents' = [ents EXCEPT ![ip(p)] = WithDots(ip(p), dp(p))]
        BY <1>1, <2>4, <3>3 DEF WithDots
      <3> QED
        BY <1>5, <3>1, <3>2, <3>3 DEF CreateFails
    <2>6. GivesUp(p)
      <3>1. valid'[ip(p)]
        BY <1>1, <1>5 DEF CreateFails, Locked, Types
      <3> QED
        BY <1>1, <1>2, <1>5, <2>3, <2>5, <3>1 DEF CreateFails, GivesUp
    <2> QED
      BY <1>2, <2>3, <2>6 DEF Case, Moved
  <1> QED
    BY <1>4, <1>5

\* sys_unlink.
LEMMA UnlinkCases ==
  ASSUME Types, NEW p \in Procs, Place(p), UnlinkRefused(p) \/ UnlinkLookup(p)
  PROVE  Case(p) /\ Moved(p)
  <1>1. /\ th \in [Procs -> Thread] /\ th[p] \in Thread
        /\ th[p].pc = "unlink" /\ Phase(p) = "unlink" /\ op(p) = "unlink"
        /\ at(p) = 0 /\ ip(p) = 0 /\ dp(p) # 0 /\ dp(p) \in Inums /\ lk[dp(p)] = None
    <2>1. th[p].pc = "unlink" /\ lk[dp(p)] = None /\ th \in [Procs -> Thread]
      BY DEF UnlinkRefused, UnlinkLookup, Unlinking, At, CanLock, Types
    <2> QED
      BY <2>1, PlaceNow DEF AtPhases, IpPhases, DpPhases, CallOK, Inum0
  <1>2. ASSUME UnlinkRefused(p) PROVE Case(p) /\ Moved(p)
    <2>1. /\ UnlockPuts(p, <<"dp">>, "idle") /\ CopiesKept
          /\ UNCHANGED <<type, nlink, ents, ref, lk, cwd, panic, gone, strayed>>
      BY <1>2 DEF UnlinkRefused, Types, CopiesKept
    <2>2. <<Phase(p), PhaseFor(<<"dp">>, "idle")>> \in LookTurns
      BY <1>1, PhasesFor DEF LookTurns
    <2>3. th[p].pc # "iput"
      BY <1>1
    <2> QED
      BY <2>1, <2>2, <2>3, LookCase
  <1>3. ASSUME UnlinkLookup(p) PROVE Case(p) /\ Moved(p)
    <2>0. th[p].name \in Elems /\ th[p].name \notin {".", ".."}
      BY <1>1, <1>3, ThreadFields DEF UnlinkLookup, DotName
    <2>1. PICK n \in Names : n = th[p].name
      BY <2>0 DEF Elems
    <2>2. PICK i : i = ents[dp(p)][n]
      OBVIOUS
    <2>3. i \in Inums /\ i # 0 /\ n \in Elems
      <3>1. ents[dp(p)] \in [Elems -> Inum0]
        BY <1>1 DEF Types
      <3>2. i \in Inum0 /\ n \in Elems
        BY <2>1, <2>2, <3>1 DEF Elems
      <3>3. i # 0
        BY <1>3, <2>1, <2>2 DEF UnlinkLookup
      <3> QED
        BY <3>2, <3>3 DEF Inum0
    <2>4. PICK t : t = [th[p] EXCEPT !.pc = "unlink entry", !.ip = i]
      OBVIOUS
    <2>5. th' = [th EXCEPT ![p] = t]
      BY <1>1, <1>3, <2>1, <2>2, <2>4 DEF UnlinkLookup
    <2>6. /\ t \in Thread /\ t.pc = "unlink entry" /\ t.name = n
          /\ t.dp = dp(p) /\ t.at = at(p) /\ t.ip = i /\ t.op = op(p) /\ t.par = th[p].par
      BY <1>1, <2>1, <2>3, <2>4 DEF Thread, Pcs, Inum0, dp, op, at
    <2>7. PhaseOf(t) = "unlink entry"
      BY <2>6 DEF PhaseOf
    <2>8. PlaceOf(t)
      BY <1>1, <2>3, <2>6, <2>7 DEF PlaceOf, CallOK, AtPhases, IpPhases, DpPhases
    <2>9. /\ Goes(p, PhaseOf(t), t.at, t.ip, t.dp) /\ th'[p] = t
          /\ th' \in [Procs -> Thread] /\ Place(p)'
      BY <1>1, <2>5, <2>6, <2>8, Becomes
    <2>10. Goes(p, "unlink entry", 0, i, dp(p)) /\ th'[p].name = n
      BY <1>1, <2>6, <2>7, <2>9
    <2>11. /\ Gets(i) /\ CopiesKept
           /\ lk' = [lk EXCEPT ![dp(p)] = p]
           /\ UNCHANGED <<type, nlink, ents, cwd, panic, gone, strayed>>
      BY <1>3, <2>1, <2>2, <2>3 DEF UnlinkLookup, iget, Gets, Types, CopiesKept
    <2>12. Targets(p, n, i)
      BY <1>1, <2>2, <2>10, <2>11 DEF Targets
    <2> QED
      BY <2>3, <2>9, <2>11, <2>12 DEF Case, Moved
  <1> QED
    BY <1>2, <1>3

LEMMA ClearCases ==
  ASSUME Types, NEW p \in Procs, Place(p), UnlinkNotEmpty(p) \/ UnlinkEntry(p) \/ UnlinkNlink(p)
  PROVE  Case(p) /\ Moved(p)
  <1>0. "idle" \in Afters /\ "unlink nlink" \in Afters
    BY DEF Afters
  <1>1. ASSUME th[p].pc = "unlink entry"
        PROVE  /\ Phase(p) = "unlink entry" /\ op(p) = "unlink"
               /\ at(p) = 0 /\ ip(p) # 0 /\ dp(p) # 0 /\ ip(p) \in Inums
    BY <1>1, PlaceNow DEF AtPhases, IpPhases, DpPhases, CallOK, Inum0
  <1>2. ASSUME UnlinkNotEmpty(p) PROVE Case(p) /\ Moved(p)
    <2>1. /\ UnlockPuts(p, <<"ip", "dp">>, "idle") /\ th[p].pc = "unlink entry"
          /\ CopiesKept
          /\ UNCHANGED <<type, nlink, ents, ref, lk, cwd, panic, gone, strayed>>
      BY <1>2 DEF UnlinkNotEmpty, At, Locked, Types, CopiesKept
    <2>2. <<Phase(p), PhaseFor(<<"ip", "dp">>, "idle")>> \in LookTurns
      BY <1>1, <2>1, PhasesFor DEF LookTurns
    <2>3. th[p].pc # "iput"
      BY <2>1
    <2> QED
      BY <2>1, <2>2, <2>3, LookCase
  <1>3. ASSUME UnlinkEntry(p) PROVE Case(p) /\ Moved(p)
    <2>1. th[p].pc = "unlink entry" /\ CopiesKept
      BY <1>3 DEF UnlinkEntry, At, Locked, Types, CopiesKept
    <2>2. /\ at(p) # 0 <=> "put entry" \in AtPhases
          /\ ip(p) # 0 <=> "put entry" \in IpPhases
          /\ dp(p) # 0 <=> "put entry" \in DpPhases
          /\ CallOK("put entry", op(p), th[p].par)
      BY <1>1, <2>1 DEF AtPhases, IpPhases, DpPhases, CallOK
    <2>3. UnlockPuts(p, <<"dp">>, "unlink nlink")
      BY <1>3 DEF UnlinkEntry
    <2>4. /\ Goes(p, "put entry", at(p), ip(p), dp(p)) /\ th'[p].op = op(p)
          /\ th' \in [Procs -> Thread] /\ Place(p)'
      BY <1>0, <2>2, <2>3, PutStep, PhasesFor, PutSequences
    <2>5. Clears(p)
      BY <1>1, <1>3, <2>1, <2>4 DEF UnlinkEntry, Clears, CanLock, NoType
    <2> QED
      BY <2>1, <2>4, <2>5 DEF Case, Moved
  <1>4. ASSUME UnlinkNlink(p) PROVE Case(p) /\ Moved(p)
    <2>1. th[p].pc = "unlink nlink" /\ CopiesKept
      BY <1>4 DEF UnlinkNlink, At, Types, CopiesKept
    <2>2. Phase(p) = "unlink nlink" /\ at(p) = 0 /\ ip(p) # 0 /\ dp(p) = 0
      BY <2>1, PlaceNow DEF AtPhases, IpPhases, DpPhases
    <2>3. /\ at(p) # 0 <=> "put ip" \in AtPhases
          /\ ip(p) # 0 <=> "put ip" \in IpPhases
          /\ dp(p) # 0 <=> "put ip" \in DpPhases
          /\ CallOK("put ip", op(p), th[p].par)
      BY <2>2 DEF AtPhases, IpPhases, DpPhases, CallOK
    <2>4. UnlockPuts(p, <<"ip">>, "idle")
      BY <1>4 DEF UnlinkNlink
    <2>5. /\ Goes(p, "put ip", at(p), ip(p), dp(p)) /\ th'[p].op = op(p)
          /\ th' \in [Procs -> Thread] /\ Place(p)'
      BY <1>0, <2>3, <2>4, PutStep, PhasesFor, PutSequences
    <2>6. Unlinks(p)
      BY <1>4, <2>2, <2>5 DEF UnlinkNlink, Unlinks
    <2> QED
      BY <2>1, <2>5, <2>6 DEF Case, Moved
  <1> QED
    BY <1>2, <1>3, <1>4

\* sys_chdir.
LEMMA ChdirCases ==
  ASSUME Types, NEW p \in Procs, Place(p), ChdirPanics(p) \/ Chdir(p) \/ ChdirPut(p)
  PROVE  Case(p) /\ Moved(p)
  <1>0. th \in [Procs -> Thread] /\ th[p] \in Thread
    BY DEF Types
  <1>1. ASSUME th[p].pc = "chdir"
        PROVE  Phase(p) = "chdir" /\ ip(p) # 0 /\ ip(p) \in Inums /\ at(p) = 0 /\ dp(p) = 0
    BY <1>1, PlaceNow DEF AtPhases, IpPhases, DpPhases, Inum0
  <1>2. ASSUME ChdirPanics(p) PROVE Case(p) /\ Moved(p)
    <2>1. ip(p) \in Inums
      BY <1>1, <1>2 DEF ChdirPanics, At
    <2>2. Panics(p, ip(p)) /\ th' = th /\ CopiesKept
      BY <1>2, <2>1 DEF ChdirPanics, NoType, PanicNoType, Panics, CopiesKept, Types
    <2> QED
      BY <2>1, <2>2 DEF Case, Moved, Types, Place
  <1>3. ASSUME Chdir(p) PROVE Case(p) /\ Moved(p)
    <2>1. /\ th[p].pc = "chdir" /\ CopiesKept
          /\ UNCHANGED <<type, nlink, ents, ref, lk, cwd, panic, gone, strayed>>
      BY <1>3 DEF Chdir, At, Locked, Types, CopiesKept
    <2>2. CASE type[ip(p)] # "T_DIR"
      <3>1. UnlockPuts(p, <<"ip">>, "idle")
        BY <1>3, <2>2 DEF Chdir
      <3>2. <<Phase(p), PhaseFor(<<"ip">>, "idle")>> \in LookTurns
        BY <1>1, <2>1, PhasesFor DEF LookTurns
      <3>3. th[p].pc # "iput"
        BY <2>1
      <3> QED
        BY <2>1, <3>1, <3>2, <3>3, LookCase
    <2>3. CASE type[ip(p)] = "T_DIR"
      <3>1. PICK t : t = [th[p] EXCEPT !.pc = "chdir put"]
        OBVIOUS
      <3>2. th' = [th EXCEPT ![p] = t]
        BY <1>0, <1>3, <2>3, <3>1 DEF Chdir, Goto
      <3>3. /\ t \in Thread /\ t.pc = "chdir put" /\ t.at = at(p) /\ t.ip = ip(p) /\ t.dp = dp(p)
            /\ t.op = op(p)
        BY <1>0, <3>1 DEF Thread, Pcs, at, ip, dp, op
      <3>4. PhaseOf(t) = "chdir put"
        BY <3>3 DEF PhaseOf
      <3>5. PlaceOf(t)
        BY <1>1, <2>1, <3>3, <3>4 DEF PlaceOf, CallOK, AtPhases, IpPhases, DpPhases
      <3>6. /\ Goes(p, PhaseOf(t), t.at, t.ip, t.dp) /\ th'[p] = t
            /\ th' \in [Procs -> Thread] /\ Place(p)'
        BY <1>0, <3>2, <3>3, <3>5, Becomes
      <3>7. Goes(p, "chdir put", at(p), ip(p), dp(p)) /\ th'[p].op = op(p)
        BY <3>3, <3>4, <3>6
      <3>8. <<Phase(p), "chdir put">> \in LookTurns /\ "chdir put" \in Phases
        BY <1>1, <2>1 DEF LookTurns, Phases, Pcs
      <3>9. Looks(p, "chdir put")
        BY <2>1, <3>7, <3>8 DEF Looks
      <3> QED
        BY <2>1, <3>6, <3>8, <3>9 DEF Case, Moved
    <2> QED
      BY <2>2, <2>3
  <1>4. ASSUME ChdirPut(p) PROVE Case(p) /\ Moved(p)
    <2>1. th[p].pc = "chdir put" /\ iput(cwd[p]) /\ cwd[p] \in Inums
      BY <1>4 DEF ChdirPut, At, Types
    <2>2. Phase(p) = "chdir put"
      BY <2>1 DEF Phase, PhaseOf
    <2>3. th' = [th EXCEPT ![p] = Idle]
      BY <1>4 DEF ChdirPut, Return
    <2>4. /\ Goes(p, PhaseOf(Idle), Idle.at, Idle.ip, Idle.dp)
          /\ th' \in [Procs -> Thread] /\ Place(p)'
      BY <1>0, <2>3, IdleThread, Becomes
    <2>5. Goes(p, "idle", 0, 0, 0)
      BY <2>4, IdleThread DEF Idle
    <2>6. Swaps(p, cwd[p]) /\ CopiesKept
      BY <1>4, <2>1, <2>2, <2>5 DEF ChdirPut, Swaps, iput, Types, CopiesKept
    <2> QED
      BY <2>1, <2>4, <2>6 DEF Case, Moved
  <1> QED
    BY <1>2, <1>3, <1>4

\* iput.  What a process has whose next iput is the first of s.
LEMMA PutNow ==
  ASSUME Types, NEW p \in Procs, Place(p), th[p].pc = "iput"
  PROVE  /\ PutsOK(th[p]) /\ Phase(p) = PhaseFor(th[p].puts, th[p].after)
         /\ at(p) # 0 <=> Phase(p) \in AtPhases
         /\ ip(p) # 0 <=> Phase(p) \in IpPhases
         /\ dp(p) # 0 <=> Phase(p) \in DpPhases
         /\ CallOK(Phase(p), op(p), th[p].par)
         /\ at(p) \in Inum0 /\ ip(p) \in Inum0 /\ dp(p) \in Inum0
         /\ th[p].after \in Afters
  <1>1. th[p] \in Thread
    BY DEF Types
  <1>2. Phase(p) = PhaseFor(th[p].puts, th[p].after)
    BY DEF Phase, PhaseOf, PhaseFor
  <1>3. at(p) \in Inum0 /\ ip(p) \in Inum0 /\ dp(p) \in Inum0 /\ th[p].after \in Afters
    BY <1>1, ThreadFields DEF at, ip, dp
  <1> QED
    BY <1>2, <1>3 DEF Place, PlaceOf, Phase, at, ip, dp, op

LEMMA LastPutCase ==
  ASSUME Types, NEW p \in Procs, Place(p), th[p].pc = "iput", NEW i \in Inums, i = Dropped(p),
         iput(i), Return(p), Phase(p) \in {"put at", "put ip", "put dp"},
         UNCHANGED <<lk, cwd, panic, strayed>>
  PROVE  Case(p) /\ Moved(p)
  <1>1. th \in [Procs -> Thread]
    BY DEF Types
  <1>2. th' = [th EXCEPT ![p] = Idle]
    BY DEF Return
  <1>3. /\ Goes(p, PhaseOf(Idle), Idle.at, Idle.ip, Idle.dp)
        /\ th' \in [Procs -> Thread] /\ Place(p)'
    BY <1>1, <1>2, IdleThread, Becomes
  <1>4. Goes(p, "idle", 0, 0, 0)
    BY <1>3, IdleThread DEF Idle
  <1>5. /\ at(p) # 0 <=> Phase(p) = "put at"
        /\ ip(p) # 0 <=> Phase(p) = "put ip"
        /\ dp(p) # 0 <=> Phase(p) = "put dp"
    BY PutNow DEF AtPhases, IpPhases, DpPhases
  <1>6. Goes(p, "idle", IF Phase(p) = "put at" THEN 0 ELSE at(p),
                        IF Phase(p) \in {"put ip", "put back"} THEN 0 ELSE ip(p),
                        IF Phase(p) \in {"put at", "put ip", "put back"} THEN dp(p) ELSE 0)
    <2>1. /\ (IF Phase(p) = "put at" THEN 0 ELSE at(p)) = 0
          /\ (IF Phase(p) \in {"put ip", "put back"} THEN 0 ELSE ip(p)) = 0
          /\ (IF Phase(p) \in {"put at", "put ip", "put back"} THEN dp(p) ELSE 0) = 0
      BY <1>5
    <2> QED
      BY <1>4, <2>1
  <1>7. <<Phase(p), "idle">> \in DropTurns /\ "idle" \in Phases
    BY DEF DropTurns, Phases, Pcs
  <1>8. CopiesKept
    BY DEF iput, Types, CopiesKept
  <1>9. Drops(p, i, "idle")
    BY <1>6, <1>7 DEF Drops
  <1> QED
    BY <1>3, <1>7, <1>8, <1>9 DEF Case, Moved

\* More is to come after the first iput.
LEMMA FirstPutCase ==
  ASSUME Types, NEW p \in Procs, Place(p), th[p].pc = "iput", NEW i \in Inums, i = Dropped(p),
         iput(i), UNCHANGED <<cwd, panic, strayed>>,
         NEW u \in Thread, th' = [th EXCEPT ![p] = u], u.op = op(p), u.par = th[p].par,
         NEW l \in Phases, PhaseOf(u) = l, <<Phase(p), l>> \in DropTurns, l # "idle",
         u.pc = "iput" => PutsOK(u),
         u.at = at(p),
         u.ip = (IF Phase(p) = "put back" THEN 0 ELSE ip(p)),
         u.dp = (IF Phase(p) = "put back" THEN dp(p) ELSE 0),
         lk' = IF Phase(p) = "put new" THEN [lk EXCEPT ![ip(p)] = IF @ = p THEN None ELSE @]
               ELSE IF Phase(p) = "put back" THEN [lk EXCEPT ![dp(p)] = IF @ = p THEN None ELSE @]
               ELSE lk
  PROVE  Case(p) /\ Moved(p)
  <1>0. th \in [Procs -> Thread]
    BY DEF Types
  <1>1. /\ at(p) # 0 <=> Phase(p) \in AtPhases
        /\ ip(p) # 0 <=> Phase(p) \in IpPhases
        /\ dp(p) # 0 <=> Phase(p) \in DpPhases
        /\ CallOK(Phase(p), op(p), th[p].par)
    BY PutNow
  <1>2. <<Phase(p), l>> \in {<<"put walk", "namex">>, <<"put exists", "exists">>,
              <<"put new", "put ip">>, <<"put back", "put dp">>, <<"put entry", "unlink nlink">>}
    BY DEF DropTurns
  <1>3. /\ u.at # 0 <=> l \in AtPhases
        /\ u.ip # 0 <=> l \in IpPhases
        /\ u.dp # 0 <=> l \in DpPhases
    BY <1>1, <1>2 DEF AtPhases, IpPhases, DpPhases
  <1>4. CallOK(l, u.op, u.par) /\ l # "unlink entry"
    BY <1>1, <1>2 DEF CallOK
  <1>5. PlaceOf(u)
    BY <1>3, <1>4 DEF PlaceOf
  <1>6. /\ Goes(p, PhaseOf(u), u.at, u.ip, u.dp) /\ th'[p] = u
        /\ th' \in [Procs -> Thread] /\ Place(p)'
    BY <1>0, <1>5, Becomes
  <1>7. Goes(p, l, IF Phase(p) = "put at" THEN 0 ELSE at(p),
                   IF Phase(p) \in {"put ip", "put back"} THEN 0 ELSE ip(p),
                   IF Phase(p) \in {"put at", "put ip", "put back"} THEN dp(p) ELSE 0)
    <2>1. /\ u.at = (IF Phase(p) = "put at" THEN 0 ELSE at(p))
          /\ u.ip = (IF Phase(p) \in {"put ip", "put back"} THEN 0 ELSE ip(p))
          /\ u.dp = (IF Phase(p) \in {"put at", "put ip", "put back"} THEN dp(p) ELSE 0)
      BY <1>2
    <2> QED
      BY <1>6, <2>1
  <1>8. CopiesKept
    BY DEF iput, Types, CopiesKept
  <1>9. Drops(p, i, l)
    BY <1>7 DEF Drops
  <1> QED
    BY <1>6, <1>8, <1>9 DEF Case, Moved

LEMMA IputCase ==
  ASSUME Types, NEW p \in Procs, Place(p), Iput(p)
  PROVE  Case(p) /\ Moved(p)
  <1>0. /\ th \in [Procs -> Thread] /\ th[p] \in Thread /\ th[p].pc = "iput"
        /\ UNCHANGED <<cwd, panic, strayed>>
    BY DEF Types, Iput, At
  <1>1. /\ PutsOK(th[p]) /\ Phase(p) = PhaseFor(th[p].puts, th[p].after)
        /\ at(p) # 0 <=> Phase(p) \in AtPhases
        /\ ip(p) # 0 <=> Phase(p) \in IpPhases
        /\ dp(p) # 0 <=> Phase(p) \in DpPhases
        /\ at(p) \in Inum0 /\ ip(p) \in Inum0 /\ dp(p) \in Inum0
        /\ th[p].after \in Afters
    BY <1>0, PutNow
  <1>2. th[p]["at"] = at(p) /\ th[p]["ip"] = ip(p) /\ th[p]["dp"] = dp(p)
    BY <1>0 DEF Thread, at, ip, dp
  <1>3. ASSUME NEW f \in Locals, th[p].puts = <<f>>, th[p].after = "idle"
        PROVE  Case(p) /\ Moved(p)
    <2>1. Head(th[p].puts) = f /\ Tail(th[p].puts) = <<>>
      BY <1>3
    <2>2. iput(th[p][f]) /\ Return(p) /\ UNCHANGED lk
      BY <1>3, <2>1 DEF Iput
    <2>3. Phase(p) = PhaseFor(<<f>>, "idle") /\ Phase(p) \in {"put at", "put ip", "put dp"}
      BY <1>1, <1>3, PhasesFor DEF Locals
    <2>4. th[p][f] = Dropped(p)
      BY <1>2, <2>3, PhasesFor DEF Dropped, Locals
    <2>5. Dropped(p) \in Inums
      BY <1>1, <2>3 DEF Dropped, AtPhases, IpPhases, DpPhases, Inum0
    <2> QED
      BY <1>0, <2>2, <2>3, <2>4, <2>5, LastPutCase
  <1>4. ASSUME th[p].puts = <<"dp">>, th[p].after # "idle"
        PROVE  Case(p) /\ Moved(p)
    <2>1. Head(th[p].puts) = "dp" /\ Tail(th[p].puts) = <<>>
      BY <1>4
    <2>2. th[p].after \in {"namex", "exists", "unlink nlink"}
      BY <1>1, <1>4 DEF Afters
    <2>3. /\ iput(dp(p)) /\ UNCHANGED lk
          /\ th' = [th EXCEPT ![p]["dp"] = 0, ![p].puts = <<>>, ![p].pc = th[p].after]
      BY <1>2, <1>4, <2>1 DEF Iput
    <2>4. PICK u : u = [th[p] EXCEPT !.dp = 0, !.puts = <<>>, !.pc = th[p].after]
      OBVIOUS
    <2>5. th' = [th EXCEPT ![p] = u]
      BY <1>0, <2>3, <2>4 DEF Thread
    <2>6. th[p].after \in Pcs /\ 0 \in Inum0 /\ <<>> \in Seq(Locals)
      <3>1. th[p].after \in Pcs
        BY <2>2 DEF Pcs
      <3> QED
        BY <3>1 DEF Inum0
    <2>7. u \in Thread
      BY <1>0, <2>4, <2>6 DEF Thread
    <2>8. /\ u.dp = 0 /\ u.pc = th[p].after /\ u.at = at(p) /\ u.ip = ip(p) /\ u.op = op(p)
          /\ u.par = th[p].par
      BY <1>0, <2>4 DEF Thread, at, ip, op
    <2>9. Phase(p) \in {"put walk", "put exists", "put entry"} /\ PhaseOf(u) = th[p].after
      BY <1>1, <1>4, <2>2, <2>8, PhasesFor DEF PhaseOf
    <2>10. <<Phase(p), PhaseOf(u)>> \in DropTurns /\ PhaseOf(u) \in Phases /\ PhaseOf(u) # "idle"
      BY <1>1, <1>4, <2>2, <2>9, PhasesFor DEF DropTurns, Phases, Pcs
    <2>11. dp(p) = Dropped(p) /\ dp(p) \in Inums
      BY <1>1, <2>9 DEF Dropped, DpPhases, Inum0
    <2>12. /\ u.ip = (IF Phase(p) = "put back" THEN 0 ELSE ip(p))
           /\ u.dp = (IF Phase(p) = "put back" THEN dp(p) ELSE 0)
           /\ u.pc # "iput"
           /\ lk' = IF Phase(p) = "put new" THEN [lk EXCEPT ![ip(p)] = IF @ = p THEN None ELSE @]
                    ELSE IF Phase(p) = "put back"
                    THEN [lk EXCEPT ![dp(p)] = IF @ = p THEN None ELSE @] ELSE lk
      BY <2>2, <2>3, <2>8, <2>9
    <2> QED
      BY <1>0, <2>3, <2>5, <2>7, <2>8, <2>10, <2>11, <2>12, FirstPutCase
  <1>5. ASSUME NEW f \in {"ip", "dp"}, NEW g \in {"ip", "dp"}, f # g, th[p].puts = <<f, g>>
        PROVE  Case(p) /\ Moved(p)
    <2>1. Head(th[p].puts) = f /\ Tail(th[p].puts) = <<g>> /\ <<g>> # <<>> /\ Head(<<g>>) = g
      BY <1>5
    <2>2. /\ iput(th[p][f])
          /\ th' = [th EXCEPT ![p][f] = 0, ![p].puts = <<g>>]
          /\ lk' = [lk EXCEPT ![th[p][g]] = IF @ = p THEN None ELSE @]
      BY <1>5, <2>1 DEF Iput
    <2>3. /\ f = "dp" => Phase(p) = "put new"
          /\ f = "ip" => Phase(p) = "put back"
          /\ th[p].after = "idle"
      <3>1. th[p].puts # <<"dp">>
        BY <1>5
      <3>2. th[p].after = "idle"
        BY <1>1, <3>1 DEF PutsOK
      <3> QED
        BY <1>1, <1>5, <3>2, PhasesFor
    <2>4. PICK u : u = [th[p] EXCEPT ![f] = 0, !.puts = <<g>>]
      OBVIOUS
    <2>5. th' = [th EXCEPT ![p] = u]
      BY <1>0, <2>2, <2>4 DEF Thread
    <2>6. 0 \in Inum0 /\ <<g>> \in Seq(Locals)
      BY DEF Inum0, Locals
    <2>7. u = IF f = "dp" THEN [th[p] EXCEPT !.dp = 0, !.puts = <<g>>]
              ELSE [th[p] EXCEPT !.ip = 0, !.puts = <<g>>]
      BY <1>0, <2>4 DEF Thread
    <2>8. u \in Thread
      BY <1>0, <2>6, <2>7 DEF Thread
    <2>9. /\ u.pc = "iput" /\ u.at = at(p) /\ u.op = op(p) /\ u.par = th[p].par
          /\ u.puts = <<g>> /\ u.after = "idle"
          /\ u.ip = (IF f = "ip" THEN 0 ELSE ip(p))
          /\ u.dp = (IF f = "dp" THEN 0 ELSE dp(p))
      BY <1>0, <1>5, <2>3, <2>7 DEF Thread, at, ip, dp, op
    <2>10. PhaseOf(u) = IF f = "dp" THEN "put ip" ELSE "put dp"
      BY <1>5, <2>9, PutSequences DEF PhaseOf
    <2>11. <<Phase(p), PhaseOf(u)>> \in DropTurns /\ PhaseOf(u) \in Phases /\ PhaseOf(u) # "idle"
      BY <2>3, <2>10 DEF DropTurns, Phases, PutPhases
    <2>12. th[p][f] = Dropped(p) /\ th[p][f] \in Inums
      BY <1>1, <1>2, <2>3 DEF Dropped, DpPhases, IpPhases, Inum0
    <2>13. PutsOK(u)
      BY <2>9 DEF PutsOK
    <2>14. /\ u.ip = (IF Phase(p) = "put back" THEN 0 ELSE ip(p))
           /\ u.dp = (IF Phase(p) = "put back" THEN dp(p) ELSE 0)
           /\ lk' = IF Phase(p) = "put new" THEN [lk EXCEPT ![ip(p)] = IF @ = p THEN None ELSE @]
                    ELSE IF Phase(p) = "put back"
                    THEN [lk EXCEPT ![dp(p)] = IF @ = p THEN None ELSE @] ELSE lk
      BY <1>2, <1>5, <2>2, <2>3, <2>9
    <2> QED
      BY <1>0, <2>2, <2>5, <2>8, <2>9, <2>11, <2>12, <2>13, <2>14, FirstPutCase
  <1>6. \/ \E f \in Locals : th[p].puts = <<f>> /\ th[p].after = "idle"
        \/ th[p].puts = <<"dp">> /\ th[p].after # "idle"
        \/ th[p].puts = <<"dp", "ip">> \/ th[p].puts = <<"ip", "dp">>
    BY <1>1 DEF PutsOK, Locals
  <1>7. ASSUME th[p].puts = <<"dp", "ip">> \/ th[p].puts = <<"ip", "dp">>
        PROVE  Case(p) /\ Moved(p)
    BY <1>5, <1>7
  <1> QED
    BY <1>3, <1>4, <1>6, <1>7

\* Every step is one of the cases.
LEMMA NextCases ==
  ASSUME Types, Places, Next
  PROVE  \E p \in Procs : Case(p) /\ Moved(p)
  <1>1. PICK p \in Procs : SysCall(p) \/ Step(p)
    BY DEF Next
  <1>2. Place(p)
    BY DEF Places
  <1>3. ASSUME SysCall(p) PROVE Case(p) /\ Moved(p)
    <2>1. PICK path \in Paths : \/ Begin(p, "mkdir", path, TRUE) \/ Begin(p, "mknod", path, TRUE)
                                \/ Begin(p, "unlink", path, TRUE) \/ Begin(p, "chdir", path, FALSE)
      BY <1>3 DEF SysCall, sys_mkdir, sys_mknod, sys_unlink, sys_chdir
    <2>2. /\ "mkdir" \in Calls /\ "mknod" \in Calls /\ "unlink" \in Calls /\ "chdir" \in Calls
      BY DEF Calls
    <2> QED
      BY <1>2, <2>1, <2>2, BeginCase
  <1> QED
    BY <1>1, <1>2, <1>3, IputCase, WalkCases, CreateCases, MakeCases, UnlinkCases, ClearCases,
       ChdirCases DEF Step

-----------------------------------------------------------------------------
(* Reference counts.                                                       *)

\* The pointers to i of one process, and of all processes in P.
PointersOf(t, c, i) == Bit(c = i) + Bit(t.at = i) + Bit(t.ip = i) + Bit(t.dp = i)
Homes(P, C, i) == {p \in P : C[p] = i}
Fields(t, i) == {f \in Locals : t[f] = i}
Uses(P, T, i) == {x \in P \X Locals : T[x[1]][x[2]] = i}
PointersIn(P, T, C, i) == Cardinality(Homes(P, C, i)) + Cardinality(Uses(P, T, i))

LEMMA BitType == \A b : Bit(b) \in {0, 1} /\ (b => Bit(b) = 1)
  BY DEF Bit

LEMMA RowCount ==
  ASSUME NEW t \in Thread, NEW i
  PROVE  Cardinality(Fields(t, i)) = Bit(t.at = i) + Bit(t.ip = i) + Bit(t.dp = i)
  <1> DEFINE S1 == {f \in {"at"} : t[f] = i}
             S2 == {f \in {"at", "ip"} : t[f] = i}
             S3 == Fields(t, i)
  <1>0. t["at"] = t.at /\ t["ip"] = t.ip /\ t["dp"] = t.dp
    BY DEF Thread
  <1>1. IsFiniteSet({}) /\ Cardinality({}) = 0
    BY FS_EmptySet
  <1>2. IsFiniteSet(S1) /\ Cardinality(S1) = 0 - Bit("at" \in {}) + Bit("at" \in S1)
    <2>1. \A y : y # "at" => (y \in {} <=> y \in S1)
      OBVIOUS
    <2> HIDE DEF S1
    <2> QED
      BY <1>1, <2>1, CountChange
  <1>3. IsFiniteSet(S2) /\ Cardinality(S2) = Cardinality(S1) - Bit("ip" \in S1) + Bit("ip" \in S2)
    <2>1. \A y : y # "ip" => (y \in S1 <=> y \in S2)
      OBVIOUS
    <2> HIDE DEF S1, S2
    <2> QED
      BY <1>2, <2>1, CountChange
  <1>4. IsFiniteSet(S3) /\ Cardinality(S3) = Cardinality(S2) - Bit("dp" \in S2) + Bit("dp" \in S3)
    <2>1. \A y : y # "dp" => (y \in S2 <=> y \in S3)
      BY DEF Locals, Fields
    <2> HIDE DEF S2, S3
    <2> QED
      BY <1>3, <2>1, CountChange
  <1>5. /\ "at" \in S1 <=> t.at = i
        /\ "ip" \in S2 <=> t.ip = i
        /\ "dp" \in S3 <=> t.dp = i
        /\ "at" \notin {} /\ "ip" \notin S1 /\ "dp" \notin S2
    BY <1>0 DEF Locals, Fields
  <1> HIDE DEF S1, S2, S3
  <1>6. /\ Bit("at" \in S1) = Bit(t.at = i) /\ Bit("ip" \in S2) = Bit(t.ip = i)
        /\ Bit("dp" \in S3) = Bit(t.dp = i)
        /\ Bit("at" \in {}) = 0 /\ Bit("ip" \in S1) = 0 /\ Bit("dp" \in S2) = 0
    BY <1>5 DEF Bit
  <1>7. Cardinality(S3) = Bit(t.at = i) + Bit(t.ip = i) + Bit(t.dp = i)
    BY <1>2, <1>3, <1>4, <1>6, BitType
  <1> QED
    BY <1>7 DEF S3

LEMMA SplitPointers ==
  ASSUME NEW P, IsFiniteSet(P), NEW T \in [Procs -> Thread], NEW C \in [Procs -> Inums],
         P \subseteq Procs, NEW p \in P, NEW i
  PROVE  /\ PointersIn(P, T, C, i) = PointersOf(T[p], C[p], i) + PointersIn(P \ {p}, T, C, i)
         /\ PointersIn(P \ {p}, T, C, i) \in Nat /\ PointersOf(T[p], C[p], i) \in Nat
  <1> DEFINE CwdP == Homes(P, C, i)
             CwdR == Homes(P \ {p}, C, i)
             A == Uses(P, T, i)
             Rest == Uses(P \ {p}, T, i)
             R == Fields(T[p], i)
  <1>1. IsFiniteSet(CwdP)
    BY FS_Subset DEF Homes
  <1>2. /\ IsFiniteSet(CwdR) /\ Cardinality(CwdP) \in Nat /\ Cardinality(CwdR) \in Nat
        /\ Cardinality(CwdR) = Cardinality(CwdP) - Bit(p \in CwdP) + Bit(p \in CwdR)
    <2>1. \A y : y # p => (y \in CwdP <=> y \in CwdR)
      BY DEF Homes
    <2> HIDE DEF CwdP, CwdR
    <2> QED
      BY <1>1, <2>1, CountChange
  <1>3. Bit(p \in CwdP) = Bit(C[p] = i) /\ Bit(p \in CwdR) = 0
    BY DEF Bit, Homes
  <1>4. /\ Cardinality(R) \in Nat /\ Cardinality(Rest) \in Nat
        /\ Cardinality(A) = Cardinality(Rest) + Cardinality(R)
    <2>1. IsFiniteSet(Locals)
      <3>1. IsFiniteSet({"at"}) /\ IsFiniteSet({"at"} \cup {"ip"})
        BY FS_Singleton, FS_AddElement
      <3>2. IsFiniteSet(({"at"} \cup {"ip"}) \cup {"dp"})
        BY <3>1, FS_AddElement
      <3>3. Locals = ({"at"} \cup {"ip"}) \cup {"dp"}
        BY DEF Locals
      <3> QED
        BY <3>2, <3>3
    <2>2. Fields(T[p], i) = {f \in Locals : <<p, f>> \in Uses(P, T, i)}
      BY DEF Fields, Uses
    <2>3. Uses(P \ {p}, T, i) = {x \in Uses(P, T, i) : x[1] # p}
      BY DEF Uses
    <2>4. Uses(P, T, i) \subseteq P \X Locals
      BY DEF Uses
    <2>5. /\ Cardinality({x \in Uses(P, T, i) : x[1] # p}) \in Nat
          /\ Cardinality(Fields(T[p], i)) \in Nat
          /\ Cardinality(Uses(P, T, i)) = Cardinality({x \in Uses(P, T, i) : x[1] # p})
                                          + Cardinality(Fields(T[p], i))
      BY <2>1, <2>2, <2>4, CountRow
    <2> QED
      BY <2>3, <2>5
  <1>5. Cardinality(R) = Bit(T[p].at = i) + Bit(T[p].ip = i) + Bit(T[p].dp = i)
    <2>1. T[p] \in Thread
      OBVIOUS
    <2> QED
      BY <2>1, RowCount
  <1> HIDE DEF CwdP, CwdR, A, Rest, R
  <1>6. Cardinality(CwdP) + Cardinality(A)
          = Bit(C[p] = i) + Bit(T[p].at = i) + Bit(T[p].ip = i) + Bit(T[p].dp = i)
            + (Cardinality(CwdR) + Cardinality(Rest))
    BY <1>2, <1>3, <1>4, <1>5, BitType
  <1>7. Cardinality(CwdR) + Cardinality(Rest) \in Nat
    BY <1>2, <1>4
  <1>8. PointersOf(T[p], C[p], i) \in Nat
    BY BitType DEF PointersOf
  <1> QED
    BY <1>6, <1>7, <1>8 DEF PointersIn, PointersOf, CwdP, CwdR, A, Rest

LEMMA AllPointers ==
  ASSUME NEW T \in [Procs -> Thread], NEW C \in [Procs -> Inums], NEW p \in Procs, NEW i
  PROVE  /\ PointersIn(Procs, T, C, i)
              = PointersOf(T[p], C[p], i) + PointersIn(Procs \ {p}, T, C, i)
         /\ PointersIn(Procs \ {p}, T, C, i) \in Nat /\ PointersOf(T[p], C[p], i) \in Nat
  <1>1. IsFiniteSet(Procs)
    BY DirsAssumption
  <1>2. Procs \subseteq Procs
    OBVIOUS
  <1> QED
    BY <1>1, <1>2, SplitPointers

\* RefCounts, as PointersIn says it.
LEMMA RefMeans == RefCounts <=> \A i \in Inums : ref[i] = PointersIn(Procs, th, cwd, i)
  BY DEF RefCounts, PointersIn, Homes, Uses

\* When nobody else has a pointer to an inode: then all are those of p.
LEMMA Alone ==
  ASSUME Types, RefCounts, NEW p \in Procs, NEW i \in Inums
  PROVE  /\ ref[i] >= PointersOf(th[p], cwd[p], i)
         /\ \A q \in Procs \ {p} :
               ref[i] >= PointersOf(th[p], cwd[p], i) + PointersOf(th[q], cwd[q], i)
  <1>1. th \in [Procs -> Thread] /\ cwd \in [Procs -> Inums] /\ IsFiniteSet(Procs)
    BY DirsAssumption DEF Types
  <1>2. /\ ref[i] = PointersOf(th[p], cwd[p], i) + PointersIn(Procs \ {p}, th, cwd, i)
        /\ PointersIn(Procs \ {p}, th, cwd, i) \in Nat /\ PointersOf(th[p], cwd[p], i) \in Nat
    <2>1. ref[i] = PointersIn(Procs, th, cwd, i)
      BY RefMeans
    <2> QED
      BY <1>1, <2>1, AllPointers
  <1>3. ASSUME NEW q \in Procs \ {p}
        PROVE  ref[i] >= PointersOf(th[p], cwd[p], i) + PointersOf(th[q], cwd[q], i)
    <2>1. IsFiniteSet(Procs \ {p})
      BY <1>1, FS_Subset
    <2>2. /\ PointersIn(Procs \ {p}, th, cwd, i)
               = PointersOf(th[q], cwd[q], i) + PointersIn((Procs \ {p}) \ {q}, th, cwd, i)
          /\ PointersIn((Procs \ {p}) \ {q}, th, cwd, i) \in Nat
          /\ PointersOf(th[q], cwd[q], i) \in Nat
      <3>1. q \in Procs \ {p} /\ Procs \ {p} \subseteq Procs
        OBVIOUS
      <3> QED
        BY <1>1, <2>1, <3>1, SplitPointers
    <2> QED
      BY <1>2, <2>2
  <1>4. ref[i] >= PointersOf(th[p], cwd[p], i)
    BY <1>2
  <1> QED
    BY <1>3, <1>4

\* The counts stay right when each changes as the pointers of p do.
LEMMA RefStep ==
  ASSUME Types, RefCounts, NEW p \in Procs, th' \in [Procs -> Thread], cwd' \in [Procs -> Inums],
         \A q \in Procs \ {p} : th'[q] = th[q] /\ cwd'[q] = cwd[q],
         \A i \in Inums : ref'[i] + PointersOf(th[p], cwd[p], i)
                            = ref[i] + PointersOf(th'[p], cwd'[p], i),
         \A i \in Inums : ref'[i] \in Int
  PROVE  RefCounts'
  <1>1. /\ th \in [Procs -> Thread] /\ cwd \in [Procs -> Inums] /\ IsFiniteSet(Procs)
        /\ ref \in [Inums -> Nat]
    BY DirsAssumption DEF Types
  <1>2. ASSUME NEW i \in Inums PROVE ref'[i] = PointersIn(Procs, th', cwd', i)
    <2>1. /\ ref[i] = PointersOf(th[p], cwd[p], i) + PointersIn(Procs \ {p}, th, cwd, i)
          /\ PointersIn(Procs \ {p}, th, cwd, i) \in Nat /\ PointersOf(th[p], cwd[p], i) \in Nat
      <3>1. ref[i] = PointersIn(Procs, th, cwd, i)
        BY RefMeans
      <3>2. /\ PointersIn(Procs, th, cwd, i)
                 = PointersOf(th[p], cwd[p], i) + PointersIn(Procs \ {p}, th, cwd, i)
            /\ PointersIn(Procs \ {p}, th, cwd, i) \in Nat
            /\ PointersOf(th[p], cwd[p], i) \in Nat
        BY <1>1, AllPointers
      <3> QED
        BY <3>1, <3>2
    <2>2. /\ PointersIn(Procs, th', cwd', i)
               = PointersOf(th'[p], cwd'[p], i) + PointersIn(Procs \ {p}, th', cwd', i)
          /\ PointersIn(Procs \ {p}, th', cwd', i) \in Nat /\ PointersOf(th'[p], cwd'[p], i) \in Nat
      BY <1>1, AllPointers
    <2>3. PointersIn(Procs \ {p}, th', cwd', i) = PointersIn(Procs \ {p}, th, cwd, i)
      <3>1. {q \in Procs \ {p} : cwd'[q] = i} = {q \in Procs \ {p} : cwd[q] = i}
        OBVIOUS
      <3>2. \A x \in (Procs \ {p}) \X Locals : th'[x[1]] = th[x[1]]
        OBVIOUS
      <3>3. {x \in (Procs \ {p}) \X Locals : th'[x[1]][x[2]] = i}
              = {x \in (Procs \ {p}) \X Locals : th[x[1]][x[2]] = i}
        BY <3>2
      <3> QED
        BY <3>1, <3>3 DEF PointersIn, Homes, Uses
    <2>4. ref[i] \in Nat /\ ref'[i] \in Int
      BY <1>1
    <2>5. ref'[i] + PointersOf(th[p], cwd[p], i) = ref[i] + PointersOf(th'[p], cwd'[p], i)
      OBVIOUS
    <2> QED
      BY <2>1, <2>2, <2>3, <2>4, <2>5
  <1> QED
    BY <1>2 DEF RefCounts, PointersIn, Homes, Uses

\* Where a process is says what its locals are.
LEMMA Whereabouts ==
  ASSUME Types, Places, NEW p \in Procs
  PROVE  /\ at(p) \in Inum0 /\ (at(p) # 0 <=> Phase(p) \in AtPhases)
         /\ ip(p) \in Inum0 /\ (ip(p) # 0 <=> Phase(p) \in IpPhases)
         /\ dp(p) \in Inum0 /\ (dp(p) # 0 <=> Phase(p) \in DpPhases)
         /\ CallOK(Phase(p), op(p), th[p].par) /\ op(p) \in Calls \cup {"none"}
         /\ th[p].name \in Elems /\ (Phase(p) = "unlink entry" => th[p].name \in Names)
         /\ th[p] \in Thread /\ cwd[p] \in Inums
  <1>1. th[p] \in Thread /\ cwd[p] \in Inums /\ Place(p)
    BY DEF Types, Places
  <1>2. /\ at(p) \in Inum0 /\ ip(p) \in Inum0 /\ dp(p) \in Inum0 /\ th[p].name \in Elems
        /\ op(p) \in Calls \cup {"none"}
    BY <1>1, ThreadFields DEF at, ip, dp, op
  <1> QED
    BY <1>1, <1>2 DEF Place, PlaceOf, Phase, at, ip, dp, op

LEMMA NotZero ==
  ASSUME NEW i \in Inum0, i # 0
  PROVE  i \in Inums
  BY DEF Inum0

\* A pointer to an inode is counted.
LEMMA PointerCounted ==
  ASSUME Types, RefCounts, NEW p \in Procs, NEW i \in Inums, Points(p, i)
  PROVE  /\ ref[i] >= 1 /\ ref[i] \in Nat
         /\ ref[i] = 1 => \A q \in Procs \ {p} : ~Points(q, i)
  <1>1. ref[i] \in Nat
    BY DEF Types
  <1>2. /\ ref[i] >= PointersOf(th[p], cwd[p], i)
        /\ \A q \in Procs \ {p} :
              ref[i] >= PointersOf(th[p], cwd[p], i) + PointersOf(th[q], cwd[q], i)
    BY Alone
  <1>3. ASSUME NEW q \in Procs, Points(q, i)
        PROVE  PointersOf(th[q], cwd[q], i) >= 1
    <2>1. /\ Bit(cwd[q] = i) = 1 \/ Bit(th[q].at = i) = 1
             \/ Bit(th[q].ip = i) = 1 \/ Bit(th[q].dp = i) = 1
      BY <1>3, BitType DEF Points, at, ip, dp
    <2> QED
      BY <2>1, BitType DEF PointersOf
  <1>4. \A q \in Procs : PointersOf(th[q], cwd[q], i) \in Nat
    BY BitType DEF PointersOf
  <1>5. PointersOf(th[p], cwd[p], i) >= 1
    BY <1>3
  <1>6. ASSUME ref[i] = 1, NEW q \in Procs \ {p}, Points(q, i) PROVE FALSE
    <2>1. PointersOf(th[q], cwd[q], i) >= 1
      BY <1>3, <1>6
    <2>2. ref[i] >= PointersOf(th[p], cwd[p], i) + PointersOf(th[q], cwd[q], i)
      BY <1>2, <1>6
    <2> QED
      BY <1>1, <1>4, <1>5, <1>6, <2>1, <2>2
  <1> QED
    BY <1>1, <1>2, <1>4, <1>5, <1>6

\* Other processes stand still.
LEMMA OthersStay ==
  ASSUME Types, NEW p \in Procs, Case(p)
  PROVE  \A q \in Procs \ {p} : th'[q] = th[q] /\ cwd'[q] = cwd[q]
  <1>1. cwd \in [Procs -> Inums]
    BY DEF Types
  <1>2. CASE \E l \in Phases : Looks(p, l) \/ Stops(p, l)
    BY <1>2 DEF Looks, Stops, Goes
  <1>3. CASE Ends(p)
    BY <1>3 DEF Ends, Goes
  <1>4. CASE \E i \in Inums : Begins(p, i) \/ Swaps(p, i) \/ Allocs(p, i) \/ Panics(p, i)
    BY <1>1, <1>4 DEF Begins, Swaps, Allocs, Panics, Goes
  <1>5. CASE \E i \in Inums, n \in Elems : Descends(p, n, i) \/ Finds(p, n, i) \/ Targets(p, n, i)
    BY <1>5 DEF Descends, Finds, Targets, Goes
  <1>6. CASE \E i \in Inums, l \in Phases : Drops(p, i, l)
    BY <1>6 DEF Drops, Goes
  <1>7. CASE Enters(p) \/ GivesUp(p) \/ Clears(p) \/ Unlinks(p)
    BY <1>7 DEF Enters, GivesUp, Clears, Unlinks, Goes
  <1> QED
    BY <1>2, <1>3, <1>4, <1>5, <1>6, <1>7 DEF Case

LEMMA PlacesStep ==
  ASSUME Types, Places, NEW p \in Procs, Case(p), Moved(p)
  PROVE  Places'
  <1>1. ASSUME NEW q \in Procs \ {p} PROVE Place(q)'
    <2>1. th'[q] = th[q] /\ Place(q)
      BY OthersStay DEF Places
    <2> QED
      BY <2>1 DEF Place
  <1> QED
    BY <1>1 DEF Places, Moved

\* What iput puts is one of the pointers of the process.
LEMMA PutIsPointer ==
  ASSUME Types, Places, NEW p \in Procs, NEW i \in Inums,
         Swaps(p, i) \/ \E l \in Phases : Drops(p, i, l)
  PROVE  Points(p, i)
  BY DEF Swaps, Drops, Dropped, Points

LEMMA PutTypes ==
  ASSUME Types, Places, RefCounts, NEW p \in Procs, NEW i \in Inums,
         Swaps(p, i) \/ \E l \in Phases : Drops(p, i, l)
  PROVE  /\ type' \in [Inums -> {"free", "T_DIR", "T_DEVICE"}]
         /\ nlink' \in [Inums -> Int] /\ ref' \in [Inums -> Nat]
         /\ ents' \in [Inums -> [Elems -> Inum0]] /\ gone' \subseteq Inums
  <1>1. iput(i) /\ ref \in [Inums -> Nat] /\ ref[i] >= 1
    BY PutIsPointer, PointerCounted DEF Swaps, Drops, Types
  <1>2. NoEntries \in [Elems -> Inum0]
    BY DEF NoEntries, Inum0
  <1>3. ref' \in [Inums -> Nat]
    BY <1>1 DEF iput
  <1>4. ents' \in [Inums -> [Elems -> Inum0]]
    BY <1>1, <1>2 DEF iput, Types
  <1>5. gone' \subseteq Inums
    BY <1>1 DEF iput, Types
  <1>6. type' \in [Inums -> {"free", "T_DIR", "T_DEVICE"}] /\ nlink' \in [Inums -> Int]
    BY <1>1 DEF iput, Types
  <1> QED
    BY <1>3, <1>4, <1>5, <1>6

LEMMA TypesStep ==
  ASSUME Types, Places, RefCounts, NEW p \in Procs, Case(p), Moved(p)
  PROVE  Types'
  <1>0. valid' \in [Inums -> BOOLEAN] /\ th' \in [Procs -> Thread]
    BY DEF Moved, CopiesKept
  <1>1. /\ ref \in [Inums -> Nat] /\ lk \in [Inums -> Procs \cup {None}]
        /\ cwd \in [Procs -> Inums] /\ nlink \in [Inums -> Int]
        /\ ents \in [Inums -> [Elems -> Inum0]] /\ strayed \in BOOLEAN
        /\ type \in [Inums -> {"free", "T_DIR", "T_DEVICE"}] /\ gone \subseteq Inums
    BY DEF Types
  <1>2. CASE \E l \in Phases : Looks(p, l) \/ Stops(p, l)
    BY <1>0, <1>1, <1>2 DEF Looks, Stops, Types
  <1>3. CASE Ends(p)
    BY <1>0, <1>1, <1>3 DEF Ends, Types
  <1>4. ASSUME NEW i \in Inums, Begins(p, i) PROVE Types'
    BY <1>0, <1>1, <1>4 DEF Begins, Gets, Types
  <1>5. ASSUME NEW i \in Inums, Swaps(p, i) PROVE Types'
    <2>1. ip(p) \in Inums
      BY <1>5, Whereabouts, NotZero DEF Swaps, IpPhases
    <2>2. cwd' \in [Procs -> Inums]
      BY <1>1, <1>5, <2>1 DEF Swaps
    <2> QED
      BY <1>0, <1>1, <1>5, <2>2, PutTypes DEF Swaps, Types
  <1>6. ASSUME NEW i \in Inums, Allocs(p, i) PROVE Types'
    <2>1. type' \in [Inums -> {"free", "T_DIR", "T_DEVICE"}]
      BY <1>1, <1>6 DEF Allocs
    <2>2. nlink' \in [Inums -> Int]
      BY <1>1, <1>6 DEF Allocs
    <2>3. lk' \in [Inums -> Procs \cup {None}]
      BY <1>1, <1>6 DEF Allocs
    <2>4. ref' \in [Inums -> Nat]
      BY <1>1, <1>6 DEF Allocs, Gets
    <2> QED
      BY <1>0, <1>1, <1>6, <2>1, <2>2, <2>3, <2>4 DEF Allocs, Types
  <1>7. ASSUME NEW i \in Inums, Panics(p, i) PROVE Types'
    BY <1>0, <1>1, <1>7 DEF Panics, Types
  <1>8. ASSUME NEW i \in Inums, NEW n \in Elems,
               Descends(p, n, i) \/ Finds(p, n, i) \/ Targets(p, n, i)
        PROVE  Types'
    <2>1. strayed' \in BOOLEAN
      BY <1>1, <1>8 DEF Descends, Finds, Targets, Strays
    <2>2. lk' \in [Inums -> Procs \cup {None}]
      BY <1>1, <1>8 DEF Descends, Finds, Targets
    <2>3. ref' \in [Inums -> Nat]
      <3>1. ref' = [ref EXCEPT ![i] = @ + 1]
        BY <1>8 DEF Descends, Finds, Targets, Gets
      <3> QED
        BY <1>1, <3>1
    <2>4. UNCHANGED <<type, nlink, ents, cwd, gone>>
      BY <1>8 DEF Descends, Finds, Targets
    <2> QED
      BY <1>0, <1>1, <2>1, <2>2, <2>3, <2>4 DEF Types
  <1>9. ASSUME NEW i \in Inums, NEW l \in Phases, Drops(p, i, l) PROVE Types'
    <2>1. lk' \in [Inums -> Procs \cup {None}]
      BY <1>1, <1>9 DEF Drops
    <2> QED
      BY <1>0, <1>1, <1>9, <2>1, PutTypes DEF Drops, Types
  <1>10. ASSUME Enters(p) PROVE Types'
    <2>1. ip(p) \in Inums /\ dp(p) \in Inums /\ th[p].name \in Elems
      BY <1>10, Whereabouts, NotZero DEF Enters, IpPhases, DpPhases
    <2>2. WithDots(ip(p), dp(p)) \in [Elems -> Inum0]
      BY <1>1, <2>1 DEF WithDots, Inum0
    <2>3. ents' \in [Inums -> [Elems -> Inum0]]
      BY <1>1, <1>10, <2>1, <2>2 DEF Enters, Inum0
    <2>4. lk' \in [Inums -> Procs \cup {None}]
      BY <1>1, <1>10 DEF Enters
    <2>5. nlink' \in [Inums -> Int]
      <3>1. PICK k : k = IF op(p) = "mkdir" THEN nlink[dp(p)] + 1 ELSE nlink[dp(p)]
        OBVIOUS
      <3>2. nlink' = [nlink EXCEPT ![ip(p)] = 1, ![dp(p)] = k]
        BY <1>10, <3>1 DEF Enters
      <3>3. k \in Int
        BY <1>1, <2>1, <3>1
      <3>4. PICK one : one = 1
        OBVIOUS
      <3>5. one \in Int
        BY <3>4
      <3>6. nlink' = [nlink EXCEPT ![ip(p)] = one, ![dp(p)] = k]
        BY <3>2, <3>4
      <3> QED
        BY <1>1, <3>3, <3>5, <3>6
    <2> QED
      BY <1>0, <1>1, <1>10, <2>3, <2>4, <2>5 DEF Enters, Types
  <1>11. ASSUME GivesUp(p) PROVE Types'
    <2>0. ip(p) \in Inums
      BY <1>11, Whereabouts, NotZero DEF GivesUp, IpPhases
    <2>1. nlink' \in [Inums -> Int]
      <3>1. nlink' = [nlink EXCEPT ![ip(p)] = 0]
        BY <1>11 DEF GivesUp
      <3>2. PICK zero : zero = 0
        OBVIOUS
      <3>3. zero \in Int
        BY <3>2
      <3>4. nlink' = [nlink EXCEPT ![ip(p)] = zero]
        BY <3>1, <3>2
      <3> QED
        BY <1>1, <3>3, <3>4
    <2> QED
      BY <1>0, <1>1, <1>11, <2>1 DEF GivesUp, Types
  <1>12. ASSUME Clears(p) PROVE Types'
    <2>0. dp(p) \in Inums
      BY <1>12, Whereabouts, NotZero DEF Clears, DpPhases
    <2>1. nlink' \in [Inums -> Int]
      <3>1. nlink' = [nlink EXCEPT ![dp(p)] = IF type[ip(p)] = "T_DIR" THEN @ - 1 ELSE @]
        BY <1>12 DEF Clears
      <3>2. nlink[dp(p)] \in Int /\ nlink[dp(p)] - 1 \in Int
        BY <1>1, <2>0
      <3> QED
        BY <1>1, <3>1, <3>2
    <2>2. lk' \in [Inums -> Procs \cup {None}]
      BY <1>1, <1>12 DEF Clears
    <2>3. ents' \in [Inums -> [Elems -> Inum0]]
      BY <1>1, <1>12 DEF Clears, Inum0
    <2> QED
      BY <1>0, <1>1, <1>12, <2>1, <2>2, <2>3 DEF Clears, Types
  <1>13. ASSUME Unlinks(p) PROVE Types'
    <2>0. ip(p) \in Inums
      BY <1>13, Whereabouts, NotZero DEF Unlinks, IpPhases
    <2>1. nlink' \in [Inums -> Int]
      <3>1. nlink' = [nlink EXCEPT ![ip(p)] = @ - 1]
        BY <1>13 DEF Unlinks
      <3>2. nlink[ip(p)] \in Int /\ nlink[ip(p)] - 1 \in Int
        BY <1>1, <2>0
      <3> QED
        BY <1>1, <3>1, <3>2
    <2>2. lk' \in [Inums -> Procs \cup {None}]
      BY <1>1, <1>13 DEF Unlinks
    <2> QED
      BY <1>0, <1>1, <1>13, <2>1, <2>2 DEF Unlinks, Types
  <1> QED
    BY <1>2, <1>3, <1>4, <1>5, <1>6, <1>7, <1>8, <1>9, <1>10, <1>11, <1>12, <1>13 DEF Case

\* The step takes the locals of p to a, i and d, and its current directory to c.
LEMMA RefTurn ==
  ASSUME Types, RefCounts, NEW p \in Procs, Types', Case(p),
         NEW a, NEW i, NEW d, NEW c,
         th'[p].at = a, th'[p].ip = i, th'[p].dp = d, cwd'[p] = c,
         \A j \in Inums :
            ref'[j] + (Bit(cwd[p] = j) + Bit(at(p) = j) + Bit(ip(p) = j) + Bit(dp(p) = j))
              = ref[j] + (Bit(c = j) + Bit(a = j) + Bit(i = j) + Bit(d = j))
  PROVE  RefCounts'
  <1>1. /\ th' \in [Procs -> Thread] /\ cwd' \in [Procs -> Inums]
        /\ \A j \in Inums : ref'[j] \in Int
    BY DEF Types
  <1>2. \A j : PointersOf(th'[p], cwd'[p], j)
                 = Bit(c = j) + Bit(a = j) + Bit(i = j) + Bit(d = j)
    BY DEF PointersOf
  <1>3. \A j : PointersOf(th[p], cwd[p], j)
                 = Bit(cwd[p] = j) + Bit(at(p) = j) + Bit(ip(p) = j) + Bit(dp(p) = j)
    BY DEF PointersOf, at, ip, dp
  <1>4. \A j \in Inums : ref'[j] + PointersOf(th[p], cwd[p], j)
                           = ref[j] + PointersOf(th'[p], cwd'[p], j)
    BY <1>2, <1>3
  <1>5. \A q \in Procs \ {p} : th'[q] = th[q] /\ cwd'[q] = cwd[q]
    BY OthersStay
  <1> QED
    BY <1>1, <1>4, <1>5, RefStep

LEMMA ZeroIsNoInode == \A j \in Inums : Bit(0 = j) = 0
  BY InumsAboveZero DEF Bit

\* The effect of one more and of one less reference.
LEMMA GetsEffect ==
  ASSUME Types, NEW i \in Inums, Gets(i)
  PROVE  \A j \in Inums : ref'[j] = ref[j] + Bit(i = j) /\ ref[j] \in Nat
  BY DEF Gets, Types, Bit

LEMMA PutEffect ==
  ASSUME Types, NEW i \in Inums, iput(i)
  PROVE  \A j \in Inums : ref'[j] = ref[j] - Bit(i = j) /\ ref[j] \in Nat
  BY DEF iput, Types, Bit

LEMMA RefCountsStep ==
  ASSUME Types, Places, RefCounts, NEW p \in Procs, Case(p), Moved(p)
  PROVE  RefCounts'
  <1>1. Types'
    BY TypesStep
  <1>2. /\ at(p) # 0 <=> Phase(p) \in AtPhases
        /\ ip(p) # 0 <=> Phase(p) \in IpPhases
        /\ dp(p) # 0 <=> Phase(p) \in DpPhases
    BY Whereabouts
  <1>3. \A j \in Inums : ref[j] \in Nat
    BY DEF Types
  <1>4. /\ cwd \in [Procs -> Inums] /\ Bit(0 = 0) = 1
        /\ \A b : Bit(b) \in Nat
    BY BitType DEF Types, Bit
  <1>5. ASSUME NEW l \in Phases, Looks(p, l) PROVE RefCounts'
    <2>1. /\ th'[p].at = at(p) /\ th'[p].ip = ip(p) /\ th'[p].dp = dp(p) /\ cwd'[p] = cwd[p]
          /\ ref' = ref
      BY <1>5 DEF Looks, Goes
    <2> QED
      BY <1>1, <2>1, RefTurn
  <1>6. ASSUME NEW l \in Phases, Stops(p, l) PROVE RefCounts'
    <2>1. /\ th'[p].at = 0 /\ th'[p].ip = 0 /\ th'[p].dp = at(p) /\ cwd'[p] = cwd[p]
          /\ ref' = ref /\ ip(p) = 0 /\ dp(p) = 0
      BY <1>2, <1>6 DEF Stops, Goes, IpPhases, DpPhases
    <2>2. \A j \in Inums :
            ref'[j] + (Bit(cwd[p] = j) + Bit(at(p) = j) + Bit(ip(p) = j) + Bit(dp(p) = j))
              = ref[j] + (Bit(cwd[p] = j) + Bit(0 = j) + Bit(0 = j) + Bit(at(p) = j))
      BY <1>3, <1>4, <2>1
    <2> QED
      BY <1>1, <2>1, <2>2, RefTurn
  <1>7. ASSUME Ends(p) PROVE RefCounts'
    <2>1. /\ th'[p].at = 0 /\ th'[p].ip = at(p) /\ th'[p].dp = 0 /\ cwd'[p] = cwd[p]
          /\ ref' = ref /\ ip(p) = 0 /\ dp(p) = 0
      BY <1>2, <1>7 DEF Ends, Goes, IpPhases, DpPhases
    <2>2. \A j \in Inums :
            ref'[j] + (Bit(cwd[p] = j) + Bit(at(p) = j) + Bit(ip(p) = j) + Bit(dp(p) = j))
              = ref[j] + (Bit(cwd[p] = j) + Bit(0 = j) + Bit(at(p) = j) + Bit(0 = j))
      BY <1>3, <1>4, <2>1
    <2> QED
      BY <1>1, <2>1, <2>2, RefTurn
  <1>8. ASSUME NEW i \in Inums, Begins(p, i) PROVE RefCounts'
    <2>1. /\ th'[p].at = i /\ th'[p].ip = 0 /\ th'[p].dp = 0 /\ cwd'[p] = cwd[p]
          /\ at(p) = 0 /\ ip(p) = 0 /\ dp(p) = 0
      BY <1>2, <1>8 DEF Begins, Goes, AtPhases, IpPhases, DpPhases
    <2>2. \A j \in Inums : ref'[j] = ref[j] + Bit(i = j)
      BY <1>8, GetsEffect DEF Begins
    <2>3. \A j \in Inums :
            ref'[j] + (Bit(cwd[p] = j) + Bit(at(p) = j) + Bit(ip(p) = j) + Bit(dp(p) = j))
              = ref[j] + (Bit(cwd[p] = j) + Bit(i = j) + Bit(0 = j) + Bit(0 = j))
      BY <1>3, <1>4, <2>1, <2>2, ZeroIsNoInode
    <2> QED
      BY <1>1, <2>1, <2>3, RefTurn
  <1>9. ASSUME NEW i \in Inums, Swaps(p, i) PROVE RefCounts'
    <2>1. /\ th'[p].at = 0 /\ th'[p].ip = 0 /\ th'[p].dp = 0 /\ cwd'[p] = ip(p)
          /\ at(p) = 0 /\ dp(p) = 0 /\ cwd[p] = i
      BY <1>2, <1>4, <1>9 DEF Swaps, Goes, AtPhases, DpPhases
    <2>2. \A j \in Inums : ref'[j] = ref[j] - Bit(i = j)
      BY <1>9, PutEffect DEF Swaps
    <2>3. \A j \in Inums :
            ref'[j] + (Bit(cwd[p] = j) + Bit(at(p) = j) + Bit(ip(p) = j) + Bit(dp(p) = j))
              = ref[j] + (Bit(ip(p) = j) + Bit(0 = j) + Bit(0 = j) + Bit(0 = j))
      BY <1>3, <1>4, <2>1, <2>2, ZeroIsNoInode
    <2> QED
      BY <1>1, <2>1, <2>3, RefTurn
  <1>10. ASSUME NEW i \in Inums, Allocs(p, i) PROVE RefCounts'
    <2>1. /\ th'[p].at = 0 /\ th'[p].ip = i /\ th'[p].dp = dp(p) /\ cwd'[p] = cwd[p]
          /\ at(p) = 0 /\ ip(p) = 0
      BY <1>2, <1>10 DEF Allocs, Goes, AtPhases, IpPhases, MakePhases
    <2>2. \A j \in Inums : ref'[j] = ref[j] + Bit(i = j)
      BY <1>10, GetsEffect DEF Allocs
    <2>3. \A j \in Inums :
            ref'[j] + (Bit(cwd[p] = j) + Bit(at(p) = j) + Bit(ip(p) = j) + Bit(dp(p) = j))
              = ref[j] + (Bit(cwd[p] = j) + Bit(0 = j) + Bit(i = j) + Bit(dp(p) = j))
      BY <1>3, <1>4, <2>1, <2>2, ZeroIsNoInode
    <2> QED
      BY <1>1, <2>1, <2>3, RefTurn
  <1>11. ASSUME NEW i \in Inums, Panics(p, i) PROVE RefCounts'
    <2>1. th' = th /\ cwd' = cwd /\ ref' = ref
      BY <1>11 DEF Panics
    <2> QED
      BY <2>1 DEF RefCounts
  <1>12. ASSUME NEW i \in Inums, NEW n \in Elems, Descends(p, n, i) PROVE RefCounts'
    <2>1. /\ th'[p].at = i /\ th'[p].ip = 0 /\ th'[p].dp = at(p) /\ cwd'[p] = cwd[p]
          /\ ip(p) = 0 /\ dp(p) = 0
      BY <1>2, <1>12 DEF Descends, Goes, IpPhases, DpPhases
    <2>2. \A j \in Inums : ref'[j] = ref[j] + Bit(i = j)
      BY <1>12, GetsEffect DEF Descends
    <2>3. \A j \in Inums :
            ref'[j] + (Bit(cwd[p] = j) + Bit(at(p) = j) + Bit(ip(p) = j) + Bit(dp(p) = j))
              = ref[j] + (Bit(cwd[p] = j) + Bit(i = j) + Bit(0 = j) + Bit(at(p) = j))
      BY <1>3, <1>4, <2>1, <2>2, ZeroIsNoInode
    <2> QED
      BY <1>1, <2>1, <2>3, RefTurn
  <1>13. ASSUME NEW i \in Inums, NEW n \in Elems, Finds(p, n, i) \/ Targets(p, n, i)
         PROVE  RefCounts'
    <2>1. /\ th'[p].at = 0 /\ th'[p].ip = i /\ th'[p].dp = dp(p) /\ cwd'[p] = cwd[p]
          /\ at(p) = 0 /\ ip(p) = 0
      BY <1>2, <1>13 DEF Finds, Targets, Goes, AtPhases, IpPhases, MakePhases
    <2>2. \A j \in Inums : ref'[j] = ref[j] + Bit(i = j)
      <3>1. Gets(i)
        BY <1>13 DEF Finds, Targets
      <3> QED
        BY <3>1, GetsEffect
    <2>3. \A j \in Inums :
            ref'[j] + (Bit(cwd[p] = j) + Bit(at(p) = j) + Bit(ip(p) = j) + Bit(dp(p) = j))
              = ref[j] + (Bit(cwd[p] = j) + Bit(0 = j) + Bit(i = j) + Bit(dp(p) = j))
      BY <1>3, <1>4, <2>1, <2>2, ZeroIsNoInode
    <2> QED
      BY <1>1, <2>1, <2>3, RefTurn
  <1>14. ASSUME NEW i \in Inums, NEW l \in Phases, Drops(p, i, l) PROVE RefCounts'
    <2>1. PICK a : a = IF Phase(p) = "put at" THEN 0 ELSE at(p)
      OBVIOUS
    <2>2. PICK k : k = IF Phase(p) \in {"put ip", "put back"} THEN 0 ELSE ip(p)
      OBVIOUS
    <2>3. PICK d : d = IF Phase(p) \in {"put at", "put ip", "put back"} THEN dp(p) ELSE 0
      OBVIOUS
    <2>4. th'[p].at = a /\ th'[p].ip = k /\ th'[p].dp = d /\ cwd'[p] = cwd[p]
      BY <1>14, <2>1, <2>2, <2>3 DEF Drops, Goes
    <2>5. \A j \in Inums : ref'[j] = ref[j] - Bit(i = j)
      BY <1>14, PutEffect DEF Drops
    <2>6. \/ at(p) = i /\ a = 0 /\ k = ip(p) /\ d = dp(p)
          \/ ip(p) = i /\ k = 0 /\ a = at(p) /\ d = dp(p)
          \/ dp(p) = i /\ d = 0 /\ a = at(p) /\ k = ip(p)
      BY <1>14, <2>1, <2>2, <2>3 DEF Drops, Dropped
    <2>7. \A j \in Inums :
            ref'[j] + (Bit(cwd[p] = j) + Bit(at(p) = j) + Bit(ip(p) = j) + Bit(dp(p) = j))
              = ref[j] + (Bit(cwd[p] = j) + Bit(a = j) + Bit(k = j) + Bit(d = j))
      BY <1>3, <1>4, <2>5, <2>6, ZeroIsNoInode
    <2> QED
      BY <1>1, <2>4, <2>7, RefTurn
  <1>15. ASSUME Enters(p) \/ GivesUp(p) \/ Clears(p) PROVE RefCounts'
    <2>1. /\ th'[p].at = 0 /\ th'[p].ip = ip(p) /\ th'[p].dp = dp(p) /\ cwd'[p] = cwd[p]
          /\ ref' = ref /\ at(p) = 0
      BY <1>2, <1>15 DEF Enters, GivesUp, Clears, Goes, AtPhases
    <2> QED
      BY <1>1, <2>1, RefTurn
  <1>16. ASSUME Unlinks(p) PROVE RefCounts'
    <2>1. /\ th'[p].at = 0 /\ th'[p].ip = ip(p) /\ th'[p].dp = 0 /\ cwd'[p] = cwd[p]
          /\ ref' = ref /\ at(p) = 0 /\ dp(p) = 0
      BY <1>2, <1>16 DEF Unlinks, Goes, AtPhases, DpPhases
    <2> QED
      BY <1>1, <2>1, RefTurn
  <1> QED
    BY <1>5, <1>6, <1>7, <1>8, <1>9, <1>10, <1>11, <1>12, <1>13, <1>14, <1>15, <1>16 DEF Case

-----------------------------------------------------------------------------
(* Locks, types and entries.                                               *)

LEMMA OtherProcess ==
  ASSUME NEW p \in Procs, NEW q \in Procs \ {p}, Types, Case(p)
  PROVE  /\ Phase(q)' = Phase(q) /\ at(q)' = at(q) /\ ip(q)' = ip(q) /\ dp(q)' = dp(q)
         /\ op(q)' = op(q) /\ th'[q].name = th[q].name /\ LockOf(q)' = LockOf(q)
         /\ (Makes(q)' <=> Makes(q)) /\ (Removes(q)' <=> Removes(q))
         /\ \A j : Points(q, j)' <=> Points(q, j)
  <1>1. th'[q] = th[q] /\ cwd'[q] = cwd[q]
    BY OthersStay
  <1>2. /\ Phase(q)' = Phase(q) /\ at(q)' = at(q) /\ ip(q)' = ip(q) /\ dp(q)' = dp(q)
        /\ op(q)' = op(q) /\ th'[q].name = th[q].name
    BY <1>1 DEF Phase, at, ip, dp, op
  <1>3. LockOf(q)' = LockOf(q)
    BY <1>2 DEF LockOf
  <1>4. (Makes(q)' <=> Makes(q)) /\ (Removes(q)' <=> Removes(q))
    BY <1>2 DEF Makes, Removes
  <1>5. \A j : Points(q, j)' <=> Points(q, j)
    BY <1>1, <1>2 DEF Points
  <1> QED
    BY <1>2, <1>3, <1>4, <1>5

\* The lock that p has becomes another one.
LEMMA LockTurn ==
  ASSUME Types, Locks, NEW p \in Procs, Case(p),
         \A i \in Inums : lk'[i] = IF i = LockOf(p)' THEN p
                                   ELSE IF i = LockOf(p) THEN None ELSE lk[i],
         LockOf(p)' \in {0, LockOf(p)} \/ lk[LockOf(p)'] = None
  PROVE  Locks'
  <1>1. None \notin Procs /\ 0 \notin Inums
    BY DirsAssumption, InumsAboveZero
  <1>2. ASSUME NEW i \in Inums PROVE lk'[i] = p <=> LockOf(p)' = i
    <2>1. lk[i] = p <=> LockOf(p) = i
      BY DEF Locks
    <2> QED
      BY <1>1, <2>1
  <1>3. ASSUME NEW q \in Procs \ {p}, NEW i \in Inums PROVE lk'[i] = q <=> LockOf(q)' = i
    <2>1. LockOf(q)' = LockOf(q)
      BY OtherProcess
    <2>2. (lk[i] = q <=> LockOf(q) = i) /\ (lk[i] = p <=> LockOf(p) = i)
      BY DEF Locks
    <2>3. i = LockOf(p)' => i = LockOf(p) \/ lk[i] = None
      BY <1>1
    <2> QED
      BY <1>1, <2>1, <2>2, <2>3
  <1> QED
    BY <1>2, <1>3 DEF Locks

LockFor(l, i, d) ==
    IF l \in {"create", "unlink entry", "put back"} THEN d
    ELSE IF l \in {"put new", "put entry", "unlink nlink"} THEN i ELSE 0

LEMMA LockAfter ==
  ASSUME NEW p \in Procs, NEW l, NEW a, NEW i, NEW d, Goes(p, l, a, i, d)
  PROVE  LockOf(p)' = LockFor(l, i, d)
  BY DEF Goes, LockOf, LockFor, ip, dp

LEMMA LocksStep ==
  ASSUME Types, Places, Locks, NEW p \in Procs, Case(p)
  PROVE  Locks'
  <1>1. LockOf(p) = LockFor(Phase(p), ip(p), dp(p))
    BY DEF LockOf, LockFor
  <1>2. lk \in [Inums -> Procs \cup {None}] /\ None \notin Procs /\ 0 \notin Inums
    BY DirsAssumption, InumsAboveZero DEF Types
  <1>3. \A i \in Inums : lk[i] = p <=> LockOf(p) = i
    BY DEF Locks
  <1>4. /\ ip(p) \in Inum0 /\ (ip(p) # 0 <=> Phase(p) \in IpPhases)
        /\ dp(p) \in Inum0 /\ (dp(p) # 0 <=> Phase(p) \in DpPhases)
    BY Whereabouts
  \* Steps that leave the locks alone.
  <1>5. ASSUME lk' = lk, LockOf(p)' = LockOf(p) PROVE Locks'
    <2>1. \A i \in Inums : lk'[i] = IF i = LockOf(p)' THEN p
                                   ELSE IF i = LockOf(p) THEN None ELSE lk[i]
      BY <1>3, <1>5
    <2> QED
      BY <1>5, <2>1, LockTurn
  <1>6. ASSUME NEW l \in Phases, Looks(p, l) PROVE Locks'
    <2>1. Goes(p, l, at(p), ip(p), dp(p)) /\ lk' = lk
      BY <1>6 DEF Looks
    <2>2. LockOf(p)' = LockFor(l, ip(p), dp(p))
      BY <2>1, LockAfter
    <2>3. LockFor(l, ip(p), dp(p)) = LockFor(Phase(p), ip(p), dp(p))
      BY <1>6 DEF Looks, LookTurns, LockFor
    <2> QED
      BY <1>1, <1>5, <2>1, <2>2, <2>3
  <1>7. ASSUME NEW l \in Phases, Stops(p, l) PROVE Locks'
    <2>1. Goes(p, l, 0, 0, at(p)) /\ lk' = lk
      BY <1>7 DEF Stops
    <2>2. LockOf(p)' = LockFor(l, 0, at(p))
      BY <2>1, LockAfter
    <2>3. LockFor(l, 0, at(p)) = 0 /\ LockFor(Phase(p), ip(p), dp(p)) = 0
      BY <1>7 DEF Stops, LockFor
    <2> QED
      BY <1>1, <1>5, <2>1, <2>2, <2>3
  <1>8. ASSUME Ends(p) PROVE Locks'
    <2>1. Goes(p, "chdir", 0, at(p), 0) /\ lk' = lk
      BY <1>8 DEF Ends
    <2>2. LockOf(p)' = LockFor("chdir", at(p), 0)
      BY <2>1, LockAfter
    <2>3. LockFor("chdir", at(p), 0) = 0 /\ LockFor(Phase(p), ip(p), dp(p)) = 0
      BY <1>8 DEF Ends, LockFor
    <2> QED
      BY <1>1, <1>5, <2>1, <2>2, <2>3
  <1>9. ASSUME NEW i \in Inums, Begins(p, i) PROVE Locks'
    <2>1. Goes(p, "namex", i, 0, 0) /\ lk' = lk
      BY <1>9 DEF Begins
    <2>2. LockOf(p)' = LockFor("namex", 0, 0)
      BY <2>1, LockAfter
    <2>3. LockFor("namex", 0, 0) = 0 /\ LockFor(Phase(p), ip(p), dp(p)) = 0
      BY <1>9 DEF Begins, LockFor
    <2> QED
      BY <1>1, <1>5, <2>1, <2>2, <2>3
  <1>10. ASSUME NEW i \in Inums, Swaps(p, i) PROVE Locks'
    <2>1. Goes(p, "idle", 0, 0, 0) /\ lk' = lk
      BY <1>10 DEF Swaps
    <2>2. LockOf(p)' = LockFor("idle", 0, 0)
      BY <2>1, LockAfter
    <2>3. LockFor("idle", 0, 0) = 0 /\ LockFor(Phase(p), ip(p), dp(p)) = 0
      BY <1>10 DEF Swaps, LockFor
    <2> QED
      BY <1>1, <1>5, <2>1, <2>2, <2>3
  <1>11. ASSUME NEW i \in Inums, NEW n \in Elems, Descends(p, n, i) \/ Finds(p, n, i)
         PROVE  Locks'
    <2>1. PICK l \in {"put walk", "put exists"} : \E a, k, d : Goes(p, l, a, k, d)
      BY <1>11 DEF Descends, Finds
    <2>0. PICK a, k, d : Goes(p, l, a, k, d)
      BY <2>1
    <2>2. LockOf(p)' = LockFor(l, k, d)
      BY <2>0, LockAfter
    <2>3. LockFor(l, k, d) = 0 /\ LockFor(Phase(p), ip(p), dp(p)) = 0 /\ lk' = lk
      BY <1>11, <2>1 DEF Descends, Finds, LockFor, MakePhases
    <2> QED
      BY <1>1, <1>5, <2>2, <2>3
  <1>12. ASSUME NEW i \in Inums, Panics(p, i) PROVE Locks'
    <2>1. lk' = lk /\ th' = th
      BY <1>12 DEF Panics
    <2> QED
      BY <1>5, <2>1 DEF LockOf, Phase, ip, dp
  \* The directory is locked and stays so.
  <1>13. ASSUME NEW i \in Inums,
                Allocs(p, i) \/ \E n \in Elems : Targets(p, n, i)
         PROVE  Locks'
    <2>1. PICK l \in {"create", "unlink entry"} : Goes(p, l, 0, i, dp(p))
      BY <1>13 DEF Allocs, Targets
    <2>2. LockOf(p)' = dp(p)
      <3>1. LockOf(p)' = LockFor(l, i, dp(p))
        BY <2>1, LockAfter
      <3> QED
        BY <3>1 DEF LockFor
    <2>3. LockOf(p) = 0
      BY <1>1, <1>13 DEF Allocs, Targets, LockFor, MakePhases
    <2>4. lk' = [lk EXCEPT ![dp(p)] = p] /\ lk[dp(p)] = None
      BY <1>13 DEF Allocs, Targets
    <2>5. \A j \in Inums : lk'[j] = IF j = LockOf(p)' THEN p
                                   ELSE IF j = LockOf(p) THEN None ELSE lk[j]
      BY <1>2, <2>2, <2>3, <2>4
    <2> QED
      BY <2>2, <2>4, <2>5, LockTurn
  \* From the directory to the inode.
  <1>14. ASSUME Enters(p) \/ Clears(p) PROVE Locks'
    <2>1. PICK l \in {"put new", "put entry"} : Goes(p, l, 0, ip(p), dp(p))
      BY <1>14 DEF Enters, Clears
    <2>2. LockOf(p)' = ip(p)
      <3>1. LockOf(p)' = LockFor(l, ip(p), dp(p))
        BY <2>1, LockAfter
      <3> QED
        BY <3>1 DEF LockFor
    <2>3. LockOf(p) = dp(p)
      BY <1>1, <1>14 DEF Enters, Clears, LockFor
    <2>4. lk' = [lk EXCEPT ![ip(p)] = p, ![dp(p)] = None] /\ lk[ip(p)] = None
      BY <1>14 DEF Enters, Clears
    <2>5. ip(p) \in Inums /\ dp(p) \in Inums
      BY <1>4, <1>14, NotZero DEF Enters, Clears, IpPhases, DpPhases
    <2>6. ip(p) # dp(p)
      BY <1>2, <1>3, <2>3, <2>4, <2>5
    <2>7. \A j \in Inums : lk'[j] = IF j = LockOf(p)' THEN p
                                   ELSE IF j = LockOf(p) THEN None ELSE lk[j]
      BY <1>2, <2>2, <2>3, <2>4, <2>6
    <2> QED
      BY <2>2, <2>4, <2>7, LockTurn
  <1>15. ASSUME GivesUp(p) PROVE Locks'
    <2>1. Goes(p, "put back", 0, ip(p), dp(p)) /\ lk' = lk
      BY <1>15 DEF GivesUp
    <2>2. LockOf(p)' = LockFor("put back", ip(p), dp(p))
      BY <2>1, LockAfter
    <2>3. LockFor("put back", ip(p), dp(p)) = LockFor(Phase(p), ip(p), dp(p))
      BY <1>15 DEF GivesUp, LockFor
    <2> QED
      BY <1>1, <1>5, <2>1, <2>2, <2>3
  \* The lock is given back.
  <1>16. ASSUME Unlinks(p) PROVE Locks'
    <2>1. Goes(p, "put ip", 0, ip(p), 0)
      BY <1>16 DEF Unlinks
    <2>2. LockOf(p)' = 0
      BY <2>1, LockAfter DEF LockFor
    <2>3. LockOf(p) = ip(p)
      BY <1>1, <1>16 DEF Unlinks, LockFor
    <2>4. \A j \in Inums : lk'[j] = IF j = LockOf(p)' THEN p
                                   ELSE IF j = LockOf(p) THEN None ELSE lk[j]
      BY <1>2, <1>16, <2>2, <2>3 DEF Unlinks
    <2> QED
      BY <2>2, <2>4, LockTurn
  <1>17. ASSUME NEW i \in Inums, NEW l \in Phases, Drops(p, i, l) PROVE Locks'
    <2>1. PICK a, k, d : /\ Goes(p, l, a, k, d)
                         /\ Phase(p) = "put entry" => k = ip(p)
      BY <1>17 DEF Drops
    <2>2. LockOf(p)' = LockFor(l, k, d)
      BY <2>1, LockAfter
    <2>3. CASE Phase(p) \notin {"put new", "put back"}
      <3>1. LockFor(l, k, d) = LockFor(Phase(p), ip(p), dp(p)) /\ lk' = lk
        BY <1>17, <2>1, <2>3 DEF Drops, DropTurns, LockFor
      <3> QED
        BY <1>1, <1>5, <2>2, <3>1
    <2>4. CASE Phase(p) \in {"put new", "put back"}
      <3>1. LockOf(p)' = 0
        BY <1>17, <2>2, <2>4 DEF Drops, DropTurns, LockFor
      <3>2. lk' = [lk EXCEPT ![LockOf(p)] = IF @ = p THEN None ELSE @]
        BY <1>1, <1>17, <2>4 DEF Drops, LockFor
      <3>3. \A j \in Inums : lk'[j] = IF j = LockOf(p)' THEN p
                                     ELSE IF j = LockOf(p) THEN None ELSE lk[j]
        BY <1>2, <1>3, <3>1, <3>2
      <3> QED
        BY <3>1, <3>3, LockTurn
    <2> QED
      BY <2>3, <2>4
  <1> QED
    BY <1>6, <1>7, <1>8, <1>9, <1>10, <1>11, <1>12, <1>13, <1>14, <1>15, <1>16, <1>17 DEF Case

\* Nobody points to an inode without references.
LEMMA Unreferenced ==
  ASSUME Types', RefCounts', NEW i \in Inums, ref'[i] = 0, NEW q \in Procs
  PROVE  ~Points(q, i)'
  <1>1. th' \in [Procs -> Thread] /\ cwd' \in [Procs -> Inums]
    BY DEF Types
  <1>2. ref'[i] = PointersIn(Procs, th', cwd', i)
    BY DEF RefCounts, PointersIn, Homes, Uses
  <1>3. /\ PointersIn(Procs, th', cwd', i)
              = PointersOf(th'[q], cwd'[q], i) + PointersIn(Procs \ {q}, th', cwd', i)
        /\ PointersIn(Procs \ {q}, th', cwd', i) \in Nat
        /\ PointersOf(th'[q], cwd'[q], i) \in Nat
    BY <1>1, AllPointers
  <1>4. PointersOf(th'[q], cwd'[q], i) = 0
    BY <1>2, <1>3
  <1>5. /\ Bit(cwd'[q] = i) # 1 /\ Bit(th'[q].at = i) # 1
        /\ Bit(th'[q].ip = i) # 1 /\ Bit(th'[q].dp = i) # 1
    BY <1>4, BitType DEF PointersOf
  <1>6. /\ cwd'[q] # i /\ th'[q].at # i /\ th'[q].ip # i /\ th'[q].dp # i
    BY <1>5, BitType
  <1> QED
    BY <1>6 DEF Points, at, ip, dp

\* iput frees the inode, to which nobody points then, or leaves it.
Frees(i) ==
    /\ ref[i] = 1 /\ valid[i] /\ nlink[i] = 0 /\ ref'[i] = 0
    /\ type' = [type EXCEPT ![i] = "free"]
    /\ ents' = [ents EXCEPT ![i] = NoEntries]
    /\ gone' = (gone \cup {d \in Inums : ents[d][".."] = i}) \ {i}
Puts(p, i) == Swaps(p, i) \/ \E l \in Phases : Drops(p, i, l)

LEMMA PutOutcome ==
  ASSUME Types, Places, RefCounts, NEW p \in Procs, Case(p), Moved(p), NEW i \in Inums, Puts(p, i)
  PROVE  /\ nlink' = nlink /\ panic' = panic /\ strayed' = strayed
         /\ \/ Frees(i) /\ \A q \in Procs : ~Points(q, i)'
            \/ /\ UNCHANGED <<type, ents, gone>>
               /\ ~(ref[i] = 1 /\ valid[i] /\ nlink[i] = 0)
  <1>1. iput(i) /\ panic' = panic /\ strayed' = strayed
    BY DEF Puts, Swaps, Drops
  <1>2. CASE ref[i] = 1 /\ valid[i] /\ nlink[i] = 0
    <2>1. Frees(i)
      <3>1. ref'[i] = 0
        BY <1>1, <1>2 DEF iput, Types
      <3> QED
        BY <1>1, <1>2, <3>1 DEF iput, Frees
    <2>2. Types' /\ RefCounts'
      BY TypesStep, RefCountsStep
    <2>3. \A q \in Procs : ~Points(q, i)'
      BY <2>1, <2>2, Unreferenced DEF Frees
    <2> QED
      BY <1>1, <2>1, <2>3 DEF iput
  <1>3. CASE ~(ref[i] = 1 /\ valid[i] /\ nlink[i] = 0)
    <2>1. type' = type /\ ents' = ents /\ gone' = gone
      BY <1>1, <1>3 DEF iput, Types
    <2> QED
      BY <1>1, <1>3, <2>1 DEF iput
  <1> QED
    BY <1>2, <1>3

\* An inode that is in use changes its type only when nobody points to it any more.
LEMMA TypesLast ==
  ASSUME Types, Places, RefCounts, NEW p \in Procs, Case(p), Moved(p), NEW j \in Inums,
         type[j] # "free", type'[j] # type[j]
  PROVE  type'[j] = "free" /\ Puts(p, j) /\ Frees(j) /\ \A q \in Procs : ~Points(q, j)'
  <1>1. type' # type
    OBVIOUS
  <1>2. PICK i \in Inums : Puts(p, i) \/ Allocs(p, i)
    BY <1>1 DEF Case, Looks, Stops, Ends, Begins, Panics, Descends, Finds, Targets, Enters,
                GivesUp, Clears, Unlinks, Puts
  <1>3. CASE Allocs(p, i)
    <2>1. type[i] = "free" /\ \A k \in Inums \ {i} : type'[k] = type[k]
      BY <1>3 DEF Allocs, Types
    <2> QED
      BY <2>1
  <1>4. CASE Puts(p, i)
    <2>1. Frees(i) /\ \A q \in Procs : ~Points(q, i)'
      BY <1>1, <1>4, PutOutcome
    <2>2. type'[i] = "free" /\ \A k \in Inums \ {i} : type'[k] = type[k]
      BY <2>1 DEF Frees, Types
    <2>3. j = i
      BY <2>2
    <2> QED
      BY <1>4, <2>1, <2>2, <2>3
  <1> QED
    BY <1>2, <1>3, <1>4

DirPhases == {"mkdir", "mknod", "unlink", "create", "unlink entry"}

LEMMA HeldStep ==
  ASSUME Types, Places, RefCounts, Held, NEW p \in Procs, Case(p), Moved(p)
  PROVE  Held'
  <1>1. ASSUME NEW q \in Procs, NEW j \in Inums, Points(q, j)', type[j] # "free"
        PROVE  type'[j] = type[j]
    BY <1>1, TypesLast
  <1>2. ASSUME NEW q \in Procs \ {p}
        PROVE  /\ Phase(q)' \in DirPhases => type'[dp(q)'] = "T_DIR"
               /\ Phase(q)' = "create" =>
                     type'[ip(q)'] = IF op(q)' = "mkdir" THEN "T_DIR" ELSE "T_DEVICE"
    <2>1. /\ Phase(q)' = Phase(q) /\ ip(q)' = ip(q) /\ dp(q)' = dp(q) /\ op(q)' = op(q)
          /\ \A j : Points(q, j)' <=> Points(q, j)
      BY OtherProcess
    <2>2. CASE Phase(q) \in DirPhases
      <3>1. dp(q) \in Inums /\ type[dp(q)] = "T_DIR"
        BY <2>2, Whereabouts, NotZero DEF Held, DirPhases, DpPhases
      <3>2. Points(q, dp(q)) /\ Points(q, ip(q))
        BY DEF Points
      <3>3. type'[dp(q)] = "T_DIR"
        BY <1>1, <2>1, <3>1, <3>2
      <3>4. ASSUME Phase(q) = "create"
            PROVE  type'[ip(q)] = IF op(q) = "mkdir" THEN "T_DIR" ELSE "T_DEVICE"
        <4>1. /\ ip(q) \in Inums
              /\ type[ip(q)] = IF op(q) = "mkdir" THEN "T_DIR" ELSE "T_DEVICE"
          BY <3>4, Whereabouts, NotZero DEF Held, IpPhases
        <4> QED
          BY <1>1, <2>1, <3>2, <4>1
      <3> QED
        BY <2>1, <3>3, <3>4
    <2>3. CASE Phase(q) \notin DirPhases
      BY <2>1, <2>3 DEF DirPhases
    <2> QED
      BY <2>2, <2>3
  <1>3. /\ Phase(p)' \in DirPhases => type'[dp(p)'] = "T_DIR"
        /\ Phase(p)' = "create" =>
              type'[ip(p)'] = IF op(p)' = "mkdir" THEN "T_DIR" ELSE "T_DEVICE"
    <2>1. ASSUME NEW l \in Phases, Looks(p, l) PROVE Phase(p)' \notin DirPhases
      BY <2>1 DEF Looks, LookTurns, Goes, DirPhases
    <2>2. ASSUME NEW l \in Phases, Stops(p, l)
          PROVE  Phase(p)' # "create" /\ type'[dp(p)'] = "T_DIR"
      BY <2>2 DEF Stops, Goes, dp
    <2>3. ASSUME Ends(p) PROVE Phase(p)' \notin DirPhases
      BY <2>3 DEF Ends, Goes, DirPhases
    <2>4. ASSUME NEW i \in Inums, Begins(p, i) \/ Swaps(p, i)
          PROVE  Phase(p)' \notin DirPhases
      BY <2>4 DEF Begins, Swaps, Goes, DirPhases
    <2>5. ASSUME NEW i \in Inums, Allocs(p, i)
          PROVE  /\ type'[dp(p)'] = "T_DIR"
                 /\ type'[ip(p)'] = IF op(p)' = "mkdir" THEN "T_DIR" ELSE "T_DEVICE"
      <3>1. dp(p)' = dp(p) /\ ip(p)' = i /\ op(p)' = op(p)
        BY <2>5 DEF Allocs, Goes, dp, ip, op
      <3>2. type[dp(p)] = "T_DIR" /\ type[i] = "free"
        BY <2>5 DEF Allocs, Held, MakePhases
      <3>3. /\ type' = [type EXCEPT ![i] = IF op(p) = "mkdir" THEN "T_DIR" ELSE "T_DEVICE"]
            /\ dp(p) \in Inums
        BY <2>5, Whereabouts, NotZero DEF Allocs, MakePhases, DpPhases
      <3>4. dp(p) # i
        BY <3>2
      <3> QED
        BY <3>1, <3>2, <3>3, <3>4 DEF Types
    <2>6. ASSUME NEW i \in Inums, Panics(p, i)
          PROVE  /\ Phase(p)' \in DirPhases => type'[dp(p)'] = "T_DIR"
                 /\ Phase(p)' = "create" =>
                       type'[ip(p)'] = IF op(p)' = "mkdir" THEN "T_DIR" ELSE "T_DEVICE"
      <3>1. Phase(p)' = Phase(p) /\ dp(p)' = dp(p) /\ ip(p)' = ip(p) /\ op(p)' = op(p) /\ type' = type
        BY <2>6 DEF Panics, Phase, dp, ip, op
      <3> QED
        BY <3>1 DEF Held, DirPhases
    <2>7. ASSUME NEW i \in Inums, NEW n \in Elems, Descends(p, n, i) \/ Finds(p, n, i)
          PROVE  Phase(p)' \notin DirPhases
      BY <2>7 DEF Descends, Finds, Goes, DirPhases
    <2>8. ASSUME NEW i \in Inums, NEW n \in Elems, Targets(p, n, i)
          PROVE  Phase(p)' # "create" /\ type'[dp(p)'] = "T_DIR"
      BY <2>8 DEF Targets, Goes, dp, Held
    <2>9. ASSUME NEW i \in Inums, NEW l \in Phases, Drops(p, i, l)
          PROVE  Phase(p)' \notin DirPhases
      <3>1. Phase(p)' = l /\ l \in {"idle", "namex", "exists", "put ip", "put dp", "unlink nlink"}
        BY <2>9 DEF Drops, Goes, DropTurns
      <3> QED
        BY <3>1 DEF DirPhases
    <2>10. ASSUME Enters(p) \/ GivesUp(p) \/ Clears(p) \/ Unlinks(p)
           PROVE  Phase(p)' \notin DirPhases
      BY <2>10 DEF Enters, GivesUp, Clears, Unlinks, Goes, DirPhases
    <2>11. "create" \in DirPhases
      BY DEF DirPhases
    <2> QED
      BY <2>1, <2>2, <2>3, <2>4, <2>5, <2>6, <2>7, <2>8, <2>9, <2>10, <2>11 DEF Case
  <1>4. \A q \in Procs :
           /\ Phase(q)' \in DirPhases => type'[dp(q)'] = "T_DIR"
           /\ Phase(q)' = "create" =>
                 type'[ip(q)'] = IF op(q)' = "mkdir" THEN "T_DIR" ELSE "T_DEVICE"
    BY <1>2, <1>3
  <1> QED
    BY <1>4 DEF Held, DirPhases

\* The entries of a directory that somebody holds are changed by nobody else.
LEMMA EntsLast ==
  ASSUME Types, Places, RefCounts, Locks, NEW p \in Procs, Case(p), Moved(p),
         NEW q \in Procs \ {p}, NEW d \in Inums, LockOf(q) = d, Points(q, d)
  PROVE  ents'[d] = ents[d]
  <1>1. lk[d] = q /\ None \notin Procs
    BY DirsAssumption DEF Locks
  <1>2. LockOf(p) # d
    BY <1>1 DEF Locks
  <1>3. Points(q, d)'
    BY OtherProcess
  <1>4. ents \in [Inums -> [Elems -> Inum0]] /\ Types'
    BY TypesStep DEF Types
  <1>5. CASE ents' = ents
    BY <1>5
  <1>6. ASSUME NEW i \in Inums, Puts(p, i), ents' # ents PROVE ents'[d] = ents[d]
    <2>1. Frees(i) /\ ~Points(q, i)'
      BY <1>6, PutOutcome
    <2> QED
      BY <1>3, <1>4, <2>1 DEF Frees
  <1>7. CASE Enters(p)
    <2>1. ip(p) # d /\ dp(p) # d
      BY <1>1, <1>2, <1>7 DEF Enters, LockOf
    <2> QED
      BY <1>4, <1>7, <2>1 DEF Enters
  <1>8. CASE GivesUp(p)
    <2>1. ip(p) # d
      BY <1>1, <1>8 DEF GivesUp
    <2>2. \A n \in Elems : ents'[d][n] = ents[d][n]
      BY <1>8, <2>1 DEF GivesUp
    <2>3. ents'[d] \in [Elems -> Inum0] /\ ents[d] \in [Elems -> Inum0]
      BY <1>4 DEF Types
    <2> QED
      BY <2>2, <2>3
  <1>9. CASE Clears(p)
    <2>1. dp(p) # d
      BY <1>2, <1>9 DEF Clears, LockOf
    <2> QED
      BY <1>4, <1>9, <2>1 DEF Clears
  <1> QED
    BY <1>5, <1>6, <1>7, <1>8, <1>9
       DEF Case, Looks, Stops, Ends, Begins, Panics, Descends, Finds, Targets, Allocs, Unlinks, Puts

\* Who makes a new inode, or removes a name, holds the directory and not the inode.
LEMMA DirIsNotInode ==
  ASSUME Types, Places, Locks, NEW p \in Procs, Enters(p) \/ Clears(p) \/ GivesUp(p)
  PROVE  ip(p) # dp(p) /\ ip(p) \in Inums /\ dp(p) \in Inums /\ LockOf(p) = dp(p)
  <1>1. ip(p) \in Inums /\ dp(p) \in Inums
    BY Whereabouts, NotZero DEF Enters, Clears, GivesUp, IpPhases, DpPhases
  <1>2. LockOf(p) = dp(p) /\ lk[ip(p)] = None
    BY DEF Enters, Clears, GivesUp, LockOf
  <1>3. lk[dp(p)] = p /\ None \notin Procs
    BY <1>1, <1>2, DirsAssumption DEF Locks
  <1> QED
    BY <1>1, <1>2, <1>3

\* What the steps of create and unlink do to the entries, one by one.
LEMMA EnterEffect ==
  ASSUME Types, Places, Locks, NEW p \in Procs, Enters(p)
  PROVE  /\ \A d \in Inums \ {ip(p), dp(p)} : ents'[d] = ents[d]
         /\ \A n \in Elems : ents'[dp(p)][n] = IF n = th[p].name THEN ip(p) ELSE ents[dp(p)][n]
         /\ \A n \in Elems : ents'[ip(p)][n] =
               IF op(p) = "mkdir" /\ n = "." THEN ip(p)
               ELSE IF op(p) = "mkdir" /\ n = ".." THEN dp(p) ELSE ents[ip(p)][n]
         /\ op(p) # "mkdir" => ents'[ip(p)] = ents[ip(p)]
  <1>1. ip(p) # dp(p) /\ ip(p) \in Inums /\ dp(p) \in Inums
    BY DirIsNotInode
  <1>2. ents \in [Inums -> [Elems -> Inum0]]
    BY DEF Types
  <1>3. PICK e : e = IF op(p) = "mkdir" THEN WithDots(ip(p), dp(p)) ELSE ents[ip(p)]
    OBVIOUS
  <1>4. ents' = [ents EXCEPT ![ip(p)] = e, ![dp(p)][th[p].name] = ip(p)]
    BY <1>3 DEF Enters
  <1>5. \A d \in Inums \ {ip(p), dp(p)} : ents'[d] = ents[d]
    BY <1>2, <1>4
  <1>6. ents'[ip(p)] = e
    BY <1>1, <1>2, <1>4
  <1>7. ents'[dp(p)] = [ents[dp(p)] EXCEPT ![th[p].name] = ip(p)]
    BY <1>1, <1>2, <1>4
  <1>8. \A n \in Elems : ents'[dp(p)][n] = IF n = th[p].name THEN ip(p) ELSE ents[dp(p)][n]
    BY <1>1, <1>2, <1>7
  <1>9. \A n \in Elems : ents'[ip(p)][n] =
               IF op(p) = "mkdir" /\ n = "." THEN ip(p)
               ELSE IF op(p) = "mkdir" /\ n = ".." THEN dp(p) ELSE ents[ip(p)][n]
    BY <1>1, <1>2, <1>3, <1>6 DEF WithDots
  <1> QED
    BY <1>3, <1>5, <1>6, <1>8, <1>9

LEMMA ClearEffect ==
  ASSUME Types, Places, Locks, NEW p \in Procs, Clears(p)
  PROVE  /\ \A d \in Inums \ {dp(p)} : ents'[d] = ents[d]
         /\ \A n \in Elems : ents'[dp(p)][n] = IF n = th[p].name THEN 0 ELSE ents[dp(p)][n]
  <1>1. dp(p) \in Inums /\ ents \in [Inums -> [Elems -> Inum0]]
    BY DirIsNotInode DEF Types
  <1> QED
    BY <1>1 DEF Clears

LEMMA ContentsStep ==
  ASSUME Types, Places, RefCounts, Locks, Held, Contents, NEW p \in Procs, Case(p), Moved(p)
  PROVE  Contents'
  <1>0. ents \in [Inums -> [Elems -> Inum0]] /\ Types'
    BY TypesStep DEF Types
  <1>1. ASSUME NEW j \in Inums, type'[j] # "T_DIR" PROVE ents'[j] = NoEntries
    <2>1. ASSUME NEW i \in Inums, Puts(p, i) PROVE ents'[j] = NoEntries
      <3>1. CASE Frees(i)
        <4>1. type' = [type EXCEPT ![i] = "free"] /\ ents' = [ents EXCEPT ![i] = NoEntries]
          BY <3>1 DEF Frees
        <4>2. j = i => ents'[j] = NoEntries
          BY <1>0, <4>1
        <4>3. j # i => type'[j] = type[j] /\ ents'[j] = ents[j]
          BY <1>0, <4>1 DEF Types
        <4> QED
          BY <1>1, <4>2, <4>3 DEF Contents
      <3>2. CASE UNCHANGED <<type, ents, gone>>
        BY <1>1, <3>2 DEF Contents
      <3> QED
        BY <2>1, <3>1, <3>2, PutOutcome
    <2>2. ASSUME NEW i \in Inums, Allocs(p, i) PROVE ents'[j] = NoEntries
      <3>1. type[j] # "T_DIR" /\ ents' = ents
        BY <1>1, <2>2 DEF Allocs, Types
      <3> QED
        BY <3>1 DEF Contents
    <2>3. ASSUME Enters(p) PROVE ents'[j] = NoEntries
      <3>1. type' = type /\ type[dp(p)] = "T_DIR" /\ (op(p) = "mkdir" => type[ip(p)] = "T_DIR")
        BY <2>3 DEF Enters, Held
      <3>2. j # dp(p) /\ (j = ip(p) => op(p) # "mkdir")
        BY <1>1, <3>1
      <3>3. ents'[j] = ents[j]
        BY <2>3, <3>2, EnterEffect
      <3> QED
        BY <1>1, <3>1, <3>3 DEF Contents
    <2>4. ASSUME GivesUp(p) PROVE ents'[j] = NoEntries
      <3>1. type' = type /\ (op(p) = "mkdir" => type[ip(p)] = "T_DIR")
        BY <2>4 DEF GivesUp, Held
      <3>2. \A n \in Elems : ents'[j][n] = ents[j][n]
        BY <1>1, <2>4, <3>1 DEF GivesUp
      <3>3. ents'[j] \in [Elems -> Inum0] /\ ents[j] \in [Elems -> Inum0]
        BY <1>0 DEF Types
      <3>4. ents'[j] = ents[j]
        BY <3>2, <3>3
      <3> QED
        BY <1>1, <3>1, <3>4 DEF Contents
    <2>5. ASSUME Clears(p) PROVE ents'[j] = NoEntries
      <3>1. type' = type /\ type[dp(p)] = "T_DIR"
        BY <2>5 DEF Clears, Held
      <3>2. ents'[j] = ents[j]
        BY <1>1, <2>5, <3>1, ClearEffect
      <3> QED
        BY <1>1, <3>1, <3>2 DEF Contents
    <2>6. ASSUME type' = type, ents' = ents PROVE ents'[j] = NoEntries
      BY <1>1, <2>6 DEF Contents
    <2> QED
      BY <2>1, <2>2, <2>3, <2>4, <2>5, <2>6
         DEF Case, Looks, Stops, Ends, Begins, Panics, Descends, Finds, Targets, Unlinks, Puts
  <1>2. ASSUME NEW q \in Procs \ {p}
        PROVE  /\ Phase(q)' = "create" => ents'[dp(q)'][th'[q].name] = 0
               /\ Phase(q)' = "unlink entry" => ents'[dp(q)'][th'[q].name] = ip(q)'
    <2>1. /\ Phase(q)' = Phase(q) /\ ip(q)' = ip(q) /\ dp(q)' = dp(q) /\ th'[q].name = th[q].name
      BY OtherProcess
    <2>2. CASE Phase(q) \in {"create", "unlink entry"}
      <3>1. dp(q) \in Inums /\ LockOf(q) = dp(q) /\ Points(q, dp(q))
        BY <2>2, Whereabouts, NotZero DEF DpPhases, LockOf, Points
      <3>2. ents'[dp(q)] = ents[dp(q)]
        BY <3>1, EntsLast
      <3> QED
        BY <2>1, <3>2 DEF Contents
    <2> QED
      BY <2>1, <2>2
  <1>3. /\ Phase(p)' = "create" => ents'[dp(p)'][th'[p].name] = 0
        /\ Phase(p)' = "unlink entry" => ents'[dp(p)'][th'[p].name] = ip(p)'
    <2>1. ASSUME NEW l \in Phases, Looks(p, l) \/ Stops(p, l)
          PROVE  Phase(p)' \notin {"create", "unlink entry"}
      <3>1. Phase(p)' = l /\ l \notin {"create", "unlink entry"}
        BY <2>1 DEF Looks, LookTurns, Stops, Goes
      <3> QED
        BY <3>1
    <2>2. ASSUME NEW i \in Inums, NEW l \in Phases, Drops(p, i, l)
          PROVE  Phase(p)' \notin {"create", "unlink entry"}
      <3>1. Phase(p)' = l /\ l \notin {"create", "unlink entry"}
        BY <2>2 DEF Drops, DropTurns, Goes
      <3> QED
        BY <3>1
    <2>3. ASSUME NEW i \in Inums, Begins(p, i) \/ Swaps(p, i)
          PROVE  Phase(p)' \notin {"create", "unlink entry"}
      BY <2>3 DEF Begins, Swaps, Goes
    <2>4. ASSUME Ends(p) \/ Enters(p) \/ GivesUp(p) \/ Clears(p) \/ Unlinks(p)
          PROVE  Phase(p)' \notin {"create", "unlink entry"}
      BY <2>4 DEF Ends, Enters, GivesUp, Clears, Unlinks, Goes
    <2>5. ASSUME NEW i \in Inums, NEW n \in Elems, Descends(p, n, i) \/ Finds(p, n, i)
          PROVE  Phase(p)' \notin {"create", "unlink entry"}
      BY <2>5 DEF Descends, Finds, Goes
    <2>6. ASSUME NEW i \in Inums, Panics(p, i)
          PROVE  /\ Phase(p)' = "create" => ents'[dp(p)'][th'[p].name] = 0
                 /\ Phase(p)' = "unlink entry" => ents'[dp(p)'][th'[p].name] = ip(p)'
      <3>1. Phase(p)' = Phase(p) /\ dp(p)' = dp(p) /\ ip(p)' = ip(p) /\ th' = th /\ ents' = ents
        BY <2>6 DEF Panics, Phase, dp, ip
      <3> QED
        BY <3>1 DEF Contents
    <2>7. ASSUME NEW i \in Inums, NEW n \in Elems, Targets(p, n, i)
          PROVE  Phase(p)' = "unlink entry" /\ ents'[dp(p)'][th'[p].name] = ip(p)'
      BY <2>7 DEF Targets, Goes, dp, ip
    <2>8. ASSUME NEW i \in Inums, Allocs(p, i)
          PROVE  Phase(p)' = "create" /\ ents'[dp(p)'][th'[p].name] = 0
      BY <2>8 DEF Allocs, Goes, dp
    <2> QED
      BY <2>1, <2>2, <2>3, <2>4, <2>5, <2>6, <2>7, <2>8 DEF Case
  <1>4. \A q \in Procs :
          /\ Phase(q)' = "create" => ents'[dp(q)'][th'[q].name] = 0
          /\ Phase(q)' = "unlink entry" => ents'[dp(q)'][th'[q].name] = ip(q)'
    BY <1>2, <1>3
  <1> QED
    BY <1>1, <1>4 DEF Contents

\* Where a process comes from that makes an inode or removes a name.
LEMMA Turns ==
  ASSUME Types, Places, NEW p \in Procs, Case(p)
  PROVE  /\ Phase(p)' = "create" => (\E i \in Inums : Allocs(p, i)) \/ th' = th
         /\ Makes(p)' => \/ \E i \in Inums : Allocs(p, i)
                         \/ Makes(p) /\ ip(p)' = ip(p) /\ (GivesUp(p) \/ th' = th)
         /\ Removes(p)' => Clears(p) \/ (Removes(p) /\ ip(p)' = ip(p))
  <1>1. ASSUME NEW l \in Phases, Looks(p, l)
        PROVE  Phase(p)' # "create" /\ ~Makes(p)' /\ ~Removes(p)'
    <2>1. /\ Phase(p)' = l /\ l \notin {"create", "put entry", "unlink nlink"}
          /\ l = "put back" => Phase(p) = "unlink entry"
      BY <1>1 DEF Looks, LookTurns, Goes
    <2>2. op(p)' = op(p)
      BY <1>1 DEF Looks, op
    <2>3. Phase(p) = "unlink entry" => op(p) = "unlink"
      BY Whereabouts DEF CallOK
    <2> QED
      BY <2>1, <2>2, <2>3 DEF Makes, Removes
  <1>2. ASSUME NEW l \in Phases, Stops(p, l)
        PROVE  Phase(p)' # "create" /\ ~Makes(p)' /\ ~Removes(p)'
    BY <1>2 DEF Stops, Goes, Makes, Removes
  <1>3. ASSUME Ends(p) \/ Enters(p) \/ Unlinks(p)
        PROVE  Phase(p)' # "create" /\ ~Makes(p)' /\ ~Removes(p)'
    BY <1>3 DEF Ends, Enters, Unlinks, Goes, Makes, Removes
  <1>4. ASSUME NEW i \in Inums, Begins(p, i) \/ Swaps(p, i)
        PROVE  Phase(p)' # "create" /\ ~Makes(p)' /\ ~Removes(p)'
    BY <1>4 DEF Begins, Swaps, Goes, Makes, Removes
  <1>5. ASSUME NEW i \in Inums, NEW n \in Elems, Descends(p, n, i) \/ Finds(p, n, i) \/ Targets(p, n, i)
        PROVE  Phase(p)' # "create" /\ ~Makes(p)' /\ ~Removes(p)'
    BY <1>5 DEF Descends, Finds, Targets, Goes, Makes, Removes
  <1>6. ASSUME NEW i \in Inums, Allocs(p, i) PROVE ~Removes(p)'
    BY <1>6 DEF Allocs, Goes, Removes
  <1>7. ASSUME NEW i \in Inums, Panics(p, i)
        PROVE  th' = th /\ (Makes(p)' => Makes(p)) /\ (Removes(p)' => Removes(p)) /\ ip(p)' = ip(p)
    BY <1>7 DEF Panics, Makes, Removes, Phase, op, ip
  <1>8. ASSUME NEW i \in Inums, NEW l \in Phases, Drops(p, i, l)
        PROVE  /\ Phase(p)' # "create" /\ ~Makes(p)'
               /\ Removes(p)' => Removes(p) /\ ip(p)' = ip(p)
    <2>1. /\ Phase(p)' = l /\ l \notin {"create", "put back", "put entry"}
          /\ l = "unlink nlink" => Phase(p) = "put entry"
      BY <1>8 DEF Drops, DropTurns, Goes
    <2>2. Phase(p) = "put entry" => ip(p)' = ip(p)
      BY <1>8 DEF Drops, Goes, ip
    <2> QED
      BY <2>1, <2>2 DEF Makes, Removes
  <1>9. ASSUME GivesUp(p)
        PROVE  Phase(p)' # "create" /\ ~Removes(p)' /\ Makes(p) /\ ip(p)' = ip(p)
    BY <1>9 DEF GivesUp, Goes, Makes, Removes, ip
  <1>10. ASSUME Clears(p) PROVE Phase(p)' # "create" /\ ~Makes(p)'
    BY <1>10 DEF Clears, Goes, Makes
  <1> QED
    BY <1>1, <1>2, <1>3, <1>4, <1>5, <1>6, <1>7, <1>8, <1>9, <1>10 DEF Case

\* A name comes with Enters, and goes with Clears or with the directory it is in.
LEMMA NamesStep ==
  ASSUME Types, Places, RefCounts, Locks, Contents, NEW p \in Procs, Case(p), Moved(p),
         NEW d \in Inums, NEW n \in Names, ents'[d][n] # ents[d][n]
  PROVE  \/ Enters(p) /\ d = dp(p) /\ n = th[p].name /\ ents[d][n] = 0 /\ ents'[d][n] = ip(p)
         \/ Clears(p) /\ d = dp(p) /\ n = th[p].name /\ ents[d][n] = ip(p) /\ ents'[d][n] = 0
         \/ Puts(p, d) /\ Frees(d) /\ ents'[d] = NoEntries /\ ents'[d][n] = 0
  <1>1. n \in Elems /\ n # "." /\ n # ".."
    BY DirsAssumption DEF Elems
  <1>2. ents \in [Inums -> [Elems -> Inum0]]
    BY DEF Types
  <1>3. ASSUME NEW i \in Inums, Puts(p, i)
        PROVE  Puts(p, d) /\ Frees(d) /\ ents'[d] = NoEntries /\ ents'[d][n] = 0
    <2>1. Frees(i)
      BY <1>3, PutOutcome
    <2>2. d = i
      BY <1>2, <2>1 DEF Frees
    <2>3. ents'[d] = NoEntries
      BY <1>2, <2>1, <2>2 DEF Frees
    <2> QED
      BY <1>1, <1>3, <2>1, <2>2, <2>3 DEF NoEntries
  <1>4. ASSUME Enters(p)
        PROVE  d = dp(p) /\ n = th[p].name /\ ents[d][n] = 0 /\ ents'[d][n] = ip(p)
    <2>1. d \in {ip(p), dp(p)} /\ d # ip(p)
      BY <1>1, <1>4, EnterEffect
    <2>2. n = th[p].name /\ ents'[d][n] = ip(p)
      BY <1>1, <1>4, <2>1, EnterEffect
    <2> QED
      BY <1>4, <2>1, <2>2 DEF Contents, Enters
  <1>5. ASSUME Clears(p)
        PROVE  d = dp(p) /\ n = th[p].name /\ ents[d][n] = ip(p) /\ ents'[d][n] = 0
    <2>1. d = dp(p) /\ n = th[p].name /\ ents'[d][n] = 0
      BY <1>1, <1>5, ClearEffect
    <2> QED
      BY <1>5, <2>1 DEF Contents, Clears
  <1>6. ~GivesUp(p)
    BY <1>1 DEF GivesUp
  <1> QED
    BY <1>3, <1>4, <1>5, <1>6
       DEF Case, Looks, Stops, Ends, Begins, Panics, Descends, Finds, Targets, Allocs, Unlinks, Puts

LEMMA RankedStep ==
  ASSUME Types, Places, RefCounts, Locks, Held, Contents, Ranked, NEW p \in Procs, Case(p), Moved(p)
  PROVE  Ranked'
  <1>1. PICK b \in Nat : \E rank \in [Inums -> 0..b] : InOrder(rank)
    BY DEF Ranked
  <1>2. PICK rank \in [Inums -> 0..b] : InOrder(rank)
    BY <1>1
  <1>3. ents \in [Inums -> [Elems -> Inum0]]
    BY DEF Types
  <1>4. ASSUME NEW q \in Procs, Phase(q) = "create"
        PROVE  /\ dp(q) \in Inums /\ ip(q) \in Inums /\ type[dp(q)] = "T_DIR"
               /\ rank[dp(q)] < rank[ip(q)]
    BY <1>2, <1>4, Whereabouts, NotZero DEF InOrder, Held, IpPhases, DpPhases
  <1>5. ASSUME NEW d \in Inums, NEW n \in Names, ents[d][n] # 0
        PROVE  /\ ents[d][n] \in Inums /\ type[d] = "T_DIR" /\ rank[d] < rank[ents[d][n]]
    <2>1. n \in Elems
      BY DEF Elems
    <2>2. ents[d][n] \in Inums
      BY <1>3, <1>5, <2>1, NotZero
    <2>3. ents[d] # NoEntries
      BY <1>5, <2>1 DEF NoEntries
    <2> QED
      BY <1>2, <1>5, <2>2, <2>3 DEF InOrder, Contents
  <1>6. CASE \E i \in Inums : Allocs(p, i)
    <2>1. PICK i \in Inums : Allocs(p, i)
      BY <1>6
    <2>2. PICK r : r = [rank EXCEPT ![i] = b + 1]
      OBVIOUS
    <2>3. r \in [Inums -> 0..(b + 1)]
      BY <1>1, <1>2, <2>2
    <2>4. \A j \in Inums : r[j] >= rank[j] /\ (type[j] = "T_DIR" => r[j] = rank[j])
      BY <1>1, <1>2, <2>1, <2>2 DEF Allocs
    <2>5. ASSUME NEW d \in Inums, NEW n \in Names, ents'[d][n] # 0
          PROVE  r[d] < r[ents'[d][n]]
      <3>1. ents' = ents
        BY <2>1 DEF Allocs
      <3>2. ents[d][n] \in Inums /\ type[d] = "T_DIR" /\ rank[d] < rank[ents[d][n]]
        BY <1>5, <2>5, <3>1
      <3>3. r[d] = rank[d] /\ r[ents[d][n]] >= rank[ents[d][n]] /\ r[ents[d][n]] \in 0..(b + 1)
        BY <2>3, <2>4, <3>2
      <3> QED
        BY <1>2, <3>1, <3>2, <3>3
    <2>6. r[dp(p)'] < r[ip(p)']
      <3>1. dp(p)' = dp(p) /\ ip(p)' = i
        BY <2>1 DEF Allocs, Goes, dp, ip
      <3>2. dp(p) \in Inums /\ type[dp(p)] = "T_DIR"
        BY <2>1, Whereabouts, NotZero DEF Allocs, MakePhases, Held, DpPhases
      <3>3. r[dp(p)] = rank[dp(p)] /\ rank[dp(p)] \in 0..b /\ r[i] = b + 1
        BY <1>2, <2>2, <2>4, <3>2
      <3> QED
        BY <1>1, <3>1, <3>3
    <2>7. ASSUME NEW q \in Procs \ {p}, Phase(q)' = "create" PROVE r[dp(q)'] < r[ip(q)']
      <3>1. dp(q)' = dp(q) /\ ip(q)' = ip(q) /\ Phase(q) = "create"
        BY <2>7, OtherProcess
      <3>2. dp(q) \in Inums /\ ip(q) \in Inums /\ type[dp(q)] = "T_DIR" /\ rank[dp(q)] < rank[ip(q)]
        BY <1>4, <3>1
      <3>3. r[dp(q)] = rank[dp(q)] /\ r[ip(q)] >= rank[ip(q)] /\ r[ip(q)] \in 0..(b + 1)
        BY <2>3, <2>4, <3>2
      <3> QED
        BY <1>2, <3>1, <3>2, <3>3
    <2>8. InOrder(r)'
      BY <2>5, <2>6, <2>7 DEF InOrder
    <2>9. b + 1 \in Nat
      BY <1>1
    <2> QED
      BY <2>3, <2>8, <2>9 DEF Ranked
  <1>7. CASE ~ \E i \in Inums : Allocs(p, i)
    <2>1. ASSUME NEW d \in Inums, NEW n \in Names, ents'[d][n] # 0
          PROVE  rank[d] < rank[ents'[d][n]]
      <3>1. CASE ents'[d][n] = ents[d][n]
        BY <1>5, <2>1, <3>1
      <3>2. CASE ents'[d][n] # ents[d][n]
        <4>1. Enters(p) /\ d = dp(p) /\ ents'[d][n] = ip(p)
          BY <2>1, <3>2, NamesStep
        <4> QED
          BY <1>4, <4>1 DEF Enters
      <3> QED
        BY <3>1, <3>2
    <2>2. ASSUME NEW q \in Procs, Phase(q)' = "create" PROVE rank[dp(q)'] < rank[ip(q)']
      <3>1. dp(q)' = dp(q) /\ ip(q)' = ip(q) /\ Phase(q) = "create"
        <4>1. CASE q # p
          BY <2>2, <4>1, OtherProcess
        <4>2. CASE q = p
          <5>1. th' = th
            BY <1>7, <2>2, <4>2, Turns
          <5> QED
            BY <2>2, <5>1 DEF Phase, dp, ip
        <4> QED
          BY <4>1, <4>2
      <3> QED
        BY <1>4, <3>1
    <2>3. InOrder(rank)'
      BY <2>1, <2>2 DEF InOrder
    <2> QED
      BY <1>1, <1>2, <2>3 DEF Ranked
  <1> QED
    BY <1>6, <1>7

LEMMA AlwaysKept ==
  ASSUME Always, NEW p \in Procs, Case(p), Moved(p)
  PROVE  Always'
  <1>1. Types /\ Places /\ RefCounts /\ Locks /\ Held /\ Contents /\ Ranked
    BY DEF Always
  <1>2. Types' /\ Places' /\ RefCounts' /\ Locks' /\ Held' /\ Contents' /\ Ranked'
    BY <1>1, TypesStep, PlacesStep, RefCountsStep, LocksStep, HeldStep, ContentsStep, RankedStep
  <1> QED
    BY <1>2 DEF Always

-----------------------------------------------------------------------------
(* Nobody waits for ever.                                                  *)

\* Who has a lock and waits for another one has a directory and waits for what
\* it names.
LEMMA WantsBelow ==
  ASSUME Always, NEW rank, InOrder(rank), NEW q \in Procs, Wants(q) # 0, LockOf(q) # 0
  PROVE  rank[LockOf(q)] < rank[Wants(q)]
  <1>1. Types /\ Places /\ Contents
    BY DEF Always
  <1>2. Phase(q) \in {"create", "unlink entry"} /\ Wants(q) = ip(q) /\ LockOf(q) = dp(q)
    <2>1. Phase(q) \in {"create", "unlink entry", "put new", "put back", "put entry", "unlink nlink"}
      BY DEF LockOf
    <2>2. ASSUME th[q].pc = "iput" PROVE FALSE
      <3>1. Wants(q) = 0
        BY <2>2 DEF Wants, At
      <3> QED
        BY <3>1
    <2>3. Phase(q) = th[q].pc
      BY <2>2 DEF Phase, PhaseOf
    <2>4. Phase(q) \notin {"put new", "put back", "put entry"}
      BY <1>1, <2>3 DEF Types, Thread, Pcs
    <2>5. Phase(q) # "unlink nlink"
      BY <2>3 DEF Wants, At
    <2>6. Phase(q) \in {"create", "unlink entry"}
      BY <2>1, <2>4, <2>5
    <2>7. Wants(q) = ip(q)
      BY <2>3, <2>6 DEF Wants, At
    <2> QED
      BY <2>6, <2>7 DEF LockOf
  <1>3. CASE Phase(q) = "create"
    BY <1>2, <1>3 DEF InOrder
  <1>4. CASE Phase(q) = "unlink entry"
    <2>1. dp(q) \in Inums /\ th[q].name \in Names
      BY <1>1, <1>4, Whereabouts, NotZero DEF DpPhases
    <2>2. ents[dp(q)][th[q].name] = ip(q) /\ ip(q) # 0
      BY <1>1, <1>2, <1>4 DEF Contents
    <2> QED
      BY <1>2, <2>1, <2>2 DEF InOrder
  <1> QED
    BY <1>2, <1>3, <1>4

LEMMA WantsType ==
  ASSUME Types, NEW p \in Procs
  PROVE  Wants(p) \in Inum0
  <1>1. th[p] \in Thread /\ 0 \in Inum0
    BY DEF Types, Inum0
  <1>2. th[p].at \in Inum0 /\ ip(p) \in Inum0 /\ dp(p) \in Inum0
    BY <1>1, ThreadFields DEF ip, dp
  <1> QED
    BY <1>1, <1>2 DEF Wants

LEMMA AlwaysNoDeadlock == Always => NoDeadlock
  <1> SUFFICES ASSUME Always, NEW S \in (SUBSET Procs) \ {{}},
                      \A p \in S : Wants(p) # 0 /\ lk[Wants(p)] \in S
               PROVE  FALSE
    BY DEF NoDeadlock
  <1>1. Types /\ Locks /\ Ranked
    BY DEF Always
  <1>2. PICK b \in Nat : \E rank \in [Inums -> 0..b] : InOrder(rank)
    BY <1>1 DEF Ranked
  <1>3. PICK rank \in [Inums -> 0..b] : InOrder(rank)
    BY <1>2
  <1>4. \A p \in S : Wants(p) \in Inums /\ rank[Wants(p)] \in 0..b
    BY <1>1, <1>3, WantsType, NotZero
  <1> DEFINE R == {rank[Wants(p)] : p \in S}
  <1>5. R \subseteq Int /\ R # {} /\ b \in Int /\ \A x \in R : x <= b
    BY <1>2, <1>4
  <1>6. Max(R) \in R /\ \A y \in R : Max(R) >= y
    BY <1>5, MaxInt
  <1>7. PICK p \in S : rank[Wants(p)] = Max(R)
    BY <1>6
  <1>8. PICK q \in S : q = lk[Wants(p)]
    OBVIOUS
  <1>9. LockOf(q) = Wants(p)
    BY <1>1, <1>4, <1>8 DEF Locks
  <1>10. rank[Wants(p)] < rank[Wants(q)]
    BY <1>3, <1>9, WantsBelow
  <1>11. Max(R) >= rank[Wants(q)]
    BY <1>6
  <1> QED
    BY <1>4, <1>7, <1>10, <1>11

-----------------------------------------------------------------------------
(* The tree, as long as nobody strays.                                     *)

\* Who has an inode as its ip, while that is the only reference, has it nowhere else.
LEMMA PointerOnce ==
  ASSUME Types, RefCounts, NEW p \in Procs, ip(p) \in Inums, ref[ip(p)] = 1
  PROVE  at(p) # ip(p) /\ dp(p) # ip(p) /\ cwd[p] # ip(p)
  <1>1. ref[ip(p)] >= PointersOf(th[p], cwd[p], ip(p))
    BY Alone
  <1>2. /\ PointersOf(th[p], cwd[p], ip(p))
              = Bit(cwd[p] = ip(p)) + Bit(at(p) = ip(p)) + Bit(ip(p) = ip(p)) + Bit(dp(p) = ip(p))
        /\ Bit(ip(p) = ip(p)) = 1
    BY BitType DEF PointersOf, at, ip, dp
  <1>3. Bit(cwd[p] = ip(p)) # 1 /\ Bit(at(p) = ip(p)) # 1 /\ Bit(dp(p) = ip(p)) # 1
    BY <1>1, <1>2, BitType
  <1> QED
    BY <1>3, BitType

LEMMA NobodyPoints ==
  ASSUME Types, RefCounts, NEW i \in Inums, \A q \in Procs : ~Points(q, i)
  PROVE  ref[i] = 0
  <1>1. {p \in Procs : cwd[p] = i} = {}
    BY DEF Points
  <1>2. {x \in Procs \X Locals : th[x[1]][x[2]] = i} = {}
    BY DEF Points, Locals, at, ip, dp
  <1> QED
    BY <1>1, <1>2, FS_EmptySet DEF RefCounts

LEMMA SubdirsFinite ==
  ASSUME NEW i \in Inums
  PROVE  /\ IsFiniteSet(Subdirs(i)) /\ Cardinality(Subdirs(i)) \in Nat
         /\ Cardinality(Subdirs(i)) = 0 => Subdirs(i) = {}
  <1>1. IsFiniteSet(Inums)
    BY DirsAssumption, FS_Interval DEF Inums, ROOTINO
  <1>2. Subdirs(i) \subseteq Inums
    BY DEF Subdirs, Dirs
  <1> QED
    BY <1>1, <1>2, FS_Subset, FS_CardinalityType, FS_EmptySet

\* Who is counted has a link, and who has none, no subdirectory.
LEMMA CountedLinks ==
  ASSUME Types, Links, NEW i \in Inums
  PROVE  /\ Counted(i) => nlink[i] >= 1
         /\ nlink[i] = 0 => ~Counted(i) /\ Subdirs(i) = {}
  <1>1. nlink[i] >= Bit(Counted(i)) + Cardinality(Subdirs(i))
    BY DEF Links, LinkOK
  <1>2. nlink[i] \in Int /\ Cardinality(Subdirs(i)) \in Nat
    BY SubdirsFinite DEF Types
  <1>3. Bit(Counted(i)) \in {0, 1} /\ (Counted(i) => Bit(Counted(i)) = 1)
    BY BitType
  <1>4. nlink[i] = 0 => Cardinality(Subdirs(i)) = 0
    BY <1>1, <1>2, <1>3
  <1> QED
    BY <1>1, <1>2, <1>3, <1>4, SubdirsFinite

\* Nobody else has a pointer to a new inode, and it is not the root.
LEMMA MakesAlone ==
  ASSUME Types, Places, RefCounts, Live, NewAlone, Links, NEW p \in Procs, Makes(p)
  PROVE  /\ ip(p) \in Inums /\ ip(p) # ROOTINO /\ type[ip(p)] # "free"
         /\ Phase(p) \in {"create", "put back"} /\ dp(p) \in Inums
         /\ at(p) # ip(p) /\ dp(p) # ip(p) /\ cwd[p] # ip(p)
         /\ \A q \in Procs \ {p} : ~Points(q, ip(p))
  <1>1. Phase(p) \in {"create", "put back"} /\ ip(p) \in Inums /\ dp(p) \in Inums
    BY Whereabouts, NotZero DEF Makes, IpPhases, DpPhases
  <1>2. nlink[ip(p)] = 0 /\ ref[ip(p)] = 1
    BY DEF NewAlone
  <1>3. Points(p, ip(p))
    BY DEF Points
  <1>4. type[ip(p)] # "free"
    BY <1>1, <1>3 DEF Live
  <1>5. ~Counted(ip(p))
    BY <1>1, <1>2, CountedLinks
  <1>6. ip(p) # ROOTINO
    BY <1>5 DEF Counted
  <1>7. \A q \in Procs \ {p} : ~Points(q, ip(p))
    BY <1>1, <1>2, <1>3, PointerCounted
  <1> QED
    BY <1>1, <1>2, <1>4, <1>6, <1>7, PointerOnce

LEMMA NotNew ==
  ASSUME Types, Places, RefCounts, Live, NewAlone, Links, NEW p \in Procs, NEW i \in Inums,
         i = ROOTINO \/ ~Nameless(i) \/ (Points(p, i) /\ (Makes(p) => i # ip(p)))
  PROVE  ~New(i)
  <1> SUFFICES ASSUME NEW q \in Procs, Makes(q), ip(q) = i PROVE FALSE
    BY DEF New
  <1>1. i # ROOTINO /\ \A r \in Procs \ {q} : ~Points(r, i)
    BY MakesAlone
  <1>2. Nameless(i)
    BY DEF NewAlone
  <1>3. q = p
    BY <1>1, <1>2
  <1> QED
    BY <1>1, <1>2, <1>3

\* What dirlookup finds in a directory that is in use.
LEMMA LookupLive ==
  ASSUME Types, Places, RefCounts, Live, NewAlone, DotsRight, Links, NEW p \in Procs,
         NEW d \in Inums, type[d] = "T_DIR", Points(p, d), ~Makes(p),
         NEW n \in Elems, NEW i \in Inums, ents[d][n] = i, n = ".." => d \notin gone
  PROVE  type[i] # "free" /\ ~New(i)
  <1>1. ~New(d) /\ i # 0
    BY NotNew, InumsAboveZero
  <1>2. CASE n \in Names
    <2>1. type[i] # "free" /\ ~Nameless(i)
      BY <1>1, <1>2 DEF Live, Nameless
    <2> QED
      BY <2>1, NotNew
  <1>3. CASE n = "."
    BY <1>1, <1>3 DEF DotsRight
  <1>4. CASE n = ".."
    BY <1>1, <1>4 DEF DotsRight
  <1> QED
    BY <1>2, <1>3, <1>4 DEF Elems

\* Who has not strayed now had not before.
LEMMA NotStrayed ==
  ASSUME Types, NEW p \in Procs, Case(p), ~strayed'
  PROVE  /\ ~strayed
         /\ \A i \in Inums, n \in Elems :
               /\ Descends(p, n, i) /\ n = ".." => at(p) \notin gone
               /\ Finds(p, n, i) /\ n = ".." => dp(p) \notin gone
  <1>1. \A i \in Inums, n \in Elems :
               /\ Descends(p, n, i) => ~strayed /\ (n = ".." => at(p) \notin gone)
               /\ Finds(p, n, i) => ~strayed /\ (n = ".." => dp(p) \notin gone)
    BY DEF Descends, Finds, Strays
  <1>2. CASE strayed' = strayed
    BY <1>1, <1>2
  <1>3. CASE \E i \in Inums, n \in Elems : Descends(p, n, i) \/ Finds(p, n, i)
    BY <1>1, <1>3
  <1> QED
    BY <1>1, <1>2, <1>3 DEF Case, Looks, Stops, Ends, Begins, Swaps, Allocs, Panics, Targets, Drops,
                Enters, GivesUp, Clears, Unlinks

LEMMA NoPanics ==
  ASSUME Live, NEW p \in Procs, NEW i \in Inums
  PROVE  ~Panics(p, i)
  BY DEF Panics, Live, Points

LEMMA PanicStep ==
  ASSUME Types, Places, RefCounts, Contents, Live, Links, panic = "no", NEW p \in Procs, Case(p), Moved(p)
  PROVE  panic' = "no"
  <1>1. CASE Clears(p)
    <2>1. ip(p) \in Inums /\ ip(p) # 0 /\ dp(p) \in Inums /\ th[p].name \in Names
      BY <1>1, Whereabouts, NotZero DEF Clears, IpPhases, DpPhases
    <2>2. ents[dp(p)][th[p].name] = ip(p)
      BY <1>1 DEF Clears, Contents
    <2>3. type[ip(p)] # "free"
      BY <2>1 DEF Live, Points
    <2>4. nlink[ip(p)] >= 1
      BY <2>1, <2>2, CountedLinks DEF Counted, Nameless
    <2>5. ~(nlink[ip(p)] < 1)
      BY <2>1, <2>4 DEF Types
    <2> QED
      BY <1>1, <2>3, <2>5 DEF Clears
  <1>2. CASE panic' = panic
    BY <1>2
  <1> QED
    BY <1>1, <1>2, NoPanics
       DEF Case, Looks, Stops, Ends, Begins, Swaps, Allocs, Descends, Finds, Targets, Drops,
           Enters, GivesUp, Unlinks

LEMMA Unpacked ==
  ASSUME Always, Sound
  PROVE  /\ Types /\ Places /\ RefCounts /\ Locks /\ Held /\ Contents /\ Ranked
         /\ Live /\ NewAlone /\ DotsRight /\ OneName /\ Links /\ panic = "no"
  BY DEF Always, Sound

\* A new pointer of p is to an inode that is in use.
LEMMA PointerLive ==
  ASSUME Always, Sound, NEW p \in Procs, Case(p), Moved(p), ~strayed',
         NEW i \in Inums, Points(p, i)'
  PROVE  type[i] # "free" \/ type'[i] # "free"
  <1>0. /\ Types /\ Places /\ RefCounts /\ Held /\ Contents
        /\ Live /\ NewAlone /\ DotsRight /\ Links
    BY Unpacked
  <1>1. Points(p, i) => type[i] # "free"
    BY <1>0 DEF Live
  <1>2. i # 0 /\ cwd[p] \in Inums /\ cwd \in [Procs -> Inums]
    BY <1>0, InumsAboveZero DEF Types
  <1>3. ASSUME NEW l \in Phases, Looks(p, l) PROVE Points(p, i)
    <2>1. at(p)' = at(p) /\ ip(p)' = ip(p) /\ dp(p)' = dp(p) /\ cwd' = cwd
      BY <1>3 DEF Looks, Goes, at, ip, dp
    <2> QED
      BY <2>1 DEF Points
  <1>4. ASSUME NEW l \in Phases, Stops(p, l) PROVE Points(p, i)
    <2>1. at(p)' = 0 /\ ip(p)' = 0 /\ dp(p)' = at(p) /\ cwd' = cwd
      BY <1>4 DEF Stops, Goes, at, ip, dp
    <2> QED
      BY <1>2, <2>1 DEF Points
  <1>5. ASSUME Ends(p) PROVE Points(p, i)
    <2>1. at(p)' = 0 /\ ip(p)' = at(p) /\ dp(p)' = 0 /\ cwd' = cwd
      BY <1>5 DEF Ends, Goes, at, ip, dp
    <2> QED
      BY <1>2, <2>1 DEF Points
  <1>6. ASSUME NEW j \in Inums, Begins(p, j) PROVE type[i] # "free"
    <2>1. at(p)' = j /\ ip(p)' = 0 /\ dp(p)' = 0 /\ cwd' = cwd
      BY <1>6 DEF Begins, Goes, at, ip, dp
    <2>2. i \in {ROOTINO, cwd[p]}
      BY <1>2, <1>6, <2>1 DEF Points, Begins
    <2> QED
      BY <1>0, <2>2 DEF Live, Points
  <1>7. ASSUME NEW j \in Inums, Swaps(p, j) PROVE Points(p, i)
    <2>1. at(p)' = 0 /\ ip(p)' = 0 /\ dp(p)' = 0
      BY <1>7 DEF Swaps, Goes, at, ip, dp
    <2>2. cwd'[p] = ip(p)
      BY <1>2, <1>7 DEF Swaps
    <2> QED
      BY <1>2, <2>1, <2>2 DEF Points
  <1>8. ASSUME NEW j \in Inums, Allocs(p, j) PROVE Points(p, i) \/ type'[i] # "free"
    <2>1. at(p)' = 0 /\ ip(p)' = j /\ dp(p)' = dp(p) /\ cwd' = cwd
      BY <1>8 DEF Allocs, Goes, at, ip, dp
    <2>2. type'[j] # "free"
      BY <1>0, <1>8 DEF Allocs, Types
    <2> QED
      BY <1>2, <2>1, <2>2 DEF Points
  <1>9. ASSUME NEW j \in Inums, NEW n \in Elems, Descends(p, n, j)
        PROVE  Points(p, i) \/ type[i] # "free"
    <2>1. at(p)' = j /\ ip(p)' = 0 /\ dp(p)' = at(p) /\ cwd' = cwd
      BY <1>9 DEF Descends, Goes, at, ip, dp
    <2>2. /\ at(p) \in Inums /\ type[at(p)] = "T_DIR" /\ ents[at(p)][n] = j
          /\ Points(p, at(p)) /\ ~Makes(p)
      BY <1>0, <1>9, Whereabouts, NotZero DEF Descends, AtPhases, Points, Makes
    <2>3. n = ".." => at(p) \notin gone
      BY <1>0, <1>9, NotStrayed
    <2>4. type[j] # "free"
      BY <1>0, <2>2, <2>3, LookupLive
    <2> QED
      BY <1>2, <2>1, <2>4 DEF Points
  <1>10. ASSUME NEW j \in Inums, NEW n \in Elems, Finds(p, n, j)
         PROVE  Points(p, i) \/ type[i] # "free"
    <2>1. at(p)' = 0 /\ ip(p)' = j /\ dp(p)' = dp(p) /\ cwd' = cwd
      BY <1>10 DEF Finds, Goes, at, ip, dp
    <2>2. /\ dp(p) \in Inums /\ type[dp(p)] = "T_DIR" /\ ents[dp(p)][n] = j
          /\ Points(p, dp(p)) /\ ~Makes(p)
      BY <1>0, <1>10, Whereabouts, NotZero DEF Finds, MakePhases, DpPhases, Points, Makes, Held
    <2>3. n = ".." => dp(p) \notin gone
      BY <1>0, <1>10, NotStrayed
    <2>4. type[j] # "free"
      BY <1>0, <2>2, <2>3, LookupLive
    <2> QED
      BY <1>2, <2>1, <2>4 DEF Points
  <1>11. ASSUME NEW j \in Inums, NEW n \in Elems, Targets(p, n, j)
         PROVE  Points(p, i) \/ type[i] # "free"
    <2>1. at(p)' = 0 /\ ip(p)' = j /\ dp(p)' = dp(p) /\ cwd' = cwd
      BY <1>11 DEF Targets, Goes, at, ip, dp
    <2>2. dp(p) \in Inums /\ n \in Names /\ ents[dp(p)][n] = j
      BY <1>0, <1>11, Whereabouts, NotZero DEF Targets, DpPhases
    <2>3. type[j] # "free"
      BY <1>0, <2>2, InumsAboveZero DEF Live
    <2> QED
      BY <1>2, <2>1, <2>3 DEF Points
  <1>12. ASSUME NEW j \in Inums, NEW l \in Phases, Drops(p, j, l) PROVE Points(p, i)
    <2>1. /\ at(p)' \in {0, at(p)} /\ ip(p)' \in {0, ip(p)} /\ dp(p)' \in {0, dp(p)}
          /\ cwd' = cwd
      BY <1>12 DEF Drops, Goes, at, ip, dp
    <2> QED
      BY <1>2, <2>1 DEF Points
  <1>13. ASSUME Enters(p) \/ GivesUp(p) \/ Clears(p) \/ Unlinks(p) PROVE Points(p, i)
    <2>1. at(p)' = 0 /\ ip(p)' = ip(p) /\ dp(p)' \in {0, dp(p)} /\ cwd' = cwd
      BY <1>13 DEF Enters, GivesUp, Clears, Unlinks, Goes, at, ip, dp
    <2> QED
      BY <1>2, <2>1 DEF Points
  <1>14. \A j \in Inums : ~Panics(p, j)
    BY <1>0, NoPanics
  <1> QED
    BY <1>1, <1>3, <1>4, <1>5, <1>6, <1>7, <1>8, <1>9, <1>10, <1>11, <1>12, <1>13, <1>14 DEF Case

LEMMA LiveStep ==
  ASSUME Always, Sound, NEW p \in Procs, Case(p), Moved(p), ~strayed'
  PROVE  Live'
  <1>0. /\ Types /\ Places /\ RefCounts /\ Locks /\ Held /\ Contents
        /\ Live /\ NewAlone /\ DotsRight /\ OneName /\ Links
    BY Unpacked
  <1>1. ASSUME NEW q \in Procs, NEW i \in Inums, Points(q, i)' PROVE type'[i] # "free"
    <2>1. type[i] # "free" \/ type'[i] # "free"
      <3>1. CASE q = p
        BY <1>1, <3>1, PointerLive
      <3>2. CASE q # p
        <4>1. Points(q, i)
          BY <1>0, <1>1, <3>2, OtherProcess
        <4> QED
          BY <1>0, <4>1 DEF Live
      <3> QED
        BY <3>1, <3>2
    <2>2. type[i] # "free" => type'[i] = type[i]
      BY <1>0, <1>1, TypesLast
    <2> QED
      BY <2>1, <2>2
  <1>2. ASSUME NEW i \in Inums, Counted(i), type[i] # "free" PROVE type'[i] = type[i]
    <2>1. nlink[i] >= 1
      BY <1>0, <1>2, CountedLinks
    <2>2. ~Frees(i)
      BY <2>1 DEF Frees
    <2> QED
      BY <1>0, <1>2, <2>2, TypesLast
  <1>3. type'[ROOTINO] # "free"
    BY <1>0, <1>2, RootIsInum DEF Counted, Live
  <1>4. ASSUME NEW d \in Inums, NEW n \in Names, ents'[d][n] # 0
        PROVE  type'[ents'[d][n]] # "free"
    <2>1. CASE ents'[d][n] = ents[d][n]
      <3>1. n \in Elems /\ ents \in [Inums -> [Elems -> Inum0]]
        BY <1>0 DEF Elems, Types
      <3>2. ents[d][n] \in Inums
        BY <1>4, <2>1, <3>1, NotZero
      <3>3. Counted(ents[d][n]) /\ type[ents[d][n]] # "free"
        BY <1>0, <1>4, <2>1 DEF Counted, Nameless, Live
      <3> QED
        BY <1>2, <2>1, <3>2, <3>3
    <2>2. CASE ents'[d][n] # ents[d][n]
      <3>1. Enters(p) /\ ents'[d][n] = ip(p)
        BY <1>0, <1>4, <2>2, NamesStep
      <3>2. ip(p) \in Inums /\ ip(p)' = ip(p)
        BY <1>0, <3>1, DirIsNotInode DEF Enters, Goes, ip
      <3>3. Points(p, ip(p))'
        BY DEF Points
      <3> QED
        BY <1>1, <3>1, <3>2, <3>3
    <2> QED
      BY <2>1, <2>2
  <1> QED
    BY <1>1, <1>3, <1>4 DEF Live

\* The inodes that somebody else is making are left alone.
LEMMA Apart ==
  ASSUME Always, Sound, NEW p \in Procs, Case(p), Moved(p), ~strayed',
         NEW q \in Procs \ {p}, Makes(q)
  PROVE  /\ nlink'[ip(q)] = nlink[ip(q)] /\ ref'[ip(q)] = ref[ip(q)]
         /\ ents'[ip(q)] = ents[ip(q)] /\ type'[ip(q)] = type[ip(q)]
         /\ valid[ip(q)] => valid'[ip(q)]
         /\ Nameless(ip(q))'
  <1>0. /\ Types /\ Places /\ RefCounts /\ Locks /\ Held /\ Contents
        /\ Live /\ NewAlone /\ DotsRight /\ OneName /\ Links
    BY Unpacked
  <1> DEFINE x == ip(q)
  <1>1. /\ x \in Inums /\ x # ROOTINO /\ type[x] # "free" /\ ~Points(p, x)
        /\ ref[x] = 1 /\ Nameless(x) /\ New(x)
    <2>1. x \in Inums /\ x # ROOTINO /\ type[x] # "free" /\ \A r \in Procs \ {q} : ~Points(r, x)
      BY <1>0, MakesAlone
    <2>2. ref[x] = 1 /\ Nameless(x) /\ New(x)
      BY <1>0 DEF NewAlone, New
    <2> QED
      BY <2>1, <2>2
  <1> HIDE DEF x
  <1>2. at(p) # x /\ ip(p) # x /\ dp(p) # x /\ cwd[p] # x
    BY <1>1 DEF Points
  <1>3. \A i \in Inums : Puts(p, i) => i # x
    BY <1>2 DEF Puts, Swaps, Drops, Dropped
  <1>4. type'[x] = type[x]
    BY <1>0, <1>1, <1>3, TypesLast
  <1>5. valid[x] => valid'[x]
    BY <1>1, <1>4 DEF Moved, CopiesKept
  <1>6. nlink'[x] = nlink[x]
    <2>1. ASSUME NEW i \in Inums, Allocs(p, i) PROVE nlink'[x] = nlink[x]
      BY <1>0, <1>1, <2>1 DEF Allocs, Types
    <2>2. ASSUME Enters(p) PROVE nlink'[x] = nlink[x]
      BY <1>0, <1>1, <1>2, <2>2 DEF Enters, Types
    <2>3. ASSUME GivesUp(p) PROVE nlink'[x] = nlink[x]
      BY <1>0, <1>1, <1>2, <2>3 DEF GivesUp, Types
    <2>4. ASSUME Clears(p) PROVE nlink'[x] = nlink[x]
      BY <1>0, <1>1, <1>2, <2>4 DEF Clears, Types
    <2>5. ASSUME Unlinks(p) PROVE nlink'[x] = nlink[x]
      BY <1>0, <1>1, <1>2, <2>5 DEF Unlinks, Types
    <2>6. ASSUME nlink' = nlink PROVE nlink'[x] = nlink[x]
      BY <2>6
    <2> QED
      BY <2>1, <2>2, <2>3, <2>4, <2>5, <2>6
         DEF Case, Looks, Stops, Ends, Begins, Panics, Swaps, Drops, Descends, Finds, Targets, iput
  <1>7. ref'[x] = ref[x]
    <2>1. ASSUME NEW i \in Inums, i # x, Gets(i) PROVE ref'[x] = ref[x]
      BY <1>0, <1>1, <2>1 DEF Gets, Types
    <2>2. ASSUME NEW i \in Inums, i # x, iput(i) PROVE ref'[x] = ref[x]
      BY <1>0, <1>1, <2>2 DEF iput, Types
    <2>3. ASSUME NEW i \in Inums, Begins(p, i) \/ Allocs(p, i) PROVE i # x /\ Gets(i)
      BY <1>1, <1>2, <2>3 DEF Begins, Allocs
    <2>4. ASSUME NEW i \in Inums, NEW n \in Elems, Descends(p, n, i) PROVE i # x /\ Gets(i)
      <3>1. /\ at(p) \in Inums /\ type[at(p)] = "T_DIR" /\ ents[at(p)][n] = i
            /\ Points(p, at(p)) /\ ~Makes(p) /\ Gets(i)
        BY <1>0, <2>4, Whereabouts, NotZero DEF Descends, AtPhases, Points, Makes
      <3>2. n = ".." => at(p) \notin gone
        BY <1>0, <2>4, NotStrayed
      <3>3. ~New(i)
        BY <1>0, <3>1, <3>2, LookupLive
      <3> QED
        BY <1>1, <3>1, <3>3
    <2>5. ASSUME NEW i \in Inums, NEW n \in Elems, Finds(p, n, i) PROVE i # x /\ Gets(i)
      <3>1. /\ dp(p) \in Inums /\ type[dp(p)] = "T_DIR" /\ ents[dp(p)][n] = i
            /\ Points(p, dp(p)) /\ ~Makes(p) /\ Gets(i)
        BY <1>0, <2>5, Whereabouts, NotZero DEF Finds, MakePhases, DpPhases, Points, Makes, Held
      <3>2. n = ".." => dp(p) \notin gone
        BY <1>0, <2>5, NotStrayed
      <3>3. ~New(i)
        BY <1>0, <3>1, <3>2, LookupLive
      <3> QED
        BY <1>1, <3>1, <3>3
    <2>6. ASSUME NEW i \in Inums, NEW n \in Elems, Targets(p, n, i) PROVE i # x /\ Gets(i)
      <3>1. dp(p) \in Inums /\ n \in Names /\ ents[dp(p)][n] = i
        BY <1>0, <2>6, Whereabouts, NotZero DEF Targets, DpPhases
      <3> QED
        BY <1>1, <2>6, <3>1 DEF Targets, Nameless
    <2>7. ASSUME NEW i \in Inums, Swaps(p, i) \/ \E l \in Phases : Drops(p, i, l)
          PROVE  i # x /\ iput(i)
      BY <1>3, <2>7 DEF Puts, Swaps, Drops
    <2>8. ASSUME ref' = ref PROVE ref'[x] = ref[x]
      BY <2>8
    <2>9. CASE \E i \in Inums : i # x /\ (Gets(i) \/ iput(i))
      BY <2>1, <2>2, <2>9
    <2> QED
      BY <2>3, <2>4, <2>5, <2>6, <2>7, <2>8, <2>9
         DEF Case, Looks, Stops, Ends, Panics, Enters, GivesUp, Clears, Unlinks
  <1>8. ents'[x] = ents[x]
    <2>0. Types' /\ ents \in [Inums -> [Elems -> Inum0]]
      BY <1>0, TypesStep DEF Types
    <2>1. ASSUME NEW i \in Inums, Puts(p, i) PROVE ents'[x] = ents[x]
      <3>1. i # x
        BY <1>3, <2>1
      <3> QED
        <4>1. Frees(i) \/ ents' = ents
          BY <1>0, <2>1, PutOutcome
        <4>2. Frees(i) => ents' = [ents EXCEPT ![i] = NoEntries]
          BY DEF Frees
        <4> QED
          BY <1>1, <2>0, <3>1, <4>1, <4>2
    <2>2. ASSUME Enters(p) PROVE ents'[x] = ents[x]
      BY <1>0, <1>1, <1>2, <2>2, EnterEffect
    <2>3. ASSUME Clears(p) PROVE ents'[x] = ents[x]
      BY <1>0, <1>1, <1>2, <2>3, ClearEffect
    <2>4. ASSUME GivesUp(p) PROVE ents'[x] = ents[x]
      <3>1. \A n \in Elems : ents'[x][n] = ents[x][n]
        BY <1>1, <1>2, <2>4 DEF GivesUp
      <3>2. ents'[x] \in [Elems -> Inum0] /\ ents[x] \in [Elems -> Inum0]
        BY <1>1, <2>0 DEF Types
      <3> QED
        BY <3>1, <3>2
    <2>5. ASSUME ents' = ents PROVE ents'[x] = ents[x]
      BY <2>5
    <2> QED
      BY <2>1, <2>2, <2>3, <2>4, <2>5
         DEF Case, Looks, Stops, Ends, Begins, Panics, Descends, Finds, Targets, Allocs, Unlinks, Puts
  <1>9. ASSUME NEW d \in Inums, NEW n \in Names PROVE ents'[d][n] # x
    <2>1. ents[d][n] # x
      BY <1>1 DEF Nameless
    <2>2. x # 0
      BY <1>1, InumsAboveZero
    <2>3. ents'[d][n] # ents[d][n] => ents'[d][n] \in {ip(p), 0}
      BY <1>0, NamesStep
    <2> QED
      BY <1>2, <2>1, <2>2, <2>3
  <1>10. ip(q)' = x
    BY <1>0, OtherProcess DEF x
  <1>11. Nameless(ip(q))'
    BY <1>9, <1>10 DEF Nameless
  <1> QED
    BY <1>4, <1>5, <1>6, <1>7, <1>8, <1>11 DEF x

LEMMA NewAloneStep ==
  ASSUME Always, Sound, NEW p \in Procs, Case(p), Moved(p), ~strayed'
  PROVE  NewAlone'
  <1>0. /\ Types /\ Places /\ RefCounts /\ Locks /\ Held /\ Contents
        /\ Live /\ NewAlone /\ DotsRight /\ OneName /\ Links
    BY Unpacked
  <1>1. ASSUME NEW q \in Procs \ {p}, Makes(q)'
        PROVE  /\ nlink'[ip(q)'] = 0 /\ ref'[ip(q)'] = 1 /\ Nameless(ip(q))'
               /\ \A n \in Names : ents'[ip(q)'][n] = 0
               /\ Phase(q)' = "create" => ents'[ip(q)'] = NoEntries
               /\ Phase(q)' = "put back" => valid'[ip(q)']
    <2>1. Makes(q) /\ ip(q)' = ip(q) /\ Phase(q)' = Phase(q)
      BY <1>0, <1>1, OtherProcess
    <2>2. /\ nlink[ip(q)] = 0 /\ ref[ip(q)] = 1 /\ \A n \in Names : ents[ip(q)][n] = 0
          /\ Phase(q) = "create" => ents[ip(q)] = NoEntries
          /\ Phase(q) = "put back" => valid[ip(q)]
      BY <1>0, <2>1 DEF NewAlone
    <2>3. /\ nlink'[ip(q)] = nlink[ip(q)] /\ ref'[ip(q)] = ref[ip(q)]
          /\ ents'[ip(q)] = ents[ip(q)] /\ (valid[ip(q)] => valid'[ip(q)])
          /\ Nameless(ip(q))'
      BY <2>1, Apart
    <2> QED
      BY <2>1, <2>2, <2>3
  <1>2. ASSUME Makes(p)'
        PROVE  /\ nlink'[ip(p)'] = 0 /\ ref'[ip(p)'] = 1 /\ Nameless(ip(p))'
               /\ \A n \in Names : ents'[ip(p)'][n] = 0
               /\ Phase(p)' = "create" => ents'[ip(p)'] = NoEntries
               /\ Phase(p)' = "put back" => valid'[ip(p)']
    <2>1. ASSUME NEW i \in Inums, Allocs(p, i)
          PROVE  /\ nlink'[ip(p)'] = 0 /\ ref'[ip(p)'] = 1 /\ Nameless(ip(p))'
                 /\ \A n \in Names : ents'[ip(p)'][n] = 0
                 /\ Phase(p)' = "create" => ents'[ip(p)'] = NoEntries
                 /\ Phase(p)' = "put back" => valid'[ip(p)']
      <3>1. ip(p)' = i /\ Phase(p)' = "create" /\ ents' = ents /\ type[i] = "free"
        BY <2>1 DEF Allocs, Goes, ip
      <3>2. nlink'[i] = 0
        BY <1>0, <2>1 DEF Allocs, Types
      <3>3. ref[i] = 0
        BY <1>0, <3>1, NobodyPoints DEF Live
      <3>4. ref'[i] = 1
        BY <1>0, <2>1, <3>3 DEF Allocs, Gets, Types
      <3>5. ents[i] = NoEntries
        BY <1>0, <3>1 DEF Contents
      <3>6. \A n \in Names : ents[i][n] = 0
        BY <3>5 DEF NoEntries, Elems
      <3>7. \A d \in Inums : \A n \in Names : ents[d][n] # i
        BY <1>0, <3>1, InumsAboveZero DEF Live
      <3>8. Nameless(ip(p))'
        BY <3>1, <3>7 DEF Nameless
      <3> QED
        BY <3>1, <3>2, <3>4, <3>5, <3>6, <3>8
    <2>2. ASSUME Makes(p), ip(p)' = ip(p), GivesUp(p)
          PROVE  /\ nlink'[ip(p)'] = 0 /\ ref'[ip(p)'] = 1 /\ Nameless(ip(p))'
                 /\ \A n \in Names : ents'[ip(p)'][n] = 0
                 /\ Phase(p)' = "create" => ents'[ip(p)'] = NoEntries
                 /\ Phase(p)' = "put back" => valid'[ip(p)']
      <3>1. Phase(p)' = "put back" /\ valid'[ip(p)] /\ ref' = ref /\ ip(p) \in Inums
        BY <1>0, <2>2, DirIsNotInode DEF GivesUp, Goes
      <3>2. nlink'[ip(p)] = 0
        BY <1>0, <2>2, <3>1 DEF GivesUp, Types
      <3>3. ref[ip(p)] = 1 /\ Nameless(ip(p)) /\ \A n \in Names : ents[ip(p)][n] = 0
        BY <1>0, <2>2 DEF NewAlone
      <3>4. \A d \in Inums : \A n \in Names : ents'[d][n] = ents[d][n]
        BY <2>2, DirsAssumption DEF GivesUp, Elems
      <3>5. Nameless(ip(p))'
        BY <2>2, <3>3, <3>4 DEF Nameless
      <3> QED
        BY <2>2, <3>1, <3>2, <3>3, <3>4, <3>5
    <2>3. ASSUME Makes(p), ip(p)' = ip(p), th' = th
          PROVE  \E i \in Inums : Panics(p, i)
      <3>1. Phase(p)' = Phase(p) /\ Phase(p) \in {"create", "put back"}
        BY <2>3 DEF Phase, Makes
      <3>2. ASSUME NEW l \in Phases, Looks(p, l) \/ Stops(p, l) PROVE FALSE
        BY <3>1, <3>2 DEF Looks, LookTurns, Stops
      <3>3. ASSUME NEW i \in Inums, Begins(p, i) \/ Swaps(p, i) \/ Allocs(p, i) PROVE FALSE
        BY <3>1, <3>3 DEF Begins, Swaps, Allocs, MakePhases
      <3>4. ASSUME NEW i \in Inums, NEW n \in Elems, Descends(p, n, i) \/ Finds(p, n, i) \/ Targets(p, n, i)
            PROVE  FALSE
        BY <3>1, <3>4 DEF Descends, Finds, Targets, MakePhases
      <3>5. ASSUME NEW i \in Inums, NEW l \in Phases, Drops(p, i, l) PROVE FALSE
        BY <3>1, <3>5 DEF Drops, DropTurns, Goes
      <3>6. ASSUME Ends(p) \/ Enters(p) \/ GivesUp(p) \/ Clears(p) \/ Unlinks(p) PROVE FALSE
        BY <3>1, <3>6 DEF Ends, Enters, GivesUp, Clears, Unlinks, Goes
      <3> QED
        BY <3>2, <3>3, <3>4, <3>5, <3>6 DEF Case
    <2> QED
      BY <1>0, <1>2, <2>1, <2>2, <2>3, Turns, NoPanics
  <1> QED
    BY <1>1, <1>2 DEF NewAlone

\* An inode is new from ialloc until it has its name, or is given up.
LEMMA NewStep ==
  ASSUME Always, Sound, NEW p \in Procs, Case(p), Moved(p), NEW d \in Inums
  PROVE  /\ New(d)' => New(d) \/ Allocs(p, d)
         /\ New(d) => \/ New(d)'
                      \/ Enters(p) /\ d = ip(p)
                      \/ Puts(p, d) /\ Phase(p) = "put back" /\ Makes(p) /\ d = ip(p)
  <1>0. Types /\ Places /\ RefCounts /\ Live
    BY Unpacked
  <1>1. ASSUME NEW q \in Procs \ {p}
        PROVE  Makes(q)' /\ ip(q)' = d <=> Makes(q) /\ ip(q) = d
    BY <1>0, OtherProcess
  <1>2. ASSUME Makes(p)', ip(p)' = d PROVE (Makes(p) /\ ip(p) = d) \/ Allocs(p, d)
    <2>1. ASSUME NEW i \in Inums, Allocs(p, i) PROVE i = d
      BY <1>2, <2>1 DEF Allocs, Goes, ip
    <2> QED
      BY <1>0, <1>2, <2>1, Turns
  <1>3. ASSUME Makes(p), ip(p) = d
        PROVE  (Makes(p)' /\ ip(p)' = d) \/ Enters(p) \/ (Puts(p, d) /\ Phase(p) = "put back")
    <2>0. Phase(p) \in {"create", "put back"} /\ (Phase(p) = "put back" => op(p) # "unlink")
      BY <1>3 DEF Makes
    <2>1. ASSUME NEW l \in Phases, Looks(p, l) \/ Stops(p, l) PROVE FALSE
      BY <2>0, <2>1 DEF Looks, LookTurns, Stops
    <2>2. ASSUME NEW i \in Inums, Begins(p, i) \/ Swaps(p, i) \/ Allocs(p, i) PROVE FALSE
      BY <2>0, <2>2 DEF Begins, Swaps, Allocs, MakePhases
    <2>3. ASSUME NEW i \in Inums, NEW n \in Elems, Descends(p, n, i) \/ Finds(p, n, i) \/ Targets(p, n, i)
          PROVE  FALSE
      BY <2>0, <2>3 DEF Descends, Finds, Targets, MakePhases
    <2>4. ASSUME Ends(p) \/ Clears(p) \/ Unlinks(p) PROVE FALSE
      BY <2>0, <2>4 DEF Ends, Clears, Unlinks
    <2>5. ASSUME NEW i \in Inums, NEW l \in Phases, Drops(p, i, l)
          PROVE  Puts(p, d) /\ Phase(p) = "put back"
      <3>1. Phase(p) = "put back"
        BY <2>0, <2>5 DEF Drops, DropTurns
      <3>2. i = ip(p)
        BY <2>5, <3>1 DEF Drops, Dropped
      <3> QED
        BY <1>3, <2>5, <3>1, <3>2 DEF Puts
    <2>6. ASSUME GivesUp(p) PROVE Makes(p)' /\ ip(p)' = d
      <3>1. Phase(p)' = "put back" /\ op(p)' = op(p) /\ ip(p)' = ip(p) /\ Phase(p) = "create"
        BY <2>6 DEF GivesUp, Goes, op, ip
      <3>2. op(p) # "unlink"
        BY <1>0, <3>1, Whereabouts DEF CallOK, MakePhases
      <3> QED
        BY <1>3, <3>1, <3>2 DEF Makes
    <2> QED
      BY <1>0, <2>1, <2>2, <2>3, <2>4, <2>5, <2>6, NoPanics DEF Case
  <1>4. New(d)' <=> (Makes(p)' /\ ip(p)' = d) \/ \E q \in Procs \ {p} : Makes(q)' /\ ip(q)' = d
    BY DEF New
  <1>5. New(d) <=> (Makes(p) /\ ip(p) = d) \/ \E q \in Procs \ {p} : Makes(q) /\ ip(q) = d
    BY DEF New
  <1>6. (\E q \in Procs \ {p} : Makes(q)' /\ ip(q)' = d) <=> \E q \in Procs \ {p} : Makes(q) /\ ip(q) = d
    BY <1>1
  <1> QED
    BY <1>2, <1>3, <1>4, <1>5, <1>6

\* What has changed when "." or ".." of a directory has.
LEMMA DotsStep ==
  ASSUME Always, Sound, NEW p \in Procs, Case(p), Moved(p),
         NEW d \in Inums, NEW n \in {".", ".."}, ents'[d][n] # ents[d][n]
  PROVE  \/ New(d)
         \/ Enters(p) /\ d = dp(p) /\ ents[d][n] = 0
         \/ Puts(p, d) /\ Frees(d)
  <1>0. Types /\ Places /\ RefCounts /\ Locks /\ Contents
    BY Unpacked
  <1>1. n \in Elems /\ n \notin Names /\ ents \in [Inums -> [Elems -> Inum0]]
    BY <1>0, DirsAssumption DEF Elems, Types
  <1>2. ASSUME NEW i \in Inums, Puts(p, i) PROVE Puts(p, d) /\ Frees(d)
    <2>1. Frees(i)
      BY <1>0, <1>2, PutOutcome
    <2>2. d = i
      BY <1>1, <2>1 DEF Frees
    <2> QED
      BY <1>2, <2>1, <2>2
  <1>3. ASSUME Enters(p) PROVE New(d) \/ (d = dp(p) /\ ents[d][n] = 0)
    <2>1. ents[dp(p)][th[p].name] = 0 /\ Makes(p)
      BY <1>0, <1>3 DEF Enters, Contents, Makes
    <2>2. d = ip(p) => New(d)
      BY <2>1 DEF New
    <2>3. d # ip(p) => d = dp(p) /\ n = th[p].name
      BY <1>0, <1>1, <1>3, EnterEffect
    <2> QED
      BY <2>1, <2>2, <2>3
  <1>4. ASSUME Clears(p) PROVE FALSE
    <2>1. n = th[p].name
      BY <1>0, <1>1, <1>4, ClearEffect
    <2> QED
      BY <1>0, <1>1, <1>4, <2>1, Whereabouts DEF Clears
  <1>5. ASSUME GivesUp(p) PROVE New(d)
    <2>1. d = ip(p)
      BY <1>1, <1>5 DEF GivesUp
    <2> QED
      BY <1>5, <2>1 DEF GivesUp, New, Makes
  <1> QED
    BY <1>2, <1>3, <1>4, <1>5
       DEF Case, Looks, Stops, Ends, Begins, Panics, Descends, Finds, Targets, Allocs, Unlinks, Puts

\* "." and ".." of a directory stay as they are from the end of mkdir until it is freed.
LEMMA DotsStay ==
  ASSUME Always, Sound, NEW p \in Procs, Case(p), Moved(p),
         NEW d \in Inums, type[d] = "T_DIR", ~New(d), type'[d] # "free"
  PROVE  ents'[d]["."] = ents[d]["."] /\ ents'[d][".."] = ents[d][".."]
  <1>0. Types /\ DotsRight
    BY Unpacked
  <1>1. ents[d]["."] = d /\ ents[d][".."] # 0 /\ d # 0
    BY <1>0, InumsAboveZero DEF DotsRight
  <1>2. ~Frees(d)
    BY <1>0 DEF Frees, Types
  <1>3. ASSUME NEW n \in {".", ".."} PROVE ents'[d][n] = ents[d][n]
    BY <1>1, <1>2, DotsStep
  <1> QED
    BY <1>3

\* A new inode that is given up is freed.
LEMMA NewIsFreed ==
  ASSUME Always, Sound, NEW p \in Procs, Case(p), Moved(p), NEW d \in Inums,
         Puts(p, d), Phase(p) = "put back", Makes(p), d = ip(p)
  PROVE  type'[d] = "free"
  <1>1. Types /\ Places /\ RefCounts /\ NewAlone
    BY Unpacked
  <1>2. nlink[d] = 0 /\ ref[d] = 1 /\ valid[d]
    BY <1>1 DEF NewAlone
  <1>3. Frees(d)
    BY <1>1, <1>2, PutOutcome
  <1> QED
    BY <1>1, <1>3 DEF Frees, Types

LEMMA DotsRightStep ==
  ASSUME Always, Sound, NEW p \in Procs, Case(p), Moved(p), ~strayed'
  PROVE  DotsRight'
  <1>0. /\ Types /\ Places /\ RefCounts /\ Locks /\ Held /\ Contents
        /\ Live /\ NewAlone /\ DotsRight /\ OneName /\ Links
    BY Unpacked
  <1> SUFFICES ASSUME NEW d \in Inums, type'[d] = "T_DIR", ~New(d)'
               PROVE  /\ ents'[d]["."] = d /\ ents'[d][".."] # 0
                      /\ d \notin gone' => type'[ents'[d][".."]] # "free" /\ ~New(ents[d][".."])'
    BY DEF DotsRight
  <1>1. CASE New(d)
    <2>1. Enters(p) /\ d = ip(p)
      BY <1>1, NewStep, NewIsFreed
    <2>2. type' = type /\ Phase(p) = "create"
      BY <2>1 DEF Enters
    <2>3. op(p) = "mkdir" /\ Makes(p)
      BY <1>0, <2>1, <2>2 DEF Held, Makes
    <2>4. "." \in Elems /\ ".." \in Elems
      BY DEF Elems
    <2>5. ents'[d]["."] = d /\ ents'[d][".."] = dp(p)
      BY <1>0, <2>1, <2>3, <2>4, EnterEffect
    <2>6. dp(p) \in Inums /\ dp(p) # 0 /\ dp(p) # ip(p)
      BY <1>0, <2>1, DirIsNotInode, InumsAboveZero
    <2>7. type'[dp(p)] = "T_DIR"
      BY <1>0, <2>2 DEF Held
    <2>8. ~New(dp(p))
      BY <1>0, <2>6, NotNew DEF Points
    <2>9. ~Allocs(p, dp(p))
      BY <2>2 DEF Allocs, MakePhases
    <2>10. \A q \in Procs : ~(Makes(q)' /\ ip(q)' = dp(p))
      <3>1. PICK x \in Inums : x = dp(p)
        BY <2>6
      <3>2. ~New(x)'
        BY <2>8, <2>9, <3>1, NewStep
      <3> QED
        BY <3>1, <3>2 DEF New
    <2>11. ~New(ents[d][".."])'
      BY <2>5, <2>10 DEF New
    <2> QED
      BY <2>5, <2>6, <2>7, <2>11
  <1>2. CASE ~New(d)
    <2>1. type[d] = "T_DIR"
      <3>1. CASE type[d] = "free"
        <4>1. type' # type
          BY <3>1
        <4>2. PICK i \in Inums : Puts(p, i) \/ Allocs(p, i)
          BY <4>1 DEF Case, Looks, Stops, Ends, Begins, Panics, Descends, Finds, Targets, Enters,
                      GivesUp, Clears, Unlinks, Puts
        <4>3. ASSUME Puts(p, i) PROVE FALSE
          <5>1. Frees(i)
            BY <1>0, <4>1, <4>3, PutOutcome
          <5> QED
            BY <1>0, <3>1, <5>1 DEF Frees, Types
        <4>4. ASSUME Allocs(p, i) PROVE FALSE
          <5>1. i = d
            BY <1>0, <3>1, <4>4 DEF Allocs, Types
          <5>2. Makes(p)' /\ ip(p)' = d
            BY <4>4, <5>1 DEF Allocs, Goes, Makes, ip
          <5> QED
            BY <5>2 DEF New
        <4> QED
          BY <4>2, <4>3, <4>4
      <3>2. CASE type[d] # "free"
        BY <1>0, <3>2, TypesLast
      <3> QED
        BY <3>1, <3>2
    <2>2. ents'[d]["."] = ents[d]["."] /\ ents'[d][".."] = ents[d][".."]
      BY <1>2, <2>1, DotsStay
    <2>3. /\ ents[d]["."] = d /\ ents[d][".."] # 0
          /\ d \notin gone => type[ents[d][".."]] # "free" /\ ~New(ents[d][".."])
      BY <1>0, <1>2, <2>1 DEF DotsRight
    <2>4. PICK x \in Inums : x = ents[d][".."]
      <3>1. ents[d][".."] \in Inum0
        BY <1>0 DEF Types, Elems
      <3> QED
        BY <2>3, <3>1, NotZero
    <2>5. ASSUME d \notin gone' PROVE type'[x] # "free" /\ ~New(x)'
      <3>1. d \notin gone /\ ~Frees(x)
        <4>1. CASE gone' = gone
          <5>1. ASSUME Frees(x) PROVE FALSE
            <6>1. x = d
              BY <2>4, <2>5, <4>1, <5>1 DEF Frees
            <6> QED
              BY <1>0, <5>1, <6>1 DEF Frees, Types
          <5> QED
            BY <2>5, <4>1, <5>1
        <4>2. CASE gone' # gone
          <5>1. PICK i \in Inums : Puts(p, i)
            BY <4>2 DEF Case, Looks, Stops, Ends, Begins, Panics, Descends, Finds, Targets, Allocs,
                        Enters, GivesUp, Clears, Unlinks, Puts
          <5>2. Frees(i)
            BY <1>0, <4>2, <5>1, PutOutcome
          <5>3. i # d
            BY <1>0, <5>2 DEF Frees, Types
          <5>4. d \notin gone /\ ents[d][".."] # i
            BY <2>5, <5>2, <5>3 DEF Frees
          <5>5. type'[x] = type[x]
            BY <1>0, <2>4, <5>2, <5>4 DEF Frees, Types
          <5>6. type[x] # "free"
            BY <2>3, <2>4, <5>4
          <5>7. ~Frees(x)
            BY <1>0, <5>5, <5>6 DEF Frees, Types
          <5> QED
            BY <5>4, <5>7
        <4> QED
          BY <4>1, <4>2
      <3>2. type[x] # "free" /\ ~New(x)
        BY <2>3, <2>4, <3>1
      <3>3. type'[x] # "free"
        BY <1>0, <3>1, <3>2, TypesLast
      <3>4. ~New(x)'
        BY <3>2, NewStep DEF Allocs
      <3> QED
        BY <3>3, <3>4
    <2>6. ~New(x)' => ~New(ents[d][".."])'
      BY <2>2, <2>4 DEF New
    <2> QED
      BY <2>2, <2>3, <2>4, <2>5, <2>6
  <1> QED
    BY <1>1, <1>2

LEMMA OneNameStep ==
  ASSUME Always, Sound, NEW p \in Procs, Case(p), Moved(p), ~strayed'
  PROVE  OneName'
  <1>0. /\ Types /\ Places /\ RefCounts /\ Locks /\ Held /\ Contents
        /\ Live /\ NewAlone /\ DotsRight /\ OneName /\ Links
    BY Unpacked
  <1>1. ents \in [Inums -> [Elems -> Inum0]] /\ Names \subseteq Elems
    BY <1>0 DEF Types, Elems
  \* A name is an old one, or the one that is entered.
  <1>2. ASSUME NEW d \in Inums, NEW n \in Names, ents'[d][n] # 0
        PROVE  \/ ents'[d][n] = ents[d][n]
               \/ Enters(p) /\ d = dp(p) /\ n = th[p].name /\ ents'[d][n] = ip(p)
    BY <1>0, <1>2, NamesStep
  <1>3. ASSUME Enters(p)
        PROVE  /\ Makes(p) /\ Nameless(ip(p)) /\ ip(p) \in Inums /\ ip(p) # ROOTINO
               /\ dp(p) \in Inums /\ \A q \in Procs \ {p} : ~Points(q, ip(p))
    <2>1. Makes(p)
      BY <1>3 DEF Enters, Makes
    <2> QED
      BY <1>0, <2>1, MakesAlone DEF NewAlone
  <1>4. ASSUME NEW d \in Inums, NEW e \in Inums, NEW m \in Names, NEW n \in Names,
               ents'[d][m] # 0, ents'[d][m] = ents'[e][n]
        PROVE  d = e /\ m = n
    <2>1. CASE ents'[d][m] = ents[d][m] /\ ents'[e][n] = ents[e][n]
      <3>1. ents[d][m] # 0 /\ ents[d][m] = ents[e][n]
        BY <1>4, <2>1
      <3>2. \A c, f \in Inums : \A k, l \in Names :
               ents[c][k] # 0 /\ ents[c][k] = ents[f][l] => c = f /\ k = l
        BY <1>0 DEF OneName
      <3> QED
        BY <3>1, <3>2
    <2>2. ASSUME ~(ents'[d][m] = ents[d][m] /\ ents'[e][n] = ents[e][n])
          PROVE  Enters(p) /\ ents'[d][m] = ip(p)
      BY <1>2, <1>4, <2>2
    <2>3. CASE Enters(p) /\ ents'[d][m] = ip(p)
      <3>1. ents[d][m] # ip(p) /\ ents[e][n] # ip(p)
        BY <1>3, <2>3 DEF Nameless
      <3>2. ents'[d][m] # ents[d][m] /\ ents'[e][n] # ents[e][n] /\ ents'[e][n] # 0
        BY <1>4, <2>3, <3>1
      <3>3. d = dp(p) /\ m = th[p].name
        BY <1>2, <1>4, <3>2
      <3>4. e = dp(p) /\ n = th[p].name
        BY <1>2, <3>2
      <3> QED
        BY <3>3, <3>4
    <2> QED
      BY <2>1, <2>2, <2>3
  <1>5. ASSUME NEW d \in Inums, NEW n \in Names, ents'[d][n] # 0
        PROVE  /\ ents'[d][n] # ROOTINO
               /\ type'[ents'[d][n]] = "T_DIR" => ents'[ents'[d][n]][".."] = d
    <2>1. CASE ents'[d][n] = ents[d][n]
      <3>1. PICK x \in Inums : x = ents[d][n]
        BY <1>1, <1>5, <2>1, NotZero
      <3>2. x # ROOTINO /\ type[x] # "free" /\ (type[x] = "T_DIR" => ents[x][".."] = d)
        BY <1>0, <1>5, <2>1, <3>1 DEF OneName, Live
      <3>3. ~New(x)
        BY <1>0, <3>1, NotNew DEF Nameless
      <3>4. ASSUME type'[x] = "T_DIR" PROVE ents'[x][".."] = d
        <4>1. type[x] = "T_DIR"
          BY <1>0, <3>2, <3>4, TypesLast
        <4> QED
          BY <3>2, <3>3, <3>4, <4>1, DotsStay
      <3> QED
        BY <2>1, <3>1, <3>2, <3>4
    <2>2. CASE ents'[d][n] # ents[d][n]
      <3>1. Enters(p) /\ d = dp(p) /\ ents'[d][n] = ip(p)
        BY <1>2, <1>5, <2>2
      <3>2. type' = type /\ Phase(p) = "create"
        BY <3>1 DEF Enters
      <3>3. ASSUME type'[ip(p)] = "T_DIR" PROVE ents'[ip(p)][".."] = dp(p)
        <4>1. op(p) = "mkdir"
          BY <1>0, <3>2, <3>3 DEF Held
        <4> QED
          BY <1>0, <3>1, <4>1, EnterEffect DEF Elems
      <3> QED
        BY <1>3, <3>1, <3>3
    <2> QED
      BY <2>1, <2>2
  <1>6. ASSUME NEW q \in Procs \ {p}, Removes(q)'
        PROVE  ip(q)' # ROOTINO /\ \A d \in Inums : \A n \in Names : ents'[d][n] # ip(q)'
    <2>1. Removes(q) /\ ip(q)' = ip(q)
      BY <1>0, <1>6, OtherProcess
    <2>2. ip(q) # ROOTINO /\ Nameless(ip(q)) /\ ip(q) # 0
      BY <1>0, <2>1, Whereabouts DEF OneName, Removes, IpPhases
    <2>3. ASSUME NEW d \in Inums, NEW n \in Names, ents'[d][n] = ip(q) PROVE FALSE
      <3>1. Enters(p) /\ ip(p) = ip(q)
        BY <1>2, <2>2, <2>3 DEF Nameless
      <3> QED
        BY <1>3, <3>1 DEF Points
    <2> QED
      BY <2>1, <2>2, <2>3
  <1>7. ASSUME Removes(p)'
        PROVE  ip(p)' # ROOTINO /\ \A d \in Inums : \A n \in Names : ents'[d][n] # ip(p)'
    <2>1. CASE Clears(p)
      <3>1. ip(p)' = ip(p) /\ ~Enters(p)
        BY <2>1 DEF Clears, Enters, Goes, ip
      <3>2. dp(p) \in Inums /\ ip(p) # 0 /\ th[p].name \in Names /\ ents[dp(p)][th[p].name] = ip(p)
        BY <1>0, <2>1, DirIsNotInode, Whereabouts, InumsAboveZero DEF Clears, Contents
      <3>3. ip(p) # ROOTINO
        BY <1>0, <3>2 DEF OneName
      <3>4. ASSUME NEW d \in Inums, NEW n \in Names, ents'[d][n] = ip(p) PROVE FALSE
        <4>1. ents[d][n] = ip(p)
          BY <1>2, <3>1, <3>2, <3>4
        <4>2. d = dp(p) /\ n = th[p].name
          BY <1>0, <3>2, <4>1 DEF OneName
        <4>3. ents'[dp(p)][th[p].name] = 0
          BY <1>0, <1>1, <2>1, <3>2, ClearEffect
        <4> QED
          BY <3>2, <3>4, <4>2, <4>3
      <3> QED
        BY <3>1, <3>3, <3>4
    <2>2. CASE Removes(p) /\ ip(p)' = ip(p)
      <3>1. ~Enters(p) /\ ip(p) # 0
        BY <1>0, <2>2, Whereabouts DEF Removes, Enters, IpPhases
      <3>2. ip(p) # ROOTINO /\ Nameless(ip(p))
        BY <1>0, <2>2 DEF OneName
      <3> QED
        BY <1>2, <2>2, <3>1, <3>2 DEF Nameless
    <2> QED
      BY <1>0, <1>7, <2>1, <2>2, Turns
  <1>8. \A q \in Procs : Removes(q)' =>
           ip(q)' # ROOTINO /\ \A d \in Inums : \A n \in Names : ents'[d][n] # ip(q)'
    BY <1>6, <1>7
  <1> QED
    BY <1>4, <1>5, <1>8 DEF OneName, Nameless

\* Who has removed a name and not yet the link goes on to do so.
LEMMA RemovedSame ==
  ASSUME Always, Sound, NEW p \in Procs, Case(p), ~Clears(p), ~Unlinks(p), NEW j \in Inums
  PROVE  (\E q \in Procs : Removes(q)' /\ ip(q)' = j) <=> (\E q \in Procs : Removes(q) /\ ip(q) = j)
  <1>0. Types /\ Places /\ Live
    BY Unpacked
  <1>1. ASSUME NEW q \in Procs \ {p}
        PROVE  Removes(q)' /\ ip(q)' = j <=> Removes(q) /\ ip(q) = j
    BY <1>0, OtherProcess
  <1>2. Removes(p)' /\ ip(p)' = j => Removes(p) /\ ip(p) = j
    BY <1>0, Turns
  <1>3. ASSUME Removes(p), ip(p) = j PROVE Removes(p)' /\ ip(p)' = j
    <2>0. Phase(p) \in {"put entry", "unlink nlink"}
      BY <1>3 DEF Removes
    <2>1. ASSUME NEW l \in Phases, Looks(p, l) \/ Stops(p, l) PROVE FALSE
      BY <2>0, <2>1 DEF Looks, LookTurns, Stops
    <2>2. ASSUME NEW i \in Inums, Begins(p, i) \/ Swaps(p, i) \/ Allocs(p, i) PROVE FALSE
      BY <2>0, <2>2 DEF Begins, Swaps, Allocs, MakePhases
    <2>3. ASSUME NEW i \in Inums, NEW n \in Elems, Descends(p, n, i) \/ Finds(p, n, i) \/ Targets(p, n, i)
          PROVE  FALSE
      BY <2>0, <2>3 DEF Descends, Finds, Targets, MakePhases
    <2>4. ASSUME Ends(p) \/ Enters(p) \/ GivesUp(p) PROVE FALSE
      BY <2>0, <2>4 DEF Ends, Enters, GivesUp
    <2>5. ASSUME NEW i \in Inums, NEW l \in Phases, Drops(p, i, l) PROVE Removes(p)' /\ ip(p)' = j
      <3>1. Phase(p) = "put entry" /\ l = "unlink nlink"
        BY <2>0, <2>5 DEF Drops, DropTurns
      <3>2. Phase(p)' = "unlink nlink" /\ ip(p)' = ip(p)
        BY <2>5, <3>1 DEF Drops, Goes, ip
      <3> QED
        BY <1>3, <3>2 DEF Removes
    <2> QED
      BY <1>0, <2>1, <2>2, <2>3, <2>4, <2>5, NoPanics DEF Case
  <1> QED
    BY <1>1, <1>2, <1>3

\* The links of an inode stay right when nothing of it changes.
LEMMA LinkStays ==
  ASSUME Links, NEW j \in Inums, nlink'[j] = nlink[j],
         type'[j] = "T_DEVICE" <=> type[j] = "T_DEVICE",
         Counted(j)' <=> Counted(j), Subdirs(j)' = Subdirs(j)
  PROVE  LinkOK(j)'
  <1>1. LinkOK(j)
    BY DEF Links
  <1>2. Bit(Counted(j))' = Bit(Counted(j))
    BY DEF Bit
  <1>3. Cardinality(Subdirs(j))' = Cardinality(Subdirs(j))
    OBVIOUS
  <1> QED
    BY <1>1, <1>2, <1>3 DEF LinkOK

LEMMA CountedSame ==
  ASSUME NEW j \in Inums, Nameless(j)' <=> Nameless(j),
         (\E q \in Procs : Removes(q)' /\ ip(q)' = j) <=> (\E q \in Procs : Removes(q) /\ ip(q) = j)
  PROVE  Counted(j)' <=> Counted(j)
  BY DEF Counted

LEMMA LinksStill ==
  ASSUME Always, Sound, NEW p \in Procs, Case(p), ~Clears(p), ~Unlinks(p),
         \A d \in Inums : type'[d] = type[d] /\ nlink'[d] = nlink[d],
         \A d \in Inums : \A n \in Names : ents'[d][n] = ents[d][n]
  PROVE  Links'
  <1> SUFFICES ASSUME NEW j \in Inums PROVE LinkOK(j)'
    BY DEF Links
  <1>1. Nameless(j)' <=> Nameless(j)
    BY DEF Nameless
  <1>2. Counted(j)' <=> Counted(j)
    BY <1>1, RemovedSame, CountedSame
  <1>3. Dirs' = Dirs
    BY DEF Dirs
  <1>4. Subdirs(j)' = Subdirs(j)
    BY <1>3 DEF Subdirs
  <1> QED
    BY <1>2, <1>4, LinkStays, Unpacked

LEMMA LinksAllocs ==
  ASSUME Always, Sound, NEW p \in Procs, Case(p), NEW i \in Inums, Allocs(p, i)
  PROVE  Links'
  <1>0. /\ Types /\ Places /\ Contents /\ Live /\ Links
    BY Unpacked
  <1> SUFFICES ASSUME NEW j \in Inums PROVE LinkOK(j)'
    BY DEF Links
  <1>1. ents' = ents /\ ~Clears(p) /\ ~Unlinks(p) /\ type[i] = "free"
    BY DEF Allocs, MakePhases, Clears, Unlinks
  <1>2. \A d \in Inums : \A n \in Names : ents[d][n] # i
    BY <1>0, <1>1, InumsAboveZero DEF Live
  <1>3. \A d \in Inums \ {i} : type'[d] = type[d] /\ nlink'[d] = nlink[d]
    BY <1>0 DEF Allocs, Types
  <1>4. Nameless(j)' <=> Nameless(j)
    BY <1>1 DEF Nameless
  <1>5. Counted(j)' <=> Counted(j)
    BY <1>1, <1>4, RemovedSame, CountedSame
  <1>6. Subdirs(j)' = Subdirs(j)
    BY <1>1, <1>2, <1>3 DEF Subdirs, Dirs
  <1>7. CASE j # i
    BY <1>0, <1>3, <1>5, <1>6, <1>7, LinkStays
  <1>8. CASE j = i
    <2>1. nlink'[i] = 0
      BY <1>0 DEF Allocs, Types
    <2>2. \A q \in Procs : ip(q) # i
      BY <1>0, <1>1 DEF Live, Points
    <2>3. ~Counted(i)
      BY <1>0, <1>1, <1>2, <2>2 DEF Counted, Nameless, Live
    <2>4. ents[i] = NoEntries
      BY <1>0, <1>1 DEF Contents
    <2>5. \A n \in Names : ents[i][n] = 0
      BY <2>4 DEF NoEntries, Elems
    <2>6. Subdirs(i) = {}
      BY <2>5, InumsAboveZero DEF Subdirs, Dirs
    <2>7. Bit(Counted(j))' = 0
      BY <1>5, <1>8, <2>3 DEF Bit
    <2>8. Cardinality(Subdirs(j))' = 0
      BY <1>6, <1>8, <2>6, FS_EmptySet
    <2> QED
      BY <1>8, <2>1, <2>7, <2>8 DEF LinkOK
  <1> QED
    BY <1>7, <1>8

LEMMA LinksFrees ==
  ASSUME Always, Sound, NEW p \in Procs, Case(p), Moved(p), ~strayed', NEW i \in Inums,
         Puts(p, i), Frees(i)
  PROVE  Links'
  <1>0. /\ Types /\ Places /\ RefCounts /\ Locks /\ Contents /\ Live /\ Links
    BY Unpacked
  <1> SUFFICES ASSUME NEW j \in Inums PROVE LinkOK(j)'
    BY DEF Links
  <1>1. nlink' = nlink /\ nlink[i] = 0 /\ nlink[j] \in Int
    BY <1>0, PutOutcome DEF Frees, Types
  <1>2. ~Counted(i) /\ Subdirs(i) = {}
    BY <1>0, <1>1, CountedLinks
  <1>3. type'[i] = "free" /\ \A d \in Inums \ {i} : type'[d] = type[d] /\ ents'[d] = ents[d]
    BY <1>0 DEF Frees, Types
  <1>4. \A n \in Names : ents'[i][n] = 0
    <2>1. ents'[i] = NoEntries
      BY <1>0 DEF Frees, Types
    <2> QED
      BY <2>1 DEF NoEntries, Elems
  <1>5. ~Clears(p) /\ ~Unlinks(p)
    <2>1. Phase(p) \notin {"unlink entry", "unlink nlink"}
      BY DEF Puts, Swaps, Drops, DropTurns
    <2> QED
      BY <2>1 DEF Clears, Unlinks
  <1>6. Nameless(j) => Nameless(j)'
    BY <1>3, <1>4, InumsAboveZero DEF Nameless
  <1>7. Counted(j)' => Counted(j)
    BY <1>5, <1>6, RemovedSame DEF Counted
  <1>8. CASE j = i
    <2>1. Subdirs(i)' = {}
      BY <1>4, InumsAboveZero DEF Subdirs, Dirs
    <2>2. Cardinality(Subdirs(j))' = 0 /\ Bit(Counted(j))' = 0
      BY <1>2, <1>7, <1>8, <2>1, FS_EmptySet DEF Bit
    <2> QED
      BY <1>1, <1>8, <2>2 DEF LinkOK
  <1>9. CASE j # i
    <2>1. Nameless(i)
      BY <1>2 DEF Counted
    <2>2. Subdirs(j)' = Subdirs(j)
      BY <1>3, <1>9, <2>1 DEF Subdirs, Dirs, Nameless
    <2>3. CASE type[j] = "T_DEVICE"
      <3>1. nlink[j] >= Bit(Counted(j)) + Cardinality(Subdirs(j))
        BY <1>0 DEF Links, LinkOK
      <3>2. Cardinality(Subdirs(j)) \in Nat
        BY SubdirsFinite
      <3>3. Bit(Counted(j)) >= Bit(Counted(j)') /\ Bit(Counted(j)) \in {0, 1} /\ Bit(Counted(j)') \in {0, 1}
        BY <1>7 DEF Bit
      <3>4. nlink[j] >= Bit(Counted(j)') + Cardinality(Subdirs(j))
        BY <1>1, <3>1, <3>2, <3>3
      <3> QED
        BY <1>1, <1>3, <1>9, <2>2, <2>3, <3>4 DEF LinkOK
    <2>4. CASE type[j] # "T_DEVICE"
      <3>1. \A n \in Names : ents[i][n] # j
        <4>1. ASSUME NEW n \in Names, ents[i][n] = j PROVE FALSE
          <5>1. type[j] # "free"
            BY <1>0, <4>1, InumsAboveZero DEF Live
          <5>2. j \in Subdirs(i)
            BY <1>0, <2>4, <4>1, <5>1 DEF Subdirs, Dirs, Types
          <5> QED
            BY <1>2, <5>2
        <4> QED
          BY <4>1
      <3>2. Nameless(j)' <=> Nameless(j)
        BY <1>3, <1>6, <3>1 DEF Nameless
      <3>3. Counted(j)' <=> Counted(j)
        BY <1>5, <3>2, RemovedSame, CountedSame
      <3> QED
        BY <1>0, <1>1, <1>3, <1>9, <2>2, <3>3, LinkStays
    <2> QED
      BY <2>3, <2>4
  <1> QED
    BY <1>8, <1>9

LEMMA LinksEnters ==
  ASSUME Always, Sound, NEW p \in Procs, Case(p), Moved(p), Enters(p)
  PROVE  Links'
  <1>0. /\ Types /\ Places /\ RefCounts /\ Locks /\ Held /\ Contents /\ Live /\ NewAlone /\ Links
    BY Unpacked
  <1>1. ip(p) # dp(p) /\ ip(p) \in Inums /\ dp(p) \in Inums
    BY <1>0, DirIsNotInode
  <1>2. PICK i \in Inums : i = ip(p)
    BY <1>1
  <1>3. PICK d \in Inums : d = dp(p)
    BY <1>1
  <1>4. /\ Makes(p) /\ Nameless(i) /\ i # 0 /\ i # d /\ type' = type
        /\ \A n \in Names : ents[i][n] = 0
    BY <1>0, <1>1, <1>2, <1>3, InumsAboveZero DEF Enters, Makes, NewAlone
  <1>5. ents[d][th[p].name] = 0 /\ (type[i] = "T_DIR" <=> op(p) = "mkdir")
    BY <1>0, <1>2, <1>3 DEF Enters, Contents, Held
  <1>6. /\ \A c \in Inums \ {i, d} : ents'[c] = ents[c]
        /\ \A n \in Elems : ents'[d][n] = IF n = th[p].name THEN i ELSE ents[d][n]
        /\ \A n \in Names : ents'[i][n] = 0
    <2>1. \A n \in Names : n \in Elems /\ n # "." /\ n # ".."
      BY DirsAssumption DEF Elems
    <2>2. \A n \in Names : ents'[i][n] = ents[i][n]
      BY <1>0, <1>2, <2>1, EnterEffect
    <2> QED
      BY <1>0, <1>2, <1>3, <1>4, <2>2, EnterEffect
  <1>7. nlink'[i] = 1 /\ nlink'[d] = nlink[d] + Bit(op(p) = "mkdir")
        /\ \A c \in Inums \ {i, d} : nlink'[c] = nlink[c]
    <2>1. nlink' = [nlink EXCEPT ![i] = 1, ![d] = IF op(p) = "mkdir" THEN @ + 1 ELSE @]
      BY <1>2, <1>3 DEF Enters
    <2>2. nlink \in [Inums -> Int]
      BY <1>0 DEF Types
    <2>3. nlink'[d] = IF op(p) = "mkdir" THEN nlink[d] + 1 ELSE nlink[d]
      BY <1>4, <2>1, <2>2
    <2>4. nlink'[d] = nlink[d] + Bit(op(p) = "mkdir")
      BY <2>2, <2>3 DEF Bit
    <2> QED
      BY <1>4, <2>1, <2>2, <2>4
  <1>8. Names \subseteq Elems /\ ~Clears(p) /\ ~Unlinks(p)
    BY DEF Elems, Enters, Clears, Unlinks
  <1>9. \A j \in Inums \ {i} : Counted(j)' <=> Counted(j)
    <2> SUFFICES ASSUME NEW j \in Inums \ {i} PROVE Counted(j)' <=> Counted(j)
      OBVIOUS
    <2>1. ASSUME NEW c \in Inums, NEW n \in Names PROVE ents'[c][n] = j <=> ents[c][n] = j
      BY <1>4, <1>5, <1>6, <1>8, InumsAboveZero
    <2>2. Nameless(j)' <=> Nameless(j)
      BY <2>1 DEF Nameless
    <2> QED
      BY <1>8, <2>2, RemovedSame, CountedSame
  <1>10. th[p].name \in Names
    <2>1. type[d] = "T_DIR" /\ ~New(d) /\ th[p].name \in Elems /\ d # 0
      <3>1. type[d] = "T_DIR"
        BY <1>0, <1>3 DEF Enters, Held
      <3>2. ~New(d)
        BY <1>0, <1>2, <1>3, <1>4, NotNew DEF Points
      <3> QED
        BY <1>0, <3>1, <3>2, Whereabouts, InumsAboveZero
    <2>2. ents[d]["."] # 0 /\ ents[d][".."] # 0
      BY <2>1, Unpacked DEF DotsRight
    <2> QED
      BY <1>5, <2>1, <2>2 DEF Elems
  <1>11. LinkOK(i)'
    <2>1. Subdirs(i)' = {}
      BY <1>6, InumsAboveZero DEF Subdirs, Dirs
    <2>2. ents'[d][th[p].name] = i
      BY <1>6, <1>8, <1>10
    <2>3. Counted(i)'
      BY <1>10, <2>2 DEF Counted, Nameless
    <2>4. Bit(Counted(i))' = 1 /\ Cardinality(Subdirs(i))' = 0
      BY <2>1, <2>3, FS_EmptySet DEF Bit
    <2> QED
      BY <1>7, <2>4 DEF LinkOK
  <1>12. LinkOK(d)'
    <2>1. \A y : y # i => (y \in Subdirs(d) <=> y \in Subdirs(d)')
      <3>1. \A y \in Inums : \A n \in Names : y # i => (ents'[d][n] = y <=> ents[d][n] = y)
        BY <1>5, <1>6, <1>8, InumsAboveZero
      <3> QED
        BY <1>4, <3>1 DEF Subdirs, Dirs
    <2>2. i \notin Subdirs(d)
      BY <1>4 DEF Subdirs, Nameless
    <2>3. i \in Subdirs(d)' <=> op(p) = "mkdir"
      <3>1. ents'[d][th[p].name] = i
        BY <1>6, <1>8, <1>10
      <3>2. i \in Subdirs(d)' <=> type[i] = "T_DIR"
        BY <1>4, <1>10, <3>1 DEF Subdirs, Dirs
      <3> QED
        BY <1>5, <3>2
    <2>4. Cardinality(Subdirs(d)') = Cardinality(Subdirs(d)) - Bit(i \in Subdirs(d)) + Bit(i \in Subdirs(d)')
      BY <2>1, SubdirsFinite, CountChange
    <2>5. Cardinality(Subdirs(d)') = Cardinality(Subdirs(d)) + Bit(op(p) = "mkdir")
      <3>1. Bit(i \in Subdirs(d)) = 0 /\ Bit(i \in Subdirs(d)') = Bit(op(p) = "mkdir")
        BY <2>2, <2>3 DEF Bit
      <3> QED
        BY <2>4, <3>1, SubdirsFinite, BitType
    <2>6. Bit(Counted(d)') = Bit(Counted(d)) /\ Bit(Counted(d)) \in {0, 1}
      BY <1>4, <1>9 DEF Bit
    <2>7. LinkOK(d) /\ nlink[d] \in Int /\ Cardinality(Subdirs(d)) \in Nat
      BY <1>0, SubdirsFinite DEF Links, Types
    <2>8. type'[d] = type[d]
      BY <1>4
    <2>9. nlink'[d] >= Bit(Counted(d)') + Cardinality(Subdirs(d)')
      <3>1. nlink[d] >= Bit(Counted(d)) + Cardinality(Subdirs(d))
        BY <2>7 DEF LinkOK
      <3>2. Bit(op(p) = "mkdir") \in {0, 1}
        BY BitType
      <3> QED
        BY <1>7, <2>5, <2>6, <2>7, <3>1, <3>2
    <2>10. type[d] # "T_DEVICE" => nlink'[d] = Bit(Counted(d)') + Cardinality(Subdirs(d)')
      <3>1. type[d] # "T_DEVICE" => nlink[d] = Bit(Counted(d)) + Cardinality(Subdirs(d))
        BY <2>7 DEF LinkOK
      <3>2. Bit(op(p) = "mkdir") \in {0, 1}
        BY BitType
      <3> QED
        BY <1>7, <2>5, <2>6, <2>7, <3>1, <3>2
    <2> QED
      BY <2>8, <2>9, <2>10 DEF LinkOK
  <1>13. ASSUME NEW j \in Inums \ {i, d} PROVE LinkOK(j)'
    <2>1. nlink'[j] = nlink[j] /\ type'[j] = type[j] /\ (Counted(j)' <=> Counted(j))
      BY <1>4, <1>7, <1>9
    <2>2. Subdirs(j)' = Subdirs(j)
      BY <1>4, <1>6 DEF Subdirs, Dirs
    <2> QED
      BY <1>0, <2>1, <2>2, LinkStays
  <1> QED
    BY <1>11, <1>12, <1>13 DEF Links

LEMMA LinksClears ==
  ASSUME Always, Sound, NEW p \in Procs, Case(p), Moved(p), Clears(p)
  PROVE  Links'
  <1>0. /\ Types /\ Places /\ RefCounts /\ Locks /\ Held /\ Contents /\ Live /\ NewAlone /\ OneName /\ Links
    BY Unpacked
  <1>1. ip(p) # dp(p) /\ ip(p) \in Inums /\ dp(p) \in Inums
    BY <1>0, DirIsNotInode
  <1>2. PICK i \in Inums : i = ip(p)
    BY <1>1
  <1>3. PICK d \in Inums : d = dp(p)
    BY <1>1
  <1>4. /\ th[p].name \in Names /\ ents[d][th[p].name] = i /\ i # 0 /\ i # d /\ type' = type
        /\ Names \subseteq Elems
    BY <1>0, <1>1, <1>2, <1>3, Whereabouts, InumsAboveZero DEF Clears, Contents, Elems
  <1>5. /\ \A c \in Inums \ {d} : ents'[c] = ents[c]
        /\ \A n \in Elems : ents'[d][n] = IF n = th[p].name THEN 0 ELSE ents[d][n]
    BY <1>0, <1>3, ClearEffect
  <1>6. \A c \in Inums : \A n \in Names : ents[c][n] = i => c = d /\ n = th[p].name
    BY <1>0, <1>4 DEF OneName
  <1>7. nlink'[d] = nlink[d] - Bit(type[i] = "T_DIR") /\ \A c \in Inums \ {d} : nlink'[c] = nlink[c]
    <2>1. nlink' = [nlink EXCEPT ![d] = IF type[i] = "T_DIR" THEN @ - 1 ELSE @]
      BY <1>2, <1>3 DEF Clears
    <2>2. nlink \in [Inums -> Int]
      BY <1>0 DEF Types
    <2>3. nlink'[d] = IF type[i] = "T_DIR" THEN nlink[d] - 1 ELSE nlink[d]
      BY <2>1, <2>2
    <2>4. nlink'[d] = nlink[d] - Bit(type[i] = "T_DIR")
      BY <2>2, <2>3 DEF Bit
    <2> QED
      BY <2>1, <2>2, <2>4
  <1>8. Removes(p)' /\ ip(p)' = i /\ ~Removes(p)
    BY <1>2 DEF Clears, Goes, Removes, ip
  <1>9. \A c \in Inums : \A n \in Names : ents'[c][n] # i
    BY <1>4, <1>5, <1>6
  <1>10. \A j \in Inums : Counted(j)' <=> Counted(j)
    <2> SUFFICES ASSUME NEW j \in Inums PROVE Counted(j)' <=> Counted(j)
      OBVIOUS
    <2>1. CASE j = i
      <3>1. Counted(i)
        BY <1>4 DEF Counted, Nameless
      <3>2. Counted(i)'
        BY <1>8 DEF Counted
      <3> QED
        BY <2>1, <3>1, <3>2
    <2>2. CASE j # i
      <3>1. \A c \in Inums : \A n \in Names : ents'[c][n] = j <=> ents[c][n] = j
        BY <1>4, <1>5, <2>2, InumsAboveZero
      <3>2. Nameless(j)' <=> Nameless(j)
        BY <3>1 DEF Nameless
      <3>3. \A q \in Procs : (Removes(q)' /\ ip(q)' = j) <=> (Removes(q) /\ ip(q) = j)
        <4>1. ASSUME NEW q \in Procs \ {p}
              PROVE  (Removes(q)' /\ ip(q)' = j) <=> (Removes(q) /\ ip(q) = j)
          BY <1>0, OtherProcess
        <4> QED
          BY <1>8, <2>2, <4>1
      <3> QED
        BY <3>2, <3>3, CountedSame
    <2> QED
      BY <2>1, <2>2
  <1>11. ASSUME NEW j \in Inums \ {d} PROVE LinkOK(j)'
    <2>1. nlink'[j] = nlink[j] /\ type'[j] = type[j] /\ (Counted(j)' <=> Counted(j))
      BY <1>4, <1>7, <1>10
    <2>2. Subdirs(j)' = Subdirs(j)
      BY <1>4, <1>5 DEF Subdirs, Dirs
    <2> QED
      BY <1>0, <2>1, <2>2, LinkStays
  <1>12. LinkOK(d)'
    <2>1. \A y : y # i => (y \in Subdirs(d) <=> y \in Subdirs(d)')
      <3>1. \A y \in Inums : \A n \in Names : y # i => (ents'[d][n] = y <=> ents[d][n] = y)
        BY <1>4, <1>5, InumsAboveZero
      <3> QED
        BY <1>4, <3>1 DEF Subdirs, Dirs
    <2>2. i \notin Subdirs(d)'
      BY <1>9 DEF Subdirs
    <2>3. i \in Subdirs(d) <=> type[i] = "T_DIR"
      BY <1>4 DEF Subdirs, Dirs
    <2>4. Cardinality(Subdirs(d)') = Cardinality(Subdirs(d)) - Bit(i \in Subdirs(d)) + Bit(i \in Subdirs(d)')
      BY <2>1, SubdirsFinite, CountChange
    <2>5. Cardinality(Subdirs(d)') = Cardinality(Subdirs(d)) - Bit(type[i] = "T_DIR")
      <3>1. Bit(i \in Subdirs(d)') = 0 /\ Bit(i \in Subdirs(d)) = Bit(type[i] = "T_DIR")
        BY <2>2, <2>3 DEF Bit
      <3> QED
        BY <2>4, <3>1, SubdirsFinite, BitType
    <2>6. Bit(Counted(d)') = Bit(Counted(d)) /\ Bit(Counted(d)) \in {0, 1}
      BY <1>10 DEF Bit
    <2>7. LinkOK(d) /\ nlink[d] \in Int /\ Cardinality(Subdirs(d)) \in Nat /\ Bit(type[i] = "T_DIR") \in {0, 1}
      BY <1>0, SubdirsFinite, BitType DEF Links, Types
    <2>8. type'[d] = type[d]
      BY <1>4
    <2>9. nlink'[d] >= Bit(Counted(d)') + Cardinality(Subdirs(d)')
      <3>1. nlink[d] >= Bit(Counted(d)) + Cardinality(Subdirs(d))
        BY <2>7 DEF LinkOK
      <3> QED
        BY <1>7, <2>5, <2>6, <2>7, <3>1
    <2>10. type[d] # "T_DEVICE" => nlink'[d] = Bit(Counted(d)') + Cardinality(Subdirs(d)')
      <3>1. type[d] # "T_DEVICE" => nlink[d] = Bit(Counted(d)) + Cardinality(Subdirs(d))
        BY <2>7 DEF LinkOK
      <3> QED
        BY <1>7, <2>5, <2>6, <2>7, <3>1
    <2> QED
      BY <2>8, <2>9, <2>10 DEF LinkOK
  <1> QED
    BY <1>11, <1>12 DEF Links

LEMMA LinksUnlinks ==
  ASSUME Always, Sound, NEW p \in Procs, Case(p), Moved(p), Unlinks(p)
  PROVE  Links'
  <1>0. /\ Types /\ Places /\ RefCounts /\ Locks /\ OneName /\ Links
    BY Unpacked
  <1>1. Removes(p) /\ LockOf(p) = ip(p) /\ type' = type /\ ents' = ents /\ ~Removes(p)'
    BY DEF Unlinks, Removes, LockOf, Goes
  <1>2. PICK i \in Inums : i = ip(p)
    BY <1>0, <1>1, Whereabouts, NotZero DEF Removes, IpPhases
  <1>3. i # ROOTINO /\ Nameless(i) /\ Counted(i)
    BY <1>0, <1>1, <1>2 DEF OneName, Counted
  <1>4. ASSUME NEW q \in Procs \ {p}, Removes(q), ip(q) = i PROVE FALSE
    <2>1. LockOf(q) = i
      BY <1>4 DEF Removes, LockOf
    <2> QED
      BY <1>0, <1>1, <1>2, <2>1 DEF Locks
  <1>5. \A j \in Inums : Subdirs(j)' = Subdirs(j) /\ (Nameless(j)' <=> Nameless(j))
    BY <1>1 DEF Subdirs, Dirs, Nameless
  <1>6. nlink'[i] = nlink[i] - 1 /\ \A c \in Inums \ {i} : nlink'[c] = nlink[c]
    BY <1>0, <1>2 DEF Unlinks, Types
  <1>7. ASSUME NEW q \in Procs \ {p} PROVE (Removes(q)' <=> Removes(q)) /\ ip(q)' = ip(q)
    BY <1>0, OtherProcess
  <1>8. LinkOK(i)'
    <2>1. ~Counted(i)'
      BY <1>1, <1>3, <1>4, <1>5, <1>7 DEF Counted
    <2>2. Bit(Counted(i)') = 0 /\ Bit(Counted(i)) = 1
      BY <1>3, <2>1 DEF Bit
    <2>3. LinkOK(i) /\ nlink[i] \in Int /\ Cardinality(Subdirs(i)) \in Nat
      BY <1>0, SubdirsFinite DEF Links, Types
    <2>4. /\ nlink[i] >= 1 + Cardinality(Subdirs(i))
          /\ type[i] # "T_DEVICE" => nlink[i] = 1 + Cardinality(Subdirs(i))
      BY <2>2, <2>3 DEF LinkOK
    <2>5. /\ nlink'[i] >= 0 + Cardinality(Subdirs(i))
          /\ type[i] # "T_DEVICE" => nlink'[i] = 0 + Cardinality(Subdirs(i))
      BY <1>6, <2>3, <2>4
    <2>6. Subdirs(i)' = Subdirs(i) /\ type'[i] = type[i]
      BY <1>1, <1>5
    <2> QED
      BY <2>2, <2>5, <2>6 DEF LinkOK
  <1>9. ASSUME NEW j \in Inums \ {i} PROVE LinkOK(j)'
    <2>1. \A q \in Procs : (Removes(q)' /\ ip(q)' = j) <=> (Removes(q) /\ ip(q) = j)
      BY <1>1, <1>2, <1>7
    <2>2. Counted(j)' <=> Counted(j)
      BY <1>5, <2>1, CountedSame
    <2> QED
      BY <1>0, <1>1, <1>5, <1>6, <2>2, LinkStays
  <1> QED
    BY <1>8, <1>9 DEF Links

LEMMA LinksStep ==
  ASSUME Always, Sound, NEW p \in Procs, Case(p), Moved(p), ~strayed'
  PROVE  Links'
  <1>0. /\ Types /\ Places /\ RefCounts /\ Locks /\ NewAlone
    BY Unpacked
  <1>1. ASSUME NEW i \in Inums, Puts(p, i) PROVE Links'
    <2>1. CASE Frees(i)
      BY <1>1, <2>1, LinksFrees
    <2>2. CASE ~Frees(i)
      <3>1. UNCHANGED <<type, nlink, ents>>
        BY <1>0, <1>1, <2>2, PutOutcome
      <3>2. Phase(p) \notin {"unlink entry", "unlink nlink"}
        BY <1>1 DEF Puts, Swaps, Drops, DropTurns
      <3>3. ~Clears(p) /\ ~Unlinks(p)
        BY <3>2 DEF Clears, Unlinks
      <3> QED
        BY <3>1, <3>3, LinksStill
    <2> QED
      BY <2>1, <2>2
  <1>2. ASSUME GivesUp(p) PROVE Links'
    <2>1. Phase(p) = "create" /\ type' = type /\ Makes(p) /\ ip(p) \in Inums
      BY <1>0, <1>2, DirIsNotInode DEF GivesUp, Makes
    <2>2. nlink[ip(p)] = 0
      BY <1>0, <2>1 DEF NewAlone
    <2>3. \A d \in Inums : nlink'[d] = nlink[d]
      BY <1>0, <1>2, <2>1, <2>2 DEF GivesUp, Types
    <2>4. \A d \in Inums : \A n \in Names : ents'[d][n] = ents[d][n]
      BY <1>2, DirsAssumption DEF GivesUp, Elems
    <2>5. ~Clears(p) /\ ~Unlinks(p)
      BY <2>1 DEF Clears, Unlinks
    <2> QED
      BY <2>1, <2>3, <2>4, <2>5, LinksStill
  <1>3. ASSUME UNCHANGED <<type, nlink, ents>>, ~Clears(p), ~Unlinks(p) PROVE Links'
    BY <1>3, LinksStill
  <1>4. ASSUME NEW i \in Inums, Allocs(p, i) PROVE Links'
    BY <1>4, LinksAllocs
  <1>5. ASSUME Enters(p) \/ Clears(p) \/ Unlinks(p) PROVE Links'
    BY <1>5, LinksEnters, LinksClears, LinksUnlinks
  <1> QED
    BY <1>1, <1>2, <1>3, <1>4, <1>5
       DEF Case, Looks, Stops, Ends, Begins, Panics, Descends, Finds, Targets, Puts

LEMMA SoundKept ==
  ASSUME Always, Sound, NEW p \in Procs, Case(p), Moved(p), ~strayed'
  PROVE  Sound'
  <1>1. panic' = "no"
    BY PanicStep, Unpacked
  <1>2. Live' /\ NewAlone' /\ DotsRight' /\ OneName' /\ Links'
    BY LiveStep, NewAloneStep, DotsRightStep, OneNameStep, LinksStep
  <1> QED
    BY <1>1, <1>2 DEF Sound

-----------------------------------------------------------------------------
(* The inductive invariant.                                                *)

LEMMA InitAlways == Init => Always
  <1> SUFFICES ASSUME Init PROVE Always
    OBVIOUS
  <1>1. /\ ROOTINO \in Inums /\ 0 \notin Inums /\ IsFiniteSet(Procs) /\ None \notin Procs
        /\ "." \in Elems /\ ".." \in Elems /\ {".", ".."} \cap Names = {}
    BY RootIsInum, InumsAboveZero, DirsAssumption DEF Elems
  <1>2. \A p \in Procs : th[p] = Idle /\ cwd[p] = ROOTINO
    BY DEF Init
  <1>3. \A p \in Procs : Phase(p) = "idle" /\ at(p) = 0 /\ ip(p) = 0 /\ dp(p) = 0
    BY <1>2, IdleThread DEF Phase, at, ip, dp, Idle
  <1>4. \A i \in Inums : \A n \in Names : ents[i][n] = 0
    BY <1>1 DEF Init, NoEntries, Elems
  <1>5. Types
    <2>1. ents \in [Inums -> [Elems -> Inum0]]
      <3>1. NoEntries \in [Elems -> Inum0] /\ ROOTINO \in Inum0
        BY <1>1 DEF NoEntries, Inum0
      <3>2. [NoEntries EXCEPT !["."] = ROOTINO, ![".."] = ROOTINO] \in [Elems -> Inum0]
        BY <3>1
      <3> QED
        BY <3>1, <3>2 DEF Init
    <2>2. ref \in [Inums -> Nat]
      BY <1>1, FS_CardinalityType DEF Init
    <2>3. th \in [Procs -> Thread]
      BY IdleThread DEF Init
    <2>4. type \in [Inums -> {"free", "T_DIR", "T_DEVICE"}] /\ nlink \in [Inums -> Int]
      BY DEF Init
    <2>5. valid \in [Inums -> BOOLEAN] /\ lk \in [Inums -> Procs \cup {None}] /\ cwd \in [Procs -> Inums]
          /\ gone \subseteq Inums /\ strayed \in BOOLEAN
      BY <1>1 DEF Init
    <2> QED
      BY <2>1, <2>2, <2>3, <2>4, <2>5 DEF Types
  <1>6. Places
    BY <1>2, IdleThread DEF Places, Place
  <1>7. RefCounts
    <2> SUFFICES ASSUME NEW i \in Inums
                 PROVE  ref[i] = Cardinality({p \in Procs : cwd[p] = i})
                                 + Cardinality({x \in Procs \X Locals : th[x[1]][x[2]] = i})
      BY DEF RefCounts
    <2> DEFINE A == {p \in Procs : cwd[p] = i}
               B == {x \in Procs \X Locals : th[x[1]][x[2]] = i}
    <2>1. B = {}
      BY <1>1, <1>3 DEF Locals, at, ip, dp
    <2>2. A = IF i = ROOTINO THEN Procs ELSE {}
      BY <1>2
    <2>3. ref[i] = IF i = ROOTINO THEN Cardinality(Procs) ELSE 0
      BY DEF Init
    <2> HIDE DEF A, B
    <2>4. ref[i] = Cardinality(A) + Cardinality(B)
      BY <1>1, <2>1, <2>2, <2>3, FS_EmptySet, FS_CardinalityType
    <2> QED
      BY <2>4 DEF A, B
  <1>8. Locks
    <2>1. \A p \in Procs : LockOf(p) = 0
      BY <1>3 DEF LockOf
    <2> QED
      BY <1>1, <2>1 DEF Locks, Init
  <1>9. Held
    BY <1>3 DEF Held
  <1>10. Contents
    <2>1. \A i \in Inums : type[i] # "T_DIR" => ents[i] = NoEntries
      BY DEF Init
    <2> QED
      BY <1>3, <2>1 DEF Contents
  <1>11. Ranked
    <2>1. PICK rank : rank = [i \in Inums |-> 0]
      OBVIOUS
    <2>2. rank \in [Inums -> 0..0]
      BY <2>1
    <2>3. InOrder(rank)
      BY <1>3, <1>4 DEF InOrder
    <2> QED
      BY <2>2, <2>3 DEF Ranked
  <1> QED
    BY <1>5, <1>6, <1>7, <1>8, <1>9, <1>10, <1>11 DEF Always

LEMMA InitSound == Init => Sound
  <1> SUFFICES ASSUME Init PROVE Sound
    OBVIOUS
  <1>1. /\ ROOTINO \in Inums /\ 0 \notin Inums
        /\ "." \in Elems /\ ".." \in Elems /\ {".", ".."} \cap Names = {}
    BY RootIsInum, InumsAboveZero, DirsAssumption DEF Elems
  <1>2. \A p \in Procs : th[p] = Idle /\ cwd[p] = ROOTINO
    BY DEF Init
  <1>3. \A p \in Procs : Phase(p) = "idle" /\ at(p) = 0 /\ ip(p) = 0 /\ dp(p) = 0
    BY <1>2, IdleThread DEF Phase, at, ip, dp, Idle
  <1>4. \A i \in Inums : \A n \in Names : ents[i][n] = 0
    BY <1>1 DEF Init, NoEntries, Elems
  <1>5. \A p \in Procs : ~Makes(p) /\ ~Removes(p)
    BY <1>3 DEF Makes, Removes
  <1>6. \A i \in Inums : ~New(i) /\ Nameless(i)
    BY <1>1, <1>4, <1>5 DEF New, Nameless
  <1>7. type[ROOTINO] = "T_DIR" /\ \A i \in Inums \ {ROOTINO} : type[i] = "free"
    BY <1>1 DEF Init
  <1>8. Live
    BY <1>1, <1>2, <1>3, <1>4, <1>7 DEF Live, Points
  <1>9. NewAlone
    BY <1>5 DEF NewAlone
  <1>10. DotsRight
    <2>1. ents[ROOTINO] = [NoEntries EXCEPT !["."] = ROOTINO, ![".."] = ROOTINO]
      BY <1>1 DEF Init
    <2>2. ents[ROOTINO]["."] = ROOTINO /\ ents[ROOTINO][".."] = ROOTINO
      BY <1>1, <2>1 DEF NoEntries
    <2> QED
      BY <1>1, <1>6, <1>7, <2>2 DEF DotsRight
  <1>11. OneName
    BY <1>4, <1>5 DEF OneName
  <1>12. Links
    <2> SUFFICES ASSUME NEW i \in Inums PROVE LinkOK(i)
      BY DEF Links
    <2>1. Subdirs(i) = {}
      BY <1>1, <1>4 DEF Subdirs, Dirs
    <2>2. Counted(i) <=> i = ROOTINO
      BY <1>5, <1>6 DEF Counted
    <2>3. nlink[i] = IF i = ROOTINO THEN 1 ELSE 0
      BY DEF Init
    <2>4. Bit(Counted(i)) = IF i = ROOTINO THEN 1 ELSE 0
      BY <2>2 DEF Bit
    <2> QED
      BY <2>1, <2>3, <2>4, FS_EmptySet DEF LinkOK
  <1>13. panic = "no"
    BY DEF Init
  <1> QED
    BY <1>8, <1>9, <1>10, <1>11, <1>12, <1>13 DEF Sound

LEMMA InitIInv == Init => IInv
  BY InitAlways, InitSound DEF IInv

\* A step that changes nothing.
LEMMA StillAlways == Always /\ UNCHANGED vars => Always'
  <1> SUFFICES ASSUME Always, UNCHANGED vars PROVE Always'
    OBVIOUS
  <1>1. /\ type' = type /\ nlink' = nlink /\ ents' = ents /\ ref' = ref /\ valid' = valid /\ lk' = lk
        /\ cwd' = cwd /\ th' = th /\ gone' = gone /\ strayed' = strayed
    BY DEF vars
  <1>2. \A p \in Procs : /\ Phase(p)' = Phase(p) /\ ip(p)' = ip(p) /\ dp(p)' = dp(p) /\ op(p)' = op(p)
                         /\ LockOf(p)' = LockOf(p) /\ th'[p] = th[p] /\ (Place(p)' <=> Place(p))
    BY <1>1 DEF Phase, ip, dp, op, LockOf, Place
  <1>3. Types /\ Places /\ RefCounts /\ Locks /\ Held /\ Contents /\ Ranked
    BY DEF Always
  <1>4. Types'
    BY <1>1, <1>3 DEF Types
  <1>5. Places' /\ Locks'
    BY <1>1, <1>2, <1>3 DEF Places, Locks
  <1>6. RefCounts'
    BY <1>1, <1>3 DEF RefCounts
  <1>7. Held'
    BY <1>1, <1>2, <1>3 DEF Held
  <1>8. Contents'
    BY <1>1, <1>2, <1>3 DEF Contents
  <1>9. \A rank : InOrder(rank)' <=> InOrder(rank)
    BY <1>1, <1>2 DEF InOrder
  <1>10. Ranked'
    BY <1>3, <1>9 DEF Ranked
  <1> QED
    BY <1>4, <1>5, <1>6, <1>7, <1>8, <1>10 DEF Always

LEMMA StillSound == Sound /\ UNCHANGED vars => Sound'
  <1> SUFFICES ASSUME Sound, UNCHANGED vars PROVE Sound'
    OBVIOUS
  <1>1. /\ type' = type /\ nlink' = nlink /\ ents' = ents /\ ref' = ref /\ valid' = valid
        /\ cwd' = cwd /\ th' = th /\ gone' = gone /\ panic' = panic
    BY DEF vars
  <1>2. \A p : /\ Phase(p)' = Phase(p) /\ ip(p)' = ip(p) /\ dp(p)' = dp(p) /\ op(p)' = op(p)
               /\ at(p)' = at(p)
    BY <1>1 DEF Phase, ip, dp, op, at
  <1>3. \A p : /\ (Makes(p)' <=> Makes(p)) /\ (Removes(p)' <=> Removes(p))
               /\ \A i : Points(p, i)' <=> Points(p, i)
    BY <1>1, <1>2 DEF Makes, Removes, Points
  <1>4. \A i : (New(i)' <=> New(i)) /\ (Nameless(i)' <=> Nameless(i)) /\ Subdirs(i)' = Subdirs(i)
    BY <1>1, <1>2, <1>3 DEF New, Nameless, Subdirs, Dirs
  <1>5. \A i : Counted(i)' <=> Counted(i)
    BY <1>2, <1>3, <1>4 DEF Counted
  <1>6. panic = "no" /\ Live /\ NewAlone /\ DotsRight /\ OneName /\ Links
    BY DEF Sound
  <1>7. Live'
    BY <1>1, <1>3, <1>6 DEF Live
  <1>8. NewAlone'
    BY <1>1, <1>2, <1>3, <1>4, <1>6 DEF NewAlone, Nameless
  <1>9. DotsRight'
    BY <1>1, <1>2, <1>3, <1>4, <1>6 DEF DotsRight, New
  <1>10. OneName'
    BY <1>1, <1>2, <1>3, <1>6 DEF OneName, Nameless
  <1>11. Links'
    <2> SUFFICES ASSUME NEW j \in Inums PROVE LinkOK(j)'
      BY DEF Links
    <2> QED
      BY <1>1, <1>4, <1>5, <1>6, LinkStays
  <1> QED
    BY <1>1, <1>6, <1>7, <1>8, <1>9, <1>10, <1>11 DEF Sound

LEMMA NextIInv == IInv /\ [Next]_vars => IInv'
  <1> SUFFICES ASSUME IInv, [Next]_vars PROVE IInv'
    OBVIOUS
  <1>1. Always /\ (~strayed => Sound)
    BY DEF IInv
  <1>2. CASE Next
    <2>1. Types /\ Places
      BY <1>1 DEF Always
    <2>2. PICK p \in Procs : Case(p) /\ Moved(p)
      BY <1>2, <2>1, NextCases
    <2>3. Always'
      BY <1>1, <2>2, AlwaysKept
    <2>4. ASSUME ~strayed' PROVE Sound'
      <3>1. ~strayed
        BY <2>1, <2>2, <2>4, NotStrayed
      <3> QED
        BY <1>1, <2>2, <2>4, <3>1, SoundKept
    <2> QED
      BY <2>3, <2>4 DEF IInv
  <1>3. CASE UNCHANGED vars
    <2>1. strayed' = strayed
      BY <1>3 DEF vars
    <2> QED
      BY <1>1, <1>3, <2>1, StillAlways, StillSound DEF IInv
  <1> QED
    BY <1>2, <1>3

\* The inductive invariant of the directories: the locks follow an order in any
\* case, and the tree is in order as long as nobody has strayed.
THEOREM Invariant == Spec => []IInv
  BY InitIInv, NextIInv, PTL DEF Spec

-----------------------------------------------------------------------------
(* The theorems.                                                           *)

\* The variables have their types: no count of references goes below 0, and every
\* local of a system call and every entry of a directory is an inode, or 0.
THEOREM TypeCorrect == Spec => []TypeOK
  <1>1. ASSUME IInv PROVE TypeOK
    <2>1. Types
      BY <1>1 DEF IInv, Always
    <2>2. ASSUME NEW p \in Procs
          PROVE  /\ th[p].pc \in Pcs
                 /\ \A f \in Locals : th[p][f] \in Inums \cup {0}
                 /\ Range(th[p].puts) \subseteq Locals
      <3>1. th[p] \in Thread
        BY <2>1 DEF Types
      <3>2. th[p].pc \in Pcs /\ th[p].puts \in Seq(Locals)
        BY <3>1, ThreadFields
      <3>3. th[p].at \in Inum0 /\ th[p].ip \in Inum0 /\ th[p].dp \in Inum0
        BY <3>1, ThreadFields
      <3>4. Range(th[p].puts) \subseteq Locals
        BY <3>2 DEF Range
      <3> QED
        BY <3>2, <3>3, <3>4 DEF Locals, Inum0
    <2> QED
      BY <2>1, <2>2 DEF Types, TypeOK, Inum0
  <1> QED
    BY <1>1, Invariant, PTL

\* ip->ref of an inode is the number of pointers that the current directories and
\* the locals of namex, create, sys_unlink and sys_chdir hold.
THEOREM RefCountsCorrect == Spec => []RefCounts
  <1>1. IInv => RefCounts
    BY DEF IInv, Always
  <1> QED
    BY <1>1, Invariant, PTL

\* No processes wait for locks of each other, whatever their path names are and
\* also when somebody has strayed: create and unlink hold a directory only while
\* they wait for an inode below it, and namex holds nothing.
THEOREM NoDeadlockCorrect == Spec => []NoDeadlock
  <1>1. IInv => NoDeadlock
    BY AlwaysNoDeadlock DEF IInv
  <1> QED
    BY <1>1, Invariant, PTL

\* What has a name has one.
LEMMA NamesCounted ==
  ASSUME Types, OneName, NEW i \in Inums
  PROVE  /\ Cardinality(NamesOf(i)) \in {0, 1}
         /\ NamesOf(i) = {} <=> Nameless(i)
         /\ Nameless(i) => Cardinality(NamesOf(i)) = 0
  <1>1. \A x \in NamesOf(i) : x[1] \in Inums /\ x[2] \in Names /\ ents[x[1]][x[2]] = i /\ x = <<x[1], x[2]>>
    BY DEF NamesOf
  <1>2. \A x, y \in NamesOf(i) : x = y
    <2> SUFFICES ASSUME NEW x \in NamesOf(i), NEW y \in NamesOf(i) PROVE x = y
      OBVIOUS
    <2>1. x[1] = y[1] /\ x[2] = y[2]
      BY <1>1, InumsAboveZero DEF OneName
    <2> QED
      BY <1>1, <2>1
  <1>3. NamesOf(i) = {} <=> Nameless(i)
    <2>1. ASSUME NEW d \in Inums, NEW n \in Names, ents[d][n] = i PROVE NamesOf(i) # {}
      <3>1. <<d, n>> \in NamesOf(i)
        BY <2>1 DEF NamesOf
      <3> QED
        BY <3>1
    <2> QED
      BY <1>1, <2>1 DEF Nameless
  <1>4. CASE NamesOf(i) = {}
    BY <1>3, <1>4, FS_EmptySet
  <1>5. CASE NamesOf(i) # {}
    <2>1. PICK x : x \in NamesOf(i)
      BY <1>5
    <2>2. NamesOf(i) = {x}
      BY <1>2, <2>1
    <2> QED
      BY <1>3, <1>5, <2>2, FS_Singleton
  <1> QED
    BY <1>3, <1>4, <1>5

\* While nobody follows a ".." that was freed: ilock finds no free inode, unlink no
\* inode without links, every name leads to an inode that is in use, and the
\* directories form a tree in which ".." leads back.
THEOREM TreeCorrect == Spec => []Tree
  <1>1. ASSUME IInv PROVE Tree
    <2> SUFFICES ASSUME ~strayed
                 PROVE  /\ panic = "no"
                        /\ \A i \in Inums : NamesOf(i) # {} => type[i] # "free"
                        /\ \A i \in Dirs : /\ Cardinality(NamesOf(i)) <= 1
                                           /\ \A x \in NamesOf(i) : ents[i][".."] = x[1]
      BY DEF Tree
    <2>1. Types /\ Live /\ OneName /\ panic = "no"
      BY <1>1, Unpacked DEF IInv
    <2>2. ASSUME NEW i \in Inums, NamesOf(i) # {} PROVE type[i] # "free"
      <3>1. ~Nameless(i)
        BY <2>1, <2>2, NamesCounted
      <3> QED
        BY <2>1, <3>1, InumsAboveZero DEF Nameless, Live
    <2>3. ASSUME NEW i \in Dirs
          PROVE  Cardinality(NamesOf(i)) <= 1 /\ \A x \in NamesOf(i) : ents[i][".."] = x[1]
      <3>1. i \in Inums /\ type[i] = "T_DIR" /\ i # 0
        BY InumsAboveZero DEF Dirs
      <3>2. Cardinality(NamesOf(i)) <= 1
        BY <2>1, <3>1, NamesCounted
      <3>3. \A x \in NamesOf(i) : x[1] \in Inums /\ x[2] \in Names /\ ents[x[1]][x[2]] = i
        BY DEF NamesOf
      <3>4. \A x \in NamesOf(i) : ents[i][".."] = x[1]
        BY <2>1, <3>1, <3>3 DEF OneName
      <3> QED
        BY <3>2, <3>4
    <2> QED
      BY <2>1, <2>2, <2>3
  <1> QED
    BY <1>1, Invariant, PTL

\* While nobody follows a ".." that was freed, a directory that has a name has one
\* link for it and one for each subdirectory, and no file has fewer links than names.
THEOREM LinkCountsCorrect == Spec => []LinkCounts
  <1>1. ASSUME IInv PROVE LinkCounts
    <2> SUFFICES ASSUME ~strayed, NEW i \in Inums
                 PROVE  /\ type[i] = "T_DIR" /\ (i = ROOTINO \/ NamesOf(i) # {})
                           => nlink[i] = 1 + Cardinality(Subdirs(i))
                        /\ nlink[i] >= Cardinality(NamesOf(i))
      BY DEF LinkCounts
    <2>1. Types /\ OneName /\ Links
      BY <1>1, Unpacked DEF IInv
    <2>2. /\ Cardinality(NamesOf(i)) \in {0, 1} /\ (NamesOf(i) = {} <=> Nameless(i))
          /\ Nameless(i) => Cardinality(NamesOf(i)) = 0
      BY <2>1, NamesCounted
    <2>3. i = ROOTINO \/ NamesOf(i) # {} => Counted(i) /\ Bit(Counted(i)) = 1
      BY <2>2 DEF Counted, Bit
    <2>4. LinkOK(i) /\ nlink[i] \in Int /\ Cardinality(Subdirs(i)) \in Nat /\ Bit(Counted(i)) \in {0, 1}
      BY <2>1, SubdirsFinite, BitType DEF Links, Types
    <2>5. type[i] = "T_DIR" /\ (i = ROOTINO \/ NamesOf(i) # {}) => nlink[i] = 1 + Cardinality(Subdirs(i))
      BY <2>3, <2>4 DEF LinkOK
    <2>6. nlink[i] >= Cardinality(NamesOf(i))
      <3>1. nlink[i] >= Bit(Counted(i)) + Cardinality(Subdirs(i))
        BY <2>4 DEF LinkOK
      <3>2. CASE NamesOf(i) = {}
        BY <2>2, <2>4, <3>1, <3>2
      <3>3. CASE NamesOf(i) # {}
        BY <2>2, <2>3, <2>4, <3>1, <3>3
      <3> QED
        BY <3>2, <3>3
    <2> QED
      BY <2>5, <2>6
  <1> QED
    BY <1>1, Invariant, PTL

-----------------------------------------------------------------------------
(* Dirs implements DirTree.                                                *)

\* The inodes with a path, as a function of the entries e.
Closes(e, S) ==
    /\ ROOTINO \in S
    /\ \A d \in S : \A n \in Names : e[d][n] \in S \cup {0}
Reaches(e) == {i \in Inums : \A S \in SUBSET Inums : Closes(e, S) => i \in S}

LEMMA ReachableIs == Reachable = Reaches(ents) /\ Reachable' = Reaches(ents')
  <1>1. \A S : Closed(S) <=> Closes(ents, S)
    BY DEF Closed, Closes
  <1>2. \A S : Closed(S)' <=> Closes(ents', S)
    BY DEF Closed, Closes
  <1>3. Reachable = Reaches(ents)
    BY <1>1 DEF Reachable, Reaches
  <1>4. Reachable' = Reaches(ents')
    BY <1>2 DEF Reachable, Reaches
  <1> QED
    BY <1>3, <1>4

\* They are the smallest such set.
LEMMA Smallest ==
  ASSUME NEW e, \A d \in Inums : \A n \in Names : e[d][n] \in Inum0
  PROVE  /\ Reaches(e) \subseteq Inums /\ Closes(e, Reaches(e))
         /\ \A S \in SUBSET Inums : Closes(e, S) => Reaches(e) \subseteq S
  <1>1. Reaches(e) \subseteq Inums /\ ROOTINO \in Reaches(e)
    BY RootIsInum DEF Reaches, Closes
  <1>2. ASSUME NEW d \in Reaches(e), NEW n \in Names, e[d][n] # 0 PROVE e[d][n] \in Reaches(e)
    <2>1. e[d][n] \in Inums
      BY <1>1, <1>2 DEF Inum0
    <2>2. ASSUME NEW S \in SUBSET Inums, Closes(e, S) PROVE e[d][n] \in S
      <3>1. d \in S
        BY <2>2 DEF Reaches
      <3> QED
        BY <1>2, <2>2, <3>1 DEF Closes
    <2> QED
      BY <2>1, <2>2 DEF Reaches
  <1>3. Closes(e, Reaches(e))
    BY <1>1, <1>2 DEF Closes
  <1> QED
    BY <1>1, <1>3 DEF Reaches

\* An inode without a name has no path.
LEMMA NoPath ==
  ASSUME NEW e, \A d \in Inums : \A n \in Names : e[d][n] \in Inum0,
         NEW i \in Inums, i # ROOTINO, \A d \in Inums : \A n \in Names : e[d][n] # i
  PROVE  i \notin Reaches(e)
  <1>1. Reaches(e) \subseteq Inums /\ Closes(e, Reaches(e))
    BY Smallest
  <1>2. Closes(e, Reaches(e) \ {i})
    BY <1>1 DEF Closes
  <1> QED
    BY <1>1, <1>2 DEF Reaches

\* Entries change from e to f: nowhere that a path leads to, or a name comes, or goes.
LEMMA PathsKept ==
  ASSUME NEW e, \A d \in Inums : \A n \in Names : e[d][n] \in Inum0, NEW f,
         \A d \in Reaches(e) : \A n \in Names : f[d][n] = e[d][n]
  PROVE  Reaches(f) = Reaches(e)
  <1>1. /\ Reaches(e) \subseteq Inums /\ Closes(e, Reaches(e))
        /\ \A S \in SUBSET Inums : Closes(e, S) => Reaches(e) \subseteq S
    BY Smallest
  <1>2. Closes(f, Reaches(e))
    BY <1>1 DEF Closes
  <1>3. ASSUME NEW S \in SUBSET Inums, Closes(f, S) PROVE Reaches(e) \subseteq S
    <2>1. Closes(e, S \cap Reaches(e))
      BY <1>1, <1>3 DEF Closes
    <2> QED
      BY <1>1, <2>1
  <1> QED
    BY <1>1, <1>2, <1>3 DEF Reaches

LEMMA PathsMade ==
  ASSUME NEW e, \A d \in Inums : \A n \in Names : e[d][n] \in Inum0, NEW f,
         NEW d \in Reaches(e), NEW n \in Names, NEW i \in Inums, e[d][n] = 0, f[d][n] = i,
         \A c \in Reaches(e) : \A m \in Names : c # d \/ m # n => f[c][m] = e[c][m],
         \A m \in Names : f[i][m] = 0
  PROVE  Reaches(f) = Reaches(e) \cup {i}
  <1>1. /\ Reaches(e) \subseteq Inums /\ Closes(e, Reaches(e))
        /\ \A S \in SUBSET Inums : Closes(e, S) => Reaches(e) \subseteq S
    BY Smallest
  <1>2. Closes(f, Reaches(e) \cup {i})
    BY <1>1 DEF Closes
  <1>3. ASSUME NEW S \in SUBSET Inums, Closes(f, S) PROVE Reaches(e) \cup {i} \subseteq S
    <2>1. Closes(e, S \cap Reaches(e))
      BY <1>1, <1>3 DEF Closes
    <2>2. Reaches(e) \subseteq S
      BY <1>1, <2>1
    <2>3. f[d][n] \in S \cup {0}
      BY <1>3, <2>2 DEF Closes
    <2> QED
      BY <2>2, <2>3, InumsAboveZero
  <1> QED
    BY <1>1, <1>2, <1>3 DEF Reaches

LEMMA PathsRemoved ==
  ASSUME NEW e, \A d \in Inums : \A n \in Names : e[d][n] \in Inum0, NEW f,
         NEW d \in Reaches(e), NEW n \in Names, NEW i \in Inums, e[d][n] = i, f[d][n] = 0,
         i # ROOTINO, \A c \in Inums : \A m \in Names : e[c][m] = i => c = d /\ m = n,
         \A c \in Reaches(e) : \A m \in Names : c # d \/ m # n => f[c][m] = e[c][m],
         \A m \in Names : e[i][m] = 0
  PROVE  Reaches(f) = Reaches(e) \ {i}
  <1>1. /\ Reaches(e) \subseteq Inums /\ Closes(e, Reaches(e))
        /\ \A S \in SUBSET Inums : Closes(e, S) => Reaches(e) \subseteq S
    BY Smallest
  <1>2. Closes(f, Reaches(e) \ {i})
    BY <1>1 DEF Closes
  <1>3. ASSUME NEW S \in SUBSET Inums, Closes(f, S) PROVE Reaches(e) \ {i} \subseteq S
    <2>1. Closes(e, (S \cap Reaches(e)) \cup {i})
      BY <1>1, <1>3 DEF Closes
    <2> QED
      BY <1>1, <2>1
  <1> QED
    BY <1>1, <1>2, <1>3 DEF Reaches

\* What the tree is after a step, by its nodes and what they name.
LEMMA SeenIs ==
  /\ DOMAIN Seen = Reachable
  /\ \A j \in Reachable : Seen[j] = [kind |-> type[j], entry |-> [m \in Names |-> ents[j][m]]]
  /\ Seen' = [j \in Reachable' |-> [kind |-> type'[j], entry |-> [m \in Names |-> ents'[j][m]]]]
  BY DEF Seen

LEMMA NamingIs ==
  ASSUME NEW d \in Reachable, NEW n \in Names, NEW i, NEW j \in Reachable
  PROVE  Namespace!Naming(d, n, i)[j] =
            [kind |-> type[j], entry |-> [m \in Names |-> IF j = d /\ m = n THEN i ELSE ents[j][m]]]
  <1>1. Namespace!Naming(d, n, i) = [Seen EXCEPT ![d].entry[n] = i]
    BY DEF Namespace!Naming
  <1>2. CASE j # d
    BY <1>1, <1>2, SeenIs
  <1>3. CASE j = d
    <2>1. Namespace!Naming(d, n, i)[d] = [Seen[d] EXCEPT !.entry[n] = i]
      BY <1>1, SeenIs
    <2>2. [Seen[d] EXCEPT !.entry[n] = i] =
             [kind |-> type[d], entry |-> [m \in Names |-> IF m = n THEN i ELSE ents[d][m]]]
      <3> DEFINE e == [m \in Names |-> ents[d][m]]
      <3>1. Seen[d] = [kind |-> type[d], entry |-> e]
        BY SeenIs
      <3>2. [e EXCEPT ![n] = i] = [m \in Names |-> IF m = n THEN i ELSE ents[d][m]]
        OBVIOUS
      <3> HIDE DEF e
      <3>3. [Seen[d] EXCEPT !.entry[n] = i] = [kind |-> type[d], entry |-> [e EXCEPT ![n] = i]]
        BY <3>1
      <3> QED
        BY <3>2, <3>3
    <2> QED
      BY <1>3, <2>1, <2>2
  <1> QED
    BY <1>2, <1>3

\* What has a path stays what it is: an inode that is freed has no name.
LEMMA KindStays ==
  ASSUME Always, Sound, NEW p \in Procs, Case(p), Moved(p), NEW i \in Reachable
  PROVE  type'[i] = type[i]
  <1>1. /\ Types /\ Places /\ RefCounts /\ Locks /\ Contents /\ Live /\ OneName /\ Links
    BY Unpacked
  <1>2. \A d \in Inums : \A n \in Names : ents[d][n] \in Inum0
    BY <1>1 DEF Types, Elems
  <1>3. i \in Inums /\ i \in Reaches(ents)
    BY ReachableIs DEF Reachable
  <1>4. i = ROOTINO \/ ~Nameless(i)
    BY <1>2, <1>3, NoPath DEF Nameless
  <1>5. type[i] # "free"
    BY <1>1, <1>3, <1>4, InumsAboveZero DEF Live, Nameless
  <1>6. ASSUME NEW k \in Inums, Puts(p, k), Frees(k) PROVE type'[i] = type[i]
    <2>1. ~Counted(k)
      BY <1>1, <1>6, CountedLinks DEF Frees
    <2>2. i # k
      BY <1>4, <2>1 DEF Counted
    <2> QED
      BY <1>1, <1>3, <1>6, <2>2 DEF Frees, Types
  <1>7. ASSUME NEW k \in Inums, Allocs(p, k) PROVE type'[i] = type[i]
    BY <1>1, <1>3, <1>5, <1>7 DEF Allocs, Types
  <1>8. CASE type' = type
    BY <1>8
  <1>9. ASSUME NEW k \in Inums, Puts(p, k) PROVE type'[i] = type[i]
    BY <1>1, <1>6, <1>9, PutOutcome
  <1> QED
    BY <1>7, <1>8, <1>9
       DEF Case, Looks, Stops, Ends, Begins, Descends, Finds, Targets, Enters, GivesUp, Clears,
           Unlinks, Panics, Puts

\* A name changes in the tree only at the end of create and in unlink, and it is
\* the only one.
LEMMA NameChanges ==
  ASSUME Always, Sound, NEW p \in Procs, Case(p), Moved(p),
         NEW d \in Reachable, NEW n \in Names, ents'[d][n] # ents[d][n]
  PROVE  /\ d = dp(p) /\ n = th[p].name
         /\ \/ Enters(p) /\ ents[d][n] = 0 /\ ents'[d][n] = ip(p)
            \/ Clears(p) /\ ents[d][n] = ip(p) /\ ents'[d][n] = 0
         /\ \A c \in Reachable : \A m \in Names : c # d \/ m # n => ents'[c][m] = ents[c][m]
  <1>1. Types /\ Places /\ RefCounts /\ Locks /\ Contents /\ Links
    BY Unpacked
  <1>2. \A c \in Inums : \A m \in Names : ents[c][m] \in Inum0
    BY <1>1 DEF Types, Elems
  <1>3. ASSUME NEW c \in Reachable, NEW m \in Names, ents'[c][m] # ents[c][m]
        PROVE  \/ Enters(p) /\ c = dp(p) /\ m = th[p].name /\ ents[c][m] = 0 /\ ents'[c][m] = ip(p)
               \/ Clears(p) /\ c = dp(p) /\ m = th[p].name /\ ents[c][m] = ip(p) /\ ents'[c][m] = 0
    <2>1. c \in Inums /\ c \in Reaches(ents)
      BY ReachableIs DEF Reachable
    <2>2. c = ROOTINO \/ ~Nameless(c)
      BY <1>2, <2>1, NoPath DEF Nameless
    <2>3. ~Frees(c)
      <3>1. Counted(c)
        BY <2>2 DEF Counted
      <3>2. nlink[c] >= 1
        BY <1>1, <2>1, <3>1, CountedLinks
      <3> QED
        BY <3>2 DEF Frees
    <2> QED
      BY <1>1, <1>3, <2>1, <2>3, NamesStep
  <1> QED
    BY <1>3

\* The end of create is the Make of the tree: the new inode has had no path, and
\* it is empty.
LEMMA EntersMakes ==
  ASSUME Always, Sound, NEW p \in Procs, Case(p), Moved(p), Enters(p),
         NEW d \in Reachable, NEW n \in Names, ents'[d][n] # ents[d][n]
  PROVE  Namespace!Make(d, n, ip(p), type[ip(p)]) /\ ip(p) \in Inums \ Reachable
  <1> DEFINE i == ip(p)
  <1>1. Types /\ Places /\ RefCounts /\ Locks /\ Held /\ Contents /\ Live /\ NewAlone /\ Links
    BY Unpacked
  <1>2. \A c \in Inums : \A m \in Names : ents[c][m] \in Inum0
    BY <1>1 DEF Types, Elems
  <1>3. ~Clears(p) /\ Phase(p) = "create" /\ Makes(p)
    BY DEF Enters, Clears, Makes
  <1>4. /\ d = dp(p) /\ ents[d][n] = 0 /\ ents'[d][n] = i
        /\ \A c \in Reachable : \A m \in Names : c # d \/ m # n => ents'[c][m] = ents[c][m]
    BY <1>3, NameChanges
  <1>5. i \in Inums /\ i # ROOTINO /\ i # d
    BY <1>1, <1>3, <1>4, MakesAlone
  <1>6. \A c \in Inums : \A m \in Names : ents[c][m] # i
    BY <1>1, <1>3 DEF NewAlone, Nameless
  <1>7. i \notin Reachable
    BY <1>2, <1>5, <1>6, NoPath, ReachableIs
  <1>8. \A m \in Names : ents'[i][m] = 0
    <2>1. \A m \in Names : m \in Elems /\ m # "." /\ m # ".."
      BY DirsAssumption DEF Elems
    <2>2. \A m \in Names : ents'[i][m] = ents[i][m]
      BY <1>1, <2>1, EnterEffect
    <2> QED
      BY <1>1, <1>3, <2>2 DEF NewAlone
  <1>9. Reachable' = Reachable \cup {i}
    BY <1>2, <1>4, <1>5, <1>8, PathsMade, ReachableIs
  <1>10. type' = type /\ strayed' = strayed /\ type[d] = "T_DIR"
    BY <1>1, <1>3, <1>4 DEF Enters, Held
  <1>11. Seen' = [j \in Reachable \cup {i} |->
                     IF j = i THEN Namespace!Leaf(type[i]) ELSE Namespace!Naming(d, n, i)[j]]
    <2>1. [m \in Names |-> ents'[i][m]] = [m \in Names |-> 0]
      BY <1>8
    <2>2. [kind |-> type'[i], entry |-> [m \in Names |-> ents'[i][m]]] = Namespace!Leaf(type[i])
      BY <1>10, <2>1 DEF Namespace!Leaf
    <2>3. ASSUME NEW j \in Reachable
          PROVE  [kind |-> type'[j], entry |-> [m \in Names |-> ents'[j][m]]]
                    = Namespace!Naming(d, n, i)[j]
      <3>1. [m \in Names |-> ents'[j][m]] = [m \in Names |-> IF j = d /\ m = n THEN i ELSE ents[j][m]]
        BY <1>4
      <3> QED
        BY <1>10, <3>1, NamingIs
    <2> HIDE DEF i
    <2> QED
      BY <1>7, <1>9, <2>2, <2>3, SeenIs
  <1>12. Seen[d].kind = "T_DIR" /\ Seen[d].entry[n] = 0
    BY <1>4, <1>10, SeenIs
  <1>13. DOMAIN Seen = Reachable
    BY SeenIs
  <1> HIDE DEF i
  <1>14. Namespace!Make(d, n, i, type[i])
    BY <1>10, <1>11, <1>12, <1>13 DEF Namespace!Make
  <1> QED
    BY <1>5, <1>7, <1>14 DEF i

\* unlink is the Remove of the tree: what it removes names nothing, and has no
\* other name.
LEMMA ClearsRemoves ==
  ASSUME Always, Sound, NEW p \in Procs, Case(p), Moved(p), Clears(p),
         NEW d \in Reachable, NEW n \in Names, ents'[d][n] # ents[d][n]
  PROVE  Namespace!Remove(d, n, ip(p)) /\ ip(p) \in Reachable
  <1> DEFINE i == ip(p)
  <1>1. Types /\ Places /\ RefCounts /\ Locks /\ Contents /\ OneName
    BY Unpacked
  <1>2. \A c \in Inums : \A m \in Names : ents[c][m] \in Inum0
    BY <1>1 DEF Types, Elems
  <1>3. ~Enters(p) /\ i \in Inums /\ i # 0
    BY <1>1, DirIsNotInode, InumsAboveZero DEF Enters, Clears
  <1>4. /\ ents[d][n] = i /\ ents'[d][n] = 0
        /\ \A c \in Reachable : \A m \in Names : c # d \/ m # n => ents'[c][m] = ents[c][m]
    BY <1>3, NameChanges
  <1>5. d \in Inums /\ d \in Reaches(ents)
    BY ReachableIs DEF Reachable
  <1>6. i # ROOTINO /\ \A c \in Inums : \A m \in Names : ents[c][m] = i => c = d /\ m = n
    BY <1>1, <1>3, <1>4, <1>5 DEF OneName
  <1>7. \A m \in Names : ents[i][m] = 0
    <2>1. CASE type[i] = "T_DIR"
      BY <2>1 DEF Clears, isdirempty
    <2>2. CASE type[i] # "T_DIR"
      BY <1>1, <1>3, <2>2 DEF Contents, NoEntries, Elems
    <2> QED
      BY <2>1, <2>2
  <1>8. i \in Reachable
    <2>1. Closes(ents, Reaches(ents))
      BY <1>2, Smallest
    <2> QED
      BY <1>3, <1>4, <1>5, <2>1, ReachableIs DEF Closes
  <1>9. Reachable' = Reachable \ {i}
    BY <1>2, <1>3, <1>4, <1>5, <1>6, <1>7, PathsRemoved, ReachableIs
  <1>10. type' = type /\ strayed' = strayed
    BY DEF Clears
  <1>11. Seen' = [j \in Reachable \ {i} |-> Namespace!Naming(d, n, 0)[j]]
    <2>1. ASSUME NEW j \in Reachable
          PROVE  [kind |-> type'[j], entry |-> [m \in Names |-> ents'[j][m]]]
                    = Namespace!Naming(d, n, 0)[j]
      <3>1. [m \in Names |-> ents'[j][m]] = [m \in Names |-> IF j = d /\ m = n THEN 0 ELSE ents[j][m]]
        BY <1>4
      <3> QED
        BY <1>10, <3>1, NamingIs
    <2> HIDE DEF i
    <2> QED
      BY <1>9, <2>1, SeenIs
  <1>12. Seen[d].entry[n] = i
    BY <1>4, SeenIs
  <1>13. Seen[i] = Namespace!Leaf(Seen[i].kind)
    <2>1. [m \in Names |-> ents[i][m]] = [m \in Names |-> 0]
      BY <1>7
    <2>2. Seen[i] = [kind |-> type[i], entry |-> [m \in Names |-> ents[i][m]]]
      BY <1>8, SeenIs
    <2>3. Seen[i] = [kind |-> type[i], entry |-> [m \in Names |-> 0]]
      BY <2>1, <2>2
    <2> QED
      BY <2>3 DEF Namespace!Leaf
  <1>14. DOMAIN Seen = Reachable
    BY SeenIs
  <1> HIDE DEF i
  <1>15. Namespace!Remove(d, n, i)
    BY <1>10, <1>11, <1>12, <1>13, <1>14 DEF Namespace!Remove
  <1> QED
    BY <1>8, <1>15 DEF i

\* Every step is a step of the tree, or is not seen in it.
LEMMA DirTreeStep ==
  ASSUME IInv, Next
  PROVE  [Namespace!Next]_(Namespace!vars)
  <1>1. CASE strayed'
    BY <1>1 DEF Namespace!Next
  <1>2. CASE ~strayed'
    <2>1. Always
      BY DEF IInv
    <2>2. PICK p \in Procs : Case(p) /\ Moved(p)
      BY <2>1, NextCases DEF Always
    <2>3. ~strayed
      BY <1>2, <2>1, <2>2, NotStrayed DEF Always
    <2>4. Sound
      BY <2>3 DEF IInv
    <2>5. DOMAIN Seen = Reachable /\ \A i \in Reachable : i \in Inums
      BY SeenIs DEF Reachable
    <2>6. ASSUME NEW d \in Reachable, NEW n \in Names, ents'[d][n] # ents[d][n]
          PROVE  Namespace!Next
      <3>1. CASE Enters(p)
        <4>1. Namespace!Make(d, n, ip(p), type[ip(p)]) /\ ip(p) \in Inums \ Reachable
          BY <2>1, <2>2, <2>4, <2>6, <3>1, EntersMakes
        <4>2. type[ip(p)] \in {"T_DIR", "T_DEVICE"}
          BY <2>1, <2>2, <3>1 DEF Always, Held, Enters
        <4> QED
          BY <2>3, <2>5, <4>1, <4>2 DEF Namespace!Next
      <3>2. CASE Clears(p)
        <4>1. Namespace!Remove(d, n, ip(p)) /\ ip(p) \in Reachable
          BY <2>1, <2>2, <2>4, <2>6, <3>2, ClearsRemoves
        <4> QED
          BY <2>3, <2>5, <4>1 DEF Namespace!Next
      <3> QED
        BY <2>1, <2>2, <2>4, <2>6, <3>1, <3>2, NameChanges
    <2>7. ASSUME \A d \in Reachable : \A n \in Names : ents'[d][n] = ents[d][n]
          PROVE  UNCHANGED Namespace!vars
      <3>1. \A d \in Inums : \A n \in Names : ents[d][n] \in Inum0
        BY <2>1 DEF Always, Types, Elems
      <3>2. Reachable' = Reachable
        BY <2>7, <3>1, PathsKept, ReachableIs
      <3>3. \A j \in Reachable : [kind |-> type'[j], entry |-> [m \in Names |-> ents'[j][m]]]
                                 = [kind |-> type[j], entry |-> [m \in Names |-> ents[j][m]]]
        <4> SUFFICES ASSUME NEW j \in Reachable
                     PROVE  [kind |-> type'[j], entry |-> [m \in Names |-> ents'[j][m]]]
                               = [kind |-> type[j], entry |-> [m \in Names |-> ents[j][m]]]
          OBVIOUS
        <4>1. type'[j] = type[j]
          BY <2>1, <2>2, <2>4, KindStays
        <4>2. [m \in Names |-> ents'[j][m]] = [m \in Names |-> ents[j][m]]
          BY <2>7
        <4> QED
          BY <4>1, <4>2
      <3>4. Seen' = Seen
        BY <3>2, <3>3 DEF Seen
      <3>5. strayed \in BOOLEAN /\ strayed' \in BOOLEAN
        <4>1. Types'
          BY <2>1, <2>2, TypesStep DEF Always
        <4> QED
          BY <2>1, <4>1 DEF Always, Types
      <3>6. strayed' = strayed
        BY <1>2, <2>3, <3>5
      <3> QED
        BY <3>4, <3>6 DEF Namespace!vars
    <2> QED
      BY <2>6, <2>7
  <1> QED
    BY <1>1, <1>2

LEMMA DirTreeInit ==
  ASSUME Init
  PROVE  Namespace!Init
  <1>1. \A d \in Inums : \A n \in Names : ents[d][n] = 0 /\ n \in Elems
    <2>1. \A n \in Names : n \in Elems /\ n # "." /\ n # ".."
      BY DirsAssumption DEF Elems
    <2> QED
      BY <2>1 DEF Init, NoEntries
  <1>2. Reachable = {ROOTINO}
    <2>1. Closes(ents, {ROOTINO})
      BY <1>1, RootIsInum DEF Closes
    <2>2. ROOTINO \in Reaches(ents)
      BY RootIsInum DEF Reaches, Closes
    <2>3. Reaches(ents) \subseteq {ROOTINO}
      BY <2>1, RootIsInum DEF Reaches
    <2> QED
      BY <2>2, <2>3, ReachableIs
  <1>3. [m \in Names |-> ents[ROOTINO][m]] = [m \in Names |-> 0]
    BY <1>1, RootIsInum
  <1>4. type[ROOTINO] = "T_DIR" /\ ~strayed
    BY RootIsInum DEF Init
  <1>5. Seen = [i \in {ROOTINO} |-> Namespace!Leaf("T_DIR")]
    <2>1. [kind |-> type[ROOTINO], entry |-> [m \in Names |-> ents[ROOTINO][m]]]
             = Namespace!Leaf("T_DIR")
      BY <1>3, <1>4 DEF Namespace!Leaf
    <2> QED
      BY <1>2, <2>1 DEF Seen
  <1> QED
    BY <1>4, <1>5 DEF Namespace!Init

\* mkdir, mknod and unlink implement DirTree: for any processes, names, inodes and
\* path names, and whatever locks they take in which order, each is one step on the
\* tree of names.  A new inode appears empty and with its name, and unlink takes away
\* an inode that names nothing, whoever creates names in it at the same time.  What
\* becomes of a directory that is removed while processes are in it is not seen in
\* the tree, as long as nobody follows a ".." that was freed.
THEOREM DirTreeRefinement == Spec => ImplementsDirTree
  <1>1. Init => Namespace!Init
    BY DirTreeInit
  <1>2. IInv /\ [Next]_vars => [Namespace!Next]_(Namespace!vars)
    <2>1. ASSUME UNCHANGED vars PROVE UNCHANGED Namespace!vars
      BY <2>1 DEF vars, Namespace!vars, Seen, Reachable, Closed
    <2> QED
      BY <2>1, DirTreeStep
  <1> QED
    BY <1>1, <1>2, Invariant, PTL DEF Spec, ImplementsDirTree, Namespace!Spec
=============================================================================
