------------------------------- MODULE Pstree -------------------------------
(***************************************************************************)
(* pstree.c of HW1: reads /proc while processes and threads come and go,   *)
(* builds the tree of what it has read and prints it from process 1 on.    *)
(*                                                                         *)
(* The kernel (external) numbers processes and threads from one set of     *)
(* ids, upwards; readdir fills its buffer with the ids of some of the next *)
(* processes.  Names are numbers in the order of strcmp; that threads are  *)
(* shown in braces puts them behind processes.  An index past the end of an*)
(* array is phase = "overrun", where the model stops.  Widths, bars, the   *)
(* characters of the tree and with them the order of the lines are left out.*)
(***************************************************************************)
EXTENDS Integers, Sequences, FiniteSets, FiniteSetsExt, SequencesExt

CONSTANTS Ids,            \* 1..n, the ids that the kernel gives out
          FIRST,          \* how many of them are in use at the beginning
          Names,
          Spaced,         \* the names that contain a space
          OptionSets,     \* what the program is called with
          MAX_PROCESSES, MAX_CHILDREN,
          Recycle,        \* whether ids are given out again
          MaxEvents       \* bound: forks and exits while pstree reads

ASSUME PstreeAssumption ==
    /\ IsFiniteSet(Ids) /\ Ids = 1..Cardinality(Ids) /\ FIRST \in Ids
    /\ Names \subseteq Nat \ {0} /\ Spaced \subseteq Names /\ Names # Spaced
    /\ OptionSets \subseteq SUBSET {"T", "t", "p", "c", "a", "n", "A"}
    /\ MAX_PROCESSES \in Nat /\ MAX_CHILDREN \in Nat /\ MaxEvents \in Nat
    /\ Recycle \in BOOLEAN

VARIABLES
    task,     \* the kernel: what each id stands for
    last,     \* the kernel: the last id given out
    events,
    opts,     \* the options
    phase,
    entries, pos,   \* readdir: ids in the buffer, and the last one that was there
    cur,      \* the process that is being read
    open,     \* the open stat file is that of a process that still exists
    tree,     \* process_tree; the children of a node as a set
    order,    \* the children of each node as they are after sort_children
    printed,  \* the lines printed
    stay,     \* history: the processes that exist since the start
    bad       \* history: the processes whose stat line was not read as a whole

kernel == <<task, last, events, stay>>
ps_vars == <<kernel, opts, phase, entries, pos, cur, open, tree, order, printed, bad>>

NoTask == [kind |-> "none", parent |-> 0, name |-> 0]
NULL == [ppid |-> -1, name |-> 0, cmdline |-> "empty", children |-> {}]

IsProcess(i) == task[i].kind = "process"
Threads(p) == {i \in Ids : task[i].kind = "thread" /\ task[i].parent = p}

FirstTasks(par, nm, th) ==
    [i \in Ids |-> IF i > FIRST THEN NoTask
                  ELSE [kind |-> IF i \in th THEN "thread" ELSE "process",
                        parent |-> IF i = 1 THEN 0 ELSE par[i], name |-> nm[i]]]

\* Everything descends from process 1; init has a name without spaces.
PstreeInit ==
    /\ \E par \in [1..FIRST -> 1..FIRST], nm \in [1..FIRST -> Names], th \in SUBSET (2..FIRST) :
         /\ par[1] = 1 /\ nm[1] = Min(Names \ Spaced)
         /\ \A i \in 2..FIRST : /\ par[par[par[i]]] = 1
                                /\ par[i] \notin th
                                /\ ~Recycle => par[i] < i
         /\ task = FirstTasks(par, nm, th)
    /\ last = FIRST /\ events = 0
    /\ opts \in OptionSets
    /\ phase = "readdir" /\ entries = {} /\ pos = 0 /\ cur = 0 /\ open = FALSE
    /\ tree = [i \in Ids |-> NULL] /\ order = [i \in Ids |-> <<>>] /\ printed = {}
    /\ stay = {i \in Ids : IsProcess(i)} /\ bad = {}

-----------------------------------------------------------------------------
(* The kernel, while pstree reads.                                         *)

Event == /\ phase \in {"readdir", "scan", "threads", "cmdline"}
         /\ events < MaxEvents
         /\ events' = events + 1
         /\ UNCHANGED <<opts, phase, entries, pos, cur, tree, order, printed, bad>>

FreeIds == {i \in Ids : task[i].kind = "none" /\ (Recycle \/ i > last)}

\* fork, or a new thread.
NewTask(p, kind, nm) ==
    /\ Event
    /\ IsProcess(p) /\ FreeIds # {}
    /\ \E i \in IF Recycle THEN FreeIds ELSE {Min(FreeIds)} :
         /\ task' = [task EXCEPT ![i] = [kind |-> kind, parent |-> p, name |-> nm]]
         /\ last' = Max({last, i})
    /\ UNCHANGED <<stay, open>>

\* The children of a process that exits go to init.
ExitProcess(p) ==
    /\ Event
    /\ IsProcess(p) /\ p # 1
    /\ task' = [i \in Ids |-> IF i = p \/ i \in Threads(p) THEN NoTask
                              ELSE IF task[i].parent = p THEN [task[i] EXCEPT !.parent = 1]
                              ELSE task[i]]
    /\ open' = (open /\ cur # p)
    /\ stay' = stay \ {p}
    /\ UNCHANGED last

ExitThread(i) ==
    /\ Event
    /\ task[i].kind = "thread"
    /\ task' = [task EXCEPT ![i] = NoTask]
    /\ UNCHANGED <<last, stay, open>>

-----------------------------------------------------------------------------
(* read_all_processes and read_process_info.                               *)

\* readdir: the next processes, as far as the buffer goes, or the end.
ReadDir ==
    LET more == {i \in Ids : IsProcess(i) /\ i > pos} IN
    /\ phase = "readdir" /\ entries = {}
    /\ \/ more = {} /\ phase' = "link" /\ UNCHANGED <<entries, pos>>
       \/ \E k \in more :
            /\ entries' = {i \in more : i <= k} /\ pos' = k
            /\ UNCHANGED phase
    /\ UNCHANGED <<kernel, opts, cur, open, tree, order, printed, bad>>

\* fopen of /proc/pid/stat: a process that is gone is left out.
OpenStat ==
    /\ phase = "readdir" /\ entries # {}
    /\ cur' = Min(entries) /\ entries' = entries \ {cur'}
    /\ open' = IsProcess(cur')
    /\ phase' = IF open' THEN "scan" ELSE "readdir"
    /\ UNCHANGED <<kernel, opts, pos, tree, order, printed, bad>>

ShowThreads == "T" \notin opts
ShowCmdline == "a" \in opts
ShowCompact == "c" \notin opts
SortByPid == "n" \in opts

\* fscanf of the name and the parent.  When the process is gone neither is set;
\* after a name with a space the parent is not.  What is not set is anything.
ScanStat ==
    /\ phase = "scan"
    /\ \E nm \in IF open THEN {task[cur].name} ELSE Names,
          pp \in IF open /\ task[cur].name \notin Spaced THEN {task[cur].parent} ELSE Ids \cup {0} :
         tree' = [tree EXCEPT ![cur] =
                    [ppid |-> pp, name |-> nm, cmdline |-> "empty", children |-> {}]]
    /\ bad' = IF open /\ task[cur].name \notin Spaced THEN bad ELSE bad \cup {cur}
    /\ phase' = IF cur >= MAX_PROCESSES THEN "overrun" ELSE "threads"
    /\ open' = FALSE
    /\ UNCHANGED <<kernel, opts, entries, pos, cur, order, printed>>

ChildNode(i, nm, thread) == [id |-> i, name |-> nm, thread |-> thread]

\* The threads that the process has now are its first children.
ReadThreads ==
    LET threads == IF ShowThreads THEN Threads(cur) ELSE {} IN
    /\ phase = "threads"
    /\ tree' = [tree EXCEPT ![cur].children =
                  {ChildNode(i, IF "t" \in opts THEN task[i].name ELSE tree[cur].name, TRUE) : i \in threads}]
    /\ phase' = IF Cardinality(threads) > MAX_CHILDREN THEN "overrun" ELSE "cmdline"
    /\ UNCHANGED <<kernel, opts, entries, pos, cur, open, order, printed, bad>>

\* The command line, or "()" for a process that is gone.
ReadCmdline ==
    /\ phase = "cmdline"
    /\ tree' = [tree EXCEPT ![cur].cmdline = IF ~ShowCmdline THEN "empty"
                                             ELSE IF IsProcess(cur) THEN "command" ELSE "()"]
    /\ phase' = "readdir"
    /\ UNCHANGED <<kernel, opts, entries, pos, cur, open, order, printed, bad>>

-----------------------------------------------------------------------------
(* build_process_tree.                                                     *)

\* Mutant: children of process 1 are left out.
LinkedOffByOne(i) ==
    {ChildNode(j, tree[j].name, FALSE) :
        j \in {k \in Ids : tree[k] # NULL /\ tree[k].ppid = i /\ tree[k].ppid > 1}}

\* The processes that name i as their parent.
Linked(i) ==
    {ChildNode(j, tree[j].name, FALSE) : j \in {k \in Ids : tree[k] # NULL /\ tree[k].ppid = i}}

Link ==
    /\ phase = "link"
    /\ tree' = [i \in Ids |-> IF tree[i] = NULL THEN NULL
                              ELSE [tree[i] EXCEPT !.children = @ \cup Linked(i)]]
    /\ phase' = IF \E i \in Ids : Cardinality(tree'[i].children) > MAX_CHILDREN
                THEN "overrun" ELSE "sort"
    /\ pos' = 1
    /\ UNCHANGED <<kernel, opts, entries, cur, open, order, printed, bad>>

\* compare_by_pid or compare_by_name.
NotAfter(a, b) ==
    IF SortByPid THEN a.id <= b.id
    ELSE (~a.thread /\ b.thread) \/ (a.thread = b.thread /\ a.name <= b.name)

\* sort_children of one node; qsort may leave equal elements in any order.
SortChildren ==
    /\ phase = "sort"
    /\ \E s \in SetToSeqs(tree[pos].children) :
         /\ \A i \in 1..(Len(s) - 1) : NotAfter(s[i], s[i + 1])
         /\ order' = [order EXCEPT ![pos] = s]
    /\ IF pos + 1 \in Ids THEN pos' = pos + 1 /\ UNCHANGED phase ELSE phase' = "print" /\ UNCHANGED pos
    /\ UNCHANGED <<kernel, opts, entries, cur, open, tree, printed, bad>>

-----------------------------------------------------------------------------
(* print_process_tree.  It calls itself for the children; the least set    *)
(* that contains the first argument and what is called for each argument in*)
(* it has all the arguments.  Its loop is written in the same way.         *)

\* The least set with x that contains the elements of step[y] for each y in it.
Closure(step, x) ==
    {y \in DOMAIN step : \A S \in SUBSET DOMAIN step :
        x \in S /\ (\A z \in S : step[z] \subseteq S) => y \in S}

IsLeaf(c) == c.thread \/ tree[c.id].children = {}

SameName(a, b) == a.name = b.name /\ a.thread = b.thread

\* Mutant: counts children of any name.
CountLeaves(cs, i) == Cardinality({j \in i..Len(cs) : IsLeaf(cs[j])})

count_same_name_children(cs, i) ==
    Cardinality({j \in i..Len(cs) : SameName(cs[j], cs[i]) /\ IsLeaf(cs[j])})

\* Where the turn of the loop that begins at i ends: of count children of one
\* name the first count - 1 are skipped, wherever the others are.
TurnEnd(cs, i) ==
    LET count == IF ShowCompact THEN count_same_name_children(cs, i) ELSE 1 IN
    IF count > 1 THEN i + count - 1 ELSE i

Turns(cs) ==
    Closure([i \in 1..(Len(cs) + 1) |-> IF i > Len(cs) THEN {} ELSE {TurnEnd(cs, i) + 1}], 1)
    \cap DOMAIN cs

\* One line: the command line hides the name and with it the count.  The
\* command line of a thread is not initialised: junk says whether it is empty.
Line(c, count, junk) ==
    LET hidden == IF c.thread THEN junk ELSE tree[c.id].cmdline # "empty" IN
    [id |-> c.id, thread |-> c.thread, name |-> IF c.thread /\ junk THEN 0 ELSE c.name,
     count |-> IF hidden THEN 1 ELSE count]

\* The lines of the children of p.
ChildLines(p, junk) ==
    LET cs == order[p] IN {Line(cs[TurnEnd(cs, i)], TurnEnd(cs, i) + 1 - i, junk) : i \in Turns(cs)}

\* The processes for which print_process_tree is called.
Called ==
    Closure([p \in Ids |-> {l.id : l \in {m \in ChildLines(p, FALSE) : ~m.thread}}], 1)

\* main calls print_process_tree for process 1, if that was read.
Output(junk) ==
    IF tree[1] = NULL THEN {}
    ELSE {Line(ChildNode(1, tree[1].name, FALSE), 1, junk)} \cup UNION {ChildLines(p, junk) : p \in Called}

print_process_tree ==
    /\ phase = "print"
    /\ \E junk \in BOOLEAN : printed' = Output(junk)
    /\ phase' = "done"
    /\ UNCHANGED <<kernel, opts, entries, pos, cur, open, tree, order, bad>>

PstreeNext ==
    \/ \E p \in Ids, nm \in Names, kind \in {"process", "thread"} : NewTask(p, kind, nm)
    \/ \E i \in Ids : ExitProcess(i) \/ ExitThread(i)
    \/ ReadDir \/ OpenStat \/ ScanStat \/ ReadThreads \/ ReadCmdline
    \/ Link \/ SortChildren \/ print_process_tree

PstreeSpec == PstreeInit /\ [][PstreeNext]_ps_vars

-----------------------------------------------------------------------------
(* Properties.                                                             *)

\* The variables have their types; readdir never gives an id twice.
PstreeTypeOK ==
    /\ last \in Ids /\ events \in 0..MaxEvents /\ opts \in OptionSets
    /\ phase \in {"readdir", "scan", "threads", "cmdline", "link", "sort", "print", "done", "overrun"}
    /\ pos \in Ids \cup {0} /\ cur \in Ids \cup {0}
    /\ \A i \in Ids : tree[i].ppid \in Ids \cup {-1, 0}
    /\ entries \subseteq Ids /\ \A i \in entries : i > cur /\ tree[i] = NULL

\* i and what is below it in the tree.
Below(i) == Closure([p \in Ids |-> {c.id : c \in {d \in tree[p].children : ~d.thread}}], i)

\* A process that exists from the start to the end of the reading is in the
\* tree below process 1, although its parents exit, it is handed over to init
\* and other processes come and go, unless the stat line of such a process, or
\* of one that was read as somebody's parent, could not be read.
StayersInTree ==
    phase = "done" /\ bad \cap (stay \cup {tree[i].ppid : i \in Ids \ bad}) = {}
    => stay \subseteq Below(1)

\* The lines for the processes of name nm below i stand for all of them: each
\* for as many as its count says.
Shown(i, nm) ==
    LET kids == {c \in tree[i].children : c.name = nm /\ ~c.thread}
        lines == {l \in printed : ~l.thread /\ l.id \in {c.id : c \in kids}} IN
    Cardinality(UNION {{l} \X (1..l.count) : l \in lines}) = Cardinality(kids)

\* report.md: "-c  Disable compaction of identical subtrees.  By default,
\* subtrees are compacted whenever possible": no process below process 1 is
\* missing, on a line of its own or counted on the line of others like it.
NothingLost ==
    phase = "done" => \A i \in Below(1), nm \in Names : Shown(i, nm)

\* Two children of one name of which one has children.
Mixed(i) ==
    \E c, d \in tree[i].children :
        SameName(c, d) /\ IsLeaf(c) /\ ~IsLeaf(d)

\* Nothing is lost and nothing shown twice without compaction, nor with it as
\* long as children are sorted by name, no command line hides a count and no
\* two of the same name differ in having children.
CompactionCounts ==
    phase = "done" /\ (ShowCompact => /\ ~SortByPid /\ ~ShowCmdline
                                      /\ \A i \in Below(1) : ~Mixed(i))
    => \A i \in Below(1), nm \in Names : Shown(i, nm)
=============================================================================
