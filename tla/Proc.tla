-------------------------------- MODULE Proc --------------------------------
(***************************************************************************)
(* The life of a process in HW3/source/proc.c: fork, exit, wait and kill,  *)
(* sleep and wakeup, and the scheduler, on several CPUs.                   *)
(*                                                                         *)
(* The steps of a process lie between two lock operations.  A p->lock that *)
(* is taken and given back in one step is not seen; it is held over        *)
(* several steps only around swtch, from the change of p->state to the     *)
(* release on the other side, and plock says for whom.  wait_lock is held  *)
(* over the steps of wait and exit.  Whoever holds or waits for a spinlock *)
(* has interrupts off; anywhere else the timer may take the CPU away.      *)
(* Memory, files and pids are left out.                                    *)
(***************************************************************************)
EXTENDS Integers, FiniteSets

CONSTANTS Procs,     \* the slots of proc[]
          CPUs,
          initproc,
          Victims,   \* the processes that somebody kills; never initproc
          None

ASSUME ProcAssumption ==
    /\ initproc \in Procs
    /\ Victims \subseteq Procs \ {initproc}
    /\ None \notin Procs

VARIABLES state, chan, killed, parent,   \* the fields of struct proc
          pc,         \* where the kernel thread of p is
          ret,        \* where it goes on when it is scheduled again
          child,      \* np of a fork under way
          plock,      \* p->lock is held across a switch of p
          wait_lock,  \* the process that holds wait_lock
          cpu         \* c->proc

table == <<state, chan, killed, parent>>
vars == <<table, pc, ret, child, plock, wait_lock, cpu>>

\* userinit: the first process, ready to run in forkret.
Init ==
    /\ state = [p \in Procs |-> IF p = initproc THEN "RUNNABLE" ELSE "UNUSED"]
    /\ chan = [p \in Procs |-> None]
    /\ killed = [p \in Procs |-> 0]
    /\ parent = [p \in Procs |-> None]
    /\ pc = [p \in Procs |-> IF p = initproc THEN "yielded" ELSE "none"]
    /\ ret = [p \in Procs |-> "user"]
    /\ child = [p \in Procs |-> None]
    /\ plock = [p \in Procs |-> FALSE]
    /\ wait_lock = None
    /\ cpu = [c \in CPUs |-> None]

OnCpu(p) == \E c \in CPUs : cpu[c] = p
Runs(p, l) == OnCpu(p) /\ state[p] = "RUNNING" /\ pc[p] = l
Goto(p, l) == pc' = [pc EXCEPT ![p] = l]
Children(p) == {q \in Procs : parent[q] = p}

-----------------------------------------------------------------------------
(* scheduler, sched, yield, forkret.                                       *)

\* Mutant: the scheduler does not take p->lock.
ScheduleUnlocked(c, p) ==
    /\ cpu[c] = None
    /\ state[p] = "RUNNABLE"
    /\ state' = [state EXCEPT ![p] = "RUNNING"]
    /\ plock' = [plock EXCEPT ![p] = TRUE]
    /\ cpu' = [cpu EXCEPT ![c] = p]
    /\ UNCHANGED <<chan, killed, parent, pc, child, wait_lock, ret>>

\* The scheduler takes p->lock and switches to p, which gives it back.
Schedule(c, p) ==
    /\ cpu[c] = None
    /\ ~plock[p] /\ state[p] = "RUNNABLE"
    /\ state' = [state EXCEPT ![p] = "RUNNING"]
    /\ plock' = [plock EXCEPT ![p] = TRUE]
    /\ cpu' = [cpu EXCEPT ![c] = p]
    /\ UNCHANGED <<chan, killed, parent, pc, child, wait_lock, ret>>

\* sched: a process that holds its lock and is not RUNNING any more switches
\* to the scheduler, which gives the lock back.
SwitchOut(c) ==
    LET p == cpu[c] IN
    /\ p # None
    /\ plock[p] /\ state[p] # "RUNNING"
    /\ cpu' = [cpu EXCEPT ![c] = None]
    /\ plock' = [plock EXCEPT ![p] = FALSE]
    /\ UNCHANGED <<table, pc, child, wait_lock, ret>>

\* The return from sched in yield, or the start of forkret.
Resume(p) ==
    /\ Runs(p, "yielded")
    /\ plock' = [plock EXCEPT ![p] = FALSE]
    /\ Goto(p, ret[p])
    /\ ret' = [ret EXCEPT ![p] = "user"]
    /\ UNCHANGED <<table, child, wait_lock, cpu>>

\* usertrap looks at p->killed before and after it serves a trap.
UserTrap(p) ==
    /\ Runs(p, "user")
    /\ Goto(p, IF killed[p] = 1 THEN "exit" ELSE "kernel")
    /\ UNCHANGED <<table, child, plock, wait_lock, cpu, ret>>

\* yield, called when the timer interrupts p at l; p goes on at r.
YieldFrom(p, l, r) ==
    /\ Runs(p, l)
    /\ ~plock[p]
    /\ state' = [state EXCEPT ![p] = "RUNNABLE"]
    /\ plock' = [plock EXCEPT ![p] = TRUE]
    /\ ret' = [ret EXCEPT ![p] = r]
    /\ Goto(p, "yielded")
    /\ UNCHANGED <<chan, killed, parent, child, wait_lock, cpu>>

\* The timer interrupt of usertrap.
Yield(p) == YieldFrom(p, "kernel", "user")

\* The timer interrupt of kerneltrap, where interrupts are on.
KernelYield(p) ==
    \E l \in {"kernel", "fork parent", "fork run", "exit", "relock"} :
        YieldFrom(p, l, l)

\* acquire(&wait_lock) turns interrupts off and then waits for the lock.
Spin == [l \in {"fork parent", "exit", "relock"} |->
            IF l = "fork parent" THEN "fork acquire"
            ELSE IF l = "exit" THEN "exit acquire" ELSE "wait acquire"]
PushOff(p) ==
    \E l \in DOMAIN Spin :
        /\ Runs(p, l)
        /\ ~plock[p]
        /\ Goto(p, Spin[l])
        /\ UNCHANGED <<table, ret, child, plock, wait_lock, cpu>>

-----------------------------------------------------------------------------
(* fork.                                                                   *)

\* init's program (external) forks when it has no child and waits otherwise.
MayFork(p) == p = initproc => Children(p) = {}

\* allocproc, and everything up to the release of np->lock.
ForkAlloc(p, np) ==
    /\ Runs(p, "kernel") /\ MayFork(p)
    /\ ~plock[np] /\ state[np] = "UNUSED"
    /\ state' = [state EXCEPT ![np] = "USED"]
    /\ child' = [child EXCEPT ![p] = np]
    /\ Goto(p, "fork parent")
    /\ UNCHANGED <<chan, killed, parent, plock, wait_lock, cpu, ret>>

\* No free slot or no memory: whatever was allocated is freed, fork returns -1.
ForkFail(p) ==
    /\ Runs(p, "kernel") /\ MayFork(p)
    /\ Goto(p, "user")
    /\ UNCHANGED <<table, child, plock, wait_lock, cpu, ret>>

ForkParent(p) ==
    /\ Runs(p, "fork acquire")
    /\ wait_lock = None
    /\ parent' = [parent EXCEPT ![child[p]] = p]
    /\ Goto(p, "fork run")
    /\ UNCHANGED <<state, chan, killed, child, plock, wait_lock, cpu, ret>>

ForkRun(p) ==
    LET np == child[p] IN
    /\ Runs(p, "fork run")
    /\ ~plock[np]
    /\ state' = [state EXCEPT ![np] = "RUNNABLE"]
    /\ pc' = [pc EXCEPT ![np] = "yielded", ![p] = "user"]
    /\ child' = [child EXCEPT ![p] = None]
    /\ UNCHANGED <<chan, killed, parent, plock, wait_lock, cpu, ret>>

-----------------------------------------------------------------------------
(* exit and wakeup.                                                        *)

\* wakeup(chan) makes each other process that sleeps on chan runnable.  The
\* channels of wait are processes and only q sleeps on q, so its lock is the
\* one that matters.
CanWakeup(q) == ~plock[q]
Wakeup(p, q) ==
    IF q # p /\ state[q] = "SLEEPING" /\ chan[q] = q
    THEN [state EXCEPT ![q] = "RUNNABLE"] ELSE state

ExitCall(p) ==
    /\ Runs(p, "kernel") /\ p # initproc
    /\ Goto(p, "exit")
    /\ UNCHANGED <<table, child, plock, wait_lock, cpu, ret>>

ExitLock(p) ==
    /\ Runs(p, "exit acquire")
    /\ wait_lock = None
    /\ wait_lock' = p
    /\ Goto(p, "reparent")
    /\ UNCHANGED <<table, child, plock, cpu, ret>>

\* Mutant: the children stay with p.
ReparentToSelf(p) ==
    /\ Runs(p, "reparent")
    /\ \E q \in Children(p) : parent' = [parent EXCEPT ![q] = p]
    /\ CanWakeup(initproc)
    /\ state' = Wakeup(p, initproc)
    /\ UNCHANGED <<chan, killed, pc, child, plock, wait_lock, cpu, ret>>

\* reparent: one turn of its loop.
Reparent(p) ==
    /\ Runs(p, "reparent")
    /\ \E q \in Children(p) : parent' = [parent EXCEPT ![q] = initproc]
    /\ CanWakeup(initproc)
    /\ state' = Wakeup(p, initproc)
    /\ UNCHANGED <<chan, killed, pc, child, plock, wait_lock, cpu, ret>>

\* Mutant: exit does not wait for the end of reparent's loop.
WakeParentEarly(p) ==
    /\ Runs(p, "reparent")
    /\ CanWakeup(parent[p])
    /\ state' = Wakeup(p, parent[p])
    /\ Goto(p, "zombie")
    /\ UNCHANGED <<chan, killed, parent, child, plock, wait_lock, cpu, ret>>

WakeParent(p) ==
    /\ Runs(p, "reparent")
    /\ Children(p) = {}
    /\ CanWakeup(parent[p])
    /\ state' = Wakeup(p, parent[p])
    /\ Goto(p, "zombie")
    /\ UNCHANGED <<chan, killed, parent, child, plock, wait_lock, cpu, ret>>

\* Takes p->lock before it gives wait_lock back.
Zombie(p) ==
    /\ Runs(p, "zombie")
    /\ ~plock[p]
    /\ plock' = [plock EXCEPT ![p] = TRUE]
    /\ state' = [state EXCEPT ![p] = "ZOMBIE"]
    /\ wait_lock' = None
    /\ Goto(p, "none")
    /\ UNCHANGED <<chan, killed, parent, child, cpu, ret>>

-----------------------------------------------------------------------------
(* wait and sleep.                                                         *)

WaitCall(p) ==
    /\ Runs(p, "kernel")
    /\ Goto(p, "wait acquire")
    /\ UNCHANGED <<table, child, plock, wait_lock, cpu, ret>>

\* In wait, and again at the end of sleep.
WaitLock(p) ==
    /\ Runs(p, "wait acquire")
    /\ wait_lock = None
    /\ wait_lock' = p
    /\ Goto(p, "scan")
    /\ UNCHANGED <<table, child, plock, cpu, ret>>

\* Mutant: freeproc does not set the state to UNUSED.
ReapLeavesState(p, q) ==
    /\ Runs(p, "scan")
    /\ q \in Children(p) /\ ~plock[q] /\ state[q] = "ZOMBIE"
    /\ parent' = [parent EXCEPT ![q] = None]
    /\ chan' = [chan EXCEPT ![q] = None]
    /\ killed' = [killed EXCEPT ![q] = 0]
    /\ wait_lock' = None
    /\ Goto(p, "user")
    /\ UNCHANGED <<state, child, plock, cpu, ret>>

\* The scan finds a zombie and takes its lock: freeproc.
Reap(p, q) ==
    /\ Runs(p, "scan")
    /\ q \in Children(p) /\ ~plock[q] /\ state[q] = "ZOMBIE"
    /\ state' = [state EXCEPT ![q] = "UNUSED"]
    /\ parent' = [parent EXCEPT ![q] = None]
    /\ chan' = [chan EXCEPT ![q] = None]
    /\ killed' = [killed EXCEPT ![q] = 0]
    /\ wait_lock' = None
    /\ Goto(p, "user")
    /\ UNCHANGED <<child, plock, cpu, ret>>

\* copyout of the status fails: the zombie stays.
ReapFault(p, q) ==
    /\ Runs(p, "scan") /\ p # initproc
    /\ q \in Children(p) /\ ~plock[q] /\ state[q] = "ZOMBIE"
    /\ wait_lock' = None
    /\ Goto(p, "user")
    /\ UNCHANGED <<table, child, plock, cpu, ret>>

\* Mutant: wait_lock is given back before sleep.
NoZombieUnlocks(p) ==
    /\ Runs(p, "scan")
    /\ \A q \in Children(p) : state[q] # "ZOMBIE"
    /\ wait_lock' = None
    /\ Goto(p, IF Children(p) = {} \/ killed[p] = 1 THEN "user" ELSE "sleep")
    /\ UNCHANGED <<table, child, plock, cpu, ret>>

\* No zombie: give up without children or when killed, else sleep.
NoZombie(p) ==
    /\ Runs(p, "scan")
    /\ \A q \in Children(p) : state[q] # "ZOMBIE"
    /\ IF Children(p) = {} \/ killed[p] = 1
       THEN wait_lock' = None /\ Goto(p, "user")
       ELSE wait_lock' = wait_lock /\ Goto(p, "sleep")
    /\ UNCHANGED <<table, child, plock, cpu, ret>>

\* sleep(p, &wait_lock) up to sched: p->lock is taken before wait_lock is
\* given back.
Sleep(p) ==
    /\ Runs(p, "sleep")
    /\ ~plock[p]
    /\ plock' = [plock EXCEPT ![p] = TRUE]
    /\ wait_lock' = None
    /\ chan' = [chan EXCEPT ![p] = p]
    /\ state' = [state EXCEPT ![p] = "SLEEPING"]
    /\ Goto(p, "slept")
    /\ UNCHANGED <<killed, parent, child, cpu, ret>>

\* The return from sched in sleep.
Awake(p) ==
    /\ Runs(p, "slept")
    /\ chan' = [chan EXCEPT ![p] = None]
    /\ plock' = [plock EXCEPT ![p] = FALSE]
    /\ Goto(p, "relock")
    /\ UNCHANGED <<state, killed, parent, child, wait_lock, cpu, ret>>

-----------------------------------------------------------------------------
(* kill, and setkilled when q is p.                                        *)

Kill(p, q) ==
    /\ Runs(p, "kernel") /\ p # initproc
    /\ ~plock[q] /\ state[q] # "UNUSED"
    /\ killed' = [killed EXCEPT ![q] = 1]
    /\ state' = [state EXCEPT ![q] = IF @ = "SLEEPING" THEN "RUNNABLE" ELSE @]
    /\ Goto(p, "user")
    /\ UNCHANGED <<chan, parent, child, plock, wait_lock, cpu, ret>>

-----------------------------------------------------------------------------
ExitStep(p) == ExitLock(p) \/ Reparent(p) \/ WakeParent(p) \/ Zombie(p)

WaitStep(p) ==
    \/ (\E q \in Procs : Reap(p, q) \/ ReapFault(p, q))
    \/ NoZombie(p) \/ Sleep(p) \/ WaitLock(p)

ForkStep(p) == ForkParent(p) \/ ForkRun(p)

SysCall(p) ==
    \/ (\E np \in Procs : ForkAlloc(p, np)) \/ ForkFail(p)
    \/ ExitCall(p) \/ WaitCall(p) \/ (\E q \in Victims : Kill(p, q))

Next ==
    \/ \E c \in CPUs, p \in Procs : Schedule(c, p)
    \/ \E c \in CPUs : SwitchOut(c)
    \/ \E p \in Procs : \/ Resume(p) \/ Awake(p) \/ UserTrap(p) \/ PushOff(p)
                        \/ Yield(p) \/ KernelYield(p) \/ SysCall(p)
                        \/ ForkStep(p) \/ ExitStep(p) \/ WaitStep(p)

SwitchIn(p) == (\E c \in CPUs : Schedule(c, p)) \/ Resume(p) \/ Awake(p)
Proceed(p) ==
    UserTrap(p) \/ PushOff(p) \/ ForkStep(p) \/ ExitStep(p) \/ WaitStep(p)

\* A CPU in the scheduler's loop comes to every runnable process and switches
\* to it; a process that runs at a place again and again gets past it (the
\* timer does not always come first, a spinlock that is free again and again
\* is obtained); the timer also comes while p is in user mode; init waits for
\* its children.
Fairness ==
    /\ \A c \in CPUs : WF_vars(SwitchOut(c))
    /\ \A p \in Procs :
        SF_vars(SwitchIn(p)) /\ SF_vars(Proceed(p)) /\ SF_vars(Yield(p))
    /\ SF_vars(WaitCall(initproc))

Spec == Init /\ [][Next]_vars
FairSpec == Spec /\ Fairness

-----------------------------------------------------------------------------
(* Properties.                                                             *)

Pcs == {"none", "yielded", "user", "kernel", "fork parent", "fork acquire", "fork run",
        "exit", "exit acquire", "reparent", "zombie", "wait acquire", "scan",
        "sleep", "slept", "relock"}
States == {"UNUSED", "USED", "SLEEPING", "RUNNABLE", "RUNNING", "ZOMBIE"}

\* The fields of struct proc have their types.
TypeOK ==
    /\ state \in [Procs -> States]
    /\ chan \in [Procs -> Procs \cup {None}]
    /\ killed \in [Procs -> {0, 1}]
    /\ parent \in [Procs -> Procs \cup {None}]
    /\ pc \in [Procs -> Pcs]
    /\ ret \in [Procs -> Pcs]
    /\ child \in [Procs -> Procs \cup {None}]
    /\ plock \in [Procs -> BOOLEAN]
    /\ wait_lock \in Procs \cup {None}
    /\ cpu \in [CPUs -> Procs \cup {None}]

\* A kernel stack is used by one CPU at a time, and only while the process is
\* RUNNING or on its way into or out of swtch with its lock held: a slot that
\* wait frees, or that the scheduler takes, is on no other CPU.
OneCpuPerProc ==
    /\ \A c, d \in CPUs : cpu[c] = cpu[d] /\ cpu[c] # None => c = d
    /\ \A p \in Procs : OnCpu(p) => state[p] = "RUNNING" \/ plock[p]
    /\ \A p \in Procs : state[p] = "RUNNING" => OnCpu(p)

WaitLockPcs == {"reparent", "zombie", "scan", "sleep"}

\* wait_lock is held by the one process that is between its acquire and its
\* release in exit, wait and sleep.
WaitLockHeld ==
    \A p \in Procs : wait_lock = p <=> pc[p] \in WaitLockPcs /\ state[p] # "UNUSED"

\* No lost wakeup: no process sleeps in wait() while it has a zombie child,
\* even when exit of the child, exit of the child's former parent, kill and
\* wait overlap.
NoLostWakeup ==
    \A p \in Procs : state[p] = "SLEEPING" =>
        \A q \in Children(p) : state[q] # "ZOMBIE"

\* Every process that can run or be waited for has a living parent that can
\* still wait for it: exit leaves no child behind, fork publishes no child
\* without a parent.
NoOrphan ==
    \A q \in Procs \ {initproc} :
        state[q] \in {"SLEEPING", "RUNNABLE", "RUNNING", "ZOMBIE"} =>
            /\ parent[q] \in Procs
            /\ state[parent[q]] \in {"SLEEPING", "RUNNABLE", "RUNNING"}

\* exit has begun for everyone else once p has wait_lock: nobody looks at the
\* tree before p is a zombie and its children are init's.  A child is there
\* once it has a parent.
Exited(p) == state[p] = "ZOMBIE" \/ pc[p] \in {"reparent", "zombie"}
Life(p) ==
    IF state[p] = "UNUSED" \/ (state[p] = "USED" /\ parent[p] = None) THEN "free"
    ELSE IF Exited(p) THEN "dead" ELSE "alive"
TreeParent(p) ==
    IF parent[p] # None /\ Exited(parent[p]) THEN initproc ELSE parent[p]

Tree == INSTANCE ProcessTree WITH life <- [p \in Procs |-> Life(p)],
                                  parent <- [p \in Procs |-> TreeParent(p)]

\* fork, exit and wait, interleaved lock by lock on several CPUs, are single
\* steps on the tree of processes: an exit hands all children to init at once,
\* a child is reaped once, by its parent, and its slot is not reused before.
ImplementsTree == Tree!Spec

\* A process that has begun to exit becomes a zombie.
ExitCompletes == \A p \in Procs : pc[p] = "exit" ~> state[p] = "ZOMBIE"

\* A zombie that belongs to init is reaped.
InitReaps ==
    \A p \in Procs : state[p] = "ZOMBIE" /\ parent[p] = initproc
                     ~> state[p] = "UNUSED"
=============================================================================
